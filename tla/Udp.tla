-------------------------------- MODULE Udp ---------------------------------
(***************************************************************************)
(* UDP (net/udp.c, udp.h): the table of endpoints with their queues of     *)
(* packets, filled by udp_in (in netin) and emptied by receivers.  Calls   *)
(* run with interrupts disabled; the processor may be lost in recvtime, in *)
(* getbuf and in ip_send.                                                  *)
(***************************************************************************)
EXTENDS Integers, Sequences, FiniteSets, FiniteSetsExt, Functions

CONSTANTS
  Users,       \* processes
  Keys,        \* what endpoints are registered for: remote address and port, local port
  UDP_SLOTS, UDP_QSIZ,
  UdpBufs      \* packet buffers there are

ASSUME UdpSizes ==
  /\ UDP_SLOTS \in Nat \ {0} /\ UDP_QSIZ \in Nat \ {0} /\ UdpBufs \in Nat
  /\ IsFiniteSet(Users) /\ "none" \notin Users

VARIABLES
  udptab,      \* [0..UDP_SLOTS - 1]: [udstate, key, udpid, udqueue]; udcount is the length
  udpcall,     \* [Users]: <<"out">>, or in recvtime for a slot, in getbuf or in ip_send
  udpmsg,      \* [Users]: "none", "OK" (from udp_in) or "word" (from elsewhere)
  udpfree,     \* free packet buffers
  udpwild,     \* a packet was taken from an empty queue
  disturbed    \* a process was killed in udp_recv, or another took from or released
               \*   its endpoint meanwhile
udpVars == <<udptab, udpcall, udpmsg, udpfree, udpwild, disturbed>>

UdpSlots == 0..(UDP_SLOTS - 1)
Out == [at |-> "out", slot |-> 0]
FreeEndpoint == [udstate |-> "FREE", key |-> "none", udpid |-> "none", udqueue |-> <<>>]

UdpInit ==
  /\ udptab = [s \in UdpSlots |-> FreeEndpoint]
  /\ udpcall = [p \in Users |-> Out]
  /\ udpmsg = [p \in Users |-> "none"]
  /\ udpfree = UdpBufs /\ udpwild = FALSE /\ disturbed = FALSE

Registered == {s \in UdpSlots : udptab[s].udstate # "FREE"}

(* The endpoints a packet for k may go to: a full one is passed over. *)
Takers(k) == {s \in Registered : udptab[s].key = k /\ Len(udptab[s].udqueue) < UDP_QSIZ}

WokenSilently(e) == "none"          \* fault: nobody is told
Told(e) == IF e.udstate = "RECV" THEN e.udpid ELSE "none"

(* udp_in: the packet is queued and who waits is told, or its buffer is freed. *)
UdpIn(k) ==
  LET s == Min(Takers(k))
      e == udptab[s]
  IN
  /\ ~udpwild /\ udpfree > 0 /\ Takers(k) # {}
  /\ udptab' = [udptab EXCEPT ![s].udqueue = Append(@, k), ![s].udstate = "USED"]
  /\ udpfree' = udpfree - 1
  /\ udpmsg' = [p \in Users |-> IF p = Told(e) /\ udpmsg[p] = "none" THEN "OK" ELSE udpmsg[p]]
  /\ UNCHANGED <<udpcall, udpwild, disturbed>>

KeysTaken == {udptab[s].key : s \in Registered}

UdpRegister(p, k) ==
  LET s == Min(UdpSlots \ Registered) IN
  /\ ~udpwild /\ udpcall[p] = Out
  /\ k \notin KeysTaken /\ UdpSlots # Registered
  /\ udptab' = [udptab EXCEPT ![s] = [udstate |-> "USED", key |-> k, udpid |-> "none",
                                      udqueue |-> <<>>]]
  /\ UNCHANGED <<udpcall, udpmsg, udpfree, udpwild, disturbed>>

(* The process that is in udp_recv for s. *)
ReceiverOf(s) == {p \in Users : udpcall[p] = [at |-> "recv", slot |-> s]}

(* udp_recv and udp_recvaddr take the first packet, copy it and free it. *)
Dequeue(s) ==
  IF udptab[s].udqueue = <<>>
  THEN /\ udpwild' = TRUE
       /\ udptab' = [udptab EXCEPT ![s].udstate = "USED"]
       /\ UNCHANGED udpfree
  ELSE /\ udptab' = [udptab EXCEPT ![s].udqueue = Tail(@), ![s].udstate = "USED"]
       /\ udpfree' = udpfree + 1
       /\ UNCHANGED udpwild

UdpRecv(p, s) ==
  /\ ~udpwild /\ udpcall[p] = Out
  /\ udptab[s].udstate = "USED" /\ udptab[s].udqueue # <<>>
  /\ Dequeue(s)
  /\ disturbed' = (disturbed \/ ReceiverOf(s) # {})
  /\ UNCHANGED <<udpcall, udpmsg>>

MsgCleared(p) == [udpmsg EXCEPT ![p] = "none"]

UdpRecvBlocks(p, s) ==
  /\ ~udpwild /\ udpcall[p] = Out
  /\ udptab[s].udstate = "USED" /\ udptab[s].udqueue = <<>>
  /\ udptab' = [udptab EXCEPT ![s].udstate = "RECV", ![s].udpid = p]
  /\ udpcall' = [udpcall EXCEPT ![p] = [at |-> "recv", slot |-> s]]
  /\ udpmsg' = MsgCleared(p)
  /\ UNCHANGED <<udpfree, udpwild, disturbed>>

Returns(p) == udpcall' = [udpcall EXCEPT ![p] = Out]

(* recvtime returns what was sent: a packet is there, or the call fails.
   Whatever has become of the endpoint, it is in use from now on. *)
UdpRecvWakes(p) ==
  LET s == udpcall[p].slot IN
  /\ ~udpwild /\ udpcall[p].at = "recv" /\ udpmsg[p] # "none"
  /\ Returns(p)
  /\ udpmsg' = [udpmsg EXCEPT ![p] = "none"]
  /\ IF udpmsg[p] = "OK" THEN Dequeue(s)
     ELSE /\ udptab' = [udptab EXCEPT ![s].udstate = "USED"]
          /\ UNCHANGED <<udpfree, udpwild>>
  /\ UNCHANGED disturbed

(* ... or TIMEOUT. *)
UdpRecvTimeout(p) ==
  /\ ~udpwild /\ udpcall[p].at = "recv" /\ udpmsg[p] = "none"
  /\ Returns(p)
  /\ udptab' = [udptab EXCEPT ![udpcall[p].slot].udstate = "USED"]
  /\ UNCHANGED <<udpmsg, udpfree, udpwild, disturbed>>

(* udp_send and udp_sendto: a buffer is had, which may take a while ... *)
UdpSend(p, s) ==
  /\ ~udpwild /\ udpcall[p] = Out /\ s \in Registered
  /\ udpcall' = [udpcall EXCEPT ![p] = [at |-> "getbuf", slot |-> 0]]
  /\ UNCHANGED <<udptab, udpmsg, udpfree, udpwild, disturbed>>

UdpSendGets(p) ==
  /\ ~udpwild /\ udpcall[p].at = "getbuf" /\ udpfree > 0
  /\ udpfree' = udpfree - 1
  /\ udpcall' = [udpcall EXCEPT ![p].at = "ip_send"]
  /\ UNCHANGED <<udptab, udpmsg, udpwild, disturbed>>

(* ... and ip_send gives it back when the packet is gone, or cannot go. *)
UdpSent(p) ==
  /\ ~udpwild /\ udpcall[p].at = "ip_send"
  /\ udpfree' = udpfree + 1
  /\ Returns(p)
  /\ UNCHANGED <<udptab, udpmsg, udpwild, disturbed>>

Drained(s) == udpfree + Len(udptab[s].udqueue)

(* All packets are freed, with rescheduling deferred. *)
UdpRelease(p, s) ==
  /\ ~udpwild /\ udpcall[p] = Out /\ s \in Registered
  /\ udptab' = [udptab EXCEPT ![s].udstate = "FREE", ![s].udqueue = <<>>]
  /\ udpfree' = Drained(s)
  /\ disturbed' = (disturbed \/ ReceiverOf(s) # {})
  /\ UNCHANGED <<udpcall, udpmsg, udpwild>>

UdpOtherMessage(p) ==
  /\ ~udpwild /\ udpmsg[p] = "none"
  /\ udpmsg' = [udpmsg EXCEPT ![p] = "word"]
  /\ UNCHANGED <<udptab, udpcall, udpfree, udpwild, disturbed>>

(* kill, of a process that receives: its slot gets a new process. *)
UdpReceiverKilled(p) ==
  /\ ~udpwild /\ udpcall[p].at = "recv"
  /\ Returns(p)
  /\ udpmsg' = [udpmsg EXCEPT ![p] = "none"]
  /\ disturbed' = TRUE
  /\ UNCHANGED <<udptab, udpfree, udpwild>>

UdpNext ==
  \/ \E k \in Keys : UdpIn(k)
  \/ \E p \in Users :
       \/ \E k \in Keys : UdpRegister(p, k)
       \/ \E s \in UdpSlots : \/ UdpRecv(p, s) \/ UdpRecvBlocks(p, s)
                              \/ UdpSend(p, s) \/ UdpRelease(p, s)
       \/ UdpRecvWakes(p) \/ UdpRecvTimeout(p) \/ UdpSendGets(p) \/ UdpSent(p)
       \/ UdpOtherMessage(p) \/ UdpReceiverKilled(p)

UdpSpec == UdpInit /\ [][UdpNext]_udpVars

-----------------------------------------------------------------------------
(* Properties *)

UdpSum(f) == FoldFunction(+, 0, f)

(* Every packet buffer is free, queued at one endpoint, or on its way out. *)
UdpBuffersConserved ==
  udpfree + UdpSum([s \in UdpSlots |-> Len(udptab[s].udqueue)])
    + Cardinality({p \in Users : udpcall[p].at = "ip_send"}) = UdpBufs

(* While its receiver has not been told of a packet, there is none: nobody sits
   out his time beside a packet, however packets, timeouts, other messages and
   other receivers fall; unless a receiver was killed, or an endpoint shared. *)
NoPacketMissed ==
  \A p \in Users, s \in UdpSlots :
    ~disturbed /\ p \in ReceiverOf(s) /\ udpmsg[p] = "none" =>
      udptab[s].udstate = "RECV" /\ udptab[s].udpid = p /\ udptab[s].udqueue = <<>>

(* The queue is taken from without a look at its count after the wait: that
   finds a packet, unless a receiver was killed or released. *)
ReceiverFindsPacket == udpwild => disturbed

(* A packet has one endpoint to go to, unless a timeout has brought back one
   that was released. *)
EndpointsDistinct ==
  disturbed \/ \A s, t \in Registered : s # t => udptab[s].key # udptab[t].key

(* The endpoints, between senders, receivers, packets, timeouts and kills. *)
EndpointsSound ==
  UdpBuffersConserved /\ NoPacketMissed /\ ReceiverFindsPacket /\ EndpointsDistinct
=============================================================================
