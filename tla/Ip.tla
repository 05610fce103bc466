--------------------------------- MODULE Ip ---------------------------------
(***************************************************************************)
(* IP and network input (net/net.c, ip.c, and icmp_in's answers to pings): *)
(* who has the packet buffers of netbufpool while netin reads and passes   *)
(* packets up, processes send, and ipout sends what ip_enqueue left for    *)
(* it.  Addresses are what they mean to this machine: "us", "bcast" (all   *)
(* ones, or the network's), "loop" (127/8), "near" or "far".               *)
(***************************************************************************)
EXTENDS SemaphoreOps, FiniteSets

CONSTANTS
  Senders,     \* processes that call ip_send
  IP_OQSIZ,
  NetBufs,     \* buffers in netbufpool
  UpperRoom    \* packets the queues of UDP and ICMP hold

ASSUME IpSizes ==
  /\ IP_OQSIZ \in Nat \ {0} /\ NetBufs \in Nat \ {0} /\ UpperRoom \in Nat
  /\ IsFiniteSet(Senders)

VARIABLES
  ipvalid,     \* NetData.ipvalid: DHCP has found an address
  netfree,     \* free buffers
  netinat,     \* netin: "getbuf", "read", or "reply" (in icmp_mkpkt, for a ping)
  ipoqueue,    \* destinations of the packets in the ring
  iqsem,
  iqoverrun,   \* ip_enqueue wrote over a packet that ipout had not taken
  ipoutat,     \* ipout: "top", "wait", "arp" or "write"
  sender,      \* [Senders]: "out", "ip_send", "reply", "arp" or "write", and to where
  upper,       \* packets in the queues of UDP and ICMP
  netlost      \* buffers of senders that were killed, or of packets written over
ipVars == <<ipvalid, netfree, netinat, ipoqueue, iqsem, iqoverrun, ipoutat, sender, upper,
            netlost>>

Destinations == {"us", "bcast", "loop", "near", "far"}
Protocols == {"udp", "ping", "reply", "other"}
NoSend == [at |-> "out", to |-> "none", proto |-> "none"]

IpInit ==
  /\ ipvalid = FALSE
  /\ netfree = NetBufs /\ netinat = "getbuf"
  /\ ipoqueue = <<>> /\ iqsem = NewSem(0) /\ iqoverrun = FALSE /\ ipoutat = "top"
  /\ sender = [p \in Senders |-> NoSend]
  /\ upper = 0 /\ netlost = 0

(* ip_local, of anything but a ping: udp_in or icmp_in queues the packet, or
   the buffer is freed. *)
IpLocal(freed, proto) ==
  \/ proto # "other" /\ upper < UpperRoom /\ upper' = upper + 1 /\ netfree' = netfree + freed
  \/ netfree' = netfree + freed + 1 /\ UNCHANGED upper

Overflows(n) == n >= IP_OQSIZ        \* semcount is looked at, not the queue

DroppedCounted == iqsem' = Signal(iqsem)     \* fault: the dropped packet is signalled too
Dropped == UNCHANGED iqsem

(* The packet's place in the ring: when it is full, that of the packet at its head,
   which is lost.  The model stops there: ipout will find one packet more than
   there are, and free the last of them twice. *)
IpEnqueue(to) ==
  IF Len(ipoqueue) < IP_OQSIZ
  THEN ipoqueue' = Append(ipoqueue, to) /\ UNCHANGED <<iqoverrun, netlost>>
  ELSE /\ ipoqueue' = [ipoqueue EXCEPT ![1] = to]
       /\ iqoverrun' = TRUE /\ netlost' = netlost + 1

(* icmp_in, of a ping: once it has a buffer the reply is put on the output
   queue, or dropped, and the request is freed. *)
Reply ==
  /\ netfree > 0
  /\ IF Overflows(iqsem.count)
     THEN /\ netfree' = netfree + 1 /\ Dropped
          /\ UNCHANGED <<ipoqueue, iqoverrun, netlost>>
     ELSE /\ \E to \in {"us", "near", "far"} : IpEnqueue(to)
          /\ iqsem' = Signal(iqsem)
          /\ UNCHANGED netfree

(* ipout is past its wait and has not taken the packet.  It runs with interrupts
   on and shares its priority with netin, which may come in between. *)
IpoutDue == ipoutat = "wait" /\ ~WaitsAt("ipout", iqsem)

-----------------------------------------------------------------------------
(* netin *)

NetinGetbuf ==
  /\ ~iqoverrun /\ netinat = "getbuf" /\ netfree > 0
  /\ netfree' = netfree - 1 /\ netinat' = "read"
  /\ UNCHANGED <<ipvalid, ipoqueue, iqsem, iqoverrun, ipoutat, sender, upper, netlost>>

(* A frame that is not IP: arp_in frees its buffer, netin the others'. *)
NetinOther ==
  /\ ~iqoverrun /\ netinat = "read"
  /\ netfree' = netfree + 1 /\ netinat' = "getbuf"
  /\ UNCHANGED <<ipvalid, ipoqueue, iqsem, iqoverrun, ipoutat, sender, upper, netlost>>

(* ip_in: a packet is for this machine, or not.  Before there is an address
   only UDP passes, wherever it goes. *)
Accepted(to, proto) ==
  \/ to = "bcast"
  \/ IF ipvalid THEN to = "us" ELSE proto = "udp"

NetinIp(to, proto, sound) ==
  /\ ~iqoverrun /\ netinat = "read"
  /\ IF sound /\ Accepted(to, proto) /\ proto = "ping"
     THEN netinat' = "reply" /\ UNCHANGED <<netfree, upper>>
     ELSE /\ netinat' = "getbuf"
          /\ IF sound /\ Accepted(to, proto) THEN IpLocal(0, proto)
             ELSE netfree' = netfree + 1 /\ UNCHANGED upper
  /\ UNCHANGED <<ipvalid, ipoqueue, iqsem, iqoverrun, ipoutat, sender, netlost>>

NetinReplies ==
  /\ ~iqoverrun /\ netinat = "reply" /\ Reply
  /\ netinat' = "getbuf"
  /\ UNCHANGED <<ipvalid, ipoutat, sender, upper>>

-----------------------------------------------------------------------------
(* ipout *)

IpoutWaits ==
  /\ ~iqoverrun /\ ipoutat = "top" /\ ipoutat' = "wait"
  /\ iqsem' = IF Passes(iqsem) THEN Take(iqsem) ELSE Blocks(iqsem, "ipout")
  /\ UNCHANGED <<ipvalid, netfree, netinat, ipoqueue, iqoverrun, sender, upper, netlost>>

(* The packet at the head: for this machine, without a next hop, or to be sent. *)
IpoutTakes ==
  /\ ~iqoverrun /\ IpoutDue
  /\ ipoqueue' = Tail(ipoqueue)
  /\ \/ Head(ipoqueue) = "us" /\ ipoutat' = "top" /\ IpLocal(0, "reply")
     \/ Head(ipoqueue) = "far" /\ ipoutat' = "top" /\ netfree' = netfree + 1 /\ UNCHANGED upper
     \/ Head(ipoqueue) # "us" /\ ipoutat' = "arp" /\ UNCHANGED <<netfree, upper>>
  /\ UNCHANGED <<ipvalid, netinat, iqsem, iqoverrun, sender, netlost>>

IpoutResolves ==
  /\ ~iqoverrun /\ ipoutat = "arp"
  /\ \/ ipoutat' = "write" /\ UNCHANGED netfree
     \/ ipoutat' = "top" /\ netfree' = netfree + 1
  /\ UNCHANGED <<ipvalid, netinat, ipoqueue, iqsem, iqoverrun, sender, upper, netlost>>

(* ip_out frees the buffer when the device has the packet. *)
IpoutSends ==
  /\ ~iqoverrun /\ ipoutat = "write" /\ ipoutat' = "top"
  /\ netfree' = netfree + 1
  /\ UNCHANGED <<ipvalid, netinat, ipoqueue, iqsem, iqoverrun, sender, upper, netlost>>

-----------------------------------------------------------------------------
(* Senders: udp_send and icmp_send, which call ip_send *)

SendGetbuf(p, to, proto) ==
  /\ ~iqoverrun /\ sender[p] = NoSend /\ netfree > 0
  /\ netfree' = netfree - 1
  /\ sender' = [sender EXCEPT ![p] = [at |-> "ip_send", to |-> to, proto |-> proto]]
  /\ UNCHANGED <<ipvalid, netinat, ipoqueue, iqsem, iqoverrun, ipoutat, upper, netlost>>

SendAt(p, at) == ~iqoverrun /\ sender[p].at = at
SendMoves(p, at) == sender' = [sender EXCEPT ![p].at = at]
SendEnds(p) == sender' = [sender EXCEPT ![p] = NoSend]

(* 127/8 and this machine's address: passed up at once. *)
SendLocal(p) ==
  /\ SendAt(p, "ip_send") /\ sender[p].to \in {"us", "loop"}
  /\ IF sender[p].proto = "ping"
     THEN SendMoves(p, "reply") /\ UNCHANGED <<netfree, upper>>
     ELSE SendEnds(p) /\ IpLocal(0, sender[p].proto)
  /\ UNCHANGED <<ipvalid, netinat, ipoqueue, iqsem, iqoverrun, ipoutat, netlost>>

SendReplies(p) ==
  /\ SendAt(p, "reply") /\ Reply /\ SendEnds(p)
  /\ UNCHANGED <<ipvalid, netinat, ipoutat, upper>>

SendRouted(p) ==
  /\ SendAt(p, "ip_send") /\ sender[p].to \in {"bcast", "near", "far"}
  /\ SendMoves(p, IF sender[p].to = "bcast" THEN "write" ELSE "arp")
  /\ UNCHANGED <<ipvalid, netfree, netinat, ipoqueue, iqsem, iqoverrun, ipoutat, upper, netlost>>

UnroutedFreed == netfree + 1

(* No router, or arp_resolve fails: the packet is dropped, SYSERR returned. *)
SendFails(p) ==
  /\ SendEnds(p)
  /\ \/ SendAt(p, "ip_send") /\ sender[p].to = "far"
     \/ SendAt(p, "arp")
  /\ netfree' = UnroutedFreed
  /\ UNCHANGED <<ipvalid, netinat, ipoqueue, iqsem, iqoverrun, ipoutat, upper, netlost>>

SendResolved(p) ==
  /\ SendAt(p, "arp") /\ SendMoves(p, "write")
  /\ UNCHANGED <<ipvalid, netfree, netinat, ipoqueue, iqsem, iqoverrun, ipoutat, upper, netlost>>

SendWritten(p) ==
  /\ SendAt(p, "write") /\ SendEnds(p)
  /\ netfree' = netfree + 1
  /\ UNCHANGED <<ipvalid, netinat, ipoqueue, iqsem, iqoverrun, ipoutat, upper, netlost>>

(* kill does not know of the buffer. *)
SenderKilled(p) ==
  /\ ~iqoverrun /\ sender[p] # NoSend /\ SendEnds(p)
  /\ netlost' = netlost + (IF sender[p].at = "out" THEN 0 ELSE 1)
  /\ UNCHANGED <<ipvalid, netfree, netinat, ipoqueue, iqsem, iqoverrun, ipoutat, upper>>

(* udp_recv, icmp_recv and the releases free what they take. *)
UpperFrees ==
  /\ ~iqoverrun /\ upper > 0
  /\ upper' = upper - 1 /\ netfree' = netfree + 1
  /\ UNCHANGED <<ipvalid, netinat, ipoqueue, iqsem, iqoverrun, ipoutat, sender, netlost>>

GotAddress ==
  /\ ~iqoverrun /\ ~ipvalid /\ ipvalid' = TRUE
  /\ UNCHANGED <<netfree, netinat, ipoqueue, iqsem, iqoverrun, ipoutat, sender, upper, netlost>>

IpNext ==
  \/ NetinGetbuf \/ NetinOther \/ NetinReplies
  \/ \E to \in {"us", "bcast", "far"}, proto \in Protocols, sound \in BOOLEAN : NetinIp(to, proto, sound)
  \/ IpoutWaits \/ IpoutTakes \/ IpoutResolves \/ IpoutSends
  \/ \E p \in Senders :
       \/ \E to \in Destinations, proto \in {"udp", "ping"} : SendGetbuf(p, to, proto)
       \/ SendLocal(p) \/ SendReplies(p) \/ SendRouted(p) \/ SendFails(p)
       \/ SendResolved(p) \/ SendWritten(p) \/ SenderKilled(p)
  \/ UpperFrees \/ GotAddress

IpSpec == IpInit /\ [][IpNext]_ipVars

-----------------------------------------------------------------------------
(* Properties *)

(* Every buffer is free or in one hand, and freed once, on every path through
   ip_in, ip_send, ipout and the output queue; only kill loses one, and a full
   ring written over. *)
NetBuffersConserved ==
  netfree + upper + netlost + Len(ipoqueue)
    + (IF netinat = "getbuf" THEN 0 ELSE 1)
    + (IF ipoutat \in {"arp", "write"} THEN 1 ELSE 0)
    + Cardinality({p \in Senders : sender[p] # NoSend}) = NetBufs

(* ip_enqueue looks for room in the semaphore, not in the ring: no packet is
   written over but while ipout has been let through for one it has not taken. *)
OutputQueueFits == Len(ipoqueue) <= IP_OQSIZ /\ (iqoverrun => IpoutDue)

(* ipout takes a packet only when there is one. *)
IpoutFindsPacket == IpoutDue => ipoqueue # <<>>

(* The buffers and the output queue, between netin, ipout and the senders. *)
QueueSound == NetBuffersConserved /\ OutputQueueFits /\ IpoutFindsPacket
=============================================================================
