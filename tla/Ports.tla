------------------------------- MODULE Ports --------------------------------
(***************************************************************************)
(* Ports (system/pt*.c): queues of one-word messages between processes.    *)
(* Calls run with interrupts disabled, so a call is one step up to where   *)
(* it may lose the processor: a wait that blocks, the dispose function,    *)
(* and the ends of semreset and semdelete.  Priorities are left open: any  *)
(* process that does not wait may go on.                                   *)
(***************************************************************************)
EXTENDS SemaphoreOps, FiniteSets

CONSTANTS
  Callers,     \* processes
  NPORTS,
  PT_MSGS,     \* message nodes
  Counts,      \* sizes asked of ptcreate
  Words,       \* messages
  MaxSeq       \* bound: ptseq of a port, no ptcreate, ptreset or ptdelete above it

PortIds == 0..(NPORTS - 1)
Idle == [op |-> "none", port |-> 0, seq |-> 0, msg |-> 0, phase |-> 0]

ASSUME PortSizes ==
  /\ NPORTS \in Nat \ {0} /\ PT_MSGS \in Nat \ {0}
  /\ Counts \subseteq Nat /\ Words \subseteq Nat /\ MaxSeq \in Nat
  /\ IsFiniteSet(Callers)

VARIABLES
  ptstate, ptseq, ptmaxcnt, ptssem, ptrsem,     \* [PortIds]: porttab
  ptqueue,      \* [PortIds]: the messages linked from pthead to pttail
  ptfree,       \* the number of nodes on the free list
  ptnextid,
  call,         \* [Callers]: what is left of the call a process is in
  panicked

portTab == <<ptstate, ptseq, ptmaxcnt, ptssem, ptrsem, ptqueue>>
portVars == <<portTab, ptfree, ptnextid, call, panicked>>

PortsInit ==
  /\ ptstate = [n \in PortIds |-> "free"]
  /\ ptseq = [n \in PortIds |-> 0]
  /\ ptmaxcnt = [n \in PortIds |-> 0]
  /\ ptssem = [n \in PortIds |-> NewSem(0)]
  /\ ptrsem = [n \in PortIds |-> NewSem(0)]
  /\ ptqueue = [n \in PortIds |-> <<>>]
  /\ ptfree = PT_MSGS
  /\ ptnextid = 0
  /\ call = [p \in Callers |-> Idle]
  /\ panicked = FALSE

CanCall(p) == ~panicked /\ call[p] = Idle
Alloc(n) == ptstate[n] = "alloc"

(* p goes on in its call: it waits at no semaphore. *)
GoesOn(p, op) ==
  /\ ~panicked /\ call[p].op = op
  /\ \A n \in PortIds : ~WaitsAt(p, ptssem[n]) /\ ~WaitsAt(p, ptrsem[n])

Done(p) == call' = [call EXCEPT ![p] = Idle]
Enters(p, op, n, m) ==
  call' = [call EXCEPT ![p] = [op |-> op, port |-> n, seq |-> ptseq[n], msg |-> m, phase |-> 0]]

(* The port is still the one the process waited at. *)
StillThereByState(p) ==           \* fault: the sequence number is not compared
  ptstate[call[p].port] = "alloc"
StillThere(p) ==
  ptstate[call[p].port] = "alloc" /\ ptseq[call[p].port] = call[p].seq

-----------------------------------------------------------------------------
(* ptcreate *)

After(n) == (n + 1) % NPORTS

(* The first free entry from ptnextid on. *)
NextPort(n) ==
  /\ ptstate[n] = "free"
  /\ \A k \in 0..(NPORTS - 1) :
       (\A j \in 0..k : (ptnextid + j) % NPORTS # n) => ptstate[(ptnextid + k) % NPORTS] # "free"

Ptcreate(p, count) ==
  /\ CanCall(p)
  /\ \E n \in PortIds :
       /\ NextPort(n) /\ ptseq[n] < MaxSeq
       /\ ptstate' = [ptstate EXCEPT ![n] = "alloc"]
       /\ ptssem' = [ptssem EXCEPT ![n] = NewSem(count)]
       /\ ptrsem' = [ptrsem EXCEPT ![n] = NewSem(0)]
       /\ ptqueue' = [ptqueue EXCEPT ![n] = <<>>]
       /\ ptseq' = [ptseq EXCEPT ![n] = @ + 1]
       /\ ptmaxcnt' = [ptmaxcnt EXCEPT ![n] = count]
       /\ ptnextid' = After(n)
  /\ UNCHANGED <<ptfree, call, panicked>>

-----------------------------------------------------------------------------
(* ptsend *)

EnqueueFirst(q, m) == <<m>> \o q  \* fault: the node is linked at the head
Linked(q, m) == Append(q, m)

(* From the wait on: a node is taken and linked, and a receiver is released. *)
Deposit(p, n, m) ==
  IF ptfree = 0
  THEN /\ panicked' = TRUE
       /\ UNCHANGED <<ptqueue, ptfree, ptrsem>>
  ELSE /\ ptqueue' = [ptqueue EXCEPT ![n] = Linked(@, m)]
       /\ ptfree' = ptfree - 1
       /\ ptrsem' = [ptrsem EXCEPT ![n] = Signal(@)]
       /\ UNCHANGED panicked

Ptsend(p, n, m) ==
  /\ CanCall(p) /\ Alloc(n) /\ Passes(ptssem[n])
  /\ ptssem' = [ptssem EXCEPT ![n] = Take(@)]
  /\ Deposit(p, n, m)
  /\ UNCHANGED <<ptstate, ptseq, ptmaxcnt, ptnextid, call>>

PtsendBlocks(p, n, m) ==
  /\ CanCall(p) /\ Alloc(n) /\ ~Passes(ptssem[n])
  /\ ptssem' = [ptssem EXCEPT ![n] = Blocks(@, p)]
  /\ Enters(p, "send", n, m)
  /\ UNCHANGED <<ptstate, ptseq, ptmaxcnt, ptrsem, ptqueue, ptfree, ptnextid, panicked>>

PtsendRest(p) ==
  /\ GoesOn(p, "send") /\ Done(p)
  /\ IF StillThere(p)
     THEN Deposit(p, call[p].port, call[p].msg)
     ELSE UNCHANGED <<ptqueue, ptfree, ptrsem, panicked>>
  /\ UNCHANGED <<ptstate, ptseq, ptmaxcnt, ptssem, ptnextid>>

-----------------------------------------------------------------------------
(* ptrecv *)

(* From the wait on: the first node is returned, and a sender is released. *)
Withdraw(n) ==
  /\ ptqueue' = [ptqueue EXCEPT ![n] = SubSeq(@, 2, Len(@))]
  /\ ptfree' = ptfree + 1
  /\ ptssem' = [ptssem EXCEPT ![n] = Signal(@)]

Ptrecv(p, n) ==
  /\ CanCall(p) /\ Alloc(n) /\ Passes(ptrsem[n])
  /\ ptrsem' = [ptrsem EXCEPT ![n] = Take(@)]
  /\ Withdraw(n)
  /\ UNCHANGED <<ptstate, ptseq, ptmaxcnt, ptnextid, call, panicked>>

PtrecvBlocks(p, n) ==
  /\ CanCall(p) /\ Alloc(n) /\ ~Passes(ptrsem[n])
  /\ ptrsem' = [ptrsem EXCEPT ![n] = Blocks(@, p)]
  /\ Enters(p, "recv", n, 0)
  /\ UNCHANGED <<ptstate, ptseq, ptmaxcnt, ptssem, ptqueue, ptfree, ptnextid, panicked>>

PtrecvRest(p) ==
  /\ GoesOn(p, "recv") /\ Done(p)
  /\ IF StillThere(p) THEN Withdraw(call[p].port) ELSE UNCHANGED <<ptqueue, ptfree, ptssem>>
  /\ UNCHANGED <<ptstate, ptseq, ptmaxcnt, ptrsem, ptnextid, panicked>>

-----------------------------------------------------------------------------
(* ptreset and ptdelete: _ptclear *)

PtclearSeq(n) == [ptseq EXCEPT ![n] = @ + 1]

(* op is "reset" or "delete". *)
PtclearStart(p, n, op) ==
  /\ CanCall(p) /\ Alloc(n) /\ ptseq[n] < MaxSeq
  /\ ptstate' = [ptstate EXCEPT ![n] = "limbo"]
  /\ ptseq' = PtclearSeq(n)
  /\ Enters(p, op, n, 0)
  /\ UNCHANGED <<ptmaxcnt, ptssem, ptrsem, ptqueue, ptfree, ptnextid, panicked>>

(* The dispose function has the next message, and may give up the processor. *)
Dispose(p, op) ==
  /\ GoesOn(p, op) /\ call[p].phase < Len(ptqueue[call[p].port])
  /\ call' = [call EXCEPT ![p].phase = @ + 1]
  /\ UNCHANGED <<portTab, ptfree, ptnextid, panicked>>

Emptied(q) == <<>>

SecondHalf(op) == IF op = "reset" THEN "reset2" ELSE "delete2"

NodesReturned(n) == ptfree + Len(ptqueue[n])

(* All nodes go to the free list; the senders are released. *)
PtclearSenders(p, op) ==
  LET n == call[p].port
      newcount == IF op = "reset" THEN ptmaxcnt[n] ELSE 0
  IN
  /\ GoesOn(p, op) /\ call[p].phase = Len(ptqueue[n])
  /\ ptfree' = NodesReturned(n)
  /\ ptqueue' = [ptqueue EXCEPT ![n] = Emptied(@)]
  /\ ptssem' = [ptssem EXCEPT ![n] = NewSem(newcount)]
  /\ call' = [call EXCEPT ![p] = [@ EXCEPT !.op = SecondHalf(op), !.phase = 0]]
  /\ UNCHANGED <<ptstate, ptseq, ptmaxcnt, ptrsem, ptnextid, panicked>>

(* The receivers are released. *)
PtclearReceivers(p, op) ==
  /\ GoesOn(p, SecondHalf(op)) /\ call[p].phase = 0
  /\ ptrsem' = [ptrsem EXCEPT ![call[p].port] = NewSem(0)]
  /\ call' = [call EXCEPT ![p].phase = 1]
  /\ UNCHANGED <<ptstate, ptseq, ptmaxcnt, ptssem, ptqueue, ptfree, ptnextid, panicked>>

PtclearEnd(p, op) ==
  LET n == call[p].port IN
  /\ GoesOn(p, SecondHalf(op)) /\ call[p].phase = 1
  /\ Done(p)
  /\ ptstate' = [ptstate EXCEPT ![n] = IF op = "reset" THEN "alloc" ELSE "free"]
  /\ ptnextid' = IF op = "reset" THEN ptnextid ELSE n
  /\ UNCHANGED <<ptseq, ptmaxcnt, ptssem, ptrsem, ptqueue, ptfree, panicked>>

(* kill, of a process anywhere in a call: its slot gets a new process. *)
PortCallerKilled(p) ==
  /\ ~panicked /\ call[p] # Idle /\ Done(p)
  /\ ptssem' = [n \in PortIds |-> IF WaitsAt(p, ptssem[n]) THEN Leaves(ptssem[n], p) ELSE ptssem[n]]
  /\ ptrsem' = [n \in PortIds |-> IF WaitsAt(p, ptrsem[n]) THEN Leaves(ptrsem[n], p) ELSE ptrsem[n]]
  /\ UNCHANGED <<ptstate, ptseq, ptmaxcnt, ptqueue, ptfree, ptnextid, panicked>>

PortStep(p) ==
  \/ \E count \in Counts : Ptcreate(p, count)
  \/ \E n \in PortIds, m \in Words : Ptsend(p, n, m) \/ PtsendBlocks(p, n, m)
  \/ \E n \in PortIds : Ptrecv(p, n) \/ PtrecvBlocks(p, n)
  \/ PtsendRest(p) \/ PtrecvRest(p)
  \/ \E op \in {"reset", "delete"} :
       \/ \E n \in PortIds : PtclearStart(p, n, op)
       \/ Dispose(p, op) \/ PtclearSenders(p, op) \/ PtclearReceivers(p, op) \/ PtclearEnd(p, op)
  \/ PortCallerKilled(p)

PortsNext == \E p \in Callers : PortStep(p)
PortsSpec == PortsInit /\ [][PortsNext]_portVars
-----------------------------------------------------------------------------
(* Properties *)

Calls == [op : {"none", "send", "recv", "reset", "delete", "reset2", "delete2"},
          port : PortIds, seq : Nat, msg : Nat, phase : Nat]
IsSem(s) == s.count \in Int /\ s.queue \in Seq(Callers)

(* Every variable has its type. *)
PortsTypeOK ==
  /\ ptstate \in [PortIds -> {"free", "limbo", "alloc"}]
  /\ ptseq \in [PortIds -> Nat] /\ ptmaxcnt \in [PortIds -> Nat]
  /\ \A n \in PortIds : IsSem(ptssem[n]) /\ IsSem(ptrsem[n])
  /\ ptqueue \in [PortIds -> Seq(Words)]
  /\ ptfree \in 0..PT_MSGS /\ ptnextid \in PortIds
  /\ call \in [Callers -> Calls] /\ panicked \in BOOLEAN

(* The processes that have been released from a wait at the port, are to go on
   and will find that it is still theirs. *)
Released(op, n) == {p \in Callers : call[p].op = op /\ call[p].port = n /\ StillThere(p)
                                     /\ ~WaitsAt(p, ptssem[n]) /\ ~WaitsAt(p, ptrsem[n])}
Units(s) == IF s.count > 0 THEN s.count ELSE 0

(* ptrecv follows pthead without a test: for every receiver that has been let
   through there is a message, and for every unit one more, through resets,
   deletions and kills. *)
ReceiverFindsMessage ==
  \A n \in PortIds : Alloc(n) =>
    Cardinality(Released("recv", n)) + Units(ptrsem[n]) <= Len(ptqueue[n])

(* A port never holds more messages than it was created for: the senders let
   through, and the units left, fit beside those that are there. *)
SenderFindsRoom ==
  \A n \in PortIds : Alloc(n) =>
    Cardinality(Released("send", n)) + Units(ptssem[n]) + Len(ptqueue[n]) <= ptmaxcnt[n]

Total(f) == FoldFunction(+, 0, f)

(* Each node is on the free list or on the list of one port. *)
NodesConserved == ptfree + Total([n \in PortIds |-> Len(ptqueue[n])]) = PT_MSGS

(* ptsend stops the system only if the ports in use were created for more
   messages than there are nodes. *)
PanicOnlyOvercommitted ==
  panicked => Total([n \in PortIds |-> IF ptstate[n] = "free" THEN 0 ELSE ptmaxcnt[n]]) > PT_MSGS

(* Ports implement the channels of PortChannels: a message is taken once, in
   order, and none is put into a port that was reset or created anew meanwhile. *)
Channel == INSTANCE PortChannels WITH
  Channels <- PortIds, Messages <- Words, Sizes <- Counts,
  open <- [n \in PortIds |-> Alloc(n)],
  room <- [n \in PortIds |-> IF Alloc(n) THEN ptmaxcnt[n] ELSE 0],
  chan <- [n \in PortIds |-> IF Alloc(n) THEN ptqueue[n] ELSE <<>>]
PortsAreChannels == Channel!Spec

(* The nodes, messages and units of the ports agree, whatever waits, resets,
   deletions, creations and kills come in between. *)
PortsSound ==
  /\ PortsTypeOK /\ NodesConserved /\ PanicOnlyOvercommitted
  /\ ReceiverFindsMessage /\ SenderFindsRoom
=============================================================================
