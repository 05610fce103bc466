----------------------------- MODULE LocalProofs -----------------------------
(***************************************************************************)
(* Memory marking (system/mark.c): MarkedForGood holds for any number of   *)
(* processes, locations and marks.                                         *)
(*                                                                         *)
(* MarksInv adds to it that the semaphore keeps all but one out of the     *)
(* assignment (OneMarks), so that the count that a process has read is     *)
(* still the count when it stores it (CountCurrent), and that an entry     *)
(* that is to be stored holds no mark yet (RestEmpty).                     *)
(*                                                                         *)
(* Ports (system/pt*.c): PortsSound holds for any number of ports, message *)
(* nodes and processes, and ports implement PortChannels.                  *)
(*                                                                         *)
(* PortsInv counts, for each port, the processes that were let through and *)
(* will find that it is still theirs (RecvDue, SendDue) against the units  *)
(* of the two semaphores and the messages.  It adds who waits at them      *)
(* (SemsOK), that a port being cleared is in limbo and belongs to one      *)
(* process, which finds what it left (CallOK, OneClears), and that nobody  *)
(* who waits has the sequence number of a port not in use (QueueOK).       *)
(*                                                                         *)
(* Buffer pools (system/mkbufpool.c, getbuf.c, freebuf.c): PoolsSound      *)
(* holds for any number of pools, buffers and processes.  PoolsInv says of *)
(* each pool by itself (PoolIs) that its list has a buffer for whoever was *)
(* let through and for every unit of its semaphore.                        *)
(*                                                                         *)
(* The heap (system/getmem.c, freemem.c, getstk.c): HeapSound holds for    *)
(* any areas of memory and any sizes.  HeapInv says of each byte that it   *)
(* is on the list or in one caller's hands, and of the list that its       *)
(* blocks are apart, from which follows which of them freemem's search     *)
(* finds (PrevIs).                                                         *)
(*                                                                         *)
(* The console's output (device/tty): OutputSound holds for any number of  *)
(* writers and any sizes.  OutInv needs no order of the writers: the units *)
(* of the semaphore and the writers let through are together its count and *)
(* the writes that have begun (Pending).                                   *)
(*                                                                         *)
(* The console's input: EditsAsPromised holds, LineEditing being what the  *)
(* buffer holds from its head on (Circle), for any size of the buffer, any *)
(* number of readers and any characters.  InInv says where the tail is:    *)
(* behind what may be read and the line.                                   *)
(*                                                                         *)
(* The remote disk (device/rds): DiskSound holds for any number of         *)
(* clients, blocks and buffers.  RdsIs orders the copies of a block: in    *)
(* the cache only the newest is valid, and behind a write, or while a copy *)
(* is valid, no request for the block waits (RdOrder); a request that is   *)
(* waited for is the only one of its process (RdAsked); the server has the *)
(* last write, or the exchange that goes on brings it (ServerCurrent), of  *)
(* which its reply is a proof (RepliesMean).                               *)
(***************************************************************************)
EXTENDS Marks, Ports, BufferPools, HeapMemory, Tty, Rds, SemaphoreProofs

Inside(p) == marking[p].at \in {"in", "set", "store", "signal"}
Holds(p) == Inside(p) /\ ~WaitsAt(p, mkmutex)

MarksTypeOK ==
  /\ marks \in [0..(MAXMARK - 1) -> Locations \cup {"none"}] /\ nmarks \in Nat
  /\ mkmutex \in [count : Int, queue : Seq(Markers)]
  /\ loc \in [Locations -> Int]
  /\ marking \in [Markers -> [loc : Locations \cup {"none"}, idx : Nat,
                              at : {"out", "wait", "in", "set", "store", "signal"}]]
  /\ \A p \in Markers : marking[p].at # "out" => marking[p].loc \in Locations
  /\ returned \subseteq Locations /\ overrun \in BOOLEAN

WaitersInside(s) ==
  /\ \A i \in DOMAIN s.queue : marking[s.queue[i]].at = "in"
  /\ \A i, j \in DOMAIN s.queue : s.queue[i] = s.queue[j] => i = j

(* The semaphore is free, or one process has it and the others inside wait. *)
OneMarks ==
  /\ WaitersInside(mkmutex)
  /\ \/ mkmutex.count = 1 /\ mkmutex.queue = <<>> /\ \A p \in Markers : ~Inside(p)
     \/ /\ mkmutex.count + Len(mkmutex.queue) = 0
        /\ \E p \in Markers : Holds(p) /\ \A q \in Markers : Holds(q) => q = p

CountCurrent ==
  \A p \in Markers :
    /\ marking[p].at = "set" => marking[p].idx = nmarks
    /\ marking[p].at = "store" =>
         nmarks = marking[p].idx + 1 /\ loc[marking[p].loc] = marking[p].idx
    /\ marking[p].at = "signal" => Marked(marking[p].loc)

RestEmpty ==
  \A j \in 0..(MAXMARK - 1) :
    /\ j >= nmarks => marks[j] = "none"
    /\ \A p \in Markers : marking[p].at = "store" /\ marking[p].idx = j => marks[j] = "none"

MarksInv ==
  /\ MarksTypeOK /\ OneMarks
  /\ ~overrun => CountCurrent /\ RestEmpty
  /\ MarkedForGood

-----------------------------------------------------------------------------
(* Queues of a semaphore *)

LEMMA AppendQueue ==
  ASSUME NEW S, NEW q \in Seq(S), NEW x \in S
  PROVE  /\ Append(q, x) \in Seq(S) /\ Len(Append(q, x)) = Len(q) + 1
         /\ ToSet(Append(q, x)) = ToSet(q) \cup {x}
         /\ \A i \in DOMAIN Append(q, x) :
              IF i = Len(q) + 1 THEN Append(q, x)[i] = x
              ELSE i \in DOMAIN q /\ Append(q, x)[i] = q[i]
<1>1. /\ Append(q, x) \in Seq(S) /\ Len(Append(q, x)) = Len(q) + 1
      /\ DOMAIN Append(q, x) = 1..(Len(q) + 1) /\ DOMAIN q = 1..Len(q) /\ Len(q) \in Nat
  OBVIOUS
<1>2. \A i \in 1..Len(q) : Append(q, x)[i] = q[i]
  OBVIOUS
<1>3. Append(q, x)[Len(q) + 1] = x
  OBVIOUS
<1>4. ToSet(Append(q, x)) = ToSet(q) \cup {x}
  BY <1>1, <1>2, <1>3 DEF ToSet
<1> QED BY <1>1, <1>2, <1>3, <1>4

LEMMA TakeKeepsQueue ==
  ASSUME NEW S, NEW s \in [count : Int, queue : Seq(S)]
  PROVE  Take(s) \in [count : Int, queue : Seq(S)] /\ Take(s).count = s.count - 1 /\ Take(s).queue = s.queue
BY DEF Take

LEMMA TailQueue ==
  ASSUME NEW S, NEW q \in Seq(S), q # <<>>
  PROVE  /\ Tail(q) \in Seq(S) /\ Len(Tail(q)) = Len(q) - 1 /\ Len(q) >= 1
         /\ q[1] \in S
         /\ \A i \in DOMAIN Tail(q) : i + 1 \in DOMAIN q /\ Tail(q)[i] = q[i + 1]
         /\ \A x \in ToSet(q) : x = q[1] \/ x \in ToSet(Tail(q))
         /\ \A x \in ToSet(Tail(q)) : x \in ToSet(q)
<1>1. /\ Tail(q) \in Seq(S) /\ Len(Tail(q)) = Len(q) - 1 /\ Len(q) \in Nat /\ Len(q) >= 1
      /\ DOMAIN q = 1..Len(q) /\ DOMAIN Tail(q) = 1..(Len(q) - 1) /\ q[1] \in S
  OBVIOUS
<1>2. \A i \in 1..(Len(q) - 1) : Tail(q)[i] = q[i + 1]
  OBVIOUS
<1>3. ASSUME NEW i \in DOMAIN q, i # 1 PROVE i - 1 \in DOMAIN Tail(q) /\ Tail(q)[i - 1] = q[i]
  <2>1. i \in 1..Len(q) /\ i - 1 \in 1..(Len(q) - 1) /\ (i - 1) + 1 = i
    BY <1>1, <1>3
  <2>2. Tail(q)[i - 1] = q[(i - 1) + 1]
    BY <1>2, <2>1
  <2> QED BY <1>1, <2>1, <2>2
<1> QED BY <1>1, <1>2, <1>3 DEF ToSet

-----------------------------------------------------------------------------
(* One process at a time *)

LEMMA Alone ==
  ASSUME MarksTypeOK, OneMarks, NEW p \in Markers, NEW q \in Markers, Holds(p), Holds(q)
  PROVE  p = q
BY DEF OneMarks, Holds

LEMMA InAssignment ==
  ASSUME MarksTypeOK, OneMarks, NEW p \in Markers, marking[p].at \in {"set", "store", "signal"}
  PROVE  Holds(p)
BY DEF OneMarks, WaitersInside, Holds, Inside, WaitsAt, ToSet, MarksTypeOK

LEMMA OneMarksInit == MarksInit => OneMarks
BY DEF MarksInit, OneMarks, WaitersInside, Inside, Nowhere, NewSem

(* A step of one process that neither enters nor leaves, and takes no waiting
   process out of its wait. *)
LEMMA OneMarksKept ==
  ASSUME MarksTypeOK, OneMarks, mkmutex' = mkmutex, NEW p \in Markers,
         \A q \in Markers : q # p => marking'[q] = marking[q],
         marking'[p].at \in {"in", "set", "store", "signal"} <=> Inside(p),
         Inside(p) => Holds(p)
  PROVE  OneMarks'
<1>1. \A q \in Markers : Inside(q)' <=> Inside(q)
  BY DEF Inside
<1>2. \A q \in Markers : Holds(q)' <=> Holds(q)
  BY <1>1 DEF Holds, WaitsAt
<1>3. \A i \in DOMAIN mkmutex.queue : mkmutex.queue[i] \in Markers /\ mkmutex.queue[i] # p
  BY DEF MarksTypeOK, OneMarks, WaitersInside, Holds, Inside, WaitsAt, ToSet
<1>4. WaitersInside(mkmutex)'
  BY <1>3 DEF OneMarks, WaitersInside
<1> QED BY <1>1, <1>2, <1>4 DEF OneMarks

LEMMA OneMarksWaits ==
  ASSUME MarksTypeOK, OneMarks, NEW p \in Markers, MarkWaits(p)
  PROVE  OneMarks' /\ mkmutex' \in [count : Int, queue : Seq(Markers)]
<1>1. /\ \A q \in Markers : q # p => marking'[q] = marking[q]
      /\ marking[p].at = "wait" /\ marking'[p].at = "in"
  BY DEF MarkWaits, At, Moves, MarksTypeOK
<1>2. \A q \in Markers : Inside(q)' <=> (q = p \/ Inside(q))
  BY <1>1 DEF Inside
<1>3. \A i \in DOMAIN mkmutex.queue : mkmutex.queue[i] \in Markers /\ mkmutex.queue[i] # p
  BY <1>1 DEF MarksTypeOK, OneMarks, WaitersInside
<1>4. CASE mkmutex.count > 0
  <2>1. mkmutex.queue = <<>> /\ mkmutex.count = 1 /\ \A q \in Markers : ~Inside(q)
    BY <1>4 DEF OneMarks, MarksTypeOK
  <2>2. mkmutex'.count = 0 /\ mkmutex'.queue = <<>> /\ mkmutex' \in [count : Int, queue : Seq(Markers)]
    <3>1. mkmutex' = Take(mkmutex) /\ mkmutex \in [count : Int, queue : Seq(Markers)]
      BY <1>4 DEF MarkWaits, Passes, MarksTypeOK
    <3> QED BY <2>1, <3>1, TakeKeepsQueue
  <2>3. Holds(p)' /\ \A q \in Markers : Holds(q)' => q = p
    BY <1>2, <2>1, <2>2 DEF Holds, WaitsAt, ToSet
  <2>4. WaitersInside(mkmutex)'
    <3>1. DOMAIN mkmutex'.queue = {}
      BY <2>2
    <3> QED BY <3>1 DEF WaitersInside
  <2>5. mkmutex'.count + Len(mkmutex'.queue) = 0
    <3>1. Len(mkmutex'.queue) = 0
      BY <2>2
    <3>2. mkmutex'.count = 0
      BY <2>2
    <3> QED BY <3>1, <3>2
  <2> QED BY <2>2, <2>3, <2>4, <2>5 DEF OneMarks
<1>5. CASE ~(mkmutex.count > 0)
  <2>1. /\ mkmutex.count + Len(mkmutex.queue) = 0
        /\ \E o \in Markers : Holds(o) /\ \A q \in Markers : Holds(q) => q = o
    BY <1>5 DEF OneMarks
  <2>2. mkmutex' = [count |-> mkmutex.count - 1, queue |-> Append(mkmutex.queue, p)]
    BY <1>5 DEF MarkWaits, Passes, Blocks, Enqueue
  <2>3. mkmutex.queue \in Seq(Markers) /\ mkmutex.count \in Int
    BY DEF MarksTypeOK
  <2>4. /\ Append(mkmutex.queue, p) \in Seq(Markers)
        /\ mkmutex'.count + Len(mkmutex'.queue) = 0
        /\ ToSet(mkmutex'.queue) = ToSet(mkmutex.queue) \cup {p}
    BY <2>1, <2>2, <2>3, AppendQueue
  <2>5. \A i \in DOMAIN Append(mkmutex.queue, p) :
              IF i = Len(mkmutex.queue) + 1 THEN Append(mkmutex.queue, p)[i] = p
              ELSE i \in DOMAIN mkmutex.queue /\ Append(mkmutex.queue, p)[i] = mkmutex.queue[i]
    BY <2>3, AppendQueue
  <2>6. WaitersInside(mkmutex)'
    <3>1. \A i \in DOMAIN mkmutex'.queue : marking'[mkmutex'.queue[i]].at = "in"
      BY <1>1, <1>3, <2>2, <2>5 DEF OneMarks, WaitersInside
    <3>2. \A i, j \in DOMAIN mkmutex'.queue : mkmutex'.queue[i] = mkmutex'.queue[j] => i = j
      BY <1>3, <2>2, <2>5 DEF OneMarks, WaitersInside
    <3> QED BY <3>1, <3>2 DEF WaitersInside
  <2>7. \A q \in Markers : Holds(q)' <=> Holds(q)
    BY <1>1, <1>2, <2>4 DEF Holds, WaitsAt, Inside
  <2> QED BY <2>1, <2>2, <2>3, <2>4, <2>6, <2>7 DEF OneMarks
<1> QED BY <1>4, <1>5

LEMMA OneMarksSignals ==
  ASSUME MarksTypeOK, OneMarks, NEW p \in Markers, MarkSignals(p)
  PROVE  OneMarks' /\ mkmutex' \in [count : Int, queue : Seq(Markers)]
<1>1. /\ \A q \in Markers : q # p => marking'[q] = marking[q]
      /\ marking[p].at = "signal" /\ marking'[p].at = "out"
      /\ mkmutex' = Signal(mkmutex)
  BY DEF MarkSignals, At, Nowhere, MarksTypeOK
<1>2. \A q \in Markers : Inside(q)' <=> (q # p /\ Inside(q))
  BY <1>1 DEF Inside
<1>3. Holds(p) /\ \A q \in Markers : Holds(q) => q = p
  BY <1>1, InAssignment, Alone
<1>4. mkmutex.count + Len(mkmutex.queue) = 0
  BY <1>3 DEF OneMarks, Holds
<1>5. \A i \in DOMAIN mkmutex.queue : mkmutex.queue[i] \in Markers /\ mkmutex.queue[i] # p
  BY <1>1 DEF MarksTypeOK, OneMarks, WaitersInside
<1>6. mkmutex.queue \in Seq(Markers) /\ Len(mkmutex.queue) \in Nat /\ mkmutex.count \in Int
  BY DEF MarksTypeOK
<1>7. CASE mkmutex.queue = <<>>
  <2>1. mkmutex' = [count |-> 1, queue |-> <<>>]
    <3>1. mkmutex.count = 0
      <4>1. Len(mkmutex.queue) = 0
        BY <1>7
      <4> QED BY <1>4, <1>6, <4>1
    <3> QED BY <1>1, <1>7, <3>1 DEF Signal
  <2>2. \A q \in Markers : ~Inside(q)'
    BY <1>2, <1>3, <1>7 DEF Holds, WaitsAt, ToSet
  <2> QED BY <2>1, <2>2 DEF OneMarks, WaitersInside
<1>8. CASE mkmutex.queue # <<>>
  <2>0. PICK next \in Markers : next = mkmutex.queue[1]
    BY <1>6, <1>8, TailQueue
  <2>1. /\ Tail(mkmutex.queue) \in Seq(Markers) /\ Len(mkmutex.queue) >= 1
        /\ Len(Tail(mkmutex.queue)) = Len(mkmutex.queue) - 1
        /\ \A i \in DOMAIN Tail(mkmutex.queue) :
             i + 1 \in DOMAIN mkmutex.queue /\ Tail(mkmutex.queue)[i] = mkmutex.queue[i + 1]
        /\ \A x \in ToSet(mkmutex.queue) : x = next \/ x \in ToSet(Tail(mkmutex.queue))
        /\ \A x \in ToSet(Tail(mkmutex.queue)) : x \in ToSet(mkmutex.queue)
    BY <1>6, <1>8, <2>0, TailQueue
  <2>2. mkmutex' = [count |-> mkmutex.count + 1, queue |-> Tail(mkmutex.queue)]
    <3>1. mkmutex.count < 0
      BY <1>4, <1>6, <2>1
    <3> QED BY <1>1, <3>1 DEF Signal
  <2>3. mkmutex'.count + Len(mkmutex'.queue) = 0 /\ mkmutex' \in [count : Int, queue : Seq(Markers)]
    BY <1>4, <1>6, <2>1, <2>2
  <2>4. WaitersInside(mkmutex)'
    <3>1. \A i \in DOMAIN Tail(mkmutex.queue) : marking'[Tail(mkmutex.queue)[i]].at = "in"
      BY <1>1, <1>5, <2>1 DEF OneMarks, WaitersInside
    <3>2. \A i, j \in DOMAIN Tail(mkmutex.queue) :
            Tail(mkmutex.queue)[i] = Tail(mkmutex.queue)[j] => i = j
      BY <1>6, <2>1 DEF OneMarks, WaitersInside
    <3> QED BY <2>2, <3>1, <3>2 DEF WaitersInside
  <2>5. 1 \in DOMAIN mkmutex.queue /\ next # p
    BY <1>5, <1>6, <2>0, <2>1
  <2>6. next \notin ToSet(Tail(mkmutex.queue))
    <3> SUFFICES ASSUME NEW i \in DOMAIN Tail(mkmutex.queue), Tail(mkmutex.queue)[i] = next
                 PROVE  FALSE
      BY DEF ToSet
    <3>1. i + 1 = 1 /\ i \in 1..Len(Tail(mkmutex.queue))
      BY <2>0, <2>1, <2>5 DEF OneMarks, WaitersInside
    <3> QED BY <2>1, <3>1
  <2>7. Holds(next)'
    <3>1. Inside(next)
      BY <2>0, <2>5 DEF OneMarks, WaitersInside, Inside
    <3> QED BY <1>2, <2>2, <2>5, <2>6, <3>1 DEF Holds, WaitsAt
  <2>8. ASSUME NEW q \in Markers, Holds(q)' PROVE q = next
    <3>1. q # p /\ Inside(q) /\ q \notin ToSet(Tail(mkmutex.queue))
      BY <1>2, <2>2, <2>8 DEF Holds, WaitsAt
    <3>2. q \in ToSet(mkmutex.queue)
      BY <1>3, <3>1 DEF Holds, WaitsAt
    <3> QED BY <2>1, <3>1, <3>2
  <2>9. \E o \in Markers : Holds(o)' /\ \A q \in Markers : Holds(q)' => q = o
    BY <2>1, <2>7, <2>8
  <2> QED BY <2>3, <2>4, <2>9 DEF OneMarks
<1> QED BY <1>7, <1>8

-----------------------------------------------------------------------------
(* The entries *)

LEMMA TypesKept ==
  ASSUME MarksTypeOK, OneMarks, NEW p \in Markers,
         \/ \E l \in Locations : MarkChecks(p, l)
         \/ MarkWaits(p) \/ MarkReads(p) \/ MarkSets(p) \/ MarkStores(p) \/ MarkSignals(p)
  PROVE  MarksTypeOK'
<1>1. CASE \E l \in Locations : MarkChecks(p, l)
  BY <1>1 DEF MarkChecks, MarksTypeOK, At
<1>2. CASE MarkWaits(p)
  <2>1. mkmutex' \in [count : Int, queue : Seq(Markers)]
    BY <1>2, OneMarksWaits
  <2> QED BY <1>2, <2>1 DEF MarkWaits, MarksTypeOK, At, Moves
<1>3. CASE MarkReads(p)
  BY ZenonT(30), <1>3 DEF MarkReads, MarksTypeOK, At
<1>4. CASE MarkSets(p)
  <2>1. marking[p].idx \in Nat /\ marking[p].idx \in Int /\ marking[p].idx + 1 \in Nat
    BY DEF MarksTypeOK
  <2>2. loc' \in [Locations -> Int] /\ nmarks' \in Nat
    BY <1>4, <2>1 DEF MarkSets, MarksTypeOK
  <2>3. marking' \in [Markers -> [loc : Locations \cup {"none"}, idx : Nat,
                                 at : {"out", "wait", "in", "set", "store", "signal"}]]
    BY <1>4 DEF MarkSets, MarksTypeOK, Moves
  <2> QED BY <1>4, <2>2, <2>3 DEF MarkSets, MarksTypeOK, At, Moves
<1>5. CASE MarkStores(p)
  BY <1>5 DEF MarkStores, MarksTypeOK, At, Moves
<1>6. CASE MarkSignals(p)
  <2>1. mkmutex' \in [count : Int, queue : Seq(Markers)]
    BY <1>6, OneMarksSignals
  <2>2. marking[p].loc \in Locations
    BY <1>6 DEF MarkSignals, MarksTypeOK, At
  <2>3. marking' \in [Markers -> [loc : Locations \cup {"none"}, idx : Nat,
                                 at : {"out", "wait", "in", "set", "store", "signal"}]]
    BY <1>6 DEF MarkSignals, MarksTypeOK, Nowhere
  <2> QED BY <1>6, <2>1, <2>2, <2>3 DEF MarkSignals, MarksTypeOK, Nowhere
<1> QED BY <1>1, <1>2, <1>3, <1>4, <1>5, <1>6

LEMMA OneMarksAlways ==
  ASSUME MarksTypeOK, OneMarks, NEW p \in Markers,
         \/ \E l \in Locations : MarkChecks(p, l)
         \/ MarkWaits(p) \/ MarkReads(p) \/ MarkSets(p) \/ MarkStores(p) \/ MarkSignals(p)
  PROVE  OneMarks'
<1>1. CASE \E l \in Locations : MarkChecks(p, l)
  <2>1. marking[p].at = "out" /\ marking'[p].at = "wait" /\ mkmutex' = mkmutex
        /\ \A q \in Markers : q # p => marking'[q] = marking[q]
    BY <1>1 DEF MarkChecks, At, MarksTypeOK
  <2> QED BY <2>1, OneMarksKept DEF Inside
<1>2. CASE MarkReads(p)
  <2>1. marking[p].at = "in" /\ marking'[p].at = "set" /\ mkmutex' = mkmutex
        /\ \A q \in Markers : q # p => marking'[q] = marking[q]
    BY <1>2 DEF MarkReads, At, MarksTypeOK
  <2>2. Holds(p)
    BY <1>2, <2>1 DEF MarkReads, Holds, Inside
  <2> QED BY <2>1, <2>2, OneMarksKept DEF Inside
<1>3. CASE MarkSets(p) \/ MarkStores(p)
  <2>1. marking[p].at \in {"set", "store"} /\ marking'[p].at \in {"store", "signal"} /\ mkmutex' = mkmutex
        /\ \A q \in Markers : q # p => marking'[q] = marking[q]
    BY <1>3 DEF MarkSets, MarkStores, At, Moves, MarksTypeOK
  <2>2. Holds(p)
    BY <2>1, InAssignment
  <2> QED BY <2>1, <2>2, OneMarksKept DEF Inside
<1> QED BY <1>1, <1>2, <1>3, OneMarksWaits, OneMarksSignals

(* The steps of a process that do not touch the entries. *)
LEMMA EntriesUntouched ==
  ASSUME MarksInv, NEW p \in Markers,
         (\E l \in Locations : MarkChecks(p, l)) \/ MarkWaits(p) \/ MarkReads(p) \/ MarkSignals(p)
  PROVE  CountCurrent' /\ RestEmpty' /\ MarkedForGood'
<1>1. /\ \A q \in Markers : q # p => marking'[q] = marking[q]
      /\ marks' = marks /\ nmarks' = nmarks /\ loc' = loc /\ overrun' = overrun /\ ~overrun
      /\ marking'[p].at \notin {"store", "signal"} /\ marking[p].at # "store"
      /\ marking'[p].at = "set" => marking'[p].idx = nmarks
  BY DEF MarkChecks, MarkWaits, MarkReads, MarkSignals, At, Moves, Nowhere, MarksInv, MarksTypeOK
<1>2. \A l \in Locations : Marked(l)' <=> Marked(l)
  BY <1>1 DEF Marked
<1>3. \A q \in Markers : marking[q].at = "signal" => marking[q].loc \in Locations
  BY DEF MarksInv, MarksTypeOK
<1>4. CountCurrent' /\ RestEmpty'
  BY <1>1, <1>2, <1>3 DEF MarksInv, CountCurrent, RestEmpty
<1>5. \A l \in returned' : l \in returned \/ (Marked(l) /\ l \in Locations)
  <2>1. CASE MarkSignals(p)
    BY <1>1, <1>3, <2>1 DEF MarkSignals, At, MarksInv, CountCurrent
  <2>2. CASE ~MarkSignals(p)
    BY <2>2 DEF MarkChecks, MarkWaits, MarkReads
  <2> QED BY <2>1, <2>2
<1>6. MarkedForGood'
  <2> SUFFICES ASSUME NEW l \in returned'
               PROVE  Marked(l)' \/ \E q \in Markers : marking'[q].loc = l /\ marking'[q].at = "store"
    BY DEF MarkedForGood
  <2>1. CASE Marked(l) /\ l \in Locations
    BY <1>2, <2>1
  <2>2. CASE l \in returned /\ ~Marked(l)
    <3>1. PICK q \in Markers : marking[q].loc = l /\ marking[q].at = "store"
      BY <1>1, <2>2 DEF MarksInv, MarkedForGood
    <3> QED BY <1>1, <3>1
  <2> QED BY <1>5, <2>1, <2>2 DEF MarksInv, MarksTypeOK
<1> QED BY <1>4, <1>6

LEMMA SetsKeeps ==
  ASSUME MarksInv, NEW p \in Markers, MarkSets(p)
  PROVE  CountCurrent' /\ RestEmpty' /\ MarkedForGood'
<1> DEFINE l == marking[p].loc
<1>1. /\ \A q \in Markers : q # p => marking'[q] = marking[q]
      /\ marking[p].at = "set" /\ marking'[p].at = "store"
      /\ marking'[p].loc = l /\ marking'[p].idx = marking[p].idx
      /\ marks' = marks /\ nmarks' = marking[p].idx + 1 /\ loc' = [loc EXCEPT ![l] = marking[p].idx]
      /\ overrun' = overrun /\ ~overrun /\ returned' = returned
  BY DEF MarkSets, At, Moves, MarksInv, MarksTypeOK
<1>2. l \in Locations /\ marking[p].idx = nmarks /\ nmarks \in Nat /\ loc \in [Locations -> Int]
  BY <1>1 DEF MarksInv, MarksTypeOK, CountCurrent
<1>3. \A q \in Markers : q # p => marking[q].at \notin {"set", "store", "signal"}
  BY <1>1, InAssignment, Alone DEF MarksInv
<1>4. CountCurrent'
  BY <1>1, <1>2, <1>3 DEF CountCurrent
<1>5. RestEmpty'
  BY <1>1, <1>2, <1>3 DEF MarksInv, RestEmpty
<1>6. MarkedForGood'
  <2> SUFFICES ASSUME NEW m \in returned
               PROVE  Marked(m)' \/ \E q \in Markers : marking'[q].loc = m /\ marking'[q].at = "store"
    BY <1>1 DEF MarkedForGood
  <2>1. CASE m = l
    BY <1>1, <2>1
  <2>2. CASE m # l
    <3>1. m \in Locations /\ Marked(m)
      BY <1>1, <1>3 DEF MarksInv, MarksTypeOK, MarkedForGood
    <3> QED BY <1>1, <1>2, <2>2, <3>1 DEF Marked
  <2> QED BY <2>1, <2>2
<1> QED BY <1>4, <1>5, <1>6

LEMMA StoresKeeps ==
  ASSUME MarksInv, NEW p \in Markers, MarkStores(p)
  PROVE  (~overrun' => CountCurrent' /\ RestEmpty') /\ MarkedForGood'
<1>0. PICK l \in Locations, i \in Nat : l = marking[p].loc /\ i = marking[p].idx
  BY DEF MarkStores, At, MarksInv, MarksTypeOK
<1>1. CASE ~(i < MAXMARK)
  BY <1>0, <1>1 DEF MarkStores, MarkedForGood
<1>2. CASE i < MAXMARK
  <2>1. /\ \A q \in Markers : q # p => marking'[q] = marking[q]
        /\ marking[p].at = "store" /\ marking'[p].at = "signal" /\ marking'[p].loc = l
        /\ marks' = [marks EXCEPT ![i] = l] /\ nmarks' = nmarks /\ loc' = loc
        /\ overrun' = overrun /\ ~overrun /\ returned' = returned
    BY <1>0, <1>2 DEF MarkStores, At, Moves, MarksInv, MarksTypeOK
  <2>2. /\ l \in Locations /\ i \in 0..(MAXMARK - 1) /\ nmarks = i + 1 /\ loc[l] = i
        /\ loc \in [Locations -> Int] /\ marks[i] = "none"
        /\ marks \in [0..(MAXMARK - 1) -> Locations \cup {"none"}]
    BY <1>0, <1>2, <2>1, MarkSizes DEF MarksInv, MarksTypeOK, CountCurrent, RestEmpty
  <2>3. \A q \in Markers : q # p => marking[q].at \notin {"set", "store", "signal"}
    BY <2>1, InAssignment, Alone DEF MarksInv
  <2>4. Marked(l)'
    <3>1. marks'[i] = l /\ loc'[l] = i /\ i >= 0 /\ i < nmarks' /\ i < MAXMARK
      BY <1>2, <2>1, <2>2, MarkSizes
    <3> QED BY <3>1 DEF Marked
  <2>5. CountCurrent'
    BY <2>1, <2>3, <2>4 DEF CountCurrent
  <2>6. RestEmpty'
    BY <2>1, <2>2, <2>3 DEF MarksInv, RestEmpty
  <2>7. MarkedForGood'
    <3> SUFFICES ASSUME NEW m \in returned PROVE Marked(m)'
      BY <2>1 DEF MarkedForGood
    <3>1. CASE m = l
      BY <2>4, <3>1
    <3>2. CASE m # l
      <4>1. m \in Locations /\ Marked(m)
        BY <1>0, <2>1, <2>3, <3>2 DEF MarksInv, MarksTypeOK, MarkedForGood
      <4>2. loc[m] # i /\ loc[m] \in 0..(MAXMARK - 1)
        BY <2>2, <4>1, MarkSizes DEF Marked
      <4>3. marks'[loc[m]] = marks[loc[m]]
        BY <2>1, <2>2, <4>2
      <4> QED BY <2>1, <4>1, <4>3 DEF Marked
    <3> QED BY <3>1, <3>2
  <2> QED BY <2>5, <2>6, <2>7
<1> QED BY <1>1, <1>2

-----------------------------------------------------------------------------

LEMMA MarksInvInit == MarksInit => MarksInv
<1> SUFFICES ASSUME MarksInit PROVE MarksInv
  OBVIOUS
<1>1. MarksTypeOK
  BY MarkSizes DEF MarksInit, MarksTypeOK, NewSem, Nowhere
<1>2. CountCurrent /\ RestEmpty /\ MarkedForGood
  BY MarkSizes DEF MarksInit, CountCurrent, RestEmpty, MarkedForGood, Nowhere
<1> QED BY <1>1, <1>2, OneMarksInit DEF MarksInv

(* In every reachable state one process at most is in the assignment. *)
THEOREM MarksInvariant == MarksSpec => []MarksInv
<1>1. MarksInv /\ [MarksNext]_markVars => MarksInv'
  <2> SUFFICES ASSUME MarksInv, [MarksNext]_markVars PROVE MarksInv'
    OBVIOUS
  <2>1. CASE MarksNext
    <3>1. PICK p \in Markers :
            \/ \E l \in Locations : MarkChecks(p, l)
            \/ MarkWaits(p) \/ MarkReads(p) \/ MarkSets(p) \/ MarkStores(p) \/ MarkSignals(p)
      BY <2>1 DEF MarksNext
    <3>2. MarksTypeOK' /\ OneMarks'
      BY <3>1, TypesKept, OneMarksAlways DEF MarksInv
    <3>3. (~overrun' => CountCurrent' /\ RestEmpty') /\ MarkedForGood'
      BY <3>1, EntriesUntouched, SetsKeeps, StoresKeeps
    <3> QED BY <3>2, <3>3 DEF MarksInv
  <2>2. CASE UNCHANGED markVars
    BY <2>2 DEF markVars, MarksInv, MarksTypeOK, OneMarks, WaitersInside, Holds, Inside, WaitsAt,
                CountCurrent, RestEmpty, MarkedForGood, Marked
  <2> QED BY <2>1, <2>2
<1> QED BY MarksInvInit, <1>1, PTL DEF MarksSpec

(* A location for which mark has returned OK stays marked, while others mark. *)
THEOREM MarkedForGoodAlways == MarksSpec => []MarkedForGood
<1>1. MarksInv => MarkedForGood
  BY DEF MarksInv
<1> QED BY MarksInvariant, <1>1, PTL

-----------------------------------------------------------------------------
(* Ports *)

(* Who waits at the semaphores of a port. *)
WaitToSend(n) == ToSet(ptssem[n].queue)
WaitToRecv(n) == ToSet(ptrsem[n].queue)

CallsAt(op, n) == {p \in Callers : call[p].op = op /\ call[p].port = n}
Clearing(p) == call[p].op \in {"reset", "delete", "reset2", "delete2"}

(* The semaphores of a port, and who waits at them. *)
SemsOK(n) ==
  /\ SemOf(ptssem[n], WaitToSend(n)) /\ WaitToSend(n) \subseteq CallsAt("send", n)
  /\ SemOf(ptrsem[n], WaitToRecv(n)) /\ WaitToRecv(n) \subseteq CallsAt("recv", n)

(* A free port has no messages; one in use has no more than it was created
   for; and nobody that waits finds a port his that is being cleared or free. *)
QueueOK(n) ==
  /\ ptstate[n] = "free" => ptqueue[n] = <<>>
  /\ ptstate[n] # "free" => Len(ptqueue[n]) <= ptmaxcnt[n] /\ ptmaxcnt[n] \in Counts
  /\ ptstate[n] # "alloc" =>
       \A p \in CallsAt("send", n) \cup CallsAt("recv", n) : call[p].seq # ptseq[n]

(* The processes let through, which are to go on with their calls. *)
RecvDue(n) == {p \in CallsAt("recv", n) : call[p].seq = ptseq[n] /\ p \notin WaitToRecv(n)}
SendDue(n) == {p \in CallsAt("send", n) : call[p].seq = ptseq[n] /\ p \notin WaitToSend(n)}

FindsMessage(n) ==
  Alloc(n) => Cardinality(RecvDue(n)) + Units(ptrsem[n]) <= Len(ptqueue[n])
FindsRoom(n) ==
  Alloc(n) => Cardinality(SendDue(n)) + Units(ptssem[n]) + Len(ptqueue[n]) <= ptmaxcnt[n]

PortOK(n) == SemsOK(n) /\ QueueOK(n) /\ FindsMessage(n) /\ FindsRoom(n)

(* A port that a process clears is in limbo, and what it has cleared already
   stays as it left it. *)
CallOK(p) ==
  LET c == call[p] n == c.port IN
  /\ c.seq <= ptseq[n]
  /\ c.op = "send" => c.msg \in Words
  /\ Clearing(p) => ptstate[n] = "limbo"
  /\ c.op \in {"reset2", "delete2"} =>
       /\ ptqueue[n] = <<>>
       /\ ptssem[n] = NewSem(IF c.op = "reset2" THEN ptmaxcnt[n] ELSE 0)
       /\ c.phase = 1 => ptrsem[n] = NewSem(0)

OneClears ==
  \A p, q \in Callers : Clearing(p) /\ Clearing(q) /\ call[p].port = call[q].port => p = q

PortTypes ==
  /\ ptstate \in [PortIds -> {"free", "limbo", "alloc"}]
  /\ ptseq \in [PortIds -> Nat] /\ ptmaxcnt \in [PortIds -> Nat]
  /\ DOMAIN ptssem = PortIds /\ DOMAIN ptrsem = PortIds
  /\ ptqueue \in [PortIds -> Seq(Words)]
  /\ ptfree \in Nat /\ ptnextid \in PortIds
  /\ call \in [Callers -> Calls] /\ panicked \in BOOLEAN

PortsInv ==
  /\ PortTypes
  /\ \A n \in PortIds : PortOK(n)
  /\ \A p \in Callers : CallOK(p)
  /\ OneClears /\ NodesConserved /\ PanicOnlyOvercommitted

-----------------------------------------------------------------------------

LEMMA CallersCounted ==
  ASSUME NEW A \in SUBSET Callers
  PROVE  /\ Cardinality(A) \in Nat
         /\ \A B \in SUBSET A : Cardinality(B) <= Cardinality(A)
         /\ \A x \in A : \A B \in SUBSET (A \ {x}) : Cardinality(B) <= Cardinality(A) - 1
         /\ \A x : \A B \in SUBSET Callers : B \subseteq A \cup {x} => Cardinality(B) <= Cardinality(A) + 1
PROOF
<1>1. IsFiniteSet(Callers)
  BY PortSizes
<1>2. IsFiniteSet(A) /\ Cardinality(A) \in Nat
  BY <1>1, FS_Subset, FS_CardinalityType
<1>3. ASSUME NEW C, NEW D \in SUBSET C, IsFiniteSet(C)
      PROVE  Cardinality(D) <= Cardinality(C) /\ Cardinality(D) \in Nat /\ Cardinality(C) \in Nat
  BY <1>3, FS_Subset, FS_CardinalityType
<1>4. ASSUME NEW x \in A, NEW B \in SUBSET (A \ {x})
      PROVE  Cardinality(B) <= Cardinality(A) - 1
  <2>1. IsFiniteSet(A \ {x}) /\ Cardinality(A \ {x}) = Cardinality(A) - 1
    BY <1>2, FS_RemoveElement
  <2> QED BY <1>3, <2>1
<1>5. ASSUME NEW x, NEW B \in SUBSET Callers, B \subseteq A \cup {x}
      PROVE  Cardinality(B) <= Cardinality(A) + 1
  <2>1. IsFiniteSet(A \cup {x}) /\ Cardinality(A \cup {x}) <= Cardinality(A) + 1
    <3>1. CASE x \in A
      <4>1. A \cup {x} = A
        BY <3>1
      <4> QED BY <1>2, <4>1
    <3>2. CASE x \notin A
      BY <1>2, <3>2, FS_AddElement
    <3> QED BY <3>1, <3>2
  <2>2. Cardinality(B) <= Cardinality(A \cup {x}) /\ Cardinality(B) \in Nat /\ Cardinality(A \cup {x}) \in Nat
    BY <1>3, <1>5, <2>1
  <2> QED BY <1>2, <2>1, <2>2
<1> QED BY <1>2, <1>3, <1>4, <1>5

LEMMA UnitsTaken ==
  ASSUME NEW s, NEW W, SemOf(s, W), Passes(s)
  PROVE  W = {} /\ SemOf(Take(s), {}) /\ Units(s) \in Nat /\ Units(Take(s)) = Units(s) - 1 /\ Units(s) > 0
PROOF
<1>1. W = {} /\ SemOf(Take(s), {}) /\ Take(s).count = s.count - 1
  BY SemTake
<1>2. s.count \in Int /\ s.count > 0
  BY DEF SemOf, Passes
<1> QED BY <1>1, <1>2 DEF Units

LEMMA UnitsBlocked ==
  ASSUME NEW s, NEW W, SemOf(s, W), ~Passes(s), NEW p, p \notin W
  PROVE  SemOf(Blocks(s, p), W \cup {p}) /\ Units(s) = 0 /\ Units(Blocks(s, p)) = 0
PROOF
<1>1. SemOf(Blocks(s, p), W \cup {p}) /\ Blocks(s, p).count = s.count - 1
  BY SemBlocks
<1>2. s.count \in Int /\ ~(s.count > 0)
  BY DEF SemOf, Passes
<1> QED BY <1>1, <1>2 DEF Units

LEMMA UnitsSignalled ==
  ASSUME NEW s, NEW W, SemOf(s, W)
  PROVE  /\ Units(s) \in Nat /\ Units(Signal(s)) \in Nat
         /\ \/ SemOf(Signal(s), W) /\ Units(Signal(s)) = Units(s) + 1
            \/ \E w \in W : SemOf(Signal(s), W \ {w}) /\ Units(Signal(s)) = Units(s)
PROOF
<1>1. /\ Signal(s).count = s.count + 1
      /\ s.count >= 0 => W = {} /\ SemOf(Signal(s), {})
      /\ s.count < 0 => \E p \in W : SemOf(Signal(s), W \ {p})
  BY SemSignal
<1>2. s.count \in Int
  BY DEF SemOf
<1>3. s.count >= 0 => Units(Signal(s)) = Units(s) + 1
  BY <1>1, <1>2 DEF Units
<1>4. s.count < 0 => Units(Signal(s)) = Units(s)
  BY <1>1, <1>2 DEF Units
<1>5. Units(s) \in Nat /\ Units(Signal(s)) \in Nat
  BY <1>1, <1>2 DEF Units
<1> QED BY <1>1, <1>2, <1>3, <1>4, <1>5

LEMMA UnitsLeft ==
  ASSUME NEW s, NEW W, SemOf(s, W), NEW p \in W
  PROVE  SemOf(Leaves(s, p), W \ {p}) /\ Units(s) = 0 /\ Units(Leaves(s, p)) = 0
PROOF
<1>1. SemOf(Leaves(s, p), W \ {p}) /\ Leaves(s, p).count = s.count + 1 /\ s.count < 0
  BY SemLeaves
<1>2. s.count \in Int
  BY DEF SemOf
<1> QED BY <1>1, <1>2 DEF Units

LEMMA UnitsNew ==
  ASSUME NEW n \in Nat
  PROVE  SemOf(NewSem(n), {}) /\ Units(NewSem(n)) = n /\ ToSet(NewSem(n).queue) = {}
PROOF
<1>1. SemOf(NewSem(n), {})
  BY SemNew
<1>2. Units(NewSem(n)) = n
  BY DEF Units, NewSem
<1> QED BY <1>1, <1>2, SemWaits

-----------------------------------------------------------------------------
(* A port and its callers that a step leaves alone. *)
LEMMA PortUntouched ==
  ASSUME NEW m \in PortIds, PortOK(m),
         ptstate'[m] = ptstate[m], ptseq'[m] = ptseq[m], ptmaxcnt'[m] = ptmaxcnt[m],
         ptssem'[m] = ptssem[m], ptrsem'[m] = ptrsem[m], ptqueue'[m] = ptqueue[m],
         NEW p \in Callers, \A q \in Callers \ {p} : call'[q] = call[q],
         call[p].port # m \/ call[p].op \notin {"send", "recv"},
         call'[p].port # m \/ call'[p].op \notin {"send", "recv"}
  PROVE  PortOK(m)'
PROOF
<1>1. CallsAt("send", m)' = CallsAt("send", m) /\ CallsAt("recv", m)' = CallsAt("recv", m)
  BY DEF CallsAt
<1>2. \A q \in CallsAt("send", m) \cup CallsAt("recv", m) : call'[q] = call[q]
  BY DEF CallsAt
<1>3. WaitToSend(m)' = WaitToSend(m) /\ WaitToRecv(m)' = WaitToRecv(m)
  BY DEF WaitToSend, WaitToRecv
<1>4. RecvDue(m)' = RecvDue(m) /\ SendDue(m)' = SendDue(m)
  BY <1>1, <1>2, <1>3 DEF RecvDue, SendDue
<1>5. SemsOK(m)'
  BY <1>1, <1>3 DEF PortOK, SemsOK
<1>6. QueueOK(m)'
  BY <1>1, <1>2 DEF PortOK, QueueOK
<1>7. FindsMessage(m)' /\ FindsRoom(m)'
  BY <1>4 DEF PortOK, FindsMessage, FindsRoom, Alloc
<1> QED BY <1>5, <1>6, <1>7 DEF PortOK

LEMMA CallUntouched ==
  ASSUME NEW q \in Callers, CallOK(q), call'[q] = call[q], NEW n, n = call[q].port,
         ptstate'[n] = ptstate[n], ptseq'[n] = ptseq[n], ptmaxcnt'[n] = ptmaxcnt[n],
         ptssem'[n] = ptssem[n], ptrsem'[n] = ptrsem[n], ptqueue'[n] = ptqueue[n]
  PROVE  CallOK(q)'
PROOF BY DEF CallOK, Clearing
(* The other ports and callers when p does something to a port in use. *)
LEMMA PortInUse ==
  ASSUME PortsInv, NEW p \in Callers, NEW n \in PortIds, Alloc(n),
         UNCHANGED <<ptstate, ptseq, ptmaxcnt>>,
         \A m \in PortIds \ {n} : ptssem'[m] = ptssem[m] /\ ptrsem'[m] = ptrsem[m]
                                  /\ ptqueue'[m] = ptqueue[m],
         call[p].op = "none" \/ (call[p].op \in {"send", "recv"} /\ call[p].port = n),
         \A q \in Callers \ {p} : call'[q] = call[q],
         \/ call'[p] = call[p] \/ call'[p] = Idle
         \/ /\ call'[p].op \in {"send", "recv"} /\ call'[p].port = n /\ call'[p].seq = ptseq[n]
            /\ call'[p].op = "send" => call'[p].msg \in Words
  PROVE  /\ \A m \in PortIds \ {n} : PortOK(m)'
         /\ \A q \in Callers : CallOK(q)'
         /\ OneClears'
PROOF
<1>1. /\ 0 \in PortIds /\ ptseq \in [PortIds -> Nat] /\ call \in [Callers -> Calls]
      /\ ptseq' = ptseq /\ ptstate' = ptstate /\ ptmaxcnt' = ptmaxcnt
      /\ (\A m \in PortIds : PortOK(m)) /\ (\A q \in Callers : CallOK(q)) /\ OneClears
  <2>1. PortTypes /\ (\A m \in PortIds : PortOK(m)) /\ (\A q \in Callers : CallOK(q)) /\ OneClears
    BY Zenon DEF PortsInv
  <2>2. 0 \in PortIds
    BY PortSizes DEF PortIds
  <2>3. ptseq \in [PortIds -> Nat] /\ call \in [Callers -> Calls]
    BY <2>1, Zenon DEF PortTypes
  <2> QED BY <2>1, <2>2, <2>3, Zenon
<1>2. ASSUME NEW m \in PortIds \ {n} PROVE PortOK(m)'
  <2>1. call[p].port # m \/ call[p].op \notin {"send", "recv"}
    OBVIOUS
  <2>2. call'[p].port # m \/ call'[p].op \notin {"send", "recv"}
    BY <2>1 DEF Idle
  <2> QED BY <1>1, <2>1, <2>2, PortUntouched
<1>3. ~Clearing(p) /\ ~Clearing(p)'
  BY DEF Clearing, Idle
<1>4. ASSUME NEW q \in Callers \ {p} PROVE CallOK(q)'
  <2>1. call'[q] = call[q] /\ call[q].port \in PortIds /\ call[q].op \in
           {"none", "send", "recv", "reset", "delete", "reset2", "delete2"}
    BY <1>1 DEF Calls
  <2>2. CASE call[q].port # n
    BY <1>1, <2>1, <2>2, CallUntouched
  <2>3. CASE call[q].port = n
    <3>1. ~Clearing(q)
      BY <1>1, <2>3 DEF CallOK, Alloc
    <3>2. call[q].op \notin {"reset2", "delete2"}
      BY <3>1 DEF Clearing
    <3> QED BY <1>1, <2>1, <3>1, <3>2 DEF CallOK, Clearing
  <2> QED BY <2>2, <2>3
<1>5. CallOK(p)'
  <2>1. CASE call'[p] = call[p]
    <3>1. call[p].op \notin {"reset2", "delete2"}
      BY <1>3 DEF Clearing
    <3> QED BY <1>1, <1>3, <2>1, <3>1 DEF CallOK, Clearing
  <2>2. CASE call'[p] = Idle
    <3>1. call'[p].op = "none" /\ call'[p].seq = 0 /\ call'[p].port = 0
      BY <2>2 DEF Idle
    <3> QED BY <1>1, <3>1 DEF CallOK, Clearing
  <2>3. CASE /\ call'[p].op \in {"send", "recv"} /\ call'[p].port = n /\ call'[p].seq = ptseq[n]
             /\ call'[p].op = "send" => call'[p].msg \in Words
    <3>1. ptseq[n] \in Nat
      BY <1>1
    <3>2. call'[p].seq <= ptseq'[call'[p].port]
      BY <1>1, <2>3, <3>1
    <3> QED BY <2>3, <3>2 DEF CallOK, Clearing
  <2> QED BY <2>1, <2>2, <2>3
<1>6. OneClears'
  <2> SUFFICES ASSUME NEW q \in Callers, NEW r \in Callers, Clearing(q)', Clearing(r)',
                      call'[q].port = call'[r].port
               PROVE  q = r
    BY DEF OneClears
  <2>1. q # p /\ r # p
    BY <1>3
  <2>2. Clearing(q) /\ Clearing(r) /\ call[q].port = call[r].port
    BY <2>1 DEF Clearing
  <2> QED BY <1>1, <2>2 DEF OneClears
<1> QED BY <1>2, <1>4, <1>5, <1>6

-----------------------------------------------------------------------------

LEMMA TotalChanges ==
  ASSUME NEW f \in [PortIds -> Int], NEW g \in [PortIds -> Int],
         NEW n \in PortIds, \A m \in PortIds : m # n => g[m] = f[m]
  PROVE  Total(f) \in Int /\ Total(g) = Total(f) + g[n] - f[n]
PROOF
<1>1. IsFiniteSet(PortIds)
  BY PortSizes, FS_Interval DEF PortIds
<1> QED BY ZenonT(30), <1>1, SumChanges DEF Total

LEMMA TotalOrdered ==
  ASSUME NEW f \in [PortIds -> Int], NEW g \in [PortIds -> Int], \A m \in PortIds : f[m] <= g[m]
  PROVE  /\ Total(f) \in Int /\ Total(g) \in Int /\ Total(f) <= Total(g)
         /\ (\A m \in PortIds : f[m] = 0) => Total(f) = 0
PROOF
<1>1. IsFiniteSet(PortIds)
  BY PortSizes, FS_Interval DEF PortIds
<1> QED BY <1>1, SumOrdered DEF Total

(* The nodes, when n's queue changes. *)
LEMMA NodesMove ==
  ASSUME NodesConserved, ptqueue \in [PortIds -> Seq(Words)], ptfree \in Nat,
         NEW n \in PortIds, NEW q \in Seq(Words), ptqueue' = [ptqueue EXCEPT ![n] = q],
         ptfree' = ptfree + Len(ptqueue[n]) - Len(q)
  PROVE  NodesConserved'
PROOF
<1> DEFINE f == [m \in PortIds |-> Len(ptqueue[m])]
           g == [m \in PortIds |-> Len(ptqueue'[m])]
<1>1. \A m \in PortIds : ptqueue[m] \in Seq(Words) /\ ptqueue'[m] = IF m = n THEN q ELSE ptqueue[m]
  OBVIOUS
<1>2. /\ f \in [PortIds -> Int] /\ g \in [PortIds -> Int]
      /\ \A m \in PortIds : m # n => g[m] = f[m]
      /\ g[n] = Len(q) /\ f[n] = Len(ptqueue[n]) /\ Len(q) \in Nat /\ Len(ptqueue[n]) \in Nat
  BY <1>1
<1>3. ptfree + Total(f) = PT_MSGS
  BY DEF NodesConserved
<1>4. SUFFICES ptfree' + Total(g) = PT_MSGS
  BY DEF NodesConserved
<1> HIDE DEF f, g
<1>5. Total(f) \in Int /\ Total(g) = Total(f) + g[n] - f[n]
  BY <1>2, TotalChanges
<1> QED BY <1>2, <1>3, <1>5
-----------------------------------------------------------------------------
(* A message put into a port, or a panic *)

Capacity(m) == IF ptstate[m] = "free" THEN 0 ELSE ptmaxcnt[m]

(* No port holds more than it was created for; so when there is no node left,
   and n could take one more, the ports were created for more than there are. *)
LEMMA PanicMeansOvercommitted ==
  ASSUME PortTypes, \A m \in PortIds : QueueOK(m), NodesConserved, ptfree = 0,
         NEW n \in PortIds, Alloc(n), Len(ptqueue[n]) < ptmaxcnt[n]
  PROVE  Total([m \in PortIds |-> Capacity(m)]) > PT_MSGS
PROOF
<1> DEFINE f == [m \in PortIds |-> Len(ptqueue[m])]
           g == [m \in PortIds |-> Capacity(m)]
           h == [m \in PortIds |-> IF m = n THEN Capacity(m) - 1 ELSE Capacity(m)]
<1>1. \A m \in PortIds : /\ Len(ptqueue[m]) \in Nat /\ ptmaxcnt[m] \in Nat /\ Capacity(m) \in Nat
                         /\ Len(ptqueue[m]) <= Capacity(m)
  <2> TAKE m \in PortIds
  <2>1. ptqueue[m] \in Seq(Words) /\ ptmaxcnt[m] \in Nat
    BY DEF PortTypes
  <2>2. CASE ptstate[m] = "free"
    BY <2>1, <2>2 DEF QueueOK, Capacity
  <2>3. CASE ptstate[m] # "free"
    BY <2>1, <2>3 DEF QueueOK, Capacity
  <2> QED BY <2>2, <2>3
<1>2. Capacity(n) = ptmaxcnt[n]
  BY DEF Capacity, Alloc
<1>3. f \in [PortIds -> Int] /\ g \in [PortIds -> Int] /\ h \in [PortIds -> Int]
  BY <1>1
<1>4. \A m \in PortIds : m # n => g[m] = h[m]
  OBVIOUS
<1>5. g[n] = h[n] + 1 /\ h[n] \in Int
  BY <1>1
<1>6. \A m \in PortIds : f[m] <= h[m]
  BY <1>1, <1>2
<1>7. Total(f) = PT_MSGS
  <2>1. ptfree + Total(f) = PT_MSGS
    BY DEF NodesConserved
  <2> HIDE DEF f
  <2>2. Total(f) \in Int
    BY <1>3, <1>4, TotalOrdered
  <2> QED BY <2>1, <2>2
<1> HIDE DEF f, g, h
<1>8. Total(h) \in Int /\ Total(g) = Total(h) + g[n] - h[n]
  BY <1>3, <1>4, TotalChanges
<1>9. Total(f) \in Int /\ Total(f) <= Total(h)
  BY <1>3, <1>6, TotalOrdered
<1>10. Total(g) > PT_MSGS
  BY <1>5, <1>7, <1>8, <1>9
<1> QED BY <1>10 DEF g

LEMMA DepositKeeps ==
  ASSUME PortsInv, NEW p \in Callers, NEW n \in PortIds, NEW m \in Words, Alloc(n), ~panicked,
         UNCHANGED <<ptstate, ptseq, ptmaxcnt>>, Deposit(p, n, m),
         SemOf(ptssem'[n], WaitToSend(n)'), WaitToSend(n)' \subseteq CallsAt("send", n)',
         CallsAt("recv", n)' = CallsAt("recv", n),
         \A q \in CallsAt("recv", n) : call'[q] = call[q],
         Cardinality(SendDue(n)') + Units(ptssem'[n]) + 1 <= Cardinality(SendDue(n)) + Units(ptssem[n])
  PROVE  /\ PortOK(n)' /\ NodesConserved' /\ PanicOnlyOvercommitted'
         /\ ptqueue' \in [PortIds -> Seq(Words)] /\ ptfree' \in Nat /\ panicked' \in BOOLEAN
         /\ DOMAIN ptrsem' = PortIds
         /\ \A k \in PortIds \ {n} : ptrsem'[k] = ptrsem[k] /\ ptqueue'[k] = ptqueue[k]
         /\ Len(ptqueue[n]) < ptmaxcnt[n]
PROOF
<1>1. /\ ptqueue \in [PortIds -> Seq(Words)] /\ ptfree \in Nat /\ DOMAIN ptrsem = PortIds
      /\ ptmaxcnt[n] \in Nat /\ ptqueue[n] \in Seq(Words) /\ Len(ptqueue[n]) \in Nat
      /\ SemsOK(n) /\ FindsMessage(n) /\ FindsRoom(n) /\ QueueOK(n) /\ panicked \in BOOLEAN
  BY DEF PortsInv, PortTypes, PortOK
<1>2. /\ Cardinality(SendDue(n)') \in Nat /\ Cardinality(SendDue(n)) \in Nat
      /\ Cardinality(RecvDue(n)') \in Nat /\ Cardinality(RecvDue(n)) \in Nat
  <2>1. /\ SendDue(n) \in SUBSET Callers /\ RecvDue(n) \in SUBSET Callers
        /\ SendDue(n)' \in SUBSET Callers /\ RecvDue(n)' \in SUBSET Callers
    BY DEF SendDue, RecvDue, CallsAt
  <2> QED BY <2>1, CallersCounted
<1>3. Units(ptssem[n]) \in Nat /\ Units(ptssem'[n]) \in Nat
  <2>1. ptssem[n].count \in Int /\ ptssem'[n].count \in Int
    BY <1>1 DEF SemsOK, SemOf
  <2> QED BY <2>1 DEF Units
<1>4. Cardinality(SendDue(n)) + Units(ptssem[n]) + Len(ptqueue[n]) <= ptmaxcnt[n]
  BY <1>1 DEF FindsRoom
<1>5. Len(ptqueue[n]) < ptmaxcnt[n]
  BY <1>1, <1>2, <1>3, <1>4
<1>6. ptmaxcnt[n] \in Counts /\ ptmaxcnt'[n] = ptmaxcnt[n] /\ ptstate'[n] = "alloc" /\ ptstate[n] = "alloc"
      /\ ptseq'[n] = ptseq[n]
  BY <1>1 DEF QueueOK, Alloc
<1>7. CASE ptfree = 0
  <2>1. panicked' = TRUE /\ UNCHANGED <<ptqueue, ptfree, ptrsem>>
    BY <1>7 DEF Deposit
  <2>2. Total([k \in PortIds |-> Capacity(k)]) > PT_MSGS
    BY <1>1, <1>5, <1>7, PanicMeansOvercommitted DEF PortsInv, PortOK
  <2>3. PanicOnlyOvercommitted'
    BY <2>2 DEF PanicOnlyOvercommitted, Capacity
  <2>4. WaitToRecv(n)' = WaitToRecv(n)
    BY <2>1 DEF WaitToRecv
  <2>5. RecvDue(n)' = RecvDue(n)
    BY <2>4, <1>6 DEF RecvDue
  <2>6. SemsOK(n)' /\ FindsMessage(n)'
    BY <1>1, <1>6, <2>1, <2>4, <2>5 DEF SemsOK, FindsMessage, Alloc
  <2>7. FindsRoom(n)' /\ QueueOK(n)'
    BY <1>1, <1>2, <1>3, <1>4, <1>5, <1>6, <2>1 DEF FindsRoom, QueueOK, Alloc
  <2>8. NodesConserved'
    BY <2>1 DEF PortsInv, NodesConserved
  <2> QED BY <1>1, <1>5, <2>1, <2>3, <2>6, <2>7, <2>8 DEF PortOK
<1>8. CASE ptfree # 0
  <2>1. /\ ptqueue' = [ptqueue EXCEPT ![n] = Append(ptqueue[n], m)] /\ ptfree' = ptfree - 1
        /\ ptrsem' = [ptrsem EXCEPT ![n] = Signal(ptrsem[n])] /\ panicked' = panicked
    BY <1>8 DEF Deposit, Linked
  <2>2. Append(ptqueue[n], m) \in Seq(Words) /\ Len(Append(ptqueue[n], m)) = Len(ptqueue[n]) + 1
    BY <1>1
  <2>3. ptqueue'[n] = Append(ptqueue[n], m) /\ ptrsem'[n] = Signal(ptrsem[n])
    BY <1>1, <2>1
  <2>4. NodesConserved'
    <3>1. ptfree' = ptfree + Len(ptqueue[n]) - Len(Append(ptqueue[n], m))
      BY <1>1, <2>1, <2>2
    <3> QED BY <1>1, <2>1, <2>2, <3>1, NodesMove DEF PortsInv
  <2>5. PanicOnlyOvercommitted'
    BY <2>1 DEF PanicOnlyOvercommitted
  <2>6. /\ Units(ptrsem[n]) \in Nat /\ Units(ptrsem'[n]) \in Nat
        /\ \/ SemOf(ptrsem'[n], WaitToRecv(n)) /\ Units(ptrsem'[n]) = Units(ptrsem[n]) + 1
           \/ \E w \in WaitToRecv(n) : /\ SemOf(ptrsem'[n], WaitToRecv(n) \ {w})
                                       /\ Units(ptrsem'[n]) = Units(ptrsem[n])
    BY <1>1, <2>3, UnitsSignalled DEF SemsOK
  <2>7. PICK w : /\ SemOf(ptrsem'[n], WaitToRecv(n)') /\ WaitToRecv(n)' \subseteq WaitToRecv(n)
                 /\ \/ WaitToRecv(n)' = WaitToRecv(n) /\ Units(ptrsem'[n]) = Units(ptrsem[n]) + 1
                    \/ WaitToRecv(n)' = WaitToRecv(n) \ {w} /\ Units(ptrsem'[n]) = Units(ptrsem[n])
    BY <2>6, SemWaits DEF WaitToRecv
  <2>8. Cardinality(RecvDue(n)') + Units(ptrsem'[n]) <= Cardinality(RecvDue(n)) + Units(ptrsem[n]) + 1
    <3>0. RecvDue(n) \in SUBSET Callers /\ RecvDue(n)' \in SUBSET Callers
      BY DEF RecvDue, CallsAt
    <3>1. CASE WaitToRecv(n)' = WaitToRecv(n) /\ Units(ptrsem'[n]) = Units(ptrsem[n]) + 1
      <4>1. RecvDue(n)' = RecvDue(n)
        BY <1>6, <3>1 DEF RecvDue
      <4> QED BY <1>2, <2>6, <3>1, <4>1
    <3>2. CASE WaitToRecv(n)' = WaitToRecv(n) \ {w} /\ Units(ptrsem'[n]) = Units(ptrsem[n])
      <4>1. RecvDue(n)' \subseteq RecvDue(n) \cup {w}
        BY <1>6, <3>2 DEF RecvDue
      <4>2. Cardinality(RecvDue(n)') <= Cardinality(RecvDue(n)) + 1
        BY <3>0, <4>1, CallersCounted
      <4> QED BY <1>2, <2>6, <3>2, <4>2
    <3> QED BY <2>7, <3>1, <3>2
  <2>9. Cardinality(RecvDue(n)) + Units(ptrsem[n]) <= Len(ptqueue[n])
    BY <1>1 DEF FindsMessage
  <2>10. FindsMessage(n)'
    BY <1>1, <1>2, <2>2, <2>3, <2>6, <2>8, <2>9 DEF FindsMessage
  <2>11. FindsRoom(n)' /\ QueueOK(n)'
    BY SMTT(30), <1>1, <1>2, <1>3, <1>4, <1>5, <1>6, <2>2, <2>3 DEF FindsRoom, QueueOK, Alloc
  <2>12. SemsOK(n)'
    BY <1>1, <2>7 DEF SemsOK
  <2>13. ptqueue' \in [PortIds -> Seq(Words)] /\ ptfree' \in Nat /\ panicked' \in BOOLEAN
    <3>1. ptqueue' \in [PortIds -> Seq(Words)]
      BY <1>1, <2>1, <2>2
    <3>2. ptfree' \in Nat
      BY <1>1, <1>8, <2>1
    <3>3. panicked' \in BOOLEAN
      BY <1>1, <2>1
    <3> QED BY <3>1, <3>2, <3>3
  <2>14. /\ DOMAIN ptrsem' = PortIds
         /\ \A k \in PortIds \ {n} : ptrsem'[k] = ptrsem[k] /\ ptqueue'[k] = ptqueue[k]
    BY <1>1, <2>1
  <2> QED BY <1>5, <2>4, <2>5, <2>10, <2>11, <2>12, <2>13, <2>14 DEF PortOK
<1> QED BY <1>7, <1>8
(* A message taken from a port *)
LEMMA WithdrawKeeps ==
  ASSUME PortsInv, NEW p \in Callers, NEW n \in PortIds, Alloc(n),
         UNCHANGED <<ptstate, ptseq, ptmaxcnt, panicked>>, Withdraw(n),
         SemOf(ptrsem'[n], WaitToRecv(n)'), WaitToRecv(n)' \subseteq CallsAt("recv", n)',
         CallsAt("send", n)' = CallsAt("send", n),
         \A q \in CallsAt("send", n) : call'[q] = call[q],
         Cardinality(RecvDue(n)') + Units(ptrsem'[n]) + 1 <= Cardinality(RecvDue(n)) + Units(ptrsem[n])
  PROVE  /\ PortOK(n)' /\ NodesConserved' /\ PanicOnlyOvercommitted'
         /\ ptqueue' \in [PortIds -> Seq(Words)] /\ ptfree' \in Nat /\ panicked' \in BOOLEAN
         /\ DOMAIN ptssem' = PortIds
         /\ \A k \in PortIds \ {n} : ptssem'[k] = ptssem[k] /\ ptqueue'[k] = ptqueue[k]
         /\ ptqueue[n] # <<>>
PROOF
<1>1. /\ ptqueue \in [PortIds -> Seq(Words)] /\ ptfree \in Nat /\ DOMAIN ptssem = PortIds
      /\ ptmaxcnt[n] \in Nat /\ ptqueue[n] \in Seq(Words) /\ Len(ptqueue[n]) \in Nat
      /\ SemsOK(n) /\ FindsMessage(n) /\ FindsRoom(n) /\ QueueOK(n) /\ panicked' \in BOOLEAN
  BY DEF PortsInv, PortTypes, PortOK
<1>2. /\ Cardinality(SendDue(n)') \in Nat /\ Cardinality(SendDue(n)) \in Nat
      /\ Cardinality(RecvDue(n)') \in Nat /\ Cardinality(RecvDue(n)) \in Nat
  <2>1. /\ SendDue(n) \in SUBSET Callers /\ RecvDue(n) \in SUBSET Callers
        /\ SendDue(n)' \in SUBSET Callers /\ RecvDue(n)' \in SUBSET Callers
    BY DEF SendDue, RecvDue, CallsAt
  <2> QED BY <2>1, CallersCounted
<1>3. Units(ptrsem[n]) \in Nat /\ Units(ptrsem'[n]) \in Nat
  <2>1. ptrsem[n].count \in Int /\ ptrsem'[n].count \in Int
    BY <1>1 DEF SemsOK, SemOf
  <2> QED BY <2>1 DEF Units
<1>4. Cardinality(RecvDue(n)) + Units(ptrsem[n]) <= Len(ptqueue[n])
  BY <1>1 DEF FindsMessage
<1>5. Len(ptqueue[n]) > 0
  BY <1>1, <1>2, <1>3, <1>4
<1>6. ptmaxcnt[n] \in Counts /\ ptmaxcnt'[n] = ptmaxcnt[n] /\ ptstate'[n] = "alloc" /\ ptstate[n] = "alloc"
      /\ ptseq'[n] = ptseq[n]
  BY <1>1 DEF QueueOK, Alloc
<1> DEFINE rest == SubSeq(ptqueue[n], 2, Len(ptqueue[n]))
<1>7. rest \in Seq(Words) /\ Len(rest) = Len(ptqueue[n]) - 1
  <2>1. 2 \in 1..(Len(ptqueue[n]) + 1) /\ Len(ptqueue[n]) \in (2 - 1)..Len(ptqueue[n])
    BY <1>1, <1>5
  <2>2. rest \in Seq(Words)
    BY <1>1, <2>1, SubSeqProperties
  <2>3. Len(rest) = IF 2 <= Len(ptqueue[n]) THEN Len(ptqueue[n]) - 2 + 1 ELSE 0
    BY ONLY <1>1, <2>1, SubSeqProperties
  <2>4. \A k \in Nat \ {0} : (IF 2 <= k THEN k - 2 + 1 ELSE 0) = k - 1
    OBVIOUS
  <2>5. Len(ptqueue[n]) \in Nat \ {0}
    BY ONLY <1>1, <1>5
  <2> HIDE DEF rest
  <2> QED BY ONLY <2>2, <2>3, <2>4, <2>5
<1>8. /\ ptqueue' = [ptqueue EXCEPT ![n] = rest] /\ ptfree' = ptfree + 1
      /\ ptssem' = [ptssem EXCEPT ![n] = Signal(ptssem[n])]
  BY DEF Withdraw
<1> HIDE DEF rest
<1>9. ptqueue'[n] = rest /\ ptssem'[n] = Signal(ptssem[n])
  BY <1>1, <1>8
<1>10. NodesConserved'
  <2>1. ptfree' = ptfree + Len(ptqueue[n]) - Len(rest)
    BY <1>1, <1>7, <1>8
  <2> QED BY <1>1, <1>7, <1>8, <2>1, NodesMove DEF PortsInv
<1>11. PanicOnlyOvercommitted'
  BY DEF PortsInv, PanicOnlyOvercommitted
<1>12. /\ Units(ptssem[n]) \in Nat /\ Units(ptssem'[n]) \in Nat
       /\ \/ SemOf(ptssem'[n], WaitToSend(n)) /\ Units(ptssem'[n]) = Units(ptssem[n]) + 1
          \/ \E w \in WaitToSend(n) : /\ SemOf(ptssem'[n], WaitToSend(n) \ {w})
                                      /\ Units(ptssem'[n]) = Units(ptssem[n])
  BY <1>1, <1>9, UnitsSignalled DEF SemsOK
<1>13. PICK w : /\ SemOf(ptssem'[n], WaitToSend(n)') /\ WaitToSend(n)' \subseteq WaitToSend(n)
                /\ \/ WaitToSend(n)' = WaitToSend(n) /\ Units(ptssem'[n]) = Units(ptssem[n]) + 1
                   \/ WaitToSend(n)' = WaitToSend(n) \ {w} /\ Units(ptssem'[n]) = Units(ptssem[n])
  BY <1>12, SemWaits DEF WaitToSend
<1>14. Cardinality(SendDue(n)') + Units(ptssem'[n]) <= Cardinality(SendDue(n)) + Units(ptssem[n]) + 1
  <2>0. SendDue(n) \in SUBSET Callers /\ SendDue(n)' \in SUBSET Callers
    BY DEF SendDue, CallsAt
  <2>1. CASE WaitToSend(n)' = WaitToSend(n) /\ Units(ptssem'[n]) = Units(ptssem[n]) + 1
    <3>1. SendDue(n)' = SendDue(n)
      BY <1>6, <2>1 DEF SendDue
    <3> QED BY <1>2, <1>12, <2>1, <3>1
  <2>2. CASE WaitToSend(n)' = WaitToSend(n) \ {w} /\ Units(ptssem'[n]) = Units(ptssem[n])
    <3>1. SendDue(n)' \subseteq SendDue(n) \cup {w}
      BY <1>6, <2>2 DEF SendDue
    <3>2. Cardinality(SendDue(n)') <= Cardinality(SendDue(n)) + 1
      BY <2>0, <3>1, CallersCounted
    <3> QED BY <1>2, <1>12, <2>2, <3>2
  <2> QED BY <1>13, <2>1, <2>2
<1>15. Cardinality(SendDue(n)) + Units(ptssem[n]) + Len(ptqueue[n]) <= ptmaxcnt[n]
  BY <1>1 DEF FindsRoom
<1>16. FindsRoom(n)'
  BY SMTT(30), <1>1, <1>2, <1>6, <1>7, <1>9, <1>12, <1>14, <1>15 DEF FindsRoom
<1>17. FindsMessage(n)'
  BY <1>1, <1>2, <1>3, <1>4, <1>7, <1>9 DEF FindsMessage
<1>18. QueueOK(n)'
  BY <1>1, <1>6, <1>7, <1>9 DEF QueueOK, Alloc
<1>19. SemsOK(n)'
  BY <1>1, <1>13 DEF SemsOK
<1>20. ptqueue' \in [PortIds -> Seq(Words)] /\ ptfree' \in Nat
  BY <1>1, <1>7, <1>8
<1>21. /\ DOMAIN ptssem' = PortIds
       /\ \A k \in PortIds \ {n} : ptssem'[k] = ptssem[k] /\ ptqueue'[k] = ptqueue[k]
  BY <1>1, <1>8
<1>22. ptqueue[n] # <<>>
  BY <1>5
<1> QED BY <1>1, <1>10, <1>11, <1>16, <1>17, <1>18, <1>19, <1>20, <1>21, <1>22 DEF PortOK
-----------------------------------------------------------------------------
(* ptsend and ptrecv *)

LEMMA CallTypes ==
  ASSUME PortTypes, NEW p \in Callers, NEW op \in {"send", "recv", "reset", "delete"},
         NEW n \in PortIds, NEW m \in Nat
  PROVE  /\ Done(p) => /\ call' \in [Callers -> Calls] /\ call'[p] = Idle
                       /\ \A q \in Callers \ {p} : call'[q] = call[q]
         /\ Enters(p, op, n, m) =>
              /\ call' \in [Callers -> Calls]
              /\ call'[p].op = op /\ call'[p].port = n /\ call'[p].seq = ptseq[n]
              /\ call'[p].msg = m /\ call'[p].phase = 0
              /\ \A q \in Callers \ {p} : call'[q] = call[q]
PROOF
<1>1. 0 \in PortIds /\ ptseq[n] \in Nat /\ call \in [Callers -> Calls]
  BY PortSizes DEF PortTypes, PortIds
<1>2. Idle \in Calls
  BY <1>1 DEF Idle, Calls
<1>3. [op |-> op, port |-> n, seq |-> ptseq[n], msg |-> m, phase |-> 0] \in Calls
  BY <1>1 DEF Calls
<1> QED BY <1>1, <1>2, <1>3 DEF Done, Enters

LEMMA PtsendKeeps ==
  ASSUME PortsInv, NEW p \in Callers, NEW n \in PortIds, NEW m \in Words, Ptsend(p, n, m)
  PROVE  PortsInv' /\ Len(ptqueue[n]) < ptmaxcnt[n]
PROOF
<1>1. /\ call[p] = Idle /\ ~panicked /\ Alloc(n) /\ Passes(ptssem[n])
      /\ ptssem' = [ptssem EXCEPT ![n] = Take(ptssem[n])] /\ Deposit(p, n, m)
      /\ UNCHANGED <<ptstate, ptseq, ptmaxcnt, ptnextid, call>>
  BY DEF Ptsend, CanCall
<1>2. PortTypes /\ SemsOK(n) /\ Alloc(n)'
  BY <1>1 DEF PortsInv, PortOK, Alloc
<1>3. ptssem'[n] = Take(ptssem[n]) /\ \A k \in PortIds \ {n} : ptssem'[k] = ptssem[k]
  BY <1>1, <1>2 DEF PortTypes
<1>4. /\ WaitToSend(n) = {} /\ SemOf(ptssem'[n], {})
      /\ Units(ptssem[n]) \in Nat /\ Units(ptssem'[n]) = Units(ptssem[n]) - 1
  BY <1>1, <1>2, <1>3, UnitsTaken DEF SemsOK
<1>5. WaitToSend(n)' = {}
  BY <1>4, SemWaits DEF WaitToSend
<1>6. CallsAt("recv", n)' = CallsAt("recv", n) /\ SendDue(n)' = SendDue(n)
  BY <1>1, <1>4, <1>5 DEF CallsAt, SendDue
<1>7. Cardinality(SendDue(n)) \in Nat
  BY CallersCounted DEF SendDue, CallsAt
<1>8. Cardinality(SendDue(n)') + Units(ptssem'[n]) + 1 <= Cardinality(SendDue(n)) + Units(ptssem[n])
  BY <1>4, <1>6, <1>7
<1>9. /\ PortOK(n)' /\ NodesConserved' /\ PanicOnlyOvercommitted'
      /\ ptqueue' \in [PortIds -> Seq(Words)] /\ ptfree' \in Nat /\ panicked' \in BOOLEAN
      /\ DOMAIN ptrsem' = PortIds
      /\ \A k \in PortIds \ {n} : ptrsem'[k] = ptrsem[k] /\ ptqueue'[k] = ptqueue[k]
      /\ Len(ptqueue[n]) < ptmaxcnt[n]
  BY <1>1, <1>4, <1>5, <1>6, <1>8, DepositKeeps
<1>10. PortTypes'
  BY <1>1, <1>2, <1>9 DEF PortTypes
<1>11. /\ \A k \in PortIds \ {n} : PortOK(k)'
       /\ \A q \in Callers : CallOK(q)'
       /\ OneClears'
  BY <1>1, <1>3, <1>9, PortInUse DEF Idle
<1> QED BY <1>9, <1>10, <1>11 DEF PortsInv

LEMMA PtrecvKeeps ==
  ASSUME PortsInv, NEW p \in Callers, NEW n \in PortIds, Ptrecv(p, n)
  PROVE  PortsInv' /\ ptqueue[n] # <<>>
PROOF
<1>1. /\ call[p] = Idle /\ ~panicked /\ Alloc(n) /\ Passes(ptrsem[n])
      /\ ptrsem' = [ptrsem EXCEPT ![n] = Take(ptrsem[n])] /\ Withdraw(n)
      /\ UNCHANGED <<ptstate, ptseq, ptmaxcnt, ptnextid, call, panicked>>
  BY DEF Ptrecv, CanCall
<1>2. PortTypes /\ SemsOK(n) /\ Alloc(n)'
  BY <1>1 DEF PortsInv, PortOK, Alloc
<1>3. /\ ptrsem'[n] = Take(ptrsem[n]) /\ DOMAIN ptrsem' = PortIds
      /\ \A k \in PortIds \ {n} : ptrsem'[k] = ptrsem[k]
  BY <1>1, <1>2 DEF PortTypes
<1>4. /\ WaitToRecv(n) = {} /\ SemOf(ptrsem'[n], {})
      /\ Units(ptrsem[n]) \in Nat /\ Units(ptrsem'[n]) = Units(ptrsem[n]) - 1
  BY <1>1, <1>2, <1>3, UnitsTaken DEF SemsOK
<1>5. WaitToRecv(n)' = {}
  BY <1>4, SemWaits DEF WaitToRecv
<1>6. CallsAt("send", n)' = CallsAt("send", n) /\ RecvDue(n)' = RecvDue(n)
  BY <1>1, <1>4, <1>5 DEF CallsAt, RecvDue
<1>7. Cardinality(RecvDue(n)) \in Nat
  BY CallersCounted DEF RecvDue, CallsAt
<1>8. Cardinality(RecvDue(n)') + Units(ptrsem'[n]) + 1 <= Cardinality(RecvDue(n)) + Units(ptrsem[n])
  BY <1>4, <1>6, <1>7
<1>9. /\ PortOK(n)' /\ NodesConserved' /\ PanicOnlyOvercommitted'
      /\ ptqueue' \in [PortIds -> Seq(Words)] /\ ptfree' \in Nat /\ panicked' \in BOOLEAN
      /\ DOMAIN ptssem' = PortIds
      /\ \A k \in PortIds \ {n} : ptssem'[k] = ptssem[k] /\ ptqueue'[k] = ptqueue[k]
      /\ ptqueue[n] # <<>>
  BY <1>1, <1>4, <1>5, <1>6, <1>8, WithdrawKeeps
<1>10. PortTypes'
  BY <1>1, <1>2, <1>3, <1>9 DEF PortTypes
<1>11. /\ \A k \in PortIds \ {n} : PortOK(k)'
       /\ \A q \in Callers : CallOK(q)'
       /\ OneClears'
  BY <1>1, <1>3, <1>9, PortInUse DEF Idle
<1> QED BY <1>9, <1>10, <1>11 DEF PortsInv
(* A process that waits: nothing of the port is his yet. *)
LEMMA PtsendBlocksKeeps ==
  ASSUME PortsInv, NEW p \in Callers, NEW n \in PortIds, NEW m \in Words, PtsendBlocks(p, n, m)
  PROVE  PortsInv'
PROOF
<1>1. /\ call[p] = Idle /\ ~panicked /\ Alloc(n) /\ ~Passes(ptssem[n])
      /\ ptssem' = [ptssem EXCEPT ![n] = Blocks(ptssem[n], p)] /\ Enters(p, "send", n, m)
      /\ UNCHANGED <<ptstate, ptseq, ptmaxcnt, ptrsem, ptqueue, ptfree, ptnextid, panicked>>
  BY DEF PtsendBlocks, CanCall
<1>2. PortTypes /\ SemsOK(n) /\ FindsMessage(n) /\ FindsRoom(n) /\ QueueOK(n) /\ m \in Nat
  BY PortSizes DEF PortsInv, PortOK
<1>3. /\ ptssem'[n] = Blocks(ptssem[n], p) /\ DOMAIN ptssem' = PortIds
      /\ \A k \in PortIds \ {n} : ptssem'[k] = ptssem[k]
  BY <1>1, <1>2 DEF PortTypes
<1>4. /\ call' \in [Callers -> Calls]
      /\ call'[p].op = "send" /\ call'[p].port = n /\ call'[p].seq = ptseq[n] /\ call'[p].msg = m
      /\ \A q \in Callers \ {p} : call'[q] = call[q]
  BY <1>1, <1>2, CallTypes
<1>5. call[p].op = "none"
  BY <1>1 DEF Idle
<1>6. p \notin WaitToSend(n) /\ p \notin WaitToRecv(n)
  BY <1>2, <1>5 DEF SemsOK, CallsAt
<1>7. SemOf(ptssem'[n], WaitToSend(n) \cup {p}) /\ Units(ptssem[n]) = 0 /\ Units(ptssem'[n]) = 0
  BY <1>1, <1>2, <1>3, <1>6, UnitsBlocked DEF SemsOK
<1>8. WaitToSend(n)' = WaitToSend(n) \cup {p} /\ WaitToRecv(n)' = WaitToRecv(n)
  BY <1>1, <1>7, SemWaits DEF WaitToSend, WaitToRecv
<1>9. CallsAt("recv", n)' = CallsAt("recv", n) /\ CallsAt("send", n)' = CallsAt("send", n) \cup {p}
  BY <1>4, <1>5 DEF CallsAt
<1>10. RecvDue(n)' = RecvDue(n) /\ SendDue(n)' = SendDue(n)
  BY <1>1, <1>4, <1>5, <1>8, <1>9 DEF RecvDue, SendDue, CallsAt
<1>11. SemsOK(n)'
  BY <1>1, <1>2, <1>7, <1>8, <1>9 DEF SemsOK
<1>12. FindsMessage(n)' /\ FindsRoom(n)' /\ QueueOK(n)'
  BY <1>1, <1>2, <1>7, <1>10 DEF FindsMessage, FindsRoom, QueueOK, Alloc
<1>13. PortTypes' /\ NodesConserved' /\ PanicOnlyOvercommitted'
  BY <1>1, <1>2, <1>3, <1>4 DEF PortsInv, PortTypes, NodesConserved, PanicOnlyOvercommitted
<1>14. /\ \A k \in PortIds \ {n} : PortOK(k)'
       /\ \A q \in Callers : CallOK(q)'
       /\ OneClears'
  BY <1>1, <1>3, <1>4, <1>5, PortInUse
<1> QED BY <1>11, <1>12, <1>13, <1>14 DEF PortsInv, PortOK

LEMMA PtrecvBlocksKeeps ==
  ASSUME PortsInv, NEW p \in Callers, NEW n \in PortIds, PtrecvBlocks(p, n)
  PROVE  PortsInv'
PROOF
<1>1. /\ call[p] = Idle /\ ~panicked /\ Alloc(n) /\ ~Passes(ptrsem[n])
      /\ ptrsem' = [ptrsem EXCEPT ![n] = Blocks(ptrsem[n], p)] /\ Enters(p, "recv", n, 0)
      /\ UNCHANGED <<ptstate, ptseq, ptmaxcnt, ptssem, ptqueue, ptfree, ptnextid, panicked>>
  BY DEF PtrecvBlocks, CanCall
<1>2. PortTypes /\ SemsOK(n) /\ FindsMessage(n) /\ FindsRoom(n) /\ QueueOK(n)
  BY PortSizes DEF PortsInv, PortOK
<1>3. /\ ptrsem'[n] = Blocks(ptrsem[n], p) /\ DOMAIN ptrsem' = PortIds
      /\ \A k \in PortIds \ {n} : ptrsem'[k] = ptrsem[k]
  BY <1>1, <1>2 DEF PortTypes
<1>4. /\ call' \in [Callers -> Calls]
      /\ call'[p].op = "recv" /\ call'[p].port = n /\ call'[p].seq = ptseq[n]
      /\ \A q \in Callers \ {p} : call'[q] = call[q]
  BY <1>1, <1>2, CallTypes
<1>5. call[p].op = "none"
  BY <1>1 DEF Idle
<1>6. p \notin WaitToSend(n) /\ p \notin WaitToRecv(n)
  BY <1>2, <1>5 DEF SemsOK, CallsAt
<1>7. SemOf(ptrsem'[n], WaitToRecv(n) \cup {p}) /\ Units(ptrsem[n]) = 0 /\ Units(ptrsem'[n]) = 0
  BY <1>1, <1>2, <1>3, <1>6, UnitsBlocked DEF SemsOK
<1>8. WaitToRecv(n)' = WaitToRecv(n) \cup {p} /\ WaitToSend(n)' = WaitToSend(n)
  BY <1>1, <1>7, SemWaits DEF WaitToSend, WaitToRecv
<1>9. CallsAt("send", n)' = CallsAt("send", n) /\ CallsAt("recv", n)' = CallsAt("recv", n) \cup {p}
  BY <1>4, <1>5 DEF CallsAt
<1>10. RecvDue(n)' = RecvDue(n) /\ SendDue(n)' = SendDue(n)
  BY <1>1, <1>4, <1>5, <1>8, <1>9 DEF RecvDue, SendDue, CallsAt
<1>11. SemsOK(n)'
  BY <1>1, <1>2, <1>7, <1>8, <1>9 DEF SemsOK
<1>12. FindsMessage(n)' /\ FindsRoom(n)' /\ QueueOK(n)'
  BY <1>1, <1>2, <1>7, <1>10 DEF FindsMessage, FindsRoom, QueueOK, Alloc
<1>13. PortTypes' /\ NodesConserved' /\ PanicOnlyOvercommitted'
  BY <1>1, <1>2, <1>3, <1>4 DEF PortsInv, PortTypes, NodesConserved, PanicOnlyOvercommitted
<1>14. /\ \A k \in PortIds \ {n} : PortOK(k)'
       /\ \A q \in Callers : CallOK(q)'
       /\ OneClears'
  BY <1>1, <1>3, <1>4, <1>5, PortInUse
<1> QED BY <1>11, <1>12, <1>13, <1>14 DEF PortsInv, PortOK

(* A process that has lost its port meanwhile leaves everything alone. *)
LEMMA LeftAlone ==
  ASSUME PortsInv, NEW p \in Callers, call[p].op \in {"send", "recv"}, ~StillThere(p), Done(p),
         \A k \in PortIds : ~WaitsAt(p, ptssem[k]) /\ ~WaitsAt(p, ptrsem[k]),
         UNCHANGED <<portTab, ptfree, ptnextid, panicked>>
  PROVE  PortsInv'
PROOF
<1>1. /\ PortTypes /\ (\A k \in PortIds : PortOK(k)) /\ (\A q \in Callers : CallOK(q)) /\ OneClears
      /\ 0 \in PortIds
  BY PortSizes DEF PortsInv, PortIds
<1>2. /\ call' \in [Callers -> Calls] /\ call'[p] = Idle
      /\ \A q \in Callers \ {p} : call'[q] = call[q]
  BY <1>1, CallTypes
<1>3. UNCHANGED <<ptstate, ptseq, ptmaxcnt, ptssem, ptrsem, ptqueue, ptfree, ptnextid, panicked>>
  BY DEF portTab
<1>4. ~Clearing(p) /\ ~Clearing(p)' /\ call'[p].op = "none"
  BY <1>2 DEF Clearing, Idle
<1>5. ASSUME NEW k \in PortIds PROVE PortOK(k)'
  <2>1. WaitToSend(k)' = WaitToSend(k) /\ WaitToRecv(k)' = WaitToRecv(k)
    BY <1>3 DEF WaitToSend, WaitToRecv
  <2>2. p \notin WaitToSend(k) /\ p \notin WaitToRecv(k)
    BY DEF WaitsAt, WaitToSend, WaitToRecv
  <2>3. \A op \in {"send", "recv"} : CallsAt(op, k)' = CallsAt(op, k) \ {p}
    BY <1>2, <1>4 DEF CallsAt
  <2>4. SemsOK(k)'
    BY <1>1, <1>3, <2>1, <2>2, <2>3 DEF PortOK, SemsOK
  <2>5. QueueOK(k)'
    BY <1>1, <1>2, <1>3, <2>3 DEF PortOK, QueueOK, CallsAt
  <2>6. CASE Alloc(k)
    <3>1. p \notin RecvDue(k) /\ p \notin SendDue(k)
      BY <2>6 DEF RecvDue, SendDue, CallsAt, StillThere, Alloc
    <3>2. RecvDue(k)' = RecvDue(k) /\ SendDue(k)' = SendDue(k)
      BY <1>2, <1>3, <2>1, <2>3, <3>1 DEF RecvDue, SendDue, CallsAt
    <3> QED BY <1>1, <1>3, <2>4, <2>5, <3>2 DEF PortOK, FindsMessage, FindsRoom, Alloc
  <2>7. CASE ~Alloc(k)
    BY <1>3, <2>4, <2>5, <2>7 DEF PortOK, FindsMessage, FindsRoom, Alloc
  <2> QED BY <2>6, <2>7
<1>6. ASSUME NEW q \in Callers \ {p} PROVE CallOK(q)'
  BY <1>1, <1>2, <1>3, CallUntouched
<1>7. CallOK(p)'
  <2>1. call'[p].op = "none" /\ call'[p].seq = 0 /\ call'[p].port = 0 /\ ptseq'[0] \in Nat
    BY <1>1, <1>2, <1>3 DEF Idle, PortTypes
  <2> QED BY <2>1 DEF CallOK, Clearing
<1>8. OneClears'
  <2> SUFFICES ASSUME NEW q \in Callers, NEW r \in Callers, Clearing(q)', Clearing(r)',
                      call'[q].port = call'[r].port
               PROVE  q = r
    BY DEF OneClears
  <2>1. q # p /\ r # p
    BY <1>4
  <2>2. Clearing(q) /\ Clearing(r) /\ call[q].port = call[r].port
    BY <1>2, <2>1 DEF Clearing
  <2> QED BY <1>1, <2>2 DEF OneClears
<1>9. PortTypes' /\ NodesConserved' /\ PanicOnlyOvercommitted'
  BY <1>1, <1>2, <1>3 DEF PortsInv, PortTypes, NodesConserved, PanicOnlyOvercommitted
<1> QED BY <1>5, <1>6, <1>7, <1>8, <1>9 DEF PortsInv

LEMMA PtsendRestKeeps ==
  ASSUME PortsInv, NEW p \in Callers, NEW n \in PortIds, n = call[p].port, PtsendRest(p)
  PROVE  PortsInv' /\ (StillThere(p) => Len(ptqueue[n]) < ptmaxcnt[n])
PROOF
<1>1. /\ ~panicked /\ call[p].op = "send" /\ Done(p)
      /\ \A k \in PortIds : ~WaitsAt(p, ptssem[k]) /\ ~WaitsAt(p, ptrsem[k])
      /\ UNCHANGED <<ptstate, ptseq, ptmaxcnt, ptssem, ptnextid>>
  BY DEF PtsendRest, GoesOn
<1>2. CASE ~StillThere(p)
  BY <1>1, <1>2, LeftAlone DEF PtsendRest, portTab
<1>3. CASE StillThere(p)
  <2>1. Deposit(p, n, call[p].msg) /\ Alloc(n) /\ call[p].seq = ptseq[n]
    BY <1>1, <1>3 DEF PtsendRest, StillThere, Alloc
  <2>2. PortTypes /\ n \in PortIds /\ SemsOK(n) /\ call[p].msg \in Words
    BY <1>1 DEF PortsInv, PortTypes, PortOK, Calls, CallOK
  <2>3. /\ call' \in [Callers -> Calls] /\ call'[p] = Idle /\ call'[p].op = "none"
        /\ \A q \in Callers \ {p} : call'[q] = call[q]
    BY <1>1, <2>2, CallTypes DEF Idle
  <2>4. WaitToSend(n)' = WaitToSend(n) /\ p \notin WaitToSend(n)
    BY <1>1, <2>2 DEF WaitsAt, WaitToSend
  <2>5. /\ p \in CallsAt("send", n) /\ p \notin CallsAt("recv", n)
        /\ CallsAt("send", n)' = CallsAt("send", n) \ {p} /\ CallsAt("recv", n)' = CallsAt("recv", n)
    BY <1>1, <2>3 DEF CallsAt
  <2>6. p \in SendDue(n) /\ SendDue(n)' = SendDue(n) \ {p}
    BY <1>1, <2>1, <2>3, <2>4, <2>5 DEF SendDue, CallsAt
  <2>7. Cardinality(SendDue(n)') <= Cardinality(SendDue(n)) - 1
    <3>1. SendDue(n) \in SUBSET Callers
      BY DEF SendDue, CallsAt
    <3> QED BY <2>6, <3>1, CallersCounted
  <2>8. Cardinality(SendDue(n)') + Units(ptssem'[n]) + 1 <= Cardinality(SendDue(n)) + Units(ptssem[n])
    <3>1. Cardinality(SendDue(n)) \in Nat /\ Cardinality(SendDue(n)') \in Nat
      BY CallersCounted DEF SendDue, CallsAt
    <3>2. Units(ptssem[n]) \in Nat /\ Units(ptssem'[n]) = Units(ptssem[n])
      BY <1>1, <2>2 DEF SemsOK, SemOf, Units
    <3> QED BY <2>7, <3>1, <3>2
  <2>9. SemOf(ptssem'[n], WaitToSend(n)') /\ WaitToSend(n)' \subseteq CallsAt("send", n)'
    BY <1>1, <2>2, <2>4, <2>5 DEF SemsOK
  <2>10. \A q \in CallsAt("recv", n) : call'[q] = call[q]
    BY <2>3, <2>5 DEF CallsAt
  <2>11. /\ PortOK(n)' /\ NodesConserved' /\ PanicOnlyOvercommitted'
         /\ ptqueue' \in [PortIds -> Seq(Words)] /\ ptfree' \in Nat /\ panicked' \in BOOLEAN
         /\ DOMAIN ptrsem' = PortIds
         /\ \A k \in PortIds \ {n} : ptrsem'[k] = ptrsem[k] /\ ptqueue'[k] = ptqueue[k]
         /\ Len(ptqueue[n]) < ptmaxcnt[n]
    BY <1>1, <2>1, <2>2, <2>5, <2>8, <2>9, <2>10, DepositKeeps
  <2>12. PortTypes'
    BY <1>1, <2>2, <2>3, <2>11 DEF PortTypes
  <2>13. /\ \A k \in PortIds \ {n} : PortOK(k)'
         /\ \A q \in Callers : CallOK(q)'
         /\ OneClears'
    <3>1. \A k \in PortIds \ {n} : ptssem'[k] = ptssem[k] /\ ptrsem'[k] = ptrsem[k]
                                   /\ ptqueue'[k] = ptqueue[k]
      BY <1>1, <2>11
    <3>2. call[p].op \in {"send", "recv"} /\ call[p].port = n
      BY <1>1
    <3> QED BY <1>1, <2>1, <2>2, <2>3, <3>1, <3>2, PortInUse
  <2> QED BY <2>11, <2>12, <2>13 DEF PortsInv
<1> QED BY <1>2, <1>3

LEMMA PtrecvRestKeeps ==
  ASSUME PortsInv, NEW p \in Callers, NEW n \in PortIds, n = call[p].port, PtrecvRest(p)
  PROVE  PortsInv' /\ (StillThere(p) => ptqueue[n] # <<>>)
PROOF
<1>1. /\ ~panicked /\ call[p].op = "recv" /\ Done(p)
      /\ \A k \in PortIds : ~WaitsAt(p, ptssem[k]) /\ ~WaitsAt(p, ptrsem[k])
      /\ UNCHANGED <<ptstate, ptseq, ptmaxcnt, ptrsem, ptnextid, panicked>>
  BY DEF PtrecvRest, GoesOn
<1>2. CASE ~StillThere(p)
  BY <1>1, <1>2, LeftAlone DEF PtrecvRest, portTab
<1>3. CASE StillThere(p)
  <2>1. Withdraw(n) /\ Alloc(n) /\ call[p].seq = ptseq[n]
    BY <1>1, <1>3 DEF PtrecvRest, StillThere, Alloc
  <2>2. PortTypes /\ n \in PortIds /\ SemsOK(n)
    BY <1>1 DEF PortsInv, PortTypes, PortOK, Calls
  <2>3. /\ call' \in [Callers -> Calls] /\ call'[p] = Idle /\ call'[p].op = "none"
        /\ \A q \in Callers \ {p} : call'[q] = call[q]
    BY <1>1, <2>2, CallTypes DEF Idle
  <2>4. WaitToRecv(n)' = WaitToRecv(n) /\ p \notin WaitToRecv(n)
    BY <1>1, <2>2 DEF WaitsAt, WaitToRecv
  <2>5. /\ p \in CallsAt("recv", n) /\ p \notin CallsAt("send", n)
        /\ CallsAt("recv", n)' = CallsAt("recv", n) \ {p} /\ CallsAt("send", n)' = CallsAt("send", n)
    BY <1>1, <2>3 DEF CallsAt
  <2>6. p \in RecvDue(n) /\ RecvDue(n)' = RecvDue(n) \ {p}
    BY <1>1, <2>1, <2>3, <2>4, <2>5 DEF RecvDue, CallsAt
  <2>7. Cardinality(RecvDue(n)') <= Cardinality(RecvDue(n)) - 1
    <3>1. RecvDue(n) \in SUBSET Callers
      BY DEF RecvDue, CallsAt
    <3> QED BY <2>6, <3>1, CallersCounted
  <2>8. Cardinality(RecvDue(n)') + Units(ptrsem'[n]) + 1 <= Cardinality(RecvDue(n)) + Units(ptrsem[n])
    <3>1. Cardinality(RecvDue(n)) \in Nat /\ Cardinality(RecvDue(n)') \in Nat
      BY CallersCounted DEF RecvDue, CallsAt
    <3>2. Units(ptrsem[n]) \in Nat /\ Units(ptrsem'[n]) = Units(ptrsem[n])
      BY <1>1, <2>2 DEF SemsOK, SemOf, Units
    <3> QED BY <2>7, <3>1, <3>2
  <2>9. SemOf(ptrsem'[n], WaitToRecv(n)') /\ WaitToRecv(n)' \subseteq CallsAt("recv", n)'
    BY <1>1, <2>2, <2>4, <2>5 DEF SemsOK
  <2>10. \A q \in CallsAt("send", n) : call'[q] = call[q]
    BY <2>3, <2>5 DEF CallsAt
  <2>11. /\ PortOK(n)' /\ NodesConserved' /\ PanicOnlyOvercommitted'
         /\ ptqueue' \in [PortIds -> Seq(Words)] /\ ptfree' \in Nat /\ panicked' \in BOOLEAN
         /\ DOMAIN ptssem' = PortIds
         /\ \A k \in PortIds \ {n} : ptssem'[k] = ptssem[k] /\ ptqueue'[k] = ptqueue[k]
         /\ ptqueue[n] # <<>>
    BY <1>1, <2>1, <2>2, <2>5, <2>8, <2>9, <2>10, WithdrawKeeps
  <2>12. PortTypes'
    BY <1>1, <2>2, <2>3, <2>11 DEF PortTypes
  <2>13. /\ \A k \in PortIds \ {n} : PortOK(k)'
         /\ \A q \in Callers : CallOK(q)'
         /\ OneClears'
    <3>1. \A k \in PortIds \ {n} : ptssem'[k] = ptssem[k] /\ ptrsem'[k] = ptrsem[k]
                                   /\ ptqueue'[k] = ptqueue[k]
      BY <1>1, <2>11
    <3>2. call[p].op \in {"send", "recv"} /\ call[p].port = n
      BY <1>1
    <3> QED BY <1>1, <2>1, <2>2, <2>3, <3>1, <3>2, PortInUse
  <2> QED BY <2>11, <2>12, <2>13 DEF PortsInv
<1> QED BY <1>2, <1>3-----------------------------------------------------------------------------
(* Ports that nobody uses, or that one process clears *)

LEMMA PortOwned ==
  ASSUME PortsInv, NEW p \in Callers, NEW n \in PortIds,
         \A m \in PortIds \ {n} :
            /\ ptstate'[m] = ptstate[m] /\ ptseq'[m] = ptseq[m] /\ ptmaxcnt'[m] = ptmaxcnt[m]
            /\ ptssem'[m] = ptssem[m] /\ ptrsem'[m] = ptrsem[m] /\ ptqueue'[m] = ptqueue[m],
         ptseq'[n] = ptseq[n] \/ ptseq'[n] = ptseq[n] + 1,
         \A q \in Callers \ {p} : call'[q] = call[q],
         call[p].op \notin {"send", "recv"}, call'[p].op \notin {"send", "recv"},
         \A q \in Callers \ {p} : call[q].port = n => ~Clearing(q),
         CallOK(p)', Clearing(p)' => call'[p].port = n, PortOK(n)'
  PROVE  /\ \A m \in PortIds : PortOK(m)'
         /\ \A q \in Callers : CallOK(q)'
         /\ OneClears'
PROOF
<1>1. /\ ptseq \in [PortIds -> Nat] /\ call \in [Callers -> Calls]
      /\ (\A m \in PortIds : PortOK(m)) /\ (\A q \in Callers : CallOK(q)) /\ OneClears
  BY DEF PortsInv, PortTypes
<1>2. ASSUME NEW m \in PortIds \ {n} PROVE PortOK(m)'
  BY <1>1, PortUntouched
<1>3. ASSUME NEW q \in Callers \ {p} PROVE CallOK(q)'
  <2>1. /\ call'[q] = call[q] /\ call[q].port \in PortIds /\ call[q].seq \in Nat
        /\ ptseq[call[q].port] \in Nat /\ ptseq[n] \in Nat /\ CallOK(q)
    BY <1>1 DEF Calls
  <2>2. CASE call[q].port # n
    BY <2>1, <2>2, CallUntouched
  <2>3. CASE call[q].port = n
    <3>1. ~Clearing(q)
      BY <2>3
    <3>2. call[q].op \notin {"reset2", "delete2"}
      BY <3>1 DEF Clearing
    <3>3. call[q].seq <= ptseq'[n]
      BY <2>1, <2>3 DEF CallOK
    <3> QED BY <2>1, <2>3, <3>1, <3>2, <3>3 DEF CallOK, Clearing
  <2> QED BY <2>2, <2>3
<1>4. OneClears'
  <2> SUFFICES ASSUME NEW q \in Callers, NEW r \in Callers, Clearing(q)', Clearing(r)',
                      call'[q].port = call'[r].port
               PROVE  q = r
    BY DEF OneClears
  <2>1. \A s \in Callers \ {p} : Clearing(s)' => Clearing(s) /\ call'[s].port # n
    BY DEF Clearing
  <2>2. CASE q # p /\ r # p
    BY <1>1, <2>1, <2>2 DEF OneClears
  <2>3. CASE q = p \/ r = p
    BY <2>1, <2>3
  <2> QED BY <2>2, <2>3
<1> QED BY <1>2, <1>3, <1>4

LEMMA PtcreateKeeps ==
  ASSUME PortsInv, NEW p \in Callers, NEW count \in Counts, Ptcreate(p, count)
  PROVE  PortsInv'
PROOF
<1>1. PICK n \in PortIds :
       /\ NextPort(n)
       /\ ptstate' = [ptstate EXCEPT ![n] = "alloc"]
       /\ ptssem' = [ptssem EXCEPT ![n] = NewSem(count)]
       /\ ptrsem' = [ptrsem EXCEPT ![n] = NewSem(0)]
       /\ ptqueue' = [ptqueue EXCEPT ![n] = <<>>]
       /\ ptseq' = [ptseq EXCEPT ![n] = ptseq[n] + 1]
       /\ ptmaxcnt' = [ptmaxcnt EXCEPT ![n] = count]
       /\ ptnextid' = After(n)
  BY DEF Ptcreate
<1>2. call[p] = Idle /\ ~panicked /\ UNCHANGED <<ptfree, call, panicked>> /\ ptstate[n] = "free"
  BY <1>1 DEF Ptcreate, CanCall, NextPort
<1>3. /\ PortTypes /\ QueueOK(n) /\ count \in Nat /\ (\A q \in Callers : CallOK(q))
      /\ NPORTS \in Nat \ {0} /\ 0 \in PortIds
  BY PortSizes DEF PortsInv, PortOK, PortIds
<1>4. /\ ptseq[n] \in Nat /\ ptqueue[n] = <<>> /\ ptqueue \in [PortIds -> Seq(Words)]
      /\ call \in [Callers -> Calls]
  BY <1>2, <1>3 DEF PortTypes, QueueOK
<1>5. /\ ptstate'[n] = "alloc" /\ ptssem'[n] = NewSem(count) /\ ptrsem'[n] = NewSem(0)
      /\ ptqueue'[n] = <<>> /\ ptseq'[n] = ptseq[n] + 1 /\ ptmaxcnt'[n] = count
  BY <1>1, <1>3 DEF PortTypes
<1>6. \A m \in PortIds \ {n} :
         /\ ptstate'[m] = ptstate[m] /\ ptseq'[m] = ptseq[m] /\ ptmaxcnt'[m] = ptmaxcnt[m]
         /\ ptssem'[m] = ptssem[m] /\ ptrsem'[m] = ptrsem[m] /\ ptqueue'[m] = ptqueue[m]
  BY <1>1, <1>3 DEF PortTypes
<1>7. \A q \in Callers : call[q].port = n => ~Clearing(q) /\ call[q].seq <= ptseq[n]
                                             /\ call[q].seq \in Nat
  BY <1>2, <1>3, <1>4 DEF CallOK, Calls
<1>8. \A q \in CallsAt("send", n)' \cup CallsAt("recv", n)' : call'[q].seq # ptseq'[n]
  <2> TAKE q \in CallsAt("send", n)' \cup CallsAt("recv", n)'
  <2>1. q \in Callers /\ call[q].port = n /\ call'[q] = call[q]
    BY <1>2 DEF CallsAt
  <2> QED BY <1>4, <1>5, <1>7, <2>1
<1>9. Cardinality(SendDue(n))' = 0 /\ Cardinality(RecvDue(n))' = 0
  <2>1. SendDue(n)' = {} /\ RecvDue(n)' = {}
    BY <1>8 DEF SendDue, RecvDue
  <2> QED BY <2>1, FS_EmptySet
<1>10. /\ SemOf(NewSem(count), {}) /\ Units(NewSem(count)) = count /\ ToSet(NewSem(count).queue) = {}
       /\ SemOf(NewSem(0), {}) /\ Units(NewSem(0)) = 0 /\ ToSet(NewSem(0).queue) = {}
  BY <1>3, UnitsNew
<1>11. SemsOK(n)'
  BY <1>5, <1>10 DEF SemsOK, WaitToSend, WaitToRecv
<1>12. QueueOK(n)'
  BY <1>3, <1>5 DEF QueueOK
<1>13. FindsMessage(n)' /\ FindsRoom(n)'
  BY <1>3, <1>5, <1>9, <1>10 DEF FindsMessage, FindsRoom
<1>14. PortOK(n)'
  BY <1>11, <1>12, <1>13 DEF PortOK
<1>15. call'[p].op = "none" /\ call'[p].seq = 0 /\ call'[p].port = 0
  BY <1>2 DEF Idle
<1>16. CallOK(p)'
  <2>1. ptseq'[0] \in Nat
    BY <1>1, <1>3 DEF PortTypes
  <2> QED BY <1>15, <2>1 DEF CallOK, Clearing
<1>17. /\ \A m \in PortIds : PortOK(m)'
       /\ \A q \in Callers : CallOK(q)'
       /\ OneClears'
  <2>1. ~Clearing(p)' /\ call[p].op \notin {"send", "recv"}
    BY <1>2 DEF Clearing, Idle
  <2> QED BY <1>2, <1>5, <1>6, <1>7, <1>14, <1>15, <1>16, <2>1, PortOwned
<1>18. PortTypes'
  <2>1. After(n) \in PortIds
    BY <1>3 DEF After, PortIds
  <2> QED BY SMTT(30), <1>1, <1>2, <1>3, <2>1 DEF PortTypes
<1>19. NodesConserved'
  <2>1. NodesConserved /\ ptfree \in Nat /\ <<>> \in Seq(Words) /\ ptfree' = ptfree + Len(ptqueue[n]) - Len(<<>>)
    BY <1>2, <1>3, <1>4 DEF PortsInv, PortTypes
  <2> QED BY <1>1, <1>4, <2>1, NodesMove
<1>20. PanicOnlyOvercommitted'
  BY <1>2 DEF PanicOnlyOvercommitted
<1> QED BY <1>17, <1>18, <1>19, <1>20 DEF PortsInv

LEMMA PtclearStartKeeps ==
  ASSUME PortsInv, NEW p \in Callers, NEW n \in PortIds, NEW op \in {"reset", "delete"},
         PtclearStart(p, n, op)
  PROVE  PortsInv'
PROOF
<1>1. /\ call[p] = Idle /\ ~panicked /\ Alloc(n) /\ Enters(p, op, n, 0)
      /\ ptstate' = [ptstate EXCEPT ![n] = "limbo"] /\ ptseq' = [ptseq EXCEPT ![n] = ptseq[n] + 1]
      /\ UNCHANGED <<ptmaxcnt, ptssem, ptrsem, ptqueue, ptfree, ptnextid, panicked>>
  BY DEF PtclearStart, CanCall, PtclearSeq
<1>2. PortTypes /\ SemsOK(n) /\ QueueOK(n) /\ \A q \in Callers : CallOK(q)
  BY DEF PortsInv, PortOK
<1>3. ptseq[n] \in Nat /\ call \in [Callers -> Calls]
  BY <1>2 DEF PortTypes
<1>4. /\ call' \in [Callers -> Calls]
      /\ call'[p].op = op /\ call'[p].port = n /\ call'[p].seq = ptseq[n]
      /\ \A q \in Callers \ {p} : call'[q] = call[q]
  BY <1>1, <1>2, CallTypes
<1>5. /\ ptstate'[n] = "limbo" /\ ptseq'[n] = ptseq[n] + 1
      /\ \A m \in PortIds \ {n} : ptstate'[m] = ptstate[m] /\ ptseq'[m] = ptseq[m]
  BY <1>1, <1>2 DEF PortTypes
<1>6. call[p].op = "none"
  BY <1>1 DEF Idle
<1>7. \A q \in Callers : call[q].port = n => ~Clearing(q) /\ call[q].seq <= ptseq[n]
                                             /\ call[q].seq \in Nat
  BY <1>1, <1>2, <1>3 DEF CallOK, Calls, Alloc
<1>8. CallsAt("send", n)' = CallsAt("send", n) /\ CallsAt("recv", n)' = CallsAt("recv", n)
  BY <1>4, <1>6 DEF CallsAt
<1>9. \A q \in CallsAt("send", n) \cup CallsAt("recv", n) : call'[q].seq # ptseq'[n]
  <2> TAKE q \in CallsAt("send", n) \cup CallsAt("recv", n)
  <2>1. q \in Callers /\ call[q].port = n /\ call'[q] = call[q]
    BY <1>4, <1>6 DEF CallsAt
  <2> QED BY <1>3, <1>5, <1>7, <2>1
<1>10. PortOK(n)'
  <2>1. SemsOK(n)'
    BY <1>1, <1>2, <1>8 DEF SemsOK, WaitToSend, WaitToRecv
  <2>2. QueueOK(n)'
    BY <1>1, <1>2, <1>5, <1>8, <1>9 DEF QueueOK, Alloc
  <2> QED BY <1>5, <2>1, <2>2 DEF PortOK, FindsMessage, FindsRoom, Alloc
<1>11. CallOK(p)'
  <2>1. call'[p].seq <= ptseq'[n]
    BY <1>3, <1>4, <1>5
  <2> QED BY <1>4, <1>5, <2>1 DEF CallOK, Clearing
<1>12. /\ \A m \in PortIds : PortOK(m)'
       /\ \A q \in Callers : CallOK(q)'
       /\ OneClears'
  BY <1>1, <1>4, <1>5, <1>6, <1>7, <1>10, <1>11, PortOwned
<1>13. PortTypes' /\ NodesConserved' /\ PanicOnlyOvercommitted'
  BY <1>1, <1>2, <1>4 DEF PortsInv, PortTypes, NodesConserved, PanicOnlyOvercommitted
<1> QED BY <1>12, <1>13 DEF PortsInv
(* The other callers of a port that p clears do not clear it. *)
LEMMA ClearsAlone ==
  ASSUME PortsInv, NEW p \in Callers, Clearing(p), NEW n \in PortIds, call[p].port = n
  PROVE  /\ \A q \in Callers \ {p} : call[q].port = n => ~Clearing(q)
         /\ ptstate[n] = "limbo"
         /\ \A q \in CallsAt("send", n) \cup CallsAt("recv", n) : call[q].seq # ptseq[n]
         /\ call[p].seq <= ptseq[n]
PROOF
<1>1. OneClears /\ CallOK(p) /\ QueueOK(n)
  BY DEF PortsInv, PortOK
<1>2. ptstate[n] = "limbo" /\ call[p].seq <= ptseq[n]
  BY <1>1 DEF CallOK
<1> QED BY <1>1, <1>2 DEF OneClears, QueueOK

LEMMA DisposeKeeps ==
  ASSUME PortsInv, NEW p \in Callers, NEW n \in PortIds, n = call[p].port,
         NEW op \in {"reset", "delete"}, Dispose(p, op)
  PROVE  PortsInv'
PROOF
<1>1. /\ ~panicked /\ call[p].op = op /\ call' = [call EXCEPT ![p].phase = call[p].phase + 1]
      /\ UNCHANGED <<ptstate, ptseq, ptmaxcnt, ptssem, ptrsem, ptqueue, ptfree, ptnextid, panicked>>
  BY DEF Dispose, GoesOn, portTab
<1>2. PortTypes /\ PortOK(n) /\ call \in [Callers -> Calls] /\ call[p] \in Calls
  BY DEF PortsInv, PortTypes
<1>3. /\ call' \in [Callers -> Calls] /\ call'[p].op = op /\ call'[p].port = n
      /\ call'[p].seq = call[p].seq
      /\ \A q \in Callers \ {p} : call'[q] = call[q]
  <2>1. [call[p] EXCEPT !.phase = call[p].phase + 1] \in Calls
    BY <1>2 DEF Calls
  <2>2. call' = [call EXCEPT ![p] = [call[p] EXCEPT !.phase = call[p].phase + 1]]
    BY <1>1, <1>2
  <2>3. call'[p] = [call[p] EXCEPT !.phase = call[p].phase + 1]
    BY <1>2, <2>2
  <2> QED BY <1>1, <1>2, <2>1, <2>2, <2>3 DEF Calls
<1>4. Clearing(p)
  BY <1>1 DEF Clearing
<1>5. CallsAt("send", n)' = CallsAt("send", n) /\ CallsAt("recv", n)' = CallsAt("recv", n)
  BY <1>1, <1>3 DEF CallsAt
<1>6. \A q \in CallsAt("send", n) \cup CallsAt("recv", n) : call'[q] = call[q]
  BY <1>1, <1>3 DEF CallsAt
<1>7. PortOK(n)'
  <2>1. SemsOK(n)'
    BY <1>1, <1>2, <1>5 DEF PortOK, SemsOK, WaitToSend, WaitToRecv
  <2>2. QueueOK(n)'
    BY <1>1, <1>2, <1>5, <1>6 DEF PortOK, QueueOK
  <2>3. ~Alloc(n)'
    BY <1>1, <1>4, ClearsAlone DEF Alloc
  <2> QED BY <2>1, <2>2, <2>3 DEF PortOK, FindsMessage, FindsRoom
<1>8. CallOK(p)'
  BY <1>1, <1>3, <1>4, ClearsAlone DEF CallOK, Clearing
<1>9. /\ \A m \in PortIds : PortOK(m)'
      /\ \A q \in Callers : CallOK(q)'
      /\ OneClears'
  BY <1>1, <1>3, <1>4, <1>7, <1>8, ClearsAlone, PortOwned
<1>10. PortTypes' /\ NodesConserved' /\ PanicOnlyOvercommitted'
  BY <1>1, <1>2, <1>3 DEF PortsInv, PortTypes, NodesConserved, PanicOnlyOvercommitted
<1> QED BY <1>9, <1>10 DEF PortsInv

LEMMA PtclearSendersKeeps ==
  ASSUME PortsInv, NEW p \in Callers, NEW n \in PortIds, n = call[p].port,
         NEW op \in {"reset", "delete"}, PtclearSenders(p, op)
  PROVE  PortsInv'
PROOF
<1> DEFINE newcount == IF op = "reset" THEN ptmaxcnt[n] ELSE 0
           r == [[call[p] EXCEPT !.op = SecondHalf(op)] EXCEPT !.phase = 0]
<1>1. /\ ~panicked /\ call[p].op = op
      /\ ptfree' = ptfree + Len(ptqueue[n])
      /\ ptqueue' = [ptqueue EXCEPT ![n] = <<>>]
      /\ ptssem' = [ptssem EXCEPT ![n] = NewSem(newcount)]
      /\ call' = [call EXCEPT ![p] = r]
      /\ UNCHANGED <<ptstate, ptseq, ptmaxcnt, ptrsem, ptnextid, panicked>>
  BY DEF PtclearSenders, GoesOn, NodesReturned, Emptied
<1>2. /\ PortTypes /\ PortOK(n) /\ call \in [Callers -> Calls] /\ call[p] \in Calls
      /\ newcount \in Nat /\ ptmaxcnt[n] \in Nat
  BY DEF PortsInv, PortTypes
<1>3. /\ call' \in [Callers -> Calls] /\ call'[p].op = SecondHalf(op) /\ call'[p].port = n
      /\ call'[p].seq = call[p].seq /\ call'[p].phase = 0
      /\ SecondHalf(op) \in {"reset2", "delete2"}
      /\ \A q \in Callers \ {p} : call'[q] = call[q]
  <2>1. SecondHalf(op) \in {"reset2", "delete2"}
    BY DEF SecondHalf
  <2>2. r \in Calls /\ r.op = SecondHalf(op) /\ r.port = n /\ r.seq = call[p].seq /\ r.phase = 0
    BY <1>2, <2>1 DEF Calls
  <2> HIDE DEF r
  <2>3. call'[p] = r
    BY <1>1, <1>2
  <2> QED BY <1>1, <1>2, <2>1, <2>2, <2>3
<1> HIDE DEF r
<1>4. Clearing(p)
  BY <1>1 DEF Clearing
<1>5. CallsAt("send", n)' = CallsAt("send", n) /\ CallsAt("recv", n)' = CallsAt("recv", n)
  BY <1>1, <1>3 DEF CallsAt
<1>6. \A q \in CallsAt("send", n) \cup CallsAt("recv", n) : call'[q] = call[q]
  BY <1>1, <1>3 DEF CallsAt
<1>7. /\ ptssem'[n] = NewSem(newcount) /\ ptqueue'[n] = <<>> /\ DOMAIN ptssem' = PortIds
      /\ \A m \in PortIds \ {n} : ptssem'[m] = ptssem[m] /\ ptqueue'[m] = ptqueue[m]
      /\ ptqueue' \in [PortIds -> Seq(Words)] /\ ptfree' \in Nat
      /\ ptqueue[n] \in Seq(Words) /\ Len(ptqueue[n]) \in Nat
  <2>1. /\ ptqueue \in [PortIds -> Seq(Words)] /\ DOMAIN ptssem = PortIds /\ ptfree \in Nat
        /\ <<>> \in Seq(Words)
    BY <1>2 DEF PortTypes
  <2> HIDE DEF newcount
  <2>2. ptqueue[n] \in Seq(Words) /\ Len(ptqueue[n]) \in Nat
    BY <2>1
  <2> QED BY <1>1, <2>1, <2>2
<1>8. PortOK(n)'
  <2>1. SemsOK(n)'
    <3>1. SemOf(ptssem'[n], {}) /\ ToSet(ptssem'[n].queue) = {}
      BY <1>2, <1>7, UnitsNew
    <3> QED BY <1>1, <1>2, <1>5, <3>1 DEF PortOK, SemsOK, WaitToSend, WaitToRecv
  <2>2. QueueOK(n)'
    <3>1. ptstate[n] = "limbo"
      BY <1>1, <1>4, ClearsAlone
    <3> QED BY <1>1, <1>2, <1>5, <1>6, <1>7, <3>1 DEF PortOK, QueueOK
  <2>3. ~Alloc(n)'
    BY <1>1, <1>4, ClearsAlone DEF Alloc
  <2> QED BY <2>1, <2>2, <2>3 DEF PortOK, FindsMessage, FindsRoom
<1>9. CallOK(p)'
  <2>1. ptstate[n] = "limbo" /\ call[p].seq <= ptseq[n]
    BY <1>4, ClearsAlone
  <2>2. ptssem'[n] = NewSem(IF SecondHalf(op) = "reset2" THEN ptmaxcnt'[n] ELSE 0)
    BY <1>1, <1>7 DEF SecondHalf
  <2> QED BY <1>1, <1>3, <1>7, <2>1, <2>2 DEF CallOK, Clearing
<1> HIDE DEF newcount
<1>10. /\ \A m \in PortIds : PortOK(m)'
       /\ \A q \in Callers : CallOK(q)'
       /\ OneClears'
  <2>1. call'[p].op \notin {"send", "recv"} /\ call[p].op \notin {"send", "recv"}
    BY <1>1, <1>3
  <2> QED BY <1>1, <1>3, <1>4, <1>7, <1>8, <1>9, <2>1, ClearsAlone, PortOwned
<1>11. PortTypes'
  BY <1>1, <1>2, <1>3, <1>7 DEF PortTypes
<1>12. NodesConserved'
  <2>1. NodesConserved /\ ptfree \in Nat /\ ptqueue \in [PortIds -> Seq(Words)] /\ <<>> \in Seq(Words)
        /\ ptfree' = ptfree + Len(ptqueue[n]) - Len(<<>>)
    BY <1>1, <1>2, <1>7 DEF PortsInv, PortTypes
  <2> QED BY <1>1, <2>1, NodesMove
<1>13. PanicOnlyOvercommitted'
  BY <1>1 DEF PanicOnlyOvercommitted
<1> QED BY <1>10, <1>11, <1>12, <1>13 DEF PortsInv

LEMMA PtclearReceiversKeeps ==
  ASSUME PortsInv, NEW p \in Callers, NEW n \in PortIds, n = call[p].port,
         NEW op \in {"reset", "delete"}, PtclearReceivers(p, op)
  PROVE  PortsInv'
PROOF
<1>1. /\ ~panicked /\ call[p].op = SecondHalf(op) /\ SecondHalf(op) \in {"reset2", "delete2"}
      /\ ptrsem' = [ptrsem EXCEPT ![n] = NewSem(0)]
      /\ call' = [call EXCEPT ![p].phase = 1]
      /\ UNCHANGED <<ptstate, ptseq, ptmaxcnt, ptssem, ptqueue, ptfree, ptnextid, panicked>>
  BY DEF PtclearReceivers, GoesOn, SecondHalf
<1>2. PortTypes /\ PortOK(n) /\ CallOK(p) /\ call \in [Callers -> Calls] /\ call[p] \in Calls
  BY DEF PortsInv, PortTypes
<1>3. /\ call' \in [Callers -> Calls] /\ call'[p].op = call[p].op /\ call'[p].port = n
      /\ call'[p].seq = call[p].seq
      /\ \A q \in Callers \ {p} : call'[q] = call[q]
  <2>1. [call[p] EXCEPT !.phase = 1] \in Calls
    BY <1>2 DEF Calls
  <2>2. call' = [call EXCEPT ![p] = [call[p] EXCEPT !.phase = 1]]
    BY <1>1, <1>2
  <2>3. call'[p] = [call[p] EXCEPT !.phase = 1]
    BY <1>2, <2>2
  <2> QED BY <1>1, <1>2, <2>1, <2>2, <2>3 DEF Calls
<1>4. Clearing(p)
  BY <1>1 DEF Clearing
<1>5. CallsAt("send", n)' = CallsAt("send", n) /\ CallsAt("recv", n)' = CallsAt("recv", n)
  BY <1>1, <1>3 DEF CallsAt
<1>6. \A q \in CallsAt("send", n) \cup CallsAt("recv", n) : call'[q] = call[q]
  BY <1>1, <1>3 DEF CallsAt
<1>7. /\ ptrsem'[n] = NewSem(0) /\ DOMAIN ptrsem' = PortIds
      /\ \A m \in PortIds \ {n} : ptrsem'[m] = ptrsem[m]
  BY <1>1, <1>2 DEF PortTypes
<1>8. PortOK(n)'
  <2>1. SemsOK(n)'
    BY <1>1, <1>2, <1>5, <1>7, UnitsNew DEF PortOK, SemsOK, WaitToSend, WaitToRecv
  <2>2. QueueOK(n)'
    BY <1>1, <1>2, <1>5, <1>6 DEF PortOK, QueueOK
  <2>3. ~Alloc(n)'
    BY <1>1, <1>4, ClearsAlone DEF Alloc
  <2> QED BY <2>1, <2>2, <2>3 DEF PortOK, FindsMessage, FindsRoom
<1>9. CallOK(p)'
  BY <1>1, <1>2, <1>3, <1>7 DEF CallOK, Clearing
<1>10. /\ \A m \in PortIds : PortOK(m)'
       /\ \A q \in Callers : CallOK(q)'
       /\ OneClears'
  <2>1. call'[p].op \notin {"send", "recv"} /\ call[p].op \notin {"send", "recv"}
    BY <1>1, <1>3
  <2> QED BY <1>1, <1>3, <1>4, <1>7, <1>8, <1>9, <2>1, ClearsAlone, PortOwned
<1>11. PortTypes' /\ NodesConserved' /\ PanicOnlyOvercommitted'
  BY <1>1, <1>2, <1>3, <1>7 DEF PortsInv, PortTypes, NodesConserved, PanicOnlyOvercommitted
<1> QED BY <1>10, <1>11 DEF PortsInv

LEMMA PtclearEndKeeps ==
  ASSUME PortsInv, NEW p \in Callers, NEW n \in PortIds, n = call[p].port,
         NEW op \in {"reset", "delete"}, PtclearEnd(p, op)
  PROVE  PortsInv'
PROOF
<1>1. /\ ~panicked /\ call[p].op = SecondHalf(op) /\ SecondHalf(op) \in {"reset2", "delete2"}
      /\ SecondHalf(op) = "reset2" <=> op = "reset"
      /\ call[p].phase = 1 /\ Done(p)
      /\ ptstate' = [ptstate EXCEPT ![n] = IF op = "reset" THEN "alloc" ELSE "free"]
      /\ ptnextid' = IF op = "reset" THEN ptnextid ELSE n
      /\ UNCHANGED <<ptseq, ptmaxcnt, ptssem, ptrsem, ptqueue, ptfree, panicked>>
  BY DEF PtclearEnd, GoesOn, SecondHalf
<1>2. PortTypes /\ SemsOK(n) /\ QueueOK(n) /\ CallOK(p) /\ ptmaxcnt[n] \in Nat /\ 0 \in PortIds
  <2>1. 0 \in PortIds
    BY PortSizes DEF PortIds
  <2> QED BY <2>1 DEF PortsInv, PortTypes, PortOK
<1>3. /\ call' \in [Callers -> Calls] /\ call'[p] = Idle
      /\ \A q \in Callers \ {p} : call'[q] = call[q]
  BY <1>1, <1>2, CallTypes
<1>4. Clearing(p) /\ ptstate[n] = "limbo"
  BY <1>1, ClearsAlone DEF Clearing
<1>5. /\ ptqueue[n] = <<>> /\ ptssem[n] = NewSem(IF op = "reset" THEN ptmaxcnt[n] ELSE 0)
      /\ ptrsem[n] = NewSem(0)
  BY <1>1, <1>2 DEF CallOK
<1>6. /\ ptstate'[n] = IF op = "reset" THEN "alloc" ELSE "free"
      /\ \A m \in PortIds \ {n} : ptstate'[m] = ptstate[m]
      /\ ptstate' \in [PortIds -> {"free", "limbo", "alloc"}] /\ ptnextid' \in PortIds
  BY <1>1, <1>2 DEF PortTypes
<1>7. call'[p].op = "none" /\ call'[p].seq = 0 /\ call'[p].port = 0
  BY <1>3 DEF Idle
<1>8. CallsAt("send", n)' = CallsAt("send", n) /\ CallsAt("recv", n)' = CallsAt("recv", n)
  BY <1>1, <1>3, <1>7 DEF CallsAt
<1>9. \A q \in CallsAt("send", n)' \cup CallsAt("recv", n)' : call'[q].seq # ptseq'[n]
  <2>1. \A q \in CallsAt("send", n) \cup CallsAt("recv", n) : call'[q] = call[q]
    BY <1>1, <1>3 DEF CallsAt
  <2> QED BY <1>1, <1>4, <1>8, <2>1, ClearsAlone
<1>10. Cardinality(SendDue(n))' = 0 /\ Cardinality(RecvDue(n))' = 0
  <2>1. SendDue(n)' = {} /\ RecvDue(n)' = {}
    BY <1>9 DEF SendDue, RecvDue
  <2> QED BY <2>1, FS_EmptySet
<1>11. PortOK(n)'
  <2>1. SemsOK(n)'
    BY <1>1, <1>2, <1>8 DEF SemsOK, WaitToSend, WaitToRecv
  <2>2. QueueOK(n)'
    <3>1. Len(ptqueue'[n]) <= ptmaxcnt'[n] /\ ptmaxcnt'[n] \in Counts
      BY <1>1, <1>2, <1>4 DEF QueueOK
    <3> QED BY <1>1, <1>5, <1>9, <3>1 DEF QueueOK
  <2>3. FindsMessage(n)' /\ FindsRoom(n)'
    <3>1. CASE op = "reset"
      <4>1. Units(ptssem'[n]) = ptmaxcnt'[n] /\ Units(ptrsem'[n]) = 0 /\ Len(ptqueue'[n]) = 0
        BY <1>1, <1>2, <1>5, <3>1, UnitsNew
      <4> QED BY <1>1, <1>2, <1>10, <4>1 DEF FindsMessage, FindsRoom
    <3>2. CASE op # "reset"
      BY <1>6, <3>2 DEF FindsMessage, FindsRoom, Alloc
    <3> QED BY <3>1, <3>2
  <2> QED BY <2>1, <2>2, <2>3 DEF PortOK
<1>12. CallOK(p)' /\ ~Clearing(p)'
  <2>1. ptseq'[0] \in Nat
    BY <1>1, <1>2 DEF PortTypes
  <2> QED BY <1>7, <2>1 DEF CallOK, Clearing
<1>13. /\ \A m \in PortIds : PortOK(m)'
       /\ \A q \in Callers : CallOK(q)'
       /\ OneClears'
  <2>1. call'[p].op \notin {"send", "recv"} /\ call[p].op \notin {"send", "recv"}
    BY <1>1, <1>7
  <2> QED BY <1>1, <1>3, <1>4, <1>6, <1>11, <1>12, <2>1, ClearsAlone, PortOwned
<1>14. PortTypes' /\ NodesConserved' /\ PanicOnlyOvercommitted'
  BY <1>1, <1>2, <1>3, <1>6 DEF PortsInv, PortTypes, NodesConserved, PanicOnlyOvercommitted
<1> QED BY <1>13, <1>14 DEF PortsInv
(* A process that is killed leaves the semaphore it waits at. *)
LEMMA CallerKilledKeeps ==
  ASSUME PortsInv, NEW p \in Callers, PortCallerKilled(p)
  PROVE  PortsInv'
PROOF
<1>1. /\ ~panicked /\ Done(p)
      /\ ptssem' = [n \in PortIds |-> IF WaitsAt(p, ptssem[n]) THEN Leaves(ptssem[n], p) ELSE ptssem[n]]
      /\ ptrsem' = [n \in PortIds |-> IF WaitsAt(p, ptrsem[n]) THEN Leaves(ptrsem[n], p) ELSE ptrsem[n]]
      /\ UNCHANGED <<ptstate, ptseq, ptmaxcnt, ptqueue, ptfree, ptnextid, panicked>>
  BY DEF PortCallerKilled
<1>2. /\ PortTypes /\ (\A k \in PortIds : PortOK(k)) /\ (\A q \in Callers : CallOK(q)) /\ OneClears
      /\ call \in [Callers -> Calls]
  BY DEF PortsInv, PortTypes
<1>3. 0 \in PortIds
  BY PortSizes DEF PortIds
<1>4. /\ call' \in [Callers -> Calls] /\ call'[p] = Idle
      /\ \A q \in Callers \ {p} : call'[q] = call[q]
  BY <1>1, <1>2, <1>3, CallTypes
<1>5. call'[p].op = "none" /\ ~Clearing(p)'
  BY <1>4 DEF Idle, Clearing
<1>6. ASSUME NEW s, NEW W, SemOf(s, W), W = ToSet(s.queue)
      PROVE  LET t == IF WaitsAt(p, s) THEN Leaves(s, p) ELSE s
             IN  SemOf(t, W \ {p}) /\ ToSet(t.queue) = W \ {p} /\ Units(t) = Units(s)
  <2>1. CASE p \in W
    <3>1. SemOf(Leaves(s, p), W \ {p}) /\ Units(s) = 0 /\ Units(Leaves(s, p)) = 0
      BY <1>6, <2>1, UnitsLeft
    <3> QED BY <1>6, <2>1, <3>1, SemWaits DEF WaitsAt
  <2>2. CASE p \notin W
    <3>1. W \ {p} = W
      BY <2>2
    <3> QED BY <1>6, <2>2, <3>1 DEF WaitsAt
  <2> QED BY <2>1, <2>2
<1>7. ASSUME NEW k \in PortIds PROVE PortOK(k)'
  <2>1. /\ SemOf(ptssem'[k], WaitToSend(k) \ {p}) /\ WaitToSend(k)' = WaitToSend(k) \ {p}
        /\ Units(ptssem'[k]) = Units(ptssem[k])
    <3>1. SemOf(ptssem[k], WaitToSend(k))
      BY <1>2 DEF PortOK, SemsOK
    <3> QED BY <1>1, <1>6, <3>1 DEF WaitToSend
  <2>2. /\ SemOf(ptrsem'[k], WaitToRecv(k) \ {p}) /\ WaitToRecv(k)' = WaitToRecv(k) \ {p}
        /\ Units(ptrsem'[k]) = Units(ptrsem[k])
    <3>1. SemOf(ptrsem[k], WaitToRecv(k))
      BY <1>2 DEF PortOK, SemsOK
    <3> QED BY <1>1, <1>6, <3>1 DEF WaitToRecv
  <2>3. \A op \in {"send", "recv"} : CallsAt(op, k)' = CallsAt(op, k) \ {p}
    BY <1>4, <1>5 DEF CallsAt
  <2>4. SemsOK(k)'
    BY <1>2, <2>1, <2>2, <2>3 DEF PortOK, SemsOK
  <2>5. QueueOK(k)'
    BY <1>1, <1>2, <1>4, <2>3 DEF PortOK, QueueOK, CallsAt
  <2>6. RecvDue(k)' \in SUBSET RecvDue(k) /\ SendDue(k)' \in SUBSET SendDue(k)
    BY <1>1, <1>4, <2>1, <2>2, <2>3 DEF RecvDue, SendDue, CallsAt
  <2>7. /\ Cardinality(RecvDue(k)') <= Cardinality(RecvDue(k))
        /\ Cardinality(SendDue(k)') <= Cardinality(SendDue(k))
        /\ Cardinality(RecvDue(k)) \in Nat /\ Cardinality(SendDue(k)) \in Nat
        /\ Cardinality(RecvDue(k)') \in Nat /\ Cardinality(SendDue(k)') \in Nat
    <3>1. /\ RecvDue(k) \in SUBSET Callers /\ SendDue(k) \in SUBSET Callers
          /\ RecvDue(k)' \in SUBSET Callers /\ SendDue(k)' \in SUBSET Callers
      BY DEF RecvDue, SendDue, CallsAt
    <3> QED BY <2>6, <3>1, CallersCounted
  <2>8. Units(ptrsem[k]) \in Nat /\ Units(ptssem[k]) \in Nat /\ Len(ptqueue[k]) \in Nat
        /\ ptmaxcnt[k] \in Nat
    <3>1. ptrsem[k].count \in Int /\ ptssem[k].count \in Int
      BY <1>2 DEF PortOK, SemsOK, SemOf
    <3>2. ptqueue[k] \in Seq(Words) /\ ptmaxcnt[k] \in Nat
      BY <1>2 DEF PortTypes
    <3> QED BY <3>1, <3>2 DEF Units
  <2>9. FindsMessage(k)'
    <3>1. SUFFICES ASSUME Alloc(k)'
                   PROVE  Cardinality(RecvDue(k)') + Units(ptrsem'[k]) <= Len(ptqueue'[k])
      BY DEF FindsMessage
    <3>2. Cardinality(RecvDue(k)) + Units(ptrsem[k]) <= Len(ptqueue[k])
      BY <1>1, <1>2, <3>1 DEF PortOK, FindsMessage, Alloc
    <3> QED BY <1>1, <2>2, <2>7, <2>8, <3>2
  <2>10. FindsRoom(k)'
    <3>1. SUFFICES ASSUME Alloc(k)'
                   PROVE  Cardinality(SendDue(k)') + Units(ptssem'[k]) + Len(ptqueue'[k]) <= ptmaxcnt'[k]
      BY DEF FindsRoom
    <3>2. Cardinality(SendDue(k)) + Units(ptssem[k]) + Len(ptqueue[k]) <= ptmaxcnt[k]
      BY <1>1, <1>2, <3>1 DEF PortOK, FindsRoom, Alloc
    <3> QED BY <1>1, <2>1, <2>7, <2>8, <3>2
  <2> QED BY <2>4, <2>5, <2>9, <2>10 DEF PortOK
<1>8. ASSUME NEW q \in Callers \ {p} PROVE CallOK(q)'
  <2>1. call'[q] = call[q] /\ call[q].port \in PortIds /\ CallOK(q)
    BY <1>2, <1>4 DEF Calls
  <2>2. \A m \in Nat : ~WaitsAt(p, NewSem(m))
    BY UnitsNew DEF WaitsAt
  <2>3. \A s : s = NewSem(0) => ~WaitsAt(p, s)
    BY <2>2
  <2>4. ptmaxcnt[call[q].port] \in Nat
    BY <1>2, <2>1 DEF PortTypes
  <2>5. call[q].op \in {"reset2", "delete2"} =>
          ~WaitsAt(p, ptssem[call[q].port]) /\ (call[q].phase = 1 => ~WaitsAt(p, ptrsem[call[q].port]))
    BY <2>1, <2>2, <2>4 DEF CallOK
  <2> QED BY <1>1, <2>1, <2>5 DEF CallOK, Clearing
<1>9. CallOK(p)'
  <2>1. call'[p].seq = 0 /\ call'[p].port = 0 /\ ptseq'[0] \in Nat
    BY <1>1, <1>2, <1>3, <1>4 DEF Idle, PortTypes
  <2> QED BY <1>5, <2>1 DEF CallOK, Clearing
<1>10. OneClears'
  <2> SUFFICES ASSUME NEW q \in Callers, NEW r \in Callers, Clearing(q)', Clearing(r)',
                      call'[q].port = call'[r].port
               PROVE  q = r
    BY DEF OneClears
  <2>1. q # p /\ r # p
    BY <1>5
  <2>2. Clearing(q) /\ Clearing(r) /\ call[q].port = call[r].port
    BY <1>4, <2>1 DEF Clearing
  <2> QED BY <1>2, <2>2 DEF OneClears
<1>11. PortTypes' /\ NodesConserved' /\ PanicOnlyOvercommitted'
  BY <1>1, <1>2, <1>4 DEF PortsInv, PortTypes, NodesConserved, PanicOnlyOvercommitted
<1> QED BY <1>7, <1>8, <1>9, <1>10, <1>11 DEF PortsInv

-----------------------------------------------------------------------------

LEMMA PortsInvInit == PortsInit => PortsInv
PROOF
<1> SUFFICES ASSUME PortsInit PROVE PortsInv
  OBVIOUS
<1>1. 0 \in PortIds /\ PT_MSGS \in Nat
  BY PortSizes DEF PortIds
<1>2. <<>> \in Seq(Words) /\ Idle \in Calls
  BY <1>1 DEF Idle, Calls
<1>3. PortTypes
  BY <1>1, <1>2 DEF PortsInit, PortTypes
<1>4. SemOf(NewSem(0), {}) /\ Units(NewSem(0)) = 0 /\ ToSet(NewSem(0).queue) = {}
  BY UnitsNew
<1>5. \A p \in Callers : call[p].op = "none" /\ call[p].seq = 0 /\ call[p].port = 0
  BY DEF PortsInit, Idle
<1>6. ASSUME NEW n \in PortIds PROVE PortOK(n)
  <2>1. ptssem[n] = NewSem(0) /\ ptrsem[n] = NewSem(0) /\ ptstate[n] = "free" /\ ptqueue[n] = <<>>
    BY DEF PortsInit
  <2>2. CallsAt("send", n) = {} /\ CallsAt("recv", n) = {}
    BY <1>5 DEF CallsAt
  <2> QED BY <1>4, <2>1, <2>2
        DEF PortOK, SemsOK, QueueOK, FindsMessage, FindsRoom, Alloc, WaitToSend, WaitToRecv
<1>7. \A p \in Callers : CallOK(p) /\ ~Clearing(p)
  <2>1. ptseq[0] = 0
    BY <1>1 DEF PortsInit
  <2> QED BY <1>5, <2>1 DEF CallOK, Clearing
<1>8. OneClears
  BY <1>7 DEF OneClears
<1>9. NodesConserved
  <2> DEFINE f == [n \in PortIds |-> Len(ptqueue[n])]
  <2>1. f \in [PortIds -> Int] /\ \A n \in PortIds : f[n] = 0
    BY DEF PortsInit
  <2>2. ptfree = PT_MSGS
    BY DEF PortsInit
  <2>3. SUFFICES ptfree + Total(f) = PT_MSGS
    BY DEF NodesConserved
  <2> HIDE DEF f
  <2>4. Total(f) = 0
    BY <2>1, TotalOrdered
  <2> QED BY <1>1, <2>2, <2>4
<1>10. PanicOnlyOvercommitted
  BY DEF PortsInit, PanicOnlyOvercommitted
<1> QED BY <1>3, <1>6, <1>7, <1>8, <1>9, <1>10 DEF PortsInv

LEMMA PortsStep == PortsInv /\ [PortsNext]_portVars => PortsInv'
PROOF
<1> SUFFICES ASSUME PortsInv, [PortsNext]_portVars PROVE PortsInv'
  OBVIOUS
<1>1. CASE UNCHANGED portVars
  <2>1. UNCHANGED <<ptstate, ptseq, ptmaxcnt, ptssem, ptrsem, ptqueue, ptfree, ptnextid, call, panicked>>
    BY <1>1 DEF portVars, portTab
  <2>2. \A n \in PortIds : /\ SendDue(n)' = SendDue(n) /\ RecvDue(n)' = RecvDue(n)
                            /\ SemsOK(n)' = SemsOK(n) /\ QueueOK(n)' = QueueOK(n)
    BY <2>1 DEF SendDue, RecvDue, SemsOK, QueueOK, CallsAt, WaitToSend, WaitToRecv
  <2>3. \A n \in PortIds : PortOK(n)' = PortOK(n)
    BY <2>1, <2>2 DEF PortOK, FindsMessage, FindsRoom, Alloc
  <2>4. \A q \in Callers : CallOK(q)' = CallOK(q) /\ Clearing(q)' = Clearing(q)
    BY <2>1 DEF CallOK, Clearing
  <2>5. PortTypes' /\ OneClears' /\ NodesConserved' /\ PanicOnlyOvercommitted'
    BY <2>1, <2>4 DEF PortsInv, PortTypes, OneClears, NodesConserved, PanicOnlyOvercommitted
  <2> QED BY <2>3, <2>4, <2>5 DEF PortsInv
<1>2. ASSUME NEW p \in Callers, PortStep(p) PROVE PortsInv'
  <2>1. PICK n \in PortIds : n = call[p].port
    BY DEF PortsInv, PortTypes, Calls
  <2>2. CASE \E count \in Counts : Ptcreate(p, count)
    BY <2>2, PtcreateKeeps
  <2>3. CASE \E k \in PortIds, m \in Words : Ptsend(p, k, m) \/ PtsendBlocks(p, k, m)
    BY <2>3, PtsendKeeps, PtsendBlocksKeeps
  <2>4. CASE \E k \in PortIds : Ptrecv(p, k) \/ PtrecvBlocks(p, k)
    BY <2>4, PtrecvKeeps, PtrecvBlocksKeeps
  <2>5. CASE PtsendRest(p) \/ PtrecvRest(p)
    BY <2>1, <2>5, PtsendRestKeeps, PtrecvRestKeeps
  <2>6. CASE \E op \in {"reset", "delete"} :
               \/ \E k \in PortIds : PtclearStart(p, k, op)
               \/ Dispose(p, op) \/ PtclearSenders(p, op) \/ PtclearReceivers(p, op) \/ PtclearEnd(p, op)
    BY <2>1, <2>6, PtclearStartKeeps, DisposeKeeps, PtclearSendersKeeps, PtclearReceiversKeeps,
       PtclearEndKeeps
  <2>7. CASE PortCallerKilled(p)
    BY <2>7, CallerKilledKeeps
  <2> QED BY <1>2, <2>2, <2>3, <2>4, <2>5, <2>6, <2>7 DEF PortStep
<1> QED BY <1>1, <1>2 DEF PortsNext

LEMMA PortsInvAlways == PortsSpec => []PortsInv
PROOF BY PortsInvInit, PortsStep, PTL DEF PortsSpec

(* The nodes, messages and units of the ports agree for any number of ports,
   nodes and processes: a receiver that is let through finds a message, a port
   never holds more than it was created for, no node is lost, and ptsend stops
   the system only when the ports were created for more messages than there
   are nodes. *)
THEOREM PortsSoundAlways == PortsSpec => []PortsSound
PROOF
<1>1. ASSUME PortsInv PROVE PortsSound
  <2>1. PortTypes /\ NodesConserved /\ PanicOnlyOvercommitted /\ \A n \in PortIds : PortOK(n)
    BY <1>1 DEF PortsInv
  <2>2. PortsTypeOK
    <3>1. ASSUME NEW s, NEW W \in SUBSET Callers, SemOf(s, W) PROVE IsSem(s)
      <4>1. s.queue \in Seq(W) /\ s.count \in Int
        BY <3>1 DEF SemOf, QueueOf
      <4> QED BY <4>1, SeqMonotonic DEF IsSem
    <3>2. \A n \in PortIds : IsSem(ptssem[n]) /\ IsSem(ptrsem[n])
      <4> TAKE n \in PortIds
      <4>1. /\ SemOf(ptssem[n], WaitToSend(n)) /\ WaitToSend(n) \in SUBSET Callers
            /\ SemOf(ptrsem[n], WaitToRecv(n)) /\ WaitToRecv(n) \in SUBSET Callers
        BY <2>1 DEF PortOK, SemsOK, CallsAt
      <4> QED BY <3>1, <4>1
    <3>3. ptfree \in 0..PT_MSGS
      <4> DEFINE f == [n \in PortIds |-> Len(ptqueue[n])]
                 z == [n \in PortIds |-> 0]
      <4>1. \A n \in PortIds : Len(ptqueue[n]) \in Nat
        BY <2>1 DEF PortTypes
      <4>2. /\ f \in [PortIds -> Int] /\ z \in [PortIds -> Int]
            /\ (\A n \in PortIds : z[n] <= f[n]) /\ \A n \in PortIds : z[n] = 0
        BY <4>1
      <4>3. ptfree + Total(f) = PT_MSGS /\ ptfree \in Nat /\ PT_MSGS \in Nat
        BY <2>1, PortSizes DEF NodesConserved, PortTypes
      <4> HIDE DEF f, z
      <4>4. Total(f) \in Int /\ Total(z) = 0 /\ Total(z) <= Total(f)
        BY <4>2, TotalOrdered
      <4> QED BY <4>3, <4>4
    <3> QED BY <2>1, <3>2, <3>3 DEF PortTypes, PortsTypeOK
  <2>3. ASSUME NEW n \in PortIds, Alloc(n)
        PROVE  Released("recv", n) = RecvDue(n) /\ Released("send", n) = SendDue(n)
    <3>1. /\ SemsOK(n)
          /\ \A p : WaitsAt(p, ptssem[n]) <=> p \in WaitToSend(n)
          /\ \A p : WaitsAt(p, ptrsem[n]) <=> p \in WaitToRecv(n)
      BY <2>1 DEF PortOK, WaitsAt, WaitToSend, WaitToRecv
    <3> QED BY <2>3, <3>1 DEF Released, RecvDue, SendDue, SemsOK, CallsAt, StillThere, Alloc
  <2>4. ReceiverFindsMessage
    BY <2>1, <2>3 DEF ReceiverFindsMessage, PortOK, FindsMessage
  <2>5. SenderFindsRoom
    BY <2>1, <2>3 DEF SenderFindsRoom, PortOK, FindsRoom
  <2> QED BY <2>1, <2>2, <2>4, <2>5 DEF PortsSound
<1> QED BY <1>1, PortsInvAlways, PTL-----------------------------------------------------------------------------
(* The channels of PortChannels *)

Opens == [n \in PortIds |-> Alloc(n)]
Rooms == [n \in PortIds |-> IF Alloc(n) THEN ptmaxcnt[n] ELSE 0]
Chans == [n \in PortIds |-> IF Alloc(n) THEN ptqueue[n] ELSE <<>>]
ChannelVars == <<Opens, Rooms, Chans>>

(* The steps of the channels, said of the ports. *)
LEMMA PutIs ==
  ASSUME PortTypes, NEW n \in PortIds, NEW m \in Words, Alloc(n), Len(ptqueue[n]) < ptmaxcnt[n],
         UNCHANGED <<ptstate, ptmaxcnt>>, ptqueue' = [ptqueue EXCEPT ![n] = Append(ptqueue[n], m)]
  PROVE  Channel!Put(n)
PROOF
<1>1. /\ \A k \in PortIds : Alloc(k)' = Alloc(k) /\ ptmaxcnt'[k] = ptmaxcnt[k]
      /\ \A k \in PortIds : ptqueue'[k] = IF k = n THEN Append(ptqueue[n], m) ELSE ptqueue[k]
  BY DEF PortTypes, Alloc
<1>2. UNCHANGED <<Opens, Rooms>>
  BY <1>1 DEF Opens, Rooms
<1>3. Chans' = [Chans EXCEPT ![n] = Append(Chans[n], m)]
  BY <1>1 DEF Chans
<1>4. Opens[n] /\ Len(Chans[n]) < Rooms[n]
  BY DEF Opens, Rooms, Chans
<1> QED BY <1>2, <1>3, <1>4 DEF Channel!Put, Opens, Rooms, Chans

LEMMA GetIs ==
  ASSUME PortTypes, NEW n \in PortIds, Alloc(n), ptqueue[n] # <<>>,
         UNCHANGED <<ptstate, ptmaxcnt>>,
         ptqueue' = [ptqueue EXCEPT ![n] = SubSeq(ptqueue[n], 2, Len(ptqueue[n]))]
  PROVE  Channel!Get(n)
PROOF
<1>1. SubSeq(ptqueue[n], 2, Len(ptqueue[n])) = Tail(ptqueue[n])
  BY TailIsSubSeq DEF PortTypes
<1>2. /\ \A k \in PortIds : Alloc(k)' = Alloc(k) /\ ptmaxcnt'[k] = ptmaxcnt[k]
      /\ \A k \in PortIds : ptqueue'[k] = IF k = n THEN Tail(ptqueue[n]) ELSE ptqueue[k]
  BY <1>1 DEF PortTypes, Alloc
<1>3. UNCHANGED <<Opens, Rooms>>
  BY <1>2 DEF Opens, Rooms
<1>4. Chans' = [Chans EXCEPT ![n] = Tail(Chans[n])]
  BY <1>2 DEF Chans
<1>5. Opens[n] /\ Chans[n] # <<>>
  BY DEF Opens, Chans
<1> QED BY <1>3, <1>4, <1>5 DEF Channel!Get, Opens, Rooms, Chans

LEMMA ShutIs ==
  ASSUME PortTypes, NEW n \in PortIds, Alloc(n), UNCHANGED <<ptmaxcnt, ptqueue>>,
         ptstate' = [ptstate EXCEPT ![n] = "limbo"]
  PROVE  Channel!Shut(n)
PROOF
<1>1. ~Alloc(n)' /\ \A k \in PortIds \ {n} : Alloc(k)' = Alloc(k)
  BY DEF PortTypes, Alloc
<1>2. Opens' = [Opens EXCEPT ![n] = FALSE]
  <2>1. \A k \in PortIds : Alloc(k)' = IF k = n THEN FALSE ELSE Alloc(k)
    <3> TAKE k \in PortIds
    <3>1. CASE k = n
      <4>1. Alloc(n)' = FALSE
        BY <1>1 DEF Alloc
      <4> QED BY <3>1, <4>1, Zenon
    <3>2. CASE k # n
      BY <1>1, <3>2, Zenon
    <3> QED BY <3>1, <3>2
  <2>2. Opens' = [k \in PortIds |-> IF k = n THEN FALSE ELSE Alloc(k)]
    BY <2>1, Zenon DEF Opens
  <2>3. [Opens EXCEPT ![n] = FALSE] = [k \in PortIds |-> IF k = n THEN FALSE ELSE Alloc(k)]
    BY DEF Opens
  <2> QED BY <2>2, <2>3
<1>3. Rooms' = [Rooms EXCEPT ![n] = 0]
  BY <1>1 DEF Rooms
<1>4. Chans' = [Chans EXCEPT ![n] = <<>>]
  BY <1>1 DEF Chans
<1>5. Opens[n]
  BY DEF Opens
<1> QED BY <1>2, <1>3, <1>4, <1>5 DEF Channel!Shut, Opens, Rooms, Chans

LEMMA OpenUpIs ==
  ASSUME NEW n \in PortIds, ~Alloc(n), Alloc(n)', ptqueue'[n] = <<>>, ptmaxcnt'[n] \in Counts,
         \A k \in PortIds \ {n} : /\ ptstate'[k] = ptstate[k] /\ ptmaxcnt'[k] = ptmaxcnt[k]
                                  /\ ptqueue'[k] = ptqueue[k]
  PROVE  Channel!OpenUp(n)
PROOF
<1>1. \A k \in PortIds \ {n} : Alloc(k)' = Alloc(k)
  BY DEF Alloc
<1>2. Opens' = [Opens EXCEPT ![n] = TRUE]
  BY <1>1 DEF Opens
<1>3. Rooms' = [Rooms EXCEPT ![n] = ptmaxcnt'[n]]
  BY <1>1 DEF Rooms
<1>4. Chans' = Chans
  BY <1>1 DEF Chans
<1>5. ~Opens[n]
  BY DEF Opens
<1> QED BY <1>2, <1>3, <1>4, <1>5 DEF Channel!OpenUp, Opens, Rooms, Chans

LEMMA ChannelsAlone ==
  ASSUME \A k \in PortIds : /\ Alloc(k)' = Alloc(k)
                            /\ Alloc(k) => ptmaxcnt'[k] = ptmaxcnt[k] /\ ptqueue'[k] = ptqueue[k]
  PROVE  UNCHANGED ChannelVars
PROOF
<1>1. Opens' = Opens
  BY DEF Opens
<1>2. Rooms' = Rooms
  BY DEF Rooms
<1>3. Chans' = Chans
  BY DEF Chans
<1> QED BY <1>1, <1>2, <1>3 DEF ChannelVars

LEMMA ChannelStep ==
  ASSUME PortsInv, NEW p \in Callers, PortStep(p)
  PROVE  Channel!Next \/ UNCHANGED ChannelVars
PROOF
<1>1. PortTypes /\ \A k \in PortIds : QueueOK(k)
  BY DEF PortsInv, PortOK
<1>2. PICK n \in PortIds : n = call[p].port
  BY <1>1 DEF PortTypes, Calls
<1>3. ASSUME NEW k \in PortIds, NEW m \in Words, Deposit(p, k, m), Alloc(k),
             Len(ptqueue[k]) < ptmaxcnt[k], UNCHANGED <<ptstate, ptmaxcnt>>
      PROVE  Channel!Next \/ UNCHANGED ChannelVars
  <2>1. CASE ptfree = 0
    BY <1>3, <2>1, ChannelsAlone DEF Deposit, Alloc
  <2>2. CASE ptfree # 0
    BY <1>1, <1>3, <2>2, PutIs DEF Deposit, Linked, Channel!Next
  <2> QED BY <2>1, <2>2
<1>4. ASSUME NEW count \in Counts, Ptcreate(p, count) PROVE Channel!Next
  <2>1. PICK k \in PortIds :
         /\ NextPort(k)
         /\ ptstate' = [ptstate EXCEPT ![k] = "alloc"]
         /\ ptqueue' = [ptqueue EXCEPT ![k] = <<>>]
         /\ ptmaxcnt' = [ptmaxcnt EXCEPT ![k] = count]
    BY <1>4 DEF Ptcreate
  <2>2. ~Alloc(k) /\ Alloc(k)' /\ ptqueue'[k] = <<>> /\ ptmaxcnt'[k] \in Counts
    BY <1>1, <2>1 DEF NextPort, PortTypes, Alloc
  <2>3. \A j \in PortIds \ {k} : /\ ptstate'[j] = ptstate[j] /\ ptmaxcnt'[j] = ptmaxcnt[j]
                                 /\ ptqueue'[j] = ptqueue[j]
    BY <1>1, <2>1 DEF PortTypes
  <2> QED BY <2>2, <2>3, OpenUpIs DEF Channel!Next
<1>5. ASSUME NEW k \in PortIds, NEW m \in Words, Ptsend(p, k, m)
      PROVE  Channel!Next \/ UNCHANGED ChannelVars
  <2>1. Deposit(p, k, m) /\ Alloc(k) /\ UNCHANGED <<ptstate, ptmaxcnt>>
    BY <1>5 DEF Ptsend
  <2> QED BY <1>3, <1>5, <2>1, PtsendKeeps
<1>6. ASSUME NEW k \in PortIds, Ptrecv(p, k) PROVE Channel!Next
  <2>1. Alloc(k) /\ UNCHANGED <<ptstate, ptmaxcnt>>
        /\ ptqueue' = [ptqueue EXCEPT ![k] = SubSeq(ptqueue[k], 2, Len(ptqueue[k]))]
    BY <1>6 DEF Ptrecv, Withdraw
  <2>2. ptqueue[k] # <<>>
    BY <1>6, PtrecvKeeps
  <2> QED BY <1>1, <2>1, <2>2, GetIs DEF Channel!Next
<1>7. CASE PtsendRest(p)
  <2>1. UNCHANGED <<ptstate, ptmaxcnt>> /\ call[p].op = "send"
    BY <1>7 DEF PtsendRest, GoesOn
  <2>2. CASE StillThere(p)
    <3>1. Deposit(p, n, call[p].msg) /\ Alloc(n) /\ call[p].msg \in Words
      BY <1>2, <1>7, <2>1, <2>2 DEF PtsendRest, StillThere, Alloc, PortsInv, CallOK
    <3>2. Len(ptqueue[n]) < ptmaxcnt[n]
      BY <1>2, <1>7, <2>2, PtsendRestKeeps
    <3> QED BY <1>3, <2>1, <3>1, <3>2
  <2>3. CASE ~StillThere(p)
    BY <1>7, <2>1, <2>3, ChannelsAlone DEF PtsendRest, Alloc
  <2> QED BY <2>2, <2>3
<1>8. CASE PtrecvRest(p)
  <2>1. UNCHANGED <<ptstate, ptmaxcnt>>
    BY <1>8 DEF PtrecvRest
  <2>2. CASE StillThere(p)
    <3>1. Alloc(n) /\ ptqueue' = [ptqueue EXCEPT ![n] = SubSeq(ptqueue[n], 2, Len(ptqueue[n]))]
      BY <1>2, <1>8, <2>2 DEF PtrecvRest, Withdraw, StillThere, Alloc
    <3>2. ptqueue[n] # <<>>
      BY <1>2, <1>8, <2>2, PtrecvRestKeeps
    <3> QED BY <1>1, <2>1, <3>1, <3>2, GetIs DEF Channel!Next
  <2>3. CASE ~StillThere(p)
    BY <1>8, <2>1, <2>3, ChannelsAlone DEF PtrecvRest, Alloc
  <2> QED BY <2>2, <2>3
<1>9. ASSUME NEW k \in PortIds, NEW op, PtclearStart(p, k, op) PROVE Channel!Next
  <2>1. Alloc(k) /\ UNCHANGED <<ptmaxcnt, ptqueue>> /\ ptstate' = [ptstate EXCEPT ![k] = "limbo"]
    BY <1>9 DEF PtclearStart
  <2> QED BY <1>1, <2>1, ShutIs DEF Channel!Next
<1>10. ASSUME NEW op \in {"reset", "delete"},
              \/ Dispose(p, op) \/ PtclearSenders(p, op) \/ PtclearReceivers(p, op) \/ PtclearEnd(p, op)
       PROVE  Channel!Next \/ UNCHANGED ChannelVars
  <2>1. Clearing(p)
    BY <1>10 DEF Clearing, Dispose, PtclearSenders, PtclearReceivers, PtclearEnd, GoesOn, SecondHalf
  <2>2. ptstate[n] = "limbo" /\ ~Alloc(n)
    BY <1>2, <2>1, ClearsAlone DEF Alloc
  <2>3. CASE Dispose(p, op)
    BY <2>3, ChannelsAlone DEF Dispose, portTab, Alloc
  <2>4. CASE PtclearSenders(p, op)
    <3>1. /\ UNCHANGED <<ptstate, ptmaxcnt>>
          /\ ptqueue' = [ptqueue EXCEPT ![n] = <<>>]
      BY <1>2, <2>4 DEF PtclearSenders, Emptied
    <3> QED BY <1>1, <2>2, <3>1, ChannelsAlone DEF Alloc, PortTypes
  <2>5. CASE PtclearReceivers(p, op)
    BY <2>5, ChannelsAlone DEF PtclearReceivers, Alloc
  <2>6. CASE PtclearEnd(p, op)
    <3>1. /\ UNCHANGED <<ptmaxcnt, ptqueue>>
          /\ ptstate' = [ptstate EXCEPT ![n] = IF op = "reset" THEN "alloc" ELSE "free"]
          /\ call[p].op \in {"reset2", "delete2"}
      BY <1>2, <2>6 DEF PtclearEnd, GoesOn, SecondHalf
    <3>2. CASE op = "reset"
      <4>1. ptqueue[n] = <<>> /\ ptmaxcnt[n] \in Counts
        BY <1>1, <1>2, <2>2, <3>1 DEF PortsInv, CallOK, QueueOK
      <4>2. Alloc(n)' /\ \A k \in PortIds \ {n} : ptstate'[k] = ptstate[k]
        BY <1>1, <3>1, <3>2 DEF PortTypes, Alloc
      <4> QED BY <2>2, <3>1, <4>1, <4>2, OpenUpIs DEF Channel!Next
    <3>3. CASE op # "reset"
      BY <1>1, <2>2, <3>1, <3>3, ChannelsAlone DEF Alloc, PortTypes
    <3> QED BY <3>2, <3>3
  <2> QED BY <1>10, <2>3, <2>4, <2>5, <2>6
<1>11. ASSUME \/ \E k \in PortIds, m \in Words : PtsendBlocks(p, k, m)
              \/ \E k \in PortIds : PtrecvBlocks(p, k)
              \/ PortCallerKilled(p)
       PROVE  UNCHANGED ChannelVars
  <2>1. UNCHANGED <<ptstate, ptmaxcnt, ptqueue>>
    BY <1>11 DEF PtsendBlocks, PtrecvBlocks, PortCallerKilled
  <2> QED BY <2>1, ChannelsAlone DEF Alloc
<1> QED BY <1>4, <1>5, <1>6, <1>7, <1>8, <1>9, <1>10, <1>11 DEF PortStep

(* Ports implement the channels of PortChannels: whatever processes wait, are
   let through, clear the port or are killed, each message that was put in is
   handed out once, in order, and never after the port was reset or deleted. *)
THEOREM ImplementsChannels == PortsSpec => PortsAreChannels
PROOF
<1>1. PortsInit => Channel!Init
  <2> SUFFICES ASSUME PortsInit PROVE Channel!Init
    OBVIOUS
  <2>1. \A n \in PortIds : Alloc(n) = FALSE
    BY DEF PortsInit, Alloc
  <2>2. Opens = [n \in PortIds |-> FALSE]
    BY <2>1, Zenon DEF Opens
  <2>3. Rooms = [n \in PortIds |-> 0] /\ Chans = [n \in PortIds |-> <<>>]
    BY <2>1 DEF Rooms, Chans
  <2> QED BY <2>2, <2>3 DEF Channel!Init, Opens, Rooms, Chans
<1>2. PortsInv /\ [PortsNext]_portVars => [Channel!Next]_(Channel!channelVars)
  <2> SUFFICES ASSUME PortsInv, [PortsNext]_portVars PROVE [Channel!Next]_(Channel!channelVars)
    OBVIOUS
  <2>1. Channel!Next \/ UNCHANGED ChannelVars
    <3>1. CASE UNCHANGED portVars
      BY <3>1, ChannelsAlone DEF portVars, portTab, Alloc
    <3>2. CASE PortsNext
      BY <3>2, ChannelStep DEF PortsNext
    <3> QED BY <3>1, <3>2
  <2> QED BY <2>1 DEF ChannelVars, Channel!channelVars, Opens, Rooms, Chans
<1> QED BY <1>1, <1>2, PortsInvAlways, PTL DEF PortsSpec, PortsAreChannels, Channel!Spec

-----------------------------------------------------------------------------
(* Buffer pools: what a pool is *)

Buffers == Nat \X Nat
Semas == [count : Int, queue : Seq(Getters)]

PoolTypes ==
  /\ bpnext \in Seq(Seq(Buffers)) /\ bpsem \in Seq(Semas) /\ poolsize \in Seq(Nat)
  /\ Len(bpsem) = Len(bpnext) /\ Len(poolsize) = Len(bpnext)
  /\ getting \in [Getters -> Nat] /\ \A p \in Getters : getting[p] <= Len(bpnext)
  /\ room \in Nat /\ sems \in Nat

BuffersOf(n, k) == {n} \X (1..k)
GettingFrom(n, g) == {p \in Getters : g[p] = n}

(* Pool n of k buffers, with the semaphore s and the list q, when the buffers o
   are out and g says who is inside getbuf: the processes that wait are inside,
   the buffers on the list are those that are not out, and what the processes
   let through will take and the units of the semaphore are on the list. *)
PoolIs(n, s, q, k, o, g) ==
  /\ SemOf(s, ToSet(s.queue)) /\ ToSet(s.queue) \subseteq GettingFrom(n, g)
  /\ QueueOf(q, BuffersOf(n, k) \ o)
  /\ Cardinality(GettingFrom(n, g) \ ToSet(s.queue)) + Units(s) <= Len(q)

OutIs(o, sizes) == \A b \in o : b[1] \in 1..Len(sizes) /\ b \in BuffersOf(b[1], sizes[b[1]])

PoolsInv ==
  /\ PoolTypes
  /\ \A n \in 1..Len(bpnext) : PoolIs(n, bpsem[n], bpnext[n], poolsize[n], out, getting)
  /\ OutIs(out, poolsize)
  /\ PoolMemoryConserved

-----------------------------------------------------------------------------

LEMMA PartsCounted ==
  ASSUME NEW U, IsFiniteSet(U), NEW A \in SUBSET U
  PROVE  /\ Cardinality(A) \in Nat
         /\ \A x \in A : Cardinality(A \ {x}) = Cardinality(A) - 1 /\ Cardinality(A) > 0
         /\ \A x : Cardinality(A \cup {x}) <= Cardinality(A) + 1 /\ Cardinality(A \cup {x}) \in Nat
PROOF
<1>1. IsFiniteSet(A) /\ Cardinality(A) \in Nat
  BY FS_Subset, FS_CardinalityType
<1>2. ASSUME NEW x \in A PROVE Cardinality(A \ {x}) = Cardinality(A) - 1 /\ Cardinality(A) > 0
  <2>1. IsFiniteSet(A \ {x}) /\ Cardinality(A \ {x}) = Cardinality(A) - 1
    BY <1>1, FS_RemoveElement
  <2>2. Cardinality(A \ {x}) \in Nat
    BY <2>1, FS_CardinalityType
  <2> QED BY <1>1, <2>1, <2>2
<1>3. ASSUME NEW x
      PROVE  Cardinality(A \cup {x}) <= Cardinality(A) + 1 /\ Cardinality(A \cup {x}) \in Nat
  <2>1. CASE x \in A
    <3>1. A \cup {x} = A
      BY <2>1
    <3> QED BY <1>1, <3>1
  <2>2. CASE x \notin A
    <3>1. Cardinality(A \cup {x}) = Cardinality(A) + 1
      BY <1>1, <2>2, FS_AddElement
    <3> QED BY <1>1, <3>1
  <2> QED BY <2>1, <2>2
<1> QED BY <1>1, <1>2, <1>3

(* freebuf puts a buffer in front. *)
LEMMA QueueInFront ==
  ASSUME NEW S, NEW q, QueueOf(q, S), NEW b, b \notin S
  PROVE  QueueOf(<<b>> \o q, S \cup {b}) /\ Len(<<b>> \o q) = Len(q) + 1
PROOF
<1> DEFINE r == <<b>> \o q
<1>1. q \in Seq(S) /\ Len(q) \in Nat /\ \A i \in 1..Len(q) : q[i] \in S
  BY DEF QueueOf
<1>2. /\ r \in Seq(S \cup {b}) /\ Len(r) = Len(q) + 1 /\ r[1] = b
      /\ \A i \in 1..Len(q) : r[i + 1] = q[i]
  BY <1>1
<1> HIDE DEF r
<1>3. \A i \in 1..Len(r) : i = 1 \/ (i - 1 \in 1..Len(q) /\ r[i] = q[i - 1])
  <2> SUFFICES ASSUME NEW i \in 1..Len(r), i # 1
               PROVE  i - 1 \in 1..Len(q) /\ r[i] = q[i - 1]
    OBVIOUS
  <2>1. i - 1 \in 1..Len(q) /\ (i - 1) + 1 = i
    BY <1>1, <1>2
  <2> QED BY <1>2, <2>1
<1>4. \A i, j \in 1..Len(r) : r[i] = r[j] => i = j
  <2> SUFFICES ASSUME NEW i \in 1..Len(r), NEW j \in 1..Len(r), r[i] = r[j] PROVE i = j
    OBVIOUS
  <2>1. CASE i # 1 /\ j # 1
    <3>1. i - 1 \in 1..Len(q) /\ j - 1 \in 1..Len(q) /\ q[i - 1] = q[j - 1]
      BY <1>3, <2>1
    <3>2. i - 1 = j - 1
      BY <3>1 DEF QueueOf
    <3> QED BY <3>2
  <2>2. CASE i = 1 /\ j # 1
    BY <1>1, <1>2, <1>3, <2>2
  <2>3. CASE i # 1 /\ j = 1
    BY <1>1, <1>2, <1>3, <2>3
  <2> QED BY <2>1, <2>2, <2>3
<1>5. \A x \in S \cup {b} : \E i \in 1..Len(r) : r[i] = x
  <2>1. 1 \in 1..Len(r)
    BY <1>1, <1>2
  <2>2. ASSUME NEW x \in S PROVE \E i \in 1..Len(r) : r[i] = x
    <3>1. PICK i \in 1..Len(q) : q[i] = x
      BY DEF QueueOf
    <3>2. i + 1 \in 1..Len(r) /\ r[i + 1] = x
      BY <1>1, <1>2, <3>1
    <3> QED BY <3>2
  <2> QED BY <1>2, <2>1, <2>2
<1> QED BY <1>2, <1>4, <1>5 DEF QueueOf, r

(* A new pool's list. *)
LEMMA QueueNew ==
  ASSUME NEW m \in Nat, NEW k \in Nat
  PROVE  /\ QueueOf([i \in 1..k |-> <<m, i>>], {m} \X (1..k))
         /\ Len([i \in 1..k |-> <<m, i>>]) = k
PROOF
<1> DEFINE q == [i \in 1..k |-> <<m, i>>]
<1>1. q \in Seq({m} \X (1..k)) /\ Len(q) = k
  OBVIOUS
<1>2. \A i \in 1..k : q[i] = <<m, i>>
  OBVIOUS
<1>3. \A x \in {m} \X (1..k) : \E i \in 1..k : x = <<m, i>>
  OBVIOUS
<1> HIDE DEF q
<1>4. QueueOf(q, {m} \X (1..k))
  <2>1. \A i \in 1..k : q[i] \in {m} \X (1..k)
    BY <1>2
  <2>2. \A i, j \in 1..k : q[i] = q[j] => i = j
    BY <1>2
  <2>3. \A x \in {m} \X (1..k) : \E i \in 1..k : q[i] = x
    BY <1>2, <1>3
  <2> QED BY <1>1, <2>1, <2>2, <2>3 DEF QueueOf
<1> QED BY <1>1, <1>4 DEF q

LEMMA PoolSumGrows ==
  ASSUME NEW s \in Seq(Nat), NEW n \in Nat
  PROVE  PoolSum(s) \in Int /\ PoolSum(Append(s, n)) = PoolSum(s) + n
PROOF
<1>1. PICK k \in Nat : k = Len(s)
  OBVIOUS
<1>2. PICK j : j = k + 1
  OBVIOUS
<1> DEFINE D == 1..k
           E == 1..j
           g == Append(s, n)
<1>3. s \in [D -> Int]
  <2>1. DOMAIN s = 1..Len(s) /\ \A i \in 1..Len(s) : s[i] \in Nat
    OBVIOUS
  <2> QED BY <1>1, <2>1
<1>4. IsFiniteSet(E) /\ j \in E /\ D = E \ {j}
  <2>1. IsFiniteSet(E)
    <3>1. 1 \in Int /\ j \in Int
      BY <1>2
    <3> QED BY <3>1, FS_Interval
  <2> QED BY <1>2, <2>1
<1>5. g[j] = n /\ \A m \in D : g[m] = s[m]
  BY <1>1, <1>2
<1>6. g \in [E -> Int]
  <2>1. g \in Seq(Nat) /\ Len(g) = j
    BY <1>1, <1>2
  <2> HIDE DEF g
  <2>2. DOMAIN g = 1..j /\ \A i \in 1..j : g[i] \in Nat
    BY <2>1
  <2> QED BY <2>1, <2>2
<1> HIDE DEF g, D, E
<1>7. PoolSum(s) \in Int /\ PoolSum(g) = PoolSum(s) + g[j]
  <2>1. PoolSum(s) = Sums(D, s)[D]
    BY <1>3, FoldIsSum DEF PoolSum
  <2>2. PoolSum(g) = Sums(E, g)[E]
    BY <1>6, FoldIsSum DEF PoolSum
  <2>3. Sums(D, s)[D] \in Int /\ Sums(E, g)[E] = Sums(D, s)[D] + g[j]
    BY <1>3, <1>4, <1>5, <1>6, SumGrows
  <2> QED BY <2>1, <2>2, <2>3
<1> QED BY <1>5, <1>7 DEF g

LEMMA PoolSumNone == PoolSum(<<>>) = 0
PROOF
<1> DEFINE E == {}
           f == <<>>
<1>1. IsFiniteSet(E) /\ f \in [E -> Int] /\ (\A m \in E : f[m] <= f[m]) /\ (\A m \in E : f[m] = 0)
  BY FS_EmptySet
<1> HIDE DEF E, f
<1>2. PoolSum(f) = 0
  BY <1>1, SumOrdered DEF PoolSum
<1> QED BY <1>2 DEF f

-----------------------------------------------------------------------------
(* What each call does to its pool *)

LEMMA GettersCounted ==
  ASSUME NEW n, NEW g, NEW W
  PROVE  /\ IsFiniteSet(Getters)
         /\ GettingFrom(n, g) \ W \in SUBSET Getters
         /\ Cardinality(GettingFrom(n, g) \ W) \in Nat
PROOF
<1>1. IsFiniteSet(Getters) /\ GettingFrom(n, g) \ W \in SUBSET Getters
  BY PoolSizes DEF GettingFrom
<1> QED BY <1>1, PartsCounted

(* A pool is left alone. *)
LEMMA PoolSame ==
  ASSUME NEW n, NEW s, NEW q, NEW k, NEW o, NEW g, PoolIs(n, s, q, k, o, g),
         NEW o2, BuffersOf(n, k) \ o2 = BuffersOf(n, k) \ o,
         NEW g2, GettingFrom(n, g2) = GettingFrom(n, g)
  PROVE  PoolIs(n, s, q, k, o2, g2)
PROOF BY DEF PoolIs

LEMMA PoolPasses ==
  ASSUME NEW n, NEW s, NEW q, NEW k, NEW o, NEW g, PoolIs(n, s, q, k, o, g), Passes(s)
  PROVE  /\ Head(q) \in BuffersOf(n, k)
         /\ PoolIs(n, Take(s), Tail(q), k, o \cup {Head(q)}, g)
PROOF
<1>1. /\ ToSet(s.queue) = {} /\ SemOf(Take(s), {}) /\ Units(s) \in Nat
      /\ Units(Take(s)) = Units(s) - 1 /\ Units(s) > 0
  BY UnitsTaken DEF PoolIs
<1>2. ToSet(Take(s).queue) = {}
  BY <1>1, SemWaits
<1>3. Cardinality(GettingFrom(n, g) \ {}) \in Nat
  BY GettersCounted
<1>4. QueueOf(q, BuffersOf(n, k) \ o) /\ Len(q) \in Nat /\ Len(q) > 0 /\ q # <<>>
  <2>1. QueueOf(q, BuffersOf(n, k) \ o) /\ Len(q) \in Nat
    BY DEF PoolIs, QueueOf
  <2>2. Len(q) > 0
    BY <1>1, <1>3, <2>1 DEF PoolIs
  <2> QED BY <2>1, <2>2
<1>5. /\ Head(q) \in BuffersOf(n, k) \ o /\ Len(Tail(q)) = Len(q) - 1
      /\ QueueOf(Tail(q), (BuffersOf(n, k) \ o) \ {Head(q)})
  BY <1>4, QueueTail
<1>6. (BuffersOf(n, k) \ o) \ {Head(q)} = BuffersOf(n, k) \ (o \cup {Head(q)})
  OBVIOUS
<1>7. Cardinality(GettingFrom(n, g) \ {}) + Units(Take(s)) <= Len(Tail(q))
  BY <1>1, <1>3, <1>4, <1>5 DEF PoolIs
<1> QED BY <1>1, <1>2, <1>5, <1>6, <1>7 DEF PoolIs

LEMMA PoolBlocks ==
  ASSUME NEW n, NEW s, NEW q, NEW k, NEW o, NEW g, PoolIs(n, s, q, k, o, g), ~Passes(s),
         NEW p \in Getters, p \notin GettingFrom(n, g),
         NEW g2, GettingFrom(n, g2) = GettingFrom(n, g) \cup {p}
  PROVE  PoolIs(n, Blocks(s, p), q, k, o, g2)
PROOF
<1>1. PICK W : W = ToSet(s.queue)
  OBVIOUS
<1>2. SemOf(s, W) /\ W \subseteq GettingFrom(n, g) /\ p \notin W
  BY <1>1 DEF PoolIs
<1>3. SemOf(Blocks(s, p), W \cup {p}) /\ Units(s) = 0 /\ Units(Blocks(s, p)) = 0
  BY <1>2, UnitsBlocked
<1>4. ToSet(Blocks(s, p).queue) = W \cup {p}
  BY <1>3, SemWaits
<1>5. GettingFrom(n, g2) \ (W \cup {p}) = GettingFrom(n, g) \ W
  BY <1>2
<1> QED BY <1>1, <1>2, <1>3, <1>4, <1>5 DEF PoolIs

LEMMA PoolTaken ==
  ASSUME NEW n, NEW s, NEW q, NEW k, NEW o, NEW g, PoolIs(n, s, q, k, o, g),
         NEW p \in GettingFrom(n, g), ~WaitsAt(p, s),
         NEW g2, GettingFrom(n, g2) = GettingFrom(n, g) \ {p}
  PROVE  /\ Head(q) \in BuffersOf(n, k)
         /\ PoolIs(n, s, Tail(q), k, o \cup {Head(q)}, g2)
PROOF
<1>1. PICK W : W = ToSet(s.queue)
  OBVIOUS
<1>2. PICK D : D = GettingFrom(n, g) \ W
  OBVIOUS
<1>3. p \in D /\ SemOf(s, W) /\ W \subseteq GettingFrom(n, g) /\ p \notin W
  BY <1>1, <1>2 DEF PoolIs, WaitsAt
<1>4. GettingFrom(n, g2) \ W = D \ {p} /\ W \subseteq GettingFrom(n, g2)
  BY <1>2, <1>3
<1>5. Cardinality(D) \in Nat /\ Cardinality(D \ {p}) = Cardinality(D) - 1 /\ Cardinality(D) > 0
  <2>1. IsFiniteSet(Getters) /\ D \in SUBSET Getters
    BY <1>2, GettersCounted
  <2> QED BY <1>3, <2>1, PartsCounted
<1>6. Units(s) \in Nat
  BY <1>3, UnitsSignalled
<1>7. QueueOf(q, BuffersOf(n, k) \ o) /\ Len(q) \in Nat /\ Cardinality(D) + Units(s) <= Len(q)
  BY <1>1, <1>2 DEF PoolIs, QueueOf
<1>8. q # <<>>
  BY <1>5, <1>6, <1>7
<1>9. /\ Head(q) \in BuffersOf(n, k) \ o /\ Len(Tail(q)) = Len(q) - 1
      /\ QueueOf(Tail(q), (BuffersOf(n, k) \ o) \ {Head(q)})
  BY <1>7, <1>8, QueueTail
<1>10. (BuffersOf(n, k) \ o) \ {Head(q)} = BuffersOf(n, k) \ (o \cup {Head(q)})
  OBVIOUS
<1>11. Cardinality(D \ {p}) + Units(s) <= Len(Tail(q))
  BY <1>5, <1>6, <1>7, <1>9
<1> QED BY <1>1, <1>3, <1>4, <1>9, <1>10, <1>11 DEF PoolIs

LEMMA PoolGivenBack ==
  ASSUME NEW n, NEW s, NEW q, NEW k, NEW o, NEW g, PoolIs(n, s, q, k, o, g),
         NEW b \in o, b \in BuffersOf(n, k)
  PROVE  PoolIs(n, Signal(s), <<b>> \o q, k, o \ {b}, g)
PROOF
<1>1. PICK W : W = ToSet(s.queue)
  OBVIOUS
<1>2. PICK D : D = GettingFrom(n, g) \ W
  OBVIOUS
<1>3. /\ SemOf(s, W) /\ W \subseteq GettingFrom(n, g) /\ QueueOf(q, BuffersOf(n, k) \ o)
      /\ Cardinality(D) + Units(s) <= Len(q)
  BY <1>1, <1>2 DEF PoolIs
<1>4. IsFiniteSet(Getters) /\ D \in SUBSET Getters /\ Len(q) \in Nat
  BY <1>2, <1>3, GettersCounted DEF QueueOf
<1>5. QueueOf(<<b>> \o q, (BuffersOf(n, k) \ o) \cup {b}) /\ Len(<<b>> \o q) = Len(q) + 1
  BY <1>3, QueueInFront
<1>6. (BuffersOf(n, k) \ o) \cup {b} = BuffersOf(n, k) \ (o \ {b})
  OBVIOUS
<1>7. /\ Units(s) \in Nat /\ Units(Signal(s)) \in Nat
      /\ \/ SemOf(Signal(s), W) /\ Units(Signal(s)) = Units(s) + 1
         \/ \E w \in W : SemOf(Signal(s), W \ {w}) /\ Units(Signal(s)) = Units(s)
  BY <1>3, UnitsSignalled
<1>8. CASE SemOf(Signal(s), W) /\ Units(Signal(s)) = Units(s) + 1
  <2>1. ToSet(Signal(s).queue) = W /\ Cardinality(D) \in Nat
    BY <1>4, <1>8, SemWaits, PartsCounted
  <2>2. Cardinality(D) + Units(Signal(s)) <= Len(<<b>> \o q)
    BY <1>3, <1>4, <1>5, <1>7, <1>8, <2>1
  <2> QED BY <1>2, <1>3, <1>5, <1>6, <1>8, <2>1, <2>2 DEF PoolIs
<1>9. CASE \E w \in W : SemOf(Signal(s), W \ {w}) /\ Units(Signal(s)) = Units(s)
  <2>1. PICK w \in W : SemOf(Signal(s), W \ {w}) /\ Units(Signal(s)) = Units(s)
    BY <1>9
  <2>2. ToSet(Signal(s).queue) = W \ {w}
    BY <2>1, SemWaits
  <2>3. GettingFrom(n, g) \ (W \ {w}) = D \cup {w}
    BY <1>2, <1>3, <2>1
  <2>4. Cardinality(D) \in Nat /\ Cardinality(D \cup {w}) <= Cardinality(D) + 1 /\ Cardinality(D \cup {w}) \in Nat
    BY <1>4, PartsCounted
  <2>5. Cardinality(D \cup {w}) + Units(Signal(s)) <= Len(<<b>> \o q)
    BY <1>3, <1>4, <1>5, <1>7, <2>1, <2>4
  <2>6. W \ {w} \subseteq GettingFrom(n, g)
    BY <1>3
  <2> QED BY <1>5, <1>6, <2>1, <2>2, <2>3, <2>5, <2>6 DEF PoolIs
<1> QED BY <1>7, <1>8, <1>9

LEMMA PoolLeft ==
  ASSUME NEW n, NEW s, NEW q, NEW k, NEW o, NEW g, PoolIs(n, s, q, k, o, g),
         NEW p \in GettingFrom(n, g), NEW g2, GettingFrom(n, g2) = GettingFrom(n, g) \ {p}
  PROVE  PoolIs(n, IF WaitsAt(p, s) THEN Leaves(s, p) ELSE s, q, k, o, g2)
PROOF
<1>1. PICK W : W = ToSet(s.queue)
  OBVIOUS
<1>2. PICK D : D = GettingFrom(n, g) \ W
  OBVIOUS
<1>3. /\ SemOf(s, W) /\ W \subseteq GettingFrom(n, g) /\ QueueOf(q, BuffersOf(n, k) \ o)
      /\ Cardinality(D) + Units(s) <= Len(q)
  BY <1>1, <1>2 DEF PoolIs
<1>4. IsFiniteSet(Getters) /\ D \in SUBSET Getters /\ Len(q) \in Nat
  BY <1>2, <1>3, GettersCounted DEF QueueOf
<1>5. CASE WaitsAt(p, s)
  <2>1. p \in W
    BY <1>1, <1>5 DEF WaitsAt
  <2>2. SemOf(Leaves(s, p), W \ {p}) /\ Units(s) = 0 /\ Units(Leaves(s, p)) = 0
    BY <1>3, <2>1, UnitsLeft
  <2>3. ToSet(Leaves(s, p).queue) = W \ {p}
    BY <2>2, SemWaits
  <2>4. GettingFrom(n, g2) \ (W \ {p}) = D /\ W \ {p} \subseteq GettingFrom(n, g2)
    BY <1>2, <1>3, <2>1
  <2>5. PoolIs(n, Leaves(s, p), q, k, o, g2)
    BY <1>3, <2>2, <2>3, <2>4 DEF PoolIs
  <2> QED BY <1>5, <2>5
<1>6. CASE ~WaitsAt(p, s)
  <2>1. p \in D /\ p \notin W
    BY <1>1, <1>2, <1>6 DEF WaitsAt
  <2>2. GettingFrom(n, g2) \ W = D \ {p} /\ W \subseteq GettingFrom(n, g2)
    BY <1>2, <1>3, <2>1
  <2>3. Cardinality(D) \in Nat /\ Cardinality(D \ {p}) = Cardinality(D) - 1
    BY <1>4, <2>1, PartsCounted
  <2>4. Units(s) \in Nat
    BY <1>3, UnitsSignalled
  <2>5. Cardinality(D \ {p}) + Units(s) <= Len(q)
    BY <1>3, <1>4, <2>3, <2>4
  <2>6. PoolIs(n, s, q, k, o, g2)
    BY <1>1, <1>3, <2>2, <2>5 DEF PoolIs
  <2> QED BY <1>6, <2>6
<1> QED BY <1>5, <1>6

LEMMA PoolMade ==
  ASSUME NEW n \in Nat, NEW k \in Nat, NEW o, BuffersOf(n, k) \cap o = {},
         NEW g, GettingFrom(n, g) = {}
  PROVE  PoolIs(n, NewSem(k), [i \in 1..k |-> <<n, i>>], k, o, g)
PROOF
<1>1. SemOf(NewSem(k), {}) /\ Units(NewSem(k)) = k /\ ToSet(NewSem(k).queue) = {}
  BY UnitsNew
<1>2. /\ QueueOf([i \in 1..k |-> <<n, i>>], BuffersOf(n, k))
      /\ Len([i \in 1..k |-> <<n, i>>]) = k
  BY QueueNew DEF BuffersOf
<1>3. BuffersOf(n, k) \ o = BuffersOf(n, k)
  OBVIOUS
<1>4. Cardinality({}) = 0
  BY FS_EmptySet
<1>5. Cardinality({} \ {}) + Units(NewSem(k)) <= k
  BY <1>1, <1>4
<1>6. SemOf(NewSem(k), ToSet(NewSem(k).queue)) /\ ToSet(NewSem(k).queue) \subseteq GettingFrom(n, g)
  BY <1>1
<1>7. GettingFrom(n, g) \ ToSet(NewSem(k).queue) = {} \ {}
  BY <1>1
<1> QED BY <1>2, <1>3, <1>5, <1>6, <1>7 DEF PoolIs
-----------------------------------------------------------------------------
(* The invariant, step by step *)

LEMMA PoolTyped ==
  ASSUME NEW n \in Nat, NEW s, NEW q, NEW k \in Nat, NEW o, NEW g, PoolIs(n, s, q, k, o, g)
  PROVE  s \in Semas /\ q \in Seq(Buffers)
PROOF
<1>1. /\ s = [count |-> s.count, queue |-> s.queue] /\ s.count \in Int
      /\ s.queue \in Seq(ToSet(s.queue)) /\ ToSet(s.queue) \subseteq Getters
  BY DEF PoolIs, SemOf, QueueOf, GettingFrom
<1>2. q \in Seq(BuffersOf(n, k) \ o) /\ BuffersOf(n, k) \ o \subseteq Buffers
  BY DEF PoolIs, QueueOf, BuffersOf, Buffers
<1>3. s.queue \in Seq(Getters)
  <2>1. \A i \in 1..Len(s.queue) : s.queue[i] \in Getters
    BY <1>1
  <2> QED BY <1>1, <2>1, SeqOfElements
<1>4. q \in Seq(Buffers)
  <2>1. \A i \in 1..Len(q) : q[i] \in Buffers
    BY <1>2
  <2> QED BY <1>2, <2>1, SeqOfElements
<1>5. s \in Semas
  <2>1. PICK c \in Int, w \in Seq(Getters) : s = [count |-> c, queue |-> w]
    BY <1>1, <1>3
  <2> QED BY <2>1 DEF Semas
<1> QED BY <1>4, <1>5

(* A call at pool n. *)
LEMMA PoolMoves ==
  ASSUME PoolsInv, NEW n \in 1..Len(bpnext), NEW s, NEW q, NEW o, NEW g \in [Getters -> Nat],
         PoolIs(n, s, q, poolsize[n], o, g),
         bpsem' = [bpsem EXCEPT ![n] = s], bpnext' = [bpnext EXCEPT ![n] = q],
         out' = o, getting' = g, UNCHANGED <<poolsize, room, sems>>,
         \A p \in Getters : g[p] = getting[p] \/ (getting[p] \in {0, n} /\ g[p] \in {0, n}),
         \A b : b[1] # n => (b \in o <=> b \in out),
         \A b \in o : b \in out \/ b \in BuffersOf(n, poolsize[n])
  PROVE  PoolsInv'
PROOF
<1>1. /\ PoolTypes /\ OutIs(out, poolsize) /\ PoolMemoryConserved
      /\ \A m \in 1..Len(bpnext) : PoolIs(m, bpsem[m], bpnext[m], poolsize[m], out, getting)
  BY DEF PoolsInv
<1>2. /\ bpsem \in Seq(Semas) /\ bpnext \in Seq(Seq(Buffers)) /\ poolsize \in Seq(Nat)
      /\ Len(bpsem) = Len(bpnext) /\ Len(poolsize) = Len(bpnext) /\ Len(bpnext) \in Nat
  BY <1>1 DEF PoolTypes
<1>3. n \in Nat /\ poolsize[n] \in Nat
  BY <1>2
<1>4. s \in Semas /\ q \in Seq(Buffers)
  BY <1>3, PoolTyped
<1>5. /\ bpsem' \in Seq(Semas) /\ Len(bpsem') = Len(bpsem)
      /\ \A m \in 1..Len(bpsem) : bpsem'[m] = IF m = n THEN s ELSE bpsem[m]
  BY <1>2, <1>4, ExceptSeq
<1>6. /\ bpnext' \in Seq(Seq(Buffers)) /\ Len(bpnext') = Len(bpnext)
      /\ \A m \in 1..Len(bpnext) : bpnext'[m] = IF m = n THEN q ELSE bpnext[m]
  BY <1>2, <1>4, ExceptSeq
<1>7. PoolTypes'
  <2>1. \A p \in Getters : g[p] <= Len(bpnext)
    <3>1. \A p \in Getters : getting[p] <= Len(bpnext)
      BY <1>1 DEF PoolTypes
    <3>2. 0 <= Len(bpnext) /\ n <= Len(bpnext)
      BY <1>2
    <3> QED BY <3>1, <3>2
  <2> QED BY <1>1, <1>5, <1>6, <2>1 DEF PoolTypes
<1>8. ASSUME NEW m \in 1..Len(bpnext)
      PROVE  PoolIs(m, bpsem'[m], bpnext'[m], poolsize[m], o, g)
  <2>1. CASE m = n
    BY <1>2, <1>5, <1>6, <2>1
  <2>2. CASE m # n
    <3>1. bpsem'[m] = bpsem[m] /\ bpnext'[m] = bpnext[m]
      BY <1>2, <1>5, <1>6, <2>2
    <3>2. BuffersOf(m, poolsize[m]) \ o = BuffersOf(m, poolsize[m]) \ out
      <4>1. \A b \in BuffersOf(m, poolsize[m]) : b[1] # n
        BY <2>2 DEF BuffersOf
      <4> QED BY <4>1
    <3>3. GettingFrom(m, g) = GettingFrom(m, getting)
      <4>1. m # 0
        BY <1>2
      <4> QED BY <2>2, <4>1 DEF GettingFrom
    <3>4. PoolIs(m, bpsem[m], bpnext[m], poolsize[m], o, g)
      BY <1>1, <3>2, <3>3, PoolSame
    <3> QED BY <3>1, <3>4
  <2> QED BY <2>1, <2>2
<1>9. OutIs(o, poolsize)
  <2>1. ASSUME NEW b \in o PROVE b[1] \in 1..Len(poolsize) /\ b \in BuffersOf(b[1], poolsize[b[1]])
    <3>1. CASE b \in out
      BY <1>1, <3>1 DEF OutIs
    <3>2. CASE b \in BuffersOf(n, poolsize[n])
      <4>1. b[1] = n
        BY <3>2 DEF BuffersOf
      <4> QED BY <1>2, <3>2, <4>1
    <3> QED BY <3>1, <3>2
  <2> QED BY <2>1 DEF OutIs
<1>10. PoolMemoryConserved'
  BY <1>1 DEF PoolMemoryConserved
<1>11. (OutIs(out, poolsize))'
  BY <1>9
<1>12. \A m \in 1..Len(bpnext') : (PoolIs(m, bpsem[m], bpnext[m], poolsize[m], out, getting))'
  BY <1>6, <1>8
<1> QED BY <1>7, <1>10, <1>11, <1>12 DEF PoolsInv

LEMMA PoolsInitially == PoolsInit => PoolsInv
PROOF
<1> SUFFICES ASSUME PoolsInit PROVE PoolsInv
  OBVIOUS
<1>1. bpnext = <<>> /\ bpsem = <<>> /\ poolsize = <<>> /\ out = {} /\ getting = [p \in Getters |-> 0]
      /\ room = HeapRoom /\ sems = SemRoom
  BY DEF PoolsInit
<1>2. PoolTypes
  BY <1>1, PoolSizes DEF PoolTypes
<1>3. OutIs(out, poolsize)
  BY <1>1 DEF OutIs
<1>4. PoolMemoryConserved
  <2>1. PoolSum(poolsize) = 0
    BY <1>1, PoolSumNone
  <2>2. HeapRoom \in Nat
    BY PoolSizes
  <2> QED BY <1>1, <2>1, <2>2 DEF PoolMemoryConserved
<1> QED BY <1>1, <1>2, <1>3, <1>4 DEF PoolsInv
LEMMA PoolFacts ==
  ASSUME PoolsInv
  PROVE  /\ Pools = 1..Len(bpnext) /\ Len(bpnext) \in Nat /\ Len(bpsem) = Len(bpnext)
         /\ Len(poolsize) = Len(bpnext) /\ bpsem \in Seq(Semas) /\ bpnext \in Seq(Seq(Buffers))
         /\ poolsize \in Seq(Nat)
         /\ getting \in [Getters -> Nat] /\ \A p \in Getters : getting[p] <= Len(bpnext)
         /\ room \in Nat /\ sems \in Nat
         /\ \A n \in 1..Len(bpnext) :
              /\ PoolIs(n, bpsem[n], bpnext[n], poolsize[n], out, getting)
              /\ n \in Nat /\ n # 0 /\ poolsize[n] \in Nat
         /\ OutIs(out, poolsize) /\ room + PoolSum(poolsize) = HeapRoom
PROOF BY DEF PoolsInv, PoolTypes, Pools, PoolMemoryConserved

LEMMA MkbufpoolKeeps ==
  ASSUME PoolsInv, NEW n \in Numbufs, mkbufpool(n)
  PROVE  PoolsInv'
PROOF
<1>1. n \in Nat
  BY PoolSizes
<1>2. PICK m : m = Len(bpnext) + 1
  OBVIOUS
<1> DEFINE q == [i \in 1..n |-> <<m, i>>]
<1>3. /\ room >= n /\ sems > 0
      /\ bpnext' = Append(bpnext, q) /\ bpsem' = Append(bpsem, NewSem(n))
      /\ poolsize' = Append(poolsize, n) /\ room' = room - n /\ sems' = sems - 1
      /\ out' = out /\ getting' = getting
  BY <1>2 DEF mkbufpool
<1>4. m \in Nat /\ m \notin 1..Len(bpnext)
  BY <1>2, PoolFacts
<1>5. BuffersOf(m, n) \cap out = {}
  <2>1. ASSUME NEW b \in out PROVE b \notin BuffersOf(m, n)
    <3>1. b[1] \in 1..Len(bpnext)
      BY PoolFacts DEF OutIs
    <3> QED BY <1>4, <3>1 DEF BuffersOf
  <2> QED BY <2>1
<1>6. GettingFrom(m, getting) = {}
  BY <1>2, PoolFacts DEF GettingFrom
<1>7. PoolIs(m, NewSem(n), q, n, out, getting)
  BY <1>1, <1>4, <1>5, <1>6, PoolMade
<1>8. NewSem(n) \in Semas /\ q \in Seq(Buffers)
  BY <1>1, <1>4, <1>7, PoolTyped
<1> HIDE DEF q
<1>9. /\ bpnext' \in Seq(Seq(Buffers)) /\ Len(bpnext') = m /\ bpnext'[m] = q
      /\ \A i \in 1..Len(bpnext) : bpnext'[i] = bpnext[i]
  BY <1>2, <1>3, <1>8, PoolFacts, AppendProperties
<1>10. /\ bpsem' \in Seq(Semas) /\ Len(bpsem') = m /\ bpsem'[m] = NewSem(n)
       /\ \A i \in 1..Len(bpnext) : bpsem'[i] = bpsem[i]
  BY <1>2, <1>3, <1>8, PoolFacts, AppendProperties
<1>11. /\ poolsize' \in Seq(Nat) /\ Len(poolsize') = m /\ poolsize'[m] = n
       /\ \A i \in 1..Len(bpnext) : poolsize'[i] = poolsize[i]
  BY <1>1, <1>2, <1>3, PoolFacts, AppendProperties
<1>12. \A i \in 1..m : i = m \/ i \in 1..Len(bpnext)
  BY <1>2, PoolFacts
<1>13. PoolTypes'
  <2>1. {room', sems'} \subseteq Nat
    BY <1>1, <1>3, PoolFacts
  <2>2. \A p \in Getters : getting[p] <= m
    BY <1>2, PoolFacts
  <2> QED BY <1>3, <1>9, <1>10, <1>11, <2>1, <2>2, PoolFacts DEF PoolTypes
<1>14. \A i \in 1..Len(bpnext') : (PoolIs(i, bpsem[i], bpnext[i], poolsize[i], out, getting))'
  <2>1. ASSUME NEW i \in 1..m
        PROVE  PoolIs(i, bpsem'[i], bpnext'[i], poolsize'[i], out, getting)
    <3>1. CASE i = m
      BY <1>7, <1>9, <1>10, <1>11, <3>1
    <3>2. CASE i # m
      <4>1. i \in 1..Len(bpnext)
        BY <1>12, <3>2
      <4>2. PoolIs(i, bpsem[i], bpnext[i], poolsize[i], out, getting)
        BY <4>1, PoolFacts
      <4> QED BY <1>9, <1>10, <1>11, <4>1, <4>2
    <3> QED BY <3>1, <3>2
  <2> QED BY <1>3, <1>9, <2>1
<1>15. (OutIs(out, poolsize))'
  <2>1. ASSUME NEW b \in out
        PROVE  b[1] \in 1..Len(poolsize') /\ b \in BuffersOf(b[1], poolsize'[b[1]])
    <3>1. b[1] \in 1..Len(bpnext) /\ b \in BuffersOf(b[1], poolsize[b[1]])
      BY PoolFacts DEF OutIs
    <3>2. b[1] \in 1..m
      BY <1>2, <3>1, PoolFacts
    <3> QED BY <1>11, <3>1, <3>2
  <2> QED BY <1>3, <2>1 DEF OutIs
<1>16. PoolMemoryConserved'
  <2>1. PoolSum(poolsize) \in Int /\ PoolSum(Append(poolsize, n)) = PoolSum(poolsize) + n
    BY <1>1, PoolFacts, PoolSumGrows
  <2>2. (room - n) + (PoolSum(poolsize) + n) = HeapRoom
    BY <1>1, <2>1, PoolFacts
  <2>3. room' + PoolSum(poolsize') = HeapRoom
    BY <1>3, <2>1, <2>2, Zenon
  <2> QED BY <2>3 DEF PoolMemoryConserved
<1> QED BY <1>13, <1>14, <1>15, <1>16 DEF PoolsInv

LEMMA NoSemKeeps ==
  ASSUME PoolsInv, NEW n \in Numbufs, MkbufpoolNoSem(n)
  PROVE  PoolsInv'
PROOF BY DEF PoolsInv, PoolTypes, OutIs, MkbufpoolNoSem, RoomRestored, PoolMemoryConserved

LEMMA GetbufKeeps ==
  ASSUME PoolsInv, NEW p \in Getters, NEW n \in Pools, getbuf(p, n)
  PROVE  PoolsInv'
PROOF
<1>1. n \in 1..Len(bpnext) /\ PoolIs(n, bpsem[n], bpnext[n], poolsize[n], out, getting)
  BY PoolFacts
<1>2. PICK o, s, q : o = out \cup {Head(bpnext[n])} /\ s = Take(bpsem[n]) /\ q = Tail(bpnext[n])
  OBVIOUS
<1>3. Head(bpnext[n]) \in BuffersOf(n, poolsize[n]) /\ PoolIs(n, s, q, poolsize[n], o, getting)
  BY <1>1, <1>2, PoolPasses DEF getbuf
<1>4. /\ bpsem' = [bpsem EXCEPT ![n] = s] /\ bpnext' = [bpnext EXCEPT ![n] = q]
      /\ out' = o /\ getting' = getting /\ UNCHANGED <<poolsize, room, sems>>
  BY <1>2 DEF getbuf, Unlink, Unlinked
<1>5. \A b : b[1] # n => (b \in o <=> b \in out)
  BY <1>2, <1>3 DEF BuffersOf
<1>6. \A b \in o : b \in out \/ b \in BuffersOf(n, poolsize[n])
  BY <1>2, <1>3
<1> QED BY <1>1, <1>3, <1>4, <1>5, <1>6, PoolFacts, PoolMoves

LEMMA GetbufBlocksKeeps ==
  ASSUME PoolsInv, NEW p \in Getters, NEW n \in Pools, GetbufBlocks(p, n)
  PROVE  PoolsInv'
PROOF
<1>1. n \in 1..Len(bpnext) /\ PoolIs(n, bpsem[n], bpnext[n], poolsize[n], out, getting)
  BY PoolFacts
<1>2. PICK g, s : g = [getting EXCEPT ![p] = n] /\ s = Blocks(bpsem[n], p)
  OBVIOUS
<1>3. getting[p] = 0 /\ n # 0 /\ n \in Nat /\ getting \in [Getters -> Nat]
  BY PoolFacts DEF GetbufBlocks
<1>4. g \in [Getters -> Nat] /\ \A r \in Getters : g[r] = getting[r] \/ (getting[r] \in {0, n} /\ g[r] \in {0, n})
  BY <1>2, <1>3
<1>5. p \notin GettingFrom(n, getting) /\ GettingFrom(n, g) = GettingFrom(n, getting) \cup {p}
  BY <1>2, <1>3 DEF GettingFrom
<1>6. PoolIs(n, s, bpnext[n], poolsize[n], out, g)
  BY <1>1, <1>2, <1>5, PoolBlocks DEF GetbufBlocks
<1>7. /\ bpsem' = [bpsem EXCEPT ![n] = s] /\ bpnext' = [bpnext EXCEPT ![n] = bpnext[n]]
      /\ out' = out /\ getting' = g /\ UNCHANGED <<poolsize, room, sems>>
  BY <1>1, <1>2, PoolFacts DEF GetbufBlocks
<1>8. \A b \in out : b \in out \/ b \in BuffersOf(n, poolsize[n])
  OBVIOUS
<1> QED BY <1>1, <1>4, <1>6, <1>7, <1>8, PoolMoves

LEMMA GetbufRestKeeps ==
  ASSUME PoolsInv, NEW p \in Getters, GetbufRest(p)
  PROVE  PoolsInv'
PROOF
<1>0. PICK n : n = getting[p]
  OBVIOUS
<1>1. n \in 1..Len(bpnext) /\ PoolIs(n, bpsem[n], bpnext[n], poolsize[n], out, getting)
  <2>1. n # 0 /\ n \in Nat /\ n <= Len(bpnext)
    BY <1>0, PoolFacts DEF GetbufRest
  <2> QED BY <2>1, PoolFacts
<1>2. PICK o, q, g : o = out \cup {Head(bpnext[n])} /\ q = Tail(bpnext[n]) /\ g = [getting EXCEPT ![p] = 0]
  OBVIOUS
<1>3. n # 0 /\ n \in Nat /\ getting \in [Getters -> Nat]
  BY <1>1, PoolFacts
<1>4. g \in [Getters -> Nat] /\ \A r \in Getters : g[r] = getting[r] \/ (getting[r] \in {0, n} /\ g[r] \in {0, n})
  BY <1>0, <1>2, <1>3
<1>5. p \in GettingFrom(n, getting) /\ GettingFrom(n, g) = GettingFrom(n, getting) \ {p}
  BY <1>0, <1>2, <1>3 DEF GettingFrom
<1>6. ~WaitsAt(p, bpsem[n])
  BY <1>0 DEF GetbufRest
<1>7. Head(bpnext[n]) \in BuffersOf(n, poolsize[n]) /\ PoolIs(n, bpsem[n], q, poolsize[n], o, g)
  BY <1>1, <1>2, <1>5, <1>6, PoolTaken
<1>8. /\ bpsem' = [bpsem EXCEPT ![n] = bpsem[n]] /\ bpnext' = [bpnext EXCEPT ![n] = q]
      /\ out' = o /\ getting' = g /\ UNCHANGED <<poolsize, room, sems>>
  BY <1>0, <1>1, <1>2, PoolFacts DEF GetbufRest, Unlink, Unlinked
<1>9. \A b : b[1] # n => (b \in o <=> b \in out)
  BY <1>2, <1>7 DEF BuffersOf
<1>10. \A b \in o : b \in out \/ b \in BuffersOf(n, poolsize[n])
  BY <1>2, <1>7
<1> QED BY <1>1, <1>4, <1>7, <1>8, <1>9, <1>10, PoolMoves

LEMMA FreebufKeeps ==
  ASSUME PoolsInv, NEW b \in out, freebuf(b)
  PROVE  PoolsInv'
PROOF
<1>0. PICK n : n = b[1]
  OBVIOUS
<1>1. /\ n \in 1..Len(bpnext) /\ PoolIs(n, bpsem[n], bpnext[n], poolsize[n], out, getting)
      /\ b \in BuffersOf(n, poolsize[n])
  BY <1>0, PoolFacts DEF OutIs
<1>2. PICK o, s, q : o = out \ {b} /\ s = Signal(bpsem[n]) /\ q = <<b>> \o bpnext[n]
  OBVIOUS
<1>3. PoolIs(n, s, q, poolsize[n], o, getting)
  BY <1>1, <1>2, PoolGivenBack
<1>4. /\ bpsem' = [bpsem EXCEPT ![n] = s] /\ bpnext' = [bpnext EXCEPT ![n] = q]
      /\ out' = o /\ getting' = getting /\ UNCHANGED <<poolsize, room, sems>>
  BY <1>0, <1>2 DEF freebuf, Counted
<1>5. \A c : c[1] # n => (c \in o <=> c \in out)
  BY <1>0, <1>2
<1>6. \A c \in o : c \in out \/ c \in BuffersOf(n, poolsize[n])
  BY <1>2
<1> QED BY <1>1, <1>3, <1>4, <1>5, <1>6, PoolFacts, PoolMoves

LEMMA GetterKilledKeeps ==
  ASSUME PoolsInv, NEW p \in Getters, GetterKilled(p)
  PROVE  PoolsInv'
PROOF
<1>0. PICK n : n = getting[p]
  OBVIOUS
<1>1. n \in 1..Len(bpnext) /\ PoolIs(n, bpsem[n], bpnext[n], poolsize[n], out, getting)
  <2>1. n # 0 /\ n \in Nat /\ n <= Len(bpnext)
    BY <1>0, PoolFacts DEF GetterKilled
  <2> QED BY <2>1, PoolFacts
<1>2. PICK s, g : /\ s = IF WaitsAt(p, bpsem[n]) THEN Leaves(bpsem[n], p) ELSE bpsem[n]
                  /\ g = [getting EXCEPT ![p] = 0]
  OBVIOUS
<1>3. n # 0 /\ n \in Nat /\ getting \in [Getters -> Nat]
  BY <1>1, PoolFacts
<1>4. g \in [Getters -> Nat] /\ \A r \in Getters : g[r] = getting[r] \/ (getting[r] \in {0, n} /\ g[r] \in {0, n})
  BY <1>0, <1>2, <1>3
<1>5. p \in GettingFrom(n, getting) /\ GettingFrom(n, g) = GettingFrom(n, getting) \ {p}
  BY <1>0, <1>2, <1>3 DEF GettingFrom
<1>6. PoolIs(n, s, bpnext[n], poolsize[n], out, g)
  BY <1>1, <1>2, <1>5, PoolLeft
<1>7. /\ bpsem' = [bpsem EXCEPT ![n] = s] /\ bpnext' = [bpnext EXCEPT ![n] = bpnext[n]]
      /\ out' = out /\ getting' = g /\ UNCHANGED <<poolsize, room, sems>>
  <2>1. bpsem' = IF WaitsAt(p, bpsem[n]) THEN [bpsem EXCEPT ![n] = Leaves(bpsem[n], p)] ELSE bpsem
    BY <1>0 DEF GetterKilled
  <2>2. bpsem = [bpsem EXCEPT ![n] = bpsem[n]] /\ bpnext = [bpnext EXCEPT ![n] = bpnext[n]]
    BY <1>1, PoolFacts
  <2>3. bpsem' = [bpsem EXCEPT ![n] = s]
    <3>1. CASE WaitsAt(p, bpsem[n])
      BY <1>2, <2>1, <3>1
    <3>2. CASE ~WaitsAt(p, bpsem[n])
      <4>1. s = bpsem[n] /\ bpsem' = bpsem
        BY <1>2, <2>1, <3>2
      <4> QED BY <2>2, <4>1
    <3> QED BY <3>1, <3>2
  <2> QED BY <1>0, <1>2, <2>2, <2>3 DEF GetterKilled
<1>8. \A b \in out : b \in out \/ b \in BuffersOf(n, poolsize[n])
  OBVIOUS
<1> QED BY <1>1, <1>4, <1>6, <1>7, <1>8, PoolMoves

LEMMA PoolsStep == PoolsInv /\ [PoolsNext]_poolVars => PoolsInv'
PROOF
<1> SUFFICES ASSUME PoolsInv, [PoolsNext]_poolVars PROVE PoolsInv'
  OBVIOUS
<1>1. CASE UNCHANGED poolVars
  BY <1>1 DEF poolVars, PoolsInv, PoolTypes, OutIs, PoolMemoryConserved
<1>2. ASSUME NEW n \in Numbufs, mkbufpool(n) \/ MkbufpoolNoSem(n) PROVE PoolsInv'
  BY <1>2, MkbufpoolKeeps, NoSemKeeps
<1>3. ASSUME NEW p \in Getters, NEW n \in Pools, getbuf(p, n) \/ GetbufBlocks(p, n) PROVE PoolsInv'
  BY <1>3, GetbufKeeps, GetbufBlocksKeeps
<1>4. ASSUME NEW p \in Getters, GetbufRest(p) \/ GetterKilled(p) PROVE PoolsInv'
  BY <1>4, GetbufRestKeeps, GetterKilledKeeps
<1>5. ASSUME NEW b \in out, freebuf(b) PROVE PoolsInv'
  BY <1>5, FreebufKeeps
<1> QED BY <1>1, <1>2, <1>3, <1>4, <1>5 DEF PoolsNext

-----------------------------------------------------------------------------
(* What the invariant says of the pools *)

LEMMA OnListOnce ==
  ASSUME NEW S, NEW q, QueueOf(q, S), NEW b
  PROVE  Cardinality({k \in DOMAIN q : q[k] = b}) = IF b \in S THEN 1 ELSE 0
PROOF
<1>1. DOMAIN q = 1..Len(q) /\ \A i \in 1..Len(q) : q[i] \in S
  BY DEF QueueOf
<1>2. CASE b \in S
  <2>1. PICK i \in 1..Len(q) : q[i] = b
    BY <1>2 DEF QueueOf
  <2>2. {k \in DOMAIN q : q[k] = b} = {i}
    BY <1>1, <2>1 DEF QueueOf
  <2> QED BY <1>2, <2>2, FS_Singleton
<1>3. CASE b \notin S
  <2>1. {k \in DOMAIN q : q[k] = b} = {}
    BY <1>1, <1>3
  <2> QED BY <1>3, <2>1, FS_EmptySet
<1> QED BY <1>2, <1>3

LEMMA PoolsInvSound == PoolsInv => PoolsSound
PROOF
<1> SUFFICES ASSUME PoolsInv PROVE PoolsSound
  OBVIOUS
<1>1. BufferInOnePlace
  <2>1. ASSUME NEW n \in Pools, NEW i \in 1..HeapRoom
        PROVE  Cardinality({k \in DOMAIN bpnext[n] : bpnext[n][k] = <<n, i>>})
                 + (IF <<n, i>> \in out THEN 1 ELSE 0) = IF i <= poolsize[n] THEN 1 ELSE 0
    <3>1. n \in 1..Len(bpnext) /\ PoolIs(n, bpsem[n], bpnext[n], poolsize[n], out, getting) /\ poolsize[n] \in Nat
      BY PoolFacts
    <3>2. i \in Nat /\ i >= 1
      BY PoolSizes
    <3>3. <<n, i>> \in BuffersOf(n, poolsize[n]) <=> i <= poolsize[n]
      BY <3>1, <3>2 DEF BuffersOf
    <3>4. QueueOf(bpnext[n], BuffersOf(n, poolsize[n]) \ out)
      BY <3>1 DEF PoolIs
    <3>5. Cardinality({k \in DOMAIN bpnext[n] : bpnext[n][k] = <<n, i>>})
            = IF <<n, i>> \in BuffersOf(n, poolsize[n]) \ out THEN 1 ELSE 0
      BY <3>4, OnListOnce
    <3>6. <<n, i>> \in out => <<n, i>> \in BuffersOf(n, poolsize[n])
      <4>1. \A b \in out : b \in BuffersOf(b[1], poolsize[b[1]])
        BY PoolFacts DEF OutIs
      <4>2. <<n, i>>[1] = n
        OBVIOUS
      <4> QED BY <4>1, <4>2
    <3> QED BY <3>3, <3>5, <3>6
  <2> QED BY <2>1 DEF BufferInOnePlace
<1>2. GetterFindsBuffer
  <2>1. ASSUME NEW n \in Pools
        PROVE  Cardinality({p \in Getters : getting[p] = n /\ ~WaitsAt(p, bpsem[n])})
                 + (IF bpsem[n].count > 0 THEN bpsem[n].count ELSE 0) <= Len(bpnext[n])
    <3>1. PoolIs(n, bpsem[n], bpnext[n], poolsize[n], out, getting)
      BY PoolFacts
    <3>2. {p \in Getters : getting[p] = n /\ ~WaitsAt(p, bpsem[n])}
            = GettingFrom(n, getting) \ ToSet(bpsem[n].queue)
      BY DEF GettingFrom, WaitsAt
    <3> QED BY <3>1, <3>2 DEF PoolIs, Units
  <2> QED BY <2>1 DEF GetterFindsBuffer
<1> QED BY <1>1, <1>2 DEF PoolsSound, PoolsInv

(* The buffers of each pool are on its list or in somebody's hands, once each,
   getbuf finds one when it has passed its wait, and the heap's memory is in the
   pools or can be had, for any number of pools, buffers and processes, through
   waits, kills and calls that fail. *)
THEOREM PoolsSoundAlways == PoolsSpec => []PoolsSound
PROOF BY PoolsInitially, PoolsStep, PoolsInvSound, PTL DEF PoolsSpec

-----------------------------------------------------------------------------
(* The heap: a list of free blocks, and what taking, giving back and joining   *)
(* them does to the bytes that are free.                                       *)

FreeBlock == [addr : Nat \ {0}, len : Nat \ {0}]
InBlock(x, b) == b.addr <= x /\ x < b.addr + b.len
IsFree(l, x) == \E i \in 1..Len(l) : InBlock(x, l[i])

(* The blocks of l are in ascending order and apart, those at i and i + 1
   perhaps not. *)
LooseAt(l, i) ==
  /\ l \in Seq(FreeBlock)
  /\ \A p, q \in 1..Len(l) :
       p < q => BlockEnd(l[p]) < l[q].addr \/ (p = i /\ q = i + 1 /\ BlockEnd(l[p]) = l[q].addr)
Apart(l) == LooseAt(l, 0)

LEMMA SeqReplaced ==
  ASSUME NEW T, NEW l \in Seq(T), NEW i \in 1..Len(l), NEW e \in T
  PROVE  /\ [l EXCEPT ![i] = e] \in Seq(T)
         /\ Len([l EXCEPT ![i] = e]) = Len(l)
         /\ \A j \in 1..Len(l) : [l EXCEPT ![i] = e][j] = IF j = i THEN e ELSE l[j]
PROOF OBVIOUS

LEMMA BlockIs ==
  ASSUME NEW l \in Seq(FreeBlock), NEW i \in 1..Len(l)
  PROVE  /\ l[i] \in FreeBlock /\ {l[i].addr, l[i].len} \subseteq Nat
         /\ l[i].addr > 0 /\ l[i].len > 0 /\ BlockEnd(l[i]) = l[i].addr + l[i].len
         /\ BlockEnd(l[i]) \in Nat /\ l[i].addr < BlockEnd(l[i])
PROOF
<1>1. l[i] \in FreeBlock
  OBVIOUS
<1> QED BY <1>1 DEF FreeBlock, BlockEnd

(* A block that shrinks at either end. *)
LEMMA BlockShrinks ==
  ASSUME NEW l, Apart(l), NEW i \in 1..Len(l), NEW e \in FreeBlock,
         e.addr >= l[i].addr, BlockEnd(e) <= BlockEnd(l[i])
  PROVE  /\ Apart([l EXCEPT ![i] = e])
         /\ \A x \in Int : IsFree([l EXCEPT ![i] = e], x)
              <=> (IsFree(l, x) /\ ~InBlock(x, l[i])) \/ InBlock(x, e)
PROOF
<1> DEFINE m == [l EXCEPT ![i] = e]
<1>0. l \in Seq(FreeBlock) /\ Len(l) \in Nat
  BY DEF Apart, LooseAt
<1>1. m \in Seq(FreeBlock) /\ Len(m) = Len(l) /\ \A j \in 1..Len(l) : m[j] = IF j = i THEN e ELSE l[j]
  BY <1>0, SeqReplaced
<1> HIDE DEF m
<1>2. \A j \in 1..Len(l) : {l[j].addr, l[j].len} \subseteq Nat /\ BlockEnd(l[j]) = l[j].addr + l[j].len
                           /\ l[j].len > 0 /\ BlockEnd(l[j]) \in Nat /\ l[j].addr < BlockEnd(l[j])
  BY <1>0, BlockIs
<1>3. {e.addr, e.len} \subseteq Nat /\ BlockEnd(e) = e.addr + e.len /\ BlockEnd(e) \in Nat
  BY DEF FreeBlock, BlockEnd
<1>4. \A p, q \in 1..Len(l) : p < q => BlockEnd(l[p]) < l[q].addr
  BY <1>0 DEF Apart, LooseAt
<1>5. Apart(m)
  <2>1. ASSUME NEW p \in 1..Len(l), NEW q \in 1..Len(l), p < q PROVE BlockEnd(m[p]) < m[q].addr
    <3>0. p \in Int /\ q \in Int /\ ~(p = q) /\ BlockEnd(l[p]) < l[q].addr
      BY <2>1, <1>4
    <3>1. CASE p = i
      <4>1. m[p] = e /\ m[q] = l[q] /\ BlockEnd(e) <= BlockEnd(l[p])
        BY <3>0, <3>1, <1>1
      <4>2. PICK u \in Nat, v \in Nat, w \in Nat : u = BlockEnd(e) /\ v = BlockEnd(l[p]) /\ w = l[q].addr
        BY <1>2, <1>3
      <4>3. u < w
        BY <3>0, <4>1, <4>2
      <4> QED BY <4>1, <4>2, <4>3, Zenon
    <3>2. CASE q = i
      <4>1. m[p] = l[p] /\ m[q] = e /\ e.addr >= l[q].addr
        BY <3>0, <3>2, <1>1
      <4> QED BY <3>0, <4>1, <1>2, <1>3
    <3>3. CASE p # i /\ q # i
      <4>1. m[p] = l[p] /\ m[q] = l[q]
        BY <3>3, <1>1
      <4> QED BY <3>0, <4>1, Zenon
    <3> QED BY <3>1, <3>2, <3>3
  <2> QED BY <2>1, <1>1 DEF Apart, LooseAt
<1>6. ASSUME NEW x \in Int
      PROVE  IsFree(m, x) <=> (IsFree(l, x) /\ ~InBlock(x, l[i])) \/ InBlock(x, e)
  <2>1. \A j \in 1..Len(l) : j # i => ~(InBlock(x, l[j]) /\ InBlock(x, l[i]))
    BY <1>2, <1>4 DEF InBlock
  <2> QED BY <2>1, <1>1 DEF IsFree
<1> QED BY <1>5, <1>6 DEF m

LEMMA BlockGoes ==
  ASSUME NEW l, Apart(l), NEW i \in 1..Len(l)
  PROVE  /\ Apart(RemoveAt(l, i))
         /\ \A x \in Int : IsFree(RemoveAt(l, i), x) <=> IsFree(l, x) /\ ~InBlock(x, l[i])
PROOF
<1>1. PICK m : m = RemoveAt(l, i)
  OBVIOUS
<1>0. l \in Seq(FreeBlock) /\ Len(l) \in Nat
  BY DEF Apart, LooseAt
<1>2. m \in Seq(FreeBlock) /\ Len(m) = Len(l) - 1
      /\ \A j \in 1..(Len(l) - 1) : m[j] = IF j < i THEN l[j] ELSE l[j + 1]
  BY <1>0, <1>1, RemoveAtElements
<1>3. \A j \in 1..Len(l) : {l[j].addr, l[j].len} \subseteq Nat /\ BlockEnd(l[j]) = l[j].addr + l[j].len
                           /\ l[j].len > 0 /\ BlockEnd(l[j]) \in Nat /\ l[j].addr < BlockEnd(l[j])
  BY <1>0, BlockIs
<1>4. \A p, q \in 1..Len(l) : p < q => BlockEnd(l[p]) < l[q].addr
  BY <1>0 DEF Apart, LooseAt
<1>5. Apart(m)
  <2>1. ASSUME NEW p \in 1..Len(m), NEW q \in 1..Len(m), p < q PROVE BlockEnd(m[p]) < m[q].addr
    <3>1. PICK s, t \in 1..Len(l) : s < t /\ m[p] = l[s] /\ m[q] = l[t]
      <4>1. p \in 1..Len(l) /\ p + 1 \in 1..Len(l) /\ q \in 1..Len(l) /\ q + 1 \in 1..Len(l)
        BY <1>0, <1>2
      <4> QED BY <4>1, <2>1, <1>0, <1>2
    <3> QED BY <3>1, <1>4
  <2> QED BY <2>1, <1>2 DEF Apart, LooseAt
<1>6. ASSUME NEW x \in Int
      PROVE  IsFree(m, x) <=> (IsFree(l, x) /\ ~InBlock(x, l[i]))
  <2>1. \A j \in 1..Len(l) : j # i => ~(InBlock(x, l[j]) /\ InBlock(x, l[i]))
    BY <1>3, <1>4 DEF InBlock
  <2>2. ASSUME NEW j \in 1..Len(m), InBlock(x, m[j]) PROVE \E k \in 1..Len(l) : k # i /\ InBlock(x, l[k])
    <3>1. j \in 1..Len(l) /\ j + 1 \in 1..Len(l) /\ (j < i \/ j + 1 # i)
      BY <1>0, <1>2
    <3> QED BY <3>1, <2>2, <1>0, <1>2
  <2>3. ASSUME NEW k \in 1..Len(l), k # i, InBlock(x, l[k]) PROVE IsFree(m, x)
    <3>1. CASE k < i
      <4>1. k \in 1..Len(m) /\ m[k] = l[k]
        BY <3>1, <1>0, <1>2
      <4> QED BY <4>1, <2>3 DEF IsFree
    <3>2. CASE k > i
      <4>1. k - 1 \in 1..Len(m) /\ m[k - 1] = l[k]
        BY <3>2, <1>0, <1>2
      <4> QED BY <4>1, <2>3 DEF IsFree
    <3> QED BY <3>1, <3>2, <2>3, <1>0
  <2> QED BY <2>1, <2>2, <2>3 DEF IsFree
<1> QED BY <1>1, <1>5, <1>6
(* A block to which bytes are added that are behind it, and free of others. *)
LEMMA BlockGrows ==
  ASSUME NEW l, Apart(l), NEW i \in 1..Len(l), NEW n \in Nat \ {0},
         NEW e, e = [addr |-> l[i].addr, len |-> l[i].len + n],
         i < Len(l) => BlockEnd(e) <= l[i + 1].addr
  PROVE  /\ LooseAt([l EXCEPT ![i] = e], i)
         /\ \A x \in Int : IsFree([l EXCEPT ![i] = e], x)
              <=> IsFree(l, x) \/ (BlockEnd(l[i]) <= x /\ x < BlockEnd(l[i]) + n)
PROOF
<1> DEFINE m == [l EXCEPT ![i] = e]
<1>0. l \in Seq(FreeBlock) /\ Len(l) \in Nat
  BY DEF Apart, LooseAt
<1>2. \A j \in 1..Len(l) : {l[j].addr, l[j].len} \subseteq Nat /\ BlockEnd(l[j]) = l[j].addr + l[j].len
                           /\ l[j].len > 0 /\ BlockEnd(l[j]) \in Nat /\ l[j].addr < BlockEnd(l[j])
  BY <1>0, BlockIs
<1>3. /\ {e.addr, e.len} \subseteq Nat /\ BlockEnd(e) = e.addr + e.len /\ BlockEnd(e) \in Nat /\ e.addr = l[i].addr
      /\ BlockEnd(e) = BlockEnd(l[i]) + n /\ e \in FreeBlock
  <2>1. l[i] \in FreeBlock
    BY <1>0
  <2> QED BY <2>1 DEF FreeBlock, BlockEnd
<1>1. m \in Seq(FreeBlock) /\ Len(m) = Len(l) /\ \A j \in 1..Len(l) : m[j] = IF j = i THEN e ELSE l[j]
  BY <1>0, <1>3, SeqReplaced
<1> HIDE DEF m
<1>4. \A p, q \in 1..Len(l) : p < q => BlockEnd(l[p]) < l[q].addr
  BY <1>0 DEF Apart, LooseAt
<1>5. LooseAt(m, i)
  <2>1. ASSUME NEW p \in 1..Len(l), NEW q \in 1..Len(l), p < q
        PROVE  BlockEnd(m[p]) < m[q].addr \/ (p = i /\ q = i + 1 /\ BlockEnd(m[p]) = m[q].addr)
    <3>0. p \in Int /\ q \in Int /\ ~(p = q) /\ BlockEnd(l[p]) < l[q].addr
      BY <2>1, <1>4
    <3>1. CASE p = i /\ q = i + 1
      <4>1. m[p] = e /\ m[q] = l[q] /\ BlockEnd(e) <= l[q].addr
        BY <3>0, <3>1, <1>0, <1>1
      <4> QED BY SMTT(30), <3>1, <4>1, <1>2, <1>3
    <3>2. CASE p = i /\ q # i + 1
      <4>1. i + 1 \in 1..Len(l) /\ i + 1 < q /\ i < Len(l)
        BY <3>2, <2>1, <1>0
      <4>2. BlockEnd(l[i + 1]) < l[q].addr /\ BlockEnd(e) <= l[i + 1].addr
        BY <4>1, <1>4
      <4>3. {l[i + 1].addr, BlockEnd(l[i + 1])} \subseteq Nat /\ l[i + 1].addr < BlockEnd(l[i + 1])
        BY <4>1, <1>2
      <4>4. {l[q].addr} \subseteq Nat
        BY <1>2
      <4>5. BlockEnd(e) < l[q].addr
        BY <1>3, <4>2, <4>3, <4>4
      <4> QED BY <4>5, <3>0, <3>2, <1>1
    <3>3. CASE q = i
      <4>1. m[p] = l[p] /\ m[q] = e /\ e.addr = l[q].addr
        BY <3>0, <3>3, <1>1, <1>3
      <4> QED BY <3>0, <4>1, <1>2, <1>3
    <3>4. CASE p # i /\ q # i
      <4>1. m[p] = l[p] /\ m[q] = l[q]
        BY <3>4, <1>1
      <4> QED BY <3>0, <4>1, Zenon
    <3> QED BY <3>1, <3>2, <3>3, <3>4
  <2> QED BY <2>1, <1>1 DEF LooseAt
<1>6. ASSUME NEW x \in Int
      PROVE  IsFree(m, x) <=> IsFree(l, x) \/ (BlockEnd(l[i]) <= x /\ x < BlockEnd(l[i]) + n)
  <2>1. InBlock(x, e) <=> InBlock(x, l[i]) \/ (BlockEnd(l[i]) <= x /\ x < BlockEnd(l[i]) + n)
    <3>1. PICK a, b : a = l[i].addr /\ b = BlockEnd(l[i])
      OBVIOUS
    <3>2. {a, b} \subseteq Nat /\ a < b /\ b = l[i].addr + l[i].len /\ b + n = e.addr + e.len /\ e.addr = a
      BY <3>1, <1>2, <1>3
    <3>3. InBlock(x, l[i]) <=> a <= x /\ x < b
      BY <3>1, <3>2 DEF InBlock
    <3>4. InBlock(x, e) <=> a <= x /\ x < b + n
      BY <3>2 DEF InBlock
    <3>5. a <= x /\ x < b + n <=> (a <= x /\ x < b) \/ (b <= x /\ x < b + n)
      BY <3>2
    <3> QED BY <3>1, <3>3, <3>4, <3>5, Zenon
  <2> QED BY <2>1, <1>1 DEF IsFree
<1> QED BY <1>5, <1>6 DEF m

(* A block that is put in between the blocks in front of it and those behind. *)
LEMMA BlockComes ==
  ASSUME NEW l, Apart(l), NEW i \in 1..(Len(l) + 1), NEW e \in FreeBlock,
         \A j \in 1..(i - 1) : BlockEnd(l[j]) < e.addr,
         \A j \in i..Len(l) : BlockEnd(e) <= l[j].addr
  PROVE  /\ LooseAt(InsertAt(l, i, e), i)
         /\ \A x \in Int : IsFree(InsertAt(l, i, e), x) <=> IsFree(l, x) \/ InBlock(x, e)
PROOF
<1>1. PICK m : m = InsertAt(l, i, e)
  OBVIOUS
<1>0. l \in Seq(FreeBlock) /\ Len(l) \in Nat
  BY DEF Apart, LooseAt
<1>2. m \in Seq(FreeBlock) /\ Len(m) = Len(l) + 1
      /\ \A j \in 1..(Len(l) + 1) : m[j] = IF j < i THEN l[j] ELSE IF j = i THEN e ELSE l[j - 1]
  <2>1. /\ InsertAt(l, i, e) \in Seq(FreeBlock) /\ Len(InsertAt(l, i, e)) = Len(l) + 1
        /\ \A j \in 1..(Len(l) + 1) :
             InsertAt(l, i, e)[j] = IF j < i THEN l[j] ELSE IF j = i THEN e ELSE l[j - 1]
    <3>1. l \in Seq(FreeBlock) /\ e \in FreeBlock /\ i \in 1..(Len(l) + 1)
      BY <1>0
    <3> QED BY ONLY <3>1, InsertAtElements
  <2> QED BY <2>1, <1>1, Zenon
<1>3. \A j \in 1..Len(l) : {l[j].addr, l[j].len} \subseteq Nat /\ BlockEnd(l[j]) = l[j].addr + l[j].len
                           /\ l[j].len > 0 /\ BlockEnd(l[j]) \in Nat /\ l[j].addr < BlockEnd(l[j])
  BY <1>0, BlockIs
<1>4. \A p, q \in 1..Len(l) : p < q => BlockEnd(l[p]) < l[q].addr
  BY <1>0 DEF Apart, LooseAt
<1>5. {e.addr, e.len} \subseteq Nat /\ BlockEnd(e) = e.addr + e.len /\ BlockEnd(e) \in Nat
  BY DEF FreeBlock, BlockEnd
<1>6. LooseAt(m, i)
  <2>1. ASSUME NEW p \in 1..(Len(l) + 1), NEW q \in 1..(Len(l) + 1), p < q
        PROVE  BlockEnd(m[p]) < m[q].addr \/ (p = i /\ q = i + 1 /\ BlockEnd(m[p]) = m[q].addr)
    <3>1. CASE q < i
      <4>1. p \in 1..Len(l) /\ q \in 1..Len(l) /\ m[p] = l[p] /\ m[q] = l[q]
        BY <3>1, <2>1, <1>0, <1>2
      <4> QED BY <4>1, <2>1, <1>4
    <3>2. CASE q = i
      <4>1. p \in 1..(i - 1) /\ m[p] = l[p] /\ m[q] = e
        BY <3>2, <2>1, <1>0, <1>2
      <4> QED BY <4>1
    <3>3. CASE p = i
      <4>1. q - 1 \in i..Len(l) /\ q - 1 \in 1..Len(l) /\ m[p] = e /\ m[q] = l[q - 1]
        BY <3>3, <2>1, <1>0, <1>2
      <4>2. BlockEnd(e) <= l[q - 1].addr
        BY <4>1
      <4>3. CASE q = i + 1
        BY <4>1, <4>2, <4>3, <3>3, <1>3, <1>5
      <4>4. CASE q # i + 1
        <5>1. i \in 1..Len(l) /\ i < q - 1 /\ i \in i..Len(l)
          BY <4>1, <4>4, <3>3, <2>1, <1>0
        <5>2. BlockEnd(e) <= l[i].addr /\ BlockEnd(l[i]) < l[q - 1].addr
          BY <5>1, <4>1, <1>4
        <5>3. {l[i].addr, BlockEnd(l[i]), BlockEnd(e), l[q - 1].addr} \subseteq Nat /\ l[i].addr < BlockEnd(l[i])
          BY <4>1, <5>1, <1>3, <1>5
        <5>4. BlockEnd(e) < l[q - 1].addr
          BY <5>2, <5>3
        <5> QED BY <4>1, <5>4, Zenon
      <4> QED BY <4>3, <4>4
    <3>4. CASE p < i /\ q > i
      <4>1. p \in 1..Len(l) /\ q - 1 \in 1..Len(l) /\ p < q - 1 /\ m[p] = l[p] /\ m[q] = l[q - 1]
        BY <3>4, <2>1, <1>0, <1>2
      <4> QED BY <4>1, <1>4
    <3>5. CASE p > i
      <4>1. p - 1 \in 1..Len(l) /\ q - 1 \in 1..Len(l) /\ p - 1 < q - 1 /\ m[p] = l[p - 1] /\ m[q] = l[q - 1]
        BY <3>5, <2>1, <1>0, <1>2
      <4> QED BY <4>1, <1>4
    <3> QED BY <3>1, <3>2, <3>3, <3>4, <3>5, <1>0
  <2> QED BY <2>1, <1>2 DEF LooseAt
<1>7. ASSUME NEW x \in Int
      PROVE  IsFree(m, x) <=> IsFree(l, x) \/ InBlock(x, e)
  <2>1. ASSUME NEW j \in 1..Len(m), InBlock(x, m[j]) PROVE IsFree(l, x) \/ InBlock(x, e)
    <3>1. CASE j = i
      BY <2>1, <3>1, <1>0, <1>2
    <3>2. CASE j < i
      <4>1. j \in 1..Len(l) /\ m[j] = l[j]
        BY <3>2, <1>0, <1>2
      <4> QED BY <4>1, <2>1 DEF IsFree
    <3>3. CASE j > i
      <4>1. j - 1 \in 1..Len(l) /\ m[j] = l[j - 1]
        BY <3>3, <1>0, <1>2
      <4> QED BY <4>1, <2>1 DEF IsFree
    <3> QED BY <3>1, <3>2, <3>3, <1>0, <1>2
  <2>2. ASSUME NEW j \in 1..Len(l), InBlock(x, l[j]) PROVE IsFree(m, x)
    <3>1. CASE j < i
      <4>1. j \in 1..Len(m) /\ m[j] = l[j]
        BY <3>1, <1>0, <1>2
      <4> QED BY <4>1, <2>2 DEF IsFree
    <3>2. CASE j >= i
      <4>1. j + 1 \in 1..Len(m) /\ m[j + 1] = l[j]
        BY <3>2, <1>0, <1>2
      <4> QED BY <4>1, <2>2 DEF IsFree
    <3> QED BY <3>1, <3>2, <1>0
  <2>3. ASSUME InBlock(x, e) PROVE IsFree(m, x)
    <3>1. i \in 1..Len(m) /\ m[i] = e
      BY <1>0, <1>2
    <3> QED BY <3>1, <2>3 DEF IsFree
  <2> QED BY <2>1, <2>2, <2>3 DEF IsFree
<1> QED BY <1>1, <1>6, <1>7

(* Two blocks that touch are joined. *)
JoinOf(b, c) == [addr |-> b.addr, len |-> b.len + c.len]
Touch(b, c) == BlockEnd(b) = c.addr

LEMMA JoinOfIs ==
  ASSUME NEW b \in FreeBlock, NEW c \in FreeBlock, Touch(b, c)
  PROVE  /\ JoinOf(b, c) \in FreeBlock /\ JoinOf(b, c).addr = b.addr
         /\ {JoinOf(b, c).addr, JoinOf(b, c).len} \subseteq Nat
         /\ BlockEnd(JoinOf(b, c)) = JoinOf(b, c).addr + JoinOf(b, c).len
         /\ BlockEnd(JoinOf(b, c)) = BlockEnd(c) /\ BlockEnd(JoinOf(b, c)) \in Nat
PROOF BY DEF JoinOf, Touch, FreeBlock, BlockEnd

JoinedAt(l, i) == RemoveAt([l EXCEPT ![i] = JoinOf(l[i], l[i + 1])], i + 1)

LEMMA BlocksJoin ==
  ASSUME NEW l, NEW i \in 1..(Len(l) - 1), LooseAt(l, i), Touch(l[i], l[i + 1])
  PROVE  /\ Apart(JoinedAt(l, i))
         /\ \A x \in Int : IsFree(JoinedAt(l, i), x) <=> IsFree(l, x)
PROOF
<1>e. PICK e : e = JoinOf(l[i], l[i + 1])
  OBVIOUS
<1>t. BlockEnd(l[i]) = l[i + 1].addr
  BY DEF Touch
<1>0. l \in Seq(FreeBlock) /\ Len(l) \in Nat /\ i \in 1..Len(l) /\ i + 1 \in 1..Len(l) /\ i < Len(l)
  BY DEF LooseAt
<1>1. PICK k : k = [l EXCEPT ![i] = e]
  OBVIOUS
<1>2. PICK m : m = RemoveAt(k, i + 1)
  OBVIOUS
<1>3. \A j \in 1..Len(l) : {l[j].addr, l[j].len} \subseteq Nat /\ BlockEnd(l[j]) = l[j].addr + l[j].len
                           /\ l[j].len > 0 /\ BlockEnd(l[j]) \in Nat /\ l[j].addr < BlockEnd(l[j])
  BY <1>0, BlockIs
<1>4. /\ {e.addr, e.len} \subseteq Nat /\ BlockEnd(e) = e.addr + e.len /\ BlockEnd(e) \in Nat /\ e.addr = l[i].addr
      /\ BlockEnd(e) = BlockEnd(l[i + 1]) /\ e \in FreeBlock
  <2>1. l[i] \in FreeBlock /\ l[i + 1] \in FreeBlock
    BY <1>0
  <2> QED BY <2>1, <1>e, JoinOfIs
<1>5. k \in Seq(FreeBlock) /\ Len(k) = Len(l) /\ \A j \in 1..Len(l) : k[j] = IF j = i THEN e ELSE l[j]
  BY <1>0, <1>1, <1>4, SeqReplaced
<1>6. m \in Seq(FreeBlock) /\ Len(m) = Len(l) - 1
      /\ \A j \in 1..(Len(l) - 1) : m[j] = IF j < i + 1 THEN k[j] ELSE k[j + 1]
  <2>1. i + 1 \in 1..Len(k)
    BY <1>0, <1>5
  <2>2. /\ RemoveAt(k, i + 1) \in Seq(FreeBlock) /\ Len(RemoveAt(k, i + 1)) = Len(k) - 1
        /\ \A j \in 1..(Len(k) - 1) : RemoveAt(k, i + 1)[j] = IF j < i + 1 THEN k[j] ELSE k[j + 1]
    BY <2>1, <1>5, RemoveAtElements, Zenon
  <2> QED BY <2>2, <1>2, <1>5, Zenon
<1>7. ASSUME NEW j \in 1..Len(m)
      PROVE  /\ j < i => j \in 1..Len(l) /\ m[j] = l[j]
             /\ j = i => m[j] = e
             /\ j > i => j + 1 \in 1..Len(l) /\ m[j] = l[j + 1]
  <2>1. j \in 1..Len(l) /\ j + 1 \in 1..Len(l) /\ j \in 1..(Len(l) - 1)
    BY <1>0, <1>6
  <2> QED BY <2>1, <1>0, <1>5, <1>6
<1>8. \A p, q \in 1..Len(l) :
         p < q => BlockEnd(l[p]) < l[q].addr \/ (p = i /\ q = i + 1 /\ BlockEnd(l[p]) = l[q].addr)
  BY <1>0 DEF LooseAt
<1>9. Apart(m)
  <2>1. ASSUME NEW p \in 1..Len(m), NEW q \in 1..Len(m), p < q PROVE BlockEnd(m[p]) < m[q].addr
    <3>0. p \in Int /\ q \in Int
      OBVIOUS
    <3>1. CASE q < i
      <4>1. p < i /\ m[p] = l[p] /\ m[q] = l[q] /\ p \in 1..Len(l) /\ q \in 1..Len(l)
        BY <1>7, <2>1, <3>0, <3>1
      <4>2. q # i + 1
        BY <3>0, <3>1, <1>0
      <4> QED BY <4>1, <4>2, <2>1, <1>8, Zenon
    <3>2. CASE q = i
      <4>1. m[p] = l[p] /\ p \in 1..Len(l) /\ m[q] = e /\ p < i
        BY <1>7, <2>1, <3>0, <3>2
      <4>2. BlockEnd(l[p]) < l[i].addr
        BY <4>1, <1>0, <1>8
      <4> QED BY <4>1, <4>2, <1>4
    <3>3. CASE p = i
      <4>1. m[p] = e /\ m[q] = l[q + 1] /\ q + 1 \in 1..Len(l) /\ i + 1 < q + 1 /\ i + 1 # i
        BY <1>7, <2>1, <3>0, <3>3
      <4>2. BlockEnd(l[i + 1]) < l[q + 1].addr
        BY <4>1, <1>0, <1>8
      <4> QED BY <4>1, <4>2, <1>4
    <3>4. CASE p < i /\ q > i
      <4>1. m[p] = l[p] /\ m[q] = l[q + 1] /\ p \in 1..Len(l) /\ q + 1 \in 1..Len(l) /\ p < q + 1 /\ p # i
        BY <1>7, <2>1, <3>0, <3>4
      <4> QED BY <4>1, <1>8
    <3>5. CASE p > i
      <4>1. m[p] = l[p + 1] /\ m[q] = l[q + 1] /\ p + 1 \in 1..Len(l) /\ q + 1 \in 1..Len(l)
            /\ p + 1 < q + 1 /\ p + 1 # i
        BY <1>7, <2>1, <3>0, <3>5
      <4> QED BY <4>1, <1>8
    <3> QED BY <3>0, <3>1, <3>2, <3>3, <3>4, <3>5, <1>0
  <2> QED BY <2>1, <1>6 DEF Apart, LooseAt
<1>10. ASSUME NEW x \in Int
       PROVE  IsFree(m, x) <=> IsFree(l, x)
  <2>0. InBlock(x, e) <=> InBlock(x, l[i]) \/ InBlock(x, l[i + 1])
    BY <1>0, <1>3, <1>4, <1>t DEF InBlock
  <2>1. ASSUME NEW j \in 1..Len(m), InBlock(x, m[j]) PROVE IsFree(l, x)
    <3>1. CASE j < i
      BY <2>1, <3>1, <1>7 DEF IsFree
    <3>2. CASE j = i
      <4>1. InBlock(x, e)
        BY <2>1, <3>2, <1>7
      <4> QED BY <4>1, <2>0, <1>0 DEF IsFree
    <3>3. CASE j > i
      BY <2>1, <3>3, <1>7 DEF IsFree
    <3> QED BY <3>1, <3>2, <3>3
  <2>2. ASSUME NEW j \in 1..Len(l), InBlock(x, l[j]) PROVE IsFree(m, x)
    <3>1. CASE j = i \/ j = i + 1
      <4>1. i \in 1..Len(m) /\ m[i] = e
        BY <1>0, <1>6, <1>7
      <4> QED BY <4>1, <3>1, <2>0, <2>2 DEF IsFree
    <3>2. CASE j < i
      <4>1. j \in 1..Len(m) /\ m[j] = l[j]
        <5>1. j \in 1..Len(m)
          BY <3>2, <1>0, <1>6
        <5> QED BY <5>1, <3>2, <1>7
      <4> QED BY <4>1, <2>2 DEF IsFree
    <3>3. CASE j > i + 1
      <4>1. j - 1 \in 1..Len(m) /\ j - 1 > i
        BY <3>3, <1>0, <1>6
      <4>2. m[j - 1] = l[j]
        <5>1. m[j - 1] = l[(j - 1) + 1]
          BY <4>1, <1>7
        <5> QED BY <5>1
      <4> QED BY <4>1, <4>2, <2>2 DEF IsFree
    <3> QED BY <3>1, <3>2, <3>3, <1>0
  <2> QED BY <2>1, <2>2 DEF IsFree
<1> QED BY <1>1, <1>2, <1>9, <1>10, <1>e DEF JoinedAt
(* What freemem does after it has put a block in, or made one longer, at i. *)
JoinedUp(l, i) ==
  IF i < Len(l) /\ BlockEnd(l[i]) = l[i + 1].addr
  THEN RemoveAt([l EXCEPT ![i].len = @ + l[i + 1].len], i + 1)
  ELSE l

LEMMA JoinedUpIs ==
  ASSUME NEW l, NEW i \in 1..Len(l), LooseAt(l, i)
  PROVE  /\ Apart(JoinedUp(l, i))
         /\ \A x \in Int : IsFree(JoinedUp(l, i), x) <=> IsFree(l, x)
PROOF
<1>0. l \in Seq(FreeBlock) /\ Len(l) \in Nat
  BY DEF LooseAt
<1>1. CASE i < Len(l) /\ BlockEnd(l[i]) = l[i + 1].addr
  <2>1. i \in 1..(Len(l) - 1) /\ l[i] \in FreeBlock
    BY <1>0, <1>1
  <2>2. [l EXCEPT ![i].len = @ + l[i + 1].len] = [l EXCEPT ![i] = JoinOf(l[i], l[i + 1])]
    <3>1. [l[i] EXCEPT !.len = @ + l[i + 1].len] = JoinOf(l[i], l[i + 1])
      BY <2>1 DEF FreeBlock, JoinOf
    <3> QED BY <3>1
  <2>3. JoinedUp(l, i) = JoinedAt(l, i)
    BY <1>1, <2>2 DEF JoinedUp, JoinedAt
  <2>4. Touch(l[i], l[i + 1])
    BY <1>1 DEF Touch
  <2> QED BY <2>1, <2>3, <2>4, BlocksJoin
<1>2. CASE ~(i < Len(l) /\ BlockEnd(l[i]) = l[i + 1].addr)
  <2>1. JoinedUp(l, i) = l
    BY <1>2 DEF JoinedUp
  <2>2. Apart(l)
    <3>1. ASSUME NEW p \in 1..Len(l), NEW q \in 1..Len(l), p < q PROVE BlockEnd(l[p]) < l[q].addr
      <4>1. p = i /\ q = i + 1 => i < Len(l)
        BY <1>0
      <4> QED BY <3>1, <4>1, <1>2 DEF LooseAt
    <3> QED BY <3>1, <1>0 DEF Apart, LooseAt
  <2> QED BY <2>1, <2>2
<1> QED BY <1>1, <1>2

LEMMA PrevIs ==
  ASSUME Apart(memlist), NEW a \in Int
  PROVE  /\ PrevIdx(a) \in 0..Len(memlist)
         /\ \A j \in 1..PrevIdx(a) : memlist[j].addr < a
         /\ \A j \in (PrevIdx(a) + 1)..Len(memlist) : memlist[j].addr >= a
PROOF
<1> DEFINE B == BlocksBefore(a)
           k == Cardinality(B)
<1>0. memlist \in Seq(FreeBlock) /\ Len(memlist) \in Nat /\ DOMAIN memlist = 1..Len(memlist)
  BY DEF Apart, LooseAt
<1>1. \A j \in 1..Len(memlist) : {memlist[j].addr, BlockEnd(memlist[j])} \subseteq Nat
                                 /\ memlist[j].addr < BlockEnd(memlist[j])
  BY <1>0, BlockIs
<1>2. \A p, q \in 1..Len(memlist) : p < q => BlockEnd(memlist[p]) < memlist[q].addr
  BY <1>0 DEF Apart, LooseAt
<1>3. B \subseteq 1..Len(memlist) /\ \A j \in 1..Len(memlist) : j \in B <=> memlist[j].addr < a
  BY <1>0 DEF BlocksBefore
<1>4. IsFiniteSet(B) /\ k \in Nat /\ k <= Len(memlist)
  <2>1. IsFiniteSet(1..Len(memlist)) /\ Cardinality(1..Len(memlist)) = Len(memlist)
    BY <1>0, FS_Interval
  <2> QED BY <2>1, <1>3, FS_Subset, FS_CardinalityType
<1> HIDE DEF B
<1>5. ASSUME NEW j \in B PROVE j <= k
  <2>1. 1..j \subseteq B
    <3>1. ASSUME NEW i \in 1..j PROVE i \in B
      <4>1. i \in 1..Len(memlist) /\ j \in 1..Len(memlist) /\ (i = j \/ i < j)
        BY <1>0, <1>3
      <4>2. i < j => memlist[i].addr < memlist[j].addr
        BY <4>1, <1>1, <1>2
      <4>3. {memlist[i].addr, memlist[j].addr} \subseteq Nat /\ memlist[j].addr < a
        BY <4>1, <1>1, <1>3
      <4>4. i < j => memlist[i].addr < a
        BY <4>2, <4>3
      <4> QED BY <4>1, <4>4, <1>3
    <3> QED BY <3>1
  <2>2. j \in Nat /\ j >= 1
    BY <1>0, <1>3
  <2>3. Cardinality(1..j) = j
    BY <2>2, FS_Interval
  <2>4. Cardinality(1..j) <= Cardinality(B)
    BY <2>1, <1>4, FS_Subset
  <2> QED BY <2>2, <2>3, <2>4, <1>4
<1>6. B = 1..k
  <2>1. B \subseteq 1..k
    BY <1>3, <1>4, <1>5
  <2>2. IsFiniteSet(1..k) /\ Cardinality(1..k) = k
    BY <1>4, FS_Interval
  <2> QED BY <2>1, <2>2, FS_Subset
<1>7. \A j \in 1..k : memlist[j].addr < a
  BY <1>3, <1>6
<1>8. ASSUME NEW j \in (k + 1)..Len(memlist) PROVE memlist[j].addr >= a
  <2>1. j \in 1..Len(memlist) /\ j \notin B
    BY <1>4, <1>5, <1>0
  <2>2. memlist[j].addr \in Nat /\ ~(memlist[j].addr < a)
    BY <2>1, <1>1, <1>3
  <2> QED BY <2>2
<1>9. PrevIdx(a) = k
  BY DEF PrevIdx, B
<1> QED BY <1>4, <1>7, <1>8, <1>9

LEMMA FreedIs ==
  ASSUME Apart(memlist), NEW a \in Nat \ {0}, NEW n \in Nat \ {0}, ~Overlaps(a, n)
  PROVE  /\ Apart(Freed(a, n))
         /\ \A x \in Int : IsFree(Freed(a, n), x) <=> IsFree(memlist, x) \/ (a <= x /\ x < a + n)
PROOF
<1>0. memlist \in Seq(FreeBlock) /\ Len(memlist) \in Nat
  BY DEF Apart, LooseAt
<1>1. PICK k : k = PrevIdx(a)
  OBVIOUS
<1>2. /\ k \in 0..Len(memlist) /\ NextIdx(a) = k + 1
      /\ \A j \in 1..k : memlist[j].addr < a
      /\ \A j \in (k + 1)..Len(memlist) : memlist[j].addr >= a
  <2>1. /\ PrevIdx(a) \in 0..Len(memlist)
        /\ \A j \in 1..PrevIdx(a) : memlist[j].addr < a
        /\ \A j \in (PrevIdx(a) + 1)..Len(memlist) : memlist[j].addr >= a
    <3>1. a \in Int /\ Apart(memlist)
      OBVIOUS
    <3> QED BY ONLY <3>1, PrevIs
  <2> QED BY <2>1, <1>1, Zenon DEF NextIdx
<1>3. \A j \in 1..Len(memlist) : {memlist[j].addr, BlockEnd(memlist[j])} \subseteq Nat
                                 /\ memlist[j].addr < BlockEnd(memlist[j])
  BY <1>0, BlockIs
<1>4. \A p, q \in 1..Len(memlist) : p < q => BlockEnd(memlist[p]) < memlist[q].addr
  BY <1>0 DEF Apart, LooseAt
<1>5. k > 0 => k \in 1..Len(memlist) /\ BlockEnd(memlist[k]) <= a
  <2>1. k > 0 => k \in 1..Len(memlist) /\ ~(a < BlockEnd(memlist[k]))
    BY <1>0, <1>1, <1>2 DEF Overlaps
  <2> QED BY <2>1, <1>3
<1>6. k < Len(memlist) => k + 1 \in 1..Len(memlist) /\ a + n <= memlist[k + 1].addr
  <2>1. k < Len(memlist) => k + 1 \in 1..Len(memlist) /\ ~(a + n > memlist[k + 1].addr)
    BY <1>0, <1>1, <1>2 DEF Overlaps
  <2>2. k < Len(memlist) => memlist[k + 1].addr \in Nat
    BY <2>1, <1>3
  <2> QED BY <2>1, <2>2
<1> DEFINE joins == k > 0 /\ BlockEnd(memlist[k]) = a
           grown == [memlist EXCEPT ![k].len = @ + n]
           put == InsertAt(memlist, k + 1, [addr |-> a, len |-> n])
<1>7. Freed(a, n) = IF joins THEN JoinedUp(grown, k) ELSE JoinedUp(put, k + 1)
  <2>1. NextIdx(a) = PrevIdx(a) + 1 /\ joins = (PrevIdx(a) > 0 /\ BlockEnd(memlist[PrevIdx(a)]) = a)
    BY <1>1, <1>2
  <2>2. CASE joins
    BY <2>1, <2>2, <1>1 DEF Freed, JoinedUp
  <2>3. CASE ~joins
    BY <2>1, <2>3, <1>1 DEF Freed, JoinedUp
  <2> QED BY <2>2, <2>3
<1>8. CASE joins
  <2>1. PICK e : e = [addr |-> memlist[k].addr, len |-> memlist[k].len + n]
    OBVIOUS
  <2>2. k \in 1..Len(memlist) /\ memlist[k] \in FreeBlock /\ BlockEnd(memlist[k]) = a
    BY <1>0, <1>5, <1>8
  <2>3. grown = [memlist EXCEPT ![k] = e]
    <3>1. [memlist[k] EXCEPT !.len = @ + n] = e
      BY <2>1, <2>2 DEF FreeBlock
    <3> QED BY <3>1
  <2>4. BlockEnd(e) = a + n
    BY <2>1, <2>2 DEF BlockEnd, FreeBlock
  <2>5. LooseAt(grown, k) /\ \A x \in Int : IsFree(grown, x) <=> IsFree(memlist, x) \/ (a <= x /\ x < a + n)
    <3> HIDE DEF grown
    <3>1. k < Len(memlist) => BlockEnd(e) <= memlist[k + 1].addr
      BY <2>4, <1>6
    <3>2. PICK m : m = [memlist EXCEPT ![k] = e]
      OBVIOUS
    <3>3. LooseAt(m, k) /\ \A x \in Int : IsFree(m, x)
            <=> IsFree(memlist, x) \/ (BlockEnd(memlist[k]) <= x /\ x < BlockEnd(memlist[k]) + n)
      BY <2>1, <2>2, <3>1, <3>2, BlockGrows, Zenon
    <3> QED BY <2>2, <2>3, <3>2, <3>3, Zenon
  <2>6. Len(grown) = Len(memlist)
    OBVIOUS
  <2>7. Apart(JoinedUp(grown, k)) /\ \A x \in Int : IsFree(JoinedUp(grown, k), x) <=> IsFree(grown, x)
    <3> HIDE DEF grown
    <3> QED BY <2>2, <2>5, <2>6, JoinedUpIs
  <2>8. Freed(a, n) = JoinedUp(grown, k)
    BY <1>7, <1>8
  <2> HIDE DEF grown
  <2> QED BY <2>5, <2>7, <2>8
<1>9. CASE ~joins
  <2>1. PICK e : e = [addr |-> a, len |-> n]
    OBVIOUS
  <2>2. e \in FreeBlock /\ BlockEnd(e) = a + n /\ \A x \in Int : InBlock(x, e) <=> a <= x /\ x < a + n
    BY <2>1 DEF FreeBlock, BlockEnd, InBlock
  <2>3. ASSUME NEW j \in 1..((k + 1) - 1) PROVE BlockEnd(memlist[j]) < e.addr
    <3>1. j \in 1..Len(memlist) /\ k \in 1..Len(memlist) /\ (j = k \/ j < k) /\ k > 0
      BY <1>0, <1>2
    <3>2. BlockEnd(memlist[k]) <= a /\ BlockEnd(memlist[k]) # a
      BY <3>1, <1>5, <1>9
    <3>3. j < k => BlockEnd(memlist[j]) < memlist[k].addr
      BY <3>1, <1>4
    <3>4. {memlist[k].addr, BlockEnd(memlist[k]), BlockEnd(memlist[j])} \subseteq Nat
          /\ memlist[k].addr < BlockEnd(memlist[k])
      BY <3>1, <1>3
    <3>5. BlockEnd(memlist[k]) < a
      BY <3>2, <3>4
    <3>6. j < k => BlockEnd(memlist[j]) < a
      BY <3>3, <3>4, <3>5
    <3> QED BY <3>1, <3>5, <3>6, <2>1
  <2>4. ASSUME NEW j \in (k + 1)..Len(memlist) PROVE BlockEnd(e) <= memlist[j].addr
    <3>1. j \in 1..Len(memlist) /\ k + 1 \in 1..Len(memlist) /\ (j = k + 1 \/ k + 1 < j) /\ k < Len(memlist)
      BY <1>0, <1>2
    <3>2. a + n <= memlist[k + 1].addr
      BY <3>1, <1>6
    <3>3. k + 1 < j => BlockEnd(memlist[k + 1]) < memlist[j].addr
      BY <3>1, <1>4
    <3>4. {memlist[k + 1].addr, BlockEnd(memlist[k + 1]), memlist[j].addr} \subseteq Nat
          /\ memlist[k + 1].addr < BlockEnd(memlist[k + 1])
      BY <3>1, <1>3
    <3>5. k + 1 < j => a + n <= memlist[j].addr
      BY <3>2, <3>3, <3>4
    <3> QED BY <3>1, <3>2, <3>5, <2>2
  <2>5. k + 1 \in 1..(Len(memlist) + 1)
    BY <1>0, <1>2
  <2>6. LooseAt(put, k + 1) /\ \A x \in Int : IsFree(put, x) <=> IsFree(memlist, x) \/ InBlock(x, e)
    BY <2>1, <2>2, <2>3, <2>4, <2>5, BlockComes
  <2>7. k + 1 \in 1..Len(put)
    <3>1. Len(put) = Len(memlist) + 1
      BY <2>1, <2>2, <2>5, <1>0, InsertAtElements
    <3> QED BY <3>1, <2>5
  <2> HIDE DEF put
  <2>8. Apart(JoinedUp(put, k + 1)) /\ \A x \in Int : IsFree(JoinedUp(put, k + 1), x) <=> IsFree(put, x)
    BY <2>6, <2>7, JoinedUpIs
  <2>9. Freed(a, n) = JoinedUp(put, k + 1)
    BY <1>7, <1>9
  <2> QED BY <2>2, <2>6, <2>8, <2>9
<1> QED BY <1>8, <1>9
-----------------------------------------------------------------------------
InHeld(x, h) == BlockBase(h) <= x /\ x < BlockBase(h) + roundmb(h.bytes)

HeapInv ==
  /\ Apart(memlist)
  /\ \A h \in held : BlockBase(h) \in Nat \ {0} /\ roundmb(h.bytes) \in Nat \ {0}
  /\ \A x \in Int : IsFree(Areas, x) <=> IsFree(memlist, x) \/ \E h \in held : InHeld(x, h)
  /\ \A x \in Int : \A h \in held : InHeld(x, h) => ~IsFree(memlist, x)
  /\ \A x \in Int : \A g, h \in held : InHeld(x, g) /\ InHeld(x, h) => g = h

LEMMA RoundedUp ==
  ASSUME NEW n \in Nat, n > 0
  PROVE  roundmb(n) \in Nat \ {0}
PROOF
<1>1. PICK q : q = (n + ALIGN - 1) \div ALIGN
  OBVIOUS
<1>2. ALIGN \in Nat /\ ALIGN > 0
  BY HeapLayout
<1>3. q \in Int /\ ALIGN * q <= n + ALIGN - 1 /\ n + ALIGN - 1 < ALIGN * q + ALIGN
  BY <1>1, <1>2
<1>4. q > 0
  BY <1>2, <1>3
<1>5. q * ALIGN \in Nat \ {0}
  BY <1>2, <1>3, <1>4
<1> QED BY <1>1, <1>5 DEF roundmb

(* The areas of meminit are apart. *)
LEMMA AreasApart == Apart(Areas)
PROOF
<1>1. Areas \in Seq(FreeBlock) /\ Len(Areas) \in Nat
  BY HeapLayout DEF FreeBlock
<1>2. \A j \in 1..Len(Areas) : {Areas[j].addr, BlockEnd(Areas[j])} \subseteq Nat
                               /\ Areas[j].addr < BlockEnd(Areas[j])
  BY <1>1, BlockIs
<1>3. \A j \in 1..(Len(Areas) - 1) : BlockEnd(Areas[j]) < Areas[j + 1].addr
  BY HeapLayout DEF BlockEnd
<1>4. ASSUME NEW p \in 1..Len(Areas),
             {q \in 1..Len(Areas) : p < q /\ ~(BlockEnd(Areas[p]) < Areas[q].addr)} # {}
      PROVE  FALSE
  <2> DEFINE S == {q \in 1..Len(Areas) : p < q /\ ~(BlockEnd(Areas[p]) < Areas[q].addr)}
  <2>1. S \in SUBSET Nat /\ S # {}
    BY <1>1, <1>4
  <2>2. PICK q \in S : \A r \in S : q <= r
    <3> HIDE DEF S
    <3> QED BY <2>1, LeastExists
  <2>3. /\ q - 1 \in 1..Len(Areas) /\ q - 1 \in 1..(Len(Areas) - 1) /\ q - 1 \notin S /\ q = (q - 1) + 1
        /\ (p = q - 1 \/ p < q - 1) /\ q \in 1..Len(Areas)
    BY <2>2, <1>1
  <2>4. BlockEnd(Areas[q - 1]) < Areas[q].addr
    <3>1. BlockEnd(Areas[q - 1]) < Areas[(q - 1) + 1].addr
      BY <2>3, <1>3
    <3> QED BY <3>1, <2>3
  <2>5. ~(BlockEnd(Areas[p]) < Areas[q].addr)
    BY <2>2
  <2>6. p < q - 1 => BlockEnd(Areas[p]) < Areas[q - 1].addr
    BY <2>3
  <2>7. {BlockEnd(Areas[p]), Areas[q - 1].addr, BlockEnd(Areas[q - 1]), Areas[q].addr} \subseteq Nat
        /\ Areas[q - 1].addr < BlockEnd(Areas[q - 1])
    BY <2>3, <1>2
  <2>8. p < q - 1 => BlockEnd(Areas[p]) < Areas[q].addr
    BY <2>4, <2>6, <2>7
  <2> QED BY <2>3, <2>4, <2>5, <2>8
<1> QED BY <1>1, <1>4 DEF Apart, LooseAt

LEMMA HeapInitially == HeapInit => HeapInv
PROOF BY AreasApart DEF HeapInit, HeapInv

LEMMA LeastIndex ==
  ASSUME NEW n \in Nat, NEW S \in SUBSET (1..n), S # {}
  PROVE  Min(S) \in S
PROOF
<1>1. S \in SUBSET Nat
  OBVIOUS
<1>2. \E x \in S : \A y \in S : x <= y
  BY <1>1, LeastExists
<1> QED BY <1>2 DEF Min

LEMMA GreatestIndex ==
  ASSUME NEW n \in Nat, NEW S \in SUBSET (1..n), S # {}
  PROVE  Max(S) \in S
PROOF
<1> DEFINE T == {n - y : y \in S}
<1>1. T \in SUBSET Nat /\ T # {}
  <2>1. \A y \in S : n - y \in Nat
    OBVIOUS
  <2> QED BY <2>1
<1>2. PICK t \in T : \A y \in T : t <= y
  <2> HIDE DEF T
  <2> QED BY <1>1, LeastExists
<1>3. PICK x \in S : t = n - x
  BY <1>2
<1>4. ASSUME NEW y \in S PROVE x >= y
  <2>1. n - y \in T
    OBVIOUS
  <2>2. t <= n - y
    BY <1>2, <2>1
  <2> QED BY <1>3, <2>2
<1> QED BY <1>4 DEF Max

(* A caller gets n bytes at a, which were free, and are not now. *)
LEMMA HeldMore ==
  ASSUME HeapInv, NEW h, NEW a \in Nat \ {0}, NEW n \in Nat \ {0},
         BlockBase(h) = a, roundmb(h.bytes) = n, held' = held \cup {h},
         Apart(memlist'),
         \A x \in Int : a <= x /\ x < a + n => IsFree(memlist, x),
         \A x \in Int : IsFree(memlist', x) <=> IsFree(memlist, x) /\ ~(a <= x /\ x < a + n)
  PROVE  HeapInv'
PROOF
<1>1. \A x \in Int : InHeld(x, h) <=> a <= x /\ x < a + n
  BY DEF InHeld
<1>2. \A g \in held' : BlockBase(g) \in Nat \ {0} /\ roundmb(g.bytes) \in Nat \ {0}
  BY DEF HeapInv
<1>3. ASSUME NEW x \in Int
      PROVE  IsFree(Areas, x) <=> IsFree(memlist', x) \/ \E g \in held' : InHeld(x, g)
  <2>1. (\E g \in held' : InHeld(x, g)) <=> (\E g \in held : InHeld(x, g)) \/ InHeld(x, h)
    OBVIOUS
  <2> QED BY <2>1, <1>1 DEF HeapInv
<1>4. ASSUME NEW x \in Int, NEW g \in held', InHeld(x, g) PROVE ~IsFree(memlist', x)
  BY <1>1, <1>4 DEF HeapInv
<1>5. ASSUME NEW x \in Int, NEW f \in held', NEW g \in held', InHeld(x, f), InHeld(x, g) PROVE f = g
  <2>1. \A k \in held : ~(InHeld(x, k) /\ InHeld(x, h))
    BY <1>1 DEF HeapInv
  <2> QED BY <2>1, <1>5 DEF HeapInv
<1> QED BY <1>2, <1>3, <1>4, <1>5 DEF HeapInv, InHeld

(* A caller gives back what it holds. *)
LEMMA HeldLess ==
  ASSUME HeapInv, NEW h \in held, held' = held \ {h}, Apart(memlist'),
         \A x \in Int : IsFree(memlist', x) <=> IsFree(memlist, x) \/ InHeld(x, h)
  PROVE  HeapInv'
PROOF
<1>1. ASSUME NEW x \in Int
      PROVE  IsFree(Areas, x) <=> IsFree(memlist', x) \/ \E g \in held' : InHeld(x, g)
  <2>1. (\E g \in held : InHeld(x, g)) <=> (\E g \in held' : InHeld(x, g)) \/ InHeld(x, h)
    OBVIOUS
  <2> QED BY <2>1 DEF HeapInv
<1>2. ASSUME NEW x \in Int, NEW g \in held', InHeld(x, g) PROVE ~IsFree(memlist', x)
  BY <1>2 DEF HeapInv
<1>3. ASSUME NEW x \in Int, NEW f \in held', NEW g \in held', InHeld(x, f), InHeld(x, g) PROVE f = g
  BY <1>3 DEF HeapInv
<1>4. \A g \in held' : BlockBase(g) \in Nat \ {0} /\ roundmb(g.bytes) \in Nat \ {0}
  BY DEF HeapInv
<1> QED BY <1>1, <1>2, <1>3, <1>4 DEF HeapInv, InHeld

LEMMA HeapFacts ==
  ASSUME HeapInv
  PROVE  /\ Apart(memlist) /\ memlist \in Seq(FreeBlock) /\ Len(memlist) \in Nat /\ DOMAIN memlist = 1..Len(memlist)
         /\ \A i \in 1..Len(memlist) :
              /\ memlist[i] \in FreeBlock /\ {memlist[i].addr, memlist[i].len} \subseteq Nat
              /\ memlist[i].addr > 0 /\ memlist[i].len > 0
              /\ BlockEnd(memlist[i]) = memlist[i].addr + memlist[i].len
PROOF
<1>1. Apart(memlist) /\ memlist \in Seq(FreeBlock)
  BY DEF HeapInv, Apart, LooseAt
<1> QED BY <1>1, BlockIs

LEMMA GetmemKeeps ==
  ASSUME HeapInv, NEW bytes \in Nat, getmem(bytes)
  PROVE  HeapInv'
PROOF
<1>1. PICK n : n = roundmb(bytes)
  OBVIOUS
<1>2. PICK i : i = Min(FitsIdx(n))
  OBVIOUS
<1>3. /\ bytes > 0 /\ FitsIdx(n) # {} /\ memlist' = WithoutLow(i, n)
      /\ held' = held \cup {[kind |-> "mem", ptr |-> memlist[i].addr, bytes |-> bytes]}
  BY <1>1, <1>2 DEF getmem
<1>4. n \in Nat \ {0}
  BY <1>1, <1>3, RoundedUp
<1>5. i \in 1..Len(memlist) /\ memlist[i].len >= n
  <2>1. FitsIdx(n) \in SUBSET (1..Len(memlist))
    BY HeapFacts DEF FitsIdx
  <2>2. i \in FitsIdx(n)
    BY <1>2, <1>3, <2>1, HeapFacts, LeastIndex
  <2> QED BY <2>1, <2>2 DEF FitsIdx
<1>6. PICK a, len : a = memlist[i].addr /\ len = memlist[i].len
  OBVIOUS
<1>7. /\ a \in Nat \ {0} /\ len \in Nat \ {0} /\ len >= n
      /\ BlockEnd(memlist[i]) = a + len /\ memlist[i] = [addr |-> a, len |-> len]
  <2>1. memlist[i] \in FreeBlock
    BY <1>5, HeapFacts
  <2> QED BY <1>5, <1>6, <2>1 DEF FreeBlock, BlockEnd
<1>8. /\ Apart(memlist')
      /\ \A x \in Int : IsFree(memlist', x) <=> IsFree(memlist, x) /\ ~(a <= x /\ x < a + n)
  <2>1. CASE len = n
    <3>1. memlist' = RemoveAt(memlist, i)
      BY <1>3, <1>6, <2>1 DEF WithoutLow
    <3>2. \A x \in Int : InBlock(x, memlist[i]) <=> (a <= x /\ x < a + n)
      BY <1>7, <2>1 DEF InBlock
    <3> QED BY <3>1, <3>2, <1>5, HeapFacts, BlockGoes
  <2>2. CASE len # n
    <3>1. PICK e : e = [addr |-> a + n, len |-> len - n]
      OBVIOUS
    <3>2. memlist' = [memlist EXCEPT ![i] = e]
      BY <1>3, <1>6, <2>2, <3>1 DEF WithoutLow
    <3>3. e \in FreeBlock /\ e.addr = a + n /\ BlockEnd(e) = a + len
      BY <1>4, <1>7, <2>2, <3>1 DEF FreeBlock, BlockEnd
    <3>4. e.addr >= memlist[i].addr /\ BlockEnd(e) <= BlockEnd(memlist[i])
      BY <1>4, <1>6, <1>7, <3>3
    <3>5. PICK m : m = [memlist EXCEPT ![i] = e]
      OBVIOUS
    <3>6. /\ Apart(m)
          /\ \A x \in Int : IsFree(m, x) <=> (IsFree(memlist, x) /\ ~InBlock(x, memlist[i])) \/ InBlock(x, e)
      BY <3>3, <3>4, <3>5, <1>5, HeapFacts, BlockShrinks, Zenon
    <3>7. \A x \in Int : /\ InBlock(x, memlist[i]) <=> a <= x /\ x < a + len
                         /\ InBlock(x, e) <=> a + n <= x /\ x < a + len
      BY <1>7, <3>3 DEF InBlock, BlockEnd
    <3>8. \A x \in Int : a + n <= x /\ x < a + len => IsFree(memlist, x)
      <4>1. \A x \in Int : a + n <= x /\ x < a + len => InBlock(x, memlist[i])
        BY <3>7, <1>4, <1>7
      <4> QED BY <4>1, <1>5 DEF IsFree
    <3>9. \A x \in Int : IsFree(m, x) <=> IsFree(memlist, x) /\ ~(a <= x /\ x < a + n)
      BY <3>6, <3>7, <3>8, <1>4, <1>7
    <3> QED BY <3>2, <3>5, <3>6, <3>9, Zenon
  <2> QED BY <2>1, <2>2
<1>9. PICK h : h = [kind |-> "mem", ptr |-> a, bytes |-> bytes]
  OBVIOUS
<1>10. BlockBase(h) = a /\ roundmb(h.bytes) = n /\ held' = held \cup {h}
  BY <1>1, <1>3, <1>6, <1>9 DEF BlockBase
<1>11. \A x \in Int : a <= x /\ x < a + n => IsFree(memlist, x)
  <2>1. \A x \in Int : a <= x /\ x < a + n => InBlock(x, memlist[i])
    BY <1>4, <1>7 DEF InBlock
  <2> QED BY <2>1, <1>5 DEF IsFree
<1> QED BY <1>4, <1>7, <1>8, <1>10, <1>11, HeldMore

LEMMA GetstkKeeps ==
  ASSUME HeapInv, NEW bytes \in Nat, getstk(bytes)
  PROVE  HeapInv'
PROOF
<1>1. PICK n : n = roundmb(bytes)
  OBVIOUS
<1>2. PICK i : i = Max(FitsIdx(n))
  OBVIOUS
<1>3. /\ bytes > 0 /\ FitsIdx(n) # {} /\ memlist' = WithoutHigh(i, n)
      /\ held' = held \cup {[kind |-> "stk", ptr |-> StackTop(memlist[i], n), bytes |-> bytes]}
  BY <1>1, <1>2 DEF getstk
<1>4. n \in Nat \ {0}
  BY <1>1, <1>3, RoundedUp
<1>5. i \in 1..Len(memlist) /\ memlist[i].len >= n
  <2>1. FitsIdx(n) \in SUBSET (1..Len(memlist))
    BY HeapFacts DEF FitsIdx
  <2>2. i \in FitsIdx(n)
    BY <1>2, <1>3, <2>1, HeapFacts, GreatestIndex
  <2> QED BY <2>1, <2>2 DEF FitsIdx
<1>6. PICK b, len : b = memlist[i].addr /\ len = memlist[i].len
  OBVIOUS
<1>7. /\ b \in Nat \ {0} /\ len \in Nat \ {0} /\ len >= n
      /\ BlockEnd(memlist[i]) = b + len /\ memlist[i] = [addr |-> b, len |-> len]
  <2>1. memlist[i] \in FreeBlock
    BY <1>5, HeapFacts
  <2> QED BY <1>5, <1>6, <2>1 DEF FreeBlock, BlockEnd
<1>0. PICK a : a = b + len - n
  OBVIOUS
<1>00. a \in Nat \ {0} /\ a >= b /\ a + n = b + len
  BY <1>0, <1>4, <1>7
<1>8. /\ Apart(memlist')
      /\ \A x \in Int : IsFree(memlist', x) <=> IsFree(memlist, x) /\ ~(a <= x /\ x < a + n)
  <2>1. CASE len = n
    <3>1. memlist' = RemoveAt(memlist, i)
      BY <1>3, <1>6, <2>1 DEF WithoutHigh
    <3>2. \A x \in Int : InBlock(x, memlist[i]) <=> (a <= x /\ x < a + n)
      BY <1>7, <1>0, <2>1 DEF InBlock
    <3> QED BY <3>1, <3>2, <1>5, HeapFacts, BlockGoes
  <2>2. CASE len # n
    <3>1. PICK e : e = [addr |-> b, len |-> len - n]
      OBVIOUS
    <3>2. memlist' = [memlist EXCEPT ![i] = e]
      <4>1. memlist' = [memlist EXCEPT ![i].len = @ - n]
        BY <1>3, <1>6, <2>2 DEF WithoutHigh
      <4>2. [memlist[i] EXCEPT !.len = @ - n] = e
        BY <1>7, <3>1
      <4> QED BY <4>1, <4>2
    <3>3. e \in FreeBlock /\ e.addr = b /\ BlockEnd(e) = a
      BY <1>0, <1>4, <1>7, <2>2, <3>1 DEF FreeBlock, BlockEnd
    <3>4. e.addr >= memlist[i].addr /\ BlockEnd(e) <= BlockEnd(memlist[i])
      BY <1>00, <1>4, <1>6, <1>7, <3>3
    <3>5. PICK m : m = [memlist EXCEPT ![i] = e]
      OBVIOUS
    <3>6. /\ Apart(m)
          /\ \A x \in Int : IsFree(m, x) <=> (IsFree(memlist, x) /\ ~InBlock(x, memlist[i])) \/ InBlock(x, e)
      BY <3>3, <3>4, <3>5, <1>5, HeapFacts, BlockShrinks, Zenon
    <3>7. \A x \in Int : /\ InBlock(x, memlist[i]) <=> b <= x /\ x < b + len
                         /\ InBlock(x, e) <=> b <= x /\ x < a
      BY <1>7, <3>3 DEF InBlock, BlockEnd
    <3>8. \A x \in Int : b <= x /\ x < a => IsFree(memlist, x)
      <4>1. \A x \in Int : b <= x /\ x < a => InBlock(x, memlist[i])
        BY <3>7, <1>00, <1>4, <1>7
      <4> QED BY <4>1, <1>5 DEF IsFree
    <3>9. \A x \in Int : IsFree(m, x) <=> IsFree(memlist, x) /\ ~(a <= x /\ x < a + n)
      BY <3>6, <3>7, <3>8, <1>00, <1>4, <1>7
    <3> QED BY <3>2, <3>5, <3>6, <3>9, Zenon
  <2> QED BY <2>1, <2>2
<1>9. PICK h : h = [kind |-> "stk", ptr |-> StackTop(memlist[i], n), bytes |-> bytes]
  OBVIOUS
<1>10. BlockBase(h) = a /\ roundmb(h.bytes) = n /\ held' = held \cup {h}
  <2>1. h.ptr = (b + len) - WORDSIZE /\ h.kind = "stk" /\ roundmb(h.bytes) = n
    <3>1. StackTop(memlist[i], n) = (b + len) - WORDSIZE
      BY <1>7, Zenon DEF StackTop
    <3> QED BY <3>1, <1>1, <1>9
  <2>2. WORDSIZE \in Int
    BY HeapLayout
  <2>3. ((b + len) - WORDSIZE) - n + WORDSIZE = a
    BY <1>0, <1>4, <1>7, <2>2
  <2>4. BlockBase(h) = ((b + len) - WORDSIZE) - n + WORDSIZE
    BY <2>1 DEF BlockBase
  <2>5. held' = held \cup {h}
    BY <1>3, <1>9
  <2> QED BY <2>1, <2>3, <2>4, <2>5, Zenon
<1>11. \A x \in Int : a <= x /\ x < a + n => IsFree(memlist, x)
  <2>1. \A x \in Int : a <= x /\ x < a + n => InBlock(x, memlist[i])
    BY <1>00, <1>4, <1>7 DEF InBlock
  <2> QED BY <2>1, <1>5 DEF IsFree
<1> QED BY <1>00, <1>4, <1>8, <1>10, <1>11, HeldMore

LEMMA FreememKeeps ==
  ASSUME HeapInv, NEW h \in held, freemem(h)
  PROVE  HeapInv'
PROOF
<1>1. PICK a, n : a = BlockBase(h) /\ n = roundmb(h.bytes)
  OBVIOUS
<1>2. ~Overlaps(a, n) /\ memlist' = Freed(a, n) /\ held' = held \ {h}
  BY <1>1 DEF freemem
<1>3. a \in Nat \ {0} /\ n \in Nat \ {0} /\ Apart(memlist)
  BY <1>1 DEF HeapInv
<1>4. Apart(memlist') /\ \A x \in Int : IsFree(memlist', x) <=> IsFree(memlist, x) \/ (a <= x /\ x < a + n)
  BY <1>2, <1>3, FreedIs
<1>5. \A x \in Int : InHeld(x, h) <=> a <= x /\ x < a + n
  BY <1>1 DEF InHeld
<1> QED BY <1>2, <1>4, <1>5, HeldLess

LEMMA FreeBytesAre ==
  ASSUME NEW l \in Seq(FreeBlock)
  PROVE  \A x : x \in UNION {FreeRange(l[i]) : i \in DOMAIN l} <=> x \in Int /\ IsFree(l, x)
PROOF
<1>1. \A i \in 1..Len(l) : \A x : x \in FreeRange(l[i]) <=> x \in Int /\ InBlock(x, l[i])
  <2>1. ASSUME NEW i \in 1..Len(l), NEW x PROVE x \in FreeRange(l[i]) <=> x \in Int /\ InBlock(x, l[i])
    <3>1. {l[i].addr, BlockEnd(l[i])} \subseteq Int /\ BlockEnd(l[i]) = l[i].addr + l[i].len
      BY BlockIs
    <3> QED BY <3>1 DEF FreeRange, InBlock
  <2> QED BY <2>1
<1> QED BY <1>1 DEF IsFree

(* Memory that is free already overlaps a free block: the call is refused. *)
LEMMA FreedTwice ==
  ASSUME HeapInv, NEW a \in Int, NEW n \in Nat \ {0}, IsFree(memlist, a)
  PROVE  Overlaps(a, n)
PROOF
<1>1. PICK i \in 1..Len(memlist) : InBlock(a, memlist[i])
  BY DEF IsFree
<1>2. PICK k : k = PrevIdx(a)
  OBVIOUS
<1>3. /\ k \in 0..Len(memlist)
      /\ \A j \in 1..k : memlist[j].addr < a
      /\ \A j \in (k + 1)..Len(memlist) : memlist[j].addr >= a
  BY <1>2, HeapFacts, PrevIs
<1>4. memlist[i].addr \in Nat /\ memlist[i].addr <= a /\ a < BlockEnd(memlist[i])
  BY <1>1, HeapFacts DEF InBlock
<1>5. \A p, q \in 1..Len(memlist) : p < q => BlockEnd(memlist[p]) < memlist[q].addr
  BY HeapFacts DEF Apart, LooseAt
<1>6. CASE i <= k
  <2>1. k \in 1..Len(memlist) /\ k > 0 /\ (i = k \/ i < k) /\ k \in 1..k
    BY <1>3, <1>6, HeapFacts
  <2>2. i < k => BlockEnd(memlist[i]) < memlist[k].addr /\ memlist[k].addr < a
    BY <2>1, <1>3, <1>5
  <2>3. {BlockEnd(memlist[i]), memlist[k].addr} \subseteq Nat
    BY SMTT(30), <1>1, <2>1, HeapFacts
  <2>4. i = k
    BY <2>1, <2>2, <2>3, <1>4
  <2> QED BY <2>1, <2>4, <1>2, <1>4 DEF Overlaps
<1>7. CASE i > k
  <2>1. k + 1 \in 1..Len(memlist) /\ k + 1 <= Len(memlist) /\ (i = k + 1 \/ k + 1 < i)
        /\ k + 1 \in (k + 1)..Len(memlist) /\ i \in (k + 1)..Len(memlist)
    BY <1>3, <1>7, HeapFacts
  <2>2. memlist[k + 1].addr \in Nat /\ memlist[k + 1].addr <= memlist[i].addr
    <3>1. memlist[k + 1].addr \in Nat /\ BlockEnd(memlist[k + 1]) \in Nat
          /\ memlist[k + 1].addr < BlockEnd(memlist[k + 1])
      BY <2>1, HeapFacts
    <3>2. k + 1 < i => BlockEnd(memlist[k + 1]) < memlist[i].addr
      BY <2>1, <1>5
    <3> QED BY <2>1, <3>1, <3>2, <1>4
  <2>3. a + n > memlist[k + 1].addr
    BY <2>2, <1>4
  <2> QED BY <2>1, <2>3, <1>2 DEF Overlaps, NextIdx
<1> QED BY <1>6, <1>7, <1>3

LEMMA FreememAgainKeeps ==
  ASSUME HeapInv, NEW a \in FreeBytes, NEW bytes \in Nat, freememAgain(a, bytes)
  PROVE  HeapInv'
PROOF
<1>1. a \in Int /\ IsFree(memlist, a)
  BY HeapFacts, FreeBytesAre DEF FreeBytes
<1>2. roundmb(bytes) \in Nat \ {0}
  BY RoundedUp DEF freememAgain
<1>3. memlist' = memlist /\ held' = held
  BY <1>1, <1>2, FreedTwice DEF freememAgain
<1> QED BY <1>3 DEF HeapInv, InHeld

LEMMA HeapStep == HeapInv /\ [HeapNext]_heapVars => HeapInv'
PROOF
<1> SUFFICES ASSUME HeapInv, [HeapNext]_heapVars PROVE HeapInv'
  OBVIOUS
<1>1. CASE UNCHANGED heapVars
  BY <1>1 DEF heapVars, HeapInv, InHeld
<1>2. ASSUME NEW bytes \in Asked, getmem(bytes) \/ getstk(bytes) PROVE HeapInv'
  BY <1>2, HeapLayout, GetmemKeeps, GetstkKeeps
<1>3. ASSUME NEW h \in held, freemem(h) PROVE HeapInv'
  BY <1>3, FreememKeeps
<1>4. ASSUME NEW a \in FreeBytes, NEW bytes \in Asked, freememAgain(a, bytes) PROVE HeapInv'
  BY <1>4, HeapLayout, FreememAgainKeeps
<1> QED BY <1>1, <1>2, <1>3, <1>4 DEF HeapNext

(* What a caller holds is free of the blocks on the list. *)
LEMMA HeldFree ==
  ASSUME HeapInv, NEW h \in held
  PROVE  ~Overlaps(BlockBase(h), roundmb(h.bytes))
PROOF
<1>1. PICK a, n : a = BlockBase(h) /\ n = roundmb(h.bytes)
  OBVIOUS
<1>2. a \in Nat \ {0} /\ n \in Nat \ {0} /\ \A x \in Int : a <= x /\ x < a + n => ~IsFree(memlist, x)
  BY <1>1 DEF HeapInv, InHeld
<1>3. PICK k : k = PrevIdx(a)
  OBVIOUS
<1>4. /\ k \in 0..Len(memlist)
      /\ \A j \in 1..k : memlist[j].addr < a
      /\ \A j \in (k + 1)..Len(memlist) : memlist[j].addr >= a
  <2>1. a \in Int /\ Apart(memlist)
    BY <1>2, HeapFacts
  <2> QED BY <1>3, <2>1, PrevIs, Zenon
<1>5. ASSUME k > 0, a < BlockEnd(memlist[k]) PROVE FALSE
  <2>1. k \in 1..Len(memlist) /\ k \in 1..k
    BY <1>4, <1>5
  <2>2. memlist[k].addr < a /\ memlist[k].addr \in Nat
    BY <2>1, <1>4, HeapFacts
  <2>3. InBlock(a, memlist[k])
    BY <2>1, <2>2, <1>2, <1>5, HeapFacts DEF InBlock
  <2>4. IsFree(memlist, a)
    BY <2>1, <2>3 DEF IsFree
  <2> QED BY <2>4, <1>2
<1>6. ASSUME k + 1 <= Len(memlist), a + n > memlist[k + 1].addr PROVE FALSE
  <2>1. k + 1 \in 1..Len(memlist) /\ k + 1 \in (k + 1)..Len(memlist)
    BY <1>4, <1>6, HeapFacts
  <2>2. memlist[k + 1].addr >= a /\ {memlist[k + 1].addr, memlist[k + 1].len} \subseteq Nat /\ memlist[k + 1].len > 0
    BY <2>1, <1>4, HeapFacts
  <2>3. InBlock(memlist[k + 1].addr, memlist[k + 1])
    BY <2>2 DEF InBlock
  <2>4. IsFree(memlist, memlist[k + 1].addr)
    BY <2>1, <2>3 DEF IsFree
  <2>5. memlist[k + 1].addr < a + n
    BY <2>2, <1>2, <1>6
  <2> QED BY <2>2, <2>4, <2>5, <1>2
<1> QED BY <1>1, <1>3, <1>5, <1>6 DEF Overlaps, NextIdx

LEMMA HeapInvSound == HeapInv => HeapSound
PROOF
<1> SUFFICES ASSUME HeapInv PROVE HeapSound
  OBVIOUS
<1>1. ListJoined
  <2>1. ASSUME NEW i \in 1..(Len(memlist) - 1) PROVE BlockEnd(memlist[i]) < memlist[i + 1].addr
    <3>1. i \in 1..Len(memlist) /\ i + 1 \in 1..Len(memlist) /\ i < i + 1 /\ i # 0
      BY HeapFacts
    <3> QED BY <3>1, HeapFacts DEF Apart, LooseAt
  <2> QED BY <2>1 DEF ListJoined
<1>2. \A x : x \in FreeBytes <=> x \in Int /\ IsFree(memlist, x)
  BY HeapFacts, FreeBytesAre DEF FreeBytes
<1>3. \A x : x \in HeapBytes <=> x \in Int /\ IsFree(Areas, x)
  <2>1. Areas \in Seq(FreeBlock)
    BY AreasApart DEF Apart, LooseAt
  <2> QED BY <2>1, FreeBytesAre DEF HeapBytes
<1>4. ASSUME NEW h \in held PROVE \A x : x \in BlockBytes(h) <=> x \in Int /\ InHeld(x, h)
  <2>1. {BlockBase(h), roundmb(h.bytes)} \subseteq Nat
    BY DEF HeapInv
  <2> QED BY <2>1 DEF BlockBytes, InHeld
<1>5. FreeBytes \cup UNION {BlockBytes(h) : h \in held} = HeapBytes
  <2>1. ASSUME NEW x
        PROVE  x \in FreeBytes \cup UNION {BlockBytes(h) : h \in held} <=> x \in HeapBytes
    <3>1. x \in UNION {BlockBytes(h) : h \in held} <=> x \in Int /\ \E h \in held : InHeld(x, h)
      BY <1>4
    <3> QED BY <3>1, <1>2, <1>3 DEF HeapInv
  <2> QED BY <2>1
<1>6. \A h \in held : BlockBytes(h) \cap FreeBytes = {}
  BY <1>2, <1>4 DEF HeapInv
<1>7. \A g, h \in held : g # h => BlockBytes(g) \cap BlockBytes(h) = {}
  BY <1>4 DEF HeapInv
<1>8. HeldCanBeFreed
  BY HeldFree DEF HeldCanBeFreed
<1> QED BY <1>1, <1>5, <1>6, <1>7, <1>8 DEF HeapSound, HeapPartition

(* Every byte of the heap is on the list of free blocks or in the hands of one
   caller, the list is in order with no two blocks that touch, and what a caller
   holds it can give back, for any areas of memory and any sizes, however the
   calls of getmem, getstk and freemem follow each other. *)
THEOREM HeapSoundAlways == HeapSpec => []HeapSound
PROOF BY HeapInitially, HeapStep, HeapInvSound, PTL DEF HeapSpec

-----------------------------------------------------------------------------
(* The output of the console *)

(* The writers in the middle of a write. *)
Pending(wr) == {w \in TtyWriters : wr[w] > 0}

(* Equal up to turns of the output buffer. *)
Same(i, j) == i \in Int /\ j \in Int /\ i % TY_OBUFLEN = j % TY_OBUFLEN

(* Who waits for a slot of the output buffer is in the middle of a write; so the
   units and the writers let through are together the count and the pending ones. *)
OutInv ==
  /\ tyecho \in Nat /\ {tyohead, tyotail} \subseteq Int
  /\ {tyoheld, thre, overtaken, silently} \subseteq BOOLEAN
  /\ writing \in [TtyWriters -> Nat]
  /\ \E W \in SUBSET Pending(writing) : SemOf(tyosem, W)
  /\ Same(tyotail - tyohead, TY_OBUFLEN - tyosem.count - Cardinality(Pending(writing)))
  /\ OutputGoesOn

LEMMA PendingFinite ==
  ASSUME NEW wr
  PROVE  IsFiniteSet(Pending(wr)) /\ Cardinality(Pending(wr)) \in Nat
PROOF BY TtySizes, FS_Subset, FS_CardinalityType DEF Pending

LEMMA StoredValue ==
  ASSUME NEW s, NEW wr \in [TtyWriters -> Nat], NEW W \in SUBSET Pending(wr), SemOf(s, W)
  PROVE  TY_OBUFLEN - PositiveOr0(s.count) - Cardinality(LetThrough(wr, s))
         = TY_OBUFLEN - s.count - Cardinality(Pending(wr))
PROOF
<1>1. PICK c \in Int, N \in Int, P \in Nat :
        c = s.count /\ N = TY_OBUFLEN /\ P = Cardinality(Pending(wr))
  BY TtySizes, PendingFinite DEF SemOf
<1>2. LetThrough(wr, s) = Pending(wr) \ W
  <2>1. DOMAIN wr = TtyWriters
    OBVIOUS
  <2>2. \A p : WaitsAt(p, s) <=> p \in W
    BY SemWaits DEF WaitsAt
  <2> QED BY <2>1, <2>2 DEF LetThrough, Pending
<1>3. IsFiniteSet(W) /\ Cardinality(W) = (IF c < 0 THEN -c ELSE 0)
  BY <1>1, SemCounts
<1>4. Cardinality(LetThrough(wr, s)) = P - (IF c < 0 THEN -c ELSE 0)
  <2>1. Pending(wr) \cap W = W
    OBVIOUS
  <2>2. Cardinality(Pending(wr) \ W) = Cardinality(Pending(wr)) - Cardinality(Pending(wr) \cap W)
    BY PendingFinite, FS_Difference
  <2> QED BY <1>1, <1>2, <1>3, <2>1, <2>2
<1>5. PositiveOr0(s.count) = (IF c > 0 THEN c ELSE 0)
  BY <1>1 DEF PositiveOr0
<1>6. N - (IF c > 0 THEN c ELSE 0) - (P - (IF c < 0 THEN -c ELSE 0)) = N - c - P
  OBVIOUS
<1> QED BY <1>1, <1>4, <1>5, <1>6

LEMMA StoredIs ==
  ASSUME OutInv
  PROVE  Stored = TY_OBUFLEN - tyosem.count - Cardinality(Pending(writing))
PROOF BY StoredValue DEF OutInv, Stored

LEMMA OutInitially == TtyInit => OutInv
PROOF
<1> SUFFICES ASSUME TtyInit PROVE OutInv
  OBVIOUS
<1>1. Pending(writing) = {} /\ Cardinality({}) = 0
  BY FS_EmptySet DEF TtyInit, Pending
<1>2. SemOf(tyosem, {}) /\ tyosem.count = TY_OBUFLEN
  BY TtySizes, SemNew DEF TtyInit, NewSem
<1>3. writing \in [TtyWriters -> Nat] /\ tyecho \in Nat /\ {tyohead, tyotail} \subseteq Int
      /\ {tyoheld, thre, overtaken, silently} \subseteq BOOLEAN /\ thre
  <2>1. writing = [w \in TtyWriters |-> 0] /\ tyecho = 0 /\ tyohead = 0 /\ tyotail = 0
    BY DEF TtyInit
  <2>2. tyoheld = FALSE /\ thre = TRUE /\ overtaken = FALSE /\ silently = FALSE
    BY DEF TtyInit
  <2>3. {tyoheld, thre, overtaken, silently} \subseteq BOOLEAN /\ thre
    BY <2>2
  <2> QED BY <2>1, <2>3
<1>4. Same(tyotail - tyohead, TY_OBUFLEN - tyosem.count - Cardinality(Pending(writing)))
  <2>1. tyotail - tyohead = 0
    BY DEF TtyInit
  <2>2. TY_OBUFLEN - tyosem.count - Cardinality(Pending(writing)) = 0
    BY <1>1, <1>2, TtySizes
  <2> QED BY <2>1, <2>2 DEF Same
<1> QED BY <1>1, <1>2, <1>3, <1>4 DEF OutInv, OutputGoesOn

LEMMA OutSize == TY_OBUFLEN \in Nat \ {0}
PROOF BY TtySizes

LEMMA BothMove ==
  ASSUME NEW i, NEW j, Same(i, j), NEW k \in Int
  PROVE  Same(i + k, j + k)
PROOF
<1>1. i \in Int /\ j \in Int /\ i % TY_OBUFLEN = j % TY_OBUFLEN
  BY DEF Same
<1>2. ((i % TY_OBUFLEN) + k) % TY_OBUFLEN = (i + k) % TY_OBUFLEN
  BY <1>1, OutSize, ModAdd, Zenon
<1>3. ((j % TY_OBUFLEN) + k) % TY_OBUFLEN = (j + k) % TY_OBUFLEN
  BY <1>1, OutSize, ModAdd, Zenon
<1>4. (i + k) % TY_OBUFLEN = (j + k) % TY_OBUFLEN
  BY <1>1, <1>2, <1>3, Zenon
<1>5. i + k \in Int /\ j + k \in Int
  BY <1>1
<1> QED BY <1>4, <1>5, Zenon DEF Same

(* The tail has moved by k characters, and so has what is stored. *)
LEMMA TailMoves ==
  ASSUME NEW t \in Int, NEW h \in Int, NEW x, Same(t - h, x), NEW k \in Int
  PROVE  (t + k) % TY_OBUFLEN \in Int /\ Same(((t + k) % TY_OBUFLEN) - h, x + k)
PROOF
<1>1. PICK i \in Int : i = t - h
  OBVIOUS
<1>2. Same(i + k, x + k)
  BY <1>1, BothMove, Zenon
<1>3. PICK d \in Int, v \in Int : d = t + k /\ v = i + k
  OBVIOUS
<1>4. PICK r \in Int, p \in Int : r = d % TY_OBUFLEN /\ d = TY_OBUFLEN * p + r
  <2>1. d % TY_OBUFLEN \in Int /\ d \div TY_OBUFLEN \in Int
        /\ d = TY_OBUFLEN * (d \div TY_OBUFLEN) + (d % TY_OBUFLEN)
    BY OutSize, ModIs
  <2> QED BY <2>1
<1>5. PICK m \in Int, u \in Int : m = -p /\ u = r - h
  OBVIOUS
<1>6. u = v + TY_OBUFLEN * m
  <2>1. PICK a \in Int, b \in Int : a = TY_OBUFLEN * p /\ b = TY_OBUFLEN * m
    BY OutSize
  <2>2. b = -a
    BY <1>5, <2>1, OutSize
  <2>3. d = a + r
    BY <1>4, <2>1
  <2>4. u = v + b
    BY <1>1, <1>3, <1>5, <2>2, <2>3
  <2> QED BY <2>1, <2>4
<1>7. (v + TY_OBUFLEN * m) % TY_OBUFLEN = v % TY_OBUFLEN
  BY OutSize, ManyTurns
<1>8. Same(u, x + k)
  BY <1>2, <1>3, <1>6, <1>7, Zenon DEF Same
<1> QED BY <1>3, <1>4, <1>5, <1>8, Zenon

(* The head has. *)
LEMMA HeadMoves ==
  ASSUME NEW t \in Int, NEW h \in Int, NEW x \in Int, Same(t - h, x), NEW k \in Int
  PROVE  (h + k) % TY_OBUFLEN \in Int /\ Same(t - ((h + k) % TY_OBUFLEN), x - k)
PROOF
<1>1. PICK i \in Int, j \in Int : i = t - h /\ j = -k
  OBVIOUS
<1>2. Same(i + j, x + j)
  BY <1>1, BothMove, Zenon
<1>3. PICK d \in Int, v \in Int : d = h + k /\ v = i + j
  OBVIOUS
<1>4. PICK r \in Int, p \in Int : r = d % TY_OBUFLEN /\ d = TY_OBUFLEN * p + r
  <2>1. d % TY_OBUFLEN \in Int /\ d \div TY_OBUFLEN \in Int
        /\ d = TY_OBUFLEN * (d \div TY_OBUFLEN) + (d % TY_OBUFLEN)
    BY OutSize, ModIs
  <2> QED BY <2>1
<1>5. PICK u \in Int : u = t - r
  OBVIOUS
<1>6. u = v + TY_OBUFLEN * p
  <2>1. PICK a \in Int : a = TY_OBUFLEN * p
    BY OutSize
  <2>2. d = a + r
    BY <1>4, <2>1
  <2>3. u = v + a
    BY <1>1, <1>3, <1>5, <2>2
  <2> QED BY <2>1, <2>3
<1>7. (v + TY_OBUFLEN * p) % TY_OBUFLEN = v % TY_OBUFLEN
  BY OutSize, ManyTurns
<1>8. x - k = x + j
  BY <1>1
<1>9. Same(u, x - k)
  BY <1>2, <1>3, <1>6, <1>7, <1>8, Zenon DEF Same
<1> QED BY <1>3, <1>4, <1>5, <1>9, Zenon

(* A write that puts k characters, of which extra is one it had a unit for. *)
LEMMA WriteOnKeeps ==
  ASSUME OutInv, NEW w \in TtyWriters, NEW want \in Nat \ {0}, NEW extra \in {0, 1}, WriteOn(w, want, extra),
         extra = 0 => writing[w] = 0,
         extra = 1 => writing[w] > 0 /\ ~WaitsAt(w, tyosem)
  PROVE  OutInv'
PROOF
<1>1. PICK W \in SUBSET Pending(writing) : SemOf(tyosem, W)
  BY DEF OutInv
<1>2. PICK c \in Int, P \in Nat, N \in Int :
        c = tyosem.count /\ P = Cardinality(Pending(writing)) /\ N = TY_OBUFLEN
  BY <1>1, TtySizes, PendingFinite DEF SemOf
<1>3. PICK units \in Nat : units = (IF c > 0 THEN c ELSE 0)
  BY <1>2
<1>4. PICK k \in Nat : k = (IF want <= units + extra THEN want ELSE units + extra)
  BY <1>3
<1>5. k = Min({want, PositiveOr0(tyosem.count) + extra})
  <2>1. PositiveOr0(tyosem.count) = units
    BY <1>2, <1>3 DEF PositiveOr0
  <2>2. Min({want, units + extra}) = (IF want <= units + extra THEN want ELSE units + extra)
    <3>1. PICK b \in Int : b = units + extra
      BY <1>3
    <3>2. want \in Int
      OBVIOUS
    <3> QED BY <3>1, <3>2, LeastOfTwo
  <2> QED BY <1>4, <2>1, <2>2
<1>6. PICK left : left = [tyosem EXCEPT !.count = @ - (k - extra)]
  OBVIOUS
<1>7. /\ tyotail' = (tyotail + k) % TY_OBUFLEN
      /\ tyosem' = (IF k = want THEN left ELSE Blocks(left, w))
      /\ writing' = [writing EXCEPT ![w] = want - k]
      /\ IF k > 0 THEN TtyKickout ELSE UNCHANGED <<thre, silently>>
      /\ UNCHANGED <<inVars, tyohead, tyecho, tyoheld, reading, manner, spoilt, overtaken>>
  BY <1>5, <1>6, Zenon DEF WriteOn
<1>8. left.count = c - (k - extra) /\ left.queue = tyosem.queue /\ left = [count |-> left.count, queue |-> left.queue]
  BY <1>1, <1>2, <1>6 DEF SemOf
<1>9. w \notin W
  BY <1>1, SemWaits DEF Pending, WaitsAt
<1>10. writing' \in [TtyWriters -> Nat] /\ writing'[w] = want - k /\ want - k \in Nat
       /\ \A v \in TtyWriters : v # w => writing'[v] = writing[v]
  BY <1>4, <1>7 DEF OutInv
<1>11. (w \in Pending(writing) <=> extra = 1) /\ w \in TtyWriters /\ IsFiniteSet(Pending(writing))
  BY PendingFinite DEF Pending, OutInv
<1>12. /\ \E V \in SUBSET Pending(writing') : SemOf(tyosem', V)
       /\ TY_OBUFLEN - tyosem'.count - Cardinality(Pending(writing')) = (N - c - P) + k
  <2>1. CASE k = want
    <3>1. tyosem' = left
      BY <1>7, <2>1
    <3>2. Pending(writing') = Pending(writing) \ {w}
      BY <1>10, <2>1 DEF Pending
    <3>3. Cardinality(Pending(writing')) = P - extra
      <4>1. PICK Q : Q = Pending(writing)
        OBVIOUS
      <4>2. Cardinality(Q \ {w}) = IF w \in Q THEN Cardinality(Q) - 1 ELSE Cardinality(Q)
        BY <1>11, <4>1, FS_RemoveElement
      <4>3. Cardinality(Q \ {w}) = Cardinality(Pending(writing')) /\ Cardinality(Q) = P /\ (w \in Q <=> extra = 1)
        BY <1>2, <1>11, <3>2, <4>1
      <4> QED BY <4>2, <4>3
    <3>4. SemOf(tyosem', W)
      <4>1. CASE W = {}
        <5>1. c >= 0 /\ tyosem.queue = left.queue /\ Len(tyosem.queue) = 0 /\ QueueOf(tyosem.queue, W)
          <6>1. tyosem.count >= 0 /\ QueueOf(tyosem.queue, W)
                /\ Len(tyosem.queue) = (IF tyosem.count < 0 THEN -tyosem.count ELSE 0)
            BY <1>1, <4>1, SemEmpty DEF SemOf
          <6>2. tyosem.queue = left.queue
            BY <1>8
          <6> QED BY <1>2, <6>1, <6>2
        <5>2. left.count >= 0 /\ left.count \in Int
          BY <1>3, <1>4, <1>8, <2>1, <5>1
        <5> QED BY <1>8, <3>1, <5>1, <5>2 DEF SemOf
      <4>2. CASE W # {}
        <5>1. c < 0
          BY <1>1, <1>2, <4>2, SemEmpty
        <5>2. k = extra
          BY <1>3, <1>4, <2>1, <5>1
        <5>3. left.count = c
          BY <1>2, <1>8, <5>2
        <5>4. left = tyosem
          BY <1>1, <1>2, <1>8, <5>3 DEF SemOf
        <5> QED BY <1>1, <3>1, <5>4
      <4> QED BY <4>1, <4>2
    <3>5. W \in SUBSET Pending(writing')
      BY <1>9, <3>2
    <3>6. N - (c - (k - extra)) - (P - extra) = (N - c - P) + k
      OBVIOUS
    <3> QED BY <1>2, <1>8, <3>1, <3>3, <3>4, <3>5, <3>6
  <2>2. CASE k # want
    <3>1. tyosem' = Blocks(left, w)
      BY <1>7, <2>2
    <3>2. k = units + extra /\ want - k > 0
      BY <1>3, <1>4, <2>2
    <3>3. Pending(writing') = Pending(writing) \cup {w}
      BY <1>10, <3>2 DEF Pending
    <3>4. Cardinality(Pending(writing')) = P + (1 - extra)
      <4>1. Cardinality(Pending(writing')) = IF w \in Pending(writing) THEN P ELSE P + 1
        <5>1. PICK Q : Q = Pending(writing)
          OBVIOUS
        <5>2. Cardinality(Q \cup {w}) = IF w \in Q THEN Cardinality(Q) ELSE Cardinality(Q) + 1
          BY <1>11, <5>1, FS_AddElement
        <5> QED BY <1>2, <3>3, <5>1, <5>2
      <4> QED BY <1>11, <4>1
    <3>5. left.count = c - units /\ left.count <= 0
      BY <1>2, <1>3, <1>8, <3>2
    <3>6. SemOf(left, W)
      <4>1. QueueOf(left.queue, W) /\ Len(left.queue) = (IF c < 0 THEN -c ELSE 0)
        BY <1>1, <1>2, <1>8 DEF SemOf
      <4>2. left.count \in Int /\ (IF c < 0 THEN -c ELSE 0) = (IF left.count < 0 THEN -left.count ELSE 0)
        BY <1>2, <1>3, <3>5
      <4> QED BY <1>8, <4>1, <4>2 DEF SemOf
    <3>7. ~Passes(left)
      BY <3>5, <1>2, <1>3 DEF Passes
    <3>8. SemOf(tyosem', W \cup {w}) /\ tyosem'.count = left.count - 1
      BY <1>9, <3>1, <3>6, <3>7, SemBlocks
    <3>9. W \cup {w} \in SUBSET Pending(writing')
      BY <3>3
    <3>10. N - ((c - units) - 1) - (P + (1 - extra)) = (N - c - P) + k
      BY <1>3, <3>2
    <3> QED BY <1>2, <3>4, <3>5, <3>8, <3>9, <3>10
  <2> QED BY <2>1, <2>2
<1>13. PICK x \in Int : x = N - c - P
  OBVIOUS
<1>14. tyohead' \in Int
  BY <1>7 DEF OutInv
<1>15. tyotail' \in Int /\ Same(tyotail' - tyohead', TY_OBUFLEN - tyosem'.count - Cardinality(Pending(writing')))
  <2>1. PICK t \in Int, h \in Int : t = tyotail /\ h = tyohead
    BY DEF OutInv
  <2>2. Same(t - h, x)
    BY <1>2, <1>13, <2>1 DEF OutInv
  <2>3. (t + k) % TY_OBUFLEN \in Int /\ Same(((t + k) % TY_OBUFLEN) - h, x + k)
    <3>1. k \in Int
      OBVIOUS
    <3> QED BY <2>2, <3>1, TailMoves, Zenon
  <2>4. TY_OBUFLEN - tyosem'.count - Cardinality(Pending(writing')) = x + k
    BY <1>12, <1>13
  <2>5. tyotail' = (t + k) % TY_OBUFLEN /\ tyohead' = h
    BY <1>7, <2>1
  <2> QED BY <2>3, <2>4, <2>5, Zenon
<1>16. OutputGoesOn'
  <2>1. CASE k > 0
    BY <1>7, <2>1 DEF TtyKickout, OutputGoesOn
  <2>2. CASE k = 0
    <3>1. thre' = thre /\ silently' = silently /\ tyoheld' = tyoheld /\ tyecho' = tyecho
      BY <1>7, <2>2
    <3>2. Stored = x /\ OutputGoesOn
      BY <1>2, <1>13, StoredIs DEF OutInv
    <3>3. Stored' = x
      <4>1. \E V \in SUBSET Pending(writing') : SemOf(tyosem', V)
        BY <1>12
      <4>2. Stored' = TY_OBUFLEN - tyosem'.count - Cardinality(Pending(writing'))
        BY <1>10, <4>1, StoredValue DEF Stored
      <4>3. x + k = x
        BY <2>2
      <4> QED BY <1>12, <1>13, <4>2, <4>3
    <3> QED BY <3>1, <3>2, <3>3 DEF OutputGoesOn
  <2> QED BY <2>1, <2>2
<1>17. tyecho' \in Nat /\ {tyoheld', thre', overtaken', silently'} \subseteq BOOLEAN
  BY <1>7 DEF OutInv, TtyKickout
<1> QED BY <1>10, <1>12, <1>14, <1>15, <1>16, <1>17 DEF OutInv

(* ttyhandle_out sends n characters and lets that many writers go, or adds units. *)
LEMMA TtyHandleOutKeeps ==
  ASSUME OutInv, TtyHandleOut
  PROVE  OutInv'
PROOF
<1>1. PICK W \in SUBSET Pending(writing) : SemOf(tyosem, W)
  BY DEF OutInv
<1>2. PICK c \in Int, P \in Nat, N \in Int :
        c = tyosem.count /\ P = Cardinality(Pending(writing)) /\ N = TY_OBUFLEN
  BY <1>1, TtySizes, PendingFinite DEF SemOf
<1>3. /\ thre /\ UNCHANGED <<tyoheld, writing, silently>>
  BY DEF TtyHandleOut
<1>4. CASE tyoheld \/ (tyecho = 0 /\ tyosem.count >= TY_OBUFLEN)
  <2>1. ~thre' /\ thre' \in BOOLEAN /\ UNCHANGED <<tyecho, tyohead, tyotail, tyosem, overtaken>>
    BY <1>4, Zenon DEF TtyHandleOut, outVars
  <2>2. OutputGoesOn'
    <3>1. CASE tyoheld
      BY <1>3, <3>1 DEF OutputGoesOn
    <3>2. CASE tyecho = 0 /\ tyosem.count >= TY_OBUFLEN
      <4>1. Stored' = Stored
        BY <1>3, <2>1 DEF Stored, LetThrough, PositiveOr0, WaitsAt
      <4>2. Stored = N - c - P
        BY <1>2, StoredIs
      <4>3. ~(N - c - P > 0)
        BY <1>2, <3>2
      <4> QED BY <2>1, <3>2, <4>1, <4>2, <4>3 DEF OutputGoesOn
    <3> QED BY <1>4, <3>1, <3>2
  <2>3. Pending(writing') = Pending(writing)
    BY <1>3
  <2> QED BY <1>1, <1>3, <2>1, <2>2, <2>3 DEF OutInv
<1>5. CASE ~(tyoheld \/ (tyecho = 0 /\ tyosem.count >= TY_OBUFLEN))
  <2>1. PICK e \in Int : e = Min({tyecho, UART_FIFO_SIZE}) /\ tyecho - e \in Nat
    <3>1. PICK a \in Nat, b \in Nat : a = tyecho /\ b = UART_FIFO_SIZE
      BY TtySizes DEF OutInv
    <3>2. Min({a, b}) = IF a <= b THEN a ELSE b
      <4>1. a \in Int /\ b \in Int
        OBVIOUS
      <4> QED BY <4>1, LeastOfTwo
    <3> QED BY <3>1, <3>2
  <2>2. PICK n \in Nat : n = PositiveOr0(Min({TY_OBUFLEN - tyosem.count, UART_FIFO_SIZE - e}))
    <3>1. PICK a \in Int, b \in Int : a = TY_OBUFLEN - tyosem.count /\ b = UART_FIFO_SIZE - e
      BY <1>2, TtySizes
    <3>2. Min({a, b}) \in Int
      BY LeastOfTwo
    <3> QED BY <3>1, <3>2 DEF PositiveOr0
  <2>3. /\ tyecho' = tyecho - e /\ tyohead' = (tyohead + n) % TY_OBUFLEN
        /\ tyosem' = (IF n > 0 THEN SignalN(tyosem, n) ELSE tyosem)
        /\ overtaken' = (n > Stored) /\ UNCHANGED <<thre, tyotail>>
    BY <1>5, <2>1, <2>2, Zenon DEF TtyHandleOut, SignalsEach
  <2>4. tyosem'.count = c + n /\ \E V \in SUBSET W : SemOf(tyosem', V)
    <3>1. CASE n > 0
      <4>1. n \in Nat \ {0}
        BY <3>1
      <4> QED BY <1>1, <1>2, <2>3, <3>1, <4>1, SemSignalN
    <3>2. CASE n = 0
      BY <1>1, <1>2, <2>3, <3>2
    <3> QED BY <3>1, <3>2
  <2>5. PICK V \in SUBSET Pending(writing') : SemOf(tyosem', V)
    BY <1>3, <2>4
  <2>6. PICK x \in Int : x = N - c - P
    OBVIOUS
  <2>7. TY_OBUFLEN - tyosem'.count - Cardinality(Pending(writing')) = x - n
    BY <1>2, <1>3, <2>4, <2>6
  <2>8. tyohead' \in Int /\ Same(tyotail' - tyohead', x - n)
    <3>1. PICK t \in Int, h \in Int : t = tyotail /\ h = tyohead
      BY DEF OutInv
    <3>2. Same(t - h, x)
      BY <1>2, <2>6, <3>1 DEF OutInv
    <3>3. n \in Int
      OBVIOUS
    <3>4. (h + n) % TY_OBUFLEN \in Int /\ Same(t - ((h + n) % TY_OBUFLEN), x - n)
      BY <3>2, <3>3, HeadMoves, Zenon
    <3>5. tyohead' = (h + n) % TY_OBUFLEN /\ tyotail' = t
      BY <2>3, <3>1
    <3> QED BY <3>4, <3>5, Zenon
  <2>9. OutputGoesOn'
    BY <1>3, <2>3 DEF OutputGoesOn
  <2>10. overtaken' \in BOOLEAN /\ tyecho' \in Nat /\ tyotail' \in Int /\ writing' \in [TtyWriters -> Nat]
         /\ {tyoheld', thre', silently'} \subseteq BOOLEAN
    BY <1>3, <2>1, <2>3 DEF OutInv
  <2> QED BY <2>5, <2>7, <2>8, <2>9, <2>10 DEF OutInv
<1> QED BY <1>4, <1>5

(* What is typed changes the output only by its echo and by holding it. *)
LEMMA TtyHandleInKeeps ==
  ASSUME OutInv, NEW c, TtyHandleIn(c)
  PROVE  OutInv'
PROOF
<1>1. UNCHANGED <<tyohead, tyotail, tyosem, writing, overtaken>>
  BY DEF TtyHandleIn, outVars
<1>2. Stored' = Stored
  BY <1>1 DEF Stored, LetThrough, PositiveOr0, WaitsAt
<1>3. /\ tyecho' \in Nat /\ {tyoheld', thre', silently'} \subseteq BOOLEAN
      /\ \/ UNCHANGED <<tyecho, tyoheld, thre, silently>>
         \/ tyoheld'
         \/ thre'
         \/ UNCHANGED <<tyecho, thre>> /\ silently' = (silently \/ tyoheld)
  <2>1. CASE RawChar(c)
    BY <2>1 DEF RawChar, OutInv
  <2>2. CASE FlowControl(c)
    BY <2>2 DEF FlowControl, TtyKickout, OutInv
  <2>3. ASSUME Cooked(c), NEW n \in Nat, Echoes(n)
        PROVE  /\ tyecho' \in Nat /\ {tyoheld', thre', silently'} \subseteq BOOLEAN
               /\ thre' \/ (UNCHANGED <<tyecho, thre>> /\ silently' = (silently \/ tyoheld))
    <3>1. tyoheld' = FALSE
      BY <2>3 DEF Cooked
    <3>2. CASE n = 0
      BY <2>3, <3>1, <3>2 DEF Echoes, OutInv
    <3>3. CASE n # 0
      <4>1. tyecho' = (tyecho + n) % TY_EBUFLEN /\ thre' = TRUE /\ silently' = FALSE
        BY <2>3, <3>3 DEF Echoes, TtyKickout
      <4>2. tyecho' \in Nat
        <5>1. PICK y \in Int : y = tyecho + n
          BY DEF OutInv
        <5>2. y % TY_EBUFLEN \in Nat
          BY TtySizes, ModIs
        <5> QED BY <4>1, <5>1, <5>2
      <4> QED BY <3>1, <4>1, <4>2
    <3> QED BY <3>2, <3>3
  <2>4. CASE ~RawChar(c) /\ ~FlowControl(c)
    <3>1. Cooked(c) /\ \E n \in Nat : Echoes(n)
      <4>1. \A d : {EchoOf(d), ErasedEchoOf(d), 0, 1, 2} \subseteq Nat
        BY DEF EchoOf, ErasedEchoOf
      <4>2. KillChar(c) \/ EraseChar(c) \/ NewlineChar(c) \/ BellChar(c) \/ EofChar(c) \/ OrdinaryChar(c)
        BY <2>4 DEF TtyHandleIn
      <4>3. KillChar(c) => Cooked(c) /\ Echoes(2)
        BY DEF KillChar
      <4>4. EraseChar(c) => Cooked(c) /\ (Echoes(0) \/ Echoes(ErasedEchoOf(tyibuff[(tyitail - 1) % TY_IBUFLEN])))
        BY DEF EraseChar
      <4>5. NewlineChar(c) => Cooked(c) /\ Echoes(EchoOf(c))
        BY DEF NewlineChar
      <4>6. BellChar(c) => Cooked(c) /\ Echoes(1)
        BY DEF BellChar
      <4>7. EofChar(c) => Cooked(c) /\ Echoes(EchoOf(c))
        BY DEF EofChar
      <4>8. OrdinaryChar(c) => Cooked(c) /\ Echoes(EchoOf(c))
        BY DEF OrdinaryChar
      <4> QED BY <4>1, <4>2, <4>3, <4>4, <4>5, <4>6, <4>7, <4>8
    <3> QED BY <2>3, <3>1
  <2> QED BY <2>1, <2>2, <2>4
<1>4. OutputGoesOn'
  <2>1. OutputGoesOn
    BY DEF OutInv
  <2>2. CASE UNCHANGED <<tyecho, tyoheld, thre, silently>>
    BY <1>2, <2>1, <2>2 DEF OutputGoesOn
  <2>3. CASE tyoheld' \/ thre'
    BY <2>3 DEF OutputGoesOn
  <2>4. CASE UNCHANGED <<tyecho, thre>> /\ silently' = (silently \/ tyoheld)
    BY <1>2, <2>1, <2>4 DEF OutputGoesOn
  <2> QED BY <1>3, <2>2, <2>3, <2>4
<1> QED BY <1>1, <1>3, <1>4 DEF OutInv

LEMMA OutStep == OutInv /\ [TtyNext]_ttyVars => OutInv'
PROOF
<1> SUFFICES ASSUME OutInv, [TtyNext]_ttyVars PROVE OutInv'
  OBVIOUS
<1>1. ASSUME UNCHANGED <<tyohead, tyotail, tyosem, tyecho, tyoheld, thre, writing, overtaken, silently>>
      PROVE  OutInv'
  <2>1. Stored' = Stored
    BY <1>1 DEF Stored, LetThrough, PositiveOr0, WaitsAt
  <2>2. OutputGoesOn'
    BY <1>1, <2>1 DEF OutInv, OutputGoesOn
  <2> QED BY <1>1, <2>2 DEF OutInv
<1>2. CASE UNCHANGED ttyVars
  BY <1>1, <1>2 DEF ttyVars, outVars
<1>3. ASSUME NEW r, NEW n, TtyRead(r, n) PROVE OutInv'
  BY <1>1, <1>3 DEF TtyRead, ReadOn, outVars
<1>4. ASSUME NEW r, TtyReadOn(r) PROVE OutInv'
  BY <1>1, <1>4 DEF TtyReadOn, ReadOn, outVars
<1>5. CASE TtyControl
  BY <1>1, <1>5 DEF TtyControl, outVars
<1>6. ASSUME NEW w \in TtyWriters, NEW n \in WriteCounts, TtyWrite(w, n) PROVE OutInv'
  <2>1. n \in Nat \ {0} /\ 0 \in {0, 1} /\ writing[w] = 0 /\ WriteOn(w, n, 0)
    BY <1>6, TtySizes DEF TtyWrite
  <2> QED BY <2>1, WriteOnKeeps
<1>7. ASSUME NEW w \in TtyWriters, TtyWriteOn(w) PROVE OutInv'
  <2>1. writing[w] \in Nat \ {0} /\ 1 \in {0, 1} /\ ~WaitsAt(w, tyosem) /\ writing[w] > 0 /\ WriteOn(w, writing[w], 1)
    BY <1>7 DEF TtyWriteOn, OutInv
  <2> QED BY <2>1, WriteOnKeeps
<1> QED BY <1>2, <1>3, <1>4, <1>5, <1>6, <1>7, TtyHandleOutKeeps, TtyHandleInKeeps
        DEF TtyNext, TtyInputNext, TtyOutputNext

(* The console's output: the indices of the buffer and its semaphore agree, and
   output that is not held is going out, for any number of writers, buffers of any
   size, and interrupts and typing between any two steps. *)
THEOREM OutputSoundAlways == TtySpec => []OutputSound
PROOF
<1>1. OutInv => OutputSound
  BY StoredIs DEF OutInv, OutputSound, OutputAgrees, Same
<1> QED BY <1>1, OutInitially, OutStep, PTL DEF TtySpec

-----------------------------------------------------------------------------
(* The input of the console *)

(* The n characters of the buffer b from the i-th after h on, n of them in a circle. *)
Circle(b, h, i, n) == [k \in 1..n |-> b[(h + i + k - 1) % TY_IBUFLEN]]

(* What may be typed, and what the buffer may hold. *)
Typable == Printable \cup Control \cup {"newline", "eof", "erase", "kill", "start", "stop"}
TyChars == Typable \cup {"none"}
InBuffers == [0..(TY_IBUFLEN - 1) -> TyChars]

LEMMA InSize == TY_IBUFLEN \in Nat \ {0}
PROOF BY TtySizes

LEMMA TypedIs ==
  ASSUME NEW i, NEW n
  PROVE  Typed(i, n) = Circle(tyibuff, tyihead, i, n)
PROOF BY DEF Typed, Circle

LEMMA CircleIs ==
  ASSUME NEW b \in InBuffers, NEW h \in Int, NEW i \in Nat, NEW n \in Nat
  PROVE  /\ Len(Circle(b, h, i, n)) = n
         /\ \A k \in 1..n : Circle(b, h, i, n)[k] = b[(h + i + k - 1) % TY_IBUFLEN]
         /\ Circle(b, h, i, n) \in Seq(TyChars)
PROOF
<1>1. \A k \in 1..n : h + i + k - 1 \in Int
  OBVIOUS
<1>2. \A j \in Int : b[j % TY_IBUFLEN] \in TyChars
  <2>1. \A j \in Int : j % TY_IBUFLEN \in 0..(TY_IBUFLEN - 1)
    BY InSize, ModIs
  <2> QED BY <2>1 DEF InBuffers
<1>3. \A k \in 1..n : b[(h + i + k - 1) % TY_IBUFLEN] \in TyChars
  BY <1>1, <1>2
<1> QED BY <1>3 DEF Circle

(* The head has moved by k. *)
LEMMA CircleMoves ==
  ASSUME NEW b \in InBuffers, NEW h \in Int, NEW i \in Int, NEW k \in Int, NEW n \in Nat,
         NEW g \in Int, g = (h + k) % TY_IBUFLEN, NEW o \in Int, o = i + k
  PROVE  Circle(b, g, i, n) = Circle(b, h, o, n)
PROOF
<1>1. ASSUME NEW j \in 1..n
      PROVE  (((h + k) % TY_IBUFLEN) + i + j - 1) % TY_IBUFLEN = (h + (i + k) + j - 1) % TY_IBUFLEN
  <2>1. PICK d \in Int, e \in Int : d = h + k /\ e = i + j - 1
    OBVIOUS
  <2>2. ((d % TY_IBUFLEN) + e) % TY_IBUFLEN = (d + e) % TY_IBUFLEN
    BY InSize, ModAdd
  <2>3. PICK r \in Int : r = d % TY_IBUFLEN
    BY InSize, ModIs
  <2>4. r + e = r + i + j - 1 /\ d + e = h + (i + k) + j - 1
    BY <2>1
  <2> QED BY <2>1, <2>2, <2>3, <2>4, Zenon
<1>2. ASSUME NEW j \in 1..n PROVE (g + i + j - 1) % TY_IBUFLEN = (h + o + j - 1) % TY_IBUFLEN
  BY <1>1, Zenon
<1> QED BY <1>2, Zenon DEF Circle

(* u is s and then t. *)
Joined(u, s, t) == u = s \o t

(* The character c has been stored at p, and nothing else. *)
PutAt(b, e, p, c) == e[p] = c /\ \A j \in Int : j % TY_IBUFLEN # p => e[j % TY_IBUFLEN] = b[j % TY_IBUFLEN]

(* What is stored behind the characters leaves them alone. *)
LEMMA CircleStays ==
  ASSUME NEW b \in InBuffers, NEW h \in Int, NEW i \in Nat, NEW n \in Nat, NEW m \in Nat, i + n <= m, m < TY_IBUFLEN,
         NEW e \in InBuffers, \A j \in Int : j % TY_IBUFLEN # (h + m) % TY_IBUFLEN => e[j % TY_IBUFLEN] = b[j % TY_IBUFLEN]
  PROVE  Circle(e, h, i, n) = Circle(b, h, i, n)
PROOF
<1>1. ASSUME NEW k \in 1..n
      PROVE  e[(h + i + k - 1) % TY_IBUFLEN] = b[(h + i + k - 1) % TY_IBUFLEN]
  <2>1. PICK p \in Int, q \in Int : p = h + i + k - 1 /\ q = h + m
    OBVIOUS
  <2>2. p < q /\ q - p < TY_IBUFLEN
    BY <2>1, InSize
  <2>3. p % TY_IBUFLEN # q % TY_IBUFLEN
    <3>1. p # q /\ p <= q
      BY <2>2
    <3> QED BY <2>2, <3>1, InSize, ModSame, Zenon
  <2>4. e[p % TY_IBUFLEN] = b[p % TY_IBUFLEN]
    BY <2>1, <2>3, Zenon
  <2> QED BY <2>1, <2>4, Zenon
<1> QED BY <1>1, Zenon DEF Circle

(* What is stored right behind them follows them. *)
LEMMA CircleGrows ==
  ASSUME NEW b \in InBuffers, NEW h \in Int, NEW i \in Nat, NEW n \in Nat, i + n < TY_IBUFLEN, NEW c \in TyChars,
         NEW e \in InBuffers, PutAt(b, e, (h + (i + n)) % TY_IBUFLEN, c), NEW l \in Nat, l = n + 1
  PROVE  Circle(e, h, i, l) = Append(Circle(b, h, i, n), c)
PROOF
<1>1. PICK m \in Nat : m = i + n
  OBVIOUS
<1>3. Circle(e, h, i, n) = Circle(b, h, i, n)
  <2>1. i + n <= m /\ m < TY_IBUFLEN
    BY <1>1
  <2>2. \A j \in Int : j % TY_IBUFLEN # (h + m) % TY_IBUFLEN => e[j % TY_IBUFLEN] = b[j % TY_IBUFLEN]
    BY <1>1, Zenon DEF PutAt
  <2> QED BY <2>1, <2>2, CircleStays
<1>4. e[(h + m) % TY_IBUFLEN] = c
  BY <1>1, Zenon DEF PutAt
<1>5. PICK s : s = Circle(e, h, i, n)
  OBVIOUS
<1>6. PICK t : t = Circle(e, h, i, l)
  OBVIOUS
<1>7. Len(s) = n /\ s \in Seq(TyChars) /\ \A k \in 1..n : s[k] = e[(h + i + k - 1) % TY_IBUFLEN]
  <2>1. /\ Len(Circle(e, h, i, n)) = n
        /\ \A k \in 1..n : Circle(e, h, i, n)[k] = e[(h + i + k - 1) % TY_IBUFLEN]
        /\ Circle(e, h, i, n) \in Seq(TyChars)
    BY ONLY e \in InBuffers, h \in Int, i \in Nat, n \in Nat, CircleIs
  <2> QED BY <1>5, <2>1, Zenon
<1>8. Len(t) = n + 1 /\ t \in Seq(TyChars) /\ \A k \in 1..(n + 1) : t[k] = e[(h + i + k - 1) % TY_IBUFLEN]
  <2>1. l = n + 1
    OBVIOUS
  <2>2. /\ Len(Circle(e, h, i, l)) = l
        /\ \A k \in 1..l : Circle(e, h, i, l)[k] = e[(h + i + k - 1) % TY_IBUFLEN]
        /\ Circle(e, h, i, l) \in Seq(TyChars)
    BY ONLY e \in InBuffers, h \in Int, i \in Nat, l \in Nat, CircleIs
  <2> QED BY <1>6, <2>1, <2>2, Zenon
<1>10. /\ Append(s, c) \in Seq(TyChars) /\ Len(Append(s, c)) = Len(s) + 1
       /\ \A k \in 1..Len(s) : Append(s, c)[k] = s[k]
       /\ Append(s, c)[Len(s) + 1] = c
  BY <1>7, AppendProperties
<1>11. ASSUME NEW k \in 1..Len(t) PROVE t[k] = Append(s, c)[k]
  <2>1. CASE k = n + 1
    <3>1. h + i + k - 1 = h + m /\ k \in 1..(n + 1)
      BY <1>1, <2>1
    <3>2. t[k] = c
      BY <1>4, <1>8, <3>1, Zenon
    <3> QED BY <1>7, <1>10, <2>1, <3>2, Zenon
  <2>2. CASE k # n + 1
    <3>1. k \in 1..n /\ k \in 1..(n + 1)
      BY <1>8, <2>2
    <3> QED BY <1>7, <1>8, <1>10, <3>1, Zenon
  <2> QED BY <2>1, <2>2
<1>12. t = Append(s, c)
  <2>1. Len(t) = Len(Append(s, c))
    BY <1>7, <1>8, <1>10, Zenon
  <2> QED BY <1>8, <1>10, <1>11, <2>1, SeqEqual, Zenon
<1> QED BY <1>3, <1>5, <1>6, <1>12, Zenon

LEMMA CircleSplits ==
  ASSUME NEW b \in InBuffers, NEW h \in Int, NEW i \in Nat, NEW n \in Nat, NEW m \in Nat,
         NEW j \in Nat, j = i + n, NEW l \in Nat, l = n + m
  PROVE  Joined(Circle(b, h, i, l), Circle(b, h, i, n), Circle(b, h, j, m))
PROOF
<1>0. j = i + n /\ l = n + m
  OBVIOUS
<1>1. PICK s : s = Circle(b, h, i, n)
  OBVIOUS
<1>2. PICK t : t = Circle(b, h, j, m)
  OBVIOUS
<1>3. PICK u : u = Circle(b, h, i, l)
  OBVIOUS
<1>4. Len(s) = n /\ s \in Seq(TyChars) /\ \A k \in 1..n : s[k] = b[(h + i + k - 1) % TY_IBUFLEN]
  <2>1. /\ Len(Circle(b, h, i, n)) = n
        /\ \A k \in 1..n : Circle(b, h, i, n)[k] = b[(h + i + k - 1) % TY_IBUFLEN]
        /\ Circle(b, h, i, n) \in Seq(TyChars)
    BY CircleIs
  <2> QED BY <1>1, <2>1, Zenon
<1>5. Len(t) = m /\ t \in Seq(TyChars) /\ \A k \in 1..m : t[k] = b[(h + j + k - 1) % TY_IBUFLEN]
  <2>1. /\ Len(Circle(b, h, j, m)) = m
        /\ \A k \in 1..m : Circle(b, h, j, m)[k] = b[(h + j + k - 1) % TY_IBUFLEN]
        /\ Circle(b, h, j, m) \in Seq(TyChars)
    BY CircleIs
  <2> QED BY <1>2, <2>1, Zenon
<1>6. Len(u) = l /\ u \in Seq(TyChars) /\ \A k \in 1..l : u[k] = b[(h + i + k - 1) % TY_IBUFLEN]
  <2>1. /\ Len(Circle(b, h, i, l)) = l
        /\ \A k \in 1..l : Circle(b, h, i, l)[k] = b[(h + i + k - 1) % TY_IBUFLEN]
        /\ Circle(b, h, i, l) \in Seq(TyChars)
    BY CircleIs
  <2> QED BY <1>3, <2>1, Zenon
<1>7. /\ s \o t \in Seq(TyChars) /\ Len(s \o t) = Len(s) + Len(t)
      /\ \A k \in 1..(Len(s) + Len(t)) : (s \o t)[k] = IF k <= Len(s) THEN s[k] ELSE t[k - Len(s)]
  BY <1>4, <1>5, ConcatProperties, ZenonT(30)
<1>8. ASSUME NEW k \in 1..Len(u) PROVE u[k] = (s \o t)[k]
  <2>1. k \in 1..(Len(s) + Len(t)) /\ k \in 1..l
    BY <1>0, <1>4, <1>5, <1>6
  <2>2. CASE k <= n
    <3>1. k \in 1..n
      BY <2>2, <2>1
    <3> QED BY <1>4, <1>6, <1>7, <2>1, <2>2, <3>1, Zenon
  <2>3. CASE ~(k <= n)
    <3>1. k - n \in 1..m /\ h + j + (k - n) - 1 = h + i + k - 1
      BY <1>0, <2>1, <2>3
    <3>2. t[k - n] = b[(h + j + (k - n) - 1) % TY_IBUFLEN]
      BY <1>5, <3>1, Zenon
    <3> QED BY <1>4, <1>6, <1>7, <2>1, <2>3, <3>1, <3>2, Zenon
  <2> QED BY <2>2, <2>3
<1>9. u = s \o t
  <2>1. Len(u) = Len(s \o t)
    BY <1>0, <1>4, <1>5, <1>6, <1>7, Zenon
  <2> QED BY <1>6, <1>7, <1>8, <2>1, SeqEqual, Zenon
<1> QED BY <1>0, <1>1, <1>2, <1>3, <1>9, Zenon DEF Joined

LEMMA CircleEnds ==
  ASSUME NEW b \in InBuffers, NEW h \in Int, NEW i \in Nat, NEW n \in Nat, NEW k \in 0..n,
         NEW j \in Nat, j = i + k, NEW m \in Nat, m = n - k
  PROVE  SubSeq(Circle(b, h, i, n), k + 1, n) = Circle(b, h, j, m)
PROOF
<1>1. m = n - k /\ j = i + k
  OBVIOUS
<1>2. k \in Nat /\ n = k + m
  BY <1>1
<1>3. Joined(Circle(b, h, i, n), Circle(b, h, i, k), Circle(b, h, j, m))
  BY <1>1, <1>2, CircleSplits
<1>4. PICK s : s = Circle(b, h, i, k) /\ Len(s) = k /\ s \in Seq(TyChars)
  BY <1>2, CircleIs
<1>5. PICK t : t = Circle(b, h, j, m) /\ Len(t) = m /\ t \in Seq(TyChars)
  BY CircleIs
<1>6. SubSeq(s \o t, k + 1, n) = t
  BY <1>1, <1>4, <1>5
<1> QED BY <1>1, <1>2, <1>3, <1>4, <1>5, <1>6, Zenon DEF Joined

LEMMA CircleBegins ==
  ASSUME NEW b \in InBuffers, NEW h \in Int, NEW i \in Nat, NEW n \in Nat \ {0}
  PROVE  SubSeq(Circle(b, h, i, n), 1, n - 1) = Circle(b, h, i, n - 1)
PROOF
<1>1. PICK m \in Nat, j \in Nat, o \in Nat : m = n - 1 /\ j = i + m /\ o = 1
  OBVIOUS
<1>2. n = m + o
  BY <1>1
<1>3. Joined(Circle(b, h, i, n), Circle(b, h, i, m), Circle(b, h, j, o))
  BY <1>1, <1>2, CircleSplits
<1>4. PICK s : s = Circle(b, h, i, m) /\ Len(s) = m /\ s \in Seq(TyChars)
  BY CircleIs
<1>5. PICK t : t = Circle(b, h, j, o) /\ Len(t) = o /\ t \in Seq(TyChars)
  BY CircleIs
<1>6. SubSeq(s \o t, 1, m) = s
  BY <1>1, <1>4, <1>5
<1> QED BY <1>1, <1>2, <1>3, <1>4, <1>5, <1>6, Zenon DEF Joined
-----------------------------------------------------------------------------
(* The readers in the middle of a read, and how many characters may be read. *)
Reads(rd) == {r \in TtyReaders : rd[r] > 0}

(* As long as nothing is spoilt, the buffer holds from its head on what may be read
   and then the line, up to the tail. *)
InInv ==
  /\ tyihead \in Int /\ tyibuff \in InBuffers /\ tyicursor \in Nat
  /\ tyimode \in {"raw", "cooked"}
  /\ reading \in [TtyReaders -> Nat]
  /\ \E W \in SUBSET Reads(reading) : SemOf(tyisem, W)
  /\ ~spoilt =>
       /\ Readable + tyicursor <= TY_IBUFLEN
       /\ tyitail = (tyihead + (Readable + tyicursor)) % TY_IBUFLEN
       /\ tyimode = "raw" => tyicursor = 0

(* What a step does to what LineEditing sees. *)
EditStep == spoilt' \/ Line!Next \/ UNCHANGED <<Typed(0, Readable), Typed(Readable, tyicursor)>>

LEMMA ReadsFinite ==
  ASSUME NEW rd
  PROVE  IsFiniteSet(Reads(rd)) /\ Cardinality(Reads(rd)) \in Nat
PROOF BY TtySizes, FS_Subset, FS_CardinalityType DEF Reads

LEMMA ReadableValue ==
  ASSUME NEW s, NEW rd \in [TtyReaders -> Nat], NEW W \in SUBSET Reads(rd), SemOf(s, W)
  PROVE  /\ PositiveOr0(s.count) + Cardinality(LetThrough(rd, s)) = s.count + Cardinality(Reads(rd))
         /\ s.count + Cardinality(Reads(rd)) \in Nat
         /\ \A r \in Reads(rd) : ~WaitsAt(r, s) => PositiveOr0(s.count) + 1 <= s.count + Cardinality(Reads(rd))
         /\ PositiveOr0(s.count) <= s.count + Cardinality(Reads(rd))
PROOF
<1>1. PICK c \in Int, P \in Nat : c = s.count /\ P = Cardinality(Reads(rd))
  BY ReadsFinite DEF SemOf
<1>2. \A p : WaitsAt(p, s) <=> p \in W
  BY SemWaits DEF WaitsAt
<1>3. LetThrough(rd, s) = Reads(rd) \ W
  <2>1. DOMAIN rd = TtyReaders
    OBVIOUS
  <2> QED BY <1>2, <2>1 DEF LetThrough, Reads
<1>4. IsFiniteSet(W) /\ Cardinality(W) = (IF c < 0 THEN -c ELSE 0)
  BY <1>1, SemCounts
<1>5. PICK l \in Nat : l = Cardinality(LetThrough(rd, s))
  BY <1>3, ReadsFinite, FS_Subset, FS_CardinalityType
<1>6. l = P - (IF c < 0 THEN -c ELSE 0)
  <2>1. Reads(rd) \cap W = W
    OBVIOUS
  <2>2. Cardinality(Reads(rd) \ W) = Cardinality(Reads(rd)) - Cardinality(Reads(rd) \cap W)
    BY ReadsFinite, FS_Difference
  <2> QED BY <1>1, <1>3, <1>4, <1>5, <2>1, <2>2
<1>7. PICK v \in Nat : v = PositiveOr0(s.count) /\ v = (IF c > 0 THEN c ELSE 0)
  BY <1>1 DEF PositiveOr0
<1>8. v + l = c + P
  BY <1>6, <1>7
<1>9. ASSUME NEW r \in Reads(rd), ~WaitsAt(r, s) PROVE l >= 1
  <2>1. r \in LetThrough(rd, s) /\ IsFiniteSet(LetThrough(rd, s))
    BY <1>2, <1>3, <1>9, ReadsFinite, FS_Subset
  <2>2. l # 0
    BY <1>5, <2>1, FS_EmptySet
  <2> QED BY <2>2
<1> QED BY <1>1, <1>5, <1>7, <1>8, <1>9

LEMMA ReadableIs ==
  ASSUME InInv
  PROVE  /\ Readable = tyisem.count + Cardinality(Reads(reading)) /\ Readable \in Nat
         /\ \A r \in Reads(reading) : ~WaitsAt(r, tyisem) => PositiveOr0(tyisem.count) + 1 <= Readable
         /\ PositiveOr0(tyisem.count) <= Readable
PROOF
<1>1. PICK W \in SUBSET Reads(reading) : SemOf(tyisem, W)
  BY DEF InInv
<1>2. reading \in [TtyReaders -> Nat]
  BY DEF InInv
<1>3. PICK n : n = tyisem.count + Cardinality(Reads(reading))
  OBVIOUS
<1>4. /\ PositiveOr0(tyisem.count) + Cardinality(LetThrough(reading, tyisem)) = n
      /\ n \in Nat
      /\ \A r \in Reads(reading) : ~WaitsAt(r, tyisem) => PositiveOr0(tyisem.count) + 1 <= n
      /\ PositiveOr0(tyisem.count) <= n
  BY <1>1, <1>2, <1>3, ReadableValue
<1>5. Readable = n
  BY <1>4 DEF Readable
<1> QED BY <1>3, <1>4, <1>5

(* Where what is read ends, of so many characters: at the first end, or the count. *)
LEMMA ReadEnds ==
  ASSUME NEW want \in Nat \ {0}, NEW units \in Nat, NEW ends \in SUBSET (1..units)
  PROVE  /\ Min({want, units} \cup ends) \in 0..units
         /\ units > 0 => Min({want, units} \cup ends) > 0
         /\ Min({want, units} \cup ends) <= want
         /\ Min({want, units} \cup ends) \in ends \cup {want, units}
PROOF
<1>1. PICK S : S = {want, units} \cup ends
  OBVIOUS
<1>2. CASE units = 0
  <2>1. S = {want, units}
    <3>1. ends = {}
      BY <1>2
    <3> QED BY <1>1, <3>1
  <2>2. Min({want, units}) = IF want <= units THEN want ELSE units
    <3>1. want \in Int /\ units \in Int
      OBVIOUS
    <3> QED BY <3>1, LeastOfTwo
  <2>3. Min(S) = 0
    BY <1>2, <2>1, <2>2
  <2> QED BY <1>1, <1>2, <2>3
<1>3. CASE units # 0
  <2>1. want + units \in Nat /\ S \in SUBSET (1..(want + units)) /\ S # {}
    BY <1>1, <1>3
  <2>2. Min(S) \in S /\ \A x \in S : Min(S) <= x
    BY <2>1, LeastIs
  <2>3. want \in S /\ units \in S
    BY <1>1
  <2>4. PICK m \in Nat : m = Min(S)
    <3>1. S \in SUBSET Nat
      BY <2>1
    <3> QED BY <2>2, <3>1, Zenon
  <2>5. m <= want /\ m <= units /\ m > 0 /\ m \in S
    BY <2>1, <2>2, <2>3, <2>4
  <2>6. m \in 0..units
    BY <2>5
  <2> QED BY <1>1, <2>4, <2>5, <2>6
<1> QED BY <1>2, <1>3

(* A read of k characters leaves the rest and the line. *)
LEMMA ReadsCircle ==
  ASSUME NEW b \in InBuffers, NEW h \in Int, NEW n \in Nat, NEW l \in Nat, NEW k \in 0..n,
         NEW m \in Nat, m = n - k, NEW g \in Int, g = (h + k) % TY_IBUFLEN
  PROVE  /\ Circle(b, g, 0, m) = SubSeq(Circle(b, h, 0, n), k + 1, n)
         /\ Circle(b, g, m, l) = Circle(b, h, n, l)
         /\ Len(Circle(b, h, 0, n)) = n
PROOF
<1>1. k \in Int /\ k \in Nat /\ 0 \in Nat /\ 0 \in Int /\ m \in Int /\ n \in Int /\ k = 0 + k /\ n = m + k
  OBVIOUS
<1>2. Circle(b, g, 0, m) = Circle(b, h, k, m)
  BY <1>1, CircleMoves
<1>3. SubSeq(Circle(b, h, 0, n), k + 1, n) = Circle(b, h, k, m)
  BY <1>1, CircleEnds
<1>4. Circle(b, g, m, l) = Circle(b, h, n, l)
  BY <1>1, CircleMoves
<1>6. Len(Circle(b, h, 0, n)) = n
  BY <1>1, CircleIs
<1> QED BY <1>2, <1>3, <1>4, <1>6, Zenon

(* A read that takes k characters, of which extra is one it had a unit for. *)
LEMMA ReadOnKeeps ==
  ASSUME InInv, ~spoilt, NEW r \in TtyReaders, NEW want \in Nat \ {0}, NEW how, NEW extra \in {0, 1},
         ReadOn(r, want, how, extra),
         extra = 0 => reading[r] = 0,
         extra = 1 => reading[r] > 0 /\ ~WaitsAt(r, tyisem)
  PROVE  InInv' /\ EditStep
PROOF
<1>1. PICK W \in SUBSET Reads(reading) : SemOf(tyisem, W)
  BY DEF InInv
<1>2. PICK c \in Int, P \in Nat, n \in Nat : c = tyisem.count /\ P = Cardinality(Reads(reading)) /\ n = Readable
  BY <1>1, ReadsFinite, ReadableIs DEF SemOf
<1>3. n = c + P
  BY <1>2, ReadableIs
<1>4. PICK units \in Nat : units = (IF c > 0 THEN c ELSE 0) + extra /\ units = PositiveOr0(tyisem.count) + extra
  BY <1>2 DEF PositiveOr0
<1>5. units <= n
  <2>1. CASE extra = 0
    BY <1>2, <1>4, <2>1, ReadableIs
  <2>2. CASE extra = 1
    <3>1. r \in Reads(reading) /\ ~WaitsAt(r, tyisem)
      BY <2>2 DEF Reads
    <3> QED BY <1>2, <1>4, <2>2, <3>1, ReadableIs
  <2> QED BY <2>1, <2>2
<1>6. PICK ends : ends = (IF how = "raw" THEN {} ELSE LineEnds(units))
                         \cup (IF units > 0 /\ AtEndOfFile(how) THEN {1} ELSE {})
  OBVIOUS
<1>7. ends \in SUBSET (1..units)
  BY <1>6 DEF LineEnds
<1>8. PICK k \in 0..units : /\ k = Min({want, units} \cup ends) /\ (units > 0 => k > 0) /\ k <= want
                            /\ k \in ends \cup {want, units}
  BY <1>7, ReadEnds
<1>9. PICK done \in BOOLEAN : done = (k = want \/ k \in ends)
  OBVIOUS
<1>10. PICK left : left = [tyisem EXCEPT !.count = @ - (k - extra)]
  OBVIOUS
<1>11. /\ tyihead' = (tyihead + k) % TY_IBUFLEN
       /\ tyisem' = (IF done THEN left ELSE Blocks(left, r))
       /\ reading' = [reading EXCEPT ![r] = IF done THEN 0 ELSE want - k]
       /\ UNCHANGED <<tyitail, tyibuff, tyicursor, tyimode, spoilt>>
  <2>1. units = PositiveOr0(tyisem.count) + extra
    BY <1>4
  <2> QED BY <1>6, <1>8, <1>9, <1>10, <2>1, Zenon DEF ReadOn
<1>12. left.count = c - (k - extra) /\ left.queue = tyisem.queue /\ left = [count |-> left.count, queue |-> left.queue]
  BY <1>1, <1>2, <1>10 DEF SemOf
<1>13. r \notin W
  BY <1>1, SemWaits DEF Reads, WaitsAt
<1>14. (r \in Reads(reading) <=> extra = 1) /\ IsFiniteSet(Reads(reading))
  BY ReadsFinite DEF Reads, InInv
<1>15. ASSUME done PROVE k > 0
  <2>1. k = want \/ k \in ends
    BY <1>9, <1>15, Zenon
  <2> QED BY <1>7, <2>1
<1>16. ASSUME ~done PROVE k = units /\ want - k > 0 /\ want - k \in Nat
  <2>1. k # want /\ k \notin ends
    BY <1>9, <1>16, Zenon
  <2> QED BY <1>8, <2>1
<1>17. /\ reading' \in [TtyReaders -> Nat] /\ reading'[r] = (IF done THEN 0 ELSE want - k)
       /\ \A v \in TtyReaders : v # r => reading'[v] = reading[v]
  BY <1>11, <1>16 DEF InInv
<1>18. /\ \E V \in SUBSET Reads(reading') : SemOf(tyisem', V)
       /\ tyisem'.count + Cardinality(Reads(reading')) = n - k
  <2>1. CASE done
    <3>1. tyisem' = left
      BY <1>11, <2>1
    <3>2. Reads(reading') = Reads(reading) \ {r}
      BY <1>17, <2>1 DEF Reads
    <3>3. Cardinality(Reads(reading')) = P - extra
      <4>1. PICK Q : Q = Reads(reading)
        OBVIOUS
      <4>2. Cardinality(Q \ {r}) = IF r \in Q THEN Cardinality(Q) - 1 ELSE Cardinality(Q)
        BY <1>14, <4>1, FS_RemoveElement
      <4>3. Cardinality(Q \ {r}) = Cardinality(Reads(reading')) /\ Cardinality(Q) = P /\ (r \in Q <=> extra = 1)
        BY <1>2, <1>14, <3>2, <4>1
      <4> QED BY <4>2, <4>3
    <3>4. SemOf(tyisem', W)
      <4>1. CASE W = {}
        <5>1. c >= 0 /\ tyisem.queue = left.queue /\ Len(tyisem.queue) = 0 /\ QueueOf(tyisem.queue, W)
          <6>1. tyisem.count >= 0 /\ QueueOf(tyisem.queue, W)
                /\ Len(tyisem.queue) = (IF tyisem.count < 0 THEN -tyisem.count ELSE 0)
            BY <1>1, <4>1, SemEmpty DEF SemOf
          <6>2. tyisem.queue = left.queue
            BY <1>12
          <6> QED BY <1>2, <6>1, <6>2
        <5>2. left.count >= 0 /\ left.count \in Int
          BY <1>4, <1>12, <5>1
        <5> QED BY <1>12, <3>1, <5>1, <5>2 DEF SemOf
      <4>2. CASE W # {}
        <5>1. c < 0
          BY <1>1, <1>2, <4>2, SemEmpty
        <5>2. k = extra
          BY <1>4, <1>8, <1>15, <2>1, <5>1
        <5>3. left.count = c
          BY <1>2, <1>12, <5>2
        <5>4. left = tyisem
          BY <1>1, <1>2, <1>12, <5>3 DEF SemOf
        <5> QED BY <1>1, <3>1, <5>4
      <4> QED BY <4>1, <4>2
    <3>5. W \in SUBSET Reads(reading')
      BY <1>13, <3>2
    <3>6. c - (k - extra) + (P - extra) = n - k
      BY <1>3
    <3> QED BY <1>12, <3>1, <3>3, <3>4, <3>5, <3>6
  <2>2. CASE ~done
    <3>1. tyisem' = Blocks(left, r)
      BY <1>11, <2>2
    <3>2. k = units /\ want - k > 0
      BY <1>16, <2>2
    <3>3. Reads(reading') = Reads(reading) \cup {r}
      BY <1>17, <2>2, <3>2 DEF Reads
    <3>4. Cardinality(Reads(reading')) = P + (1 - extra)
      <4>1. Cardinality(Reads(reading')) = IF r \in Reads(reading) THEN P ELSE P + 1
        <5>1. PICK Q : Q = Reads(reading)
          OBVIOUS
        <5>2. Cardinality(Q \cup {r}) = IF r \in Q THEN Cardinality(Q) ELSE Cardinality(Q) + 1
          BY <1>14, <5>1, FS_AddElement
        <5> QED BY <1>2, <3>3, <5>1, <5>2
      <4> QED BY <1>14, <4>1
    <3>5. PICK v \in Int : v = left.count /\ v = c - (IF c > 0 THEN c ELSE 0) /\ v <= 0
      BY <1>2, <1>4, <1>12, <3>2
    <3>6. SemOf(left, W)
      <4>1. QueueOf(left.queue, W) /\ Len(left.queue) = (IF c < 0 THEN -c ELSE 0)
        BY <1>1, <1>2, <1>12 DEF SemOf
      <4>2. (IF c < 0 THEN -c ELSE 0) = (IF v < 0 THEN -v ELSE 0)
        BY <3>5
      <4> QED BY <1>12, <3>5, <4>1, <4>2 DEF SemOf
    <3>7. ~Passes(left)
      BY <3>5 DEF Passes
    <3>8. SemOf(tyisem', W \cup {r}) /\ tyisem'.count = left.count - 1
      BY <1>13, <3>1, <3>6, <3>7, SemBlocks
    <3>9. W \cup {r} \in SUBSET Reads(reading')
      BY <3>3
    <3>10. (v - 1) + (P + (1 - extra)) = n - k
      BY <1>3, <1>4, <3>2, <3>5
    <3> QED BY <3>4, <3>5, <3>8, <3>9, <3>10
  <2> QED BY <2>1, <2>2
<1>19. PICK m \in Nat : m = n - k
  BY <1>5, <1>8
<1>20. Readable' = m
  <2>1. PICK V \in SUBSET Reads(reading') : SemOf(tyisem', V)
    BY <1>18
  <2>2. PositiveOr0(tyisem'.count) + Cardinality(LetThrough(reading', tyisem'))
        = tyisem'.count + Cardinality(Reads(reading'))
    BY <1>17, <2>1, ReadableValue
  <2> QED BY <1>18, <1>19, <2>2 DEF Readable
<1>21. PICK h \in Int, g \in Int, l \in Nat, b \in InBuffers :
         h = tyihead /\ g = tyihead' /\ g = (h + k) % TY_IBUFLEN /\ l = tyicursor /\ b = tyibuff
  <2>1. PICK h \in Int, j \in Int : h = tyihead /\ j = h + k
    BY DEF InInv
  <2>2. j % TY_IBUFLEN \in Int
    BY InSize, ModIs
  <2> QED BY <1>11, <2>1, <2>2 DEF InInv
<1>22. InInv'
  <2>1. tyihead' \in Int /\ tyibuff' \in InBuffers /\ tyicursor' = l /\ tyimode' = tyimode /\ tyimode' \in {"raw", "cooked"}
    BY <1>11, <1>21 DEF InInv
  <2>2. n + l <= TY_IBUFLEN /\ tyitail = (h + (n + l)) % TY_IBUFLEN /\ (tyimode = "raw" => l = 0)
    BY <1>2, <1>21 DEF InInv
  <2>3. m + l <= TY_IBUFLEN
    BY <1>8, <1>19, <2>2, InSize
  <2>4. tyitail' = (g + (m + l)) % TY_IBUFLEN
    <3>1. PICK d \in Int, e \in Int : d = h + k /\ e = m + l
      OBVIOUS
    <3>2. ((d % TY_IBUFLEN) + e) % TY_IBUFLEN = (d + e) % TY_IBUFLEN
      BY InSize, ModAdd
    <3>3. d + e = h + (n + l)
      BY <1>19, <3>1
    <3> QED BY <1>11, <1>21, <2>2, <3>1, <3>2, <3>3, Zenon
  <2>5. tyicursor' \in Nat /\ (tyimode' = "raw" => tyicursor' = 0)
    BY <2>1, <2>2
  <2>6. Readable' + tyicursor' <= TY_IBUFLEN /\ tyitail' = (tyihead' + (Readable' + tyicursor')) % TY_IBUFLEN
    BY <1>20, <1>21, <2>1, <2>3, <2>4, Zenon
  <2> QED BY <1>17, <1>18, <2>1, <2>5, <2>6 DEF InInv
<1>23. EditStep
  <2>1. k \in 0..n
    BY <1>5, <1>8
  <2>2. /\ Circle(b, g, 0, m) = SubSeq(Circle(b, h, 0, n), k + 1, n)
        /\ Circle(b, g, m, l) = Circle(b, h, n, l)
        /\ Len(Circle(b, h, 0, n)) = n
    BY SMTT(30), <1>19, <1>21, <2>1, ReadsCircle
  <2>3. /\ Typed(0, Readable) = Circle(b, h, 0, n) /\ Typed(Readable, tyicursor) = Circle(b, h, n, l)
    BY <1>2, <1>21, TypedIs, Zenon
  <2>4. Typed(0, Readable)' = Circle(b, g, 0, m) /\ Typed(Readable, tyicursor)' = Circle(b, g, m, l)
    BY <1>11, <1>20, <1>21, Zenon DEF Typed, Circle
  <2>5. CASE k = 0
    <3>1. Circle(b, g, 0, m) = Circle(b, h, 0, n)
      <4>1. 0 \in Int /\ k \in Int /\ m = n /\ 0 = 0 + k
        BY <1>19, <2>5
      <4> QED BY <1>21, <4>1, CircleMoves
    <3> QED BY <2>2, <2>3, <2>4, <2>5, <3>1 DEF EditStep
  <2>6. CASE k # 0
    <3>1. k \in 1..n
      BY <2>1, <2>6
    <3>2. Line!Read
      BY <2>2, <2>3, <2>4, <3>1, Zenon DEF Line!Read
    <3> QED BY <3>2 DEF EditStep, Line!Next
  <2> QED BY <2>5, <2>6
<1> QED BY <1>22, <1>23

LEMMA NoCircle ==
  ASSUME NEW b \in InBuffers, NEW h \in Int, NEW i \in Nat
  PROVE  Circle(b, h, i, 0) = <<>>
PROOF
<1>1. 0 \in Nat
  OBVIOUS
<1>2. PICK s : s = Circle(b, h, i, 0)
  OBVIOUS
<1>3. s \in Seq(TyChars) /\ Len(s) = 0
  BY <1>1, <1>2, CircleIs
<1>4. s = <<>>
  BY <1>3
<1> QED BY <1>2, <1>4

(* A character stored behind the line makes it longer; or it ends it. *)
Behind(b, e, h, n, l, m, o, c) ==
  /\ Circle(e, h, 0, n) = Circle(b, h, 0, n)
  /\ Circle(e, h, n, m) = Append(Circle(b, h, n, l), c)
  /\ Circle(e, h, 0, o) = Circle(b, h, 0, n) \o Append(Circle(b, h, n, l), c)
  /\ Circle(e, h, o, 0) = <<>>
  /\ Len(Circle(b, h, 0, n)) = n /\ Len(Circle(b, h, n, l)) = l

LEMMA StoredBehind ==
  ASSUME NEW b \in InBuffers, NEW h \in Int, NEW n \in Nat, NEW l \in Nat, n + l < TY_IBUFLEN,
         NEW c \in TyChars, NEW e \in InBuffers, PutAt(b, e, (h + (n + l)) % TY_IBUFLEN, c),
         NEW m \in Nat, m = l + 1, NEW o \in Nat, o = n + m
  PROVE  Behind(b, e, h, n, l, m, o, c)
PROOF
<1>1. PICK j \in Nat, z \in Nat : j = n + l /\ z = 0
  OBVIOUS
<1>2. \A i \in Int : i % TY_IBUFLEN # (h + j) % TY_IBUFLEN => e[i % TY_IBUFLEN] = b[i % TY_IBUFLEN]
  BY <1>1, Zenon DEF PutAt
<1>3. Circle(e, h, z, n) = Circle(b, h, z, n)
  <2>1. z + n <= j /\ j < TY_IBUFLEN
    BY <1>1
  <2> QED BY <1>2, <2>1, CircleStays
<1>4. Circle(e, h, n, m) = Append(Circle(b, h, n, l), c)
  BY CircleGrows
<1>5. Joined(Circle(e, h, z, o), Circle(e, h, z, n), Circle(e, h, n, m))
  <2>1. n = z + n /\ o = n + m
    BY <1>1
  <2> QED BY <2>1, CircleSplits
<1>6. Circle(e, h, o, z) = <<>>
  BY <1>1, NoCircle, Zenon
<1>7. Len(Circle(b, h, z, n)) = n
  BY CircleIs
<1>8. Len(Circle(b, h, n, l)) = l
  BY CircleIs
<1> QED BY <1>1, <1>3, <1>4, <1>5, <1>6, <1>7, <1>8, Zenon DEF Joined, Behind

LEMMA PutAtIs ==
  ASSUME NEW b \in InBuffers, NEW i \in Int, NEW c \in TyChars
  PROVE  [b EXCEPT ![i % TY_IBUFLEN] = c] \in InBuffers /\ PutAt(b, [b EXCEPT ![i % TY_IBUFLEN] = c], i % TY_IBUFLEN, c)
PROOF
<1>1. i % TY_IBUFLEN \in 0..(TY_IBUFLEN - 1)
  BY InSize, ModIs
<1>2. DOMAIN b = 0..(TY_IBUFLEN - 1)
  BY DEF InBuffers
<1>3. [b EXCEPT ![i % TY_IBUFLEN] = c] \in InBuffers
  BY DEF InBuffers
<1>4. ASSUME NEW j \in Int, j % TY_IBUFLEN # i % TY_IBUFLEN
      PROVE  [b EXCEPT ![i % TY_IBUFLEN] = c][j % TY_IBUFLEN] = b[j % TY_IBUFLEN]
  <2>1. j % TY_IBUFLEN \in DOMAIN b
    BY <1>2, InSize, ModIs
  <2> QED BY <1>4, <2>1, Zenon
<1>5. [b EXCEPT ![i % TY_IBUFLEN] = c][i % TY_IBUFLEN] = c
  BY <1>1, <1>2, Zenon
<1> QED BY <1>3, <1>4, <1>5, Zenon DEF PutAt

(* The semaphore is signalled m times, and m more characters may be read. *)
LEMMA UnitsAdded ==
  ASSUME InInv, UNCHANGED reading, NEW m \in Nat,
         \/ m = 0 /\ tyisem' = tyisem
         \/ m = 1 /\ tyisem' = Signal(tyisem)
         \/ m > 0 /\ tyisem' = SignalN(tyisem, m)
  PROVE  (\E V \in SUBSET Reads(reading') : SemOf(tyisem', V)) /\ Readable' = Readable + m
PROOF
<1>1. PICK W \in SUBSET Reads(reading) : SemOf(tyisem, W)
  BY DEF InInv
<1>2. tyisem'.count = tyisem.count + m /\ \E V \in SUBSET W : SemOf(tyisem', V)
  <2>1. CASE m = 0 /\ tyisem' = tyisem
    BY <1>1, <2>1 DEF SemOf
  <2>2. CASE m = 1 /\ tyisem' = Signal(tyisem)
    <3>1. tyisem.count \in Int /\ Signal(tyisem).count = tyisem.count + 1
      BY <1>1, SemSignal DEF SemOf
    <3>2. tyisem.count >= 0 \/ tyisem.count < 0
      BY <3>1
    <3>3. \E V \in SUBSET W : SemOf(Signal(tyisem), V)
      BY <1>1, <3>2, SemSignal
    <3> QED BY <2>2, <3>1, <3>3
  <2>3. CASE m > 0 /\ tyisem' = SignalN(tyisem, m)
    <3>1. m \in Nat \ {0}
      BY <2>3
    <3> QED BY <1>1, <2>3, <3>1, SemSignalN
  <2> QED BY <2>1, <2>2, <2>3
<1>3. PICK V \in SUBSET Reads(reading') : SemOf(tyisem', V)
  BY <1>1, <1>2
<1>4. reading' \in [TtyReaders -> Nat]
  BY DEF InInv
<1>5. Readable' = tyisem'.count + Cardinality(Reads(reading'))
  <2>1. PositiveOr0(tyisem'.count) + Cardinality(LetThrough(reading', tyisem'))
        = tyisem'.count + Cardinality(Reads(reading'))
    BY <1>3, <1>4, ReadableValue
  <2> QED BY <2>1 DEF Readable
<1>6. PICK a \in Int, P \in Nat : a = tyisem.count /\ P = Cardinality(Reads(reading))
  BY <1>1, ReadsFinite DEF SemOf
<1>7. Readable = a + P /\ Readable' = (a + m) + P
  BY <1>2, <1>5, <1>6, ReadableIs
<1> QED BY <1>3, <1>6, <1>7

(* What is left to show of a character, once the semaphore is known. *)
LEMMA EditInv ==
  ASSUME InInv, UNCHANGED <<tyihead, tyimode, reading>>,
         \E V \in SUBSET Reads(reading') : SemOf(tyisem', V),
         tyibuff' \in InBuffers, tyicursor' \in Nat,
         spoilt' \/ /\ Readable' + tyicursor' <= TY_IBUFLEN
                    /\ tyitail' = (tyihead + (Readable' + tyicursor')) % TY_IBUFLEN
                    /\ tyimode = "raw" => tyicursor' = 0
  PROVE  InInv'
PROOF BY DEF InInv

(* A character that is not stored: the line is as long as the tail says. *)
LEMMA TailBack ==
  ASSUME NEW h \in Int, NEW j \in Int, NEW k \in Int
  PROVE  (((h + j) % TY_IBUFLEN) - k) % TY_IBUFLEN = (h + (j - k)) % TY_IBUFLEN
PROOF
<1>1. PICK d \in Int, m \in Int : d = h + j /\ m = -k
  OBVIOUS
<1>2. ((d % TY_IBUFLEN) + m) % TY_IBUFLEN = (d + m) % TY_IBUFLEN
  BY InSize, ModAdd
<1>3. PICK r \in Int : r = d % TY_IBUFLEN
  BY InSize, ModIs
<1>4. r + m = r - k /\ d + m = h + (j - k)
  BY <1>1
<1> QED BY <1>1, <1>2, <1>3, <1>4, Zenon

(* The tail goes on by one. *)
LEMMA TailOn ==
  ASSUME NEW d \in Int
  PROVE  ((d % TY_IBUFLEN) + 1) % TY_IBUFLEN = (d + 1) % TY_IBUFLEN
PROOF
<1>1. PICK m \in Int : m = 1
  OBVIOUS
<1>2. ((d % TY_IBUFLEN) + m) % TY_IBUFLEN = (d + m) % TY_IBUFLEN
  BY InSize, ModAdd
<1> QED BY <1>1, <1>2, Zenon

LEMMA HandleInEdits ==
  ASSUME InInv, NEW c \in Typable, TtyHandleIn(c)
  PROVE  InInv' /\ EditStep
PROOF
<1>1. PICK h \in Int, n \in Nat, l \in Nat, b \in InBuffers :
        h = tyihead /\ n = Readable /\ l = tyicursor /\ b = tyibuff
  BY ReadableIs DEF InInv
<1>2. ~spoilt /\ UNCHANGED <<tyihead, tyimode, reading>>
  BY DEF TtyHandleIn, TtySound
<1>3. n + l <= TY_IBUFLEN /\ tyitail = (h + (n + l)) % TY_IBUFLEN /\ (tyimode = "raw" => l = 0)
      /\ tyimode \in {"raw", "cooked"}
  BY <1>1, <1>2 DEF InInv
<1>4. Typed(0, Readable) = Circle(b, h, 0, n) /\ Typed(Readable, tyicursor) = Circle(b, h, n, l)
  BY <1>1, TypedIs, Zenon
<1>5. ASSUME NEW e, NEW o, NEW k, tyibuff' = e, Readable' = o, tyicursor' = k
      PROVE  Typed(0, Readable)' = Circle(e, h, 0, o) /\ Typed(Readable, tyicursor)' = Circle(e, h, o, k)
  BY <1>1, <1>2, <1>5, Zenon DEF Typed, Circle
<1>6. PICK d \in Int : d = h + (n + l)
  OBVIOUS
<1>7. c \in TyChars
  BY DEF TyChars
(* Nothing happens to the buffer. *)
<1>8. ASSUME tyibuff' = b, tyisem' = tyisem, tyicursor' = l, tyitail' = tyitail PROVE InInv' /\ EditStep
  <2>1. (\E V \in SUBSET Reads(reading') : SemOf(tyisem', V)) /\ Readable' = Readable + 0
    BY <1>2, <1>8, UnitsAdded
  <2>2. Readable' = n
    BY <1>1, <2>1
  <2>3. InInv'
    BY <1>1, <1>2, <1>3, <1>8, <2>1, <2>2, EditInv
  <2>4. EditStep
    BY <1>4, <1>5, <1>8, <2>2, Zenon DEF EditStep
  <2> QED BY <2>3, <2>4
(* The character is stored. *)
<1>9. ASSUME NEW e, e = [tyibuff EXCEPT ![tyitail] = c]
      PROVE  e \in InBuffers /\ PutAt(b, e, (h + (n + l)) % TY_IBUFLEN, c)
  <2>1. e = [b EXCEPT ![d % TY_IBUFLEN] = c]
    BY <1>1, <1>3, <1>6, <1>9, Zenon
  <2>2. [b EXCEPT ![d % TY_IBUFLEN] = c] \in InBuffers /\ PutAt(b, [b EXCEPT ![d % TY_IBUFLEN] = c], d % TY_IBUFLEN, c)
    BY <1>7, PutAtIs
  <2> QED BY <1>6, <2>1, <2>2, Zenon
<1>10. ASSUME StoreTyped(c)
       PROVE  /\ tyibuff' \in InBuffers /\ PutAt(b, tyibuff', (h + (n + l)) % TY_IBUFLEN, c)
              /\ ~spoilt' => n + l < TY_IBUFLEN
              /\ tyitail' = (h + ((n + l) + 1)) % TY_IBUFLEN
  <2>1. /\ tyibuff' = [tyibuff EXCEPT ![tyitail] = c] /\ tyitail' = (tyitail + 1) % TY_IBUFLEN
        /\ spoilt' = (n + l >= TY_IBUFLEN)
    BY <1>1, <1>10, Zenon DEF StoreTyped
  <2>2. tyibuff' \in InBuffers /\ PutAt(b, tyibuff', (h + (n + l)) % TY_IBUFLEN, c)
    BY <1>9, <2>1, Zenon
  <2>3. ((d % TY_IBUFLEN) + 1) % TY_IBUFLEN = (d + 1) % TY_IBUFLEN
    BY TailOn
  <2>4. d + 1 = h + ((n + l) + 1)
    BY <1>6
  <2>5. tyitail' = (h + ((n + l) + 1)) % TY_IBUFLEN
    BY <1>3, <1>6, <2>1, <2>3, <2>4, Zenon
  <2>6. ~(n + l >= TY_IBUFLEN) => n + l < TY_IBUFLEN
    BY InSize
  <2>7. ~spoilt' => n + l < TY_IBUFLEN
    BY <2>1, <2>6, Zenon
  <2> QED BY <2>2, <2>5, <2>7
<1>11. CASE RawChar(c)
  <2>1. l = 0 /\ tyicursor' = l
    BY <1>1, <1>3, <1>11 DEF RawChar
  <2>2. CASE ~(Avail < TY_IBUFLEN)
    <3>1. UNCHANGED <<tyibuff, tyitail, tyisem>>
      BY <1>11, <2>2, Zenon DEF RawChar, NothingStored
    <3> QED BY <1>1, <1>8, <2>1, <3>1
  <2>3. CASE Avail < TY_IBUFLEN
    <3>1. StoreTyped(c) /\ tyisem' = Signal(tyisem)
      BY <1>11, <2>3, Zenon DEF RawChar
    <3>2. (\E V \in SUBSET Reads(reading') : SemOf(tyisem', V)) /\ Readable' = Readable + 1
      BY <1>2, <3>1, UnitsAdded
    <3>3. PICK o \in Nat, m \in Nat : o = n + 1 /\ o = n + m /\ m = l + 1 /\ Readable' = o
      BY <1>1, <2>1, <3>2
    <3>4. PICK e \in InBuffers : e = tyibuff' /\ PutAt(b, e, (h + (n + l)) % TY_IBUFLEN, c)
      BY <1>10, <3>1
    <3>5. CASE spoilt'
      <4>1. InInv'
        BY <1>1, <1>2, <2>1, <3>2, <3>4, <3>5, EditInv
      <4> QED BY <3>5, <4>1 DEF EditStep
    <3>6. CASE ~spoilt'
      <4>1. n + l < TY_IBUFLEN /\ tyitail' = (h + ((n + l) + 1)) % TY_IBUFLEN
        BY <1>10, <3>1, <3>6
      <4>2. Readable' + tyicursor' = (n + l) + 1 /\ Readable' + tyicursor' <= TY_IBUFLEN
        BY <2>1, <3>3, <4>1, InSize
      <4>3. InInv'
        BY <1>1, <1>2, <2>1, <3>2, <3>4, <4>1, <4>2, EditInv
      <4>4. /\ Circle(e, h, 0, o) = Circle(b, h, 0, n) \o Append(Circle(b, h, n, l), c)
            /\ Circle(e, h, o, 0) = <<>> /\ Len(Circle(b, h, 0, n)) = n
        <5>1. Behind(b, e, h, n, l, m, o, c)
          BY <1>7, <3>3, <3>4, <4>1, StoredBehind
        <5> QED BY <5>1, Zenon DEF Behind
      <4>5. Circle(b, h, n, l) = <<>>
        BY <2>1, NoCircle, Zenon
      <4>6. Circle(e, h, 0, o) = Append(Circle(b, h, 0, n), c)
        <5>1. PICK s : s = Circle(b, h, 0, n) /\ s \in Seq(TyChars)
          <6>1. 0 \in Nat
            OBVIOUS
          <6>2. Circle(b, h, 0, n) \in Seq(TyChars)
            BY <6>1, CircleIs
          <6> QED BY <6>2
        <5>2. s \o Append(<<>>, c) = Append(s, c)
          BY <1>7, <5>1
        <5> QED BY <4>4, <4>5, <5>1, <5>2, Zenon
      <4>7. Line!TypeRaw
        <5>1. Typed(0, Readable)' = Circle(e, h, 0, o) /\ Typed(Readable, tyicursor)' = Circle(e, h, o, 0)
          BY <1>5, <2>1, <3>3, <3>4
        <5>2. n < TY_IBUFLEN
          BY <2>1, <4>1, InSize
        <5> QED BY <1>4, <4>4, <4>5, <4>6, <5>1, <5>2, Zenon DEF Line!TypeRaw, Typable
      <4> QED BY <4>3, <4>7 DEF EditStep, Line!Next
    <3> QED BY <3>5, <3>6
  <2> QED BY <2>2, <2>3
<1>12. CASE FlowControl(c) \/ BellChar(c)
  BY <1>1, <1>8, <1>12 DEF FlowControl, BellChar, NothingStored
<1>13. CASE KillChar(c)
  <2>1. tyitail' = (tyitail - l) % TY_IBUFLEN /\ tyicursor' = 0 /\ tyibuff' = b /\ tyisem' = tyisem
    BY <1>1, <1>13, Zenon DEF KillChar, CursorReset
  <2>2. (\E V \in SUBSET Reads(reading') : SemOf(tyisem', V)) /\ Readable' = Readable + 0
    BY <1>2, <2>1, UnitsAdded
  <2>3. Readable' = n /\ Readable' + tyicursor' = n
    BY <1>1, <2>1, <2>2
  <2>4. tyitail' = (h + n) % TY_IBUFLEN
    <3>1. PICK j \in Int : j = n + l
      OBVIOUS
    <3>2. (((h + j) % TY_IBUFLEN) - l) % TY_IBUFLEN = (h + (j - l)) % TY_IBUFLEN
      BY TailBack
    <3>3. j - l = n
      BY <3>1
    <3> QED BY <1>3, <2>1, <3>1, <3>2, <3>3, Zenon
  <2>5. n <= TY_IBUFLEN
    BY <1>3, InSize
  <2>6. InInv'
    BY <1>1, <1>2, <2>1, <2>2, <2>3, <2>4, <2>5, EditInv
  <2>7. Line!KillLine
    <3>1. Typed(0, Readable)' = Circle(b, h, 0, n) /\ Typed(Readable, tyicursor)' = Circle(b, h, n, 0)
      BY <1>5, <2>1, <2>3
    <3> QED BY <1>4, <3>1, NoCircle, Zenon DEF Line!KillLine
  <2> QED BY <2>6, <2>7 DEF EditStep, Line!Next
<1>14. CASE EraseChar(c)
  <2>1. tyibuff' = b /\ tyisem' = tyisem
    BY <1>1, <1>14, Zenon DEF EraseChar
  <2>2. CASE l = 0
    <3>1. tyitail' = tyitail /\ tyicursor' = l
      BY <1>1, <1>14, <2>2 DEF EraseChar
    <3> QED BY <1>8, <2>1, <3>1
  <2>3. CASE l # 0
    <3>1. tyitail' = (tyitail - 1) % TY_IBUFLEN /\ tyicursor' = l - 1
      BY <1>1, <1>14, <2>3 DEF EraseChar
    <3>2. PICK m \in Nat : m = l - 1 /\ tyicursor' = m
      BY <2>3, <3>1
    <3>3. (\E V \in SUBSET Reads(reading') : SemOf(tyisem', V)) /\ Readable' = Readable + 0
      BY <1>2, <2>1, UnitsAdded
    <3>4. Readable' = n /\ Readable' + tyicursor' = n + m
      BY <1>1, <3>2, <3>3
    <3>5. tyitail' = (h + (n + m)) % TY_IBUFLEN
      <4>1. PICK j \in Int : j = n + l
        OBVIOUS
      <4>2. (((h + j) % TY_IBUFLEN) - 1) % TY_IBUFLEN = (h + (j - 1)) % TY_IBUFLEN
        BY TailBack
      <4>3. j - 1 = n + m
        BY <3>2, <4>1
      <4> QED BY <1>3, <3>1, <4>1, <4>2, <4>3, Zenon
    <3>6. n + m <= TY_IBUFLEN /\ ~(tyimode = "raw")
      BY <1>3, <2>3, <3>2, InSize
    <3>7. InInv'
      BY <1>1, <1>2, <2>1, <3>2, <3>3, <3>4, <3>5, <3>6, EditInv
    <3>8. Line!EraseOne
      <4>1. Typed(0, Readable)' = Circle(b, h, 0, n) /\ Typed(Readable, tyicursor)' = Circle(b, h, n, m)
        BY <1>5, <2>1, <3>2, <3>4
      <4>2. SubSeq(Circle(b, h, n, l), 1, l - 1) = Circle(b, h, n, m)
        BY <2>3, <3>2, CircleBegins
      <4>3. Len(Circle(b, h, n, l)) = l
        BY CircleIs
      <4>4. Circle(b, h, n, l) # <<>>
        BY <2>3, <4>3
      <4> QED BY <1>4, <4>1, <4>2, <4>3, <4>4, Zenon DEF Line!EraseOne
    <3> QED BY <3>7, <3>8 DEF EditStep, Line!Next
  <2> QED BY <2>2, <2>3
<1>15. CASE NewlineChar(c)
  <2>1. c = "newline" /\ StoreTyped(c) /\ tyisem' = SignalN(tyisem, l + 1) /\ tyicursor' = 0
    BY <1>1, <1>15, Zenon DEF NewlineChar
  <2>2. PICK m \in Nat, o \in Nat : m = l + 1 /\ o = n + m
    OBVIOUS
  <2>3. (\E V \in SUBSET Reads(reading') : SemOf(tyisem', V)) /\ Readable' = Readable + m
    <3>1. m > 0 /\ tyisem' = SignalN(tyisem, m)
      BY <2>1, <2>2
    <3> QED BY <1>2, <3>1, UnitsAdded
  <2>4. Readable' = o /\ Readable' + tyicursor' = o
    BY <1>1, <2>1, <2>2, <2>3
  <2>5. PICK e \in InBuffers : e = tyibuff' /\ PutAt(b, e, (h + (n + l)) % TY_IBUFLEN, c)
    BY <1>10, <2>1
  <2>6. CASE spoilt'
    <3>1. InInv'
      BY <1>1, <1>2, <2>1, <2>3, <2>5, <2>6, EditInv
    <3> QED BY <2>6, <3>1 DEF EditStep
  <2>7. CASE ~spoilt'
    <3>1. n + l < TY_IBUFLEN /\ tyitail' = (h + ((n + l) + 1)) % TY_IBUFLEN
      BY <1>10, <2>1, <2>7
    <3>2. o <= TY_IBUFLEN /\ (n + l) + 1 = o
      BY <2>2, <3>1, InSize
    <3>3. InInv'
      BY <1>1, <1>2, <2>1, <2>3, <2>4, <2>5, <3>1, <3>2, EditInv
    <3>4. /\ Circle(e, h, 0, o) = Circle(b, h, 0, n) \o Append(Circle(b, h, n, l), c)
          /\ Circle(e, h, o, 0) = <<>> /\ Len(Circle(b, h, 0, n)) = n /\ Len(Circle(b, h, n, l)) = l
      <4>1. Behind(b, e, h, n, l, m, o, c)
        BY <1>7, <2>2, <2>5, <3>1, StoredBehind
      <4> QED BY <4>1, Zenon DEF Behind
    <3>5. Typed(0, Readable)' = Circle(e, h, 0, o) /\ Typed(Readable, tyicursor)' = Circle(e, h, o, 0)
      BY <1>5, <2>1, <2>4, <2>5
    <3>6. Line!EndLine
      BY <1>4, <2>1, <3>1, <3>4, <3>5, Zenon DEF Line!EndLine
    <3> QED BY <3>3, <3>6 DEF EditStep, Line!Next
  <2> QED BY <2>6, <2>7
<1>16. CASE EofChar(c)
  <2>1. c = "eof" /\ tyicursor' = l /\ ~BufferFull
    BY <1>1, <1>16, Zenon DEF EofChar
  <2>2. CASE l # 0
    <3>1. UNCHANGED <<tyibuff, tyitail, tyisem>>
      BY <1>1, <1>16, <2>2, Zenon DEF EofChar, NothingStored
    <3> QED BY <1>1, <1>8, <2>1, <3>1
  <2>3. CASE l = 0
    <3>1. /\ tyibuff' = [tyibuff EXCEPT ![tyitail] = c] /\ tyitail' = tyitail + 1
          /\ spoilt' = (tyitail + 1 = TY_IBUFLEN \/ Readable >= TY_IBUFLEN) /\ tyisem' = Signal(tyisem)
      BY <1>1, <1>16, <2>3, Zenon DEF EofChar
    <3>2. (\E V \in SUBSET Reads(reading') : SemOf(tyisem', V)) /\ Readable' = Readable + 1
      BY <1>2, <3>1, UnitsAdded
    <3>3. PICK o \in Nat, m \in Nat : o = n + 1 /\ o = n + m /\ m = l + 1 /\ Readable' = o
      BY <1>1, <2>3, <3>2
    <3>4. PICK e \in InBuffers : e = tyibuff' /\ PutAt(b, e, (h + (n + l)) % TY_IBUFLEN, c)
      BY <1>9, <3>1
    <3>5. CASE spoilt'
      <4>1. InInv'
        BY <1>1, <1>2, <2>1, <3>2, <3>4, <3>5, EditInv
      <4> QED BY <3>5, <4>1 DEF EditStep
    <3>6. CASE ~spoilt'
      <4>1. ~(tyitail + 1 = TY_IBUFLEN) /\ ~(Readable >= TY_IBUFLEN)
        BY <3>1, <3>6, Zenon
      <4>2. n + l < TY_IBUFLEN
        BY <1>1, <2>3, <4>1, InSize
      <4>3. tyitail' = (h + ((n + l) + 1)) % TY_IBUFLEN
        <5>1. PICK r \in 0..(TY_IBUFLEN - 1) : r = d % TY_IBUFLEN
          BY InSize, ModIs
        <5>2. r + 1 \in 0..(TY_IBUFLEN - 1) /\ r + 1 \in Int
          BY <1>3, <1>6, <4>1, <5>1, InSize
        <5>3. (r + 1) % TY_IBUFLEN = r + 1
          <6>1. PICK j \in 0..(TY_IBUFLEN - 1), q \in Int : j = r + 1 /\ q = 0
            BY <5>2
          <6>2. j = TY_IBUFLEN * q + j /\ j \in Int
            BY <6>1, InSize
          <6>3. j % TY_IBUFLEN = j
            BY <6>2, InSize, ModUnique
          <6> QED BY <6>1, <6>3, Zenon
        <5>4. ((d % TY_IBUFLEN) + 1) % TY_IBUFLEN = (d + 1) % TY_IBUFLEN
          BY TailOn
        <5>5. d + 1 = h + ((n + l) + 1)
          BY <1>6
        <5> QED BY <1>3, <1>6, <3>1, <5>1, <5>3, <5>4, <5>5, Zenon
      <4>4. Readable' + tyicursor' = (n + l) + 1 /\ Readable' + tyicursor' <= TY_IBUFLEN
        BY <2>1, <2>3, <3>3, <4>2, InSize
      <4>5. InInv'
        BY <1>1, <1>2, <2>1, <2>3, <3>2, <3>4, <4>3, <4>4, EditInv
      <4>6. /\ Circle(e, h, 0, o) = Circle(b, h, 0, n) \o Append(Circle(b, h, n, l), c)
            /\ Circle(e, h, o, 0) = <<>> /\ Len(Circle(b, h, 0, n)) = n
        <5>1. Behind(b, e, h, n, l, m, o, c)
          BY <1>7, <3>3, <3>4, <4>2, StoredBehind
        <5> QED BY <5>1, Zenon DEF Behind
      <4>7. Circle(b, h, n, l) = <<>>
        BY <2>3, NoCircle, Zenon
      <4>8. Circle(e, h, 0, o) = Append(Circle(b, h, 0, n), c)
        <5>1. PICK s : s = Circle(b, h, 0, n) /\ s \in Seq(TyChars)
          <6>1. 0 \in Nat
            OBVIOUS
          <6>2. Circle(b, h, 0, n) \in Seq(TyChars)
            BY <6>1, CircleIs
          <6> QED BY <6>2
        <5>2. s \o Append(<<>>, c) = Append(s, c)
          BY <1>7, <5>1
        <5> QED BY <4>6, <4>7, <5>1, <5>2, Zenon
      <4>9. Line!EndFile
        <5>1. Typed(0, Readable)' = Circle(e, h, 0, o) /\ Typed(Readable, tyicursor)' = Circle(e, h, o, 0)
          BY <1>5, <2>1, <2>3, <3>3, <3>4
        <5>2. n < TY_IBUFLEN
          BY <2>3, <4>2, InSize
        <5> QED BY <1>4, <2>1, <4>6, <4>7, <4>8, <5>1, <5>2, Zenon DEF Line!EndFile
      <4> QED BY <4>5, <4>9 DEF EditStep, Line!Next
    <3> QED BY <3>5, <3>6
  <2> QED BY <2>2, <2>3
<1>17. CASE OrdinaryChar(c)
  <2>1. c \in Printable \cup Control /\ StoreTyped(c) /\ tyisem' = tyisem /\ tyicursor' = l + 1
        /\ tyimode = "cooked"
    BY <1>1, <1>17, Zenon DEF OrdinaryChar, Cooked
  <2>2. PICK m \in Nat, o \in Nat : m = l + 1 /\ o = n + m
    OBVIOUS
  <2>3. (\E V \in SUBSET Reads(reading') : SemOf(tyisem', V)) /\ Readable' = Readable + 0
    BY <1>2, <2>1, UnitsAdded
  <2>4. Readable' = n /\ tyicursor' = m /\ Readable' + tyicursor' = o
    BY <1>1, <2>1, <2>2, <2>3
  <2>5. PICK e \in InBuffers : e = tyibuff' /\ PutAt(b, e, (h + (n + l)) % TY_IBUFLEN, c)
    BY <1>10, <2>1
  <2>6. CASE spoilt'
    <3>1. InInv'
      BY <1>1, <1>2, <2>3, <2>4, <2>5, <2>6, EditInv
    <3> QED BY <2>6, <3>1 DEF EditStep
  <2>7. CASE ~spoilt'
    <3>1. n + l < TY_IBUFLEN /\ tyitail' = (h + ((n + l) + 1)) % TY_IBUFLEN
      BY <1>10, <2>1, <2>7
    <3>2. o <= TY_IBUFLEN /\ (n + l) + 1 = o
      BY <2>2, <3>1, InSize
    <3>3. InInv'
      BY <1>1, <1>2, <2>1, <2>3, <2>4, <2>5, <3>1, <3>2, EditInv
    <3>4. /\ Circle(e, h, 0, n) = Circle(b, h, 0, n)
          /\ Circle(e, h, n, m) = Append(Circle(b, h, n, l), c)
          /\ Len(Circle(b, h, 0, n)) = n /\ Len(Circle(b, h, n, l)) = l
      <4>1. Behind(b, e, h, n, l, m, o, c)
        BY <1>7, <2>2, <2>5, <3>1, StoredBehind
      <4> QED BY <4>1, Zenon DEF Behind
    <3>5. Typed(0, Readable)' = Circle(e, h, 0, n) /\ Typed(Readable, tyicursor)' = Circle(e, h, n, m)
      BY <1>5, <2>4, <2>5
    <3>6. Line!Type
      BY <1>4, <2>1, <3>1, <3>4, <3>5, Zenon DEF Line!Type
    <3> QED BY <3>3, <3>6 DEF EditStep, Line!Next
  <2> QED BY <2>6, <2>7
<1> QED BY <1>11, <1>12, <1>13, <1>14, <1>15, <1>16, <1>17 DEF TtyHandleIn

(* A step that leaves the input alone. *)
LEMMA InputKept ==
  ASSUME InInv, UNCHANGED <<inVars, reading, spoilt>>
  PROVE  InInv' /\ EditStep
PROOF
<1>1. Readable' = Readable
  BY DEF inVars, Readable, LetThrough, WaitsAt
<1>2. InInv'
  BY <1>1 DEF inVars, InInv
<1>3. Typed(0, Readable)' = Typed(0, Readable) /\ Typed(Readable, tyicursor)' = Typed(Readable, tyicursor)
  BY <1>1, Zenon DEF inVars, Typed
<1> QED BY <1>2, <1>3 DEF EditStep

(* A change of the mode spoils a line that has been begun. *)
LEMMA ControlKeeps ==
  ASSUME InInv, TtyControl
  PROVE  InInv' /\ EditStep
PROOF
<1>1. /\ UNCHANGED <<tyihead, tyitail, tyibuff, tyisem, tyicursor, reading>>
      /\ tyimode' \in {"raw", "cooked"} /\ ~spoilt
      /\ tyicursor \in Nat
  BY DEF TtyControl, TtySound, InInv
<1>2. Readable' = Readable
  BY <1>1 DEF Readable, LetThrough, WaitsAt
<1>3. ~spoilt' => ~(tyicursor > 0)
  BY Zenon DEF TtyControl
<1>4. ~spoilt' => tyicursor = 0
  BY <1>1, <1>3
<1>5. InInv'
  BY <1>1, <1>2, <1>4 DEF InInv
<1>6. Typed(0, Readable)' = Typed(0, Readable) /\ Typed(Readable, tyicursor)' = Typed(Readable, tyicursor)
  BY <1>1, <1>2, Zenon DEF Typed
<1> QED BY <1>5, <1>6 DEF EditStep

LEMMA InStep ==
  ASSUME InInv, [TtyNext]_ttyVars
  PROVE  InInv' /\ (EditStep \/ UNCHANGED Line!lineVars)
PROOF
<1>1. ASSUME NEW r \in TtyReaders, NEW n \in ReadCounts, TtyRead(r, n) PROVE InInv' /\ EditStep
  <2>1. ~spoilt /\ reading[r] = 0 /\ ReadOn(r, n, IF tyimode = "cooked" THEN "first" ELSE "raw", 0)
    BY <1>1, Zenon DEF TtyRead, TtySound
  <2>2. PICK how : how = IF tyimode = "cooked" THEN "first" ELSE "raw"
    OBVIOUS
  <2>3. n \in Nat \ {0}
    BY TtySizes
  <2>4. ReadOn(r, n, how, 0)
    BY <2>1, <2>2, Zenon
  <2>5. PICK extra \in {0, 1} : extra = 0
    OBVIOUS
  <2>6. ReadOn(r, n, how, extra)
    BY <2>4, <2>5, Zenon
  <2>7. (extra = 0 => reading[r] = 0) /\ (extra = 1 => reading[r] > 0 /\ ~WaitsAt(r, tyisem))
    BY <2>1, <2>5
  <2> QED BY <2>1, <2>3, <2>6, <2>7, ReadOnKeeps
<1>2. ASSUME NEW r \in TtyReaders, TtyReadOn(r) PROVE InInv' /\ EditStep
  <2>1. ~spoilt /\ reading[r] > 0 /\ ~WaitsAt(r, tyisem) /\ ReadOn(r, reading[r], manner[r], 1)
    BY <1>2, Zenon DEF TtyReadOn, TtySound
  <2>2. PICK want \in Nat \ {0} : want = reading[r]
    BY <2>1 DEF InInv
  <2>3. PICK how : how = manner[r]
    OBVIOUS
  <2>5. PICK extra \in {0, 1} : extra = 1
    OBVIOUS
  <2>6. ReadOn(r, want, how, extra)
    BY <2>1, <2>2, <2>3, <2>5, Zenon
  <2>7. (extra = 0 => reading[r] = 0) /\ (extra = 1 => reading[r] > 0 /\ ~WaitsAt(r, tyisem))
    BY <2>1, <2>5
  <2> QED BY <2>1, <2>6, <2>7, ReadOnKeeps
<1>3. ASSUME NEW c \in Typable, TtyHandleIn(c) PROVE InInv' /\ EditStep
  BY <1>3, HandleInEdits
<1>4. ASSUME TtyControl PROVE InInv' /\ EditStep
  BY <1>4, ControlKeeps
<1>5. ASSUME TtyHandleOut PROVE InInv' /\ EditStep
  <2>1. UNCHANGED <<inVars, reading, spoilt>>
    BY <1>5 DEF TtyHandleOut
  <2> QED BY <2>1, InputKept
<1>6. ASSUME NEW w \in TtyWriters, NEW n \in WriteCounts, TtyWrite(w, n) PROVE InInv' /\ EditStep
  <2>1. UNCHANGED <<inVars, reading, spoilt>>
    BY <1>6 DEF TtyWrite, WriteOn
  <2> QED BY <2>1, InputKept
<1>7. ASSUME NEW w \in TtyWriters, TtyWriteOn(w) PROVE InInv' /\ EditStep
  <2>1. UNCHANGED <<inVars, reading, spoilt>>
    BY <1>7 DEF TtyWriteOn, WriteOn
  <2> QED BY <2>1, InputKept
<1>8. ASSUME UNCHANGED ttyVars PROVE InInv' /\ EditStep
  <2>1. UNCHANGED <<inVars, reading, spoilt>>
    BY <1>8 DEF ttyVars
  <2> QED BY <2>1, InputKept
<1>9. CASE TtyInputNext
  <2>1. \A c \in Printable \cup Control \cup {"newline", "eof", "erase", "kill"} : c \in Typable
    BY DEF Typable
  <2> QED BY <1>1, <1>2, <1>3, <1>4, <1>5, <1>9, <2>1, Zenon DEF TtyInputNext
<1>10. CASE TtyOutputNext
  <2>1. \A c \in {"erase", "kill", "start", "stop"} : c \in Typable
    BY DEF Typable
  <2> QED BY <1>3, <1>5, <1>6, <1>7, <1>10, <2>1, Zenon DEF TtyOutputNext
<1> QED BY <1>8, <1>9, <1>10 DEF TtyNext

LEMMA InBegins ==
  ASSUME TtyInit
  PROVE  InInv /\ Line!Init
PROOF
<1>1. Reads(reading) = {}
  BY DEF TtyInit, Reads
<1>2. SemOf(tyisem, {}) /\ tyisem.count = 0
  <2>1. PICK z \in Nat : z = 0
    OBVIOUS
  <2>2. SemOf(NewSem(z), {})
    BY SemNew
  <2>3. NewSem(z).count = z
    BY DEF NewSem
  <2>4. tyisem = NewSem(0)
    BY Zenon DEF TtyInit
  <2> QED BY <2>1, <2>2, <2>3, <2>4, Zenon
<1>3. reading \in [TtyReaders -> Nat] /\ tyibuff \in InBuffers
  BY DEF TtyInit, InBuffers, TyChars
<1>4. Readable = 0
  <2>1. {} \in SUBSET Reads(reading)
    OBVIOUS
  <2>2. PositiveOr0(tyisem.count) + Cardinality(LetThrough(reading, tyisem)) = tyisem.count + Cardinality(Reads(reading))
    BY <1>2, <1>3, <2>1, ReadableValue
  <2>3. Cardinality(Reads(reading)) = 0
    BY <1>1, FS_EmptySet
  <2> QED BY <1>2, <2>2, <2>3 DEF Readable
<1>5. tyihead = 0 /\ tyitail = 0 /\ tyicursor = 0 /\ tyimode = "cooked"
  BY DEF TtyInit
<1>6. 0 % TY_IBUFLEN = 0
  <2>1. PICK z \in 0..(TY_IBUFLEN - 1) : z = 0
    BY InSize
  <2>2. z = TY_IBUFLEN * z + z /\ z \in Int
    BY <2>1, InSize
  <2>3. z % TY_IBUFLEN = z
    BY <2>2, InSize, ModUnique
  <2> QED BY <2>1, <2>3, Zenon
<1>7. InInv
  <2>1. 0 + (0 + 0) = 0 /\ 0 + 0 = 0 /\ 0 <= TY_IBUFLEN
    BY InSize
  <2>2. tyitail = (tyihead + (Readable + tyicursor)) % TY_IBUFLEN /\ Readable + tyicursor <= TY_IBUFLEN
    BY <1>4, <1>5, <1>6, <2>1, Zenon
  <2> QED BY <1>2, <1>3, <1>5, <2>2 DEF InInv
<1>8. Typed(0, Readable) = <<>> /\ Typed(Readable, tyicursor) = <<>>
  <2>1. tyibuff \in InBuffers /\ tyihead \in Int /\ 0 \in Nat
    BY <1>3, <1>5
  <2>2. Circle(tyibuff, tyihead, 0, 0) = <<>>
    BY <2>1, NoCircle
  <2> QED BY <1>4, <1>5, <2>2, TypedIs, Zenon
<1> QED BY <1>7, <1>8, Zenon DEF Line!Init

(* The console does with what is typed what LineEditing promises: it implements that
   specification, whatever the readers and the interrupts do, as long as the input is
   not spoilt. *)
THEOREM EditsAsPromisedAlways == TtySpec => EditsAsPromised
PROOF
<1>1. TtyInit => InInv /\ Line!Init
  BY InBegins
<1>2. InInv /\ [TtyNext]_ttyVars => InInv' /\ [spoilt' \/ Line!Next]_(Line!lineVars)
  BY InStep DEF EditStep, Line!lineVars
<1> QED BY <1>1, <1>2, PTL DEF TtySpec, EditsAsPromised

-----------------------------------------------------------------------------
(* Lists that hold each element once *)

(* A list that has each of its elements once. *)
Listed(q) == QueueOf(q, ToSet(q))

LEMMA QueueListed ==
  ASSUME NEW S, NEW q, QueueOf(q, S)
  PROVE  ToSet(q) = S /\ Listed(q)
PROOF
<1>1. /\ q \in Seq(S) /\ DOMAIN q = 1..Len(q) /\ \A i \in 1..Len(q) : q[i] \in S
      /\ \A p \in S : \E i \in 1..Len(q) : q[i] = p
  BY DEF QueueOf
<1>2. ToSet(q) = S
  BY <1>1 DEF ToSet
<1> QED BY <1>2 DEF Listed

LEMMA ListedIs ==
  ASSUME NEW q, Listed(q)
  PROVE  /\ QueueOf(q, ToSet(q)) /\ q \in Seq(ToSet(q)) /\ Len(q) \in Nat /\ DOMAIN q = 1..Len(q)
         /\ \A i \in 1..Len(q) : q[i] \in ToSet(q)
         /\ \A i, j \in 1..Len(q) : q[i] = q[j] => i = j
         /\ \A x \in ToSet(q) : \E i \in 1..Len(q) : q[i] = x
         /\ q = <<>> <=> ToSet(q) = {}
PROOF
<1>1. q \in Seq(ToSet(q)) /\ QueueOf(q, ToSet(q))
  BY DEF Listed, QueueOf
<1>2. Len(q) \in Nat /\ DOMAIN q = 1..Len(q) /\ \A i \in 1..Len(q) : q[i] \in ToSet(q)
  BY <1>1
<1> QED BY <1>1, <1>2, QueueEmpty DEF QueueOf

LEMMA ListAppends ==
  ASSUME NEW q, Listed(q), NEW x, x \notin ToSet(q)
  PROVE  /\ Listed(Append(q, x)) /\ ToSet(Append(q, x)) = ToSet(q) \cup {x}
         /\ Len(Append(q, x)) = Len(q) + 1
         /\ q # <<>> => Head(Append(q, x)) = Head(q)
         /\ \A a, b : Precedes(Append(q, x), a, b) => Precedes(q, a, b) \/ (b = x /\ a \in ToSet(q))
PROOF
<1>1. PICK r : r = Append(q, x)
  OBVIOUS
<1>2. QueueOf(r, ToSet(q) \cup {x}) /\ Len(r) = Len(q) + 1
  BY <1>1, QueueAppend DEF Enqueue, Listed
<1>3. ToSet(r) = ToSet(q) \cup {x} /\ Listed(r)
  BY <1>2, QueueListed
<1>4. (\A i \in 1..Len(q) : r[i] = q[i]) /\ r[Len(q) + 1] = x
  BY <1>1, ListedIs
<1>5. ASSUME NEW a, NEW b, Precedes(r, a, b) PROVE Precedes(q, a, b) \/ (b = x /\ a \in ToSet(q))
  <2>1. PICK i \in 1..(Len(q) + 1), j \in 1..(Len(q) + 1) : i < j /\ r[i] = a /\ r[j] = b
    BY <1>2, <1>5 DEF Precedes
  <2>2. Len(q) \in Nat
    BY ListedIs
  <2>3. i \in 1..Len(q) /\ a = q[i] /\ a \in ToSet(q)
    BY SMTT(30), <1>4, <2>1, <2>2, ListedIs
  <2>4. CASE j = Len(q) + 1
    BY <1>4, <2>1, <2>3, <2>4
  <2>5. CASE j # Len(q) + 1
    BY <1>4, <2>1, <2>2, <2>3, <2>5 DEF Precedes
  <2> QED BY <2>4, <2>5
<1>6. q # <<>> => Head(r) = Head(q)
  <2>1. q # <<>> => Head(q) = q[1] /\ Head(r) = r[1] /\ 1 \in 1..Len(q)
    BY <1>1, ListedIs
  <2> QED BY <1>4, <2>1
<1> QED BY <1>1, <1>2, <1>3, <1>5, <1>6

LEMMA ListTail ==
  ASSUME NEW q, Listed(q), q # <<>>
  PROVE  /\ Head(q) \in ToSet(q) /\ Listed(Tail(q)) /\ ToSet(Tail(q)) = ToSet(q) \ {Head(q)}
         /\ Len(Tail(q)) = Len(q) - 1
         /\ \A a, b : Precedes(Tail(q), a, b) => Precedes(q, a, b)
         /\ \A b \in ToSet(Tail(q)) : Precedes(q, Head(q), b)
PROOF
<1>1. PICK r : r = Tail(q)
  OBVIOUS
<1>2. Head(q) \in ToSet(q) /\ QueueOf(r, ToSet(q) \ {Head(q)}) /\ Len(r) = Len(q) - 1
  BY <1>1, QueueTail DEF Listed
<1>3. ToSet(r) = ToSet(q) \ {Head(q)} /\ Listed(r)
  BY <1>2, QueueListed
<1>4. (\A i \in 1..(Len(q) - 1) : r[i] = q[i + 1]) /\ Head(q) = q[1] /\ Len(q) >= 1 /\ Len(q) \in Nat
  BY <1>1, ListedIs
<1>5. ASSUME NEW a, NEW b, Precedes(r, a, b) PROVE Precedes(q, a, b)
  <2>1. PICK i \in 1..(Len(q) - 1), j \in 1..(Len(q) - 1) : i < j /\ r[i] = a /\ r[j] = b
    BY <1>2, <1>5 DEF Precedes
  <2>2. i + 1 \in 1..Len(q) /\ j + 1 \in 1..Len(q) /\ i + 1 < j + 1
    BY <1>4, <2>1
  <2> QED BY <1>4, <2>1, <2>2 DEF Precedes
<1>6. ASSUME NEW b \in ToSet(r) PROVE Precedes(q, Head(q), b)
  <2>1. PICK j \in 1..(Len(q) - 1) : r[j] = b
    BY <1>2, <1>3, ListedIs
  <2>2. 1 \in 1..Len(q) /\ j + 1 \in 1..Len(q) /\ 1 < j + 1
    BY <1>4, <2>1
  <2> QED BY <1>4, <2>1, <2>2 DEF Precedes
<1> QED BY <1>1, <1>2, <1>3, <1>5, <1>6

LEMMA ListConsed ==
  ASSUME NEW q, Listed(q), NEW x, x \notin ToSet(q)
  PROVE  /\ Listed(<<x>> \o q) /\ ToSet(<<x>> \o q) = ToSet(q) \cup {x}
         /\ Len(<<x>> \o q) = Len(q) + 1
         /\ \A a, b : Precedes(<<x>> \o q, a, b) => Precedes(q, a, b) \/ (a = x /\ b \in ToSet(q))
PROOF
<1>1. PICK r : r = <<x>> \o q
  OBVIOUS
<1>2. PICK S : S = ToSet(q) \cup {x}
  OBVIOUS
<1>3. q \in Seq(S) /\ <<x>> \in Seq(S) /\ Len(q) \in Nat
  BY <1>2, ListedIs, SeqMonotonic
<1>4. /\ r \in Seq(S) /\ Len(r) = Len(q) + 1 /\ r[1] = x
      /\ \A i \in 1..Len(q) : r[i + 1] = q[i]
  BY <1>1, <1>3
<1>5. \A i \in 1..Len(r) : IF i = 1 THEN r[i] = x ELSE i - 1 \in 1..Len(q) /\ r[i] = q[i - 1] /\ r[i] \in ToSet(q)
  <2> TAKE i \in 1..Len(r)
  <2>1. CASE i = 1
    BY <1>4, <2>1
  <2>2. CASE i # 1
    <3>1. PICK j \in 1..Len(q) : j = i - 1 /\ j + 1 = i
      BY <1>3, <1>4, <2>2
    <3>2. r[i] = q[j]
      BY <1>4, <3>1
    <3>3. q[j] \in ToSet(q)
      BY ListedIs
    <3> QED BY <2>2, <3>1, <3>2, <3>3
  <2> QED BY <2>1, <2>2
<1>6. QueueOf(r, S)
  <2>1. ASSUME NEW i \in 1..Len(r), NEW j \in 1..Len(r), r[i] = r[j] PROVE i = j
    <3>1. CASE i = 1 \/ j = 1
      BY <1>5, <2>1, <3>1
    <3>2. CASE i # 1 /\ j # 1
      <4>1. i - 1 \in 1..Len(q) /\ j - 1 \in 1..Len(q) /\ q[i - 1] = q[j - 1]
        BY <1>5, <2>1, <3>2
      <4>2. i - 1 = j - 1
        BY <4>1, ListedIs
      <4> QED BY <1>3, <1>4, <4>2
    <3> QED BY <3>1, <3>2
  <2>2. ASSUME NEW y \in S PROVE \E i \in 1..Len(r) : r[i] = y
    <3>1. CASE y = x
      BY <1>3, <1>4, <3>1
    <3>2. CASE y # x
      <4>1. PICK i \in 1..Len(q) : q[i] = y
        BY <1>2, <3>2, ListedIs
      <4>2. i + 1 \in 1..Len(r)
        BY <1>3, <1>4, <4>1
      <4> QED BY <1>4, <4>1, <4>2
    <3> QED BY <3>1, <3>2
  <2> QED BY <1>4, <2>1, <2>2 DEF QueueOf
<1>7. ASSUME NEW a, NEW b, Precedes(r, a, b) PROVE Precedes(q, a, b) \/ (a = x /\ b \in ToSet(q))
  <2>1. PICK i \in 1..Len(r), j \in 1..Len(r) : i < j /\ r[i] = a /\ r[j] = b
    BY <1>7 DEF Precedes
  <2>2. j # 1 /\ b \in ToSet(q) /\ j - 1 \in 1..Len(q) /\ q[j - 1] = b
    BY <1>3, <1>4, <1>5, <2>1
  <2>3. CASE i = 1
    BY <1>5, <2>1, <2>2, <2>3
  <2>4. CASE i # 1
    <3>1. i - 1 \in 1..Len(q) /\ q[i - 1] = a /\ i - 1 < j - 1
      BY <1>3, <1>4, <1>5, <2>1, <2>4
    <3> QED BY <2>2, <3>1 DEF Precedes
  <2> QED BY <2>3, <2>4
<1>8. ToSet(r) = S /\ Listed(r)
  BY <1>6, QueueListed
<1> QED BY <1>1, <1>2, <1>4, <1>7, <1>8

LEMMA ListWithout ==
  ASSUME NEW q, Listed(q), NEW x \in ToSet(q)
  PROVE  /\ Listed(GetItem(q, x)) /\ ToSet(GetItem(q, x)) = ToSet(q) \ {x}
         /\ Len(GetItem(q, x)) = Len(q) - 1
         /\ \A a, b : Precedes(GetItem(q, x), a, b) => Precedes(q, a, b)
PROOF
<1>1. PICK r : r = GetItem(q, x)
  OBVIOUS
<1>2. QueueOf(r, ToSet(q) \ {x}) /\ Len(r) = Len(q) - 1
  BY <1>1, QueueGetItem DEF Listed
<1>3. ToSet(r) = ToSet(q) \ {x} /\ Listed(r)
  BY <1>2, QueueListed
<1>4. PICK i \in 1..Len(q) : i = Index(q, x)
  BY IndexOfMember DEF Listed
<1>5. \A j \in 1..(Len(q) - 1) : r[j] = IF j < i THEN q[j] ELSE q[j + 1]
  <2>1. q \in Seq(ToSet(q)) /\ r = RemoveAt(q, i)
    BY <1>1, <1>4, ListedIs DEF GetItem
  <2>2. \A j \in 1..(Len(q) - 1) : RemoveAt(q, i)[j] = IF j < i THEN q[j] ELSE q[j + 1]
    BY <2>1, RemoveAtElements
  <2> QED BY <2>1, <2>2
<1>6. ASSUME NEW a, NEW b, Precedes(r, a, b) PROVE Precedes(q, a, b)
  <2>1. PICK j \in 1..(Len(q) - 1), k \in 1..(Len(q) - 1) : j < k /\ r[j] = a /\ r[k] = b
    BY <1>2, <1>6 DEF Precedes
  <2>2. Len(q) \in Nat
    BY ListedIs
  <2>3. PICK m \in 1..Len(q) : m = (IF j < i THEN j ELSE j + 1) /\ q[m] = a
    BY <1>5, <2>1, <2>2
  <2>4. PICK n \in 1..Len(q) : n = (IF k < i THEN k ELSE k + 1) /\ q[n] = b
    BY <1>5, <2>1, <2>2
  <2>5. m < n
    BY <2>1, <2>3, <2>4
  <2> QED BY <2>3, <2>4, <2>5 DEF Precedes
<1> QED BY <1>1, <1>2, <1>3, <1>6

(* The element at an index is the element taken out there. *)
LEMMA ListIndex ==
  ASSUME NEW q, Listed(q), NEW i \in 1..Len(q)
  PROVE  q[i] \in ToSet(q) /\ RemoveAt(q, i) = GetItem(q, q[i])
PROOF
<1>1. q[i] \in ToSet(q) /\ Index(q, q[i]) \in 1..Len(q) /\ q[Index(q, q[i])] = q[i]
  <2>1. QueueOf(q, ToSet(q)) /\ q[i] \in ToSet(q)
    BY ListedIs
  <2>2. PICK x \in ToSet(q) : x = q[i]
    BY <2>1
  <2>3. Index(q, x) \in 1..Len(q) /\ q[Index(q, x)] = x
    BY <2>1, IndexOfMember
  <2> QED BY <2>1, <2>2, <2>3, Zenon
<1>2. Index(q, q[i]) = i
  BY <1>1, ListedIs
<1> QED BY <1>1, <1>2 DEF GetItem

LEMMA ListReturns ==
  ASSUME NEW q, Listed(q), NEW f, Listed(f), ToSet(q) \cap ToSet(f) = {}
  PROVE  /\ Listed(Reverse(q) \o f) /\ ToSet(Reverse(q) \o f) = ToSet(q) \cup ToSet(f)
         /\ Len(Reverse(q) \o f) = Len(q) + Len(f)
PROOF
<1>1. PICK S : S = ToSet(q) \cup ToSet(f)
  OBVIOUS
<1>2. PICK n \in Nat, m \in Nat : n = Len(q) /\ m = Len(f)
  BY ListedIs
<1>3. q \in Seq(S) /\ f \in Seq(S)
  BY <1>1, ListedIs, SeqMonotonic
<1>4. PICK t : t = Reverse(q)
  OBVIOUS
<1>5. t \in Seq(S) /\ Len(t) = n /\ \A i \in 1..n : t[i] = q[(n - i) + 1] /\ (n - i) + 1 \in 1..n
  <2>1. t = [i \in 1..n |-> q[(n - i) + 1]]
    BY <1>2, <1>4 DEF Reverse
  <2>2. \A i \in 1..n : (n - i) + 1 \in 1..n
    OBVIOUS
  <2>3. \A i \in 1..n : q[i] \in S
    BY <1>2, <1>3
  <2>4. t \in [1..n -> S]
    BY <2>1, <2>2, <2>3
  <2> QED BY <1>2, <2>1, <2>2, <2>4, SeqDef
<1>6. PICK r : r = t \o f
  OBVIOUS
<1>7. /\ r \in Seq(S) /\ Len(r) = n + m
      /\ \A i \in 1..(n + m) : r[i] = IF i <= n THEN q[(n - i) + 1] ELSE f[i - n]
  <2>1. r \in Seq(S) /\ Len(r) = n + m
    <3>1. t \in Seq(S) /\ f \in Seq(S) /\ Len(t) = n /\ Len(f) = m
      BY <1>2, <1>3, <1>5
    <3>2. t \o f \in Seq(S) /\ Len(t \o f) = Len(t) + Len(f)
      BY <3>1, ConcatProperties
    <3> QED BY <1>6, <3>1, <3>2
  <2>2. ASSUME NEW i \in 1..(n + m) PROVE r[i] = IF i <= n THEN q[(n - i) + 1] ELSE f[i - n]
    <3>1. r[i] = IF i <= n THEN t[i] ELSE f[i - n]
      BY <1>2, <1>3, <1>5, <1>6
    <3>2. i <= n => i \in 1..n
      OBVIOUS
    <3> QED BY <1>5, <3>1, <3>2
  <2> QED BY <2>1, <2>2
<1>8. \A i \in 1..(n + m) :
        IF i <= n THEN (n - i) + 1 \in 1..n /\ q[(n - i) + 1] \in ToSet(q)
        ELSE i - n \in 1..m /\ f[i - n] \in ToSet(f)
  <2>1. \A i \in 1..(n + m) : IF i <= n THEN (n - i) + 1 \in 1..n ELSE i - n \in 1..m
    OBVIOUS
  <2> QED BY <1>2, <2>1, ListedIs
<1>9. QueueOf(r, S)
  <2>1. ASSUME NEW i \in 1..(n + m), NEW j \in 1..(n + m), r[i] = r[j] PROVE i = j
    <3>1. CASE i <= n /\ j <= n
      <4>1. PICK k \in 1..n, l \in 1..n : k = (n - i) + 1 /\ l = (n - j) + 1
        BY <1>8, <3>1
      <4>2. q[k] = q[l]
        BY <1>7, <2>1, <3>1, <4>1
      <4>3. k = l
        BY <1>2, <4>2, ListedIs
      <4> QED BY <4>1, <4>3
    <3>2. CASE ~(i <= n) /\ ~(j <= n)
      <4>1. PICK k \in 1..m, l \in 1..m : k = i - n /\ l = j - n
        BY <1>8, <3>2
      <4>2. f[k] = f[l]
        BY <1>7, <2>1, <3>2, <4>1
      <4>3. k = l
        BY <1>2, <4>2, ListedIs
      <4> QED BY <4>1, <4>3
    <3>3. CASE (i <= n /\ ~(j <= n)) \/ (~(i <= n) /\ j <= n)
      BY <1>7, <1>8, <2>1, <3>3
    <3> QED BY <3>1, <3>2, <3>3
  <2>2. ASSUME NEW y \in S PROVE \E i \in 1..(n + m) : r[i] = y
    <3>1. CASE y \in ToSet(q)
      <4>1. PICK k \in 1..n : q[k] = y
        BY <1>2, <3>1, ListedIs
      <4>2. PICK i \in 1..(n + m) : i = (n - k) + 1 /\ i <= n
        OBVIOUS
      <4>3. (n - i) + 1 = k
        BY <4>2
      <4> QED BY <1>7, <4>1, <4>2, <4>3
    <3>2. CASE y \in ToSet(f)
      <4>1. PICK k \in 1..m : f[k] = y
        BY <1>2, <3>2, ListedIs
      <4>2. PICK i \in 1..(n + m) : i = n + k /\ ~(i <= n)
        OBVIOUS
      <4>3. i - n = k
        BY <4>2
      <4> QED BY <1>7, <4>1, <4>2, <4>3
    <3> QED BY <1>1, <3>1, <3>2
  <2> QED BY <1>7, <2>1, <2>2 DEF QueueOf
<1> QED BY <1>1, <1>2, <1>4, <1>6, <1>7, <1>9, QueueListed

LEMMA InConcat ==
  ASSUME NEW S, NEW q \in Seq(S), NEW r \in Seq(S)
  PROVE  ToSet(q \o r) = ToSet(q) \cup ToSet(r)
PROOF
<1>1. PICK n \in Nat, m \in Nat : n = Len(q) /\ m = Len(r)
  OBVIOUS
<1>2. PICK s : s = q \o r
  OBVIOUS
<1>3. /\ s \in Seq(S) /\ Len(s) = n + m
      /\ \A i \in 1..(n + m) : s[i] = IF i <= n THEN q[i] ELSE r[i - n]
  BY <1>1, <1>2, ConcatProperties
<1>4. DOMAIN s = 1..(n + m) /\ DOMAIN q = 1..n /\ DOMAIN r = 1..m
  BY <1>1, <1>3
<1>5. ASSUME NEW i \in 1..(n + m) PROVE s[i] \in ToSet(q) \cup ToSet(r)
  <2>1. i <= n => i \in 1..n
    OBVIOUS
  <2>2. ~(i <= n) => i - n \in 1..m
    OBVIOUS
  <2> QED BY <1>3, <1>4, <2>1, <2>2 DEF ToSet
<1>6. ASSUME NEW i \in 1..n PROVE q[i] \in ToSet(s)
  <2>1. i \in 1..(n + m) /\ s[i] = q[i]
    BY <1>3
  <2> QED BY <1>4, <2>1 DEF ToSet
<1>7. ASSUME NEW i \in 1..m PROVE r[i] \in ToSet(s)
  <2>1. PICK j \in 1..(n + m) : j = n + i /\ ~(j <= n)
    OBVIOUS
  <2>2. j - n = i
    BY <2>1
  <2> QED BY <1>3, <1>4, <2>1, <2>2 DEF ToSet
<1>8. /\ ToSet(s) = {s[i] : i \in 1..(n + m)} /\ ToSet(q) = {q[i] : i \in 1..n}
      /\ ToSet(r) = {r[i] : i \in 1..m}
  BY <1>4 DEF ToSet
<1>9. ToSet(s) \subseteq ToSet(q) \cup ToSet(r) /\ ToSet(q) \subseteq ToSet(s) /\ ToSet(r) \subseteq ToSet(s)
  BY <1>5, <1>6, <1>7, <1>8
<1> QED BY <1>2, <1>9

(* All of a finite set, in some order. *)
LEMMA ListOfAll ==
  ASSUME NEW S, IsFiniteSet(S)
  PROVE  Listed(SetToSeq(S)) /\ ToSet(SetToSeq(S)) = S /\ Len(SetToSeq(S)) = Cardinality(S)
PROOF
<1>1. PICK n \in Nat : n = Cardinality(S)
  BY FS_CardinalityType
<1>2. IsFiniteSet(1..n) /\ Cardinality(1..n) = n
  BY FS_Interval
<1>3. ExistsBijection(1..n, S)
  BY <1>1, <1>2, FS_SameCardinalityBij
<1>4. PICK g : g \in Bijection(1..n, S)
  BY <1>3 DEF ExistsBijection
<1>5. g \in [1..n -> S] /\ IsInjective(g)
  <2>1. g \in [1..n -> S] /\ \A a, b \in 1..n : g[a] = g[b] => a = b
    BY <1>4 DEF Bijection, Injection, IsInjective
  <2> QED BY <2>1 DEF IsInjective
<1>6. PICK f : f = SetToSeq(S)
  OBVIOUS
<1>7. f \in [1..n -> S] /\ IsInjective(f)
  <2>1. f = CHOOSE h \in [1..n -> S] : IsInjective(h)
    BY <1>1, <1>6 DEF SetToSeq
  <2> QED BY <1>5, <2>1
<1>8. f \in Injection(1..n, S)
  BY <1>7 DEF Injection, IsInjective
<1>9. f \in Surjection(1..n, S)
  BY <1>1, <1>2, <1>8, FS_Injection
<1>10. f \in Seq(S) /\ Len(f) = n
  BY <1>7, SeqDef
<1>11. QueueOf(f, S)
  <2>1. \A x \in S : \E i \in 1..n : f[i] = x
    BY <1>9 DEF Surjection
  <2> QED BY <1>7, <1>10, <2>1 DEF QueueOf, IsInjective
<1> QED BY <1>1, <1>6, <1>10, <1>11, QueueListed

-----------------------------------------------------------------------------
(* The remote disk *)

RdFree == ToSet(rdfree)
RdQueued == ToSet(rdqueue)
RdCached == ToSet(rdcache)

RdBlocks == DiskBlocks \cup {0}
RdContents == RdData \cup {0}
RdMsgTypes == {"none", "open", "delete", "read", "write"}

(* Who waits for a buffer, or has been let through to one. *)
RdCallers == {c \in RdClients : rdcall[c].op \in {"read", "write", "sync"}}

RdBufTypes ==
  /\ rdbuf \in [RdBufs -> [op : {"none", "read", "write", "sync"}, ref : Int, blk : RdBlocks,
                           valid : BOOLEAN, pid : RdClients \cup {"nobody"}, data : RdContents]]
  /\ rdcall \in [RdClients -> [op : {"none", "read", "write", "sync", "read asked", "sync asked"},
                               blk : RdBlocks, data : RdContents]]
  /\ rdmsg \in [RdClients -> {"none", "ok"} \cup RdBufs]
  /\ lastwrite \in [DiskBlocks -> RdContents]

RdCommTypes ==
  /\ rdseq \in Nat /\ rdblk \in DiskBlocks
  /\ server \in [DiskBlocks -> RdContents]
  /\ replies \in Seq([seq : Nat, type : RdMsgTypes, data : RdContents])
  /\ comm \in [who : RdClients \cup {"nobody", "rdsprocess"}, type : RdMsgTypes, seq : Nat,
               blk : RdBlocks, data : RdContents, tries : Nat, xmit : BOOLEAN]

RdLists ==
  /\ Listed(rdfree) /\ Listed(rdqueue) /\ Listed(rdcache)
  /\ RdFree \cap RdQueued = {} /\ RdFree \cap RdCached = {} /\ RdQueued \cap RdCached = {}
  /\ RdFree \cup RdQueued \cup RdCached = RdBufs

RdUnits ==
  /\ \E W \in SUBSET RdCallers : SemOf(availsem, W)
  /\ Len(rdfree) + Len(rdcache) = availsem.count + Cardinality(RdCallers)

(* In the cache only the newest copy of a block is valid, and while it is no request
   for the block waits; behind a write no request for its block waits. *)
RdOrder ==
  /\ \A a, b \in RdBufs : Precedes(rdcache, a, b) /\ rdbuf[b].valid => rdbuf[a].blk # rdbuf[b].blk
  /\ \A a \in RdCached, b \in RdQueued :
       rdbuf[a].valid /\ rdbuf[a].blk = rdbuf[b].blk => rdbuf[b].op = "sync"
  /\ \A a, b \in RdBufs :
       Precedes(rdqueue, a, b) /\ rdbuf[a].op = "write" /\ rdbuf[a].blk = rdbuf[b].blk
         => rdbuf[b].op = "sync"

(* A request that is waited for is the only one of its process, which has no message. *)
AskedIs(b) ==
  /\ rdbuf[b].pid \in RdClients
  /\ rdcall[rdbuf[b].pid].op = AskedFor[rdbuf[b].op] /\ rdmsg[rdbuf[b].pid] = "none"
  /\ \A a \in RdQueued : rdbuf[a].op # "write" /\ rdbuf[a].pid = rdbuf[b].pid => a = b

RdAsked ==
  /\ \A b \in RdQueued :
       /\ rdbuf[b].op \in {"read", "write", "sync"} /\ (rdbuf[b].valid <=> rdbuf[b].op = "write")
       /\ rdbuf[b].op = "write" => rdbuf[b].ref <= 0 /\ rdbuf[b].blk \in DiskBlocks
       /\ rdbuf[b].op # "write" => AskedIs(b)
  /\ \A b \in RdCached : rdbuf[b].valid => rdbuf[b].ref <= 0 /\ rdbuf[b].blk \in DiskBlocks
  /\ \A c \in RdClients : rdcall[c].op \in {"read", "write"} => rdcall[c].blk \in DiskBlocks

(* What a process has been told that it can read stays in the cache until it has. *)
RdTold ==
  \A c \in RdClients :
    rdcall[c].op = "read asked" /\ rdmsg[c] # "none" =>
      /\ rdmsg[c] \in RdCached
      /\ rdbuf[rdmsg[c]].ref = 1 /\ ~rdbuf[rdmsg[c]].valid /\ rdbuf[rdmsg[c]].pid = c

WriteWaits(k) == \E b \in RdQueued : rdbuf[b].op = "write" /\ rdbuf[b].blk = k

CopiesCurrent ==
  /\ \A b \in RdCached : rdbuf[b].valid => rdbuf[b].data = lastwrite[rdbuf[b].blk]
  /\ \A b \in RdQueued : rdbuf[b].op = "write" => rdbuf[b].data = lastwrite[rdbuf[b].blk]

Writing(k) == comm.type = "write" /\ comm.blk = k

(* The last write to k is under way, or done. *)
Current(k) == IF Writing(k) THEN comm.data = lastwrite[k] ELSE server[k] = lastwrite[k]

ServerCurrent == \A k \in DiskBlocks : ~WriteWaits(k) => Current(k)

(* A reply to a write, if not an earlier one's, means that it has been done. *)
RepliesMean ==
  /\ comm.type = "write" => comm.blk \in DiskBlocks
  /\ \A i \in 1..Len(replies) :
       /\ replies[i].seq < rdseq
       /\ comm.type = "write" /\ replies[i].seq = comm.seq => server[comm.blk] = comm.data
  /\ comm.seq < rdseq

ReadsFirst == comm.type = "read" => rdqueue # <<>> /\ rdbuf[Head(rdqueue)].op = "read" /\ comm.blk \in DiskBlocks

RdsIs ==
  /\ RdBufTypes /\ RdCommTypes /\ RdLists /\ RdUnits /\ RdOrder /\ RdAsked /\ RdTold
  /\ CopiesCurrent /\ ServerCurrent /\ RepliesMean /\ ReadsFirst

RdsInv == upset = "no" => RdsIs

LEMMA RdsInitially == RdsInit => RdsInv
PROOF
<1> SUFFICES ASSUME RdsInit PROVE RdsIs
  BY DEF RdsInv
<1>1. /\ Listed(rdfree) /\ RdFree = RdBufs /\ Len(rdfree) = Cardinality(RdBufs)
      /\ Cardinality(RdBufs) \in Nat
  BY RdSizes, ListOfAll, FS_CardinalityType DEF RdsInit, RdFree
<1>2. rdqueue = <<>> /\ rdcache = <<>> /\ replies = <<>> /\ Listed(<<>>) /\ ToSet(<<>>) = {} /\ Len(<<>>) = 0
  BY DEF RdsInit, Listed, QueueOf, ToSet
<1>3. RdQueued = {} /\ RdCached = {}
  BY <1>2 DEF RdQueued, RdCached
<1>4. RdCallers = {} /\ Cardinality({}) = 0
  BY FS_EmptySet DEF RdsInit, RdCallers, NoCall
<1>5. SemOf(availsem, {}) /\ availsem.count = Cardinality(RdBufs)
  BY <1>1, SemNew DEF RdsInit, NewSem
<1>6. RdBufTypes
  BY DEF RdsInit, RdBufTypes, NoBuf, NoCall, RdBlocks, RdContents
<1>7. RdCommTypes
  BY <1>2 DEF RdsInit, RdCommTypes, NoComm, RdBlocks, RdContents, RdMsgTypes
<1>8. RdLists
  BY <1>1, <1>2, <1>3 DEF RdLists
<1>9. RdUnits
  BY <1>1, <1>2, <1>4, <1>5 DEF RdUnits
<1>10. RdOrder
  BY <1>2, <1>3 DEF RdOrder, Precedes
<1>11. RdAsked /\ RdTold
  BY <1>3 DEF RdAsked, RdTold, RdsInit, NoCall
<1>12. CopiesCurrent /\ ServerCurrent
  BY <1>3 DEF CopiesCurrent, ServerCurrent, Current, Writing, RdsInit, NoComm
<1>13. RepliesMean /\ ReadsFirst
  BY <1>2 DEF RepliesMean, ReadsFirst, RdsInit, NoComm
<1> QED BY <1>6, <1>7, <1>8, <1>9, <1>10, <1>11, <1>12, <1>13 DEF RdsIs

-----------------------------------------------------------------------------
(* Steps that leave the buffers and the calls alone *)

LEMMA BuffersStay ==
  ASSUME RdLists, RdUnits, RdOrder, RdAsked, RdTold, UNCHANGED <<listVars, rdcall, rdmsg>>
  PROVE  /\ RdLists' /\ RdUnits' /\ RdOrder' /\ RdAsked' /\ RdTold'
         /\ RdQueued' = RdQueued /\ RdCached' = RdCached /\ \A k : WriteWaits(k)' = WriteWaits(k)
PROOF
<1>1. /\ rdbuf' = rdbuf /\ rdqueue' = rdqueue /\ rdcache' = rdcache /\ rdfree' = rdfree
      /\ availsem' = availsem /\ rdcall' = rdcall /\ rdmsg' = rdmsg
  BY DEF listVars
<1>2. RdQueued' = RdQueued /\ RdCached' = RdCached /\ RdFree' = RdFree /\ RdCallers' = RdCallers
  BY <1>1 DEF RdQueued, RdCached, RdFree, RdCallers
<1>3. RdLists' /\ RdUnits'
  BY <1>1, <1>2 DEF RdLists, RdUnits
<1>4. RdOrder'
  BY <1>1, <1>2 DEF RdOrder
<1>5. RdAsked'
  <2>1. \A b : AskedIs(b)' = AskedIs(b)
    BY <1>1, <1>2 DEF AskedIs
  <2> QED BY <1>1, <1>2, <2>1 DEF RdAsked
<1>6. RdTold'
  BY <1>1, <1>2 DEF RdTold
<1>7. \A k : WriteWaits(k)' = WriteWaits(k)
  BY <1>1, <1>2 DEF WriteWaits
<1> QED BY <1>2, <1>3, <1>4, <1>5, <1>6, <1>7

(* What is left to show for a step of an exchange. *)
LEMMA ExchangeStep ==
  ASSUME RdsIs, UNCHANGED <<listVars, rdcall, rdmsg>>, RdCommTypes', lastwrite' \in [DiskBlocks -> RdContents],
         UNCHANGED lastwrite \/ CopiesCurrent',
         \A k \in DiskBlocks : ~WriteWaits(k) => Current(k)',
         RepliesMean', comm'.type # "read" \/ UNCHANGED comm \/ ReadsFirst'
  PROVE  RdsInv'
PROOF
<1>1. /\ RdBufTypes /\ RdLists /\ RdUnits /\ RdOrder /\ RdAsked /\ RdTold
      /\ CopiesCurrent /\ ServerCurrent /\ ReadsFirst
  BY DEF RdsIs
<1>2. /\ RdLists' /\ RdUnits' /\ RdOrder' /\ RdAsked' /\ RdTold'
      /\ RdQueued' = RdQueued /\ RdCached' = RdCached /\ \A k : WriteWaits(k)' = WriteWaits(k)
  BY <1>1, BuffersStay
<1>3. rdbuf' = rdbuf /\ rdqueue' = rdqueue /\ rdcall' = rdcall /\ rdmsg' = rdmsg
  BY DEF listVars
<1>4. RdBufTypes'
  BY <1>1, <1>3 DEF RdBufTypes
<1>5. CopiesCurrent'
  <2>1. CASE UNCHANGED lastwrite
    BY <1>1, <1>2, <1>3, <2>1 DEF CopiesCurrent
  <2> QED BY <2>1
<1>6. ServerCurrent'
  BY <1>2 DEF ServerCurrent
<1>7. ReadsFirst'
  <2>1. CASE UNCHANGED comm
    BY <1>1, <1>3, <2>1 DEF ReadsFirst
  <2>2. CASE comm'.type # "read"
    BY <2>2 DEF ReadsFirst
  <2> QED BY <2>1, <2>2
<1> QED BY <1>2, <1>4, <1>5, <1>6, <1>7 DEF RdsIs, RdsInv

LEMMA RdNoComm ==
  /\ NoComm \in [who : RdClients \cup {"nobody", "rdsprocess"}, type : RdMsgTypes, seq : Nat,
                 blk : RdBlocks, data : RdContents, tries : Nat, xmit : BOOLEAN]
  /\ NoComm.type = "none" /\ NoComm.seq = 0
PROOF BY DEF NoComm, RdMsgTypes, RdBlocks, RdContents

LEMMA FewerReplies ==
  ASSUME NEW S, NEW r \in Seq(S), r # <<>>
  PROVE  /\ Tail(r) \in Seq(S) /\ Len(Tail(r)) = Len(r) - 1 /\ Len(r) \in Nat /\ Head(r) = r[1] /\ 1 \in 1..Len(r)
         /\ \A i \in 1..Len(Tail(r)) : i + 1 \in 1..Len(r) /\ Tail(r)[i] = r[i + 1]
PROOF OBVIOUS

LEMMA CommFields ==
  ASSUME RdCommTypes
  PROVE  /\ comm.seq \in Nat /\ comm.blk \in RdBlocks /\ comm.data \in RdContents /\ comm.type \in RdMsgTypes
         /\ comm.tries \in Nat /\ replies \in Seq([seq : Nat, type : RdMsgTypes, data : RdContents])
         /\ \A i \in 1..Len(replies) : replies[i] \in [seq : Nat, type : RdMsgTypes, data : RdContents]
PROOF
<1>1. /\ comm.seq \in Nat /\ comm.blk \in RdBlocks /\ comm.data \in RdContents /\ comm.type \in RdMsgTypes
      /\ comm.tries \in Nat
  BY DEF RdCommTypes
<1>2. PICK S : S = [seq : Nat, type : RdMsgTypes, data : RdContents]
  OBVIOUS
<1>3. replies \in Seq(S)
  BY <1>2 DEF RdCommTypes
<1>4. \A i \in 1..Len(replies) : replies[i] \in S
  BY <1>3
<1> QED BY <1>1, <1>2, <1>3, <1>4

(* An exchange begins. *)
LEMMA ExchangeBegins ==
  ASSUME RdsIs, NEW who \in RdClients \cup {"rdsprocess"}, NEW type \in {"open", "delete", "read", "write"},
         NEW k \in RdBlocks, NEW d \in RdContents, Starts(who, type, k, d), UNCHANGED netVars, rdblk' \in DiskBlocks,
         type = "write" => k \in DiskBlocks
  PROVE  /\ RdCommTypes' /\ RepliesMean' /\ comm'.type = type /\ comm'.blk = k /\ comm'.data = d
         /\ \A j \in DiskBlocks : ~WriteWaits(j) => server'[j] = lastwrite[j]
PROOF
<1>1. /\ comm = NoComm /\ rdseq' = rdseq + 1
      /\ comm' = [who |-> who, type |-> type, seq |-> rdseq, blk |-> k, data |-> d, tries |-> 0, xmit |-> TRUE]
  BY DEF Starts
<1>2. RdCommTypes /\ RepliesMean /\ ServerCurrent /\ rdseq \in Nat
  BY DEF RdsIs, RdCommTypes
<1>3. server' = server /\ replies' = replies
  BY DEF netVars
<1>4. RdCommTypes'
  BY <1>1, <1>2, <1>3 DEF RdCommTypes, RdMsgTypes
<1>5. comm'.type = type /\ comm'.blk = k /\ comm'.data = d /\ comm'.seq = rdseq
  BY <1>1
<1>6. RepliesMean'
  <2>1. ASSUME NEW i \in 1..Len(replies) PROVE replies[i].seq < rdseq /\ replies[i].seq \in Nat
    <3>1. replies[i] \in [seq : Nat, type : RdMsgTypes, data : RdContents]
      BY <1>2, CommFields
    <3> QED BY <1>2, <3>1 DEF RepliesMean
  <2>2. \A i \in 1..Len(replies) : replies[i].seq < rdseq + 1 /\ replies[i].seq # rdseq
    BY <1>2, <2>1
  <2> QED BY <1>1, <1>2, <1>3, <1>5, <2>2 DEF RepliesMean
<1>7. \A j \in DiskBlocks : ~WriteWaits(j) => server'[j] = lastwrite[j]
  BY <1>1, <1>2, <1>3, RdNoComm DEF ServerCurrent, Current, Writing
<1> QED BY <1>4, <1>5, <1>6, <1>7

(* An exchange ends; a write's with its own reply. *)
LEMMA ExchangeEnds ==
  ASSUME RdsIs, EndsComm, replies' = replies \/ (replies # <<>> /\ replies' = Tail(replies)),
         UNCHANGED <<server, rdseq, rdblk>>,
         comm.type = "write" => Accepted /\ ~Stale
  PROVE  /\ RdCommTypes' /\ RepliesMean' /\ comm'.type = "none"
         /\ \A k \in DiskBlocks : ~WriteWaits(k) => server'[k] = lastwrite[k]
PROOF
<1>1. comm' = NoComm /\ comm'.type = "none" /\ comm'.seq = 0
  BY RdNoComm DEF EndsComm
<1>2. RdCommTypes /\ RepliesMean /\ ServerCurrent
  BY DEF RdsIs
<1>3. /\ replies' \in Seq([seq : Nat, type : RdMsgTypes, data : RdContents])
      /\ \A i \in 1..Len(replies') : \E j \in 1..Len(replies) : replies'[i] = replies[j]
  <2>1. CASE replies' = replies
    BY <1>2, <2>1, CommFields
  <2>2. CASE replies # <<>> /\ replies' = Tail(replies)
    BY <1>2, <2>2, CommFields, FewerReplies
  <2> QED BY <2>1, <2>2
<1>4. RdCommTypes'
  BY <1>1, <1>2, <1>3, RdNoComm DEF RdCommTypes
<1>5. RepliesMean'
  <2>1. \A i \in 1..Len(replies') : replies'[i].seq < rdseq
    BY <1>2, <1>3 DEF RepliesMean
  <2>2. 0 < rdseq
    BY <1>2 DEF RepliesMean, RdCommTypes
  <2> QED BY <1>1, <2>1, <2>2 DEF RepliesMean
<1>6. ASSUME NEW k \in DiskBlocks, ~WriteWaits(k) PROVE server[k] = lastwrite[k]
  <2>1. CASE ~Writing(k)
    BY <1>2, <1>6, <2>1 DEF ServerCurrent, Current
  <2>2. CASE Writing(k)
    <3>1. comm.type = "write" /\ comm.blk = k /\ comm.data = lastwrite[k]
      BY <1>2, <1>6, <2>2 DEF ServerCurrent, Current, Writing
    <3>2. replies # <<>> /\ Head(replies).seq <= comm.seq /\ ~(Head(replies).seq < comm.seq)
      BY <3>1 DEF Accepted, Accepts, Stale
    <3>3. Head(replies) = replies[1] /\ 1 \in 1..Len(replies) /\ replies[1].seq \in Nat /\ comm.seq \in Nat
      <4>1. replies \in Seq([seq : Nat, type : RdMsgTypes, data : RdContents]) /\ comm.seq \in Nat
        BY <1>2, CommFields
      <4>2. Head(replies) = replies[1] /\ 1 \in 1..Len(replies)
        BY <3>2, <4>1, FewerReplies
      <4>3. replies[1] \in [seq : Nat, type : RdMsgTypes, data : RdContents]
        BY <1>2, <4>2, CommFields
      <4> QED BY <4>1, <4>2, <4>3
    <3>4. replies[1].seq = comm.seq
      BY <3>2, <3>3
    <3>5. server[k] = comm.data
      BY <1>2, <3>1, <3>3, <3>4 DEF RepliesMean
    <3> QED BY <3>1, <3>5
  <2> QED BY <2>1, <2>2
<1> QED BY <1>1, <1>4, <1>5, <1>6

(* rdscomm sends, passes over a reply or a timeout: only its counters change. *)
LEMMA RetriesKeep ==
  ASSUME RdsIs, CommSends \/ CommIgnores \/ CommTimesOut
  PROVE  RdsInv'
PROOF
<1>1. RdCommTypes /\ RepliesMean /\ ServerCurrent /\ RdBufTypes
  BY DEF RdsIs
<1>2. UNCHANGED <<listVars, rdcall, rdmsg, server, lastwrite, rdseq, rdblk>>
  BY DEF CommSends, CommIgnores, CommTimesOut, netVars
<1>3. /\ comm'.type = comm.type /\ comm'.seq = comm.seq /\ comm'.blk = comm.blk /\ comm'.data = comm.data
      /\ comm' \in [who : RdClients \cup {"nobody", "rdsprocess"}, type : RdMsgTypes, seq : Nat,
                    blk : RdBlocks, data : RdContents, tries : Nat, xmit : BOOLEAN]
  <2>1. CASE CommSends
    BY <1>1, <2>1 DEF CommSends, RdCommTypes
  <2>2. ASSUME NEW x \in BOOLEAN, TriesAgain(x)
        PROVE  /\ comm'.type = comm.type /\ comm'.seq = comm.seq /\ comm'.blk = comm.blk /\ comm'.data = comm.data
               /\ comm' \in [who : RdClients \cup {"nobody", "rdsprocess"}, type : RdMsgTypes, seq : Nat,
                             blk : RdBlocks, data : RdContents, tries : Nat, xmit : BOOLEAN]
    <3>1. PICK t \in Nat : t = comm.tries + 1
      BY <1>1, CommFields
    <3>2. comm' = [comm EXCEPT !.tries = t, !.xmit = x]
      BY <2>2, <3>1 DEF TriesAgain
    <3>3. comm \in [who : RdClients \cup {"nobody", "rdsprocess"}, type : RdMsgTypes, seq : Nat,
                    blk : RdBlocks, data : RdContents, tries : Nat, xmit : BOOLEAN]
      BY <1>1 DEF RdCommTypes
    <3> QED BY <3>2, <3>3
  <2>3. CASE CommTimesOut
    BY <2>2, <2>3 DEF CommTimesOut
  <2>4. CASE CommIgnores
    <3>1. Resends(Head(replies)) \in BOOLEAN
      BY DEF Resends
    <3> QED BY <2>2, <2>4, <3>1 DEF CommIgnores
  <2> QED BY <2>1, <2>3, <2>4
<1>4. /\ replies' \in Seq([seq : Nat, type : RdMsgTypes, data : RdContents])
      /\ \A i \in 1..Len(replies') : \E j \in 1..Len(replies) : replies'[i] = replies[j]
  <2>1. CASE replies' = replies
    BY <1>1, <2>1, CommFields
  <2>2. CASE replies # <<>> /\ replies' = Tail(replies)
    BY <1>1, <2>2, CommFields, FewerReplies
  <2> QED BY <2>1, <2>2 DEF CommSends, CommIgnores, CommTimesOut, netVars
<1>5. RdCommTypes'
  BY <1>1, <1>2, <1>3, <1>4 DEF RdCommTypes
<1>6. RepliesMean'
  BY <1>1, <1>2, <1>3, <1>4 DEF RepliesMean
<1>7. \A k \in DiskBlocks : ~WriteWaits(k) => Current(k)'
  BY <1>1, <1>2, <1>3 DEF ServerCurrent, Current, Writing
<1>8. comm'.type # "read" \/ ReadsFirst'
  BY <1>2, <1>3 DEF RdsIs, ReadsFirst, listVars
<1> QED BY <1>1, <1>2, <1>5, <1>6, <1>7, <1>8, ExchangeStep DEF RdBufTypes

(* The server does what the copy of the request says, and answers or not. *)
LEMMA ServerAnswersKeeps ==
  ASSUME RdsIs, ServerAnswers
  PROVE  RdsInv'
PROOF
<1>1. RdCommTypes /\ RepliesMean /\ ServerCurrent /\ RdBufTypes /\ RdOrder /\ RdAsked /\ RdLists /\ CopiesCurrent
  BY DEF RdsIs
<1>2. UNCHANGED <<listVars, rdcall, rdmsg, comm, rdseq, rdblk>>
  BY DEF ServerAnswers
<1>3. \E r \in [seq : Nat, type : RdMsgTypes, data : RdContents] :
        r.seq = comm.seq /\ replies' \in {replies, Append(replies, r)}
  <2>1. (IF comm.type = "read" THEN server[comm.blk] ELSE 0) \in RdContents
    <3>1. comm.type = "read" => comm.blk \in DiskBlocks
      BY DEF RdsIs, ReadsFirst
    <3> QED BY <1>1, <3>1 DEF RdCommTypes, RdContents
  <2>2. PICK r : r = [seq |-> comm.seq, type |-> comm.type,
                      data |-> IF comm.type = "read" THEN server[comm.blk] ELSE 0]
    OBVIOUS
  <2>3. r \in [seq : Nat, type : RdMsgTypes, data : RdContents] /\ r.seq = comm.seq
    BY <1>1, <2>1, <2>2, CommFields
  <2>4. replies' \in {replies, Append(replies, r)}
    BY <2>2 DEF ServerAnswers
  <2> QED BY <2>3, <2>4
<1>4. PICK r \in [seq : Nat, type : RdMsgTypes, data : RdContents] :
        r.seq = comm.seq /\ replies' \in {replies, Append(replies, r)}
  BY <1>3
<1>5. /\ replies' \in Seq([seq : Nat, type : RdMsgTypes, data : RdContents])
      /\ \A i \in 1..Len(replies') : replies'[i] = r \/ \E j \in 1..Len(replies) : replies'[i] = replies[j]
  <2>1. replies \in Seq([seq : Nat, type : RdMsgTypes, data : RdContents])
    BY <1>1, CommFields
  <2>2. CASE replies' = replies
    BY <2>1, <2>2
  <2>3. CASE replies' = Append(replies, r)
    <3>1. Append(replies, r) \in Seq([seq : Nat, type : RdMsgTypes, data : RdContents])
          /\ Len(Append(replies, r)) = Len(replies) + 1 /\ Len(replies) \in Nat
          /\ \A i \in 1..(Len(replies) + 1) :
               Append(replies, r)[i] = IF i = Len(replies) + 1 THEN r ELSE replies[i]
      BY <2>1
    <3> QED BY <2>3, <3>1
  <2> QED BY <1>4, <2>2, <2>3
<1>6. CASE comm.type = "write"
  <2>1. comm.blk \in DiskBlocks /\ comm.data \in RdContents
    BY <1>1, <1>6, CommFields DEF RepliesMean
  <2>2. server' = [server EXCEPT ![comm.blk] = comm.data] /\ lastwrite' = lastwrite /\ upset' = upset
    BY <1>6 DEF ServerAnswers, Serves
  <2>3. RdCommTypes' /\ server'[comm.blk] = comm.data /\ \A k \in DiskBlocks : k # comm.blk => server'[k] = server[k]
    BY <1>1, <1>2, <1>5, <2>1, <2>2 DEF RdCommTypes
  <2>4. RepliesMean'
    BY <1>1, <1>2, <1>4, <1>5, <2>1, <2>3 DEF RepliesMean
  <2>5. \A k \in DiskBlocks : ~WriteWaits(k) => Current(k)'
    BY <1>1, <1>2, <1>6, <2>2, <2>3 DEF ServerCurrent, Current, Writing
  <2> QED BY <1>1, <1>2, <2>2, <2>3, <2>4, <2>5, ExchangeStep DEF RdBufTypes
<1>7. CASE comm.type = "delete" /\ upset' = "no"
  <2>1. /\ server' = [k \in DiskBlocks |-> 0] /\ lastwrite' = server'
        /\ ~\E b \in ToSet(rdqueue \o rdcache) : rdbuf[b].valid
    <3>1. /\ server' = [k \in DiskBlocks |-> 0] /\ lastwrite' = server'
          /\ upset' = IF \E b \in ToSet(rdqueue \o rdcache) : rdbuf[b].valid THEN "deleted in use" ELSE upset
      BY <1>7 DEF ServerAnswers, Serves
    <3>2. "deleted in use" # "no"
      OBVIOUS
    <3> QED BY <1>7, <3>1, <3>2
  <2>2. \A b \in RdBufs : b \in RdQueued \/ b \in RdCached => ~rdbuf[b].valid
    <3>1. /\ rdqueue \in Seq(RdBufs) /\ rdcache \in Seq(RdBufs)
          /\ \A b \in RdQueued : \E i \in 1..Len(rdqueue) : rdqueue[i] = b
          /\ \A b \in RdCached : \E i \in 1..Len(rdcache) : rdcache[i] = b
      <4>1. RdQueued \subseteq RdBufs /\ RdCached \subseteq RdBufs /\ Listed(rdqueue) /\ Listed(rdcache)
        BY <1>1 DEF RdLists
      <4> QED BY <4>1, ListedIs, SeqMonotonic DEF RdQueued, RdCached
    <3>2. ToSet(rdqueue) \subseteq ToSet(rdqueue \o rdcache) /\ ToSet(rdcache) \subseteq ToSet(rdqueue \o rdcache)
      BY <3>1, InConcat
    <3> QED BY <2>1, <3>2 DEF RdQueued, RdCached
  <2>3. RdCommTypes' /\ lastwrite' \in [DiskBlocks -> RdContents]
    BY <1>1, <1>2, <1>5, <2>1 DEF RdCommTypes, RdContents
  <2>4. RepliesMean'
    BY <1>1, <1>2, <1>4, <1>5, <1>7 DEF RepliesMean
  <2>5. /\ rdbuf' = rdbuf /\ RdQueued' = RdQueued /\ RdCached' = RdCached
        /\ RdQueued \subseteq RdBufs /\ RdCached \subseteq RdBufs
    BY <1>1, <1>2 DEF listVars, RdQueued, RdCached, RdLists
  <2>6. CopiesCurrent'
    BY <1>1, <2>2, <2>5 DEF CopiesCurrent, RdAsked
  <2>7. \A k \in DiskBlocks : Current(k)'
    BY <1>2, <1>7, <2>1 DEF Current, Writing
  <2> QED BY <1>2, <2>3, <2>4, <2>6, <2>7, ExchangeStep
<1>8. CASE comm.type \notin {"write", "delete"}
  <2>1. server' = server /\ lastwrite' = lastwrite
    BY <1>8 DEF ServerAnswers, Serves
  <2>2. RdCommTypes'
    BY <1>1, <1>2, <1>5, <2>1 DEF RdCommTypes
  <2>3. RepliesMean'
    BY <1>1, <1>2, <1>4, <1>5, <1>8 DEF RepliesMean
  <2>4. \A k \in DiskBlocks : ~WriteWaits(k) => Current(k)'
    BY <1>1, <1>2, <1>8, <2>1 DEF ServerCurrent, Current, Writing
  <2> QED BY <1>1, <1>2, <2>1, <2>2, <2>3, <2>4, ExchangeStep DEF RdBufTypes
<1> QED BY <1>6, <1>7, <1>8 DEF RdsInv

LEMMA ProcReadsKeeps ==
  ASSUME RdsIs, ProcReads
  PROVE  RdsInv'
PROOF
<1>1. /\ Starts("rdsprocess", "read", rdblk, 0) /\ UNCHANGED <<listVars, rdcall, rdmsg, lastwrite, rdblk, netVars>>
      /\ rdqueue # <<>> /\ rdbuf[Head(rdqueue)].op = "read"
  BY DEF ProcReads, ProcFree, First
<1>2. rdblk \in DiskBlocks /\ rdblk \in RdBlocks /\ 0 \in RdContents /\ lastwrite \in [DiskBlocks -> RdContents]
  BY DEF RdsIs, RdCommTypes, RdBufTypes, RdBlocks, RdContents
<1>3. /\ RdCommTypes' /\ RepliesMean' /\ comm'.type = "read" /\ comm'.blk = rdblk
      /\ \A j \in DiskBlocks : ~WriteWaits(j) => server'[j] = lastwrite[j]
  BY <1>1, <1>2, ExchangeBegins
<1>4. \A k \in DiskBlocks : ~WriteWaits(k) => Current(k)'
  BY <1>1, <1>3 DEF Current, Writing
<1>5. ReadsFirst'
  BY <1>1, <1>2, <1>3 DEF ReadsFirst, listVars
<1> QED BY <1>1, <1>2, <1>3, <1>4, <1>5, ExchangeStep

LEMMA OpensKeep ==
  ASSUME RdsIs, NEW c \in RdClients, RdsOpen(c) \/ RdsDelete(c)
  PROVE  RdsInv'
PROOF
<1>1. UNCHANGED <<listVars, rdcall, rdmsg, lastwrite, rdblk, netVars>>
  BY DEF RdsOpen, RdsDelete
<1>2. rdblk \in DiskBlocks /\ 0 \in RdBlocks /\ 0 \in RdContents /\ lastwrite \in [DiskBlocks -> RdContents]
  BY DEF RdsIs, RdCommTypes, RdBufTypes, RdBlocks, RdContents
<1>3. ASSUME NEW type \in {"open", "delete"}, Starts(c, type, 0, 0)
      PROVE  RdsInv'
  <2>1. /\ RdCommTypes' /\ RepliesMean' /\ comm'.type = type
        /\ \A j \in DiskBlocks : ~WriteWaits(j) => server'[j] = lastwrite[j]
    BY <1>1, <1>2, <1>3, ExchangeBegins
  <2>2. \A k \in DiskBlocks : ~WriteWaits(k) => Current(k)'
    BY <1>1, <2>1 DEF Current, Writing
  <2> QED BY <1>1, <1>2, <1>3, <2>1, <2>2, ExchangeStep
<1>4. CASE UNCHANGED <<comm, rdseq>>
  <2>1. server' = server /\ replies' = replies
    BY <1>1 DEF netVars
  <2>2. RdCommTypes' /\ RepliesMean' /\ \A k \in DiskBlocks : ~WriteWaits(k) => Current(k)'
    BY <1>1, <1>4, <2>1 DEF RdsIs, RdCommTypes, RepliesMean, ServerCurrent, Current, Writing
  <2> QED BY <1>1, <1>2, <1>4, <2>2, ExchangeStep
<1> QED BY <1>3, <1>4 DEF RdsOpen, RdsDelete

LEMMA OtherEndsKeep ==
  ASSUME RdsIs, ProcHasWritten \/ \E c \in RdClients : RdsOpenEnds(c)
  PROVE  RdsInv'
PROOF
<1>1. SUFFICES ASSUME upset' = "no" PROVE RdsInv'
  BY DEF RdsInv
<1>2. /\ UNCHANGED <<listVars, rdcall, rdmsg, lastwrite, rdblk, rdseq, server>> /\ EndsComm
      /\ replies' = replies \/ (replies # <<>> /\ replies' = Tail(replies))
  BY DEF ProcHasWritten, RdsOpenEnds, Accepted
<1>3. comm.type = "write" => Accepted /\ ~Stale
  <2>1. CASE ProcHasWritten
    <3>1. "stale reply" # "no"
      OBVIOUS
    <3> QED BY <1>1, <2>1, <3>1 DEF ProcHasWritten
  <2>2. CASE \E c \in RdClients : RdsOpenEnds(c)
    BY <2>2 DEF RdsOpenEnds
  <2> QED BY <2>1, <2>2
<1>4. /\ RdCommTypes' /\ RepliesMean' /\ comm'.type = "none"
      /\ \A k \in DiskBlocks : ~WriteWaits(k) => server'[k] = lastwrite[k]
  BY <1>2, <1>3, ExchangeEnds
<1>5. \A k \in DiskBlocks : ~WriteWaits(k) => Current(k)'
  BY <1>2, <1>4 DEF Current, Writing
<1>6. lastwrite \in [DiskBlocks -> RdContents]
  BY DEF RdsIs, RdBufTypes
<1> QED BY <1>2, <1>4, <1>5, <1>6, ExchangeStep

-----------------------------------------------------------------------------
(* Requests *)

LEMMA PrecedesIn ==
  ASSUME NEW q, Listed(q), NEW a, NEW b, Precedes(q, a, b)
  PROVE  a \in ToSet(q) /\ b \in ToSet(q) /\ a # b
PROOF
<1>1. PICK i \in 1..Len(q), j \in 1..Len(q) : i < j /\ q[i] = a /\ q[j] = b
  BY DEF Precedes
<1>2. q[i] \in ToSet(q) /\ q[j] \in ToSet(q) /\ (q[i] = q[j] => i = j) /\ Len(q) \in Nat
  BY ListedIs
<1>3. i # j
  BY <1>1, <1>2
<1> QED BY <1>1, <1>2, <1>3

LEMMA AskedValues == AskedFor["read"] = "read asked" /\ AskedFor["sync"] = "sync asked"
PROOF BY DEF AskedFor

(* Buffer b leaves its list, with a request of c for block k. *)
LEMMA RequestKeeps ==
  ASSUME RdsIs, NEW c \in RdClients, NEW b \in RdBufs, NEW op \in {"read", "write", "sync"},
         NEW k \in RdBlocks, NEW d \in RdContents, Request(c, b, op, k, d),
         op # "sync" => k \in DiskBlocks, rdcall[c].op \in {"none", "read", "write", "sync"},
         b \notin RdQueued, b \notin RdFree', b \notin RdCached', Listed(rdfree'), Listed(rdcache'),
         RdFree' \subseteq RdFree, RdCached' \subseteq RdCached,
         RdFree \cup RdCached = RdFree' \cup RdCached' \cup {b},
         \A x, y : Precedes(rdcache', x, y) => Precedes(rdcache, x, y),
         b \in RdCached => rdbuf[b].ref <= 0,
         op # "sync" => ~WriteWaits(k) /\ \A x \in RdCached' : rdbuf[x].valid => rdbuf[x].blk # k,
         UNCHANGED <<rdseq, rdblk, netVars, comm>>, RdUnits'
  PROVE  RdsInv'
PROOF
<1>1. /\ RdBufTypes /\ RdCommTypes /\ RdLists /\ RdOrder /\ RdAsked /\ RdTold
      /\ CopiesCurrent /\ ServerCurrent /\ RepliesMean /\ ReadsFirst
  BY DEF RdsIs
<1>2. PICK new : new = [op |-> op, ref |-> IF op = "write" THEN 0 ELSE 1, blk |-> k,
                        valid |-> op = "write", pid |-> c, data |-> d]
  OBVIOUS
<1>3. /\ new.op = op /\ new.blk = k /\ (new.valid <=> op = "write") /\ new.pid = c /\ new.data = d
      /\ op = "write" => new.ref = 0
      /\ new \in [op : {"none", "read", "write", "sync"}, ref : Int, blk : RdBlocks,
                  valid : BOOLEAN, pid : RdClients \cup {"nobody"}, data : RdContents]
  <2>1. CASE op = "write"
    <3>1. new = [op |-> op, ref |-> 0, blk |-> k, valid |-> TRUE, pid |-> c, data |-> d]
      BY <1>2, <2>1, Zenon
    <3> QED BY <2>1, <3>1
  <2>2. CASE op # "write"
    <3>1. new = [op |-> op, ref |-> 1, blk |-> k, valid |-> FALSE, pid |-> c, data |-> d]
      BY <1>2, <2>2, Zenon
    <3> QED BY <2>2, <3>1
  <2> QED BY <2>1, <2>2
<1>4. /\ rdbuf' = [rdbuf EXCEPT ![b] = new] /\ rdqueue' = Append(rdqueue, b)
      /\ rdbuf'[b] = new /\ \A x \in RdBufs : x # b => rdbuf'[x] = rdbuf[x]
  BY <1>1, <1>2 DEF Request, RdBufTypes
<1>5. /\ Listed(rdqueue') /\ RdQueued' = RdQueued \cup {b}
      /\ rdqueue # <<>> => Head(rdqueue') = Head(rdqueue)
      /\ rdqueue' # <<>>
      /\ \A x, y : Precedes(rdqueue', x, y) => Precedes(rdqueue, x, y) \/ (y = b /\ x \in RdQueued)
  <2>1. Listed(rdqueue) /\ b \notin ToSet(rdqueue)
    BY <1>1 DEF RdLists, RdQueued
  <2>2. rdqueue \in Seq(ToSet(rdqueue))
    BY <2>1, ListedIs
  <2> QED BY <1>4, <2>1, <2>2, ListAppends DEF RdQueued
<1>6. RdLists'
  BY <1>1, <1>5 DEF RdLists
<1>7. /\ RdQueued \subseteq RdBufs /\ RdCached \subseteq RdBufs
      /\ \A x \in RdQueued : rdbuf'[x] = rdbuf[x] /\ x # b
      /\ \A x \in RdCached' : rdbuf'[x] = rdbuf[x] /\ x # b /\ x \in RdCached
  BY <1>1, <1>4 DEF RdLists
<1>8. /\ rdcall' \in [RdClients -> [op : {"none", "read", "write", "sync", "read asked", "sync asked"},
                                   blk : RdBlocks, data : RdContents]]
      /\ rdmsg' \in [RdClients -> {"none", "ok"} \cup RdBufs]
      /\ lastwrite' \in [DiskBlocks -> RdContents]
      /\ \A p \in RdClients : p # c => rdcall'[p] = rdcall[p] /\ rdmsg'[p] = rdmsg[p]
      /\ op = "write" => rdcall'[c].op = "none" /\ lastwrite'[k] = d /\ \A j \in DiskBlocks : j # k => lastwrite'[j] = lastwrite[j]
      /\ op # "write" => rdcall'[c].op = AskedFor[op] /\ rdmsg'[c] = "none" /\ lastwrite' = lastwrite
  <2>1. CASE op = "write"
    <3>1. /\ lastwrite' = [lastwrite EXCEPT ![k] = d] /\ rdcall' = [rdcall EXCEPT ![c] = NoCall] /\ rdmsg' = rdmsg
          /\ k \in DiskBlocks
      BY <2>1 DEF Request
    <3>2. NoCall \in [op : {"none", "read", "write", "sync", "read asked", "sync asked"},
                      blk : RdBlocks, data : RdContents] /\ NoCall.op = "none"
      BY DEF NoCall, RdBlocks, RdContents
    <3> QED BY <1>1, <2>1, <3>1, <3>2 DEF RdBufTypes
  <2>2. CASE op # "write"
    <3>1. /\ rdmsg' = [rdmsg EXCEPT ![c] = "none"] /\ lastwrite' = lastwrite
          /\ rdcall' = [rdcall EXCEPT ![c] = [op |-> AskedFor[op], blk |-> k, data |-> d]]
      BY <2>2 DEF Request
    <3>2. AskedFor[op] \in {"none", "read", "write", "sync", "read asked", "sync asked"}
      BY <2>2, AskedValues
    <3> QED BY <1>1, <2>2, <3>1, <3>2 DEF RdBufTypes
  <2> QED BY <2>1, <2>2
<1>9. RdBufTypes'
  BY <1>1, <1>3, <1>4, <1>8 DEF RdBufTypes
<1>10. RdCommTypes'
  BY <1>1 DEF RdCommTypes, netVars
<1>11. RdOrder'
  <2>1. ASSUME NEW x \in RdBufs, NEW y \in RdBufs, Precedes(rdcache', x, y), rdbuf'[y].valid
        PROVE  rdbuf'[x].blk # rdbuf'[y].blk
    <3>1. x \in RdCached' /\ y \in RdCached'
      BY <2>1, PrecedesIn DEF RdCached
    <3>2. Precedes(rdcache, x, y) /\ rdbuf'[x] = rdbuf[x] /\ rdbuf'[y] = rdbuf[y]
      BY <1>7, <2>1, <3>1
    <3> QED BY <1>1, <2>1, <3>2 DEF RdOrder
  <2>2. ASSUME NEW x \in RdCached', NEW y \in RdQueued', rdbuf'[x].valid, rdbuf'[x].blk = rdbuf'[y].blk
        PROVE  rdbuf'[y].op = "sync"
    <3>1. CASE y = b
      BY <1>3, <1>4, <1>7, <2>2, <3>1
    <3>2. CASE y # b
      BY <1>1, <1>5, <1>7, <2>2, <3>2 DEF RdOrder
    <3> QED BY <3>1, <3>2
  <2>3. ASSUME NEW x \in RdBufs, NEW y \in RdBufs, Precedes(rdqueue', x, y), rdbuf'[x].op = "write",
               rdbuf'[x].blk = rdbuf'[y].blk
        PROVE  rdbuf'[y].op = "sync"
    <3>1. CASE y = b /\ x \in RdQueued
      BY <1>3, <1>4, <1>7, <2>3, <3>1 DEF WriteWaits
    <3>2. CASE Precedes(rdqueue, x, y)
      <4>1. x \in RdQueued /\ y \in RdQueued
        <5>1. Listed(rdqueue)
          BY <1>1 DEF RdLists
        <5> QED BY <3>2, <5>1, PrecedesIn DEF RdQueued
      <4> QED BY <1>1, <1>7, <2>3, <3>2, <4>1 DEF RdOrder
    <3> QED BY <1>5, <2>3, <3>1, <3>2
  <2> QED BY <2>1, <2>2, <2>3 DEF RdOrder
<1>12. \A x \in RdQueued : rdbuf[x].op # "write" => rdbuf[x].pid # c /\ AskedIs(x)
  <2>1. ASSUME NEW x \in RdQueued, rdbuf[x].op # "write" PROVE rdbuf[x].pid # c /\ AskedIs(x)
    <3>1. AskedIs(x) /\ rdbuf[x].op \in {"read", "sync"}
      BY <1>1, <2>1 DEF RdAsked
    <3>2. AskedFor[rdbuf[x].op] \in {"read asked", "sync asked"}
      BY <3>1, AskedValues
    <3> QED BY <3>1, <3>2 DEF AskedIs
  <2> QED BY <2>1
<1>13. RdAsked'
  <2>1. ASSUME NEW x \in RdQueued'
        PROVE  /\ rdbuf'[x].op \in {"read", "write", "sync"} /\ (rdbuf'[x].valid <=> rdbuf'[x].op = "write")
               /\ rdbuf'[x].op = "write" => rdbuf'[x].ref <= 0 /\ rdbuf'[x].blk \in DiskBlocks
               /\ rdbuf'[x].op # "write" => AskedIs(x)'
    <3>1. CASE x = b
      <4>1. op # "write" => AskedIs(b)'
        <5>1. op # "write" => \A y \in RdQueued' : rdbuf'[y].op # "write" /\ rdbuf'[y].pid = c => y = b
          BY <1>5, <1>7, <1>12
        <5> QED BY ZenonT(30), <1>3, <1>4, <1>8, <5>1 DEF AskedIs
      <4> QED BY <1>3, <1>4, <3>1, <4>1
    <3>2. CASE x # b
      <4>1. x \in RdQueued /\ rdbuf'[x] = rdbuf[x]
        BY <1>5, <1>7, <3>2
      <4>2. rdbuf[x].op # "write" => AskedIs(x)'
        <5> SUFFICES ASSUME rdbuf[x].op # "write" PROVE AskedIs(x)'
          OBVIOUS
        <5>1. rdbuf[x].pid # c /\ AskedIs(x)
          BY <1>12, <4>1
        <5>2. rdcall'[rdbuf[x].pid] = rdcall[rdbuf[x].pid] /\ rdmsg'[rdbuf[x].pid] = rdmsg[rdbuf[x].pid]
          BY <1>8, <5>1 DEF AskedIs
        <5>3. \A y \in RdQueued' : rdbuf'[y].op # "write" /\ rdbuf'[y].pid = rdbuf[x].pid => y = x
          BY <1>3, <1>4, <1>5, <1>7, <5>1 DEF AskedIs
        <5> QED BY <4>1, <5>1, <5>2, <5>3 DEF AskedIs
      <4> QED BY <1>1, <4>1, <4>2 DEF RdAsked
    <3> QED BY <3>1, <3>2
  <2>2. \A x \in RdCached' : rdbuf'[x].valid => rdbuf'[x].ref <= 0 /\ rdbuf'[x].blk \in DiskBlocks
    BY <1>1, <1>7 DEF RdAsked
  <2>3. \A p \in RdClients : rdcall'[p].op \in {"read", "write"} => rdcall'[p].blk \in DiskBlocks
    <3>1. rdcall'[c].op \notin {"read", "write"}
      BY <1>8, AskedValues
    <3> QED BY <1>1, <1>8, <3>1 DEF RdAsked
  <2> QED BY <2>1, <2>2, <2>3 DEF RdAsked
<1>14. RdTold'
  <2>1. ASSUME NEW p \in RdClients, rdcall'[p].op = "read asked", rdmsg'[p] # "none"
        PROVE  rdmsg'[p] \in RdCached' /\ rdbuf'[rdmsg'[p]].ref = 1 /\ ~rdbuf'[rdmsg'[p]].valid /\ rdbuf'[rdmsg'[p]].pid = p
    <3>1. p # c
      BY <1>8, <2>1
    <3>2. rdmsg'[p] = rdmsg[p] /\ rdcall'[p] = rdcall[p]
      BY <1>8, <3>1
    <3>3. rdmsg[p] \in RdCached /\ rdbuf[rdmsg[p]].ref = 1 /\ ~rdbuf[rdmsg[p]].valid /\ rdbuf[rdmsg[p]].pid = p
      BY <1>1, <2>1, <3>2 DEF RdTold
    <3>4. rdmsg[p] # b
      BY <3>3
    <3>5. rdmsg[p] \in RdCached'
      BY <1>1, <3>3, <3>4 DEF RdLists
    <3> QED BY <1>7, <3>2, <3>3, <3>5
  <2> QED BY <2>1 DEF RdTold
<1>15. CopiesCurrent'
  <2>1. ASSUME NEW x \in RdCached', rdbuf'[x].valid PROVE rdbuf'[x].data = lastwrite'[rdbuf'[x].blk]
    <3>1. x \in RdCached /\ rdbuf'[x] = rdbuf[x] /\ rdbuf[x].blk \in DiskBlocks /\ rdbuf[x].data = lastwrite[rdbuf[x].blk]
      BY <1>1, <1>7, <2>1 DEF CopiesCurrent, RdAsked
    <3>2. op = "write" => rdbuf[x].blk # k
      BY <2>1, <3>1
    <3> QED BY <1>8, <3>1, <3>2
  <2>2. ASSUME NEW x \in RdQueued', rdbuf'[x].op = "write" PROVE rdbuf'[x].data = lastwrite'[rdbuf'[x].blk]
    <3>1. CASE x = b
      <4>1. rdbuf'[x].op = op /\ rdbuf'[x].blk = k /\ rdbuf'[x].data = d
        BY <1>3, <1>4, <3>1
      <4> QED BY <1>8, <2>2, <4>1
    <3>2. CASE x # b
      <4>1. x \in RdQueued /\ rdbuf'[x] = rdbuf[x] /\ rdbuf[x].blk \in DiskBlocks /\ rdbuf[x].data = lastwrite[rdbuf[x].blk]
        BY <1>1, <1>5, <1>7, <2>2, <3>2 DEF CopiesCurrent, RdAsked
      <4>2. op = "write" => rdbuf[x].blk # k
        BY <2>2, <4>1 DEF WriteWaits
      <4> QED BY <1>8, <4>1, <4>2
    <3> QED BY <3>1, <3>2
  <2> QED BY <2>1, <2>2 DEF CopiesCurrent
<1>16. ServerCurrent'
  <2>1. ASSUME NEW j \in DiskBlocks, ~WriteWaits(j)' PROVE Current(j)'
    <3>1. ~WriteWaits(j)
      BY <1>5, <1>7, <2>1 DEF WriteWaits
    <3>2. ~(op = "write" /\ j = k)
      BY <1>3, <1>4, <1>5, <2>1 DEF WriteWaits
    <3>3. lastwrite'[j] = lastwrite[j]
      BY <1>8, <3>2
    <3>4. server' = server /\ comm' = comm
      BY DEF netVars
    <3> QED BY <1>1, <3>1, <3>3, <3>4 DEF ServerCurrent, Current, Writing
  <2> QED BY <2>1 DEF ServerCurrent
<1>17. RepliesMean'
  BY <1>1 DEF RepliesMean, netVars
<1>18. ReadsFirst'
  <2>1. rdqueue # <<>> => Head(rdqueue) \in RdQueued
    <3>1. Listed(rdqueue)
      BY <1>1 DEF RdLists
    <3> QED BY <3>1, ListTail DEF RdQueued
  <2> QED BY <1>1, <1>5, <1>7, <2>1 DEF ReadsFirst
<1> QED BY <1>6, <1>9, <1>10, <1>11, <1>13, <1>14, <1>15, <1>16, <1>17, <1>18 DEF RdsInv, RdsIs

-----------------------------------------------------------------------------
(* The units of rd_availsem *)

LEMMA CallersFew == IsFiniteSet(RdCallers) /\ Cardinality(RdCallers) \in Int
PROOF
<1>1. IsFiniteSet(RdCallers)
  BY RdSizes, FS_Subset DEF RdCallers
<1>2. Cardinality(RdCallers) \in Nat
  BY <1>1, FS_CardinalityType
<1> QED BY <1>1, <1>2

LEMMA RdCallersCounted ==
  ASSUME NEW c \in RdClients
  PROVE  /\ IsFiniteSet(RdCallers) /\ Cardinality(RdCallers) \in Nat
         /\ c \notin RdCallers => Cardinality(RdCallers \cup {c}) = Cardinality(RdCallers) + 1
         /\ c \in RdCallers => Cardinality(RdCallers \ {c}) = Cardinality(RdCallers) - 1
         /\ Cardinality({}) = 0
PROOF
<1>1. IsFiniteSet(RdCallers)
  BY RdSizes, FS_Subset DEF RdCallers
<1> QED BY <1>1, FS_CardinalityType, FS_AddElement, FS_RemoveElement, FS_EmptySet

LEMMA CallersAre ==
  ASSUME NEW c \in RdClients, \A p \in RdClients : p # c => rdcall'[p] = rdcall[p]
  PROVE  RdCallers' = IF rdcall'[c].op \in {"read", "write", "sync"} THEN RdCallers \cup {c} ELSE RdCallers \ {c}
PROOF
<1>1. CASE rdcall'[c].op \in {"read", "write", "sync"}
  BY <1>1, Zenon DEF RdCallers
<1>2. CASE rdcall'[c].op \notin {"read", "write", "sync"}
  BY <1>2, Zenon DEF RdCallers
<1> QED BY <1>1, <1>2

LEMMA LengthsAre ==
  ASSUME RdLists
  PROVE  Len(rdfree) \in Nat /\ Len(rdcache) \in Nat /\ Len(rdqueue) \in Nat
PROOF BY ListedIs DEF RdLists

(* A buffer is used for the unit that a call has taken. *)
LEMMA UnitTaken ==
  ASSUME RdUnits, Passes(availsem), availsem' = Take(availsem), RdCallers' = RdCallers,
         RdLists, Len(rdfree') + Len(rdcache') = (Len(rdfree) + Len(rdcache)) - 1
  PROVE  RdUnits'
PROOF
<1>1. PICK W \in SUBSET RdCallers : SemOf(availsem, W)
  BY DEF RdUnits
<1>2. PICK n \in Int, m \in Int : n = availsem.count /\ m = Cardinality(RdCallers)
  <2>1. availsem.count \in Int
    BY <1>1 DEF SemOf
  <2> QED BY <2>1, CallersFew
<1>3. SemOf(availsem', {}) /\ availsem'.count = n - 1
  BY <1>1, <1>2, SemTake
<1>4. PICK k \in Int : k = Len(rdfree) + Len(rdcache)
  BY LengthsAre
<1>5. k = n + m
  BY <1>2, <1>4 DEF RdUnits
<1>6. k - 1 = (n - 1) + m
  BY <1>5
<1>7. Len(rdfree') + Len(rdcache') = availsem'.count + Cardinality(RdCallers')
  BY <1>2, <1>3, <1>4, <1>6, Zenon
<1> QED BY <1>3, <1>7 DEF RdUnits

(* A buffer is used for the unit that a waiting call was let through with. *)
LEMMA UnitUsed ==
  ASSUME RdUnits, availsem' = availsem, NEW c \in RdCallers, ~WaitsAt(c, availsem), RdCallers' = RdCallers \ {c},
         RdLists, Len(rdfree') + Len(rdcache') = (Len(rdfree) + Len(rdcache)) - 1
  PROVE  RdUnits'
PROOF
<1>1. PICK W \in SUBSET RdCallers : SemOf(availsem, W)
  BY DEF RdUnits
<1>2. PICK n \in Int, m \in Int : n = availsem.count /\ m = Cardinality(RdCallers)
  <2>1. availsem.count \in Int
    BY <1>1 DEF SemOf
  <2> QED BY <2>1, CallersFew
<1>3. W \in SUBSET (RdCallers \ {c})
  BY <1>1, SemWaits DEF WaitsAt
<1>4. PICK k \in Int : k = Len(rdfree) + Len(rdcache)
  BY LengthsAre
<1>5. k = n + m
  BY <1>2, <1>4 DEF RdUnits
<1>6. k - 1 = n + (m - 1)
  BY <1>5
<1>7. Cardinality(RdCallers \ {c}) = m - 1
  BY <1>2, RdCallersCounted DEF RdCallers
<1>8. Len(rdfree') + Len(rdcache') = availsem'.count + Cardinality(RdCallers')
  BY <1>2, <1>4, <1>6, <1>7, Zenon
<1> QED BY <1>1, <1>3, <1>8 DEF RdUnits

(* A call has to wait for a unit. *)
LEMMA UnitWanted ==
  ASSUME RdUnits, NEW c \in RdClients, c \notin RdCallers, ~Passes(availsem), availsem' = Blocks(availsem, c),
         RdCallers' = RdCallers \cup {c}, RdLists, UNCHANGED <<rdfree, rdcache>>
  PROVE  RdUnits'
PROOF
<1>1. PICK W \in SUBSET RdCallers : SemOf(availsem, W)
  BY DEF RdUnits
<1>2. PICK n \in Int, m \in Int : n = availsem.count /\ m = Cardinality(RdCallers)
  <2>1. availsem.count \in Int
    BY <1>1 DEF SemOf
  <2> QED BY <2>1, CallersFew
<1>3. SemOf(availsem', W \cup {c}) /\ availsem'.count = n - 1
  BY <1>1, <1>2, SemBlocks
<1>4. PICK k \in Int : k = Len(rdfree) + Len(rdcache)
  BY LengthsAre
<1>5. k = n + m
  BY <1>2, <1>4 DEF RdUnits
<1>6. k = (n - 1) + (m + 1)
  BY <1>5
<1>7. Cardinality(RdCallers \cup {c}) = m + 1
  BY <1>2, RdCallersCounted
<1>8. Len(rdfree') + Len(rdcache') = availsem'.count + Cardinality(RdCallers')
  BY <1>3, <1>4, <1>6, <1>7, Zenon
<1>9. W \cup {c} \in SUBSET RdCallers'
  BY <1>1
<1> QED BY <1>3, <1>8, <1>9 DEF RdUnits

(* rdsprocess has taken a request off the queue. *)
LEMMA UnitReturned ==
  ASSUME RdUnits, availsem' = Signal(availsem), RdCallers' = RdCallers,
         RdLists, Len(rdfree') + Len(rdcache') = (Len(rdfree) + Len(rdcache)) + 1
  PROVE  RdUnits'
PROOF
<1>1. PICK W \in SUBSET RdCallers : SemOf(availsem, W)
  BY DEF RdUnits
<1>2. PICK n \in Int, m \in Int : n = availsem.count /\ m = Cardinality(RdCallers)
  <2>1. availsem.count \in Int
    BY <1>1 DEF SemOf
  <2> QED BY <2>1, CallersFew
<1>3. availsem'.count = n + 1 /\ \E V \in SUBSET W : SemOf(availsem', V)
  <2>1. n >= 0 \/ n < 0
    OBVIOUS
  <2> QED BY <1>1, <1>2, <2>1, SemSignal
<1>4. PICK k \in Int : k = Len(rdfree) + Len(rdcache)
  BY LengthsAre
<1>5. k = n + m
  BY <1>2, <1>4 DEF RdUnits
<1>6. k + 1 = (n + 1) + m
  BY <1>5
<1>7. Len(rdfree') + Len(rdcache') = availsem'.count + Cardinality(RdCallers')
  BY <1>2, <1>3, <1>4, <1>6, Zenon
<1> QED BY <1>1, <1>3, <1>7 DEF RdUnits

-----------------------------------------------------------------------------
(* Allocation *)

LEMMA GreatestExists ==
  ASSUME NEW n \in Nat, NEW S \in SUBSET (1..n), S # {}
  PROVE  Max(S) \in S
PROOF
<1>1. PICK T : T = {n - x : x \in S}
  OBVIOUS
<1>2. T \in SUBSET Nat /\ T # {}
  <2>1. PICK x \in S : TRUE
    OBVIOUS
  <2>2. n - x \in T
    BY <1>1, <2>1
  <2>3. \A z \in S : n - z \in Nat
    OBVIOUS
  <2> QED BY <1>1, <2>2, <2>3
<1>3. PICK y \in T : \A z \in T : y <= z
  BY <1>2, LeastExists
<1>4. PICK x \in S : y = n - x
  BY <1>1, <1>3
<1>5. \A z \in S : x >= z
  BY <1>1, <1>3, <1>4
<1>6. \E u \in S : \A z \in S : u >= z
  BY <1>5
<1> QED BY <1>6 DEF Max

(* What rdsbufalloc gives is on no list afterwards. *)
LEMMA AllocatesOne ==
  ASSUME RdLists, NEW b \in RdBufs, Allocates(b), ~NoneToAllocate
  PROVE  /\ b \notin RdQueued /\ b \notin RdFree' /\ b \notin RdCached'
         /\ Listed(rdfree') /\ Listed(rdcache')
         /\ RdFree' \subseteq RdFree /\ RdCached' \subseteq RdCached
         /\ RdFree \cup RdCached = RdFree' \cup RdCached' \cup {b}
         /\ \A x, y : Precedes(rdcache', x, y) => Precedes(rdcache, x, y)
         /\ b \in RdCached => rdbuf[b].ref <= 0
         /\ Len(rdfree') + Len(rdcache') = (Len(rdfree) + Len(rdcache)) - 1
PROOF
<1>1. PICK n \in Nat, m \in Nat : n = Len(rdfree) /\ m = Len(rdcache)
  BY LengthsAre
<1>2. CASE rdfree # <<>>
  <2>1. b = Head(rdfree) /\ rdfree' = Tail(rdfree) /\ rdcache' = rdcache
    BY <1>2 DEF Allocates
  <2>2. b \in RdFree /\ Listed(rdfree') /\ RdFree' = RdFree \ {b} /\ Len(rdfree') = n - 1
    BY <1>1, <1>2, <2>1, ListTail DEF RdFree, RdLists
  <2>3. RdCached' = RdCached
    BY <2>1 DEF RdCached
  <2> QED BY <1>1, <2>1, <2>2, <2>3 DEF RdLists
<1>3. CASE rdfree = <<>>
  <2>1. b = rdcache[OldestUnused] /\ rdcache' = RemoveAt(rdcache, OldestUnused) /\ rdfree' = rdfree /\ Unused # {}
    BY <1>3 DEF Allocates, NoneToAllocate
  <2>2. Listed(rdcache) /\ DOMAIN rdcache = 1..m
    BY <1>1, ListedIs DEF RdLists
  <2>3. OldestUnused \in 1..m /\ rdbuf[b].ref <= 0
    <3>1. Unused \in SUBSET (1..m)
      BY <2>2 DEF Unused
    <3>2. OldestUnused \in Unused
      BY <2>1, <3>1, GreatestExists DEF OldestUnused
    <3> QED BY <2>1, <2>2, <3>2 DEF Unused
  <2>4. b \in RdCached /\ rdcache' = GetItem(rdcache, b)
    BY <1>1, <2>1, <2>2, <2>3, ListIndex DEF RdCached
  <2>5. /\ Listed(rdcache') /\ RdCached' = RdCached \ {b} /\ Len(rdcache') = m - 1
        /\ \A x, y : Precedes(rdcache', x, y) => Precedes(rdcache, x, y)
    BY <1>1, <2>2, <2>4, ListWithout DEF RdCached
  <2>6. RdFree' = RdFree
    BY <2>1 DEF RdFree
  <2> QED BY <1>1, <2>1, <2>3, <2>4, <2>5, <2>6 DEF RdLists
<1> QED BY <1>2, <1>3

-----------------------------------------------------------------------------
(* Calls that need a buffer *)

LEMMA WritesAre ==
  ASSUME RdLists, NEW k
  PROVE  WritesOf(k) # {} <=> WriteWaits(k)
PROOF
<1>1. /\ DOMAIN rdqueue = 1..Len(rdqueue) /\ \A i \in 1..Len(rdqueue) : rdqueue[i] \in RdQueued
      /\ \A b \in RdQueued : \E i \in 1..Len(rdqueue) : rdqueue[i] = b
  BY ListedIs DEF RdLists, RdQueued
<1> QED BY <1>1 DEF WritesOf, InQueue, WriteWaits

LEMMA CachedAre ==
  ASSUME RdLists, NEW k
  PROVE  /\ DOMAIN rdcache = 1..Len(rdcache) /\ Len(rdcache) \in Nat
         /\ \A i \in 1..Len(rdcache) : rdcache[i] \in RdCached
         /\ \A b \in RdCached : \E i \in 1..Len(rdcache) : rdcache[i] = b
         /\ \A b \in RdCached : rdbuf[b].blk = k => \E i \in InCache(k) : rdcache[i] = b
         /\ \A i \in InCache(k) : i \in 1..Len(rdcache) /\ rdcache[i] \in RdCached /\ rdbuf[rdcache[i]].blk = k
PROOF
<1>1. /\ DOMAIN rdcache = 1..Len(rdcache) /\ \A i \in 1..Len(rdcache) : rdcache[i] \in RdCached
      /\ \A b \in RdCached : \E i \in 1..Len(rdcache) : rdcache[i] = b
      /\ Len(rdcache) \in Nat
  BY ListedIs DEF RdLists, RdCached
<1> QED BY <1>1 DEF InCache

(* A call that has a unit puts its request on the queue. *)
LEMMA NewRequestKeeps ==
  ASSUME RdsIs, NEW c \in RdClients, NEW op \in {"read", "write", "sync"},
         NEW k \in RdBlocks, NEW d \in RdContents, RequestsInNewBuffer(c, op, k, d), ~NoneToAllocate,
         op # "sync" => k \in DiskBlocks, rdcall[c].op \in {"none", "read", "write", "sync"},
         op # "sync" => ~WriteWaits(k) /\ \A x \in RdCached : rdbuf[x].valid => rdbuf[x].blk # k,
         UNCHANGED <<rdseq, rdblk, netVars, comm>>,
         \/ availsem' = Take(availsem) /\ Passes(availsem) /\ c \notin RdCallers
         \/ availsem' = availsem /\ ~WaitsAt(c, availsem) /\ c \in RdCallers
  PROVE  RdsInv'
PROOF
<1>1. RdLists /\ RdUnits /\ RdBufTypes
  BY DEF RdsIs
<1>2. PICK b \in RdBufs : Allocates(b) /\ Request(c, b, op, k, d)
  BY DEF RequestsInNewBuffer
<1>3. /\ b \notin RdQueued /\ b \notin RdFree' /\ b \notin RdCached'
      /\ Listed(rdfree') /\ Listed(rdcache')
      /\ RdFree' \subseteq RdFree /\ RdCached' \subseteq RdCached
      /\ RdFree \cup RdCached = RdFree' \cup RdCached' \cup {b}
      /\ \A x, y : Precedes(rdcache', x, y) => Precedes(rdcache, x, y)
      /\ b \in RdCached => rdbuf[b].ref <= 0
      /\ Len(rdfree') + Len(rdcache') = (Len(rdfree) + Len(rdcache)) - 1
  BY <1>1, <1>2, AllocatesOne
<1>4. rdcall'[c].op \notin {"read", "write", "sync"} /\ \A p \in RdClients : p # c => rdcall'[p] = rdcall[p]
  <2>1. CASE op = "write"
    <3>1. rdcall' = [rdcall EXCEPT ![c] = NoCall]
      BY <1>2, <2>1 DEF Request
    <3> QED BY <1>1, <3>1 DEF RdBufTypes, NoCall
  <2>2. CASE op # "write"
    <3>1. rdcall' = [rdcall EXCEPT ![c] = [op |-> AskedFor[op], blk |-> k, data |-> d]]
      BY <1>2, <2>2 DEF Request
    <3>2. AskedFor[op] \notin {"read", "write", "sync"}
      BY <2>2, AskedValues
    <3> QED BY <1>1, <3>1, <3>2 DEF RdBufTypes
  <2> QED BY <2>1, <2>2
<1>5. RdCallers' = RdCallers \ {c}
  BY <1>4, CallersAre
<1>6. RdUnits'
  <2>1. CASE availsem' = Take(availsem) /\ Passes(availsem) /\ c \notin RdCallers
    <3>1. RdCallers' = RdCallers
      BY <1>5, <2>1
    <3> QED BY <1>1, <1>3, <2>1, <3>1, UnitTaken
  <2>2. CASE availsem' = availsem /\ ~WaitsAt(c, availsem) /\ c \in RdCallers
    BY <1>1, <1>3, <1>5, <2>2, UnitUsed
  <2> QED BY <2>1, <2>2
<1>7. op # "sync" => ~WriteWaits(k) /\ \A x \in RdCached' : rdbuf[x].valid => rdbuf[x].blk # k
  BY <1>3
<1> QED BY <1>2, <1>3, <1>6, <1>7, RequestKeeps

(* A call waits for a buffer. *)
LEMMA CallWaits ==
  ASSUME RdsIs, NEW c \in RdClients, NEW op \in {"read", "write", "sync"},
         NEW k \in RdBlocks, NEW d \in RdContents, rdcall[c].op = "none",
         rdcall' = [rdcall EXCEPT ![c] = [op |-> op, blk |-> k, data |-> d]],
         op # "sync" => k \in DiskBlocks, ~Passes(availsem), availsem' = Blocks(availsem, c),
         UNCHANGED <<rdbuf, rdqueue, rdcache, rdfree, rdmsg, lastwrite, rdseq, rdblk, netVars, comm>>
  PROVE  RdsInv'
PROOF
<1>1. /\ RdBufTypes /\ RdCommTypes /\ RdLists /\ RdUnits /\ RdOrder /\ RdAsked /\ RdTold
      /\ CopiesCurrent /\ ServerCurrent /\ RepliesMean /\ ReadsFirst
  BY DEF RdsIs
<1>2. /\ rdcall'[c].op = op /\ rdcall'[c].blk = k
      /\ \A p \in RdClients : p # c => rdcall'[p] = rdcall[p]
      /\ rdcall' \in [RdClients -> [op : {"none", "read", "write", "sync", "read asked", "sync asked"},
                                    blk : RdBlocks, data : RdContents]]
  BY <1>1 DEF RdBufTypes
<1>3. RdQueued' = RdQueued /\ RdCached' = RdCached /\ RdFree' = RdFree
  BY DEF RdQueued, RdCached, RdFree
<1>4. RdCallers' = RdCallers \cup {c} /\ c \notin RdCallers
  <2>1. RdCallers' = RdCallers \cup {c}
    BY <1>2, CallersAre
  <2> QED BY <2>1 DEF RdCallers
<1>5. RdUnits'
  BY <1>1, <1>4, UnitWanted
<1>6. RdBufTypes' /\ RdCommTypes' /\ RdLists' /\ RdOrder'
  <2>1. RdBufTypes' /\ RdCommTypes'
    BY <1>1, <1>2 DEF RdBufTypes, RdCommTypes, netVars
  <2>2. RdLists'
    BY <1>1, <1>3 DEF RdLists
  <2>3. RdOrder'
    BY <1>1, <1>3, Zenon DEF RdOrder
  <2> QED BY <2>1, <2>2, <2>3
<1>7. RdAsked'
  <2>1. ASSUME NEW b \in RdQueued, rdbuf[b].op # "write" PROVE AskedIs(b)'
    <3>1. AskedIs(b) /\ rdbuf[b].op \in {"read", "sync"}
      BY <1>1, <2>1 DEF RdAsked
    <3>2. AskedFor[rdbuf[b].op] # "none"
      BY <3>1, AskedValues
    <3>3. rdcall'[rdbuf[b].pid] = rdcall[rdbuf[b].pid]
      BY <1>2, <3>1, <3>2 DEF AskedIs
    <3> QED BY <1>3, <3>1, <3>3 DEF AskedIs
  <2>2. \A p \in RdClients : rdcall'[p].op \in {"read", "write"} => rdcall'[p].blk \in DiskBlocks
    BY <1>1, <1>2 DEF RdAsked
  <2> QED BY <1>1, <1>3, <2>1, <2>2 DEF RdAsked
<1>8. RdTold'
  BY <1>1, <1>2, <1>3 DEF RdTold
<1>9. CopiesCurrent' /\ ServerCurrent' /\ RepliesMean' /\ ReadsFirst'
  BY <1>1, <1>3 DEF CopiesCurrent, ServerCurrent, Current, Writing, WriteWaits, RepliesMean, ReadsFirst, netVars
<1> QED BY <1>5, <1>6, <1>7, <1>8, <1>9 DEF RdsInv, RdsIs

LEMMA AsksWithKeeps ==
  ASSUME RdsIs, upset = "no", NEW c \in RdClients, NEW op \in {"read", "write", "sync"},
         NEW k \in RdBlocks, NEW d \in RdContents, Outside(c), AsksWith(c, op, k, d),
         op # "sync" => k \in DiskBlocks, op = "write" => ~WriteWaits(k),
         op # "sync" => \A x \in RdCached : rdbuf[x].valid => rdbuf[x].blk # k,
         UNCHANGED <<rdseq, rdblk, netVars, comm>>
  PROVE  RdsInv'
PROOF
<1>1. SUFFICES ASSUME upset' = "no" PROVE RdsInv'
  BY DEF RdsInv
<1>2. rdcall[c].op = "none" /\ c \notin RdCallers /\ RdLists
  BY DEF Outside, NoCall, RdCallers, RdsIs
<1>3. CASE ~Passes(availsem)
  <2>1. /\ rdcall' = [rdcall EXCEPT ![c] = [op |-> op, blk |-> k, data |-> d]] /\ availsem' = Blocks(availsem, c)
        /\ UNCHANGED <<rdbuf, rdqueue, rdcache, rdfree, rdmsg, lastwrite>>
    BY <1>3 DEF AsksWith, NotBegun
  <2> QED BY <1>2, <1>3, <2>1, CallWaits
<1>4. CASE Passes(availsem)
  <2>1. availsem' = Take(availsem) /\ ~NoneToAllocate
    <3>1. "no buffer" # "no"
      OBVIOUS
    <3> QED BY <1>1, <1>4, <3>1 DEF AsksWith
  <2>2. RequestsInNewBuffer(c, op, k, d) /\ ~HiddenBySync(op, k)
    <3>1. "write hidden" # "no"
      OBVIOUS
    <3> QED BY <1>1, <1>4, <2>1, <3>1 DEF AsksWith
  <2>3. op = "read" => ~WriteWaits(k)
    BY <1>2, <2>2, WritesAre DEF HiddenBySync
  <2> QED BY <1>2, <1>4, <2>1, <2>2, <2>3, NewRequestKeeps
<1> QED BY <1>3, <1>4

(* A call was let through, and what it has searched for is not there now. *)
LEMMA GoesOnKeeps ==
  ASSUME RdsIs, NEW c \in RdClients, RdsGoesOn(c)
  PROVE  RdsInv'
PROOF
<1>1. SUFFICES ASSUME upset' = "no" PROVE RdsInv'
  BY DEF RdsInv
<1>2. PICK op \in {"read", "write", "sync"}, k \in RdBlocks, d \in RdContents :
        op = rdcall[c].op /\ k = rdcall[c].blk /\ d = rdcall[c].data
  BY DEF RdsGoesOn, RdsIs, RdBufTypes
<1>3. ~NoneToAllocate
  <2>1. "no buffer" # "no"
    OBVIOUS
  <2> QED BY <1>1, <2>1 DEF RdsGoesOn
<1>4. RequestsInNewBuffer(c, op, k, d) /\ ~SearchedTooEarly(op, k)
  <2>1. "searched early" # "no"
    OBVIOUS
  <2> QED BY <1>1, <1>2, <1>3, <2>1 DEF RdsGoesOn
<1>5. RdLists /\ c \in RdCallers /\ rdcall[c].op \in {"none", "read", "write", "sync"}
  BY <1>2 DEF RdsIs, RdCallers
<1>6. op # "sync" => k \in DiskBlocks
  BY <1>2 DEF RdsIs, RdAsked
<1>7. op # "sync" => ~WriteWaits(k) /\ \A x \in RdCached : rdbuf[x].valid => rdbuf[x].blk # k
  <2>1. op # "sync" => WritesOf(k) = {} /\ \A i \in InCache(k) : ~rdbuf[rdcache[i]].valid
    BY <1>4 DEF SearchedTooEarly
  <2>2. op # "sync" => ~WriteWaits(k)
    BY <1>5, <2>1, WritesAre
  <2>3. op # "sync" => \A x \in RdCached : rdbuf[x].valid => rdbuf[x].blk # k
    BY SMTT(30), <1>5, <2>1, CachedAre
  <2> QED BY <2>2, <2>3
<1>8. UNCHANGED <<rdseq, rdblk, netVars, comm>> /\ availsem' = availsem /\ ~WaitsAt(c, availsem)
  BY DEF RdsGoesOn
<1> QED BY <1>3, <1>4, <1>5, <1>6, <1>7, <1>8, NewRequestKeeps

(* The valid copy of a block is the first. *)
LEMMA ValidFirst ==
  ASSUME RdLists, RdOrder, NEW x \in RdCached, rdbuf[x].valid, NEW k, k = rdbuf[x].blk
  PROVE  InCache(k) # {} /\ rdcache[Min(InCache(k))] = x /\ FirstCached(k) = {x}
PROOF
<1>1. /\ DOMAIN rdcache = 1..Len(rdcache) /\ Len(rdcache) \in Nat
      /\ \A i \in 1..Len(rdcache) : rdcache[i] \in RdCached
      /\ \A i \in InCache(k) : i \in 1..Len(rdcache) /\ rdcache[i] \in RdCached /\ rdbuf[rdcache[i]].blk = k
  BY CachedAre
<1>2. PICK i \in InCache(k) : rdcache[i] = x
  BY CachedAre
<1>3. RdCached \subseteq RdBufs
  BY DEF RdLists
<1>4. ASSUME NEW j \in InCache(k), j < i PROVE FALSE
  <2>1. Precedes(rdcache, rdcache[j], rdcache[i])
    BY <1>1, <1>2, <1>4 DEF Precedes
  <2>2. rdbuf[rdcache[j]].blk # rdbuf[rdcache[i]].blk
    BY <1>1, <1>2, <1>3, <2>1 DEF RdOrder
  <2> QED BY <1>1, <1>4, <2>2
<1>5. \A j \in InCache(k) : i <= j
  BY <1>1, <1>4
<1>6. Min(InCache(k)) \in InCache(k) /\ \A j \in InCache(k) : Min(InCache(k)) <= j
  <2>1. InCache(k) \in SUBSET (1..Len(rdcache)) /\ InCache(k) # {}
    BY <1>1, <1>2
  <2> QED BY <1>1, <2>1, LeastIs
<1>7. Min(InCache(k)) = i
  BY <1>1, <1>5, <1>6
<1>8. \A m \in InCache(k) : (\A j \in InCache(k) : m <= j) => m = i
  BY <1>1, <1>2, <1>5
<1>9. FirstCached(k) = {x}
  BY <1>2, <1>5, <1>8 DEF FirstCached
<1> QED BY <1>2, <1>7, <1>9

LEMMA ReadKeeps ==
  ASSUME RdsIs, NEW c \in RdClients, NEW k \in DiskBlocks, RdsRead(c, k)
  PROVE  RdsInv'
PROOF
<1>1. upset = "no" /\ Outside(c) /\ AnsweredFrom(k) = {} /\ AsksWith(c, "read", k, 0)
      /\ UNCHANGED <<rdseq, rdblk, netVars, comm>>
  BY DEF RdsRead, CanCallDisk
<1>2. RdLists /\ RdOrder
  BY DEF RdsIs
<1>3. ASSUME NEW x \in RdCached, rdbuf[x].valid, rdbuf[x].blk = k PROVE FALSE
  <2>1. FirstCached(k) = {x}
    BY <1>2, <1>3, ValidFirst
  <2> QED BY <1>1, <1>3, <2>1 DEF AnsweredFrom
<1>4. k \in RdBlocks /\ 0 \in RdContents
  BY DEF RdBlocks, RdContents
<1> QED BY <1>1, <1>3, <1>4, AsksWithKeeps

LEMMA SyncKeeps ==
  ASSUME RdsIs, NEW c \in RdClients, RdsSync(c)
  PROVE  RdsInv'
PROOF
<1>1. upset = "no" /\ Outside(c) /\ AsksWith(c, "sync", 0, 0) /\ UNCHANGED <<rdseq, rdblk, netVars, comm>>
  BY DEF RdsSync, CanCallDisk
<1>2. 0 \in RdBlocks /\ 0 \in RdContents
  BY DEF RdBlocks, RdContents
<1> QED BY <1>1, <1>2, AsksWithKeeps

(* A write to a block whose last write waits replaces what that one writes. *)
LEMMA ReplacesKeeps ==
  ASSUME RdsIs, NEW k \in DiskBlocks, NEW d \in RdData, WritesOf(k) # {}, Replaces(k, d),
         lastwrite' = [lastwrite EXCEPT ![k] = d],
         UNCHANGED <<rdqueue, rdcache, rdfree, availsem, rdcall, rdmsg, rdseq, rdblk, netVars, comm>>
  PROVE  RdsInv'
PROOF
<1>1. /\ RdBufTypes /\ RdCommTypes /\ RdLists /\ RdUnits /\ RdOrder /\ RdAsked /\ RdTold
      /\ CopiesCurrent /\ ServerCurrent /\ RepliesMean /\ ReadsFirst
  BY DEF RdsIs
<1>2. RdQueued' = RdQueued /\ RdCached' = RdCached /\ RdFree' = RdFree /\ RdCallers' = RdCallers
      /\ RdQueued \subseteq RdBufs /\ RdCached \subseteq RdBufs /\ RdQueued \cap RdCached = {}
  BY <1>1 DEF RdQueued, RdCached, RdFree, RdCallers, RdLists
<1>3. PICK i \in WritesOf(k) : i = Min(WritesOf(k))
  <2>1. DOMAIN rdqueue = 1..Len(rdqueue) /\ Len(rdqueue) \in Nat
    BY <1>1, ListedIs DEF RdLists
  <2>2. WritesOf(k) \in SUBSET (1..Len(rdqueue))
    BY <2>1 DEF WritesOf, InQueue
  <2> QED BY <2>1, <2>2, LeastIs
<1>4. /\ DOMAIN rdqueue = 1..Len(rdqueue) /\ Len(rdqueue) \in Nat
      /\ \A j \in 1..Len(rdqueue) : rdqueue[j] \in RdQueued
      /\ \A b \in RdQueued : \E j \in 1..Len(rdqueue) : rdqueue[j] = b
  BY <1>1, ListedIs DEF RdLists, RdQueued
<1>5. PICK w \in RdQueued : w = rdqueue[i]
  BY <1>3, <1>4 DEF WritesOf, InQueue
<1>6. rdbuf[w].op = "write" /\ rdbuf[w].blk = k /\ i \in 1..Len(rdqueue)
  BY <1>3, <1>4, <1>5 DEF WritesOf, InQueue
<1>7. \A b \in RdQueued : rdbuf[b].op = "write" /\ rdbuf[b].blk = k => b = w
  <2>1. ASSUME NEW b \in RdQueued, rdbuf[b].op = "write", rdbuf[b].blk = k, b # w PROVE FALSE
    <3>1. PICK j \in 1..Len(rdqueue) : rdqueue[j] = b
      BY <1>4
    <3>2. j < i \/ i < j
      BY <1>4, <1>5, <1>6, <2>1, <3>1
    <3>3. Precedes(rdqueue, b, w) \/ Precedes(rdqueue, w, b)
      BY <1>5, <1>6, <3>1, <3>2 DEF Precedes
    <3> QED BY <1>1, <1>2, <1>6, <2>1, <3>3 DEF RdOrder
  <2> QED BY <2>1
<1>8. d \in RdContents
  BY DEF RdContents
<1>9. rdbuf' = [rdbuf EXCEPT ![w].data = d]
  BY <1>3, <1>5 DEF Replaces
<1>10. /\ \A b \in RdBufs : /\ rdbuf'[b].op = rdbuf[b].op /\ rdbuf'[b].ref = rdbuf[b].ref
                            /\ rdbuf'[b].blk = rdbuf[b].blk /\ (rdbuf'[b].valid <=> rdbuf[b].valid)
                            /\ rdbuf'[b].pid = rdbuf[b].pid
                            /\ b # w => rdbuf'[b].data = rdbuf[b].data
       /\ rdbuf'[w].data = d
       /\ rdbuf' \in [RdBufs -> [op : {"none", "read", "write", "sync"}, ref : Int, blk : RdBlocks,
                                 valid : BOOLEAN, pid : RdClients \cup {"nobody"}, data : RdContents]]
  <2>1. PICK old \in [op : {"none", "read", "write", "sync"}, ref : Int, blk : RdBlocks,
                      valid : BOOLEAN, pid : RdClients \cup {"nobody"}, data : RdContents] : old = rdbuf[w]
    BY <1>1, <1>2 DEF RdBufTypes
  <2>2. PICK new : new = [old EXCEPT !.data = d]
    OBVIOUS
  <2>3. /\ new.op = old.op /\ new.ref = old.ref /\ new.blk = old.blk /\ new.valid = old.valid
        /\ new.pid = old.pid /\ new.data = d
        /\ new \in [op : {"none", "read", "write", "sync"}, ref : Int, blk : RdBlocks,
                    valid : BOOLEAN, pid : RdClients \cup {"nobody"}, data : RdContents]
    BY <1>8, <2>2
  <2>4. rdbuf' = [rdbuf EXCEPT ![w] = new]
    BY <1>9, <2>1, <2>2
  <2>5. rdbuf'[w] = new /\ \A b \in RdBufs : b # w => rdbuf'[b] = rdbuf[b]
    BY <1>1, <1>2, <2>4 DEF RdBufTypes
  <2> QED BY <1>1, <2>1, <2>3, <2>4, <2>5 DEF RdBufTypes
<1>11. lastwrite'[k] = d /\ (\A j \in DiskBlocks : j # k => lastwrite'[j] = lastwrite[j])
       /\ lastwrite' \in [DiskBlocks -> RdContents]
  BY <1>1, <1>8 DEF RdBufTypes
<1>12. RdBufTypes' /\ RdCommTypes'
  BY <1>1, <1>10, <1>11 DEF RdBufTypes, RdCommTypes, netVars
<1>13. RdLists' /\ RdUnits'
  BY <1>1, <1>2 DEF RdLists, RdUnits
<1>14. RdOrder'
  <2>1. \A a, b \in RdBufs : Precedes(rdcache, a, b) /\ rdbuf'[b].valid => rdbuf'[a].blk # rdbuf'[b].blk
    BY <1>1, <1>10 DEF RdOrder
  <2>2. \A a \in RdCached, b \in RdQueued :
          rdbuf'[a].valid /\ rdbuf'[a].blk = rdbuf'[b].blk => rdbuf'[b].op = "sync"
    BY <1>1, <1>2, <1>10 DEF RdOrder
  <2>3. \A a, b \in RdBufs :
          Precedes(rdqueue, a, b) /\ rdbuf'[a].op = "write" /\ rdbuf'[a].blk = rdbuf'[b].blk
            => rdbuf'[b].op = "sync"
    BY <1>1, <1>10 DEF RdOrder
  <2> QED BY <1>2, <2>1, <2>2, <2>3 DEF RdOrder
<1>15. RdAsked'
  <2>1. \A b \in RdQueued : AskedIs(b) => AskedIs(b)'
    BY <1>2, <1>10 DEF AskedIs
  <2> QED BY <1>1, <1>2, <1>10, <2>1 DEF RdAsked
<1>16. RdTold'
  <2>1. ASSUME NEW p \in RdClients, rdcall[p].op = "read asked", rdmsg[p] # "none"
        PROVE  rdmsg[p] \in RdCached /\ rdbuf'[rdmsg[p]].ref = 1 /\ ~rdbuf'[rdmsg[p]].valid /\ rdbuf'[rdmsg[p]].pid = p
    <3>1. rdmsg[p] \in RdCached /\ rdbuf[rdmsg[p]].ref = 1 /\ ~rdbuf[rdmsg[p]].valid /\ rdbuf[rdmsg[p]].pid = p
      BY <1>1, <2>1 DEF RdTold
    <3> QED BY <1>2, <1>10, <3>1
  <2> QED BY <1>2, <2>1 DEF RdTold
<1>17. CopiesCurrent'
  <2>1. ASSUME NEW b \in RdCached, rdbuf'[b].valid PROVE rdbuf'[b].data = lastwrite'[rdbuf'[b].blk]
    <3>1. rdbuf[b].valid /\ rdbuf'[b].blk = rdbuf[b].blk /\ b # w
      BY <1>2, <1>10, <2>1
    <3>2. rdbuf[b].blk # k
      BY <1>1, <1>6, <3>1 DEF RdOrder
    <3>3. rdbuf[b].blk \in DiskBlocks /\ rdbuf[b].data = lastwrite[rdbuf[b].blk]
      BY <1>1, <3>1 DEF CopiesCurrent, RdAsked
    <3> QED BY <1>2, <1>10, <1>11, <3>1, <3>2, <3>3
  <2>2. ASSUME NEW b \in RdQueued, rdbuf'[b].op = "write" PROVE rdbuf'[b].data = lastwrite'[rdbuf'[b].blk]
    <3>1. rdbuf[b].op = "write" /\ rdbuf'[b].blk = rdbuf[b].blk
      BY <1>2, <1>10, <2>2
    <3>2. CASE b = w
      BY <1>6, <1>10, <1>11, <3>1, <3>2
    <3>3. CASE b # w
      <4>1. rdbuf[b].blk # k
        BY <1>7, <3>1, <3>3
      <4>2. rdbuf[b].blk \in DiskBlocks /\ rdbuf[b].data = lastwrite[rdbuf[b].blk]
        BY <1>1, <3>1 DEF CopiesCurrent, RdAsked
      <4> QED BY <1>2, <1>10, <1>11, <3>1, <3>3, <4>1, <4>2
    <3> QED BY <3>2, <3>3
  <2> QED BY <1>2, <2>1, <2>2 DEF CopiesCurrent
<1>18. ServerCurrent'
  <2>1. \A j : WriteWaits(j)' <=> WriteWaits(j)
    BY <1>2, <1>10 DEF WriteWaits
  <2>2. WriteWaits(k)
    BY <1>5, <1>6 DEF WriteWaits
  <2>3. server' = server /\ comm' = comm
    BY DEF netVars
  <2> QED BY <1>1, <1>11, <2>1, <2>2, <2>3 DEF ServerCurrent, Current, Writing
<1>19. RepliesMean'
  BY <1>1 DEF RepliesMean, netVars
<1>20. ReadsFirst'
  <2>1. rdqueue # <<>> => Head(rdqueue) \in RdQueued
    BY <1>1, ListTail DEF RdQueued, RdLists
  <2> QED BY <1>1, <1>2, <1>10, <2>1 DEF ReadsFirst
<1> QED BY <1>12, <1>13, <1>14, <1>15, <1>16, <1>17, <1>18, <1>19, <1>20 DEF RdsInv, RdsIs

LEMMA WriteKeeps ==
  ASSUME RdsIs, NEW c \in RdClients, NEW k \in DiskBlocks, NEW d \in RdData, RdsWrite(c, k, d)
  PROVE  RdsInv'
PROOF
<1>1. SUFFICES ASSUME upset' = "no" PROVE RdsInv'
  BY DEF RdsInv
<1>2. upset = "no" /\ Outside(c) /\ UNCHANGED <<rdseq, rdblk, netVars, comm>>
  BY DEF RdsWrite, CanCallDisk
<1>3. RdLists /\ RdOrder /\ RdUnits /\ RdAsked /\ RdBufTypes
  BY DEF RdsIs
<1>4. k \in RdBlocks /\ d \in RdContents
  BY DEF RdBlocks, RdContents
<1>5. CASE WritesOf(k) # {}
  <2>1. /\ Replaces(k, d) /\ lastwrite' = [lastwrite EXCEPT ![k] = d]
        /\ UNCHANGED <<rdqueue, rdcache, rdfree, availsem, rdcall, rdmsg>>
    BY <1>5 DEF RdsWrite
  <2> QED BY <1>2, <1>5, <2>1, ReplacesKeeps
<1>6. CASE WritesOf(k) = {} /\ InCache(k) # {} /\ rdbuf[rdcache[Min(InCache(k))]].ref <= 0
  <2>1. PICK m \in 1..Len(rdcache) : m = Min(InCache(k))
    <3>1. InCache(k) \in SUBSET (1..Len(rdcache)) /\ Len(rdcache) \in Nat
      BY <1>3, CachedAre
    <3> QED BY <1>6, <3>1, LeastIs
  <2>2. PICK b \in RdCached : b = rdcache[m]
    BY <1>3, <2>1, CachedAre
  <2>3. /\ Request(c, b, "write", k, d) /\ rdcache' = RemoveAt(rdcache, m) /\ rdfree' = rdfree
        /\ rdbuf[b].ref <= 0
        /\ availsem' = IF availsem.count > 0 THEN Take(availsem) ELSE availsem
        /\ upset' = IF availsem.count > 0 THEN upset ELSE "no buffer"
    BY <1>6, <2>1, <2>2 DEF RdsWrite, OlderUnlinked
  <2>4. Passes(availsem) /\ availsem' = Take(availsem)
    <3>1. "no buffer" # "no"
      OBVIOUS
    <3> QED BY <1>1, <2>3, <3>1 DEF Passes
  <2>5. rdcache' = GetItem(rdcache, b) /\ Listed(rdcache) /\ b \in ToSet(rdcache)
    BY <1>3, <2>1, <2>2, <2>3, ListIndex DEF RdLists, RdCached
  <2>6. /\ Listed(rdcache') /\ RdCached' = RdCached \ {b} /\ Len(rdcache') = Len(rdcache) - 1
        /\ \A x, y : Precedes(rdcache', x, y) => Precedes(rdcache, x, y)
    BY <2>5, ListWithout DEF RdCached
  <2>7. RdFree' = RdFree
    BY <2>3 DEF RdFree
  <2>8. RdCallers' = RdCallers /\ rdcall[c].op = "none"
    <3>1. rdcall' = [rdcall EXCEPT ![c] = NoCall] /\ rdcall[c] = NoCall
      BY <1>2, <2>3 DEF Request, Outside
    <3>2. rdcall' = rdcall
      BY <1>3, <3>1 DEF RdBufTypes
    <3> QED BY <3>1, <3>2 DEF RdCallers, NoCall
  <2>9. RdUnits'
    <3>1. Len(rdfree') + Len(rdcache') = (Len(rdfree) + Len(rdcache)) - 1
      <4>1. rdfree' = rdfree
        BY <2>3
      <4> QED BY <1>3, <2>6, <4>1, LengthsAre
    <3> QED BY <1>3, <2>4, <2>8, <3>1, UnitTaken
  <2>10. \A x \in RdCached' : rdbuf[x].valid => rdbuf[x].blk # k
    <3>1. ASSUME NEW x \in RdCached, rdbuf[x].valid, rdbuf[x].blk = k PROVE x = b
      BY <1>3, <2>1, <2>2, <3>1, ValidFirst
    <3> QED BY <2>6, <3>1
  <2>11. ~WriteWaits(k)
    BY <1>3, <1>6, WritesAre
  <2>12. /\ b \in RdBufs /\ b \notin RdQueued /\ b \notin RdFree' /\ b \notin RdCached' /\ Listed(rdfree')
         /\ RdFree \cup RdCached = RdFree' \cup RdCached' \cup {b}
    BY <1>3, <2>3, <2>6, <2>7 DEF RdLists
  <2> QED BY <1>2, <1>4, <2>3, <2>6, <2>7, <2>8, <2>9, <2>10, <2>11, <2>12, RequestKeeps
<1>7. CASE WritesOf(k) = {} /\ ~(InCache(k) # {} /\ rdbuf[rdcache[Min(InCache(k))]].ref <= 0)
  <2>1. AsksWith(c, "write", k, d)
    BY <1>7 DEF RdsWrite
  <2>2. ASSUME NEW x \in RdCached, rdbuf[x].valid, rdbuf[x].blk = k PROVE FALSE
    <3>1. InCache(k) # {} /\ rdcache[Min(InCache(k))] = x
      BY <1>3, <2>2, ValidFirst
    <3>2. rdbuf[x].ref <= 0
      BY <1>3, <2>2 DEF RdAsked
    <3> QED BY <1>7, <3>1, <3>2
  <2>3. ~WriteWaits(k)
    BY <1>3, <1>7, WritesAre
  <2> QED BY <1>2, <1>4, <2>1, <2>2, <2>3, AsksWithKeeps
<1> QED BY <1>5, <1>6, <1>7

-----------------------------------------------------------------------------
(* rdsprocess *)

(* The first request leaves the queue: for the cache, or a sync for the free list. *)
LEMMA FirstLeaves ==
  ASSUME RdsIs, rdqueue # <<>>, NEW f, f = Head(rdqueue), rdqueue' = Tail(rdqueue), RdBufTypes',
         \A x \in RdBufs : x # f => rdbuf'[x] = rdbuf[x],
         \/ rdbuf[f].op # "sync" /\ rdfree' = rdfree /\ rdcache' = <<f>> \o rdcache
         \/ rdbuf[f].op = "sync" /\ rdfree' = <<f>> \o rdfree /\ rdcache' = rdcache,
         rdbuf[f].op = "write" => rdbuf' = rdbuf /\ rdmsg' = rdmsg,
         rdbuf[f].op = "read" => /\ rdmsg'[rdbuf[f].pid] = f /\ rdbuf'[f].ref = 1 /\ ~rdbuf'[f].valid
                                 /\ rdbuf'[f].pid = rdbuf[f].pid /\ rdbuf'[f].blk = rdbuf[f].blk,
         \A p \in RdClients : p # rdbuf[f].pid => rdmsg'[p] = rdmsg[p],
         availsem' = Signal(availsem), UNCHANGED <<rdcall, lastwrite>>
  PROVE  /\ RdLists' /\ RdUnits' /\ RdOrder' /\ RdAsked' /\ RdTold' /\ CopiesCurrent'
         /\ \A k : ~WriteWaits(k)' => ~WriteWaits(k) \/ (rdbuf[f].op = "write" /\ k = rdbuf[f].blk)
PROOF
<1>1. /\ RdBufTypes /\ RdLists /\ RdUnits /\ RdOrder /\ RdAsked /\ RdTold /\ CopiesCurrent
  BY DEF RdsIs
<1>2. /\ f \in RdQueued /\ Listed(rdqueue') /\ RdQueued' = RdQueued \ {f}
      /\ \A a, b : Precedes(rdqueue', a, b) => Precedes(rdqueue, a, b)
      /\ \A b \in RdQueued' : Precedes(rdqueue, f, b)
  BY <1>1, ListTail DEF RdLists, RdQueued
<1>3. /\ RdQueued \subseteq RdBufs /\ RdCached \subseteq RdBufs /\ f \in RdBufs /\ f \notin RdFree /\ f \notin RdCached
      /\ Listed(rdfree) /\ Listed(rdcache)
  BY <1>1, <1>2 DEF RdLists
<1>4. /\ \A x \in RdQueued' : rdbuf'[x] = rdbuf[x] /\ x # f /\ x \in RdQueued /\ x \in RdBufs
      /\ \A x \in RdCached : rdbuf'[x] = rdbuf[x] /\ x # f /\ x \in RdBufs
      /\ rdbuf[f].op \in {"read", "write", "sync"} /\ (rdbuf[f].valid <=> rdbuf[f].op = "write")
      /\ rdbuf[f].op = "write" => rdbuf[f].ref <= 0 /\ rdbuf[f].blk \in DiskBlocks
      /\ rdbuf[f].op # "write" => AskedIs(f)
  BY <1>1, <1>2, <1>3 DEF RdAsked
<1>5. CASE rdbuf[f].op # "sync"
  <2>1. rdfree' = rdfree /\ rdcache' = <<f>> \o rdcache
    BY <1>5
  <2>2. /\ Listed(rdcache') /\ RdCached' = RdCached \cup {f} /\ Len(rdcache') = Len(rdcache) + 1 /\ RdFree' = RdFree
        /\ \A a, b : Precedes(rdcache', a, b) => Precedes(rdcache, a, b) \/ (a = f /\ b \in RdCached)
    BY <1>3, <2>1, ListConsed DEF RdCached, RdFree
  <2>3. RdLists'
    BY <1>1, <1>2, <2>1, <2>2 DEF RdLists
  <2>4. RdUnits'
    <3>1. RdCallers' = RdCallers
      BY DEF RdCallers
    <3>2. Len(rdfree') + Len(rdcache') = (Len(rdfree) + Len(rdcache)) + 1
      BY <1>1, <2>1, <2>2, LengthsAre
    <3> QED BY <1>1, <3>1, <3>2, UnitReturned
  <2>5. rdbuf'[f].blk = rdbuf[f].blk /\ (rdbuf'[f].valid <=> rdbuf[f].op = "write")
    BY <1>4, <1>5
  <2>6. RdOrder'
    <3>1. ASSUME NEW a \in RdBufs, NEW b \in RdBufs, Precedes(rdcache', a, b), rdbuf'[b].valid
          PROVE  rdbuf'[a].blk # rdbuf'[b].blk
      <4>1. CASE Precedes(rdcache, a, b)
        <5>1. a \in RdCached /\ b \in RdCached
          BY <1>3, <4>1, PrecedesIn DEF RdCached
        <5> QED BY <1>1, <1>4, <3>1, <4>1, <5>1 DEF RdOrder
      <4>2. CASE a = f /\ b \in RdCached
        BY <1>1, <1>2, <1>4, <1>5, <2>5, <3>1, <4>2 DEF RdOrder
      <4> QED BY <2>2, <3>1, <4>1, <4>2
    <3>2. ASSUME NEW a \in RdCached', NEW b \in RdQueued', rdbuf'[a].valid, rdbuf'[a].blk = rdbuf'[b].blk
          PROVE  rdbuf'[b].op = "sync"
      <4>1. CASE a = f
        BY <1>1, <1>2, <1>3, <1>4, <2>5, <3>2, <4>1 DEF RdOrder
      <4>2. CASE a # f
        BY <1>1, <1>4, <2>2, <3>2, <4>2 DEF RdOrder
      <4> QED BY <4>1, <4>2
    <3>3. ASSUME NEW a \in RdBufs, NEW b \in RdBufs, Precedes(rdqueue', a, b), rdbuf'[a].op = "write",
                 rdbuf'[a].blk = rdbuf'[b].blk
          PROVE  rdbuf'[b].op = "sync"
      <4>1. a \in RdQueued' /\ b \in RdQueued'
        BY <1>2, <3>3, PrecedesIn DEF RdQueued
      <4> QED BY <1>1, <1>2, <1>4, <3>3, <4>1 DEF RdOrder
    <3> QED BY <3>1, <3>2, <3>3 DEF RdOrder
  <2>7. RdAsked'
    <3>1. ASSUME NEW b \in RdQueued', rdbuf[b].op # "write" PROVE AskedIs(b)'
      <4>1. AskedIs(b) /\ b # f
        BY <1>1, <1>4, <3>1 DEF RdAsked
      <4>2. rdmsg'[rdbuf[b].pid] = rdmsg[rdbuf[b].pid]
        <5>1. CASE rdbuf[f].op = "write"
          BY <5>1
        <5>2. CASE rdbuf[f].op # "write"
          <6>1. rdbuf[b].pid # rdbuf[f].pid
            BY <1>2, <4>1, <5>2 DEF AskedIs
          <6> QED BY <4>1, <6>1 DEF AskedIs
        <5> QED BY <5>1, <5>2
      <4> QED BY <1>4, <3>1, <4>1, <4>2 DEF AskedIs
    <3>2. \A b \in RdCached' : rdbuf'[b].valid => rdbuf'[b].ref <= 0 /\ rdbuf'[b].blk \in DiskBlocks
      <4> SUFFICES ASSUME NEW b \in RdCached', rdbuf'[b].valid
                   PROVE  rdbuf'[b].ref <= 0 /\ rdbuf'[b].blk \in DiskBlocks
        OBVIOUS
      <4>1. CASE b = f
        BY <1>4, <2>5, <4>1
      <4>2. CASE b # f
        BY <1>1, <1>4, <2>2, <4>2 DEF RdAsked
      <4> QED BY <4>1, <4>2
    <3>3. \A b \in RdQueued' : /\ rdbuf'[b].op \in {"read", "write", "sync"} /\ (rdbuf'[b].valid <=> rdbuf'[b].op = "write")
                               /\ rdbuf'[b].op = "write" => rdbuf'[b].ref <= 0 /\ rdbuf'[b].blk \in DiskBlocks
                               /\ rdbuf'[b].op # "write" => AskedIs(b)'
      BY <1>1, <1>4, <3>1 DEF RdAsked
    <3>4. \A c \in RdClients : rdcall'[c].op \in {"read", "write"} => rdcall'[c].blk \in DiskBlocks
      BY <1>1 DEF RdAsked
    <3> QED BY <3>2, <3>3, <3>4 DEF RdAsked
  <2>8. RdTold'
    <3>1. ASSUME NEW p \in RdClients, rdcall[p].op = "read asked", rdmsg'[p] # "none"
          PROVE  rdmsg'[p] \in RdCached' /\ rdbuf'[rdmsg'[p]].ref = 1 /\ ~rdbuf'[rdmsg'[p]].valid /\ rdbuf'[rdmsg'[p]].pid = p
      <4>1. CASE rdbuf[f].op = "read" /\ p = rdbuf[f].pid
        BY <2>2, <4>1
      <4>2. CASE rdbuf[f].op = "write" \/ p # rdbuf[f].pid
        <5>1. rdmsg'[p] = rdmsg[p]
          BY <4>2
        <5>2. rdmsg[p] \in RdCached /\ rdbuf[rdmsg[p]].ref = 1 /\ ~rdbuf[rdmsg[p]].valid /\ rdbuf[rdmsg[p]].pid = p
          BY <1>1, <3>1, <5>1 DEF RdTold
        <5> QED BY <1>4, <2>2, <5>1, <5>2
      <4> QED BY <1>4, <1>5, <4>1, <4>2
    <3> QED BY <3>1 DEF RdTold
  <2>9. CopiesCurrent'
    <3>1. ASSUME NEW b \in RdCached', rdbuf'[b].valid PROVE rdbuf'[b].data = lastwrite[rdbuf'[b].blk]
      <4>1. CASE b = f
        BY <1>1, <1>2, <2>5, <3>1, <4>1 DEF CopiesCurrent
      <4>2. CASE b # f
        BY <1>1, <1>4, <2>2, <3>1, <4>2 DEF CopiesCurrent
      <4> QED BY <4>1, <4>2
    <3>2. \A b \in RdQueued' : rdbuf'[b].op = "write" => rdbuf'[b].data = lastwrite[rdbuf'[b].blk]
      BY <1>1, <1>4 DEF CopiesCurrent
    <3> QED BY <3>1, <3>2 DEF CopiesCurrent
  <2>10. \A k : ~WriteWaits(k)' => ~WriteWaits(k) \/ (rdbuf[f].op = "write" /\ k = rdbuf[f].blk)
    BY <1>2, <1>4 DEF WriteWaits
  <2> QED BY <2>3, <2>4, <2>6, <2>7, <2>8, <2>9, <2>10
<1>6. CASE rdbuf[f].op = "sync"
  <2>1. rdcache' = rdcache /\ rdfree' = <<f>> \o rdfree
    BY <1>6
  <2>2. Listed(rdfree') /\ RdFree' = RdFree \cup {f} /\ Len(rdfree') = Len(rdfree) + 1 /\ RdCached' = RdCached
    BY <1>3, <2>1, ListConsed DEF RdCached, RdFree
  <2>3. RdLists'
    BY <1>1, <1>2, <2>1, <2>2 DEF RdLists
  <2>4. RdUnits'
    <3>1. RdCallers' = RdCallers
      BY DEF RdCallers
    <3>2. Len(rdfree') + Len(rdcache') = (Len(rdfree) + Len(rdcache)) + 1
      BY <1>1, <2>1, <2>2, LengthsAre
    <3> QED BY <1>1, <3>1, <3>2, UnitReturned
  <2>5. RdOrder'
    <3>1. ASSUME NEW a \in RdBufs, NEW b \in RdBufs, Precedes(rdcache', a, b), rdbuf'[b].valid
          PROVE  rdbuf'[a].blk # rdbuf'[b].blk
      <4>1. a \in RdCached /\ b \in RdCached
        BY <1>3, <2>1, <3>1, PrecedesIn DEF RdCached
      <4> QED BY <1>1, <1>4, <2>1, <3>1, <4>1 DEF RdOrder
    <3>2. ASSUME NEW a \in RdCached', NEW b \in RdQueued', rdbuf'[a].valid, rdbuf'[a].blk = rdbuf'[b].blk
          PROVE  rdbuf'[b].op = "sync"
      BY <1>1, <1>4, <2>2, <3>2 DEF RdOrder
    <3>3. ASSUME NEW a \in RdBufs, NEW b \in RdBufs, Precedes(rdqueue', a, b), rdbuf'[a].op = "write",
                 rdbuf'[a].blk = rdbuf'[b].blk
          PROVE  rdbuf'[b].op = "sync"
      <4>1. a \in RdQueued' /\ b \in RdQueued'
        BY <1>2, <3>3, PrecedesIn DEF RdQueued
      <4> QED BY <1>1, <1>2, <1>4, <3>3, <4>1 DEF RdOrder
    <3> QED BY <3>1, <3>2, <3>3 DEF RdOrder
  <2>6. RdAsked'
    <3>1. ASSUME NEW b \in RdQueued', rdbuf[b].op # "write" PROVE AskedIs(b)'
      <4>1. AskedIs(b) /\ b # f
        BY <1>1, <1>4, <3>1 DEF RdAsked
      <4>2. rdbuf[b].pid # rdbuf[f].pid
        BY <1>2, <1>6, <4>1 DEF AskedIs
      <4>3. rdmsg'[rdbuf[b].pid] = rdmsg[rdbuf[b].pid]
        BY <4>1, <4>2 DEF AskedIs
      <4> QED BY <1>4, <3>1, <4>1, <4>3 DEF AskedIs
    <3>2. \A b \in RdCached' : rdbuf'[b].valid => rdbuf'[b].ref <= 0 /\ rdbuf'[b].blk \in DiskBlocks
      BY <1>1, <1>4, <2>2 DEF RdAsked
    <3>3. \A b \in RdQueued' : /\ rdbuf'[b].op \in {"read", "write", "sync"} /\ (rdbuf'[b].valid <=> rdbuf'[b].op = "write")
                               /\ rdbuf'[b].op = "write" => rdbuf'[b].ref <= 0 /\ rdbuf'[b].blk \in DiskBlocks
                               /\ rdbuf'[b].op # "write" => AskedIs(b)'
      BY <1>1, <1>4, <3>1 DEF RdAsked
    <3>4. \A c \in RdClients : rdcall'[c].op \in {"read", "write"} => rdcall'[c].blk \in DiskBlocks
      BY <1>1 DEF RdAsked
    <3> QED BY <3>2, <3>3, <3>4 DEF RdAsked
  <2>7. RdTold'
    <3>1. ASSUME NEW p \in RdClients, rdcall[p].op = "read asked", rdmsg'[p] # "none"
          PROVE  rdmsg'[p] \in RdCached' /\ rdbuf'[rdmsg'[p]].ref = 1 /\ ~rdbuf'[rdmsg'[p]].valid /\ rdbuf'[rdmsg'[p]].pid = p
      <4>1. p # rdbuf[f].pid
        BY <1>4, <1>6, <3>1, AskedValues DEF AskedIs
      <4>2. rdmsg'[p] = rdmsg[p]
        BY <4>1
      <4>3. rdmsg[p] \in RdCached /\ rdbuf[rdmsg[p]].ref = 1 /\ ~rdbuf[rdmsg[p]].valid /\ rdbuf[rdmsg[p]].pid = p
        BY <1>1, <3>1, <4>2 DEF RdTold
      <4> QED BY <1>4, <2>2, <4>2, <4>3
    <3> QED BY <3>1 DEF RdTold
  <2>8. CopiesCurrent'
    BY <1>1, <1>4, <2>2 DEF CopiesCurrent
  <2>9. \A k : ~WriteWaits(k)' => ~WriteWaits(k)
    BY <1>2, <1>4, <1>6 DEF WriteWaits
  <2> QED BY <2>3, <2>4, <2>5, <2>6, <2>7, <2>8, <2>9
<1> QED BY <1>5, <1>6

LEMMA ProcWritesKeeps ==
  ASSUME RdsIs, ProcWrites
  PROVE  RdsInv'
PROOF
<1>1. /\ rdqueue # <<>> /\ rdbuf[Head(rdqueue)].op = "write"
      /\ rdqueue' = Tail(rdqueue) /\ rdcache' = <<Head(rdqueue)>> \o rdcache /\ availsem' = Signal(availsem)
      /\ rdblk' = rdbuf[Head(rdqueue)].blk
      /\ Starts("rdsprocess", "write", rdbuf[Head(rdqueue)].blk, rdbuf[Head(rdqueue)].data)
      /\ UNCHANGED <<rdbuf, rdfree, rdcall, rdmsg, netVars, lastwrite>>
  BY DEF ProcWrites, ProcFree, First
<1>2. RdBufTypes /\ RdLists /\ RdAsked /\ CopiesCurrent
  BY DEF RdsIs
<1>3. PICK f \in RdQueued : f = Head(rdqueue)
  BY <1>1, <1>2, ListTail DEF RdLists, RdQueued
<1>4. PICK k \in DiskBlocks, d \in RdContents : k = rdbuf[f].blk /\ d = rdbuf[f].data /\ d = lastwrite[k]
  <2>1. f \in RdBufs
    BY <1>2 DEF RdLists
  <2>2. rdbuf[f].data \in RdContents
    BY <1>2, <2>1 DEF RdBufTypes
  <2> QED BY <1>1, <1>2, <1>3, <2>2 DEF RdAsked, CopiesCurrent
<1>5. k \in RdBlocks
  BY DEF RdBlocks
<1>6. /\ RdCommTypes' /\ RepliesMean' /\ comm'.type = "write" /\ comm'.blk = k /\ comm'.data = d
      /\ \A j \in DiskBlocks : ~WriteWaits(j) => server'[j] = lastwrite[j]
  BY ZenonT(30), <1>1, <1>3, <1>4, <1>5, ExchangeBegins
<1>7. RdBufTypes'
  BY <1>1, <1>2 DEF RdBufTypes
<1>8. /\ RdLists' /\ RdUnits' /\ RdOrder' /\ RdAsked' /\ RdTold' /\ CopiesCurrent'
      /\ \A j : ~WriteWaits(j)' => ~WriteWaits(j) \/ j = k
  BY <1>1, <1>3, <1>4, <1>7, FirstLeaves
<1>9. ServerCurrent'
  BY <1>1, <1>4, <1>6, <1>8 DEF ServerCurrent, Current, Writing
<1>10. ReadsFirst'
  BY <1>6 DEF ReadsFirst
<1> QED BY <1>6, <1>7, <1>8, <1>9, <1>10 DEF RdsInv, RdsIs

LEMMA FreedAre ==
  ASSUME RdBufTypes, NEW bs, rdbuf' = RdFreed(bs)
  PROVE  /\ rdbuf' \in [RdBufs -> [op : {"none", "read", "write", "sync"}, ref : Int, blk : RdBlocks,
                                 valid : BOOLEAN, pid : RdClients \cup {"nobody"}, data : RdContents]]
         /\ \A b \in RdBufs : b \notin bs => rdbuf'[b] = rdbuf[b]
PROOF
<1>1. NoBuf \in [op : {"none", "read", "write", "sync"}, ref : Int, blk : RdBlocks,
                 valid : BOOLEAN, pid : RdClients \cup {"nobody"}, data : RdContents]
  BY DEF NoBuf, RdBlocks, RdContents
<1> QED BY <1>1 DEF RdFreed, RdBufTypes

LEMMA ProcSyncsKeeps ==
  ASSUME RdsIs, ProcSyncs
  PROVE  RdsInv'
PROOF
<1>1. /\ rdqueue # <<>> /\ rdbuf[Head(rdqueue)].op = "sync"
      /\ rdqueue' = Tail(rdqueue) /\ rdfree' = <<Head(rdqueue)>> \o rdfree /\ availsem' = Signal(availsem)
      /\ rdbuf' = RdFreed({Head(rdqueue)})
      /\ rdmsg' = [rdmsg EXCEPT ![rdbuf[Head(rdqueue)].pid] = IF @ = "none" THEN "ok" ELSE @]
      /\ UNCHANGED <<rdcache, rdseq, rdblk, rdcall, netVars, comm, lastwrite>>
      /\ comm = NoComm
  BY DEF ProcSyncs, ProcFree, First
<1>2. /\ RdBufTypes /\ RdCommTypes /\ RdLists /\ RdAsked /\ CopiesCurrent /\ ServerCurrent /\ RepliesMean
  BY DEF RdsIs
<1>3. PICK f \in RdQueued : f = Head(rdqueue)
  BY <1>1, <1>2, ListTail DEF RdLists, RdQueued
<1>4. \A p \in RdClients : p # rdbuf[f].pid => rdmsg'[p] = rdmsg[p]
  BY <1>1, <1>2, <1>3 DEF RdBufTypes
<1>5. RdBufTypes'
  <2>1. rdmsg' \in [RdClients -> {"none", "ok"} \cup RdBufs]
    BY <1>1, <1>2 DEF RdBufTypes
  <2> QED BY <1>1, <1>2, <2>1, FreedAre DEF RdBufTypes
<1>6. \A x \in RdBufs : x # f => rdbuf'[x] = rdbuf[x]
  <2>1. rdbuf' = RdFreed({f})
    BY <1>1, <1>3
  <2> QED BY <1>2, <2>1, FreedAre
<1>7. /\ RdLists' /\ RdUnits' /\ RdOrder' /\ RdAsked' /\ RdTold' /\ CopiesCurrent'
      /\ \A k : ~WriteWaits(k)' => ~WriteWaits(k)
  BY <1>1, <1>3, <1>4, <1>5, <1>6, FirstLeaves
<1>8. RdCommTypes' /\ RepliesMean'
  BY <1>1, <1>2 DEF RdCommTypes, RepliesMean, netVars
<1>9. ServerCurrent'
  BY <1>1, <1>2, <1>7 DEF ServerCurrent, Current, Writing, netVars
<1>10. ReadsFirst'
  BY <1>1, RdNoComm DEF ReadsFirst
<1> QED BY <1>5, <1>7, <1>8, <1>9, <1>10 DEF RdsInv, RdsIs

LEMMA ProcHasReadKeeps ==
  ASSUME RdsIs, ProcHasRead
  PROVE  RdsInv'
PROOF
<1>1. /\ comm.type = "read" /\ replies # <<>> /\ replies' = Tail(replies) /\ EndsComm
      /\ rdbuf' = [rdbuf EXCEPT ![Head(rdqueue)].data = Head(replies).data, ![Head(rdqueue)].ref = 1]
      /\ rdqueue' = Tail(rdqueue) /\ rdcache' = <<Head(rdqueue)>> \o rdcache /\ availsem' = Signal(availsem)
      /\ rdmsg' = [rdmsg EXCEPT ![rdbuf[Head(rdqueue)].pid] = IF @ = "none" THEN Head(rdqueue) ELSE @]
      /\ UNCHANGED <<rdfree, rdseq, rdblk, rdcall, server, lastwrite>>
  BY DEF ProcHasRead, First, Accepted
<1>2. /\ RdBufTypes /\ RdCommTypes /\ RdLists /\ RdAsked /\ CopiesCurrent /\ ServerCurrent /\ RepliesMean
      /\ rdqueue # <<>> /\ rdbuf[Head(rdqueue)].op = "read"
  BY <1>1 DEF RdsIs, ReadsFirst
<1>3. PICK f \in RdQueued : f = Head(rdqueue)
  BY <1>2, ListTail DEF RdLists, RdQueued
<1>4. f \in RdBufs /\ AskedIs(f) /\ ~rdbuf[f].valid /\ rdbuf[f].op = "read"
  BY <1>2, <1>3 DEF RdLists, RdAsked
<1>5. \A p \in RdClients : p # rdbuf[f].pid => rdmsg'[p] = rdmsg[p]
  BY <1>1, <1>2, <1>3 DEF RdBufTypes
<1>6. rdmsg'[rdbuf[f].pid] = f /\ rdmsg' \in [RdClients -> {"none", "ok"} \cup RdBufs]
  <2>1. rdbuf[f].pid \in RdClients /\ rdmsg[rdbuf[f].pid] = "none"
    BY <1>4 DEF AskedIs
  <2>2. rdmsg' = [rdmsg EXCEPT ![rdbuf[f].pid] = f]
    BY <1>1, <1>3, <2>1
  <2> QED BY <1>2, <1>4, <2>1, <2>2 DEF RdBufTypes
<1>7. /\ rdbuf' \in [RdBufs -> [op : {"none", "read", "write", "sync"}, ref : Int, blk : RdBlocks,
                              valid : BOOLEAN, pid : RdClients \cup {"nobody"}, data : RdContents]]
      /\ \A x \in RdBufs : x # f => rdbuf'[x] = rdbuf[x]
      /\ rdbuf'[f].ref = 1 /\ ~rdbuf'[f].valid /\ rdbuf'[f].pid = rdbuf[f].pid /\ rdbuf'[f].blk = rdbuf[f].blk
  <2>1. PICK old \in [op : {"none", "read", "write", "sync"}, ref : Int, blk : RdBlocks,
                      valid : BOOLEAN, pid : RdClients \cup {"nobody"}, data : RdContents] : old = rdbuf[f]
    BY <1>2, <1>4 DEF RdBufTypes
  <2>2. PICK d \in RdContents : d = Head(replies).data
    <3>1. Head(replies) = replies[1] /\ 1 \in 1..Len(replies)
      BY <1>1, <1>2, CommFields, FewerReplies
    <3>2. replies[1] \in [seq : Nat, type : RdMsgTypes, data : RdContents]
      BY <1>2, <3>1, CommFields
    <3> QED BY <3>1, <3>2
  <2>3. PICK new : new = [old EXCEPT !.data = d, !.ref = 1]
    OBVIOUS
  <2>4. /\ new.op = old.op /\ new.ref = 1 /\ new.blk = old.blk /\ new.valid = old.valid /\ new.pid = old.pid
        /\ new \in [op : {"none", "read", "write", "sync"}, ref : Int, blk : RdBlocks,
                    valid : BOOLEAN, pid : RdClients \cup {"nobody"}, data : RdContents]
    <3>1. new = [op |-> old.op, ref |-> 1, blk |-> old.blk, valid |-> old.valid, pid |-> old.pid, data |-> d]
      BY <2>3
    <3>2. /\ new.op = old.op /\ new.ref = 1 /\ new.blk = old.blk /\ new.pid = old.pid
      BY <3>1
    <3>3. new.valid = old.valid
      BY <3>1, Zenon
    <3>4. new \in [op : {"none", "read", "write", "sync"}, ref : Int, blk : RdBlocks,
                  valid : BOOLEAN, pid : RdClients \cup {"nobody"}, data : RdContents]
      BY <3>1
    <3> QED BY <3>2, <3>3, <3>4
  <2>5. rdbuf' = [rdbuf EXCEPT ![f] = new]
    BY <1>1, <1>2, <1>3, <1>4, <2>1, <2>2, <2>3 DEF RdBufTypes
  <2>6. rdbuf'[f] = new /\ \A x \in RdBufs : x # f => rdbuf'[x] = rdbuf[x]
    BY <1>2, <1>4, <2>5 DEF RdBufTypes
  <2>7. rdbuf' \in [RdBufs -> [op : {"none", "read", "write", "sync"}, ref : Int, blk : RdBlocks,
                              valid : BOOLEAN, pid : RdClients \cup {"nobody"}, data : RdContents]]
    BY <1>2, <2>4, <2>5 DEF RdBufTypes
  <2> QED BY <1>4, <2>1, <2>4, <2>6, <2>7
<1>8. RdBufTypes'
  BY <1>1, <1>2, <1>6, <1>7 DEF RdBufTypes
<1>9. /\ RdLists' /\ RdUnits' /\ RdOrder' /\ RdAsked' /\ RdTold' /\ CopiesCurrent'
      /\ \A k : ~WriteWaits(k)' => ~WriteWaits(k)
  <2>1. rdbuf[f].op # "write" /\ rdbuf[f].op # "sync" /\ f = Head(rdqueue) /\ rdcache' = <<f>> \o rdcache /\ rdqueue # <<>>
    BY <1>1, <1>2, <1>3
  <2>2. /\ rdbuf[f].op # "sync" /\ rdfree' = rdfree /\ rdcache' = <<f>> \o rdcache
        /\ rdqueue' = Tail(rdqueue) /\ availsem' = Signal(availsem) /\ UNCHANGED <<rdcall, lastwrite>>
    BY <1>1, <2>1
  <2> QED BY <1>5, <1>6, <1>7, <1>8, <2>1, <2>2, FirstLeaves
<1>10. /\ RdCommTypes' /\ RepliesMean' /\ comm'.type = "none"
       /\ \A k \in DiskBlocks : ~WriteWaits(k) => server'[k] = lastwrite[k]
  BY <1>1, ExchangeEnds
<1>11. ServerCurrent'
  BY <1>1, <1>9, <1>10 DEF ServerCurrent, Current, Writing
<1>12. ReadsFirst'
  BY <1>10 DEF ReadsFirst
<1> QED BY <1>8, <1>9, <1>10, <1>11, <1>12 DEF RdsInv, RdsIs

-----------------------------------------------------------------------------
(* A call that has been told returns *)

LEMMA ReturnTypes ==
  ASSUME RdBufTypes, NEW c \in RdClients, rdcall' = [rdcall EXCEPT ![c] = NoCall],
         rdmsg' = [rdmsg EXCEPT ![c] = "none"], UNCHANGED lastwrite,
         rdbuf' \in [RdBufs -> [op : {"none", "read", "write", "sync"}, ref : Int, blk : RdBlocks,
                                valid : BOOLEAN, pid : RdClients \cup {"nobody"}, data : RdContents]]
  PROVE  RdBufTypes'
PROOF
<1>1. NoCall \in [op : {"none", "read", "write", "sync", "read asked", "sync asked"},
                 blk : RdBlocks, data : RdContents]
  BY DEF NoCall, RdBlocks, RdContents
<1>2. /\ rdcall' \in [RdClients -> [op : {"none", "read", "write", "sync", "read asked", "sync asked"},
                                   blk : RdBlocks, data : RdContents]]
      /\ rdmsg' \in [RdClients -> {"none", "ok"} \cup RdBufs]
      /\ lastwrite' \in [DiskBlocks -> RdContents]
  BY <1>1 DEF RdBufTypes
<1> QED BY <1>2 DEF RdBufTypes

(* It may change a buffer of the cache that was read for it, or free it. *)
LEMMA CallReturns ==
  ASSUME RdsIs, NEW c \in RdClients, rdcall[c].op \in {"read asked", "sync asked"}, rdmsg[c] # "none",
         rdcall' = [rdcall EXCEPT ![c] = NoCall], rdmsg' = [rdmsg EXCEPT ![c] = "none"],
         UNCHANGED <<rdqueue, availsem, rdseq, rdblk, netVars, comm, lastwrite>>,
         NEW b, b \notin RdQueued, b \in RdCached => rdbuf[b].pid = c,
         RdBufTypes', \A x \in RdBufs : x # b => rdbuf'[x] = rdbuf[x],
         b \in RdCached' => ~rdbuf'[b].valid, RdLists',
         RdCached' \subseteq RdCached, RdCached \subseteq RdCached' \cup {b},
         \A x, y : Precedes(rdcache', x, y) => Precedes(rdcache, x, y),
         \A x \in RdCached' : rdbuf'[x].blk = rdbuf[x].blk,
         Len(rdfree') + Len(rdcache') = Len(rdfree) + Len(rdcache)
  PROVE  RdsInv'
PROOF
<1>1. /\ RdBufTypes /\ RdCommTypes /\ RdLists /\ RdUnits /\ RdOrder /\ RdAsked /\ RdTold
      /\ CopiesCurrent /\ ServerCurrent /\ RepliesMean /\ ReadsFirst
  BY DEF RdsIs
<1>2. RdQueued' = RdQueued /\ RdQueued \subseteq RdBufs /\ RdCached \subseteq RdBufs
  BY <1>1 DEF RdQueued, RdLists
<1>3. /\ \A x \in RdQueued : rdbuf'[x] = rdbuf[x]
      /\ \A x \in RdCached' : rdbuf'[x].valid => x # b /\ rdbuf'[x] = rdbuf[x]
  BY <1>2
<1>4. /\ \A p \in RdClients : p # c => rdcall'[p] = rdcall[p] /\ rdmsg'[p] = rdmsg[p]
      /\ rdcall'[c].op = "none" /\ rdmsg'[c] = "none"
  BY <1>1 DEF RdBufTypes, NoCall
<1>5. RdCommTypes'
  BY <1>1 DEF RdCommTypes, netVars
<1>6. RdUnits'
  <2>1. RdCallers' = RdCallers
    <3>1. c \notin RdCallers
      BY DEF RdCallers
    <3>2. RdCallers' = RdCallers \ {c}
      BY <1>4, CallersAre
    <3> QED BY <3>1, <3>2
  <2> QED BY <1>1, <2>1 DEF RdUnits
<1>7. RdOrder'
  <2>1. ASSUME NEW x \in RdBufs, NEW y \in RdBufs, Precedes(rdcache', x, y), rdbuf'[y].valid
        PROVE  rdbuf'[x].blk # rdbuf'[y].blk
    <3>1. x \in RdCached' /\ y \in RdCached' /\ Listed(rdcache')
      BY <2>1, PrecedesIn DEF RdCached, RdLists
    <3>2. rdbuf'[y] = rdbuf[y] /\ rdbuf'[x].blk = rdbuf[x].blk /\ Precedes(rdcache, x, y)
      BY <1>3, <2>1, <3>1
    <3>3. rdbuf[y].valid
      BY <2>1, <3>2
    <3>4. rdbuf[x].blk # rdbuf[y].blk
      BY <1>1, <3>2, <3>3 DEF RdOrder
    <3> QED BY <3>2, <3>4
  <2>2. ASSUME NEW x \in RdCached', NEW y \in RdQueued', rdbuf'[x].valid, rdbuf'[x].blk = rdbuf'[y].blk
        PROVE  rdbuf'[y].op = "sync"
    <3>1. rdbuf'[x] = rdbuf[x] /\ rdbuf'[y] = rdbuf[y] /\ x \in RdCached /\ y \in RdQueued
      BY <1>2, <1>3, <2>2
    <3>2. rdbuf[x].valid /\ rdbuf[x].blk = rdbuf[y].blk
      BY <2>2, <3>1
    <3>3. rdbuf[y].op = "sync"
      BY <1>1, <3>1, <3>2 DEF RdOrder
    <3> QED BY <3>1, <3>3
  <2>3. ASSUME NEW x \in RdBufs, NEW y \in RdBufs, Precedes(rdqueue, x, y), rdbuf'[x].op = "write",
               rdbuf'[x].blk = rdbuf'[y].blk
        PROVE  rdbuf'[y].op = "sync"
    <3>1. x \in RdQueued /\ y \in RdQueued
      <4>1. Listed(rdqueue)
        BY <1>1 DEF RdLists
      <4> QED BY <2>3, <4>1, PrecedesIn DEF RdQueued
    <3>2. rdbuf'[x] = rdbuf[x] /\ rdbuf'[y] = rdbuf[y]
      BY <1>3, <3>1
    <3>3. Precedes(rdqueue, x, y) /\ rdbuf[x].op = "write" /\ rdbuf[x].blk = rdbuf[y].blk
      BY <2>3, <3>2
    <3>4. rdbuf[y].op = "sync"
      BY <1>1, <3>3, Zenon DEF RdOrder
    <3> QED BY <3>2, <3>4
  <2> QED BY <2>1, <2>2, <2>3 DEF RdOrder
<1>8. RdAsked'
  <2>1. ASSUME NEW x \in RdQueued, rdbuf[x].op # "write" PROVE AskedIs(x)'
    <3>1. AskedIs(x)
      BY <1>1, <2>1 DEF RdAsked
    <3>2. rdbuf[x].pid # c
      BY <3>1 DEF AskedIs
    <3>3. rdcall'[rdbuf[x].pid] = rdcall[rdbuf[x].pid] /\ rdmsg'[rdbuf[x].pid] = rdmsg[rdbuf[x].pid]
      BY <1>4, <3>1, <3>2 DEF AskedIs
    <3> QED BY <1>2, <1>3, <3>1, <3>3 DEF AskedIs
  <2>2. \A x \in RdCached' : rdbuf'[x].valid => rdbuf'[x].ref <= 0 /\ rdbuf'[x].blk \in DiskBlocks
    BY <1>1, <1>3 DEF RdAsked
  <2>3. \A p \in RdClients : rdcall'[p].op \in {"read", "write"} => rdcall'[p].blk \in DiskBlocks
    BY <1>1, <1>4 DEF RdAsked
  <2>4. \A x \in RdQueued : /\ rdbuf'[x].op \in {"read", "write", "sync"} /\ (rdbuf'[x].valid <=> rdbuf'[x].op = "write")
                            /\ rdbuf'[x].op = "write" => rdbuf'[x].ref <= 0 /\ rdbuf'[x].blk \in DiskBlocks
                            /\ rdbuf'[x].op # "write" => AskedIs(x)'
    BY <1>1, <1>3, <2>1 DEF RdAsked
  <2> QED BY <1>2, <2>2, <2>3, <2>4 DEF RdAsked
<1>9. RdTold'
  <2>1. ASSUME NEW p \in RdClients, rdcall'[p].op = "read asked", rdmsg'[p] # "none"
        PROVE  rdmsg'[p] \in RdCached' /\ rdbuf'[rdmsg'[p]].ref = 1 /\ ~rdbuf'[rdmsg'[p]].valid /\ rdbuf'[rdmsg'[p]].pid = p
    <3>1. p # c /\ rdcall'[p] = rdcall[p] /\ rdmsg'[p] = rdmsg[p]
      BY <1>4, <2>1
    <3>2. rdmsg[p] \in RdCached /\ rdbuf[rdmsg[p]].ref = 1 /\ ~rdbuf[rdmsg[p]].valid /\ rdbuf[rdmsg[p]].pid = p
      BY <1>1, <2>1, <3>1 DEF RdTold
    <3>3. rdmsg[p] # b
      BY <3>1, <3>2
    <3> QED BY <1>2, <3>1, <3>2, <3>3
  <2> QED BY <2>1 DEF RdTold
<1>10. CopiesCurrent'
  <2>1. \A x \in RdCached' : rdbuf'[x].valid => rdbuf'[x].data = lastwrite[rdbuf'[x].blk]
    BY <1>1, <1>3 DEF CopiesCurrent
  <2>2. \A x \in RdQueued : rdbuf'[x].op = "write" => rdbuf'[x].data = lastwrite[rdbuf'[x].blk]
    BY <1>1, <1>3 DEF CopiesCurrent
  <2> QED BY <1>2, <2>1, <2>2 DEF CopiesCurrent
<1>11. ServerCurrent'
  <2>1. \A k : WriteWaits(k)' <=> WriteWaits(k)
    BY <1>2, <1>3 DEF WriteWaits
  <2> QED BY <1>1, <2>1 DEF ServerCurrent, Current, Writing, netVars
<1>12. RepliesMean'
  BY <1>1 DEF RepliesMean, netVars
<1>13. ReadsFirst'
  <2>1. rdqueue # <<>> => Head(rdqueue) \in RdQueued
    BY <1>1, ListTail DEF RdQueued, RdLists
  <2> QED BY <1>1, <1>3, <2>1 DEF ReadsFirst
<1> QED BY <1>5, <1>6, <1>7, <1>8, <1>9, <1>10, <1>11, <1>12, <1>13 DEF RdsInv, RdsIs

LEMMA SyncDoneKeeps ==
  ASSUME RdsIs, NEW c \in RdClients, RdsSyncDone(c)
  PROVE  RdsInv'
PROOF
<1>1. /\ rdcall[c].op = "sync asked" /\ rdmsg[c] # "none"
      /\ rdcall' = [rdcall EXCEPT ![c] = NoCall] /\ rdmsg' = [rdmsg EXCEPT ![c] = "none"]
      /\ UNCHANGED <<rdbuf, rdqueue, rdcache, rdfree, availsem, rdseq, rdblk, netVars, comm, lastwrite>>
  BY DEF RdsSyncDone, listVars
<1>2. RdLists /\ RdBufTypes
  BY DEF RdsIs
<1>3. RdQueued' = RdQueued /\ RdCached' = RdCached /\ RdFree' = RdFree
  BY <1>1 DEF RdQueued, RdCached, RdFree
<1>4. "none" \notin RdBufs /\ RdQueued \subseteq RdBufs /\ RdCached \subseteq RdBufs
  BY <1>2, RdSizes DEF RdLists
<1>5. RdLists'
  BY <1>1, <1>2, <1>3 DEF RdLists
<1>6. RdBufTypes'
  <2>1. rdbuf' \in [RdBufs -> [op : {"none", "read", "write", "sync"}, ref : Int, blk : RdBlocks,
                              valid : BOOLEAN, pid : RdClients \cup {"nobody"}, data : RdContents]]
    BY <1>1, <1>2 DEF RdBufTypes
  <2> QED BY <1>1, <1>2, <2>1, ReturnTypes
<1>7. /\ \A x \in RdBufs : x # "none" => rdbuf'[x] = rdbuf[x]
      /\ \A x \in RdCached' : rdbuf'[x].blk = rdbuf[x].blk
      /\ \A x, y : Precedes(rdcache', x, y) => Precedes(rdcache, x, y)
      /\ Len(rdfree') + Len(rdcache') = Len(rdfree) + Len(rdcache)
      /\ RdCached' \subseteq RdCached /\ RdCached \subseteq RdCached' \cup {"none"}
      /\ "none" \notin RdQueued /\ "none" \notin RdCached /\ "none" \notin RdCached'
  BY <1>1, <1>3, <1>4
<1> QED BY <1>1, <1>5, <1>6, <1>7, CallReturns

LEMMA ReadDoneKeeps ==
  ASSUME RdsIs, NEW c \in RdClients, RdsReadDone(c)
  PROVE  RdsInv'
PROOF
<1>1. PICK b : b = rdmsg[c]
  OBVIOUS
<1>2. /\ rdcall[c].op = "read asked" /\ b # "none"
      /\ rdcall' = [rdcall EXCEPT ![c] = NoCall] /\ rdmsg' = [rdmsg EXCEPT ![c] = "none"]
      /\ UNCHANGED <<rdqueue, availsem, rdseq, rdblk, netVars, comm, lastwrite>>
  BY <1>1 DEF RdsReadDone
<1>3. RdLists /\ RdBufTypes /\ RdTold
  BY DEF RdsIs
<1>4. b \in RdCached /\ rdbuf[b].ref = 1 /\ ~rdbuf[b].valid /\ rdbuf[b].pid = c
  BY <1>1, <1>2, <1>3 DEF RdTold
<1>5. b \in RdBufs /\ b \notin RdQueued /\ b \notin RdFree
  BY <1>3, <1>4 DEF RdLists
<1>6. RdQueued' = RdQueued
  BY <1>2 DEF RdQueued
<1>7. \/ rdcache' = GetItem(rdcache, b) /\ rdfree' = <<b>> \o rdfree /\ rdbuf' = RdFreed({b})
      \/ rdbuf' = [rdbuf EXCEPT ![b].ref = 0] /\ UNCHANGED <<rdcache, rdfree>>
  <2>1. rdbuf[b].ref - 1 = 0
    BY <1>4
  <2> QED BY <1>1, <2>1 DEF RdsReadDone
<1>8. CASE rdcache' = GetItem(rdcache, b) /\ rdfree' = <<b>> \o rdfree /\ rdbuf' = RdFreed({b})
  <2>1. /\ Listed(rdcache') /\ RdCached' = RdCached \ {b} /\ Len(rdcache') = Len(rdcache) - 1
        /\ \A x, y : Precedes(rdcache', x, y) => Precedes(rdcache, x, y)
    BY <1>3, <1>4, <1>8, ListWithout DEF RdCached, RdLists
  <2>2. Listed(rdfree') /\ RdFree' = RdFree \cup {b} /\ Len(rdfree') = Len(rdfree) + 1
    BY <1>3, <1>5, <1>8, ListConsed DEF RdFree, RdLists
  <2>3. RdLists'
    BY <1>2, <1>3, <1>4, <1>6, <2>1, <2>2 DEF RdLists
  <2>4. Len(rdfree') + Len(rdcache') = Len(rdfree) + Len(rdcache)
    BY <1>3, <2>1, <2>2, LengthsAre
  <2>5. RdBufTypes' /\ \A x \in RdBufs : x # b => rdbuf'[x] = rdbuf[x]
    <3>1. rdbuf' = RdFreed({b}) /\ UNCHANGED lastwrite
      BY <1>2, <1>8
    <3>2. \A x \in RdBufs : x # b => rdbuf'[x] = rdbuf[x]
      BY SMTT(30), <1>3, <3>1, FreedAre
    <3>3. RdBufTypes'
      BY <1>2, <1>3, <3>1, FreedAre, ReturnTypes
    <3> QED BY <3>2, <3>3
  <2>6. /\ RdCached' \subseteq RdCached /\ RdCached \subseteq RdCached' \cup {b} /\ b \notin RdCached'
        /\ \A x \in RdCached' : rdbuf'[x].blk = rdbuf[x].blk
    BY <1>3, <2>1, <2>5 DEF RdLists
  <2> QED BY <1>1, <1>2, <1>4, <1>5, <2>1, <2>3, <2>4, <2>5, <2>6, CallReturns
<1>9. CASE rdbuf' = [rdbuf EXCEPT ![b].ref = 0] /\ UNCHANGED <<rdcache, rdfree>>
  <2>1. RdCached' = RdCached /\ RdFree' = RdFree
    BY <1>9 DEF RdCached, RdFree
  <2>2. RdLists'
    BY <1>2, <1>3, <1>6, <1>9, <2>1 DEF RdLists
  <2>3. /\ RdBufTypes'
        /\ \A x \in RdBufs : x # b => rdbuf'[x] = rdbuf[x]
        /\ ~rdbuf'[b].valid /\ rdbuf'[b].blk = rdbuf[b].blk
    <3>1. PICK old \in [op : {"none", "read", "write", "sync"}, ref : Int, blk : RdBlocks,
                        valid : BOOLEAN, pid : RdClients \cup {"nobody"}, data : RdContents] : old = rdbuf[b]
      BY <1>3, <1>5 DEF RdBufTypes
    <3>2. PICK new : new = [old EXCEPT !.ref = 0]
      OBVIOUS
    <3>3. /\ ~new.valid /\ new.blk = old.blk
          /\ new \in [op : {"none", "read", "write", "sync"}, ref : Int, blk : RdBlocks,
                      valid : BOOLEAN, pid : RdClients \cup {"nobody"}, data : RdContents]
      BY <1>4, <3>1, <3>2
    <3>4. rdbuf' = [rdbuf EXCEPT ![b] = new]
      BY <1>9, <3>1, <3>2
    <3>5. rdbuf'[b] = new /\ \A x \in RdBufs : x # b => rdbuf'[x] = rdbuf[x]
      BY <1>3, <1>5, <3>4 DEF RdBufTypes
    <3>6. rdbuf' \in [RdBufs -> [op : {"none", "read", "write", "sync"}, ref : Int, blk : RdBlocks,
                                valid : BOOLEAN, pid : RdClients \cup {"nobody"}, data : RdContents]]
      BY <1>3, <3>3, <3>4 DEF RdBufTypes
    <3>7. RdBufTypes'
      BY <1>2, <1>3, <3>6, ReturnTypes
    <3> QED BY <3>1, <3>3, <3>5, <3>7
  <2>4. /\ RdCached' \subseteq RdCached /\ RdCached \subseteq RdCached' \cup {b}
        /\ \A x \in RdCached' : rdbuf'[x].blk = rdbuf[x].blk
        /\ \A x, y : Precedes(rdcache', x, y) => Precedes(rdcache, x, y)
        /\ Len(rdfree') + Len(rdcache') = Len(rdfree) + Len(rdcache)
    BY <1>3, <1>9, <2>1, <2>3 DEF RdLists
  <2> QED BY <1>1, <1>2, <1>4, <1>5, <2>2, <2>3, <2>4, CallReturns
<1> QED BY <1>7, <1>8, <1>9

-----------------------------------------------------------------------------
(* rdsclose *)

LEMMA ClosesKeeps ==
  ASSUME RdsIs, upset' = "no", Closes, RdCommTypes', RepliesMean',
         \A k \in DiskBlocks : ~WriteWaits(k) => Current(k)', comm'.type # "read" \/ UNCHANGED comm,
         UNCHANGED <<rdqueue, availsem, rdcall, rdmsg, lastwrite>>
  PROVE  RdsInv'
PROOF
<1>1. /\ RdBufTypes /\ RdLists /\ RdUnits /\ RdOrder /\ RdAsked /\ RdTold /\ CopiesCurrent /\ ReadsFirst
  BY DEF RdsIs
<1>2. CASE rdqueue # <<>>
  <2>1. UNCHANGED <<rdcache, rdfree, rdbuf>>
    BY <1>2 DEF Closes
  <2>2. UNCHANGED <<listVars, rdcall, rdmsg, lastwrite>> /\ lastwrite \in [DiskBlocks -> RdContents]
    BY <1>1, <2>1 DEF listVars, RdBufTypes
  <2> QED BY <2>2, ExchangeStep
<1>3. CASE rdqueue = <<>>
  <2>1. /\ rdfree' = Reverse(rdcache) \o rdfree /\ rdcache' = <<>> /\ rdbuf' = RdFreed(ToSet(rdcache))
        /\ \A c \in RdClients : rdcall[c] = NoCall
    <3>1. "closed early" # "no"
      OBVIOUS
    <3> QED BY <1>3, <3>1 DEF Closes
  <2>2. Listed(<<>>) /\ ToSet(<<>>) = {} /\ Len(<<>>) = 0
    BY DEF Listed, QueueOf, ToSet
  <2>3. RdCached' = {} /\ RdQueued = {} /\ RdQueued' = {}
    BY <1>3, <2>1, <2>2 DEF RdCached, RdQueued
  <2>4. Listed(rdfree') /\ RdFree' = RdCached \cup RdFree /\ Len(rdfree') = Len(rdcache) + Len(rdfree)
    BY <1>1, <2>1, ListReturns DEF RdCached, RdFree, RdLists
  <2>5. RdLists'
    BY <1>1, <1>3, <2>1, <2>2, <2>3, <2>4 DEF RdLists
  <2>6. RdUnits'
    <3>1. RdCallers' = RdCallers
      BY DEF RdCallers
    <3>2. Len(rdfree') + Len(rdcache') = Len(rdfree) + Len(rdcache)
      BY <1>1, <2>1, <2>2, <2>4, LengthsAre
    <3> QED BY <1>1, <3>1, <3>2 DEF RdUnits
  <2>7. RdBufTypes'
    BY <1>1, <2>1, FreedAre DEF RdBufTypes
  <2>8. RdOrder'
    BY <1>3, <2>1, <2>3 DEF RdOrder, Precedes
  <2>9. RdAsked' /\ RdTold'
    <3>1. \A c \in RdClients : rdcall'[c].op = "none"
      BY <2>1 DEF NoCall
    <3>2. RdAsked'
      BY <2>3, <3>1 DEF RdAsked
    <3>3. RdTold'
      BY <3>1 DEF RdTold
    <3> QED BY <3>2, <3>3
  <2>10. CopiesCurrent' /\ ServerCurrent'
    BY <2>3 DEF CopiesCurrent, ServerCurrent, WriteWaits
  <2>11. ReadsFirst'
    BY <1>1, <1>3 DEF ReadsFirst
  <2> QED BY <2>5, <2>6, <2>7, <2>8, <2>9, <2>10, <2>11 DEF RdsInv, RdsIs
<1> QED BY <1>2, <1>3

LEMMA CloseKeeps ==
  ASSUME RdsIs, NEW c \in RdClients, RdsClose(c)
  PROVE  RdsInv'
PROOF
<1>1. SUFFICES ASSUME upset' = "no" PROVE RdsInv'
  BY DEF RdsInv
<1>2. Closes /\ UNCHANGED <<rdqueue, availsem, rdseq, rdblk, rdcall, rdmsg, netVars, comm, lastwrite>>
  BY DEF RdsClose
<1>3. RdCommTypes' /\ RepliesMean' /\ \A k \in DiskBlocks : ~WriteWaits(k) => Current(k)'
  BY <1>2 DEF RdsIs, RdCommTypes, RepliesMean, ServerCurrent, Current, Writing, netVars
<1> QED BY <1>1, <1>2, <1>3, ClosesKeeps

LEMMA DeleteEndsKeeps ==
  ASSUME RdsIs, NEW c \in RdClients, RdsDeleteEnds(c)
  PROVE  RdsInv'
PROOF
<1>1. SUFFICES ASSUME upset' = "no" PROVE RdsInv'
  BY DEF RdsInv
<1>2. /\ EndsComm /\ comm.type = "delete"
      /\ replies' = replies \/ (replies # <<>> /\ replies' = Tail(replies))
      /\ UNCHANGED <<rdqueue, availsem, rdseq, rdblk, rdcall, rdmsg, server, lastwrite>>
      /\ Closes \/ UNCHANGED <<rdstate, rdcache, rdfree, rdbuf, upset>>
  BY DEF RdsDeleteEnds, Accepted
<1>3. /\ RdCommTypes' /\ RepliesMean' /\ comm'.type = "none"
      /\ \A k \in DiskBlocks : ~WriteWaits(k) => server'[k] = lastwrite[k]
  BY <1>2, ExchangeEnds
<1>4. \A k \in DiskBlocks : ~WriteWaits(k) => Current(k)'
  BY <1>2, <1>3 DEF Current, Writing
<1>5. CASE Closes
  BY <1>1, <1>2, <1>3, <1>4, <1>5, ClosesKeeps
<1>6. CASE UNCHANGED <<rdstate, rdcache, rdfree, rdbuf, upset>>
  <2>1. UNCHANGED <<listVars, rdcall, rdmsg, lastwrite>> /\ lastwrite \in [DiskBlocks -> RdContents]
    BY <1>2, <1>6 DEF listVars, RdsIs, RdBufTypes
  <2> QED BY <1>3, <1>4, <2>1, ExchangeStep
<1> QED BY <1>2, <1>5, <1>6

-----------------------------------------------------------------------------
(* The invariant, and what it says of reads and of the server *)

LEMMA RdsStep == RdsInv /\ RdsNext => RdsInv'
PROOF
<1> SUFFICES ASSUME RdsInv, RdsNext PROVE RdsInv'
  OBVIOUS
<1>0. RdsIs
  <2>1. upset = "no"
    BY ZenonT(30) DEF RdsNext, RdsRead, RdsWrite, RdsSync, RdsGoesOn, RdsReadDone, RdsSyncDone, RdsOpen, RdsOpenEnds, RdsClose,
           RdsDelete, RdsDeleteEnds, CommSends, ServerAnswers, CommIgnores, CommTimesOut, ProcReads, ProcWrites,
           ProcSyncs, ProcHasRead, ProcHasWritten, ProcPanics, ProcFree, CanCallDisk
  <2> QED BY <2>1 DEF RdsInv
<1>1. ASSUME NEW c \in RdClients, NEW k \in DiskBlocks, RdsRead(c, k) PROVE RdsInv'
  BY <1>0, <1>1, ReadKeeps
<1>2. ASSUME NEW c \in RdClients, NEW k \in DiskBlocks, NEW d \in RdData, RdsWrite(c, k, d) PROVE RdsInv'
  BY <1>0, <1>2, WriteKeeps
<1>3. ASSUME NEW c \in RdClients, RdsSync(c) PROVE RdsInv'
  BY <1>0, <1>3, SyncKeeps
<1>4. ASSUME NEW c \in RdClients, RdsGoesOn(c) PROVE RdsInv'
  BY <1>0, <1>4, GoesOnKeeps
<1>5. ASSUME NEW c \in RdClients, RdsReadDone(c) PROVE RdsInv'
  BY <1>0, <1>5, ReadDoneKeeps
<1>6. ASSUME NEW c \in RdClients, RdsSyncDone(c) PROVE RdsInv'
  BY <1>0, <1>6, SyncDoneKeeps
<1>7. ASSUME NEW c \in RdClients, RdsOpen(c) \/ RdsDelete(c) PROVE RdsInv'
  BY <1>0, <1>7, OpensKeep
<1>8. ASSUME ProcHasWritten \/ \E c \in RdClients : RdsOpenEnds(c) PROVE RdsInv'
  BY <1>0, <1>8, OtherEndsKeep
<1>9. ASSUME NEW c \in RdClients, RdsClose(c) PROVE RdsInv'
  BY <1>0, <1>9, CloseKeeps
<1>10. ASSUME NEW c \in RdClients, RdsDeleteEnds(c) PROVE RdsInv'
  BY <1>0, <1>10, DeleteEndsKeeps
<1>11. ASSUME CommSends \/ CommIgnores \/ CommTimesOut PROVE RdsInv'
  BY <1>0, <1>11, RetriesKeep
<1>12. ASSUME ServerAnswers PROVE RdsInv'
  BY <1>0, <1>12, ServerAnswersKeeps
<1>13. ASSUME ProcReads PROVE RdsInv'
  BY <1>0, <1>13, ProcReadsKeeps
<1>14. ASSUME ProcWrites PROVE RdsInv'
  BY <1>0, <1>14, ProcWritesKeeps
<1>15. ASSUME ProcSyncs PROVE RdsInv'
  BY <1>0, <1>15, ProcSyncsKeeps
<1>16. ASSUME ProcHasRead PROVE RdsInv'
  BY <1>0, <1>16, ProcHasReadKeeps
<1>17. ASSUME ProcPanics PROVE RdsInv'
  <2>1. "no server" # "no"
    OBVIOUS
  <2> QED BY <1>17, <2>1 DEF ProcPanics, RdsInv
<1> QED BY <1>1, <1>2, <1>3, <1>4, <1>5, <1>6, <1>7, <1>8, <1>9, <1>10, <1>11, <1>12, <1>13, <1>14, <1>15, <1>16,
           <1>17 DEF RdsNext

LEMMA RdsStutter == RdsInv /\ UNCHANGED rdsVars => RdsInv'
PROOF
<1> SUFFICES ASSUME RdsInv, UNCHANGED rdsVars, upset = "no" PROVE RdsInv'
  BY DEF rdsVars, RdsInv
<1>1. UNCHANGED <<listVars, rdcall, rdmsg, rdseq, rdblk, netVars, comm, lastwrite>> /\ RdsIs
  BY DEF rdsVars, RdsInv
<1>2. RdCommTypes' /\ RepliesMean' /\ \A k \in DiskBlocks : ~WriteWaits(k) => Current(k)'
  BY <1>1 DEF RdsIs, RdCommTypes, RepliesMean, ServerCurrent, Current, Writing, netVars
<1>3. lastwrite' \in [DiskBlocks -> RdContents]
  BY <1>1 DEF RdsIs, RdBufTypes
<1> QED BY <1>1, <1>2, <1>3, ExchangeStep

(* Three lists, none with an element of another, one behind the other. *)
LEMMA ListsTogether ==
  ASSUME NEW q, Listed(q), NEW r, Listed(r), ToSet(q) \cap ToSet(r) = {}
  PROVE  Listed(q \o r) /\ ToSet(q \o r) = ToSet(q) \cup ToSet(r)
PROOF
<1>1. PICK S : S = ToSet(q) \cup ToSet(r)
  OBVIOUS
<1>2. PICK n \in Nat, m \in Nat : n = Len(q) /\ m = Len(r)
  BY ListedIs
<1>3. q \in Seq(S) /\ r \in Seq(S)
  BY <1>1, ListedIs, SeqMonotonic
<1>4. ToSet(q \o r) = S
  BY <1>1, <1>3, InConcat
<1>5. PICK s : s = q \o r
  OBVIOUS
<1>6. /\ s \in Seq(S) /\ Len(s) = n + m
      /\ \A i \in 1..(n + m) : s[i] = IF i <= n THEN q[i] ELSE r[i - n]
  BY <1>2, <1>3, <1>5, ConcatProperties
<1>7. \A i \in 1..(n + m) : IF i <= n THEN i \in 1..n /\ q[i] \in ToSet(q)
                            ELSE i - n \in 1..m /\ r[i - n] \in ToSet(r)
  <2>1. \A i \in 1..(n + m) : IF i <= n THEN i \in 1..n ELSE i - n \in 1..m
    OBVIOUS
  <2> QED BY <1>2, <2>1, ListedIs
<1>8. ASSUME NEW i \in 1..(n + m), NEW j \in 1..(n + m), s[i] = s[j] PROVE i = j
  <2>1. CASE i <= n /\ j <= n
    <3>1. i \in 1..n /\ j \in 1..n /\ q[i] = q[j]
      BY <1>6, <1>7, <1>8, <2>1
    <3> QED BY <1>2, <3>1, ListedIs
  <2>2. CASE ~(i <= n) /\ ~(j <= n)
    <3>1. PICK k \in 1..m, l \in 1..m : k = i - n /\ l = j - n
      BY <1>7, <2>2
    <3>2. r[k] = r[l]
      BY <1>6, <1>8, <2>2, <3>1
    <3>3. k = l
      BY <1>2, <3>2, ListedIs
    <3> QED BY <3>1, <3>3
  <2>3. CASE (i <= n /\ ~(j <= n)) \/ (~(i <= n) /\ j <= n)
    BY <1>6, <1>7, <1>8, <2>3
  <2> QED BY <2>1, <2>2, <2>3
<1>9. \A x \in S : \E i \in 1..Len(s) : s[i] = x
  <2>1. DOMAIN s = 1..Len(s) /\ ToSet(s) = S
    BY <1>4, <1>5, <1>6
  <2> QED BY <2>1 DEF ToSet
<1>10. QueueOf(s, S)
  BY <1>6, <1>8, <1>9 DEF QueueOf
<1> QED BY <1>1, <1>4, <1>5, <1>10, QueueListed

LEMMA RdsInvSound == RdsInv => DiskSound
PROOF
<1> SUFFICES ASSUME RdsInv, upset = "no" PROVE DiskSound
  BY DEF DiskSound, RdBuffersConserved, ReadGivesLastWrite, ServerHasLastWrite
<1>1. /\ RdBufTypes /\ RdLists /\ RdUnits /\ RdOrder /\ RdAsked /\ CopiesCurrent /\ ServerCurrent
  BY DEF RdsIs, RdsInv
<1>2. IsInjective(rdfree \o rdqueue \o rdcache) /\ ToSet(rdfree \o rdqueue \o rdcache) = RdBufs
  <2>1. PICK s : s = rdfree \o rdqueue
    OBVIOUS
  <2>2. Listed(s) /\ ToSet(s) = RdFree \cup RdQueued
    BY <1>1, <2>1, ListsTogether DEF RdLists, RdFree, RdQueued
  <2>3. PICK t : t = s \o rdcache
    OBVIOUS
  <2>4. Listed(t) /\ ToSet(t) = RdBufs
    <3>1. Listed(t) /\ ToSet(t) = ToSet(s) \cup RdCached
      BY <1>1, <2>2, <2>3, ListsTogether DEF RdLists, RdCached
    <3> QED BY <1>1, <2>2, <3>1 DEF RdLists
  <2>5. IsInjective(t)
    BY <2>4, ListedIs DEF IsInjective
  <2> QED BY <2>1, <2>3, <2>4, <2>5
<1>3. Len(rdfree) + Len(rdcache) = availsem.count + Cardinality(RdWaiting) + Cardinality(RdReleased)
  <2>1. PICK W \in SUBSET RdCallers : SemOf(availsem, W)
    BY <1>1 DEF RdUnits
  <2>2. RdWaiting = W /\ RdReleased = RdCallers \ W
    BY <2>1, SemWaits DEF RdWaiting, RdReleased, RdCallers, WaitsAt
  <2>3. IsFiniteSet(RdCallers) /\ IsFiniteSet(W) /\ IsFiniteSet(RdCallers \ W)
    BY CallersFew, FS_Subset
  <2>4. PICK n \in Int, m \in Nat, l \in Nat : n = availsem.count /\ m = Cardinality(W) /\ l = Cardinality(RdCallers \ W)
    BY <2>1, <2>3, FS_CardinalityType DEF SemOf
  <2>5. Cardinality(RdCallers) = m + l
    <3>1. W \cup (RdCallers \ W) = RdCallers /\ W \cap (RdCallers \ W) = {}
      BY <2>1
    <3>2. Cardinality(W \cup (RdCallers \ W)) = m + l - Cardinality(W \cap (RdCallers \ W))
      BY <2>3, <2>4, FS_Union
    <3>3. m + l - 0 = m + l
      BY <2>4
    <3> QED BY <3>1, <3>2, <3>3, FS_EmptySet
  <2>6. (n + m) + l = n + (m + l)
    BY <2>4
  <2>7. Len(rdfree) + Len(rdcache) = n + (m + l)
    BY <1>1, <2>4, <2>5 DEF RdUnits
  <2> QED BY <2>2, <2>4, <2>6, <2>7
<1>4. ASSUME NEW k \in DiskBlocks, NEW b \in RdBufs, b \in AnsweredFrom(k) PROVE rdbuf[b].data = lastwrite[k]
  <2>1. /\ DOMAIN rdcache = 1..Len(rdcache) /\ \A i \in InCache(k) : rdcache[i] \in RdCached /\ rdbuf[rdcache[i]].blk = k
    BY <1>1, CachedAre
  <2>2. CASE \E x \in FirstCached(k) : rdbuf[x].valid
    <3>1. PICK x \in FirstCached(k) : rdbuf[x].valid
      BY <2>2
    <3>2. x \in RdCached /\ rdbuf[x].blk = k
      BY <2>1, <3>1 DEF FirstCached
    <3>3. FirstCached(k) = {x}
      BY <1>1, <3>1, <3>2, ValidFirst
    <3>4. b = x
      BY <1>4, <2>2, <3>3 DEF AnsweredFrom
    <3> QED BY <1>1, <3>1, <3>2, <3>4 DEF CopiesCurrent
  <2>3. CASE ~\E x \in FirstCached(k) : rdbuf[x].valid
    <3>1. b \in QueuedWrite(k)
      BY <1>4, <2>3 DEF AnsweredFrom
    <3>2. b \in RdQueued /\ rdbuf[b].op = "write" /\ rdbuf[b].blk = k
      BY <3>1 DEF QueuedWrite, LastQueued, InQueue, RdQueued, ToSet
    <3> QED BY <1>1, <3>2 DEF CopiesCurrent
  <2> QED BY <2>2, <2>3
<1>5. ASSUME NEW k \in DiskBlocks, WritesOf(k) = {}, ~(comm.type = "write" /\ comm.blk = k)
      PROVE  server[k] = lastwrite[k]
  <2>1. ~WriteWaits(k)
    BY <1>1, <1>5, WritesAre
  <2> QED BY <1>1, <1>5, <2>1 DEF ServerCurrent, Current, Writing
<1> QED BY <1>2, <1>3, <1>4, <1>5 DEF DiskSound, RdBuffersConserved, ReadGivesLastWrite, ServerHasLastWrite

(* Theorem: what was last written to a block of the remote disk is what a read that
   is answered here gives, and is on the server or on its way there; and its buffers
   are conserved, up to one of the upsets. *)
THEOREM DiskSoundAlways == RdsSpec => []DiskSound
PROOF
<1>1. RdsInv /\ [RdsNext]_rdsVars => RdsInv'
  BY RdsStep, RdsStutter
<1> QED BY RdsInitially, <1>1, RdsInvSound, PTL DEF RdsSpec
=============================================================================
