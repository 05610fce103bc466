------------------------ MODULE PagingContentsProofs ------------------------
(***************************************************************************)
(* Theorems about the frames that Paging takes and what they hold, for any *)
(* number of processes, page tables and frames: a fault always finds a     *)
(* frame, the count of free frames covers them, and what a program wrote   *)
(* is what it reads, through evictions and back.                           *)
(*                                                                         *)
(* The order of the latencies is total on the frames taken (OlderOrders);  *)
(* the count is too great by what processes that ended returned without    *)
(* having taken it, NFFS at most each (HeapCount); and a page's contents   *)
(* are in its frame or, when it is absent, in the one copy it has, which   *)
(* a page that is clean agrees with (Contents).                            *)
(*                                                                         *)
(* A recursive function is reasoned about by its least counterexample      *)
(* (FirstExists), as in ScanRuns.                                          *)
(***************************************************************************)
EXTENDS PagingProofs, FirstFit, FiniteSetTheorems, NaturalsInduction

-----------------------------------------------------------------------------

(* The order in which the FFS frames were taken *)

(* A set of numbers has a first one. *)
LEMMA FirstExists ==
  ASSUME NEW S \in SUBSET Nat, S # {}
  PROVE  \E x \in S : IsFirst(x, S)
PROOF
<1>1. PICK x \in S : \A y \in S : <<y, x>> \notin OpToRel(<, Nat)
  BY WFMin, NatLessThanWellFounded
<1>2. \A y, z \in Nat : <<y, z>> \in OpToRel(<, Nat) <=> y < z
  BY DEF OpToRel
<1>3. ASSUME NEW y \in S PROVE x <= y
  <2>1. x \in Nat /\ y \in Nat /\ ~(y < x)
    BY <1>1, <1>2
  <2> QED BY <2>1
<1> QED BY <1>3 DEF IsFirst

(* The FFS frames taken, which p_fm_latency orders. *)
Taken == {f \in Ffs : ftab[f] # NoPage}

(* Their order is strict, total and transitive. *)
OlderOrders ==
  /\ older \subseteq Taken \X Taken
  /\ \A f \in Taken : <<f, f>> \notin older
  /\ \A f, g \in Taken : f # g => <<f, g>> \in older \/ <<g, f>> \in older
  /\ \A f, g, h \in Taken : <<f, g>> \in older /\ <<g, h>> \in older => <<f, h>> \in older

(* When no frame is free, one of them is older than the others: of the first
   n + 1 the older of the oldest of n and the last. *)
LEMMA OldestExists ==
  ASSUME OlderOrders, FreeFfs = {}
  PROVE  \E f \in Ffs : \A g \in Ffs \ {f} : <<f, g>> \in older
PROOF
<1> DEFINE Oldest(n) == \E f \in 0..n : \A g \in 0..n : g # f => <<f, g>> \in older
           Bad == {n \in 0..(NFFS - 1) : ~Oldest(n)}
<1>1. NFFS \in Nat \ {0}
  BY AreaSizes
<1>2. Taken = 0..(NFFS - 1)
  BY DEF Taken, FreeFfs, Ffs
<1>3. Bad = {}
  <2> SUFFICES ASSUME Bad # {} PROVE FALSE
    OBVIOUS
  <2>1. Bad \subseteq Nat
    BY <1>1
  <2>2. PICK n \in Bad : \A m \in Bad : n <= m
    <3> HIDE DEF Bad
    <3> QED BY <2>1, FirstExists DEF IsFirst
  <2>3. n # 0
    <3>1. Oldest(0)
      OBVIOUS
    <3> QED BY <3>1
  <2>4. n \in Nat \ {0} /\ n - 1 \in 0..(NFFS - 1) /\ n \in 0..(NFFS - 1)
    BY <2>1, <2>3, <1>1
  <2>5. Oldest(n - 1)
    <3>1. ~(n <= n - 1)
      BY <2>4
    <3>2. n - 1 \notin Bad
      <4> HIDE DEF Bad
      <4> QED BY <2>2, <3>1
    <3> QED BY <3>2, <2>4
  <2>6. PICK f \in 0..(n - 1) : \A g \in 0..(n - 1) : g # f => <<f, g>> \in older
    BY <2>5
  <2>7. 0..n = (0..(n - 1)) \cup {n} /\ 0..n \subseteq Taken /\ f # n /\ f \in 0..n
    <3>1. n \in Nat /\ n <= NFFS - 1 /\ f \in Int /\ f <= n - 1 /\ 0 <= f
      BY <2>4, <2>6, <1>1
    <3>2. f # n /\ f \in 0..n /\ 0..n \subseteq 0..(NFFS - 1)
      BY <3>1, <1>1
    <3>3. ASSUME NEW g \in 0..n PROVE g \in (0..(n - 1)) \cup {n}
      BY <3>1
    <3>4. ASSUME NEW g \in 0..(n - 1) PROVE g \in 0..n
      BY <3>1
    <3>5. n \in 0..n
      BY <3>1
    <3> QED BY <3>2, <3>3, <3>4, <3>5, <1>2
  <2>8. CASE <<f, n>> \in older
    <3>1. \A g \in 0..n : g # f => <<f, g>> \in older
      BY <2>6, <2>7, <2>8
    <3> QED BY <3>1, <2>7
  <2>9. CASE <<n, f>> \in older
    <3>1. \A g \in 0..n : g # n => <<n, g>> \in older
      BY <2>6, <2>7, <2>9 DEF OlderOrders
    <3> QED BY <3>1, <2>7
  <2> QED BY <2>7, <2>8, <2>9, <1>2 DEF OlderOrders
<1>4. Oldest(NFFS - 1)
  <2>1. NFFS - 1 \in 0..(NFFS - 1)
    BY <1>1
  <2> QED BY <1>3, <2>1
<1> QED BY <1>4 DEF Ffs

(* So a frame is found. *)
LEMMA OrderFindsFrame ==
  ASSUME OlderOrders
  PROVE  FrameFound
PROOF
<1>1. CASE FreeFfs = {}
  BY <1>1, OldestExists DEF FrameFound, Takes
<1>2. CASE FreeFfs # {}
  <2>1. FreeFfs \subseteq Nat /\ FreeFfs \subseteq Ffs
    BY AreaSizes DEF FreeFfs, Ffs
  <2>2. PICK f \in FreeFfs : IsFirst(f, FreeFfs)
    BY <1>2, <2>1, FirstExists
  <2> QED BY <1>2, <2>1, <2>2 DEF FrameFound, Takes
<1> QED BY <1>1, <1>2

(* Loading a page and ending a process keep the order. *)
LEMMA LoadOrders ==
  ASSUME PagingInv, OlderOrders, NEW pg \in Slots \ {NoPage}, NEW f \in Ffs, Load(pg, f)
  PROVE  OlderOrders'
PROOF
<1>1. /\ ftab' = [ftab EXCEPT ![f] = pg] /\ ftab \in [Ffs -> Slots]
      /\ older' = {ij \in older : ij[1] # f /\ ij[2] # f}
                    \cup {<<g, f>> : g \in {h \in Ffs \ {f} : ftab[h] # NoPage}}
  BY DEF Load, Youngest, PagingInv, Types
<1>2. Taken' = Taken \cup {f}
  BY <1>1 DEF Taken
<1>3. \A g, h \in Taken' : <<g, h>> \in older' <=>
        \/ g # f /\ h # f /\ <<g, h>> \in older
        \/ g # f /\ h = f
  BY <1>1, <1>2 DEF Taken
<1>4. older' \subseteq Taken' \X Taken'
  BY <1>1, <1>2 DEF Taken, OlderOrders
<1>5. \A g \in Taken' : <<g, g>> \notin older'
  BY <1>2, <1>3 DEF OlderOrders
<1>6. \A g, h \in Taken' : g # h => <<g, h>> \in older' \/ <<h, g>> \in older'
  BY <1>2, <1>3 DEF OlderOrders
<1>7. \A g, h, k \in Taken' :
        <<g, h>> \in older' /\ <<h, k>> \in older' => <<g, k>> \in older'
  BY <1>2, <1>3 DEF OlderOrders
<1> QED BY <1>4, <1>5, <1>6, <1>7 DEF OlderOrders

LEMMA KillOrders ==
  ASSUME PagingInv, OlderOrders, NEW p \in Users, KillFrames(p)
  PROVE  OlderOrders'
PROOF
<1>1. /\ ftab' = [f \in Ffs |-> IF ftab[f][1] = p THEN NoPage ELSE ftab[f]]
      /\ older' = {fg \in older : ftab[fg[1]][1] # p /\ ftab[fg[2]][1] # p}
  BY DEF KillFrames, Without, PagingInv, Types
<1>2. Taken' = {f \in Taken : ftab[f][1] # p}
  BY <1>1 DEF Taken
<1>3. \A f, g \in Taken' : <<f, g>> \in older' <=> <<f, g>> \in older
  BY <1>1, <1>2
<1>4. older' \subseteq Taken' \X Taken'
  BY <1>1, <1>2 DEF OlderOrders
<1>5. Taken' \subseteq Taken
  BY <1>2
<1> QED BY <1>3, <1>4, <1>5 DEF OlderOrders

-----------------------------------------------------------------------------

(* The count of free FFS frames *)

(* The processes that have not ended. *)
Living == {p \in Users : state[p] # "free"}

(* Each process that ended left available_heap_size at most NFFS too great: a
   page that comes back from the swap space takes a free frame uncounted. *)
HeapCount ==
  /\ heap \in Nat /\ created \in Nat /\ created <= MaxCreate
  /\ IsFiniteSet(Living) /\ Cardinality(Living) <= created
  /\ heap >= Cardinality(FreeFfs)
  /\ heap <= NFFS * (1 + created - Cardinality(Living))

(* Not so many processes are created that the count runs over. *)
CountFits == MaxCreate \in Nat /\ NFFS * (1 + MaxCreate) < WORD

LEMMA FfsFinite ==
  /\ IsFiniteSet(Ffs) /\ Cardinality(Ffs) = NFFS /\ NFFS \in Nat
  /\ \A S \in SUBSET Ffs : /\ IsFiniteSet(S) /\ Cardinality(S) \in Nat
                           /\ Cardinality(S) <= NFFS
PROOF
<1>1. NFFS \in Nat \ {0} /\ 0 \in Int /\ NFFS - 1 \in Int
  BY AreaSizes
<1>2. IsFiniteSet(Ffs) /\ Cardinality(Ffs) = NFFS
  BY <1>1, FS_Interval DEF Ffs
<1> QED BY <1>1, <1>2, FS_Subset, FS_CardinalityType

(* What a step that ends p does to the counter. *)
LEMMA KillCounts ==
  ASSUME CountFits, PagingInv, HeapCount, NEW p \in Users, state[p] # "free", KillFrames(p)
  PROVE  HeapCount'
PROOF
<1> DEFINE own == {f \in Ffs : ftab[f][1] = p}
           k == Cardinality(Living)
<1>1. /\ ftab' = [f \in Ffs |-> IF ftab[f][1] = p THEN NoPage ELSE ftab[f]]
      /\ heap' = (heap + Cardinality(own)) % WORD
      /\ state' = [state EXCEPT ![p] = "free"]
      /\ created' = created
  BY DEF KillFrames, Without, HeapAfterKill, PagingInv, Types
<1>2. Living' = Living \ {p} /\ p \in Living
  BY <1>1 DEF Living, PagingInv, Types
<1>3. /\ IsFiniteSet(Living') /\ k \in Nat /\ Cardinality(Living') = k - 1
      /\ k >= 1
  <2>1. IsFiniteSet(Living)
    BY DEF HeapCount
  <2>2. k \in Nat /\ IsFiniteSet(Living') /\ Cardinality(Living') = k - 1
    BY <2>1, <1>2, FS_RemoveElement, FS_CardinalityType
  <2>3. Cardinality(Living') \in Nat
    BY <2>2, FS_CardinalityType
  <2> QED BY <2>2, <2>3
<1>4. FreeFfs' = FreeFfs \cup own /\ FreeFfs \cap own = {}
  <2>1. \A f \in Ffs : ftab'[f] = NoPage <=> ftab[f] = NoPage \/ f \in own
    BY <1>1
  <2>2. \A f \in own : ftab[f] # NoPage
    BY Numbers DEF NoPage
  <2> QED BY <2>1, <2>2 DEF FreeFfs
<1>5. /\ Cardinality(own) \in Nat /\ Cardinality(own) <= NFFS
      /\ Cardinality(FreeFfs) \in Nat
      /\ Cardinality(FreeFfs') = Cardinality(FreeFfs) + Cardinality(own)
  <2>1. own \in SUBSET Ffs /\ FreeFfs \in SUBSET Ffs
    BY DEF FreeFfs
  <2>2. IsFiniteSet(own) /\ IsFiniteSet(FreeFfs)
    BY <2>1, FfsFinite
  <2>3. Cardinality(own) \in Nat /\ Cardinality(own) <= NFFS /\ Cardinality(FreeFfs) \in Nat
    BY <2>1, FfsFinite
  <2>4. Cardinality(FreeFfs \cup own)
          = Cardinality(FreeFfs) + Cardinality(own) - Cardinality(FreeFfs \cap own)
    BY <2>2, FS_Union
  <2>5. Cardinality(FreeFfs \cap own) = 0
    BY <1>4, FS_EmptySet
  <2> QED BY <1>4, <2>3, <2>4, <2>5
<1> DEFINE n == 1 + created - k
<1>6. /\ heap \in Nat /\ created \in Nat /\ heap <= NFFS * n /\ n \in Nat
      /\ NFFS \in Nat /\ MaxCreate \in Nat /\ created <= MaxCreate
      /\ heap >= Cardinality(FreeFfs) /\ k <= created
      /\ WORD \in Nat /\ NFFS * (1 + MaxCreate) < WORD
  BY <1>3, FfsFinite, AreaSizes DEF HeapCount, CountFits
<1>7. heap + Cardinality(own) <= NFFS * (n + 1)
  <2>1. NFFS * (n + 1) = NFFS * n + NFFS
    BY <1>6
  <2>2. NFFS * n \in Nat
    BY <1>6
  <2> HIDE DEF n, own
  <2> QED BY <1>5, <1>6, <2>1, <2>2
<1>8. heap + Cardinality(own) < WORD
  <2>1. n + 1 <= 1 + MaxCreate /\ n + 1 \in Nat /\ 1 + MaxCreate \in Nat
    BY <1>3, <1>6
  <2>2. \A a, b, c \in Nat : b <= c => a * b <= a * c
    OBVIOUS
  <2>3. NFFS * (n + 1) <= NFFS * (1 + MaxCreate)
    <3> HIDE DEF n
    <3> QED BY <1>6, <2>1, <2>2
  <2>4. NFFS * (n + 1) \in Nat /\ NFFS * (1 + MaxCreate) \in Nat
    <3> HIDE DEF n
    <3> QED BY <1>6
  <2> HIDE DEF n, own
  <2> QED BY <1>5, <1>6, <1>7, <2>3, <2>4
<1>9. heap' = heap + Cardinality(own)
  <2>1. \A m, w \in Nat : m < w => m % w = m
    OBVIOUS
  <2>2. heap + Cardinality(own) \in Nat /\ WORD \in Nat
    <3> HIDE DEF own
    <3> QED BY <1>5, <1>6
  <2> HIDE DEF own
  <2> QED BY <1>1, <1>8, <2>1, <2>2
<1>10. 1 + created' - Cardinality(Living') = n + 1
  BY <1>1, <1>3, <1>6
<1>11. heap' \in Nat /\ heap' >= Cardinality(FreeFfs')
       /\ heap' <= NFFS * (1 + created' - Cardinality(Living'))
  <2> HIDE DEF n, own
  <2> QED BY <1>5, <1>6, <1>7, <1>9, <1>10
<1>12. Cardinality(Living') <= created' /\ created' \in Nat /\ created' <= MaxCreate
  BY <1>1, <1>3, <1>6
<1> QED BY <1>3, <1>11, <1>12 DEF HeapCount

(* A new process begins with no frame. *)
LEMMA VcreateCounts ==
  ASSUME CountFits, PagingInv, HeapCount, NEW p \in Users, Vcreate(p)
  PROVE  HeapCount'
PROOF
<1>1. /\ state[p] = "free" /\ created < MaxCreate
      /\ state' = [state EXCEPT ![p] = "live"] /\ created' = created + 1
      /\ UNCHANGED <<ftab, heap>>
  BY DEF Vcreate, spaceVars
<1>2. Living' = Living \cup {p} /\ p \notin Living
  BY <1>1 DEF Living, PagingInv, Types
<1>3. /\ IsFiniteSet(Living') /\ Cardinality(Living) \in Nat
      /\ Cardinality(Living') = Cardinality(Living) + 1
  BY <1>2, FS_AddElement, FS_CardinalityType DEF HeapCount
<1>4. 1 + created' - Cardinality(Living') = 1 + created - Cardinality(Living)
  BY <1>1, <1>3 DEF HeapCount
<1>5. FreeFfs' = FreeFfs
  BY <1>1 DEF FreeFfs
<1>6. /\ created \in Nat /\ created' \in Nat /\ created' <= MaxCreate
      /\ Cardinality(Living') <= created'
  BY <1>1, <1>3 DEF HeapCount, CountFits
<1> QED BY <1>1, <1>3, <1>4, <1>5, <1>6 DEF HeapCount

(* A frame is counted only after it was found free, unless the count is 0. *)
LEMMA LoadCounts ==
  ASSUME PagingInv, HeapCount, NEW pg \in Slots \ {NoPage}, NEW f \in Ffs, Takes(f),
         ftab' = [ftab EXCEPT ![f] = pg],
         heap' \in {heap, IF heap = 0 THEN heap ELSE heap - 1},
         Living' = Living, created' = created
  PROVE  HeapCount'
PROOF
<1>1. FreeFfs' = FreeFfs \ {f}
  BY DEF FreeFfs, PagingInv, Types
<1>2. IsFiniteSet(FreeFfs) /\ Cardinality(FreeFfs) \in Nat
  BY FfsFinite DEF FreeFfs
<1>3. Cardinality(FreeFfs') = IF f \in FreeFfs THEN Cardinality(FreeFfs) - 1
                                               ELSE Cardinality(FreeFfs)
  BY <1>1, <1>2, FS_RemoveElement
<1>4. f \notin FreeFfs => Cardinality(FreeFfs) = 0
  BY FS_EmptySet DEF Takes, IsFirst
<1>5. heap \in Nat /\ heap >= Cardinality(FreeFfs)
  BY DEF HeapCount
<1>6. heap' \in Nat /\ heap' <= heap /\ heap' >= Cardinality(FreeFfs')
  BY <1>2, <1>3, <1>4, <1>5
<1>7. NFFS * (1 + created - Cardinality(Living)) \in Int
  BY FfsFinite, FS_CardinalityType DEF HeapCount
<1>8. heap' <= NFFS * (1 + created - Cardinality(Living))
  BY <1>5, <1>6, <1>7 DEF HeapCount
<1> QED BY <1>6, <1>8 DEF HeapCount

-----------------------------------------------------------------------------

(* Kinds of steps *)

(* No frame, page or counter changes; vmalloc may add a block. *)
Quiet ==
  /\ UNCHANGED <<pte, dirty, ftab, stab, older, data, heap, lost, created>>
  /\ Living' = Living
  /\ UNCHANGED <<mem, blocks>> \/ \E r \in Requests : Vmalloc(r)

(* A fault of p loads its page v into the frame f. *)
Loads(p, v, f) ==
  /\ state[p] # "free" /\ pte[p][v] = None /\ Takes(f) /\ Load(<<p, v>>, f)
  /\ heap' \in {heap, IF heap = 0 THEN heap ELSE heap - 1}
  /\ Living' = Living
  /\ UNCHANGED <<created, mem, blocks>>

(* What vfree does to frames and contents. *)
FreesBlock(p, b) ==
  /\ VfreeBits(p, b)
  /\ stab' = FreeCopyOf(stab, p, b.start)
  /\ blocks' = [blocks EXCEPT ![p] = @ \ {b}]
  /\ mem' = Forget(p, PagesOf(b))
  /\ UNCHANGED <<state, pte, dirty, ftab, older, heap, created>>

LEMMA QuietFault ==
  ASSUME PagingInv, currpid \in Users, state[currpid] = "live",
         UNCHANGED <<pte, dirty, spaceVars, progVars>>,
         \/ UNCHANGED state
         \/ state' = [state EXCEPT ![currpid] = "segv"]
         \/ state' = [state EXCEPT ![currpid] = "nomem"]
  PROVE  Quiet
PROOF
<1>1. Living' = Living
  BY DEF Living, PagingInv, Types
<1> QED BY <1>1 DEF Quiet, spaceVars, progVars

LEMMA VmallocQuiet ==
  ASSUME NEW r \in Requests, Vmalloc(r)
  PROVE  Quiet
PROOF
<1>1. UNCHANGED <<state, pte, dirty, ftab, stab, older, data, heap, lost, created>>
  BY DEF Vmalloc, spaceVars
<1> QED BY <1>1 DEF Quiet, Living

LEMMA FaultLoads ==
  ASSUME PagingInv, NEW v \in Pages, TableFault(v) \/ PageFault(v)
  PROVE  Quiet \/ \E f \in Ffs : Loads(currpid, v, f)
PROOF
<1>1. /\ currpid \in Users /\ state[currpid] = "live"
      /\ UNCHANGED progVars
  BY DEF TableFault, PageFault, FaultAt, Running
<1>2. pte[currpid][v] = None
  BY <1>1 DEF TableFault, PageFault, PagingInv, PresentHasTable
<1>3. PICK f \in Ffs :
        /\ Takes(f)
        /\ \/ /\ Load(<<currpid, v>>, f) /\ (Count \/ UNCHANGED <<heap, swap>>)
              /\ UNCHANGED state
           \/ /\ Dies(currpid, "nomem") /\ UNCHANGED <<pte, dirty, spaceVars>>
  <2>1. CASE TableFault(v)
    BY <2>1 DEF TableFault
  <2>2. CASE PageFault(v)
    BY <2>2 DEF PageFault
  <2> QED BY <2>1, <2>2
<1>4. CASE Load(<<currpid, v>>, f) /\ (Count \/ UNCHANGED <<heap, swap>>) /\ UNCHANGED state
  <2>1. heap' \in {heap, IF heap = 0 THEN heap ELSE heap - 1}
    BY <1>4 DEF Count
  <2>2. Living' = Living
    BY <1>4 DEF Living
  <2> QED BY <1>1, <1>2, <1>3, <1>4, <2>1, <2>2 DEF Loads, progVars
<1>5. CASE Dies(currpid, "nomem") /\ UNCHANGED <<pte, dirty, spaceVars>>
  BY <1>1, <1>5, QuietFault DEF Dies
<1> QED BY <1>3, <1>4, <1>5

(* What a step may do to frames, counters and contents. *)
LEMMA PagingSteps ==
  ASSUME PagingInv, [Next]_vars
  PROVE  \/ Quiet
         \/ \E p \in Users : Vcreate(p)
         \/ \E p \in Users : state[p] # "free" /\ KillFrames(p)
         \/ \E p \in Users, v \in Pages, f \in Ffs : Loads(p, v, f)
         \/ \E p \in Users : \E b \in blocks[p] : FreesBlock(p, b)
         \/ \E v \in Pages, x \in Vals : Write(v, x) \/ WriteThrough(v, x)
PROOF
<1>1. ASSUME GoesWild \/ UNCHANGED vars PROVE Quiet
  BY <1>1 DEF GoesWild, vars, Quiet, Living, tableVars, spaceVars, progVars
<1>2. CASE \E p \in Users : Vcreate(p) \/ VcreateWild(p) \/ Kill(p)
  BY <1>1, <1>2 DEF VcreateWild, Kill
<1>3. CASE \E q \in Procs : Switch(q) \/ Exit(q)
  <2>1. PICK q \in Procs : Switch(q) \/ Exit(q)
    BY <1>3
  <2>2. CASE Switch(q)
    BY <2>2 DEF Switch, Quiet, Living, tableVars, spaceVars, progVars
  <2>3. CASE Exit(q)
    BY <2>3 DEF Exit, PagingInv, Types
  <2> QED BY <2>1, <2>2, <2>3
<1>4. CASE \E r \in Requests : Vmalloc(r)
  BY <1>4, VmallocQuiet
<1>5. CASE currpid \in Users /\ \E b \in blocks[currpid] : Vfree(b)
  <2>1. PICK b \in blocks[currpid] : Vfree(b)
    BY <1>5
  <2>2. GoesWild \/ FreesBlock(currpid, b)
    BY <2>1 DEF Vfree, FreesBlock
  <2> QED BY <1>1, <1>5, <2>2
<1>6. ASSUME NEW v \in Pages,
             \/ SegmentationFault(v) \/ TableFault(v) \/ TableFaultFails(v)
             \/ TableFaultWild(v) \/ PageFault(v) \/ OwnFault(v)
      PROVE  Quiet \/ \E p \in Users, w \in Pages, f \in Ffs : Loads(p, w, f)
  <2>1. CASE SegmentationFault(v) \/ TableFaultFails(v) \/ OwnFault(v)
    <3>1. /\ currpid \in Users /\ state[currpid] = "live"
          /\ UNCHANGED <<pte, dirty, spaceVars, progVars>>
          /\ \/ UNCHANGED state
             \/ state' = [state EXCEPT ![currpid] = "segv"]
             \/ state' = [state EXCEPT ![currpid] = "nomem"]
      BY <2>1 DEF SegmentationFault, TableFaultFails, OwnFault, FaultAt, Running, Dies,
                  tableVars
    <3> QED BY <3>1, QuietFault
  <2>2. CASE TableFault(v) \/ PageFault(v)
    <3>1. currpid \in Users
      BY <2>2 DEF TableFault, PageFault, FaultAt
    <3> QED BY <2>2, <3>1, FaultLoads
  <2>3. CASE TableFaultWild(v)
    BY <1>1, <2>3 DEF TableFaultWild
  <2> QED BY <1>6, <2>1, <2>2, <2>3
<1>7. CASE \E v \in Pages, x \in Vals : Write(v, x) \/ WriteThrough(v, x)
  BY <1>7
<1>8. CASE EvictionWild
  BY <1>1, <1>8 DEF EvictionWild
<1>9. CASE VcreateFails
  BY <1>9 DEF VcreateFails, Quiet, Living, tableVars, spaceVars, progVars
<1> QED BY <1>1, <1>2, <1>3, <1>4, <1>5, <1>6, <1>7, <1>8, <1>9 DEF Next

LEMMA OrdersKept ==
  ASSUME PagingInv, OlderOrders, [Next]_vars
  PROVE  OlderOrders'
PROOF
<1>1. ASSUME UNCHANGED <<ftab, older>> PROVE OlderOrders'
  BY <1>1 DEF OlderOrders, Taken
<1>2. CASE \E p \in Users, v \in Pages, f \in Ffs : Loads(p, v, f)
  <2>1. PICK p \in Users, v \in Pages, f \in Ffs : Load(<<p, v>>, f)
    BY <1>2 DEF Loads
  <2>2. <<p, v>> \in Slots \ {NoPage}
    BY Numbers DEF Slots, NoPage
  <2> QED BY <2>1, <2>2, LoadOrders
<1> QED BY <1>1, <1>2, KillOrders, PagingSteps
        DEF Quiet, Vcreate, FreesBlock, Write, WriteThrough, spaceVars

LEMMA CountKept ==
  ASSUME PagingInv, CountFits, HeapCount, [Next]_vars
  PROVE  HeapCount'
PROOF
<1>1. ASSUME UNCHANGED <<ftab, heap, created>>, Living' = Living PROVE HeapCount'
  BY <1>1 DEF HeapCount, FreeFfs
<1>2. CASE \E p \in Users, v \in Pages, f \in Ffs : Loads(p, v, f)
  <2>1. PICK p \in Users, v \in Pages, f \in Ffs : Loads(p, v, f)
    BY <1>2
  <2>2. <<p, v>> \in Slots \ {NoPage}
    BY Numbers DEF Slots, NoPage
  <2>3. ftab' = [ftab EXCEPT ![f] = <<p, v>>]
    BY <2>1 DEF Loads, Load
  <2> QED BY <2>1, <2>2, <2>3, LoadCounts DEF Loads
<1>3. CASE \E p \in Users : \E b \in blocks[p] : FreesBlock(p, b)
  BY <1>1, <1>3 DEF FreesBlock, Living
<1>4. CASE \E v \in Pages, x \in Vals : Write(v, x) \/ WriteThrough(v, x)
  BY <1>1, <1>4 DEF Write, WriteThrough, Living
<1>5. CASE Quiet
  BY <1>1, <1>5 DEF Quiet
<1> QED BY <1>2, <1>3, <1>4, <1>5, KillCounts, VcreateCounts, PagingSteps

-----------------------------------------------------------------------------

(* Theorems about frames *)

(* Every fault finds a frame to take: a free one, or the one taken longest ago,
   so that get_phy_fr_num never goes on with a number it did not assign. *)
THEOREM FrameFoundAlways == Spec => []FrameFound
PROOF
<1>1. Init => OlderOrders
  BY DEF Init, OlderOrders, Taken
<1>2. PagingInv /\ OlderOrders /\ [Next]_vars => OlderOrders'
  BY OrdersKept
<1>3. OlderOrders => FrameFound
  BY OrderFindsFrame
<1> QED BY PagingInvariant, <1>1, <1>2, <1>3, PTL DEF Spec

(* available_heap_size is never less than the number of free FFS frames, as long
   as fewer processes are created than let it run over: the handler charges the
   swap space only when no FFS frame is free. *)
THEOREM HeapCountCoversAlways == ASSUME CountFits PROVE Spec => []HeapCountCovers
PROOF
<1>1. Init => HeapCount
  <2> SUFFICES ASSUME Init PROVE HeapCount
    OBVIOUS
  <2>1. Living = {} /\ FreeFfs = Ffs /\ heap = NFFS /\ created = 0
    BY DEF Init, Living, FreeFfs
  <2>2. NFFS * (1 + 0 - 0) = NFFS
    BY FfsFinite
  <2> QED BY <2>1, <2>2, FfsFinite, FS_EmptySet DEF HeapCount, CountFits
<1>2. PagingInv /\ HeapCount /\ [Next]_vars => HeapCount'
  BY CountKept
<1>3. HeapCount => HeapCountCovers
  BY DEF HeapCount, HeapCountCovers
<1> QED BY PagingInvariant, <1>1, <1>2, <1>3, PTL DEF Spec

-----------------------------------------------------------------------------

(* vmalloc *)

(* The states of a pass over the pages 0..last. *)
ScanStates(last) == [flag : BOOLEAN, cnt : Nat, strt : -1..last, stop : -1..last]

LEMMA ScanPageType ==
  ASSUME NEW last \in Nat, NEW s \in ScanStates(last), NEW v \in 0..last,
         NEW vacant \in BOOLEAN, NEW n
  PROVE  ScanPage(s, v, vacant, n) \in ScanStates(last)
PROOF
<1> DEFINE t == IF vacant THEN [s EXCEPT !.flag = TRUE, !.cnt = @ + 1,
                                       !.strt = IF s.flag THEN @ ELSE v]
                ELSE [s EXCEPT !.flag = FALSE, !.cnt = 0]
<1>1. v \in -1..last /\ s.cnt + 1 \in Nat
  BY DEF ScanStates
<1>2. t \in ScanStates(last)
  BY <1>1 DEF ScanStates
<1>3. [t EXCEPT !.stop = v] \in ScanStates(last)
  <2> HIDE DEF t
  <2> QED BY <1>1, <1>2 DEF ScanStates
<1>4. ScanPage(s, v, vacant, n)
        = IF s.stop # -1 THEN s ELSE IF t.cnt = n THEN [t EXCEPT !.stop = v] ELSE t
  BY DEF ScanPage
<1> HIDE DEF t
<1> QED BY <1>2, <1>3, <1>4

(* The search for a block, a function over all pages, is defined. *)
LEMMA ScanRuns ==
  ASSUME NEW last \in Nat, NEW vacant \in [0..last -> BOOLEAN], NEW n
  PROVE  \E g : /\ Scan(vacant, last, n) = g[last] /\ g[-1] = Start
               /\ \A v \in 0..last : g[v] = ScanPage(g[v - 1], v, vacant[v], n)
PROOF
<1> DEFINE At(g, v) == IF v = -1 THEN Start ELSE ScanPage(g[v - 1], v, vacant[v], n)
           Upto(g, m) == g = [v \in -1..m |-> At(g, v)]
           g0 == CHOOSE g : Upto(g, last)
           Bad == {m \in 0..(last + 1) : ~\E g : Upto(g, m - 1)}
<1>1. Scan(vacant, last, n) = g0[last]
  BY DEF Scan
<1>2. Bad = {}
  <2> SUFFICES ASSUME Bad # {} PROVE FALSE
    OBVIOUS
  <2>1. PICK m \in Bad : \A k \in Bad : m <= k
    <3>1. Bad \in SUBSET Nat
      OBVIOUS
    <3> HIDE DEF Bad
    <3> QED BY <3>1, FirstExists DEF IsFirst
  <2>2. m \in 0..(last + 1) /\ ~\E g : Upto(g, m - 1)
    OBVIOUS
  <2>3. m # 0
    <3>1. Upto([v \in -1..-1 |-> Start], 0 - 1)
      OBVIOUS
    <3> QED BY <2>2, <3>1
  <2>4. PICK g : Upto(g, m - 2)
    <3>1. m - 1 \in 0..(last + 1) /\ ~(m <= m - 1) /\ (m - 1) - 1 = m - 2
      BY <2>2, <2>3
    <3>2. m - 1 \notin Bad
      <4> HIDE DEF Bad
      <4> QED BY <2>1, <3>1
    <3>3. \E g : Upto(g, (m - 1) - 1)
      <4> HIDE DEF Upto
      <4> QED BY <3>1, <3>2
    <3> QED BY <3>1, <3>3
  <2> DEFINE h == [v \in -1..(m - 1) |-> IF v = m - 1 THEN At(g, v) ELSE g[v]]
  <2>5. ASSUME NEW v \in -1..(m - 1) PROVE h[v] = At(h, v)
    <3>1. m \in Nat /\ v \in Int /\ -1 <= v /\ v <= m - 1 /\ m >= 1
      BY <2>2, <2>3
    <3>2. v # -1 => h[v - 1] = g[v - 1]
      BY <3>1
    <3>3. At(h, v) = At(g, v)
      <4> HIDE DEF h
      <4> QED BY <3>2
    <3>4. v # m - 1 => g[v] = At(g, v)
      <4>1. v # m - 1 => v \in -1..(m - 2)
        BY <3>1
      <4> HIDE DEF At
      <4> QED BY <2>4, <4>1
    <3> HIDE DEF At
    <3> QED BY <3>3, <3>4
  <2>6. Upto(h, m - 1)
    <3>1. h = [v \in -1..(m - 1) |-> h[v]]
      <4> HIDE DEF At
      <4> QED OBVIOUS
    <3> HIDE DEF h, At
    <3> QED BY <2>5, <3>1
  <2> HIDE DEF h, Upto
  <2> QED BY <2>2, <2>6
<1>3. Upto(g0, last)
  <2>1. last + 1 \in 0..(last + 1) /\ (last + 1) - 1 = last
    OBVIOUS
  <2>2. \E g : Upto(g, (last + 1) - 1)
    <3> HIDE DEF Upto
    <3> QED BY <1>2, <2>1
  <2>3. \E g : Upto(g, last)
    <3> HIDE DEF Upto
    <3> QED BY <2>1, <2>2
  <2> HIDE DEF Upto
  <2> QED BY <2>3
<1>4. \A v \in -1..last : g0[v] = At(g0, v)
  <2> HIDE DEF At, g0
  <2> QED BY <1>3
<1>5. -1 \in -1..last /\ \A v \in 0..last : v \in -1..last /\ v # -1
  OBVIOUS
<1> HIDE DEF g0
<1>6. g0[-1] = Start /\ \A v \in 0..last : g0[v] = ScanPage(g0[v - 1], v, vacant[v], n)
  BY <1>4, <1>5
<1> QED BY <1>1, <1>6

(* It starts a block at a page. *)
LEMMA ScanFinds ==
  ASSUME NEW last \in Nat, NEW vacant \in [0..last -> BOOLEAN], NEW n
  PROVE  Scan(vacant, last, n).strt \in -1..last
PROOF
<1>1. PICK g0 : /\ Scan(vacant, last, n) = g0[last] /\ g0[-1] = Start
               /\ \A v \in 0..last : g0[v] = ScanPage(g0[v - 1], v, vacant[v], n)
  BY ScanRuns
<1> DEFINE Wrong == {m \in 0..(last + 1) : g0[m - 1] \notin ScanStates(last)}
<1>5. Wrong = {}
  <2> SUFFICES ASSUME Wrong # {} PROVE FALSE
    OBVIOUS
  <2>1. PICK m \in Wrong : \A k \in Wrong : m <= k
    <3>1. Wrong \in SUBSET Nat
      OBVIOUS
    <3> HIDE DEF Wrong
    <3> QED BY <3>1, FirstExists DEF IsFirst
  <2>2. m \in 0..(last + 1) /\ m - 1 \in -1..last /\ g0[m - 1] \notin ScanStates(last)
    OBVIOUS
  <2>4. CASE m = 0
    <3>1. g0[m - 1] = Start
      BY <1>1, <2>4
    <3>2. Start \in ScanStates(last)
      BY DEF Start, ScanStates
    <3> QED BY <2>2, <3>1, <3>2
  <2>5. CASE m # 0
    <3>1. /\ m - 1 \in 0..last /\ m - 1 # -1 /\ m - 1 \in 0..(last + 1)
          /\ ~(m <= m - 1)
      BY <2>2, <2>5
    <3>2. m - 1 \notin Wrong
      <4> HIDE DEF Wrong
      <4> QED BY <2>1, <3>1
    <3>3. g0[(m - 1) - 1] \in ScanStates(last)
      BY <3>1, <3>2
    <3>4. g0[m - 1] = ScanPage(g0[(m - 1) - 1], m - 1, vacant[m - 1], n)
      BY <1>1, <3>1
    <3> QED BY <2>2, <3>1, <3>3, <3>4, ScanPageType
  <2> QED BY <2>4, <2>5
<1>6. g0[last] \in ScanStates(last)
  <2>1. last + 1 \in 0..(last + 1) /\ (last + 1) - 1 = last
    OBVIOUS
  <2> QED BY <1>5, <2>1
<1> QED BY <1>1, <1>6 DEF ScanStates

(* The programs ask for some bytes: vmalloc's search for none takes what it
   happens to find, and vfree has no page to return for it. *)
SomeBytes == \A r \in Requests : r.full \in Nat /\ r.rest \in {0, 1} /\ r.full + r.rest > 0

(* The pages of a block allocated are forgotten: what they held is gone. *)
LEMMA VmallocForgets ==
  ASSUME SomeBytes, NEW r \in Requests, Vmalloc(r)
  PROVE  \/ UNCHANGED <<mem, blocks>>
         \/ /\ currpid \in Users
            /\ \E V \in SUBSET Pages : mem' = Forget(currpid, V)
            /\ \E b \in BlockRecords : /\ b.start \in PagesOf(b)
                                      /\ blocks' = [blocks EXCEPT ![currpid] = @ \cup {b}]
PROOF
<1> DEFINE p == currpid
           n == r.full + r.rest
           last == 3 * T * E - 1
           avail == [v \in Pages |-> Region(v) \in bits[xpt[p][Table(v) % T]][Entry(v)]]
           found == Scan(avail, last, n)
<1>1. /\ p \in Users
      /\ \/ UNCHANGED <<blocks, mem>>
         \/ /\ ~Fails(found, n)
            /\ blocks' = [blocks EXCEPT ![p] = @ \cup
                 {[start |-> found.strt, full |-> r.full, rest |-> r.rest]}]
            /\ mem' = Forget(p, Block(found))
  BY DEF Vmalloc, spaceVars
<1>2. ASSUME ~Fails(found, n),
             blocks' = [blocks EXCEPT ![p] = @ \cup
                 {[start |-> found.strt, full |-> r.full, rest |-> r.rest]}],
             mem' = Forget(p, Block(found))
      PROVE  /\ \E V \in SUBSET Pages : mem' = Forget(p, V)
             /\ \E b \in BlockRecords : /\ b.start \in PagesOf(b)
                                       /\ blocks' = [blocks EXCEPT ![p] = @ \cup {b}]
  <2>1. last \in Nat /\ Pages = 0..last
    <3>1. T \in Nat /\ E \in Nat /\ T >= 1 /\ E >= 1
      BY AreaSizes
    <3>2. T * E \in Nat /\ T * E >= 1
      <4>1. \A a, b \in Nat : a >= 1 /\ b >= 1 => a * b \in Nat /\ a * b >= 1
        OBVIOUS
      <4> QED BY <3>1, <4>1
    <3>3. 3 * T * E = 3 * (T * E)
      BY <3>1
    <3> QED BY <3>2, <3>3 DEF Pages
  <2>2. avail \in [0..last -> BOOLEAN]
    BY <2>1
  <2>3. found.strt \in -1..last
    <3> HIDE DEF avail, last, n
    <3> QED BY <2>1, <2>2, ScanFinds
  <2>4. found.strt \in Pages
    <3>1. found.strt # -1
      <4> HIDE DEF found
      <4> QED BY <1>2 DEF Fails
    <3> HIDE DEF found, last
    <3> QED BY <2>1, <2>3, <3>1
  <2> DEFINE b == [start |-> found.strt, full |-> r.full, rest |-> r.rest]
  <2>5. b \in BlockRecords /\ b.start \in Int /\ b.full + b.rest \in Nat /\ b.full + b.rest > 0
    <3>1. r.full \in Nat /\ r.rest \in {0, 1} /\ r.full + r.rest > 0
      BY DEF SomeBytes
    <3>2. found.strt \in Int
      <4> HIDE DEF found, last
      <4> QED BY <2>3, <2>1
    <3> HIDE DEF found
    <3> QED BY <2>4, <3>1, <3>2 DEF BlockRecords
  <2>6. b.start \in PagesOf(b)
    <3> HIDE DEF b
    <3>1. b.start + b.full + b.rest - 1 >= b.start
      BY <2>5 DEF BlockRecords
    <3> QED BY <2>5, <3>1 DEF PagesOf, BlockRecords
  <2>7. Forget(p, Block(found)) = Forget(p, Block(found) \cap Pages)
    <3> HIDE DEF found
    <3> QED BY DEF Forget
  <2> DEFINE V == Block(found) \cap Pages
  <2>8. V \in SUBSET Pages /\ mem' = Forget(p, V) /\ blocks' = [blocks EXCEPT ![p] = @ \cup {b}]
    <3> HIDE DEF found
    <3> QED BY <1>2, <2>7
  <2> HIDE DEF b, V, p
  <2> QED BY <2>5, <2>6, <2>8
<1> HIDE DEF found
<1> QED BY <1>1, <1>2

-----------------------------------------------------------------------------

(* The contents of the heaps *)

(* What a process wrote last is in the frame of the page or, if it is not
   present, in its copy. *)
Kept ==
  \A p \in Users, v \in Pages : mem[p][v] # Unknown =>
    IF pte[p][v] # None THEN data[pte[p][v]] = mem[p][v]
    ELSE \E s \in Swap : stab[s] = <<p, v>> /\ data[s] = mem[p][v]

(* A clean page and its copy are the same. *)
Fresh ==
  \A p \in Users, v \in Pages, s \in Swap :
    pte[p][v] # None /\ v \notin dirty[p] /\ stab[s] = <<p, v>> => data[s] = data[pte[p][v]]

Contents ==
  /\ dirty \in [Users -> SUBSET Pages]
  /\ data \in [Frames -> Vals \cup {Junk}]
  /\ mem \in [Users -> [Pages -> Vals \cup {Unknown}]]
  /\ blocks \in [Users -> SUBSET BlockRecords]
  /\ \A p \in Users : \A b \in blocks[p] : b.start \in PagesOf(b)
  /\ lost \/ (Kept /\ Fresh)

(* The search of the swap space finds the one copy. *)
LEMMA TheCopy ==
  ASSUME PagingInv, NEW pg \in Slots \ {NoPage}, NEW s \in Swap, stab[s] = pg
  PROVE  InSwap(pg) /\ (CHOOSE t \in Copies(pg) : TRUE) = s
PROOF
<1>1. Copies(pg) = {s}
  BY DEF PagingInv, OneCopy, Copies
<1> QED BY <1>1 DEF InSwap

LEMMA PageIsSlot ==
  ASSUME NEW p \in Users, NEW v \in Pages
  PROVE  <<p, v>> \in Slots \ {NoPage}
PROOF BY Numbers DEF Slots, NoPage

(* The invariant says what the properties of the model say. *)
LEMMA ContentsSay ==
  ASSUME PagingInv, Contents
  PROVE  ReadsBack /\ SwapCopyFresh
PROOF
<1>1. ASSUME ~lost, NEW p \in Users, NEW v \in Pages, mem[p][v] # Unknown
      PROVE  Stored(p, v) = mem[p][v]
  <2>1. CASE pte[p][v] # None
    BY <1>1, <2>1 DEF Contents, Kept, Stored
  <2>2. CASE pte[p][v] = None
    <3>1. PICK s \in Swap : stab[s] = <<p, v>> /\ data[s] = mem[p][v]
      BY <1>1, <2>2 DEF Contents, Kept
    <3> QED BY <2>2, <3>1, TheCopy, PageIsSlot DEF Stored
  <2> QED BY <2>1, <2>2
<1>2. ASSUME ~lost, NEW p \in Users, NEW v \in Pages, pte[p][v] # None, v \notin dirty[p]
      PROVE  \A s \in Copies(<<p, v>>) : data[s] = data[pte[p][v]]
  BY <1>2 DEF Contents, Fresh, Copies
<1> QED BY <1>1, <1>2 DEF ReadsBack, SwapCopyFresh

(* What loading a page into f, which nothing else is lost by, does to the
   contents of the frames. *)
LEMMA LoadMoves ==
  ASSUME PagingInv, Contents, NEW p \in Users, NEW v \in Pages, pte[p][v] = None,
         NEW f \in Ffs, Load(<<p, v>>, f), ~lost'
  PROVE  /\ ~lost
         /\ \A g \in Ffs \ {f} : data'[g] = data[g]
         /\ \A s \in Swap : stab[s] \notin {NoPage, ftab[f]} =>
              stab'[s] = stab[s] /\ data'[s] = data[s]
         /\ \A s \in Swap : stab'[s] \notin {NoPage, ftab[f]} => stab'[s] = stab[s]
         /\ \A s \in Swap : stab[s] = <<p, v>> => data'[f] = data[s]
         /\ ftab[f] # NoPage =>
              /\ \E s \in Swap : stab'[s] = ftab[f]
              /\ \A s \in Swap : stab'[s] = ftab[f] => data'[s] = data[f]
PROOF
<1> DEFINE pg == <<p, v>>
           opg == ftab[f]
<1>1. /\ Ffs \cap Swap = {} /\ Frames = Ffs \cup Swap
      /\ data \in [Frames -> Vals \cup {Junk}] /\ stab \in [Swap -> Slots]
      /\ opg \in Slots /\ OneCopy
  BY AreaSizes DEF Ffs, Swap, Frames, Contents, PagingInv, Types
<1>2. pg \in Slots \ {NoPage} /\ pg # opg
  <2>1. pte[p][v] # f
    BY Numbers
  <2> QED BY <2>1, PageIsSlot DEF PagingInv, TablesAgree
<1>3. ASSUME NEW d \in [Frames -> Vals \cup {Junk}]
      PROVE  /\ \A g \in Frames \ {f} : ReadIn(d, pg, f)[g] = d[g]
             /\ \A s \in Swap : stab[s] = pg => ReadIn(d, pg, f)[f] = d[s]
  <2>1. \A g \in Frames \ {f} : ReadIn(d, pg, f)[g] = d[g]
    BY DEF ReadIn
  <2>2. ASSUME NEW s \in Swap, stab[s] = pg PROVE ReadIn(d, pg, f)[f] = d[s]
    <3>1. InSwap(pg) /\ (CHOOSE t \in Copies(pg) : TRUE) = s
      BY <1>2, <2>2, TheCopy
    <3>2. f \in Frames
      BY <1>1
    <3> QED BY <3>1, <3>2 DEF ReadIn
  <2> QED BY <2>1, <2>2
<1>4. CASE /\ ~MustWriteOut(f) /\ data' = ReadIn(data, pg, f) /\ UNCHANGED <<stab, lost>>
  <2>1. \A g \in Frames \ {f} : data'[g] = data[g]
    BY <1>1, <1>3, <1>4
  <2>2. \A s \in Swap : stab[s] = pg => data'[f] = data[s]
    BY <1>1, <1>3, <1>4
  <2>3. ASSUME opg # NoPage
        PROVE  /\ \E s \in Swap : stab'[s] = opg
               /\ \A s \in Swap : stab'[s] = opg => data'[s] = data[f]
    <3>1. InSwap(opg) /\ ~Dirty(opg)
      BY <1>4, <2>3 DEF MustWriteOut
    <3>2. PICK s \in Swap : stab[s] = opg
      BY <3>1 DEF InSwap, Copies
    <3>3. PICK q \in Users, w \in Pages : opg = <<q, w>>
      BY <1>1, <2>3 DEF Slots
    <3>4. pte[q][w] = f /\ w \notin dirty[q]
      BY <3>1, <3>3 DEF PagingInv, TablesAgree, Dirty
    <3>5. \A t \in Swap : stab[t] = opg => data[t] = data[f]
      BY <1>4, <3>3, <3>4, Numbers DEF Contents, Fresh
    <3>6. \A t \in Swap : data'[t] = data[t]
      BY <1>1, <2>1
    <3> QED BY <1>4, <3>2, <3>5, <3>6
  <2> QED BY <1>1, <1>4, <2>1, <2>2, <2>3
<1>5. ASSUME MustWriteOut(f), NEW s \in Swap,
             IF InSwap(opg) THEN s \in Copies(opg) ELSE IsFirst(s, FreeSwap),
             stab' = [stab EXCEPT ![s] = opg],
             data' = ReadIn([data EXCEPT ![s] = data[f]], pg, f),
             UNCHANGED lost
      PROVE  /\ ~lost
             /\ \A g \in Ffs \ {f} : data'[g] = data[g]
             /\ \A t \in Swap : stab[t] \notin {NoPage, opg} =>
                  stab'[t] = stab[t] /\ data'[t] = data[t]
             /\ \A t \in Swap : stab'[t] \notin {NoPage, opg} => stab'[t] = stab[t]
             /\ \A t \in Swap : stab[t] = pg => data'[f] = data[t]
             /\ \E t \in Swap : stab'[t] = opg
             /\ \A t \in Swap : stab'[t] = opg => data'[t] = data[f]
  <2> DEFINE d == [data EXCEPT ![s] = data[f]]
  <2>1. d \in [Frames -> Vals \cup {Junk}] /\ \A g \in Frames : d[g] = IF g = s THEN data[f] ELSE data[g]
    BY <1>1
  <2>2. /\ \A g \in Frames \ {f} : data'[g] = d[g]
        /\ \A t \in Swap : stab[t] = pg => data'[f] = d[t]
    <3> HIDE DEF d, pg
    <3> QED BY <1>3, <1>5, <2>1 DEF d
  <2>3. opg # NoPage
    BY <1>5 DEF MustWriteOut
  <2>4. stab[s] \in {NoPage, opg}
    BY <1>5 DEF Copies, IsFirst, FreeSwap
  <2>5. \A t \in Swap : stab[t] = opg => t = s
    <3>1. CASE InSwap(opg)
      BY <1>1, <1>5, <2>3, <3>1 DEF OneCopy, Copies
    <3>2. CASE ~InSwap(opg)
      BY <3>2 DEF InSwap, Copies
    <3> QED BY <3>1, <3>2
  <2>6. \A t \in Swap : stab'[t] = IF t = s THEN opg ELSE stab[t]
    BY <1>1, <1>5
  <2>7. s # f /\ \A t \in Swap : t \in Frames \ {f}
    BY <1>1
  <2> HIDE DEF d, opg, pg
  <2>8. \A t \in Swap : stab'[t] = opg => data'[t] = data[f]
    BY <2>1, <2>2, <2>5, <2>6, <2>7
  <2>9. \A t \in Swap : stab[t] \notin {NoPage, opg} => stab'[t] = stab[t] /\ data'[t] = data[t]
    BY <2>1, <2>2, <2>4, <2>6, <2>7
  <2>10. \A g \in Ffs \ {f} : data'[g] = data[g]
    BY <1>1, <2>1, <2>2
  <2>11. \A t \in Swap : stab[t] = pg => data'[f] = data[t]
    BY <1>2, <2>1, <2>2, <2>4, <2>7
  <2> QED BY ZenonT(30), <1>5, <2>6, <2>8, <2>9, <2>10, <2>11
<1>6. CASE lost' = TRUE
  BY <1>6
<1> QED BY <1>4, <1>5, <1>6 DEF Load

LEMMA LoadKeepsContents ==
  ASSUME PagingInv, Contents, NEW p \in Users, NEW v \in Pages, NEW f \in Ffs, Loads(p, v, f)
  PROVE  Contents'
PROOF
<1> DEFINE pg == <<p, v>>
           opg == ftab[f]
<1>1. /\ pte[p][v] = None /\ Load(pg, f) /\ UNCHANGED <<mem, blocks>>
      /\ dirty' = [q \in Users |-> {w \in dirty[q] : <<q, w>> \notin {pg, opg}}]
      /\ pte' = [q \in Users |-> [w \in Pages |->
                   IF <<q, w>> = pg THEN f ELSE IF <<q, w>> = opg THEN None ELSE pte[q][w]]]
  BY DEF Loads, Load, Mapping
<1>2. /\ dirty \in [Users -> SUBSET Pages]
      /\ data \in [Frames -> Vals \cup {Junk}]
      /\ TablesAgree /\ stab \in [Swap -> Slots]
  BY DEF Contents, PagingInv, Types
<1>3. dirty' \in [Users -> SUBSET Pages]
  BY <1>1, <1>2
<1>4. data' \in [Frames -> Vals \cup {Junk}]
  <2>1. ASSUME NEW d \in [Frames -> Vals \cup {Junk}]
        PROVE  ReadIn(d, pg, f) \in [Frames -> Vals \cup {Junk}]
    <3>1. CASE InSwap(pg)
      <4>1. (CHOOSE s \in Copies(pg) : TRUE) \in Frames
        BY <3>1 DEF InSwap, Copies, Frames
      <4> QED BY <3>1, <4>1 DEF ReadIn
    <3>2. CASE ~InSwap(pg)
      BY <3>2 DEF ReadIn
    <3> QED BY <3>1, <3>2
  <2>2. \A g \in Frames : [data EXCEPT ![g] = data[f]] \in [Frames -> Vals \cup {Junk}]
    BY <1>2 DEF Frames
  <2>3. \E d \in [Frames -> Vals \cup {Junk}] : data' = ReadIn(d, pg, f)
    <3>1. \/ data' = ReadIn(data, pg, f)
          \/ \E g \in Frames : data' = ReadIn([data EXCEPT ![g] = data[f]], pg, f)
      BY <1>1 DEF Load, Frames
    <3> QED BY <1>2, <2>2, <3>1
  <2> QED BY <2>1, <2>3
<1>5. ASSUME ~lost' PROVE Kept' /\ Fresh'
  <2> USE PageIsSlot
  <2>1. /\ ~lost
        /\ \A g \in Ffs \ {f} : data'[g] = data[g]
        /\ \A s \in Swap : stab[s] \notin {NoPage, opg} =>
             stab'[s] = stab[s] /\ data'[s] = data[s]
        /\ \A s \in Swap : stab'[s] \notin {NoPage, opg} => stab'[s] = stab[s]
        /\ \A s \in Swap : stab[s] = pg => data'[f] = data[s]
        /\ opg # NoPage =>
             /\ \E s \in Swap : stab'[s] = opg
             /\ \A s \in Swap : stab'[s] = opg => data'[s] = data[f]
    BY <1>1, <1>5, LoadMoves
  <2>2. Kept /\ Fresh
    BY <2>1 DEF Contents
  <2>3. pg # opg
    <3>1. pte[p][v] # f
      BY <1>1, Numbers
    <3> QED BY <1>2, <3>1 DEF TablesAgree
  <2>4. ASSUME NEW q \in Users, NEW w \in Pages
        PROVE  /\ pte'[q][w] = IF <<q, w>> = pg THEN f
                               ELSE IF <<q, w>> = opg THEN None ELSE pte[q][w]
               /\ pte[q][w] \in Ffs \cup {None}
               /\ pte[q][w] = f <=> opg = <<q, w>>
               /\ <<q, w>> # NoPage
               /\ w \notin dirty'[q] => w \notin dirty[q] \/ <<q, w>> \in {pg, opg}
    BY <1>1, <1>2, PageIsSlot DEF TablesAgree, PagingInv, Types
  <2>5. ASSUME NEW q \in Users, NEW w \in Pages, mem[q][w] # Unknown
        PROVE  IF pte'[q][w] # None THEN data'[pte'[q][w]] = mem[q][w]
               ELSE \E s \in Swap : stab'[s] = <<q, w>> /\ data'[s] = mem[q][w]
    <3>0. IF pte[q][w] # None THEN data[pte[q][w]] = mem[q][w]
          ELSE \E s \in Swap : stab[s] = <<q, w>> /\ data[s] = mem[q][w]
      BY <2>2, <2>5 DEF Kept
    <3> HIDE DEF opg, pg
    <3>1. CASE <<q, w>> = pg
      <4>1. q = p /\ w = v
        BY <3>1 DEF pg
      <4>2. PICK s \in Swap : stab[s] = pg /\ data[s] = mem[q][w]
        BY <1>1, <3>0, <3>1, <4>1
      <4> QED BY <2>1, <2>4, <3>1, <4>2, Numbers
    <3>2. CASE <<q, w>> # pg /\ <<q, w>> = opg
      <4>1. data[f] = mem[q][w] /\ pte'[q][w] = None /\ opg # NoPage
        BY <2>4, <3>0, <3>2, Numbers
      <4> QED BY <2>1, <3>2, <4>1
    <3>3. CASE <<q, w>> # pg /\ <<q, w>> # opg
      <4>1. pte'[q][w] = pte[q][w] /\ pte[q][w] \in (Ffs \ {f}) \cup {None}
        BY <2>4, <3>3
      <4>2. CASE pte[q][w] = None
        <5>1. PICK s \in Swap : stab[s] = <<q, w>> /\ data[s] = mem[q][w]
          BY <3>0, <4>2
        <5>2. stab'[s] = <<q, w>> /\ data'[s] = mem[q][w]
          BY <2>1, <2>4, <3>3, <5>1
        <5> QED BY <4>1, <4>2, <5>2
      <4>3. CASE pte[q][w] # None
        BY <2>1, <3>0, <4>1, <4>3
      <4> QED BY <4>2, <4>3
    <3> QED BY <3>1, <3>2, <3>3
  <2>6. ASSUME NEW q \in Users, NEW w \in Pages, NEW s \in Swap,
               pte'[q][w] # None, w \notin dirty'[q], stab'[s] = <<q, w>>
        PROVE  data'[s] = data'[pte'[q][w]]
    <3> HIDE DEF opg, pg
    <3>1. <<q, w>> # opg /\ stab[s] = <<q, w>> /\ data'[s] = data[s]
      <4>1. <<q, w>> # opg
        BY <2>3, <2>4, <2>6
      <4>2. stab'[s] \notin {NoPage, opg}
        BY <2>4, <2>6, <4>1
      <4>3. stab[s] = <<q, w>>
        BY <2>1, <2>6, <4>2
      <4>4. stab[s] \notin {NoPage, opg}
        BY <2>6, <4>2, <4>3
      <4>5. data'[s] = data[s]
        BY <2>1, <4>4
      <4> QED BY <4>1, <4>3, <4>5
    <3>2. CASE <<q, w>> = pg
      BY <2>1, <2>4, <3>1, <3>2
    <3>3. CASE <<q, w>> # pg
      <4>1. pte'[q][w] = pte[q][w] /\ pte[q][w] \in Ffs \ {f} /\ w \notin dirty[q]
        BY <2>4, <2>6, <3>1, <3>3
      <4>2. data[s] = data[pte[q][w]]
        BY <2>2, <3>1, <4>1, Numbers DEF Fresh
      <4> QED BY <2>1, <3>1, <4>1, <4>2
    <3> QED BY <3>2, <3>3
  <2>7. Kept'
    <3> HIDE DEF pg, opg
    <3>1. mem' = mem
      BY <1>1
    <3> QED BY <2>5, <3>1 DEF Kept
  <2>8. Fresh'
    <3> HIDE DEF pg, opg
    <3> QED BY <2>6 DEF Fresh
  <2> QED BY <2>7, <2>8
<1> HIDE DEF pg, opg
<1> QED BY <1>1, <1>3, <1>4, <1>5 DEF Contents

(* A write through the null process's directory is one of those `lost' notes. *)
LEMMA WriteThroughKeepsContents ==
  ASSUME PagingInv, Contents, NEW v \in Pages, NEW x \in Vals, WriteThrough(v, x)
  PROVE  Contents'
PROOF
<1>1. /\ v \in Frames /\ currpid \in Users /\ lost' = TRUE
      /\ data' = [data EXCEPT ![v] = x] /\ mem' = [mem EXCEPT ![currpid][v] = x]
      /\ UNCHANGED <<dirty, blocks>>
  BY DEF WriteThrough, tableVars
<1>2. /\ data' \in [Frames -> Vals \cup {Junk}]
      /\ mem' \in [Users -> [Pages -> Vals \cup {Unknown}]]
  BY <1>1 DEF Contents
<1> QED BY <1>1, <1>2 DEF Contents

LEMMA WriteKeepsContents ==
  ASSUME PagingInv, Contents, NEW v \in Pages, NEW x \in Vals, Write(v, x)
  PROVE  Contents'
PROOF
<1>1. PICK q \in Users :
        /\ pdbr[q] = cr3 /\ pte[q][v] # None
        /\ data' = [data EXCEPT ![pte[q][v]] = x]
        /\ dirty' = [dirty EXCEPT ![q] = @ \cup {v}]
  BY DEF Write
<1>2. q = currpid
  BY <1>1 DEF PagingInv, OthersEmpty
<1>3. /\ mem' = [mem EXCEPT ![q][v] = x]
      /\ UNCHANGED <<pte, stab, lost, blocks>>
  BY <1>2 DEF Write
<1>4. /\ dirty \in [Users -> SUBSET Pages]
      /\ data \in [Frames -> Vals \cup {Junk}]
      /\ mem \in [Users -> [Pages -> Vals \cup {Unknown}]]
      /\ pte \in [Users -> [Pages -> Ffs \cup {None}]]
      /\ TablesAgree
  BY DEF Contents, PagingInv, Types
<1>5. /\ dirty' \in [Users -> SUBSET Pages]
      /\ data' \in [Frames -> Vals \cup {Junk}]
      /\ mem' \in [Users -> [Pages -> Vals \cup {Unknown}]]
  BY <1>1, <1>3, <1>4
<1>6. /\ pte[q][v] \in Ffs /\ Ffs \cap Swap = {} /\ Frames = Ffs \cup Swap
  BY <1>1, <1>4, AreaSizes DEF Ffs, Swap, Frames
<1>7. /\ \A s \in Swap : data'[s] = data[s]
      /\ data'[pte[q][v]] = x
      /\ \A g \in Ffs : g # pte[q][v] => data'[g] = data[g]
  BY <1>1, <1>4, <1>6
<1>8. ASSUME NEW r \in Users, NEW w \in Pages, <<r, w>> # <<q, v>>, pte[r][w] # None
      PROVE  data'[pte[r][w]] = data[pte[r][w]]
  <2>1. pte[r][w] \in Ffs /\ pte[r][w] # pte[q][v]
    BY <1>4, <1>6, <1>8 DEF TablesAgree
  <2> QED BY <1>7, <2>1
<1>9. \A r \in Users, w \in Pages : <<r, w>> # <<q, v>> =>
        mem'[r][w] = mem[r][w] /\ (w \in dirty'[r] <=> w \in dirty[r])
  BY <1>1, <1>3, <1>4
<1>10. mem'[q][v] = x /\ v \in dirty'[q]
  BY <1>1, <1>3, <1>4
<1>11. ASSUME ~lost PROVE Kept' /\ Fresh'
  <2>1. Kept /\ Fresh
    BY <1>11 DEF Contents
  <2>2. ASSUME NEW r \in Users, NEW w \in Pages, mem'[r][w] # Unknown
        PROVE  IF pte[r][w] # None THEN data'[pte[r][w]] = mem'[r][w]
               ELSE \E s \in Swap : stab[s] = <<r, w>> /\ data'[s] = mem'[r][w]
    <3>1. CASE <<r, w>> = <<q, v>>
      BY <1>1, <1>7, <1>10, <3>1
    <3>2. CASE <<r, w>> # <<q, v>>
      <4>1. mem'[r][w] = mem[r][w]
        BY <1>9, <3>2
      <4>2. IF pte[r][w] # None THEN data[pte[r][w]] = mem[r][w]
            ELSE \E s \in Swap : stab[s] = <<r, w>> /\ data[s] = mem[r][w]
        BY <2>1, <2>2, <4>1 DEF Kept
      <4>3. CASE pte[r][w] # None
        BY <1>8, <3>2, <4>1, <4>2, <4>3
      <4>4. CASE pte[r][w] = None
        BY <1>7, <4>1, <4>2, <4>4
      <4> QED BY <4>3, <4>4
    <3> QED BY <3>1, <3>2
  <2>3. ASSUME NEW r \in Users, NEW w \in Pages, NEW s \in Swap,
               pte[r][w] # None, w \notin dirty'[r], stab[s] = <<r, w>>
        PROVE  data'[s] = data'[pte[r][w]]
    <3>1. <<r, w>> # <<q, v>>
      BY <1>10, <2>3
    <3> QED BY <1>7, <1>8, <1>9, <2>1, <2>3, <3>1 DEF Fresh
  <2> QED BY ZenonT(30), <1>3, <2>2, <2>3 DEF Kept, Fresh
<1> QED BY <1>3, <1>5, <1>11 DEF Contents

LEMMA KillKeepsContents ==
  ASSUME PagingInv, Contents, NEW p \in Users, KillFrames(p)
  PROVE  Contents'
PROOF
<1>1. /\ stab' = [s \in Swap |-> IF stab[s][1] = p THEN NoPage ELSE stab[s]]
      /\ pte' = [pte EXCEPT ![p] = [v \in Pages |-> None]]
      /\ dirty' = [dirty EXCEPT ![p] = {}]
      /\ blocks' = [blocks EXCEPT ![p] = {}]
      /\ mem' = [mem EXCEPT ![p] = [v \in Pages |-> Unknown]]
      /\ UNCHANGED <<data, lost>>
  BY DEF KillFrames, Without, PagingInv, Types
<1>2. /\ dirty \in [Users -> SUBSET Pages]
      /\ mem \in [Users -> [Pages -> Vals \cup {Unknown}]]
      /\ blocks \in [Users -> SUBSET BlockRecords]
      /\ pte \in [Users -> [Pages -> Ffs \cup {None}]]
      /\ \A q \in Users : \A b \in blocks[q] : b.start \in PagesOf(b)
  BY DEF Contents, PagingInv, Types
<1>3. /\ dirty' \in [Users -> SUBSET Pages]
      /\ mem' \in [Users -> [Pages -> Vals \cup {Unknown}]]
      /\ blocks' \in [Users -> SUBSET BlockRecords]
      /\ \A q \in Users : \A b \in blocks'[q] : b.start \in PagesOf(b)
  BY <1>1, <1>2
<1>4. \A q \in Users, v \in Pages :
        \/ q = p /\ pte'[q][v] = None /\ mem'[q][v] = Unknown
        \/ q # p /\ pte'[q] = pte[q] /\ mem'[q] = mem[q] /\ dirty'[q] = dirty[q]
  BY <1>1, <1>2
<1>5. \A q \in Users, v \in Pages, s \in Swap :
        q # p => (stab'[s] = <<q, v>> <=> stab[s] = <<q, v>>)
  BY <1>1, Numbers DEF NoPage
<1>6. ASSUME ~lost PROVE Kept' /\ Fresh'
  <2>1. Kept /\ Fresh
    BY <1>6 DEF Contents
  <2>2. ASSUME NEW q \in Users, NEW v \in Pages, mem'[q][v] # Unknown
        PROVE  IF pte'[q][v] # None THEN data[pte'[q][v]] = mem'[q][v]
               ELSE \E s \in Swap : stab'[s] = <<q, v>> /\ data[s] = mem'[q][v]
    <3>1. q # p /\ pte'[q] = pte[q] /\ mem'[q] = mem[q]
      BY <1>4, <2>2
    <3>2. IF pte[q][v] # None THEN data[pte[q][v]] = mem[q][v]
          ELSE \E s \in Swap : stab[s] = <<q, v>> /\ data[s] = mem[q][v]
      BY <2>1, <2>2, <3>1 DEF Kept
    <3> QED BY <1>5, <3>1, <3>2
  <2>3. Kept'
    BY <1>1, <2>2 DEF Kept
  <2>4. ASSUME NEW q \in Users, NEW v \in Pages, NEW s \in Swap,
               pte'[q][v] # None, v \notin dirty'[q], stab'[s] = <<q, v>>
        PROVE  data[s] = data[pte'[q][v]]
    <3>1. q # p /\ pte'[q] = pte[q] /\ dirty'[q] = dirty[q]
      BY <1>4, <2>4
    <3> QED BY <1>5, <2>1, <2>4, <3>1 DEF Fresh
  <2>5. Fresh'
    BY <1>1, <2>4 DEF Fresh
  <2> QED BY <2>3, <2>5
<1>7. lost' \/ (Kept' /\ Fresh')
  BY <1>1, <1>6
<1>8. data' \in [Frames -> Vals \cup {Junk}]
  BY <1>1 DEF Contents
<1> QED BY <1>3, <1>7, <1>8 DEF Contents

LEMMA VfreeKeepsContents ==
  ASSUME PagingInv, Contents, NEW p \in Users, NEW b \in blocks[p], FreesBlock(p, b)
  PROVE  Contents'
PROOF
<1>1. /\ stab' = [s \in Swap |-> IF stab[s] = <<p, b.start>> THEN NoPage ELSE stab[s]]
      /\ blocks' = [blocks EXCEPT ![p] = @ \ {b}]
      /\ mem' = [mem EXCEPT ![p] =
                   [v \in Pages |-> IF v \in PagesOf(b) THEN Unknown ELSE @[v]]]
      /\ UNCHANGED <<pte, dirty>>
  BY DEF FreesBlock, FreeCopyOf, Forget
<1>2. /\ dirty \in [Users -> SUBSET Pages]
      /\ data \in [Frames -> Vals \cup {Junk}]
      /\ mem \in [Users -> [Pages -> Vals \cup {Unknown}]]
      /\ blocks \in [Users -> SUBSET BlockRecords]
      /\ \A q \in Users : \A c \in blocks[q] : c.start \in PagesOf(c)
  BY DEF Contents
<1>3. data' \in [Frames -> Vals \cup {Junk}] /\ (~lost' => data' = data /\ ~lost)
  <2> DEFINE hit == {f \in Frames : \E i \in Rounds(b) : (FreedWord(p, b, i) - NPT * E) \div E = f}
  <2>1. \/ /\ data' = [f \in Frames |-> IF f \in hit THEN Junk ELSE data[f]]
           /\ lost' = (lost \/ hit # {})
        \/ /\ \E s \in Swap : data' = [data EXCEPT ![s] = Junk]
           /\ lost' = TRUE
    BY DEF FreesBlock, VfreeBits
  <2> HIDE DEF hit
  <2>2. CASE /\ data' = [f \in Frames |-> IF f \in hit THEN Junk ELSE data[f]]
             /\ lost' = (lost \/ hit # {})
    <3>1. ASSUME ~lost' PROVE data' = data /\ ~lost
      <4>1. hit = {} /\ ~lost
        BY <2>2, <3>1
      <4>2. data' = [f \in Frames |-> data[f]]
        BY <2>2, <4>1
      <4> QED BY <1>2, <4>1, <4>2
    <3> QED BY <1>2, <2>2, <3>1
  <2>3. CASE lost' = TRUE /\ \E s \in Swap : data' = [data EXCEPT ![s] = Junk]
    BY <1>2, <2>3
  <2> QED BY <2>1, <2>2, <2>3
<1>4. /\ mem' \in [Users -> [Pages -> Vals \cup {Unknown}]]
      /\ blocks' \in [Users -> SUBSET BlockRecords]
      /\ \A q \in Users : \A c \in blocks'[q] : c.start \in PagesOf(c)
  BY <1>1, <1>2
<1>5. \A q \in Users, v \in Pages :
        \/ mem'[q][v] = Unknown
        \/ mem'[q][v] = mem[q][v] /\ <<q, v>> # <<p, b.start>>
  BY <1>1, <1>2
<1>6. \A q \in Users, v \in Pages, s \in Swap :
        stab'[s] = <<q, v>> => stab[s] = <<q, v>>
  BY <1>1, Numbers DEF NoPage
<1>7. \A q \in Users, v \in Pages, s \in Swap :
        stab[s] = <<q, v>> /\ <<q, v>> # <<p, b.start>> => stab'[s] = <<q, v>>
  BY <1>1
<1>8. ASSUME ~lost' PROVE Kept' /\ Fresh'
  <2>1. Kept /\ Fresh /\ data' = data
    BY <1>3, <1>8 DEF Contents
  <2>2. ASSUME NEW q \in Users, NEW v \in Pages, mem'[q][v] # Unknown
        PROVE  IF pte[q][v] # None THEN data[pte[q][v]] = mem'[q][v]
               ELSE \E s \in Swap : stab'[s] = <<q, v>> /\ data[s] = mem'[q][v]
    <3>1. mem'[q][v] = mem[q][v] /\ <<q, v>> # <<p, b.start>>
      BY <1>5, <2>2
    <3>2. IF pte[q][v] # None THEN data[pte[q][v]] = mem[q][v]
          ELSE \E s \in Swap : stab[s] = <<q, v>> /\ data[s] = mem[q][v]
      BY <2>1, <2>2, <3>1 DEF Kept
    <3> QED BY <1>7, <3>1, <3>2
  <2>3. Kept'
    BY <1>1, <2>1, <2>2 DEF Kept
  <2>4. Fresh'
    BY <1>1, <1>6, <2>1 DEF Fresh
  <2> QED BY <2>3, <2>4
<1>9. dirty' \in [Users -> SUBSET Pages]
  BY <1>1, <1>2
<1>10. lost' \/ (Kept' /\ Fresh')
  BY <1>8
<1> QED BY <1>3, <1>4, <1>9, <1>10 DEF Contents

(* Steps that move no contents, but after which a process may rely on less. *)
LEMMA ForgettingKeepsContents ==
  ASSUME Contents, UNCHANGED <<pte, dirty, stab, data, lost>>,
         mem' \in [Users -> [Pages -> Vals \cup {Unknown}]],
         \A q \in Users, v \in Pages : mem'[q][v] \in {mem[q][v], Unknown},
         blocks' \in [Users -> SUBSET BlockRecords],
         \A q \in Users : \A c \in blocks'[q] : c.start \in PagesOf(c)
  PROVE  Contents'
PROOF
<1>1. /\ dirty' \in [Users -> SUBSET Pages]
      /\ data' \in [Frames -> Vals \cup {Junk}]
  BY DEF Contents
<1>2. Kept => Kept'
  <2> SUFFICES ASSUME Kept, NEW q \in Users, NEW v \in Pages, mem'[q][v] # Unknown
               PROVE  IF pte[q][v] # None THEN data[pte[q][v]] = mem'[q][v]
                      ELSE \E s \in Swap : stab[s] = <<q, v>> /\ data[s] = mem'[q][v]
    BY DEF Kept
  <2>1. mem'[q][v] = mem[q][v]
    OBVIOUS
  <2> QED BY <2>1 DEF Kept
<1>3. Fresh => Fresh'
  BY DEF Fresh
<1>4. lost' \/ (Kept' /\ Fresh')
  BY <1>2, <1>3 DEF Contents
<1> QED BY <1>1, <1>4 DEF Contents

LEMMA QuietKeepsContents ==
  ASSUME SomeBytes, Contents, Quiet
  PROVE  Contents'
PROOF
<1>1. UNCHANGED <<pte, dirty, stab, data, lost>>
  BY DEF Quiet
<1>2. /\ mem \in [Users -> [Pages -> Vals \cup {Unknown}]]
      /\ blocks \in [Users -> SUBSET BlockRecords]
      /\ \A q \in Users : \A c \in blocks[q] : c.start \in PagesOf(c)
  BY DEF Contents
<1>3. CASE UNCHANGED <<mem, blocks>>
  BY <1>1, <1>2, <1>3, ForgettingKeepsContents
<1>4. ASSUME currpid \in Users,
             NEW V \in SUBSET Pages, mem' = Forget(currpid, V),
             NEW b \in BlockRecords, b.start \in PagesOf(b),
             blocks' = [blocks EXCEPT ![currpid] = @ \cup {b}]
      PROVE  Contents'
  <2>1. /\ mem' \in [Users -> [Pages -> Vals \cup {Unknown}]]
        /\ \A q \in Users, v \in Pages : mem'[q][v] \in {mem[q][v], Unknown}
    BY <1>2, <1>4 DEF Forget
  <2>2. /\ blocks' \in [Users -> SUBSET BlockRecords]
        /\ \A q \in Users : \A c \in blocks'[q] : c.start \in PagesOf(c)
    BY <1>2, <1>4
  <2> QED BY <1>1, <2>1, <2>2, ForgettingKeepsContents
<1>5. \/ UNCHANGED <<mem, blocks>>
      \/ \E r \in Requests : Vmalloc(r)
  BY DEF Quiet
<1> QED BY <1>3, <1>4, <1>5, VmallocForgets

LEMMA ContentsKept ==
  ASSUME SomeBytes, PagingInv, Contents, [Next]_vars
  PROVE  Contents'
PROOF
<1>1. CASE \E p \in Users : Vcreate(p)
  <2>1. UNCHANGED <<pte, dirty, stab, data, lost, mem, blocks>>
    BY <1>1 DEF Vcreate, spaceVars
  <2> QED BY <2>1, ForgettingKeepsContents DEF Contents
<1>2. CASE \E p \in Users, v \in Pages, f \in Ffs : Loads(p, v, f)
  BY <1>2, LoadKeepsContents
<1>3. CASE \E p \in Users : \E b \in blocks[p] : FreesBlock(p, b)
  BY <1>3, VfreeKeepsContents
<1>4. CASE \E v \in Pages, x \in Vals : WriteThrough(v, x)
  BY <1>4, WriteThroughKeepsContents
<1> QED BY <1>1, <1>2, <1>3, <1>4, PagingSteps, QuietKeepsContents, KillKeepsContents,
           WriteKeepsContents

LEMMA InitContents == Init => Contents
PROOF
<1> SUFFICES ASSUME Init PROVE Contents
  OBVIOUS
<1>1. /\ dirty \in [Users -> SUBSET Pages]
      /\ data \in [Frames -> Vals \cup {Junk}]
      /\ mem \in [Users -> [Pages -> Vals \cup {Unknown}]]
      /\ blocks \in [Users -> SUBSET BlockRecords]
      /\ \A p \in Users : \A b \in blocks[p] : b.start \in PagesOf(b)
  BY DEF Init
<1>2. Kept /\ Fresh
  BY DEF Init, Kept, Fresh
<1> QED BY <1>1, <1>2 DEF Contents

(* What a process wrote last to a page is what the page holds, wherever it has
   been since: until a write went to a frame that is not the page's, at a place
   the code computed outside the tables or through the directory a failed vcreate
   left, no fault, eviction, vfree or kill of any process changes it. *)
THEOREM ReadsBackAlways == ASSUME SomeBytes PROVE Spec => []ReadsBack
PROOF
<1>1. PagingInv /\ Contents /\ [Next]_vars => Contents'
  BY ContentsKept
<1>2. PagingInv /\ Contents => ReadsBack
  BY ContentsSay
<1> QED BY PagingInvariant, InitContents, <1>1, <1>2, PTL DEF Spec

(* Until such a write, a clean page agrees with its copy in the swap space, so
   that an eviction may drop it without writing it out. *)
THEOREM SwapCopyFreshAlways == ASSUME SomeBytes PROVE Spec => []SwapCopyFresh
PROOF
<1>1. PagingInv /\ Contents /\ [Next]_vars => Contents'
  BY ContentsKept
<1>2. PagingInv /\ Contents => SwapCopyFresh
  BY ContentsSay
<1> QED BY PagingInvariant, InitContents, <1>1, <1>2, PTL DEF Spec


-----------------------------------------------------------------------------

(* First fit *)

(* No n adjacent free pages end before page v. *)
NoneBefore(v, n) == \A x \in Nat : x + n - 1 < v => \E w \in x..(x + n - 1) : ~free[w]

(* What the search for n pages knows when it comes to page v: the free pages
   just before v, which are too few.  (strt may be that of an earlier run.) *)
Searching(s, v, n) ==
  /\ s.stop = -1 /\ s.cnt < n /\ s.cnt <= v /\ (s.flag <=> s.cnt > 0)
  /\ s.cnt > 0 => s.strt = v - s.cnt
  /\ \A w \in (v - s.cnt)..(v - 1) : free[w]
  /\ s.cnt < v => ~free[v - s.cnt - 1]
  /\ NoneBefore(v, n)

(* ... and when it has found them. *)
Found(s, n) ==
  /\ s.stop \in 0..LastPage /\ s.cnt = n /\ s.strt = s.stop - n + 1 /\ s.strt >= 0
  /\ \A w \in s.strt..s.stop : free[w]
  /\ NoneBefore(s.stop, n)

LEMMA SearchStep ==
  ASSUME LastPage \in Nat, free \in [0..LastPage -> BOOLEAN], NEW n \in Nat \ {0},
         NEW v \in 0..LastPage, NEW s \in ScanStates(LastPage), Searching(s, v, n)
  PROVE  \/ Searching(ScanPage(s, v, free[v], n), v + 1, n)
         \/ Found(ScanPage(s, v, free[v], n), n)
PROOF
<1> DEFINE r == ScanPage(s, v, free[v], n)
           c == s.cnt + 1
           begin == IF s.flag THEN s.strt ELSE v
<1>1. /\ s.cnt \in Nat /\ v \in Nat /\ n \in Nat \ {0} /\ c \in Nat /\ v <= LastPage
      /\ s = [flag |-> s.flag, cnt |-> s.cnt, strt |-> s.strt, stop |-> s.stop]
  BY DEF ScanStates
<1>2. /\ s.stop = -1 /\ s.cnt < n /\ s.cnt <= v /\ (s.flag <=> s.cnt > 0)
      /\ s.cnt > 0 => s.strt = v - s.cnt
      /\ \A w \in (v - s.cnt)..(v - 1) : free[w]
      /\ s.cnt < v => ~free[v - s.cnt - 1]
      /\ NoneBefore(v, n)
  BY DEF Searching
<1>3. begin = (v + 1) - c /\ begin >= 0
  BY <1>1, <1>2
<1>4. CASE ~free[v]
  <2>1. r.flag = FALSE /\ r.cnt = 0 /\ r.stop = -1
    BY <1>1, <1>2, <1>4 DEF ScanPage
  <2> HIDE DEF r
  <2>2. NoneBefore(v + 1, n)
    <3> SUFFICES ASSUME NEW x \in Nat, x + n - 1 < v + 1
                 PROVE  \E w \in x..(x + n - 1) : ~free[w]
      BY DEF NoneBefore
    <3>1. CASE x + n - 1 < v
      BY <1>2, <3>1 DEF NoneBefore
    <3>2. CASE x + n - 1 = v
      <4>1. v \in x..(x + n - 1)
        BY <1>1, <3>2
      <4> QED BY <4>1, <1>4
    <3> QED BY <1>1, <3>1, <3>2
  <2>3. (v + 1) - 0 - 1 = v /\ \A w \in ((v + 1) - 0)..((v + 1) - 1) : free[w]
    BY <1>1
  <2>4. Searching(r, v + 1, n)
    BY <1>1, <1>4, <2>1, <2>2, <2>3 DEF Searching
  <2> QED BY <2>4 DEF r
<1>5. CASE free[v]
  <2>1. /\ r.flag = TRUE /\ r.cnt = c /\ r.strt = begin
        /\ r.stop = IF c = n THEN v ELSE -1
    BY <1>1, <1>2, <1>5 DEF ScanPage
  <2>2. \A w \in begin..v : free[w]
    <3> TAKE w \in begin..v
    <3>1. w = v \/ w \in (v - s.cnt)..(v - 1)
      BY <1>1, <1>3
    <3> QED BY <3>1, <1>2, <1>5
  <2> HIDE DEF r, begin
  <2>3. CASE c = n
    <3>1. Found(r, n)
      BY <1>1, <1>2, <1>3, <2>1, <2>2, <2>3 DEF Found
    <3> QED BY <3>1 DEF r
  <2>4. CASE c # n
    <3>1. c < n
      BY <1>1, <1>2, <2>4
    <3>2. c < v + 1 => ~free[begin - 1] /\ begin - 1 \in Nat
      <4>1. begin - 1 = v - s.cnt - 1
        BY <1>1, <1>3
      <4> QED BY <1>1, <1>2, <4>1
    <3>3. NoneBefore(v + 1, n)
      <4> SUFFICES ASSUME NEW x \in Nat, x + n - 1 < v + 1
                   PROVE  \E w \in x..(x + n - 1) : ~free[w]
        BY DEF NoneBefore
      <4>1. CASE x + n - 1 < v
        BY <1>2, <4>1 DEF NoneBefore
      <4>2. CASE x + n - 1 = v
        <5>1. begin - 1 \in x..(x + n - 1) /\ c < v + 1
          BY SMTT(30), <1>1, <1>3, <3>1, <4>2
        <5> QED BY <5>1, <3>2
      <4> QED BY <1>1, <4>1, <4>2
    <3>4. \A w \in ((v + 1) - c)..((v + 1) - 1) : free[w]
      BY <1>1, <1>3, <2>2
    <3>5. c <= v + 1 /\ c > 0 /\ (c < v + 1 => ~free[(v + 1) - c - 1])
      <4>1. (v + 1) - c = begin /\ (c < v + 1 <=> s.cnt < v)
        BY <1>1, <1>3
      <4>2. c <= v + 1 /\ c > 0
        BY <1>1, <1>2
      <4>3. (c < v + 1 => ~free[(v + 1) - c - 1])
        BY <3>2, <4>1
      <4> QED BY <4>2, <4>3
    <3>6. Searching(r, v + 1, n)
      BY <1>1, <1>3, <2>1, <2>4, <3>1, <3>3, <3>4, <3>5 DEF Searching
    <3> QED BY <3>6 DEF r
  <2> QED BY <2>3, <2>4
<1> QED BY <1>4, <1>5

(* The search either has found the first block or is past the last page. *)
LEMMA SearchEnds ==
  ASSUME LastPage \in Nat, free \in [0..LastPage -> BOOLEAN], NEW n \in Nat \ {0}
  PROVE  LET s == Scan(free, LastPage, n) IN
         s \in ScanStates(LastPage) /\ (Searching(s, LastPage + 1, n) \/ Found(s, n))
PROOF
<1>1. PICK g : /\ Scan(free, LastPage, n) = g[LastPage] /\ g[-1] = Start
               /\ \A v \in 0..LastPage : g[v] = ScanPage(g[v - 1], v, free[v], n)
  BY ScanRuns
<1> DEFINE Good(m) == /\ g[m - 1] \in ScanStates(LastPage)
                      /\ Searching(g[m - 1], m, n) \/ Found(g[m - 1], n)
           Wrong == {m \in 0..(LastPage + 1) : ~Good(m)}
<1>2. Good(0)
  <2>1. 0 - 1 = -1
    OBVIOUS
  <2>2. Start \in ScanStates(LastPage)
    BY DEF Start, ScanStates
  <2>3. NoneBefore(0, n)
    BY DEF NoneBefore
  <2>4. Searching(Start, 0, n)
    BY <2>3 DEF Start, Searching
  <2> QED BY <1>1, <2>1, <2>2, <2>4
<1>3. ASSUME NEW m \in 0..LastPage, Good(m) PROVE Good(m + 1)
  <2>1. (m + 1) - 1 = m
    OBVIOUS
  <2>2. g[m] = ScanPage(g[m - 1], m, free[m], n) /\ free[m] \in BOOLEAN
    BY <1>1
  <2>3. g[m] \in ScanStates(LastPage)
    BY <1>3, <2>2, ScanPageType
  <2>4. CASE Searching(g[m - 1], m, n)
    BY <1>3, <2>1, <2>2, <2>3, <2>4, SearchStep
  <2>5. CASE Found(g[m - 1], n)
    <3>1. g[m - 1].stop # -1
      BY <2>5 DEF Found
    <3>2. g[m] = g[m - 1]
      BY <2>2, <3>1 DEF ScanPage
    <3> QED BY <2>1, <2>3, <2>5, <3>2
  <2> QED BY <1>3, <2>4, <2>5
<1>4. Wrong = {}
  <2> SUFFICES ASSUME Wrong # {} PROVE FALSE
    OBVIOUS
  <2>1. PICK m \in Wrong : \A k \in Wrong : m <= k
    <3>1. Wrong \in SUBSET Nat
      OBVIOUS
    <3> HIDE DEF Wrong
    <3> QED BY <3>1, FirstExists DEF IsFirst
  <2>2. m \in 0..(LastPage + 1) /\ ~Good(m)
    OBVIOUS
  <2>3. m # 0
    <3> HIDE DEF Good
    <3> QED BY <1>2, <2>2
  <2>4. m - 1 \in 0..LastPage /\ m - 1 \in 0..(LastPage + 1) /\ (m - 1) + 1 = m /\ ~(m <= m - 1)
    BY <2>2, <2>3
  <2>5. m - 1 \notin Wrong
    <3> HIDE DEF Wrong
    <3> QED BY <2>1, <2>4
  <2>6. Good(m - 1)
    <3> HIDE DEF Good
    <3> QED BY <2>4, <2>5
  <2>7. Good((m - 1) + 1)
    <3> HIDE DEF Good
    <3> QED BY <1>3, <2>4, <2>6
  <2> HIDE DEF Good
  <2> QED BY <2>2, <2>4, <2>7
<1>5. Good(LastPage + 1) /\ (LastPage + 1) - 1 = LastPage
  <2>1. LastPage + 1 \in 0..(LastPage + 1) /\ (LastPage + 1) - 1 = LastPage
    OBVIOUS
  <2> HIDE DEF Good
  <2> QED BY <1>4, <2>1
<1> QED BY <1>1, <1>5

LEMMA SearchIsFirstFit ==
  ASSUME LastPage \in Nat, free \in [0..LastPage -> BOOLEAN], request \in Nat
  PROVE  FirstFits
PROOF
<1> SUFFICES ASSUME request > 0 PROVE FirstFits
  BY DEF FirstFits, RefusedOnlyIfNone, LowestFit
<1> DEFINE s == Scan(free, LastPage, request)
<1>1. s \in ScanStates(LastPage) /\ (Searching(s, LastPage + 1, request) \/ Found(s, request))
  BY SearchEnds
<1> HIDE DEF s
<1>2. ASSUME NEW v \in Nat, NEW x \in Nat, x + request - 1 < v, NoneBefore(v, request)
      PROVE  ~Fits(x, request)
  BY <1>2 DEF NoneBefore, Fits
<1>3. CASE Searching(s, LastPage + 1, request)
  <2>1. Fails(s, request)
    BY <1>1, <1>3 DEF Searching, Fails, ScanStates
  <2>2. \A v \in 0..LastPage : ~Fits(v, request)
    <3> SUFFICES ASSUME NEW v \in 0..LastPage, Fits(v, request) PROVE FALSE
      OBVIOUS
    <3>1. v + request - 1 < LastPage + 1
      BY DEF Fits
    <3> QED BY <3>1, <1>2, <1>3 DEF Searching
  <2> QED BY <2>1, <2>2 DEF FirstFits, RefusedOnlyIfNone, LowestFit, s
<1>4. CASE Found(s, request)
  <2>1. /\ s.stop \in 0..LastPage /\ s.cnt = request /\ s.strt = s.stop - request + 1 /\ s.strt >= 0
        /\ \A w \in s.strt..s.stop : free[w]
        /\ NoneBefore(s.stop, request) /\ s.strt \in 0..LastPage
        /\ s.strt + request - 1 = s.stop
    BY <1>1, <1>4 DEF Found, ScanStates
  <2>2. ~Fails(s, request)
    BY <2>1 DEF Fails
  <2>3. Fits(s.strt, request) /\ Block(s) = s.strt..(s.strt + request - 1)
    BY <2>1 DEF Fits, Block
  <2>4. \A v \in 0..(s.strt - 1) : ~Fits(v, request)
    <3> TAKE v \in 0..(s.strt - 1)
    <3>1. v + request - 1 < s.stop /\ v \in Nat /\ s.stop \in Nat
      BY <2>1
    <3> QED BY <1>2, <2>1, <3>1
  <2> QED BY <2>1, <2>2, <2>3, <2>4 DEF FirstFits, RefusedOnlyIfNone, LowestFit, s
<1> QED BY <1>1, <1>3, <1>4

(* Every request for virtual pages is granted and refused as first fit does, for
   any number of pages and from any pattern of free ones. *)
THEOREM FirstFitsAlways == FitSpec => []FirstFits
PROOF
<1> DEFINE FitTypeOK == free \in [0..LastPage -> BOOLEAN] /\ request \in PageCounts
<1>1. FitInit => FitTypeOK
  BY DEF FitInit
<1>2. FitTypeOK /\ [FitNext]_fitVars => FitTypeOK'
  <2> SUFFICES ASSUME FitTypeOK, [FitNext]_fitVars PROVE FitTypeOK'
    OBVIOUS
  <2>1. CASE Allocate
    BY <2>1 DEF Allocate
  <2>2. CASE Refuse
    BY <2>2 DEF Refuse
  <2>3. CASE UNCHANGED fitVars
    BY <2>3 DEF fitVars
  <2> QED BY <2>1, <2>2, <2>3 DEF FitNext
<1>3. FitTypeOK => FirstFits
  BY SearchIsFirstFit, FitSizes
<1> HIDE DEF FitTypeOK
<1> QED BY <1>1, <1>2, <1>3, PTL DEF FitSpec
=============================================================================
