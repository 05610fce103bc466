------------------------------- MODULE Paging -------------------------------
(***************************************************************************)
(* Demand paging: the private virtual heaps of the processes vcreate makes, *)
(* the page faults that map their pages to the frames of the free frame    *)
(* space (FFS) and evict others to the swap space, and what vmalloc, vfree *)
(* and kill do to both.                                                    *)
(*                                                                         *)
(* All of these run with interrupts disabled, so each is one step; between *)
(* two steps any process may get the processor.  A heap is three regions   *)
(* as large as the memory of the kernel itself (T page tables of E         *)
(* entries): a virtual page of region r is free if bit r is set in the     *)
(* entry with its offset in the process's page tables of the kernel's      *)
(* pages, whose bits for software vmalloc and vfree use.                   *)
(*                                                                         *)
(* Where the code computes an address outside the tables, or uses a frame  *)
(* number it never assigned (a table or the swap space is full), the       *)
(* outcome is open: `wild' stops the model, and `lost' notes that a page   *)
(* or a frame's contents went to, or were hit at, such a place.  It also   *)
(* notes a write to another page's frame, which a process can make after a *)
(* vcreate of its own has failed and left it on the directory of the null  *)
(* process, where every frame is present at its own address.  Two stray    *)
(* writes are left out: the fault handler fills in a virt_addr_t through a *)
(* pointer it never set, and vfree clears the present bit of a page whose  *)
(* swap copy it frees at an address in low memory, not in the page table.  *)
(***************************************************************************)
EXTENDS Integers, FiniteSets, VmallocScan

CONSTANTS
  Users,        \* process identifiers of the processes vcreate makes
  Nobody,       \* the owner of a free frame
  Main,         \* a process of create(), which has no heap
  T,            \* page tables for the kernel's pages: XINU_PAGES / NUM_ENT_PPAGE
  E,            \* NUM_ENT_PPAGE
  NPT,          \* frames for the page tables of users, of MAX_PT_SIZE
  NFFS,         \* MAX_FFS_SIZE
  NSWAP,        \* MAX_SWAP_SIZE
  Vals, Junk,   \* contents of a page; contents nobody wrote
  Requests,     \* sizes asked of vmalloc: [full |-> pages, rest |-> 0 or 1]
  Stray,        \* whether programs touch pages they have not allocated
  Quota,        \* bound: pages a process holds
  MaxCreate,    \* bound: processes created
  MaxSwapCount, \* bound: no vfree once available_swap_size is above this
  WORD          \* the counters of free frames are unsigned: one above the greatest

ASSUME AreaSizes == /\ T \in Nat \ {0} /\ E \in Nat \ {0} /\ NPT \in Nat
                    /\ NFFS \in Nat \ {0} /\ NSWAP \in Nat
                    /\ WORD \in Nat /\ NFFS < WORD /\ NSWAP < WORD
ASSUME ProcessIds == Main \notin Users /\ Nobody \notin Users \cup {Main}
ASSUME PageContents == Junk \notin Vals

Procs == Users \cup {Main}
Pages == 0..(3 * T * E - 1)             \* virtual pages of a heap
HeapTables == 0..(3 * T - 1)            \* page directory entries of a heap
PtFrames == 0..(NPT - 1)
Ffs == 0..(NFFS - 1)
Swap == NFFS..(NFFS + NSWAP - 1)        \* behind the FFS: SWAP_START = FFS_END
Frames == Ffs \cup Swap
None == -1
NullDir == -1                           \* the page directory of the null process, which
                                        \*   maps all of memory to itself

Table(v) == v \div E
Entry(v) == v % E
Region(v) == v \div (T * E) + 1

VARIABLES
  state,        \* [Users]: free, live, or to be killed by the fault handler
  currpid,
  cr3,          \* the frame of the page directory in use
  refused,      \* the current process has a heap, a vcreate of its own has failed,
                \*   and no directory has been loaded since
  pdbr, xpt,    \* [Users]: its directory, the tables of the kernel's pages
  bits,         \* [PtFrames][entries]: pt_avail, pt_avail2, pt_avail3
  ptab,         \* [PtFrames]: the owner
  hpd,          \* [Users]: heap tables whose directory entry is present
  pte,          \* [Users][Pages]: the FFS frame, if the page is present
  dirty,        \* [Users]: present pages whose dirty bit is set
  ftab, stab,   \* [Ffs], [Swap]: the page <<process, vpn>> held, if any
  older,        \* <<f, g>>: p_fm_latency of f is less than that of g
  data,         \* [Frames]: contents
  heap, swap,   \* available_heap_size, available_swap_size
  wild, lost,   \* see above
  created,      \* processes created so far
  blocks, mem   \* what the programs know: their blocks, what they last wrote

spaceVars == <<ftab, stab, older, data, heap, swap, lost>>
tableVars == <<pdbr, xpt, bits, ptab, hpd, pte, dirty>>
progVars == <<created, blocks, mem>>
loadVars == <<cr3, refused>>
vars == <<state, currpid, loadVars, tableVars, spaceVars, wild, progVars>>

NoPage == <<Nobody, 0>>
Unknown == "unknown"                        \* nothing the process relies on
IsFirst(x, S) == x \in S /\ \A y \in S : x <= y
FreePt == {f \in PtFrames : ptab[f] = Nobody}
FreeFfs == {f \in Ffs : ftab[f] = NoPage}
FreeSwap == {s \in Swap : stab[s] = NoPage}
Dir(p) == IF p = Main THEN NullDir ELSE pdbr[p]
Less(n, k) == (n - k) % WORD            \* unsigned n - k

(* init_frames, and the rest of sysinit that concerns paging *)
Init ==
  /\ state = [p \in Users |-> "free"]
  /\ currpid = Main /\ cr3 = NullDir /\ refused = FALSE
  /\ pdbr = [p \in Users |-> NullDir]
  /\ xpt = [p \in Users |-> [i \in 0..(T - 1) |-> None]]
  /\ bits = [f \in PtFrames |-> [e \in 0..(E - 1) |-> {}]]
  /\ ptab = [f \in PtFrames |-> Nobody]
  /\ hpd = [p \in Users |-> {}]
  /\ pte = [p \in Users |-> [v \in Pages |-> None]]
  /\ dirty = [p \in Users |-> {}]
  /\ ftab = [f \in Ffs |-> NoPage]
  /\ stab = [s \in Swap |-> NoPage]
  /\ older = {}
  /\ data = [f \in Frames |-> Junk]
  /\ heap = NFFS /\ swap = NSWAP
  /\ wild = FALSE /\ lost = FALSE
  /\ created = 0
  /\ blocks = [p \in Users |-> {}]
  /\ mem = [p \in Users |-> [v \in Pages |-> Unknown]]

-----------------------------------------------------------------------------
(* Processes *)

CanRun(q) == ~wild /\ (q \in Users => state[q] # "free")
Running == ~wild /\ (currpid \in Users => state[currpid] = "live")

(* dir and then tabs[0], tabs[1]... are the first T + 1 free frames of the page
   table area. *)
FirstFree(dir, tabs) ==
  /\ IsFirst(dir, FreePt)
  /\ \A i \in 0..(T - 1) :
       IsFirst(tabs[i], FreePt \ ({dir} \cup {tabs[j] : j \in 0..(i - 1)}))

(* write_cr3 *)
WriteCr3(dir) == cr3' = dir /\ refused' = FALSE

(* The code goes on with a frame number, or at an address, that may be any. *)
GoesWild ==
  /\ wild' = TRUE
  /\ UNCHANGED <<state, currpid, loadVars, tableVars, spaceVars, progVars>>

(* get_phy_fr_num(PT_ENTRY) for the directory and the tables finds no frame. *)
VcreateWild(p) ==
  /\ Running /\ state[p] = "free" /\ created < MaxCreate
  /\ Cardinality(FreePt) < T + 1
  /\ GoesWild

Vcreate(p) ==
  /\ Running /\ state[p] = "free" /\ created < MaxCreate
  /\ \E dir \in FreePt, tabs \in [0..(T - 1) -> FreePt] :
       LET taken == {tabs[i] : i \in 0..(T - 1)} IN
       /\ FirstFree(dir, tabs)
       /\ ptab' = [f \in PtFrames |-> IF f \in taken \cup {dir} THEN p ELSE ptab[f]]
       /\ pdbr' = [pdbr EXCEPT ![p] = dir]
       /\ xpt' = [xpt EXCEPT ![p] = tabs]
       /\ bits' = [f \in PtFrames |->
            IF f \in taken THEN [e \in 0..(E - 1) |-> {1, 2, 3}] ELSE bits[f]]
       /\ WriteCr3(dir)            \* the creator goes on with this directory
  /\ state' = [state EXCEPT ![p] = "live"]
  /\ created' = created + 1
  /\ UNCHANGED <<currpid, hpd, pte, dirty, spaceVars, wild, blocks, mem>>

(* No process for it, no stack, or no priority: the directory of the null
   process has been loaded by then, and the caller goes on with it. *)
VcreateFails ==
  /\ Running
  /\ cr3' = NullDir /\ refused' = (currpid \in Users)
  /\ UNCHANGED <<state, currpid, tableVars, spaceVars, wild, progVars>>

SwitchKeepsCr3(q) ==            \* fault: resched does not load cr3
  /\ q # currpid /\ CanRun(q)
  /\ currpid' = q
  /\ UNCHANGED <<state, loadVars, tableVars, spaceVars, wild, progVars>>

(* resched: the next process runs on its own page directory. *)
Switch(q) ==
  /\ q # currpid /\ CanRun(q)
  /\ currpid' = q /\ WriteCr3(Dir(q))
  /\ UNCHANGED <<state, tableVars, spaceVars, wild, progVars>>

KeptWith(tab, p) == tab         \* fault: the frames of the dead stay taken

(* A table of frames without those of p. *)
Without(tab, p) == [f \in DOMAIN tab |-> IF tab[f][1] = p THEN NoPage ELSE tab[f]]

HeapUncounted(p) == heap        \* fault: freed frames are not counted

HeapAfterKill(p) == (heap + Cardinality({f \in Ffs : ftab[f][1] = p})) % WORD

(* kill(p), from where it frees the frames of a process of vcreate.  The
   page tables of a process that has ended are read by nobody. *)
KillFrames(p) ==
  /\ state' = [state EXCEPT ![p] = "free"]
  /\ ptab' = [f \in PtFrames |-> IF ptab[f] = p THEN Nobody ELSE ptab[f]]
  /\ bits' = [f \in PtFrames |->
                IF ptab[f] = p THEN [e \in 0..(E - 1) |-> {}] ELSE bits[f]]
  /\ ftab' = Without(ftab, p)
  /\ stab' = Without(stab, p)
  /\ older' = {fg \in older : ftab[fg[1]][1] # p /\ ftab[fg[2]][1] # p}
  /\ heap' = HeapAfterKill(p)
  /\ pdbr' = [pdbr EXCEPT ![p] = NullDir]
  /\ xpt' = [xpt EXCEPT ![p] = [i \in 0..(T - 1) |-> None]]
  /\ hpd' = [hpd EXCEPT ![p] = {}]
  /\ pte' = [pte EXCEPT ![p] = [v \in Pages |-> None]]
  /\ dirty' = [dirty EXCEPT ![p] = {}]
  /\ blocks' = [blocks EXCEPT ![p] = {}]
  /\ mem' = [mem EXCEPT ![p] = [v \in Pages |-> Unknown]]
  /\ UNCHANGED <<data, swap, wild, lost, created>>

(* A process ends, or the fault handler ends it: kill of itself. *)
Exit(q) ==
  /\ currpid \in Users /\ q # currpid /\ CanRun(q)
  /\ KillFrames(currpid)
  /\ currpid' = q /\ WriteCr3(Dir(q))

Kill(p) ==
  /\ Running /\ p # currpid /\ state[p] # "free"
  /\ KillFrames(p)
  /\ UNCHANGED <<currpid, loadVars>>

-----------------------------------------------------------------------------
(* vmalloc and vfree *)

PagesOf(b) == b.start .. (b.start + b.full + b.rest - 1)
Held(p) == UNION {PagesOf(b) : b \in blocks[p]}
Forget(p, V) == [mem EXCEPT ![p] = [v \in Pages |-> IF v \in V THEN Unknown ELSE @[v]]]

Vmalloc(r) ==
  LET p == currpid
      n == r.full + r.rest
      kernelTable(v) == xpt[p][Table(v) % T]
      avail == [v \in Pages |-> Region(v) \in bits[kernelTable(v)][Entry(v)]]
      found == Scan(avail, 3 * T * E - 1, n)
      gone(f, e) == {Region(v) : v \in {w \in Block(found) :
                                          kernelTable(w) = f /\ Entry(w) = e}}
  IN
  /\ p \in Users /\ Running
  /\ Cardinality(Held(p)) + n <= Quota
  /\ WriteCr3(pdbr[p])
  /\ \/ /\ Fails(found, n)
        /\ UNCHANGED <<bits, blocks, mem>>
     \/ /\ ~Fails(found, n)
        /\ bits' = [f \in PtFrames |->
             [e \in 0..(E - 1) |-> bits[f][e] \ gone(f, e)]]
        /\ blocks' = [blocks EXCEPT ![p] = @ \cup
             {[start |-> found.strt, full |-> r.full, rest |-> r.rest]}]
        /\ mem' = Forget(p, Block(found))
  /\ UNCHANGED <<state, currpid, pdbr, xpt, ptab, hpd, pte, dirty, spaceVars,
                 wild, created>>

(* The entry vfree's pointer is at in round i, as the number of a word of the
   page table area: it starts at the block's first page and is set back by
   T * E, in place of a step on, after round T * E and after 2 * T * E. *)
FreedWord(p, b, i) ==
  xpt[p][0] * E + Entry(b.start) + i
    - (T * E + 1) * Cardinality({k \in {1, 2} : i > k * T * E})
FreedBit(i) == IF i < T * E THEN 1 ELSE 2    \* 80192 stands for 8192
Rounds(b) == 0..(b.full - 1)                 \* a page begun is not freed

KernelTables == {xpt[p][i] : p \in {q \in Users : state[q] # "free"}, i \in 0..(T - 1)}

FreeCopiesOf(tab, p, v) ==      \* fault: the page number is not compared
  [s \in Swap |-> IF tab[s][1] = p THEN NoPage ELSE tab[s]]

(* The table of swap frames without the copy of a page. *)
FreeCopyOf(tab, p, v) == [s \in Swap |-> IF tab[s] = <<p, v>> THEN NoPage ELSE tab[s]]

(* The page directory's entry for the table is computed in bytes: right for
   the first table, some other frame's number for the rest. *)
VfreeBits(p, b) ==
  LET freed(f, e) == {FreedBit(i) : i \in {j \in Rounds(b) : FreedWord(p, b, j) = f * E + e}}
      hit == {f \in Frames : \E i \in Rounds(b) : (FreedWord(p, b, i) - NPT * E) \div E = f}
  IN
  IF Table(b.start) % T = 0 \/ Rounds(b) = {}
  THEN /\ bits' = [f \in PtFrames |-> [e \in 0..(E - 1) |->
                     bits[f][e] \cup IF f \in KernelTables THEN freed(f, e) ELSE {}]]
       /\ data' = [f \in Frames |-> IF f \in hit THEN Junk ELSE data[f]]
       /\ lost' = (lost \/ hit # {})
  ELSE /\ \E s \in Swap : data' = [data EXCEPT ![s] = Junk]
       /\ lost' = TRUE
       /\ UNCHANGED bits

Vfree(b) ==
  LET p == currpid
      copies == {s \in Swap : stab[s] = <<p, b.start>>}
  IN
  /\ p \in Users /\ Running /\ b \in blocks[p]
  /\ swap <= MaxSwapCount
  /\ \/ Table(b.start) % T # 0 /\ Rounds(b) # {} /\ GoesWild
     \/ /\ VfreeBits(p, b)
        /\ stab' = FreeCopyOf(stab, p, b.start)
        /\ swap' = (swap + Cardinality(copies)) % WORD
        /\ WriteCr3(pdbr[p])
        /\ blocks' = [blocks EXCEPT ![p] = @ \ {b}]
        /\ mem' = Forget(p, PagesOf(b))
        /\ UNCHANGED <<state, currpid, pdbr, xpt, ptab, hpd, pte, dirty, ftab,
                       older, heap, wild, created>>

-----------------------------------------------------------------------------
(* Page faults *)

(* The frame get_phy_fr_num(FFS) takes: the first that is free, or else the one
   that has been taken longest ago. *)
Takes(f) ==
  IF FreeFfs # {} THEN IsFirst(f, FreeFfs)
  ELSE \A g \in Ffs \ {f} : <<f, g>> \in older

Copies(pg) == {s \in Swap : stab[s] = pg}
InSwapNever(pg) == FALSE        \* fault: the search misses the copy
InSwap(pg) == Copies(pg) # {}
Dirty(pg) == pg[2] \in dirty[pg[1]]

WriteOutOnce(f) ==              \* fault: an old copy is not written again
  ftab[f] # NoPage /\ ~InSwap(ftab[f])

(* The page in f has to be copied to the swap space before f is taken. *)
MustWriteOut(f) == ftab[f] # NoPage /\ (Dirty(ftab[f]) \/ ~InSwap(ftab[f]))

(* No frame of the swap space is left for the page in f. *)
NoSwap(f) == MustWriteOut(f) /\ ~InSwap(ftab[f]) /\ FreeSwap = {}

MappingKept(pg, f) ==           \* fault: the evicted page stays present
  [p \in Users |-> [v \in Pages |-> IF <<p, v>> = pg THEN f ELSE pte[p][v]]]

(* The page tables once the page pg is in the frame f. *)
Mapping(pg, f) ==
  [p \in Users |-> [v \in Pages |-> IF <<p, v>> = pg THEN f
                                    ELSE IF <<p, v>> = ftab[f] THEN None ELSE pte[p][v]]]

Stale(d, pg, f) == d            \* fault: the page is not read from the swap space

(* The contents once pg, if it is in the swap space, has been read into f. *)
ReadIn(d, pg, f) ==
  [d EXCEPT ![f] = IF InSwap(pg) THEN d[CHOOSE s \in Copies(pg) : TRUE] ELSE @]

LatencyKept(f) == older         \* fault: a frame taken keeps its old latency

(* The order once f has got the greatest latency of the frames taken. *)
Youngest(f) ==
  {ij \in older : ij[1] # f /\ ij[2] # f}
    \cup {<<g, f>> : g \in {h \in Ffs \ {f} : ftab[h] # NoPage}}

(* get_phy_fr_num(FFS) for the page pg, which takes the frame f and may evict
   another page from it, and the reading of pg from the swap space. *)
Load(pg, f) ==
  /\ ftab' = [ftab EXCEPT ![f] = pg]
  /\ older' = Youngest(f)
  /\ pte' = Mapping(pg, f)
  /\ dirty' = [p \in Users |-> {v \in dirty[p] : <<p, v>> \notin {pg, ftab[f]}}]
  /\ \/ /\ ~MustWriteOut(f)
        /\ data' = ReadIn(data, pg, f)
        /\ UNCHANGED <<stab, lost>>
     \/ /\ MustWriteOut(f) /\ ~NoSwap(f)
        /\ \E s \in Swap :
             /\ IF InSwap(ftab[f]) THEN s \in Copies(ftab[f]) ELSE IsFirst(s, FreeSwap)
             /\ stab' = [stab EXCEPT ![s] = ftab[f]]
             /\ data' = ReadIn([data EXCEPT ![s] = data[f]], pg, f)
        /\ UNCHANGED lost
     \/ /\ NoSwap(f)            \* to the frame whose number addr happens to hold
        /\ \E g \in Frames : data' = ReadIn([data EXCEPT ![g] = data[f]], pg, f)
        /\ lost' = TRUE
        /\ UNCHANGED stab

(* The handler kills the process: kill first notifies the parent, which may
   run before the frames are freed. *)
Dies(p, why) == state' = [state EXCEPT ![p] = why]

(* The free bit the handler looks at, `<=' where vmalloc has `<'. *)
CheckRegion(v) == IF Table(v) <= T THEN 1 ELSE IF Table(v) <= 2 * T THEN 2 ELSE 3
CheckBit(p, v) == CheckRegion(v) \in bits[xpt[p][Table(v) % T]][Entry(v)]

(* The frame of the page in the directory in use, whoever's it is.  Page v has
   the address of frame v, in the FFS or, behind it, in the swap space. *)
Translate(v) ==
  IF cr3 = NullDir THEN {v} \cap Frames
  ELSE {pte[p][v] : p \in {q \in Users : pdbr[q] = cr3}} \ {None}

(* An access of the current process to the page v, not present, ends in the
   handler, with its own page directory loaded. *)
FaultAt(v) ==
  /\ currpid \in Users /\ Running
  /\ Stray \/ v \in Held(currpid)
  /\ Translate(v) = {}
  /\ WriteCr3(pdbr[currpid])

SegmentationFault(v) ==
  /\ FaultAt(v) /\ CheckBit(currpid, v)
  /\ Dies(currpid, "segv")
  /\ UNCHANGED <<currpid, tableVars, spaceVars, wild, progVars>>

(* The frame is taken off the free frames of the FFS or, when there are none,
   of the swap space. *)
Count ==
  /\ heap' = IF heap = 0 THEN heap ELSE heap - 1
  /\ swap' = IF heap = 0 THEN Less(swap, 1) ELSE swap

(* The page directory has no table for v. *)
TableFault(v) ==
  LET p == currpid IN
  /\ FaultAt(v) /\ ~CheckBit(p, v) /\ Table(v) \notin hpd[p]
  /\ ~(heap = 0 /\ swap = 0) /\ FreePt # {}
  /\ \E g \in PtFrames : IsFirst(g, FreePt) /\ ptab' = [ptab EXCEPT ![g] = p]
  /\ hpd' = [hpd EXCEPT ![p] = @ \cup {Table(v)}]
  /\ \E f \in Ffs :
       /\ Takes(f)
       /\ \/ Load(<<p, v>>, f) /\ Count /\ UNCHANGED state
          \/ /\ NoSwap(f) /\ Dies(p, "nomem")
             /\ UNCHANGED <<pte, dirty, spaceVars>>
  /\ UNCHANGED <<currpid, pdbr, xpt, bits, wild, progVars>>

TableFaultFails(v) ==
  LET p == currpid IN
  /\ FaultAt(v) /\ ~CheckBit(p, v) /\ Table(v) \notin hpd[p]
  /\ heap = 0 /\ swap = 0
  /\ Dies(p, "nomem")
  /\ UNCHANGED <<currpid, tableVars, spaceVars, wild, progVars>>

(* get_phy_fr_num(PT_ENTRY) finds no frame *)
TableFaultWild(v) ==
  /\ currpid \in Users /\ Running /\ (Stray \/ v \in Held(currpid))
  /\ Translate(v) = {} /\ ~CheckBit(currpid, v) /\ Table(v) \notin hpd[currpid]
  /\ ~(heap = 0 /\ swap = 0) /\ FreePt = {}
  /\ GoesWild

(* There is a table, and the page is not present in it.  The test of the
   counters, `< 0', is never true of an unsigned number. *)
PageFault(v) ==
  LET p == currpid IN
  /\ FaultAt(v) /\ ~CheckBit(p, v) /\ Table(v) \in hpd[p] /\ pte[p][v] = None
  /\ \E f \in Ffs :
       /\ Takes(f)
       /\ \/ /\ Load(<<p, v>>, f)
             /\ IF InSwap(<<p, v>>) THEN UNCHANGED <<heap, swap>> ELSE Count
             /\ UNCHANGED state
          \/ /\ NoSwap(f) /\ Dies(p, "nomem")
             /\ UNCHANGED <<pte, dirty, spaceVars>>
  /\ UNCHANGED <<currpid, pdbr, xpt, bits, ptab, hpd, wild, progVars>>

(* The page is present in the process's own tables: another directory was
   loaded. *)
OwnFault(v) ==
  /\ FaultAt(v) /\ ~CheckBit(currpid, v) /\ pte[currpid][v] # None
  /\ UNCHANGED <<state, currpid, tableVars, spaceVars, wild, progVars>>

(* The evicted page is copied to memory that is none of these frames. *)
EvictionWild ==
  /\ currpid \in Users /\ Running /\ \E f \in Ffs : Takes(f) /\ NoSwap(f)
  /\ \E v \in Pages : /\ Stray \/ v \in Held(currpid)
                      /\ Translate(v) = {} /\ ~CheckBit(currpid, v)
                      /\ pte[currpid][v] = None
  /\ GoesWild

(* A program writes x to a page that is present. *)
Write(v, x) ==
  /\ currpid \in Users /\ Running
  /\ Stray \/ v \in Held(currpid)
  /\ \E q \in Users :
       /\ pdbr[q] = cr3 /\ pte[q][v] # None
       /\ data' = [data EXCEPT ![pte[q][v]] = x]
       /\ dirty' = [dirty EXCEPT ![q] = @ \cup {v}]
  /\ mem' = [mem EXCEPT ![currpid][v] = x]
  /\ UNCHANGED <<state, currpid, loadVars, pdbr, xpt, bits, ptab, hpd, pte, ftab, stab,
                 older, heap, swap, lost, wild, created, blocks>>

(* ... or, after a vcreate that failed, to whatever is in the frame of the
   page's own address, past its page tables and their dirty bits. *)
WriteThrough(v, x) ==
  /\ currpid \in Users /\ Running
  /\ Stray \/ v \in Held(currpid)
  /\ cr3 = NullDir /\ v \in Frames
  /\ data' = [data EXCEPT ![v] = x] /\ lost' = TRUE
  /\ mem' = [mem EXCEPT ![currpid][v] = x]
  /\ UNCHANGED <<state, currpid, loadVars, tableVars, ftab, stab, older, heap, swap,
                 wild, created, blocks>>

Next ==
  \/ \E p \in Users : Vcreate(p) \/ VcreateWild(p) \/ Kill(p)
  \/ VcreateFails
  \/ \E q \in Procs : Switch(q) \/ Exit(q)
  \/ \E r \in Requests : Vmalloc(r)
  \/ currpid \in Users /\ \E b \in blocks[currpid] : Vfree(b)
  \/ \E v \in Pages : \/ SegmentationFault(v)
                      \/ TableFault(v) \/ TableFaultFails(v) \/ TableFaultWild(v)
                      \/ PageFault(v) \/ OwnFault(v)
  \/ \E v \in Pages, x \in Vals : Write(v, x) \/ WriteThrough(v, x)
  \/ EvictionWild

Spec == Init /\ [][Next]_vars

-----------------------------------------------------------------------------
(* Properties *)

Slots == (Users \X Pages) \cup {NoPage}
BlockRecords == [start : Pages, full : Nat, rest : {0, 1}]

(* Every variable has its type. *)
TypeOK ==
  /\ state \in [Users -> {"free", "live", "segv", "nomem"}]
  /\ currpid \in Procs /\ cr3 \in PtFrames \cup {NullDir} /\ refused \in BOOLEAN
  /\ pdbr \in [Users -> PtFrames \cup {NullDir}]
  /\ xpt \in [Users -> [0..(T - 1) -> PtFrames \cup {None}]]
  /\ bits \in [PtFrames -> [0..(E - 1) -> SUBSET {1, 2, 3}]]
  /\ ptab \in [PtFrames -> Users \cup {Nobody}]
  /\ hpd \in [Users -> SUBSET HeapTables]
  /\ pte \in [Users -> [Pages -> Ffs \cup {None}]]
  /\ dirty \in [Users -> SUBSET Pages]
  /\ ftab \in [Ffs -> Slots] /\ stab \in [Swap -> Slots]
  /\ older \subseteq Ffs \X Ffs
  /\ data \in [Frames -> Vals \cup {Junk}]
  /\ heap \in 0..(WORD - 1) /\ swap \in 0..(WORD - 1)
  /\ wild \in BOOLEAN /\ lost \in BOOLEAN
  /\ created \in 0..MaxCreate
  /\ \A p \in Users : blocks[p] \subseteq BlockRecords
  /\ mem \in [Users -> [Pages -> Vals \cup {Unknown}]]

(* The page tables and the table of FFS frames say the same: a page is present
   in a frame if and only if the frame's entry names that page, so that no
   frame is mapped twice (get_phy_fr_num, the fault handler, kill). *)
TablesAgree ==
  \A p \in Users, v \in Pages, f \in Ffs :
    pte[p][v] = f <=> ftab[f] = <<p, v>>

(* A page has one copy in the swap space: the handler's search, which takes the
   last it finds, and the eviction's, which takes the first, find the same. *)
OneCopy == \A s, t \in Swap : stab[s] = stab[t] /\ stab[s] # NoPage => s = t

(* Through the page directory of a process of vcreate, whosever it is, the
   current process reaches no FFS frame of another process: even in the
   creator, which goes on with the directory of the process it created.  The
   null process's directory, which reaches them all, is loaded in a process
   with a heap only after its own vcreate has failed, and no longer than until
   it is switched out, allocates or frees. *)
PrivateFrames ==
  /\ cr3 # NullDir => \A v \in Pages : \A f \in Translate(v) : ftab[f] = <<currpid, v>>
  /\ cr3 = NullDir /\ currpid \in Users => refused

(* Every frame taken belongs to a process that has not ended: kill returns the
   tables, the FFS frames and the swap frames of a process. *)
TablesHoldLiving ==
  LET Living(p) == p \in Users => state[p] # "free" IN
  /\ \A f \in PtFrames : Living(ptab[f])
  /\ \A f \in Ffs : Living(ftab[f][1])
  /\ \A s \in Swap : Living(stab[s][1])

(* What a process wrote last to a page of its heap is what the page holds,
   wherever it is now: through evictions by other processes, and back; unless
   a write went to a frame that is not the page's, which `lost' remembers.
   (Through the directory a failed vcreate leaves, a process also reads some
   other frame than its page's.) *)
Stored(p, v) ==
  IF pte[p][v] # None THEN data[pte[p][v]]
  ELSE IF InSwap(<<p, v>>) THEN data[CHOOSE s \in Copies(<<p, v>>) : TRUE] ELSE Junk
ReadsBack ==
  ~lost => \A p \in Users, v \in Pages :
             mem[p][v] # Unknown => Stored(p, v) = mem[p][v]

(* A page that is present and clean may be dropped when it has a copy in the
   swap space: the copy is the same, unless one was hit by such a write. *)
SwapCopyFresh ==
  ~lost => \A p \in Users, v \in Pages :
             pte[p][v] # None /\ v \notin dirty[p] =>
               \A s \in Copies(<<p, v>>) : data[s] = data[pte[p][v]]

(* A fault always finds a frame: where none is free, one of those taken is
   older than all others, so that lru_fr_index is assigned. *)
FrameFound == \E f \in Ffs : Takes(f)

(* available_heap_size never reports fewer free FFS frames than there are, so
   the handler does not charge the swap space while frames are free. *)
HeapCountCovers == heap >= Cardinality(FreeFfs)

-----------------------------------------------------------------------------
(* What project4.pdf says, and the code does not do *)

(* Page 3: "Accesses to pages that have not been previously allocated must
   cause a segmentation fault", and others not: where no program strays there
   is none. *)
AllocatedNeverFaults == ~Stray => \A p \in Users : state[p] # "segv"

(* Page 2 on vmalloc, which allocates space off the heap: not twice. *)
BlocksDisjoint ==
  \A p \in Users : \A b, c \in blocks[p] : b # c => PagesOf(b) \cap PagesOf(c) = {}
=============================================================================
