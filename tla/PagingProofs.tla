---------------------------- MODULE PagingProofs ----------------------------
(***************************************************************************)
(* Theorems about Paging, for any number of processes, page tables and     *)
(* frames.                                                                 *)
(*                                                                         *)
(* The page tables and the tables of frames agree only because no step     *)
(* maps a page that is present already: the handler tests the present bit  *)
(* in a table that exists, and takes a page without a table to be absent   *)
(* (PresentHasTable).  A process sees no page of another because living    *)
(* processes have different directories (OwnDirectory), and because the    *)
(* directory vcreate leaves behind in its creator is that of a process     *)
(* that has not run (OthersEmpty).  The directory of the null process,     *)
(* which has every frame, is left in a process with a heap by a vcreate    *)
(* that fails, and by nothing else (NullRefused).                          *)
(***************************************************************************)
EXTENDS Paging, TLAPS

HasTables == {Table(v) : v \in Pages}

Types ==
  /\ state \in [Users -> {"free", "live", "segv", "nomem"}]
  /\ currpid \in Procs /\ (currpid \in Users => state[currpid] # "free")
  /\ pdbr \in [Users -> PtFrames \cup {NullDir}]
  /\ ptab \in [PtFrames -> Users \cup {Nobody}]
  /\ hpd \in [Users -> SUBSET HasTables]
  /\ pte \in [Users -> [Pages -> Ffs \cup {None}]]
  /\ ftab \in [Ffs -> Slots] /\ stab \in [Swap -> Slots]

PresentHasTable ==
  \A p \in Users, v \in Pages : pte[p][v] # None => Table(v) \in hpd[p]

OwnDirectory ==
  \A p \in Users : state[p] # "free" => pdbr[p] \in PtFrames /\ ptab[pdbr[p]] = p

FreeHasNothing ==
  \A p \in Users : state[p] = "free" =>
    pdbr[p] = NullDir /\ hpd[p] = {} /\ \A v \in Pages : pte[p][v] = None

OthersEmpty ==
  \A q \in Users : q # currpid /\ pdbr[q] = cr3 => \A v \in Pages : pte[q][v] = None

PagingInv ==
  /\ Types /\ TablesAgree /\ TablesHoldLiving /\ OneCopy
  /\ PresentHasTable /\ OwnDirectory /\ FreeHasNothing /\ OthersEmpty

-----------------------------------------------------------------------------

LEMMA Numbers ==
  /\ None \notin Ffs /\ NullDir \notin PtFrames
  /\ Nobody \notin Users /\ Main \notin Users /\ Nobody # Main
PROOF
<1>1. NFFS \in Nat /\ NPT \in Nat
  BY AreaSizes
<1> QED BY <1>1, ProcessIds DEF None, Ffs, NullDir, PtFrames

(* No other process shows anything through the directory of one that runs. *)
LEMMA DirectoriesDiffer ==
  ASSUME PagingInv, NEW p \in Users, state[p] # "free",
         NEW q \in Users, q # p, pdbr[q] = pdbr[p]
  PROVE  \A v \in Pages : pte[q][v] = None
PROOF
<1>1. pdbr[p] \in PtFrames /\ ptab[pdbr[p]] = p
  BY DEF PagingInv, OwnDirectory
<1>2. state[q] = "free"
  BY <1>1 DEF PagingInv, OwnDirectory
<1> QED BY <1>2 DEF PagingInv, FreeHasNothing

(* Nor through the directory of the null process. *)
LEMMA NullDirEmpty ==
  ASSUME PagingInv, NEW q \in Users, pdbr[q] = NullDir
  PROVE  \A v \in Pages : pte[q][v] = None
PROOF
<1>1. state[q] = "free"
  BY Numbers DEF PagingInv, OwnDirectory
<1> QED BY <1>1 DEF PagingInv, FreeHasNothing

LEMMA DirEmpty ==
  ASSUME PagingInv, NEW p \in Procs, p \in Users => state[p] # "free",
         NEW q \in Users, q # p, pdbr[q] = Dir(p)
  PROVE  \A v \in Pages : pte[q][v] = None
PROOF
<1>1. CASE p \in Users
  <2>1. Dir(p) = pdbr[p]
    BY <1>1, Numbers DEF Dir
  <2> QED BY <1>1, <2>1, DirectoriesDiffer
<1>2. CASE p = Main
  BY <1>2, NullDirEmpty DEF Dir
<1> QED BY <1>1, <1>2 DEF Procs

(* What a frame taken for the absent page v of p leaves of the tables. *)
LEMMA LoadTables ==
  ASSUME PagingInv, NEW p \in Users, state[p] # "free", NEW v \in Pages,
         pte[p][v] = None, NEW f \in Ffs, Load(<<p, v>>, f)
  PROVE  /\ pte' \in [Users -> [Pages -> Ffs \cup {None}]]
         /\ ftab' \in [Ffs -> Slots]
         /\ TablesAgree'
         /\ \A q \in Users, w \in Pages :
              pte'[q][w] # None => pte[q][w] # None \/ (q = p /\ w = v)
         /\ \A g \in Ffs : ftab'[g][1] = p \/ ftab'[g] = ftab[g]
PROOF
<1>1. /\ ftab' = [ftab EXCEPT ![f] = <<p, v>>]
      /\ pte' = [q \in Users |-> [w \in Pages |->
                   IF <<q, w>> = <<p, v>> THEN f
                   ELSE IF <<q, w>> = ftab[f] THEN None ELSE pte[q][w]]]
  BY DEF Load, Mapping
<1>2. /\ pte \in [Users -> [Pages -> Ffs \cup {None}]] /\ ftab \in [Ffs -> Slots]
      /\ TablesAgree
  BY DEF PagingInv, Types
<1>3. pte' \in [Users -> [Pages -> Ffs \cup {None}]]
  BY <1>1, <1>2
<1>4. <<p, v>> \in Slots
  BY DEF Slots
<1>5. ftab' \in [Ffs -> Slots]
  BY <1>1, <1>2, <1>4
<1>6. ASSUME NEW q \in Users, NEW w \in Pages, NEW g \in Ffs
      PROVE  pte'[q][w] = g <=> ftab'[g] = <<q, w>>
  <2>1. /\ pte'[q][w] = IF <<q, w>> = <<p, v>> THEN f
                        ELSE IF <<q, w>> = ftab[f] THEN None ELSE pte[q][w]
        /\ ftab'[g] = IF g = f THEN <<p, v>> ELSE ftab[g]
    BY <1>1, <1>2
  <2>2. /\ pte[q][w] = g <=> ftab[g] = <<q, w>>
        /\ pte[q][w] = f <=> ftab[f] = <<q, w>>
        /\ pte[p][v] = g <=> ftab[g] = <<p, v>>
    BY <1>2 DEF TablesAgree
  <2>3. CASE <<q, w>> = <<p, v>>
    <3>1. CASE g = f
      BY <2>1, <2>3, <3>1
    <3>2. CASE g # f
      BY <2>1, <2>2, <2>3, <3>2, Numbers
    <3> QED BY <3>1, <3>2
  <2>4. CASE <<q, w>> # <<p, v>> /\ <<q, w>> = ftab[f]
    BY <2>1, <2>2, <2>4, Numbers
  <2>5. CASE <<q, w>> # <<p, v>> /\ <<q, w>> # ftab[f]
    BY <2>1, <2>2, <2>5
  <2> QED BY <2>3, <2>4, <2>5
<1>7. TablesAgree'
  BY <1>6 DEF TablesAgree
<1>8. \A q \in Users, w \in Pages :
        pte'[q][w] # None => pte[q][w] # None \/ (q = p /\ w = v)
  BY <1>1
<1>9. \A g \in Ffs : ftab'[g][1] = p \/ ftab'[g] = ftab[g]
  BY <1>1, <1>2
<1> QED BY <1>3, <1>5, <1>7, <1>8, <1>9

(* And what the eviction leaves of the table of swap frames. *)
LEMMA LoadSwap ==
  ASSUME PagingInv, NEW pg, NEW f \in Ffs, Load(pg, f)
  PROVE  /\ stab' \in [Swap -> Slots]
         /\ OneCopy'
         /\ \A s \in Swap : stab'[s] = stab[s] \/ stab'[s] = ftab[f]
PROOF
<1>0. /\ ftab[f] \in Slots /\ stab \in [Swap -> Slots] /\ OneCopy
  BY DEF PagingInv, Types
<1>1. CASE UNCHANGED stab
  BY <1>0, <1>1 DEF OneCopy
<1>2. ASSUME NEW s \in Swap,
             IF InSwap(ftab[f]) THEN s \in Copies(ftab[f]) ELSE IsFirst(s, FreeSwap),
             stab' = [stab EXCEPT ![s] = ftab[f]]
      PROVE  /\ stab' \in [Swap -> Slots]
             /\ OneCopy'
             /\ \A t \in Swap : stab'[t] = stab[t] \/ stab'[t] = ftab[f]
  <2>1. \A t \in Swap : stab'[t] = IF t = s THEN ftab[f] ELSE stab[t]
    BY <1>0, <1>2
  <2>2. CASE InSwap(ftab[f])
    <3>1. stab[s] = ftab[f]
      BY <1>2, <2>2 DEF Copies
    <3> QED BY <1>0, <1>2, <2>1, <3>1 DEF OneCopy
  <2>3. CASE ~InSwap(ftab[f])
    <3>1. \A t \in Swap : stab[t] # ftab[f]
      BY <2>3 DEF InSwap, Copies
    <3> QED BY <1>0, <1>2, <2>1, <3>1 DEF OneCopy
  <2> QED BY <2>2, <2>3
<1> QED BY <1>1, <1>2 DEF Load
-----------------------------------------------------------------------------
(* The initial states *)

LEMMA InitPaging == Init => PagingInv
PROOF
<1> SUFFICES ASSUME Init PROVE PagingInv
  OBVIOUS
<1> USE Numbers
<1>1. Types
  BY DEF Init, Types, Procs, Slots, NoPage
<1>2. TablesAgree
  <2> SUFFICES ASSUME NEW p \in Users, NEW v \in Pages, NEW f \in Ffs
               PROVE  pte[p][v] = f <=> ftab[f] = <<p, v>>
    BY DEF TablesAgree
  <2>1. pte[p][v] = None /\ ftab[f] = <<Nobody, 0>>
    BY DEF Init, NoPage
  <2> QED BY <2>1
<1>3. TablesHoldLiving
  BY DEF Init, TablesHoldLiving, NoPage
<1>4. OneCopy
  BY DEF Init, OneCopy
<1>5. PresentHasTable /\ OwnDirectory /\ FreeHasNothing /\ OthersEmpty
  BY DEF Init, PresentHasTable, OwnDirectory, FreeHasNothing, OthersEmpty
<1> QED BY <1>1, <1>2, <1>3, <1>4, <1>5 DEF PagingInv

-----------------------------------------------------------------------------
(* Steps that leave the tables as they are *)

(* The tables of frames, and those of the processes. *)
frameTables == <<pdbr, ptab, hpd, pte, ftab, stab>>

LEMMA TablesKept ==
  ASSUME PagingInv, UNCHANGED frameTables,
         state' \in [Users -> {"free", "live", "segv", "nomem"}],
         \A p \in Users : state'[p] = "free" <=> state[p] = "free",
         currpid' \in Procs, currpid' \in Users => state'[currpid'] # "free",
         OthersEmpty'
  PROVE  PagingInv'
PROOF
<1> USE DEF PagingInv, frameTables
<1>1. Types'
  BY DEF Types
<1>2. TablesAgree'
  BY DEF TablesAgree
<1>3. TablesHoldLiving'
  BY DEF TablesHoldLiving
<1>4. OneCopy'
  BY DEF OneCopy
<1>5. PresentHasTable' /\ OwnDirectory' /\ FreeHasNothing'
  BY DEF PresentHasTable, OwnDirectory, FreeHasNothing
<1> QED BY <1>1, <1>2, <1>3, <1>4, <1>5

(* A step after which a process runs on its own directory. *)
LEMMA OwnDirKeeps ==
  ASSUME PagingInv, UNCHANGED frameTables,
         state' \in [Users -> {"free", "live", "segv", "nomem"}],
         \A p \in Users : state'[p] = "free" <=> state[p] = "free",
         currpid' \in Procs, currpid' \in Users => state[currpid'] # "free",
         cr3' = Dir(currpid')
  PROVE  PagingInv'
PROOF
<1>1. OthersEmpty'
  BY DirEmpty DEF OthersEmpty, frameTables
<1> QED BY <1>1, TablesKept

LEMMA DirOfCurrent ==
  ASSUME currpid \in Users
  PROVE  Dir(currpid) = pdbr[currpid]
PROOF BY Numbers DEF Dir

LEMMA SwitchKeeps ==
  ASSUME PagingInv, NEW q \in Procs, Switch(q)
  PROVE  PagingInv'
PROOF
<1>1. /\ UNCHANGED frameTables /\ UNCHANGED state
      /\ currpid' = q /\ cr3' = Dir(q) /\ (q \in Users => state[q] # "free")
  BY DEF Switch, CanRun, WriteCr3, frameTables, tableVars, spaceVars
<1> QED BY <1>1, OwnDirKeeps DEF PagingInv, Types

LEMMA GoesWildKeeps ==
  ASSUME PagingInv, GoesWild
  PROVE  PagingInv'
PROOF
<1>1. UNCHANGED frameTables /\ UNCHANGED <<state, currpid, cr3>>
  BY DEF GoesWild, frameTables, tableVars, spaceVars, loadVars
<1>2. OthersEmpty'
  BY <1>1 DEF PagingInv, OthersEmpty, frameTables
<1> QED BY <1>1, <1>2, TablesKept DEF PagingInv, Types

LEMMA StutterKeeps ==
  ASSUME PagingInv, UNCHANGED vars
  PROVE  PagingInv'
PROOF
<1>1. UNCHANGED frameTables /\ UNCHANGED <<state, currpid, cr3>>
  BY DEF vars, frameTables, tableVars, spaceVars, loadVars
<1>2. OthersEmpty'
  BY <1>1 DEF PagingInv, OthersEmpty, frameTables
<1> QED BY <1>1, <1>2, TablesKept DEF PagingInv, Types

LEMMA WriteKeeps ==
  ASSUME PagingInv, NEW v \in Pages, NEW x \in Vals, Write(v, x)
  PROVE  PagingInv'
PROOF
<1>1. UNCHANGED frameTables /\ UNCHANGED <<state, currpid, cr3>>
  BY DEF Write, frameTables, loadVars
<1>2. OthersEmpty'
  BY <1>1 DEF PagingInv, OthersEmpty, frameTables
<1> QED BY <1>1, <1>2, TablesKept DEF PagingInv, Types

LEMMA WriteThroughKeeps ==
  ASSUME PagingInv, NEW v \in Pages, NEW x \in Vals, WriteThrough(v, x)
  PROVE  PagingInv'
PROOF
<1>1. UNCHANGED frameTables /\ UNCHANGED <<state, currpid, cr3>>
  BY DEF WriteThrough, frameTables, tableVars, loadVars
<1>2. OthersEmpty'
  BY <1>1 DEF PagingInv, OthersEmpty, frameTables
<1> QED BY <1>1, <1>2, TablesKept DEF PagingInv, Types

(* The directory a failed vcreate leaves shows no page of a process. *)
LEMMA VcreateFailsKeeps ==
  ASSUME PagingInv, VcreateFails
  PROVE  PagingInv'
PROOF
<1>1. UNCHANGED frameTables /\ UNCHANGED <<state, currpid>> /\ cr3' = NullDir
  BY DEF VcreateFails, frameTables, tableVars, spaceVars
<1>2. OthersEmpty'
  BY <1>1, NullDirEmpty DEF OthersEmpty, frameTables
<1> QED BY <1>1, <1>2, TablesKept DEF PagingInv, Types

LEMMA VmallocKeeps ==
  ASSUME PagingInv, NEW r \in Requests, Vmalloc(r)
  PROVE  PagingInv'
PROOF
<1>1. /\ UNCHANGED frameTables /\ UNCHANGED <<state, currpid>>
      /\ currpid \in Users /\ cr3' = pdbr[currpid]
  BY DEF Vmalloc, WriteCr3, frameTables, spaceVars
<1> QED BY <1>1, DirOfCurrent, OwnDirKeeps DEF PagingInv, Types

(* Faults that end in a kill, or find the page present. *)
LEMMA FailedFaultKeeps ==
  ASSUME PagingInv, NEW v \in Pages,
         SegmentationFault(v) \/ TableFaultFails(v) \/ OwnFault(v)
  PROVE  PagingInv'
PROOF
<1>1. /\ UNCHANGED frameTables /\ UNCHANGED currpid
      /\ currpid \in Users /\ cr3' = pdbr[currpid] /\ state[currpid] = "live"
      /\ \/ UNCHANGED state
         \/ state' = [state EXCEPT ![currpid] = "segv"]
         \/ state' = [state EXCEPT ![currpid] = "nomem"]
  BY DEF SegmentationFault, TableFaultFails, OwnFault, FaultAt, WriteCr3, Running, Dies,
         frameTables, tableVars, spaceVars
<1>2. state \in [Users -> {"free", "live", "segv", "nomem"}]
  BY DEF PagingInv, Types
<1>3. /\ state' \in [Users -> {"free", "live", "segv", "nomem"}]
      /\ \A p \in Users : state'[p] = "free" <=> state[p] = "free"
  BY <1>1, <1>2
<1> QED BY <1>1, <1>3, DirOfCurrent, OwnDirKeeps DEF PagingInv, Types
-----------------------------------------------------------------------------
(* vfree *)

LEMMA VfreeKeeps ==
  ASSUME PagingInv, currpid \in Users, NEW b \in blocks[currpid], Vfree(b)
  PROVE  PagingInv'
PROOF
<1>1. CASE GoesWild
  BY <1>1, GoesWildKeeps
<1>2. CASE /\ stab' = FreeCopyOf(stab, currpid, b.start)
           /\ cr3' = pdbr[currpid]
           /\ UNCHANGED <<state, currpid, pdbr, ptab, hpd, pte, ftab>>
  <2>1. \A s \in Swap : stab'[s] = stab[s] \/ stab'[s] = NoPage
    BY <1>2 DEF FreeCopyOf
  <2>2. stab' \in [Swap -> Slots]
    BY <1>2 DEF FreeCopyOf, PagingInv, Types, Slots
  <2>3. Types'
    BY <1>2, <2>2 DEF PagingInv, Types
  <2>4. TablesHoldLiving'
    BY <1>2, <2>1, Numbers DEF PagingInv, TablesHoldLiving, NoPage
  <2>5. OneCopy'
    BY <2>1 DEF PagingInv, OneCopy
  <2>6. OthersEmpty'
    BY <1>2, DirectoriesDiffer DEF OthersEmpty, PagingInv, Types
  <2> QED BY <1>2, <2>3, <2>4, <2>5, <2>6
          DEF PagingInv, TablesAgree, PresentHasTable, OwnDirectory, FreeHasNothing
<1> QED BY <1>1, <1>2 DEF Vfree, WriteCr3

-----------------------------------------------------------------------------
(* vcreate *)

LEMMA VcreateKeeps ==
  ASSUME PagingInv, NEW p \in Users, Vcreate(p)
  PROVE  PagingInv'
PROOF
<1>0. state[p] = "free"
  BY DEF Vcreate
<1>1. PICK dir \in FreePt, tabs \in [0..(T - 1) -> FreePt] :
        /\ ptab' = [f \in PtFrames |->
             IF f \in {tabs[i] : i \in 0..(T - 1)} \cup {dir} THEN p ELSE ptab[f]]
        /\ pdbr' = [pdbr EXCEPT ![p] = dir]
        /\ cr3' = dir
  BY DEF Vcreate, WriteCr3
<1>2. /\ state' = [state EXCEPT ![p] = "live"]
      /\ UNCHANGED <<currpid, hpd, pte, ftab, stab>>
  BY DEF Vcreate, spaceVars
<1>3. dir \in PtFrames /\ ptab[dir] = Nobody /\ ptab'[dir] = p
  BY <1>1 DEF FreePt
<1>4. \A f \in PtFrames : ptab'[f] = ptab[f] \/ (ptab[f] = Nobody /\ ptab'[f] = p)
  BY <1>1 DEF FreePt
<1>5. Types /\ TablesAgree /\ TablesHoldLiving
  BY DEF PagingInv
<1>6. Types'
  BY <1>1, <1>2, <1>3, <1>5 DEF Types
<1>7. TablesAgree'
  BY <1>2, <1>5 DEF TablesAgree
<1>8. \A q \in Users : state[q] # "free" => state'[q] # "free"
  BY <1>2, <1>5 DEF Types
<1>9. state'[p] # "free"
  BY <1>2, <1>5 DEF Types
<1>10. TablesHoldLiving'
  BY <1>2, <1>4, <1>5, <1>8, <1>9 DEF TablesHoldLiving
<1>11. OneCopy' /\ PresentHasTable'
  BY <1>2 DEF PagingInv, OneCopy, PresentHasTable
<1>12. OwnDirectory'
  <2> SUFFICES ASSUME NEW q \in Users, state'[q] # "free"
               PROVE  pdbr'[q] \in PtFrames /\ ptab'[pdbr'[q]] = q
    BY DEF OwnDirectory
  <2>1. CASE q = p
    BY <2>1, <1>1, <1>3, <1>5 DEF Types
  <2>2. CASE q # p
    <3>1. state[q] # "free" /\ pdbr'[q] = pdbr[q]
      BY <2>2, <1>1, <1>2, <1>5 DEF Types
    <3>2. pdbr[q] \in PtFrames /\ ptab[pdbr[q]] = q
      BY <3>1 DEF PagingInv, OwnDirectory
    <3> QED BY <3>1, <3>2, <1>4, Numbers
  <2> QED BY <2>1, <2>2
<1>13. FreeHasNothing'
  BY <1>1, <1>2, <1>5, <1>9 DEF PagingInv, FreeHasNothing, Types
<1>14. OthersEmpty'
  <2> SUFFICES ASSUME NEW q \in Users, pdbr'[q] = dir, NEW v \in Pages
               PROVE  pte[q][v] = None
    BY <1>1, <1>2 DEF OthersEmpty
  <2>1. CASE state[q] = "free"
    BY <2>1 DEF PagingInv, FreeHasNothing
  <2>2. CASE state[q] # "free"
    <3>1. q # p /\ pdbr'[q] = pdbr[q]
      BY <2>2, <1>0, <1>1, <1>5 DEF Types
    <3>2. ptab[dir] = q
      BY <2>2, <3>1 DEF PagingInv, OwnDirectory
    <3> QED BY <3>2, <1>3, Numbers
  <2> QED BY <2>1, <2>2
<1> QED BY <1>6, <1>7, <1>10, <1>11, <1>12, <1>13, <1>14 DEF PagingInv

-----------------------------------------------------------------------------
(* kill *)

LEMMA KillFramesKeeps ==
  ASSUME PagingInv, NEW p \in Users, KillFrames(p),
         currpid' \in Procs, currpid' # p, currpid' \in Users => state[currpid'] # "free"
  PROVE  /\ Types' /\ TablesAgree' /\ TablesHoldLiving' /\ OneCopy'
         /\ PresentHasTable' /\ OwnDirectory' /\ FreeHasNothing'
PROOF
<1>1. /\ state' = [state EXCEPT ![p] = "free"]
      /\ ptab' = [f \in PtFrames |-> IF ptab[f] = p THEN Nobody ELSE ptab[f]]
      /\ ftab' = [f \in DOMAIN ftab |-> IF ftab[f][1] = p THEN NoPage ELSE ftab[f]]
      /\ stab' = [s \in DOMAIN stab |-> IF stab[s][1] = p THEN NoPage ELSE stab[s]]
      /\ pdbr' = [pdbr EXCEPT ![p] = NullDir]
      /\ hpd' = [hpd EXCEPT ![p] = {}]
      /\ pte' = [pte EXCEPT ![p] = [v \in Pages |-> None]]
  BY DEF KillFrames, Without
<1>2. Types /\ TablesAgree /\ TablesHoldLiving /\ OneCopy
  BY DEF PagingInv
<1>3. /\ ftab' = [f \in Ffs |-> IF ftab[f][1] = p THEN NoPage ELSE ftab[f]]
      /\ stab' = [s \in Swap |-> IF stab[s][1] = p THEN NoPage ELSE stab[s]]
  BY <1>1, <1>2 DEF Types
<1>4. NoPage \in Slots /\ NoPage[1] = Nobody
  BY DEF Slots, NoPage
<1>5. Types'
  BY <1>1, <1>2, <1>3, <1>4 DEF Types
<1>6. TablesAgree'
  <2> SUFFICES ASSUME NEW q \in Users, NEW v \in Pages, NEW f \in Ffs
               PROVE  pte'[q][v] = f <=> ftab'[f] = <<q, v>>
    BY DEF TablesAgree
  <2>1. pte[q][v] = f <=> ftab[f] = <<q, v>>
    BY <1>2 DEF TablesAgree
  <2>2. CASE q = p
    <3>1. pte'[q][v] = None
      BY <2>2, <1>1, <1>2 DEF Types
    <3>2. ftab'[f] # <<q, v>>
      BY <2>2, <1>3, Numbers DEF NoPage
    <3> QED BY <3>1, <3>2, Numbers
  <2>3. CASE q # p
    <3>1. pte'[q][v] = pte[q][v]
      BY <2>3, <1>1, <1>2 DEF Types
    <3>2. ftab'[f] = <<q, v>> <=> ftab[f] = <<q, v>>
      BY <2>3, <1>3, Numbers DEF NoPage
    <3> QED BY <2>1, <3>1, <3>2
  <2> QED BY <2>2, <2>3
<1>7. \A q \in Users : q # p => (state'[q] = "free" <=> state[q] = "free")
  BY <1>1, <1>2 DEF Types
<1>8. TablesHoldLiving'
  <2>1. \A f \in PtFrames : ptab'[f] # p /\ (ptab'[f] = Nobody \/ ptab'[f] = ptab[f])
    BY <1>1, Numbers
  <2>2. \A f \in Ffs : ftab'[f][1] # p /\ (ftab'[f][1] = Nobody \/ ftab'[f] = ftab[f])
    BY <1>3, <1>4, Numbers
  <2>3. \A s \in Swap : stab'[s][1] # p /\ (stab'[s][1] = Nobody \/ stab'[s] = stab[s])
    BY <1>3, <1>4, Numbers
  <2> QED BY <2>1, <2>2, <2>3, <1>2, <1>7, Numbers DEF TablesHoldLiving
<1>9. OneCopy'
  BY <1>2, <1>3 DEF OneCopy
<1>10. PresentHasTable'
  BY <1>1, <1>2 DEF PagingInv, PresentHasTable, Types
<1>11. OwnDirectory'
  <2> SUFFICES ASSUME NEW q \in Users, state'[q] # "free"
               PROVE  pdbr'[q] \in PtFrames /\ ptab'[pdbr'[q]] = q
    BY DEF OwnDirectory
  <2>1. q # p /\ state[q] # "free"
    BY <1>1, <1>2 DEF Types
  <2>2. pdbr'[q] = pdbr[q] /\ pdbr[q] \in PtFrames /\ ptab[pdbr[q]] = q
    BY <2>1, <1>1, <1>2 DEF PagingInv, OwnDirectory, Types
  <2> QED BY <2>1, <2>2, <1>1
<1>12. FreeHasNothing'
  BY <1>1, <1>2, <1>7 DEF PagingInv, FreeHasNothing, Types
<1> QED BY <1>5, <1>6, <1>8, <1>9, <1>10, <1>11, <1>12

LEMMA KillKeeps ==
  ASSUME PagingInv, NEW p \in Users, Kill(p)
  PROVE  PagingInv'
PROOF
<1>1. /\ p # currpid /\ KillFrames(p) /\ UNCHANGED <<currpid, cr3>>
      /\ currpid \in Procs /\ (currpid \in Users => state[currpid] # "free")
  BY DEF Kill, PagingInv, Types, loadVars
<1>2. /\ pdbr' = [pdbr EXCEPT ![p] = NullDir]
      /\ pte' = [pte EXCEPT ![p] = [v \in Pages |-> None]]
      /\ pdbr \in [Users -> PtFrames \cup {NullDir}]
      /\ pte \in [Users -> [Pages -> Ffs \cup {None}]]
  BY <1>1 DEF KillFrames, PagingInv, Types
<1>3. OthersEmpty'
  BY <1>1, <1>2 DEF PagingInv, OthersEmpty
<1> QED BY <1>1, <1>3, KillFramesKeeps DEF PagingInv

LEMMA ExitKeeps ==
  ASSUME PagingInv, NEW q \in Procs, Exit(q)
  PROVE  PagingInv'
PROOF
<1>1. /\ currpid \in Users /\ KillFrames(currpid)
      /\ currpid' = q /\ q # currpid /\ cr3' = Dir(q)
      /\ (q \in Users => state[q] # "free")
  BY DEF Exit, CanRun, WriteCr3
<1>2. /\ pdbr' = [pdbr EXCEPT ![currpid] = NullDir]
      /\ pte' = [pte EXCEPT ![currpid] = [v \in Pages |-> None]]
      /\ pdbr \in [Users -> PtFrames \cup {NullDir}]
      /\ pte \in [Users -> [Pages -> Ffs \cup {None}]]
  BY <1>1 DEF KillFrames, PagingInv, Types
<1>3. OthersEmpty'
  <2> SUFFICES ASSUME NEW r \in Users, r # q, pdbr'[r] = Dir(q), NEW v \in Pages
               PROVE  pte'[r][v] = None
    BY <1>1 DEF OthersEmpty
  <2>1. CASE r = currpid
    BY <2>1, <1>2
  <2>2. CASE r # currpid
    <3>1. pdbr[r] = Dir(q) /\ pte'[r] = pte[r]
      BY <2>2, <1>2
    <3> QED BY <3>1, <1>1, DirEmpty
  <2> QED BY <2>1, <2>2
<1> QED BY <1>1, <1>3, KillFramesKeeps DEF PagingInv
-----------------------------------------------------------------------------
(* Faults that load a page *)

(* A fault of p at v after which the page is present, or p is to be killed. *)
LEMMA FaultKeeps ==
  ASSUME PagingInv, NEW v \in Pages,
         currpid \in Users, state[currpid] = "live", pte[currpid][v] = None,
         UNCHANGED <<currpid, pdbr>>, cr3' = pdbr[currpid],
         \A g \in PtFrames : \/ ptab'[g] = ptab[g]
                             \/ ptab[g] = Nobody /\ ptab'[g] = currpid,
         ptab' \in [PtFrames -> Users \cup {Nobody}],
         hpd' = [hpd EXCEPT ![currpid] = @ \cup {Table(v)}],
         \/ UNCHANGED state /\ \E f \in Ffs : Load(<<currpid, v>>, f)
         \/ UNCHANGED <<pte, ftab, stab>> /\ Dies(currpid, "nomem")
  PROVE  PagingInv'
PROOF
<1>0. Types /\ TablesAgree /\ TablesHoldLiving /\ OneCopy
  BY DEF PagingInv
<1>1. /\ state' \in [Users -> {"free", "live", "segv", "nomem"}]
      /\ \A p \in Users : state'[p] = "free" <=> state[p] = "free"
  BY <1>0 DEF Types, Dies
<1>2. /\ pte' \in [Users -> [Pages -> Ffs \cup {None}]]
      /\ ftab' \in [Ffs -> Slots] /\ stab' \in [Swap -> Slots]
      /\ TablesAgree' /\ OneCopy'
      /\ \A q \in Users, w \in Pages :
           pte'[q][w] # None => pte[q][w] # None \/ (q = currpid /\ w = v)
      /\ \A g \in Ffs : ftab'[g][1] = currpid \/ ftab'[g] = ftab[g]
      /\ \A s \in Swap : stab'[s] = stab[s] \/ \E g \in Ffs : stab'[s] = ftab[g]
  <2>1. CASE \E f \in Ffs : Load(<<currpid, v>>, f)
    <3>1. PICK f \in Ffs : Load(<<currpid, v>>, f)
      BY <2>1
    <3> QED BY <3>1, LoadTables, LoadSwap
  <2>2. CASE UNCHANGED <<pte, ftab, stab>>
    BY <2>2, <1>0 DEF Types, TablesAgree, OneCopy
  <2> QED BY <2>1, <2>2
<1>3. Types'
  <2>1. hpd' \in [Users -> SUBSET HasTables]
    BY <1>0 DEF Types, HasTables
  <2> QED BY <2>1, <1>0, <1>1, <1>2 DEF Types
<1>4. TablesHoldLiving'
  <2>1. \A f \in PtFrames : ptab'[f] \in Users => state'[ptab'[f]] # "free"
    BY <1>0, <1>1 DEF TablesHoldLiving
  <2>2. \A f \in Ffs : ftab'[f][1] \in Users => state'[ftab'[f][1]] # "free"
    BY <1>0, <1>1, <1>2 DEF TablesHoldLiving
  <2>3. \A s \in Swap : stab'[s][1] \in Users => state'[stab'[s][1]] # "free"
    BY <1>0, <1>1, <1>2 DEF TablesHoldLiving
  <2> QED BY <2>1, <2>2, <2>3 DEF TablesHoldLiving
<1>5. PresentHasTable'
  <2> SUFFICES ASSUME NEW q \in Users, NEW w \in Pages, pte'[q][w] # None
               PROVE  Table(w) \in hpd'[q]
    BY DEF PresentHasTable
  <2>1. CASE pte[q][w] # None
    BY <2>1, <1>0 DEF PagingInv, PresentHasTable, Types
  <2>2. CASE q = currpid /\ w = v
    BY <2>2, <1>0 DEF Types
  <2> QED BY <2>1, <2>2, <1>2
<1>6. OwnDirectory'
  <2> SUFFICES ASSUME NEW q \in Users, state'[q] # "free"
               PROVE  pdbr[q] \in PtFrames /\ ptab'[pdbr[q]] = q
    BY DEF OwnDirectory
  <2>1. pdbr[q] \in PtFrames /\ ptab[pdbr[q]] = q
    BY <1>1 DEF PagingInv, OwnDirectory
  <2> QED BY <2>1, Numbers
<1>7. FreeHasNothing'
  <2> SUFFICES ASSUME NEW q \in Users, state'[q] = "free"
               PROVE  pdbr[q] = NullDir /\ hpd'[q] = {} /\ \A w \in Pages : pte'[q][w] = None
    BY DEF FreeHasNothing
  <2>1. /\ q # currpid
        /\ pdbr[q] = NullDir /\ hpd[q] = {} /\ \A w \in Pages : pte[q][w] = None
    BY <1>1 DEF PagingInv, FreeHasNothing
  <2> QED BY <2>1, <1>0, <1>2 DEF Types
<1>8. OthersEmpty'
  <2> SUFFICES ASSUME NEW q \in Users, q # currpid, pdbr[q] = pdbr[currpid], NEW w \in Pages
               PROVE  pte'[q][w] = None
    BY DEF OthersEmpty
  <2>1. pte[q][w] = None
    BY DirectoriesDiffer
  <2> QED BY <2>1, <1>2
<1> QED BY <1>2, <1>3, <1>4, <1>5, <1>6, <1>7, <1>8 DEF PagingInv

LEMMA TableFaultKeeps ==
  ASSUME PagingInv, NEW v \in Pages, TableFault(v)
  PROVE  PagingInv'
PROOF
<1>1. /\ currpid \in Users /\ state[currpid] = "live"
      /\ cr3' = pdbr[currpid] /\ Table(v) \notin hpd[currpid]
      /\ UNCHANGED <<currpid, pdbr>>
      /\ hpd' = [hpd EXCEPT ![currpid] = @ \cup {Table(v)}]
  BY DEF TableFault, FaultAt, WriteCr3, Running
<1>2. pte[currpid][v] = None
  BY <1>1 DEF PagingInv, PresentHasTable
<1>3. PICK g \in PtFrames : IsFirst(g, FreePt) /\ ptab' = [ptab EXCEPT ![g] = currpid]
  BY DEF TableFault
<1>4. ptab[g] = Nobody /\ ptab \in [PtFrames -> Users \cup {Nobody}]
  BY <1>3 DEF IsFirst, FreePt, PagingInv, Types
<1>5. /\ ptab' \in [PtFrames -> Users \cup {Nobody}]
      /\ \A h \in PtFrames : \/ ptab'[h] = ptab[h]
                             \/ ptab[h] = Nobody /\ ptab'[h] = currpid
  BY <1>1, <1>3, <1>4
<1>6. \/ UNCHANGED state /\ \E f \in Ffs : Load(<<currpid, v>>, f)
      \/ UNCHANGED <<pte, ftab, stab>> /\ Dies(currpid, "nomem")
  BY DEF TableFault, spaceVars
<1> QED BY <1>1, <1>2, <1>5, <1>6, FaultKeeps

LEMMA PageFaultKeeps ==
  ASSUME PagingInv, NEW v \in Pages, PageFault(v)
  PROVE  PagingInv'
PROOF
<1>1. /\ currpid \in Users /\ state[currpid] = "live"
      /\ cr3' = pdbr[currpid] /\ Table(v) \in hpd[currpid] /\ pte[currpid][v] = None
      /\ UNCHANGED <<currpid, pdbr, ptab, hpd>>
  BY DEF PageFault, FaultAt, WriteCr3, Running
<1>2. /\ ptab \in [PtFrames -> Users \cup {Nobody}]
      /\ hpd \in [Users -> SUBSET HasTables]
  BY DEF PagingInv, Types
<1>3. hpd' = [hpd EXCEPT ![currpid] = @ \cup {Table(v)}]
  BY <1>1, <1>2
<1>4. \/ UNCHANGED state /\ \E f \in Ffs : Load(<<currpid, v>>, f)
      \/ UNCHANGED <<pte, ftab, stab>> /\ Dies(currpid, "nomem")
  BY DEF PageFault, spaceVars
<1> QED BY <1>1, <1>2, <1>3, <1>4, FaultKeeps

-----------------------------------------------------------------------------
(* The directory of the null process in a process with a heap *)

NullRefused == cr3 = NullDir /\ currpid \in Users => refused

(* A step that loads the directory of the process that runs after it. *)
LEMMA LoadKeepsRefused ==
  ASSUME PagingInv, NEW q \in Procs, q \in Users => state[q] # "free",
         currpid' = q, WriteCr3(Dir(q))
  PROVE  NullRefused'
PROOF
<1>1. CASE q \in Users
  <2>1. Dir(q) \in PtFrames
    BY <1>1, Numbers DEF PagingInv, OwnDirectory, Dir
  <2> QED BY <2>1, Numbers DEF WriteCr3, NullRefused
<1>2. CASE q \notin Users
  BY <1>2 DEF NullRefused
<1> QED BY <1>1, <1>2

LEMMA OwnLoadKeepsRefused ==
  ASSUME PagingInv, currpid \in Users, UNCHANGED currpid, WriteCr3(pdbr[currpid])
  PROVE  NullRefused'
PROOF BY DirOfCurrent, LoadKeepsRefused DEF PagingInv, Types

LEMMA NextKeepsRefused ==
  ASSUME PagingInv, NullRefused, [Next]_vars
  PROVE  NullRefused'
PROOF
<1>1. CASE UNCHANGED <<currpid, loadVars>>
  BY <1>1 DEF NullRefused, loadVars
<1>2. CASE UNCHANGED vars \/ GoesWild
  BY <1>1, <1>2 DEF vars, GoesWild
<1>3. ASSUME NEW p \in Users, Vcreate(p)
      PROVE  NullRefused'
  <2>1. cr3' \in PtFrames
    BY <1>3 DEF Vcreate, WriteCr3, FreePt
  <2> QED BY <2>1, Numbers DEF NullRefused
<1>4. ASSUME NEW p \in Users, VcreateWild(p) \/ Kill(p)
      PROVE  NullRefused'
  BY <1>1, <1>2, <1>4 DEF VcreateWild, Kill
<1>5. CASE VcreateFails
  BY <1>5 DEF VcreateFails, NullRefused
<1>6. ASSUME NEW q \in Procs, Switch(q) \/ Exit(q)
      PROVE  NullRefused'
  BY <1>6, LoadKeepsRefused DEF Switch, Exit, CanRun
<1>7. CASE \E r \in Requests : Vmalloc(r)
  BY <1>7, OwnLoadKeepsRefused DEF Vmalloc
<1>8. CASE currpid \in Users /\ \E b \in blocks[currpid] : Vfree(b)
  BY <1>2, <1>8, OwnLoadKeepsRefused DEF Vfree
<1>9. ASSUME NEW v \in Pages,
             \/ SegmentationFault(v) \/ TableFault(v) \/ TableFaultFails(v)
             \/ PageFault(v) \/ OwnFault(v)
      PROVE  NullRefused'
  <2>1. currpid \in Users /\ UNCHANGED currpid /\ WriteCr3(pdbr[currpid])
    BY <1>9 DEF SegmentationFault, TableFault, TableFaultFails, PageFault, OwnFault,
                FaultAt
  <2> QED BY <2>1, OwnLoadKeepsRefused
<1>10. CASE \/ EvictionWild
            \/ \E v \in Pages : TableFaultWild(v)
            \/ \E v \in Pages, x \in Vals : Write(v, x) \/ WriteThrough(v, x)
  BY <1>1, <1>2, <1>10 DEF EvictionWild, TableFaultWild, Write, WriteThrough
<1> QED BY <1>2, <1>3, <1>4, <1>5, <1>6, <1>7, <1>8, <1>9, <1>10 DEF Next

-----------------------------------------------------------------------------
(* Theorems *)

LEMMA NextKeeps ==
  ASSUME PagingInv, [Next]_vars
  PROVE  PagingInv'
PROOF
<1>1. CASE UNCHANGED vars
  BY <1>1, StutterKeeps
<1>2. CASE \E p \in Users : Vcreate(p) \/ VcreateWild(p) \/ Kill(p)
  BY <1>2, VcreateKeeps, KillKeeps, GoesWildKeeps DEF VcreateWild
<1>3. CASE \E q \in Procs : Switch(q) \/ Exit(q)
  BY <1>3, SwitchKeeps, ExitKeeps
<1>4. CASE \E r \in Requests : Vmalloc(r)
  BY <1>4, VmallocKeeps
<1>5. CASE currpid \in Users /\ \E b \in blocks[currpid] : Vfree(b)
  BY <1>5, VfreeKeeps
<1>6. ASSUME NEW v \in Pages,
             \/ SegmentationFault(v) \/ TableFault(v) \/ TableFaultFails(v)
             \/ TableFaultWild(v) \/ PageFault(v) \/ OwnFault(v)
      PROVE  PagingInv'
  <2>1. CASE SegmentationFault(v) \/ TableFaultFails(v) \/ OwnFault(v)
    BY <2>1, FailedFaultKeeps
  <2>2. CASE TableFault(v)
    BY <2>2, TableFaultKeeps
  <2>3. CASE PageFault(v)
    BY <2>3, PageFaultKeeps
  <2>4. CASE TableFaultWild(v)
    BY <2>4, GoesWildKeeps DEF TableFaultWild
  <2> QED BY <1>6, <2>1, <2>2, <2>3, <2>4
<1>7. CASE \E v \in Pages, x \in Vals : Write(v, x) \/ WriteThrough(v, x)
  BY <1>7, WriteKeeps, WriteThroughKeeps
<1>8. CASE EvictionWild
  BY <1>8, GoesWildKeeps DEF EvictionWild
<1>9. CASE VcreateFails
  BY <1>9, VcreateFailsKeeps
<1> QED BY <1>1, <1>2, <1>3, <1>4, <1>5, <1>6, <1>7, <1>8, <1>9 DEF Next

(* The page tables, the directories and the tables of frames fit together in
   every state: the invariant the following theorems rest on. *)
THEOREM PagingInvariant == Spec => []PagingInv
PROOF
<1>1. PagingInv /\ [Next]_vars => PagingInv'
  BY NextKeeps
<1> QED BY InitPaging, <1>1, PTL DEF Spec

(* A page is present in a frame exactly if the table of frames says so: no
   fault, eviction, vfree or kill lets them differ. *)
THEOREM TablesAgreeAlways == Spec => []TablesAgree
PROOF
<1>1. PagingInv => TablesAgree
  BY DEF PagingInv
<1> QED BY PagingInvariant, <1>1, PTL

(* No frame or swap frame is left to a process that kill has ended. *)
THEOREM KillReturnsFrames == Spec => []TablesHoldLiving
PROOF
<1>1. PagingInv => TablesHoldLiving
  BY DEF PagingInv
<1> QED BY PagingInvariant, <1>1, PTL

(* A page never has two copies in the swap space. *)
THEOREM OneCopyAlways == Spec => []OneCopy
PROOF
<1>1. PagingInv => OneCopy
  BY DEF PagingInv
<1> QED BY PagingInvariant, <1>1, PTL

(* Each heap is private: through the directory of a process of vcreate the
   running process reaches its own pages only, whoever loaded that directory;
   and with the directory of the null process, which reaches every frame, a
   process with a heap runs only from a vcreate of its own that failed to the
   next directory it loads. *)
THEOREM HeapsPrivate == Spec => []PrivateFrames
PROOF
<1>1. Init => NullRefused
  BY ProcessIds DEF Init, NullRefused
<1>2. PagingInv /\ NullRefused /\ [Next]_vars => NullRefused'
  BY NextKeepsRefused
<1>3. PagingInv /\ NullRefused => PrivateFrames
  <2> SUFFICES ASSUME PagingInv, cr3 # NullDir, NEW v \in Pages, NEW f \in Translate(v)
               PROVE  ftab[f] = <<currpid, v>>
    BY DEF PrivateFrames, NullRefused
  <2>1. PICK q \in Users : pdbr[q] = cr3 /\ pte[q][v] = f /\ f # None
    BY DEF Translate
  <2>2. q = currpid
    BY <2>1 DEF PagingInv, OthersEmpty
  <2>3. f \in Ffs
    BY <2>1 DEF PagingInv, Types
  <2> QED BY <2>1, <2>2, <2>3 DEF PagingInv, TablesAgree
<1> QED BY PagingInvariant, <1>1, <1>2, <1>3, PTL DEF Spec
=============================================================================
