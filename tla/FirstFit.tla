------------------------------ MODULE FirstFit ------------------------------
(***************************************************************************)
(* One process that allocates virtual pages, started with any pattern of   *)
(* free pages: what vmalloc's pass over the free bits grants and refuses,  *)
(* compared with what first fit means.                                     *)
(***************************************************************************)
EXTENDS VmallocScan, FiniteSets

CONSTANTS LastPage, PageCounts    \* the pages are 0..LastPage; sizes asked for

ASSUME FitSizes == LastPage \in Nat /\ PageCounts \subseteq Nat

VARIABLES free, request

fitVars == <<free, request>>

FitInit ==
  /\ free \in [0..LastPage -> BOOLEAN]
  /\ request \in PageCounts

(* The block goes to the caller: its pages are free no more.  The next
   request may be of any size. *)
Allocate ==
  LET s == Scan(free, LastPage, request) IN
  /\ ~Fails(s, request)
  /\ free' = [v \in 0..LastPage |-> free[v] /\ v \notin Block(s)]
  /\ request' \in PageCounts

Refuse ==
  /\ Fails(Scan(free, LastPage, request), request)
  /\ request' \in PageCounts
  /\ UNCHANGED free

FitNext == Allocate \/ Refuse
FitSpec == FitInit /\ [][FitNext]_fitVars

-----------------------------------------------------------------------------
Fits(v, n) == v + n - 1 <= LastPage /\ \A w \in v..(v + n - 1) : free[w]

(* A request for n pages is refused only if no n free pages are adjacent. *)
RefusedOnlyIfNone ==
  request > 0 => (Fails(Scan(free, LastPage, request), request)
                  <=> \A v \in 0..LastPage : ~Fits(v, request))

(* project4.pdf, page 2: "Virtual heap space should be allocated using the
   first-fit policy from lower to higher addresses": a block granted is the
   lowest that fits, exactly as large as asked for, and all of it was free. *)
LowestFit ==
  LET s == Scan(free, LastPage, request) IN
  request > 0 /\ ~Fails(s, request) =>
    /\ Block(s) = s.strt .. (s.strt + request - 1)
    /\ Fits(s.strt, request)
    /\ \A v \in 0..(s.strt - 1) : ~Fits(v, request)

(* Every request is granted and refused as first fit does: vmalloc's counting
   over the pages never mistakes an interrupted run of free pages for one. *)
FirstFits == RefusedOnlyIfNone /\ LowestFit
=============================================================================
