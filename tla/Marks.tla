------------------------------- MODULE Marks --------------------------------
(***************************************************************************)
(* Memory marking (system/mark.c, mark.h).  mark runs with interrupts      *)
(* enabled, so other processes may run between any two of its statements.  *)
(***************************************************************************)
EXTENDS SemaphoreOps, FiniteSets

CONSTANTS
  Markers,     \* processes
  Locations,
  MAXMARK,
  Unset        \* what a location that is not marked may hold: any number

ASSUME MarkSizes == MAXMARK \in Nat \ {0} /\ Unset \in Int /\ "none" \notin Locations

VARIABLES
  marks,       \* [0..MAXMARK - 1]: the location marked, if index < nmarks
  nmarks, mkmutex,
  loc,         \* [Locations]: what the location holds
  marking,     \* [Markers]: [loc, at, idx]: argument, where in mark, nmarks as read
  returned,    \* history: the locations for which mark has returned OK
  overrun      \* a mark was written behind the end of marks
markVars == <<marks, nmarks, mkmutex, loc, marking, returned, overrun>>

Nowhere == [loc |-> "none", at |-> "out", idx |-> 0]

MarksInit ==
  /\ marks = [i \in 0..(MAXMARK - 1) |-> "none"]
  /\ nmarks = 0 /\ mkmutex = NewSem(1)
  /\ loc = [l \in Locations |-> Unset]
  /\ marking = [p \in Markers |-> Nowhere]
  /\ returned = {} /\ overrun = FALSE

Marked(l) == loc[l] >= 0 /\ loc[l] < nmarks /\ loc[l] < MAXMARK /\ marks[loc[l]] = l

At(p, where) == ~overrun /\ marking[p].at = where
Moves(p, where) == marking' = [marking EXCEPT ![p].at = where]

(* Neither marked yet nor, at this moment, too many. *)
MarkChecks(p, l) ==
  /\ At(p, "out") /\ ~Marked(l) /\ nmarks < MAXMARK
  /\ marking' = [marking EXCEPT ![p] = [loc |-> l, at |-> "wait", idx |-> 0]]
  /\ UNCHANGED <<marks, nmarks, mkmutex, loc, returned, overrun>>

NoWait(p) ==                     \* fault: mark does not wait for its turn
  /\ At(p, "wait") /\ Moves(p, "in")
  /\ UNCHANGED <<marks, nmarks, mkmutex, loc, returned, overrun>>
MarkWaits(p) ==
  /\ At(p, "wait") /\ Moves(p, "in")
  /\ mkmutex' = IF Passes(mkmutex) THEN Take(mkmutex) ELSE Blocks(mkmutex, p)
  /\ UNCHANGED <<marks, nmarks, loc, returned, overrun>>

(* The compiled assignment reads the count, and stores the new count, the
   index in the location, and the entry at the index, one after the other. *)
MarkReads(p) ==
  /\ At(p, "in") /\ ~WaitsAt(p, mkmutex)
  /\ marking' = [marking EXCEPT ![p].at = "set", ![p].idx = nmarks]
  /\ UNCHANGED <<marks, nmarks, mkmutex, loc, returned, overrun>>

MarkSets(p) ==
  LET l == marking[p].loc i == marking[p].idx IN
  /\ At(p, "set") /\ Moves(p, "store")
  /\ nmarks' = i + 1
  /\ loc' = [loc EXCEPT ![l] = i]
  /\ UNCHANGED <<marks, mkmutex, returned, overrun>>

MarkStores(p) ==
  LET l == marking[p].loc i == marking[p].idx IN
  /\ At(p, "store") /\ Moves(p, "signal")
  /\ IF i < MAXMARK
     THEN marks' = [marks EXCEPT ![i] = l] /\ UNCHANGED overrun
     ELSE overrun' = TRUE /\ UNCHANGED marks
  /\ UNCHANGED <<nmarks, mkmutex, loc, returned>>

MarkSignals(p) ==
  /\ At(p, "signal")
  /\ marking' = [marking EXCEPT ![p] = Nowhere]
  /\ mkmutex' = Signal(mkmutex)
  /\ returned' = returned \cup {marking[p].loc}
  /\ UNCHANGED <<marks, nmarks, loc, overrun>>

MarksNext ==
  \E p \in Markers :
    \/ \E l \in Locations : MarkChecks(p, l)
    \/ MarkWaits(p) \/ MarkReads(p) \/ MarkSets(p) \/ MarkStores(p) \/ MarkSignals(p)

MarksSpec == MarksInit /\ [][MarksNext]_markVars

-----------------------------------------------------------------------------
(* Properties *)

(* A location for which mark has returned OK is marked from then on, whoever
   marks others, except while another that also saw it unmarked marks it again. *)
MarkedForGood ==
  \A l \in returned :
    Marked(l) \/ overrun \/ \E p \in Markers : marking[p].loc = l /\ marking[p].at = "store"
=============================================================================
