--------------------------- MODULE ProcessDiagram ---------------------------
(***************************************************************************)
(* What the process layer of the kernel promises about the states of       *)
(* include/process.h, with no lists, no priorities, no clock and no        *)
(* messages: the state diagram of a process, one processor, and at most    *)
(* one process created or removed at a time.                               *)
(***************************************************************************)
CONSTANTS Procs, null

VARIABLE state

Blocked == {"RECV", "SLEEP", "WAIT", "RECTIM"}

(* The arrows.  A process blocks, or is suspended, when it is current, and is
   ready before it is current; but a call that makes it ready may also hand
   it the processor, in one step. *)
Arrow(a, b) ==
  \/ a = b
  \/ a = "FREE" /\ b = "SUSP"                                  \* create
  \/ a \in Blocked \cup {"SUSP", "READY"} /\ b = "CURR"        \* dispatched
  \/ a \in Blocked \cup {"SUSP"} /\ b = "READY"
  \/ a = "CURR" /\ b \in Blocked \cup {"READY", "SUSP"}
  \/ a = "READY" /\ b = "SUSP"                                 \* suspend
  \/ b = "FREE"                                                \* kill

OneRuns(st) == \E p \in Procs : \A q \in Procs : st[q] = "CURR" <=> q = p

Init ==
  /\ state \in [Procs -> {"FREE", "CURR", "READY"}]
  /\ OneRuns(state)
  /\ state[null] = "READY"

(* A step that is not a hand-over of the processor changes one process. *)
Next ==
  /\ state' \in [Procs -> Blocked \cup {"FREE", "CURR", "READY", "SUSP"}]
  /\ \A p \in Procs : Arrow(state[p], state'[p])
  /\ OneRuns(state')
  /\ state'[null] \in {"CURR", "READY"}
  /\ \A p, q \in Procs : state[p] # state'[p] /\ state[q] # state'[q] =>
       p = q \/ "CURR" \in {state[p], state'[p]} \/ "CURR" \in {state[q], state'[q]}

Spec == Init /\ [][Next]_state
=============================================================================
