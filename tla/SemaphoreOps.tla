---------------------------- MODULE SemaphoreOps ----------------------------
(***************************************************************************)
(* The semaphores of system/wait.c, signal.c, semreset.c and semdelete.c   *)
(* as the calls of the other modules meet them: a value [count, queue].    *)
(* XinuKernel models the calls themselves.  A process that waits is in the *)
(* queue; one that has been released, but has not yet got the processor,   *)
(* is not, and goes on at its next step.                                   *)
(***************************************************************************)
EXTENDS XinuQueues

NewSem(n) == [count |-> n, queue |-> <<>>]

(* wait does not block: there is a unit. *)
Passes(s) == s.count > 0
Take(s) == [s EXCEPT !.count = @ - 1]

(* wait blocks p. *)
Blocks(s, p) == [count |-> s.count - 1, queue |-> Enqueue(s.queue, p)]

(* signal: a unit for the next wait, or for the process that has waited longest. *)
Signal(s) ==
  [count |-> s.count + 1, queue |-> IF s.count < 0 THEN Tail(s.queue) ELSE s.queue]

(* signaln *)
SignalN(s, n) ==
  [count |-> s.count + n,
   queue |-> IF s.count >= 0 THEN s.queue
             ELSE SubSeq(s.queue, 1 + (IF n < -s.count THEN n ELSE -s.count), Len(s.queue))]

WaitsAt(p, s) == p \in ToSet(s.queue)

(* kill of a process that waits at s: getitem unlinks it. *)
Leaves(s, p) == [count |-> s.count + 1, queue |-> GetItem(s.queue, p)]
=============================================================================
