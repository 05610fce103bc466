--------------------------- MODULE XinuKernelProofs ---------------------------
(***************************************************************************)
(* Proofs about XinuKernel for every size of the tables, every quantum,    *)
(* every set of priorities, delays and messages, and every program.        *)
(*                                                                         *)
(* The inductive invariant KernelInv is in seven parts that need each       *)
(* other: a dequeue finds a process because the null process is eligible   *)
(* and each list holds what the states say; a list operation is sound      *)
(* because a process is on one list at most; a semaphore with a negative   *)
(* count has a waiting process; and a process that is dispatched is not in *)
(* the middle of a loop, because rescheduling is deferred in the loops.    *)
(***************************************************************************)
EXTENDS XinuKernel, XinuQueueProofs, TLAPS

LoopOps == {"wakeup", "signaln", "semdelete", "semreset"}
SemOps == {"signaln", "semdelete", "semreset"}

(* What a continuation refers to exists: no kill is of the null process. *)
Targets ==
  /\ \A p \in Pids : cont[p].op \in SemOps => cont[p].id \in Sems
  /\ \A p \in Pids : cont[p].op = "kill" => cont[p].id \in Pids \ {NULLPROC}
  /\ \A p \in Pids : prstate[p] = "WAIT" => prsem[p] \in Sems

KernelInv ==
  /\ TypeOK
  /\ QueuesMatchStates
  /\ OneCurrent
  /\ SemaphoreCount
  /\ FreeSemaphoreEmpty
  /\ DeferInLoops
  /\ Targets

ReadySet(ps) == {p \in Pids : ps[p] = "READY"}
SleepSet(ps) == {p \in Pids : ps[p] \in {"SLEEP", "RECTIM"}}
WaitSet(ps, sem, s) == {p \in Pids : ps[p] = "WAIT" /\ sem[p] = s}

(* What resched() leaves behind when it is called with process states ps:
   the current and the ready processes may have changed places. *)
Scheduled(ps) ==
  /\ prstate' \in [Pids -> States]
  /\ currpid' \in Pids
  /\ preempt' \in 1..QUANTUM
  /\ qkey' \in [Pids -> Int]
  /\ readylist' \in Seq(Pids)
  /\ QueueOf(readylist', ReadySet(prstate'))
  /\ \A p \in Pids : prstate'[p] = "CURR" <=> p = currpid'
  /\ prstate'[NULLPROC] \in {"CURR", "READY"}
  /\ \A p \in Pids : ps[p] \notin {"CURR", "READY"} => prstate'[p] = ps[p]
  /\ \A p \in Pids : ps[p] \in {"CURR", "READY"} => prstate'[p] \in {"CURR", "READY"}
  /\ currpid' = currpid \/ ps[currpid'] = "READY"

LEMMA NullIsPid == NULLPROC \in Pids /\ MINKEY \in Int
PROOF BY TableSizes DEF NULLPROC, Pids, MINKEY

(* The list that results when a process is inserted by priority. *)
LEMMA InsertKeepsQueue ==
  ASSUME NEW S, S \subseteq Pids, NEW q, QueueOf(q, S), NEW p \in Pids, p \notin S,
         NEW qk \in [Pids -> Int], NEW k \in Int
  PROVE  /\ QueueOf(Insert(q, qk, p, k), S \cup {p})
         /\ KeyAfterInsert(qk, p, k) \in [Pids -> Int]
PROOF
<1>1. q \in Seq(Pids)
  BY SeqMonotonic DEF QueueOf
<1>2. InsertPos(q, qk, k) \in 1..(Len(q) + 1)
  BY <1>1, InsertPosInList
<1>3. QueueOf(Insert(q, qk, p, k), S \cup {p})
  BY <1>2, QueueInsertAt DEF Insert
<1> QED BY <1>3 DEF KeyAfterInsert

(* The dispatcher proper: it always finds a process to run. *)
LEMMA SwitchSchedules ==
  ASSUME NEW ps \in [Pids -> States], NEW rl, NEW qk \in [Pids -> Int],
         QueueOf(rl, ReadySet(ps)),
         prprio \in [Pids -> Nat], currpid \in Pids, QUANTUM \in Nat \ {0},
         \A p \in Pids : ps[p] = "CURR" => p = currpid,
         ps[NULLPROC] \in {"CURR", "READY"},
         Switch(ps, rl, qk)
  PROVE  Scheduled(ps)
PROOF
<1> DEFINE yields == ps[currpid] = "CURR"
           rl2 == IF yields THEN Insert(rl, qk, currpid, prprio[currpid]) ELSE rl
           ps2 == IF yields THEN [ps EXCEPT ![currpid] = "READY"] ELSE ps
<1>1. /\ ps2 \in [Pids -> States]
      /\ ReadySet(ps2) = IF yields THEN ReadySet(ps) \cup {currpid} ELSE ReadySet(ps)
      /\ \A p \in Pids : ps2[p] # "CURR"
      /\ ps2[NULLPROC] = "READY"
      /\ \A p \in Pids : ps[p] \notin {"CURR", "READY"} => ps2[p] = ps[p]
      /\ \A p \in Pids : ps[p] \in {"CURR", "READY"} => ps2[p] = "READY"
  BY NullIsPid DEF ReadySet, States
<1>2. QueueOf(rl2, ReadySet(ps2))
  <2>1. CASE yields
    <3>1. currpid \notin ReadySet(ps) /\ ReadySet(ps) \subseteq Pids /\ prprio[currpid] \in Int
      BY <2>1 DEF ReadySet
    <3>2. QueueOf(Insert(rl, qk, currpid, prprio[currpid]), ReadySet(ps) \cup {currpid})
      BY <3>1, InsertKeepsQueue
    <3> QED BY <2>1, <3>2, <1>1
  <2>2. CASE ~yields
    BY <2>2, <1>1
  <2> QED BY <2>1, <2>2
<1>3. /\ qkey' = IF yields THEN KeyAfterInsert(qk, currpid, prprio[currpid]) ELSE qk
      /\ currpid' = Head(rl2)
      /\ readylist' = Tail(rl2)
      /\ prstate' = [ps2 EXCEPT ![Head(rl2)] = "CURR"]
      /\ preempt' = QUANTUM
  BY DEF Switch
<1>4. qkey' \in [Pids -> Int]
  BY <1>3 DEF KeyAfterInsert
<1> HIDE DEF rl2, ps2
<1>5. rl2 # <<>>
  <2>1. NULLPROC \in ReadySet(ps2)
    BY <1>1, NullIsPid DEF ReadySet
  <2> QED BY <1>2, <2>1, QueueEmpty
<1>6. Head(rl2) \in ReadySet(ps2) /\ QueueOf(Tail(rl2), ReadySet(ps2) \ {Head(rl2)})
  BY <1>2, <1>5, QueueTail
<1>7. /\ prstate' \in [Pids -> States]
      /\ currpid' \in Pids
      /\ ReadySet(prstate') = ReadySet(ps2) \ {Head(rl2)}
  BY <1>1, <1>3, <1>6 DEF ReadySet, States
<1>8. /\ \A p \in Pids : prstate'[p] = "CURR" <=> p = currpid'
      /\ prstate'[NULLPROC] \in {"CURR", "READY"}
      /\ \A p \in Pids : ps[p] \notin {"CURR", "READY"} => prstate'[p] = ps[p]
      /\ \A p \in Pids : ps[p] \in {"CURR", "READY"} => prstate'[p] \in {"CURR", "READY"}
  BY <1>1, <1>3, <1>6, NullIsPid DEF ReadySet
<1>9. currpid' = currpid \/ ps[currpid'] = "READY"
  BY <1>1, <1>3, <1>6 DEF ReadySet, ps2
<1>10. QueueOf(readylist', ReadySet(prstate'))
  BY <1>3, <1>6, <1>7
<1>11. readylist' \in Seq(Pids)
  <2>1. ReadySet(prstate') \subseteq Pids
    BY DEF ReadySet
  <2> QED BY <2>1, <1>10, SeqMonotonic DEF QueueOf
<1> QED BY <1>3, <1>4, <1>7, <1>8, <1>9, <1>10, <1>11 DEF Scheduled

(* When the current process keeps the processor, it is still eligible. *)
LEMMA StaySchedules ==
  ASSUME NEW ps \in [Pids -> States], NEW rl, NEW qk \in [Pids -> Int], NEW pre \in 1..QUANTUM,
         QueueOf(rl, ReadySet(ps)), currpid \in Pids,
         \A p \in Pids : ps[p] = "CURR" => p = currpid,
         ps[currpid] = "CURR",
         ps[NULLPROC] \in {"CURR", "READY"},
         Stay(ps, rl, qk, pre)
  PROVE  Scheduled(ps)
PROOF
<1>1. /\ prstate' = ps /\ readylist' = rl /\ qkey' = qk /\ preempt' = pre
      /\ currpid' = currpid
  BY DEF Stay
<1>2. rl \in Seq(Pids)
  <2>1. ReadySet(ps) \subseteq Pids
    BY DEF ReadySet
  <2> QED BY <2>1, SeqMonotonic DEF QueueOf
<1> QED BY <1>1, <1>2 DEF Scheduled

LEMMA ReschedNowSchedules ==
  ASSUME NEW ps \in [Pids -> States], NEW rl, NEW qk \in [Pids -> Int], NEW pre \in 1..QUANTUM,
         QueueOf(rl, ReadySet(ps)),
         prprio \in [Pids -> Nat], currpid \in Pids,
         \A p \in Pids : ps[p] = "CURR" => p = currpid,
         ps[NULLPROC] \in {"CURR", "READY"},
         ReschedNow(ps, rl, qk, pre)
  PROVE  Scheduled(ps)
PROOF
<1>1. CASE Keeps(ps, rl, qk) /\ Stay(ps, rl, qk, pre)
  BY <1>1, StaySchedules DEF Keeps
<1>2. CASE ~Keeps(ps, rl, qk) /\ Switch(ps, rl, qk)
  BY <1>2, SwitchSchedules, TableSizes
<1> QED BY <1>1, <1>2 DEF ReschedNow

(* resched() in all its cases: it does not change how many deferrals there
   are, and under a deferral it does not take the processor away. *)
LEMMA ReschedSchedules ==
  ASSUME NEW ps \in [Pids -> States], NEW rl, NEW qk \in [Pids -> Int], NEW pre \in 1..QUANTUM,
         QueueOf(rl, ReadySet(ps)),
         prprio \in [Pids -> Nat], currpid \in Pids,
         Defer \in [ndefers : Nat, attempt : BOOLEAN],
         \A p \in Pids : ps[p] = "CURR" => p = currpid,
         ps[NULLPROC] \in {"CURR", "READY"},
         Defer.ndefers > 0 => ps[currpid] = "CURR",
         Resched(ps, rl, qk, pre)
  PROVE  /\ Scheduled(ps)
         /\ Defer' \in [ndefers : Nat, attempt : BOOLEAN]
         /\ Defer'.ndefers = Defer.ndefers
         /\ Defer.ndefers > 0 => currpid' = currpid
PROOF
<1>1. CASE /\ Defer.ndefers > 0
           /\ Defer' = [Defer EXCEPT !.attempt = TRUE]
           /\ Stay(ps, rl, qk, pre)
  <2>1. Scheduled(ps)
    BY <1>1, StaySchedules
  <2>2. currpid' = currpid
    BY <1>1 DEF Stay
  <2> QED BY <1>1, <2>1, <2>2
<1>2. CASE /\ Defer.ndefers = 0
           /\ ReschedNow(ps, rl, qk, pre)
           /\ UNCHANGED Defer
  <2>1. Scheduled(ps)
    BY <1>2, ReschedNowSchedules
  <2> QED BY <1>2, <2>1
<1> QED BY <1>1, <1>2 DEF Resched

-----------------------------------------------------------------------------
(* The scheduler called from a state that satisfies the invariant. *)

(* The facts of the invariant the calls of resched need. *)
LEMMA InvFacts ==
  ASSUME KernelInv
  PROVE  /\ prstate \in [Pids -> States]
         /\ prprio \in [Pids -> Nat]
         /\ qkey \in [Pids -> Int]
         /\ currpid \in Pids
         /\ preempt \in 1..QUANTUM
         /\ Defer \in [ndefers : Nat, attempt : BOOLEAN]
         /\ \A p \in Pids : prstate[p] = "CURR" <=> p = currpid
         /\ prstate[NULLPROC] \in {"CURR", "READY"}
         /\ QueueOf(readylist, ReadySet(prstate))
         /\ QueueOf(sleepq, SleepSet(prstate))
         /\ \A s \in Sems : QueueOf(squeue[s], WaitSet(prstate, prsem, s))
PROOF BY DEF KernelInv, TypeOK, OneCurrent, QueuesMatchStates, ReadySet, SleepSet,
             WaitSet, Waiting

LEMMA ReadySchedules ==
  ASSUME KernelInv, NEW pid \in Pids, NEW qk \in [Pids -> Int],
         prstate[pid] \notin {"CURR", "READY"},
         Ready(pid, qk)
  PROVE  /\ Scheduled([prstate EXCEPT ![pid] = "READY"])
         /\ Defer' \in [ndefers : Nat, attempt : BOOLEAN]
         /\ Defer'.ndefers = Defer.ndefers
         /\ Defer.ndefers > 0 => currpid' = currpid
PROOF
<1> DEFINE ps == [prstate EXCEPT ![pid] = "READY"]
           rl == Insert(readylist, qk, pid, prprio[pid])
           k2 == KeyAfterInsert(qk, pid, prprio[pid])
<1>1. /\ pid \notin ReadySet(prstate) /\ ReadySet(prstate) \subseteq Pids
      /\ prprio[pid] \in Int
  BY InvFacts DEF ReadySet
<1>2. QueueOf(rl, ReadySet(prstate) \cup {pid}) /\ k2 \in [Pids -> Int]
  BY <1>1, InvFacts, InsertKeepsQueue
<1>3. ReadySet(ps) = ReadySet(prstate) \cup {pid} /\ ps \in [Pids -> States]
  BY InvFacts DEF ReadySet, States
<1>4. /\ \A p \in Pids : ps[p] = "CURR" => p = currpid
      /\ ps[NULLPROC] \in {"CURR", "READY"}
      /\ ps[currpid] = "CURR"
  BY InvFacts, NullIsPid
<1>5. Resched(ps, rl, k2, preempt)
  BY DEF Ready
<1> HIDE DEF ps, rl, k2
<1>6. QueueOf(rl, ReadySet(ps))
  BY <1>2, <1>3
<1>7. /\ Scheduled(ps)
      /\ Defer' \in [ndefers : Nat, attempt : BOOLEAN]
      /\ Defer'.ndefers = Defer.ndefers
      /\ Defer.ndefers > 0 => currpid' = currpid
  BY <1>2, <1>3, <1>4, <1>5, <1>6, InvFacts, ReschedSchedules
<1> QED BY <1>7 DEF ps

LEMMA BlockSchedules ==
  ASSUME KernelInv, NEW st \in States \ {"CURR", "READY"}, NEW qk \in [Pids -> Int],
         currpid # NULLPROC, Defer.ndefers = 0,
         Block(st, qk)
  PROVE  /\ Scheduled([prstate EXCEPT ![currpid] = st])
         /\ Defer' = Defer
PROOF
<1> DEFINE ps == [prstate EXCEPT ![currpid] = st]
<1>1. ReadySet(ps) = ReadySet(prstate) /\ ps \in [Pids -> States]
  BY InvFacts DEF ReadySet, States
<1>2. /\ \A p \in Pids : ps[p] = "CURR" => p = currpid
      /\ ps[NULLPROC] \in {"CURR", "READY"}
  BY InvFacts, NullIsPid
<1>3. Resched(ps, readylist, qk, preempt)
  BY DEF Block
<1>4. UNCHANGED Defer
  BY <1>3, InvFacts DEF Resched
<1> HIDE DEF ps
<1>5. Scheduled(ps)
  BY <1>1, <1>2, <1>3, InvFacts, ReschedSchedules
<1> QED BY <1>4, <1>5 DEF ps

(* The end of a deferral. *)
LEMMA DeferStopSchedules ==
  ASSUME KernelInv, Defer.ndefers = 1, DeferStop
  PROVE  /\ Scheduled(prstate)
         /\ Defer' \in [ndefers : Nat, attempt : BOOLEAN]
         /\ Defer'.ndefers = 0
PROOF
<1>1. /\ Defer' \in [ndefers : Nat, attempt : BOOLEAN]
      /\ Defer'.ndefers = 0
  BY InvFacts DEF DeferStop
<1>2. CASE Defer.attempt
  <2>1. ReschedNow(prstate, readylist, qkey, preempt)
    BY <1>2, InvFacts DEF DeferStop
  <2> QED BY <1>1, <2>1, InvFacts, ReschedNowSchedules
<1>3. CASE ~Defer.attempt
  <2>1. Stay(prstate, readylist, qkey, preempt)
    BY <1>3, InvFacts DEF DeferStop, Stay
  <2>2. prstate[currpid] = "CURR"
    BY InvFacts
  <2> QED BY <1>1, <2>1, <2>2, InvFacts, StaySchedules
<1> QED BY <1>2, <1>3

-----------------------------------------------------------------------------
(* The parts of the invariant after a step. *)

(* The lists of sleepers and waiters do not notice who runs. *)
LEMMA QueuesAfter ==
  ASSUME NEW ps, Scheduled(ps),
         QueueOf(sleepq', SleepSet(ps)),
         \A s \in Sems : QueueOf(squeue'[s], WaitSet(ps, prsem', s))
  PROVE  QueuesMatchStates' /\ OneCurrent'
PROOF
<1>1. SleepSet(prstate') = SleepSet(ps)
  BY DEF Scheduled, SleepSet
<1>2. \A s \in Sems : WaitSet(prstate', prsem', s) = WaitSet(ps, prsem', s)
  BY DEF Scheduled, WaitSet
<1>3. QueueOf(readylist', ReadySet(prstate'))
  BY DEF Scheduled
<1>4. QueuesMatchStates'
  BY <1>1, <1>2, <1>3 DEF QueuesMatchStates, ReadySet, SleepSet, WaitSet, Waiting
<1> QED BY <1>4 DEF OneCurrent, Scheduled

(* Outside the loops no process that lives has one to finish. *)
LEMMA OutsideLoops ==
  ASSUME KernelInv, cont[currpid].op \notin LoopOps
  PROVE  /\ Defer.ndefers = 0
         /\ \A p \in Pids : prstate[p] # "FREE" => cont[p].op \notin LoopOps
         /\ \A s \in Sems : Len(squeue[s]) = IF scount[s] < 0 THEN -scount[s] ELSE 0
         /\ \A s \in Sems : sstate[s] = "FREE" => squeue[s] = <<>>
PROOF BY DEF KernelInv, DeferInLoops, SemaphoreCount,
             FreeSemaphoreEmpty, LoopOps

LEMMA InLoop ==
  ASSUME KernelInv, cont[currpid].op \in LoopOps
  PROVE  /\ Defer.ndefers = 1
         /\ \A p \in Pids \ {currpid} : prstate[p] # "FREE" => cont[p].op \notin LoopOps
PROOF BY DEF KernelInv, DeferInLoops, LoopOps

(* A step that begins and ends outside the loops. *)
LEMMA DeferAfterCall ==
  ASSUME TypeOK', Defer'.ndefers = 0, OneCurrent',
         \A p \in Pids : prstate'[p] # "FREE" => cont'[p].op \notin LoopOps
  PROVE  DeferInLoops'
PROOF
<1>1. \A p \in Pids : cont'[p].op \in Ops
  BY DEF TypeOK
<1>2. currpid' \in Pids /\ prstate'[currpid'] # "FREE"
  BY DEF TypeOK, OneCurrent
<1> QED BY <1>1, <1>2 DEF DeferInLoops, LoopOps, Ops

(* A step that does not touch the semaphores and is not in semreset. *)
LEMMA CountAfter ==
  ASSUME \A s \in Sems : Len(squeue[s]) = IF scount[s] < 0 THEN -scount[s] ELSE 0,
         UNCHANGED <<scount, squeue>>
  PROVE  SemaphoreCount'
PROOF BY DEF SemaphoreCount

LEMMA FreeAfter ==
  ASSUME \A s \in Sems : sstate[s] = "FREE" => squeue[s] = <<>>,
         UNCHANGED <<sstate, squeue>>
  PROVE  FreeSemaphoreEmpty'
PROOF BY DEF FreeSemaphoreEmpty

(* The argument common to the calls that leave the lists of sleepers and
   waiters alone. *)
LEMMA UserFacts ==
  ASSUME KernelInv, UserMode
  PROVE  /\ cont[currpid].op \notin LoopOps
         /\ Defer.ndefers = 0
         /\ \A p \in Pids : prstate[p] # "FREE" => cont[p].op \notin LoopOps
         /\ \A s \in Sems : Len(squeue[s]) = IF scount[s] < 0 THEN -scount[s] ELSE 0
         /\ \A s \in Sems : sstate[s] = "FREE" => squeue[s] = <<>>
PROOF
<1>1. cont[currpid].op \notin LoopOps
  BY DEF UserMode, LoopOps
<1> QED BY <1>1, OutsideLoops

(* What is left to show of a step, once it is known what resched() did. *)
LEMMA StepInv ==
  ASSUME NEW ps, Scheduled(ps), TypeOK',
         QueueOf(sleepq', SleepSet(ps)),
         \A s \in Sems : QueueOf(squeue'[s], WaitSet(ps, prsem', s)),
         SemaphoreCount', FreeSemaphoreEmpty', DeferInLoops',
         \A p \in Pids : cont'[p].op \in SemOps => cont'[p].id \in Sems,
         \A p \in Pids : cont'[p].op = "kill" => cont'[p].id \in Pids \ {NULLPROC},
         \A p \in Pids : ps[p] = "WAIT" => prsem'[p] \in Sems
  PROVE  KernelInv'
PROOF
<1>1. QueuesMatchStates' /\ OneCurrent'
  BY QueuesAfter
<1>2. Targets'
  BY DEF Targets, Scheduled
<1> QED BY <1>1, <1>2 DEF KernelInv

(* A call that may reschedule and goes back to user mode, or leaves
   something to do that is not a loop. *)
LEMMA CallInv ==
  ASSUME KernelInv, NEW ps, Scheduled(ps), TypeOK',
         cont[currpid].op \notin LoopOps, Defer'.ndefers = 0,
         QueueOf(sleepq', SleepSet(ps)),
         \A s \in Sems : QueueOf(squeue'[s], WaitSet(ps, prsem', s)),
         SemaphoreCount', FreeSemaphoreEmpty',
         \A p \in Pids : cont'[p].op \notin LoopOps \/ (cont'[p] = cont[p] /\ prstate[p] # "FREE")
                          \/ ps[p] = "FREE",
         \A p \in Pids : cont'[p].op \in SemOps => cont'[p].id \in Sems,
         \A p \in Pids : cont'[p].op = "kill" => cont'[p].id \in Pids \ {NULLPROC},
         \A p \in Pids : ps[p] = "WAIT" => prsem'[p] \in Sems
  PROVE  KernelInv'
PROOF
<1>1. QueuesMatchStates' /\ OneCurrent'
  BY QueuesAfter
<1>2. \A p \in Pids : prstate'[p] # "FREE" => cont'[p].op \notin LoopOps
  BY OutsideLoops DEF Scheduled
<1>3. DeferInLoops'
  BY <1>1, <1>2, DeferAfterCall
<1> QED BY <1>3, StepInv

(* A step under deferral: the process in the loop stays where it is. *)
LEMMA LoopInv ==
  ASSUME KernelInv, NEW ps, Scheduled(ps), TypeOK',
         cont'[currpid].op \in LoopOps, Defer'.ndefers = 1, currpid' = currpid,
         QueueOf(sleepq', SleepSet(ps)),
         \A s \in Sems : QueueOf(squeue'[s], WaitSet(ps, prsem', s)),
         SemaphoreCount', FreeSemaphoreEmpty',
         \A p \in Pids \ {currpid} : cont'[p] = cont[p],
         \A p \in Pids : ps[p] # "FREE" => prstate[p] # "FREE",
         cont'[currpid].op \in SemOps => cont'[currpid].id \in Sems,
         \A p \in Pids : ps[p] = "WAIT" => prsem'[p] \in Sems
  PROVE  KernelInv'
PROOF
<1>1. \A p \in Pids \ {currpid} : prstate[p] # "FREE" => cont[p].op \notin LoopOps
  BY OutsideLoops, InLoop
<1>2. \A p \in Pids \ {currpid'} : prstate'[p] # "FREE" => cont'[p].op \notin LoopOps
  BY <1>1 DEF Scheduled
<1>3. \A p \in Pids : cont'[p].op \in Ops
  BY DEF TypeOK
<1>4. DeferInLoops'
  BY <1>2, <1>3 DEF DeferInLoops, LoopOps, Ops
<1>5. \A p \in Pids : cont'[p].op \in SemOps => cont'[p].id \in Sems
  BY DEF KernelInv, Targets
<1>6. \A p \in Pids : cont'[p].op = "kill" => cont'[p].id \in Pids \ {NULLPROC}
  BY DEF KernelInv, Targets, LoopOps
<1> QED BY <1>4, <1>5, <1>6, StepInv

(* A step that leaves the scheduler, the lists and the continuations alone. *)
LEMMA FrameInv ==
  ASSUME KernelInv, TypeOK',
         UNCHANGED <<prstate, currpid, readylist, sleepq, prsem, sstate, scount, squeue,
                     Defer, cont>>
  PROVE  KernelInv'
PROOF
<1>1. QueuesMatchStates' /\ OneCurrent' /\ SemaphoreCount' /\ FreeSemaphoreEmpty'
      /\ DeferInLoops'
  BY DEF KernelInv, QueuesMatchStates, OneCurrent, SemaphoreCount,
         FreeSemaphoreEmpty, DeferInLoops, Waiting
<1>2. Targets'
  BY DEF KernelInv, Targets
<1> QED BY <1>1, <1>2 DEF KernelInv

-----------------------------------------------------------------------------
(* Each call preserves the invariant. *)

LEMMA CreateInv ==
  ASSUME KernelInv, NEW pid \in Pids, NEW prio \in Prios, Create(pid, prio)
  PROVE  KernelInv'
PROOF
<1>1. UserMode /\ prstate[pid] = "FREE"
  BY DEF Create, Calls, NextFree, FreePids
<1>2. /\ prstate' = [prstate EXCEPT ![pid] = "SUSP"]
      /\ prsem' = [prsem EXCEPT ![pid] = -1]
      /\ cont' = [cont EXCEPT ![pid] = User]
      /\ UNCHANGED <<currpid, readylist, sleepq, qkey, sstate, scount, squeue, Defer, preempt>>
  BY DEF Create
<1>3. TypeOK'
  <2>1. (pid + 1) % NPROC \in Pids
    BY TableSizes DEF Pids
  <2>2. User \in [op : Ops, id : Pids \cup Sems, n : Nat]
    BY NullIsPid DEF User, Cont, Ops, NULLPROC
  <2>3. prio \in Nat
    BY PrioRange
  <2>4. /\ prstate' \in [Pids -> States]
        /\ prsem' \in [Pids -> Sems \cup {-1}]
        /\ cont' \in [Pids -> [op : Ops, id : Pids \cup Sems, n : Nat]]
    BY <1>2, <2>2 DEF KernelInv, TypeOK, States
  <2>5. /\ prprio' \in [Pids -> Nat] /\ prparent' \in [Pids -> Pids]
        /\ prhasmsg' \in [Pids -> BOOLEAN]
        /\ prcount' \in Int /\ nextpid' \in Pids
    BY SMTT(30), <2>1, <2>3 DEF Create, KernelInv, TypeOK
  <2> QED BY <2>4, <2>5 DEF Create, KernelInv, TypeOK
<1>4. Scheduled(prstate')
  <2>1. ReadySet(prstate') = ReadySet(prstate)
    BY <1>1, <1>2, InvFacts DEF ReadySet
  <2>2. /\ prstate' \in [Pids -> States] /\ readylist' \in Seq(Pids)
        /\ preempt' \in 1..QUANTUM /\ qkey' \in [Pids -> Int] /\ currpid' \in Pids
    BY <1>3 DEF TypeOK
  <2>3. /\ \A p \in Pids : prstate'[p] = "CURR" <=> p = currpid'
        /\ prstate'[NULLPROC] \in {"CURR", "READY"}
    BY <1>1, <1>2, InvFacts, NullIsPid
  <2>4. QueueOf(readylist', ReadySet(prstate'))
    BY <1>2, <2>1, InvFacts
  <2>5. \A p \in Pids : prstate'[p] \in {"CURR", "READY"} => prstate'[p] \in {"CURR", "READY"}
    OBVIOUS
  <2>6. currpid' = currpid
    BY <1>2
  <2> QED BY <2>2, <2>3, <2>4, <2>5, <2>6 DEF Scheduled
<1>5. /\ SleepSet(prstate') = SleepSet(prstate)
      /\ \A s \in Sems : WaitSet(prstate', prsem', s) = WaitSet(prstate, prsem, s)
  <2>1. prsem \in [Pids -> Sems \cup {-1}]
    BY DEF KernelInv, TypeOK
  <2> QED BY <1>1, <1>2, <2>1, InvFacts DEF SleepSet, WaitSet
<1>6. SemaphoreCount' /\ FreeSemaphoreEmpty'
  BY <1>1, <1>2, UserFacts, CountAfter, FreeAfter
<1>7. /\ Defer'.ndefers = 0 /\ cont[currpid].op \notin LoopOps
      /\ \A p \in Pids : cont'[p].op \notin LoopOps \/ (cont'[p] = cont[p] /\ prstate[p] # "FREE")
                          \/ prstate'[p] = "FREE"
  <2>1. cont \in [Pids -> [op : Ops, id : Pids \cup Sems, n : Nat]]
    BY DEF KernelInv, TypeOK
  <2> QED BY <1>1, <1>2, <2>1, InvFacts, UserFacts DEF User, Cont, LoopOps
<1>8. /\ \A p \in Pids : cont'[p].op \in SemOps => cont'[p].id \in Sems
      /\ \A p \in Pids : cont'[p].op = "kill" => cont'[p].id \in Pids \ {NULLPROC}
      /\ \A p \in Pids : prstate'[p] = "WAIT" => prsem'[p] \in Sems
  <2>1. cont \in [Pids -> [op : Ops, id : Pids \cup Sems, n : Nat]] /\ prsem \in [Pids -> Sems \cup {-1}]
    BY DEF KernelInv, TypeOK
  <2> QED BY <1>1, <1>2, <2>1, InvFacts DEF KernelInv, Targets, User, Cont, SemOps
<1>9. /\ QueueOf(sleepq', SleepSet(prstate'))
      /\ \A s \in Sems : QueueOf(squeue'[s], WaitSet(prstate', prsem', s))
  BY <1>2, <1>5, InvFacts
<1> QED BY <1>3, <1>4, <1>6, <1>7, <1>8, <1>9, CallInv

(* What most calls do: they may block or wake up processes, but neither on a
   semaphore nor from one, and nobody dies or is born. *)
Plain(ps) ==
  /\ Scheduled(ps)
  /\ Defer' \in [ndefers : Nat, attempt : BOOLEAN]
  /\ Defer'.ndefers = 0
  /\ sleepq' \in Seq(Pids)
  /\ QueueOf(sleepq', SleepSet(ps))
  /\ \A p \in Pids : ps[p] = "WAIT" <=> prstate[p] = "WAIT"
  /\ \A p \in Pids : ps[p] = "FREE" <=> prstate[p] = "FREE"

LEMMA PlainInv ==
  ASSUME KernelInv, cont[currpid].op \notin LoopOps, NEW ps, Plain(ps), TypeOK',
         UNCHANGED <<prsem, sstate, scount, squeue>>,
         \A p \in Pids : \/ cont'[p] = cont[p]
                         \/ cont'[p].op \in {"user", "receive", "recvtime", "tick"}
                         \/ cont'[p].op = "kill" /\ cont'[p].id \in Pids \ {NULLPROC}
  PROVE  KernelInv'
PROOF
<1>1. \A s \in Sems : WaitSet(ps, prsem, s) = WaitSet(prstate, prsem, s)
  BY DEF Plain, WaitSet
<1>2. \A s \in Sems : QueueOf(squeue'[s], WaitSet(ps, prsem', s))
  BY <1>1, InvFacts
<1>3. SemaphoreCount' /\ FreeSemaphoreEmpty'
  BY OutsideLoops, CountAfter, FreeAfter
<1>4. \A p \in Pids : \/ cont'[p].op \notin LoopOps
                      \/ cont'[p] = cont[p] /\ prstate[p] # "FREE"
                      \/ ps[p] = "FREE"
  BY DEF LoopOps, Plain
<1>5. /\ \A p \in Pids : cont'[p].op \in SemOps => cont'[p].id \in Sems
      /\ \A p \in Pids : cont'[p].op = "kill" => cont'[p].id \in Pids \ {NULLPROC}
      /\ \A p \in Pids : ps[p] = "WAIT" => prsem'[p] \in Sems
  BY DEF KernelInv, Targets, Plain, SemOps
<1> QED BY <1>2, <1>3, <1>4, <1>5, CallInv DEF Plain

(* A step that leaves the scheduler alone, or only reschedules. *)
LEMMA PlainStay ==
  ASSUME KernelInv, Scheduled(prstate), UNCHANGED sleepq, Defer'.ndefers = 0,
         Defer' \in [ndefers : Nat, attempt : BOOLEAN]
  PROVE  Plain(prstate)
PROOF
<1>1. sleepq \in Seq(Pids)
  BY DEF KernelInv, TypeOK
<1> QED BY <1>1, InvFacts DEF Plain

LEMMA SchedulerUnchanged ==
  ASSUME KernelInv, UNCHANGED schedVars
  PROVE  Scheduled(prstate) /\ Defer' = Defer
PROOF
<1>1. readylist \in Seq(Pids)
  BY DEF KernelInv, TypeOK
<1> QED BY <1>1, InvFacts DEF Scheduled, schedVars

LEMMA ResumeInv ==
  ASSUME KernelInv, NEW pid \in Pids, Resume(pid)
  PROVE  KernelInv'
PROOF
<1> DEFINE ps == [prstate EXCEPT ![pid] = "READY"]
<1>1. UserMode /\ prstate[pid] = "SUSP" /\ Ready(pid, qkey)
  BY DEF Resume, Calls
<1>2. UNCHANGED <<procVars, msgVars, semVars, sleepq, cont, halted>>
  BY DEF Resume
<1>3. Scheduled(ps) /\ Defer' \in [ndefers : Nat, attempt : BOOLEAN] /\ Defer'.ndefers = 0
  BY <1>1, InvFacts, UserFacts, ReadySchedules
<1>4. TypeOK'
  BY <1>2, <1>3 DEF KernelInv, TypeOK, Scheduled, procVars, msgVars, semVars
<1>5. /\ SleepSet(ps) = SleepSet(prstate)
      /\ \A p \in Pids : ps[p] = "WAIT" <=> prstate[p] = "WAIT"
      /\ \A p \in Pids : ps[p] = "FREE" <=> prstate[p] = "FREE"
  BY <1>1, InvFacts DEF SleepSet
<1> HIDE DEF ps
<1>6. Plain(ps)
  BY <1>2, <1>3, <1>4, <1>5, InvFacts DEF Plain, TypeOK
<1> QED BY <1>1, <1>2, <1>4, <1>6, UserFacts, PlainInv DEF semVars

LEMMA SuspendReadyInv ==
  ASSUME KernelInv, NEW pid \in Pids, SuspendReady(pid)
  PROVE  KernelInv'
PROOF
<1> DEFINE ps == [prstate EXCEPT ![pid] = "SUSP"]
<1>1. UserMode /\ pid # NULLPROC /\ prstate[pid] = "READY"
  BY DEF SuspendReady, Calls
<1>2. /\ prstate' = ps /\ readylist' = GetItem(readylist, pid)
      /\ UNCHANGED <<currpid, qkey, preempt, Defer, procVars, msgVars, semVars,
                     sleepq, cont, halted>>
  BY DEF SuspendReady
<1>3. /\ ps \in [Pids -> States]
      /\ ReadySet(ps) = ReadySet(prstate) \ {pid}
      /\ SleepSet(ps) = SleepSet(prstate)
      /\ \A p \in Pids : ps[p] = "WAIT" <=> prstate[p] = "WAIT"
      /\ \A p \in Pids : ps[p] = "FREE" <=> prstate[p] = "FREE"
      /\ \A p \in Pids : ps[p] = "CURR" <=> p = currpid
      /\ ps[NULLPROC] \in {"CURR", "READY"}
  BY <1>1, InvFacts, NullIsPid DEF ReadySet, SleepSet, States
<1>4. pid \in ReadySet(prstate) /\ ReadySet(ps) \subseteq Pids
  BY <1>1 DEF ReadySet
<1> HIDE DEF ps
<1>5. QueueOf(readylist', ReadySet(ps))
  BY <1>2, <1>3, <1>4, InvFacts, QueueGetItem
<1>6. readylist' \in Seq(Pids)
  BY <1>4, <1>5, SeqMonotonic DEF QueueOf
<1>7. Scheduled(ps)
  BY <1>2, <1>3, <1>5, <1>6, InvFacts DEF Scheduled
<1>8. TypeOK'
  BY <1>2, <1>7 DEF KernelInv, TypeOK, Scheduled, procVars, msgVars, semVars
<1>9. Plain(ps)
  BY <1>1, <1>2, <1>3, <1>7, <1>8, InvFacts, UserFacts DEF Plain, TypeOK
<1> QED BY <1>1, <1>2, <1>8, <1>9, UserFacts, PlainInv DEF semVars

LEMMA SuspendSelfInv ==
  ASSUME KernelInv, SuspendSelf
  PROVE  KernelInv'
PROOF
<1> DEFINE ps == [prstate EXCEPT ![currpid] = "SUSP"]
<1>1. UserMode /\ currpid # NULLPROC /\ Block("SUSP", qkey)
  BY DEF SuspendSelf, Calls
<1>2. UNCHANGED <<procVars, msgVars, semVars, sleepq, cont, halted>>
  BY DEF SuspendSelf
<1>3. "SUSP" \in States \ {"CURR", "READY"}
  BY DEF States
<1>4. Scheduled(ps) /\ Defer' = Defer /\ Defer'.ndefers = 0
  BY <1>1, <1>3, InvFacts, UserFacts, BlockSchedules
<1>5. /\ SleepSet(ps) = SleepSet(prstate)
      /\ \A p \in Pids : ps[p] = "WAIT" <=> prstate[p] = "WAIT"
      /\ \A p \in Pids : ps[p] = "FREE" <=> prstate[p] = "FREE"
  BY InvFacts DEF SleepSet
<1> HIDE DEF ps
<1>6. TypeOK'
  BY <1>2, <1>4 DEF KernelInv, TypeOK, Scheduled, procVars, msgVars, semVars
<1>7. Plain(ps)
  BY <1>2, <1>4, <1>5, <1>6, InvFacts DEF Plain, TypeOK
<1> QED BY <1>1, <1>2, <1>6, <1>7, UserFacts, PlainInv DEF semVars

LEMMA YieldInv ==
  ASSUME KernelInv, Yield
  PROVE  KernelInv'
PROOF
<1>1. UserMode /\ Resched(prstate, readylist, qkey, preempt)
  BY DEF Yield, Calls
<1>2. UNCHANGED <<procVars, msgVars, semVars, sleepq, cont, halted>>
  BY DEF Yield
<1>3. Scheduled(prstate) /\ Defer' \in [ndefers : Nat, attempt : BOOLEAN] /\ Defer'.ndefers = 0
  BY <1>1, InvFacts, UserFacts, ReschedSchedules
<1>4. TypeOK'
  BY <1>2, <1>3 DEF KernelInv, TypeOK, Scheduled, procVars, msgVars, semVars
<1>5. Plain(prstate)
  BY <1>2, <1>3, PlainStay
<1> QED BY <1>1, <1>2, <1>4, <1>5, UserFacts, PlainInv DEF semVars

(* The calls that neither block nor wake up anyone. *)
LEMMA FrameCallsInv ==
  ASSUME KernelInv,
         \/ \E pid \in Pids : CreateNoStack(pid)
         \/ \E pid \in Pids, prio \in Prios : Chprio(pid, prio)
         \/ ReceiveNow \/ RecvNoWait \/ Halted
  PROVE  KernelInv'
PROOF
<1> USE InvFacts DEF schedVars
<1>1. ASSUME NEW pid \in Pids, CreateNoStack(pid) PROVE KernelInv'
  <2>1. (pid + 1) % NPROC \in Pids
    BY SMTT(30), TableSizes DEF Pids
  <2>2. TypeOK'
    BY <1>1, <2>1 DEF CreateNoStack, KernelInv, TypeOK, msgVars, semVars
  <2> QED BY <1>1, <2>2, FrameInv DEF CreateNoStack, semVars
<1>2. ASSUME NEW pid \in Pids, NEW prio \in Prios, Chprio(pid, prio) PROVE KernelInv'
  <2>1. TypeOK'
    BY <1>2, PrioRange DEF Chprio, KernelInv, TypeOK, msgVars, semVars
  <2> QED BY <1>2, <2>1, FrameInv DEF Chprio, semVars
<1>3. ASSUME ReceiveNow \/ RecvNoWait PROVE KernelInv'
  <2>1. TypeOK'
    BY <1>3 DEF ReceiveNow, RecvNoWait, Take, KernelInv, TypeOK, procVars, semVars
  <2> QED BY <1>3, <2>1, FrameInv DEF ReceiveNow, RecvNoWait, semVars
<1>4. ASSUME Halted PROVE KernelInv'
  <2>1. TypeOK'
    BY <1>4 DEF Halted, vars, KernelInv, TypeOK, procVars, msgVars, semVars
  <2> QED BY <1>4, <2>1, FrameInv DEF Halted, vars, semVars
<1> QED BY <1>1, <1>2, <1>3, <1>4

(* unsleep() hands the delay of a sleeping process on. *)
LEMMA UnsleepKeys ==
  ASSUME KernelInv, NEW p \in Pids, p \in SleepSet(prstate)
  PROVE  KeyAfterUnsleep(sleepq, qkey, p) \in [Pids -> Int]
PROOF
<1>1. Index(sleepq, p) \in 1..Len(sleepq)
  BY InvFacts, IndexOfMember
<1>2. sleepq \in Seq(Pids) /\ qkey \in [Pids -> Int]
  BY DEF KernelInv, TypeOK
<1> QED BY <1>1, <1>2 DEF KeyAfterUnsleep

(* send() to whatever process, in whatever state. *)
LEMMA DeliverPlain ==
  ASSUME KernelInv, Defer.ndefers = 0, NEW dst \in Pids, NEW msg \in Msgs \cup Pids,
         Deliver(dst, msg)
  PROVE  /\ \E ps : Plain(ps)
         /\ prmsg' \in [Pids -> Msgs \cup Pids]
         /\ prhasmsg' \in [Pids -> BOOLEAN]
PROOF
<1>1. /\ prmsg \in [Pids -> Msgs \cup Pids] /\ prhasmsg \in [Pids -> BOOLEAN]
      /\ sleepq \in Seq(Pids)
  BY DEF KernelInv, TypeOK
<1>2. prmsg' \in [Pids -> Msgs \cup Pids] /\ prhasmsg' \in [Pids -> BOOLEAN]
  <2>1. CASE UNCHANGED msgVars
    BY <1>1, <2>1 DEF msgVars
  <2>2. CASE /\ prmsg' = [prmsg EXCEPT ![dst] = msg]
             /\ prhasmsg' = [prhasmsg EXCEPT ![dst] = TRUE]
    <3>1. prmsg' \in [Pids -> Msgs \cup Pids]
      BY <1>1, <2>2
    <3>2. prhasmsg' \in [Pids -> BOOLEAN]
      BY <1>1, <2>2
    <3> QED BY <3>1, <3>2
  <2> QED BY <2>1, <2>2 DEF Deliver
<1>3. CASE UNCHANGED <<schedVars, sleepq>>
  <2>1. Plain(prstate)
    BY <1>3, InvFacts, SchedulerUnchanged, PlainStay
  <2> QED BY <1>2, <2>1
<1>4. CASE prstate[dst] = "RECV" /\ Ready(dst, qkey) /\ UNCHANGED sleepq
  <2> DEFINE ps == [prstate EXCEPT ![dst] = "READY"]
  <2>1. Scheduled(ps) /\ Defer' \in [ndefers : Nat, attempt : BOOLEAN] /\ Defer'.ndefers = 0
    BY <1>4, InvFacts, ReadySchedules
  <2>2. /\ SleepSet(ps) = SleepSet(prstate)
        /\ \A p \in Pids : ps[p] = "WAIT" <=> prstate[p] = "WAIT"
        /\ \A p \in Pids : ps[p] = "FREE" <=> prstate[p] = "FREE"
    BY <1>4, InvFacts DEF SleepSet
  <2> HIDE DEF ps
  <2>3. Plain(ps)
    BY <1>1, <1>4, <2>1, <2>2, InvFacts DEF Plain
  <2> QED BY <1>2, <2>3
<1>5. CASE /\ prstate[dst] = "RECTIM"
           /\ sleepq' = GetItem(sleepq, dst)
           /\ Ready(dst, KeyAfterUnsleep(sleepq, qkey, dst))
  <2> DEFINE ps == [prstate EXCEPT ![dst] = "READY"]
             qk == KeyAfterUnsleep(sleepq, qkey, dst)
  <2>1. dst \in SleepSet(prstate) /\ SleepSet(ps) \subseteq Pids
    BY <1>5 DEF SleepSet
  <2>2. qk \in [Pids -> Int]
    BY <2>1, UnsleepKeys
  <2> HIDE DEF qk
  <2>3. Scheduled(ps) /\ Defer' \in [ndefers : Nat, attempt : BOOLEAN] /\ Defer'.ndefers = 0
    BY <1>5, <2>2, InvFacts, ReadySchedules DEF qk
  <2>4. /\ SleepSet(ps) = SleepSet(prstate) \ {dst}
        /\ \A p \in Pids : ps[p] = "WAIT" <=> prstate[p] = "WAIT"
        /\ \A p \in Pids : ps[p] = "FREE" <=> prstate[p] = "FREE"
    BY <1>5, InvFacts DEF SleepSet
  <2> HIDE DEF ps
  <2>5. QueueOf(sleepq', SleepSet(ps))
    BY <1>5, <2>1, <2>4, InvFacts, QueueGetItem
  <2>6. sleepq' \in Seq(Pids)
    BY <2>1, <2>5, SeqMonotonic DEF QueueOf
  <2>7. Plain(ps)
    BY <2>3, <2>4, <2>5, <2>6 DEF Plain
  <2> QED BY <1>2, <2>7
<1>6. \/ UNCHANGED <<schedVars, sleepq>>
      \/ prstate[dst] = "RECV" /\ Ready(dst, qkey) /\ UNCHANGED sleepq
      \/ /\ prstate[dst] = "RECTIM"
         /\ sleepq' = GetItem(sleepq, dst)
         /\ Ready(dst, KeyAfterUnsleep(sleepq, qkey, dst))
  BY DEF Deliver
<1> QED BY <1>3, <1>4, <1>5, <1>6

(* The types, after a step that is accounted for by Plain. *)
LEMMA PlainTypes ==
  ASSUME KernelInv, NEW ps, Plain(ps),
         UNCHANGED <<prprio, prparent, nextpid, semVars>>,
         prcount' \in Int,
         prmsg' \in [Pids -> Msgs \cup Pids],
         prhasmsg' \in [Pids -> BOOLEAN],
         cont' \in [Pids -> [op : Ops, id : Pids \cup Sems, n : Nat]],
         halted' \in BOOLEAN
  PROVE  TypeOK'
PROOF BY DEF KernelInv, TypeOK, Plain, Scheduled, semVars

LEMMA ContType ==
  ASSUME KernelInv
  PROVE  /\ cont \in [Pids -> [op : Ops, id : Pids \cup Sems, n : Nat]]
         /\ halted \in BOOLEAN /\ prcount \in Int
         /\ prmsg \in [Pids -> Msgs \cup Pids]
         /\ prhasmsg \in [Pids -> BOOLEAN]
PROOF BY DEF KernelInv, TypeOK

LEMMA ThenType ==
  ASSUME KernelInv, NEW op \in Ops, NEW id \in Pids \cup Sems, NEW n \in Nat,
         Then(Cont(op, id, n))
  PROVE  /\ cont' \in [Pids -> [op : Ops, id : Pids \cup Sems, n : Nat]]
         /\ cont'[currpid] = Cont(op, id, n)
         /\ cont'[currpid].op = op /\ cont'[currpid].id = id /\ cont'[currpid].n = n
         /\ \A p \in Pids \ {currpid} : cont'[p] = cont[p]
PROOF BY ContType, InvFacts DEF Then, Cont

LEMMA SendInv ==
  ASSUME KernelInv, NEW pid \in Pids, NEW msg \in Msgs, Send(pid, msg)
  PROVE  KernelInv'
PROOF
<1>1. /\ UserMode /\ Deliver(pid, msg)
      /\ UNCHANGED <<procVars, semVars, cont, halted>>
  BY DEF Send, Calls
<1>2. PICK ps : Plain(ps)
  BY <1>1, UserFacts, DeliverPlain
<1>3. prmsg' \in [Pids -> Msgs \cup Pids] /\ prhasmsg' \in [Pids -> BOOLEAN]
  BY <1>1, UserFacts, DeliverPlain
<1>4. TypeOK'
  BY <1>1, <1>2, <1>3, ContType, PlainTypes DEF procVars
<1> QED BY <1>1, <1>2, <1>4, UserFacts, PlainInv DEF semVars

LEMMA KillInv ==
  ASSUME KernelInv, NEW pid \in Pids, Kill(pid)
  PROVE  KernelInv'
PROOF
<1>1. /\ UserMode /\ pid \in Pids \ {NULLPROC}
      /\ prcount' = prcount - 1
      /\ UNCHANGED <<prprio, prparent, nextpid, semVars>>
  BY DEF Kill, Calls
<1>2. CASE halted' = TRUE /\ UNCHANGED <<schedVars, msgVars, sleepq, cont>>
  <2>1. TypeOK'
    BY SMTT(30), <1>1, <1>2 DEF KernelInv, TypeOK, schedVars, msgVars, semVars
  <2> QED BY <1>1, <1>2, <2>1, FrameInv DEF schedVars, semVars
<1>3. CASE /\ Deliver(prparent[pid], pid)
           /\ Then(Cont("kill", pid, 0))
           /\ UNCHANGED halted
  <2>1. prparent[pid] \in Pids
    BY DEF KernelInv, TypeOK
  <2>2. PICK ps : Plain(ps)
    BY <1>1, <1>3, <2>1, UserFacts, DeliverPlain
  <2>3. prmsg' \in [Pids -> Msgs \cup Pids] /\ prhasmsg' \in [Pids -> BOOLEAN]
    BY <1>1, <1>3, <2>1, UserFacts, DeliverPlain
  <2>4. "kill" \in Ops /\ 0 \in Nat
    BY DEF Ops
  <2>5. TypeOK'
    BY <1>1, <1>3, <2>2, <2>3, <2>4, ContType, ThenType, PlainTypes
  <2>6. \A p \in Pids : \/ cont'[p] = cont[p]
                        \/ cont'[p].op = "kill" /\ cont'[p].id \in Pids \ {NULLPROC}
    BY <1>1, <1>3, <2>4, ThenType
  <2> QED BY <1>1, <2>2, <2>5, <2>6, UserFacts, PlainInv DEF semVars
<1> QED BY <1>2, <1>3 DEF Kill

LEMMA ReceiveBlockInv ==
  ASSUME KernelInv, ReceiveBlock
  PROVE  KernelInv'
PROOF
<1> DEFINE ps == [prstate EXCEPT ![currpid] = "RECV"]
<1>1. /\ UserMode /\ currpid # NULLPROC /\ Block("RECV", qkey)
      /\ Then(Cont("receive", 0, 0))
      /\ UNCHANGED <<procVars, msgVars, semVars, sleepq, halted>>
  BY DEF ReceiveBlock, Calls
<1>2. "RECV" \in States \ {"CURR", "READY"} /\ "receive" \in Ops /\ 0 \in Pids \cup Sems
  BY NullIsPid DEF States, Ops, NULLPROC
<1>3. Scheduled(ps) /\ Defer' = Defer /\ Defer'.ndefers = 0
  BY <1>1, <1>2, InvFacts, UserFacts, BlockSchedules
<1>4. /\ SleepSet(ps) = SleepSet(prstate)
      /\ \A p \in Pids : ps[p] = "WAIT" <=> prstate[p] = "WAIT"
      /\ \A p \in Pids : ps[p] = "FREE" <=> prstate[p] = "FREE"
  BY InvFacts DEF SleepSet
<1> HIDE DEF ps
<1>5. sleepq \in Seq(Pids)
  BY DEF KernelInv, TypeOK
<1>6. Plain(ps)
  BY <1>1, <1>3, <1>4, <1>5, InvFacts DEF Plain
<1>7. /\ cont' \in [Pids -> [op : Ops, id : Pids \cup Sems, n : Nat]]
      /\ cont'[currpid].op = "receive"
      /\ \A p \in Pids \ {currpid} : cont'[p] = cont[p]
  BY <1>1, <1>2, ThenType
<1>8. TypeOK'
  BY <1>1, <1>6, <1>7, ContType, PlainTypes DEF procVars, msgVars
<1> QED BY <1>1, <1>6, <1>7, <1>8, UserFacts, PlainInv DEF semVars

(* The end of receive and recvtime. *)
LEMMA ReceiveRestInv ==
  ASSUME KernelInv, ReceiveRest
  PROVE  KernelInv'
PROOF
<1>1. /\ cont[currpid].op \notin LoopOps
      /\ Then(Cont("user", 0, 0))
      /\ UNCHANGED <<schedVars, procVars, prmsg, semVars, sleepq, halted>>
      /\ prhasmsg' = [prhasmsg EXCEPT ![currpid] = FALSE]
  BY DEF ReceiveRest, Continues, LoopOps, Take, User
<1>2. "user" \in Ops /\ 0 \in Pids \cup Sems
  BY NullIsPid DEF Ops, NULLPROC
<1>3. Plain(prstate)
  BY <1>1, InvFacts, OutsideLoops, SchedulerUnchanged, PlainStay
<1>4. /\ cont' \in [Pids -> [op : Ops, id : Pids \cup Sems, n : Nat]]
      /\ cont'[currpid].op = "user"
      /\ \A p \in Pids \ {currpid} : cont'[p] = cont[p]
  BY <1>1, <1>2, ThenType
<1>5. TypeOK'
  BY <1>1, <1>3, <1>4, ContType, PlainTypes DEF procVars
<1> QED BY <1>1, <1>3, <1>4, <1>5, PlainInv DEF semVars

(* sleepms and recvtime put the caller on the delta list. *)
LEMMA BlockForPlain ==
  ASSUME KernelInv, NEW st \in {"SLEEP", "RECTIM"}, NEW d \in Nat,
         currpid # NULLPROC, Defer.ndefers = 0, BlockFor(st, d)
  PROVE  \E ps : Plain(ps)
PROOF
<1> DEFINE ps == [prstate EXCEPT ![currpid] = st]
<1>1. PICK i \in 1..(Len(sleepq) + 1), k \in 0..d :
        /\ sleepq' = InsertAt(sleepq, i, currpid)
        /\ Block(st, KeyAfterInsertd(sleepq, qkey, currpid, i, k))
  BY DEF BlockFor
<1> DEFINE qk == KeyAfterInsertd(sleepq, qkey, currpid, i, k)
<1>2. sleepq \in Seq(Pids)
  BY DEF KernelInv, TypeOK
<1>3. qk \in [Pids -> Int]
  <2>1. k \in Int /\ [qkey EXCEPT ![currpid] = k] \in [Pids -> Int]
    BY InvFacts
  <2>2. CASE i <= Len(sleepq)
    <3>1. sleepq[i] \in Pids
      BY <1>2, <2>2
    <3> QED BY <2>1, <2>2, <3>1 DEF KeyAfterInsertd
  <2>3. CASE ~(i <= Len(sleepq))
    BY <2>1, <2>3 DEF KeyAfterInsertd
  <2> QED BY <2>2, <2>3
<1>4. st \in States \ {"CURR", "READY"}
  BY DEF States
<1> HIDE DEF qk
<1>5. Scheduled(ps) /\ Defer' = Defer
  BY <1>1, <1>3, <1>4, BlockSchedules DEF qk
<1>6. /\ currpid \notin SleepSet(prstate)
      /\ SleepSet(ps) = SleepSet(prstate) \cup {currpid}
      /\ SleepSet(ps) \subseteq Pids
      /\ \A p \in Pids : ps[p] = "WAIT" <=> prstate[p] = "WAIT"
      /\ \A p \in Pids : ps[p] = "FREE" <=> prstate[p] = "FREE"
  BY InvFacts DEF SleepSet
<1> HIDE DEF ps
<1>7. QueueOf(sleepq', SleepSet(ps))
  BY <1>1, <1>6, InvFacts, QueueInsertAt
<1>8. sleepq' \in Seq(Pids)
  BY <1>6, <1>7, SeqMonotonic DEF QueueOf
<1>9. Plain(ps)
  BY <1>5, <1>6, <1>7, <1>8, InvFacts DEF Plain
<1> QED BY <1>9

LEMMA SleepmsInv ==
  ASSUME KernelInv, NEW d \in Delays, Sleepms(d)
  PROVE  KernelInv'
PROOF
<1>1. /\ UserMode /\ currpid # NULLPROC /\ BlockFor("SLEEP", d) /\ d \in Nat
      /\ UNCHANGED <<procVars, msgVars, semVars, cont, halted>>
  BY CallArguments DEF Sleepms, Calls
<1>2. PICK ps : Plain(ps)
  BY <1>1, UserFacts, BlockForPlain
<1>3. TypeOK'
  BY <1>1, <1>2, ContType, PlainTypes DEF procVars, msgVars
<1> QED BY <1>1, <1>2, <1>3, UserFacts, PlainInv DEF semVars

LEMMA RecvtimeBlockInv ==
  ASSUME KernelInv, NEW w \in Waits, RecvtimeBlock(w)
  PROVE  KernelInv'
PROOF
<1>1. /\ UserMode /\ currpid # NULLPROC /\ BlockFor("RECTIM", w) /\ w \in Nat
      /\ Then(Cont("recvtime", 0, 0))
      /\ UNCHANGED <<procVars, msgVars, semVars, halted>>
  BY CallArguments DEF RecvtimeBlock, Calls
<1>2. PICK ps : Plain(ps)
  BY <1>1, UserFacts, BlockForPlain
<1>3. "recvtime" \in Ops /\ 0 \in Pids \cup Sems
  BY NullIsPid DEF Ops, NULLPROC
<1>4. /\ cont' \in [Pids -> [op : Ops, id : Pids \cup Sems, n : Nat]]
      /\ cont'[currpid].op = "recvtime"
      /\ \A p \in Pids \ {currpid} : cont'[p] = cont[p]
  BY <1>1, <1>3, ThenType
<1>5. TypeOK'
  BY <1>1, <1>2, <1>4, ContType, PlainTypes DEF procVars, msgVars
<1> QED BY <1>1, <1>2, <1>4, <1>5, UserFacts, PlainInv DEF semVars

-----------------------------------------------------------------------------
(* Time *)

LEMMA TimeSliceSchedules ==
  ASSUME KernelInv, NEW qk \in [Pids -> Int], TimeSlice(qk)
  PROVE  /\ Scheduled(prstate)
         /\ Defer' \in [ndefers : Nat, attempt : BOOLEAN]
         /\ Defer'.ndefers = Defer.ndefers
PROOF
<1>1. prstate[currpid] = "CURR" /\ QUANTUM \in 1..QUANTUM
  BY InvFacts, TableSizes
<1>2. CASE Resched(prstate, readylist, qk, QUANTUM)
  BY <1>1, <1>2, InvFacts, ReschedSchedules
<1>3. CASE preempt - 1 > 0 /\ Stay(prstate, readylist, qk, preempt - 1) /\ UNCHANGED Defer
  <2>1. preempt - 1 \in 1..QUANTUM
    BY <1>3, InvFacts, TableSizes
  <2> QED BY <1>1, <1>3, <2>1, InvFacts, StaySchedules
<1> QED BY <1>2, <1>3 DEF TimeSlice

LEMMA TickRestInv ==
  ASSUME KernelInv, TickRest
  PROVE  KernelInv'
PROOF
<1>1. /\ cont[currpid].op \notin LoopOps
      /\ Then(Cont("user", 0, 0))
      /\ TimeSlice(qkey)
      /\ UNCHANGED <<procVars, msgVars, semVars, sleepq, halted>>
  BY DEF TickRest, Continues, LoopOps, User
<1>2. "user" \in Ops /\ 0 \in Pids \cup Sems
  BY NullIsPid DEF Ops, NULLPROC
<1>3. Plain(prstate)
  BY <1>1, InvFacts, OutsideLoops, TimeSliceSchedules, PlainStay
<1>4. /\ cont' \in [Pids -> [op : Ops, id : Pids \cup Sems, n : Nat]]
      /\ cont'[currpid].op = "user"
      /\ \A p \in Pids \ {currpid} : cont'[p] = cont[p]
  BY <1>1, <1>2, ThenType
<1>5. TypeOK'
  BY <1>1, <1>3, <1>4, ContType, PlainTypes DEF procVars, msgVars
<1> QED BY <1>1, <1>3, <1>4, <1>5, PlainInv DEF semVars

(* The types after a step of a loop. *)
LEMMA LoopTypes ==
  ASSUME KernelInv, NEW ps, Scheduled(ps),
         UNCHANGED <<procVars, msgVars, prsem, nextsem, halted>>,
         Defer' \in [ndefers : Nat, attempt : BOOLEAN],
         sleepq' \in Seq(Pids),
         sstate' \in [Sems -> {"FREE", "USED"}],
         scount' \in [Sems -> Int],
         squeue' \in [Sems -> Seq(Pids)],
         cont' \in [Pids -> [op : Ops, id : Pids \cup Sems, n : Nat]]
  PROVE  TypeOK'
PROOF BY DEF KernelInv, TypeOK, Scheduled, procVars, msgVars

LEMMA SemTypes ==
  ASSUME KernelInv
  PROVE  /\ sstate \in [Sems -> {"FREE", "USED"}]
         /\ scount \in [Sems -> Int]
         /\ squeue \in [Sems -> Seq(Pids)]
         /\ prsem \in [Pids -> Sems \cup {-1}]
         /\ sleepq \in Seq(Pids) /\ readylist \in Seq(Pids)
PROOF BY DEF KernelInv, TypeOK

(* Entering a loop: nothing has moved yet. *)
LEMMA EnterLoop ==
  ASSUME KernelInv, UserMode, NEW op \in LoopOps, NEW id \in Pids \cup Sems, NEW n \in Nat,
         op \in SemOps => id \in Sems,
         Then(Cont(op, id, n)), DeferStart,
         qkey' \in [Pids -> Int], sstate' \in [Sems -> {"FREE", "USED"}],
         \A s \in Sems : sstate'[s] = "FREE" =>
           sstate[s] = "FREE" \/ (op = "semdelete" /\ id = s),
         UNCHANGED <<prstate, currpid, readylist, preempt, procVars, msgVars,
                     prsem, scount, squeue, nextsem, sleepq, halted>>
  PROVE  KernelInv'
PROOF
<1>1. Scheduled(prstate)
  BY InvFacts, SemTypes DEF Scheduled
<1>2. Defer' \in [ndefers : Nat, attempt : BOOLEAN] /\ Defer'.ndefers = 1
  BY UserFacts, InvFacts DEF DeferStart
<1>3. op \in Ops
  BY DEF LoopOps, Ops
<1>4. /\ cont' \in [Pids -> [op : Ops, id : Pids \cup Sems, n : Nat]]
      /\ cont'[currpid].op = op /\ cont'[currpid].id = id
      /\ \A p \in Pids \ {currpid} : cont'[p] = cont[p]
  BY <1>3, ThenType
<1>5. TypeOK'
  BY <1>1, <1>2, <1>4, SemTypes, LoopTypes
<1>6. SemaphoreCount' /\ FreeSemaphoreEmpty'
  BY <1>4, UserFacts, CountAfter DEF FreeSemaphoreEmpty
<1>7. /\ QueueOf(sleepq', SleepSet(prstate))
      /\ \A s \in Sems : QueueOf(squeue'[s], WaitSet(prstate, prsem', s))
  BY InvFacts
<1>8. \A p \in Pids \ {currpid'} : prstate'[p] # "FREE" => cont'[p].op \notin LoopOps
  BY <1>4, UserFacts
<1>9. \A p \in Pids : cont'[p].op \in Ops
  BY <1>4
<1>10. DeferInLoops'
  BY <1>2, <1>4, <1>8, <1>9 DEF DeferInLoops, LoopOps, Ops
<1>11. /\ \A p \in Pids : cont'[p].op \in SemOps => cont'[p].id \in Sems
       /\ \A p \in Pids : cont'[p].op = "kill" => cont'[p].id \in Pids \ {NULLPROC}
       /\ \A p \in Pids : prstate[p] = "WAIT" => prsem'[p] \in Sems
  BY <1>4 DEF KernelInv, Targets, LoopOps
<1> QED BY <1>1, <1>5, <1>6, <1>7, <1>10, <1>11, StepInv

(* Leaving a loop: the deferral ends, and a rescheduling may be due. *)
LEMMA LeaveLoop ==
  ASSUME KernelInv, cont[currpid].op \in LoopOps, NEW op \in {"user", "tick"},
         Then(Cont(op, 0, 0)), DeferStop,
         scount' \in [Sems -> Int],
         \A s \in Sems : Len(squeue[s]) = IF scount'[s] < 0 THEN -scount'[s] ELSE 0,
         \A s \in Sems : sstate[s] = "FREE" => squeue[s] = <<>>,
         UNCHANGED <<procVars, msgVars, prsem, sstate, squeue, nextsem, sleepq, halted>>
  PROVE  KernelInv'
PROOF
<1>1. Defer.ndefers = 1 /\ \A p \in Pids \ {currpid} : prstate[p] # "FREE" => cont[p].op \notin LoopOps
  BY InLoop
<1>2. /\ Scheduled(prstate)
      /\ Defer' \in [ndefers : Nat, attempt : BOOLEAN]
      /\ Defer'.ndefers = 0
  BY <1>1, DeferStopSchedules
<1>3. op \in Ops /\ 0 \in Pids \cup Sems
  BY NullIsPid DEF Ops, NULLPROC
<1>4. /\ cont' \in [Pids -> [op : Ops, id : Pids \cup Sems, n : Nat]]
      /\ cont'[currpid].op = op
      /\ \A p \in Pids \ {currpid} : cont'[p] = cont[p]
  BY <1>3, ThenType
<1>5. TypeOK'
  BY <1>2, <1>4, SemTypes, LoopTypes
<1>6. SemaphoreCount' /\ FreeSemaphoreEmpty'
  BY FreeAfter DEF SemaphoreCount
<1>7. /\ QueueOf(sleepq', SleepSet(prstate))
      /\ \A s \in Sems : QueueOf(squeue'[s], WaitSet(prstate, prsem', s))
  BY InvFacts
<1>8. \A p \in Pids : prstate'[p] # "FREE" => cont'[p].op \notin LoopOps
  <2>1. \A p \in Pids : prstate'[p] # "FREE" => prstate[p] # "FREE"
    BY <1>2 DEF Scheduled
  <2> QED BY <1>1, <1>4, <2>1 DEF LoopOps
<1>9. OneCurrent'
  BY <1>2 DEF Scheduled, OneCurrent
<1>10. DeferInLoops'
  BY <1>2, <1>5, <1>8, <1>9, DeferAfterCall
<1>11. /\ \A p \in Pids : cont'[p].op \in SemOps => cont'[p].id \in Sems
       /\ \A p \in Pids : cont'[p].op = "kill" => cont'[p].id \in Pids \ {NULLPROC}
       /\ \A p \in Pids : prstate[p] = "WAIT" => prsem'[p] \in Sems
  BY <1>4 DEF KernelInv, Targets, SemOps
<1> QED BY <1>2, <1>5, <1>6, <1>7, <1>10, <1>11, StepInv

LEMMA ClockTickInv ==
  ASSUME KernelInv, ClockTick
  PROVE  KernelInv'
PROOF
<1> DEFINE ticked == [qkey EXCEPT ![Head(sleepq)] = @ - 1]
<1>1. UserMode /\ UNCHANGED <<procVars, msgVars, semVars, sleepq, halted>>
  BY DEF ClockTick
<1>2. ASSUME NEW qk \in [Pids -> Int], TimeSlice(qk), UNCHANGED cont
      PROVE  KernelInv'
  <2>1. Plain(prstate)
    BY <1>1, <1>2, UserFacts, TimeSliceSchedules, PlainStay
  <2>2. TypeOK'
    BY <1>1, <1>2, <2>1, ContType, PlainTypes DEF procVars, msgVars
  <2> QED BY <1>1, <1>2, <2>1, <2>2, UserFacts, PlainInv DEF semVars
<1>3. sleepq # <<>> => ticked \in [Pids -> Int]
  <2>1. sleepq # <<>> => Head(sleepq) \in Pids
    BY SemTypes
  <2> QED BY <2>1, InvFacts
<1>4. CASE /\ sleepq # <<>>
           /\ qkey' = ticked
           /\ DeferStart
           /\ Then(Cont("wakeup", 0, 0))
           /\ UNCHANGED <<prstate, currpid, readylist, preempt>>
  <2>1. "wakeup" \in LoopOps /\ "wakeup" \notin SemOps /\ 0 \in Pids \cup Sems
    BY NullIsPid DEF LoopOps, SemOps, NULLPROC
  <2> QED BY <1>1, <1>3, <1>4, <2>1, SemTypes, EnterLoop DEF semVars
<1>5. qkey \in [Pids -> Int]
  BY InvFacts
<1>6. CASE TimeSlice(qkey) /\ UNCHANGED cont
  BY <1>2, <1>5, <1>6
<1>7. CASE sleepq # <<>> /\ TimeSlice(ticked) /\ UNCHANGED cont
  BY <1>2, <1>3, <1>7
<1> QED BY <1>4, <1>6, <1>7 DEF ClockTick

LEMMA WakeupStepInv ==
  ASSUME KernelInv, WakeupStep
  PROVE  KernelInv'
PROOF
<1> DEFINE pid == Head(sleepq)
           ps == [prstate EXCEPT ![pid] = "READY"]
<1>1. /\ cont[currpid].op = "wakeup" /\ sleepq # <<>>
      /\ sleepq' = Tail(sleepq)
      /\ Ready(pid, qkey)
      /\ UNCHANGED <<procVars, msgVars, semVars, cont, halted>>
  BY DEF WakeupStep, Due, Continues
<1>2. cont[currpid].op \in LoopOps /\ cont[currpid].op \notin SemOps
  BY <1>1 DEF LoopOps, SemOps
<1>3. /\ pid \in SleepSet(prstate)
      /\ QueueOf(Tail(sleepq), SleepSet(prstate) \ {pid})
  BY <1>1, InvFacts, QueueTail
<1>4. pid \in Pids /\ prstate[pid] \notin {"CURR", "READY", "WAIT", "FREE"}
  BY <1>3 DEF SleepSet
<1>5. /\ Scheduled(ps) /\ Defer' \in [ndefers : Nat, attempt : BOOLEAN]
      /\ Defer'.ndefers = 1 /\ currpid' = currpid
  <2>1. Defer.ndefers = 1
    BY <1>2, InLoop
  <2>2. pid \in Pids /\ prstate[pid] \notin {"CURR", "READY"} /\ qkey \in [Pids -> Int]
    BY <1>4, InvFacts
  <2>3. Ready(pid, qkey)
    BY <1>1
  <2> HIDE DEF pid
  <2>4. /\ Scheduled(ps) /\ Defer' \in [ndefers : Nat, attempt : BOOLEAN]
        /\ Defer'.ndefers = Defer.ndefers
        /\ Defer.ndefers > 0 => currpid' = currpid
    BY <2>2, <2>3, ReadySchedules
  <2> QED BY <2>1, <2>4
<1>6. /\ SleepSet(ps) = SleepSet(prstate) \ {pid}
      /\ SleepSet(prstate) \subseteq Pids
      /\ \A s \in Sems : WaitSet(ps, prsem, s) = WaitSet(prstate, prsem, s)
      /\ \A p \in Pids : ps[p] = "WAIT" => prstate[p] = "WAIT"
      /\ \A p \in Pids : ps[p] # "FREE" => prstate[p] # "FREE"
  BY <1>4, InvFacts DEF SleepSet, WaitSet
<1> HIDE DEF ps, pid
<1>7. QueueOf(sleepq', SleepSet(ps)) /\ sleepq' \in Seq(Pids)
  <2>1. sleepq' \in Seq(Pids)
    BY <1>1, SemTypes
  <2> QED BY <1>1, <1>3, <1>6, <2>1
<1>8. TypeOK'
  BY <1>1, <1>5, <1>7, ContType, SemTypes, LoopTypes DEF semVars
<1>9. SemaphoreCount' /\ FreeSemaphoreEmpty'
  <2>1. \A s \in Sems : Len(squeue[s]) = IF scount[s] < 0 THEN -scount[s] ELSE 0
    BY <1>1 DEF KernelInv, SemaphoreCount
  <2>2. \A s \in Sems : sstate[s] = "FREE" => squeue[s] = <<>>
    BY <1>1 DEF KernelInv, FreeSemaphoreEmpty
  <2> QED BY <1>1, <2>1, <2>2, CountAfter, FreeAfter DEF semVars
<1>10. \A s \in Sems : QueueOf(squeue'[s], WaitSet(ps, prsem', s))
  BY <1>1, <1>6, InvFacts DEF semVars
<1>11. \A p \in Pids : ps[p] = "WAIT" => prsem'[p] \in Sems
  BY <1>1, <1>6 DEF KernelInv, Targets, semVars
<1> QED BY <1>1, <1>2, <1>5, <1>6, <1>7, <1>8, <1>9, <1>10, <1>11, LoopInv

LEMMA WakeupDoneInv ==
  ASSUME KernelInv, WakeupDone
  PROVE  KernelInv'
PROOF
<1>1. /\ cont[currpid].op = "wakeup"
      /\ DeferStop /\ Then(Cont("tick", 0, 0))
      /\ UNCHANGED <<procVars, msgVars, semVars, sleepq, halted>>
  BY DEF WakeupDone, Continues
<1>2. cont[currpid].op \in LoopOps
  BY <1>1 DEF LoopOps
<1>3. \A s \in Sems : Len(squeue[s]) = IF scount[s] < 0 THEN -scount[s] ELSE 0
  BY <1>1 DEF KernelInv, SemaphoreCount
<1>4. \A s \in Sems : sstate[s] = "FREE" => squeue[s] = <<>>
  BY <1>1 DEF KernelInv, FreeSemaphoreEmpty
<1> QED BY <1>1, <1>2, <1>3, <1>4, SemTypes, LeaveLoop DEF semVars

-----------------------------------------------------------------------------
(* Semaphores *)

(* The first waiting process of semaphore s is made ready. *)
Popped(ps, s) ==
  /\ Scheduled(ps)
  /\ Defer' \in [ndefers : Nat, attempt : BOOLEAN]
  /\ Defer'.ndefers = Defer.ndefers
  /\ Defer.ndefers > 0 => currpid' = currpid
  /\ SleepSet(ps) = SleepSet(prstate)
  /\ squeue' \in [Sems -> Seq(Pids)]
  /\ \A t \in Sems : QueueOf(squeue'[t], WaitSet(ps, prsem, t))
  /\ \A t \in Sems \ {s} : squeue'[t] = squeue[t]
  /\ \A p \in Pids : ps[p] = "WAIT" => prstate[p] = "WAIT"
  /\ \A p \in Pids : ps[p] = "FREE" <=> prstate[p] = "FREE"

LEMMA PopSchedules ==
  ASSUME KernelInv, NEW s \in Sems, squeue[s] # <<>>,
         squeue' = [squeue EXCEPT ![s] = Tail(@)],
         Ready(Head(squeue[s]), qkey)
  PROVE  /\ \E ps : Popped(ps, s)
         /\ Len(squeue'[s]) = Len(squeue[s]) - 1
PROOF
<1> DEFINE pid == Head(squeue[s])
           ps == [prstate EXCEPT ![pid] = "READY"]
<1>1. /\ pid \in WaitSet(prstate, prsem, s)
      /\ QueueOf(Tail(squeue[s]), WaitSet(prstate, prsem, s) \ {pid})
      /\ Len(Tail(squeue[s])) = Len(squeue[s]) - 1
  BY InvFacts, QueueTail
<1>2. pid \in Pids /\ prstate[pid] = "WAIT" /\ prsem[pid] = s
  BY <1>1 DEF WaitSet
<1>3. /\ Scheduled(ps)
      /\ Defer' \in [ndefers : Nat, attempt : BOOLEAN]
      /\ Defer'.ndefers = Defer.ndefers
      /\ Defer.ndefers > 0 => currpid' = currpid
  BY <1>2, InvFacts, ReadySchedules
<1>4. /\ SleepSet(ps) = SleepSet(prstate)
      /\ WaitSet(ps, prsem, s) = WaitSet(prstate, prsem, s) \ {pid}
      /\ \A t \in Sems \ {s} : WaitSet(ps, prsem, t) = WaitSet(prstate, prsem, t)
      /\ \A p \in Pids : ps[p] = "WAIT" => prstate[p] = "WAIT"
      /\ \A p \in Pids : ps[p] = "FREE" <=> prstate[p] = "FREE"
  BY <1>2, InvFacts DEF SleepSet, WaitSet
<1> HIDE DEF ps, pid
<1>5. squeue' \in [Sems -> Seq(Pids)]
  <2>1. Tail(squeue[s]) \in Seq(Pids)
    BY SemTypes
  <2> QED BY <2>1, SemTypes
<1>6. /\ squeue'[s] = Tail(squeue[s])
      /\ \A t \in Sems \ {s} : squeue'[t] = squeue[t]
  BY SemTypes
<1>7. \A t \in Sems : QueueOf(squeue'[t], WaitSet(ps, prsem, t))
  BY <1>1, <1>4, <1>6, InvFacts
<1>8. Popped(ps, s)
  BY <1>3, <1>4, <1>5, <1>6, <1>7 DEF Popped
<1> QED BY <1>1, <1>6, <1>8

(* One unit for a semaphore, whose count was right before. *)
LEMMA ReleasePops ==
  ASSUME KernelInv, NEW s \in Sems, Release(s),
         Len(squeue[s]) = IF scount[s] < 0 THEN -scount[s] ELSE 0
  PROVE  /\ \E ps : Popped(ps, s)
         /\ scount' \in [Sems -> Int]
         /\ \A t \in Sems \ {s} : scount'[t] = scount[t]
         /\ Len(squeue'[s]) = IF scount'[s] < 0 THEN -scount'[s] ELSE 0
PROOF
<1>1. scount[s] \in Int /\ scount' = [scount EXCEPT ![s] = @ + 1]
  BY SemTypes DEF Release
<1>2. /\ scount' \in [Sems -> Int]
      /\ scount'[s] = scount[s] + 1
      /\ \A t \in Sems \ {s} : scount'[t] = scount[t]
  <2>1. scount \in [Sems -> Int] /\ scount[s] + 1 \in Int
    BY <1>1, SemTypes
  <2> QED BY <1>1, <2>1
<1>3. CASE /\ scount[s] < 0
           /\ squeue' = [squeue EXCEPT ![s] = Tail(@)]
           /\ Ready(Head(squeue[s]), qkey)
  <2>1. Len(squeue[s]) = -scount[s] /\ squeue[s] # <<>>
    BY <1>1, <1>3, SemTypes
  <2>2. (\E ps : Popped(ps, s)) /\ Len(squeue'[s]) = Len(squeue[s]) - 1
    BY <1>3, <2>1, PopSchedules
  <2>3. Len(squeue'[s]) = IF scount'[s] < 0 THEN -scount'[s] ELSE 0
    <3>1. scount[s] = -1 \/ scount[s] + 1 < 0
      BY <1>1, <1>3
    <3>2. -scount[s] - 1 = -(scount[s] + 1)
      BY <1>1
    <3> QED BY <1>1, <1>2, <1>3, <2>1, <2>2, <3>1, <3>2
  <2> QED BY <1>2, <2>2, <2>3
<1>4. CASE scount[s] >= 0 /\ UNCHANGED <<schedVars, squeue>>
  <2>1. Scheduled(prstate) /\ Defer' = Defer /\ currpid' = currpid
    BY <1>4, SchedulerUnchanged DEF schedVars
  <2>2. Popped(prstate, s)
    BY <1>4, <2>1, InvFacts, SemTypes DEF Popped
  <2>3. Len(squeue'[s]) = IF scount'[s] < 0 THEN -scount'[s] ELSE 0
    BY <1>1, <1>2, <1>4
  <2> QED BY <1>2, <2>2, <2>3
<1> QED BY <1>3, <1>4 DEF Release

LEMMA SignalInv ==
  ASSUME KernelInv, NEW s \in Sems, Signal(s)
  PROVE  KernelInv'
PROOF
<1>1. /\ UserMode /\ Release(s) /\ sstate[s] # "FREE"
      /\ UNCHANGED <<procVars, msgVars, prsem, sstate, nextsem, sleepq, cont, halted>>
  BY DEF Signal, Calls, UsedSem
<1>2. \A t \in Sems : Len(squeue[t]) = IF scount[t] < 0 THEN -scount[t] ELSE 0
  BY <1>1, UserFacts
<1>3. /\ \E ps : Popped(ps, s)
      /\ scount' \in [Sems -> Int]
      /\ \A t \in Sems \ {s} : scount'[t] = scount[t]
      /\ Len(squeue'[s]) = IF scount'[s] < 0 THEN -scount'[s] ELSE 0
  BY <1>1, <1>2, ReleasePops
<1>4. PICK ps : Popped(ps, s)
  BY <1>3
<1>5. TypeOK'
  BY <1>1, <1>3, <1>4, ContType, SemTypes, LoopTypes DEF Popped
<1>6. SemaphoreCount' /\ FreeSemaphoreEmpty'
  BY ZenonT(30), <1>1, <1>2, <1>3, <1>4, UserFacts DEF SemaphoreCount, FreeSemaphoreEmpty, Popped
<1>7. QueueOf(sleepq', SleepSet(ps)) /\ Defer'.ndefers = 0
  BY <1>1, <1>4, InvFacts, UserFacts DEF Popped
<1>8. /\ \A p \in Pids : cont'[p].op \notin LoopOps \/ (cont'[p] = cont[p] /\ prstate[p] # "FREE")
                          \/ ps[p] = "FREE"
      /\ \A p \in Pids : cont'[p].op \in SemOps => cont'[p].id \in Sems
      /\ \A p \in Pids : cont'[p].op = "kill" => cont'[p].id \in Pids \ {NULLPROC}
      /\ \A p \in Pids : ps[p] = "WAIT" => prsem'[p] \in Sems
  BY <1>1, <1>4 DEF Popped, KernelInv, Targets
<1> QED BY <1>1, <1>4, <1>5, <1>6, <1>7, <1>8, UserFacts, CallInv DEF Popped

LEMMA WaitInv ==
  ASSUME KernelInv, NEW s \in Sems, Wait(s)
  PROVE  KernelInv'
PROOF
<1>1. /\ UserMode /\ currpid # NULLPROC /\ sstate[s] # "FREE"
      /\ scount' = [scount EXCEPT ![s] = @ - 1]
      /\ UNCHANGED <<procVars, msgVars, sstate, nextsem, sleepq, cont, halted>>
  BY DEF Wait, Calls, UsedSem
<1>2. \A t \in Sems : Len(squeue[t]) = IF scount[t] < 0 THEN -scount[t] ELSE 0
  BY <1>1, UserFacts
<1>3. /\ scount' \in [Sems -> Int] /\ scount[s] \in Int
      /\ scount'[s] = scount[s] - 1
      /\ \A t \in Sems \ {s} : scount'[t] = scount[t]
  <2>1. scount \in [Sems -> Int] /\ scount[s] - 1 \in Int
    BY SemTypes
  <2> QED BY <1>1, <2>1
<1>4. CASE scount[s] > 0 /\ UNCHANGED <<schedVars, prsem, squeue>>
  <2>1. Plain(prstate)
    BY <1>1, <1>4, InvFacts, UserFacts, SchedulerUnchanged, PlainStay
  <2>2. TypeOK'
    BY <1>1, <1>3, <1>4, <2>1 DEF KernelInv, TypeOK, Plain, Scheduled, procVars, msgVars
  <2>3. SemaphoreCount' /\ FreeSemaphoreEmpty'
    <3>1. Len(squeue[s]) = 0 /\ ~(scount'[s] < 0)
      BY <1>2, <1>3, <1>4
    <3>2. \A t \in Sems : Len(squeue'[t]) = IF scount'[t] < 0 THEN -scount'[t] ELSE 0
      BY <1>2, <1>3, <1>4, <3>1
    <3>3. FreeSemaphoreEmpty'
      BY <1>1, <1>4, UserFacts, FreeAfter
    <3> QED BY <3>2, <3>3 DEF SemaphoreCount
  <2>4. \A t \in Sems : QueueOf(squeue'[t], WaitSet(prstate, prsem', t))
    BY <1>4, InvFacts
  <2>5. /\ \A p \in Pids : cont'[p].op \notin LoopOps \/ (cont'[p] = cont[p] /\ prstate[p] # "FREE")
                            \/ prstate[p] = "FREE"
        /\ \A p \in Pids : cont'[p].op \in SemOps => cont'[p].id \in Sems
        /\ \A p \in Pids : cont'[p].op = "kill" => cont'[p].id \in Pids \ {NULLPROC}
        /\ \A p \in Pids : prstate[p] = "WAIT" => prsem'[p] \in Sems
    BY <1>1, <1>4 DEF KernelInv, Targets
  <2> QED BY <1>1, <2>1, <2>2, <2>3, <2>4, <2>5, UserFacts, CallInv DEF Plain
<1>5. CASE /\ scount[s] <= 0
           /\ prsem' = [prsem EXCEPT ![currpid] = s]
           /\ squeue' = [squeue EXCEPT ![s] = Enqueue(@, currpid)]
           /\ Block("WAIT", qkey)
  <2> DEFINE ps == [prstate EXCEPT ![currpid] = "WAIT"]
  <2>1. "WAIT" \in States \ {"CURR", "READY"}
    BY DEF States
  <2>2. Scheduled(ps) /\ Defer' = Defer /\ Defer'.ndefers = 0
    BY <1>1, <1>5, <2>1, InvFacts, UserFacts, BlockSchedules
  <2>3. /\ SleepSet(ps) = SleepSet(prstate)
        /\ currpid \notin WaitSet(prstate, prsem, s)
        /\ WaitSet(ps, prsem', s) = WaitSet(prstate, prsem, s) \cup {currpid}
        /\ \A t \in Sems \ {s} : WaitSet(ps, prsem', t) = WaitSet(prstate, prsem, t)
        /\ \A p \in Pids : ps[p] = "FREE" <=> prstate[p] = "FREE"
    BY <1>5, InvFacts, SemTypes DEF SleepSet, WaitSet
  <2>4. \A p \in Pids : ps[p] = "WAIT" => prsem'[p] \in Sems
    BY <1>5, InvFacts, SemTypes DEF KernelInv, Targets
  <2> HIDE DEF ps
  <2>5. /\ squeue'[s] = Enqueue(squeue[s], currpid)
        /\ \A t \in Sems \ {s} : squeue'[t] = squeue[t]
    BY <1>5, SemTypes
  <2>6. /\ QueueOf(squeue'[s], WaitSet(ps, prsem', s))
        /\ Len(squeue'[s]) = Len(squeue[s]) + 1
    <3>1. /\ QueueOf(Enqueue(squeue[s], currpid), WaitSet(prstate, prsem, s) \cup {currpid})
          /\ Len(Enqueue(squeue[s], currpid)) = Len(squeue[s]) + 1
      <4>1. QueueOf(squeue[s], WaitSet(prstate, prsem, s))
        BY InvFacts
      <4> QED BY <2>3, <4>1, QueueAppend
    <3> QED BY <2>3, <2>5, <3>1
  <2>7. \A t \in Sems : QueueOf(squeue'[t], WaitSet(ps, prsem', t))
    BY <2>3, <2>5, <2>6, InvFacts
  <2>8. squeue' \in [Sems -> Seq(Pids)] /\ prsem' \in [Pids -> Sems \cup {-1}]
    <3>1. Enqueue(squeue[s], currpid) \in Seq(Pids)
      BY InvFacts, SemTypes DEF Enqueue
    <3> QED BY <1>5, <3>1, SemTypes
  <2>9. TypeOK'
    BY <1>1, <1>3, <2>2, <2>8, InvFacts DEF KernelInv, TypeOK, Scheduled, procVars, msgVars
  <2>10. SemaphoreCount' /\ FreeSemaphoreEmpty'
    <3>1. Len(squeue[s]) = -scount[s]
      BY <1>2, <1>3, <1>5
    <3>2. Len(squeue'[s]) = -scount'[s] /\ scount'[s] < 0
      BY <1>3, <1>5, <2>6, <3>1
    <3>3. \A t \in Sems : Len(squeue'[t]) = IF scount'[t] < 0 THEN -scount'[t] ELSE 0
      BY <1>2, <1>3, <2>5, <3>2
    <3>4. FreeSemaphoreEmpty'
      BY <1>1, <2>5, UserFacts DEF FreeSemaphoreEmpty
    <3> QED BY <3>3, <3>4 DEF SemaphoreCount
  <2>11. QueueOf(sleepq', SleepSet(ps))
    BY <1>1, <2>3, InvFacts
  <2>12. /\ \A p \in Pids : cont'[p].op \notin LoopOps \/ (cont'[p] = cont[p] /\ prstate[p] # "FREE")
                            \/ ps[p] = "FREE"
         /\ \A p \in Pids : cont'[p].op \in SemOps => cont'[p].id \in Sems
         /\ \A p \in Pids : cont'[p].op = "kill" => cont'[p].id \in Pids \ {NULLPROC}
    BY <1>1, <2>3 DEF KernelInv, Targets
  <2> QED BY <1>1, <2>2, <2>4, <2>7, <2>9, <2>10, <2>11, <2>12, UserFacts, CallInv
<1> QED BY <1>4, <1>5 DEF Wait

LEMMA SemcreateInv ==
  ASSUME KernelInv, NEW s \in Sems, NEW count \in Counts, Semcreate(s, count)
  PROVE  KernelInv'
PROOF
<1>1. /\ UserMode /\ sstate[s] = "FREE"
      /\ nextsem' = (s + 1) % NSEM
      /\ sstate' = [sstate EXCEPT ![s] = "USED"]
      /\ scount' = [scount EXCEPT ![s] = count]
      /\ UNCHANGED <<schedVars, procVars, msgVars, prsem, squeue, sleepq, cont, halted>>
  BY DEF Semcreate, Calls, NextFree, FreeSems
<1>2. count \in Nat /\ scount[s] \in Int
  BY CallArguments, SemTypes
<1>3. /\ scount' \in [Sems -> Int] /\ scount'[s] = count
      /\ \A t \in Sems \ {s} : scount'[t] = scount[t]
      /\ sstate' \in [Sems -> {"FREE", "USED"}]
      /\ \A t \in Sems : sstate'[t] = "FREE" => sstate[t] = "FREE"
  BY <1>1, <1>2, SemTypes
<1>4. Plain(prstate)
  BY <1>1, InvFacts, UserFacts, SchedulerUnchanged, PlainStay
<1>5. TypeOK'
  <2>1. nextsem' \in Nat
    BY <1>1, TableSizes DEF Sems
  <2> QED BY <1>1, <1>3, <2>1 DEF KernelInv, TypeOK, schedVars, procVars, msgVars
<1>6. SemaphoreCount' /\ FreeSemaphoreEmpty'
  <2>1. \A t \in Sems : sstate'[t] = "FREE" => squeue'[t] = <<>>
    BY <1>1, <1>3, UserFacts
  <2>2. Len(squeue'[s]) = 0 /\ ~(scount'[s] < 0)
    BY <1>1, <1>2, <1>3, UserFacts
  <2>3. \A t \in Sems : Len(squeue'[t]) = IF scount'[t] < 0 THEN -scount'[t] ELSE 0
    BY <1>1, <1>3, <2>2, UserFacts
  <2> QED BY <2>1, <2>3 DEF SemaphoreCount, FreeSemaphoreEmpty
<1>7. \A t \in Sems : QueueOf(squeue'[t], WaitSet(prstate, prsem', t))
  BY <1>1, InvFacts
<1>8. /\ \A p \in Pids : cont'[p].op \notin LoopOps \/ (cont'[p] = cont[p] /\ prstate[p] # "FREE")
                          \/ prstate[p] = "FREE"
      /\ \A p \in Pids : cont'[p].op \in SemOps => cont'[p].id \in Sems
      /\ \A p \in Pids : cont'[p].op = "kill" => cont'[p].id \in Pids \ {NULLPROC}
      /\ \A p \in Pids : prstate[p] = "WAIT" => prsem'[p] \in Sems
  BY <1>1 DEF KernelInv, Targets
<1> QED BY <1>1, <1>4, <1>5, <1>6, <1>7, <1>8, UserFacts, CallInv DEF Plain

(* signaln, semdelete and semreset enter their loops. *)
LEMMA SemLoopStartInv ==
  ASSUME KernelInv, NEW s \in Sems,
         \/ Semdelete(s)
         \/ \E n \in Counts : Signaln(s, n) \/ Semreset(s, n)
  PROVE  KernelInv'
PROOF
<1>1. /\ qkey \in [Pids -> Int] /\ 0 \in Nat
      /\ {"signaln", "semdelete", "semreset"} \subseteq LoopOps \cap SemOps
      /\ sstate \in [Sems -> {"FREE", "USED"}]
  BY InvFacts, SemTypes DEF LoopOps, SemOps
<1>2. CASE Semdelete(s)
  <2>1. /\ UserMode /\ DeferStart /\ Then(Cont("semdelete", s, 0))
        /\ sstate' = [sstate EXCEPT ![s] = "FREE"]
        /\ UNCHANGED <<prstate, currpid, readylist, qkey, preempt, procVars, msgVars,
                       prsem, scount, squeue, nextsem, sleepq, halted>>
    BY <1>2 DEF Semdelete, Calls
  <2>2. /\ sstate' \in [Sems -> {"FREE", "USED"}]
        /\ \A t \in Sems \ {s} : sstate'[t] = sstate[t]
    BY <1>1, <2>1
  <2> QED BY <1>1, <2>1, <2>2, EnterLoop
<1>3. ASSUME NEW n \in Counts, NEW op \in {"signaln", "semreset"},
             UserMode, DeferStart, Then(Cont(op, s, n)),
             UNCHANGED <<prstate, currpid, readylist, qkey, preempt, procVars, msgVars,
                         semVars, sleepq, halted>>
      PROVE  KernelInv'
  <2>1. n \in Nat
    BY CallArguments
  <2> QED BY <1>1, <1>3, <2>1, EnterLoop DEF semVars
<1>4. ASSUME NEW n \in Counts, Signaln(s, n) PROVE KernelInv'
  BY <1>3, <1>4 DEF Signaln, Calls
<1>5. ASSUME NEW n \in Counts, Semreset(s, n) PROVE KernelInv'
  BY <1>3, <1>5 DEF Semreset, Calls
<1> QED BY <1>2, <1>4, <1>5

(* One iteration of the loop of signaln or semdelete. *)
LEMMA SemReleaseInv ==
  ASSUME KernelInv, cont[currpid].op \in {"signaln", "semdelete"},
         Release(cont[currpid].id),
         cont' \in [Pids -> [op : Ops, id : Pids \cup Sems, n : Nat]],
         cont'[currpid].op = cont[currpid].op, cont'[currpid].id = cont[currpid].id,
         \A p \in Pids \ {currpid} : cont'[p] = cont[p],
         UNCHANGED <<procVars, msgVars, prsem, sstate, nextsem, sleepq, halted>>
  PROVE  KernelInv'
PROOF
<1> DEFINE s == cont[currpid].id
<1>1. /\ cont[currpid].op \in LoopOps /\ cont[currpid].op \in SemOps
      /\ s \in Sems
  BY InvFacts DEF LoopOps, SemOps, KernelInv, Targets
<1>2. \A t \in Sems : Len(squeue[t]) = IF scount[t] < 0 THEN -scount[t] ELSE 0
  BY DEF KernelInv, SemaphoreCount
<1>3. /\ \E ps : Popped(ps, s)
      /\ scount' \in [Sems -> Int]
      /\ \A t \in Sems \ {s} : scount'[t] = scount[t]
      /\ Len(squeue'[s]) = IF scount'[s] < 0 THEN -scount'[s] ELSE 0
  BY <1>1, <1>2, ReleasePops
<1>4. PICK ps : Popped(ps, s)
  BY <1>3
<1>5. Defer'.ndefers = 1 /\ currpid' = currpid
  BY <1>1, <1>4, InLoop DEF Popped
<1>6. TypeOK'
  BY <1>3, <1>4, SemTypes, LoopTypes DEF Popped
<1>7. SemaphoreCount'
  <2>1. \A t \in Sems \ {s} : squeue'[t] = squeue[t]
    BY <1>4 DEF Popped
  <2> HIDE DEF s
  <2>2. ASSUME NEW t \in Sems
        PROVE  Len(squeue'[t]) = IF scount'[t] < 0 THEN -scount'[t] ELSE 0
    <3>1. CASE t = s
      BY <1>3, <3>1
    <3>2. CASE t # s
      BY <1>2, <1>3, <2>1, <3>2
    <3> QED BY <3>1, <3>2
  <2> QED BY <2>2 DEF SemaphoreCount
<1>8. FreeSemaphoreEmpty'
  <2>1. ASSUME NEW t \in Sems, sstate[t] = "FREE"
        PROVE  squeue'[t] = <<>> \/ (cont'[currpid'].op = "semdelete" /\ cont'[currpid'].id = t)
    <3>1. squeue[t] = <<>> \/ (cont[currpid].op = "semdelete" /\ s = t)
      BY <2>1 DEF KernelInv, FreeSemaphoreEmpty
    <3>2. CASE cont[currpid].op = "semdelete" /\ s = t
      BY <1>5, <3>2
    <3>3. CASE squeue[t] = <<>> /\ t # s
      BY <1>4, <3>3 DEF Popped
    <3>4. CASE squeue[t] = <<>> /\ t = s
      <4>1. ~(scount[s] < 0)
        BY <1>1, <1>2, <3>4, SemTypes
      <4>2. squeue' = squeue
        BY <4>1 DEF Release
      <4> QED BY <3>4, <4>2
    <3> QED BY <3>1, <3>2, <3>3, <3>4
  <2> QED BY <2>1 DEF FreeSemaphoreEmpty
<1>9. QueueOf(sleepq', SleepSet(ps))
  BY <1>4, InvFacts DEF Popped
<1>10. \A p \in Pids : ps[p] = "WAIT" => prsem'[p] \in Sems
  BY <1>4 DEF Popped, KernelInv, Targets
<1> QED BY <1>1, <1>4, <1>5, <1>6, <1>7, <1>8, <1>9, <1>10, LoopInv DEF Popped

LEMMA SignalnStepInv ==
  ASSUME KernelInv, SignalnStep
  PROVE  KernelInv'
PROOF
<1> DEFINE c == cont[currpid]
<1>1. /\ c.op = "signaln" /\ c.n > 0
      /\ Release(c.id)
      /\ cont' = [cont EXCEPT ![currpid] = [c EXCEPT !.n = @ - 1]]
      /\ UNCHANGED <<procVars, msgVars, prsem, sstate, nextsem, sleepq, halted>>
  BY DEF SignalnStep, Continues, Then
<1>2. c \in [op : Ops, id : Pids \cup Sems, n : Nat]
  BY ContType, InvFacts
<1>3. /\ [c EXCEPT !.n = @ - 1] \in [op : Ops, id : Pids \cup Sems, n : Nat]
      /\ [c EXCEPT !.n = @ - 1].op = c.op /\ [c EXCEPT !.n = @ - 1].id = c.id
  BY <1>1, <1>2
<1>4. /\ cont' \in [Pids -> [op : Ops, id : Pids \cup Sems, n : Nat]]
      /\ cont'[currpid].op = c.op /\ cont'[currpid].id = c.id
      /\ \A p \in Pids \ {currpid} : cont'[p] = cont[p]
  BY <1>1, <1>3, ContType, InvFacts
<1> QED BY <1>1, <1>4, SemReleaseInv

LEMMA SemdeleteStepInv ==
  ASSUME KernelInv, SemdeleteStep
  PROVE  KernelInv'
PROOF
<1>1. cont' \in [Pids -> [op : Ops, id : Pids \cup Sems, n : Nat]]
  BY ContType DEF SemdeleteStep
<1> QED BY <1>1, SemReleaseInv DEF SemdeleteStep, Continues

LEMMA SignalnDoneInv ==
  ASSUME KernelInv, SignalnDone
  PROVE  KernelInv'
PROOF
<1>1. /\ cont[currpid].op = "signaln"
      /\ DeferStop /\ Then(Cont("user", 0, 0))
      /\ UNCHANGED <<procVars, msgVars, semVars, sleepq, halted>>
  BY DEF SignalnDone, Continues, User
<1>2. cont[currpid].op \in LoopOps
  BY <1>1 DEF LoopOps
<1>3. \A s \in Sems : Len(squeue[s]) = IF scount[s] < 0 THEN -scount[s] ELSE 0
  BY <1>1 DEF KernelInv, SemaphoreCount
<1>4. \A s \in Sems : sstate[s] = "FREE" => squeue[s] = <<>>
  BY <1>1 DEF KernelInv, FreeSemaphoreEmpty
<1> QED BY <1>1, <1>2, <1>3, <1>4, SemTypes, LeaveLoop DEF semVars

LEMMA SemdeleteDoneInv ==
  ASSUME KernelInv, SemdeleteDone
  PROVE  KernelInv'
PROOF
<1> DEFINE s == cont[currpid].id
<1>1. /\ cont[currpid].op = "semdelete" /\ ~(scount[s] < 0)
      /\ scount' = [scount EXCEPT ![s] = @ + 1]
      /\ DeferStop /\ Then(Cont("user", 0, 0))
      /\ UNCHANGED <<procVars, msgVars, prsem, sstate, squeue, nextsem, sleepq, halted>>
  BY DEF SemdeleteDone, HoldsBack, Continues, User
<1>2. cont[currpid].op \in LoopOps /\ s \in Sems
  BY <1>1, InvFacts DEF LoopOps, SemOps, KernelInv, Targets
<1>3. \A t \in Sems : Len(squeue[t]) = IF scount[t] < 0 THEN -scount[t] ELSE 0
  BY <1>1 DEF KernelInv, SemaphoreCount
<1>4. scount[s] \in Int /\ scount' \in [Sems -> Int] /\ scount'[s] = scount[s] + 1
      /\ \A t \in Sems \ {s} : scount'[t] = scount[t]
  <2>1. scount[s] \in Int /\ scount[s] + 1 \in Int
    BY <1>2, SemTypes
  <2> QED BY <1>1, <1>2, <2>1, SemTypes
<1>5. Len(squeue[s]) = 0 /\ ~(scount'[s] < 0)
  BY <1>1, <1>2, <1>3, <1>4
<1>6. \A t \in Sems : Len(squeue[t]) = IF scount'[t] < 0 THEN -scount'[t] ELSE 0
  BY <1>3, <1>4, <1>5
<1>7. \A t \in Sems : sstate[t] = "FREE" => squeue[t] = <<>>
  BY <1>1, <1>2, <1>5, SemTypes DEF KernelInv, FreeSemaphoreEmpty
<1> QED BY <1>1, <1>2, <1>4, <1>6, <1>7, LeaveLoop

LEMMA SemresetDoneInv ==
  ASSUME KernelInv, SemresetDone
  PROVE  KernelInv'
PROOF
<1> DEFINE s == cont[currpid].id
           n == cont[currpid].n
<1>1. /\ cont[currpid].op = "semreset" /\ squeue[s] = <<>>
      /\ scount' = [scount EXCEPT ![s] = n]
      /\ DeferStop /\ Then(Cont("user", 0, 0))
      /\ UNCHANGED <<procVars, msgVars, prsem, sstate, squeue, nextsem, sleepq, halted>>
  BY DEF SemresetDone, Continues, User
<1>2. cont[currpid].op \in LoopOps /\ s \in Sems /\ n \in Nat
  BY <1>1, InvFacts, ContType DEF LoopOps, SemOps, KernelInv, Targets
<1>3. \A t \in Sems \ {s} : Len(squeue[t]) = IF scount[t] < 0 THEN -scount[t] ELSE 0
  BY <1>1 DEF KernelInv, SemaphoreCount
<1>4. scount' \in [Sems -> Int] /\ scount'[s] = n
      /\ \A t \in Sems \ {s} : scount'[t] = scount[t]
  BY <1>1, <1>2, SemTypes
<1>5. Len(squeue[s]) = 0 /\ ~(scount'[s] < 0)
  BY <1>1, <1>2, <1>4
<1>6. \A t \in Sems : Len(squeue[t]) = IF scount'[t] < 0 THEN -scount'[t] ELSE 0
  BY <1>3, <1>4, <1>5
<1>7. \A t \in Sems : sstate[t] = "FREE" => squeue[t] = <<>>
  BY <1>1 DEF KernelInv, FreeSemaphoreEmpty
<1> QED BY <1>1, <1>2, <1>4, <1>6, <1>7, LeaveLoop

LEMMA SemresetStepInv ==
  ASSUME KernelInv, SemresetStep
  PROVE  KernelInv'
PROOF
<1> DEFINE s == cont[currpid].id
<1>1. /\ cont[currpid].op = "semreset" /\ squeue[s] # <<>>
      /\ squeue' = [squeue EXCEPT ![s] = Tail(@)]
      /\ Ready(Head(squeue[s]), qkey)
      /\ UNCHANGED <<procVars, msgVars, prsem, sstate, scount, nextsem, sleepq,
                     cont, halted>>
  BY DEF SemresetStep, Continues
<1>2. cont[currpid].op \in LoopOps /\ s \in Sems
  BY <1>1, InvFacts DEF LoopOps, SemOps, KernelInv, Targets
<1>3. PICK ps : Popped(ps, s)
  BY <1>1, <1>2, PopSchedules
<1>4. Defer'.ndefers = 1 /\ currpid' = currpid
  BY <1>2, <1>3, InLoop DEF Popped
<1>5. TypeOK'
  BY <1>1, <1>3, ContType, SemTypes, LoopTypes DEF Popped
<1>6. SemaphoreCount'
  BY <1>1, <1>3, <1>4 DEF KernelInv, SemaphoreCount, Popped
<1>7. FreeSemaphoreEmpty'
  BY <1>1, <1>3 DEF KernelInv, FreeSemaphoreEmpty, Popped
<1>8. QueueOf(sleepq', SleepSet(ps))
  BY <1>1, <1>3, InvFacts DEF Popped
<1>9. \A p \in Pids : ps[p] = "WAIT" => prsem'[p] \in Sems
  BY <1>1, <1>3 DEF Popped, KernelInv, Targets
<1> QED BY <1>1, <1>2, <1>3, <1>4, <1>5, <1>6, <1>7, <1>8, <1>9, LoopInv DEF Popped

-----------------------------------------------------------------------------
(* The rest of kill, whatever has become of the victim in the meantime. *)

LEMMA KillRestInv ==
  ASSUME KernelInv, KillRest
  PROVE  KernelInv'
PROOF
<1> DEFINE pid == cont[currpid].id
           freed == [prstate EXCEPT ![pid] = "FREE"]
<1>1. /\ cont[currpid].op = "kill"
      /\ cont' = [cont EXCEPT ![pid] = User, ![currpid] = User]
      /\ UNCHANGED <<procVars, msgVars, prsem, sstate, nextsem, halted>>
  BY DEF KillRest, Continues
<1>2. pid \in Pids \ {NULLPROC} /\ cont[currpid].op \notin LoopOps
  BY <1>1, InvFacts DEF KernelInv, Targets, LoopOps
<1>3. /\ Defer.ndefers = 0
      /\ \A s \in Sems : Len(squeue[s]) = IF scount[s] < 0 THEN -scount[s] ELSE 0
      /\ \A s \in Sems : sstate[s] = "FREE" => squeue[s] = <<>>
  BY <1>2, OutsideLoops
<1>4. /\ User \in [op : Ops, id : Pids \cup Sems, n : Nat]
      /\ User.op = "user"
  BY NullIsPid DEF User, Cont, Ops, NULLPROC
<1>5. /\ cont' \in [Pids -> [op : Ops, id : Pids \cup Sems, n : Nat]]
      /\ \A p \in Pids : cont'[p] = cont[p] \/ cont'[p] = User
  BY <1>1, <1>2, <1>4, ContType, InvFacts
<1>6. /\ freed \in [Pids -> States]
      /\ freed[pid] = "FREE"
      /\ \A p \in Pids \ {pid} : freed[p] = prstate[p]
      /\ freed[NULLPROC] \in {"CURR", "READY"}
      /\ \A p \in Pids : freed[p] = "CURR" => p = currpid
  BY <1>2, InvFacts, NullIsPid DEF States
<1> HIDE DEF freed, pid
<1>7. /\ ReadySet(freed) = ReadySet(prstate) \ {pid}
      /\ SleepSet(freed) = SleepSet(prstate) \ {pid}
      /\ \A s \in Sems : WaitSet(freed, prsem, s) = WaitSet(prstate, prsem, s) \ {pid}
      /\ ReadySet(freed) \subseteq Pids /\ SleepSet(freed) \subseteq Pids
      /\ \A s \in Sems : WaitSet(freed, prsem, s) \subseteq Pids
  BY <1>2, <1>6 DEF ReadySet, SleepSet, WaitSet
<1>8. ASSUME Scheduled(freed),
             Defer' \in [ndefers : Nat, attempt : BOOLEAN], Defer'.ndefers = 0,
             QueueOf(sleepq', SleepSet(freed)), sleepq' \in Seq(Pids),
             squeue' \in [Sems -> Seq(Pids)], scount' \in [Sems -> Int],
             \A s \in Sems : QueueOf(squeue'[s], WaitSet(freed, prsem, s)),
             \A s \in Sems : Len(squeue'[s]) = IF scount'[s] < 0 THEN -scount'[s] ELSE 0,
             \A s \in Sems : sstate[s] = "FREE" => squeue'[s] = <<>>
      PROVE  KernelInv'
  <2>1. TypeOK'
    BY <1>1, <1>5, <1>8, SemTypes, LoopTypes
  <2>2. SemaphoreCount' /\ FreeSemaphoreEmpty'
    BY <1>1, <1>8 DEF SemaphoreCount, FreeSemaphoreEmpty
  <2>3. \A p \in Pids : cont'[p].op \notin LoopOps \/ (cont'[p] = cont[p] /\ prstate[p] # "FREE")
                          \/ freed[p] = "FREE"
    BY <1>2, <1>4, <1>5, <1>6 DEF LoopOps
  <2>4. /\ \A p \in Pids : cont'[p].op \in SemOps => cont'[p].id \in Sems
        /\ \A p \in Pids : cont'[p].op = "kill" => cont'[p].id \in Pids \ {NULLPROC}
    BY <1>4, <1>5 DEF KernelInv, Targets, SemOps
  <2>5. \A p \in Pids : freed[p] = "WAIT" => prsem'[p] \in Sems
    BY <1>1, <1>6 DEF KernelInv, Targets
  <2> QED BY <1>1, <1>2, <1>8, <2>1, <2>2, <2>3, <2>4, <2>5, CallInv
<1>9. /\ pid \notin SleepSet(prstate) => QueueOf(sleepq, SleepSet(freed))
      /\ pid \notin ReadySet(prstate) => QueueOf(readylist, ReadySet(freed))
      /\ \A s \in Sems : pid \notin WaitSet(prstate, prsem, s) =>
           QueueOf(squeue[s], WaitSet(freed, prsem, s))
  <2>1. pid \notin SleepSet(prstate) => SleepSet(freed) = SleepSet(prstate)
    BY <1>7
  <2>2. pid \notin ReadySet(prstate) => ReadySet(freed) = ReadySet(prstate)
    BY <1>7
  <2>3. \A s \in Sems : pid \notin WaitSet(prstate, prsem, s) =>
          WaitSet(freed, prsem, s) = WaitSet(prstate, prsem, s)
    BY <1>7
  <2> QED BY <2>1, <2>2, <2>3, InvFacts
<1>10. CASE /\ prstate[pid] = "CURR"
            /\ Resched(freed, readylist, qkey, preempt)
            /\ UNCHANGED <<sleepq, scount, squeue>>
  <2>1. /\ pid \notin SleepSet(prstate) /\ pid \notin ReadySet(prstate)
        /\ \A s \in Sems : pid \notin WaitSet(prstate, prsem, s)
    BY <1>10 DEF SleepSet, ReadySet, WaitSet
  <2>2. Scheduled(freed) /\ Defer' \in [ndefers : Nat, attempt : BOOLEAN] /\ Defer'.ndefers = 0
    <3>1. QueueOf(readylist, ReadySet(freed)) /\ ~(Defer.ndefers > 0)
      BY <1>3, <1>9, <2>1
    <3>2. Resched(freed, readylist, qkey, preempt)
      BY <1>10
    <3>3. Scheduled(freed) /\ Defer' \in [ndefers : Nat, attempt : BOOLEAN]
          /\ Defer'.ndefers = Defer.ndefers
      BY <1>6, <3>1, <3>2, InvFacts, ReschedSchedules
    <3> QED BY <1>3, <3>3
  <2> QED BY <1>3, <1>8, <1>9, <1>10, <2>1, <2>2, SemTypes
<1>11. ASSUME /\ prstate[pid] # "CURR"
              /\ prstate' = freed
              /\ UNCHANGED <<currpid, preempt, Defer>>,
              QueueOf(readylist', ReadySet(freed)),
              qkey' \in [Pids -> Int]
       PROVE  /\ Scheduled(freed)
              /\ Defer' \in [ndefers : Nat, attempt : BOOLEAN] /\ Defer'.ndefers = 0
  <2>1. readylist' \in Seq(Pids)
    BY <1>7, <1>11, SeqMonotonic DEF QueueOf
  <2>2. /\ \A p \in Pids : prstate'[p] = "CURR" <=> p = currpid'
        /\ currpid' \in Pids /\ preempt' \in 1..QUANTUM
        /\ prstate' \in [Pids -> States]
        /\ prstate'[NULLPROC] \in {"CURR", "READY"}
        /\ \A p \in Pids : freed[p] \in {"CURR", "READY"} => prstate'[p] \in {"CURR", "READY"}
    BY <1>2, <1>6, <1>11, InvFacts
  <2>3. Scheduled(freed)
    BY <1>11, <2>1, <2>2 DEF Scheduled
  <2> QED BY <1>3, <1>11, <2>3, InvFacts
<1>12. CASE /\ prstate[pid] # "CURR"
            /\ prstate' = freed
            /\ UNCHANGED <<currpid, preempt, Defer>>
            /\ prstate[pid] \in {"SLEEP", "RECTIM"}
            /\ qkey' = KeyAfterUnsleep(sleepq, qkey, pid)
            /\ sleepq' = GetItem(sleepq, pid)
            /\ UNCHANGED <<readylist, scount, squeue>>
  <2>1. /\ pid \in SleepSet(prstate) /\ pid \notin ReadySet(prstate)
        /\ \A s \in Sems : pid \notin WaitSet(prstate, prsem, s)
    BY <1>2, <1>12 DEF SleepSet, ReadySet, WaitSet
  <2>2. qkey' \in [Pids -> Int]
    BY <1>2, <1>12, <2>1, UnsleepKeys
  <2>3. QueueOf(sleepq', SleepSet(freed))
    BY <1>7, <1>12, <2>1, InvFacts, QueueGetItem
  <2>4. sleepq' \in Seq(Pids)
    BY <1>7, <2>3, SeqMonotonic DEF QueueOf
  <2>5. QueueOf(readylist', ReadySet(freed))
    BY <1>9, <1>12, <2>1
  <2> QED BY <1>3, <1>8, <1>9, <1>11, <1>12, <2>1, <2>2, <2>3, <2>4, <2>5, SemTypes
<1>13. CASE /\ prstate[pid] # "CURR"
            /\ prstate' = freed
            /\ UNCHANGED <<currpid, preempt, Defer>>
            /\ prstate[pid] = "WAIT"
            /\ Leave(prsem[pid], pid)
            /\ UNCHANGED <<readylist, sleepq, qkey>>
  <2> DEFINE s == prsem[pid]
  <2>1. /\ pid \notin SleepSet(prstate) /\ pid \notin ReadySet(prstate)
        /\ s \in Sems /\ pid \in WaitSet(prstate, prsem, s)
        /\ \A t \in Sems \ {s} : pid \notin WaitSet(prstate, prsem, t)
    BY <1>2, <1>13 DEF SleepSet, ReadySet, WaitSet, KernelInv, Targets
  <2>2. /\ scount' = [scount EXCEPT ![s] = @ + 1]
        /\ squeue' = [squeue EXCEPT ![s] = GetItem(@, pid)]
    BY <1>13 DEF Leave
  <2> HIDE DEF s
  <2>3. /\ QueueOf(GetItem(squeue[s], pid), WaitSet(freed, prsem, s))
        /\ Len(GetItem(squeue[s], pid)) = Len(squeue[s]) - 1
    <3>1. QueueOf(squeue[s], WaitSet(prstate, prsem, s))
      BY <2>1, InvFacts
    <3>2. /\ QueueOf(GetItem(squeue[s], pid), WaitSet(prstate, prsem, s) \ {pid})
          /\ Len(GetItem(squeue[s], pid)) = Len(squeue[s]) - 1
      BY <2>1, <3>1, QueueGetItem
    <3> QED BY <1>7, <2>1, <3>2
  <2>4. GetItem(squeue[s], pid) \in Seq(Pids)
    BY <1>7, <2>1, <2>3, SeqMonotonic DEF QueueOf
  <2>5. /\ squeue' \in [Sems -> Seq(Pids)]
        /\ squeue'[s] = GetItem(squeue[s], pid)
        /\ \A t \in Sems \ {s} : squeue'[t] = squeue[t]
    BY <2>1, <2>2, <2>4, SemTypes
  <2>6. /\ scount[s] \in Int /\ scount' \in [Sems -> Int]
        /\ scount'[s] = scount[s] + 1
        /\ \A t \in Sems \ {s} : scount'[t] = scount[t]
    <3>1. scount[s] \in Int /\ scount[s] + 1 \in Int
      BY <2>1, SemTypes
    <3> QED BY <2>1, <2>2, <3>1, SemTypes
  <2>7. Len(squeue[s]) \in Nat /\ Len(squeue[s]) # 0 /\ squeue[s] # <<>>
    <3>1. squeue[s] \in Seq(Pids)
      BY <2>1, SemTypes
    <3>2. squeue[s] # <<>>
      BY <2>1, InvFacts, QueueEmpty
    <3> QED BY <3>1, <3>2
  <2>8. Len(squeue[s]) = -scount[s] /\ scount[s] < 0
    BY <1>3, <2>1, <2>6, <2>7
  <2>9. Len(squeue'[s]) = IF scount'[s] < 0 THEN -scount'[s] ELSE 0
    <3>1. Len(squeue'[s]) = -(scount[s] + 1) /\ (scount[s] + 1 < 0 \/ scount[s] + 1 = 0)
      BY <2>3, <2>5, <2>6, <2>8
    <3> QED BY <2>6, <3>1
  <2>10. \A t \in Sems : Len(squeue'[t]) = IF scount'[t] < 0 THEN -scount'[t] ELSE 0
    BY <1>3, <2>5, <2>6, <2>9
  <2>11. \A t \in Sems : QueueOf(squeue'[t], WaitSet(freed, prsem, t))
    BY <1>9, <2>1, <2>3, <2>5
  <2>12. \A t \in Sems : sstate[t] = "FREE" => squeue'[t] = <<>>
    BY <1>3, <2>5, <2>7
  <2>13. /\ QueueOf(readylist', ReadySet(freed)) /\ qkey' \in [Pids -> Int]
         /\ QueueOf(sleepq', SleepSet(freed)) /\ sleepq' \in Seq(Pids)
    BY <1>9, <1>13, <2>1, InvFacts, SemTypes
  <2> QED BY <1>8, <1>11, <1>13, <2>5, <2>6, <2>10, <2>11, <2>12, <2>13
<1>14. CASE /\ prstate[pid] # "CURR"
            /\ prstate' = freed
            /\ UNCHANGED <<currpid, preempt, Defer>>
            /\ prstate[pid] = "READY"
            /\ readylist' = GetItem(readylist, pid)
            /\ UNCHANGED <<sleepq, qkey, scount, squeue>>
  <2>1. /\ pid \notin SleepSet(prstate) /\ pid \in ReadySet(prstate)
        /\ \A s \in Sems : pid \notin WaitSet(prstate, prsem, s)
    BY <1>2, <1>14 DEF SleepSet, ReadySet, WaitSet
  <2>2. QueueOf(readylist', ReadySet(freed))
    BY <1>7, <1>14, <2>1, InvFacts, QueueGetItem
  <2>3. qkey' \in [Pids -> Int]
    BY <1>14, InvFacts
  <2> QED BY <1>3, <1>8, <1>9, <1>11, <1>14, <2>1, <2>2, <2>3, SemTypes
<1>15. CASE /\ prstate[pid] # "CURR"
            /\ prstate' = freed
            /\ UNCHANGED <<currpid, preempt, Defer>>
            /\ prstate[pid] \in {"RECV", "SUSP", "FREE"}
            /\ UNCHANGED <<readylist, sleepq, qkey, scount, squeue>>
  <2>1. /\ pid \notin SleepSet(prstate) /\ pid \notin ReadySet(prstate)
        /\ \A s \in Sems : pid \notin WaitSet(prstate, prsem, s)
    BY <1>2, <1>15 DEF SleepSet, ReadySet, WaitSet
  <2>2. QueueOf(readylist', ReadySet(freed)) /\ qkey' \in [Pids -> Int]
    BY <1>9, <1>15, <2>1, InvFacts
  <2> QED BY <1>3, <1>8, <1>9, <1>11, <1>15, <2>1, <2>2, SemTypes
<1> QED BY <1>10, <1>12, <1>13, <1>14, <1>15 DEF KillRest, pid, freed

-----------------------------------------------------------------------------
(* The invariant is inductive. *)

LEMMA InitInv ==
  ASSUME Init
  PROVE  KernelInv
PROOF
<1>1. 0 \in Pids /\ 1 \in Pids /\ NULLPROC = 0
  BY TableSizes DEF Pids, NULLPROC
<1>2. /\ prstate = [p \in Pids |-> IF p = 0 THEN "READY"
                                   ELSE IF p = 1 THEN "CURR" ELSE "FREE"]
      /\ currpid = 1 /\ readylist = <<0>> /\ sleepq = <<>>
      /\ squeue = [s \in Sems |-> <<>>] /\ scount = [s \in Sems |-> 0]
      /\ cont = [p \in Pids |-> User] /\ Defer = [ndefers |-> 0, attempt |-> FALSE]
  BY <1>1 DEF Init
<1>3. /\ User \in [op : Ops, id : Pids \cup Sems, n : Nat]
      /\ User.op = "user"
  BY <1>1 DEF User, Cont, Ops
<1>4. TypeOK
  <2>1. /\ prstate \in [Pids -> States]
        /\ currpid \in Pids /\ readylist \in Seq(Pids) /\ sleepq \in Seq(Pids)
        /\ cont \in [Pids -> [op : Ops, id : Pids \cup Sems, n : Nat]]
    BY <1>1, <1>2, <1>3 DEF States
  <2>2. /\ prprio \in [Pids -> Nat] /\ prsem \in [Pids -> Sems \cup {-1}]
        /\ prparent \in [Pids -> Pids] /\ prmsg \in [Pids -> Msgs \cup Pids]
        /\ prhasmsg \in [Pids -> BOOLEAN] /\ qkey \in [Pids -> Int]
    BY <1>1, PrioRange DEF Init
  <2>3. /\ sstate \in [Sems -> {"FREE", "USED"}] /\ scount \in [Sems -> Int]
        /\ squeue \in [Sems -> Seq(Pids)]
        /\ Defer \in [ndefers : Nat, attempt : BOOLEAN]
    BY <1>2 DEF Init
  <2>4. nextpid \in Pids
    BY TableSizes DEF Init, Pids
  <2>5. prcount \in Int /\ nextsem \in Nat
    BY DEF Init
  <2>6. preempt \in 1..QUANTUM
    BY TableSizes DEF Init
  <2>7. halted \in BOOLEAN
    BY DEF Init
  <2> QED BY <2>1, <2>2, <2>3, <2>4, <2>5, <2>6, <2>7 DEF TypeOK
<1>5. QueuesMatchStates
  <2>1. {p \in Pids : prstate[p] = "READY"} = {0}
    BY <1>1, <1>2
  <2>2. {p \in Pids : prstate[p] \in {"SLEEP", "RECTIM"}} = {}
    BY <1>2
  <2>3. \A s \in Sems : Waiting(s) = {}
    BY <1>2 DEF Waiting
  <2>4. QueueOf(<<0>>, {0}) /\ QueueOf(<<>>, {})
    BY DEF QueueOf
  <2> QED BY <1>2, <2>1, <2>2, <2>3, <2>4 DEF QueuesMatchStates
<1>6. OneCurrent
  BY <1>1, <1>2 DEF OneCurrent
<1>7. SemaphoreCount /\ FreeSemaphoreEmpty
  BY <1>2 DEF SemaphoreCount, FreeSemaphoreEmpty
<1>8. DeferInLoops
  BY <1>1, <1>2, <1>3 DEF DeferInLoops
<1>9. Targets
  BY <1>2, <1>3 DEF Targets, SemOps
<1> QED BY <1>4, <1>5, <1>6, <1>7, <1>8, <1>9 DEF KernelInv

LEMMA NextInv ==
  ASSUME KernelInv, [Next]_vars
  PROVE  KernelInv'
PROOF
<1>1. CASE UNCHANGED vars
  <2>1. TypeOK'
    BY <1>1 DEF vars, schedVars, procVars, msgVars, semVars, KernelInv, TypeOK
  <2> QED BY <1>1, <2>1, FrameInv DEF vars, schedVars, semVars
<1>2. CASE Kernel
  BY <1>2, ReceiveRestInv, KillRestInv, TickRestInv, WakeupStepInv, WakeupDoneInv,
     SignalnStepInv, SignalnDoneInv, SemdeleteStepInv, SemdeleteDoneInv,
     SemresetStepInv, SemresetDoneInv DEF Kernel
<1>3. CASE Call
  <2>1. CASE \E pid \in Pids, prio \in Prios : Create(pid, prio) \/ Chprio(pid, prio)
    BY <2>1, CreateInv, FrameCallsInv
  <2>2. CASE \E pid \in Pids : \/ CreateNoStack(pid) \/ Resume(pid)
                               \/ SuspendReady(pid) \/ Kill(pid)
    BY <2>2, FrameCallsInv, ResumeInv, SuspendReadyInv, KillInv
  <2>3. CASE \/ \E pid \in Pids, msg \in Msgs : Send(pid, msg)
             \/ \E d \in Delays : Sleepms(d)
             \/ \E w \in Waits : RecvtimeBlock(w)
    BY <2>3, SendInv, SleepmsInv, RecvtimeBlockInv
  <2>4. CASE \E s \in Sems : Wait(s) \/ Signal(s) \/ Semdelete(s)
    BY <2>4, WaitInv, SignalInv, SemLoopStartInv
  <2>5. CASE \E s \in Sems, n \in Counts : Semcreate(s, n) \/ Signaln(s, n) \/ Semreset(s, n)
    BY <2>5, SemcreateInv, SemLoopStartInv
  <2>6. CASE SuspendSelf \/ Yield \/ ReceiveNow \/ ReceiveBlock \/ RecvNoWait
    BY <2>6, SuspendSelfInv, YieldInv, FrameCallsInv, ReceiveBlockInv
  <2> QED BY <1>3, <2>1, <2>2, <2>3, <2>4, <2>5, <2>6 DEF Call
<1>4. CASE ClockTick
  BY <1>4, ClockTickInv
<1>5. CASE Halted
  BY <1>5, FrameCallsInv
<1> QED BY <1>1, <1>2, <1>3, <1>4, <1>5 DEF Next

(* In every execution, whatever calls the processes make and whenever the
   clock interrupts them, the invariant holds. *)
THEOREM KernelInvariant == Spec => []KernelInv
PROOF
<1>1. Init => KernelInv
  BY InitInv
<1>2. KernelInv /\ [Next]_vars => KernelInv'
  BY NextInv
<1> QED BY <1>1, <1>2, PTL DEF Spec

(* The fields of the tables keep their types; the preemption counter is
   never 0 when the clock decrements it. *)
THEOREM TypesCorrect == Spec => []TypeOK
PROOF BY KernelInvariant, PTL DEF KernelInv

(* Every process is on the one list its state says, exactly once. *)
THEOREM ListsCorrect == Spec => []QueuesMatchStates
PROOF BY KernelInvariant, PTL DEF KernelInv

(* There is one current process, and one to run whenever it blocks. *)
THEOREM OneCurrentAlways == Spec => []OneCurrent
PROOF BY KernelInvariant, PTL DEF KernelInv

(* The count of a semaphore tells how many processes it holds back. *)
THEOREM SemaphoreCountAlways == Spec => []SemaphoreCount
PROOF BY KernelInvariant, PTL DEF KernelInv

(* A deleted semaphore holds nobody back. *)
THEOREM FreeSemaphoreAlways == Spec => []FreeSemaphoreEmpty
PROOF BY KernelInvariant, PTL DEF KernelInv

(* Together: whatever is done to a semaphore, its count and its queue agree,
   and a deleted one is empty. *)
THEOREM SemaphoresSoundAlways == Spec => []SemaphoresSound
PROOF BY SemaphoreCountAlways, FreeSemaphoreAlways, PTL DEF SemaphoresSound

(* Rescheduling is deferred exactly in the loops of the kernel. *)
THEOREM DeferInLoopsAlways == Spec => []DeferInLoops
PROOF BY KernelInvariant, PTL DEF KernelInv
=============================================================================
