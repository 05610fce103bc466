--------------------------- MODULE XinuStepProofs ---------------------------
(***************************************************************************)
(* What any step of the kernel may do to a process, its message and the    *)
(* number of processes, in five kinds of steps (StepKinds), and what       *)
(* follows from that, for every size of the tables and every program:      *)
(* messages are neither lost nor overwritten, receivers find them, the     *)
(* processes move along the state diagram of ProcessDiagram, and the       *)
(* machine does not run without a user process.  Then come the order of    *)
(* the lists, with it the scheduling policy, and the delta list: nobody's  *)
(* delay is lost when others fall asleep, wake or die.                     *)
(***************************************************************************)
EXTENDS XinuKernelProofs, FiniteSetTheorems

(* Process pid changes its state to `to', and the processor may change hands
   between eligible processes. *)
Moves(pid, to) ==
  \A p \in Pids :
    LET st == IF p = pid THEN to ELSE prstate[p] IN
    /\ st \in {"CURR", "READY"} => prstate'[p] \in {"CURR", "READY"}
    /\ st \notin {"CURR", "READY"} => prstate'[p] = st

(* A step that has nothing to do with messages, births and deaths, except that
   a process may begin to wait for a message with a timeout. *)
Quiet(pid, to) ==
  /\ Moves(pid, to)
  /\ UNCHANGED <<msgVars, prcount, halted>>
  /\ \A p \in Pids : cont'[p] = cont[p] \/ cont'[p].op \notin {"receive", "kill"}
  /\ \/ to = prstate[pid]
     \/ prstate[pid] \in {"SUSP", "WAIT", "SLEEP", "RECTIM"} /\ to = "READY"
     \/ prstate[pid] = "READY" /\ to = "SUSP"
     \/ pid = currpid /\ to \in {"SUSP", "WAIT", "SLEEP"}
     \/ pid = currpid /\ to = "RECTIM" /\ ~prhasmsg[pid]

(* receive() waits, or a message is taken. *)
Receives ==
  /\ UNCHANGED <<prmsg, prcount, halted>>
  /\ \A p \in Pids \ {currpid} : cont'[p] = cont[p]
  /\ \/ /\ Moves(currpid, "RECV") /\ ~prhasmsg[currpid] /\ UNCHANGED prhasmsg
        /\ cont'[currpid].op = "receive"
     \/ /\ Moves(currpid, "CURR")
        /\ prhasmsg' = [prhasmsg EXCEPT ![currpid] = FALSE]
        /\ cont'[currpid].op = "user"

(* A message is sent, or nothing happens to messages. *)
Sent(dst, msg) ==
  \/ /\ ~Refused(dst)
     /\ prmsg' = [prmsg EXCEPT ![dst] = msg]
     /\ prhasmsg' = [prhasmsg EXCEPT ![dst] = TRUE]
     /\ Moves(dst, IF prstate[dst] \in {"RECV", "RECTIM"} THEN "READY" ELSE prstate[dst])
  \/ UNCHANGED msgVars /\ Moves(dst, prstate[dst])

Sends(dst, msg) == Sent(dst, msg) /\ UNCHANGED <<cont, prcount, halted>>

(* A process is born, a kill begins, or a process dies. *)
Born(pid) ==
  /\ prstate[pid] = "FREE" /\ Moves(pid, "SUSP")
  /\ prhasmsg' = [prhasmsg EXCEPT ![pid] = FALSE] /\ UNCHANGED <<prmsg, halted>>
  /\ cont' = [cont EXCEPT ![pid] = User]
  /\ prcount' = prcount + 1

KillBegins(dst, msg) ==
  /\ prcount' = prcount - 1
  /\ \/ LastProcess(prcount') /\ halted' /\ UNCHANGED <<prstate, msgVars, cont>>
     \/ /\ ~LastProcess(prcount') /\ UNCHANGED halted
        /\ Sent(dst, msg)
        /\ cont'[currpid].op = "kill" /\ \A p \in Pids \ {currpid} : cont'[p] = cont[p]

Dies(pid) ==
  /\ pid # NULLPROC /\ Moves(pid, "FREE")
  /\ UNCHANGED <<msgVars, prcount, halted>>
  /\ cont[currpid].op = "kill"
  /\ cont' = [cont EXCEPT ![pid] = User, ![currpid] = User]

-----------------------------------------------------------------------------
(* The scheduler *)

LEMMA ScheduledMoves ==
  ASSUME KernelInv, NEW pid \in Pids, NEW to, Scheduled([prstate EXCEPT ![pid] = to])
  PROVE  Moves(pid, to)
PROOF BY InvFacts DEF Scheduled, Moves

LEMMA RestMoves ==
  ASSUME KernelInv, NEW pid \in Pids, Scheduled(prstate) \/ UNCHANGED prstate
  PROVE  Moves(pid, prstate[pid])
PROOF BY InvFacts DEF Scheduled, Moves

LEMMA ReadyMoves ==
  ASSUME KernelInv, NEW pid \in Pids, NEW qk \in [Pids -> Int],
         prstate[pid] \notin {"CURR", "READY"}, Ready(pid, qk)
  PROVE  Moves(pid, "READY")
PROOF BY ReadySchedules, ScheduledMoves

LEMMA BlockMoves ==
  ASSUME KernelInv, NEW st \in States \ {"CURR", "READY"}, NEW qk \in [Pids -> Int],
         UserMode, currpid # NULLPROC, Block(st, qk)
  PROVE  Moves(currpid, st)
PROOF
<1>1. Scheduled([prstate EXCEPT ![currpid] = st])
  BY UserFacts, BlockSchedules
<1> QED BY <1>1, InvFacts, ScheduledMoves

(* The keys insertd computes are keys. *)
LEMMA BlockForMoves ==
  ASSUME KernelInv, NEW st \in {"SLEEP", "RECTIM"}, NEW d \in Nat,
         UserMode, currpid # NULLPROC, BlockFor(st, d)
  PROVE  Moves(currpid, st)
PROOF
<1>1. PICK i \in 1..(Len(sleepq) + 1), k \in 0..d :
        Block(st, KeyAfterInsertd(sleepq, qkey, currpid, i, k))
  BY DEF BlockFor
<1> DEFINE qk == KeyAfterInsertd(sleepq, qkey, currpid, i, k)
<1>2. qk \in [Pids -> Int]
  <2>1. [qkey EXCEPT ![currpid] = k] \in [Pids -> Int]
    BY InvFacts
  <2>2. i <= Len(sleepq) => sleepq[i] \in Pids
    BY SemTypes
  <2> QED BY <2>1, <2>2 DEF KeyAfterInsertd
<1>3. st \in States \ {"CURR", "READY"}
  BY DEF States
<1> HIDE DEF qk
<1> QED BY <1>1, <1>2, <1>3, BlockMoves DEF qk

(* The process that leaves a semaphore had waited at it. *)
LEMMA PopMoves ==
  ASSUME KernelInv, NEW s \in Sems, squeue[s] # <<>>, Ready(Head(squeue[s]), qkey)
  PROVE  \E pid \in Pids : prstate[pid] = "WAIT" /\ Moves(pid, "READY")
PROOF
<1>1. Head(squeue[s]) \in WaitSet(prstate, prsem, s)
  BY InvFacts, QueueTail
<1>2. Head(squeue[s]) \in Pids /\ prstate[Head(squeue[s])] = "WAIT"
  BY <1>1 DEF WaitSet
<1> QED BY <1>2, InvFacts, ReadyMoves

LEMMA ReleaseMoves ==
  ASSUME KernelInv, NEW s \in Sems, Release(s), cont[currpid].op # "semreset"
  PROVE  \E pid \in Pids : \/ Moves(pid, prstate[pid])
                           \/ prstate[pid] = "WAIT" /\ Moves(pid, "READY")
PROOF
<1>1. CASE scount[s] < 0 /\ Ready(Head(squeue[s]), qkey)
  <2>1. Len(squeue[s]) = -scount[s] /\ scount[s] \in Int /\ squeue[s] \in Seq(Pids)
    BY <1>1, SemTypes DEF KernelInv, SemaphoreCount
  <2>2. squeue[s] # <<>>
    BY <1>1, <2>1
  <2> QED BY <1>1, <2>2, PopMoves
<1>2. CASE UNCHANGED schedVars
  BY <1>2, NullIsPid, RestMoves DEF schedVars
<1> QED BY <1>1, <1>2 DEF Release

-----------------------------------------------------------------------------
(* The steps one after the other *)

StepKind ==
  \/ \E pid \in Pids, to \in States : Quiet(pid, to)
  \/ Receives
  \/ \E dst \in Pids, msg \in Msgs \cup Pids : Sends(dst, msg) \/ KillBegins(dst, msg)
  \/ \E pid \in Pids : Born(pid) \/ Dies(pid)

(* A step at whose end resched() may be called, and nothing else. *)
LEMMA RestQuiet ==
  ASSUME KernelInv, Scheduled(prstate) \/ UNCHANGED prstate,
         UNCHANGED <<msgVars, prcount, halted>>,
         \A p \in Pids : cont'[p] = cont[p] \/ cont'[p].op \notin {"receive", "kill"}
  PROVE  StepKind
PROOF
<1>1. Moves(NULLPROC, prstate[NULLPROC])
  BY NullIsPid, RestMoves
<1>2. Quiet(NULLPROC, prstate[NULLPROC])
  BY <1>1 DEF Quiet
<1>3. NULLPROC \in Pids /\ prstate[NULLPROC] \in States
  BY NullIsPid, InvFacts DEF States
<1> QED BY <1>2, <1>3 DEF StepKind

(* The continuation left by a call that is neither receive nor kill. *)
LEMMA ThenQuiet ==
  ASSUME KernelInv, NEW op \in Ops \ {"receive", "kill"}, NEW id \in Pids \cup Sems,
         NEW n \in Nat, Then(Cont(op, id, n))
  PROVE  \A p \in Pids : cont'[p] = cont[p] \/ cont'[p].op \notin {"receive", "kill"}
PROOF
<1>1. cont'[currpid].op = op /\ \A p \in Pids \ {currpid} : cont'[p] = cont[p]
  BY ThenType
<1> QED BY <1>1

LEMMA ZeroIsId == 0 \in Pids \cup Sems /\ 0 \in Nat
PROOF BY NullIsPid DEF NULLPROC

(* The calls that leave everybody where he is. *)
LEMMA RestKinds ==
  ASSUME KernelInv,
         \/ \E pid \in Pids : CreateNoStack(pid)
         \/ \E pid \in Pids, prio \in Prios : Chprio(pid, prio)
         \/ Yield \/ Halted
         \/ \E s \in Sems, n \in Counts : Semcreate(s, n)
         \/ UNCHANGED vars
  PROVE  StepKind
PROOF
<1>1. ASSUME Yield PROVE StepKind
  <2>1. UserMode /\ Resched(prstate, readylist, qkey, preempt)
    BY <1>1 DEF Yield, Calls
  <2>2. Scheduled(prstate)
    BY <2>1, InvFacts, UserFacts, ReschedSchedules
  <2> QED BY <1>1, <2>2, RestQuiet DEF Yield, procVars
<1>2. ASSUME UNCHANGED <<prstate, msgVars, prcount, halted, cont>> PROVE StepKind
  BY <1>2, RestQuiet
<1> QED BY <1>1, <1>2 DEF CreateNoStack, Chprio, Halted, Semcreate, vars, schedVars, procVars

LEMMA SuspendKinds ==
  ASSUME KernelInv,
         \/ \E pid \in Pids : Resume(pid) \/ SuspendReady(pid)
         \/ SuspendSelf
  PROVE  StepKind
PROOF
<1>1. "READY" \in States /\ "SUSP" \in States \ {"CURR", "READY"}
  BY DEF States
<1>2. ASSUME NEW pid \in Pids, Resume(pid) PROVE StepKind
  <2>1. /\ prstate[pid] = "SUSP" /\ Ready(pid, qkey)
        /\ UNCHANGED <<msgVars, prcount, halted, cont>>
    BY <1>2 DEF Resume, procVars
  <2>2. Moves(pid, "READY")
    BY <2>1, InvFacts, ReadyMoves
  <2>3. Quiet(pid, "READY")
    BY <2>1, <2>2 DEF Quiet
  <2> QED BY <1>1, <2>3 DEF StepKind
<1>3. ASSUME NEW pid \in Pids, SuspendReady(pid) PROVE StepKind
  <2>1. /\ prstate[pid] = "READY" /\ prstate' = [prstate EXCEPT ![pid] = "SUSP"]
        /\ UNCHANGED <<msgVars, prcount, halted, cont>>
    BY <1>3 DEF SuspendReady, procVars
  <2>2. Moves(pid, "SUSP")
    BY <2>1, InvFacts DEF Moves
  <2>3. Quiet(pid, "SUSP")
    BY <2>1, <2>2 DEF Quiet
  <2> QED BY <1>1, <2>3 DEF StepKind
<1>4. ASSUME SuspendSelf PROVE StepKind
  <2>1. /\ UserMode /\ currpid # NULLPROC /\ Block("SUSP", qkey)
        /\ UNCHANGED <<msgVars, prcount, halted, cont>>
    BY <1>4 DEF SuspendSelf, Calls, procVars
  <2>2. Moves(currpid, "SUSP")
    BY <1>1, <2>1, InvFacts, BlockMoves
  <2>3. Quiet(currpid, "SUSP")
    BY <2>1, <2>2 DEF Quiet
  <2> QED BY <1>1, <2>3, InvFacts DEF StepKind
<1> QED BY <1>2, <1>3, <1>4

LEMMA SleepKinds ==
  ASSUME KernelInv,
         \/ \E d \in Delays : Sleepms(d)
         \/ \E w \in Waits : RecvtimeBlock(w)
  PROVE  StepKind
PROOF
<1>1. "SLEEP" \in States /\ "RECTIM" \in States /\ "recvtime" \in Ops \ {"receive", "kill"}
  BY DEF States, Ops
<1>2. ASSUME NEW d \in Delays, Sleepms(d) PROVE StepKind
  <2>1. /\ UserMode /\ currpid # NULLPROC /\ BlockFor("SLEEP", d) /\ d \in Nat
        /\ UNCHANGED <<msgVars, prcount, halted, cont>>
    BY <1>2, CallArguments DEF Sleepms, Calls, procVars
  <2>2. Moves(currpid, "SLEEP")
    BY <2>1, BlockForMoves
  <2>3. Quiet(currpid, "SLEEP")
    BY <2>1, <2>2 DEF Quiet
  <2> QED BY <1>1, <2>3, InvFacts DEF StepKind
<1>3. ASSUME NEW w \in Waits, RecvtimeBlock(w) PROVE StepKind
  <2>1. /\ UserMode /\ currpid # NULLPROC /\ BlockFor("RECTIM", w) /\ w \in Nat
        /\ ~prhasmsg[currpid] /\ Then(Cont("recvtime", 0, 0))
        /\ UNCHANGED <<msgVars, prcount, halted>>
    BY <1>3, CallArguments DEF RecvtimeBlock, Calls, procVars
  <2>2. Moves(currpid, "RECTIM")
    BY <2>1, BlockForMoves
  <2>3. \A p \in Pids : cont'[p] = cont[p] \/ cont'[p].op \notin {"receive", "kill"}
    BY <1>1, <2>1, ZeroIsId, ThenQuiet
  <2>4. Quiet(currpid, "RECTIM")
    BY <2>1, <2>2, <2>3 DEF Quiet
  <2> QED BY <1>1, <2>4, InvFacts DEF StepKind
<1> QED BY <1>2, <1>3

LEMMA ReceiveKinds ==
  ASSUME KernelInv, ReceiveNow \/ RecvNoWait \/ ReceiveBlock \/ ReceiveRest
  PROVE  StepKind
PROOF
<1>1. CASE ReceiveBlock
  <2>1. /\ UserMode /\ currpid # NULLPROC /\ Block("RECV", qkey) /\ ~prhasmsg[currpid]
        /\ Then(Cont("receive", 0, 0))
        /\ UNCHANGED <<msgVars, prcount, halted>>
    BY <1>1 DEF ReceiveBlock, Calls, procVars
  <2>2. "RECV" \in States \ {"CURR", "READY"} /\ "receive" \in Ops
    BY DEF States, Ops
  <2>3. Moves(currpid, "RECV")
    BY <2>1, <2>2, InvFacts, BlockMoves
  <2>4. cont'[currpid].op = "receive" /\ \A p \in Pids \ {currpid} : cont'[p] = cont[p]
    BY <2>1, <2>2, ZeroIsId, ThenType
  <2> QED BY <2>1, <2>3, <2>4 DEF StepKind, Receives, msgVars
<1>2. CASE ReceiveNow \/ RecvNoWait \/ ReceiveRest
  <2>1. Take /\ UNCHANGED <<prstate, prcount, halted>>
    BY <1>2 DEF ReceiveNow, RecvNoWait, ReceiveRest, schedVars, procVars
  <2>2. cont'[currpid].op = "user" /\ \A p \in Pids \ {currpid} : cont'[p] = cont[p]
    <3>1. CASE ReceiveRest
      <4>1. Then(Cont("user", 0, 0)) /\ "user" \in Ops
        BY <3>1 DEF ReceiveRest, User, Ops
      <4> QED BY <4>1, ZeroIsId, ThenType
    <3>2. CASE ReceiveNow \/ RecvNoWait
      BY <3>2 DEF ReceiveNow, RecvNoWait, Calls, UserMode
    <3> QED BY <1>2, <3>1, <3>2
  <2>3. Moves(currpid, "CURR")
    BY <2>1, InvFacts DEF Moves
  <2> QED BY <2>1, <2>2, <2>3 DEF StepKind, Receives, Take
<1> QED BY <1>1, <1>2

(* send, and the notice kill sends to the parent. *)
LEMMA DeliverSent ==
  ASSUME KernelInv, NEW dst \in Pids, NEW msg, Deliver(dst, msg)
  PROVE  Sent(dst, msg)
PROOF
<1>1. CASE Refused(dst) /\ UNCHANGED <<schedVars, sleepq, msgVars>>
  <2>1. Moves(dst, prstate[dst])
    BY <1>1, RestMoves DEF schedVars
  <2> QED BY <1>1, <2>1 DEF Sent
<1>2. CASE /\ ~Refused(dst)
           /\ prmsg' = [prmsg EXCEPT ![dst] = msg]
           /\ prhasmsg' = [prhasmsg EXCEPT ![dst] = TRUE]
           /\ prstate[dst] \notin {"RECV", "RECTIM"}
           /\ UNCHANGED <<schedVars, sleepq>>
  <2>1. Moves(dst, prstate[dst])
    BY <1>2, RestMoves DEF schedVars
  <2> QED BY <1>2, <2>1 DEF Sent
<1>3. CASE /\ ~Refused(dst)
           /\ prmsg' = [prmsg EXCEPT ![dst] = msg]
           /\ prhasmsg' = [prhasmsg EXCEPT ![dst] = TRUE]
           /\ prstate[dst] = "RECV" /\ Ready(dst, qkey)
  <2>1. Moves(dst, "READY")
    BY <1>3, InvFacts, ReadyMoves
  <2> QED BY <1>3, <2>1 DEF Sent
<1>4. CASE /\ ~Refused(dst)
           /\ prmsg' = [prmsg EXCEPT ![dst] = msg]
           /\ prhasmsg' = [prhasmsg EXCEPT ![dst] = TRUE]
           /\ prstate[dst] = "RECTIM"
           /\ Ready(dst, KeyAfterUnsleep(sleepq, qkey, dst))
  <2>1. KeyAfterUnsleep(sleepq, qkey, dst) \in [Pids -> Int]
    BY <1>4, UnsleepKeys DEF SleepSet
  <2>2. Moves(dst, "READY")
    BY <1>4, <2>1, ReadyMoves
  <2> QED BY <1>4, <2>2 DEF Sent
<1> QED BY <1>1, <1>2, <1>3, <1>4 DEF Deliver

LEMMA SendKinds ==
  ASSUME KernelInv, NEW pid \in Pids, NEW msg \in Msgs, Send(pid, msg)
  PROVE  StepKind
PROOF
<1>1. Sent(pid, msg) /\ UNCHANGED <<cont, prcount, halted>>
  BY DeliverSent DEF Send, procVars
<1> QED BY <1>1 DEF StepKind, Sends

LEMMA CreateKinds ==
  ASSUME KernelInv, NEW pid \in Pids, NEW prio \in Prios, Create(pid, prio)
  PROVE  StepKind
PROOF
<1>1. /\ prstate[pid] = "FREE" /\ prstate' = [prstate EXCEPT ![pid] = "SUSP"]
      /\ prhasmsg' = [prhasmsg EXCEPT ![pid] = FALSE]
      /\ cont' = [cont EXCEPT ![pid] = User] /\ prcount' = prcount + 1
      /\ UNCHANGED <<prmsg, halted>>
  BY DEF Create, NextFree, FreePids
<1>2. Moves(pid, "SUSP")
  BY <1>1, InvFacts DEF Moves
<1> QED BY <1>1, <1>2 DEF StepKind, Born

LEMMA KillKinds ==
  ASSUME KernelInv, NEW pid \in Pids, Kill(pid)
  PROVE  StepKind
PROOF
<1>1. prparent[pid] \in Pids /\ prcount' = prcount - 1
  BY DEF KernelInv, TypeOK, Kill
<1>2. CASE /\ LastProcess(prcount - 1)
           /\ halted' = TRUE
           /\ UNCHANGED <<schedVars, msgVars, sleepq, cont>>
  <2>1. KillBegins(prparent[pid], pid)
    BY <1>1, <1>2 DEF KillBegins, schedVars
  <2> QED BY <1>1, <2>1 DEF StepKind
<1>3. CASE /\ ~LastProcess(prcount - 1)
           /\ Deliver(prparent[pid], pid)
           /\ Then(Cont("kill", pid, 0))
           /\ UNCHANGED halted
  <2>1. Sent(prparent[pid], pid)
    BY <1>1, <1>3, DeliverSent
  <2>2. "kill" \in Ops
    BY DEF Ops
  <2>3. cont'[currpid].op = "kill" /\ \A p \in Pids \ {currpid} : cont'[p] = cont[p]
    BY <1>3, <2>2, ThenType
  <2>4. KillBegins(prparent[pid], pid)
    BY <1>1, <1>3, <2>1, <2>3 DEF KillBegins
  <2> QED BY <1>1, <2>4 DEF StepKind
<1> QED BY <1>2, <1>3 DEF Kill

LEMMA KillRestKinds ==
  ASSUME KernelInv, KillRest
  PROVE  StepKind
PROOF
<1> DEFINE pid == cont[currpid].id
           freed == [prstate EXCEPT ![pid] = "FREE"]
<1>1. /\ cont[currpid].op = "kill"
      /\ cont' = [cont EXCEPT ![pid] = User, ![currpid] = User]
      /\ UNCHANGED <<msgVars, prcount, halted>>
  BY DEF KillRest, Continues, procVars
<1>2. pid \in Pids \ {NULLPROC} /\ Defer.ndefers = 0
  <2>1. cont[currpid].op \notin LoopOps
    BY <1>1 DEF LoopOps
  <2> QED BY <1>1, <2>1, InvFacts, OutsideLoops DEF KernelInv, Targets
<1>3. /\ freed \in [Pids -> States]
      /\ freed[NULLPROC] \in {"CURR", "READY"}
      /\ \A p \in Pids : freed[p] = "CURR" => p = currpid
  BY <1>2, InvFacts, NullIsPid DEF States
<1> HIDE DEF pid, freed
<1>4. freed = [prstate EXCEPT ![pid] = "FREE"]
  BY DEF freed
<1>5. Moves(pid, "FREE")
  <2>1. CASE prstate[pid] = "CURR" /\ Resched(freed, readylist, qkey, preempt)
    <3>1. ReadySet(freed) = ReadySet(prstate)
      BY <1>2, <1>4, <2>1, InvFacts DEF ReadySet
    <3>2. Scheduled(freed)
      BY <1>2, <1>3, <2>1, <3>1, InvFacts, ReschedSchedules
    <3> QED BY <1>2, <1>4, <3>2, ScheduledMoves
  <2>2. CASE prstate' = freed
    BY <1>2, <1>4, <2>2, InvFacts DEF Moves
  <2> QED BY <2>1, <2>2 DEF KillRest, pid, freed
<1>6. Dies(pid)
  BY <1>1, <1>2, <1>5 DEF Dies, pid
<1> QED BY <1>2, <1>6 DEF StepKind

(* A step that may let a waiting process go. *)
LEMMA PopKind ==
  ASSUME KernelInv,
         \E pid \in Pids : \/ Moves(pid, prstate[pid])
                           \/ prstate[pid] = "WAIT" /\ Moves(pid, "READY"),
         UNCHANGED <<msgVars, prcount, halted>>,
         \A p \in Pids : cont'[p] = cont[p] \/ cont'[p].op \notin {"receive", "kill"}
  PROVE  StepKind
PROOF
<1>1. PICK pid \in Pids : \/ Moves(pid, prstate[pid])
                          \/ prstate[pid] = "WAIT" /\ Moves(pid, "READY")
  OBVIOUS
<1>2. "READY" \in States /\ prstate[pid] \in States
  BY InvFacts DEF States
<1>3. Quiet(pid, prstate[pid]) \/ Quiet(pid, "READY")
  BY <1>1 DEF Quiet
<1> QED BY <1>2, <1>3 DEF StepKind

LEMMA WaitKinds ==
  ASSUME KernelInv, NEW s \in Sems, Wait(s) \/ Signal(s)
  PROVE  StepKind
PROOF
<1>1. UserMode /\ currpid # NULLPROC /\ UNCHANGED <<msgVars, prcount, halted, cont>>
  BY DEF Wait, Signal, Calls, procVars
<1>2. CASE Block("WAIT", qkey)
  <2>1. "WAIT" \in States \ {"CURR", "READY"}
    BY DEF States
  <2>2. Moves(currpid, "WAIT")
    BY <1>1, <1>2, <2>1, InvFacts, BlockMoves
  <2>3. Quiet(currpid, "WAIT")
    BY <1>1, <2>2 DEF Quiet
  <2> QED BY <2>1, <2>3, InvFacts DEF StepKind
<1>3. CASE UNCHANGED schedVars
  BY <1>1, <1>3, RestQuiet DEF schedVars
<1>4. CASE Release(s)
  <2>1. cont[currpid].op # "semreset"
    BY <1>1 DEF UserMode
  <2> QED BY <1>1, <1>4, <2>1, ReleaseMoves, PopKind
<1> QED BY <1>2, <1>3, <1>4 DEF Wait, Signal

(* The loops of the semaphore calls. *)
LEMMA SemLoopKinds ==
  ASSUME KernelInv,
         \/ \E s \in Sems : Semdelete(s)
         \/ \E s \in Sems, n \in Counts : Signaln(s, n) \/ Semreset(s, n)
         \/ SignalnStep \/ SignalnDone \/ SemdeleteStep \/ SemdeleteDone
         \/ SemresetStep \/ SemresetDone
  PROVE  StepKind
PROOF
<1>1. {"user", "signaln", "semdelete", "semreset"} \subseteq Ops \ {"receive", "kill"}
  BY DEF Ops
<1>2. cont[currpid].op \in SemOps => cont[currpid].id \in Sems
  BY InvFacts DEF KernelInv, Targets
<1>3. ASSUME NEW s \in Sems, Semdelete(s) \/ \E n \in Counts : Signaln(s, n) \/ Semreset(s, n)
      PROVE  StepKind
  <2>1. UNCHANGED <<prstate, msgVars, prcount, halted>>
    BY <1>3 DEF Semdelete, Signaln, Semreset, procVars
  <2>2. \E op \in {"signaln", "semdelete", "semreset"}, n \in Nat : Then(Cont(op, s, n))
    BY <1>3, CallArguments DEF Semdelete, Signaln, Semreset
  <2> QED BY <1>1, <2>1, <2>2, ThenQuiet, RestQuiet
<1>4. ASSUME SignalnStep \/ SemdeleteStep PROVE StepKind
  <2>1. /\ Release(cont[currpid].id) /\ cont[currpid].id \in Sems
        /\ cont[currpid].op # "semreset"
        /\ UNCHANGED <<msgVars, prcount, halted>>
    BY <1>2, <1>4 DEF SignalnStep, SemdeleteStep, Continues, SemOps, procVars
  <2>2. \A p \in Pids : cont'[p] = cont[p] \/ cont'[p].op \notin {"receive", "kill"}
    <3>1. CASE SemdeleteStep
      BY <3>1 DEF SemdeleteStep
    <3>2. CASE SignalnStep
      <4>1. /\ cont[currpid].op = "signaln"
            /\ cont' = [cont EXCEPT ![currpid] = [cont[currpid] EXCEPT !.n = @ - 1]]
        BY <3>2 DEF SignalnStep, Continues, Then
      <4>2. cont'[currpid].op = "signaln" /\ \A p \in Pids \ {currpid} : cont'[p] = cont[p]
        BY <4>1, ContType, InvFacts
      <4> QED BY <4>2
    <3> QED BY <1>4, <3>1, <3>2
  <2> QED BY <2>1, <2>2, ReleaseMoves, PopKind
<1>5. ASSUME SemresetStep PROVE StepKind
  <2>1. /\ cont[currpid].id \in Sems /\ squeue[cont[currpid].id] # <<>>
        /\ Ready(Head(squeue[cont[currpid].id]), qkey)
        /\ UNCHANGED <<msgVars, prcount, halted, cont>>
    BY <1>2, <1>5 DEF SemresetStep, Continues, SemOps, procVars
  <2> QED BY <2>1, PopMoves, PopKind
<1>6. ASSUME SignalnDone \/ SemdeleteDone \/ SemresetDone PROVE StepKind
  <2>1. /\ cont[currpid].op \in LoopOps /\ DeferStop /\ Then(Cont("user", 0, 0))
        /\ UNCHANGED <<msgVars, prcount, halted>>
    BY <1>6 DEF SignalnDone, SemdeleteDone, SemresetDone, Continues, LoopOps, User, procVars
  <2>2. Scheduled(prstate)
    BY <2>1, InLoop, DeferStopSchedules
  <2> QED BY <1>1, <2>1, <2>2, ZeroIsId, ThenQuiet, RestQuiet
<1> QED BY <1>3, <1>4, <1>5, <1>6

LEMMA ClockKinds ==
  ASSUME KernelInv, ClockTick \/ WakeupStep \/ WakeupDone \/ TickRest
  PROVE  StepKind
PROOF
<1>1. {"user", "wakeup", "tick"} \subseteq Ops \ {"receive", "kill"}
  BY DEF Ops
<1>2. UNCHANGED <<msgVars, prcount, halted>>
  BY DEF ClockTick, WakeupStep, WakeupDone, TickRest, procVars
<1>3. CASE ClockTick
  <2> DEFINE ticked == [qkey EXCEPT ![Head(sleepq)] = @ - 1]
  <2>1. qkey \in [Pids -> Int] /\ (sleepq # <<>> => ticked \in [Pids -> Int])
    <3>1. sleepq # <<>> => Head(sleepq) \in Pids
      BY SemTypes
    <3> QED BY <3>1, InvFacts
  <2>2. CASE TimeSlice(qkey) /\ UNCHANGED cont
    BY <1>2, <2>1, <2>2, TimeSliceSchedules, RestQuiet
  <2>3. CASE sleepq # <<>> /\ TimeSlice(ticked) /\ UNCHANGED cont
    BY <1>2, <2>1, <2>3, TimeSliceSchedules, RestQuiet
  <2>4. CASE Then(Cont("wakeup", 0, 0)) /\ UNCHANGED prstate
    BY <1>1, <1>2, <2>4, ZeroIsId, ThenQuiet, RestQuiet
  <2> QED BY <1>3, <2>2, <2>3, <2>4 DEF ClockTick
<1>4. CASE WakeupStep
  <2>1. sleepq # <<>> /\ Ready(Head(sleepq), qkey) /\ UNCHANGED cont
    BY <1>4 DEF WakeupStep, Due
  <2>2. Head(sleepq) \in SleepSet(prstate)
    BY <2>1, InvFacts, QueueTail
  <2>3. Head(sleepq) \in Pids /\ prstate[Head(sleepq)] \in {"SLEEP", "RECTIM"}
    BY <2>2 DEF SleepSet
  <2>4. Moves(Head(sleepq), "READY")
    BY <2>1, <2>3, InvFacts, ReadyMoves
  <2>5. Quiet(Head(sleepq), "READY")
    BY <1>2, <2>1, <2>3, <2>4 DEF Quiet
  <2>6. "READY" \in States
    BY DEF States
  <2> QED BY <2>3, <2>5, <2>6 DEF StepKind
<1>5. CASE WakeupDone
  <2>1. cont[currpid].op \in LoopOps /\ DeferStop /\ Then(Cont("tick", 0, 0))
    BY <1>5 DEF WakeupDone, Continues, LoopOps
  <2>2. Scheduled(prstate)
    BY <2>1, InLoop, DeferStopSchedules
  <2> QED BY <1>1, <1>2, <2>1, <2>2, ZeroIsId, ThenQuiet, RestQuiet
<1>6. CASE TickRest
  <2>1. TimeSlice(qkey) /\ Then(Cont("user", 0, 0))
    BY <1>6 DEF TickRest, User
  <2>2. Scheduled(prstate)
    BY <2>1, InvFacts, TimeSliceSchedules
  <2> QED BY <1>1, <1>2, <2>1, <2>2, ZeroIsId, ThenQuiet, RestQuiet
<1> QED BY <1>3, <1>4, <1>5, <1>6

(* There is no other kind of step. *)
LEMMA StepKinds ==
  ASSUME KernelInv, [Next]_vars
  PROVE  StepKind
PROOF
<1>1. CASE Kernel
  BY <1>1, ReceiveKinds, KillRestKinds, ClockKinds, SemLoopKinds DEF Kernel
<1>2. CASE Call
  <2>1. CASE \E pid \in Pids, prio \in Prios : Create(pid, prio) \/ Chprio(pid, prio)
    BY <2>1, CreateKinds, RestKinds
  <2>2. CASE \E pid \in Pids : \/ CreateNoStack(pid) \/ Resume(pid)
                               \/ SuspendReady(pid) \/ Kill(pid)
    BY <2>2, RestKinds, SuspendKinds, KillKinds
  <2>3. CASE \/ \E pid \in Pids, msg \in Msgs : Send(pid, msg)
             \/ \E d \in Delays : Sleepms(d)
             \/ \E w \in Waits : RecvtimeBlock(w)
    BY <2>3, SendKinds, SleepKinds
  <2>4. CASE \E s \in Sems : Wait(s) \/ Signal(s) \/ Semdelete(s)
    BY <2>4, WaitKinds, SemLoopKinds
  <2>5. CASE \E s \in Sems, n \in Counts : Semcreate(s, n) \/ Signaln(s, n) \/ Semreset(s, n)
    BY <2>5, RestKinds, SemLoopKinds
  <2>6. CASE SuspendSelf \/ Yield \/ ReceiveNow \/ ReceiveBlock \/ RecvNoWait
    BY <2>6, SuspendKinds, RestKinds, ReceiveKinds
  <2> QED BY <1>2, <2>1, <2>2, <2>3, <2>4, <2>5, <2>6 DEF Call
<1>3. CASE ClockTick
  BY <1>3, ClockKinds
<1>4. CASE Halted \/ UNCHANGED vars
  BY <1>4, RestKinds
<1> QED BY <1>1, <1>2, <1>3, <1>4 DEF Next

-----------------------------------------------------------------------------
(* Messages *)

(* A process that no step moves from one blocked state to another. *)
LEMMA ReceiversStep ==
  ASSUME KernelInv, ReceiversSound, StepKind
  PROVE  ReceiversSound'
PROOF
<1>1. /\ prhasmsg \in [Pids -> BOOLEAN] /\ cont \in [Pids -> [op : Ops, id : Pids \cup Sems, n : Nat]]
      /\ currpid \in Pids /\ prstate[currpid] = "CURR"
  BY ContType, InvFacts
<1>2. /\ \A p \in Pids : prstate[p] \in {"RECV", "RECTIM"} => ~prhasmsg[p]
      /\ \A p \in Pids : cont[p].op = "receive" /\ prstate[p] # "RECV" => prhasmsg[p]
  BY DEF ReceiversSound, ReceiverHasNoMessage, ReceiveReturnsMessage
<1>3. User.op = "user"
  BY DEF User, Cont
<1> DEFINE Good(p) == /\ prstate'[p] \in {"RECV", "RECTIM"} => ~prhasmsg'[p]
                      /\ cont'[p].op = "receive" /\ prstate'[p] # "RECV" => prhasmsg'[p]
<1>4. SUFFICES ASSUME NEW p \in Pids PROVE Good(p)
  BY DEF ReceiversSound, ReceiverHasNoMessage, ReceiveReturnsMessage
<1>5. ASSUME NEW pid \in Pids, NEW to, Quiet(pid, to) PROVE Good(p)
  BY <1>1, <1>2, <1>5 DEF Quiet, Moves, msgVars
<1>6. ASSUME Receives PROVE Good(p)
  BY <1>1, <1>2, <1>6 DEF Receives, Moves
<1>7. ASSUME NEW dst \in Pids, NEW msg, Sent(dst, msg), UNCHANGED cont
      PROVE  Good(p)
  BY <1>1, <1>2, <1>7 DEF Sent, Moves, msgVars
<1>8. ASSUME NEW dst \in Pids, NEW msg, KillBegins(dst, msg) PROVE Good(p)
  BY <1>1, <1>2, <1>8 DEF KillBegins, Sent, Moves, msgVars
<1>9. ASSUME NEW pid \in Pids, Born(pid) PROVE Good(p)
  BY <1>1, <1>2, <1>3, <1>9 DEF Born, Moves
<1>10. ASSUME NEW pid \in Pids, Dies(pid) PROVE Good(p)
  BY <1>1, <1>2, <1>3, <1>10 DEF Dies, Moves, msgVars
<1> QED BY <1>5, <1>6, <1>7, <1>8, <1>9, <1>10 DEF StepKind, Sends

(* No wake-up is lost, and receive() returns a message: a process that waits
   for a message has none, and one that has left the state in which receive()
   waits has one, whatever suspends, resumes, kills, timers and senders came
   between. *)
THEOREM ReceiversSoundAlways == Spec => []ReceiversSound
PROOF
<1>1. Init => ReceiversSound
  BY DEF Init, ReceiversSound, ReceiverHasNoMessage, ReceiveReturnsMessage, User, Cont
<1>2. KernelInv /\ ReceiversSound /\ [Next]_vars => ReceiversSound'
  BY StepKinds, ReceiversStep
<1> QED BY <1>1, <1>2, KernelInvariant, PTL DEF Spec

LEMMA MessageStep ==
  ASSUME KernelInv, StepKind, NEW p \in Pids,
         prhasmsg[p], prhasmsg'[p], prstate[p] # "FREE"
  PROVE  prmsg'[p] = prmsg[p]
PROOF
<1>1. /\ prhasmsg \in [Pids -> BOOLEAN] /\ prmsg \in [Pids -> Msgs \cup Pids]
  BY ContType
<1>2. ASSUME NEW dst \in Pids, NEW msg, Sent(dst, msg) PROVE prmsg'[p] = prmsg[p]
  BY <1>1, <1>2 DEF Sent, Refused, msgVars
<1>3. ASSUME NEW dst \in Pids, NEW msg, Sends(dst, msg) \/ KillBegins(dst, msg)
      PROVE  prmsg'[p] = prmsg[p]
  BY <1>2, <1>3 DEF Sends, KillBegins, msgVars
<1> QED BY <1>3 DEF StepKind, Quiet, Receives, Born, Dies, msgVars

(* A message stays as it was sent until its receiver takes it or dies: neither
   a second send nor the notice of a dying child replaces it. *)
THEOREM MessageKeptAlways == Spec => MessageKept
PROOF
<1>1. KernelInv /\ [Next]_vars =>
        [\A p \in Pids : prhasmsg[p] /\ prhasmsg'[p] /\ prstate[p] # "FREE"
           => prmsg'[p] = prmsg[p]]_vars
  BY StepKinds, MessageStep
<1> QED BY <1>1, KernelInvariant, PTL DEF Spec, MessageKept

-----------------------------------------------------------------------------
(* The state diagram *)

LEMMA DiagramStep ==
  ASSUME KernelInv, KernelInv', StepKind
  PROVE  Diagram!Next \/ UNCHANGED prstate
PROOF
<1>1. /\ prstate \in [Pids -> States] /\ currpid \in Pids
      /\ \A p \in Pids : prstate[p] = "CURR" <=> p = currpid
  BY InvFacts
<1>2. /\ prstate' \in [Pids -> States] /\ currpid' \in Pids
      /\ \A p \in Pids : prstate'[p] = "CURR" <=> p = currpid'
      /\ prstate'[NULLPROC] \in {"CURR", "READY"}
  BY DEF KernelInv, TypeOK, OneCurrent
<1>3. ASSUME NEW pid \in Pids, NEW to, Moves(pid, to),
             \/ to = prstate[pid]
             \/ prstate[pid] \in {"SUSP", "WAIT", "SLEEP", "RECV", "RECTIM"} /\ to = "READY"
             \/ prstate[pid] = "READY" /\ to = "SUSP"
             \/ prstate[pid] = "CURR" /\ to \in {"SUSP", "WAIT", "SLEEP", "RECV", "RECTIM"}
             \/ prstate[pid] = "FREE" /\ to = "SUSP"
             \/ to = "FREE"
      PROVE  Diagram!Next
  <2>1. \A p \in Pids : Diagram!Arrow(prstate[p], prstate'[p])
    <3> TAKE p \in Pids
    <3>1. CASE p # pid
      BY <1>1, <1>2, <1>3, <3>1 DEF Moves, Diagram!Arrow, Diagram!Blocked
    <3>2. CASE p = pid
      BY <1>1, <1>2, <1>3, <3>2 DEF Moves, Diagram!Arrow, Diagram!Blocked
    <3> QED BY <3>1, <3>2
  <2>2. \A p, q \in Pids : prstate[p] # prstate'[p] /\ prstate[q] # prstate'[q] =>
          p = q \/ "CURR" \in {prstate[p], prstate'[p]} \/ "CURR" \in {prstate[q], prstate'[q]}
    <3>1. \A p \in Pids \ {pid} : prstate[p] # prstate'[p] => "CURR" \in {prstate[p], prstate'[p]}
      BY <1>3 DEF Moves
    <3> QED BY <3>1
  <2>3. Diagram!OneRuns(prstate')
    BY <1>2 DEF Diagram!OneRuns
  <2>4. prstate' \in [Pids -> Diagram!Blocked \cup {"FREE", "CURR", "READY", "SUSP"}]
    BY <1>2 DEF States, Diagram!Blocked
  <2> QED BY <1>2, <2>1, <2>2, <2>3, <2>4 DEF Diagram!Next
<1>4. ASSUME NEW dst \in Pids, NEW msg, Sent(dst, msg) PROVE Diagram!Next
  BY <1>3, <1>4 DEF Sent
<1>5. ASSUME NEW pid \in Pids, NEW to, Quiet(pid, to) PROVE Diagram!Next
  BY <1>1, <1>3, <1>5 DEF Quiet
<1>6. ASSUME Receives PROVE Diagram!Next
  BY <1>1, <1>3, <1>6 DEF Receives
<1>7. ASSUME NEW dst \in Pids, NEW msg, Sends(dst, msg) \/ KillBegins(dst, msg)
      PROVE  Diagram!Next \/ UNCHANGED prstate
  BY <1>4, <1>7 DEF Sends, KillBegins
<1>8. ASSUME NEW pid \in Pids, Born(pid) \/ Dies(pid) PROVE Diagram!Next
  BY <1>3, <1>8 DEF Born, Dies
<1> QED BY <1>5, <1>6, <1>7, <1>8 DEF StepKind

(* The kernel implements the state diagram of a process: whatever it does,
   with all its lists, keys, deferrals and pending kills, moves the states
   along the arrows, one process at a time besides the hand-over of the
   processor. *)
THEOREM ImplementsDiagram == Spec => StateDiagram
PROOF
<1>1. Init => Diagram!Init
  <2>1. 0 \in Pids /\ 1 \in Pids /\ NULLPROC = 0
    BY TableSizes DEF Pids, NULLPROC
  <2> QED BY <2>1 DEF Init, Diagram!Init, Diagram!OneRuns
<1>2. KernelInv /\ KernelInv' /\ [Next]_vars => [Diagram!Next]_prstate
  BY StepKinds, DiagramStep
<1> QED BY <1>1, <1>2, KernelInvariant, PTL DEF Spec, StateDiagram, Diagram!Spec

-----------------------------------------------------------------------------
(* The number of processes *)

UserProcs == {p \in Pids \ {NULLPROC} : prstate[p] # "FREE"}
Killers == {p \in Pids : cont[p].op = "kill"}

(* A kill takes its victim off prcount when it begins and removes it when it
   ends, and a process that two kill at once is taken off twice: prcount never
   claims more processes than there will be when the kills that have begun are
   over. *)
CountInv ==
  /\ prcount + Cardinality(Killers) <= 1 + Cardinality(UserProcs)
  /\ halted \/ prcount >= 2

LEMMA PidsFinite ==
  ASSUME NEW S, S \subseteq Pids
  PROVE  IsFiniteSet(S) /\ Cardinality(S) \in Nat
PROOF
<1>1. NPROC - 1 \in Int
  BY TableSizes
<1>2. IsFiniteSet(Pids)
  BY <1>1, FS_Interval DEF Pids
<1> QED BY <1>2, FS_Subset, FS_CardinalityType

LEMMA GrowsByOne ==
  ASSUME NEW S, NEW T, NEW x \in Pids, S \subseteq Pids, T \subseteq S \cup {x}
  PROVE  Cardinality(T) <= Cardinality(S) + 1
PROOF
<1>1. S \cup {x} \subseteq Pids
  OBVIOUS
<1>2. IsFiniteSet(S) /\ IsFiniteSet(S \cup {x}) /\ Cardinality(S) \in Nat
  BY <1>1, PidsFinite
<1>3. Cardinality(S \cup {x}) <= Cardinality(S) + 1
  BY <1>2, FS_AddElement
<1>4. Cardinality(T) <= Cardinality(S \cup {x})
  BY <1>2, FS_Subset
<1>5. Cardinality(T) \in Nat /\ Cardinality(S \cup {x}) \in Nat
  BY <1>1, PidsFinite
<1> QED BY <1>2, <1>3, <1>4, <1>5

LEMMA Shrinks ==
  ASSUME NEW S, NEW T, S \subseteq Pids, T \subseteq S
  PROVE  /\ Cardinality(T) <= Cardinality(S)
         /\ \A x \in S : x \notin T => Cardinality(T) + 1 <= Cardinality(S)
PROOF
<1>1. IsFiniteSet(S)
  BY PidsFinite
<1>2. Cardinality(T) <= Cardinality(S)
  BY <1>1, FS_Subset
<1>3. ASSUME NEW x \in S, x \notin T PROVE Cardinality(T) + 1 <= Cardinality(S)
  <2>1. IsFiniteSet(S \ {x}) /\ Cardinality(S \ {x}) = Cardinality(S) - 1
    BY <1>1, <1>3, FS_RemoveElement
  <2>2. T \in SUBSET (S \ {x})
    BY <1>3
  <2>3. Cardinality(T) <= Cardinality(S \ {x})
    BY <2>1, <2>2, FS_Subset
  <2>4. Cardinality(T) \in Nat /\ Cardinality(S) \in Nat
    BY PidsFinite
  <2> QED BY <2>1, <2>3, <2>4
<1> QED BY <1>2, <1>3

LEMMA CountStep ==
  ASSUME KernelInv, CountInv, StepKind
  PROVE  CountInv'
PROOF
<1>1. /\ UserProcs \subseteq Pids /\ UserProcs' \subseteq Pids
      /\ Killers \subseteq Pids /\ Killers' \subseteq Pids
      /\ prcount \in Int /\ currpid \in Pids /\ prstate[currpid] = "CURR"
      /\ cont \in [Pids -> [op : Ops, id : Pids \cup Sems, n : Nat]]
      /\ prstate[NULLPROC] # "FREE"
  BY ContType, InvFacts DEF UserProcs, Killers
<1>2. /\ Cardinality(UserProcs) \in Nat /\ Cardinality(Killers) \in Nat
      /\ Cardinality(UserProcs') \in Nat /\ Cardinality(Killers') \in Nat
  BY <1>1, PidsFinite
<1>3. User.op = "user"
  BY DEF User, Cont
(* Steps in which nobody dies and no kill begins. *)
<1>4. ASSUME UserProcs \subseteq UserProcs', Killers' \subseteq Killers,
             UNCHANGED <<prcount, halted>>
      PROVE  CountInv'
  <2>1. /\ Cardinality(UserProcs) <= Cardinality(UserProcs')
        /\ Cardinality(Killers') <= Cardinality(Killers)
    BY <1>1, <1>4, Shrinks
  <2> QED BY <1>1, <1>2, <1>4, <2>1 DEF CountInv
<1>5. ASSUME NEW pid \in Pids, NEW to, Quiet(pid, to) PROVE CountInv'
  <2>1. UserProcs \subseteq UserProcs' /\ Killers' \subseteq Killers
    BY <1>1, <1>5 DEF Quiet, Moves, UserProcs, Killers
  <2> QED BY <1>4, <1>5, <2>1 DEF Quiet
<1>6. ASSUME Receives PROVE CountInv'
  <2>1. UserProcs \subseteq UserProcs' /\ Killers' \subseteq Killers
    BY <1>1, <1>6 DEF Receives, Moves, UserProcs, Killers
  <2> QED BY <1>4, <1>6, <2>1 DEF Receives
<1>7. ASSUME NEW dst \in Pids, NEW msg, Sent(dst, msg) PROVE UserProcs \subseteq UserProcs'
  BY <1>7 DEF Sent, Moves, UserProcs
<1>8. ASSUME NEW dst \in Pids, NEW msg, Sends(dst, msg) PROVE CountInv'
  BY <1>4, <1>7, <1>8 DEF Sends, Killers
<1>9. ASSUME NEW dst \in Pids, NEW msg, KillBegins(dst, msg) PROVE CountInv'
  <2>1. UserProcs \subseteq UserProcs' /\ Killers' \subseteq Killers \cup {currpid}
    BY <1>1, <1>7, <1>9 DEF KillBegins, UserProcs, Killers
  <2>2. /\ Cardinality(UserProcs) <= Cardinality(UserProcs')
        /\ Cardinality(Killers') <= Cardinality(Killers) + 1
    BY <1>1, <2>1, Shrinks, GrowsByOne
  <2>3. prcount' = prcount - 1 /\ (halted' \/ prcount' >= 2)
    BY <1>1, <1>9 DEF KillBegins, LastProcess
  <2> QED BY <1>1, <1>2, <2>2, <2>3 DEF CountInv
<1>10. ASSUME NEW pid \in Pids, Born(pid) PROVE CountInv'
  <2>1. /\ UserProcs \subseteq UserProcs' /\ pid \in UserProcs' /\ pid \notin UserProcs
        /\ Killers' \subseteq Killers
    BY <1>1, <1>3, <1>10 DEF Born, Moves, UserProcs, Killers
  <2>2. /\ Cardinality(UserProcs) + 1 <= Cardinality(UserProcs')
        /\ Cardinality(Killers') <= Cardinality(Killers)
    BY <1>1, <2>1, Shrinks
  <2>3. prcount' = prcount + 1 /\ halted' = halted
    BY <1>10 DEF Born
  <2> QED BY <1>1, <1>2, <2>2, <2>3 DEF CountInv
<1>11. ASSUME NEW pid \in Pids, Dies(pid) PROVE CountInv'
  <2>1. UserProcs \subseteq UserProcs' \cup {pid}
    BY <1>11 DEF Dies, Moves, UserProcs
  <2>2. Killers' \subseteq Killers /\ currpid \in Killers /\ currpid \notin Killers'
    BY <1>1, <1>3, <1>11 DEF Dies, Killers
  <2>3. /\ Cardinality(UserProcs) <= Cardinality(UserProcs') + 1
        /\ Cardinality(Killers') + 1 <= Cardinality(Killers)
    BY <1>1, <2>1, <2>2, Shrinks, GrowsByOne
  <2>4. UNCHANGED <<prcount, halted>>
    BY <1>11 DEF Dies
  <2> QED BY <1>1, <1>2, <2>3, <2>4 DEF CountInv
<1> QED BY <1>5, <1>6, <1>8, <1>9, <1>10, <1>11 DEF StepKind

LEMMA CountInit ==
  ASSUME Init
  PROVE  CountInv
PROOF
<1>1. 0 \in Pids /\ 1 \in Pids /\ NULLPROC = 0
  BY TableSizes DEF Pids, NULLPROC
<1>2. Killers = {} /\ UserProcs = {1} /\ prcount = 2
  BY <1>1 DEF Init, Killers, UserProcs, User, Cont
<1> QED BY <1>2, FS_EmptySet, FS_Singleton DEF CountInv

(* The machine stops at the latest with its last user process, however kills,
   which count their victim at once and remove it later, overlap: while it
   runs, a process other than the null process lives. *)
THEOREM HaltsWithLastAlways == Spec => []HaltsWithLast
PROOF
<1>1. Init => CountInv
  BY CountInit
<1>2. KernelInv /\ CountInv /\ [Next]_vars => CountInv'
  BY StepKinds, CountStep
<1>3. KernelInv /\ CountInv => HaltsWithLast
  <2> SUFFICES ASSUME KernelInv, CountInv, ~halted PROVE HaltsWithLast
    BY DEF HaltsWithLast
  <2>1. UserProcs \subseteq Pids /\ Killers \subseteq Pids
    BY DEF UserProcs, Killers
  <2>2. IsFiniteSet(UserProcs) /\ Cardinality(UserProcs) \in Nat /\ Cardinality(Killers) \in Nat
    BY <2>1, PidsFinite
  <2>3. Cardinality(UserProcs) # 0
    BY <2>2, ContType DEF CountInv
  <2>4. UserProcs # {}
    BY <2>2, <2>3, FS_EmptySet
  <2> QED BY <2>4 DEF HaltsWithLast, UserProcs
<1> QED BY <1>1, <1>2, <1>3, KernelInvariant, PTL DEF Spec

-----------------------------------------------------------------------------
(* The order of the lists of the kernel: the ready list descends by key; as
   long as nobody changes priorities the processor belongs to a process of the
   highest priority; and nobody overtakes on a semaphore. *)


Descends(q, key) == \A i, j \in 1..Len(q) : i < j => key[q[i]] >= key[q[j]]

-----------------------------------------------------------------------------
(* The operations on lists keep the order. *)

LEMMA InsertAtDescends ==
  ASSUME NEW S, S \subseteq Pids, NEW q, QueueOf(q, S), NEW p \in Pids, p \notin S,
         NEW key \in [Pids -> Int], NEW k \in Int, Descends(q, key),
         NEW i \in 1..(Len(q) + 1),
         \A j \in 1..(i - 1) : key[q[j]] >= k,
         i <= Len(q) => key[q[i]] < k
  PROVE  Descends(InsertAt(q, i, p), [key EXCEPT ![p] = k])
PROOF
<1> DEFINE r == InsertAt(q, i, p)
           key2 == [key EXCEPT ![p] = k]
<1>1. q \in Seq(Pids) /\ Len(q) \in Nat /\ \A j \in 1..Len(q) : q[j] \in S
  BY SeqMonotonic DEF QueueOf
<1>2. /\ i \in 1..(Len(q) + 1)
      /\ \A j \in 1..(i - 1) : key[q[j]] >= k
      /\ i <= Len(q) => key[q[i]] < k
  OBVIOUS
<1>3. /\ Len(r) = Len(q) + 1
      /\ \A j \in 1..(Len(q) + 1) : r[j] = IF j < i THEN q[j] ELSE IF j = i THEN p ELSE q[j - 1]
  <2>1. q \in Seq(Pids) /\ p \in Pids /\ i \in 1..(Len(q) + 1)
    BY <1>1
  <2> QED BY ONLY <2>1, InsertAtElements
<1> HIDE DEF r
<1>4. key2[p] = k /\ \A x \in S : key2[x] = key[x] /\ key[x] \in Int
  OBVIOUS
<1> HIDE DEF key2
<1>5. \A j \in 1..Len(q) : j >= i => key[q[j]] <= k
  <2> TAKE j \in 1..Len(q)
  <2> HAVE j >= i
  <2>1. key[q[i]] >= key[q[j]] /\ i \in 1..Len(q)
    BY <1>1, <1>2, <1>4 DEF Descends
  <2>2. key[q[i]] \in Int /\ key[q[j]] \in Int
    BY <1>1, <1>4, <2>1
  <2> QED BY <1>2, <2>1, <2>2
<1>6. SUFFICES ASSUME NEW a \in 1..(Len(q) + 1), NEW b \in 1..(Len(q) + 1), a < b
               PROVE  key2[r[a]] >= key2[r[b]]
  BY <1>1, <1>3 DEF Descends, r, key2
<1>7. CASE b < i
  <2>1. a \in 1..Len(q) /\ b \in 1..Len(q) /\ r[a] = q[a] /\ r[b] = q[b]
    BY <1>1, <1>2, <1>3, <1>6, <1>7
  <2> QED BY <1>1, <1>4, <1>6, <2>1 DEF Descends
<1>8. CASE b = i
  <2>1. a \in 1..Len(q) /\ a \in 1..(i - 1) /\ r[a] = q[a] /\ r[b] = p
    BY <1>1, <1>2, <1>3, <1>6, <1>8
  <2> QED BY <1>1, <1>2, <1>4, <2>1
<1>9. CASE b > i /\ a = i
  <2>1. b - 1 \in 1..Len(q) /\ b - 1 >= i /\ r[b] = q[b - 1] /\ r[a] = p
    BY <1>1, <1>2, <1>3, <1>6, <1>9
  <2> QED BY <1>1, <1>4, <1>5, <2>1
<1>10. CASE b > i /\ a < i
  <2>1. /\ b - 1 \in 1..Len(q) /\ a \in 1..Len(q) /\ a < b - 1
        /\ r[b] = q[b - 1] /\ r[a] = q[a]
    BY <1>1, <1>2, <1>3, <1>6, <1>10
  <2> QED BY <1>1, <1>4, <2>1 DEF Descends
<1>11. CASE b > i /\ a > i
  <2>1. /\ b - 1 \in 1..Len(q) /\ a - 1 \in 1..Len(q) /\ a - 1 < b - 1
        /\ r[b] = q[b - 1] /\ r[a] = q[a - 1]
    BY <1>1, <1>2, <1>3, <1>6, <1>11
  <2> QED BY <1>1, <1>4, <2>1 DEF Descends
<1> QED BY <1>2, <1>6, <1>7, <1>8, <1>9, <1>10, <1>11

LEMMA InsertDescends ==
  ASSUME NEW S, S \subseteq Pids, NEW q, QueueOf(q, S), NEW p \in Pids, p \notin S,
         NEW key \in [Pids -> Int], NEW k \in Int, Descends(q, key)
  PROVE  Descends(Insert(q, key, p, k), KeyAfterInsert(key, p, k))
PROOF
<1>1. q \in Seq(Pids)
  BY SeqMonotonic DEF QueueOf
<1> QED BY <1>1, InsertPosInList, InsertAtDescends DEF Insert, KeyAfterInsert

LEMMA TailDescends ==
  ASSUME NEW S, NEW q, QueueOf(q, S), q # <<>>, NEW key, Descends(q, key)
  PROVE  /\ Descends(Tail(q), key)
         /\ \A p \in S : p # Head(q) => key[Head(q)] >= key[p]
PROOF
<1>1. q \in Seq(S) /\ Len(q) \in Nat /\ Len(q) > 0 /\ Head(q) = q[1]
  BY DEF QueueOf
<1>2. /\ Len(Tail(q)) = Len(q) - 1
      /\ \A j \in 1..(Len(q) - 1) : Tail(q)[j] = q[j + 1]
  BY <1>1
<1>3. Descends(Tail(q), key)
  BY <1>1, <1>2 DEF Descends
<1>4. ASSUME NEW p \in S, p # Head(q) PROVE key[Head(q)] >= key[p]
  <2>1. PICK j \in 1..Len(q) : q[j] = p
    BY DEF QueueOf
  <2>2. 1 \in 1..Len(q) /\ 1 < j
    BY <1>1, <1>4, <2>1
  <2> QED BY <1>1, <2>1, <2>2 DEF Descends
<1> QED BY <1>3, <1>4

LEMMA GetItemDescends ==
  ASSUME NEW S, NEW q, QueueOf(q, S), NEW p \in S, NEW key, Descends(q, key)
  PROVE  Descends(GetItem(q, p), key)
PROOF
<1> DEFINE i == Index(q, p)
           r == GetItem(q, p)
<1>1. q \in Seq(S) /\ Len(q) \in Nat /\ i \in 1..Len(q)
  BY IndexOfMember DEF QueueOf
<1> HIDE DEF i
<1>2. /\ Len(r) = Len(q) - 1
      /\ \A j \in 1..(Len(q) - 1) : r[j] = IF j < i THEN q[j] ELSE q[j + 1]
  BY <1>1, RemoveAtElements DEF GetItem, i
<1> HIDE DEF r
<1>3. SUFFICES ASSUME NEW a \in 1..(Len(q) - 1), NEW b \in 1..(Len(q) - 1), a < b
               PROVE  key[r[a]] >= key[r[b]]
  BY <1>1, <1>2 DEF Descends, r
<1>4. \E c, d \in 1..Len(q) : c < d /\ r[a] = q[c] /\ r[b] = q[d]
  <2>1. CASE b < i
    <3>1. a \in 1..Len(q) /\ b \in 1..Len(q) /\ r[a] = q[a] /\ r[b] = q[b]
      BY <1>1, <1>2, <1>3, <2>1
    <3> QED BY <1>3, <3>1
  <2>2. CASE b >= i /\ a < i
    <3>1. a \in 1..Len(q) /\ b + 1 \in 1..Len(q) /\ a < b + 1 /\ r[a] = q[a] /\ r[b] = q[b + 1]
      BY <1>1, <1>2, <1>3, <2>2
    <3> QED BY <3>1
  <2>3. CASE a >= i
    <3>1. /\ a + 1 \in 1..Len(q) /\ b + 1 \in 1..Len(q) /\ a + 1 < b + 1
          /\ r[a] = q[a + 1] /\ r[b] = q[b + 1]
      BY <1>1, <1>2, <1>3, <2>3
    <3> QED BY <3>1
  <2> QED BY <1>1, <1>3, <2>1, <2>2, <2>3
<1> QED BY <1>4 DEF Descends

(* A key that no process of the list has may change. *)
LEMMA OtherKeys ==
  ASSUME NEW S, NEW q, QueueOf(q, S), NEW key, NEW key2, Descends(q, key),
         \A p \in S : key2[p] = key[p]
  PROVE  Descends(q, key2)
PROOF
<1>1. \A j \in 1..Len(q) : q[j] \in S
  BY ElementOfSeq DEF QueueOf
<1> QED BY <1>1 DEF Descends

-----------------------------------------------------------------------------
(* The scheduler *)

(* No process of this instance calls chprio. *)
FixedPrios == "chprio" \notin Syscalls

(* A ready process has its priority for a key; chprio breaks this. *)
ReadyKeys(ps, key) == \A p \in Pids : ps[p] = "READY" => key[p] = prprio[p]
Tops(ps, cur) == \A p \in Pids : ps[p] = "READY" => prprio[cur] >= prprio[p]

Ordered(ps, rl, key) ==
  /\ QueueOf(rl, ReadySet(ps))
  /\ Descends(rl, key)
  /\ FixedPrios => ReadyKeys(ps, key)

(* The inductive invariant: under a deferral, the current process is on top
   as long as no reschedule has been attempted. *)
OrderInv ==
  /\ Descends(readylist, qkey)
  /\ FixedPrios =>
       /\ ReadyKeys(prstate, qkey)
       /\ Defer.ndefers = 0 \/ ~Defer.attempt => Tops(prstate, currpid)

(* The same of the next state, the priorities being what they were. *)
Rescheduled ==
  /\ Descends(readylist', qkey')
  /\ FixedPrios => ReadyKeys(prstate', qkey') /\ Tops(prstate', currpid')

OrderAfter ==
  /\ Descends(readylist', qkey')
  /\ FixedPrios =>
       /\ ReadyKeys(prstate', qkey')
       /\ Defer'.ndefers = 0 \/ ~Defer'.attempt => Tops(prstate', currpid')

LEMMA AfterIsInv ==
  ASSUME OrderAfter, UNCHANGED prprio
  PROVE  OrderInv'
PROOF BY DEF OrderAfter, OrderInv, ReadyKeys, Tops, Descends

(* A process that resched() takes off the head has the greatest key. *)
LEMMA SwitchOrder ==
  ASSUME NEW ps \in [Pids -> States], NEW rl, NEW key \in [Pids -> Int],
         Ordered(ps, rl, key),
         prprio \in [Pids -> Nat], currpid \in Pids,
         \A p \in Pids : ps[p] = "CURR" => p = currpid,
         ps[NULLPROC] \in {"CURR", "READY"},
         Switch(ps, rl, key)
  PROVE  Rescheduled
PROOF
<1> DEFINE yields == ps[currpid] = "CURR"
           rl2 == IF yields THEN Insert(rl, key, currpid, prprio[currpid]) ELSE rl
           ps2 == IF yields THEN [ps EXCEPT ![currpid] = "READY"] ELSE ps
           key2 == IF yields THEN KeyAfterInsert(key, currpid, prprio[currpid]) ELSE key
<1>1. /\ ReadySet(ps2) = IF yields THEN ReadySet(ps) \cup {currpid} ELSE ReadySet(ps)
      /\ \A p \in Pids : ps2[p] # "CURR"
      /\ ps2[NULLPROC] = "READY"
      /\ ps2 \in [Pids -> States]
  BY NullIsPid DEF ReadySet, States
<1>2. QueueOf(rl2, ReadySet(ps2)) /\ Descends(rl2, key2) /\ key2 \in [Pids -> Int]
  <2>1. CASE yields
    <3>1. currpid \notin ReadySet(ps) /\ ReadySet(ps) \subseteq Pids /\ prprio[currpid] \in Int
      BY <2>1 DEF ReadySet
    <3>2. /\ QueueOf(Insert(rl, key, currpid, prprio[currpid]), ReadySet(ps) \cup {currpid})
          /\ KeyAfterInsert(key, currpid, prprio[currpid]) \in [Pids -> Int]
      BY <3>1, InsertKeepsQueue DEF Ordered
    <3>3. Descends(Insert(rl, key, currpid, prprio[currpid]),
                   KeyAfterInsert(key, currpid, prprio[currpid]))
      BY <3>1, InsertDescends DEF Ordered
    <3> QED BY <2>1, <3>2, <3>3, <1>1
  <2>2. CASE ~yields
    BY <2>2, <1>1 DEF Ordered
  <2> QED BY <2>1, <2>2
<1>3. FixedPrios => ReadyKeys(ps2, key2)
  BY DEF Ordered, ReadyKeys, KeyAfterInsert
<1>4. /\ qkey' = key2 /\ currpid' = Head(rl2) /\ readylist' = Tail(rl2)
      /\ prstate' = [ps2 EXCEPT ![Head(rl2)] = "CURR"]
  BY DEF Switch
<1> HIDE DEF rl2, ps2, key2
<1>5. rl2 # <<>>
  <2>1. NULLPROC \in ReadySet(ps2)
    BY <1>1, NullIsPid DEF ReadySet
  <2> QED BY <1>2, <2>1, QueueEmpty
<1>6. /\ Head(rl2) \in ReadySet(ps2)
      /\ Descends(Tail(rl2), key2)
      /\ \A p \in ReadySet(ps2) : p # Head(rl2) => key2[Head(rl2)] >= key2[p]
  BY <1>2, <1>5, QueueTail, TailDescends
<1>7. /\ Head(rl2) \in Pids /\ ps2[Head(rl2)] = "READY"
      /\ \A p \in Pids : prstate'[p] = "READY" => ps2[p] = "READY" /\ p # Head(rl2)
  BY <1>1, <1>4, <1>6 DEF ReadySet
<1>8. FixedPrios => ReadyKeys(prstate', qkey')
  BY <1>3, <1>4, <1>7 DEF ReadyKeys
<1>9. FixedPrios => Tops(prstate', currpid')
  <2> SUFFICES ASSUME FixedPrios, NEW p \in Pids, prstate'[p] = "READY"
               PROVE  prprio[currpid'] >= prprio[p]
    BY DEF Tops
  <2>1. p \in ReadySet(ps2) /\ p # Head(rl2)
    BY <1>7 DEF ReadySet
  <2>2. key2[Head(rl2)] >= key2[p] /\ key2[p] = prprio[p] /\ key2[Head(rl2)] = prprio[Head(rl2)]
    BY <1>3, <1>6, <1>7, <2>1 DEF ReadyKeys
  <2> QED BY <1>4, <2>2
<1> QED BY <1>4, <1>6, <1>8, <1>9 DEF Rescheduled

LEMMA ReschedNowOrder ==
  ASSUME NEW ps \in [Pids -> States], NEW rl, NEW key \in [Pids -> Int], NEW pre,
         Ordered(ps, rl, key),
         prprio \in [Pids -> Nat], currpid \in Pids,
         \A p \in Pids : ps[p] = "CURR" => p = currpid,
         ps[NULLPROC] \in {"CURR", "READY"},
         ReschedNow(ps, rl, key, pre)
  PROVE  Rescheduled
PROOF
<1>1. CASE Keeps(ps, rl, key) /\ Stay(ps, rl, key, pre)
  <2>1. prstate' = ps /\ readylist' = rl /\ qkey' = key /\ currpid' = currpid
    BY <1>1 DEF Stay
  <2>2. ASSUME FixedPrios, NEW p \in Pids, ps[p] = "READY" PROVE prprio[currpid] >= prprio[p]
    <3>1. p \in ReadySet(ps) /\ QueueOf(rl, ReadySet(ps)) /\ Descends(rl, key)
      BY <2>2 DEF ReadySet, Ordered
    <3>2. rl # <<>>
      BY <3>1, QueueEmpty
    <3>3. Head(rl) \in ReadySet(ps) /\ (p # Head(rl) => key[Head(rl)] >= key[p])
      BY <3>1, <3>2, QueueTail, TailDescends
    <3>4. Head(rl) \in Pids /\ key[p] = prprio[p] /\ key[Head(rl)] \in Int /\ key[p] \in Int
      BY <2>2, <3>3 DEF ReadySet, Ordered, ReadyKeys
    <3>5. prprio[currpid] > key[Head(rl)]
      BY <1>1, <3>2 DEF Keeps, FirstKey
    <3>6. prprio[currpid] \in Int /\ prprio[p] \in Int
      OBVIOUS
    <3> QED BY <3>3, <3>4, <3>5, <3>6
  <2>3. FixedPrios => Tops(ps, currpid)
    BY <2>2 DEF Tops
  <2> QED BY <2>1, <2>3 DEF Ordered, Rescheduled
<1>2. CASE ~Keeps(ps, rl, key) /\ Switch(ps, rl, key)
  BY <1>2, SwitchOrder
<1> QED BY <1>1, <1>2 DEF ReschedNow

LEMMA ReschedOrder ==
  ASSUME NEW ps \in [Pids -> States], NEW rl, NEW key \in [Pids -> Int], NEW pre,
         Ordered(ps, rl, key),
         prprio \in [Pids -> Nat], currpid \in Pids,
         Defer \in [ndefers : Nat, attempt : BOOLEAN],
         \A p \in Pids : ps[p] = "CURR" => p = currpid,
         ps[NULLPROC] \in {"CURR", "READY"},
         Resched(ps, rl, key, pre)
  PROVE  OrderAfter
PROOF
<1>1. CASE /\ Defer.ndefers > 0
           /\ Defer' = [Defer EXCEPT !.attempt = TRUE]
           /\ Stay(ps, rl, key, pre)
  <2>1. Defer'.ndefers # 0 /\ Defer'.attempt
    BY <1>1
  <2> QED BY <1>1, <2>1 DEF Stay, Ordered, OrderAfter
<1>2. CASE ReschedNow(ps, rl, key, pre)
  <2>1. Rescheduled
    BY <1>2, ReschedNowOrder
  <2> QED BY <2>1 DEF Rescheduled, OrderAfter
<1> QED BY <1>1, <1>2 DEF Resched

(* A process is made ready, with keys that are new to no ready process. *)
LEMMA ReadyOrder ==
  ASSUME KernelInv, OrderInv, NEW pid \in Pids, NEW key \in [Pids -> Int],
         prstate[pid] \notin {"CURR", "READY"},
         \A p \in ReadySet(prstate) : key[p] = qkey[p],
         Ready(pid, key)
  PROVE  OrderAfter
PROOF
<1> DEFINE ps == [prstate EXCEPT ![pid] = "READY"]
           rl == Insert(readylist, key, pid, prprio[pid])
           key2 == KeyAfterInsert(key, pid, prprio[pid])
<1>1. /\ pid \notin ReadySet(prstate) /\ ReadySet(prstate) \subseteq Pids
      /\ prprio[pid] \in Int
  BY InvFacts DEF ReadySet
<1>2. QueueOf(readylist, ReadySet(prstate)) /\ Descends(readylist, key)
  BY InvFacts, OtherKeys DEF OrderInv
<1>3. QueueOf(rl, ReadySet(prstate) \cup {pid}) /\ key2 \in [Pids -> Int]
  BY <1>1, <1>2, InsertKeepsQueue
<1>4. Descends(rl, key2)
  BY <1>1, <1>2, InsertDescends
<1>5. ReadySet(ps) = ReadySet(prstate) \cup {pid} /\ ps \in [Pids -> States]
  BY InvFacts DEF ReadySet, States
<1>6. FixedPrios => ReadyKeys(ps, key2)
  BY InvFacts DEF OrderInv, ReadyKeys, ReadySet, KeyAfterInsert
<1>7. /\ \A p \in Pids : ps[p] = "CURR" => p = currpid
      /\ ps[NULLPROC] \in {"CURR", "READY"}
  BY InvFacts, NullIsPid
<1>8. Resched(ps, rl, key2, preempt)
  BY DEF Ready
<1> HIDE DEF ps, rl, key2
<1>9. Ordered(ps, rl, key2)
  BY <1>3, <1>4, <1>5, <1>6 DEF Ordered
<1> QED BY <1>3, <1>5, <1>7, <1>8, <1>9, InvFacts, ReschedOrder

LEMMA BlockOrder ==
  ASSUME KernelInv, OrderInv, NEW st \in States \ {"CURR", "READY"}, NEW key \in [Pids -> Int],
         currpid # NULLPROC,
         \A p \in ReadySet(prstate) : key[p] = qkey[p],
         Block(st, key)
  PROVE  OrderAfter
PROOF
<1> DEFINE ps == [prstate EXCEPT ![currpid] = st]
<1>1. /\ ReadySet(ps) = ReadySet(prstate) /\ ps \in [Pids -> States]
      /\ \A p \in Pids : ps[p] = "CURR" => p = currpid
      /\ ps[NULLPROC] \in {"CURR", "READY"}
  BY InvFacts, NullIsPid DEF ReadySet, States
<1>2. QueueOf(readylist, ReadySet(ps)) /\ Descends(readylist, key)
  <2>1. QueueOf(readylist, ReadySet(prstate)) /\ Descends(readylist, key)
    BY InvFacts, OtherKeys DEF OrderInv
  <2> QED BY <1>1, <2>1
<1>3. FixedPrios => ReadyKeys(ps, key)
  BY InvFacts DEF OrderInv, ReadyKeys, ReadySet
<1>4. Resched(ps, readylist, key, preempt)
  BY DEF Block
<1> HIDE DEF ps
<1>5. Ordered(ps, readylist, key)
  BY <1>2, <1>3 DEF Ordered
<1> QED BY <1>1, <1>4, <1>5, InvFacts, ReschedOrder

LEMMA YieldOrder ==
  ASSUME KernelInv, OrderInv, NEW key \in [Pids -> Int], NEW pre,
         \A p \in ReadySet(prstate) : key[p] = qkey[p],
         Resched(prstate, readylist, key, pre)
  PROVE  OrderAfter
PROOF
<1>1. QueueOf(readylist, ReadySet(prstate)) /\ Descends(readylist, key)
  BY InvFacts, OtherKeys DEF OrderInv
<1>2. FixedPrios => ReadyKeys(prstate, key)
  BY DEF OrderInv, ReadyKeys, ReadySet
<1>3. Ordered(prstate, readylist, key)
  BY <1>1, <1>2 DEF Ordered
<1> QED BY <1>3, InvFacts, ReschedOrder

LEMMA DeferStopOrder ==
  ASSUME KernelInv, OrderInv, Defer.ndefers = 1, DeferStop
  PROVE  OrderAfter
PROOF
<1>1. CASE Defer.attempt
  <2>1. ReschedNow(prstate, readylist, qkey, preempt)
    BY <1>1 DEF DeferStop
  <2>2. Ordered(prstate, readylist, qkey)
    BY InvFacts DEF Ordered, OrderInv
  <2>3. Rescheduled
    BY <2>1, <2>2, InvFacts, ReschedNowOrder
  <2> QED BY <2>3 DEF Rescheduled, OrderAfter
<1>2. CASE ~Defer.attempt
  <2>1. UNCHANGED <<prstate, currpid, readylist, qkey>>
    BY <1>2 DEF DeferStop
  <2> QED BY <1>2, <2>1 DEF OrderInv, OrderAfter
<1> QED BY <1>1, <1>2

-----------------------------------------------------------------------------
(* The steps *)

(* A step that leaves the ready processes and their keys alone. *)
LEMMA KeepOrder ==
  ASSUME KernelInv, OrderInv, UNCHANGED <<readylist, currpid>>,
         UNCHANGED Defer \/ (Defer.ndefers = 0 /\ DeferStart),
         \A p \in Pids : prstate'[p] = "READY" <=> prstate[p] = "READY",
         \A p \in ReadySet(prstate) : qkey'[p] = qkey[p],
         FixedPrios => \A p \in ReadySet(prstate) \cup {currpid} : prprio'[p] = prprio[p]
  PROVE  OrderInv'
PROOF
<1>1. Descends(readylist', qkey')
  <2>1. Descends(readylist, qkey')
    BY InvFacts, OtherKeys DEF OrderInv
  <2> QED BY <2>1
<1>2. Defer'.ndefers = 0 \/ ~Defer'.attempt => Defer.ndefers = 0 \/ ~Defer.attempt
  OBVIOUS
<1>3. ASSUME FixedPrios
      PROVE  /\ \A p \in Pids : prstate'[p] = "READY" => qkey'[p] = prprio'[p]
             /\ Defer'.ndefers = 0 \/ ~Defer'.attempt =>
                  \A p \in Pids : prstate'[p] = "READY" => prprio'[currpid'] >= prprio'[p]
  BY <1>2, <1>3 DEF OrderInv, ReadyKeys, Tops, ReadySet
<1> QED BY <1>1, <1>3 DEF OrderInv, ReadyKeys, Tops, Descends

(* A ready process is taken off its list. *)
LEMMA RemoveOrder ==
  ASSUME KernelInv, OrderInv, NEW pid \in ReadySet(prstate), NEW st, st # "READY",
         prstate' = [prstate EXCEPT ![pid] = st],
         readylist' = GetItem(readylist, pid),
         UNCHANGED <<currpid, qkey, Defer, prprio>>
  PROVE  OrderInv'
PROOF
<1>1. Descends(readylist', qkey')
  BY InvFacts, GetItemDescends DEF OrderInv
<1>2. \A p \in Pids : prstate'[p] = "READY" => prstate[p] = "READY"
  BY InvFacts DEF ReadySet
<1>3. FixedPrios => ReadyKeys(prstate', qkey')
  BY <1>2 DEF OrderInv, ReadyKeys
<1>4. FixedPrios => (Defer.ndefers = 0 \/ ~Defer.attempt => Tops(prstate', currpid))
  BY <1>2 DEF OrderInv, Tops
<1>5. OrderAfter
  BY <1>1, <1>3, <1>4 DEF OrderAfter
<1> QED BY <1>5, AfterIsInv

(* unsleep hands the delay on to a process that sleeps. *)
LEMMA UnsleepOthers ==
  ASSUME KernelInv, NEW p \in SleepSet(prstate)
  PROVE  \A x \in ReadySet(prstate) : KeyAfterUnsleep(sleepq, qkey, p)[x] = qkey[x]
PROOF
<1> DEFINE i == Index(sleepq, p)
<1>1. i \in 1..Len(sleepq) /\ sleepq \in Seq(SleepSet(prstate))
  BY InvFacts, IndexOfMember DEF QueueOf
<1>2. i < Len(sleepq) => i + 1 \in 1..Len(sleepq)
  BY <1>1
<1>3. i < Len(sleepq) => sleepq[i + 1] \in SleepSet(prstate)
  BY <1>1, <1>2, ElementOfSeq
<1>4. i < Len(sleepq) => sleepq[i + 1] \notin ReadySet(prstate)
  BY <1>3 DEF SleepSet, ReadySet
<1> HIDE DEF i
<1>5. KeyAfterUnsleep(sleepq, qkey, p) =
        IF i < Len(sleepq) THEN [qkey EXCEPT ![sleepq[i + 1]] = @ + qkey[p]] ELSE qkey
  BY DEF KeyAfterUnsleep, i
<1>6. qkey \in [Pids -> Int] /\ ReadySet(prstate) \subseteq Pids
  BY InvFacts DEF ReadySet
<1> QED BY <1>4, <1>5, <1>6

LEMMA DeliverOrder ==
  ASSUME KernelInv, OrderInv, NEW dst \in Pids, NEW msg, Deliver(dst, msg), UNCHANGED prprio
  PROVE  OrderInv'
PROOF
<1>1. CASE UNCHANGED schedVars
  BY <1>1, KeepOrder DEF schedVars
<1>2. CASE prstate[dst] = "RECV" /\ Ready(dst, qkey)
  BY <1>2, InvFacts, ReadyOrder, AfterIsInv
<1>3. CASE prstate[dst] = "RECTIM" /\ Ready(dst, KeyAfterUnsleep(sleepq, qkey, dst))
  <2>1. dst \in SleepSet(prstate)
    BY <1>3 DEF SleepSet
  <2> QED BY <1>3, <2>1, UnsleepKeys, UnsleepOthers, ReadyOrder, AfterIsInv
<1> QED BY <1>1, <1>2, <1>3 DEF Deliver

(* insertd changes the keys of the caller and of a process that sleeps. *)
LEMMA BlockForOrder ==
  ASSUME KernelInv, OrderInv, NEW st \in {"SLEEP", "RECTIM"}, NEW d \in Nat,
         currpid # NULLPROC, BlockFor(st, d), UNCHANGED prprio
  PROVE  OrderInv'
PROOF
<1>1. PICK i \in 1..(Len(sleepq) + 1), k \in 0..d :
        Block(st, KeyAfterInsertd(sleepq, qkey, currpid, i, k))
  BY DEF BlockFor
<1> DEFINE key == KeyAfterInsertd(sleepq, qkey, currpid, i, k)
<1>2. [qkey EXCEPT ![currpid] = k] \in [Pids -> Int] /\ st \in States \ {"CURR", "READY"}
  BY InvFacts DEF States
<1>3. i <= Len(sleepq) => sleepq[i] \in SleepSet(prstate)
  BY InvFacts, SemTypes, ElementOfSeq DEF QueueOf
<1>4. i <= Len(sleepq) => sleepq[i] \in Pids /\ sleepq[i] \notin ReadySet(prstate)
  BY <1>3 DEF SleepSet, ReadySet
<1>5. currpid \notin ReadySet(prstate) /\ ReadySet(prstate) \subseteq Pids
  BY InvFacts DEF ReadySet
<1>6. key \in [Pids -> Int]
  BY <1>2, <1>4 DEF KeyAfterInsertd
<1>7. \A p \in ReadySet(prstate) : key[p] = qkey[p]
  BY <1>2, <1>4, <1>5, InvFacts DEF KeyAfterInsertd
<1> HIDE DEF key
<1>8. OrderAfter
  BY <1>1, <1>2, <1>6, <1>7, BlockOrder DEF key
<1> QED BY <1>8, AfterIsInv

LEMMA TimeSliceOrder ==
  ASSUME KernelInv, OrderInv, NEW key \in [Pids -> Int],
         \A p \in ReadySet(prstate) : key[p] = qkey[p],
         TimeSlice(key), UNCHANGED prprio
  PROVE  OrderInv'
PROOF
<1>1. CASE Resched(prstate, readylist, key, QUANTUM)
  BY <1>1, YieldOrder, AfterIsInv
<1>2. CASE Stay(prstate, readylist, key, preempt - 1) /\ UNCHANGED Defer
  BY <1>2, KeepOrder DEF Stay
<1> QED BY <1>1, <1>2 DEF TimeSlice

LEMMA ClockTickOrder ==
  ASSUME KernelInv, OrderInv, ClockTick
  PROVE  OrderInv'
PROOF
<1> DEFINE ticked == [qkey EXCEPT ![Head(sleepq)] = @ - 1]
<1>1. UserMode /\ UNCHANGED prprio
  BY DEF ClockTick, procVars
<1>2. ASSUME sleepq # <<>>
      PROVE  ticked \in [Pids -> Int] /\ \A p \in ReadySet(prstate) : ticked[p] = qkey[p]
  <2>1. Head(sleepq) \in SleepSet(prstate)
    BY <1>2, InvFacts, QueueTail
  <2>2. Head(sleepq) \in Pids /\ Head(sleepq) \notin ReadySet(prstate)
    BY <2>1 DEF SleepSet, ReadySet
  <2>3. ReadySet(prstate) \subseteq Pids
    BY DEF ReadySet
  <2> QED BY <2>2, <2>3, InvFacts
<1> HIDE DEF ticked
<1>3. CASE TimeSlice(qkey)
  BY <1>1, <1>3, InvFacts, TimeSliceOrder
<1>4. CASE sleepq # <<>> /\ TimeSlice(ticked)
  BY <1>1, <1>2, <1>4, TimeSliceOrder
<1>5. CASE /\ sleepq # <<>> /\ qkey' = ticked /\ DeferStart
           /\ UNCHANGED <<prstate, currpid, readylist>>
  BY <1>1, <1>2, <1>5, UserFacts, KeepOrder
<1> QED BY <1>3, <1>4, <1>5 DEF ClockTick, ticked

LEMMA PopOrder ==
  ASSUME KernelInv, OrderInv, NEW s \in Sems, squeue[s] # <<>>,
         Ready(Head(squeue[s]), qkey), UNCHANGED prprio
  PROVE  OrderInv'
PROOF
<1>1. Head(squeue[s]) \in WaitSet(prstate, prsem, s)
  BY InvFacts, QueueTail
<1>2. Head(squeue[s]) \in Pids /\ prstate[Head(squeue[s])] = "WAIT"
  BY <1>1 DEF WaitSet
<1> QED BY <1>2, InvFacts, ReadyOrder, AfterIsInv

LEMMA ReleaseOrder ==
  ASSUME KernelInv, OrderInv, NEW s \in Sems, Release(s), cont[currpid].op # "semreset",
         UNCHANGED prprio
  PROVE  OrderInv'
PROOF
<1>1. CASE scount[s] < 0 /\ Ready(Head(squeue[s]), qkey)
  <2>1. Len(squeue[s]) = -scount[s] /\ scount[s] \in Int /\ squeue[s] \in Seq(Pids)
    BY <1>1, SemTypes DEF KernelInv, SemaphoreCount
  <2>2. squeue[s] # <<>>
    BY <1>1, <2>1
  <2> QED BY <1>1, <2>2, PopOrder
<1>2. CASE UNCHANGED schedVars
  BY <1>2, KeepOrder DEF schedVars
<1> QED BY <1>1, <1>2 DEF Release

(* The calls of Call that are about processes and messages. *)
LEMMA ProcessCallsOrder ==
  ASSUME KernelInv, OrderInv,
         \/ \E pid \in Pids, prio \in Prios : Create(pid, prio) \/ Chprio(pid, prio)
         \/ \E pid \in Pids : \/ CreateNoStack(pid) \/ Resume(pid)
                              \/ SuspendReady(pid) \/ Kill(pid)
         \/ \E pid \in Pids, msg \in Msgs : Send(pid, msg)
         \/ \E d \in Delays : Sleepms(d)
         \/ \E w \in Waits : RecvtimeBlock(w)
         \/ SuspendSelf \/ Yield \/ ReceiveNow \/ ReceiveBlock \/ RecvNoWait
  PROVE  OrderInv'
PROOF
<1>1. ASSUME NEW pid \in Pids, NEW prio \in Prios, Create(pid, prio) PROVE OrderInv'
  <2>1. /\ prstate[pid] = "FREE" /\ prstate' = [prstate EXCEPT ![pid] = "SUSP"]
        /\ prprio' = [prprio EXCEPT ![pid] = prio]
        /\ UNCHANGED <<readylist, currpid, Defer, qkey>>
    BY <1>1 DEF Create, NextFree, FreePids
  <2>2. pid \notin ReadySet(prstate) \cup {currpid}
    BY <2>1, InvFacts DEF ReadySet
  <2>3. /\ \A p \in Pids : prstate'[p] = "READY" <=> prstate[p] = "READY"
        /\ \A p \in ReadySet(prstate) \cup {currpid} : prprio'[p] = prprio[p]
    BY <2>1, <2>2, InvFacts DEF ReadySet
  <2> QED BY <2>1, <2>3, KeepOrder
<1>2. ASSUME NEW pid \in Pids, NEW prio \in Prios, Chprio(pid, prio) PROVE OrderInv'
  <2>1. ~FixedPrios
    BY <1>2 DEF Chprio, Calls, FixedPrios
  <2> QED BY <1>2, <2>1, KeepOrder DEF Chprio, schedVars
<1>3. ASSUME \/ \E pid \in Pids : CreateNoStack(pid)
             \/ ReceiveNow \/ RecvNoWait
      PROVE  OrderInv'
  <2>1. UNCHANGED <<schedVars, prprio>>
    BY <1>3 DEF CreateNoStack, ReceiveNow, RecvNoWait, procVars
  <2> QED BY <2>1, KeepOrder DEF schedVars
<1>4. ASSUME NEW pid \in Pids, Resume(pid) PROVE OrderInv'
  <2>1. prstate[pid] = "SUSP" /\ Ready(pid, qkey) /\ UNCHANGED prprio
    BY <1>4 DEF Resume, procVars
  <2> QED BY <2>1, InvFacts, ReadyOrder, AfterIsInv
<1>5. ASSUME NEW pid \in Pids, SuspendReady(pid) PROVE OrderInv'
  <2>1. pid \in ReadySet(prstate)
    BY <1>5 DEF SuspendReady, ReadySet
  <2> QED BY <1>5, <2>1, RemoveOrder DEF SuspendReady, procVars
<1>6. ASSUME NEW pid \in Pids, Kill(pid) PROVE OrderInv'
  <2>1. prparent[pid] \in Pids /\ UNCHANGED prprio
    BY <1>6 DEF KernelInv, TypeOK, Kill
  <2>2. CASE UNCHANGED schedVars
    BY <2>1, <2>2, KeepOrder DEF schedVars
  <2>3. CASE Deliver(prparent[pid], pid)
    BY <2>1, <2>3, DeliverOrder
  <2> QED BY <1>6, <2>2, <2>3 DEF Kill
<1>7. ASSUME NEW pid \in Pids, NEW msg \in Msgs, Send(pid, msg) PROVE OrderInv'
  BY <1>7, DeliverOrder DEF Send, procVars
<1>8. ASSUME NEW d \in Delays, Sleepms(d) PROVE OrderInv'
  <2>1. d \in Nat /\ currpid # NULLPROC /\ BlockFor("SLEEP", d) /\ UNCHANGED prprio
    BY <1>8, CallArguments DEF Sleepms, Calls, procVars
  <2> QED BY <2>1, BlockForOrder
<1>9. ASSUME NEW w \in Waits, RecvtimeBlock(w) PROVE OrderInv'
  <2>1. w \in Nat /\ currpid # NULLPROC /\ BlockFor("RECTIM", w) /\ UNCHANGED prprio
    BY <1>9, CallArguments DEF RecvtimeBlock, Calls, procVars
  <2> QED BY <2>1, BlockForOrder
<1>10. ASSUME SuspendSelf \/ ReceiveBlock PROVE OrderInv'
  <2>1. currpid # NULLPROC /\ UNCHANGED prprio
    BY <1>10 DEF SuspendSelf, ReceiveBlock, Calls, procVars
  <2>2. \E st \in States \ {"CURR", "READY"} : Block(st, qkey)
    BY <1>10 DEF SuspendSelf, ReceiveBlock, States
  <2> QED BY <2>1, <2>2, InvFacts, BlockOrder, AfterIsInv
<1>11. ASSUME Yield PROVE OrderInv'
  BY <1>11, InvFacts, YieldOrder, AfterIsInv DEF Yield, procVars
<1> QED BY <1>1, <1>2, <1>3, <1>4, <1>5, <1>6, <1>7, <1>8, <1>9, <1>10, <1>11

LEMMA SemaphoreCallsOrder ==
  ASSUME KernelInv, OrderInv,
         \/ \E s \in Sems : Wait(s) \/ Signal(s) \/ Semdelete(s)
         \/ \E s \in Sems, n \in Counts :
              Semcreate(s, n) \/ Signaln(s, n) \/ Semreset(s, n)
         \/ SignalnStep \/ SemdeleteStep \/ SemresetStep
  PROVE  OrderInv'
PROOF
<1>1. UNCHANGED prprio
  BY DEF Wait, Signal, Semdelete, Semcreate, Signaln, Semreset, SignalnStep, SemdeleteStep,
         SemresetStep, procVars
<1>2. ASSUME NEW s \in Sems, Wait(s) PROVE OrderInv'
  <2>1. currpid # NULLPROC
    BY <1>2 DEF Wait, Calls
  <2>2. CASE Block("WAIT", qkey)
    <3>1. "WAIT" \in States \ {"CURR", "READY"}
      BY DEF States
    <3> QED BY <1>1, <2>1, <2>2, <3>1, InvFacts, BlockOrder, AfterIsInv
  <2>3. CASE UNCHANGED schedVars
    BY <1>1, <2>3, KeepOrder DEF schedVars
  <2> QED BY <1>2, <2>2, <2>3 DEF Wait
<1>3. ASSUME NEW s \in Sems, Signal(s) PROVE OrderInv'
  <2>1. cont[currpid].op # "semreset"
    BY <1>3 DEF Signal, Calls, UserMode
  <2> QED BY <1>1, <1>3, <2>1, ReleaseOrder DEF Signal
<1>4. ASSUME NEW s \in Sems, NEW n \in Counts, Semcreate(s, n) PROVE OrderInv'
  BY <1>1, <1>4, KeepOrder DEF Semcreate, schedVars
<1>5. ASSUME NEW s \in Sems,
             Semdelete(s) \/ \E n \in Counts : Signaln(s, n) \/ Semreset(s, n)
      PROVE  OrderInv'
  <2>1. UserMode /\ DeferStart /\ UNCHANGED <<prstate, currpid, readylist, qkey>>
    BY <1>5 DEF Semdelete, Signaln, Semreset, Calls
  <2> QED BY <1>1, <2>1, UserFacts, KeepOrder
<1>6. cont[currpid].op \in SemOps => cont[currpid].id \in Sems
  BY InvFacts DEF KernelInv, Targets
<1>7. ASSUME SignalnStep \/ SemdeleteStep PROVE OrderInv'
  <2>1. /\ Release(cont[currpid].id) /\ cont[currpid].id \in Sems
        /\ cont[currpid].op # "semreset"
    BY <1>6, <1>7 DEF SignalnStep, SemdeleteStep, Continues, SemOps
  <2> QED BY <1>1, <2>1, ReleaseOrder
<1>8. ASSUME SemresetStep PROVE OrderInv'
  <2>1. /\ cont[currpid].id \in Sems /\ squeue[cont[currpid].id] # <<>>
        /\ Ready(Head(squeue[cont[currpid].id]), qkey)
    BY <1>6, <1>8 DEF SemresetStep, Continues, SemOps
  <2> QED BY <1>1, <2>1, PopOrder
<1> QED BY <1>2, <1>3, <1>4, <1>5, <1>7, <1>8

LEMMA KillRestOrder ==
  ASSUME KernelInv, OrderInv, KillRest
  PROVE  OrderInv'
PROOF
<1> DEFINE pid == cont[currpid].id
           freed == [prstate EXCEPT ![pid] = "FREE"]
<1>1. cont[currpid].op = "kill" /\ UNCHANGED prprio
  BY DEF KillRest, Continues, procVars
<1>2. pid \in Pids \ {NULLPROC}
  BY <1>1, InvFacts DEF KernelInv, Targets
<1>3. /\ freed \in [Pids -> States] /\ freed[pid] = "FREE"
      /\ \A p \in Pids \ {pid} : freed[p] = prstate[p]
      /\ freed[NULLPROC] \in {"CURR", "READY"}
      /\ \A p \in Pids : freed[p] = "CURR" => p = currpid
  BY <1>2, InvFacts, NullIsPid DEF States
<1>4. \/ prstate[pid] = "CURR" /\ Resched(freed, readylist, qkey, preempt)
      \/ /\ prstate[pid] \in {"SLEEP", "RECTIM"}
         /\ prstate' = freed /\ UNCHANGED <<currpid, readylist, Defer>>
         /\ qkey' = KeyAfterUnsleep(sleepq, qkey, pid)
      \/ /\ prstate[pid] = "READY"
         /\ prstate' = freed /\ readylist' = GetItem(readylist, pid)
         /\ UNCHANGED <<currpid, qkey, Defer>>
      \/ /\ prstate[pid] \notin {"CURR", "READY"}
         /\ prstate' = freed /\ UNCHANGED <<currpid, readylist, qkey, Defer>>
  BY DEF KillRest
<1>5. freed = [prstate EXCEPT ![pid] = "FREE"]
  OBVIOUS
<1> HIDE DEF freed, pid
<1>6. CASE prstate[pid] = "CURR" /\ Resched(freed, readylist, qkey, preempt)
  <2>1. ReadySet(freed) = ReadySet(prstate)
    BY <1>2, <1>3, <1>6, InvFacts DEF ReadySet
  <2>2. FixedPrios => ReadyKeys(freed, qkey)
    BY <1>3 DEF OrderInv, ReadyKeys
  <2>3. Ordered(freed, readylist, qkey)
    BY <2>1, <2>2, InvFacts DEF Ordered, OrderInv
  <2> QED BY <1>1, <1>3, <1>6, <2>3, InvFacts, ReschedOrder, AfterIsInv
<1>7. ASSUME prstate[pid] # "READY", prstate' = freed
      PROVE  \A p \in Pids : prstate'[p] = "READY" <=> prstate[p] = "READY"
  BY <1>2, <1>3, <1>7
<1>8. CASE /\ prstate[pid] \in {"SLEEP", "RECTIM"}
           /\ prstate' = freed /\ UNCHANGED <<currpid, readylist, Defer>>
           /\ qkey' = KeyAfterUnsleep(sleepq, qkey, pid)
  <2>1. pid \in SleepSet(prstate)
    BY <1>2, <1>8 DEF SleepSet
  <2>2. \A p \in ReadySet(prstate) : qkey'[p] = qkey[p]
    BY <1>8, <2>1, UnsleepOthers
  <2> QED BY <1>1, <1>7, <1>8, <2>2, KeepOrder
<1>9. CASE /\ prstate[pid] = "READY"
           /\ prstate' = freed /\ readylist' = GetItem(readylist, pid)
           /\ UNCHANGED <<currpid, qkey, Defer>>
  <2>1. pid \in ReadySet(prstate)
    BY <1>2, <1>9 DEF ReadySet
  <2> QED BY <1>1, <1>5, <1>9, <2>1, RemoveOrder
<1>10. CASE /\ prstate[pid] \notin {"CURR", "READY"}
            /\ prstate' = freed /\ UNCHANGED <<currpid, readylist, qkey, Defer>>
  BY <1>1, <1>7, <1>10, KeepOrder
<1> QED BY <1>4, <1>6, <1>8, <1>9, <1>10

LEMMA OrderStep ==
  ASSUME KernelInv, OrderInv, [Next]_vars
  PROVE  OrderInv'
PROOF
<1>1. CASE Call
  BY <1>1, ProcessCallsOrder, SemaphoreCallsOrder DEF Call
<1>2. CASE Kernel
  <2>1. CASE ReceiveRest
    BY <2>1, KeepOrder DEF ReceiveRest, schedVars, procVars
  <2>2. CASE TickRest
    BY <2>2, InvFacts, TimeSliceOrder DEF TickRest, procVars
  <2>3. CASE WakeupStep
    <3>1. sleepq # <<>> /\ Ready(Head(sleepq), qkey) /\ UNCHANGED prprio
      BY <2>3 DEF WakeupStep, Due, procVars
    <3>2. Head(sleepq) \in SleepSet(prstate)
      BY <3>1, InvFacts, QueueTail
    <3>3. Head(sleepq) \in Pids /\ prstate[Head(sleepq)] \notin {"CURR", "READY"}
      BY <3>2 DEF SleepSet
    <3> QED BY <3>1, <3>3, InvFacts, ReadyOrder, AfterIsInv
  <2>4. CASE WakeupDone \/ SignalnDone \/ SemdeleteDone \/ SemresetDone
    <3>1. cont[currpid].op \in LoopOps /\ DeferStop /\ UNCHANGED prprio
      BY <2>4 DEF WakeupDone, SignalnDone, SemdeleteDone, SemresetDone, Continues, LoopOps,
                  procVars
    <3> QED BY <3>1, InLoop, DeferStopOrder, AfterIsInv
  <2> QED BY <1>2, <2>1, <2>2, <2>3, <2>4, KillRestOrder, SemaphoreCallsOrder DEF Kernel
<1>3. CASE ClockTick
  BY <1>3, ClockTickOrder
<1>4. CASE Halted \/ UNCHANGED vars
  BY <1>4, KeepOrder DEF Halted, vars, schedVars, procVars
<1> QED BY <1>1, <1>2, <1>3, <1>4 DEF Next

LEMMA OrderInit ==
  ASSUME Init
  PROVE  OrderInv
PROOF
<1>1. 0 \in Pids /\ 1 \in Pids /\ NULLPROC = 0 /\ InitPrio \in Nat
  BY TableSizes, PrioRange DEF Pids, NULLPROC
<1>2. Descends(readylist, qkey)
  BY DEF Init, Descends
<1>3. ReadyKeys(prstate, qkey) /\ Tops(prstate, currpid)
  BY <1>1 DEF Init, ReadyKeys, Tops
<1> QED BY <1>2, <1>3 DEF OrderInv

LEMMA OrderAlways == Spec => []OrderInv
PROOF
<1>1. Init => OrderInv
  BY OrderInit
<1>2. KernelInv /\ OrderInv /\ [Next]_vars => OrderInv'
  BY OrderStep
<1> QED BY <1>1, <1>2, KernelInvariant, PTL DEF Spec

(* The ready list descends by key, also while chprio changes priorities, and
   while delays, in the same field of the nodes, are changed on the list of
   the sleepers. *)
THEOREM ReadySortedAlways == Spec => []ReadySorted
PROOF
<1>1. OrderInv => ReadySorted
  BY DEF OrderInv, Descends, ReadySorted
<1> QED BY <1>1, OrderAlways, PTL

(* As long as no process changes a priority, the processor belongs to a ready
   process of the highest priority whenever rescheduling is not deferred: no
   wake-up, in a loop or out of one, is forgotten by the scheduler. *)
THEOREM HighestPriorityRunsAlways ==
  ASSUME "chprio" \notin Syscalls
  PROVE  Spec => []HighestPriorityRuns
PROOF
<1>1. OrderInv => HighestPriorityRuns
  BY DEF OrderInv, FixedPrios, Tops, HighestPriorityRuns
<1> QED BY <1>1, OrderAlways, PTL

-----------------------------------------------------------------------------
(* The queues of the semaphores *)

InQueue(q, p) == \E i \in 1..Len(q) : q[i] = p

(* The ways a queue of a semaphore changes: the first process is released, the
   caller comes last, or a process is killed. *)
QueueStep(s) ==
  LET q == squeue[s] IN
  \/ squeue'[s] = q
  \/ q # <<>> /\ squeue'[s] = Tail(q)
  \/ prstate[currpid] = "CURR" /\ squeue'[s] = Enqueue(q, currpid)
  \/ \E p \in Pids : /\ prstate[p] = "WAIT" /\ prsem[p] = s /\ prstate'[p] = "FREE"
                     /\ squeue'[s] = GetItem(q, p)

LEMMA ReleaseQueues ==
  ASSUME KernelInv, NEW t \in Sems, Release(t), cont[currpid].op # "semreset", NEW s \in Sems
  PROVE  QueueStep(s)
PROOF
<1>1. CASE scount[t] < 0 /\ squeue' = [squeue EXCEPT ![t] = Tail(@)]
  <2>1. Len(squeue[t]) = -scount[t] /\ scount[t] \in Int /\ squeue[t] \in Seq(Pids)
    BY <1>1, SemTypes DEF KernelInv, SemaphoreCount
  <2>2. squeue[t] # <<>>
    BY <1>1, <2>1
  <2> QED BY <1>1, <2>2, SemTypes DEF QueueStep
<1>2. CASE UNCHANGED squeue
  BY <1>2 DEF QueueStep
<1> QED BY <1>1, <1>2 DEF Release

LEMMA QueueSteps ==
  ASSUME KernelInv, [Next]_vars, NEW s \in Sems
  PROVE  QueueStep(s)
PROOF
<1>1. ASSUME UNCHANGED squeue PROVE QueueStep(s)
  BY <1>1 DEF QueueStep
<1>2. cont[currpid].op \in SemOps => cont[currpid].id \in Sems
  BY InvFacts DEF KernelInv, Targets
<1>3. CASE Call
  <2>1. ASSUME NEW t \in Sems, Wait(t) PROVE QueueStep(s)
    BY <1>1, <2>1, InvFacts, SemTypes DEF Wait, QueueStep
  <2>2. ASSUME NEW t \in Sems, Signal(t) PROVE QueueStep(s)
    BY <2>2, ReleaseQueues DEF Signal, Calls, UserMode
  <2>3. \/ UNCHANGED squeue
        \/ \E t \in Sems : Wait(t) \/ Signal(t)
    BY <1>3 DEF Call, Create, Chprio, CreateNoStack, Resume, SuspendReady, Kill, Send, Sleepms,
                RecvtimeBlock, Semdelete, Semcreate, Signaln, Semreset, SuspendSelf, Yield,
                ReceiveNow, ReceiveBlock, RecvNoWait, semVars
  <2> QED BY <1>1, <2>1, <2>2, <2>3
<1>4. CASE Kernel
  <2>1. CASE SignalnStep \/ SemdeleteStep
    BY <1>2, <2>1, ReleaseQueues DEF SignalnStep, SemdeleteStep, Continues, SemOps
  <2>2. CASE SemresetStep
    BY <1>2, <2>2, SemTypes DEF SemresetStep, Continues, SemOps, QueueStep
  <2>3. CASE KillRest
    <3>1. CASE UNCHANGED squeue
      BY <1>1, <3>1
    <3>2. CASE ~ UNCHANGED squeue
      <4> DEFINE pid == cont[currpid].id
      <4>1. /\ cont[currpid].op = "kill" /\ prstate' = [prstate EXCEPT ![pid] = "FREE"]
            /\ prstate[pid] = "WAIT"
            /\ squeue' = [squeue EXCEPT ![prsem[pid]] = GetItem(@, pid)]
        BY <2>3, <3>2 DEF KillRest, Continues, Leave
      <4>2. pid \in Pids /\ prsem[pid] \in Sems
        BY <4>1, InvFacts DEF KernelInv, Targets
      <4>3. prstate'[pid] = "FREE"
        BY <4>1, <4>2, InvFacts
      <4> HIDE DEF pid
      <4> QED BY <4>1, <4>2, <4>3, SemTypes DEF QueueStep
    <3> QED BY <3>1, <3>2
  <2>4. CASE ReceiveRest \/ TickRest \/ WakeupStep \/ WakeupDone \/ SignalnDone
             \/ SemdeleteDone \/ SemresetDone
    BY <1>1, <2>4 DEF ReceiveRest, TickRest, WakeupStep, WakeupDone, SignalnDone, SemdeleteDone,
                      SemresetDone, semVars
  <2> QED BY <1>4, <2>1, <2>2, <2>3, <2>4 DEF Kernel
<1>5. CASE ClockTick \/ Halted \/ UNCHANGED vars
  BY <1>1, <1>5 DEF ClockTick, Halted, vars, semVars
<1> QED BY <1>3, <1>4, <1>5 DEF Next

(* What NoOvertaking says of two processes and the two values of a queue. *)
InTurn(q, r, x, y) ==
  InQueue(q, x) /\ InQueue(r, x) =>
    /\ ~InQueue(q, y) /\ InQueue(r, y) => Precedes(r, x, y)
    /\ Precedes(q, x, y) /\ InQueue(r, y) => Precedes(r, x, y)
    /\ Precedes(q, x, y) /\ ~InQueue(r, y) => prstate'[y] = "FREE"

LEMMA TailInTurn ==
  ASSUME NEW S, NEW q, QueueOf(q, S), q # <<>>, NEW x, NEW y
  PROVE  InTurn(q, Tail(q), x, y)
PROOF
<1> DEFINE r == Tail(q)
<1>1. /\ q \in Seq(S) /\ Len(q) \in Nat /\ Len(q) > 0
      /\ \A i, j \in 1..Len(q) : q[i] = q[j] => i = j
  BY DEF QueueOf
<1>2. Len(r) = Len(q) - 1 /\ \A j \in 1..(Len(q) - 1) : r[j] = q[j + 1]
  BY <1>1
<1> HIDE DEF r
<1>3. InQueue(r, y) => InQueue(q, y)
  BY <1>1, <1>2 DEF InQueue
<1>4. ASSUME InQueue(r, x), Precedes(q, x, y) PROVE Precedes(r, x, y) /\ InQueue(r, y)
  <2>1. PICK i \in 1..Len(q), j \in 1..Len(q) : i < j /\ q[i] = x /\ q[j] = y
    BY <1>4 DEF Precedes
  <2>2. PICK a \in 1..Len(r) : r[a] = x
    BY <1>4 DEF InQueue
  <2>3. a + 1 \in 1..Len(q) /\ q[a + 1] = x
    BY <1>1, <1>2, <2>2
  <2>4. i = a + 1
    BY <1>1, <2>1, <2>3
  <2>5. j - 1 \in 1..Len(r) /\ a < j - 1 /\ r[j - 1] = y
    BY <1>1, <1>2, <2>1, <2>2, <2>4
  <2> QED BY <2>2, <2>5 DEF Precedes, InQueue
<1> QED BY <1>3, <1>4 DEF InTurn, r

LEMMA EnqueueInTurn ==
  ASSUME NEW S, NEW q, QueueOf(q, S), NEW p, p \notin S, NEW x, NEW y
  PROVE  InTurn(q, Enqueue(q, p), x, y)
PROOF
<1> DEFINE r == Enqueue(q, p)
<1>1. q \in Seq(S) /\ Len(q) \in Nat /\ \A i \in 1..Len(q) : q[i] # p
  BY ElementOfSeq DEF QueueOf
<1>2. /\ Len(r) = Len(q) + 1 /\ r[Len(q) + 1] = p
      /\ \A j \in 1..Len(q) : r[j] = q[j]
  BY <1>1 DEF Enqueue
<1> HIDE DEF r
<1>3. ASSUME InQueue(q, x), ~InQueue(q, y), InQueue(r, y) PROVE Precedes(r, x, y)
  <2>1. PICK a \in 1..Len(q) : q[a] = x
    BY <1>3 DEF InQueue
  <2>2. PICK b \in 1..Len(r) : r[b] = y
    BY <1>3 DEF InQueue
  <2>3. b = Len(q) + 1
    BY <1>1, <1>2, <1>3, <2>2 DEF InQueue
  <2>4. a \in 1..Len(r) /\ a < b /\ r[a] = x
    BY <1>1, <1>2, <2>1, <2>3
  <2> QED BY <2>2, <2>4 DEF Precedes
<1>4. ASSUME Precedes(q, x, y) PROVE Precedes(r, x, y) /\ InQueue(r, y)
  <2>1. PICK i \in 1..Len(q), j \in 1..Len(q) : i < j /\ q[i] = x /\ q[j] = y
    BY <1>4 DEF Precedes
  <2>2. i \in 1..Len(r) /\ j \in 1..Len(r) /\ r[i] = x /\ r[j] = y
    BY <1>1, <1>2, <2>1
  <2> QED BY <2>1, <2>2 DEF Precedes, InQueue
<1> QED BY <1>3, <1>4 DEF InTurn, r

LEMMA GetItemInTurn ==
  ASSUME NEW S, NEW q, QueueOf(q, S), NEW p \in S, prstate'[p] = "FREE", NEW x, NEW y
  PROVE  InTurn(q, GetItem(q, p), x, y)
PROOF
<1> DEFINE i == Index(q, p)
           r == GetItem(q, p)
<1>a. i \in 1..Len(q) /\ q[i] = p
  BY IndexOfMember
<1> HIDE DEF i
<1>1. /\ q \in Seq(S) /\ Len(q) \in Nat /\ i \in 1..Len(q) /\ q[i] = p
      /\ \A a, b \in 1..Len(q) : q[a] = q[b] => a = b
  BY SMTT(30), <1>a DEF QueueOf
<1>2. /\ Len(r) = Len(q) - 1
      /\ \A j \in 1..(Len(q) - 1) : r[j] = IF j < i THEN q[j] ELSE q[j + 1]
  BY <1>1, RemoveAtElements DEF GetItem, i
<1> HIDE DEF r
(* The place in r of what is at place j in q. *)
<1>3. \A j \in 1..Len(q) : j # i =>
        /\ (IF j < i THEN j ELSE j - 1) \in 1..Len(r)
        /\ r[IF j < i THEN j ELSE j - 1] = q[j]
  <2> TAKE j \in 1..Len(q)
  <2> HAVE j # i
  <2>1. CASE j < i
    BY <1>1, <1>2, <2>1
  <2>2. CASE j > i
    <3>1. j - 1 \in 1..(Len(q) - 1) /\ ~(j - 1 < i) /\ (j - 1) + 1 = j
      BY <1>1, <2>2
    <3>2. r[j - 1] = q[j]
      BY <1>2, <3>1
    <3> QED BY <1>1, <1>2, <2>2, <3>1, <3>2
  <2> QED BY <1>1, <2>1, <2>2
<1>4. ASSUME NEW j \in 1..Len(r) PROVE r[j] # p /\ \E a \in 1..Len(q) : q[a] = r[j]
  <2>1. CASE j < i
    BY <1>1, <1>2, <1>4, <2>1
  <2>2. CASE j >= i
    <3>1. j + 1 \in 1..Len(q) /\ j + 1 # i /\ r[j] = q[j + 1]
      BY <1>1, <1>2, <1>4, <2>2
    <3> QED BY <1>1, <3>1
  <2> QED BY <1>1, <1>2, <1>4, <2>1, <2>2
<1>5. InQueue(r, y) => InQueue(q, y) /\ y # p
  BY <1>4 DEF InQueue
<1>6. InQueue(r, x) => x # p
  BY <1>4 DEF InQueue
<1>7. ASSUME Precedes(q, x, y), x # p, y # p PROVE Precedes(r, x, y) /\ InQueue(r, y)
  <2>1. PICK a \in 1..Len(q), b \in 1..Len(q) : a < b /\ q[a] = x /\ q[b] = y
    BY <1>7 DEF Precedes
  <2>2. a # i /\ b # i
    BY <1>1, <1>7, <2>1
  <2> DEFINE c == IF a < i THEN a ELSE a - 1
             d == IF b < i THEN b ELSE b - 1
  <2>3. c \in 1..Len(r) /\ d \in 1..Len(r) /\ r[c] = x /\ r[d] = y
    BY <1>3, <2>1, <2>2
  <2>4. c < d
    BY <1>1, <2>1, <2>2
  <2> HIDE DEF c, d
  <2> QED BY <2>3, <2>4 DEF Precedes, InQueue
<1> QED BY <1>5, <1>6, <1>7 DEF InTurn, r

LEMMA QueuesInTurn ==
  ASSUME KernelInv, NEW s \in Sems, QueueStep(s), NEW x, NEW y
  PROVE  InTurn(squeue[s], squeue'[s], x, y)
PROOF
<1>1. QueueOf(squeue[s], WaitSet(prstate, prsem, s))
  BY InvFacts
<1>2. CASE squeue'[s] = squeue[s]
  <2>1. Precedes(squeue[s], x, y) => InQueue(squeue[s], y)
    BY DEF Precedes, InQueue
  <2> QED BY <1>2, <2>1 DEF InTurn
<1>3. CASE squeue[s] # <<>> /\ squeue'[s] = Tail(squeue[s])
  BY <1>1, <1>3, TailInTurn
<1>4. CASE prstate[currpid] = "CURR" /\ squeue'[s] = Enqueue(squeue[s], currpid)
  <2>1. currpid \notin WaitSet(prstate, prsem, s)
    BY <1>4 DEF WaitSet
  <2> QED BY <1>1, <1>4, <2>1, EnqueueInTurn
<1>5. ASSUME NEW p \in Pids, prstate[p] = "WAIT", prsem[p] = s, prstate'[p] = "FREE",
             squeue'[s] = GetItem(squeue[s], p)
      PROVE  InTurn(squeue[s], squeue'[s], x, y)
  <2>1. p \in WaitSet(prstate, prsem, s)
    BY <1>5 DEF WaitSet
  <2> QED BY <1>1, <1>5, <2>1, GetItemInTurn
<1> QED BY <1>2, <1>3, <1>4, <1>5 DEF QueueStep

(* Processes leave a semaphore in the order of their waits, whatever signals,
   kills and resets come: nobody is behind one that came later, and nobody is
   released while one before him still waits. *)
THEOREM NoOvertakingAlways == Spec => NoOvertaking
PROOF
<1>1. ASSUME KernelInv, [Next]_vars, NEW s \in Sems, NEW x \in Pids, NEW y \in Pids
      PROVE  InTurn(squeue[s], squeue'[s], x, y)
  BY <1>1, QueueSteps, QueuesInTurn
<1> DEFINE Turns == \A s \in Sems, x, y \in Pids :
       LET in(q, p) == \E i \in 1..Len(q) : q[i] = p
           q0 == squeue[s]
           q1 == squeue'[s]
       IN  in(q0, x) /\ in(q1, x) =>
             /\ ~in(q0, y) /\ in(q1, y) => Precedes(q1, x, y)
             /\ Precedes(q0, x, y) /\ in(q1, y) => Precedes(q1, x, y)
             /\ Precedes(q0, x, y) /\ ~in(q1, y) => prstate'[y] = "FREE"
<1>2. KernelInv /\ [Next]_vars => [Turns]_vars
  BY <1>1 DEF InTurn, InQueue
<1> QED BY <1>2, KernelInvariant, PTL DEF Spec, NoOvertaking

-----------------------------------------------------------------------------
(* The delta list *)

(* D holds the delays of the processes of q, from now. *)
DelaysAre(D, q, key) ==
  /\ D \in [0..Len(q) -> Int] /\ D[0] = 0
  /\ \A i \in 1..Len(q) : D[i] = D[i - 1] + key[q[i]]

(* f sums up the first n keys of q, as Delay does. *)
SumsUp(f, q, key, n) == f = [i \in 0..n |-> IF i = 0 THEN 0 ELSE f[i - 1] + key[q[i]]]

LEMMA SumsExist ==
  ASSUME NEW q, NEW key, NEW n \in Nat
  PROVE  \E f : SumsUp(f, q, key, n)
PROOF
<1> DEFINE Bad == {m \in Nat : ~ \E f : SumsUp(f, q, key, m)}
<1> SUFFICES ASSUME Bad # {} PROVE FALSE
  OBVIOUS
<1>1. PICK m \in Bad : \A j \in Bad : m <= j
  <2>1. Bad \in SUBSET Nat
    OBVIOUS
  <2> HIDE DEF Bad
  <2> QED BY <2>1, LeastExists
<1>2. m \in Nat /\ ~ \E f : SumsUp(f, q, key, m)
  OBVIOUS
<1>3. CASE m = 0
  <2>1. PICK f : f = [i \in 0..0 |-> 0]
    OBVIOUS
  <2>2. \A i \in 0..0 : i = 0
    OBVIOUS
  <2>3. SumsUp(f, q, key, 0)
    BY <2>1, <2>2, Zenon DEF SumsUp
  <2> QED BY <1>2, <1>3, <2>3, Zenon
<1>4. CASE m # 0
  <2>1. PICK k \in Nat : k = m - 1 /\ m = k + 1 /\ ~(m <= k)
    BY <1>2, <1>4
  <2>2. PICK f : SumsUp(f, q, key, k)
    <3>1. k \notin Bad
      BY <1>1, <2>1, Zenon
    <3> QED BY <3>1
  <2> HIDE DEF Bad
  <2>3. PICK x : x = f[m - 1] + key[q[m]]
    OBVIOUS
  <2>4. PICK g : g = [i \in 0..m |-> IF i = m THEN x ELSE f[i]]
    OBVIOUS
  <2>5. ASSUME NEW i \in 0..m PROVE g[i] = IF i = 0 THEN 0 ELSE g[i - 1] + key[q[i]]
    <3>1. CASE i = m
      <4>1. g[i] = x
        BY <2>4, <3>1
      <4>2. i - 1 \in 0..m /\ i - 1 # m /\ i # 0
        BY <1>2, <1>4, <3>1
      <4>3. g[i - 1] = f[i - 1]
        BY <2>4, <4>2, Zenon
      <4> QED BY <2>3, <3>1, <4>1, <4>2, <4>3, Zenon
    <3>2. CASE i # m
      <4>1. i \in 0..k /\ g[i] = f[i]
        BY <1>2, <2>1, <2>4, <3>2
      <4>2. i # 0 => i - 1 \in 0..m /\ i - 1 # m
        BY <1>2, <2>1, <4>1
      <4>3. i # 0 => g[i - 1] = f[i - 1]
        BY <2>4, <4>2, Zenon
      <4>4. f[i] = IF i = 0 THEN 0 ELSE f[i - 1] + key[q[i]]
        BY <2>2, <4>1, Zenon DEF SumsUp
      <4> QED BY <4>1, <4>3, <4>4, Zenon
    <3> QED BY <3>1, <3>2
  <2>6. SumsUp(g, q, key, m)
    <3>1. g = [i \in 0..m |-> g[i]]
      BY <2>4
    <3> QED BY <2>5, <3>1, Zenon DEF SumsUp
  <2> QED BY <1>2, <2>6, Zenon
<1> QED BY <1>3, <1>4

LEMMA DelayIs ==
  ASSUME NEW q, NEW key, NEW n \in Nat
  PROVE  \E f : SumsUp(f, q, key, n) /\ Delay(q, key, n) = f[n]
PROOF
<1>1. PICK f : f = CHOOSE h : SumsUp(h, q, key, n)
  OBVIOUS
<1>2. SumsUp(f, q, key, n)
  BY <1>1, SumsExist, Zenon
<1>3. Delay(q, key, n) = f[n]
  BY <1>1, Zenon DEF Delay, SumsUp
<1> QED BY <1>2, <1>3

(* There is one sum only. *)
LEMMA DelaysGiven ==
  ASSUME NEW q, Len(q) \in Nat, NEW key, NEW D, DelaysAre(D, q, key), NEW n \in 0..Len(q)
  PROVE  Delay(q, key, n) = D[n]
PROOF
<1>1. PICK f : SumsUp(f, q, key, n) /\ Delay(q, key, n) = f[n]
  BY DelayIs
<1>2. ASSUME NEW i \in 0..n PROVE f[i] = IF i = 0 THEN 0 ELSE f[i - 1] + key[q[i]]
  BY <1>1, <1>2, Zenon DEF SumsUp
<1> DEFINE Bad == {i \in 0..n : f[i] # D[i]}
<1> SUFFICES ASSUME Bad # {} PROVE FALSE
  BY <1>1
<1>3. PICK m \in Bad : \A j \in Bad : m <= j
  <2>1. Bad \in SUBSET Nat
    OBVIOUS
  <2> HIDE DEF Bad
  <2> QED BY <2>1, LeastExists
<1>4. m \in 0..n /\ f[m] # D[m]
  OBVIOUS
<1>5. m # 0
  BY <1>2, <1>4 DEF DelaysAre
<1>6. m - 1 \in 0..n /\ ~(m <= m - 1) /\ m \in 1..Len(q)
  BY <1>4, <1>5
<1>7. f[m - 1] = D[m - 1]
  BY <1>3, <1>6
<1>8. f[m] = f[m - 1] + key[q[m]]
  BY <1>2, <1>4, <1>5, Zenon
<1>9. D[m] = D[m - 1] + key[q[m]]
  BY <1>6 DEF DelaysAre
<1> QED BY <1>4, <1>7, <1>8, <1>9

LEMMA DelaysExist ==
  ASSUME NEW q \in Seq(Pids), NEW key \in [Pids -> Int]
  PROVE  \E D : DelaysAre(D, q, key)
PROOF
<1>1. PICK n \in Nat : n = Len(q)
  OBVIOUS
<1>2. PICK f : SumsUp(f, q, key, n)
  BY SumsExist
<1>3. ASSUME NEW i \in 0..n PROVE f[i] = IF i = 0 THEN 0 ELSE f[i - 1] + key[q[i]]
  BY <1>2, <1>3, Zenon DEF SumsUp
<1>4. \A i \in 1..n : key[q[i]] \in Int
  BY <1>1
<1> DEFINE Bad == {i \in 0..n : f[i] \notin Int}
<1>5. Bad = {}
  <2> SUFFICES ASSUME Bad # {} PROVE FALSE
    OBVIOUS
  <2>1. PICK m \in Bad : \A j \in Bad : m <= j
    <3>1. Bad \in SUBSET Nat
      OBVIOUS
    <3> HIDE DEF Bad
    <3> QED BY <3>1, LeastExists
  <2>2. m \in 0..n /\ f[m] \notin Int
    OBVIOUS
  <2>3. m # 0
    BY <1>3, <2>2
  <2>4. m - 1 \in 0..n /\ ~(m <= m - 1) /\ m \in 1..n
    BY <2>2, <2>3
  <2>5. f[m - 1] \in Int
    BY <2>1, <2>4
  <2>6. f[m] = f[m - 1] + key[q[m]]
    BY <1>3, <2>2, <2>3, Zenon
  <2> QED BY <1>4, <2>2, <2>4, <2>5, <2>6
<1>6. f = [i \in 0..n |-> f[i]]
  BY <1>2, Zenon DEF SumsUp
<1>7. f \in [0..n -> Int]
  BY <1>5, <1>6
<1>8. f[0] = 0 /\ \A i \in 1..n : f[i] = f[i - 1] + key[q[i]]
  BY <1>3
<1> QED BY <1>1, <1>7, <1>8 DEF DelaysAre
LEMMA IndexIs ==
  ASSUME NEW S, NEW q, QueueOf(q, S), NEW j \in 1..Len(q)
  PROVE  Index(q, q[j]) = j
PROOF
<1>1. q[j] \in S
  BY ElementOfSeq DEF QueueOf
<1>2. Index(q, q[j]) \in 1..Len(q) /\ q[Index(q, q[j])] = q[j]
  BY <1>1, IndexOfMember
<1> QED BY <1>2 DEF QueueOf

(* What the delays are about. *)
Delta(D, q, key, S) ==
  /\ S \subseteq Pids /\ QueueOf(q, S) /\ key \in [Pids -> Int]
  /\ DelaysAre(D, q, key)

LEMMA DeltaSeq ==
  ASSUME NEW D, NEW q, NEW key, NEW S, Delta(D, q, key, S)
  PROVE  Len(q) \in Nat /\ q \in Seq(Pids) /\ q \in Seq(S)
PROOF
<1>1. q \in Seq(S) /\ q \in Seq(Pids)
  BY SeqMonotonic DEF Delta, QueueOf
<1> QED BY <1>1

(* The same, place by place. *)
DeltaPlaces(D, q, key, S, n) ==
  /\ \A i \in 1..n : q[i] \in S /\ q[i] \in Pids /\ key[q[i]] \in Int
  /\ \A i, j \in 1..n : q[i] = q[j] => i = j
  /\ \A i \in 0..n : D[i] \in Int
  /\ D[0] = 0 /\ \A i \in 1..n : D[i] = D[i - 1] + key[q[i]]

LEMMA DeltaFacts ==
  ASSUME NEW D, NEW q, NEW key, NEW S, Delta(D, q, key, S)
  PROVE  DeltaPlaces(D, q, key, S, Len(q))
PROOF
<1>1. \A i \in 1..Len(q) : q[i] \in S /\ q[i] \in Pids
  BY DeltaSeq, ElementOfSeq
<1>2. \A i \in 1..Len(q) : key[q[i]] \in Int
  BY <1>1 DEF Delta
<1>3. \A i, j \in 1..Len(q) : q[i] = q[j] => i = j
  BY DEF Delta, QueueOf
<1>4. D[0] = 0 /\ \A i \in 1..Len(q) : D[i] = D[i - 1] + key[q[i]]
  BY DEF Delta, DelaysAre
<1>5. \A i \in 0..Len(q) : D[i] \in Int
  BY DEF Delta, DelaysAre
<1> QED BY <1>1, <1>2, <1>3, <1>4, <1>5 DEF DeltaPlaces

(* The delays depend on the keys of those on the list only. *)
LEMMA DelaysStay ==
  ASSUME NEW D, NEW q, NEW key, NEW key2, DelaysAre(D, q, key),
         \A i \in 1..Len(q) : key2[q[i]] = key[q[i]]
  PROVE  DelaysAre(D, q, key2)
PROOF BY DEF DelaysAre

(* insertd puts p into place i, where d falls. *)
Inserting(D, q, key, S, p, i, d, k, r, key2) ==
  /\ Delta(D, q, key, S) /\ p \in Pids /\ p \notin S
  /\ i \in 1..(Len(q) + 1) /\ d \in Int /\ k \in Int /\ k = d - D[i - 1]
  /\ r = InsertAt(q, i, p)
  /\ \A x \in S \cup {p} : key2[x] = KeyAfterInsertd(q, key, p, i, k)[x]
InsertedPlaces(q, p, i, n, r) ==
  /\ n = Len(q) /\ r \in Seq(Pids) /\ Len(r) = n + 1
  /\ \A j \in 1..(n + 1) : r[j] = IF j < i THEN q[j] ELSE IF j = i THEN p ELSE q[j - 1]

InsertedDelays(E, D, r, i, d) ==
  E = [j \in 0..Len(r) |-> IF j < i THEN D[j] ELSE IF j = i THEN d ELSE D[j - 1]]

LEMMA InsertAtPlaces ==
  ASSUME NEW q \in Seq(Pids), NEW p \in Pids, NEW i \in 1..(Len(q) + 1),
         NEW r, r = InsertAt(q, i, p), NEW n, n = Len(q)
  PROVE  InsertedPlaces(q, p, i, n, r)
PROOF
<1>1. /\ r \in Seq(Pids) /\ Len(r) = n + 1
      /\ \A j \in 1..(n + 1) : r[j] = IF j < i THEN q[j] ELSE IF j = i THEN p ELSE q[j - 1]
  <2>1. q \in Seq(Pids) /\ p \in Pids /\ i \in 1..(Len(q) + 1)
    OBVIOUS
  <2>2. /\ Len(InsertAt(q, i, p)) = Len(q) + 1
        /\ \A j \in 1..(Len(q) + 1) :
             InsertAt(q, i, p)[j] = IF j < i THEN q[j] ELSE IF j = i THEN p ELSE q[j - 1]
    BY ONLY <2>1, InsertAtElements
  <2>3. InsertAt(q, i, p) \in Seq(Pids)
    BY ONLY <2>1, InsertAtElements
  <2> QED BY <2>2, <2>3, Zenon
<1> QED BY <1>1 DEF InsertedPlaces

LEMMA InsertedAre ==
  ASSUME NEW D, NEW q, NEW key, NEW S, NEW p, NEW i, NEW d, NEW k, NEW r, NEW key2,
         Inserting(D, q, key, S, p, i, d, k, r, key2), NEW n, n = Len(q)
  PROVE  InsertedPlaces(q, p, i, n, r)
PROOF
<1>1. /\ Delta(D, q, key, S) /\ p \in Pids /\ i \in 1..(Len(q) + 1)
      /\ r = InsertAt(q, i, p)
  BY DEF Inserting
<1>2. q \in Seq(Pids)
  BY <1>1, DeltaSeq, Zenon
<1> QED BY <1>1, <1>2, InsertAtPlaces, Zenon

(* insertd: everybody keeps his delay, and the caller has his own. *)
LEMMA DelaysInserted ==
  ASSUME NEW D, NEW q, NEW key, NEW S, NEW p, NEW i, NEW d, NEW k, NEW r, NEW key2,
         Inserting(D, q, key, S, p, i, d, k, r, key2),
         NEW E0, InsertedDelays(E0, D, r, i, d)
  PROVE  DelaysAre(E0, r, key2)
PROOF
<1>0. /\ Delta(D, q, key, S) /\ p \in Pids /\ p \notin S
      /\ i \in 1..(Len(q) + 1) /\ d \in Int /\ k \in Int /\ k = d - D[i - 1]
      /\ r = InsertAt(q, i, p)
      /\ \A x \in S \cup {p} : key2[x] = KeyAfterInsertd(q, key, p, i, k)[x]
  BY DEF Inserting
<1> USE <1>0
<1>1. PICK n \in Nat : n = Len(q)
  BY DeltaSeq
<1>2. /\ r \in Seq(Pids) /\ Len(r) = n + 1
      /\ \A j \in 1..(n + 1) : r[j] = IF j < i THEN q[j] ELSE IF j = i THEN p ELSE q[j - 1]
  <2>1. InsertedPlaces(q, p, i, n, r)
    BY <1>1, InsertedAre, Zenon
  <2> QED BY <2>1 DEF InsertedPlaces
<1>3. /\ \A j \in 1..n : q[j] \in S /\ q[j] \in Pids /\ q[j] # p /\ key[q[j]] \in Int
      /\ \A j \in 0..n : D[j] \in Int
      /\ D[0] = 0 /\ \A j \in 1..n : D[j] = D[j - 1] + key[q[j]]
      /\ \A a, b \in 1..n : q[a] = q[b] => a = b
  <2>1. DeltaPlaces(D, q, key, S, n)
    BY <1>1, DeltaFacts, Zenon
  <2> QED BY <2>1 DEF DeltaPlaces
<1>4. key2[p] = k
  <2>1. i <= n => q[i] # p
    BY <1>1, <1>3
  <2> QED BY <1>1, <2>1 DEF KeyAfterInsertd, Delta
<1>5. ASSUME NEW j \in 1..n PROVE key2[q[j]] = IF j = i THEN key[q[j]] - k ELSE key[q[j]]
  <2>1. q[j] \in S /\ q[j] \in Pids /\ q[j] # p
    BY <1>3
  <2>2. key2[q[j]] = KeyAfterInsertd(q, key, p, i, k)[q[j]]
    BY <2>1
  <2>3. i <= n => (q[j] = q[i] <=> j = i)
    BY <1>1, <1>3
  <2>4. ~(i <= n) => j # i
    BY <1>1
  <2>5. PICK own : own = [key EXCEPT ![p] = k]
    OBVIOUS
  <2>6. own[q[j]] = key[q[j]] /\ own \in [Pids -> Int]
    BY <2>1, <2>5 DEF Delta
  <2>7. KeyAfterInsertd(q, key, p, i, k) = IF i <= n THEN [own EXCEPT ![q[i]] = @ - k] ELSE own
    BY <1>1, <2>5, Zenon DEF KeyAfterInsertd
  <2>8. CASE i <= n
    <3>1. KeyAfterInsertd(q, key, p, i, k)[q[j]] = IF q[j] = q[i] THEN own[q[i]] - k ELSE own[q[j]]
      BY <2>1, <2>6, <2>7, <2>8
    <3> QED BY <2>2, <2>3, <2>6, <2>8, <3>1
  <2> QED BY <2>2, <2>4, <2>6, <2>7, <2>8
<1> DEFINE E == [j \in 0..Len(r) |-> IF j < i THEN D[j] ELSE IF j = i THEN d ELSE D[j - 1]]
<1>6. \A j \in 0..(n + 1) : E[j] = IF j < i THEN D[j] ELSE IF j = i THEN d ELSE D[j - 1]
  BY <1>2
<1>7. E \in [0..Len(r) -> Int] /\ E[0] = 0
  BY <1>1, <1>2, <1>3
<1> HIDE DEF E
<1>8. ASSUME NEW j \in 1..(n + 1) PROVE E[j] = E[j - 1] + key2[r[j]]
  <2>1. CASE j < i
    <3>1. E[j] = D[j] /\ E[j - 1] = D[j - 1] /\ j \in 1..n /\ r[j] = q[j] /\ key2[q[j]] = key[q[j]]
      BY <1>1, <1>2, <1>5, <1>6, <2>1
    <3> QED BY <1>3, <3>1
  <2>2. CASE j = i
    <3>1. E[j] = d /\ E[j - 1] = D[i - 1] /\ r[j] = p /\ D[i - 1] \in Int
      BY <1>1, <1>2, <1>3, <1>6, <2>2
    <3>2. k = d - D[i - 1] /\ d \in Int /\ k \in Int
      OBVIOUS
    <3> QED BY ONLY <1>4, <3>1, <3>2
  <2>3. CASE j = i + 1
    <3>1. E[j] = D[i] /\ E[j - 1] = d /\ i \in 1..n /\ r[j] = q[i] /\ key2[q[i]] = key[q[i]] - k
      BY <1>1, <1>2, <1>5, <1>6, <2>3
    <3>2. D[i] = D[i - 1] + key[q[i]] /\ D[i - 1] \in Int /\ key[q[i]] \in Int
      BY <1>3, <3>1
    <3>3. k = d - D[i - 1] /\ d \in Int /\ k \in Int
      OBVIOUS
    <3> QED BY ONLY <3>1, <3>2, <3>3
  <2>4. CASE j > i + 1
    <3>3. /\ j - 1 \in 1..n /\ j \in 0..(n + 1) /\ j - 1 \in 0..(n + 1) /\ (j - 1) - 1 = j - 2
          /\ ~(j < i) /\ j # i /\ ~(j - 1 < i) /\ j - 1 # i
      BY <1>1, <2>4
    <3>4. E[j] = D[j - 1] /\ E[j - 1] = D[j - 2]
      BY <1>6, <3>3
    <3>5. r[j] = q[j - 1] /\ key2[q[j - 1]] = key[q[j - 1]]
      BY <1>2, <1>5, <3>3
    <3>1. /\ E[j] = D[j - 1] /\ E[j - 1] = D[j - 2] /\ j - 1 \in 1..n /\ r[j] = q[j - 1]
          /\ key2[q[j - 1]] = key[q[j - 1]]
      BY <3>3, <3>4, <3>5
    <3>2. D[j - 1] = D[(j - 1) - 1] + key[q[j - 1]] /\ (j - 1) - 1 = j - 2
      BY <1>3, <3>1
    <3> QED BY <3>1, <3>2
  <2> QED BY <2>1, <2>2, <2>3, <2>4
<1>9. DelaysAre(E, r, key2)
  BY <1>2, <1>7, <1>8 DEF DelaysAre
<1> QED BY <1>9, Zenon DEF E, InsertedDelays

(* unsleep and getitem take p from its place i; the next one takes over what was left. *)
Removing(D, q, key, S, p, i, r, key2) ==
  /\ Delta(D, q, key, S) /\ p \in S /\ i = Index(q, p) /\ r = GetItem(q, p)
  /\ \A x \in S \ {p} : key2[x] = KeyAfterUnsleep(q, key, p)[x]
RemovedPlaces(q, p, i, n, r) ==
  /\ n = Len(q) /\ i \in 1..n /\ q[i] = p /\ Len(r) = n - 1
  /\ \A j \in 1..(n - 1) : r[j] = IF j < i THEN q[j] ELSE q[j + 1]
RemovedDelays(E, D, r, i) == E = [j \in 0..Len(r) |-> IF j < i THEN D[j] ELSE D[j + 1]]

LEMMA RemovedAre ==
  ASSUME NEW D, NEW q, NEW key, NEW S, NEW p, NEW i, NEW r, NEW key2,
         Removing(D, q, key, S, p, i, r, key2), NEW n, n = Len(q)
  PROVE  RemovedPlaces(q, p, i, n, r)
PROOF
<1>0. Delta(D, q, key, S) /\ p \in S /\ i = Index(q, p) /\ r = GetItem(q, p)
  BY DEF Removing
<1>2. i \in 1..n /\ q[i] = p
  <2>1. QueueOf(q, S)
    BY <1>0 DEF Delta
  <2> QED BY <1>0, <2>1, IndexOfMember
<1>3. /\ Len(r) = n - 1
      /\ \A j \in 1..(n - 1) : r[j] = IF j < i THEN q[j] ELSE q[j + 1]
  <2>1. q \in Seq(Pids) /\ i \in 1..Len(q) /\ r = RemoveAt(q, i)
    BY <1>0, <1>2, DeltaSeq DEF GetItem
  <2>2. /\ Len(r) = Len(q) - 1
        /\ \A j \in 1..(Len(q) - 1) : r[j] = IF j < i THEN q[j] ELSE q[j + 1]
    BY <2>1, RemoveAtElements, Zenon
  <2> QED BY <2>2, Zenon
<1> QED BY <1>2, <1>3 DEF RemovedPlaces

LEMMA DelaysRemoved ==
  ASSUME NEW D, NEW q, NEW key, NEW S, NEW p, NEW i, NEW r, NEW key2,
         Removing(D, q, key, S, p, i, r, key2), NEW E0, RemovedDelays(E0, D, r, i)
  PROVE  DelaysAre(E0, r, key2)
PROOF
<1>0. /\ Delta(D, q, key, S) /\ p \in S /\ i = Index(q, p) /\ r = GetItem(q, p)
      /\ \A x \in S \ {p} : key2[x] = KeyAfterUnsleep(q, key, p)[x]
  BY DEF Removing
<1> USE <1>0
<1>1. PICK n \in Nat : n = Len(q)
  BY DeltaSeq
<1>20. RemovedPlaces(q, p, i, n, r)
  BY <1>1, RemovedAre, Zenon
<1>2. i \in 1..n /\ q[i] = p
  BY <1>20 DEF RemovedPlaces
<1>3. /\ Len(r) = n - 1
      /\ \A j \in 1..(n - 1) : r[j] = IF j < i THEN q[j] ELSE q[j + 1]
  BY <1>20 DEF RemovedPlaces
<1>4. /\ \A j \in 1..n : q[j] \in S /\ q[j] \in Pids /\ key[q[j]] \in Int
      /\ \A j \in 0..n : D[j] \in Int
      /\ D[0] = 0 /\ \A j \in 1..n : D[j] = D[j - 1] + key[q[j]]
      /\ \A a, b \in 1..n : q[a] = q[b] => a = b
  <2>1. DeltaPlaces(D, q, key, S, n)
    BY <1>1, DeltaFacts, Zenon
  <2> QED BY <2>1 DEF DeltaPlaces
<1>5. ASSUME NEW j \in 1..n, j # i
      PROVE  key2[q[j]] = IF j = i + 1 THEN key[q[j]] + key[q[i]] ELSE key[q[j]]
  <2>1. q[j] \in S \ {p} /\ q[j] \in Pids
    BY <1>2, <1>4, <1>5
  <2>2. KeyAfterUnsleep(q, key, p) = IF i < n THEN [key EXCEPT ![q[i + 1]] = @ + key[p]] ELSE key
    BY <1>1, Zenon DEF KeyAfterUnsleep
  <2>3. i < n => (q[j] = q[i + 1] <=> j = i + 1)
    BY <1>2, <1>4
  <2>4. ~(i < n) => j # i + 1
    BY <1>2
  <2>5. key \in [Pids -> Int]
    BY DEF Delta
  <2>6. KeyAfterUnsleep(q, key, p)[q[j]] =
          IF i < n /\ q[j] = q[i + 1] THEN key[q[j]] + key[p] ELSE key[q[j]]
    BY <2>1, <2>2, <2>5
  <2> QED BY <1>2, <2>1, <2>3, <2>4, <2>6
<1> DEFINE E == [j \in 0..Len(r) |-> IF j < i THEN D[j] ELSE D[j + 1]]
<1>6. \A j \in 0..(n - 1) : E[j] = IF j < i THEN D[j] ELSE D[j + 1]
  BY <1>3
<1>7. E \in [0..Len(r) -> Int] /\ E[0] = 0
  BY <1>1, <1>2, <1>3, <1>4
<1> HIDE DEF E
<1>8. ASSUME NEW j \in 1..(n - 1) PROVE E[j] = E[j - 1] + key2[r[j]]
  <2>1. CASE j < i
    <3>1. E[j] = D[j] /\ E[j - 1] = D[j - 1] /\ j \in 1..n /\ r[j] = q[j] /\ key2[q[j]] = key[q[j]]
      BY <1>2, <1>3, <1>5, <1>6, <2>1
    <3> QED BY <1>4, <3>1
  <2>2. CASE j = i
    <3>3. i + 1 \in 1..n /\ i + 1 # i /\ i \in 0..(n - 1) /\ i - 1 \in 0..(n - 1) /\ ~(i < i) /\ i - 1 < i
      BY <1>2, <2>2
    <3>4. E[j] = D[i + 1] /\ E[j - 1] = D[i - 1]
      BY ONLY <1>6, <2>2, <3>3
    <3>5. r[j] = q[i + 1]
      BY ONLY <1>3, <1>8, <2>2, <3>3
    <3>6. key2[q[i + 1]] = key[q[i + 1]] + key[q[i]]
      BY ONLY <1>5, <3>3
    <3>1. E[j] = D[i + 1] /\ E[j - 1] = D[i - 1] /\ i + 1 \in 1..n /\ r[j] = q[i + 1]
          /\ key2[q[i + 1]] = key[q[i + 1]] + key[q[i]]
      BY <3>3, <3>4, <3>5, <3>6
    <3>2. /\ D[i + 1] = D[(i + 1) - 1] + key[q[i + 1]] /\ D[i] = D[i - 1] + key[q[i]] /\ (i + 1) - 1 = i
          /\ D[i - 1] \in Int /\ key[q[i]] \in Int /\ key[q[i + 1]] \in Int
      BY <1>2, <1>4, <3>1
    <3> QED BY ONLY <3>1, <3>2
  <2>3. CASE j > i
    <3>1. E[j] = D[j + 1] /\ E[j - 1] = D[j] /\ j + 1 \in 1..n /\ r[j] = q[j + 1]
          /\ key2[q[j + 1]] = key[q[j + 1]]
      BY <1>2, <1>3, <1>5, <1>6, <2>3
    <3>2. D[j + 1] = D[(j + 1) - 1] + key[q[j + 1]] /\ (j + 1) - 1 = j
      BY <1>4, <3>1
    <3> QED BY <3>1, <3>2
  <2> QED BY <1>2, <2>1, <2>2, <2>3
<1>9. DelaysAre(E, r, key2)
  BY <1>3, <1>7, <1>8 DEF DelaysAre
<1> QED BY <1>9, Zenon DEF E, RemovedDelays

(* The first one leaves when nothing is left of its delay. *)
Waking(D, q, key, S, r, key2) ==
  /\ Delta(D, q, key, S) /\ q # <<>> /\ key[Head(q)] = 0 /\ r = Tail(q)
  /\ \A x \in S \ {Head(q)} : key2[x] = key[x]
WokenDelays(E, D, r) == E = [j \in 0..Len(r) |-> D[j + 1]]

LEMMA DelaysOfTail ==
  ASSUME NEW D, NEW q, NEW key, NEW S, NEW r, NEW key2, Waking(D, q, key, S, r, key2),
         NEW E0, WokenDelays(E0, D, r)
  PROVE  DelaysAre(E0, r, key2)
PROOF
<1>0. /\ Delta(D, q, key, S) /\ q # <<>> /\ key[Head(q)] = 0 /\ r = Tail(q)
      /\ \A x \in S \ {Head(q)} : key2[x] = key[x]
  BY DEF Waking
<1> USE <1>0
<1>1. PICK n \in Nat : n = Len(q)
  BY DeltaSeq
<1>2. /\ n > 0 /\ Head(q) = q[1] /\ Len(r) = n - 1 /\ \A j \in 1..(n - 1) : r[j] = q[j + 1]
  BY <1>1, DeltaSeq
<1>3. /\ \A j \in 1..n : q[j] \in S
      /\ \A j \in 0..n : D[j] \in Int
      /\ D[0] = 0 /\ \A j \in 1..n : D[j] = D[j - 1] + key[q[j]]
      /\ \A a, b \in 1..n : q[a] = q[b] => a = b
  <2>1. DeltaPlaces(D, q, key, S, n)
    BY <1>1, DeltaFacts, Zenon
  <2> QED BY <2>1 DEF DeltaPlaces
<1> DEFINE E == [j \in 0..Len(r) |-> D[j + 1]]
<1>4. \A j \in 0..(n - 1) : E[j] = D[j + 1]
  BY <1>2
<1>5. D[1] = 0
  <2>1. 1 \in 1..n /\ 1 - 1 = 0
    BY <1>2
  <2>2. D[1] = D[1 - 1] + key[q[1]]
    BY <1>3, <2>1
  <2> QED BY <1>2, <1>3, <2>1, <2>2
<1>6. E \in [0..Len(r) -> Int] /\ E[0] = 0
  BY <1>2, <1>3, <1>5
<1> HIDE DEF E
<1>7. ASSUME NEW j \in 1..(n - 1) PROVE E[j] = E[j - 1] + key2[r[j]]
  <2>4. j + 1 \in 1..n /\ j \in 0..(n - 1) /\ j - 1 \in 0..(n - 1) /\ (j - 1) + 1 = j
    OBVIOUS
  <2>5. E[j] = D[j + 1] /\ E[j - 1] = D[j]
    BY <1>4, <2>4
  <2>1. E[j] = D[j + 1] /\ E[j - 1] = D[j] /\ j + 1 \in 1..n /\ r[j] = q[j + 1]
    BY <1>2, <2>4, <2>5
  <2>2. D[j + 1] = D[(j + 1) - 1] + key[q[j + 1]] /\ (j + 1) - 1 = j
    BY <1>3, <2>1
  <2>3. q[j + 1] \in S \ {Head(q)}
    BY <1>2, <1>3, <2>1
  <2> QED BY <2>1, <2>2, <2>3
<1>8. DelaysAre(E, r, key2)
  BY <1>2, <1>6, <1>7 DEF DelaysAre
<1> QED BY <1>8, Zenon DEF E, WokenDelays

(* A tick takes one from the first key, and so from every delay. *)
Ticking(D, q, key, S, key2) ==
  /\ Delta(D, q, key, S) /\ q # <<>>
  /\ \A x \in S : key2[x] = [key EXCEPT ![Head(q)] = @ - 1][x]
TickedDelays(E, D, q) == E = [j \in 0..Len(q) |-> IF j = 0 THEN 0 ELSE D[j] - 1]

LEMMA DelaysTicked ==
  ASSUME NEW D, NEW q, NEW key, NEW S, NEW key2, Ticking(D, q, key, S, key2),
         NEW E0, TickedDelays(E0, D, q)
  PROVE  DelaysAre(E0, q, key2)
PROOF
<1>0. /\ Delta(D, q, key, S) /\ q # <<>>
      /\ \A x \in S : key2[x] = [key EXCEPT ![Head(q)] = @ - 1][x]
  BY DEF Ticking
<1> USE <1>0
<1>1. PICK n \in Nat : n = Len(q)
  BY DeltaSeq
<1>2. n > 0 /\ Head(q) = q[1]
  BY <1>1, DeltaSeq
<1>3. /\ \A j \in 1..n : q[j] \in S /\ q[j] \in Pids /\ key[q[j]] \in Int
      /\ \A j \in 0..n : D[j] \in Int
      /\ D[0] = 0 /\ \A j \in 1..n : D[j] = D[j - 1] + key[q[j]]
      /\ \A a, b \in 1..n : q[a] = q[b] => a = b
  <2>1. DeltaPlaces(D, q, key, S, n)
    BY <1>1, DeltaFacts, Zenon
  <2> QED BY <2>1 DEF DeltaPlaces
<1>4. ASSUME NEW j \in 1..n PROVE key2[q[j]] = IF j = 1 THEN key[q[j]] - 1 ELSE key[q[j]]
  <2>1. q[j] \in S /\ q[j] \in Pids /\ (q[j] = q[1] <=> j = 1)
    BY <1>2, <1>3
  <2>2. key \in [Pids -> Int]
    BY DEF Delta
  <2> QED BY <1>2, <2>1, <2>2
<1> DEFINE E == [j \in 0..Len(q) |-> IF j = 0 THEN 0 ELSE D[j] - 1]
<1>5. \A j \in 0..n : E[j] = IF j = 0 THEN 0 ELSE D[j] - 1
  BY <1>1
<1>6. E \in [0..Len(q) -> Int] /\ E[0] = 0
  BY <1>1, <1>3
<1> HIDE DEF E
<1>7. ASSUME NEW j \in 1..n PROVE E[j] = E[j - 1] + key2[q[j]]
  <2>1. D[j] = D[j - 1] + key[q[j]] /\ D[j - 1] \in Int /\ key[q[j]] \in Int
    BY <1>3
  <2>2. CASE j = 1
    <3>1. E[j] = D[1] - 1 /\ E[j - 1] = 0 /\ D[j - 1] = 0 /\ key2[q[j]] = key[q[j]] - 1
      BY <1>3, <1>4, <1>5, <2>2
    <3> QED BY <2>1, <2>2, <3>1
  <2>3. CASE j # 1
    <3>1. E[j] = D[j] - 1 /\ E[j - 1] = D[j - 1] - 1 /\ key2[q[j]] = key[q[j]]
      BY <1>4, <1>5, <2>3
    <3> QED BY <2>1, <3>1
  <2> QED BY <2>2, <2>3
<1>8. DelaysAre(E, q, key2)
  BY <1>1, <1>6, <1>7 DEF DelaysAre
<1> QED BY <1>8, Zenon DEF E, TickedDelays
-----------------------------------------------------------------------------
(* What is left, in one list and in the next *)

(* What is left of the delay of p; nobody's key is negative; nobody is to wake up. *)
LeftOf(q, key, p) == Delay(q, key, Index(q, p))
NoneNegative(q, key) == \A i \in 1..Len(q) : key[q[i]] >= 0
NotDue(q, key) == q = <<>> \/ key[Head(q)] > 0

LEMMA LeftIs ==
  ASSUME NEW D, NEW q, NEW key, NEW S, Delta(D, q, key, S)
  PROVE  \A j \in 1..Len(q) : LeftOf(q, key, q[j]) = D[j]
PROOF
<1>1. Len(q) \in Nat /\ QueueOf(q, S) /\ DelaysAre(D, q, key)
  BY DeltaSeq DEF Delta
<1> SUFFICES ASSUME NEW j \in 1..Len(q) PROVE LeftOf(q, key, q[j]) = D[j]
  OBVIOUS
<1>2. Index(q, q[j]) = j
  BY <1>1, IndexIs, Zenon
<1>3. Delay(q, key, j) = D[j]
  <2>1. j \in 0..Len(q)
    BY <1>1
  <2> QED BY <1>1, <2>1, DelaysGiven, Zenon
<1> QED BY <1>2, <1>3, Zenon DEF LeftOf

LEMMA DeltaExists ==
  ASSUME NEW q, NEW key \in [Pids -> Int], NEW S, S \subseteq Pids, QueueOf(q, S)
  PROVE  \E D : Delta(D, q, key, S)
PROOF
<1>1. q \in Seq(Pids)
  BY SeqMonotonic DEF QueueOf
<1>2. PICK D : DelaysAre(D, q, key)
  BY <1>1, DelaysExist
<1> QED BY <1>2, Zenon DEF Delta

LEMMA LeftIsInt ==
  ASSUME NEW q, NEW key \in [Pids -> Int], NEW S, S \subseteq Pids, QueueOf(q, S), NEW x \in S
  PROVE  LeftOf(q, key, x) \in Int
PROOF
<1>1. PICK D : Delta(D, q, key, S)
  BY DeltaExists, Zenon
<1>2. PICK j \in 1..Len(q) : q[j] = x
  BY DEF QueueOf
<1>3. LeftOf(q, key, x) = D[j]
  BY <1>1, <1>2, LeftIs, Zenon
<1>4. D[j] \in Int
  <2>1. \A i \in 0..Len(q) : D[i] \in Int
    BY <1>1, DeltaFacts, Zenon DEF DeltaPlaces
  <2>2. j \in 0..Len(q)
    OBVIOUS
  <2> QED BY <2>1, <2>2, Zenon
<1> QED BY <1>3, <1>4

LEMMA LeftKept ==
  ASSUME NEW q, NEW key \in [Pids -> Int], NEW S, S \subseteq Pids, QueueOf(q, S),
         NEW key2 \in [Pids -> Int], \A x \in S : key2[x] = key[x]
  PROVE  /\ \A x \in S : LeftOf(q, key2, x) = LeftOf(q, key, x)
         /\ NoneNegative(q, key) => NoneNegative(q, key2)
         /\ NotDue(q, key2) <=> NotDue(q, key)
PROOF
<1>1. PICK D : Delta(D, q, key, S)
  BY DeltaExists
<1>2. Len(q) \in Nat /\ \A j \in 1..Len(q) : q[j] \in S
  BY <1>1, DeltaSeq, ElementOfSeq
<1>3. \A j \in 1..Len(q) : key2[q[j]] = key[q[j]]
  BY <1>2
<1>4. Delta(D, q, key2, S)
  BY <1>1, <1>3, DelaysStay, Zenon DEF Delta
<1>5. ASSUME NEW x \in S PROVE LeftOf(q, key2, x) = LeftOf(q, key, x)
  <2>1. PICK j \in 1..Len(q) : q[j] = x
    BY DEF QueueOf
  <2>2. LeftOf(q, key2, q[j]) = D[j]
    BY <1>4, LeftIs, Zenon
  <2>3. LeftOf(q, key, q[j]) = D[j]
    BY <1>1, LeftIs, Zenon
  <2> QED BY <2>1, <2>2, <2>3, Zenon
<1>6. NoneNegative(q, key) => NoneNegative(q, key2)
  BY <1>3, Zenon DEF NoneNegative
<1>7. q # <<>> => Head(q) \in S
  BY QueueTail
<1> QED BY <1>5, <1>6, <1>7, Zenon DEF NotDue

JoinsAt(i, k, q, key, S, p, d, r, key2) ==
  /\ S \subseteq Pids /\ QueueOf(q, S) /\ key \in [Pids -> Int] /\ key2 \in [Pids -> Int]
  /\ p \in Pids /\ p \notin S /\ d \in Nat \ {0} /\ k \in Nat
  /\ i \in 1..(Len(q) + 1) /\ IsDelayPos(q, key, d, i) /\ k = d - Delay(q, key, i - 1)
  /\ r = InsertAt(q, i, p)
  /\ \A x \in S \cup {p} : key2[x] = KeyAfterInsertd(q, key, p, i, k)[x]

LEMMA LeftInserted ==
  ASSUME NEW i, NEW k, NEW q, NEW key, NEW S, NEW p, NEW d, NEW r, NEW key2,
         JoinsAt(i, k, q, key, S, p, d, r, key2),
         NoneNegative(q, key), NotDue(q, key)
  PROVE  /\ \A x \in S : LeftOf(r, key2, x) = LeftOf(q, key, x)
         /\ NoneNegative(r, key2) /\ NotDue(r, key2)
PROOF
<1>0. /\ S \subseteq Pids /\ QueueOf(q, S) /\ key \in [Pids -> Int] /\ key2 \in [Pids -> Int]
      /\ p \in Pids /\ p \notin S /\ d \in Nat \ {0} /\ k \in Nat
      /\ i \in 1..(Len(q) + 1) /\ IsDelayPos(q, key, d, i) /\ k = d - Delay(q, key, i - 1)
      /\ r = InsertAt(q, i, p)
      /\ \A x \in S \cup {p} : key2[x] = KeyAfterInsertd(q, key, p, i, k)[x]
  BY DEF JoinsAt
<1> USE <1>0
<1>1. PICK D : Delta(D, q, key, S)
  BY DeltaExists
<1>2. PICK n \in Nat : n = Len(q)
  BY <1>1, DeltaSeq
<1>3. DeltaPlaces(D, q, key, S, n)
  BY <1>1, <1>2, DeltaFacts, Zenon
<1>4. Len(q) \in Nat /\ q \in Seq(Pids) /\ DelaysAre(D, q, key)
  BY <1>1, DeltaSeq DEF Delta
<1>5. k = d - D[i - 1] /\ (i <= n => D[i] > d)
  <2>1. i - 1 \in 0..Len(q) /\ (i <= n => i \in 0..Len(q))
    BY <1>2
  <2>2. Delay(q, key, i - 1) = D[i - 1]
    BY ONLY <1>4, <2>1, DelaysGiven
  <2>3. i <= n => Delay(q, key, i) = D[i]
    BY ONLY <1>4, <2>1, DelaysGiven
  <2> QED BY <1>2, <2>2, <2>3 DEF IsDelayPos
<1>60. Inserting(D, q, key, S, p, i, d, k, r, key2)
  <2>1. k \in Int /\ d \in Int
    OBVIOUS
  <2> QED BY <1>1, <1>5, <2>1, Zenon DEF Inserting
<1>6. PICK E : E = [j \in 0..Len(r) |-> IF j < i THEN D[j] ELSE IF j = i THEN d ELSE D[j - 1]]
  OBVIOUS
<1>7. DelaysAre(E, r, key2)
  <2>1. InsertedDelays(E, D, r, i, d)
    BY <1>6, Zenon DEF InsertedDelays
  <2> QED BY <1>60, <2>1, DelaysInserted, Zenon
<1>8. QueueOf(r, S \cup {p}) /\ S \cup {p} \subseteq Pids
  BY QueueInsertAt
<1>9. Delta(E, r, key2, S \cup {p})
  BY <1>7, <1>8 DEF Delta
<1>10. /\ Len(r) = n + 1
       /\ \A j \in 1..(n + 1) : r[j] = IF j < i THEN q[j] ELSE IF j = i THEN p ELSE q[j - 1]
  <2>1. InsertedPlaces(q, p, i, n, r)
    BY <1>2, <1>60, InsertedAre, Zenon
  <2> QED BY <2>1 DEF InsertedPlaces
<1>11. DeltaPlaces(E, r, key2, S \cup {p}, n + 1)
  BY <1>9, <1>10, DeltaFacts, Zenon
<1>12. \A j \in 0..(n + 1) : E[j] = IF j < i THEN D[j] ELSE IF j = i THEN d ELSE D[j - 1]
  BY <1>6, <1>10
<1>13. ASSUME NEW x \in S PROVE LeftOf(r, key2, x) = LeftOf(q, key, x)
  <2>1. PICK j \in 1..n : q[j] = x
    BY <1>2 DEF QueueOf
  <2>2. PICK l \in 1..(n + 1) : l = IF j < i THEN j ELSE j + 1
    OBVIOUS
  <2>3. r[l] = x /\ E[l] = D[j]
    BY <1>2, <1>10, <1>12, <2>1, <2>2
  <2>4. LeftOf(r, key2, r[l]) = E[l]
    BY ONLY <1>9, <1>10, l \in 1..(n + 1), LeftIs
  <2>5. LeftOf(q, key, q[j]) = D[j]
    BY ONLY <1>1, <1>2, j \in 1..n, LeftIs
  <2> QED BY <2>1, <2>3, <2>4, <2>5, Zenon
<1>14. ASSUME NEW j \in 1..(n + 1)
       PROVE  /\ key2[r[j]] >= 0
              /\ j = 1 => key2[r[j]] > 0
  <2>1. /\ E[j] = E[j - 1] + key2[r[j]] /\ E[j] \in Int /\ E[j - 1] \in Int /\ key2[r[j]] \in Int
    BY <1>11 DEF DeltaPlaces
  <2>2. j \in 0..(n + 1) /\ j - 1 \in 0..(n + 1)
    OBVIOUS
  <2>3. E[j] = (IF j < i THEN D[j] ELSE IF j = i THEN d ELSE D[j - 1])
    BY <1>12, <2>2
  <2>4. E[j - 1] = (IF j - 1 < i THEN D[j - 1] ELSE IF j - 1 = i THEN d ELSE D[(j - 1) - 1])
    BY <1>12, <2>2
  <2>5. \A l \in 1..n : D[l] = D[l - 1] + key[q[l]] /\ key[q[l]] >= 0 /\ D[l] \in Int /\ D[l - 1] \in Int
    BY <1>2, <1>3 DEF DeltaPlaces, NoneNegative
  <2>6. D[0] = 0
    BY <1>3 DEF DeltaPlaces
  <2>7. CASE j < i
    <3>1. j \in 1..n
      BY <1>2, <2>7
    <3>2. E[j] = D[j] /\ E[j - 1] = D[j - 1]
      BY <2>3, <2>4, <2>7
    <3>3. key2[r[j]] = key[q[j]] /\ key[q[j]] \in Int /\ key[q[j]] >= 0
      <4>1. D[j] = D[j - 1] + key[q[j]] /\ key[q[j]] >= 0 /\ D[j] \in Int /\ D[j - 1] \in Int
        BY <2>5, <3>1
      <4>2. key[q[j]] \in Int
        BY <1>3, <3>1 DEF DeltaPlaces
      <4> QED BY ONLY <2>1, <3>2, <4>1, <4>2
    <3>4. j = 1 => key[q[j]] > 0
      <4>1. j = 1 => q # <<>> /\ Head(q) = q[1]
        BY <1>2, <1>4, <3>1
      <4> QED BY <4>1 DEF NotDue
    <3> QED BY <3>3, <3>4
  <2>8. CASE j = i
    <3>1. E[j] = d /\ E[j - 1] = D[i - 1] /\ D[i - 1] \in Int
      BY <1>2, <1>3, <2>3, <2>4, <2>8 DEF DeltaPlaces
    <3>2. key2[r[j]] = k
      <4>1. k = d - D[i - 1] /\ k \in Int /\ d \in Int
        BY <1>5
      <4> QED BY ONLY <2>1, <3>1, <4>1
    <3>3. j = 1 => k = d
      <4>1. j = 1 => i - 1 = 0
        BY <2>8
      <4> QED BY <1>5, <2>6, <4>1
    <3> QED BY <3>2, <3>3
  <2>9. CASE j = i + 1
    <3>1. E[j] = D[i] /\ E[j - 1] = d /\ i <= n /\ D[i] \in Int
      <4>1. i \in 1..n /\ i \in 0..n /\ j - 1 = i
        BY <1>2, <2>9
      <4> QED BY <1>3, <2>3, <2>4, <2>9, <4>1 DEF DeltaPlaces
    <3> QED BY <1>5, <2>1, <2>9, <3>1
  <2>10. CASE j > i + 1
    <3>1. E[j] = D[j - 1] /\ E[j - 1] = D[(j - 1) - 1] /\ j - 1 \in 1..n
      BY <1>2, <2>3, <2>4, <2>10
    <3>2. /\ D[j - 1] = D[(j - 1) - 1] + key[q[j - 1]] /\ key[q[j - 1]] >= 0
          /\ D[j - 1] \in Int /\ D[(j - 1) - 1] \in Int
      BY <2>5, <3>1
    <3>3. key[q[j - 1]] \in Int
      BY <1>3, <3>1 DEF DeltaPlaces
    <3>4. j # 1
      BY <2>10
    <3> QED BY ONLY <2>1, <3>1, <3>2, <3>3, <3>4
  <2> QED BY <2>7, <2>8, <2>9, <2>10
<1>15. NoneNegative(r, key2)
  BY <1>10, <1>14 DEF NoneNegative
<1>16. NotDue(r, key2)
  <2>1. 1 \in 1..(n + 1) /\ r \in Seq(Pids)
    BY <1>9, DeltaSeq
  <2>2. Head(r) = r[1]
    BY <1>10, <2>1
  <2> QED BY <1>14, <2>1, <2>2 DEF NotDue
<1> QED BY <1>13, <1>15, <1>16
LEMMA LeftRemoved ==
  ASSUME NEW q, NEW key \in [Pids -> Int], NEW S, S \subseteq Pids, QueueOf(q, S),
         NEW p \in S, NEW r, r = GetItem(q, p), NEW key2 \in [Pids -> Int],
         \A x \in S \ {p} : key2[x] = KeyAfterUnsleep(q, key, p)[x],
         NoneNegative(q, key)
  PROVE  /\ \A x \in S \ {p} : LeftOf(r, key2, x) = LeftOf(q, key, x)
         /\ NoneNegative(r, key2)
         /\ NotDue(q, key) => NotDue(r, key2)
PROOF
<1>1. PICK D : Delta(D, q, key, S)
  BY DeltaExists
<1>2. PICK n \in Nat : n = Len(q)
  BY <1>1, DeltaSeq
<1>3. PICK i : i = Index(q, p)
  OBVIOUS
<1>4. Removing(D, q, key, S, p, i, r, key2)
  BY <1>1, <1>3, Zenon DEF Removing
<1>5. PICK E : E = [j \in 0..Len(r) |-> IF j < i THEN D[j] ELSE D[j + 1]]
  OBVIOUS
<1>6. DelaysAre(E, r, key2)
  <2>1. RemovedDelays(E, D, r, i)
    BY <1>5, Zenon DEF RemovedDelays
  <2> QED BY <1>4, <2>1, DelaysRemoved, Zenon
<1>7. QueueOf(r, S \ {p}) /\ S \ {p} \subseteq Pids
  BY QueueGetItem
<1>8. Delta(E, r, key2, S \ {p})
  BY <1>6, <1>7 DEF Delta
<1>9. /\ i \in 1..n /\ q[i] = p /\ Len(r) = n - 1
      /\ \A j \in 1..(n - 1) : r[j] = IF j < i THEN q[j] ELSE q[j + 1]
  <2>1. RemovedPlaces(q, p, i, n, r)
    BY <1>2, <1>4, RemovedAre, Zenon
  <2> QED BY <2>1 DEF RemovedPlaces
<1>10. PICK m \in Nat : m = n - 1
  BY <1>9
<1>11. DeltaPlaces(E, r, key2, S \ {p}, m)
  <2>1. m = Len(r)
    BY <1>9, <1>10
  <2> QED BY <1>8, <2>1, DeltaFacts, Zenon
<1>12. \A j \in 0..m : E[j] = IF j < i THEN D[j] ELSE D[j + 1]
  BY <1>5, <1>9, <1>10
<1>13. DeltaPlaces(D, q, key, S, n)
  BY <1>1, <1>2, DeltaFacts, Zenon
<1>14. ASSUME NEW x \in S \ {p} PROVE LeftOf(r, key2, x) = LeftOf(q, key, x)
  <2>1. PICK j \in 1..n : q[j] = x
    BY <1>2 DEF QueueOf
  <2>2. j # i
    BY <1>9, <2>1
  <2>3. PICK l \in 1..m : l = IF j < i THEN j ELSE j - 1
    BY <1>9, <1>10, <2>2
  <2>4. r[l] = x /\ E[l] = D[j] /\ l \in 1..Len(r)
    BY <1>9, <1>10, <1>12, <2>1, <2>2, <2>3
  <2>5. LeftOf(r, key2, r[l]) = E[l]
    BY ONLY <1>8, <2>4, LeftIs
  <2>6. LeftOf(q, key, q[j]) = D[j]
    BY ONLY <1>1, <1>2, j \in 1..n, LeftIs
  <2> QED BY <2>1, <2>4, <2>5, <2>6, Zenon
<1>15. ASSUME NEW j \in 1..m
       PROVE  /\ key2[r[j]] >= 0
              /\ j = 1 /\ key[q[1]] > 0 => key2[r[j]] > 0
  <2>1. /\ E[j] = E[j - 1] + key2[r[j]] /\ E[j] \in Int /\ E[j - 1] \in Int /\ key2[r[j]] \in Int
    BY <1>11 DEF DeltaPlaces
  <2>2. j \in 0..m /\ j - 1 \in 0..m /\ j \in 1..n /\ j + 1 \in 1..n /\ (j - 1) + 1 = j /\ (j + 1) - 1 = j
    BY <1>10
  <2>3. E[j] = (IF j < i THEN D[j] ELSE D[j + 1])
    BY <1>12, <2>2
  <2>4. E[j - 1] = (IF j - 1 < i THEN D[j - 1] ELSE D[j])
    BY <1>12, <2>2
  <2>5. \A l \in 1..n : /\ D[l] = D[l - 1] + key[q[l]] /\ key[q[l]] >= 0
                        /\ key[q[l]] \in Int /\ D[l] \in Int /\ D[l - 1] \in Int
    BY <1>2, <1>13 DEF DeltaPlaces, NoneNegative
  <2>6. D[j] = D[j - 1] + key[q[j]] /\ key[q[j]] >= 0 /\ key[q[j]] \in Int /\ D[j] \in Int /\ D[j - 1] \in Int
    BY <2>2, <2>5
  <2>7. D[j + 1] = D[j] + key[q[j + 1]] /\ key[q[j + 1]] >= 0 /\ key[q[j + 1]] \in Int /\ D[j + 1] \in Int
    BY <2>2, <2>5
  <2>8. CASE j < i
    <3>1. E[j] = D[j] /\ E[j - 1] = D[j - 1]
      BY <1>9, <2>3, <2>4, <2>8
    <3>2. key2[r[j]] = key[q[j]]
      BY ONLY <2>1, <2>6, <3>1
    <3> QED BY <2>6, <3>2
  <2>9. CASE j = i
    <3>1. E[j] = D[j + 1] /\ E[j - 1] = D[j - 1]
      BY <1>9, <2>3, <2>4, <2>9
    <3>2. key2[r[j]] = key[q[j]] + key[q[j + 1]]
      BY ONLY <2>1, <2>6, <2>7, <3>1
    <3> QED BY <2>6, <2>7, <3>2
  <2>10. CASE j > i
    <3>1. E[j] = D[j + 1] /\ E[j - 1] = D[j] /\ j # 1
      BY <1>9, <2>3, <2>4, <2>10
    <3>2. key2[r[j]] = key[q[j + 1]]
      BY ONLY <2>1, <2>6, <2>7, <3>1
    <3> QED BY <2>7, <3>1, <3>2
  <2> QED BY <1>9, <2>8, <2>9, <2>10
<1>16. NoneNegative(r, key2)
  BY <1>9, <1>10, <1>15 DEF NoneNegative
<1>17. ASSUME NotDue(q, key) PROVE NotDue(r, key2)
  <2> SUFFICES ASSUME r # <<>> PROVE key2[Head(r)] > 0
    BY DEF NotDue
  <2>1. q \in Seq(Pids) /\ q # <<>> /\ Head(q) = q[1]
    BY <1>1, <1>2, <1>9, DeltaSeq
  <2>2. key[q[1]] > 0
    BY <1>17, <2>1 DEF NotDue
  <2>3. r \in Seq(Pids) /\ Len(r) = m
    BY <1>8, <1>9, <1>10, DeltaSeq
  <2>4. 1 \in 1..m /\ Head(r) = r[1]
    BY <2>3
  <2> QED BY <1>15, <2>2, <2>4
<1> QED BY <1>14, <1>16, <1>17
FirstLeaves(q, key, S, r, key2) ==
  /\ S \subseteq Pids /\ QueueOf(q, S) /\ key \in [Pids -> Int] /\ key2 \in [Pids -> Int]
  /\ q # <<>> /\ key[Head(q)] <= 0 /\ r = Tail(q)
  /\ \A x \in S \ {Head(q)} : key2[x] = key[x]

LEMMA LeftWoken ==
  ASSUME NEW q, NEW key, NEW S, NEW r, NEW key2, FirstLeaves(q, key, S, r, key2),
         NoneNegative(q, key)
  PROVE  /\ \A x \in S \ {Head(q)} : LeftOf(r, key2, x) = LeftOf(q, key, x)
         /\ NoneNegative(r, key2)
PROOF
<1>0. /\ S \subseteq Pids /\ QueueOf(q, S) /\ key \in [Pids -> Int] /\ key2 \in [Pids -> Int]
      /\ q # <<>> /\ key[Head(q)] <= 0 /\ r = Tail(q)
      /\ \A x \in S \ {Head(q)} : key2[x] = key[x]
  BY DEF FirstLeaves
<1> USE <1>0
<1>1. PICK D : Delta(D, q, key, S)
  BY DeltaExists
<1>2. PICK n \in Nat : n = Len(q)
  BY <1>1, DeltaSeq
<1>3. n > 0 /\ Head(q) = q[1] /\ Len(r) = n - 1 /\ \A j \in 1..(n - 1) : r[j] = q[j + 1]
  BY <1>1, <1>2, DeltaSeq
<1>4. Waking(D, q, key, S, r, key2)
  <2>1. key[q[1]] \in Int /\ key[q[1]] >= 0
    <3>1. DeltaPlaces(D, q, key, S, n)
      BY <1>1, <1>2, DeltaFacts, Zenon
    <3> QED BY <1>2, <1>3, <3>1 DEF DeltaPlaces, NoneNegative
  <2>2. key[Head(q)] = 0
    BY <1>3, <2>1
  <2> QED BY <1>1, <2>2, Zenon DEF Waking
<1>5. PICK E : E = [j \in 0..Len(r) |-> D[j + 1]]
  OBVIOUS
<1>6. DelaysAre(E, r, key2)
  <2>1. WokenDelays(E, D, r)
    BY <1>5, Zenon DEF WokenDelays
  <2> QED BY <1>4, <2>1, DelaysOfTail, Zenon
<1>7. QueueOf(r, S \ {Head(q)}) /\ S \ {Head(q)} \subseteq Pids
  BY QueueTail
<1>8. Delta(E, r, key2, S \ {Head(q)})
  BY <1>6, <1>7 DEF Delta
<1>9. ASSUME NEW x \in S \ {Head(q)} PROVE LeftOf(r, key2, x) = LeftOf(q, key, x)
  <2>1. PICK j \in 1..n : q[j] = x
    BY <1>2 DEF QueueOf
  <2>2. PICK l \in 1..Len(r) : j = l + 1
    <3>1. j # 1
      BY <1>3, <2>1
    <3>2. j - 1 \in 1..Len(r) /\ j = (j - 1) + 1
      BY <1>3, <3>1
    <3> QED BY <3>2
  <2>3. r[l] = x /\ E[l] = D[j]
    BY <1>3, <1>5, <2>1, <2>2
  <2>4. LeftOf(r, key2, r[l]) = E[l]
    BY ONLY <1>8, l \in 1..Len(r), LeftIs
  <2>5. LeftOf(q, key, q[j]) = D[j]
    BY ONLY <1>1, <1>2, j \in 1..n, LeftIs
  <2> QED BY <2>1, <2>3, <2>4, <2>5, Zenon
<1>10. NoneNegative(r, key2)
  <2>1. ASSUME NEW j \in 1..(n - 1) PROVE key2[r[j]] >= 0
    <3>1. j + 1 \in 1..n /\ j + 1 # 1 /\ 1 \in 1..n /\ r[j] = q[j + 1]
      BY <1>3
    <3>2. DeltaPlaces(D, q, key, S, n)
      BY <1>1, <1>2, DeltaFacts, Zenon
    <3>3. q[j + 1] \in S /\ q[j + 1] # Head(q)
      BY <1>3, <3>1, <3>2 DEF DeltaPlaces
    <3> QED BY <1>2, <3>1, <3>3 DEF NoneNegative
  <2> QED BY <1>3, <2>1 DEF NoneNegative
<1> QED BY <1>9, <1>10

LEMMA LeftTicked ==
  ASSUME NEW q, NEW key \in [Pids -> Int], NEW S, S \subseteq Pids, QueueOf(q, S), q # <<>>,
         NEW key2 \in [Pids -> Int], \A x \in S : key2[x] = [key EXCEPT ![Head(q)] = @ - 1][x],
         NoneNegative(q, key), NotDue(q, key)
  PROVE  /\ \A x \in S : LeftOf(q, key2, x) = LeftOf(q, key, x) - 1
         /\ NoneNegative(q, key2)
PROOF
<1>1. PICK D : Delta(D, q, key, S)
  BY DeltaExists
<1>2. PICK n \in Nat : n = Len(q)
  BY <1>1, DeltaSeq
<1>3. Ticking(D, q, key, S, key2)
  BY <1>1, Zenon DEF Ticking
<1>4. PICK E : E = [j \in 0..Len(q) |-> IF j = 0 THEN 0 ELSE D[j] - 1]
  OBVIOUS
<1>5. DelaysAre(E, q, key2)
  <2>1. TickedDelays(E, D, q)
    BY <1>4, Zenon DEF TickedDelays
  <2> QED BY <1>3, <2>1, DelaysTicked, Zenon
<1>6. Delta(E, q, key2, S)
  BY <1>5 DEF Delta
<1>7. ASSUME NEW x \in S PROVE LeftOf(q, key2, x) = LeftOf(q, key, x) - 1
  <2>1. PICK j \in 1..n : q[j] = x
    BY <1>2 DEF QueueOf
  <2>2. E[j] = D[j] - 1
    BY <1>2, <1>4
  <2>4. LeftOf(q, key2, q[j]) = E[j]
    BY ONLY <1>2, <1>6, j \in 1..n, LeftIs
  <2>5. LeftOf(q, key, q[j]) = D[j]
    BY ONLY <1>1, <1>2, j \in 1..n, LeftIs
  <2> QED BY <2>1, <2>2, <2>4, <2>5, Zenon
<1>8. NoneNegative(q, key2)
  <2>1. DeltaPlaces(D, q, key, S, n)
    BY <1>1, <1>2, DeltaFacts, Zenon
  <2>2. key[Head(q)] > 0 /\ Head(q) \in Pids /\ key[Head(q)] \in Int
    BY QueueTail DEF NotDue
  <2>3. ASSUME NEW j \in 1..n PROVE key2[q[j]] >= 0
    <3>1. q[j] \in S /\ q[j] \in Pids /\ key[q[j]] \in Int /\ key[q[j]] >= 0
      BY <1>2, <2>1 DEF DeltaPlaces, NoneNegative
    <3>2. key2[q[j]] = IF q[j] = Head(q) THEN key[Head(q)] - 1 ELSE key[q[j]]
      BY <3>1
    <3> QED BY <2>2, <3>1, <3>2
  <2> QED BY <1>2, <2>3 DEF NoneNegative
<1> QED BY <1>7, <1>8
-----------------------------------------------------------------------------
(* The sleepers, from one state to the next *)

(* Who is on both lists has the same left of his delay. *)
SameLeft(q, key, r, key2) ==
  \A x \in Pids : InQueue(q, x) /\ InQueue(r, x) => LeftOf(r, key2, x) = LeftOf(q, key, x)

(* The inductive invariant: no key is negative, and no sleeper is due but in the loop of
   wakeup. *)
DelayInv ==
  /\ NoneNegative(sleepq, qkey)
  /\ cont[currpid].op = "wakeup" \/ NotDue(sleepq, qkey)

(* What a step that is no clock interrupt does to the sleepers. *)
DelayAfter ==
  /\ SameLeft(sleepq, qkey, sleepq', qkey')
  /\ NoneNegative(sleepq', qkey')
  /\ cont'[currpid'].op = "wakeup" \/ NotDue(sleepq', qkey')

LEMMA InQueueIs ==
  ASSUME NEW q, NEW S, QueueOf(q, S), NEW x
  PROVE  InQueue(q, x) <=> x \in S
PROOF
<1>1. \A i \in 1..Len(q) : q[i] \in S
  BY ElementOfSeq DEF QueueOf
<1> QED BY <1>1 DEF QueueOf, InQueue

(* resched() changes the key of the process that yields, and no other. *)
LEMMA ReschedNowKeys ==
  ASSUME NEW ps, NEW rl, NEW key, NEW pre, ReschedNow(ps, rl, key, pre)
  PROVE  \/ qkey' = key
         \/ ps[currpid] = "CURR" /\ qkey' = KeyAfterInsert(key, currpid, prprio[currpid])
PROOF BY Zenon DEF ReschedNow, Stay, Switch

LEMMA ReschedKeys ==
  ASSUME NEW ps, NEW rl, NEW key, NEW pre, Resched(ps, rl, key, pre)
  PROVE  \/ qkey' = key
         \/ ps[currpid] = "CURR" /\ qkey' = KeyAfterInsert(key, currpid, prprio[currpid])
PROOF BY ReschedNowKeys, Zenon DEF Resched, Stay

LEMMA SleepersAre ==
  ASSUME KernelInv
  PROVE  /\ QueueOf(sleepq, SleepSet(prstate)) /\ SleepSet(prstate) \subseteq Pids
         /\ qkey \in [Pids -> Int] /\ currpid \in Pids
         /\ \A x \in SleepSet(prstate) : prstate[x] \in {"SLEEP", "RECTIM"} /\ x # currpid
PROOF BY InvFacts DEF SleepSet

(* The scheduler's calls, with new keys for the sleepers or without. *)
LEMMA YieldKeys ==
  ASSUME KernelInv, NEW key \in [Pids -> Int], NEW ps, NEW rl, NEW pre,
         Resched(ps, rl, key, pre) \/ ReschedNow(ps, rl, key, pre)
  PROVE  \A x \in SleepSet(prstate) : qkey'[x] = key[x]
PROOF
<1>1. qkey' = key \/ qkey' = KeyAfterInsert(key, currpid, prprio[currpid])
  BY ReschedKeys, ReschedNowKeys, Zenon
<1>2. ASSUME NEW x \in SleepSet(prstate)
      PROVE  KeyAfterInsert(key, currpid, prprio[currpid])[x] = key[x]
  <2>1. x \in Pids /\ x # currpid
    BY SleepersAre
  <2> QED BY <2>1 DEF KeyAfterInsert
<1> QED BY <1>1, <1>2, Zenon

LEMMA ReadyLeaves ==
  ASSUME KernelInv, NEW key \in [Pids -> Int], NEW pid \in Pids, Ready(pid, key)
  PROVE  \A x \in SleepSet(prstate) \ {pid} : qkey'[x] = key[x]
PROOF
<1>1. PICK k2 : k2 = KeyAfterInsert(key, pid, prprio[pid])
  OBVIOUS
<1>2. prprio[pid] \in Int
  BY InvFacts
<1>3. k2 \in [Pids -> Int] /\ \A x \in Pids \ {pid} : k2[x] = key[x]
  BY <1>1, <1>2 DEF KeyAfterInsert
<1>4. \A x \in SleepSet(prstate) : qkey'[x] = k2[x]
  <2>1. Resched([prstate EXCEPT ![pid] = "READY"], Insert(readylist, key, pid, prprio[pid]), k2, preempt)
    BY <1>1, Zenon DEF Ready
  <2> QED BY <1>3, <2>1, YieldKeys, Zenon
<1> QED BY <1>3, <1>4, SleepersAre

LEMMA BlockLeaves ==
  ASSUME KernelInv, NEW key, NEW st, st # "CURR", Block(st, key)
  PROVE  qkey' = key
PROOF
<1>1. [prstate EXCEPT ![currpid] = st][currpid] = st
  BY InvFacts
<1> QED BY <1>1, ReschedKeys, Zenon DEF Block

LEMMA TimeSliceLeaves ==
  ASSUME KernelInv, NEW key \in [Pids -> Int], TimeSlice(key)
  PROVE  \A x \in SleepSet(prstate) : qkey'[x] = key[x]
PROOF
<1>1. CASE Resched(prstate, readylist, key, QUANTUM)
  BY <1>1, YieldKeys, Zenon
<1>2. CASE Stay(prstate, readylist, key, preempt - 1)
  BY <1>2 DEF Stay
<1> QED BY <1>1, <1>2 DEF TimeSlice

LEMMA DeferStopLeaves ==
  ASSUME KernelInv, DeferStop
  PROVE  \A x \in SleepSet(prstate) : qkey'[x] = qkey[x]
PROOF
<1>1. CASE ReschedNow(prstate, readylist, qkey, preempt)
  BY <1>1, SleepersAre, YieldKeys, Zenon
<1>2. CASE UNCHANGED qkey
  BY <1>2
<1> QED BY <1>1, <1>2 DEF DeferStop
(* The ways the sleepers change. *)
LEMMA KeptDelays ==
  ASSUME KernelInv, KernelInv', DelayInv, NotDue(sleepq, qkey), sleepq' = sleepq,
         \A x \in SleepSet(prstate) : qkey'[x] = qkey[x]
  PROVE  DelayAfter
PROOF
<1>1. PICK q, key, key2 : q = sleepq /\ key = qkey /\ key2 = qkey'
  OBVIOUS
<1>2. PICK S : S = SleepSet(prstate)
  OBVIOUS
<1>3. QueueOf(q, S) /\ S \subseteq Pids /\ key \in [Pids -> Int] /\ key2 \in [Pids -> Int]
  BY <1>1, <1>2, SleepersAre DEF KernelInv, TypeOK
<1>4. \A x \in S : key2[x] = key[x]
  BY <1>1, <1>2
<1>5. NoneNegative(q, key) /\ NotDue(q, key)
  BY <1>1, Zenon DEF DelayInv
<1>6. /\ \A x \in S : LeftOf(q, key2, x) = LeftOf(q, key, x)
      /\ NoneNegative(q, key2) /\ NotDue(q, key2)
  BY ONLY <1>3, <1>4, <1>5, LeftKept
<1>7. SameLeft(q, key, q, key2)
  BY <1>3, <1>6, InQueueIs, Zenon DEF SameLeft
<1> QED BY <1>1, <1>6, <1>7, Zenon DEF DelayAfter

LEMMA RemovedDelaysKept ==
  ASSUME KernelInv, KernelInv', DelayInv, NotDue(sleepq, qkey), NEW p \in SleepSet(prstate),
         sleepq' = GetItem(sleepq, p),
         \A x \in SleepSet(prstate) \ {p} : qkey'[x] = KeyAfterUnsleep(sleepq, qkey, p)[x]
  PROVE  DelayAfter
PROOF
<1>1. PICK q, key, r, key2 : q = sleepq /\ key = qkey /\ r = sleepq' /\ key2 = qkey'
  OBVIOUS
<1>2. PICK S : S = SleepSet(prstate)
  OBVIOUS
<1>3. QueueOf(q, S) /\ S \subseteq Pids /\ key \in [Pids -> Int] /\ key2 \in [Pids -> Int]
  BY <1>1, <1>2, SleepersAre DEF KernelInv, TypeOK
<1>4. p \in S /\ r = GetItem(q, p) /\ \A x \in S \ {p} : key2[x] = KeyAfterUnsleep(q, key, p)[x]
  BY <1>1, <1>2, Zenon
<1>5. NoneNegative(q, key) /\ NotDue(q, key)
  BY <1>1, Zenon DEF DelayInv
<1>6. /\ \A x \in S \ {p} : LeftOf(r, key2, x) = LeftOf(q, key, x)
      /\ NoneNegative(r, key2) /\ NotDue(r, key2)
  BY ONLY <1>3, <1>4, <1>5, LeftRemoved
<1>7. QueueOf(r, S \ {p})
  BY <1>3, <1>4, QueueGetItem
<1>8. SameLeft(q, key, r, key2)
  BY <1>3, <1>6, <1>7, InQueueIs, Zenon DEF SameLeft
<1> QED BY <1>1, <1>6, <1>8, Zenon DEF DelayAfter

LEMMA BlockForDelays ==
  ASSUME KernelInv, KernelInv', DelayInv, NotDue(sleepq, qkey), NEW st \in {"SLEEP", "RECTIM"},
         NEW d \in Nat \ {0}, BlockFor(st, d)
  PROVE  DelayAfter
PROOF
<1>1. PICK q, key, r, key2 : q = sleepq /\ key = qkey /\ r = sleepq' /\ key2 = qkey'
  OBVIOUS
<1>2. PICK S : S = SleepSet(prstate)
  OBVIOUS
<1>3. /\ QueueOf(q, S) /\ S \subseteq Pids /\ key \in [Pids -> Int] /\ key2 \in [Pids -> Int]
      /\ currpid \in Pids /\ currpid \notin S
  BY <1>1, <1>2, SleepersAre DEF KernelInv, TypeOK
<1>4. PICK i \in 1..(Len(q) + 1), k \in 0..d :
        /\ IsDelayPos(q, key, d, i) /\ k = d - Delay(q, key, i - 1) /\ r = InsertAt(q, i, currpid)
        /\ Block(st, KeyAfterInsertd(q, key, currpid, i, k))
  BY <1>1, Zenon DEF BlockFor
<1>5. key2 = KeyAfterInsertd(q, key, currpid, i, k)
  <2>1. st # "CURR"
    OBVIOUS
  <2> QED BY <1>1, <1>4, <2>1, BlockLeaves, Zenon
<1>6. NoneNegative(q, key) /\ NotDue(q, key)
  BY <1>1, Zenon DEF DelayInv
<1>7. k \in Nat
  OBVIOUS
<1>8. \A x \in S \cup {currpid} : key2[x] = KeyAfterInsertd(q, key, currpid, i, k)[x]
  BY <1>5, Zenon
<1>9. /\ \A x \in S : LeftOf(r, key2, x) = LeftOf(q, key, x)
      /\ NoneNegative(r, key2) /\ NotDue(r, key2)
  <2>1. JoinsAt(i, k, q, key, S, currpid, d, r, key2)
    BY <1>3, <1>4, <1>7, <1>8, Zenon DEF JoinsAt
  <2> QED BY <1>6, <2>1, LeftInserted, Zenon
<1>10. SameLeft(q, key, r, key2)
  BY <1>3, <1>9, InQueueIs, Zenon DEF SameLeft
<1> QED BY <1>1, <1>9, <1>10, Zenon DEF DelayAfter

LEMMA WakeupDelays ==
  ASSUME KernelInv, KernelInv', DelayInv, WakeupStep
  PROVE  DelayAfter
PROOF
<1>1. PICK q, key, r, key2 : q = sleepq /\ key = qkey /\ r = sleepq' /\ key2 = qkey'
  OBVIOUS
<1>2. PICK S : S = SleepSet(prstate)
  OBVIOUS
<1>3. QueueOf(q, S) /\ S \subseteq Pids /\ key \in [Pids -> Int] /\ key2 \in [Pids -> Int]
  BY <1>1, <1>2, SleepersAre DEF KernelInv, TypeOK
<1>4. q # <<>> /\ key[Head(q)] <= 0 /\ r = Tail(q) /\ Ready(Head(q), qkey)
  BY <1>1 DEF WakeupStep, Due
<1>5. Head(q) \in S /\ QueueOf(r, S \ {Head(q)})
  BY <1>3, <1>4, QueueTail
<1>6. \A x \in S \ {Head(q)} : key2[x] = key[x]
  <2>1. Head(q) \in Pids
    BY <1>3, <1>5
  <2> QED BY <1>1, <1>2, <1>3, <1>4, <2>1, ReadyLeaves, Zenon
<1>7. NoneNegative(q, key)
  BY <1>1, Zenon DEF DelayInv
<1>8. /\ \A x \in S \ {Head(q)} : LeftOf(r, key2, x) = LeftOf(q, key, x)
      /\ NoneNegative(r, key2)
  <2>1. FirstLeaves(q, key, S, r, key2)
    BY <1>3, <1>4, <1>6, Zenon DEF FirstLeaves
  <2> QED BY <1>7, <2>1, LeftWoken, Zenon
<1>9. SameLeft(q, key, r, key2)
  BY <1>3, <1>5, <1>8, InQueueIs, Zenon DEF SameLeft
<1>10. cont'[currpid'].op = "wakeup"
  <2>1. cont[currpid].op = "wakeup" /\ cont' = cont
    BY DEF WakeupStep, Continues
  <2>2. Defer.ndefers > 0
    BY <2>1, InLoop DEF LoopOps
  <2>3. Head(q) \in Pids /\ prstate[Head(q)] \notin {"CURR", "READY"}
    BY <1>2, <1>3, <1>5, SleepersAre
  <2>4. currpid' = currpid
    BY <1>4, <2>2, <2>3, InvFacts, ReadySchedules
  <2> QED BY <2>1, <2>4
<1> QED BY <1>1, <1>8, <1>9, <1>10, Zenon DEF DelayAfter

(* The clock interrupt. *)
LEMMA TickDelays ==
  ASSUME KernelInv, KernelInv', DelayInv, ClockTick
  PROVE  /\ \A x \in Pids : InQueue(sleepq, x) /\ InQueue(sleepq', x) =>
              LeftOf(sleepq', qkey', x) = LeftOf(sleepq, qkey, x) - IF sleepq # <<>> THEN 1 ELSE 0
         /\ NoneNegative(sleepq', qkey')
         /\ cont'[currpid'].op = "wakeup" \/ NotDue(sleepq', qkey')
PROOF
<1>1. PICK q, key, key2 : q = sleepq /\ key = qkey /\ key2 = qkey'
  OBVIOUS
<1>2. PICK S : S = SleepSet(prstate)
  OBVIOUS
<1>3. QueueOf(q, S) /\ S \subseteq Pids /\ key \in [Pids -> Int] /\ key2 \in [Pids -> Int]
  BY <1>1, <1>2, SleepersAre DEF KernelInv, TypeOK
<1>4. sleepq' = q /\ UserMode
  BY <1>1 DEF ClockTick
<1>5. NoneNegative(q, key) /\ NotDue(q, key)
  BY <1>1, <1>4 DEF DelayInv, UserMode
<1>6. CASE q = <<>>
  <2>1. \A x \in Pids : ~InQueue(q, x)
    BY <1>6 DEF InQueue
  <2>2. NoneNegative(q, key2) /\ NotDue(q, key2)
    BY <1>6 DEF NoneNegative, NotDue
  <2> QED BY <1>1, <1>4, <2>1, <2>2, Zenon
<1>7. CASE q # <<>>
  <2>1. PICK h \in S : h = Head(q)
    BY <1>3, <1>7, QueueTail
  <2>2. PICK ticked \in [Pids -> Int] : ticked = [key EXCEPT ![h] = @ - 1]
    <3>1. h \in Pids /\ key[h] - 1 \in Int
      BY <1>3, <2>1
    <3>2. [key EXCEPT ![h] = @ - 1] \in [Pids -> Int]
      BY <1>3, <3>1
    <3> QED BY <3>2, Zenon
  <2>3. \/ ticked[h] > 0 /\ TimeSlice(ticked)
        \/ /\ key2 = ticked /\ UNCHANGED currpid
           /\ Then(Cont("wakeup", 0, 0))
    BY <1>1, <1>7, <2>1, <2>2, Zenon DEF ClockTick
  <2>4. \A x \in S : key2[x] = ticked[x]
    <3>1. ASSUME TimeSlice(ticked) PROVE \A x \in S : key2[x] = ticked[x]
      BY <1>1, <1>2, <3>1, TimeSliceLeaves, Zenon
    <3> QED BY <2>3, <3>1, Zenon
  <2>5. \A x \in S : key2[x] = [key EXCEPT ![Head(q)] = @ - 1][x]
    BY <2>1, <2>2, <2>4, Zenon
  <2>6. /\ \A x \in S : LeftOf(q, key2, x) = LeftOf(q, key, x) - 1
        /\ NoneNegative(q, key2)
    BY ONLY <1>3, <1>5, <1>7, <2>5, LeftTicked
  <2>7. \A x \in Pids : InQueue(q, x) => LeftOf(q, key2, x) = LeftOf(q, key, x) - 1
    BY <1>3, <2>6, InQueueIs, Zenon
  <2>8. cont'[currpid'].op = "wakeup" \/ NotDue(q, key2)
    <3>1. CASE ticked[h] > 0
      <4>1. key2[Head(q)] > 0
        BY <2>1, <2>4, <3>1, Zenon
      <4> QED BY <4>1, Zenon DEF NotDue
    <3>2. CASE Then(Cont("wakeup", 0, 0)) /\ UNCHANGED currpid
      BY <3>2, SleepersAre, ContType DEF Then, Cont
    <3> QED BY <2>3, <3>1, <3>2, Zenon
  <2>9. \A x \in Pids : InQueue(sleepq, x) /\ InQueue(sleepq', x) =>
          LeftOf(sleepq', qkey', x) = LeftOf(sleepq, qkey, x) - 1
    BY <1>1, <1>4, <2>7, Zenon
  <2> QED BY <1>1, <1>4, <1>7, <2>6, <2>8, <2>9, Zenon
<1> QED BY <1>6, <1>7
LEMMA DeliverDelays ==
  ASSUME KernelInv, KernelInv', DelayInv, NotDue(sleepq, qkey),
         NEW dst \in Pids, NEW msg, Deliver(dst, msg)
  PROVE  DelayAfter
PROOF
<1>1. CASE UNCHANGED schedVars /\ UNCHANGED sleepq
  BY <1>1, KeptDelays DEF schedVars
<1>2. CASE prstate[dst] = "RECV" /\ Ready(dst, qkey) /\ UNCHANGED sleepq
  <2>1. dst \notin SleepSet(prstate)
    BY <1>2 DEF SleepSet
  <2>2. \A x \in SleepSet(prstate) : qkey'[x] = qkey[x]
    <3>1. \A x \in SleepSet(prstate) \ {dst} : qkey'[x] = qkey[x]
      BY <1>2, SleepersAre, ReadyLeaves, Zenon
    <3> QED BY <2>1, <3>1
  <2> QED BY <1>2, <2>2, KeptDelays
<1>3. CASE /\ prstate[dst] = "RECTIM" /\ sleepq' = GetItem(sleepq, dst)
           /\ Ready(dst, KeyAfterUnsleep(sleepq, qkey, dst))
  <2>1. dst \in SleepSet(prstate)
    BY <1>3 DEF SleepSet
  <2>2. PICK key \in [Pids -> Int] : key = KeyAfterUnsleep(sleepq, qkey, dst)
    BY <2>1, UnsleepKeys
  <2>3. \A x \in SleepSet(prstate) \ {dst} : qkey'[x] = key[x]
    BY <1>3, <2>2, ReadyLeaves, Zenon
  <2> QED BY <1>3, <2>1, <2>2, <2>3, RemovedDelaysKept, Zenon
<1> QED BY <1>1, <1>2, <1>3 DEF Deliver

LEMMA PopLeaves ==
  ASSUME KernelInv, NEW s \in Sems, squeue[s] # <<>>, Ready(Head(squeue[s]), qkey)
  PROVE  \A x \in SleepSet(prstate) : qkey'[x] = qkey[x]
PROOF
<1>1. Head(squeue[s]) \in WaitSet(prstate, prsem, s)
  BY InvFacts, QueueTail
<1>2. PICK pid \in Pids : pid = Head(squeue[s]) /\ prstate[pid] = "WAIT"
  BY <1>1 DEF WaitSet
<1>3. pid \notin SleepSet(prstate)
  BY <1>2 DEF SleepSet
<1>4. \A x \in SleepSet(prstate) \ {pid} : qkey'[x] = qkey[x]
  BY <1>2, SleepersAre, ReadyLeaves, Zenon
<1> QED BY <1>3, <1>4

LEMMA ReleaseLeaves ==
  ASSUME KernelInv, NEW s \in Sems, Release(s), cont[currpid].op # "semreset"
  PROVE  \A x \in SleepSet(prstate) : qkey'[x] = qkey[x]
PROOF
<1>1. CASE scount[s] < 0 /\ Ready(Head(squeue[s]), qkey)
  <2>1. Len(squeue[s]) = -scount[s] /\ scount[s] \in Int /\ squeue[s] \in Seq(Pids)
    BY <1>1, SemTypes DEF KernelInv, SemaphoreCount
  <2>2. squeue[s] # <<>>
    BY <1>1, <2>1
  <2> QED BY <1>1, <2>2, PopLeaves
<1>2. CASE UNCHANGED schedVars
  BY <1>2 DEF schedVars
<1> QED BY <1>1, <1>2 DEF Release

(* The calls, when no process can wait for no time. *)
LEMMA CallDelays ==
  ASSUME KernelInv, KernelInv', DelayInv, 0 \notin Waits, Call
  PROVE  DelayAfter
PROOF
<1>1. UserMode
  BY DEF Call, Calls, Create, Chprio, CreateNoStack, Resume, SuspendReady, Kill, Send, Sleepms,
         RecvtimeBlock, Wait, Signal, Semdelete, Semcreate, Signaln, Semreset, SuspendSelf, Yield,
         ReceiveNow, ReceiveBlock, RecvNoWait
<1>2. NotDue(sleepq, qkey)
  BY <1>1 DEF DelayInv, UserMode
<1>3. ASSUME UNCHANGED <<sleepq, qkey>> PROVE DelayAfter
  BY <1>2, <1>3, KeptDelays
<1>4. ASSUME UNCHANGED sleepq, \A x \in SleepSet(prstate) : qkey'[x] = qkey[x] PROVE DelayAfter
  BY <1>2, <1>4, KeptDelays
<1>5. ASSUME NEW st, st # "CURR", Block(st, qkey), UNCHANGED sleepq PROVE DelayAfter
  <2>1. qkey' = qkey
    BY <1>5, BlockLeaves, Zenon
  <2> QED BY <1>3, <1>5, <2>1
<1>6. ASSUME NEW pid \in Pids, NEW prio \in Prios, Create(pid, prio) \/ Chprio(pid, prio)
      PROVE  DelayAfter
  BY <1>3, <1>6 DEF Create, Chprio, schedVars
<1>7. ASSUME NEW pid \in Pids, CreateNoStack(pid) \/ SuspendReady(pid) PROVE DelayAfter
  BY <1>3, <1>7 DEF CreateNoStack, SuspendReady, schedVars
<1>8. ASSUME NEW pid \in Pids, Resume(pid) PROVE DelayAfter
  <2>1. prstate[pid] = "SUSP" /\ Ready(pid, qkey) /\ UNCHANGED sleepq
    BY <1>8 DEF Resume
  <2>2. pid \notin SleepSet(prstate)
    BY <2>1 DEF SleepSet
  <2>3. \A x \in SleepSet(prstate) \ {pid} : qkey'[x] = qkey[x]
    BY <2>1, SleepersAre, ReadyLeaves, Zenon
  <2> QED BY <1>4, <2>1, <2>2, <2>3
<1>9. ASSUME NEW pid \in Pids, Kill(pid) PROVE DelayAfter
  <2>1. prparent[pid] \in Pids
    BY DEF KernelInv, TypeOK
  <2>2. CASE UNCHANGED <<schedVars, sleepq>>
    BY <1>3, <2>2 DEF schedVars
  <2>3. CASE Deliver(prparent[pid], pid)
    BY <1>2, <2>1, <2>3, DeliverDelays
  <2> QED BY <1>9, <2>2, <2>3 DEF Kill
<1>10. ASSUME NEW pid \in Pids, NEW msg \in Msgs, Send(pid, msg) PROVE DelayAfter
  BY <1>2, <1>10, DeliverDelays DEF Send
<1>11. ASSUME NEW d \in Delays, Sleepms(d) PROVE DelayAfter
  <2>1. d \in Nat \ {0} /\ BlockFor("SLEEP", d)
    BY <1>11, CallArguments DEF Sleepms
  <2> QED BY <1>2, <2>1, BlockForDelays
<1>12. ASSUME NEW w \in Waits, RecvtimeBlock(w) PROVE DelayAfter
  <2>1. w \in Nat \ {0} /\ BlockFor("RECTIM", w)
    BY <1>12, CallArguments DEF RecvtimeBlock
  <2> QED BY <1>2, <2>1, BlockForDelays
<1>13. ASSUME NEW s \in Sems, Wait(s) PROVE DelayAfter
  BY <1>3, <1>5, <1>13 DEF Wait, schedVars
<1>14. ASSUME NEW s \in Sems, Signal(s) PROVE DelayAfter
  <2>1. Release(s) /\ cont[currpid].op # "semreset" /\ UNCHANGED sleepq
    BY <1>1, <1>14 DEF Signal, UserMode
  <2> QED BY <1>4, <2>1, ReleaseLeaves
<1>15. ASSUME NEW s \in Sems,
              Semdelete(s) \/ \E n \in Counts : Semcreate(s, n) \/ Signaln(s, n) \/ Semreset(s, n)
       PROVE  DelayAfter
  BY <1>3, <1>15 DEF Semdelete, Semcreate, Signaln, Semreset, schedVars
<1>16. ASSUME SuspendSelf \/ ReceiveBlock PROVE DelayAfter
  BY <1>5, <1>16 DEF SuspendSelf, ReceiveBlock
<1>17. ASSUME Yield PROVE DelayAfter
  <2>1. Resched(prstate, readylist, qkey, preempt) /\ UNCHANGED sleepq
    BY <1>17 DEF Yield
  <2>2. \A x \in SleepSet(prstate) : qkey'[x] = qkey[x]
    BY <2>1, SleepersAre, YieldKeys, Zenon
  <2> QED BY <1>4, <2>1, <2>2
<1>18. ASSUME ReceiveNow \/ RecvNoWait PROVE DelayAfter
  BY <1>3, <1>18 DEF ReceiveNow, RecvNoWait, schedVars
<1> QED BY <1>6, <1>7, <1>8, <1>9, <1>10, <1>11, <1>12, <1>13, <1>14, <1>15, <1>16, <1>17, <1>18
        DEF Call

LEMMA KillRestDelays ==
  ASSUME KernelInv, KernelInv', DelayInv, KillRest
  PROVE  DelayAfter
PROOF
<1> DEFINE pid == cont[currpid].id
           freed == [prstate EXCEPT ![pid] = "FREE"]
<1>1. cont[currpid].op = "kill"
  BY DEF KillRest, Continues
<1>2. pid \in Pids
  BY <1>1, InvFacts DEF KernelInv, Targets
<1>3. NotDue(sleepq, qkey)
  BY <1>1 DEF DelayInv
<1>4. \/ Resched(freed, readylist, qkey, preempt) /\ UNCHANGED sleepq
      \/ /\ prstate[pid] \in {"SLEEP", "RECTIM"}
         /\ qkey' = KeyAfterUnsleep(sleepq, qkey, pid)
         /\ sleepq' = GetItem(sleepq, pid)
      \/ UNCHANGED <<qkey, sleepq>>
  BY Zenon DEF KillRest
<1> HIDE DEF freed, pid
<1>5. CASE Resched(freed, readylist, qkey, preempt) /\ UNCHANGED sleepq
  <2>1. \A x \in SleepSet(prstate) : qkey'[x] = qkey[x]
    BY <1>5, SleepersAre, YieldKeys, Zenon
  <2> QED BY <1>3, <1>5, <2>1, KeptDelays
<1>6. CASE /\ prstate[pid] \in {"SLEEP", "RECTIM"}
           /\ qkey' = KeyAfterUnsleep(sleepq, qkey, pid)
           /\ sleepq' = GetItem(sleepq, pid)
  <2>1. pid \in SleepSet(prstate)
    BY <1>2, <1>6 DEF SleepSet
  <2> QED BY <1>3, <1>6, <2>1, RemovedDelaysKept, Zenon
<1>7. CASE UNCHANGED <<qkey, sleepq>>
  BY <1>3, <1>7, KeptDelays
<1> QED BY <1>4, <1>5, <1>6, <1>7

LEMMA KernelDelays ==
  ASSUME KernelInv, KernelInv', DelayInv, Kernel
  PROVE  DelayAfter
PROOF
<1>1. CASE WakeupStep
  BY <1>1, WakeupDelays
<1>2. CASE KillRest
  BY <1>2, KillRestDelays
<1>3. CASE WakeupDone
  <2>1. ~Due /\ DeferStop /\ UNCHANGED sleepq
    BY <1>3 DEF WakeupDone
  <2>2. NotDue(sleepq, qkey)
    <3>1. sleepq # <<>> => Head(sleepq) \in Pids
      BY SleepersAre, QueueTail
    <3> QED BY <2>1, <3>1, SleepersAre DEF Due, NotDue
  <2> QED BY <2>1, <2>2, DeferStopLeaves, KeptDelays
<1>4. ASSUME cont[currpid].op # "wakeup", UNCHANGED sleepq,
             \A x \in SleepSet(prstate) : qkey'[x] = qkey[x]
      PROVE  DelayAfter
  BY <1>4, KeptDelays DEF DelayInv
<1>5. cont[currpid].op \in SemOps => cont[currpid].id \in Sems
  BY InvFacts DEF KernelInv, Targets
<1>6. CASE ReceiveRest
  BY <1>4, <1>6 DEF ReceiveRest, Continues, schedVars
<1>7. CASE TickRest
  <2>1. TimeSlice(qkey) /\ UNCHANGED sleepq /\ cont[currpid].op # "wakeup"
    BY <1>7 DEF TickRest, Continues
  <2> QED BY <1>4, <2>1, SleepersAre, TimeSliceLeaves
<1>8. CASE SignalnStep \/ SemdeleteStep
  <2>1. /\ Release(cont[currpid].id) /\ cont[currpid].id \in Sems /\ UNCHANGED sleepq
        /\ cont[currpid].op \notin {"semreset", "wakeup"}
    BY <1>5, <1>8 DEF SignalnStep, SemdeleteStep, Continues, SemOps
  <2> QED BY <1>4, <2>1, ReleaseLeaves
<1>9. CASE SemresetStep
  <2>1. /\ cont[currpid].id \in Sems /\ squeue[cont[currpid].id] # <<>> /\ UNCHANGED sleepq
        /\ Ready(Head(squeue[cont[currpid].id]), qkey) /\ cont[currpid].op # "wakeup"
    BY <1>5, <1>9 DEF SemresetStep, Continues, SemOps
  <2> QED BY <1>4, <2>1, PopLeaves
<1>10. CASE SignalnDone \/ SemdeleteDone \/ SemresetDone
  <2>1. DeferStop /\ UNCHANGED sleepq /\ cont[currpid].op # "wakeup"
    BY <1>10 DEF SignalnDone, SemdeleteDone, SemresetDone, Continues
  <2> QED BY <1>4, <2>1, DeferStopLeaves
<1> QED BY <1>1, <1>2, <1>3, <1>6, <1>7, <1>8, <1>9, <1>10 DEF Kernel

LEMMA DelayStep ==
  ASSUME KernelInv, DelayInv, 0 \notin Waits, [Next]_vars
  PROVE  /\ DelayInv'
         /\ UNCHANGED vars
            \/ \A p \in Pids : Asleep(p) /\ Asleep(p)' =>
                 Remaining(p)' = Remaining(p) - IF ClockTick /\ sleepq # <<>> THEN 1 ELSE 0
PROOF
<1>1. KernelInv'
  BY NextInv
<1>2. /\ \A p \in Pids : (Asleep(p) <=> InQueue(sleepq, p)) /\ (Asleep(p)' <=> InQueue(sleepq', p))
      /\ \A p \in Pids : /\ Remaining(p) = LeftOf(sleepq, qkey, p)
                         /\ Remaining(p)' = LeftOf(sleepq', qkey', p)
  BY Zenon DEF Asleep, InQueue, Remaining, LeftOf
<1>3. CASE UNCHANGED vars
  BY <1>3, Zenon DEF vars, schedVars, DelayInv, NoneNegative, NotDue
<1>4. CASE ClockTick
  BY <1>1, <1>2, <1>4, TickDelays, Zenon DEF DelayInv
<1>5. CASE ~ClockTick /\ (Call \/ Kernel)
  <2>1. DelayAfter
    BY <1>1, <1>5, CallDelays, KernelDelays
  <2>2. DelayInv'
    BY <2>1, Zenon DEF DelayAfter, DelayInv
  <2>3. ASSUME NEW p \in Pids, Asleep(p), Asleep(p)' PROVE Remaining(p)' = Remaining(p) - 0
    <3>1. Remaining(p)' = Remaining(p)
      BY <1>2, <2>1, <2>3, Zenon DEF DelayAfter, SameLeft
    <3>2. PICK r \in Int : r = Remaining(p)
      <4>1. p \in SleepSet(prstate)
        BY <1>2, <2>3, SleepersAre, InQueueIs, Zenon
      <4>2. LeftOf(sleepq, qkey, p) \in Int
        BY <4>1, SleepersAre, LeftIsInt, Zenon
      <4> QED BY <1>2, <2>3, <4>2, Zenon
    <3>3. r - 0 = r
      OBVIOUS
    <3> QED BY <3>1, <3>2, <3>3, Zenon
  <2> QED BY <1>5, <2>2, <2>3, Zenon
<1> QED BY <1>3, <1>4, <1>5 DEF Next, Halted

(* Before the first step nobody sleeps. *)
LEMMA DelayInit == Init => DelayInv
PROOF BY DEF Init, DelayInv, NoneNegative, NotDue

(* DelayInv always holds. *)
LEMMA DelayAlways ==
  ASSUME 0 \notin Waits
  PROVE  Spec => []DelayInv
PROOF
<1>1. KernelInv /\ DelayInv /\ [Next]_vars => DelayInv'
  BY DelayStep
<1> QED BY <1>1, DelayInit, KernelInvariant, PTL DEF Spec

(* Nobody's delay changes because somebody else falls asleep, wakes or is   *)
(* killed: insertd(), unsleep() and clkhandler() never lose a tick.         *)
THEOREM OthersKeepDelayAlways ==
  ASSUME 0 \notin Waits
  PROVE  Spec => OthersKeepDelay
PROOF
<1>1. KernelInv /\ DelayInv /\ [Next]_vars
      => [\A p \in Pids : Asleep(p) /\ Asleep(p)' =>
            Remaining(p)' = Remaining(p) - IF ClockTick /\ sleepq # <<>> THEN 1 ELSE 0]_vars
  BY DelayStep, Zenon
<1> QED BY <1>1, DelayAlways, KernelInvariant, PTL DEF Spec, OthersKeepDelay
=============================================================================
