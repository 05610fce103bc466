------------------------------ MODULE XinuKernel ------------------------------
(***************************************************************************)
(* The process layer of the kernel: the process table, the ready list and  *)
(* the scheduler, the clock with its delta list of sleepers, counting      *)
(* semaphores, and the one-word messages processes send each other.        *)
(*                                                                         *)
(* The machine has one processor and every system call runs with           *)
(* interrupts disabled, so what can happen between two steps of a process  *)
(* happens where it reschedules.  An action is what the current process    *)
(* does up to its next call of resched(), or one iteration of a loop of    *)
(* the kernel; `cont[p]' is what p still has to do in the kernel when it   *)
(* gets the processor back.  While cont[currpid] is not "user", interrupts *)
(* are off and only the current process moves.                             *)
(*                                                                         *)
(* The processes themselves are arbitrary programs: in user mode the       *)
(* current process may make any of the calls in Syscalls, in any order.    *)
(***************************************************************************)
EXTENDS Integers, Sequences, FiniteSets, XinuQueues

CONSTANTS
  NPROC,        \* size of the process table
  NSEM,         \* size of the semaphore table
  QUANTUM,      \* clock ticks of a time slice
  InitPrio,     \* INITPRIO, the priority of the startup process
  Syscalls,     \* the calls the processes of this instance make
  Prios,        \* priorities passed to create and chprio
  Delays,       \* delays passed to sleepms
  Waits,        \* waiting times passed to recvtime
  Msgs,         \* messages passed to send
  Counts,       \* counts passed to semcreate, signaln and semreset
  MaxCount      \* bound: no signal raises a semaphore's count above this

NULLPROC == 0
Pids == 0..(NPROC - 1)
Sems == 0..(NSEM - 1)
MINKEY == -2147483647 - 1

ASSUME TableSizes == /\ NPROC \in Nat /\ NPROC >= 2
                     /\ NSEM \in Nat
                     /\ QUANTUM \in Nat \ {0}
ASSUME PrioRange == /\ InitPrio \in Nat \ {0}
                    /\ Prios \subseteq Nat \ {0}
ASSUME CallArguments == /\ Delays \subseteq Nat \ {0}
                        /\ Waits \subseteq Nat
                        /\ Msgs \subseteq Int
                        /\ Counts \subseteq Nat
                        /\ MaxCount \in Nat

VARIABLES
  prstate, prprio, prsem, prparent, prmsg, prhasmsg,  \* proctab[] by field
  prcount,      \* what the kernel takes for the number of processes
  currpid,      \* the process that has the processor
  nextpid,      \* where newpid() starts to look
  readylist,    \* eligible processes, by descending key
  sleepq,       \* the delta list of sleeping processes
  qkey,         \* queuetab[].qkey of the process nodes
  sstate, scount, squeue, \* semtab[] by field
  nextsem,      \* where newsem() starts to look
  Defer,        \* deferred rescheduling: ndefers, attempt
  preempt,      \* ticks left of the current time slice
  cont,         \* what each process has left to do in the kernel
  halted        \* the processor has been stopped by xdone()

schedVars == <<prstate, currpid, readylist, qkey, preempt, Defer>>
procVars  == <<prprio, prparent, prcount, nextpid>>
msgVars   == <<prmsg, prhasmsg>>
semVars   == <<prsem, sstate, scount, squeue, nextsem>>
vars == <<schedVars, procVars, msgVars, semVars, sleepq, cont, halted>>

States == {"FREE", "CURR", "READY", "RECV", "SLEEP", "SUSP", "WAIT", "RECTIM"}

(* What a process has left to do: `id' is the process or the semaphore of  *)
(* the call, `n' its count.                                                *)
Ops == {"user", "receive", "recvtime", "kill", "wakeup", "tick",
        "signaln", "semdelete", "semreset"}
Cont(op, id, n) == [op |-> op, id |-> id, n |-> n]
User == Cont("user", 0, 0)
Then(c) == cont' = [cont EXCEPT ![currpid] = c]

Live(p) == p \in Pids /\ prstate[p] # "FREE"     \* ~ isbadpid(p)
UsedSem(s) == s \in Sems /\ sstate[s] # "FREE"
UserMode == ~halted /\ cont[currpid].op = "user"
Calls(c) == c \in Syscalls /\ UserMode /\ currpid # NULLPROC
Continues(op) == ~halted /\ cont[currpid].op = op

(* sysinit, and nulluser up to the resume of the startup process. *)
Init ==
  /\ prstate = [p \in Pids |-> IF p = 0 THEN "READY"
                               ELSE IF p = 1 THEN "CURR" ELSE "FREE"]
  /\ prprio = [p \in Pids |-> IF p = 1 THEN InitPrio ELSE 0]
  /\ prsem = [p \in Pids |-> -1]
  /\ prparent = [p \in Pids |-> NULLPROC]
  /\ prmsg = [p \in Pids |-> 0]
  /\ prhasmsg = [p \in Pids |-> FALSE]
  /\ prcount = 2 /\ currpid = 1 /\ nextpid = 2 % NPROC
  /\ readylist = <<NULLPROC>> /\ sleepq = <<>>
  /\ qkey = [p \in Pids |-> IF p = 1 THEN InitPrio ELSE 0]
  /\ sstate = [s \in Sems |-> "FREE"]
  /\ scount = [s \in Sems |-> 0]
  /\ squeue = [s \in Sems |-> <<>>]
  /\ nextsem = 0
  /\ Defer = [ndefers |-> 0, attempt |-> FALSE]
  /\ preempt = QUANTUM
  /\ cont = [p \in Pids |-> User]
  /\ halted = FALSE

-----------------------------------------------------------------------------
(* resched(), called when the process states, the ready list, the keys and *)
(* the preemption counter are ps, rl, qk and pre.                          *)

Keeps(ps, rl, qk) ==
  ps[currpid] = "CURR" /\ prprio[currpid] > FirstKey(rl, qk, MINKEY)

Stay(ps, rl, qk, pre) ==
  /\ prstate' = ps /\ readylist' = rl /\ qkey' = qk /\ preempt' = pre
  /\ UNCHANGED currpid

(* The current process, if it is still eligible, goes behind the ready
   processes of its priority; the head of the ready list gets the processor. *)
Switch(ps, rl, qk) ==
  LET old == currpid
      yields == ps[old] = "CURR"
      rl2 == IF yields THEN Insert(rl, qk, old, prprio[old]) ELSE rl
      ps2 == IF yields THEN [ps EXCEPT ![old] = "READY"] ELSE ps
  IN  /\ qkey' = IF yields THEN KeyAfterInsert(qk, old, prprio[old]) ELSE qk
      /\ currpid' = Head(rl2)
      /\ readylist' = Tail(rl2)
      /\ prstate' = [ps2 EXCEPT ![Head(rl2)] = "CURR"]
      /\ preempt' = QUANTUM

ReschedNow(ps, rl, qk, pre) ==
  \/ Keeps(ps, rl, qk) /\ Stay(ps, rl, qk, pre)
  \/ ~Keeps(ps, rl, qk) /\ Switch(ps, rl, qk)

Resched(ps, rl, qk, pre) ==
  \/ /\ Defer.ndefers > 0
     /\ Defer' = [Defer EXCEPT !.attempt = TRUE]
     /\ Stay(ps, rl, qk, pre)
  \/ /\ Defer.ndefers = 0
     /\ ReschedNow(ps, rl, qk, pre)
     /\ UNCHANGED Defer

(* resched_cntl(DEFER_START) and resched_cntl(DEFER_STOP) *)
DeferStart ==
  Defer' = [ndefers |-> Defer.ndefers + 1,
            attempt |-> Defer.ndefers > 0 /\ Defer.attempt]

DeferStopHeld ==        \* fault: the end of a deferral is not counted
  /\ IF Defer.ndefers = 1 /\ Defer.attempt
     THEN ReschedNow(prstate, readylist, qkey, preempt)
     ELSE UNCHANGED <<prstate, currpid, readylist, qkey, preempt>>
  /\ UNCHANGED Defer

DeferStop ==
  /\ Defer' = [Defer EXCEPT !.ndefers = @ - 1]
  /\ IF Defer.ndefers = 1 /\ Defer.attempt
     THEN ReschedNow(prstate, readylist, qkey, preempt)
     ELSE UNCHANGED <<prstate, currpid, readylist, qkey, preempt>>

ReadyNoResched(pid, qk) ==   \* fault: ready() leaves rescheduling to others
  /\ Stay([prstate EXCEPT ![pid] = "READY"],
          Insert(readylist, qk, pid, prprio[pid]),
          KeyAfterInsert(qk, pid, prprio[pid]),
          preempt)
  /\ UNCHANGED Defer

(* ready(pid), when the keys are qk. *)
Ready(pid, qk) ==
  Resched([prstate EXCEPT ![pid] = "READY"],
          Insert(readylist, qk, pid, prprio[pid]),
          KeyAfterInsert(qk, pid, prprio[pid]),
          preempt)

(* The current process blocks in state st and gives the processor away. *)
Block(st, qk) == Resched([prstate EXCEPT ![currpid] = st], readylist, qk, preempt)

-----------------------------------------------------------------------------
(* Processes *)

(* A slot is next in a table of n slots searched cyclically from `start'. *)
NextFree(i, start, n, free) ==
  i \in free /\ \A j \in free : (i - start) % n <= (j - start) % n

FreePids == {p \in Pids : prstate[p] = "FREE"}
FreeSems == {s \in Sems : sstate[s] = "FREE"}

(* create: the new process is suspended, and its parent is the caller. *)
Create(pid, prio) ==
  /\ Calls("create")
  /\ NextFree(pid, nextpid, NPROC, FreePids)
  /\ nextpid' = (pid + 1) % NPROC
  /\ prcount' = prcount + 1
  /\ prstate' = [prstate EXCEPT ![pid] = "SUSP"]
  /\ prprio' = [prprio EXCEPT ![pid] = prio]
  /\ prsem' = [prsem EXCEPT ![pid] = -1]
  /\ prparent' = [prparent EXCEPT ![pid] = currpid]
  /\ prhasmsg' = [prhasmsg EXCEPT ![pid] = FALSE]
  /\ cont' = [cont EXCEPT ![pid] = User]
  /\ UNCHANGED <<prmsg, currpid, readylist, sleepq, qkey, sstate, scount,
                 squeue, nextsem, Defer, preempt, halted>>

(* create finds a slot but no memory for the stack: newpid() has moved on. *)
CreateNoStack(pid) ==
  /\ Calls("create-nostack")
  /\ NextFree(pid, nextpid, NPROC, FreePids)
  /\ nextpid' = (pid + 1) % NPROC
  /\ UNCHANGED <<schedVars, prprio, prparent, prcount, msgVars, semVars,
                 sleepq, cont, halted>>

ResumeReceiver(pid) ==       \* fault: resume also takes receivers
  /\ Calls("resume")
  /\ prstate[pid] \in {"SUSP", "RECV"}
  /\ Ready(pid, qkey)
  /\ UNCHANGED <<procVars, msgVars, semVars, sleepq, cont, halted>>

Resume(pid) ==
  /\ Calls("resume")
  /\ prstate[pid] = "SUSP"
  /\ Ready(pid, qkey)
  /\ UNCHANGED <<procVars, msgVars, semVars, sleepq, cont, halted>>

SuspendReceiver(pid) ==      \* fault: suspend also takes receivers
  /\ Calls("suspend")
  /\ pid # NULLPROC /\ prstate[pid] \in {"READY", "RECV"}
  /\ prstate' = [prstate EXCEPT ![pid] = "SUSP"]
  /\ readylist' = IF prstate[pid] = "READY" THEN GetItem(readylist, pid) ELSE readylist
  /\ UNCHANGED <<currpid, qkey, preempt, Defer, procVars, msgVars, semVars,
                 sleepq, cont, halted>>

SuspendReady(pid) ==
  /\ Calls("suspend")
  /\ pid # NULLPROC /\ prstate[pid] = "READY"
  /\ prstate' = [prstate EXCEPT ![pid] = "SUSP"]
  /\ readylist' = GetItem(readylist, pid)
  /\ UNCHANGED <<currpid, qkey, preempt, Defer, procVars, msgVars, semVars,
                 sleepq, cont, halted>>

SuspendSelf ==
  /\ Calls("suspend")
  /\ Block("SUSP", qkey)
  /\ UNCHANGED <<procVars, msgVars, semVars, sleepq, cont, halted>>

ChprioKey(pid, prio) ==      \* fault: the key changes too, in place
  /\ Calls("chprio")
  /\ Live(pid)
  /\ prprio' = [prprio EXCEPT ![pid] = prio]
  /\ qkey' = [qkey EXCEPT ![pid] = prio]
  /\ UNCHANGED <<prstate, currpid, readylist, preempt, Defer, prparent,
                 prcount, nextpid, msgVars, semVars, sleepq, cont, halted>>

(* chprio changes the priority, and neither the place in the ready list nor
   the key there. *)
Chprio(pid, prio) ==
  /\ Calls("chprio")
  /\ Live(pid)
  /\ prprio' = [prprio EXCEPT ![pid] = prio]
  /\ UNCHANGED <<schedVars, prparent, prcount, nextpid, msgVars, semVars,
                 sleepq, cont, halted>>

(* yield, and sleepms(0) *)
Yield ==
  /\ Calls("yield")
  /\ Resched(prstate, readylist, qkey, preempt)
  /\ UNCHANGED <<procVars, msgVars, semVars, sleepq, cont, halted>>

-----------------------------------------------------------------------------
(* Messages *)

(* send refuses a destination that is no process or still has a message. *)
RefusedDeadOnly(dst) == ~Live(dst)      \* fault: a message is overwritten
Refused(dst) == ~Live(dst) \/ prhasmsg[dst]

(* The body of send(dst, msg): a receiver that waits, with or without a
   timeout, is made ready. *)
Deliver(dst, msg) ==
  \/ /\ Refused(dst)
     /\ UNCHANGED <<schedVars, sleepq, msgVars>>
  \/ /\ ~Refused(dst)
     /\ prmsg' = [prmsg EXCEPT ![dst] = msg]
     /\ prhasmsg' = [prhasmsg EXCEPT ![dst] = TRUE]
     /\ \/ /\ prstate[dst] = "RECV"
           /\ Ready(dst, qkey)
           /\ UNCHANGED sleepq
        \/ /\ prstate[dst] = "RECTIM"
           /\ sleepq' = GetItem(sleepq, dst)
           /\ Ready(dst, KeyAfterUnsleep(sleepq, qkey, dst))
        \/ /\ prstate[dst] \notin {"RECV", "RECTIM"}
           /\ UNCHANGED <<schedVars, sleepq>>

Send(pid, msg) ==
  /\ Calls("send")
  /\ ~Refused(pid)
  /\ Deliver(pid, msg)
  /\ UNCHANGED <<procVars, semVars, cont, halted>>

(* The end of receive and recvtime: the message, if there is one, is taken. *)
Take == prhasmsg' = [prhasmsg EXCEPT ![currpid] = FALSE] /\ UNCHANGED prmsg

ReceiveNow ==
  /\ Calls("receive")
  /\ prhasmsg[currpid]
  /\ Take
  /\ UNCHANGED <<schedVars, procVars, semVars, sleepq, cont, halted>>

ReceiveBlock ==
  /\ Calls("receive")
  /\ ~prhasmsg[currpid]
  /\ Block("RECV", qkey)
  /\ Then(Cont("receive", 0, 0))
  /\ UNCHANGED <<procVars, msgVars, semVars, sleepq, halted>>

(* insertd(currpid, sleepq, d), blocking in state st. *)
BlockFor(st, d) ==
  \E i \in 1..(Len(sleepq) + 1), k \in 0..d :
    /\ IsDelayPos(sleepq, qkey, d, i)
    /\ k = d - Delay(sleepq, qkey, i - 1)
    /\ sleepq' = InsertAt(sleepq, i, currpid)
    /\ Block(st, KeyAfterInsertd(sleepq, qkey, currpid, i, k))

RecvtimeBlock(w) ==
  /\ Calls("recvtime")
  /\ ~prhasmsg[currpid]
  /\ BlockFor("RECTIM", w)
  /\ Then(Cont("recvtime", 0, 0))
  /\ UNCHANGED <<procVars, msgVars, semVars, halted>>

(* recvclr, and recvtime when a message is waiting *)
RecvNoWait ==
  /\ Calls("recvclr") \/ Calls("recvtime")
  /\ prhasmsg[currpid]
  /\ Take
  /\ UNCHANGED <<schedVars, procVars, semVars, sleepq, cont, halted>>

(* receive and recvtime go on after their call of resched: both take the
   message; recvtime finds none when its timer has expired. *)
ReceiveRest ==
  /\ Continues("receive") \/ Continues("recvtime")
  /\ Take
  /\ Then(User)
  /\ UNCHANGED <<schedVars, procVars, semVars, sleepq, halted>>

-----------------------------------------------------------------------------
(* kill *)

LastProcessAtZero(n) == n <= 0          \* fault: the null process counts too
LastProcess(n) == n <= 1

(* kill(pid) up to its message to the parent, where it may lose the
   processor; the last user process stops the machine. *)
Kill(pid) ==
  /\ Calls("kill")
  /\ pid # NULLPROC /\ Live(pid)
  /\ prcount' = prcount - 1
  /\ \/ /\ LastProcess(prcount - 1)
        /\ halted' = TRUE
        /\ UNCHANGED <<schedVars, msgVars, sleepq, cont>>
     \/ /\ ~LastProcess(prcount - 1)
        /\ Deliver(prparent[pid], pid)
        /\ Then(Cont("kill", pid, 0))
        /\ UNCHANGED halted
  /\ UNCHANGED <<prprio, prparent, nextpid, semVars>>

(* A process that waited on semaphore s is taken off it. *)
LeaveUncounted(s, pid) ==    \* fault: the count still includes the dead process
  /\ squeue' = [squeue EXCEPT ![s] = GetItem(@, pid)]
  /\ UNCHANGED scount
Leave(s, pid) ==
  /\ scount' = [scount EXCEPT ![s] = @ + 1]
  /\ squeue' = [squeue EXCEPT ![s] = GetItem(@, pid)]

(* kill(pid) from there on: what pid is now decides what it is taken off. *)
KillRest ==
  LET pid == cont[currpid].id
      freed == [prstate EXCEPT ![pid] = "FREE"]
  IN
  /\ Continues("kill")
  /\ cont' = [cont EXCEPT ![pid] = User, ![currpid] = User]
  /\ \/ /\ prstate[pid] = "CURR"                  \* suicide
        /\ Resched(freed, readylist, qkey, preempt)
        /\ UNCHANGED <<sleepq, scount, squeue>>
     \/ /\ prstate[pid] # "CURR"
        /\ prstate' = freed
        /\ UNCHANGED <<currpid, preempt, Defer>>
        /\ \/ /\ prstate[pid] \in {"SLEEP", "RECTIM"}
              /\ qkey' = KeyAfterUnsleep(sleepq, qkey, pid)
              /\ sleepq' = GetItem(sleepq, pid)
              /\ UNCHANGED <<readylist, scount, squeue>>
           \/ /\ prstate[pid] = "WAIT"
              /\ Leave(prsem[pid], pid)
              /\ UNCHANGED <<readylist, sleepq, qkey>>
           \/ /\ prstate[pid] = "READY"
              /\ readylist' = GetItem(readylist, pid)
              /\ UNCHANGED <<sleepq, qkey, scount, squeue>>
           \/ /\ prstate[pid] \in {"RECV", "SUSP", "FREE"}
              /\ UNCHANGED <<readylist, sleepq, qkey, scount, squeue>>
  /\ UNCHANGED <<procVars, msgVars, prsem, sstate, nextsem, halted>>

-----------------------------------------------------------------------------
(* Semaphores *)

Semcreate(s, count) ==
  /\ Calls("semcreate")
  /\ NextFree(s, nextsem, NSEM, FreeSems)
  /\ nextsem' = (s + 1) % NSEM
  /\ sstate' = [sstate EXCEPT ![s] = "USED"]
  /\ scount' = [scount EXCEPT ![s] = count]
  /\ UNCHANGED <<schedVars, procVars, msgVars, prsem, squeue, sleepq, cont, halted>>

Wait(s) ==
  /\ Calls("wait")
  /\ UsedSem(s)
  /\ scount' = [scount EXCEPT ![s] = @ - 1]
  /\ \/ /\ scount[s] > 0
        /\ UNCHANGED <<schedVars, prsem, squeue>>
     \/ /\ scount[s] <= 0
        /\ prsem' = [prsem EXCEPT ![currpid] = s]
        /\ squeue' = [squeue EXCEPT ![s] = Enqueue(@, currpid)]
        /\ Block("WAIT", qkey)
  /\ UNCHANGED <<procVars, msgVars, sstate, nextsem, sleepq, cont, halted>>

(* One unit for semaphore s: the first waiting process, if there is one. *)
Release(s) ==
  /\ scount' = [scount EXCEPT ![s] = @ + 1]
  /\ \/ /\ scount[s] < 0
        /\ squeue' = [squeue EXCEPT ![s] = Tail(@)]
        /\ Ready(Head(squeue[s]), qkey)
     \/ /\ scount[s] >= 0
        /\ UNCHANGED <<schedVars, squeue>>

Signal(s) ==
  /\ Calls("signal")
  /\ UsedSem(s) /\ scount[s] < MaxCount
  /\ Release(s)
  /\ UNCHANGED <<procVars, msgVars, prsem, sstate, nextsem, sleepq, cont, halted>>

Signaln(s, n) ==
  /\ Calls("signaln")
  /\ UsedSem(s) /\ scount[s] + n <= MaxCount
  /\ DeferStart
  /\ Then(Cont("signaln", s, n))
  /\ UNCHANGED <<prstate, currpid, readylist, qkey, preempt, procVars, msgVars,
                 semVars, sleepq, halted>>

SignalnStep ==
  LET c == cont[currpid] IN
  /\ Continues("signaln")
  /\ c.n > 0
  /\ Release(c.id)
  /\ Then([c EXCEPT !.n = @ - 1])
  /\ UNCHANGED <<procVars, msgVars, prsem, sstate, nextsem, sleepq, halted>>

SignalnDone ==
  /\ Continues("signaln")
  /\ cont[currpid].n = 0
  /\ DeferStop
  /\ Then(User)
  /\ UNCHANGED <<procVars, msgVars, semVars, sleepq, halted>>

Semdelete(s) ==
  /\ Calls("semdelete")
  /\ UsedSem(s)
  /\ sstate' = [sstate EXCEPT ![s] = "FREE"]
  /\ DeferStart
  /\ Then(Cont("semdelete", s, 0))
  /\ UNCHANGED <<prstate, currpid, readylist, qkey, preempt, procVars, msgVars,
                 prsem, scount, squeue, nextsem, sleepq, halted>>

HoldsBack(s) == scount[s] < 0

SemdeleteStep ==
  /\ Continues("semdelete")
  /\ HoldsBack(cont[currpid].id)
  /\ Release(cont[currpid].id)
  /\ UNCHANGED <<procVars, msgVars, prsem, sstate, nextsem, sleepq, cont, halted>>

(* The test that ends the loop increments the count once more. *)
SemdeleteDone ==
  /\ Continues("semdelete")
  /\ ~HoldsBack(cont[currpid].id)
  /\ scount' = [scount EXCEPT ![cont[currpid].id] = @ + 1]
  /\ DeferStop
  /\ Then(User)
  /\ UNCHANGED <<procVars, msgVars, prsem, sstate, squeue, nextsem, sleepq, halted>>

Semreset(s, count) ==
  /\ Calls("semreset")
  /\ UsedSem(s)
  /\ DeferStart
  /\ Then(Cont("semreset", s, count))
  /\ UNCHANGED <<prstate, currpid, readylist, qkey, preempt, procVars, msgVars,
                 semVars, sleepq, halted>>

(* semreset empties the queue and leaves the count for the end. *)
SemresetStep ==
  LET s == cont[currpid].id IN
  /\ Continues("semreset")
  /\ squeue[s] # <<>>
  /\ squeue' = [squeue EXCEPT ![s] = Tail(@)]
  /\ Ready(Head(squeue[s]), qkey)
  /\ UNCHANGED <<procVars, msgVars, prsem, sstate, scount, nextsem, sleepq,
                 cont, halted>>

SemresetDone ==
  LET c == cont[currpid] IN
  /\ Continues("semreset")
  /\ squeue[c.id] = <<>>
  /\ scount' = [scount EXCEPT ![c.id] = c.n]
  /\ DeferStop
  /\ Then(User)
  /\ UNCHANGED <<procVars, msgVars, prsem, sstate, squeue, nextsem, sleepq, halted>>

-----------------------------------------------------------------------------
(* Time *)

Sleepms(d) ==
  /\ Calls("sleepms")
  /\ BlockFor("SLEEP", d)
  /\ UNCHANGED <<procVars, msgVars, semVars, cont, halted>>

TimeSliceSpent(qk) ==        \* fault: the preemption counter is not reset
  \/ /\ preempt - 1 <= 0
     /\ Resched(prstate, readylist, qk, preempt - 1)
  \/ /\ preempt - 1 > 0
     /\ Stay(prstate, readylist, qk, preempt - 1)
     /\ UNCHANGED Defer

(* The end of clkhandler: the time slice. *)
TimeSlice(qk) ==
  \/ /\ preempt - 1 <= 0
     /\ Resched(prstate, readylist, qk, QUANTUM)
  \/ /\ preempt - 1 > 0
     /\ Stay(prstate, readylist, qk, preempt - 1)
     /\ UNCHANGED Defer

(* A clock interrupt: clkhandler, up to the loop of wakeup if the first
   sleeper's delay is over. *)
ClockTick ==
  LET ticked == [qkey EXCEPT ![Head(sleepq)] = @ - 1]
  IN
  /\ UserMode
  /\ \/ /\ sleepq = <<>>
        /\ TimeSlice(qkey)
        /\ UNCHANGED cont
     \/ /\ sleepq # <<>> /\ ticked[Head(sleepq)] > 0
        /\ TimeSlice(ticked)
        /\ UNCHANGED cont
     \/ /\ sleepq # <<>> /\ ticked[Head(sleepq)] <= 0
        /\ qkey' = ticked
        /\ DeferStart
        /\ Then(Cont("wakeup", 0, 0))
        /\ UNCHANGED <<prstate, currpid, readylist, preempt>>
  /\ UNCHANGED <<procVars, msgVars, semVars, sleepq, halted>>

Due == sleepq # <<>> /\ qkey[Head(sleepq)] <= 0

WakeupStep ==
  /\ Continues("wakeup")
  /\ Due
  /\ sleepq' = Tail(sleepq)
  /\ Ready(Head(sleepq), qkey)
  /\ UNCHANGED <<procVars, msgVars, semVars, cont, halted>>

WakeupDone ==
  /\ Continues("wakeup")
  /\ ~Due
  /\ DeferStop
  /\ Then(Cont("tick", 0, 0))
  /\ UNCHANGED <<procVars, msgVars, semVars, sleepq, halted>>

(* clkhandler goes on after wakeup, perhaps long after: the interrupted
   process may have lost the processor to one that woke up. *)
TickRest ==
  /\ Continues("tick")
  /\ TimeSlice(qkey)
  /\ Then(User)
  /\ UNCHANGED <<procVars, msgVars, semVars, sleepq, halted>>

(* halt() loops with interrupts disabled. *)
Halted == halted /\ UNCHANGED vars

-----------------------------------------------------------------------------
Kernel ==
  \/ ReceiveRest \/ KillRest \/ TickRest
  \/ WakeupStep \/ WakeupDone
  \/ SignalnStep \/ SignalnDone
  \/ SemdeleteStep \/ SemdeleteDone
  \/ SemresetStep \/ SemresetDone

Call ==
  \/ \E pid \in Pids, prio \in Prios : Create(pid, prio) \/ Chprio(pid, prio)
  \/ \E pid \in Pids : \/ CreateNoStack(pid) \/ Resume(pid)
                       \/ SuspendReady(pid) \/ Kill(pid)
  \/ \E pid \in Pids, msg \in Msgs : Send(pid, msg)
  \/ \E d \in Delays : Sleepms(d)
  \/ \E w \in Waits : RecvtimeBlock(w)
  \/ \E s \in Sems : Wait(s) \/ Signal(s) \/ Semdelete(s)
  \/ \E s \in Sems, n \in Counts :
       Semcreate(s, n) \/ Signaln(s, n) \/ Semreset(s, n)
  \/ SuspendSelf \/ Yield \/ ReceiveNow \/ ReceiveBlock \/ RecvNoWait

Next == Kernel \/ Call \/ ClockTick \/ Halted

Spec == Init /\ [][Next]_vars

(* The kernel's own steps follow each other without a pause, and a clock
   interrupt that comes while interrupts are disabled stays pending in the
   interrupt controller until they are enabled. *)
FairSpec == Spec /\ WF_vars(Kernel) /\ SF_vars(ClockTick)
-----------------------------------------------------------------------------
(* Invariants *)

(* Types.  preempt is an unsigned counter that clkhandler decrements before
   it compares: it must never be 0 when a tick comes. *)
TypeOK ==
  /\ prstate \in [Pids -> States]
  /\ prprio \in [Pids -> Nat]
  /\ prsem \in [Pids -> Sems \cup {-1}]
  /\ prparent \in [Pids -> Pids]
  /\ prmsg \in [Pids -> Msgs \cup Pids]
  /\ prhasmsg \in [Pids -> BOOLEAN]
  /\ prcount \in Int
  /\ currpid \in Pids
  /\ nextpid \in Pids
  /\ readylist \in Seq(Pids)
  /\ sleepq \in Seq(Pids)
  /\ qkey \in [Pids -> Int]
  /\ sstate \in [Sems -> {"FREE", "USED"}]
  /\ scount \in [Sems -> Int]
  /\ squeue \in [Sems -> Seq(Pids)]
  /\ nextsem \in Nat
  /\ Defer \in [ndefers : Nat, attempt : BOOLEAN]
  /\ preempt \in 1..QUANTUM
  /\ cont \in [Pids -> [op : Ops, id : Pids \cup Sems, n : Nat]]
  /\ halted \in BOOLEAN

Waiting(s) == {p \in Pids : prstate[p] = "WAIT" /\ prsem[p] = s}

(* Each process is on the one list its state says, once: a kill, a timeout,
   a message or a signal that reaches a process in any state leaves no dead
   entry behind and loses no process. *)
QueuesMatchStates ==
  /\ QueueOf(readylist, {p \in Pids : prstate[p] = "READY"})
  /\ QueueOf(sleepq, {p \in Pids : prstate[p] \in {"SLEEP", "RECTIM"}})
  /\ \A s \in Sems : QueueOf(squeue[s], Waiting(s))

(* currpid is the one current process, and the null process can always run,
   so that resched() finds a process whenever the current one blocks. *)
OneCurrent ==
  /\ \A p \in Pids : prstate[p] = "CURR" <=> p = currpid
  /\ prstate[NULLPROC] \in {"CURR", "READY"}

(* The negative count of a semaphore is the number of processes it holds
   back, whichever way they come and go: wait, signal, signaln, kill of a
   waiting process, semreset.  Only semreset's own loop is between the two. *)
SemaphoreCount ==
  \A s \in Sems :
    \/ Len(squeue[s]) = IF scount[s] < 0 THEN -scount[s] ELSE 0
    \/ cont[currpid].op = "semreset" /\ cont[currpid].id = s

(* A deleted semaphore holds nobody back once semdelete has returned: a
   process left on it could never be signalled. *)
FreeSemaphoreEmpty ==
  \A s \in Sems : sstate[s] = "FREE" =>
    \/ squeue[s] = <<>>
    \/ cont[currpid].op = "semdelete" /\ cont[currpid].id = s

(* A semaphore holds back exactly the processes its count owes, and none after
   it has been deleted. *)
SemaphoresSound == SemaphoreCount /\ FreeSemaphoreEmpty

(* Rescheduling is deferred in the loops of the kernel only: a program never
   runs with the scheduler held, and no process loses the processor in the
   middle of a loop. *)
DeferInLoops ==
  /\ Defer.ndefers = IF cont[currpid].op \in {"wakeup", "signaln", "semdelete", "semreset"}
                     THEN 1 ELSE 0
  /\ \A p \in Pids \ {currpid} :
       prstate[p] # "FREE" =>
         cont[p].op \in {"user", "receive", "recvtime", "kill", "tick"}

(* No lost wake-up: a process that waits for a message has none. *)
ReceiverHasNoMessage ==
  \A p \in Pids : prstate[p] \in {"RECV", "RECTIM"} => ~prhasmsg[p]

(* receive() takes prmsg without looking again: when its caller has got the
   processor back, through whatever suspend and resume, there is a message. *)
ReceiveReturnsMessage ==
  \A p \in Pids : cont[p].op = "receive" /\ prstate[p] # "RECV" => prhasmsg[p]

(* receive and recvtime, between messages, kills, suspend, resume and timeouts. *)
ReceiversSound == ReceiverHasNoMessage /\ ReceiveReturnsMessage

(* The ready list descends by key, also while chprio changes the priorities of
   the processes on it: insert and firstkey rely on that. *)
ReadySorted ==
  \A i, j \in 1..Len(readylist) : i < j => qkey[readylist[i]] >= qkey[readylist[j]]

(* Unless priorities are changed, nobody runs while a process of a higher
   priority is ready, except in the loops that defer rescheduling. *)
HighestPriorityRuns ==
  Defer.ndefers = 0 =>
    \A p \in Pids : prstate[p] = "READY" => prprio[currpid] >= prprio[p]

(* The machine halts at the latest with its last user process, however kills
   interleave: while it runs, some process other than the null process lives. *)
HaltsWithLast == halted \/ \E p \in Pids \ {NULLPROC} : prstate[p] # "FREE"

-----------------------------------------------------------------------------
(* Action properties *)

(* The delay, from now, of a process on the delta list. *)
Remaining(p) == Delay(sleepq, qkey, Index(sleepq, p))
Asleep(p) == \E i \in 1..Len(sleepq) : sleepq[i] = p

(* One process going to sleep, waking up, receiving or dying does not change
   the time that is left for another: only a clock interrupt does, by one. *)
OthersKeepDelay ==
  [][\A p \in Pids : Asleep(p) /\ Asleep(p)' =>
        Remaining(p)' = Remaining(p) - IF ClockTick /\ sleepq # <<>> THEN 1 ELSE 0]_vars

(* A message is kept until its receiver takes it: a second send, or the
   notice of a dying child, does not replace it. *)
MessageKept ==
  [][\A p \in Pids : prhasmsg[p] /\ prhasmsg'[p] /\ prstate[p] # "FREE"
        => prmsg'[p] = prmsg[p]]_vars

(* Processes leave a semaphore in the order of their waits: who comes later
   is behind, and nobody is made ready while a process before him waits. *)
NoOvertaking ==
  [][\A s \in Sems, x, y \in Pids :
       LET in(q, p) == \E i \in 1..Len(q) : q[i] = p
           q0 == squeue[s]
           q1 == squeue'[s]
       IN  in(q0, x) /\ in(q1, x) =>
             /\ ~in(q0, y) /\ in(q1, y) => Precedes(q1, x, y)
             /\ Precedes(q0, x, y) /\ in(q1, y) => Precedes(q1, x, y)
             /\ Precedes(q0, x, y) /\ ~in(q1, y) => prstate'[y] = "FREE"]_vars

(* Every step moves the processes along the arrows of the state diagram. *)
Diagram == INSTANCE ProcessDiagram WITH Procs <- Pids, null <- NULLPROC,
                                        state <- prstate
StateDiagram == Diagram!Spec

-----------------------------------------------------------------------------
(* What the sources say and the code does not do *)

(* kill.c:24, "Last user process completes": the machine halts only when the
   process that dies is the last user process, not counting those that a kill
   has begun to remove. *)
Dying == {cont[p].id : p \in {q \in Pids : cont[q].op = "kill"}}
HaltsOnlyWithLast ==
  halted => Cardinality({p \in Pids \ ({NULLPROC} \cup Dying) : prstate[p] # "FREE"}) <= 1

(* sleep.c:23, "Delay the calling process n milliseconds": the delay ends. *)
SleepEnds == \A p \in Pids : prstate[p] = "SLEEP" ~> prstate[p] # "SLEEP" \/ halted

-----------------------------------------------------------------------------
(* Liveness *)

(* With one priority for all, every ready process gets the processor, or is
   suspended or killed. *)
ReadyRuns == \A p \in Pids \ {NULLPROC} :
  prstate[p] = "READY" ~> prstate[p] # "READY" \/ halted

(* A process that sleeps, or receives with a timeout, does not do so for ever. *)
SleeperWakes ==
  \A p \in Pids : prstate[p] \in {"SLEEP", "RECTIM"} ~>
                  prstate[p] \notin {"SLEEP", "RECTIM"} \/ halted
=============================================================================
