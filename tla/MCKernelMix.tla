---------------------------- MODULE MCKernelMix ----------------------------
(***************************************************************************)
(* Two mixes of calls on the instance of MCKernel: a behaviour makes the   *)
(* calls of one of them, chosen at its start, so that the state space is   *)
(* the sum of the two.                                                     *)
(***************************************************************************)
EXTENDS MCKernel

VARIABLE mix

SemaphoreCalls ==
  \/ \E s \in Sems : Wait(s) \/ Signal(s) \/ Semdelete(s)
  \/ \E s \in Sems, n \in Counts : Semcreate(s, n) \/ Signaln(s, n) \/ Semreset(s, n)
  \/ \E pid \in Pids, prio \in Prios : Chprio(pid, prio)

MessageCalls ==
  \/ \E pid \in Pids, msg \in Msgs : Send(pid, msg)
  \/ \E d \in Delays : Sleepms(d)
  \/ \E w \in Waits : RecvtimeBlock(w)
  \/ \E pid \in Pids : Resume(pid) \/ SuspendReady(pid)
  \/ SuspendSelf \/ ReceiveNow \/ ReceiveBlock \/ RecvNoWait

MixNext ==
  /\ UNCHANGED mix
  /\ \/ mix = "semaphores" /\ SemaphoreCalls
     \/ mix = "messages" /\ MessageCalls
     \/ \E pid \in Pids : Kill(pid)
     \/ Kernel \/ ClockTick \/ Halted

MixSpec ==
  MCInit /\ mix \in {"semaphores", "messages"} /\ [][MixNext]_<<vars, mix>>
=============================================================================
