------------------------------ MODULE MCKernel ------------------------------
(***************************************************************************)
(* XinuKernel started where the startup process has created and resumed a  *)
(* process for every other slot of the table, all of one priority, and has *)
(* the processor again: the instances that study how running processes     *)
(* interact begin here, without the states in which they are created.      *)
(***************************************************************************)
EXTENDS XinuKernel

MCInit ==
  /\ prstate = [p \in Pids |-> IF p = 1 THEN "CURR" ELSE "READY"]
  /\ prprio = [p \in Pids |-> IF p = NULLPROC THEN 0 ELSE InitPrio]
  /\ prsem = [p \in Pids |-> -1]
  /\ prparent = [p \in Pids |-> IF p <= 1 THEN NULLPROC ELSE 1]
  /\ prmsg = [p \in Pids |-> 0]
  /\ prhasmsg = [p \in Pids |-> FALSE]
  /\ prcount = NPROC /\ currpid = 1 /\ nextpid = 0
  /\ readylist = [i \in 1..(NPROC - 1) |-> IF i = NPROC - 1 THEN NULLPROC ELSE i + 1]
  /\ sleepq = <<>>
  /\ qkey = prprio
  /\ sstate = [s \in Sems |-> "FREE"]
  /\ scount = [s \in Sems |-> 0]
  /\ squeue = [s \in Sems |-> <<>>]
  /\ nextsem = 0
  /\ Defer = [ndefers |-> 0, attempt |-> FALSE]
  /\ preempt = QUANTUM
  /\ cont = [p \in Pids |-> User]
  /\ halted = FALSE

MCSpec == MCInit /\ [][Next]_vars
MCFairSpec == MCSpec /\ WF_vars(Kernel) /\ SF_vars(ClockTick)
=============================================================================
