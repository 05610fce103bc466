------------------------------- MODULE MCLocal -------------------------------
(***************************************************************************)
(* The components that serve the processes of one machine, each by itself: *)
(* a behaviour is one of the component `part', and the others stay as they *)
(* began, so that the state space is the sum of the components'.           *)
(***************************************************************************)
EXTENDS FirstFit, HeapMemory, BufferPools, Marks, Ports, Tty, Rds, Lfs

VARIABLE part
localVars == <<part, fitVars, heapVars, poolVars, markVars, portVars, ttyVars, rdsVars, lfsVars>>

AreasDef == <<[addr |-> 2, len |-> 6], [addr |-> 10, len |-> 8]>>

LocalInit ==
  /\ part \in {"vmalloc", "heap", "pools", "marks", "ports", "tty input", "tty output", "rds", "lfs"}
  /\ IF part = "vmalloc" THEN FitInit ELSE free = [v \in 0..LastPage |-> TRUE] /\ request = 1
  /\ HeapInit /\ PoolsInit /\ MarksInit /\ PortsInit /\ TtyInit /\ RdsInit /\ LfsInit

(* The components that are not in `running' do nothing. *)
Others(running) ==
  /\ part \in running /\ UNCHANGED part
  /\ IF part = "vmalloc" THEN TRUE ELSE UNCHANGED fitVars
  /\ IF part = "heap" THEN TRUE ELSE UNCHANGED heapVars
  /\ IF part = "pools" THEN TRUE ELSE UNCHANGED poolVars
  /\ IF part = "marks" THEN TRUE ELSE UNCHANGED markVars
  /\ IF part = "ports" THEN TRUE ELSE UNCHANGED portVars
  /\ IF part \in {"tty input", "tty output"} THEN TRUE ELSE UNCHANGED ttyVars
  /\ IF part = "rds" THEN TRUE ELSE UNCHANGED rdsVars
  /\ IF part = "lfs" THEN TRUE ELSE UNCHANGED lfsVars

LocalNext ==
  \/ Others({"vmalloc"}) /\ FitNext
  \/ Others({"heap"}) /\ HeapNext
  \/ Others({"pools"}) /\ PoolsNext
  \/ Others({"marks"}) /\ MarksNext
  \/ Others({"ports"}) /\ PortsNext
  \/ Others({"tty input"}) /\ TtyInputNext
  \/ Others({"tty output"}) /\ TtyOutputNext
  \/ Others({"rds"}) /\ RdsNext
  \/ Others({"lfs"}) /\ LfsNext

LocalSpec == LocalInit /\ [][LocalNext]_localVars
=============================================================================
