------------------------------ MODULE MCNetwork ------------------------------
(***************************************************************************)
(* The network's components, each by itself: a behaviour is one of the     *)
(* component `part', and the others stay as they began, so that the state  *)
(* space is the sum of the components'.                                    *)
(***************************************************************************)
EXTENDS Arp, Udp, Icmp, Ip, Eth, Rfs, Tftp

(* Room for more than the file, for less, and just for it, in one buffer or two. *)
BufferListsDef == {<<9>>, <<1, 2>>, <<3, 2>>, <<4>>}

VARIABLE part
networkVars == <<part, arpVars, udpVars, icmpVars, ipVars, rxVars, txVars,
                 rfsVars, tftpVars>>

NetworkInit ==
  /\ part \in {"arp", "udp", "icmp", "ip", "eth input", "eth output", "remote files", "tftp"}
  /\ ArpInit /\ UdpInit /\ IcmpInit /\ IpInit /\ RxInit /\ TxInit /\ RfsInit
  /\ TftpInit

(* The components other than `running' do nothing. *)
Others(running) ==
  /\ part = running /\ UNCHANGED part
  /\ IF part = "arp" THEN TRUE ELSE UNCHANGED arpVars
  /\ IF part = "udp" THEN TRUE ELSE UNCHANGED udpVars
  /\ IF part = "icmp" THEN TRUE ELSE UNCHANGED icmpVars
  /\ IF part = "ip" THEN TRUE ELSE UNCHANGED ipVars
  /\ IF part = "eth input" THEN TRUE ELSE UNCHANGED rxVars
  /\ IF part = "eth output" THEN TRUE ELSE UNCHANGED txVars
  /\ IF part = "remote files" THEN TRUE ELSE UNCHANGED rfsVars
  /\ IF part = "tftp" THEN TRUE ELSE UNCHANGED tftpVars

(* Bound: once processes have been in each other's way at a slot of ICMP, one
   slot at most is in use. *)
DisturbedAlone == icdisturbed => Cardinality(InUse) <= 1

NetworkNext ==
  \/ Others("arp") /\ ArpNext
  \/ Others("udp") /\ UdpNext
  \/ Others("icmp") /\ IcmpNext /\ DisturbedAlone'
  \/ Others("ip") /\ IpNext
  \/ Others("eth input") /\ RxNext
  \/ Others("eth output") /\ TxNext
  \/ Others("remote files") /\ RfsNext
  \/ Others("tftp") /\ TftpNext

NetworkSpec == NetworkInit /\ [][NetworkNext]_networkVars
=============================================================================
