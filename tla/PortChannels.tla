---------------------------- MODULE PortChannels ----------------------------
(***************************************************************************)
(* What ports promise (system/ptcreate.c, ptsend.c, ptrecv.c, ptreset.c,   *)
(* ptdelete.c), without processes and semaphores: each port is a channel,  *)
(* open or not, that holds at most as many messages as it was created for, *)
(* and hands them out in the order in which they were put in, each once.   *)
(***************************************************************************)
EXTENDS Naturals, Sequences

CONSTANTS Channels, Messages, Sizes

VARIABLES open, room, chan
channelVars == <<open, room, chan>>

Init ==
  /\ open = [c \in Channels |-> FALSE]
  /\ room = [c \in Channels |-> 0]
  /\ chan = [c \in Channels |-> <<>>]

Put(c) ==
  /\ open[c] /\ Len(chan[c]) < room[c]
  /\ \E m \in Messages : chan' = [chan EXCEPT ![c] = Append(@, m)]
  /\ UNCHANGED <<open, room>>

Get(c) ==
  /\ open[c] /\ chan[c] # <<>>
  /\ chan' = [chan EXCEPT ![c] = Tail(@)]
  /\ UNCHANGED <<open, room>>

Shut(c) ==
  /\ open[c]
  /\ open' = [open EXCEPT ![c] = FALSE]
  /\ chan' = [chan EXCEPT ![c] = <<>>]
  /\ room' = [room EXCEPT ![c] = 0]

OpenUp(c) ==
  /\ ~open[c]
  /\ open' = [open EXCEPT ![c] = TRUE]
  /\ \E n \in Sizes : room' = [room EXCEPT ![c] = n]
  /\ UNCHANGED chan

Next == \E c \in Channels : Put(c) \/ Get(c) \/ Shut(c) \/ OpenUp(c)
Spec == Init /\ [][Next]_channelVars
=============================================================================
