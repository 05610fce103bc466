---------------------------- MODULE LineEditing -----------------------------
(***************************************************************************)
(* What the terminal promises of its input (device/tty): characters are    *)
(* read in the order typed, each once; in cooked mode a line may be edited *)
(* until it ends and is read only then, and an end-of-file stands alone at *)
(* the beginning of a line.                                                *)
(***************************************************************************)
EXTENDS Naturals, Sequences

CONSTANTS Printable, Room

VARIABLES
  ready,     \* what has been typed and may be read
  line       \* the line that is being typed
lineVars == <<ready, line>>

Init == ready = <<>> /\ line = <<>>

Type ==
  /\ Len(ready) + Len(line) < Room
  /\ \E c \in Printable : line' = Append(line, c)
  /\ UNCHANGED ready

EraseOne ==
  /\ line # <<>>
  /\ line' = SubSeq(line, 1, Len(line) - 1)
  /\ UNCHANGED ready

KillLine == line' = <<>> /\ UNCHANGED ready

EndLine ==
  /\ Len(ready) + Len(line) < Room
  /\ ready' = ready \o Append(line, "newline")
  /\ line' = <<>>

EndFile ==
  /\ line = <<>> /\ Len(ready) < Room
  /\ ready' = Append(ready, "eof")
  /\ UNCHANGED line

(* In the other modes every character may be read at once. *)
TypeRaw ==
  /\ line = <<>> /\ Len(ready) < Room
  /\ \E c \in Printable \cup {"newline", "eof", "erase", "kill", "start", "stop"} :
       ready' = Append(ready, c)
  /\ UNCHANGED line

Read ==
  /\ \E k \in 1..Len(ready) : ready' = SubSeq(ready, k + 1, Len(ready))
  /\ UNCHANGED line

Next == Type \/ EraseOne \/ KillLine \/ EndLine \/ EndFile \/ TypeRaw \/ Read
Spec == Init /\ [][Next]_lineVars
=============================================================================
