-------------------------------- MODULE Tty ---------------------------------
(***************************************************************************)
(* The serial terminal (device/tty, tty.h).  Calls run with interrupts     *)
(* disabled, so a read or a write is one step up to a wait that blocks; an *)
(* interrupt is one step for each character that has arrived, or for each  *)
(* time that the transmitter is empty.  A process that has been released   *)
(* from a wait runs some time later, after any number of interrupts.       *)
(* Left out: the framing of the UART, its line and modem status interrupts *)
(* (which the handler ignores), and cbreak mode's difference from raw mode *)
(* in echoing.                                                             *)
(***************************************************************************)
EXTENDS SemaphoreOps, FiniteSets, FiniteSetsExt

CONSTANTS
  TtyReaders, TtyWriters,    \* processes
  Printable, Control,        \* characters echoed as one and as two
  TY_IBUFLEN, TY_OBUFLEN, TY_EBUFLEN, UART_FIFO_SIZE,
  ReadCounts, WriteCounts    \* counts asked of ttyread, and characters ttywrite puts

ASSUME TtySizes ==
  /\ TY_IBUFLEN \in Nat \ {0} /\ TY_OBUFLEN \in Nat \ {0} /\ TY_EBUFLEN \in Nat \ {0}
  /\ UART_FIFO_SIZE \in Nat \ {0}
  /\ ReadCounts \subseteq Nat \ {0} /\ WriteCounts \subseteq Nat \ {0}
  /\ IsFiniteSet(TtyReaders) /\ IsFiniteSet(TtyWriters)

VARIABLES
  tyihead, tyitail, tyibuff,      \* indices and contents of the input buffer
  tyisem, tyicursor, tyimode,
  tyohead, tyotail, tyosem,       \* the output buffer
  tyecho,                         \* the characters between tyehead and tyetail
  tyoheld,
  thre,       \* the UART will say that its transmitter is empty
  reading,    \* [TtyReaders]: characters a read still wants, 0 if there is none
  manner,     \* [TtyReaders]: the loop of ttyread it is in: "first", "line" or "raw"
  writing,    \* [TtyWriters]: characters a write still has to put
  spoilt,     \* the input buffer no longer holds what was typed
  overtaken,  \* more has been sent than has been stored
  silently    \* output was let go on and the UART not told

inVars == <<tyihead, tyitail, tyibuff, tyisem, tyicursor, tyimode>>
outVars == <<tyohead, tyotail, tyosem>>
ttyVars == <<inVars, outVars, tyecho, tyoheld, thre, reading, manner, writing,
             spoilt, overtaken, silently>>

TtyInit ==
  /\ tyihead = 0 /\ tyitail = 0
  /\ tyibuff = [i \in 0..(TY_IBUFLEN - 1) |-> "none"]
  /\ tyisem = NewSem(0) /\ tyicursor = 0 /\ tyimode = "cooked"
  /\ tyohead = 0 /\ tyotail = 0 /\ tyosem = NewSem(TY_OBUFLEN)
  /\ tyecho = 0 /\ tyoheld = FALSE /\ thre = TRUE
  /\ reading = [r \in TtyReaders |-> 0] /\ manner = [r \in TtyReaders |-> "raw"]
  /\ writing = [w \in TtyWriters |-> 0]
  /\ spoilt = FALSE /\ overtaken = FALSE /\ silently = FALSE

(* Behind these the buffers hold something else: nothing is modelled after it. *)
TtySound == ~spoilt /\ ~overtaken

PositiveOr0(n) == IF n > 0 THEN n ELSE 0
LetThrough(waits, s) == {p \in DOMAIN waits : waits[p] > 0 /\ ~WaitsAt(p, s)}

(* Characters that may be read: the units, and those of the released readers. *)
Readable == PositiveOr0(tyisem.count) + Cardinality(LetThrough(reading, tyisem))

(* The n characters from the i-th of the input buffer on. *)
Typed(i, n) == [k \in 1..n |-> tyibuff[(tyihead + i + k - 1) % TY_IBUFLEN]]

-----------------------------------------------------------------------------
(* ttygetc and ttyread *)

(* A read of so many characters, of which units may be had, ends its first k. *)
LineEnds(units) == {k \in 1..units : tyibuff[(tyihead + k - 1) % TY_IBUFLEN] = "newline"}
AtEndOfFile(how) == tyimode = "cooked" /\ how = "first" /\ tyibuff[tyihead] = "eof"

(* A read goes on until it has its count, or a line, or has to wait; extra is
   1 for a reader that was just released, which has one character for certain. *)
ReadOn(r, want, how, extra) ==
  LET units == PositiveOr0(tyisem.count) + extra
      ends == (IF how = "raw" THEN {} ELSE LineEnds(units))
              \cup (IF units > 0 /\ AtEndOfFile(how) THEN {1} ELSE {})
      k == Min({want, units} \cup ends)
      done == k = want \/ k \in ends
      left == [tyisem EXCEPT !.count = @ - (k - extra)]
  IN
  /\ tyihead' = (tyihead + k) % TY_IBUFLEN
  /\ tyisem' = IF done THEN left ELSE Blocks(left, r)
  /\ reading' = [reading EXCEPT ![r] = IF done THEN 0 ELSE want - k]
  /\ manner' = [manner EXCEPT ![r] = IF done THEN "raw" ELSE IF how = "first" /\ k > 0 THEN "line" ELSE how]
  /\ UNCHANGED <<tyitail, tyibuff, tyicursor, tyimode, outVars, tyecho, tyoheld, thre, writing,
                 spoilt, overtaken, silently>>

(* A count of 0, in raw mode, asks for as many as there are. *)
TtyRead(r, count) ==
  /\ TtySound /\ reading[r] = 0
  /\ ReadOn(r, count, IF tyimode = "cooked" THEN "first" ELSE "raw", 0)

TtyReadOn(r) ==
  /\ TtySound /\ reading[r] > 0 /\ ~WaitsAt(r, tyisem)
  /\ ReadOn(r, reading[r], manner[r], 1)

-----------------------------------------------------------------------------
(* ttyputc, ttywrite, ttykickout *)

TtyKickout == thre' = TRUE /\ silently' = FALSE

WriteOn(w, want, extra) ==
  LET units == PositiveOr0(tyosem.count)
      k == Min({want, units + extra})
      left == [tyosem EXCEPT !.count = @ - (k - extra)]
  IN
  /\ tyotail' = (tyotail + k) % TY_OBUFLEN
  /\ tyosem' = IF k = want THEN left ELSE Blocks(left, w)
  /\ writing' = [writing EXCEPT ![w] = want - k]
  /\ IF k > 0 THEN TtyKickout ELSE UNCHANGED <<thre, silently>>
  /\ UNCHANGED <<inVars, tyohead, tyecho, tyoheld, reading, manner, spoilt, overtaken>>

TtyWrite(w, count) == TtySound /\ writing[w] = 0 /\ WriteOn(w, count, 0)
TtyWriteOn(w) ==
  /\ TtySound /\ writing[w] > 0 /\ ~WaitsAt(w, tyosem)
  /\ WriteOn(w, writing[w], 1)

-----------------------------------------------------------------------------
(* ttyhandle_out *)

Stored == TY_OBUFLEN - PositiveOr0(tyosem.count) - Cardinality(LetThrough(writing, tyosem))

SignalsOnce(n) == Signal(tyosem)           \* fault: one unit whatever was sent
SignalsEach(n) == SignalN(tyosem, n)

TtyHandleOut ==
  LET echoes == Min({tyecho, UART_FIFO_SIZE})
      avail == TY_OBUFLEN - tyosem.count
      ochars == PositiveOr0(Min({avail, UART_FIFO_SIZE - echoes}))
  IN
  /\ TtySound /\ thre
  /\ CASE tyoheld ->
            /\ thre' = FALSE
            /\ UNCHANGED <<tyecho, outVars, overtaken>>
       [] ~tyoheld /\ tyecho = 0 /\ tyosem.count >= TY_OBUFLEN ->
            /\ thre' = FALSE
            /\ UNCHANGED <<tyecho, outVars, overtaken>>
       [] OTHER ->
            /\ tyecho' = tyecho - echoes
            /\ tyohead' = (tyohead + ochars) % TY_OBUFLEN
            /\ tyosem' = IF ochars > 0 THEN SignalsEach(ochars) ELSE tyosem
            /\ overtaken' = (ochars > Stored)
            /\ UNCHANGED <<thre, tyotail>>
  /\ UNCHANGED <<inVars, tyoheld, reading, manner, writing, spoilt, silently>>

-----------------------------------------------------------------------------
(* ttyhandle_in: one operator for each kind of character.  What each leaves  *)
(* to its caller is the echo: that many characters through eputc.            *)

Echoes(n) ==
  IF n = 0 THEN UNCHANGED <<tyecho, thre>> /\ silently' = (silently \/ tyoheld)
  ELSE tyecho' = (tyecho + n) % TY_EBUFLEN /\ TtyKickout

EchoOf(c) == IF c \in Printable THEN 1 ELSE 2      \* echoch: \r\n, ^X
ErasedEchoOf(c) == IF c \in Printable THEN 3 ELSE 6

Avail == PositiveOr0(tyisem.count)

(* c is stored at the tail: over a character still to be read if there is no room. *)
StoreTyped(c) ==
  /\ tyibuff' = [tyibuff EXCEPT ![tyitail] = c]
  /\ tyitail' = (tyitail + 1) % TY_IBUFLEN
  /\ spoilt' = (Readable + tyicursor >= TY_IBUFLEN)

NothingStored == UNCHANGED <<tyibuff, tyitail, spoilt>>

(* Raw and cbreak mode; in raw mode nothing is special and nothing echoed. *)
RawChar(c) ==
  /\ tyimode = "raw"
  /\ IF Avail < TY_IBUFLEN
     THEN StoreTyped(c) /\ tyisem' = Signal(tyisem)
     ELSE NothingStored /\ UNCHANGED tyisem
  /\ UNCHANGED <<tyicursor, tyecho, tyoheld, thre, silently>>

FlowControl(c) ==
  /\ tyimode = "cooked" /\ c \in {"start", "stop"}
  /\ tyoheld' = (c = "stop")
  /\ IF c = "start" THEN TtyKickout ELSE UNCHANGED <<thre, silently>>
  /\ NothingStored /\ UNCHANGED <<tyisem, tyicursor, tyecho>>

Cooked(c) == tyimode = "cooked" /\ c \notin {"start", "stop"} /\ tyoheld' = FALSE

CursorKept == UNCHANGED tyicursor          \* fault: the cursor stays behind the kill
CursorReset == tyicursor' = 0

KillChar(c) ==
  /\ Cooked(c) /\ c = "kill"
  /\ tyitail' = (tyitail - tyicursor) % TY_IBUFLEN
  /\ CursorReset
  /\ Echoes(2)
  /\ UNCHANGED <<tyibuff, tyisem, spoilt>>

EraseChar(c) ==
  /\ Cooked(c) /\ c = "erase"
  /\ IF tyicursor = 0
     THEN Echoes(0) /\ UNCHANGED <<tyitail, tyicursor>>
     ELSE /\ tyitail' = (tyitail - 1) % TY_IBUFLEN
          /\ tyicursor' = tyicursor - 1
          /\ Echoes(ErasedEchoOf(tyibuff[(tyitail - 1) % TY_IBUFLEN]))
  /\ UNCHANGED <<tyibuff, tyisem, spoilt>>

NewlineChar(c) ==
  /\ Cooked(c) /\ c = "newline"
  /\ Echoes(EchoOf(c))
  /\ StoreTyped(c)
  /\ tyisem' = SignalN(tyisem, tyicursor + 1)
  /\ tyicursor' = 0

BufferFull == Avail + tyicursor >= TY_IBUFLEN - 1
BellChar(c) ==
  /\ Cooked(c) /\ c \notin {"kill", "erase", "newline"} /\ BufferFull
  /\ Echoes(1)
  /\ NothingStored /\ UNCHANGED <<tyisem, tyicursor>>

(* The tail is not wrapped here, and may be left behind the end of the buffer. *)
EofChar(c) ==
  /\ Cooked(c) /\ c = "eof" /\ ~BufferFull
  /\ Echoes(EchoOf(c))
  /\ IF tyicursor # 0
     THEN NothingStored /\ UNCHANGED tyisem
     ELSE /\ tyibuff' = [tyibuff EXCEPT ![tyitail] = c]
          /\ tyitail' = tyitail + 1
          /\ spoilt' = (tyitail + 1 = TY_IBUFLEN \/ Readable >= TY_IBUFLEN)
          /\ tyisem' = Signal(tyisem)
  /\ UNCHANGED tyicursor

OrdinaryChar(c) ==
  /\ Cooked(c) /\ c \in Printable \cup Control /\ ~BufferFull
  /\ Echoes(EchoOf(c))
  /\ StoreTyped(c)
  /\ tyicursor' = tyicursor + 1
  /\ UNCHANGED tyisem

TtyHandleIn(c) ==
  /\ TtySound
  /\ \/ RawChar(c) \/ FlowControl(c) \/ KillChar(c) \/ EraseChar(c) \/ NewlineChar(c)
     \/ BellChar(c) \/ EofChar(c) \/ OrdinaryChar(c)
  /\ UNCHANGED <<tyihead, tyimode, outVars, reading, manner, writing, overtaken>>

(* ttycontrol: a mode set in the middle of a line counts its characters wrongly. *)
TtyControl ==
  /\ TtySound
  /\ tyimode' \in {"cooked", "raw"} \ {tyimode}
  /\ spoilt' = (tyicursor > 0)
  /\ UNCHANGED <<tyihead, tyitail, tyibuff, tyisem, tyicursor, outVars, tyecho, tyoheld, thre,
                 reading, manner, writing, overtaken, silently>>

(* What happens to the input buffer, and to the output buffer; characters that
   are typed also change the course of the output. *)
TtyInputNext ==
  \/ \E r \in TtyReaders : (\E n \in ReadCounts : TtyRead(r, n)) \/ TtyReadOn(r)
  \/ \E c \in Printable \cup Control \cup {"newline", "eof", "erase", "kill"} : TtyHandleIn(c)
  \/ TtyControl
  \/ TtyHandleOut

TtyOutputNext ==
  \/ \E w \in TtyWriters : (\E n \in WriteCounts : TtyWrite(w, n)) \/ TtyWriteOn(w)
  \/ \E c \in {"erase", "kill", "start", "stop"} : TtyHandleIn(c)
  \/ TtyHandleOut

TtyNext == TtyInputNext \/ TtyOutputNext
TtySpec == TtyInit /\ [][TtyNext]_ttyVars

-----------------------------------------------------------------------------
(* Properties *)

(* What is typed is read as LineEditing says, as long as there was room for it
   and the mode was not set in the middle of a line. *)
Line == INSTANCE LineEditing WITH
  Printable <- Printable \cup Control, Room <- TY_IBUFLEN,
  ready <- Typed(0, Readable), line <- Typed(Readable, tyicursor)
EditsAsPromised == Line!Init /\ [][spoilt' \/ Line!Next]_(Line!lineVars)

(* The indices of the output buffer and its semaphore agree, however many
   interrupts come between the release of a writer and its next step, as long as
   no more has been sent than had been stored. *)
OutputAgrees == ~overtaken => (tyotail - tyohead) % TY_OBUFLEN = Stored % TY_OBUFLEN

(* Output that is not held is going out: the UART will interrupt again for what
   is still in a buffer, unless a character typed let held output go on and
   echoed nothing. *)
OutputGoesOn == ~tyoheld /\ (Stored > 0 \/ tyecho > 0) => thre \/ silently

(* The output side of the console, between writers and the interrupt handler. *)
OutputSound == OutputAgrees /\ OutputGoesOn
=============================================================================
