--------------------------------- MODULE Rfs ---------------------------------
(***************************************************************************)
(* Remote files (device/rfs): every call waits for rf_mutex, looks at its  *)
(* control block, and, if the server is needed, makes one exchange:        *)
(* rfscomm sends the request, up to RF_RETRIES times, and passes over      *)
(* every reply that is not to this request.  The network loses and delays  *)
(* packets and keeps their order.                                          *)
(***************************************************************************)
EXTENDS Integers, Sequences, FiniteSets, FiniteSetsExt, SequencesExt, SemaphoreOps

CONSTANTS
  RfClients,     \* processes
  RfNames,       \* names of remote files
  RfDevs,        \* the pseudo-devices (Nrfl), a set of integers
  RfBytes,       \* the bytes written
  RfCounts,      \* the sizes asked for by read
  RfPositions,   \* the positions sought
  RfModes,       \* the mode strings, as sets of letters
  RF_RETRIES,
  MaxRfSeq, MaxRfWire   \* bounds: exchanges, and packets on the way

ASSUME RfSizes ==
  /\ RF_RETRIES \in Nat \ {0}
  /\ RfDevs \subseteq Nat /\ RfPositions \subseteq Nat /\ RfCounts \subseteq Int
  /\ {"none", "killed"} \cap RfClients = {}

VARIABLES
  rfltab,        \* [RfDevs]: [used, name, pos, mode]
  rf_mutex,      \* the semaphore
  rf_seq,        \* the next sequence number
  rfcall,        \* [RfClients]: "idle", "calling" or "killed"
  rfcomm,        \* the exchange of the holder of the mutex, or NoComm
  torfserver, fromrfserver,   \* the packets on the way
  rffiles,       \* [RfNames]: what the server holds
  rfknown,       \* [RfNames]: the same, as far as the calls' results tell
  rfanswered     \* every answer agreed with rfknown

rfsVars == <<rfltab, rf_mutex, rf_seq, rfcall, rfcomm, torfserver, fromrfserver,
             rffiles, rfknown, rfanswered>>

NoRfComm == [who |-> "none"]
NotOpen == [used |-> FALSE, name |-> "none", pos |-> 0, mode |-> {}]

Absent == [kind |-> "absent", data |-> <<>>]
Directory == [kind |-> "directory", data |-> <<>>]
FileOf(d) == [kind |-> "file", data |-> d]
Unknown == [kind |-> "unknown", data |-> <<>>]

RfsInit ==
  /\ rfltab = [d \in RfDevs |-> NotOpen]
  /\ rf_mutex = NewSem(1)
  /\ rf_seq = 1
  /\ rfcall = [c \in RfClients |-> "idle"]
  /\ rfcomm = NoRfComm
  /\ torfserver = <<>> /\ fromrfserver = <<>>
  /\ rffiles = [n \in RfNames |-> Absent]
  /\ rfknown = [n \in RfNames |-> Absent]
  /\ rfanswered = TRUE

-----------------------------------------------------------------------------
(* The server: what a request does to the entry of its name.  A second copy
   of a request finds what the first one did. *)

Overwritten(s, pos, b) ==
  [i \in 1..Max({Len(s), pos + 1}) |->
     IF i = pos + 1 THEN b ELSE IF i <= Len(s) THEN s[i] ELSE 0]

Granted(f, req) ==
  CASE req.op = "open"  -> /\ f.kind # "directory"
                           /\ "o" \in req.mode => f.kind = "file"
                           /\ "n" \in req.mode => f.kind = "absent"
    [] req.op = "mkdir" -> f.kind = "absent"
    [] req.op = "rmdir" -> f.kind = "directory"
    [] OTHER            -> f.kind = "file"

Effect(f, req) ==
  CASE req.op = "open"  -> IF f.kind = "absent" THEN FileOf(<<>>) ELSE f
    [] req.op = "mkdir" -> Directory
    [] req.op \in {"rmdir", "delete"} -> Absent
    [] req.op = "truncate" -> FileOf(<<>>)
    [] req.op = "write" -> FileOf(Overwritten(f.data, req.pos, req.byte))
    [] OTHER            -> f

DataOf(f, req) ==
  CASE req.op = "read" -> SubSeq(f.data, req.pos + 1, Min({req.pos + req.count, Len(f.data)}))
    [] req.op = "size" -> <<Len(f.data)>>
    [] OTHER           -> <<>>

RfServerServes ==
  LET req == Head(torfserver)
      f   == rffiles[req.name]
  IN
  /\ torfserver # <<>>
  /\ torfserver' = Tail(torfserver)
  /\ rffiles' = [rffiles EXCEPT ![req.name] = IF Granted(f, req) THEN Effect(f, req) ELSE f]
  /\ \/ Len(fromrfserver) < MaxRfWire
        /\ fromrfserver' = Append(fromrfserver,
             [op |-> req.op, seq |-> req.seq, ok |-> Granted(f, req),
              data |-> IF Granted(f, req) THEN DataOf(f, req) ELSE <<>>])
     \/ UNCHANGED fromrfserver                              \* the reply is lost
  /\ UNCHANGED <<rfltab, rf_mutex, rf_seq, rfcall, rfcomm, rfknown, rfanswered>>

-----------------------------------------------------------------------------
(* The calls *)

(* What a request that may have been carried out, or not, leaves known *)
Changes(req) == req.op \notin {"read", "size"} /\ ~(req.op = "open" /\ "o" \in req.mode)

Determines(req) ==
  \/ req.op \in {"mkdir", "rmdir", "delete", "truncate"}
  \/ req.op = "open" /\ "n" \in req.mode

KnownAfter(f, req, ok) ==
  IF ~ok THEN IF Changes(req) THEN Unknown ELSE f
  ELSE IF f.kind # "unknown" \/ Determines(req)
       THEN Effect(IF "n" \in req.mode THEN Absent ELSE f, req)
       ELSE f

(* rfsgetmode: neither r nor w allows both; o and n exclude each other. *)
rfsgetmode(m) == IF m \cap {"r", "w"} = {} THEN m \union {"r", "w"} ELSE m
GoodMode(m) == ~({"o", "n"} \subseteq m)

FreeDevs == {d \in RfDevs : ~rfltab[d].used}

RfCalls ==
  [op : {"open"}, name : RfNames, mode : RfModes]
    \union [op : {"read"}, dev : RfDevs, count : RfCounts]
    \union [op : {"write"}, dev : RfDevs, byte : RfBytes]
    \union [op : {"seek"}, dev : RfDevs, pos : RfPositions]
    \union [op : {"close"}, dev : RfDevs]
    \union [op : {"delete", "truncate", "mkdir", "rmdir", "size"}, name : RfNames]

(* What a process asks for matters to nobody before it has the mutex. *)
RfCall(c) ==
  /\ rfcall[c] = "idle"
  /\ rfcall' = [rfcall EXCEPT ![c] = "calling"]
  /\ rf_mutex' = IF Passes(rf_mutex) THEN Take(rf_mutex) ELSE Blocks(rf_mutex, c)
  /\ UNCHANGED <<rfltab, rf_seq, rfcomm, torfserver, fromrfserver, rffiles, rfknown, rfanswered>>

(* The process whose turn it is, between its wait and its exchange *)
HasMutex(c) ==
  rfcall[c] = "calling" /\ ~WaitsAt(c, rf_mutex) /\ rfcomm.who = "none"

RfReturns(c) ==
  /\ rf_mutex' = Signal(rf_mutex)
  /\ rfcall' = [rfcall EXCEPT ![c] = "idle"]

(* seek and close need no server. *)
RfLocal(c, call) ==
  /\ HasMutex(c) /\ call.op \in {"seek", "close"}
  /\ rfltab' = IF ~rfltab[call.dev].used THEN rfltab
               ELSE IF call.op = "seek" THEN [rfltab EXCEPT ![call.dev].pos = call.pos]
               ELSE [rfltab EXCEPT ![call.dev].used = FALSE]
  /\ RfReturns(c)
  /\ UNCHANGED <<rf_seq, rfcomm, torfserver, fromrfserver, rffiles, rfknown, rfanswered>>

(* The checks each call makes of its device and arguments *)
Allowed(call) ==
  CASE call.op = "open"  -> FreeDevs # {} /\ GoodMode(call.mode)
    [] call.op = "read"  -> call.count > 0 /\ rfltab[call.dev].used /\ "r" \in rfltab[call.dev].mode
    [] call.op = "write" -> rfltab[call.dev].used /\ "w" \in rfltab[call.dev].mode
    [] OTHER             -> TRUE

(* A refused call changes nothing: what an open has put into a free entry is
   never looked at. *)
RfRefused(c, call) ==
  /\ HasMutex(c) /\ call.op \notin {"seek", "close"} /\ ~Allowed(call)
  /\ RfReturns(c)
  /\ UNCHANGED <<rfltab, rf_seq, rfcomm, torfserver, fromrfserver, rffiles, rfknown, rfanswered>>

RequestOf(call) ==
  LET e == IF call.op \in {"read", "write"} THEN rfltab[call.dev] ELSE NotOpen IN
  [op |-> call.op, seq |-> rf_seq,
   name  |-> IF call.op \in {"read", "write"} THEN e.name ELSE call.name,
   mode  |-> IF call.op = "open" THEN rfsgetmode(call.mode) ELSE {},
   pos   |-> e.pos,
   count |-> IF call.op = "read" THEN call.count ELSE 0,
   byte  |-> IF call.op = "write" THEN call.byte ELSE 0]

(* rfscomm: the exchange gets the next sequence number. *)
RfStarts(c, call) ==
  /\ HasMutex(c) /\ call.op \notin {"seek", "close"} /\ Allowed(call)
  /\ rf_seq <= MaxRfSeq                                                 \* bound
  /\ rfcomm' = [who |-> c, req |-> RequestOf(call), sent |-> 0, waits |-> FALSE,
                dev |-> IF call.op = "open" THEN Min(FreeDevs)
                        ELSE IF call.op \in {"read", "write"} THEN call.dev ELSE -1]
  /\ rf_seq' = rf_seq + 1
  /\ UNCHANGED <<rfltab, rf_mutex, rfcall, torfserver, fromrfserver, rffiles, rfknown, rfanswered>>

RfSends(c) ==
  /\ rfcomm.who = c /\ ~rfcomm.waits
  /\ rfcomm' = [rfcomm EXCEPT !.sent = @ + 1, !.waits = TRUE]
  /\ \/ Len(torfserver) < MaxRfWire /\ torfserver' = Append(torfserver, rfcomm.req)
     \/ UNCHANGED torfserver                                            \* lost
  /\ UNCHANGED <<rfltab, rf_mutex, rf_seq, rfcall, fromrfserver, rffiles, rfknown, rfanswered>>

(* The end of a call whose exchange failed: SYSERR, TIMEOUT or a bad status.
   (size does not look at the status, and returns what is in the reply.) *)
RfFails(c) ==
  /\ rfknown' = [rfknown EXCEPT ![rfcomm.req.name] = KnownAfter(@, rfcomm.req, FALSE)]
  /\ rfcomm' = NoRfComm
  /\ RfReturns(c)
  /\ UNCHANGED <<rfltab, rfanswered>>

Agrees(f, req, reply) ==
  f.kind = "file" /\ req.op \in {"read", "size"} => reply.data = DataOf(f, req)

(* A reply with status 0: an open marks the device used, a read and a write
   move its position by the length the server says. *)
Opened(req) == [used |-> TRUE, name |-> req.name, pos |-> 0, mode |-> req.mode]

RfSucceeds(c, reply) ==
  LET req == rfcomm.req IN
  /\ rfltab' = CASE req.op = "open"  -> [rfltab EXCEPT ![rfcomm.dev] = Opened(req)]
                 [] req.op = "read"  -> [rfltab EXCEPT ![rfcomm.dev].pos = @ + Len(reply.data)]
                 [] req.op = "write" -> [rfltab EXCEPT ![rfcomm.dev].pos = @ + 1]
                 [] OTHER            -> rfltab
  /\ rfanswered' = (rfanswered /\ Agrees(rfknown[req.name], req, reply))
  /\ rfknown' = [rfknown EXCEPT ![req.name] = KnownAfter(@, req, TRUE)]
  /\ rfcomm' = NoRfComm
  /\ RfReturns(c)

AnyOfType(reply) == reply.op = rfcomm.req.op        \* fault: the sequence is not compared
IsReply(reply) == reply.seq = rfcomm.req.seq /\ reply.op = rfcomm.req.op

(* After a timeout, and after a reply to another request, rfscomm sends the
   request again, or gives up. *)
RfTriesAgain(c) ==
  IF rfcomm.sent < RF_RETRIES
  THEN /\ rfcomm' = [rfcomm EXCEPT !.waits = FALSE]
       /\ UNCHANGED <<rfltab, rf_mutex, rfcall, rfknown, rfanswered>>
  ELSE RfFails(c)

RfReceives(c) ==
  LET reply == Head(fromrfserver) IN
  /\ rfcomm.who = c /\ rfcomm.waits /\ fromrfserver # <<>>
  /\ fromrfserver' = Tail(fromrfserver)
  /\ IF ~IsReply(reply) THEN RfTriesAgain(c)
     ELSE IF reply.ok THEN RfSucceeds(c, reply) ELSE RfFails(c)
  /\ UNCHANGED <<rf_seq, torfserver, rffiles>>

RfTimesOut(c) ==
  /\ rfcomm.who = c /\ rfcomm.waits
  /\ RfTriesAgain(c)
  /\ UNCHANGED <<rf_seq, torfserver, fromrfserver, rffiles>>

(* udp_register, udp_send or udp_recv return SYSERR: no slot, no buffer, or a
   stray message ended the wait. *)
RfBroken(c) ==
  /\ rfcomm.who = c
  /\ RfFails(c)
  /\ UNCHANGED <<rf_seq, torfserver, fromrfserver, rffiles>>

(* kill: a process that waits leaves the queue; one that holds the mutex takes
   it along, and every other call on remote files waits for ever. *)
RfClientKilled(c) ==
  /\ rfcall[c] = "calling"
  /\ IF WaitsAt(c, rf_mutex)
     THEN /\ rf_mutex' = Leaves(rf_mutex, c)
          /\ rfcall' = [rfcall EXCEPT ![c] = "idle"]
          /\ UNCHANGED <<rfcomm, rfknown>>
     ELSE /\ rfcall' = [rfcall EXCEPT ![c] = "killed"]
          /\ rfcomm' = [who |-> "killed"]
          /\ rfknown' = IF rfcomm.who # c THEN rfknown
                        ELSE [rfknown EXCEPT ![rfcomm.req.name] = KnownAfter(@, rfcomm.req, FALSE)]
          /\ UNCHANGED rf_mutex
  /\ UNCHANGED <<rfltab, rf_seq, torfserver, fromrfserver, rffiles, rfanswered>>

RfsNext ==
  \/ RfServerServes
  \/ \E c \in RfClients :
       \/ RfCall(c)
       \/ \E call \in RfCalls : RfLocal(c, call) \/ RfRefused(c, call) \/ RfStarts(c, call)
       \/ RfSends(c) \/ RfReceives(c) \/ RfTimesOut(c) \/ RfBroken(c) \/ RfClientKilled(c)

RfsSpec == RfsInit /\ [][RfsNext]_rfsVars

-----------------------------------------------------------------------------
(* Properties *)

(* Between exchanges the server holds what the results of the calls say, while
   copies of earlier requests are still on their way to it and after a failure
   as soon as a call has made the contents certain again. *)
KnownIsTrue ==
  \A n \in RfNames :
    rfknown[n].kind # "unknown" /\ ~(rfcomm.who \in RfClients /\ rfcomm.req.name = n)
      => rffiles[n] = rfknown[n]

(* Remote files: that, and a read returns the bytes at the file's position and
   size its length, however often requests and replies were lost and repeated. *)
RemoteFilesSound == KnownIsTrue /\ rfanswered
=============================================================================
