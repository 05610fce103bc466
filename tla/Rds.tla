-------------------------------- MODULE Rds ---------------------------------
(***************************************************************************)
(* The remote disk (device/rds, rdisksys.h): a cache of blocks and a queue *)
(* of requests that rdsprocess sends to a server, one at a time.           *)
(*                                                                         *)
(* Device calls run with interrupts disabled and rdsprocess above its      *)
(* clients, so a step goes up to where a process waits: for a buffer, for  *)
(* the end of its request, or for the server.  Several of these calls look *)
(* at lists before such a wait and rely on them after it.  Where that goes *)
(* wrong, `upset' says what happened and nothing is modelled after it.     *)
(*                                                                         *)
(* Assumed: one process at a time exchanges messages with the server; a    *)
(* request arrives during its exchange or never, replies may arrive later. *)
(***************************************************************************)
EXTENDS SemaphoreOps, FiniteSets, FiniteSetsExt

CONSTANTS
  RdClients, DiskBlocks, RdData,
  RdBufs,           \* the buffers: RD_BUFFS of them
  RD_RETRIES,
  MaxExchanges      \* bound: exchanges with the server

ASSUME RdSizes ==
  /\ RD_RETRIES \in Nat \ {0} /\ MaxExchanges \in Nat
  /\ IsFiniteSet(RdClients) /\ {"nobody", "rdsprocess"} \cap RdClients = {}
  /\ IsFiniteSet(RdBufs) /\ {"none", "ok"} \cap RdBufs = {}

NoBuf == [op |-> "none", ref |-> 0, blk |-> 0, valid |-> FALSE, pid |-> "nobody", data |-> 0]

VARIABLES
  rdstate, rdbuf,           \* rd_state; [RdBufs]: the fields of a buffer
  rdqueue, rdcache, rdfree, \* the request queue, the cache (newest first), the free list
  availsem,                 \* rd_availsem
  rdseq, rdblk,             \* rd_seq; rd_blk of the message that rdsprocess builds
  rdcall, rdmsg,            \* [RdClients]: the call a process waits in; its message
  server, copies, replies,  \* the server's blocks; copies of the request, and replies, under way
  comm,                     \* the exchange that is going on (rdscomm)
  lastwrite,                \* history: what was last written to each block
  upset

listVars == <<rdbuf, rdqueue, rdcache, rdfree, availsem>>
netVars == <<server, copies, replies>>
rdsVars == <<rdstate, listVars, rdseq, rdblk, rdcall, rdmsg, netVars, comm, lastwrite, upset>>

NoComm == [who |-> "nobody", type |-> "none", seq |-> 0, blk |-> 0, data |-> 0, tries |-> 0,
           xmit |-> FALSE]
NoCall == [op |-> "none", blk |-> 0, data |-> 0]

RdsInit ==
  /\ rdstate = "free" /\ rdbuf = [b \in RdBufs |-> NoBuf]
  /\ rdqueue = <<>> /\ rdcache = <<>> /\ rdfree = SetToSeq(RdBufs)
  /\ availsem = NewSem(Cardinality(RdBufs))
  /\ rdseq = 1 /\ rdblk \in DiskBlocks           \* rd_blk is not initialised
  /\ rdcall = [c \in RdClients |-> NoCall] /\ rdmsg = [c \in RdClients |-> "none"]
  /\ server \in [DiskBlocks -> {0}] /\ copies = 0 /\ replies = <<>>
  /\ comm = NoComm
  /\ lastwrite = server /\ upset = "no"

InQueue(k) == {i \in DOMAIN rdqueue : rdbuf[rdqueue[i]].blk = k}
InCache(k) == {i \in DOMAIN rdcache : rdbuf[rdcache[i]].blk = k}
WritesOf(k) == {i \in InQueue(k) : rdbuf[rdqueue[i]].op = "write"}

(* What is in a free buffer has no meaning. *)
RdFreed(bs) == [b \in RdBufs |-> IF b \in bs THEN NoBuf ELSE rdbuf[b]]

(* c is in no call. *)
Outside(c) == rdcall[c] = NoCall /\ comm.who # c

CanCallDisk(c) == upset = "no" /\ rdstate = "open" /\ Outside(c)

-----------------------------------------------------------------------------
(* rdsbufalloc: behind its wait, the buffer and the lists without it.        *)

Unused == {i \in DOMAIN rdcache : rdbuf[rdcache[i]].ref <= 0}

(* The oldest cached buffer; rdsbufalloc would stop the system if there is none. *)
OldestUnused == Max(Unused)

Allocates(b) ==
  IF rdfree # <<>>
  THEN b = Head(rdfree) /\ rdfree' = Tail(rdfree) /\ UNCHANGED rdcache
  ELSE b = rdcache[OldestUnused] /\ rdcache' = RemoveAt(rdcache, OldestUnused) /\ UNCHANGED rdfree

NoneToAllocate == rdfree = <<>> /\ Unused = {}

(* A request is linked at the tail, and rdsprocess told; a read or a sync
   clears the messages of its process and waits for one. *)
AskedFor == [read |-> "read asked", sync |-> "sync asked"]

Request(c, b, op, k, d) ==
  /\ rdbuf' = [rdbuf EXCEPT ![b] = [op |-> op, ref |-> IF op = "write" THEN 0 ELSE 1, blk |-> k,
                                    valid |-> op = "write", pid |-> c, data |-> d]]
  /\ rdqueue' = Append(rdqueue, b)
  /\ IF op = "write"
     THEN /\ lastwrite' = [lastwrite EXCEPT ![k] = d]
          /\ rdcall' = [rdcall EXCEPT ![c] = NoCall]
          /\ UNCHANGED rdmsg
     ELSE /\ rdmsg' = [rdmsg EXCEPT ![c] = "none"]
          /\ rdcall' = [rdcall EXCEPT ![c] = [op |-> AskedFor[op], blk |-> k, data |-> d]]
          /\ UNCHANGED lastwrite

RequestsInNewBuffer(c, op, k, d) ==
  \E b \in RdBufs : Allocates(b) /\ Request(c, b, op, k, d)

(* A sync bears block number 0: rdsread's search of the queue for a write to block
   0 ends at it, and the read that is then made outlives the write in the cache. *)
HiddenBySync(op, k) == op = "read" /\ WritesOf(k) # {}

NotBegun == UNCHANGED <<rdbuf, rdqueue, rdcache, rdfree, rdmsg, lastwrite>>

(* A call that needs a buffer: there is one, or it waits. *)
AsksWith(c, op, k, d) ==
  IF ~Passes(availsem)
  THEN /\ availsem' = Blocks(availsem, c)
       /\ rdcall' = [rdcall EXCEPT ![c] = [op |-> op, blk |-> k, data |-> d]]
       /\ NotBegun /\ UNCHANGED upset
  ELSE /\ availsem' = Take(availsem)
       /\ IF NoneToAllocate
          THEN upset' = "no buffer" /\ NotBegun /\ UNCHANGED rdcall
          ELSE /\ RequestsInNewBuffer(c, op, k, d)
               /\ upset' = IF HiddenBySync(op, k) THEN "write hidden" ELSE upset

(* What the call found, or did not find, before it waited is there now. *)
SearchedTooEarly(op, k) ==
  \/ op \in {"read", "write"} /\ WritesOf(k) # {}
  \/ op = "write" /\ InCache(k) # {}
  \/ op = "read" /\ \E i \in InCache(k) : rdbuf[rdcache[i]].valid

RdsGoesOn(c) ==
  LET call == rdcall[c] IN
  /\ upset = "no" /\ call.op \in {"read", "write", "sync"} /\ ~WaitsAt(c, availsem)
  /\ IF NoneToAllocate
     THEN upset' = "no buffer" /\ NotBegun /\ UNCHANGED rdcall
     ELSE /\ RequestsInNewBuffer(c, call.op, call.blk, call.data)
          /\ upset' = IF SearchedTooEarly(call.op, call.blk) THEN "searched early" ELSE upset
  /\ UNCHANGED <<rdstate, availsem, rdseq, rdblk, netVars, comm>>

-----------------------------------------------------------------------------
(* rdsread, rdswrite, rdscontrol *)

FirstCached(k) == {rdcache[i] : i \in {i \in InCache(k) : \A j \in InCache(k) : i <= j}}
LastQueued(k) == {rdqueue[i] : i \in {i \in InQueue(k) : \A j \in InQueue(k) : i >= j}}
QueuedWrite(k) == {b \in LastQueued(k) : rdbuf[b].op = "write"}

(* A read is answered from the first copy in the cache, if it is valid, or from
   the last request in the queue, if it is a write. *)
AnsweredFrom(k) ==
  IF \E b \in FirstCached(k) : rdbuf[b].valid THEN FirstCached(k) ELSE QueuedWrite(k)

RdsRead(c, k) ==
  /\ CanCallDisk(c) /\ AnsweredFrom(k) = {}
  /\ AsksWith(c, "read", k, 0)
  /\ UNCHANGED <<rdstate, rdseq, rdblk, netVars, comm>>

(* Its reference is dropped, and the buffer given back if a newer one is there. *)
RdsReadDone(c) ==
  LET b == rdmsg[c]
      ref == rdbuf[b].ref - 1
      newer == FirstCached(rdcall[c].blk) # {b}
  IN
  /\ upset = "no" /\ rdcall[c].op = "read asked" /\ b # "none"
  /\ IF ref <= 0 /\ newer
     THEN /\ rdcache' = GetItem(rdcache, b)
          /\ rdfree' = <<b>> \o rdfree /\ rdbuf' = RdFreed({b})
     ELSE rdbuf' = [rdbuf EXCEPT ![b].ref = ref] /\ UNCHANGED <<rdcache, rdfree>>
  /\ rdcall' = [rdcall EXCEPT ![c] = NoCall] /\ rdmsg' = [rdmsg EXCEPT ![c] = "none"]
  /\ UNCHANGED <<rdstate, rdqueue, availsem, rdseq, rdblk, netVars, comm, lastwrite, upset>>

ContentsKept(k, d) == UNCHANGED rdbuf      \* fault: the request keeps what it had
Replaces(k, d) == rdbuf' = [rdbuf EXCEPT ![rdqueue[Min(WritesOf(k))]].data = d]

OlderUnlinked(k) == rdcache' = RemoveAt(rdcache, Min(InCache(k)))

RdsWrite(c, k, d) ==
  /\ CanCallDisk(c)
  /\ IF WritesOf(k) # {}
     THEN /\ Replaces(k, d)
          /\ lastwrite' = [lastwrite EXCEPT ![k] = d]
          /\ UNCHANGED <<rdqueue, rdcache, rdfree, availsem, rdcall, rdmsg, upset>>
     ELSE IF InCache(k) # {} /\ rdbuf[rdcache[Min(InCache(k))]].ref <= 0
     THEN (* the buffer is used again; semreset refuses a negative count *)
          /\ Request(c, rdcache[Min(InCache(k))], "write", k, d)
          /\ OlderUnlinked(k)
          /\ availsem' = IF availsem.count > 0 THEN Take(availsem) ELSE availsem
          /\ upset' = IF availsem.count > 0 THEN upset ELSE "no buffer"
          /\ UNCHANGED rdfree
     ELSE AsksWith(c, "write", k, d)
  /\ UNCHANGED <<rdstate, rdseq, rdblk, netVars, comm>>

RdsSync(c) ==
  /\ CanCallDisk(c) /\ AsksWith(c, "sync", 0, 0)
  /\ UNCHANGED <<rdstate, rdseq, rdblk, netVars, comm>>

RdsSyncDone(c) ==
  /\ upset = "no" /\ rdcall[c].op = "sync asked" /\ rdmsg[c] # "none"
  /\ rdcall' = [rdcall EXCEPT ![c] = NoCall] /\ rdmsg' = [rdmsg EXCEPT ![c] = "none"]
  /\ UNCHANGED <<rdstate, listVars, rdseq, rdblk, netVars, comm, lastwrite, upset>>

-----------------------------------------------------------------------------
(* rdscomm: an exchange with the server, over udp_sendto and udp_recv.       *)

Starts(who, type, k, d) ==
  /\ comm = NoComm /\ rdseq <= MaxExchanges
  /\ comm' = [who |-> who, type |-> type, seq |-> rdseq, blk |-> k, data |-> d, tries |-> 0, xmit |-> TRUE]
  /\ rdseq' = rdseq + 1

EndsComm == comm' = NoComm /\ copies' = 0

CommSends ==
  /\ upset = "no" /\ comm # NoComm /\ comm.xmit
  /\ comm' = [comm EXCEPT !.xmit = FALSE]
  /\ copies' = copies + 1
  /\ UNCHANGED <<rdstate, listVars, rdseq, rdblk, rdcall, rdmsg, server, replies, lastwrite, upset>>

(* The server gets a copy of the request, does it and answers; the answer may be
   lost, and so is a copy that is still under way when the exchange ends.
   A deletion behind the back of blocks that are kept here is not followed. *)
Serves ==
  CASE comm.type = "write" ->
         /\ server' = [server EXCEPT ![comm.blk] = comm.data]
         /\ UNCHANGED <<lastwrite, upset>>
    [] comm.type = "delete" ->
         /\ server' = [k \in DiskBlocks |-> 0] /\ lastwrite' = server'
         /\ upset' = IF \E b \in ToSet(rdqueue \o rdcache) : rdbuf[b].valid THEN "deleted in use" ELSE upset
    [] OTHER -> UNCHANGED <<server, lastwrite, upset>>

ServerAnswers ==
  /\ upset = "no" /\ copies > 0 /\ copies' = copies - 1
  /\ Serves
  /\ \/ UNCHANGED replies
     \/ replies' = Append(replies, [seq |-> comm.seq, type |-> comm.type,
                                    data |-> IF comm.type = "read" THEN server[comm.blk] ELSE 0])
  /\ UNCHANGED <<rdstate, listVars, rdseq, rdblk, rdcall, rdmsg, comm>>

(* A reply of an earlier exchange only keeps the request from being sent again;
   if it is of the same type, it is then taken for the answer. *)
Accepts(reply) == reply.seq <= comm.seq /\ reply.type = comm.type

Resends(reply) == reply.seq >= comm.seq

TriesAgain(again) ==
  comm' = [comm EXCEPT !.tries = @ + 1, !.xmit = again]

CommIgnores ==
  /\ upset = "no" /\ comm # NoComm /\ ~comm.xmit /\ comm.tries < RD_RETRIES
  /\ replies # <<>> /\ ~Accepts(Head(replies))
  /\ replies' = Tail(replies)
  /\ TriesAgain(Resends(Head(replies)))
  /\ UNCHANGED <<rdstate, listVars, rdseq, rdblk, rdcall, rdmsg, server, copies, lastwrite, upset>>

CommTimesOut ==
  /\ upset = "no" /\ comm # NoComm /\ ~comm.xmit /\ comm.tries < RD_RETRIES /\ replies = <<>>
  /\ TriesAgain(TRUE)
  /\ UNCHANGED <<rdstate, listVars, rdseq, rdblk, rdcall, rdmsg, netVars, lastwrite, upset>>

Accepted == comm # NoComm /\ ~comm.xmit /\ replies # <<>> /\ Accepts(Head(replies))
Exhausted == comm # NoComm /\ comm.tries = RD_RETRIES
Stale == Head(replies).seq < comm.seq

-----------------------------------------------------------------------------
(* rdsprocess *)

(* A unit of rd_reqsem for each request on the queue but the one being read. *)
ProcFree == upset = "no" /\ comm = NoComm /\ rdqueue # <<>>
First == Head(rdqueue)

(* The message has the block of the last write that was sent. *)
ProcReads ==
  /\ ProcFree /\ rdbuf[First].op = "read"
  /\ Starts("rdsprocess", "read", rdblk, 0)
  /\ upset' = IF rdblk = rdbuf[First].blk THEN upset ELSE "wrong block"
  /\ UNCHANGED <<rdstate, listVars, rdblk, rdcall, rdmsg, netVars, lastwrite>>

ProcWrites ==
  /\ ProcFree /\ rdbuf[First].op = "write"
  /\ Starts("rdsprocess", "write", rdbuf[First].blk, rdbuf[First].data)
  /\ rdblk' = rdbuf[First].blk
  /\ rdqueue' = Tail(rdqueue) /\ rdcache' = <<First>> \o rdcache
  /\ availsem' = Signal(availsem)
  /\ UNCHANGED <<rdstate, rdbuf, rdfree, rdcall, rdmsg, netVars, lastwrite, upset>>

ProcSyncs ==
  /\ ProcFree /\ rdbuf[First].op = "sync"
  /\ rdmsg' = [rdmsg EXCEPT ![rdbuf[First].pid] = IF @ = "none" THEN "ok" ELSE @]
  /\ rdqueue' = Tail(rdqueue) /\ rdfree' = <<First>> \o rdfree /\ rdbuf' = RdFreed({First})
  /\ availsem' = Signal(availsem)
  /\ UNCHANGED <<rdstate, rdcache, rdseq, rdblk, rdcall, netVars, comm, lastwrite, upset>>

(* A later request for the block is taken for a reader of it, and unlinked as if
   it were where the buffer is now. *)
TwoRequests(k) == \E i \in InQueue(k) : i > 1

ProcHasRead ==
  LET b == First IN
  /\ upset = "no" /\ Accepted /\ comm.who = "rdsprocess" /\ comm.type = "read"
  /\ replies' = Tail(replies) /\ EndsComm
  /\ rdbuf' = [rdbuf EXCEPT ![b].data = Head(replies).data, ![b].ref = 1]
  /\ rdqueue' = Tail(rdqueue) /\ rdcache' = <<b>> \o rdcache
  /\ availsem' = Signal(availsem)
  /\ rdmsg' = [rdmsg EXCEPT ![rdbuf[b].pid] = IF @ = "none" THEN b ELSE @]
  /\ upset' = IF TwoRequests(rdbuf[b].blk) THEN "two requests" ELSE IF Stale THEN "stale reply" ELSE upset
  /\ UNCHANGED <<rdstate, rdfree, rdseq, rdblk, rdcall, server, lastwrite>>

ProcHasWritten ==
  /\ upset = "no" /\ Accepted /\ comm.who = "rdsprocess" /\ comm.type = "write"
  /\ replies' = Tail(replies) /\ EndsComm
  /\ upset' = IF Stale THEN "stale reply" ELSE upset
  /\ UNCHANGED <<rdstate, listVars, rdseq, rdblk, rdcall, rdmsg, server, lastwrite>>

(* rdsprocess stops the system if the server does not answer. *)
ProcPanics ==
  /\ upset = "no" /\ Exhausted /\ comm.who = "rdsprocess"
  /\ upset' = "no server"
  /\ UNCHANGED <<rdstate, listVars, rdseq, rdblk, rdcall, rdmsg, netVars, comm, lastwrite>>

-----------------------------------------------------------------------------
(* rdsopen, rdsclose, and rdscontrol's deletion, which ends in rdsclose *)

(* An identifier that is empty or too long leaves the device pending. *)
RdsOpen(c) ==
  /\ upset = "no" /\ rdstate = "free" /\ Outside(c)
  /\ rdstate' = "pend"
  /\ \/ Starts(c, "open", 0, 0) \* a proper identifier
     \/ UNCHANGED <<comm, rdseq>>
  /\ UNCHANGED <<listVars, rdblk, rdcall, rdmsg, netVars, lastwrite, upset>>

RdsOpenEnds(c) ==
  /\ upset = "no" /\ (Accepted \/ Exhausted) /\ comm.who = c /\ comm.type = "open"
  /\ rdstate' = IF Accepted THEN "open" ELSE "free"
  /\ replies' = IF Accepted THEN Tail(replies) ELSE replies
  /\ EndsComm
  /\ UNCHANGED <<listVars, rdseq, rdblk, rdcall, rdmsg, server, lastwrite, upset>>

(* All buffers of the cache go to the free list, also one whose read has not
   come back. *)
Closes ==
  IF rdqueue # <<>>
  THEN UNCHANGED <<rdstate, rdcache, rdfree, rdbuf, upset>>
  ELSE /\ rdstate' = "free"
       /\ rdfree' = Reverse(rdcache) \o rdfree /\ rdcache' = <<>>
       /\ rdbuf' = RdFreed(ToSet(rdcache))
       /\ upset' = IF \E c \in RdClients : rdcall[c] # NoCall THEN "closed early" ELSE upset

RdsClose(c) ==
  /\ CanCallDisk(c) /\ rdqueue = <<>> /\ Closes
  /\ UNCHANGED <<rdqueue, availsem, rdseq, rdblk, rdcall, rdmsg, netVars, comm, lastwrite>>

RdsDelete(c) ==
  /\ CanCallDisk(c) /\ Starts(c, "delete", 0, 0)
  /\ UNCHANGED <<rdstate, listVars, rdblk, rdcall, rdmsg, netVars, lastwrite, upset>>

RdsDeleteEnds(c) ==
  /\ upset = "no" /\ comm.who = c /\ comm.type = "delete" /\ (Accepted \/ Exhausted)
  /\ replies' = IF Accepted THEN Tail(replies) ELSE replies
  /\ EndsComm
  /\ IF Accepted THEN Closes ELSE UNCHANGED <<rdstate, rdcache, rdfree, rdbuf, upset>>
  /\ UNCHANGED <<rdqueue, availsem, rdseq, rdblk, rdcall, rdmsg, server, lastwrite>>

RdsNext ==
  \/ \E c \in RdClients :
       \/ \E k \in DiskBlocks : RdsRead(c, k) \/ (\E d \in RdData : RdsWrite(c, k, d))
       \/ RdsSync(c) \/ RdsGoesOn(c) \/ RdsReadDone(c) \/ RdsSyncDone(c)
       \/ RdsOpen(c) \/ RdsOpenEnds(c) \/ RdsClose(c) \/ RdsDelete(c) \/ RdsDeleteEnds(c)
  \/ CommSends \/ ServerAnswers \/ CommIgnores \/ CommTimesOut
  \/ ProcReads \/ ProcWrites \/ ProcSyncs \/ ProcHasRead \/ ProcHasWritten \/ ProcPanics

RdsSpec == RdsInit /\ [][RdsNext]_rdsVars

-----------------------------------------------------------------------------
(* Properties *)

RdWaiting == {c \in RdClients : WaitsAt(c, availsem)}
RdReleased == {c \in RdClients : rdcall[c].op \in {"read", "write", "sync"}} \ RdWaiting

(* Each buffer is on one of the free list, the request queue and the cache, and
   rd_availsem counts those that are free or cached. *)
RdBuffersConserved ==
  upset = "no" =>
    /\ IsInjective(rdfree \o rdqueue \o rdcache)
    /\ ToSet(rdfree \o rdqueue \o rdcache) = RdBufs
    /\ Len(rdfree) + Len(rdcache)
         = availsem.count + Cardinality(RdWaiting) + Cardinality(RdReleased)

(* A read that is answered from the cache, or from a request that waits, gives
   what was last written. *)
ReadGivesLastWrite ==
  upset = "no" => \A k \in DiskBlocks, b \in RdBufs : b \in AnsweredFrom(k) => rdbuf[b].data = lastwrite[k]

(* What is neither waiting to be sent nor being sent is on the server. *)
ServerHasLastWrite ==
  upset = "no" => \A k \in DiskBlocks :
    WritesOf(k) = {} /\ ~(comm.type = "write" /\ comm.blk = k) => server[k] = lastwrite[k]

(* The remote disk holds what was written to it, in a buffer or on the server. *)
DiskSound == RdBuffersConserved /\ ReadGivesLastWrite /\ ServerHasLastWrite
-----------------------------------------------------------------------------
(* What a comment of the code says, and it does not do *)

(* rdscomm.c: "Verify that sequence in reply matches request", so an exchange
   that ends with a reply ends with its own. *)
ReplyMatchesRequest ==
  [][comm # NoComm /\ comm' = NoComm /\ replies' # replies => Head(replies).seq = comm.seq]_rdsVars
=============================================================================
