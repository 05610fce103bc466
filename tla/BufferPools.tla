---------------------------- MODULE BufferPools -----------------------------
(***************************************************************************)
(* Buffer pools (system/bufinit.c, mkbufpool.c, getbuf.c, freebuf.c): each *)
(* pool is a list of buffers of one size and a semaphore that counts them. *)
(* getbuf may wait inside; whoever holds a buffer may pass it on, and any  *)
(* process or handler may give it back.                                    *)
(***************************************************************************)
EXTENDS SemaphoreOps, FiniteSets

CONSTANTS
  Getters,     \* processes that call getbuf
  NBPOOLS,
  Numbufs,     \* numbers of buffers asked of mkbufpool
  HeapRoom,    \* buffers the heap has room for
  SemRoom      \* semaphores left

ASSUME PoolSizes ==
  /\ NBPOOLS \in Nat \ {0} /\ Numbufs \subseteq Nat \ {0}
  /\ HeapRoom \in Nat /\ SemRoom \in Nat /\ IsFiniteSet(Getters)

VARIABLES
  bpnext,      \* <<...>>, pools in order of creation: the list of free buffers
  bpsem,       \*   and the semaphore of each; nbpools is the length
  poolsize,    \* numbufs of each
  out,         \* buffers <<pool, number>> that getbuf has returned
  getting,     \* [Getters]: the pool whose buffer getbuf is to return, or 0
  room, sems   \* what is left of the heap and of the semaphores
poolVars == <<bpnext, bpsem, poolsize, out, getting, room, sems>>

Pools == DOMAIN bpnext

PoolsInit ==
  /\ bpnext = <<>> /\ bpsem = <<>> /\ poolsize = <<>>
  /\ out = {} /\ getting = [p \in Getters |-> 0]
  /\ room = HeapRoom /\ sems = SemRoom

(* Memory is taken before the semaphore. *)
mkbufpool(n) ==
  /\ Len(bpnext) < NBPOOLS /\ room >= n /\ sems > 0
  /\ bpnext' = Append(bpnext, [i \in 1..n |-> <<Len(bpnext) + 1, i>>])
  /\ bpsem' = Append(bpsem, NewSem(n))
  /\ poolsize' = Append(poolsize, n)
  /\ room' = room - n /\ sems' = sems - 1
  /\ UNCHANGED <<out, getting>>

RoomRestored(n) == room
(* ... and given back if there is none. *)
MkbufpoolNoSem(n) ==
  /\ Len(bpnext) < NBPOOLS /\ room >= n /\ sems = 0
  /\ room' = RoomRestored(n)
  /\ UNCHANGED <<bpnext, bpsem, poolsize, out, getting, sems>>

Unlinked(q) == Tail(q)

(* getbuf from the end of its wait on *)
Unlink(n) ==
  /\ bpnext' = [bpnext EXCEPT ![n] = Unlinked(@)]
  /\ out' = out \cup {Head(bpnext[n])}

getbuf(p, n) ==
  /\ getting[p] = 0 /\ Passes(bpsem[n])
  /\ bpsem' = [bpsem EXCEPT ![n] = Take(@)]
  /\ Unlink(n)
  /\ UNCHANGED <<poolsize, getting, room, sems>>

GetbufBlocks(p, n) ==
  /\ getting[p] = 0 /\ ~Passes(bpsem[n])
  /\ bpsem' = [bpsem EXCEPT ![n] = Blocks(@, p)]
  /\ getting' = [getting EXCEPT ![p] = n]
  /\ UNCHANGED <<bpnext, poolsize, out, room, sems>>

GetbufRest(p) ==
  LET n == getting[p] IN
  /\ n # 0 /\ ~WaitsAt(p, bpsem[n])
  /\ Unlink(n)
  /\ getting' = [getting EXCEPT ![p] = 0]
  /\ UNCHANGED <<bpsem, poolsize, room, sems>>

SignalledFirst(s) == [s EXCEPT !.count = @ + 1, !.queue = <<>>]  \* fault: all are released
Counted(s) == Signal(s)

(* The pool is the one whose number getbuf wrote in front of the buffer. *)
freebuf(b) ==
  LET n == b[1] IN
  /\ bpnext' = [bpnext EXCEPT ![n] = <<b>> \o @]
  /\ out' = out \ {b}
  /\ bpsem' = [bpsem EXCEPT ![n] = Counted(@)]
  /\ UNCHANGED <<poolsize, getting, room, sems>>

(* kill of a process inside getbuf *)
GetterKilled(p) ==
  LET n == getting[p] IN
  /\ n # 0
  /\ bpsem' = IF WaitsAt(p, bpsem[n]) THEN [bpsem EXCEPT ![n] = Leaves(@, p)] ELSE bpsem
  /\ getting' = [getting EXCEPT ![p] = 0]
  /\ UNCHANGED <<bpnext, poolsize, out, room, sems>>

PoolsNext ==
  \/ \E n \in Numbufs : mkbufpool(n) \/ MkbufpoolNoSem(n)
  \/ \E p \in Getters, n \in Pools : getbuf(p, n) \/ GetbufBlocks(p, n)
  \/ \E p \in Getters : GetbufRest(p) \/ GetterKilled(p)
  \/ \E b \in out : freebuf(b)

PoolsSpec == PoolsInit /\ [][PoolsNext]_poolVars

-----------------------------------------------------------------------------
(* Properties *)

PoolSum(f) == FoldFunction(+, 0, f)

(* Each buffer of a pool is on its list once, or in somebody's hands. *)
BufferInOnePlace ==
  \A n \in Pools, i \in 1..HeapRoom :
    LET onList == Cardinality({k \in DOMAIN bpnext[n] : bpnext[n][k] = <<n, i>>}) IN
    onList + (IF <<n, i>> \in out THEN 1 ELSE 0) = IF i <= poolsize[n] THEN 1 ELSE 0

(* getbuf follows bpnext without a test: whoever gets past the wait finds a
   buffer, even if others were killed on the way. *)
GetterFindsBuffer ==
  \A n \in Pools :
    Cardinality({p \in Getters : getting[p] = n /\ ~WaitsAt(p, bpsem[n])})
      + (IF bpsem[n].count > 0 THEN bpsem[n].count ELSE 0) <= Len(bpnext[n])

(* Memory is in a pool or can still be had: an attempt that fails keeps none. *)
PoolMemoryConserved == room + PoolSum(poolsize) = HeapRoom

(* What getbuf and freebuf promise, through waits, kills and failures. *)
PoolsSound == BufferInOnePlace /\ GetterFindsBuffer /\ PoolMemoryConserved
=============================================================================
