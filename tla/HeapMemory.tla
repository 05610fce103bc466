----------------------------- MODULE HeapMemory -----------------------------
(***************************************************************************)
(* The heap (system/getmem.c, freemem.c, getstk.c, meminit.c, memory.h):   *)
(* a list of free blocks in ascending order of address, from which getmem  *)
(* takes the first that fits and getstk the top of the last, and to which  *)
(* freemem gives blocks back.  Each call is one step.                      *)
(***************************************************************************)
EXTENDS Integers, Sequences, SequencesExt, FiniteSetsExt

CONSTANTS
  ALIGN,       \* 8: size of a memblk, to which sizes are rounded up
  WORDSIZE,    \* 4: getstk returns the address of the highest word
  Areas,       \* the blocks meminit makes, in ascending order, as [addr, len]
  Asked        \* numbers of bytes asked for

ASSUME HeapLayout ==
  /\ ALIGN \in Nat \ {0} /\ WORDSIZE \in 1..ALIGN
  /\ Areas \in Seq([addr : Nat \ {0}, len : Nat \ {0}])
  /\ \A i \in DOMAIN Areas : Areas[i].addr % ALIGN = 0 /\ Areas[i].len % ALIGN = 0
  /\ \A i \in 1..(Len(Areas) - 1) : Areas[i].addr + Areas[i].len < Areas[i + 1].addr
  /\ Asked \subseteq Nat

VARIABLES
  memlist,     \* the free blocks [addr, len] in the order of the list
  held         \* what callers hold: [kind, ptr, bytes], as getmem and getstk returned it
heapVars == <<memlist, held>>

BlockEnd(b) == b.addr + b.len
roundmb(n) == ((n + ALIGN - 1) \div ALIGN) * ALIGN

(* The address a holder's block starts at: freestk works it out from the
   highest word. *)
BlockBase(h) == IF h.kind = "mem" THEN h.ptr ELSE h.ptr - roundmb(h.bytes) + WORDSIZE
BlockBytes(h) == BlockBase(h)..(BlockBase(h) + roundmb(h.bytes) - 1)
FreeRange(b) == b.addr..(BlockEnd(b) - 1)
FreeBytes == UNION {FreeRange(memlist[i]) : i \in DOMAIN memlist}
HeapBytes == UNION {FreeRange(Areas[i]) : i \in DOMAIN Areas}

(* meminit leaves out the hole between 640K and 1M. *)
HeapInit == memlist = Areas /\ held = {}

FitsIdx(n) == {i \in DOMAIN memlist : memlist[i].len >= n}

(* A block that fits exactly is unlinked; of a larger one the low part is taken. *)
WithoutLow(i, n) ==
  IF memlist[i].len = n THEN RemoveAt(memlist, i)
  ELSE [memlist EXCEPT ![i] = [addr |-> @.addr + n, len |-> @.len - n]]

WithoutHigh(i, n) ==
  IF memlist[i].len = n THEN RemoveAt(memlist, i)
  ELSE [memlist EXCEPT ![i].len = @ - n]

getmem(bytes) ==
  LET n == roundmb(bytes)
      i == Min(FitsIdx(n))
  IN
  /\ bytes > 0 /\ FitsIdx(n) # {}
  /\ memlist' = WithoutLow(i, n)
  /\ held' = held \cup {[kind |-> "mem", ptr |-> memlist[i].addr, bytes |-> bytes]}

StackTop(b, n) == BlockEnd(b) - WORDSIZE     \* fits + nbytes - sizeof(uint32)

getstk(bytes) ==
  LET n == roundmb(bytes)
      i == Max(FitsIdx(n))
  IN
  /\ bytes > 0 /\ FitsIdx(n) # {}
  /\ memlist' = WithoutHigh(i, n)
  /\ held' = held \cup {[kind |-> "stk", ptr |-> StackTop(memlist[i], n), bytes |-> bytes]}

(* freemem of n bytes at a: `prev' is the last block in front of a, `next' the
   first that is not. *)
BlocksBefore(a) == {i \in DOMAIN memlist : memlist[i].addr < a}
PrevIdx(a) == Cardinality(BlocksBefore(a))
NextIdx(a) == PrevIdx(a) + 1

Overlaps(a, n) ==
  \/ PrevIdx(a) > 0 /\ a < BlockEnd(memlist[PrevIdx(a)])
  \/ NextIdx(a) <= Len(memlist) /\ a + n > memlist[NextIdx(a)].addr

NotJoined(a, n) ==                 \* fault: not joined with its neighbours
  InsertAt(memlist, NextIdx(a), [addr |-> a, len |-> n])

(* The block is joined with the one in front if that ends where it starts, or
   linked behind it, and then with the one behind. *)
Freed(a, n) ==
  LET joins == PrevIdx(a) > 0 /\ BlockEnd(memlist[PrevIdx(a)]) = a
      linked == IF joins THEN [memlist EXCEPT ![PrevIdx(a)].len = @ + n]
                ELSE InsertAt(memlist, NextIdx(a), [addr |-> a, len |-> n])
      i == IF joins THEN PrevIdx(a) ELSE NextIdx(a)
  IN
  IF i < Len(linked) /\ BlockEnd(linked[i]) = linked[i + 1].addr
  THEN RemoveAt([linked EXCEPT ![i].len = @ + linked[i + 1].len], i + 1)
  ELSE linked

freemem(h) ==
  LET n == roundmb(h.bytes) IN
  /\ ~Overlaps(BlockBase(h), n)
  /\ memlist' = Freed(BlockBase(h), n)
  /\ held' = held \ {h}

(* A call for memory that is free already: it was given back before, and has
   been joined with other blocks or not. *)
freememAgain(a, bytes) ==
  LET n == roundmb(bytes) IN
  /\ a % ALIGN = 0 /\ bytes > 0
  /\ a..(a + n - 1) \subseteq FreeBytes
  /\ memlist' = IF Overlaps(a, n) THEN memlist ELSE Freed(a, n)
  /\ UNCHANGED held

HeapNext ==
  \/ \E bytes \in Asked : getmem(bytes) \/ getstk(bytes)
  \/ \E h \in held : freemem(h)
  \/ \E a \in FreeBytes, bytes \in Asked : freememAgain(a, bytes)

HeapSpec == HeapInit /\ [][HeapNext]_heapVars

-----------------------------------------------------------------------------
(* Properties *)

(* The list is in ascending order, its blocks do not overlap, and no two of
   them touch, so that memory given back in pieces can be had again as one. *)
ListJoined ==
  \A i \in 1..(Len(memlist) - 1) : BlockEnd(memlist[i]) < memlist[i + 1].addr

(* Every byte of the heap is free or in the block of one holder: none is lost,
   and none given out twice, however getmem, getstk and freemem follow. *)
HeapPartition ==
  /\ FreeBytes \cup UNION {BlockBytes(h) : h \in held} = HeapBytes
  /\ \A h \in held : BlockBytes(h) \cap FreeBytes = {}
  /\ \A g, h \in held : g # h => BlockBytes(g) \cap BlockBytes(h) = {}

(* A holder can always give back what it has been given. *)
HeldCanBeFreed == \A h \in held : ~Overlaps(BlockBase(h), roundmb(h.bytes))

(* The heap as the callers of getmem, getstk and freemem rely on it. *)
HeapSound == ListJoined /\ HeapPartition /\ HeldCanBeFreed
=============================================================================
