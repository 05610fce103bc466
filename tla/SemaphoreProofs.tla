-------------------------- MODULE SemaphoreProofs --------------------------
(***************************************************************************)
(* What the operations of SemaphoreOps do to the processes that wait at a  *)
(* semaphore, for every semaphore, what sums over a finite set are, as the *)
(* components that count buffers, nodes and units need it, and remainders, *)
(* as the indices of circular buffers do.                                  *)
(***************************************************************************)
EXTENDS SemaphoreOps, XinuQueueProofs, FiniteSetTheorems, NaturalsInduction

(* s is a semaphore at which the processes of W wait: as many as the count is
   below zero. *)
SemOf(s, W) ==
  /\ s = [count |-> s.count, queue |-> s.queue] /\ s.count \in Int
  /\ QueueOf(s.queue, W)
  /\ Len(s.queue) = IF s.count < 0 THEN -s.count ELSE 0

LEMMA SemNew ==
  ASSUME NEW n \in Nat
  PROVE  SemOf(NewSem(n), {})
PROOF BY DEF NewSem, SemOf, QueueOf

LEMMA SemWaits ==
  ASSUME NEW s, NEW W, SemOf(s, W)
  PROVE  ToSet(s.queue) = W
PROOF
<1>1. /\ s.queue \in Seq(W) /\ DOMAIN s.queue = 1..Len(s.queue)
      /\ \A p \in W : \E i \in 1..Len(s.queue) : s.queue[i] = p
  BY DEF SemOf, QueueOf
<1> QED BY <1>1 DEF ToSet

LEMMA SemEmpty ==
  ASSUME NEW s, NEW W, SemOf(s, W)
  PROVE  s.count >= 0 <=> W = {}
PROOF
<1>1. s.count \in Int /\ s.queue \in Seq(W) /\ (s.queue = <<>> <=> W = {})
  BY QueueEmpty DEF SemOf, QueueOf
<1>2. s.queue = <<>> <=> Len(s.queue) = 0
  BY <1>1
<1> QED BY <1>1, <1>2 DEF SemOf

LEMMA SemTake ==
  ASSUME NEW s, NEW W, SemOf(s, W), Passes(s)
  PROVE  W = {} /\ SemOf(Take(s), {}) /\ Take(s).count = s.count - 1
PROOF
<1>1. W = {} /\ s.count \in Int /\ s.count > 0
  BY SemEmpty DEF Passes, SemOf
<1>2. Take(s) = [count |-> s.count - 1, queue |-> s.queue]
  BY DEF Take, SemOf
<1> QED BY <1>1, <1>2 DEF SemOf

LEMMA SemBlocks ==
  ASSUME NEW s, NEW W, SemOf(s, W), ~Passes(s), NEW p, p \notin W
  PROVE  SemOf(Blocks(s, p), W \cup {p}) /\ Blocks(s, p).count = s.count - 1
PROOF
<1>1. s.count \in Int /\ s.count <= 0 /\ Len(s.queue) = -s.count
  BY DEF SemOf, Passes
<1>2. QueueOf(Enqueue(s.queue, p), W \cup {p}) /\ Len(Enqueue(s.queue, p)) = Len(s.queue) + 1
  BY QueueAppend DEF SemOf
<1> QED BY <1>1, <1>2 DEF SemOf, Blocks

LEMMA SemSignal ==
  ASSUME NEW s, NEW W, SemOf(s, W)
  PROVE  /\ Signal(s).count = s.count + 1
         /\ s.count >= 0 => W = {} /\ SemOf(Signal(s), {})
         /\ s.count < 0 => \E p \in W : SemOf(Signal(s), W \ {p})
PROOF
<1>1. s.count \in Int /\ QueueOf(s.queue, W)
  BY DEF SemOf
<1>2. CASE s.count >= 0
  <2>1. W = {} /\ Signal(s) = [count |-> s.count + 1, queue |-> s.queue]
    BY <1>1, <1>2, SemEmpty DEF Signal
  <2>2. SemOf(Signal(s), {})
    BY <1>1, <1>2, <2>1 DEF SemOf
  <2> QED BY <1>1, <1>2, <2>1, <2>2
<1>3. CASE s.count < 0
  <2>1. s.queue # <<>>
    BY <1>1, <1>3 DEF SemOf, QueueOf
  <2>2. /\ Head(s.queue) \in W /\ QueueOf(Tail(s.queue), W \ {Head(s.queue)})
        /\ Len(Tail(s.queue)) = Len(s.queue) - 1
    BY <1>1, <2>1, QueueTail
  <2>3. Signal(s) = [count |-> s.count + 1, queue |-> Tail(s.queue)]
    BY <1>3 DEF Signal
  <2>4. SemOf(Signal(s), W \ {Head(s.queue)})
    BY <1>1, <1>3, <2>2, <2>3 DEF SemOf
  <2>5. \E p \in W : SemOf(Signal(s), W \ {p})
    BY <2>2, <2>4
  <2>6. Signal(s).count = s.count + 1
    BY <1>1, <2>3
  <2> QED BY <1>1, <1>3, <2>5, <2>6
<1> QED BY <1>1, <1>2, <1>3

LEMMA SemLeaves ==
  ASSUME NEW s, NEW W, SemOf(s, W), NEW p \in W
  PROVE  /\ SemOf(Leaves(s, p), W \ {p}) /\ Leaves(s, p).count = s.count + 1
         /\ s.count < 0
PROOF
<1>1. s.count \in Int /\ s.count < 0
  BY SemEmpty DEF SemOf
<1>2. QueueOf(GetItem(s.queue, p), W \ {p}) /\ Len(GetItem(s.queue, p)) = Len(s.queue) - 1
  BY QueueGetItem DEF SemOf
<1> QED BY <1>1, <1>2 DEF SemOf, Leaves

(* As many wait at a semaphore as its count is below zero. *)
LEMMA SemCounts ==
  ASSUME NEW s, NEW W, SemOf(s, W)
  PROVE  IsFiniteSet(W) /\ Cardinality(W) = (IF s.count < 0 THEN -s.count ELSE 0)
PROOF
<1>1. PICK n \in Nat : n = Len(s.queue)
  BY DEF SemOf, QueueOf
<1>2. PICK q : q = s.queue
  OBVIOUS
<1>3. q \in [1..n -> W] /\ (\A i, j \in 1..n : q[i] = q[j] => i = j) /\ \A p \in W : \E i \in 1..n : q[i] = p
  BY <1>1, <1>2 DEF SemOf, QueueOf
<1>4. q \in Bijection(1..n, W)
  BY <1>3 DEF Bijection, Injection, Surjection, IsInjective
<1>5. ExistsBijection(1..n, W)
  BY <1>4 DEF ExistsBijection
<1>6. IsFiniteSet(1..n) /\ Cardinality(1..n) = n
  BY FS_Interval
<1>7. IsFiniteSet(W) /\ Cardinality(W) = n
  BY <1>5, <1>6, FS_Bijection
<1> QED BY <1>1, <1>7 DEF SemOf

(* signaln lets the first n go, or all. *)
LEMMA SemSignalN ==
  ASSUME NEW s, NEW W, SemOf(s, W), NEW n \in Nat \ {0}
  PROVE  SignalN(s, n).count = s.count + n /\ \E V \in SUBSET W : SemOf(SignalN(s, n), V)
PROOF
<1>1. s.count \in Int /\ s.queue \in Seq(W) /\ Len(s.queue) \in Nat /\ QueueOf(s.queue, W)
      /\ Len(s.queue) = IF s.count < 0 THEN -s.count ELSE 0
  BY DEF SemOf, QueueOf
<1>2. CASE s.count >= 0
  <2>1. SignalN(s, n) = [count |-> s.count + n, queue |-> s.queue]
    BY <1>1, <1>2 DEF SignalN
  <2>2. SemOf(SignalN(s, n), W)
    BY <1>1, <1>2, <2>1 DEF SemOf
  <2> QED BY <2>1, <2>2
<1>3. CASE s.count < 0
  <2>1. PICK m \in Nat : m = IF n < -s.count THEN n ELSE -s.count
    BY <1>1, <1>3
  <2>2. PICK q : q = SubSeq(s.queue, 1 + m, Len(s.queue))
    OBVIOUS
  <2>3. SignalN(s, n) = [count |-> s.count + n, queue |-> q]
    <3>1. ~(s.count >= 0)
      BY <1>1, <1>3
    <3>2. q = SubSeq(s.queue, 1 + (IF n < -s.count THEN n ELSE -s.count), Len(s.queue))
      BY <2>1, <2>2, Zenon
    <3> QED BY <3>1, <3>2, Zenon DEF SignalN
  <2>4. /\ q \in Seq(W) /\ Len(q) = Len(s.queue) - m /\ Len(q) \in Nat
        /\ \A i \in 1..Len(q) : q[i] = s.queue[m + i] /\ m + i \in 1..Len(s.queue)
    <3>1. m <= Len(s.queue)
      BY <1>1, <1>3, <2>1
    <3>2. PICK t \in Seq(W) : t = s.queue
      BY <1>1
    <3>3. \A i \in (1 + m)..Len(t) : t[i] \in W
      OBVIOUS
    <3>4. /\ q \in Seq(W) /\ Len(q) = (IF 1 + m <= Len(t) THEN Len(t) - (1 + m) + 1 ELSE 0)
          /\ \A i \in 1..(Len(t) - (1 + m) + 1) : q[i] = t[1 + m + i - 1]
      BY <2>2, <3>2, <3>3, SubSeqProperties
    <3>5. Len(t) \in Nat /\ Len(q) = Len(t) - m
      BY <3>1, <3>2, <3>4
    <3>6. ASSUME NEW i \in 1..Len(q) PROVE q[i] = t[m + i] /\ m + i \in 1..Len(t)
      <4>1. i \in 1..(Len(t) - (1 + m) + 1) /\ 1 + m + i - 1 = m + i /\ m + i \in 1..Len(t)
        BY <3>5
      <4> QED BY <3>4, <4>1
    <3> QED BY SMTT(30), <3>1, <3>2, <3>4, <3>5, <3>6
  <2>5. PICK V : V = {q[i] : i \in 1..Len(q)}
    OBVIOUS
  <2>6. QueueOf(q, V)
    <3>1. q \in Seq(V)
      BY <2>4, <2>5, SeqOfElements
    <3>2. ASSUME NEW i \in 1..Len(q), NEW j \in 1..Len(q), q[i] = q[j] PROVE i = j
      <4>1. PICK a \in 1..Len(s.queue), b \in 1..Len(s.queue) :
              a = m + i /\ b = m + j /\ q[i] = s.queue[a] /\ q[j] = s.queue[b]
        BY <2>4
      <4>2. a = b
        BY <1>1, <3>2, <4>1 DEF QueueOf
      <4> QED BY <2>4, <4>1, <4>2
    <3> QED BY <2>5, <3>1, <3>2 DEF QueueOf
  <2>7. V \in SUBSET W
    BY <2>4, <2>5
  <2>8. Len(q) = IF s.count + n < 0 THEN -(s.count + n) ELSE 0
    BY <1>1, <1>3, <2>1, <2>4
  <2>9. SemOf(SignalN(s, n), V)
    BY <1>1, <2>3, <2>6, <2>8 DEF SemOf
  <2> QED BY <2>3, <2>7, <2>9
<1> QED BY <1>1, <1>2, <1>3

-----------------------------------------------------------------------------
LEMMA LeastIs ==
  ASSUME NEW n \in Nat, NEW S \in SUBSET (1..n), S # {}
  PROVE  Min(S) \in S /\ \A x \in S : Min(S) <= x
PROOF
<1>1. S \in SUBSET Nat
  OBVIOUS
<1>2. \E x \in S : \A y \in S : x <= y
  BY <1>1, LeastExists
<1> QED BY <1>2 DEF Min

LEMMA LeastOfTwo ==
  ASSUME NEW a \in Int, NEW b \in Int
  PROVE  Min({a, b}) = IF a <= b THEN a ELSE b
PROOF
<1>1. PICK m \in Int : m = IF a <= b THEN a ELSE b
  OBVIOUS
<1>2. m \in {a, b} /\ \A y \in {a, b} : m <= y
  BY <1>1
<1>3. ASSUME NEW x \in {a, b}, \A y \in {a, b} : x <= y PROVE x = m
  BY <1>1, <1>3
<1> QED BY <1>1, <1>2, <1>3 DEF Min

(* The sum of f over s, taken element by element. *)
Picked(s) == CHOOSE x \in s : TRUE
SumTo(it, f, s) == IF s = {} THEN 0 ELSE f[Picked(s)] + it[s \ {Picked(s)}]
Sums(D, f) == CHOOSE it : it = [s \in SUBSET D |-> SumTo(it, f, s)]

(* The parts of D with at most n elements. *)
PartsUpTo(D, n) == {s \in SUBSET D : Cardinality(s) <= n}

LEMMA SumsOfSmall ==
  ASSUME NEW D, IsFiniteSet(D), NEW f \in [D -> Int], NEW n \in Nat
  PROVE  \E it \in [PartsUpTo(D, n) -> Int] : \A s \in PartsUpTo(D, n) : it[s] = SumTo(it, f, s)
PROOF
<1> DEFINE Small(k) == {s \in SUBSET D : Cardinality(s) <= k}
           Good(k) == \E it \in [Small(k) -> Int] : \A s \in Small(k) : it[s] = SumTo(it, f, s)
           Bad == {k \in Nat : ~Good(k)}
<1>1. \A s \in SUBSET D : IsFiniteSet(s) /\ Cardinality(s) \in Nat
  BY FS_Subset, FS_CardinalityType
<1>2. ASSUME NEW s \in SUBSET D, s # {}, NEW x, x = Picked(s)
      PROVE  x \in s /\ x \in D /\ s \ {x} \in SUBSET D /\ Cardinality(s \ {x}) = Cardinality(s) - 1
  BY <1>1, <1>2, FS_RemoveElement DEF Picked
<1>3. Good(0)
  <2>1. \A s \in Small(0) : s = {}
    BY <1>1, FS_EmptySet
  <2>2. [s \in Small(0) |-> 0] \in [Small(0) -> Int] 
    OBVIOUS
  <2> QED BY <2>1, <2>2 DEF SumTo
<1>4. ASSUME NEW k \in Nat, Good(k) PROVE Good(k + 1)
  <2>1. PICK it \in [Small(k) -> Int] : \A s \in Small(k) : it[s] = SumTo(it, f, s)
    BY <1>4
  <2> DEFINE jt == [s \in Small(k + 1) |-> SumTo(it, f, s)]
  <2>2. ASSUME NEW s \in Small(k + 1), s # {}, NEW x, x = Picked(s)
        PROVE  x \in D /\ s \ {x} \in Small(k) /\ s \ {x} \in Small(k + 1)
               /\ jt[s \ {x}] = it[s \ {x}] /\ it[s \ {x}] \in Int
    <3>1. x \in D /\ s \ {x} \in SUBSET D /\ Cardinality(s \ {x}) = Cardinality(s) - 1
      BY <1>2, <2>2
    <3>2. Cardinality(s \ {x}) <= k /\ Cardinality(s \ {x}) <= k + 1
      BY <1>1, <3>1
    <3> QED BY <2>1, <3>1, <3>2
  <2>3. jt \in [Small(k + 1) -> Int]
    <3>1. ASSUME NEW s \in Small(k + 1) PROVE SumTo(it, f, s) \in Int
      <4>1. CASE s = {}
        BY <4>1 DEF SumTo
      <4>2. CASE s # {}
        <5>1. PICK x : x = Picked(s)
          OBVIOUS
        <5>2. f[x] \in Int /\ it[s \ {x}] \in Int
          <6> HIDE DEF Small, jt
          <6> QED BY <2>2, <4>2, <5>1
        <5>3. SumTo(it, f, s) = f[x] + it[s \ {x}]
          BY <4>2, <5>1 DEF SumTo
        <5> QED BY <5>2, <5>3
      <4> QED BY <4>1, <4>2
    <3> HIDE DEF Small
    <3> QED BY <3>1
  <2>4. ASSUME NEW s \in Small(k + 1) PROVE jt[s] = SumTo(jt, f, s)
    <3>1. jt[s] = SumTo(it, f, s)
      OBVIOUS
    <3> HIDE DEF jt, Small
    <3> QED BY <2>2, <3>1 DEF SumTo
  <2> HIDE DEF jt, Small
  <2> QED BY <2>3, <2>4
<1>5. Bad = {}
  <2> SUFFICES ASSUME Bad # {} PROVE FALSE
    OBVIOUS
  <2>1. PICK k \in Bad : \A j \in Bad : k <= j
    <3>1. Bad \in SUBSET Nat
      OBVIOUS
    <3> HIDE DEF Bad
    <3> QED BY <3>1, LeastExists
  <2>2. k \in Nat /\ ~Good(k)
    OBVIOUS
  <2>3. k # 0
    <3> HIDE DEF Good
    <3> QED BY <2>2, <1>3
  <2>4. k - 1 \in Nat /\ ~(k <= k - 1) /\ (k - 1) + 1 = k
    BY <2>2, <2>3
  <2>5. Good(k - 1)
    <3> HIDE DEF Good
    <3> QED BY <2>1, <2>4
  <2> HIDE DEF Good
  <2> QED BY <1>4, <2>2, <2>4, <2>5
<1>6. Good(n)
  <2> HIDE DEF Good
  <2> QED BY <1>5
<1> QED BY <1>6 DEF PartsUpTo

LEMMA FoldIsSum ==
  ASSUME NEW D, NEW f \in [D -> Int]
  PROVE  FoldFunction(+, 0, f) = Sums(D, f)[D]
PROOF
<1>1. DOMAIN f = D
  OBVIOUS
<1>2. FoldFunctionOnSet(+, 0, f, D) = Sums(D, f)[D]
  BY DEF FoldFunctionOnSet, MapThenFoldSet, Sums, SumTo, Picked
<1>3. FoldFunction(+, 0, f) = FoldFunctionOnSet(+, 0, f, D)
  BY <1>1 DEF FoldFunction
<1> QED BY <1>2, <1>3

LEMMA SumsDefined ==
  ASSUME NEW D, IsFiniteSet(D), NEW f \in [D -> Int]
  PROVE  Sums(D, f) = [s \in SUBSET D |-> SumTo(Sums(D, f), f, s)]
PROOF
<1>1. \A s \in SUBSET D : Cardinality(s) <= Cardinality(D)
  BY FS_Subset
<1>2. PICK n \in Nat : n = Cardinality(D)
  BY FS_CardinalityType
<1>3. PartsUpTo(D, n) = SUBSET D
  BY <1>1, <1>2 DEF PartsUpTo
<1>4. PICK it \in [PartsUpTo(D, n) -> Int] : \A s \in PartsUpTo(D, n) : it[s] = SumTo(it, f, s)
  BY SumsOfSmall
<1>5. it = [s \in SUBSET D |-> SumTo(it, f, s)]
  BY <1>3, <1>4
<1> QED BY <1>5 DEF Sums

LEMMA SumsAre ==
  ASSUME NEW D, IsFiniteSet(D), NEW f \in [D -> Int], NEW s \in SUBSET D
  PROVE  Sums(D, f)[s] = SumTo(Sums(D, f), f, s)
PROOF
<1> DEFINE it == Sums(D, f)
<1>1. it = [r \in SUBSET D |-> SumTo(it, f, r)]
  BY SumsDefined
<1> HIDE DEF it
<1>2. it[s] = SumTo(it, f, s)
  BY <1>1
<1> QED BY <1>2 DEF it

(* What holds of the empty set, and of a set when it holds of it without an
   element, holds of every part of D. *)
LEMMA SumsChange ==
  ASSUME NEW D, IsFiniteSet(D), NEW f \in [D -> Int], NEW g \in [D -> Int],
         NEW n \in D, \A m \in D : m # n => g[m] = f[m], NEW s \in SUBSET D
  PROVE  /\ Sums(D, f)[s] \in Int
         /\ Sums(D, g)[s] = Sums(D, f)[s] + (IF n \in s THEN g[n] - f[n] ELSE 0)
PROOF
<1>0. ASSUME NEW r \in SUBSET D
      PROVE  /\ r = {} => Sums(D, f)[r] = 0 /\ Sums(D, g)[r] = 0
             /\ r # {} => /\ Sums(D, f)[r] = f[Picked(r)] + Sums(D, f)[r \ {Picked(r)}]
                          /\ Sums(D, g)[r] = g[Picked(r)] + Sums(D, g)[r \ {Picked(r)}]
  <2>1. Sums(D, f)[r] = SumTo(Sums(D, f), f, r)
    BY SumsAre
  <2>2. Sums(D, g)[r] = SumTo(Sums(D, g), g, r)
    BY SumsAre
  <2> QED BY <2>1, <2>2 DEF SumTo
<1> DEFINE Good(r) == /\ Sums(D, f)[r] \in Int
                      /\ Sums(D, g)[r] = Sums(D, f)[r] + (IF n \in r THEN g[n] - f[n] ELSE 0)
           Bad == {Cardinality(r) : r \in {q \in SUBSET D : ~Good(q)}}
<1>1. \A r \in SUBSET D : IsFiniteSet(r) /\ Cardinality(r) \in Nat
  BY FS_Subset, FS_CardinalityType
<1>2. Bad = {}
  <2> SUFFICES ASSUME Bad # {} PROVE FALSE
    OBVIOUS
  <2>1. PICK k \in Bad : \A j \in Bad : k <= j
    <3>1. Bad \in SUBSET Nat
      BY <1>1
    <3> HIDE DEF Bad
    <3> QED BY <3>1, LeastExists
  <2>2. PICK r \in SUBSET D : ~Good(r) /\ k = Cardinality(r)
    OBVIOUS
  <2>3. r # {}
    <3>1. Good({})
      <4>1. Sums(D, f)[{}] = 0 /\ Sums(D, g)[{}] = 0
        BY <1>0
      <4> QED BY <4>1
    <3> HIDE DEF Good
    <3> QED BY <2>2, <3>1
  <2>4. PICK x : x = Picked(r)
    OBVIOUS
  <2>5. x \in r /\ x \in D /\ r \ {x} \in SUBSET D /\ Cardinality(r \ {x}) = k - 1
    BY <1>1, <2>2, <2>3, <2>4, FS_RemoveElement DEF Picked
  <2>6. Good(r \ {x})
    <3>1. ~(k <= k - 1)
      BY <1>1, <2>2
    <3>2. k - 1 \notin Bad
      <4> HIDE DEF Bad
      <4> QED BY <2>1, <3>1
    <3> HIDE DEF Good
    <3> QED BY <2>5, <3>2
  <2>7. Sums(D, f)[r] = f[x] + Sums(D, f)[r \ {x}] /\ Sums(D, g)[r] = g[x] + Sums(D, g)[r \ {x}]
    BY <1>0, <2>3, <2>4
  <2>8. f[x] \in Int /\ g[x] \in Int /\ f[n] \in Int /\ g[n] \in Int
    BY <2>5
  <2>9. Good(r)
    <3>1. CASE x = n
      BY <2>5, <2>6, <2>7, <2>8, <3>1
    <3>2. CASE x # n
      <4>1. f[x] = g[x] /\ (n \in r <=> n \in r \ {x})
        BY <2>5, <3>2
      <4> QED BY <2>6, <2>7, <2>8, <4>1
    <3> QED BY <3>1, <3>2
  <2> HIDE DEF Good
  <2> QED BY <2>2, <2>9
<1>3. Good(s)
  <2> HIDE DEF Good
  <2> QED BY <1>2
<1> QED BY <1>3

(* Of two functions that are nowhere more the one than the other, the sums are too. *)
LEMMA SumsOrdered ==
  ASSUME NEW D, IsFiniteSet(D), NEW f \in [D -> Int], NEW g \in [D -> Int],
         \A m \in D : f[m] <= g[m], NEW s \in SUBSET D
  PROVE  /\ Sums(D, f)[s] \in Int /\ Sums(D, g)[s] \in Int /\ Sums(D, f)[s] <= Sums(D, g)[s]
         /\ (\A m \in D : f[m] = 0) => Sums(D, f)[s] = 0
PROOF
<1>0. ASSUME NEW r \in SUBSET D
      PROVE  /\ r = {} => Sums(D, f)[r] = 0 /\ Sums(D, g)[r] = 0
             /\ r # {} => /\ Sums(D, f)[r] = f[Picked(r)] + Sums(D, f)[r \ {Picked(r)}]
                          /\ Sums(D, g)[r] = g[Picked(r)] + Sums(D, g)[r \ {Picked(r)}]
  <2>1. Sums(D, f)[r] = SumTo(Sums(D, f), f, r)
    BY SumsAre
  <2>2. Sums(D, g)[r] = SumTo(Sums(D, g), g, r)
    BY SumsAre
  <2> QED BY <2>1, <2>2 DEF SumTo
<1> DEFINE Good(r) == /\ Sums(D, f)[r] \in Int /\ Sums(D, g)[r] \in Int
                      /\ Sums(D, f)[r] <= Sums(D, g)[r]
                      /\ (\A m \in D : f[m] = 0) => Sums(D, f)[r] = 0
           Bad == {Cardinality(r) : r \in {q \in SUBSET D : ~Good(q)}}
<1>1. \A r \in SUBSET D : IsFiniteSet(r) /\ Cardinality(r) \in Nat
  BY FS_Subset, FS_CardinalityType
<1>2. Bad = {}
  <2> SUFFICES ASSUME Bad # {} PROVE FALSE
    OBVIOUS
  <2>1. PICK k \in Bad : \A j \in Bad : k <= j
    <3>1. Bad \in SUBSET Nat
      BY <1>1
    <3> HIDE DEF Bad
    <3> QED BY <3>1, LeastExists
  <2>2. PICK r \in SUBSET D : ~Good(r) /\ k = Cardinality(r)
    OBVIOUS
  <2>3. r # {}
    <3>1. Good({})
      <4>1. Sums(D, f)[{}] = 0 /\ Sums(D, g)[{}] = 0
        BY <1>0
      <4> QED BY <4>1
    <3> HIDE DEF Good
    <3> QED BY <2>2, <3>1
  <2>4. PICK x : x = Picked(r)
    OBVIOUS
  <2>5. x \in r /\ x \in D /\ r \ {x} \in SUBSET D /\ Cardinality(r \ {x}) = k - 1
    BY <1>1, <2>2, <2>3, <2>4, FS_RemoveElement DEF Picked
  <2>6. Good(r \ {x})
    <3>1. ~(k <= k - 1)
      BY <1>1, <2>2
    <3>2. k - 1 \notin Bad
      <4> HIDE DEF Bad
      <4> QED BY <2>1, <3>1
    <3> HIDE DEF Good
    <3> QED BY <2>5, <3>2
  <2>7. Sums(D, f)[r] = f[x] + Sums(D, f)[r \ {x}] /\ Sums(D, g)[r] = g[x] + Sums(D, g)[r \ {x}]
    BY <1>0, <2>3, <2>4
  <2>8. f[x] \in Int /\ g[x] \in Int /\ f[x] <= g[x] /\ ((\A m \in D : f[m] = 0) => f[x] = 0)
    BY <2>5
  <2>9. Good(r)
    BY <2>6, <2>7, <2>8
  <2> HIDE DEF Good
  <2> QED BY <2>2, <2>9
<1>3. Good(s)
  <2> HIDE DEF Good
  <2> QED BY <1>2
<1> QED BY <1>3

LEMMA SumChanges ==
  ASSUME NEW D, IsFiniteSet(D), NEW f \in [D -> Int], NEW g \in [D -> Int],
         NEW n \in D, \A m \in D : m # n => g[m] = f[m]
  PROVE  /\ FoldFunction(+, 0, f) \in Int
         /\ FoldFunction(+, 0, g) = FoldFunction(+, 0, f) + g[n] - f[n]
PROOF
<1>1. FoldFunction(+, 0, f) = Sums(D, f)[D] /\ FoldFunction(+, 0, g) = Sums(D, g)[D]
  BY FoldIsSum
<1>2. /\ Sums(D, f)[D] \in Int
      /\ Sums(D, g)[D] = Sums(D, f)[D] + (IF n \in D THEN g[n] - f[n] ELSE 0)
  BY SumsChange
<1>3. f[n] \in Int /\ g[n] \in Int
  OBVIOUS
<1> QED BY <1>1, <1>2, <1>3

LEMMA SumOrdered ==
  ASSUME NEW D, IsFiniteSet(D), NEW f \in [D -> Int], NEW g \in [D -> Int],
         \A m \in D : f[m] <= g[m]
  PROVE  /\ FoldFunction(+, 0, f) \in Int /\ FoldFunction(+, 0, g) \in Int
         /\ FoldFunction(+, 0, f) <= FoldFunction(+, 0, g)
         /\ (\A m \in D : f[m] = 0) => FoldFunction(+, 0, f) = 0
PROOF
<1>1. FoldFunction(+, 0, f) = Sums(D, f)[D] /\ FoldFunction(+, 0, g) = Sums(D, g)[D]
  BY FoldIsSum
<1>2. /\ Sums(D, f)[D] \in Int /\ Sums(D, g)[D] \in Int /\ Sums(D, f)[D] <= Sums(D, g)[D]
      /\ (\A m \in D : f[m] = 0) => Sums(D, f)[D] = 0
  BY SumsOrdered
<1> QED BY <1>1, <1>2

(* Any element may be taken out first. *)
LEMMA SumsAnyOrder ==
  ASSUME NEW D, IsFiniteSet(D), NEW f \in [D -> Int], NEW s \in SUBSET D, NEW y \in s
  PROVE  Sums(D, f)[s] = f[y] + Sums(D, f)[s \ {y}] /\ Sums(D, f)[s \ {y}] \in Int
PROOF
<1>0. ASSUME NEW r \in SUBSET D, r # {}
      PROVE  Sums(D, f)[r] = f[Picked(r)] + Sums(D, f)[r \ {Picked(r)}]
  BY <1>0, SumsAre DEF SumTo
<1>i. ASSUME NEW r \in SUBSET D PROVE Sums(D, f)[r] \in Int
  <2>1. \A m \in D : f[m] <= f[m]
    OBVIOUS
  <2> QED BY <2>1, SumsOrdered
<1> DEFINE Good(r) == \A m \in r : Sums(D, f)[r] = f[m] + Sums(D, f)[r \ {m}]
           Bad == {Cardinality(r) : r \in {q \in SUBSET D : ~Good(q)}}
<1>1. \A r \in SUBSET D : IsFiniteSet(r) /\ Cardinality(r) \in Nat
  BY FS_Subset, FS_CardinalityType
<1>2. Bad = {}
  <2> SUFFICES ASSUME Bad # {} PROVE FALSE
    OBVIOUS
  <2>1. PICK k \in Bad : \A j \in Bad : k <= j
    <3>1. Bad \in SUBSET Nat
      BY <1>1
    <3> HIDE DEF Bad
    <3> QED BY <3>1, LeastExists
  <2>2. PICK r \in SUBSET D : ~Good(r) /\ k = Cardinality(r)
    OBVIOUS
  <2>3. PICK m \in r : Sums(D, f)[r] # f[m] + Sums(D, f)[r \ {m}]
    BY <2>2
  <2>4. PICK x : x = Picked(r)
    OBVIOUS
  <2>5. x \in r /\ x \in D /\ r \ {x} \in SUBSET D /\ r \ {m} \in SUBSET D
    BY <2>3, <2>4 DEF Picked
  <2>6. Sums(D, f)[r] = f[x] + Sums(D, f)[r \ {x}]
    BY <1>0, <2>3, <2>4
  <2>7. x # m
    BY <2>3, <2>6
  <2>8. ASSUME NEW z \in r PROVE Good(r \ {z})
    <3>1. Cardinality(r \ {z}) = k - 1 /\ r \ {z} \in SUBSET D
      BY <1>1, <2>2, FS_RemoveElement
    <3>2. ~(k <= k - 1)
      BY <1>1, <2>2
    <3>3. k - 1 \notin Bad
      <4> HIDE DEF Bad
      <4> QED BY <2>1, <3>2
    <3> HIDE DEF Good
    <3> QED BY <3>1, <3>3
  <2>9. Sums(D, f)[r \ {x}] = f[m] + Sums(D, f)[(r \ {x}) \ {m}]
    BY <2>5, <2>7, <2>8
  <2>10. Sums(D, f)[r \ {m}] = f[x] + Sums(D, f)[(r \ {m}) \ {x}]
    BY <2>5, <2>7, <2>8
  <2>11. (r \ {m}) \ {x} = (r \ {x}) \ {m}
    OBVIOUS
  <2>12. f[x] \in Int /\ f[m] \in Int /\ Sums(D, f)[(r \ {x}) \ {m}] \in Int
    <3>1. (r \ {x}) \ {m} \in SUBSET D /\ m \in D
      BY <2>5
    <3> QED BY <1>i, <2>5, <3>1
  <2>13. PICK c \in Int : c = Sums(D, f)[(r \ {x}) \ {m}]
    BY <2>12
  <2>14. Sums(D, f)[r \ {m}] = f[x] + c
    BY <2>10, <2>11, <2>13
  <2>15. Sums(D, f)[r \ {x}] = f[m] + c
    BY <2>9, <2>13
  <2>16. Sums(D, f)[r] = f[x] + (f[m] + c)
    BY <2>6, <2>15
  <2>17. Sums(D, f)[r] # f[m] + (f[x] + c)
    BY <2>3, <2>14
  <2>18. f[x] + (f[m] + c) = f[m] + (f[x] + c)
    BY <2>12
  <2> QED BY <2>16, <2>17, <2>18
<1>3. Good(s)
  <2> HIDE DEF Good
  <2> QED BY <1>2
<1>4. s \ {y} \in SUBSET D
  OBVIOUS
<1> QED BY <1>3, <1>4, <1>i

(* The sum does not depend on the domain. *)
LEMMA SumsGrow ==
  ASSUME NEW E, IsFiniteSet(E), NEW D \in SUBSET E, NEW f \in [D -> Int],
         NEW g \in [E -> Int], \A m \in D : g[m] = f[m], NEW s \in SUBSET D
  PROVE  Sums(E, g)[s] = Sums(D, f)[s]
PROOF
<1>d. IsFiniteSet(D)
  BY FS_Subset
<1>0. ASSUME NEW r \in SUBSET D
      PROVE  /\ r = {} => Sums(D, f)[r] = 0 /\ Sums(E, g)[r] = 0
             /\ r # {} => /\ Sums(D, f)[r] = f[Picked(r)] + Sums(D, f)[r \ {Picked(r)}]
                          /\ Sums(E, g)[r] = g[Picked(r)] + Sums(E, g)[r \ {Picked(r)}]
  <2>1. Sums(D, f)[r] = SumTo(Sums(D, f), f, r)
    BY <1>d, SumsAre
  <2>2. r \in SUBSET E
    OBVIOUS
  <2>3. Sums(E, g)[r] = SumTo(Sums(E, g), g, r)
    BY <2>2, SumsAre
  <2> QED BY <2>1, <2>3 DEF SumTo
<1> DEFINE Good(r) == Sums(E, g)[r] = Sums(D, f)[r]
           Bad == {Cardinality(r) : r \in {q \in SUBSET D : ~Good(q)}}
<1>1. \A r \in SUBSET D : IsFiniteSet(r) /\ Cardinality(r) \in Nat
  BY <1>d, FS_Subset, FS_CardinalityType
<1>2. Bad = {}
  <2> SUFFICES ASSUME Bad # {} PROVE FALSE
    OBVIOUS
  <2>1. PICK k \in Bad : \A j \in Bad : k <= j
    <3>1. Bad \in SUBSET Nat
      BY <1>1
    <3> HIDE DEF Bad
    <3> QED BY <3>1, LeastExists
  <2>2. PICK r \in SUBSET D : ~Good(r) /\ k = Cardinality(r)
    OBVIOUS
  <2>3. r # {}
    BY <1>0, <2>2
  <2>4. PICK x : x = Picked(r)
    OBVIOUS
  <2>5. x \in r /\ x \in D /\ r \ {x} \in SUBSET D /\ Cardinality(r \ {x}) = k - 1
    BY <1>1, <2>2, <2>3, <2>4, FS_RemoveElement DEF Picked
  <2>6. Good(r \ {x})
    <3>1. ~(k <= k - 1)
      BY <1>1, <2>2
    <3>2. k - 1 \notin Bad
      <4> HIDE DEF Bad
      <4> QED BY <2>1, <3>1
    <3> HIDE DEF Good
    <3> QED BY <2>5, <3>2
  <2>7. Sums(D, f)[r] = f[x] + Sums(D, f)[r \ {x}] /\ Sums(E, g)[r] = g[x] + Sums(E, g)[r \ {x}]
    BY <1>0, <2>3, <2>4
  <2> QED BY <2>2, <2>5, <2>6, <2>7
<1>3. Good(s)
  <2> HIDE DEF Good
  <2> QED BY <1>2
<1> QED BY <1>3

(* One element more. *)
LEMMA SumGrows ==
  ASSUME NEW E, IsFiniteSet(E), NEW n \in E, NEW D, D = E \ {n},
         NEW f \in [D -> Int], NEW g \in [E -> Int], \A m \in D : g[m] = f[m]
  PROVE  Sums(D, f)[D] \in Int /\ Sums(E, g)[E] = Sums(D, f)[D] + g[n]
PROOF
<1>1. D \in SUBSET E /\ D \in SUBSET D /\ E \in SUBSET E
  OBVIOUS
<1>2. Sums(E, g)[D] = Sums(D, f)[D]
  BY <1>1, SumsGrow
<1>4. Sums(E, g)[E] = g[n] + Sums(E, g)[E \ {n}] /\ Sums(E, g)[E \ {n}] \in Int
  BY <1>1, SumsAnyOrder
<1>5. g[n] \in Int
  OBVIOUS
<1> QED BY <1>2, <1>4, <1>5

-----------------------------------------------------------------------------
(* Remainders *)

LEMMA ModIs ==
  ASSUME NEW n \in Nat \ {0}, NEW i \in Int
  PROVE  i % n \in 0..(n - 1) /\ i \div n \in Int /\ i = n * (i \div n) + (i % n)
PROOF OBVIOUS

LEMMA ModUnique ==
  ASSUME NEW n \in Nat \ {0}, NEW i \in Int, NEW q \in Int, NEW r \in 0..(n - 1), i = n * q + r
  PROVE  i % n = r
PROOF OBVIOUS

LEMMA ModSame ==
  ASSUME NEW n \in Nat \ {0}, NEW i \in Int, NEW j \in Int, i % n = j % n, i <= j, j - i < n
  PROVE  i = j
PROOF
<1>1. PICK p \in Int : i = n * p + (i % n)
  BY ModIs
<1>2. PICK q \in Int : j = n * q + (j % n)
  BY ModIs
<1>3. PICK r \in 0..(n - 1) : r = i % n /\ r = j % n
  BY ModIs
<1>4. i = n * p + r /\ j = n * q + r
  BY <1>1, <1>2, <1>3
<1>5. n * (q - p) = j - i
  BY <1>4
<1>6. q - p >= 1 => n * (q - p) >= n
  OBVIOUS
<1>7. q - p <= -1 => n * (q - p) <= -n
  OBVIOUS
<1>8. q = p
  BY <1>5, <1>6, <1>7
<1> QED BY <1>4, <1>8

LEMMA ModAdd ==
  ASSUME NEW n \in Nat \ {0}, NEW i \in Int, NEW j \in Int
  PROVE  ((i % n) + j) % n = (i + j) % n
PROOF
<1>1. PICK p \in Int : i = n * p + (i % n)
  BY ModIs
<1>2. PICK r \in Int : r = i % n
  BY ModIs
<1>a. PICK k \in Int : k = r + j
  BY <1>2
<1>3. PICK q \in Int, s \in 0..(n - 1) : k = n * q + s
  BY ModIs
<1>4. k % n = s
  BY <1>3, ModUnique
<1>5. i + j = n * (p + q) + s
  <2>1. i = n * p + r
    BY <1>1, <1>2
  <2>2. n * p + n * q = n * (p + q)
    OBVIOUS
  <2> QED BY <1>3, <1>a, <2>1, <2>2
<1>b. PICK l \in Int, m \in Int : l = i + j /\ m = p + q
  OBVIOUS
<1>6. l % n = s
  BY <1>5, <1>b, ModUnique
<1> QED BY <1>2, <1>4, <1>6, <1>a, <1>b

LEMMA ModTurn ==
  ASSUME NEW n \in Nat \ {0}, NEW i \in Int
  PROVE  (i + n) % n = i % n
PROOF
<1>1. PICK q \in Int : i = n * q + (i % n)
  BY ModIs
<1>2. PICK r \in 0..(n - 1) : r = i % n
  BY ModIs
<1>3. PICK j \in Int, p \in Int : j = i + n /\ p = q + 1
  OBVIOUS
<1>4. n * p = n * q + n
  BY <1>3
<1>5. PICK x \in Int : x = n * q
  OBVIOUS
<1>6. j = n * p + r
  <2>1. i = x + r
    BY <1>1, <1>2, <1>5
  <2>2. n * p = x + n
    BY <1>4, <1>5
  <2> QED BY <1>3, <2>1, <2>2
<1>7. j % n = r
  BY <1>6, ModUnique
<1> QED BY <1>2, <1>3, <1>7

LEMMA ManyTurns ==
  ASSUME NEW n \in Nat \ {0}, NEW i \in Int, NEW m \in Int
  PROVE  (i + n * m) % n = i % n
PROOF
<1>1. PICK w \in Int, g \in 0..(n - 1) : i = n * w + g /\ g = i % n
  BY ModIs
<1>2. PICK z \in Int : z = w + m
  OBVIOUS
<1>3. n * z = n * w + n * m
  BY <1>2
<1>4. PICK A \in Int, B \in Int, D \in Int : A = n * w /\ B = n * m /\ D = n * z
  OBVIOUS
<1>5. PICK j \in Int : j = i + B
  OBVIOUS
<1>6. j = D + g
  <2>1. D = A + B /\ i = A + g
    BY <1>1, <1>3, <1>4
  <2> QED BY <1>5, <2>1
<1>7. j % n = g
  BY <1>4, <1>6, ModUnique
<1> QED BY <1>1, <1>4, <1>5, <1>7, Zenon
=============================================================================
