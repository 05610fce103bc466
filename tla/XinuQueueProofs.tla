--------------------------- MODULE XinuQueueProofs ---------------------------
(***************************************************************************)
(* What the operations of XinuQueues do to the set of processes on a list, *)
(* for every list.                                                         *)
(***************************************************************************)
EXTENDS XinuQueues, SequenceTheorems, WellFoundedInduction, TLAPS

(* A set of naturals has a least element. *)
LEMMA LeastExists ==
  ASSUME NEW S \in SUBSET Nat, S # {}
  PROVE  \E x \in S : \A y \in S : x <= y
PROOF
<1>1. PICK x \in S : \A y \in S : <<y, x>> \notin OpToRel(<, Nat)
  BY WFMin, NatLessThanWellFounded
<1>2. \A y, z \in Nat : <<y, z>> \in OpToRel(<, Nat) <=> y < z
  BY DEF OpToRel
<1>3. ASSUME NEW y \in S PROVE x <= y
  <2>1. x \in Nat /\ y \in Nat /\ ~(y < x)
    BY <1>1, <1>2
  <2> QED BY <2>1
<1> QED BY <1>3

LEMMA SeqOfElements ==
  ASSUME NEW S, NEW T, NEW q \in Seq(S), \A i \in 1..Len(q) : q[i] \in T
  PROVE  q \in Seq(T)
PROOF
<1>1. Len(q) \in Nat /\ q \in [1..Len(q) -> S]
  BY LenProperties
<1>2. q \in [1..Len(q) -> T]
  BY <1>1
<1> QED BY <1>1, <1>2, SeqDef

LEMMA InsertAtElements ==
  ASSUME NEW T, NEW q \in Seq(T), NEW p \in T, NEW i \in 1..(Len(q) + 1)
  PROVE  /\ InsertAt(q, i, p) \in Seq(T)
         /\ Len(InsertAt(q, i, p)) = Len(q) + 1
         /\ \A j \in 1..(Len(q) + 1) :
              InsertAt(q, i, p)[j] = IF j < i THEN q[j] ELSE IF j = i THEN p ELSE q[j - 1]
PROOF
<1> DEFINE a == SubSeq(q, 1, i - 1)
           b == SubSeq(q, i, Len(q))
           c == a \o <<p>>
<1>0. Len(q) \in Nat /\ i \in Int /\ \A j \in 1..Len(q) : q[j] \in T
  BY LenProperties, ElementOfSeq
<1>1. /\ a \in Seq(T) /\ Len(a) = i - 1
      /\ \A j \in 1..(i - 1) : a[j] = q[j]
  BY <1>0, SubSeqProperties
<1>2. /\ b \in Seq(T) /\ Len(b) = Len(q) - i + 1
      /\ \A j \in 1..(Len(q) - i + 1) : b[j] = q[i + j - 1]
  BY <1>0, SubSeqProperties
<1>3. <<p>> \in Seq(T) /\ Len(<<p>>) = 1 /\ <<p>>[1] = p
  OBVIOUS
<1> HIDE DEF a, b
<1>4. /\ c \in Seq(T) /\ Len(c) = i
      /\ \A j \in 1..i : c[j] = IF j <= i - 1 THEN a[j] ELSE p
  <2>1. /\ c \in Seq(T) /\ Len(c) = Len(a) + Len(<<p>>)
        /\ \A j \in 1..(Len(a) + Len(<<p>>)) :
             c[j] = IF j <= Len(a) THEN a[j] ELSE <<p>>[j - Len(a)]
    BY <1>1, <1>3, ConcatProperties
  <2>2. \A j \in 1..i : j <= i - 1 \/ j - Len(a) = 1
    BY <1>0, <1>1
  <2> QED BY <2>1, <2>2, <1>0, <1>1, <1>3
<1> HIDE DEF c
<1>5. /\ c \o b \in Seq(T) /\ Len(c \o b) = Len(q) + 1
      /\ \A j \in 1..(Len(q) + 1) : (c \o b)[j] = IF j <= i THEN c[j] ELSE b[j - i]
  BY <1>0, <1>2, <1>4, ConcatProperties
<1>6. InsertAt(q, i, p) = c \o b
  BY DEF InsertAt, a, b, c
<1>7. ASSUME NEW j \in 1..(Len(q) + 1)
      PROVE  (c \o b)[j] = IF j < i THEN q[j] ELSE IF j = i THEN p ELSE q[j - 1]
  <2>1. CASE j < i
    BY <2>1, <1>0, <1>1, <1>4, <1>5
  <2>2. CASE j = i
    BY <2>2, <1>0, <1>4, <1>5
  <2>3. CASE j > i
    <3>1. (c \o b)[j] = b[j - i] /\ j - i \in 1..(Len(q) - i + 1)
      BY <2>3, <1>0, <1>5
    <3>2. b[j - i] = q[i + (j - i) - 1] /\ i + (j - i) - 1 = j - 1
      BY <3>1, <1>0, <1>2
    <3> QED BY <2>3, <3>1, <3>2, <1>0
  <2>4. j < i \/ j = i \/ j > i
    BY <1>0
  <2>5. /\ j < i => ~(j = i)
        /\ j > i => ~(j < i) /\ ~(j = i)
        /\ j = i => ~(j < i)
    BY <1>0
  <2> QED BY <2>1, <2>2, <2>3, <2>4, <2>5
<1> QED BY <1>5, <1>6, <1>7

LEMMA RemoveAtElements ==
  ASSUME NEW T, NEW q \in Seq(T), NEW i \in 1..Len(q)
  PROVE  /\ RemoveAt(q, i) \in Seq(T)
         /\ Len(RemoveAt(q, i)) = Len(q) - 1
         /\ \A j \in 1..(Len(q) - 1) :
              RemoveAt(q, i)[j] = IF j < i THEN q[j] ELSE q[j + 1]
PROOF
<1> DEFINE a == SubSeq(q, 1, i - 1)
           b == SubSeq(q, i + 1, Len(q))
<1>0. Len(q) \in Nat /\ i \in Int /\ \A j \in 1..Len(q) : q[j] \in T
  BY LenProperties, ElementOfSeq
<1>1. /\ a \in Seq(T) /\ Len(a) = i - 1
      /\ \A j \in 1..(i - 1) : a[j] = q[j]
  BY <1>0, SubSeqProperties
<1>2. /\ b \in Seq(T) /\ Len(b) = Len(q) - i
      /\ \A j \in 1..(Len(q) - i) : b[j] = q[i + j]
  <2>1. /\ b \in Seq(T) /\ Len(b) = IF i + 1 <= Len(q) THEN Len(q) - (i + 1) + 1 ELSE 0
        /\ \A j \in 1..(Len(q) - (i + 1) + 1) : b[j] = q[(i + 1) + j - 1]
    BY <1>0, SubSeqProperties
  <2> QED BY <2>1, <1>0
<1> HIDE DEF a, b
<1>3. /\ a \o b \in Seq(T) /\ Len(a \o b) = Len(q) - 1
      /\ \A j \in 1..(Len(q) - 1) : (a \o b)[j] = IF j <= i - 1 THEN a[j] ELSE b[j - (i - 1)]
  <2>1. /\ a \o b \in Seq(T) /\ Len(a \o b) = Len(a) + Len(b)
        /\ \A j \in 1..(Len(a) + Len(b)) :
             (a \o b)[j] = IF j <= Len(a) THEN a[j] ELSE b[j - Len(a)]
    <3>1. a \in Seq(T) /\ b \in Seq(T)
      BY <1>1, <1>2
    <3> QED BY <3>1, ConcatProperties
  <2>2. Len(a) + Len(b) = Len(q) - 1
    BY <1>0, <1>1, <1>2
  <2> QED BY <2>1, <2>2, <1>1
<1>4. ASSUME NEW j \in 1..(Len(q) - 1)
      PROVE  (a \o b)[j] = IF j < i THEN q[j] ELSE q[j + 1]
  <2>1. CASE j < i
    BY <2>1, <1>0, <1>1, <1>3
  <2>2. CASE j >= i
    <3>1. (a \o b)[j] = b[j - (i - 1)] /\ j - (i - 1) \in 1..(Len(q) - i)
      <4>1. ~(j <= i - 1) /\ j - (i - 1) \in 1..(Len(q) - i)
        BY <2>2, <1>0
      <4> QED BY <4>1, <1>3
    <3>2. b[j - (i - 1)] = q[i + (j - (i - 1))] /\ i + (j - (i - 1)) = j + 1
      BY <3>1, <1>0, <1>2
    <3> QED BY <2>2, <3>1, <3>2, <1>0
  <2>3. (j < i \/ j >= i) /\ (j >= i => ~(j < i))
    BY <1>0
  <2> QED BY <2>1, <2>2, <2>3
<1>5. RemoveAt(q, i) = a \o b
  BY DEF RemoveAt, a, b
<1> QED BY <1>3, <1>4, <1>5

(* A list of no processes is empty, and only that. *)
LEMMA QueueEmpty ==
  ASSUME NEW S, NEW q, QueueOf(q, S)
  PROVE  q = <<>> <=> S = {}
PROOF BY DEF QueueOf

(* A node put in anywhere (insert, insertd, enqueue) is on the list, with
   those that were. *)
LEMMA QueueInsertAt ==
  ASSUME NEW S, NEW q, QueueOf(q, S), NEW p, p \notin S,
         NEW i \in 1..(Len(q) + 1)
  PROVE  /\ QueueOf(InsertAt(q, i, p), S \cup {p})
         /\ Len(InsertAt(q, i, p)) = Len(q) + 1
PROOF
<1> DEFINE r == InsertAt(q, i, p)
<1>1. q \in Seq(S)
  BY DEF QueueOf
<1>2. /\ r \in Seq(S \cup {p})
      /\ Len(r) = Len(q) + 1
      /\ \A j \in 1..Len(r) : r[j] = IF j < i THEN q[j] ELSE IF j = i THEN p ELSE q[j - 1]
  <2>1. q \in Seq(S \cup {p})
    BY <1>1, SeqMonotonic
  <2> QED BY <2>1, InsertAtElements
<1> HIDE DEF r
<1>3. \A j, k \in 1..Len(r) : r[j] = r[k] => j = k
  <2>1. /\ Len(q) \in Nat /\ i \in Int
        /\ \A j \in 1..Len(q) : q[j] # p
        /\ \A j, k \in 1..Len(q) : q[j] = q[k] => j = k
    BY <1>1 DEF QueueOf
  <2> SUFFICES ASSUME NEW j \in 1..(Len(q) + 1), NEW k \in 1..(Len(q) + 1),
                      r[j] = r[k], j < k
               PROVE  FALSE
    BY <1>2, <2>1
  <2>2. CASE k < i
    BY <1>2, <2>1, <2>2
  <2>3. CASE k = i
    BY <1>2, <2>1, <2>3
  <2>4. CASE k > i /\ j < i
    BY <1>2, <2>1, <2>4
  <2>5. CASE k > i /\ j = i
    BY <1>2, <2>1, <2>5
  <2>6. CASE k > i /\ j > i
    BY <1>2, <2>1, <2>6
  <2> QED BY <2>1, <2>2, <2>3, <2>4, <2>5, <2>6
<1>4. \A x \in S \cup {p} : \E j \in 1..Len(r) : r[j] = x
  <2>1. r[i] = p
    BY <1>1, <1>2
  <2>2. ASSUME NEW x \in S PROVE \E j \in 1..Len(r) : r[j] = x
    <3>1. PICK k \in 1..Len(q) : q[k] = x
      BY DEF QueueOf
    <3>2. CASE k < i
      BY <1>1, <1>2, <3>1, <3>2
    <3>3. CASE k >= i
      <4>1. k + 1 \in 1..Len(r) /\ r[k + 1] = q[k]
        BY <1>1, <1>2, <3>1, <3>3
      <4> QED BY <4>1, <3>1
    <3> QED BY <3>2, <3>3, <1>1
  <2> QED BY <2>1, <2>2, <1>1, <1>2
<1> QED BY <1>2, <1>3, <1>4 DEF QueueOf, r

LEMMA QueueAppend ==
  ASSUME NEW S, NEW q, QueueOf(q, S), NEW p, p \notin S
  PROVE  /\ QueueOf(Enqueue(q, p), S \cup {p})
         /\ Len(Enqueue(q, p)) = Len(q) + 1
PROOF
<1>1. q \in Seq(S) /\ Enqueue(q, p) \in Seq(S \cup {p})
  BY DEF QueueOf, Enqueue
<1>2. /\ Len(Enqueue(q, p)) = Len(q) + 1
      /\ \A j \in 1..Len(q) : Enqueue(q, p)[j] = q[j]
      /\ Enqueue(q, p)[Len(q) + 1] = p
  BY <1>1 DEF Enqueue
<1>3. \A x \in S \cup {p} : \E j \in 1..(Len(q) + 1) : Enqueue(q, p)[j] = x
  <2>0. Len(q) \in Nat
    BY <1>1, LenProperties
  <2>1. ASSUME NEW x \in S PROVE \E j \in 1..(Len(q) + 1) : Enqueue(q, p)[j] = x
    <3>1. PICK j \in 1..Len(q) : q[j] = x
      BY DEF QueueOf
    <3>2. j \in 1..(Len(q) + 1) /\ Enqueue(q, p)[j] = x
      BY <2>0, <3>1, <1>2
    <3> QED BY <3>2
  <2>2. Len(q) + 1 \in 1..(Len(q) + 1)
    BY <2>0
  <2> QED BY <2>1, <2>2, <1>2
<1>4. \A j, k \in 1..(Len(q) + 1) :
        Enqueue(q, p)[j] = Enqueue(q, p)[k] => j = k
  BY SMTT(30), <1>1, <1>2 DEF QueueOf
<1> QED BY <1>1, <1>2, <1>3, <1>4 DEF QueueOf

(* dequeue and getfirst *)
LEMMA QueueTail ==
  ASSUME NEW S, NEW q, QueueOf(q, S), q # <<>>
  PROVE  /\ Head(q) \in S
         /\ QueueOf(Tail(q), S \ {Head(q)})
         /\ Len(Tail(q)) = Len(q) - 1
PROOF
<1>1. q \in Seq(S) /\ Len(q) > 0 /\ Head(q) = q[1] /\ Head(q) \in S
  BY DEF QueueOf
<1>2. /\ Len(Tail(q)) = Len(q) - 1
      /\ \A j \in 1..(Len(q) - 1) : Tail(q)[j] = q[j + 1]
  BY <1>1
<1>3. \A j \in 1..(Len(q) - 1) : Tail(q)[j] \in S \ {Head(q)}
  BY <1>1, <1>2 DEF QueueOf
<1>4. Tail(q) \in Seq(S \ {Head(q)})
  BY <1>1, <1>2, <1>3, SeqOfElements, HeadTailProperties
<1>5. \A j, k \in 1..(Len(q) - 1) : Tail(q)[j] = Tail(q)[k] => j = k
  BY <1>1, <1>2 DEF QueueOf
<1>6. ASSUME NEW x \in S \ {Head(q)}
      PROVE  \E j \in 1..(Len(q) - 1) : Tail(q)[j] = x
  <2>1. PICK k \in 1..Len(q) : q[k] = x
    BY DEF QueueOf
  <2>2. k - 1 \in 1..(Len(q) - 1) /\ Tail(q)[k - 1] = q[k]
    BY <1>1, <1>2, <2>1
  <2> QED BY <2>1, <2>2
<1> QED BY <1>1, <1>2, <1>4, <1>5, <1>6 DEF QueueOf

LEMMA IndexOfMember ==
  ASSUME NEW S, NEW q, QueueOf(q, S), NEW p \in S
  PROVE  Index(q, p) \in 1..Len(q) /\ q[Index(q, p)] = p
PROOF BY DEF QueueOf, Index

(* getitem *)
LEMMA QueueGetItem ==
  ASSUME NEW S, NEW q, QueueOf(q, S), NEW p \in S
  PROVE  /\ QueueOf(GetItem(q, p), S \ {p})
         /\ Len(GetItem(q, p)) = Len(q) - 1
PROOF
<1> DEFINE i == Index(q, p)
           r == GetItem(q, p)
<1>1. q \in Seq(S) /\ i \in 1..Len(q) /\ q[i] = p
  BY IndexOfMember DEF QueueOf
<1> HIDE DEF i
<1>2. /\ Len(r) = Len(q) - 1
      /\ r \in Seq(S)
      /\ \A j \in 1..Len(r) : r[j] = IF j < i THEN q[j] ELSE q[j + 1]
  BY <1>1, RemoveAtElements DEF GetItem, i
<1> HIDE DEF r
<1>a. /\ Len(q) \in Nat /\ i \in Int
      /\ \A j \in 1..Len(q) : q[j] \in S
      /\ \A j, k \in 1..Len(q) : q[j] = q[k] => j = k
  BY SMTT(30), <1>1 DEF QueueOf
<1>3. ASSUME NEW j \in 1..Len(r) PROVE r[j] \in S \ {p}
  <2>1. CASE j < i
    BY <1>1, <1>2, <1>a, <2>1
  <2>2. CASE j >= i
    BY <1>1, <1>2, <1>a, <2>2
  <2> QED BY <2>1, <2>2, <1>a, <1>2
<1>4. r \in Seq(S \ {p})
  BY <1>2, <1>3, SeqOfElements
<1>5. \A j, k \in 1..Len(r) : r[j] = r[k] => j = k
  <2> SUFFICES ASSUME NEW j \in 1..(Len(q) - 1), NEW k \in 1..(Len(q) - 1),
                      r[j] = r[k], j < k
               PROVE  FALSE
    BY <1>2, <1>a
  <2>2. CASE k < i
    BY <1>2, <1>a, <2>2
  <2>3. CASE k >= i /\ j < i
    BY <1>2, <1>a, <2>3
  <2>4. CASE k >= i /\ j >= i
    BY <1>2, <1>a, <2>4
  <2> QED BY <1>a, <2>2, <2>3, <2>4
<1>6. ASSUME NEW x \in S \ {p} PROVE \E j \in 1..Len(r) : r[j] = x
  <2>1. PICK k \in 1..Len(q) : q[k] = x
    BY DEF QueueOf
  <2>2. CASE k < i
    BY <1>1, <1>2, <2>1, <2>2
  <2>3. CASE k > i
    <3>1. k - 1 \in 1..Len(r) /\ r[k - 1] = q[k]
      BY <1>1, <1>2, <2>1, <2>3
    <3> QED BY <2>1, <3>1
  <2> QED BY <1>1, <2>1, <2>2, <2>3
<1> QED BY <1>2, <1>4, <1>5, <1>6 DEF QueueOf, r

(* insert always finds its place: the first node with a smaller key, or the
   end of the list. *)
LEMMA InsertPosInList ==
  ASSUME NEW T, NEW q \in Seq(T), NEW key \in [T -> Int], NEW k \in Int
  PROVE  /\ InsertPos(q, key, k) \in 1..(Len(q) + 1)
         /\ \A j \in 1..(InsertPos(q, key, k) - 1) : key[q[j]] >= k
         /\ InsertPos(q, key, k) <= Len(q) => key[q[InsertPos(q, key, k)]] < k
PROOF
<1> DEFINE Small == {i \in 1..(Len(q) + 1) : i <= Len(q) => key[q[i]] < k}
<1>1. Small \subseteq Nat /\ Len(q) + 1 \in Small
  OBVIOUS
<1>2. PICK i \in Small : \A j \in Small : i <= j
  <2>1. PICK m \in Small : \A j \in Small : <<j, m>> \notin OpToRel(<, Nat)
    BY <1>1, WFMin, NatLessThanWellFounded
  <2>2. \A x, y \in Nat : <<x, y>> \in OpToRel(<, Nat) <=> x < y
    BY DEF OpToRel
  <2>3. ASSUME NEW j \in Small PROVE m <= j
    <3>1. m \in Nat /\ j \in Nat
      BY <1>1
    <3> HIDE DEF Small
    <3>2. ~(j < m)
      BY <2>1, <2>2, <3>1, Zenon
    <3> QED BY <3>1, <3>2
  <2> QED BY <2>3
<1>3. /\ i \in 1..(Len(q) + 1)
      /\ \A j \in 1..(i - 1) : key[q[j]] >= k
      /\ i <= Len(q) => key[q[i]] < k
  <2>1. ASSUME NEW j \in 1..(i - 1) PROVE key[q[j]] >= k
    <3>1. j \in 1..Len(q) /\ j \notin Small /\ q[j] \in T /\ key[q[j]] \in Int
      BY <1>2
    <3> QED BY <3>1
  <2> QED BY <1>2, <2>1
<1> QED BY <1>3 DEF InsertPos
=============================================================================
