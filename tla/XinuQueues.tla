----------------------------- MODULE XinuQueues -----------------------------
(***************************************************************************)
(* The operations of Xinu on the lists of its queue table (system/queue.c, *)
(* getitem.c, insert.c, insertd.c), as operators on sequences of process   *)
(* identifiers.  A list of queuetab is the sequence of the process nodes   *)
(* between its head and its tail; `key' is the qkey field of the nodes     *)
(* (each process owns one node of the table, so one key).                  *)
(***************************************************************************)
EXTENDS Integers, Sequences, SequencesExt

(* firstkey(q): an empty list shows its tail node, whose key is MINKEY.    *)
FirstKey(q, key, minkey) == IF q = <<>> THEN minkey ELSE key[Head(q)]

InsertPosAhead(q, key, k) ==     \* fault: ahead of the nodes of its own key
  CHOOSE i \in 1..(Len(q) + 1) :
    /\ \A j \in 1..(i - 1) : key[q[j]] > k
    /\ i <= Len(q) => key[q[i]] <= k

(* The place `insert' stops at: before the first node with a smaller key,  *)
(* hence behind every node whose key is equal.                             *)
InsertPos(q, key, k) ==
  CHOOSE i \in 1..(Len(q) + 1) :
    /\ \A j \in 1..(i - 1) : key[q[j]] >= k
    /\ i <= Len(q) => key[q[i]] < k

(* insert(pid, q, k): the list, and the keys, after it. *)
Insert(q, key, pid, k) == InsertAt(q, InsertPos(q, key, k), pid)
KeyAfterInsert(key, pid, k) == [key EXCEPT ![pid] = k]

EnqueueFront(q, pid) == <<pid>> \o q       \* fault: at the wrong end

(* enqueue(pid, q) *)
Enqueue(q, pid) == Append(q, pid)

(* dequeue(q) and getfirst(q) return Head(q) and leave Tail(q); getitem(pid)
   unlinks pid from the list it is on. *)
Index(q, pid) == CHOOSE i \in 1..Len(q) : q[i] = pid
GetItemKept(q, pid) == q                   \* fault: the node stays linked
GetItem(q, pid) == RemoveAt(q, Index(q, pid))

(* The sum of the first n keys of a delta list: the delay, from now, of its
   n-th process. *)
Delay(q, key, n) ==
  LET sum[i \in 0..n] == IF i = 0 THEN 0 ELSE sum[i - 1] + key[q[i]]
  IN  sum[n]

(* The place `insertd' stops at when it is called with a delay d, the
   invariant of its loop being that it holds d less the keys passed: behind
   every process whose delay is not greater. *)
IsDelayPos(q, key, d, i) ==
  /\ \A j \in 1..(i - 1) : Delay(q, key, j) <= d
  /\ i <= Len(q) => Delay(q, key, i) > d

KeyAfterInsertdOnly(q, key, pid, i, k) ==  \* fault: the next key is kept
  [key EXCEPT ![pid] = k]

(* The keys after insertd(pid, q, d) at place i with k = d less the keys
   before i: the next process waits k less behind pid than it did. *)
KeyAfterInsertd(q, key, pid, i, k) ==
  LET own == [key EXCEPT ![pid] = k]
  IN  IF i <= Len(q) THEN [own EXCEPT ![q[i]] = @ - k] ELSE own

KeyAfterUnsleepLost(q, key, pid) == key    \* fault: pid's delay is lost

(* The keys after unsleep(pid): the next process inherits pid's delay. *)
KeyAfterUnsleep(q, key, pid) ==
  LET i == Index(q, pid)
  IN  IF i < Len(q) THEN [key EXCEPT ![q[i + 1]] = @ + key[pid]] ELSE key

(* q holds exactly the elements of S, each of them once. *)
QueueOf(q, S) ==
  /\ q \in Seq(S)
  /\ \A i, j \in 1..Len(q) : q[i] = q[j] => i = j
  /\ \A p \in S : \E i \in 1..Len(q) : q[i] = p

(* x precedes y in q. *)
Precedes(q, x, y) ==
  \E i, j \in 1..Len(q) : i < j /\ q[i] = x /\ q[j] = y
=============================================================================
