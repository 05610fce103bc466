---------------------------- MODULE NetworkProofs ----------------------------
(***************************************************************************)
(* Seven components of the network, for any number of whatever they have. *)
(*                                                                         *)
(* The ARP cache (net/arp.c): CacheSound.  CacheInv, the inductive         *)
(* invariant, is CacheSound and the types.  The argument is about who may  *)
(* take an entry away: arp_alloc takes none that is pending, arp_in        *)
(* answers for the address of the entry and tells its owner, and a last    *)
(* timeout frees an entry that is still its own, which is what             *)
(* WaiterOwnsEntry says.                                                   *)
(*                                                                         *)
(* The output of IP (net/ip.c): QueueSound.  IpInv, the inductive          *)
(* invariant, adds that the semaphore of the output queue counts the       *)
(* packets in it, but for the one that ipout has been let through for and  *)
(* has not taken yet (SemCountsPackets): that is why a test of the         *)
(* semaphore keeps the queue within its array.                             *)
(*                                                                         *)
(* The endpoints of UDP (net/udp.c): EndpointsSound.  UdpInv, the          *)
(* inductive invariant, ties the processes in udp_recv to the endpoints    *)
(* that name them, which holds until one is killed there or another        *)
(* process takes from or releases its endpoint (disturbed); what is left   *)
(* then is that no packet buffer is lost.                                  *)
(*                                                                         *)
(* The echo slots of ICMP (net/icmp.c): PingsSound.  IcmpInv, the          *)
(* inductive invariant, says where the head of a ring is after any number  *)
(* of replies up to its size, used or released (RingOf), and ties the      *)
(* processes in icmp_recv to their slots, which name them or hold a reply  *)
(* for them (NotDisturbed), until one is killed there, or another process  *)
(* takes the reply or releases the slot before it has run (icdisturbed).   *)
(*                                                                         *)
(* Remote files (device/rfs): RemoteFilesSound.  RfsInv, the inductive     *)
(* invariant, says of each name what the server holds and what the copies  *)
(* of requests still on their way to it can change (EntryAtRest), and,     *)
(* while an exchange is about it, what its replies stand for (EntryAsked). *)
(* It rests on the order of the packets (WireOrdered), on the mutex, and   *)
(* on a request having no further effect when it is served again           *)
(* (ServedTwice).                                                          *)
(*                                                                         *)
(* The Ethernet driver (device/eth): RingsSound.  RxInv and TxInv, the     *)
(* inductive invariants, unroll the rings: head, tail and the adapter's    *)
(* registers are remainders of counters that only grow, whose order says   *)
(* which descriptors are whose (RxIs, TxIs).  The units of a semaphore and *)
(* those it has let through are the frames counted and not read            *)
(* (IsemIs), or the descriptors that are clean (OsemIs).                   *)
(*                                                                         *)
(* The TFTP client (net/tftp.c): TransferSound.  Until it returns, the     *)
(* client holds exactly the blocks before the one it expects               *)
(* (Transferring): the buffers before the current one are full, those      *)
(* behind it empty, and together they are that many bytes of the file      *)
(* (HoldsIn).  A block with the number expected is the block expected      *)
(* (BlockMeant), since a file has at most TFTP_BLOCKS blocks; it is stored *)
(* byte by byte (BlockStored), and a byte put into the current buffer is   *)
(* put behind what all the buffers hold together (FlattenGrows).           *)
(***************************************************************************)
EXTENDS Arp, Ip, Udp, Icmp, Rfs, Eth, Tftp, SemaphoreProofs

Entries ==
  [arstate : {"FREE", "PENDING", "RESOLVED"}, arpaddr : Hosts \cup {"none"},
   arpid : Resolvers \cup {"none"}, arhaddr : Hosts \cup {NoMac}]

ArpTypeOK ==
  /\ arpcache \in [ArpSlots -> Entries]
  /\ resolving \in [Resolvers -> [at : {"out", "write", "recvtime"}, slot : ArpSlots,
                                  addr : Hosts \cup {"none"}, tries : Nat]]
  /\ arpmsg \in [Resolvers -> {"none", "OK", "word"}]

PendingHasOwner == \A s \in Has("PENDING") : arpcache[s].arpid \in Resolvers

CacheInv ==
  /\ ArpTypeOK /\ PendingHasOwner
  /\ OneEntryPerAddress /\ CacheTruthful /\ WaiterOwnsEntry

-----------------------------------------------------------------------------

LEMMA CacheInvInit == ArpInit => CacheInv
BY ArpSizes DEF ArpInit, CacheInv, ArpTypeOK, PendingHasOwner, OneEntryPerAddress, CacheTruthful,
                WaiterOwnsEntry, Entries, ArpSlots, FreeEntry, NotResolving, NoMac, Has, EntriesOf

(* A new entry, in a slot that was free or resolved, for an address that had none. *)
LEMMA NewEntry ==
  ASSUME CacheInv,
         NEW a \in Hosts, Known(a) = {}, NEW s \in Allocatable, NEW e \in Entries,
         e.arpaddr = a, arpcache' = [arpcache EXCEPT ![s] = e]
  PROVE  /\ OneEntryPerAddress'
         /\ \A p \in Resolvers, t \in ArpSlots :
              arpcache[t].arstate = "PENDING" => t # s /\ arpcache'[t] = arpcache[t]
<1>1. s \in ArpSlots /\ arpcache[s].arstate # "PENDING"
  BY DEF Allocatable, Has
<1>2. \A t \in ArpSlots : t # s => arpcache'[t] = arpcache[t]
  BY DEF CacheInv, ArpTypeOK
<1>3. arpcache'[s] = e
  BY <1>1 DEF CacheInv, ArpTypeOK
<1>4. OneEntryPerAddress'
  <2> SUFFICES ASSUME NEW b \in Hosts, NEW t \in EntriesOf(b)', NEW u \in EntriesOf(b)'
               PROVE  t = u
    BY DEF OneEntryPerAddress
  <2>1. t \in ArpSlots /\ u \in ArpSlots
    BY DEF EntriesOf
  <2>2. CASE b = a
    BY <1>2, <2>1, <2>2 DEF Known, EntriesOf
  <2>3. CASE b # a
    <3>1. t # s /\ u # s
      BY <1>3, <2>3 DEF EntriesOf
    <3>2. t \in EntriesOf(b) /\ u \in EntriesOf(b)
      BY <1>2, <2>1, <3>1 DEF EntriesOf
    <3> QED BY <3>2 DEF CacheInv, OneEntryPerAddress
  <2> QED BY <2>2, <2>3
<1> QED BY <1>1, <1>2, <1>4

LEMMA ResolveKeeps ==
  ASSUME CacheInv, NEW p \in Resolvers, NEW a \in Hosts, ArpResolve(p, a)
  PROVE  CacheInv'
<1> DEFINE e == [arstate |-> "PENDING", arpaddr |-> a, arpid |-> p, arhaddr |-> NoMac]
<1>1. PICK s \in FirstOf(Allocatable) :
        /\ arpcache' = [arpcache EXCEPT ![s] = e]
        /\ resolving' = [resolving EXCEPT ![p] = [at |-> "write", slot |-> s, addr |-> a, tries |-> 1]]
  BY DEF ArpResolve
<1>2. s \in Allocatable /\ s \in ArpSlots
  BY DEF FirstOf, Allocatable, Has
<1>3. e \in Entries
  BY DEF Entries
<1>4. Known(a) = {} /\ resolving[p].at = "out" /\ arpmsg' = [arpmsg EXCEPT ![p] = "none"]
  BY DEF ArpResolve
<1>5. /\ OneEntryPerAddress'
      /\ \A q \in Resolvers, t \in ArpSlots :
           arpcache[t].arstate = "PENDING" => t # s /\ arpcache'[t] = arpcache[t]
  BY <1>1, <1>2, <1>3, <1>4, NewEntry
<1>6. ArpTypeOK'
  BY <1>1, <1>2, <1>3, <1>4 DEF CacheInv, ArpTypeOK
<1>7. PendingHasOwner' /\ CacheTruthful'
  BY <1>1, <1>2, <1>6 DEF CacheInv, ArpTypeOK, PendingHasOwner, CacheTruthful, Has
<1>8. WaiterOwnsEntry'
  <2> SUFFICES ASSUME NEW q \in Resolvers, (resolving[q].at # "out")', (arpmsg[q] = "none")'
               PROVE  LET x == arpcache'[resolving'[q].slot] IN
                      x.arstate = "PENDING" /\ x.arpid = q /\ x.arpaddr = resolving'[q].addr
    BY DEF WaiterOwnsEntry
  <2>1. CASE q = p
    BY <1>1, <1>2, <2>1 DEF CacheInv, ArpTypeOK
  <2>2. CASE q # p
    <3>1. resolving'[q] = resolving[q] /\ arpmsg'[q] = arpmsg[q]
      BY <1>1, <1>4, <2>2 DEF CacheInv, ArpTypeOK
    <3> QED BY <1>5, <3>1 DEF CacheInv, WaiterOwnsEntry, ArpTypeOK
  <2> QED BY <2>1, <2>2
<1> QED BY <1>5, <1>6, <1>7, <1>8 DEF CacheInv

(* The last timeout frees an entry that is the process's own, so no other
   waiting process loses its entry. *)
LEMMA TimeoutKeeps ==
  ASSUME CacheInv, NEW p \in Resolvers, ArpTimeout(p)
  PROVE  CacheInv'
<1>1. CASE resolving[p].tries < ARP_RETRY
  BY <1>1 DEF CacheInv, ArpTypeOK, PendingHasOwner, OneEntryPerAddress, CacheTruthful,
              WaiterOwnsEntry, ArpTimeout, Has, EntriesOf
<1>2. CASE ~(resolving[p].tries < ARP_RETRY)
  <2> DEFINE s == resolving[p].slot
  <2>1. /\ arpcache' = [arpcache EXCEPT ![s].arstate = "FREE"]
        /\ resolving' = [resolving EXCEPT ![p] = NotResolving]
        /\ arpmsg' = arpmsg /\ s \in ArpSlots /\ 0 \in ArpSlots
    BY <1>2, ArpSizes DEF ArpTimeout, TimeoutFrees, CacheInv, ArpTypeOK, ArpSlots
  <2>2. arpcache[s].arpid = p /\ arpcache[s].arstate = "PENDING"
    BY DEF ArpTimeout, CacheInv, WaiterOwnsEntry
  <2>3. ArpTypeOK'
    <3>1. arpcache[s] \in Entries
      BY <2>1 DEF CacheInv, ArpTypeOK
    <3>2. [arpcache[s] EXCEPT !.arstate = "FREE"] \in Entries
      BY <3>1 DEF Entries
    <3>3. arpcache' \in [ArpSlots -> Entries]
      BY <2>1, <3>2 DEF CacheInv, ArpTypeOK
    <3> QED BY <2>1, <3>3 DEF CacheInv, ArpTypeOK, NotResolving
  <2>4. \A t \in ArpSlots : \/ arpcache'[t] = arpcache[t] /\ t # s
                            \/ arpcache'[t].arstate = "FREE" /\ t = s
    BY <2>1 DEF CacheInv, ArpTypeOK, Entries
  <2>5. PendingHasOwner' /\ CacheTruthful' /\ OneEntryPerAddress'
    BY <2>4 DEF CacheInv, PendingHasOwner, CacheTruthful, OneEntryPerAddress, Has, EntriesOf
  <2>6. WaiterOwnsEntry'
    BY <2>1, <2>2, <2>4 DEF CacheInv, ArpTypeOK, WaiterOwnsEntry, NotResolving
  <2> QED BY <2>3, <2>5, <2>6 DEF CacheInv
<1> QED BY <1>1, <1>2

LEMMA EntryAnswered ==
  ASSUME NEW r \in Entries, NEW a \in Hosts
  PROVE  LET e == [r EXCEPT !.arstate = "RESOLVED", !.arhaddr = a] IN
         e \in Entries /\ e.arstate = "RESOLVED" /\ e.arpaddr = r.arpaddr /\ e.arhaddr = a
BY DEF Entries

(* Whoever waits for the answer is told in the step that resolves the entry. *)
LEMMA AnswerKeeps ==
  ASSUME CacheInv, NEW a \in Hosts, ArpInKnown(a)
  PROVE  CacheInv'
<1>1. PICK s \in FirstOf(Known(a)) :
        /\ arpcache' = [arpcache EXCEPT ![s] = Answered(s, a)]
        /\ arpmsg' = IF arpcache[s].arstate = "PENDING" /\ arpmsg[arpcache[s].arpid] = "none"
                     THEN [arpmsg EXCEPT ![arpcache[s].arpid] = "OK"] ELSE arpmsg
  BY DEF ArpInKnown
<1>2. s \in ArpSlots /\ arpcache[s].arpaddr = a /\ resolving' = resolving
  BY DEF FirstOf, Known, EntriesOf, ArpInKnown
<1>3. /\ arpcache[s].arstate # "FREE"
      /\ Answered(s, a).arstate = "RESOLVED" /\ Answered(s, a).arhaddr = a
      /\ Answered(s, a).arpaddr = a /\ Answered(s, a) \in Entries
  <2>1. arpcache[s] \in Entries
    BY <1>2 DEF CacheInv, ArpTypeOK
  <2> QED BY <1>2, <2>1, EntryAnswered DEF Answered, FirstOf, Known, EntriesOf
<1>4. ArpTypeOK'
  BY <1>1, <1>2, <1>3 DEF CacheInv, ArpTypeOK
<1>5. \A t \in ArpSlots : \/ arpcache'[t] = arpcache[t] /\ t # s
                          \/ arpcache'[t] = Answered(s, a) /\ t = s
  BY <1>1, <1>2 DEF CacheInv, ArpTypeOK
<1>6. PendingHasOwner' /\ CacheTruthful' /\ OneEntryPerAddress'
  BY <1>2, <1>3, <1>5 DEF CacheInv, PendingHasOwner, CacheTruthful, OneEntryPerAddress, Has, EntriesOf
<1>7. WaiterOwnsEntry'
  <2> SUFFICES ASSUME NEW q \in Resolvers, resolving[q].at # "out", arpmsg'[q] = "none"
               PROVE  LET x == arpcache'[resolving[q].slot] IN
                      x.arstate = "PENDING" /\ x.arpid = q /\ x.arpaddr = resolving[q].addr
    BY <1>2 DEF WaiterOwnsEntry
  <2>1. arpmsg[q] = "none"
    BY <1>1 DEF CacheInv, ArpTypeOK
  <2>2. /\ resolving[q].slot \in ArpSlots
        /\ arpcache[resolving[q].slot].arstate = "PENDING"
        /\ arpcache[resolving[q].slot].arpid = q
        /\ arpcache[resolving[q].slot].arpaddr = resolving[q].addr
    BY <2>1 DEF CacheInv, WaiterOwnsEntry, ArpTypeOK
  <2>3. resolving[q].slot # s
    BY <1>1, <2>1, <2>2 DEF CacheInv, ArpTypeOK
  <2> QED BY <1>5, <2>2, <2>3
<1> QED BY <1>4, <1>6, <1>7 DEF CacheInv

LEMMA NewResolvedKeeps ==
  ASSUME CacheInv, NEW a \in Hosts, ArpInNew(a)
  PROVE  CacheInv'
<1> DEFINE e == [arstate |-> "RESOLVED", arpaddr |-> a, arpid |-> "none", arhaddr |-> a]
<1>1. PICK s \in FirstOf(Allocatable) : arpcache' = [arpcache EXCEPT ![s] = e]
  BY DEF ArpInNew
<1>2. s \in Allocatable /\ s \in ArpSlots /\ e \in Entries /\ Known(a) = {}
  BY DEF FirstOf, Allocatable, Has, Entries, ArpInNew
<1>3. /\ OneEntryPerAddress'
      /\ \A q \in Resolvers, t \in ArpSlots :
           arpcache[t].arstate = "PENDING" => t # s /\ arpcache'[t] = arpcache[t]
  BY <1>1, <1>2, NewEntry
<1>4. ArpTypeOK' /\ resolving' = resolving /\ arpmsg' = arpmsg
  BY <1>1, <1>2 DEF ArpInNew, CacheInv, ArpTypeOK
<1>5. PendingHasOwner' /\ CacheTruthful'
  BY <1>1, <1>2, <1>4 DEF CacheInv, ArpTypeOK, PendingHasOwner, CacheTruthful, Has
<1>6. WaiterOwnsEntry'
  BY <1>3, <1>4 DEF CacheInv, WaiterOwnsEntry, ArpTypeOK
<1> QED BY <1>3, <1>4, <1>5, <1>6 DEF CacheInv

(* The steps that leave the cache alone. *)
LEMMA OthersKeep ==
  ASSUME CacheInv, NEW p \in Resolvers,
         ArpSent(p) \/ ArpWake(p) \/ ArpOtherMessage(p) \/ ResolverKilled(p)
  PROVE  CacheInv'
<1>1. arpcache' = arpcache /\ 0 \in ArpSlots
  BY ArpSizes DEF ArpSent, ArpWake, ArpOtherMessage, ResolverKilled, ArpSlots
<1>2. ArpTypeOK'
  BY <1>1 DEF CacheInv, ArpTypeOK, ArpSent, ArpWake, ArpOtherMessage, ResolverKilled, NotResolving
<1>3. PendingHasOwner' /\ OneEntryPerAddress' /\ CacheTruthful'
  BY <1>1 DEF CacheInv, PendingHasOwner, OneEntryPerAddress, CacheTruthful, Has, EntriesOf
<1>4. WaiterOwnsEntry'
  BY <1>1 DEF CacheInv, ArpTypeOK, WaiterOwnsEntry, ArpSent, ArpWake, ArpOtherMessage, ResolverKilled,
              NotResolving
<1> QED BY <1>2, <1>3, <1>4 DEF CacheInv

-----------------------------------------------------------------------------

(* The cache, and who waits at which entry, agree in every reachable state. *)
THEOREM CacheInvariant == ArpSpec => []CacheInv
<1>1. CacheInv /\ [ArpNext]_arpVars => CacheInv'
  <2> SUFFICES ASSUME CacheInv, [ArpNext]_arpVars PROVE CacheInv'
    OBVIOUS
  <2>1. CASE ArpNext
    BY <2>1, ResolveKeeps, TimeoutKeeps, AnswerKeeps, NewResolvedKeeps, OthersKeep DEF ArpNext
  <2>2. CASE UNCHANGED arpVars
    BY <2>2 DEF arpVars, CacheInv, ArpTypeOK, PendingHasOwner, OneEntryPerAddress, CacheTruthful,
                WaiterOwnsEntry, Has, EntriesOf
  <2> QED BY <2>1, <2>2
<1> QED BY CacheInvInit, <1>1, PTL DEF ArpSpec

(* An address has at most one entry, a resolved entry the right hardware address,
   and a process in arp_resolve that has had no message its own pending entry. *)
THEOREM CacheSoundAlways == ArpSpec => []CacheSound
<1>1. CacheInv => CacheSound
  BY DEF CacheInv, CacheSound
<1> QED BY CacheInvariant, <1>1, PTL

-----------------------------------------------------------------------------
(* The output of IP *)

(* The processes inside ip_send, each with a buffer. *)
Busy == {p \in Senders : sender[p] # NoSend}

NetinHas == IF netinat = "getbuf" THEN 0 ELSE 1
IpoutHas == IF ipoutat \in {"arp", "write"} THEN 1 ELSE 0
Hand(r) == IF r = NoSend THEN 0 ELSE 1
Queued == Len(ipoqueue)
Placed == netfree + upper + netlost + Queued + NetinHas + IpoutHas

Sends ==
  [at : {"ip_send", "reply", "arp", "write"}, to : Destinations, proto : {"udp", "ping"}]

IpTypeOK ==
  /\ ipvalid \in BOOLEAN /\ netfree \in Nat /\ upper \in Nat /\ netlost \in Nat
  /\ netinat \in {"getbuf", "read", "reply"} /\ ipoutat \in {"top", "wait", "arp", "write"}
  /\ ipoqueue \in Seq(Destinations)
  /\ sender \in [Senders -> Sends \cup {NoSend}] /\ iqoverrun \in BOOLEAN

(* Only ipout waits at the semaphore, which counts the packets of the queue
   that ipout has not been let through for. *)
SemCountsPackets ==
  /\ \/ SemOf(iqsem, {})
     \/ SemOf(iqsem, {"ipout"}) /\ ipoutat = "wait"
  /\ Len(ipoqueue) = iqsem.count + (IF ipoutat = "wait" THEN 1 ELSE 0)

(* So it does until a packet is written over, which ends the model. *)
QueueInv ==
  /\ Len(ipoqueue) <= IP_OQSIZ
  /\ IF iqoverrun THEN IpoutDue /\ ipoqueue # <<>> ELSE SemCountsPackets

IpInv == IpTypeOK /\ QueueInv /\ NetBuffersConserved

LEMMA BusyFinite == IpTypeOK => IsFiniteSet(Busy) /\ Cardinality(Busy) \in Nat
PROOF
<1>1. Busy \subseteq Senders /\ IsFiniteSet(Senders)
  BY IpSizes DEF Busy
<1> QED BY <1>1, FS_Subset, FS_CardinalityType

LEMMA BusyChanges ==
  ASSUME IpTypeOK, NEW p \in Senders, NEW r, sender' = [sender EXCEPT ![p] = r]
  PROVE  Cardinality(Busy') = Cardinality(Busy) + Hand(r) - Hand(sender[p])
PROOF
<1>1. \A q \in Senders : sender'[q] = IF q = p THEN r ELSE sender[q]
  BY DEF IpTypeOK
<1>2. IsFiniteSet(Busy) /\ Cardinality(Busy) \in Nat
  BY BusyFinite
<1>3. CASE sender[p] # NoSend /\ r = NoSend
  <2>1. Busy' = Busy \ {p} /\ p \in Busy
    BY <1>1, <1>3 DEF Busy
  <2> QED BY SMTT(30), <1>2, <1>3, <2>1, FS_RemoveElement DEF Hand
<1>4. CASE sender[p] = NoSend /\ r # NoSend
  <2>1. Busy' = Busy \cup {p} /\ p \notin Busy
    BY <1>1, <1>4 DEF Busy
  <2> QED BY <1>2, <1>4, <2>1, FS_AddElement DEF Hand
<1>5. CASE sender[p] = NoSend <=> r = NoSend
  <2>1. Cardinality(Busy') = Cardinality(Busy)
    BY <1>1, <1>5 DEF Busy
  <2> QED BY <1>2, <1>5, <2>1 DEF Hand
<1> QED BY <1>3, <1>4, <1>5

LEMMA DueWhenReleased ==
  ASSUME SemCountsPackets
  PROVE  /\ IpoutDue <=> ipoutat = "wait" /\ SemOf(iqsem, {})
         /\ SemOf(iqsem, {}) => iqsem.count >= 0
         /\ iqsem.count \in Int
         /\ ~IpoutDue /\ ipoutat = "wait" => iqsem.count < 0
PROOF
<1>1. SemOf(iqsem, {}) => ToSet(iqsem.queue) = {} /\ iqsem.count >= 0
  BY SemWaits, SemEmpty
<1>2. SemOf(iqsem, {"ipout"}) => ToSet(iqsem.queue) = {"ipout"} /\ ~(iqsem.count >= 0)
  <2>1. SemOf(iqsem, {"ipout"}) => ToSet(iqsem.queue) = {"ipout"}
    BY SemWaits
  <2>2. SemOf(iqsem, {"ipout"}) => (iqsem.count >= 0 <=> {"ipout"} = {})
    BY SemEmpty
  <2> QED BY <2>1, <2>2
<1>3. iqsem.count \in Int
  BY DEF SemCountsPackets, SemOf
<1> QED BY <1>1, <1>2, <1>3 DEF SemCountsPackets, IpoutDue, WaitsAt

LEMMA IpInvInit == IpInit => IpInv
PROOF
<1> SUFFICES ASSUME IpInit PROVE IpInv
  OBVIOUS
<1>1. IpTypeOK
  <2>1. ipoqueue \in Seq(Destinations) /\ netfree \in Nat
    BY IpSizes DEF IpInit
  <2>2. sender \in [Senders -> Sends \cup {NoSend}]
    BY DEF IpInit
  <2> QED BY <2>1, <2>2 DEF IpInit, IpTypeOK
<1>2. SemOf(iqsem, {}) /\ iqsem.count = 0 /\ Len(ipoqueue) = 0 /\ ipoutat = "top"
  BY SemNew DEF IpInit, NewSem
<1>3. Busy = {} /\ Cardinality(Busy) = 0
  BY FS_EmptySet DEF IpInit, Busy
<1>4. NetBuffersConserved
  BY <1>1, <1>2, <1>3, IpSizes DEF IpInit, NetBuffersConserved, Busy, IpTypeOK
<1>5. iqoverrun = FALSE
  BY DEF IpInit
<1> QED BY <1>1, <1>2, <1>4, <1>5, IpSizes DEF IpInv, QueueInv, SemCountsPackets

LEMMA PlacedIsInt ==
  /\ IpTypeOK => Placed \in Int
  /\ IpTypeOK' => Placed' \in Int
BY DEF IpTypeOK, Placed, Queued, NetinHas, IpoutHas

LEMMA ConservedIs ==
  /\ NetBuffersConserved <=> Placed + Cardinality(Busy) = NetBufs
  /\ NetBuffersConserved' <=> Placed' + Cardinality(Busy') = NetBufs
BY DEF Placed, Queued, NetinHas, IpoutHas, NetBuffersConserved, Busy

(* A step keeps the count of buffers when what it gives one place it takes
   from another. *)
LEMMA ConservedByBusy ==
  ASSUME IpInv, NEW p \in Senders, NEW r, sender' = [sender EXCEPT ![p] = r],
         IpTypeOK',
         Placed' + Hand(r) = Placed + Hand(sender[p])
  PROVE  NetBuffersConserved'
PROOF
<1>1. Cardinality(Busy) \in Nat
  BY BusyFinite DEF IpInv
<1>2. Cardinality(Busy') = Cardinality(Busy) + Hand(r) - Hand(sender[p])
  BY BusyChanges DEF IpInv
<1>3. Placed \in Int /\ Placed' \in Int
  BY PlacedIsInt DEF IpInv
<1>4. \A x : Hand(x) \in {0, 1}
  BY DEF Hand
<1> QED BY <1>1, <1>2, <1>3, <1>4, ConservedIs DEF IpInv

LEMMA ConservedBesides ==
  ASSUME IpInv, UNCHANGED sender, IpTypeOK', Placed' = Placed
  PROVE  NetBuffersConserved'
PROOF
<1>1. Cardinality(Busy) \in Nat
  BY BusyFinite DEF IpInv
<1>2. Busy' = Busy
  BY DEF Busy
<1>3. Placed \in Int /\ Placed' \in Int
  BY PlacedIsInt DEF IpInv
<1>4. \A x : Hand(x) \in {0, 1}
  BY DEF Hand
<1> QED BY <1>1, <1>2, <1>3, <1>4, ConservedIs DEF IpInv

LEMMA QueueUntouched ==
  ASSUME IpInv, ~iqoverrun, UNCHANGED <<ipoqueue, iqsem, iqoverrun>>,
         ipoutat' = "wait" <=> ipoutat = "wait"
  PROVE  QueueInv'
BY DEF IpInv, QueueInv, SemCountsPackets

(* icmp_in's answer goes to the queue when there is room.  Where the semaphore
   says so wrongly, ipout has been let through and has not taken its packet. *)
LEMMA ReplyKeeps ==
  ASSUME IpInv, ~iqoverrun, Reply, UNCHANGED ipoutat
  PROVE  /\ QueueInv' /\ iqoverrun' \in BOOLEAN
         /\ netfree' \in Nat /\ netlost' \in Nat /\ ipoqueue' \in Seq(Destinations)
         /\ netfree' + Len(ipoqueue') + netlost' = netfree + Len(ipoqueue) + netlost + 1
PROOF
<1>1. /\ netfree \in Nat /\ ipoqueue \in Seq(Destinations) /\ Len(ipoqueue) \in Nat
      /\ iqsem.count \in Int /\ netlost \in Nat /\ IP_OQSIZ \in Nat \ {0}
      /\ Len(ipoqueue) <= IP_OQSIZ /\ SemCountsPackets
      /\ Len(ipoqueue) = iqsem.count + (IF ipoutat = "wait" THEN 1 ELSE 0)
      /\ SemOf(iqsem, {}) => iqsem.count >= 0
      /\ iqoverrun = FALSE
  BY DueWhenReleased, IpSizes DEF IpInv, IpTypeOK, QueueInv, SemCountsPackets
<1>2. CASE Overflows(iqsem.count)
  <2>1. netfree' = netfree + 1 /\ UNCHANGED <<ipoqueue, iqsem, iqoverrun, netlost>>
    BY <1>2 DEF Reply, Dropped
  <2>2. QueueInv'
    BY <2>1, QueueUntouched
  <2>3. ipoqueue' = ipoqueue /\ iqoverrun' \in BOOLEAN /\ netlost' = netlost
    BY <1>1, <2>1
  <2>4. ipoqueue' \in Seq(Destinations) /\ Len(ipoqueue') = Len(ipoqueue)
    BY <1>1, <2>3
  <2>5. /\ netfree' \in Nat /\ netlost' \in Nat
        /\ netfree' + Len(ipoqueue') + netlost' = netfree + Len(ipoqueue) + netlost + 1
    BY ONLY <1>1, <2>1, <2>3, <2>4
  <2> QED BY ONLY <2>2, <2>3, <2>4, <2>5
<1>3. CASE ~Overflows(iqsem.count)
  <2>1. PICK to \in Destinations : IpEnqueue(to)
    BY <1>3 DEF Reply, Destinations
  <2>2. iqsem' = Signal(iqsem) /\ netfree' = netfree
    BY <1>3 DEF Reply
  <2>3. iqsem'.count = iqsem.count + 1 /\ SemOf(iqsem', {})
    <3>1. CASE SemOf(iqsem, {})
      BY <1>1, <2>2, <3>1, SemSignal
    <3>2. CASE SemOf(iqsem, {"ipout"})
      <4>1. iqsem.count < 0
        <5>1. iqsem.count >= 0 <=> {"ipout"} = {}
          BY <3>2, SemEmpty
        <5> QED BY <1>1, <5>1
      <4>2. /\ iqsem'.count = iqsem.count + 1
            /\ \E p \in {"ipout"} : SemOf(iqsem', {"ipout"} \ {p})
        BY <2>2, <3>2, <4>1, SemSignal
      <4>3. {"ipout"} \ {"ipout"} = {}
        OBVIOUS
      <4> QED BY <4>2, <4>3
    <3> QED BY <1>1, <3>1, <3>2 DEF SemCountsPackets
  <2>4. CASE Len(ipoqueue) < IP_OQSIZ
    <3>1. ipoqueue' = Append(ipoqueue, to) /\ UNCHANGED <<iqoverrun, netlost>>
      BY <2>1, <2>4 DEF IpEnqueue
    <3>2. ipoqueue' \in Seq(Destinations) /\ Len(ipoqueue') = Len(ipoqueue) + 1
      BY <1>1, <3>1
    <3>3. QueueInv'
      BY <1>1, <2>3, <2>4, <3>1, <3>2 DEF QueueInv, SemCountsPackets
    <3>4. iqoverrun' \in BOOLEAN /\ netlost' = netlost /\ netfree' = netfree
      BY <1>1, <2>2, <3>1
    <3> QED BY <1>1, <3>2, <3>3, <3>4
  <2>5. CASE ~(Len(ipoqueue) < IP_OQSIZ)
    <3>1. /\ ipoqueue' = [ipoqueue EXCEPT ![1] = to]
          /\ iqoverrun' = TRUE /\ netlost' = netlost + 1
      BY <2>1, <2>5 DEF IpEnqueue
    <3>2. ipoqueue' \in Seq(Destinations) /\ Len(ipoqueue') = Len(ipoqueue)
      <4>1. ipoqueue \in [1..Len(ipoqueue) -> Destinations]
        BY <1>1
      <4>2. ipoqueue' \in [1..Len(ipoqueue) -> Destinations]
        BY <3>1, <4>1
      <4> QED BY ONLY <1>1, <4>2, IsASeq, LenProperties
    <3>3. Len(ipoqueue) = IP_OQSIZ
      BY <1>1, <2>5
    <3>4. ipoutat = "wait"
      BY <1>1, <1>3, <3>3 DEF Overflows
    <3>5. IpoutDue'
      <4>1. ToSet(iqsem'.queue) = {}
        BY <2>3, SemWaits
      <4> QED BY <3>4, <4>1 DEF IpoutDue, WaitsAt
    <3>6. ipoqueue' # <<>>
      BY <1>1, <3>2, <3>3
    <3>7. QueueInv'
      BY <1>1, <3>1, <3>2, <3>3, <3>5, <3>6 DEF QueueInv
    <3>8. iqoverrun' \in BOOLEAN /\ netlost' = netlost + 1 /\ netfree' = netfree
      BY <2>2, <3>1
    <3> QED BY <1>1, <3>2, <3>7, <3>8
  <2> QED BY <2>4, <2>5
<1> QED BY <1>2, <1>3

LEMMA LocalKeeps ==
  ASSUME IpInv, NEW freed \in Nat, NEW proto, IpLocal(freed, proto)
  PROVE  /\ netfree' \in Nat /\ upper' \in Nat
         /\ netfree' + upper' = netfree + upper + freed + 1
BY DEF IpInv, IpTypeOK, IpLocal

LEMMA SenderMoves ==
  ASSUME IpTypeOK, NEW p \in Senders, sender[p].at # "out",
         NEW at \in {"reply", "arp", "write"}, SendMoves(p, at)
  PROVE  /\ sender' \in [Senders -> Sends \cup {NoSend}]
         /\ \E r : sender' = [sender EXCEPT ![p] = r] /\ Hand(r) = 1 /\ Hand(sender[p]) = 1
PROOF
<1>1. sender[p] \in Sends /\ sender[p] # NoSend
  BY DEF IpTypeOK, NoSend, Sends
<1> DEFINE r == [at |-> at, to |-> sender[p].to, proto |-> sender[p].proto]
<1>2. sender' = [sender EXCEPT ![p] = r] /\ r \in Sends
  <2>1. [sender[p] EXCEPT !.at = at] = r /\ r \in Sends
    BY <1>1 DEF Sends
  <2>2. sender' = [sender EXCEPT ![p] = [sender[p] EXCEPT !.at = at]]
    BY DEF SendMoves
  <2> HIDE DEF r
  <2> QED BY <2>1, <2>2
<1>3. r # NoSend
  BY DEF NoSend
<1> HIDE DEF r
<1>4. sender' \in [Senders -> Sends \cup {NoSend}]
  BY <1>2 DEF IpTypeOK
<1> QED BY <1>1, <1>2, <1>3, <1>4 DEF Hand

LEMMA SenderEnds ==
  ASSUME IpTypeOK, NEW p \in Senders, sender[p] # NoSend, SendEnds(p)
  PROVE  /\ sender' \in [Senders -> Sends \cup {NoSend}]
         /\ sender' = [sender EXCEPT ![p] = NoSend] /\ Hand(NoSend) = 0 /\ Hand(sender[p]) = 1
BY DEF SendEnds, IpTypeOK, Hand

LEMMA NetinKeeps ==
  ASSUME IpInv,
         \/ NetinGetbuf \/ NetinOther \/ NetinReplies
         \/ \E to \in {"us", "bcast", "far"}, proto \in Protocols, sound \in BOOLEAN :
              NetinIp(to, proto, sound)
  PROVE  IpInv'
PROOF
<1>1. /\ UNCHANGED <<ipoutat, sender>> /\ ~iqoverrun
      /\ ipvalid' \in BOOLEAN /\ netinat' \in {"getbuf", "read", "reply"}
  BY DEF NetinGetbuf, NetinOther, NetinReplies, NetinIp, IpInv, IpTypeOK
<1>2. /\ netfree \in Nat /\ upper \in Nat /\ Len(ipoqueue) \in Nat /\ netlost \in Nat
      /\ ipoqueue \in Seq(Destinations) /\ iqoverrun = FALSE
  BY <1>1 DEF IpInv, IpTypeOK
<1> DEFINE Kept == /\ QueueInv' /\ netfree' \in Nat /\ upper' \in Nat /\ netlost' \in Nat
                   /\ ipoqueue' \in Seq(Destinations) /\ iqoverrun' \in BOOLEAN
                   /\ Placed' = Placed
<1>3. ASSUME NetinGetbuf PROVE Kept
  <2>1. /\ UNCHANGED <<ipoqueue, iqsem, iqoverrun, upper, netlost>> /\ netfree' = netfree - 1 /\ netfree > 0
        /\ NetinHas = 0 /\ NetinHas' = 1 /\ IpoutHas' = IpoutHas /\ IpoutHas \in {0, 1}
    BY <1>1, <1>3 DEF NetinGetbuf, NetinHas, IpoutHas
  <2>2. QueueInv'
    BY <1>1, <2>1, QueueUntouched
  <2>3. /\ ipoqueue' = ipoqueue /\ upper' = upper /\ netlost' = netlost
        /\ iqoverrun' \in BOOLEAN /\ netfree' \in Nat
    <3>1. ipoqueue' = ipoqueue /\ upper' = upper /\ netlost' = netlost /\ iqoverrun' = iqoverrun
      BY ONLY <2>1
    <3>2. netfree' \in Nat
      BY ONLY <1>2, <2>1
    <3>3. iqoverrun' \in BOOLEAN
      BY ONLY <1>2, <3>1
    <3> QED BY ONLY <3>1, <3>2, <3>3
  <2>4. Placed' = Placed
    BY ONLY <1>2, <2>1, <2>3 DEF Placed, Queued
  <2> QED BY ONLY <1>2, <2>2, <2>3, <2>4
<1>4. ASSUME NetinOther PROVE Kept
  <2>1. /\ UNCHANGED <<ipoqueue, iqsem, iqoverrun, upper, netlost>> /\ netfree' = netfree + 1
        /\ NetinHas = 1 /\ NetinHas' = 0 /\ IpoutHas' = IpoutHas /\ IpoutHas \in {0, 1}
    BY <1>1, <1>4 DEF NetinOther, NetinHas, IpoutHas
  <2>2. QueueInv'
    BY <1>1, <2>1, QueueUntouched
  <2>3. /\ ipoqueue' = ipoqueue /\ upper' = upper /\ netlost' = netlost
        /\ iqoverrun' \in BOOLEAN /\ netfree' \in Nat
    <3>1. ipoqueue' = ipoqueue /\ upper' = upper /\ netlost' = netlost /\ iqoverrun' = iqoverrun
      BY ONLY <2>1
    <3>2. netfree' \in Nat
      BY ONLY <1>2, <2>1
    <3>3. iqoverrun' \in BOOLEAN
      BY ONLY <1>2, <3>1
    <3> QED BY ONLY <3>1, <3>2, <3>3
  <2>4. Placed' = Placed
    BY ONLY <1>2, <2>1, <2>3 DEF Placed, Queued
  <2> QED BY ONLY <1>2, <2>2, <2>3, <2>4
<1>5. ASSUME NetinReplies PROVE Kept
  <2>1. /\ Reply /\ UNCHANGED upper
        /\ NetinHas = 1 /\ NetinHas' = 0 /\ IpoutHas' = IpoutHas /\ IpoutHas \in {0, 1}
    BY <1>1, <1>5 DEF NetinReplies, NetinHas, IpoutHas
  <2>2. /\ QueueInv' /\ iqoverrun' \in BOOLEAN
        /\ netfree' \in Nat /\ netlost' \in Nat
        /\ ipoqueue' \in Seq(Destinations) /\ Len(ipoqueue') \in Nat
        /\ netfree' + Len(ipoqueue') + netlost' = netfree + Len(ipoqueue) + netlost + 1
    BY <1>1, <2>1, ReplyKeeps
  <2>3. upper' = upper
    BY <2>1
  <2>9. Placed' = Placed
    <3>1. /\ netfree \in Int /\ upper \in Int /\ netlost \in Int
          /\ Queued \in Int /\ NetinHas \in Int /\ IpoutHas \in Int
      BY <1>2, <2>1, <2>2, <2>3 DEF Queued
    <3>2. {netfree', upper', netlost', Queued', NetinHas', IpoutHas'} \subseteq Int
      BY <1>2, <2>1, <2>2, <2>3 DEF Queued
    <3>3. /\ netfree' + Queued' + netlost' = netfree + Queued + netlost + 1
          /\ NetinHas' = NetinHas - 1 /\ upper' = upper /\ IpoutHas' = IpoutHas
      BY <1>2, <2>1, <2>2, <2>3 DEF Queued
    <3> QED BY <3>1, <3>2, <3>3 DEF Placed
  <2> QED BY <1>1, <1>2, <2>1, <2>2, <2>9
<1>6. ASSUME NEW to \in {"us", "bcast", "far"}, NEW proto \in Protocols, NEW sound \in BOOLEAN,
             NetinIp(to, proto, sound)
      PROVE  Kept
  <2>1. /\ UNCHANGED <<ipoqueue, iqsem, iqoverrun, netlost>> /\ NetinHas = 1
        /\ IpoutHas' = IpoutHas /\ IpoutHas \in {0, 1}
    BY <1>1, <1>6 DEF NetinIp, NetinHas, IpoutHas
  <2>2. CASE netinat' = "reply"
    <3>1. NetinHas' = 1 /\ UNCHANGED <<netfree, upper>>
      BY <1>6, <2>2 DEF NetinIp, NetinHas
    <3> QED BY <1>1, <1>2, <2>1, <3>1, QueueUntouched DEF Placed, Queued
  <2>3. CASE netinat' # "reply"
    <3>1. NetinHas' = 0 /\ (IpLocal(0, proto) \/ (netfree' = netfree + 1 /\ UNCHANGED upper))
      BY <1>6, <2>3 DEF NetinIp, NetinHas
    <3>2. {netfree', upper'} \subseteq Nat /\ netfree' + upper' = netfree + upper + 0 + 1
      BY <1>2, <3>1, LocalKeeps
    <3>8. QueueInv'
      BY <1>1, <1>2, <2>1, <3>1, <3>2, QueueUntouched
    <3>9. Placed' = Placed
      <4>1. /\ netfree \in Int /\ upper \in Int /\ netlost \in Int
            /\ Queued \in Int /\ NetinHas \in Int /\ IpoutHas \in Int
        BY <1>2, <2>1, <3>1, <3>2 DEF Queued
      <4>2. {netfree', upper', netlost', Queued', NetinHas', IpoutHas'} \subseteq Int
        BY <1>2, <2>1, <3>1, <3>2 DEF Queued
      <4>3. /\ netfree' + upper' = netfree + upper + 1 /\ NetinHas' = NetinHas - 1
            /\ Queued' = Queued /\ netlost' = netlost /\ IpoutHas' = IpoutHas
        BY <1>2, <2>1, <3>1, <3>2 DEF Queued
      <4> QED BY <4>1, <4>2, <4>3 DEF Placed
    <3> QED BY <1>1, <1>2, <2>1, <3>1, <3>2, <3>9, <3>8
  <2> QED BY <2>2, <2>3
<1>7. Kept
  BY <1>3, <1>4, <1>5, <1>6
<1>8. IpTypeOK'
  BY <1>1, <1>2, <1>7 DEF IpTypeOK, IpInv
<1> QED BY <1>1, <1>7, <1>8, ConservedBesides DEF IpInv

LEMMA IpoutKeeps ==
  ASSUME IpInv, IpoutWaits \/ IpoutTakes \/ IpoutResolves \/ IpoutSends
  PROVE  IpInv'
PROOF
<1>1. /\ UNCHANGED <<ipvalid, netinat, sender, netlost, iqoverrun>> /\ ~iqoverrun
      /\ ipoutat' \in {"top", "wait", "arp", "write"}
  BY DEF IpoutWaits, IpoutTakes, IpoutResolves, IpoutSends
<1>a. netlost' = netlost
  BY <1>1
<1>2. /\ netfree \in Nat /\ upper \in Nat /\ Len(ipoqueue) \in Nat /\ netlost \in Nat
      /\ ipoqueue \in Seq(Destinations) /\ NetinHas' = NetinHas /\ NetinHas \in {0, 1}
      /\ iqsem.count \in Int /\ Len(ipoqueue) <= IP_OQSIZ /\ IP_OQSIZ \in Nat
      /\ Len(ipoqueue) = iqsem.count + (IF ipoutat = "wait" THEN 1 ELSE 0)
      /\ ipoutat # "wait" => SemOf(iqsem, {})
      /\ SemCountsPackets /\ iqoverrun' \in BOOLEAN
  BY <1>1, IpSizes DEF IpInv, IpTypeOK, NetinHas, QueueInv, SemCountsPackets, SemOf
<1> DEFINE Kept == /\ QueueInv' /\ netfree' \in Nat /\ upper' \in Nat /\ netlost' \in Nat
                   /\ ipoqueue' \in Seq(Destinations) /\ iqoverrun' \in BOOLEAN
                   /\ Placed' = Placed
<1>3. ASSUME IpoutWaits PROVE Kept
  <2>1. /\ UNCHANGED <<netfree, ipoqueue, upper>> /\ ipoutat = "top" /\ ipoutat' = "wait"
        /\ IpoutHas = 0 /\ IpoutHas' = 0
        /\ iqsem' = IF Passes(iqsem) THEN Take(iqsem) ELSE Blocks(iqsem, "ipout")
    BY <1>3 DEF IpoutWaits, IpoutHas
  <2>2. iqsem'.count = iqsem.count - 1 /\ (SemOf(iqsem', {}) \/ SemOf(iqsem', {"ipout"}))
    <3>1. CASE Passes(iqsem)
      BY <1>2, <2>1, <3>1, SemTake
    <3>2. CASE ~Passes(iqsem)
      <4>1. SemOf(Blocks(iqsem, "ipout"), {} \cup {"ipout"}) /\ Blocks(iqsem, "ipout").count = iqsem.count - 1
        <5>1. SemOf(iqsem, {}) /\ "ipout" \notin {}
          BY <1>2, <2>1
        <5> QED BY <3>2, <5>1, SemBlocks
      <4>2. {} \cup {"ipout"} = {"ipout"}
        OBVIOUS
      <4> QED BY <2>1, <3>2, <4>1, <4>2
    <3> QED BY <3>1, <3>2
  <2>3. QueueInv'
    BY <1>1, <1>2, <2>1, <2>2 DEF QueueInv, SemCountsPackets
  <2> QED BY <1>1, <1>2, <2>1, <2>3 DEF Placed, Queued
<1>4. ASSUME IpoutTakes PROVE Kept
  <2>1. ipoutat = "wait" /\ SemOf(iqsem, {}) /\ iqsem.count >= 0
    BY <1>2, <1>4, DueWhenReleased DEF IpoutTakes
  <2>2. ipoqueue # <<>>
    BY <1>2, <2>1
  <2>3. /\ ipoqueue' = Tail(ipoqueue) /\ ipoqueue' \in Seq(Destinations)
        /\ Len(ipoqueue') = Len(ipoqueue) - 1 /\ iqsem' = iqsem
    BY <1>2, <1>4, <2>2 DEF IpoutTakes
  <2>4. /\ ipoutat' # "wait" /\ IpoutHas = 0
        /\ \/ IpoutHas' = 0 /\ IpLocal(0, "reply")
           \/ IpoutHas' = 0 /\ netfree' = netfree + 1 /\ UNCHANGED upper
           \/ IpoutHas' = 1 /\ UNCHANGED <<netfree, upper>>
    BY <1>4, <2>1 DEF IpoutTakes, IpoutHas
  <2>5. netfree' \in Nat /\ upper' \in Nat /\ IpoutHas' \in {0, 1}
        /\ netfree' + upper' + IpoutHas' = netfree + upper + 1
    <3>1. IpLocal(0, "reply") => netfree' \in Nat /\ upper' \in Nat
                                  /\ netfree' + upper' = netfree + upper + 0 + 1
      BY LocalKeeps
    <3> QED BY <1>2, <2>4, <3>1
  <2>6. QueueInv'
    BY <1>1, <1>2, <2>1, <2>3, <2>4 DEF QueueInv, SemCountsPackets
  <2>9. Placed' = Placed
    <3>1. /\ netfree \in Int /\ upper \in Int /\ netlost \in Int
          /\ Queued \in Int /\ NetinHas \in Int /\ IpoutHas \in Int
      BY <1>a, <1>2, <2>3, <2>4, <2>5, <2>6 DEF Queued
    <3>2. {netfree', upper', netlost', Queued', NetinHas', IpoutHas'} \subseteq Int
      BY <1>a, <1>2, <2>3, <2>4, <2>5, <2>6 DEF Queued
    <3>3. /\ netfree' + upper' + IpoutHas' = netfree + upper + 1 /\ IpoutHas = 0
          /\ Queued' = Queued - 1 /\ netlost' = netlost /\ NetinHas' = NetinHas
      BY <1>a, <1>2, <2>3, <2>4, <2>5, <2>6 DEF Queued
    <3> QED BY <3>1, <3>2, <3>3 DEF Placed
  <2> QED BY <1>a, <1>2, <2>3, <2>5, <2>6, <2>9
<1>5. ASSUME IpoutResolves PROVE Kept
  <2>1. /\ UNCHANGED <<ipoqueue, iqsem, upper>> /\ ipoutat = "arp" /\ ipoutat' # "wait"
        /\ IpoutHas = 1 /\ IpoutHas' \in {0, 1} /\ netfree' = netfree + 1 - IpoutHas'
    BY <1>2, <1>5 DEF IpoutResolves, IpoutHas
  <2>8. QueueInv'
    BY <1>1, <1>2, <2>1, QueueUntouched
  <2>9. Placed' = Placed
    <3>1. /\ netfree \in Int /\ upper \in Int /\ netlost \in Int
          /\ Queued \in Int /\ NetinHas \in Int /\ IpoutHas \in Int
      BY <1>a, <1>2, <2>1 DEF Queued
    <3>2. {netfree', upper', netlost', Queued', NetinHas', IpoutHas'} \subseteq Int
      BY <1>a, <1>2, <2>1 DEF Queued
    <3>3. /\ netfree' = netfree + 1 - IpoutHas' /\ IpoutHas = 1
          /\ Queued' = Queued /\ upper' = upper /\ netlost' = netlost /\ NetinHas' = NetinHas
      BY <1>a, <1>2, <2>1 DEF Queued
    <3> QED BY <3>1, <3>2, <3>3 DEF Placed
  <2>7. upper' \in Nat /\ ipoqueue' \in Seq(Destinations) /\ netfree' \in Nat
    <3>1. upper' = upper /\ ipoqueue' = ipoqueue /\ (netfree' = netfree \/ netfree' = netfree + 1)
      BY <1>5 DEF IpoutResolves
    <3> QED BY <1>2, <3>1
  <2> QED BY <1>a, <1>2, <2>7, <2>8, <2>9
<1>6. ASSUME IpoutSends PROVE Kept
  <2>1. /\ UNCHANGED <<ipoqueue, iqsem, upper>> /\ ipoutat = "write" /\ ipoutat' # "wait"
        /\ IpoutHas = 1 /\ IpoutHas' = 0 /\ netfree' = netfree + 1
    BY <1>2, <1>6 DEF IpoutSends, IpoutHas
  <2> QED BY <1>1, <1>2, <2>1, QueueUntouched DEF Placed, Queued
<1>7. Kept
  BY <1>3, <1>4, <1>5, <1>6
<1>8. IpTypeOK'
  BY <1>1, <1>2, <1>7 DEF IpTypeOK, IpInv
<1> QED BY <1>1, <1>7, <1>8, ConservedBesides DEF IpInv

LEMMA SendersKeep ==
  ASSUME IpInv, NEW p \in Senders,
         \/ \E to \in Destinations, proto \in {"udp", "ping"} : SendGetbuf(p, to, proto)
         \/ SendLocal(p) \/ SendReplies(p) \/ SendRouted(p) \/ SendFails(p)
         \/ SendResolved(p) \/ SendWritten(p) \/ SenderKilled(p)
  PROVE  IpInv'
PROOF
<1>1. /\ UNCHANGED <<ipvalid, netinat, ipoutat>> /\ ~iqoverrun /\ iqoverrun \in BOOLEAN
  BY DEF SendGetbuf, SendLocal, SendReplies, SendRouted, SendFails, SendResolved, SendWritten,
         SenderKilled, SendAt, IpInv, IpTypeOK
<1>2. /\ netfree \in Nat /\ upper \in Nat /\ Len(ipoqueue) \in Nat /\ netlost \in Nat
      /\ ipoqueue \in Seq(Destinations) /\ sender[p] \in Sends \cup {NoSend}
      /\ NetinHas' = NetinHas /\ NetinHas \in {0, 1} /\ IpoutHas' = IpoutHas /\ IpoutHas \in {0, 1}
  BY <1>1 DEF IpInv, IpTypeOK, NetinHas, IpoutHas
<1>3. IpTypeOK
  BY DEF IpInv
<1> DEFINE Kept(r) ==
      /\ QueueInv' /\ netfree' \in Nat /\ upper' \in Nat /\ netlost' \in Nat
      /\ iqoverrun' \in BOOLEAN /\ ipoqueue' \in Seq(Destinations)
      /\ sender' \in [Senders -> Sends \cup {NoSend}]
      /\ sender' = [sender EXCEPT ![p] = r] /\ Placed' + Hand(r) = Placed + Hand(sender[p])
<1>4. ASSUME NEW to \in Destinations, NEW proto \in {"udp", "ping"}, SendGetbuf(p, to, proto)
      PROVE  \E r : Kept(r)
  <2> DEFINE r == [at |-> "ip_send", to |-> to, proto |-> proto]
  <2>1. r \in Sends /\ r # NoSend
    BY DEF Sends, NoSend
  <2>2. /\ UNCHANGED <<ipoqueue, iqsem, iqoverrun, upper, netlost>> /\ netfree' = netfree - 1 /\ netfree > 0
        /\ sender' = [sender EXCEPT ![p] = r] /\ sender[p] = NoSend
    BY <1>4 DEF SendGetbuf
  <2> HIDE DEF r
  <2>3. sender' \in [Senders -> Sends \cup {NoSend}]
    BY <1>3, <2>1, <2>2 DEF IpTypeOK
  <2>4. Hand(r) = 1 /\ Hand(sender[p]) = 0
    BY <2>1, <2>2 DEF Hand
  <2>5. Kept(r)
    BY <1>1, <1>2, <2>2, <2>3, <2>4, QueueUntouched DEF Placed, Queued
  <2> QED BY <2>5
<1>5. ASSUME SendLocal(p) PROVE \E r : Kept(r)
  <2>1. /\ UNCHANGED <<ipoqueue, iqsem, iqoverrun, netlost>> /\ sender[p].at # "out" /\ sender[p] # NoSend
        /\ \/ SendMoves(p, "reply") /\ UNCHANGED <<netfree, upper>>
           \/ SendEnds(p) /\ IpLocal(0, sender[p].proto)
    BY <1>5 DEF SendLocal, SendAt, NoSend
  <2>2. CASE SendMoves(p, "reply") /\ UNCHANGED <<netfree, upper>>
    BY <1>1, <1>2, <1>3, <2>1, <2>2, SenderMoves, QueueUntouched DEF Placed, Queued
  <2>3. CASE SendEnds(p) /\ IpLocal(0, sender[p].proto)
    <3>1. {netfree', upper'} \subseteq Nat /\ netfree' + upper' = netfree + upper + 0 + 1
      BY <2>3, LocalKeeps
    <3>2. Kept(NoSend)
      <4>6. /\ sender' \in [Senders -> Sends \cup {NoSend}] /\ Hand(NoSend) = 0 /\ Hand(sender[p]) = 1
            /\ sender' = [sender EXCEPT ![p] = NoSend]
        BY <1>1, <1>2, <1>3, <2>1, <2>3, <3>1, SenderEnds
      <4>8. QueueInv'
        BY <1>1, <1>2, <1>3, <2>1, <2>3, <3>1, QueueUntouched
      <4>9. Placed' + Hand(NoSend) = Placed + Hand(sender[p])
        <5>1. /\ netfree \in Int /\ upper \in Int /\ netlost \in Int
              /\ Queued \in Int /\ NetinHas \in Int /\ IpoutHas \in Int
          BY <1>2, <1>3, <2>1, <2>3, <3>1, <4>6 DEF Queued
        <5>2. {netfree', upper', netlost', Queued', NetinHas', IpoutHas'} \subseteq Int
          BY <1>2, <1>3, <2>1, <2>3, <3>1, <4>6 DEF Queued
        <5>3. /\ netfree' + upper' = netfree + upper + 1 /\ Queued' = Queued
              /\ netlost' = netlost /\ NetinHas' = NetinHas /\ IpoutHas' = IpoutHas /\ Hand(NoSend) = 0 /\ Hand(sender[p]) = 1
          BY <1>2, <1>3, <2>1, <2>3, <3>1, <4>6 DEF Queued
        <5> QED BY <5>1, <5>2, <5>3 DEF Placed
      <4> QED BY <1>1, <1>2, <1>3, <2>1, <2>3, <3>1, <4>6, <4>8, <4>9
    <3> QED BY <3>2
  <2> QED BY <2>1, <2>2, <2>3
<1>6. ASSUME SendReplies(p) PROVE \E r : Kept(r)
  <2>1. Reply /\ SendEnds(p) /\ sender[p] # NoSend /\ UNCHANGED upper
    BY <1>6 DEF SendReplies, SendAt, NoSend
  <2>2. /\ QueueInv' /\ iqoverrun' \in BOOLEAN
        /\ netfree' \in Nat /\ netlost' \in Nat
        /\ ipoqueue' \in Seq(Destinations) /\ Len(ipoqueue') \in Nat
        /\ netfree' + Len(ipoqueue') + netlost' = netfree + Len(ipoqueue) + netlost + 1
    BY <1>1, <2>1, ReplyKeeps
  <2>3. Kept(NoSend)
    <3>6. /\ sender' \in [Senders -> Sends \cup {NoSend}] /\ Hand(NoSend) = 0 /\ Hand(sender[p]) = 1
          /\ sender' = [sender EXCEPT ![p] = NoSend]
      BY <1>1, <1>2, <1>3, <2>1, <2>2, SenderEnds
    <3>8. QueueInv'
      BY <1>1, <1>2, <1>3, <2>1, <2>2
    <3>9. Placed' + Hand(NoSend) = Placed + Hand(sender[p])
      <4>1. /\ netfree \in Int /\ upper \in Int /\ netlost \in Int
            /\ Queued \in Int /\ NetinHas \in Int /\ IpoutHas \in Int
        BY <1>2, <1>3, <2>1, <2>2, <3>6 DEF Queued
      <4>2. {netfree', upper', netlost', Queued', NetinHas', IpoutHas'} \subseteq Int
        BY <1>2, <1>3, <2>1, <2>2, <3>6 DEF Queued
      <4>3. /\ netfree' + Queued' + netlost' = netfree + Queued + netlost + 1 /\ upper' = upper
            /\ NetinHas' = NetinHas /\ IpoutHas' = IpoutHas /\ Hand(NoSend) = 0 /\ Hand(sender[p]) = 1
        BY <1>2, <1>3, <2>1, <2>2, <3>6 DEF Queued
      <4> QED BY ONLY <4>1, <4>2, <4>3 DEF Placed
    <3> QED BY <1>1, <1>2, <1>3, <2>1, <2>2, <3>6, <3>8, <3>9
  <2> QED BY <2>3
<1>7. ASSUME SendRouted(p) \/ SendResolved(p) PROVE \E r : Kept(r)
  <2>1. /\ UNCHANGED <<netfree, upper, netlost, ipoqueue, iqsem, iqoverrun>> /\ sender[p].at # "out"
        /\ SendMoves(p, "arp") \/ SendMoves(p, "write")
    BY <1>7 DEF SendRouted, SendResolved, SendAt
  <2> QED BY <1>1, <1>2, <1>3, <2>1, SenderMoves, QueueUntouched DEF Placed, Queued
<1>8. ASSUME SendFails(p) \/ SendWritten(p) PROVE \E r : Kept(r)
  <2>1. /\ UNCHANGED <<upper, netlost, ipoqueue, iqsem, iqoverrun>> /\ sender[p] # NoSend
        /\ SendEnds(p) /\ netfree' = netfree + 1
    BY <1>8 DEF SendFails, SendWritten, SendAt, NoSend, UnroutedFreed
  <2>2. Kept(NoSend)
    BY <1>1, <1>2, <1>3, <2>1, SenderEnds, QueueUntouched DEF Placed, Queued
  <2> QED BY <2>2
<1>9. ASSUME SenderKilled(p) PROVE \E r : Kept(r)
  <2>1. /\ UNCHANGED <<netfree, upper, ipoqueue, iqsem, iqoverrun>> /\ sender[p] # NoSend /\ SendEnds(p)
    BY <1>9 DEF SenderKilled
  <2>2. netlost' = netlost + 1
    <3>1. sender[p].at # "out"
      BY <1>2, <2>1 DEF Sends
    <3> QED BY <1>9, <3>1 DEF SenderKilled
  <2>3. Kept(NoSend)
    BY <1>1, <1>2, <1>3, <2>1, <2>2, SenderEnds, QueueUntouched DEF Placed, Queued
  <2> QED BY <2>3
<1>10. PICK r : Kept(r)
  BY <1>4, <1>5, <1>6, <1>7, <1>8, <1>9
<1>11. IpTypeOK'
  BY <1>1, <1>3, <1>10 DEF IpTypeOK
<1> QED BY <1>10, <1>11, ConservedByBusy DEF IpInv

LEMMA IpStep == IpInv /\ [IpNext]_ipVars => IpInv'
PROOF
<1> SUFFICES ASSUME IpInv, [IpNext]_ipVars PROVE IpInv'
  OBVIOUS
<1>1. /\ netfree \in Nat /\ upper \in Nat /\ Len(ipoqueue) \in Nat /\ netlost \in Nat
      /\ NetinHas \in {0, 1} /\ IpoutHas \in {0, 1}
  BY DEF IpInv, IpTypeOK, NetinHas, IpoutHas
<1>2. CASE UpperFrees \/ GotAddress \/ UNCHANGED ipVars
  <2>1. /\ UNCHANGED <<netinat, ipoqueue, iqsem, iqoverrun, ipoutat, sender, netlost>>
        /\ ipvalid' \in BOOLEAN /\ netfree' \in Nat /\ upper' \in Nat
        /\ netfree' + upper' = netfree + upper
    <3>1. CASE UpperFrees
      BY <1>1, <3>1 DEF UpperFrees, IpInv, IpTypeOK
    <3>2. CASE GotAddress
      BY <1>1, <3>2 DEF GotAddress
    <3>3. CASE UNCHANGED ipVars
      BY <1>1, <3>3 DEF ipVars, IpInv, IpTypeOK
    <3> QED BY <1>2, <3>1, <3>2, <3>3
  <2>2. IpTypeOK'
    BY <2>1 DEF IpInv, IpTypeOK
  <2>3. Placed' = Placed
    <3>1. /\ Queued' = Queued /\ netlost' = netlost /\ NetinHas' = NetinHas /\ IpoutHas' = IpoutHas
          /\ {netfree, upper, Queued, netlost, NetinHas, IpoutHas} \subseteq Int
          /\ {netfree', upper'} \subseteq Int
      BY <1>1, <2>1 DEF Queued, NetinHas, IpoutHas
    <3>2. netfree' + upper' = netfree + upper
      BY <2>1
    <3> QED BY <3>1, <3>2 DEF Placed
  <2>4. QueueInv'
    BY <2>1 DEF IpInv, QueueInv, SemCountsPackets, IpoutDue
  <2> QED BY <2>1, <2>2, <2>3, <2>4, ConservedBesides DEF IpInv
<1>3. CASE \E p \in Senders :
             \/ \E to \in Destinations, proto \in {"udp", "ping"} : SendGetbuf(p, to, proto)
             \/ SendLocal(p) \/ SendReplies(p) \/ SendRouted(p) \/ SendFails(p)
             \/ SendResolved(p) \/ SendWritten(p) \/ SenderKilled(p)
  BY <1>3, SendersKeep
<1> QED BY <1>2, <1>3, NetinKeeps, IpoutKeeps DEF IpNext

LEMMA IpInvAlways == IpSpec => []IpInv
PROOF BY IpInvInit, IpStep, PTL DEF IpSpec

(* The buffers of the network are in one place each, a packet in the output queue
   of IP is written over only when ipout has been let through for one that it has
   not taken, and ipout finds a packet in it, for any number of buffers and
   senders. *)
THEOREM QueueSoundAlways == IpSpec => []QueueSound
PROOF
<1>1. IpInv => QueueSound
  <2> SUFFICES ASSUME IpInv PROVE QueueSound
    OBVIOUS
  <2>1. IpoutFindsPacket
    <3> SUFFICES ASSUME IpoutDue PROVE ipoqueue # <<>>
      BY DEF IpoutFindsPacket
    <3>1. CASE iqoverrun
      BY <3>1 DEF IpInv, QueueInv
    <3>2. CASE ~iqoverrun
      <4>1. /\ ipoutat = "wait" /\ iqsem.count >= 0 /\ iqsem.count \in Int
            /\ SemCountsPackets
        BY <3>2, DueWhenReleased DEF IpInv, QueueInv
      <4>2. Len(ipoqueue) # 0
        BY <4>1 DEF SemCountsPackets
      <4> QED BY <4>2
    <3> QED BY <3>1, <3>2
  <2>2. OutputQueueFits
    BY DEF IpInv, QueueInv, OutputQueueFits
  <2> QED BY <2>1, <2>2 DEF IpInv, QueueSound
<1> QED BY <1>1, IpInvAlways, PTL

-----------------------------------------------------------------------------

Endpoints == [udstate : {"FREE", "USED", "RECV"}, key : Keys \cup {"none"},
              udpid : Users \cup {"none"}, udqueue : Seq(Keys)]
UdpCalls == [at : {"out", "recv", "getbuf", "ip_send"}, slot : UdpSlots]

UdpTypeOK ==
  /\ udptab \in [UdpSlots -> Endpoints]
  /\ udpcall \in [Users -> UdpCalls]
  /\ udpmsg \in [Users -> {"none", "OK", "word"}]
  /\ udpfree \in Nat /\ udpwild \in BOOLEAN /\ disturbed \in BOOLEAN

(* Packets are queued only at an endpoint in use that nobody waits at. *)
QueuedWhenUsed == \A s \in UdpSlots : udptab[s].udstate # "USED" => udptab[s].udqueue = <<>>

Receiving(p, s) == udpcall[p].at = "recv" /\ udpcall[p].slot = s

(* Who is in udp_recv is the one its endpoint names, or a packet has come. *)
ReceiverKnown(p, s) ==
  LET e == udptab[s] IN
  /\ \/ e.udstate = "RECV" /\ e.udpid = p
     \/ e.udstate = "USED" /\ e.udqueue # <<>>
  /\ udpmsg[p] = "none" => e.udstate = "RECV"
  /\ udpmsg[p] = "OK" => e.udqueue # <<>>
ReceiversKnown == \A p \in Users, s \in UdpSlots : Receiving(p, s) => ReceiverKnown(p, s)
OneReceives ==
  \A p, q \in Users, s \in UdpSlots : Receiving(p, s) /\ Receiving(q, s) => p = q
NamedReceives ==
  \A s \in UdpSlots : udptab[s].udstate = "RECV" =>
    \E p \in Users : udptab[s].udpid = p /\ Receiving(p, s)
KeysDiffer ==
  \A s, t \in UdpSlots : udptab[s].udstate # "FREE" /\ udptab[t].udstate # "FREE" /\ s # t =>
    udptab[s].key # udptab[t].key

Undisturbed == ~udpwild /\ ReceiversKnown /\ OneReceives /\ NamedReceives /\ KeysDiffer

UdpInv ==
  /\ UdpTypeOK /\ QueuedWhenUsed /\ UdpBuffersConserved
  /\ disturbed \/ Undisturbed
-----------------------------------------------------------------------------

LEMMA UdpSumChanges ==
  ASSUME NEW f \in [UdpSlots -> Int], NEW g \in [UdpSlots -> Int],
         NEW n \in UdpSlots, \A m \in UdpSlots : m # n => g[m] = f[m]
  PROVE  UdpSum(f) \in Int /\ UdpSum(g) = UdpSum(f) + g[n] - f[n]
PROOF
<1>1. IsFiniteSet(UdpSlots)
  BY UdpSizes, FS_Interval DEF UdpSlots
<1> QED BY ZenonT(30), <1>1, SumChanges DEF UdpSum

LEMMA UdpSumIs ==
  ASSUME NEW f \in [UdpSlots -> Int]
  PROVE  UdpSum(f) \in Int /\ ((\A m \in UdpSlots : f[m] = 0) => UdpSum(f) = 0)
PROOF
<1>1. IsFiniteSet(UdpSlots)
  BY UdpSizes, FS_Interval DEF UdpSlots
<1>2. \A m \in UdpSlots : f[m] <= f[m]
  OBVIOUS
<1> QED BY <1>1, <1>2, SumOrdered DEF UdpSum

LEMMA LowestSlot ==
  ASSUME NEW S \in SUBSET UdpSlots, S # {}
  PROVE  Min(S) \in S /\ Min(S) \in UdpSlots
PROOF
<1>1. S \in SUBSET Nat
  BY UdpSizes DEF UdpSlots
<1>2. \E x \in S : \A y \in S : x <= y
  BY <1>1, LeastExists
<1> QED BY <1>2 DEF Min

InSend(c) == IF c.at = "ip_send" THEN 1 ELSE 0
InIpSend == {p \in Users : udpcall[p].at = "ip_send"}

LEMMA InIpSendChanges ==
  ASSUME UdpTypeOK, NEW p \in Users, NEW c, udpcall' = [udpcall EXCEPT ![p] = c]
  PROVE  /\ Cardinality(InIpSend) \in Nat
         /\ Cardinality(InIpSend') = Cardinality(InIpSend) + InSend(c) - InSend(udpcall[p])
PROOF
<1>1. \A q \in Users : udpcall'[q] = IF q = p THEN c ELSE udpcall[q]
  BY DEF UdpTypeOK
<1>2. IsFiniteSet(InIpSend) /\ Cardinality(InIpSend) \in Nat
  <2>1. InIpSend \subseteq Users /\ IsFiniteSet(Users)
    BY UdpSizes DEF InIpSend
  <2> QED BY <2>1, FS_Subset, FS_CardinalityType
<1>3. CASE udpcall[p].at = "ip_send" /\ c.at # "ip_send"
  <2>1. InIpSend' = InIpSend \ {p} /\ p \in InIpSend
    BY <1>1, <1>3 DEF InIpSend
  <2>2. InSend(c) = 0 /\ InSend(udpcall[p]) = 1
    BY <1>3 DEF InSend
  <2> QED BY <1>2, <2>1, <2>2, FS_RemoveElement
<1>4. CASE udpcall[p].at # "ip_send" /\ c.at = "ip_send"
  <2>1. InIpSend' = InIpSend \cup {p} /\ p \notin InIpSend
    BY <1>1, <1>4 DEF InIpSend
  <2>2. InSend(c) = 1 /\ InSend(udpcall[p]) = 0
    BY <1>4 DEF InSend
  <2> QED BY SMTT(30), <1>2, <2>1, <2>2, FS_AddElement
<1>5. CASE udpcall[p].at = "ip_send" <=> c.at = "ip_send"
  <2>1. Cardinality(InIpSend') = Cardinality(InIpSend)
    BY <1>1, <1>5 DEF InIpSend
  <2> QED BY <1>2, <1>5, <2>1 DEF InSend
<1> QED BY <1>3, <1>4, <1>5

LEMMA InIpSendNat ==
  /\ Cardinality(InIpSend) \in Nat
  /\ udpcall' = udpcall => Cardinality(InIpSend') = Cardinality(InIpSend) + 0
PROOF
<1>1. InIpSend \subseteq Users /\ IsFiniteSet(Users)
  BY UdpSizes DEF InIpSend
<1>2. Cardinality(InIpSend) \in Nat
  BY <1>1, FS_Subset, FS_CardinalityType
<1>3. udpcall' = udpcall => InIpSend' = InIpSend
  BY DEF InIpSend
<1> QED BY <1>2, <1>3

(* The table after the assignments the actions make: one endpoint is another,
   which has the same key. *)
IsChanged(s, e) ==
  e \in Endpoints /\ e.key = udptab[s].key /\ udptab' = [udptab EXCEPT ![s] = e]

(* The buffers, when one queue changes. *)
LEMMA UdpBuffersMove ==
  ASSUME UdpTypeOK, UdpTypeOK', UdpBuffersConserved, NEW s \in UdpSlots, NEW e,
         IsChanged(s, e), NEW d \in Int,
         Cardinality(InIpSend') = Cardinality(InIpSend) + d,
         udpfree' + Len(e.udqueue) + d = udpfree + Len(udptab[s].udqueue)
  PROVE  UdpBuffersConserved'
PROOF
<1> DEFINE f == [t \in UdpSlots |-> Len(udptab[t].udqueue)]
           g == [t \in UdpSlots |-> Len(udptab'[t].udqueue)]
<1>1. e \in Endpoints /\ \A t \in UdpSlots : udptab'[t] = IF t = s THEN e ELSE udptab[t]
  BY DEF UdpTypeOK, IsChanged
<1>2. /\ e.udqueue \in Seq(Keys) /\ Len(e.udqueue) \in Nat
      /\ \A t \in UdpSlots : udptab[t].udqueue \in Seq(Keys) /\ Len(udptab[t].udqueue) \in Nat
  BY <1>1 DEF UdpTypeOK, Endpoints
<1>3. /\ f \in [UdpSlots -> Int] /\ g \in [UdpSlots -> Int]
      /\ \A t \in UdpSlots : t # s => g[t] = f[t]
      /\ f[s] = Len(udptab[s].udqueue) /\ g[s] = Len(e.udqueue)
  BY <1>1, <1>2
<1>5. udpfree + UdpSum(f) + Cardinality(InIpSend) = UdpBufs
  BY DEF UdpBuffersConserved, InIpSend
<1>6. SUFFICES udpfree' + UdpSum(g) + Cardinality(InIpSend') = UdpBufs
  BY DEF UdpBuffersConserved, InIpSend
<1> HIDE DEF f, g
<1>7. /\ UdpSum(f) \in Int
      /\ UdpSum(g) = UdpSum(f) + g[s] - f[s]
  BY <1>3, UdpSumChanges
<1>8. Cardinality(InIpSend) \in Nat
  <2>1. InIpSend \subseteq Users /\ IsFiniteSet(Users)
    BY UdpSizes DEF InIpSend
  <2> QED BY <2>1, FS_Subset, FS_CardinalityType
<1>9. /\ {udpfree, udpfree', Cardinality(InIpSend), UdpSum(f)} \subseteq Int
      /\ {Len(e.udqueue), Len(udptab[s].udqueue)} \subseteq Int
  BY <1>2, <1>7, <1>8 DEF UdpTypeOK
<1>10. UdpSum(g) = UdpSum(f) + Len(e.udqueue) - Len(udptab[s].udqueue)
  BY <1>3, <1>7
<1>11. /\ Cardinality(InIpSend') = Cardinality(InIpSend) + d
       /\ udpfree' + Len(e.udqueue) + d = udpfree + Len(udptab[s].udqueue)
  OBVIOUS
<1>12. UdpSum(g) \in Int /\ Cardinality(InIpSend') \in Nat
  <2>1. InIpSend' \subseteq Users /\ IsFiniteSet(Users)
    BY UdpSizes DEF InIpSend
  <2>2. Cardinality(InIpSend') \in Nat
    BY <2>1, FS_Subset, FS_CardinalityType
  <2> QED BY <1>3, <2>2, UdpSumIs
<1>13. udpfree' \in Int /\ UdpBufs \in Int
  BY UdpSizes DEF UdpTypeOK
<1>14. /\ udpfree \in Int /\ udpfree' \in Int /\ UdpSum(f) \in Int /\ UdpSum(g) \in Int
       /\ Cardinality(InIpSend) \in Int
       /\ Len(e.udqueue) \in Int /\ Len(udptab[s].udqueue) \in Int
  BY <1>8, <1>9, <1>12
<1>15. Cardinality(InIpSend') \in Int
  BY ONLY <1>12
<1>16. PICK a \in Int, u \in Int, c \in Int, k \in Int, l \in Int :
         /\ a = udpfree /\ u = UdpSum(f) /\ c = Cardinality(InIpSend)
         /\ l = Len(e.udqueue) /\ k = Len(udptab[s].udqueue)
  BY ONLY <1>14, Zenon
<1>17. PICK b \in Int, v \in Int, n \in Int :
         b = udpfree' /\ v = UdpSum(g) /\ n = Cardinality(InIpSend')
  BY ONLY <1>14, <1>15, Zenon
<1>18. v = u + l - k /\ n = c + d /\ b + l + d = a + k /\ a + u + c = UdpBufs
  BY ONLY <1>5, <1>10, <1>11, <1>16, <1>17, Zenon
<1>19. b + v + n = UdpBufs
  <2>1. UdpBufs \in Int
    BY UdpSizes
  <2> QED BY <2>1, <1>18
<1> QED BY ONLY <1>17, <1>19, Zenon

LEMMA UdpBuffersQueued ==
  ASSUME UdpTypeOK, UdpTypeOK', UdpBuffersConserved, NEW s \in UdpSlots, NEW e,
         IsChanged(s, e), udpcall' = udpcall,
         udpfree' + Len(e.udqueue) = udpfree + Len(udptab[s].udqueue)
  PROVE  UdpBuffersConserved'
PROOF
<1>1. e \in Endpoints /\ udptab[s] \in Endpoints
  BY DEF IsChanged, UdpTypeOK
<1>2. {udpfree, udpfree'} \subseteq Int /\ {Len(e.udqueue), Len(udptab[s].udqueue)} \subseteq Int
  BY <1>1 DEF UdpTypeOK, Endpoints
<1>3. udpfree' + Len(e.udqueue) + 0 = udpfree + Len(udptab[s].udqueue)
  BY <1>2
<1>4. Cardinality(InIpSend') = Cardinality(InIpSend) + 0 /\ 0 \in Int
  BY InIpSendNat
<1> QED BY ONLY UdpTypeOK, UdpTypeOK', UdpBuffersConserved, s \in UdpSlots, IsChanged(s, e),
             <1>3, <1>4, UdpBuffersMove, Zenon

(* ... and when none does. *)
LEMMA UdpBuffersHeld ==
  ASSUME UdpTypeOK, UdpTypeOK', UdpBuffersConserved,
         \A t \in UdpSlots : udptab'[t].udqueue = udptab[t].udqueue,
         Cardinality(InIpSend') + udpfree' = Cardinality(InIpSend) + udpfree,
         {Cardinality(InIpSend), Cardinality(InIpSend')} \subseteq Nat
  PROVE  UdpBuffersConserved'
PROOF
<1> DEFINE f == [t \in UdpSlots |-> Len(udptab[t].udqueue)]
<1>1. f = [t \in UdpSlots |-> Len(udptab'[t].udqueue)]
  OBVIOUS
<1>2. udpfree + UdpSum(f) + Cardinality(InIpSend) = UdpBufs
  BY DEF UdpBuffersConserved, InIpSend
<1>3. SUFFICES udpfree' + UdpSum(f) + Cardinality(InIpSend') = UdpBufs
  BY <1>1 DEF UdpBuffersConserved, InIpSend
<1>4. \A t \in UdpSlots : Len(udptab[t].udqueue) \in Nat
  BY DEF UdpTypeOK, Endpoints
<1>5. f \in [UdpSlots -> Int]
  BY <1>4
<1> HIDE DEF f
<1>7. UdpSum(f) \in Int
  BY <1>5, UdpSumIs
<1>8. udpfree \in Nat /\ udpfree' \in Nat
  BY DEF UdpTypeOK
<1> QED BY <1>2, <1>7, <1>8

LEMMA UdpBuffersUntouched ==
  ASSUME UdpTypeOK', UdpBuffersConserved, udptab' = udptab, udpfree' = udpfree,
         Cardinality(InIpSend') = Cardinality(InIpSend) + 0
  PROVE  UdpBuffersConserved'
PROOF
<1>1. Cardinality(InIpSend) \in Nat
  BY InIpSendNat
<1>2. Cardinality(InIpSend') = Cardinality(InIpSend)
  BY <1>1
<1> QED BY <1>2 DEF UdpBuffersConserved, InIpSend

LEMMA UdpBuffersSame ==
  ASSUME UdpTypeOK, UdpTypeOK', UdpBuffersConserved, udpfree' = udpfree,
         \A t \in UdpSlots : udptab'[t].udqueue = udptab[t].udqueue,
         Cardinality(InIpSend') = Cardinality(InIpSend) + 0
  PROVE  UdpBuffersConserved'
PROOF
<1>1. [t \in UdpSlots |-> Len(udptab'[t].udqueue)] = [t \in UdpSlots |-> Len(udptab[t].udqueue)]
  OBVIOUS
<1>2. Cardinality(InIpSend') = Cardinality(InIpSend)
  BY InIpSendNat
<1> QED BY <1>1, <1>2 DEF UdpBuffersConserved, InIpSend

LEMMA UdpInvInit == UdpInit => UdpInv
PROOF
<1> SUFFICES ASSUME UdpInit PROVE UdpInv
  OBVIOUS
<1>1. 0 \in UdpSlots /\ UdpBufs \in Nat
  BY UdpSizes DEF UdpSlots
<1>2. FreeEndpoint \in Endpoints /\ Out \in UdpCalls
  BY <1>1 DEF FreeEndpoint, Endpoints, Out, UdpCalls
<1>3. UdpTypeOK
  BY <1>1, <1>2 DEF UdpInit, UdpTypeOK
<1>4. /\ \A s \in UdpSlots : udptab[s].udstate = "FREE" /\ udptab[s].udqueue = <<>>
      /\ \A p \in Users : udpcall[p].at = "out"
  BY DEF UdpInit, FreeEndpoint, Out
<1>5. UdpBuffersConserved
  <2> DEFINE f == [s \in UdpSlots |-> Len(udptab[s].udqueue)]
  <2>1. f \in [UdpSlots -> Int] /\ \A s \in UdpSlots : f[s] = 0
    BY <1>4
  <2>3. InIpSend = {} /\ udpfree = UdpBufs
    BY <1>4 DEF InIpSend, UdpInit
  <2>4. SUFFICES udpfree + UdpSum(f) + Cardinality(InIpSend) = UdpBufs
    BY DEF UdpBuffersConserved, InIpSend
  <2> HIDE DEF f
  <2>5. UdpSum(f) = 0
    BY <2>1, UdpSumIs
  <2>6. Cardinality(InIpSend) = 0
    BY <2>3, FS_EmptySet
  <2> QED BY <1>1, <2>3, <2>5, <2>6
<1>6. QueuedWhenUsed /\ Undisturbed
  BY <1>4 DEF QueuedWhenUsed, Undisturbed, ReceiversKnown, OneReceives, NamedReceives, KeysDiffer,
     Receiving, UdpInit
<1> QED BY <1>3, <1>5, <1>6 DEF UdpInv

QueueStateSet(s, st, q) ==
  \/ udptab' = [udptab EXCEPT ![s].udqueue = q, ![s].udstate = st]
  \/ udptab' = [udptab EXCEPT ![s].udstate = st, ![s].udqueue = q]

LEMMA QueueAndState ==
  ASSUME UdpTypeOK, NEW s \in UdpSlots, NEW st \in {"FREE", "USED", "RECV"}, NEW q \in Seq(Keys),
         QueueStateSet(s, st, q)
  PROVE  \E e : IsChanged(s, e) /\ e.udstate = st /\ e.udqueue = q
PROOF
<1>1. udptab[s] \in Endpoints
  BY DEF UdpTypeOK
<1>2. \A t \in UdpSlots : t # s => udptab'[t] = udptab[t]
  BY DEF UdpTypeOK, QueueStateSet
<1>3. udptab'[s].udqueue = q /\ udptab'[s].udstate = st
  BY <1>1 DEF UdpTypeOK, Endpoints, QueueStateSet
<1>4. udptab'[s].key = udptab[s].key
  BY <1>1 DEF UdpTypeOK, Endpoints, QueueStateSet
<1>5. udptab' \in [UdpSlots -> Endpoints]
  <2>1. CASE udptab' = [udptab EXCEPT ![s].udqueue = q, ![s].udstate = st]
    BY <1>1, <2>1 DEF UdpTypeOK, Endpoints
  <2>2. CASE udptab' = [udptab EXCEPT ![s].udstate = st, ![s].udqueue = q]
    BY <1>1, <2>2 DEF UdpTypeOK, Endpoints
  <2> QED BY <2>1, <2>2 DEF QueueStateSet
<1>6. udptab' = [udptab EXCEPT ![s] = udptab'[s]]
  BY <1>2, <1>5 DEF UdpTypeOK
<1>7. IsChanged(s, udptab'[s])
  BY <1>4, <1>5, <1>6 DEF IsChanged
<1> QED BY <1>3, <1>7

StateSet(s, st) == udptab' = [udptab EXCEPT ![s].udstate = st]

LEMMA StateOnly ==
  ASSUME UdpTypeOK, NEW s \in UdpSlots, NEW st \in {"FREE", "USED", "RECV"}, StateSet(s, st)
  PROVE  \E e : IsChanged(s, e) /\ e.udstate = st /\ e.udqueue = udptab[s].udqueue
PROOF
<1>1. udptab[s] \in Endpoints
  BY DEF UdpTypeOK
<1>2. \A t \in UdpSlots : t # s => udptab'[t] = udptab[t]
  BY DEF UdpTypeOK, StateSet
<1>3. udptab'[s].udstate = st
  BY <1>1 DEF UdpTypeOK, Endpoints, StateSet
<1>4. udptab'[s].key = udptab[s].key /\ udptab'[s].udqueue = udptab[s].udqueue
  BY <1>1 DEF UdpTypeOK, Endpoints, StateSet
<1>5. udptab' \in [UdpSlots -> Endpoints]
  BY <1>1 DEF UdpTypeOK, Endpoints, StateSet
<1>6. udptab' = [udptab EXCEPT ![s] = udptab'[s]]
  BY <1>2, <1>5 DEF UdpTypeOK
<1>7. IsChanged(s, udptab'[s])
  BY <1>4, <1>5, <1>6 DEF IsChanged
<1> QED BY <1>3, <1>4, <1>7

StatePidSet(s, st, id) == udptab' = [udptab EXCEPT ![s].udstate = st, ![s].udpid = id]

LEMMA StateAndPid ==
  ASSUME UdpTypeOK, NEW s \in UdpSlots, NEW st \in {"FREE", "USED", "RECV"},
         NEW id \in Users, StatePidSet(s, st, id)
  PROVE  \E e : /\ IsChanged(s, e) /\ e.udstate = st /\ e.udpid = id
                /\ e.udqueue = udptab[s].udqueue
PROOF
<1>1. udptab[s] \in Endpoints
  BY DEF UdpTypeOK
<1>2. \A t \in UdpSlots : t # s => udptab'[t] = udptab[t]
  BY DEF UdpTypeOK, StatePidSet
<1>3. udptab'[s].udpid = id /\ udptab'[s].udstate = st
  BY <1>1 DEF UdpTypeOK, Endpoints, StatePidSet
<1>4. udptab'[s].key = udptab[s].key /\ udptab'[s].udqueue = udptab[s].udqueue
  BY <1>1 DEF UdpTypeOK, Endpoints, StatePidSet
<1>5. udptab' \in [UdpSlots -> Endpoints]
  BY <1>1 DEF UdpTypeOK, Endpoints, StatePidSet
<1>6. udptab' = [udptab EXCEPT ![s] = udptab'[s]]
  BY <1>2, <1>5 DEF UdpTypeOK
<1>7. IsChanged(s, udptab'[s])
  BY <1>4, <1>5, <1>6 DEF IsChanged
<1> QED BY <1>3, <1>4, <1>7

(* What every step does that changes one endpoint and keeps its key. *)
LEMMA EndpointStep ==
  ASSUME UdpInv, NEW s \in UdpSlots, NEW e, IsChanged(s, e),
         e.udstate # "USED" => e.udqueue = <<>>,
         udpcall' \in [Users -> UdpCalls], udpmsg' \in [Users -> {"none", "OK", "word"}],
         udpfree' \in Nat, udpwild' \in BOOLEAN, disturbed' \in BOOLEAN
  PROVE  /\ UdpTypeOK' /\ QueuedWhenUsed'
         /\ KeysDiffer /\ udptab[s].udstate # "FREE" => KeysDiffer'
         /\ udptab'[s] = e
         /\ \A t \in UdpSlots : t # s => udptab'[t] = udptab[t]
PROOF
<1>1. UdpTypeOK /\ QueuedWhenUsed
  BY DEF UdpInv
<1>2. /\ udptab' \in [UdpSlots -> Endpoints]
      /\ udptab'[s] = e /\ e.key = udptab[s].key
      /\ \A t \in UdpSlots : t # s => udptab'[t] = udptab[t]
  BY <1>1 DEF UdpTypeOK, IsChanged
<1>3. UdpTypeOK'
  BY <1>2 DEF UdpTypeOK
<1>4. QueuedWhenUsed'
  BY <1>1, <1>2 DEF QueuedWhenUsed
<1>5. ASSUME KeysDiffer, udptab[s].udstate # "FREE" PROVE KeysDiffer'
  <2>1. \A t \in UdpSlots : /\ udptab'[t].key = udptab[t].key
                            /\ udptab'[t].udstate # "FREE" => udptab[t].udstate # "FREE"
    BY <1>2, <1>5
  <2> QED BY <1>5, <2>1 DEF KeysDiffer
<1> QED BY <1>2, <1>3, <1>4, <1>5

LEMMA UdpInInv ==
  ASSUME UdpInv, NEW k \in Keys, UdpIn(k)
  PROVE  UdpInv'
PROOF
<1>t. UdpTypeOK /\ QueuedWhenUsed /\ UdpBuffersConserved
  BY DEF UdpInv
<1> DEFINE S == Min(Takers(k))
<1>1. S \in Takers(k) /\ S \in UdpSlots
  <2>1. Takers(k) \in SUBSET UdpSlots /\ Takers(k) # {}
    BY DEF Takers, Registered, UdpIn
  <2> QED BY <2>1, LowestSlot
<1>2. /\ udptab' = [udptab EXCEPT ![S].udqueue = Append(udptab[S].udqueue, k),
                                  ![S].udstate = "USED"]
      /\ ~udpwild /\ udpfree > 0 /\ udpfree' = udpfree - 1
      /\ udpmsg' = [p \in Users |-> IF p = Told(udptab[S]) /\ udpmsg[p] = "none"
                                    THEN "OK" ELSE udpmsg[p]]
      /\ udpcall' = udpcall /\ udpwild' = udpwild /\ disturbed' = disturbed
  BY <1>1 DEF UdpIn
<1> HIDE DEF S
<1>3. PICK s \in UdpSlots : s = S
  BY <1>1
<1> DEFINE q == Append(udptab[s].udqueue, k)
<1>4. /\ udptab[s] \in Endpoints /\ udptab[s].udqueue \in Seq(Keys)
      /\ udptab[s].udpid \in Users \cup {"none"}
  BY <1>t DEF UdpTypeOK, Endpoints
<1>5. q \in Seq(Keys) /\ q # <<>> /\ Len(q) = Len(udptab[s].udqueue) + 1
  BY <1>4
<1>6. PICK e : IsChanged(s, e) /\ e.udstate = "USED" /\ e.udqueue = q
  <2>1. QueueStateSet(s, "USED", q)
    BY <1>2, <1>3 DEF QueueStateSet
  <2> HIDE DEF q
  <2> QED BY <1>t, <1>5, <2>1, QueueAndState
<1> HIDE DEF q
<1>7. /\ udpfree' \in Nat /\ udpcall' \in [Users -> UdpCalls] /\ udpwild' = FALSE
      /\ udpmsg' \in [Users -> {"none", "OK", "word"}] /\ disturbed' \in BOOLEAN
  BY <1>t, <1>2 DEF UdpTypeOK
<1>8. /\ UdpTypeOK' /\ QueuedWhenUsed'
      /\ KeysDiffer /\ udptab[s].udstate # "FREE" => KeysDiffer'
      /\ udptab'[s] = e
      /\ \A t \in UdpSlots : t # s => udptab'[t] = udptab[t]
  BY <1>6, <1>7, EndpointStep
<1>9. UdpBuffersConserved'
  <2>1. udpfree' + Len(e.udqueue) = udpfree + Len(udptab[s].udqueue)
    <3>1. udpfree \in Nat /\ Len(udptab[s].udqueue) \in Nat
      BY <1>t, <1>4 DEF UdpTypeOK
    <3>2. (udpfree - 1) + Len(e.udqueue) = udpfree + Len(udptab[s].udqueue)
      BY SMTT(30), <1>5, <1>6, <3>1
    <3> QED BY ONLY <1>2, <3>2, Zenon
  <2> QED BY <1>t, <1>2, <1>6, <1>8, <2>1, UdpBuffersQueued, Zenon
<1>10. ASSUME ~disturbed PROVE Undisturbed'
  <2>1. ReceiversKnown /\ OneReceives /\ NamedReceives /\ KeysDiffer
    BY <1>10 DEF UdpInv, Undisturbed
  <2>2. \A p, t : Receiving(p, t)' <=> Receiving(p, t)
    BY <1>2 DEF Receiving
  <2>3. KeysDiffer'
    BY <1>1, <1>3, <1>8, <2>1 DEF Takers, Registered
  <2>4. OneReceives'
    BY <2>1, <2>2 DEF OneReceives
  <2>5. NamedReceives'
    BY <1>6, <1>8, <2>1, <2>2 DEF NamedReceives
  <2>6. ReceiversKnown'
    <3> SUFFICES ASSUME NEW p \in Users, NEW t \in UdpSlots, Receiving(p, t)
                 PROVE  ReceiverKnown(p, t)'
      BY <2>2 DEF ReceiversKnown
    <3>1. ReceiverKnown(p, t)
      BY <2>1 DEF ReceiversKnown
    <3>2. CASE t = s
      <4>1. udpmsg'[p] # "none"
        BY <1>2, <1>3, <3>1, <3>2 DEF ReceiverKnown, Told
      <4> QED BY <1>5, <1>6, <1>8, <3>2, <4>1 DEF ReceiverKnown
    <3>3. CASE t # s
      <4>1. p # Told(udptab[s])
        <5> SUFFICES ASSUME p = Told(udptab[s]) PROVE FALSE
          OBVIOUS
        <5>1. CASE udptab[s].udstate = "RECV"
          <6>1. p = udptab[s].udpid
            BY <5>1 DEF Told
          <6>2. Receiving(p, s)
            BY <2>1, <5>1, <6>1 DEF NamedReceives
          <6> QED BY <3>3, <6>2 DEF Receiving
        <5>2. CASE udptab[s].udstate # "RECV"
          BY <5>2, UdpSizes DEF Told
        <5> QED BY <5>1, <5>2
      <4>2. udpmsg'[p] = udpmsg[p]
        BY <1>2, <1>3, <4>1
      <4> QED BY <1>8, <3>1, <3>3, <4>2 DEF ReceiverKnown
    <3> QED BY <3>2, <3>3
  <2> QED BY <1>7, <2>1, <2>3, <2>4, <2>5, <2>6 DEF Undisturbed
<1> QED BY <1>2, <1>8, <1>9, <1>10 DEF UdpInv
(* A slot where nobody receives any more, the others as they were. *)
LEMMA NobodyThere ==
  ASSUME Undisturbed, NEW s \in UdpSlots, udptab'[s].udstate # "RECV",
         \A t \in UdpSlots : t # s => udptab'[t] = udptab[t],
         \A q \in Users : ~Receiving(q, s)',
         \A q \in Users, t \in UdpSlots : t # s =>
           (Receiving(q, t)' <=> Receiving(q, t)) /\ (Receiving(q, t) => udpmsg'[q] = udpmsg[q])
  PROVE  ReceiversKnown' /\ OneReceives' /\ NamedReceives'
PROOF
<1>1. ReceiversKnown /\ OneReceives /\ NamedReceives
  BY DEF Undisturbed
<1>2. ReceiversKnown'
  BY <1>1 DEF ReceiversKnown, ReceiverKnown
<1>3. OneReceives'
  BY <1>1 DEF OneReceives
<1>4. NamedReceives'
  BY <1>1 DEF NamedReceives
<1> QED BY <1>2, <1>3, <1>4

LEMMA ReceiverOfIs ==
  ASSUME UdpTypeOK, NEW s \in UdpSlots, ReceiverOf(s) = {}, NEW p \in Users
  PROVE  ~Receiving(p, s)
PROOF
<1>1. udpcall[p] \in UdpCalls
  BY DEF UdpTypeOK
<1>2. Receiving(p, s) => udpcall[p] = [at |-> "recv", slot |-> s]
  BY <1>1 DEF Receiving, UdpCalls
<1> QED BY <1>2 DEF ReceiverOf

LEMMA UdpRegisterInv ==
  ASSUME UdpInv, NEW p \in Users, NEW k \in Keys, UdpRegister(p, k)
  PROVE  UdpInv'
PROOF
<1>t. UdpTypeOK /\ QueuedWhenUsed /\ UdpBuffersConserved
  BY DEF UdpInv
<1>1. PICK s \in UdpSlots : s \notin Registered /\ s = Min(UdpSlots \ Registered)
  <2>1. (UdpSlots \ Registered) \in SUBSET UdpSlots /\ UdpSlots \ Registered # {}
    BY DEF Registered, UdpRegister
  <2> QED BY <2>1, LowestSlot
<1>2. PICK e \in Endpoints : e = [udstate |-> "USED", key |-> k, udpid |-> "none", udqueue |-> <<>>]
  <2>1. [udstate |-> "USED", key |-> k, udpid |-> "none", udqueue |-> <<>>] \in Endpoints
    BY DEF Endpoints
  <2> QED BY <2>1
<1>3. /\ udptab' = [udptab EXCEPT ![s] = e]
      /\ k \notin KeysTaken
      /\ udpmsg' = udpmsg /\ udpcall' = udpcall /\ udpfree' = udpfree
      /\ udpwild' = udpwild /\ disturbed' = disturbed
  BY <1>1, <1>2 DEF UdpRegister
<1>4. udptab[s].udstate = "FREE" /\ udptab[s].udqueue = <<>>
  BY <1>t, <1>1 DEF Registered, QueuedWhenUsed
<1>5. /\ udptab' \in [UdpSlots -> Endpoints] /\ udptab'[s] = e
      /\ \A t \in UdpSlots : t # s => udptab'[t] = udptab[t]
  BY <1>t, <1>3 DEF UdpTypeOK
<1>6. UdpTypeOK'
  BY <1>t, <1>3, <1>5 DEF UdpTypeOK
<1>7. e.udstate = "USED" /\ e.key = k /\ e.udqueue = <<>>
  BY <1>2
<1>8. QueuedWhenUsed'
  BY <1>t, <1>5, <1>7 DEF QueuedWhenUsed
<1>9. UdpBuffersConserved'
  <2>1. \A t \in UdpSlots : udptab'[t].udqueue = udptab[t].udqueue
    BY <1>4, <1>5, <1>7
  <2>2. InIpSend' = InIpSend
    BY <1>3 DEF InIpSend
  <2>3. Cardinality(InIpSend') = Cardinality(InIpSend)
    BY <2>2
  <2> QED BY <1>t, <1>3, <1>6, <2>1, <2>3, InIpSendNat, UdpBuffersHeld
<1>10. ASSUME ~disturbed PROVE Undisturbed'
  <2>1. Undisturbed
    BY <1>10 DEF UdpInv
  <2>2. \A q, t : Receiving(q, t)' <=> Receiving(q, t)
    BY <1>3 DEF Receiving
  <2>3. \A q \in Users : ~Receiving(q, s)
    BY <1>4, <2>1 DEF Undisturbed, ReceiversKnown, ReceiverKnown
  <2>4. ReceiversKnown' /\ OneReceives' /\ NamedReceives'
    BY <1>3, <1>5, <1>7, <2>1, <2>2, <2>3, NobodyThere
  <2>5. KeysDiffer'
    <3>1. \A t \in UdpSlots : t # s /\ udptab[t].udstate # "FREE" => udptab[t].key # k
      BY <1>3 DEF KeysTaken, Registered
    <3> QED BY <1>5, <1>7, <2>1, <3>1 DEF Undisturbed, KeysDiffer
  <2> QED BY <1>3, <2>1, <2>4, <2>5 DEF Undisturbed
<1> QED BY <1>3, <1>6, <1>8, <1>9, <1>10 DEF UdpInv

(* A packet that is there is taken. *)
LEMMA Dequeued ==
  ASSUME UdpInv, NEW s \in UdpSlots, udptab[s].udqueue # <<>>, Dequeue(s)
  PROVE  /\ udpwild' = udpwild /\ udpfree' = udpfree + 1
         /\ \E e : /\ IsChanged(s, e) /\ e.udstate = "USED" /\ e.udqueue \in Seq(Keys)
                   /\ Len(e.udqueue) = Len(udptab[s].udqueue) - 1
PROOF
<1>t. UdpTypeOK
  BY DEF UdpInv
<1>1. udptab[s].udqueue \in Seq(Keys)
  BY <1>t DEF UdpTypeOK, Endpoints
<1>2. PICK q : q = Tail(udptab[s].udqueue)
  OBVIOUS
<1>3. q \in Seq(Keys) /\ Len(q) = Len(udptab[s].udqueue) - 1
  BY <1>1, <1>2
<1>4. /\ udptab' = [udptab EXCEPT ![s].udqueue = Tail(@), ![s].udstate = "USED"]
      /\ udpwild' = udpwild /\ udpfree' = udpfree + 1
  BY DEF Dequeue
<1>5. QueueStateSet(s, "USED", q)
  BY <1>2, <1>4 DEF QueueStateSet
<1>6. \E e : IsChanged(s, e) /\ e.udstate = "USED" /\ e.udqueue = q
  BY <1>t, <1>3, <1>5, QueueAndState
<1> QED BY <1>3, <1>4, <1>6

LEMMA UdpRecvInv ==
  ASSUME UdpInv, NEW p \in Users, NEW s \in UdpSlots, UdpRecv(p, s)
  PROVE  UdpInv'
PROOF
<1>t. UdpTypeOK /\ QueuedWhenUsed /\ UdpBuffersConserved
  BY DEF UdpInv
<1>1. /\ udptab[s].udstate = "USED" /\ udptab[s].udqueue # <<>> /\ Dequeue(s)
      /\ disturbed' = (disturbed \/ ReceiverOf(s) # {})
      /\ udpcall' = udpcall /\ udpmsg' = udpmsg
  BY DEF UdpRecv
<1>2. udpwild' = udpwild /\ udpfree' = udpfree + 1
  BY <1>1, Dequeued
<1>3. PICK e : /\ IsChanged(s, e) /\ e.udstate = "USED" /\ e.udqueue \in Seq(Keys)
               /\ Len(e.udqueue) = Len(udptab[s].udqueue) - 1
  BY <1>1, Dequeued
<1>4. /\ udpfree' \in Nat /\ udpcall' \in [Users -> UdpCalls] /\ udpwild' \in BOOLEAN
      /\ udpmsg' \in [Users -> {"none", "OK", "word"}] /\ disturbed' \in BOOLEAN
  BY <1>t, <1>1, <1>2 DEF UdpTypeOK
<1>5. /\ UdpTypeOK' /\ QueuedWhenUsed'
      /\ KeysDiffer /\ udptab[s].udstate # "FREE" => KeysDiffer'
      /\ udptab'[s] = e
      /\ \A t \in UdpSlots : t # s => udptab'[t] = udptab[t]
  BY <1>3, <1>4, EndpointStep
<1>6. UdpBuffersConserved'
  <2>1. udpfree' + Len(e.udqueue) = udpfree + Len(udptab[s].udqueue)
    <3>1. /\ {udpfree, Len(udptab[s].udqueue), Len(e.udqueue)} \subseteq Int
          /\ Len(e.udqueue) = Len(udptab[s].udqueue) - 1
      BY <1>t, <1>3 DEF UdpTypeOK, Endpoints
    <3>2. (udpfree + 1) + Len(e.udqueue) = udpfree + Len(udptab[s].udqueue)
      BY ONLY <3>1
    <3> QED BY ONLY <1>2, <3>2, Zenon
  <2> QED BY <1>t, <1>1, <1>3, <1>5, <2>1, UdpBuffersQueued, Zenon
<1>7. ASSUME ~disturbed' PROVE Undisturbed'
  <2>1. Undisturbed /\ ReceiverOf(s) = {}
    BY <1>1, <1>7 DEF UdpInv
  <2>2. \A q, t : Receiving(q, t)' <=> Receiving(q, t)
    BY <1>1 DEF Receiving
  <2>3. \A q \in Users : ~Receiving(q, s)
    BY <1>t, <2>1, ReceiverOfIs
  <2>4. ReceiversKnown' /\ OneReceives' /\ NamedReceives'
    BY <1>1, <1>3, <1>5, <2>1, <2>2, <2>3, NobodyThere
  <2> QED BY <1>1, <1>2, <1>5, <2>1, <2>4 DEF Undisturbed
<1> QED BY <1>5, <1>6, <1>7 DEF UdpInv

LEMMA UdpReleaseInv ==
  ASSUME UdpInv, NEW p \in Users, NEW s \in UdpSlots, UdpRelease(p, s)
  PROVE  UdpInv'
PROOF
<1>t. UdpTypeOK /\ QueuedWhenUsed /\ UdpBuffersConserved
  BY DEF UdpInv
<1>1. /\ QueueStateSet(s, "FREE", <<>>) /\ udptab[s].udstate # "FREE"
      /\ udpfree' = udpfree + Len(udptab[s].udqueue)
      /\ disturbed' = (disturbed \/ ReceiverOf(s) # {})
      /\ udpcall' = udpcall /\ udpmsg' = udpmsg /\ udpwild' = udpwild
  BY DEF UdpRelease, QueueStateSet, Registered, Drained
<1>2. <<>> \in Seq(Keys)
  OBVIOUS
<1>3. PICK e : IsChanged(s, e) /\ e.udstate = "FREE" /\ e.udqueue = <<>>
  <2>1. PICK q \in Seq(Keys) : q = <<>>
    BY <1>2
  <2>2. QueueStateSet(s, "FREE", q)
    BY <1>1, <2>1
  <2>3. \E e : IsChanged(s, e) /\ e.udstate = "FREE" /\ e.udqueue = q
    BY <1>t, <2>2, QueueAndState
  <2> QED BY <2>1, <2>3
<1>4. Len(udptab[s].udqueue) \in Nat /\ Len(e.udqueue) = 0
  BY <1>t, <1>3 DEF UdpTypeOK, Endpoints
<1>5. /\ udpfree' \in Nat /\ udpcall' \in [Users -> UdpCalls] /\ udpwild' \in BOOLEAN
      /\ udpmsg' \in [Users -> {"none", "OK", "word"}] /\ disturbed' \in BOOLEAN
  BY <1>t, <1>1, <1>4 DEF UdpTypeOK
<1>6. /\ UdpTypeOK' /\ QueuedWhenUsed'
      /\ KeysDiffer => KeysDiffer'
      /\ udptab'[s] = e
      /\ \A t \in UdpSlots : t # s => udptab'[t] = udptab[t]
  BY <1>1, <1>3, <1>5, EndpointStep
<1>7. UdpBuffersConserved'
  <2>1. udpfree' + Len(e.udqueue) = udpfree + Len(udptab[s].udqueue)
    <3>1. /\ {udpfree, Len(udptab[s].udqueue), Len(e.udqueue)} \subseteq Int
          /\ Len(e.udqueue) = 0
      BY <1>t, <1>4 DEF UdpTypeOK
    <3>2. (udpfree + Len(udptab[s].udqueue)) + Len(e.udqueue) = udpfree + Len(udptab[s].udqueue)
      BY ONLY <3>1
    <3> QED BY ONLY <1>1, <3>2, Zenon
  <2> QED BY <1>t, <1>1, <1>3, <1>6, <2>1, UdpBuffersQueued, Zenon
<1>8. ASSUME ~disturbed' PROVE Undisturbed'
  <2>1. Undisturbed /\ ReceiverOf(s) = {}
    BY <1>1, <1>8 DEF UdpInv
  <2>2. \A q, t : Receiving(q, t)' <=> Receiving(q, t)
    BY <1>1 DEF Receiving
  <2>3. \A q \in Users : ~Receiving(q, s)
    BY <1>t, <2>1, ReceiverOfIs
  <2>4. ReceiversKnown' /\ OneReceives' /\ NamedReceives'
    BY <1>1, <1>3, <1>6, <2>1, <2>2, <2>3, NobodyThere
  <2> QED BY <1>1, <1>6, <2>1, <2>4 DEF Undisturbed
<1> QED BY <1>6, <1>7, <1>8 DEF UdpInv

LEMMA UdpRecvBlocksInv ==
  ASSUME UdpInv, NEW p \in Users, NEW s \in UdpSlots, UdpRecvBlocks(p, s)
  PROVE  UdpInv'
PROOF
<1>t. UdpTypeOK /\ QueuedWhenUsed /\ UdpBuffersConserved
  BY DEF UdpInv
<1>1. /\ udptab' = [udptab EXCEPT ![s].udstate = "RECV", ![s].udpid = p]
      /\ udptab[s].udstate = "USED" /\ udptab[s].udqueue = <<>>
      /\ udpcall[p] = Out
      /\ udpcall' = [udpcall EXCEPT ![p] = [at |-> "recv", slot |-> s]]
      /\ udpmsg' = [udpmsg EXCEPT ![p] = "none"]
      /\ udpfree' = udpfree /\ udpwild' = udpwild /\ disturbed' = disturbed
  BY DEF UdpRecvBlocks, MsgCleared
<1>2. PICK e : IsChanged(s, e) /\ e.udstate = "RECV" /\ e.udpid = p /\ e.udqueue = <<>>
  <2>1. \E e : /\ IsChanged(s, e) /\ e.udstate = "RECV" /\ e.udpid = p
               /\ e.udqueue = udptab[s].udqueue
    <3>1. StatePidSet(s, "RECV", p)
      BY <1>1 DEF StatePidSet
    <3> QED BY <1>t, <3>1, StateAndPid
  <2> QED BY <1>1, <2>1
<1>3. PICK c \in UdpCalls : c = [at |-> "recv", slot |-> s]
  BY DEF UdpCalls
<1>4. /\ udpcall' \in [Users -> UdpCalls] /\ udpmsg' \in [Users -> {"none", "OK", "word"}]
      /\ \A q \in Users : /\ udpcall'[q] = IF q = p THEN c ELSE udpcall[q]
                          /\ udpmsg'[q] = IF q = p THEN "none" ELSE udpmsg[q]
      /\ udpfree' \in Nat /\ udpwild' \in BOOLEAN /\ disturbed' \in BOOLEAN
  BY <1>t, <1>1, <1>3 DEF UdpTypeOK
<1>5. /\ UdpTypeOK' /\ QueuedWhenUsed'
      /\ KeysDiffer => KeysDiffer'
      /\ udptab'[s] = e
      /\ \A t \in UdpSlots : t # s => udptab'[t] = udptab[t]
  BY <1>1, <1>2, <1>4, EndpointStep
<1>6. UdpBuffersConserved'
  <2>1. \A t \in UdpSlots : udptab'[t].udqueue = udptab[t].udqueue
    BY <1>1, <1>2, <1>5
  <2>2. InIpSend' = InIpSend
    BY <1>1, <1>3, <1>4 DEF InIpSend, Out
  <2>3. Cardinality(InIpSend') = Cardinality(InIpSend)
    BY <2>2
  <2> QED BY <1>t, <1>1, <1>5, <2>1, <2>3, InIpSendNat, UdpBuffersHeld
<1>7. ASSUME ~disturbed PROVE Undisturbed'
  <2>1. Undisturbed /\ ReceiversKnown /\ OneReceives /\ NamedReceives /\ KeysDiffer
    BY <1>7 DEF UdpInv, Undisturbed
  <2>2. \A q \in Users : ~Receiving(q, s)
    <3> SUFFICES ASSUME NEW q \in Users, Receiving(q, s) PROVE FALSE
      OBVIOUS
    <3> QED BY <1>1, <2>1 DEF ReceiversKnown, ReceiverKnown
  <2>3. \A q \in Users, t \in UdpSlots :
          Receiving(q, t)' <=> Receiving(q, t) \/ (q = p /\ t = s)
    BY <1>1, <1>3, <1>4 DEF Receiving, Out
  <2>4. OneReceives'
    BY <2>1, <2>2, <2>3 DEF OneReceives
  <2>5. NamedReceives'
    BY <1>2, <1>5, <2>1, <2>3 DEF NamedReceives
  <2>6. ReceiversKnown'
    <3> SUFFICES ASSUME NEW q \in Users, NEW t \in UdpSlots, Receiving(q, t)'
                 PROVE  ReceiverKnown(q, t)'
      BY DEF ReceiversKnown
    <3>1. CASE q = p /\ t = s
      BY <1>2, <1>4, <1>5, <3>1 DEF ReceiverKnown
    <3>2. CASE Receiving(q, t)
      <4>1. q # p /\ t # s
        BY <1>1, <2>2, <3>2 DEF Receiving, Out
      <4>2. ReceiverKnown(q, t)
        BY <2>1, <3>2 DEF ReceiversKnown
      <4> QED BY <1>4, <1>5, <4>1, <4>2 DEF ReceiverKnown
    <3> QED BY <2>3, <3>1, <3>2
  <2> QED BY <1>1, <1>5, <2>1, <2>4, <2>5, <2>6 DEF Undisturbed
<1> QED BY <1>1, <1>5, <1>6, <1>7 DEF UdpInv
(* A receiver returns to its caller: nothing is on its way out because of that. *)
LEMMA ReceiverReturns ==
  ASSUME UdpInv, NEW p \in Users, udpcall[p].at = "recv", Returns(p)
  PROVE  /\ udpcall' \in [Users -> UdpCalls] /\ udpcall[p].slot \in UdpSlots
         /\ Cardinality(InIpSend') = Cardinality(InIpSend) + 0
         /\ \A q \in Users, t \in UdpSlots :
              Receiving(q, t)' <=> Receiving(q, t) /\ q # p
PROOF
<1>1. udpcall \in [Users -> UdpCalls]
  BY DEF UdpInv, UdpTypeOK
<1>2. Out \in UdpCalls /\ udpcall[p].slot \in UdpSlots
  BY <1>1, UdpSizes DEF Out, UdpCalls, UdpSlots
<1>3. \A q \in Users : udpcall'[q] = IF q = p THEN Out ELSE udpcall[q]
  BY <1>1 DEF Returns
<1>4. udpcall' \in [Users -> UdpCalls]
  BY <1>1, <1>2 DEF Returns
<1>5. InIpSend' = InIpSend
  BY <1>3 DEF InIpSend, Out
<1>6. Cardinality(InIpSend') = Cardinality(InIpSend) + 0
  BY <1>5, InIpSendNat
<1>7. \A q \in Users, t \in UdpSlots : Receiving(q, t)' <=> Receiving(q, t) /\ q # p
  BY <1>3 DEF Receiving, Out
<1> QED BY <1>2, <1>4, <1>6, <1>7

LEMMA UdpReceiverKilledInv ==
  ASSUME UdpInv, NEW p \in Users, UdpReceiverKilled(p)
  PROVE  UdpInv'
PROOF
<1>t. UdpTypeOK /\ QueuedWhenUsed /\ UdpBuffersConserved
  BY DEF UdpInv
<1>1. /\ udpcall[p].at = "recv" /\ Returns(p)
      /\ udpmsg' = [udpmsg EXCEPT ![p] = "none"] /\ disturbed' = TRUE
      /\ udptab' = udptab /\ udpfree' = udpfree /\ udpwild' = udpwild
  BY DEF UdpReceiverKilled
<1>2. /\ udpcall' \in [Users -> UdpCalls]
      /\ Cardinality(InIpSend') = Cardinality(InIpSend) + 0
  BY <1>1, ReceiverReturns
<1>3. UdpTypeOK'
  BY <1>t, <1>1, <1>2 DEF UdpTypeOK
<1>4. QueuedWhenUsed'
  BY <1>t, <1>1 DEF QueuedWhenUsed
<1>5. UdpBuffersConserved'
  BY <1>t, <1>1, <1>2, <1>3, UdpBuffersUntouched
<1> QED BY <1>1, <1>3, <1>4, <1>5 DEF UdpInv

LEMMA UdpOtherMessageInv ==
  ASSUME UdpInv, NEW p \in Users, UdpOtherMessage(p)
  PROVE  UdpInv'
PROOF
<1>t. UdpTypeOK /\ QueuedWhenUsed /\ UdpBuffersConserved
  BY DEF UdpInv
<1>1. /\ udpmsg[p] = "none" /\ udpmsg' = [udpmsg EXCEPT ![p] = "word"]
      /\ udptab' = udptab /\ udpcall' = udpcall
      /\ udpfree' = udpfree /\ udpwild' = udpwild /\ disturbed' = disturbed
  BY DEF UdpOtherMessage
<1>2. /\ udpmsg' \in [Users -> {"none", "OK", "word"}]
      /\ \A q \in Users : udpmsg'[q] = IF q = p THEN "word" ELSE udpmsg[q]
  BY <1>t, <1>1 DEF UdpTypeOK
<1>3. UdpTypeOK'
  BY <1>t, <1>1, <1>2 DEF UdpTypeOK
<1>4. QueuedWhenUsed'
  BY <1>t, <1>1 DEF QueuedWhenUsed
<1>5. UdpBuffersConserved'
  BY <1>t, <1>1, <1>3, InIpSendNat, UdpBuffersUntouched
<1>6. ASSUME Undisturbed PROVE Undisturbed'
  <2>1. \A q, t : Receiving(q, t)' <=> Receiving(q, t)
    BY <1>1 DEF Receiving
  <2>2. ReceiversKnown'
    BY <1>1, <1>2, <1>6, <2>1 DEF Undisturbed, ReceiversKnown, ReceiverKnown
  <2> QED BY <1>1, <1>6, <2>1, <2>2 DEF Undisturbed, OneReceives, NamedReceives, KeysDiffer
<1> QED BY <1>1, <1>3, <1>4, <1>5, <1>6 DEF UdpInv

(* A step of a sender, who receives neither before nor after. *)
LEMMA SenderSteps ==
  ASSUME UdpInv, NEW p \in Users, NEW c \in UdpCalls, udpcall' = [udpcall EXCEPT ![p] = c],
         c.at # "recv", udpcall[p].at # "recv",
         udptab' = udptab, udpmsg' = udpmsg, udpwild' = udpwild, disturbed' = disturbed,
         udpfree' \in Nat,
         Cardinality(InIpSend') + udpfree' = Cardinality(InIpSend) + udpfree
  PROVE  UdpInv'
PROOF
<1>t. UdpTypeOK /\ QueuedWhenUsed /\ UdpBuffersConserved
  BY DEF UdpInv
<1>1. /\ udpcall' \in [Users -> UdpCalls]
      /\ \A q \in Users : udpcall'[q] = IF q = p THEN c ELSE udpcall[q]
  BY <1>t DEF UdpTypeOK
<1>2. UdpTypeOK'
  BY <1>t, <1>1 DEF UdpTypeOK
<1>3. QueuedWhenUsed'
  BY <1>t DEF QueuedWhenUsed
<1>4. UdpBuffersConserved'
  <2>1. InIpSend \subseteq Users /\ InIpSend' \subseteq Users /\ IsFiniteSet(Users)
    BY UdpSizes DEF InIpSend
  <2>2. {Cardinality(InIpSend), Cardinality(InIpSend')} \subseteq Nat
    BY <2>1, FS_Subset, FS_CardinalityType
  <2>3. \A t \in UdpSlots : udptab'[t].udqueue = udptab[t].udqueue
    OBVIOUS
  <2> QED BY ONLY <1>t, <1>2, <2>2, <2>3,
                  Cardinality(InIpSend') + udpfree' = Cardinality(InIpSend) + udpfree,
                  UdpBuffersHeld, Zenon
<1>5. ASSUME Undisturbed PROVE Undisturbed'
  <2>1. \A q \in Users, t \in UdpSlots : Receiving(q, t)' <=> Receiving(q, t)
    BY <1>1 DEF Receiving
  <2>2. ReceiversKnown'
    BY <1>5, <2>1 DEF Undisturbed, ReceiversKnown, ReceiverKnown
  <2>3. OneReceives'
    BY <1>5, <2>1 DEF Undisturbed, OneReceives
  <2>4. NamedReceives'
    BY <1>5, <2>1 DEF Undisturbed, NamedReceives
  <2> QED BY <1>5, <2>2, <2>3, <2>4 DEF Undisturbed, KeysDiffer
<1> QED BY <1>2, <1>3, <1>4, <1>5 DEF UdpInv

LEMMA UdpSendInv ==
  ASSUME UdpInv, NEW p \in Users, NEW s \in UdpSlots, UdpSend(p, s)
  PROVE  UdpInv'
PROOF
<1>t. UdpTypeOK
  BY DEF UdpInv
<1>1. PICK c \in UdpCalls : c = [at |-> "getbuf", slot |-> 0]
  <2>1. [at |-> "getbuf", slot |-> 0] \in UdpCalls
    BY UdpSizes DEF UdpCalls, UdpSlots
  <2> QED BY <2>1
<1>2. /\ udpcall' = [udpcall EXCEPT ![p] = c] /\ udpcall[p] = Out
      /\ udptab' = udptab /\ udpmsg' = udpmsg /\ udpfree' = udpfree
      /\ udpwild' = udpwild /\ disturbed' = disturbed
  BY <1>1 DEF UdpSend
<1>3. c.at = "getbuf" /\ udpcall[p].at = "out"
  BY <1>1, <1>2 DEF Out
<1>4. Cardinality(InIpSend') = Cardinality(InIpSend)
  <2>1. \A q \in Users : udpcall'[q] = IF q = p THEN c ELSE udpcall[q]
    BY <1>t, <1>2 DEF UdpTypeOK
  <2>2. InIpSend' = InIpSend
    BY <1>3, <2>1 DEF InIpSend
  <2> QED BY <2>2
<1>5. udpfree' \in Nat
  BY <1>t, <1>2 DEF UdpTypeOK
<1>6. Cardinality(InIpSend') + udpfree' = Cardinality(InIpSend) + udpfree
  BY ONLY <1>2, <1>4, Zenon
<1>7. c.at # "recv" /\ udpcall[p].at # "recv"
  BY <1>3
<1> HIDE <1>1
<1> QED BY <1>2, <1>5, <1>6, <1>7, SenderSteps

LEMMA UdpSendGetsInv ==
  ASSUME UdpInv, NEW p \in Users, UdpSendGets(p)
  PROVE  UdpInv'
PROOF
<1>t. UdpTypeOK
  BY DEF UdpInv
<1>0. udpcall[p] \in UdpCalls
  BY <1>t DEF UdpTypeOK
<1>1. /\ udpcall' = [udpcall EXCEPT ![p] = [udpcall[p] EXCEPT !.at = "ip_send"]]
      /\ udpcall[p].at = "getbuf" /\ udpfree > 0 /\ udpfree' = udpfree - 1
      /\ udptab' = udptab /\ udpmsg' = udpmsg
      /\ udpwild' = udpwild /\ disturbed' = disturbed
  BY DEF UdpSendGets
<1>2. PICK c \in UdpCalls : c = [udpcall[p] EXCEPT !.at = "ip_send"] /\ c.at = "ip_send"
  <2>1. [udpcall[p] EXCEPT !.at = "ip_send"] \in UdpCalls
    BY <1>0 DEF UdpCalls
  <2>2. [udpcall[p] EXCEPT !.at = "ip_send"].at = "ip_send"
    BY <1>0 DEF UdpCalls
  <2> QED BY <2>1, <2>2
<1>3. udpcall' = [udpcall EXCEPT ![p] = c]
  BY <1>1, <1>2
<1>4. Cardinality(InIpSend') = Cardinality(InIpSend) + InSend(c) - InSend(udpcall[p])
  BY ONLY <1>t, <1>3, p \in Users, InIpSendChanges, Zenon
<1>5. InSend(c) = 1 /\ InSend(udpcall[p]) = 0
  BY <1>1, <1>2 DEF InSend
<1>6. {udpfree, udpfree'} \subseteq Nat
  BY <1>t, <1>1 DEF UdpTypeOK
<1>7. Cardinality(InIpSend') + udpfree' = Cardinality(InIpSend) + udpfree
  <2>1. Cardinality(InIpSend) \in Nat
    BY InIpSendNat
  <2>2. (Cardinality(InIpSend) + 1 - 0) + (udpfree - 1) = Cardinality(InIpSend) + udpfree
    BY <1>6, <2>1
  <2> QED BY ONLY <1>1, <1>4, <1>5, <2>2, Zenon
<1>8. c.at # "recv" /\ udpcall[p].at # "recv"
  BY <1>1, <1>2
<1> QED BY <1>1, <1>3, <1>6, <1>7, <1>8, SenderSteps

LEMMA UdpSentInv ==
  ASSUME UdpInv, NEW p \in Users, UdpSent(p)
  PROVE  UdpInv'
PROOF
<1>t. UdpTypeOK
  BY DEF UdpInv
<1>1. /\ udpcall' = [udpcall EXCEPT ![p] = Out]
      /\ udpcall[p].at = "ip_send" /\ udpfree' = udpfree + 1
      /\ udptab' = udptab /\ udpmsg' = udpmsg
      /\ udpwild' = udpwild /\ disturbed' = disturbed
  BY DEF UdpSent, Returns
<1>2. Out \in UdpCalls /\ Out.at = "out"
  BY UdpSizes DEF Out, UdpCalls, UdpSlots
<1>4. Cardinality(InIpSend') = Cardinality(InIpSend) + InSend(Out) - InSend(udpcall[p])
  BY ONLY <1>t, <1>1, p \in Users, InIpSendChanges, Zenon
<1>5. InSend(Out) = 0 /\ InSend(udpcall[p]) = 1
  BY <1>1, <1>2 DEF InSend
<1>6. {udpfree, udpfree'} \subseteq Nat
  BY <1>t, <1>1 DEF UdpTypeOK
<1>7. Cardinality(InIpSend') + udpfree' = Cardinality(InIpSend) + udpfree
  <2>1. Cardinality(InIpSend) \in Nat
    BY InIpSendNat
  <2>2. (Cardinality(InIpSend) + 0 - 1) + (udpfree + 1) = Cardinality(InIpSend) + udpfree
    BY <1>6, <2>1
  <2> QED BY ONLY <1>1, <1>4, <1>5, <2>2, Zenon
<1>8. Out.at # "recv" /\ udpcall[p].at # "recv"
  BY <1>1, <1>2
<1> QED BY <1>1, <1>2, <1>6, <1>7, <1>8, SenderSteps

(* The receiver at s returns, and leaves the endpoint in use. *)
LEMMA ReceiverGone ==
  ASSUME Undisturbed, NEW p \in Users, NEW s \in UdpSlots, Receiving(p, s),
         \A q \in Users, t \in UdpSlots : Receiving(q, t)' <=> Receiving(q, t) /\ q # p,
         udptab'[s].udstate = "USED",
         \A t \in UdpSlots : t # s => udptab'[t] = udptab[t],
         \A q \in Users : q # p => udpmsg'[q] = udpmsg[q]
  PROVE  ReceiversKnown' /\ OneReceives' /\ NamedReceives'
PROOF
<1>1. \A q \in Users : ~Receiving(q, s)'
  BY DEF Undisturbed, OneReceives
<1>2. \A t \in UdpSlots : t # s => ~Receiving(p, t)
  BY DEF Receiving
<1>3. \A q \in Users, t \in UdpSlots : t # s =>
        (Receiving(q, t)' <=> Receiving(q, t)) /\ (Receiving(q, t) => udpmsg'[q] = udpmsg[q])
  BY <1>2
<1> QED BY <1>1, <1>3, NobodyThere

LEMMA UdpRecvTimeoutInv ==
  ASSUME UdpInv, NEW p \in Users, UdpRecvTimeout(p)
  PROVE  UdpInv'
PROOF
<1>t. UdpTypeOK /\ QueuedWhenUsed /\ UdpBuffersConserved
  BY DEF UdpInv
<1>1. /\ udpcall[p].at = "recv" /\ udpmsg[p] = "none" /\ Returns(p)
      /\ udptab' = [udptab EXCEPT ![udpcall[p].slot].udstate = "USED"]
      /\ udpmsg' = udpmsg /\ udpfree' = udpfree /\ udpwild' = udpwild /\ disturbed' = disturbed
  BY DEF UdpRecvTimeout
<1>2. /\ udpcall' \in [Users -> UdpCalls] /\ udpcall[p].slot \in UdpSlots
      /\ Cardinality(InIpSend') = Cardinality(InIpSend) + 0
      /\ \A q \in Users, t \in UdpSlots : Receiving(q, t)' <=> Receiving(q, t) /\ q # p
  BY <1>1, ReceiverReturns
<1>3. PICK s \in UdpSlots : s = udpcall[p].slot
  BY <1>2
<1>4. StateSet(s, "USED")
  BY <1>1, <1>3 DEF StateSet
<1>5. PICK e : IsChanged(s, e) /\ e.udstate = "USED" /\ e.udqueue = udptab[s].udqueue
  BY <1>t, <1>4, StateOnly
<1>6. /\ udpfree' \in Nat /\ udpwild' \in BOOLEAN
      /\ udpmsg' \in [Users -> {"none", "OK", "word"}] /\ disturbed' \in BOOLEAN
  BY <1>t, <1>1 DEF UdpTypeOK
<1>7. /\ UdpTypeOK' /\ QueuedWhenUsed'
      /\ KeysDiffer /\ udptab[s].udstate # "FREE" => KeysDiffer'
      /\ udptab'[s] = e
      /\ \A t \in UdpSlots : t # s => udptab'[t] = udptab[t]
  BY <1>2, <1>5, <1>6, EndpointStep
<1>8. UdpBuffersConserved'
  <2>1. \A t \in UdpSlots : udptab'[t].udqueue = udptab[t].udqueue
    BY <1>5, <1>7
  <2> QED BY <1>t, <1>1, <1>2, <1>7, <2>1, UdpBuffersSame
<1>9. ASSUME Undisturbed PROVE Undisturbed'
  <2>1. Receiving(p, s)
    BY <1>1, <1>3 DEF Receiving
  <2>2. udptab[s].udstate = "RECV"
    BY <1>1, <1>9, <2>1 DEF Undisturbed, ReceiversKnown, ReceiverKnown
  <2>3. ReceiversKnown' /\ OneReceives' /\ NamedReceives'
    BY <1>1, <1>2, <1>5, <1>7, <1>9, <2>1, ReceiverGone
  <2> QED BY <1>1, <1>7, <1>9, <2>2, <2>3 DEF Undisturbed
<1> QED BY <1>1, <1>7, <1>8, <1>9 DEF UdpInv

LEMMA UdpRecvWakesInv ==
  ASSUME UdpInv, NEW p \in Users, UdpRecvWakes(p)
  PROVE  UdpInv'
PROOF
<1>t. UdpTypeOK /\ QueuedWhenUsed /\ UdpBuffersConserved
  BY DEF UdpInv
<1>1. /\ udpcall[p].at = "recv" /\ udpmsg[p] # "none" /\ Returns(p)
      /\ udpmsg' = [udpmsg EXCEPT ![p] = "none"] /\ disturbed' = disturbed /\ ~udpwild
  BY DEF UdpRecvWakes
<1>2. /\ udpcall' \in [Users -> UdpCalls] /\ udpcall[p].slot \in UdpSlots
      /\ Cardinality(InIpSend') = Cardinality(InIpSend) + 0
      /\ \A q \in Users, t \in UdpSlots : Receiving(q, t)' <=> Receiving(q, t) /\ q # p
  BY <1>1, ReceiverReturns
<1>3. PICK s \in UdpSlots : s = udpcall[p].slot
  BY <1>2
<1>4. /\ udpmsg' \in [Users -> {"none", "OK", "word"}] /\ disturbed' \in BOOLEAN
      /\ \A q \in Users : q # p => udpmsg'[q] = udpmsg[q]
  BY <1>t, <1>1 DEF UdpTypeOK
<1>5. Receiving(p, s)
  BY <1>1, <1>3 DEF Receiving
<1>6. CASE udpmsg[p] = "OK" /\ udptab[s].udqueue # <<>>
  <2>1. Dequeue(s)
    BY <1>3, <1>6 DEF UdpRecvWakes
  <2>2. udpwild' = udpwild /\ udpfree' = udpfree + 1
    BY <1>6, <2>1, Dequeued
  <2>3. PICK e : /\ IsChanged(s, e) /\ e.udstate = "USED" /\ e.udqueue \in Seq(Keys)
                 /\ Len(e.udqueue) = Len(udptab[s].udqueue) - 1
    BY <1>6, <2>1, Dequeued
  <2>4. udpfree' \in Nat /\ udpwild' \in BOOLEAN
    BY <1>t, <2>2 DEF UdpTypeOK
  <2>5. /\ UdpTypeOK' /\ QueuedWhenUsed'
        /\ KeysDiffer /\ udptab[s].udstate # "FREE" => KeysDiffer'
        /\ udptab'[s] = e
        /\ \A t \in UdpSlots : t # s => udptab'[t] = udptab[t]
    BY <1>2, <1>4, <2>3, <2>4, EndpointStep
  <2>6. UdpBuffersConserved'
    <3>1. udpfree' + Len(e.udqueue) + 0 = udpfree + Len(udptab[s].udqueue)
      <4>1. /\ {udpfree, Len(udptab[s].udqueue), Len(e.udqueue)} \subseteq Int
            /\ Len(e.udqueue) = Len(udptab[s].udqueue) - 1
        BY <1>t, <2>3 DEF UdpTypeOK, Endpoints
      <4>2. (udpfree + 1) + Len(e.udqueue) + 0 = udpfree + Len(udptab[s].udqueue)
        BY ONLY SMTT(30), <4>1
      <4> QED BY ONLY <2>2, <4>2, Zenon
    <3> QED BY ONLY <1>t, <1>2, <2>3, <2>5, <3>1, s \in UdpSlots, 0 \in Int,
                    UdpBuffersMove, Zenon
  <2>7. ASSUME Undisturbed PROVE Undisturbed'
    <3>1. udptab[s].udstate # "FREE"
      BY <1>5, <2>7 DEF Undisturbed, ReceiversKnown, ReceiverKnown
    <3>2. ReceiversKnown' /\ OneReceives' /\ NamedReceives'
      BY <1>2, <1>4, <1>5, <2>3, <2>5, <2>7, ReceiverGone
    <3> QED BY <2>2, <2>5, <2>7, <3>1, <3>2 DEF Undisturbed
  <2> QED BY <1>1, <2>5, <2>6, <2>7 DEF UdpInv
<1>7. CASE ~(udpmsg[p] = "OK" /\ udptab[s].udqueue # <<>>)
  <2>1. /\ udptab' = [udptab EXCEPT ![s].udstate = "USED"] /\ udpfree' = udpfree
        /\ udpwild' = IF udpmsg[p] = "OK" THEN TRUE ELSE udpwild
    BY <1>3, <1>7 DEF UdpRecvWakes, Dequeue
  <2>2. StateSet(s, "USED")
    BY <2>1 DEF StateSet
  <2>3. PICK e : IsChanged(s, e) /\ e.udstate = "USED" /\ e.udqueue = udptab[s].udqueue
    BY <1>t, <2>2, StateOnly
  <2>4. udpfree' \in Nat /\ udpwild' \in BOOLEAN
    BY <1>t, <2>1 DEF UdpTypeOK
  <2>5. /\ UdpTypeOK' /\ QueuedWhenUsed'
        /\ KeysDiffer /\ udptab[s].udstate # "FREE" => KeysDiffer'
        /\ udptab'[s] = e
        /\ \A t \in UdpSlots : t # s => udptab'[t] = udptab[t]
    BY <1>2, <1>4, <2>3, <2>4, EndpointStep
  <2>6. UdpBuffersConserved'
    <3>1. \A t \in UdpSlots : udptab'[t].udqueue = udptab[t].udqueue
      BY <2>3, <2>5
    <3> QED BY <1>t, <1>2, <2>1, <2>5, <3>1, UdpBuffersSame
  <2>7. ASSUME Undisturbed PROVE Undisturbed'
    <3>1. udptab[s].udstate # "FREE" /\ udpmsg[p] # "OK"
      BY <1>5, <1>7, <2>7 DEF Undisturbed, ReceiversKnown, ReceiverKnown
    <3>2. ReceiversKnown' /\ OneReceives' /\ NamedReceives'
      BY <1>2, <1>4, <1>5, <2>3, <2>5, <2>7, ReceiverGone
    <3> QED BY <2>1, <2>5, <2>7, <3>1, <3>2 DEF Undisturbed
  <2> QED BY <1>1, <2>5, <2>6, <2>7 DEF UdpInv
<1> QED BY <1>6, <1>7

LEMMA UdpInvStep == UdpInv /\ [UdpNext]_udpVars => UdpInv'
PROOF
<1> SUFFICES ASSUME UdpInv, [UdpNext]_udpVars PROVE UdpInv'
  OBVIOUS
<1>1. CASE UNCHANGED udpVars
  <2>1. /\ udptab' = udptab /\ udpcall' = udpcall /\ udpmsg' = udpmsg
        /\ udpfree' = udpfree /\ udpwild' = udpwild /\ disturbed' = disturbed
    BY <1>1 DEF udpVars
  <2>2. UdpTypeOK' /\ QueuedWhenUsed'
    BY <2>1 DEF UdpInv, UdpTypeOK, QueuedWhenUsed
  <2>3. UdpBuffersConserved'
    BY <2>1 DEF UdpInv, UdpBuffersConserved
  <2>4. \A q, t : Receiving(q, t)' <=> Receiving(q, t)
    BY <2>1 DEF Receiving
  <2>5. Undisturbed => Undisturbed'
    BY <2>1, <2>4 DEF Undisturbed, ReceiversKnown, ReceiverKnown, OneReceives, NamedReceives,
       KeysDiffer
  <2> QED BY <2>1, <2>2, <2>3, <2>5 DEF UdpInv
<1>2. CASE UdpNext
  <2>1. CASE \E k \in Keys : UdpIn(k)
    BY <2>1, UdpInInv
  <2>2. CASE \E p \in Users, k \in Keys : UdpRegister(p, k)
    BY <2>2, UdpRegisterInv
  <2>3. CASE \E p \in Users, s \in UdpSlots : UdpRecv(p, s)
    BY <2>3, UdpRecvInv
  <2>4. CASE \E p \in Users, s \in UdpSlots : UdpRecvBlocks(p, s)
    BY <2>4, UdpRecvBlocksInv
  <2>5. CASE \E p \in Users, s \in UdpSlots : UdpSend(p, s)
    BY <2>5, UdpSendInv
  <2>6. CASE \E p \in Users, s \in UdpSlots : UdpRelease(p, s)
    BY <2>6, UdpReleaseInv
  <2>7. CASE \E p \in Users : UdpRecvWakes(p)
    BY <2>7, UdpRecvWakesInv
  <2>8. CASE \E p \in Users : UdpRecvTimeout(p)
    BY <2>8, UdpRecvTimeoutInv
  <2>9. CASE \E p \in Users : UdpSendGets(p)
    BY <2>9, UdpSendGetsInv
  <2>10. CASE \E p \in Users : UdpSent(p)
    BY <2>10, UdpSentInv
  <2>11. CASE \E p \in Users : UdpOtherMessage(p)
    BY <2>11, UdpOtherMessageInv
  <2>12. CASE \E p \in Users : UdpReceiverKilled(p)
    BY <2>12, UdpReceiverKilledInv
  <2> QED BY <1>2, <2>1, <2>2, <2>3, <2>4, <2>5, <2>6, <2>7, <2>8, <2>9, <2>10, <2>11, <2>12
          DEF UdpNext
<1> QED BY <1>1, <1>2

LEMMA UdpInvSound == UdpInv => EndpointsSound
PROOF
<1> SUFFICES ASSUME UdpInv PROVE EndpointsSound
  OBVIOUS
<1>1. NoPacketMissed
  <2> SUFFICES ASSUME NEW p \in Users, NEW s \in UdpSlots, ~disturbed, p \in ReceiverOf(s),
                      udpmsg[p] = "none"
               PROVE  udptab[s].udstate = "RECV" /\ udptab[s].udpid = p /\ udptab[s].udqueue = <<>>
    BY DEF NoPacketMissed
  <2>1. Receiving(p, s)
    BY DEF ReceiverOf, Receiving
  <2>2. ReceiverKnown(p, s)
    BY <2>1 DEF UdpInv, Undisturbed, ReceiversKnown
  <2> QED BY <2>2 DEF ReceiverKnown, UdpInv, QueuedWhenUsed
<1>2. ReceiverFindsPacket
  BY DEF UdpInv, Undisturbed, ReceiverFindsPacket
<1>3. EndpointsDistinct
  BY DEF UdpInv, Undisturbed, KeysDiffer, EndpointsDistinct, Registered
<1> QED BY <1>1, <1>2, <1>3 DEF UdpInv, EndpointsSound

(* The endpoints of net/udp.c are sound whatever packets, timeouts, receivers, senders and
   kills do, for any table, queue and number of processes: no packet buffer is lost, no
   receiver sits out his time beside a packet, what a receiver takes is there, and a packet
   has one endpoint to go to (the last three unless a receiver was killed or its endpoint
   shared). *)
THEOREM EndpointsSoundAlways == UdpSpec => []EndpointsSound
PROOF
<1>1. UdpInit => UdpInv
  BY UdpInvInit
<1>2. UdpInv /\ [UdpNext]_udpVars => UdpInv'
  BY UdpInvStep
<1>3. UdpInv => EndpointsSound
  BY UdpInvSound
<1> QED BY <1>1, <1>2, <1>3, PTL DEF UdpSpec

-----------------------------------------------------------------------------
(* The rings of ICMP: what a slot is *)

Answers == (Remotes \cup {"none"}) \X Replies
EchoSlots == [icstate : {"FREE", "USED", "RECV"}, icremip : Remotes \cup {"none"}, ichead : Nat,
              ictail : RingIdx, iccount : Nat, icpid : Pingers \cup {"none"},
              icqueue : [RingIdx -> Answers \cup {"none"}]]

(* The ring of e holds the replies u, n having come since it was registered: the
   head is as far behind n as there are replies, or back at the start after the
   last of the ring was taken. *)
RingOf(e, u, n) ==
  /\ e.ictail = IF n = ICMP_QSIZ THEN 0 ELSE n
  /\ \/ e.ichead + Len(u) = n
     \/ u = <<>> /\ n = ICMP_QSIZ /\ e.ichead = 0
  /\ \A i \in 1..Len(u) : u[i] = e.icqueue[e.ichead + i - 1]

SlotOf(e, u, n) ==
  /\ e \in EchoSlots /\ u \in Seq(Answers) /\ n \in 0..(ICMP_QSIZ + 1)
  /\ e.iccount = Len(u)
  /\ e.icstate = "FREE" => u = <<>>
  /\ n <= ICMP_QSIZ => RingOf(e, u, n)

-----------------------------------------------------------------------------

LEMMA SmallerIs ==
  ASSUME NEW a \in Nat, NEW b \in Nat
  PROVE  Min({a, b}) = IF a <= b THEN a ELSE b
PROOF
<1>1. PICK x : x = Min({a, b})
  OBVIOUS
<1>2. \E y \in {a, b} : \A z \in {a, b} : y <= z
  <2>1. CASE a <= b
    BY <2>1
  <2>2. CASE b <= a
    BY <2>2
  <2> QED BY <2>1, <2>2
<1>3. x \in {a, b} /\ \A z \in {a, b} : x <= z
  BY <1>1, <1>2 DEF Min
<1> QED BY <1>1, <1>3

LEMMA SlotNumbers ==
  ASSUME NEW e, NEW u, NEW n, SlotOf(e, u, n)
  PROVE  /\ Len(u) \in Nat /\ e.ichead \in Nat /\ e.ictail \in Nat /\ n \in Nat /\ e.ictail \in RingIdx
         /\ ICMP_QSIZ \in Nat /\ ICMP_QSIZ > 0 /\ e.iccount = Len(u)
PROOF
<1>1. e \in EchoSlots /\ u \in Seq(Answers) /\ n \in 0..(ICMP_QSIZ + 1) /\ ICMP_QSIZ \in Nat /\ ICMP_QSIZ > 0
  BY IcmpSizes DEF SlotOf
<1>2. e.ichead \in Nat /\ e.ictail \in RingIdx
  BY <1>1 DEF EchoSlots
<1>3. e.ictail \in Nat
  BY <1>1, <1>2 DEF RingIdx
<1> QED BY <1>1, <1>2, <1>3 DEF SlotOf

(* icmp_in stores a reply. *)
Stored(e, a) ==
  [e EXCEPT !.iccount = @ + 1, !.icqueue[e.ictail] = a,
            !.ictail = IF e.ictail + 1 >= ICMP_QSIZ THEN 0 ELSE e.ictail + 1, !.icstate = "USED"]

LEMMA SlotGetsReply ==
  ASSUME NEW e, NEW u, NEW n, SlotOf(e, u, n), e.icstate # "FREE", NEW a \in Answers,
         NEW f, f = Stored(e, a)
  PROVE  SlotOf(f, Append(u, a), Min({n + 1, ICMP_QSIZ + 1}))
PROOF
<1>0. /\ Len(u) \in Nat /\ e.ichead \in Nat /\ e.ictail \in Nat /\ n \in Nat /\ e.ictail \in RingIdx
      /\ ICMP_QSIZ \in Nat /\ ICMP_QSIZ > 0 /\ e.iccount = Len(u)
  BY SlotNumbers
<1>1. e \in EchoSlots /\ u \in Seq(Answers) /\ n <= ICMP_QSIZ + 1
  BY <1>0 DEF SlotOf
<1>2. PICK t : t = IF e.ictail + 1 >= ICMP_QSIZ THEN 0 ELSE e.ictail + 1
  OBVIOUS
<1>3. t \in RingIdx
  BY <1>0, <1>2 DEF RingIdx
<1>4. /\ f.icstate = "USED" /\ f.iccount = Len(u) + 1 /\ f.ictail = t /\ f.ichead = e.ichead
      /\ f.icqueue = [e.icqueue EXCEPT ![e.ictail] = a]
      /\ f \in EchoSlots
  <2>1. PICK w : w = [e.icqueue EXCEPT ![e.ictail] = a]
    OBVIOUS
  <2>2. f = [e EXCEPT !.iccount = @ + 1, !.icqueue = w, !.ictail = t, !.icstate = "USED"]
    BY <1>2, <2>1 DEF Stored
  <2>3. w \in [RingIdx -> Answers \cup {"none"}] /\ Len(u) + 1 \in Nat
    BY <1>0, <1>1, <2>1 DEF EchoSlots
  <2>4. /\ e = [icstate |-> e.icstate, icremip |-> e.icremip, ichead |-> e.ichead,
               ictail |-> e.ictail, iccount |-> e.iccount, icpid |-> e.icpid, icqueue |-> e.icqueue]
        /\ e.icremip \in Remotes \cup {"none"} /\ e.icpid \in Pingers \cup {"none"}
    BY <1>1 DEF EchoSlots
  <2>5. f = [icstate |-> "USED", icremip |-> e.icremip, ichead |-> e.ichead,
             ictail |-> t, iccount |-> e.iccount + 1, icpid |-> e.icpid, icqueue |-> w]
    BY <2>2, <2>4
  <2>6. f \in EchoSlots
    BY <1>0, <1>3, <2>3, <2>4, <2>5 DEF EchoSlots
  <2>7. e.iccount = Len(u)
    BY <1>0
  <2> QED BY ONLY <2>1, <2>5, <2>6, <2>7
<1>5. e.icqueue \in [RingIdx -> Answers \cup {"none"}]
  BY <1>1 DEF EchoSlots
<1>6. \A i \in RingIdx : f.icqueue[i] = IF i = e.ictail THEN a ELSE e.icqueue[i]
  BY <1>4, <1>5
<1>7. PICK v : v = Append(u, a)
  OBVIOUS
<1>8. v \in Seq(Answers) /\ Len(v) = Len(u) + 1 /\ v[Len(u) + 1] = a /\ \A i \in 1..Len(u) : v[i] = u[i]
  BY <1>1, <1>7
<1>9. PICK m : m = Min({n + 1, ICMP_QSIZ + 1})
  OBVIOUS
<1>10. m = (IF n + 1 <= ICMP_QSIZ + 1 THEN n + 1 ELSE ICMP_QSIZ + 1) /\ m \in 0..(ICMP_QSIZ + 1)
  <2>1. n + 1 \in Nat /\ ICMP_QSIZ + 1 \in Nat
    BY <1>0
  <2>2. m = IF n + 1 <= ICMP_QSIZ + 1 THEN n + 1 ELSE ICMP_QSIZ + 1
    BY <1>9, <2>1, SmallerIs
  <2> QED BY <2>1, <2>2
<1>11. ASSUME m <= ICMP_QSIZ PROVE RingOf(f, v, m)
  <2>1. m = n + 1 /\ n < ICMP_QSIZ
    BY <1>0, <1>10, <1>11
  <2>2. RingOf(e, u, n)
    BY <1>0, <2>1 DEF SlotOf
  <2>3. e.ictail = n /\ e.ichead + Len(u) = n
    BY <1>0, <2>1, <2>2 DEF RingOf
  <2>4. f.ictail = IF m = ICMP_QSIZ THEN 0 ELSE m
    BY <1>0, <1>2, <1>4, <2>1, <2>3
  <2>5. f.ichead + Len(v) = m
    BY SMTT(30), <1>0, <1>4, <1>8, <2>1, <2>3
  <2>6. ASSUME NEW i \in 1..Len(v) PROVE v[i] = f.icqueue[f.ichead + i - 1]
    <3>1. CASE i = Len(u) + 1
      <4>1. f.ichead + i - 1 = e.ictail
        BY <1>0, <1>4, <2>3, <3>1
      <4> QED BY <1>0, <1>6, <1>8, <3>1, <4>1
    <3>2. CASE i # Len(u) + 1
      <4>1. i \in 1..Len(u) /\ e.ichead + i - 1 \in RingIdx /\ e.ichead + i - 1 # e.ictail
        BY <1>0, <1>8, <2>1, <2>3, <3>2 DEF RingIdx
      <4>2. v[i] = u[i] /\ u[i] = e.icqueue[e.ichead + i - 1]
        BY <1>8, <2>2, <4>1 DEF RingOf
      <4> QED BY <1>4, <1>6, <4>1, <4>2
    <3> QED BY <3>1, <3>2
  <2> QED BY <2>4, <2>5, <2>6 DEF RingOf
<1>12. SlotOf(f, v, m)
  BY <1>4, <1>8, <1>10, <1>11 DEF SlotOf
<1> QED BY <1>7, <1>9, <1>12

(* icmp_recv takes one. *)
LEMMA SlotGivesReply ==
  ASSUME NEW e, NEW u, NEW n, SlotOf(e, u, n), u # <<>>,
         NEW f, f = [e EXCEPT !.ichead = NextHead(@), !.iccount = @ - 1, !.icstate = "USED"]
  PROVE  /\ SlotOf(f, Tail(u), n)
         /\ n <= ICMP_QSIZ => e.ichead \in RingIdx
PROOF
<1>0. /\ Len(u) \in Nat /\ e.ichead \in Nat /\ e.ictail \in Nat /\ n \in Nat /\ e.ictail \in RingIdx
      /\ ICMP_QSIZ \in Nat /\ ICMP_QSIZ > 0 /\ e.iccount = Len(u)
  BY SlotNumbers
<1>1. e \in EchoSlots /\ u \in Seq(Answers) /\ e.icstate # "FREE"
  BY DEF SlotOf
<1>2. PICK h : h = NextHead(e.ichead)
  OBVIOUS
<1>3. h \in Nat /\ ICMP_SLOTS \in Nat /\ ICMP_QSIZ <= ICMP_SLOTS
  BY <1>0, <1>2, IcmpSizes DEF NextHead
<1>4. Len(u) > 0
  BY <1>0, <1>1
<1>5. /\ f.icstate = "USED" /\ f.iccount = Len(u) - 1 /\ f.ictail = e.ictail /\ f.ichead = h
      /\ f.icqueue = e.icqueue /\ f \in EchoSlots
  <2>1. Len(u) - 1 \in Nat
    BY <1>0, <1>4
  <2> QED BY <1>0, <1>1, <1>2, <1>3, <2>1 DEF EchoSlots
<1>6. PICK v : v = Tail(u)
  OBVIOUS
<1>7. v \in Seq(Answers) /\ Len(v) = Len(u) - 1 /\ \A i \in 1..Len(v) : v[i] = u[i + 1]
  BY <1>1, <1>6, HeadTailProperties
<1>8. ASSUME n <= ICMP_QSIZ PROVE RingOf(f, v, n) /\ e.ichead \in RingIdx
  <2>1. RingOf(e, u, n)
    BY <1>1, <1>8 DEF SlotOf
  <2>2. e.ictail = (IF n = ICMP_QSIZ THEN 0 ELSE n) /\ e.ichead + Len(u) = n
    BY <2>1 DEF RingOf
  <2>3. e.ichead \in RingIdx
    BY <1>0, <1>4, <1>8, <2>2 DEF RingIdx
  <2>4. h = e.ichead + 1 \/ (h = 0 /\ e.ichead + 1 >= ICMP_SLOTS)
    BY <1>2 DEF NextHead
  <2>5. CASE h = e.ichead + 1
    <3>1. h + Len(v) = n
      BY <1>0, <1>7, <2>2, <2>5
    <3>2. ASSUME NEW i \in 1..Len(v) PROVE v[i] = f.icqueue[h + i - 1]
      <4>1. i + 1 \in 1..Len(u) /\ e.ichead + (i + 1) - 1 = h + i - 1
        <5>1. PICK a \in Int, l \in Nat : a = e.ichead /\ l = Len(u)
          BY <1>0, <1>1
        <5>2. i \in 1..(l - 1) /\ h = a + 1
          BY <1>7, <2>5, <5>1
        <5>3. i + 1 \in 1..l /\ a + (i + 1) - 1 = h + i - 1
          BY <5>2
        <5> QED BY <5>1, <5>3
      <4>2. u[i + 1] = e.icqueue[e.ichead + (i + 1) - 1]
        BY <2>1, <4>1 DEF RingOf
      <4> QED BY <1>5, <1>7, <4>1, <4>2
    <3> QED BY <1>5, <2>2, <2>3, <3>1, <3>2 DEF RingOf
  <2>6. CASE h = 0 /\ e.ichead + 1 >= ICMP_SLOTS
    <3>1. n = ICMP_QSIZ /\ Len(u) = 1
      <4>1. PICK a, b : a = e.ichead /\ b = Len(u)
        OBVIOUS
      <4>2. a \in Nat /\ b \in Nat /\ b > 0 /\ a + b = n /\ a + 1 >= ICMP_SLOTS
        BY <1>0, <1>4, <2>2, <2>6, <4>1
      <4>3. n = ICMP_QSIZ /\ b = 1
        BY ONLY <4>2, <1>0, <1>3, <1>8
      <4> QED BY <4>1, <4>3
    <3>2. Len(v) = 0 /\ v = <<>>
      BY <1>7, <3>1
    <3> QED BY <1>5, <2>2, <2>3, <2>6, <3>1, <3>2 DEF RingOf
  <2> QED BY <2>4, <2>5, <2>6
<1>9. SlotOf(f, v, n)
  <2>1. n \in 0..(ICMP_QSIZ + 1)
    BY DEF SlotOf
  <2> QED BY <1>5, <1>7, <1>8, <2>1 DEF SlotOf
<1> QED BY <1>6, <1>8, <1>9

(* Somebody waits, or has waited: even for a slot that was released meanwhile. *)
LEMMA SlotStateSet ==
  ASSUME NEW e, NEW u, NEW n, SlotOf(e, u, n),
         NEW st \in {"USED", "RECV"}, NEW p \in Pingers \cup {"none"},
         NEW f, f = [e EXCEPT !.icstate = st, !.icpid = p]
  PROVE  SlotOf(f, u, n)
PROOF
<1>1. e \in EchoSlots
  BY DEF SlotOf
<1>2. /\ f.icstate = st /\ f.iccount = e.iccount /\ f.ictail = e.ictail /\ f.ichead = e.ichead
      /\ f.icqueue = e.icqueue /\ f \in EchoSlots
  BY <1>1 DEF EchoSlots
<1> QED BY <1>2 DEF SlotOf, RingOf

(* icmp_register *)
RegisteredFor(e, r) ==
  [e EXCEPT !.icstate = "USED", !.icremip = r, !.iccount = 0, !.icpid = "none",
            !.icqueue = [i \in RingIdx |-> "none"], !.ichead = 0, !.ictail = 0]

LEMMA SlotRegistered ==
  ASSUME NEW e, NEW u, NEW n, SlotOf(e, u, n), e.icstate = "FREE", NEW r \in Remotes,
         NEW f, f = RegisteredFor(e, r)
  PROVE  u = <<>> /\ SlotOf(f, u, 0)
PROOF
<1>1. e \in EchoSlots /\ u = <<>> /\ ICMP_QSIZ \in Nat /\ ICMP_QSIZ > 0
  BY IcmpSizes DEF SlotOf
<1>2. 0 \in RingIdx
  BY <1>1 DEF RingIdx
<1>3. f.icstate = "USED" /\ f.iccount = 0 /\ f.ictail = 0 /\ f.ichead = 0 /\ f \in EchoSlots
  BY <1>1, <1>2 DEF EchoSlots, RegisteredFor
<1>4. Len(u) = 0 /\ u \in Seq(Answers)
  BY <1>1
<1>5. RingOf(f, u, 0)
  BY <1>1, <1>3, <1>4 DEF RingOf
<1> QED BY <1>1, <1>3, <1>4, <1>5 DEF SlotOf

(* icmp_release *)
LEMMA SlotReleased ==
  ASSUME NEW e, NEW u, NEW n, SlotOf(e, u, n), e.icstate # "FREE",
         NEW f, f = [e EXCEPT !.icstate = "FREE", !.iccount = 0,
                              !.ichead = (e.ichead + e.iccount) % ICMP_SLOTS]
  PROVE  SlotOf(f, <<>>, n) /\ (n <= ICMP_QSIZ => e.ichead + e.iccount <= ICMP_QSIZ)
PROOF
<1>0. /\ Len(u) \in Nat /\ e.ichead \in Nat /\ n \in Nat /\ ICMP_QSIZ \in Nat /\ ICMP_QSIZ > 0
      /\ e.iccount = Len(u)
  BY SlotNumbers
<1>1. e \in EchoSlots /\ n \in 0..(ICMP_QSIZ + 1)
  BY DEF SlotOf
<1>2. PICK h : h = (e.ichead + e.iccount) % ICMP_SLOTS
  OBVIOUS
<1>3. h \in Nat
  <2>1. e.ichead + e.iccount \in Nat /\ ICMP_SLOTS \in Nat /\ ICMP_SLOTS > 0
    BY <1>0, IcmpSizes
  <2>2. PICK k : k = e.ichead + e.iccount
    OBVIOUS
  <2>3. k % ICMP_SLOTS \in 0..(ICMP_SLOTS - 1)
    BY <2>1, <2>2
  <2> QED BY <1>2, <2>1, <2>2, <2>3
<1>4. /\ f.icstate = "FREE" /\ f.iccount = 0 /\ f \in EchoSlots
      /\ f.ichead = h /\ f.ictail = e.ictail
  BY <1>1, <1>2, <1>3 DEF EchoSlots
<1>5. Len(<<>>) = 0 /\ <<>> \in Seq(Answers)
  OBVIOUS
<1>6. ASSUME n <= ICMP_QSIZ
      PROVE  e.ichead + e.iccount <= ICMP_QSIZ /\ RingOf(f, <<>>, n)
  <2>1. RingOf(e, u, n)
    BY <1>6 DEF SlotOf
  <2>2. PICK k : k = e.ichead + e.iccount
    OBVIOUS
  <2>3. k = n \/ (k = 0 /\ n = ICMP_QSIZ)
    BY <1>0, <2>1, <2>2 DEF RingOf
  <2>4. h = n \/ (h = 0 /\ n = ICMP_QSIZ)
    <3>1. ICMP_SLOTS \in Nat /\ ICMP_SLOTS > 0 /\ ICMP_QSIZ <= ICMP_SLOTS
      BY IcmpSizes
    <3>2. k \in Nat /\ k <= ICMP_SLOTS /\ h = k % ICMP_SLOTS
      BY <1>0, <1>2, <1>6, <2>2, <2>3, <3>1
    <3>3. CASE k < ICMP_SLOTS
      <4>1. h = k
        BY ONLY <3>1, <3>2, <3>3
      <4> QED BY <2>3, <4>1
    <3>4. CASE k = ICMP_SLOTS
      <4>1. h = 0
        BY ONLY <3>1, <3>2, <3>4
      <4>2. n = ICMP_QSIZ
        BY <1>0, <1>6, <2>3, <3>1, <3>4
      <4> QED BY <4>1, <4>2
    <3> QED BY <3>1, <3>2, <3>3, <3>4
  <2>5. RingOf(f, <<>>, n)
    <3>1. f.ictail = IF n = ICMP_QSIZ THEN 0 ELSE n
      BY <1>4, <2>1 DEF RingOf
    <3>2. f.ichead + Len(<<>>) = n \/ (n = ICMP_QSIZ /\ f.ichead = 0)
      BY <1>0, <1>4, <1>5, <2>4
    <3>3. 1..Len(<<>>) = {}
      BY <1>5
    <3> QED BY <3>1, <3>2, <3>3 DEF RingOf
  <2> QED BY <1>0, <1>6, <2>2, <2>3, <2>5
<1>7. SlotOf(f, <<>>, n)
  BY <1>1, <1>4, <1>5, <1>6 DEF SlotOf
<1> QED BY <1>6, <1>7
-----------------------------------------------------------------------------
(* The table and who receives *)

IcmpTypes ==
  /\ icmptab \in [IcmpSlots -> EchoSlots] /\ icunread \in [IcmpSlots -> Seq(Answers)]
  /\ icsince \in [IcmpSlots -> 0..(ICMP_QSIZ + 1)]
  /\ pingcall \in [Pingers -> {-1} \cup IcmpSlots] /\ pingmsg \in [Pingers -> {"none", "OK", "word"}]
  /\ icwild \in BOOLEAN /\ icdisturbed \in BOOLEAN

SlotsOK == \A s \in IcmpSlots : SlotOf(icmptab[s], icunread[s], icsince[s])

(* Nobody was killed in icmp_recv, and none had his reply or his slot taken away: a
   receiver is named by his slot, or there is a reply in it and a message for him;
   and he is alone. *)
PingerKnown(p) ==
  LET e == icmptab[pingcall[p]]
      u == icunread[pingcall[p]]
  IN
  pingcall[p] # -1 =>
    \/ e.icstate = "RECV" /\ e.icpid = p /\ u = <<>> /\ pingmsg[p] # "OK"
    \/ e.icstate = "USED" /\ u # <<>> /\ pingmsg[p] # "none"
WaitAlone == \A p, q \in Pingers : pingcall[p] = pingcall[q] /\ pingcall[p] # -1 => p = q
NamedWaits(s) ==
  icmptab[s].icstate = "RECV" => icmptab[s].icpid \in Pingers /\ pingcall[icmptab[s].icpid] = s
NotDisturbed ==
  (\A p \in Pingers : PingerKnown(p)) /\ WaitAlone /\ \A s \in IcmpSlots : NamedWaits(s)

IcmpInv ==
  /\ IcmpTypes /\ SlotsOK /\ RingKept
  /\ icwild \/ icdisturbed \/ NotDisturbed

LEMMA IcmpFacts ==
  ASSUME IcmpInv
  PROVE  /\ icmptab \in [IcmpSlots -> EchoSlots] /\ icunread \in [IcmpSlots -> Seq(Answers)]
         /\ icsince \in [IcmpSlots -> 0..(ICMP_QSIZ + 1)]
         /\ pingcall \in [Pingers -> {-1} \cup IcmpSlots] /\ pingmsg \in [Pingers -> {"none", "OK", "word"}]
         /\ icwild \in BOOLEAN /\ icdisturbed \in BOOLEAN
         /\ \A s \in IcmpSlots : SlotOf(icmptab[s], icunread[s], icsince[s])
         /\ \A s \in IcmpSlots : icmptab[s] \in EchoSlots /\ icmptab[s].iccount = Len(icunread[s])
         /\ IcmpSlots \subseteq Nat /\ -1 \notin IcmpSlots
PROOF
<1>1. IcmpSlots \subseteq Nat /\ -1 \notin IcmpSlots
  BY IcmpSizes DEF IcmpSlots
<1> QED BY <1>1 DEF IcmpInv, IcmpTypes, SlotsOK, SlotOf

(* Slot s becomes e, with the replies u, n since its registration. *)
LEMMA SlotMoves ==
  ASSUME IcmpInv, NEW s \in IcmpSlots, NEW e, NEW u, NEW n, SlotOf(e, u, n),
         icmptab' = [icmptab EXCEPT ![s] = e], icunread' = [icunread EXCEPT ![s] = u],
         icsince' = [icsince EXCEPT ![s] = n],
         NEW c \in [Pingers -> {-1} \cup IcmpSlots], NEW m \in [Pingers -> {"none", "OK", "word"}],
         pingcall' = c, pingmsg' = m, icwild' \in BOOLEAN, icdisturbed' \in BOOLEAN
  PROVE  IcmpTypes' /\ SlotsOK'
PROOF
<1>1. e \in EchoSlots /\ u \in Seq(Answers) /\ n \in 0..(ICMP_QSIZ + 1)
  BY DEF SlotOf
<1>2. /\ \A t \in IcmpSlots : icmptab'[t] = IF t = s THEN e ELSE icmptab[t]
      /\ \A t \in IcmpSlots : icunread'[t] = IF t = s THEN u ELSE icunread[t]
      /\ \A t \in IcmpSlots : icsince'[t] = IF t = s THEN n ELSE icsince[t]
  BY IcmpFacts
<1>3. IcmpTypes'
  BY <1>1, IcmpFacts DEF IcmpTypes
<1>4. SlotsOK'
  <2>1. ASSUME NEW t \in IcmpSlots PROVE SlotOf(icmptab'[t], icunread'[t], icsince'[t])
    <3>1. CASE t = s
      BY <1>2, <3>1
    <3>2. CASE t # s
      BY <1>2, <3>2, IcmpFacts
    <3> QED BY <3>1, <3>2
  <2> QED BY <2>1 DEF SlotsOK
<1> QED BY <1>3, <1>4

LEMMA IcmpInInv == IcmpInit => IcmpInv
PROOF
<1> SUFFICES ASSUME IcmpInit PROVE IcmpInv
  OBVIOUS
<1>1. ICMP_QSIZ \in Nat /\ ICMP_QSIZ > 0 /\ 0 \in RingIdx
  BY IcmpSizes DEF RingIdx
<1>2. Unused \in EchoSlots
  BY <1>1 DEF Unused, EchoSlots
<1>3. IcmpTypes
  <2>1. <<>> \in Seq(Answers) /\ 0 \in 0..(ICMP_QSIZ + 1)
    BY <1>1
  <2>2. /\ icmptab \in [IcmpSlots -> EchoSlots] /\ icunread \in [IcmpSlots -> Seq(Answers)]
        /\ icsince \in [IcmpSlots -> 0..(ICMP_QSIZ + 1)]
    BY <1>2, <2>1 DEF IcmpInit
  <2>3. /\ pingcall \in [Pingers -> {-1} \cup IcmpSlots]
        /\ pingmsg \in [Pingers -> {"none", "OK", "word"}]
    BY DEF IcmpInit
  <2> QED BY <2>2, <2>3 DEF IcmpInit, IcmpTypes
<1>4. SlotsOK
  <2>1. SlotOf(Unused, <<>>, 0)
    <3>1. RingOf(Unused, <<>>, 0)
      BY <1>1 DEF RingOf, Unused
    <3> QED BY <1>1, <1>2, <3>1 DEF SlotOf, Unused
  <2> QED BY <2>1 DEF IcmpInit, SlotsOK
<1>5. RingKept
  BY DEF IcmpInit, RingKept
<1>6. NotDisturbed
  BY DEF IcmpInit, NotDisturbed, PingerKnown, WaitAlone, NamedWaits, Unused
<1> QED BY <1>3, <1>4, <1>5, <1>6 DEF IcmpInv

LEMMA IcmpInKeeps ==
  ASSUME IcmpInv, NEW s \in IcmpSlots, NEW r \in Remotes, NEW d \in Replies, IcmpIn(s, r, d)
  PROVE  IcmpInv'
PROOF
<1>1. PICK e, f, u, n, m :
        /\ e = icmptab[s]
        /\ f = Stored(e, <<e.icremip, d>>)
        /\ u = Append(icunread[s], <<e.icremip, d>>)
        /\ n = Min({icsince[s] + 1, ICMP_QSIZ + 1})
        /\ m = [p \in Pingers |-> IF p = ToldOfReply(e) /\ pingmsg[p] = "none" THEN "OK" ELSE pingmsg[p]]
  OBVIOUS
<1>2. e.icstate # "FREE" /\ e.icremip = r /\ ~icwild
  BY <1>1 DEF IcmpIn, ReplyFor, InUse
<1>3. <<e.icremip, d>> \in Answers
  BY <1>2 DEF Answers
<1>4. SlotOf(f, u, n)
  <2>1. SlotOf(e, icunread[s], icsince[s])
    BY <1>1, IcmpFacts
  <2> QED BY <1>1, <1>2, <1>3, <2>1, SlotGetsReply
<1>5. /\ icmptab' = [icmptab EXCEPT ![s] = f] /\ icunread' = [icunread EXCEPT ![s] = u]
      /\ icsince' = [icsince EXCEPT ![s] = n] /\ pingcall' = pingcall /\ pingmsg' = m
      /\ icwild' = icwild /\ icdisturbed' = icdisturbed
  BY <1>1, <1>2 DEF IcmpIn, Stored
<1>6. m \in [Pingers -> {"none", "OK", "word"}]
  BY <1>1, IcmpFacts
<1>7. IcmpTypes' /\ SlotsOK'
  BY <1>4, <1>5, <1>6, IcmpFacts, SlotMoves
<1>8. f.icstate = "USED" /\ u # <<>>
  <2>1. e \in EchoSlots /\ icunread[s] \in Seq(Answers)
    BY <1>1, IcmpFacts
  <2>2. PICK w, t : w = [e.icqueue EXCEPT ![e.ictail] = <<e.icremip, d>>]
                    /\ t = IF e.ictail + 1 >= ICMP_QSIZ THEN 0 ELSE e.ictail + 1
    OBVIOUS
  <2>3. f = [e EXCEPT !.iccount = @ + 1, !.icqueue = w, !.ictail = t, !.icstate = "USED"]
    BY <1>1, <2>2 DEF Stored
  <2>4. f.icstate = "USED"
    BY <2>1, <2>3 DEF EchoSlots
  <2> QED BY <1>1, <1>3, <2>1, <2>4
<1>9. /\ \A t \in IcmpSlots : icmptab'[t] = IF t = s THEN f ELSE icmptab[t]
      /\ \A t \in IcmpSlots : icunread'[t] = IF t = s THEN u ELSE icunread[t]
  BY <1>5, IcmpFacts
<1>10. RingKept'
  BY <1>2, <1>5 DEF RingKept
<1>11. ASSUME NotDisturbed PROVE NotDisturbed'
  <2>1. e.icstate = "RECV" => e.icpid \in Pingers /\ pingcall[e.icpid] = s
    BY <1>1, <1>11 DEF NotDisturbed, NamedWaits
  <2>2. ASSUME NEW p \in Pingers PROVE PingerKnown(p)'
    <3>1. PingerKnown(p)
      BY <1>11 DEF NotDisturbed
    <3>2. CASE pingcall[p] = s
      <4>1. m[p] # "none"
        <5>1. CASE e.icstate = "RECV"
          <6>1. e.icpid = p
            BY <1>1, <3>1, <3>2, <5>1, IcmpFacts DEF PingerKnown
          <6> QED BY <1>1, <5>1, <6>1 DEF ToldOfReply
        <5>2. CASE e.icstate # "RECV"
          <6>1. pingmsg[p] # "none"
            BY <1>1, <3>1, <3>2, <5>2, IcmpFacts DEF PingerKnown
          <6> QED BY <1>1, <6>1
        <5> QED BY <5>1, <5>2
      <4> QED BY <1>5, <1>8, <1>9, <3>2, <4>1 DEF PingerKnown
    <3>3. CASE pingcall[p] # s /\ pingcall[p] # -1
      <4>1. p # ToldOfReply(e)
        BY <2>1, <3>3, IcmpSizes DEF ToldOfReply
      <4>2. m[p] = pingmsg[p] /\ pingcall[p] \in IcmpSlots
        BY <1>1, <3>3, <4>1, IcmpFacts
      <4> QED BY <1>5, <1>9, <3>1, <3>3, <4>2 DEF PingerKnown
    <3>4. CASE pingcall[p] = -1
      BY <1>5, <3>4 DEF PingerKnown
    <3> QED BY <3>2, <3>3, <3>4
  <2>3. WaitAlone'
    BY <1>5, <1>11 DEF WaitAlone, NotDisturbed
  <2>4. \A t \in IcmpSlots : NamedWaits(t)'
    BY <1>5, <1>8, <1>9, <1>11 DEF NotDisturbed, NamedWaits
  <2> QED BY <2>2, <2>3, <2>4 DEF NotDisturbed
<1> QED BY <1>2, <1>5, <1>7, <1>10, <1>11 DEF IcmpInv

WithState(e, st, p) == [e EXCEPT !.icstate = st, !.icpid = p]

(* The next state of the table when only the state of slot s changes. *)
LEMMA StateMoves ==
  ASSUME IcmpInv, NEW s \in IcmpSlots,
         NEW st \in {"USED", "RECV"}, NEW pid \in Pingers \cup {"none"},
         icmptab' = [icmptab EXCEPT ![s] = WithState(icmptab[s], st, pid)],
         NEW c \in [Pingers -> {-1} \cup IcmpSlots], NEW m \in [Pingers -> {"none", "OK", "word"}],
         pingcall' = c, pingmsg' = m, UNCHANGED <<icunread, icsince, icwild, icdisturbed>>
  PROVE  /\ IcmpTypes' /\ SlotsOK' /\ RingKept'
         /\ icmptab'[s].icstate = st /\ icmptab'[s].icpid = pid
         /\ \A t \in IcmpSlots : t # s => icmptab'[t] = icmptab[t]
PROOF
<1>1. PICK e, u, n : e = WithState(icmptab[s], st, pid) /\ u = icunread[s] /\ n = icsince[s]
  OBVIOUS
<1>2. SlotOf(e, u, n)
  BY <1>1, IcmpFacts, SlotStateSet DEF WithState
<1>3. /\ icmptab' = [icmptab EXCEPT ![s] = e] /\ icunread' = [icunread EXCEPT ![s] = u]
      /\ icsince' = [icsince EXCEPT ![s] = n]
  BY <1>1, IcmpFacts
<1>4. icwild' \in BOOLEAN /\ icdisturbed' \in BOOLEAN
  BY IcmpFacts
<1>5. IcmpTypes' /\ SlotsOK'
  BY <1>2, <1>3, <1>4, SlotMoves
<1>6. e.icstate = st /\ e.icpid = pid
  BY <1>1, IcmpFacts DEF WithState, EchoSlots
<1>7. \A t \in IcmpSlots : icmptab'[t] = IF t = s THEN e ELSE icmptab[t]
  BY <1>3, IcmpFacts
<1>8. RingKept'
  BY DEF RingKept, IcmpInv
<1> QED BY <1>5, <1>6, <1>7, <1>8

LEMMA SetToUsed ==
  ASSUME IcmpInv, NEW s \in IcmpSlots, icmptab' = [icmptab EXCEPT ![s].icstate = "USED"]
  PROVE  /\ icmptab' = [icmptab EXCEPT ![s] = WithState(icmptab[s], "USED", icmptab[s].icpid)]
         /\ icmptab[s].icpid \in Pingers \cup {"none"}
PROOF
<1>1. icmptab[s] \in EchoSlots
  BY IcmpFacts
<1>2. WithState(icmptab[s], "USED", icmptab[s].icpid) = [icmptab[s] EXCEPT !.icstate = "USED"]
  BY <1>1 DEF EchoSlots, WithState
<1>3. icmptab[s].icpid \in Pingers \cup {"none"}
  BY <1>1 DEF EchoSlots
<1> QED BY <1>2, <1>3

LEMMA RecvBlocksKeeps ==
  ASSUME IcmpInv, NEW p \in Pingers, NEW s \in IcmpSlots, IcmpRecvBlocks(p, s)
  PROVE  IcmpInv'
PROOF
<1>1. /\ ~icwild /\ pingcall[p] = -1 /\ icmptab[s].icstate = "USED" /\ icmptab[s].iccount = 0
      /\ UNCHANGED <<icunread, icsince, icwild, icdisturbed>>
  BY DEF IcmpRecvBlocks
<1>2. PICK c, m : c = [pingcall EXCEPT ![p] = s] /\ m = [pingmsg EXCEPT ![p] = "none"]
  OBVIOUS
<1>3. c \in [Pingers -> {-1} \cup IcmpSlots] /\ m \in [Pingers -> {"none", "OK", "word"}]
  BY <1>2, IcmpFacts
<1>4. pingcall' = c /\ pingmsg' = m /\ icmptab' = [icmptab EXCEPT ![s] = WithState(icmptab[s], "RECV", p)]
  BY <1>2, IcmpFacts DEF IcmpRecvBlocks, WithState
<1>5. /\ IcmpTypes' /\ SlotsOK' /\ RingKept'
      /\ icmptab'[s].icstate = "RECV" /\ icmptab'[s].icpid = p
      /\ \A t \in IcmpSlots : t # s => icmptab'[t] = icmptab[t]
  BY <1>1, <1>3, <1>4, StateMoves
<1>6. \A q \in Pingers : /\ c[q] = (IF q = p THEN s ELSE pingcall[q]) /\ c[q] \in {-1} \cup IcmpSlots
                         /\ m[q] = (IF q = p THEN "none" ELSE pingmsg[q])
  BY <1>2, <1>3, IcmpFacts
<1>7. icunread[s] = <<>>
  BY <1>1, IcmpFacts
<1>8. ASSUME NotDisturbed PROVE NotDisturbed'
  <2>1. ASSUME NEW q \in Pingers PROVE pingcall[q] # s
    BY <1>1, <1>7, <1>8, IcmpFacts DEF NotDisturbed, PingerKnown
  <2>2. \A q \in Pingers : PingerKnown(q)'
    BY <1>1, <1>4, <1>5, <1>6, <1>7, <1>8 DEF NotDisturbed, PingerKnown
  <2>3. WaitAlone'
    BY <1>4, <1>6, <1>8, <2>1 DEF WaitAlone, NotDisturbed
  <2>4. ASSUME NEW t \in IcmpSlots PROVE NamedWaits(t)'
    <3>1. CASE t = s
      BY <1>4, <1>5, <1>6, <3>1 DEF NamedWaits
    <3>2. CASE t # s
      <4>1. icmptab[t].icstate = "RECV" => icmptab[t].icpid # p
        BY <1>1, <1>8, IcmpFacts DEF NotDisturbed, NamedWaits
      <4> QED BY <1>4, <1>5, <1>6, <1>8, <3>2, <4>1 DEF NotDisturbed, NamedWaits
    <3> QED BY <3>1, <3>2
  <2> QED BY <2>2, <2>3, <2>4 DEF NotDisturbed
<1> QED BY <1>1, <1>5, <1>8 DEF IcmpInv

(* The receiver p of slot s goes, and leaves it in state USED or to what takes a
   reply from it. *)
LEMMA ReceiverGoes ==
  ASSUME IcmpInv, NEW p \in Pingers, pingcall[p] # -1, ~icwild,
         NEW c, c = [pingcall EXCEPT ![p] = -1], pingcall' = c,
         NEW m \in [Pingers -> {"none", "OK", "word"}], pingmsg' = m,
         \A q \in Pingers \ {p} : m[q] = pingmsg[q],
         \A t \in IcmpSlots : t # pingcall[p] => icmptab'[t] = icmptab[t] /\ icunread'[t] = icunread[t],
         icmptab'[pingcall[p]].icstate = "USED", NotDisturbed
  PROVE  NotDisturbed'
PROOF
<1>1. PICK s : s = pingcall[p]
  OBVIOUS
<1>2. s \in IcmpSlots /\ s # -1
  BY <1>1, IcmpFacts
<1>3. \A q \in Pingers : c[q] = (IF q = p THEN -1 ELSE pingcall[q]) /\ c[q] \in {-1} \cup IcmpSlots
  BY IcmpFacts
<1>4. \A q \in Pingers : c[q] # s
  BY <1>1, <1>2, <1>3 DEF WaitAlone, NotDisturbed
<1>5. \A q \in Pingers : PingerKnown(q)'
  BY <1>1, <1>3, <1>4 DEF NotDisturbed, PingerKnown
<1>6. WaitAlone'
  BY <1>3 DEF WaitAlone, NotDisturbed
<1>7. ASSUME NEW t \in IcmpSlots PROVE NamedWaits(t)'
  <2>1. CASE t = s
    BY <1>1, <2>1 DEF NamedWaits
  <2>2. CASE t # s
    BY <1>1, <1>3, <2>2 DEF NotDisturbed, NamedWaits
  <2> QED BY <2>1, <2>2
<1> QED BY <1>5, <1>6, <1>7 DEF NotDisturbed

LEMMA RecvTimeoutKeeps ==
  ASSUME IcmpInv, NEW p \in Pingers, IcmpRecvTimeout(p)
  PROVE  IcmpInv'
PROOF
<1>1. PICK s, c : s = pingcall[p] /\ c = [pingcall EXCEPT ![p] = -1]
  OBVIOUS
<1>2. /\ ~icwild /\ s # -1 /\ s \in IcmpSlots /\ c \in [Pingers -> {-1} \cup IcmpSlots]
      /\ icmptab' = [icmptab EXCEPT ![s].icstate = "USED"] /\ pingcall' = c /\ pingmsg' = pingmsg
      /\ UNCHANGED <<icunread, icsince, icwild, icdisturbed>>
  BY <1>1, IcmpFacts DEF IcmpRecvTimeout
<1>3. /\ IcmpTypes' /\ SlotsOK' /\ RingKept' /\ icmptab'[s].icstate = "USED"
      /\ \A t \in IcmpSlots : t # s => icmptab'[t] = icmptab[t]
  BY <1>2, IcmpFacts, SetToUsed, StateMoves
<1>4. \A t \in IcmpSlots : t # s => icmptab'[t] = icmptab[t] /\ icunread'[t] = icunread[t]
  BY <1>2, <1>3
<1>5. pingmsg \in [Pingers -> {"none", "OK", "word"}]
  BY IcmpFacts
<1>6. NotDisturbed => NotDisturbed'
  BY ZenonT(30), <1>1, <1>2, <1>3, <1>4, <1>5, ReceiverGoes
<1> QED BY <1>2, <1>3, <1>6 DEF IcmpInv

Given(e) == [e EXCEPT !.ichead = NextHead(@), !.iccount = @ - 1, !.icstate = "USED"]

(* icmp_recv takes a reply from s, or finds none. *)
LEMMA TakeMoves ==
  ASSUME IcmpInv, ~icwild, NEW s \in IcmpSlots, TakeReply(s), icunread[s] # <<>> \/ icdisturbed',
         icdisturbed' \in BOOLEAN,
         NEW c \in [Pingers -> {-1} \cup IcmpSlots], NEW m \in [Pingers -> {"none", "OK", "word"}],
         pingcall' = c, pingmsg' = m, icsince' = icsince
  PROVE  /\ IcmpTypes' /\ SlotsOK' /\ RingKept'
         /\ \A t \in IcmpSlots : t # s => icmptab'[t] = icmptab[t] /\ icunread'[t] = icunread[t]
         /\ \/ icwild' /\ UNCHANGED icmptab
            \/ ~icwild' /\ icmptab'[s].icstate = "USED"
PROOF
<1>1. PICK e, u, n : e = icmptab[s] /\ u = icunread[s] /\ n = icsince[s]
  OBVIOUS
<1>2. SlotOf(e, u, n)
  BY <1>1, IcmpFacts
<1>3. CASE e.ichead \notin RingIdx \/ u = <<>>
  <2>1. icwild' = TRUE /\ UNCHANGED <<icmptab, icunread>>
    BY <1>1, <1>3 DEF TakeReply
  <2>2. /\ icmptab' = [icmptab EXCEPT ![s] = e] /\ icunread' = [icunread EXCEPT ![s] = u]
        /\ icsince' = [icsince EXCEPT ![s] = n]
    BY <1>1, <2>1, IcmpFacts
  <2>3. icwild' \in BOOLEAN /\ icdisturbed' \in BOOLEAN
    BY <2>1, IcmpFacts
  <2>4. IcmpTypes' /\ SlotsOK'
    BY <1>2, <2>2, <2>3, SlotMoves
  <2>5. RingKept'
    <3>1. CASE u = <<>>
      BY <1>1, <3>1 DEF RingKept
    <3>2. CASE u # <<>>
      <4>1. PICK f : f = Given(e)
        OBVIOUS
      <4>2. n <= ICMP_QSIZ => e.ichead \in RingIdx
        BY <1>2, <3>2, <4>1, SlotGivesReply DEF Given
      <4>3. n \in Nat /\ ICMP_QSIZ \in Nat
        BY <1>2, SlotNumbers
      <4>4. icsince[s] > ICMP_QSIZ
        BY <1>1, <1>3, <3>2, <4>2, <4>3
      <4> QED BY <4>4 DEF RingKept
    <3> QED BY <3>1, <3>2
  <2> QED BY <2>1, <2>4, <2>5
<1>4. CASE e.ichead \in RingIdx /\ u # <<>>
  <2>1. PICK f, v : f = Given(e) /\ v = Tail(u)
    OBVIOUS
  <2>2. /\ ~icwild' /\ icwild' = icwild /\ icmptab' = [icmptab EXCEPT ![s] = f] /\ icunread' = [icunread EXCEPT ![s] = v]
        /\ icsince' = [icsince EXCEPT ![s] = n]
    <3>1. /\ icmptab' = [icmptab EXCEPT ![s].ichead = NextHead(@), ![s].iccount = @ - 1,
                                        ![s].icstate = "USED"]
          /\ icunread' = [icunread EXCEPT ![s] = Tail(@)] /\ icwild' = icwild
      BY <1>1, <1>4 DEF TakeReply
    <3>2. icmptab' = [icmptab EXCEPT ![s] = f]
      BY <1>1, <2>1, <3>1, IcmpFacts DEF Given
    <3> QED BY <1>1, <2>1, <3>1, <3>2, IcmpFacts
  <2>3. SlotOf(f, v, n)
    BY <1>2, <1>4, <2>1, SlotGivesReply DEF Given
  <2>4. icwild' \in BOOLEAN /\ icdisturbed' \in BOOLEAN
    BY <2>2, IcmpFacts
  <2>5. IcmpTypes' /\ SlotsOK'
    BY <2>2, <2>3, <2>4, SlotMoves
  <2>6. f.icstate = "USED"
    BY <1>1, <2>1, IcmpFacts DEF Given, EchoSlots
  <2>7. /\ \A t \in IcmpSlots : icmptab'[t] = IF t = s THEN f ELSE icmptab[t]
        /\ \A t \in IcmpSlots : icunread'[t] = IF t = s THEN v ELSE icunread[t]
    BY <2>2, IcmpFacts
  <2> QED BY <2>2, <2>5, <2>6, <2>7 DEF RingKept
<1> QED BY <1>3, <1>4

LEMMA RecvKeeps ==
  ASSUME IcmpInv, NEW p \in Pingers, NEW s \in IcmpSlots, IcmpRecv(p, s)
  PROVE  IcmpInv'
PROOF
<1>1. /\ ~icwild /\ icmptab[s].icstate = "USED" /\ icmptab[s].iccount # 0 /\ TakeReply(s)
      /\ icdisturbed' = (icdisturbed \/ Awaited(s))
      /\ icsince' = icsince /\ pingcall' = pingcall /\ pingmsg' = pingmsg
  BY DEF IcmpRecv
<1>2. icunread[s] # <<>>
  BY <1>1, IcmpFacts
<1>3. /\ IcmpTypes' /\ SlotsOK' /\ RingKept'
      /\ \A t \in IcmpSlots : t # s => icmptab'[t] = icmptab[t] /\ icunread'[t] = icunread[t]
      /\ \/ icwild' /\ UNCHANGED icmptab
         \/ ~icwild' /\ icmptab'[s].icstate = "USED"
  <2>1. icdisturbed' \in BOOLEAN
    BY <1>1, Zenon
  <2> QED BY <1>1, <1>2, <2>1, IcmpFacts, TakeMoves
<1>4. ASSUME NotDisturbed, ~icwild', ~icdisturbed' PROVE NotDisturbed'
  <2>1. /\ icmptab'[s].icstate = "USED"
        /\ \A q \in Pingers : pingcall[q] # s /\ (pingcall[q] # -1 => pingcall[q] \in IcmpSlots)
    BY <1>1, <1>3, <1>4, IcmpFacts DEF Awaited
  <2>2. \A q \in Pingers : PingerKnown(q)'
    BY <1>1, <1>3, <1>4, <2>1 DEF NotDisturbed, PingerKnown
  <2>3. WaitAlone'
    BY <1>1, <1>4 DEF NotDisturbed, WaitAlone
  <2>4. ASSUME NEW t \in IcmpSlots PROVE NamedWaits(t)'
    <3>1. CASE t = s
      BY <2>1, <3>1 DEF NamedWaits
    <3>2. CASE t # s
      BY <1>1, <1>3, <1>4, <3>2 DEF NotDisturbed, NamedWaits
    <3> QED BY <3>1, <3>2
  <2> QED BY <2>2, <2>3, <2>4 DEF NotDisturbed
<1>5. icdisturbed => icdisturbed'
  BY <1>1, Zenon
<1> QED BY <1>1, <1>3, <1>4, <1>5 DEF IcmpInv

LEMMA RecvWakesKeeps ==
  ASSUME IcmpInv, NEW p \in Pingers, IcmpRecvWakes(p)
  PROVE  IcmpInv'
PROOF
<1>1. PICK s, c, m : /\ s = pingcall[p] /\ c = [pingcall EXCEPT ![p] = -1]
                     /\ m = [pingmsg EXCEPT ![p] = "none"]
  OBVIOUS
<1>2. /\ ~icwild /\ s # -1 /\ s \in IcmpSlots /\ c \in [Pingers -> {-1} \cup IcmpSlots]
      /\ m \in [Pingers -> {"none", "OK", "word"}] /\ pingmsg[p] # "none"
      /\ \A q \in Pingers \ {p} : m[q] = pingmsg[q]
      /\ pingcall' = c /\ pingmsg' = m /\ UNCHANGED <<icsince, icdisturbed>>
  BY <1>1, IcmpFacts DEF IcmpRecvWakes
<1>3. icdisturbed' = icdisturbed /\ icdisturbed' \in BOOLEAN /\ icsince' = icsince
  BY <1>2, IcmpFacts
<1>4. CASE pingmsg[p] = "OK"
  <2>1. TakeReply(s)
    BY <1>1, <1>4 DEF IcmpRecvWakes
  <2>2. icunread[s] # <<>> \/ icdisturbed'
    <3>1. icdisturbed \/ PingerKnown(p)
      BY <1>2 DEF IcmpInv, NotDisturbed
    <3> QED BY <1>1, <1>2, <1>3, <1>4, <3>1 DEF PingerKnown
  <2>3. /\ IcmpTypes' /\ SlotsOK' /\ RingKept'
        /\ \A t \in IcmpSlots : t # s => icmptab'[t] = icmptab[t] /\ icunread'[t] = icunread[t]
        /\ \/ icwild' /\ UNCHANGED icmptab
           \/ ~icwild' /\ icmptab'[s].icstate = "USED"
    BY <1>2, <1>3, <2>1, <2>2, TakeMoves
  <2>4. CASE icwild'
    BY <2>3, <2>4 DEF IcmpInv
  <2>5. CASE ~icwild'
    <3>1. icmptab'[s].icstate = "USED"
      BY <2>3, <2>5
    <3>2. NotDisturbed => NotDisturbed'
      BY ZenonT(30), <1>1, <1>2, <2>3, <3>1, ReceiverGoes
    <3> QED BY <1>2, <1>3, <2>3, <2>5, <3>2 DEF IcmpInv
  <2> QED BY <2>4, <2>5
<1>5. CASE pingmsg[p] # "OK"
  <2>1. icmptab' = [icmptab EXCEPT ![s].icstate = "USED"] /\ UNCHANGED <<icunread, icsince, icwild, icdisturbed>>
    BY <1>1, <1>2, <1>5 DEF IcmpRecvWakes
  <2>2. /\ IcmpTypes' /\ SlotsOK' /\ RingKept' /\ icmptab'[s].icstate = "USED"
        /\ \A t \in IcmpSlots : t # s => icmptab'[t] = icmptab[t]
    BY ZenonT(30), <1>2, <2>1, SetToUsed, StateMoves
  <2>3. NotDisturbed => NotDisturbed'
    <3>1. \A t \in IcmpSlots : t # s => icmptab'[t] = icmptab[t] /\ icunread'[t] = icunread[t]
      BY <2>1, <2>2
    <3> QED BY ZenonT(30), <1>1, <1>2, <2>2, <3>1, ReceiverGoes
  <2> QED BY <1>2, <2>1, <2>2, <2>3 DEF IcmpInv
<1> QED BY <1>4, <1>5

LEMMA RegisterKeeps ==
  ASSUME IcmpInv, NEW p \in Pingers, NEW r \in Remotes, IcmpRegister(p, r)
  PROVE  IcmpInv'
PROOF
<1>1. PICK s : s = Min(IcmpSlots \ InUse)
  OBVIOUS
<1>2. s \in IcmpSlots /\ s \notin InUse
  <2>1. IcmpSlots \ InUse # {} /\ IcmpSlots \ InUse \in SUBSET Nat
    BY IcmpFacts DEF IcmpRegister, InUse
  <2>2. \E x \in IcmpSlots \ InUse : \A y \in IcmpSlots \ InUse : x <= y
    BY <2>1, LeastExists
  <2> QED BY <1>1, <2>2 DEF Min
<1>3. PICK e, f, u, n :
        /\ e = icmptab[s] /\ u = icunread[s] /\ n = icsince[s]
        /\ f = RegisteredFor(e, r)
  OBVIOUS
<1>4. e.icstate = "FREE" /\ e \in EchoSlots
  BY <1>2, <1>3, IcmpFacts DEF InUse
<1>5. u = <<>> /\ SlotOf(f, u, 0)
  <2>1. SlotOf(e, u, n)
    BY <1>2, <1>3, IcmpFacts
  <2> QED BY <1>3, <1>4, <2>1, SlotRegistered
<1>6. /\ ~icwild /\ icmptab' = [icmptab EXCEPT ![s] = f] /\ icunread' = [icunread EXCEPT ![s] = u]
      /\ icsince' = [icsince EXCEPT ![s] = 0] /\ pingcall' = pingcall /\ pingmsg' = pingmsg
      /\ icwild' = icwild /\ icdisturbed' = icdisturbed
  <2>1. f = IndicesReset([e EXCEPT !.icstate = "USED", !.icremip = r, !.iccount = 0,
                                   !.icpid = "none", !.icqueue = Unused.icqueue])
    <3>1. Unused.icqueue = [i \in RingIdx |-> "none"]
      BY DEF Unused
    <3> QED BY <1>3, <1>4, <3>1 DEF IndicesReset, EchoSlots, RegisteredFor
  <2>2. icmptab' = [icmptab EXCEPT ![s] = f]
    BY <1>1, <1>3, <2>1 DEF IcmpRegister
  <2> QED BY <1>1, <1>2, <1>3, <2>2, IcmpFacts DEF IcmpRegister
<1>7. IcmpTypes' /\ SlotsOK'
  BY <1>2, <1>5, <1>6, IcmpFacts, SlotMoves
<1>8. \A t \in IcmpSlots : icmptab'[t] = IF t = s THEN f ELSE icmptab[t]
  BY <1>6, IcmpFacts
<1>9. f.icstate = "USED"
  BY <1>3, <1>4 DEF EchoSlots, RegisteredFor
<1>10. RingKept'
  BY <1>6 DEF RingKept
<1>11. ASSUME NotDisturbed PROVE NotDisturbed'
  <2>1. \A t \in IcmpSlots : icunread'[t] = icunread[t]
    BY <1>2, <1>3, <1>6, IcmpFacts
  <2>2. \A q \in Pingers : pingcall[q] # s /\ (pingcall[q] # -1 => pingcall[q] \in IcmpSlots)
    BY <1>2, <1>3, <1>4, <1>11, IcmpFacts DEF NotDisturbed, PingerKnown
  <2>3. \A q \in Pingers : PingerKnown(q)'
    BY <1>6, <1>8, <1>11, <2>1, <2>2 DEF NotDisturbed, PingerKnown
  <2>4. WaitAlone'
    BY <1>6, <1>11 DEF NotDisturbed, WaitAlone
  <2>5. \A t \in IcmpSlots : NamedWaits(t)'
    BY <1>6, <1>8, <1>9, <1>11 DEF NotDisturbed, NamedWaits
  <2> QED BY <2>3, <2>4, <2>5 DEF NotDisturbed
<1> QED BY <1>6, <1>7, <1>10, <1>11 DEF IcmpInv

Freed(e) == [e EXCEPT !.icstate = "FREE", !.iccount = 0, !.ichead = (e.ichead + e.iccount) % ICMP_SLOTS]

LEMMA ReleaseKeeps ==
  ASSUME IcmpInv, NEW p \in Pingers, NEW s \in IcmpSlots, IcmpRelease(p, s)
  PROVE  IcmpInv'
PROOF
<1>1. PICK e, f, u, n, v : e = icmptab[s] /\ u = icunread[s] /\ n = icsince[s] /\ f = Freed(e) /\ v = <<>>
  OBVIOUS
<1>2. /\ ~icwild /\ e.icstate = "USED" /\ icdisturbed' = (icdisturbed \/ Awaited(s))
      /\ icunread' = [icunread EXCEPT ![s] = v] /\ icwild' = (e.ichead + e.iccount > ICMP_QSIZ)
      /\ UNCHANGED <<icsince, pingcall, pingmsg>>
  BY <1>1 DEF IcmpRelease
<1>3. icmptab' = [icmptab EXCEPT ![s] = f] /\ icsince' = [icsince EXCEPT ![s] = n]
  <2>1. icmptab' = [icmptab EXCEPT ![s].icstate = "FREE", ![s].iccount = 0,
                                   ![s].ichead = (@ + e.iccount) % ICMP_SLOTS]
    BY <1>1 DEF IcmpRelease
  <2> QED BY <1>1, <1>2, <2>1, IcmpFacts DEF Freed, EchoSlots
<1>4. SlotOf(e, u, n)
  BY <1>1, IcmpFacts
<1>5. SlotOf(f, v, n) /\ (n <= ICMP_QSIZ => e.ichead + e.iccount <= ICMP_QSIZ)
  BY <1>1, <1>2, <1>4, SlotReleased DEF Freed
<1>6. IcmpTypes' /\ SlotsOK'
  <2>1. icwild' \in BOOLEAN /\ icdisturbed' \in BOOLEAN /\ pingcall' = pingcall /\ pingmsg' = pingmsg
    BY <1>2, IcmpFacts
  <2> QED BY <1>2, <1>3, <1>5, <2>1, IcmpFacts, SlotMoves
<1>7. /\ \A t \in IcmpSlots : icmptab'[t] = IF t = s THEN f ELSE icmptab[t]
      /\ \A t \in IcmpSlots : icunread'[t] = IF t = s THEN v ELSE icunread[t]
  BY <1>2, <1>3, IcmpFacts
<1>8. f.icstate = "FREE"
  BY <1>1, IcmpFacts DEF Freed, EchoSlots
<1>9. RingKept'
  <2>1. ASSUME icwild' PROVE icsince[s] > ICMP_QSIZ
    <3>1. n \in Nat /\ ICMP_QSIZ \in Nat /\ e.ichead \in Nat /\ e.iccount \in Nat
      BY <1>4, SlotNumbers
    <3>2. e.ichead + e.iccount > ICMP_QSIZ
      BY <1>2, <2>1, Zenon
    <3> QED BY <1>1, <1>5, <3>1, <3>2
  <2> QED BY <1>2, <2>1 DEF RingKept
<1>10. ASSUME NotDisturbed, ~icdisturbed' PROVE NotDisturbed'
  <2>1. \A q \in Pingers : pingcall[q] # s /\ (pingcall[q] # -1 => pingcall[q] \in IcmpSlots)
    <3>1. ~Awaited(s)
      BY <1>2, <1>10, Zenon
    <3> QED BY <3>1, IcmpFacts DEF Awaited
  <2>2. \A q \in Pingers : PingerKnown(q)'
    BY <1>2, <1>7, <1>10, <2>1 DEF NotDisturbed, PingerKnown
  <2>3. WaitAlone'
    BY <1>2, <1>10 DEF NotDisturbed, WaitAlone
  <2>4. \A t \in IcmpSlots : NamedWaits(t)'
    BY <1>2, <1>7, <1>8, <1>10 DEF NotDisturbed, NamedWaits
  <2> QED BY <2>2, <2>3, <2>4 DEF NotDisturbed
<1>11. icdisturbed => icdisturbed'
  BY <1>2, Zenon
<1> QED BY <1>2, <1>6, <1>9, <1>10, <1>11 DEF IcmpInv

LEMMA OtherAndKillKeep ==
  ASSUME IcmpInv, NEW p \in Pingers, IcmpOtherMessage(p) \/ PingerKilled(p)
  PROVE  IcmpInv'
PROOF
<1>1. UNCHANGED <<icmptab, icunread, icsince, icwild>> /\ ~icwild
  BY DEF IcmpOtherMessage, PingerKilled
<1>2. SlotsOK' /\ RingKept'
  BY <1>1 DEF SlotsOK, RingKept, IcmpInv
<1>3. CASE IcmpOtherMessage(p)
  <2>1. UNCHANGED <<pingcall, icdisturbed>> /\ pingmsg' = [pingmsg EXCEPT ![p] = "word"]
    BY <1>3 DEF IcmpOtherMessage
  <2>2. pingmsg' \in [Pingers -> {"none", "OK", "word"}]
    BY <2>1, IcmpFacts
  <2>3. IcmpTypes'
    BY <1>1, <2>1, <2>2 DEF IcmpTypes, IcmpInv
  <2>4. \A q \in Pingers : pingmsg'[q] = IF q = p THEN "word" ELSE pingmsg[q]
    BY <2>1, IcmpFacts
  <2>5. NotDisturbed => NotDisturbed'
    BY <1>1, <1>3, <2>1, <2>4 DEF NotDisturbed, PingerKnown, WaitAlone, NamedWaits, IcmpOtherMessage
  <2> QED BY <1>1, <1>2, <2>1, <2>3, <2>5 DEF IcmpInv
<1>4. CASE PingerKilled(p)
  <2>1. /\ icdisturbed' = TRUE /\ pingmsg' = [pingmsg EXCEPT ![p] = "none"]
        /\ pingcall' = [pingcall EXCEPT ![p] = -1]
    BY <1>4 DEF PingerKilled
  <2>2. pingmsg' \in [Pingers -> {"none", "OK", "word"}] /\ pingcall' \in [Pingers -> {-1} \cup IcmpSlots]
    BY <2>1, IcmpFacts
  <2>3. IcmpTypes'
    BY <1>1, <2>1, <2>2 DEF IcmpTypes, IcmpInv
  <2> QED BY <1>2, <2>1, <2>3 DEF IcmpInv
<1> QED BY <1>3, <1>4

LEMMA IcmpStep == IcmpInv /\ [IcmpNext]_icmpVars => IcmpInv'
PROOF
<1> SUFFICES ASSUME IcmpInv, [IcmpNext]_icmpVars PROVE IcmpInv'
  OBVIOUS
<1>1. CASE UNCHANGED icmpVars
  BY <1>1 DEF icmpVars, IcmpInv, IcmpTypes, SlotsOK, WaitAlone, RingKept, NotDisturbed,
              PingerKnown, NamedWaits
<1>2. ASSUME NEW s \in IcmpSlots, NEW r \in Remotes, NEW d \in Replies, IcmpIn(s, r, d) PROVE IcmpInv'
  BY <1>2, IcmpInKeeps
<1>3. ASSUME NEW p \in Pingers, NEW r \in Remotes, IcmpRegister(p, r) PROVE IcmpInv'
  BY <1>3, RegisterKeeps
<1>4. ASSUME NEW p \in Pingers, NEW s \in IcmpSlots,
             IcmpRecv(p, s) \/ IcmpRecvBlocks(p, s) \/ IcmpRelease(p, s)
      PROVE  IcmpInv'
  BY <1>4, RecvKeeps, RecvBlocksKeeps, ReleaseKeeps
<1>5. ASSUME NEW p \in Pingers,
             IcmpRecvWakes(p) \/ IcmpRecvTimeout(p) \/ IcmpOtherMessage(p) \/ PingerKilled(p)
      PROVE  IcmpInv'
  BY <1>5, RecvWakesKeeps, RecvTimeoutKeeps, OtherAndKillKeep
<1> QED BY <1>1, <1>2, <1>3, <1>4, <1>5 DEF IcmpNext

LEMMA IcmpInvSound == IcmpInv => PingsSound
PROOF
<1> SUFFICES ASSUME IcmpInv PROVE PingsSound
  OBVIOUS
<1>1. ASSUME NEW s \in InUse, icsince[s] <= ICMP_QSIZ
      PROVE  /\ icmptab[s].iccount = Len(icunread[s])
             /\ \A i \in DOMAIN icunread[s] :
                  /\ icmptab[s].ichead + i - 1 \in RingIdx
                  /\ icunread[s][i] = icmptab[s].icqueue[icmptab[s].ichead + i - 1]
  <2>1. PICK e, u, n : e = icmptab[s] /\ u = icunread[s] /\ n = icsince[s]
    OBVIOUS
  <2>2. SlotOf(e, u, n) /\ e.icstate # "FREE"
    BY <2>1, IcmpFacts DEF InUse
  <2>3. RingOf(e, u, n) /\ n <= ICMP_QSIZ
    BY <1>1, <2>1, <2>2 DEF SlotOf
  <2>4. /\ Len(u) \in Nat /\ e.ichead \in Nat /\ n \in Nat /\ ICMP_QSIZ \in Nat /\ e.iccount = Len(u)
        /\ DOMAIN u = 1..Len(u)
    <3>1. u \in Seq(Answers)
      BY <2>2 DEF SlotOf
    <3> QED BY <2>2, <3>1, SlotNumbers
  <2>5. ASSUME NEW i \in 1..Len(u) PROVE e.ichead + i - 1 \in RingIdx /\ u[i] = e.icqueue[e.ichead + i - 1]
    <3>1. e.ichead + Len(u) = n
      BY <2>3, <2>4 DEF RingOf
    <3>2. e.ichead + i - 1 \in RingIdx
      BY <2>3, <2>4, <3>1 DEF RingIdx
    <3> QED BY <2>3, <3>2 DEF RingOf
  <2> QED BY <2>1, <2>4, <2>5
<1>2. NoReplyMissed
  <2>1. ASSUME NEW p \in Pingers, pingcall[p] # -1, pingmsg[p] = "none", ~icwild, ~icdisturbed
        PROVE  /\ icmptab[pingcall[p]].icstate = "RECV" /\ icmptab[pingcall[p]].icpid = p
               /\ icmptab[pingcall[p]].iccount = 0
    <3>1. PingerKnown(p) /\ pingcall[p] \in IcmpSlots
      BY <2>1, IcmpFacts DEF IcmpInv, NotDisturbed
    <3>2. icunread[pingcall[p]] = <<>>
      BY <2>1, <3>1 DEF PingerKnown
    <3> QED BY <2>1, <3>1, <3>2, IcmpFacts DEF PingerKnown
  <2> QED BY <2>1 DEF NoReplyMissed
<1> QED BY <1>1, <1>2 DEF PingsSound, RingHoldsUnread, IcmpInv

(* The rings of ICMP are sound for any number of slots, processes and replies: from the
   head on they hold what has come and was not received, in order, until more than a ring
   has come for a slot; nothing is taken from outside a ring unless that happened, a
   receiver was killed, or another process took its reply or released its slot before it
   ran; and, but for the last two, nobody waits untold beside a reply. *)
THEOREM PingsSoundAlways == IcmpSpec => []PingsSound
PROOF BY IcmpInInv, IcmpStep, IcmpInvSound, PTL DEF IcmpSpec

-----------------------------------------------------------------------------
(* Remote files. *)

Ops == {"open", "read", "write", "delete", "truncate", "mkdir", "rmdir", "size"}
Bytes == RfBytes \cup {0}
Letters == {"r", "w"} \cup UNION RfModes
FileEntries == {Absent, Directory} \cup [kind : {"file"}, data : Seq(Bytes)]
Requests == {r \in [op : Ops, seq : Nat, name : RfNames, mode : SUBSET Letters,
                    pos : Nat, count : Int, byte : Bytes] : r.op # "open" => r.mode = {}}
RfReplies == [op : Ops, seq : Nat, ok : BOOLEAN, data : Seq(Bytes \cup Nat)]
Opens == {e \in [used : BOOLEAN, name : RfNames \cup {"none"}, pos : Nat, mode : SUBSET Letters] :
            e.used => e.name \in RfNames}

(* What a request leaves of an entry. *)
Served(f, r) == IF Granted(f, r) THEN Effect(f, r) ELSE f
Reads(r) == r.op \in {"read", "size"}

(* s is a mutex that the processes of A have entered: one has it, the others wait. *)
Mutex(s, A) ==
  \E W \in SUBSET A :
    /\ SemOf(s, W)
    /\ \/ s.count = 1 /\ A = {}
       \/ s.count <= 0 /\ \E h \in A \ W : A = W \cup {h}

Calling == {c \in RfClients : rfcall[c] # "idle"}

Exchanging == rfcomm.who \in RfClients

MutexInv ==
  /\ rfcall \in [RfClients -> {"idle", "calling", "killed"}]
  /\ Mutex(rf_mutex, Calling)
  /\ Exchanging => rfcomm.who \in Calling /\ ~WaitsAt(rfcomm.who, rf_mutex)

(* In what order the requests and the replies are on their way. *)
WireOrdered(T, R, s) ==
  /\ \A i \in DOMAIN T : T[i].seq < s
  /\ \A j \in DOMAIN R : R[j].seq < s
  /\ \A i, j \in DOMAIN T : i < j => T[i].seq <= T[j].seq
  /\ \A i \in DOMAIN T, j \in DOMAIN R : R[j].seq <= T[i].seq

WireOf(T, R, s) == T \in Seq(Requests) /\ R \in Seq(RfReplies) /\ s \in Nat /\ WireOrdered(T, R, s)

(* The exchange under way has the last sequence number, and the packets with
   that number are copies of its request. *)
Latest(r, T, s) ==
  /\ r \in Requests /\ r.seq + 1 = s
  /\ \A i \in DOMAIN T : T[i].seq = r.seq => T[i] = r

(* The entry of a name in an exchange that is about it, and in others. *)
EntryAsked(n, f, k, T, R, r) ==
  /\ k # Unknown =>
       /\ \A i \in DOMAIN T : T[i].name = n /\ T[i].seq # r.seq => Served(k, T[i]) = k
       /\ f = k \/ (f = Served(k, r) /\ \A i \in DOMAIN T : T[i].seq = r.seq)
  /\ \A j \in DOMAIN R : R[j].seq = r.seq =>
       /\ Served(f, r) = f
       /\ R[j].ok => /\ KnownAfter(k, r, TRUE) \in {Unknown, f}
                     /\ Reads(r) /\ k # Unknown => R[j].data = DataOf(k, r)

EntryAtRest(n, f, k, T) ==
  k # Unknown => f = k /\ \A i \in DOMAIN T : T[i].name = n => Served(k, T[i]) = k

ExchangeInv ==
  /\ rfcomm.who \in RfClients \cup {"none", "killed"}
  /\ Exchanging => /\ rfcomm = [who |-> rfcomm.who, req |-> rfcomm.req, sent |-> rfcomm.sent,
                                waits |-> rfcomm.waits, dev |-> rfcomm.dev]
                   /\ Latest(rfcomm.req, torfserver, rf_seq)

FileInv(n) ==
  IF Exchanging /\ rfcomm.req.name = n
  THEN EntryAsked(n, rffiles[n], rfknown[n], torfserver, fromrfserver, rfcomm.req)
  ELSE EntryAtRest(n, rffiles[n], rfknown[n], torfserver)

RfsInv ==
  /\ rfltab \in [RfDevs -> Opens]
  /\ MutexInv
  /\ WireOf(torfserver, fromrfserver, rf_seq)
  /\ ExchangeInv
  /\ rffiles \in [RfNames -> FileEntries] /\ rfknown \in [RfNames -> FileEntries \cup {Unknown}]
  /\ \A n \in RfNames : FileInv(n)
  /\ rfanswered

LEMMA EntryIs ==
  ASSUME NEW f \in FileEntries
  PROVE  \/ f = Absent /\ f.kind = "absent"
         \/ f = Directory /\ f.kind = "directory"
         \/ f.kind = "file" /\ f.data \in Seq(Bytes) /\ f = FileOf(f.data)
PROOF BY DEF FileEntries, Absent, Directory, FileOf

LEMMA FileIs ==
  ASSUME NEW d \in Seq(Bytes)
  PROVE  FileOf(d) \in FileEntries /\ FileOf(d).kind = "file" /\ FileOf(d).data = d
PROOF BY DEF FileEntries, FileOf

LEMMA EmptyIs == FileOf(<<>>) \in FileEntries /\ FileOf(<<>>).kind = "file"
PROOF
<1>1. <<>> \in Seq(Bytes)
  OBVIOUS
<1> QED BY <1>1, FileIs

LEMMA OverwrittenIs ==
  ASSUME NEW s \in Seq(Bytes), NEW pos \in Nat, NEW b \in Bytes
  PROVE  /\ Overwritten(s, pos, b) \in Seq(Bytes)
         /\ Overwritten(Overwritten(s, pos, b), pos, b) = Overwritten(s, pos, b)
PROOF
<1>1. PICK n : n = Max({Len(s), pos + 1})
  OBVIOUS
<1>2. n \in Nat /\ n >= Len(s) /\ n >= pos + 1 /\ n \in {Len(s), pos + 1}
  <2>1. Len(s) \in Nat /\ pos + 1 \in Nat
    OBVIOUS
  <2>2. \E x \in {Len(s), pos + 1} : \A y \in {Len(s), pos + 1} : x >= y
    BY <2>1
  <2>3. n \in {Len(s), pos + 1} /\ \A y \in {Len(s), pos + 1} : n >= y
    BY <1>1, <2>2 DEF Max
  <2> QED BY <2>1, <2>3
<1>3. PICK t : t = [i \in 1..n |-> IF i = pos + 1 THEN b ELSE IF i <= Len(s) THEN s[i] ELSE 0]
  OBVIOUS
<1>4. Overwritten(s, pos, b) = t
  BY <1>1, <1>3 DEF Overwritten
<1>5. t \in Seq(Bytes) /\ Len(t) = n
  <2>1. \A i \in 1..n : (IF i = pos + 1 THEN b ELSE IF i <= Len(s) THEN s[i] ELSE 0) \in Bytes
    BY <1>2 DEF Bytes
  <2> QED BY <1>2, <1>3, <2>1
<1>6. Max({Len(t), pos + 1}) = n
  <2>1. PICK m : m = Max({Len(t), pos + 1})
    OBVIOUS
  <2>2. n \in {Len(t), pos + 1} /\ \A y \in {Len(t), pos + 1} : n >= y /\ y \in Nat
    BY <1>2, <1>5
  <2>3. m \in {Len(t), pos + 1} /\ \A y \in {Len(t), pos + 1} : m >= y
    BY <2>1, <2>2 DEF Max
  <2> QED BY <2>1, <2>2, <2>3
<1>7. Overwritten(t, pos, b) = [i \in 1..n |-> IF i = pos + 1 THEN b ELSE IF i <= Len(t) THEN t[i] ELSE 0]
  BY <1>6 DEF Overwritten
<1>8. \A i \in 1..n : (IF i = pos + 1 THEN b ELSE IF i <= Len(t) THEN t[i] ELSE 0)
                        = IF i = pos + 1 THEN b ELSE IF i <= Len(s) THEN s[i] ELSE 0
  BY <1>3, <1>5, <1>2
<1>9. Overwritten(t, pos, b) = t
  BY <1>3, <1>7, <1>8
<1> QED BY <1>4, <1>5, <1>9

LEMMA RequestIs ==
  ASSUME NEW r \in Requests
  PROVE  /\ r.op \in Ops /\ r.seq \in Nat /\ r.name \in RfNames /\ r.pos \in Nat /\ r.count \in Int
         /\ r.byte \in Bytes /\ (r.op # "open" => r.mode = {})
PROOF BY DEF Requests

LEMMA KindsDiffer ==
  /\ Absent.kind = "absent" /\ Directory.kind = "directory" /\ Unknown.kind = "unknown"
  /\ Absent \in FileEntries /\ Directory \in FileEntries /\ Unknown \notin FileEntries
PROOF BY DEF Absent, Directory, Unknown, FileEntries

(* A copy of a request that has been served changes nothing more, and is not
   granted unless the first one was. *)
LEMMA ServedTwice ==
  ASSUME NEW f \in FileEntries, NEW r \in Requests
  PROVE  /\ Served(f, r) \in FileEntries
         /\ Served(Served(f, r), r) = Served(f, r)
         /\ Granted(Served(f, r), r) => Granted(f, r)
PROOF
<1>1. CASE ~Granted(f, r)
  BY <1>1 DEF Served
<1>2. CASE Granted(f, r)
  <2>1. Served(f, r) = Effect(f, r)
    BY <1>2 DEF Served
  <2>2. CASE r.op = "open"
    <3>1. f.kind # "directory"
      BY <1>2, <2>2 DEF Granted
    <3>2. CASE f.kind = "absent"
      <4>1. "o" \notin r.mode
        BY <1>2, <2>2, <3>2 DEF Granted
      <4>2. Effect(f, r) = FileOf(<<>>)
        BY <2>2, <3>2 DEF Effect
      <4>3. FileOf(<<>>) \in FileEntries /\ FileOf(<<>>).kind = "file"
        BY EmptyIs
      <4>4. Effect(FileOf(<<>>), r) = FileOf(<<>>)
        BY <2>2, <4>3 DEF Effect
      <4> QED BY <2>1, <4>2, <4>3, <4>4, <1>2 DEF Served
    <3>3. CASE f.kind # "absent"
      <4>1. Effect(f, r) = f
        BY <2>2, <3>3 DEF Effect
      <4> QED BY <2>1, <4>1
    <3> QED BY <3>2, <3>3
  <2>3. CASE r.op = "mkdir"
    <3>1. Effect(f, r) = Directory /\ Effect(Directory, r) = Directory
      BY <2>3 DEF Effect
    <3> QED BY <2>1, <3>1, <1>2, KindsDiffer DEF Served
  <2>4. CASE r.op \in {"rmdir", "delete"}
    <3>1. Effect(f, r) = Absent /\ Effect(Absent, r) = Absent
      BY <2>4 DEF Effect
    <3> QED BY <2>1, <3>1, <1>2, KindsDiffer DEF Served
  <2>5. CASE r.op = "truncate"
    <3>1. Effect(f, r) = FileOf(<<>>) /\ Effect(FileOf(<<>>), r) = FileOf(<<>>) /\ FileOf(<<>>) \in FileEntries
      BY <2>5, EmptyIs DEF Effect
    <3> QED BY <2>1, <3>1, <1>2 DEF Served
  <2>6. CASE r.op = "write"
    <3>1. f.kind = "file"
      BY <1>2, <2>6 DEF Granted
    <3>2. f.data \in Seq(Bytes)
      BY <3>1, EntryIs, KindsDiffer
    <3>3. PICK d : d = Overwritten(f.data, r.pos, r.byte)
      OBVIOUS
    <3>4. d \in Seq(Bytes) /\ Overwritten(d, r.pos, r.byte) = d
      BY <3>2, <3>3, RequestIs, OverwrittenIs
    <3>5. Effect(f, r) = FileOf(d)
      BY <2>6, <3>3 DEF Effect
    <3>6. FileOf(d) \in FileEntries /\ FileOf(d).data = d
      BY <3>4, FileIs
    <3>7. Effect(FileOf(d), r) = FileOf(d)
      BY <2>6, <3>4, <3>6 DEF Effect
    <3> QED BY <2>1, <3>5, <3>6, <3>7, <1>2 DEF Served
  <2>7. CASE r.op \in {"read", "size"}
    <3>1. Effect(f, r) = f
      BY <2>7 DEF Effect
    <3> QED BY <2>1, <3>1
  <2> QED BY <2>2, <2>3, <2>4, <2>5, <2>6, <2>7, RequestIs DEF Ops
<1> QED BY <1>1, <1>2

LEMMA ServedHarmless ==
  ASSUME NEW f \in FileEntries, NEW r \in Requests
  PROVE  /\ ~Changes(r) => Served(f, r) = f
         /\ Reads(r) => ~Changes(r)
PROOF
<1>1. ASSUME r.op \in {"read", "size"} PROVE Served(f, r) = f
  BY <1>1 DEF Served, Effect
<1>2. ASSUME r.op = "open", "o" \in r.mode PROVE Served(f, r) = f
  <2>1. Granted(f, r) => f.kind = "file"
    BY <1>2 DEF Granted
  <2>2. f.kind = "file" => Effect(f, r) = f
    BY <1>2 DEF Effect
  <2> QED BY <2>1, <2>2 DEF Served
<1> QED BY <1>1, <1>2 DEF Changes, Reads

(* What is known after a request was granted is what it has made of the entry. *)
LEMMA KnownAfterGranted ==
  ASSUME NEW f \in FileEntries, NEW r \in Requests, Granted(f, r)
  PROVE  /\ KnownAfter(f, r, TRUE) = Effect(f, r)
         /\ KnownAfter(Unknown, r, TRUE) \in {Unknown, Effect(f, r)}
PROOF
<1>1. f.kind # "unknown"
  BY EntryIs
<1>2. "n" \in r.mode => r.op = "open" /\ f = Absent
  <2>1. "n" \in r.mode => r.op = "open"
    BY RequestIs
  <2>2. r.op = "open" /\ "n" \in r.mode => f.kind = "absent"
    BY DEF Granted
  <2> QED BY <2>1, <2>2, EntryIs, KindsDiffer
<1>3. KnownAfter(f, r, TRUE) = Effect(IF "n" \in r.mode THEN Absent ELSE f, r)
  BY <1>1 DEF KnownAfter
<1>4. KnownAfter(f, r, TRUE) = Effect(f, r)
  BY <1>2, <1>3
<1>5. CASE ~Determines(r)
  <2>1. KnownAfter(Unknown, r, TRUE) = Unknown
    BY <1>5, KindsDiffer DEF KnownAfter
  <2> QED BY <1>4, <2>1
<1>6. CASE Determines(r)
  <2>1. KnownAfter(Unknown, r, TRUE) = Effect(IF "n" \in r.mode THEN Absent ELSE Unknown, r)
    BY <1>6 DEF KnownAfter
  <2>2. CASE "n" \in r.mode
    BY <1>2, <1>4, <2>1, <2>2
  <2>3. CASE "n" \notin r.mode
    <3>1. r.op \in {"mkdir", "rmdir", "delete", "truncate"}
      BY <1>6, <2>3 DEF Determines
    <3>2. Effect(Unknown, r) = Effect(f, r)
      BY <3>1 DEF Effect
    <3> QED BY <1>4, <2>1, <2>3, <3>2
  <2> QED BY <2>2, <2>3
<1> QED BY <1>4, <1>5, <1>6

(* A failure leaves known what the request could not have changed. *)
LEMMA KnownAfterFailure ==
  ASSUME NEW k, NEW r
  PROVE  KnownAfter(k, r, FALSE) = IF Changes(r) THEN Unknown ELSE k
PROOF BY DEF KnownAfter
-----------------------------------------------------------------------------
(* The mutex. *)
LEMMA MutexAlone ==
  ASSUME NEW s, NEW A, Mutex(s, A), NEW p \in A, NEW q \in A, ~WaitsAt(p, s), ~WaitsAt(q, s)
  PROVE  p = q
PROOF
<1>1. PICK W \in SUBSET A : SemOf(s, W) /\ \E h \in A \ W : A = W \cup {h}
  BY DEF Mutex
<1>2. ToSet(s.queue) = W
  BY <1>1, SemWaits
<1>3. p \notin W /\ q \notin W
  BY <1>2 DEF WaitsAt
<1> QED BY <1>1, <1>3

LEMMA MutexEnter ==
  ASSUME NEW s, NEW A, Mutex(s, A), NEW c, c \notin A,
         NEW t, t = IF Passes(s) THEN Take(s) ELSE Blocks(s, c)
  PROVE  Mutex(t, A \cup {c}) /\ \A p \in A : ~WaitsAt(p, s) => ~WaitsAt(p, t)
PROOF
<1>1. PICK W \in SUBSET A : /\ SemOf(s, W)
                            /\ \/ s.count = 1 /\ A = {}
                               \/ s.count <= 0 /\ \E h \in A \ W : A = W \cup {h}
  BY DEF Mutex
<1>2. s.count \in Int /\ ToSet(s.queue) = W
  BY <1>1, SemWaits DEF SemOf
<1>3. CASE Passes(s)
  <2>1. s.count = 1 /\ A = {} /\ W = {}
    BY <1>1, <1>2, <1>3 DEF Passes
  <2>2. SemOf(t, {}) /\ t.count = 0
    BY <1>1, <1>3, <2>1, SemTake
  <2>3. Mutex(t, {c})
    BY <2>2 DEF Mutex
  <2> QED BY <2>1, <2>3
<1>4. CASE ~Passes(s)
  <2>1. s.count <= 0
    BY <1>2, <1>4 DEF Passes
  <2>2. PICK h \in A \ W : A = W \cup {h}
    BY <1>1, <2>1
  <2>3. SemOf(t, W \cup {c}) /\ t.count = s.count - 1
    BY <1>1, <1>4, SemBlocks
  <2>4. t.count <= 0
    BY <1>2, <2>1, <2>3
  <2>5. W \cup {c} \in SUBSET (A \cup {c}) /\ h \in (A \cup {c}) \ (W \cup {c}) /\ A \cup {c} = (W \cup {c}) \cup {h}
    BY <2>2
  <2>6. Mutex(t, A \cup {c})
    BY <2>3, <2>4, <2>5 DEF Mutex
  <2>7. ToSet(t.queue) = W \cup {c}
    BY <2>3, SemWaits
  <2> QED BY <1>2, <2>6, <2>7 DEF WaitsAt
<1> QED BY <1>3, <1>4

LEMMA MutexLeave ==
  ASSUME NEW s, NEW A, Mutex(s, A), NEW c \in A, ~WaitsAt(c, s)
  PROVE  Mutex(Signal(s), A \ {c})
PROOF
<1>1. PICK W \in SUBSET A : SemOf(s, W) /\ s.count <= 0 /\ \E h \in A \ W : A = W \cup {h}
  BY DEF Mutex
<1>2. s.count \in Int /\ c \notin W
  BY <1>1, SemWaits DEF SemOf, WaitsAt
<1>3. A \ {c} = W
  BY <1>1, <1>2
<1>4. CASE s.count = 0
  <2>1. W = {} /\ SemOf(Signal(s), {}) /\ Signal(s).count = 1
    BY <1>1, <1>4, SemSignal
  <2> QED BY <1>3, <2>1 DEF Mutex
<1>5. CASE s.count < 0
  <2>1. PICK p \in W : SemOf(Signal(s), W \ {p})
    BY <1>1, <1>5, SemSignal
  <2>2. Signal(s).count = s.count + 1
    BY <1>1, SemSignal
  <2>3. Signal(s).count <= 0
    BY <1>2, <1>5, <2>2
  <2>4. W \ {p} \in SUBSET W /\ p \in W \ (W \ {p}) /\ W = (W \ {p}) \cup {p}
    OBVIOUS
  <2>5. Mutex(Signal(s), W)
    BY <2>1, <2>3, <2>4 DEF Mutex
  <2> QED BY <1>3, <2>5
<1> QED BY <1>1, <1>2, <1>4, <1>5

LEMMA MutexGone ==
  ASSUME NEW s, NEW A, Mutex(s, A), NEW c \in A, WaitsAt(c, s)
  PROVE  Mutex(Leaves(s, c), A \ {c}) /\ \A p \in A : ~WaitsAt(p, s) => ~WaitsAt(p, Leaves(s, c))
PROOF
<1>1. PICK W \in SUBSET A : SemOf(s, W) /\ s.count <= 0 /\ \E h \in A \ W : A = W \cup {h}
  BY DEF Mutex
<1>2. ToSet(s.queue) = W /\ c \in W /\ s.count \in Int
  BY <1>1, SemWaits DEF SemOf, WaitsAt
<1>3. SemOf(Leaves(s, c), W \ {c}) /\ Leaves(s, c).count = s.count + 1 /\ s.count < 0
  BY <1>1, <1>2, SemLeaves
<1>4. Leaves(s, c).count <= 0
  BY <1>2, <1>3
<1>5. PICK h \in A \ W : A = W \cup {h}
  BY <1>1
<1>6. W \ {c} \in SUBSET (A \ {c}) /\ h \in (A \ {c}) \ (W \ {c}) /\ A \ {c} = (W \ {c}) \cup {h}
  BY <1>2, <1>5
<1>7. Mutex(Leaves(s, c), A \ {c})
  BY <1>3, <1>4, <1>6 DEF Mutex
<1>8. ToSet(Leaves(s, c).queue) = W \ {c}
  BY <1>3, SemWaits
<1> QED BY <1>2, <1>7, <1>8 DEF WaitsAt
-----------------------------------------------------------------------------
(* The packets on the way and the entry of a name. *)
LEMMA WireIs ==
  ASSUME NEW T, NEW R, NEW s, WireOf(T, R, s)
  PROVE  /\ s \in Nat /\ DOMAIN T = 1..Len(T) /\ DOMAIN R = 1..Len(R) /\ Len(T) \in Nat /\ Len(R) \in Nat
         /\ \A i \in 1..Len(T) : T[i] \in Requests /\ T[i].seq \in Nat /\ T[i].seq < s
         /\ \A j \in 1..Len(R) : R[j] \in RfReplies /\ R[j].seq \in Nat /\ R[j].seq < s
         /\ \A i, j \in 1..Len(T) : i < j => T[i].seq <= T[j].seq
         /\ \A i \in 1..Len(T), j \in 1..Len(R) : R[j].seq <= T[i].seq
PROOF
<1>1. T \in Seq(Requests) /\ R \in Seq(RfReplies) /\ s \in Nat /\ WireOrdered(T, R, s)
  BY DEF WireOf
<1>2. DOMAIN T = 1..Len(T) /\ DOMAIN R = 1..Len(R) /\ Len(T) \in Nat /\ Len(R) \in Nat
  BY <1>1
<1>3. \A i \in 1..Len(T) : T[i] \in Requests
  BY <1>1
<1>4. \A j \in 1..Len(R) : R[j] \in RfReplies
  BY <1>1
<1>5. \A x \in RfReplies : x.seq \in Nat
  BY DEF RfReplies
<1> QED BY <1>1, <1>2, <1>3, <1>4, <1>5, RequestIs DEF WireOrdered

LEMMA TailIs ==
  ASSUME NEW S, NEW T \in Seq(S), T # <<>>
  PROVE  /\ Tail(T) \in Seq(S) /\ Head(T) = T[1] /\ Len(T) >= 1 /\ Len(T) \in Nat /\ Len(Tail(T)) = Len(T) - 1
         /\ DOMAIN Tail(T) = 1..Len(Tail(T)) /\ DOMAIN T = 1..Len(T)
         /\ \A i \in DOMAIN Tail(T) : Tail(T)[i] = T[i + 1] /\ i + 1 \in DOMAIN T
PROOF OBVIOUS

LEMMA AppendedIs ==
  ASSUME NEW S, NEW T \in Seq(S), NEW x \in S
  PROVE  /\ Append(T, x) \in Seq(S) /\ Len(Append(T, x)) = Len(T) + 1 /\ Len(T) \in Nat
         /\ DOMAIN Append(T, x) = 1..(Len(T) + 1) /\ DOMAIN T = 1..Len(T)
         /\ \A i \in DOMAIN T : Append(T, x)[i] = T[i]
         /\ Append(T, x)[Len(T) + 1] = x
         /\ \A i \in DOMAIN Append(T, x) : (i \in DOMAIN T /\ Append(T, x)[i] = T[i]) \/ (i = Len(T) + 1 /\ Append(T, x)[i] = x)
PROOF OBVIOUS

(* A reply is sent, or lost, to the request at the head. *)
LEMMA WireServed ==
  ASSUME NEW T, NEW R, NEW s, WireOf(T, R, s), T # <<>>,
         NEW a \in RfReplies, a.seq = Head(T).seq,
         NEW Q, Q \in {R, Append(R, a)}
  PROVE  WireOf(Tail(T), Q, s)
PROOF
<1>0. T \in Seq(Requests) /\ R \in Seq(RfReplies)
  BY DEF WireOf
<1>1. /\ Tail(T) \in Seq(Requests) /\ Head(T) = T[1] /\ 1 \in DOMAIN T
      /\ \A i \in DOMAIN Tail(T) : i \in Nat /\ i > 0 /\ Tail(T)[i] = T[i + 1] /\ i + 1 \in DOMAIN T
  BY <1>0, TailIs
<1>2. Q \in Seq(RfReplies) /\ \A j \in DOMAIN Q : (j \in DOMAIN R /\ Q[j] = R[j]) \/ Q[j] = a
  <2>1. CASE Q = R
    BY <1>0, <2>1
  <2>2. CASE Q = Append(R, a)
    BY <1>0, <2>2, AppendedIs
  <2> QED BY <2>1, <2>2
<1>3. \A i \in DOMAIN T : T[i].seq \in Nat /\ T[i].seq < s /\ (1 < i => a.seq <= T[i].seq)
  BY <1>1, WireIs
<1>4. \A i \in DOMAIN Tail(T) : Tail(T)[i].seq < s
  BY <1>1, <1>3
<1>5. \A j \in DOMAIN Q : Q[j].seq < s
  BY <1>1, <1>2, <1>3, WireIs
<1>6. ASSUME NEW i \in DOMAIN Tail(T), NEW j \in DOMAIN Tail(T), i < j
      PROVE  Tail(T)[i].seq <= Tail(T)[j].seq
  <2>1. i + 1 \in DOMAIN T /\ j + 1 \in DOMAIN T /\ i + 1 < j + 1
    BY <1>1, <1>6
  <2>2. T[i + 1].seq <= T[j + 1].seq
    BY <2>1, WireIs
  <2> QED BY <1>1, <2>2
<1>7. ASSUME NEW i \in DOMAIN Tail(T), NEW j \in DOMAIN Q PROVE Q[j].seq <= Tail(T)[i].seq
  <2>1. i + 1 \in DOMAIN T /\ 1 < i + 1 /\ Tail(T)[i] = T[i + 1]
    BY <1>1
  <2>2. a.seq <= T[i + 1].seq
    BY <1>3, <2>1
  <2>3. j \in DOMAIN R => R[j].seq <= T[i + 1].seq
    BY <2>1, WireIs
  <2> QED BY <1>2, <2>1, <2>2, <2>3
<1> QED BY <1>1, <1>2, <1>4, <1>5, <1>6, <1>7, WireIs DEF WireOf, WireOrdered

LEMMA WireSent ==
  ASSUME NEW T, NEW R, NEW s, WireOf(T, R, s), NEW r, Latest(r, T, s)
  PROVE  WireOf(Append(T, r), R, s) /\ Latest(r, Append(T, r), s)
PROOF
<1>0. T \in Seq(Requests) /\ R \in Seq(RfReplies) /\ r \in Requests /\ r.seq \in Nat /\ r.seq + 1 = s
  BY RequestIs DEF WireOf, Latest
<1>1. /\ Append(T, r) \in Seq(Requests) /\ Len(T) \in Nat /\ DOMAIN T = 1..Len(T)
      /\ \A i \in DOMAIN Append(T, r) : (i \in DOMAIN T /\ Append(T, r)[i] = T[i]) \/ (i = Len(T) + 1 /\ Append(T, r)[i] = r)
  BY <1>0, AppendedIs
<1>2. /\ \A i \in DOMAIN T : T[i].seq \in Nat /\ T[i].seq <= r.seq /\ T[i].seq < s
      /\ \A j \in DOMAIN R : R[j].seq \in Nat /\ R[j].seq <= r.seq
  BY <1>0, WireIs
<1>3. \A i \in DOMAIN Append(T, r) : Append(T, r)[i].seq < s
  BY <1>0, <1>1, <1>2
<1>4. ASSUME NEW i \in DOMAIN Append(T, r), NEW j \in DOMAIN Append(T, r), i < j
      PROVE  Append(T, r)[i].seq <= Append(T, r)[j].seq
  <2>1. i \in DOMAIN T
    BY <1>1, <1>4
  <2>2. Append(T, r)[i] = T[i]
    BY <1>1, <2>1
  <2>3. j \in DOMAIN T => T[i].seq <= T[j].seq
    BY <1>4, <2>1, WireIs
  <2> QED BY <1>1, <1>2, <2>1, <2>2, <2>3
<1>5. \A i \in DOMAIN Append(T, r), j \in DOMAIN R : R[j].seq <= Append(T, r)[i].seq
  BY <1>1, <1>2, WireIs
<1>6. \A i \in DOMAIN Append(T, r) : Append(T, r)[i].seq = r.seq => Append(T, r)[i] = r
  BY <1>1 DEF Latest
<1> QED BY <1>0, <1>1, <1>3, <1>4, <1>5, <1>6, WireIs DEF WireOf, WireOrdered, Latest

LEMMA WireReceived ==
  ASSUME NEW T, NEW R, NEW s, WireOf(T, R, s), R # <<>>
  PROVE  WireOf(T, Tail(R), s) /\ Head(R) = R[1] /\ 1 \in DOMAIN R /\ Head(R) \in RfReplies
PROOF
<1>0. R \in Seq(RfReplies) /\ T \in Seq(Requests)
  BY DEF WireOf
<1>1. /\ Tail(R) \in Seq(RfReplies) /\ Head(R) = R[1] /\ 1 \in DOMAIN R
      /\ \A i \in DOMAIN Tail(R) : Tail(R)[i] = R[i + 1] /\ i + 1 \in DOMAIN R
  BY <1>0, TailIs
<1>2. Head(R) \in RfReplies
  BY <1>1, WireIs
<1> QED BY <1>0, <1>1, <1>2, WireIs DEF WireOf, WireOrdered
-----------------------------------------------------------------------------
(* What the steps of an exchange do to the entry of a name. *)
ReplyTo(f, q) ==
  [op |-> q.op, seq |-> q.seq, ok |-> Granted(f, q),
   data |-> IF Granted(f, q) THEN DataOf(f, q) ELSE <<>>]

LEMMA ReplyIs ==
  ASSUME NEW f, NEW q
  PROVE  ReplyTo(f, q).seq = q.seq /\ ReplyTo(f, q).ok = Granted(f, q)
         /\ (Granted(f, q) => ReplyTo(f, q).data = DataOf(f, q))
PROOF BY DEF ReplyTo

(* Both before an exchange's request is first served and after it, the entry is
   known to be what the request makes of it. *)
LEMMA KnownServed ==
  ASSUME NEW k \in FileEntries, NEW r \in Requests, NEW f, f = k \/ f = Served(k, r), Granted(f, r)
  PROVE  KnownAfter(k, r, TRUE) = Served(f, r) /\ Served(f, r) = Served(k, r) /\ f \in FileEntries
PROOF
<1>1. CASE f = k
  <2>1. KnownAfter(k, r, TRUE) = Effect(k, r)
    BY <1>1, KnownAfterGranted
  <2> QED BY <1>1, <2>1 DEF Served
<1>2. CASE f = Served(k, r)
  <2>1. Granted(k, r) /\ Served(f, r) = f /\ f \in FileEntries
    BY <1>2, ServedTwice
  <2>2. KnownAfter(k, r, TRUE) = Effect(k, r)
    BY <2>1, KnownAfterGranted
  <2>3. Served(k, r) = Effect(k, r)
    BY <2>1 DEF Served
  <2> QED BY <1>2, <2>1, <2>2, <2>3
<1> QED BY <1>1, <1>2

LEMMA KnownUnserved ==
  ASSUME NEW f \in FileEntries, NEW r \in Requests, Granted(f, r)
  PROVE  KnownAfter(Unknown, r, TRUE) \in {Unknown, Served(f, r)}
PROOF
<1>1. KnownAfter(Unknown, r, TRUE) \in {Unknown, Effect(f, r)}
  BY KnownAfterGranted
<1> QED BY <1>1 DEF Served

(* The server serves a copy of the request of the exchange. *)
LEMMA ServesCurrent ==
  ASSUME NEW n, NEW f \in FileEntries, NEW k \in FileEntries \cup {Unknown}, NEW T, NEW R, NEW s, NEW r,
         WireOf(T, R, s), Latest(r, T, s), EntryAsked(n, f, k, T, R, r), T # <<>>,
         Head(T).seq = r.seq, NEW Q, Q \in {R, Append(R, ReplyTo(f, r))}
  PROVE  EntryAsked(n, Served(f, r), k, Tail(T), Q, r)
PROOF
<1>0. T \in Seq(Requests) /\ R \in Seq(RfReplies) /\ r \in Requests /\ r.seq \in Nat
  BY RequestIs DEF WireOf, Latest
<1>1. /\ Head(T) = T[1] /\ 1 \in DOMAIN T
      /\ \A i \in DOMAIN Tail(T) : i \in Nat /\ i > 0 /\ Tail(T)[i] = T[i + 1] /\ i + 1 \in DOMAIN T
  BY <1>0, TailIs
<1>2. ASSUME NEW i \in DOMAIN Tail(T) PROVE Tail(T)[i].seq = r.seq
  <2>1. i + 1 \in DOMAIN T /\ 1 < i + 1 /\ Tail(T)[i] = T[i + 1]
    BY <1>1
  <2>2. r.seq <= T[i + 1].seq /\ T[i + 1].seq < s /\ T[i + 1].seq \in Nat
    BY <1>1, <2>1, WireIs
  <2> QED BY <1>0, <2>1, <2>2 DEF Latest
<1>3. Served(Served(f, r), r) = Served(f, r)
  BY <1>0, ServedTwice
<1>4. k # Unknown => f = k \/ f = Served(k, r)
  BY DEF EntryAsked
<1>5. k # Unknown => Served(f, r) = Served(k, r)
  <2>1. k # Unknown => k \in FileEntries
    OBVIOUS
  <2> QED BY <1>0, <1>4, <2>1, ServedTwice
<1>6. ASSUME Granted(f, r)
      PROVE  /\ KnownAfter(k, r, TRUE) \in {Unknown, Served(f, r)}
             /\ Reads(r) /\ k # Unknown => DataOf(f, r) = DataOf(k, r)
  <2>1. CASE k = Unknown
    BY <1>0, <1>6, <2>1, KnownUnserved
  <2>2. CASE k # Unknown
    <3>1. k \in FileEntries
      BY <2>2
    <3>2. KnownAfter(k, r, TRUE) = Served(f, r)
      BY <1>0, <1>4, <1>6, <2>2, <3>1, KnownServed
    <3>3. Reads(r) => f = k
      BY <1>0, <1>4, <2>2, <3>1, ServedHarmless
    <3> QED BY <3>2, <3>3
  <2> QED BY <2>1, <2>2
<1>7. ASSUME NEW j \in DOMAIN Q, Q[j].seq = r.seq, Q[j].ok
      PROVE  /\ KnownAfter(k, r, TRUE) \in {Unknown, Served(f, r)}
             /\ Reads(r) /\ k # Unknown => Q[j].data = DataOf(k, r)
  <2>1. CASE j \in DOMAIN R /\ Q[j] = R[j]
    <3>1. Served(f, r) = f /\ KnownAfter(k, r, TRUE) \in {Unknown, f}
          /\ (Reads(r) /\ k # Unknown => R[j].data = DataOf(k, r))
      BY <1>7, <2>1 DEF EntryAsked
    <3> QED BY <2>1, <3>1
  <2>2. CASE Q[j] = ReplyTo(f, r)
    <3>1. Granted(f, r) /\ Q[j].data = DataOf(f, r)
      BY <1>7, <2>2, ReplyIs
    <3> QED BY <1>6, <3>1
  <2>3. (j \in DOMAIN R /\ Q[j] = R[j]) \/ Q[j] = ReplyTo(f, r)
    <3>1. CASE Q = R
      BY <3>1
    <3>2. CASE Q = Append(R, ReplyTo(f, r))
      BY <1>0, <3>2
    <3> QED BY <3>1, <3>2
  <2> QED BY <2>1, <2>2, <2>3
<1> QED BY <1>2, <1>3, <1>5, <1>7 DEF EntryAsked

(* The server serves a request of an earlier exchange. *)
LEMMA ServesEarlier ==
  ASSUME NEW n, NEW f \in FileEntries, NEW k \in FileEntries \cup {Unknown}, NEW T, NEW R, NEW s, NEW r,
         WireOf(T, R, s), Latest(r, T, s), EntryAsked(n, f, k, T, R, r), T # <<>>,
         Head(T).seq # r.seq, NEW a, a.seq # r.seq, NEW Q, Q \in {R, Append(R, a)},
         NEW g, g = IF Head(T).name = n THEN Served(f, Head(T)) ELSE f
  PROVE  EntryAsked(n, g, k, Tail(T), Q, r)
PROOF
<1>0. T \in Seq(Requests) /\ R \in Seq(RfReplies) /\ r \in Requests /\ r.seq \in Nat /\ r.seq + 1 = s
  BY RequestIs DEF WireOf, Latest
<1>1. /\ Head(T) = T[1] /\ 1 \in DOMAIN T
      /\ \A i \in DOMAIN Tail(T) : i \in Nat /\ i > 0 /\ Tail(T)[i] = T[i + 1] /\ i + 1 \in DOMAIN T
  BY <1>0, TailIs
<1>2. T[1].seq \in Nat /\ T[1].seq < r.seq
  BY <1>0, <1>1, WireIs
<1>3. ASSUME NEW j \in DOMAIN Q PROVE Q[j].seq # r.seq
  <2>1. CASE j \in DOMAIN R /\ Q[j] = R[j]
    <3>1. R[j].seq <= T[1].seq /\ R[j].seq \in Nat
      BY <1>1, <2>1, WireIs
    <3> QED BY <1>0, <1>2, <2>1, <3>1
  <2>3. (j \in DOMAIN R /\ Q[j] = R[j]) \/ Q[j] = a
    <3>1. CASE Q = R
      BY <3>1
    <3>2. CASE Q = Append(R, a)
      BY <1>0, <3>2
    <3> QED BY <3>1, <3>2
  <2> QED BY <2>1, <2>3
<1>4. k # Unknown => /\ \A i \in DOMAIN T : T[i].name = n /\ T[i].seq # r.seq => Served(k, T[i]) = k
                     /\ f = k
  <2>1. T[1].seq # r.seq
    BY <1>1
  <2> QED BY <1>1, <2>1 DEF EntryAsked
<1>5. k # Unknown => g = k
  BY <1>1, <1>4
<1> QED BY <1>1, <1>3, <1>4, <1>5 DEF EntryAsked

(* The server serves a request about another name. *)
LEMMA ServesAnother ==
  ASSUME NEW n, NEW f \in FileEntries, NEW k \in FileEntries \cup {Unknown}, NEW T, NEW R, NEW s, NEW r,
         WireOf(T, R, s), Latest(r, T, s), r.name = n, EntryAsked(n, f, k, T, R, r), T # <<>>,
         NEW a, a.seq = Head(T).seq, NEW Q, Q \in {R, Append(R, a)}, Head(T).name # n
  PROVE  EntryAsked(n, f, k, Tail(T), Q, r)
PROOF
<1>0. T \in Seq(Requests)
  BY DEF WireOf
<1>1. Head(T) = T[1] /\ 1 \in DOMAIN T
  BY <1>0, TailIs
<1>2. Head(T).seq # r.seq
  BY <1>1 DEF Latest
<1> QED BY <1>2, ServesEarlier

LEMMA ServesAtRest ==
  ASSUME NEW n, NEW f \in FileEntries, NEW k \in FileEntries \cup {Unknown}, NEW T \in Seq(Requests),
         EntryAtRest(n, f, k, T), T # <<>>,
         NEW g, g = IF Head(T).name = n THEN Served(f, Head(T)) ELSE f
  PROVE  EntryAtRest(n, g, k, Tail(T))
PROOF
<1>1. /\ Head(T) = T[1] /\ 1 \in DOMAIN T
      /\ \A i \in DOMAIN Tail(T) : Tail(T)[i] = T[i + 1] /\ i + 1 \in DOMAIN T
  BY TailIs
<1> QED BY <1>1 DEF EntryAtRest

LEMMA SendsAsked ==
  ASSUME NEW n, NEW f, NEW k, NEW T \in Seq(Requests), NEW R, NEW r \in Requests,
         EntryAsked(n, f, k, T, R, r)
  PROVE  EntryAsked(n, f, k, Append(T, r), R, r)
PROOF
<1>1. \A i \in DOMAIN Append(T, r) : (i \in DOMAIN T /\ Append(T, r)[i] = T[i]) \/ Append(T, r)[i] = r
  BY AppendedIs
<1> QED BY <1>1 DEF EntryAsked

LEMMA SendsAtRest ==
  ASSUME NEW n, NEW f, NEW k, NEW T \in Seq(Requests), NEW r \in Requests, r.name # n,
         EntryAtRest(n, f, k, T)
  PROVE  EntryAtRest(n, f, k, Append(T, r))
PROOF
<1>1. \A i \in DOMAIN Append(T, r) : (i \in DOMAIN T /\ Append(T, r)[i] = T[i]) \/ Append(T, r)[i] = r
  BY AppendedIs
<1> QED BY <1>1 DEF EntryAtRest

(* An exchange starts: every packet on its way is of an earlier one. *)
LEMMA StartsAsked ==
  ASSUME NEW n, NEW f, NEW k, NEW T, NEW R, NEW r, WireOf(T, R, r.seq), EntryAtRest(n, f, k, T)
  PROVE  EntryAsked(n, f, k, T, R, r)
PROOF
<1>1. \A j \in DOMAIN R : R[j].seq # r.seq
  BY WireIs
<1> QED BY <1>1 DEF EntryAsked, EntryAtRest

(* An exchange ends with a reply, or with a failure. *)
LEMMA SucceedsAtRest ==
  ASSUME NEW n, NEW f, NEW k, NEW T, NEW R, NEW s, NEW r, R # <<>>,
         WireOf(T, R, s), Latest(r, T, s), EntryAsked(n, f, k, T, R, r),
         Head(R).seq = r.seq, Head(R).ok
  PROVE  /\ EntryAtRest(n, f, KnownAfter(k, r, TRUE), T)
         /\ KnownAfter(k, r, TRUE) \in {Unknown, f}
         /\ k # Unknown /\ Reads(r) => Head(R).data = DataOf(k, r)
PROOF
<1>1. Head(R) = R[1] /\ 1 \in DOMAIN R
  BY WireReceived
<1>2. /\ Served(f, r) = f /\ KnownAfter(k, r, TRUE) \in {Unknown, f}
      /\ Reads(r) /\ k # Unknown => R[1].data = DataOf(k, r)
  BY <1>1 DEF EntryAsked
<1>3. ASSUME NEW i \in DOMAIN T PROVE T[i] = r
  <2>1. r.seq <= T[i].seq /\ T[i].seq < s /\ T[i].seq \in Nat
    BY <1>1, WireIs
  <2>2. r.seq \in Nat /\ r.seq + 1 = s
    BY RequestIs DEF Latest
  <2> QED BY <2>1, <2>2 DEF Latest
<1> QED BY <1>1, <1>2, <1>3 DEF EntryAtRest

LEMMA FailsAtRest ==
  ASSUME NEW n, NEW f, NEW k \in FileEntries \cup {Unknown}, NEW T, NEW R, NEW s, NEW r,
         Latest(r, T, s), EntryAsked(n, f, k, T, R, r)
  PROVE  EntryAtRest(n, f, KnownAfter(k, r, FALSE), T)
PROOF
<1>1. CASE Changes(r)
  BY <1>1, KnownAfterFailure DEF EntryAtRest
<1>2. CASE ~Changes(r)
  <2>1. KnownAfter(k, r, FALSE) = k
    BY <1>2, KnownAfterFailure
  <2>2. SUFFICES ASSUME k # Unknown PROVE EntryAtRest(n, f, k, T)
    BY <2>1 DEF EntryAtRest
  <2>3. r \in Requests /\ k \in FileEntries
    BY <2>2 DEF Latest
  <2>4. Served(k, r) = k
    BY <1>2, <2>3, ServedHarmless
  <2> QED BY <2>2, <2>4 DEF EntryAtRest, EntryAsked, Latest
<1> QED BY <1>1, <1>2

(* Fewer replies on their way *)
LEMMA ReceivesAsked ==
  ASSUME NEW n, NEW f, NEW k, NEW T, NEW R \in Seq(RfReplies), NEW r, R # <<>>, EntryAsked(n, f, k, T, R, r)
  PROVE  EntryAsked(n, f, k, T, Tail(R), r)
PROOF
<1>1. \A i \in DOMAIN Tail(R) : Tail(R)[i] = R[i + 1] /\ i + 1 \in DOMAIN R
  BY TailIs
<1> QED BY <1>1 DEF EntryAsked
-----------------------------------------------------------------------------
(* The steps. *)
LEMMA OpensAre ==
  ASSUME NEW e \in Opens
  PROVE  /\ e.used \in BOOLEAN /\ e.pos \in Nat /\ e.mode \subseteq Letters
         /\ e.used => e.name \in RfNames
         /\ \A p \in Nat : [e EXCEPT !.pos = p] \in Opens
         /\ [e EXCEPT !.used = FALSE] \in Opens
PROOF BY DEF Opens

LEMMA RfsInitially == RfsInit => RfsInv
PROOF
<1> SUFFICES ASSUME RfsInit PROVE RfsInv
  OBVIOUS
<1> USE DEF RfsInit
<1>0. rfcomm.who = "none" /\ "none" \notin RfClients
  BY RfSizes DEF NoRfComm
<1>1. NotOpen \in Opens
  BY DEF NotOpen, Opens
<1>2. MutexInv
  <2>1. Calling = {}
    BY DEF Calling
  <2>2. SemOf(rf_mutex, {}) /\ rf_mutex.count = 1
    BY SemNew DEF NewSem
  <2>3. Mutex(rf_mutex, {})
    BY <2>2 DEF Mutex
  <2> QED BY <1>0, <2>1, <2>3 DEF MutexInv, Exchanging
<1>3. WireOf(torfserver, fromrfserver, rf_seq)
  <2>1. torfserver \in Seq(Requests) /\ fromrfserver \in Seq(RfReplies) /\ DOMAIN torfserver = {} /\ DOMAIN fromrfserver = {}
    OBVIOUS
  <2> QED BY <2>1 DEF WireOf, WireOrdered
<1>4. ExchangeInv
  BY <1>0 DEF ExchangeInv, Exchanging
<1>5. \A n \in RfNames : FileInv(n)
  <2>1. DOMAIN torfserver = {}
    OBVIOUS
  <2> QED BY <1>0, <2>1 DEF FileInv, EntryAtRest, Exchanging
<1>6. Absent \in FileEntries
  BY KindsDiffer
<1> QED BY <1>1, <1>2, <1>3, <1>4, <1>5, <1>6 DEF RfsInv

LEMMA MutexReturns ==
  ASSUME MutexInv, NEW c \in Calling, ~WaitsAt(c, rf_mutex), RfReturns(c), ~Exchanging'
  PROVE  MutexInv'
PROOF
<1>1. c \in RfClients /\ rfcall' = [rfcall EXCEPT ![c] = "idle"] /\ rfcall \in [RfClients -> {"idle", "calling", "killed"}]
  BY DEF Calling, RfReturns, MutexInv
<1>2. Calling' = Calling \ {c}
  BY <1>1 DEF Calling
<1>3. Mutex(rf_mutex', Calling')
  BY <1>2, MutexLeave DEF MutexInv, RfReturns
<1>4. rfcall' \in [RfClients -> {"idle", "calling", "killed"}]
  BY <1>1
<1> QED BY <1>3, <1>4 DEF MutexInv

LEMMA HolderHasMutex ==
  ASSUME MutexInv, NEW c \in RfClients, rfcomm.who = c \/ HasMutex(c)
  PROVE  c \in Calling /\ ~WaitsAt(c, rf_mutex)
PROOF BY DEF MutexInv, Exchanging, HasMutex, Calling

LEMMA RfCallKeeps ==
  ASSUME RfsInv, NEW c \in RfClients, RfCall(c)
  PROVE  RfsInv'
PROOF
<1> USE DEF RfCall
<1>1. c \notin Calling /\ rfcall \in [RfClients -> {"idle", "calling", "killed"}]
  BY DEF RfsInv, MutexInv, Calling
<1>2. Calling' = Calling \cup {c}
  BY <1>1 DEF Calling
<1>3. Mutex(rf_mutex', Calling') /\ \A p \in Calling : ~WaitsAt(p, rf_mutex) => ~WaitsAt(p, rf_mutex')
  BY <1>1, <1>2, MutexEnter DEF RfsInv, MutexInv
<1>4. rfcall' \in [RfClients -> {"idle", "calling", "killed"}]
  BY <1>1
<1>5. MutexInv'
  BY <1>2, <1>3, <1>4 DEF RfsInv, MutexInv, Exchanging
<1> QED BY <1>5 DEF RfsInv, ExchangeInv, FileInv, Exchanging

LEMMA RfLocalKeeps ==
  ASSUME RfsInv, NEW c \in RfClients, NEW call \in RfCalls, RfLocal(c, call)
  PROVE  RfsInv'
PROOF
<1> USE DEF RfLocal
<1>1. ~Exchanging' /\ rfcomm' = rfcomm
  BY RfSizes DEF HasMutex, Exchanging
<1>2. c \in Calling /\ ~WaitsAt(c, rf_mutex)
  BY HolderHasMutex DEF RfsInv
<1>3. MutexInv'
  BY <1>1, <1>2, MutexReturns DEF RfsInv
<1>4. call.dev \in RfDevs /\ (call.op = "seek" => call.pos \in Nat)
  BY RfSizes DEF RfCalls
<1>5. rfltab[call.dev] \in Opens /\ rfltab \in [RfDevs -> Opens]
  BY <1>4 DEF RfsInv
<1>6. [rfltab[call.dev] EXCEPT !.used = FALSE] \in Opens
      /\ (call.op = "seek" => [rfltab[call.dev] EXCEPT !.pos = call.pos] \in Opens)
  BY <1>4, <1>5, OpensAre
<1>7. rfltab' \in [RfDevs -> Opens]
  <2>1. CASE rfltab' = rfltab
    BY <1>5, <2>1
  <2>2. CASE call.op = "seek" /\ rfltab' = [rfltab EXCEPT ![call.dev].pos = call.pos]
    <3>1. rfltab' = [rfltab EXCEPT ![call.dev] = [rfltab[call.dev] EXCEPT !.pos = call.pos]]
      BY <2>2
    <3> QED BY <1>5, <1>6, <2>2, <3>1
  <2>3. CASE rfltab' = [rfltab EXCEPT ![call.dev].used = FALSE]
    <3>1. rfltab' = [rfltab EXCEPT ![call.dev] = [rfltab[call.dev] EXCEPT !.used = FALSE]]
      BY <2>3
    <3> QED BY <1>5, <1>6, <3>1
  <2> QED BY <2>1, <2>2, <2>3
<1> QED BY <1>1, <1>3, <1>7 DEF RfsInv, ExchangeInv, FileInv, Exchanging

LEMMA RfRefusedKeeps ==
  ASSUME RfsInv, NEW c \in RfClients, NEW call \in RfCalls, RfRefused(c, call)
  PROVE  RfsInv'
PROOF
<1> USE DEF RfRefused
<1>1. ~Exchanging' /\ rfcomm' = rfcomm
  BY RfSizes DEF HasMutex, Exchanging
<1>2. c \in Calling /\ ~WaitsAt(c, rf_mutex)
  BY HolderHasMutex DEF RfsInv
<1>3. MutexInv'
  BY <1>1, <1>2, MutexReturns DEF RfsInv
<1> QED BY <1>1, <1>3 DEF RfsInv, ExchangeInv, FileInv, Exchanging

LEMMA RequestTyped ==
  ASSUME RfsInv, NEW call \in RfCalls, call.op \notin {"seek", "close"}, Allowed(call)
  PROVE  RequestOf(call) \in Requests /\ RequestOf(call).seq = rf_seq
PROOF
<1>0. rf_seq \in Nat /\ rfltab \in [RfDevs -> Opens] /\ 0 \in Nat /\ 0 \in Int /\ 0 \in Bytes /\ {} \in SUBSET Letters
  BY DEF RfsInv, WireOf, Bytes
<1>1. NotOpen.pos = 0
  BY DEF NotOpen
<1>2. CASE call.op = "open"
  <2>1. call.name \in RfNames /\ call.mode \in RfModes
    BY <1>2 DEF RfCalls
  <2>2. rfsgetmode(call.mode) \in SUBSET Letters
    BY <2>1 DEF rfsgetmode, Letters
  <2>3. RequestOf(call) = [op |-> "open", seq |-> rf_seq, name |-> call.name, mode |-> rfsgetmode(call.mode),
                           pos |-> 0, count |-> 0, byte |-> 0]
    BY <1>1, <1>2 DEF RequestOf
  <2> QED BY <1>0, <2>1, <2>2, <2>3 DEF Requests, Ops
<1>3. CASE call.op = "read"
  <2>1. call.dev \in RfDevs /\ call.count \in Int /\ rfltab[call.dev].used
    BY <1>3, RfSizes DEF RfCalls, Allowed
  <2>2. rfltab[call.dev].name \in RfNames /\ rfltab[call.dev].pos \in Nat
    BY <1>0, <2>1, OpensAre
  <2>3. RequestOf(call) = [op |-> "read", seq |-> rf_seq, name |-> rfltab[call.dev].name, mode |-> {},
                           pos |-> rfltab[call.dev].pos, count |-> call.count, byte |-> 0]
    BY <1>3 DEF RequestOf
  <2> QED BY <1>0, <2>1, <2>2, <2>3 DEF Requests, Ops
<1>4. CASE call.op = "write"
  <2>1. call.dev \in RfDevs /\ call.byte \in Bytes /\ rfltab[call.dev].used
    BY <1>4 DEF RfCalls, Allowed, Bytes
  <2>2. rfltab[call.dev].name \in RfNames /\ rfltab[call.dev].pos \in Nat
    BY <1>0, <2>1, OpensAre
  <2>3. RequestOf(call) = [op |-> "write", seq |-> rf_seq, name |-> rfltab[call.dev].name, mode |-> {},
                           pos |-> rfltab[call.dev].pos, count |-> 0, byte |-> call.byte]
    BY <1>4 DEF RequestOf
  <2> QED BY <1>0, <2>1, <2>2, <2>3 DEF Requests, Ops
<1>5. CASE call.op \in {"delete", "truncate", "mkdir", "rmdir", "size"}
  <2>1. call.name \in RfNames
    BY <1>5 DEF RfCalls
  <2>2. RequestOf(call) = [op |-> call.op, seq |-> rf_seq, name |-> call.name, mode |-> {},
                           pos |-> 0, count |-> 0, byte |-> 0]
    BY <1>1, <1>5 DEF RequestOf
  <2> QED BY <1>0, <1>5, <2>1, <2>2 DEF Requests, Ops
<1>6. call.op \in {"open", "read", "write", "delete", "truncate", "mkdir", "rmdir", "size"}
  BY DEF RfCalls
<1> QED BY <1>2, <1>3, <1>4, <1>5, <1>6

LEMMA RfStartsKeeps ==
  ASSUME RfsInv, NEW c \in RfClients, NEW call \in RfCalls, RfStarts(c, call)
  PROVE  RfsInv'
PROOF
<1>0. /\ HasMutex(c) /\ call.op \notin {"seek", "close"} /\ Allowed(call) /\ rf_seq' = rf_seq + 1
      /\ UNCHANGED <<rfltab, rf_mutex, rfcall, torfserver, fromrfserver, rffiles, rfknown, rfanswered>>
  BY DEF RfStarts
<1>1. PICK d : rfcomm' = [who |-> c, req |-> RequestOf(call), sent |-> 0, waits |-> FALSE, dev |-> d]
  BY DEF RfStarts
<1>2. PICK r : r = RequestOf(call)
  OBVIOUS
<1>3. r \in Requests /\ r.seq = rf_seq /\ rf_seq \in Nat
  BY <1>0, <1>2, RequestTyped DEF RfsInv, WireOf
<1>4. rfcomm' = [who |-> c, req |-> r, sent |-> 0, waits |-> FALSE, dev |-> d]
  BY <1>1, <1>2
<1>5. rfcomm'.who = c /\ rfcomm'.req = r /\ Exchanging' /\ ~Exchanging
  BY <1>0, <1>4, RfSizes DEF Exchanging, HasMutex
<1>6. MutexInv'
  BY <1>0, <1>5, HolderHasMutex DEF RfsInv, MutexInv, Calling, Exchanging
<1>7. WireOf(torfserver, fromrfserver, rf_seq')
  <2>1. rf_seq' \in Nat
    BY <1>0, <1>3
  <2>2. \A i \in DOMAIN torfserver : torfserver[i].seq < rf_seq'
    BY <1>0, <1>3, WireIs DEF RfsInv
  <2>3. \A i \in DOMAIN fromrfserver : fromrfserver[i].seq < rf_seq'
    BY <1>0, <1>3, WireIs DEF RfsInv
  <2> QED BY <2>1, <2>2, <2>3 DEF RfsInv, WireOf, WireOrdered
<1>8. Latest(r, torfserver, rf_seq')
  <2>1. \A i \in DOMAIN torfserver : torfserver[i].seq # r.seq
    BY <1>3, WireIs DEF RfsInv
  <2> QED BY <1>0, <1>3, <2>1 DEF Latest
<1>9. ExchangeInv'
  BY <1>0, <1>4, <1>5, <1>8 DEF ExchangeInv
<1>10. ASSUME NEW n \in RfNames PROVE FileInv(n)'
  <2>1. EntryAtRest(n, rffiles[n], rfknown[n], torfserver)
    BY <1>5 DEF RfsInv, FileInv
  <2>2. EntryAsked(n, rffiles[n], rfknown[n], torfserver, fromrfserver, r)
    BY <1>3, <2>1, StartsAsked DEF RfsInv
  <2> QED BY <1>0, <1>5, <2>1, <2>2 DEF FileInv
<1> QED BY <1>0, <1>6, <1>7, <1>9, <1>10 DEF RfsInv

LEMMA RfSendsKeeps ==
  ASSUME RfsInv, NEW c \in RfClients, RfSends(c)
  PROVE  RfsInv'
PROOF
<1>0. /\ rfcomm.who = c /\ rfcomm' = [rfcomm EXCEPT !.sent = @ + 1, !.waits = TRUE]
      /\ torfserver' \in {torfserver, Append(torfserver, rfcomm.req)}
      /\ UNCHANGED <<rfltab, rf_mutex, rf_seq, rfcall, fromrfserver, rffiles, rfknown, rfanswered>>
  BY DEF RfSends
<1>1. PICK r : r = rfcomm.req
  OBVIOUS
<1>2. Exchanging /\ Latest(r, torfserver, rf_seq) /\ r \in Requests
      /\ rfcomm = [who |-> c, req |-> r, sent |-> rfcomm.sent, waits |-> rfcomm.waits, dev |-> rfcomm.dev]
  BY <1>0, <1>1 DEF RfsInv, ExchangeInv, Exchanging, Latest
<1>3. PICK m : rfcomm' = [who |-> c, req |-> r, sent |-> m, waits |-> TRUE, dev |-> rfcomm.dev]
  <2>1. PICK v, w, d : rfcomm = [who |-> c, req |-> r, sent |-> v, waits |-> w, dev |-> d]
    BY <1>2
  <2>2. PICK m : m = rfcomm.sent + 1
    OBVIOUS
  <2>3. rfcomm' = [rfcomm EXCEPT !.sent = m, !.waits = TRUE]
    BY <1>0, <2>2
  <2>4. rfcomm' = [who |-> c, req |-> r, sent |-> m, waits |-> TRUE, dev |-> d] /\ rfcomm.dev = d
    BY ONLY <2>1, <2>3
  <2> QED BY <2>4
<1>4. rfcomm'.who = c /\ rfcomm'.req = r /\ Exchanging'
  BY <1>3 DEF Exchanging
<1>5. MutexInv'
  BY <1>0, <1>4 DEF RfsInv, MutexInv, Calling, Exchanging
<1>6. WireOf(torfserver', fromrfserver, rf_seq) /\ Latest(r, torfserver', rf_seq)
  BY <1>0, <1>1, <1>2, WireSent DEF RfsInv
<1>7. ExchangeInv'
  BY <1>0, <1>3, <1>4, <1>6 DEF ExchangeInv
<1>8. ASSUME NEW n \in RfNames PROVE FileInv(n)'
  <2>0. torfserver \in Seq(Requests)
    BY DEF RfsInv, WireOf
  <2>1. CASE r.name = n
    <3>1. EntryAsked(n, rffiles[n], rfknown[n], torfserver, fromrfserver, r)
      BY <1>1, <1>2, <2>1 DEF RfsInv, FileInv
    <3>2. EntryAsked(n, rffiles[n], rfknown[n], torfserver', fromrfserver, r)
      BY <1>0, <1>1, <1>2, <2>0, <3>1, SendsAsked
    <3> QED BY <1>0, <1>4, <2>1, <3>2 DEF FileInv
  <2>2. CASE r.name # n
    <3>1. EntryAtRest(n, rffiles[n], rfknown[n], torfserver)
      BY <1>1, <1>2, <2>2 DEF RfsInv, FileInv
    <3>2. EntryAtRest(n, rffiles[n], rfknown[n], torfserver')
      BY <1>0, <1>1, <1>2, <2>0, <2>2, <3>1, SendsAtRest
    <3> QED BY <1>0, <1>4, <2>2, <3>2 DEF FileInv
  <2> QED BY <2>1, <2>2
<1> QED BY <1>0, <1>5, <1>6, <1>7, <1>8 DEF RfsInv
(* What a server's reply holds *)
LEMMA DataTyped ==
  ASSUME NEW f \in FileEntries, NEW q \in Requests
  PROVE  ReplyTo(f, q) \in RfReplies
PROOF
<1>1. Granted(f, q) \in BOOLEAN /\ q.op \in Ops /\ q.seq \in Nat /\ q.pos \in Nat /\ q.count \in Int
  BY RequestIs DEF Granted
<1>2. <<>> \in Seq(Bytes \cup Nat)
  OBVIOUS
<1>3. ASSUME Granted(f, q) PROVE DataOf(f, q) \in Seq(Bytes \cup Nat)
  <2>1. CASE q.op = "read"
    <3>1. f.kind = "file"
      BY <1>3, <2>1 DEF Granted
    <3>2. f.data \in Seq(Bytes)
      BY <3>1, EntryIs, KindsDiffer
    <3>3. PICK d : d = f.data
      OBVIOUS
    <3>4. PICK m : m = Min({q.pos + q.count, Len(f.data)})
      OBVIOUS
    <3>5. m \in Int /\ m <= Len(d)
      <4>1. q.pos + q.count \in Int /\ Len(f.data) \in Int
        BY <1>1, <3>2
      <4>2. \E x \in {q.pos + q.count, Len(f.data)} : \A y \in {q.pos + q.count, Len(f.data)} : x <= y
        BY <4>1
      <4>3. m \in {q.pos + q.count, Len(f.data)} /\ \A y \in {q.pos + q.count, Len(f.data)} : m <= y
        BY <3>4, <4>2 DEF Min
      <4> QED BY <3>3, <4>1, <4>3
    <3>6. d \in Seq(Bytes \cup Nat)
      <4>1. d \in Seq(Bytes)
        BY <3>2, <3>3
      <4>2. Len(d) \in Nat /\ d \in [1..Len(d) -> Bytes]
        BY <4>1
      <4>3. d \in [1..Len(d) -> Bytes \cup Nat]
        BY <4>2
      <4> QED BY <4>2, <4>3
    <3>7. PICK p \in Nat : p = q.pos
      BY <1>1
    <3>8. SubSeq(d, p + 1, m) \in Seq(Bytes \cup Nat)
      BY <3>5, <3>6
    <3> QED BY <2>1, <3>3, <3>4, <3>7, <3>8 DEF DataOf
  <2>2. CASE q.op = "size"
    <3>1. f.kind = "file"
      BY <1>3, <2>2 DEF Granted
    <3>2. Len(f.data) \in Nat
      BY <3>1, EntryIs, KindsDiffer
    <3>3. PICK l \in Nat : l = Len(f.data)
      BY <3>2
    <3>4. <<l>> \in Seq(Bytes \cup Nat)
      OBVIOUS
    <3> QED BY <2>2, <3>3, <3>4 DEF DataOf
  <2>3. CASE q.op \notin {"read", "size"}
    BY <1>2, <2>3 DEF DataOf
  <2> QED BY <2>1, <2>2, <2>3
<1>4. PICK d \in Seq(Bytes \cup Nat) : d = IF Granted(f, q) THEN DataOf(f, q) ELSE <<>>
  BY <1>2, <1>3
<1>5. ReplyTo(f, q) = [op |-> q.op, seq |-> q.seq, ok |-> Granted(f, q), data |-> d]
  BY <1>4 DEF ReplyTo
<1> QED BY <1>1, <1>5 DEF RfReplies

LEMMA RfServerServesKeeps ==
  ASSUME RfsInv, RfServerServes
  PROVE  RfsInv'
PROOF
<1>0. /\ torfserver # <<>> /\ torfserver' = Tail(torfserver)
      /\ UNCHANGED <<rfltab, rf_mutex, rf_seq, rfcall, rfcomm, rfknown, rfanswered>>
  BY DEF RfServerServes
<1>1. PICK q : q = Head(torfserver)
  OBVIOUS
<1>2. torfserver \in Seq(Requests) /\ q = torfserver[1] /\ 1 \in DOMAIN torfserver
  BY <1>0, <1>1, TailIs DEF RfsInv, WireOf
<1>3. q \in Requests /\ q.name \in RfNames
  BY <1>2, WireIs, RequestIs DEF RfsInv
<1>4. PICK f : f = rffiles[q.name]
  OBVIOUS
<1>5. f \in FileEntries /\ Served(f, q) \in FileEntries
  BY <1>3, <1>4, ServedTwice DEF RfsInv
<1>6. rffiles' = [rffiles EXCEPT ![q.name] = Served(f, q)]
  BY <1>1, <1>4 DEF RfServerServes, Served
<1>7. fromrfserver' \in {fromrfserver, Append(fromrfserver, ReplyTo(f, q))}
  BY <1>1, <1>4 DEF RfServerServes, ReplyTo
<1>8. ReplyTo(f, q) \in RfReplies /\ ReplyTo(f, q).seq = q.seq
  BY <1>3, <1>5, DataTyped, ReplyIs
<1>9. WireOf(torfserver', fromrfserver', rf_seq)
  BY <1>0, <1>1, <1>7, <1>8, WireServed DEF RfsInv
<1>10. rffiles' \in [RfNames -> FileEntries]
  BY <1>5, <1>6 DEF RfsInv
<1>11. ExchangeInv'
  <2>1. \A r : Latest(r, torfserver, rf_seq) => Latest(r, torfserver', rf_seq)
    <3>1. \A i \in DOMAIN torfserver' : \E j \in DOMAIN torfserver : torfserver'[i] = torfserver[j]
      BY <1>0, <1>2, TailIs
    <3> QED BY <3>1 DEF Latest
  <2> QED BY <1>0, <2>1 DEF RfsInv, ExchangeInv, Exchanging
<1>12. MutexInv'
  BY <1>0 DEF RfsInv, MutexInv, Calling, Exchanging
<1>13. ASSUME NEW n \in RfNames PROVE FileInv(n)'
  <2>0. rffiles'[n] = IF q.name = n THEN Served(rffiles[n], q) ELSE rffiles[n]
    BY <1>3, <1>4, <1>6 DEF RfsInv
  <2>1. rffiles[n] \in FileEntries /\ rfknown[n] \in FileEntries \cup {Unknown}
    BY DEF RfsInv
  <2>2. CASE Exchanging /\ rfcomm.req.name = n
    <3>1. PICK r : r = rfcomm.req
      OBVIOUS
    <3>2. Latest(r, torfserver, rf_seq) /\ EntryAsked(n, rffiles[n], rfknown[n], torfserver, fromrfserver, r)
      BY <2>2, <3>1 DEF RfsInv, ExchangeInv, FileInv
    <3>3. CASE q.seq = r.seq
      <4>1. q = r /\ f = rffiles[n]
        BY <1>2, <1>4, <2>2, <3>1, <3>2, <3>3 DEF Latest
      <4>2. EntryAsked(n, Served(f, r), rfknown[n], torfserver', fromrfserver', r)
        BY <1>0, <1>1, <1>7, <2>1, <3>2, <4>1, ServesCurrent DEF RfsInv
      <4> QED BY <1>0, <2>0, <2>2, <3>1, <4>1, <4>2 DEF FileInv, Exchanging
    <3>4. CASE q.seq # r.seq
      <4>1. EntryAsked(n, rffiles'[n], rfknown[n], torfserver', fromrfserver', r)
        BY <1>0, <1>1, <1>7, <1>8, <2>0, <2>1, <3>2, <3>4, ServesEarlier DEF RfsInv
      <4> QED BY <1>0, <2>2, <3>1, <4>1 DEF FileInv, Exchanging
    <3> QED BY <3>3, <3>4
  <2>3. CASE ~(Exchanging /\ rfcomm.req.name = n)
    <3>1. EntryAtRest(n, rffiles[n], rfknown[n], torfserver)
      BY <2>3 DEF RfsInv, FileInv
    <3>2. EntryAtRest(n, rffiles'[n], rfknown[n], torfserver')
      BY <1>0, <1>1, <1>2, <2>0, <2>1, <3>1, ServesAtRest
    <3> QED BY <1>0, <2>3, <3>2 DEF FileInv, Exchanging
  <2> QED BY <2>2, <2>3
<1> QED BY <1>0, <1>9, <1>10, <1>11, <1>12, <1>13 DEF RfsInv

(* The end of an exchange, with what is known then of its entry. *)
LEMMA FilesEnd ==
  ASSUME RfsInv, Exchanging, ~Exchanging', UNCHANGED <<torfserver, rffiles>>,
         NEW k \in FileEntries \cup {Unknown}, rfknown' = [rfknown EXCEPT ![rfcomm.req.name] = k],
         EntryAtRest(rfcomm.req.name, rffiles[rfcomm.req.name], k, torfserver)
  PROVE  rfknown' \in [RfNames -> FileEntries \cup {Unknown}] /\ \A n \in RfNames : FileInv(n)'
PROOF
<1>1. rfknown \in [RfNames -> FileEntries \cup {Unknown}]
  BY DEF RfsInv
<1>2. ASSUME NEW n \in RfNames PROVE EntryAtRest(n, rffiles[n], rfknown'[n], torfserver)
  <2>1. CASE n = rfcomm.req.name
    <3>1. rfknown'[n] = k
      BY <1>1, <2>1
    <3> QED BY <2>1, <3>1
  <2>2. CASE n # rfcomm.req.name
    <3>1. rfknown'[n] = rfknown[n]
      BY <1>1, <2>2
    <3> QED BY <2>2, <3>1 DEF RfsInv, FileInv
  <2> QED BY <2>1, <2>2
<1>3. rfknown' \in [RfNames -> FileEntries \cup {Unknown}]
  BY <1>1
<1> QED BY <1>2, <1>3 DEF FileInv

LEMMA ExchangeIs ==
  ASSUME RfsInv, Exchanging
  PROVE  /\ Latest(rfcomm.req, torfserver, rf_seq) /\ rfcomm.req \in Requests /\ rfcomm.req.name \in RfNames
         /\ EntryAsked(rfcomm.req.name, rffiles[rfcomm.req.name], rfknown[rfcomm.req.name],
                       torfserver, fromrfserver, rfcomm.req)
         /\ rffiles[rfcomm.req.name] \in FileEntries /\ rfknown[rfcomm.req.name] \in FileEntries \cup {Unknown}
PROOF
<1>1. Latest(rfcomm.req, torfserver, rf_seq) /\ rfcomm.req \in Requests /\ rfcomm.req.name \in RfNames
  BY RequestIs DEF RfsInv, ExchangeInv, Latest
<1> QED BY <1>1 DEF RfsInv, FileInv

LEMMA FailureKnown ==
  ASSUME RfsInv, Exchanging, ~Exchanging', UNCHANGED <<torfserver, rffiles>>,
         rfknown' = [rfknown EXCEPT ![rfcomm.req.name] = KnownAfter(@, rfcomm.req, FALSE)]
  PROVE  rfknown' \in [RfNames -> FileEntries \cup {Unknown}] /\ \A n \in RfNames : FileInv(n)'
PROOF
<1>1. PICK n : n = rfcomm.req.name
  OBVIOUS
<1>2. PICK k : k = KnownAfter(rfknown[n], rfcomm.req, FALSE)
  OBVIOUS
<1>3. n \in RfNames /\ rfknown[n] \in FileEntries \cup {Unknown} /\ rfknown \in [RfNames -> FileEntries \cup {Unknown}]
  BY <1>1, ExchangeIs DEF RfsInv
<1>4. k \in FileEntries \cup {Unknown}
  BY <1>2, <1>3, KnownAfterFailure
<1>5. EntryAtRest(n, rffiles[n], k, torfserver)
  BY <1>1, <1>2, <1>3, ExchangeIs, FailsAtRest
<1>6. rfknown' = [rfknown EXCEPT ![n] = k]
  BY <1>1, <1>2, <1>3
<1> QED BY <1>1, <1>4, <1>5, <1>6, FilesEnd

LEMMA RfFailsKeeps ==
  ASSUME RfsInv, NEW c \in RfClients, rfcomm.who = c, RfFails(c), UNCHANGED <<rf_seq, torfserver, rffiles>>,
         WireOf(torfserver, fromrfserver', rf_seq)
  PROVE  RfsInv'
PROOF
<1>1. Exchanging /\ ~Exchanging' /\ rfcomm'.who = "none"
  BY RfSizes DEF Exchanging, RfFails, NoRfComm
<1>2. MutexInv'
  BY <1>1, HolderHasMutex, MutexReturns DEF RfsInv, RfFails
<1>3. rfknown' \in [RfNames -> FileEntries \cup {Unknown}] /\ \A n \in RfNames : FileInv(n)'
  BY <1>1, FailureKnown DEF RfFails
<1>4. ExchangeInv'
  BY <1>1 DEF ExchangeInv
<1> QED BY <1>2, <1>3, <1>4 DEF RfsInv, RfFails

LEMMA RfTriesAgainKeeps ==
  ASSUME RfsInv, NEW c \in RfClients, rfcomm.who = c, RfTriesAgain(c), UNCHANGED <<rf_seq, torfserver, rffiles>>,
         WireOf(torfserver, fromrfserver', rf_seq),
         fromrfserver' = fromrfserver \/ (fromrfserver # <<>> /\ fromrfserver' = Tail(fromrfserver))
  PROVE  RfsInv'
PROOF
<1>1. CASE ~(rfcomm.sent < RF_RETRIES)
  BY <1>1, RfFailsKeeps DEF RfTriesAgain
<1>2. CASE rfcomm.sent < RF_RETRIES
  <2>0. rfcomm' = [rfcomm EXCEPT !.waits = FALSE] /\ UNCHANGED <<rfltab, rf_mutex, rfcall, rfknown, rfanswered>>
    BY <1>2 DEF RfTriesAgain
  <2>1. PICK r, v, w, d : rfcomm = [who |-> c, req |-> r, sent |-> v, waits |-> w, dev |-> d]
    BY DEF RfsInv, ExchangeInv, Exchanging
  <2>2. rfcomm' = [who |-> c, req |-> r, sent |-> v, waits |-> FALSE, dev |-> d]
    BY ONLY <2>0, <2>1
  <2>3. rfcomm.req = r /\ rfcomm'.who = c /\ rfcomm'.req = r /\ Exchanging /\ Exchanging'
    BY <2>1, <2>2 DEF Exchanging
  <2>4. ExchangeInv'
    BY <2>2, <2>3 DEF RfsInv, ExchangeInv
  <2>5. MutexInv'
    BY <2>0, <2>3 DEF RfsInv, MutexInv, Calling, Exchanging
  <2>6. ASSUME NEW n \in RfNames PROVE FileInv(n)'
    <3>1. CASE r.name = n
      <4>1. EntryAsked(n, rffiles[n], rfknown[n], torfserver, fromrfserver, r)
        BY <2>3, <3>1 DEF RfsInv, FileInv
      <4>2. EntryAsked(n, rffiles[n], rfknown[n], torfserver, fromrfserver', r)
        BY <4>1, ReceivesAsked DEF RfsInv, WireOf
      <4> QED BY <2>0, <2>3, <3>1, <4>2 DEF FileInv
    <3>2. CASE r.name # n
      BY <2>0, <2>3, <3>2 DEF RfsInv, FileInv
    <3> QED BY <3>1, <3>2
  <2> QED BY <2>0, <2>4, <2>5, <2>6 DEF RfsInv
<1> QED BY <1>1, <1>2

LEMMA RfSucceedsKeeps ==
  ASSUME RfsInv, NEW c \in RfClients, rfcomm.who = c, fromrfserver # <<>>,
         IsReply(Head(fromrfserver)), Head(fromrfserver).ok, RfSucceeds(c, Head(fromrfserver)),
         UNCHANGED <<rf_seq, torfserver, rffiles>>, WireOf(torfserver, fromrfserver', rf_seq)
  PROVE  RfsInv'
PROOF
<1>0. PICK reply, req, n, k :
        /\ reply = Head(fromrfserver) /\ req = rfcomm.req /\ n = req.name
        /\ k = KnownAfter(rfknown[n], req, TRUE)
  OBVIOUS
<1>1. Exchanging /\ ~Exchanging' /\ rfcomm'.who = "none"
  BY RfSizes DEF Exchanging, RfSucceeds, NoRfComm
<1>2. MutexInv'
  BY <1>1, HolderHasMutex, MutexReturns DEF RfsInv, RfSucceeds
<1>3. /\ Latest(req, torfserver, rf_seq) /\ req \in Requests /\ n \in RfNames
      /\ EntryAsked(n, rffiles[n], rfknown[n], torfserver, fromrfserver, req)
      /\ rffiles[n] \in FileEntries /\ rfknown[n] \in FileEntries \cup {Unknown}
      /\ rfknown \in [RfNames -> FileEntries \cup {Unknown}]
  BY <1>0, <1>1, ExchangeIs DEF RfsInv
<1>4. /\ EntryAtRest(n, rffiles[n], k, torfserver) /\ k \in {Unknown, rffiles[n]}
      /\ (rfknown[n] # Unknown /\ Reads(req) => reply.data = DataOf(rfknown[n], req))
  <2>1. Head(fromrfserver).seq = req.seq /\ Head(fromrfserver).ok
    BY <1>0 DEF IsReply
  <2>2. WireOf(torfserver, fromrfserver, rf_seq)
    BY DEF RfsInv
  <2>3. /\ EntryAtRest(n, rffiles[n], KnownAfter(rfknown[n], req, TRUE), torfserver)
        /\ KnownAfter(rfknown[n], req, TRUE) \in {Unknown, rffiles[n]}
        /\ (rfknown[n] # Unknown /\ Reads(req) => Head(fromrfserver).data = DataOf(rfknown[n], req))
    BY <1>3, <2>1, <2>2, SucceedsAtRest
  <2> QED BY <1>0, <2>3
<1>5. rfknown' = [rfknown EXCEPT ![n] = k]
  BY <1>0, <1>3 DEF RfSucceeds
<1>6. rfknown' \in [RfNames -> FileEntries \cup {Unknown}] /\ \A m \in RfNames : FileInv(m)'
  BY <1>0, <1>1, <1>3, <1>4, <1>5, FilesEnd
<1>7. Agrees(rfknown[n], req, reply)
  <2>1. rfknown[n].kind = "file" => rfknown[n] # Unknown
    BY KindsDiffer
  <2> QED BY <1>4, <2>1 DEF Agrees, Reads
<1>8. rfanswered'
  BY <1>0, <1>7 DEF RfSucceeds, RfsInv
<1>9. rfltab' \in [RfDevs -> Opens]
  <2>0. rfltab \in [RfDevs -> Opens] /\ \A d \in RfDevs : rfltab[d].pos \in Nat
    BY OpensAre DEF RfsInv
  <2>1. CASE req.op = "open"
    <3>1. Opened(req) \in Opens
      BY <1>3 DEF Opened, Opens, Requests
    <3>2. rfltab' = [rfltab EXCEPT ![rfcomm.dev] = Opened(req)]
      BY <1>0, <2>1 DEF RfSucceeds
    <3> QED BY <2>0, <3>1, <3>2
  <2>2. ASSUME NEW x \in Nat, rfltab' = [rfltab EXCEPT ![rfcomm.dev].pos = @ + x]
        PROVE  rfltab' \in [RfDevs -> Opens]
    <3>1. PICK d : d = rfcomm.dev
      OBVIOUS
    <3>2. CASE d \in RfDevs
      <4>1. rfltab[d] \in Opens /\ rfltab[d].pos \in Nat
        BY <2>0, <3>2
      <4>2. PICK p \in Nat : p = rfltab[d].pos + x
        BY <4>1
      <4>3. [rfltab[d] EXCEPT !.pos = p] \in Opens
        BY <4>1, OpensAre
      <4>4. rfltab' = [rfltab EXCEPT ![d] = [rfltab[d] EXCEPT !.pos = p]]
        BY <2>0, <2>2, <3>1, <3>2, <4>2
      <4> QED BY <2>0, <4>3, <4>4
    <3>3. CASE d \notin RfDevs
      BY <2>0, <2>2, <3>1, <3>3
    <3> QED BY <3>2, <3>3
  <2>3. CASE req.op = "read"
    <3>1. reply \in RfReplies
      BY <1>0, WireReceived DEF RfsInv
    <3>2. reply.data \in Seq(Bytes \cup Nat)
      BY <3>1 DEF RfReplies
    <3>3. PICK x \in Nat : x = Len(reply.data)
      BY <3>2
    <3>4. rfltab' = [rfltab EXCEPT ![rfcomm.dev].pos = @ + x]
      BY <1>0, <2>3, <3>3 DEF RfSucceeds
    <3> QED BY <2>2, <3>4
  <2>4. CASE req.op = "write"
    <3>1. rfltab' = [rfltab EXCEPT ![rfcomm.dev].pos = @ + 1]
      BY <1>0, <2>4 DEF RfSucceeds
    <3> QED BY <2>2, <3>1
  <2>5. CASE req.op \notin {"open", "read", "write"}
    BY <1>0, <2>0, <2>5 DEF RfSucceeds
  <2> QED BY <2>1, <2>3, <2>4, <2>5
<1>10. ExchangeInv'
  BY <1>1 DEF ExchangeInv
<1> QED BY <1>2, <1>6, <1>8, <1>9, <1>10 DEF RfsInv

LEMMA RfReceivesKeeps ==
  ASSUME RfsInv, NEW c \in RfClients, RfReceives(c)
  PROVE  RfsInv'
PROOF
<1>1. /\ rfcomm.who = c /\ fromrfserver # <<>> /\ fromrfserver' = Tail(fromrfserver)
      /\ UNCHANGED <<rf_seq, torfserver, rffiles>>
  BY DEF RfReceives
<1>2. WireOf(torfserver, fromrfserver', rf_seq)
  BY <1>1, WireReceived DEF RfsInv
<1>3. CASE ~IsReply(Head(fromrfserver))
  BY <1>1, <1>2, <1>3, RfTriesAgainKeeps DEF RfReceives
<1>4. CASE IsReply(Head(fromrfserver)) /\ Head(fromrfserver).ok
  BY <1>1, <1>2, <1>4, RfSucceedsKeeps DEF RfReceives
<1>5. CASE IsReply(Head(fromrfserver)) /\ ~Head(fromrfserver).ok
  BY <1>1, <1>2, <1>5, RfFailsKeeps DEF RfReceives
<1> QED BY <1>3, <1>4, <1>5

LEMMA RfClientKilledKeeps ==
  ASSUME RfsInv, NEW c \in RfClients, RfClientKilled(c)
  PROVE  RfsInv'
PROOF
<1>0. /\ rfcall[c] = "calling" /\ rfcall \in [RfClients -> {"idle", "calling", "killed"}]
      /\ UNCHANGED <<rfltab, rf_seq, torfserver, fromrfserver, rffiles, rfanswered>> /\ c \in Calling
  BY DEF RfClientKilled, RfsInv, MutexInv, Calling
<1>1. CASE WaitsAt(c, rf_mutex)
  <2>0. /\ rf_mutex' = Leaves(rf_mutex, c) /\ rfcall' = [rfcall EXCEPT ![c] = "idle"]
        /\ UNCHANGED <<rfcomm, rfknown>>
    BY <1>1 DEF RfClientKilled
  <2>1. Calling' = Calling \ {c}
    BY <1>0, <2>0 DEF Calling
  <2>2. /\ Mutex(rf_mutex', Calling') /\ \A p \in Calling : ~WaitsAt(p, rf_mutex) => ~WaitsAt(p, rf_mutex')
    BY <1>0, <1>1, <2>0, <2>1, MutexGone DEF RfsInv, MutexInv
  <2>3. rfcall' \in [RfClients -> {"idle", "calling", "killed"}]
    BY <1>0, <2>0
  <2>4. MutexInv'
    BY <1>1, <2>0, <2>1, <2>2, <2>3 DEF RfsInv, MutexInv, Exchanging
  <2> QED BY <1>0, <2>0, <2>4 DEF RfsInv, ExchangeInv, FileInv, Exchanging
<1>2. CASE ~WaitsAt(c, rf_mutex)
  <2>0. /\ rf_mutex' = rf_mutex /\ rfcall' = [rfcall EXCEPT ![c] = "killed"] /\ rfcomm' = [who |-> "killed"]
        /\ rfknown' = IF rfcomm.who # c THEN rfknown
                      ELSE [rfknown EXCEPT ![rfcomm.req.name] = KnownAfter(@, rfcomm.req, FALSE)]
    BY <1>2 DEF RfClientKilled
  <2>1. Calling' = Calling
    BY <1>0, <2>0 DEF Calling
  <2>2. rfcall' \in [RfClients -> {"idle", "calling", "killed"}]
    BY <1>0, <2>0
  <2>3. rfcomm'.who = "killed" /\ ~Exchanging'
    BY <2>0, RfSizes DEF Exchanging
  <2>4. MutexInv'
    BY <2>0, <2>1, <2>2, <2>3 DEF RfsInv, MutexInv
  <2>5. ExchangeInv'
    BY <2>3 DEF ExchangeInv
  <2>6. rfknown' \in [RfNames -> FileEntries \cup {Unknown}] /\ \A n \in RfNames : FileInv(n)'
    <3>1. CASE rfcomm.who = c
      BY <1>0, <2>0, <2>3, <3>1, FailureKnown DEF Exchanging
    <3>2. CASE rfcomm.who # c
      <4>1. ~Exchanging
        BY <1>0, <1>2, <3>2, MutexAlone DEF RfsInv, MutexInv
      <4> QED BY <1>0, <2>0, <2>3, <3>2, <4>1 DEF RfsInv, FileInv
    <3> QED BY <3>1, <3>2
  <2> QED BY <1>0, <2>4, <2>5, <2>6 DEF RfsInv
<1> QED BY <1>1, <1>2

LEMMA RfsStep == RfsInv /\ [RfsNext]_rfsVars => RfsInv'
PROOF
<1> SUFFICES ASSUME RfsInv, [RfsNext]_rfsVars PROVE RfsInv'
  OBVIOUS
<1>1. CASE RfServerServes
  BY <1>1, RfServerServesKeeps
<1>2. ASSUME NEW c \in RfClients, RfCall(c) PROVE RfsInv'
  BY <1>2, RfCallKeeps
<1>3. ASSUME NEW c \in RfClients, NEW call \in RfCalls, RfLocal(c, call) PROVE RfsInv'
  BY <1>3, RfLocalKeeps
<1>4. ASSUME NEW c \in RfClients, NEW call \in RfCalls, RfRefused(c, call) PROVE RfsInv'
  BY <1>4, RfRefusedKeeps
<1>5. ASSUME NEW c \in RfClients, NEW call \in RfCalls, RfStarts(c, call) PROVE RfsInv'
  BY <1>5, RfStartsKeeps
<1>6. ASSUME NEW c \in RfClients, RfSends(c) PROVE RfsInv'
  BY <1>6, RfSendsKeeps
<1>7. ASSUME NEW c \in RfClients, RfReceives(c) PROVE RfsInv'
  BY <1>7, RfReceivesKeeps
<1>8. ASSUME NEW c \in RfClients, RfTimesOut(c) PROVE RfsInv'
  <2>1. rfcomm.who = c /\ RfTriesAgain(c) /\ UNCHANGED <<rf_seq, torfserver, fromrfserver, rffiles>>
    BY <1>8 DEF RfTimesOut
  <2> QED BY <2>1, RfTriesAgainKeeps DEF RfsInv
<1>9. ASSUME NEW c \in RfClients, RfBroken(c) PROVE RfsInv'
  <2>1. rfcomm.who = c /\ RfFails(c) /\ UNCHANGED <<rf_seq, torfserver, fromrfserver, rffiles>>
    BY <1>9 DEF RfBroken
  <2> QED BY <2>1, RfFailsKeeps DEF RfsInv
<1>10. ASSUME NEW c \in RfClients, RfClientKilled(c) PROVE RfsInv'
  BY <1>10, RfClientKilledKeeps
<1>11. CASE UNCHANGED rfsVars
  BY <1>11 DEF rfsVars, RfsInv, MutexInv, Calling, ExchangeInv, FileInv, Exchanging
<1> QED BY <1>1, <1>2, <1>3, <1>4, <1>5, <1>6, <1>7, <1>8, <1>9, <1>10, <1>11 DEF RfsNext

(* Remote files (device/rfs): between exchanges the server holds what the
   results of the calls say, and what read and size return agrees with it,
   through lost, repeated and late packets and killed callers, for any number
   of processes, devices and files and any number of retries. *)
THEOREM RemoteFilesSoundAlways == RfsSpec => []RemoteFilesSound
PROOF
<1>1. RfsInv => RemoteFilesSound
  <2> SUFFICES ASSUME RfsInv PROVE RemoteFilesSound
    OBVIOUS
  <2>1. ASSUME NEW n \in RfNames, rfknown[n].kind # "unknown", ~(Exchanging /\ rfcomm.req.name = n)
        PROVE  rffiles[n] = rfknown[n]
    <3>1. EntryAtRest(n, rffiles[n], rfknown[n], torfserver) /\ rfknown[n] # Unknown
      BY <2>1, KindsDiffer DEF RfsInv, FileInv
    <3> QED BY <3>1 DEF EntryAtRest
  <2> QED BY <2>1 DEF RemoteFilesSound, KnownIsTrue, Exchanging, RfsInv
<1>2. RfsSpec => []RfsInv
  BY RfsInitially, RfsStep, PTL DEF RfsSpec
<1> QED BY <1>1, <1>2, PTL

-----------------------------------------------------------------------------
(* The receive ring, unrolled: H frames have been read to the end, R copied, T
   counted by the handler, A have arrived, and the adapter may fill up to D. *)
RxFilled(st, R, A) ==
  /\ st \in [RxIdx -> Nat]
  /\ \A i \in R..(A - 1) : st[i % RxRingSize] = (i % (RxRingSize + 1)) + 1
  /\ \A i \in A..(R + RxRingSize - 1) : st[i % RxRingSize] = 0

RxIs(H, R, T, A, D) ==
  /\ rxHead = H % RxRingSize /\ rxTail = T % RxRingSize /\ rdh = A % RxRingSize /\ rdt = D % RxRingSize
  /\ R = (IF rxreader = "advance" THEN H + 1 ELSE H)
  /\ R <= T /\ T <= A /\ A <= D /\ D < H + RxRingSize
  /\ \E d \in Nat : D = BOUNDARY * d
  /\ RxFilled(rxstat, R, A)
  /\ {rxread, rxarrived} \subseteq Nat
  /\ rxread % (RxRingSize + 1) = R % (RxRingSize + 1)
  /\ rxarrived % (RxRingSize + 1) = A % (RxRingSize + 1)

(* The units of isem are the frames counted and not yet claimed by netin. *)
IsemIs(R, T) ==
  \E W \in SUBSET (IF rxreader = "wait" THEN {"netin"} ELSE {}) :
    SemOf(isem, W) /\ isem.count = T - R - (IF rxreader \in {"wait", "clear"} THEN 1 ELSE 0)

RxInv ==
  /\ rxreader \in {"out", "wait", "clear", "advance"} /\ ~rxlost
  /\ \E H, R, T, A, D \in Nat : RxIs(H, R, T, A, D) /\ IsemIs(R, T)

LEMMA RxSizes ==
  /\ RxRingSize \in Nat \ {0} /\ BOUNDARY \in Nat \ {0} /\ RxRingSize + 1 \in Nat \ {0} /\ BOUNDARY < RxRingSize
  /\ \E c \in Nat : RxRingSize = BOUNDARY * c
PROOF
<1>1. /\ RxRingSize \in Nat \ {0} /\ BOUNDARY \in Nat \ {0} /\ RxRingSize + 1 \in Nat \ {0} /\ BOUNDARY < RxRingSize
      /\ RxRingSize % BOUNDARY = 0
  BY EthSizes
<1>2. PICK c \in Int : RxRingSize = BOUNDARY * c
  <2>1. PICK n \in Nat, b \in Nat \ {0} : n = RxRingSize /\ b = BOUNDARY
    BY <1>1
  <2>2. n % b = 0
    BY <1>1, <2>1
  <2>3. n \div b \in Int /\ n = b * (n \div b) + (n % b)
    BY ModIs
  <2>4. PICK c \in Int : c = n \div b
    BY <2>3
  <2>5. n = b * c + 0
    BY <2>2, <2>3, <2>4
  <2>6. n = b * c
    BY <2>5
  <2> QED BY <2>1, <2>6
<1>3. c < 0 => BOUNDARY * c < 0
  BY <1>1
<1> QED BY <1>1, <1>2, <1>3

LEMMA RxSizesNamed ==
  \E N \in Nat, B \in Nat, c \in Nat :
    N = RxRingSize /\ B = BOUNDARY /\ N = B * c /\ B > 0 /\ B < N /\ N > 0
PROOF
<1>1. PICK c \in Nat : RxRingSize = BOUNDARY * c
  BY RxSizes
<1>2. PICK N \in Nat, B \in Nat : N = RxRingSize /\ B = BOUNDARY
  BY RxSizes
<1>3. N = B * c
  BY <1>1, <1>2, Zenon
<1>4. B > 0 /\ B < N /\ N > 0
  BY <1>2, RxSizes
<1> QED BY <1>2, <1>3, <1>4

LEMMA IdxMod == \A i \in Int : i % RxRingSize \in RxIdx
PROOF BY RxSizes, ModIs DEF RxIdx

(* Two places less than a turn apart are different places. *)
LEMMA RxApart ==
  ASSUME NEW i \in Int, NEW j \in Int, i % RxRingSize = j % RxRingSize, i - j < RxRingSize, j - i < RxRingSize
  PROVE  i = j
PROOF
<1>1. i <= j \/ j <= i
  OBVIOUS
<1>2. i <= j => i = j
  BY RxSizes, ModSame
<1>3. j <= i => j = i
  BY RxSizes, ModSame
<1> QED BY <1>1, <1>2, <1>3

LEMMA RxFills ==
  ASSUME NEW st, NEW R \in Nat, NEW A \in Nat, RxFilled(st, R, A), R <= A, A < R + RxRingSize,
         NEW f, f = (A % (RxRingSize + 1)) + 1
  PROVE  RxFilled([st EXCEPT ![A % RxRingSize] = f], R, A + 1)
PROOF
<1>1. RxRingSize \in Nat /\ f \in Nat /\ st \in [RxIdx -> Nat] /\ A % RxRingSize \in RxIdx
  <2>1. A % (RxRingSize + 1) \in Nat
    BY RxSizes, ModIs
  <2> QED BY <2>1, RxSizes, IdxMod DEF RxFilled
<1>2. PICK t : t = [st EXCEPT ![A % RxRingSize] = f]
  OBVIOUS
<1>3. t \in [RxIdx -> Nat] /\ t[A % RxRingSize] = f
      /\ \A x \in RxIdx : x # A % RxRingSize => t[x] = st[x]
  BY <1>1, <1>2
<1>4. ASSUME NEW i \in R..(A + 1 - 1) PROVE t[i % RxRingSize] = (i % (RxRingSize + 1)) + 1
  <2>1. CASE i = A
    BY <1>3, <2>1
  <2>2. CASE i # A
    <3>1. i \in R..(A - 1) /\ i \in Int /\ A - i < RxRingSize /\ i - A < RxRingSize
      BY <1>1, <2>2
    <3>2. i % RxRingSize # A % RxRingSize /\ i % RxRingSize \in RxIdx
      BY <2>2, <3>1, RxApart, IdxMod
    <3> QED BY <1>3, <3>1, <3>2 DEF RxFilled
  <2> QED BY <2>1, <2>2
<1>5. ASSUME NEW i \in (A + 1)..(R + RxRingSize - 1) PROVE t[i % RxRingSize] = 0
  <2>1. i \in A..(R + RxRingSize - 1) /\ i \in Int /\ i # A /\ A - i < RxRingSize /\ i - A < RxRingSize
    BY <1>1
  <2>2. i % RxRingSize # A % RxRingSize /\ i % RxRingSize \in RxIdx
    BY <2>1, RxApart, IdxMod
  <2> QED BY <1>3, <2>1, <2>2 DEF RxFilled
<1> QED BY <1>2, <1>3, <1>4, <1>5 DEF RxFilled

LEMMA RxCleared ==
  ASSUME NEW st, NEW R \in Nat, NEW A \in Nat, RxFilled(st, R, A), R < A, A < R + RxRingSize
  PROVE  RxFilled([st EXCEPT ![R % RxRingSize] = 0], R + 1, A)
PROOF
<1>1. RxRingSize \in Nat /\ st \in [RxIdx -> Nat] /\ R % RxRingSize \in RxIdx
  BY RxSizes, IdxMod DEF RxFilled
<1>2. PICK t : t = [st EXCEPT ![R % RxRingSize] = 0]
  OBVIOUS
<1>3. t \in [RxIdx -> Nat] /\ t[R % RxRingSize] = 0
      /\ \A x \in RxIdx : x # R % RxRingSize => t[x] = st[x]
  BY <1>1, <1>2
<1>4. ASSUME NEW i \in (R + 1)..(A - 1) PROVE t[i % RxRingSize] = (i % (RxRingSize + 1)) + 1
  <2>1. i \in R..(A - 1) /\ i \in Int /\ i # R /\ R - i < RxRingSize /\ i - R < RxRingSize
    BY <1>1
  <2>2. i % RxRingSize # R % RxRingSize /\ i % RxRingSize \in RxIdx
    BY <2>1, RxApart, IdxMod
  <2> QED BY <1>3, <2>1, <2>2 DEF RxFilled
<1>5. ASSUME NEW i \in A..(R + 1 + RxRingSize - 1) PROVE t[i % RxRingSize] = 0
  <2>1. CASE i = R + RxRingSize
    <3>1. (R + RxRingSize) % RxRingSize = R % RxRingSize
      <4>1. R \in Int
        OBVIOUS
      <4> QED BY <4>1, RxSizes, ModTurn, Zenon
    <3> QED BY <1>3, <2>1, <3>1
  <2>2. CASE i # R + RxRingSize
    <3>1. i \in A..(R + RxRingSize - 1) /\ i \in Int /\ i # R /\ R - i < RxRingSize /\ i - R < RxRingSize
      BY <1>1, <2>2
    <3>2. i % RxRingSize # R % RxRingSize /\ i % RxRingSize \in RxIdx
      BY <3>1, RxApart, IdxMod
    <3> QED BY <1>3, <3>1, <3>2 DEF RxFilled
  <2> QED BY <2>1, <2>2
<1> QED BY <1>2, <1>3, <1>4, <1>5 DEF RxFilled

LEMMA RxMoves ==
  ASSUME NEW i \in Int, NEW n \in Int
  PROVE  ((i % RxRingSize) + n) % RxRingSize = (i + n) % RxRingSize
PROOF BY RxSizes, ModAdd, Zenon

LEMMA FrameMoves ==
  ASSUME NEW i \in Int, NEW n \in Int
  PROVE  ((i % (RxRingSize + 1)) + n) % (RxRingSize + 1) = (i + n) % (RxRingSize + 1)
PROOF BY RxSizes, ModAdd, Zenon

LEMMA FrameAfter ==
  ASSUME NEW i \in Int, NEW j \in Int, NEW n \in Int, i % (RxRingSize + 1) = j % (RxRingSize + 1)
  PROVE  (i + n) % (RxRingSize + 1) = (j + n) % (RxRingSize + 1)
PROOF
<1>1. ((i % (RxRingSize + 1)) + n) % (RxRingSize + 1) = (i + n) % (RxRingSize + 1)
  BY RxSizes, ModAdd, Zenon
<1>2. ((j % (RxRingSize + 1)) + n) % (RxRingSize + 1) = (j + n) % (RxRingSize + 1)
  BY RxSizes, ModAdd, Zenon
<1> QED BY <1>1, <1>2, Zenon

LEMMA RxInitially == RxInit => RxInv
PROOF
<1> SUFFICES ASSUME RxInit PROVE RxInv
  OBVIOUS
<1> USE DEF RxInit
<1>1. PICK N \in Nat, B \in Nat, c \in Nat : N = RxRingSize /\ B = BOUNDARY /\ N = B * c /\ B > 0 /\ B < N
  BY RxSizesNamed
<1>2. PICK D \in Nat : D = N - B
  BY <1>1
<1>3. D \in 0..(RxRingSize - 1) /\ 0 \in 0..(RxRingSize - 1) /\ D = RxRingSize * 0 + D /\ 0 = RxRingSize * 0 + 0
  BY <1>1, <1>2
<1>4. D % RxRingSize = D /\ 0 % RxRingSize = 0
  BY <1>3, RxSizes, ModUnique
<1>5. 0 % (RxRingSize + 1) = 0
  <2>1. 0 \in 0..(RxRingSize + 1 - 1) /\ 0 = (RxRingSize + 1) * 0 + 0
    BY RxSizes
  <2> QED BY <2>1, RxSizes, ModUnique
<1>6. RxFilled(rxstat, 0, 0)
  <2>1. \A i \in 0..(0 + RxRingSize - 1) : rxstat[i % RxRingSize] = 0
    BY IdxMod
  <2> QED BY <2>1 DEF RxFilled
<1>7. \E d \in Nat : D = BOUNDARY * d
  <2>1. c >= 1
    <3>1. c = 0 => B * c = 0
      OBVIOUS
    <3> QED BY <1>1, <3>1
  <2>2. PICK d \in Nat : d = c - 1
    BY <2>1
  <2>3. B * d = B * c - B
    BY <2>2
  <2> QED BY <1>1, <1>2, <2>3
<1>8. RxIs(0, 0, 0, 0, D)
  <2>1. rxread % (RxRingSize + 1) = 0 % (RxRingSize + 1) /\ rxarrived % (RxRingSize + 1) = 0 % (RxRingSize + 1)
    OBVIOUS
  <2>2. 0 <= D /\ D < 0 + RxRingSize
    BY <1>1, <1>2
  <2>3. rdt = D % RxRingSize /\ rxHead = 0 % RxRingSize /\ rxTail = 0 % RxRingSize /\ rdh = 0 % RxRingSize
    BY <1>1, <1>2, <1>4
  <2> QED BY <1>6, <1>7, <2>1, <2>2, <2>3 DEF RxIs
<1>9. IsemIs(0, 0)
  <2>1. SemOf(isem, {}) /\ isem.count = 0
    BY SemNew DEF NewSem
  <2> QED BY <2>1 DEF IsemIs
<1> QED BY <1>8, <1>9 DEF RxInv

LEMMA RxFrameKeeps ==
  ASSUME RxInv, RxFrame
  PROVE  RxInv'
PROOF
<1>1. PICK H \in Nat, R \in Nat, T \in Nat, A \in Nat, D \in Nat : RxIs(H, R, T, A, D) /\ IsemIs(R, T)
  BY DEF RxInv
<1>2. /\ rdh # rdt /\ rxstat' = [rxstat EXCEPT ![rdh] = NextFrame(rxarrived)]
      /\ rdh' = (rdh + 1) % RxRingSize /\ rxarrived' = NextFrame(rxarrived)
      /\ UNCHANGED <<rdt, rxHead, rxTail, isem, rxreader, rxread, rxlost>>
  BY DEF RxFrame
<1>3. /\ rdh = A % RxRingSize /\ rdt = D % RxRingSize /\ A <= D /\ D < H + RxRingSize /\ T <= A /\ R <= T
      /\ (R = H \/ R = H + 1) /\ RxFilled(rxstat, R, A) /\ rxarrived \in Nat
      /\ rxarrived % (RxRingSize + 1) = A % (RxRingSize + 1)
  BY <1>1 DEF RxIs
<1>4. A < D
  BY <1>2, <1>3
<1>5. PICK f \in Nat : f = (A % (RxRingSize + 1)) + 1
  BY RxSizes, ModIs
<1>6. NextFrame(rxarrived) = f
  BY <1>3, <1>5 DEF NextFrame
<1>7. f % (RxRingSize + 1) = (A + 1) % (RxRingSize + 1)
  <2>1. ((A % (RxRingSize + 1)) + 1) % (RxRingSize + 1) = (A + 1) % (RxRingSize + 1)
    BY FrameMoves
  <2> QED BY <1>5, <2>1
<1>8. RxFilled(rxstat', R, A + 1)
  <2>1. A < R + RxRingSize /\ R <= A /\ RxRingSize \in Nat
    BY <1>3, <1>4, RxSizes
  <2>2. RxFilled([rxstat EXCEPT ![A % RxRingSize] = f], R, A + 1)
    BY <1>3, <1>5, <2>1, RxFills
  <2> QED BY <1>2, <1>3, <1>6, <2>2
<1>9. rdh' = (A + 1) % RxRingSize
  BY <1>2, <1>3, RxMoves
<1>10. A + 1 \in Nat /\ T <= A + 1 /\ A + 1 <= D
  BY <1>3, <1>4
<1>11. RxIs(H, R, T, A + 1, D)'
  <2>1. \E d \in Nat : D = BOUNDARY * d
    BY <1>1 DEF RxIs
  <2>2. rxHead' = H % RxRingSize /\ rxTail' = T % RxRingSize /\ rdt' = D % RxRingSize
    BY <1>1, <1>2 DEF RxIs
  <2>3. R = (IF rxreader' = "advance" THEN H + 1 ELSE H)
    BY <1>1, <1>2 DEF RxIs
  <2>4. /\ {rxread', rxarrived'} \subseteq Nat /\ rxread' % (RxRingSize + 1) = R % (RxRingSize + 1)
        /\ rxarrived' % (RxRingSize + 1) = (A + 1) % (RxRingSize + 1)
    BY <1>1, <1>2, <1>5, <1>6, <1>7 DEF RxIs
  <2> QED BY <1>3, <1>8, <1>9, <1>10, <2>1, <2>2, <2>3, <2>4 DEF RxIs
<1>12. IsemIs(R, T)' /\ rxreader' = rxreader /\ rxlost' = rxlost
  BY <1>1, <1>2 DEF IsemIs
<1> QED BY <1>10, <1>11, <1>12 DEF RxInv

(* eth_rxPackets counts what has arrived since it last looked. *)
LEMMA RxNewIs ==
  ASSUME NEW H \in Nat, NEW R \in Nat, NEW T \in Nat, NEW A \in Nat, NEW D \in Nat, RxIs(H, R, T, A, D)
  PROVE  RxNew = A - T /\ A - T \in Nat /\ TailAfter(RxNew) = A % RxRingSize
PROOF
<1>1. /\ rxTail = T % RxRingSize /\ R <= T /\ T <= A /\ A <= D /\ D < H + RxRingSize /\ (R = H \/ R = H + 1)
      /\ RxFilled(rxstat, R, A) /\ RxRingSize \in Nat
  BY RxSizes DEF RxIs
<1>2. ASSUME NEW k \in Int PROVE (rxTail + k) % RxRingSize = (T + k) % RxRingSize
  <2>1. T \in Int
    OBVIOUS
  <2>2. ((T % RxRingSize) + k) % RxRingSize = (T + k) % RxRingSize
    BY <2>1, RxMoves, Zenon
  <2> QED BY <1>1, <2>2
<1>3. PICK m \in Nat : m = A - T
  BY <1>1
<1>4. m < RxRingSize
  BY <1>1, <1>3
<1>5. ASSUME NEW k \in 0..(m - 1) PROVE rxstat[(rxTail + k) % RxRingSize] # 0
  <2>1. PICK i \in R..(A - 1) : i = T + k
    BY <1>1, <1>3
  <2>2. rxstat[i % RxRingSize] = (i % (RxRingSize + 1)) + 1
    BY <1>1 DEF RxFilled
  <2>3. i % (RxRingSize + 1) \in Nat
    BY RxSizes, ModIs
  <2> QED BY <1>2, <2>1, <2>2, <2>3
<1>6. rxstat[(rxTail + m) % RxRingSize] = 0
  <2>1. A \in A..(R + RxRingSize - 1) /\ T + m = A
    BY <1>1, <1>3
  <2>2. rxstat[A % RxRingSize] = 0
    BY <1>1, <2>1 DEF RxFilled
  <2> QED BY <1>2, <2>1, <2>2
<1>7. ASSUME NEW n \in 0..RxRingSize,
             \A k \in 0..(n - 1) : rxstat[(rxTail + k) % RxRingSize] # 0,
             n = RxRingSize \/ rxstat[(rxTail + n) % RxRingSize] = 0
      PROVE  n = m
  <2>1. ~(n < m)
    BY <1>4, <1>5, <1>7
  <2>2. ~(m < n)
    BY <1>6, <1>7
  <2> QED BY <2>1, <2>2
<1>8. m \in 0..RxRingSize
  BY <1>1, <1>4
<1>9. RxNew = m
  BY <1>5, <1>6, <1>7, <1>8 DEF RxNew
<1>10. TailAfter(m) = A % RxRingSize
  <2>1. T + m = A
    BY <1>3
  <2> QED BY <1>2, <2>1 DEF TailAfter
<1> QED BY <1>3, <1>9, <1>10

LEMMA EthRxInterruptKeeps ==
  ASSUME RxInv, EthRxInterrupt
  PROVE  RxInv'
PROOF
<1>1. PICK H \in Nat, R \in Nat, T \in Nat, A \in Nat, D \in Nat : RxIs(H, R, T, A, D) /\ IsemIs(R, T)
  BY DEF RxInv
<1>2. PICK m \in Nat : m = A - T /\ m = RxNew
  BY <1>1, RxNewIs
<1>3. /\ rxTail' = A % RxRingSize
      /\ isem' = IF m > 0 THEN SignalN(isem, m) ELSE isem
      /\ UNCHANGED <<rxstat, rdh, rdt, rxHead, rxreader, rxarrived, rxread, rxlost>>
  BY <1>1, <1>2, RxNewIs DEF EthRxInterrupt
<1>4. R <= A /\ A <= A
  BY <1>1 DEF RxIs
<1>5. RxIs(H, R, A, A, D)'
  BY <1>1, <1>3, <1>4 DEF RxIs
<1>6. IsemIs(R, A)'
  <2>1. PICK W \in SUBSET (IF rxreader = "wait" THEN {"netin"} ELSE {}) :
          SemOf(isem, W) /\ isem.count = T - R - (IF rxreader \in {"wait", "clear"} THEN 1 ELSE 0)
    BY <1>1 DEF IsemIs
  <2>2. CASE m = 0
    <3>1. A = T /\ isem' = isem
      BY <1>2, <1>3, <2>2
    <3> QED BY <1>3, <2>1, <3>1 DEF IsemIs
  <2>3. CASE m > 0
    <3>1. m \in Nat \ {0} /\ isem' = SignalN(isem, m)
      BY <1>3, <2>3
    <3>2. isem'.count = isem.count + m /\ \E V \in SUBSET W : SemOf(isem', V)
      BY <2>1, <3>1, SemSignalN
    <3>3. PICK x \in Int : x = IF rxreader \in {"wait", "clear"} THEN 1 ELSE 0
      OBVIOUS
    <3>4. isem'.count = A - R - x
      <4>1. isem.count = T - R - x
        BY <2>1, <3>3
      <4>2. PICK y \in Int : y = isem.count
        BY <4>1
      <4>3. isem'.count = y + m
        BY <3>2, <4>2
      <4>4. y + m = A - R - x
        BY <1>2, <4>1, <4>2
      <4> QED BY <4>3, <4>4
    <3> QED BY <1>3, <2>1, <3>2, <3>3, <3>4 DEF IsemIs
  <2> QED BY <2>2, <2>3
<1> QED BY <1>3, <1>5, <1>6 DEF RxInv

LEMMA EthReadKeeps ==
  ASSUME RxInv, EthRead
  PROVE  RxInv'
PROOF
<1>1. PICK H \in Nat, R \in Nat, T \in Nat, A \in Nat, D \in Nat : RxIs(H, R, T, A, D) /\ IsemIs(R, T)
  BY DEF RxInv
<1>2. /\ rxreader = "out" /\ rxreader' \in {"wait", "clear"}
      /\ UNCHANGED <<rxstat, rdh, rdt, rxHead, rxTail, rxarrived, rxread, rxlost>>
  BY DEF EthRead
<1>3. RxIs(H, R, T, A, D)'
  BY <1>1, <1>2 DEF RxIs
<1>4. SemOf(isem, {}) /\ isem.count = T - R
  <2>1. PICK W \in SUBSET {} : SemOf(isem, W) /\ isem.count = T - R - 0
    BY <1>1, <1>2 DEF IsemIs
  <2> QED BY <2>1
<1>5. CASE Passes(isem)
  <2>1. isem' = Take(isem) /\ rxreader' = "clear"
    BY <1>5 DEF EthRead
  <2>2. SemOf(isem', {}) /\ isem'.count = isem.count - 1
    BY <1>4, <1>5, <2>1, SemTake
  <2>3. IsemIs(R, T)'
    BY <1>4, <2>1, <2>2 DEF IsemIs
  <2> QED BY <1>2, <1>3, <2>3 DEF RxInv
<1>6. CASE ~Passes(isem)
  <2>1. isem' = Blocks(isem, "netin") /\ rxreader' = "wait"
    BY <1>6 DEF EthRead
  <2>2. SemOf(isem', {} \cup {"netin"}) /\ isem'.count = isem.count - 1
    BY <1>4, <1>6, <2>1, SemBlocks
  <2>3. SemOf(isem', {"netin"})
    BY <2>2
  <2>4. IsemIs(R, T)'
    BY <1>4, <2>1, <2>2, <2>3 DEF IsemIs
  <2> QED BY <1>2, <1>3, <2>4 DEF RxInv
<1> QED BY <1>5, <1>6

LEMMA EthReadCopiesKeeps ==
  ASSUME RxInv, EthReadCopies
  PROVE  RxInv'
PROOF
<1>1. PICK H \in Nat, R \in Nat, T \in Nat, A \in Nat, D \in Nat : RxIs(H, R, T, A, D) /\ IsemIs(R, T)
  BY DEF RxInv
<1>2. /\ rxreader \in {"wait", "clear"} /\ ~WaitsAt("netin", isem) /\ rxreader' = "advance"
      /\ rxread' = (IF rxstat[rxHead] # 0 THEN rxstat[rxHead] ELSE rxread)
      /\ rxlost' = (rxlost \/ rxstat[rxHead] = 0)
      /\ rxstat' = [rxstat EXCEPT ![rxHead] = 0]
      /\ UNCHANGED <<rdh, rdt, rxHead, rxTail, isem, rxarrived>>
  BY DEF EthReadCopies
<1>3. R = H /\ rxHead = R % RxRingSize /\ R <= T /\ T <= A /\ A <= D /\ D < H + RxRingSize /\ RxFilled(rxstat, R, A)
  BY <1>1, <1>2 DEF RxIs
<1>4. SemOf(isem, {}) /\ isem.count = T - R - 1
  <2>1. PICK W \in SUBSET {"netin"} : SemOf(isem, W) /\ isem.count = T - R - 1
    BY <1>1, <1>2 DEF IsemIs
  <2>2. "netin" \notin W
    BY <1>2, <2>1, SemWaits DEF WaitsAt
  <2>3. W = {}
    BY <2>2
  <2> QED BY <2>1, <2>3
<1>5. R < T
  BY <1>4, SemEmpty
<1>6. rxstat[R % RxRingSize] = (R % (RxRingSize + 1)) + 1 /\ R % (RxRingSize + 1) \in Nat
  <2>1. R \in R..(A - 1) /\ R \in Int
    BY <1>3, <1>5
  <2>2. R % (RxRingSize + 1) \in Nat
    BY <2>1, RxSizes, ModIs
  <2> QED BY <1>3, <2>1, <2>2 DEF RxFilled
<1>7. ~rxlost' /\ rxread' = (R % (RxRingSize + 1)) + 1 /\ rxread' \in Nat
  <2>1. PICK f \in Nat : f = (R % (RxRingSize + 1)) + 1
    BY <1>6
  <2>2. rxstat[rxHead] = f /\ f # 0
    BY <1>3, <1>6, <2>1
  <2>3. rxread' = f
    BY <1>2, <2>2
  <2>4. ~rxlost'
    <3>1. ~rxlost /\ rxstat[rxHead] # 0
      BY <2>2 DEF RxInv
    <3>2. rxlost' = (rxlost \/ rxstat[rxHead] = 0)
      BY <1>2
    <3> QED BY <3>1, <3>2, Zenon
  <2> QED BY <2>1, <2>3, <2>4
<1>8. rxread' % (RxRingSize + 1) = (R + 1) % (RxRingSize + 1)
  <2>1. ((R % (RxRingSize + 1)) + 1) % (RxRingSize + 1) = (R + 1) % (RxRingSize + 1)
    BY FrameMoves
  <2> QED BY <1>7, <2>1
<1>9. RxFilled(rxstat', R + 1, A)
  <2>1. R < A /\ A < R + RxRingSize
    BY <1>3, <1>5, RxSizes
  <2>2. RxFilled([rxstat EXCEPT ![R % RxRingSize] = 0], R + 1, A)
    BY <1>3, <2>1, RxCleared
  <2> QED BY <1>2, <1>3, <2>2
<1>10. R + 1 \in Nat /\ R + 1 <= T /\ R + 1 = H + 1
  BY <1>3, <1>5
<1>11. RxIs(H, R + 1, T, A, D)'
  <2>1. /\ rxHead' = H % RxRingSize /\ rxTail' = T % RxRingSize /\ rdh' = A % RxRingSize /\ rdt' = D % RxRingSize
        /\ rxarrived' \in Nat /\ rxarrived' % (RxRingSize + 1) = A % (RxRingSize + 1)
        /\ \E d \in Nat : D = BOUNDARY * d
    BY <1>1, <1>2 DEF RxIs
  <2> QED BY <1>2, <1>3, <1>7, <1>8, <1>9, <1>10, <2>1 DEF RxIs
<1>12. IsemIs(R + 1, T)'
  <2>1. PICK x \in Int : x = R + 1
    OBVIOUS
  <2>2. isem'.count = T - x - 0
    BY <1>2, <1>4, <2>1
  <2> QED BY <1>2, <1>4, <2>1, <2>2 DEF IsemIs
<1> QED BY <1>2, <1>7, <1>10, <1>11, <1>12 DEF RxInv

LEMMA EthReadAdvancesKeeps ==
  ASSUME RxInv, EthReadAdvances
  PROVE  RxInv'
PROOF
<1>1. PICK H \in Nat, R \in Nat, T \in Nat, A \in Nat, D \in Nat : RxIs(H, R, T, A, D) /\ IsemIs(R, T)
  BY DEF RxInv
<1>2. /\ rxreader = "advance" /\ rxreader' = "out"
      /\ rdt' = (IF AtBoundary(rxHead) THEN (rdt + BOUNDARY) % RxRingSize ELSE rdt)
      /\ rxHead' = (rxHead + 1) % RxRingSize
      /\ UNCHANGED <<rxstat, rdh, rxTail, isem, rxarrived, rxread, rxlost>>
  BY DEF EthReadAdvances
<1>3. /\ R = H + 1 /\ rxHead = H % RxRingSize /\ rdt = D % RxRingSize
      /\ R <= T /\ T <= A /\ A <= D /\ D < H + RxRingSize
  BY <1>1, <1>2 DEF RxIs
<1>4. rxHead' = R % RxRingSize
  BY <1>2, <1>3, RxMoves
<1>5. PICK d \in Nat : D = BOUNDARY * d
  BY <1>1 DEF RxIs
<1>6. \E E \in Nat : /\ rdt' = E % RxRingSize /\ D <= E /\ E < R + RxRingSize /\ \E e \in Nat : E = BOUNDARY * e
  <2>1. CASE ~AtBoundary(rxHead)
    <3>1. rdt' = D % RxRingSize /\ D < R + RxRingSize
      BY <1>2, <1>3, <2>1, RxSizes
    <3> QED BY <1>5, <3>1
  <2>2. CASE AtBoundary(rxHead)
    <3>1. PICK N \in Nat, B \in Nat, c \in Nat : N = RxRingSize /\ B = BOUNDARY /\ N = B * c /\ B > 0 /\ B < N /\ N > 0
      BY RxSizesNamed
    <3>2. PICK h \in Int : H = B * h
      (* the head is a multiple, as the ring and its place in it are *)
      <4>1. PICK q \in Int, r \in Int : q = H \div N /\ r = H % N
        BY <3>1
      <4>2. H = N * q + r
        BY <3>1, <4>1, ModIs
      <4>3. r % B = 0
        BY <1>3, <2>2, <3>1, <4>1 DEF AtBoundary
      <4>4. PICK p \in Int : p = r \div B
        BY <3>1
      <4>5. r = B * p + 0
        BY <3>1, <4>3, <4>4, ModIs
      <4>6. PICK h \in Int : h = c * q + p
        OBVIOUS
      <4>7. B * h = B * (c * q) + B * p
        BY <4>6
      <4>8. B * (c * q) = (B * c) * q
        OBVIOUS
      <4>9. H = B * h
        BY <3>1, <4>2, <4>5, <4>7, <4>8
      <4> QED BY <4>9
    <3>3. D <= H + N - B
      <4>1. D = B * d /\ H = B * h /\ N = B * c /\ D < H + N
        BY <1>3, <1>5, <3>1, <3>2
      <4>2. PICK x \in Int : x = h + c - d
        OBVIOUS
      <4>3. B * x = H + N - D
        <5>1. B * x = B * h + B * c - B * d
          BY <4>2
        <5> QED BY <4>1, <5>1
      <4>4. x >= 1
        <5>1. x <= 0 => B * x <= 0
          BY <3>1
        <5> QED BY <4>1, <4>3, <5>1
      <4>5. B * x >= B
        BY <3>1, <4>4
      <4> QED BY <4>3, <4>5
    <3>4. PICK E \in Nat : E = D + B
      BY <3>1
    <3>5. rdt' = E % RxRingSize
      BY <1>2, <1>3, <2>2, <3>1, <3>4, RxMoves
    <3>6. D <= E /\ E < R + RxRingSize
      BY <1>3, <3>1, <3>3, <3>4
    <3>7. PICK e \in Nat : e = d + 1
      OBVIOUS
    <3>8. E = BOUNDARY * e
      <4>1. B * e = B * d + B
        BY <3>7
      <4> QED BY <1>5, <3>1, <3>4, <4>1
    <3> QED BY <3>5, <3>6, <3>8
  <2> QED BY <2>1, <2>2
<1>7. PICK E \in Nat : /\ rdt' = E % RxRingSize /\ D <= E /\ E < R + RxRingSize /\ \E e \in Nat : E = BOUNDARY * e
  BY <1>6
<1>8. RxIs(R, R, T, A, E)'
  <2>1. /\ rxTail' = T % RxRingSize /\ rdh' = A % RxRingSize /\ RxFilled(rxstat', R, A)
        /\ {rxread', rxarrived'} \subseteq Nat /\ rxread' % (RxRingSize + 1) = R % (RxRingSize + 1)
        /\ rxarrived' % (RxRingSize + 1) = A % (RxRingSize + 1)
    BY <1>1, <1>2 DEF RxIs
  <2>2. A <= E
    BY <1>3, <1>7
  <2> QED BY <1>2, <1>3, <1>4, <1>7, <2>1, <2>2 DEF RxIs
<1>9. IsemIs(R, T)'
  BY <1>1, <1>2 DEF IsemIs
<1> QED BY <1>2, <1>8, <1>9 DEF RxInv

LEMMA RxStep == RxInv /\ [RxNext]_rxVars => RxInv'
PROOF
<1> SUFFICES ASSUME RxInv, [RxNext]_rxVars PROVE RxInv'
  OBVIOUS
<1>1. CASE UNCHANGED rxVars
  <2>1. PICK H \in Nat, R \in Nat, T \in Nat, A \in Nat, D \in Nat : RxIs(H, R, T, A, D) /\ IsemIs(R, T)
    BY DEF RxInv
  <2>2. RxIs(H, R, T, A, D)'
    BY <1>1, <2>1 DEF rxVars, RxIs
  <2>3. IsemIs(R, T)'
    BY <1>1, <2>1 DEF rxVars, IsemIs
  <2>4. rxreader' = rxreader /\ rxlost' = rxlost
    BY <1>1 DEF rxVars
  <2> QED BY <2>2, <2>3, <2>4 DEF RxInv
<1> QED BY <1>1, RxFrameKeeps, EthRxInterruptKeeps, EthReadKeeps, EthReadCopiesKeeps, EthReadAdvancesKeeps DEF RxNext

LEMMA RxInvSound == RxInv => AdapterOwnsEmpty /\ ReaderFindsFrame /\ FramesInOrder
PROOF
<1> SUFFICES ASSUME RxInv PROVE AdapterOwnsEmpty /\ ReaderFindsFrame /\ FramesInOrder
  OBVIOUS
<1>1. PICK H \in Nat, R \in Nat, T \in Nat, A \in Nat, D \in Nat : RxIs(H, R, T, A, D)
  BY DEF RxInv
<1>2. /\ rxHead = H % RxRingSize /\ rdh = A % RxRingSize /\ rdt = D % RxRingSize
      /\ R = (IF rxreader = "advance" THEN H + 1 ELSE H)
      /\ R <= T /\ T <= A /\ A <= D /\ D < H + RxRingSize /\ RxFilled(rxstat, R, A) /\ RxRingSize \in Nat
      /\ rxread % (RxRingSize + 1) = R % (RxRingSize + 1) /\ rxread \in Nat
  BY <1>1, RxSizes DEF RxIs
<1>3. AdapterOwnsEmpty
  <2> SUFFICES ASSUME NEW k \in 0..(RxRingSize - 1), \A j \in 0..k : (rdh + j) % RxRingSize # rdt
               PROVE  rxstat[(rdh + k) % RxRingSize] = 0
    BY DEF AdapterOwnsEmpty
  <2>1. \A j \in Int : (rdh + j) % RxRingSize = (A + j) % RxRingSize
    BY <1>2, RxMoves
  <2>2. A + k < D
    <3>1. SUFFICES ASSUME D <= A + k PROVE FALSE
      OBVIOUS
    <3>2. PICK j \in 0..k : j = D - A
      BY <1>2, <3>1
    <3>3. A + j = D /\ j \in Int
      BY <3>2
    <3>4. (A + j) % RxRingSize # rdt
      BY <2>1, <3>3
    <3> QED BY <1>2, <3>3, <3>4
  <2>3. PICK i \in A..(R + RxRingSize - 1) : i = A + k
    BY <1>2, <2>2
  <2>4. rxstat[i % RxRingSize] = 0
    BY <1>2 DEF RxFilled
  <2> QED BY <2>1, <2>3, <2>4
<1>4. ReaderFindsFrame
  BY DEF RxInv, ReaderFindsFrame
<1>5. FramesInOrder
  <2>1. PICK next \in Int : next = (IF rxreader = "advance" THEN rxHead + 1 ELSE rxHead)
    <3>1. rxHead \in Int
      BY <1>2, IdxMod DEF RxIdx
    <3> QED BY <3>1
  <2>2. ASSUME NEW k \in RxIdx PROVE (next + k) % RxRingSize = (R + k) % RxRingSize
    <3>1. CASE rxreader = "advance"
      <4>1. PICK u \in Int : u = H + 1
        OBVIOUS
      <4>2. PICK v \in Int : v = 1 + k
        BY <1>2 DEF RxIdx
      <4>3. ((H % RxRingSize) + v) % RxRingSize = (H + v) % RxRingSize
        BY RxMoves
      <4>4. next + k = (H % RxRingSize) + v
        <5>1. PICK w \in Int : w = H % RxRingSize
          <6>1. H \in Int
            OBVIOUS
          <6>2. H % RxRingSize \in RxIdx
            BY <6>1, IdxMod
          <6> QED BY <1>2, <6>2 DEF RxIdx
        <5> QED BY <1>2, <2>1, <3>1, <4>2, <5>1 DEF RxIdx
      <4>5. R + k = H + v
        BY <1>2, <3>1, <4>2 DEF RxIdx
      <4> QED BY <4>3, <4>4, <4>5
    <3>2. CASE rxreader # "advance"
      <4>1. next = H % RxRingSize /\ R = H /\ k \in Int
        BY <1>2, <2>1, <3>2 DEF RxIdx
      <4> QED BY <4>1, RxMoves
    <3> QED BY <3>1, <3>2
  <2>3. ASSUME NEW k \in RxIdx, rxstat[(next + k) % RxRingSize] # 0
        PROVE  rxstat[(next + k) % RxRingSize] = ((rxread + k) % (RxRingSize + 1)) + 1
    <3>1. PICK i \in Int : i = R + k /\ k \in Int /\ 0 <= k /\ k < RxRingSize
      BY <1>2 DEF RxIdx
    <3>2. rxstat[i % RxRingSize] # 0 /\ (next + k) % RxRingSize = i % RxRingSize
      BY <2>2, <2>3, <3>1
    <3>3. i < A
      <4>1. i >= A => i \in A..(R + RxRingSize - 1)
        BY <1>2, <3>1
      <4>2. \A x \in A..(R + RxRingSize - 1) : rxstat[x % RxRingSize] = 0
        BY <1>2 DEF RxFilled
      <4>3. ~(i >= A)
        BY <3>2, <4>1, <4>2
      <4> QED BY <3>1, <4>3
    <3>4. i \in R..(A - 1)
      BY <3>1, <3>3
    <3>5. rxstat[i % RxRingSize] = (i % (RxRingSize + 1)) + 1
      BY <1>2, <3>4 DEF RxFilled
    <3>6. (rxread + k) % (RxRingSize + 1) = (R + k) % (RxRingSize + 1)
      <4>1. rxread \in Int /\ R \in Int /\ k \in Int
        BY <1>2, <3>1
      <4>2. rxread % (RxRingSize + 1) = R % (RxRingSize + 1)
        BY <1>2
      <4> QED BY <4>1, <4>2, FrameAfter, Zenon
    <3> QED BY <3>1, <3>2, <3>5, <3>6
  <2> QED BY <2>1, <2>3 DEF FramesInOrder
<1> QED BY <1>3, <1>4, <1>5

LEMMA TxSizes ==
  /\ TxRingSize \in Nat \ {0} /\ TxRingSize \in Int
  /\ IsFiniteSet(EthWriters) /\ IPOUT \notin EthWriters
PROOF BY EthSizes

LEMMA TxIdxMod == \A i \in Int : i % TxRingSize \in TxIdx
PROOF BY TxSizes, ModIs DEF TxIdx

LEMMA TxMoves ==
  ASSUME NEW i \in Int, NEW n \in Int
  PROVE  ((i % TxRingSize) + n) % TxRingSize = (i + n) % TxRingSize
PROOF BY TxSizes, ModAdd, Zenon

LEMMA TxApart ==
  ASSUME NEW i \in Int, NEW j \in Int, i % TxRingSize = j % TxRingSize, i - j < TxRingSize, j - i < TxRingSize
  PROVE  i = j
PROOF
<1>1. i <= j \/ j <= i
  OBVIOUS
<1>2. i <= j => i = j
  BY TxSizes, ModSame
<1>3. j <= i => j = i
  BY TxSizes, ModSame
<1> QED BY <1>1, <1>2, <1>3

(* The transmit ring, unrolled: the handler has cleaned the first H descriptors,
   the adapter has sent S, and E are filled. *)
TxFilled(ds, H, S, E) ==
  /\ ds \in [TxIdx -> {"clean", "filled", "done"}]
  /\ \A i \in H..(S - 1) : ds[i % TxRingSize] = "done"
  /\ \A i \in S..(E - 1) : ds[i % TxRingSize] = "filled"
  /\ \A i \in E..(H + TxRingSize - 1) : ds[i % TxRingSize] = "clean"

LEMMA TxSent ==
  ASSUME NEW ds, NEW H \in Nat, NEW S \in Nat, NEW E \in Nat, TxFilled(ds, H, S, E),
         H <= S, S < E, E <= H + TxRingSize
  PROVE  TxFilled([ds EXCEPT ![S % TxRingSize] = "done"], H, S + 1, E)
PROOF
<1>1. TxRingSize \in Nat /\ ds \in [TxIdx -> {"clean", "filled", "done"}] /\ S % TxRingSize \in TxIdx
  <2>1. S \in Int
    OBVIOUS
  <2> QED BY <2>1, TxSizes, TxIdxMod DEF TxFilled
<1>2. PICK t : t = [ds EXCEPT ![S % TxRingSize] = "done"]
  OBVIOUS
<1>3. t \in [TxIdx -> {"clean", "filled", "done"}] /\ t[S % TxRingSize] = "done"
      /\ \A x \in TxIdx : x # S % TxRingSize => t[x] = ds[x]
  BY <1>1, <1>2
<1>4. ASSUME NEW i \in H..(H + TxRingSize - 1), i # S PROVE t[i % TxRingSize] = ds[i % TxRingSize]
  <2>1. i \in Int /\ S \in Int /\ i - S < TxRingSize /\ S - i < TxRingSize
    BY <1>1
  <2>2. i % TxRingSize # S % TxRingSize /\ i % TxRingSize \in TxIdx
    BY <1>4, <2>1, TxApart, TxIdxMod
  <2> QED BY <1>3, <2>2
<1>5. ASSUME NEW i \in H..(S + 1 - 1) PROVE t[i % TxRingSize] = "done"
  <2>1. CASE i = S
    BY <1>3, <2>1
  <2>2. CASE i # S
    <3>1. i \in H..(S - 1) /\ i \in H..(H + TxRingSize - 1)
      BY <1>1, <2>2
    <3>2. ds[i % TxRingSize] = "done"
      BY <3>1 DEF TxFilled
    <3> QED BY <1>4, <2>2, <3>1, <3>2
  <2> QED BY <2>1, <2>2
<1>6. ASSUME NEW i \in (S + 1)..(E - 1) PROVE t[i % TxRingSize] = "filled"
  <2>1. i \in S..(E - 1) /\ i \in H..(H + TxRingSize - 1) /\ i # S
    BY <1>1
  <2>2. ds[i % TxRingSize] = "filled"
    BY <2>1 DEF TxFilled
  <2> QED BY <1>4, <2>1, <2>2
<1>7. ASSUME NEW i \in E..(H + TxRingSize - 1) PROVE t[i % TxRingSize] = "clean"
  <2>1. i \in H..(H + TxRingSize - 1) /\ i # S
    BY <1>1
  <2>2. ds[i % TxRingSize] = "clean"
    BY DEF TxFilled
  <2> QED BY <1>4, <2>1, <2>2
<1> QED BY <1>2, <1>3, <1>5, <1>6, <1>7 DEF TxFilled

LEMMA TxFills ==
  ASSUME NEW ds, NEW H \in Nat, NEW S \in Nat, NEW E \in Nat, TxFilled(ds, H, S, E),
         H <= S, S <= E, E < H + TxRingSize
  PROVE  TxFilled([ds EXCEPT ![E % TxRingSize] = "filled"], H, S, E + 1)
PROOF
<1>1. TxRingSize \in Nat /\ ds \in [TxIdx -> {"clean", "filled", "done"}] /\ E % TxRingSize \in TxIdx
  <2>1. E \in Int
    OBVIOUS
  <2> QED BY <2>1, TxSizes, TxIdxMod DEF TxFilled
<1>2. PICK t : t = [ds EXCEPT ![E % TxRingSize] = "filled"]
  OBVIOUS
<1>3. t \in [TxIdx -> {"clean", "filled", "done"}] /\ t[E % TxRingSize] = "filled"
      /\ \A x \in TxIdx : x # E % TxRingSize => t[x] = ds[x]
  BY <1>1, <1>2
<1>4. ASSUME NEW i \in H..(H + TxRingSize - 1), i # E PROVE t[i % TxRingSize] = ds[i % TxRingSize]
  <2>1. i \in Int /\ E \in Int /\ i - E < TxRingSize /\ E - i < TxRingSize
    BY <1>1
  <2>2. i % TxRingSize # E % TxRingSize /\ i % TxRingSize \in TxIdx
    BY <1>4, <2>1, TxApart, TxIdxMod
  <2> QED BY <1>3, <2>2
<1>5. ASSUME NEW i \in H..(S - 1) PROVE t[i % TxRingSize] = "done"
  <2>1. i \in H..(H + TxRingSize - 1) /\ i # E
    BY <1>1
  <2>2. ds[i % TxRingSize] = "done"
    BY DEF TxFilled
  <2> QED BY <1>4, <2>1, <2>2
<1>6. ASSUME NEW i \in S..(E + 1 - 1) PROVE t[i % TxRingSize] = "filled"
  <2>1. CASE i = E
    BY <1>3, <2>1
  <2>2. CASE i # E
    <3>1. i \in S..(E - 1) /\ i \in H..(H + TxRingSize - 1)
      BY <1>1, <2>2
    <3>2. ds[i % TxRingSize] = "filled"
      BY <3>1 DEF TxFilled
    <3> QED BY <1>4, <2>2, <3>1, <3>2
  <2> QED BY <2>1, <2>2
<1>7. ASSUME NEW i \in (E + 1)..(H + TxRingSize - 1) PROVE t[i % TxRingSize] = "clean"
  <2>1. i \in E..(H + TxRingSize - 1) /\ i \in H..(H + TxRingSize - 1) /\ i # E
    BY <1>1
  <2>2. ds[i % TxRingSize] = "clean"
    BY <2>1 DEF TxFilled
  <2> QED BY <1>4, <2>1, <2>2
<1> QED BY <1>2, <1>3, <1>5, <1>6, <1>7 DEF TxFilled

Cleaned(ds, h, n) ==
  [i \in TxIdx |-> IF \E k \in 0..(n - 1) : i = (h + k) % TxRingSize THEN "clean" ELSE ds[i]]

LEMMA TxCleaned ==
  ASSUME NEW ds, NEW H \in Nat, NEW S \in Nat, NEW E \in Nat, TxFilled(ds, H, S, E),
         H <= S, S <= E, E <= H + TxRingSize,
         NEW n \in Nat, n = S - H, NEW h, h = H % TxRingSize
  PROVE  TxFilled(Cleaned(ds, h, n), S, S, E)
PROOF
<1>1. TxRingSize \in Nat /\ ds \in [TxIdx -> {"clean", "filled", "done"}]
  BY TxSizes DEF TxFilled
<1>2. PICK t : t = [i \in TxIdx |-> IF \E k \in 0..(n - 1) : i = (h + k) % TxRingSize
                                    THEN "clean" ELSE ds[i]]
  OBVIOUS
<1>3. t \in [TxIdx -> {"clean", "filled", "done"}]
  BY <1>1, <1>2
<1>4. ASSUME NEW k \in Int PROVE (h + k) % TxRingSize = (H + k) % TxRingSize
  <2>1. H \in Int
    OBVIOUS
  <2> QED BY <2>1, TxMoves
<1>5. ASSUME NEW i \in S..(E - 1) PROVE t[i % TxRingSize] = "filled"
  <2>1. i \in Int /\ i % TxRingSize \in TxIdx
    BY TxIdxMod
  <2>2. ASSUME NEW k \in 0..(n - 1), i % TxRingSize = (h + k) % TxRingSize PROVE FALSE
    <3>1. PICK j \in Int : j = H + k
      OBVIOUS
    <3>2. i - j < TxRingSize /\ j - i < TxRingSize /\ i # j
      BY <1>1, <3>1
    <3>3. i % TxRingSize = j % TxRingSize
      BY <1>4, <2>2, <3>1
    <3> QED BY <2>1, <3>2, <3>3, TxApart
  <2>3. t[i % TxRingSize] = ds[i % TxRingSize]
    BY <1>2, <2>1, <2>2
  <2> QED BY <2>3 DEF TxFilled
<1>6. ASSUME NEW i \in E..(S + TxRingSize - 1) PROVE t[i % TxRingSize] = "clean"
  <2>1. i \in Int /\ i % TxRingSize \in TxIdx
    BY TxIdxMod
  <2>2. CASE i < H + TxRingSize
    <3>1. i \in E..(H + TxRingSize - 1)
      BY <1>1, <2>2
    <3>2. ds[i % TxRingSize] = "clean"
      BY <3>1 DEF TxFilled
    <3> QED BY <1>2, <2>1, <3>2
  <2>3. CASE i >= H + TxRingSize
    <3>1. PICK j \in Int : j = i - TxRingSize
      BY <1>1
    <3>2. PICK k \in 0..(n - 1) : k = j - H
      BY <1>1, <2>3, <3>1
    <3>3. j + TxRingSize = i /\ H + k = j
      BY <1>1, <3>1, <3>2
    <3>4. (j + TxRingSize) % TxRingSize = j % TxRingSize
      BY TxSizes, ModTurn, Zenon
    <3>5. i % TxRingSize = (h + k) % TxRingSize
      BY <1>4, <3>3, <3>4
    <3> QED BY <1>2, <2>1, <3>5
  <2> QED BY <1>1, <2>2, <2>3
<1>7. S..(S - 1) = {}
  OBVIOUS
<1>8. TxFilled(t, S, S, E)
  BY <1>3, <1>5, <1>6, <1>7 DEF TxFilled
<1> QED BY <1>2, <1>8, Zenon DEF Cleaned

-----------------------------------------------------------------------------
(* A process that claims a descriptor and does not wait for one has it. *)
LEMMA ClaimHasRoom ==
  ASSUME NEW s, NEW W, SemOf(s, W), NEW Q, IsFiniteSet(Q), W \subseteq Q, NEW x \in Q, x \notin W
  PROVE  Cardinality(Q) \in Nat /\ s.count \in Int /\ s.count + Cardinality(Q) >= 1
PROOF
<1>1. IsFiniteSet(W) /\ Cardinality(W) = (IF s.count < 0 THEN -s.count ELSE 0) /\ s.count \in Int
  BY SemCounts DEF SemOf
<1>2. IsFiniteSet(Q \ {x}) /\ Cardinality(Q \ {x}) = Cardinality(Q) - 1 /\ Cardinality(Q) \in Nat
  BY FS_RemoveElement, FS_CardinalityType
<1>3. W \subseteq Q \ {x}
  OBVIOUS
<1>4. Cardinality(W) <= Cardinality(Q \ {x}) /\ Cardinality(W) \in Nat
  BY <1>1, <1>2, <1>3, FS_Subset, FS_CardinalityType
<1>5. PICK c \in Int, w \in Nat, q \in Nat : c = s.count /\ w = Cardinality(W) /\ q = Cardinality(Q)
  BY <1>1, <1>2, <1>4
<1>6. w <= q - 1 /\ w = (IF c < 0 THEN -c ELSE 0)
  BY <1>1, <1>2, <1>4, <1>5
<1>7. c + q >= 1
  BY <1>6
<1> QED BY <1>5, <1>7

(* Those who have claimed a descriptor and not filled it. *)
Claimants(tw, oa) ==
  {w \in EthWriters : tw[w] = "wait"} \cup {p \in {IPOUT} : oa \in {"wait", "fill"}}

(* n descriptors are free for those who hold a unit of osem, those who have
   been let through, and those who will be. *)
OsemIs(s, tw, oa, n) ==
  \E W \in SUBSET Claimants(tw, oa) :
    /\ SemOf(s, W) /\ (IPOUT \in W => oa = "wait")
    /\ s.count + Cardinality(Claimants(tw, oa)) = n

TxIs(H, S, T, E) ==
  /\ txHead = H % TxRingSize /\ tdh = S % TxRingSize
  /\ txTail = T % TxRingSize /\ tdt = T % TxRingSize
  /\ E = (IF outat[1] = "advance" THEN T + 1 ELSE T)
  /\ H <= S /\ S <= T /\ E <= H + TxRingSize
  /\ TxFilled(txdesc, H, S, E)
  /\ OsemIs(osem, txwriter, outat[1], TxRingSize - (E - H))

TxInv ==
  /\ txwriter \in [EthWriters -> {"out", "wait"}] /\ txraced \in BOOLEAN
  /\ outat = <<outat[1], outat[2]>> /\ outat[1] \in {"out", "wait", "fill", "advance"}
  /\ ~txraced => /\ \E H, S, T, E \in Nat : TxIs(H, S, T, E)
                 /\ outat[1] = "fill" => outat[2] = txTail

LEMMA ClaimantsFinite ==
  ASSUME NEW tw, NEW oa
  PROVE  IsFiniteSet(Claimants(tw, oa)) /\ Cardinality(Claimants(tw, oa)) \in Nat
PROOF
<1>1. IsFiniteSet(EthWriters \cup {IPOUT})
  BY TxSizes, FS_AddElement
<1>2. Claimants(tw, oa) \subseteq EthWriters \cup {IPOUT}
  BY DEF Claimants
<1> QED BY <1>1, <1>2, FS_Subset, FS_CardinalityType

LEMMA TxInitially == TxInit => TxInv
PROOF
<1> SUFFICES ASSUME TxInit PROVE TxInv
  OBVIOUS
<1> USE DEF TxInit
<1>1. 0 % TxRingSize = 0
  <2>1. 0 \in 0..(TxRingSize - 1) /\ 0 = TxRingSize * 0 + 0
    BY TxSizes
  <2> QED BY <2>1, TxSizes, ModUnique
<1>2. TxFilled(txdesc, 0, 0, 0)
  <2>1. \A i \in 0..(0 + TxRingSize - 1) : i \in Int
    BY TxSizes
  <2> QED BY <2>1, TxIdxMod DEF TxFilled
<1>3. outat[1] = "out" /\ Claimants(txwriter, "out") = {}
  BY DEF Claimants
<1>4. OsemIs(osem, txwriter, outat[1], TxRingSize - (0 - 0))
  <2>1. SemOf(osem, {}) /\ osem.count = TxRingSize
    BY TxSizes, SemNew DEF NewSem
  <2>2. Cardinality({}) = 0
    BY FS_EmptySet
  <2>3. osem.count + Cardinality(Claimants(txwriter, "out")) = TxRingSize - (0 - 0)
    BY <1>3, <2>1, <2>2, TxSizes
  <2> QED BY <1>3, <2>1, <2>3 DEF OsemIs
<1>5. TxIs(0, 0, 0, 0)
  BY <1>1, <1>2, <1>3, <1>4, TxSizes DEF TxIs
<1> QED BY <1>3, <1>5 DEF TxInv

LEMMA TxFrameKeeps ==
  ASSUME TxInv, TxFrame, ~txraced
  PROVE  TxInv'
PROOF
<1>1. PICK H \in Nat, S \in Nat, T \in Nat, E \in Nat : TxIs(H, S, T, E)
  BY DEF TxInv
<1>2. /\ tdh # tdt /\ txdesc' = [txdesc EXCEPT ![tdh] = "done"] /\ tdh' = (tdh + 1) % TxRingSize
      /\ UNCHANGED <<tdt, txHead, txTail, osem, txwriter, outat, txraced>>
  BY DEF TxFrame
<1>3. /\ tdh = S % TxRingSize /\ tdt = T % TxRingSize /\ H <= S /\ S <= T /\ E <= H + TxRingSize /\ T <= E
      /\ TxFilled(txdesc, H, S, E)
  BY <1>1 DEF TxIs
<1>4. S < T /\ S < E
  BY <1>2, <1>3
<1>5. TxFilled(txdesc', H, S + 1, E)
  BY <1>2, <1>3, <1>4, TxSent
<1>6. tdh' = (S + 1) % TxRingSize
  <2>1. S \in Int /\ 1 \in Int
    OBVIOUS
  <2> QED BY <1>2, <1>3, <2>1, TxMoves, Zenon
<1>7. PICK Z \in Nat : Z = S + 1
  OBVIOUS
<1>8. H <= Z /\ Z <= T /\ tdh' = Z % TxRingSize /\ TxFilled(txdesc', H, Z, E)
  BY <1>3, <1>4, <1>5, <1>6, <1>7
<1>9. TxIs(H, Z, T, E)'
  BY <1>1, <1>2, <1>8 DEF TxIs
<1> QED BY <1>2, <1>9 DEF TxInv

(* eth_txPackets counts what has been sent since it last cleaned. *)
LEMMA TxDoneIs ==
  ASSUME NEW H \in Nat, NEW S \in Nat, NEW T \in Nat, NEW E \in Nat, TxIs(H, S, T, E)
  PROVE  TxDone = S - H /\ S - H \in Nat /\ (txHead + TxDone) % TxRingSize = S % TxRingSize
PROOF
<1>1. /\ txHead = H % TxRingSize /\ H <= S /\ S <= T /\ T <= E /\ E <= H + TxRingSize
      /\ TxFilled(txdesc, H, S, E) /\ TxRingSize \in Nat
  BY TxSizes DEF TxIs
<1>2. ASSUME NEW k \in Int PROVE (txHead + k) % TxRingSize = (H + k) % TxRingSize
  <2>1. H \in Int
    OBVIOUS
  <2>2. ((H % TxRingSize) + k) % TxRingSize = (H + k) % TxRingSize
    BY <2>1, TxMoves, Zenon
  <2> QED BY <1>1, <2>2
<1>3. PICK m \in Nat : m = S - H
  BY <1>1
<1>4. m \in 0..TxRingSize
  BY <1>1, <1>3
<1>5. ASSUME NEW k \in 0..(m - 1) PROVE Reclaims(txdesc[(txHead + k) % TxRingSize])
  <2>1. PICK i \in H..(S - 1) : i = H + k
    BY <1>1, <1>3
  <2>2. txdesc[i % TxRingSize] = "done"
    BY <1>1 DEF TxFilled
  <2> QED BY <1>2, <2>1, <2>2 DEF Reclaims
<1>6. m < TxRingSize => ~Reclaims(txdesc[(txHead + m) % TxRingSize])
  <2> SUFFICES ASSUME m < TxRingSize PROVE ~Reclaims(txdesc[(txHead + m) % TxRingSize])
    OBVIOUS
  <2>1. S \in S..(E - 1) \/ S \in E..(H + TxRingSize - 1)
    BY <1>1, <1>3
  <2>2. txdesc[S % TxRingSize] \in {"filled", "clean"}
    BY <1>1, <2>1 DEF TxFilled
  <2>3. H + m = S
    BY <1>3
  <2> QED BY <1>2, <2>2, <2>3 DEF Reclaims
<1>7. ASSUME NEW n \in 0..TxRingSize,
             \A k \in 0..(n - 1) : Reclaims(txdesc[(txHead + k) % TxRingSize]),
             n = TxRingSize \/ ~Reclaims(txdesc[(txHead + n) % TxRingSize])
      PROVE  n = m
  <2>1. ~(n < m)
    BY <1>4, <1>5, <1>7
  <2>2. ~(m < n)
    <3> SUFFICES ASSUME m < n PROVE FALSE
      OBVIOUS
    <3>1. m \in 0..(n - 1) /\ m < TxRingSize
      BY <1>1, <1>4
    <3> QED BY <1>6, <1>7, <3>1
  <2> QED BY <2>1, <2>2
<1>8. TxDone = m
  BY <1>4, <1>5, <1>6, <1>7 DEF TxDone
<1>9. H + m = S
  BY <1>3
<1> QED BY <1>2, <1>3, <1>8, <1>9

LEMMA EthTxInterruptKeeps ==
  ASSUME TxInv, EthTxInterrupt, ~txraced
  PROVE  TxInv'
PROOF
<1>1. PICK H \in Nat, S \in Nat, T \in Nat, E \in Nat : TxIs(H, S, T, E)
  BY DEF TxInv
<1>2. PICK n \in Nat : n = S - H /\ n = TxDone /\ (txHead + TxDone) % TxRingSize = S % TxRingSize
  BY <1>1, TxDoneIs
<1>3. /\ n > 0
      /\ txdesc' = Cleaned(txdesc, txHead, n)
      /\ txHead' = S % TxRingSize /\ osem' = SignalN(osem, n)
      /\ UNCHANGED <<tdh, tdt, txTail, txwriter, outat, txraced>>
  BY <1>2, Zenon DEF EthTxInterrupt, Cleaned
<1>4. /\ txHead = H % TxRingSize /\ H <= S /\ S <= T /\ T <= E /\ E <= H + TxRingSize
      /\ TxFilled(txdesc, H, S, E)
      /\ OsemIs(osem, txwriter, outat[1], TxRingSize - (E - H)) /\ TxRingSize \in Nat
  BY <1>1, TxSizes DEF TxIs
<1>5. TxFilled(txdesc', S, S, E)
  <2>1. S <= E
    BY <1>4
  <2>2. n = S - H
    BY <1>2
  <2> QED BY <1>3, <1>4, <2>1, <2>2, TxCleaned, Zenon
<1>6. OsemIs(osem', txwriter, outat[1], TxRingSize - (E - S))
  <2>1. PICK W \in SUBSET Claimants(txwriter, outat[1]) :
          /\ SemOf(osem, W) /\ (IPOUT \in W => outat[1] = "wait")
          /\ osem.count + Cardinality(Claimants(txwriter, outat[1])) = TxRingSize - (E - H)
    BY <1>4 DEF OsemIs
  <2>2. n \in Nat \ {0}
    BY <1>3
  <2>3. osem'.count = osem.count + n /\ \E V \in SUBSET W : SemOf(osem', V)
    BY <1>3, <2>1, <2>2, SemSignalN
  <2>4. PICK V \in SUBSET W : SemOf(osem', V)
    BY <2>3
  <2>5. osem'.count + Cardinality(Claimants(txwriter, outat[1])) = TxRingSize - (E - S)
    <3>1. PICK c \in Int, q \in Int : c = osem.count /\ q = Cardinality(Claimants(txwriter, outat[1]))
      BY <2>1, ClaimantsFinite DEF SemOf
    <3>2. c + q = TxRingSize - (E - H)
      BY <2>1, <3>1
    <3>3. (c + n) + q = TxRingSize - (E - S)
      BY <1>2, <1>4, <3>2
    <3> QED BY <2>3, <3>1, <3>3
  <2> QED BY <2>1, <2>4, <2>5 DEF OsemIs
<1>7. TxIs(S, S, T, E)'
  <2>1. E <= S + TxRingSize /\ S <= S
    BY <1>4
  <2>2. OsemIs(osem', txwriter', outat'[1], TxRingSize - (E - S))
    BY <1>3, <1>6
  <2> QED BY <1>1, <1>3, <1>4, <1>5, <2>1, <2>2 DEF TxIs
<1> QED BY <1>3, <1>7 DEF TxInv
(* A writer fills the descriptor at the tail and moves the tail past it. *)
LEMMA TxWritten ==
  ASSUME NEW H \in Nat, NEW S \in Nat, NEW T \in Nat, NEW E \in Nat, TxIs(H, S, T, E),
         outat[1] \in {"out", "wait"}, E < H + TxRingSize,
         FillAt(txTail), AdvanceTail, UNCHANGED <<tdh, txHead, outat>>,
         OsemIs(osem', txwriter', outat[1], TxRingSize - ((E + 1) - H))
  PROVE  \E Z \in Nat : TxIs(H, S, Z, Z)'
PROOF
<1>1. /\ txHead = H % TxRingSize /\ tdh = S % TxRingSize /\ txTail = T % TxRingSize /\ tdt = T % TxRingSize
      /\ E = T /\ H <= S /\ S <= E /\ TxFilled(txdesc, H, S, E) /\ TxRingSize \in Nat
  BY TxSizes DEF TxIs
<1>2. PICK Z \in Nat : Z = E + 1
  OBVIOUS
<1>3. TxFilled(txdesc', H, S, Z)
  BY <1>1, <1>2, TxFills DEF FillAt
<1>4. txTail' = Z % TxRingSize /\ tdt' = Z % TxRingSize
  <2>1. T \in Int /\ 1 \in Int
    OBVIOUS
  <2>2. ((T % TxRingSize) + 1) % TxRingSize = (T + 1) % TxRingSize
    BY <2>1, TxMoves, Zenon
  <2> QED BY <1>1, <1>2, <2>2 DEF AdvanceTail
<1>5. H <= S /\ S <= Z /\ Z <= H + TxRingSize
  BY <1>1, <1>2
<1>6. OsemIs(osem', txwriter', outat'[1], TxRingSize - (Z - H))
  BY <1>2
<1>7. outat'[1] # "advance"
  OBVIOUS
<1>8. TxIs(H, S, Z, Z)'
  BY <1>1, <1>3, <1>4, <1>5, <1>6, <1>7 DEF TxIs
<1> QED BY <1>8

(* Where a unit of osem is, there is a clean descriptor. *)
LEMMA UnitHasRoom ==
  ASSUME NEW H \in Nat, NEW S \in Nat, NEW T \in Nat, NEW E \in Nat, TxIs(H, S, T, E), Passes(osem)
  PROVE  E < H + TxRingSize
PROOF
<1>1. PICK q \in Nat, c \in Int, M \in Int :
        q = Cardinality(Claimants(txwriter, outat[1])) /\ c = osem.count /\ M = TxRingSize
  BY ClaimantsFinite, TxSizes DEF TxIs, OsemIs, SemOf
<1>2. c + q = M - (E - H)
  BY <1>1 DEF TxIs, OsemIs
<1>3. c > 0
  BY <1>1 DEF Passes
<1>4. E < H + M
  BY <1>2, <1>3
<1> QED BY <1>1, <1>4

LEMMA ReleasedHasRoom ==
  ASSUME NEW H \in Nat, NEW S \in Nat, NEW T \in Nat, NEW E \in Nat, TxIs(H, S, T, E),
         NEW p \in Claimants(txwriter, outat[1]), ~WaitsAt(p, osem)
  PROVE  E < H + TxRingSize
PROOF
<1>1. PICK W \in SUBSET Claimants(txwriter, outat[1]) :
        /\ SemOf(osem, W)
        /\ osem.count + Cardinality(Claimants(txwriter, outat[1])) = TxRingSize - (E - H)
  BY DEF TxIs, OsemIs
<1>2. p \notin W
  BY <1>1, SemWaits DEF WaitsAt
<1>3. /\ osem.count \in Int /\ Cardinality(Claimants(txwriter, outat[1])) \in Nat
      /\ osem.count + Cardinality(Claimants(txwriter, outat[1])) >= 1
  BY <1>1, <1>2, ClaimantsFinite, ClaimHasRoom
<1>4. PICK q \in Nat, c \in Int, M \in Int :
        q = Cardinality(Claimants(txwriter, outat[1])) /\ c = osem.count /\ M = TxRingSize
  BY <1>3, TxSizes
<1>5. c + q = M - (E - H) /\ c + q >= 1
  BY <1>1, <1>3, <1>4
<1>6. E < H + M
  BY <1>5
<1> QED BY <1>4, <1>6

LEMMA EthWriteKeeps ==
  ASSUME TxInv, ~txraced', NEW w \in EthWriters, EthWrite(w)
  PROVE  TxInv'
PROOF
<1>1. /\ txwriter[w] = "out" /\ Passes(osem) /\ osem' = Take(osem) /\ FillAt(txTail) /\ AdvanceTail
      /\ txraced' = (txraced \/ outat[1] \in {"fill", "advance"})
      /\ UNCHANGED <<tdh, txHead, txwriter, outat>>
  BY DEF EthWrite, Overtakes
<1>2. ~txraced /\ outat[1] \in {"out", "wait"}
  BY <1>1 DEF TxInv
<1>3. PICK H \in Nat, S \in Nat, T \in Nat, E \in Nat : TxIs(H, S, T, E)
  BY <1>2 DEF TxInv
<1>4. E < H + TxRingSize
  BY <1>1, <1>3, UnitHasRoom
<1>5. OsemIs(osem', txwriter', outat[1], TxRingSize - ((E + 1) - H))
  <2>1. PICK W \in SUBSET Claimants(txwriter, outat[1]) :
          /\ SemOf(osem, W)
          /\ osem.count + Cardinality(Claimants(txwriter, outat[1])) = TxRingSize - (E - H)
    BY <1>3 DEF TxIs, OsemIs
  <2>2. SemOf(osem', {}) /\ osem'.count = osem.count - 1
    BY <1>1, <2>1, SemTake
  <2>3. osem'.count + Cardinality(Claimants(txwriter, outat[1])) = TxRingSize - ((E + 1) - H)
    <3>1. PICK q \in Nat, c \in Int, M \in Int :
            q = Cardinality(Claimants(txwriter, outat[1])) /\ c = osem.count /\ M = TxRingSize
      BY <2>1, ClaimantsFinite, TxSizes DEF SemOf
    <3>2. c + q = M - (E - H)
      BY <2>1, <3>1
    <3>3. (c - 1) + q = M - ((E + 1) - H)
      BY <3>2
    <3> QED BY <2>2, <3>1, <3>3
  <2> QED BY <1>1, <2>2, <2>3 DEF OsemIs
<1>6. \E Z \in Nat : TxIs(H, S, Z, Z)'
  BY <1>1, <1>2, <1>3, <1>4, <1>5, TxWritten
<1>7. txwriter' = txwriter /\ outat' = outat /\ txraced' \in BOOLEAN /\ outat'[1] # "fill"
  BY <1>1, <1>2 DEF TxInv
<1> QED BY <1>6, <1>7 DEF TxInv

LEMMA EthWriteBlocksKeeps ==
  ASSUME TxInv, ~txraced, NEW w \in EthWriters, EthWriteBlocks(w)
  PROVE  TxInv'
PROOF
<1>1. /\ txwriter[w] = "out" /\ ~Passes(osem) /\ osem' = Blocks(osem, w)
      /\ txwriter' = [txwriter EXCEPT ![w] = "wait"]
      /\ UNCHANGED <<txdesc, tdh, tdt, txHead, txTail, outat, txraced>>
  BY DEF EthWriteBlocks
<1>2. PICK H \in Nat, S \in Nat, T \in Nat, E \in Nat : TxIs(H, S, T, E)
  BY DEF TxInv
<1>3. PICK Q : Q = Claimants(txwriter, outat[1])
  OBVIOUS
<1>4. w \notin Q /\ Claimants(txwriter', outat[1]) = Q \cup {w}
  BY <1>1, <1>3, TxSizes DEF Claimants, TxInv
<1>5. OsemIs(osem', txwriter', outat[1], TxRingSize - (E - H))
  <2>1. PICK W \in SUBSET Q :
          /\ SemOf(osem, W) /\ (IPOUT \in W => outat[1] = "wait")
          /\ osem.count + Cardinality(Q) = TxRingSize - (E - H)
    BY <1>2, <1>3 DEF TxIs, OsemIs
  <2>2. SemOf(osem', W \cup {w}) /\ osem'.count = osem.count - 1
    BY <1>1, <1>4, <2>1, SemBlocks
  <2>3. IPOUT \in W \cup {w} => outat[1] = "wait"
    BY <2>1, TxSizes
  <2>4. IsFiniteSet(Q) /\ Cardinality(Q) \in Nat /\ Cardinality(Q \cup {w}) = Cardinality(Q) + 1
    <3>1. IsFiniteSet(Q) /\ Cardinality(Q) \in Nat
      BY <1>3, ClaimantsFinite
    <3> QED BY <1>4, <3>1, FS_AddElement
  <2>5. osem'.count + Cardinality(Q \cup {w}) = TxRingSize - (E - H)
    <3>1. PICK q \in Nat, c \in Int : q = Cardinality(Q) /\ c = osem.count
      BY <2>1, <2>4 DEF SemOf
    <3>2. (c - 1) + (q + 1) = c + q
      OBVIOUS
    <3> QED BY <2>1, <2>2, <2>4, <3>1, <3>2
  <2> QED BY <1>4, <2>1, <2>2, <2>3, <2>5 DEF OsemIs
<1>6. OsemIs(osem', txwriter', outat'[1], TxRingSize - (E - H))
  BY <1>1, <1>5
<1>7. TxIs(H, S, T, E)'
  BY <1>1, <1>2, <1>6 DEF TxIs
<1>8. txwriter' \in [EthWriters -> {"out", "wait"}]
  BY <1>1 DEF TxInv
<1> QED BY <1>1, <1>7, <1>8 DEF TxInv

LEMMA EthWriteRestKeeps ==
  ASSUME TxInv, ~txraced', NEW w \in EthWriters, EthWriteRest(w)
  PROVE  TxInv'
PROOF
<1>1. /\ txwriter[w] = "wait" /\ ~WaitsAt(w, osem) /\ txwriter' = [txwriter EXCEPT ![w] = "out"]
      /\ FillAt(txTail) /\ AdvanceTail
      /\ txraced' = (txraced \/ outat[1] \in {"fill", "advance"})
      /\ UNCHANGED <<tdh, txHead, osem, outat>>
  BY DEF EthWriteRest, Overtakes
<1>2. ~txraced /\ outat[1] \in {"out", "wait"}
  BY <1>1 DEF TxInv
<1>3. PICK H \in Nat, S \in Nat, T \in Nat, E \in Nat : TxIs(H, S, T, E)
  BY <1>2 DEF TxInv
<1>4. PICK Q : Q = Claimants(txwriter, outat[1])
  OBVIOUS
<1>5. w \in Q /\ Claimants(txwriter', outat[1]) = Q \ {w}
  BY <1>1, <1>4, TxSizes DEF Claimants, TxInv
<1>6. E < H + TxRingSize
  BY <1>1, <1>3, <1>4, <1>5, ReleasedHasRoom
<1>7. OsemIs(osem', txwriter', outat[1], TxRingSize - ((E + 1) - H))
  <2>1. PICK W \in SUBSET Q :
          /\ SemOf(osem, W) /\ (IPOUT \in W => outat[1] = "wait")
          /\ osem.count + Cardinality(Q) = TxRingSize - (E - H)
    BY <1>3, <1>4 DEF TxIs, OsemIs
  <2>2. w \notin W
    BY <1>1, <2>1, SemWaits DEF WaitsAt
  <2>3. IsFiniteSet(Q) /\ Cardinality(Q) \in Nat /\ Cardinality(Q \ {w}) = Cardinality(Q) - 1
    BY ZenonT(30), <1>4, <1>5, ClaimantsFinite, FS_RemoveElement
  <2>4. osem.count + Cardinality(Q \ {w}) = TxRingSize - ((E + 1) - H)
    <3>1. PICK q \in Nat, c \in Int, M \in Int : q = Cardinality(Q) /\ c = osem.count /\ M = TxRingSize
      BY <2>1, <2>3, TxSizes DEF SemOf
    <3>2. c + q = M - (E - H)
      BY <2>1, <3>1
    <3>3. c + (q - 1) = M - ((E + 1) - H)
      BY <3>2
    <3> QED BY <2>3, <3>1, <3>3
  <2>5. W \in SUBSET (Q \ {w}) /\ osem' = osem
    BY <1>1, <2>2
  <2> QED BY <1>5, <2>1, <2>4, <2>5 DEF OsemIs
<1>8. \E Z \in Nat : TxIs(H, S, Z, Z)'
  BY <1>1, <1>2, <1>3, <1>6, <1>7, TxWritten
<1>9. txwriter' \in [EthWriters -> {"out", "wait"}] /\ outat' = outat /\ txraced' \in BOOLEAN /\ outat'[1] # "fill"
  BY <1>1, <1>2 DEF TxInv
<1> QED BY <1>8, <1>9 DEF TxInv

LEMMA IpoutWritesKeeps ==
  ASSUME TxInv, ~txraced, IpoutWrites
  PROVE  TxInv'
PROOF
<1>1. /\ outat[1] = "out" /\ osem' = (IF Passes(osem) THEN Take(osem) ELSE Blocks(osem, IPOUT))
      /\ outat' = <<"wait", 0>>
      /\ UNCHANGED <<txdesc, tdh, tdt, txHead, txTail, txwriter, txraced>>
  BY DEF IpoutWrites
<1>2. PICK H \in Nat, S \in Nat, T \in Nat, E \in Nat : TxIs(H, S, T, E)
  BY DEF TxInv
<1>3. outat'[1] = "wait"
  BY <1>1
<1>4. PICK Q : Q = Claimants(txwriter, outat[1])
  OBVIOUS
<1>5. IPOUT \notin Q /\ Claimants(txwriter, "wait") = Q \cup {IPOUT}
  BY <1>1, <1>4, TxSizes DEF Claimants
<1>6. OsemIs(osem', txwriter, "wait", TxRingSize - (E - H))
  <2>1. PICK W \in SUBSET Q :
          /\ SemOf(osem, W) /\ osem.count + Cardinality(Q) = TxRingSize - (E - H)
    BY <1>2, <1>4 DEF TxIs, OsemIs
  <2>2. \E V \in SUBSET (Q \cup {IPOUT}) : SemOf(osem', V) /\ osem'.count = osem.count - 1
    <3>1. CASE Passes(osem)
      <4>1. osem' = Take(osem)
        BY <1>1, <3>1
      <4>2. SemOf(osem', {}) /\ osem'.count = osem.count - 1
        BY <2>1, <3>1, <4>1, SemTake
      <4> QED BY <4>2
    <3>2. CASE ~Passes(osem)
      <4>1. osem' = Blocks(osem, IPOUT) /\ IPOUT \notin W
        BY <1>1, <1>5, <2>1, <3>2
      <4>2. SemOf(osem', W \cup {IPOUT}) /\ osem'.count = osem.count - 1
        BY <2>1, <3>2, <4>1, SemBlocks
      <4> QED BY <4>2
    <3> QED BY <3>1, <3>2
  <2>3. IsFiniteSet(Q) /\ Cardinality(Q) \in Nat
    BY <1>4, ClaimantsFinite
  <2>4. Cardinality(Q \cup {IPOUT}) = Cardinality(Q) + 1
    BY <1>5, <2>3, FS_AddElement
  <2>5. osem'.count + Cardinality(Q \cup {IPOUT}) = TxRingSize - (E - H)
    <3>1. PICK q \in Nat, c \in Int : q = Cardinality(Q) /\ c = osem.count
      BY <2>1, <2>3 DEF SemOf
    <3>2. (c - 1) + (q + 1) = c + q
      OBVIOUS
    <3> QED BY <2>1, <2>2, <2>4, <3>1, <3>2
  <2> QED BY <1>5, <2>2, <2>5 DEF OsemIs
<1>7. OsemIs(osem', txwriter', outat'[1], TxRingSize - (E - H))
  BY <1>1, <1>3, <1>6
<1>8. TxIs(H, S, T, E)'
  BY <1>1, <1>2, <1>3, <1>7 DEF TxIs
<1>9. outat' = <<outat'[1], outat'[2]>>
  BY <1>1
<1> QED BY <1>1, <1>3, <1>8, <1>9 DEF TxInv

LEMMA IpoutLooksAtTailKeeps ==
  ASSUME TxInv, ~txraced, IpoutLooksAtTail
  PROVE  TxInv'
PROOF
<1>1. /\ outat[1] = "wait" /\ ~WaitsAt(IPOUT, osem) /\ outat' = <<"fill", txTail>>
      /\ UNCHANGED <<txdesc, tdh, tdt, txHead, txTail, osem, txwriter, txraced>>
  BY DEF IpoutLooksAtTail
<1>2. PICK H \in Nat, S \in Nat, T \in Nat, E \in Nat : TxIs(H, S, T, E)
  BY DEF TxInv
<1>3. outat'[1] = "fill" /\ outat'[2] = txTail /\ outat' = <<outat'[1], outat'[2]>>
  BY <1>1
<1>4. Claimants(txwriter, "fill") = Claimants(txwriter, "wait")
  BY DEF Claimants
<1>5. OsemIs(osem, txwriter, "fill", TxRingSize - (E - H))
  <2>1. PICK W \in SUBSET Claimants(txwriter, "wait") :
          SemOf(osem, W) /\ osem.count + Cardinality(Claimants(txwriter, "wait")) = TxRingSize - (E - H)
    BY <1>1, <1>2 DEF TxIs, OsemIs
  <2>2. IPOUT \notin W
    BY <1>1, <2>1, SemWaits DEF WaitsAt
  <2> QED BY <1>4, <2>1, <2>2 DEF OsemIs
<1>6. OsemIs(osem', txwriter', outat'[1], TxRingSize - (E - H))
  BY <1>1, <1>3, <1>5
<1>7. TxIs(H, S, T, E)'
  BY <1>1, <1>2, <1>3, <1>6 DEF TxIs
<1> QED BY <1>1, <1>3, <1>7 DEF TxInv

LEMMA IpoutFillsKeeps ==
  ASSUME TxInv, ~txraced, IpoutFills
  PROVE  TxInv'
PROOF
<1>1. /\ outat[1] = "fill" /\ txdesc' = [txdesc EXCEPT ![outat[2]] = "filled"] /\ outat' = <<"advance", 0>>
      /\ UNCHANGED <<tdh, tdt, txHead, txTail, osem, txwriter, txraced>>
  BY DEF IpoutFills, FillAt
<1>2. PICK H \in Nat, S \in Nat, T \in Nat, E \in Nat : TxIs(H, S, T, E)
  BY DEF TxInv
<1>3. outat'[1] = "advance" /\ outat' = <<outat'[1], outat'[2]>> /\ outat[2] = txTail
  BY <1>1 DEF TxInv
<1>4. /\ E = T /\ H <= S /\ S <= E /\ txTail = E % TxRingSize /\ TxFilled(txdesc, H, S, E)
  BY <1>1, <1>2 DEF TxIs
<1>5. PICK Q : Q = Claimants(txwriter, outat[1])
  OBVIOUS
<1>6. IPOUT \in Q /\ Claimants(txwriter, "advance") = Q \ {IPOUT}
  BY <1>1, <1>5, TxSizes DEF Claimants
<1>7. PICK W \in SUBSET Q :
        /\ SemOf(osem, W) /\ IPOUT \notin W /\ osem.count + Cardinality(Q) = TxRingSize - (E - H)
  BY <1>1, <1>2, <1>5 DEF TxIs, OsemIs
<1>8. E < H + TxRingSize
  <2>1. IPOUT \in Claimants(txwriter, outat[1]) /\ ~WaitsAt(IPOUT, osem)
    BY <1>5, <1>6, <1>7, SemWaits DEF WaitsAt
  <2> QED BY <1>2, <2>1, ReleasedHasRoom
<1>9. PICK Z \in Nat : Z = E + 1
  OBVIOUS
<1>10. TxFilled(txdesc', H, S, Z)
  BY <1>1, <1>3, <1>4, <1>8, <1>9, TxFills
<1>11. OsemIs(osem, txwriter, "advance", TxRingSize - (Z - H))
  <2>1. IsFiniteSet(Q) /\ Cardinality(Q) \in Nat
    BY <1>5, ClaimantsFinite
  <2>2. Cardinality(Q \ {IPOUT}) = Cardinality(Q) - 1
    BY <1>6, <2>1, FS_RemoveElement
  <2>3. osem.count + Cardinality(Q \ {IPOUT}) = TxRingSize - (Z - H)
    <3>1. PICK q \in Nat, c \in Int, M \in Int : q = Cardinality(Q) /\ c = osem.count /\ M = TxRingSize
      BY <1>7, <2>1, TxSizes DEF SemOf
    <3>2. c + q = M - (E - H)
      BY <1>7, <3>1
    <3>3. c + (q - 1) = M - (Z - H)
      BY <1>9, <3>2
    <3> QED BY <2>2, <3>1, <3>3
  <2>4. W \in SUBSET (Q \ {IPOUT})
    BY <1>7
  <2> QED BY <1>6, <1>7, <2>3, <2>4 DEF OsemIs
<1>12. OsemIs(osem', txwriter', outat'[1], TxRingSize - (Z - H))
  BY <1>1, <1>3, <1>11
<1>13. TxIs(H, S, T, Z)'
  <2>1. Z <= H + TxRingSize /\ Z = T + 1
    BY <1>4, <1>8, <1>9, TxSizes
  <2> QED BY <1>1, <1>2, <1>3, <1>10, <1>12, <2>1 DEF TxIs
<1> QED BY <1>1, <1>3, <1>13 DEF TxInv

LEMMA IpoutAdvancesKeeps ==
  ASSUME TxInv, ~txraced, IpoutAdvances
  PROVE  TxInv'
PROOF
<1>1. /\ outat[1] = "advance" /\ outat' = <<"out", 0>>
      /\ tdt' = (tdt + 1) % TxRingSize /\ txTail' = (txTail + 1) % TxRingSize
      /\ UNCHANGED <<txdesc, tdh, txHead, osem, txwriter, txraced>>
  BY DEF IpoutAdvances, AdvanceTail
<1>2. PICK H \in Nat, S \in Nat, T \in Nat, E \in Nat : TxIs(H, S, T, E)
  BY DEF TxInv
<1>3. outat'[1] = "out" /\ outat' = <<outat'[1], outat'[2]>>
  BY <1>1
<1>4. E = T + 1 /\ S <= T /\ txTail = T % TxRingSize /\ tdt = T % TxRingSize
  BY <1>1, <1>2 DEF TxIs
<1>5. txTail' = E % TxRingSize /\ tdt' = E % TxRingSize
  <2>1. T \in Int /\ 1 \in Int
    OBVIOUS
  <2>2. ((T % TxRingSize) + 1) % TxRingSize = (T + 1) % TxRingSize
    BY <2>1, TxMoves, Zenon
  <2> QED BY <1>1, <1>4, <2>2
<1>6. OsemIs(osem, txwriter, "out", TxRingSize - (E - H))
  <2>1. Claimants(txwriter, "out") = Claimants(txwriter, "advance")
    BY DEF Claimants
  <2>2. OsemIs(osem, txwriter, "advance", TxRingSize - (E - H))
    BY <1>1, <1>2 DEF TxIs
  <2> QED BY <2>1, <2>2 DEF OsemIs
<1>7. OsemIs(osem', txwriter', outat'[1], TxRingSize - (E - H))
  BY <1>1, <1>3, <1>6
<1>8. TxIs(H, S, E, E)'
  <2>1. S <= E
    BY <1>4
  <2> QED BY <1>1, <1>2, <1>3, <1>5, <1>7, <2>1 DEF TxIs
<1> QED BY <1>1, <1>3, <1>8 DEF TxInv

LEMMA TxStep == TxInv /\ [TxNext]_txVars => TxInv'
PROOF
<1> SUFFICES ASSUME TxInv, [TxNext]_txVars PROVE TxInv'
  OBVIOUS
<1>1. /\ txwriter' \in [EthWriters -> {"out", "wait"}] /\ txraced' \in BOOLEAN /\ (txraced => txraced')
      /\ outat' = <<outat'[1], outat'[2]>> /\ outat'[1] \in {"out", "wait", "fill", "advance"}
  (* whether or not a writer has overtaken ipout *)
  <2>1. CASE UNCHANGED txVars
    BY <2>1 DEF TxInv, txVars
  <2>2. CASE TxFrame \/ EthTxInterrupt
    BY <2>2 DEF TxInv, TxFrame, EthTxInterrupt
  <2>3. ASSUME NEW w \in EthWriters, EthWrite(w) \/ EthWriteBlocks(w) \/ EthWriteRest(w)
        PROVE  /\ txwriter' \in [EthWriters -> {"out", "wait"}] /\ txraced' \in BOOLEAN /\ (txraced => txraced')
               /\ outat' = outat
    BY <2>3 DEF TxInv, EthWrite, EthWriteBlocks, EthWriteRest, Overtakes
  <2>4. CASE IpoutWrites \/ IpoutLooksAtTail \/ IpoutFills \/ IpoutAdvances
    BY <2>4 DEF TxInv, IpoutWrites, IpoutLooksAtTail, IpoutFills, IpoutAdvances
  <2> QED BY <2>1, <2>2, <2>3, <2>4 DEF TxNext, TxInv
<1>2. CASE txraced'
  BY <1>1, <1>2 DEF TxInv
<1>3. CASE ~txraced'
  <2>1. ~txraced
    BY <1>1, <1>3
  <2>2. CASE UNCHANGED txVars
    <3>1. PICK H \in Nat, S \in Nat, T \in Nat, E \in Nat : TxIs(H, S, T, E)
      BY <2>1 DEF TxInv
    <3>2. TxIs(H, S, T, E)'
      BY <2>2, <3>1 DEF txVars, TxIs
    <3>3. outat' = outat /\ txTail' = txTail /\ (outat[1] = "fill" => outat[2] = txTail)
      BY <2>1, <2>2 DEF txVars, TxInv
    <3> QED BY <1>1, <3>2, <3>3 DEF TxInv
  <2> QED BY <1>3, <2>1, <2>2, TxFrameKeeps, EthTxInterruptKeeps, EthWriteKeeps, EthWriteBlocksKeeps,
             EthWriteRestKeeps, IpoutWritesKeeps, IpoutLooksAtTailKeeps, IpoutFillsKeeps,
             IpoutAdvancesKeeps DEF TxNext
<1> QED BY <1>2, <1>3

LEMMA TxInvSound == TxInv => WriterFindsRoom
PROOF
<1> SUFFICES ASSUME TxInv, ~txraced PROVE WriterFindsRoom
  BY DEF WriterFindsRoom
<1>1. PICK H \in Nat, S \in Nat, T \in Nat, E \in Nat : TxIs(H, S, T, E)
  BY DEF TxInv
<1>2. PICK C : C = {i \in TxIdx : txdesc[i] = "clean"}
  OBVIOUS
<1>3. PICK Q : Q = Claimants(txwriter, outat[1])
  OBVIOUS
<1>4. PICK W \in SUBSET Q :
        SemOf(osem, W) /\ (IPOUT \in W => outat[1] = "wait")
        /\ osem.count + Cardinality(Q) = TxRingSize - (E - H)
  BY <1>1, <1>3 DEF TxIs, OsemIs
<1>5. TxFilled(txdesc, H, S, E) /\ E <= H + TxRingSize /\ TxRingSize \in Nat /\ H <= E
  BY <1>1, TxSizes DEF TxIs
<1>6. IsFiniteSet(C) /\ Cardinality(C) \in Nat /\ TxRingSize - (E - H) <= Cardinality(C)
  (* each of the descriptors from the E-th, once around the ring, is clean *)
  <2>1. PICK I : I = E..(H + TxRingSize - 1)
    OBVIOUS
  <2>2. PICK f : f = [i \in I |-> i % TxRingSize]
    OBVIOUS
  <2>3. IsFiniteSet(I) /\ Cardinality(I) = TxRingSize - (E - H)
    <3>1. PICK b \in Int : b = H + TxRingSize - 1
      BY <1>5
    <3>2. IsFiniteSet(E..b) /\ Cardinality(E..b) = (IF E > b THEN 0 ELSE b - E + 1)
      BY FS_Interval
    <3>3. (IF E > b THEN 0 ELSE b - E + 1) = TxRingSize - (E - H)
      BY <1>5, <3>1
    <3> QED BY <2>1, <3>1, <3>2, <3>3
  <2>4. ASSUME NEW i \in I PROVE i \in Int /\ i % TxRingSize \in C
    <3>1. i \in Int
      BY <1>5, <2>1
    <3>2. txdesc[i % TxRingSize] = "clean"
      BY <1>5, <2>1 DEF TxFilled
    <3>3. i % TxRingSize \in TxIdx
      BY <3>1, TxIdxMod
    <3> QED BY <1>2, <3>1, <3>2, <3>3
  <2>5. \A i, j \in I : f[i] = f[j] => i = j
    <3> SUFFICES ASSUME NEW i \in I, NEW j \in I, f[i] = f[j] PROVE i = j
      OBVIOUS
    <3>1. i % TxRingSize = j % TxRingSize
      BY <2>2
    <3>2. i \in Int /\ j \in Int /\ i - j < TxRingSize /\ j - i < TxRingSize
      BY <1>5, <2>1
    <3> QED BY <3>1, <3>2, TxApart
  <2>6. f \in Injection(I, C)
    BY <2>2, <2>4, <2>5 DEF Injection, IsInjective
  <2>7. IsFiniteSet(C) /\ Cardinality(C) \in Nat
    <3>1. IsFiniteSet(0..(TxRingSize - 1))
      BY <1>5, FS_Interval
    <3> QED BY <1>2, <3>1, FS_Subset, FS_CardinalityType DEF TxIdx
  <2>8. Cardinality(I) <= Cardinality(C)
    BY <2>3, <2>6, <2>7, FS_Injection DEF ExistsInjection
  <2> QED BY <2>3, <2>7, <2>8
<1>7. PICK V : V = {w \in EthWriters : txwriter[w] = "wait" /\ ~WaitsAt(w, osem)}
  OBVIOUS
<1>8. PICK u \in {0, 1} : u = IF outat[1] \in {"wait", "fill"} /\ ~WaitsAt(IPOUT, osem) THEN 1 ELSE 0
  OBVIOUS
<1>9. IsFiniteSet(Q) /\ IsFiniteSet(W) /\ {Cardinality(Q), Cardinality(W)} \subseteq Nat
      /\ Cardinality(W) = (IF osem.count < 0 THEN -osem.count ELSE 0) /\ osem.count \in Int
  BY <1>3, <1>4, ClaimantsFinite, SemCounts, FS_CardinalityType DEF SemOf
<1>10. Cardinality(V) + u = Cardinality(Q) - Cardinality(W)
  <2>1. \A p : WaitsAt(p, osem) <=> p \in W
    BY <1>4, SemWaits DEF WaitsAt
  <2>2. IPOUT \notin V /\ IsFiniteSet(V) /\ Cardinality(V) \in Nat
    BY <1>7, TxSizes, FS_Subset, FS_CardinalityType
  <2>3. Cardinality(Q \ W) = Cardinality(Q) - Cardinality(W)
    <3>1. W \subseteq Q /\ Q \cap W = W
      OBVIOUS
    <3> QED BY ZenonT(30), <1>9, <3>1, FS_Difference
  <2>4. CASE u = 1
    <3>1. Q \ W = V \cup {IPOUT}
      BY <1>3, <1>7, <1>8, <2>1, <2>4, TxSizes DEF Claimants
    <3>2. Cardinality(V \cup {IPOUT}) = Cardinality(V) + 1
      BY <2>2, FS_AddElement
    <3> QED BY <2>2, <2>3, <2>4, <3>1, <3>2
  <2>5. CASE u = 0
    <3>1. Q \ W = V
      BY <1>3, <1>7, <1>8, <2>1, <2>5, TxSizes DEF Claimants
    <3>2. PICK v \in Nat : v = Cardinality(V)
      BY <2>2
    <3>3. v + u = v
      BY <2>5
    <3> QED BY <2>3, <3>1, <3>2, <3>3
  <2> QED BY <2>4, <2>5
<1>11. Cardinality(V) + u + (IF osem.count > 0 THEN osem.count ELSE 0) <= Cardinality(C)
  <2>1. PICK c \in Int, q \in Nat, w \in Nat, m \in Nat, M \in Nat :
          c = osem.count /\ q = Cardinality(Q) /\ w = Cardinality(W) /\ m = Cardinality(C) /\ M = TxRingSize
    BY <1>5, <1>6, <1>9
  <2>2. c + q = M - (E - H) /\ M - (E - H) <= m /\ w = (IF c < 0 THEN -c ELSE 0)
    BY <1>4, <1>6, <1>9, <2>1
  <2>3. (q - w) + (IF c > 0 THEN c ELSE 0) <= m
    BY <2>2
  <2> QED BY <1>10, <2>1, <2>3
<1> QED BY <1>2, <1>7, <1>8, <1>11, Zenon DEF WriterFindsRoom
(* Each descriptor of both rings is its owner's, in whatever order the adapter,
   the handler, netin and the writers take their steps: the adapter stores no
   frame over one that has not been read, netin finds a frame whenever it gets
   past its wait and reads the frames in the order in which they arrived, and
   no more writers are let through than descriptors are clean. *)
THEOREM RingsSoundAlways == RxSpec /\ TxSpec => []RingsSound
PROOF
<1>1. RxInv /\ TxInv => RingsSound
  BY RxInvSound, TxInvSound DEF RingsSound
<1> QED BY <1>1, RxInitially, RxStep, TxInitially, TxStep, PTL DEF RxSpec, TxSpec
-----------------------------------------------------------------------------
(* TFTP: the bytes in a list of buffers *)

(* f holds what the first, the first two, ... and the first n parts of s are together. *)
Chain(f, s, n) == f = [i \in 1..n |-> IF i = 1 THEN s[i] ELSE f[i - 1] \o s[i]]

(* u is s with t, or with the one byte b, behind it. *)
Glued(u, s, t) == u = s \o t
Longer(u, s, b) == u = Append(s, b)

(* What a buffer holds, and what a list of buffers does. *)
Contents == Seq(Nat)
Parts == Seq(Contents)

LEMMA ChainExists ==
  ASSUME NEW s, NEW n \in Nat
  PROVE  \E f : Chain(f, s, n)
PROOF
<1> DEFINE Bad == {m \in Nat : ~ \E f : Chain(f, s, m)}
<1> SUFFICES ASSUME Bad # {} PROVE FALSE
  OBVIOUS
<1>1. PICK m \in Bad : \A j \in Bad : m <= j
  <2>1. Bad \in SUBSET Nat
    OBVIOUS
  <2> HIDE DEF Bad
  <2> QED BY <2>1, LeastExists
<1>2. m \in Nat /\ ~ \E f : Chain(f, s, m)
  OBVIOUS
<1>3. CASE m = 0
  <2>1. Chain(<<>>, s, 0)
    BY DEF Chain
  <2> QED BY <1>2, <1>3, <2>1, Zenon
<1>4. CASE m # 0
  <2>1. PICK k \in Nat : k = m - 1 /\ m = k + 1 /\ ~(m <= k)
    BY <1>2, <1>4
  <2>2. PICK f : Chain(f, s, k)
    <3>1. k \notin Bad
      BY <1>1, <2>1, Zenon
    <3> QED BY <3>1
  <2> HIDE DEF Bad
  <2>3. PICK x : x = IF m = 1 THEN s[m] ELSE f[m - 1] \o s[m]
    OBVIOUS
  <2>4. PICK g : g = [i \in 1..m |-> IF i = m THEN x ELSE f[i]]
    OBVIOUS
  <2>5. ASSUME NEW i \in 1..m PROVE g[i] = IF i = 1 THEN s[i] ELSE g[i - 1] \o s[i]
    <3>1. CASE i = m
      <4>1. g[i] = x
        BY <2>4, <3>1
      <4>2. i # 1 => i - 1 \in 1..m /\ i - 1 # m
        BY <2>1, <3>1
      <4>3. i # 1 => g[i - 1] = f[i - 1]
        BY <2>4, <4>2, Zenon
      <4> QED BY <2>3, <3>1, <4>1, <4>3, Zenon
    <3>2. CASE i # m
      <4>1. i \in 1..k /\ g[i] = f[i]
        BY <2>1, <2>4, <3>2
      <4>2. i # 1 => i - 1 \in 1..m /\ i - 1 # m
        BY <2>1, <4>1
      <4>3. i # 1 => g[i - 1] = f[i - 1]
        BY <2>4, <4>2, Zenon
      <4>4. f[i] = IF i = 1 THEN s[i] ELSE f[i - 1] \o s[i]
        BY <2>2, <4>1, Zenon DEF Chain
      <4> QED BY <4>1, <4>3, <4>4, Zenon
    <3> QED BY <3>1, <3>2
  <2>6. Chain(g, s, m)
    <3>1. g = [i \in 1..m |-> g[i]]
      BY <2>4
    <3> QED BY <2>5, <3>1, Zenon DEF Chain
  <2> QED BY <1>2, <2>6, Zenon
<1> QED BY <1>3, <1>4

LEMMA PartIs ==
  ASSUME NEW s \in Parts
  PROVE  Len(s) \in Nat /\ \A i \in 1..Len(s) : s[i] \in Contents
PROOF BY DEF Parts

LEMMA GluedIs ==
  ASSUME NEW s \in Contents, NEW t \in Contents, NEW u, Glued(u, s, t)
  PROVE  u \in Contents /\ Len(u) = Len(s) + Len(t) /\ (t = <<>> => u = s)
PROOF BY DEF Glued, Contents

LEMMA ChainStep ==
  ASSUME NEW f, NEW s \in Parts, Chain(f, s, Len(s)), NEW i \in 1..Len(s)
  PROVE  f[i] \in Contents /\ (i = 1 => f[i] = s[i]) /\ (i # 1 => Glued(f[i], f[i - 1], s[i]))
PROOF
<1>1. ASSUME NEW j \in 1..Len(s) PROVE (j = 1 => f[j] = s[j]) /\ (j # 1 => Glued(f[j], f[j - 1], s[j]))
  BY <1>1, Zenon DEF Chain, Glued
<1> DEFINE Bad == {j \in 1..Len(s) : f[j] \notin Contents}
<1>2. Bad = {}
  <2> SUFFICES ASSUME Bad # {} PROVE FALSE
    OBVIOUS
  <2>1. PICK m \in Bad : \A j \in Bad : m <= j
    <3>1. Bad \in SUBSET Nat
      OBVIOUS
    <3> HIDE DEF Bad
    <3> QED BY <3>1, LeastExists
  <2>2. m \in 1..Len(s) /\ f[m] \notin Contents /\ s[m] \in Contents
    BY PartIs
  <2>3. CASE m = 1
    BY <1>1, <2>2, <2>3
  <2>4. CASE m # 1
    <3>1. PICK k \in 1..Len(s) : k = m - 1 /\ ~(m <= k)
      BY <2>2, <2>4
    <3>2. f[k] \in Contents
      BY <2>1, <3>1
    <3>3. Glued(f[m], f[k], s[m])
      BY <1>1, <2>2, <2>4, <3>1
    <3> QED BY <2>2, <3>2, <3>3, GluedIs
  <2> QED BY <2>3, <2>4
<1> QED BY <1>1, <1>2

LEMMA FlattenIs ==
  ASSUME NEW s \in Parts, s # <<>>
  PROVE  \E f : Chain(f, s, Len(s)) /\ FlattenSeq(s) = f[Len(s)]
PROOF
<1>1. Len(s) \in Nat /\ Len(s) # 0
  BY DEF Parts
<1>2. \E f : Chain(f, s, Len(s))
  BY <1>1, ChainExists
<1>3. PICK f : f = CHOOSE g : g = [i \in 1..Len(s) |-> IF i = 1 THEN s[i] ELSE g[i - 1] \o s[i]]
  OBVIOUS
<1>4. Chain(f, s, Len(s))
  BY <1>2, <1>3, Zenon DEF Chain
<1>5. FlattenSeq(s) = f[Len(s)]
  BY <1>1, <1>3, Zenon DEF FlattenSeq
<1> QED BY <1>4, <1>5

LEMMA FlattenTyped ==
  ASSUME NEW s \in Parts
  PROVE  FlattenSeq(s) \in Contents
PROOF
<1>1. CASE s = <<>>
  BY <1>1 DEF FlattenSeq, Contents
<1>2. CASE s # <<>>
  <2>1. PICK f : Chain(f, s, Len(s)) /\ FlattenSeq(s) = f[Len(s)]
    BY <1>2, FlattenIs
  <2>2. Len(s) \in 1..Len(s)
    BY <1>2 DEF Parts
  <2> QED BY <2>1, <2>2, ChainStep
<1> QED BY <1>1, <1>2

(* Nothing in the buffers is no bytes. *)
LEMMA FlattenNone ==
  ASSUME NEW s \in Parts, \A i \in 1..Len(s) : s[i] = <<>>
  PROVE  FlattenSeq(s) = <<>>
PROOF
<1>1. CASE s = <<>>
  BY <1>1 DEF FlattenSeq
<1>2. CASE s # <<>>
  <2>1. PICK f : Chain(f, s, Len(s)) /\ FlattenSeq(s) = f[Len(s)]
    BY <1>2, FlattenIs
  <2>2. Len(s) \in 1..Len(s)
    BY <1>2 DEF Parts
  <2> DEFINE Bad == {j \in 1..Len(s) : f[j] # <<>>}
  <2>3. Bad = {}
    <3> SUFFICES ASSUME Bad # {} PROVE FALSE
      OBVIOUS
    <3>1. PICK m \in Bad : \A j \in Bad : m <= j
      <4>1. Bad \in SUBSET Nat
        OBVIOUS
      <4> HIDE DEF Bad
      <4> QED BY <4>1, LeastExists
    <3>2. m \in 1..Len(s) /\ f[m] # <<>> /\ s[m] = <<>> /\ s[m] \in Contents
      BY PartIs
    <3>3. CASE m = 1
      BY <2>1, <3>2, <3>3, ChainStep
    <3>4. CASE m # 1
      <4>1. PICK k \in 1..Len(s) : k = m - 1 /\ ~(m <= k)
        BY <3>2, <3>4
      <4>2. f[k] = <<>> /\ f[k] \in Contents
        BY <2>1, <3>1, <4>1, ChainStep
      <4>3. Glued(f[m], f[k], s[m])
        BY <2>1, <3>2, <3>4, <4>1, ChainStep
      <4> QED BY <3>2, <4>2, <4>3, GluedIs
    <3> QED BY <3>3, <3>4
  <2> QED BY <2>1, <2>2, <2>3
<1> QED BY <1>1, <1>2

LEMMA LongerGlued ==
  ASSUME NEW x \in Contents, NEW s \in Contents, NEW b \in Nat, NEW t, Longer(t, s, b),
         NEW u, Glued(u, x, s), NEW v, Glued(v, x, t)
  PROVE  Longer(v, u, b)
PROOF
<1>1. t \in Contents /\ Len(t) = Len(s) + 1 /\ u \in Contents /\ v \in Contents
  BY DEF Glued, Longer, Contents
<1>2. x \o Append(s, b) = Append(x \o s, b)
  BY DEF Contents
<1> QED BY <1>2, Zenon DEF Glued, Longer

(* A byte put behind all others. *)
LEMMA FlattenGrows ==
  ASSUME NEW s \in Parts, NEW t \in Parts, Len(t) = Len(s), NEW i \in 1..Len(s), NEW b \in Nat,
         Longer(t[i], s[i], b), \A j \in 1..Len(s) : j # i => t[j] = s[j],
         \A j \in 1..Len(s) : j > i => s[j] = <<>>
  PROVE  Longer(FlattenSeq(t), FlattenSeq(s), b)
PROOF
<1>1. Len(s) \in Nat /\ s # <<>> /\ t # <<>> /\ Len(s) \in 1..Len(s)
  BY DEF Parts
<1>2. PICK f : Chain(f, s, Len(s)) /\ FlattenSeq(s) = f[Len(s)]
  BY <1>1, FlattenIs
<1>3. PICK g : Chain(g, t, Len(s)) /\ FlattenSeq(t) = g[Len(s)]
  BY <1>1, FlattenIs
<1> DEFINE Good(j) == (j < i => g[j] = f[j]) /\ (j >= i => Longer(g[j], f[j], b))
<1> DEFINE Bad == {j \in 1..Len(s) : ~Good(j)}
<1>4. Bad = {}
  <2> SUFFICES ASSUME Bad # {} PROVE FALSE
    OBVIOUS
  <2>1. PICK m \in Bad : \A j \in Bad : m <= j
    <3>1. Bad \in SUBSET Nat
      OBVIOUS
    <3> HIDE DEF Bad
    <3> QED BY <3>1, LeastExists
  <2>2. m \in 1..Len(s) /\ ~Good(m)
    OBVIOUS
  <2>3. /\ f[m] \in Contents /\ g[m] \in Contents /\ s[m] \in Contents /\ t[m] \in Contents
        /\ (m = 1 => f[m] = s[m] /\ g[m] = t[m])
        /\ (m # 1 => Glued(f[m], f[m - 1], s[m]) /\ Glued(g[m], g[m - 1], t[m]))
    <3>1. m \in 1..Len(t) /\ Chain(g, t, Len(t))
      BY <1>3, <2>2
    <3> HIDE DEF Bad, Good
    <3> QED BY <1>2, <2>2, <3>1, ChainStep, PartIs
  <2>4. CASE m = 1
    <3>1. Good(m)
      BY <2>2, <2>3, <2>4
    <3> QED BY <2>2, <3>1
  <2>5. CASE m # 1
    <3>1. PICK k \in 1..Len(s) : k = m - 1 /\ ~(m <= k)
      BY <2>2, <2>5
    <3>2. Good(k)
      BY <2>1, <3>1
    <3>3. f[k] \in Contents /\ g[k] \in Contents /\ Glued(f[m], f[k], s[m]) /\ Glued(g[m], g[k], t[m])
      <4>1. k \in 1..Len(t) /\ Chain(g, t, Len(t))
        BY <1>3, <3>1
      <4> HIDE DEF Bad, Good
      <4> QED BY <1>2, <2>3, <2>5, <3>1, <4>1, ChainStep
    <3>4. CASE m < i
      <4>1. g[k] = f[k] /\ t[m] = s[m]
        BY <2>2, <3>1, <3>2, <3>4
      <4>2. g[m] = f[m]
        BY <3>3, <4>1 DEF Glued
      <4> QED BY <2>2, <3>4, <4>2
    <3>5. CASE m = i
      <4>1. g[k] = f[k]
        BY <3>1, <3>2, <3>5
      <4>2. Longer(g[m], f[m], b)
        <5> HIDE DEF Bad, Good
        <5> QED BY <2>3, <3>3, <3>5, <4>1, LongerGlued
      <4> QED BY <2>2, <3>5, <4>2
    <3>6. CASE m > i
      <4>1. Longer(g[k], f[k], b) /\ t[m] = s[m] /\ s[m] = <<>>
        BY <2>2, <3>1, <3>2, <3>6
      <4>2. g[m] = g[k] /\ f[m] = f[k]
        <5> HIDE DEF Bad, Good
        <5> QED BY <2>3, <3>3, <4>1, GluedIs
      <4>3. Longer(g[m], f[m], b)
        BY <4>1, <4>2
      <4> QED BY <2>2, <3>6, <4>3
    <3> QED BY <2>2, <3>4, <3>5, <3>6
  <2> QED BY <2>4, <2>5
<1>5. Good(Len(s))
  BY <1>1, <1>4
<1> QED BY <1>1, <1>2, <1>3, <1>5
-----------------------------------------------------------------------------
(* TFTP: a block is stored byte by byte *)

(* The buffers and the place in them, and a call the client accepts. *)
Buffered == [bufs : Parts, cur : [ind : Nat, used : Nat, size : Nat, full : BOOLEAN]]
SizesOK == tfsizes \in Seq(Nat \ {0}) /\ tfsizes # <<>> /\ tffile \in Contents

(* s holds the first n bytes of the file: the buffers before the current one are full,
   those behind it empty. *)
HoldsIn(file, sizes, s, n) ==
  /\ s \in Buffered
  /\ Len(s.bufs) = Len(sizes) /\ s.cur.ind \in 1..Len(sizes)
  /\ Len(s.bufs[s.cur.ind]) = s.cur.used /\ s.cur.used <= sizes[s.cur.ind]
  /\ \A j \in 1..Len(sizes) : j < s.cur.ind => Len(s.bufs[j]) = sizes[j]
  /\ \A j \in 1..Len(sizes) : j > s.cur.ind => s.bufs[j] = <<>>
  /\ FlattenSeq(s.bufs) = SubSeq(file, 1, n) /\ s.cur.size = n
  /\ s.cur.full => s.cur.ind = Len(sizes) /\ s.cur.used = sizes[s.cur.ind]
Holding(s, n) == HoldsIn(tffile, tfsizes, s, n)

(* C is B with the byte b put behind what is in the i-th buffer. *)
BytePut(B, C, i, b) ==
  /\ C \in Parts /\ Len(C) = Len(B) /\ Longer(C[i], B[i], b) /\ Len(C[i]) = Len(B[i]) + 1
  /\ \A j \in 1..Len(B) : j # i => C[j] = B[j]

LEMMA PutIs ==
  ASSUME NEW B \in Parts, NEW i \in 1..Len(B), NEW b \in Nat, NEW C, C = [B EXCEPT ![i] = Append(@, b)]
  PROVE  BytePut(B, C, i, b)
PROOF
<1>1. B[i] \in Contents
  BY PartIs
<1>2. PICK x : x = Append(B[i], b)
  OBVIOUS
<1>3. x \in Contents /\ Len(x) = Len(B[i]) + 1
  BY <1>1, <1>2 DEF Contents
<1>4. C = [B EXCEPT ![i] = x]
  BY <1>2, Zenon
<1>5. C \in Parts /\ Len(C) = Len(B) /\ C[i] = x /\ \A j \in 1..Len(B) : j # i => C[j] = B[j]
  <2>1. B \in Seq(Contents) /\ i \in 1..Len(B)
    BY DEF Parts
  <2>2. /\ [B EXCEPT ![i] = x] \in Seq(Contents) /\ Len([B EXCEPT ![i] = x]) = Len(B)
        /\ \A j \in 1..Len(B) : [B EXCEPT ![i] = x][j] = IF j = i THEN x ELSE B[j]
    BY <1>3, <2>1, ExceptSeq
  <2> QED BY <1>4, <2>1, <2>2, Zenon DEF Parts
<1> QED BY <1>2, <1>3, <1>5, Zenon DEF BytePut, Longer

LEMMA BeginsLonger ==
  ASSUME NEW s \in Contents, NEW n \in Nat, n < Len(s), NEW o \in Nat, o = n + 1
  PROVE  Longer(SubSeq(s, 1, o), SubSeq(s, 1, n), s[o])
PROOF
<1>1. SubSeq(s, 1, o) = Append(SubSeq(s, 1, n), s[o])
  BY DEF Contents
<1> QED BY <1>1, Zenon DEF Longer

LEMMA PutBegins ==
  ASSUME NEW B \in Parts, NEW i \in 1..Len(B), NEW C \in Parts, NEW n \in Nat, NEW o \in Nat, o = n + 1,
         NEW t \in Contents, n < Len(t), BytePut(B, C, i, t[o]), FlattenSeq(B) = SubSeq(t, 1, n),
         \A j \in 1..Len(B) : j > i => B[j] = <<>>
  PROVE  FlattenSeq(C) = SubSeq(t, 1, o)
PROOF
<1>1. t[o] \in Nat
  BY DEF Contents
<1>2. /\ C \in Parts /\ Len(C) = Len(B) /\ Longer(C[i], B[i], t[o])
      /\ \A j \in 1..Len(B) : j # i => C[j] = B[j]
  BY DEF BytePut
<1>3. Longer(FlattenSeq(C), FlattenSeq(B), t[o])
  BY <1>1, <1>2, FlattenGrows
<1>4. Longer(SubSeq(t, 1, o), SubSeq(t, 1, n), t[o])
  BY BeginsLonger
<1> QED BY <1>3, <1>4, Zenon DEF Longer

LEMMA ByteStored ==
  ASSUME SizesOK, NEW n \in Nat, n < Len(tffile), NEW o \in Nat, o = n + 1,
         NEW s, Holding(s, n), ~s.cur.full
  PROVE  \/ StoreByte(s, tffile[o]).cur.full /\ Holding(StoreByte(s, tffile[o]), n)
         \/ ~StoreByte(s, tffile[o]).cur.full /\ Holding(StoreByte(s, tffile[o]), o)
PROOF
<1>1. PICK B \in Parts, i \in Nat, u \in Nat : B = s.bufs /\ i = s.cur.ind /\ u = s.cur.used
  BY DEF Holding, HoldsIn, Buffered
<1>2. /\ Len(B) = Len(tfsizes) /\ i \in 1..Len(tfsizes) /\ Len(B[i]) = u /\ u <= tfsizes[i]
      /\ \A j \in 1..Len(tfsizes) : j < i => Len(B[j]) = tfsizes[j]
      /\ \A j \in 1..Len(tfsizes) : j > i => B[j] = <<>>
      /\ FlattenSeq(B) = SubSeq(tffile, 1, n) /\ s.cur.size = n /\ s \in Buffered
  BY <1>1 DEF Holding, HoldsIn
<1>3. /\ Len(tfsizes) \in Nat /\ \A j \in 1..Len(tfsizes) : tfsizes[j] \in Nat /\ tfsizes[j] > 0
      /\ tffile \in Contents
  BY DEF SizesOK
<1>4. PICK b \in Nat : b = tffile[o]
  BY <1>3 DEF Contents
<1>5. PICK r : r = StoreByte(s, b)
  OBVIOUS
<1>6. CASE u >= tfsizes[i] /\ i + 1 > Len(tfsizes)
  <2>1. r = [s EXCEPT !.cur.full = TRUE]
    BY <1>1, <1>5, <1>6, Zenon DEF StoreByte
  <2>2. /\ r \in Buffered /\ r.bufs = B /\ r.cur.ind = i /\ r.cur.used = u /\ r.cur.size = n /\ r.cur.full
    BY <1>1, <1>2, <2>1 DEF Buffered
  <2>3. i = Len(tfsizes) /\ u = tfsizes[i]
    BY <1>2, <1>3, <1>6
  <2>4. Holding(r, n)
    BY <1>2, <2>2, <2>3 DEF Holding, HoldsIn
  <2> QED BY <1>4, <1>5, <2>2, <2>4, Zenon
<1>7. ASSUME NEW to \in 1..Len(tfsizes), NEW v \in Nat, v = Len(B[to]) + 1, v <= tfsizes[to],
             \A j \in 1..Len(tfsizes) : j < to => Len(B[j]) = tfsizes[j],
             \A j \in 1..Len(tfsizes) : j > to => B[j] = <<>>,
             r = [bufs |-> [s.bufs EXCEPT ![to] = Append(@, b)],
                  cur |-> [ind |-> to, used |-> v, size |-> s.cur.size + 1, full |-> FALSE]]
      PROVE  ~r.cur.full /\ Holding(r, o)
  <2>1. PICK C : C = [B EXCEPT ![to] = Append(@, b)]
    OBVIOUS
  <2>2. BytePut(B, C, to, b)
    BY <1>2, <2>1, PutIs
  <2>3. FlattenSeq(C) = SubSeq(tffile, 1, o)
    <3>1. BytePut(B, C, to, tffile[o])
      BY <1>4, <2>2
    <3>2. \A j \in 1..Len(B) : j > to => B[j] = <<>>
      BY <1>2, <1>7
    <3>3. to \in 1..Len(B)
      BY <1>2
    <3>4. FlattenSeq(B) = SubSeq(tffile, 1, n)
      BY <1>2
    <3>5. C \in Parts /\ B \in Parts /\ tffile \in Contents
      BY <1>3, <2>2 DEF BytePut
    <3> QED BY SMTT(30), <3>1, <3>2, <3>3, <3>4, <3>5, PutBegins
  <2>4. /\ C \in Parts /\ Len(C) = Len(B) /\ Len(C[to]) = v
        /\ \A j \in 1..Len(B) : j # to => C[j] = B[j]
    BY <1>7, <2>2 DEF BytePut
  <2>5. s.cur.size + 1 = o
    BY <1>2
  <2>6. r = [bufs |-> C, cur |-> [ind |-> to, used |-> v, size |-> o, full |-> FALSE]]
    BY <1>1, <1>7, <2>1, <2>5, Zenon
  <2>7. r \in Buffered /\ r.bufs = C /\ r.cur.ind = to /\ r.cur.used = v /\ r.cur.size = o /\ r.cur.full = FALSE
    BY <2>4, <2>6 DEF Buffered
  <2>8. \A j \in 1..Len(tfsizes) : (j < to => Len(C[j]) = tfsizes[j]) /\ (j > to => C[j] = <<>>)
    BY <1>2, <1>7, <2>4
  <2> QED BY <1>2, <1>7, <2>3, <2>4, <2>7, <2>8 DEF Holding, HoldsIn
<1>8. CASE u >= tfsizes[i] /\ ~(i + 1 > Len(tfsizes))
  <2>1. PICK to \in 1..Len(tfsizes) : to = i + 1
    BY <1>2, <1>3, <1>8
  <2>2. PICK v \in Nat : v = 1
    OBVIOUS
  <2>3. B[to] = <<>> /\ Len(B[to]) = 0
    BY <1>2, <2>1
  <2>4. v = Len(B[to]) + 1 /\ v <= tfsizes[to]
    BY <1>3, <2>2, <2>3
  <2>5. \A j \in 1..Len(tfsizes) : (j < to => Len(B[j]) = tfsizes[j]) /\ (j > to => B[j] = <<>>)
    <3>1. ASSUME NEW j \in 1..Len(tfsizes) PROVE (j < to => j < i \/ j = i) /\ (j > to => j > i)
      BY <1>2, <2>1
    <3>2. Len(B[i]) = tfsizes[i]
      BY <1>2, <1>3, <1>8
    <3> QED BY <1>2, <3>1, <3>2
  <2>6. r = [bufs |-> [s.bufs EXCEPT ![to] = Append(@, b)],
             cur |-> [ind |-> to, used |-> v, size |-> s.cur.size + 1, full |-> FALSE]]
    BY <1>1, <1>5, <1>8, <2>1, <2>2, Zenon DEF StoreByte
  <2> QED BY <1>4, <1>5, <1>7, <2>4, <2>5, <2>6, Zenon
<1>9. CASE ~(u >= tfsizes[i])
  <2>1. PICK v \in Nat : v = u + 1
    OBVIOUS
  <2>2. v = Len(B[i]) + 1 /\ v <= tfsizes[i] /\ ~(i > Len(tfsizes))
    BY <1>2, <1>3, <1>9, <2>1
  <2>3. r = [bufs |-> [s.bufs EXCEPT ![i] = Append(@, b)],
             cur |-> [ind |-> i, used |-> v, size |-> s.cur.size + 1, full |-> FALSE]]
    BY <1>1, <1>5, <1>9, <2>1, <2>2, Zenon DEF StoreByte
  <2> QED BY <1>2, <1>4, <1>5, <1>7, <2>2, <2>3, Zenon
<1> QED BY <1>6, <1>8, <1>9

(* f holds what the buffers are after the first n bytes of the data. *)
Stores(f, data, n) ==
  f = [i \in 0..n |-> IF i = 0 THEN [bufs |-> tfbufs, cur |-> tfcur] ELSE StoreByte(f[i - 1], data[i])]

LEMMA StoresExists ==
  ASSUME NEW data, NEW n \in Nat
  PROVE  \E f : Stores(f, data, n)
PROOF
<1> DEFINE Bad == {m \in Nat : ~ \E f : Stores(f, data, m)}
<1> SUFFICES ASSUME Bad # {} PROVE FALSE
  OBVIOUS
<1>1. PICK m \in Bad : \A j \in Bad : m <= j
  <2>1. Bad \in SUBSET Nat
    OBVIOUS
  <2> HIDE DEF Bad
  <2> QED BY <2>1, LeastExists
<1>2. m \in Nat /\ ~ \E f : Stores(f, data, m)
  OBVIOUS
<1>3. CASE m = 0
  <2>1. PICK z : z = [bufs |-> tfbufs, cur |-> tfcur]
    OBVIOUS
  <2>2. PICK f : f = [i \in 0..0 |-> z]
    OBVIOUS
  <2>3. \A i \in 0..0 : i = 0
    OBVIOUS
  <2>4. Stores(f, data, 0)
    BY <2>1, <2>2, <2>3, Zenon DEF Stores
  <2> QED BY <1>2, <1>3, <2>4, Zenon
<1>4. CASE m # 0
  <2>1. PICK k \in Nat : k = m - 1 /\ m = k + 1 /\ ~(m <= k)
    BY <1>2, <1>4
  <2>2. PICK f : Stores(f, data, k)
    <3>1. k \notin Bad
      BY <1>1, <2>1, Zenon
    <3> QED BY <3>1
  <2> HIDE DEF Bad
  <2>3. PICK x : x = StoreByte(f[m - 1], data[m])
    OBVIOUS
  <2>4. PICK g : g = [i \in 0..m |-> IF i = m THEN x ELSE f[i]]
    OBVIOUS
  <2>5. ASSUME NEW i \in 0..m
        PROVE  g[i] = IF i = 0 THEN [bufs |-> tfbufs, cur |-> tfcur] ELSE StoreByte(g[i - 1], data[i])
    <3>1. CASE i = m
      <4>1. g[i] = x /\ i # 0
        BY <1>4, <2>4, <3>1
      <4>2. i - 1 \in 0..m /\ i - 1 # m
        BY <2>1, <3>1
      <4>3. g[i - 1] = f[i - 1]
        BY <2>4, <4>2, Zenon
      <4> QED BY <2>3, <3>1, <4>1, <4>3, Zenon
    <3>2. CASE i # m
      <4>1. i \in 0..k /\ g[i] = f[i]
        BY <2>1, <2>4, <3>2
      <4>2. i # 0 => i - 1 \in 0..m /\ i - 1 # m
        BY <2>1, <4>1
      <4>3. i # 0 => g[i - 1] = f[i - 1]
        BY <2>4, <4>2, Zenon
      <4>4. f[i] = IF i = 0 THEN [bufs |-> tfbufs, cur |-> tfcur] ELSE StoreByte(f[i - 1], data[i])
        BY <2>2, <4>1, Zenon DEF Stores
      <4> QED BY <4>1, <4>3, <4>4, Zenon
    <3> QED BY <3>1, <3>2
  <2>6. Stores(g, data, m)
    <3>1. g = [i \in 0..m |-> g[i]]
      BY <2>4
    <3> QED BY <2>5, <3>1, Zenon DEF Stores
  <2> QED BY <1>2, <2>6, Zenon
<1> QED BY <1>3, <1>4

(* A block of d bytes that follows the first n of the file. *)
LEMMA BlockStored ==
  ASSUME SizesOK, NEW n \in Nat, NEW d \in Nat, n + d <= Len(tffile),
         NEW data \in Contents, Len(data) = d, \A i \in 1..d : data[i] = tffile[n + i],
         NEW z, z = [bufs |-> tfbufs, cur |-> tfcur], Holding(z, n), ~z.cur.full
  PROVE  \E m \in n..(n + d) : /\ Holding(StoredBlock(data), m)
                               /\ ~StoredBlock(data).cur.full => m = n + d
PROOF
<1>1. \E f : Stores(f, data, d)
  BY StoresExists
<1>2. PICK f : f = CHOOSE g : g = [i \in 0..Len(data) |->
                     IF i = 0 THEN [bufs |-> tfbufs, cur |-> tfcur] ELSE StoreByte(g[i - 1], data[i])]
  OBVIOUS
<1>3. Stores(f, data, d)
  BY <1>1, <1>2, Zenon DEF Stores
<1>4. StoredBlock(data) = f[d]
  BY <1>2, Zenon DEF StoredBlock
<1>5. ASSUME NEW i \in 0..d PROVE (i = 0 => f[i] = z) /\ (i # 0 => f[i] = StoreByte(f[i - 1], data[i]))
  BY <1>3, <1>5, Zenon DEF Stores
<1>6. Len(tffile) \in Nat
  BY DEF SizesOK, Contents
<1> DEFINE Good(i) == \E m \in n..(n + i) : Holding(f[i], m) /\ (~f[i].cur.full => m = n + i)
<1> DEFINE Bad == {i \in 0..d : ~Good(i)}
<1>7. Bad = {}
  <2> SUFFICES ASSUME Bad # {} PROVE FALSE
    OBVIOUS
  <2>1. PICK i \in Bad : \A j \in Bad : i <= j
    <3>1. Bad \in SUBSET Nat
      OBVIOUS
    <3> HIDE DEF Bad
    <3> QED BY <3>1, LeastExists
  <2>2. i \in 0..d /\ ~Good(i)
    OBVIOUS
  <2>3. CASE i = 0
    <3>1. f[i] = z /\ n \in n..(n + i) /\ n = n + i
      BY <1>5, <2>2, <2>3
    <3>2. Good(i)
      BY <3>1, Zenon
    <3> QED BY <2>2, <3>2
  <2>4. CASE i # 0
    <3>1. PICK k \in 0..d : k = i - 1 /\ i = k + 1 /\ ~(i <= k)
      BY <2>2, <2>4
    <3>2. Good(k)
      BY <2>1, <3>1
    <3>3. PICK m \in n..(n + k) : Holding(f[k], m) /\ (~f[k].cur.full => m = n + k)
      BY <3>2, Zenon
    <3>4. f[i] = StoreByte(f[k], data[i])
      BY <1>5, <2>2, <2>4, <3>1
    <3>5. m \in n..(n + i)
      BY <3>1, <3>3
    <3> HIDE DEF Good, Bad
    <3>6. CASE f[k].cur.full
      <4>1. f[i] = f[k]
        BY <3>4, <3>6, Zenon DEF StoreByte
      <4>2. Good(i)
        BY <3>3, <3>5, <3>6, <4>1, Zenon DEF Good
      <4> QED BY <2>2, <4>2
    <3>7. CASE ~f[k].cur.full
      <4>1. PICK o \in Nat : o = m + 1 /\ o = n + i /\ o \in n..(n + i) /\ m < Len(tffile)
        BY <1>6, <3>1, <3>3, <3>7, <2>2
      <4>2. data[i] = tffile[o]
        <5>1. i \in 1..d
          BY <2>2, <2>4
        <5> QED BY <4>1, <5>1, Zenon
      <4>3. \/ f[i].cur.full /\ Holding(f[i], m)
            \/ ~f[i].cur.full /\ Holding(f[i], o)
        <5>1. m \in Nat
          BY <3>3
        <5>2. \/ StoreByte(f[k], tffile[o]).cur.full /\ Holding(StoreByte(f[k], tffile[o]), m)
              \/ ~StoreByte(f[k], tffile[o]).cur.full /\ Holding(StoreByte(f[k], tffile[o]), o)
          BY <3>3, <3>7, <4>1, <5>1, ByteStored
        <5> QED BY <3>4, <4>2, <5>2, Zenon
      <4>4. Good(i)
        BY <3>5, <4>1, <4>3, Zenon DEF Good
      <4> QED BY <2>2, <4>4
    <3> QED BY <3>6, <3>7
  <2> QED BY <2>3, <2>4
<1>8. Good(d)
  <2>1. d \in 0..d
    OBVIOUS
  <2> QED BY <1>7, <2>1
<1> QED BY <1>4, <1>8, Zenon

(* n bytes of the file, as many as the block k has, begin behind the first m. *)
BlockHas(k, m, d) ==
  /\ m + d <= Len(tffile) /\ BlockData(k) \in Contents /\ Len(BlockData(k)) = d
  /\ \A i \in 1..d : BlockData(k)[i] = tffile[m + i]
  /\ d < TFTP_MAXDATA => m + d = Len(tffile)
  /\ d >= TFTP_MAXDATA => k + 1 \in 1..LastBlock /\ k * TFTP_MAXDATA = m + d

(* What is in the file behind the first m bytes, up to e. *)
Piece(m, e) == SubSeq(tffile, m + 1, e)

LEMMA PieceIs ==
  ASSUME tffile \in Contents, NEW m \in Nat, NEW d \in Nat, NEW e \in Nat, e = m + d, e <= Len(tffile)
  PROVE  /\ Piece(m, e) \in Contents /\ Len(Piece(m, e)) = d
         /\ \A i \in 1..d : Piece(m, e)[i] = tffile[m + i]
PROOF BY DEF Contents, Piece

LEMMA BlocksAre ==
  ASSUME tffile \in Contents, NEW k \in 1..LastBlock
  PROVE  \E m \in Nat, d \in Nat : m = (k - 1) * TFTP_MAXDATA /\ BlockHas(k, m, d)
PROOF
<1>1. PICK M \in Nat \ {0}, L \in Nat : M = TFTP_MAXDATA /\ L = Len(tffile)
  BY TftpSizes DEF Contents
<1>2. PICK q \in Int, r \in 0..(M - 1) : q = L \div M /\ L = M * q + r
  <2>1. L \in Int
    OBVIOUS
  <2>2. L % M \in 0..(M - 1) /\ L \div M \in Int /\ L = M * (L \div M) + (L % M)
    BY <2>1, ModIs
  <2> QED BY <2>2, Zenon
<1>3. LastBlock = q + 1 /\ k \in Int /\ k >= 1 /\ k <= q + 1
  BY <1>1, <1>2 DEF LastBlock
<1>4. PICK m \in Nat, e \in Nat : m = (k - 1) * M /\ e = k * M /\ e = m + M
  <2>1. (k - 1) * M \in Nat /\ k * M \in Nat /\ k * M = (k - 1) * M + M
    BY <1>3
  <2> QED BY <2>1
<1>5. PICK x : x = Min({e, L})
  OBVIOUS
<1>6. x = (IF e <= L THEN e ELSE L)
  BY <1>5, LeastOfTwo
<1>7. BlockData(k) = Piece(m, x)
  BY <1>1, <1>4, <1>5, Zenon DEF BlockData, Piece
<1>8. CASE k <= q
  <2>1. e <= L
    <3>1. k * M <= M * q
      BY <1>3, <1>8
    <3> QED BY <1>2, <1>4, <3>1
  <2>2. x = e
    BY <1>6, <2>1
  <2>3. m \in Nat /\ e \in Nat /\ M \in Nat /\ e = m + M /\ e <= Len(tffile)
    BY <1>1, <1>4, <2>1
  <2>7. /\ Piece(m, e) \in Contents /\ Len(Piece(m, e)) = M
        /\ \A i \in 1..M : Piece(m, e)[i] = tffile[m + i]
    BY <2>3, PieceIs
  <2>4. /\ BlockData(k) \in Contents /\ Len(BlockData(k)) = M
        /\ \A i \in 1..M : BlockData(k)[i] = tffile[m + i]
    BY <1>7, <2>2, <2>7, Zenon
  <2>5. k + 1 \in 1..LastBlock /\ ~(M < M) /\ k * M = m + M /\ m + M <= L
    BY <1>3, <1>4, <1>8, <2>1
  <2>6. BlockHas(k, m, M)
    BY <1>1, <2>4, <2>5 DEF BlockHas
  <2> QED BY <1>1, <1>4, <2>6
<1>9. CASE ~(k <= q)
  <2>1. k = q + 1
    BY <1>3, <1>9
  <2>2. m = M * q
    <3>1. k - 1 = q
      BY <2>1
    <3>2. q * M = M * q
      OBVIOUS
    <3> QED BY <1>4, <3>1, <3>2, Zenon
  <2>3. PICK d \in Nat : d = r /\ L = m + d /\ d < M
    BY <1>2, <2>2
  <2>4. ~(e <= L)
    BY <1>4, <2>3
  <2>5. x = L
    BY <1>6, <2>4
  <2>6. m \in Nat /\ L \in Nat /\ d \in Nat /\ L = m + d /\ L <= Len(tffile)
    BY <1>1, <1>4, <2>3
  <2>10. /\ Piece(m, L) \in Contents /\ Len(Piece(m, L)) = d
         /\ \A i \in 1..d : Piece(m, L)[i] = tffile[m + i]
    BY <2>6, PieceIs
  <2>7. /\ BlockData(k) \in Contents /\ Len(BlockData(k)) = d
        /\ \A i \in 1..d : BlockData(k)[i] = tffile[m + i]
    BY <1>7, <2>5, <2>10, Zenon
  <2>8. m + d <= Len(tffile) /\ m + d = Len(tffile) /\ ~(d >= TFTP_MAXDATA)
    BY <1>1, <2>3
  <2>9. BlockHas(k, m, d)
    BY <2>7, <2>8, Zenon DEF BlockHas
  <2> QED BY <1>1, <1>4, <2>9
<1> QED BY <1>8, <1>9

(* What TransferSound says of buffers and a result. *)
SoundWith(bufs, res) ==
  /\ IsPrefix(FlattenSeq(bufs), tffile)
  /\ \A i \in DOMAIN bufs : \A j \in 1..(i - 1) : bufs[i] # <<>> => Len(bufs[j]) = tfsizes[j]
  /\ res \notin {NoResult, SYSERR} =>
       /\ res = Len(FlattenSeq(bufs))
       /\ FlattenSeq(bufs) = tffile \/ \A i \in DOMAIN bufs : Len(bufs[i]) = tfsizes[i]

LEMMA HoldingSound ==
  ASSUME SizesOK, NEW s, NEW n \in Nat, n <= Len(tffile), Holding(s, n), NEW res,
         res \in {NoResult, SYSERR} \/ (res = n /\ (n = Len(tffile) \/ s.cur.full))
  PROVE  SoundWith(s.bufs, res)
PROOF
<1>1. PICK B \in Parts, i \in Nat : B = s.bufs /\ i = s.cur.ind
  BY DEF Holding, HoldsIn, Buffered
<1>2. /\ Len(B) = Len(tfsizes) /\ i \in 1..Len(tfsizes)
      /\ \A j \in 1..Len(tfsizes) : j < i => Len(B[j]) = tfsizes[j]
      /\ \A j \in 1..Len(tfsizes) : j > i => B[j] = <<>>
      /\ FlattenSeq(B) = SubSeq(tffile, 1, n)
      /\ s.cur.full => i = Len(tfsizes) /\ Len(B[i]) = tfsizes[i]
  BY <1>1 DEF Holding, HoldsIn
<1>3. Len(tfsizes) \in Nat /\ tffile \in Contents /\ DOMAIN B = 1..Len(tfsizes)
  BY <1>2 DEF SizesOK, Parts
<1>4. PICK g : g = FlattenSeq(B)
  OBVIOUS
<1>5. Len(g) = n /\ SubSeq(g, 1, n) = g
  <2>1. Len(SubSeq(tffile, 1, n)) = n /\ SubSeq(SubSeq(tffile, 1, n), 1, n) = SubSeq(tffile, 1, n)
    BY <1>3 DEF Contents
  <2> QED BY <1>2, <1>4, <2>1, Zenon
<1>6. IsPrefix(g, tffile)
  BY <1>2, <1>4, <1>5, Zenon DEF IsPrefix
<1>7. n = Len(tffile) => g = tffile
  <2>1. SubSeq(tffile, 1, Len(tffile)) = tffile
    BY <1>3 DEF Contents
  <2> QED BY <1>2, <1>4, <2>1, Zenon
<1>8. ASSUME NEW a \in DOMAIN B, NEW j \in 1..(a - 1), B[a] # <<>> PROVE Len(B[j]) = tfsizes[j]
  <2>0. a \in 1..Len(tfsizes)
    BY <1>3
  <2>2. ~(a > i)
    BY <1>2, <1>8, <2>0, Zenon
  <2>3. PICK last \in Nat : last = Len(tfsizes)
    BY <1>3
  <2>4. i \in 1..last /\ a \in 1..last
    BY <1>2, <2>0, <2>3, Zenon
  <2>5. \A low \in 1..(a - 1) : low \in 1..last /\ low < i
    BY <2>2, <2>4
  <2>1. j \in 1..Len(tfsizes) /\ j < i
    BY <2>3, <2>5, Zenon
  <2> QED BY <1>2, <2>1
<1>9. s.cur.full => \A a \in DOMAIN B : Len(B[a]) = tfsizes[a]
  BY <1>2, <1>3
<1> QED BY <1>1, <1>4, <1>5, <1>6, <1>7, <1>8, <1>9 DEF SoundWith

(* Until it returns, the client holds the blocks before the one it expects. *)
Transferring ==
  /\ tfat \in {"sends", "waits"} /\ tfresult = NoResult /\ SizesOK
  /\ LastBlock <= TFTP_BLOCKS /\ tfexpected \in 1..LastBlock
  /\ Holding([bufs |-> tfbufs, cur |-> tfcur], (tfexpected - 1) * TFTP_MAXDATA) /\ ~tfcur.full

(* The inductive invariant: TransferSound, and what each place in tftpget_mb is about. *)
TfInv ==
  \/ /\ tfat = "idle" /\ tfresult = NoResult /\ tffile = <<>> /\ tfbufs = <<>> /\ tfexpected = 1
     /\ tfcur = [ind |-> 1, used |-> 0, size |-> 0, full |-> FALSE]
  \/ Transferring
  \/ tfat = "returned" /\ TransferSound

LEMMA SoundIs ==
  ASSUME TRUE
  PROVE  TransferSound <=> SoundWith(tfbufs, tfresult)
PROOF BY Zenon DEF TransferSound, SoundWith

LEMMA SoundNext ==
  ASSUME UNCHANGED <<tffile, tfsizes>>, SoundWith(tfbufs', tfresult')
  PROVE  TransferSound'
PROOF BY Zenon DEF TransferSound, SoundWith

LEMMA InvSound ==
  ASSUME TfInv
  PROVE  TransferSound
PROOF
<1>1. CASE tfat = "idle" /\ tfresult = NoResult /\ tffile = <<>> /\ tfbufs = <<>>
  <2>1. FlattenSeq(<<>>) = <<>>
    BY DEF FlattenSeq
  <2>2. IsPrefix(<<>>, <<>>)
    BY DEF IsPrefix
  <2> QED BY <1>1, <2>1, <2>2 DEF TransferSound
<1>2. CASE Transferring
  <2>1. PICK n \in Nat, d \in Nat : n = (tfexpected - 1) * TFTP_MAXDATA /\ BlockHas(tfexpected, n, d)
    BY <1>2, BlocksAre DEF Transferring, SizesOK
  <2>2. n <= Len(tffile)
    BY <1>2, <2>1 DEF BlockHas, Transferring, SizesOK, Contents
  <2>3. PICK s : s = [bufs |-> tfbufs, cur |-> tfcur]
    OBVIOUS
  <2>4. SizesOK /\ Holding(s, n) /\ s.bufs = tfbufs /\ tfresult \in {NoResult, SYSERR}
    BY <1>2, <2>1, <2>3 DEF Transferring
  <2>5. SoundWith(tfbufs, tfresult)
    BY <2>2, <2>4, HoldingSound
  <2> QED BY <2>5, SoundIs
<1> QED BY <1>1, <1>2 DEF TfInv

LEMMA EmptyHolds ==
  ASSUME NEW sizes \in Seq(Nat \ {0}), sizes # <<>>, NEW file \in Contents,
         NEW bufs, bufs = [i \in DOMAIN sizes |-> <<>>],
         NEW cur, cur = [ind |-> 1, used |-> 0, size |-> 0, full |-> FALSE]
  PROVE  HoldsIn(file, sizes, [bufs |-> bufs, cur |-> cur], 0)
PROOF
<1>1. Len(sizes) \in Nat /\ Len(sizes) # 0 /\ DOMAIN sizes = 1..Len(sizes) /\ 1 \in 1..Len(sizes)
      /\ sizes[1] \in Nat
  OBVIOUS
<1>2. bufs \in Parts /\ Len(bufs) = Len(sizes) /\ \A i \in 1..Len(sizes) : bufs[i] = <<>>
  <2>1. <<>> \in Contents
    BY DEF Contents
  <2> QED BY <1>1, <2>1 DEF Parts
<1>3. FlattenSeq(bufs) = <<>>
  BY <1>2, FlattenNone
<1>4. SubSeq(file, 1, 0) = <<>>
  BY DEF Contents
<1>5. PICK s : s = [bufs |-> bufs, cur |-> cur]
  OBVIOUS
<1>6. /\ s \in Buffered /\ s.bufs = bufs /\ s.cur.ind = 1 /\ s.cur.used = 0 /\ s.cur.size = 0 /\ s.cur.full = FALSE
  BY <1>2, <1>5 DEF Buffered
<1>7. Len(s.bufs[1]) = 0 /\ 0 <= sizes[1] /\ \A j \in 1..Len(sizes) : ~(j < 1)
  BY <1>1, <1>2, <1>6
<1>8. HoldsIn(file, sizes, s, 0)
  BY <1>1, <1>2, <1>3, <1>4, <1>6, <1>7 DEF HoldsIn
<1> QED BY <1>5, <1>8, Zenon

LEMMA TfCalls ==
  ASSUME TfInv, TftpCall
  PROVE  Transferring'
PROOF
<1>1. /\ tfat' = "sends" /\ tfresult' = NoResult /\ tfexpected' = 1
      /\ tfcur' = [ind |-> 1, used |-> 0, size |-> 0, full |-> FALSE]
      /\ tfbufs' = [i \in DOMAIN tfsizes' |-> <<>>]
  BY DEF TfInv, TftpCall, Transferring
<1>2. tfsizes' \in Seq(Nat \ {0}) /\ tfsizes' # <<>>
  BY TftpSizes DEF TftpCall
<1>3. PICK n \in FileSizes : tffile' = [i \in 1..n |-> i]
  BY DEF TftpCall
<1>4. n \in Nat /\ n \div TFTP_MAXDATA < TFTP_BLOCKS
  BY TftpSizes
<1>5. tffile' \in Contents /\ Len(tffile') = n
  BY <1>3, <1>4 DEF Contents
<1>6. PICK q \in Nat : q = n \div TFTP_MAXDATA /\ q < TFTP_BLOCKS /\ LastBlock' = q + 1
  BY <1>4, <1>5, TftpSizes DEF LastBlock
<1>7. LastBlock' <= TFTP_BLOCKS /\ 1 \in 1..LastBlock'
  BY <1>6, TftpSizes
<1>8. HoldsIn(tffile', tfsizes', [bufs |-> tfbufs', cur |-> tfcur'], 0)
  BY <1>1, <1>2, <1>5, EmptyHolds
<1>9. (tfexpected' - 1) * TFTP_MAXDATA = 0
  BY <1>1, TftpSizes
<1>10. tfcur'.full = FALSE
  BY <1>1
<1> QED BY <1>1, <1>2, <1>5, <1>7, <1>8, <1>9, <1>10 DEF Transferring, SizesOK, Holding

LEMMA TfKeeps ==
  ASSUME Transferring, UNCHANGED <<tffile, tfsizes, tfbufs, tfcur, tfexpected, tfresult>>, tfat' \in {"sends", "waits"}
  PROVE  Transferring'
PROOF
<1>1. LastBlock' = LastBlock
  BY DEF LastBlock
<1> QED BY <1>1 DEF Transferring, SizesOK, Holding

LEMMA TfEnds ==
  ASSUME TransferSound, UNCHANGED <<tffile, tfsizes, tfbufs>>, tfresult' \in {SYSERR, tfresult}
  PROVE  TransferSound'
PROOF
<1>1. SoundWith(tfbufs, tfresult)
  BY SoundIs
<1>2. SoundWith(tfbufs', tfresult')
  BY <1>1, Zenon DEF SoundWith
<1> QED BY <1>2, SoundNext

(* A block arrives that is the one expected: it is the block of that number. *)
LEMMA BlockMeant ==
  ASSUME LastBlock \in Int, LastBlock <= TFTP_BLOCKS, NEW e \in 1..LastBlock, NEW k \in 1..LastBlock,
         k % TFTP_BLOCKS = e % TFTP_BLOCKS
  PROVE  k = e
PROOF
<1>1. PICK B \in Nat \ {0} : B = TFTP_BLOCKS
  BY TftpSizes
<1>2. k - e < B /\ e - k < B /\ k \in Int /\ e \in Int
  BY <1>1
<1>3. k % B = e % B
  BY <1>1
<1>4. CASE k <= e
  BY <1>2, <1>3, <1>4, ModSame
<1>5. CASE e <= k
  BY <1>2, <1>3, <1>5, ModSame
<1> QED BY <1>2, <1>4, <1>5

LEMMA TfAccepts ==
  ASSUME Transferring, NEW p, NEW data, data = BlockData(tfexpected), TftpAccepts(p, data)
  PROVE  TfInv'
PROOF
<1>1. PICK e \in 1..LastBlock : e = tfexpected /\ e \in Int
  BY DEF Transferring, LastBlock
<1>2. SizesOK /\ tffile \in Contents /\ Len(tffile) \in Nat /\ LastBlock <= TFTP_BLOCKS /\ tfresult = NoResult
  BY DEF Transferring, SizesOK, Contents
<1>3. PICK n \in Nat, d \in Nat : n = (e - 1) * TFTP_MAXDATA /\ BlockHas(e, n, d)
  BY <1>2, BlocksAre
<1>4. /\ n + d <= Len(tffile) /\ data \in Contents /\ Len(data) = d /\ \A i \in 1..d : data[i] = tffile[n + i]
      /\ d < TFTP_MAXDATA => n + d = Len(tffile)
      /\ d >= TFTP_MAXDATA => e + 1 \in 1..LastBlock /\ e * TFTP_MAXDATA = n + d
  BY <1>1, <1>3, Zenon DEF BlockHas
<1>5. PICK z : z = [bufs |-> tfbufs, cur |-> tfcur]
  OBVIOUS
<1>6. Holding(z, n) /\ ~z.cur.full
  BY <1>1, <1>3, <1>5 DEF Transferring
<1>7. PICK s : s = StoredBlock(data)
  OBVIOUS
<1>8. PICK m \in n..(n + d) : Holding(s, m) /\ (~s.cur.full => m = n + d)
  <2>1. \E m \in n..(n + d) : Holding(StoredBlock(data), m) /\ (~StoredBlock(data).cur.full => m = n + d)
    BY <1>2, <1>4, <1>5, <1>6, BlockStored
  <2> QED BY <1>7, <2>1, Zenon
<1>9. m \in Nat /\ m <= Len(tffile)
  BY <1>2, <1>4, <1>8
<1>10. s.cur.size = m /\ s = [bufs |-> s.bufs, cur |-> s.cur]
  BY <1>8 DEF Holding, HoldsIn, Buffered
<1>11. UNCHANGED <<tffile, tfsizes>> /\ tfbufs' = s.bufs /\ tfcur' = s.cur
  BY <1>7, Zenon DEF TftpAccepts
<1>12. ASSUME NEW res, tfat' = "returned", tfresult' = res,
              res \in {NoResult, SYSERR} \/ (res = m /\ (m = Len(tffile) \/ s.cur.full))
       PROVE  TfInv'
  <2>1. SoundWith(s.bufs, res)
    BY <1>2, <1>8, <1>9, <1>12, HoldingSound
  <2>2. TransferSound'
    BY <1>11, <1>12, <2>1, SoundNext
  <2> QED BY <1>12, <2>2 DEF TfInv
<1>13. CASE s.cur.full
  <2>1. tfat' = "returned" /\ tfresult' = m
    BY <1>7, <1>10, <1>13, Zenon DEF TftpAccepts, Returned
  <2> QED BY <1>12, <1>13, <2>1
<1>14. CASE ~s.cur.full /\ d < TFTP_MAXDATA
  <2>1. tfat' = "returned" /\ tfresult' \in {m, SYSERR}
    BY <1>4, <1>7, <1>10, <1>14, Zenon DEF TftpAccepts
  <2>2. m = Len(tffile)
    BY <1>4, <1>8, <1>14
  <2> QED BY <1>12, <2>1, <2>2
<1>15. CASE ~s.cur.full /\ ~(d < TFTP_MAXDATA)
  <2>1. tfat' = "sends" /\ tfexpected' = tfexpected + 1 /\ tfresult' = tfresult
    BY <1>4, <1>7, <1>15, Zenon DEF TftpAccepts
  <2>2. d >= TFTP_MAXDATA
    BY <1>15, TftpSizes
  <2>3. PICK o \in 1..LastBlock : o = e + 1 /\ tfexpected' = o
    BY <1>1, <1>4, <2>1, <2>2
  <2>4. (o - 1) * TFTP_MAXDATA = m
    <3>1. o - 1 = e
      BY <1>1, <2>3
    <3> QED BY <1>4, <1>8, <1>15, <2>2, <3>1
  <2>5. LastBlock' = LastBlock
    BY <1>11 DEF LastBlock
  <2>6. Holding([bufs |-> tfbufs, cur |-> tfcur], (tfexpected - 1) * TFTP_MAXDATA)'
    <3>1. HoldsIn(tffile, tfsizes, s, m)
      BY <1>8 DEF Holding
    <3>2. HoldsIn(tffile', tfsizes', [bufs |-> tfbufs', cur |-> tfcur'], (tfexpected' - 1) * TFTP_MAXDATA)
      BY <1>10, <1>11, <2>3, <2>4, <3>1, Zenon
    <3> QED BY <3>2 DEF Holding
  <2>7. Transferring'
    BY <1>2, <1>11, <1>15, <2>1, <2>3, <2>5, <2>6 DEF Transferring, SizesOK
  <2> QED BY <2>7 DEF TfInv
<1> QED BY <1>13, <1>14, <1>15

LEMMA TfStep ==
  ASSUME TfInv, [TftpNext]_tftpVars
  PROVE  TfInv'
PROOF
<1>1. ASSUME UNCHANGED <<tffile, tfsizes, clientVars>> PROVE TfInv'
  <2>1. CASE tfat = "idle"
    BY <1>1, <2>1 DEF TfInv, Transferring, clientVars
  <2>2. CASE Transferring
    <3>1. Transferring'
      BY <1>1, <2>2, TfKeeps DEF clientVars, Transferring
    <3> QED BY <3>1 DEF TfInv
  <2>3. CASE tfat = "returned" /\ TransferSound
    <3>1. TransferSound'
      BY <1>1, <2>3, TfEnds DEF clientVars
    <3> QED BY <1>1, <2>3, <3>1 DEF TfInv, clientVars
  <2> QED BY <2>1, <2>2, <2>3 DEF TfInv
<1>2. CASE TftpCall
  BY <1>2, TfCalls DEF TfInv
<1>3. ASSUME tfat \in {"sends", "waits"}, tfat' \in {"sends", "waits"},
             UNCHANGED <<tffile, tfsizes, tfbufs, tfcur, tfexpected, tfresult>>
      PROVE  TfInv'
  <2>1. Transferring
    BY <1>3 DEF TfInv
  <2> QED BY <1>3, <2>1, TfKeeps DEF TfInv
<1>4. ASSUME tfat' = "returned", tfresult' = SYSERR, UNCHANGED <<tffile, tfsizes, tfbufs>>
      PROVE  TfInv'
  BY <1>4, InvSound, TfEnds DEF TfInv
<1>5. CASE TftpSend1
  BY <1>3, <1>5 DEF TftpSend1
<1>6. CASE TftpTimeout
  <2>1. CASE tftries + 1 < TFTP_MAXRETRIES
    BY <1>3, <1>6, <2>1 DEF TftpTimeout
  <2>2. CASE ~(tftries + 1 < TFTP_MAXRETRIES)
    BY <1>4, <1>6, <2>2 DEF TftpTimeout, Returned
  <2> QED BY <2>1, <2>2
<1>7. CASE TftpFails
  BY <1>4, <1>7 DEF TftpFails, Returned
<1>8. ASSUME NEW p, TftpIgnores(p) PROVE TfInv'
  BY <1>3, <1>8 DEF TftpIgnores
<1>9. ASSUME NEW p \in TransferPorts, TftpServerStarts(p) \/ TftpServerGoesOn(p) PROVE TfInv'
  BY <1>1, <1>9 DEF TftpServerStarts, TftpServerGoesOn
<1>10. ASSUME NEW p \in TransferPorts, NEW k \in 1..LastBlock, TftpReceives(p, k) PROVE TfInv'
  <2>1. CASE IsExpected(k % TFTP_BLOCKS)
    <3>1. TftpAccepts(p, BlockData(k)) /\ tfat = "waits"
      BY <1>10, <2>1, Zenon DEF TftpReceives, TftpAccepts
    <3>2. Transferring
      BY <3>1 DEF TfInv
    <3>3. PICK e \in 1..LastBlock : e = tfexpected
      BY <3>2 DEF Transferring
    <3>4. k % TFTP_BLOCKS = e % TFTP_BLOCKS
      BY <2>1, <3>3 DEF IsExpected
    <3>5. LastBlock \in Int
      BY <3>2, ModIs, TftpSizes DEF LastBlock, Transferring, SizesOK, Contents
    <3>6. k = tfexpected
      BY <3>2, <3>3, <3>4, <3>5, BlockMeant DEF Transferring
    <3> QED BY <3>1, <3>2, <3>6, TfAccepts
  <2>2. CASE ~IsExpected(k % TFTP_BLOCKS)
    BY <1>8, <1>10, <2>2 DEF TftpReceives
  <2> QED BY <2>1, <2>2
<1>11. CASE UNCHANGED tftpVars
  BY <1>1, <1>11 DEF tftpVars
<1> QED BY <1>2, <1>5, <1>6, <1>7, <1>8, <1>9, <1>10, <1>11, Zenon DEF TftpNext

(* The TFTP client: the buffers hold a beginning of the file, in order and without gaps
   across blocks and buffers, whatever the network loses, repeats or delays and however
   many transfers the server runs; a size is returned only for the whole file, or for
   full buffers. *)
THEOREM TransferSoundAlways == TftpSpec => []TransferSound
PROOF
<1>1. TftpInit => TfInv
  BY DEF TftpInit, TfInv
<1> QED BY <1>1, TfStep, InvSound, PTL DEF TftpSpec
=============================================================================
