-------------------------------- MODULE Arp ---------------------------------
(***************************************************************************)
(* ARP (net/arp.c, arp.h): the cache, shared by the processes that resolve *)
(* addresses and by netin, which handles arriving packets.  Calls run with *)
(* interrupts disabled; a resolver may lose the processor where it writes  *)
(* its request to the device and where it waits for the answer.            *)
(***************************************************************************)
EXTENDS Integers

CONSTANTS
  Resolvers,   \* processes that call arp_resolve
  Hosts,       \* addresses on the network; the hardware address of each is its own
  ARP_SIZ, ARP_RETRY

ASSUME ArpSizes == ARP_SIZ \in Nat \ {0} /\ ARP_RETRY \in Nat \ {0}

VARIABLES
  arpcache,    \* [0..ARP_SIZ - 1]: [arstate, arpaddr, arpid, arhaddr]
  resolving,   \* [Resolvers]: what is left of arp_resolve
  arpmsg       \* [Resolvers]: "none", "OK" (from arp_in) or "word" (from elsewhere)
arpVars == <<arpcache, resolving, arpmsg>>

ArpSlots == 0..(ARP_SIZ - 1)
NoMac == "zeros"
FreeEntry == [arstate |-> "FREE", arpaddr |-> "none", arpid |-> "none", arhaddr |-> NoMac]
NotResolving == [at |-> "out", slot |-> 0, addr |-> "none", tries |-> 0]

ArpInit ==
  /\ arpcache = [s \in ArpSlots |-> FreeEntry]
  /\ resolving = [p \in Resolvers |-> NotResolving]
  /\ arpmsg = [p \in Resolvers |-> "none"]

Has(state) == {s \in ArpSlots : arpcache[s].arstate = state}
EntriesOf(a) == {s \in ArpSlots : arpcache[s].arstate # "FREE" /\ arpcache[s].arpaddr = a}
Known(a) == EntriesOf(a)
FirstOf(S) == {s \in S : \A t \in S : s <= t}

FirstFreeOrAny == ArpSlots          \* fault: a pending entry may be thrown out
(* arp_alloc: a free entry, or else the first resolved one is thrown out. *)
Allocatable == IF Has("FREE") # {} THEN Has("FREE") ELSE Has("RESOLVED")

(* arp_resolve of an address that has no entry: allocates a pending one, and
   goes on to send the request.  (An address that is resolved is answered at
   once; one that is pending is refused: neither changes anything.) *)
ArpResolve(p, a) ==
  /\ resolving[p].at = "out" /\ Known(a) = {}
  /\ \E s \in FirstOf(Allocatable) :
       /\ arpcache' = [arpcache EXCEPT ![s] =
            [arstate |-> "PENDING", arpaddr |-> a, arpid |-> p, arhaddr |-> NoMac]]
       /\ resolving' = [resolving EXCEPT ![p] = [at |-> "write", slot |-> s, addr |-> a, tries |-> 1]]
  /\ arpmsg' = [arpmsg EXCEPT ![p] = "none"]            \* recvclr

(* The request is written; the process waits in recvtime if no message came. *)
ArpSent(p) ==
  /\ resolving[p].at = "write"
  /\ resolving' = [resolving EXCEPT ![p].at = "recvtime"]
  /\ UNCHANGED <<arpcache, arpmsg>>

TimeoutFrees(s) == [arpcache EXCEPT ![s].arstate = "FREE"]

(* recvtime returns TIMEOUT: the request is sent again, or given up. *)
ArpTimeout(p) ==
  /\ resolving[p].at = "recvtime" /\ arpmsg[p] = "none"
  /\ IF resolving[p].tries < ARP_RETRY
     THEN /\ resolving' = [resolving EXCEPT ![p].at = "write", ![p].tries = @ + 1]
          /\ UNCHANGED arpcache
     ELSE /\ arpcache' = TimeoutFrees(resolving[p].slot)
          /\ resolving' = [resolving EXCEPT ![p] = NotResolving]
  /\ UNCHANGED arpmsg

(* recvtime returns a message, whatever it is: the hardware address in the
   entry is returned, whosever the entry is by now. *)
ArpWake(p) ==
  /\ resolving[p].at = "recvtime" /\ arpmsg[p] # "none"
  /\ arpmsg' = [arpmsg EXCEPT ![p] = "none"]
  /\ resolving' = [resolving EXCEPT ![p] = NotResolving]
  /\ UNCHANGED arpcache

Answered(s, a) == [arpcache[s] EXCEPT !.arstate = "RESOLVED", !.arhaddr = a]

(* arp_in, for a packet from host a whose address has an entry: the entry is
   brought up to date, and who waits for it is told. *)
ArpInKnown(a) ==
  /\ \E s \in FirstOf(Known(a)) :
       LET p == arpcache[s].arpid IN
       /\ arpcache' = [arpcache EXCEPT ![s] = Answered(s, a)]
       /\ arpmsg' = IF arpcache[s].arstate = "PENDING" /\ arpmsg[p] = "none"
                    THEN [arpmsg EXCEPT ![p] = "OK"] ELSE arpmsg
  /\ UNCHANGED resolving

(* A request for this machine's address, from a host that has none. *)
ArpInNew(a) ==
  /\ Known(a) = {}
  /\ \E s \in FirstOf(Allocatable) :
       arpcache' = [arpcache EXCEPT ![s] =
         [arstate |-> "RESOLVED", arpaddr |-> a, arpid |-> "none", arhaddr |-> a]]
  /\ UNCHANGED <<arpmsg, resolving>>

(* Somebody else sends the process a message, perhaps while it waits. *)
ArpOtherMessage(p) ==
  /\ arpmsg[p] = "none"
  /\ arpmsg' = [arpmsg EXCEPT ![p] = "word"]
  /\ UNCHANGED <<arpcache, resolving>>

(* kill: the slot of the table gets a new process, its entry stays. *)
ResolverKilled(p) ==
  /\ resolving[p].at # "out"
  /\ resolving' = [resolving EXCEPT ![p] = NotResolving]
  /\ arpmsg' = [arpmsg EXCEPT ![p] = "none"]
  /\ UNCHANGED arpcache

ArpNext ==
  \/ \E p \in Resolvers :
       \/ \E a \in Hosts : ArpResolve(p, a)
       \/ ArpSent(p) \/ ArpTimeout(p) \/ ArpWake(p) \/ ArpOtherMessage(p) \/ ResolverKilled(p)
  \/ \E a \in Hosts : ArpInKnown(a) \/ ArpInNew(a)

ArpSpec == ArpInit /\ [][ArpNext]_arpVars

-----------------------------------------------------------------------------
(* Properties *)

(* An address has one entry at most, though entries are made by resolvers and
   by arp_in, thrown out and given up. *)
OneEntryPerAddress == \A a \in Hosts : \A s, t \in EntriesOf(a) : s = t

(* A resolved entry holds the hardware address of its host. *)
CacheTruthful == \A s \in Has("RESOLVED") : arpcache[s].arhaddr = arpcache[s].arpaddr

(* A process that is still without an answer has its pending entry: nothing
   another process, a packet or a kill did has taken it away, so that its last
   timeout frees its own entry, and an answer is sent to it. *)
WaiterOwnsEntry ==
  \A p \in Resolvers : resolving[p].at # "out" /\ arpmsg[p] = "none" =>
    LET e == arpcache[resolving[p].slot] IN
    e.arstate = "PENDING" /\ e.arpid = p /\ e.arpaddr = resolving[p].addr

(* The cache, between resolvers, arriving packets, timeouts and kills. *)
CacheSound == OneEntryPerAddress /\ CacheTruthful /\ WaiterOwnsEntry
=============================================================================
