-------------------------------- MODULE Icmp --------------------------------
(***************************************************************************)
(* ICMP echo (net/icmp.c, icmp.h): a table of slots, each with a ring of   *)
(* replies, filled by icmp_in (in netin) and emptied by icmp_recv.  The    *)
(* rings are modelled index by index: the tail wraps at ICMP_QSIZ, the     *)
(* head at ICMP_SLOTS, and nothing tests for a full ring.                  *)
(***************************************************************************)
EXTENDS Integers, Sequences, FiniteSets, FiniteSetsExt, SequencesExt

CONSTANTS
  Pingers,     \* processes
  Remotes,     \* remote addresses
  Replies,     \* what a reply may carry
  ICMP_SLOTS, ICMP_QSIZ

ASSUME IcmpSizes ==
  /\ ICMP_SLOTS \in Nat \ {0} /\ ICMP_QSIZ \in Nat \ {0} /\ ICMP_QSIZ <= ICMP_SLOTS
  /\ "none" \notin Pingers

VARIABLES
  icmptab,     \* [0..ICMP_SLOTS - 1]: [icstate, icremip, ichead, ictail, iccount, icpid, icqueue]
  icunread,    \* the replies of each slot not yet received, in order of arrival
  icsince,     \* the number of replies to each slot since it was registered,
               \*   counted up to ICMP_QSIZ + 1
  pingcall,    \* [Pingers]: the slot icmp_recv waits for, or -1
  pingmsg,     \* [Pingers]: "none", "OK" (from icmp_in) or "word"
  icwild,      \* a word that is no stored reply was taken for one
  icdisturbed  \* a process was killed in icmp_recv, or another took from or released
               \*   its slot meanwhile
icmpVars == <<icmptab, icunread, icsince, pingcall, pingmsg, icwild, icdisturbed>>

IcmpSlots == 0..(ICMP_SLOTS - 1)
RingIdx == 0..(ICMP_QSIZ - 1)
Unused == [icstate |-> "FREE", icremip |-> "none", ichead |-> 0, ictail |-> 0,
           iccount |-> 0, icpid |-> "none", icqueue |-> [i \in RingIdx |-> "none"]]

IcmpInit ==
  /\ icmptab = [s \in IcmpSlots |-> Unused]
  /\ icunread = [s \in IcmpSlots |-> <<>>]
  /\ icsince = [s \in IcmpSlots |-> 0]
  /\ pingcall = [p \in Pingers |-> -1]
  /\ pingmsg = [p \in Pingers |-> "none"]
  /\ icwild = FALSE /\ icdisturbed = FALSE

InUse == {s \in IcmpSlots : icmptab[s].icstate # "FREE"}

(* An echo reply: the identifier is the slot, the sender must be its host. *)
ReplyFor(s, r) == s \in InUse /\ icmptab[s].icremip = r

ToldOfReply(e) == IF e.icstate = "RECV" THEN e.icpid ELSE "none"

IcmpIn(s, r, d) ==
  LET e == icmptab[s]
      t == e.ictail + 1
  IN
  /\ ~icwild /\ ReplyFor(s, r)
  /\ icmptab' = [icmptab EXCEPT ![s] =
       [e EXCEPT !.iccount = @ + 1, !.icqueue[e.ictail] = <<r, d>>,
                 !.ictail = IF t >= ICMP_QSIZ THEN 0 ELSE t,
                 !.icstate = "USED"]]
  /\ icunread' = [icunread EXCEPT ![s] = Append(@, <<icmptab[s].icremip, d>>)]
  /\ icsince' = [icsince EXCEPT ![s] = Min({@ + 1, ICMP_QSIZ + 1})]
  /\ e.iccount <= ICMP_QSIZ                         \* bound
  /\ pingmsg' = [p \in Pingers |-> IF p = ToldOfReply(e) /\ pingmsg[p] = "none"
                                   THEN "OK" ELSE pingmsg[p]]
  /\ UNCHANGED <<pingcall, icwild, icdisturbed>>

IndicesKept(e) == e                   \* fault: the ring is not reset
IndicesReset(e) == [e EXCEPT !.ichead = 0, !.ictail = 0]

(* icmp_register: the first free slot, unless the host has one.  (What is left
   in the ring is not cleared in the code, where it is not read again.) *)
IcmpRegister(p, r) ==
  LET s == Min(IcmpSlots \ InUse) IN
  /\ ~icwild /\ pingcall[p] = -1
  /\ InUse # IcmpSlots /\ \A t \in InUse : icmptab[t].icremip # r
  /\ icmptab' = [icmptab EXCEPT ![s] =
       IndicesReset([@ EXCEPT !.icstate = "USED", !.icremip = r, !.iccount = 0,
                              !.icpid = "none", !.icqueue = Unused.icqueue])]
  /\ icsince' = [icsince EXCEPT ![s] = 0]
  /\ UNCHANGED <<icunread, pingcall, pingmsg, icwild, icdisturbed>>

(* The head moves on, and wraps where the table ends, not the ring. *)
NextHead(h) == IF h + 1 >= ICMP_SLOTS THEN 0 ELSE h + 1

(* icmp_recv from the end of its wait on *)
TakeReply(s) ==
  LET e == icmptab[s] IN
  IF e.ichead \notin RingIdx \/ icunread[s] = <<>>
  THEN /\ icwild' = TRUE
       /\ UNCHANGED <<icmptab, icunread>>
  ELSE /\ icmptab' = [icmptab EXCEPT ![s].ichead = NextHead(@), ![s].iccount = @ - 1,
                                     ![s].icstate = "USED"]
       /\ icunread' = [icunread EXCEPT ![s] = Tail(@)]
       /\ UNCHANGED icwild

(* Some process is in icmp_recv for s.  Once icmp_in has a reply for it the slot
   is "USED", and open to other calls until that process runs. *)
Awaited(s) == \E q \in Pingers : pingcall[q] = s

IcmpRecv(p, s) ==
  /\ ~icwild /\ pingcall[p] = -1
  /\ icmptab[s].icstate = "USED" /\ icmptab[s].iccount # 0
  /\ TakeReply(s)
  /\ icdisturbed' = (icdisturbed \/ Awaited(s))
  /\ UNCHANGED <<icsince, pingcall, pingmsg>>

IcmpRecvBlocks(p, s) ==
  /\ ~icwild /\ pingcall[p] = -1
  /\ icmptab[s].icstate = "USED" /\ icmptab[s].iccount = 0
  /\ icmptab' = [icmptab EXCEPT ![s].icstate = "RECV", ![s].icpid = p]
  /\ pingcall' = [pingcall EXCEPT ![p] = s]
  /\ pingmsg' = [pingmsg EXCEPT ![p] = "none"]
  /\ UNCHANGED <<icunread, icsince, icwild, icdisturbed>>

(* recvtime returns a message: whatever has become of the slot, it is in use from
   now on ... *)
IcmpRecvWakes(p) ==
  LET s == pingcall[p] IN
  /\ ~icwild /\ s # -1 /\ pingmsg[p] # "none"
  /\ pingcall' = [pingcall EXCEPT ![p] = -1]
  /\ pingmsg' = [pingmsg EXCEPT ![p] = "none"]
  /\ IF pingmsg[p] = "OK" THEN TakeReply(s)
     ELSE /\ icmptab' = [icmptab EXCEPT ![s].icstate = "USED"]
          /\ UNCHANGED <<icunread, icwild>>
  /\ UNCHANGED <<icsince, icdisturbed>>

(* ... or TIMEOUT. *)
IcmpRecvTimeout(p) ==
  /\ ~icwild /\ pingcall[p] # -1 /\ pingmsg[p] = "none"
  /\ icmptab' = [icmptab EXCEPT ![pingcall[p]].icstate = "USED"]
  /\ pingcall' = [pingcall EXCEPT ![p] = -1]
  /\ UNCHANGED <<icunread, icsince, pingmsg, icwild, icdisturbed>>

(* icmp_release: refused while a receiver waits that has no reply yet.  The
   replies are freed from the head on; a word behind the ring is freed as if it
   were one. *)
IcmpRelease(p, s) ==
  LET e == icmptab[s] IN
  /\ ~icwild /\ pingcall[p] = -1
  /\ e.icstate = "USED"
  /\ icmptab' = [icmptab EXCEPT ![s].icstate = "FREE", ![s].iccount = 0,
                                ![s].ichead = (@ + e.iccount) % ICMP_SLOTS]
  /\ icunread' = [icunread EXCEPT ![s] = <<>>]
  /\ icwild' = (e.ichead + e.iccount > ICMP_QSIZ)
  /\ icdisturbed' = (icdisturbed \/ Awaited(s))
  /\ UNCHANGED <<icsince, pingcall, pingmsg>>

IcmpOtherMessage(p) ==
  /\ ~icwild /\ pingmsg[p] = "none"
  /\ pingmsg' = [pingmsg EXCEPT ![p] = "word"]
  /\ UNCHANGED <<icmptab, icunread, icsince, pingcall, icwild, icdisturbed>>

PingerKilled(p) ==
  /\ ~icwild /\ pingcall[p] # -1
  /\ pingcall' = [pingcall EXCEPT ![p] = -1]
  /\ pingmsg' = [pingmsg EXCEPT ![p] = "none"]
  /\ icdisturbed' = TRUE
  /\ UNCHANGED <<icmptab, icunread, icsince, icwild>>

IcmpNext ==
  \/ \E s \in IcmpSlots, r \in Remotes, d \in Replies : IcmpIn(s, r, d)
  \/ \E p \in Pingers :
       \/ \E r \in Remotes : IcmpRegister(p, r)
       \/ \E s \in IcmpSlots : IcmpRecv(p, s) \/ IcmpRecvBlocks(p, s) \/ IcmpRelease(p, s)
       \/ IcmpRecvWakes(p) \/ IcmpRecvTimeout(p) \/ IcmpOtherMessage(p) \/ PingerKilled(p)

IcmpSpec == IcmpInit /\ [][IcmpNext]_icmpVars

-----------------------------------------------------------------------------
(* Properties *)

(* From the head on, the ring holds the replies not yet received in the order
   of arrival, all from the host of the slot, through registrations, releases
   and timeouts, as long as no more than ICMP_QSIZ have come. *)
RingHoldsUnread ==
  \A s \in InUse :
    LET e == icmptab[s] IN
    ~icwild /\ icsince[s] <= ICMP_QSIZ =>
      /\ e.iccount = Len(icunread[s])
      /\ \A i \in DOMAIN icunread[s] :
           e.ichead + i - 1 \in RingIdx /\ icunread[s][i] = e.icqueue[e.ichead + i - 1]

(* icmp_recv and icmp_release stay inside the ring and find a reply in it, as
   long as no slot has had more than ICMP_QSIZ, no receiver was killed, and no
   other process took a receiver's reply before it ran, or released its slot. *)
RingKept == icwild => icdisturbed \/ \E s \in IcmpSlots : icsince[s] > ICMP_QSIZ

(* While a receiver has not been told, there is no reply for it, and the slot
   names it; with the same exceptions but the first. *)
NoReplyMissed ==
  \A p \in Pingers : pingcall[p] # -1 /\ pingmsg[p] = "none" /\ ~icwild /\ ~icdisturbed =>
    LET e == icmptab[pingcall[p]] IN e.icstate = "RECV" /\ e.icpid = p /\ e.iccount = 0

(* The rings of replies, between netin and the processes that ping. *)
PingsSound == RingHoldsUnread /\ RingKept /\ NoReplyMissed
=============================================================================
