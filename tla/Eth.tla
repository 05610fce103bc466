-------------------------------- MODULE Eth ---------------------------------
(***************************************************************************)
(* The Ethernet driver (device/eth): the receive and the transmit ring,    *)
(* shared by the adapter, the interrupt handler, netin, which reads, and   *)
(* the writers.  Most writers call with interrupts disabled; ipout and     *)
(* netin's reads can be interrupted, and overtaken, between any two steps. *)
(***************************************************************************)
EXTENDS SemaphoreOps, FiniteSets

CONSTANTS
  RxRingSize, TxRingSize,
  BOUNDARY,    \* E1000_RING_BOUNDARY: by which the receive tail register moves
  EthWriters   \* processes that write with interrupts disabled

IPOUT == "ipout"

ASSUME EthSizes ==
  /\ BOUNDARY \in Nat \ {0} /\ TxRingSize \in Nat \ {0}
  /\ RxRingSize \in Nat /\ RxRingSize % BOUNDARY = 0 /\ RxRingSize >= 2 * BOUNDARY
  /\ IsFiniteSet(EthWriters) /\ IPOUT \notin EthWriters

VARIABLES
  rxstat,      \* [receive descriptors]: 0, or the number of the frame in it
  rdh, rdt,    \* the adapter fills the descriptors from rdh to before rdt
  rxHead, rxTail, isem,
  rxreader,    \* netin in ethread: "out", "wait", "clear", "advance"
  rxarrived,   \* frames that have arrived, and frames read, modulo RxRingSize + 1
  rxread,
  rxlost,      \* a reader found no frame
  txdesc,      \* [transmit descriptors]: "clean", "filled" or "done" (DD)
  tdh, tdt,    \* the adapter sends the descriptors from tdh to before tdt
  txHead, txTail, osem,
  txwriter,    \* [EthWriters]: "out" or "wait"
  outat,     \* ipout in ethwrite: <<"out" or "wait" or "fill" or "advance", tail>>
  txraced      \* a writer overtook ipout between its look at the tail and its advance
rxVars == <<rxstat, rdh, rdt, rxHead, rxTail, isem, rxreader, rxarrived, rxread, rxlost>>
txVars == <<txdesc, tdh, tdt, txHead, txTail, osem, txwriter, outat, txraced>>

RxIdx == 0..(RxRingSize - 1)
TxIdx == 0..(TxRingSize - 1)
NextFrame(n) == (n % (RxRingSize + 1)) + 1

RxInit ==
  /\ rxstat = [i \in RxIdx |-> 0]
  /\ rdh = 0 /\ rdt = RxRingSize - BOUNDARY
  /\ rxHead = 0 /\ rxTail = 0 /\ isem = NewSem(0)
  /\ rxreader = "out" /\ rxarrived = 0 /\ rxread = 0 /\ rxlost = FALSE

TxInit ==
  /\ txdesc = [i \in TxIdx |-> "clean"]
  /\ tdh = 0 /\ tdt = 0
  /\ txHead = 0 /\ txTail = 0 /\ osem = NewSem(TxRingSize)
  /\ txwriter = [w \in EthWriters |-> "out"]
  /\ outat = <<"out", 0>> /\ txraced = FALSE

-----------------------------------------------------------------------------
(* Receiving *)

(* The adapter stores a frame; without a free descriptor it would drop it. *)
RxFrame ==
  /\ rdh # rdt
  /\ rxstat' = [rxstat EXCEPT ![rdh] = NextFrame(rxarrived)]
  /\ rdh' = (rdh + 1) % RxRingSize
  /\ rxarrived' = NextFrame(rxarrived)
  /\ UNCHANGED <<rdt, rxHead, rxTail, isem, rxreader, rxread, rxlost>>

(* The descriptors from the tail on that hold frames, as eth_rxPackets counts
   them: up to the first that does not, or once around the ring. *)
RxNew == CHOOSE n \in 0..RxRingSize :
           /\ \A k \in 0..(n - 1) : rxstat[(rxTail + k) % RxRingSize] # 0
           /\ n = RxRingSize \/ rxstat[(rxTail + n) % RxRingSize] = 0

TailAfter(n) == (rxTail + n) % RxRingSize

(* ethhandler, receive interrupt: rescheduling is deferred, so that the reader
   runs only when all are counted.  signaln refuses a count of 0. *)
EthRxInterrupt ==
  /\ rxTail' = TailAfter(RxNew)
  /\ isem' = IF RxNew > 0 THEN SignalN(isem, RxNew) ELSE isem
  /\ UNCHANGED <<rxstat, rdh, rdt, rxHead, rxreader, rxarrived, rxread, rxlost>>

(* ethread, by netin *)
EthRead ==
  /\ rxreader = "out"
  /\ IF Passes(isem) THEN isem' = Take(isem) /\ rxreader' = "clear"
     ELSE isem' = Blocks(isem, "netin") /\ rxreader' = "wait"
  /\ UNCHANGED <<rxstat, rdh, rdt, rxHead, rxTail, rxarrived, rxread, rxlost>>

(* The frame is copied and the descriptor cleared. *)
EthReadCopies ==
  /\ rxreader \in {"wait", "clear"} /\ ~WaitsAt("netin", isem)
  /\ rxread' = IF rxstat[rxHead] # 0 THEN rxstat[rxHead] ELSE rxread
  /\ rxlost' = (rxlost \/ rxstat[rxHead] = 0)
  /\ rxstat' = [rxstat EXCEPT ![rxHead] = 0]
  /\ rxreader' = "advance"
  /\ UNCHANGED <<rdh, rdt, rxHead, rxTail, isem, rxarrived>>

AtEveryRead(h) == TRUE                \* fault: the tail register moves at every read
AtBoundary(h) == h % BOUNDARY = 0

(* Cleared descriptors are given to the adapter, BOUNDARY at a time. *)
EthReadAdvances ==
  /\ rxreader = "advance"
  /\ rdt' = IF AtBoundary(rxHead) THEN (rdt + BOUNDARY) % RxRingSize ELSE rdt
  /\ rxHead' = (rxHead + 1) % RxRingSize
  /\ rxreader' = "out"
  /\ UNCHANGED <<rxstat, rdh, rxTail, isem, rxarrived, rxread, rxlost>>

-----------------------------------------------------------------------------
(* Sending *)

(* The adapter sends the frame at its head, and marks it done. *)
TxFrame ==
  /\ tdh # tdt
  /\ txdesc' = [txdesc EXCEPT ![tdh] = "done"]
  /\ tdh' = (tdh + 1) % TxRingSize
  /\ UNCHANGED <<tdt, txHead, txTail, osem, txwriter, outat, txraced>>

Reclaims(d) == d = "done"
TxDone == CHOOSE n \in 0..TxRingSize :
            /\ \A k \in 0..(n - 1) : Reclaims(txdesc[(txHead + k) % TxRingSize])
            /\ n = TxRingSize \/ ~Reclaims(txdesc[(txHead + n) % TxRingSize])

(* ethhandler, transmit interrupt: descriptors that are done are cleaned. *)
EthTxInterrupt ==
  /\ TxDone > 0
  /\ txdesc' = [i \in TxIdx |->
                 IF \E k \in 0..(TxDone - 1) : i = (txHead + k) % TxRingSize
                 THEN "clean" ELSE txdesc[i]]
  /\ txHead' = (txHead + TxDone) % TxRingSize
  /\ osem' = SignalN(osem, TxDone)
  /\ UNCHANGED <<tdh, tdt, txTail, txwriter, outat, txraced>>

FillAt(t) == txdesc' = [txdesc EXCEPT ![t] = "filled"]
Overtakes == txraced' = (txraced \/ outat[1] \in {"fill", "advance"})
AdvanceTail ==
  /\ tdt' = (tdt + 1) % TxRingSize
  /\ txTail' = (txTail + 1) % TxRingSize

(* ethwrite with interrupts disabled: it can lose the processor in wait only. *)
EthWrite(w) ==
  /\ txwriter[w] = "out" /\ Passes(osem)
  /\ osem' = Take(osem) /\ FillAt(txTail) /\ AdvanceTail /\ Overtakes
  /\ UNCHANGED <<tdh, txHead, txwriter, outat>>

EthWriteBlocks(w) ==
  /\ txwriter[w] = "out" /\ ~Passes(osem)
  /\ osem' = Blocks(osem, w)
  /\ txwriter' = [txwriter EXCEPT ![w] = "wait"]
  /\ UNCHANGED <<txdesc, tdh, tdt, txHead, txTail, outat, txraced>>

EthWriteRest(w) ==
  /\ txwriter[w] = "wait" /\ ~WaitsAt(w, osem)
  /\ txwriter' = [txwriter EXCEPT ![w] = "out"]
  /\ FillAt(txTail) /\ AdvanceTail /\ Overtakes
  /\ UNCHANGED <<tdh, txHead, osem, outat>>

(* ethwrite with interrupts enabled, by ipout *)
IpoutWrites ==
  /\ outat[1] = "out"
  /\ osem' = IF Passes(osem) THEN Take(osem) ELSE Blocks(osem, IPOUT)
  /\ outat' = <<"wait", 0>>
  /\ UNCHANGED <<txdesc, tdh, tdt, txHead, txTail, txwriter, txraced>>

IpoutLooksAtTail ==
  /\ outat[1] = "wait" /\ ~WaitsAt(IPOUT, osem)
  /\ outat' = <<"fill", txTail>>
  /\ UNCHANGED <<txdesc, tdh, tdt, txHead, txTail, osem, txwriter, txraced>>

IpoutFills ==
  /\ outat[1] = "fill"
  /\ FillAt(outat[2])
  /\ outat' = <<"advance", 0>>
  /\ UNCHANGED <<tdh, tdt, txHead, txTail, osem, txwriter, txraced>>

IpoutAdvances ==
  /\ outat[1] = "advance"
  /\ AdvanceTail
  /\ outat' = <<"out", 0>>
  /\ UNCHANGED <<txdesc, tdh, txHead, osem, txwriter, txraced>>

RxNext == RxFrame \/ EthRxInterrupt \/ EthRead \/ EthReadCopies \/ EthReadAdvances
TxNext ==
  \/ TxFrame \/ EthTxInterrupt
  \/ \E w \in EthWriters : EthWrite(w) \/ EthWriteBlocks(w) \/ EthWriteRest(w)
  \/ IpoutWrites \/ IpoutLooksAtTail \/ IpoutFills \/ IpoutAdvances

RxSpec == RxInit /\ [][RxNext]_rxVars
TxSpec == TxInit /\ [][TxNext]_txVars

-----------------------------------------------------------------------------
(* Properties *)

(* The adapter never stores a frame over one that has not been read: what it
   may fill is empty, however far it is ahead of the handler and the reader. *)
AdapterOwnsEmpty ==
  \A k \in 0..(RxRingSize - 1) :
    (\A j \in 0..k : (rdh + j) % RxRingSize # rdt) => rxstat[(rdh + k) % RxRingSize] = 0

(* ethread finds a frame whenever it gets past its wait: the handler counts
   each one once. *)
ReaderFindsFrame == ~rxlost

(* The descriptors from the head on hold the frames that come after the one
   that was read last, in the order in which they arrived, and none else. *)
FramesInOrder ==
  LET next == IF rxreader = "advance" THEN rxHead + 1 ELSE rxHead IN
  \A k \in RxIdx :
    LET f == rxstat[(next + k) % RxRingSize] IN
    f # 0 => f = ((rxread + k) % (RxRingSize + 1)) + 1

(* The units of osem and the writers let through never exceed the descriptors
   that are clean, whatever the order of writes, sends and interrupts; unless
   a writer has overtaken ipout in the middle of ethwrite. *)
WriterFindsRoom ==
  LET released == Cardinality({w \in EthWriters : txwriter[w] = "wait" /\ ~WaitsAt(w, osem)})
        + (IF outat[1] \in {"wait", "fill"} /\ ~WaitsAt(IPOUT, osem) THEN 1 ELSE 0)
  IN  ~txraced => released + (IF osem.count > 0 THEN osem.count ELSE 0)
                    <= Cardinality({i \in TxIdx : txdesc[i] = "clean"})

(* Both rings, between the adapter, the handler, the reader and the writers. *)
RingsSound == AdapterOwnsEmpty /\ ReaderFindsFrame /\ FramesInOrder /\ WriterFindsRoom
=============================================================================
