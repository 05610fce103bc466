-------------------------------- MODULE Tftp --------------------------------
(***************************************************************************)
(* The TFTP client (net/tftp.c): tftpget_mb asks a server for a file and   *)
(* spreads it over a list of buffers.  The network may lose, repeat, delay *)
(* and reorder: a packet once sent can arrive at any later time, or never. *)
(* A request that arrives twice starts a second transfer, from a port of   *)
(* its own.                                                                *)
(***************************************************************************)
EXTENDS Integers, Sequences, FiniteSets, FiniteSetsExt, SequencesExt

CONSTANTS
  TFTP_MAXDATA,      \* bytes in a full packet
  TFTP_MAXRETRIES,
  TFTP_BLOCKS,       \* block numbers are 16 bits wide: 2^16
  FileSizes,         \* the sizes of the file on the server
  BufferLists,       \* the lists of sizes of the caller's buffers
  TransferPorts,     \* the server's ports for transfers
  StrayPort          \* a port of another program on the server's host

(* A call with no buffer, or with a buffer of no bytes, is refused; the file has at most
   as many blocks as there are block numbers. *)
ASSUME TftpSizes ==
  /\ TFTP_MAXDATA \in Nat \ {0} /\ TFTP_MAXRETRIES \in Nat \ {0} /\ TFTP_BLOCKS \in Nat \ {0}
  /\ \A n \in FileSizes : n \in Nat /\ n \div TFTP_MAXDATA < TFTP_BLOCKS
  /\ \A s \in BufferLists : s \in Seq(Nat \ {0}) /\ s # <<>>

TFTP_PORT == "69"
SYSERR == -1
NoResult == -2

VARIABLES
  tffile,      \* the bytes of the file
  tfat,        \* the client: "idle", "sends", "waits" or "returned"
  tfexpected,  \* the block expected next
  tftries,
  tfremport,   \* where the next packet goes: the port the last one came from
  tfsizes, tfbufs, \* the buffers: how much they can hold, and what they hold
  tfcur,       \* [ind, used, size, full]: the buffer being filled
  tfresult,    \* what tftpget_mb returned
  tfrequested, \* a request has been sent to TFTP_PORT
  tfacks,      \* the <<port, block>> of the acknowledgements sent
  tfsent       \* [TransferPorts]: the last block the server sent from there

clientVars == <<tfat, tfexpected, tftries, tfremport, tfbufs, tfcur, tfresult>>
tftpVars == <<tffile, tfsizes, clientVars, tfrequested, tfacks, tfsent>>

TftpInit ==
  /\ tffile = <<>> /\ tfsizes = <<>> /\ tfbufs = <<>>
  /\ tfat = "idle" /\ tfexpected = 1 /\ tftries = 0 /\ tfremport = TFTP_PORT
  /\ tfcur = [ind |-> 1, used |-> 0, size |-> 0, full |-> FALSE]
  /\ tfresult = NoResult
  /\ tfrequested = FALSE /\ tfacks = {}
  /\ tfsent = [p \in TransferPorts |-> 0]

-----------------------------------------------------------------------------
(* The server *)

(* The data of block k; the last block is not full, perhaps empty. *)
BlockData(k) ==
  SubSeq(tffile, (k - 1) * TFTP_MAXDATA + 1, Min({k * TFTP_MAXDATA, Len(tffile)}))
LastBlock == Len(tffile) \div TFTP_MAXDATA + 1

TftpServerStarts(p) ==
  /\ tfrequested /\ tfsent[p] = 0
  /\ tfsent' = [tfsent EXCEPT ![p] = 1]
  /\ UNCHANGED <<tffile, tfsizes, clientVars, tfrequested, tfacks>>

TftpServerGoesOn(p) ==
  /\ <<p, tfsent[p] % TFTP_BLOCKS>> \in tfacks /\ tfsent[p] < LastBlock
  /\ tfsent' = [tfsent EXCEPT ![p] = @ + 1]
  /\ UNCHANGED <<tffile, tfsizes, clientVars, tfrequested, tfacks>>

-----------------------------------------------------------------------------
(* The client *)

(* A call of tftpget_mb, for a file and buffers of some sizes *)
TftpCall ==
  /\ tfat = "idle"
  /\ tfat' = "sends"
  /\ tffile' \in {[i \in 1..n |-> i] : n \in FileSizes}
  /\ tfsizes' \in BufferLists
  /\ tfbufs' = [i \in DOMAIN tfsizes' |-> <<>>]
  /\ UNCHANGED <<tfexpected, tftries, tfremport, tfcur, tfresult,
                 tfrequested, tfacks, tfsent>>

(* tftp_send1: the request, or the acknowledgement of the last block, is sent
   again each time, to wherever the last packet came from. *)
TftpSend1 ==
  /\ tfat = "sends"
  /\ tfat' = "waits"
  /\ tfrequested' = (tfrequested \/ (tfexpected = 1 /\ tfremport = TFTP_PORT))
  /\ tfacks' = IF tfexpected = 1 THEN tfacks
               ELSE tfacks \union {<<tfremport, (tfexpected - 1) % TFTP_BLOCKS>>}
  /\ UNCHANGED <<tffile, tfsizes, tfexpected, tftries, tfremport, tfbufs, tfcur, tfresult, tfsent>>

Returned(r) == tfat' = "returned" /\ tfresult' = r

TftpTimeout ==
  /\ tfat = "waits"
  /\ IF tftries + 1 < TFTP_MAXRETRIES
     THEN tfat' = "sends" /\ tftries' = tftries + 1 /\ UNCHANGED tfresult
     ELSE Returned(SYSERR) /\ UNCHANGED tftries
  /\ UNCHANGED <<tffile, tfsizes, tfexpected, tfremport, tfbufs, tfcur, tfrequested, tfacks, tfsent>>

(* An error packet; or a UDP call fails. *)
TftpFails ==
  /\ tfat \in {"idle", "sends", "waits"}
  /\ Returned(SYSERR)
  /\ UNCHANGED <<tffile, tfsizes, tfexpected, tftries, tfremport, tfbufs, tfcur,
                 tfrequested, tfacks, tfsent>>

(* udp_recvaddr stores the sender's port before anything is checked. *)
TftpIgnores(p) ==
  /\ tfat = "waits"
  /\ tfremport' = p
  /\ UNCHANGED <<tffile, tfsizes, tfat, tfexpected, tftries, tfbufs, tfcur, tfresult,
                 tfrequested, tfacks, tfsent>>

AnyBlock(num) == TRUE                     \* fault: the block number is not compared
IsExpected(num) == num = tfexpected % TFTP_BLOCKS

(* One byte of a block: into the next buffer when this one is full; after the
   last buffer the transfer ends. *)
StoreByte(s, b) ==
  LET move == s.cur.used >= tfsizes[s.cur.ind]
      to   == IF move THEN s.cur.ind + 1 ELSE s.cur.ind
  IN
  IF s.cur.full THEN s
  ELSE IF to > Len(tfsizes) THEN [s EXCEPT !.cur.full = TRUE]
  ELSE [bufs |-> [s.bufs EXCEPT ![to] = Append(@, b)],
        cur  |-> [ind |-> to, used |-> IF move THEN 1 ELSE s.cur.used + 1,
                  size |-> s.cur.size + 1, full |-> FALSE]]

StoredBlock(data) ==
  LET stored[i \in 0..Len(data)] ==
        IF i = 0 THEN [bufs |-> tfbufs, cur |-> tfcur] ELSE StoreByte(stored[i - 1], data[i])
  IN  stored[Len(data)]

TftpAccepts(p, data) ==
  LET s == StoredBlock(data) IN
  /\ tfat = "waits"
  /\ tfremport' = p
  /\ tfbufs' = s.bufs /\ tfcur' = s.cur
  /\ IF s.cur.full
     THEN /\ Returned(s.cur.size)                     \* without an acknowledgement
          /\ UNCHANGED <<tfexpected, tftries, tfacks>>
     ELSE IF Len(data) < TFTP_MAXDATA
     THEN /\ tfacks' = tfacks \union {<<p, tfexpected % TFTP_BLOCKS>>}
          /\ tfat' = "returned" /\ tfresult' \in {s.cur.size, SYSERR}
          /\ UNCHANGED <<tfexpected, tftries>>
     ELSE /\ tfexpected' = tfexpected + 1
          /\ tftries' = 0
          /\ tfat' = "sends"
          /\ UNCHANGED <<tfresult, tfacks>>
  /\ UNCHANGED <<tffile, tfsizes, tfrequested, tfsent>>

TftpReceives(p, k) ==
  /\ k <= tfsent[p]
  /\ IF IsExpected(k % TFTP_BLOCKS) THEN TftpAccepts(p, BlockData(k))
     ELSE TftpIgnores(p)

TftpNext ==
  \/ TftpCall \/ TftpSend1 \/ TftpTimeout \/ TftpFails \/ TftpIgnores(StrayPort)
  \/ \E p \in TransferPorts : \/ TftpServerStarts(p) \/ TftpServerGoesOn(p)
                              \/ \E k \in 1..LastBlock : TftpReceives(p, k)

TftpSpec == TftpInit /\ [][TftpNext]_tftpVars

-----------------------------------------------------------------------------
(* What has been received is the beginning of the file, in order and without a
   gap across buffers and blocks, whatever was lost or came twice, from
   whichever transfer; and a size is returned only when the file is complete
   or the buffers are full.  (A file has at most TFTP_BLOCKS blocks.) *)
TransferSound ==
  LET got == FlattenSeq(tfbufs) IN
  /\ IsPrefix(got, tffile)
  /\ \A i \in DOMAIN tfbufs : \A j \in 1..(i - 1) : tfbufs[i] # <<>> => Len(tfbufs[j]) = tfsizes[j]
  /\ tfresult \notin {NoResult, SYSERR} =>
       /\ tfresult = Len(got)
       /\ got = tffile \/ \A i \in DOMAIN tfbufs : Len(tfbufs[i]) = tfsizes[i]
=============================================================================
