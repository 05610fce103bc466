-------------------------------- MODULE Lfs ---------------------------------
(***************************************************************************)
(* The local file system (device/lfs, lfilesys.h) on a disk that does not  *)
(* make its callers wait (device/ram): a directory, index blocks of        *)
(* LF_IBLEN data blocks each, and data blocks of LF_BLKSIZ bytes.  A call  *)
(* is then one step, since calls run with interrupts disabled and the      *)
(* mutexes are free; the operators below change the file system, as a      *)
(* record, in the order in which the functions of the same names do.       *)
(*                                                                         *)
(* Assumed: the disk has been formatted; lfscreate's disk, which has no    *)
(* identifier, is refused by lfscheck.                                     *)
(***************************************************************************)
EXTENDS Integers, Sequences, SequencesExt

CONSTANTS
  FileNames, LfDevs,          \* names; the Nlfl file pseudo-devices
  IBlocks, DBlocks,           \* i-blocks are 0..IBlocks - 1, d-blocks 0..DBlocks - 1
  LF_IBLEN, LF_BLKSIZ, LF_NUM_DIR_ENT,
  Bytes,                      \* what is written: any number but 0
  MaxSize                     \* bound: bytes in a file

ASSUME LfsSizes ==
  /\ IBlocks \in Nat /\ DBlocks \in Nat /\ MaxSize \in Nat
  /\ LF_IBLEN \in Nat \ {0} /\ LF_BLKSIZ \in Nat \ {0} /\ LF_NUM_DIR_ENT \in Nat

Null == -1                    \* LF_INULL and LF_DNULL
LF_IDATA == LF_IBLEN * LF_BLKSIZ
Filled == [i \in 0..(LF_BLKSIZ - 1) |-> 0]        \* DFILL

(* lfibclear *)
ClearIb(offset) == [next |-> Null, offset |-> offset, dba |-> [i \in 0..(LF_IBLEN - 1) |-> Null]]

VARIABLES
  fs,        \* ib, db, dir: the disk; mem, dirty: the directory in memory;
             \* out: within a call, that no block was free
  lf,        \* [LfDevs]: lfltab
  content,   \* history: what has been written to each file
  lfpanic    \* the system has stopped: no block was free
lfsVars == <<fs, lf, content, lfpanic>>

(* A d-block on the free list links the next; in a file, it has bytes. *)
Linked1(n) == [link |-> n, bytes |-> Filled]
Closed == [used |-> FALSE, name |-> "none", pos |-> 0, inum |-> Null, iblk |-> ClearIb(0), dnum |-> Null,
           dblk |-> Filled, byte |-> LF_BLKSIZ, ibdirty |-> FALSE, dbdirty |-> FALSE]
NoFiles == [n \in {} |-> 0]

(* lfscreate's free lists, lfsinit, lflinit *)
LfsInit ==
  /\ LET dir == [ifree |-> 0, dfree |-> 0, files |-> NoFiles] IN
     fs = [ib |-> [i \in 0..(IBlocks - 1) |-> [ClearIb(0) EXCEPT !.next = IF i = IBlocks - 1 THEN Null ELSE i + 1]],
           db |-> [d \in 0..(DBlocks - 1) |-> Linked1(IF d = DBlocks - 1 THEN Null ELSE d + 1)],
           dir |-> dir, mem |-> dir, dirty |-> FALSE, out |-> FALSE]
  /\ lf = [v \in LfDevs |-> Closed]
  /\ content = NoFiles /\ lfpanic = FALSE

-----------------------------------------------------------------------------
(* The functions on the file system f and the control block c of a device.   *)

WriteDir(f) == [f EXCEPT !.dir = f.mem, !.dirty = FALSE]

DirWritten(f) == IF f.dirty THEN WriteDir(f) ELSE f

Lfflush(f, c) ==
  LET f1 == DirWritten(f)
      f2 == IF c.dbdirty THEN [f1 EXCEPT !.db[c.dnum] = [link |-> Null, bytes |-> c.dblk]] ELSE f1
  IN IF c.ibdirty THEN [f2 EXCEPT !.ib[c.inum] = c.iblk] ELSE f2

Clean(c) == [c EXCEPT !.dbdirty = FALSE, !.ibdirty = FALSE]

(* lfiballoc, lfdballoc: the first of a free list is taken off, and the
   directory written; the system stops when the list is empty.             *)
Lfiballoc(f) ==
  IF f.mem.ifree = Null THEN [f EXCEPT !.out = TRUE]
  ELSE WriteDir([f EXCEPT !.mem.ifree = f.ib[f.mem.ifree].next])
Lfdballoc(f) ==
  IF f.mem.dfree = Null THEN [f EXCEPT !.out = TRUE]
  ELSE WriteDir([f EXCEPT !.mem.dfree = f.db[f.mem.dfree].link])

(* lfsetup, one part after the other: what is dirty is written, ... *)
NotFlushed(s) == s                            \* fault: it is not
Flushed(s) ==
  IF s.c.ibdirty \/ s.c.dbdirty THEN [f |-> Lfflush(s.f, s.c), c |-> Clean(s.c)] ELSE s

(* ... an i-block is in memory that is not behind the position, ... *)
IblockFirst(s) ==
  LET ilist == s.f.mem.files[s.c.name].ilist n == s.f.mem.ifree IN
  IF s.c.inum = Null /\ ilist = Null
  THEN [f |-> [Lfiballoc(s.f) EXCEPT !.mem.files[s.c.name].ilist = n],
        c |-> [s.c EXCEPT !.inum = n, !.iblk = ClearIb(0), !.ibdirty = TRUE]]
  ELSE IF s.c.inum = Null \/ s.c.pos < s.c.iblk.offset
  THEN [s EXCEPT !.c.inum = ilist, !.c.iblk = s.f.ib[ilist]]
  ELSE s

(* ... and covers the position, ... *)
RECURSIVE IblockCovers(_)
IblockCovers(s) ==
  LET next == s.c.iblk.next n == s.f.mem.ifree IN
  IF (s.c.pos \div LF_IDATA) * LF_IDATA <= s.c.iblk.offset \/ s.f.out THEN s
  ELSE IF next # Null
  THEN IblockCovers([s EXCEPT !.c.inum = next, !.c.iblk = s.f.ib[next], !.c.dnum = Null])
  ELSE IblockCovers(
         [f |-> [Lfiballoc(s.f) EXCEPT !.ib[s.c.inum] = [s.c.iblk EXCEPT !.next = n]],
          c |-> [s.c EXCEPT !.inum = n, !.iblk = ClearIb(s.c.iblk.offset + LF_IDATA), !.ibdirty = TRUE,
                            !.dnum = Null]])

(* ... and the d-block of the position is in memory. *)
DblockLoaded(s) ==
  LET dindex == (s.c.pos % LF_IDATA) \div LF_BLKSIZ
      dnum == s.c.iblk.dba[dindex]
      n == s.f.mem.dfree
  IN
  IF dnum = Null
  THEN [f |-> Lfdballoc(s.f),
        c |-> [s.c EXCEPT !.iblk.dba[dindex] = n, !.ibdirty = TRUE, !.dnum = n, !.dblk = Filled]]
  ELSE IF dnum # s.c.dnum
  THEN [s EXCEPT !.c.dnum = dnum, !.c.dblk = s.f.db[dnum].bytes, !.c.dbdirty = FALSE]
  ELSE s

Lfsetup(s) ==
  LET t == DblockLoaded(IblockCovers(IblockFirst(Flushed(s)))) IN
  [t EXCEPT !.c.byte = s.c.pos % LF_BLKSIZ]

(* What lflgetc and lflputc have before them: the byte at the position. *)
AtByte(s) == IF s.c.byte >= LF_BLKSIZ THEN Lfsetup(s) ELSE s

(* lfdbfree: the d-block is written with its link, and then the directory. *)
Lfdbfree(f, d) ==
  LET g == [f EXCEPT !.db[d] = Linked1(f.mem.dfree), !.mem.dfree = d] IN [g EXCEPT !.dir = g.mem]

LastLinked(f, next) == IF next = Null THEN f.mem.ifree ELSE next

(* lftruncate's loop over a file's i-blocks and the d-blocks of each. *)
RECURSIVE FreeIblocks(_, _)
FreeIblocks(f, n) ==
  IF n = f.mem.ifree \/ n = Null THEN f
  ELSE LET iblk == f.ib[n]
           next == LastLinked(f, iblk.next)
           g == FoldLeft(Lfdbfree, f, SelectSeq([i \in 1..LF_IBLEN |-> iblk.dba[i - 1]], LAMBDA d : d # Null))
       IN FreeIblocks([g EXCEPT !.ib[n] = [ClearIb(0) EXCEPT !.next = next]], next)

-----------------------------------------------------------------------------
(* The calls *)

Going == ~lfpanic
Known == DOMAIN fs.mem.files
OpenNames == {lf[v].name : v \in {v \in LfDevs : lf[v].used}}

(* lfsopen, for a file that exists or a new one; mode says what it must be. *)
Lfsopen(v, name, mode) ==
  /\ Going /\ ~lf[v].used /\ name \notin OpenNames
  /\ IF name \in Known
     THEN mode # "new" /\ UNCHANGED <<fs, content>>
     ELSE /\ mode # "old" /\ Cardinality(Known) < LF_NUM_DIR_ENT
          /\ fs' = [fs EXCEPT !.mem.files = (name :> [size |-> 0, ilist |-> Null]) @@ @]
          /\ content' = (name :> <<>>) @@ content
  /\ lf' = [lf EXCEPT ![v] = [Closed EXCEPT !.used = TRUE, !.name = name]]
  /\ UNCHANGED lfpanic

(* lflputc, which lflwrite calls for each byte *)
Lflputc(v, ch) ==
  LET c == lf[v]
      size == fs.mem.files[c.name].size
      s == AtByte([f |-> fs, c |-> c])
  IN
  /\ Going /\ c.used /\ c.pos <= size /\ c.pos < MaxSize
  /\ IF s.f.out
     THEN lfpanic' = TRUE /\ UNCHANGED <<fs, lf, content>>
     ELSE /\ fs' = IF c.pos >= size
                   THEN [s.f EXCEPT !.mem.files[c.name].size = @ + 1, !.dirty = TRUE] ELSE s.f
          /\ lf' = [lf EXCEPT ![v] = [s.c EXCEPT !.dblk[s.c.byte] = ch, !.byte = @ + 1, !.pos = @ + 1,
                                                 !.dbdirty = TRUE]]
          /\ content' = [content EXCEPT ![c.name] =
                           SubSeq(@, 1, c.pos) \o <<ch>> \o SubSeq(@, c.pos + 2, Len(@))]
          /\ UNCHANGED lfpanic

(* lflgetc, which lflread calls for each byte *)
Lflgetc(v) ==
  LET c == lf[v] s == AtByte([f |-> fs, c |-> c]) IN
  /\ Going /\ c.used /\ c.pos < fs.mem.files[c.name].size
  /\ fs' = s.f
  /\ lf' = [lf EXCEPT ![v] = [s.c EXCEPT !.byte = @ + 1, !.pos = @ + 1]]
  /\ UNCHANGED <<content, lfpanic>>

PointerOutside(c) == LF_BLKSIZ

Lflseek(v, offset) ==
  /\ Going /\ lf[v].used /\ offset <= fs.mem.files[lf[v].name].size
  /\ lf' = [lf EXCEPT ![v].pos = offset, ![v].byte = PointerOutside(lf[v])]
  /\ UNCHANGED <<fs, content, lfpanic>>

(* lflcontrol, lftruncate: the device is as after lfsopen (its buffers, which
   nothing looks at before they are read again, are taken to be cleared).   *)
Lftruncate(v) ==
  LET c == lf[v]
      first == fs.mem.files[c.name].ilist
      f == IF c.dbdirty \/ c.ibdirty THEN Lfflush(fs, c) ELSE fs
      emptied == [f EXCEPT !.mem.files[c.name] = [size |-> 0, ilist |-> Null]]
  IN
  /\ Going /\ c.used /\ fs.mem.files[c.name].size # 0
  /\ fs' = [FreeIblocks(emptied, first) EXCEPT !.mem.ifree = first, !.dirty = TRUE]
  /\ lf' = [lf EXCEPT ![v] = [Closed EXCEPT !.used = TRUE, !.name = c.name]]
  /\ content' = [content EXCEPT ![c.name] = <<>>]
  /\ UNCHANGED lfpanic

Lflclose(v) ==
  LET c == lf[v] IN
  /\ Going /\ c.used
  /\ fs' = IF fs.dirty \/ c.dbdirty \/ c.ibdirty THEN Lfflush(fs, c) ELSE fs
  /\ lf' = [lf EXCEPT ![v] = Closed]
  /\ UNCHANGED <<content, lfpanic>>

LfsNext ==
  \E v \in LfDevs :
    \/ \E name \in FileNames, mode \in {"old", "new", "any"} : Lfsopen(v, name, mode)
    \/ \E ch \in Bytes : Lflputc(v, ch)
    \/ Lflgetc(v)
    \/ \E offset \in 0..MaxSize : Lflseek(v, offset)
    \/ Lftruncate(v)
    \/ Lflclose(v)

LfsSpec == LfsInit /\ [][LfsNext]_lfsVars

-----------------------------------------------------------------------------
(* Properties *)

(* The i-blocks of a file, and the d-blocks of one list of i-blocks. *)
RECURSIVE Iblocks(_, _, _)
Iblocks(f, n, seen) == IF n = Null \/ n \in seen THEN <<>> ELSE <<n>> \o Iblocks(f, f.ib[n].next, seen \cup {n})

RECURSIVE FreeDblocks(_, _, _)
FreeDblocks(f, d, seen) == IF d = Null \/ d \in seen THEN <<>> ELSE <<d>> \o FreeDblocks(f, f.db[d].link, seen \cup {d})

DblocksOf(f, n) == FlattenSeq([i \in 1..Len(Iblocks(f, n, {})) |->
                     LET iblk == f.ib[Iblocks(f, n, {})[i]] IN [j \in 1..LF_IBLEN |-> iblk.dba[j - 1]]])

(* The bytes of a file with this entry, as the blocks on the disk hold them. *)
FileBytes(f, entry) ==
  LET blocks == DblocksOf(f, entry.ilist) IN
  [p \in 1..entry.size |-> f.db[blocks[(p - 1) \div LF_BLKSIZ + 1]].bytes[(p - 1) % LF_BLKSIZ]]

(* What the disk would hold if every open file were flushed. *)
AllFlushed == FoldSet(LAMBDA v, f : Lfflush(f, lf[v]), fs, {v \in LfDevs : lf[v].used})

(* Every file holds what has been written to it, at the place it was written
   to, whatever was sought, read, truncated and written in between and in the
   other files.                                                             *)
FileHoldsWritten == \A name \in Known : FileBytes(AllFlushed, fs.mem.files[name]) = content[name]

(* A file that has been closed is on the disk as written, whatever is going on
   in the other files: a machine that stops now would still have it.        *)
ClosedIsOnDisk ==
  \A name \in Known \ OpenNames : content[name] # <<>> =>
    name \in DOMAIN fs.dir.files /\ FileBytes(fs, fs.dir.files[name]) = content[name]

(* Every i-block and every d-block is in one file or on the free list, once:
   the system stops only when the files have them all.                      *)
BlocksOnce ==
  LET f == AllFlushed
      files == SetToSeq(Known)
      ib == Iblocks(f, f.mem.ifree, {}) \o FlattenSeq([i \in 1..Len(files) |-> Iblocks(f, f.mem.files[files[i]].ilist, {})])
      db == FreeDblocks(f, f.mem.dfree, {}) \o
            SelectSeq(FlattenSeq([i \in 1..Len(files) |-> DblocksOf(f, f.mem.files[files[i]].ilist)]), LAMBDA d : d # Null)
  IN /\ Len(ib) = IBlocks /\ ToSet(ib) = 0..(IBlocks - 1)
     /\ Len(db) = DBlocks /\ ToSet(db) = 0..(DBlocks - 1)

(* The pointer into the d-block in memory is at the file's position, or outside
   of the block so that the next call looks for the position.               *)
PointerAtPosition ==
  \A v \in LfDevs : lf[v].used /\ lf[v].byte < LF_BLKSIZ =>
    /\ lf[v].byte = lf[v].pos % LF_BLKSIZ
    /\ lf[v].iblk.dba[(lf[v].pos % LF_IDATA) \div LF_BLKSIZ] = lf[v].dnum
    /\ lf[v].iblk.offset = (lf[v].pos \div LF_IDATA) * LF_IDATA

(* The local file system, in memory and on the disk. *)
FilesSound == FileHoldsWritten /\ ClosedIsOnDisk /\ BlocksOnce /\ PointerAtPosition
=============================================================================
