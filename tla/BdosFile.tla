------------------------------ MODULE BdosFile ------------------------------
(***************************************************************************)
(* The file system of the BDOS (src/src/cpm/cpm22.asm): the directory and   *)
(* the data of one drive, the allocation vector and the directory          *)
(* high-water mark the BDOS keeps in memory while the drive is logged in,  *)
(* and the file control blocks (FCBs) in the memory of the program.        *)
(*                                                                         *)
(* A BDOS call runs to its end before the next one starts, but it may      *)
(* write the disk several times, and the machine may be reset between any  *)
(* two of those writes.  A call that writes more than once is therefore a  *)
(* chain of actions: io holds the progress of a record transfer, scan the  *)
(* progress of a call that walks the directory (erase, rename, set         *)
(* attributes).  Every other call is one action.                           *)
(*                                                                         *)
(* wr and synced are history variables: what the program has written, and  *)
(* which of those records the directory is known to record.                *)
(***************************************************************************)
EXTENDS Integers, FiniteSets

CONSTANTS
  Name,         \* file names (drive and user number included)
  Fcb,          \* the addresses of the FCBs in the program's memory
  Value,        \* contents of a 128 byte record
  NoValue,      \* "this record was never written"
  Zero,         \* the record of zeros that function 40 fills a block with
  NumBlock,     \* DSKSIZE+1: the blocks are 0..NumBlock-1
  NumDirBlock,  \* blocks 0..NumDirBlock-1 hold the directory (ALLOC0)
  NumDir,       \* DIRSIZE+1: the directory entries are 0..NumDir-1
  FirstMark,    \* first value of the high-water mark (3 in BITMAP)
  RecsPerBlock, \* BLKMASK+1
  RecsPerExt,   \* 128 in the code
  ExtPerEntry,  \* EXTMASK+1
  NumExt,       \* 512 in the code: 5 bits in EX and 4 bits in S2
  StaleSeek     \* may a program use random I/O on an FCB whose sequential
                \* I/O has just failed to open the next extent?

ASSUME SizeAssumption ==
  /\ NumBlock \in Nat /\ NumDirBlock \in Nat /\ 0 < NumDirBlock
  /\ NumDirBlock <= NumBlock
  /\ NumDir \in Nat \ {0} /\ FirstMark \in Nat
  /\ RecsPerBlock \in Nat \ {0} /\ RecsPerExt \in Nat \ {0}
  /\ ExtPerEntry \in Nat \ {0} /\ NumExt \in Nat \ {0}
  /\ RecsPerExt % RecsPerBlock = 0 /\ NumExt % ExtPerEntry = 0
ASSUME ValueAssumption == Zero \in Value /\ NoValue \notin Value
ASSUME NameAssumption == Name # {} /\ Fcb # {} /\ StaleSeek \in BOOLEAN

Block    == 0..NumBlock-1
DirBlock == 0..NumDirBlock-1
Dir      == 0..NumDir-1
Ext      == 0..NumExt-1
Rec      == 0..RecsPerExt-1
BlocksPerExt == RecsPerExt \div RecsPerBlock
SlotIdx  == 0..ExtPerEntry*BlocksPerExt-1

VARIABLES
  dir,     \* on disk: the directory entries
  data,    \* on disk: the records of the data blocks
  alloc,   \* in memory: the blocks marked used in the allocation vector
  mark,    \* in memory: SCRATCH1, entries at or above it are not searched
  wp,      \* in memory: the drive's bit of WRTPRT
  logged,  \* in memory: the drive's bit of LOGIN
  fcb,     \* in memory: the FCBs of the program
  io,      \* the record transfer in progress
  scan,    \* the directory walk in progress
  wr,      \* history: the value last written to each record of each file
  synced   \* history: the written records that the directory records

disk == <<dir, data>>
ram  == <<alloc, mark, wp, logged>>
hist == <<wr, synced>>
vars == <<disk, ram, fcb, io, scan, hist>>
-----------------------------------------------------------------------------
(* Directory entries and FCBs.  Block number 0 in a slot means "no block":  *)
(* block 0 holds the directory.  The extent byte and the S2 byte are one    *)
(* extent number; bit 7 of S2 is dirty (inverted: the bit says "not         *)
(* modified"), and bad stands for an S2 byte no directory entry has.        *)

NoBlk == [i \in SlotIdx |-> 0]
SomeName == CHOOSE n \in Name : TRUE

EntryType == [live: BOOLEAN, name: Name, ext: Ext, rc: 0..RecsPerExt,
              blk: [SlotIdx -> Block], ro: BOOLEAN]
Erased == [live |-> FALSE, name |-> SomeName, ext |-> 0, rc |-> 0,
           blk |-> NoBlk, ro |-> FALSE]

\* eof and over are history fields.  eof: GETNEXT has moved the extent number
\* on, but the block numbers are still those of the extent before.  over: since
\* the last write, error 6 has marked the FCB as not modified.
FcbType == [open: BOOLEAN, name: Name, ext: Ext, rc: 0..RecsPerExt,
            blk: [SlotIdx -> Block], cr: 0..RecsPerExt, ro: BOOLEAN,
            dirty: BOOLEAN, bad: BOOLEAN, eof: BOOLEAN, over: BOOLEAN]
Unused == [open |-> FALSE, name |-> SomeName, ext |-> 0, rc |-> 0,
           blk |-> NoBlk, cr |-> 0, ro |-> FALSE,
           dirty |-> FALSE, bad |-> FALSE, eof |-> FALSE, over |-> FALSE]

IoOp   == {"readSeq", "writeSeq", "readRan", "writeRan", "writeZero"}
IsSeq(op)  == op \in {"readSeq", "writeSeq"}
IsRead(op) == op \in {"readSeq", "readRan"}
IoType == [at: {"idle", "close", "open", "xfer"}, op: IoOp, f: Fcb,
           ext: Ext, rec: Rec, v: Value]
NoIo == [at |-> "idle", op |-> "readSeq", f |-> CHOOSE f \in Fcb : TRUE,
         ext |-> 0, rec |-> 0, v |-> Zero]

ScanType == [at: {"idle", "erase", "rename", "attr"}, pat: SUBSET Name,
             to: Name, ro: BOOLEAN, pos: Dir]
NoScan == [at |-> "idle", pat |-> {}, to |-> SomeName, ro |-> FALSE, pos |-> 0]

Idle == io = NoIo /\ scan = NoScan

\* SAMEXT: both extents are in the same directory entry.
SameEntry(d, e) == d \div ExtPerEntry = e \div ExtPerEntry

\* GETBLOCK: the slot of the block that holds record r of extent e.
Slot(e, r) == (e % ExtPerEntry) * BlocksPerExt + r \div RecsPerBlock
Offset(r) == r % RecsPerBlock

\* mutant: the extents are compared without SAMEXT.
FoundExact(n, e) == {s \in Dir : s < mark /\ dir[s].live /\ dir[s].name = n /\ dir[s].ext = e}

\* FINDFST on 12 or on 15 bytes; MOREFLS ends the search at the mark.
Named(P)    == {s \in Dir : s < mark /\ dir[s].live /\ dir[s].name \in P}
Found(n, e) == {s \in Named({n}) : SameEntry(dir[s].ext, e)}
First(S)    == CHOOSE s \in S : \A t \in S : s <= t

\* GETEMPTY searches with EMPTYFCB, and such a search ignores the mark.
FreeEntries == {s \in Dir : ~dir[s].live}

\* CHKNMBR keeps the mark above the entry in use.
RaisedLate(m, s) == IF s <= m THEN m ELSE s + 1 \* mutant: off by one
Raised(m, s) == IF s < m THEN m ELSE s + 1

Blocks(b) == {b[i] : i \in SlotIdx} \ {0}

\* mutant: BITMAP passes over the files of other users.
BitMapOneUser == DirBlock \cup
  UNION {Blocks(dir[s].blk) : s \in {t \in Dir : dir[t].live /\ dir[t].name = SomeName}}

BitMapReserved == DirBlock               \* mutant: BITMAP does not call SETFILE

\* STBITMAP of SETFILE for every live entry, on top of the blocks of ALLOC0.
BitMap == DirBlock \cup UNION {Blocks(dir[s].blk) : s \in {t \in Dir : dir[t].live}}

\* FNDSPACE: the free block nearest to p, the lower one of two.
Distance(p, b) == IF b < p THEN p - b ELSE b - p
Nearest(p, S) == CHOOSE b \in S : \A c \in S :
                   Distance(p, b) < Distance(p, c) \/ (Distance(p, b) = Distance(p, c) /\ b <= c)
-----------------------------------------------------------------------------
(* Reboot, login, reset.                                                    *)

Init ==
  /\ dir = [s \in Dir |-> Erased]
  /\ data = [b \in Block \ DirBlock |-> [o \in 0..RecsPerBlock-1 |-> Zero]]
  /\ alloc = {} /\ mark = 0 /\ wp = FALSE /\ logged = FALSE
  /\ fcb = [f \in Fcb |-> Unused]
  /\ io = NoIo /\ scan = NoScan
  /\ wr = [k \in Name \X Ext \X Rec |-> NoValue]
  /\ synced = {}

\* What the program of a lost FCB wrote is lost unless the directory has it.
Settled(N) == [k \in Name \X Ext \X Rec |->
                 IF k[1] \in N /\ k \notin synced THEN NoValue ELSE wr[k]]

\* JP 0, the end of a program and the reset switch: WBOOT loads a fresh BDOS,
\* with nothing logged in and nothing write protected.
Restart ==
  /\ alloc' = {} /\ mark' = 0 /\ wp' = FALSE /\ logged' = FALSE
  /\ fcb' = [f \in Fcb |-> Unused]
  /\ io' = NoIo /\ scan' = NoScan
  /\ wr' = Settled(Name)
  /\ UNCHANGED <<disk, synced>>

\* BITMAP rebuilds the allocation vector and the mark from the directory.
BuildMap ==
  /\ alloc' = BitMap
  /\ mark' = First({m \in FirstMark..FirstMark+NumDir :
                      \A s \in Dir : dir[s].live => s < m})
  /\ logged' = TRUE

LoginDrv ==
  /\ ~logged
  /\ BuildMap
  /\ UNCHANGED <<disk, wp, fcb, io, scan, hist>>

\* Function 13; the only caller, the CCP, has no file open then.
ResetDisk ==
  /\ logged /\ Idle /\ \A f \in Fcb : ~fcb[f].open
  /\ BuildMap /\ wp' = FALSE
  /\ UNCHANGED <<disk, fcb, io, scan, hist>>

\* Function 28.
WriteProtect ==
  /\ logged /\ Idle
  /\ wp' = TRUE /\ mark' = NumDir
  /\ UNCHANGED <<disk, alloc, logged, fcb, io, scan, hist>>
-----------------------------------------------------------------------------
(* Creating, opening and closing files.                                     *)

\* A program keeps one FCB for a file, as the CCP does.
NotOpen(N) == \A f \in Fcb : fcb[f].open => fcb[f].name \notin N
Fresh(n)   == NotOpen({n}) /\ \A s \in Dir : dir[s].live => dir[s].name # n

\* GETEMPTY: the entry that the cleared FCB is written to.
Created(n, e, ro) == [live |-> TRUE, name |-> n, ext |-> e, rc |-> 0,
                      blk |-> NoBlk, ro |-> ro]

\* mutant: the record count of the entry is taken for any of its extents.
OpenedCount(s, e, cr) ==
  [open |-> TRUE, name |-> dir[s].name, ext |-> e, blk |-> dir[s].blk,
   rc |-> dir[s].rc,
   cr |-> cr, ro |-> dir[s].ro, dirty |-> FALSE, bad |-> FALSE, eof |-> FALSE, over |-> FALSE]

\* OPENIT1: the FCB for extent e, read from entry s.
Opened(s, e, cr) ==
  [open |-> TRUE, name |-> dir[s].name, ext |-> e, blk |-> dir[s].blk,
   rc |-> IF dir[s].ext = e THEN dir[s].rc
          ELSE IF dir[s].ext < e THEN 0 ELSE RecsPerExt,
   cr |-> cr, ro |-> dir[s].ro, dirty |-> FALSE, bad |-> FALSE, eof |-> FALSE, over |-> FALSE]

EmptyFcb(n, e, ro, cr) ==
  [open |-> TRUE, name |-> n, ext |-> e, blk |-> NoBlk, rc |-> 0, cr |-> cr,
   ro |-> ro, dirty |-> FALSE, bad |-> FALSE, eof |-> FALSE, over |-> FALSE]

\* Function 22.  The program has made sure that the name is new (the CCP
\* erases it first); the code does not look.
Make(f, n) ==
  /\ logged /\ Idle /\ ~fcb[f].open /\ Fresh(n)
  /\ \/ wp /\ Restart
     \/ /\ ~wp /\ FreeEntries # {}
        /\ LET s == First(FreeEntries) IN
             /\ dir' = [dir EXCEPT ![s] = Created(n, 0, FALSE)]
             /\ mark' = Raised(mark, s)
        /\ fcb' = [fcb EXCEPT ![f] = EmptyFcb(n, 0, FALSE, 0)]
        /\ UNCHANGED <<data, alloc, wp, logged, io, scan, hist>>

\* Function 15, on extent 0 and from record 0.
Open(f, n) ==
  /\ logged /\ Idle /\ ~fcb[f].open /\ NotOpen({n})
  /\ Found(n, 0) # {}
  /\ fcb' = [fcb EXCEPT ![f] = Opened(First(Found(n, 0)), 0, 0)]
  /\ UNCHANGED <<disk, ram, io, scan, hist>>

\* CLOSEIT: the entry the FCB belongs to, if the search finds one.
Home(f) == IF fcb[f].bad THEN {} ELSE Found(fcb[f].name, fcb[f].ext)

\* The slots in which FCB and entry hold different blocks.
Clashes(f, s) == {i \in SlotIdx : /\ fcb[f].blk[i] # dir[s].blk[i]
                                  /\ fcb[f].blk[i] # 0 /\ dir[s].blk[i] # 0}

\* mutant: CLOSEIT does not look at the write protect bit.
CloseStatusUnprotected(f) ==
  IF ~fcb[f].dirty THEN "unmodified"
  ELSE IF Home(f) = {} THEN "lost"
  ELSE IF Clashes(f, First(Home(f))) # {} THEN "clash" ELSE "closed"

CloseStatus(f) ==
  IF wp \/ ~fcb[f].dirty THEN "unmodified"
  ELSE IF Home(f) = {} THEN "lost"
  ELSE IF Clashes(f, First(Home(f))) # {} THEN "clash" ELSE "closed"

\* MOVEWORD both ways, up to the first clash.
Merged(f, s) == [i \in SlotIdx |->
  IF fcb[f].blk[i] = 0 /\ \A j \in Clashes(f, s) : i < j
  THEN dir[s].blk[i] ELSE fcb[f].blk[i]]

\* CLSEIT2: the entry names the highest extent that has been closed.
HighestExtLast(d, e) == e                \* mutant: the extent closed last
HighestExt(d, e) == IF e < d THEN d ELSE e

\* The entry as UPDATE1 writes it.
ClosedEntry(f, s, blk) ==
  [dir[s] EXCEPT !.blk = blk, !.ext = HighestExt(@, fcb[f].ext),
                 !.rc = IF fcb[f].ext < dir[s].ext THEN @ ELSE fcb[f].rc]

\* The whole of CLOSEIT, but for the bytes of the FCB that its caller sets:
\* blk is what the merge has made of the block numbers in the FCB.
CloseIt(f, blk) ==
  LET s == First(Home(f)) IN
  CASE CloseStatus(f) = "closed" ->
         /\ blk = Merged(f, s)
         /\ dir' = [dir EXCEPT ![s] = ClosedEntry(f, s, blk)]
         /\ synced' = synced \cup
              {k \in Name \X Ext \X Rec : /\ k[1] = fcb[f].name /\ k[2] = fcb[f].ext
                                          /\ wr[k] # NoValue}
    [] CloseStatus(f) = "clash" -> blk = Merged(f, s) /\ UNCHANGED <<dir, synced>>
    [] OTHER -> blk = fcb[f].blk /\ UNCHANGED <<dir, synced>>

\* Function 16.  The FCB stays usable.
CloseFile(f) ==
  /\ logged /\ Idle /\ fcb[f].open /\ fcb[f].dirty
  /\ \E blk \in [SlotIdx -> Block] :
       CloseIt(f, blk) /\ fcb' = [fcb EXCEPT ![f].blk = blk]
  /\ UNCHANGED <<data, ram, io, scan, wr>>

\* The program is done with the FCB; if it has not closed it, what it wrote
\* to the last extent is lost.
Forget(f) ==
  /\ Idle /\ fcb[f].open
  /\ fcb' = [fcb EXCEPT ![f] = Unused]
  /\ wr' = Settled({fcb[f].name})
  /\ UNCHANGED <<disk, ram, io, scan, synced>>
-----------------------------------------------------------------------------
(* Reading and writing records.                                             *)

Request(at, op, f, e, r, v) ==
  [at |-> at, op |-> op, f |-> f, ext |-> e, rec |-> r, v |-> v]

\* The extent after e; EX and S2 together wrap to an extent that is no file's.
NextExtNoWrap(e) == e + 1                \* mutant: the result is not masked
NextExt(e) == (e + 1) % NumExt

\* A program does not go on sequentially after a random access has failed.
Usable(f) == logged /\ Idle /\ fcb[f].open /\ ~fcb[f].bad

\* RDSEQ up to the read; at the end of the extent GETNEXT comes first.
ReadSeq(f) ==
  /\ Usable(f)
  /\ \/ /\ fcb[f].cr < fcb[f].rc
        /\ io' = Request("xfer", "readSeq", f, fcb[f].ext, fcb[f].cr, Zero)
     \/ /\ fcb[f].cr = RecsPerExt
        /\ io' = Request("close", "readSeq", f, NextExt(fcb[f].ext), 0, Zero)
  /\ UNCHANGED <<disk, ram, fcb, scan, hist>>

\* WTSEQ up to the write.
WriteSeq(f, v) ==
  /\ Usable(f)
  /\ \/ (wp \/ fcb[f].ro) /\ Restart
     \/ /\ ~wp /\ ~fcb[f].ro /\ fcb[f].cr < RecsPerExt
        /\ io' = Request("xfer", "writeSeq", f, fcb[f].ext, fcb[f].cr, v)
        /\ UNCHANGED <<disk, ram, fcb, scan, hist>>

\* POSITION: the FCB is already on the extent.
OnExtent(f, e) == fcb[f].ext = e /\ ~fcb[f].bad

\* POSITION up to its call of CLOSEIT: functions 33, 34 and 40.
Position(f, op, e, r, v) ==
  /\ logged /\ Idle /\ fcb[f].open
  /\ StaleSeek \/ ~fcb[f].eof \/ e # fcb[f].ext
  /\ fcb' = [fcb EXCEPT ![f].cr = r]
  /\ io' = Request(IF OnExtent(f, e) THEN "xfer" ELSE "close", op, f, e, r, v)
  /\ UNCHANGED <<disk, ram, scan, hist>>

\* POSITION of a record past the last extent (r2 is not 0): error 6, and all
\* that changes is bit 7 of S2, which POSITN5 sets as after any error.
Overflow(f) ==
  /\ logged /\ Idle /\ fcb[f].open /\ fcb[f].dirty
  /\ fcb' = [fcb EXCEPT ![f] = [@ EXCEPT !.dirty = FALSE, !.over = TRUE]]
  /\ UNCHANGED <<disk, ram, io, scan, hist>>

ReadRan(f, e, r)      == Position(f, "readRan", e, r, Zero)
WriteRan(f, e, r, v)  == Position(f, "writeRan", e, r, v)
WriteZero(f, e, r, v) == Position(f, "writeZero", e, r, v)

\* mutant: POSITN4 leaves bit 7 of S2 as it is.
UnpositionedDirty(f, e, blk) ==
  [fcb EXCEPT ![f] = [@ EXCEPT !.ext = e, !.blk = blk, !.bad = TRUE,
                               !.eof = FALSE, !.over = FALSE]]

\* POSITN4 sets S2 to C0: no entry is found for this FCB, none is written.
Unpositioned(f, e, blk) ==
  [fcb EXCEPT ![f] = [@ EXCEPT !.ext = e, !.blk = blk, !.bad = TRUE,
                               !.dirty = FALSE, !.eof = FALSE, !.over = FALSE]]

\* The call of CLOSEIT in POSITION (an error ends the call) and in GETNEXT
\* (only an FCB without an entry does; a clash is ignored), and the test for
\* too many extents in GETNEXT.  What CLOSEIT does not record, because of the
\* write protection or of error 6, is lost with the extent.
CloseExtent ==
  LET f == io.f
      status == CloseStatus(f) IN
  /\ io.at = "close"
  /\ \E blk \in [SlotIdx -> Block] :
       /\ CloseIt(f, blk)
       /\ \/ /\ ~IsSeq(io.op) /\ status \in {"lost", "clash"}
             /\ fcb' = Unpositioned(f, fcb[f].ext, blk) /\ io' = NoIo
          \/ /\ IsSeq(io.op) /\ status = "lost"
             /\ io' = NoIo /\ UNCHANGED fcb
          \/ /\ IsSeq(io.op) /\ status # "lost" /\ io.ext = 0
             /\ fcb' = Unpositioned(f, 0, blk) /\ io' = NoIo
          \/ /\ IF IsSeq(io.op) THEN status # "lost" /\ io.ext # 0
                ELSE status \notin {"lost", "clash"}
             /\ fcb' = [fcb EXCEPT ![f].blk = blk]
             /\ io' = [io EXCEPT !.at = "open"]
  /\ wr' = IF status = "unmodified" THEN Settled({fcb[f].name}) ELSE wr
  /\ UNCHANGED <<data, ram, scan>>

\* What follows once the extent is open: the transfer, except that WTSEQ has
\* already written and only sets the record number to 0.
Proceed == io' = IF io.op = "writeSeq" THEN NoIo ELSE [io EXCEPT !.at = "xfer"]
FirstRec == CASE io.op = "writeSeq" -> 0
              [] io.op = "readSeq"  -> RecsPerExt
              [] OTHER              -> io.rec

\* GTNEXT2 and OPENIT: the extent is in the directory.
OpenExtent ==
  LET S == Found(fcb[io.f].name, io.ext) IN
  /\ io.at = "open" /\ S # {}
  /\ fcb' = [fcb EXCEPT ![io.f] = Opened(First(S), io.ext, FirstRec)]
  /\ Proceed
  /\ UNCHANGED <<disk, ram, scan, hist>>

\* It is not, and the call writes: GETEMPTY, or a reboot on a R/O disk.
AddExtent ==
  LET old == fcb[io.f]
      s   == First(FreeEntries) IN
  /\ io.at = "open" /\ Found(old.name, io.ext) = {} /\ ~IsRead(io.op)
  /\ \/ wp /\ Restart
     \/ /\ ~wp /\ FreeEntries # {}
        /\ dir' = [dir EXCEPT ![s] = Created(old.name, io.ext, old.ro)]
        /\ mark' = Raised(mark, s)
        /\ fcb' = [fcb EXCEPT ![io.f] = EmptyFcb(old.name, io.ext, old.ro, FirstRec)]
        /\ Proceed
        /\ UNCHANGED <<data, alloc, wp, logged, scan, hist>>

\* It is not, and there is no way to add it: errors 4 and 5 of POSITION, and
\* GTNEXT5, which only sets bit 7 of S2.
NoExtent ==
  /\ io.at = "open" /\ Found(fcb[io.f].name, io.ext) = {}
  /\ IsRead(io.op) \/ (~wp /\ FreeEntries = {})
  /\ fcb' = IF IsSeq(io.op)
            THEN [fcb EXCEPT ![io.f] = [@ EXCEPT !.ext = io.ext, !.dirty = FALSE,
                                                 !.eof = TRUE, !.over = FALSE]]
            ELSE Unpositioned(io.f, io.ext, fcb[io.f].blk)
  /\ io' = NoIo
  /\ UNCHANGED <<disk, ram, scan, hist>>

\* The rest of RDSEQ1.
ReadRecord ==
  LET f  == io.f
      ok == /\ fcb[f].blk[Slot(fcb[f].ext, io.rec)] # 0
            /\ io.op = "readRan" => io.rec < fcb[f].rc IN
  /\ io.at = "xfer" /\ IsRead(io.op)
  /\ fcb' = IF ok /\ io.op = "readSeq" THEN [fcb EXCEPT ![f].cr = io.rec + 1] ELSE fcb
  /\ io' = NoIo
  /\ UNCHANGED <<disk, ram, scan, hist>>

\* FNDSPACE, called with the block in the slot before.
FreeBlocksOnDisk == Block \ BitMap       \* mutant: the vector is not kept up to date
FreeBlocks == Block \ alloc
Previous(f, i) == IF i = 0 THEN 0 ELSE fcb[f].blk[i - 1]

\* WTSEQ10: the record count after a write of record r.
CountLate(rc, r) == IF r <= rc THEN rc ELSE r + 1 \* mutant: off by one
Count(rc, r) == IF r < rc THEN rc ELSE r + 1

\* mutant: WTSEQ1 clears bit 7 of S2 only for a write that takes a new block.
WrittenNewOnly(f, i, b) ==
  [fcb[f] EXCEPT !.blk = [@ EXCEPT ![i] = b], !.rc = Count(@, io.rec),
                 !.dirty = @ \/ fcb[f].blk[i] # b, !.over = FALSE,
                 !.cr = IF io.op = "writeSeq" THEN io.rec + 1 ELSE io.rec]

\* The FCB after a write to block b, in slot i.
Written(f, i, b) ==
  [fcb[f] EXCEPT !.blk = [@ EXCEPT ![i] = b], !.rc = Count(@, io.rec), !.dirty = TRUE,
                 !.over = FALSE,
                 !.cr = IF io.op = "writeSeq" THEN io.rec + 1 ELSE io.rec]

\* WTSEQ1 when there is a block b to write to, which may just have been taken.
PutRecord(f, b, new) ==
  LET i == Slot(fcb[f].ext, io.rec) IN
  /\ data' = [data EXCEPT ![b] = [o \in 0..RecsPerBlock-1 |->
       IF o = Offset(io.rec) THEN io.v
       ELSE IF new /\ io.op = "writeZero" THEN Zero ELSE @[o]]]
  /\ fcb' = [fcb EXCEPT ![f] = Written(f, i, b)]
  /\ io' = IF io.op = "writeSeq" /\ io.rec = RecsPerExt - 1
           THEN [io EXCEPT !.at = "close", !.ext = NextExt(fcb[f].ext)]
           ELSE NoIo
  /\ wr' = [wr EXCEPT ![<<fcb[f].name, fcb[f].ext, io.rec>>] = io.v]
  /\ UNCHANGED <<dir, mark, wp, logged, scan, synced>>

WriteRecord ==
  LET f == io.f
      i == Slot(fcb[f].ext, io.rec)
      b == Nearest(Previous(f, i), FreeBlocks) IN
  /\ io.at = "xfer" /\ ~IsRead(io.op)
  /\ \/ (wp \/ fcb[f].ro) /\ Restart
     \/ /\ ~wp /\ ~fcb[f].ro /\ fcb[f].blk[i] # 0
        /\ PutRecord(f, fcb[f].blk[i], FALSE) /\ UNCHANGED alloc
     \/ /\ ~wp /\ ~fcb[f].ro /\ fcb[f].blk[i] = 0 /\ FreeBlocks # {}
        /\ PutRecord(f, b, TRUE) /\ alloc' = alloc \cup {b}
     \/ /\ ~wp /\ ~fcb[f].ro /\ fcb[f].blk[i] = 0 /\ FreeBlocks = {}
        /\ io' = NoIo
        /\ UNCHANGED <<disk, ram, fcb, scan, hist>>
-----------------------------------------------------------------------------
(* Walks of the directory: one step for each entry that is written.         *)

\* FINDNXT from entry p on.
AfterSkip(P, p) == {s \in Named(P) : p + 1 < s} \* mutant: NXENTRY is called twice
AfterSame(P, p) == {s \in Named(P) : p <= s}    \* mutant: FILEPOS is not bumped
After(P, p) == {s \in Named(P) : p < s}
Continue == scan' = IF After(scan.pat, scan.pos) = {} THEN NoScan
                    ELSE [scan EXCEPT !.pos = First(After(scan.pat, scan.pos))]
Start(at, P, to, ro) ==
  /\ Named(P) # {}
  /\ scan' = [at |-> at, pat |-> P, to |-> to, ro |-> ro, pos |-> First(Named(P))]

\* The records that the entry at scan.pos is the directory entry of.
Covered(n) == {k \in Name \X Ext \X Rec :
                 k[1] = n /\ SameEntry(dir[scan.pos].ext, k[2])}

\* ERAFILE for a name with wildcards; no file it names is open.
Delete(P) ==
  /\ logged /\ Idle /\ NotOpen(P)
  /\ \/ wp /\ Restart
     \/ /\ ~wp /\ Start("erase", P, SomeName, FALSE)
        /\ UNCHANGED <<disk, ram, fcb, io, hist>>

EraseEntry ==
  LET s == scan.pos IN
  /\ scan.at = "erase"
  /\ \/ dir[s].ro /\ Restart
     \/ /\ ~dir[s].ro
        /\ dir' = [dir EXCEPT ![s] = Erased]
        /\ alloc' = alloc \ Blocks(dir[s].blk)
        /\ wr' = [k \in Name \X Ext \X Rec |->
                    IF k \in Covered(dir[s].name) THEN NoValue ELSE wr[k]]
        /\ synced' = synced \ Covered(dir[s].name)
        /\ Continue
        /\ UNCHANGED <<data, mark, wp, logged, fcb, io>>

\* CHGNAMES; the program has made sure that the new name is free.
Rename(n, m) ==
  /\ logged /\ Idle /\ NotOpen({n}) /\ Fresh(m) /\ n # m
  /\ \/ wp /\ Restart
     \/ /\ ~wp /\ Start("rename", {n}, m, FALSE)
        /\ UNCHANGED <<disk, ram, fcb, io, hist>>

RenameEntry ==
  LET s == scan.pos
      n == dir[s].name IN
  /\ scan.at = "rename"
  /\ \/ dir[s].ro /\ Restart
     \/ /\ ~dir[s].ro
        /\ dir' = [dir EXCEPT ![s].name = scan.to]
        /\ wr' = [k \in Name \X Ext \X Rec |->
                    IF k \in Covered(scan.to) THEN wr[<<n, k[2], k[3]>>]
                    ELSE IF k \in Covered(n) THEN NoValue ELSE wr[k]]
        /\ synced' = (synced \ Covered(n)) \cup
                     {k \in Covered(scan.to) : <<n, k[2], k[3]>> \in synced}
        /\ Continue
        /\ UNCHANGED <<data, ram, fcb, io>>

\* SAVEATTR: unlike the two above it never looks at the write protect bit.
SetAttr(n, ro) ==
  /\ logged /\ Idle
  /\ Start("attr", {n}, SomeName, ro)
  /\ UNCHANGED <<disk, ram, fcb, io, hist>>

AttrEntry ==
  /\ scan.at = "attr"
  /\ dir' = [dir EXCEPT ![scan.pos].ro = scan.ro]
  /\ Continue
  /\ UNCHANGED <<data, ram, fcb, io, hist>>
-----------------------------------------------------------------------------
Transfer ==
  \/ CloseExtent \/ OpenExtent \/ AddExtent \/ NoExtent
  \/ ReadRecord \/ WriteRecord
Walk == EraseEntry \/ RenameEntry \/ AttrEntry

FcbCall(f) ==
  \/ \E n \in Name : Make(f, n) \/ Open(f, n)
  \/ CloseFile(f) \/ Forget(f) \/ Overflow(f)
  \/ ReadSeq(f)
  \/ \E v \in Value : WriteSeq(f, v)
  \/ \E e \in Ext, r \in Rec :
       \/ ReadRan(f, e, r)
       \/ \E v \in Value : WriteRan(f, e, r, v) \/ WriteZero(f, e, r, v)

DirCall ==
  \/ \E P \in SUBSET Name : Delete(P)
  \/ \E n, m \in Name : Rename(n, m)
  \/ \E n \in Name, ro \in BOOLEAN : SetAttr(n, ro)

Next ==
  \/ Restart \/ LoginDrv \/ ResetDisk \/ WriteProtect
  \/ \E f \in Fcb : FcbCall(f)
  \/ DirCall \/ Transfer \/ Walk

Spec == Init /\ [][Next]_vars

\* A call that has been made goes on: the processor does not stop.
FairSpec == Spec /\ WF_vars(Transfer) /\ WF_vars(Walk)
-----------------------------------------------------------------------------
(* Properties.                                                              *)

\* Every variable has its type.
TypeOK ==
  /\ dir \in [Dir -> EntryType]
  /\ data \in [Block \ DirBlock -> [0..RecsPerBlock-1 -> Value]]
  /\ alloc \subseteq Block
  /\ mark \in 0..FirstMark+NumDir
  /\ wp \in BOOLEAN /\ logged \in BOOLEAN
  /\ fcb \in [Fcb -> FcbType]
  /\ io \in IoType /\ scan \in ScanType
  /\ wr \in [Name \X Ext \X Rec -> Value \cup {NoValue}]
  /\ synced \subseteq Name \X Ext \X Rec

\* No block belongs to two files, to two places of one file or to the
\* directory, whatever calls are made, aborted or cut short by a reset.
NoCrossLink ==
  \A s, t \in Dir : \A i, j \in SlotIdx :
    dir[s].live /\ dir[t].live /\ dir[s].blk[i] = dir[t].blk[j] /\ dir[s].blk[i] # 0
      => s = t /\ i = j /\ dir[s].blk[i] \notin DirBlock

\* While the drive is logged in, FNDSPACE can not hand out a block that the
\* directory or an FCB in memory already has.
AllocSound ==
  logged =>
    /\ DirBlock \subseteq alloc
    /\ \A s \in Dir : \A i \in SlotIdx :
         dir[s].live /\ dir[s].blk[i] # 0 => dir[s].blk[i] \in alloc
    /\ \A f \in Fcb : \A i \in SlotIdx :
         fcb[f].open /\ fcb[f].blk[i] # 0 => fcb[f].blk[i] \in alloc

\* The searches that stop at the mark see every entry in use.
MarkCovers == logged => \A s \in Dir : dir[s].live => s < mark

\* A file has one directory entry for each group of extents; FINDFST would
\* never see a second one.
OneEntry ==
  \A s, t \in Dir : /\ dir[s].live /\ dir[t].live /\ dir[s].name = dir[t].name
                    /\ SameEntry(dir[s].ext, dir[t].ext)
                    => s = t

\* An FCB that has been written to can be closed: CLOSEIT finds its entry and
\* never reports the mismatch of CLOSEIT7.
Closable ==
  \A f \in Fcb : fcb[f].open /\ fcb[f].dirty /\ ~wp => CloseStatus(f) = "closed"

\* The directory, read after a reboot, gives v for the record.
DirHolds(k, v) ==
  \E s \in Dir :
    LET b == dir[s].blk[Slot(k[2], k[3])] IN
    /\ dir[s].live /\ dir[s].name = k[1] /\ SameEntry(dir[s].ext, k[2])
    /\ k[2] < dir[s].ext \/ (k[2] = dir[s].ext /\ k[3] < dir[s].rc)
    /\ b # 0 /\ data[b][Offset(k[3])] = v

\* The FCB f gives v for the record without any access to the directory.
FcbHolds(f, k, v) ==
  LET b == fcb[f].blk[Slot(k[2], k[3])] IN
  /\ fcb[f].name = k[1] /\ fcb[f].ext = k[2] /\ k[3] < fcb[f].rc
  /\ b # 0 /\ data[b][Offset(k[3])] = v

\* A record that a successful close has recorded keeps the value last written
\* to it: no other write, of this file or of another one, and no reset loses
\* or changes it.
Durable == \A k \in synced : wr[k] # NoValue => DirHolds(k, wr[k])

\* The FCB may have records that its entry does not.
Unrecorded(f) == fcb[f].dirty \/ fcb[f].over

\* What is written but not yet recorded is in an open FCB that the next close
\* will record, unless error 6 has marked that FCB as not modified.
Pending ==
  \A k \in Name \X Ext \X Rec :
    wr[k] # NoValue /\ k \notin synced
      => \E f \in Fcb : fcb[f].open /\ Unrecorded(f) /\ FcbHolds(f, k, wr[k])

\* Reading a record of the extent an FCB is on returns what was last written.
ReadBack ==
  \A f \in Fcb : \A r \in Rec :
    LET k == <<fcb[f].name, fcb[f].ext, r>> IN
    fcb[f].open /\ ~fcb[f].bad /\ ~fcb[f].eof /\ wr[k] # NoValue
      => FcbHolds(f, k, wr[k])

\* POSITION brings the file to the record asked for: the blocks that a transfer
\* uses are those of the extent it is to read or write, and not those that
\* another directory entry of the file has.
ProperRecord ==
  io.at = "xfer" => \A s \in Dir : \A i, j \in SlotIdx :
    /\ dir[s].live /\ dir[s].name = fcb[io.f].name
    /\ dir[s].blk[i] # 0 /\ fcb[io.f].blk[j] = dir[s].blk[i]
    => SameEntry(dir[s].ext, io.ext)

\* POSITION and GETNEXT close the current extent before they go on to another
\* one: nothing that is written to it is lost, unless the disk is protected.
ExtentClosed == [][io.at = "close" /\ io'.at = "open" /\ ~wp => wr' = wr]_vars

\* What the code keeps of it: a file that goes on to another extent loses
\* nothing of what was written to the one before, unless the disk is protected
\* or error 6 has marked the FCB.
ExtentKept ==
  [][io.at = "close" /\ io'.at = "open" /\ ~wp /\ ~fcb[io.f].over => wr' = wr]_vars

\* Function 28 write protects the disk: until it is reset nothing is written
\* to it.
WriteProtected == [][wp /\ wp' => UNCHANGED disk]_vars

\* The same but for the attributes that function 30 sets.
ProtectedButAttr ==
  [][wp /\ wp' => /\ UNCHANGED data
                  /\ \A s \in Dir : dir'[s] = [dir[s] EXCEPT !.ro = dir'[s].ro]]_vars

\* When ERAFILE or CHGNAMES comes to its end, no entry of the old name is left.
WalkComplete ==
  [][scan.at \in {"erase", "rename"} /\ scan' = NoScan /\ logged'
       => \A s \in Dir : dir'[s].live => dir'[s].name \notin scan.pat]_vars

\* Every call that is made returns (or the system reboots).
CallReturns == ~Idle ~> Idle
=============================================================================
