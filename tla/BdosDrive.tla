----------------------------- MODULE BdosDrive -----------------------------
(***************************************************************************)
(* The drives of the BDOS (src/src/cpm/cpm22.asm): selecting and logging    *)
(* in, the automatic selection of a call, and what lies in memory for each  *)
(* drive: the allocation vector, the checksums of the directory sectors     *)
(* that tell when a disk was changed, the high-water mark.  The vectors are *)
(* in memory that the tables of the BIOS hand out (cbios_kbc.asm), a fixed  *)
(* distance apart.  All drives share one directory buffer.                 *)
(*                                                                         *)
(* Files are told apart only by whether they are the program's own (the     *)
(* one its FCB names) or not, and have at most one block each: what there   *)
(* is to know about extents and records is in BdosFile.                    *)
(***************************************************************************)
EXTENDS Integers, FiniteSets, Functions

CONSTANTS
  Drive,       \* the numbers of the drives in use; A is 0
  NumDir,      \* DIRSIZE+1
  EntPerSec,   \* 4 in the code: entries in a directory sector
  NumCheck,    \* ALLOC1 (CKS): directory sectors with a checksum
  NumBlock,    \* DSKSIZE+1
  NumDirBlock, \* blocks of the directory
  FirstMark,   \* 3 in BITMAP
  SumSize,     \* 256: a checksum is a byte
  AlvStride,   \* distance in bits of the allocation vectors of two drives
  CsvStride,   \* distance in bytes of their checksum vectors
  Disks,       \* the directories a disk may have when it is put in
  MayChange,   \* is the disk in a drive ever changed?
  LogOffActive,\* does function 37 ever name the current drive?
  MayIgnore    \* does the user ever go on after "Bad Sector"?

ASSUME TableAssumption ==
  /\ Drive \subseteq Nat /\ 0 \in Drive /\ NumDir \in Nat \ {0} /\ EntPerSec \in Nat \ {0}
  /\ NumDir % EntPerSec = 0 /\ NumCheck \in Nat
  /\ NumBlock \in Nat /\ NumDirBlock \in 1..NumBlock
  /\ FirstMark \in Nat /\ SumSize \in Nat \ {0}
  /\ AlvStride \in Nat \ {0} /\ CsvStride \in Nat \ {0}
ASSUME HabitAssumption ==
  MayChange \in BOOLEAN /\ LogOffActive \in BOOLEAN /\ MayIgnore \in BOOLEAN

Dir    == 0..NumDir-1
Sector == 0..(NumDir \div EntPerSec)-1
Block  == 0..NumBlock-1
DirBlock == 0..NumDirBlock-1

\* A directory entry; block 0 stands for none.
Entry == [live: BOOLEAN, own: BOOLEAN, blk: Block]
Erased == [live |-> FALSE, own |-> FALSE, blk |-> 0]
ASSUME DisksAssumption == Disks \subseteq [Dir -> Entry]
SectorOf(d) == [s \in Sector |-> [i \in 0..EntPerSec-1 |-> d[s * EntPerSec + i]]]

\* CHECKSUM of a sector: the sum of its bytes.
Code(e) == IF e.live THEN 1 + e.blk + (IF e.own THEN NumBlock ELSE 0) ELSE 0
CheckSum(ent) == SumFunction([i \in DOMAIN ent |-> Code(ent[i])]) % SumSize

\* Where the bit of a block and the checksum of a sector lie in memory.
BitAddr(d, b) == d * AlvStride + b
CsvOf(d, s)   == d * CsvStride + s
AlvAddr == {BitAddr(d, b) : d \in Drive, b \in Block}
CsvAddr == {CsvOf(d, s) : d \in Drive, s \in 0..NumCheck-1}

VARIABLES
  disk,    \* the directory of the disk in each drive
  active,  \* ACTIVE
  login,   \* LOGIN
  wrtprt,  \* WRTPRT
  mark,    \* SCRATCH1 of each drive
  csv,     \* memory of the checksum vectors
  alv,     \* memory of the allocation vectors: the addresses of the bits set
  buf,     \* DIRBUF: the entries of a directory sector
  call,    \* the call in progress
  fcb,     \* the program's FCB
  swapped, \* history: drives whose disk was changed behind the BDOS's back
  chosen,  \* history: the drive the program has selected
  guarded  \* history: drives the program has write protected

mem == <<mark, csv, alv>>
history == <<swapped, chosen, guarded>>
vars == <<disk, active, login, wrtprt, mem, buf, call, fcb, history>>

Bits(d)      == {BitAddr(d, b) : b \in Block}
UsedOn(d)    == {disk[d][i].blk : i \in {j \in Dir : disk[d][j].live}} \ {0}

\* at: where the call is; then: where it goes on after a login; pos: FILEPOS;
\* old: OLDDRV; safe: the drive was write protected when the call began.
CallType == [at: {"idle", "login", "begin", "walk", "update"},
             then: {"idle", "begin"},
             op: {"none", "open", "make", "close", "erase", "write"},
             pos: 0..NumDir, old: Drive, safe: BOOLEAN]
NoCall == [at |-> "idle", then |-> "idle", op |-> "none", pos |-> 0,
           old |-> 0, safe |-> FALSE]
FcbType == [open: BOOLEAN, drive: Drive, blk: Block, dirty: BOOLEAN]
Closed == [open |-> FALSE, drive |-> 0, blk |-> 0, dirty |-> FALSE]

\* The call goes on at a place, with an entry of the directory.
To(c, at, pos) == [c EXCEPT !.at = at, !.pos = pos]

Idle == call.at = "idle"
Blank == [i \in Dir |-> Erased]
-----------------------------------------------------------------------------
(* Selecting and logging in.                                                *)

\* BITMAP before its loop: the vector is cleared but for ALLOC0.
StartLogin(d, L, c) ==
  /\ active' = d /\ login' = L \cup {d}
  /\ alv' = (alv \ Bits(d)) \cup {BitAddr(d, b) : b \in DirBlock}
  /\ mark' = [mark EXCEPT ![d] = FirstMark]
  /\ call' = To(c, "login", 0)
  /\ swapped' = swapped \cap (L \ {d})

\* SETDSK: nothing to do for the current drive; LOGINDRV for another.
SetDsk(d, c) ==
  IF d = active \/ d \in login
  THEN /\ active' = d /\ call' = To(c, c.then, 0)
       /\ UNCHANGED <<login, alv, mark, swapped>>
  ELSE StartLogin(d, login, c)

\* Warm boot at any time: a new BDOS, then RSTDSK by the CCP.
Restart ==
  /\ StartLogin(0, {}, NoCall)
  /\ wrtprt' = {} /\ fcb' = Closed /\ chosen' = 0 /\ guarded' = {}
  /\ UNCHANGED <<disk, csv, buf>>

\* Function 13.
RstDsk ==
  /\ Idle /\ StartLogin(0, {}, NoCall)
  /\ wrtprt' = {} /\ chosen' = 0 /\ guarded' = {}
  /\ UNCHANGED <<disk, csv, buf, fcb>>

\* Function 14.
SelectDisk(d) ==
  /\ Idle /\ SetDsk(d, NoCall) /\ chosen' = d
  /\ UNCHANGED <<disk, wrtprt, csv, buf, fcb, guarded>>

\* Function 37: off the login vector, and off the other one with it.
LogOff(S) ==
  /\ Idle /\ S # {} /\ (active \in S => LogOffActive)
  /\ login' = login \ S /\ wrtprt' = wrtprt \cap login'
  /\ swapped' = swapped \cap login' /\ guarded' = guarded \cap login'
  /\ UNCHANGED <<disk, active, mem, buf, call, fcb, chosen>>

\* Function 28.
WrtPrtD ==
  /\ Idle
  /\ wrtprt' = wrtprt \cup {active} /\ guarded' = guarded \cup {active}
  /\ mark' = [mark EXCEPT ![active] = NumDir]
  /\ UNCHANGED <<disk, active, login, csv, alv, buf, call, fcb, swapped, chosen>>

\* The user puts another disk in while the program waits.
Change(d, new) ==
  /\ MayChange /\ Idle /\ new # disk[d]
  /\ disk' = [disk EXCEPT ![d] = new] /\ swapped' = swapped \cup {d}
  /\ UNCHANGED <<active, login, wrtprt, mem, buf, call, fcb, chosen, guarded>>
-----------------------------------------------------------------------------
(* Reading and writing directory sectors.                                   *)

Outcome == IF MayIgnore THEN BOOLEAN ELSE {TRUE}
Here == call.pos \div EntPerSec

\* NXENTRY reads the sector of the first entry in it; after a "Bad Sector"
\* that the user ignores the buffer is as it was.
BufLate(ok) == \* mutant: the sector is read one entry late
  IF call.pos % EntPerSec # (1 % EntPerSec) \/ ~ok THEN buf
  ELSE SectorOf(disk[active])[Here]
Buf(ok) ==
  IF call.pos % EntPerSec # 0 \/ ~ok THEN buf
  ELSE SectorOf(disk[active])[Here]
Item(b) == b[call.pos % EntPerSec]

ChecksFewer == call.pos % EntPerSec = 0 /\ Here + 1 < NumCheck \* mutant: off by one

\* CHECKDIR looks at the first ALLOC1 sectors.
Checks == call.pos % EntPerSec = 0 /\ Here < NumCheck

\* SETDIR.
Sealed(b) == IF Here < NumCheck THEN [csv EXCEPT ![CsvOf(active, Here)] = CheckSum(b)]
             ELSE csv

UnsealedWrite(b, ok) == \* mutant: DIRWRITE without SETDIR
  /\ buf' = b /\ csv' = csv
  /\ disk' = IF ok THEN [disk EXCEPT ![active] =
                           [i \in Dir |-> IF i \div EntPerSec = Here THEN b[i % EntPerSec]
                                          ELSE disk[active][i]]]
             ELSE disk

\* DIRWRITE.
DirWrite(b, ok) ==
  /\ buf' = b /\ csv' = Sealed(b)
  /\ disk' = IF ok THEN [disk EXCEPT ![active] =
                           [i \in Dir |-> IF i \div EntPerSec = Here THEN b[i % EntPerSec]
                                          ELSE disk[active][i]]]
             ELSE disk

RaisedPast == \* mutant: raised also for the last entry below the mark
  [mark EXCEPT ![active] = IF call.pos + 1 < @ THEN @ ELSE call.pos + 2]

\* CHKNMBR.
Raised == [mark EXCEPT ![active] = IF call.pos < @ THEN @ ELSE call.pos + 1]

\* One entry of the loop of BITMAP.
LoginEntry(ok) ==
  LET b == Buf(ok)
      e == Item(b)
  IN  /\ call.at = "login" /\ call.pos < NumDir
      /\ buf' = b /\ csv' = IF Checks THEN Sealed(b) ELSE csv
      /\ IF e.live
         THEN mark' = Raised /\ alv' = alv \cup {BitAddr(active, e.blk)}
         ELSE UNCHANGED <<mark, alv>>
      /\ call' = [call EXCEPT !.pos = @ + 1]
      /\ UNCHANGED <<disk, active, login, wrtprt, fcb, history>>

LoginEnds ==
  /\ call.at = "login" /\ call.pos = NumDir
  /\ call' = IF call.then = "idle" THEN NoCall ELSE To(call, call.then, 0)
  /\ UNCHANGED <<disk, active, login, wrtprt, mem, buf, fcb, history>>
-----------------------------------------------------------------------------
(* Calls with an FCB.                                                       *)

\* A program makes a file that does not exist, and has one file open.
MayCall(op, d) ==
  CASE op \in {"close", "write"} -> fcb.open /\ fcb.drive = d
    [] op = "make" -> ~fcb.open /\ \A i \in Dir : disk[d][i].live => ~disk[d][i].own
    [] OTHER -> ~fcb.open

\* The call of a function, which GOBACK will end.
Started(op) == [NoCall EXCEPT !.then = "begin", !.op = op, !.old = active]

\* AUTOSEL.
Begin(op, d) ==
  /\ Idle /\ MayCall(op, d)
  /\ SetDsk(d, Started(op))
  /\ UNCHANGED <<disk, wrtprt, csv, buf, fcb, chosen, guarded>>

BackNowhere(bar) == \* mutant: GOBACK does not select the old drive
  call' = NoCall /\ UNCHANGED <<active, login, alv, mark, swapped>>

\* GOBACK: the drive that was current becomes so again.
Back(bar) == SetDsk(call.old, NoCall)

\* CHKWPRT: an abort, left to Restart.
Permitted == active \notin wrtprt

\* The calls that search the directory.
Searches ==
  \/ call.op = "open"
  \/ call.op \in {"make", "erase"} /\ Permitted
  \/ call.op = "close" /\ fcb.dirty /\ Permitted

StartWalk ==
  /\ call.at = "begin" /\ call.op # "write" /\ Searches
  /\ call' = [To(call, "walk", 0) EXCEPT !.safe = active \in wrtprt]
  /\ UNCHANGED <<disk, active, login, wrtprt, mem, buf, fcb, history>>

\* CLOSEIT returns at once if there is nothing to write or it may not.
CloseNothing ==
  /\ call.at = "begin" /\ call.op = "close" /\ ~Searches
  /\ Back(TRUE) /\ fcb' = Closed
  /\ UNCHANGED <<disk, wrtprt, csv, buf, chosen, guarded>>

FreeAnywhere == {b \in Block : BitAddr(0, b) \notin alv} \* mutant: the vector of drive A
FreeBlocks == {b \in Block : BitAddr(active, b) \notin alv}

\* WTSEQ on a file without a block: FNDSPACE; the block is in the FCB only.
Take ==
  /\ call.at = "begin" /\ call.op = "write" /\ Permitted
  /\ IF fcb.blk = 0 /\ FreeBlocks # {}
     THEN LET b == CHOOSE x \in FreeBlocks : \A y \in FreeBlocks : x <= y
          IN  alv' = alv \cup {BitAddr(active, b)}
              /\ fcb' = [fcb EXCEPT !.blk = b, !.dirty = TRUE]
     ELSE UNCHANGED <<alv, fcb>>
  /\ call' = To(call, "walk", NumDir)
  /\ UNCHANGED <<disk, active, login, wrtprt, mark, csv, buf, history>>

Wanted(e) == CASE call.op = "make" -> ~e.live
               [] call.op \in {"open", "close"} -> e.live /\ e.own
               [] call.op = "erase" -> e.live /\ ~e.own

\* FINDNXT: NXENTRY with CHECKDIR, the end of the search at the mark, the
\* comparison.
WalkEntry(ok) ==
  LET b   == Buf(ok)
      bad == Checks /\ CheckSum(b) # csv[CsvOf(active, Here)] /\ call.pos < mark[active]
      m   == IF bad THEN NumDir ELSE mark[active]
      pos == IF call.op # "make" /\ call.pos >= m THEN NumDir ELSE call.pos
  IN  /\ call.at = "walk" /\ call.pos < NumDir
      /\ buf' = b
      /\ mark' = [mark EXCEPT ![active] = m]
      /\ wrtprt' = IF bad THEN wrtprt \cup {active} ELSE wrtprt
      /\ call' = IF pos < NumDir /\ Wanted(Item(b)) THEN [call EXCEPT !.at = "update"]
                 ELSE [call EXCEPT !.pos = IF pos < NumDir THEN pos + 1 ELSE NumDir]
      /\ UNCHANGED <<disk, active, login, csv, alv, fcb, history>>

WalkEnds ==
  /\ call.at = "walk" /\ call.pos = NumDir
  /\ Back(TRUE)
  /\ fcb' = IF call.op = "close" THEN Closed ELSE fcb
  /\ UNCHANGED <<disk, wrtprt, csv, buf, chosen, guarded>>

Put(e) == [buf EXCEPT ![call.pos % EntPerSec] = e]
Stop == call' = To(call, "walk", NumDir)

UpdateOpen ==
  /\ call.at = "update" /\ call.op = "open" /\ Stop
  /\ fcb' = [open |-> TRUE, drive |-> active, blk |-> Item(buf).blk, dirty |-> FALSE]
  /\ UNCHANGED <<disk, active, login, wrtprt, mem, buf, history>>

\* GETEMPTY: CHKNMBR and FCBSET.
UpdateMake(ok) ==
  /\ call.at = "update" /\ call.op = "make" /\ Stop
  /\ DirWrite(Put([live |-> TRUE, own |-> TRUE, blk |-> 0]), ok)
  /\ mark' = Raised
  /\ fcb' = [open |-> TRUE, drive |-> active, blk |-> 0, dirty |-> FALSE]
  /\ UNCHANGED <<active, login, wrtprt, alv, history>>

\* CLOSEIT: nothing is written if the entry has another block than the FCB.
UpdateClose(ok) ==
  LET e == Item(buf)
  IN  /\ call.at = "update" /\ call.op = "close" /\ Stop
      /\ IF e.blk # 0 /\ fcb.blk # 0 /\ e.blk # fcb.blk
         THEN UNCHANGED <<disk, csv, buf>>
         ELSE DirWrite(Put([e EXCEPT !.blk = IF @ = 0 THEN fcb.blk ELSE @]), ok)
      /\ UNCHANGED <<active, login, wrtprt, mark, alv, fcb, history>>

\* ERAFIL1, and on to the next entry.
UpdateErase(ok) ==
  /\ call.at = "update" /\ call.op = "erase"
  /\ call' = To(call, "walk", call.pos + 1)
  /\ alv' = IF Item(buf).blk = 0 THEN alv ELSE alv \ {BitAddr(active, Item(buf).blk)}
  /\ DirWrite(Put(Erased), ok)
  /\ UNCHANGED <<active, login, wrtprt, mark, fcb, history>>
-----------------------------------------------------------------------------
Init ==
  /\ disk \in [Drive -> Disks]
  /\ active = 0 /\ login = {0} /\ wrtprt = {}
  /\ mark = [d \in Drive |-> IF d = 0 THEN FirstMark ELSE 0]
  /\ csv = [a \in CsvAddr |-> 0]
  /\ alv = {BitAddr(0, b) : b \in DirBlock}
  /\ buf = [i \in 0..EntPerSec-1 |-> Erased]
  /\ call = [NoCall EXCEPT !.at = "login"]
  /\ fcb = Closed /\ swapped = {} /\ chosen = 0 /\ guarded = {}

Program ==
  \/ RstDsk
  \/ \E d \in Drive : SelectDisk(d)
  \/ \E S \in SUBSET Drive : LogOff(S)
  \/ WrtPrtD
  \/ \E op \in {"open", "make", "close", "erase", "write"}, d \in Drive : Begin(op, d)

Steps ==
  \/ \E ok \in Outcome : LoginEntry(ok)
  \/ LoginEnds \/ StartWalk \/ CloseNothing \/ Take
  \/ \E ok \in Outcome : WalkEntry(ok)
  \/ WalkEnds \/ UpdateOpen
  \/ \E ok \in Outcome : UpdateMake(ok)
  \/ \E ok \in Outcome : UpdateClose(ok)
  \/ \E ok \in Outcome : UpdateErase(ok)

Next ==
  \/ Restart \/ Program \/ Steps
  \/ \E d \in Drive, new \in Disks : Change(d, new)

Spec == Init /\ [][Next]_vars
-----------------------------------------------------------------------------
TypeOK ==
  /\ disk \in [Drive -> [Dir -> Entry]] /\ active \in Drive
  /\ login \subseteq Drive /\ wrtprt \subseteq Drive
  /\ mark \in [Drive -> 0..(IF FirstMark > NumDir THEN FirstMark ELSE NumDir)]
  /\ csv \in [CsvAddr -> 0..SumSize-1] /\ alv \subseteq AlvAddr
  /\ buf \in [0..EntPerSec-1 -> Entry] /\ call \in CallType /\ fcb \in FcbType
  /\ swapped \subseteq Drive /\ chosen \in Drive /\ guarded \subseteq Drive

\* A directory that is not damaged: there is one file of the program at most,
\* and the others do not share blocks, among them or with the directory.
Sound(D) ==
  /\ \A i, j \in Dir : D[i].live /\ D[j].live /\ i # j =>
       /\ ~(D[i].own /\ D[j].own)
       /\ ~D[i].own /\ ~D[j].own /\ D[i].blk # 0 => D[i].blk # D[j].blk
  /\ \A i \in Dir : D[i].live /\ ~D[i].own /\ D[i].blk # 0 => D[i].blk \notin DirBlock
Undamaged == \A D \in Disks : Sound(D)

\* WTSEQ never takes for a file a block that an entry of the same disk or the
\* directory already has, on whichever drive and after whatever logins of
\* the others; unless the disk is another one than was logged in.
TakeFree == [][fcb.open /\ fcb'.dirty /\ ~fcb.dirty /\ fcb'.drive \notin swapped
               => fcb'.blk \notin UsedOn(fcb'.drive) \cup DirBlock]_vars

\* CHECKDIR: the BDOS makes a drive read only by itself only if its disk was
\* changed; its own writes and the logins of other drives never look like a
\* change.
NoFalseAlarm == wrtprt \subseteq guarded \cup swapped

\* CHECKDIR: when a search has found its entry, the sector that it lies in is
\* the one that was logged in, as far as checksums tell, or the drive has
\* been made read only.
Noticed ==
  call.at = "update" /\ Here < NumCheck /\ Here * EntPerSec < mark[active]
  => \/ active \in wrtprt
     \/ csv[CsvOf(active, Here)] = CheckSum(SectorOf(disk[active])[Here])

\* UPDATE and ERAFILE write a whole sector to change one entry: what they have
\* in the one buffer of all drives is the sector that they write over.
SameSector == call.at = "update" => buf = SectorOf(disk[active])[Here]

\* AUTOSEL and GOBACK: a call with an FCB for another drive leaves the
\* current drive as the program chose it.
CurrentKept == Idle => active = chosen

\* A call that finds its drive write protected changes no directory.
ProtectedKept == [][\A d \in Drive : ~Idle /\ disk'[d] # disk[d]
                    => d = active /\ ~call.safe]_vars

\* CHECKDIR: a disk that was found to be changed is write protected, and so
\* nothing is written to its directory, not even by the call that found it.
ChangedKept == [][\A d \in Drive : ~Idle /\ disk'[d] # disk[d] => d \notin wrtprt]_vars
=============================================================================
