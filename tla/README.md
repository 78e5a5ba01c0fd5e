# A formal model of the z80v2 system software

z80v2 is a home-built Z80 computer that runs CP/M 2.2.  Its software is assembly
language: the CP/M command processor and BDOS (`src/src/cpm/cpm22.asm`), two BIOSes
(`cbios_kbc.asm` for keyboard and video, `cbios_sio.asm` for a serial terminal), the device
drivers of `src/src/base`, a boot sector and a ROM loader, and the C program of an 8051 that
decodes joypads.  This directory holds TLA+ models of it, TLC configurations that check them
on small instances, and TLAPS proofs that hold for every instance.

## 1. The system

| component | source | state | operations | properties that make it correct |
|---|---|---|---|---|
| BDOS file system | `cpm22.asm` 1895-3265, 3370-3643 | on disk: directory entries, data blocks; in memory: allocation vector, high-water mark of the directory, WRTPRT and LOGIN bits, the FCBs of the program | login, reset, write protect, make, open, close, sequential and random read and write, erase, rename, set attributes; warm boot and aborts | no block in two places; the vector covers what is in use; what was closed stays; random access reaches the record asked for; a R/O disk is not written |
| BDOS drive selection | `cpm22.asm` 1729-1771, 3375-3427 | current drive, LOGIN and WRTPRT words, checksum and allocation vectors in the BIOS | SELECT, AUTOSEL, LOGOFF, checksum test | drives do not disturb each other; a changed disk is not written |
| BDOS sector addressing | `cpm22.asm` 1803-1890 | last track and first record of that track | TRKSEC | track and sector are the quotient and remainder of the record number |
| BDOS console | `cpm22.asm` 1335-1649 | one look-ahead character, column, printer flag | CKCONSOL, OUTCHAR, RDBUFF, DIRCIO | no key is lost; the column is the one on the screen |
| CCP | `cpm22.asm` 45-1232 | BATCH, CDRIVE, CHGDRV, INBUFF, TBUFF; TDRIVE in page 0; the batch file $$$.SUB on drive A | prompt, lines from the console and the batch file, built-in commands, loading of programs | the prompt is on the drive that was chosen; a batch is run in order, none of its lines twice, and not after it was stopped; it ends |
| BIOS disk driver | `cbios_kbc.asm` 155-383, `base/disk.asm` | track, sector, DMA address; the registers of the CF card | HOME, SELDSK, SETTRK, SETSEC, READ, WRITE | a sector reads as last written; errors are reported |
| BIOS console and keyboard | `cbios_kbc.asm` 121-150, `base/kbc.asm` | the output buffer of the 8242, shift and lock state | CONST, CONIN, KBC_PollKey, KBC_WaitKey, KBC_KeyChar | every key typed is returned once, in order |
| Video display | `base/vdp.asm` | cursor, screen, pointer into video memory | PutChar, Scroll, Clear | what is written stays inside the name table |
| Serial console | `cbios_sio.asm`, `base/sio.asm` | the MC68B50 | CONST, CONIN, SIO_Write | as above; every call returns |
| Boot | `boot.asm`, `loader.asm`, `cbios_kbc.asm` 47-119 | ROM or RAM, the pages of memory, SECNO | loader, memory test, load loop, BOOT, WBOOT, GoCPM | the system is loaded whole or the machine halts; a warm boot brings all of it back |
| Arithmetic | `base/math.asm` | registers | MULT8, DIV16 | product and quotient for the operands that the display gives them |
| Joypad decoder | `keilc51/z80-joypad-decoder.c`, `benchmark/benchmark_joypad.asm` | interrupt flags, the bytes of the two pads, the latch P1 | two interrupt handlers; the frame routine that reads them | what is served was held down since the read, each button at its bit; the frames settle |

The CCP and the program call the BDOS (one call at a time, it runs to the end), the BDOS calls the BIOS,
the BIOS the drivers; a program ends in the CCP or in the warm boot, which loads CCP and BDOS again.  CP/M itself
has no interrupts.  What is hard is therefore less
interleaving of threads than *long sequences of legal calls*: the program, the FCB in its
memory, the allocation vector in the BDOS and the directory on the disk are four views of one
file, brought together only now and then, and the machine may be reset (or a call may be
aborted by a disk error, which ends in a warm boot) between any two writes to the disk.  What goes on
beside the Z80 is the CF card, the keyboard controller and the 8052 of the joypads; those are processes of
their own in the models.

## 2. Modules

| module | contents |
|---|---|
| `BdosFile` | the file system: state, one action per function or per disk write, the properties |
| `BdosFileInv` | the inductive invariants behind its safety properties: `IInv`, `WalkedInv`, `FileInv`, `DataInv` |
| `BdosFileProof` | TLAPS: lemmas about the operators of `BdosFile`; types; `IInv` is inductive; blocks and entries are not shared; walks are complete, protected disks stay, and what is written is kept, recorded and read back, except after error 6 |
| `TrkSec` | TRKSEC: from a record number to a track and a sector |
| `BiosDisk` | the disk driver of the BIOS over the CF card, and WBOOT |
| `SectorStore` | abstract: a store of sectors, what the disk promises the BDOS |
| `DiskPath` | `TrkSec` composed with `BiosDisk`; implements `SectorStore` |
| `DiskPathProof` | TLAPS: TRKSEC is exact, on its own and in that composition, and the composition implements `SectorStore` |
| `BdosDrive` | drives: login, selection, checksums, the layout of the vectors |
| `BdosDriveProof` | TLAPS: the current drive comes back, protected directories stay, sectors are written over themselves, and for drive A alone: checksums tell what changed, files are given free blocks |
| `Keyboard` | from the key to the program: controller, driver, CONST and CONIN, CHARBUF |
| `KeyboardProof` | TLAPS: characters come in order, and as they were meant |
| `Vdp` | the display: PutChar, line break, backspace, scroll |
| `LineEdit` | RDBUFF and OUTCHAR of the BDOS composed with `Vdp` |
| `Arith` | MULT8 and DIV16, round by round (used by `Vdp`) |
| `LineEditProof` | TLAPS: MULT8 and DIV16 are exact; the column that is counted is the cursor's, and the line on the screen is the one in the buffer |
| `FoldTheorems` | TLAPS: what the left fold of a sequence is, for any operator (used by `LineEditProof`) |
| `Boot` | ROM loader, boot program, BOOT, WBOOT and GoCPM: how the system comes into memory |
| `Ccp` | the command processor: lines, batch file, drives, programs |
| `System` | `Boot` composed with `Ccp`: from the reset to the prompt and back |
| `SystemProof` | TLAPS: the system is whole whenever it runs; the drive of the prompt, the order of a batch, and that a stopped one stays so |
| `Joypad` | the joypad decoder, the users and the program that reads the ports |
| `JoypadProof` | TLAPS: what is served was held down |
| `MCBdosFile`, `MCDiskPath`, `MCBdosDrive`, `MCKeyboard`, `MCLineEdit`, `MCSystem`, `MCJoypad` | TLC instances |

`PROJECT.json` names the lines of the source for each definition.  In each module, definitions
marked `\* mutant` are plausible bugs that no specification uses; `PROJECT.json` pairs each
with the property that notices it.

### BdosFile

State and code: `dir` is the directory on disk (512 entries of 32 bytes: user and name, EX and
S2 as one extent number, the record count, the 16 bytes of block numbers, the R/O
bit).  `data` is the contents of the blocks.  `alloc` is the allocation vector, `mark` the word
SCRATCH1 points at, `wp` and `logged` the drive's bits of WRTPRT and LOGIN.  `fcb` is what the
program keeps: `dirty` is bit 7 of S2 inverted, `bad` an S2 byte that POSITN4 has set to C0h.  `io`
and `scan` say how far a call has come that writes to the disk several times.  `wr` and `synced`
are history: the value last written to each record and which of those a close has recorded.
`eof` is history too and marks an FCB that GTNEXT5 has left between two extents.

`Overflow` is POSITION's error 6, for a random record whose third byte is not 0: the FCB keeps extent and blocks, but SETS2B7 has
marked it as not modified, so a later CLOSEIT does nothing for it.  `over` is history and marks such an FCB until it is written to again in
a way that counts, opened or moved.  Records of an extent that an FCB leaves without recording them are taken out of
`wr`: what `Durable`, `Pending` and `ReadBack` say of a record is said up to that moment, and `ExtentKept` and `Pending` say
that it comes only after error 6, or on a protected disk.

A BDOS call is one action when it writes the disk at most once.  Reads and writes of records
are a chain: the call (`ReadSeq`, `WriteSeq`, `Position`), `CloseExtent` (CLOSEIT of the old
extent), `OpenExtent`, `AddExtent` or `NoExtent`, and `ReadRecord` or `WriteRecord`.  Erase,
rename and set attributes are a start (`Delete`, `Rename`, `SetAttr`) and one action for each entry.
`Restart` is the warm boot, the reset button and the end of every abort (ERROR2-5), enabled
at any time, and so between any two writes.

Assumptions about the program: it keeps one FCB per file, does not create or rename to a name
that exists, does not erase or rename an open file and calls function 13 with no file open, as the CCP
and the programs of CP/M do.  After a random access has failed it does not go on
sequentially with that FCB.  The constant `StaleSeek` says whether it may use random access on an FCB
whose sequential access has just come to the end of the file on an extent boundary.

### TrkSec, BiosDisk and DiskPath

`TrkSec` has the words that the BDOS keeps for each drive: the last track and the first record of
that track (SCRATCH2, SCRATCH3), in words of `Word` values.  TRKSEC walks back while the
record is before the track (`Back`), forward while it is past it (`On`, where an addition that
carries ends the walk) and then sets the sector (`Found`); the offset of reserved tracks is added for SETTRK.

In `BiosDisk`, `dskno`, `trkno`, `secno`, `dma` are the variables of the BIOS, `hst` is HSTBUF.  A
call of READ or WRITE goes through `Regs` (the address registers of the card), `Command` (wait until
ready, give the command), `Data` (512 bytes, each after a poll of DRQ) and `Check` (wait, look at ERR).
The card (`card`, `sectors`) runs concurrently: `Accept` takes a command, asks for data or fails,
`Program` puts an accepted sector on the medium and may fail late if `LateFault`.  WBOOT reads sectors
0 to NSECTS-1 of track 0 of drive A with the same code.

`DiskPath` runs `TrkSec` first and then the transfer on the address it found: `SetAddress` is the call of SETTRK
and SETSEC.  It implements `SectorStore` (`Implements`): a store addressed by drive and position, in
which a transfer begins and ends with success or with an error, and a write that ends with success
changes exactly its own sector.  `PlaceOf` is the position of a record behind the reserved tracks, `Place` those of all
records and of the system; `TrackOf` is the track of a record, and `TracksFit` says that the byte of SETTRK can hold it.

### BdosDrive

`disk` is the directory in each drive; `active`, `login` and `wrtprt` are ACTIVE, LOGIN and WRTPRT;
`alv` and `csv` are the *memory* of the allocation and checksum vectors, with those of drive d at
d times `AlvStride` and `CsvStride`, so that an instance can give them the overlap that the tables
of the BIOS have or, with a set `Drive` of numbers further apart, none; `buf` is DIRBUF, shared by all drives.  `call` says where a call is: `login` is the
walk of BITMAP (one action per entry, `LoginEntry`), `begin` is after AUTOSEL, `walk` is the directory search of a
file function (`WalkEntry`), `update` is between a hit and the write of the directory (`DirWrite`).
`Change` puts another disk in a drive, only while no call is in progress.  Files have one block at
most: extents are `BdosFile`'s business.  `Outcome` is whether a disk operation succeeds and the
answer at the "Bad Sector" prompt; with `MayIgnore` FALSE an error ends in the warm boot (`Restart`).
The program has one file of its own, makes it only once on each disk and does not erase it.

### Keyboard

`queue` holds the scan codes in the controller.  `Poll` is KBC_PollKey as CONST calls it (it reads a code and
drops it); `Wait` is the loop of KBC_WaitKey, one code per step, and `Return` the return of CONIN into the BDOS call
that wanted the key: `get` (GETCHAR), `direct` (function 6), `peek` (CKCONSOL after CONST
said ready) and `pause` (CKCONSOL after ^S).  `charbuf` is CHARBUF.  Each code carries as history the number of the
press and the character the user meant.

### LineEdit and Vdp

`Vdp` is a function from a screen and a character to a screen: name table, cursor, line break,
backspace, scroll.  `LineEdit` has the variables of RDBUFF: the line (register B and the buffer),
STARTING, and CURPOS, which the BDOS keeps beside the cursor of the display.  A key is one action
with all the output it causes: `OutChar` moves CURPOS and, unless OUTFLAG is set, sends
the character to `PutChar`.  ^R, ^U, ^X and backspace go through `NewLine`, `Backup` and `Retyped` as in the code.

The row and column of a line break are those of the code: `Div16` and `Mult8` of `Arith`, which run the rounds
of `math.asm` (the carry of the shift, the trial subtraction, product and factor in one register pair).  That they are quotient and product
is proved, and `MCLineEdit` has TLC look at the ends of their ranges.

`Layout` and `Behind` say, from the characters alone, what a line looks like from a given column on and which column is behind it; the
properties compare the screen and CURPOS with them.  `Overlong` says whether the user may type past the columns that CURPOS can
count, `BackAcross` whether he backspaces in a line that ^E broke.  `Room` is the former, as a guard of the keys that make a line
longer; the code has no such guard, section 4 says what happens there.

### Boot, Ccp and System

`Boot` sees memory as a ring of pages of one CP/M sector, `mem`; `stage` is the program that runs.  The ROM `Loader`
copies the boot program to 8000h; `MemCheck` switches the ROM off and overwrites the low half, or halts; `LoadSector`
is one round of ReadLoop, whose destination goes on past FFFFh into page 0 (`At`); `GoCpm` writes the
jumps of page 0 over what it has put there.  `WBootSector` is one sector of WBOOT, which ignores the answer of READ
(`ReadFault`).

`Ccp` has one action for each call of the BDOS that can fail or be interrupted on the way of a line: `GetInp`, `ReadBatch`, `CloseBatch`,
`Echo` for a line of the batch, `FromConsole` and `Typed` for one of the console; `Cmmnd2` and then one action for each kind of
command.  `DelBatchIn`, `GetBack1` (back to the prompt, or SYNERR and
DELBATCH if there is more on the line), `SetCDrv`, `Named`, `DSelect` and `ResetDr` are the subroutines.  `sub` is the record count of $$$.SUB in each user
area (the file is opened in the user area of the moment); its lines are numbered as its records, so a batch counts down to 0.
`user`, `active`, `dma`, `wrtprt` are what the BDOS keeps for the CCP.  An error of the BDOS (`FailIn`, `pc = "error"`) waits
for a key and warm boots (`Acknowledge`).  `home`, `turn`, `cut` and `stopped` are history: the drive that was asked for, the line run last,
whether a line was taken off the file and not run, and whether a batch was stopped.

`System` adds what they share: `Start` is GoCPM and COMMAND, `Leave` is part of every reset and warm boot, and
`Overlay` is a program that uses the memory of CCP and BDOS, after which it cannot return or call them.

The constant `Upsets` names four sequences that the code mishandles: the run `ccp` has none of them, and `System_rename.cfg`, `System_dma.cfg`,
`System_protect.cfg` and `System_user.cfg` have one each and show what it leads to.

### Joypad

The decoder is an interrupt routine for each port: `Enter`, `Poll1`, `Poll2`, `Write`, each pad in a step of its own, so
that buttons go up and down between them.  `flag` is IE0 and IE1, which the falling edge of a read sets (`Strobe`);
`P1` is the latch.  `VBlank`, `PollJoypad1`, `Messages` are the frame routine of the benchmark; `PollJoypad2`
is its second routine, which nothing calls, and `both` says whether this program does.
`Wiring` is the table in the head of the source, `Mapped1` and `Mapped2` are the assignments of the code.

## 3. Runs

| run | instance | properties | what it shows |
|---|---|---|---|
| `file_shape` | 2 names, 2 FCBs, 2 entries of two extents, 2 data blocks, `StaleSeek` | `TypeOK NoCrossLink AllocSound MarkCovers ProtectedButAttr` | two files compete for entries and blocks; both can be full |
| `file_extents` | 1 name, 4 extents, 2 per entry, 3 data blocks, fairness | `Durable OneEntry Closable ReadBack WalkComplete CallReturns` | extents in the same and in different entries; every call returns |
| `file_data` | 2 record values, 2 records per block and extent | `Durable Pending ExtentKept` | contents, not only places; only error 6 lets go of them |
| `file_stale` | `StaleSeek` | `ProperRecord` violated | finding 1 |
| `disk_path` | 2 drives, tracks of 2 records, bytes of 2 bits, words of 3, fairness | `TypeOK Implements Exact TransferEnds` | TRKSEC, driver and card together are a store of sectors |
| `drives` | drives 0 and 2, vectors of 2 at distance 1, 4 entries in 2 sectors with a checksum each, 2 blocks | `TypeOK NoFalseAlarm Noticed SameSector CurrentKept TakeFree` | drives do not disturb each other; a changed disk is noticed |
| `drive_alv` | drives 0 and 1: vectors closer than they are long | `TakeFree` violated | finding 6 |
| `keys` | S and C with SHIFT, CTRL, and a key without character; queue of 3, 3 presses, fairness | `TypeOK Meant InLine Wakes` | the way of a key to the program |
| `key_status` | the same, 2 presses | `StatusKeeps` violated | finding 10 |
| `line` | a screen of 5 rows of 5, a CURPOS of 16 columns, lines of 4, tab stops of 4, 6 keys | `TypeOK ColumnKept Shown` | line, CURPOS and screen agree |
| `ccp` | 8 pages, a system of 2 sectors in a load of 5, 2 drives and user areas, 2 batches of up to 3 lines, 1 reset, ^C or key, fairness | `TypeOK Whole PromptDrive InTurn NoRevival BatchEnds` | the system is whole when it runs; drive and batch survive errors, programs and warm boots |
| `joypad` | 4 buttons of both pads, 4 presses or releases, fairness | `TypeOK Served Settles` | what is served was held since the read; the frames settle |

Beside these, section 4 names configurations that are no runs: each is the instance of a run with one constant or property changed, and TLC finds
its property violated by something the code mishandles.

| configuration | module | instance | violated | finding |
|---|---|---|---|---|
| `BdosFile_overflow.cfg` | `MCBdosFile` | 1 record per extent | `ExtentClosed` | 2 |
| `BdosFile_attr.cfg` | `MCBdosFile` | 2 extents in one entry | `WriteProtected` | 3 |
| `DiskPath_byte.cfg` | `DiskPath` | a record on a track past `Byte` | `Implements` | 4 |
| `DiskPath_late.cfg` | `MCDiskPath` | `LateFault` | `Implements` | 5 |
| `BdosDrive_csv.cfg` | `MCBdosDrive` | neighbours whose checksums overlap | `NoFalseAlarm` | 7 |
| `BdosDrive_ignore.cfg` | `MCBdosDrive` | drive A alone, `MayIgnore` | `SameSector` | 8 |
| `BdosDrive_changed.cfg` | `MCBdosDrive` | drive A alone | `ChangedKept` | 9 |
| `LineEdit_break.cfg` | `MCLineEdit` | `BackAcross` | `ColumnKept` | 11 |
| `System_fault.cfg` | `MCSystem` | `ReadFault` | `Whole` | 12 |
| `System_rename.cfg` | `MCSystem` | `Upsets` = {"rename"} | `PromptDrive` | 13 |
| `System_dma.cfg` | `MCSystem` | `Upsets` = {"dma"} | `InTurn` | 14 |
| `System_protect.cfg` | `MCSystem` | `Upsets` = {"protect"} | `BatchEnds` | 15 |
| `System_user.cfg` | `MCSystem` | `Upsets` = {"user"} | `NoRevival` | 16 |

### Bounds, and why they are enough

*Files.* 2 directory entries and 2 or 3 data blocks are enough to be full, to hold two files or two
entries of one file, and to have a free entry below a used one; 2 extents per entry is EXTMASK = 1, the
value of this machine's disk; 2 records per block reaches both the first and the last record
of a block.  The code's numbers are larger (2040 blocks, 512 entries, 128 records in an
extent) but no code depends on them except through the comparisons that the small numbers
exercise too; the proofs hold for all of them.

*Disk.* With 2 sectors per track and bytes of 2 bits an address uses all four registers of the card, and
two tracks share a value of the second one, as four do in the code.  Records 1 and 4 are on different
tracks, in different sectors, and the walk goes both ways.  That the walk is right for all
records and widths is proved.  The tracks of `disk_path` fit a byte; `DiskPath_byte.cfg` has one that does not.  No run comes near the end of a word: the carry of the walk
is left to `WalkExactCorrect` and `PathExactCorrect`.

*Drives.* Two drives and one FCB are enough for a call that selects the other drive and back, and for vectors
that do or do not overlap: `drives` has two drives far enough apart (what other data the BIOS may have there is not modelled), `drive_alv` and `BdosDrive_csv.cfg`
have neighbours; `BdosDrive_ignore.cfg` and `BdosDrive_changed.cfg` need one drive only.  Two directory sectors of two entries have the reuse of the buffer in
them, and in `drive_alv` only the first has a checksum, as CKS need not cover the directory.  The disks put in are blank, or have
a file at one end of the directory or the other.

*Keys.* S and C are the keys the code compares with, and a key that has no character stands for all that
KBC_KeyChar maps to 0.  Three presses let one be held in CHARBUF, one be in the controller and one be
typed later; three codes in the queue are more than any one step of the driver looks at.

*Line.* Lines of up to 4 keys, prompts of 0 and 2, and tabs and control characters that take more than
a column fill and pass rows of 5 columns, and the longest input scrolls a screen of 5 rows.  The run starts on every
row, so scrolls come in the middle of lines.  `Byte` is 16: the fourth tab would leave the columns that are counted, and `Room` stops the user.  As on the
real machine (960 cells, 256 columns), the longest line that can be counted fits the screen with a row to spare (`LineSizes`).

*System.* The load of 5 sectors into pages 5 to 7 runs past the end of memory by two, so page 0 and one more page get sectors that are no
part of the system, and the low half has four pages, as many as the load could reach.  Two drives and two user areas give
the byte of TDRIVE the values that GoCPM takes for a drive and those it does not.  Three lines are a first, a middle
and a last one; the second batch comes while the first is running (from a program that a line of it has started) or after it was
stopped or cut.  One reset, ^C or key hits any moment.

*Joypad.* The buttons are two of port 1 from one pad, one of port 1 from the other and one of port 2, so that both masks and
both routines place bits, and pad 2 has bits on both ports.  With four presses a button can go down and
up between two polls of the same routine, twice.

### Fairness

`file_extents` assumes weak fairness of a transfer that has begun and of a walk that has begun;
`disk_path` of the steps of TRKSEC and the driver, and of the card finishing a command it was given;
`keys` of the loop in KBC_WaitKey and its return; `ccp` of the boot, of the steps of the CCP that do not wait for a key, and of
programs ending; `joypad` of the decoder and of the frame routine.  That a program ends is the program's promise, not the
code's: `BatchEnds` is about the CCP and says that a batch of programs that end comes to its end.  All but the card are loops of the processor inside one call, which nothing
interrupts but a reset (which `ccp` bounds); the driver polls the card without a timeout, so the code relies on the
card as the run does.  No user is assumed to do anything: neither at the keyboard, nor at the pads, nor at the reset button.  `drives` and
`line` check safety only and stop at a bound, so deadlock is not checked there.

## 4. Findings

Findings 1, 6 and 10 are runs of `PROJECT.json`; for each of the others the configuration named shows it.

1. *Random access after the sequential end of file* (`file_stale`).  GTNEXT5 leaves the FCB
   with the new extent number and the old block numbers; POSITION compares only the number.  The next random
   write to that extent goes to the blocks of the previous entry and destroys its records.
2. *Error 6 forgets what was written* (`BdosFile_overflow.cfg`).  A random call with r2 not 0 fails, as it should, but goes through POSITN5, which
   sets the bit that CLOSEIT takes for an FCB that was not modified.  The next call for another extent, or CLOSE, answers that all is well and
   records nothing of what was written to this one.
3. *Set attributes on a protected disk* (`BdosFile_attr.cfg`).  SAVEATTR does not call CHKWPRT.  `ProtectedButAttr` is the property weakened by just this call.
4. *Tracks past 255* (`DiskPath_byte.cfg`).  SETTRK stores register C only, while READ and WRITE use ten bits of TRKNO and the disk parameter
   block makes the BDOS use 1024 tracks: track 256 is track 0.
5. *A late write fault is lost* (`DiskPath_late.cfg`).  WRITE looks at the error bit right after the last byte; a card that fails with
   the sector then is noticed by the next command only.
6. *Allocation vectors overlap* (`drive_alv`).  The BIOS reserves 31 bytes for each drive, DSM = 2039
   needs 255.  To log in one drive clears bits of another, whose free blocks are then not free.
7. *Checksum vectors overlap* (`BdosDrive_csv.cfg`).  16 bytes of 128: the login of one drive makes another one read only later, though its disk was not changed.
8. *A bad sector that is ignored* (`BdosDrive_ignore.cfg`).  After "Bad Sector" and a key other than ^C nothing is retried, as the comment says: the call goes on with
   the old contents of the buffer and writes them over the sector.
9. *A changed disk is noticed too late* (`BdosDrive_changed.cfg`).  The search notices it, after CHKWPRT: the call that notices still writes.
10. *CONST consumes the key* (`key_status`).  It reads the scan code from the controller to see
   whether one is there.  The CONIN that follows waits for the next key; the first is lost, and if it
   was a code of SHIFT or CTRL the driver has the wrong modifiers from then on.
11. *Backspace over ^E* (`LineEdit_break.cfg`).  The number of columns to back up is negative and taken as a byte, up to 255 columns.
12. *A warm boot that cannot read* (`System_fault.cfg`).  WBOOT ignores the answer of READ and starts a system with a sector missing.
13. *RENAME with a wild second name* (`System_rename.cfg`).  The error is printed after CHGDRV was overwritten, so the
   prompt stays on the drive of the first name.
14. *The DMA address of a batch* (`System_dma.cfg`).  A program that returns with another DMA address, or that is too large, leaves GETINP reading
   the batch record to that address and taking the line from TBUFF: a line is run that is not the next one.
15. *A batch on a protected drive* (`System_protect.cfg`).  After a program that protects drive A and returns, CLOSE does not count the batch down but reports
   no error: its line is run for ever (`InTurn` and `NoRevival` fail too).
16. *A batch and the user area* (`System_user.cfg`).  After USER n, or a program that changes the user area, $$$.SUB is opened, and deleted, in another area: the
   batch is lost there and found again later, after it was stopped.  (The file that SUBMIT makes in a user area other than 0 is not found
   after the warm boot either, which sets user 0.)

The hazards of `PROJECT.json` name properties of passing runs only for what those runs exercise, and say so where a property fails or where no run
reaches the hazard.  The following are no findings, because no document or comment of the repository says otherwise or because
they were met while reading only.

*Files and disks.*

- Function 37 on the current drive clears its LOGIN bit, but SETDSK logs in only a drive that is
  not the current one: if a file is open over a change of disk, which CP/M asks programs not to do, the old allocation vector is used
  (`LogOffActive` TRUE: `TakeFree` fails).
- Function 13 or 37 while a file is open whose new block only its FCB names: the login makes the block free again, and the next file to
  grow gets it too.  The programs of `BdosFile` call function 13 with no file open, and that of `BdosDrive` has no next file.
- Search next (function 18) relies on the state that search first has left; nothing notices a call in between.

*Console.*

- CURPOS is a byte and wraps after 256 columns, with a line of 32 tabs or of characters and rubouts in turn (`Overlong`
  TRUE: `ColumnKept` fails).
- Backspace after a rubout erases the echo of the rubout instead of the character (`Shown` leaves out lines with rubouts).
- CHARBUF uses 0 for empty: a key without a character is announced and then forgotten.
- A CR alone starts a new line on the display but does not reset CURPOS (`LineEdit`'s program prints CR LF, as CP/M programs do).
- A control character below 0Dh in the last cell would scroll one cell early, as the CP with 0Dh leaves a carry for
  the SBC; the characters of `LineEdit` are printable there.
- The loop of SIO_Write tests flags that DEC DE does not set, so it would not end; it has no caller.

*Boot and command processor.*

- GoCPM compares the whole byte of user and drive with the number of drives: with a user number the drive is forgotten as well
  (the history of `PromptDrive` follows the code there).
  A drive letter that does not exist is forgotten in the same way, which lets the machine recover.
- A reset between CloseBatch and the run of a line loses that line: each line runs at most once (`cut`).
- SAVE deletes the old file before it makes the new one, and increments an answer of CLOSE that ENTRY1 has incremented
  already, so a failed close goes unnoticed.
- The memory test of the boot program covers 7FFFh down to 1 only.

*Joypad.*

- Nothing makes the Z80 wait for the decoder: a read gets the answer to the one before.  A program that reads both ports
  in turn gets the layout of the other port each time (`both`; `Served` allows for it).

## 5. Proofs

### The file system

`BdosFileProof` proves `TypeCorrect`: `Spec => []TypeOK`, then
`InvCorrect`: `Spec => []IInv`, and from it `NoCrossLinkCorrect`, `AllocSoundCorrect`,
`MarkCoversCorrect` and `OneEntryCorrect`, from the assumptions on the constants alone
(`SizeAssumption`, `ValueAssumption`, `NameAssumption`) and for both values of `StaleSeek`.

None of the four is inductive.  A block is in three places in turn: free, in an FCB only (from
FNDSPACE to the next close), in FCB and entry; and CLOSEIT copies block numbers from the one to the
other in both directions.  So the invariant adds that blocks of different FCBs are different
(`FcbApart`); that a block which FCB and entry share is in the same slot of both and the entry is
the one that CLOSEIT would find (`FcbDir`), unless the FCB has lost its place, in which
case CLOSEIT finds none (`EofHome`); that no file is open twice (`OneFcb`); what a
walk may rely on (`WalkState`: the file is not open, and a rename will not meet its own target); and that
transfers and open FCBs exist only on a logged-in drive (`Control`).  The proof has one lemma for
each kind of change: an entry is added, an FCB is loaded, moved, closed or given a block; and one
step for each action.  That the searches return an entry at all rests on `LeastNatural`.

The second half of the module goes on from there.

- `WalkCompleteCorrect` and `ProtectedCorrect` are the action properties `WalkComplete` and `ProtectedButAttr`, without
  further hypotheses.  `WalkedInv` says that a walk runs on a disk that is not protected and that no live entry *behind* it has a name it
  is to change; a rename could put one there, were the new name one of the old ones.
- `FileCorrect` is about where an FCB belongs.  `Placed(f)` is an FCB that has the blocks of the extent it names; `Homed` says that such
  an FCB has an entry in the directory and every block of that entry (`AtHome`), and `Placement` that only such an FCB is ever written to or
  is dirty, also in the middle of a call that moves it.  `ClosableCorrect` follows: CLOSEIT finds the entry, and never a block
  number of it that differs.
- `DataCorrect` adds the contents.  `Recorded`: the directory leads to every record that a close has recorded.  `Dirtied`: every other
  record written has an open FCB, on its extent, that is dirty or that error 6 has marked.  `Current`: every FCB on its extent leads to what was last
  written to it.  `Closed`: when the next extent is opened, nothing of the file is unrecorded.  `DurableCorrect`, `PendingCorrect`,
  `ExtentKeptCorrect` and `ReadBackCorrect` are read off it.  All of them speak of records that have not been left behind after error 6 (or on a disk
  that was write protected under an open file): those are lost (finding 2).

The four parts of `DataInv` need each other.  A close merges `Current` into `Recorded` (`CloseHeld`); an open takes `Current` from
`Recorded`, which is sound because `Closed` or the absence of another FCB says that nothing else is newer (`OpenedUpToDate`); a write keeps `Recorded` because the block
written to is either free or the FCB's own, and then two records of an entry have different places in it: extent and record determine slot and offset
(`SlotInjective`: the arithmetic of EXTMASK and BLKSHFT).  A rename moves records from one name to the other together with
the entry, which is right only because the target has no entry for the same extents (`WalkState`).

Except for the walks and the protection these theorems have the hypothesis `~StaleSeek`: no random access with an FCB that has just run to its end on an
extent boundary.  It cannot be dropped: `file_stale` shows what happens without it.  `DataInv` holds in all
states of `file_data` and `FileInv` in those of `file_extents` besides; TLC was asked before the proofs were written.

### Sector addressing

`DiskPathProof` begins with TRKSEC on its own: `WalkInvCorrect` (`T!Spec => []T!IInv`, where `T` is the instance of `TrkSec` in
`DiskPath`) and `WalkExactCorrect`: TRKSEC ends at the quotient and the remainder of the record number by the size of a
track, for every size of track and of word.
The hypothesis is `SizesOK` (the sizes are positive, a track is not longer than a word); it is an operator
rather than an assumption because `DiskPath` uses the module as an instance, and is evaluated there as a part of
`WalkAssumption`.  `Exact` is about the end of a walk; the invariant adds what holds during it (`Walk`): the
running first record is the running track times the sectors per track, and when the walk goes forward it is not past
the record.  The forward walk ends when the next track begins past the record *or past the word*:
the lemma `Quotient` says that a track found either way is the quotient.

The composition comes next: `PathInvCorrect` and `PathExactCorrect` are about `PathSpec`, in
which the drive, track and sector of TRKSEC are the variables of the BIOS and the warm boot sets them too.  The steps
of the walk are the same; of all others it is enough that they leave a drive
that exists and an address that is one (`AddressOnly`).  The assumptions are `DiskAssumption` and `WalkAssumption`.

`ImplementsCorrect` is the refinement, `PathSpec => Implements`, for any number of drives, tracks, sectors and values.  The state of the
abstract store is computed from the card: a sector that the card has accepted counts as written (`card.buf` over `sectors`).  The
proof has a lemma for each step of the driver, the card and TRKSEC, which maps it to a step of the store or to a stutter.  The steps need
`PInv`: when a transfer starts, TRKNO and SECNO are the quotient and the remainder of the position (from `PathExactCorrect`); while it runs, the card's registers
and its command are those of the transfer; `given` is set exactly when the card has accepted the data; and
different positions have different sector numbers, so the write of one record leaves the store of every other as it was.  `PathTypeCorrect` comes with it.

Both have two hypotheses.  `~LateFault`: the card fails before it has taken the data or not at all; with a later failure the driver reports success
for a write that is lost (finding 5).  `TracksFit`: the track of every record used is below the 256 values of the byte that SETTRK
stores.  The disk parameter block of this machine allows 1024 tracks of 64 sectors, so the theorem is about
records below track 256 (the first 2 MB of a drive); behind them two tracks do share sectors (finding 4).  `MCDiskPath` has TLC
check that its instance satisfies `TracksFit`.

### Drives

`BdosDriveProof` is about `BdosDrive` for any number of drives, any size of directory and sector and any distance of the vectors
(`TableAssumption`, `HabitAssumption`, and `DisksAssumption`, which says that `Disks` are directories).  Every proof uses
`Types`, which is `TypeOK` but for the ranges of the checksums and the allocation vector: all that the other theorems need to know of a
checksum is that equal sectors have equal ones.  `TypeCorrect` adds the ranges.  A checksum is a fold over the slots of a
sector, chosen as a function on the subsets of the slots; that there is one, and that its values are bytes, is an induction
over the number of slots, made from `LeastNatural`.

- `CurrentKeptCorrect`: `CurInv` says that while a call is on another drive, OLDDRV is the one the program chose.
- `ProtectedKeptCorrect`: `ProtInv` says that a search that will write began on a drive that was not protected.  It is proved only; no run repeats it.
- `SameSectorCorrect`: a search and an update may rely on the buffer not only when they have found their entry but at every
  entry that is not the first of its sector (`SectorInv`), as NXENTRY reads at the first only.
- `NoticedCorrect` adds that in such a place the checksum has been compared already (`SumInv`).
- `NoFalseAlarmCorrect`: `AlarmInv` says that for a drive that is logged in and whose disk was not changed, each checksum in memory is
  that of the sector on disk; while a drive is being logged in, of the sectors passed.  That needs that the current drive is never logged off
  and vectors that do not overlap.  The lemma `NoFalseAlarmApart` has that as the hypothesis `CsvApart` (one drive only, or `CsvStride >= NumCheck`; then no two
  checksums share a byte, as `Strides` shows).
- `TakeFreeCorrect`: `SpaceInv` says that for a drive that is logged in and whose disk was not changed, the allocation vector has the
  blocks of the directory and of every entry; while a drive is being logged in, of the entries passed.  Two facts make it inductive.  An erase
  takes one bit away, which must be no other entry's: so the disks are `Sound` (a property that every write of the BDOS keeps, and that
  the disks put in are to have: the hypothesis `Undamaged`).  And the program's own file is *not* among the entries counted unless its FCB is open without a
  block: only then does FNDSPACE look for one, and on a disk that was changed in between CLOSEIT may write a block into it that
  the vector does not have.  `CallInv` has what each call relies on, `LoginInv` that a login finds its entries in the buffer.  The lemma
  `TakeFreeApart` has the hypothesis `AlvApart` (one drive only, or `AlvStride >= NumBlock`): the vectors do not overlap.

The tables of this machine's BIOS satisfy `CsvApart` and `AlvApart` for one drive only (findings 6 and 7), so the two theorems are stated for drive A alone
(`Drive = {0}`), whatever the distances of the vectors; the lemmas are what they follow from, and what a BIOS with larger tables would give.

The last four suppose that no bad sector is ignored (`~MayIgnore`; finding 8 says what happens otherwise), and `MCBdosDrive` has TLC check that its disks are
`Undamaged`.  The run `drives` checks the same properties with two drives.

### The keyboard

`KeyboardProof` proves `TypeCorrect`, `InLineCorrect` and `MeantCorrect` for any set of keys with the ones the code compares with
(`KeyAssumption`), any length of queue and number of presses.  `Numbers` follows the number of each press: it
grows from the program over CHARBUF and the queue to the keyboard, and every number is in one of these places or was
missed.  CHARBUF is empty whenever a call waits for a key, so that it cannot be overtaken.  `Modifiers` follows SHIFT and CTRL: what the driver has
in ShiftStatus and CtrlStatus, changed by the codes before a key in the queue, is what was held
when that key was pressed (`Agrees`), for each modifier that CONST has not swallowed a code of.  The induction is over the head of the queue only: to read a
code moves its effect from the queue to the status.

### The system and the command processor

`SystemProof` proves `SystemWhole`: `Spec => []Whole` of `System`, if no system track is unreadable (`ReadFault` FALSE), from `BootAssumption`,
for every size of memory, system and load, also one that wraps.  The invariant `SysInv` says at each stage how much is
in place: in the load, all sectors below SECNO that are system; in the warm boot, those below SECNO and the BIOS, which
no program overlays; that ROM is off from `MemCheck` on; and that the jumps of page 0 are written after the load has passed page 0.

It also proves `PromptDriveCorrect` (for `Upsets` without "rename"), `InTurnCorrect` and `NoRevivalCorrect` (for `Upsets` empty), for any number of
drives, user areas, lines, batches and resets.  `DriveInv` says at each place of the CCP which drive is selected and
which is current, and that the byte of page 0 brings a warm boot to the same drive or to A.  `BatchInv` ties the record count of the file, the line in INBUFF and the line run last together: the count is the line
run last (`FileInv`), or one less while a line is on its way from the file to its run (`LineInv`), or after a line was lost to a
reset; a batch in progress is in user area 0, with the standard DMA address and a drive A that can be written; and
when a batch was stopped, BATCH is off and the file is gone.

`TypeCorrect` has one hypothesis, that "dma" is not among the `Upsets`: with it the CCP takes the line from a TBUFF that no
record was read to, and TLC finds a line that is none.  `Steady` says what the decrement in CloseBatch and the sector number of a warm boot rely on.

### The line editor

`LineEditProof` goes from the arithmetic to the line on the screen, and needs induction over data at each
level.  The induction theorems of the library take an operator as a parameter, and so cannot be used; but an operator can also be the CONSTANT of
a module.  `FoldTheorems` proves `FoldEmpty` and `FoldOn` about the left fold of the community modules for any such `op`, from
the definition by the choice of a function on sets of positions, by well-founded induction (`NatSet`: a set that holds 0 and every successor holds all numbers).
`LineEditProof` instantiates it for the four folds of the model: steps of BACKUP, characters of output, layout and display of a line.

- `MultExact` and `DivExact`: MULT8 is the product of two bytes and DIV16 the quotient of a word by 1 to 32768.  The invariant
  of a round (`MultAt`, `DivAt`) says which bits of the operand are still to come and of which the result is already the
  product or the quotient; one lemma proves it for every round, with the weight of the bit as a parameter.  The shifts lose
  nothing (`TopBit`), and the byte that leaves the factor free is as wide as the product needs.
- *The screen.*  `Good` says that the cursor is drawn where it should be and that all behind it is blank.  `PutGlyph`, `PutBreak`,
  `PutBack` and `BackStepIs` say that PutChar and BACKUP keep it, also in the last cell and when the screen scrolls, and which cells
  keep their contents (`Lift` is by how much they move up).
- *Output.*  `Written(s, t)` says that text t stands just before the cursor, `Column(s, n)` that the cursor is in column n, rows joined.
  `OutGlyphs` and `ShowIs` say that what is output joins the text and moves the column by its length; `BackupIs`,
  `BackWritten` and `BackColumn` that so many steps back take both away again.  The screen scrolls a whole row at a time (`RowLess`) and
  holds more than a line can have columns (`LineSizes`), so that nothing of a line is ever lost at the top.
- *Keys.*  Neither `ColumnKept` nor `Shown` is inductive.  `LineInv` adds that the columns of the line end before CURPOS goes round, and what CURPOS is: the column behind
  the line when the line is shown as it is; no less than that after rubouts, which show a character again and so
  leave the cursor further right; and that STARTING is 0 after ^E.  A backspace shows the rest of the line again with
  OUTFLAG set, by which only CURPOS moves, and goes back by the difference: `BackspaceKeeps` needs that this difference is
  positive, for a difference of 0 would count as 256, and that what is taken away is what the last
  character looked like at its place, a tab as wide as it was shown (`FrontLess`).  TLC has checked `LineInv` in all states of `line`.

The results are `TypeCorrect`, `ColumnKeptCorrect` and `ShownCorrect`: `Spec => []Shown` for any screen, size of buffer, tab stops, prompts and keys,
from `ScreenAssumption`, `LineAssumption` and `KeyAssumption` and three hypotheses.  `LineSizes` is about sizes, and the machine's satisfy it (24 rows, 40
columns, a CURPOS of 256); `MCLineEdit` has TLC check it of the instance.  `~Overlong` and `~BackAcross` leave out the two things that go wrong in the code (section 4), as the
run does.

### The joypad decoder

`JoypadProof` proves `ServedCorrect` and `TypeCorrect` for any set of buttons and any number of presses.  `JInv` says that as
long as no newer read has come, each byte that the routine has polled is what its pad had at some
time since the read (`Fresh`), and that the first routine polls pad 1 first.  `Layout1` and `Layout2`
say that the bits the two routines set are those of the table in the head of the source.

### Only model-checked

- Liveness (`CallReturns`, `TransferEnds`, `Wakes`, `BatchEnds`, `Settles`): out of the prover's reach.
- The types of `BiosDisk` on its own (they are proved of the composition, `PathTypeCorrect`) and of `System` with "dma".
- The file system with `StaleSeek`, for `Closable`, `Durable`, `Pending` and `ReadBack`: they need not hold there.

## 6. Plan

Done: files, sectors, disk driver, drives, keyboard, display and lines, arithmetic, boot, command processor, joypads.  Left, in
this order:

1. `BdosFile`: search first and next, file size and set random.
2. An abstract store of records that `BdosFile` implements, and the proof of it.
3. What SAVE, ERA and REN do to files, by composing `Ccp` with `BdosFile`.

## 7. Not modelled

Search first and next, file size and set random only read the directory (and change the caller's FCB).  Functions 24, 25, 27, 29
and 31 return words.  The drivers' initialisation and the keyboard's indicators run once, at boot.  The printer, punch and reader are
empty routines in the BIOS.  What DIR, TYPE and SAVE print and how the CCP parses names are left out.

The serial console (`cbios_sio.asm`, `base/sio.asm`) polls one byte at a time and keeps nothing between two
of them.  The address decoders are combinational and the digital I/O is two port addresses.  The other benchmarks and the ROM in C
(`homebrew`) are straight-line port writes with their interrupts commented out.

`toolchain`, `roms` and `doc` are third-party: the vendored z88dk compiler, assembler and libraries are almost all of the C in the repository,
while the machine's own software is assembly language and one C file, the joypad decoder, which is modelled whole.
A share of mapped lines counted over C files therefore says little here: the models map to assembly.
