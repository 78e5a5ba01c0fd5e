------------------------------ MODULE BiosDisk ------------------------------
(***************************************************************************)
(* The disk driver of the BIOS (src/src/cpm/cbios_kbc.asm) over the CF card *)
(* (src/src/base/disk.asm), and the warm boot that loads the system with    *)
(* it.  The processor and the card run concurrently: the card works on a    *)
(* command while the driver polls its status register.                     *)
(*                                                                         *)
(* A transfer of 512 bytes is one step, so a sector and a buffer are one    *)
(* value.  The card is external: it takes a command, asks for or offers     *)
(* data or fails, and programs a written sector after it has the data.      *)
(***************************************************************************)
EXTENDS Integers

CONSTANTS
  NumDisk,   \* NDISKS
  Track,     \* the tracks the callers use
  SecPerTrk, \* 64 in the code: a power of two that divides Byte
  Byte,      \* 256 in the code
  Value,     \* contents of a sector
  NumSys,    \* NSECTS: the sectors that hold CCP and BDOS
  LateFault  \* may the card fail to program a sector it has accepted?

ASSUME DiskAssumption ==
  /\ NumDisk \in Nat \ {0} /\ SecPerTrk \in Nat \ {0} /\ Byte \in Nat
  /\ Byte % SecPerTrk = 0 /\ NumSys \in 1..SecPerTrk
  /\ Track \subseteq 0..(Byte * (Byte \div SecPerTrk))-1 /\ 0 \in Track
  /\ Value # {} /\ LateFault \in BOOLEAN

Disk    == 0..NumDisk-1
Sector  == 0..SecPerTrk-1
Address == Disk \X Track \X Sector
Share   == Byte \div SecPerTrk      \* tracks in one value of CF_REG3
NumLba  == NumDisk * Byte * Byte
Buffer  == 0..NumSys  \* 0 is the caller's, the others are the pages of CCP and BDOS

VARIABLES
  dskno, trkno, secno, \* DSKNO, TRKNO, SECNO
  dma,    \* DMAAD
  mem,    \* the buffers
  hst,    \* HSTBUF
  op,     \* "read" or "write"
  pc,     \* "idle", "ready" (before the command), "data", "check"
  res,    \* the answer of the last call: "ok" for 0, "bad" for 1
  boot,   \* the page WBOOT is at, 0 outside of WBOOT
  due,    \* WBOOT has yet to read that page
  card,   \* external: the card's state, address, buffer and ERR
  sectors,\* external: the contents of the card
  asked,  \* history: the track the caller of SETTRK named
  given   \* history: the card has taken the data of the write in progress

bios == <<dskno, trkno, secno, dma>>
vars == <<bios, mem, hst, op, pc, res, boot, due, card, sectors, asked, given>>

\* doc/CF Disk.txt: LBA0-5 sector, LBA6-15 track, LBA16-19 disk.
Lba(a) == (a[1] * Byte * Share + a[2]) * SecPerTrk + a[3]

TypeOK ==
  /\ dskno \in Disk /\ trkno \in 0..Byte-1 /\ secno \in Sector
  /\ dma \in Buffer /\ mem \in [Buffer -> Value] /\ hst \in Value
  /\ op \in {"read", "write"} /\ pc \in {"idle", "ready", "data", "check"}
  /\ res \in {"ok", "bad"} /\ boot \in Buffer /\ due \in BOOLEAN
  /\ card \in [at: {"idle", "busy", "drq", "program"}, lba: 0..NumLba-1, buf: Value, err: BOOLEAN]
  /\ sectors \in [0..NumLba-1 -> Value]
  /\ asked \in Track /\ given \in BOOLEAN

Init ==
  /\ dskno = 0 /\ trkno = 0 /\ secno = 0 /\ dma = 0 /\ asked = 0
  /\ \E v \in Value :
       /\ mem = [b \in Buffer |-> v] /\ hst = v
       /\ sectors = [l \in 0..NumLba-1 |-> v]
       /\ card = [at |-> "idle", lba |-> 0, buf |-> v, err |-> FALSE]
  /\ op = "read" /\ pc = "idle" /\ res = "ok"
  /\ boot = 0 /\ due = FALSE /\ given = FALSE
-----------------------------------------------------------------------------
(* What the BDOS calls.                                                     *)

Free == pc = "idle" /\ boot = 0
Rest == <<hst, op, pc, res, boot, due, card, sectors, given>>

\* A drive that does not exist changes nothing.
SelDsk(d) ==
  /\ Free /\ d < NumDisk
  /\ dskno' = d
  /\ UNCHANGED <<trkno, secno, dma, mem, asked, Rest>>

\* Only register C is stored.
SetTrk(t) ==
  /\ Free /\ trkno' = t % Byte /\ asked' = t
  /\ UNCHANGED <<dskno, secno, dma, mem, Rest>>

SetSec(s) ==
  /\ Free /\ secno' = s % Byte
  /\ UNCHANGED <<dskno, trkno, dma, mem, asked, Rest>>

\* HOME seeks track 0.
Home == SetTrk(0)

\* The caller fills its buffer.
Fill(v) ==
  /\ Free /\ mem' = [mem EXCEPT ![0] = v]
  /\ UNCHANGED <<bios, asked, Rest>>

\* WRITE copies the caller's buffer to HSTBUF first.
Call(o) ==
  /\ pc = "idle" /\ (boot # 0 => o = "read" /\ due)
  /\ op' = o /\ pc' = "ready" /\ given' = FALSE /\ due' = FALSE
  /\ hst' = IF o = "write" THEN mem[dma] ELSE hst
  /\ UNCHANGED <<bios, mem, res, boot, card, sectors, asked>>

RegsNoShift == \* mutant: the low bits of the track are not put above the sector
  <<secno % SecPerTrk, ((trkno % Byte) \div Share) + ((trkno \div Byte) % Share) * SecPerTrk, dskno>>

\* CF_REG3..CF_REG5: rotations and masks of SECNO, TRKNO and DSKNO.
Regs ==
  LET c == trkno % Byte
      b == trkno \div Byte
  IN  <<(secno % SecPerTrk) + (c % Share) * SecPerTrk,
        (c \div Share) + (b % Share) * SecPerTrk,
        dskno>>

CommandAtOnce == \* mutant: no wait for the card to be ready
  /\ pc = "ready" /\ pc' = "data"
  /\ card' = [card EXCEPT !.at = "busy", !.err = FALSE,
                !.lba = Regs[1] + Regs[2] * Byte + Regs[3] * Byte * Byte]
  /\ UNCHANGED <<bios, mem, hst, op, res, boot, due, sectors, asked, given>>

\* CF_Wait_NotBusy, CF_Wait_Ready, the registers and the command.
Command ==
  /\ pc = "ready" /\ card.at \notin {"busy", "program"}
  /\ pc' = "data"
  /\ card' = [card EXCEPT !.at = "busy", !.err = FALSE,
                !.lba = Regs[1] + Regs[2] * Byte + Regs[3] * Byte * Byte]
  /\ UNCHANGED <<bios, mem, hst, op, res, boot, due, sectors, asked, given>>

DataOnDrq == \* mutant: CF_Wait_DataReady in front of the byte loop
  /\ pc = "data" /\ card.at = "drq"
  /\ pc' = "check"
  /\ IF op = "read"
     THEN /\ hst' = sectors[card.lba] /\ card' = [card EXCEPT !.at = "idle"]
          /\ given' = given
     ELSE /\ card' = [card EXCEPT !.at = "program", !.buf = hst]
          /\ given' = TRUE /\ hst' = hst
  /\ UNCHANGED <<bios, mem, op, res, boot, due, sectors, asked>>

\* CF_Wait_NotBusy and the byte loop.  Without DRQ the loop still moves one
\* byte, which is undefined for a read and ignored for a write.
Data ==
  /\ pc = "data" /\ card.at # "busy"
  /\ pc' = "check"
  /\ IF card.at = "drq"
     THEN IF op = "read"
          THEN /\ hst' = sectors[card.lba] /\ card' = [card EXCEPT !.at = "idle"]
               /\ given' = given
          ELSE /\ card' = [card EXCEPT !.at = "program", !.buf = hst]
               /\ given' = TRUE /\ hst' = hst
     ELSE /\ IF op = "read" THEN hst' \in Value ELSE hst' = hst
          /\ UNCHANGED <<card, given>>
  /\ UNCHANGED <<bios, mem, op, res, boot, due, sectors, asked>>

\* One look at ERR, which a busy card does not show; READ then copies HSTBUF.
Check ==
  /\ pc = "check" /\ pc' = "idle"
  /\ res' = IF card.err THEN "bad" ELSE "ok"
  /\ mem' = IF res' = "ok" /\ op = "read" THEN [mem EXCEPT ![dma] = hst] ELSE mem
  /\ given' = FALSE
  /\ UNCHANGED <<bios, hst, op, boot, due, card, sectors, asked>>
-----------------------------------------------------------------------------
(* WBOOT: the first sectors of drive A, whatever READ answers.              *)

WBoot ==
  /\ Free
  /\ dskno' = 0 /\ trkno' = 0 /\ asked' = 0 /\ secno' = 0
  /\ dma' = 1 /\ boot' = 1 /\ due' = TRUE
  /\ UNCHANGED <<mem, hst, op, pc, res, card, sectors, given>>

WBootPast == \* mutant: one sector too many
  /\ pc = "idle" /\ boot \in 1..NumSys /\ ~due
  /\ secno' = boot % SecPerTrk /\ dma' = boot + 1 /\ boot' = boot + 1 /\ due' = TRUE
  /\ UNCHANGED <<dskno, trkno, mem, hst, op, pc, res, card, sectors, asked, given>>

WBootNext ==
  /\ pc = "idle" /\ boot \in 1..NumSys-1 /\ ~due
  /\ secno' = boot /\ dma' = boot + 1 /\ boot' = boot + 1 /\ due' = TRUE
  /\ UNCHANGED <<dskno, trkno, mem, hst, op, pc, res, card, sectors, asked, given>>

\* GoCPM: the default buffer, and on to the CCP.
GoCpm ==
  /\ pc = "idle" /\ boot = NumSys /\ ~due
  /\ dma' = 0 /\ boot' = 0
  /\ UNCHANGED <<dskno, trkno, secno, mem, hst, op, pc, res, due, card, sectors, asked, given>>
-----------------------------------------------------------------------------
(* The card.                                                                *)

Accept ==
  /\ card.at = "busy"
  /\ \/ card' = [card EXCEPT !.at = "drq"]
     \/ card' = [card EXCEPT !.at = "idle", !.err = TRUE]
  /\ UNCHANGED <<bios, mem, hst, op, pc, res, boot, due, sectors, asked, given>>

Program ==
  /\ card.at = "program"
  /\ \/ /\ card' = [card EXCEPT !.at = "idle"]
        /\ sectors' = [sectors EXCEPT ![card.lba] = card.buf]
     \/ /\ LateFault
        /\ card' = [card EXCEPT !.at = "idle", !.err = TRUE]
        /\ sectors' = sectors
  /\ UNCHANGED <<bios, mem, hst, op, pc, res, boot, due, asked, given>>

Next ==
  \/ \E d \in Disk : SelDsk(d)
  \/ \E t \in Track : SetTrk(t)
  \/ \E s \in Sector : SetSec(s)
  \/ Home
  \/ \E v \in Value : Fill(v)
  \/ \E o \in {"read", "write"} : Call(o)
  \/ Command \/ Data \/ Check
  \/ WBoot \/ WBootNext \/ GoCpm
  \/ Accept \/ Program

\* The driver's polling loops run on; the card finishes what it has begun.
Spec == Init /\ [][Next]_vars
FairSpec == Spec /\ WF_vars(Command \/ Data \/ Check) /\ WF_vars(Accept \/ Program)
=============================================================================
