-------------------------------- MODULE Boot --------------------------------
(***************************************************************************)
(* How the system comes into memory: the ROM loader (src/src/cpm/loader.asm), *)
(* the boot program (boot.asm), and BOOT, WBOOT and GoCPM of the BIOS       *)
(* (cbios_kbc.asm).  Memory is a ring of pages of one CP/M sector: the boot *)
(* program lets its write pointer run past the end, to page 0.             *)
(***************************************************************************)
EXTENDS Integers

CONSTANTS
  NumPage,   \* 512 in the code
  CcpPage,   \* the page of DC00h: 440
  NumSys,    \* NSECTS, the sectors of CCP and BDOS: 44
  NumLoad,   \* the sectors of the first two tracks: 128
  LoaderPage,\* the page of 8000h, where the boot program runs: 256
  ReadFault  \* may a sector of the system be unreadable in a warm boot?

ASSUME BootAssumption ==
  /\ {NumPage, CcpPage, NumSys, NumLoad, LoaderPage} \subseteq Nat
  /\ 0 < LoaderPage /\ LoaderPage < CcpPage
  /\ 0 < NumSys /\ NumSys < NumLoad /\ CcpPage + NumSys < NumPage
  /\ CcpPage + NumLoad <= NumPage + LoaderPage
  /\ ReadFault \in BOOLEAN

Page == 0..NumPage-1
Low  == 0..LoaderPage-1       \* what is ROM until MEM_Switch: 0000h-7FFFh

\* What a page may hold beside a sector of the system.
Junk == -1
Program == -2                 \* the boot program
Vectors == -3                 \* the jumps to WBOOT and to the BDOS

VARIABLES
  stage, \* "rom", "check", "load", "bios", "wboot", "go", "halt", "up"
  rom,   \* the low half of memory is ROM
  mem,   \* contents of the pages
  secno  \* SECNO, and the sector WBOOT is at

bootVars == <<stage, rom, mem, secno>>

BootTypeOK ==
  /\ stage \in {"rom", "check", "load", "bios", "wboot", "go", "halt", "up"}
  /\ rom \in BOOLEAN /\ secno \in 0..NumLoad
  /\ mem \in [Page -> {Junk, Program, Vectors} \cup 0..NumLoad-1]

BootInit == stage = "rom" /\ rom = TRUE /\ secno = 0 /\ mem = [p \in Page |-> Junk]

\* The page that gets sector s.
At(s) == IF CcpPage + s < NumPage THEN CcpPage + s ELSE CcpPage + s - NumPage

\* The sectors that are CCP, BDOS and BIOS; the rest of the tracks is no part.
SystemSector == {s \in 0..NumLoad-1 : CcpPage + s < NumPage}
-----------------------------------------------------------------------------
\* The reset button (external): the memory page goes back to ROM and RAM.
PushReset == stage' = "rom" /\ rom' = TRUE /\ UNCHANGED <<mem, secno>>

\* The loader copies the boot program out of the ROM, with a SECNO of 0.
Loader ==
  /\ stage = "rom"
  /\ stage' = "check" /\ secno' = 0
  /\ mem' = [mem EXCEPT ![LoaderPage] = Program]
  /\ UNCHANGED rom

\* MEM_Switch, then every byte of the low half but the first is written and
\* read back.  RAM may be defective; if it was still ROM the test would fail.
MemCheck ==
  /\ stage = "check"
  /\ rom' = FALSE
  /\ mem' = [p \in Page |-> IF p \in Low THEN Junk ELSE mem[p]]
  /\ stage' \in {"load", "halt"}
  /\ UNCHANGED secno

LoadSectorPast == \* mutant: no test for the last sector
  /\ stage = "load"
  /\ secno' = secno + 1 /\ stage' = stage
  /\ mem' = [mem EXCEPT ![At(secno)] = secno]
  /\ UNCHANGED rom

\* One sector is read and copied to where the last one has ended, or the
\* machine halts.
LoadSector ==
  /\ stage = "load" /\ secno # NumLoad
  /\ secno' = secno + 1
  /\ \/ stage' = stage /\ mem' = [mem EXCEPT ![At(secno)] = secno]
     \/ stage' = "halt" /\ UNCHANGED mem
  /\ UNCHANGED rom

\* "Jump to the CP/M bios address".
ReadComplete ==
  /\ stage = "load" /\ secno = NumLoad
  /\ stage' = "bios" /\ UNCHANGED <<rom, mem, secno>>

\* BOOT of the BIOS.
BiosBoot == stage = "bios" /\ stage' = "go" /\ UNCHANGED <<rom, mem, secno>>

\* WBOOT selects drive A and track 0 ...
WBoot == stage' = "wboot" /\ secno' = 0 /\ UNCHANGED <<rom, mem>>

WBootCcpOnly == \* mutant: the BDOS is taken to be still there
  /\ stage = "wboot" /\ secno = 0
  /\ secno' = NumSys /\ stage' = "go"
  /\ mem' = [mem EXCEPT ![At(0)] = 0]
  /\ UNCHANGED rom

\* ... and reads CCP and BDOS.  What READ answers is not looked at: when it has
\* failed the sector buffer holds something else.
WBootSector ==
  /\ stage = "wboot"
  /\ secno' = secno + 1 /\ stage' = IF secno' = NumSys THEN "go" ELSE stage
  /\ \/ mem' = [mem EXCEPT ![At(secno)] = secno]
     \/ ReadFault /\ mem' = [mem EXCEPT ![At(secno)] = Junk]
  /\ UNCHANGED rom

\* The jumps of page 0, and into the CCP.
GoCpm ==
  /\ stage = "go" /\ stage' = "up"
  /\ mem' = [mem EXCEPT ![0] = Vectors]
  /\ UNCHANGED <<rom, secno>>

BootStep == Loader \/ MemCheck \/ LoadSector \/ ReadComplete \/ WBootSector

\* CCP, BDOS and BIOS are as they are on the disk, and page 0 leads to them.
WholeSystem == /\ \A s \in SystemSector : mem[At(s)] = s
               /\ mem[0] = Vectors /\ ~rom
=============================================================================
