------------------------------ MODULE DiskPath ------------------------------
(***************************************************************************)
(* The way of a record to the disk: SELECT, HOMEDRV and TRKSEC of the BDOS  *)
(* (TrkSec) call the BIOS (BiosDisk), whose READ and WRITE work the card.   *)
(* Together they are a store of sectors (SectorStore) addressed by drive    *)
(* and position on the drive, the reserved tracks first.                    *)
(***************************************************************************)
EXTENDS BiosDisk

CONSTANTS
  Word,   \* 2^16 in the code
  Offset, \* OFF of the disk parameter block: the reserved tracks
  Record  \* the records the BDOS asks for

VARIABLES
  track, first, rec, hl, de, \* as in TrkSec
  seek,   \* pc of TrkSec
  sought  \* TRKSEC has run for the record the BDOS is to transfer

\* ACTIVE is the drive the BIOS has selected; SETTRK and SETSEC store what
\* TRKSEC sends.
T == INSTANCE TrkSec WITH
       Drive <- Disk, Sectors <- SecPerTrk, active <- dskno, pc <- seek,
       sent <- [track |-> asked, sector |-> secno]

ASSUME WalkAssumption == T!SizesOK /\ Record \subseteq T!Words

walk == <<track, first, rec, hl, de, seek, sought>>
pathVars == <<vars, walk>>

PathInit ==
  /\ Init
  /\ track = [d \in Disk |-> 0] /\ first = [d \in Disk |-> 0]
  /\ rec = 0 /\ hl = 0 /\ de = 0 /\ seek = "idle" /\ sought = FALSE

Ready == Free /\ seek = "idle"

Select(d) ==
  /\ Ready /\ SelDsk(d) /\ T!Select(d) /\ sought' = FALSE

HomeDrv ==
  /\ Ready /\ Home /\ T!HomeDrv /\ sought' = FALSE

Seek(r) ==
  /\ Ready /\ UNCHANGED vars
  /\ T!Seek(r) /\ sought' = FALSE

Walk ==
  /\ UNCHANGED <<vars, sought>>
  /\ T!Back \/ T!On

\* TRKSEC4: SETTRK and SETSEC in one go.
SetAddress ==
  /\ \E t, s \in T!Words : asked' = t /\ trkno' = t % Byte /\ secno' = s
  /\ T!Found /\ sought' = TRUE
  /\ UNCHANGED <<dskno, dma, mem, hst, op, pc, res, boot, due, card, sectors, given>>

\* DOREAD and DOWRITE.
Transfer(o) ==
  /\ (Ready /\ sought) \/ boot # 0
  /\ Call(o) /\ UNCHANGED walk

\* The warm boot loads a new BDOS; what TRKSEC remembers is in the BIOS.
Reboot ==
  /\ Ready /\ WBoot /\ sought' = FALSE
  /\ UNCHANGED <<track, first, rec, hl, de, seek>>

Use(v) == Ready /\ Fill(v) /\ UNCHANGED walk

Driver == (Command \/ Data \/ Check \/ WBootNext \/ GoCpm) /\ UNCHANGED walk
Card   == (Accept \/ Program) /\ UNCHANGED walk

PathNext ==
  \/ \E d \in Disk : Select(d)
  \/ HomeDrv
  \/ \E r \in Record : Seek(r)
  \/ Walk \/ SetAddress
  \/ \E o \in {"read", "write"} : Transfer(o)
  \/ Reboot
  \/ \E v \in Value : Use(v)
  \/ Driver \/ Card

\* The processor runs on; the card finishes what it has begun.
PathSpec == PathInit /\ [][PathNext]_pathVars
FairPath == PathSpec /\ WF_pathVars(Walk \/ SetAddress \/ Driver) /\ WF_pathVars(Card)
-----------------------------------------------------------------------------
\* The positions on a drive of the records, behind the reserved tracks, and of
\* the system; the position of what is transferred.
PlaceOf(r) == r + Offset * SecPerTrk
Place == {PlaceOf(r) : r \in Record \cup {0}} \cup 0..NumSys-1
Position == IF boot # 0 THEN boot - 1 ELSE PlaceOf(rec)

\* doc/CF Disk.txt: LBA0-5 sector, LBA6-15 track, LBA16-19 disk.
Number(a) == a[1] * Byte * Byte + a[2]

\* A sector that the card has taken counts as written.
Store == INSTANCE SectorStore WITH
  Address <- Disk \X Place,
  store <- [a \in Disk \X Place |->
              IF card.at = "program" /\ card.lba = Number(a) THEN card.buf
              ELSE sectors[Number(a)]],
  addr <- <<dskno, Position>>,
  call <- CASE pc = "idle" -> "none"
            [] op = "write" /\ given -> "written"
            [] OTHER -> op

\* What is read from a record of a drive is what was last written there,
\* through TRKSEC, the registers and the card; no two records share a sector;
\* a transfer that answers "bad" has done nothing.
Implements == Store!Spec

\* The tracks of the records fit the byte that SETTRK stores.
TrackOf(r) == r \div SecPerTrk + Offset
TracksFit == \A r \in Record \cup {0} : TrackOf(r) \in Track /\ TrackOf(r) < Byte

\* TRKSEC finds track and sector of every record from wherever it starts.
Exact == T!Exact

\* Every drive remembers a track and the first record on it, and the walk is
\* between two such places, whatever the drives and the card do meanwhile.
IInv == T!IInv

\* Every transfer ends, as does the walk before it.
TransferEnds == pc # "idle" \/ seek # "idle" ~> pc = "idle" /\ seek = "idle"
=============================================================================
