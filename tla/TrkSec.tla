------------------------------- MODULE TrkSec -------------------------------
(***************************************************************************)
(* Sector addressing in the BDOS (TRKSEC, src/src/cpm/cpm22.asm): the track *)
(* and the sector of a record number, found without a division by walking  *)
(* from the track that was used last.  Each drive remembers its last track *)
(* (SCRATCH2) and the number of the first record on it (SCRATCH3).  All    *)
(* these numbers are words of the processor.                               *)
(***************************************************************************)
EXTENDS Integers

CONSTANTS
  Drive,   \* the drives
  Word,    \* 2^16 in the code
  Sectors, \* SECTORS: records on a track
  Offset   \* OFFSET: the reserved tracks in front of the directory

\* Sizes with which the walk is right: the last track is a word.
SizesOK ==
  /\ Word \in Nat \ {0} /\ Sectors \in Nat \ {0} /\ Offset \in Nat
  /\ Sectors < Word
  /\ \A r \in 0..Word-1 : (r \div Sectors) + Offset < Word

Words == 0..Word-1

VARIABLES
  active, \* ACTIVE: the selected drive
  track,  \* SCRATCH2 of each drive: the last track
  first,  \* SCRATCH3 of each drive: its first record
  rec,    \* BLKNMBR: the record wanted (register BC)
  hl, de, \* the registers that walk: a track and its first record
  pc,     \* "idle", "back" (TRKSEC2), "on" (TRKSEC3)
  sent    \* the track and the sector the BIOS has

vars == <<active, track, first, rec, hl, de, pc, sent>>

Init ==
  /\ active \in Drive
  /\ track = [d \in Drive |-> 0] /\ first = [d \in Drive |-> 0]
  /\ rec = 0 /\ hl = 0 /\ de = 0 /\ pc = "idle"
  /\ sent = [track |-> Offset, sector |-> 0]

\* SELECT points SCRATCH2 and SCRATCH3 into the header of the drive.
Select(d) ==
  /\ pc = "idle" /\ active' = d
  /\ UNCHANGED <<track, first, rec, hl, de, pc, sent>>

\* HOME of the BIOS seeks track 0.
HomeDrv ==
  /\ pc = "idle"
  /\ track' = [track EXCEPT ![active] = 0]
  /\ first' = [first EXCEPT ![active] = 0]
  /\ sent' = [sent EXCEPT !.track = 0]
  /\ UNCHANGED <<active, rec, hl, de, pc>>

\* A call of TRKSEC1 with BLKNMBR set (LOGICAL), or of TRKSEC for the sector
\* of a directory entry.
Seek(r) ==
  /\ pc = "idle"
  /\ rec' = r /\ de' = first[active] /\ hl' = track[active] /\ pc' = "back"
  /\ UNCHANGED <<active, track, first, sent>>

\* TRKSEC2: while the record is before the track, one track back.
Back ==
  /\ pc = "back"
  /\ IF rec < de
     THEN /\ de' = (de - Sectors) % Word /\ hl' = (hl - 1) % Word
          /\ pc' = pc
     ELSE pc' = "on" /\ UNCHANGED <<de, hl>>
  /\ UNCHANGED <<active, track, first, rec, sent>>

OnTrackStrict == \* mutant: the first record of the next track is on this one
  \/ de + Sectors >= Word
  \/ rec <= de + Sectors

\* The record is on track hl if the next track starts beyond the last word,
\* or behind the record.
OnTrack ==
  \/ de + Sectors >= Word
  \/ rec < de + Sectors

\* TRKSEC3: while the record is not on the track, one track on.
On ==
  /\ pc = "on" /\ ~OnTrack
  /\ de' = (de + Sectors) % Word /\ hl' = (hl + 1) % Word
  /\ UNCHANGED <<active, track, first, rec, pc, sent>>

\* TRKSEC4: the track and the sector go to the BIOS, and are remembered.
Found ==
  /\ pc = "on" /\ OnTrack
  /\ sent' = [track |-> (hl + Offset) % Word, sector |-> (rec - de) % Word]
  /\ track' = [track EXCEPT ![active] = hl]
  /\ first' = [first EXCEPT ![active] = de]
  /\ pc' = "idle"
  /\ UNCHANGED <<active, rec, hl, de>>

Next ==
  \/ \E d \in Drive : Select(d)
  \/ HomeDrv
  \/ \E r \in Words : Seek(r)
  \/ Back \/ On \/ Found

Spec == Init /\ [][Next]_vars
FairSpec == Spec /\ WF_vars(Back) /\ WF_vars(On) /\ WF_vars(Found)
-----------------------------------------------------------------------------
TypeOK ==
  /\ active \in Drive
  /\ track \in [Drive -> Words] /\ first \in [Drive -> Words]
  /\ rec \in Words /\ hl \in Words /\ de \in Words
  /\ pc \in {"idle", "back", "on"}
  /\ sent \in [track: Words, sector: Words]

\* What every drive remembers is a track and the first record on it, however
\* drives were switched and homed in between.
Remembered == \A d \in Drive : first[d] = track[d] * Sectors

\* Walking from one track to another ends on the track and at the sector that
\* a division would have given, for every record number and from every track.
Exact ==
  [][Found => /\ sent'.track = rec \div Sectors + Offset
              /\ sent'.sector = rec % Sectors]_vars

\* The walk ends.
Ends == pc # "idle" ~> pc = "idle"

\* The invariant behind them.
Walk ==
  /\ de = hl * Sectors
  /\ pc = "on" => de <= rec

IInv == TypeOK /\ Remembered /\ (pc # "idle" => Walk)
=============================================================================
