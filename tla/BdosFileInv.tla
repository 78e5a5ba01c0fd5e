---------------------------- MODULE BdosFileInv -----------------------------
(***************************************************************************)
(* The inductive invariant behind the safety properties of BdosFile.  What *)
(* the properties leave out is how the FCBs in memory relate to the        *)
(* directory on disk between the moment FNDSPACE takes a block and the     *)
(* moment CLOSEIT writes its number into the directory, and what a walk of *)
(* the directory has left to do.                                           *)
(***************************************************************************)
EXTENDS BdosFile

Live(s) == dir[s].live

\* Two live entries s, t of a file cover the same group of extents.
InGroup(s, n, e) == Live(s) /\ dir[s].name = n /\ SameEntry(dir[s].ext, e)

\* Calls and walks happen on a logged-in drive, one at a time, and the FCB of
\* the transfer is open.
Control ==
  /\ ~logged => io.at = "idle" /\ scan.at = "idle" /\ \A f \in Fcb : ~fcb[f].open
  /\ io.at # "idle" => fcb[io.f].open /\ scan.at = "idle"

\* An erase or a rename is at an entry that it has to change; a rename will
\* not meet an entry of the new name for the same extents.
WalkState ==
  /\ scan.at \in {"erase", "rename"} =>
       NotOpen(scan.pat) /\ Live(scan.pos) /\ dir[scan.pos].name \in scan.pat
  /\ scan.at = "rename" =>
       /\ NotOpen({scan.to}) /\ scan.to \notin scan.pat
       /\ \A m, n \in scan.pat : m = n
       /\ \A s, t \in Dir : Live(s) /\ dir[s].name \in scan.pat
                            => ~InGroup(t, scan.to, dir[s].ext)

\* No file is open twice.
OneFcb == \A f, g \in Fcb :
  fcb[f].open /\ fcb[g].open /\ fcb[f].name = fcb[g].name => f = g

\* No block is in two FCBs or twice in one.
FcbApart == \A f, g \in Fcb : \A i, j \in SlotIdx :
  fcb[f].open /\ fcb[g].open /\ fcb[f].blk[i] = fcb[g].blk[j] /\ fcb[f].blk[i] # 0
    => f = g /\ i = j /\ fcb[f].blk[i] \notin DirBlock

\* A block that an FCB and an entry both have is in the same slot of both, and
\* the entry is the one the FCB is closed to, unless it has lost its place.
FcbDir == \A f \in Fcb : \A s \in Dir : \A i, j \in SlotIdx :
  fcb[f].open /\ Live(s) /\ fcb[f].blk[i] = dir[s].blk[j] /\ fcb[f].blk[i] # 0
    => /\ i = j /\ dir[s].name = fcb[f].name
       /\ fcb[f].bad \/ fcb[f].eof \/ SameEntry(dir[s].ext, fcb[f].ext)

\* An FCB moved past the last extent has no entry to be closed to.
EofHome == \A f \in Fcb : fcb[f].open /\ fcb[f].eof
             => \A s \in Dir : ~InGroup(s, fcb[f].name, fcb[f].ext)

\* The parts about the disk and about the FCBs, and the whole invariant.
DiskInv == NoCrossLink /\ AllocSound /\ MarkCovers /\ OneEntry
FcbInv  == OneFcb /\ FcbApart /\ FcbDir /\ EofHome
Safe    == Control /\ WalkState /\ DiskInv /\ FcbInv
IInv    == TypeOK /\ Safe
-----------------------------------------------------------------------------
(* What a walk has done, for WalkComplete and ProtectedButAttr.             *)

WalkedInv ==
  /\ scan.at \in {"erase", "rename"} =>
       ~wp /\ \A s \in Dir : s < scan.pos /\ Live(s) => dir[s].name \notin scan.pat

(* What is written, closed and read, for Closable, Durable, Pending and     *)
(* ReadBack; it holds if no program uses random I/O on an FCB that has just *)
(* run past its last extent (StaleSeek).                                    *)

\* The FCB has the blocks of the extent that it names.
Placed(f) == fcb[f].open /\ ~fcb[f].bad /\ ~fcb[f].eof

\* Such an FCB has an entry, and all the blocks that the entry has.
AtHome(f) ==
  /\ \E s \in Dir : InGroup(s, fcb[f].name, fcb[f].ext)
  /\ \A s \in Dir : \A i \in SlotIdx :
       InGroup(s, fcb[f].name, fcb[f].ext) /\ dir[s].blk[i] # 0 => fcb[f].blk[i] = dir[s].blk[i]
Homed == \A f \in Fcb : Placed(f) => AtHome(f)

\* Only such an FCB is written to; one past the last extent stays at its end
\* until the program positions it.
Placement ==
  /\ \A f \in Fcb : fcb[f].open /\ Unrecorded(f) => Placed(f)
  /\ \A f \in Fcb : fcb[f].open /\ fcb[f].eof /\ fcb[f].cr # RecsPerExt
       => io.at \in {"close", "open"} /\ io.f = f /\ ~IsSeq(io.op)
  /\ io.at = "xfer" => Placed(io.f)
  /\ io.at \in {"close", "open"} /\ IsSeq(io.op) => fcb[io.f].cr = RecsPerExt

\* Every record written is in the directory or in an FCB that is dirty or that
\* error 6 has cleaned, and in any FCB that is on its extent.
Recorded == \A k \in synced : wr[k] # NoValue /\ DirHolds(k, wr[k])
Dirtied  == \A k \in Name \X Ext \X Rec : wr[k] # NoValue /\ k \notin synced =>
              \E f \in Fcb : fcb[f].open /\ Unrecorded(f) /\ fcb[f].name = k[1] /\ fcb[f].ext = k[2]
UpToDate(f) == \A k \in Name \X Ext \X Rec :
                 fcb[f].name = k[1] /\ fcb[f].ext = k[2] /\ wr[k] # NoValue
                   => FcbHolds(f, k, wr[k])
Current  == \A f \in Fcb : Placed(f) => UpToDate(f)

\* Once the extent before is closed, nothing of the file is unrecorded.
AllRecorded(n) == \A k \in Name \X Ext \X Rec : k[1] = n /\ wr[k] # NoValue => k \in synced
Closed == io.at = "open" => AllRecorded(fcb[io.f].name)

FileInv == Homed /\ Placement
DataInv == Recorded /\ Dirtied /\ Current /\ Closed
=============================================================================
