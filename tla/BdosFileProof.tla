---------------------------- MODULE BdosFileProof ---------------------------
(***************************************************************************)
(* The types and the safety of the file system for every size of disk,     *)
(* directory, block and extent and any number of files and FCBs: lemmas    *)
(* about the operators, one for the types after each action, one for each  *)
(* way in which calls change the directory and the FCBs, and one for the   *)
(* invariant IInv of BdosFileInv after each action; then the contents.     *)
(***************************************************************************)
EXTENDS BdosFileInv, WellFoundedInduction, TLAPS

\* A search upwards that stops at the first hit finds one if there is one: the
\* order of the natural numbers is well founded.
LEMMA LeastNatural ==
  ASSUME NEW S, S \subseteq Nat, S # {}
  PROVE  \E m \in S : \A k \in S : m <= k
<1> DEFINE Less == {x \in Nat \X Nat : x[1] < x[2]}
<1>1. IsWellFoundedOn(Less, Nat)
  <2>1. OpToRel(<, Nat) = Less BY DEF OpToRel
  <2> QED BY <2>1, NatLessThanWellFounded
<1>2. PICK m \in S : \A k \in S : <<k, m>> \notin Less BY <1>1, WFMin
<1>3. ASSUME NEW k \in S PROVE m <= k
  <2>1. <<k, m>> \in Nat \X Nat /\ ~(<<k, m>>[1] < <<k, m>>[2]) BY <1>2
  <2> QED BY <2>1
<1> QED BY <1>3

(* What the searches return.                                               *)

\* First is the lowest member of a set of entries.
LEMMA FirstMember ==
  ASSUME NEW S, S \subseteq Nat, S # {}
  PROVE  First(S) \in S /\ \A t \in S : First(S) <= t
<1>1. \E s \in S : \A t \in S : s <= t
  BY LeastNatural
<1>2. QED
  BY <1>1 DEF First

\* The extent number of the next extent is one an FCB can hold.
LEMMA NextExtType ==
  ASSUME NEW e \in Ext
  PROVE  NextExt(e) \in Ext
BY SizeAssumption DEF NextExt, Ext

\* Two extents in one directory entry are in the same one as a third.
LEMMA SameEntryTrans ==
  ASSUME NEW a \in Ext, NEW b \in Ext, NEW c \in Ext, SameEntry(a, b)
  PROVE  SameEntry(b, a) /\ (SameEntry(b, c) <=> SameEntry(a, c))
BY DEF SameEntry

\* FNDSPACE returns a free block if there is one.
LEMMA NearestMember ==
  ASSUME NEW p \in Nat, NEW S, S \subseteq Nat, S # {}
  PROVE  Nearest(p, S) \in S
<1> DEFINE D == {Distance(p, b) : b \in S}
<1>1. D \subseteq Nat /\ D # {}
  <2>1. \A b \in S : Distance(p, b) \in Nat
    BY DEF Distance
  <2>2. QED
    BY <2>1
<1>2. PICK d \in D : \A x \in D : d <= x
  BY <1>1, LeastNatural
<1> DEFINE N == {b \in S : Distance(p, b) = d}
<1>3. N \subseteq Nat /\ N # {}
  BY <1>2
<1>4. PICK b \in N : \A c \in N : b <= c
  BY <1>3, LeastNatural
<1>5. ASSUME NEW c \in S
      PROVE  Distance(p, b) < Distance(p, c)
             \/ (Distance(p, b) = Distance(p, c) /\ b <= c)
  <2>1. Distance(p, b) = d /\ d \in Nat
    BY <1>1, <1>2, <1>4
  <2>2. Distance(p, c) \in Nat /\ d <= Distance(p, c)
    BY <1>1, <1>2
  <2>3. CASE Distance(p, c) = d
    BY <1>4, <2>1, <2>3
  <2>4. CASE Distance(p, c) # d
    BY <2>1, <2>2, <2>4
  <2>5. QED
    BY <2>3, <2>4
<1>6. b \in S
  OBVIOUS
<1>7. QED
  BY <1>5, <1>6 DEF Nearest

\* GETBLOCK stays within the block numbers of an entry.
LEMMA SlotType ==
  ASSUME NEW e \in Ext, NEW r \in Rec
  PROVE  Slot(e, r) \in SlotIdx
<1> DEFINE B == BlocksPerExt
           q == r \div RecsPerBlock
           g == e % ExtPerEntry
<1>1. B \in Nat /\ RecsPerExt = B * RecsPerBlock
  BY SizeAssumption DEF BlocksPerExt
<1>2. q \in Nat /\ q < B
  <2>1. r \in Nat /\ r < RecsPerExt /\ RecsPerBlock \in Nat \ {0}
    BY SizeAssumption DEF Rec
  <2>2. q \in Nat /\ q * RecsPerBlock <= r
    BY <2>1
  <2>3. q * RecsPerBlock < B * RecsPerBlock
    BY <1>1, <2>1, <2>2
  <2>4. QED
    BY <1>1, <2>1, <2>2, <2>3
<1>3. g \in Nat /\ g <= ExtPerEntry - 1 /\ ExtPerEntry \in Nat \ {0}
  BY SizeAssumption DEF Ext
<1>4. g * B <= (ExtPerEntry - 1) * B
  BY <1>1, <1>3
<1>5. g * B \in Nat /\ (ExtPerEntry - 1) * B = ExtPerEntry * B - B /\ ExtPerEntry * B \in Nat
  BY <1>1, <1>3
<1> HIDE DEF q, g, B
<1>6. g * B + q \in 0..ExtPerEntry * B - 1
  BY <1>1, <1>2, <1>3, <1>4, <1>5
<1>7. QED
  BY <1>6 DEF Slot, SlotIdx, q, g, B

-----------------------------------------------------------------------------
(* Types.                                                                  *)

\* The constants of the state have their types.
LEMMA ConstType ==
  /\ Erased \in EntryType /\ Unused \in FcbType
  /\ NoIo \in IoType /\ NoScan \in ScanType
  /\ 0 \in Ext /\ 0 \in Block /\ 0 \in DirBlock /\ 0 \in Dir
<1>1. SomeName \in Name
  BY NameAssumption DEF SomeName
<1>2. (CHOOSE f \in Fcb : TRUE) \in Fcb
  BY NameAssumption
<1>3. 0 \in Ext /\ 0 \in Block /\ 0 \in DirBlock /\ 0 \in Dir /\ 0 \in Rec /\ 0 \in 0..RecsPerExt
  BY SizeAssumption DEF Ext, Block, DirBlock, Dir, Rec
<1>4. NoBlk \in [SlotIdx -> Block]
  BY <1>3 DEF NoBlk
<1>5. Erased \in EntryType /\ Unused \in FcbType
  BY <1>1, <1>3, <1>4 DEF Erased, EntryType, Unused, FcbType
<1>6. NoIo \in IoType
  BY <1>2, <1>3, ValueAssumption DEF NoIo, IoType, IoOp
<1>7. NoScan \in ScanType
  BY <1>1, <1>3 DEF NoScan, ScanType
<1>8. QED
  BY <1>3, <1>5, <1>6, <1>7

LEMMA InitType == Init => TypeOK
<1> SUFFICES ASSUME Init PROVE TypeOK
  OBVIOUS
<1>1. [k \in Name \X Ext \X Rec |-> NoValue] \in [Name \X Ext \X Rec -> Value \cup {NoValue}]
  OBVIOUS
<1>2. 0 \in 0..FirstMark+NumDir
  BY SizeAssumption
<1>3. QED
  BY <1>1, <1>2, ConstType, ValueAssumption DEF Init, TypeOK

LEMMA RestartType == ASSUME TypeOK, Restart PROVE TypeOK'
<1>1. wr' \in [Name \X Ext \X Rec -> Value \cup {NoValue}]
  BY DEF TypeOK, Restart, Settled
<1>2. mark' \in 0..FirstMark+NumDir
  BY SizeAssumption DEF Restart
<1>3. QED
  BY <1>1, <1>2, ConstType DEF TypeOK, Restart, disk

\* BITMAP finds a mark for any directory.
LEMMA BuildMapType ==
  ASSUME TypeOK, BuildMap
  PROVE  /\ alloc' = BitMap /\ BitMap \subseteq Block /\ DirBlock \subseteq BitMap
         /\ mark' \in 0..FirstMark+NumDir
         /\ \A s \in Dir : Live(s) => s < mark'
<1> DEFINE M == {m \in FirstMark..FirstMark+NumDir : \A s \in Dir : dir[s].live => s < m}
<1>1. FirstMark+NumDir \in M
  BY SizeAssumption DEF Dir
<1>2. First(M) \in M
  <2>1. M \subseteq Nat
    BY SizeAssumption
  <2>2. QED
    BY <1>1, <2>1, FirstMember
<1>3. mark' = First(M)
  BY DEF BuildMap
<1>4. mark' \in 0..FirstMark+NumDir
  BY <1>2, <1>3, SizeAssumption
<1>5. BitMap \subseteq Block
  <2>1. DirBlock \subseteq Block
    BY SizeAssumption DEF DirBlock, Block
  <2>2. \A s \in Dir : Blocks(dir[s].blk) \subseteq Block
    BY DEF TypeOK, EntryType, Blocks
  <2>3. QED
    BY <2>1, <2>2 DEF BitMap
<1>6. QED
  BY <1>2, <1>3, <1>4, <1>5 DEF BuildMap, BitMap, Live

LEMMA LoginType == ASSUME TypeOK, LoginDrv PROVE TypeOK'
BY BuildMapType DEF TypeOK, LoginDrv, BuildMap, disk, hist

LEMMA ResetType == ASSUME TypeOK, ResetDisk PROVE TypeOK'
BY BuildMapType DEF TypeOK, ResetDisk, BuildMap, disk, hist

LEMMA ProtectType == ASSUME TypeOK, WriteProtect PROVE TypeOK'
<1>1. NumDir \in 0..FirstMark+NumDir
  BY SizeAssumption
<1>2. QED
  BY <1>1 DEF TypeOK, WriteProtect, disk, hist

\* What CHKNMBR makes of the mark.
LEMMA RaisedType ==
  ASSUME TypeOK, NEW s \in Dir
  PROVE  Raised(mark, s) \in 0..FirstMark+NumDir /\ mark <= Raised(mark, s) /\ s < Raised(mark, s)
BY SizeAssumption DEF TypeOK, Raised, Dir

\* GETEMPTY finds a free entry if there is one.
LEMMA FirstFree ==
  ASSUME FreeEntries # {}
  PROVE  First(FreeEntries) \in Dir /\ ~dir[First(FreeEntries)].live
<1>1. FreeEntries \subseteq Nat
  BY DEF FreeEntries, Dir
<1>2. First(FreeEntries) \in FreeEntries
  BY <1>1, FirstMember
<1>3. QED
  BY <1>2 DEF FreeEntries

\* FINDFST finds an entry of the file if there is one.
LEMMA FirstFound ==
  ASSUME NEW n, NEW e, Found(n, e) # {}
  PROVE  LET s == First(Found(n, e)) IN
         s \in Dir /\ Live(s) /\ dir[s].name = n /\ SameEntry(dir[s].ext, e)
<1>1. Found(n, e) \subseteq Nat
  BY DEF Found, Named, Dir
<1>2. First(Found(n, e)) \in Found(n, e)
  BY <1>1, FirstMember
<1>3. QED
  BY <1>2 DEF Found, Named, Live

LEMMA MakeType ==
  ASSUME TypeOK, NEW f \in Fcb, NEW n \in Name, Make(f, n)
  PROVE  TypeOK'
<1>1. CASE wp /\ Restart
  BY <1>1, RestartType
<1>2. CASE ~wp /\ FreeEntries # {}
  <2> DEFINE s == First(FreeEntries)
  <2>1. s \in Dir
    BY <1>2, FirstFree
  <2>2. Created(n, 0, FALSE) \in EntryType /\ EmptyFcb(n, 0, FALSE, 0) \in FcbType
    BY SizeAssumption, ConstType DEF Created, EmptyFcb, EntryType, FcbType, NoBlk, Ext, Rec
  <2>3. /\ dir' = [dir EXCEPT ![s] = Created(n, 0, FALSE)] /\ mark' = Raised(mark, s)
        /\ fcb' = [fcb EXCEPT ![f] = EmptyFcb(n, 0, FALSE, 0)]
        /\ UNCHANGED <<data, alloc, wp, logged, io, scan, hist>>
    BY <1>2 DEF Make
  <2>4. QED
    BY <2>1, <2>2, <2>3, RaisedType DEF TypeOK, hist
<1>3. QED
  BY <1>1, <1>2 DEF Make

\* OPENIT1 makes an FCB.
LEMMA OpenedType ==
  ASSUME TypeOK, NEW s \in Dir, NEW e \in Ext, NEW r \in 0..RecsPerExt
  PROVE  Opened(s, e, r) \in FcbType
BY SizeAssumption DEF TypeOK, Opened, EntryType, FcbType

LEMMA OpenType ==
  ASSUME TypeOK, NEW f \in Fcb, NEW n \in Name, Open(f, n)
  PROVE  TypeOK'
<1>1. 0 \in Ext /\ 0 \in 0..RecsPerExt
  BY SizeAssumption, ConstType
<1>2. Opened(First(Found(n, 0)), 0, 0) \in FcbType
  BY <1>1, FirstFound, OpenedType DEF Open
<1>3. QED
  BY <1>2 DEF TypeOK, Open, disk, ram, hist

\* What CLOSEIT does: it leaves everything alone, or it merges the block
\* numbers and, if they agree, writes the entry.
LEMMA CloseItEffect ==
  ASSUME TypeOK, NEW f \in Fcb, NEW blk, CloseIt(f, blk)
  PROVE  \/ blk = fcb[f].blk /\ dir' = dir /\ synced' = synced
         \/ /\ ~fcb[f].bad /\ Home(f) # {}
            /\ blk = Merged(f, First(Home(f)))
            /\ \/ dir' = dir /\ synced' = synced
               \/ /\ Clashes(f, First(Home(f))) = {} /\ ~wp
                  /\ dir' = [dir EXCEPT ![First(Home(f))] = ClosedEntry(f, First(Home(f)), blk)]
                  /\ synced' \subseteq Name \X Ext \X Rec
<1> DEFINE s == First(Home(f))
<1>1. CASE CloseStatus(f) = "closed"
  <2>1. Home(f) # {} /\ Clashes(f, s) = {} /\ ~wp
    BY <1>1 DEF CloseStatus
  <2>2. ~fcb[f].bad
    BY <2>1 DEF Home
  <2>3. blk = Merged(f, s)
    BY <1>1 DEF CloseIt
  <2>4. dir' = [dir EXCEPT ![s] = ClosedEntry(f, s, blk)]
    BY <1>1 DEF CloseIt
  <2>5. synced' \subseteq Name \X Ext \X Rec
    BY <1>1 DEF CloseIt, TypeOK
  <2>6. QED
    BY <2>1, <2>2, <2>3, <2>4, <2>5
<1>2. CASE CloseStatus(f) = "clash"
  <2>1. Home(f) # {} /\ ~fcb[f].bad
    BY <1>2 DEF CloseStatus, Home
  <2>2. QED
    BY <1>2, <2>1 DEF CloseIt
<1>3. CASE CloseStatus(f) # "closed" /\ CloseStatus(f) # "clash"
  BY <1>3 DEF CloseIt
<1>4. QED
  BY <1>1, <1>2, <1>3

\* The entry CLOSEIT finds.
LEMMA HomeFound ==
  ASSUME NEW f \in Fcb, Home(f) # {}
  PROVE  LET s == First(Home(f)) IN
         /\ s \in Dir /\ Live(s) /\ dir[s].name = fcb[f].name
         /\ SameEntry(dir[s].ext, fcb[f].ext)
<1>1. Home(f) = Found(fcb[f].name, fcb[f].ext)
  BY DEF Home
<1>2. QED
  BY <1>1, FirstFound

LEMMA MergedType ==
  ASSUME TypeOK, NEW f \in Fcb, NEW s \in Dir
  PROVE  Merged(f, s) \in [SlotIdx -> Block]
BY DEF TypeOK, EntryType, FcbType, Merged

LEMMA CloseItType ==
  ASSUME TypeOK, NEW f \in Fcb, NEW blk, CloseIt(f, blk)
  PROVE  /\ blk \in [SlotIdx -> Block] /\ dir' \in [Dir -> EntryType]
         /\ synced' \subseteq Name \X Ext \X Rec
<1> DEFINE s == First(Home(f))
<1>1. CASE blk = fcb[f].blk /\ dir' = dir /\ synced' = synced
  BY <1>1 DEF TypeOK, FcbType
<1>2. CASE Home(f) # {} /\ blk = Merged(f, s) /\ dir' = dir /\ synced' = synced
  BY <1>2, HomeFound, MergedType DEF TypeOK
<1>3. CASE /\ Home(f) # {} /\ blk = Merged(f, s)
           /\ dir' = [dir EXCEPT ![s] = ClosedEntry(f, s, blk)]
           /\ synced' \subseteq Name \X Ext \X Rec
  <2>1. s \in Dir /\ blk \in [SlotIdx -> Block]
    BY <1>3, HomeFound, MergedType
  <2>2. HighestExt(dir[s].ext, fcb[f].ext) \in Ext
    BY <2>1 DEF TypeOK, EntryType, FcbType, HighestExt
  <2>3. ClosedEntry(f, s, blk) \in EntryType
    <3> DEFINE rc == IF fcb[f].ext < dir[s].ext THEN dir[s].rc ELSE fcb[f].rc
               ext == HighestExt(dir[s].ext, fcb[f].ext)
    <3>1. dir[s] \in EntryType /\ rc \in 0..RecsPerExt
      BY <2>1 DEF TypeOK, EntryType, FcbType
    <3>2. ClosedEntry(f, s, blk) = [dir[s] EXCEPT !.blk = blk, !.ext = ext, !.rc = rc]
      BY <3>1 DEF ClosedEntry, EntryType
    <3>3. ext \in Ext
      BY <2>2
    <3> HIDE DEF rc, ext
    <3>4. QED
      BY <2>1, <3>1, <3>2, <3>3 DEF EntryType
  <2>4. QED
    BY <1>3, <2>1, <2>3 DEF TypeOK
<1>4. QED
  BY <1>1, <1>2, <1>3, CloseItEffect

LEMMA CloseFileType ==
  ASSUME TypeOK, NEW f \in Fcb, CloseFile(f)
  PROVE  TypeOK'
<1>1. PICK blk \in [SlotIdx -> Block] : CloseIt(f, blk) /\ fcb' = [fcb EXCEPT ![f].blk = blk]
  BY DEF CloseFile
<1>2. fcb' \in [Fcb -> FcbType]
  BY <1>1 DEF TypeOK, FcbType
<1>3. dir' \in [Dir -> EntryType] /\ synced' \subseteq Name \X Ext \X Rec
  BY <1>1, CloseItType
<1>4. QED
  BY <1>2, <1>3 DEF TypeOK, CloseFile, ram

LEMMA SettledType ==
  ASSUME TypeOK, NEW N
  PROVE  Settled(N) \in [Name \X Ext \X Rec -> Value \cup {NoValue}]
BY DEF TypeOK, Settled

LEMMA ForgetType ==
  ASSUME TypeOK, NEW f \in Fcb, Forget(f)
  PROVE  TypeOK'
BY ConstType, SettledType DEF TypeOK, Forget, disk, ram

LEMMA CloseExtentType == ASSUME TypeOK, CloseExtent PROVE TypeOK'
<1> DEFINE f == io.f
<1>1. f \in Fcb /\ io.ext \in Ext
  BY DEF TypeOK, IoType
<1>2. PICK blk \in [SlotIdx -> Block] :
        /\ CloseIt(f, blk)
        /\ \/ fcb' = Unpositioned(f, fcb[f].ext, blk) /\ io' = NoIo
           \/ fcb' = fcb /\ io' = NoIo
           \/ fcb' = Unpositioned(f, 0, blk) /\ io' = NoIo
           \/ fcb' = [fcb EXCEPT ![f].blk = blk] /\ io' = [io EXCEPT !.at = "open"]
  BY DEF CloseExtent
<1>3. \A e \in Ext : Unpositioned(f, e, blk) \in [Fcb -> FcbType]
  BY <1>1 DEF TypeOK, FcbType, Unpositioned
<1>4. fcb' \in [Fcb -> FcbType]
  <2>1. [fcb EXCEPT ![f].blk = blk] \in [Fcb -> FcbType]
    BY <1>1 DEF TypeOK, FcbType
  <2>2. fcb[f].ext \in Ext
    BY <1>1 DEF TypeOK, FcbType
  <2>3. QED
    BY <1>2, <1>3, <2>1, <2>2, ConstType DEF TypeOK
<1>5. io' \in IoType
  BY <1>2, ConstType DEF TypeOK, IoType
<1>6. dir' \in [Dir -> EntryType] /\ synced' \subseteq Name \X Ext \X Rec
  BY <1>1, <1>2, CloseItType
<1>7. wr' \in [Name \X Ext \X Rec -> Value \cup {NoValue}]
  BY SettledType DEF CloseExtent, TypeOK
<1>8. QED
  BY <1>4, <1>5, <1>6, <1>7 DEF TypeOK, CloseExtent, ram

\* The request that a call leaves in io.
LEMMA RequestType ==
  ASSUME NEW at \in {"idle", "close", "open", "xfer"}, NEW op \in IoOp, NEW f \in Fcb,
         NEW e \in Ext, NEW r \in Rec, NEW v \in Value
  PROVE  Request(at, op, f, e, r, v) \in IoType
BY DEF Request, IoType

LEMMA ReadSeqType ==
  ASSUME TypeOK, NEW f \in Fcb, ReadSeq(f)
  PROVE  TypeOK'
<1>1. fcb[f].ext \in Ext /\ NextExt(fcb[f].ext) \in Ext /\ fcb[f].cr \in 0..RecsPerExt
      /\ fcb[f].rc \in 0..RecsPerExt /\ 0 \in Rec
  BY NextExtType, ConstType, SizeAssumption DEF TypeOK, FcbType, Rec
<1>2. "readSeq" \in IoOp /\ Zero \in Value
  BY ValueAssumption DEF IoOp
<1>3. CASE fcb[f].cr < fcb[f].rc /\ io' = Request("xfer", "readSeq", f, fcb[f].ext, fcb[f].cr, Zero)
  <2>1. fcb[f].cr \in Rec
    BY <1>1, <1>3, SizeAssumption DEF Rec
  <2>2. io' \in IoType
    BY <1>1, <1>2, <1>3, <2>1, RequestType
  <2>3. QED
    BY <2>2 DEF TypeOK, ReadSeq, disk, ram, hist
<1>4. CASE io' = Request("close", "readSeq", f, NextExt(fcb[f].ext), 0, Zero)
  <2>1. io' \in IoType
    BY <1>1, <1>2, <1>4, RequestType
  <2>2. QED
    BY <2>1 DEF TypeOK, ReadSeq, disk, ram, hist
<1>5. QED
  BY <1>3, <1>4 DEF ReadSeq

LEMMA WriteSeqType ==
  ASSUME TypeOK, NEW f \in Fcb, NEW v \in Value, WriteSeq(f, v)
  PROVE  TypeOK'
<1>1. CASE Restart
  BY <1>1, RestartType
<1>2. CASE /\ fcb[f].cr < RecsPerExt
           /\ io' = Request("xfer", "writeSeq", f, fcb[f].ext, fcb[f].cr, v)
           /\ UNCHANGED <<disk, ram, fcb, scan, hist>>
  <2>1. fcb[f].ext \in Ext /\ fcb[f].cr \in Rec /\ "writeSeq" \in IoOp
    BY <1>2, SizeAssumption DEF TypeOK, FcbType, Rec, IoOp
  <2>2. io' \in IoType
    BY <1>2, <2>1, RequestType
  <2>3. QED
    BY <1>2, <2>2 DEF TypeOK, disk, ram, hist
<1>3. QED
  BY <1>1, <1>2 DEF WriteSeq

LEMMA PositionType ==
  ASSUME TypeOK, NEW f \in Fcb, NEW op \in IoOp, NEW e \in Ext, NEW r \in Rec,
         NEW v \in Value, Position(f, op, e, r, v)
  PROVE  TypeOK'
<1>1. io' \in IoType
  <2>1. io' = Request("xfer", op, f, e, r, v) \/ io' = Request("close", op, f, e, r, v)
    BY DEF Position
  <2>2. QED
    BY <2>1, RequestType
<1>2. fcb' \in [Fcb -> FcbType]
  <2>1. r \in 0..RecsPerExt
    BY SizeAssumption DEF Rec
  <2>2. QED
    BY <2>1 DEF TypeOK, FcbType, Position
<1>3. QED
  BY <1>1, <1>2 DEF TypeOK, Position, disk, ram, hist

\* The request in progress, and the record number that OPENIT leaves.
\* Error 6 leaves an FCB with its name, its extent and its blocks.
OverflowFields(g) ==
  /\ fcb'[g].open = fcb[g].open /\ fcb'[g].name = fcb[g].name /\ fcb'[g].ext = fcb[g].ext
  /\ fcb'[g].blk = fcb[g].blk /\ fcb'[g].bad = fcb[g].bad /\ fcb'[g].eof = fcb[g].eof
  /\ fcb'[g].rc = fcb[g].rc

LEMMA OverflowEffect ==
  ASSUME TypeOK, NEW f \in Fcb, Overflow(f), NEW g \in Fcb
  PROVE  /\ OverflowFields(g) /\ fcb'[g].cr = fcb[g].cr
         /\ g # f => fcb'[g] = fcb[g]
         /\ g = f => fcb'[g].over = TRUE
<1>1. fcb' = [fcb EXCEPT ![f] = [@ EXCEPT !.dirty = FALSE, !.over = TRUE]]
  BY DEF Overflow
<1>2. QED
  BY <1>1 DEF TypeOK, FcbType, OverflowFields

LEMMA OverflowType ==
  ASSUME TypeOK, NEW f \in Fcb, Overflow(f)
  PROVE  TypeOK'
<1>1. fcb' \in [Fcb -> FcbType]
  <2>1. [fcb[f] EXCEPT !.dirty = FALSE, !.over = TRUE] \in FcbType
    BY DEF TypeOK, FcbType
  <2>2. QED
    BY <2>1 DEF TypeOK, Overflow
<1>2. QED
  BY <1>1 DEF TypeOK, Overflow, disk, ram, hist

LEMMA IoFields ==
  ASSUME TypeOK
  PROVE  /\ io.f \in Fcb /\ io.ext \in Ext /\ io.rec \in Rec /\ io.v \in Value /\ io.op \in IoOp
         /\ fcb[io.f] \in FcbType /\ fcb[io.f].name \in Name /\ fcb[io.f].ro \in BOOLEAN
         /\ FirstRec \in 0..RecsPerExt
<1>1. io.f \in Fcb /\ io.ext \in Ext /\ io.rec \in Rec /\ io.v \in Value /\ io.op \in IoOp
  BY DEF TypeOK, IoType
<1>2. FirstRec \in 0..RecsPerExt
  BY <1>1, SizeAssumption DEF FirstRec, Rec
<1>3. QED
  BY <1>1, <1>2 DEF TypeOK, FcbType

LEMMA ProceedType == ASSUME TypeOK, Proceed PROVE io' \in IoType
BY ConstType DEF TypeOK, Proceed, IoType

LEMMA OpenExtentType == ASSUME TypeOK, OpenExtent PROVE TypeOK'
<1> DEFINE S == Found(fcb[io.f].name, io.ext)
<1>1. Opened(First(S), io.ext, FirstRec) \in FcbType
  <2>1. First(S) \in Dir
    BY FirstFound DEF OpenExtent
  <2>2. QED
    BY <2>1, IoFields, OpenedType
<1>2. fcb' \in [Fcb -> FcbType]
  BY <1>1 DEF TypeOK, OpenExtent
<1>3. io' \in IoType
  BY ProceedType DEF OpenExtent
<1>4. QED
  BY <1>2, <1>3 DEF TypeOK, OpenExtent, disk, ram, hist

LEMMA AddExtentType == ASSUME TypeOK, AddExtent PROVE TypeOK'
<1> DEFINE old == fcb[io.f]
           s == First(FreeEntries)
<1>1. CASE Restart
  BY <1>1, RestartType
<1>2. CASE /\ FreeEntries # {}
           /\ dir' = [dir EXCEPT ![s] = Created(old.name, io.ext, old.ro)]
           /\ mark' = Raised(mark, s)
           /\ fcb' = [fcb EXCEPT ![io.f] = EmptyFcb(old.name, io.ext, old.ro, FirstRec)]
           /\ Proceed
           /\ UNCHANGED <<data, alloc, wp, logged, scan, hist>>
  <2>1. s \in Dir
    BY <1>2, FirstFree
  <2>2. NoBlk \in [SlotIdx -> Block] /\ 0 \in 0..RecsPerExt
    BY ConstType, SizeAssumption DEF NoBlk
  <2>3. Created(old.name, io.ext, old.ro) \in EntryType
    BY <2>2, IoFields DEF Created, EntryType
  <2>4. EmptyFcb(old.name, io.ext, old.ro, FirstRec) \in FcbType
    BY <2>2, IoFields DEF EmptyFcb, FcbType
  <2>5. io' \in IoType
    BY <1>2, ProceedType
  <2>6. QED
    BY <1>2, <2>1, <2>3, <2>4, <2>5, RaisedType DEF TypeOK, hist
<1>3. QED
  BY <1>1, <1>2 DEF AddExtent

LEMMA NoExtentType == ASSUME TypeOK, NoExtent PROVE TypeOK'
<1>1. fcb' \in [Fcb -> FcbType]
  BY IoFields DEF TypeOK, FcbType, NoExtent, Unpositioned
<1>2. QED
  BY <1>1, ConstType DEF TypeOK, NoExtent, disk, ram, hist

LEMMA ReadRecordType == ASSUME TypeOK, ReadRecord PROVE TypeOK'
<1>1. io.rec + 1 \in 0..RecsPerExt
  BY IoFields, SizeAssumption DEF Rec
<1>2. fcb' \in [Fcb -> FcbType]
  <2>1. fcb' = fcb \/ fcb' = [fcb EXCEPT ![io.f].cr = io.rec + 1]
    BY DEF ReadRecord
  <2>2. [fcb EXCEPT ![io.f].cr = io.rec + 1] \in [Fcb -> FcbType]
    BY <1>1, IoFields DEF TypeOK, FcbType
  <2>3. QED
    BY <2>1, <2>2 DEF TypeOK
<1>3. QED
  BY <1>2, ConstType DEF TypeOK, ReadRecord, disk, ram, hist

\* FNDSPACE starts from a block number and finds a free one.
LEMMA FreeBlockFound ==
  ASSUME TypeOK, NEW f \in Fcb, NEW i \in SlotIdx, FreeBlocks # {}
  PROVE  Nearest(Previous(f, i), FreeBlocks) \in Block \ alloc
<1>1. Previous(f, i) \in Nat
  <2>1. CASE i = 0
    BY <2>1 DEF Previous
  <2>2. CASE i # 0
    <3>1. i - 1 \in SlotIdx
      <4>1. BlocksPerExt \in Nat /\ ExtPerEntry * BlocksPerExt \in Nat
        BY SizeAssumption DEF BlocksPerExt
      <4>2. QED
        BY <2>2, <4>1 DEF SlotIdx
    <3>2. fcb[f].blk[i - 1] \in Block
      BY <3>1 DEF TypeOK, FcbType
    <3>3. QED
      BY <2>2, <3>2 DEF Previous, Block
  <2>3. QED
    BY <2>1, <2>2
<1>2. FreeBlocks \subseteq Nat
  BY DEF FreeBlocks, Block
<1>3. QED
  BY <1>1, <1>2, NearestMember DEF FreeBlocks

LEMMA PutRecordType ==
  ASSUME TypeOK, NEW b \in Block, NEW new \in BOOLEAN, PutRecord(io.f, b, new),
         alloc' \subseteq Block
  PROVE  TypeOK'
<1> DEFINE f == io.f
           i == Slot(fcb[f].ext, io.rec)
           cr == IF io.op = "writeSeq" THEN io.rec + 1 ELSE io.rec
           rc == Count(fcb[f].rc, io.rec)
<1>1. cr \in 0..RecsPerExt /\ rc \in 0..RecsPerExt
  BY IoFields, SizeAssumption DEF Rec, Count, FcbType
<1>2. fcb' \in [Fcb -> FcbType]
  <2>1. [fcb[f].blk EXCEPT ![i] = b] \in [SlotIdx -> Block]
    BY IoFields DEF FcbType
  <2>2. [fcb[f] EXCEPT !.blk = [fcb[f].blk EXCEPT ![i] = b], !.rc = rc, !.cr = cr,
                       !.dirty = TRUE, !.over = FALSE] \in FcbType
    <3> HIDE DEF rc, cr, i
    <3>1. QED
      BY <1>1, <2>1, IoFields DEF FcbType
  <2>3. Written(f, i, b) =
          [fcb[f] EXCEPT !.blk = [fcb[f].blk EXCEPT ![i] = b], !.rc = rc, !.cr = cr,
                         !.dirty = TRUE, !.over = FALSE]
    BY IoFields DEF Written, FcbType
  <2>4. QED
    BY <2>2, <2>3, IoFields DEF TypeOK, PutRecord
<1>3. data' \in [Block \ DirBlock -> [0..RecsPerBlock-1 -> Value]]
  BY IoFields, ValueAssumption DEF TypeOK, PutRecord
<1>4. io' \in IoType
  <2>1. NextExt(fcb[f].ext) \in Ext
    BY NextExtType, IoFields DEF FcbType
  <2>2. QED
    BY <2>1, ConstType DEF TypeOK, PutRecord, IoType
<1>5. wr' \in [Name \X Ext \X Rec -> Value \cup {NoValue}]
  BY IoFields DEF TypeOK, PutRecord
<1>6. QED
  BY <1>2, <1>3, <1>4, <1>5 DEF TypeOK, PutRecord

LEMMA WriteRecordType == ASSUME TypeOK, WriteRecord PROVE TypeOK'
<1> DEFINE f == io.f
           i == Slot(fcb[f].ext, io.rec)
           b == Nearest(Previous(f, i), FreeBlocks)
<1>1. f \in Fcb /\ i \in SlotIdx /\ fcb[f].blk[i] \in Block
  <2>1. i \in SlotIdx
    BY IoFields, SlotType DEF FcbType
  <2>2. QED
    BY <2>1, IoFields DEF FcbType
<1>2. CASE Restart
  BY <1>2, RestartType
<1>3. CASE PutRecord(f, fcb[f].blk[i], FALSE) /\ UNCHANGED alloc
  <2>1. alloc' \subseteq Block
    BY <1>3 DEF TypeOK
  <2>2. QED
    BY <1>1, <1>3, <2>1, PutRecordType
<1>4. CASE FreeBlocks # {} /\ PutRecord(f, b, TRUE) /\ alloc' = alloc \cup {b}
  <2>1. b \in Block
    BY <1>1, <1>4, FreeBlockFound
  <2>2. alloc' \subseteq Block
    BY <1>4, <2>1 DEF TypeOK
  <2>3. QED
    BY <1>4, <2>1, <2>2, PutRecordType
<1>5. CASE io' = NoIo /\ UNCHANGED <<disk, ram, fcb, scan, hist>>
  BY <1>5, ConstType DEF TypeOK, disk, ram, hist
<1>6. QED
  BY <1>2, <1>3, <1>4, <1>5 DEF WriteRecord

\* A walk moves from entry to entry.
LEMMA StartType ==
  ASSUME NEW at \in {"erase", "rename", "attr"}, NEW P \in SUBSET Name, NEW to \in Name,
         NEW ro \in BOOLEAN, Start(at, P, to, ro)
  PROVE  /\ scan' \in ScanType /\ scan' = [at |-> at, pat |-> P, to |-> to, ro |-> ro, pos |-> scan'.pos]
         /\ Live(scan'.pos) /\ dir[scan'.pos].name \in P
<1>1. Named(P) \subseteq Nat /\ Named(P) # {}
  BY DEF Start, Named, Dir
<1>2. First(Named(P)) \in Named(P)
  BY <1>1, FirstMember
<1>3. QED
  BY <1>2 DEF Start, ScanType, Named, Live

LEMMA ContinueType ==
  ASSUME TypeOK, Continue
  PROVE  /\ scan' \in ScanType
         /\ \/ scan' = NoScan
            \/ /\ scan' = [scan EXCEPT !.pos = scan'.pos]
               /\ scan'.pos # scan.pos /\ Live(scan'.pos) /\ dir[scan'.pos].name \in scan.pat
<1> DEFINE S == After(scan.pat, scan.pos)
<1>1. CASE S = {}
  BY <1>1, ConstType DEF Continue
<1>2. CASE S # {}
  <2>1. S \subseteq Nat
    BY DEF After, Named, Dir
  <2>2. First(S) \in S
    BY <1>2, <2>1, FirstMember
  <2>3. First(S) \in Dir /\ First(S) # scan.pos /\ Live(First(S)) /\ dir[First(S)].name \in scan.pat
    BY <2>2 DEF After, Named, Live, TypeOK, ScanType, Dir
  <2>4. scan' = [scan EXCEPT !.pos = First(S)]
    BY <1>2 DEF Continue
  <2>5. QED
    BY <2>3, <2>4 DEF TypeOK, ScanType
<1>3. QED
  BY <1>1, <1>2

LEMMA DirCallType ==
  ASSUME TypeOK, DirCall
  PROVE  TypeOK'
<1>1. SomeName \in Name
  BY NameAssumption DEF SomeName
<1>2. ASSUME NEW at \in {"erase", "rename", "attr"}, NEW P \in SUBSET Name, NEW to \in Name,
             NEW ro \in BOOLEAN, Start(at, P, to, ro), UNCHANGED <<disk, ram, fcb, io, hist>>
      PROVE  TypeOK'
  BY <1>2, StartType DEF TypeOK, disk, ram, hist
<1>3. ASSUME NEW P \in SUBSET Name, Delete(P) PROVE TypeOK'
  BY <1>1, <1>2, <1>3, RestartType DEF Delete
<1>4. ASSUME NEW n \in Name, NEW m \in Name, Rename(n, m) PROVE TypeOK'
  BY <1>2, <1>4, RestartType DEF Rename
<1>5. ASSUME NEW n \in Name, NEW ro \in BOOLEAN, SetAttr(n, ro) PROVE TypeOK'
  BY <1>1, <1>2, <1>5 DEF SetAttr
<1>6. QED
  BY <1>3, <1>4, <1>5 DEF DirCall

LEMMA WalkType == ASSUME TypeOK, Walk PROVE TypeOK'
<1> DEFINE s == scan.pos
<1>1. s \in Dir /\ scan.to \in Name /\ scan.ro \in BOOLEAN /\ dir[s] \in EntryType /\ dir[s].name \in Name
  BY DEF TypeOK, ScanType, EntryType
<1>2. CASE EraseEntry
  <2>1. CASE Restart
    BY <2>1, RestartType
  <2>2. CASE ~Restart
    <3>1. dir' \in [Dir -> EntryType]
      BY <1>1, <1>2, <2>2, ConstType DEF EraseEntry, TypeOK
    <3>2. wr' \in [Name \X Ext \X Rec -> Value \cup {NoValue}]
      BY <1>2, <2>2 DEF EraseEntry, TypeOK
    <3>3. QED
      BY <1>2, <2>2, <3>1, <3>2, ContinueType DEF EraseEntry, TypeOK
  <2>3. QED
    BY <2>1, <2>2
<1>3. CASE RenameEntry
  <2>1. CASE Restart
    BY <2>1, RestartType
  <2>2. CASE ~Restart
    <3>1. dir' \in [Dir -> EntryType]
      <4>1. dir' = [dir EXCEPT ![s].name = scan.to]
        BY <1>3, <2>2 DEF RenameEntry
      <4>2. QED
        BY <1>1, <4>1 DEF TypeOK, EntryType
    <3>2. wr' \in [Name \X Ext \X Rec -> Value \cup {NoValue}]
      <4> DEFINE old(k) == <<dir[s].name, k[2], k[3]>>
      <4>1. wr' = [k \in Name \X Ext \X Rec |->
                    IF k \in Covered(scan.to) THEN wr[old(k)]
                    ELSE IF k \in Covered(dir[s].name) THEN NoValue ELSE wr[k]]
        BY <1>3, <2>2 DEF RenameEntry
      <4>2. \A k \in Name \X Ext \X Rec : old(k) \in Name \X Ext \X Rec
        BY <1>1
      <4>3. \A k \in Name \X Ext \X Rec :
              wr[k] \in Value \cup {NoValue} /\ wr[old(k)] \in Value \cup {NoValue}
        BY <4>2 DEF TypeOK
      <4> HIDE DEF old
      <4>4. QED
        BY <4>1, <4>3
    <3>3. synced' \subseteq Name \X Ext \X Rec
      BY <1>3, <2>2 DEF RenameEntry, TypeOK, Covered
    <3>4. QED
      BY <1>3, <2>2, <3>1, <3>2, <3>3, ContinueType DEF RenameEntry, TypeOK, ram
  <2>3. QED
    BY <2>1, <2>2
<1>4. CASE AttrEntry
  <2>1. dir' \in [Dir -> EntryType]
    BY <1>1, <1>4 DEF AttrEntry, TypeOK, EntryType
  <2>2. QED
    BY <1>4, <2>1, ContinueType DEF AttrEntry, TypeOK, ram, hist
<1>5. QED
  BY <1>2, <1>3, <1>4 DEF Walk

LEMMA FcbCallType ==
  ASSUME TypeOK, NEW f \in Fcb, FcbCall(f)
  PROVE  TypeOK'
<1>1. ASSUME NEW n \in Name, Make(f, n) PROVE TypeOK'
  BY <1>1, MakeType
<1>2. ASSUME NEW n \in Name, Open(f, n) PROVE TypeOK'
  BY <1>2, OpenType
<1>3. CASE CloseFile(f)
  BY <1>3, CloseFileType
<1>4. CASE Forget(f)
  BY <1>4, ForgetType
<1>5. CASE ReadSeq(f)
  BY <1>5, ReadSeqType
<1>6. ASSUME NEW v \in Value, WriteSeq(f, v) PROVE TypeOK'
  BY <1>6, WriteSeqType
<1>7. ASSUME NEW e \in Ext, NEW r \in Rec, NEW v \in Value, NEW op \in IoOp,
             Position(f, op, e, r, v)
      PROVE  TypeOK'
  BY <1>7, PositionType
<1>8. "readRan" \in IoOp /\ "writeRan" \in IoOp /\ "writeZero" \in IoOp /\ Zero \in Value
  BY ValueAssumption DEF IoOp
<1>9. CASE Overflow(f)
  BY <1>9, OverflowType
<1>10. QED
  BY <1>1, <1>2, <1>3, <1>4, <1>5, <1>6, <1>7, <1>8, <1>9 DEF FcbCall, ReadRan, WriteRan, WriteZero

LEMMA TransferType == ASSUME TypeOK, Transfer PROVE TypeOK'
BY CloseExtentType, OpenExtentType, AddExtentType, NoExtentType, ReadRecordType,
   WriteRecordType DEF Transfer

LEMMA TypeStep == TypeOK /\ [Next]_vars => TypeOK'
<1> SUFFICES ASSUME TypeOK, [Next]_vars PROVE TypeOK'
  OBVIOUS
<1>1. CASE Next
  BY <1>1, RestartType, LoginType, ResetType, ProtectType, FcbCallType, DirCallType,
     TransferType, WalkType DEF Next
<1>2. CASE UNCHANGED vars
  BY <1>2 DEF TypeOK, vars, disk, ram, hist
<1>3. QED
  BY <1>1, <1>2

\* The state of the file system has its types.
THEOREM TypeCorrect == Spec => []TypeOK
BY InitType, TypeStep, PTL DEF Spec
-----------------------------------------------------------------------------
(* The inductive invariant.                                                 *)

\* GETEMPTY: a free entry and the FCB f become an empty extent e of file n.
LEMMA AddEntry ==
  ASSUME TypeOK, DiskInv, FcbInv, NEW f \in Fcb, NEW s \in Dir, NEW n, NEW e \in Ext,
         NEW ro, NEW cr, ~dir[s].live, \A t \in Dir : ~InGroup(t, n, e),
         \A g \in Fcb : g # f /\ fcb[g].open => fcb[g].name # n,
         dir' = [dir EXCEPT ![s] = Created(n, e, ro)],
         fcb' = [fcb EXCEPT ![f] = EmptyFcb(n, e, ro, cr)],
         mark' = Raised(mark, s), alloc' = alloc, logged' = logged
  PROVE  DiskInv' /\ FcbInv'
<1>1. /\ \A t \in Dir : t # s => dir'[t] = dir[t]
      /\ dir'[s].live /\ dir'[s].name = n /\ dir'[s].ext = e
      /\ \A i \in SlotIdx : dir'[s].blk[i] = 0
  BY DEF TypeOK, Created, NoBlk
<1>2. /\ \A g \in Fcb : g # f => fcb'[g] = fcb[g]
      /\ fcb'[f].open /\ fcb'[f].name = n /\ fcb'[f].ext = e /\ ~fcb'[f].eof
      /\ \A i \in SlotIdx : fcb'[f].blk[i] = 0
  BY DEF TypeOK, EmptyFcb, NoBlk
<1>3. NoCrossLink'
  BY <1>1 DEF DiskInv, NoCrossLink
<1>4. AllocSound'
  BY <1>1, <1>2 DEF DiskInv, AllocSound
<1>5. MarkCovers'
  <2>1. mark \in Nat /\ mark <= mark' /\ s < mark' /\ mark' \in Nat
    BY RaisedType DEF TypeOK
  <2>2. QED
    BY <1>1, <2>1 DEF DiskInv, MarkCovers, Dir
<1>6. OneEntry'
  <2>1. \A t \in Dir : SameEntry(dir[t].ext, e) => SameEntry(e, dir[t].ext)
    BY DEF SameEntry
  <2>2. \A t \in Dir : Live(t) /\ dir[t].name = n =>
          ~SameEntry(dir[t].ext, e) /\ ~SameEntry(e, dir[t].ext)
    BY DEF InGroup, SameEntry
  <2>3. QED
    BY <1>1, <2>2 DEF DiskInv, OneEntry, Live
<1>7. OneFcb'
  BY <1>2 DEF FcbInv, OneFcb
<1>8. FcbApart'
  BY <1>2 DEF FcbInv, FcbApart
<1>9. FcbDir'
  BY <1>1, <1>2 DEF FcbInv, FcbDir, Live
<1>10. EofHome'
  BY <1>1, <1>2 DEF FcbInv, EofHome, InGroup, Live
<1>11. QED
  BY <1>3, <1>4, <1>5, <1>6, <1>7, <1>8, <1>9, <1>10 DEF DiskInv, FcbInv

\* OPENIT1: the FCB f becomes a copy of a live entry s of file n.
LEMMA LoadFcb ==
  ASSUME TypeOK, DiskInv, FcbInv, logged, NEW f \in Fcb, NEW s \in Dir, NEW e \in Ext, NEW cr,
         InGroup(s, dir[s].name, e),
         \A g \in Fcb : g # f /\ fcb[g].open => fcb[g].name # dir[s].name,
         fcb' = [fcb EXCEPT ![f] = Opened(s, e, cr)],
         dir' = dir, mark' = mark, alloc' = alloc, logged' = logged
  PROVE  DiskInv' /\ FcbInv'
<1>1. /\ \A g \in Fcb : g # f => fcb'[g] = fcb[g]
      /\ fcb'[f].open /\ fcb'[f].name = dir[s].name /\ fcb'[f].ext = e /\ ~fcb'[f].eof
      /\ fcb'[f].blk = dir[s].blk
  BY DEF TypeOK, Opened
<1>2. dir[s].live /\ SameEntry(dir[s].ext, e)
  BY DEF InGroup, Live
<1>3. NoCrossLink' /\ MarkCovers' /\ OneEntry'
  BY DEF DiskInv, NoCrossLink, MarkCovers, OneEntry
<1>4. AllocSound'
  BY <1>1, <1>2 DEF DiskInv, AllocSound
<1>5. OneFcb'
  BY <1>1 DEF FcbInv, OneFcb
<1>6. FcbApart'
  <2>1. ASSUME NEW g \in Fcb, g # f, fcb[g].open, NEW i \in SlotIdx, NEW j \in SlotIdx,
               fcb[g].blk[i] = dir[s].blk[j]
        PROVE  fcb[g].blk[i] = 0
    BY <1>2, <2>1 DEF FcbInv, FcbDir, Live
  <2>2. QED
    BY <1>1, <1>2, <2>1 DEF DiskInv, NoCrossLink, FcbInv, FcbApart
<1>7. FcbDir'
  BY <1>1, <1>2 DEF DiskInv, NoCrossLink, FcbInv, FcbDir, Live
<1>8. EofHome'
  BY <1>1 DEF FcbInv, EofHome, InGroup, Live
<1>9. QED
  BY <1>3, <1>4, <1>5, <1>6, <1>7, <1>8 DEF DiskInv, FcbInv

\* A call that leaves directory and block numbers alone, but may give up the
\* place of one FCB or move it past the end of the file.
LEMMA MoveFcb ==
  ASSUME TypeOK, DiskInv, FcbInv, NEW f \in Fcb,
         \A g \in Fcb : g # f => fcb'[g] = fcb[g],
         fcb'[f].open => /\ fcb[f].open /\ fcb'[f].name = fcb[f].name
                         /\ fcb'[f].blk = fcb[f].blk,
         \/ fcb'[f].bad /\ ~fcb'[f].eof
         \/ fcb'[f].eof /\ \A s \in Dir : ~InGroup(s, fcb'[f].name, fcb'[f].ext)
         \/ /\ fcb'[f].bad = fcb[f].bad /\ fcb'[f].eof = fcb[f].eof
            /\ fcb'[f].ext = fcb[f].ext,
         dir' = dir, mark' = mark \/ mark' = NumDir, alloc' = alloc, logged' = logged
  PROVE  DiskInv' /\ FcbInv'
<1>1. NoCrossLink' /\ OneEntry'
  BY DEF DiskInv, NoCrossLink, OneEntry
<1>2. MarkCovers'
  BY SizeAssumption DEF DiskInv, MarkCovers, Dir
<1>3. AllocSound'
  BY DEF DiskInv, AllocSound
<1>4. OneFcb'
  BY DEF FcbInv, OneFcb
<1>5. FcbApart'
  BY DEF FcbInv, FcbApart
<1>6. FcbDir'
  BY DEF FcbInv, FcbDir, Live
<1>7. EofHome'
  BY DEF FcbInv, EofHome, InGroup, Live
<1>8. QED
  BY <1>1, <1>2, <1>3, <1>4, <1>5, <1>6, <1>7 DEF DiskInv, FcbInv

\* WTSEQ1: the FCB f gets a block that was free.
LEMMA TakeBlock ==
  ASSUME TypeOK, DiskInv, FcbInv, logged, NEW f \in Fcb, NEW i \in SlotIdx, NEW b \in Block \ alloc,
         fcb[f].open, fcb' = [fcb EXCEPT ![f] = Written(f, i, b)],
         dir' = dir, mark' = mark, alloc' = alloc \cup {b}, logged' = logged
  PROVE  DiskInv' /\ FcbInv'
<1>1. /\ \A g \in Fcb : g # f => fcb'[g] = fcb[g]
      /\ fcb'[f].open /\ fcb'[f].name = fcb[f].name /\ fcb'[f].ext = fcb[f].ext
      /\ fcb'[f].bad = fcb[f].bad /\ fcb'[f].eof = fcb[f].eof
      /\ \A j \in SlotIdx : fcb'[f].blk[j] = IF j = i THEN b ELSE fcb[f].blk[j]
  BY DEF TypeOK, FcbType, Written
<1>2. /\ b \notin DirBlock /\ b # 0
      /\ \A s \in Dir : \A j \in SlotIdx : dir[s].live => dir[s].blk[j] # b
      /\ \A g \in Fcb : \A j \in SlotIdx : fcb[g].open => fcb[g].blk[j] # b
  BY ConstType DEF DiskInv, AllocSound
<1>3. NoCrossLink' /\ MarkCovers' /\ OneEntry'
  BY DEF DiskInv, NoCrossLink, MarkCovers, OneEntry
<1>4. AllocSound'
  BY <1>1 DEF DiskInv, AllocSound
<1>5. OneFcb'
  BY <1>1 DEF FcbInv, OneFcb
<1>6. FcbApart'
  BY <1>1, <1>2 DEF FcbInv, FcbApart
<1>7. FcbDir'
  BY <1>1, <1>2 DEF FcbInv, FcbDir, Live
<1>8. EofHome'
  BY <1>1 DEF FcbInv, EofHome, InGroup, Live
<1>9. QED
  BY <1>3, <1>4, <1>5, <1>6, <1>7, <1>8 DEF DiskInv, FcbInv

\* CLOSEIT: the block numbers of the FCB f and of its entry are merged.
LEMMA CloseFcb ==
  ASSUME TypeOK, DiskInv, FcbInv, logged, NEW f \in Fcb, NEW blk, CloseIt(f, blk), fcb[f].open,
         \A g \in Fcb : g # f => fcb'[g] = fcb[g],
         fcb'[f].open, fcb'[f].name = fcb[f].name, fcb'[f].blk = blk,
         \/ fcb'[f].bad /\ ~fcb'[f].eof
         \/ /\ fcb'[f].bad = fcb[f].bad /\ fcb'[f].eof = fcb[f].eof
            /\ fcb'[f].ext = fcb[f].ext,
         mark' = mark, alloc' = alloc, logged' = logged
  PROVE  DiskInv' /\ FcbInv'
<1>1. CASE blk = fcb[f].blk /\ dir' = dir
  BY <1>1, MoveFcb
<1>2. CASE /\ ~fcb[f].bad /\ Home(f) # {} /\ blk = Merged(f, First(Home(f)))
           /\ \/ dir' = dir
              \/ dir' = [dir EXCEPT ![First(Home(f))] = ClosedEntry(f, First(Home(f)), blk)]
  <2>1. PICK s \in Dir : /\ s = First(Home(f)) /\ Live(s) /\ dir[s].name = fcb[f].name
                         /\ SameEntry(dir[s].ext, fcb[f].ext)
    BY <1>2, HomeFound
  <2>2. ~fcb[f].eof
    BY <2>1 DEF FcbInv, EofHome, InGroup
  <2>3. \A i \in SlotIdx : blk[i] = fcb[f].blk[i] \/ (fcb[f].blk[i] = 0 /\ blk[i] = dir[s].blk[i])
    BY <1>2, <2>1 DEF Merged
  <2>4. HighestExt(dir[s].ext, fcb[f].ext) \div ExtPerEntry = dir[s].ext \div ExtPerEntry
    BY <2>1 DEF HighestExt, SameEntry
  <2>5. /\ \A t \in Dir : t # s => dir'[t] = dir[t]
        /\ dir'[s].live /\ dir'[s].name = dir[s].name
        /\ dir'[s].ext = dir[s].ext \/ dir'[s].ext = HighestExt(dir[s].ext, fcb[f].ext)
        /\ dir'[s].blk = dir[s].blk \/ dir'[s].blk = blk
    <3>1. ClosedEntry(f, s, blk).live = dir[s].live /\ ClosedEntry(f, s, blk).name = dir[s].name
          /\ ClosedEntry(f, s, blk).ext = HighestExt(dir[s].ext, fcb[f].ext)
          /\ ClosedEntry(f, s, blk).blk = blk
      BY <2>1 DEF TypeOK, EntryType, ClosedEntry
    <3>2. QED
      BY <1>2, <2>1, <3>1 DEF TypeOK, Live
  <2>6. \A t \in Dir : dir'[t].live = dir[t].live /\ dir'[t].name = dir[t].name
    BY <2>1, <2>5, CloseItType DEF TypeOK, EntryType, Live
  <2>7. \A t \in Dir : dir'[t].ext \div ExtPerEntry = dir[t].ext \div ExtPerEntry
    BY <2>4, <2>5
  <2>8. NoCrossLink'
    <3>1. CASE dir'[s].blk = dir[s].blk
      BY <2>5, <2>6, <3>1 DEF DiskInv, NoCrossLink
    <3>2. CASE dir'[s].blk = blk
      <4>1. ASSUME NEW t \in Dir, t # s, dir[t].live, NEW i \in SlotIdx, NEW j \in SlotIdx,
                   blk[i] = dir[t].blk[j]
            PROVE  blk[i] = 0
        <5>0. dir[s].live
          BY <2>1 DEF Live
        <5>1. CASE blk[i] = dir[s].blk[i]
          <6>1. dir[s].blk[i] = dir[t].blk[j] /\ dir[s].blk[i] # 0 => s = t
            BY <4>1, <5>0 DEF DiskInv, NoCrossLink
          <6>2. QED
            BY <4>1, <5>1, <6>1
        <5>2. CASE blk[i] = fcb[f].blk[i]
          <6>1. fcb[f].blk[i] = dir[t].blk[j] /\ fcb[f].blk[i] # 0
                  => dir[t].name = fcb[f].name /\ SameEntry(dir[t].ext, fcb[f].ext)
            BY <1>2, <2>2, <4>1 DEF FcbInv, FcbDir, Live
          <6>2. blk[i] # 0 => SameEntry(dir[s].ext, dir[t].ext)
            BY <2>1, <4>1, <5>2, <6>1 DEF SameEntry
          <6>3. QED
            BY <2>1, <4>1, <5>0, <5>2, <6>1, <6>2 DEF DiskInv, OneEntry
        <5>3. QED
          BY <2>3, <5>1, <5>2
      <4>2. ASSUME NEW i \in SlotIdx, NEW j \in SlotIdx, blk[i] = blk[j], blk[i] # 0
            PROVE  i = j /\ blk[i] \notin DirBlock
        BY <2>1, <2>3, <4>2 DEF DiskInv, NoCrossLink, FcbInv, FcbApart, FcbDir, Live
      <4>3. QED
        BY <2>5, <2>6, <3>2, <4>1, <4>2 DEF DiskInv, NoCrossLink
    <3>3. QED
      BY <2>5, <3>1, <3>2
  <2>9. \A i \in SlotIdx : blk[i] # 0 => blk[i] \in alloc
    BY <2>1, <2>3 DEF DiskInv, AllocSound, Live
  <2>10. AllocSound'
    BY <2>5, <2>6, <2>9 DEF DiskInv, AllocSound
  <2>11. MarkCovers'
    BY <2>6 DEF DiskInv, MarkCovers
  <2>12. OneEntry'
    BY <2>6, <2>7 DEF DiskInv, OneEntry, SameEntry
  <2>13. OneFcb'
    BY DEF FcbInv, OneFcb
  <2>14. FcbApart'
    <3>1. ASSUME NEW g \in Fcb, g # f, fcb[g].open, NEW i \in SlotIdx, NEW j \in SlotIdx,
                 fcb[g].blk[i] = blk[j]
          PROVE  fcb[g].blk[i] = 0
      <4>1. CASE blk[j] = fcb[f].blk[j]
        BY <3>1, <4>1 DEF FcbInv, FcbApart
      <4>2. CASE blk[j] = dir[s].blk[j]
        BY <2>1, <3>1, <4>2 DEF FcbInv, FcbDir, OneFcb
      <4>3. QED
        BY <2>3, <4>1, <4>2
    <3>2. ASSUME NEW i \in SlotIdx, NEW j \in SlotIdx, blk[i] = blk[j], blk[i] # 0
          PROVE  i = j /\ blk[i] \notin DirBlock
      BY <2>1, <2>3, <3>2 DEF DiskInv, NoCrossLink, FcbInv, FcbApart, FcbDir, Live
    <3>3. QED
      BY <3>1, <3>2 DEF FcbInv, FcbApart
  <2>15. FcbDir'
    <3> SUFFICES ASSUME NEW g \in Fcb, NEW t \in Dir, NEW i \in SlotIdx, NEW j \in SlotIdx,
                        fcb'[g].open, dir[t].live, fcb'[g].blk[i] = dir'[t].blk[j], fcb'[g].blk[i] # 0
                 PROVE  /\ i = j /\ dir[t].name = fcb'[g].name
                        /\ fcb'[g].bad \/ fcb'[g].eof \/ SameEntry(dir'[t].ext, fcb'[g].ext)
      BY <2>6 DEF FcbDir, Live
    <3>1. CASE g # f
      <4>1. dir'[t].blk[j] = dir[t].blk[j] \/ (t = s /\ dir'[t].blk[j] = blk[j])
        BY <2>5
      <4>2. CASE dir'[t].blk[j] = dir[t].blk[j]
        BY <2>7, <3>1, <4>2 DEF FcbInv, FcbDir, Live, SameEntry
      <4>3. CASE t = s /\ dir'[t].blk[j] = blk[j] /\ blk[j] = fcb[f].blk[j]
        BY <3>1, <4>3 DEF FcbInv, FcbApart
      <4>4. CASE t = s /\ dir'[t].blk[j] = blk[j] /\ blk[j] = dir[s].blk[j]
        BY <2>7, <3>1, <4>4 DEF FcbInv, FcbDir, Live, SameEntry
      <4>5. QED
        BY <2>3, <4>1, <4>2, <4>3, <4>4
    <3>2. CASE g = f
      <4>1. SameEntry(dir'[s].ext, fcb[f].ext)
        BY <2>1, <2>7 DEF SameEntry
      <4>2. CASE t = s
        <5>1. i = j
          BY <2>1, <2>3, <2>5, <3>2, <4>2 DEF DiskInv, NoCrossLink, FcbInv, FcbApart, FcbDir, Live
        <5>2. QED
          BY <2>1, <3>2, <4>1, <4>2, <5>1
      <4>3. CASE t # s
        <5>1. dir'[t] = dir[t]
          BY <2>5, <4>3
        <5>2. CASE blk[i] = fcb[f].blk[i]
          BY <3>2, <4>3, <5>1, <5>2 DEF FcbInv, FcbDir, Live
        <5>3. CASE blk[i] = dir[s].blk[i]
          BY <2>1, <3>2, <4>3, <5>1, <5>3 DEF DiskInv, NoCrossLink, Live
        <5>4. QED
          BY <2>3, <5>2, <5>3
      <4>4. QED
        BY <4>2, <4>3
    <3>3. QED
      BY <3>1, <3>2
  <2>16. EofHome'
    BY <2>2, <2>6, <2>7 DEF FcbInv, EofHome, InGroup, Live, SameEntry
  <2>17. QED
    BY <2>8, <2>10, <2>11, <2>12, <2>13, <2>14, <2>15, <2>16 DEF DiskInv, FcbInv
<1>3. QED
  BY <1>1, <1>2, CloseItEffect
-----------------------------------------------------------------------------
(* One lemma for each action, or group of actions with the same effect.     *)

LEMMA InitSafe == Init => Safe
<1> SUFFICES ASSUME Init PROVE Safe
  OBVIOUS
<1>1. /\ \A s \in Dir : dir[s] = Erased
      /\ \A f \in Fcb : fcb[f] = Unused
      /\ ~logged /\ io = NoIo /\ scan = NoScan
  BY DEF Init
<1>2. \A s \in Dir : ~dir[s].live
  BY <1>1 DEF Erased
<1>3. \A f \in Fcb : ~fcb[f].open
  BY <1>1 DEF Unused
<1>4. Control /\ WalkState
  BY <1>1, <1>3 DEF Control, WalkState, NoIo, NoScan
<1>5. DiskInv
  BY <1>1, <1>2 DEF DiskInv, NoCrossLink, AllocSound, MarkCovers, OneEntry
<1>6. FcbInv
  BY <1>3 DEF FcbInv, OneFcb, FcbApart, FcbDir, EofHome
<1>7. QED
  BY <1>4, <1>5, <1>6 DEF Safe

LEMMA IdleFacts == Idle => io.at = "idle" /\ scan.at = "idle"
BY DEF Idle, NoIo, NoScan

\* A walk that has ended, or has not begun, has nothing left to do.
LEMMA NoWalk == scan'.at = "idle" => WalkState'
BY DEF WalkState

LEMMA RestartSafe == ASSUME IInv, Restart PROVE Safe'
<1>1. dir' = dir /\ ~logged' /\ (\A f \in Fcb : fcb'[f] = Unused) /\ io' = NoIo /\ scan' = NoScan
  BY DEF Restart, disk
<1>2. \A f \in Fcb : ~fcb'[f].open
  BY <1>1 DEF Unused
<1>3. Control' /\ WalkState'
  BY <1>1, <1>2 DEF Control, WalkState, NoIo, NoScan
<1>4. DiskInv'
  BY <1>1 DEF IInv, Safe, DiskInv, NoCrossLink, AllocSound, MarkCovers, OneEntry
<1>5. FcbInv'
  BY <1>2 DEF FcbInv, OneFcb, FcbApart, FcbDir, EofHome
<1>6. QED
  BY <1>3, <1>4, <1>5 DEF Safe

\* Login and reset rebuild the vector and the mark while no file is open.
LEMMA BuildMapSafe ==
  ASSUME IInv, BuildMap, dir' = dir, fcb' = fcb, io' = io, scan' = scan,
         \A f \in Fcb : ~fcb[f].open, io.at = "idle", scan.at = "idle"
  PROVE  Safe'
<1>1. logged' /\ alloc' = BitMap
  BY DEF BuildMap
<1>2. Control' /\ WalkState'
  BY <1>1 DEF Control, WalkState
<1>3. \A s \in Dir : \A i \in SlotIdx : dir[s].live /\ dir[s].blk[i] # 0 => dir[s].blk[i] \in BitMap
  BY DEF BitMap, Blocks
<1>4. AllocSound'
  BY <1>1, <1>3, BuildMapType DEF IInv, AllocSound
<1>5. MarkCovers'
  BY BuildMapType DEF IInv, MarkCovers, Live
<1>6. NoCrossLink' /\ OneEntry'
  BY DEF IInv, Safe, DiskInv, NoCrossLink, OneEntry
<1>7. FcbInv'
  BY DEF FcbInv, OneFcb, FcbApart, FcbDir, EofHome
<1>8. QED
  BY <1>2, <1>4, <1>5, <1>6, <1>7 DEF Safe, DiskInv

LEMMA LoginSafe == ASSUME IInv, LoginDrv PROVE Safe'
BY BuildMapSafe DEF LoginDrv, IInv, Safe, Control, disk

LEMMA ResetSafe == ASSUME IInv, ResetDisk PROVE Safe'
BY BuildMapSafe, IdleFacts DEF ResetDisk, disk

LEMMA ProtectSafe == ASSUME IInv, WriteProtect PROVE Safe'
<1>1. DiskInv' /\ FcbInv'
  <2>1. PICK f \in Fcb : TRUE
    BY NameAssumption
  <2>2. QED
    BY <2>1, MoveFcb DEF IInv, Safe, WriteProtect, disk
<1>2. Control' /\ WalkState'
  BY IdleFacts DEF IInv, Safe, WriteProtect, Control, WalkState, disk
<1>3. QED
  BY <1>1, <1>2 DEF Safe

LEMMA MakeSafe ==
  ASSUME IInv, NEW f \in Fcb, NEW n \in Name, Make(f, n)
  PROVE  Safe'
<1>1. CASE Restart
  BY <1>1, RestartSafe
<1>2. CASE ~Restart
  <2>1. PICK s \in Dir :
          /\ ~dir[s].live /\ dir' = [dir EXCEPT ![s] = Created(n, 0, FALSE)]
          /\ mark' = Raised(mark, s) /\ fcb' = [fcb EXCEPT ![f] = EmptyFcb(n, 0, FALSE, 0)]
    BY <1>2, FirstFree DEF Make
  <2>2. logged' = logged /\ alloc' = alloc /\ io' = io /\ scan' = scan /\ logged /\ Idle
    BY <1>2 DEF Make
  <2>3. \A t \in Dir : ~InGroup(t, n, 0)
    BY DEF Make, Fresh, InGroup, Live
  <2>4. \A g \in Fcb : g # f /\ fcb[g].open => fcb[g].name # n
    BY DEF Make, Fresh, NotOpen
  <2>5. DiskInv' /\ FcbInv'
    BY <2>1, <2>2, <2>3, <2>4, AddEntry, ConstType DEF IInv, Safe
  <2>6. Control' /\ WalkState'
    BY <2>2, IdleFacts DEF Control, WalkState
  <2>7. QED
    BY <2>5, <2>6 DEF Safe
<1>3. QED
  BY <1>1, <1>2

LEMMA OpenSafe ==
  ASSUME IInv, NEW f \in Fcb, NEW n \in Name, Open(f, n)
  PROVE  Safe'
<1>1. PICK s \in Dir : /\ InGroup(s, dir[s].name, 0) /\ dir[s].name = n
                       /\ fcb' = [fcb EXCEPT ![f] = Opened(s, 0, 0)]
  BY FirstFound DEF Open, InGroup
<1>2. \A g \in Fcb : g # f /\ fcb[g].open => fcb[g].name # n
  BY DEF Open, NotOpen
<1>3. logged /\ dir' = dir /\ mark' = mark /\ alloc' = alloc /\ logged' = logged
  BY DEF Open, disk, ram
<1>4. DiskInv' /\ FcbInv'
  BY <1>1, <1>2, <1>3, LoadFcb, ConstType DEF IInv, Safe
<1>5. Control' /\ WalkState'
  BY IdleFacts DEF Open, Control, WalkState, ram
<1>6. QED
  BY <1>4, <1>5 DEF Safe

LEMMA CloseFileSafe ==
  ASSUME IInv, NEW f \in Fcb, CloseFile(f)
  PROVE  Safe'
<1>1. PICK blk \in [SlotIdx -> Block] : CloseIt(f, blk) /\ fcb' = [fcb EXCEPT ![f].blk = blk]
  BY DEF CloseFile
<1>2. /\ \A g \in Fcb : g # f => fcb'[g] = fcb[g]
      /\ fcb'[f].open = fcb[f].open /\ fcb'[f].name = fcb[f].name /\ fcb'[f].blk = blk
      /\ fcb'[f].bad = fcb[f].bad /\ fcb'[f].eof = fcb[f].eof /\ fcb'[f].ext = fcb[f].ext
  BY <1>1 DEF IInv, TypeOK, FcbType
<1>3. fcb[f].open /\ logged /\ Idle /\ mark' = mark /\ alloc' = alloc /\ logged' = logged
      /\ io' = io /\ scan' = scan
  BY DEF CloseFile, ram
<1>4. DiskInv' /\ FcbInv'
  BY <1>1, <1>2, <1>3, CloseFcb DEF IInv, Safe
<1>5. Control' /\ WalkState'
  BY <1>3, IdleFacts DEF Control, WalkState
<1>6. QED
  BY <1>4, <1>5 DEF Safe

LEMMA ForgetSafe ==
  ASSUME IInv, NEW f \in Fcb, Forget(f)
  PROVE  Safe'
<1>1. /\ \A g \in Fcb : g # f => fcb'[g] = fcb[g]
      /\ ~fcb'[f].open
  BY DEF IInv, TypeOK, Forget, Unused
<1>2. /\ logged /\ Idle /\ dir' = dir /\ mark' = mark /\ alloc' = alloc /\ logged' = logged
      /\ io' = io /\ scan' = scan
  BY DEF Forget, IInv, Safe, Control, disk, ram
<1>3. FcbInv'
  BY <1>1, <1>2 DEF IInv, Safe, FcbInv, OneFcb, FcbApart, FcbDir, EofHome, Live, InGroup
<1>4. DiskInv'
  BY <1>1, <1>2 DEF IInv, Safe, DiskInv, NoCrossLink, AllocSound, MarkCovers, OneEntry
<1>5. Control' /\ WalkState'
  BY <1>2, IdleFacts DEF Control, WalkState
<1>6. QED
  BY <1>3, <1>4, <1>5 DEF Safe

\* A call that only leaves a request, or not even that: ReadSeq, WriteSeq,
\* Position and Overflow.
LEMMA RequestSafe ==
  ASSUME IInv, NEW f \in Fcb, fcb[f].open, logged, Idle, io'.f = f \/ io' = io,
         \A g \in Fcb : /\ fcb'[g].open = fcb[g].open /\ fcb'[g].name = fcb[g].name
                        /\ fcb'[g].ext = fcb[g].ext /\ fcb'[g].blk = fcb[g].blk
                        /\ fcb'[g].bad = fcb[g].bad /\ fcb'[g].eof = fcb[g].eof,
         UNCHANGED <<disk, ram, scan>>
  PROVE  Safe'
<1>1. dir' = dir /\ alloc' = alloc /\ mark' = mark /\ logged' = logged /\ scan' = scan
  BY DEF disk, ram
<1>2. DiskInv'
  BY <1>1 DEF IInv, Safe, DiskInv, NoCrossLink, AllocSound, MarkCovers, OneEntry
<1>3. FcbInv'
  BY <1>1 DEF IInv, Safe, FcbInv, OneFcb, FcbApart, FcbDir, EofHome, Live, InGroup
<1>4. Control' /\ WalkState'
  BY <1>1, IdleFacts DEF Control, WalkState
<1>5. QED
  BY <1>2, <1>3, <1>4 DEF Safe

LEMMA ReadSeqSafe ==
  ASSUME IInv, NEW f \in Fcb, ReadSeq(f)
  PROVE  Safe'
<1>1. io'.f = f
  BY DEF ReadSeq, Request
<1>2. QED
  BY <1>1, RequestSafe DEF ReadSeq, Usable

LEMMA WriteSeqSafe ==
  ASSUME IInv, NEW f \in Fcb, NEW v \in Value, WriteSeq(f, v)
  PROVE  Safe'
<1>1. CASE Restart
  BY <1>1, RestartSafe
<1>2. CASE ~Restart
  <2>1. io'.f = f
    BY <1>2 DEF WriteSeq, Request
  <2>2. QED
    BY <1>2, <2>1, RequestSafe DEF WriteSeq, Usable
<1>3. QED
  BY <1>1, <1>2

LEMMA PositionSafe ==
  ASSUME IInv, NEW f \in Fcb, NEW op, NEW e, NEW r, NEW v, Position(f, op, e, r, v)
  PROVE  Safe'
<1>1. io'.f = f
  BY DEF Position, Request
<1>2. \A g \in Fcb : /\ fcb'[g].open = fcb[g].open /\ fcb'[g].name = fcb[g].name
                     /\ fcb'[g].ext = fcb[g].ext /\ fcb'[g].blk = fcb[g].blk
                     /\ fcb'[g].bad = fcb[g].bad /\ fcb'[g].eof = fcb[g].eof
  BY DEF Position, IInv, TypeOK, FcbType
<1>3. QED
  BY <1>1, <1>2, RequestSafe DEF Position

LEMMA OverflowSafe ==
  ASSUME IInv, NEW f \in Fcb, Overflow(f)
  PROVE  Safe'
<1>1. \A g \in Fcb : OverflowFields(g)
  BY OverflowEffect DEF IInv
<1>2. QED
  BY <1>1, RequestSafe, IdleFacts DEF Overflow, OverflowFields

\* In a transfer the FCB is open, on a logged-in drive.
LEMMA TransferFacts ==
  ASSUME IInv, io.at # "idle"
  PROVE  /\ io.f \in Fcb /\ io.ext \in Ext /\ fcb[io.f].open /\ logged /\ scan.at = "idle"
         /\ \A g \in Fcb : g # io.f /\ fcb[g].open => fcb[g].name # fcb[io.f].name
         /\ Found(fcb[io.f].name, io.ext) = {} => \A s \in Dir : ~InGroup(s, fcb[io.f].name, io.ext)
<1>1. io.f \in Fcb /\ io.ext \in Ext
  BY DEF IInv, TypeOK, IoType
<1>2. fcb[io.f].open /\ logged /\ scan.at = "idle"
  BY <1>1 DEF IInv, Safe, Control
<1>3. \A g \in Fcb : g # io.f /\ fcb[g].open => fcb[g].name # fcb[io.f].name
  BY <1>1, <1>2 DEF IInv, Safe, FcbInv, OneFcb
<1>4. ASSUME NEW s \in Dir, InGroup(s, fcb[io.f].name, io.ext)
      PROVE  s \in Found(fcb[io.f].name, io.ext)
  BY <1>2, <1>4 DEF IInv, Safe, DiskInv, MarkCovers, InGroup, Live, Found, Named
<1>5. QED
  BY <1>1, <1>2, <1>3, <1>4

\* What a step of a transfer has to show: the FCB stays open.
LEMMA TransferControl ==
  ASSUME IInv, io.at # "idle", fcb'[io.f].open, io'.at = "idle" \/ io'.f = io.f,
         scan' = scan, logged' = logged
  PROVE  Control' /\ WalkState'
BY TransferFacts DEF Control, WalkState

LEMMA CloseExtentSafe == ASSUME IInv, CloseExtent PROVE Safe'
<1>1. PICK f \in Fcb : f = io.f
  BY DEF IInv, TypeOK, IoType
<1>2. PICK blk \in [SlotIdx -> Block] :
        /\ CloseIt(f, blk)
        /\ \/ fcb' = Unpositioned(f, fcb[f].ext, blk) /\ io' = NoIo
           \/ fcb' = fcb /\ io' = NoIo /\ CloseStatus(f) = "lost"
           \/ fcb' = Unpositioned(f, 0, blk) /\ io' = NoIo
           \/ fcb' = [fcb EXCEPT ![f].blk = blk] /\ io' = [io EXCEPT !.at = "open"]
  BY <1>1 DEF CloseExtent
<1>3. io.at # "idle" /\ mark' = mark /\ alloc' = alloc /\ logged' = logged /\ scan' = scan
  BY DEF CloseExtent, ram
<1>4. fcb[f].open /\ logged
  BY <1>1, <1>3, TransferFacts
<1>5. ASSUME NEW e, fcb' = Unpositioned(f, e, blk)
      PROVE  /\ \A g \in Fcb : g # f => fcb'[g] = fcb[g]
             /\ fcb'[f].open = fcb[f].open /\ fcb'[f].name = fcb[f].name /\ fcb'[f].blk = blk
             /\ fcb'[f].bad /\ ~fcb'[f].eof
  BY <1>5 DEF IInv, TypeOK, FcbType, Unpositioned
<1>6. /\ \A g \in Fcb : g # f => fcb'[g] = fcb[g]
      /\ fcb'[f].open = fcb[f].open /\ fcb'[f].name = fcb[f].name /\ fcb'[f].blk = blk
      /\ \/ fcb'[f].bad /\ ~fcb'[f].eof
         \/ /\ fcb'[f].bad = fcb[f].bad /\ fcb'[f].eof = fcb[f].eof
            /\ fcb'[f].ext = fcb[f].ext
  <2>1. CASE fcb' = fcb /\ CloseStatus(f) = "lost"
    <3>1. blk = fcb[f].blk
      BY <1>2, <2>1 DEF CloseIt
    <3>2. QED
      BY <2>1, <3>1
  <2>2. CASE fcb' = [fcb EXCEPT ![f].blk = blk]
    BY <2>2 DEF IInv, TypeOK, FcbType
  <2>3. QED
    BY <1>2, <1>5, <2>1, <2>2
<1>7. DiskInv' /\ FcbInv'
  BY <1>2, <1>3, <1>4, <1>6, CloseFcb DEF IInv, Safe
<1>8. io'.at = "idle" \/ io'.f = io.f
  BY <1>2 DEF IInv, TypeOK, IoType, NoIo
<1>9. Control' /\ WalkState'
  BY <1>1, <1>3, <1>4, <1>6, <1>8, TransferControl
<1>10. QED
  BY <1>7, <1>9 DEF Safe

LEMMA OpenExtentSafe == ASSUME IInv, OpenExtent PROVE Safe'
<1>1. PICK f \in Fcb : f = io.f
  BY DEF IInv, TypeOK, IoType
<1>2. PICK s \in Dir : /\ InGroup(s, dir[s].name, io.ext) /\ dir[s].name = fcb[f].name
                       /\ fcb' = [fcb EXCEPT ![f] = Opened(s, io.ext, FirstRec)]
  BY <1>1, FirstFound DEF OpenExtent, InGroup
<1>3. /\ io.at # "idle" /\ dir' = dir /\ mark' = mark /\ alloc' = alloc /\ logged' = logged
      /\ scan' = scan /\ Proceed
  BY DEF OpenExtent, disk, ram
<1>4. DiskInv' /\ FcbInv'
  <2>1. logged /\ io.ext \in Ext /\ \A g \in Fcb : g # f /\ fcb[g].open => fcb[g].name # dir[s].name
    BY <1>1, <1>2, <1>3, TransferFacts
  <2>2. QED
    BY <1>2, <1>3, <2>1, LoadFcb DEF IInv, Safe
<1>5. fcb'[io.f].open
  BY <1>1, <1>2 DEF IInv, TypeOK, Opened
<1>6. io'.at = "idle" \/ io'.f = io.f
  BY <1>3 DEF IInv, TypeOK, IoType, NoIo, Proceed
<1>7. Control' /\ WalkState'
  BY <1>3, <1>5, <1>6, TransferControl
<1>8. QED
  BY <1>4, <1>7 DEF Safe

LEMMA AddExtentSafe == ASSUME IInv, AddExtent PROVE Safe'
<1>1. CASE Restart
  BY <1>1, RestartSafe
<1>2. CASE ~Restart
  <2>1. PICK f \in Fcb : f = io.f
    BY DEF IInv, TypeOK, IoType
  <2>2. PICK s \in Dir :
          /\ ~dir[s].live
          /\ dir' = [dir EXCEPT ![s] = Created(fcb[f].name, io.ext, fcb[f].ro)]
          /\ mark' = Raised(mark, s)
          /\ fcb' = [fcb EXCEPT ![f] = EmptyFcb(fcb[f].name, io.ext, fcb[f].ro, FirstRec)]
    BY <1>2, <2>1, FirstFree DEF AddExtent
  <2>3. io.at # "idle" /\ alloc' = alloc /\ logged' = logged /\ scan' = scan /\ Proceed
        /\ Found(fcb[f].name, io.ext) = {}
    BY <1>2, <2>1 DEF AddExtent
  <2>4. DiskInv' /\ FcbInv'
    BY <2>1, <2>2, <2>3, TransferFacts, AddEntry DEF IInv, Safe
  <2>5. fcb'[io.f].open
    BY <2>1, <2>2 DEF IInv, TypeOK, EmptyFcb
  <2>6. io'.at = "idle" \/ io'.f = io.f
    BY <2>3 DEF IInv, TypeOK, IoType, NoIo, Proceed
  <2>7. Control' /\ WalkState'
    BY <2>3, <2>5, <2>6, TransferControl
  <2>8. QED
    BY <2>4, <2>7 DEF Safe
<1>3. QED
  BY <1>1, <1>2

LEMMA NoExtentSafe == ASSUME IInv, NoExtent PROVE Safe'
<1>1. PICK f \in Fcb : f = io.f
  BY DEF IInv, TypeOK, IoType
<1>2. /\ io.at # "idle" /\ dir' = dir /\ mark' = mark /\ alloc' = alloc /\ logged' = logged
      /\ scan' = scan /\ io' = NoIo /\ Found(fcb[f].name, io.ext) = {}
  BY <1>1 DEF NoExtent, disk, ram
<1>3. /\ \A g \in Fcb : g # f => fcb'[g] = fcb[g]
      /\ fcb'[f].open = fcb[f].open /\ fcb'[f].name = fcb[f].name /\ fcb'[f].blk = fcb[f].blk
      /\ fcb'[f].ext = io.ext /\ (fcb'[f].eof \/ (fcb'[f].bad /\ ~fcb'[f].eof))
  BY <1>1 DEF IInv, TypeOK, FcbType, NoExtent, Unpositioned
<1>4. DiskInv' /\ FcbInv'
  BY <1>1, <1>2, <1>3, TransferFacts, MoveFcb DEF IInv, Safe
<1>5. io'.at = "idle"
  BY <1>2 DEF NoIo
<1>6. Control' /\ WalkState'
  BY <1>1, <1>2, <1>3, <1>5, TransferFacts, TransferControl
<1>7. QED
  BY <1>4, <1>6 DEF Safe

LEMMA ReadRecordSafe == ASSUME IInv, ReadRecord PROVE Safe'
<1>1. PICK f \in Fcb : f = io.f
  BY DEF IInv, TypeOK, IoType
<1>2. /\ io.at # "idle" /\ dir' = dir /\ mark' = mark /\ alloc' = alloc /\ logged' = logged
      /\ scan' = scan /\ io' = NoIo
  BY DEF ReadRecord, disk, ram
<1>3. /\ \A g \in Fcb : g # f => fcb'[g] = fcb[g]
      /\ fcb'[f].open = fcb[f].open /\ fcb'[f].name = fcb[f].name /\ fcb'[f].blk = fcb[f].blk
      /\ fcb'[f].ext = fcb[f].ext /\ fcb'[f].bad = fcb[f].bad /\ fcb'[f].eof = fcb[f].eof
  <2>1. fcb' = fcb \/ fcb' = [fcb EXCEPT ![f].cr = io.rec + 1]
    BY <1>1 DEF ReadRecord
  <2>2. QED
    BY <2>1 DEF IInv, TypeOK, FcbType
<1>4. DiskInv' /\ FcbInv'
  BY <1>1, <1>2, <1>3, TransferFacts, MoveFcb DEF IInv, Safe
<1>5. io'.at = "idle"
  BY <1>2 DEF NoIo
<1>6. Control' /\ WalkState'
  BY <1>1, <1>2, <1>3, <1>5, TransferFacts, TransferControl
<1>7. QED
  BY <1>4, <1>6 DEF Safe

LEMMA WriteRecordSafe == ASSUME IInv, WriteRecord PROVE Safe'
<1>1. PICK f \in Fcb : f = io.f
  BY DEF IInv, TypeOK, IoType
<1>2. PICK i \in SlotIdx : i = Slot(fcb[f].ext, io.rec)
  BY <1>1, IoFields, SlotType DEF IInv, FcbType
<1>3. io.at # "idle"
  BY DEF WriteRecord
<1>4. fcb[f].open /\ logged
  BY <1>1, <1>3, TransferFacts
<1>5. ASSUME NEW b, NEW new, PutRecord(f, b, new)
      PROVE  /\ fcb' = [fcb EXCEPT ![f] = Written(f, i, b)] /\ dir' = dir /\ mark' = mark
             /\ logged' = logged /\ scan' = scan /\ (io'.at = "idle" \/ io'.f = io.f)
             /\ \A g \in Fcb : g # f => fcb'[g] = fcb[g]
             /\ fcb'[f].open /\ fcb'[f].name = fcb[f].name
             /\ fcb'[f].blk = [fcb[f].blk EXCEPT ![i] = b]
             /\ fcb'[f].ext = fcb[f].ext /\ fcb'[f].bad = fcb[f].bad /\ fcb'[f].eof = fcb[f].eof
  <2>1. fcb' = [fcb EXCEPT ![f] = Written(f, i, b)] /\ dir' = dir /\ mark' = mark
        /\ logged' = logged /\ scan' = scan
    BY <1>2, <1>5 DEF PutRecord
  <2>2. io'.at = "idle" \/ io'.f = io.f
    BY <1>5 DEF PutRecord, IInv, TypeOK, IoType, NoIo
  <2>3. /\ Written(f, i, b).open = fcb[f].open /\ Written(f, i, b).name = fcb[f].name
        /\ Written(f, i, b).blk = [fcb[f].blk EXCEPT ![i] = b]
        /\ Written(f, i, b).ext = fcb[f].ext /\ Written(f, i, b).bad = fcb[f].bad
        /\ Written(f, i, b).eof = fcb[f].eof
    BY DEF Written, IInv, TypeOK, FcbType
  <2>4. QED
    BY <1>4, <2>1, <2>2, <2>3 DEF IInv, TypeOK
<1>6. CASE Restart
  BY <1>6, RestartSafe
<1>7. CASE PutRecord(f, fcb[f].blk[i], FALSE) /\ UNCHANGED alloc
  <2>1. [fcb[f].blk EXCEPT ![i] = fcb[f].blk[i]] = fcb[f].blk
    BY DEF IInv, TypeOK, FcbType
  <2>2. DiskInv' /\ FcbInv'
    BY <1>4, <1>5, <1>7, <2>1, MoveFcb DEF IInv, Safe
  <2>3. Control' /\ WalkState'
    BY <1>1, <1>3, <1>5, <1>7, TransferControl
  <2>4. QED
    BY <2>2, <2>3 DEF Safe
<1>8. ASSUME NEW b \in Block \ alloc, PutRecord(f, b, TRUE), alloc' = alloc \cup {b}
      PROVE  Safe'
  <2>1. DiskInv' /\ FcbInv'
    BY <1>4, <1>5, <1>8, TakeBlock DEF IInv, Safe
  <2>2. Control' /\ WalkState'
    BY <1>1, <1>3, <1>5, <1>8, TransferControl
  <2>3. QED
    BY <2>1, <2>2 DEF Safe
<1>9. CASE io' = NoIo /\ UNCHANGED <<disk, ram, fcb, scan, hist>>
  <2>1. /\ dir' = dir /\ mark' = mark /\ alloc' = alloc /\ logged' = logged /\ scan' = scan
        /\ fcb' = fcb /\ io'.at = "idle"
    BY <1>9 DEF disk, ram, NoIo
  <2>2. DiskInv' /\ FcbInv'
    BY <1>4, <2>1, MoveFcb DEF IInv, Safe
  <2>3. Control' /\ WalkState'
    BY <1>1, <1>3, <1>4, <2>1, TransferControl
  <2>4. QED
    BY <2>2, <2>3 DEF Safe
<1>10. QED
  <2>1. FreeBlocks # {} => Nearest(Previous(f, i), FreeBlocks) \in Block \ alloc
    BY FreeBlockFound DEF IInv
  <2>2. QED
    BY <1>1, <1>2, <1>6, <1>7, <1>8, <1>9, <2>1 DEF WriteRecord

\* A call that starts a walk.
LEMMA StartSafe ==
  ASSUME IInv, NEW at \in {"erase", "rename", "attr"}, NEW P \in SUBSET Name, NEW to \in Name,
         NEW ro \in BOOLEAN, logged, Idle, Start(at, P, to, ro), UNCHANGED <<disk, ram, fcb, io>>,
         at \in {"erase", "rename"} => NotOpen(P),
         at = "rename" => /\ NotOpen({to}) /\ to \notin P /\ \A m, n \in P : m = n
                          /\ \A s \in Dir : Live(s) => dir[s].name # to
  PROVE  Safe'
<1>1. dir' = dir /\ alloc' = alloc /\ mark' = mark /\ logged' = logged /\ io' = io /\ fcb' = fcb
  BY DEF disk, ram
<1>2. /\ scan'.at = at /\ scan'.pat = P /\ scan'.to = to
      /\ Live(scan'.pos) /\ dir[scan'.pos].name \in P
  <2>1. /\ scan' = [at |-> at, pat |-> P, to |-> to, ro |-> ro, pos |-> scan'.pos]
        /\ Live(scan'.pos) /\ dir[scan'.pos].name \in P
    BY StartType
  <2>2. scan'.at = at /\ scan'.pat = P /\ scan'.to = to
    BY <2>1
  <2>3. QED
    BY <2>1, <2>2
<1>3. Control'
  BY <1>1, IdleFacts DEF Control
<1>4. WalkState'
  BY <1>1, <1>2 DEF WalkState, NotOpen, Live, InGroup
<1>5. DiskInv' /\ FcbInv'
  <2>1. PICK f \in Fcb : TRUE
    BY NameAssumption
  <2>2. QED
    BY <1>1, <2>1, MoveFcb DEF IInv, Safe
<1>6. QED
  BY <1>3, <1>4, <1>5 DEF Safe

LEMMA DirCallSafe == ASSUME IInv, DirCall PROVE Safe'
<1>1. SomeName \in Name
  BY NameAssumption DEF SomeName
<1>2. ASSUME NEW P \in SUBSET Name, Delete(P) PROVE Safe'
  BY <1>1, <1>2, RestartSafe, StartSafe DEF Delete
<1>3. ASSUME NEW n \in Name, NEW m \in Name, Rename(n, m) PROVE Safe'
  <2>1. CASE Restart
    BY <2>1, RestartSafe
  <2>2. CASE ~Restart
    <3>1. /\ logged /\ Idle /\ Start("rename", {n}, m, FALSE) /\ UNCHANGED <<disk, ram, fcb, io>>
          /\ NotOpen({n}) /\ NotOpen({m}) /\ m \notin {n}
      BY <1>3, <2>2 DEF Rename, Fresh
    <3>2. \A s \in Dir : Live(s) => dir[s].name # m
      BY <1>3 DEF Rename, Fresh, Live
    <3>3. QED
      BY <3>1, <3>2, StartSafe
  <2>3. QED
    BY <2>1, <2>2
<1>4. ASSUME NEW n \in Name, NEW ro \in BOOLEAN, SetAttr(n, ro) PROVE Safe'
  BY <1>1, <1>4, StartSafe DEF SetAttr
<1>5. QED
  BY <1>2, <1>3, <1>4 DEF DirCall

\* A walk that is not at its end is on the drive it was started on.
LEMMA WalkFacts ==
  ASSUME IInv, scan.at # "idle"
  PROVE  logged /\ io.at = "idle" /\ scan.pos \in Dir
BY DEF IInv, Safe, Control, TypeOK, ScanType

\* The next entry of the walk, and what it means for Control.
LEMMA ContinueFacts ==
  ASSUME IInv, scan.at # "idle", Continue, io' = io, fcb' = fcb, logged' = logged
  PROVE  /\ Control'
         /\ \/ scan'.at = "idle"
            \/ /\ scan'.at = scan.at /\ scan'.pat = scan.pat /\ scan'.to = scan.to
               /\ scan'.pos # scan.pos /\ scan'.pos \in Dir
               /\ Live(scan'.pos) /\ dir[scan'.pos].name \in scan.pat
<1>1. Control'
  BY WalkFacts DEF Control
<1>2. CASE scan' = NoScan
  BY <1>1, <1>2 DEF NoScan
<1>3. CASE /\ scan' = [scan EXCEPT !.pos = scan'.pos] /\ scan' \in ScanType
           /\ scan'.pos # scan.pos /\ Live(scan'.pos) /\ dir[scan'.pos].name \in scan.pat
  <2>1. scan'.at = scan.at /\ scan'.pat = scan.pat /\ scan'.to = scan.to /\ scan'.pos \in Dir
    BY <1>3 DEF IInv, TypeOK, ScanType
  <2>2. QED
    BY <1>1, <1>3, <2>1
<1>4. QED
  BY <1>2, <1>3, ContinueType DEF IInv

LEMMA EraseSafe == ASSUME IInv, EraseEntry PROVE Safe'
<1>1. CASE Restart
  BY <1>1, RestartSafe
<1>2. CASE ~Restart
  <2>1. PICK s \in Dir : s = scan.pos
    BY DEF IInv, TypeOK, ScanType
  <2>2. /\ scan.at = "erase" /\ dir' = [dir EXCEPT ![s] = Erased]
        /\ alloc' = alloc \ Blocks(dir[s].blk) /\ mark' = mark /\ logged' = logged
        /\ fcb' = fcb /\ io' = io /\ Continue
    BY <1>2, <2>1 DEF EraseEntry
  <2>3. NotOpen(scan.pat) /\ dir[s].live /\ dir[s].name \in scan.pat
    BY <2>1, <2>2 DEF IInv, Safe, WalkState, Live
  <2>4. (\A t \in Dir : t # s => dir'[t] = dir[t]) /\ ~dir'[s].live
    BY <2>2 DEF IInv, TypeOK, Erased
  <2>5. NoCrossLink' /\ OneEntry'
    BY <2>4 DEF IInv, Safe, DiskInv, NoCrossLink, OneEntry
  <2>6. MarkCovers'
    BY <2>2, <2>4 DEF IInv, Safe, DiskInv, MarkCovers
  <2>7. AllocSound'
    <3>1. DirBlock \cap Blocks(dir[s].blk) = {}
      BY <2>3 DEF IInv, Safe, DiskInv, NoCrossLink, Blocks
    <3>2. ASSUME NEW t \in Dir, t # s, dir[t].live, NEW i \in SlotIdx, dir[t].blk[i] # 0
          PROVE  dir[t].blk[i] \notin Blocks(dir[s].blk)
      BY <2>3, <3>2 DEF IInv, Safe, DiskInv, NoCrossLink, Blocks
    <3>3. ASSUME NEW f \in Fcb, fcb[f].open, NEW i \in SlotIdx, fcb[f].blk[i] # 0
          PROVE  fcb[f].blk[i] \notin Blocks(dir[s].blk)
      BY <2>3, <3>3 DEF IInv, Safe, FcbInv, FcbDir, Blocks, NotOpen, Live
    <3>4. QED
      BY <2>2, <2>4, <3>1, <3>2, <3>3 DEF IInv, Safe, DiskInv, AllocSound
  <2>8. FcbInv'
    BY <2>2, <2>4 DEF IInv, Safe, FcbInv, OneFcb, FcbApart, FcbDir, EofHome, InGroup, Live
  <2>9. Control' /\ WalkState'
    BY <2>1, <2>2, <2>3, <2>4, ContinueFacts DEF WalkState, NotOpen, Live
  <2>10. QED
    BY <2>5, <2>6, <2>7, <2>8, <2>9 DEF Safe, DiskInv
<1>3. QED
  BY <1>1, <1>2

LEMMA RenameSafe == ASSUME IInv, RenameEntry PROVE Safe'
<1>1. CASE Restart
  BY <1>1, RestartSafe
<1>2. CASE ~Restart
  <2>1. PICK s \in Dir : s = scan.pos
    BY DEF IInv, TypeOK, ScanType
  <2>2. /\ scan.at = "rename" /\ dir' = [dir EXCEPT ![s].name = scan.to]
        /\ alloc' = alloc /\ mark' = mark /\ logged' = logged
        /\ fcb' = fcb /\ io' = io /\ Continue
    BY <1>2, <2>1 DEF RenameEntry, ram
  <2>3. /\ NotOpen(scan.pat) /\ dir[s].live /\ dir[s].name \in scan.pat
        /\ NotOpen({scan.to}) /\ scan.to \notin scan.pat /\ \A m, n \in scan.pat : m = n
        /\ \A t, u \in Dir : dir[t].live /\ dir[t].name \in scan.pat /\ dir[u].live
             /\ dir[u].name = scan.to => ~SameEntry(dir[u].ext, dir[t].ext)
    BY <2>1, <2>2 DEF IInv, Safe, WalkState, Live, InGroup
  <2>4. /\ \A t \in Dir : t # s => dir'[t] = dir[t]
        /\ dir'[s].name = scan.to
        /\ \A t \in Dir : dir'[t].live = dir[t].live /\ dir'[t].ext = dir[t].ext /\ dir'[t].blk = dir[t].blk
    BY <2>2 DEF IInv, TypeOK, EntryType
  <2>5. NoCrossLink' /\ MarkCovers' /\ AllocSound'
    BY <2>2, <2>4 DEF IInv, Safe, DiskInv, NoCrossLink, MarkCovers, AllocSound
  <2>6. OneEntry'
    <3>1. ASSUME NEW t \in Dir, t # s, dir[t].live, dir[t].name = scan.to
          PROVE  ~SameEntry(dir[t].ext, dir[s].ext) /\ ~SameEntry(dir[s].ext, dir[t].ext)
      BY <2>3, <3>1 DEF SameEntry
    <3>2. QED
      BY <2>4, <3>1 DEF IInv, Safe, DiskInv, OneEntry
  <2>7. OneFcb' /\ FcbApart'
    BY <2>2 DEF IInv, Safe, FcbInv, OneFcb, FcbApart
  <2>8. FcbDir'
    <3>1. ASSUME NEW f \in Fcb, fcb[f].open, NEW i \in SlotIdx, NEW j \in SlotIdx,
                 fcb[f].blk[i] = dir[s].blk[j]
          PROVE  fcb[f].blk[i] = 0
      BY <2>3, <3>1 DEF IInv, Safe, FcbInv, FcbDir, NotOpen, Live
    <3>2. QED
      BY <2>2, <2>4, <3>1 DEF IInv, Safe, FcbInv, FcbDir, Live
  <2>9. EofHome'
    BY <2>2, <2>3, <2>4 DEF IInv, Safe, FcbInv, EofHome, InGroup, Live, NotOpen
  <2>10. WalkState'
    <3>1. CASE scan'.at = "idle"
      BY <3>1 DEF WalkState
    <3>2. CASE /\ scan'.at = scan.at /\ scan'.pat = scan.pat /\ scan'.to = scan.to
               /\ scan'.pos # scan.pos /\ scan'.pos \in Dir
               /\ Live(scan'.pos) /\ dir[scan'.pos].name \in scan.pat
      <4>1. ASSUME NEW t \in Dir, NEW u \in Dir, dir[t].live, dir'[t].name \in scan.pat,
                   dir[u].live, dir'[u].name = scan.to
            PROVE  ~SameEntry(dir[u].ext, dir[t].ext)
        <5>1. t # s /\ dir[t].name \in scan.pat
          BY <2>3, <2>4, <4>1
        <5>2. CASE u # s
          BY <2>3, <2>4, <4>1, <5>1, <5>2
        <5>3. CASE u = s
          <6>1. dir[s].name = dir[t].name
            BY <2>3, <5>1
          <6>2. QED
            BY <2>3, <4>1, <5>1, <5>3, <6>1 DEF IInv, Safe, DiskInv, OneEntry
        <5>4. QED
          BY <5>2, <5>3
      <4>2. QED
        BY <2>1, <2>2, <2>3, <2>4, <3>2, <4>1 DEF WalkState, NotOpen, Live, InGroup
    <3>3. QED
      BY <2>2, <3>1, <3>2, ContinueFacts
  <2>11. Control'
    BY <2>2, ContinueFacts
  <2>12. QED
    BY <2>5, <2>6, <2>7, <2>8, <2>9, <2>10, <2>11 DEF Safe, DiskInv, FcbInv
<1>3. QED
  BY <1>1, <1>2

LEMMA AttrSafe == ASSUME IInv, AttrEntry PROVE Safe'
<1>1. PICK s \in Dir : s = scan.pos
  BY DEF IInv, TypeOK, ScanType
<1>2. /\ scan.at = "attr" /\ dir' = [dir EXCEPT ![s].ro = scan.ro]
      /\ alloc' = alloc /\ mark' = mark /\ logged' = logged
      /\ fcb' = fcb /\ io' = io /\ Continue
  BY <1>1 DEF AttrEntry, ram
<1>3. \A t \in Dir : /\ dir'[t].live = dir[t].live /\ dir'[t].ext = dir[t].ext
                     /\ dir'[t].blk = dir[t].blk /\ dir'[t].name = dir[t].name
  BY <1>2 DEF IInv, TypeOK, EntryType
<1>4. DiskInv'
  BY <1>2, <1>3 DEF IInv, Safe, DiskInv, NoCrossLink, MarkCovers, AllocSound, OneEntry
<1>5. FcbInv'
  BY <1>2, <1>3 DEF IInv, Safe, FcbInv, OneFcb, FcbApart, FcbDir, EofHome, InGroup, Live
<1>6. Control' /\ WalkState'
  BY <1>2, ContinueFacts DEF WalkState
<1>7. QED
  BY <1>4, <1>5, <1>6 DEF Safe
-----------------------------------------------------------------------------
LEMMA FcbCallSafe ==
  ASSUME IInv, NEW f \in Fcb, FcbCall(f)
  PROVE  Safe'
BY MakeSafe, OpenSafe, CloseFileSafe, ForgetSafe, OverflowSafe, ReadSeqSafe, WriteSeqSafe,
   PositionSafe
   DEF FcbCall, ReadRan, WriteRan, WriteZero

LEMMA SafeStep == IInv /\ [Next]_vars => IInv'
<1> SUFFICES ASSUME IInv, [Next]_vars PROVE IInv'
  OBVIOUS
<1>1. TypeOK'
  BY TypeStep DEF IInv
<1>2. CASE Next
  BY <1>1, <1>2, RestartSafe, LoginSafe, ResetSafe, ProtectSafe, FcbCallSafe, DirCallSafe,
     CloseExtentSafe, OpenExtentSafe, AddExtentSafe, NoExtentSafe, ReadRecordSafe,
     WriteRecordSafe, EraseSafe, RenameSafe, AttrSafe DEF Next, Transfer, Walk, IInv
<1>3. CASE UNCHANGED vars
  <2>1. /\ dir' = dir /\ alloc' = alloc /\ mark' = mark /\ logged' = logged
        /\ fcb' = fcb /\ io' = io /\ scan' = scan
    BY <1>3 DEF vars, disk, ram
  <2>2. Control' /\ WalkState'
    BY <2>1 DEF IInv, Safe, Control, WalkState, NotOpen, InGroup, Live
  <2>3. DiskInv'
    BY <2>1 DEF IInv, Safe, DiskInv, NoCrossLink, MarkCovers, AllocSound, OneEntry
  <2>4. FcbInv'
    BY <2>1 DEF IInv, Safe, FcbInv, OneFcb, FcbApart, FcbDir, EofHome, InGroup, Live
  <2>5. QED
    BY <1>1, <2>2, <2>3, <2>4 DEF IInv, Safe
<1>4. QED
  BY <1>2, <1>3

\* IInv holds in every state that any sequence of file calls, aborts and resets
\* leads to.
THEOREM InvCorrect == Spec => []IInv
<1>1. Init => IInv
  BY InitType, InitSafe DEF IInv
<1>2. QED
  BY <1>1, SafeStep, PTL DEF Spec

\* No block belongs to two files or twice to one file, or lies in the directory.
THEOREM NoCrossLinkCorrect == Spec => []NoCrossLink
BY InvCorrect, PTL DEF IInv, Safe, DiskInv

\* The allocation vector covers every block of the directory and of an FCB.
THEOREM AllocSoundCorrect == Spec => []AllocSound
BY InvCorrect, PTL DEF IInv, Safe, DiskInv

\* The directory searches that stop at the high-water mark see every entry.
THEOREM MarkCoversCorrect == Spec => []MarkCovers
BY InvCorrect, PTL DEF IInv, Safe, DiskInv

\* No two directory entries describe the same extents of a file.
THEOREM OneEntryCorrect == Spec => []OneEntry
BY InvCorrect, PTL DEF IInv, Safe, DiskInv
-----------------------------------------------------------------------------
(* What the file system keeps: the walks of the directory come to their    *)
(* end, a protected disk is not written, an FCB can be closed, and what is  *)
(* written stays in an FCB until it is recorded, or until the FCB goes on   *)
(* or is closed after error 6 has marked it as not modified: that is lost   *)
(* (run "file_overflow").  The last three need that no program uses random  *)
(* I/O on an FCB that has just run past its last extent: the run "stale"    *)
(* shows what happens when one does.  WalkedInv, FileInv and DataInv are    *)
(* inductive relative to IInv, one after the other.                         *)

(* Walks of the directory.                                                 *)

\* Between two steps of a walk there is nothing but the reset switch.
LEMMA ScanStep ==
  ASSUME IInv, Next
  PROVE  \/ Restart
         \/ scan.at = "idle" /\ (DirCall \/ scan' = scan)
         \/ scan.at # "idle" /\ Walk
<1>1. CASE LoginDrv
  BY <1>1 DEF LoginDrv, IInv, Safe, Control
<1>2. CASE ResetDisk \/ WriteProtect
  BY <1>2, IdleFacts DEF ResetDisk, WriteProtect
<1>3. ASSUME NEW f \in Fcb, FcbCall(f) PROVE Restart \/ (scan.at = "idle" /\ scan' = scan)
  <2>1. Restart \/ (Idle /\ scan' = scan)
    BY <1>3 DEF FcbCall, Make, Open, CloseFile, Forget, Overflow, ReadSeq, WriteSeq, Usable,
                ReadRan, WriteRan, WriteZero, Position
  <2>2. QED
    BY <2>1, IdleFacts
<1>4. CASE DirCall
  <2>1. Idle
    BY <1>4 DEF DirCall, Delete, Rename, SetAttr
  <2>2. QED
    BY <1>4, <2>1, IdleFacts
<1>5. CASE Transfer
  <2>1. io.at # "idle" /\ (Restart \/ scan' = scan)
    BY <1>5 DEF Transfer, CloseExtent, OpenExtent, AddExtent, NoExtent, ReadRecord, WriteRecord,
                PutRecord
  <2>2. QED
    BY <2>1, TransferFacts
<1>6. CASE Walk
  <2>1. scan.at # "idle"
    BY <1>6 DEF Walk, EraseEntry, RenameEntry, AttrEntry
  <2>2. QED
    BY <1>6, <2>1
<1>7. QED
  BY <1>1, <1>2, <1>3, <1>4, <1>5, <1>6 DEF Next

\* A walk starts at the lowest entry of its names.
LEMMA StartLow ==
  ASSUME IInv, logged, NEW at, NEW P, NEW to, NEW ro, Start(at, P, to, ro),
         NEW s \in Dir, Live(s), dir[s].name \in P
  PROVE  scan'.pos <= s
<1>1. s \in Named(P)
  BY DEF IInv, Safe, DiskInv, MarkCovers, Named, Live
<1>2. First(Named(P)) <= s
  BY <1>1, FirstMember DEF Named, Dir
<1>3. QED
  BY <1>2 DEF Start

\* It goes on to the next one, and ends if there is none.
LEMMA ContinueLow ==
  ASSUME IInv, logged, Continue, scan.at # "idle",
         NEW s \in Dir, Live(s), dir[s].name \in scan.pat, scan.pos < s
  PROVE  scan' # NoScan /\ scan'.pos <= s
<1> DEFINE S == After(scan.pat, scan.pos)
<1>1. s \in S
  BY DEF IInv, Safe, DiskInv, MarkCovers, After, Named, Live
<1>2. First(S) <= s
  <2>1. S \subseteq Nat
    BY DEF After, Named, Dir
  <2>2. QED
    BY <1>1, <2>1, FirstMember
<1>3. scan' = [scan EXCEPT !.pos = First(S)]
  BY <1>1 DEF Continue
<1>4. scan'.pos = First(S) /\ scan'.at = scan.at
  BY <1>3 DEF IInv, TypeOK, ScanType
<1>5. QED
  BY <1>2, <1>4 DEF NoScan

\* A step of an erase or a rename changes the entry it is at, so that no name
\* of the walk is left on it, and no other.
LEMMA WalkChange ==
  ASSUME IInv, EraseEntry \/ RenameEntry, ~Restart
  PROVE  /\ logged /\ scan.pos \in Dir /\ wp' = wp /\ data' = data /\ Continue
         /\ \A t \in Dir : t # scan.pos => dir'[t] = dir[t]
         /\ dir'[scan.pos].live => dir'[scan.pos].name \notin scan.pat
<1>1. scan.at \in {"erase", "rename"}
  BY DEF EraseEntry, RenameEntry
<1>2. logged /\ scan.pos \in Dir
  BY <1>1, WalkFacts
<1>3. CASE EraseEntry
  <2>1. dir' = [dir EXCEPT ![scan.pos] = Erased] /\ wp' = wp /\ data' = data /\ Continue
    BY <1>3 DEF EraseEntry
  <2>2. ~dir'[scan.pos].live /\ \A t \in Dir : t # scan.pos => dir'[t] = dir[t]
    BY <1>2, <2>1 DEF IInv, TypeOK, Erased
  <2>3. QED
    BY <1>2, <2>1, <2>2
<1>4. CASE RenameEntry
  <2>1. scan.to \notin scan.pat
    BY <1>4 DEF RenameEntry, IInv, Safe, WalkState
  <2>2. dir' = [dir EXCEPT ![scan.pos].name = scan.to] /\ wp' = wp /\ data' = data /\ Continue
    BY <1>4 DEF RenameEntry, ram
  <2>3. dir'[scan.pos].name = scan.to /\ \A t \in Dir : t # scan.pos => dir'[t] = dir[t]
    BY <1>2, <2>2 DEF IInv, TypeOK, EntryType
  <2>4. QED
    BY <1>2, <2>1, <2>2, <2>3
<1>5. QED
  BY <1>3, <1>4

LEMMA WalkedStep == ASSUME IInv, WalkedInv, [Next]_vars PROVE WalkedInv'
<1>1. CASE UNCHANGED vars
  BY <1>1 DEF vars, disk, ram, WalkedInv, Live
<1>2. CASE scan'.at \notin {"erase", "rename"}
  BY <1>2 DEF WalkedInv
<1>3. CASE DirCall /\ ~Restart /\ scan'.at \in {"erase", "rename"}
  <2>1. PICK at, P, to, ro : /\ Start(at, P, to, ro) /\ UNCHANGED <<disk, ram>> /\ logged
                             /\ at \in {"erase", "rename"} => ~wp
    <3>1. ASSUME NEW Q \in SUBSET Name, Delete(Q)
          PROVE  Start("erase", Q, SomeName, FALSE) /\ UNCHANGED <<disk, ram>> /\ logged /\ ~wp
      BY <1>3, <3>1 DEF Delete
    <3>2. ASSUME NEW n \in Name, NEW m \in Name, Rename(n, m)
          PROVE  Start("rename", {n}, m, FALSE) /\ UNCHANGED <<disk, ram>> /\ logged /\ ~wp
      BY <1>3, <3>2 DEF Rename
    <3>3. ASSUME NEW n \in Name, NEW b \in BOOLEAN, SetAttr(n, b)
          PROVE  Start("attr", {n}, SomeName, b) /\ UNCHANGED <<disk, ram>> /\ logged
      BY <3>3 DEF SetAttr
    <3>4. "attr" \notin {"erase", "rename"}
      OBVIOUS
    <3>5. CASE \E Q \in SUBSET Name : Delete(Q)
      BY <3>1, <3>5
    <3>6. CASE \E n, m \in Name : Rename(n, m)
      BY <3>2, <3>6
    <3>7. CASE \E n \in Name, b \in BOOLEAN : SetAttr(n, b)
      BY <3>3, <3>4, <3>7
    <3>8. QED
      BY <1>3, <3>5, <3>6, <3>7 DEF DirCall
  <2>2. scan'.at = at /\ scan'.pat = P
    BY <2>1 DEF Start
  <2>3. \A s \in Dir : Live(s) /\ dir[s].name \in P => scan'.pos <= s
    BY <2>1, StartLow
  <2>4. scan'.pos \in Nat
    <3>1. Named(P) \subseteq Nat /\ Named(P) # {} /\ scan'.pos = First(Named(P))
      BY <2>1 DEF Start, Named, Dir
    <3>2. QED
      BY <3>1, FirstMember
  <2>5. QED
    BY <1>3, <2>1, <2>2, <2>3, <2>4 DEF WalkedInv, disk, ram, Live, Dir
<1>4. CASE (EraseEntry \/ RenameEntry) /\ ~Restart /\ scan'.at \in {"erase", "rename"}
  <2>1. /\ logged /\ scan.pos \in Dir /\ wp' = wp /\ Continue
        /\ \A t \in Dir : t # scan.pos => dir'[t] = dir[t]
        /\ dir'[scan.pos].live => dir'[scan.pos].name \notin scan.pat
    BY <1>4, WalkChange
  <2>2. scan.at \in {"erase", "rename"}
    BY <1>4 DEF EraseEntry, RenameEntry
  <2>3. scan'.pat = scan.pat /\ scan'.pos \in Dir
    <3>1. scan' = [scan EXCEPT !.pos = scan'.pos] /\ scan' \in ScanType
      BY <1>4, <2>1, ContinueType DEF NoScan, IInv
    <3>2. QED
      BY <3>1 DEF IInv, TypeOK, ScanType
  <2>4. ASSUME NEW t \in Dir, t < scan'.pos, dir'[t].live PROVE dir'[t].name \notin scan.pat
    <3>1. CASE t = scan.pos
      BY <2>1, <2>4, <3>1
    <3>2. CASE t < scan.pos
      BY <2>1, <2>2, <2>4, <3>2 DEF WalkedInv, Live, Dir
    <3>3. CASE scan.pos < t
      <4>1. dir'[t] = dir[t]
        BY <2>1, <3>3 DEF Dir
      <4>2. ~(scan'.pos <= t)
        BY <2>3, <2>4 DEF Dir
      <4>3. QED
        BY <2>1, <2>2, <2>4, <3>3, <4>1, <4>2, ContinueLow DEF Live
    <3>4. QED
      BY <2>1, <3>1, <3>2, <3>3 DEF Dir
  <2>5. ~wp
    BY <2>2 DEF WalkedInv
  <2>6. QED
    BY <2>1, <2>3, <2>4, <2>5 DEF WalkedInv, Live
<1>5. CASE Restart
  BY <1>2, <1>5 DEF Restart, NoScan
<1>6. CASE AttrEntry
  <2>1. scan'.at \in {"attr", "idle"}
    BY <1>6, ContinueType DEF AttrEntry, NoScan, IInv, TypeOK, ScanType
  <2>2. QED
    BY <1>2, <2>1
<1>7. CASE scan' = scan /\ scan.at = "idle"
  BY <1>2, <1>7
<1>8. QED
  BY <1>1, <1>2, <1>3, <1>4, <1>5, <1>6, <1>7, ScanStep DEF Walk

\* The walk keeps its order as well as the rest of the invariant.
THEOREM WalkedCorrect == Spec => [](IInv /\ WalkedInv)
<1>1. Init => WalkedInv
  BY DEF Init, WalkedInv, NoScan
<1>2. IInv /\ WalkedInv /\ [Next]_vars => WalkedInv'
  BY WalkedStep
<1>3. Spec => []WalkedInv
  BY <1>1, <1>2, InvCorrect, PTL DEF Spec
<1>4. QED
  BY <1>3, InvCorrect, PTL

\* When ERAFILE or CHGNAMES comes to its end, no entry of the old name is left.
THEOREM WalkCompleteCorrect == Spec => WalkComplete
<1> DEFINE Ends == scan.at \in {"erase", "rename"} /\ scan' = NoScan /\ logged'
                     => \A s \in Dir : dir'[s].live => dir'[s].name \notin scan.pat
<1>1. ASSUME IInv, WalkedInv, [Next]_vars PROVE [Ends]_vars
  <2> SUFFICES ASSUME Next, scan.at \in {"erase", "rename"}, scan' = NoScan, logged',
                      NEW t \in Dir, dir'[t].live
               PROVE  dir'[t].name \notin scan.pat
    BY <1>1
  <2>1. EraseEntry \/ RenameEntry
    BY <1>1, ScanStep DEF Restart, Walk, AttrEntry
  <2>2. /\ logged /\ scan.pos \in Dir /\ Continue
        /\ t # scan.pos => dir'[t] = dir[t]
        /\ dir'[scan.pos].live => dir'[scan.pos].name \notin scan.pat
    BY <1>1, <2>1, WalkChange DEF Restart
  <2>3. CASE t = scan.pos
    BY <2>2, <2>3
  <2>4. CASE t < scan.pos
    BY <1>1, <2>2, <2>4 DEF WalkedInv, Live, Dir
  <2>5. CASE scan.pos < t
    BY <1>1, <2>2, <2>5, ContinueLow DEF Live, Dir
  <2>6. QED
    BY <2>2, <2>3, <2>4, <2>5 DEF Dir
<1>2. QED
  BY <1>1, WalkedCorrect, PTL DEF Spec, WalkComplete

\* Once function 28 has protected the disk, no call writes to it until it is
\* reset, but for the attributes that function 30 sets.
THEOREM ProtectedCorrect == Spec => ProtectedButAttr
<1> DEFINE Still == wp /\ wp' => /\ UNCHANGED data
                                 /\ \A s \in Dir : dir'[s] = [dir[s] EXCEPT !.ro = dir'[s].ro]
<1>1. ASSUME IInv, WalkedInv, [Next]_vars PROVE [Still]_vars
  <2> SUFFICES ASSUME Next, wp
               PROVE  data' = data /\ \A s \in Dir : dir'[s] = [dir[s] EXCEPT !.ro = dir'[s].ro]
    BY <1>1
  <2>1. CASE dir' = dir /\ data' = data
    BY <1>1, <2>1 DEF IInv, TypeOK, EntryType
  <2>2. CASE Restart \/ LoginDrv \/ ResetDisk \/ WriteProtect
    BY <2>1, <2>2 DEF Restart, LoginDrv, ResetDisk, WriteProtect, disk
  <2>3. ASSUME NEW f \in Fcb, NEW blk, CloseIt(f, blk) PROVE dir' = dir
    <3>1. CloseStatus(f) = "unmodified"
      BY DEF CloseStatus
    <3>2. QED
      BY <2>3, <3>1 DEF CloseIt
  <2>4. ASSUME NEW f \in Fcb, FcbCall(f) PROVE dir' = dir /\ data' = data
    <3>1. CASE CloseFile(f)
      BY <2>3, <3>1 DEF CloseFile
    <3>2. CASE ~CloseFile(f)
      BY <2>4, <3>2 DEF FcbCall, Make, Open, Forget, Overflow, ReadSeq, WriteSeq, ReadRan,
                        WriteRan, WriteZero, Position, Restart, disk
    <3>3. QED
      BY <3>1, <3>2
  <2>5. CASE DirCall
    BY <2>1, <2>5 DEF DirCall, Delete, Rename, SetAttr, Restart, disk
  <2>6. CASE Transfer
    <3>1. CASE CloseExtent
      BY <1>1, <2>1, <2>3, <3>1 DEF CloseExtent, IInv, TypeOK, IoType
    <3>2. CASE ~CloseExtent
      BY <2>1, <2>6, <3>2 DEF Transfer, OpenExtent, AddExtent, NoExtent, ReadRecord, WriteRecord,
                              Restart, disk
    <3>3. QED
      BY <3>1, <3>2
  <2>7. CASE EraseEntry \/ RenameEntry
    BY <1>1, <2>7 DEF EraseEntry, RenameEntry, WalkedInv
  <2>8. CASE AttrEntry
    <3>1. scan.pos \in Dir /\ dir' = [dir EXCEPT ![scan.pos].ro = scan.ro] /\ data' = data
      BY <1>1, <2>8, WalkFacts DEF AttrEntry
    <3>2. QED
      BY <1>1, <3>1 DEF IInv, TypeOK, EntryType
  <2>9. QED
    BY <2>1, <2>2, <2>4, <2>5, <2>6, <2>7, <2>8 DEF Next, Walk
<1>2. QED
  BY <1>1, WalkedCorrect, PTL DEF Spec, ProtectedButAttr
-----------------------------------------------------------------------------
(* The FCB and the entry it is closed to.                                   *)

\* An FCB keeps its home when the entries of its extents are as they were.
LEMMA AtHomeSame ==
  ASSUME NEW f \in Fcb, Homed, Placed(f), fcb'[f] = fcb[f],
         \A s \in Dir : /\ InGroup(s, fcb[f].name, fcb[f].ext)' <=> InGroup(s, fcb[f].name, fcb[f].ext)
                        /\ InGroup(s, fcb[f].name, fcb[f].ext) => dir'[s].blk = dir[s].blk
  PROVE  AtHome(f)'
BY DEF Homed, AtHome

\* A step that leaves the directory alone but for the attributes, and the FCBs
\* but for one that is closed or gives up its place.
LEMMA HomedSame ==
  ASSUME Homed, NEW f \in Fcb, \A g \in Fcb : g # f => fcb'[g] = fcb[g],
         fcb'[f] = fcb[f] \/ ~Placed(f)',
         \A s \in Dir : /\ dir'[s].live = dir[s].live /\ dir'[s].name = dir[s].name
                        /\ dir'[s].ext = dir[s].ext /\ dir'[s].blk = dir[s].blk
  PROVE  Homed'
<1>1. ASSUME NEW g \in Fcb, Placed(g)' PROVE AtHome(g)'
  <2>1. fcb'[g] = fcb[g]
    BY <1>1
  <2>2. Placed(g)
    BY <1>1, <2>1 DEF Placed
  <2>3. \A s \in Dir : InGroup(s, fcb[g].name, fcb[g].ext)' <=> InGroup(s, fcb[g].name, fcb[g].ext)
    BY <2>1 DEF InGroup, Live
  <2>4. QED
    BY <2>1, <2>2, <2>3, AtHomeSame
<1>2. QED
  BY <1>1 DEF Homed

\* GETEMPTY: the new entry and the FCB are both empty.
LEMMA AddHomed ==
  ASSUME TypeOK, Homed, NEW f \in Fcb, NEW s \in Dir, NEW n, NEW e \in Ext, NEW ro, NEW cr,
         ~dir[s].live, \A t \in Dir : ~InGroup(t, n, e),
         \A g \in Fcb : g # f /\ fcb[g].open => fcb[g].name # n,
         dir' = [dir EXCEPT ![s] = Created(n, e, ro)],
         fcb' = [fcb EXCEPT ![f] = EmptyFcb(n, e, ro, cr)]
  PROVE  Homed' /\ Placed(f)' /\ ~Unrecorded(f)' /\ \A g \in Fcb : g # f => fcb'[g] = fcb[g]
<1>1. /\ \A t \in Dir : t # s => dir'[t] = dir[t]
      /\ dir'[s].live /\ dir'[s].name = n /\ dir'[s].ext = e
      /\ \A i \in SlotIdx : dir'[s].blk[i] = 0
  BY DEF TypeOK, Created, NoBlk
<1>2. /\ \A g \in Fcb : g # f => fcb'[g] = fcb[g]
      /\ fcb'[f].open /\ fcb'[f].name = n /\ fcb'[f].ext = e
      /\ ~fcb'[f].eof /\ ~fcb'[f].bad /\ ~fcb'[f].dirty /\ ~fcb'[f].over
  BY DEF TypeOK, EmptyFcb
<1>3. AtHome(f)'
  <2>1. InGroup(s, fcb[f].name, fcb[f].ext)'
    BY <1>1, <1>2 DEF InGroup, Live, SameEntry
  <2>2. \A t \in Dir : InGroup(t, fcb[f].name, fcb[f].ext)' => t = s
    BY <1>1, <1>2 DEF InGroup, Live
  <2>3. QED
    BY <1>1, <2>1, <2>2 DEF AtHome
<1>4. ASSUME NEW g \in Fcb, g # f, Placed(g)' PROVE AtHome(g)'
  <2>1. fcb'[g] = fcb[g] /\ Placed(g) /\ fcb[g].name # n
    BY <1>2, <1>4 DEF Placed
  <2>2. \A t \in Dir : /\ InGroup(t, fcb[g].name, fcb[g].ext)' <=> InGroup(t, fcb[g].name, fcb[g].ext)
                       /\ InGroup(t, fcb[g].name, fcb[g].ext) => t # s
    BY <1>1, <2>1 DEF InGroup, Live
  <2>3. QED
    BY <1>1, <2>1, <2>2, AtHomeSame
<1>5. QED
  BY <1>2, <1>3, <1>4 DEF Homed, Placed, Unrecorded

\* OPENIT1: the FCB f is a copy of the entry of its extents, of which there is
\* no second one.
LEMMA LoadHomed ==
  ASSUME TypeOK, OneEntry, Homed, NEW f \in Fcb, NEW s \in Dir, NEW e \in Ext, NEW cr,
         InGroup(s, dir[s].name, e),
         fcb' = [fcb EXCEPT ![f] = Opened(s, e, cr)], dir' = dir
  PROVE  Homed' /\ Placed(f)' /\ ~Unrecorded(f)' /\ \A g \in Fcb : g # f => fcb'[g] = fcb[g]
<1>1. /\ \A g \in Fcb : g # f => fcb'[g] = fcb[g]
      /\ fcb'[f].open /\ fcb'[f].name = dir[s].name /\ fcb'[f].ext = e
      /\ ~fcb'[f].eof /\ ~fcb'[f].bad /\ ~fcb'[f].dirty /\ ~fcb'[f].over
      /\ fcb'[f].blk = dir[s].blk
  BY DEF TypeOK, Opened
<1>2. AtHome(f)'
  <2>1. InGroup(s, fcb[f].name, fcb[f].ext)'
    BY <1>1 DEF InGroup, Live
  <2>2. ASSUME NEW t \in Dir, InGroup(t, fcb[f].name, fcb[f].ext)' PROVE t = s
    BY <1>1, <2>2 DEF InGroup, Live, OneEntry, SameEntry
  <2>3. QED
    BY <1>1, <2>1, <2>2 DEF AtHome
<1>3. ASSUME NEW g \in Fcb, g # f, Placed(g)' PROVE AtHome(g)'
  <2>1. fcb'[g] = fcb[g] /\ Placed(g)
    BY <1>1, <1>3 DEF Placed
  <2>2. \A t \in Dir : InGroup(t, fcb[g].name, fcb[g].ext)' <=> InGroup(t, fcb[g].name, fcb[g].ext)
    BY <2>1 DEF InGroup, Live
  <2>3. QED
    BY <2>1, <2>2, AtHomeSame
<1>4. QED
  BY <1>1, <1>2, <1>3 DEF Homed, Placed, Unrecorded

\* CLOSEIT finds the one entry of an FCB that has its place, with no block that
\* the FCB does not have.
LEMMA PlacedHome ==
  ASSUME IInv, FileInv, logged, NEW f \in Fcb, Placed(f)
  PROVE  \E s \in Dir : /\ InGroup(s, fcb[f].name, fcb[f].ext)
                        /\ Home(f) # {} /\ s = First(Home(f))
                        /\ Clashes(f, s) = {} /\ Merged(f, s) = fcb[f].blk
<1>1. AtHome(f)
  BY DEF FileInv, Homed
<1>2. PICK t \in Dir : InGroup(t, fcb[f].name, fcb[f].ext)
  BY <1>1 DEF AtHome
<1>3. t \in Home(f)
  BY <1>2 DEF InGroup, Live, Home, Placed, Found, Named, IInv, Safe, DiskInv, MarkCovers
<1>4. PICK s \in Dir : s = First(Home(f)) /\ InGroup(s, fcb[f].name, fcb[f].ext)
  BY <1>3, HomeFound DEF InGroup
<1>5. \A i \in SlotIdx : dir[s].blk[i] # 0 => fcb[f].blk[i] = dir[s].blk[i]
  BY <1>1, <1>4 DEF AtHome
<1>6. Clashes(f, s) = {}
  BY <1>5 DEF Clashes
<1>7. Merged(f, s) = [i \in SlotIdx |-> fcb[f].blk[i]]
  BY <1>5, <1>6 DEF Merged
<1>8. Merged(f, s) = fcb[f].blk
  BY <1>7 DEF IInv, TypeOK, FcbType
<1>9. QED
  BY <1>3, <1>4, <1>6, <1>8

\* So the FCB keeps its block numbers in every case, and a close that has
\* something to record succeeds.
LEMMA CloseItPlaced ==
  ASSUME IInv, FileInv, logged, NEW f \in Fcb, fcb[f].open, NEW blk, CloseIt(f, blk)
  PROVE  /\ blk = fcb[f].blk /\ CloseStatus(f) \in {"unmodified", "closed"}
         /\ \/ /\ wp \/ ~fcb[f].dirty
               /\ dir' = dir /\ synced' = synced
            \/ /\ ~wp /\ fcb[f].dirty /\ CloseStatus(f) = "closed"
               /\ \E s \in Dir : /\ InGroup(s, fcb[f].name, fcb[f].ext)
                                 /\ dir' = [dir EXCEPT ![s] = ClosedEntry(f, s, fcb[f].blk)]
               /\ synced' = synced \cup
                    {k \in Name \X Ext \X Rec : /\ k[1] = fcb[f].name /\ k[2] = fcb[f].ext
                                                /\ wr[k] # NoValue}
<1>1. CASE wp \/ ~fcb[f].dirty
  <2>1. CloseStatus(f) = "unmodified"
    BY <1>1 DEF CloseStatus
  <2>2. QED
    BY <1>1, <2>1 DEF CloseIt
<1>2. CASE ~wp /\ fcb[f].dirty
  <2>1. Placed(f)
    BY <1>2 DEF FileInv, Placement, Unrecorded
  <2>2. PICK s \in Dir : /\ InGroup(s, fcb[f].name, fcb[f].ext)
                         /\ Home(f) # {} /\ s = First(Home(f))
                         /\ Clashes(f, s) = {} /\ Merged(f, s) = fcb[f].blk
    BY <2>1, PlacedHome
  <2>3. CloseStatus(f) = "closed"
    BY <1>2, <2>2 DEF CloseStatus
  <2>4. QED
    BY <1>2, <2>2, <2>3 DEF CloseIt
<1>3. QED
  BY <1>1, <1>2

\* The entry that CLOSEIT has written has the blocks of the FCB.
LEMMA ClosedFields ==
  ASSUME IInv, NEW f \in Fcb, NEW s \in Dir, InGroup(s, fcb[f].name, fcb[f].ext),
         dir' = [dir EXCEPT ![s] = ClosedEntry(f, s, fcb[f].blk)]
  PROVE  /\ \A t \in Dir : t # s => dir'[t] = dir[t]
         /\ dir'[s].live = dir[s].live /\ dir'[s].name = dir[s].name /\ dir'[s].blk = fcb[f].blk
         /\ dir'[s].ext = HighestExt(dir[s].ext, fcb[f].ext)
         /\ dir'[s].rc = IF fcb[f].ext < dir[s].ext THEN dir[s].rc ELSE fcb[f].rc
         /\ \A e \in Ext : SameEntry(dir'[s].ext, e) <=> SameEntry(dir[s].ext, e)
<1>1. /\ ClosedEntry(f, s, fcb[f].blk).live = dir[s].live
      /\ ClosedEntry(f, s, fcb[f].blk).name = dir[s].name
      /\ ClosedEntry(f, s, fcb[f].blk).blk = fcb[f].blk
      /\ ClosedEntry(f, s, fcb[f].blk).ext = HighestExt(dir[s].ext, fcb[f].ext)
      /\ ClosedEntry(f, s, fcb[f].blk).rc = IF fcb[f].ext < dir[s].ext THEN dir[s].rc ELSE fcb[f].rc
  BY DEF IInv, TypeOK, EntryType, ClosedEntry
<1>2. HighestExt(dir[s].ext, fcb[f].ext) \div ExtPerEntry = dir[s].ext \div ExtPerEntry
  BY DEF HighestExt, SameEntry, InGroup
<1>3. QED
  BY <1>1, <1>2 DEF IInv, TypeOK, SameEntry

LEMMA CloseHomed ==
  ASSUME IInv, FileInv, logged, NEW f \in Fcb, fcb[f].open, NEW blk, CloseIt(f, blk),
         \A g \in Fcb : g # f => fcb'[g] = fcb[g],
         fcb'[f] = fcb[f] \/ ~Placed(f)'
  PROVE  Homed'
<1>1. CASE dir' = dir
  BY <1>1, HomedSame DEF FileInv
<1>2. ASSUME NEW s \in Dir, InGroup(s, fcb[f].name, fcb[f].ext),
             dir' = [dir EXCEPT ![s] = ClosedEntry(f, s, fcb[f].blk)]
      PROVE  Homed'
  <2>1. /\ \A t \in Dir : t # s => dir'[t] = dir[t]
        /\ dir'[s].live = dir[s].live /\ dir'[s].name = dir[s].name /\ dir'[s].blk = fcb[f].blk
        /\ \A e \in Ext : SameEntry(dir'[s].ext, e) <=> SameEntry(dir[s].ext, e)
    BY <1>2, ClosedFields
  <2>2. ASSUME NEW g \in Fcb, Placed(g)' PROVE AtHome(g)'
    <3>1. fcb'[g] = fcb[g] /\ Placed(g)
      BY <2>2 DEF Placed
    <3>2. \A t \in Dir : InGroup(t, fcb[g].name, fcb[g].ext)' <=> InGroup(t, fcb[g].name, fcb[g].ext)
      <4>1. fcb[g].ext \in Ext
        BY DEF IInv, TypeOK, FcbType
      <4>2. QED
        BY <2>1, <3>1, <4>1 DEF InGroup, Live
    <3>3. CASE g = f
      <4>1. \A t \in Dir : InGroup(t, fcb[f].name, fcb[f].ext) => t = s
        BY <1>2 DEF InGroup, Live, IInv, Safe, DiskInv, OneEntry, SameEntry
      <4>2. QED
        BY <1>2, <2>1, <3>1, <3>2, <3>3, <4>1 DEF AtHome
    <3>4. CASE g # f
      <4>1. fcb[g].name # fcb[f].name
        BY <3>1, <3>4 DEF Placed, IInv, Safe, FcbInv, OneFcb
      <4>2. ~InGroup(s, fcb[g].name, fcb[g].ext)
        BY <1>2, <4>1 DEF InGroup
      <4>3. QED
        BY <2>1, <3>1, <3>2, <4>2, AtHomeSame DEF FileInv
    <3>5. QED
      BY <3>3, <3>4
  <2>3. QED
    BY <2>2 DEF Homed
<1>3. QED
  BY <1>1, <1>2, CloseItPlaced

\* What a step that may change the FCB f and the request has to show.
LEMMA PlacementStep ==
  ASSUME Placement, NEW f \in Fcb, \A g \in Fcb : g # f => fcb'[g] = fcb[g],
         io.at \in {"idle", "xfer"} \/ io.f = f,
         fcb'[f].open /\ Unrecorded(f)' => Placed(f)',
         fcb'[f].open /\ fcb'[f].eof /\ fcb'[f].cr # RecsPerExt
           => io'.at \in {"close", "open"} /\ io'.f = f /\ ~IsSeq(io'.op),
         io'.at # "idle" => io'.f = f,
         io'.at = "xfer" => Placed(f)',
         io'.at \in {"close", "open"} /\ IsSeq(io'.op) => fcb'[f].cr = RecsPerExt
  PROVE  Placement'
<1>1. \A g \in Fcb : fcb'[g].open /\ Unrecorded(g)' => Placed(g)'
  BY DEF Placement, Placed, Unrecorded
<1>2. \A g \in Fcb : fcb'[g].open /\ fcb'[g].eof /\ fcb'[g].cr # RecsPerExt
        => io'.at \in {"close", "open"} /\ io'.f = g /\ ~IsSeq(io'.op)
  BY DEF Placement
<1>3. io'.at = "xfer" => Placed(io.f)'
  BY DEF Placed
<1>4. io'.at \in {"close", "open"} /\ IsSeq(io'.op) => fcb'[io'.f].cr = RecsPerExt
  OBVIOUS
<1>5. QED
  BY <1>1, <1>2, <1>3, <1>4 DEF Placement

LEMMA InitFile == Init => FileInv
BY DEF Init, FileInv, Homed, Placement, Placed, Unrecorded, Unused, NoIo

LEMMA RestartFile == ASSUME Restart PROVE FileInv'
<1>1. (\A f \in Fcb : fcb'[f] = Unused) /\ io' = NoIo
  BY DEF Restart
<1>2. (\A f \in Fcb : ~fcb'[f].open) /\ io'.at = "idle"
  BY <1>1 DEF Unused, NoIo
<1>3. QED
  BY <1>2 DEF FileInv, Homed, Placement, Placed

\* A step that changes neither FCBs nor requests, nor the entry of an open file.
LEMMA SameFile ==
  ASSUME IInv, FileInv, fcb' = fcb, io' = io,
         \A s \in Dir : \A f \in Fcb : Placed(f) =>
           /\ InGroup(s, fcb[f].name, fcb[f].ext)' <=> InGroup(s, fcb[f].name, fcb[f].ext)
           /\ InGroup(s, fcb[f].name, fcb[f].ext) => dir'[s].blk = dir[s].blk
  PROVE  FileInv'
<1>1. Placement'
  BY DEF FileInv, Placement, Placed, Unrecorded
<1>2. ASSUME NEW f \in Fcb, Placed(f)' PROVE AtHome(f)'
  <2>1. Placed(f)
    BY <1>2 DEF Placed
  <2>2. QED
    BY <2>1, AtHomeSame DEF FileInv
<1>3. QED
  BY <1>1, <1>2 DEF FileInv, Homed

LEMMA LoginFile ==
  ASSUME IInv, FileInv, LoginDrv \/ ResetDisk \/ WriteProtect \/ UNCHANGED vars
  PROVE  FileInv'
<1>1. fcb' = fcb /\ io' = io /\ dir' = dir
  BY DEF LoginDrv, ResetDisk, WriteProtect, vars, disk
<1>2. QED
  BY <1>1, SameFile DEF InGroup, Live

LEMMA MakeFile ==
  ASSUME IInv, FileInv, NEW f \in Fcb, NEW n \in Name, Make(f, n)
  PROVE  FileInv'
<1>1. CASE Restart
  BY <1>1, RestartFile
<1>2. CASE ~Restart
  <2>1. PICK s \in Dir :
          /\ ~dir[s].live /\ dir' = [dir EXCEPT ![s] = Created(n, 0, FALSE)]
          /\ fcb' = [fcb EXCEPT ![f] = EmptyFcb(n, 0, FALSE, 0)]
    BY <1>2, FirstFree DEF Make
  <2>2. io' = io /\ io.at = "idle"
    BY <1>2, IdleFacts DEF Make
  <2>3. /\ \A t \in Dir : ~InGroup(t, n, 0)
        /\ \A g \in Fcb : g # f /\ fcb[g].open => fcb[g].name # n
    BY DEF Make, Fresh, InGroup, Live, NotOpen
  <2>4. Homed' /\ Placed(f)' /\ ~Unrecorded(f)' /\ \A g \in Fcb : g # f => fcb'[g] = fcb[g]
    BY <2>1, <2>3, AddHomed, ConstType DEF IInv, FileInv
  <2>5. Placement'
    BY <2>2, <2>4, PlacementStep DEF FileInv, Placed
  <2>6. QED
    BY <2>4, <2>5 DEF FileInv
<1>3. QED
  BY <1>1, <1>2

LEMMA OpenFile ==
  ASSUME IInv, FileInv, NEW f \in Fcb, NEW n \in Name, Open(f, n)
  PROVE  FileInv'
<1>1. PICK s \in Dir : /\ InGroup(s, dir[s].name, 0) /\ dir[s].name = n
                       /\ fcb' = [fcb EXCEPT ![f] = Opened(s, 0, 0)]
  BY FirstFound DEF Open, InGroup
<1>2. dir' = dir /\ io' = io /\ io.at = "idle"
  BY IdleFacts DEF Open, disk
<1>3. Homed' /\ Placed(f)' /\ ~Unrecorded(f)' /\ \A g \in Fcb : g # f => fcb'[g] = fcb[g]
  BY <1>1, <1>2, LoadHomed, ConstType DEF IInv, Safe, DiskInv, FileInv
<1>4. Placement'
  BY <1>2, <1>3, PlacementStep DEF FileInv, Placed
<1>5. QED
  BY <1>3, <1>4 DEF FileInv

\* Function 16 leaves the FCB as it is.
LEMMA CloseFileFields ==
  ASSUME IInv, FileInv, NEW f \in Fcb, CloseFile(f)
  PROVE  fcb' = fcb /\ io' = io /\ io.at = "idle" /\ logged /\ CloseIt(f, fcb[f].blk)
<1>1. PICK blk \in [SlotIdx -> Block] : CloseIt(f, blk) /\ fcb' = [fcb EXCEPT ![f].blk = blk]
  BY DEF CloseFile
<1>2. blk = fcb[f].blk
  BY <1>1, CloseItPlaced DEF CloseFile
<1>3. [fcb EXCEPT ![f].blk = fcb[f].blk] = fcb
  BY DEF IInv, TypeOK, FcbType
<1>4. QED
  BY <1>1, <1>2, <1>3, IdleFacts DEF CloseFile

LEMMA CloseFileFile ==
  ASSUME IInv, FileInv, NEW f \in Fcb, CloseFile(f)
  PROVE  FileInv'
<1>1. fcb' = fcb /\ io' = io /\ logged /\ CloseIt(f, fcb[f].blk) /\ fcb[f].open
  BY CloseFileFields DEF CloseFile
<1>2. Homed'
  BY <1>1, CloseHomed
<1>3. Placement'
  BY <1>1 DEF FileInv, Placement, Placed, Unrecorded
<1>4. QED
  BY <1>2, <1>3 DEF FileInv

LEMMA ForgetFile ==
  ASSUME IInv, FileInv, NEW f \in Fcb, Forget(f)
  PROVE  FileInv'
<1>1. (\A g \in Fcb : g # f => fcb'[g] = fcb[g]) /\ ~fcb'[f].open
  BY DEF IInv, TypeOK, Forget, Unused
<1>2. dir' = dir /\ io' = io /\ io.at = "idle"
  BY IdleFacts DEF Forget, disk
<1>3. Homed'
  BY <1>1, <1>2, HomedSame DEF FileInv, Placed
<1>4. Placement'
  BY <1>1, <1>2, PlacementStep DEF FileInv, Placed
<1>5. QED
  BY <1>3, <1>4 DEF FileInv

\* While no transfer is in progress, an FCB past the last extent is at its end.
LEMMA AtEnd ==
  ASSUME Placement, Idle, NEW f \in Fcb, fcb[f].open, fcb[f].eof
  PROVE  fcb[f].cr = RecsPerExt
BY IdleFacts DEF Placement

LEMMA ReadSeqFile ==
  ASSUME IInv, FileInv, NEW f \in Fcb, ReadSeq(f)
  PROVE  FileInv'
<1>1. dir' = dir /\ fcb' = fcb /\ Idle /\ io.at = "idle" /\ fcb[f].open /\ ~fcb[f].bad
  BY IdleFacts DEF ReadSeq, Usable, disk
<1>2. Homed'
  BY <1>1, HomedSame DEF FileInv
<1>3. /\ io'.f = f /\ IsSeq(io'.op)
      /\ \/ io'.at = "xfer" /\ fcb[f].cr # RecsPerExt
         \/ io'.at = "close" /\ fcb[f].cr = RecsPerExt
  <2>1. fcb[f].cr < fcb[f].rc => fcb[f].cr # RecsPerExt
    BY SizeAssumption DEF IInv, TypeOK, FcbType
  <2>2. QED
    BY <2>1 DEF ReadSeq, Request, IsSeq
<1>4. fcb[f].cr # RecsPerExt => Placed(f)'
  BY <1>1, AtEnd DEF FileInv, Placed
<1>5. Placement'
  BY <1>1, <1>3, <1>4, AtEnd, PlacementStep DEF FileInv, Placement, Placed, Unrecorded
<1>6. QED
  BY <1>2, <1>5 DEF FileInv

LEMMA WriteSeqFile ==
  ASSUME IInv, FileInv, NEW f \in Fcb, NEW v \in Value, WriteSeq(f, v)
  PROVE  FileInv'
<1>1. CASE Restart
  BY <1>1, RestartFile
<1>2. CASE ~Restart
  <2>1. dir' = dir /\ fcb' = fcb /\ Idle /\ io.at = "idle" /\ fcb[f].open /\ ~fcb[f].bad
    BY <1>2, IdleFacts DEF WriteSeq, Usable, disk
  <2>2. Homed'
    BY <2>1, HomedSame DEF FileInv
  <2>3. io'.f = f /\ io'.at = "xfer" /\ fcb[f].cr # RecsPerExt
    <3>1. fcb[f].cr < RecsPerExt => fcb[f].cr # RecsPerExt
      BY SizeAssumption DEF IInv, TypeOK, FcbType
    <3>2. QED
      BY <1>2, <3>1 DEF WriteSeq, Request
  <2>4. Placed(f)'
    BY <2>1, <2>3, AtEnd DEF FileInv, Placed
  <2>5. Placement'
    BY <2>1, <2>3, <2>4, PlacementStep DEF FileInv, Placement, Placed
  <2>6. QED
    BY <2>2, <2>5 DEF FileInv
<1>3. QED
  BY <1>1, <1>2

\* POSITION sets the record number, and goes to the transfer only if the FCB is
\* where it has to be.
LEMMA PositionFields ==
  ASSUME IInv, NEW f \in Fcb, NEW op, NEW e, NEW r, NEW v, Position(f, op, e, r, v)
  PROVE  /\ dir' = dir /\ Idle /\ io.at = "idle" /\ fcb[f].open
         /\ \A g \in Fcb : g # f => fcb'[g] = fcb[g]
         /\ fcb'[f].open = fcb[f].open /\ fcb'[f].name = fcb[f].name /\ fcb'[f].ext = fcb[f].ext
         /\ fcb'[f].blk = fcb[f].blk /\ fcb'[f].bad = fcb[f].bad /\ fcb'[f].eof = fcb[f].eof
         /\ fcb'[f].dirty = fcb[f].dirty /\ fcb'[f].over = fcb[f].over /\ fcb'[f].rc = fcb[f].rc
         /\ io'.f = f /\ io'.op = op
         /\ \/ io'.at = "close"
            \/ io'.at = "xfer" /\ ~fcb[f].bad /\ (StaleSeek \/ ~fcb[f].eof)
<1>1. fcb' = [fcb EXCEPT ![f].cr = r] /\ dir' = dir /\ Idle /\ io.at = "idle" /\ fcb[f].open
  BY IdleFacts DEF Position, disk
<1>2. io' = Request(IF OnExtent(f, e) THEN "xfer" ELSE "close", op, f, e, r, v)
      /\ (StaleSeek \/ ~fcb[f].eof \/ e # fcb[f].ext)
  BY DEF Position
<1>3. /\ io'.f = f /\ io'.op = op
      /\ \/ io'.at = "close"
         \/ io'.at = "xfer" /\ ~fcb[f].bad /\ (StaleSeek \/ ~fcb[f].eof)
  BY <1>2 DEF Request, OnExtent
<1>4. /\ \A g \in Fcb : g # f => fcb'[g] = fcb[g]
      /\ fcb'[f].open = fcb[f].open /\ fcb'[f].name = fcb[f].name /\ fcb'[f].ext = fcb[f].ext
      /\ fcb'[f].blk = fcb[f].blk /\ fcb'[f].bad = fcb[f].bad /\ fcb'[f].eof = fcb[f].eof
      /\ fcb'[f].dirty = fcb[f].dirty /\ fcb'[f].over = fcb[f].over /\ fcb'[f].rc = fcb[f].rc
  BY <1>1 DEF IInv, TypeOK, FcbType
<1>5. QED
  BY <1>1, <1>3, <1>4

LEMMA PositionFile ==
  ASSUME ~StaleSeek, IInv, FileInv, NEW f \in Fcb, NEW op, ~IsSeq(op), NEW e, NEW r, NEW v,
         Position(f, op, e, r, v)
  PROVE  FileInv'
<1>1. /\ dir' = dir /\ Idle /\ io.at = "idle" /\ fcb[f].open
      /\ \A g \in Fcb : g # f => fcb'[g] = fcb[g]
      /\ fcb'[f].open = fcb[f].open /\ fcb'[f].name = fcb[f].name /\ fcb'[f].ext = fcb[f].ext
      /\ fcb'[f].blk = fcb[f].blk /\ fcb'[f].bad = fcb[f].bad /\ fcb'[f].eof = fcb[f].eof
      /\ fcb'[f].dirty = fcb[f].dirty /\ fcb'[f].over = fcb[f].over
      /\ io'.f = f /\ io'.op = op
      /\ io'.at = "close" \/ (io'.at = "xfer" /\ Placed(f))
  BY PositionFields DEF Placed
<1>2. ASSUME NEW g \in Fcb, Placed(g)' PROVE AtHome(g)'
  <2>1. Placed(g) /\ fcb'[g].name = fcb[g].name /\ fcb'[g].ext = fcb[g].ext /\ fcb'[g].blk = fcb[g].blk
    BY <1>1, <1>2 DEF Placed
  <2>2. QED
    BY <1>1, <2>1 DEF FileInv, Homed, AtHome, InGroup, Live
<1>3. Placed(f)' <=> Placed(f)
  BY <1>1 DEF Placed
<1>4. fcb'[f].open /\ Unrecorded(f)' => Placed(f)'
  BY <1>1, <1>3 DEF FileInv, Placement, Unrecorded
<1>5. Placement'
  BY <1>1, <1>3, <1>4, PlacementStep DEF FileInv, Placed
<1>6. QED
  BY <1>2, <1>5 DEF FileInv, Homed

\* Error 6 of POSITION leaves the FCB in its place.
LEMMA OverflowFile ==
  ASSUME IInv, FileInv, NEW f \in Fcb, Overflow(f)
  PROVE  FileInv'
<1>1. \A g \in Fcb : /\ OverflowFields(g)
                     /\ fcb'[g].cr = fcb[g].cr /\ (g # f => fcb'[g] = fcb[g])
  BY OverflowEffect DEF IInv
<1>2. dir' = dir /\ io' = io /\ fcb[f].open /\ fcb[f].dirty
  BY DEF Overflow, disk
<1>3. \A g \in Fcb : Placed(g)' <=> Placed(g)
  BY <1>1 DEF OverflowFields, Placed
<1>4. Homed'
  BY <1>1, <1>2, <1>3 DEF OverflowFields, FileInv, Homed, AtHome, InGroup, Live
<1>5. Placement'
  <2>1. \A g \in Fcb : fcb'[g].open /\ Unrecorded(g)' => Placed(g)'
    BY <1>1, <1>2, <1>3 DEF OverflowFields, FileInv, Placement, Unrecorded
  <2>2. /\ io'.at = "xfer" => Placed(io.f)'
        /\ io'.at \in {"close", "open"} /\ IsSeq(io'.op) => fcb'[io'.f].cr = RecsPerExt
    <3>1. io.f \in Fcb
      BY DEF IInv, TypeOK, IoType
    <3>2. QED
      BY <1>1, <1>2, <1>3, <3>1 DEF FileInv, Placement, Placed
  <2>3. \A g \in Fcb : fcb'[g].open /\ fcb'[g].eof /\ fcb'[g].cr # RecsPerExt
          => io'.at \in {"close", "open"} /\ io'.f = g /\ ~IsSeq(io'.op)
    BY <1>1, <1>2 DEF OverflowFields, FileInv, Placement
  <2>4. QED
    BY <2>1, <2>2, <2>3 DEF Placement
<1>6. QED
  BY <1>4, <1>5 DEF FileInv

\* The call of CLOSEIT in a transfer: either the FCB gives up its place and the
\* call ends, or the FCB stays as it is and the next extent is opened.
LEMMA CloseExtentFields ==
  ASSUME IInv, FileInv, CloseExtent, NEW f \in Fcb, f = io.f
  PROVE  /\ io.at = "close" /\ logged /\ fcb[f].open /\ CloseIt(f, fcb[f].blk)
         /\ \A g \in Fcb : g # f => fcb'[g] = fcb[g]
         /\ \/ /\ io'.at = "idle" /\ fcb'[f].open /\ fcb'[f].bad /\ ~Unrecorded(f)' /\ ~fcb'[f].eof
            \/ /\ fcb'[f] = fcb[f] /\ io'.at = "open" /\ io'.f = f /\ io'.op = io.op
<1>1. io.at = "close" /\ logged /\ fcb[f].open
  BY TransferFacts DEF CloseExtent
<1>2. PICK blk \in [SlotIdx -> Block] :
        /\ CloseIt(f, blk)
        /\ \/ fcb' = Unpositioned(f, fcb[f].ext, blk) /\ io' = NoIo
           \/ CloseStatus(f) = "lost"
           \/ fcb' = Unpositioned(f, 0, blk) /\ io' = NoIo
           \/ fcb' = [fcb EXCEPT ![f].blk = blk] /\ io' = [io EXCEPT !.at = "open"]
  BY DEF CloseExtent
<1>3. blk = fcb[f].blk /\ CloseStatus(f) # "lost"
  BY <1>1, <1>2, CloseItPlaced
<1>4. ASSUME NEW e, fcb' = Unpositioned(f, e, blk), io' = NoIo
      PROVE  /\ \A g \in Fcb : g # f => fcb'[g] = fcb[g]
             /\ io'.at = "idle" /\ fcb'[f].open /\ fcb'[f].bad /\ ~Unrecorded(f)' /\ ~fcb'[f].eof
  BY <1>1, <1>4 DEF IInv, TypeOK, FcbType, Unpositioned, Unrecorded, NoIo
<1>5. CASE fcb' = [fcb EXCEPT ![f].blk = blk] /\ io' = [io EXCEPT !.at = "open"]
  <2>1. fcb' = fcb
    BY <1>3, <1>5 DEF IInv, TypeOK, FcbType
  <2>2. io'.at = "open" /\ io'.f = f /\ io'.op = io.op
    BY <1>5 DEF IInv, TypeOK, IoType
  <2>3. QED
    BY <1>1, <1>2, <1>3, <2>1, <2>2
<1>6. QED
  BY <1>1, <1>2, <1>3, <1>4, <1>5

LEMMA CloseExtentFile == ASSUME IInv, FileInv, CloseExtent PROVE FileInv'
<1>1. PICK f \in Fcb : f = io.f
  BY DEF IInv, TypeOK, IoType
<1>2. /\ io.at = "close" /\ logged /\ fcb[f].open /\ CloseIt(f, fcb[f].blk)
      /\ \A g \in Fcb : g # f => fcb'[g] = fcb[g]
      /\ \/ /\ io'.at = "idle" /\ fcb'[f].open /\ fcb'[f].bad /\ ~Unrecorded(f)' /\ ~fcb'[f].eof
         \/ /\ fcb'[f] = fcb[f] /\ io'.at = "open" /\ io'.f = f /\ io'.op = io.op
  BY <1>1, CloseExtentFields
<1>3. Homed'
  BY <1>2, CloseHomed DEF Placed
<1>4. Placement'
  <2>1. fcb'[f].open /\ Unrecorded(f)' => Placed(f)'
    BY <1>2 DEF FileInv, Placement, Placed, Unrecorded
  <2>2. QED
    BY <1>1, <1>2, <2>1, PlacementStep DEF FileInv, Placement
<1>5. QED
  BY <1>3, <1>4 DEF FileInv

\* Once the extent is open, the call goes on or ends.
LEMMA ProceedFields ==
  ASSUME IInv, Proceed
  PROVE  io'.at \in {"idle", "xfer"} /\ (io'.at # "idle" => io'.f = io.f)
BY DEF IInv, TypeOK, IoType, NoIo, Proceed

LEMMA OpenExtentFile == ASSUME IInv, FileInv, OpenExtent PROVE FileInv'
<1>1. PICK f \in Fcb : f = io.f
  BY DEF IInv, TypeOK, IoType
<1>2. PICK s \in Dir : /\ InGroup(s, dir[s].name, io.ext)
                       /\ fcb' = [fcb EXCEPT ![f] = Opened(s, io.ext, FirstRec)]
  BY <1>1, FirstFound DEF OpenExtent, InGroup
<1>3. dir' = dir /\ io'.at \in {"idle", "xfer"} /\ (io'.at # "idle" => io'.f = f)
  BY <1>1, ProceedFields DEF OpenExtent, disk
<1>4. Homed' /\ Placed(f)' /\ ~Unrecorded(f)' /\ \A g \in Fcb : g # f => fcb'[g] = fcb[g]
  BY <1>2, <1>3, LoadHomed, IoFields DEF IInv, Safe, DiskInv, FileInv
<1>5. Placement'
  BY <1>1, <1>3, <1>4, PlacementStep DEF FileInv, Placed
<1>6. QED
  BY <1>4, <1>5 DEF FileInv

LEMMA AddExtentFile == ASSUME IInv, FileInv, AddExtent PROVE FileInv'
<1>1. CASE Restart
  BY <1>1, RestartFile
<1>2. CASE ~Restart
  <2>1. PICK f \in Fcb : f = io.f
    BY DEF IInv, TypeOK, IoType
  <2>2. PICK s \in Dir :
          /\ ~dir[s].live
          /\ dir' = [dir EXCEPT ![s] = Created(fcb[f].name, io.ext, fcb[f].ro)]
          /\ fcb' = [fcb EXCEPT ![f] = EmptyFcb(fcb[f].name, io.ext, fcb[f].ro, FirstRec)]
    BY <1>2, <2>1, FirstFree DEF AddExtent
  <2>3. io'.at \in {"idle", "xfer"} /\ (io'.at # "idle" => io'.f = f)
    BY <1>2, <2>1, ProceedFields DEF AddExtent
  <2>4. /\ \A t \in Dir : ~InGroup(t, fcb[f].name, io.ext)
        /\ \A g \in Fcb : g # f /\ fcb[g].open => fcb[g].name # fcb[f].name
        /\ io.ext \in Ext
    BY <1>2, <2>1, TransferFacts DEF AddExtent
  <2>5. Homed' /\ Placed(f)' /\ ~Unrecorded(f)' /\ \A g \in Fcb : g # f => fcb'[g] = fcb[g]
    BY <2>2, <2>4, AddHomed DEF IInv, FileInv
  <2>6. Placement'
    BY <2>1, <2>3, <2>5, PlacementStep DEF FileInv, Placed
  <2>7. QED
    BY <2>5, <2>6 DEF FileInv
<1>3. QED
  BY <1>1, <1>2

\* Without the extent the FCB has no place, and nothing to record.
LEMMA NoExtentFields ==
  ASSUME IInv, NoExtent, NEW f \in Fcb, f = io.f
  PROVE  /\ \A g \in Fcb : g # f => fcb'[g] = fcb[g]
         /\ fcb'[f].open /\ ~Unrecorded(f)' /\ ~Placed(f)' /\ fcb'[f].cr = fcb[f].cr
         /\ fcb'[f].eof => IsSeq(io.op)
         /\ io.at = "open" /\ io'.at = "idle" /\ dir' = dir
<1>1. io.at = "open" /\ io'.at = "idle" /\ dir' = dir /\ fcb[f].open
  BY TransferFacts DEF NoExtent, NoIo, disk
<1>2. CASE IsSeq(io.op)
  <2>1. fcb' = [fcb EXCEPT ![f] = [@ EXCEPT !.ext = io.ext, !.dirty = FALSE, !.eof = TRUE,
                                             !.over = FALSE]]
    BY <1>2 DEF NoExtent
  <2>2. QED
    BY <1>1, <1>2, <2>1 DEF IInv, TypeOK, FcbType, Placed, Unrecorded
<1>3. CASE ~IsSeq(io.op)
  <2>1. fcb' = Unpositioned(f, io.ext, fcb[f].blk)
    BY <1>3 DEF NoExtent
  <2>2. QED
    BY <1>1, <2>1 DEF IInv, TypeOK, FcbType, Unpositioned, Placed, Unrecorded
<1>4. QED
  BY <1>2, <1>3

LEMMA NoExtentFile == ASSUME IInv, FileInv, NoExtent PROVE FileInv'
<1>1. PICK f \in Fcb : f = io.f
  BY DEF IInv, TypeOK, IoType
<1>2. /\ \A g \in Fcb : g # f => fcb'[g] = fcb[g]
      /\ fcb'[f].open /\ ~Unrecorded(f)' /\ ~Placed(f)' /\ fcb'[f].cr = fcb[f].cr
      /\ fcb'[f].eof => IsSeq(io.op)
      /\ io.at = "open" /\ io'.at = "idle" /\ dir' = dir
  BY <1>1, NoExtentFields
<1>3. Homed'
  BY <1>2, HomedSame DEF FileInv
<1>4. fcb'[f].eof => fcb'[f].cr = RecsPerExt
  BY <1>1, <1>2 DEF FileInv, Placement
<1>5. Placement'
  BY <1>1, <1>2, <1>4, PlacementStep DEF FileInv
<1>6. QED
  BY <1>3, <1>5 DEF FileInv

\* A transfer is made by an FCB that has its place.
LEMMA XferPlaced ==
  ASSUME IInv, FileInv, io.at = "xfer", NEW f \in Fcb, f = io.f
  PROVE  Placed(f) /\ AtHome(f)
BY DEF FileInv, Placement, Homed

\* A read moves nothing but the record number.
LEMMA ReadRecordFields ==
  ASSUME IInv, ReadRecord, NEW g \in Fcb
  PROVE  /\ fcb'[g].open = fcb[g].open /\ fcb'[g].name = fcb[g].name /\ fcb'[g].ext = fcb[g].ext
         /\ fcb'[g].blk = fcb[g].blk /\ fcb'[g].bad = fcb[g].bad /\ fcb'[g].eof = fcb[g].eof
         /\ fcb'[g].dirty = fcb[g].dirty /\ fcb'[g].over = fcb[g].over
         /\ fcb'[g].rc = fcb[g].rc
         /\ g # io.f => fcb'[g] = fcb[g]
<1>1. fcb' = fcb \/ fcb' = [fcb EXCEPT ![io.f].cr = io.rec + 1]
  BY DEF ReadRecord
<1>2. QED
  BY <1>1 DEF IInv, TypeOK, FcbType

LEMMA ReadRecordFile == ASSUME IInv, FileInv, ReadRecord PROVE FileInv'
<1>1. PICK f \in Fcb : f = io.f
  BY DEF IInv, TypeOK, IoType
<1>2. io.at = "xfer" /\ io'.at = "idle" /\ dir' = dir
  BY DEF ReadRecord, NoIo, disk
<1>3. \A g \in Fcb : Placed(g)' <=> Placed(g)
  BY ReadRecordFields DEF Placed
<1>4. Homed'
  BY <1>2, <1>3, ReadRecordFields DEF FileInv, Homed, AtHome, InGroup, Live
<1>5. Placed(f)
  BY <1>1, <1>2, XferPlaced
<1>6. Placement'
  <2>1. \A g \in Fcb : g # f => fcb'[g] = fcb[g]
    BY <1>1, ReadRecordFields
  <2>2. Placed(f)'
    BY <1>3, <1>5
  <2>3. QED
    BY <1>1, <1>2, <2>1, <2>2, PlacementStep DEF FileInv, Placed
<1>7. QED
  BY <1>4, <1>6 DEF FileInv

\* What a write to block b, in slot i, leaves in the FCBs.
PutFields(f, i, b) ==
  /\ \A g \in Fcb : g # f => fcb'[g] = fcb[g]
  /\ fcb'[f].open = fcb[f].open /\ fcb'[f].name = fcb[f].name /\ fcb'[f].ext = fcb[f].ext
  /\ fcb'[f].bad = fcb[f].bad /\ fcb'[f].eof = fcb[f].eof
  /\ fcb'[f].blk[i] = b /\ \A j \in SlotIdx : j # i => fcb'[f].blk[j] = fcb[f].blk[j]

LEMMA WrittenFields ==
  ASSUME IInv, NEW f \in Fcb, NEW i \in SlotIdx, NEW b, fcb' = [fcb EXCEPT ![f] = Written(f, i, b)]
  PROVE  PutFields(f, i, b)
<1>1. /\ Written(f, i, b).open = fcb[f].open /\ Written(f, i, b).name = fcb[f].name
      /\ Written(f, i, b).ext = fcb[f].ext /\ Written(f, i, b).bad = fcb[f].bad
      /\ Written(f, i, b).eof = fcb[f].eof
      /\ Written(f, i, b).blk = [fcb[f].blk EXCEPT ![i] = b]
  BY DEF Written, IInv, TypeOK, FcbType
<1>2. fcb'[f] = Written(f, i, b) /\ \A g \in Fcb : g # f => fcb'[g] = fcb[g]
  BY DEF IInv, TypeOK
<1>3. fcb'[f].blk[i] = b /\ \A j \in SlotIdx : j # i => fcb'[f].blk[j] = fcb[f].blk[j]
  <2>1. fcb[f].blk \in [SlotIdx -> Block] /\ fcb'[f].blk = [fcb[f].blk EXCEPT ![i] = b]
    BY <1>1, <1>2 DEF IInv, TypeOK, FcbType
  <2>2. QED
    BY <2>1
<1>4. /\ fcb'[f].open = fcb[f].open /\ fcb'[f].name = fcb[f].name /\ fcb'[f].ext = fcb[f].ext
      /\ fcb'[f].bad = fcb[f].bad /\ fcb'[f].eof = fcb[f].eof
  BY <1>1, <1>2
<1>5. QED
  BY <1>2, <1>3, <1>4 DEF PutFields

\* Its record number and record count; it has to be closed.
LEMMA WrittenCount ==
  ASSUME IInv, NEW f \in Fcb, NEW i \in SlotIdx, NEW b, fcb' = [fcb EXCEPT ![f] = Written(f, i, b)]
  PROVE  /\ fcb'[f].cr = (IF io.op = "writeSeq" THEN io.rec + 1 ELSE io.rec)
         /\ fcb[f].rc \in Nat /\ fcb'[f].rc \in Nat
         /\ fcb[f].rc <= fcb'[f].rc /\ io.rec < fcb'[f].rc
         /\ fcb'[f].dirty = TRUE
<1>1. /\ Written(f, i, b).cr = (IF io.op = "writeSeq" THEN io.rec + 1 ELSE io.rec)
      /\ Written(f, i, b).rc = Count(fcb[f].rc, io.rec) /\ Written(f, i, b).dirty = TRUE
  BY DEF Written, IInv, TypeOK, FcbType
<1>2. /\ fcb[f].rc \in Nat /\ Count(fcb[f].rc, io.rec) \in Nat
      /\ fcb[f].rc <= Count(fcb[f].rc, io.rec) /\ io.rec < Count(fcb[f].rc, io.rec)
  BY IoFields, SizeAssumption DEF IInv, TypeOK, FcbType, Count, Rec
<1>3. fcb'[f] = Written(f, i, b)
  BY DEF IInv, TypeOK
<1>4. QED
  BY <1>1, <1>2, <1>3

\* The block that a write goes to is the one the FCB has in that slot or, if it
\* has none there, a free one; otherwise nothing is written.
LEMMA WriteCases ==
  ASSUME IInv, WriteRecord, NEW f \in Fcb, f = io.f
  PROVE  \/ Restart
         \/ io'.at = "idle" /\ UNCHANGED <<disk, ram, fcb, scan, hist>>
         \/ \E i \in SlotIdx : \E b \in Block : \E new \in BOOLEAN :
              /\ i = Slot(fcb[f].ext, io.rec) /\ b # 0 /\ PutRecord(f, b, new)
              /\ \/ ~new /\ b = fcb[f].blk[i]
                 \/ new /\ fcb[f].blk[i] = 0 /\ b \notin alloc
<1>1. PICK i \in SlotIdx : i = Slot(fcb[f].ext, io.rec)
  BY IoFields, SlotType DEF IInv, FcbType
<1>2. fcb[f].blk[i] \in Block
  BY DEF IInv, TypeOK, FcbType
<1>3. logged
  BY TransferFacts DEF WriteRecord
<1>4. FreeBlocks # {} => /\ Nearest(Previous(f, i), FreeBlocks) \in Block \ alloc
                         /\ Nearest(Previous(f, i), FreeBlocks) # 0
  BY <1>3, FreeBlockFound, ConstType DEF IInv, Safe, DiskInv, AllocSound
<1>5. NoIo.at = "idle"
  BY DEF NoIo
<1>6. CASE PutRecord(f, fcb[f].blk[i], FALSE) /\ fcb[f].blk[i] # 0
  BY <1>1, <1>2, <1>6
<1>7. CASE fcb[f].blk[i] = 0 /\ FreeBlocks # {}
           /\ PutRecord(f, Nearest(Previous(f, i), FreeBlocks), TRUE)
  BY <1>1, <1>4, <1>7
<1>8. QED
  BY <1>1, <1>5, <1>6, <1>7 DEF WriteRecord

LEMMA PutRecordFile ==
  ASSUME IInv, FileInv, io.at = "xfer", NEW f \in Fcb, f = io.f, NEW i \in SlotIdx, NEW b,
         NEW new, i = Slot(fcb[f].ext, io.rec), PutRecord(f, b, new),
         b = fcb[f].blk[i] \/ fcb[f].blk[i] = 0
  PROVE  FileInv'
<1>1. fcb' = [fcb EXCEPT ![f] = Written(f, i, b)] /\ dir' = dir
  BY DEF PutRecord
<1>2. /\ \A g \in Fcb : g # f => fcb'[g] = fcb[g]
      /\ fcb'[f].open = fcb[f].open /\ fcb'[f].name = fcb[f].name /\ fcb'[f].ext = fcb[f].ext
      /\ fcb'[f].bad = fcb[f].bad /\ fcb'[f].eof = fcb[f].eof
      /\ fcb'[f].blk[i] = b /\ \A j \in SlotIdx : j # i => fcb'[f].blk[j] = fcb[f].blk[j]
  <2>1. PutFields(f, i, b)
    BY <1>1, WrittenFields
  <2>2. QED
    BY <2>1 DEF PutFields
<1>3. Placed(f) /\ AtHome(f) /\ Placed(f)'
  BY <1>2, XferPlaced DEF Placed
<1>4. ASSUME NEW g \in Fcb, Placed(g)' PROVE AtHome(g)'
  <2>1. CASE g # f
    <3>1. fcb'[g] = fcb[g] /\ Placed(g)
      BY <1>2, <1>4, <2>1 DEF Placed
    <3>2. QED
      BY <1>1, <3>1, AtHomeSame DEF FileInv, InGroup, Live
  <2>2. CASE g = f
    <3>1. \A s \in Dir : InGroup(s, fcb[f].name, fcb[f].ext)' <=> InGroup(s, fcb[f].name, fcb[f].ext)
      BY <1>1, <1>2 DEF InGroup, Live
    <3>2. ASSUME NEW s \in Dir, InGroup(s, fcb[f].name, fcb[f].ext),
                 NEW j \in SlotIdx, dir[s].blk[j] # 0
          PROVE  fcb'[f].blk[j] = dir[s].blk[j]
      BY <1>2, <1>3, <3>2 DEF AtHome
    <3>3. QED
      BY <1>1, <1>3, <2>2, <3>1, <3>2 DEF AtHome
  <2>3. QED
    BY <2>1, <2>2
<1>5. \/ io'.at = "idle"
      \/ io'.at = "close" /\ io'.f = f /\ io'.op = "writeSeq" /\ fcb'[f].cr = RecsPerExt
  <2>1. CASE io.op = "writeSeq" /\ io.rec = RecsPerExt - 1
    <3>1. io' = [io EXCEPT !.at = "close", !.ext = NextExt(fcb[f].ext)]
      BY <2>1 DEF PutRecord
    <3>2. fcb'[f].cr = RecsPerExt
      <4>1. fcb'[f].cr = io.rec + 1
        BY <1>1, <2>1, WrittenCount
      <4>2. QED
        BY <2>1, <4>1, SizeAssumption
    <3>3. QED
      BY <2>1, <3>1, <3>2 DEF IInv, TypeOK, IoType
  <2>2. CASE ~(io.op = "writeSeq" /\ io.rec = RecsPerExt - 1)
    BY <2>2 DEF PutRecord, NoIo
  <2>3. QED
    BY <2>1, <2>2
<1>6. Placement'
  BY <1>2, <1>3, <1>5, PlacementStep DEF FileInv, Placed
<1>7. QED
  BY <1>4, <1>6 DEF FileInv, Homed

LEMMA WriteRecordFile == ASSUME IInv, FileInv, WriteRecord PROVE FileInv'
<1>1. PICK f \in Fcb : f = io.f
  BY DEF IInv, TypeOK, IoType
<1>2. io.at = "xfer"
  BY DEF WriteRecord
<1>3. CASE io'.at = "idle" /\ UNCHANGED <<disk, ram, fcb, scan, hist>>
  <2>1. dir' = dir /\ fcb' = fcb /\ io'.at = "idle" /\ Placed(f)
    BY <1>1, <1>2, <1>3, XferPlaced DEF disk
  <2>2. Homed'
    BY <2>1, HomedSame DEF FileInv
  <2>3. Placement'
    BY <1>1, <1>2, <2>1, PlacementStep DEF FileInv, Placement, Placed
  <2>4. QED
    BY <2>2, <2>3 DEF FileInv
<1>4. QED
  BY <1>1, <1>2, <1>3, WriteCases, RestartFile, PutRecordFile

LEMMA DirCallFile == ASSUME IInv, FileInv, DirCall PROVE FileInv'
<1>1. CASE Restart
  BY <1>1, RestartFile
<1>2. CASE ~Restart
  <2>1. dir' = dir /\ fcb' = fcb /\ io' = io
    BY <1>2 DEF DirCall, Delete, Rename, SetAttr, disk
  <2>2. QED
    BY <2>1, SameFile DEF InGroup, Live
<1>3. QED
  BY <1>1, <1>2

\* An erase or a rename does not touch the entries of an open file.
LEMMA WalkFile == ASSUME IInv, FileInv, Walk PROVE FileInv'
<1>1. PICK s \in Dir : s = scan.pos
  BY DEF IInv, TypeOK, ScanType
<1>2. CASE Restart
  BY <1>2, RestartFile
<1>3. CASE EraseEntry /\ ~Restart
  <2>1. dir' = [dir EXCEPT ![s] = Erased] /\ fcb' = fcb /\ io' = io
    BY <1>1, <1>3 DEF EraseEntry
  <2>2. (\A t \in Dir : t # s => dir'[t] = dir[t]) /\ ~dir'[s].live
    BY <2>1 DEF IInv, TypeOK, Erased
  <2>3. \A f \in Fcb : fcb[f].open => fcb[f].name # dir[s].name
    BY <1>1, <1>3 DEF EraseEntry, IInv, Safe, WalkState, NotOpen
  <2>4. QED
    BY <2>1, <2>2, <2>3, SameFile DEF InGroup, Live, Placed
<1>4. CASE RenameEntry /\ ~Restart
  <2>1. dir' = [dir EXCEPT ![s].name = scan.to] /\ fcb' = fcb /\ io' = io
    BY <1>1, <1>4 DEF RenameEntry
  <2>2. /\ \A t \in Dir : t # s => dir'[t] = dir[t]
        /\ dir'[s].name = scan.to
    BY <2>1 DEF IInv, TypeOK, EntryType
  <2>3. \A f \in Fcb : fcb[f].open => fcb[f].name # dir[s].name /\ fcb[f].name # scan.to
    BY <1>1, <1>4 DEF RenameEntry, IInv, Safe, WalkState, NotOpen
  <2>4. QED
    BY <2>1, <2>2, <2>3, SameFile DEF InGroup, Live, Placed
<1>5. CASE AttrEntry
  <2>1. dir' = [dir EXCEPT ![s].ro = scan.ro] /\ fcb' = fcb /\ io' = io
    BY <1>1, <1>5 DEF AttrEntry
  <2>2. \A t \in Dir : /\ dir'[t].live = dir[t].live /\ dir'[t].name = dir[t].name
                       /\ dir'[t].ext = dir[t].ext /\ dir'[t].blk = dir[t].blk
    BY <2>1 DEF IInv, TypeOK, EntryType
  <2>3. QED
    BY <2>1, <2>2, SameFile DEF InGroup, Live
<1>6. QED
  BY <1>2, <1>3, <1>4, <1>5 DEF Walk

LEMMA FileStep == ASSUME ~StaleSeek, IInv, FileInv, [Next]_vars PROVE FileInv'
<1>1. ASSUME NEW f \in Fcb, FcbCall(f) PROVE FileInv'
  <2>1. ~IsSeq("readRan") /\ ~IsSeq("writeRan") /\ ~IsSeq("writeZero")
    BY DEF IsSeq
  <2>2. ASSUME NEW e \in Ext, NEW r \in Rec, NEW v,
               Position(f, "readRan", e, r, v) \/ Position(f, "writeRan", e, r, v)
               \/ Position(f, "writeZero", e, r, v)
        PROVE  FileInv'
    BY <2>1, <2>2, PositionFile
  <2>3. QED
    BY <1>1, <2>2, MakeFile, OpenFile, CloseFileFile, ForgetFile, OverflowFile, ReadSeqFile, WriteSeqFile
       DEF FcbCall, ReadRan, WriteRan, WriteZero
<1>2. CASE Transfer
  BY <1>2, CloseExtentFile, OpenExtentFile, AddExtentFile, NoExtentFile, ReadRecordFile,
     WriteRecordFile DEF Transfer
<1>3. QED
  BY <1>1, <1>2, RestartFile, LoginFile, DirCallFile, WalkFile DEF Next

\* Every FCB that has its place has its entry, and all the blocks of it.
THEOREM FileCorrect == ASSUME ~StaleSeek PROVE Spec => [](IInv /\ FileInv)
<1>1. IInv /\ FileInv /\ [Next]_vars => FileInv'
  BY FileStep
<1>2. Spec => []FileInv
  BY <1>1, InitFile, InvCorrect, PTL DEF Spec
<1>3. QED
  BY <1>2, InvCorrect, PTL

\* An FCB that has been written to can be closed: CLOSEIT finds its entry, and
\* never the mismatch of CLOSEIT7.
THEOREM ClosableCorrect == ASSUME ~StaleSeek PROVE Spec => []Closable
<1>1. ASSUME IInv, FileInv PROVE Closable
  <2> SUFFICES ASSUME NEW f \in Fcb, fcb[f].open, fcb[f].dirty, ~wp PROVE CloseStatus(f) = "closed"
    BY DEF Closable
  <2>1. logged /\ Placed(f)
    BY <1>1 DEF IInv, Safe, Control, FileInv, Placement, Unrecorded
  <2>2. QED
    BY <1>1, <2>1, PlacedHome DEF CloseStatus
<1>2. QED
  BY <1>1, FileCorrect, PTL
-----------------------------------------------------------------------------
(* What is written, recorded and read back.                                 *)

\* The entry s gives v for the record k.
Held(s, k, v) ==
  LET b == dir[s].blk[Slot(k[2], k[3])] IN
  /\ InGroup(s, k[1], k[2])
  /\ k[2] < dir[s].ext \/ (k[2] = dir[s].ext /\ k[3] < dir[s].rc)
  /\ b # 0 /\ data[b][Offset(k[3])] = v

LEMMA HeldDir ==
  ASSUME NEW k, NEW v
  PROVE  DirHolds(k, v) <=> \E s \in Dir : Held(s, k, v)
BY DEF DirHolds, Held, InGroup, Live

\* Two records of a file that one directory entry describes are at different
\* places of its blocks.
LEMMA SlotInjective ==
  ASSUME NEW d \in Ext, NEW e \in Ext, NEW p \in Rec, NEW r \in Rec,
         SameEntry(d, e), Slot(d, p) = Slot(e, r), Offset(p) = Offset(r)
  PROVE  d = e /\ p = r
<1> DEFINE B == BlocksPerExt
           a == d % ExtPerEntry
           c == e % ExtPerEntry
           q == p \div RecsPerBlock
           t == r \div RecsPerBlock
<1>1. B \in Nat /\ RecsPerExt = B * RecsPerBlock /\ RecsPerBlock \in Nat \ {0}
  BY SizeAssumption DEF BlocksPerExt
<1>2. ASSUME NEW x \in Rec PROVE x \div RecsPerBlock \in Nat /\ x \div RecsPerBlock < B
  <2> DEFINE y == x \div RecsPerBlock
  <2>1. x \in Nat /\ x < RecsPerExt
    BY SizeAssumption DEF Rec
  <2>2. y \in Nat /\ y * RecsPerBlock <= x
    BY <1>1, <2>1
  <2>3. y * RecsPerBlock < B * RecsPerBlock
    BY <1>1, <2>1, <2>2
  <2> HIDE DEF B
  <2>4. QED
    BY <1>1, <2>2, <2>3
<1>3. a \in Nat /\ c \in Nat /\ q \in Nat /\ t \in Nat /\ q < B /\ t < B
  BY <1>2, SizeAssumption DEF Ext
<1>4. a * B + q = c * B + t
  BY DEF Slot
<1>5. a = c /\ q = t
  <2> HIDE DEF a, c, q, t, B
  <2>1. a * B \in Nat /\ c * B \in Nat
    BY <1>1, <1>3
  <2>2. ASSUME a < c PROVE FALSE
    <3>1. (a + 1) * B <= c * B
      BY <1>1, <1>3, <2>2
    <3>2. (a + 1) * B = a * B + B
      BY <1>1, <1>3
    <3>3. QED
      BY <1>1, <1>3, <1>4, <2>1, <3>1, <3>2
  <2>3. ASSUME c < a PROVE FALSE
    <3>1. (c + 1) * B <= a * B
      BY <1>1, <1>3, <2>3
    <3>2. (c + 1) * B = c * B + B
      BY <1>1, <1>3
    <3>3. QED
      BY <1>1, <1>3, <1>4, <2>1, <3>1, <3>2
  <2>4. a = c
    BY <1>3, <2>2, <2>3
  <2>5. QED
    BY <1>3, <1>4, <2>1, <2>4
<1>6. d = e
  <2>1. d = ExtPerEntry * (d \div ExtPerEntry) + (d % ExtPerEntry)
        /\ e = ExtPerEntry * (e \div ExtPerEntry) + (e % ExtPerEntry)
    BY SizeAssumption DEF Ext
  <2>2. QED
    BY <1>5, <2>1 DEF SameEntry
<1>7. p = r
  <2>1. p = RecsPerBlock * (p \div RecsPerBlock) + (p % RecsPerBlock)
        /\ r = RecsPerBlock * (r \div RecsPerBlock) + (r % RecsPerBlock)
    BY SizeAssumption DEF Rec
  <2>2. QED
    BY <1>5, <2>1 DEF Offset
<1>8. QED
  BY <1>6, <1>7

\* What is recorded stays so when its entry and the data do.
LEMMA RecordedSame ==
  ASSUME Recorded, data' = data,
         \A k \in synced' : /\ k \in synced /\ wr'[k] = wr[k]
                            /\ \A s \in Dir : InGroup(s, k[1], k[2]) =>
                                 /\ dir'[s].live = dir[s].live /\ dir'[s].name = dir[s].name
                                 /\ dir'[s].ext = dir[s].ext /\ dir'[s].rc = dir[s].rc
                                 /\ dir'[s].blk = dir[s].blk
  PROVE  Recorded'
<1> SUFFICES ASSUME NEW k \in synced' PROVE wr'[k] # NoValue /\ DirHolds(k, wr[k])'
  BY DEF Recorded
<1>1. wr'[k] = wr[k] /\ wr[k] # NoValue /\ DirHolds(k, wr[k])
  BY DEF Recorded
<1>2. PICK s \in Dir : Held(s, k, wr[k])
  BY <1>1, HeldDir
<1>3. InGroup(s, k[1], k[2])
  BY <1>2 DEF Held
<1>4. Held(s, k, wr[k])'
  BY <1>1, <1>2, <1>3 DEF Held, InGroup, Live
<1>5. DirHolds(k, wr[k])'
  BY <1>4 DEF DirHolds, Held, InGroup, Live
<1>6. QED
  BY <1>1, <1>5

\* An FCB that has its place and its blocks is still up to date.
LEMMA UpToDateSame ==
  ASSUME Current, NEW f \in Fcb, Placed(f), data' = data,
         fcb'[f].name = fcb[f].name, fcb'[f].ext = fcb[f].ext,
         fcb'[f].rc = fcb[f].rc, fcb'[f].blk = fcb[f].blk,
         \A k \in Name \X Ext \X Rec :
           k[1] = fcb[f].name /\ wr'[k] # NoValue => wr'[k] = wr[k]
  PROVE  UpToDate(f)'
<1> SUFFICES ASSUME NEW k \in Name \X Ext \X Rec,
                    fcb[f].name = k[1], fcb[f].ext = k[2], wr'[k] # NoValue
             PROVE  FcbHolds(f, k, wr[k])'
  BY DEF UpToDate
<1>1. wr'[k] = wr[k] /\ FcbHolds(f, k, wr[k])
  BY DEF Current, UpToDate
<1>2. QED
  BY <1>1 DEF FcbHolds

LEMMA InitData == Init => DataInv
BY DEF Init, DataInv, Recorded, Dirtied, Current, Closed, Placed, Unused, NoIo

\* What is lost with an FCB.
LEMMA SettledFacts ==
  ASSUME NEW N, NEW k \in Name \X Ext \X Rec
  PROVE  /\ k \in synced => Settled(N)[k] = wr[k]
         /\ Settled(N)[k] # NoValue => Settled(N)[k] = wr[k] /\ (k[1] \in N => k \in synced)
BY DEF Settled

LEMMA RestartData == ASSUME IInv, DataInv, Restart PROVE DataInv'
<1>1. /\ dir' = dir /\ data' = data /\ synced' = synced /\ wr' = Settled(Name)
      /\ (\A f \in Fcb : ~fcb'[f].open) /\ io'.at = "idle"
  BY DEF Restart, disk, Unused, NoIo
<1>2. synced \subseteq Name \X Ext \X Rec
  BY DEF IInv, TypeOK
<1>3. Recorded'
  <2>1. \A k \in synced : wr'[k] = wr[k]
    BY <1>1, <1>2, SettledFacts
  <2>2. QED
    BY <1>1, <2>1, RecordedSame DEF DataInv
<1>4. Dirtied'
  <2>1. \A k \in Name \X Ext \X Rec : wr'[k] # NoValue => k \in synced
    BY <1>1, SettledFacts
  <2>2. QED
    BY <1>1, <2>1 DEF Dirtied
<1>5. Current' /\ Closed'
  BY <1>1 DEF Current, Placed, Closed
<1>6. QED
  BY <1>3, <1>4, <1>5 DEF DataInv

\* A step that changes nothing but record numbers and the request.
LEMMA RequestData ==
  ASSUME DataInv, dir' = dir, data' = data, wr' = wr, synced' = synced,
         \A g \in Fcb : /\ fcb'[g].open = fcb[g].open /\ fcb'[g].name = fcb[g].name
                        /\ fcb'[g].ext = fcb[g].ext /\ fcb'[g].blk = fcb[g].blk
                        /\ fcb'[g].bad = fcb[g].bad /\ fcb'[g].eof = fcb[g].eof
                        /\ fcb'[g].rc = fcb[g].rc /\ Unrecorded(g)' = Unrecorded(g),
         io'.at # "open" \/ (io' = io /\ fcb' = fcb)
  PROVE  DataInv'
<1>1. Recorded'
  BY RecordedSame DEF DataInv
<1>2. Dirtied'
  BY DEF DataInv, Dirtied
<1>3. Current'
  <2>1. \A g \in Fcb : Placed(g)' <=> Placed(g)
    BY DEF Placed
  <2>2. QED
    BY <2>1, UpToDateSame DEF DataInv, Current
<1>4. Closed'
  BY DEF DataInv, Closed, AllRecorded
<1>5. QED
  BY <1>1, <1>2, <1>3, <1>4 DEF DataInv

LEMMA LoginData ==
  ASSUME DataInv, LoginDrv \/ ResetDisk \/ WriteProtect \/ UNCHANGED vars
  PROVE  DataInv'
<1>1. fcb' = fcb /\ io' = io /\ dir' = dir /\ data' = data /\ wr' = wr /\ synced' = synced
  BY DEF LoginDrv, ResetDisk, WriteProtect, vars, disk, hist
<1>2. QED
  BY <1>1, RequestData DEF Unrecorded

LEMMA DirCallData == ASSUME IInv, DataInv, DirCall PROVE DataInv'
<1>1. CASE ~Restart
  <2>1. fcb' = fcb /\ io' = io /\ dir' = dir /\ data' = data /\ wr' = wr /\ synced' = synced
    BY <1>1 DEF DirCall, Delete, Rename, SetAttr, disk, hist
  <2>2. QED
    BY <2>1, RequestData DEF Unrecorded
<1>2. QED
  BY <1>1, RestartData

LEMMA ReadSeqData ==
  ASSUME DataInv, NEW f \in Fcb, ReadSeq(f)
  PROVE  DataInv'
<1>1. fcb' = fcb /\ dir' = dir /\ data' = data /\ wr' = wr /\ synced' = synced /\ io'.at # "open"
  BY DEF ReadSeq, Request, disk, hist
<1>2. QED
  BY <1>1, RequestData DEF Unrecorded

LEMMA WriteSeqData ==
  ASSUME IInv, DataInv, NEW f \in Fcb, NEW v \in Value, WriteSeq(f, v)
  PROVE  DataInv'
<1>1. CASE ~Restart
  <2>1. fcb' = fcb /\ dir' = dir /\ data' = data /\ wr' = wr /\ synced' = synced /\ io'.at # "open"
    BY <1>1 DEF WriteSeq, Request, disk, hist
  <2>2. QED
    BY <2>1, RequestData DEF Unrecorded
<1>2. QED
  BY <1>1, RestartData

LEMMA PositionData ==
  ASSUME IInv, DataInv, NEW f \in Fcb, NEW op, NEW e, NEW r, NEW v, Position(f, op, e, r, v)
  PROVE  DataInv'
<1>1. data' = data /\ wr' = wr /\ synced' = synced
  BY DEF Position, disk, hist
<1>2. dir' = dir /\ io'.at # "open"
  BY PositionFields
<1>3. \A g \in Fcb : /\ fcb'[g].open = fcb[g].open /\ fcb'[g].name = fcb[g].name
                     /\ fcb'[g].ext = fcb[g].ext /\ fcb'[g].blk = fcb[g].blk
                     /\ fcb'[g].bad = fcb[g].bad /\ fcb'[g].eof = fcb[g].eof
                     /\ fcb'[g].rc = fcb[g].rc /\ Unrecorded(g)' = Unrecorded(g)
  BY PositionFields DEF Unrecorded
<1>4. QED
  BY <1>1, <1>2, <1>3, RequestData

LEMMA OverflowData ==
  ASSUME IInv, DataInv, NEW f \in Fcb, Overflow(f)
  PROVE  DataInv'
<1>1. data' = data /\ dir' = dir /\ wr' = wr /\ synced' = synced /\ io'.at # "open"
  BY IdleFacts DEF Overflow, disk, hist
<1>2. \A g \in Fcb : OverflowFields(g) /\ Unrecorded(g)' = Unrecorded(g)
  <2>1. fcb[f].dirty
    BY DEF Overflow
  <2>2. QED
    BY <2>1, OverflowEffect DEF Unrecorded, IInv, TypeOK, FcbType
<1>3. QED
  BY <1>1, <1>2, RequestData DEF OverflowFields

LEMMA ReadRecordData == ASSUME IInv, DataInv, ReadRecord PROVE DataInv'
<1>1. data' = data /\ wr' = wr /\ synced' = synced /\ dir' = dir /\ io'.at # "open"
  BY DEF ReadRecord, NoIo, disk, hist
<1>2. QED
  BY <1>1, ReadRecordFields, RequestData DEF Unrecorded

\* Nothing unrecorded of a file is left when no FCB of it is open.
LEMMA NotOpenRecorded ==
  ASSUME Dirtied, NEW n, NotOpen({n})
  PROVE  AllRecorded(n)
BY DEF Dirtied, NotOpen, AllRecorded

\* An FCB is made for an extent of a file of which everything is recorded.
LEMMA NewData ==
  ASSUME IInv, DataInv, NEW f \in Fcb, NEW n, AllRecorded(n),
         fcb[f].open => fcb[f].name = n,
         \A g \in Fcb : g # f => fcb'[g] = fcb[g],
         data' = data, wr' = wr, synced' = synced,
         \A s \in Dir : Live(s) => dir'[s] = dir[s],
         UpToDate(f)', io'.at # "open"
  PROVE  DataInv'
<1>1. Recorded'
  BY RecordedSame DEF DataInv, InGroup
<1>2. Dirtied'
  <2> SUFFICES ASSUME NEW k \in Name \X Ext \X Rec, wr[k] # NoValue, k \notin synced
               PROVE  \E g \in Fcb : /\ fcb'[g].open /\ Unrecorded(g)'
                                     /\ fcb'[g].name = k[1] /\ fcb'[g].ext = k[2]
    BY DEF Dirtied
  <2>1. PICK g \in Fcb : fcb[g].open /\ Unrecorded(g) /\ fcb[g].name = k[1] /\ fcb[g].ext = k[2]
    BY DEF DataInv, Dirtied
  <2>2. g # f
    BY <2>1 DEF AllRecorded
  <2>3. QED
    BY <2>1, <2>2 DEF Unrecorded
<1>3. Current'
  <2>1. ASSUME NEW g \in Fcb, Placed(g)' PROVE UpToDate(g)'
    <3>1. CASE g # f
      <4>1. fcb'[g] = fcb[g] /\ Placed(g)
        BY <2>1, <3>1 DEF Placed
      <4>2. QED
        BY <4>1, UpToDateSame DEF DataInv
    <3>2. QED
      BY <3>1
  <2>2. QED
    BY <2>1 DEF Current
<1>4. QED
  BY <1>1, <1>2, <1>3 DEF DataInv, Closed

\* An extent without an entry has no records, so an empty FCB is up to date.
LEMMA EmptyUpToDate ==
  ASSUME IInv, DataInv, NEW f \in Fcb, NEW n, NEW e, AllRecorded(n),
         \A s \in Dir : ~InGroup(s, n, e), fcb'[f].name = n, fcb'[f].ext = e, wr' = wr
  PROVE  UpToDate(f)'
<1> SUFFICES ASSUME NEW k \in Name \X Ext \X Rec, n = k[1], e = k[2], wr[k] # NoValue
             PROVE  FALSE
  BY DEF UpToDate
<1>1. k \in synced
  BY DEF AllRecorded
<1>2. PICK s \in Dir : Held(s, k, wr[k])
  BY <1>1, HeldDir DEF DataInv, Recorded
<1>3. QED
  BY <1>2 DEF Held

LEMMA MakeData ==
  ASSUME IInv, DataInv, NEW f \in Fcb, NEW n \in Name, Make(f, n)
  PROVE  DataInv'
<1>1. CASE ~Restart
  <2>1. PICK s \in Dir :
          /\ ~dir[s].live /\ dir' = [dir EXCEPT ![s] = Created(n, 0, FALSE)]
          /\ fcb' = [fcb EXCEPT ![f] = EmptyFcb(n, 0, FALSE, 0)]
    BY <1>1, FirstFree DEF Make
  <2>2. data' = data /\ wr' = wr /\ synced' = synced /\ io'.at # "open" /\ ~fcb[f].open
    BY <1>1, IdleFacts DEF Make, hist
  <2>3. AllRecorded(n)
    BY NotOpenRecorded DEF Make, Fresh, DataInv
  <2>4. /\ \A t \in Dir : Live(t) => dir'[t] = dir[t]
        /\ \A g \in Fcb : g # f => fcb'[g] = fcb[g]
        /\ fcb'[f].name = n /\ fcb'[f].ext = 0
    BY <2>1 DEF IInv, TypeOK, EmptyFcb, Live
  <2>5. \A t \in Dir : ~InGroup(t, n, 0)
    BY DEF Make, Fresh, InGroup, Live
  <2>6. UpToDate(f)'
    BY <2>2, <2>3, <2>4, <2>5, EmptyUpToDate
  <2>7. QED
    BY <2>2, <2>3, <2>4, <2>6, NewData
<1>2. QED
  BY <1>1, RestartData

\* OPENIT1 finds every record of the extent in the entry.
LEMMA OpenedUpToDate ==
  ASSUME IInv, DataInv, NEW f \in Fcb, NEW s \in Dir, NEW e \in Ext, NEW cr,
         AllRecorded(dir[s].name), InGroup(s, dir[s].name, e),
         fcb' = [fcb EXCEPT ![f] = Opened(s, e, cr)], data' = data, wr' = wr
  PROVE  UpToDate(f)'
<1>1. /\ fcb'[f].name = dir[s].name /\ fcb'[f].ext = e /\ fcb'[f].blk = dir[s].blk
      /\ fcb'[f].rc = IF dir[s].ext = e THEN dir[s].rc
                      ELSE IF dir[s].ext < e THEN 0 ELSE RecsPerExt
  BY DEF IInv, TypeOK, Opened
<1> SUFFICES ASSUME NEW k \in Name \X Ext \X Rec, dir[s].name = k[1], e = k[2], wr[k] # NoValue
             PROVE  FcbHolds(f, k, wr[k])'
  BY <1>1 DEF UpToDate
<1>2. k \in synced
  BY DEF AllRecorded
<1>3. PICK t \in Dir : Held(t, k, wr[k])
  BY <1>2, HeldDir DEF DataInv, Recorded
<1>4. t = s
  BY <1>3 DEF Held, InGroup, Live, SameEntry, IInv, Safe, DiskInv, OneEntry
<1>5. k[3] < fcb'[f].rc
  <2>1. k[2] < dir[s].ext \/ (k[2] = dir[s].ext /\ k[3] < dir[s].rc)
    BY <1>3, <1>4 DEF Held
  <2>2. dir[s].ext \in Int /\ e \in Int /\ k[3] < RecsPerExt
    BY SizeAssumption DEF IInv, TypeOK, EntryType, Ext, Rec
  <2>3. QED
    BY <1>1, <2>1, <2>2
<1>6. QED
  BY <1>1, <1>3, <1>4, <1>5 DEF Held, FcbHolds

LEMMA OpenData ==
  ASSUME IInv, DataInv, NEW f \in Fcb, NEW n \in Name, Open(f, n)
  PROVE  DataInv'
<1>1. PICK s \in Dir : /\ InGroup(s, dir[s].name, 0) /\ dir[s].name = n
                       /\ fcb' = [fcb EXCEPT ![f] = Opened(s, 0, 0)]
  BY FirstFound DEF Open, InGroup
<1>2. /\ dir' = dir /\ data' = data /\ wr' = wr /\ synced' = synced
      /\ io'.at # "open" /\ ~fcb[f].open
  BY IdleFacts DEF Open, disk, hist
<1>3. AllRecorded(n)
  BY NotOpenRecorded DEF Open, DataInv
<1>4. UpToDate(f)'
  BY <1>1, <1>2, <1>3, OpenedUpToDate, ConstType
<1>5. \A g \in Fcb : g # f => fcb'[g] = fcb[g]
  BY <1>1 DEF IInv, TypeOK
<1>6. QED
  BY <1>2, <1>3, <1>4, <1>5, NewData

LEMMA OpenExtentData == ASSUME IInv, DataInv, OpenExtent PROVE DataInv'
<1>1. PICK f \in Fcb : f = io.f
  BY DEF IInv, TypeOK, IoType
<1>2. PICK s \in Dir : /\ InGroup(s, dir[s].name, io.ext) /\ dir[s].name = fcb[f].name
                       /\ fcb' = [fcb EXCEPT ![f] = Opened(s, io.ext, FirstRec)]
  BY <1>1, FirstFound DEF OpenExtent, InGroup
<1>3. /\ dir' = dir /\ data' = data /\ wr' = wr /\ synced' = synced /\ io'.at # "open"
      /\ io.ext \in Ext
  BY ProceedFields, IoFields DEF OpenExtent, disk, hist, IInv
<1>4. AllRecorded(dir[s].name)
  BY <1>1, <1>2 DEF OpenExtent, DataInv, Closed
<1>5. UpToDate(f)'
  BY <1>2, <1>3, <1>4, OpenedUpToDate
<1>6. \A g \in Fcb : g # f => fcb'[g] = fcb[g]
  BY <1>2 DEF IInv, TypeOK
<1>7. QED
  BY <1>2, <1>3, <1>4, <1>5, <1>6, NewData

LEMMA AddExtentData == ASSUME IInv, DataInv, AddExtent PROVE DataInv'
<1>1. CASE ~Restart
  <2>1. PICK f \in Fcb : f = io.f
    BY DEF IInv, TypeOK, IoType
  <2>2. PICK s \in Dir :
          /\ ~dir[s].live
          /\ dir' = [dir EXCEPT ![s] = Created(fcb[f].name, io.ext, fcb[f].ro)]
          /\ fcb' = [fcb EXCEPT ![f] = EmptyFcb(fcb[f].name, io.ext, fcb[f].ro, FirstRec)]
    BY <1>1, <2>1, FirstFree DEF AddExtent
  <2>3. data' = data /\ wr' = wr /\ synced' = synced /\ io'.at # "open"
    BY <1>1, ProceedFields DEF AddExtent, hist
  <2>4. \A t \in Dir : ~InGroup(t, fcb[f].name, io.ext)
    BY <1>1, <2>1, TransferFacts DEF AddExtent
  <2>5. AllRecorded(fcb[f].name)
    BY <2>1 DEF AddExtent, DataInv, Closed
  <2>6. /\ \A t \in Dir : Live(t) => dir'[t] = dir[t]
        /\ \A g \in Fcb : g # f => fcb'[g] = fcb[g]
        /\ fcb'[f].name = fcb[f].name /\ fcb'[f].ext = io.ext
    BY <2>2 DEF IInv, TypeOK, EmptyFcb, Live
  <2>7. PICK n : n = fcb[f].name
    OBVIOUS
  <2>8. PICK e : e = io.ext
    OBVIOUS
  <2>9. UpToDate(f)'
    BY <2>3, <2>4, <2>5, <2>6, <2>7, <2>8, EmptyUpToDate
  <2>10. QED
    BY <2>3, <2>5, <2>6, <2>7, <2>9, NewData
<1>2. QED
  BY <1>1, RestartData

LEMMA NoExtentData == ASSUME IInv, DataInv, NoExtent PROVE DataInv'
<1>1. PICK f \in Fcb : f = io.f
  BY DEF IInv, TypeOK, IoType
<1>2. /\ \A g \in Fcb : g # f => fcb'[g] = fcb[g]
      /\ ~Placed(f)' /\ io'.at = "idle" /\ dir' = dir
  BY <1>1, NoExtentFields
<1>3. data' = data /\ wr' = wr /\ synced' = synced
  BY DEF NoExtent, disk, hist
<1>4. AllRecorded(fcb[f].name)
  BY <1>1 DEF NoExtent, DataInv, Closed
<1>5. Recorded'
  BY <1>2, <1>3, RecordedSame DEF DataInv
<1>6. Dirtied'
  <2> SUFFICES ASSUME NEW k \in Name \X Ext \X Rec, wr[k] # NoValue, k \notin synced
               PROVE  \E g \in Fcb : /\ fcb'[g].open /\ Unrecorded(g)'
                                     /\ fcb'[g].name = k[1] /\ fcb'[g].ext = k[2]
    BY <1>3 DEF Dirtied
  <2>1. PICK g \in Fcb : fcb[g].open /\ Unrecorded(g) /\ fcb[g].name = k[1] /\ fcb[g].ext = k[2]
    BY DEF DataInv, Dirtied
  <2>2. g # f
    BY <1>4, <2>1 DEF AllRecorded
  <2>3. QED
    BY <1>2, <2>1, <2>2 DEF Unrecorded
<1>7. Current'
  <2>1. ASSUME NEW g \in Fcb, Placed(g)' PROVE UpToDate(g)'
    <3>1. fcb'[g] = fcb[g] /\ Placed(g)
      BY <1>2, <2>1 DEF Placed
    <3>2. QED
      BY <1>3, <3>1, UpToDateSame DEF DataInv
  <2>2. QED
    BY <2>1 DEF Current
<1>8. QED
  BY <1>2, <1>5, <1>6, <1>7 DEF DataInv, Closed

LEMMA ForgetData ==
  ASSUME IInv, DataInv, NEW f \in Fcb, Forget(f)
  PROVE  DataInv'
<1>1. (\A g \in Fcb : g # f => fcb'[g] = fcb[g]) /\ ~fcb'[f].open
  BY DEF IInv, TypeOK, Forget, Unused
<1>2. /\ dir' = dir /\ data' = data /\ synced' = synced /\ wr' = Settled({fcb[f].name})
      /\ io'.at # "open"
  BY IdleFacts DEF Forget, disk
<1>3. synced \subseteq Name \X Ext \X Rec
  BY DEF IInv, TypeOK
<1>4. Recorded'
  <2>1. \A k \in synced : wr'[k] = wr[k]
    BY <1>2, <1>3, SettledFacts
  <2>2. QED
    BY <1>2, <2>1, RecordedSame DEF DataInv
<1>5. Dirtied'
  <2> SUFFICES ASSUME NEW k \in Name \X Ext \X Rec, wr'[k] # NoValue, k \notin synced
               PROVE  \E g \in Fcb : /\ fcb'[g].open /\ Unrecorded(g)'
                                     /\ fcb'[g].name = k[1] /\ fcb'[g].ext = k[2]
    BY <1>2 DEF Dirtied
  <2>1. wr'[k] = wr[k] /\ k[1] # fcb[f].name
    BY <1>2, SettledFacts
  <2>2. PICK g \in Fcb : fcb[g].open /\ Unrecorded(g) /\ fcb[g].name = k[1] /\ fcb[g].ext = k[2]
    BY <2>1 DEF DataInv, Dirtied
  <2>3. QED
    BY <1>1, <2>1, <2>2 DEF Unrecorded
<1>6. Current'
  <2>1. \A k \in Name \X Ext \X Rec : wr'[k] # NoValue => wr'[k] = wr[k]
    BY <1>2, SettledFacts
  <2>2. ASSUME NEW g \in Fcb, Placed(g)' PROVE UpToDate(g)'
    <3>1. fcb'[g] = fcb[g] /\ Placed(g)
      BY <1>1, <2>2 DEF Placed
    <3>2. QED
      BY <1>2, <2>1, <3>1, UpToDateSame DEF DataInv
  <2>3. QED
    BY <2>2 DEF Current
<1>7. QED
  BY <1>2, <1>4, <1>5, <1>6 DEF DataInv, Closed

\* CLOSEIT records what the FCB says: the entry that it writes still has every
\* record that it had, and those of the extent of the FCB.
LEMMA CloseHeld ==
  ASSUME IInv, FileInv, DataInv, NEW f \in Fcb, Placed(f), NEW s \in Dir,
         InGroup(s, fcb[f].name, fcb[f].ext),
         dir' = [dir EXCEPT ![s] = ClosedEntry(f, s, fcb[f].blk)], data' = data, wr' = wr,
         NEW k \in Name \X Ext \X Rec, wr[k] # NoValue,
         Held(s, k, wr[k]) \/ (k[1] = fcb[f].name /\ k[2] = fcb[f].ext)
  PROVE  Held(s, k, wr[k])'
<1>1. /\ dir'[s].live = dir[s].live /\ dir'[s].name = dir[s].name /\ dir'[s].blk = fcb[f].blk
      /\ dir'[s].ext = HighestExt(dir[s].ext, fcb[f].ext)
      /\ dir'[s].rc = IF fcb[f].ext < dir[s].ext THEN dir[s].rc ELSE fcb[f].rc
      /\ \A e \in Ext : SameEntry(dir'[s].ext, e) <=> SameEntry(dir[s].ext, e)
  BY ClosedFields
<1>2. k[1] = dir[s].name /\ InGroup(s, k[1], k[2])
  BY DEF Held, InGroup
<1>3. InGroup(s, k[1], k[2])'
  BY <1>1, <1>2 DEF InGroup, Live
<1>4. k[1] = fcb[f].name
  BY <1>2 DEF InGroup
<1>5. UpToDate(f) /\ AtHome(f)
  BY DEF DataInv, Current, FileInv, Homed
<1>6. k[2] = fcb[f].ext => FcbHolds(f, k, wr[k])
  BY <1>4, <1>5 DEF UpToDate
<1>7. dir[s].ext \in Int /\ fcb[f].ext \in Int /\ k[2] \in Int
  BY DEF IInv, TypeOK, EntryType, FcbType, Ext
<1>8. k[2] < dir'[s].ext \/ (k[2] = dir'[s].ext /\ k[3] < dir'[s].rc)
  <2>1. CASE k[2] = fcb[f].ext
    BY <1>1, <1>6, <1>7, <2>1 DEF FcbHolds, HighestExt
  <2>2. CASE k[2] # fcb[f].ext
    <3>1. k[2] < dir[s].ext \/ (k[2] = dir[s].ext /\ k[3] < dir[s].rc)
      BY <2>2 DEF Held
    <3>2. QED
      BY <1>1, <1>7, <2>2, <3>1 DEF HighestExt
  <2>3. QED
    BY <2>1, <2>2
<1>9. /\ dir'[s].blk[Slot(k[2], k[3])] # 0
      /\ data'[dir'[s].blk[Slot(k[2], k[3])]][Offset(k[3])] = wr[k]
  <2>1. CASE k[2] = fcb[f].ext
    BY <1>1, <1>6, <2>1 DEF FcbHolds
  <2>2. CASE k[2] # fcb[f].ext
    <3>1. /\ dir[s].blk[Slot(k[2], k[3])] # 0
          /\ data[dir[s].blk[Slot(k[2], k[3])]][Offset(k[3])] = wr[k]
      BY <2>2 DEF Held
    <3>2. Slot(k[2], k[3]) \in SlotIdx
      BY SlotType
    <3>3. fcb[f].blk[Slot(k[2], k[3])] = dir[s].blk[Slot(k[2], k[3])]
      BY <1>5, <3>1, <3>2 DEF AtHome
    <3>4. QED
      BY <1>1, <3>1, <3>3
  <2>3. QED
    BY <2>1, <2>2
<1>10. QED
  BY <1>3, <1>8, <1>9 DEF Held

\* After the close nothing of the file is unrecorded, unless the drive is write
\* protected.
LEMMA CloseData ==
  ASSUME IInv, FileInv, DataInv, logged, NEW f \in Fcb, fcb[f].open, CloseIt(f, fcb[f].blk),
         \A g \in Fcb : g # f => fcb'[g] = fcb[g],
         fcb'[f] = fcb[f] \/ ~Placed(f)', data' = data,
         ~wp /\ fcb[f].dirty => wr' = wr,
         wp \/ ~fcb[f].dirty => wr' = Settled({fcb[f].name}) \/ (wr' = wr /\ fcb'[f] = fcb[f]),
         NEW n, n = fcb[f].name
  PROVE  /\ Recorded' /\ Dirtied' /\ Current'
         /\ (~wp /\ fcb[f].dirty) \/ wr' = Settled({n}) => AllRecorded(n)'
<1>1. synced \subseteq Name \X Ext \X Rec
  BY DEF IInv, TypeOK
<1>2. \A k \in Name \X Ext \X Rec : /\ wr'[k] # NoValue => wr'[k] = wr[k]
                                    /\ k \in synced => wr'[k] = wr[k]
  BY SettledFacts
<1>3. ASSUME NEW k \in Name \X Ext \X Rec, wr[k] # NoValue, k \notin synced, k[1] = n
      PROVE  Unrecorded(f) /\ k[2] = fcb[f].ext
  <2>1. PICK g \in Fcb : fcb[g].open /\ Unrecorded(g) /\ fcb[g].name = k[1] /\ fcb[g].ext = k[2]
    BY <1>3 DEF DataInv, Dirtied
  <2>2. g = f
    BY <1>3, <2>1 DEF IInv, Safe, FcbInv, OneFcb
  <2>3. QED
    BY <2>1, <2>2
<1>4. Current'
  <2>1. ASSUME NEW g \in Fcb, Placed(g)' PROVE UpToDate(g)'
    <3>1. fcb'[g] = fcb[g] /\ Placed(g)
      BY <2>1 DEF Placed
    <3>2. QED
      BY <1>2, <3>1, UpToDateSame DEF DataInv
  <2>2. QED
    BY <2>1 DEF Current
<1>5. CASE (wp \/ ~fcb[f].dirty) /\ dir' = dir /\ synced' = synced
  <2>1. Recorded'
    BY <1>1, <1>2, <1>5, RecordedSame DEF DataInv
  <2>2. Dirtied'
    <3> SUFFICES ASSUME NEW k \in Name \X Ext \X Rec, wr'[k] # NoValue, k \notin synced
                 PROVE  \E g \in Fcb : /\ fcb'[g].open /\ Unrecorded(g)'
                                       /\ fcb'[g].name = k[1] /\ fcb'[g].ext = k[2]
      BY <1>5 DEF Dirtied
    <3>1. PICK g \in Fcb : fcb[g].open /\ Unrecorded(g) /\ fcb[g].name = k[1] /\ fcb[g].ext = k[2]
      BY <1>2 DEF DataInv, Dirtied
    <3>2. fcb'[g] = fcb[g]
      <4>1. CASE wr' = Settled({n})
        <5>1. k[1] # n
          BY <4>1, SettledFacts
        <5>2. QED
          BY <3>1, <5>1
      <4>2. CASE fcb'[f] = fcb[f]
        BY <4>2
      <4>3. QED
        BY <1>5, <4>1, <4>2
    <3>3. QED
      BY <3>1, <3>2 DEF Unrecorded
  <2>3. (~wp /\ fcb[f].dirty) \/ wr' = Settled({n}) => AllRecorded(n)'
    BY <1>2, <1>5, SettledFacts DEF AllRecorded
  <2>4. QED
    BY <1>4, <2>1, <2>2, <2>3
<1>6. ASSUME NEW s \in Dir, ~wp, fcb[f].dirty, InGroup(s, fcb[f].name, fcb[f].ext),
             dir' = [dir EXCEPT ![s] = ClosedEntry(f, s, fcb[f].blk)],
             synced' = synced \cup
               {k \in Name \X Ext \X Rec : /\ k[1] = fcb[f].name /\ k[2] = fcb[f].ext
                                           /\ wr[k] # NoValue}
      PROVE  /\ Recorded' /\ Dirtied'
             /\ AllRecorded(n)'
  <2>1. Placed(f) /\ wr' = wr
    BY <1>6 DEF FileInv, Placement, Unrecorded
  <2>2. \A t \in Dir : t # s => dir'[t] = dir[t]
    BY <1>6, ClosedFields
  <2>3. ASSUME NEW k \in synced' PROVE wr[k] # NoValue /\ DirHolds(k, wr[k])'
    <3>1. k \in Name \X Ext \X Rec
      BY <1>1, <1>6, <2>3
    <3>2. wr[k] # NoValue
      BY <1>6, <2>3 DEF DataInv, Recorded
    <3>3. CASE k[1] = fcb[f].name /\ k[2] = fcb[f].ext
      <4>1. Held(s, k, wr[k])'
        BY <1>6, <2>1, <3>1, <3>2, <3>3, CloseHeld
      <4>2. QED
        BY <3>2, <4>1 DEF DirHolds, Held, InGroup, Live
    <3>4. CASE k \in synced
      <4>1. PICK t \in Dir : Held(t, k, wr[k])
        BY <3>4, HeldDir DEF DataInv, Recorded
      <4>2. Held(t, k, wr[k])'
        <5>1. CASE t = s
          BY <1>6, <2>1, <3>1, <3>2, <4>1, <5>1, CloseHeld
        <5>2. CASE t # s
          BY <2>1, <2>2, <4>1, <5>2 DEF Held, InGroup, Live
        <5>3. QED
          BY <5>1, <5>2
      <4>3. QED
        BY <3>2, <4>2 DEF DirHolds, Held, InGroup, Live
    <3>5. QED
      BY <1>6, <2>3, <3>3, <3>4
  <2>4. Recorded'
    BY <2>1, <2>3 DEF Recorded
  <2>5. Dirtied'
    <3> SUFFICES ASSUME NEW k \in Name \X Ext \X Rec, wr[k] # NoValue, k \notin synced'
                 PROVE  \E g \in Fcb : /\ fcb'[g].open /\ Unrecorded(g)'
                                       /\ fcb'[g].name = k[1] /\ fcb'[g].ext = k[2]
      BY <2>1 DEF Dirtied
    <3>1. k \notin synced
      BY <1>6
    <3>2. PICK g \in Fcb : fcb[g].open /\ Unrecorded(g) /\ fcb[g].name = k[1] /\ fcb[g].ext = k[2]
      BY <3>1 DEF DataInv, Dirtied
    <3>3. g # f
      BY <1>6, <3>2
    <3>4. QED
      BY <3>2, <3>3 DEF Unrecorded
  <2>6. AllRecorded(n)'
    BY <1>3, <1>6, <2>1 DEF AllRecorded
  <2>7. QED
    BY <2>4, <2>5, <2>6
<1>7. QED
  BY <1>4, <1>5, <1>6, CloseItPlaced

LEMMA CloseFileData ==
  ASSUME IInv, FileInv, DataInv, NEW f \in Fcb, CloseFile(f)
  PROVE  DataInv'
<1>1. /\ fcb' = fcb /\ io'.at # "open" /\ logged /\ CloseIt(f, fcb[f].blk)
      /\ fcb[f].open /\ data' = data /\ wr' = wr
  BY CloseFileFields DEF CloseFile
<1>2. PICK n : n = fcb[f].name
  OBVIOUS
<1>3. Recorded' /\ Dirtied' /\ Current'
  BY <1>1, <1>2, CloseData
<1>4. QED
  BY <1>1, <1>3 DEF DataInv, Closed

LEMMA CloseExtentData == ASSUME IInv, FileInv, DataInv, CloseExtent PROVE DataInv'
<1>1. PICK f \in Fcb : f = io.f
  BY DEF IInv, TypeOK, IoType
<1>2. /\ logged /\ fcb[f].open /\ CloseIt(f, fcb[f].blk)
      /\ \A g \in Fcb : g # f => fcb'[g] = fcb[g]
      /\ \/ /\ io'.at = "idle" /\ ~Placed(f)'
         \/ /\ fcb'[f] = fcb[f] /\ io'.at = "open" /\ io'.f = f
  BY <1>1, CloseExtentFields DEF Placed
<1>3. data' = data /\ wr' = IF wp \/ ~fcb[f].dirty THEN Settled({fcb[f].name}) ELSE wr
  BY <1>1, <1>2, CloseItPlaced DEF CloseExtent, CloseStatus
<1>4. PICK n : n = fcb[f].name
  OBVIOUS
<1>5. /\ Recorded' /\ Dirtied' /\ Current'
      /\ (~wp /\ fcb[f].dirty) \/ wr' = Settled({n}) => AllRecorded(n)'
  BY <1>2, <1>3, <1>4, CloseData
<1>6. AllRecorded(n)'
  BY <1>3, <1>4, <1>5
<1>7. Closed'
  BY <1>2, <1>4, <1>6 DEF Closed, AllRecorded
<1>8. QED
  BY <1>5, <1>7 DEF DataInv

\* A write to block b, which the FCB has in slot i or which was free, reaches
\* no record but the one it is for.
LEMMA PutApart ==
  ASSUME IInv, FileInv, io.at = "xfer", NEW f \in Fcb, f = io.f, NEW i \in SlotIdx,
         NEW b \in Block, NEW new \in BOOLEAN, i = Slot(fcb[f].ext, io.rec), b # 0,
         PutRecord(f, b, new),
         (~new /\ b = fcb[f].blk[i]) \/ (new /\ fcb[f].blk[i] = 0 /\ b \notin alloc)
  PROVE  /\ b \in Block \ DirBlock
         /\ data'[b][Offset(io.rec)] = io.v
         /\ \A c \in Block \ DirBlock : c # b => data'[c] = data[c]
         /\ ~new => \A o \in 0..RecsPerBlock-1 : o # Offset(io.rec) => data'[b][o] = data[b][o]
         /\ new => /\ \A s \in Dir : \A j \in SlotIdx : Live(s) => dir[s].blk[j] # b
                   /\ \A g \in Fcb : \A j \in SlotIdx : fcb[g].open => fcb[g].blk[j] # b
<1>1. fcb[f].open /\ logged
  BY TransferFacts
<1>2. b \notin DirBlock
  <2>1. CASE new
    BY <1>1, <2>1 DEF IInv, Safe, DiskInv, AllocSound
  <2>2. CASE ~new
    BY <1>1, <2>2 DEF IInv, Safe, FcbInv, FcbApart
  <2>3. QED
    BY <2>1, <2>2
<1>3. Offset(io.rec) \in 0..RecsPerBlock-1
  BY IoFields, SizeAssumption DEF IInv, Offset, Rec
<1>4. data' = [data EXCEPT ![b] = [o \in 0..RecsPerBlock-1 |->
                 IF o = Offset(io.rec) THEN io.v
                 ELSE IF new /\ io.op = "writeZero" THEN Zero ELSE data[b][o]]]
  BY DEF PutRecord
<1>5. data'[b] = [o \in 0..RecsPerBlock-1 |->
                    IF o = Offset(io.rec) THEN io.v
                    ELSE IF new /\ io.op = "writeZero" THEN Zero ELSE data[b][o]]
      /\ \A c \in Block \ DirBlock : c # b => data'[c] = data[c]
  BY <1>2, <1>4 DEF IInv, TypeOK
<1>6. data'[b][Offset(io.rec)] = io.v
  BY <1>3, <1>5
<1>7. ~new => \A o \in 0..RecsPerBlock-1 : o # Offset(io.rec) => data'[b][o] = data[b][o]
  BY <1>5
<1>8. new => /\ \A s \in Dir : \A j \in SlotIdx : Live(s) => dir[s].blk[j] # b
             /\ \A g \in Fcb : \A j \in SlotIdx : fcb[g].open => fcb[g].blk[j] # b
  BY <1>1 DEF IInv, Safe, DiskInv, AllocSound, Live
<1>9. QED
  BY <1>2, <1>5, <1>6, <1>7, <1>8

\* A record of another place of the extents of f is at another place of b.
LEMMA OtherPlace ==
  ASSUME NEW d \in Ext, NEW e \in Ext, NEW p \in Rec, NEW r \in Rec, SameEntry(d, e),
         Slot(d, p) = Slot(e, r), d # e \/ p # r
  PROVE  Offset(p) # Offset(r)
BY SlotInjective

\* Offsets within a block.
LEMMA OffsetType ==
  ASSUME NEW r \in Rec
  PROVE  Offset(r) \in 0..RecsPerBlock-1
BY SizeAssumption DEF Offset, Rec

\* A write keeps what the directory records: of the record itself, its new
\* value, since the entry has the block; of all others, the old one.
LEMMA PutRecorded ==
  ASSUME IInv, FileInv, DataInv, io.at = "xfer", NEW f \in Fcb, f = io.f, NEW i \in SlotIdx,
         NEW b \in Block, NEW new \in BOOLEAN, i = Slot(fcb[f].ext, io.rec), b # 0,
         PutRecord(f, b, new),
         (~new /\ b = fcb[f].blk[i]) \/ (new /\ fcb[f].blk[i] = 0 /\ b \notin alloc)
  PROVE  Recorded'
<1>1. /\ dir' = dir /\ synced' = synced
      /\ wr' = [wr EXCEPT ![<<fcb[f].name, fcb[f].ext, io.rec>>] = io.v]
  BY DEF PutRecord
<1>2. /\ fcb[f].name \in Name /\ fcb[f].ext \in Ext /\ io.rec \in Rec /\ io.v \in Value
      /\ fcb[f].open
  BY IoFields, TransferFacts DEF IInv, TypeOK, FcbType
<1>3. Placed(f) /\ AtHome(f)
  BY XferPlaced
<1>4. /\ b \in Block \ DirBlock /\ data'[b][Offset(io.rec)] = io.v
      /\ \A c \in Block \ DirBlock : c # b => data'[c] = data[c]
      /\ ~new => \A o \in 0..RecsPerBlock-1 : o # Offset(io.rec) => data'[b][o] = data[b][o]
      /\ new => \A s \in Dir : \A j \in SlotIdx : Live(s) => dir[s].blk[j] # b
  BY PutApart
<1> SUFFICES ASSUME NEW k \in synced PROVE wr'[k] # NoValue /\ DirHolds(k, wr[k])'
  BY <1>1 DEF Recorded
<1>5. k \in Name \X Ext \X Rec /\ wr[k] # NoValue
  BY DEF IInv, TypeOK, DataInv, Recorded
<1>6. PICK s \in Dir : Held(s, k, wr[k])
  BY HeldDir DEF DataInv, Recorded
<1> DEFINE c == dir[s].blk[Slot(k[2], k[3])]
<1>7. /\ InGroup(s, k[1], k[2]) /\ c # 0 /\ data[c][Offset(k[3])] = wr[k]
      /\ k[2] < dir[s].ext \/ (k[2] = dir[s].ext /\ k[3] < dir[s].rc)
  BY <1>6 DEF Held
<1>8. Slot(k[2], k[3]) \in SlotIdx /\ Offset(k[3]) \in 0..RecsPerBlock-1
  BY <1>5, SlotType, OffsetType
<1>9. c \in Block \ DirBlock
  BY <1>7, <1>8 DEF InGroup, Live, IInv, TypeOK, EntryType, Safe, DiskInv, NoCrossLink
<1>10. CASE k = <<fcb[f].name, fcb[f].ext, io.rec>>
  <2>1. wr'[k] = io.v
    BY <1>1, <1>5, <1>10 DEF IInv, TypeOK
  <2>2. fcb[f].blk[i] = c
    BY <1>3, <1>7, <1>8, <1>10 DEF AtHome
  <2>3. c = b
    BY <1>7, <2>2
  <2>4. data'[c][Offset(k[3])] = wr'[k]
    BY <1>4, <1>10, <2>1, <2>3
  <2>5. QED
    BY <1>1, <1>2, <1>7, <2>1, <2>4, ValueAssumption DEF DirHolds, InGroup, Live
<1>11. CASE k # <<fcb[f].name, fcb[f].ext, io.rec>>
  <2>1. wr'[k] = wr[k]
    BY <1>1, <1>5, <1>11 DEF IInv, TypeOK
  <2>2. data'[c][Offset(k[3])] = data[c][Offset(k[3])]
    <3>1. CASE c # b
      BY <1>4, <1>9, <3>1
    <3>2. CASE c = b
      <4>1. ~new /\ b = fcb[f].blk[i]
        BY <1>4, <1>7, <1>8, <3>2 DEF InGroup
      <4>2. Slot(k[2], k[3]) = i /\ dir[s].name = fcb[f].name /\ SameEntry(dir[s].ext, fcb[f].ext)
        BY <1>2, <1>3, <1>7, <1>8, <3>2, <4>1 DEF IInv, Safe, FcbInv, FcbDir, InGroup, Placed
      <4>3. k[1] = fcb[f].name /\ SameEntry(k[2], fcb[f].ext)
        BY <1>7, <4>2 DEF InGroup, SameEntry
      <4>4. k[2] # fcb[f].ext \/ k[3] # io.rec
        BY <1>5, <1>11, <4>3
      <4>5. Offset(k[3]) # Offset(io.rec)
        BY <1>2, <1>5, <4>2, <4>3, <4>4, OtherPlace
      <4>6. QED
        BY <1>4, <1>8, <3>2, <4>1, <4>5
    <3>3. QED
      BY <3>1, <3>2
  <2>3. QED
    BY <1>1, <1>5, <1>7, <2>1, <2>2 DEF DirHolds, InGroup, Live
<1>12. QED
  BY <1>10, <1>11

\* And it keeps every FCB up to date, the one that is written to included.
LEMMA PutCurrent ==
  ASSUME IInv, FileInv, DataInv, io.at = "xfer", NEW f \in Fcb, f = io.f, NEW i \in SlotIdx,
         NEW b \in Block, NEW new \in BOOLEAN, i = Slot(fcb[f].ext, io.rec), b # 0,
         PutRecord(f, b, new),
         (~new /\ b = fcb[f].blk[i]) \/ (new /\ fcb[f].blk[i] = 0 /\ b \notin alloc)
  PROVE  Current'
<1>1. fcb' = [fcb EXCEPT ![f] = Written(f, i, b)]
      /\ wr' = [wr EXCEPT ![<<fcb[f].name, fcb[f].ext, io.rec>>] = io.v]
  BY DEF PutRecord
<1>2. /\ fcb[f].name \in Name /\ fcb[f].ext \in Ext /\ io.rec \in Rec /\ io.v \in Value
      /\ fcb[f].open
  BY IoFields, TransferFacts DEF IInv, TypeOK, FcbType
<1>3. Placed(f)
  BY XferPlaced
<1>4. /\ b \in Block \ DirBlock /\ data'[b][Offset(io.rec)] = io.v
      /\ \A c \in Block \ DirBlock : c # b => data'[c] = data[c]
      /\ ~new => \A o \in 0..RecsPerBlock-1 : o # Offset(io.rec) => data'[b][o] = data[b][o]
      /\ new => \A g \in Fcb : \A j \in SlotIdx : fcb[g].open => fcb[g].blk[j] # b
  BY PutApart
<1>5. /\ \A g \in Fcb : g # f => fcb'[g] = fcb[g]
      /\ fcb'[f].open = fcb[f].open /\ fcb'[f].name = fcb[f].name /\ fcb'[f].ext = fcb[f].ext
      /\ fcb'[f].bad = fcb[f].bad /\ fcb'[f].eof = fcb[f].eof
      /\ fcb'[f].blk[i] = b /\ \A j \in SlotIdx : j # i => fcb'[f].blk[j] = fcb[f].blk[j]
  <2>1. PutFields(f, i, b)
    BY <1>1, WrittenFields
  <2>2. QED
    BY <2>1 DEF PutFields
<1>6. fcb[f].rc \in Nat /\ fcb'[f].rc \in Nat /\ fcb[f].rc <= fcb'[f].rc /\ io.rec < fcb'[f].rc
  BY <1>1, WrittenCount
<1>7. \A k \in Name \X Ext \X Rec :
        wr'[k] = IF k = <<fcb[f].name, fcb[f].ext, io.rec>> THEN io.v ELSE wr[k]
  BY <1>1 DEF IInv, TypeOK
<1>8. ASSUME NEW g \in Fcb, fcb[g].open, NEW j \in SlotIdx, fcb[g].blk[j] # 0,
             g # f \/ j # i
      PROVE  fcb[g].blk[j] \in Block \ DirBlock /\ fcb[g].blk[j] # b
  <2>1. fcb[g].blk[j] \in Block \ DirBlock
    BY <1>8 DEF IInv, TypeOK, FcbType, Safe, FcbInv, FcbApart
  <2>2. CASE new
    BY <1>4, <1>8, <2>1, <2>2
  <2>3. CASE ~new
    BY <1>2, <1>8, <2>1, <2>3 DEF IInv, Safe, FcbInv, FcbApart
  <2>4. QED
    BY <2>2, <2>3
<1>9. ASSUME NEW g \in Fcb, g # f, Placed(g)' PROVE UpToDate(g)'
  <2>1. fcb'[g] = fcb[g] /\ Placed(g) /\ fcb[g].open
    BY <1>5, <1>9 DEF Placed
  <2>2. fcb[g].name # fcb[f].name
    BY <1>2, <1>9, <2>1 DEF IInv, Safe, FcbInv, OneFcb
  <2> SUFFICES ASSUME NEW k \in Name \X Ext \X Rec, fcb[g].name = k[1], fcb[g].ext = k[2],
                      wr'[k] # NoValue
               PROVE  FcbHolds(g, k, wr[k])'
    BY <2>1 DEF UpToDate
  <2>3. wr'[k] = wr[k]
    BY <1>7, <2>2
  <2>4. FcbHolds(g, k, wr[k])
    BY <2>1, <2>3 DEF DataInv, Current, UpToDate
  <2> DEFINE c == fcb[g].blk[Slot(k[2], k[3])]
  <2>5. c # 0 /\ Slot(k[2], k[3]) \in SlotIdx
    BY <2>4, SlotType DEF FcbHolds
  <2>6. c \in Block \ DirBlock /\ c # b
    BY <1>8, <1>9, <2>1, <2>5
  <2>7. data'[c] = data[c]
    BY <1>4, <2>6
  <2>8. QED
    BY <2>1, <2>3, <2>4, <2>7 DEF FcbHolds
<1>10. UpToDate(f)'
  <2> SUFFICES ASSUME NEW k \in Name \X Ext \X Rec, fcb[f].name = k[1], fcb[f].ext = k[2],
                      wr'[k] # NoValue
               PROVE  FcbHolds(f, k, wr[k])'
    BY <1>5 DEF UpToDate
  <2> DEFINE j == Slot(k[2], k[3])
             c == fcb[f].blk[j]
  <2>1. j \in SlotIdx /\ Offset(k[3]) \in 0..RecsPerBlock-1
    BY SlotType, OffsetType
  <2>2. CASE k[3] = io.rec
    <3>1. k = <<fcb[f].name, fcb[f].ext, io.rec>> /\ j = i
      BY <2>2
    <3>2. wr'[k] = io.v
      BY <1>7, <3>1
    <3>3. QED
      BY <1>4, <1>5, <1>6, <2>2, <3>1, <3>2 DEF FcbHolds
  <2>3. CASE k[3] # io.rec
    <3>1. wr'[k] = wr[k]
      BY <1>7, <2>3
    <3>2. FcbHolds(f, k, wr[k])
      BY <1>3, <3>1 DEF DataInv, Current, UpToDate
    <3>3. c # 0 /\ k[3] < fcb[f].rc /\ data[c][Offset(k[3])] = wr[k]
      BY <3>2 DEF FcbHolds
    <3>4. fcb'[f].blk[j] = c /\ data'[c][Offset(k[3])] = data[c][Offset(k[3])]
      <4>1. CASE j = i
        <5>1. ~new /\ b = c
          BY <3>3, <4>1
        <5>2. Offset(k[3]) # Offset(io.rec)
          BY <1>2, <2>3, <4>1, OtherPlace DEF SameEntry
        <5>3. QED
          BY <1>4, <1>5, <2>1, <4>1, <5>1, <5>2
      <4>2. CASE j # i
        <5>1. c \in Block \ DirBlock /\ c # b
          BY <1>2, <1>8, <2>1, <3>3, <4>2
        <5>2. QED
          BY <1>4, <1>5, <2>1, <4>2, <5>1
      <4>3. QED
        BY <4>1, <4>2
    <3>5. k[3] < fcb'[f].rc
      <4>1. k[3] \in Nat
        BY DEF Rec
      <4>2. QED
        BY <1>6, <3>3, <4>1
    <3>6. QED
      BY <1>5, <3>1, <3>3, <3>4, <3>5 DEF FcbHolds
  <2>4. QED
    BY <2>2, <2>3
<1>11. QED
  BY <1>9, <1>10 DEF Current

LEMMA PutRecordData ==
  ASSUME IInv, FileInv, DataInv, io.at = "xfer", NEW f \in Fcb, f = io.f, NEW i \in SlotIdx,
         NEW b \in Block, NEW new \in BOOLEAN, i = Slot(fcb[f].ext, io.rec), b # 0,
         PutRecord(f, b, new),
         (~new /\ b = fcb[f].blk[i]) \/ (new /\ fcb[f].blk[i] = 0 /\ b \notin alloc)
  PROVE  DataInv'
<1>1. /\ fcb' = [fcb EXCEPT ![f] = Written(f, i, b)] /\ synced' = synced
      /\ wr' = [wr EXCEPT ![<<fcb[f].name, fcb[f].ext, io.rec>>] = io.v]
  BY DEF PutRecord
<1>2. PutFields(f, i, b)
  BY <1>1, WrittenFields
<1>3. /\ \A g \in Fcb : g # f => fcb'[g] = fcb[g]
      /\ fcb'[f].open /\ fcb'[f].name = fcb[f].name /\ fcb'[f].ext = fcb[f].ext
  BY <1>2, TransferFacts DEF PutFields
<1>4. Unrecorded(f)'
  <2>1. fcb'[f].dirty = TRUE
    BY <1>1, WrittenCount
  <2>2. QED
    BY <2>1 DEF Unrecorded
<1>5. Dirtied'
  <2> SUFFICES ASSUME NEW k \in Name \X Ext \X Rec, wr'[k] # NoValue, k \notin synced
               PROVE  \E g \in Fcb : /\ fcb'[g].open /\ Unrecorded(g)'
                                     /\ fcb'[g].name = k[1] /\ fcb'[g].ext = k[2]
    BY <1>1 DEF Dirtied
  <2>1. CASE k = <<fcb[f].name, fcb[f].ext, io.rec>>
    BY <1>3, <1>4, <2>1
  <2>2. CASE k # <<fcb[f].name, fcb[f].ext, io.rec>>
    <3>1. wr'[k] = wr[k]
      BY <1>1, <2>2 DEF IInv, TypeOK
    <3>2. PICK g \in Fcb : fcb[g].open /\ Unrecorded(g) /\ fcb[g].name = k[1] /\ fcb[g].ext = k[2]
      BY <3>1 DEF DataInv, Dirtied
    <3>3. CASE g = f
      BY <1>3, <1>4, <3>2, <3>3
    <3>4. CASE g # f
      BY <1>3, <3>2, <3>4 DEF Unrecorded
    <3>5. QED
      BY <3>3, <3>4
  <2>3. QED
    BY <2>1, <2>2
<1>6. io'.at # "open"
  BY DEF PutRecord, IInv, TypeOK, IoType, NoIo
<1>7. QED
  BY <1>5, <1>6, PutRecorded, PutCurrent DEF DataInv, Closed

LEMMA WriteRecordData == ASSUME IInv, FileInv, DataInv, WriteRecord PROVE DataInv'
<1>1. PICK f \in Fcb : f = io.f
  BY DEF IInv, TypeOK, IoType
<1>2. io.at = "xfer"
  BY DEF WriteRecord
<1>3. CASE io'.at = "idle" /\ UNCHANGED <<disk, ram, fcb, scan, hist>>
  BY <1>3, RequestData DEF disk, hist, Unrecorded
<1>4. QED
  BY <1>1, <1>2, <1>3, WriteCases, RestartData, PutRecordData
-----------------------------------------------------------------------------
(* A walk moves and forgets records together with the entries they are in.  *)

\* The walk is at one entry of a file that it has to change; no call is under way.
LEMMA WalkPlace ==
  ASSUME IInv, scan.at \in {"erase", "rename"}, NEW s, s = scan.pos, NEW n, n = dir[s].name
  PROVE  /\ s \in Dir /\ Live(s) /\ n \in Name /\ dir[s].ext \in Ext /\ io.at = "idle"
         /\ \A f \in Fcb : fcb[f].open => fcb[f].name # n
         /\ \A t \in Dir : \A k2 : InGroup(t, n, k2) /\ SameEntry(dir[s].ext, k2) => t = s
         /\ scan.at = "rename" =>
              /\ scan.to \in Name /\ scan.to # n
              /\ \A f \in Fcb : fcb[f].open => fcb[f].name # scan.to
              /\ \A t \in Dir : ~InGroup(t, scan.to, dir[s].ext)
<1>1. s \in Dir /\ Live(s) /\ n \in scan.pat /\ NotOpen(scan.pat) /\ io.at = "idle"
  BY DEF IInv, TypeOK, ScanType, Safe, Control, WalkState
<1>2. n \in Name /\ dir[s].ext \in Ext
  BY <1>1 DEF IInv, TypeOK, EntryType
<1>3. \A f \in Fcb : fcb[f].open => fcb[f].name # n
  BY <1>1 DEF NotOpen
<1>4. \A t \in Dir : \A k2 : InGroup(t, n, k2) /\ SameEntry(dir[s].ext, k2) => t = s
  BY <1>1 DEF IInv, Safe, DiskInv, OneEntry, InGroup, Live, SameEntry
<1>5. ASSUME scan.at = "rename"
      PROVE  /\ scan.to \in Name /\ scan.to # n
             /\ \A f \in Fcb : fcb[f].open => fcb[f].name # scan.to
             /\ \A t \in Dir : ~InGroup(t, scan.to, dir[s].ext)
  BY <1>1, <1>5 DEF IInv, TypeOK, ScanType, Safe, WalkState, NotOpen
<1>6. QED
  BY <1>1, <1>2, <1>3, <1>4, <1>5

LEMMA EraseData == ASSUME IInv, DataInv, EraseEntry, ~Restart PROVE DataInv'
<1>1. PICK s : s = scan.pos
  OBVIOUS
<1>2. PICK n : n = dir[s].name
  OBVIOUS
<1>3. /\ scan.at = "erase" /\ dir' = [dir EXCEPT ![s] = Erased] /\ data' = data
      /\ wr' = [k \in Name \X Ext \X Rec |-> IF k \in Covered(n) THEN NoValue ELSE wr[k]]
      /\ synced' = synced \ Covered(n) /\ fcb' = fcb /\ io' = io
  BY <1>1, <1>2 DEF EraseEntry
<1>4. /\ s \in Dir /\ n \in Name /\ io.at = "idle"
      /\ \A t \in Dir : \A k2 : InGroup(t, n, k2) /\ SameEntry(dir[s].ext, k2) => t = s
  BY <1>1, <1>2, <1>3, WalkPlace
<1>5. \A t \in Dir : t # s => dir'[t] = dir[t]
  BY <1>3, <1>4 DEF IInv, TypeOK
<1>6. synced \subseteq Name \X Ext \X Rec
  BY DEF IInv, TypeOK
<1>7. Recorded'
  <2>1. ASSUME NEW k \in synced'
        PROVE  /\ k \in synced /\ wr'[k] = wr[k]
               /\ \A t \in Dir : InGroup(t, k[1], k[2]) => t # s
    <3>1. k \in synced /\ k \notin Covered(n) /\ k \in Name \X Ext \X Rec
      BY <1>3, <1>6, <2>1
    <3>2. ~(k[1] = n /\ SameEntry(dir[s].ext, k[2]))
      BY <1>1, <3>1 DEF Covered
    <3>3. \A t \in Dir : InGroup(t, k[1], k[2]) => t # s
      BY <1>2, <3>2 DEF InGroup
    <3>4. QED
      BY <1>3, <3>1, <3>3
  <2>2. QED
    BY <1>3, <1>5, <2>1, RecordedSame DEF DataInv
<1>8. \A k \in Name \X Ext \X Rec :
        wr'[k] # NoValue => wr'[k] = wr[k] /\ (k \in synced => k \in synced')
  BY <1>3
<1>9. Dirtied'
  BY <1>3, <1>8 DEF DataInv, Dirtied, Unrecorded
<1>10. ASSUME NEW f \in Fcb, Placed(f)' PROVE UpToDate(f)'
  <2>1. Placed(f)
    BY <1>3, <1>10 DEF Placed
  <2>2. QED
    BY <1>3, <1>8, <2>1, UpToDateSame DEF DataInv
<1>11. QED
  BY <1>3, <1>4, <1>7, <1>9, <1>10 DEF DataInv, Current, Closed

LEMMA RenameData == ASSUME IInv, DataInv, RenameEntry, ~Restart PROVE DataInv'
<1>1. PICK s : s = scan.pos
  OBVIOUS
<1>2. PICK n, to : n = dir[s].name /\ to = scan.to
  OBVIOUS
<1> DEFINE Old(k) == <<n, k[2], k[3]>>
<1>3. /\ scan.at = "rename" /\ dir' = [dir EXCEPT ![s].name = to] /\ data' = data
      /\ wr' = [k \in Name \X Ext \X Rec |->
                  IF k \in Covered(to) THEN wr[Old(k)]
                  ELSE IF k \in Covered(n) THEN NoValue ELSE wr[k]]
      /\ synced' = (synced \ Covered(n)) \cup {k \in Covered(to) : Old(k) \in synced}
      /\ fcb' = fcb /\ io' = io
  BY <1>1, <1>2 DEF RenameEntry, ram
<1>4. /\ s \in Dir /\ n \in Name /\ to \in Name /\ to # n /\ io.at = "idle" /\ dir[s].ext \in Ext
      /\ \A f \in Fcb : fcb[f].open => fcb[f].name # n /\ fcb[f].name # to
      /\ \A t \in Dir : \A k2 : InGroup(t, n, k2) /\ SameEntry(dir[s].ext, k2) => t = s
      /\ \A t \in Dir : ~InGroup(t, to, dir[s].ext)
  BY <1>1, <1>2, <1>3, WalkPlace
<1>5. /\ \A t \in Dir : t # s => dir'[t] = dir[t]
      /\ dir'[s].live = dir[s].live /\ dir'[s].name = to /\ dir'[s].ext = dir[s].ext
      /\ dir'[s].rc = dir[s].rc /\ dir'[s].blk = dir[s].blk
  BY <1>3, <1>4 DEF IInv, TypeOK, EntryType
<1>6. synced \subseteq Name \X Ext \X Rec
  BY DEF IInv, TypeOK
<1>7. \A k \in Name \X Ext \X Rec : \A m :
        k \in Covered(m) <=> k[1] = m /\ SameEntry(dir[s].ext, k[2])
  BY <1>1 DEF Covered
<1>8. ASSUME NEW k \in Name \X Ext \X Rec, k \in Covered(to)
      PROVE  /\ wr'[k] = wr[Old(k)] /\ Old(k) \in Name \X Ext \X Rec
             /\ k \in synced' <=> Old(k) \in synced
  <2>1. k[1] = to /\ SameEntry(dir[s].ext, k[2])
    BY <1>7, <1>8
  <2>2. k \notin synced
    <3> SUFFICES ASSUME k \in synced PROVE FALSE
      OBVIOUS
    <3>1. PICK t \in Dir : Held(t, k, wr[k])
      BY HeldDir DEF DataInv, Recorded
    <3>2. InGroup(t, to, dir[s].ext)
      BY <2>1, <3>1 DEF Held, InGroup, SameEntry
    <3>3. QED
      BY <1>4, <3>2
  <2>3. QED
    BY <1>3, <1>4, <1>8, <2>2
<1>9. ASSUME NEW k \in Name \X Ext \X Rec, k \notin Covered(to), wr'[k] # NoValue \/ k \in synced'
      PROVE  /\ wr'[k] = wr[k] /\ k \notin Covered(n)
             /\ k \in synced' <=> k \in synced
  BY <1>3, <1>9
<1>10. Recorded'
  <2> SUFFICES ASSUME NEW k \in synced' PROVE wr'[k] # NoValue /\ DirHolds(k, wr[k])'
    BY DEF Recorded
  <2>1. k \in Name \X Ext \X Rec
    BY <1>3, <1>6 DEF Covered
  <2>2. CASE k \in Covered(to)
    <3>1. wr'[k] = wr[Old(k)] /\ Old(k) \in synced /\ k[1] = to /\ SameEntry(dir[s].ext, k[2])
      BY <1>7, <1>8, <2>1, <2>2
    <3>2. wr[Old(k)] # NoValue /\ DirHolds(Old(k), wr[Old(k)])
      BY <3>1 DEF DataInv, Recorded
    <3>3. PICK t \in Dir : Held(t, Old(k), wr[Old(k)])
      BY <3>2, HeldDir
    <3>4. InGroup(t, n, k[2])
      BY <3>3 DEF Held
    <3>5. t = s
      BY <1>4, <3>1, <3>4
    <3>6. Held(s, k, wr[k])'
      BY <1>3, <1>5, <3>1, <3>3, <3>5 DEF Held, InGroup, Live
    <3>7. QED
      BY <1>4, <3>1, <3>2, <3>6 DEF DirHolds, Held, InGroup, Live
  <2>3. CASE k \notin Covered(to)
    <3>1. wr'[k] = wr[k] /\ k \in synced /\ k \notin Covered(n)
      BY <1>9, <2>1, <2>3
    <3>2. wr[k] # NoValue /\ DirHolds(k, wr[k])
      BY <3>1 DEF DataInv, Recorded
    <3>3. PICK t \in Dir : Held(t, k, wr[k])
      BY <3>2, HeldDir
    <3>4. t # s
      BY <1>2, <1>7, <2>1, <3>1, <3>3 DEF Held, InGroup
    <3>5. Held(t, k, wr[k])'
      BY <1>3, <1>5, <3>1, <3>3, <3>4 DEF Held, InGroup, Live
    <3>6. QED
      BY <3>1, <3>2, <3>5 DEF DirHolds, Held, InGroup, Live
  <2>4. QED
    BY <2>2, <2>3
<1>11. Dirtied'
  <2> SUFFICES ASSUME NEW k \in Name \X Ext \X Rec, wr'[k] # NoValue, k \notin synced'
               PROVE  \E g \in Fcb : /\ fcb[g].open /\ Unrecorded(g)
                                     /\ fcb[g].name = k[1] /\ fcb[g].ext = k[2]
    BY <1>3 DEF Dirtied, Unrecorded
  <2>1. CASE k \in Covered(to)
    <3>1. wr[Old(k)] # NoValue /\ Old(k) \notin synced /\ Old(k) \in Name \X Ext \X Rec
      BY <1>8, <2>1
    <3>2. PICK g \in Fcb : fcb[g].open /\ fcb[g].name = n
      BY <3>1 DEF DataInv, Dirtied
    <3>3. QED
      BY <1>4, <3>2
  <2>2. CASE k \notin Covered(to)
    BY <1>9, <2>2 DEF DataInv, Dirtied
  <2>3. QED
    BY <2>1, <2>2
<1>12. ASSUME NEW f \in Fcb, Placed(f)' PROVE UpToDate(f)'
  <2>1. Placed(f) /\ fcb[f].open
    BY <1>3, <1>12 DEF Placed
  <2>2. \A k \in Name \X Ext \X Rec : k[1] = fcb[f].name /\ wr'[k] # NoValue => wr'[k] = wr[k]
    BY <1>4, <1>7, <1>9, <2>1
  <2>3. QED
    BY <1>3, <2>1, <2>2, UpToDateSame DEF DataInv
<1>13. QED
  BY <1>3, <1>4, <1>10, <1>11, <1>12 DEF DataInv, Current, Closed

LEMMA AttrData == ASSUME IInv, DataInv, AttrEntry PROVE DataInv'
<1>1. dir' = [dir EXCEPT ![scan.pos].ro = scan.ro] /\ UNCHANGED <<data, ram, fcb, io, hist>>
  BY DEF AttrEntry
<1>2. \A t \in Dir : /\ dir'[t].live = dir[t].live /\ dir'[t].name = dir[t].name
                     /\ dir'[t].ext = dir[t].ext /\ dir'[t].rc = dir[t].rc
                     /\ dir'[t].blk = dir[t].blk
  BY <1>1 DEF IInv, TypeOK, EntryType
<1>3. data' = data /\ fcb' = fcb /\ io' = io /\ wr' = wr /\ synced' = synced
  BY <1>1 DEF hist
<1>4. Recorded'
  BY <1>2, <1>3, RecordedSame DEF DataInv
<1>5. \A f \in Fcb : Placed(f)' => UpToDate(f)'
  BY <1>3, UpToDateSame DEF DataInv, Placed
<1>6. QED
  BY <1>3, <1>4, <1>5 DEF DataInv, Dirtied, Current, Closed, AllRecorded, Unrecorded

LEMMA WalkData == ASSUME IInv, DataInv, Walk PROVE DataInv'
BY RestartData, EraseData, RenameData, AttrData DEF Walk

LEMMA DataStep == ASSUME IInv, FileInv, DataInv, [Next]_vars PROVE DataInv'
<1>1. ASSUME NEW f \in Fcb, FcbCall(f) PROVE DataInv'
  <2>1. ASSUME NEW e \in Ext, NEW r \in Rec, NEW v,
               Position(f, "readRan", e, r, v) \/ Position(f, "writeRan", e, r, v)
               \/ Position(f, "writeZero", e, r, v)
        PROVE  DataInv'
    BY <2>1, PositionData
  <2>2. QED
    BY <1>1, <2>1, MakeData, OpenData, CloseFileData, ForgetData, OverflowData, ReadSeqData, WriteSeqData
       DEF FcbCall, ReadRan, WriteRan, WriteZero
<1>2. CASE Transfer
  BY <1>2, CloseExtentData, OpenExtentData, AddExtentData, NoExtentData, ReadRecordData,
     WriteRecordData DEF Transfer
<1>3. QED
  BY <1>1, <1>2, RestartData, LoginData, DirCallData, WalkData DEF Next

(* Every record written is on the disk or in an FCB that has still to record *)
(* it or that error 6 has marked as not modified; what such an FCB leaves    *)
(* behind is no longer counted as written.                                   *)
THEOREM DataCorrect == ASSUME ~StaleSeek PROVE Spec => [](IInv /\ FileInv /\ DataInv)
<1>1. IInv /\ FileInv /\ DataInv /\ [Next]_vars => DataInv'
  BY DataStep
<1>2. Spec => []DataInv
  BY <1>1, InitData, FileCorrect, PTL DEF Spec
<1>3. QED
  BY <1>2, FileCorrect, PTL

\* A record that a close has put into the directory is on the disk, whatever
\* happens to memory afterwards: the directory leads to the block that has it.
\* A close after error 6 puts nothing there, and counts for nothing here.
THEOREM DurableCorrect == ASSUME ~StaleSeek PROVE Spec => []Durable
<1>1. DataInv => Durable
  BY DEF DataInv, Recorded, Durable
<1>2. QED
  BY <1>1, DataCorrect, PTL

\* A record that is not on the disk yet is in a file that is still open, on the
\* extent that the FCB has, and CLOSE will record it unless error 6 has marked
\* the FCB as not modified since: no other error lets go of it.
THEOREM PendingCorrect == ASSUME ~StaleSeek PROVE Spec => []Pending
<1>1. ASSUME FileInv, DataInv PROVE Pending
  <2> SUFFICES ASSUME NEW k \in Name \X Ext \X Rec, wr[k] # NoValue, k \notin synced
               PROVE  \E f \in Fcb : fcb[f].open /\ Unrecorded(f) /\ FcbHolds(f, k, wr[k])
    BY DEF Pending
  <2>1. PICK f \in Fcb : fcb[f].open /\ Unrecorded(f) /\ fcb[f].name = k[1] /\ fcb[f].ext = k[2]
    BY <1>1 DEF DataInv, Dirtied
  <2>2. Placed(f)
    BY <1>1, <2>1 DEF FileInv, Placement
  <2>3. FcbHolds(f, k, wr[k])
    BY <1>1, <2>1, <2>2 DEF DataInv, Current, UpToDate
  <2>4. QED
    BY <2>1, <2>3
<1>2. QED
  BY <1>1, DataCorrect, PTL

\* A program that reads a record of an extent it has open gets what was last
\* written to it and has not been left behind after error 6.
THEOREM ReadBackCorrect == ASSUME ~StaleSeek PROVE Spec => []ReadBack
<1>1. ASSUME IInv, DataInv PROVE ReadBack
  <2> SUFFICES ASSUME NEW f \in Fcb, NEW r \in Rec, NEW k, k = <<fcb[f].name, fcb[f].ext, r>>,
                      Placed(f), wr[k] # NoValue
               PROVE  FcbHolds(f, k, wr[k])
    BY DEF ReadBack, Placed
  <2>1. k \in Name \X Ext \X Rec /\ k[1] = fcb[f].name /\ k[2] = fcb[f].ext
    <3>1. fcb[f].name \in Name /\ fcb[f].ext \in Ext
      BY <1>1 DEF IInv, TypeOK, FcbType
    <3>2. QED
      BY <3>1
  <2>2. QED
    BY <1>1, <2>1 DEF DataInv, Current, UpToDate
<1>2. QED
  BY <1>1, DataCorrect, PTL

\* The one step from the close of an extent to the open of the next.
LEMMA CloseOnly ==
  ASSUME IInv, [Next]_vars, io.at = "close", io'.at = "open"
  PROVE  CloseExtent
<1>1. ~Idle /\ io' # io
  BY IdleFacts
<1>2. Next /\ ~Restart
  BY <1>1 DEF vars, Restart, NoIo
<1>3. ~(LoginDrv \/ ResetDisk \/ WriteProtect \/ DirCall)
  BY <1>1, <1>2 DEF LoginDrv, ResetDisk, WriteProtect, DirCall, Delete, Rename, SetAttr
<1>4. ASSUME NEW f \in Fcb, FcbCall(f) PROVE FALSE
  BY <1>1, <1>2, <1>4 DEF FcbCall, Make, Open, CloseFile, Forget, Overflow, ReadSeq, WriteSeq,
                          Usable, ReadRan, WriteRan, WriteZero, Position
<1>5. ~Walk
  BY <1>1, <1>2 DEF Walk, EraseEntry, RenameEntry, AttrEntry
<1>6. Transfer => CloseExtent
  BY DEF Transfer, OpenExtent, AddExtent, NoExtent, ReadRecord, WriteRecord
<1>7. QED
  BY <1>2, <1>3, <1>4, <1>5, <1>6 DEF Next

\* A file that goes on to another extent loses nothing of what was written to the
\* one before, on a disk that is not protected and if error 6 has not marked the
\* FCB as not modified: GETNEXT and POSITION have always recorded it.
THEOREM ExtentKeptCorrect == ASSUME ~StaleSeek PROVE Spec => ExtentKept
<1>1. ASSUME IInv, FileInv, DataInv, [Next]_vars, io.at = "close", io'.at = "open", ~wp,
             ~fcb[io.f].over
      PROVE  wr' = wr
  <2>1. CloseExtent
    BY <1>1, CloseOnly
  <2>2. PICK f \in Fcb : f = io.f
    BY <1>1 DEF IInv, TypeOK, IoType
  <2>3. fcb[f].open /\ CloseStatus(f) \in {"unmodified", "closed"}
    <3>1. fcb[f].open /\ logged /\ CloseIt(f, fcb[f].blk)
      BY <1>1, <2>1, <2>2, CloseExtentFields
    <3>2. QED
      BY <1>1, <3>1, CloseItPlaced
  <2>4. CASE fcb[f].dirty
    <3>1. CloseStatus(f) # "unmodified"
      BY <1>1, <2>4 DEF CloseStatus
    <3>2. QED
      BY <2>1, <2>2, <3>1 DEF CloseExtent
  <2>5. CASE ~fcb[f].dirty
    <3>1. wr' = Settled({fcb[f].name}) \/ wr' = wr
      BY <2>1, <2>2 DEF CloseExtent
    <3>2. ASSUME NEW k \in Name \X Ext \X Rec, k[1] = fcb[f].name, k \notin synced
          PROVE  wr[k] = NoValue
      <4> SUFFICES ASSUME wr[k] # NoValue PROVE FALSE
        OBVIOUS
      <4>1. PICK g \in Fcb : fcb[g].open /\ Unrecorded(g) /\ fcb[g].name = k[1]
        BY <1>1, <3>2 DEF DataInv, Dirtied
      <4>2. g = f
        BY <1>1, <2>3, <3>2, <4>1 DEF IInv, Safe, FcbInv, OneFcb
      <4>3. QED
        BY <1>1, <2>2, <2>5, <4>1, <4>2 DEF Unrecorded
    <3>3. Settled({fcb[f].name}) = [k \in Name \X Ext \X Rec |-> wr[k]]
      BY <3>2 DEF Settled
    <3>4. QED
      BY <1>1, <3>1, <3>3 DEF IInv, TypeOK
  <2>6. QED
    BY <2>4, <2>5
<1>2. QED
  BY <1>1, DataCorrect, PTL DEF Spec, ExtentKept
=============================================================================
