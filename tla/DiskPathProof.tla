--------------------------- MODULE DiskPathProof ---------------------------
(***************************************************************************)
(* Proofs about DiskPath.  First the walk of TRKSEC alone, whose drive,     *)
(* track and sector are those of the BIOS here; then in its surroundings,   *)
(* where the warm boot sets them too; then the store of sectors.            *)
(***************************************************************************)
EXTENDS DiskPath, TLAPS

USE DEF T!SizesOK

\* The quotient is the only number whose multiple is at most one divisor
\* below the dividend.
LEMMA Quotient ==
  ASSUME NEW s \in Nat \ {0}, NEW q \in Nat, NEW r \in Nat,
         q * s <= r, r < q * s + s
  PROVE  r \div s = q /\ r % s = r - q * s
<1> DEFINE d == r \div s
           m == r % s
<1>1. d \in Int /\ m \in 0..s-1 /\ r = s * d + m
  OBVIOUS
<1>2. ~(d < q)
  <2> SUFFICES ASSUME d < q PROVE FALSE
    OBVIOUS
  <2>1. s * (d + 1) <= s * q
    BY <1>1, d + 1 <= q
  <2>2. s * (d + 1) = s * d + s
    BY <1>1
  <2> QED BY <1>1, <2>1, <2>2
<1>3. ~(q < d)
  <2> SUFFICES ASSUME q < d PROVE FALSE
    OBVIOUS
  <2>1. s * (q + 1) <= s * d
    BY <1>1, q + 1 <= d
  <2>2. s * (q + 1) = q * s + s
    OBVIOUS
  <2> QED BY <1>1, <2>1, <2>2
<1>4. d = q
  BY <1>1, <1>2, <1>3
<1> QED BY <1>1, <1>4

\* One track further on or back, in the products that the walk speaks of.
LEMMA Step ==
  ASSUME NEW s \in Nat \ {0}, NEW q \in Nat
  PROVE  /\ (q + 1) * s = q * s + s
         /\ (q - 1) * s = q * s - s
         /\ q <= q * s
         /\ q # 0 => s <= q * s
<1>1. q * s \in Nat /\ (q + 1) * s = q * s + s /\ (q - 1) * s = q * s - s
  OBVIOUS
<1>2. q <= q * s
  OBVIOUS
<1>3. q # 0 => s <= q * s
  OBVIOUS
<1> QED BY <1>1, <1>2, <1>3

\* A word stays what it is when it is taken modulo the words.
LEMMA InWord ==
  ASSUME NEW n \in T!Words PROVE n % Word = n
<1>1. \A w \in Nat \ {0} : \A k \in 0..w-1 : k % w = k
  OBVIOUS
<1> QED BY <1>1, WalkAssumption DEF T!Words

LEMMA InitInv ==
  ASSUME T!SizesOK PROVE  T!Init => T!IInv
BY T!SizesOK DEF T!Init, T!IInv, T!TypeOK, T!Remembered, T!Walk, T!Words

LEMMA BackInv ==
  ASSUME T!SizesOK PROVE  T!IInv /\ T!Back => T!IInv'
<1> SUFFICES ASSUME T!IInv, T!Back PROVE T!IInv'
  OBVIOUS
<1> USE DEF T!IInv, T!TypeOK, T!Walk, T!Words
<1>1. CASE rec < de
  <2>1. hl # 0 /\ hl - 1 \in T!Words /\ de - SecPerTrk \in T!Words
        /\ (hl - 1) * SecPerTrk = de - SecPerTrk
    BY <1>1, T!SizesOK, Step DEF T!Back
  <2>2. hl' = hl - 1 /\ de' = de - SecPerTrk
    BY <1>1, <2>1, T!SizesOK DEF T!Back
  <2> QED BY <1>1, <2>1, <2>2 DEF T!Back, T!Remembered
<1>2. CASE ~(rec < de)
  BY <1>2, T!SizesOK DEF T!Back, T!Remembered
<1> QED BY <1>1, <1>2

LEMMA OnInv ==
  ASSUME T!SizesOK PROVE  T!IInv /\ T!On => T!IInv'
<1> SUFFICES ASSUME T!IInv, T!On PROVE T!IInv'
  OBVIOUS
<1> USE DEF T!IInv, T!TypeOK, T!Walk, T!Words
<1>1. de + SecPerTrk \in T!Words /\ de + SecPerTrk <= rec
      /\ (hl + 1) * SecPerTrk = de + SecPerTrk /\ hl + 1 <= (hl + 1) * SecPerTrk
  BY T!SizesOK, Step DEF T!On, T!OnTrack
<1>2. hl + 1 \in T!Words
  BY <1>1, T!SizesOK
<1>3. hl' = hl + 1 /\ de' = de + SecPerTrk
  BY <1>1, <1>2, InWord DEF T!On
<1> QED BY <1>1, <1>2, <1>3 DEF T!On, T!Remembered

\* When the walk ends it has found what a division gives.
LEMMA FoundExact ==
  ASSUME T!SizesOK, T!IInv, T!Found
  PROVE  /\ asked' = rec \div SecPerTrk + Offset
         /\ secno' = rec % SecPerTrk
         /\ asked' \in T!Words /\ secno' \in T!Words
<1> USE DEF T!IInv, T!TypeOK, T!Walk, T!Words
<1>1. hl * SecPerTrk <= rec /\ rec < hl * SecPerTrk + SecPerTrk
  BY T!SizesOK DEF T!Found, T!OnTrack
<1>2. rec \div SecPerTrk = hl /\ rec % SecPerTrk = rec - de
  <2>1. hl \in Nat /\ rec \in Nat /\ SecPerTrk \in Nat \ {0} /\ de = hl * SecPerTrk
    BY T!SizesOK DEF T!Found
  <2> HIDE DEF T!IInv
  <2>2. rec \div SecPerTrk = hl /\ rec % SecPerTrk = rec - hl * SecPerTrk
    BY <1>1, <2>1, Quotient
  <2> QED BY <2>1, <2>2
<1>3. hl + Offset \in T!Words /\ rec - de \in T!Words
  BY <1>1, <1>2, T!SizesOK DEF T!Found
<1>4. asked' = hl + Offset /\ secno' = rec - de
  <2>1. (hl + Offset) % Word = hl + Offset /\ (rec - de) % Word = rec - de
    BY <1>3, InWord
  <2> QED BY <2>1 DEF T!Found
<1> QED BY <1>2, <1>3, <1>4

LEMMA FoundInv ==
  ASSUME T!SizesOK PROVE  T!IInv /\ T!Found => T!IInv'
<1> SUFFICES ASSUME T!IInv, T!Found PROVE T!IInv'
  OBVIOUS
<1>1. asked' \in T!Words /\ secno' \in T!Words
  BY T!SizesOK, FoundExact
<1> QED BY <1>1 DEF T!Found, T!IInv, T!TypeOK, T!Walk, T!Words, T!Remembered

\* The walk alone: what each drive remembers stays a track and its first record,
\* whatever is sought and however drives are switched and homed in between.
THEOREM WalkInvCorrect == T!Spec => []T!IInv
<1>1. T!IInv /\ [T!Next]_T!vars => T!IInv'
  <2> SUFFICES ASSUME T!IInv, [T!Next]_T!vars PROVE T!IInv'
    OBVIOUS
  <2>1. CASE \E d \in Disk : T!Select(d)
    BY <2>1 DEF T!Select, T!IInv, T!TypeOK, T!Walk, T!Remembered
  <2>2. CASE T!HomeDrv
    <3>1. asked' \in T!Words /\ secno' \in T!Words
      BY <2>2, WalkAssumption DEF T!HomeDrv, T!IInv, T!TypeOK, T!Words
    <3>2. track' \in [Disk -> T!Words] /\ first' \in [Disk -> T!Words] /\ T!Remembered'
      BY <2>2, WalkAssumption DEF T!HomeDrv, T!IInv, T!TypeOK, T!Words, T!Remembered
    <3> QED BY <2>2, <3>1, <3>2 DEF T!HomeDrv, T!IInv, T!TypeOK, T!Walk
  <2>3. CASE \E r \in T!Words : T!Seek(r)
    BY <2>3 DEF T!Seek, T!IInv, T!TypeOK, T!Walk, T!Remembered
  <2>4. CASE T!Back
    BY <2>4, WalkAssumption, BackInv
  <2>5. CASE T!On
    BY <2>5, WalkAssumption, OnInv
  <2>6. CASE T!Found
    BY <2>6, WalkAssumption, FoundInv
  <2>7. CASE UNCHANGED T!vars
    BY <2>7 DEF T!vars, T!IInv, T!TypeOK, T!Walk, T!Remembered
  <2> QED BY <2>1, <2>2, <2>3, <2>4, <2>5, <2>6, <2>7 DEF T!Next
<1> QED BY WalkAssumption, InitInv, <1>1, PTL DEF T!Spec

\* For every record number and from every track the walk ends at the quotient
\* and the remainder of the record number by the track size.
THEOREM WalkExactCorrect == T!Spec => T!Exact
<1> DEFINE Right == /\ [track |-> asked, sector |-> secno]'.track = rec \div SecPerTrk + Offset
                    /\ [track |-> asked, sector |-> secno]'.sector = rec % SecPerTrk
<1>1. T!IInv => [T!Found => Right]_T!vars
  BY WalkAssumption, FoundExact
<1> QED BY <1>1, WalkInvCorrect, PTL DEF T!Spec, T!Exact
-----------------------------------------------------------------------------
(* The walk in its surroundings.                                           *)

\* A step of the walk keeps its invariant.
LEMMA WalkInv ==
  ASSUME IInv, T!Back \/ T!On \/ T!Found PROVE IInv'
BY WalkAssumption, BackInv, OnInv, FoundInv DEF IInv

\* Steps that change nothing of the walk but the address in the BIOS.
LEMMA AddressOnly ==
  ASSUME IInv, UNCHANGED <<track, first, rec, hl, de, seek>>,
         dskno' \in Disk, asked' \in T!Words, secno' \in T!Words
  PROVE  IInv'
BY DEF IInv, T!IInv, T!TypeOK, T!Words, T!Remembered, T!Walk

LEMMA SizeFacts ==
  /\ 0 \in T!Words /\ (\A n \in 0..SecPerTrk : n \in T!Words)
  /\ SecPerTrk \in Nat /\ SecPerTrk < Word /\ Word \in Nat
  /\ 0 \in Disk /\ NumSys <= SecPerTrk /\ NumSys \in Nat /\ Record \subseteq T!Words
BY DiskAssumption, WalkAssumption DEF T!Words, Disk

\* READ, WRITE, the warm boot and the card leave the walk alone, and an
\* address in the BIOS that is one.
LEMMA RestInv ==
  ASSUME IInv,
         \/ \E o \in {"read", "write"} : Transfer(o)
         \/ Reboot
         \/ \E v \in Value : Use(v)
         \/ Driver \/ Card
  PROVE  IInv'
<1>1. dskno \in Disk /\ asked \in T!Words /\ secno \in T!Words
  BY DEF IInv, T!IInv, T!TypeOK
<1>2. CASE Reboot
  BY <1>2, SizeFacts, AddressOnly DEF Reboot, Ready, WBoot
<1>3. CASE Driver
  <2>1. UNCHANGED <<track, first, rec, hl, de, seek>>
    BY <1>3 DEF Driver, walk
  <2>2. CASE Command \/ Data \/ Check \/ GoCpm
    BY <1>1, <2>1, <2>2, AddressOnly DEF Command, Data, Check, GoCpm, bios
  <2>3. CASE WBootNext
    <3>1. secno' = boot /\ boot \in 0..SecPerTrk /\ UNCHANGED <<dskno, asked>>
      BY <2>3, SizeFacts DEF WBootNext
    <3> QED BY <1>1, <2>1, <3>1, SizeFacts, AddressOnly
  <2> QED BY <1>3, <2>2, <2>3 DEF Driver
<1>4. CASE \E o \in {"read", "write"} : Transfer(o)
  BY <1>1, <1>4, AddressOnly DEF Transfer, Call, walk, bios
<1>5. CASE \E v \in Value : Use(v)
  BY <1>1, <1>5, AddressOnly DEF Use, Fill, walk, bios
<1>6. CASE Card
  BY <1>1, <1>6, AddressOnly DEF Card, Accept, Program, walk, bios
<1> QED BY <1>2, <1>3, <1>4, <1>5, <1>6

\* What every drive remembers is a track and its first record, and the walk
\* is between two such places, whatever the BIOS and the card do meanwhile.
THEOREM PathInvCorrect == PathSpec => []IInv
<1>1. PathInit => IInv
  BY SizeFacts DEF PathInit, Init, IInv, T!IInv, T!TypeOK, T!Words, T!Remembered, T!Walk
<1>2. IInv /\ [PathNext]_pathVars => IInv'
  <2> SUFFICES ASSUME IInv, [PathNext]_pathVars PROVE IInv'
    OBVIOUS
  <2>1. CASE \E d \in Disk : Select(d)
    <3>1. PICK d \in Disk : T!Select(d)
      BY <2>1 DEF Select
    <3> QED BY <3>1 DEF T!Select, IInv, T!IInv, T!TypeOK, T!Words, T!Remembered, T!Walk
  <2>2. CASE HomeDrv
    <3>1. asked' = 0 /\ secno' = secno /\ T!HomeDrv
      BY <2>2 DEF HomeDrv, Home, SetTrk
    <3> QED BY <3>1, SizeFacts DEF T!HomeDrv, IInv, T!IInv, T!TypeOK, T!Words, T!Remembered, T!Walk
  <2>3. CASE \E r \in Record : Seek(r)
    <3>1. PICK r \in T!Words : T!Seek(r)
      BY <2>3, SizeFacts DEF Seek
    <3> QED BY <3>1 DEF T!Seek, IInv, T!IInv, T!TypeOK, T!Words, T!Remembered, T!Walk
  <2>4. CASE Walk \/ SetAddress
    BY <2>4, WalkInv DEF Walk, SetAddress
  <2>5. CASE UNCHANGED pathVars
    BY <2>5 DEF pathVars, vars, bios, walk, IInv, T!IInv, T!TypeOK, T!Words, T!Remembered, T!Walk
  <2> QED BY <2>1, <2>2, <2>3, <2>4, <2>5, RestInv DEF PathNext
<1> QED BY <1>1, <1>2, PTL DEF PathSpec

\* For every record number, from every track and between any transfers and
\* warm boots, the walk gives the BIOS the quotient and the remainder of the
\* record number by the track size.
THEOREM PathExactCorrect == PathSpec => Exact
<1> DEFINE Right == /\ [track |-> asked, sector |-> secno]'.track = rec \div SecPerTrk + Offset
                    /\ [track |-> asked, sector |-> secno]'.sector = rec % SecPerTrk
<1>1. IInv => [T!Found => Right]_T!vars
  BY WalkAssumption, FoundExact DEF IInv
<1> QED BY <1>1, PathInvCorrect, PTL DEF PathSpec, Exact, T!Exact
-----------------------------------------------------------------------------
(* The store of sectors.  Its parts are what a transfer relies on: where    *)
(* the address comes from, whose turn it is, and what the card is doing.    *)

\* What is on the way of a transfer has its type, and the track is a byte.
Types ==
  /\ dskno \in Disk /\ asked \in Track /\ asked < Byte /\ trkno = asked /\ secno \in Sector
  /\ dma \in Buffer /\ mem \in [Buffer -> Value] /\ hst \in Value
  /\ op \in {"read", "write"} /\ pc \in {"idle", "ready", "data", "check"}
  /\ res \in {"ok", "bad"} /\ boot \in Buffer /\ due \in BOOLEAN
  /\ card \in [at: {"idle", "busy", "drq", "program"}, lba: 0..NumLba-1, buf: Value, err: BOOLEAN]
  /\ sectors \in [0..NumLba-1 -> Value] /\ given \in BOOLEAN
  /\ rec \in Record \cup {0} /\ sought \in BOOLEAN

\* One thing at a time: TRKSEC walks before the transfer, and the warm boot
\* reads to the page it is at.
Turns ==
  /\ seek # "idle" => pc = "idle" /\ boot = 0 /\ ~sought
  /\ pc # "idle" /\ boot = 0 => sought
  /\ boot # 0 => ~sought
  /\ dma = boot

\* The BIOS has the address of what is to be transferred.
Addressed ==
  /\ boot # 0 => asked = 0 /\ secno = boot - 1
  /\ boot = 0 /\ sought => asked = TrackOf(rec) /\ secno = rec % SecPerTrk

Target == Number(<<dskno, Position>>)

\* The card works on the command it was given, for the sector it was given for,
\* and what it has been given is what the caller's buffer holds.
CardInv ==
  /\ card.at = "program" => ~card.err
  /\ pc \in {"idle", "ready"} => card.at \in {"idle", "program"} /\ ~given
  /\ pc # "idle" /\ op = "write" => hst = mem[dma]
  /\ pc = "data" => /\ card.lba = Target /\ ~given
                    /\ card.err <=> card.at = "idle"
                    /\ card.at # "program"
  /\ pc = "check" =>
       IF given THEN op = "write" /\ card.lba = Target /\ card.at \in {"idle", "program"} /\ ~card.err
       ELSE card.at = "idle" /\ (card.err \/ (op = "read" /\ hst = sectors[Target]))

PInv == Types /\ Turns /\ Addressed /\ CardInv

Wanted == Disk \X Place

\* A byte holds a whole number of tracks.
LEMMA ByteFacts ==
  /\ Byte \in Nat /\ Byte > 0 /\ SecPerTrk \in Nat /\ SecPerTrk > 0
  /\ Share \in Nat /\ Share > 0 /\ Byte = Share * SecPerTrk /\ SecPerTrk <= Byte
  /\ NumDisk \in Nat /\ NumDisk > 0 /\ Offset \in Nat /\ NumSys \in 1..SecPerTrk
<1>1. Byte \in Nat /\ SecPerTrk \in Nat /\ SecPerTrk > 0 /\ Byte % SecPerTrk = 0
  BY DiskAssumption
<1>2. Byte = Share * SecPerTrk /\ Share \in Nat
  BY <1>1 DEF Share
<1>3. Byte > 0
  <2>1. 0 \in 0..(Byte * (Byte \div SecPerTrk))-1 BY DiskAssumption
  <2> QED BY <1>1, <2>1
<1>4. Share > 0 BY <1>1, <1>2, <1>3
<1>5. SecPerTrk <= Byte BY <1>1, <1>2, <1>4
<1> QED BY <1>1, <1>2, <1>3, <1>4, <1>5, DiskAssumption, WalkAssumption DEF T!SizesOK

\* The parts of a record number.
LEMMA Parts ==
  ASSUME NEW r \in Nat
  PROVE  /\ r \div SecPerTrk \in Nat /\ r % SecPerTrk \in 0..SecPerTrk-1
         /\ r = (r \div SecPerTrk) * SecPerTrk + (r % SecPerTrk)
BY ByteFacts

\* The track and the sector together are the position.
LEMMA WholePosition ==
  ASSUME NEW r \in Nat
  PROVE  TrackOf(r) * SecPerTrk + (r % SecPerTrk) = PlaceOf(r)
<1> DEFINE q == r \div SecPerTrk
           m == r % SecPerTrk
<1>1. q \in Nat /\ m \in Nat /\ r = q * SecPerTrk + m BY Parts
<1> HIDE DEF q, m
<1>2. (q + Offset) * SecPerTrk = q * SecPerTrk + Offset * SecPerTrk BY <1>1, ByteFacts
<1>3. q * SecPerTrk \in Nat /\ Offset * SecPerTrk \in Nat BY <1>1, ByteFacts
<1> QED BY <1>1, <1>2, <1>3 DEF TrackOf, PlaceOf, q, m

LEMMA Records == Record \cup {0} \subseteq Nat
BY WalkAssumption DEF T!Words

\* Every place is within one drive of the card.
LEMMA Places ==
  ASSUME TracksFit, NEW p \in Place
  PROVE  p \in Nat /\ p < Byte * Byte
<1>1. SecPerTrk * Byte <= Byte * Byte /\ SecPerTrk <= SecPerTrk * Byte BY ByteFacts
<1>2. CASE p \in 0..NumSys-1 BY <1>1, <1>2, ByteFacts
<1>3. CASE p \in {PlaceOf(r) : r \in Record \cup {0}}
  <2>1. PICK r \in Record \cup {0} : p = PlaceOf(r) BY <1>3
  <2>2. r \in Nat BY <2>1, Records
  <2> DEFINE t == TrackOf(r)
             m == r % SecPerTrk
  <2>3. t \in Nat /\ t + 1 <= Byte /\ m \in Nat /\ m < SecPerTrk
    BY <2>1, <2>2, Parts, ByteFacts DEF TracksFit, TrackOf
  <2>4. p = t * SecPerTrk + m BY <2>1, <2>2, WholePosition
  <2> HIDE DEF t, m
  <2>5. (t + 1) * SecPerTrk = t * SecPerTrk + SecPerTrk /\ t * SecPerTrk \in Nat BY <2>3, ByteFacts
  <2>6. (t + 1) * SecPerTrk <= Byte * SecPerTrk BY <2>3, ByteFacts
  <2>7. Byte * SecPerTrk = SecPerTrk * Byte /\ Byte * SecPerTrk \in Nat /\ Byte * Byte \in Nat
    BY ByteFacts
  <2> QED BY <1>1, <2>3, <2>4, <2>5, <2>6, <2>7, ByteFacts
<1> QED BY <1>2, <1>3 DEF Place

\* No two places share a sector of the card.
LEMMA Numbers ==
  ASSUME TracksFit
  PROVE  /\ \A a \in Wanted : Number(a) \in 0..NumLba-1
         /\ \A a, b \in Wanted : Number(a) = Number(b) => a = b
<1> DEFINE n == Byte * Byte
<1>1. n \in Nat /\ n > 0 BY ByteFacts
<1>2. ASSUME NEW a \in Wanted
      PROVE  a[1] \in Nat /\ a[1] < NumDisk /\ a[2] \in Nat /\ a[2] < n
             /\ Number(a) = a[1] * n + a[2]
  <2>1. a[1] \in Disk /\ a[2] \in Place BY <1>2 DEF Wanted
  <2>2. a[1] \in Nat /\ a[1] < NumDisk /\ a[2] \in Nat /\ a[2] < n
    BY <2>1, Places, ByteFacts DEF Disk
  <2>3. a[1] * Byte * Byte = a[1] * n BY <2>2, ByteFacts
  <2> QED BY <2>2, <2>3 DEF Number
<1>3. NumLba = NumDisk * n BY ByteFacts DEF NumLba
<1> HIDE DEF n
<1>4. ASSUME NEW a \in Wanted PROVE Number(a) \in 0..NumLba-1
  <2> DEFINE d == a[1]
             p == a[2]
  <2>1. d \in Nat /\ d + 1 <= NumDisk /\ p \in Nat /\ p < n /\ Number(a) = d * n + p
    BY <1>2, <1>4, ByteFacts
  <2> HIDE DEF d, p
  <2>2. (d + 1) * n = d * n + n /\ d * n \in Nat BY <1>1, <2>1
  <2>3. (d + 1) * n <= NumDisk * n BY <1>1, <2>1, ByteFacts
  <2>4. NumDisk * n \in Nat BY <1>1, ByteFacts
  <2> QED BY <1>1, <1>3, <2>1, <2>2, <2>3, <2>4
<1>5. ASSUME NEW a \in Wanted, NEW b \in Wanted, Number(a) = Number(b) PROVE a = b
  <2>1. \A x \in Nat, y \in Nat : y < n => (x * n + y) \div n = x BY <1>1
  <2>2. a[1] = b[1] BY <1>2, <1>5, <2>1
  <2> DEFINE z == a[1] * n
  <2>3. z \in Nat /\ z + a[2] = z + b[2] /\ a[2] \in Nat /\ b[2] \in Nat BY <1>1, <1>2, <1>5, <2>2
  <2>4. a[2] = b[2]
    <3> HIDE DEF z
    <3> QED BY <2>3
  <2> QED BY <2>2, <2>4 DEF Wanted
<1> QED BY <1>4, <1>5

\* The rotations and masks of the registers make the number of the sector.
LEMMA Registers ==
  ASSUME Types
  PROVE  Regs[1] + Regs[2] * Byte + Regs[3] * Byte * Byte
           = dskno * Byte * Byte + (asked * SecPerTrk + secno)
<1>1. asked \in Nat /\ asked < Byte /\ trkno = asked /\ secno \in Nat /\ secno < SecPerTrk
      /\ dskno \in Nat
  BY ByteFacts, DiskAssumption DEF Types, Sector, Disk
<1>2. trkno % Byte = asked /\ trkno \div Byte = 0 /\ secno % SecPerTrk = secno
  BY <1>1, ByteFacts
<1> DEFINE q == asked \div Share
           m == asked % Share
<1>3. q \in Nat /\ m \in Nat /\ asked = q * Share + m BY <1>1, ByteFacts
<1>4. Regs = <<secno + m * SecPerTrk, q, dskno>>
  <2>1. (0 % Share) * SecPerTrk = 0 BY ByteFacts
  <2> QED BY <1>2, <1>3, <2>1 DEF Regs
<1> HIDE DEF q, m
<1>5. asked * SecPerTrk = q * Byte + m * SecPerTrk
  <2>1. (q * Share + m) * SecPerTrk = (q * Share) * SecPerTrk + m * SecPerTrk
    BY <1>3, ByteFacts
  <2>2. (q * Share) * SecPerTrk = q * (Share * SecPerTrk) BY <1>3, ByteFacts
  <2> QED BY <1>3, <2>1, <2>2, ByteFacts
<1>6. m * SecPerTrk \in Nat /\ q * Byte \in Nat /\ dskno * Byte * Byte \in Nat
  BY <1>1, <1>3, ByteFacts
<1> QED BY <1>1, <1>4, <1>5, <1>6

\* A transfer is for a place, and the registers name its sector.
LEMMA OnTarget ==
  ASSUME TracksFit, PInv
  PROVE  /\ <<dskno, Position>> \in Wanted /\ Target \in 0..NumLba-1
         /\ (pc # "idle" => Regs[1] + Regs[2] * Byte + Regs[3] * Byte * Byte = Target)
<1>1. Position \in Place
  <2>1. CASE boot # 0
    <3>1. boot \in 0..NumSys BY DEF PInv, Types, Buffer
    <3>2. boot - 1 \in 0..NumSys-1 BY <2>1, <3>1, ByteFacts
    <3>3. Position = boot - 1 BY <2>1 DEF Position
    <3> QED BY <3>2, <3>3 DEF Place
  <2>2. CASE boot = 0 BY <2>2 DEF Position, Place, PInv, Types
  <2> QED BY <2>1, <2>2
<1>2. <<dskno, Position>> \in Wanted BY <1>1 DEF Wanted, PInv, Types
<1>3. Target = dskno * Byte * Byte + Position BY DEF Target, Number
<1>4. ASSUME pc # "idle" PROVE asked * SecPerTrk + secno = Position
  <2>1. CASE boot # 0
    <3>1. asked = 0 /\ secno = boot - 1 BY <2>1 DEF PInv, Addressed
    <3>2. 0 * SecPerTrk = 0 BY ByteFacts
    <3>3. boot \in Nat BY ByteFacts DEF PInv, Types, Buffer
    <3> QED BY <2>1, <3>1, <3>2, <3>3 DEF Position
  <2>2. CASE boot = 0
    <3>1. asked = TrackOf(rec) /\ secno = rec % SecPerTrk
      BY <1>4, <2>2 DEF PInv, Addressed, Turns
    <3>2. rec \in Nat BY Records DEF PInv, Types
    <3> QED BY <2>2, <3>1, <3>2, WholePosition DEF Position
  <2> QED BY <2>1, <2>2
<1>5. Types BY DEF PInv
<1> QED BY <1>2, <1>3, <1>4, <1>5, Registers, Numbers DEF Target

LEMMA InitPInv == TracksFit /\ PathInit => PInv
<1> SUFFICES ASSUME TracksFit, PathInit PROVE PInv OBVIOUS
<1>1. NumLba \in Nat /\ NumLba > 0
  <2>1. NumDisk * Byte \in Nat /\ NumDisk * Byte > 0 BY ByteFacts
  <2> DEFINE n == NumDisk * Byte
  <2>2. n * Byte > 0 /\ n * Byte \in Nat
    <3> HIDE DEF n
    <3> QED BY <2>1, ByteFacts DEF n
  <2> QED BY <2>2 DEF NumLba
<1>2. PICK v \in Value :
        /\ mem = [b \in Buffer |-> v] /\ hst = v /\ sectors = [l \in 0..NumLba-1 |-> v]
        /\ card = [at |-> "idle", lba |-> 0, buf |-> v, err |-> FALSE]
  BY DEF PathInit, Init
<1>3. 0 \in Track /\ 0 \in Sector /\ 0 \in Disk /\ 0 \in Buffer
  BY ByteFacts, DiskAssumption DEF Sector, Disk, Buffer
<1>4. Types
  <2>1. v \in Value /\ 0 \in 0..NumLba-1 BY <1>1, <1>2
  <2>2. card \in [at: {"idle", "busy", "drq", "program"}, lba: 0..NumLba-1, buf: Value, err: BOOLEAN]
    BY <1>2, <2>1
  <2>3. sectors \in [0..NumLba-1 -> Value] /\ mem \in [Buffer -> Value] /\ hst \in Value
    BY <1>2, <2>1
  <2>4. dskno \in Disk /\ asked \in Track /\ asked < Byte /\ trkno = asked /\ secno \in Sector
        /\ dma \in Buffer /\ boot \in Buffer
    BY <1>3, ByteFacts DEF PathInit, Init
  <2> QED BY <2>2, <2>3, <2>4 DEF PathInit, Init, Types
<1>5. Turns /\ Addressed /\ CardInv
  BY <1>2 DEF PathInit, Init, Turns, Addressed, CardInv
<1> QED BY <1>4, <1>5 DEF PInv

\* Between transfers, what was said to the BIOS may be forgotten.
LEMMA Between ==
  ASSUME PInv, pc = "idle", boot = 0, sought' = FALSE,
         UNCHANGED <<dma, Rest>>, mem' \in [Buffer -> Value],
         dskno' \in Disk, asked' \in Track, asked' < Byte, trkno' = asked', secno' \in Sector,
         rec' \in Record \cup {0}
  PROVE  PInv'
<1>1. Types' BY DEF PInv, Types, Rest
<1>2. Turns' BY DEF PInv, Turns, Rest
<1>3. Addressed' BY DEF Addressed, Rest
<1>4. CardInv' BY DEF PInv, CardInv, Rest
<1> QED BY <1>1, <1>2, <1>3, <1>4 DEF PInv

\* The steps of the BDOS between transfers: nothing moves but the address.
LEMMA BdosPInv ==
  ASSUME TracksFit, PInv, IInv,
         \/ \E d \in Disk : Select(d)
         \/ HomeDrv \/ (\E r \in Record : Seek(r)) \/ Walk \/ SetAddress
  PROVE  PInv'
<1>1. CASE \E d \in Disk : Select(d)
  <2>1. PICK d \in Disk : Select(d) BY <1>1
  <2>2. /\ pc = "idle" /\ boot = 0 /\ dskno' = d /\ sought' = FALSE /\ seek' = seek /\ rec' = rec
        /\ seek = "idle"
        /\ UNCHANGED <<trkno, secno, asked, mem, dma, Rest>>
    BY <2>1 DEF Select, Ready, Free, SelDsk, T!Select
  <2> QED BY <2>2, Between DEF PInv, Types
<1>2. CASE HomeDrv
  <2>1. 0 \in Track /\ 0 % Byte = 0 /\ 0 < Byte BY ByteFacts, DiskAssumption
  <2>2. /\ pc = "idle" /\ boot = 0 /\ sought' = FALSE /\ seek' = seek /\ rec' = rec /\ seek = "idle"
        /\ asked' = 0 /\ trkno' = 0
        /\ UNCHANGED <<dskno, secno, mem, dma, Rest>>
    BY <1>2, <2>1 DEF HomeDrv, Ready, Free, Home, SetTrk, T!HomeDrv
  <2> QED BY <2>1, <2>2, Between DEF PInv, Types
<1>3. CASE \E r \in Record : Seek(r)
  <2>1. PICK r \in Record : Seek(r) BY <1>3
  <2>2. /\ pc = "idle" /\ boot = 0 /\ sought' = FALSE /\ rec' = r
        /\ UNCHANGED <<dskno, trkno, secno, asked, mem, dma, Rest>>
    BY <2>1 DEF Seek, Ready, Free, vars, bios, T!Seek, Rest
  <2> QED BY <2>2, Between DEF PInv, Types
<1>4. CASE Walk
  <2>1. UNCHANGED <<vars, sought, rec>> /\ seek # "idle" BY <1>4 DEF Walk, T!Back, T!On
  <2> QED BY <2>1 DEF vars, bios, PInv, Types, Turns, Addressed, CardInv, Target, Position
<1>5. CASE SetAddress
  <2>1. /\ UNCHANGED <<dskno, dma, mem, hst, op, pc, res, boot, due, card, sectors, given, rec>>
        /\ seek = "on" /\ seek' = "idle" /\ sought' = TRUE
        /\ trkno' = asked' % Byte
    BY <1>5 DEF SetAddress, T!Found
  <2>2. pc = "idle" /\ boot = 0 BY <2>1 DEF PInv, Turns
  <2>3. asked' = TrackOf(rec) /\ secno' = rec % SecPerTrk
    <3>1. T!Found /\ T!IInv BY <1>5 DEF SetAddress, IInv
    <3> QED BY <3>1, WalkAssumption, FoundExact DEF TrackOf
  <2>4. asked' \in Track /\ asked' < Byte /\ asked' \in Nat
    <3>1. rec \in Record \cup {0} BY DEF PInv, Types
    <3>2. 0 <= TrackOf(rec) /\ TrackOf(rec) \in Int
      BY <3>1, Records, Parts, ByteFacts DEF TrackOf
    <3> QED BY <2>3, <3>1, <3>2 DEF TracksFit
  <2>5. trkno' = asked'
    <3>1. \A n \in Nat : n < Byte => n % Byte = n BY ByteFacts
    <3> QED BY <2>1, <2>4, <3>1
  <2>6. secno' \in Sector BY <2>3, Records, Parts DEF PInv, Types, Sector
  <2> QED BY <2>1, <2>2, <2>3, <2>4, <2>5, <2>6 DEF PInv, Types, Turns, Addressed, CardInv
<1> QED BY <1>1, <1>2, <1>3, <1>4, <1>5

LEMMA SameTarget == UNCHANGED <<dskno, boot, rec>> => Target' = Target
BY DEF Target, Position

\* READ and WRITE begin when the address is complete.
LEMMA CallPInv ==
  ASSUME PInv, NEW o \in {"read", "write"}, Transfer(o) PROVE PInv'
<1>1. /\ pc = "idle" /\ op' = o /\ pc' = "ready" /\ given' = FALSE /\ due' = FALSE
      /\ hst' = IF o = "write" THEN mem[dma] ELSE hst
      /\ UNCHANGED <<dskno, trkno, secno, dma, mem, res, boot, card, sectors, asked, rec, sought, seek>>
  BY DEF Transfer, Call, bios, walk
<1>2. (seek = "idle" /\ sought) \/ boot # 0 BY DEF Transfer, Ready
<1>3. mem[dma] \in Value BY DEF PInv, Types
<1>4. Types' BY <1>1, <1>3 DEF PInv, Types
<1>5. Turns' BY <1>1, <1>2 DEF PInv, Turns
<1>6. Addressed' BY <1>1 DEF PInv, Addressed
<1>7. CardInv' BY <1>1 DEF PInv, CardInv
<1> QED BY <1>4, <1>5, <1>6, <1>7 DEF PInv

\* The warm boot is on drive A, at the page it reads.
LEMMA BootPInv ==
  ASSUME PInv, \/ Reboot
               \/ (WBootNext \/ GoCpm) /\ UNCHANGED walk
  PROVE  PInv'
<1>1. CASE Reboot
  <2>1. /\ pc = "idle" /\ boot = 0 /\ seek = "idle" /\ sought' = FALSE
        /\ dskno' = 0 /\ trkno' = 0 /\ asked' = 0 /\ secno' = 0
        /\ dma' = 1 /\ boot' = 1 /\ due' = TRUE
        /\ UNCHANGED <<mem, hst, op, pc, res, card, sectors, given, rec, seek>>
    BY <1>1 DEF Reboot, Ready, Free, WBoot
  <2>2. 1 \in Buffer /\ 0 \in Disk /\ 0 \in Track /\ 0 < Byte /\ 0 \in Sector
    BY ByteFacts, DiskAssumption DEF Buffer, Disk, Sector
  <2>3. Types' BY <2>1, <2>2 DEF PInv, Types
  <2>4. Turns' /\ Addressed' /\ CardInv' BY <2>1 DEF PInv, Turns, Addressed, CardInv
  <2> QED BY <2>3, <2>4 DEF PInv
<1>2. CASE WBootNext /\ UNCHANGED walk
  <2>1. /\ pc = "idle" /\ boot \in 1..NumSys-1
        /\ secno' = boot /\ dma' = boot + 1 /\ boot' = boot + 1 /\ due' = TRUE
        /\ UNCHANGED <<dskno, trkno, mem, hst, op, pc, res, card, sectors, asked, given, rec, sought, seek>>
    BY <1>2 DEF WBootNext, walk
  <2>2. boot + 1 \in Buffer /\ boot \in Sector /\ boot # 0 /\ boot + 1 # 0 /\ boot = (boot + 1) - 1
    BY <2>1, ByteFacts DEF Buffer, Sector
  <2>3. Types' BY <2>1, <2>2 DEF PInv, Types
  <2>4. Turns' /\ Addressed' /\ CardInv' BY <2>1, <2>2 DEF PInv, Turns, Addressed, CardInv
  <2> QED BY <2>3, <2>4 DEF PInv
<1>3. CASE GoCpm /\ UNCHANGED walk
  <2>1. /\ pc = "idle" /\ boot = NumSys /\ dma' = 0 /\ boot' = 0
        /\ UNCHANGED <<dskno, trkno, secno, mem, hst, op, pc, res, due, card, sectors, asked, given,
                       rec, sought, seek>>
    BY <1>3 DEF GoCpm, walk
  <2>2. 0 \in Buffer /\ boot # 0 BY <2>1, ByteFacts DEF Buffer
  <2>3. Types' BY <2>1, <2>2 DEF PInv, Types
  <2>4. Turns' /\ Addressed' /\ CardInv' BY <2>1, <2>2 DEF PInv, Turns, Addressed, CardInv
  <2> QED BY <2>3, <2>4 DEF PInv
<1> QED BY <1>1, <1>2, <1>3

\* The driver's polling: the command, the data and the answer.
LEMMA DriverPInv ==
  ASSUME TracksFit, PInv, Command \/ Data \/ Check, UNCHANGED walk PROVE PInv'
<1>1. UNCHANGED <<rec, sought, seek>> BY DEF walk
<1>2. /\ UNCHANGED <<dskno, trkno, secno, dma, asked, op, boot, due, sectors>>
      /\ pc # "idle"
  BY DEF Command, Data, Check, bios
<1>3. Target' = Target BY <1>1, <1>2, SameTarget
<1>4. Addressed' BY <1>1, <1>2 DEF PInv, Addressed
<1>5. CASE Command
  <2>1. /\ pc = "ready" /\ pc' = "data" /\ UNCHANGED <<mem, hst, res, given>>
        /\ card' = [card EXCEPT !.at = "busy", !.err = FALSE, !.lba = Target]
    BY <1>5, OnTarget DEF Command
  <2>2. Target \in 0..NumLba-1 BY OnTarget
  <2>3. Types' BY <1>1, <1>2, <2>1, <2>2 DEF PInv, Types
  <2>4. Turns' BY <1>1, <1>2, <2>1 DEF PInv, Turns
  <2>5. card'.at = "busy" /\ card'.err = FALSE /\ card'.lba = Target
    BY <2>1 DEF PInv, Types
  <2>6. CardInv' BY <1>2, <1>3, <2>1, <2>5 DEF PInv, CardInv
  <2> QED BY <1>4, <2>3, <2>4, <2>6 DEF PInv
<1>6. CASE Data
  <2>1. /\ pc = "data" /\ pc' = "check" /\ card.at # "busy" /\ UNCHANGED <<mem, res>>
        /\ card.lba = Target /\ ~given /\ card.at # "program"
        /\ card.err <=> card.at = "idle"
    BY <1>6 DEF Data, PInv, CardInv
  <2>2. Turns' BY <1>1, <1>2, <2>1 DEF PInv, Turns
  <2>3. Target \in 0..NumLba-1 /\ sectors[Target] \in Value BY OnTarget DEF PInv, Types
  <2>4. CASE card.at = "drq" /\ op = "read"
    <3>1. hst' = sectors[Target] /\ card' = [card EXCEPT !.at = "idle"] /\ given' = given
      BY <1>6, <2>1, <2>4 DEF Data
    <3>2. Types' BY <1>1, <1>2, <2>1, <2>3, <3>1 DEF PInv, Types
    <3>3. card'.at = "idle" BY <3>1 DEF PInv, Types
    <3>4. CardInv' BY <1>2, <1>3, <2>1, <2>4, <3>1, <3>3 DEF CardInv
    <3> QED BY <1>4, <2>2, <3>2, <3>4 DEF PInv
  <2>5. CASE card.at = "drq" /\ op = "write"
    <3>1. card' = [card EXCEPT !.at = "program", !.buf = hst] /\ given' = TRUE /\ hst' = hst
      BY <1>6, <2>1, <2>5 DEF Data
    <3>2. Types' BY <1>1, <1>2, <2>1, <3>1 DEF PInv, Types
    <3>3. card'.at = "program" /\ card'.lba = Target /\ card'.err = card.err
      BY <2>1, <3>1 DEF PInv, Types
    <3>4. hst = mem[dma] BY <2>1, <2>5 DEF PInv, CardInv
    <3>5. CardInv' BY <1>2, <1>3, <2>1, <2>5, <3>1, <3>3, <3>4 DEF CardInv
    <3> QED BY <1>4, <2>2, <3>2, <3>5 DEF PInv
  <2>6. CASE card.at # "drq"
    <3>1. (IF op = "read" THEN hst' \in Value ELSE hst' = hst) /\ UNCHANGED <<card, given>>
      BY <1>6, <2>6 DEF Data
    <3>2. Types' BY <1>1, <1>2, <2>1, <3>1 DEF PInv, Types
    <3>3. card.at = "idle" BY <2>1, <2>6 DEF PInv, Types
    <3>4. op = "write" => hst = mem[dma] BY <2>1 DEF PInv, CardInv
    <3>5. CardInv' BY <1>2, <1>3, <2>1, <3>1, <3>3, <3>4 DEF CardInv
    <3> QED BY <1>4, <2>2, <3>2, <3>5 DEF PInv
  <2> QED BY <2>4, <2>5, <2>6 DEF PInv, Types
<1>7. CASE Check
  <2>1. /\ pc = "check" /\ pc' = "idle" /\ given' = FALSE /\ UNCHANGED <<hst, card>>
        /\ res' = (IF card.err THEN "bad" ELSE "ok")
        /\ mem' = IF res' = "ok" /\ op = "read" THEN [mem EXCEPT ![dma] = hst] ELSE mem
    BY <1>7 DEF Check
  <2>2. Types' BY <1>1, <1>2, <2>1 DEF PInv, Types
  <2>3. Turns' BY <1>1, <1>2, <2>1 DEF PInv, Turns
  <2>4. CardInv' BY <1>2, <1>3, <2>1 DEF PInv, CardInv
  <2> QED BY <1>4, <2>2, <2>3, <2>4 DEF PInv
<1> QED BY <1>5, <1>6, <1>7

\* The card takes or refuses the command; what it has accepted it programs.
LEMMA CardPInv ==
  ASSUME ~LateFault, TracksFit, PInv, Card PROVE PInv'
<1>1. UNCHANGED <<rec, sought, seek, dskno, trkno, secno, dma, asked, mem, hst, op, pc, res, boot,
                 due, given>>
  BY DEF Card, Accept, Program, walk, bios
<1>2. Target' = Target BY <1>1, SameTarget
<1>3. Turns' /\ Addressed' BY <1>1 DEF PInv, Turns, Addressed
<1>4. CASE Accept
  <2>1. card.at = "busy" /\ sectors' = sectors BY <1>4 DEF Accept
  <2>2. pc = "data" BY <2>1 DEF PInv, CardInv, Types
  <2>3. /\ card'.lba = Target
        /\ (card'.at = "drq" /\ ~card'.err) \/ (card'.at = "idle" /\ card'.err)
        /\ card' \in [at: {"idle", "busy", "drq", "program"}, lba: 0..NumLba-1, buf: Value, err: BOOLEAN]
    <3>1. card.lba = Target /\ ~card.err BY <2>1, <2>2 DEF PInv, CardInv
    <3>2. CASE card' = [card EXCEPT !.at = "drq"] BY <3>1, <3>2 DEF PInv, Types
    <3>3. CASE card' = [card EXCEPT !.at = "idle", !.err = TRUE] BY <3>1, <3>3 DEF PInv, Types
    <3> QED BY <1>4, <3>2, <3>3 DEF Accept
  <2>4. Types' BY <1>1, <2>1, <2>3 DEF PInv, Types
  <2>5. CardInv' BY <1>1, <1>2, <2>2, <2>3 DEF PInv, CardInv
  <2> QED BY <1>3, <2>4, <2>5 DEF PInv
<1>5. CASE Program
  <2>1. /\ card.at = "program" /\ card' = [card EXCEPT !.at = "idle"]
        /\ sectors' = [sectors EXCEPT ![card.lba] = card.buf]
    BY <1>5 DEF Program
  <2>2. pc \in {"idle", "ready", "check"} /\ (pc = "check" => given)
    BY <2>1 DEF PInv, CardInv, Types
  <2>3. card'.at = "idle" /\ card'.lba = card.lba /\ card'.err = card.err
    BY <2>1 DEF PInv, Types
  <2>4. Types' BY <1>1, <2>1 DEF PInv, Types
  <2>5. CardInv' BY <1>1, <1>2, <2>1, <2>2, <2>3 DEF PInv, CardInv
  <2> QED BY <1>3, <2>4, <2>5 DEF PInv
<1> QED BY <1>4, <1>5 DEF Card

\* Every step keeps the address, the turns and the card's command together.
LEMMA PathPInv ==
  ASSUME ~LateFault, TracksFit, IInv, PInv, [PathNext]_pathVars PROVE PInv'
<1>1. CASE \/ \E d \in Disk : Select(d)
           \/ HomeDrv \/ (\E r \in Record : Seek(r)) \/ Walk \/ SetAddress
  BY <1>1, BdosPInv
<1>2. CASE \E o \in {"read", "write"} : Transfer(o) BY <1>2, CallPInv
<1>3. CASE Reboot BY <1>3, BootPInv
<1>4. CASE \E v \in Value : Use(v)
  <2>1. PICK v \in Value : Use(v) BY <1>4
  <2>2. /\ pc = "idle" /\ boot = 0 /\ seek = "idle" /\ mem' = [mem EXCEPT ![0] = v]
        /\ UNCHANGED <<dskno, trkno, secno, dma, asked, Rest, rec, sought, seek>>
    BY <2>1 DEF Use, Ready, Free, Fill, bios, walk
  <2>3. mem' \in [Buffer -> Value] BY <2>2 DEF PInv, Types
  <2>4. Types' BY <2>2, <2>3 DEF PInv, Types, Rest
  <2>5. Turns' /\ Addressed' BY <2>2 DEF PInv, Turns, Addressed, Rest
  <2>6. CardInv' BY <2>2 DEF PInv, CardInv, Rest
  <2> QED BY <2>4, <2>5, <2>6 DEF PInv
<1>5. CASE Driver BY <1>5, DriverPInv, BootPInv DEF Driver
<1>6. CASE Card BY <1>6, CardPInv
<1>7. CASE UNCHANGED pathVars
  BY <1>7 DEF pathVars, vars, bios, walk, PInv, Types, Turns, Addressed, CardInv, Target, Position
<1> QED BY <1>1, <1>2, <1>3, <1>4, <1>5, <1>6, <1>7 DEF PathNext

\* What the BIOS and the card hold has its type under the BDOS: the buffers of
\* a warm boot stay within the system, and the registers name a sector that
\* the card has.
THEOREM PathTypeCorrect ==
  ASSUME ~LateFault, TracksFit PROVE PathSpec => []TypeOK
<1>1. PathInit => PInv BY InitPInv
<1>2. PInv /\ IInv /\ [PathNext]_pathVars => PInv' BY PathPInv
<1>3. PInv => TypeOK
  <2>1. Track \subseteq Nat BY DiskAssumption
  <2> QED BY <2>1, ByteFacts DEF PInv, Types, TypeOK
<1> QED BY <1>1, <1>2, <1>3, PathInvCorrect, PTL DEF PathSpec
-----------------------------------------------------------------------------
(* The steps of the store.                                                  *)

Kept == [a \in Wanted |-> IF card.at = "program" /\ card.lba = Number(a) THEN card.buf
                          ELSE sectors[Number(a)]]
Now  == <<dskno, Position>>
Asks == CASE pc = "idle" -> "none"
          [] op = "write" /\ given -> "written"
          [] OTHER -> op

\* The actions of the store, in terms of the disk path.
LEMMA StoreSteps ==
  ASSUME \/ UNCHANGED <<Kept, mem, Now, dma, Asks, res>>
         \/ /\ Asks = "none" /\ Now' \in Wanted /\ dma' \in Buffer
            /\ UNCHANGED <<Kept, mem, Asks, res>>
         \/ /\ Asks = "none" /\ (\E v \in Value : mem' = [mem EXCEPT ![0] = v])
            /\ UNCHANGED <<Kept, Now, dma, Asks, res>>
         \/ /\ Asks = "none" /\ Asks' \in {"read", "write"}
            /\ UNCHANGED <<Kept, mem, Now, dma, res>>
         \/ /\ Asks = "read" /\ Asks' = "none" /\ UNCHANGED <<Kept, Now, dma>>
            /\ \/ res' = "ok" /\ mem' = [mem EXCEPT ![dma] = Kept[Now]]
               \/ res' = "bad" /\ UNCHANGED mem
         \/ /\ Asks = "write" /\ Asks' = "written" /\ UNCHANGED <<mem, Now, dma, res>>
            /\ Kept' = [Kept EXCEPT ![Now] = mem[dma]]
         \/ /\ Asks \in {"write", "written"} /\ Asks' = "none"
            /\ res' = (IF Asks = "written" THEN "ok" ELSE "bad")
            /\ UNCHANGED <<Kept, mem, Now, dma>>
  PROVE  [Store!Next]_Store!vars
<1>1. 0 \in Buffer BY ByteFacts DEF Buffer
<1>2. CASE UNCHANGED <<Kept, mem, Now, dma, Asks, res>>
  BY <1>2 DEF Store!vars, Kept, Wanted, Now, Asks
<1>3. CASE /\ Asks = "none" /\ Now' \in Wanted /\ dma' \in Buffer
           /\ UNCHANGED <<Kept, mem, Asks, res>>
  <2>1. Store!Choose(Now', dma') BY <1>3 DEF Store!Choose, Kept, Wanted, Now, Asks
  <2> QED BY <1>3, <2>1 DEF Store!Next, Wanted
<1>4. CASE /\ Asks = "none" /\ (\E v \in Value : mem' = [mem EXCEPT ![0] = v])
           /\ UNCHANGED <<Kept, Now, dma, Asks, res>>
  <2>1. PICK v \in Value : mem' = [mem EXCEPT ![0] = v] BY <1>4
  <2>2. Store!Fill(0, v) BY <1>4, <2>1 DEF Store!Fill, Kept, Wanted, Now, Asks
  <2> QED BY <1>1, <2>2 DEF Store!Next
<1>5. CASE /\ Asks = "none" /\ Asks' \in {"read", "write"}
           /\ UNCHANGED <<Kept, mem, Now, dma, res>>
  <2>1. Store!Begin(Asks') BY <1>5 DEF Store!Begin, Kept, Wanted, Now, Asks
  <2> QED BY <1>5, <2>1 DEF Store!Next
<1>6. CASE /\ Asks = "read" /\ Asks' = "none" /\ UNCHANGED <<Kept, Now, dma>>
           /\ \/ res' = "ok" /\ mem' = [mem EXCEPT ![dma] = Kept[Now]]
              \/ res' = "bad" /\ UNCHANGED mem
  <2>1. Store!ReadEnds BY <1>6 DEF Store!ReadEnds, Kept, Wanted, Now, Asks
  <2> QED BY <2>1 DEF Store!Next
<1>7. CASE /\ Asks = "write" /\ Asks' = "written" /\ UNCHANGED <<mem, Now, dma, res>>
           /\ Kept' = [Kept EXCEPT ![Now] = mem[dma]]
  <2>1. Store!Commit BY <1>7 DEF Store!Commit, Kept, Wanted, Now, Asks
  <2> QED BY <2>1 DEF Store!Next
<1>8. CASE /\ Asks \in {"write", "written"} /\ Asks' = "none"
           /\ res' = (IF Asks = "written" THEN "ok" ELSE "bad")
           /\ UNCHANGED <<Kept, mem, Now, dma>>
  <2>1. Store!WriteEnds BY <1>8 DEF Store!WriteEnds, Kept, Wanted, Now, Asks
  <2> QED BY <2>1 DEF Store!Next
<1> QED BY <1>2, <1>3, <1>4, <1>5, <1>6, <1>7, <1>8

\* The store changes only with the card.
LEMMA KeptSame == UNCHANGED <<card, sectors>> => Kept' = Kept
BY DEF Kept, Number

\* But when a write is done, the store is the card's sectors.
LEMMA KeptPlain ==
  /\ card.at # "program" => Kept = [a \in Wanted |-> sectors[Number(a)]]
  /\ card'.at # "program" => Kept' = [a \in Wanted |-> sectors'[Number(a)]]
BY DEF Kept, Number

\* Addressing, filling, beginning a call, and the warm boot.
LEMMA BdosSteps ==
  ASSUME PInv, Now' \in Wanted, dma' \in Buffer,
         \/ \E d \in Disk : Select(d)
         \/ HomeDrv \/ (\E r \in Record : Seek(r)) \/ Walk \/ SetAddress
         \/ (\E o \in {"read", "write"} : Transfer(o)) \/ Reboot
         \/ (\E v \in Value : Use(v))
         \/ (WBootNext \/ GoCpm) /\ UNCHANGED walk
  PROVE  [Store!Next]_Store!vars
<1>1. CASE \/ \E d \in Disk : Select(d)
           \/ HomeDrv \/ (\E r \in Record : Seek(r)) \/ Reboot
           \/ (WBootNext \/ GoCpm) /\ UNCHANGED walk
  <2>1. pc = "idle" /\ UNCHANGED <<mem, pc, op, given, res, card, sectors>>
    BY <1>1 DEF Select, HomeDrv, Seek, Reboot, WBootNext, GoCpm, Ready, Free, SelDsk, Home, SetTrk,
                WBoot, Rest, vars
  <2>2. Asks = "none" /\ UNCHANGED Asks BY <2>1 DEF Asks, PInv, CardInv
  <2> QED BY <2>1, <2>2, KeptSame, StoreSteps
<1>2. CASE Walk \/ SetAddress
  <2>1. UNCHANGED <<dskno, dma, mem, op, pc, res, boot, card, sectors, given, rec>>
    BY <1>2 DEF Walk, SetAddress, T!Back, T!On, T!Found, vars, bios
  <2>2. UNCHANGED <<Now, Asks>> BY <2>1 DEF Now, Position, Asks
  <2> QED BY <2>1, <2>2, KeptSame, StoreSteps
<1>3. CASE \E o \in {"read", "write"} : Transfer(o)
  <2>1. PICK o \in {"read", "write"} : Transfer(o) BY <1>3
  <2>2. /\ pc = "idle" /\ op' = o /\ pc' = "ready" /\ given' = FALSE
        /\ UNCHANGED <<dskno, dma, mem, res, boot, card, sectors, rec>>
    BY <2>1 DEF Transfer, Call, bios, walk
  <2>3. Asks = "none" /\ Asks' = o /\ UNCHANGED Now
    BY <2>2 DEF Now, Position, Asks, PInv, CardInv
  <2> QED BY <2>2, <2>3, KeptSame, StoreSteps
<1>4. CASE \E v \in Value : Use(v)
  <2>1. PICK v \in Value : Use(v) BY <1>4
  <2>2. /\ pc = "idle" /\ mem' = [mem EXCEPT ![0] = v]
        /\ UNCHANGED <<dskno, dma, op, pc, given, res, boot, card, sectors, rec>>
    BY <2>1 DEF Use, Ready, Free, Fill, bios, walk, Rest
  <2>3. Asks = "none" /\ UNCHANGED <<Now, Asks>>
    BY <2>2 DEF Now, Position, Asks, PInv, CardInv
  <2> QED BY <2>2, <2>3, KeptSame, StoreSteps
<1> QED BY <1>1, <1>2, <1>3, <1>4

\* The command and the card are not seen; the data of a write is what commits;
\* the answer ends the call.
LEMMA DriverSteps ==
  ASSUME TracksFit, PInv, (Command \/ Data \/ Check) /\ UNCHANGED walk
  PROVE  [Store!Next]_Store!vars
<1>1. UNCHANGED <<dskno, dma, boot, rec, op, sectors>> /\ pc # "idle"
  BY DEF Command, Data, Check, bios, walk
<1>2. UNCHANGED Now BY <1>1 DEF Now, Position
<1>3. Now \in Wanted /\ Target = Number(Now) /\ op \in {"read", "write"} /\ given \in BOOLEAN
  BY OnTarget DEF Now, Target, PInv, Types
<1>4. CASE Command
  <2>1. /\ pc = "ready" /\ pc' = "data" /\ UNCHANGED <<mem, res, given>>
        /\ card.at # "program" /\ card' = [card EXCEPT !.at = "busy", !.err = FALSE, !.lba = Target]
    BY <1>4, OnTarget DEF Command
  <2>2. card'.at = "busy" BY <2>1 DEF PInv, Types
  <2>3. UNCHANGED Kept BY <1>1, <2>1, <2>2, KeptPlain
  <2>4. UNCHANGED Asks BY <1>1, <2>1 DEF Asks
  <2> QED BY <1>1, <1>2, <2>1, <2>3, <2>4, StoreSteps
<1>5. CASE Data
  <2>1. /\ pc = "data" /\ pc' = "check" /\ UNCHANGED <<mem, res>>
        /\ card.lba = Target /\ ~given /\ card.at # "program"
    BY <1>5 DEF Data, PInv, CardInv
  <2>2. CASE card.at = "drq" /\ op = "read"
    <3>1. card' = [card EXCEPT !.at = "idle"] /\ given' = given BY <1>5, <2>2 DEF Data
    <3>2. card'.at = "idle" BY <3>1 DEF PInv, Types
    <3>3. UNCHANGED Kept BY <1>1, <2>1, <3>2, KeptPlain
    <3>4. UNCHANGED Asks BY <1>1, <2>1, <3>1 DEF Asks
    <3> QED BY <1>1, <1>2, <2>1, <3>3, <3>4, StoreSteps
  <2>3. CASE card.at = "drq" /\ op = "write"
    <3>1. card' = [card EXCEPT !.at = "program", !.buf = hst] /\ given' = TRUE
      BY <1>5, <2>3 DEF Data
    <3>2. hst = mem[dma] BY <2>1, <2>3 DEF PInv, CardInv
    <3>3. card'.at = "program" /\ card'.lba = Number(Now) /\ card'.buf = mem[dma]
      BY <1>3, <2>1, <3>1, <3>2 DEF PInv, Types
    <3>4. \A a \in Wanted : Number(a) = Number(Now) => a = Now BY <1>3, Numbers
    <3>5. Kept' = [a \in Wanted |-> IF Number(Now) = Number(a) THEN mem[dma] ELSE sectors[Number(a)]]
      BY <1>1, <3>3 DEF Kept, Number
    <3>6. Kept = [a \in Wanted |-> sectors[Number(a)]] BY <2>1, KeptPlain
    <3>7. Kept' = [Kept EXCEPT ![Now] = mem[dma]] BY <1>3, <3>4, <3>5, <3>6
    <3>8. Asks = "write" /\ Asks' = "written" BY <1>1, <2>1, <2>3, <3>1 DEF Asks
    <3> QED BY <1>1, <1>2, <2>1, <3>7, <3>8, StoreSteps
  <2>4. CASE card.at # "drq"
    <3>1. UNCHANGED <<card, given>> BY <1>5, <2>4 DEF Data
    <3>2. UNCHANGED Asks BY <1>1, <2>1, <3>1 DEF Asks
    <3> QED BY <1>1, <1>2, <2>1, <3>1, <3>2, KeptSame, StoreSteps
  <2> QED BY <1>3, <2>2, <2>3, <2>4
<1>6. CASE Check
  <2>1. /\ pc = "check" /\ pc' = "idle" /\ given' = FALSE /\ UNCHANGED card
        /\ res' = (IF card.err THEN "bad" ELSE "ok")
        /\ mem' = IF res' = "ok" /\ op = "read" THEN [mem EXCEPT ![dma] = hst] ELSE mem
    BY <1>6 DEF Check
  <2>2. UNCHANGED Kept /\ Asks' = "none" BY <1>1, <2>1, KeptSame DEF Asks
  <2>3. CASE op = "read"
    <3>1. ~given /\ card.at = "idle" /\ (card.err \/ hst = sectors[Target])
      BY <2>1, <2>3 DEF PInv, CardInv
    <3>2. Asks = "read" BY <2>1, <2>3 DEF Asks
    <3>3. ~card.err => hst = Kept[Now] BY <1>3, <3>1, KeptPlain
    <3>4. \/ res' = "ok" /\ mem' = [mem EXCEPT ![dma] = Kept[Now]]
          \/ res' = "bad" /\ UNCHANGED mem
      BY <2>1, <2>3, <3>3
    <3> QED BY <1>1, <1>2, <2>2, <3>2, <3>4, StoreSteps
  <2>4. CASE op = "write"
    <3>1. card.err <=> ~given BY <2>1, <2>4 DEF PInv, CardInv
    <3>2. Asks = IF given THEN "written" ELSE "write" BY <1>3, <2>1, <2>4 DEF Asks
    <3>3. res' = (IF Asks = "written" THEN "ok" ELSE "bad") /\ Asks \in {"write", "written"}
      BY <1>3, <2>1, <3>1, <3>2
    <3>4. UNCHANGED mem BY <2>1, <2>4
    <3> QED BY <1>1, <1>2, <2>2, <3>3, <3>4, StoreSteps
  <2> QED BY <1>3, <2>3, <2>4
<1> QED BY <1>4, <1>5, <1>6

\* A sector counts as written from when the card has taken it.
LEMMA CardSteps ==
  ASSUME ~LateFault, TracksFit, PInv, Card PROVE [Store!Next]_Store!vars
<1>1. UNCHANGED <<dskno, dma, boot, rec, op, mem, pc, res, given>>
  BY DEF Card, Accept, Program, walk, bios
<1>2. UNCHANGED <<Now, Asks>> BY <1>1 DEF Now, Position, Asks
<1>3. CASE Accept
  <2>1. card.at # "program" /\ UNCHANGED sectors BY <1>3 DEF Accept
  <2>2. card'.at # "program" BY <1>3 DEF Accept, PInv, Types
  <2> QED BY <1>1, <1>2, <2>1, <2>2, KeptPlain, StoreSteps
<1>4. CASE Program
  <2>1. /\ card.at = "program" /\ card' = [card EXCEPT !.at = "idle"]
        /\ sectors' = [sectors EXCEPT ![card.lba] = card.buf]
    BY <1>4 DEF Program
  <2>2. card'.at # "program" BY <2>1 DEF PInv, Types
  <2>3. Kept' = [a \in Wanted |-> sectors'[Number(a)]] BY <2>2, KeptPlain
  <2>4. \A a \in Wanted : Number(a) \in 0..NumLba-1 BY Numbers
  <2>5. \A a \in Wanted : sectors'[Number(a)] = IF card.lba = Number(a) THEN card.buf
                                                ELSE sectors[Number(a)]
    BY <2>1, <2>4 DEF PInv, Types
  <2>6. Kept = [a \in Wanted |-> IF card.lba = Number(a) THEN card.buf ELSE sectors[Number(a)]]
    BY <2>1 DEF Kept
  <2> QED BY <1>1, <1>2, <2>3, <2>5, <2>6, StoreSteps
<1> QED BY <1>3, <1>4 DEF Card

\* The disk path is a store of sectors: what is read from a record of a drive
\* is what was last written there, through TRKSEC, the registers and the card,
\* for every geometry whose tracks fit the byte of SETTRK and for a card that
\* fails only before it has taken the data.
THEOREM ImplementsCorrect ==
  ASSUME ~LateFault, TracksFit PROVE PathSpec => Implements
<1>1. PathInit => PInv BY InitPInv
<1>2. PInv /\ IInv /\ [PathNext]_pathVars => PInv' BY PathPInv
<1>3. PInv => Now \in Wanted /\ dma \in Buffer BY OnTarget DEF Now, PInv, Types
<1>4. PathInit => Store!Init
  <2> SUFFICES ASSUME PathInit PROVE Store!Init OBVIOUS
  <2>1. PInv /\ Now \in Wanted BY <1>1, <1>3
  <2>2. pc = "idle" /\ res = "ok" /\ card.at = "idle" BY DEF PathInit, Init
  <2>3. Kept \in [Wanted -> Value]
    <3>1. \A a \in Wanted : sectors[Number(a)] \in Value BY <2>1, Numbers DEF PInv, Types
    <3> QED BY <2>2, <3>1, KeptPlain
  <2>4. Asks = "none" BY <2>1, <2>2 DEF Asks, PInv, CardInv
  <2>5. mem \in [Buffer -> Value] /\ dma \in Buffer BY <2>1 DEF PInv, Types
  <2> QED BY <2>1, <2>2, <2>3, <2>4, <2>5 DEF Store!Init, Kept, Now, Wanted, Asks
<1>5. PInv /\ (Now \in Wanted /\ dma \in Buffer)' /\ [PathNext]_pathVars => [Store!Next]_Store!vars
  <2> SUFFICES ASSUME PInv, Now' \in Wanted, dma' \in Buffer, [PathNext]_pathVars
               PROVE  [Store!Next]_Store!vars
    BY DEF Wanted
  <2>1. CASE UNCHANGED pathVars
    <3>1. UNCHANGED <<dskno, dma, boot, rec, op, mem, pc, res, given, card, sectors>>
      BY <2>1 DEF pathVars, vars, bios, walk
    <3>2. UNCHANGED <<Now, Asks>> BY <3>1 DEF Now, Position, Asks
    <3> QED BY <3>1, <3>2, KeptSame, StoreSteps
  <2>2. CASE PathNext
    BY <2>2, BdosSteps, DriverSteps, CardSteps DEF PathNext, Driver
  <2> QED BY <2>1, <2>2
<1> QED BY <1>1, <1>2, <1>3, <1>4, <1>5, PathInvCorrect, PTL DEF PathSpec, Implements, Store!Spec
=============================================================================
