--------------------------- MODULE BdosDriveProof ---------------------------
(***************************************************************************)
(* The drives of the BDOS, for any number of drives, directories of any     *)
(* size and any distance of the vectors: the current drive comes back, a    *)
(* protected directory stays, a sector is written only over itself, and a   *)
(* changed disk is noticed.  That a disk which was not changed is left alone *)
(* and that a block given to a file was free is proved for drives whose     *)
(* vectors do not overlap; with the tables of the BIOS this is drive A alone. *)
(***************************************************************************)
EXTENDS BdosDrive, WellFoundedInduction, FiniteSetTheorems, TLAPS

Slot == 0..EntPerSec-1

\* What the proofs need of TypeOK.
Types ==
  /\ disk \in [Drive -> [Dir -> Entry]] /\ buf \in [Slot -> Entry]
  /\ active \in Drive /\ chosen \in Drive
  /\ call \in CallType /\ fcb \in FcbType
  /\ call.at = "update" => call.pos < NumDir
  /\ mark \in [Drive -> Int] /\ csv = [a \in CsvAddr |-> csv[a]]
  /\ wrtprt \subseteq Drive /\ login \subseteq Drive

\* Entry p is in slot p % EntPerSec of sector p \div EntPerSec.
LEMMA Place ==
  /\ \A p \in Dir : /\ p \div EntPerSec \in Sector /\ p % EntPerSec \in Slot
                    /\ p = (p \div EntPerSec) * EntPerSec + (p % EntPerSec)
  /\ \A s \in Sector, i \in Slot : /\ s * EntPerSec + i \in Dir
                                   /\ (s * EntPerSec + i) \div EntPerSec = s
                                   /\ (s * EntPerSec + i) % EntPerSec = i
<1> DEFINE E == EntPerSec
           n == NumDir \div E
<1>1. E \in Nat /\ E > 0 /\ NumDir \in Nat /\ n \in Nat /\ NumDir = n * E
  BY TableAssumption
<1>2. ASSUME NEW p \in Dir
      PROVE  /\ p \div E \in Sector /\ p % E \in Slot
             /\ p = (p \div E) * E + (p % E)
  <2>1. p \in Nat /\ p < n * E BY <1>1, <1>2 DEF Dir
  <2>2. p \div E \in Nat /\ p % E \in 0..E-1 /\ p = (p \div E) * E + (p % E)
    BY <1>1, <2>1
  <2>3. p \div E < n
    <3> DEFINE q == p \div E
    <3>1. q \in Nat /\ q * E <= p BY <1>1, <2>1, <2>2
    <3>2. ASSUME q >= n PROVE FALSE
      <4>1. q * E >= n * E BY <1>1, <3>1, <3>2
      <4> HIDE DEF q, n
      <4> QED BY <1>1, <2>1, <3>1, <4>1
    <3> QED BY <1>1, <3>1, <3>2
  <2> QED BY <2>2, <2>3, <1>1 DEF Sector, Slot
<1>3. ASSUME NEW s \in Sector, NEW i \in Slot
      PROVE  s * E + i \in Dir /\ (s * E + i) \div E = s /\ (s * E + i) % E = i
  <2>1. s \in Nat /\ s < n /\ i \in Nat /\ i < E BY <1>1, <1>3 DEF Sector, Slot
  <2>2. s * E + i \in Nat /\ (s + 1) * E = s * E + E BY <1>1, <2>1
  <2>3. (s + 1) * E <= n * E BY <1>1, <2>1
  <2>4. s * E + i < NumDir
    <3> HIDE DEF n
    <3> QED BY <1>1, <2>1, <2>2, <2>3
  <2>5. (s * E + i) \div E = s /\ (s * E + i) % E = i BY <1>1, <2>1
  <2> QED BY <2>2, <2>4, <2>5, <1>1 DEF Dir
<1> QED BY <1>2, <1>3
-----------------------------------------------------------------------------
(* Types.                                                                   *)

Places == {"idle", "login", "begin", "walk", "update"}
Positions == 0..NumDir

\* Facts about the constants, collected once.
LEMMA Sizes ==
  /\ 0 \in Drive /\ 0 \in Block /\ NumDir \in Nat /\ NumDir > 0 /\ EntPerSec \in Nat
  /\ 0 \in Positions /\ NumDir \in Positions
  /\ EntPerSec > 0 /\ FirstMark \in Nat /\ Closed \in FcbType /\ NoCall \in CallType
  /\ Erased \in Entry
BY TableAssumption DEF Positions, Block, Closed, FcbType, NoCall, CallType, Erased, Entry

\* A sector of the directory is what the buffer can hold.
LEMMA SectorType ==
  ASSUME Types, NEW d \in Drive, NEW s \in Sector
  PROVE  SectorOf(disk[d])[s] \in [Slot -> Entry]
<1>1. disk[d] \in [Dir -> Entry] BY DEF Types
<1>2. \A i \in Slot : disk[d][s * EntPerSec + i] \in Entry BY <1>1, Place
<1> QED BY <1>2 DEF SectorOf, Slot

\* What NXENTRY reads, and the entry in it.
LEMMA BufType ==
  ASSUME Types, call.pos \in Dir, NEW ok
  PROVE  /\ Here \in Sector /\ call.pos % EntPerSec \in Slot
         /\ Buf(ok) \in [Slot -> Entry] /\ Item(Buf(ok)) \in Entry
<1>1. Here \in Sector /\ call.pos % EntPerSec \in Slot BY Place DEF Here
<1>2. Buf(ok) \in [Slot -> Entry] BY <1>1, SectorType DEF Buf, Types
<1> QED BY <1>1, <1>2 DEF Item

\* A call goes on.
LEMMA CallAt ==
  ASSUME NEW c \in CallType, NEW at \in Places
  PROVE  [c EXCEPT !.at = at] \in CallType
BY DEF CallType, Places

LEMMA CallPos ==
  ASSUME NEW c \in CallType, NEW pos \in 0..NumDir
  PROVE  [c EXCEPT !.pos = pos] \in CallType
BY DEF CallType

LEMMA CallGoes ==
  ASSUME NEW c \in CallType, NEW at \in Places, NEW pos \in Positions
  PROVE  /\ To(c, at, pos) \in CallType
         /\ To(c, at, pos).at = at /\ To(c, at, pos).pos = pos
         /\ To(c, at, pos).old = c.old /\ To(c, at, pos).op = c.op
         /\ To(c, at, pos).then = c.then /\ To(c, at, pos).safe = c.safe
<1> DEFINE d == [c EXCEPT !.at = at]
<1>1. /\ d \in CallType /\ d.at = at /\ d.old = c.old /\ d.op = c.op /\ d.then = c.then
      /\ d.safe = c.safe
  BY CallAt DEF CallType
<1>2. /\ [d EXCEPT !.pos = pos] \in CallType /\ [d EXCEPT !.pos = pos].pos = pos
      /\ [d EXCEPT !.pos = pos].at = d.at /\ [d EXCEPT !.pos = pos].old = d.old
      /\ [d EXCEPT !.pos = pos].op = d.op /\ [d EXCEPT !.pos = pos].then = d.then
      /\ [d EXCEPT !.pos = pos].safe = d.safe
  <2> HIDE DEF d
  <2> QED BY <1>1, CallPos DEF CallType, Positions
<1>3. To(c, at, pos) = [d EXCEPT !.pos = pos] BY Zenon DEF To
<1> HIDE DEF d
<1> QED BY <1>1, <1>2, <1>3

\* Selecting, with or without a login.
LEMMA SelectType ==
  ASSUME Types, NEW d \in Drive, NEW c \in CallType,
         SetDsk(d, c) \/ \E L \in SUBSET Drive : StartLogin(d, L, c)
  PROVE  /\ active' \in Drive /\ call' \in CallType /\ mark' \in [Drive -> Int]
         /\ login' \subseteq Drive /\ call'.at # "update"
<1>1. \A at \in {"idle", "login", "begin"} :
        To(c, at, 0) \in CallType /\ To(c, at, 0).at # "update"
  BY CallGoes, Sizes DEF Places
<1>2. c.then \in {"idle", "begin"} BY DEF CallType
<1>3. CASE \E L \in SUBSET Drive : StartLogin(d, L, c)
  <2>1. PICK L \in SUBSET Drive : StartLogin(d, L, c) BY <1>3
  <2> QED BY <1>1, <2>1, Sizes DEF StartLogin, Types
<1>4. CASE SetDsk(d, c)
  <2>1. CASE d = active \/ d \in login
    BY <1>1, <1>2, <1>4, <2>1 DEF SetDsk, Types
  <2>2. CASE ~(d = active \/ d \in login)
    BY <1>3, <1>4, <2>2 DEF SetDsk, Types
  <2> QED BY <2>1, <2>2
<1> QED BY <1>3, <1>4

\* Writing a directory sector.
LEMMA WriteType ==
  ASSUME Types, call.pos \in Dir, NEW e \in Entry, NEW ok, DirWrite(Put(e), ok)
  PROVE  disk' \in [Drive -> [Dir -> Entry]] /\ buf' \in [Slot -> Entry]
         /\ csv' = [a \in CsvAddr |-> csv'[a]]
<1> DEFINE b == Put(e)
<1>1. b \in [Slot -> Entry] BY BufType DEF Put, Types
<1> HIDE DEF b
<1>2. [i \in Dir |-> IF i \div EntPerSec = Here THEN b[i % EntPerSec]
                     ELSE disk[active][i]] \in [Dir -> Entry]
  BY <1>1, Place DEF Types
<1>3. disk' \in [Drive -> [Dir -> Entry]] BY <1>2 DEF DirWrite, Types, b
<1>4. csv' = [a \in CsvAddr |-> csv'[a]] BY DEF DirWrite, Sealed, Types
<1> QED BY <1>1, <1>3, <1>4 DEF DirWrite, b

\* The call that AUTOSEL begins, and the call when a walk begins.
LEMMA CallBegins ==
  ASSUME NEW op \in {"open", "make", "close", "erase", "write"}, active \in Drive
  PROVE  /\ Started(op) \in CallType /\ Started(op).then = "begin"
         /\ Started(op).old = active /\ Started(op).op = op
<1> DEFINE c == [NoCall EXCEPT !.then = "begin"]
           e == [c EXCEPT !.op = op]
<1>1. c \in CallType /\ c.then = "begin" BY Sizes DEF NoCall, CallType
<1>2. e \in CallType /\ e.then = "begin" /\ e.op = op
  <2> HIDE DEF c
  <2> QED BY <1>1 DEF CallType
<1>3. /\ [e EXCEPT !.old = active] \in CallType /\ [e EXCEPT !.old = active].old = active
      /\ [e EXCEPT !.old = active].then = e.then /\ [e EXCEPT !.old = active].op = e.op
  <2> HIDE DEF c, e
  <2> QED BY <1>2 DEF CallType
<1>4. Started(op) = [e EXCEPT !.old = active] BY Zenon DEF Started
<1> HIDE DEF e
<1> QED BY <1>2, <1>3, <1>4

LEMMA CallWalks ==
  ASSUME NEW c \in CallType, NEW safe \in BOOLEAN
  PROVE  LET r == [To(c, "walk", 0) EXCEPT !.safe = safe]
         IN  /\ r \in CallType /\ r.at = "walk" /\ r.pos = 0
             /\ r.old = c.old /\ r.op = c.op /\ r.safe = safe
<1> DEFINE d == To(c, "walk", 0)
<1>1. d \in CallType /\ d.at = "walk" /\ d.pos = 0 /\ d.old = c.old /\ d.op = c.op
  BY CallGoes, Sizes DEF Places
<1> HIDE DEF d
<1> QED BY <1>1 DEF CallType, d

\* A search upwards that stops at the first hit finds one if there is one: the
\* order of the natural numbers is well founded.
LEMMA LeastNatural ==
  ASSUME NEW S, S \subseteq Nat, S # {}
  PROVE  \E m \in S : \A k \in S : m <= k
<1> DEFINE Less == {x \in Nat \X Nat : x[1] < x[2]}
<1>1. IsWellFoundedOn(Less, Nat)
  <2>1. OpToRel(<, Nat) = Less BY DEF OpToRel
  <2> QED BY <2>1, NatLessThanWellFounded
<1>2. PICK m \in S : \A k \in S : <<k, m>> \notin Less BY <1>1, WFMin
<1>3. ASSUME NEW k \in S PROVE m <= k
  <2>1. <<k, m>> \in Nat \X Nat /\ ~(<<k, m>>[1] < <<k, m>>[2]) BY <1>2
  <2> QED BY <2>1
<1> QED BY <1>3

\* FNDSPACE finds a block if there is one.
LEMMA TakenBlock ==
  ASSUME FreeBlocks # {}
  PROVE  LET b == CHOOSE x \in FreeBlocks : \A y \in FreeBlocks : x <= y
         IN  b \in FreeBlocks
<1>1. FreeBlocks \subseteq Nat BY DEF FreeBlocks, Block
<1> QED BY <1>1, LeastNatural

\* The actions that select a drive.
LEMMA TypesSelect ==
  ASSUME Types,
         Restart \/ RstDsk \/ (\E d \in Drive : SelectDisk(d)) \/ CloseNothing \/ WalkEnds
         \/ (\E op \in {"open", "make", "close", "erase", "write"}, d \in Drive : Begin(op, d))
  PROVE  Types'
<1>1. CASE Restart \/ RstDsk
  <2>1. StartLogin(0, {}, NoCall) /\ UNCHANGED <<disk, csv, buf>> /\ chosen' = 0
        /\ wrtprt' = {} /\ (fcb' = Closed \/ fcb' = fcb)
    BY <1>1 DEF Restart, RstDsk
  <2> QED BY <2>1, SelectType, Sizes DEF Types, StartLogin
<1>2. CASE \E d \in Drive : SelectDisk(d)
  <2>1. PICK d \in Drive : SelectDisk(d) BY <1>2
  <2> QED BY <2>1, SelectType, Sizes DEF Types, SelectDisk
<1>3. CASE CloseNothing \/ WalkEnds
  <2>1. SetDsk(call.old, NoCall) /\ UNCHANGED <<disk, csv, buf, chosen, wrtprt>>
        /\ (fcb' = Closed \/ fcb' = fcb)
    BY <1>3 DEF CloseNothing, WalkEnds, Back
  <2>2. call.old \in Drive BY DEF Types, CallType
  <2> QED BY <2>1, <2>2, SelectType, Sizes DEF Types
<1>4. CASE \E op \in {"open", "make", "close", "erase", "write"}, d \in Drive : Begin(op, d)
  <2>1. PICK op \in {"open", "make", "close", "erase", "write"}, d \in Drive : Begin(op, d)
    BY <1>4
  <2> DEFINE c == Started(op)
  <2>2. c \in CallType BY CallBegins DEF Types
  <2>3. SetDsk(d, c) /\ UNCHANGED <<disk, wrtprt, csv, buf, fcb, chosen>>
    BY <2>1 DEF Begin
  <2> HIDE DEF c
  <2> QED BY <2>2, <2>3, SelectType DEF Types
<1> QED BY <1>1, <1>2, <1>3, <1>4

\* The actions between the calls, and those that start or end a walk.
LEMMA TypesControl ==
  ASSUME Types,
         (\E S \in SUBSET Drive : LogOff(S)) \/ WrtPrtD
         \/ (\E d \in Drive, new \in Disks : Change(d, new))
         \/ LoginEnds \/ StartWalk \/ Take
  PROVE  Types'
<1>1. CASE \E S \in SUBSET Drive : LogOff(S) BY <1>1 DEF LogOff, Types, mem
<1>2. CASE WrtPrtD BY <1>2, Sizes DEF WrtPrtD, Types
<1>3. CASE \E d \in Drive, new \in Disks : Change(d, new)
  BY <1>3, DisksAssumption DEF Change, Types, mem
<1>4. CASE LoginEnds
  <2>1. call' \in CallType /\ call'.at # "update"
    <3>1. call.then \in {"idle", "begin"} BY DEF Types, CallType
    <3>2. CASE call.then = "idle" BY <1>4, <3>2, Sizes DEF LoginEnds, NoCall
    <3>3. CASE call.then # "idle"
      BY <1>4, <3>1, <3>3, CallGoes, Sizes DEF LoginEnds, Types, Places
    <3> QED BY <3>2, <3>3
  <2> QED BY <1>4, <2>1 DEF LoginEnds, Types, mem, history
<1>5. CASE StartWalk
  <2>1. (active \in wrtprt) \in BOOLEAN OBVIOUS
  <2>2. call' \in CallType /\ call'.at = "walk"
    BY <1>5, <2>1, CallWalks DEF StartWalk, Types
  <2> QED BY <1>5, <2>2 DEF StartWalk, Types, mem, history
<1>6. CASE Take
  <2>1. call' \in CallType /\ call'.at = "walk"
    <3>1. call' = To(call, "walk", NumDir) BY <1>6 DEF Take
    <3>2. call \in CallType /\ "walk" \in Places BY DEF Types, Places
    <3>3. \A at \in Places, pos \in Positions :
            To(call, at, pos) \in CallType /\ To(call, at, pos).at = at
      BY <3>2, CallGoes
    <3> QED BY <3>1, <3>2, <3>3, Sizes
  <2>2. fcb' \in FcbType
    <3>1. CASE fcb.blk = 0 /\ FreeBlocks # {}
      <4> DEFINE b == CHOOSE x \in FreeBlocks : \A y \in FreeBlocks : x <= y
      <4>1. b \in Block BY <3>1, TakenBlock DEF FreeBlocks
      <4>2. fcb' = [fcb EXCEPT !.blk = b, !.dirty = TRUE] BY <1>6, <3>1, Zenon DEF Take
      <4> DEFINE f == [fcb EXCEPT !.blk = b]
      <4>3. f \in FcbType
        <5> HIDE DEF b
        <5> QED BY <4>1 DEF Types, FcbType
      <4>4. [f EXCEPT !.dirty = TRUE] \in FcbType
        <5> HIDE DEF f
        <5> QED BY <4>3 DEF FcbType
      <4> QED BY <4>2, <4>4, Zenon
    <3>2. CASE ~(fcb.blk = 0 /\ FreeBlocks # {})
      BY <1>6, <3>2 DEF Take, Types
    <3> QED BY <3>1, <3>2
  <2> QED BY <1>6, <2>1, <2>2 DEF Take, Types, history
<1> QED BY <1>1, <1>2, <1>3, <1>4, <1>5, <1>6

\* The steps of a login and of a walk.
LEMMA TypesEntry ==
  ASSUME Types, NEW ok, LoginEntry(ok) \/ WalkEntry(ok)
  PROVE  Types'
<1>1. call.pos \in Dir BY Sizes DEF LoginEntry, WalkEntry, Dir, Types, CallType
<1>2. Buf(ok) \in [Slot -> Entry] BY <1>1, BufType
<1>3. CASE LoginEntry(ok)
  <2>1. mark' \in [Drive -> Int]
    BY <1>1, <1>3 DEF LoginEntry, Raised, Types, Dir
  <2>2. csv' = [a \in CsvAddr |-> csv'[a]] BY <1>3 DEF LoginEntry, Sealed, Types
  <2>3. call' \in CallType /\ call'.at # "update"
    <3>1. call' = [call EXCEPT !.pos = call.pos + 1] /\ call.at = "login"
      BY <1>3 DEF LoginEntry
    <3>2. call.pos + 1 \in 0..NumDir BY <1>1, Sizes DEF Dir
    <3> QED BY <3>1, <3>2, CallPos DEF Types, CallType
  <2> QED BY <1>2, <1>3, <2>1, <2>2, <2>3 DEF LoginEntry, Types, history
<1>4. CASE WalkEntry(ok)
  <2>1. PICK pos \in {call.pos, NumDir} :
          /\ \E m \in {mark[active], NumDir} : mark' = [mark EXCEPT ![active] = m]
          /\ wrtprt' \in {wrtprt, wrtprt \cup {active}}
          /\ \/ pos < NumDir /\ call' = [call EXCEPT !.at = "update"]
             \/ call' = [call EXCEPT !.pos = IF pos < NumDir THEN pos + 1 ELSE NumDir]
    BY <1>4 DEF WalkEntry
  <2>2. call' \in CallType /\ (call'.at = "update" => call'.pos < NumDir)
    <3>1. CASE pos < NumDir /\ call' = [call EXCEPT !.at = "update"]
      <4>1. call \in CallType /\ "update" \in Places BY DEF Types, Places
      <4>2. call' \in CallType BY <3>1, <4>1, CallAt
      <4>3. call'.pos = call.pos BY <3>1, <4>1 DEF CallType
      <4>4. call.pos < NumDir BY <1>1, Sizes DEF Dir
      <4> QED BY <4>2, <4>3, <4>4
    <3>2. CASE call' = [call EXCEPT !.pos = IF pos < NumDir THEN pos + 1 ELSE NumDir]
      <4>1. (IF pos < NumDir THEN pos + 1 ELSE NumDir) \in 0..NumDir
        BY <1>1, <2>1, Sizes DEF Dir
      <4>2. call.at = "walk" BY <1>4 DEF WalkEntry
      <4> QED BY <3>2, <4>1, <4>2, CallPos DEF Types, CallType
    <3> QED BY <2>1, <3>1, <3>2
  <2>3. mark' \in [Drive -> Int] BY <2>1, Sizes DEF Types
  <2>4. UNCHANGED <<disk, active, login, csv, fcb, history>> /\ buf' = Buf(ok)
    BY <1>4 DEF WalkEntry
  <2> QED BY <1>2, <2>1, <2>2, <2>3, <2>4 DEF Types, history
<1> QED BY <1>3, <1>4

\* The steps that follow a hit.
LEMMA TypesUpdate ==
  ASSUME Types, NEW ok,
         UpdateOpen \/ UpdateMake(ok) \/ UpdateClose(ok) \/ UpdateErase(ok)
  PROVE  Types'
<1>1. call.at = "update" /\ call.pos \in Dir /\ call \in CallType
  BY Sizes DEF UpdateOpen, UpdateMake, UpdateClose, UpdateErase, Types, CallType, Dir
<1>2. call' \in CallType /\ call'.at = "walk"
  <2>1. call.pos + 1 \in Positions BY <1>1, Sizes DEF Dir, Positions
  <2>2. call' = To(call, "walk", NumDir) \/ call' = To(call, "walk", call.pos + 1)
    BY DEF UpdateOpen, UpdateMake, UpdateClose, UpdateErase, Stop
  <2>3. \A at \in Places, pos \in Positions :
          To(call, at, pos) \in CallType /\ To(call, at, pos).at = at
    BY <1>1, CallGoes
  <2>4. "walk" \in Places BY DEF Places
  <2> QED BY <2>1, <2>2, <2>3, <2>4, Sizes
<1>3. Item(buf) \in Entry BY <1>1, Place DEF Item, Types
<1>4. CASE UpdateOpen
  BY <1>2, <1>3, <1>4 DEF UpdateOpen, Types, FcbType, Entry, history, mem
<1>5. CASE UpdateMake(ok)
  <2>1. DirWrite(Put([live |-> TRUE, own |-> TRUE, blk |-> 0]), ok) BY <1>5 DEF UpdateMake
  <2>2. [live |-> TRUE, own |-> TRUE, blk |-> 0] \in Entry BY Sizes DEF Entry
  <2>3. mark' \in [Drive -> Int] BY <1>1, <1>5 DEF UpdateMake, Raised, Types, Dir
  <2>4. fcb' \in FcbType BY <1>5, Sizes DEF UpdateMake, FcbType, Types
  <2> QED BY <1>1, <1>2, <1>5, <2>1, <2>2, <2>3, <2>4, WriteType DEF UpdateMake, Types, history
<1>6. CASE UpdateClose(ok)
  <2>1. CASE UNCHANGED <<disk, csv, buf>>
    BY <1>2, <1>6, <2>1 DEF UpdateClose, Types, history
  <2>2. CASE ~(UNCHANGED <<disk, csv, buf>>)
    <3> DEFINE e == Item(buf)
               n == [e EXCEPT !.blk = IF @ = 0 THEN fcb.blk ELSE @]
    <3>1. DirWrite(Put(n), ok) BY <1>6, <2>2 DEF UpdateClose
    <3>2. n \in Entry
      <4>1. fcb.blk \in Block BY DEF Types, FcbType
      <4> HIDE DEF e
      <4> QED BY <1>3, <4>1 DEF Entry, e
    <3> HIDE DEF n
    <3> QED BY <1>1, <1>2, <1>6, <3>1, <3>2, WriteType DEF UpdateClose, Types, history
  <2> QED BY <2>1, <2>2
<1>7. CASE UpdateErase(ok)
  <2>1. DirWrite(Put(Erased), ok) BY <1>7 DEF UpdateErase
  <2> QED BY <1>1, <1>2, <1>7, <2>1, Sizes, WriteType DEF UpdateErase, Types, history
<1> QED BY <1>4, <1>5, <1>6, <1>7

\* The types hold at the start, and every step keeps them.
LEMMA TypesInit == Init => Types
<1> SUFFICES ASSUME Init PROVE Types OBVIOUS
<1>1. call \in CallType /\ call.at = "login"
  BY CallAt, Sizes DEF Init, Places, CallType
<1> QED BY <1>1, Sizes, DisksAssumption DEF Init, Types, Slot

LEMMA TypesNext == ASSUME Types, [Next]_vars PROVE Types'
<1>1. CASE UNCHANGED vars BY <1>1 DEF vars, mem, history, Types
<1>2. CASE Next
  BY <1>2, TypesSelect, TypesControl, TypesEntry, TypesUpdate DEF Next, Program, Steps
<1> QED BY <1>1, <1>2
-----------------------------------------------------------------------------
(* The current drive.                                                       *)

\* A call that selects another drive remembers which one to come back to.
CurInv ==
  IF call.at = "idle" \/ (call.at = "login" /\ call.then = "idle")
  THEN active = chosen
  ELSE call.old = chosen

\* No call is in progress, and none waits for a login.
LEMMA NoCallIs == NoCall.at = "idle" /\ NoCall.then = "idle"
BY DEF NoCall

\* A login selects its drive and begins with the first entry.
LEMMA LoggingIn ==
  ASSUME NEW d \in Drive, NEW c \in CallType, NEW L, StartLogin(d, L, c)
  PROVE  active' = d /\ call'.then = c.then /\ call'.old = c.old /\ call'.at = "login"
         /\ call'.pos = 0 /\ call'.op = c.op
<1>1. "login" \in Places BY DEF Places
<1>2. call' = To(c, "login", 0) /\ active' = d BY DEF StartLogin
<1>3. \A at \in Places, pos \in Positions :
        /\ To(c, at, pos).then = c.then /\ To(c, at, pos).old = c.old
        /\ To(c, at, pos).at = at /\ To(c, at, pos).pos = pos /\ To(c, at, pos).op = c.op
  BY CallGoes
<1> QED BY <1>1, <1>2, <1>3, Sizes

\* A selection goes on with the call, or with a login first.
LEMMA Selecting ==
  ASSUME NEW d \in Drive, NEW c \in CallType, SetDsk(d, c)
  PROVE  active' = d /\ call'.then = c.then /\ call'.old = c.old
         /\ (call'.at = c.then \/ call'.at = "login") /\ call'.op = c.op /\ call'.pos = 0
<1>1. c.then \in Places BY DEF Places, CallType
<1>3. \A at \in Places, pos \in Positions :
        /\ To(c, at, pos).then = c.then /\ To(c, at, pos).old = c.old
        /\ To(c, at, pos).at = at /\ To(c, at, pos).op = c.op /\ To(c, at, pos).pos = pos
  BY CallGoes
<1>4. CASE call' = To(c, c.then, 0) /\ active' = d BY <1>1, <1>3, <1>4, Sizes
<1>5. CASE StartLogin(d, login, c) BY <1>5, LoggingIn
<1> QED BY <1>4, <1>5 DEF SetDsk

\* What each step does to the call.
LEMMA CallStep ==
  ASSUME Types, NEW ok,
         \/ LoginEntry(ok) \/ WalkEntry(ok) \/ Take \/ UpdateOpen
         \/ UpdateMake(ok) \/ UpdateClose(ok) \/ UpdateErase(ok)
  PROVE  /\ call.at # "idle" /\ (call'.at = "login" <=> call.at = "login")
         /\ call'.at # "idle" /\ UNCHANGED <<active, chosen>>
         /\ call'.then = call.then /\ call'.old = call.old /\ call'.op = call.op
         /\ call'.safe = call.safe
<1>1. call \in CallType BY DEF Types
<1>2. CASE LoginEntry(ok)
  BY <1>1, <1>2 DEF LoginEntry, CallType, history
<1>3. CASE WalkEntry(ok)
  <2>1. \/ call' = [call EXCEPT !.at = "update"]
        \/ \E p : call' = [call EXCEPT !.pos = p]
    BY <1>3 DEF WalkEntry
  <2>2. call.at = "walk" /\ UNCHANGED <<active, chosen>> BY <1>3 DEF WalkEntry, history
  <2> QED BY <1>1, <2>1, <2>2 DEF CallType
<1>4. CASE Take \/ UpdateOpen \/ UpdateMake(ok) \/ UpdateClose(ok) \/ UpdateErase(ok)
  <2>1. call.at \in {"begin", "update"} /\ UNCHANGED <<active, chosen>>
    BY <1>4 DEF Take, UpdateOpen, UpdateMake, UpdateClose, UpdateErase, history
  <2>2. \E p \in Positions : call' = To(call, "walk", p)
    <3>1. call.at = "update" => call.pos + 1 \in Positions
      BY <1>1, Sizes DEF Types, CallType, Positions
    <3> QED BY <1>4, <3>1, Sizes
            DEF Take, UpdateOpen, UpdateMake, UpdateClose, UpdateErase, Stop
  <2>3. \A at \in Places, pos \in Positions :
          /\ To(call, at, pos).then = call.then /\ To(call, at, pos).old = call.old
          /\ To(call, at, pos).at = at /\ To(call, at, pos).op = call.op
          /\ To(call, at, pos).safe = call.safe
    BY <1>1, CallGoes
  <2>4. "walk" \in Places BY DEF Places
  <2> QED BY <2>1, <2>2, <2>3, <2>4
<1> QED BY <1>2, <1>3, <1>4

\* A login that ends goes on with the call it was for.
LEMMA LoginCall ==
  ASSUME Types, LoginEnds
  PROVE  \/ call.then = "idle" /\ call' = NoCall
         \/ /\ call.then = "begin" /\ call'.at = "begin"
            /\ call'.old = call.old /\ call'.op = call.op /\ call'.safe = call.safe
<1>1. call \in CallType /\ call.then \in {"idle", "begin"} BY DEF Types, CallType
<1>2. "begin" \in Places BY DEF Places
<1>3. \A at \in Places, pos \in Positions :
        /\ To(call, at, pos).old = call.old /\ To(call, at, pos).at = at
        /\ To(call, at, pos).op = call.op /\ To(call, at, pos).safe = call.safe
  BY <1>1, CallGoes
<1> QED BY <1>1, <1>2, <1>3, Sizes DEF LoginEnds

\* Every step keeps track of the drive to come back to.
LEMMA CurNext ==
  ASSUME Types, CurInv, [Next]_vars
  PROVE  CurInv'
<1>1. call \in CallType /\ active \in Drive /\ NoCall \in CallType
  BY Sizes DEF Types
<1>2. CASE Restart \/ RstDsk
  BY <1>2, Sizes, LoggingIn, NoCallIs DEF Restart, RstDsk, CurInv
<1>3. CASE \E d \in Drive : SelectDisk(d)
  BY <1>1, <1>3, Selecting, NoCallIs DEF SelectDisk, CurInv
<1>4. CASE CloseNothing \/ WalkEnds
  <2>1. call.at \in {"begin", "walk"} /\ SetDsk(call.old, NoCall) /\ chosen' = chosen
    BY <1>4 DEF CloseNothing, WalkEnds, Back
  <2>2. call.old \in Drive BY <1>1 DEF CallType
  <2> QED BY <1>1, <2>1, <2>2, Selecting, NoCallIs DEF CurInv
<1>5. CASE \E op \in {"open", "make", "close", "erase", "write"}, d \in Drive : Begin(op, d)
  <2>1. PICK op \in {"open", "make", "close", "erase", "write"}, d \in Drive : Begin(op, d)
    BY <1>5
  <2>2. Started(op) \in CallType /\ Started(op).then = "begin" /\ Started(op).old = active
    BY <1>1, CallBegins
  <2>3. call.at = "idle" /\ SetDsk(d, Started(op)) /\ chosen' = chosen
    BY <2>1 DEF Begin, Idle
  <2> QED BY <2>2, <2>3, Selecting DEF CurInv
<1>6. CASE (\E S \in SUBSET Drive : LogOff(S)) \/ WrtPrtD
           \/ (\E d \in Drive, new \in Disks : Change(d, new)) \/ UNCHANGED vars
  BY <1>6 DEF LogOff, WrtPrtD, Change, CurInv, vars, history
<1>7. CASE LoginEnds
  <2>1. call.at = "login" /\ UNCHANGED <<active, chosen>> BY <1>7 DEF LoginEnds, history
  <2> QED BY <1>7, <2>1, LoginCall, NoCallIs DEF CurInv
<1>8. CASE StartWalk
  <2>1. call.at = "begin" /\ UNCHANGED <<active, chosen>> BY <1>8 DEF StartWalk, history
  <2>2. (active \in wrtprt) \in BOOLEAN OBVIOUS
  <2>3. call'.at = "walk" /\ call'.old = call.old BY <1>1, <1>8, <2>2, CallWalks DEF StartWalk
  <2> QED BY <2>1, <2>3 DEF CurInv
<1>9. CASE \/ Take \/ UpdateOpen
           \/ \E ok \in Outcome : \/ LoginEntry(ok) \/ WalkEntry(ok) \/ UpdateMake(ok)
                                  \/ UpdateClose(ok) \/ UpdateErase(ok)
  <2>1. PICK ok : \/ Take \/ UpdateOpen \/ LoginEntry(ok) \/ WalkEntry(ok) \/ UpdateMake(ok)
                  \/ UpdateClose(ok) \/ UpdateErase(ok)
    BY <1>9
  <2> QED BY <2>1, CallStep DEF CurInv
<1> QED
  BY <1>2, <1>3, <1>4, <1>5, <1>6, <1>7, <1>8, <1>9 DEF Next, Program, Steps

\* A call with an FCB for another drive leaves the current drive as the
\* program chose it, whatever logins it needs.
THEOREM CurrentKeptCorrect == Spec => []CurrentKept
<1>1. Init => CurInv
  <2> SUFFICES ASSUME Init PROVE CurInv OBVIOUS
  <2>1. call.at = "login" /\ call.then = "idle" /\ active = chosen
    BY Sizes DEF Init, NoCall, CallType
  <2> QED BY <2>1 DEF CurInv
<1>2. CurInv => CurrentKept BY DEF CurInv, CurrentKept, Idle
<1> QED BY <1>1, <1>2, TypesInit, TypesNext, CurNext, PTL DEF Spec
-----------------------------------------------------------------------------
(* Write protected drives.                                                  *)

\* A walk that writes began on a drive that was not protected.
ProtInv ==
  call.at \in {"walk", "update"} /\ call.op \in {"make", "close", "erase"} => ~call.safe

\* Every step but the start of a walk leaves the protection of the call alone.
LEMMA ProtNext ==
  ASSUME Types, ProtInv, [Next]_vars
  PROVE  ProtInv'
<1>1. call \in CallType /\ active \in Drive /\ NoCall \in CallType BY Sizes DEF Types
<1>2. CASE Restart \/ RstDsk
  BY <1>2, Sizes, LoggingIn, NoCallIs DEF Restart, RstDsk, ProtInv
<1>3. CASE \E d \in Drive : SelectDisk(d)
  BY <1>1, <1>3, Selecting, NoCallIs DEF SelectDisk, ProtInv
<1>4. CASE CloseNothing \/ WalkEnds
  <2>1. call.old \in Drive BY <1>1 DEF CallType
  <2> QED BY <1>1, <1>4, <2>1, Selecting, NoCallIs DEF CloseNothing, WalkEnds, Back, ProtInv
<1>5. CASE \E op \in {"open", "make", "close", "erase", "write"}, d \in Drive : Begin(op, d)
  <2>1. PICK op \in {"open", "make", "close", "erase", "write"}, d \in Drive : Begin(op, d)
    BY <1>5
  <2>2. Started(op) \in CallType /\ Started(op).then = "begin" BY <1>1, CallBegins
  <2> QED BY <2>1, <2>2, Selecting DEF Begin, ProtInv
<1>6. CASE (\E S \in SUBSET Drive : LogOff(S)) \/ WrtPrtD
           \/ (\E d \in Drive, new \in Disks : Change(d, new)) \/ UNCHANGED vars
  BY <1>6 DEF LogOff, WrtPrtD, Change, ProtInv, vars
<1>7. CASE LoginEnds
  BY <1>7, LoginCall, NoCallIs DEF ProtInv
<1>8. CASE StartWalk
  <2>1. (active \in wrtprt) \in BOOLEAN OBVIOUS
  <2>2. call'.op = call.op /\ call'.safe = (active \in wrtprt)
    BY <1>1, <1>8, <2>1, CallWalks DEF StartWalk
  <2> QED BY <1>8, <2>2 DEF ProtInv, StartWalk, Searches, Permitted
<1>9. CASE \/ UpdateOpen
           \/ \E ok \in Outcome : \/ LoginEntry(ok) \/ WalkEntry(ok) \/ UpdateMake(ok)
                                  \/ UpdateClose(ok) \/ UpdateErase(ok)
  <2>1. PICK ok : \/ UpdateOpen \/ LoginEntry(ok) \/ WalkEntry(ok) \/ UpdateMake(ok)
                  \/ UpdateClose(ok) \/ UpdateErase(ok)
    BY <1>9
  <2>2. call'.op = call.op /\ call'.safe = call.safe /\ (call'.at = "login" <=> call.at = "login")
    BY <2>1, CallStep
  <2>3. call.at \in {"login", "walk", "update"}
    BY <2>1 DEF UpdateOpen, LoginEntry, WalkEntry, UpdateMake, UpdateClose, UpdateErase
  <2> QED BY <2>2, <2>3 DEF ProtInv
<1>10. CASE Take
  <2>1. call'.op = "write" BY <1>10, CallStep DEF Take
  <2> QED BY <2>1 DEF ProtInv
<1> QED
  BY <1>2, <1>3, <1>4, <1>5, <1>6, <1>7, <1>8, <1>9, <1>10 DEF Next, Program, Steps

\* No call that finds its drive write protected changes a directory, nor does
\* a call ever change that of a drive that it does not name.
THEOREM ProtectedKeptCorrect == Spec => ProtectedKept
<1>1. Init => ProtInv
  <2> SUFFICES ASSUME Init PROVE ProtInv OBVIOUS
  <2>1. call.at = "login" BY Sizes DEF Init, NoCall, CallType
  <2> QED BY <2>1 DEF ProtInv
<1>2. Types /\ ProtInv /\ [Next]_vars
      => [\A d \in Drive : ~Idle /\ disk'[d] # disk[d] => d = active /\ ~call.safe]_vars
  <2> SUFFICES ASSUME Types, ProtInv, Next, NEW d \in Drive, ~Idle, disk'[d] # disk[d]
               PROVE  d = active /\ ~call.safe
    OBVIOUS
  <2>1. PICK ok : UpdateMake(ok) \/ UpdateClose(ok) \/ UpdateErase(ok)
    BY DEF Next, Program, Steps, Restart, RstDsk, SelectDisk, LogOff, WrtPrtD, Begin, Change,
       LoginEntry, LoginEnds, StartWalk, CloseNothing, Take, WalkEntry, WalkEnds, UpdateOpen
  <2>2. call.at = "update" /\ call.op \in {"make", "close", "erase"}
        /\ (disk' = disk \/ \E e : DirWrite(e, ok))
    BY <2>1 DEF UpdateMake, UpdateClose, UpdateErase
  <2>3. \E new : disk' = [disk EXCEPT ![active] = new] BY <2>2 DEF DirWrite
  <2>4. d = active BY <2>3 DEF Types
  <2> QED BY <2>2, <2>4 DEF ProtInv
<1> QED BY <1>1, <1>2, TypesInit, TypesNext, ProtNext, PTL DEF Spec, ProtectedKept
-----------------------------------------------------------------------------
(* The one buffer.  If the user never ignores a bad sector, what a search    *)
(* or an update finds in it is the sector of its entry.                      *)

Held == SectorOf(disk[active])[Here]

\* A call is inside a sector that it has read.
Inside == \/ call.at = "walk" /\ call.pos \in Dir /\ call.pos % EntPerSec # 0
          \/ call.at = "update"

SectorInv == Inside => buf = Held

\* What the search has let pass is what the login saw, or the drive is read only.
SumInv == Inside /\ Here < NumCheck /\ Here * EntPerSec < mark[active]
          => active \in wrtprt \/ csv[CsvOf(active, Here)] = CheckSum(buf)

\* The next entry is in the same sector, unless it is the first of its own.
LEMMA NextSlot ==
  ASSUME NEW p \in Dir, (p + 1) % EntPerSec # 0
  PROVE  (p + 1) \div EntPerSec = p \div EntPerSec
<1> DEFINE q == p \div EntPerSec
           r == p % EntPerSec
<1>1. q \in Sector /\ r \in Slot /\ p = q * EntPerSec + r BY Place
<1>2. q \in Nat /\ r \in Nat /\ r < EntPerSec /\ EntPerSec \in Nat /\ EntPerSec > 0
  BY <1>1, Sizes DEF Sector, Slot
<1>3. CASE r + 1 = EntPerSec
  <2>1. p + 1 = (q + 1) * EntPerSec
    <3> HIDE DEF q, r
    <3> QED BY <1>1, <1>2, <1>3
  <2>2. ((q + 1) * EntPerSec) % EntPerSec = 0
    <3> HIDE DEF q, r
    <3> QED BY <1>2
  <2> QED BY <2>1, <2>2
<1>4. CASE r + 1 # EntPerSec
  <2>1. r + 1 \in Slot
    <3> HIDE DEF q, r
    <3> QED BY <1>2, <1>4 DEF Slot
  <2>2. (q * EntPerSec + (r + 1)) \div EntPerSec = q BY <1>1, <2>1, Place
  <2>3. p + 1 = q * EntPerSec + (r + 1)
    <3> HIDE DEF q, r
    <3> QED BY <1>1, <1>2
  <2> QED BY <2>2, <2>3
<1> QED BY <1>3, <1>4

\* The checksum of a sector lies in the vectors.
LEMMA CsvIn ==
  ASSUME NEW d \in Drive, NEW s \in Nat, s < NumCheck
  PROVE  CsvOf(d, s) \in CsvAddr
BY TableAssumption DEF CsvAddr

\* A directory write puts the buffer in the place of its sector and changes no other.
LEMMA Written ==
  ASSUME Types, call.pos \in Dir, NEW e \in Entry, DirWrite(Put(e), TRUE)
  PROVE  /\ SectorOf(disk'[active])[Here] = buf'
         /\ \A d \in Drive, s \in Sector :
              d # active \/ s # Here => SectorOf(disk'[d])[s] = SectorOf(disk[d])[s]
<1> DEFINE b == Put(e)
           new == [i \in Dir |-> IF i \div EntPerSec = Here THEN b[i % EntPerSec]
                                 ELSE disk[active][i]]
<1>1. b \in [Slot -> Entry] BY BufType DEF Put, Types
<1>2. Here \in Sector BY BufType
<1>3. buf' = b /\ disk' = [disk EXCEPT ![active] = new] BY DEF DirWrite
<1>4. disk'[active] = new /\ \A d \in Drive : d # active => disk'[d] = disk[d]
  <2> HIDE DEF new
  <2> QED BY <1>3 DEF Types
<1> HIDE DEF b
<1>5. \A s \in Sector, i \in Slot :
        new[s * EntPerSec + i] = IF s = Here THEN b[i] ELSE disk[active][s * EntPerSec + i]
  BY Place
<1> HIDE DEF new
<1>6. SectorOf(new)[Here] = [i \in Slot |-> b[i]] BY <1>2, <1>5 DEF SectorOf, Slot
<1>7. [i \in Slot |-> b[i]] = b BY <1>1
<1>8. \A s \in Sector : s # Here => SectorOf(new)[s] = SectorOf(disk[active])[s]
  BY <1>5 DEF SectorOf, Slot
<1> QED BY <1>3, <1>4, <1>6, <1>7, <1>8

\* SETDIR: the checksum in memory is that of the sector written.
LEMMA Seals ==
  ASSUME Types, call.pos \in Dir, NEW b, NEW ok, DirWrite(b, ok), Here < NumCheck
  PROVE  csv'[CsvOf(active, Here)] = CheckSum(buf')
<1>1. Here \in Nat BY BufType DEF Sector
<1>2. CsvOf(active, Here) \in CsvAddr BY <1>1, CsvIn DEF Types
<1>3. csv' = [csv EXCEPT ![CsvOf(active, Here)] = CheckSum(b)] /\ buf' = b
  BY DEF DirWrite, Sealed
<1> QED BY <1>2, <1>3 DEF Types

\* The steps after which no call is inside a sector.
LEMMA Outside ==
  ASSUME Types, NEW ok,
         \/ Restart \/ Program \/ LoginEntry(ok) \/ LoginEnds \/ StartWalk \/ CloseNothing
         \/ Take \/ WalkEnds \/ UpdateOpen \/ UpdateMake(ok) \/ UpdateClose(ok)
         \/ \E d \in Drive, new \in Disks : Change(d, new)
  PROVE  ~Inside'
<1>1. call \in CallType /\ active \in Drive /\ NoCall \in CallType BY Sizes DEF Types
<1>2. CASE Restart \/ RstDsk
  BY <1>2, Sizes, LoggingIn DEF Restart, RstDsk, Inside
<1>3. CASE \E d \in Drive : SelectDisk(d)
  BY <1>1, <1>3, Selecting, NoCallIs DEF SelectDisk, Inside
<1>4. CASE CloseNothing \/ WalkEnds
  <2>1. call.old \in Drive BY <1>1 DEF CallType
  <2> QED BY <1>1, <1>4, <2>1, Selecting, NoCallIs DEF CloseNothing, WalkEnds, Back, Inside
<1>5. CASE \E op \in {"open", "make", "close", "erase", "write"}, d \in Drive : Begin(op, d)
  <2>1. PICK op \in {"open", "make", "close", "erase", "write"}, d \in Drive : Begin(op, d)
    BY <1>5
  <2>2. Started(op) \in CallType /\ Started(op).then = "begin" BY <1>1, CallBegins
  <2> QED BY <2>1, <2>2, Selecting DEF Begin, Inside
<1>6. CASE (\E S \in SUBSET Drive : LogOff(S)) \/ WrtPrtD
           \/ (\E d \in Drive, new \in Disks : Change(d, new))
  BY <1>6 DEF LogOff, WrtPrtD, Change, Inside, Idle
<1>7. CASE LoginEnds BY <1>7, LoginCall, NoCallIs DEF Inside
<1>8. CASE LoginEntry(ok) BY <1>8, CallStep DEF LoginEntry, Inside
<1>9. CASE StartWalk
  <2>1. (active \in wrtprt) \in BOOLEAN OBVIOUS
  <2>2. call'.at = "walk" /\ call'.pos = 0 BY <1>1, <1>9, <2>1, CallWalks DEF StartWalk
  <2>3. 0 % EntPerSec = 0 BY Sizes
  <2> QED BY <2>2, <2>3 DEF Inside
<1>10. CASE Take \/ UpdateOpen \/ UpdateMake(ok) \/ UpdateClose(ok)
  <2>1. call' = To(call, "walk", NumDir)
    BY <1>10 DEF Take, UpdateOpen, UpdateMake, UpdateClose, Stop
  <2>2. \A at \in Places, pos \in Positions :
          To(call, at, pos).at = at /\ To(call, at, pos).pos = pos
    BY <1>1, CallGoes
  <2>3. "walk" \in Places BY DEF Places
  <2>4. call'.at = "walk" /\ call'.pos = NumDir BY <2>1, <2>2, <2>3, Sizes
  <2>5. NumDir \notin Dir BY Sizes DEF Dir
  <2> QED BY <2>4, <2>5 DEF Inside
<1> QED BY <1>2, <1>3, <1>4, <1>5, <1>6, <1>7, <1>8, <1>9, <1>10 DEF Program

\* A walk goes on within its sector, or leaves it.
LEMMA GoesOn ==
  ASSUME Types, call.pos \in Dir, Inside',
         call'.pos \in {call.pos + 1, NumDir}, call'.at # "update"
  PROVE  call'.pos = call.pos + 1 /\ Here' = Here
<1>1. call'.pos \in Dir /\ call'.pos % EntPerSec # 0 BY DEF Inside
<1>2. call'.pos = call.pos + 1 BY <1>1, Sizes DEF Dir
<1> QED BY <1>1, <1>2, NextSlot DEF Here

\* A search that is still inside a sector is inside the same one.
LEMMA WalkStep ==
  ASSUME Types, NEW ok, WalkEntry(ok), Inside'
  PROVE  Here' = Here
<1>1. call.pos \in Dir /\ call.at = "walk" /\ call \in CallType
  BY Sizes DEF WalkEntry, Dir, Types, CallType
<1>2. PICK p \in {call.pos, NumDir} :
        \/ p < NumDir /\ call' = [call EXCEPT !.at = "update"]
        \/ call' = [call EXCEPT !.pos = IF p < NumDir THEN p + 1 ELSE NumDir]
  BY DEF WalkEntry
<1>3. CASE p < NumDir /\ call' = [call EXCEPT !.at = "update"]
  BY <1>1, <1>3 DEF Here, CallType
<1>4. CASE call' = [call EXCEPT !.pos = IF p < NumDir THEN p + 1 ELSE NumDir]
  <2>1. call'.at = "walk" /\ call'.pos \in {call.pos + 1, NumDir}
    BY <1>1, <1>4, Sizes DEF CallType, Dir
  <2> QED BY <1>1, <2>1, GoesOn
<1> QED BY <1>2, <1>3, <1>4

\* Every step keeps the buffer the sector of the entry.
LEMMA SectorNext ==
  ASSUME ~MayIgnore, Types, SectorInv, [Next]_vars
  PROVE  SectorInv'
<1>1. CASE UNCHANGED vars BY <1>1 DEF vars, SectorInv, Inside, Held, Here
<1>2. CASE WalkEntry(TRUE)
  <2>1. call.pos \in Dir /\ call.at = "walk" /\ call \in CallType
    BY <1>2, Sizes DEF WalkEntry, Dir, Types, CallType
  <2>2. buf' = Held BY <1>2, <2>1 DEF WalkEntry, Buf, SectorInv, Inside, Held
  <2>3. UNCHANGED <<disk, active>> BY <1>2 DEF WalkEntry
  <2>5. Inside' => Here' = Here BY <1>2, WalkStep
  <2> QED BY <2>2, <2>3, <2>5 DEF SectorInv, Held
<1>3. CASE UpdateErase(TRUE)
  <2>1. call.pos \in Dir /\ call \in CallType
    BY <1>3, Sizes DEF UpdateErase, Dir, Types, CallType
  <2>2. DirWrite(Put(Erased), TRUE) /\ active' = active BY <1>3 DEF UpdateErase
  <2>3. SectorOf(disk'[active])[Here] = buf' BY <2>1, <2>2, Written, Sizes
  <2>4. call'.at = "walk" /\ call'.pos = call.pos + 1
    <3>1. \A at \in Places, pos \in Positions :
            To(call, at, pos).at = at /\ To(call, at, pos).pos = pos
      BY <2>1, CallGoes
    <3>2. "walk" \in Places /\ call.pos + 1 \in Positions
      BY <2>1, Sizes DEF Places, Dir, Positions
    <3> QED BY <1>3, <3>1, <3>2 DEF UpdateErase
  <2>5. Inside' => Here' = Here BY <2>1, <2>4, GoesOn
  <2> QED BY <2>2, <2>3, <2>5 DEF SectorInv, Held
<1>4. CASE Next /\ ~WalkEntry(TRUE) /\ ~UpdateErase(TRUE)
  BY <1>4, Outside DEF Next, Steps, Outcome, SectorInv
<1> QED BY <1>1, <1>2, <1>3, <1>4

\* What an update has in the buffer when it writes is the sector that it
\* writes over, on whichever drive, if no bad sector was ignored.
THEOREM SameSectorCorrect == ASSUME ~MayIgnore PROVE Spec => []SameSector
<1>1. Init => SectorInv
  <2> SUFFICES ASSUME Init PROVE SectorInv OBVIOUS
  <2>1. call.at = "login" BY Sizes DEF Init, NoCall, CallType
  <2> QED BY <2>1 DEF SectorInv, Inside
<1>2. SectorInv => SameSector BY DEF SectorInv, Inside, Held, SameSector
<1>3. Types /\ SectorInv /\ [Next]_vars => SectorInv' BY SectorNext
<1> QED BY <1>1, <1>2, <1>3, TypesInit, TypesNext, PTL DEF Spec

\* Every step keeps the comparison of the checksum.
LEMMA SumNext ==
  ASSUME ~MayIgnore, Types, SectorInv, SumInv, [Next]_vars
  PROVE  SumInv'
<1>1. CASE UNCHANGED vars BY <1>1 DEF vars, mem, SumInv, Inside, Here, CsvOf
<1>2. CASE WalkEntry(TRUE)
  <2>1. call.pos \in Dir /\ call.at = "walk"
    BY <1>2, Sizes DEF WalkEntry, Dir, Types, CallType
  <2> SUFFICES ASSUME Inside', Here' < NumCheck, Here' * EntPerSec < mark'[active']
               PROVE  active' \in wrtprt' \/ csv'[CsvOf(active', Here')] = CheckSum(buf')
    BY DEF SumInv
  <2>2. Here' = Here BY <1>2, WalkStep
  <2> DEFINE b == Buf(TRUE)
             bad == Checks /\ CheckSum(b) # csv[CsvOf(active, Here)] /\ call.pos < mark[active]
  <2>3. /\ buf' = b /\ UNCHANGED <<active, csv>>
        /\ mark' = [mark EXCEPT ![active] = IF bad THEN NumDir ELSE mark[active]]
        /\ wrtprt' = IF bad THEN wrtprt \cup {active} ELSE wrtprt
    BY <1>2 DEF WalkEntry
  <2>4. CASE bad BY <2>3, <2>4
  <2>5. CASE ~bad
    <3>1. mark' = mark /\ wrtprt' = wrtprt BY <2>3, <2>5 DEF Types
    <3>2. CASE call.pos % EntPerSec = 0
      <4>1. call.pos = Here * EntPerSec
        <5>1. call.pos = Here * EntPerSec + (call.pos % EntPerSec) /\ Here \in Sector
          BY <2>1, Place DEF Here
        <5>2. Here * EntPerSec \in Int BY <5>1, Sizes DEF Sector
        <5> QED BY <3>2, <5>1, <5>2
      <4> QED BY <2>2, <2>3, <2>5, <3>1, <3>2, <4>1 DEF Checks, CsvOf
    <3>3. CASE call.pos % EntPerSec # 0
      <4>1. b = buf /\ Inside BY <2>1, <3>3 DEF Buf, Inside
      <4> QED BY <2>2, <2>3, <3>1, <4>1 DEF SumInv, CsvOf
    <3> QED BY <3>2, <3>3
  <2> QED BY <2>4, <2>5
<1>3. CASE UpdateErase(TRUE)
  <2>1. call.pos \in Dir /\ call \in CallType
    BY <1>3, Sizes DEF UpdateErase, Dir, Types, CallType
  <2>2. DirWrite(Put(Erased), TRUE) /\ active' = active BY <1>3 DEF UpdateErase
  <2>3. call'.at = "walk" /\ call'.pos = call.pos + 1
    <3>1. \A at \in Places, pos \in Positions :
            To(call, at, pos).at = at /\ To(call, at, pos).pos = pos
      BY <2>1, CallGoes
    <3>2. "walk" \in Places /\ call.pos + 1 \in Positions
      BY <2>1, Sizes DEF Places, Dir, Positions
    <3> QED BY <1>3, <3>1, <3>2 DEF UpdateErase
  <2>4. Inside' => Here' = Here BY <2>1, <2>3, GoesOn
  <2>5. Here < NumCheck => csv'[CsvOf(active, Here)] = CheckSum(buf')
    BY <2>1, <2>2, Seals
  <2> QED BY <2>2, <2>4, <2>5 DEF SumInv, CsvOf
<1>4. CASE Next /\ ~WalkEntry(TRUE) /\ ~UpdateErase(TRUE)
  BY <1>4, Outside DEF Next, Steps, Outcome, SumInv
<1> QED BY <1>1, <1>2, <1>3, <1>4

\* When a search has found its entry, the sector it lies in is the one that
\* was logged in, as far as checksums tell, or the drive is read only.
THEOREM NoticedCorrect == ASSUME ~MayIgnore PROVE Spec => []Noticed
<1>1. Init => SectorInv /\ SumInv
  <2> SUFFICES ASSUME Init PROVE SectorInv /\ SumInv OBVIOUS
  <2>1. call.at = "login" BY Sizes DEF Init, NoCall, CallType
  <2> QED BY <2>1 DEF SectorInv, SumInv, Inside
<1>2. SectorInv /\ SumInv => Noticed BY DEF SectorInv, SumInv, Inside, Held, Noticed
<1>3. Types /\ SectorInv /\ SumInv /\ [Next]_vars => SectorInv' /\ SumInv'
  BY SectorNext, SumNext
<1> QED BY <1>1, <1>2, <1>3, TypesInit, TypesNext, PTL DEF Spec
-----------------------------------------------------------------------------
(* False alarms.  If the checksum vectors do not overlap and the program     *)
(* never logs off its current drive, the checksums of a drive that is logged *)
(* in are those of its disk.                                                 *)

\* The login of the drive has already seen the sector.
Known(d, s) == d = active /\ call.at = "login" => s * EntPerSec < call.pos
Fresh(d, s) == csv[CsvOf(d, s)] = CheckSum(SectorOf(disk[d])[s])

AlarmInv ==
  /\ active \in login /\ wrtprt \subseteq login /\ NoFalseAlarm
  /\ \A d \in login \ swapped, s \in Sector : s < NumCheck /\ Known(d, s) => Fresh(d, s)

\* The vectors of the drives in use do not overlap: a drive is far enough above
\* the next lower one for its table to begin after that one's last place.
CsvApart == \A d, e \in Drive : d < e => d * CsvStride + NumCheck <= e * CsvStride
AlvApart == \A d, e \in Drive : d < e => d * AlvStride + NumBlock <= e * AlvStride

\* Tables of length n that begin so far apart share no place.
LEMMA Apart ==
  ASSUME NEW n \in Nat, NEW w \in Nat, NEW d \in Drive, NEW e \in Drive,
         \A x, y \in Drive : x < y => x * w + n <= y * w,
         NEW s \in Nat, NEW r \in Nat, s < n, r < n, d * w + s = e * w + r
  PROVE  d = e /\ s = r
<1>1. d \in Nat /\ e \in Nat BY TableAssumption
<1>2. (d < e => d * w + n <= e * w) /\ (e < d => e * w + n <= d * w) OBVIOUS
<1> DEFINE a == d * w
           b == e * w
<1>3. a \in Nat /\ b \in Nat BY <1>1
<1>4. d = e
  <2>1. (d < e => a + n <= b) /\ (e < d => b + n <= a) /\ a + s = b + r BY <1>2
  <2> HIDE DEF a, b
  <2> QED BY <1>1, <1>3, <2>1
<1>5. a + s = a + r BY <1>4
<1>6. s = r
  <2> HIDE DEF a
  <2> QED BY <1>3, <1>5
<1> QED BY <1>4, <1>6

\* No two checksums share a place.
LEMMA Strides ==
  ASSUME CsvApart, NEW d \in Drive, NEW e \in Drive,
         NEW s \in Nat, NEW r \in Nat, s < NumCheck, r < NumCheck, CsvOf(d, s) = CsvOf(e, r)
  PROVE  d = e /\ s = r
BY Apart, TableAssumption DEF CsvApart, CsvOf

\* A login that has just begun has seen no sector.
LEMMA NoSector == ASSUME NEW s \in Sector PROVE ~(s * EntPerSec < 0)
BY Sizes DEF Sector

\* Selecting a drive, with or without a login, keeps the checksums.
LEMMA AlarmSelect ==
  ASSUME Types, AlarmInv, NEW d \in Drive, NEW c \in CallType, UNCHANGED <<disk, csv>>,
         \/ StartLogin(d, {}, c) /\ wrtprt' = {}
         \/ SetDsk(d, c) /\ call.at # "login" /\ UNCHANGED <<wrtprt, guarded>>
  PROVE  AlarmInv'
<1>1. CASE StartLogin(d, {}, c) /\ wrtprt' = {}
  <2>1. active' = d /\ login' = {d} /\ call'.at = "login" /\ call'.pos = 0
    BY <1>1, LoggingIn DEF StartLogin
  <2> QED BY <1>1, <2>1, NoSector DEF AlarmInv, NoFalseAlarm, Known
<1>2. CASE SetDsk(d, c) /\ call.at # "login" /\ UNCHANGED <<wrtprt, guarded>>
  <2>1. \A e \in login \ swapped, s \in Sector : s < NumCheck => Fresh(e, s)
    BY <1>2 DEF AlarmInv, Known
  <2>2. CASE d = active \/ d \in login
    BY <1>2, <2>1, <2>2 DEF SetDsk, AlarmInv, NoFalseAlarm, Fresh, CsvOf
  <2>3. CASE ~(d = active \/ d \in login)
    <3>1. StartLogin(d, login, c) BY <1>2, <2>3 DEF SetDsk
    <3>2. /\ active' = d /\ login' = login \cup {d} /\ swapped' = swapped \cap (login \ {d})
          /\ call'.at = "login" /\ call'.pos = 0
      BY <3>1, LoggingIn DEF StartLogin
    <3>3. wrtprt' \subseteq login' /\ NoFalseAlarm'
      BY <1>2, <2>3, <3>2 DEF AlarmInv, NoFalseAlarm
    <3>4. ASSUME NEW e \in login' \ swapped', NEW s \in Sector, s < NumCheck, Known(e, s)'
          PROVE  Fresh(e, s)'
      <4>1. e # d BY <3>2, <3>4, NoSector DEF Known
      <4>2. e \in login \ swapped BY <3>2, <3>4, <4>1
      <4> QED BY <2>1, <3>4, <4>2 DEF Fresh, CsvOf
    <3> QED BY <3>2, <3>3, <3>4 DEF AlarmInv
  <2> QED BY <2>2, <2>3
<1> QED BY <1>1, <1>2

\* A write, and the login of a sector, seal what is on the disk.
LEMMA AlarmWrite ==
  ASSUME CsvApart, Types, AlarmInv, call.pos \in Dir,
         NEW e \in Entry, DirWrite(Put(e), TRUE), call.at = "update", call'.at # "login",
         UNCHANGED <<active, login, wrtprt, swapped, guarded>>
  PROVE  AlarmInv'
<1>1. active \in Drive /\ Here \in Sector BY BufType DEF Types
<1>2. ASSUME NEW d \in login \ swapped, NEW s \in Sector, s < NumCheck
      PROVE  Fresh(d, s)'
  <2>1. Fresh(d, s) /\ d \in Drive BY <1>2 DEF AlarmInv, Known, Types
  <2>2. CASE d = active /\ s = Here
    <3>1. SectorOf(disk'[active])[Here] = buf' BY Written
    <3>2. csv'[CsvOf(active, Here)] = CheckSum(buf') BY <1>2, <2>2, Seals
    <3> QED BY <2>2, <3>1, <3>2 DEF Fresh, CsvOf
  <2>3. CASE d # active \/ s # Here
    <3>1. SectorOf(disk'[d])[s] = SectorOf(disk[d])[s] BY <2>1, <2>3, Written
    <3>2. s \in Nat /\ Here \in Nat BY <1>1 DEF Sector
    <3>3. csv'[CsvOf(d, s)] = csv[CsvOf(d, s)]
      <4>1. CASE Here < NumCheck
        <5>1. CsvOf(d, s) # CsvOf(active, Here) BY <1>1, <1>2, <2>1, <2>3, <3>2, <4>1, Strides
        <5>2. csv' = [csv EXCEPT ![CsvOf(active, Here)] = CheckSum(Put(e))]
          BY <4>1 DEF DirWrite, Sealed
        <5>3. CsvOf(d, s) \in CsvAddr BY <1>2, <2>1, <3>2, CsvIn
        <5> QED BY <5>1, <5>2, <5>3 DEF Types
      <4>2. CASE ~(Here < NumCheck) BY <4>2 DEF DirWrite, Sealed
      <4> QED BY <4>1, <4>2
    <3> QED BY <2>1, <3>1, <3>3 DEF Fresh, CsvOf
  <2> QED BY <2>2, <2>3
<1> QED BY <1>2 DEF AlarmInv, NoFalseAlarm

\* The login of a sector adds its checksum and keeps all others.
LEMMA AlarmLogin ==
  ASSUME CsvApart, Types, AlarmInv, LoginEntry(TRUE)
  PROVE  AlarmInv'
<1>1. call.pos \in Dir /\ call.at = "login" /\ call \in CallType
  BY Sizes DEF LoginEntry, Dir, Types, CallType
<1>2. call'.pos = call.pos + 1 /\ call'.at = "login"
  BY <1>1 DEF LoginEntry, CallType
<1>3. UNCHANGED <<disk, active, login, wrtprt, swapped, guarded>>
  BY DEF LoginEntry, history
<1>4. active \in Drive /\ Here \in Sector BY <1>1, BufType DEF Types
<1>5. call.pos = Here * EntPerSec + (call.pos % EntPerSec) BY <1>1, Place DEF Here
<1>6. ASSUME NEW d \in login \ swapped, NEW s \in Sector, s < NumCheck, Known(d, s)'
      PROVE  Fresh(d, s)'
  <2>1. d \in Drive /\ s \in Nat /\ Here \in Nat BY <1>4 DEF Types, Sector
  <2>2. CASE d = active /\ s = Here /\ call.pos % EntPerSec = 0
    <3>1. CsvOf(active, Here) \in CsvAddr BY <1>4, <1>6, <2>1, <2>2, CsvIn
    <3>2. csv' = [csv EXCEPT ![CsvOf(active, Here)] = CheckSum(Held)]
      BY <1>6, <2>2 DEF LoginEntry, Checks, Sealed, Buf, Held
    <3> QED BY <1>3, <2>2, <3>1, <3>2 DEF Fresh, CsvOf, Types, Held
  <2>3. CASE ~(d = active /\ s = Here /\ call.pos % EntPerSec = 0)
    <3>1. Known(d, s)
      <4> SUFFICES ASSUME d = active PROVE s * EntPerSec < call.pos BY DEF Known
      <4>1. s * EntPerSec < call.pos + 1 BY <1>2, <1>3, <1>6 DEF Known
      <4>2. s * EntPerSec \in Int /\ call.pos \in Int BY <1>1, <2>1, Sizes DEF Dir
      <4>3. s * EntPerSec # call.pos
        <5>1. ASSUME s * EntPerSec = call.pos PROVE FALSE
          <6>1. 0 \in Slot /\ s * EntPerSec + 0 = call.pos BY <4>2, <5>1, Sizes DEF Slot
          <6>2. call.pos \div EntPerSec = s /\ call.pos % EntPerSec = 0 BY <6>1, Place
          <6> QED BY <2>3, <6>2 DEF Here
        <5> QED BY <5>1
      <4> DEFINE z == s * EntPerSec
      <4> HIDE DEF z
      <4> QED BY <4>1, <4>2, <4>3 DEF z
    <3>2. Fresh(d, s) BY <1>6, <3>1 DEF AlarmInv
    <3>3. csv'[CsvOf(d, s)] = csv[CsvOf(d, s)]
      <4>1. CASE Checks
        <5>1. CsvOf(d, s) # CsvOf(active, Here)
          BY <1>4, <1>6, <2>1, <2>3, <4>1, Strides DEF Checks
        <5>2. csv' = [csv EXCEPT ![CsvOf(active, Here)] = CheckSum(Buf(TRUE))]
          BY <4>1 DEF LoginEntry, Sealed, Checks
        <5>3. CsvOf(d, s) \in CsvAddr BY <1>6, <2>1, CsvIn
        <5> QED BY <5>1, <5>2, <5>3 DEF Types
      <4>2. CASE ~Checks BY <4>2 DEF LoginEntry
      <4> QED BY <4>1, <4>2
    <3> QED BY <1>3, <3>2, <3>3 DEF Fresh, CsvOf
  <2> QED BY <2>2, <2>3
<1> QED BY <1>3, <1>6 DEF AlarmInv, NoFalseAlarm

\* A search raises an alarm only for a disk that was changed.
LEMMA AlarmWalk ==
  ASSUME Types, AlarmInv, WalkEntry(TRUE)
  PROVE  AlarmInv'
<1>1. call.pos \in Dir /\ call.at = "walk" /\ call \in CallType
  BY Sizes DEF WalkEntry, Dir, Types, CallType
<1>2. call'.at # "login" BY <1>1, CallStep
<1>3. Here \in Sector /\ active \in Drive BY <1>1, BufType DEF Types
<1> DEFINE b == Buf(TRUE)
           bad == Checks /\ CheckSum(b) # csv[CsvOf(active, Here)] /\ call.pos < mark[active]
<1>4. /\ UNCHANGED <<disk, active, login, csv, swapped, guarded>>
      /\ wrtprt' = IF bad THEN wrtprt \cup {active} ELSE wrtprt
  BY DEF WalkEntry, history
<1>5. bad => active \in swapped
  <2> SUFFICES ASSUME bad, active \notin swapped PROVE FALSE OBVIOUS
  <2>1. Fresh(active, Here) BY <1>1, <1>3 DEF AlarmInv, Known, Checks
  <2>2. b = SectorOf(disk[active])[Here] BY DEF Buf, Checks
  <2> QED BY <2>1, <2>2 DEF Fresh
<1>6. \A d \in login \ swapped, s \in Sector : s < NumCheck => Fresh(d, s)
  BY <1>1 DEF AlarmInv, Known
<1> HIDE DEF bad
<1>7. active' \in login' /\ wrtprt' \subseteq login' /\ NoFalseAlarm'
  BY <1>4, <1>5 DEF AlarmInv, NoFalseAlarm
<1>8. \A d \in login' \ swapped', s \in Sector : s < NumCheck => Fresh(d, s)'
  BY <1>4, <1>6 DEF Fresh, CsvOf
<1> QED BY <1>7, <1>8 DEF AlarmInv

\* Every step keeps the checksums of the drives that are logged in.
LEMMA AlarmNext ==
  ASSUME ~MayIgnore, ~LogOffActive, CsvApart, Types, AlarmInv, [Next]_vars
  PROVE  AlarmInv'
<1>1. call \in CallType /\ active \in Drive /\ NoCall \in CallType /\ login \subseteq Drive
  BY Sizes DEF Types
<1>2. CASE Restart \/ RstDsk
  BY <1>1, <1>2, AlarmSelect, Sizes DEF Restart, RstDsk
<1>3. CASE \E d \in Drive : SelectDisk(d)
  BY <1>1, <1>3, AlarmSelect DEF SelectDisk, Idle
<1>4. CASE CloseNothing \/ WalkEnds
  <2>1. call.old \in Drive BY <1>1 DEF CallType
  <2> QED BY <1>1, <1>4, <2>1, AlarmSelect DEF CloseNothing, WalkEnds, Back
<1>5. CASE \E op \in {"open", "make", "close", "erase", "write"}, d \in Drive : Begin(op, d)
  <2>1. PICK op \in {"open", "make", "close", "erase", "write"}, d \in Drive : Begin(op, d)
    BY <1>5
  <2>2. Started(op) \in CallType BY <1>1, CallBegins
  <2> QED BY <2>1, <2>2, AlarmSelect DEF Begin, Idle
<1>6. CASE \E S \in SUBSET Drive : LogOff(S)
  <2>1. PICK S \in SUBSET Drive : LogOff(S) BY <1>6
  <2>2. /\ active \notin S /\ login' = login \ S /\ wrtprt' = wrtprt \cap login'
        /\ swapped' = swapped \cap login' /\ guarded' = guarded \cap login'
        /\ UNCHANGED <<disk, active, csv, call>>
    BY <2>1 DEF LogOff, mem
  <2> QED BY <2>2 DEF AlarmInv, NoFalseAlarm, Known, Fresh, CsvOf
<1>7. CASE WrtPrtD
  BY <1>7 DEF WrtPrtD, AlarmInv, NoFalseAlarm, Known, Fresh, CsvOf
<1>8. CASE \E d \in Drive, new \in Disks : Change(d, new)
  <2>1. PICK d \in Drive, new \in Disks : Change(d, new) BY <1>8
  <2>2. /\ disk' = [disk EXCEPT ![d] = new] /\ swapped' = swapped \cup {d}
        /\ UNCHANGED <<active, login, wrtprt, csv, call, guarded>>
    BY <2>1 DEF Change, mem
  <2>3. \A e \in Drive \ {d} : disk'[e] = disk[e] BY <2>2 DEF Types
  <2> QED BY <1>1, <2>2, <2>3 DEF AlarmInv, NoFalseAlarm, Known, Fresh, CsvOf
<1>9. CASE LoginEntry(TRUE) BY <1>9, AlarmLogin
<1>10. CASE LoginEnds
  <2>1. UNCHANGED <<disk, active, login, wrtprt, csv, swapped, guarded>>
        /\ call.at = "login" /\ call.pos = NumDir
    BY <1>10 DEF LoginEnds, mem, history
  <2>2. ASSUME NEW s \in Sector PROVE s * EntPerSec < NumDir
    <3>1. 0 \in Slot BY Sizes DEF Slot
    <3>2. s * EntPerSec + 0 \in Dir BY <3>1, Place
    <3>3. s * EntPerSec \in Int BY Sizes DEF Sector
    <3> DEFINE z == s * EntPerSec
    <3> HIDE DEF z
    <3> QED BY <3>2, <3>3, Sizes DEF Dir, z
  <2>3. \A d \in login \ swapped, s \in Sector : s < NumCheck => Fresh(d, s)
    BY <2>1, <2>2 DEF AlarmInv, Known
  <2> QED BY <2>1, <2>3 DEF AlarmInv, NoFalseAlarm, Fresh, CsvOf
<1>11. CASE StartWalk
  <2>1. UNCHANGED <<disk, active, login, wrtprt, csv, swapped, guarded>>
        /\ call.at = "begin"
    BY <1>11 DEF StartWalk, mem, history
  <2> QED BY <2>1 DEF AlarmInv, NoFalseAlarm, Known, Fresh, CsvOf
<1>12. CASE Take \/ UpdateOpen
  <2>1. UNCHANGED <<disk, active, login, wrtprt, csv, swapped, guarded>>
        /\ call.at \in {"begin", "update"}
    BY <1>12 DEF Take, UpdateOpen, mem, history
  <2> QED BY <2>1 DEF AlarmInv, NoFalseAlarm, Known, Fresh, CsvOf
<1>13. CASE WalkEntry(TRUE) BY <1>13, AlarmWalk
<1>14. CASE UpdateMake(TRUE) \/ UpdateClose(TRUE) \/ UpdateErase(TRUE)
  <2>1. /\ call.at = "update" /\ call.pos \in Dir
        /\ UNCHANGED <<active, login, wrtprt, swapped, guarded>>
    <3>1. call.at = "update" /\ UNCHANGED <<active, login, wrtprt, history>>
      BY <1>14 DEF UpdateMake, UpdateClose, UpdateErase
    <3>2. call.pos \in Dir BY <1>1, <3>1, Sizes DEF Types, CallType, Dir
    <3> QED BY <3>1, <3>2 DEF history
  <2>2. call'.at # "login" BY <1>14, <2>1, CallStep
  <2>3. Item(buf) \in Entry BY <2>1, Place DEF Item, Types
  <2>4. CASE UpdateMake(TRUE)
    <3>1. [live |-> TRUE, own |-> TRUE, blk |-> 0] \in Entry BY Sizes DEF Entry
    <3> QED BY <2>1, <2>2, <2>4, <3>1, AlarmWrite DEF UpdateMake
  <2>5. CASE UpdateErase(TRUE) BY <2>1, <2>2, <2>5, AlarmWrite, Sizes DEF UpdateErase
  <2>6. CASE UpdateClose(TRUE)
    <3> DEFINE e == Item(buf)
               n == [e EXCEPT !.blk = IF @ = 0 THEN fcb.blk ELSE @]
    <3>1. n \in Entry
      <4>1. fcb.blk \in Block BY DEF Types, FcbType
      <4> HIDE DEF e
      <4> QED BY <2>3, <4>1 DEF Entry, e
    <3>2. CASE DirWrite(Put(n), TRUE)
      <4> HIDE DEF n
      <4> QED BY <2>1, <2>2, <3>1, <3>2, AlarmWrite
    <3>3. CASE UNCHANGED <<disk, csv, buf>>
      BY <2>1, <2>2, <3>3 DEF AlarmInv, NoFalseAlarm, Known, Fresh, CsvOf
    <3> QED BY <2>6, <3>2, <3>3 DEF UpdateClose
  <2> QED BY <1>14, <2>4, <2>5, <2>6
<1>15. CASE UNCHANGED vars
  BY <1>15 DEF vars, mem, history, AlarmInv, NoFalseAlarm, Known, Fresh, CsvOf
<1> QED
  BY <1>2, <1>3, <1>4, <1>5, <1>6, <1>7, <1>8, <1>9, <1>10, <1>11, <1>12, <1>13, <1>14, <1>15
  DEF Next, Program, Steps, Outcome

(* The BDOS makes a drive read only by itself only if its disk was changed, *)
(* if the checksum vectors do not overlap.                                   *)
LEMMA NoFalseAlarmApart ==
  ASSUME ~MayIgnore, ~LogOffActive, CsvApart
  PROVE  Spec => []NoFalseAlarm
<1>1. Init => AlarmInv
  <2> SUFFICES ASSUME Init PROVE AlarmInv OBVIOUS
  <2>1. call.at = "login" /\ call.pos = 0 BY Sizes DEF Init, NoCall, CallType
  <2> QED BY <2>1, NoSector DEF Init, AlarmInv, NoFalseAlarm, Known
<1>2. AlarmInv => NoFalseAlarm BY DEF AlarmInv
<1>3. Types /\ AlarmInv /\ [Next]_vars => AlarmInv' BY AlarmNext
<1> QED BY <1>1, <1>2, <1>3, TypesInit, TypesNext, PTL DEF Spec

\* With drive A alone, all that the tables of the BIOS have room for, the BDOS
\* makes the drive read only by itself only if its disk was changed: its own
\* writes, logins, searches and warm boots never look like a change.
THEOREM NoFalseAlarmCorrect ==
  ASSUME ~MayIgnore, ~LogOffActive, Drive = {0}
  PROVE  Spec => []NoFalseAlarm
<1>1. CsvApart BY DEF CsvApart
<1> QED BY <1>1, NoFalseAlarmApart
-----------------------------------------------------------------------------
(* Free blocks.  If the allocation vectors do not overlap and the disks that *)
(* are put in are undamaged, the vector of a drive that is logged in has the *)
(* blocks of its disk.                                                       *)

\* What each call may rely on: the file to be made is not there, no file is
\* open during an erase, a write is on the drive of its file, and what is to be
\* updated is what was searched for.
Unowned == \A i \in Dir : disk[active][i].live => ~disk[active][i].own
CallInv ==
  /\ call.at = "idle" => call.op = "none"
  /\ call.op = "make" => (call.at = "walk" /\ call.pos = NumDir) \/ Unowned
  /\ call.op = "erase" => ~fcb.open
  /\ call.op = "write" => fcb.open /\ fcb.drive = active
  /\ call.at = "update" => Wanted(Item(buf))

\* The block of a file is safe from FNDSPACE; that of the program's own file has
\* to be only while its FCB has none.
Counted(d, i) == /\ disk[d][i].live /\ disk[d][i].blk # 0
                 /\ disk[d][i].own => fcb.open /\ fcb.drive = d /\ fcb.blk = 0
Reached(d, i) == d = active /\ call.at = "login" => i < call.pos
Reserved(d) ==
  /\ \A b \in DirBlock : BitAddr(d, b) \in alv
  /\ \A i \in Dir : Counted(d, i) /\ Reached(d, i) => BitAddr(d, disk[d][i].blk) \in alv
SpaceInv ==
  /\ active \in login
  /\ \A d \in Drive : Sound(disk[d])
  /\ \A d \in login \ swapped : Reserved(d)

\* Every call keeps what it relies on.
LEMMA CallNext ==
  ASSUME Types, CallInv, [Next]_vars
  PROVE  CallInv'
<1>1. call \in CallType /\ active \in Drive /\ NoCall \in CallType /\ NoCall.op = "none"
  BY Sizes DEF Types, NoCall
<1>2. CASE Restart \/ RstDsk
  <2>1. call'.op = "none" /\ call'.at = "login"
    BY <1>1, <1>2, Sizes, LoggingIn DEF Restart, RstDsk
  <2> QED BY <2>1 DEF CallInv
<1>3. CASE (\E d \in Drive : SelectDisk(d)) \/ CloseNothing \/ WalkEnds
  <2>1. \E d \in Drive : SetDsk(d, NoCall)
    BY <1>1, <1>3 DEF SelectDisk, CloseNothing, WalkEnds, Back, CallType
  <2>2. call'.op = "none" /\ call'.at # "update" BY <1>1, <2>1, Selecting, NoCallIs
  <2> QED BY <2>2 DEF CallInv
<1>4. CASE \E op \in {"open", "make", "close", "erase", "write"}, d \in Drive : Begin(op, d)
  <2>1. PICK op \in {"open", "make", "close", "erase", "write"}, d \in Drive : Begin(op, d)
    BY <1>4
  <2>2. /\ Started(op) \in CallType /\ Started(op).then = "begin" /\ Started(op).op = op
    BY <1>1, CallBegins
  <2>3. MayCall(op, d) /\ SetDsk(d, Started(op)) /\ UNCHANGED <<disk, fcb>>
    BY <2>1 DEF Begin
  <2>4. active' = d /\ call'.op = op /\ call'.at \in {"begin", "login"}
    BY <2>2, <2>3, Selecting
  <2>5. op = "make" => Unowned'
    BY <2>3, <2>4 DEF MayCall, Unowned
  <2>6. (op = "erase" => ~fcb.open) /\ (op = "write" => fcb.open /\ fcb.drive = d)
    BY <2>3 DEF MayCall
  <2> QED BY <2>3, <2>4, <2>5, <2>6 DEF CallInv
<1>5. CASE (\E S \in SUBSET Drive : LogOff(S)) \/ WrtPrtD
           \/ (\E d \in Drive, new \in Disks : Change(d, new))
  <2>1. call' = call /\ call.at = "idle" BY <1>5 DEF LogOff, WrtPrtD, Change, Idle
  <2> QED BY <2>1 DEF CallInv
<1>6. CASE LoginEnds
  <2>1. UNCHANGED <<disk, active, fcb>> /\ call.at = "login" BY <1>6 DEF LoginEnds
  <2>2. \/ call'.op = "none" /\ call'.at = "idle"
        \/ call'.op = call.op /\ call'.at = "begin"
    BY <1>1, <1>6, LoginCall, NoCallIs
  <2> QED BY <2>1, <2>2 DEF CallInv, Unowned
<1>7. CASE StartWalk
  <2>1. (active \in wrtprt) \in BOOLEAN OBVIOUS
  <2>2. call'.op = call.op /\ call'.at = "walk" BY <1>1, <1>7, <2>1, CallWalks DEF StartWalk
  <2>3. UNCHANGED <<disk, active, fcb>> /\ call.at = "begin" BY <1>7 DEF StartWalk
  <2> QED BY <2>2, <2>3 DEF CallInv, Unowned
<1>8. CASE \E ok \in Outcome : LoginEntry(ok)
  <2>1. PICK ok : LoginEntry(ok) BY <1>8
  <2>2. call'.op = call.op /\ call'.at = "login" /\ call.at = "login"
        /\ UNCHANGED <<disk, active, fcb>>
    BY <2>1, CallStep DEF LoginEntry
  <2> QED BY <2>2 DEF CallInv, Unowned
<1>9. CASE \E ok \in Outcome : WalkEntry(ok)
  <2>1. PICK ok : WalkEntry(ok) BY <1>9
  <2>2. /\ call'.op = call.op /\ call.at = "walk" /\ call.pos < NumDir
        /\ call'.at # "idle" /\ UNCHANGED <<disk, active, fcb>> /\ buf' = Buf(ok)
    BY <2>1, CallStep DEF WalkEntry
  <2>3. call.pos # NumDir BY <1>1, <2>2, Sizes DEF CallType
  <2>4. call'.at = "update" => call'.pos = call.pos /\ Wanted(Item(Buf(ok)))
    BY <1>1, <2>1 DEF WalkEntry, CallType
  <2>5. call'.at = "update" => Wanted(Item(buf))'
    <3>1. call'.at = "update" => Item(buf)' = Item(Buf(ok)) BY <2>2, <2>4 DEF Item
    <3> QED BY <2>2, <2>4, <3>1 DEF Wanted
  <2> QED BY <2>2, <2>3, <2>5 DEF CallInv, Unowned
<1>10. CASE Take \/ UpdateOpen \/ \E ok \in Outcome : UpdateMake(ok) \/ UpdateClose(ok)
  <2>1. PICK ok : Take \/ UpdateOpen \/ UpdateMake(ok) \/ UpdateClose(ok) BY <1>10
  <2>2. /\ call'.op = call.op /\ active' = active /\ call.op \in {"write", "open", "make", "close"}
    BY <2>1, CallStep DEF Take, UpdateOpen, UpdateMake, UpdateClose
  <2>3. call'.at = "walk" /\ call'.pos = NumDir
    <3>1. call' = To(call, "walk", NumDir)
      BY <2>1 DEF Take, UpdateOpen, UpdateMake, UpdateClose, Stop
    <3>2. \A at \in Places, pos \in Positions :
            To(call, at, pos).at = at /\ To(call, at, pos).pos = pos
      BY <1>1, CallGoes
    <3> QED BY <3>1, <3>2, Sizes DEF Places
  <2>4. call.op = "write" => fcb'.open /\ fcb'.drive = active
    <3> SUFFICES ASSUME call.op = "write" PROVE fcb'.open /\ fcb'.drive = active OBVIOUS
    <3>1. Take BY <2>1 DEF UpdateOpen, UpdateMake, UpdateClose
    <3>2. fcb' = fcb \/ \E b : fcb' = [fcb EXCEPT !.blk = b, !.dirty = TRUE]
      BY <3>1 DEF Take
    <3>3. fcb \in FcbType BY DEF Types
    <3> QED BY <3>2, <3>3 DEF CallInv, FcbType
  <2> QED BY <2>2, <2>3, <2>4 DEF CallInv
<1>11. CASE \E ok \in Outcome : UpdateErase(ok)
  <2>1. PICK ok : UpdateErase(ok) BY <1>11
  <2>2. call'.op = call.op /\ call.op = "erase" /\ fcb' = fcb BY <2>1, CallStep DEF UpdateErase
  <2>3. call'.at = "walk"
    <3>1. call.pos + 1 \in Positions
      BY <1>1, <2>1, Sizes DEF UpdateErase, Types, CallType, Positions
    <3>2. \A at \in Places, pos \in Positions : To(call, at, pos).at = at BY <1>1, CallGoes
    <3> QED BY <2>1, <3>1, <3>2 DEF UpdateErase, Places
  <2> QED BY <2>2, <2>3 DEF CallInv
<1>12. CASE UNCHANGED vars BY <1>12 DEF vars, CallInv, Unowned, Item, Wanted
<1> QED
  BY <1>2, <1>3, <1>4, <1>5, <1>6, <1>7, <1>8, <1>9, <1>10, <1>11, <1>12
  DEF Next, Program, Steps

\* Bits of different drives, and of different blocks, are different.
LEMMA Bit ==
  ASSUME AlvApart, NEW d \in Drive, NEW e \in Drive, NEW b \in Block, NEW c \in Block,
         BitAddr(d, b) = BitAddr(e, c)
  PROVE  d = e /\ b = c
<1>1. b \in Nat /\ c \in Nat /\ b < NumBlock /\ c < NumBlock BY TableAssumption DEF Block
<1> QED BY <1>1, Apart, TableAssumption DEF AlvApart, BitAddr

\* The entry in the buffer is that of the directory.
LEMMA HeldItem ==
  ASSUME Types, call.pos \in Dir
  PROVE  Held[call.pos % EntPerSec] = disk[active][call.pos]
<1>1. /\ Here \in Sector /\ call.pos % EntPerSec \in Slot
      /\ call.pos = Here * EntPerSec + (call.pos % EntPerSec)
  BY Place DEF Here
<1>2. SectorOf(disk[active])[Here] = [i \in Slot |-> disk[active][Here * EntPerSec + i]]
  BY <1>1 DEF SectorOf, Slot
<1> QED BY <1>1, <1>2 DEF Held

\* To write the sector of an entry back changes this entry only.
LEMMA EntryWritten ==
  ASSUME Types, call.pos \in Dir, buf = Held, NEW e \in Entry, DirWrite(Put(e), TRUE)
  PROVE  /\ \A d \in Drive : d # active => disk'[d] = disk[d]
         /\ \A i \in Dir : disk'[active][i] = IF i = call.pos THEN e ELSE disk[active][i]
<1> DEFINE b == Put(e)
           new == [i \in Dir |-> IF i \div EntPerSec = Here THEN b[i % EntPerSec]
                                 ELSE disk[active][i]]
<1>1. Here \in Sector /\ call.pos % EntPerSec \in Slot BY Place DEF Here
<1>2. \A j \in Slot : b[j] = IF j = call.pos % EntPerSec THEN e ELSE buf[j]
  BY <1>1 DEF Put, Types
<1>3. \A j \in Slot : buf[j] = disk[active][Here * EntPerSec + j]
  <2>1. Held = [j \in Slot |-> disk[active][Here * EntPerSec + j]]
    BY <1>1 DEF Held, SectorOf, Slot
  <2> QED BY <2>1
<1>4. disk' = [disk EXCEPT ![active] = new] BY DEF DirWrite
<1>5. disk'[active] = new /\ \A d \in Drive : d # active => disk'[d] = disk[d]
  <2> HIDE DEF new
  <2> QED BY <1>4 DEF Types
<1> HIDE DEF b
<1>6. ASSUME NEW i \in Dir
      PROVE  new[i] = IF i = call.pos THEN e ELSE disk[active][i]
  <2>1. /\ i % EntPerSec \in Slot /\ i = (i \div EntPerSec) * EntPerSec + (i % EntPerSec)
        /\ call.pos = Here * EntPerSec + (call.pos % EntPerSec)
    BY Place DEF Here
  <2>2. CASE i \div EntPerSec = Here
    <3>1. new[i] = b[i % EntPerSec] BY <2>2
    <3>2. disk[active][i] = buf[i % EntPerSec] BY <1>3, <2>1, <2>2
    <3>3. i = call.pos <=> i % EntPerSec = call.pos % EntPerSec BY <2>1, <2>2
    <3> QED BY <1>2, <2>1, <3>1, <3>2, <3>3
  <2>3. CASE i \div EntPerSec # Here BY <2>3 DEF Here
  <2> QED BY <2>2, <2>3
<1> QED BY <1>5, <1>6

\* A login has the sector of its next entry, unless it has to read it first.
LoginInv == call.at = "login" /\ call.pos \in Dir /\ call.pos % EntPerSec # 0 => buf = Held

LEMMA LoginStep ==
  ASSUME Types, Next, call'.at = "login"
  PROVE  call'.pos = 0 \/ \E ok \in Outcome : LoginEntry(ok)
<1>1. call \in CallType /\ active \in Drive /\ NoCall \in CallType BY Sizes DEF Types
<1>2. CASE Restart \/ RstDsk BY <1>2, Sizes, LoggingIn DEF Restart, RstDsk
<1>3. CASE (\E d \in Drive : SelectDisk(d)) \/ CloseNothing \/ WalkEnds
  <2>1. \E d \in Drive : SetDsk(d, NoCall)
    BY <1>1, <1>3 DEF SelectDisk, CloseNothing, WalkEnds, Back, CallType
  <2> QED BY <1>1, <2>1, Selecting
<1>4. CASE \E op \in {"open", "make", "close", "erase", "write"}, d \in Drive : Begin(op, d)
  <2>1. PICK op \in {"open", "make", "close", "erase", "write"}, d \in Drive : Begin(op, d)
    BY <1>4
  <2> QED BY <1>1, <2>1, CallBegins, Selecting DEF Begin
<1>5. CASE (\E S \in SUBSET Drive : LogOff(S)) \/ WrtPrtD
           \/ (\E d \in Drive, new \in Disks : Change(d, new))
  BY <1>5 DEF LogOff, WrtPrtD, Change, Idle
<1>6. CASE LoginEnds BY <1>6, LoginCall, NoCallIs
<1>7. CASE StartWalk
  <2>1. (active \in wrtprt) \in BOOLEAN OBVIOUS
  <2> QED BY <1>1, <1>7, <2>1, CallWalks DEF StartWalk
<1>8. CASE \/ Take \/ UpdateOpen
           \/ \E ok \in Outcome : \/ WalkEntry(ok) \/ UpdateMake(ok)
                                  \/ UpdateClose(ok) \/ UpdateErase(ok)
  <2>1. PICK ok : \/ Take \/ UpdateOpen \/ WalkEntry(ok) \/ UpdateMake(ok)
                  \/ UpdateClose(ok) \/ UpdateErase(ok)
    BY <1>8
  <2>2. call.at = "login" BY <2>1, CallStep
  <2> QED
    BY <2>1, <2>2 DEF Take, UpdateOpen, WalkEntry, UpdateMake, UpdateClose, UpdateErase
<1> QED BY <1>2, <1>3, <1>4, <1>5, <1>6, <1>7, <1>8 DEF Next, Program, Steps

\* Every step of a login keeps its sector in the buffer.
LEMMA LoginNext ==
  ASSUME ~MayIgnore, Types, LoginInv, [Next]_vars
  PROVE  LoginInv'
<1>1. CASE UNCHANGED vars BY <1>1 DEF vars, LoginInv, Held, Here
<1>2. CASE LoginEntry(TRUE)
  <2>1. call.pos \in Dir /\ call.at = "login" /\ call \in CallType
    BY <1>2, Sizes DEF LoginEntry, Dir, Types, CallType
  <2>2. buf' = Held BY <1>2, <2>1 DEF LoginEntry, Buf, LoginInv, Held
  <2>3. UNCHANGED <<disk, active>> BY <1>2 DEF LoginEntry
  <2>4. call'.pos = call.pos + 1 BY <1>2, <2>1 DEF LoginEntry, CallType
  <2>5. call'.pos % EntPerSec # 0 => Here' = Here BY <2>1, <2>4, NextSlot DEF Here
  <2> QED BY <2>2, <2>3, <2>5 DEF LoginInv, Held
<1>3. CASE Next /\ ~LoginEntry(TRUE)
  <2>1. call'.at = "login" => call'.pos = 0 BY <1>3, LoginStep DEF Outcome
  <2>2. 0 % EntPerSec = 0 BY Sizes
  <2> QED BY <2>1, <2>2 DEF LoginInv
<1> QED BY <1>1, <1>2, <1>3

\* A step that takes no block from the vector and adds none to the disk.
LEMMA SpaceSame ==
  ASSUME SpaceInv, active' \in login', login' \ swapped' \subseteq login \ swapped,
         alv \subseteq alv', \A d \in Drive : Sound(disk'[d]),
         \A d \in login' \ swapped', i \in Dir : Counted(d, i)' /\ Reached(d, i)' =>
           Counted(d, i) /\ Reached(d, i) /\ disk'[d][i].blk = disk[d][i].blk
  PROVE  SpaceInv'
<1>1. ASSUME NEW d \in login' \ swapped' PROVE Reserved(d)'
  <2>1. Reserved(d) BY <1>1 DEF SpaceInv
  <2>2. \A b \in DirBlock : BitAddr(d, b) \in alv' BY <2>1 DEF Reserved
  <2>3. ASSUME NEW i \in Dir, Counted(d, i)', Reached(d, i)'
        PROVE  BitAddr(d, disk'[d][i].blk) \in alv'
    BY <1>1, <2>1, <2>3 DEF Reserved
  <2> QED BY <2>2, <2>3 DEF Reserved, BitAddr
<1> QED BY <1>1 DEF SpaceInv

\* Selecting a drive, with or without a login, keeps the vectors of the others.
LEMMA SpaceSelect ==
  ASSUME AlvApart, Types, SpaceInv, NEW d \in Drive, NEW c \in CallType,
         disk' = disk, fcb' = fcb \/ fcb' = Closed,
         StartLogin(d, {}, c) \/ (SetDsk(d, c) /\ call.at # "login")
  PROVE  SpaceInv'
<1>1. \A e \in Drive, i \in Dir : Counted(e, i)' => Counted(e, i)
  BY DEF Counted, Closed
<1>2. ASSUME NEW L, L = {} \/ (L = login /\ call.at # "login"), StartLogin(d, L, c)
      PROVE  SpaceInv'
  <2>1. /\ active' = d /\ login' = L \cup {d} /\ swapped' = swapped \cap (L \ {d})
        /\ call'.at = "login" /\ call'.pos = 0
        /\ alv' = (alv \ Bits(d)) \cup {BitAddr(d, b) : b \in DirBlock}
    BY <1>2, LoggingIn DEF StartLogin
  <2>2. ASSUME NEW e \in login' \ swapped' PROVE Reserved(e)'
    <3>1. CASE e = d
      <4>1. \A i \in Dir : ~Reached(d, i)' BY <2>1 DEF Reached, Dir
      <4> QED BY <2>1, <3>1, <4>1 DEF Reserved, BitAddr
    <3>2. CASE e # d
      <4>1. e \in login \ swapped /\ e \in Drive /\ call.at # "login"
        BY <1>2, <2>1, <2>2, <3>2 DEF Types
      <4>2. Reserved(e) BY <4>1 DEF SpaceInv
      <4>3. DirBlock \subseteq Block BY TableAssumption DEF DirBlock, Block
      <4>4. \A b \in Block : BitAddr(e, b) \in alv => BitAddr(e, b) \in alv'
        BY <2>1, <3>2, <4>1, Bit DEF Bits
      <4>5. \A i \in Dir : disk[e][i].blk \in Block BY <4>1 DEF Types, Entry
      <4>6. ASSUME NEW i \in Dir, Counted(e, i)'
            PROVE  BitAddr(e, disk[e][i].blk) \in alv'
        BY <1>1, <4>1, <4>2, <4>4, <4>5, <4>6 DEF Reserved, Reached
      <4>7. \A b \in DirBlock : BitAddr(e, b) \in alv' BY <4>2, <4>3, <4>4 DEF Reserved
      <4> QED BY <4>6, <4>7 DEF Reserved, BitAddr
    <3> QED BY <3>1, <3>2
  <2> QED BY <2>1, <2>2 DEF SpaceInv
<1>3. CASE SetDsk(d, c) /\ call.at # "login" /\ (d = active \/ d \in login)
  <2>1. active' = d /\ d \in login /\ UNCHANGED <<login, alv, swapped>>
    BY <1>3 DEF SetDsk, SpaceInv
  <2>2. \A e \in login : e \in Drive BY DEF Types
  <2>3. \A e, i : Reached(e, i) BY <1>3 DEF Reached
  <2> QED BY <1>1, <2>1, <2>2, <2>3, SpaceSame DEF SpaceInv
<1> QED BY <1>2, <1>3 DEF SetDsk

\* A search that has found its entry has it in the buffer.
LEMMA Updating ==
  ASSUME Types, SectorInv, CallInv, call.at = "update"
  PROVE  /\ call.pos \in Dir /\ buf = Held /\ Item(buf) \in Entry
         /\ Item(buf) = disk[active][call.pos] /\ Wanted(disk[active][call.pos])
<1>1. call.pos \in Dir BY Sizes DEF Types, CallType, Dir
<1>2. buf = Held BY DEF SectorInv, Inside
<1>3. Item(buf) = disk[active][call.pos] BY <1>1, <1>2, HeldItem DEF Item
<1>4. disk[active][call.pos] \in Entry BY <1>1 DEF Types
<1>5. Wanted(Item(buf)) BY DEF CallInv
<1>6. Wanted(disk[active][call.pos]) BY <1>3, <1>5
<1> QED BY <1>1, <1>2, <1>3, <1>4, <1>6

\* A login adds the block of each entry that it comes to.
LEMMA SpaceLogin ==
  ASSUME Types, LoginInv, SpaceInv, LoginEntry(TRUE)
  PROVE  SpaceInv'
<1>1. call.pos \in Dir /\ call.at = "login" /\ call \in CallType
  BY Sizes DEF LoginEntry, Dir, Types, CallType
<1>2. call'.pos = call.pos + 1 BY <1>1 DEF LoginEntry, CallType
<1>3. UNCHANGED <<disk, active, login, swapped, fcb>> BY DEF LoginEntry, history
<1>4. Buf(TRUE) = Held BY <1>1 DEF Buf, LoginInv, Held
<1>5. Item(Buf(TRUE)) = disk[active][call.pos] BY <1>1, <1>4, HeldItem DEF Item
<1>6. alv' = IF disk[active][call.pos].live
             THEN alv \cup {BitAddr(active, disk[active][call.pos].blk)} ELSE alv
  BY <1>5 DEF LoginEntry
<1>7. ASSUME NEW d \in login \ swapped, NEW i \in Dir, Counted(d, i)', Reached(d, i)'
      PROVE  BitAddr(d, disk[d][i].blk) \in alv'
  <2>1. Counted(d, i) BY <1>3, <1>7 DEF Counted
  <2>2. CASE d = active /\ i = call.pos
    BY <1>6, <2>1, <2>2 DEF Counted
  <2>3. CASE ~(d = active /\ i = call.pos)
    <3>1. Reached(d, i)
      <4> SUFFICES ASSUME d = active PROVE i < call.pos BY DEF Reached
      <4>1. call'.at = "login" BY <1>1, CallStep
      <4>2. i < call.pos + 1 BY <1>2, <1>3, <1>7, <4>1 DEF Reached
      <4> QED BY <1>1, <2>3, <4>2 DEF Dir
    <3>2. Reserved(d) BY <1>7 DEF SpaceInv
    <3> QED BY <1>6, <2>1, <3>1, <3>2 DEF Reserved
  <2> QED BY <2>2, <2>3
<1>8. \A d \in login \ swapped, b \in DirBlock : BitAddr(d, b) \in alv'
  BY <1>6 DEF SpaceInv, Reserved
<1>9. \A d \in login' \ swapped' : Reserved(d)'
  BY <1>3, <1>7, <1>8 DEF Reserved, BitAddr
<1> QED BY <1>3, <1>9 DEF SpaceInv

\* GETEMPTY writes an entry without a block, for a file that is not there.
LEMMA SpaceMake ==
  ASSUME Types, SectorInv, CallInv, SpaceInv, UpdateMake(TRUE)
  PROVE  SpaceInv'
<1> DEFINE e == [live |-> TRUE, own |-> TRUE, blk |-> 0]
<1>1. call.at = "update" /\ call.op = "make" /\ DirWrite(Put(e), TRUE)
      /\ UNCHANGED <<active, login, alv, swapped>>
  BY DEF UpdateMake, history
<1>2. fcb'.open /\ fcb'.drive = active /\ fcb'.blk = 0 BY DEF UpdateMake
<1>3. call.pos \in Dir /\ buf = Held BY <1>1, Updating
<1>4. e \in Entry BY Sizes DEF Entry
<1>5. e.blk = 0 OBVIOUS
<1> HIDE DEF e
<1>6. /\ \A d \in Drive : d # active => disk'[d] = disk[d]
      /\ \A i \in Dir : disk'[active][i] = IF i = call.pos THEN e ELSE disk[active][i]
  BY <1>1, <1>3, <1>4, EntryWritten
<1>7. Unowned BY <1>1 DEF CallInv
<1>8. active \in Drive BY DEF Types
<1>9. Sound(disk'[active]) BY <1>5, <1>6, <1>7, <1>8 DEF SpaceInv, Sound, Unowned
<1>10. \A d \in Drive : Sound(disk'[d]) BY <1>6, <1>9 DEF SpaceInv
<1>11. \A d \in login \ swapped, i \in Dir : Counted(d, i)' =>
         Counted(d, i) /\ Reached(d, i) /\ disk'[d][i].blk = disk[d][i].blk
  <2> SUFFICES ASSUME NEW d \in login \ swapped, NEW i \in Dir, Counted(d, i)'
               PROVE  Counted(d, i) /\ Reached(d, i) /\ disk'[d][i] = disk[d][i]
    OBVIOUS
  <2>1. Reached(d, i) BY <1>1 DEF Reached
  <2>2. d \in Drive BY DEF Types
  <2>3. disk'[d][i] = disk[d][i] BY <1>5, <1>6, <2>2 DEF Counted
  <2>4. ~disk[d][i].own BY <1>2, <1>7, <2>3 DEF Counted, Unowned
  <2> QED BY <2>1, <2>3, <2>4 DEF Counted
<1>12. active' \in login' /\ login' \ swapped' \subseteq login \ swapped /\ alv \subseteq alv'
  BY <1>1 DEF SpaceInv
<1> QED BY <1>1, <1>10, <1>11, <1>12, SpaceSame

\* CLOSEIT writes the block of the FCB into the entry of the file.
LEMMA SpaceClose ==
  ASSUME Types, SectorInv, CallInv, SpaceInv, UpdateClose(TRUE)
  PROVE  SpaceInv'
<1> DEFINE e == Item(buf)
           n == [e EXCEPT !.blk = IF @ = 0 THEN fcb.blk ELSE @]
<1>1. call.at = "update" /\ call.op = "close" /\ UNCHANGED <<active, login, alv, swapped, fcb>>
  BY DEF UpdateClose, history
<1>2. /\ call.pos \in Dir /\ buf = Held /\ e \in Entry /\ e = disk[active][call.pos]
      /\ Wanted(disk[active][call.pos])
  BY <1>1, Updating
<1>3. \A d \in Drive, i \in Dir : disk'[d][i] = disk[d][i] \/
        (d = active /\ i = call.pos /\ disk'[d][i] = n)
  <2>1. CASE DirWrite(Put(n), TRUE)
    <3>1. n \in Entry
      <4>1. fcb.blk \in Block BY DEF Types, FcbType
      <4> HIDE DEF e
      <4> QED BY <1>2, <4>1 DEF Entry
    <3> HIDE DEF n
    <3> QED BY <1>2, <2>1, <3>1, EntryWritten
  <2>2. CASE UNCHANGED disk BY <2>2
  <2> QED BY <2>1, <2>2 DEF UpdateClose
<1>4. e.live /\ e.own BY <1>1, <1>2 DEF Wanted
<1>5. n.live = e.live /\ n.own = e.own /\ n.blk = (IF e.blk = 0 THEN fcb.blk ELSE e.blk)
  <2> HIDE DEF e
  <2> QED BY <1>2 DEF Entry
<1> HIDE DEF n, e
<1>6. \A d \in Drive, i \in Dir :
        /\ disk'[d][i].live = disk[d][i].live /\ disk'[d][i].own = disk[d][i].own
        /\ ~disk[d][i].own => disk'[d][i].blk = disk[d][i].blk
        /\ fcb.blk = 0 => disk'[d][i].blk = disk[d][i].blk
  <2> TAKE d \in Drive, i \in Dir
  <2>1. CASE disk'[d][i] = disk[d][i] BY <2>1
  <2>2. CASE d = active /\ i = call.pos /\ disk'[d][i] = n BY <1>2, <1>4, <1>5, <2>2
  <2> QED BY <1>3, <2>1, <2>2
<1>7. \A d \in Drive : Sound(disk'[d])
  <2> TAKE d \in Drive
  <2>1. Sound(disk[d]) BY DEF SpaceInv
  <2> QED BY <1>6, <2>1 DEF Sound
<1>8. \A d \in login \ swapped, i \in Dir : Counted(d, i)' =>
         Counted(d, i) /\ Reached(d, i) /\ disk'[d][i].blk = disk[d][i].blk
  <2> SUFFICES ASSUME NEW d \in login \ swapped, NEW i \in Dir, Counted(d, i)'
               PROVE  Counted(d, i) /\ Reached(d, i) /\ disk'[d][i].blk = disk[d][i].blk
    OBVIOUS
  <2>1. Reached(d, i) BY <1>1 DEF Reached
  <2>2. d \in Drive BY DEF Types
  <2>3. disk'[d][i].blk = disk[d][i].blk BY <1>1, <1>6, <2>2 DEF Counted
  <2> QED BY <1>1, <1>6, <2>1, <2>2, <2>3 DEF Counted
<1>9. active' \in login' /\ login' \ swapped' \subseteq login \ swapped /\ alv \subseteq alv'
  BY <1>1 DEF SpaceInv
<1> QED BY <1>1, <1>7, <1>8, <1>9, SpaceSame

\* ERAFIL1 gives back the block of the entry, which no other entry has.
LEMMA SpaceErase ==
  ASSUME AlvApart, Types, SectorInv, CallInv, SpaceInv, UpdateErase(TRUE)
  PROVE  SpaceInv'
<1> DEFINE e == disk[active][call.pos]
<1>1. call.at = "update" /\ call.op = "erase" /\ UNCHANGED <<active, login, swapped, fcb>>
      /\ DirWrite(Put(Erased), TRUE)
  BY DEF UpdateErase, history
<1>2. call.pos \in Dir /\ buf = Held /\ e \in Entry /\ Item(buf) = e /\ Wanted(e)
  BY <1>1, Updating
<1>3. alv' = IF e.blk = 0 THEN alv ELSE alv \ {BitAddr(active, e.blk)}
  BY <1>2 DEF UpdateErase
<1>4. /\ \A d \in Drive : d # active => disk'[d] = disk[d]
      /\ \A i \in Dir : disk'[active][i] = IF i = call.pos THEN Erased ELSE disk[active][i]
  BY <1>1, <1>2, EntryWritten, Sizes
<1>5. ~fcb.open /\ e.live /\ ~e.own BY <1>1, <1>2 DEF CallInv, Wanted
<1>6. active \in Drive /\ ~Erased.live BY DEF Types, Erased
<1>7. \A d \in Drive, i \in Dir : disk'[d][i].live =>
        disk'[d][i] = disk[d][i] /\ ~(d = active /\ i = call.pos)
  BY <1>4, <1>6
<1>8. \A d \in Drive : Sound(disk'[d])
  <2> TAKE d \in Drive
  <2>1. Sound(disk[d]) BY DEF SpaceInv
  <2> QED BY <1>7, <2>1 DEF Sound
<1>9. e.blk \in Block BY <1>2 DEF Entry
<1>10. ASSUME NEW d \in Drive, NEW b \in Block, BitAddr(d, b) \in alv, d = active => b # e.blk
       PROVE  BitAddr(d, b) \in alv'
  <2>1. BitAddr(d, b) # BitAddr(active, e.blk) BY <1>6, <1>9, <1>10, Bit
  <2> QED BY <1>3, <1>10, <2>1
<1>11. ASSUME e.blk # 0 PROVE e.blk \notin DirBlock
  <2>1. Sound(disk[active]) BY <1>6 DEF SpaceInv
  <2> QED BY <1>2, <1>5, <1>11, <2>1 DEF Sound
<1>12. ASSUME NEW d \in login' \ swapped' PROVE Reserved(d)'
  <2>1. Reserved(d) /\ d \in Drive BY <1>1, <1>12 DEF SpaceInv, Types
  <2>2. DirBlock \subseteq Block BY TableAssumption DEF DirBlock, Block
  <2>3. ASSUME NEW b \in DirBlock PROVE BitAddr(d, b) \in alv'
    <3>1. BitAddr(d, b) \in alv BY <2>1 DEF Reserved
    <3>2. CASE e.blk = 0 BY <1>3, <3>1, <3>2
    <3>3. CASE e.blk # 0 BY <1>10, <1>11, <2>1, <2>2, <3>1, <3>3
    <3> QED BY <3>2, <3>3
  <2>4. ASSUME NEW i \in Dir, Counted(d, i)' PROVE BitAddr(d, disk'[d][i].blk) \in alv'
    <3>1. disk'[d][i] = disk[d][i] /\ ~(d = active /\ i = call.pos)
      BY <1>7, <2>1, <2>4 DEF Counted
    <3>2. Counted(d, i) /\ ~disk[d][i].own /\ disk[d][i].live /\ disk[d][i].blk # 0
      BY <1>1, <1>5, <2>4, <3>1 DEF Counted
    <3>3. Reached(d, i) BY <1>1 DEF Reached
    <3>4. BitAddr(d, disk[d][i].blk) \in alv BY <2>1, <3>2, <3>3 DEF Reserved
    <3>5. disk[d][i].blk \in Block BY <2>1 DEF Types, Entry
    <3>6. ASSUME d = active PROVE disk[d][i].blk # e.blk
      <4>1. Sound(disk[active]) BY <1>6 DEF SpaceInv
      <4> QED BY <1>2, <1>5, <3>1, <3>2, <3>6, <4>1 DEF Sound
    <3> QED BY <1>10, <2>1, <3>1, <3>4, <3>5, <3>6
  <2> QED BY <2>3, <2>4 DEF Reserved, BitAddr
<1>13. active' \in login' BY <1>1 DEF SpaceInv
<1> QED BY <1>8, <1>12, <1>13 DEF SpaceInv

\* What FNDSPACE does to the FCB.
LEMMA FcbTakes ==
  ASSUME Types, Take, fcb' # fcb
  PROVE  /\ fcb.blk = 0 /\ fcb'.blk \in FreeBlocks
         /\ fcb'.open = fcb.open /\ fcb'.drive = fcb.drive
<1> DEFINE b == CHOOSE x \in FreeBlocks : \A y \in FreeBlocks : x <= y
           f == [fcb EXCEPT !.blk = b]
<1>1. fcb.blk = 0 /\ FreeBlocks # {}
  <2>1. (fcb.blk = 0 /\ FreeBlocks # {}) \/ fcb' = fcb BY Zenon DEF Take
  <2> QED BY <2>1
<1>2. fcb' = [fcb EXCEPT !.blk = b, !.dirty = TRUE] BY <1>1, Zenon DEF Take
<1>3. b \in FreeBlocks BY <1>1, TakenBlock
<1> HIDE DEF b
<1>4. f \in FcbType /\ f.blk = b /\ f.open = fcb.open /\ f.drive = fcb.drive
  BY <1>3 DEF FreeBlocks, Types, FcbType
<1>5. fcb' = [f EXCEPT !.dirty = TRUE] BY <1>2, Zenon
<1> HIDE DEF f
<1>6. fcb'.blk = b /\ fcb'.open = f.open /\ fcb'.drive = f.drive
  BY <1>4, <1>5 DEF FcbType
<1> QED BY <1>1, <1>3, <1>4, <1>6

\* FNDSPACE adds a block to the vector, and to the FCB that had none.
LEMMA SpaceTake ==
  ASSUME Types, CallInv, SpaceInv, Take
  PROVE  SpaceInv'
<1>1. /\ call.at = "begin" /\ UNCHANGED <<disk, active, login, swapped>>
      /\ alv \subseteq alv'
      /\ fcb' = fcb \/ (fcb.blk = 0 /\ fcb.open /\ fcb.drive = active)
  <2>1. call.at = "begin" /\ call.op = "write"
        /\ UNCHANGED <<disk, active, login, swapped>>
        /\ (alv' = alv \/ \E b : alv' = alv \cup {b})
    BY DEF Take, history
  <2> QED BY <2>1, FcbTakes DEF CallInv
<1>2. fcb'.open = fcb.open /\ fcb'.drive = fcb.drive BY FcbTakes
<1>3. \A d \in login \ swapped, i \in Dir : Counted(d, i)' =>
         Counted(d, i) /\ Reached(d, i) /\ disk'[d][i].blk = disk[d][i].blk
  BY <1>1, <1>2 DEF Counted, Reached
<1>4. active' \in login' /\ login' \ swapped' \subseteq login \ swapped
      /\ \A d \in Drive : Sound(disk'[d])
  BY <1>1 DEF SpaceInv
<1> QED BY <1>1, <1>3, <1>4, SpaceSame

\* OPEN takes over the block of the one file of the program.
LEMMA SpaceOpen ==
  ASSUME Types, SectorInv, CallInv, SpaceInv, UpdateOpen
  PROVE  SpaceInv'
<1>1. /\ call.at = "update" /\ call.op = "open"
      /\ UNCHANGED <<disk, active, login, alv, swapped>>
  BY DEF UpdateOpen, mem, history
<1>2. call.pos \in Dir /\ Item(buf) = disk[active][call.pos] /\ Wanted(disk[active][call.pos])
  BY <1>1, Updating
<1>3. disk[active][call.pos].live /\ disk[active][call.pos].own BY <1>1, <1>2 DEF Wanted
<1>4. fcb'.drive = active /\ fcb'.blk = disk[active][call.pos].blk
  BY <1>2 DEF UpdateOpen
<1>5. active \in Drive BY DEF Types
<1>6. ASSUME NEW d \in login \ swapped, NEW i \in Dir, Counted(d, i)'
      PROVE  Counted(d, i) /\ Reached(d, i) /\ disk'[d][i].blk = disk[d][i].blk
  <2>1. disk[d][i].live /\ disk[d][i].blk # 0 BY <1>1, <1>6 DEF Counted
  <2>2. ASSUME disk[d][i].own PROVE FALSE
    <3>1. d = active /\ disk[active][call.pos].blk = 0 BY <1>1, <1>4, <1>6, <2>2 DEF Counted
    <3>2. Sound(disk[active]) BY <1>5 DEF SpaceInv
    <3>3. i = call.pos BY <1>2, <1>3, <2>1, <2>2, <3>1, <3>2 DEF Sound
    <3> QED BY <2>1, <3>1, <3>3
  <2>3. Reached(d, i) BY <1>1 DEF Reached
  <2> QED BY <1>1, <2>1, <2>2, <2>3 DEF Counted
<1>7. active' \in login' /\ login' \ swapped' \subseteq login \ swapped /\ alv \subseteq alv'
      /\ \A d \in Drive : Sound(disk'[d])
  BY <1>1 DEF SpaceInv
<1> QED BY <1>6, <1>7, SpaceSame

\* A login that ends has come to every entry.
LEMMA SpaceEnds ==
  ASSUME Types, SpaceInv, LoginEnds
  PROVE  SpaceInv'
<1>1. /\ call.at = "login" /\ call.pos = NumDir
      /\ UNCHANGED <<disk, active, login, alv, swapped, fcb>>
  BY DEF LoginEnds, mem, history
<1>2. \A d \in Drive, i \in Dir : Reached(d, i) BY <1>1, Sizes DEF Reached, Dir
<1>3. \A d \in login \ swapped, i \in Dir : Counted(d, i)' =>
         Counted(d, i) /\ Reached(d, i) /\ disk'[d][i].blk = disk[d][i].blk
  BY <1>1, <1>2 DEF Counted, Types
<1>4. active' \in login' /\ login' \ swapped' \subseteq login \ swapped /\ alv \subseteq alv'
      /\ \A d \in Drive : Sound(disk'[d])
  BY <1>1 DEF SpaceInv
<1> QED BY <1>3, <1>4, SpaceSame

\* A changed disk is one that was put in.
LEMMA SpaceChange ==
  ASSUME Undamaged, Types, SpaceInv, NEW d \in Drive, NEW new \in Disks, Change(d, new)
  PROVE  SpaceInv'
<1>1. /\ disk' = [disk EXCEPT ![d] = new] /\ swapped' = swapped \cup {d}
      /\ UNCHANGED <<active, login, alv, call, fcb>>
  BY DEF Change, mem
<1>2. disk'[d] = new /\ \A e \in Drive : e # d => disk'[e] = disk[e] BY <1>1 DEF Types
<1>3. \A e \in Drive : Sound(disk'[e]) BY <1>2 DEF SpaceInv, Undamaged
<1>4. \A e \in login' \ swapped' : e \in login \ swapped /\ disk'[e] = disk[e]
  BY <1>1, <1>2 DEF Types
<1>5. \A e \in login' \ swapped', i \in Dir : Counted(e, i)' /\ Reached(e, i)' =>
         Counted(e, i) /\ Reached(e, i) /\ disk'[e][i].blk = disk[e][i].blk
  BY <1>1, <1>4 DEF Counted, Reached
<1>6. active' \in login' /\ login' \ swapped' \subseteq login \ swapped /\ alv \subseteq alv'
  BY <1>1, <1>4 DEF SpaceInv
<1> QED BY <1>3, <1>5, <1>6, SpaceSame

\* Every step keeps the blocks of the disks in the vectors.
LEMMA SpaceNext ==
  ASSUME ~MayIgnore, ~LogOffActive, AlvApart, Undamaged,
         Types, SectorInv, CallInv, LoginInv, SpaceInv, [Next]_vars
  PROVE  SpaceInv'
<1>1. call \in CallType /\ active \in Drive /\ NoCall \in CallType BY Sizes DEF Types
<1>2. CASE Restart \/ RstDsk
  BY <1>1, <1>2, SpaceSelect, Sizes DEF Restart, RstDsk
<1>3. CASE \E d \in Drive : SelectDisk(d)
  BY <1>1, <1>3, SpaceSelect DEF SelectDisk, Idle
<1>4. CASE CloseNothing \/ WalkEnds
  <2>1. call.old \in Drive BY <1>1 DEF CallType
  <2>2. SetDsk(call.old, NoCall) /\ disk' = disk /\ (fcb' = fcb \/ fcb' = Closed)
        /\ call.at # "login"
    BY <1>4 DEF CloseNothing, WalkEnds, Back
  <2> QED BY <1>1, <2>1, <2>2, SpaceSelect
<1>5. CASE \E op \in {"open", "make", "close", "erase", "write"}, d \in Drive : Begin(op, d)
  <2>1. PICK op \in {"open", "make", "close", "erase", "write"}, d \in Drive : Begin(op, d)
    BY <1>5
  <2>2. Started(op) \in CallType BY <1>1, CallBegins
  <2> QED BY <2>1, <2>2, SpaceSelect DEF Begin, Idle
<1>6. CASE \/ \E S \in SUBSET Drive : LogOff(S)
           \/ WrtPrtD \/ StartWalk \/ WalkEntry(TRUE) \/ UNCHANGED vars
  <2>1. /\ active' \in login' /\ login' \ swapped' \subseteq login \ swapped
        /\ UNCHANGED <<disk, active, alv, fcb>>
    BY <1>6 DEF LogOff, WrtPrtD, StartWalk, WalkEntry, vars, mem, history, SpaceInv
  <2>2. call.at # "login" \/ call' = call
    BY <1>6 DEF LogOff, WrtPrtD, StartWalk, WalkEntry, vars, Idle
  <2>3. \A d \in login' \ swapped', i \in Dir : Counted(d, i)' /\ Reached(d, i)' =>
           Counted(d, i) /\ Reached(d, i) /\ disk'[d][i].blk = disk[d][i].blk
    BY <2>1, <2>2 DEF Counted, Reached
  <2>4. \A d \in Drive : Sound(disk'[d]) BY <2>1 DEF SpaceInv
  <2> QED BY <2>1, <2>3, <2>4, SpaceSame
<1>7. CASE \E d \in Drive, new \in Disks : Change(d, new) BY <1>7, SpaceChange
<1>8. CASE LoginEntry(TRUE) BY <1>8, SpaceLogin
<1>9. CASE LoginEnds BY <1>9, SpaceEnds
<1>10. CASE Take BY <1>10, SpaceTake
<1>11. CASE UpdateOpen BY <1>11, SpaceOpen
<1>12. CASE UpdateMake(TRUE) BY <1>12, SpaceMake
<1>13. CASE UpdateClose(TRUE) BY <1>13, SpaceClose
<1>14. CASE UpdateErase(TRUE) BY <1>14, SpaceErase
<1> QED
  BY <1>2, <1>3, <1>4, <1>5, <1>6, <1>7, <1>8, <1>9, <1>10, <1>11, <1>12, <1>13, <1>14
  DEF Next, Program, Steps, Outcome

\* What FNDSPACE takes is free.
LEMMA TakesFree ==
  ASSUME Types, CallInv, SpaceInv, Next,
         fcb.open, fcb'.dirty, ~fcb.dirty, fcb'.drive \notin swapped
  PROVE  fcb'.blk \notin UsedOn(fcb'.drive) \cup DirBlock
<1>1. fcb' = fcb \/ fcb' = Closed \/ Take
      \/ fcb' = [open |-> TRUE, drive |-> active, blk |-> Item(buf).blk, dirty |-> FALSE]
      \/ fcb' = [open |-> TRUE, drive |-> active, blk |-> 0, dirty |-> FALSE]
  BY DEF Next, Program, Steps, Restart, RstDsk, SelectDisk, LogOff, WrtPrtD, Begin, Change,
     LoginEntry, LoginEnds, StartWalk, CloseNothing, WalkEntry, WalkEnds, UpdateOpen,
     UpdateMake, UpdateClose, UpdateErase
<1>2. Take BY <1>1 DEF Closed
<1>3. fcb.blk = 0 /\ fcb'.drive = fcb.drive /\ fcb'.blk \in FreeBlocks
  BY <1>2, FcbTakes
<1>4. PICK b \in FreeBlocks : b = fcb'.blk BY <1>3
<1>5. BitAddr(active, b) \notin alv BY DEF FreeBlocks
<1>6. fcb.open /\ fcb.drive = active /\ call.at = "begin" BY <1>2 DEF Take, CallInv
<1>7. Reserved(active) BY <1>3, <1>6 DEF SpaceInv
<1>8. b \notin DirBlock BY <1>5, <1>7 DEF Reserved
<1>9. ASSUME b \in UsedOn(active) PROVE FALSE
  <2>1. PICK i \in Dir : disk[active][i].live /\ b = disk[active][i].blk /\ b # 0
    BY <1>9 DEF UsedOn
  <2>2. Counted(active, i) /\ Reached(active, i) BY <1>3, <1>6, <2>1 DEF Counted, Reached
  <2> QED BY <1>5, <1>7, <2>1, <2>2 DEF Reserved
<1> QED BY <1>3, <1>4, <1>6, <1>8, <1>9

(* No file is ever given a block that an entry of its disk or the directory *)
(* has, if the vectors do not overlap, unless the disk is another one than  *)
(* was logged in.                                                            *)
LEMMA TakeFreeApart ==
  ASSUME ~MayIgnore, ~LogOffActive, AlvApart, Undamaged
  PROVE  Spec => TakeFree
<1> DEFINE IInv == SectorInv /\ CallInv /\ LoginInv /\ SpaceInv
<1>1. Init => IInv
  <2> SUFFICES ASSUME Init PROVE IInv OBVIOUS
  <2>1. call.at = "login" /\ call.pos = 0 /\ call.op = "none"
    BY Sizes DEF Init, NoCall, CallType
  <2>2. SectorInv /\ CallInv /\ LoginInv
    <3>1. 0 % EntPerSec = 0 BY Sizes
    <3> QED BY <2>1, <3>1 DEF SectorInv, Inside, CallInv, LoginInv
  <2>3. \A d \in Drive : Sound(disk[d]) BY DEF Init, Undamaged
  <2>4. Reserved(0)
    <3>1. \A i \in Dir : ~Reached(0, i) BY <2>1 DEF Init, Reached, Dir
    <3> QED BY <3>1 DEF Init, Reserved
  <2>5. SpaceInv BY <2>3, <2>4 DEF Init, SpaceInv
  <2> QED BY <2>2, <2>5
<1>2. Types /\ IInv /\ [Next]_vars => IInv'
  BY SectorNext, CallNext, LoginNext, SpaceNext
<1>3. Types /\ IInv /\ [Next]_vars
      => [fcb.open /\ fcb'.dirty /\ ~fcb.dirty /\ fcb'.drive \notin swapped
          => fcb'.blk \notin UsedOn(fcb'.drive) \cup DirBlock]_vars
  BY TakesFree
<1> HIDE DEF IInv
<1> QED BY <1>1, <1>2, <1>3, TypesInit, TypesNext, PTL DEF Spec, TakeFree

\* With drive A alone, all that the tables of the BIOS have room for, no file
\* is ever given a block that an entry of the disk or the directory has,
\* whatever was logged in, written, erased or broken off before; unless the
\* disk is another one than was logged in.
THEOREM TakeFreeCorrect ==
  ASSUME ~MayIgnore, ~LogOffActive, Drive = {0}, Undamaged
  PROVE  Spec => TakeFree
<1>1. AlvApart BY DEF AlvApart
<1> QED BY <1>1, TakeFreeApart
-----------------------------------------------------------------------------
(* The types in full.  A checksum is a fold over the bytes of a sector, in  *)
(* an order that is not fixed; that it gives a number is an induction over  *)
(* the sets of slots.                                                       *)

\* Every entry of a sector has a number, and a sector has finitely many.
LEMMA SlotFinite == IsFiniteSet(Slot)
BY Sizes, FS_Interval DEF Slot

\* What holds of 0 and is passed on holds of every number: a set that has 0
\* and the successor of each of its members has them all.
LEMMA AllNaturals ==
  ASSUME NEW S, 0 \in S, \A k \in Nat : k \in S => k + 1 \in S
  PROVE  \A n \in Nat : n \in S
<1> DEFINE B == {n \in Nat : n \notin S}
<1> SUFFICES ASSUME B # {} PROVE FALSE
  OBVIOUS
<1>1. PICK m \in B : \A k \in B : m <= k
  <2> HIDE DEF B
  <2>1. B \subseteq Nat BY DEF B
  <2> QED BY <2>1, LeastNatural
<1>2. m # 0 /\ m - 1 \in Nat BY <1>1
<1>3. m - 1 \notin B
  <2> HIDE DEF B
  <2> QED BY <1>1, <1>2 DEF B
<1> QED BY <1>2, <1>3

(* The sum of a sector is a number, whichever order it is taken in.         *)

Some(S) == CHOOSE x \in S : TRUE
Rest(S) == S \ {Some(S)}
Small(k) == {S \in SUBSET Slot : Cardinality(S) <= k}
SumStep(h, f, S) == IF S = {} THEN 0 ELSE f[Some(S)] + h[Rest(S)]

LEMMA SmallSets ==
  /\ Small(0) = {{}}
  /\ \A k \in Nat : \A S \in Small(k + 1) : S # {} => Rest(S) \in Small(k) /\ Some(S) \in S
  /\ \E k \in Nat : Small(k) = SUBSET Slot
<1>1. \A S \in SUBSET Slot : IsFiniteSet(S) /\ Cardinality(S) \in Nat
  BY SlotFinite, FS_Subset, FS_CardinalityType
<1>2. Small(0) = {{}}
  BY <1>1, FS_EmptySet DEF Small
<1>3. ASSUME NEW k \in Nat, NEW S \in Small(k + 1), S # {}
      PROVE  Rest(S) \in Small(k) /\ Some(S) \in S
  <2>1. Some(S) \in S BY <1>3 DEF Some
  <2>2. Cardinality(Rest(S)) = Cardinality(S) - 1 /\ Rest(S) \in SUBSET Slot
    BY <1>1, <2>1, FS_RemoveElement DEF Small, Rest
  <2> QED BY <1>1, <2>1, <2>2 DEF Small
<1>4. \E k \in Nat : Small(k) = SUBSET Slot
  <2>1. \A S \in SUBSET Slot : Cardinality(S) <= Cardinality(Slot) BY SlotFinite, FS_Subset
  <2> QED BY <1>1, <2>1 DEF Small
<1> QED BY <1>2, <1>3, <1>4

LEMMA SumExists ==
  ASSUME NEW f, NEW n \in Nat
  PROVE  \E h : h = [S \in Small(n) |-> SumStep(h, f, S)]
<1> DEFINE N == {k \in Nat : \E h : h = [S \in Small(k) |-> SumStep(h, f, S)]}
<1>1. 0 \in N
  <2> DEFINE h == [S \in Small(0) |-> 0]
  <2>1. h = [S \in Small(0) |-> SumStep(h, f, S)]
    <3>1. \A S \in Small(0) : SumStep(h, f, S) = 0 BY SmallSets DEF SumStep
    <3> QED BY <3>1
  <2> QED BY <2>1
<1>2. ASSUME NEW k \in Nat, k \in N PROVE k + 1 \in N
  <2>1. PICK h : h = [S \in Small(k) |-> SumStep(h, f, S)] BY <1>2
  <2> DEFINE g == [S \in Small(k + 1) |-> SumStep(h, f, S)]
  <2>2. \A S \in Small(k) : S \in Small(k + 1) /\ g[S] = h[S]
    <3>1. \A S \in Small(k) : S \in Small(k + 1)
      <4>1. \A S \in Small(k) : Cardinality(S) \in Nat
        BY SlotFinite, FS_Subset, FS_CardinalityType DEF Small
      <4> QED BY <4>1 DEF Small
    <3> QED BY <2>1, <3>1
  <2>3. \A S \in Small(k + 1) : g[S] = SumStep(g, f, S)
    <3> SUFFICES ASSUME NEW S \in Small(k + 1) PROVE g[S] = SumStep(g, f, S)
      OBVIOUS
    <3>1. g[S] = SumStep(h, f, S) OBVIOUS
    <3>2. S # {} => g[Rest(S)] = h[Rest(S)] BY <2>2, SmallSets
    <3> HIDE DEF g
    <3> QED BY <3>1, <3>2 DEF SumStep
  <2>4. g = [S \in Small(k + 1) |-> g[S]] OBVIOUS
  <2>5. g = [S \in Small(k + 1) |-> SumStep(g, f, S)]
    <3> HIDE DEF g
    <3> QED BY <2>3, <2>4
  <2> HIDE DEF g
  <2> QED BY <2>5
<1> HIDE DEF N
<1>3. n \in N BY <1>1, <1>2, AllNaturals
<1> QED BY <1>3 DEF N

Sum(D, f) == (CHOOSE h : h = [S \in SUBSET D |-> SumStep(h, f, S)])[D]

LEMMA SumIs ==
  ASSUME NEW f
  PROVE  SumFunction(f) = Sum(DOMAIN f, f)
BY DEF SumFunction, SumFunctionOnSet, FoldFunctionOnSet, MapThenFoldSet, Sum, SumStep, Some, Rest

LEMMA SumType ==
  ASSUME NEW f \in [Slot -> Int]
  PROVE  SumFunction(f) \in Int
<1> DEFINE h == CHOOSE h : h = [S \in SUBSET Slot |-> SumStep(h, f, S)]
<1>1. SumFunction(f) = h[Slot]
  <2>1. DOMAIN f = Slot OBVIOUS
  <2> QED BY <2>1, SumIs DEF Sum
<1>2. \E g : g = [S \in SUBSET Slot |-> SumStep(g, f, S)]
  <2>1. PICK k \in Nat : Small(k) = SUBSET Slot BY SmallSets
  <2>2. PICK g : g = [S \in Small(k) |-> SumStep(g, f, S)] BY SumExists
  <2> QED BY <2>1, <2>2
<1>3. h = [S \in SUBSET Slot |-> SumStep(h, f, S)] BY <1>2
<1> HIDE DEF h
<1> DEFINE N == {k \in Nat : \A S \in Small(k) : h[S] \in Int}
<1>4. 0 \in N
  <2>1. ASSUME NEW S \in Small(0) PROVE h[S] = 0
    <3>1. S = {} /\ S \in SUBSET Slot BY SmallSets
    <3>2. h[S] = SumStep(h, f, S) BY <1>3, <3>1
    <3> QED BY <3>1, <3>2 DEF SumStep
  <2> QED BY <2>1
<1>5. ASSUME NEW k \in Nat, k \in N PROVE k + 1 \in N
  <2> SUFFICES ASSUME NEW S \in Small(k + 1) PROVE h[S] \in Int
    OBVIOUS
  <2>1. S \in SUBSET Slot /\ h[S] = SumStep(h, f, S) BY <1>3 DEF Small
  <2>2. S # {} => h[Rest(S)] \in Int /\ f[Some(S)] \in Int BY <1>5, <2>1, SmallSets
  <2> QED BY <2>1, <2>2 DEF SumStep
<1> HIDE DEF N
<1>6. \A k \in Nat : k \in N BY <1>4, <1>5, AllNaturals
<1>7. PICK k \in Nat : Small(k) = SUBSET Slot BY SmallSets
<1>8. k \in N /\ Slot \in SUBSET Slot BY <1>6
<1> QED BY <1>1, <1>7, <1>8 DEF N

\* A checksum is a byte.
LEMMA CheckSumType ==
  ASSUME NEW b \in [Slot -> Entry]
  PROVE  CheckSum(b) \in 0..SumSize-1
<1> DEFINE f == [i \in DOMAIN b |-> Code(b[i])]
<1>1. f \in [Slot -> Int]
  <2>1. \A e \in Entry : Code(e) \in Int BY TableAssumption DEF Code, Entry, Block
  <2> QED BY <2>1
<1>2. SumFunction(f) \in Int
  <2> HIDE DEF f
  <2> QED BY <1>1, SumType
<1>3. SumSize \in Nat \ {0} BY TableAssumption
<1>4. CheckSum(b) = SumFunction(f) % SumSize BY DEF CheckSum
<1> HIDE DEF f
<1> QED BY <1>2, <1>3, <1>4

Top == IF FirstMark > NumDir THEN FirstMark ELSE NumDir

\* What TypeOK has and Types has not.
Ranges ==
  /\ mark \in [Drive -> 0..Top]
  /\ csv \in [CsvAddr -> 0..SumSize-1] /\ alv \subseteq AlvAddr
  /\ swapped \subseteq Drive /\ guarded \subseteq Drive

\* Every block of every drive has a bit in the memory of the vectors.
LEMMA BitIn ==
  ASSUME NEW d \in Drive, NEW b \in Block
  PROVE  BitAddr(d, b) \in AlvAddr
BY DEF AlvAddr

LEMMA TopIs ==
  /\ Top \in Nat /\ FirstMark \in 0..Top /\ NumDir \in 0..Top /\ 0 \in 0..Top
  /\ \A p \in Dir : p + 1 \in 0..Top
  /\ DirBlock \subseteq Block
BY TableAssumption DEF Top, Dir, DirBlock, Block

LEMMA SealedType ==
  ASSUME Ranges, NEW b \in [Slot -> Entry]
  PROVE  Sealed(b) \in [CsvAddr -> 0..SumSize-1]
BY CheckSumType DEF Ranges, Sealed

\* Selecting a drive.
LEMMA RangesSelect ==
  ASSUME Ranges, NEW d \in Drive, NEW c,
         SetDsk(d, c) \/ StartLogin(d, {}, c)
  PROVE  mark' \in [Drive -> 0..Top] /\ alv' \subseteq AlvAddr /\ swapped' \subseteq Drive
<1>1. ASSUME NEW L, StartLogin(d, L, c)
      PROVE  mark' \in [Drive -> 0..Top] /\ alv' \subseteq AlvAddr /\ swapped' \subseteq Drive
  <2>1. mark' \in [Drive -> 0..Top] BY <1>1, TopIs DEF StartLogin, Ranges
  <2>2. {BitAddr(d, b) : b \in DirBlock} \subseteq AlvAddr BY BitIn, TopIs
  <2>3. alv' \subseteq AlvAddr BY <1>1, <2>2 DEF StartLogin, Ranges
  <2> QED BY <1>1, <2>1, <2>3 DEF StartLogin, Ranges
<1>2. CASE SetDsk(d, c)
  BY <1>1, <1>2 DEF SetDsk, Ranges
<1> QED BY <1>1, <1>2

LEMMA RangesNext ==
  ASSUME Types, Ranges, [Next]_vars
  PROVE  Ranges'
<1>1. CASE Restart \/ RstDsk
  <2>1. StartLogin(0, {}, NoCall) /\ csv' = csv /\ guarded' = {} BY <1>1 DEF Restart, RstDsk
  <2> QED BY <2>1, Sizes, RangesSelect DEF Ranges
<1>2. CASE \E d \in Drive : SelectDisk(d)
  <2>1. PICK d \in Drive : SelectDisk(d) BY <1>2
  <2> QED BY <2>1, RangesSelect DEF SelectDisk, Ranges
<1>3. CASE CloseNothing \/ WalkEnds
  <2>1. SetDsk(call.old, NoCall) /\ UNCHANGED <<csv, guarded>>
    BY <1>3 DEF CloseNothing, WalkEnds, Back
  <2>2. call.old \in Drive BY DEF Types, CallType
  <2> QED BY <2>1, <2>2, RangesSelect DEF Ranges
<1>4. CASE \E op \in {"open", "make", "close", "erase", "write"}, d \in Drive : Begin(op, d)
  <2>1. PICK op \in {"open", "make", "close", "erase", "write"}, d \in Drive : Begin(op, d)
    BY <1>4
  <2>2. SetDsk(d, Started(op)) /\ UNCHANGED <<csv, guarded>> BY <2>1 DEF Begin
  <2> QED BY <2>2, RangesSelect DEF Ranges
<1>5. CASE \E S \in SUBSET Drive : LogOff(S) BY <1>5 DEF LogOff, Ranges, mem
<1>6. CASE WrtPrtD
  <2>1. active \in Drive BY DEF Types
  <2> QED BY <1>6, <2>1, TopIs DEF WrtPrtD, Ranges
<1>7. CASE \E d \in Drive, new \in Disks : Change(d, new) BY <1>7 DEF Change, Ranges, mem
<1>8. CASE LoginEnds \/ StartWalk \/ UpdateOpen \/ UNCHANGED vars
  BY <1>8 DEF LoginEnds, StartWalk, UpdateOpen, vars, Ranges, mem, history
<1>9. CASE Take
  <2>1. alv' \subseteq AlvAddr
    <3>1. active \in Drive BY DEF Types
    <3>2. CASE fcb.blk = 0 /\ FreeBlocks # {}
      <4> DEFINE b == CHOOSE x \in FreeBlocks : \A y \in FreeBlocks : x <= y
      <4>1. b \in Block BY <3>2, TakenBlock DEF FreeBlocks
      <4>2. alv' = alv \cup {BitAddr(active, b)} BY <1>9, <3>2 DEF Take
      <4> HIDE DEF b
      <4> QED BY <3>1, <4>1, <4>2, BitIn DEF Ranges
    <3>3. CASE ~(fcb.blk = 0 /\ FreeBlocks # {}) BY <1>9, <3>3 DEF Take, Ranges
    <3> QED BY <3>2, <3>3
  <2> QED BY <1>9, <2>1 DEF Take, Ranges, history
<1>10. CASE \E ok \in Outcome : LoginEntry(ok)
  <2>1. PICK ok : LoginEntry(ok) BY <1>10
  <2>2. call.pos \in Dir BY <2>1, Sizes DEF LoginEntry, Dir, Types, CallType
  <2>3. Buf(ok) \in [Slot -> Entry] /\ Item(Buf(ok)) \in Entry /\ active \in Drive
    BY <2>2, BufType DEF Types
  <2>4. mark' \in [Drive -> 0..Top]
    BY <2>1, <2>2, TopIs DEF LoginEntry, Raised, Ranges
  <2>5. alv' \subseteq AlvAddr
    <3>1. Item(Buf(ok)).blk \in Block BY <2>3 DEF Entry
    <3>2. BitAddr(active, Item(Buf(ok)).blk) \in AlvAddr BY <2>3, <3>1, BitIn
    <3> QED BY <2>1, <3>2 DEF LoginEntry, Ranges
  <2>6. csv' \in [CsvAddr -> 0..SumSize-1]
    BY <2>1, <2>3, SealedType DEF LoginEntry, Ranges
  <2> QED BY <2>1, <2>4, <2>5, <2>6 DEF LoginEntry, Ranges, history
<1>11. CASE \E ok \in Outcome : WalkEntry(ok)
  <2>1. PICK ok : WalkEntry(ok) BY <1>11
  <2>2. mark[active] \in 0..Top BY DEF Types, Ranges
  <2> QED BY <2>1, <2>2, TopIs DEF WalkEntry, Ranges, history
<1>12. ASSUME NEW ok, UpdateMake(ok) \/ UpdateClose(ok) \/ UpdateErase(ok)
       PROVE  Ranges'
  <2>1. call.at = "update" /\ call.pos \in Dir
    BY <1>12, Sizes DEF UpdateMake, UpdateClose, UpdateErase, Types, CallType, Dir
  <2>2. Item(buf) \in Entry /\ fcb.blk \in Block
    BY <2>1, Place DEF Item, Types, FcbType
  <2>3. \A e \in Entry : Put(e) \in [Slot -> Entry] BY <2>1, Place DEF Put, Types
  <2>4. csv' \in [CsvAddr -> 0..SumSize-1]
    <3>1. \/ csv' = csv
          \/ \E e \in Entry : csv' = Sealed(Put(e))
      <4>1. CASE UpdateMake(ok)
        <5>1. [live |-> TRUE, own |-> TRUE, blk |-> 0] \in Entry BY Sizes DEF Entry
        <5> QED BY <4>1, <5>1 DEF UpdateMake, DirWrite
      <4>2. CASE UpdateClose(ok)
        <5> DEFINE e == Item(buf)
                   n == [e EXCEPT !.blk = IF @ = 0 THEN fcb.blk ELSE @]
        <5>1. csv' = csv \/ csv' = Sealed(Put(n)) BY <4>2 DEF UpdateClose, DirWrite
        <5>2. n \in Entry
          <6> HIDE DEF e
          <6> QED BY <2>2 DEF Entry, e
        <5> HIDE DEF n
        <5> QED BY <5>1, <5>2
      <4>3. CASE UpdateErase(ok) BY <4>3, Sizes DEF UpdateErase, DirWrite
      <4> QED BY <1>12, <4>1, <4>2, <4>3
    <3> QED BY <2>3, <3>1, SealedType DEF Ranges
  <2>5. mark' \in [Drive -> 0..Top]
    BY <1>12, <2>1, TopIs DEF UpdateMake, UpdateClose, UpdateErase, Raised, Ranges
  <2>6. alv' \subseteq AlvAddr
    BY <1>12 DEF UpdateMake, UpdateClose, UpdateErase, Ranges
  <2>7. UNCHANGED history BY <1>12 DEF UpdateMake, UpdateClose, UpdateErase
  <2> QED BY <2>4, <2>5, <2>6, <2>7 DEF Ranges, history
<1> QED
  BY <1>1, <1>2, <1>3, <1>4, <1>5, <1>6, <1>7, <1>8, <1>9, <1>10, <1>11, <1>12
  DEF Next, Program, Steps

\* Every variable has its type: each bit set is that of a block of a drive,
\* each checksum a byte, and no high-water mark is above the directory.
THEOREM TypeCorrect == Spec => []TypeOK
<1>1. Init => Ranges
  <2> SUFFICES ASSUME Init PROVE Ranges OBVIOUS
  <2>1. alv \subseteq AlvAddr BY Sizes, TopIs, BitIn DEF Init
  <2>2. 0 \in 0..SumSize-1 BY TableAssumption
  <2> QED BY <2>1, <2>2, TopIs DEF Init, Ranges
<1>2. Types /\ Ranges => TypeOK
  BY DEF Types, Ranges, TypeOK, Slot, Top
<1> QED BY <1>1, <1>2, TypesInit, TypesNext, RangesNext, PTL DEF Spec
=============================================================================
