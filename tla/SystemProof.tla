---------------------------- MODULE SystemProof ----------------------------
(***************************************************************************)
(* Proofs about the machine as a whole.  The CCP never runs in a memory that *)
(* lacks a part of the system (Whole), for every size of memory and system, *)
(* when the system tracks can be read.  And the drive of the prompt, the    *)
(* order of the lines of a batch and its end (PromptDrive, InTurn,          *)
(* NoRevival), for any number of drives, users, lines and batches, with     *)
(* resets, ^C and errors at every step.                                    *)
(***************************************************************************)
EXTENDS System, TLAPS

Content == {Junk, Program, Vectors} \cup Nat

\* The sectors in S are where they belong.
Present(S) == \A s \in S : mem[At(s)] = s

\* How far the load has come, by stage.
Progress ==
  /\ stage = "check" => secno = 0
  /\ stage = "load"  => ~rom /\ Present({s \in SystemSector : s < secno})
  /\ stage = "bios"  => ~rom /\ Present(SystemSector)
  /\ stage = "go"    => ~rom /\ Present(SystemSector)
  /\ stage = "wboot" => ~rom /\ secno < NumSys
                        /\ Present({s \in SystemSector : s < secno \/ s >= NumSys})
  /\ stage = "up"    => ~rom /\ mem[0] = Vectors
                        /\ Present({s \in SystemSector : s >= NumSys})

\* The invariant: Whole, and what the load and the warm boot have done so far.
SysInv ==
  /\ secno \in 0..NumLoad /\ mem \in [Page -> Content]
  /\ pc # "off" <=> stage = "up"
  /\ Progress
  /\ Whole

LEMMA Places ==
  /\ 0 \in Page
  /\ \A s \in SystemSector : s \in Nat /\ At(s) = CcpPage + s /\ At(s) \in Page /\ At(s) # 0
  /\ \A s \in 0..NumLoad-1 : At(s) \in Page /\ \A t \in SystemSector : At(t) = At(s) => t = s
  /\ \A s \in 0..NumSys-1 : s \in SystemSector
BY BootAssumption, SMT DEF BootAssumption, Page, SystemSector, At

(* The CCP by itself neither starts nor leaves.                             *)
LEMMA CcpRuns ==
  ASSUME CcpAlone
  PROVE  pc \notin {"off", "program"} /\ pc' # "off"
<1>1. CASE GetInp BY <1>1 DEF GetInp, FromConsole, DelBatch, DelBatchIn
<1>2. CASE ReadBatch BY <1>2 DEF ReadBatch, FromConsole, DelBatch, DelBatchIn
<1>3. CASE CloseBatch \/ Cmmnd2 BY <1>3 DEF CloseBatch, Cmmnd2
<1>4. CASE Echo BY <1>4 DEF Echo, DelBatch, DelBatchIn
<1>5. CASE NoCommand BY <1>5 DEF NoCommand, Done, GetBack1, DelBatch, DelBatchIn
<1>6. CASE ChangeDrive \/ SetUser BY <1>6 DEF ChangeDrive, SetUser, GetBack1, DelBatchIn
<1>7. CASE BuiltIn \/ AskFirst \/ Answered
  BY <1>7 DEF BuiltIn, AskFirst, Answered, DSelect
<1>8. CASE BuiltInDone BY <1>8 DEF BuiltInDone, Done, GetBack1, DelBatch, DelBatchIn
<1>9. CASE EraseBatch \/ RenameWild BY <1>9 DEF EraseBatch, RenameWild, DelBatch, DelBatchIn
<1>10. CASE FailIn("builtin") BY <1>10 DEF FailIn
<1>11. CASE Load BY <1>11 DEF Load, Done, GetBack1, DelBatch, DelBatchIn
<1> QED BY <1>1, <1>2, <1>3, <1>4, <1>5, <1>6, <1>7, <1>8, <1>9, <1>10, <1>11 DEF CcpAlone

LEMMA ProgramRuns ==
  ASSUME ProgramStep \/ Typed
  PROVE  pc # "off" /\ pc' # "off"
BY DEF ProgramStep, ProgramCalls, Submit, ProgramReturns, FailIn, Typed

LEMMA SysInit == Init => SysInv
BY BootAssumption DEF BootAssumption, Init, BootInit, CcpInit, SysInv, Progress, Whole, Content

LEMMA ResetKeeps ==
  ASSUME SysInv, Reset
  PROVE  SysInv'
BY DEF SysInv, Reset, PushReset, Leave, Progress, Whole, Content

LEMMA BootKeeps ==
  ASSUME SysInv, BootAlone, ~ReadFault
  PROVE  SysInv'
<1> USE DEF SysInv, Progress, Whole, WholeSystem, Present
<1>0. pc' = pc /\ pc = "off"
  BY DEF BootAlone, ccpVars, BootStep, Loader, MemCheck, LoadSector, ReadComplete, WBootSector
<1>1. CASE Loader
  <2>1. stage' = "check" /\ secno' = 0 /\ mem' \in [Page -> Content]
    BY <1>1 DEF Loader, Content
  <2>2. 0 \in 0..NumLoad BY BootAssumption DEF BootAssumption
  <2> QED BY <1>0, <2>1, <2>2
<1>2. CASE MemCheck
  <2>1. mem' \in [Page -> Content] BY <1>2 DEF MemCheck, Content
  <2>2. stage = "check" /\ stage' \in {"load", "halt"} /\ secno' = 0 /\ ~rom'
    BY <1>2 DEF MemCheck
  <2>3. {s \in SystemSector : s < 0} = {} BY Places
  <2> QED BY <1>0, <2>1, <2>2, <2>3 DEF At, SystemSector
<1>3. CASE LoadSector
  <2>1. /\ stage = "load" /\ stage' \in {"load", "halt"} /\ secno' = secno + 1
        /\ rom' = rom /\ secno \in 0..NumLoad-1 /\ secno + 1 \in 0..NumLoad
    BY <1>3, BootAssumption DEF LoadSector, BootAssumption
  <2>2. CASE stage' = "halt" /\ UNCHANGED mem BY <1>0, <2>1, <2>2
  <2>3. CASE stage' = "load" /\ mem' = [mem EXCEPT ![At(secno)] = secno]
    <3>1. mem' \in [Page -> Content]
      <4>1. secno \in Content BY <2>1 DEF Content
      <4> QED BY <2>3, <4>1
    <3>2. ASSUME NEW s \in SystemSector, s < secno + 1
          PROVE  mem'[At(s)] = s
      <4>1. CASE s = secno BY <2>3, <4>1, Places
      <4>2. CASE s # secno
        \* no sector is loaded over one of the system
        <5>1. s < secno /\ mem[At(s)] = s BY <2>1, <3>2, <4>2, Places
        <5>2. At(s) # At(secno) BY <2>1, <4>2, Places
        <5> QED BY <2>3, <5>1, <5>2, Places
      <4> QED BY <4>1, <4>2
    <3> QED BY <1>0, <2>1, <2>3, <3>1, <3>2 DEF At, SystemSector
  <2> QED BY <1>3, <2>2, <2>3 DEF LoadSector
<1>4. CASE ReadComplete
  BY <1>0, <1>4, BootAssumption DEF ReadComplete, SystemSector, BootAssumption
<1>5. CASE WBootSector
  BY <1>0, <1>5, Places, BootAssumption DEF WBootSector, Content, BootAssumption
<1> QED BY <1>1, <1>2, <1>3, <1>4, <1>5 DEF BootAlone, BootStep

LEMMA StartKeeps ==
  ASSUME SysInv, ColdBoot \/ Start
  PROVE  SysInv'
<1> USE DEF SysInv, Progress, Whole, WholeSystem, Present
<1>1. CASE ColdBoot BY <1>1 DEF ColdBoot, BiosBoot
<1>2. CASE Start
  <2>1. /\ stage = "go" /\ stage' = "up" /\ pc' = "prompt"
        /\ mem' = [mem EXCEPT ![0] = Vectors] /\ rom' = rom /\ secno' = secno
    BY <1>2 DEF Start, GoCpm, Command
  <2>2. mem' \in [Page -> Content] /\ mem'[0] = Vectors
    BY <2>1, Places DEF Content
  <2>3. \A s \in SystemSector : mem'[At(s)] = s
    BY <2>1, Places
  <2> QED BY <2>1, <2>2, <2>3 DEF At, SystemSector
<1> QED BY <1>1, <1>2

LEMMA WarmBootKeeps ==
  ASSUME SysInv, WarmBoot
  PROVE  SysInv'
<1>1. pc # "off" /\ pc' = "off" /\ stage' = "wboot" /\ secno' = 0 /\ rom' = rom /\ mem' = mem
  BY DEF WarmBoot, Cancel, Acknowledge, ProgramReboots, Leave, WBoot
<1>2. 0 < NumSys /\ \A s \in SystemSector : ~(s < 0)
  BY BootAssumption, Places DEF BootAssumption
<1>3. stage = "up" /\ ~rom /\ \A s \in SystemSector : s >= NumSys => mem[At(s)] = s
  BY <1>1 DEF SysInv, Progress, Present
<1>4. secno' \in 0..NumLoad /\ mem' \in [Page -> Content]
  BY <1>1, BootAssumption DEF SysInv, BootAssumption
<1>5. Present({s \in SystemSector : s < 0 \/ s >= NumSys})'
  BY <1>1, <1>2, <1>3 DEF Present, At, SystemSector
<1> QED BY <1>1, <1>2, <1>3, <1>4, <1>5 DEF SysInv, Progress, Whole

LEMMA OverlayKeeps ==
  ASSUME SysInv, Overlay
  PROVE  SysInv'
<1>1. PICK S \in SUBSET (0..NumSys-1) \ {{}} :
        mem' = [p \in Page |-> IF \E s \in S : p = At(s) THEN Junk ELSE mem[p]]
  BY DEF Overlay
<1>2. pc' = "program" /\ pc = "program" /\ stage' = stage /\ rom' = rom /\ secno' = secno
  BY DEF Overlay, ccpVars
<1>3. mem' \in [Page -> Content]
  BY <1>1 DEF SysInv, Content
<1>4. mem'[0] = mem[0]
  BY <1>1, Places
<1>5. \A s \in SystemSector : s >= NumSys => mem'[At(s)] = mem[At(s)]
  BY <1>1, Places, BootAssumption DEF BootAssumption
<1> QED BY <1>2, <1>3, <1>4, <1>5 DEF SysInv, Progress, Whole, Present, At, SystemSector

LEMMA CcpKeeps ==
  ASSUME SysInv, CcpStep
  PROVE  SysInv'
<1>1. UNCHANGED bootVars BY DEF CcpStep
<1>2. pc # "off" /\ pc' # "off"
  BY CcpRuns, ProgramRuns DEF CcpStep
<1>3. WholeSystem
  BY CcpRuns DEF CcpStep, SysInv, Whole, Typed
<1> QED
  BY <1>1, <1>2, <1>3
  DEF SysInv, Progress, Whole, WholeSystem, Present, bootVars, At, SystemSector

LEMMA SysNext ==
  ASSUME SysInv, [Next]_sysvars, ~ReadFault
  PROVE  SysInv'
<1>1. CASE Next
  BY <1>1, ResetKeeps, BootKeeps, StartKeeps, WarmBootKeeps, OverlayKeeps, CcpKeeps DEF Next
<1>2. CASE UNCHANGED sysvars
  BY <1>2 DEF sysvars, bootVars, ccpVars, SysInv, Progress, Whole, WholeSystem, Present,
     At, SystemSector
<1> QED BY <1>1, <1>2

(* In every memory: whenever the CCP or the BDOS works, all of the system is *)
(* in memory, if the system tracks can be read.                             *)
THEOREM SystemWhole ==
  ASSUME ~ReadFault
  PROVE  Spec => []Whole
<1>1. SysInv => Whole BY DEF SysInv
<1> QED BY SysInit, SysNext, <1>1, PTL DEF Spec
-----------------------------------------------------------------------------
(* The command processor.                                                   *)

\* The CCP runs once the boot is over.
UpInv == pc # "off" <=> stage = "up"

\* Which drive is selected, by the place in the CCP; what the next warm boot
\* will find in TDRIVE is a user, or the drive of the last prompt.
DriveInv ==
  /\ UpInv
  /\ user \in Nat /\ cdrive \in Drive /\ home \in Drive /\ tdrive \in Nat
  /\ tdrive < NumDrive => tdrive = home
  /\ pc \notin {"off", "error"} => cdrive = home
  /\ pc \in {"prompt", "console", "echo", "run", "decode"} => active = cdrive
  /\ pc \in {"read", "close"} => active = 0 /\ batch
  /\ pc = "builtin" => active = Named(chgdrv)

\* What a batch file holds, by user area: all lines from the one that is due,
\* or, while a line is on its way or after one was lost, fewer.
FileInv ==
  \A u \in User : sub[u] # Other =>
    /\ sub[u] >= 0 /\ sub[u] <= turn[u]
    /\ ~cut[u] /\ ~(pc = "echo" /\ u = user) => sub[u] = turn[u]

\* The line on its way, from the count that is read to the line that is run.
LineInv ==
  /\ pc \in {"read", "close", "echo"} => batch
  /\ pc = "close" => sub[user] > 0 /\ inbuff = sub[user] - 1
  /\ pc = "echo" => /\ sub[user] >= 0 /\ inbuff = sub[user] /\ sub[user] < turn[user]
                    /\ ~cut[user] => sub[user] = turn[user] - 1

\* Batches run in user area 0, with the standard DMA address and a drive that
\* can be written.
BatchInv ==
  /\ user \in User /\ dma \in {"tbuff", "else"}
  /\ sub \in [User -> Int] /\ turn \in [User -> Int] /\ cut \in [User -> BOOLEAN]
  /\ batch /\ pc \notin {"off", "program", "error"} => dma = "tbuff" /\ ~wrtprt /\ user = 0
  /\ stopped => ~batch /\ sub[0] = Other
  /\ FileInv
  /\ LineInv
-----------------------------------------------------------------------------
LEMMA Sizes == NumDrive \in Nat /\ NumDrive > 0 /\ 0 \in Drive /\ 0 \in User
BY CcpAssumption DEF CcpAssumption, Drive, User

\* The byte of user and drive.
LEMMA Nibble ==
  ASSUME NEW d \in Drive
  PROVE  d \div NumDrive = 0 /\ d % NumDrive = d
<1>1. d \in Nat /\ d < NumDrive BY Sizes DEF Drive
<1> QED BY <1>1, Sizes

LEMMA UserByte ==
  ASSUME NEW u \in Nat, NEW d \in Drive
  PROVE  u * NumDrive + d \in Nat /\ (u * NumDrive + d < NumDrive => u * NumDrive + d = d)
<1>1. d \in Nat BY Sizes DEF Drive
<1>2. CASE u = 0 BY <1>1, <1>2, Sizes
<1>3. CASE u > 0
  <2>1. u * NumDrive = NumDrive + (u - 1) * NumDrive BY Sizes
  <2>2. (u - 1) * NumDrive \in Nat BY <1>3, Sizes
  <2> QED BY <1>1, <2>1, <2>2, Sizes
<1> QED BY <1>2, <1>3

LEMMA BootDriveIs ==
  ASSUME tdrive \in Nat
  PROVE  BootDrive \in Drive /\ BootDrive = (IF tdrive < NumDrive THEN tdrive ELSE 0)
BY Sizes DEF BootDrive, Drive
-----------------------------------------------------------------------------
(* The boot and the CCP take turns.                                         *)

LEMMA UpKeeps ==
  ASSUME UpInv, Next
  PROVE  UpInv'
<1> USE DEF UpInv
<1>1. CASE Reset BY <1>1 DEF Reset, PushReset, Leave
<1>2. CASE BootAlone
  BY <1>2, BootAssumption
  DEF BootAlone, ccpVars, BootStep, Loader, MemCheck, LoadSector, ReadComplete, WBootSector
<1>3. CASE ColdBoot BY <1>3 DEF ColdBoot, BiosBoot
<1>4. CASE Start BY <1>4 DEF Start, GoCpm, Command
<1>5. CASE WarmBoot
  BY <1>5 DEF WarmBoot, Cancel, Acknowledge, ProgramReboots, Leave, WBoot
<1>6. CASE Overlay BY <1>6 DEF Overlay, ccpVars
<1>7. CASE CcpStep
  <2>1. stage' = stage BY <1>7 DEF CcpStep, bootVars
  <2>2. pc # "off" /\ pc' # "off" BY <1>7, CcpRuns, ProgramRuns DEF CcpStep
  <2> QED BY <2>1, <2>2
<1> QED BY <1>1, <1>2, <1>3, <1>4, <1>5, <1>6, <1>7 DEF Next
-----------------------------------------------------------------------------
(* The drive of the prompt.                                                 *)

LEMMA DriveAway ==
  ASSUME DriveInv, Reset \/ BootAlone \/ ColdBoot \/ Start \/ WarmBoot \/ Overlay, UpInv'
  PROVE  DriveInv'
<1> USE DEF DriveInv
<1>1. CASE Reset BY <1>1 DEF Reset, PushReset, Leave, sysVars
<1>2. CASE WarmBoot
  BY <1>2 DEF WarmBoot, Cancel, Acknowledge, ProgramReboots, Leave, sysVars
<1>3. CASE BootAlone \/ Overlay
  BY <1>3 DEF BootAlone, Overlay, ccpVars, sysVars, Named
<1>4. CASE ColdBoot
  BY <1>4, Sizes DEF ColdBoot, BiosBoot, sysVars, UpInv
<1>5. CASE Start
  <2>1. BootDrive \in Drive /\ BootDrive = (IF tdrive < NumDrive THEN tdrive ELSE 0)
    BY BootDriveIs
  <2>2. /\ pc' = "prompt" /\ user' = 0 /\ cdrive' = BootDrive /\ active' = cdrive'
        /\ tdrive' = tdrive /\ home' = (IF tdrive < NumDrive THEN home ELSE 0)
    BY <1>5, <2>1, Nibble DEF Start, Command
  <2> QED BY <2>1, <2>2, Sizes
<1> QED BY <1>1, <1>2, <1>3, <1>4, <1>5

LEMMA DriveLine ==
  ASSUME DriveInv, GetInp \/ ReadBatch \/ CloseBatch \/ Echo \/ Typed \/ Cmmnd2, UpInv'
  PROVE  DriveInv'
<1> USE DEF DriveInv
<1>1. \A a : FromConsole(a) /\ pc \in {"prompt", "read"} /\ (~batch => a = cdrive) => DriveInv'
  <2> SUFFICES ASSUME NEW a, FromConsole(a), pc \in {"prompt", "read"}, ~batch => a = cdrive
               PROVE  DriveInv'
    OBVIOUS
  <2>1. pc' \in {"console", "error"} /\ (pc' = "console" => active' = cdrive)
    BY DEF FromConsole, DelBatch, DelBatchIn
  <2>2. tdrive' \in Nat /\ (tdrive' < NumDrive => tdrive' = cdrive)
    BY UserByte DEF FromConsole, SetCDrv
  <2> QED BY <2>1, <2>2 DEF FromConsole
<1>2. CASE GetInp BY <1>1, <1>2 DEF GetInp, unmoved
<1>3. CASE ReadBatch BY <1>1, <1>3 DEF ReadBatch, unmoved
<1>4. CASE CloseBatch BY <1>4 DEF CloseBatch, unmoved
<1>5. CASE Echo BY <1>5 DEF Echo, DelBatch, DelBatchIn
<1>6. CASE Typed BY <1>6, Sizes DEF Typed, sysVars, history, Drive
<1>7. CASE Cmmnd2 BY <1>7 DEF Cmmnd2, history
<1> QED BY <1>2, <1>3, <1>4, <1>5, <1>6, <1>7

LEMMA DriveCommand ==
  ASSUME DriveInv, ProgramStep \/ NoCommand \/ ChangeDrive \/ SetUser \/ BuiltIn \/ AskFirst \/ Answered
                   \/ BuiltInDone \/ EraseBatch \/ FailIn("builtin") \/ Load, UpInv'
  PROVE  DriveInv'
<1> USE DEF DriveInv
<1>1. CASE NoCommand BY <1>1 DEF NoCommand, Done, GetBack1, DelBatch, DelBatchIn, undone
<1>2. CASE ChangeDrive BY <1>2, Sizes DEF ChangeDrive, GetBack1, DelBatchIn, Drive
<1>3. CASE SetUser BY <1>3 DEF SetUser, GetBack1, DelBatchIn, undone, User
<1>4. CASE BuiltIn BY <1>4 DEF BuiltIn, DSelect, Named, undone
<1>5. CASE AskFirst BY <1>5 DEF AskFirst, sysVars, history
<1>6. CASE Answered BY <1>6 DEF Answered, DSelect, Named, history
<1>7. CASE BuiltInDone BY <1>7 DEF BuiltInDone, Done, GetBack1, DelBatch, DelBatchIn, ResetDr, undone
<1>8. CASE EraseBatch BY <1>8 DEF EraseBatch, undone, Named
<1>9. CASE FailIn("builtin") \/ FailIn("program") BY <1>9 DEF FailIn, sysVars, history
<1>10. CASE Load
  <2>1. tdrive' = tdrive \/ tdrive' = user * NumDrive + cdrive
    BY <1>10 DEF Load, SetCDrv
  <2>2. tdrive' \in Nat /\ (tdrive' < NumDrive => tdrive' = home)
    BY <1>10, <2>1, UserByte DEF Load
  <2> QED BY <1>10, <2>2 DEF Load, Done, GetBack1, DelBatch, DelBatchIn
<1>11. CASE ProgramCalls \/ Submit
  BY <1>11 DEF ProgramCalls, Submit, history, User
<1>12. CASE ProgramReturns
  BY <1>12 DEF ProgramReturns, history, Drive
<1> QED
  BY <1>1, <1>2, <1>3, <1>4, <1>5, <1>6, <1>7, <1>8, <1>9, <1>10, <1>11, <1>12 DEF ProgramStep

LEMMA DriveNext ==
  ASSUME DriveInv, [Next]_sysvars, "rename" \notin Upsets
  PROVE  DriveInv'
<1>1. CASE Next
  <2>1. UpInv' BY <1>1, UpKeeps DEF DriveInv
  <2>2. ~RenameWild BY DEF RenameWild
  <2> QED BY <1>1, <2>1, <2>2, DriveAway, DriveLine, DriveCommand DEF Next, CcpStep, CcpAlone
<1>2. CASE UNCHANGED sysvars
  BY <1>2 DEF sysvars, bootVars, ccpVars, sysVars, DriveInv, UpInv, Named
<1> QED BY <1>1, <1>2

(* A line is always asked for on the drive that was chosen last, whatever    *)
(* commands, batches, programs, errors and warm boots have come since.       *)
THEOREM PromptDriveCorrect ==
  ASSUME "rename" \notin Upsets
  PROVE  Spec => []PromptDrive
<1>1. Init => DriveInv
  BY Sizes DEF Init, BootInit, CcpInit, DriveInv, UpInv
<1>2. DriveInv => PromptDrive BY DEF DriveInv, PromptDrive
<1> QED BY <1>1, <1>2, DriveNext, PTL DEF Spec
-----------------------------------------------------------------------------
(* The lines of a batch.                                                    *)

\* No file changes, and no line is on its way.
LEMMA FileSame ==
  ASSUME BatchInv, pc # "echo", UNCHANGED <<sub, turn, cut>>
  PROVE  FileInv'
BY DEF BatchInv, FileInv

\* The file that a batch is run from is erased.
LEMMA FileGone ==
  ASSUME BatchInv, sub' = [sub EXCEPT ![user] = Other], UNCHANGED <<user, turn, cut>>
  PROVE  FileInv' /\ sub' \in [User -> Int]
BY DEF BatchInv, FileInv, Other

\* DELBATCH, from wherever the CCP calls it.
LEMMA BatchDelBatch ==
  ASSUME BatchInv, NEW a, NEW to \in {"prompt", "console"}, NEW u, NEW d,
         DelBatchIn(to, a, u, d), user' \in User, batch => u = user /\ user' = user,
         pc \in {"prompt", "read", "echo", "decode", "builtin"},
         UNCHANGED <<turn, cut>>, dma' \in {"tbuff", "else"}
  PROVE  BatchInv'
<1>1. ~batch' /\ pc' \in {to, "error"} BY DEF DelBatchIn, BatchInv
<1>2. CASE batch
  <2>1. user = 0 /\ user' = 0 /\ sub' = [sub EXCEPT ![user] = Other]
    BY <1>2 DEF BatchInv, DelBatchIn
  <2>2. sub'[0] = Other BY <2>1, Sizes DEF BatchInv
  <2> QED BY <1>1, <2>1, <2>2, FileGone DEF BatchInv, LineInv
<1>3. CASE ~batch
  <2>1. pc # "echo" /\ UNCHANGED <<sub, stopped>> BY <1>3 DEF BatchInv, LineInv, DelBatchIn
  <2> QED BY <1>1, <1>3, <2>1, FileSame DEF BatchInv, LineInv
<1> QED BY <1>2, <1>3

\* Back at the prompt, with or without an error.
LEMMA BatchDone ==
  ASSUME BatchInv, NEW a, NEW u, NEW d, GetBack1(a, u, d), pc \in {"decode", "builtin"},
         user' \in User, batch => u = user /\ user' = user,
         UNCHANGED <<dma, wrtprt, turn, cut>>
  PROVE  BatchInv'
<1>1. CASE DelBatchIn("prompt", a, u, d) BY <1>1, BatchDelBatch DEF BatchInv
<1>2. CASE pc' = "prompt" /\ UNCHANGED <<batch, sub, stopped>>
  BY <1>2, FileSame DEF BatchInv, LineInv
<1> QED BY <1>1, <1>2 DEF GetBack1

LEMMA BatchAway ==
  ASSUME DriveInv, BatchInv, Reset \/ BootAlone \/ ColdBoot \/ Start \/ WarmBoot \/ Overlay
  PROVE  BatchInv'
<1>1. CASE Leave /\ (Reset \/ WarmBoot)
  <2>1. /\ pc' = "off" /\ UNCHANGED <<batch, user, dma, sub, turn, stopped>>
        /\ cut' = [cut EXCEPT ![user] = @ \/ pc = "echo"]
    BY <1>1 DEF Leave, sysVars
  <2>2. cut' \in [User -> BOOLEAN]
    <3>1. (cut[user] \/ pc = "echo") \in BOOLEAN OBVIOUS
    <3> QED BY <2>1, <3>1, Zenon DEF BatchInv
  <2>3. FileInv'
    <3> SUFFICES ASSUME NEW u \in User, sub[u] # Other
                 PROVE  /\ sub[u] >= 0 /\ sub[u] <= turn[u]
                        /\ ~cut'[u] => sub[u] = turn[u]
      BY <2>1 DEF FileInv
    <3>1. ~cut'[u] => ~cut[u] /\ ~(pc = "echo" /\ u = user) BY <2>1 DEF BatchInv
    <3> QED BY <3>1 DEF BatchInv, FileInv
  <2> QED BY <2>1, <2>2, <2>3 DEF BatchInv, LineInv
<1>2. CASE BootAlone \/ Overlay \/ ColdBoot
  <2>1. UNCHANGED <<pc, batch, inbuff, user, dma, wrtprt, sub, turn, stopped, cut>>
    BY <1>2 DEF BootAlone, Overlay, ColdBoot, ccpVars, sysVars, BatchInv
  <2> QED BY <2>1 DEF BatchInv, FileInv, LineInv
<1>3. CASE Start
  <2>1. BootDrive \in Drive BY BootDriveIs DEF DriveInv
  <2>2. /\ pc = "off" /\ pc' = "prompt" /\ user' = 0 /\ wrtprt' = FALSE /\ dma' = "tbuff"
        /\ batch' = (sub[0] # Other) /\ UNCHANGED <<sub, turn, stopped, cut>>
    BY <1>3, <2>1, Nibble DEF Start, GoCpm, Command, DriveInv, UpInv
  <2> QED BY <2>2, Sizes, FileSame DEF BatchInv, LineInv
<1> QED
  BY <1>1, <1>2, <1>3 DEF Reset, WarmBoot, Cancel, Acknowledge, ProgramReboots

LEMMA BatchLine ==
  ASSUME BatchInv, GetInp \/ ReadBatch \/ CloseBatch \/ Echo \/ Typed \/ Cmmnd2
  PROVE  BatchInv'
<1>1. \A a : FromConsole(a) /\ pc \in {"prompt", "read"} => BatchInv'
  <2> SUFFICES ASSUME NEW a, FromConsole(a), pc \in {"prompt", "read"}
               PROVE  BatchInv'
    OBVIOUS
  <2> QED BY BatchDelBatch DEF FromConsole, DelBatch, BatchInv
<1>2. CASE GetInp
  <2>1. CASE /\ batch /\ pc' = "read" /\ pc = "prompt"
             /\ UNCHANGED <<batch, user, dma, wrtprt, sub, turn, stopped, cut>>
    BY <2>1, FileSame DEF BatchInv, LineInv
  <2> QED BY <1>1, <1>2, <2>1 DEF GetInp, unmoved
<1>3. CASE ReadBatch
  <2>1. CASE /\ pc = "read" /\ sub[user] > 0 /\ pc' = "close"
             /\ tbuff' = (IF dma = "tbuff" THEN sub[user] - 1 ELSE tbuff) /\ inbuff' = tbuff'
             /\ UNCHANGED <<batch, user, dma, wrtprt, sub, turn, stopped, cut>>
    BY <2>1, FileSame DEF BatchInv, LineInv
  <2>2. CASE /\ pc = "read" /\ pc' = "error"
             /\ UNCHANGED <<batch, user, dma, wrtprt, sub, turn, stopped, cut>>
    BY <2>2, FileSame DEF BatchInv, LineInv
  <2> QED BY <1>1, <1>3, <2>1, <2>2 DEF ReadBatch, unmoved
<1>4. CASE CloseBatch
  <2>1. /\ pc = "close" /\ pc' = "echo" /\ batch /\ ~wrtprt /\ ~stopped
        /\ sub[user] > 0 /\ inbuff = sub[user] - 1 /\ sub' = [sub EXCEPT ![user] = @ - 1]
        /\ UNCHANGED <<batch, user, dma, wrtprt, inbuff, turn, stopped, cut>>
    BY <1>4 DEF CloseBatch, unmoved, BatchInv, LineInv
  <2>2. sub[user] # Other /\ sub[user] <= turn[user] /\ (~cut[user] => sub[user] = turn[user])
    BY <2>1 DEF BatchInv, FileInv, Other
  <2>3. sub' \in [User -> Int] /\ sub'[user] = sub[user] - 1
    BY <2>1 DEF BatchInv
  <2>4. FileInv'
    <3> SUFFICES ASSUME NEW u \in User, sub'[u] # Other
                 PROVE  /\ sub'[u] >= 0 /\ sub'[u] <= turn[u]
                        /\ ~cut[u] /\ u # user => sub'[u] = turn[u]
      BY <2>1 DEF FileInv
    <3>1. CASE u = user BY <2>1, <2>2, <2>3, <3>1 DEF BatchInv
    <3>2. CASE u # user BY <2>1, <3>2 DEF BatchInv, FileInv
    <3> QED BY <3>1, <3>2
  <2>5. LineInv' BY <2>1, <2>2, <2>3 DEF LineInv, BatchInv
  <2> QED BY <2>1, <2>3, <2>4, <2>5 DEF BatchInv
<1>5. CASE Echo
  <2>1. CASE pc' = "run"
    <3>1. /\ pc = "echo" /\ turn' = [turn EXCEPT ![user] = inbuff]
          /\ UNCHANGED <<batch, user, dma, wrtprt, sub, stopped, cut>>
      BY <1>5, <2>1 DEF Echo, DelBatch, DelBatchIn
    <3>2. batch /\ sub[user] >= 0 /\ inbuff = sub[user] /\ turn' \in [User -> Int]
      BY <3>1 DEF BatchInv, LineInv
    <3>3. FileInv' BY <2>1, <3>1, <3>2 DEF BatchInv, FileInv
    <3> QED BY <2>1, <3>1, <3>2, <3>3 DEF BatchInv, LineInv
  <2>2. CASE DelBatch("prompt", active) /\ UNCHANGED turn
    BY <1>5, <2>2, BatchDelBatch DEF Echo, DelBatch, BatchInv
  <2> QED BY <1>5, <2>1, <2>2 DEF Echo
<1>6. CASE Typed
  <2>1. pc = "console" /\ pc' = "run" /\ UNCHANGED <<batch, user, dma, wrtprt, sub, turn, stopped, cut>>
    BY <1>6 DEF Typed, sysVars, history
  <2> QED BY <2>1, FileSame DEF BatchInv, LineInv
<1>7. CASE Cmmnd2
  BY <1>7, FileSame DEF Cmmnd2, history, BatchInv, LineInv
<1> QED BY <1>2, <1>3, <1>4, <1>5, <1>6, <1>7

LEMMA BatchCommand ==
  ASSUME BatchInv, Upsets = {},
         NoCommand \/ ChangeDrive \/ SetUser \/ BuiltIn \/ AskFirst \/ Answered
         \/ BuiltInDone \/ EraseBatch \/ FailIn("builtin") \/ Load
  PROVE  BatchInv'
<1>1. CASE NoCommand BY <1>1, BatchDone DEF NoCommand, Done, undone, BatchInv
<1>2. CASE BuiltInDone BY <1>2, BatchDone DEF BuiltInDone, Done, undone, BatchInv
<1>3. CASE ChangeDrive
  <2>1. pc = "decode" /\ UNCHANGED <<user, dma, wrtprt, turn, cut>> BY <1>3 DEF ChangeDrive
  <2>2. PICK d \in 0..NumDrive : GetBack1(d, user, d) \/ (pc' = "error" /\ UNCHANGED <<batch, sub, stopped>>)
    BY <1>3 DEF ChangeDrive
  <2>3. CASE GetBack1(d, user, d) BY <2>1, <2>3, BatchDone DEF BatchInv
  <2>4. CASE pc' = "error" /\ UNCHANGED <<batch, sub, stopped>>
    BY <2>1, <2>4, FileSame DEF BatchInv, LineInv
  <2> QED BY <2>2, <2>3, <2>4
<1>4. CASE SetUser
  <2>1. pc = "decode" /\ UNCHANGED <<dma, wrtprt, turn, cut>> BY <1>4 DEF SetUser, undone
  \* a batch stays in user area 0, where its file is
  <2>2. PICK u \in User : user' = u /\ GetBack1(active, u, cdrive) /\ (batch => u = 0)
    BY <1>4 DEF SetUser
  <2>3. batch => user = 0 BY <2>1 DEF BatchInv
  <2> QED BY <2>1, <2>2, <2>3, BatchDone
<1>5. CASE BuiltIn BY <1>5, FileSame DEF BuiltIn, DSelect, undone, BatchInv, LineInv
<1>6. CASE AskFirst BY <1>6, FileSame DEF AskFirst, sysVars, history, BatchInv, LineInv
<1>7. CASE Answered BY <1>7, FileSame DEF Answered, DSelect, history, BatchInv, LineInv
<1>8. CASE EraseBatch
  <2>1. /\ pc = "builtin" /\ sub' = [sub EXCEPT ![user] = Other]
        /\ UNCHANGED <<pc, batch, user, dma, wrtprt, turn, stopped, cut>>
    BY <1>8 DEF EraseBatch, undone
  <2>2. sub[0] = Other => sub'[0] = Other BY <2>1 DEF BatchInv
  <2> QED BY <2>1, <2>2, FileGone DEF BatchInv, LineInv
<1>9. CASE FailIn("builtin")
  BY <1>9, FileSame DEF FailIn, sysVars, history, BatchInv, LineInv
<1>10. CASE Load
  <2>1. pc = "decode" /\ UNCHANGED <<user, wrtprt, turn, cut>> /\ dma' \in {"tbuff", "else"}
    BY <1>10 DEF Load, BatchInv
  <2>2. CASE DelBatch("prompt", cdrive) BY <2>1, <2>2, BatchDelBatch DEF DelBatch, BatchInv
  <2>3. CASE ~batch /\ Done(cdrive)
    \* only a line from the console leaves another DMA address behind
    <3>1. CASE DelBatch("prompt", cdrive)
      BY <2>1, <3>1, BatchDelBatch DEF DelBatch, BatchInv
    <3>2. CASE pc' = "prompt" /\ UNCHANGED <<batch, sub, stopped>>
      BY <2>1, <2>3, <3>2, FileSame DEF BatchInv, LineInv
    <3> QED BY <2>3, <3>1, <3>2 DEF Done, GetBack1, DelBatch
  <2>4. CASE pc' \in {"program", "error"} /\ UNCHANGED <<batch, sub, stopped>>
    BY <2>1, <2>4, FileSame DEF BatchInv, LineInv
  <2> QED BY <1>10, <2>2, <2>3, <2>4 DEF Load
<1> QED BY <1>1, <1>2, <1>3, <1>4, <1>5, <1>6, <1>7, <1>8, <1>9, <1>10

LEMMA BatchProgram ==
  ASSUME BatchInv, Upsets = {}, ProgramStep
  PROVE  BatchInv'
<1>1. CASE ProgramCalls
  BY <1>1, FileSame DEF ProgramCalls, history, BatchInv, LineInv
<1>2. CASE Submit
  <2>1. /\ pc = "program" /\ UNCHANGED <<pc, batch, user, dma, wrtprt>> /\ stopped' = FALSE
        /\ cut' = [cut EXCEPT ![user] = FALSE]
    BY <1>2 DEF Submit
  <2>2. PICK n \in 1..MaxLine : sub' = [sub EXCEPT ![user] = n] /\ turn' = [turn EXCEPT ![user] = n]
    BY <1>2 DEF Submit
  <2>3. n \in Int /\ n >= 0 BY CcpAssumption DEF CcpAssumption
  <2>4. sub' \in [User -> Int] /\ turn' \in [User -> Int] /\ cut' \in [User -> BOOLEAN]
    BY <2>1, <2>2, <2>3 DEF BatchInv
  <2>5. FileInv' BY <2>1, <2>2, <2>3 DEF BatchInv, FileInv
  <2> QED BY <2>1, <2>4, <2>5 DEF BatchInv, LineInv
<1>3. CASE ProgramReturns
  BY <1>3, FileSame DEF ProgramReturns, history, BatchInv, LineInv
<1>4. CASE FailIn("program")
  BY <1>4, FileSame DEF FailIn, sysVars, history, BatchInv, LineInv
<1> QED BY <1>1, <1>2, <1>3, <1>4 DEF ProgramStep

LEMMA BatchNext ==
  ASSUME DriveInv, BatchInv, [Next]_sysvars, Upsets = {}
  PROVE  BatchInv'
<1>1. CASE Next
  <2>1. ~RenameWild BY DEF RenameWild
  <2> QED
    BY <1>1, <2>1, BatchAway, BatchLine, BatchCommand, BatchProgram DEF Next, CcpStep, CcpAlone
<1>2. CASE UNCHANGED sysvars
  BY <1>2 DEF sysvars, ccpVars, sysVars, BatchInv, FileInv, LineInv
<1> QED BY <1>1, <1>2

LEMMA BatchCorrect ==
  ASSUME Upsets = {}
  PROVE  Spec => [](DriveInv /\ BatchInv)
<1>1. Init => DriveInv
  BY Sizes DEF Init, BootInit, CcpInit, DriveInv, UpInv
<1>2. Init => BatchInv
  BY Sizes DEF Init, CcpInit, BatchInv, FileInv, LineInv, Other
<1>3. "rename" \notin Upsets OBVIOUS
<1> QED BY <1>1, <1>2, <1>3, DriveNext, BatchNext, PTL DEF Spec

(* The lines of a batch are run in order, none twice, and a line is lost only *)
(* to a reset or ^C between its removal from the file and its run.          *)
THEOREM InTurnCorrect ==
  ASSUME Upsets = {}
  PROVE  Spec => []InTurn
<1>1. DriveInv /\ BatchInv => InTurn BY DEF BatchInv, LineInv, InTurn
<1> QED BY <1>1, BatchCorrect, PTL

(* A batch that a key or an error has stopped never runs another line, also  *)
(* after warm boots and resets.                                             *)
THEOREM NoRevivalCorrect ==
  ASSUME Upsets = {}
  PROVE  Spec => []NoRevival
<1>1. DriveInv /\ BatchInv => NoRevival BY DEF BatchInv, LineInv, NoRevival
<1> QED BY <1>1, BatchCorrect, PTL
-----------------------------------------------------------------------------
(* Types.                                                                   *)

\* What a type needs to stay one: a record count that is decremented is
\* positive, and what INBUFF has of a batch is one of its lines.
Steady ==
  /\ stage = "wboot" => secno < NumSys
  /\ pc = "read" => batch /\ sub[user] # Other
  /\ pc = "close" => sub[user] > 0
  /\ pc \in {"close", "echo"} => inbuff \in Line
  /\ batch /\ dma # "tbuff" => pc \in {"off", "program", "error"}
  /\ pc \notin {"off", "error"} => active \in Drive

\* The byte of user and drive.
LEMMA ByteType ==
  /\ NumUser \in Nat /\ NumUser > 0 /\ NumDrive \in Nat /\ NumDrive > 0 /\ MaxLine \in Nat
  /\ 0 \in Drive /\ 0 \in User /\ 0 \in 0..NumDrive * NumUser
  /\ \A d \in 0..NumDrive : d \in 0..NumDrive * NumUser
  /\ \A u \in User, d \in Drive : u * NumDrive + d \in 0..NumDrive * NumUser
<1>1. NumUser \in Nat /\ NumUser > 0 /\ NumDrive \in Nat /\ NumDrive > 0 /\ MaxLine \in Nat
  BY CcpAssumption DEF CcpAssumption
<1>2. NumDrive * NumUser \in Nat /\ NumDrive <= NumDrive * NumUser
  <2>1. NumDrive * NumUser = NumDrive + NumDrive * (NumUser - 1) BY <1>1
  <2>2. NumDrive * (NumUser - 1) \in Nat BY <1>1
  <2> QED BY <1>1, <2>1, <2>2
<1> DEFINE t == NumDrive * NumUser
<1>3. ASSUME NEW u \in User, NEW d \in Drive
      PROVE  u * NumDrive + d \in 0..t
  <2>1. u \in Nat /\ u <= NumUser - 1 /\ d \in Nat /\ d < NumDrive BY <1>1 DEF User, Drive
  <2>2. u * NumDrive \in Nat /\ u * NumDrive <= (NumUser - 1) * NumDrive BY <1>1, <2>1
  <2>3. (NumUser - 1) * NumDrive = t - NumDrive BY <1>1
  <2> DEFINE a == u * NumDrive
             c == (NumUser - 1) * NumDrive
  <2> HIDE DEF t, a, c
  <2> QED BY <1>1, <1>2, <2>1, <2>2, <2>3 DEF a, c, t
<1>4. \A d \in 0..NumDrive : d \in 0..t
  <2> HIDE DEF t
  <2> QED BY <1>1, <1>2 DEF t
<1> QED BY <1>1, <1>2, <1>3, <1>4 DEF Drive, User

\* Leaving, starting, and what the boot does.
LEMMA TypesAway ==
  ASSUME CcpTypeOK, BootTypeOK, Steady, UpInv, UpInv',
         Reset \/ BootAlone \/ ColdBoot \/ Start \/ WarmBoot \/ Overlay
  PROVE  CcpTypeOK' /\ BootTypeOK' /\ Steady'
<1>1. NumSys \in Nat /\ NumSys > 0 /\ NumLoad \in Nat /\ NumSys < NumLoad
  BY BootAssumption DEF BootAssumption
<1>2. CASE Reset \/ WarmBoot
  <2>1. Leave /\ mem' = mem /\ rom' \in {TRUE, rom}
        /\ ((stage' = "rom" /\ secno' = secno) \/ (stage' = "wboot" /\ secno' = 0))
    <3>1. CASE Reset BY <3>1 DEF Reset, PushReset
    <3>2. CASE WarmBoot BY <3>2 DEF WarmBoot, Cancel, Acknowledge, ProgramReboots, WBoot
    <3> QED BY <1>2, <3>1, <3>2
  <2>6. breaks' \in 0..MaxBreak
    <3>1. breaks \in 0..MaxBreak /\ MaxBreak \in Nat
      BY CcpAssumption DEF CcpTypeOK, CcpAssumption
    <3>2. CASE Reset BY <3>1, <3>2 DEF Reset
    <3>3. CASE WarmBoot BY <3>1, <3>3 DEF WarmBoot, Cancel, Acknowledge, ProgramReboots
    <3> QED BY <1>2, <3>2, <3>3
  <2>2. cut' \in [User -> BOOLEAN] BY <2>1 DEF Leave, CcpTypeOK
  <2>3. CcpTypeOK' BY <2>1, <2>2, <2>6 DEF Leave, CcpTypeOK, sysVars
  <2>4. BootTypeOK'
    <3>1. rom' \in BOOLEAN BY <2>1 DEF BootTypeOK
    <3>2. secno' \in 0..NumLoad BY <1>1, <2>1 DEF BootTypeOK
    <3> QED BY <2>1, <3>1, <3>2 DEF BootTypeOK
  <2>5. Steady' BY <1>1, <2>1 DEF Leave, Steady
  <2> QED BY <2>3, <2>4, <2>5
<1>3. CASE BootAlone
  <2>1. CcpTypeOK' BY <1>3 DEF BootAlone, CcpTypeOK, ccpVars, sysVars
  <2>2. BootTypeOK' /\ (stage' = "wboot" => secno' < NumSys)
    <3> USE DEF BootTypeOK
    <3>1. CASE Loader
      <4>1. mem' = [mem EXCEPT ![LoaderPage] = Program] /\ secno' = 0
            /\ stage' = "check" /\ rom' = rom
        BY <3>1 DEF Loader
      <4>2. mem' \in [Page -> {Junk, Program, Vectors} \cup 0..NumLoad-1] BY <4>1
      <4>3. 0 \in 0..NumLoad BY <1>1
      <4> QED BY <4>1, <4>2, <4>3
    <3>2. CASE MemCheck BY <3>2 DEF MemCheck
    <3>3. CASE LoadSector
      <4>1. secno \in 0..NumLoad-1 BY <1>1, <3>3 DEF LoadSector
      <4> QED BY <1>1, <3>3, <4>1 DEF LoadSector
    <3>4. CASE ReadComplete BY <3>4 DEF ReadComplete
    <3>5. CASE WBootSector BY <1>1, <3>5 DEF WBootSector, Steady
    <3> QED BY <1>3, <3>1, <3>2, <3>3, <3>4, <3>5 DEF BootAlone, BootStep
  <2>3. UNCHANGED ccpVars BY <1>3 DEF BootAlone
  <2> QED BY <2>1, <2>2, <2>3 DEF Steady, ccpVars, sysVars
<1>4. CASE Overlay
  <2>1. mem' \in [Page -> {Junk, Program, Vectors} \cup 0..NumLoad-1]
    BY <1>4 DEF Overlay, BootTypeOK
  <2> QED BY <1>4, <2>1 DEF Overlay, CcpTypeOK, BootTypeOK, Steady, ccpVars, sysVars
<1>5. CASE ColdBoot
  BY <1>5, ByteType DEF ColdBoot, BiosBoot, CcpTypeOK, BootTypeOK, Steady, sysVars, UpInv
<1>6. CASE Start
  <2>1. BootDrive \in Drive BY BootDriveIs DEF CcpTypeOK
  <2>2. /\ pc' = "prompt" /\ user' = 0 /\ cdrive' = BootDrive /\ active' = cdrive'
        /\ tdrive' = tdrive /\ home' = (IF tdrive < NumDrive THEN home ELSE 0)
        /\ inbuff' = Other /\ wrtprt' = FALSE /\ dma' = "tbuff" /\ batch' = (sub[0] # Other)
        /\ asking' = FALSE /\ chgdrv' = 0
        /\ UNCHANGED <<tbuff, sub, turn, stopped, cut, batches, breaks>>
    BY <1>6, <2>1, Nibble DEF Start, Command
  <2>3. /\ stage' = "up" /\ secno' = secno /\ rom' = rom
        /\ mem' \in [Page -> {Junk, Program, Vectors} \cup 0..NumLoad-1]
    BY <1>6 DEF Start, GoCpm, BootTypeOK
  <2>4. CcpTypeOK'
    <3>1. 0 \in 0..NumDrive+1 /\ BootDrive \in 0..NumDrive BY <2>1, ByteType DEF Drive
    <3>2. batch' \in BOOLEAN /\ {inbuff', tbuff'} \subseteq Line \cup {Other}
      BY <2>2 DEF CcpTypeOK
    <3> QED BY <2>1, <2>2, <3>1, <3>2, ByteType DEF CcpTypeOK
  <2>5. BootTypeOK' BY <2>3 DEF BootTypeOK
  <2>6. Steady' BY <2>1, <2>2, <2>3 DEF Steady
  <2> QED BY <2>4, <2>5, <2>6
<1> QED BY <1>2, <1>3, <1>4, <1>5, <1>6

\* DELBATCH.
LEMMA TypesDelBatch ==
  ASSUME CcpTypeOK, NEW to \in {"prompt", "console"}, NEW a \in Drive, NEW u \in User,
         NEW d \in Drive, DelBatchIn(to, a, u, d)
  PROVE  /\ pc' \in {to, "error"} /\ batch' = FALSE /\ stopped' \in BOOLEAN
         /\ active' \in Drive /\ sub' \in [User -> 0..MaxLine \cup {Other}]
<1>1. sub' \in [User -> 0..MaxLine \cup {Other}] BY DEF DelBatchIn, CcpTypeOK
<1>2. batch' = FALSE /\ stopped' \in BOOLEAN BY DEF DelBatchIn, CcpTypeOK
<1>3. pc' \in {to, "error"} /\ active' \in Drive BY ByteType DEF DelBatchIn, CcpTypeOK
<1> QED BY <1>1, <1>2, <1>3

\* GETINP and what follows until a line is run.
LEMMA TypesLine ==
  ASSUME CcpTypeOK, Steady,
         GetInp \/ ReadBatch \/ CloseBatch \/ Echo \/ Typed \/ Cmmnd2
  PROVE  CcpTypeOK' /\ (stage' = stage /\ secno' = secno => Steady')
<1>1. ASSUME NEW a \in Drive, FromConsole(a)
      PROVE  CcpTypeOK' /\ (stage' = stage /\ secno' = secno => Steady')
  <2>1. /\ pc' \in {"console", "error"} /\ batch' = FALSE /\ stopped' \in BOOLEAN
        /\ active' \in Drive /\ sub' \in [User -> 0..MaxLine \cup {Other}]
    BY <1>1, TypesDelBatch DEF FromConsole, DelBatch, CcpTypeOK
  <2>2. tdrive' \in 0..NumDrive * NumUser
    BY <1>1, ByteType DEF FromConsole, SetCDrv, CcpTypeOK
  <2>3. UNCHANGED <<asking, cdrive, chgdrv, inbuff, tbuff, user, dma, wrtprt,
                    home, turn, cut, batches, breaks>>
    BY <1>1 DEF FromConsole
  <2>4. active' \in 0..NumDrive BY <2>1, ByteType DEF Drive
  <2>5. CcpTypeOK' BY <2>1, <2>2, <2>3, <2>4 DEF CcpTypeOK
  <2> QED BY <2>1, <2>5 DEF Steady
<1>2. 0 \in Drive /\ cdrive \in Drive /\ active \in Drive /\ Drive \subseteq 0..NumDrive
  BY ByteType DEF CcpTypeOK, Steady, Drive, GetInp, ReadBatch, CloseBatch, Echo, Typed, Cmmnd2
<1>3. CASE GetInp
  <2>1. CASE FromConsole(active) \/ FromConsole(0) BY <1>1, <1>2, <2>1
  <2>2. CASE /\ batch /\ sub[user] # Other /\ pc = "prompt"
             /\ pc' = "read" /\ active' = IF cdrive # 0 THEN 0 ELSE active
             /\ UNCHANGED <<asking, batch, chgdrv, inbuff, tbuff, sub, stopped, breaks, unmoved>>
    BY <1>2, <2>2 DEF CcpTypeOK, Steady, unmoved
  <2> QED BY <1>3, <2>1, <2>2 DEF GetInp
<1>4. CASE ReadBatch
  <2>1. CASE FromConsole(active) BY <1>1, <1>2, <2>1
  <2>2. CASE /\ pc = "read" /\ sub[user] > 0
             /\ tbuff' = (IF dma = "tbuff" THEN sub[user] - 1 ELSE tbuff)
             /\ inbuff' = tbuff' /\ pc' = "close"
             /\ UNCHANGED <<asking, batch, chgdrv, active, sub, stopped, breaks, unmoved>>
    <3>1. dma = "tbuff" BY <2>2 DEF Steady
    <3>2. sub[user] \in 0..MaxLine \cup {Other} BY DEF CcpTypeOK
    <3>3. inbuff' = tbuff' /\ tbuff' \in Line
      BY <2>2, <3>1, <3>2, ByteType DEF Line, Other
    <3> QED BY <2>2, <3>3 DEF CcpTypeOK, Steady, unmoved
  <2>3. CASE /\ pc' = "error"
             /\ UNCHANGED <<asking, batch, chgdrv, inbuff, tbuff, active, sub, stopped, breaks, unmoved>>
    BY <2>3 DEF CcpTypeOK, Steady, unmoved
  <2> QED BY <1>4, <2>1, <2>2, <2>3 DEF ReadBatch
<1>5. CASE CloseBatch
  <2>1. sub' \in [User -> 0..MaxLine \cup {Other}]
    <3>1. sub[user] \in 0..MaxLine \cup {Other} /\ sub[user] > 0
      BY <1>5 DEF CloseBatch, CcpTypeOK, Steady
    <3>2. sub[user] - 1 \in 0..MaxLine BY <3>1, ByteType DEF Other
    <3> QED BY <1>5, <3>2 DEF CloseBatch, CcpTypeOK
  <2> QED BY <1>2, <1>5, <2>1 DEF CloseBatch, CcpTypeOK, Steady, unmoved
<1>6. CASE Echo
  <2>1. UNCHANGED <<cdrive, inbuff, tbuff, tdrive, user, dma, wrtprt, home, cut, batches>>
        /\ pc = "echo" /\ inbuff \in Line
    BY <1>6 DEF Echo, Steady
  <2>2. CASE /\ pc' = "run" /\ turn' = [turn EXCEPT ![user] = inbuff]
             /\ UNCHANGED <<asking, batch, chgdrv, active, sub, stopped, breaks>>
    <3>1. turn' \in [User -> 0..MaxLine] BY <2>1, <2>2, ByteType DEF CcpTypeOK, Line
    <3> QED BY <2>1, <2>2, <3>1 DEF CcpTypeOK, Steady
  <2>3. CASE /\ breaks < MaxBreak /\ breaks' = breaks + 1
             /\ DelBatch("prompt", active) /\ asking' = FALSE /\ UNCHANGED <<chgdrv, turn>>
    <3>1. /\ pc' \in {"prompt", "error"} /\ batch' = FALSE /\ stopped' \in BOOLEAN
          /\ active' \in Drive /\ sub' \in [User -> 0..MaxLine \cup {Other}]
      BY <1>2, <2>3, TypesDelBatch DEF DelBatch, CcpTypeOK
    <3>2. breaks' \in 0..MaxBreak BY <2>3, CcpAssumption DEF CcpTypeOK, CcpAssumption
    <3> QED BY <1>2, <2>1, <2>3, <3>1, <3>2 DEF CcpTypeOK, Steady
  <2> QED BY <1>6, <2>2, <2>3 DEF Echo
<1>7. CASE Typed BY <1>7, ByteType DEF Typed, CcpTypeOK, Steady, sysVars, history, Drive
<1>8. CASE Cmmnd2 BY <1>2, <1>8 DEF Cmmnd2, CcpTypeOK, Steady, history
<1> QED BY <1>3, <1>4, <1>5, <1>6, <1>7, <1>8

\* Back at the prompt, or an error in the middle of the line.
LEMMA TypesDone ==
  ASSUME CcpTypeOK, NEW a \in Drive, NEW u \in User, NEW d \in Drive, GetBack1(a, u, d)
  PROVE  /\ pc' \in {"prompt", "error"} /\ batch' \in BOOLEAN /\ (batch' => batch)
         /\ stopped' \in BOOLEAN
         /\ active' \in Drive /\ sub' \in [User -> 0..MaxLine \cup {Other}]
<1>1. CASE DelBatchIn("prompt", a, u, d) BY <1>1, TypesDelBatch
<1>2. CASE pc' = "prompt" /\ active' = a /\ UNCHANGED <<batch, sub, stopped>>
  BY <1>2 DEF CcpTypeOK
<1> QED BY <1>1, <1>2 DEF GetBack1

\* DSELECT may find that there is no such drive.
LEMMA TypesSelect ==
  ASSUME CcpTypeOK, NEW c \in 0..NumDrive+1, DSelect(c, "builtin")
  PROVE  /\ chgdrv' \in 0..NumDrive+1 /\ active' \in 0..NumDrive
         /\ pc' \in {"builtin", "error"} /\ (pc' = "builtin" => active' \in Drive)
<1>1. Named(c) \in 0..NumDrive BY ByteType DEF CcpTypeOK, Named, Drive
<1> QED BY <1>1 DEF DSelect

\* The commands, and what programs do.
LEMMA TypesCommand ==
  ASSUME "dma" \notin Upsets, CcpTypeOK, Steady, UNCHANGED <<stage, secno>>,
         ProgramStep \/ NoCommand \/ ChangeDrive \/ SetUser \/ BuiltIn \/ AskFirst \/ Answered
         \/ BuiltInDone \/ EraseBatch \/ RenameWild \/ FailIn("builtin") \/ Load
  PROVE  CcpTypeOK' /\ Steady'
<1>1. 0 \in Drive /\ cdrive \in Drive /\ Drive \subseteq 0..NumDrive /\ 0 \in 0..NumDrive+1
  BY ByteType DEF CcpTypeOK, Drive
<1>2. CASE NoCommand
  <2>1. active \in Drive BY <1>2 DEF NoCommand, Steady
  <2>2. /\ pc' \in {"prompt", "error"} /\ batch' \in BOOLEAN /\ (batch' => batch)
        /\ stopped' \in BOOLEAN
        /\ active' \in Drive /\ sub' \in [User -> 0..MaxLine \cup {Other}]
    BY <1>2, <2>1, TypesDone DEF NoCommand, Done, CcpTypeOK
  <2>3. pc = "decode" /\ UNCHANGED <<undone, cdrive, chgdrv, tdrive, user, dma>>
    BY <1>2 DEF NoCommand
  <2>4. CcpTypeOK' BY <1>1, <2>2, <2>3 DEF CcpTypeOK, undone
  <2>5. Steady' BY <2>2, <2>3 DEF Steady
  <2> QED BY <2>4, <2>5
<1>3. CASE ChangeDrive
  <2>1. PICK d \in 0..NumDrive :
          /\ tdrive' = d
          /\ \/ d \in Drive /\ cdrive' = d /\ home' = d /\ GetBack1(d, user, d)
             \/ /\ d \notin Drive /\ pc' = "error" /\ active' = d
                /\ UNCHANGED <<cdrive, home, batch, sub, stopped>>
    BY <1>3 DEF ChangeDrive
  <2>2. pc = "decode" /\ UNCHANGED <<asking, chgdrv, inbuff, tbuff, user, dma, wrtprt, turn,
                                     cut, batches, breaks>>
    BY <1>3 DEF ChangeDrive
  <2>3. tdrive' \in 0..NumDrive * NumUser BY <2>1, ByteType
  <2>4. CASE d \in Drive /\ cdrive' = d /\ home' = d /\ GetBack1(d, user, d)
    <3>1. /\ pc' \in {"prompt", "error"} /\ batch' \in BOOLEAN /\ (batch' => batch)
          /\ stopped' \in BOOLEAN
          /\ active' \in Drive /\ sub' \in [User -> 0..MaxLine \cup {Other}]
      BY <2>4, TypesDone DEF CcpTypeOK
    <3> QED BY <1>1, <2>2, <2>3, <2>4, <3>1 DEF CcpTypeOK, Steady
  <2>5. CASE /\ pc' = "error" /\ active' = d /\ UNCHANGED <<cdrive, home, batch, sub, stopped>>
    BY <2>2, <2>3, <2>5 DEF CcpTypeOK, Steady
  <2> QED BY <2>1, <2>4, <2>5
<1>4. CASE SetUser
  <2>1. pc = "decode" /\ UNCHANGED <<undone, cdrive, chgdrv, tdrive, dma>> BY <1>4 DEF SetUser
  <2>2. active \in Drive BY <2>1 DEF Steady
  <2>3. PICK u \in User : user' = u /\ GetBack1(active, u, cdrive) BY <1>4 DEF SetUser
  <2>4. /\ pc' \in {"prompt", "error"} /\ batch' \in BOOLEAN /\ (batch' => batch)
        /\ stopped' \in BOOLEAN
        /\ active' \in Drive /\ sub' \in [User -> 0..MaxLine \cup {Other}]
    BY <1>1, <2>2, <2>3, TypesDone
  <2> QED BY <1>1, <2>1, <2>3, <2>4 DEF CcpTypeOK, Steady, undone
<1>5. CASE BuiltIn
  <2>1. PICK c \in 0..NumDrive+1 : DSelect(c, "builtin") BY <1>5 DEF BuiltIn
  <2>2. pc = "decode" /\ UNCHANGED <<undone, batch, cdrive, tdrive, user, dma, sub, stopped>>
    BY <1>5 DEF BuiltIn
  <2> QED BY <2>1, <2>2, TypesSelect DEF CcpTypeOK, Steady, undone
<1>6. CASE AskFirst BY <1>6 DEF AskFirst, CcpTypeOK, Steady, sysVars, history
<1>7. CASE Answered
  <2>1. /\ pc = "run" /\ asking' = FALSE
        /\ UNCHANGED <<batch, cdrive, inbuff, tbuff, tdrive, user, dma, wrtprt, sub, history>>
    BY <1>7 DEF Answered
  <2>2. CASE DSelect(chgdrv, "builtin")
    <3>1. chgdrv \in 0..NumDrive+1 BY DEF CcpTypeOK
    <3> QED BY <2>1, <2>2, <3>1, TypesSelect DEF CcpTypeOK, Steady, history
  <2>3. CASE pc' = "prompt" /\ UNCHANGED <<chgdrv, active>>
    BY <2>1, <2>3 DEF CcpTypeOK, Steady, history
  <2> QED BY <1>7, <2>2, <2>3 DEF Answered
<1>8. CASE BuiltInDone \/ RenameWild
  <2>1. pc = "builtin" /\ chgdrv' = 0 /\ UNCHANGED <<undone, cdrive, tdrive, user, dma>>
    BY <1>8 DEF BuiltInDone, RenameWild
  <2>2. active \in Drive /\ ResetDr \in Drive BY <1>1, <2>1 DEF Steady, ResetDr
  <2>3. /\ pc' \in {"prompt", "error"} /\ batch' \in BOOLEAN /\ (batch' => batch)
        /\ stopped' \in BOOLEAN
        /\ active' \in Drive /\ sub' \in [User -> 0..MaxLine \cup {Other}]
    BY <1>8, <2>2, TypesDone, TypesDelBatch DEF BuiltInDone, RenameWild, Done, DelBatch, CcpTypeOK
  <2>4. CcpTypeOK' BY <1>1, <2>1, <2>3 DEF CcpTypeOK, undone
  <2>5. Steady' BY <2>1, <2>3 DEF Steady
  <2> QED BY <2>4, <2>5
<1>9. CASE EraseBatch
  <2>1. sub' \in [User -> 0..MaxLine \cup {Other}] BY <1>9 DEF EraseBatch, CcpTypeOK
  <2> QED BY <1>9, <2>1 DEF EraseBatch, CcpTypeOK, Steady, undone
<1>10. CASE FailIn("builtin") \/ FailIn("program")
  BY <1>10 DEF FailIn, CcpTypeOK, Steady, sysVars, history
<1>11. CASE Load
  <2>1. /\ pc = "decode" /\ chgdrv' = 0
        /\ UNCHANGED <<asking, inbuff, wrtprt, user, cdrive, home, turn, cut, batches, breaks>>
    BY <1>11 DEF Load
  <2>2. CASE /\ \/ DelBatch("prompt", cdrive) /\ UNCHANGED dma
                \/ (batch => "dma" \in Upsets) /\ Done(cdrive) /\ dma' = "else"
             /\ UNCHANGED <<tbuff, tdrive>>
    <3>1. /\ pc' \in {"prompt", "error"} /\ batch' \in BOOLEAN /\ (batch' => batch)
          /\ stopped' \in BOOLEAN
          /\ active' \in Drive /\ sub' \in [User -> 0..MaxLine \cup {Other}]
      BY <1>1, <2>2, TypesDone, TypesDelBatch DEF Done, DelBatch, CcpTypeOK
    <3>2. dma' \in {"tbuff", "else"} /\ ~batch' 
      <4>1. CASE DelBatch("prompt", cdrive) /\ UNCHANGED dma
        BY <1>1, <4>1, TypesDelBatch DEF DelBatch, CcpTypeOK
      <4>2. CASE (batch => "dma" \in Upsets) /\ Done(cdrive) /\ dma' = "else"
        BY <3>1, <4>2
      <4> QED BY <2>2, <4>1, <4>2
    <3> QED BY <1>1, <2>1, <2>2, <3>1, <3>2 DEF CcpTypeOK, Steady
  <2>3. CASE /\ pc' = "program" /\ active' = cdrive /\ dma' = "tbuff" /\ tbuff' = Other
             /\ SetCDrv /\ UNCHANGED <<batch, sub, stopped>>
    <3>1. tdrive' \in 0..NumDrive * NumUser BY <2>3, ByteType DEF SetCDrv, CcpTypeOK
    <3> QED BY <1>1, <2>1, <2>3, <3>1 DEF CcpTypeOK, Steady
  <2>4. CASE /\ pc' = "error" /\ active' = NumDrive
             /\ UNCHANGED <<tbuff, tdrive, dma, batch, sub, stopped>>
    <3>1. active' \in 0..NumDrive BY <2>4, ByteType
    <3> QED BY <1>1, <2>1, <2>4, <3>1 DEF CcpTypeOK, Steady
  <2> QED BY <1>11, <2>2, <2>3, <2>4 DEF Load
<1>12. CASE ProgramCalls
  BY <1>1, <1>12 DEF ProgramCalls, CcpTypeOK, Steady, history
<1>13. CASE Submit
  <2>1. sub' \in [User -> 0..MaxLine \cup {Other}] /\ turn' \in [User -> 0..MaxLine]
    BY <1>13, ByteType DEF Submit, CcpTypeOK
  <2>2. batches' \in 0..MaxBatch BY <1>13, CcpAssumption DEF Submit, CcpTypeOK, CcpAssumption
  <2>3. cut' \in [User -> BOOLEAN] BY <1>13 DEF Submit, CcpTypeOK
  <2> QED BY <1>13, <2>1, <2>2, <2>3 DEF Submit, CcpTypeOK, Steady
<1>14. CASE ProgramReturns
  <2>1. tdrive' \in 0..NumDrive * NumUser BY <1>1, <1>14, ByteType DEF ProgramReturns
  <2> QED BY <1>1, <1>14, <2>1 DEF ProgramReturns, CcpTypeOK, Steady, history
<1> QED
  BY <1>2, <1>3, <1>4, <1>5, <1>6, <1>7, <1>8, <1>9, <1>10, <1>11, <1>12, <1>13, <1>14
  DEF ProgramStep

LEMMA TypesNext ==
  ASSUME "dma" \notin Upsets, TypeOK, Steady, [Next]_sysvars
  PROVE  TypeOK' /\ Steady'
<1>1. CcpTypeOK /\ BootTypeOK /\ UpInv BY DEF TypeOK, UpInv
<1>2. CASE Next
  <2>1. UpInv' BY <1>1, <1>2, UpKeeps
  <2>2. CASE Reset \/ BootAlone \/ ColdBoot \/ Start \/ WarmBoot \/ Overlay
    BY <1>1, <2>1, <2>2, TypesAway DEF TypeOK, UpInv
  <2>3. CASE CcpStep
    <3>1. UNCHANGED <<stage, rom, mem, secno>> BY <2>3 DEF CcpStep, bootVars
    <3>2. CcpTypeOK' /\ Steady'
      BY <1>1, <2>3, <3>1, TypesLine, TypesCommand DEF CcpStep, CcpAlone
    <3> QED BY <1>1, <2>1, <3>1, <3>2 DEF TypeOK, BootTypeOK, UpInv
  <2> QED BY <1>2, <2>2, <2>3 DEF Next
<1>3. CASE UNCHANGED sysvars
  BY <1>3 DEF sysvars, bootVars, ccpVars, sysVars, TypeOK, BootTypeOK, CcpTypeOK, Steady
<1> QED BY <1>2, <1>3

\* The types, if no batch runs with another DMA address: it would put a line
\* that is not of the batch into INBUFF, and the order of its lines would say
\* nothing.
THEOREM TypeCorrect == ASSUME "dma" \notin Upsets PROVE Spec => []TypeOK
<1>1. Init => TypeOK /\ Steady
  <2> SUFFICES ASSUME Init PROVE TypeOK /\ Steady OBVIOUS
  <2>1. 0 \in 0..NumLoad /\ 0 \in 0..MaxLine /\ 0 \in 0..MaxBatch /\ 0 \in 0..MaxBreak
        /\ 0 \in 0..NumDrive+1 /\ 0 \in 0..NumDrive
    BY BootAssumption, CcpAssumption DEF BootAssumption, CcpAssumption
  <2>2. BootTypeOK BY <2>1 DEF Init, BootInit, BootTypeOK
  <2>3. CcpTypeOK BY <2>1, ByteType DEF Init, CcpInit, CcpTypeOK
  <2> QED BY <2>2, <2>3 DEF Init, BootInit, CcpInit, TypeOK, Steady
<1>2. TypeOK /\ Steady /\ [Next]_sysvars => TypeOK' /\ Steady' BY TypesNext
<1> QED BY <1>1, <1>2, PTL DEF Spec
=============================================================================
