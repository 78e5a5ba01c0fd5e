-------------------------------- MODULE Ccp --------------------------------
(***************************************************************************)
(* The command processor of CP/M (src/src/cpm/cpm22.asm from FBASE to       *)
(* CCPSTACK): where it takes its lines from, which drive and user area it   *)
(* leaves selected, and how a batch of lines, the file $$$.SUB on drive A,  *)
(* goes on over warm boots.  The BDOS is seen through what its functions    *)
(* change for the CCP; System composes this with Boot.                     *)
(*                                                                         *)
(* The records of $$$.SUB are in reverse order: a batch of n lines is read  *)
(* from record n-1 to record 0, and the record count of the directory says  *)
(* how many are left.                                                      *)
(***************************************************************************)
EXTENDS Integers

CONSTANTS
  NumDrive, \* NDISKS: 16, which is also what the drive nibble can hold
  NumUser,  \* 16
  MaxLine,  \* bound: lines of a batch
  MaxBatch, \* bound: batches that programs prepare
  MaxBreak, \* bound: resets, ^C and keys that stop a batch
  Upsets    \* what goes wrong in the code: "dma", "protect", "user", "rename"

ASSUME CcpAssumption ==
  /\ {NumDrive, NumUser, MaxLine, MaxBatch, MaxBreak} \subseteq Nat
  /\ NumDrive > 0 /\ NumUser > 0
  /\ Upsets \subseteq {"dma", "protect", "user", "rename"}

Drive == 0..NumDrive-1
User  == 0..NumUser-1
Line  == 0..MaxLine-1     \* a line of a batch, by its record
Other == -1               \* no such line, or no such file

VARIABLES
  pc,       \* where the CCP is: see TypeOK
  asking,   \* the line is the answer to "All (y/n)?" of ERA
  batch, cdrive, chgdrv,  \* BATCH, CDRIVE, CHGDRV
  inbuff, tbuff,          \* whose line is in INBUFF, and in TBUFF
  tdrive,   \* TDRIVE of page 0: the user and the drive for the next warm boot
  user, active, dma, wrtprt, \* BDOS: USERNO, ACTIVE, where to, drive A is R/O
  sub,      \* external, on drive A: the record count of $$$.SUB, by user area
  home,     \* history: the drive that was last asked for, or fallen back to
  turn,     \* history, by user area: the line of the batch that was run last
  cut,      \* history, by user area: a line was removed but not run
  stopped,  \* history: a batch was stopped, and none prepared since
  batches, breaks  \* counters of the bounds

sysVars  == <<user, active, dma, wrtprt, sub>>
ccpVars  == <<pc, asking, batch, cdrive, chgdrv, inbuff, tbuff, tdrive, sysVars,
              home, turn, stopped, cut, batches, breaks>>
history  == <<home, turn, stopped, cut, batches, breaks>>
unmoved  == <<cdrive, tdrive, user, dma, wrtprt, home, turn, cut, batches>>
undone   == <<asking, inbuff, tbuff, wrtprt, home, turn, cut, batches, breaks>>

CcpTypeOK ==
  /\ pc \in {"off", "prompt", "read", "close", "echo", "console", "run",
             "decode", "builtin", "program", "error"}
  /\ asking \in BOOLEAN /\ batch \in BOOLEAN
  /\ cdrive \in Drive /\ active \in 0..NumDrive /\ chgdrv \in 0..NumDrive+1
  /\ {inbuff, tbuff} \subseteq Line \cup {Other}
  /\ tdrive \in 0..NumDrive * NumUser
  /\ user \in User /\ dma \in {"tbuff", "else"} /\ wrtprt \in BOOLEAN
  /\ sub \in [User -> 0..MaxLine \cup {Other}]
  /\ home \in Drive /\ stopped \in BOOLEAN
  /\ turn \in [User -> 0..MaxLine] /\ cut \in [User -> BOOLEAN]
  /\ batches \in 0..MaxBatch /\ breaks \in 0..MaxBreak

CcpInit ==
  /\ pc = "off" /\ asking = FALSE
  /\ batch = FALSE /\ cdrive = 0 /\ chgdrv = 0 /\ inbuff = Other /\ tbuff = Other
  /\ tdrive = 0 /\ user = 0 /\ active = 0 /\ dma = "tbuff" /\ wrtprt = FALSE
  /\ sub = [u \in User |-> Other]
  /\ home = 0 /\ stopped = FALSE
  /\ turn = [u \in User |-> 0] /\ cut = [u \in User |-> FALSE]
  /\ batches = 0 /\ breaks = 0
-----------------------------------------------------------------------------
(* Starting and leaving.                                                    *)

\* GoCPM: the byte is a drive only if no user is set.
BootDrive == IF tdrive < NumDrive THEN tdrive ELSE 0

\* COMMAND, with the user and drive in C; RESDSK answers whether drive A has a
\* file whose name begins with "$".
Command(c) ==
  /\ pc' = "prompt" /\ asking' = FALSE /\ chgdrv' = 0 /\ inbuff' = Other
  /\ user' = c \div NumDrive /\ wrtprt' = FALSE /\ dma' = "tbuff"
  /\ batch' = (sub[user'] # Other)
  /\ cdrive' = c % NumDrive /\ active' = cdrive'
  /\ UNCHANGED <<tbuff, tdrive, sub, turn, stopped, cut, batches, breaks>>

\* The machine is reset, or something jumps to the warm boot.
Leave ==
  /\ pc' = "off"
  /\ cut' = [cut EXCEPT ![user] = @ \/ pc = "echo"]
  /\ UNCHANGED <<asking, batch, cdrive, chgdrv, inbuff, tbuff, tdrive, sysVars,
                 home, turn, stopped, batches>>

\* ^C: at the beginning of a console line, and after ^S during output.
Cancel == /\ pc \in {"prompt", "echo", "console", "builtin", "program"}
          /\ breaks < MaxBreak /\ breaks' = breaks + 1 /\ Leave

\* The BDOS has printed an error and a key leads to the warm boot.
Acknowledge == pc = "error" /\ Leave /\ UNCHANGED breaks
ProgramReboots == pc = "program" /\ Leave /\ UNCHANGED breaks
-----------------------------------------------------------------------------
(* GETINP: the next line.                                                   *)

DelBatchMemory(to, a, u, d) == \* mutant: the batch is left on the disk
  /\ batch' = FALSE /\ stopped' = (stopped \/ batch) /\ pc' = to /\ active' = a
  /\ UNCHANGED sub

\* DELBATCH in user area u, which leaves CDRIVE, d, selected if there was a
\* batch, and the drive a otherwise; and then `to`.
DelBatchIn(to, a, u, d) ==
  IF batch
  THEN /\ batch' = FALSE /\ stopped' = TRUE
       /\ IF wrtprt THEN pc' = "error" /\ active' = 0 /\ UNCHANGED sub
          ELSE pc' = to /\ active' = d /\ sub' = [sub EXCEPT ![u] = Other]
  ELSE pc' = to /\ active' = a /\ UNCHANGED <<batch, stopped, sub>>
DelBatch(to, a) == DelBatchIn(to, a, user, cdrive)

\* SETCDRV.
SetCDrv == tdrive' = user * NumDrive + cdrive

\* GETINP1 up to the call of function 10.
FromConsole(a) ==
  /\ DelBatch("console", a) /\ SetCDrv
  /\ UNCHANGED <<asking, cdrive, chgdrv, inbuff, tbuff, user, dma, wrtprt,
                 home, turn, cut, batches, breaks>>

\* GETINP: drive A is selected, and the file is opened in the current user area.
GetInp ==
  /\ pc = "prompt"
  /\ \/ ~batch /\ FromConsole(active)
     \/ batch /\ sub[user] = Other /\ FromConsole(0)
     \/ /\ batch /\ sub[user] # Other
        /\ pc' = "read" /\ active' = IF cdrive # 0 THEN 0 ELSE active
        /\ UNCHANGED <<asking, batch, chgdrv, inbuff, tbuff, sub, stopped, breaks, unmoved>>

ReadBatchFirst == \* mutant: the record of the count, not the one before
  /\ pc = "read"
  /\ \/ sub[user] = 0 /\ FromConsole(active)
     \/ /\ sub[user] > 0
        /\ tbuff' = (IF sub[user] < MaxLine THEN sub[user] ELSE 0)
        /\ inbuff' = tbuff' /\ pc' = "close"
        /\ UNCHANGED <<asking, batch, chgdrv, active, sub, stopped, breaks, unmoved>>

\* The last record is read to wherever the DMA address points, and the line is
\* taken from TBUFF.  A batch without records has ended.
ReadBatch ==
  /\ pc = "read"
  /\ \/ sub[user] = 0 /\ FromConsole(active)
     \/ /\ sub[user] > 0
        /\ tbuff' = (IF dma = "tbuff" THEN sub[user] - 1 ELSE tbuff)
        /\ inbuff' = tbuff' /\ pc' = "close"
        /\ UNCHANGED <<asking, batch, chgdrv, active, sub, stopped, breaks, unmoved>>
     \/ /\ pc' = "error"                  \* a bad sector
        /\ UNCHANGED <<asking, batch, chgdrv, inbuff, tbuff, active, sub, stopped, breaks, unmoved>>

CloseBatchNot == \* mutant: the count is not decremented
  /\ pc = "close" /\ pc' = "echo" /\ active' = cdrive
  /\ UNCHANGED <<asking, batch, chgdrv, inbuff, tbuff, sub, stopped, breaks, unmoved>>

\* The count goes down in the directory, unless drive A is R/O: CLOSE answers
\* zero all the same.
CloseBatch ==
  /\ pc = "close" /\ pc' = "echo"
  /\ sub' = IF wrtprt THEN sub ELSE [sub EXCEPT ![user] = @ - 1]
  /\ active' = IF cdrive # 0 THEN cdrive ELSE active
  /\ UNCHANGED <<asking, batch, chgdrv, inbuff, tbuff, stopped, breaks, unmoved>>

\* The line is printed; a key stops the batch.
Echo ==
  /\ pc = "echo"
  /\ \/ pc' = "run" /\ turn' = [turn EXCEPT ![user] = inbuff]
        /\ UNCHANGED <<asking, batch, chgdrv, active, sub, stopped, breaks>>
     \/ /\ breaks < MaxBreak /\ breaks' = breaks + 1
        /\ DelBatch("prompt", active) /\ asking' = FALSE /\ UNCHANGED <<chgdrv, turn>>
  /\ UNCHANGED <<cdrive, inbuff, tbuff, tdrive, user, dma, wrtprt, home, cut, batches>>

\* A line is typed, and MOVECD.
Typed ==
  /\ pc = "console" /\ pc' = "run" /\ inbuff' = Other /\ tdrive' = cdrive
  /\ UNCHANGED <<asking, batch, cdrive, chgdrv, tbuff, sysVars, history>>
-----------------------------------------------------------------------------
(* CMMND2: the line is looked at.                                           *)

\* The standard DMA address, and the selected drive becomes the current one.
Cmmnd2 ==
  /\ pc = "run" /\ ~asking
  /\ pc' = "decode" /\ dma' = "tbuff" /\ cdrive' = active
  /\ UNCHANGED <<asking, batch, chgdrv, inbuff, tbuff, tdrive, user, active, wrtprt,
                 sub, history>>

\* GETBACK1: back at the prompt, or SYNERR for what is left on the line, with
\* drive a selected, in user area u and with d in CDRIVE.
GetBack1(a, u, d) ==
  \/ pc' = "prompt" /\ active' = a /\ UNCHANGED <<batch, sub, stopped>>
  \/ DelBatchIn("prompt", a, u, d)
Done(a) == GetBack1(a, user, cdrive)

\* An empty line, or one that is no command.
NoCommand ==
  pc = "decode" /\ Done(active) /\ UNCHANGED <<undone, cdrive, chgdrv, tdrive, user, dma>>

\* UNKNOWN with a drive and no name.  NumDrive stands for the letters too far:
\* they stay in TDRIVE, but no warm boot takes them.
ChangeDrive ==
  /\ pc = "decode"
  /\ \E d \in 0..NumDrive :
       /\ tdrive' = d
       /\ \/ /\ d \in Drive /\ cdrive' = d /\ home' = d
             /\ GetBack1(d, user, d)
          \/ /\ d \notin Drive /\ pc' = "error" /\ active' = d
             /\ UNCHANGED <<cdrive, home, batch, sub, stopped>>
  /\ UNCHANGED <<asking, chgdrv, inbuff, tbuff, user, dma, wrtprt, turn, cut, batches, breaks>>

\* USER n.
SetUser ==
  /\ pc = "decode"
  /\ user' \in User /\ (batch /\ user' # 0 => "user" \in Upsets)
  /\ GetBack1(active, user', cdrive)
  /\ UNCHANGED <<undone, cdrive, chgdrv, tdrive, dma>>

\* DSELECT of the drive that c, the value of CHGDRV, names.
Named(c) == IF c = 0 THEN cdrive ELSE c - 1
DSelect(c, to) ==
  /\ chgdrv' = c /\ active' = Named(c)
  /\ pc' = IF Named(c) \in Drive THEN to ELSE "error"

\* DIR, ERA, TYPE, SAVE, REN.
BuiltIn ==
  /\ pc = "decode"
  /\ \E c \in 0..NumDrive+1 : DSelect(c, "builtin")
  /\ UNCHANGED <<undone, batch, cdrive, tdrive, user, dma, sub, stopped>>

\* ERA of all files asks first; the answer is a line like the others.
AskFirst ==
  /\ pc = "decode"
  /\ asking' = TRUE /\ pc' = "prompt" /\ chgdrv' \in 0..NumDrive+1
  /\ UNCHANGED <<batch, cdrive, inbuff, tbuff, tdrive, sysVars, history>>

Answered ==
  /\ pc = "run" /\ asking /\ asking' = FALSE
  /\ \/ DSelect(chgdrv, "builtin")
     \/ pc' = "prompt" /\ UNCHANGED <<chgdrv, active>>
  /\ UNCHANGED <<batch, cdrive, inbuff, tbuff, tdrive, user, dma, wrtprt, sub, history>>

\* RESETDR: what is selected after it.
ResetDr == IF Named(chgdrv) # cdrive THEN cdrive ELSE active

BuiltInDoneHere == \* mutant: the drive of the command stays selected
  /\ pc = "builtin"
  /\ chgdrv' = 0 /\ pc' = "prompt"
  /\ UNCHANGED <<undone, batch, cdrive, tdrive, user, active, dma, sub, stopped>>

\* The command has printed what there is, or has failed.  ERA may have erased
\* the batch file; SAVE has put the DMA address back.
BuiltInDone ==
  /\ pc = "builtin"
  /\ chgdrv' = 0 /\ Done(ResetDr)
  /\ UNCHANGED <<undone, cdrive, tdrive, user, dma>>

EraseBatch ==
  /\ pc = "builtin" /\ active = 0 /\ ~wrtprt
  /\ sub' = [sub EXCEPT ![user] = Other]
  /\ UNCHANGED <<undone, pc, batch, cdrive, chgdrv, tdrive, user, active, dma, stopped>>

\* RENAME5 after the second name: CHGDRV is that of the second name by then.
RenameWild ==
  /\ pc = "builtin" /\ "rename" \in Upsets
  /\ chgdrv' = 0 /\ DelBatch("prompt", active)
  /\ UNCHANGED <<undone, cdrive, tdrive, user, dma>>

\* A BDOS error: a bad sector, or a write to a drive that is R/O.
FailIn(where) ==
  /\ pc = where /\ pc' = "error"
  /\ UNCHANGED <<asking, batch, cdrive, chgdrv, inbuff, tbuff, tdrive, sysVars, history>>
-----------------------------------------------------------------------------
(* UNKWN1: programs.                                                        *)

\* Not found: SYNERR.  A read error, or too large: back with the DMA address
\* in the middle of the program.  Otherwise the rest of the line goes to TBUFF.
Load ==
  /\ pc = "decode" /\ chgdrv' = 0
  /\ \/ /\ \/ DelBatch("prompt", cdrive) /\ UNCHANGED dma
           \/ (batch => "dma" \in Upsets) /\ Done(cdrive) /\ dma' = "else"
        /\ UNCHANGED <<tbuff, tdrive>>
     \/ /\ pc' = "program" /\ active' = cdrive /\ dma' = "tbuff" /\ tbuff' = Other
        /\ SetCDrv /\ UNCHANGED <<batch, sub, stopped>>
     \/ /\ pc' = "error" /\ active' = NumDrive      \* a drive too far
        /\ UNCHANGED <<tbuff, tdrive, dma, batch, sub, stopped>>
  /\ UNCHANGED <<asking, inbuff, wrtprt, user, cdrive, home, turn, cut, batches, breaks>>

\* What a program may do by BDOS calls.
ProgramCalls ==
  /\ pc = "program"
  /\ \/ active' \in Drive /\ UNCHANGED <<user, dma, wrtprt>>
     \/ user' \in User /\ UNCHANGED <<active, dma, wrtprt>>
     \/ dma' = "else" /\ UNCHANGED <<active, user, wrtprt>>
     \/ wrtprt' = TRUE /\ UNCHANGED <<active, user, dma>>
  /\ UNCHANGED <<pc, asking, batch, cdrive, chgdrv, inbuff, tbuff, tdrive, sub, history>>

\* SUBMIT (external) prepares a batch in its user area.
Submit ==
  /\ pc = "program" /\ batches < MaxBatch /\ ~wrtprt
  /\ \E n \in 1..MaxLine : /\ sub' = [sub EXCEPT ![user] = n]
                          /\ turn' = [turn EXCEPT ![user] = n]
  /\ batches' = batches + 1 /\ stopped' = FALSE /\ cut' = [cut EXCEPT ![user] = FALSE]
  /\ UNCHANGED <<pc, asking, batch, cdrive, chgdrv, inbuff, tbuff, tdrive,
                 user, active, dma, wrtprt, home, breaks>>

\* A program that returns instead of the warm boot.
ProgramReturns ==
  /\ pc = "program"
  /\ batch => /\ dma = "else" => "dma" \in Upsets
              /\ wrtprt => "protect" \in Upsets
              /\ user # 0 => "user" \in Upsets
  /\ pc' = "prompt" /\ tdrive' = cdrive /\ active' = cdrive
  /\ UNCHANGED <<asking, batch, cdrive, chgdrv, inbuff, tbuff, user, dma, wrtprt,
                 sub, history>>

CcpAlone ==
  \/ GetInp \/ ReadBatch \/ CloseBatch \/ Echo \/ Cmmnd2
  \/ NoCommand \/ ChangeDrive \/ SetUser \/ BuiltIn \/ AskFirst \/ Answered
  \/ BuiltInDone \/ EraseBatch \/ RenameWild \/ FailIn("builtin") \/ Load
=============================================================================
