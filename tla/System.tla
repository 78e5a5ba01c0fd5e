------------------------------- MODULE System -------------------------------
(***************************************************************************)
(* The machine from its reset to the prompt and back: Boot composed with    *)
(* Ccp.  The CCP runs while the stage of the boot is "up"; programs may     *)
(* overlay the CCP and the BDOS, and every warm boot brings them back.      *)
(***************************************************************************)
EXTENDS Boot, Ccp

sysvars == <<bootVars, ccpVars>>

Init == BootInit /\ CcpInit

TypeOK == BootTypeOK /\ CcpTypeOK /\ (pc = "off" <=> stage # "up")
-----------------------------------------------------------------------------
Reset ==
  /\ PushReset /\ Leave
  /\ breaks' = IF stage = "halt" THEN breaks ELSE breaks + 1
  /\ breaks' <= MaxBreak

BootAlone == BootStep /\ UNCHANGED ccpVars

\* BOOT clears the drive byte.
ColdBoot ==
  /\ BiosBoot
  /\ tdrive' = 0 /\ home' = 0
  /\ UNCHANGED <<pc, asking, batch, cdrive, chgdrv, inbuff, tbuff, sysVars,
                 turn, stopped, cut, batches, breaks>>

\* GoCPM and COMMAND.
Start ==
  /\ GoCpm /\ Command(BootDrive)
  /\ home' = IF tdrive < NumDrive THEN home ELSE 0

WarmBoot == (Cancel \/ Acknowledge \/ ProgramReboots) /\ WBoot

\* A program uses the memory of CCP and BDOS; then it can only warm boot.
Overlay ==
  /\ pc = "program"
  /\ \E S \in SUBSET (0..NumSys-1) \ {{}} :
       mem' = [p \in Page |-> IF \E s \in S : p = At(s) THEN Junk ELSE mem[p]]
  /\ UNCHANGED <<stage, rom, secno, ccpVars>>

ProgramStep == ProgramCalls \/ Submit \/ ProgramReturns \/ FailIn("program")
CcpStep ==
  /\ \/ CcpAlone \/ Typed
     \/ WholeSystem /\ ProgramStep
  /\ UNCHANGED bootVars

Next == Reset \/ BootAlone \/ ColdBoot \/ Start \/ WarmBoot \/ Overlay \/ CcpStep

Spec == Init /\ [][Next]_sysvars

\* The boot and the CCP go on, programs end and errors are not fair: they wait
\* for the user, as does the console.
FairSpec ==
  /\ Spec
  /\ WF_sysvars(BootAlone \/ ColdBoot \/ Start)
  /\ WF_sysvars(CcpAlone /\ UNCHANGED bootVars)
  /\ WF_sysvars(ProgramReboots /\ WBoot)
-----------------------------------------------------------------------------
\* Whenever the CCP or the BDOS works, both are in memory as they are on the
\* disk, with the BIOS and the jumps of page 0: the load of the boot program,
\* that of the warm boot and the overlays of programs leave no gap.
Whole == pc \notin {"off", "program"} => WholeSystem

\* A line is asked for on the drive that was last chosen, whatever drives the
\* commands, the batch file and programs have selected since, and after a warm
\* boot too, unless GoCPM has taken a user number for a drive.
PromptDrive == pc \in {"prompt", "console"} => active = home /\ cdrive = home

\* The lines of a batch are run in their order, none twice, and none is left
\* out but by a reset or a ^C after it was removed from the batch file, over
\* warm boots, BDOS errors and programs that use the same BDOS.
InTurn == pc = "echo" => /\ inbuff < turn[user]
                         /\ ~cut[user] => inbuff = turn[user] - 1

\* A batch that a key or an error has stopped is not taken up again, by no
\* later warm boot.
NoRevival == pc = "echo" => ~stopped

\* A batch ends: the console is asked, an error waits for a key, or the
\* machine has halted.
BatchEnds == batch ~> pc \in {"console", "error"} \/ stage = "halt"
=============================================================================
