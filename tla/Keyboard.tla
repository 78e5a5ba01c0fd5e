------------------------------ MODULE Keyboard ------------------------------
(***************************************************************************)
(* The way of a key to the program: the keyboard controller (external), the *)
(* driver (KBC_PollKey, KBC_WaitKey and KBC_KeyChar of src/src/base/kbc.asm)*)
(* CONST and CONIN of the BIOS (cbios_kbc.asm), and the one character that  *)
(* the BDOS keeps when it looks at the console during output (CHARBUF,      *)
(* cpm22.asm).                                                             *)
(*                                                                         *)
(* A character is a key with the modifier that KBC_KeyChar goes by.  Scan   *)
(* codes carry, as history, the number of the key press and the character   *)
(* that the user meant by it.                                              *)
(***************************************************************************)
EXTENDS Naturals, Sequences

CONSTANTS
  Plain,    \* keys besides S and C that have a character
  MaxQueue, \* bound: scan codes not yet read
  MaxTyped  \* bound: presses of keys that have a character

Modifier == {"shift", "ctrl"}

ASSUME KeyAssumption ==
  /\ Plain \cap ({"s", "c", "alt"} \cup Modifier) = {}
  /\ MaxQueue \in Nat /\ MaxTyped \in Nat

CharKey  == Plain \cup {"s", "c"}
Key      == CharKey \cup Modifier \cup {"alt"} \* ALT and others have no character
Char     == [key: CharKey, mod: {"plain"} \cup Modifier]
None     == [key |-> "alt", mod |-> "plain"]  \* 0 in the code
CntrlS   == [key |-> "s", mod |-> "ctrl"]
CntrlC   == [key |-> "c", mod |-> "ctrl"]

VARIABLES
  held,    \* external: the modifiers that the user holds down
  queue,   \* external: scan codes in the keyboard and the controller
  status,  \* the modifiers that ShiftStatus and CtrlStatus have down
  charbuf, \* CHARBUF: a character and the number of its key press
  direct,  \* does the program use function 6, or functions 1, 2 and 11?
  pc,      \* "idle", or what CONIN is called for
  typed,   \* history: number of presses
  got,     \* history: the last press whose character the program got
  missed,  \* history: presses that CONST or a pause took
  upset    \* history: modifiers of which CONST took a code, or that ^C cleared

driver == <<status, charbuf, pc>>
history == <<got, missed, upset>>
vars == <<held, queue, driver, direct, typed, history>>

CharOf(k, mods) ==
  IF k = "alt" THEN None
  ELSE [key |-> k, mod |-> IF "shift" \in mods THEN "shift"
                          ELSE IF "ctrl" \in mods THEN "ctrl" ELSE "plain"]

CodeOf == [key: Key, down: BOOLEAN, n: 0..MaxTyped, meant: Char \cup {None}]
Empty  == [char |-> None, n |-> 0]

TypeOK ==
  /\ held \subseteq Modifier /\ status \subseteq Modifier
  /\ queue \in Seq(CodeOf) /\ Len(queue) <= MaxQueue
  /\ charbuf \in [char: Char \cup {None}, n: 0..MaxTyped]
  /\ direct \in BOOLEAN /\ pc \in {"idle", "get", "direct", "peek", "pause"}
  /\ typed \in 0..MaxTyped /\ got \in 0..MaxTyped
  /\ missed \subseteq 1..MaxTyped /\ upset \subseteq Modifier

Init ==
  /\ held = {} /\ queue = <<>> /\ status = {} /\ charbuf = Empty
  /\ direct \in BOOLEAN /\ pc = "idle"
  /\ typed = 0 /\ got = 0 /\ missed = {} /\ upset = {}
-----------------------------------------------------------------------------
(* The user.                                                                *)

Send(k, down, n) ==
  /\ Len(queue) < MaxQueue
  /\ queue' = Append(queue, [key |-> k, down |-> down, n |-> n,
                             meant |-> IF down /\ k \notin Modifier THEN CharOf(k, held) ELSE None])

Press(k) ==
  /\ k \in CharKey => typed < MaxTyped
  /\ typed' = IF k \in CharKey THEN typed + 1 ELSE typed
  /\ Send(k, TRUE, IF k \in CharKey THEN typed + 1 ELSE 0)
  /\ held' = IF k \in Modifier THEN held \cup {k} ELSE held
  /\ UNCHANGED <<driver, direct, history>>

Release(k) ==
  /\ k \in Modifier => k \in held
  /\ Send(k, FALSE, 0)
  /\ held' = held \ {k}
  /\ UNCHANGED <<driver, direct, typed, history>>
-----------------------------------------------------------------------------
(* The driver.                                                              *)

\* KBC_PollKey takes a code out of the controller to see if there is one;
\* CONST says that a character is ready if the code is that of a press.
Poll ==
  /\ queue # <<>>
  /\ queue' = Tail(queue)
  /\ missed' = IF Head(queue).n # 0 THEN missed \cup {Head(queue).n} ELSE missed
  /\ upset' = upset \cup ({Head(queue).key} \cap Modifier)
PolledReady == queue # <<>> /\ Head(queue).down

\* KBC_KeyChar.
KeyChar(k) == CharOf(k, status)

\* What becomes of the character that CONIN returns.
Deliver(c, n) ==
  CASE pc \in {"get", "direct"} ->
         pc' = "idle" /\ got' = (IF n # 0 THEN n ELSE got) /\ UNCHANGED <<charbuf, missed>>
    [] pc = "peek" /\ c = CntrlS ->                \* CKCONSOL: halt
         pc' = "pause" /\ missed' = missed \cup {n} /\ UNCHANGED <<charbuf, got>>
    [] pc = "peek" /\ c # CntrlS ->
         pc' = "idle" /\ charbuf' = [char |-> c, n |-> n] /\ UNCHANGED <<got, missed>>
    [] pc = "pause" ->                             \* ^C: a new BDOS
         /\ pc' = "idle" /\ missed' = IF n # 0 THEN missed \cup {n} ELSE missed
         /\ charbuf' = IF c = CntrlC THEN Empty ELSE charbuf
         /\ got' = got

WaitForgetUp == \* mutant: the code of a released modifier is lost
  LET e == Head(queue) IN
  /\ pc # "idle" /\ queue # <<>> /\ queue' = Tail(queue)
  /\ (~e.down \/ e.key \in Modifier)
  /\ status' = IF e.down THEN status \cup {e.key} ELSE status
  /\ upset' = upset \ {e.key}
  /\ UNCHANGED <<held, charbuf, direct, pc, typed, got, missed>>

WaitAnyKey == \* mutant: every key that goes up or down counts as a modifier
  LET e == Head(queue) IN
  /\ pc # "idle" /\ queue # <<>> /\ queue' = Tail(queue)
  /\ (~e.down \/ e.key \in Modifier)
  /\ status' = IF e.down THEN status \ {e.key} ELSE status \cup {e.key}
  /\ upset' = upset \ {e.key}
  /\ UNCHANGED <<held, charbuf, direct, pc, typed, got, missed>>

WaitKeepsUp == \* mutant: the code of a released key is not read
  LET e == Head(queue) IN
  /\ pc # "idle" /\ queue # <<>> /\ queue' = Tail(queue)
  /\ e.key \in Modifier
  /\ status' = IF e.down THEN status \cup {e.key} ELSE status \ {e.key}
  /\ upset' = upset \ {e.key}
  /\ UNCHANGED <<held, charbuf, direct, pc, typed, got, missed>>

\* KBC_WaitKey goes on after a release and after a modifier.
Wait ==
  LET e == Head(queue) IN
  /\ pc # "idle" /\ queue # <<>> /\ queue' = Tail(queue)
  /\ (~e.down \/ e.key \in Modifier)
  /\ status' = IF e.key \notin Modifier THEN status
               ELSE IF e.down THEN status \cup {e.key} ELSE status \ {e.key}
  /\ upset' = upset \ {e.key}
  /\ UNCHANGED <<held, charbuf, direct, pc, typed, got, missed>>

\* And returns a character, or 0, for any other key; after a ^C, CTRL counts
\* as released.
Return ==
  LET e == Head(queue)
      c == KeyChar(e.key)
  IN  /\ pc # "idle" /\ queue # <<>> /\ queue' = Tail(queue)
      /\ e.down /\ e.key \notin Modifier
      /\ status' = IF c = CntrlC THEN status \ {"ctrl"} ELSE status
      /\ upset' = IF c = CntrlC THEN upset \cup {"ctrl"} ELSE upset
      /\ Deliver(c, e.n)
      /\ UNCHANGED <<held, direct, typed>>
-----------------------------------------------------------------------------
(* The calls of the program.                                                *)

\* GETCHAR, for functions 1 and 10.
GetChar ==
  /\ pc = "idle" /\ ~direct
  /\ IF charbuf.char # None
     THEN charbuf' = Empty /\ got' = charbuf.n /\ pc' = pc
     ELSE pc' = "get" /\ UNCHANGED <<charbuf, got>>
  /\ UNCHANGED <<held, queue, status, direct, typed, missed, upset>>

CkConsolAnew == \* mutant: CKCONSOL looks for a key though it has one
  /\ pc = "idle" /\ ~direct
  /\ Poll /\ pc' = IF PolledReady THEN "peek" ELSE pc
  /\ UNCHANGED <<held, status, charbuf, direct, typed, got>>

\* CKCONSOL, for function 11 and each character of output.
CkConsol ==
  /\ pc = "idle" /\ ~direct /\ charbuf.char = None
  /\ Poll /\ pc' = IF PolledReady THEN "peek" ELSE pc
  /\ UNCHANGED <<held, status, charbuf, direct, typed, got>>

\* DIRCIO with FFh, and with FEh.
DirCio(in) ==
  /\ pc = "idle" /\ direct
  /\ Poll /\ pc' = IF PolledReady /\ in THEN "direct" ELSE pc
  /\ UNCHANGED <<held, status, charbuf, direct, typed, got>>

\* The program ends; the next one may be of the other kind.
WarmBoot ==
  /\ pc = "idle" /\ charbuf' = Empty /\ direct' \in BOOLEAN
  /\ missed' = IF charbuf.n # 0 THEN missed \cup {charbuf.n} ELSE missed
  /\ UNCHANGED <<held, queue, status, pc, typed, got, upset>>

Next ==
  \/ \E k \in Key : Press(k) \/ Release(k)
  \/ Wait \/ Return
  \/ GetChar \/ CkConsol \/ (\E in \in BOOLEAN : DirCio(in))
  \/ WarmBoot

Spec == Init /\ [][Next]_vars

\* The driver's loop runs on.
FairSpec == Spec /\ WF_vars(Wait \/ Return)
-----------------------------------------------------------------------------
\* CHARBUF and CONIN: a program gets the keys in the order in which they were
\* typed, each once, and misses none but those that CONST or a pause took.
InLine ==
  [][got' # got => got' > got /\ (got + 1)..(got' - 1) \subseteq missed]_vars

\* KBC_WaitKey and KBC_KeyChar: a key is read with the modifiers that were
\* held when it was pressed, unless CONST took the code of one of them or a
\* ^C has cleared it.
Meant ==
  pc # "idle" /\ upset = {} /\ queue # <<>> /\ Head(queue).down /\ Head(queue).key \notin Modifier
  => KeyChar(Head(queue).key) = Head(queue).meant

\* KBC_WaitKey returns when there is a key with a code for it.
Pressed == \E i \in DOMAIN queue : queue[i].down /\ queue[i].key \notin Modifier
Wakes == \A p \in {"get", "direct", "peek", "pause"} : pc = p /\ Pressed ~> pc # p

\* "0FFh if one is" (ready): when CONST has said so, CONIN has a key to return
\* without waiting for the user.
StatusKeeps == pc = "peek" => Pressed
=============================================================================
