---------------------------- MODULE JoypadProof ----------------------------
(***************************************************************************)
(* The decoder serves what was held down: proof of Served for any buttons,  *)
(* any number of presses and any interleaving of the two processors.       *)
(***************************************************************************)
EXTENDS Joypad, TLAPS

\* What a pad shifts out when s is held down.
ShiftedOf(pad, s) == {Mask[n] : n \in {n \in NES : <<pad, n>> \notin s}}

\* The first pad as in a, the second as in b.
Mixed(a, b) == {f \in a : f[1] = 1} \cup {f \in b : f[1] = 2}

LEMMA Masked ==
  ASSUME NEW pad, NEW s, NEW n \in NES
  PROVE  Mask[n] \in ShiftedOf(pad, s) <=> <<pad, n>> \notin s
<1>1. \A m \in NES : Mask[m] = Mask[n] => m = n BY DEF NES, Mask
<1> QED BY <1>1 DEF ShiftedOf

LEMMA Buttons ==
  ASSUME NEW a, NEW b, NEW n
  PROVE  /\ <<1, n>> \in Mixed(a, b) <=> <<1, n>> \in a
         /\ <<2, n>> \in Mixed(a, b) <=> <<2, n>> \in b
<1>1. <<1, n>>[1] = 1 /\ <<2, n>>[1] = 2 OBVIOUS
<1> QED BY <1>1 DEF Mixed

\* The bits that the routines write are those that the head of the source gives.
LEMMA Layout1 ==
  ASSUME NEW a, NEW b, joy1 = ShiftedOf(1, a), joy2 = ShiftedOf(2, b)
  PROVE  Mapped1 = Answer(1, Mixed(a, b))
<1>1. /\ DOMAIN Wiring(1) = Bit
      /\ Wiring(1)[0] = <<1, "Up">>    /\ Wiring(1)[1] = <<1, "Down">>
      /\ Wiring(1)[2] = <<1, "Left">>  /\ Wiring(1)[3] = <<1, "Right">>
      /\ Wiring(1)[4] = <<1, "A">>     /\ Wiring(1)[5] = <<1, "B">>
      /\ Wiring(1)[6] = <<2, "Up">>    /\ Wiring(1)[7] = <<2, "Down">>
  BY DEF Wiring, Bit
<1>2. \A n \in NES : /\ Mask[n] \in joy1 <=> <<1, n>> \notin Mixed(a, b)
                     /\ Mask[n] \in joy2 <=> <<2, n>> \notin Mixed(a, b)
  BY Masked, Buttons
<1>3. \A n \in {"Up", "Down", "Left", "Right", "A", "B"} : n \in NES /\ Mask.Up = Mask["Up"]
  BY DEF NES
<1>4. ASSUME NEW i \in Bit
      PROVE  i \in Mapped1 <=> i \in Answer(1, Mixed(a, b))
  BY <1>1, <1>2, <1>3 DEF Bit, Mapped1, Answer, NES
<1> QED BY <1>4 DEF Mapped1, Answer

LEMMA Layout2 ==
  ASSUME NEW a, NEW b, joy2 = ShiftedOf(2, b)
  PROVE  Mapped2 = Answer(2, Mixed(a, b))
<1>1. /\ DOMAIN Wiring(2) = 0..4
      /\ Wiring(2)[0] = <<2, "Left">> /\ Wiring(2)[1] = <<2, "Right">>
      /\ Wiring(2)[2] = <<2, "A">>    /\ Wiring(2)[3] = <<2, "B">>
      /\ Wiring(2)[4] = <<2, "Start">>
  BY DEF Wiring
<1>2. \A n \in NES : Mask[n] \in joy2 <=> <<2, n>> \notin Mixed(a, b)
  BY Masked, Buttons
<1>4. ASSUME NEW i \in Bit
      PROVE  i \in Mapped2 <=> i \in Answer(2, Mixed(a, b))
  BY <1>1, <1>2 DEF Bit, Mapped2, Answer, NES
<1>5. Mapped2 \subseteq Bit BY DEF Mapped2, Bit
<1> QED BY <1>4, <1>5 DEF Answer
-----------------------------------------------------------------------------
(* The inductive invariant.                                                 *)

\* A benchmark that reads port 1 only never has the second routine run.
Alone ==
  /\ both \in BOOLEAN /\ lastport \in 0..2
  /\ flag \subseteq Port /\ isr \in {Main} \cup Port
  /\ ~both => isr # 2 /\ 2 \notin flag /\ lastport # 2 /\ z80 # "second"

\* What is held down now is in the history.
Held == pressed \in since

\* If no read has come since the routine began, what it has polled is what
\* was held down since the read, for each pad at a time of its own.
Fresh ==
  (isr # Main /\ flag = {}) =>
    /\ lastport # 0
    /\ isr = 1 /\ 1 \in polled => \E a \in since : joy1 = ShiftedOf(1, a)
    /\ 2 \in polled => \E b \in since : joy2 = ShiftedOf(2, b)

\* The first routine polls pad 1 before pad 2.
FirstPadFirst == isr = 1 /\ 2 \in polled => 1 \in polled

\* Before the first read the decoder has nothing to do.
Asked == flag # {} \/ isr # Main => lastport # 0

JInv == Alone /\ Held /\ Fresh /\ FirstPadFirst /\ Asked /\ Served

LEMMA InitInv == Init => JInv
BY DEF Init, JInv, Alone, Held, Fresh, FirstPadFirst, Asked, Served, Port, Main

\* Users change what is held down, and the history with it.
LEMMA FingerInv ==
  ASSUME JInv, NEW f \in Fingers, Finger(f)
  PROVE  JInv'
<1>1. /\ pressed' \in since' /\ since \subseteq since'
      /\ UNCHANGED <<flag, isr, joy1, joy2, polled, P1, z80, both, lastport>>
  BY DEF Finger, decoder, reader
<1>2. Alone' /\ FirstPadFirst' /\ Asked' BY <1>1 DEF JInv, Alone, FirstPadFirst, Asked
<1>3. Fresh' BY <1>1 DEF JInv, Fresh, ShiftedOf
<1>4. Served'
  <2> SUFFICES ASSUME Served, isr = Main, flag = {}, lastport # 0
               PROVE  Served'
    BY <1>1 DEF JInv, Served
  <2> DEFINE A(p, a, b) == Answer(p, Mixed(a, b))
  <2>1. \E a, b \in since, p \in Port : (~both => p = lastport) /\ P1 = A(p, a, b)
    BY DEF Served, Mixed
  <2> HIDE DEF A
  <2>2. \E a, b \in since', p \in Port : (~both' => p = lastport') /\ P1' = A(p, a, b)
    BY <1>1, <2>1
  <2> QED BY <2>2 DEF A, Mixed, Served
<1> QED BY <1>1, <1>2, <1>3, <1>4 DEF JInv, Held

\* What a routine shifts in is what is held down at that time.
LEMMA PollInv ==
  ASSUME JInv, Poll1 \/ Poll2
  PROVE  JInv'
<1>1. isr # Main /\ UNCHANGED <<pressed, flag, isr, P1, z80, both, lastport, since>>
  BY DEF Poll1, Poll2, reader, Main
<1>2. Alone' /\ Held' /\ Asked' /\ Served'
  BY <1>1 DEF JInv, Alone, Held, Asked, Served
<1>3. CASE Poll1
  <2>1. joy1' = ShiftedOf(1, pressed) /\ polled' = {1} /\ isr = 1
    BY <1>3 DEF Poll1, Shifted, ShiftedOf
  <2>2. Fresh' BY <1>1, <2>1 DEF JInv, Fresh, Held, Asked
  <2>3. FirstPadFirst' BY <1>1, <2>1 DEF FirstPadFirst
  <2> QED BY <1>2, <2>2, <2>3 DEF JInv
<1>4. CASE Poll2
  <2>1. /\ joy2' = ShiftedOf(2, pressed) /\ polled' = polled \cup {2}
        /\ joy1' = joy1 /\ (isr = 1 => 1 \in polled)
    BY <1>4 DEF Poll2, Shifted, ShiftedOf
  <2>2. Fresh' BY <1>1, <2>1 DEF JInv, Fresh, Held, Asked
  <2>3. FirstPadFirst' BY <1>1, <2>1 DEF FirstPadFirst
  <2> QED BY <1>2, <2>2, <2>3 DEF JInv
<1> QED BY <1>3, <1>4

\* A routine begins with no pad polled.
LEMMA EnterInv ==
  ASSUME JInv, NEW p \in Port, Enter(p)
  PROVE  JInv'
<1>1. /\ isr = Main /\ p \in flag /\ flag' = flag \ {p} /\ isr' = p /\ polled' = {}
      /\ UNCHANGED <<pressed, joy1, joy2, P1, z80, both, lastport, since>>
  BY DEF Enter, reader
<1>2. Alone' BY <1>1 DEF JInv, Alone, Port, Main
<1>3. Fresh' /\ FirstPadFirst' /\ Asked'
  BY <1>1 DEF JInv, Fresh, FirstPadFirst, Asked
<1>4. Served' BY <1>1 DEF Served, Port, Main
<1> QED BY <1>1, <1>2, <1>3, <1>4 DEF JInv, Held

\* What is written is what was polled, in the layout of the port.
LEMMA WriteInv ==
  ASSUME JInv, Write
  PROVE  JInv'
<1>1. /\ isr # Main /\ 2 \in polled /\ isr' = Main
      /\ P1' = IF isr = 1 THEN Mapped1 ELSE Mapped2
      /\ UNCHANGED <<pressed, flag, joy1, joy2, polled, z80, both, lastport, since>>
  BY DEF Write, reader
<1>2. Alone' /\ Held' /\ Fresh' /\ FirstPadFirst' /\ Asked'
  BY <1>1 DEF JInv, Alone, Held, Fresh, FirstPadFirst, Asked, Main
<1>3. Served'
  <2> SUFFICES ASSUME flag = {}, lastport # 0
               PROVE  \E a, b \in since, p \in Port :
                        (~both => p = lastport) /\ P1' = Answer(p, Mixed(a, b))
    BY <1>1 DEF Served, Mixed
  <2>1. PICK b \in since : joy2 = ShiftedOf(2, b) BY <1>1 DEF JInv, Fresh
  <2>2. CASE isr = 1
    <3>1. PICK a \in since : joy1 = ShiftedOf(1, a)
      BY <1>1, <2>2 DEF JInv, Fresh, FirstPadFirst
    <3>2. P1' = Answer(1, Mixed(a, b)) BY <1>1, <2>1, <2>2, <3>1, Layout1
    <3>3. ~both => lastport = 1 BY DEF JInv, Alone
    <3> QED BY <3>2, <3>3 DEF Port
  <2>3. CASE isr = 2
    <3>1. P1' = Answer(2, Mixed(b, b)) BY <1>1, <2>1, <2>3, Layout2
    <3>2. both BY <2>3 DEF JInv, Alone
    <3> QED BY <3>1, <3>2 DEF Port
  <2> QED BY <1>1, <2>2, <2>3 DEF JInv, Alone, Port
<1> QED BY <1>2, <1>3 DEF JInv

\* A read asks anew; nothing is said of the answer until it has been served.
LEMMA ShowInv ==
  ASSUME JInv, Show
  PROVE  JInv'
<1>0. UNCHANGED <<pressed, isr, joy1, joy2, polled, P1, both>>
  BY DEF Show, VBlank, PollJoypad1, Messages, PollJoypad2, decoder
<1>1. CASE VBlank \/ Messages
  <2>1. UNCHANGED <<flag, since, lastport>> /\ (~both => z80' # "second")
    BY <1>1 DEF VBlank, Messages
  <2>2. Alone' /\ Held' /\ FirstPadFirst' /\ Asked'
    BY <1>0, <2>1 DEF JInv, Alone, Held, FirstPadFirst, Asked
  <2>3. Fresh' BY <1>0, <2>1 DEF JInv, Fresh
  <2>4. Served' BY <1>0, <2>1 DEF JInv, Served
  <2> QED BY <2>2, <2>3, <2>4 DEF JInv
<1>2. ASSUME NEW p \in Port, Strobe(p), ~both => p = 1, ~both => z80' # "second"
      PROVE  JInv'
  <2>1. flag' = flag \cup {p} /\ since' = {pressed} /\ lastport' = p BY <1>2 DEF Strobe
  <2>2. Alone' BY <1>0, <1>2, <2>1 DEF JInv, Alone, Port
  <2>3. Held' /\ Fresh' /\ FirstPadFirst' /\ Asked' /\ Served'
    BY <1>0, <2>1 DEF JInv, Held, Fresh, FirstPadFirst, Asked, Served, Port
  <2> QED BY <2>2, <2>3 DEF JInv
<1>3. CASE PollJoypad1
  BY <1>2, <1>3 DEF PollJoypad1, Port
<1>4. CASE PollJoypad2
  BY <1>2, <1>4 DEF PollJoypad2, Port, JInv, Alone
<1> QED BY <1>1, <1>3, <1>4 DEF Show

\* Every answer that the decoder has come to rest with shows each pad as it
\* was at some time since the read, with every button at its bit.
THEOREM ServedCorrect == Spec => []Served
<1>1. JInv /\ [Next]_vars => JInv'
  <2> SUFFICES ASSUME JInv, [Next]_vars PROVE JInv' OBVIOUS
  <2>1. CASE UNCHANGED vars
    BY <2>1 DEF vars, JInv, Alone, Held, Fresh, FirstPadFirst, Asked, Served
  <2>2. CASE Next
    BY <2>2, FingerInv, PollInv, EnterInv, WriteInv, ShowInv DEF Next, Decode
  <2> QED BY <2>1, <2>2
<1>2. JInv => Served BY DEF JInv
<1> QED BY <1>1, <1>2, InitInv, PTL DEF Spec

\* The answers are bytes, the messages are those of pad 1, and the history is
\* of the buttons that there are, whatever the users do.
THEOREM TypeCorrect == Spec => []TypeOK
<1>1. Init => TypeOK BY JoypadAssumption DEF Init, TypeOK, Port, Main, Bit
<1>2. TypeOK /\ [Next]_vars => TypeOK'
  <2> SUFFICES ASSUME TypeOK, [Next]_vars PROVE TypeOK' OBVIOUS
  <2> USE DEF TypeOK, decoder, reader
  <2>1. ASSUME NEW f \in Fingers, Finger(f) PROVE TypeOK'
    <3>1. /\ presses' = presses + 1 /\ presses < MaxPress /\ pressed' \subseteq Fingers
          /\ since' = since \cup {pressed'} /\ UNCHANGED <<flag, decoder, reader>>
      BY <2>1 DEF Finger
    <3>2. presses' \in 0..MaxPress BY <3>1, JoypadAssumption
    <3> QED BY <3>1, <3>2
  <2>2. ASSUME NEW p \in Port, Enter(p) PROVE TypeOK' BY <2>2 DEF Enter, Port
  <2>3. \A pad : Shifted(pad) \subseteq Bit
    <3>1. \A n \in NES : Mask[n] \in Bit BY DEF NES, Mask, Bit
    <3> QED BY <3>1 DEF Shifted
  <2>4. CASE Poll1 BY <2>4, <2>3 DEF Poll1
  <2>5. CASE Poll2 BY <2>5, <2>3 DEF Poll2
  <2>6. CASE Write
    <3>1. Mapped1 \subseteq Bit /\ Mapped2 \subseteq Bit BY DEF Mapped1, Mapped2
    <3> QED BY <2>6, <3>1 DEF Write, Main
  <2>7. CASE VBlank BY <2>7 DEF VBlank
  <2>8. CASE PollJoypad1 BY <2>8 DEF PollJoypad1, Strobe, Port
  <2>9. CASE Messages BY <2>9 DEF Messages
  <2>10. CASE PollJoypad2 BY <2>10 DEF PollJoypad2, Strobe, Port
  <2>11. CASE UNCHANGED vars BY <2>11 DEF vars
  <2> QED BY <2>1, <2>2, <2>4, <2>5, <2>6, <2>7, <2>8, <2>9, <2>10, <2>11
          DEF Next, Decode, Show
<1> QED BY <1>1, <1>2, PTL DEF Spec
=============================================================================
