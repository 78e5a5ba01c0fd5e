------------------------------- MODULE Joypad -------------------------------
(***************************************************************************)
(* The joypad decoder (src/src/keilc51/z80-joypad-decoder.c), an 8052 that  *)
(* a read of a port interrupts: it polls the pads and leaves the answer on  *)
(* its port P1, for the next read.  Nothing makes the Z80 wait, so a read   *)
(* gets the answer to an earlier one.  The reader is the interrupt routine  *)
(* of src/src/benchmark/benchmark_joypad.asm, which shows the buttons of    *)
(* pad 1 in every frame.                                                   *)
(***************************************************************************)
EXTENDS Naturals

CONSTANTS
  Fingers,  \* the <<pad, button>> that the users go for
  MaxPress  \* bound: how often they press or release

NES == {"A", "B", "Select", "Start", "Up", "Down", "Left", "Right"}
ASSUME JoypadAssumption == Fingers \subseteq {1, 2} \X NES /\ MaxPress \in Nat

Port == {1, 2}
Bit  == 0..7
Main == 0 \* the decoder is in its endless loop

\* The ports as the head of the decoder describes them: a bit is 0 if the
\* button is pressed.  Bits 5 to 7 of port 2 are always 1.
Wiring(p) ==
  IF p = 1
  THEN [b \in Bit |-> << <<1, "Up">>, <<1, "Down">>, <<1, "Left">>, <<1, "Right">>,
                         <<1, "A">>, <<1, "B">>, <<2, "Up">>, <<2, "Down">> >>[b + 1]]
  ELSE [b \in 0..4 |-> << <<2, "Left">>, <<2, "Right">>, <<2, "A">>, <<2, "B">>,
                          <<2, "Start">> >>[b + 1]]
Answer(p, pressed) == {b \in Bit : b \in DOMAIN Wiring(p) => Wiring(p)[b] \notin pressed}

VARIABLES
  pressed, presses, \* external: the buttons held down, and how often that changed
  flag,    \* IE0, IE1: the ports whose read has not been served yet
  isr,     \* Main, or the port whose routine runs
  joy1, joy2, \* the bytes of the routine: bits that are 1
  polled,  \* the pads that it has polled
  P1,      \* the answer: bits that are 1
  z80,     \* where OnVBlank is
  both,    \* does the program read the second port too?
  shown,   \* the messages on the screen
  value,   \* C001h: the inverted answer
  since,   \* history: what was held down at some time since the last read
  lastport \* history: the port of that read, 0 before the first

vars == <<pressed, presses, flag, isr, joy1, joy2, polled, P1, z80, both, shown, value,
          since, lastport>>
decoder == <<isr, joy1, joy2, polled, P1>>
reader  == <<z80, both, shown, value, lastport>>

TypeOK ==
  /\ pressed \subseteq Fingers /\ presses \in 0..MaxPress
  /\ flag \subseteq Port /\ isr \in {Main} \cup Port
  /\ {joy1, joy2, P1, value} \subseteq SUBSET Bit /\ polled \subseteq {1, 2}
  /\ z80 \in {"idle", "cleared", "polled", "second"} /\ both \in BOOLEAN /\ shown \subseteq 0..5
  /\ since \subseteq SUBSET Fingers /\ lastport \in 0..2

Init ==
  /\ pressed = {} /\ presses = 0
  /\ flag = {} /\ isr = Main /\ joy1 = {} /\ joy2 = {} /\ polled = {} /\ P1 = Bit
  /\ z80 = "idle" /\ both \in BOOLEAN /\ shown = {} /\ value = {}
  /\ since = {{}} /\ lastport = 0
-----------------------------------------------------------------------------
(* The users.                                                               *)

Finger(f) ==
  /\ presses < MaxPress /\ presses' = presses + 1
  /\ pressed' = IF f \in pressed THEN pressed \ {f} ELSE pressed \cup {f}
  /\ since' = since \cup {pressed'}
  /\ UNCHANGED <<flag, decoder, reader>>
-----------------------------------------------------------------------------
(* The decoder.                                                             *)

\* What a pad shifts out after the latch, the masks of NES_Button: the first
\* bit ends as bit 0.  A pressed button pulls the data line down.
Mask == [A |-> 0, B |-> 1, Select |-> 2, Start |-> 3, Up |-> 4, Down |-> 5,
         Left |-> 6, Right |-> 7]
Shifted(pad) == {Mask[n] : n \in {n \in NES : <<pad, n>> \notin pressed}}

\* The two routines have the same priority: INT0 goes first, neither is
\* interrupted, and main gets an instruction in between.
Enter(p) ==
  /\ isr = Main /\ p \in flag /\ (p = 2 => 1 \notin flag)
  /\ flag' = flag \ {p} /\ isr' = p
  /\ polled' = {}
  /\ UNCHANGED <<pressed, presses, joy1, joy2, P1, reader, since>>

\* poll_joypad1_button, of the first routine only.
Poll1 ==
  /\ isr = 1 /\ polled = {}
  /\ joy1' = Shifted(1) /\ polled' = {1}
  /\ UNCHANGED <<pressed, presses, flag, isr, joy2, P1, reader, since>>

\* poll_joypad2_button.
Poll2 ==
  /\ isr # Main /\ 2 \notin polled /\ (isr = 1 => 1 \in polled)
  /\ joy2' = Shifted(2) /\ polled' = polled \cup {2}
  /\ UNCHANGED <<pressed, presses, flag, isr, joy1, P1, reader, since>>

\* on_read_joypad1 and on_read_joypad2: the bits are brought to their places.
Mapped1 ==
  {b \in Bit : \/ b = 7 /\ Mask.Down \in joy2
               \/ b = 6 /\ Mask.Up \in joy2
               \/ b = 5 /\ Mask.B \in joy1
               \/ b = 4 /\ Mask.A \in joy1
               \/ b = 3 /\ Mask.Right \in joy1
               \/ b = 2 /\ Mask.Left \in joy1
               \/ b = 1 /\ Mask.Down \in joy1
               \/ b = 0 /\ Mask.Up \in joy1}
Mapped2 ==
  {b \in Bit : \/ b \in {5, 6, 7}
               \/ b = 4 /\ Mask.Start \in joy2
               \/ b = 3 /\ Mask.B \in joy2
               \/ b = 2 /\ Mask.A \in joy2
               \/ b = 1 /\ Mask.Right \in joy2
               \/ b = 0 /\ Mask.Left \in joy2}

WriteEarly == \* mutant: the second pad is polled for the next read
  /\ isr # Main /\ (isr = 1 => 1 \in polled)
  /\ P1' = IF isr = 1 THEN Mapped1 ELSE Mapped2
  /\ isr' = Main
  /\ UNCHANGED <<pressed, presses, flag, joy1, joy2, polled, reader, since>>

Write ==
  /\ isr # Main /\ 2 \in polled
  /\ P1' = IF isr = 1 THEN Mapped1 ELSE Mapped2
  /\ isr' = Main
  /\ UNCHANGED <<pressed, presses, flag, joy1, joy2, polled, reader, since>>
-----------------------------------------------------------------------------
(* The reader.                                                              *)

\* The interrupt of the display: OnVBlank clears the screen and welcomes.
VBlank ==
  /\ z80 = "idle" /\ z80' = "cleared" /\ shown' = {}
  /\ UNCHANGED <<pressed, presses, flag, decoder, both, value, since, lastport>>

ReadSilently == \* mutant: the read does not reach the decoder
  /\ z80 = "cleared" /\ z80' = "polled" /\ value' = Bit \ P1
  /\ UNCHANGED <<pressed, presses, flag, decoder, both, shown, since, lastport>>

\* IN A, (port): the answer that is there, and a falling edge for the decoder.
Strobe(p) == flag' = flag \cup {p} /\ since' = {pressed} /\ lastport' = p

\* PollJoypad1, CPL, and C001h.
PollJoypad1 ==
  /\ z80 = "cleared" /\ z80' = "polled" /\ value' = Bit \ P1
  /\ Strobe(1)
  /\ UNCHANGED <<pressed, presses, decoder, both, shown>>

MessagesAll == \* mutant: a message for each bit, those of pad 2 too
  /\ z80 = "polled" /\ shown' = value
  /\ z80' = IF both THEN "second" ELSE "idle"
  /\ UNCHANGED <<pressed, presses, flag, decoder, both, value, since, lastport>>

\* A message for every button of pad 1 that is pressed.
Messages ==
  /\ z80 = "polled" /\ shown' = value \cap 0..5
  /\ z80' = IF both THEN "second" ELSE "idle"
  /\ UNCHANGED <<pressed, presses, flag, decoder, both, value, since, lastport>>

\* PollJoypad2, which the benchmark has but does not call.
PollJoypad2 ==
  /\ z80 = "second" /\ z80' = "idle"
  /\ Strobe(2)
  /\ UNCHANGED <<pressed, presses, decoder, both, shown, value>>

Decode == (\E p \in Port : Enter(p)) \/ Poll1 \/ Poll2 \/ Write
Show   == VBlank \/ PollJoypad1 \/ Messages \/ PollJoypad2
Next   == (\E f \in Fingers : Finger(f)) \/ Decode \/ Show

Spec == Init /\ [][Next]_vars

\* Both processors run on; the users need not.
FairSpec == Spec /\ WF_vars(Decode) /\ WF_vars(Show)
-----------------------------------------------------------------------------
\* When the decoder has come to rest after a read, the answer that the next
\* read will get shows each pad as it was at some time since the read, with
\* every button at the bit that the port has it at, although the pads are
\* polled one after the other while buttons go up and down.  A program that
\* reads both ports may find the answer of the other one.
Served ==
  (isr = Main /\ flag = {} /\ lastport # 0) =>
    \E a, b \in since, p \in Port :
      /\ ~both => p = lastport
      /\ P1 = Answer(p, {f \in a : f[1] = 1} \cup {f \in b : f[1] = 2})

\* What the users hold down in the end is what the frames show, although no
\* frame shows what its own read has asked for: the benchmark, which reads
\* port 1 only.
Settles ==
  <>[](~both /\ z80 = "idle" => shown = {b \in 0..5 : Wiring(1)[b] \in pressed})
=============================================================================
