------------------------------ MODULE LineEdit ------------------------------
(***************************************************************************)
(* Buffered console input (RDBUFF, src/src/cpm/cpm22.asm) on the screen     *)
(* (Vdp).  The BDOS keeps the line, and the column (CURPOS) in which it     *)
(* takes the cursor to be; the screen has a cursor of its own.  A key is    *)
(* one action: everything the BDOS writes until it waits for the next key.  *)
(* The keys are those of Keyboard; ^P, which only turns the printer on, is  *)
(* left out, for LIST does nothing.                                        *)
(***************************************************************************)
EXTENDS Vdp, Sequences, SequencesExt

CONSTANTS
  Byte,    \* 256 in the code
  TabStop, \* 8 in the code
  MaxLen,     \* the size of the caller's buffer
  Keys,    \* the keys that are typed
  BackAcross, \* does the user ever backspace in a line that was broken with ^E?
  Overlong, \* does the user ever type past the columns that CURPOS can count?
  Prompts, \* the lengths of what the program writes before it reads a line
  MaxKeys  \* bound: keys typed

ASSUME LineAssumption ==
  /\ Byte \in Nat \ {0} /\ TabStop \in Nat \ {0} /\ Byte % TabStop = 0
  /\ MaxLen \in 1..Byte-1 /\ Prompts \subseteq 0..Byte-1 /\ MaxKeys \in Nat
  /\ BackAcross \in BOOLEAN /\ Overlong \in BOOLEAN

\* The screen holds a line as long as CURPOS can count, and a row more; its rows
\* and columns are bytes.  24 rows of 40 columns and a CURPOS of 256 are so.
LineSizes == Rows <= 255 /\ Cols <= 255 /\ Byte + Cols <= Size

\* "^A" stands for the control characters that RDBUFF gives no meaning to.
Stored  == {"a", "^A", "^C", "tab"}
Command == {"bs", "del", "^E", "^R", "^U", "^X", "cr"}
ASSUME KeyAssumption == Keys \subseteq Stored \cup Command

VARIABLES
  screen,   \* the screen
  cur,      \* CURPOS
  starting, \* STARTING
  line,     \* the buffer, as long as register B says
  reading,  \* in RDBUFF, waiting for a key
  shown,    \* history: is the line displayed as it is, or with rubouts, or in two
  typed     \* history: keys typed

vars == <<screen, cur, starting, line, reading, shown, typed>>
-----------------------------------------------------------------------------
(* Output.  What OUTCHAR works on: CURPOS, OUTFLAG and the screen.          *)

Out(mute) == [cur |-> cur, mute |-> mute, screen |-> screen]

Glyph == {" ", "#", "a", "^", "A"}

MovedOnCr(n, c) == \* mutant: the column is not set back by LF
  CASE c \in Glyph -> (n + 1) % Byte
    [] c = "bs" /\ n # 0 -> n - 1
    [] c = "cr" -> n
    [] OTHER -> n

\* OUTCHR1: where the cursor is after c.
Moved(n, c) ==
  CASE c \in Glyph -> (n + 1) % Byte
    [] c = "bs" /\ n # 0 -> n - 1
    [] c = "lf" -> 0
    [] OTHER -> n

\* OUTCHAR.
OutChar(u, c) ==
  [cur |-> Moved(u.cur, c), mute |-> u.mute,
   screen |-> IF u.mute = 0 THEN PutChar(u.screen, c) ELSE u.screen]

OutAll(u, s) == FoldLeft(OutChar, u, s)
Blanks(n) == [i \in 1..n |-> " "]

\* SHOWIT and OUTCON: how a character of the line looks in column n.
Look(k, n) ==
  CASE k = "tab" -> Blanks(TabStop - (n % TabStop))
    [] k = "^A"  -> <<"^", "A">>
    [] k = "^C"  -> <<"^", "A">> \* the letter does not matter
    [] OTHER     -> <<k>>
ShowIt(u, k) == OutAll(u, Look(k, u.cur))
Show(u, l) == FoldLeft(ShowIt, u, l)

\* What line l looks like from column c on, and the column behind it.
Lay(t, k) == [from |-> t.from, text |-> t.text \o Look(k, t.from + Len(t.text))]
Layout(c, l) == FoldLeft(Lay, [from |-> c, text |-> <<>>], l).text
Behind(c, l) == c + Len(Layout(c, l))

\* NEWLINE: a mark, a new line, and over to where the line started.
NewLine(u) ==
  LET v == OutAll(u, <<"#", "cr", "lf">>)
  IN  OutAll(v, Blanks(IF v.cur < starting THEN starting - v.cur ELSE 0))

\* BACKUP, n times: past the BDOS's count of columns.
BackStep(s, i) == PutChar(PutChar(PutChar(s, "bs"), " "), "bs")
Backup(s, n) == FoldLeft(BackStep, s, [i \in 1..n |-> i])

RetypedAll(l, m) == \* mutant: backs up over the whole old line
  LET u == Show(NewLine(Out(m)), l)
  IN  [cur |-> u.cur, screen |-> Backup(u.screen, m)]

\* RDBUF10: the line again on a new line (m = 0); or, when it got shorter, a
\* silent count of its columns, and as many steps back as it is shorter.
Retyped(l, m) ==
  LET u == Show(NewLine(Out(m)), l)
      n == (m - u.cur) % Byte
  IN  [cur |-> u.cur,
       screen |-> IF m = 0 THEN u.screen ELSE Backup(u.screen, IF n = 0 THEN Byte ELSE n)]

Display(u) == cur' = u.cur /\ screen' = u.screen
-----------------------------------------------------------------------------
Init ==
  /\ screen \in {ClearedAt(r * Cols) : r \in 0..Rows-1}
  /\ cur = 0 /\ starting = 0 /\ line = <<>>
  /\ reading = FALSE /\ shown = "yes" /\ typed = 0

\* The program starts a new line, writes its prompt and calls RDBUFF.
Read(n) ==
  /\ ~reading /\ reading' = TRUE
  /\ LET u == OutAll(OutAll(Out(0), <<"cr", "lf">>), [i \in 1..n |-> "a"])
     IN  Display(u) /\ starting' = u.cur
  /\ line' = <<>> /\ shown' = "yes" /\ typed' = typed


\* RDBUF16.
Full(l) == Len(l) >= MaxLen

\* RDBUF15 to RDBUF17: u is shown and l is the line; ^C alone on it is a warm
\* boot, and a full line ends.
Echo(u, l) ==
  /\ line' = l /\ UNCHANGED starting
  /\ reading' = ~(l = <<"^C">> \/ Full(l))
  /\ Display(IF l # <<"^C">> /\ Full(l) THEN OutChar(u, "cr") ELSE u)

\* Where the cursor is and where it will be when the line is shown again, there
\* is room for k before CURPOS goes round.
Room(k) == Overlong \/ \A n \in {cur, Behind(starting, line)} : n + Len(Look(k, n)) < Byte

Store(k) ==
  /\ k \in Stored /\ Room(k)
  /\ Echo(ShowIt(Out(0), k), Append(line, k)) /\ shown' = shown

\* RDBUF3: the deleted character is shown again.
RubOut ==
  /\ line # <<>> /\ Room(Last(line))
  /\ Echo(ShowIt(Out(0), Last(line)), Front(line))
  /\ shown' = IF shown = "yes" THEN "rubbed" ELSE shown

Backspace ==
  /\ line # <<>> /\ line' = Front(line) /\ (shown = "broken" => BackAcross)
  /\ Display(Retyped(line', cur))
  /\ UNCHANGED <<starting, reading, shown>>

PhysicalEnd ==
  /\ Display(OutAll(Out(0), <<"cr", "lf">>))
  /\ starting' = 0 /\ shown' = "broken"
  /\ UNCHANGED <<line, reading>>

Retype ==
  /\ Display(Retyped(line, 0)) /\ shown' = "yes"
  /\ UNCHANGED <<line, starting, reading>>

\* RDBUF8 starts over on a new line, RDBUF7 on the same.
CancelLine ==
  /\ Display(NewLine(Out(0))) /\ starting' = cur'
  /\ line' = <<>> /\ shown' = "yes" /\ UNCHANGED reading

EraseLine ==
  /\ LET n == IF cur > starting THEN cur - starting ELSE 0
     IN  cur' = cur - n /\ screen' = Backup(screen, n)
  /\ starting' = cur' /\ line' = <<>> /\ shown' = "yes" /\ UNCHANGED reading

EndLine ==
  /\ Display(OutChar(Out(0), "cr")) /\ reading' = FALSE
  /\ UNCHANGED <<line, starting, shown>>

Key(k) ==
  \/ Store(k)
  \/ k = "del" /\ RubOut
  \/ k = "bs" /\ Backspace
  \/ k = "^E" /\ PhysicalEnd
  \/ k = "^R" /\ Retype
  \/ k = "^U" /\ CancelLine
  \/ k = "^X" /\ EraseLine
  \/ k = "cr" /\ EndLine

Type(k) == reading /\ typed < MaxKeys /\ typed' = typed + 1 /\ Key(k)

Next ==
  \/ \E n \in Prompts : Read(n)
  \/ \E k \in Keys : Type(k)

Spec == Init /\ [][Next]_vars
-----------------------------------------------------------------------------
TypeOK ==
  /\ screen.pos \in Cell
  /\ screen.cell \in [Cell -> Glyph \cup {Cursor, Nul}]
  /\ cur \in 0..Byte-1 /\ starting \in 0..Byte-1
  /\ line \in Seq(Stored) /\ Len(line) <= MaxLen
  /\ reading \in BOOLEAN /\ shown \in {"yes", "rubbed", "broken"} /\ typed \in 0..MaxKeys

\* CURPOS is the column in which the cursor is, if rows are joined where the
\* screen breaks a long line: after wraps, tabs, steps back and scrolls.
ColumnKept == reading => (screen.pos - cur) % Cols = 0

\* What the user sees is what the program will get: the line stands on the
\* screen just before the cursor, and nothing of what was deleted after it.
Text == Layout(starting, line)
Shown ==
  reading /\ shown = "yes" =>
    /\ \A i \in DOMAIN Text : LET p == screen.pos - Len(Text) + i - 1
                              IN  p >= 0 => screen.cell[p] = Text[i]
    /\ screen.cell[screen.pos] = Cursor
    /\ \A p \in Cell : p > screen.pos => screen.cell[p] = " "
=============================================================================
