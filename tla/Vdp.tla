-------------------------------- MODULE Vdp --------------------------------
(***************************************************************************)
(* The text screen on the TMS9118 (src/src/base/vdp.asm): a line of cells   *)
(* that are shown as rows, and the position of the cursor, which is a cell  *)
(* itself.  A screen is a record [pos, cell].  Characters are printable     *)
(* here; BS, CR and LF are what VDP_PutChar knows of control characters.    *)
(***************************************************************************)
EXTENDS Arith

CONSTANTS Rows, Cols \* 24 and 40 in the code

ASSUME ScreenAssumption == Rows \in Nat \ {0} /\ Cols \in Nat \ {0}

Size == Rows * Cols
Cell == 0..Size-1
Cursor == "cursor"
Nul    == "nul" \* what a line break leaves where the cursor was

ClearedAt(p) == [pos |-> p, cell |-> [i \in Cell |-> IF i = p THEN Cursor ELSE " "]]

WithCursor(s) == [pos |-> s.pos, cell |-> [s.cell EXCEPT ![s.pos] = Cursor]]

ScrolledDirty(s) == \* mutant: the new bottom line is not filled
  [pos  |-> s.pos - Cols,
   cell |-> [i \in Cell |-> IF i + Cols < Size THEN s.cell[i + Cols] ELSE s.cell[i]]]

\* VDP_Scroll.
Scrolled(s) ==
  [pos  |-> s.pos - Cols,
   cell |-> [i \in Cell |-> IF i + Cols < Size THEN s.cell[i + Cols] ELSE " "]]

\* VDP_PutChar3 and VDP_PutChar4.
Settled(s) == WithCursor(IF s.pos > Size - 1 THEN Scrolled(s) ELSE s)

\* VDP_PutChar: a backspace blanks the cursor and makes the cell before it the
\* cursor; LF and CR both begin a new row.
PutChar(s, c) ==
  CASE c = "bs" -> WithCursor([pos |-> (s.pos - 1) % Word16, cell |-> [s.cell EXCEPT ![s.pos] = " "]])
    [] c \in {"cr", "lf"} -> Settled([pos  |-> Mult8((Div16(s.pos, Cols) + 1) % Word8, Cols),
                                      cell |-> [s.cell EXCEPT ![s.pos] = Nul]])
    [] OTHER -> Settled([pos |-> s.pos + 1, cell |-> [s.cell EXCEPT ![s.pos] = c]])
=============================================================================
