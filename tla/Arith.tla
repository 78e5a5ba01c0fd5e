------------------------------- MODULE Arith -------------------------------
(***************************************************************************)
(* The arithmetic of src/src/base/math.asm: multiplication and division by  *)
(* shifting, in registers of eight and sixteen bits.                        *)
(***************************************************************************)
EXTENDS Integers

Word8  == 256   \* 2^8
Word16 == 65536 \* 2^16

\* A round of MULT8: HL is doubled, and E added for a one that leaves at the top.
MultRound(hl, e) ==
  LET twice == 2 * hl
  IN  IF twice >= Word16 THEN (twice - Word16 + e) % Word16 ELSE twice

\* MULT8: H and the result share HL.  The factor leaves at the top while the
\* product comes in at the bottom; m[i] is HL after i rounds.
Mult8(h, e) ==
  LET m[i \in 0..8] == IF i = 0 THEN h * Word8 ELSE MultRound(m[i - 1], e)
  IN  m[8]

\* A round of DIV16: a one is shifted in and taken back if DE is too large.
\* The carry of ADC HL, HL goes into SBC HL, DE.
DivRound(last, de) ==
  LET ac   == 2 * last.ac + 1
      hl   == 2 * last.hl + ac \div Word16
      less == (hl % Word16) - de - hl \div Word16
  IN  IF less >= 0 THEN [ac |-> ac % Word16, hl |-> less]
      ELSE [ac |-> (ac % Word16) - 1, hl |-> (less + de) % Word16]

\* DIV16: AC holds what is left of the dividend and, from below, the quotient;
\* HL is the remainder.
Div16(n, de) ==
  LET d[i \in 0..16] == IF i = 0 THEN [ac |-> n, hl |-> 0] ELSE DivRound(d[i - 1], de)
  IN  d[16].ac
=============================================================================
