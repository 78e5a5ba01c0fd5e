----------------------------- MODULE MCLineEdit -----------------------------
(* Instances of LineEdit for TLC: a small screen.                           *)
EXTENDS LineEdit

\* MULT8 and DIV16 in numbers, for the ends of their ranges and some between.
ASSUME ArithExact ==
  /\ \A h \in 0..255, e \in {0, 1, 5, 40, 255} : Mult8(h, e) = h * e
  /\ \A n \in 0..1000 \cup 65000..65535, de \in {1, 5, 40, 255, 40000} : Div16(n, de) = n \div de

ASSUME SizesFit == LineSizes
=============================================================================
