--------------------------- MODULE LineEditProof ---------------------------
(***************************************************************************)
(* Proofs about LineEdit, from the arithmetic up: MULT8 multiplies and      *)
(* DIV16 divides, whatever they are given; a character and a line break     *)
(* keep the cursor and the blanks behind it, also when the screen scrolls;  *)
(* a text that is written stands before the cursor, BACKUP leaves what is   *)
(* before it alone; and so, key by key, the column that the BDOS counts is  *)
(* the cursor's and the line on the screen is the line in the buffer.       *)
(* Output is made of folds, about which FoldTheorems says what is needed.   *)
(***************************************************************************)
EXTENDS LineEdit, TLAPS

BU == INSTANCE FoldTheorems WITH op <- BackStep
OC == INSTANCE FoldTheorems WITH op <- OutChar
LA == INSTANCE FoldTheorems WITH op <- Lay
SH == INSTANCE FoldTheorems WITH op <- ShowIt
-----------------------------------------------------------------------------
(* The arithmetic.                                                          *)

\* A number that fits a word is what is left of it there, with no carry.
LEMMA InWord16 == ASSUME NEW n \in Nat, n < 65536 PROVE n % Word16 = n /\ n \div Word16 = 0
BY DEF Word16

\* The carry of a number that does not.
LEMMA Carry ==
  ASSUME NEW n \in Nat, n < 65536
  PROVE  (65536 + n) % Word16 = n /\ (65536 + n) \div Word16 = 1
BY DEF Word16

\* A round of MULT8 moves one bit of the factor h = top * 2v + low from below
\* to the top, and the partial product top * e with it.
MultAt(hl, h, e, p, w) ==
  \E top, low \in Nat : /\ h = top * w + low /\ low < w /\ top < p
                        /\ hl = low * (p * Word8) + top * e

\* A partial product, from its parts.
LEMMA MultAtIs ==
  ASSUME NEW h, NEW e, NEW hl, NEW p, NEW w, NEW top \in Nat, NEW low \in Nat,
         h = top * w + low, low < w, top < p, hl = low * (p * Word8) + top * e
  PROVE  MultAt(hl, h, e, p, w)
BY DEF MultAt


\* A round keeps what MultAt says, with one bit less below and one more on top.
LEMMA MultRoundIs ==
  ASSUME NEW h \in 0..255, NEW e \in 0..255, NEW hl, NEW p \in Nat, NEW v \in Nat \ {0},
         p * v = 128, MultAt(hl, h, e, p, 2 * v)
  PROVE  MultAt(MultRound(hl, e), h, e, 2 * p, v)
<1>1. PICK top \in Nat, low \in Nat :
        /\ h = top * (2 * v) + low /\ low < 2 * v /\ top < p
        /\ hl = low * (p * Word8) + top * e
  BY DEF MultAt
<1> DEFINE A == p * 512
           L == low * A
           q == top * e
           twice == 2 * hl
<1>2. hl \in Int /\ A \in Nat /\ L \in Nat /\ q \in Nat /\ v * A = 65536 /\ p \in Nat /\ p > 0
  BY <1>1, SMT DEF Word8
<1>3. twice = L + 2 * q
  BY <1>1 DEF Word8
<1>4. 2 * q + 2 * e <= A - p
  <2>1. q <= (p - 1) * e
    BY <1>1
  <2>2. (p - 1) * e + e = p * e /\ p * e <= p * 255
    OBVIOUS
  <2> HIDE DEF q
  <2>3. q + e <= p * 255 BY <1>2, <2>1, <2>2
  <2> QED BY <1>2, <2>3
<1>5. CASE low >= v
  <2> DEFINE k == low - v
  <2>1. k \in Nat /\ k < v /\ k * A = L - 65536 BY <1>1, <1>2, <1>5
  <2>2. k * A <= 65536 - A
    <3>1. k * A <= (v - 1) * A BY <1>2, <2>1
    <3>2. (v - 1) * A = 65536 - A BY <1>2
    <3> QED BY <3>1, <3>2
  <2>3. k * A \in Nat BY <1>2, <2>1
  <2>4. MultRound(hl, e) = k * A + (2 * q + e)
    <3> DEFINE z == k * A
               t == 2 * q + e
    <3>1. z \in Nat /\ z <= 65536 - A BY <2>2, <2>3
    <3>2. twice = z + 65536 + 2 * q BY <1>3, <2>1
    <3> HIDE DEF z, k, A, q
    <3>3. t \in Nat /\ e <= t /\ z + t < 65536 /\ twice = z + 65536 + t - e BY <1>2, <1>4, <3>1, <3>2
    <3>4. hl \in Int BY <1>2
    <3> HIDE DEF t
    <3>5. 2 * hl >= 65536 /\ 2 * hl - 65536 + e < 65536 /\ 2 * hl - 65536 + e = z + t
      BY <3>1, <3>3, <3>4
    <3>6. MultRound(hl, e) = 2 * hl - 65536 + e
      <4> DEFINE y == 2 * hl - 65536 + e
      <4>1. y \in Nat /\ y < 65536 BY <3>3, <3>4, <3>5
      <4>2. y % Word16 = y
        <5> HIDE DEF y
        <5> QED BY <4>1, InWord16
      <4> QED BY <3>5, <4>2 DEF MultRound, Word16
    <3> QED BY <3>5, <3>6 DEF z, t
  <2>5. h = (2 * top + 1) * v + k /\ 2 * top + 1 < 2 * p /\ 2 * top + 1 \in Nat BY <1>1
  <2>6. k * A = k * (2 * p * Word8) /\ 2 * q + e = (2 * top + 1) * e BY <1>1, <2>1 DEF Word8
  <2> HIDE DEF k, A, q
  <2>7. MultRound(hl, e) = k * (2 * p * Word8) + (2 * top + 1) * e BY <2>4, <2>6
  <2> DEFINE top1 == 2 * top + 1
             p2 == 2 * p
             m == MultRound(hl, e)
  <2>8. h = top1 * v + k /\ k < v /\ top1 < p2 /\ top1 \in Nat /\ k \in Nat BY <2>1, <2>5
  <2>9. m = k * (p2 * Word8) + top1 * e BY <2>7
  <2> HIDE DEF top1, p2, m
  <2>10. MultAt(m, h, e, p2, v) BY <2>8, <2>9, MultAtIs
  <2> QED BY <2>10 DEF p2, m
<1>6. CASE low < v
  <2>1. L <= 65536 - A
    <3>1. L <= (v - 1) * A BY <1>1, <1>2, <1>6
    <3>2. (v - 1) * A = 65536 - A BY <1>2
    <3> QED BY <3>1, <3>2
  <2>2. MultRound(hl, e) = L + 2 * q
    <3>1. 2 * hl < 65536 /\ 2 * hl = L + 2 * q
      <4> HIDE DEF L, A, q
      <4> QED BY <1>2, <1>3, <1>4, <2>1
    <3> HIDE DEF L, q
    <3> QED BY <3>1, <1>2 DEF MultRound, Word16
  <2>3. h = (2 * top) * v + low /\ 2 * top < 2 * p /\ 2 * top \in Nat BY <1>1
  <2>4. L = low * (2 * p * Word8) /\ 2 * q = (2 * top) * e BY <1>1 DEF Word8
  <2>5. MultRound(hl, e) = low * (2 * p * Word8) + (2 * top) * e
    <3> HIDE DEF L, q
    <3> QED BY <2>2, <2>4
  <2> DEFINE top1 == 2 * top
             p2 == 2 * p
             m == MultRound(hl, e)
  <2>8. h = top1 * v + low /\ top1 < p2 /\ top1 \in Nat BY <2>3
  <2>9. m = low * (p2 * Word8) + top1 * e BY <2>5
  <2> HIDE DEF top1, p2, m
  <2>10. MultAt(m, h, e, p2, v) BY <1>6, <2>8, <2>9, MultAtIs
  <2> QED BY <2>10 DEF p2, m
<1> QED BY <1>1, <1>5, <1>6

\* m is what HL is after each of the first k rounds.
MultUpTo(m, k, h, e) == m = [i \in 0..k |-> IF i = 0 THEN h * Word8 ELSE MultRound(m[i - 1], e)]

\* There is such an m for every k, so the one that Mult8 chooses is one.
LEMMA MultRounds ==
  ASSUME NEW h, NEW e
  PROVE  \A k \in Nat : \E m : MultUpTo(m, k, h, e)
<1> DEFINE N == {k \in Nat : \E m : MultUpTo(m, k, h, e)}
<1>1. 0 \in N
  <2> DEFINE m == [i \in 0..0 |-> h * Word8]
  <2>1. m = [i \in 0..0 |-> IF i = 0 THEN h * Word8 ELSE MultRound(m[i - 1], e)]
    OBVIOUS
  <2> HIDE DEF m
  <2> QED BY <2>1 DEF MultUpTo
<1>2. ASSUME NEW k \in Nat, k \in N PROVE k + 1 \in N
  <2>1. PICK m : MultUpTo(m, k, h, e)
    BY <1>2
  <2> DEFINE g == [i \in 0..k+1 |-> IF i = k + 1 THEN MultRound(m[k], e) ELSE m[i]]
  <2>2. \A i \in 0..k+1 : g[i] = IF i = 0 THEN h * Word8 ELSE MultRound(g[i - 1], e)
    <3> SUFFICES ASSUME NEW i \in 0..k+1
                 PROVE  g[i] = IF i = 0 THEN h * Word8 ELSE MultRound(g[i - 1], e)
      OBVIOUS
    <3>1. CASE i = k + 1
      <4>1. g[i] = MultRound(m[k], e) /\ g[i - 1] = m[k] /\ i # 0 BY <3>1
      <4> HIDE DEF g
      <4> QED BY <4>1
    <3>2. CASE i # k + 1
      <4>1. g[i] = m[i] /\ i \in 0..k /\ (i # 0 => g[i - 1] = m[i - 1]) BY <3>2
      <4>2. m[i] = IF i = 0 THEN h * Word8 ELSE MultRound(m[i - 1], e) BY <2>1, <4>1 DEF MultUpTo
      <4> HIDE DEF g
      <4> QED BY <4>1, <4>2
    <3> QED BY <3>1, <3>2
  <2>3. g = [i \in 0..k+1 |-> g[i]] OBVIOUS
  <2>4. g = [i \in 0..k+1 |-> IF i = 0 THEN h * Word8 ELSE MultRound(g[i - 1], e)]
    <3> HIDE DEF g
    <3> QED BY <2>2, <2>3
  <2> HIDE DEF g
  <2> QED BY <2>4 DEF MultUpTo
<1> HIDE DEF N
<1>3. \A k \in Nat : k \in N BY <1>1, <1>2, BU!NatSet
<1> QED BY <1>3 DEF N

\* MULT8 multiplies.
THEOREM MultExact == ASSUME NEW h \in 0..255, NEW e \in 0..255 PROVE Mult8(h, e) = h * e
<1> DEFINE d == CHOOSE m : MultUpTo(m, 8, h, e)
<1>1. MultUpTo(d, 8, h, e) /\ Mult8(h, e) = d[8]
  <2>1. 8 \in Nat OBVIOUS
  <2>2. \E m : MultUpTo(m, 8, h, e) BY <2>1, MultRounds
  <2>3. Mult8(h, e) = d[8] BY DEF Mult8, MultUpTo
  <2> QED BY <2>2, <2>3
<1> HIDE DEF d
<1>2. d[0] = h * Word8 /\ \A i \in 1..8 : d[i] = MultRound(d[i - 1], e) BY <1>1 DEF MultUpTo
<1>3. MultAt(d[0], h, e, 1, 256)
  <2>1. h = 0 * 256 + h /\ h < 256 /\ d[0] = h * (1 * Word8) + 0 * e BY <1>2 DEF Word8
  <2> QED BY <2>1 DEF MultAt
<1> DEFINE Round(p, v) == \A hl : MultAt(hl, h, e, p, 2 * v) => MultAt(MultRound(hl, e), h, e, 2 * p, v)
<1>4. \A p \in Nat, v \in Nat \ {0} : p * v = 128 => Round(p, v) BY MultRoundIs
<1>5. Round(1, 128) /\ Round(2, 64) /\ Round(4, 32) /\ Round(8, 16) BY <1>4
<1>6. Round(16, 8) /\ Round(32, 4) /\ Round(64, 2) /\ Round(128, 1) BY <1>4
<1>7. MultAt(d[4], h, e, 16, 16)
  <2>1. d[1] = MultRound(d[0], e) /\ d[2] = MultRound(d[1], e) /\ d[3] = MultRound(d[2], e) /\ d[4] = MultRound(d[3], e)
    BY <1>2
  <2>2. MultAt(d[1], h, e, 2, 128) BY <1>3, <1>5, <2>1
  <2>3. MultAt(d[2], h, e, 4, 64) BY <2>2, <1>5, <2>1
  <2>4. MultAt(d[3], h, e, 8, 32) BY <2>3, <1>5, <2>1
  <2> QED BY <2>4, <1>5, <2>1
<1>8. MultAt(d[8], h, e, 256, 1)
  <2>1. d[5] = MultRound(d[4], e) /\ d[6] = MultRound(d[5], e) /\ d[7] = MultRound(d[6], e) /\ d[8] = MultRound(d[7], e)
    BY <1>2
  <2>2. MultAt(d[5], h, e, 32, 8) BY <1>7, <1>6, <2>1
  <2>3. MultAt(d[6], h, e, 64, 4) BY <2>2, <1>6, <2>1
  <2>4. MultAt(d[7], h, e, 128, 2) BY <2>3, <1>6, <2>1
  <2> QED BY <2>4, <1>6, <2>1
<1>9. PICK top \in Nat, low \in Nat : h = top * 1 + low /\ low < 1 /\ d[8] = low * (256 * Word8) + top * e
  BY <1>8 DEF MultAt
<1> QED
  <2>1. low = 0 /\ top = h BY <1>9
  <2>2. d[8] = top * e BY <1>9, <2>1 DEF Word8
  <2> QED BY <1>1, <2>1, <2>2

\* A round of DIV16 moves one bit of the dividend from below to the remainder
\* and one of the quotient in.
DivParts(x, n, de, p, w, q, r, low) ==
  /\ n = (q * de + r) * w + low
  /\ q < p /\ r < de /\ low < w
  /\ x.ac = low * p + q /\ x.hl = r
\* Some quotient, remainder and rest are the parts of x.
DivAt(x, n, de, p, w) == \E q, r, low \in Nat : DivParts(x, n, de, p, w, q, r, low)

\* The bit that leaves the register, and what stays in it.
LEMMA TopBit ==
  ASSUME NEW low \in Nat, NEW v \in Nat \ {0}, NEW p \in Nat, NEW q \in Nat, p * v = 32768,
         low < 2 * v, q < p
  PROVE  \E bit \in {0, 1}, l \in Nat : /\ low = bit * v + l /\ l < v
                                        /\ 2 * (low * p + q) = bit * 65536 + (l * (2 * p) + 2 * q)
                                        /\ l * (2 * p) + 2 * q \in Nat
                                        /\ l * (2 * p) + 2 * q + 1 < 65536
<1> DEFINE l == IF low < v THEN low ELSE low - v
           bit == IF low < v THEN 0 ELSE 1
           z == l * (2 * p)
<1>1. bit \in {0, 1} /\ l \in Nat /\ low = bit * v + l /\ l < v
  OBVIOUS
<1>2. 2 * (low * p + q) = bit * 65536 + (z + 2 * q)
  <2>1. CASE low < v
    BY <2>1
  <2>2. CASE ~(low < v)
    <3> DEFINE k == low - v
    <3>1. l = k /\ bit = 1 /\ k \in Nat /\ low = v + k BY <2>2
    <3>2. low * p = v * p + k * p BY <3>1
    <3>3. v * p = 32768 OBVIOUS
    <3>4. 2 * (low * p + q) = 65536 + 2 * (k * p) + 2 * q
      <4> DEFINE a == low * p
                 b == k * p
      <4>1. a \in Int /\ b \in Int /\ a = 32768 + b BY <3>1, <3>2, <3>3
      <4> HIDE DEF a, b
      <4>2. 2 * (a + q) = 65536 + 2 * b + 2 * q BY <4>1
      <4> QED BY <4>2 DEF a, b
    <3>5. z = 2 * (k * p) BY <3>1
    <3> QED BY <3>1, <3>4, <3>5
  <2> QED BY <2>1, <2>2
<1>3. z \in Nat /\ z + 2 * q + 1 < 65536
  <2>1. z <= (v - 1) * (2 * p) BY <1>1
  <2>2. (v - 1) * (2 * p) = 65536 - 2 * p OBVIOUS
  <2>3. z \in Nat BY <1>1
  <2> HIDE DEF z
  <2> QED BY <2>1, <2>2, <2>3
<1>4. z + 2 * q \in Nat
  <2> HIDE DEF z
  <2> QED BY <1>3
<1> HIDE DEF bit, l
<1> QED BY <1>1, <1>2, <1>3, <1>4

\* A round keeps what DivAt says, with one bit less of the dividend to come.
LEMMA DivRoundIs ==
  ASSUME NEW x, NEW n \in Nat, NEW de \in Nat, 0 < de, de <= 32768, NEW p \in Nat, NEW v \in Nat \ {0},
         p * v = 32768, DivAt(x, n, de, p, 2 * v)
  PROVE  DivAt(DivRound(x, de), n, de, 2 * p, v)
<1>1. PICK q \in Nat, r \in Nat, low \in Nat :
        /\ n = (q * de + r) * (2 * v) + low
        /\ q < p /\ r < de /\ low < 2 * v
        /\ x.ac = low * p + q /\ x.hl = r
  <2>1. PICK q \in Nat, r \in Nat, low \in Nat : DivParts(x, n, de, p, 2 * v, q, r, low)
    BY DEF DivAt
  <2> QED BY <2>1 DEF DivParts
<1>2. PICK bit \in {0, 1}, l \in Nat :
        /\ low = bit * v + l /\ l < v
        /\ 2 * (low * p + q) = bit * 65536 + (l * (2 * p) + 2 * q)
        /\ l * (2 * p) + 2 * q \in Nat
        /\ l * (2 * p) + 2 * q + 1 < 65536
  BY <1>1, TopBit
<1> DEFINE z == l * (2 * p) + 2 * q
           ac == 2 * x.ac + 1
           h == 2 * r + bit
           hl == 2 * x.hl + ac \div Word16
           less == (hl % Word16) - de - hl \div Word16
           k == q * de
<1>3. ac = bit * 65536 + (z + 1) /\ x.hl = r
  BY <1>1, <1>2
<1>4. ac \div Word16 = bit /\ ac % Word16 = z + 1
  <2> DEFINE y == z + 1
  <2>1. z \in Nat /\ z + 1 < 65536 BY <1>2
  <2> HIDE DEF z
  <2>2. y \in Nat /\ y < 65536 BY <2>1
  <2>3. ac = IF bit = 0 THEN y ELSE 65536 + y
    <3> HIDE DEF ac
    <3> QED BY <1>3, <2>1
  <2> HIDE DEF ac, y
  <2>4. CASE bit = 0
    BY <2>2, <2>3, <2>4, InWord16 DEF y
  <2>5. CASE bit = 1
    BY <2>2, <2>3, <2>5, Carry DEF y
  <2> QED BY <2>4, <2>5
<1>5. hl = h /\ h \in Nat /\ h < 2 * de
  <2> HIDE DEF ac
  <2> QED BY <1>1, <1>3, <1>4
<1>6. h % Word16 = h /\ h \div Word16 = 0
  <2> HIDE DEF h
  <2>1. h < 65536 BY <1>5
  <2> QED BY <2>1, <1>5, InWord16
<1>7. less = h - de
  <2> HIDE DEF h, hl
  <2> QED BY <1>5, <1>6
<1>8. DivRound(x, de) = IF less >= 0 THEN [ac |-> ac % Word16, hl |-> less]
                        ELSE [ac |-> (ac % Word16) - 1, hl |-> (less + de) % Word16]
  BY DEF DivRound
<1>9. k \in Nat /\ n = (k + r) * (2 * v) + (bit * v + l)
  BY <1>1, <1>2
<1>10. n = (2 * k + h) * v + l
  <2>1. (k + r) * (2 * v) = (2 * k + 2 * r) * v
    <3> HIDE DEF k
    <3> QED BY <1>9
  <2>2. (2 * k + 2 * r) * v + bit * v = (2 * k + h) * v
    <3> HIDE DEF k
    <3> QED BY <1>9
  <2> DEFINE a == (k + r) * (2 * v)
             b == bit * v
             c == (2 * k + h) * v
  <2>3. a \in Int /\ b \in Int /\ c \in Int /\ a + b = c /\ n = a + (b + l)
    BY <1>5, <1>9, <2>1, <2>2
  <2> HIDE DEF a, b, c
  <2>4. n = c + l BY <2>3
  <2> QED BY <2>4 DEF c
<1> DEFINE y == DivRound(x, de)
           p2 == 2 * p
<1>11. CASE h >= de
  <2> DEFINE q1 == 2 * q + 1
             r1 == h - de
  <2>1. y = [ac |-> z + 1, hl |-> r1]
    <3> HIDE DEF less, ac, z, h
    <3> QED BY <1>4, <1>5, <1>7, <1>8, <1>11
  <2>2. q1 * de = 2 * k + de OBVIOUS
  <2>3. n = (q1 * de + r1) * v + l
    <3>1. q1 * de + r1 = 2 * k + h
      <4> HIDE DEF k, h, q1
      <4> QED BY <1>5, <1>9, <2>2
    <3> HIDE DEF k, h, q1, r1
    <3> QED BY <1>10, <3>1
  <2>4. q1 \in Nat /\ q1 < p2 BY <1>1
  <2>5. r1 \in Nat /\ r1 < de
    <3> HIDE DEF h
    <3> QED BY <1>5, <1>11
  <2>6. z + 1 = l * p2 + q1
    <3> DEFINE a == l * (2 * p)
    <3>1. a \in Int OBVIOUS
    <3> HIDE DEF a
    <3>2. (a + 2 * q) + 1 = a + (2 * q + 1) BY <3>1
    <3> QED BY <3>2 DEF a
  <2> HIDE DEF q1, r1, p2, y, z
  <2>7. y.ac = l * p2 + q1 /\ y.hl = r1 BY <2>1, <2>6
  <2>8. l < v BY <1>2
  <2>9. DivParts(y, n, de, p2, v, q1, r1, l) BY <2>3, <2>4, <2>5, <2>7, <2>8 DEF DivParts
  <2>10. DivAt(y, n, de, p2, v) BY <2>4, <2>5, <2>9 DEF DivAt
  <2> QED BY <2>10 DEF y, p2
<1>12. CASE h < de
  <2> DEFINE q1 == 2 * q
  <2>1. (less + de) % Word16 = h /\ ~(less >= 0)
    <3> HIDE DEF less, h
    <3>1. less + de = h /\ ~(less >= 0) BY <1>5, <1>7, <1>12
    <3> QED BY <3>1, <1>6
  <2>2. y = [ac |-> z, hl |-> h]
    <3>1. z \in Nat BY <1>2
    <3> HIDE DEF less, ac, z, h
    <3>2. (ac % Word16) - 1 = z BY <1>4, <3>1
    <3> QED BY <1>8, <2>1, <3>2
  <2>3. q1 * de = 2 * k OBVIOUS
  <2>4. n = (q1 * de + h) * v + l
    <3> HIDE DEF k, h, q1
    <3> QED BY <1>10, <2>3
  <2>5. q1 \in Nat /\ q1 < p2 BY <1>1
  <2>6. z = l * p2 + q1 OBVIOUS
  <2> HIDE DEF q1, h, p2, y, z
  <2>7. y.ac = l * p2 + q1 /\ y.hl = h BY <2>2, <2>6
  <2>8. l < v /\ h \in Nat BY <1>2, <1>5
  <2>9. DivParts(y, n, de, p2, v, q1, h, l) BY <1>12, <2>4, <2>5, <2>7, <2>8 DEF DivParts
  <2>10. DivAt(y, n, de, p2, v) BY <2>5, <2>8, <2>9 DEF DivAt
  <2> QED BY <2>10 DEF y, p2
<1>13. h >= de \/ h < de
  <2> HIDE DEF h
  <2> QED BY <1>5
<1> QED BY <1>11, <1>12, <1>13

\* d is what the registers hold after each of the first k rounds.
DivUpTo(d, k, n, de) ==
  d = [i \in 0..k |-> IF i = 0 THEN [ac |-> n, hl |-> 0] ELSE DivRound(d[i - 1], de)]

\* There is such a d for every k, so the one that Div16 chooses is one.
LEMMA DivRounds ==
  ASSUME NEW n, NEW de PROVE \A k \in Nat : \E d : DivUpTo(d, k, n, de)
<1> DEFINE N == {k \in Nat : \E d : DivUpTo(d, k, n, de)}
           base == [ac |-> n, hl |-> 0]
<1>1. 0 \in N
  <2> DEFINE d == [i \in 0..0 |-> base]
  <2>1. d = [i \in 0..0 |-> IF i = 0 THEN base ELSE DivRound(d[i - 1], de)]
    OBVIOUS
  <2> HIDE DEF d
  <2> QED BY <2>1 DEF DivUpTo
<1>2. ASSUME NEW k \in Nat, k \in N PROVE k + 1 \in N
  <2>1. PICK d : DivUpTo(d, k, n, de)
    BY <1>2
  <2> DEFINE g == [i \in 0..k+1 |-> IF i = k + 1 THEN DivRound(d[k], de) ELSE d[i]]
  <2>2. \A i \in 0..k+1 : g[i] = IF i = 0 THEN base ELSE DivRound(g[i - 1], de)
    <3> SUFFICES ASSUME NEW i \in 0..k+1
                 PROVE  g[i] = IF i = 0 THEN base ELSE DivRound(g[i - 1], de)
      OBVIOUS
    <3> HIDE DEF base
    <3>1. CASE i = k + 1
      <4>1. g[i] = DivRound(d[k], de) /\ g[i - 1] = d[k] /\ i # 0 BY <3>1
      <4> HIDE DEF g
      <4> QED BY <4>1
    <3>2. CASE i # k + 1
      <4>1. g[i] = d[i] /\ i \in 0..k /\ (i # 0 => g[i - 1] = d[i - 1]) BY <3>2
      <4>2. d[i] = IF i = 0 THEN base ELSE DivRound(d[i - 1], de) BY <2>1, <4>1 DEF DivUpTo, base
      <4> HIDE DEF g
      <4> QED BY <4>1, <4>2
    <3> QED BY <3>1, <3>2
  <2>3. g = [i \in 0..k+1 |-> g[i]] OBVIOUS
  <2>4. g = [i \in 0..k+1 |-> IF i = 0 THEN base ELSE DivRound(g[i - 1], de)]
    <3> HIDE DEF g, base
    <3> QED BY <2>2, <2>3
  <2> HIDE DEF g
  <2> QED BY <2>4 DEF DivUpTo
<1> HIDE DEF N
<1>3. \A k \in Nat : k \in N BY <1>1, <1>2, BU!NatSet
<1> QED BY <1>3 DEF N

\* DIV16 divides, by divisors of up to fifteen bits and 32768.
THEOREM DivExact ==
  ASSUME NEW n \in Nat, n < 65536, NEW de \in Nat, 0 < de, de <= 32768
  PROVE  Div16(n, de) = n \div de
<1> DEFINE d == CHOOSE x : DivUpTo(x, 16, n, de)
           Round(p, v) == \A x : DivAt(x, n, de, p, 2 * v) => DivAt(DivRound(x, de), n, de, 2 * p, v)
<1>1. DivUpTo(d, 16, n, de) /\ Div16(n, de) = d[16].ac
  <2>1. 16 \in Nat OBVIOUS
  <2>2. \E x : DivUpTo(x, 16, n, de) BY <2>1, DivRounds
  <2>3. Div16(n, de) = d[16].ac BY DEF Div16, DivUpTo
  <2> QED BY <2>2, <2>3
<1> HIDE DEF d
<1>2. d[0] = [ac |-> n, hl |-> 0] /\ \A i \in 1..16 : d[i] = DivRound(d[i - 1], de)
  BY <1>1 DEF DivUpTo
<1>3. DivAt(d[0], n, de, 1, 65536)
  <2>1. n = (0 * de + 0) * 65536 + n /\ 0 < 1 /\ n < 65536 /\ n * 1 + 0 = n OBVIOUS
  <2>2. d[0].ac = n * 1 + 0 /\ d[0].hl = 0 BY <1>2, <2>1
  <2>3. DivParts(d[0], n, de, 1, 65536, 0, 0, n) BY <2>1, <2>2 DEF DivParts
  <2> QED BY <2>3 DEF DivAt
<1>4. \A p \in Nat, v \in Nat \ {0} : p * v = 32768 => Round(p, v) BY DivRoundIs
<1>5. Round(1, 32768) /\ Round(2, 16384) /\ Round(4, 8192) /\ Round(8, 4096) BY <1>4
<1>6. Round(16, 2048) /\ Round(32, 1024) /\ Round(64, 512) /\ Round(128, 256) BY <1>4
<1>7. Round(256, 128) /\ Round(512, 64) /\ Round(1024, 32) /\ Round(2048, 16) BY <1>4
<1>8. Round(4096, 8) /\ Round(8192, 4) /\ Round(16384, 2) /\ Round(32768, 1) BY <1>4
<1>9. DivAt(d[4], n, de, 16, 4096)
  <2>1. d[1] = DivRound(d[0], de) /\ d[2] = DivRound(d[1], de) /\ d[3] = DivRound(d[2], de) /\ d[4] = DivRound(d[3], de)
    BY <1>2
  <2>2. DivAt(d[1], n, de, 2, 32768) BY <1>3, <1>5, <2>1
  <2>3. DivAt(d[2], n, de, 4, 16384) BY <2>2, <1>5, <2>1
  <2>4. DivAt(d[3], n, de, 8, 8192) BY <2>3, <1>5, <2>1
  <2> QED BY <2>4, <1>5, <2>1
<1>10. DivAt(d[8], n, de, 256, 256)
  <2>1. d[5] = DivRound(d[4], de) /\ d[6] = DivRound(d[5], de) /\ d[7] = DivRound(d[6], de) /\ d[8] = DivRound(d[7], de)
    BY <1>2
  <2>2. DivAt(d[5], n, de, 32, 2048) BY <1>9, <1>6, <2>1
  <2>3. DivAt(d[6], n, de, 64, 1024) BY <2>2, <1>6, <2>1
  <2>4. DivAt(d[7], n, de, 128, 512) BY <2>3, <1>6, <2>1
  <2> QED BY <2>4, <1>6, <2>1
<1>11. DivAt(d[12], n, de, 4096, 16)
  <2>1. d[9] = DivRound(d[8], de) /\ d[10] = DivRound(d[9], de) /\ d[11] = DivRound(d[10], de) /\ d[12] = DivRound(d[11], de)
    BY <1>2
  <2>2. DivAt(d[9], n, de, 512, 128) BY <1>10, <1>7, <2>1
  <2>3. DivAt(d[10], n, de, 1024, 64) BY <2>2, <1>7, <2>1
  <2>4. DivAt(d[11], n, de, 2048, 32) BY <2>3, <1>7, <2>1
  <2> QED BY <2>4, <1>7, <2>1
<1>12. DivAt(d[16], n, de, 65536, 1)
  <2>1. d[13] = DivRound(d[12], de) /\ d[14] = DivRound(d[13], de) /\ d[15] = DivRound(d[14], de) /\ d[16] = DivRound(d[15], de)
    BY <1>2
  <2>2. DivAt(d[13], n, de, 8192, 8) BY <1>11, <1>8, <2>1
  <2>3. DivAt(d[14], n, de, 16384, 4) BY <2>2, <1>8, <2>1
  <2>4. DivAt(d[15], n, de, 32768, 2) BY <2>3, <1>8, <2>1
  <2> QED BY <2>4, <1>8, <2>1
<1>13. PICK q \in Nat, r \in Nat, low \in Nat :
         /\ n = (q * de + r) * 1 + low /\ q < 65536 /\ r < de /\ low < 1
         /\ d[16].ac = low * 65536 + q /\ d[16].hl = r
  <2>1. PICK q \in Nat, r \in Nat, low \in Nat : DivParts(d[16], n, de, 65536, 1, q, r, low)
    BY <1>12 DEF DivAt
  <2> QED BY <2>1 DEF DivParts
<1>14. low = 0 BY <1>13
<1>15. d[16].ac = q BY <1>13, <1>14
<1>16. n = q * de + r
  <2> DEFINE a == q * de
  <2>1. a \in Nat OBVIOUS
  <2> HIDE DEF a
  <2>2. n = (a + r) * 1 + low BY <1>13 DEF a
  <2> QED BY <1>14, <2>1, <2>2 DEF a
<1>17. n \div de = q
  <2> DEFINE b == n \div de
             m == n % de
  <2>1. b \in Int /\ m \in 0..de-1 /\ n = de * b + m OBVIOUS
  <2>2. ~(b < q)
    <3> SUFFICES ASSUME b < q PROVE FALSE OBVIOUS
    <3>1. de * (b + 1) <= de * q BY <2>1, b + 1 <= q
    <3>2. de * (b + 1) = de * b + de BY <2>1
    <3> QED BY <1>13, <1>16, <2>1, <3>1, <3>2
  <2>3. ~(q < b)
    <3> SUFFICES ASSUME q < b PROVE FALSE OBVIOUS
    <3>1. de * (q + 1) <= de * b BY <2>1, q + 1 <= b
    <3>2. de * (q + 1) = q * de + de OBVIOUS
    <3> QED BY <1>13, <1>16, <2>1, <3>1, <3>2
  <2> QED BY <2>1, <2>2, <2>3
<1> QED BY <1>1, <1>15, <1>17

-----------------------------------------------------------------------------
(* Rows.                                                                    *)

\* Multiples of the width.
LEMMA Multiple ==
  ASSUME NEW k \in Int
  PROVE  (k * Cols) % Cols = 0
<1>1. Cols \in Nat \ {0} BY ScreenAssumption
<1> DEFINE d == (k * Cols) \div Cols
           m == (k * Cols) % Cols
<1>2. d \in Int /\ m \in 0..Cols-1 /\ k * Cols = Cols * d + m BY <1>1
<1>3. m = (k - d) * Cols BY <1>1, <1>2
<1>4. CASE k - d > 0
  <2>1. (k - d) * Cols >= Cols BY <1>1, <1>2, <1>4
  <2> QED BY <1>1, <1>2, <1>3, <2>1
<1>5. CASE k - d < 0
  <2>1. (k - d) * Cols <= -Cols BY <1>1, <1>2, <1>5
  <2> QED BY <1>1, <1>2, <1>3, <2>1
<1>6. CASE k = d
  <2>1. k - d = 0 /\ 0 * Cols = 0 BY <1>1, <1>2, <1>6
  <2> HIDE DEF d, m
  <2> QED BY <1>3, <2>1 DEF m
<1>7. k - d > 0 \/ k - d < 0 \/ k = d
  <2> HIDE DEF d
  <2> QED BY <1>2
<1> QED BY <1>4, <1>5, <1>6, <1>7

\* A row less is still whole rows.
LEMMA RowLess ==
  ASSUME NEW d \in Int, d % Cols = 0
  PROVE  (d - Cols) % Cols = 0
<1>1. Cols \in Nat \ {0} BY ScreenAssumption
<1> DEFINE k == d \div Cols
<1>2. k \in Int /\ d = Cols * k BY <1>1
<1>3. d - Cols = (k - 1) * Cols BY <1>1, <1>2
<1>4. k - 1 \in Int BY <1>2
<1> QED BY <1>3, <1>4, Multiple

\* The sizes, as the proofs use them.
LEMMA SizeFacts ==
  ASSUME LineSizes
  PROVE  /\ Cols \in Nat /\ 0 < Cols /\ Size \in Nat /\ Cols <= Size /\ Size < 65536
         /\ Byte \in Nat /\ Byte + Cols <= Size /\ Cell = 0..Size-1
         /\ Size % Cols = 0
<1>1. Rows \in Nat /\ Cols \in Nat /\ Rows > 0 /\ Cols > 0 /\ Rows <= 255 /\ Cols <= 255
  BY ScreenAssumption DEF LineSizes
<1>2. Rows * Cols <= 255 * Cols /\ Rows * Cols \in Nat /\ Cols <= Rows * Cols
  BY <1>1
<1>3. Size % Cols = 0
  BY <1>1, Multiple DEF Size
<1> QED BY <1>1, <1>2, <1>3, LineAssumption DEF Size, Cell, LineSizes

\* Where a line break at p goes: the row below.
Below(p) == Mult8((Div16(p, Cols) + 1) % Word8, Cols)

\* The row below p begins behind p, at the latest behind the screen.
LEMMA BelowIs ==
  ASSUME LineSizes, NEW p \in Cell
  PROVE  /\ Below(p) \in Nat /\ p < Below(p) /\ Below(p) <= Size
         /\ Below(p) % Cols = 0 /\ (Below(p) > Size - 1 => Below(p) = Size)
<1> DEFINE r == p \div Cols
           m == p % Cols
<1>1. /\ Cols \in Nat /\ 0 < Cols /\ Cols <= 255 /\ p \in Nat /\ p < 65536 /\ p < Rows * Cols
      /\ Rows \in Nat /\ Rows <= 255
  BY SizeFacts, ScreenAssumption DEF LineSizes, Size
<1>2. Div16(p, Cols) = r
  BY <1>1, DivExact
<1>3. r \in Int /\ m \in 0..Cols-1 /\ p = r * Cols + m
  BY <1>1
<1>4. r >= 0
  <2> SUFFICES ASSUME r < 0 PROVE FALSE BY <1>3
  <2>1. r * Cols <= -Cols BY <1>1, <1>3
  <2> QED BY <1>1, <1>3, <2>1
<1>5. r < Rows
  <2> SUFFICES ASSUME r >= Rows PROVE FALSE BY <1>1, <1>3
  <2>1. r * Cols >= Rows * Cols BY <1>1, <1>3
  <2> QED BY <1>1, <1>3, <2>1
<1>6. (r + 1) * Cols = r * Cols + Cols /\ (r + 1) * Cols <= Rows * Cols
  BY <1>1, <1>3, <1>5
<1>7. Below(p) = (r + 1) * Cols
  <2> HIDE DEF r, m
  <2>1. (r + 1) % Word8 = r + 1 /\ r + 1 \in 0..255 BY <1>1, <1>3, <1>4, <1>5 DEF Word8
  <2>2. Cols \in 0..255 BY <1>1
  <2>3. Mult8(r + 1, Cols) = (r + 1) * Cols BY <2>1, <2>2, MultExact
  <2> QED BY <1>2, <2>1, <2>3 DEF Below
<1>8. ((r + 1) * Cols) % Cols = 0
  <2>1. r + 1 \in Int BY <1>3
  <2> QED BY <2>1, Multiple
<1>9. /\ Below(p) \in Nat /\ p < Below(p) /\ Below(p) <= Rows * Cols
  <2> DEFINE a == r * Cols
             b == (r + 1) * Cols
  <2>1. a \in Int /\ b \in Int BY <1>1, <1>3
  <2> HIDE DEF a, b, r, m
  <2>2. p = a + m /\ b = a + Cols /\ b <= Rows * Cols /\ m \in 0..Cols-1 /\ Below(p) = b
    BY <1>3, <1>6, <1>7 DEF a, b
  <2> DEFINE z == Rows * Cols
  <2> HIDE DEF z
  <2>3. p = a + m /\ b = a + Cols /\ b <= z /\ m \in 0..Cols-1 /\ Below(p) = b
    BY <2>2 DEF z
  <2>4. Below(p) \in Nat /\ p < Below(p) /\ Below(p) <= z BY <1>1, <2>1, <2>3
  <2> QED BY <2>4 DEF z
<1> QED
  <2>1. Below(p) <= Size BY <1>9 DEF Size
  <2>2. Below(p) % Cols = 0 BY <1>7, <1>8
  <2> QED BY <1>9, <2>1, <2>2, SizeFacts

-----------------------------------------------------------------------------
(* The screen.                                                             *)

\* What a cell of the screen may hold.
Cells == Glyph \cup {Cursor, Nul}

\* A screen as the BDOS leaves it: the cursor is where it should be, and all
\* is blank behind it.
Good(s) ==
  /\ s.pos \in Cell /\ s.cell \in [Cell -> Cells]
  /\ s.cell[s.pos] = Cursor
  /\ \A p \in Cell : p > s.pos => s.cell[p] = " "

\* A screen before the cursor is drawn: everything from there on is blank.
Ahead(s) ==
  /\ s.pos \in 0..Size /\ s.cell \in [Cell -> Cells]
  /\ \A p \in Cell : p >= s.pos => s.cell[p] = " "

\* How many rows a screen moves up: none or one.
Lift(s) == IF s.pos > Size - 1 THEN Cols ELSE 0

\* Which characters there are.
LEMMA CellFacts ==
  /\ " " \in Cells /\ Cursor \in Cells /\ Nul \in Cells /\ Glyph \subseteq Cells
  /\ \A c \in Glyph : c \notin {"bs", "cr", "lf"}
  /\ " " \in Glyph
BY DEF Cells, Glyph, Cursor, Nul

\* A cell is a number below the size of the screen.
LEMMA InCell ==
  ASSUME LineSizes, NEW p
  PROVE  p \in Cell <=> p \in Nat /\ p < Size
BY SizeFacts DEF Cell

\* The cursor is in a cell.
LEMMA GoodPos ==
  ASSUME LineSizes, NEW s, Good(s)
  PROVE  s.pos \in Nat /\ s.pos < Size /\ s.pos \in Cell
<1>1. s.pos \in Cell BY DEF Good
<1> QED BY <1>1, InCell

\* Drawing the cursor, after a scroll if there is no room for it, makes a good
\* screen, and moves what was before the cursor up with it.
LEMMA SettledIs ==
  ASSUME LineSizes, NEW s, Ahead(s)
  PROVE  /\ Good(Settled(s))
         /\ Settled(s).pos = s.pos - Lift(s)
         /\ \A p \in Cell : p < s.pos /\ p >= Lift(s) => Settled(s).cell[p - Lift(s)] = s.cell[p]
<1> DEFINE t == IF s.pos > Size - 1 THEN Scrolled(s) ELSE s
           n == Lift(s)
<1>1. /\ Cols \in Nat /\ 0 < Cols /\ Size \in Nat /\ Cols <= Size /\ Cell = 0..Size-1
  BY SizeFacts
<1>2. t.pos = s.pos - n /\ t.pos \in Cell /\ n \in {0, Cols} /\ s.pos \in Nat /\ s.pos <= Size
  <2>1. s.pos \in Nat /\ s.pos <= Size
    <3>1. s.pos \in 0..Size BY DEF Ahead
    <3> QED BY <1>1, <3>1
  <2>2. CASE s.pos > Size - 1
    <3>1. t.pos = s.pos - Cols /\ n = Cols BY <2>2 DEF Scrolled, Lift
    <3>2. s.pos - Cols \in Nat /\ s.pos - Cols < Size BY <1>1, <2>1, <2>2
    <3> QED BY <2>1, <3>1, <3>2, InCell
  <2>3. CASE ~(s.pos > Size - 1)
    <3>1. t.pos = s.pos /\ n = 0 BY <2>3 DEF Lift
    <3>2. s.pos - 0 = s.pos /\ s.pos < Size BY <1>1, <2>1, <2>3
    <3> QED BY <2>1, <3>1, <3>2, InCell
  <2> QED BY <2>2, <2>3
<1>3. t.cell \in [Cell -> Cells] /\ \A p \in Cell : t.cell[p] = IF p + n < Size THEN s.cell[p + n] ELSE " "
  <2>1. CASE s.pos > Size - 1
    <3>1. t.cell = [i \in Cell |-> IF i + Cols < Size THEN s.cell[i + Cols] ELSE " "] /\ n = Cols
      BY <2>1 DEF Scrolled, Lift
    <3>2. \A i \in Cell : i + Cols < Size => i + Cols \in Cell BY <1>1
    <3> QED BY <3>1, <3>2, CellFacts DEF Ahead
  <2>2. CASE ~(s.pos > Size - 1)
    <3>1. t = s /\ n = 0 BY <2>2 DEF Lift
    <3>2. \A p \in Cell : p + 0 = p /\ p < Size BY <1>1
    <3> QED BY <3>1, <3>2 DEF Ahead
  <2> QED BY <2>1, <2>2
<1> HIDE DEF n
<1>4. Settled(s) = WithCursor(t) BY DEF Settled
<1> HIDE DEF t
<1>5. Settled(s).pos = t.pos /\ Settled(s).cell = [t.cell EXCEPT ![t.pos] = Cursor]
  BY <1>4 DEF WithCursor
<1>6. Settled(s).cell \in [Cell -> Cells] BY <1>2, <1>3, <1>5, CellFacts
<1>7. Settled(s).cell[t.pos] = Cursor BY <1>2, <1>3, <1>5
<1>8. \A p \in Cell : p # t.pos => Settled(s).cell[p] = t.cell[p] BY <1>3, <1>5
<1>9. ASSUME NEW p \in Cell, p > t.pos PROVE Settled(s).cell[p] = " "
  <2>1. Settled(s).cell[p] = t.cell[p] BY <1>1, <1>2, <1>8, <1>9
  <2>2. CASE p + n < Size
    <3>1. p \in Nat /\ t.pos \in Nat BY <1>2, InCell
    <3>2. n \in Nat BY <1>1, <1>2
    <3> DEFINE x == t.pos
               y == s.pos
    <3>3. x = y - n /\ x \in Nat /\ y \in Nat /\ p > x BY <1>2, <1>9, <3>1
    <3> HIDE DEF x, y
    <3>4. p + n \in Nat /\ p + n >= y BY <3>1, <3>2, <3>3
    <3>5. p + n \in Cell /\ p + n >= s.pos BY <2>2, <3>4, InCell DEF y
    <3> QED BY <1>3, <2>1, <2>2, <3>5 DEF Ahead
  <2> QED BY <1>3, <2>1, <2>2
<1>10. ASSUME NEW p \in Cell, p < s.pos, p >= n PROVE Settled(s).cell[p - n] = s.cell[p]
  <2>1. p \in Nat /\ p < Size /\ n \in Nat BY <1>1, <1>2, InCell
  <2> DEFINE x == t.pos
             y == s.pos
  <2>2. x = y - n /\ y \in Nat /\ p < y BY <1>2, <1>10
  <2> HIDE DEF x, y
  <2>3. p - n \in Nat /\ p - n < Size /\ p - n # x /\ (p - n) + n = p BY <1>1, <1>10, <2>1, <2>2
  <2>4. p - n \in Cell /\ p - n # t.pos BY <2>3, InCell DEF x
  <2> QED BY <1>3, <1>8, <2>1, <2>3, <2>4
<1> QED BY <1>2, <1>5, <1>6, <1>7, <1>9, <1>10 DEF Good, n

\* A character goes where the cursor was.
LEMMA PutGlyph ==
  ASSUME LineSizes, NEW s, Good(s), NEW c \in Glyph
  PROVE  LET t == PutChar(s, c)
             n == IF s.pos = Size - 1 THEN Cols ELSE 0
         IN  /\ Good(t) /\ t.pos = s.pos + 1 - n
             /\ \A p \in Cell : p < s.pos /\ p >= n => t.cell[p - n] = s.cell[p]
             /\ s.pos >= n => t.cell[s.pos - n] = c
<1> DEFINE x == s.pos
           u == [pos |-> x + 1, cell |-> [s.cell EXCEPT ![x] = c]]
<1>1. /\ Cols \in Nat /\ 0 < Cols /\ Size \in Nat /\ Cols <= Size
  BY SizeFacts
<1>2. PutChar(s, c) = Settled(u)
  <2>1. c # "bs" /\ c \notin {"cr", "lf"} BY CellFacts
  <2> QED BY <2>1, Zenon DEF PutChar
<1>3. /\ u.pos = x + 1 /\ u.cell \in [Cell -> Cells] /\ u.cell[x] = c
      /\ \A p \in Cell : p # x => u.cell[p] = s.cell[p]
  BY CellFacts DEF Good
<1>4. x \in Nat /\ x < Size /\ x \in Cell BY GoodPos
<1>5. \A p \in Cell : p > x => s.cell[p] = " " BY DEF Good
<1> HIDE DEF u, x
<1>6. Ahead(u)
  <2>1. u.pos \in 0..Size BY <1>1, <1>3, <1>4
  <2>2. ASSUME NEW p \in Cell, p >= u.pos PROVE u.cell[p] = " "
    <3>1. p \in Nat BY InCell
    <3>2. p > x /\ p # x BY <1>3, <1>4, <2>2, <3>1
    <3> QED BY <1>3, <1>5, <3>2
  <2> QED BY <1>3, <2>1, <2>2 DEF Ahead
<1> DEFINE t == Settled(u)
           n == Lift(u)
<1>7. n = IF x = Size - 1 THEN Cols ELSE 0 BY <1>1, <1>3, <1>4 DEF Lift
<1>8. /\ Good(t) /\ t.pos = u.pos - n
      /\ \A p \in Cell : p < u.pos /\ p >= n => t.cell[p - n] = u.cell[p]
  BY <1>6, SettledIs
<1> HIDE DEF t, n
<1>9. \A p \in Cell : p < x => p < u.pos /\ p # x
  <2> SUFFICES ASSUME NEW p \in Cell, p < x PROVE p < u.pos /\ p # x OBVIOUS
  <2>1. p \in Nat BY InCell
  <2> QED BY <1>3, <1>4, <2>1
<1>10. x < u.pos BY <1>3, <1>4
<1>11. \A p \in Cell : p < x /\ p >= n => t.cell[p - n] = s.cell[p] BY <1>3, <1>8, <1>9
<1>12. x >= n => t.cell[x - n] = c BY <1>3, <1>4, <1>8, <1>10
<1>13. t.pos = x + 1 - n
  <2>1. t.pos = u.pos - n /\ u.pos = x + 1 BY <1>3, <1>8
  <2> DEFINE y == u.pos
             z == t.pos
  <2>2. z = y - n /\ y = x + 1 BY <2>1
  <2> HIDE DEF y, z
  <2>3. n \in Int /\ x \in Int BY <1>1, <1>4, <1>7
  <2>4. z = x + 1 - n BY <2>2, <2>3
  <2> QED BY <2>4 DEF z
<1> QED BY <1>2, <1>7, <1>8, <1>11, <1>12, <1>13 DEF t, n, x

\* A line break.
LEMMA PutBreak ==
  ASSUME LineSizes, NEW s, Good(s), NEW c \in {"cr", "lf"}
  PROVE  Good(PutChar(s, c)) /\ PutChar(s, c).pos % Cols = 0
<1> DEFINE b == Below(s.pos)
           u == [pos |-> b, cell |-> [s.cell EXCEPT ![s.pos] = Nul]]
<1>1. /\ Cols \in Nat /\ 0 < Cols /\ Size \in Nat /\ Cols <= Size /\ Cell = 0..Size-1 /\ Size % Cols = 0
  BY SizeFacts
<1>2. PutChar(s, c) = Settled(u)
  <2>1. c # "bs" BY CellFacts
  <2> QED BY <2>1, Zenon DEF PutChar, Below
<1>3. /\ b \in Nat /\ s.pos < b /\ b <= Size /\ b % Cols = 0 /\ (b > Size - 1 => b = Size)
  BY BelowIs DEF Good
<1> HIDE DEF b
<1>4. /\ u.pos = b /\ u.cell \in [Cell -> Cells]
      /\ \A p \in Cell : p # s.pos => u.cell[p] = s.cell[p]
  BY CellFacts DEF Good
<1> HIDE DEF u
<1>5. Ahead(u)
  <2>1. ASSUME NEW p \in Cell, p >= b PROVE p # s.pos /\ p > s.pos
    <3>1. p \in Nat BY InCell
    <3> DEFINE x == s.pos
    <3>2. x \in Nat /\ x < b BY <1>3, GoodPos
    <3> HIDE DEF x
    <3>3. p # x /\ p > x BY <1>3, <2>1, <3>1, <3>2
    <3> QED BY <3>3 DEF x
  <2>2. b \in 0..Size BY <1>1, <1>3
  <2> QED BY <1>4, <2>1, <2>2 DEF Good, Ahead
<1>6. Good(Settled(u)) /\ Settled(u).pos = b - Lift(u) BY <1>4, <1>5, SettledIs
<1>7. (b - Lift(u)) % Cols = 0
  <2>1. CASE b > Size - 1
    <3>1. b - Lift(u) = b - Cols BY <1>4, <2>1 DEF Lift
    <3>2. b \in Int BY <1>3
    <3> QED BY <1>3, <3>1, <3>2, RowLess
  <2>2. CASE ~(b > Size - 1)
    <3>1. b - Lift(u) = b BY <1>3, <1>4, <2>2 DEF Lift
    <3> QED BY <1>3, <3>1
  <2> QED BY <2>1, <2>2
<1> QED BY <1>2, <1>6, <1>7

\* A backspace, and a step of BACKUP.
LEMMA PutBack ==
  ASSUME LineSizes, NEW s, Good(s), s.pos # 0
  PROVE  LET t == PutChar(s, "bs")
         IN  /\ Good(t) /\ t.pos = s.pos - 1
             /\ \A p \in Cell : p < t.pos => t.cell[p] = s.cell[p]
<1> DEFINE x == s.pos
           y == (x - 1) % Word16
           c == [s.cell EXCEPT ![x] = " "]
<1>1. x \in Nat /\ x < Size /\ x \in Cell /\ x # 0 /\ Size \in Nat /\ Size < 65536
  BY GoodPos, SizeFacts
<1>2. PutChar(s, "bs") = WithCursor([pos |-> y, cell |-> c]) BY Zenon DEF PutChar
<1>3. c \in [Cell -> Cells] /\ c[x] = " " /\ \A p \in Cell : p # x => c[p] = s.cell[p]
  BY CellFacts DEF Good
<1>4. \A p \in Cell : p > x => s.cell[p] = " " BY DEF Good
<1> HIDE DEF x, c
<1>5. y = x - 1 /\ y \in Nat /\ y < Size
  <2> DEFINE z == x - 1
  <2>1. z \in Nat /\ z < 65536 /\ z < Size BY <1>1
  <2>2. z % Word16 = z
    <3> HIDE DEF z
    <3> QED BY <2>1, InWord16
  <2> QED BY <2>1, <2>2
<1> HIDE DEF y
<1> DEFINE t == WithCursor([pos |-> y, cell |-> c])
<1>6. t.pos = y /\ t.cell = [c EXCEPT ![y] = Cursor] BY DEF WithCursor
<1> HIDE DEF t
<1>7. y \in Cell BY <1>5, InCell
<1>8. /\ t.cell \in [Cell -> Cells] /\ t.cell[y] = Cursor
      /\ \A p \in Cell : p # y => t.cell[p] = c[p]
  BY <1>3, <1>6, <1>7, CellFacts
<1>9. ASSUME NEW p \in Cell, p > y PROVE t.cell[p] = " "
  <2>1. p \in Nat BY InCell
  <2>2. p # y /\ (p = x \/ p > x) BY <1>1, <1>5, <1>9, <2>1
  <2>3. p # x => c[p] = s.cell[p] BY <1>3
  <2> QED BY <1>3, <1>4, <1>8, <2>2, <2>3
<1>10. ASSUME NEW p \in Cell, p < y PROVE t.cell[p] = s.cell[p]
  <2>1. p \in Nat BY InCell
  <2>2. p # y /\ p # x BY <1>1, <1>5, <1>10, <2>1
  <2> QED BY <1>3, <1>8, <2>2
<1>11. Good(t) BY <1>6, <1>7, <1>8, <1>9 DEF Good
<1> QED BY <1>2, <1>5, <1>6, <1>10, <1>11 DEF t, x

\* A step of BACKUP moves the cursor one cell and leaves what is before it.
LEMMA BackStepIs ==
  ASSUME LineSizes, NEW s, Good(s), s.pos # 0, NEW i
  PROVE  LET t == BackStep(s, i)
         IN  /\ Good(t) /\ t.pos = s.pos - 1
             /\ \A p \in Cell : p < t.pos => t.cell[p] = s.cell[p]
<1> DEFINE a == PutChar(s, "bs")
           b == PutChar(a, " ")
           t == PutChar(b, "bs")
           x == s.pos
           y == a.pos
<1>1. x \in Nat /\ x < Size /\ x # 0 /\ Size \in Nat BY GoodPos, SizeFacts
<1>2. Good(a) /\ y = x - 1 /\ \A p \in Cell : p < y => a.cell[p] = s.cell[p]
  BY PutBack
<1> HIDE DEF a
<1>3. LET n == IF a.pos = Size - 1 THEN Cols ELSE 0
      IN  /\ Good(b) /\ b.pos = a.pos + 1 - n
          /\ \A p \in Cell : p < a.pos /\ p >= n => b.cell[p - n] = a.cell[p]
  BY <1>2, PutGlyph, CellFacts
<1> HIDE DEF b
<1>4. y # Size - 1 /\ y \in Nat
  <2> HIDE DEF x, y
  <2> QED BY <1>1, <1>2
<1>5. Good(b) /\ b.pos = y + 1 - 0 /\ \A p \in Cell : p < y /\ p >= 0 => b.cell[p - 0] = a.cell[p]
  BY <1>3, <1>4
<1> HIDE DEF y, x
<1>6. Good(b) /\ b.pos = x /\ \A p \in Cell : p < y => b.cell[p] = a.cell[p]
  <2>1. y + 1 - 0 = x BY <1>1, <1>2
  <2>2. \A p \in Cell : p >= 0 /\ p - 0 = p BY InCell
  <2> QED BY <1>5, <2>1, <2>2
<1>7. Good(t) /\ t.pos = b.pos - 1 /\ \A p \in Cell : p < t.pos => t.cell[p] = b.cell[p]
  <2>1. b.pos # 0 BY <1>1, <1>6
  <2> QED BY <1>6, <2>1, PutBack
<1> HIDE DEF t
<1>8. t.pos = x - 1 /\ t.pos = y BY <1>2, <1>6, <1>7
<1>9. \A p \in Cell : p < t.pos => t.cell[p] = s.cell[p] BY <1>2, <1>6, <1>7, <1>8
<1>10. BackStep(s, i) = t BY DEF BackStep, t, b, a
<1> QED BY <1>7, <1>8, <1>9, <1>10 DEF x

\* BACKUP is a fold of its steps.
LEMMA BackupFold ==
  ASSUME NEW s, NEW n PROVE Backup(s, n) = BU!Fold(s, [i \in 1..n |-> i])
BY DEF Backup, BU!Fold, BU!FoldLeft, FoldLeft, BU!MapThenFoldSet, MapThenFoldSet, BU!Max, Max

\* No steps back change nothing.
LEMMA BackupNone == ASSUME NEW s PROVE Backup(s, 0) = s
<1> DEFINE f == [i \in 1..0 |-> i]
<1>1. DOMAIN f = {} OBVIOUS
<1>2. Backup(s, 0) = BU!Fold(s, f) BY BackupFold
<1> HIDE DEF f
<1> QED BY <1>1, <1>2, BU!FoldEmpty

\* One step back more.
LEMMA BackupOn ==
  ASSUME NEW s, NEW n \in Nat PROVE Backup(s, n + 1) = BackStep(Backup(s, n), n + 1)
<1> DEFINE m == n + 1
           f == [i \in 1..n |-> i]
           g == [i \in 1..m |-> i]
<1>1. DOMAIN f = 1..n /\ DOMAIN g = 1..n+1 /\ g[n+1] = n + 1 /\ \A i \in 1..n : f[i] = g[i]
  OBVIOUS
<1>2. Backup(s, m) = BU!Fold(s, g) /\ Backup(s, n) = BU!Fold(s, f) BY BackupFold
<1> HIDE DEF f, g
<1>3. BU!Fold(s, g) = BackStep(BU!Fold(s, f), g[n+1]) BY <1>1, BU!FoldOn
<1> QED BY <1>1, <1>2, <1>3

\* n steps back leave what is before the cursor as it was.
LEMMA BackupIs ==
  ASSUME LineSizes, NEW s, Good(s), NEW n \in Nat, n <= s.pos
  PROVE  LET t == Backup(s, n)
         IN  /\ Good(t) /\ t.pos = s.pos - n
             /\ \A p \in Cell : p < t.pos => t.cell[p] = s.cell[p]
<1> DEFINE x == s.pos
           Back(k) == LET t == Backup(s, k)
                      IN  /\ Good(t) /\ t.pos = x - k
                          /\ \A p \in Cell : p < t.pos => t.cell[p] = s.cell[p]
           N == {k \in Nat : k <= x => Back(k)}
<1>1. x \in Nat BY GoodPos
<1>2. 0 \in N
  <2>1. x - 0 = x BY <1>1
  <2> QED BY <2>1, BackupNone
<1>3. ASSUME NEW k \in Nat, k \in N PROVE k + 1 \in N
  <2> SUFFICES ASSUME k + 1 <= x PROVE Back(k + 1)
    OBVIOUS
  <2> DEFINE a == Backup(s, k)
             b == BackStep(a, k + 1)
             y == a.pos
  <2>1. Good(a) /\ y = x - k /\ \A p \in Cell : p < y => a.cell[p] = s.cell[p]
    <3>1. k <= x
      <4> HIDE DEF x
      <4> QED BY <1>1
    <3> QED BY <1>3, <3>1
  <2> HIDE DEF a
  <2>2. y # 0 /\ y \in Nat
    <3> HIDE DEF x, y
    <3> QED BY <1>1, <2>1
  <2>3. Good(b) /\ b.pos = y - 1 /\ \A p \in Cell : p < b.pos => b.cell[p] = a.cell[p]
    BY <2>1, <2>2, BackStepIs
  <2> HIDE DEF b, x, y
  <2>4. b.pos = x - (k + 1) /\ \A p \in Cell : p < b.pos => p < y
    <3>1. b.pos = x - (k + 1) BY <1>1, <2>1, <2>2, <2>3
    <3>2. ASSUME NEW p \in Cell, p < b.pos PROVE p < y
      <4> DEFINE z == b.pos
      <4>1. z = y - 1 /\ p < z BY <2>3, <3>2
      <4>2. p \in Nat BY InCell
      <4> HIDE DEF z
      <4> QED BY <2>2, <4>1, <4>2
    <3> QED BY <3>1, <3>2
  <2>5. \A p \in Cell : p < b.pos => b.cell[p] = s.cell[p] BY <2>1, <2>3, <2>4
  <2>6. Backup(s, k + 1) = b BY BackupOn DEF a, b
  <2> QED BY <2>3, <2>4, <2>5, <2>6
<1>4. n \in N
  <2> HIDE DEF N
  <2> QED BY <1>2, <1>3, BU!NatSet
<1> QED BY <1>4

-----------------------------------------------------------------------------
(* Output by the BDOS.                                                     *)

\* The text t stands just before the cursor.
Written(s, t) == Len(t) <= s.pos /\ \A i \in 1..Len(t) : s.cell[s.pos - Len(t) + i - 1] = t[i]

\* The cursor is in column n, rows joined.
Column(s, n) == n <= s.pos /\ (s.pos - n) % Cols = 0

\* A character that is put joins the text before the cursor.
LEMMA PutTail ==
  ASSUME LineSizes, NEW s, Good(s), NEW c \in Glyph, NEW t \in Seq(Glyph), Len(t) + 1 < Byte, Written(s, t)
  PROVE  Written(PutChar(s, c), Append(t, c))
<1> DEFINE x == s.pos
           n == IF x = Size - 1 THEN Cols ELSE 0
           v == PutChar(s, c)
           y == v.pos
           l == Len(t)
<1>1. x \in Nat /\ x < Size /\ n \in Nat /\ l \in Nat /\ l <= x /\ l + 1 < Byte
      /\ Size \in Nat /\ Byte \in Nat /\ Byte + Cols <= Size /\ Cols \in Nat /\ 0 < Cols
  BY GoodPos, SizeFacts DEF Written
<1>2. /\ y = x + 1 - n
      /\ \A p \in Cell : p < x /\ p >= n => v.cell[p - n] = s.cell[p]
      /\ x >= n => v.cell[x - n] = c
  BY PutGlyph
<1>3. \A i \in 1..l : s.cell[x - l + i - 1] = t[i] BY DEF Written
<1> DEFINE w == Append(t, c)
<1>4. Len(w) = l + 1 /\ w[l + 1] = c /\ \A i \in 1..l : w[i] = t[i] OBVIOUS
<1>5. n = 0 \/ (n = Cols /\ x = Size - 1) OBVIOUS
<1> HIDE DEF x, n, v, l, w
<1>6. x >= n /\ y \in Nat /\ l + 1 <= y /\ (n # 0 => x - l >= n)
  <2> HIDE DEF y
  <2> QED BY <1>1, <1>2, <1>5
<1>7. ASSUME NEW i \in 1..l+1 PROVE v.cell[y - (l + 1) + i - 1] = w[i]
  <2> HIDE DEF y
  <2>1. CASE i = l + 1
    <3>1. y - (l + 1) + i - 1 = x - n BY <1>1, <1>2, <2>1
    <3> QED BY <1>2, <1>4, <1>6, <2>1, <3>1
  <2>2. CASE i # l + 1
    <3> DEFINE p == x - l + i - 1
    <3>1. i \in 1..l BY <1>1, <2>2
    <3>2. p \in Nat /\ p < Size /\ p < x /\ p >= n BY <1>1, <1>6, <3>1
    <3>3. y - (l + 1) + i - 1 = p - n BY <1>1, <1>2, <3>1
    <3>4. s.cell[p] = t[i] BY <1>3, <3>1
    <3> HIDE DEF p
    <3>5. p \in Cell BY <3>2, InCell
    <3>6. v.cell[p - n] = s.cell[p] BY <1>2, <3>2, <3>5
    <3> QED BY <1>4, <3>1, <3>3, <3>4, <3>6
  <2> QED BY <2>1, <2>2
<1>8. Written(v, w)
  <2>1. Len(w) <= v.pos BY <1>4, <1>6
  <2>2. \A i \in 1..Len(w) : v.cell[v.pos - Len(w) + i - 1] = w[i] BY <1>4, <1>7
  <2> QED BY <2>1, <2>2 DEF Written
<1> QED BY <1>8 DEF v, w

\* One column further on, also over the end of a row and of the screen.
LEMMA PutColumn ==
  ASSUME LineSizes, NEW s, Good(s), NEW c \in Glyph, NEW k \in Nat, k + 1 < Byte, Column(s, k)
  PROVE  Column(PutChar(s, c), k + 1)
<1> DEFINE x == s.pos
           n == IF x = Size - 1 THEN Cols ELSE 0
           v == PutChar(s, c)
           y == v.pos
<1>1. x \in Nat /\ x < Size /\ n \in Nat
      /\ Size \in Nat /\ Byte \in Nat /\ Byte + Cols <= Size /\ Cols \in Nat /\ 0 < Cols
  BY GoodPos, SizeFacts
<1>2. y = x + 1 - n BY PutGlyph
<1>3. n = 0 \/ (n = Cols /\ x = Size - 1) OBVIOUS
<1>4. k <= x /\ (x - k) % Cols = 0 BY DEF Column
<1> HIDE DEF x, n, v, y
<1>5. k + 1 <= y BY <1>1, <1>2, <1>3, <1>4
<1>6. (y - (k + 1)) % Cols = 0
  <2>1. y - (k + 1) = (x - k) - n BY <1>1, <1>2
  <2>2. CASE n = 0
    <3>1. y - (k + 1) = x - k BY <1>1, <2>1, <2>2
    <3> QED BY <1>4, <3>1
  <2>3. CASE n = Cols
    <3>1. y - (k + 1) = (x - k) - Cols /\ x - k \in Int BY <1>1, <2>1, <2>3
    <3> QED BY <1>4, <3>1, RowLess
  <2> QED BY <1>3, <2>2, <2>3
<1> QED BY <1>5, <1>6 DEF Column, y, v

\* What output works on, as it should be.
GoodOut(u) ==
  /\ u.cur \in Nat /\ u.mute \in Nat
  /\ u.mute = 0 => Good(u.screen) /\ Column(u.screen, u.cur)

\* v is u after the characters g, t having stood before the cursor.
Wrote(u, v, g, t) ==
  /\ GoodOut(v)
  /\ v.cur = u.cur + Len(g)
  /\ v.mute = u.mute
  /\ u.mute # 0 => v.screen = u.screen
  /\ u.mute = 0 /\ Written(u.screen, t) => Written(v.screen, t \o g)

\* A character that is written is counted, and put unless output is muted.
LEMMA OutGlyph ==
  ASSUME LineSizes, NEW u, GoodOut(u), NEW c \in Glyph, u.cur + 1 < Byte,
         NEW t \in Seq(Glyph), Len(t) <= u.cur
  PROVE  LET v == OutChar(u, c)
         IN  /\ GoodOut(v) /\ v.cur = u.cur + 1 /\ v.mute = u.mute
             /\ u.mute # 0 => v.screen = u.screen
             /\ u.mute = 0 /\ Written(u.screen, t) => Written(v.screen, Append(t, c))
<1> DEFINE k == u.cur
           v == OutChar(u, c)
<1>1. k \in Nat /\ k + 1 < Byte /\ Byte \in Nat BY SizeFacts DEF GoodOut
<1>2. Moved(k, c) = k + 1
  <2>1. (k + 1) % Byte = k + 1
    <3> HIDE DEF k
    <3> QED BY <1>1
  <2>2. c # "bs" /\ c # "lf" BY CellFacts
  <2> HIDE DEF k
  <2> QED BY <2>1, <2>2, Zenon DEF Moved
<1>3. v.cur = k + 1 /\ v.mute = u.mute /\ v.screen = IF u.mute = 0 THEN PutChar(u.screen, c) ELSE u.screen
  BY <1>2 DEF OutChar
<1>4. CASE u.mute # 0
  <2>1. GoodOut(v) BY <1>1, <1>3, <1>4 DEF GoodOut
  <2> HIDE DEF v
  <2> QED BY <1>3, <1>4, <2>1 DEF v
<1>5. CASE u.mute = 0
  <2> DEFINE s == u.screen
  <2>1. Good(s) /\ Column(s, k) BY <1>5 DEF GoodOut
  <2>2. v.screen = PutChar(s, c) BY <1>3, <1>5
  <2> HIDE DEF v, s, k
  <2>3. Good(PutChar(s, c)) BY <2>1, PutGlyph
  <2>4. Column(PutChar(s, c), k + 1) BY <1>1, <2>1, PutColumn
  <2>5. k + 1 \in Nat BY <1>1
  <2>6. GoodOut(v) BY <1>3, <1>5, <2>2, <2>3, <2>4, <2>5 DEF GoodOut
  <2>7. Written(s, t) => Written(PutChar(s, c), Append(t, c))
    <3>1. Len(t) + 1 < Byte BY <1>1 DEF k
    <3> QED BY <2>1, <3>1, PutTail
  <2> QED BY <1>3, <1>5, <2>2, <2>6, <2>7 DEF v, s, k
<1> QED BY <1>4, <1>5

\* Output is a fold of its characters.
LEMMA OutFold ==
  ASSUME NEW u, NEW g PROVE OutAll(u, g) = OC!Fold(u, g)
BY DEF OutAll, OC!Fold, OC!FoldLeft, FoldLeft, OC!MapThenFoldSet, MapThenFoldSet, OC!Max, Max

\* No output changes nothing.
LEMMA OutNone == ASSUME NEW u, NEW g, DOMAIN g = {} PROVE OutAll(u, g) = u
BY OutFold, OC!FoldEmpty

\* One character more is output.
LEMMA OutOn ==
  ASSUME NEW u, NEW n \in Nat, NEW f, DOMAIN f = 1..n, NEW g, DOMAIN g = 1..n+1,
         \A i \in 1..n : f[i] = g[i]
  PROVE  OutAll(u, g) = OutChar(OutAll(u, f), g[n + 1])
<1>1. OC!Fold(u, g) = OutChar(OC!Fold(u, f), g[n + 1]) BY OC!FoldOn
<1> QED BY <1>1, OutFold

\* A text that gets longer by one character, behind another text.
LEMMA Onward ==
  ASSUME NEW S, NEW t \in Seq(S), NEW f \in Seq(S), NEW c \in S
  PROVE  /\ t \o f \in Seq(S) /\ Len(t \o f) = Len(t) + Len(f)
         /\ t \o Append(f, c) = Append(t \o f, c)
<1> DEFINE a == t \o Append(f, c)
           b == Append(t \o f, c)
<1>1. t \o f \in Seq(S) /\ Len(t \o f) = Len(t) + Len(f) OBVIOUS
<1>2. a \in Seq(S) /\ b \in Seq(S) /\ Len(a) = Len(b) /\ \A i \in 1..Len(a) : a[i] = b[i]
  OBVIOUS
<1>3. a = b
  <2> HIDE DEF a, b
  <2> QED BY <1>2
<1> QED BY <1>1, <1>3

\* A text is written at the cursor, and only there.
LEMMA OutGlyphs ==
  ASSUME LineSizes, NEW u, GoodOut(u), NEW g \in Seq(Glyph), u.cur + Len(g) < Byte,
         NEW t \in Seq(Glyph), Len(t) <= u.cur
  PROVE  Wrote(u, OutAll(u, g), g, t)
<1> DEFINE k == u.cur
           N == {n \in Nat : \A h \in Seq(Glyph) : Len(h) = n /\ k + n < Byte => Wrote(u, OutAll(u, h), h, t)}
<1>1. k \in Nat /\ Len(t) <= k /\ Byte \in Nat BY SizeFacts DEF GoodOut
<1>2. 0 \in N
  <2> SUFFICES ASSUME NEW h \in Seq(Glyph), Len(h) = 0 PROVE Wrote(u, OutAll(u, h), h, t)
    OBVIOUS
  <2>1. h = <<>> /\ DOMAIN h = {} OBVIOUS
  <2>2. OutAll(u, h) = u BY <2>1, OutNone
  <2>3. t \o h = t /\ k + Len(h) = k BY <1>1, <2>1
  <2> QED BY <2>2, <2>3 DEF Wrote
<1>3. ASSUME NEW n \in Nat, n \in N PROVE n + 1 \in N
  <2> SUFFICES ASSUME NEW h \in Seq(Glyph), Len(h) = n + 1, k + (n + 1) < Byte
               PROVE  Wrote(u, OutAll(u, h), h, t)
    OBVIOUS
  <2> DEFINE f == [i \in 1..n |-> h[i]]
             c == h[n + 1]
             v == OutAll(u, f)
             w == OutAll(u, h)
  <2>1. f \in Seq(Glyph) /\ Len(f) = n /\ DOMAIN f = 1..n /\ DOMAIN h = 1..n+1 /\ \A i \in 1..n : f[i] = h[i]
    OBVIOUS
  <2>2. c \in Glyph /\ h = Append(f, c) BY <2>1
  <2> HIDE DEF f, c
  <2>3. k + n < Byte
    <3> HIDE DEF k
    <3> QED BY <1>1
  <2>4. Wrote(u, v, f, t) BY <1>3, <2>1, <2>3
  <2>5. w = OutChar(v, c) BY <2>1, OutOn DEF c
  <2>6. v.cur = k + n /\ v.mute = u.mute /\ GoodOut(v) BY <2>1, <2>4 DEF Wrote
  <2> DEFINE tf == t \o f
             j == v.cur
  <2>7. tf \in Seq(Glyph) /\ Len(tf) = Len(t) + n /\ t \o h = Append(tf, c)
    BY <2>1, <2>2, Onward
  <2> HIDE DEF v, w, tf
  <2>8. j + 1 < Byte /\ Len(tf) <= j
    <3> HIDE DEF j, k
    <3>1. j = k + n BY <2>6 DEF j, k
    <3>2. Len(t) \in Nat OBVIOUS
    <3> QED BY <1>1, <2>7, <3>1, <3>2
  <2>9. /\ GoodOut(w) /\ w.cur = j + 1 /\ w.mute = v.mute
        /\ v.mute # 0 => w.screen = v.screen
        /\ v.mute = 0 /\ Written(v.screen, tf) => Written(w.screen, Append(tf, c))
    BY <2>2, <2>5, <2>6, <2>7, <2>8, OutGlyph
  <2>10. w.cur = k + Len(h)
    <3> HIDE DEF k
    <3>1. j = k + n BY <2>6 DEF k
    <3> QED BY <1>1, <2>9, <3>1
  <2>11. u.mute = 0 /\ Written(u.screen, t) => Written(w.screen, t \o h)
    BY <2>4, <2>6, <2>7, <2>9 DEF Wrote, tf
  <2>12. u.mute # 0 => w.screen = u.screen BY <2>4, <2>6, <2>9 DEF Wrote
  <2>13. Wrote(u, w, h, t) BY <2>6, <2>9, <2>10, <2>11, <2>12 DEF Wrote
  <2> QED BY <2>13 DEF w
<1>4. Len(g) \in N
  <2> HIDE DEF N
  <2>1. Len(g) \in Nat OBVIOUS
  <2> QED BY <1>2, <1>3, <2>1, OC!NatSet
<1> QED BY <1>4

-----------------------------------------------------------------------------
(* Line breaks.                                                            *)

\* What output works on, whatever the columns are.
Fit(u) == u.cur \in 0..Byte-1 /\ u.mute \in Nat /\ (u.mute = 0 => Good(u.screen))

\* OutOn, for given lengths and results.
LEMMA OutMore ==
  ASSUME NEW u, NEW n \in Nat, NEW m, m = n + 1, NEW f, DOMAIN f = 1..n, NEW g, DOMAIN g = 1..m,
         \A i \in 1..n : f[i] = g[i], NEW v, v = OutAll(u, f), NEW c, c = g[m]
  PROVE  OutAll(u, g) = OutChar(v, c)
BY OutOn

\* Output of one character.
LEMMA OutOne == ASSUME NEW u, NEW a PROVE OutAll(u, <<a>>) = OutChar(u, a)
<1> DEFINE f == << >>
           g == <<a>>
           n == 0
           m == 1
<1>1. DOMAIN f = {} /\ DOMAIN f = 1..n /\ DOMAIN g = 1..m /\ g[m] = a OBVIOUS
<1>2. n \in Nat /\ m = n + 1 /\ \A i \in 1..n : FALSE OBVIOUS
<1> HIDE DEF f, g, n, m
<1>3. \A i \in 1..n : f[i] = g[i] BY <1>2
<1>4. OutAll(u, f) = u BY <1>1, OutNone
<1>5. OutAll(u, g) = OutChar(u, a) BY <1>1, <1>2, <1>3, <1>4, OutMore
<1> QED BY <1>5 DEF g

\* Output of two characters.
LEMMA OutTwo == ASSUME NEW u, NEW a, NEW b PROVE OutAll(u, <<a, b>>) = OutChar(OutChar(u, a), b)
<1> DEFINE f == <<a>>
           g == <<a, b>>
           n == 1
           m == 2
<1>1. DOMAIN f = 1..n /\ DOMAIN g = 1..m /\ g[m] = b OBVIOUS
<1>2. f[1] = a /\ g[1] = a /\ n \in Nat /\ m = n + 1 /\ \A i \in 1..n : i = 1 OBVIOUS
<1>3. OutAll(u, f) = OutChar(u, a) BY OutOne
<1> HIDE DEF f, g, n, m
<1>4. \A i \in 1..n : f[i] = g[i] BY <1>2
<1>5. OutAll(u, g) = OutChar(OutChar(u, a), b) BY <1>1, <1>2, <1>3, <1>4, OutMore
<1> QED BY <1>5 DEF g

\* Output of three characters.
LEMMA OutThree ==
  ASSUME NEW u, NEW a, NEW b, NEW c
  PROVE  OutAll(u, <<a, b, c>>) = OutChar(OutChar(OutChar(u, a), b), c)
<1> DEFINE f == <<a, b>>
           g == <<a, b, c>>
           n == 2
           m == 3
<1>1. DOMAIN f = 1..n /\ DOMAIN g = 1..m /\ g[m] = c OBVIOUS
<1>2. f[1] = a /\ g[1] = a /\ f[2] = b /\ g[2] = b /\ n \in Nat /\ m = n + 1 /\ \A i \in 1..n : i = 1 \/ i = 2
  OBVIOUS
<1>3. OutAll(u, f) = OutChar(OutChar(u, a), b) BY OutTwo
<1> HIDE DEF f, g, n, m
<1>4. \A i \in 1..n : f[i] = g[i] BY <1>2
<1>5. OutAll(u, g) = OutChar(OutChar(OutChar(u, a), b), c) BY <1>1, <1>2, <1>3, <1>4, OutMore
<1> QED BY <1>5 DEF g

\* A character leaves a good screen, though the count of columns may go round.
LEMMA OutFit ==
  ASSUME LineSizes, NEW u, Fit(u), NEW c \in Glyph
  PROVE  LET v == OutChar(u, c)
         IN  Fit(v) /\ v.mute = u.mute /\ (u.mute # 0 => v.screen = u.screen)
<1> DEFINE k == u.cur
           v == OutChar(u, c)
<1>1. k \in Nat /\ k < Byte /\ Byte \in Nat /\ 0 < Byte BY LineAssumption DEF Fit
<1>2. Moved(k, c) = (k + 1) % Byte
  <2>1. c # "bs" /\ c # "lf" BY CellFacts
  <2> HIDE DEF k
  <2> QED BY <2>1, Zenon DEF Moved
<1>3. (k + 1) % Byte \in 0..Byte-1
  <2> HIDE DEF k
  <2> QED BY <1>1
<1>4. v.cur \in 0..Byte-1 /\ v.mute = u.mute /\ v.screen = IF u.mute = 0 THEN PutChar(u.screen, c) ELSE u.screen
  BY <1>2, <1>3 DEF OutChar
<1>5. u.mute = 0 => Good(PutChar(u.screen, c)) BY PutGlyph DEF Fit
<1> HIDE DEF v
<1> QED BY <1>4, <1>5 DEF Fit, v

\* CR and LF leave the cursor at the start of a row; LF sets the count back.
LEMMA OutBreak ==
  ASSUME LineSizes, NEW u, Fit(u), NEW c \in {"cr", "lf"}
  PROVE  LET v == OutChar(u, c)
         IN  /\ Fit(v) /\ v.mute = u.mute /\ (u.mute # 0 => v.screen = u.screen)
             /\ u.mute = 0 => v.screen.pos % Cols = 0
             /\ c = "lf" => v.cur = 0
<1> DEFINE k == u.cur
           v == OutChar(u, c)
<1>1. k \in Nat /\ k < Byte /\ Byte \in Nat /\ 0 < Byte BY LineAssumption DEF Fit
<1>2. c \notin Glyph /\ c # "bs" BY CellFacts
<1>3. c # "lf" => Moved(k, c) = k
  <2> HIDE DEF k
  <2> QED BY <1>2, Zenon DEF Moved
<1>4. c = "lf" => Moved(k, c) = 0
  <2> HIDE DEF k
  <2> QED BY <1>2, Zenon DEF Moved
<1>5. Moved(k, c) \in 0..Byte-1 BY <1>1, <1>3, <1>4
<1>6. v.cur = Moved(k, c) /\ v.mute = u.mute /\ v.screen = IF u.mute = 0 THEN PutChar(u.screen, c) ELSE u.screen
  BY DEF OutChar
<1>7. u.mute = 0 => Good(PutChar(u.screen, c)) /\ PutChar(u.screen, c).pos % Cols = 0
  BY PutBreak DEF Fit
<1> HIDE DEF v
<1>8. Fit(v) BY <1>5, <1>6, <1>7 DEF Fit
<1> QED BY <1>4, <1>6, <1>7, <1>8 DEF v

\* At the start of a row, in column 0, all is as it should be.
LEMMA RowStart ==
  ASSUME LineSizes, NEW v, Fit(v), v.cur = 0, v.mute = 0 => v.screen.pos % Cols = 0
  PROVE  GoodOut(v)
<1>1. v.mute \in Nat /\ (v.mute = 0 => Good(v.screen)) /\ v.cur \in Nat BY DEF Fit
<1>2. ASSUME v.mute = 0 PROVE Column(v.screen, 0)
  <2> DEFINE x == v.screen.pos
  <2>1. x \in Nat /\ x % Cols = 0 BY <1>1, <1>2, GoodPos
  <2> HIDE DEF x
  <2>2. x - 0 = x /\ 0 <= x BY <2>1
  <2> QED BY <2>1, <2>2 DEF Column, x
<1> QED BY <1>1, <1>2 DEF GoodOut

\* OUTCRLF sets column and cursor right, whatever they were.
LEMMA NewRow ==
  ASSUME LineSizes, NEW u, Fit(u)
  PROVE  LET v == OutAll(u, <<"cr", "lf">>)
         IN  GoodOut(v) /\ v.cur = 0 /\ v.mute = u.mute /\ (u.mute # 0 => v.screen = u.screen)
<1> DEFINE a == OutChar(u, "cr")
           v == OutChar(a, "lf")
<1>1. Fit(a) /\ a.mute = u.mute /\ (u.mute # 0 => a.screen = u.screen) BY OutBreak
<1> HIDE DEF a
<1>2. /\ Fit(v) /\ v.mute = a.mute /\ (a.mute # 0 => v.screen = a.screen)
      /\ a.mute = 0 => v.screen.pos % Cols = 0
      /\ v.cur = 0
  BY <1>1, OutBreak
<1> HIDE DEF v
<1>3. GoodOut(v) BY <1>1, <1>2, RowStart
<1>4. OutAll(u, <<"cr", "lf">>) = v BY OutTwo DEF v, a
<1> QED BY <1>1, <1>2, <1>3, <1>4

\* So many blanks.
LEMMA BlanksAre ==
  ASSUME NEW n \in Nat PROVE Blanks(n) \in Seq(Glyph) /\ Len(Blanks(n)) = n
<1> DEFINE b == " "
           g == [i \in 1..n |-> b]
<1>1. b \in Glyph BY CellFacts
<1> HIDE DEF b
<1>2. g \in Seq(Glyph) /\ Len(g) = n BY <1>1
<1> QED BY <1>2 DEF Blanks, b

\* The empty text stands before every cursor.
LEMMA NoTail == ASSUME LineSizes, NEW s, Good(s) PROVE Written(s, <<>>)
<1> DEFINE x == s.pos
           t == << >>
<1>1. x \in Nat /\ Len(t) = 0 BY GoodPos
<1> HIDE DEF x, t
<1>2. Len(t) <= x /\ \A i \in 1..Len(t) : s.cell[x - Len(t) + i - 1] = t[i] BY <1>1
<1> QED BY <1>2 DEF Written, x, t

\* NEWLINE ends in the column in which the line started.
LEMMA NewLineIs ==
  ASSUME LineSizes, NEW u, Fit(u), starting \in 0..Byte-1
  PROVE  LET v == NewLine(u)
         IN  GoodOut(v) /\ v.cur = starting /\ v.mute = u.mute /\ (u.mute # 0 => v.screen = u.screen)
<1> DEFINE a == OutChar(u, "#")
           b == OutAll(a, <<"cr", "lf">>)
           n == IF b.cur < starting THEN starting - b.cur ELSE 0
           g == Blanks(n)
           v == OutAll(b, g)
<1>1. Fit(a) /\ a.mute = u.mute /\ (u.mute # 0 => a.screen = u.screen)
  <2>1. "#" \in Glyph BY DEF Glyph
  <2> QED BY <2>1, OutFit
<1>2. OutAll(u, <<"#", "cr", "lf">>) = b
  <2> HIDE DEF a
  <2>1. OutAll(u, <<"#", "cr", "lf">>) = OutChar(OutChar(a, "cr"), "lf") BY OutThree DEF a
  <2> QED BY <2>1, OutTwo
<1> HIDE DEF a
<1>3. GoodOut(b) /\ b.cur = 0 /\ b.mute = a.mute /\ (a.mute # 0 => b.screen = a.screen)
  BY <1>1, NewRow
<1>4. starting \in Nat /\ starting < Byte /\ Byte \in Nat BY SizeFacts
<1>5. n = starting BY <1>3, <1>4
<1>6. NewLine(u) = v BY <1>2 DEF NewLine
<1> HIDE DEF b, n
<1>7. g \in Seq(Glyph) /\ Len(g) = starting BY <1>4, <1>5, BlanksAre
<1> HIDE DEF g
<1>8. b.cur + Len(g) < Byte /\ b.cur + Len(g) = starting BY <1>3, <1>4, <1>7
<1>9. Wrote(b, v, g, <<>>)
  <2> DEFINE t == <<>>
  <2>1. t \in Seq(Glyph) /\ Len(t) <= b.cur BY <1>3
  <2> HIDE DEF t
  <2>2. Wrote(b, v, g, t) BY <1>3, <1>7, <1>8, <2>1, OutGlyphs
  <2> QED BY <2>2 DEF t
<1> HIDE DEF v
<1> QED BY <1>1, <1>3, <1>6, <1>8, <1>9 DEF Wrote

-----------------------------------------------------------------------------
(* Lines.                                                                  *)

\* What a character of the line looks like takes at least a column; a tab ends at
\* the next tab stop.
LEMMA LookIs ==
  ASSUME NEW k \in Stored, NEW n \in Nat
  PROVE  /\ Look(k, n) \in Seq(Glyph) /\ Len(Look(k, n)) \in Nat /\ 0 < Len(Look(k, n))
         /\ k = "tab" => n + Len(Look(k, n)) = (n \div TabStop) * TabStop + TabStop
         /\ k # "tab" => Len(Look(k, n)) = IF k = "a" THEN 1 ELSE 2
<1> DEFINE d == TabStop - (n % TabStop)
<1>1. TabStop \in Nat /\ 0 < TabStop BY LineAssumption
<1>2. d \in Nat /\ 0 < d /\ n + d = (n \div TabStop) * TabStop + TabStop BY <1>1
<1> HIDE DEF d
<1>3. CASE k = "tab"
  <2>1. Look(k, n) = Blanks(d) BY <1>3, Zenon DEF Look, d
  <2> DEFINE g == Blanks(d)
  <2>2. g \in Seq(Glyph) /\ Len(g) = d BY <1>2, BlanksAre
  <2> HIDE DEF g
  <2> QED BY <1>2, <1>3, <2>1, <2>2 DEF g
<1>4. CASE k = "a"
  <2>1. Look(k, n) = <<k>> BY <1>4, Zenon DEF Look
  <2>2. k \in Glyph /\ k # "tab" BY <1>4 DEF Glyph
  <2> DEFINE g == <<k>>
  <2>3. g \in Seq(Glyph) /\ Len(g) = 1 BY <2>2
  <2>4. Look(k, n) = g BY <2>1
  <2> HIDE DEF g
  <2> QED BY <1>4, <2>3, <2>4
<1>5. CASE k \in {"^A", "^C"}
  <2>1. Look(k, n) = <<"^", "A">> BY <1>5, Zenon DEF Look
  <2>2. "^" \in Glyph /\ "A" \in Glyph BY DEF Glyph
  <2> DEFINE g == <<"^", "A">>
  <2>3. g \in Seq(Glyph) /\ Len(g) = 2 BY <2>2
  <2> HIDE DEF g
  <2> QED BY <1>5, <2>1, <2>3 DEF g
<1> QED BY <1>3, <1>4, <1>5 DEF Stored

\* The further right a character is shown, the further right it ends.
LEMMA LookUp ==
  ASSUME NEW k \in Stored, NEW n \in Nat, NEW m \in Nat, n <= m
  PROVE  n + Len(Look(k, n)) <= m + Len(Look(k, m))
<1> DEFINE x == Len(Look(k, n))
           y == Len(Look(k, m))
           a == n \div TabStop
           b == m \div TabStop
<1>1. x \in Nat /\ y \in Nat /\ (k # "tab" => x = y) BY LookIs
<1>2. CASE k = "tab"
  <2>1. TabStop \in Nat /\ 0 < TabStop BY LineAssumption
  <2>2. n + x = a * TabStop + TabStop /\ m + y = b * TabStop + TabStop BY <1>2, LookIs
  <2>3. a \in Int /\ b \in Int /\ a <= b
    <3>1. a \in Int /\ b \in Int BY <2>1
    <3> SUFFICES ASSUME a > b PROVE FALSE BY <3>1
    <3>2. n % TabStop \in 0..TabStop-1 /\ n = TabStop * a + (n % TabStop) BY <2>1
    <3>3. m % TabStop \in 0..TabStop-1 /\ m = TabStop * b + (m % TabStop) BY <2>1
    <3> DEFINE p == n % TabStop
               q == m % TabStop
               e == TabStop * a
               f == TabStop * b
    <3>4. p \in 0..TabStop-1 /\ q \in 0..TabStop-1 /\ n = e + p /\ m = f + q BY <3>2, <3>3
    <3> HIDE DEF a, b, p, q
    <3>5. e \in Int /\ f \in Int /\ e >= f + TabStop BY <2>1, <3>1
    <3> HIDE DEF e, f
    <3> QED BY <2>1, <3>4, <3>5
  <2>4. a * TabStop <= b * TabStop
    <3> HIDE DEF a, b
    <3> QED BY <2>1, <2>3
  <2> DEFINE e == a * TabStop
             f == b * TabStop
  <2>5. e \in Int /\ f \in Int
    <3> HIDE DEF a, b
    <3> QED BY <2>1, <2>3
  <2> HIDE DEF e, f, x, y
  <2>6. n + x = e + TabStop /\ m + y = f + TabStop /\ e <= f BY <2>2, <2>4 DEF e, f
  <2> QED BY <2>1, <2>5, <2>6 DEF x, y
<1>3. CASE k # "tab"
  <2> HIDE DEF x, y
  <2>1. n + x <= m + y BY <1>1, <1>3
  <2> QED BY <2>1 DEF x, y
<1> QED BY <1>2, <1>3

\* The fold that lays a line out.
Laid(c, l) == FoldLeft(Lay, [from |-> c, text |-> <<>>], l)

\* It is one.
LEMMA LaidFold ==
  ASSUME NEW c, NEW l PROVE Laid(c, l) = LA!Fold([from |-> c, text |-> <<>>], l)
BY DEF Laid, LA!Fold, LA!FoldLeft, FoldLeft, LA!MapThenFoldSet, MapThenFoldSet, LA!Max, Max

\* The layout of the empty line.
LEMMA LaidNone ==
  ASSUME NEW c, NEW l, DOMAIN l = {} PROVE Laid(c, l) = [from |-> c, text |-> <<>>]
BY LaidFold, LA!FoldEmpty

\* A sequence that is not empty ends in an element.
LEMMA SplitLine ==
  ASSUME NEW S, NEW l \in Seq(S), Len(l) # 0
  PROVE  \E f \in Seq(S), k \in S : l = Append(f, k) /\ Len(l) = Len(f) + 1
<1> DEFINE n == Len(l) - 1
           f == [i \in 1..n |-> l[i]]
           k == l[n + 1]
<1>1. n \in Nat /\ Len(l) = n + 1 OBVIOUS
<1> HIDE DEF n
<1>2. f \in Seq(S) /\ Len(f) = n /\ \A i \in 1..n : f[i] = l[i] BY <1>1
<1>3. k \in S /\ l = Append(f, k) BY <1>1, <1>2
<1> HIDE DEF f, k
<1> QED BY <1>1, <1>2, <1>3

\* The layout of a line with one character more.
LEMMA LaidOn ==
  ASSUME NEW c, NEW S, NEW f \in Seq(S), NEW k \in S
  PROVE  Laid(c, Append(f, k)) = Lay(Laid(c, f), k)
<1> DEFINE base == [from |-> c, text |-> <<>>]
           n == Len(f)
           g == Append(f, k)
<1>1. n \in Nat /\ DOMAIN f = 1..n /\ DOMAIN g = 1..n+1 /\ g[n + 1] = k /\ \A i \in 1..n : f[i] = g[i]
  OBVIOUS
<1> HIDE DEF base, g, n
<1>2. LA!Fold(base, g) = Lay(LA!Fold(base, f), g[n + 1]) BY <1>1, LA!FoldOn
<1> QED BY <1>1, <1>2, LaidFold DEF base, g

\* A layout is a text, from the column it is made for.
LEMMA LaidIs ==
  ASSUME NEW c \in Nat, NEW l \in Seq(Stored)
  PROVE  Laid(c, l).from = c /\ Laid(c, l).text \in Seq(Glyph)
<1> DEFINE P(h) == Laid(c, h).from = c /\ Laid(c, h).text \in Seq(Glyph)
           N == {n \in Nat : \A h \in Seq(Stored) : Len(h) = n => P(h)}
<1>1. 0 \in N
  <2> SUFFICES ASSUME NEW h \in Seq(Stored), Len(h) = 0 PROVE P(h)
    OBVIOUS
  <2>1. DOMAIN h = {} OBVIOUS
  <2> DEFINE e == <<>>
  <2>2. Laid(c, h) = [from |-> c, text |-> e] BY <2>1, LaidNone
  <2>3. e \in Seq(Glyph) OBVIOUS
  <2> HIDE DEF e
  <2> QED BY <2>2, <2>3
<1>2. ASSUME NEW n \in Nat, n \in N PROVE n + 1 \in N
  <2> SUFFICES ASSUME NEW h \in Seq(Stored), Len(h) = n + 1 PROVE P(h)
    OBVIOUS
  <2>0. PICK f \in Seq(Stored), k \in Stored : h = Append(f, k) /\ Len(h) = Len(f) + 1
    BY SplitLine
  <2>1. Len(f) = n /\ h = Append(f, k) BY <2>0
  <2> DEFINE a == Laid(c, f)
             x == Len(a.text)
  <2>2. a.from = c /\ a.text \in Seq(Glyph) BY <1>2, <2>1
  <2>3. Laid(c, h) = Lay(a, k) BY <2>1, LaidOn
  <2> HIDE DEF a
  <2>4. Lay(a, k).from = c /\ Lay(a, k).text = a.text \o Look(k, c + x) BY <2>2 DEF Lay
  <2>5. x \in Nat BY <2>2
  <2>6. Look(k, c + x) \in Seq(Glyph)
    <3> HIDE DEF x
    <3>1. c + x \in Nat BY <2>5
    <3> QED BY <3>1, LookIs
  <2>7. a.text \o Look(k, c + x) \in Seq(Glyph) BY <2>2, <2>6
  <2> QED BY <2>3, <2>4, <2>7
<1>3. Len(l) \in N
  <2> HIDE DEF N
  <2>1. Len(l) \in Nat OBVIOUS
  <2> QED BY <1>1, <1>2, <2>1, LA!NatSet
<1> QED BY <1>3

\* What a line looks like is a text, and Behind is the column behind it.
LEMMA LayoutIs ==
  ASSUME NEW c \in Nat, NEW l \in Seq(Stored)
  PROVE  Layout(c, l) \in Seq(Glyph) /\ Len(Layout(c, l)) \in Nat /\ Behind(c, l) = c + Len(Layout(c, l))
<1>1. Layout(c, l) = Laid(c, l).text BY DEF Layout, Laid
<1>2. Layout(c, l) \in Seq(Glyph) BY <1>1, LaidIs
<1> QED BY <1>2 DEF Behind

\* What the empty line looks like.
LEMMA LayoutNone ==
  ASSUME NEW c \in Nat, NEW l, l = <<>>
  PROVE  Layout(c, l) = <<>> /\ Behind(c, l) = c
<1>1. DOMAIN l = {} OBVIOUS
<1>2. Layout(c, l) = Laid(c, l).text BY DEF Layout, Laid
<1>3. Behind(c, l) = c + Len(Layout(c, l)) BY DEF Behind
<1> DEFINE e == << >>
<1>4. Laid(c, l) = [from |-> c, text |-> e] BY <1>1, LaidNone
<1>5. Len(e) = 0 OBVIOUS
<1> HIDE DEF e
<1>6. Layout(c, l) = e BY <1>2, <1>4
<1>7. Behind(c, l) = c BY <1>3, <1>5, <1>6
<1> QED BY <1>6, <1>7 DEF e

\* What a line with one character more looks like, and how much wider it is.
LEMMA LayoutOn ==
  ASSUME NEW c \in Nat, NEW f \in Seq(Stored), NEW k \in Stored
  PROVE  /\ Layout(c, Append(f, k)) = Layout(c, f) \o Look(k, Behind(c, f))
         /\ Behind(c, Append(f, k)) = Behind(c, f) + Len(Look(k, Behind(c, f)))
         /\ Behind(c, f) < Behind(c, Append(f, k))
         /\ Append(f, k) \in Seq(Stored)
<1> DEFINE a == Laid(c, f)
           g == Append(f, k)
           x == Layout(c, f)
           d == Behind(c, f)
           y == Look(k, d)
<1>1. g \in Seq(Stored) OBVIOUS
<1>2. Layout(c, g) = Laid(c, g).text /\ x = a.text BY DEF Layout, Laid
<1>3. Laid(c, g) = Lay(a, k) BY LaidOn
<1>4. a.from = c BY LaidIs
<1>5. x \in Seq(Glyph) /\ Len(x) \in Nat /\ d = c + Len(x) BY LayoutIs
<1> HIDE DEF a, g, x, d
<1>6. Layout(c, g) = x \o y
  <2>1. Lay(a, k).text = a.text \o Look(k, a.from + Len(a.text)) BY DEF Lay
  <2>2. a.from + Len(a.text) = d BY <1>2, <1>4, <1>5
  <2> QED BY <1>2, <1>3, <2>1, <2>2
<1>7. d \in Nat BY <1>5
<1>8. y \in Seq(Glyph) /\ Len(y) \in Nat /\ 0 < Len(y) BY <1>7, LookIs
<1>9. Behind(c, g) = c + Len(Layout(c, g)) BY <1>1, LayoutIs
<1> HIDE DEF y
<1>10. Len(x \o y) = Len(x) + Len(y) BY <1>5, <1>8
<1>11. Behind(c, g) = d + Len(y) /\ d < Behind(c, g) BY <1>5, <1>6, <1>7, <1>8, <1>9, <1>10
<1> QED BY <1>1, <1>6, <1>11 DEF g, x, d, y

\* The further right a line starts, the further right it ends.
LEMMA BehindUp ==
  ASSUME NEW c \in Nat, NEW d \in Nat, c <= d, NEW l \in Seq(Stored)
  PROVE  Behind(c, l) <= Behind(d, l)
<1> DEFINE P(h) == Behind(c, h) <= Behind(d, h)
           N == {n \in Nat : \A h \in Seq(Stored) : Len(h) = n => P(h)}
<1>1. 0 \in N
  <2> SUFFICES ASSUME NEW h \in Seq(Stored), Len(h) = 0 PROVE P(h)
    OBVIOUS
  <2>1. h = <<>> OBVIOUS
  <2>2. Behind(c, h) = c /\ Behind(d, h) = d BY <2>1, LayoutNone
  <2> QED BY <2>2
<1>2. ASSUME NEW n \in Nat, n \in N PROVE n + 1 \in N
  <2> SUFFICES ASSUME NEW h \in Seq(Stored), Len(h) = n + 1 PROVE P(h)
    OBVIOUS
  <2>0. PICK f \in Seq(Stored), k \in Stored : h = Append(f, k) /\ Len(h) = Len(f) + 1
    BY SplitLine
  <2>1. Len(f) = n /\ h = Append(f, k) BY <2>0
  <2> DEFINE a == Behind(c, f)
             b == Behind(d, f)
  <2>2. a <= b BY <1>2, <2>1
  <2>3. a \in Nat /\ b \in Nat
    <3> DEFINE x == Len(Layout(c, f))
               y == Len(Layout(d, f))
    <3>1. x \in Nat /\ y \in Nat /\ a = c + x /\ b = d + y BY LayoutIs
    <3> HIDE DEF a, b, x, y
    <3> QED BY <3>1
  <2>4. Behind(c, h) = a + Len(Look(k, a)) /\ Behind(d, h) = b + Len(Look(k, b)) BY <2>1, LayoutOn
  <2> HIDE DEF a, b
  <2>5. a + Len(Look(k, a)) <= b + Len(Look(k, b)) BY <2>2, <2>3, LookUp
  <2> QED BY <2>4, <2>5
<1>3. Len(l) \in N
  <2> HIDE DEF N
  <2>1. Len(l) \in Nat OBVIOUS
  <2> QED BY <1>1, <1>2, <2>1, LA!NatSet
<1> QED BY <1>3

\* Showing a line is a fold of showing its characters.
LEMMA ShowFold ==
  ASSUME NEW u, NEW l PROVE Show(u, l) = SH!Fold(u, l)
BY DEF Show, SH!Fold, SH!FoldLeft, FoldLeft, SH!MapThenFoldSet, MapThenFoldSet, SH!Max, Max

\* Showing the empty line changes nothing.
LEMMA ShowNone == ASSUME NEW u, NEW l, DOMAIN l = {} PROVE Show(u, l) = u
BY ShowFold, SH!FoldEmpty

\* Showing one character more.
LEMMA ShowOn ==
  ASSUME NEW u, NEW S, NEW f \in Seq(S), NEW k \in S
  PROVE  Show(u, Append(f, k)) = ShowIt(Show(u, f), k)
<1> DEFINE n == Len(f)
           g == Append(f, k)
<1>1. n \in Nat /\ DOMAIN f = 1..n /\ DOMAIN g = 1..n+1 /\ g[n + 1] = k /\ \A i \in 1..n : f[i] = g[i]
  OBVIOUS
<1> HIDE DEF g, n
<1>2. SH!Fold(u, g) = ShowIt(SH!Fold(u, f), g[n + 1]) BY <1>1, SH!FoldOn
<1> QED BY <1>1, <1>2, ShowFold DEF g

\* A character of the line is written at the cursor.
LEMMA ShowItIs ==
  ASSUME LineSizes, NEW u, GoodOut(u), NEW k \in Stored, u.cur + Len(Look(k, u.cur)) < Byte,
         NEW t \in Seq(Glyph), Len(t) <= u.cur
  PROVE  Wrote(u, ShowIt(u, k), Look(k, u.cur), t)
<1> DEFINE g == Look(k, u.cur)
<1>1. g \in Seq(Glyph)
  <2>1. u.cur \in Nat BY DEF GoodOut
  <2> QED BY <2>1, LookIs
<1>2. ShowIt(u, k) = OutAll(u, g) BY DEF ShowIt
<1> HIDE DEF g
<1>3. u.cur + Len(g) < Byte BY DEF g
<1>4. Wrote(u, OutAll(u, g), g, t) BY <1>1, <1>3, OutGlyphs
<1> QED BY <1>2, <1>4 DEF g

\* v is u after line l was shown.
Showed(u, v, l) ==
  /\ GoodOut(v) /\ v.cur = Behind(u.cur, l) /\ v.mute = u.mute
  /\ u.mute # 0 => v.screen = u.screen
  /\ u.mute = 0 => Written(v.screen, Layout(u.cur, l))

\* A line that is shown stands before the cursor as it was laid out.
LEMMA ShowIs ==
  ASSUME LineSizes, NEW u, GoodOut(u), NEW l \in Seq(Stored), Behind(u.cur, l) < Byte
  PROVE  Showed(u, Show(u, l), l)
<1> DEFINE c == u.cur
           P(h) == Behind(c, h) < Byte => Showed(u, Show(u, h), h)
           N == {n \in Nat : \A h \in Seq(Stored) : Len(h) = n => P(h)}
<1>0. c \in Nat /\ u.mute \in Nat /\ Byte \in Nat BY SizeFacts DEF GoodOut
<1>1. 0 \in N
  <2> SUFFICES ASSUME NEW h \in Seq(Stored), Len(h) = 0 PROVE P(h)
    OBVIOUS
  <2>1. h = <<>> /\ DOMAIN h = {} OBVIOUS
  <2>2. Behind(c, h) = c /\ Layout(c, h) = <<>> BY <1>0, <2>1, LayoutNone
  <2>3. Show(u, h) = u BY <2>1, ShowNone
  <2>4. u.mute = 0 => Written(u.screen, <<>>) BY NoTail DEF GoodOut
  <2> QED BY <2>2, <2>3, <2>4 DEF Showed
<1>2. ASSUME NEW n \in Nat, n \in N PROVE n + 1 \in N
  <2> SUFFICES ASSUME NEW h \in Seq(Stored), Len(h) = n + 1, Behind(c, h) < Byte
               PROVE  Showed(u, Show(u, h), h)
    OBVIOUS
  <2>0. PICK f \in Seq(Stored), k \in Stored : h = Append(f, k) /\ Len(h) = Len(f) + 1
    BY SplitLine
  <2>1. Len(f) = n /\ h = Append(f, k) BY <2>0
  <2> DEFINE v == Show(u, f)
             w == Show(u, h)
             t == Layout(c, f)
             d == Behind(c, f)
             g == Look(k, d)
             e == Behind(c, h)
  <2>2. t \in Seq(Glyph) /\ Len(t) \in Nat /\ d = c + Len(t) BY <1>0, LayoutIs
  <2>3. d \in Nat /\ Len(t) <= d
    <3> HIDE DEF c, d, t
    <3> QED BY <1>0, <2>2
  <2>4. Layout(c, h) = t \o g /\ e = d + Len(g) /\ d < e BY <1>0, <2>1, LayoutOn
  <2>5. Len(g) \in Nat BY <2>3, LookIs
  <2>6. d < Byte /\ d + Len(g) < Byte
    <3> HIDE DEF c, d, e, t, g
    <3> QED BY <1>0, <2>3, <2>4, <2>5 DEF e
  <2>7. Showed(u, v, f) BY <1>2, <2>1, <2>6
  <2> HIDE DEF v
  <2>8. GoodOut(v) /\ v.cur = d /\ v.mute = u.mute BY <2>7 DEF Showed
  <2>9. w = ShowIt(v, k) BY <2>1, ShowOn DEF v
  <2> HIDE DEF t, d, w
  <2>10. Wrote(v, w, g, t)
    <3>1. Wrote(v, ShowIt(v, k), Look(k, v.cur), t) BY <2>2, <2>3, <2>6, <2>8, ShowItIs
    <3> QED BY <2>8, <2>9, <3>1
  <2> HIDE DEF g, e
  <2>11. GoodOut(w) /\ w.cur = e /\ w.mute = u.mute BY <2>4, <2>8, <2>10 DEF Wrote
  <2>12. u.mute # 0 => w.screen = u.screen BY <2>7, <2>8, <2>10 DEF Wrote, Showed
  <2>13. u.mute = 0 => Written(v.screen, t) BY <2>7 DEF Showed, t
  <2>14. u.mute = 0 => Written(w.screen, Layout(c, h)) BY <2>4, <2>8, <2>10, <2>13 DEF Wrote
  <2>15. Showed(u, w, h) BY <2>11, <2>12, <2>14 DEF Showed, e
  <2> QED BY <2>15 DEF w
<1>3. Len(l) \in N
  <2> HIDE DEF N
  <2>1. Len(l) \in Nat OBVIOUS
  <2> QED BY <1>1, <1>2, <2>1, LA!NatSet
<1> QED BY <1>3

-----------------------------------------------------------------------------
(* The invariant.                                                          *)

\* Screen s, column c and line l, started in column b, as a key finds them: the
\* history h says how much of the line is on the screen.  After rubouts the cursor
\* is further right than the line is long, after ^E the line starts in column 0.
HeldAt(s, c, b, l, h) ==
  /\ Column(s, c) /\ Behind(b, l) < Byte
  /\ h = "yes" => c = Behind(b, l) /\ Written(s, Layout(b, l))
  /\ h = "rubbed" => Behind(b, l) <= c
  /\ h = "broken" => b = 0

\* The values of the history variable.
Marks == {"yes", "rubbed", "broken"}

\* The inductive invariant.
LineInv ==
  /\ TypeOK /\ Good(screen)
  /\ reading => Len(line) < MaxLen /\ HeldAt(screen, cur, starting, line, shown)

\* What a key leaves.
Kept ==
  /\ Good(screen') /\ cur' \in 0..Byte-1 /\ starting' \in 0..Byte-1
  /\ line' \in Seq(Stored) /\ Len(line') <= MaxLen /\ reading' \in BOOLEAN /\ shown' \in Marks
  /\ reading' => Len(line') < MaxLen /\ HeldAt(screen', cur', starting', line', shown')

\* What it finds.
Found ==
  /\ Good(screen) /\ cur \in 0..Byte-1 /\ starting \in 0..Byte-1
  /\ line \in Seq(Stored) /\ Len(line) < MaxLen /\ shown \in Marks
  /\ HeldAt(screen, cur, starting, line, shown)

\* A byte is a number below their count.
LEMMA SomeBytes ==
  ASSUME LineSizes, NEW n
  PROVE  n \in 0..Byte-1 <=> n \in Nat /\ n < Byte
BY SizeFacts

\* A line that is not empty is its front and its last character.
LEMMA FrontLast ==
  ASSUME NEW S, NEW l \in Seq(S), l # <<>>
  PROVE  Front(l) \in Seq(S) /\ Last(l) \in S /\ l = Append(Front(l), Last(l)) /\ Len(l) = Len(Front(l)) + 1
<1>1. Len(l) # 0 OBVIOUS
<1>2. PICK f \in Seq(S), k \in S : l = Append(f, k) /\ Len(l) = Len(f) + 1 BY <1>1, SplitLine
<1>3. Last(l) = k BY <1>2 DEF Last
<1>4. Front(l) = f
  <2> DEFINE n == Len(f)
  <2>1. n \in Nat /\ Len(l) - 1 = n BY <1>2
  <2>2. Front(l) = SubSeq(l, 1, n) BY <2>1 DEF Front
  <2>3. SubSeq(l, 1, n) \in Seq(S) /\ Len(SubSeq(l, 1, n)) = n /\ \A i \in 1..n : SubSeq(l, 1, n)[i] = l[i]
    BY <1>2, <2>1
  <2>4. \A i \in 1..n : l[i] = f[i] BY <1>2
  <2> DEFINE g == SubSeq(l, 1, n)
  <2>5. g \in Seq(S) /\ Len(g) = Len(f) /\ \A i \in 1..Len(g) : g[i] = f[i] BY <2>3, <2>4
  <2> HIDE DEF g
  <2>6. g = f BY <2>5
  <2> QED BY <2>2, <2>6 DEF g
<1> QED BY <1>2, <1>3, <1>4

\* What output starts on is the state.
LEMMA OutNow ==
  ASSUME LineSizes, Good(screen), cur \in 0..Byte-1, NEW m \in Nat
  PROVE  /\ Out(m).cur = cur /\ Out(m).mute = m /\ Out(m).screen = screen
         /\ Fit(Out(m)) /\ (Column(screen, cur) => GoodOut(Out(m)))
<1> DEFINE u == Out(m)
<1>1. u.cur = cur /\ u.mute = m /\ u.screen = screen BY DEF Out
<1>2. cur \in Nat BY SomeBytes
<1> HIDE DEF u
<1> QED BY <1>1, <1>2 DEF Fit, GoodOut, u

\* The end of a key that shows something: u is shown, and l is the line.
LEMMA EchoKeeps ==
  ASSUME LineSizes, Found, NEW u, GoodOut(u), u.mute = 0, u.cur < Byte,
         NEW l \in Seq(Stored), Len(l) <= MaxLen, shown' \in Marks,
         HeldAt(u.screen, u.cur, starting, l, shown'), Echo(u, l)
  PROVE  Kept
<1> DEFINE v == OutChar(u, "cr")
           c == u.cur
<1>1. c \in 0..Byte-1 /\ Good(u.screen)
  <2>1. c \in Nat BY DEF GoodOut
  <2> QED BY <2>1, SomeBytes DEF GoodOut
<1>2. Fit(v) /\ v.mute = 0
  <2>1. Fit(u) BY <1>1 DEF Fit
  <2> QED BY <2>1, OutBreak
<1>3. Good(v.screen) /\ v.cur \in 0..Byte-1 BY <1>2 DEF Fit
<1>4. line' = l /\ starting' = starting /\ reading' \in BOOLEAN
      /\ (reading' => ~(l = <<"^C">>) /\ ~Full(l))
  BY DEF Echo
<1> HIDE DEF v, c
<1>5. CASE l # <<"^C">> /\ Full(l)
  <2>1. cur' = v.cur /\ screen' = v.screen BY <1>5 DEF Echo, Display, v
  <2> QED BY <1>3, <1>4, <1>5, <2>1 DEF Kept, Found
<1>6. CASE ~(l # <<"^C">> /\ Full(l))
  <2>1. cur' = c /\ screen' = u.screen BY <1>6 DEF Echo, Display, c
  <2>2. reading' => Len(l) < MaxLen
    <3>1. MaxLen \in Nat /\ Len(l) \in Nat BY LineAssumption
    <3> QED BY <1>4, <3>1 DEF Full
  <2> QED BY <1>1, <1>4, <2>1, <2>2 DEF Kept, Found, c
<1> QED BY <1>5, <1>6

\* A character of the line is shown where there is room for it.
LEMMA ShowKeeps ==
  ASSUME LineSizes, ~Overlong, Found, NEW k \in Stored, Room(k)
  PROVE  LET u == ShowIt(Out(0), k)
             b == Behind(starting, line)
         IN  /\ GoodOut(u) /\ u.mute = 0 /\ u.cur = cur + Len(Look(k, cur)) /\ u.cur < Byte
             /\ Column(u.screen, u.cur) /\ cur < u.cur
             /\ Behind(starting, Append(line, k)) = b + Len(Look(k, b))
             /\ b + Len(Look(k, b)) < Byte /\ b \in Nat
             /\ cur = b /\ Written(screen, Layout(starting, line)) =>
                  /\ u.cur = Behind(starting, Append(line, k))
                  /\ Written(u.screen, Layout(starting, Append(line, k)))
<1> DEFINE o == Out(0)
           u == ShowIt(o, k)
           b == Behind(starting, line)
           t == Layout(starting, line)
           l == Append(line, k)
           g == Look(k, cur)
           e == << >>
<1>1. cur \in Nat /\ starting \in Nat /\ Byte \in Nat BY SomeBytes, SizeFacts DEF Found
<1>2. o.cur = cur /\ o.mute = 0 /\ o.screen = screen /\ GoodOut(o) BY OutNow DEF Found, HeldAt
<1> HIDE DEF o
<1>3. cur + Len(g) < Byte /\ b + Len(Look(k, b)) < Byte BY DEF Room
<1>4. line \in Seq(Stored) BY DEF Found
<1>5. t \in Seq(Glyph) /\ Len(t) \in Nat /\ b = starting + Len(t) BY <1>1, <1>4, LayoutIs
<1>6. Layout(starting, l) = t \o Look(k, b) /\ Behind(starting, l) = b + Len(Look(k, b))
  BY <1>1, <1>4, LayoutOn
<1>7. Len(g) \in Nat /\ 0 < Len(g) BY <1>1, LookIs
<1> HIDE DEF t, l, g, b
<1>8. b \in Nat /\ Len(t) <= b BY <1>1, <1>5
<1>9. ASSUME NEW h \in Seq(Glyph), Len(h) <= cur PROVE Wrote(o, u, g, h)
  <2>1. Wrote(o, ShowIt(o, k), Look(k, o.cur), h) BY <1>2, <1>3, <1>9, ShowItIs DEF g
  <2> QED BY <1>2, <2>1 DEF g
<1>10. e \in Seq(Glyph) /\ Len(e) <= cur BY <1>1
<1> HIDE DEF u, e
<1>11. GoodOut(u) /\ u.mute = 0 /\ u.cur = cur + Len(g) BY <1>2, <1>9, <1>10 DEF Wrote
<1>12. u.cur < Byte /\ cur < u.cur /\ Column(u.screen, u.cur)
  <2>1. u.cur < Byte BY <1>3, <1>11
  <2>2. cur < u.cur
    <3> DEFINE x == u.cur
    <3>1. x = cur + Len(g) BY <1>11
    <3> HIDE DEF x
    <3>2. cur < x BY <1>1, <1>7, <3>1
    <3> QED BY <3>2 DEF x
  <2> QED BY <1>11, <2>1, <2>2 DEF GoodOut
<1>13. ASSUME cur = b, Written(screen, t)
       PROVE  u.cur = Behind(starting, l) /\ Written(u.screen, Layout(starting, l))
  <2>1. g = Look(k, b) BY <1>13 DEF g
  <2>2. Wrote(o, u, g, t) BY <1>5, <1>8, <1>9, <1>13
  <2> QED BY <1>2, <1>6, <1>11, <1>13, <2>1, <2>2 DEF Wrote
<1> QED BY <1>3, <1>6, <1>8, <1>11, <1>12, <1>13 DEF o, u, b, t, l, g

\* A character that is typed: shown, stored, counted.
LEMMA StoreKeeps ==
  ASSUME LineSizes, ~Overlong, Found, NEW k \in Stored, Room(k), Echo(ShowIt(Out(0), k), Append(line, k)),
         shown' = shown
  PROVE  Kept
<1> DEFINE u == ShowIt(Out(0), k)
           b == Behind(starting, line)
           l == Append(line, k)
           d == Behind(starting, l)
<1>1. /\ GoodOut(u) /\ u.mute = 0 /\ u.cur = cur + Len(Look(k, cur)) /\ u.cur < Byte
      /\ Column(u.screen, u.cur)
      /\ d = b + Len(Look(k, b)) /\ d < Byte /\ b \in Nat
      /\ cur = b /\ Written(screen, Layout(starting, line)) =>
                  u.cur = d /\ Written(u.screen, Layout(starting, l))
  BY ShowKeeps
<1>2. l \in Seq(Stored) /\ Len(l) <= MaxLen
  <2>1. line \in Seq(Stored) /\ Len(line) < MaxLen /\ MaxLen \in Nat BY LineAssumption DEF Found
  <2> QED BY <2>1
<1>3. Echo(u, l) OBVIOUS
<1>4. cur \in Nat BY SomeBytes DEF Found
<1>5. HeldAt(screen, cur, starting, line, shown) /\ shown \in Marks BY DEF Found
<1> HIDE DEF u, l, b, d
<1>6. shown = "rubbed" => d <= u.cur
  <2> SUFFICES ASSUME shown = "rubbed" PROVE d <= u.cur OBVIOUS
  <2>1. b <= cur BY <1>5 DEF HeldAt, b
  <2>2. b + Len(Look(k, b)) <= cur + Len(Look(k, cur)) BY <1>1, <1>4, <2>1, LookUp
  <2> QED BY <1>1, <2>2
<1>7. HeldAt(u.screen, u.cur, starting, l, shown) BY <1>1, <1>5, <1>6 DEF HeldAt, d, b
<1>8. HeldAt(u.screen, u.cur, starting, l, shown') BY <1>7
<1> QED BY <1>1, <1>2, <1>3, <1>5, <1>8, EchoKeeps

\* The part of the line that a deletion leaves ends further left.
LEMMA FrontLess ==
  ASSUME NEW c \in Nat, NEW l \in Seq(Stored), l # <<>>
  PROVE  LET f == Front(l)
             g == Look(Last(l), Behind(c, f))
         IN  /\ f \in Seq(Stored) /\ Behind(c, f) \in Nat /\ Behind(c, l) \in Nat
             /\ Behind(c, f) < Behind(c, l)
             /\ Layout(c, l) = Layout(c, f) \o g /\ Behind(c, l) = Behind(c, f) + Len(g)
             /\ g \in Seq(Glyph)
<1> DEFINE f == Front(l)
           k == Last(l)
           b == Behind(c, f)
<1>1. f \in Seq(Stored) /\ k \in Stored /\ l = Append(f, k) BY FrontLast
<1> HIDE DEF f, k
<1>2. b \in Nat
  <2> DEFINE x == Len(Layout(c, f))
  <2>1. x \in Nat /\ b = c + x BY <1>1, LayoutIs
  <2> HIDE DEF x, b
  <2> QED BY <2>1
<1>3. Behind(c, l) \in Nat
  <2> DEFINE x == Len(Layout(c, l))
             d == Behind(c, l)
  <2>1. x \in Nat /\ d = c + x BY LayoutIs
  <2> HIDE DEF x, d
  <2>2. d \in Nat BY <2>1
  <2> QED BY <2>2 DEF d
<1>4. Layout(c, l) = Layout(c, f) \o Look(k, b) /\ Behind(c, l) = b + Len(Look(k, b)) /\ b < Behind(c, l)
  BY <1>1, LayoutOn
<1>5. Look(k, b) \in Seq(Glyph) BY <1>1, <1>2, LookIs
<1> QED BY <1>1, <1>2, <1>3, <1>4, <1>5 DEF f, k

\* A rubout: the screen shows the deleted character again.
LEMMA RubOutKeeps ==
  ASSUME LineSizes, ~Overlong, Found, RubOut
  PROVE  Kept
<1> DEFINE k == Last(line)
           l == Front(line)
           u == ShowIt(Out(0), k)
           b == Behind(starting, line)
           d == Behind(starting, l)
<1>1. k \in Stored /\ l \in Seq(Stored) /\ Len(line) = Len(l) + 1
  <2>1. line \in Seq(Stored) /\ line # <<>> BY DEF RubOut, Found
  <2> QED BY <2>1, FrontLast
<1>2. Room(k) /\ Echo(u, l) /\ shown' = IF shown = "yes" THEN "rubbed" ELSE shown BY DEF RubOut
<1>3. /\ GoodOut(u) /\ u.mute = 0 /\ u.cur < Byte /\ Column(u.screen, u.cur) /\ cur < u.cur /\ b < Byte
  <2> HIDE DEF k
  <2>1. GoodOut(u) /\ u.mute = 0 /\ u.cur < Byte /\ Column(u.screen, u.cur) /\ cur < u.cur
    BY <1>1, <1>2, ShowKeeps
  <2> QED BY <2>1 DEF Found, HeldAt
<1>4. HeldAt(screen, cur, starting, line, shown) /\ shown \in Marks BY DEF Found
<1>5. cur \in Nat /\ starting \in Nat /\ Byte \in Nat BY SomeBytes, SizeFacts DEF Found
<1>6. d < b /\ d \in Nat /\ b \in Nat
  <2>1. line \in Seq(Stored) /\ line # <<>> BY DEF RubOut, Found
  <2> QED BY <1>5, <2>1, FrontLess
<1>7. Len(l) <= MaxLen
  <2>1. Len(line) < MaxLen /\ MaxLen \in Nat BY LineAssumption DEF Found
  <2>2. Len(l) \in Nat BY <1>1
  <2> HIDE DEF l
  <2> QED BY <1>1, <2>1, <2>2
<1> HIDE DEF u, l, b, d, k
<1>8. u.cur \in Nat BY <1>3 DEF GoodOut
<1>9. d < Byte BY <1>3, <1>5, <1>6
<1>10. shown \in {"yes", "rubbed"} => d <= u.cur
  <2> SUFFICES ASSUME shown \in {"yes", "rubbed"} PROVE d <= u.cur OBVIOUS
  <2>1. b <= cur
    <3>1. b = cur \/ b <= cur BY <1>4 DEF HeldAt, b
    <3> QED BY <1>5, <3>1
  <2> DEFINE x == u.cur
  <2>2. x \in Nat /\ cur < x BY <1>3, <1>8
  <2> HIDE DEF x
  <2>3. d <= x BY <1>5, <1>6, <2>1, <2>2
  <2> QED BY <2>3 DEF x
<1>11. shown' \in Marks /\ shown' # "yes" /\ (shown' = "broken" => shown = "broken")
       /\ (shown' = "rubbed" => shown \in {"yes", "rubbed"})
  BY <1>2, <1>4 DEF Marks
<1>12. HeldAt(u.screen, u.cur, starting, l, shown')
  BY <1>3, <1>4, <1>9, <1>10, <1>11 DEF HeldAt, d
<1> QED BY <1>1, <1>2, <1>3, <1>7, <1>11, <1>12, EchoKeeps

\* The line is shown again, or its columns are counted in silence.
LEMMA Retyping ==
  ASSUME LineSizes, Good(screen), cur \in 0..Byte-1, starting \in 0..Byte-1,
         NEW l \in Seq(Stored), Behind(starting, l) < Byte, NEW m \in Nat
  PROVE  LET u == Show(NewLine(Out(m)), l)
         IN  /\ GoodOut(u) /\ u.cur = Behind(starting, l) /\ u.mute = m
             /\ m # 0 => u.screen = screen
             /\ m = 0 => Written(u.screen, Layout(starting, l))
<1> DEFINE o == Out(m)
           n == NewLine(o)
           u == Show(n, l)
<1>1. Fit(o) /\ o.mute = m /\ o.screen = screen BY OutNow
<1> HIDE DEF o
<1>2. GoodOut(n) /\ n.cur = starting /\ n.mute = o.mute /\ (o.mute # 0 => n.screen = o.screen)
  BY <1>1, NewLineIs
<1> HIDE DEF n
<1>3. Showed(n, u, l) BY <1>2, ShowIs
<1> HIDE DEF u
<1> QED BY <1>1, <1>2, <1>3 DEF Showed, u, n, o

\* ^R: the line anew, in a row of its own.
LEMMA RetypeKeeps ==
  ASSUME LineSizes, Found, Retype, reading
  PROVE  Kept
<1> DEFINE u == Show(NewLine(Out(0)), line)
           r == Retyped(line, 0)
<1>1. GoodOut(u) /\ u.cur = Behind(starting, line) /\ u.mute = 0 /\ Written(u.screen, Layout(starting, line))
  <2>1. line \in Seq(Stored) /\ Behind(starting, line) < Byte BY DEF Found, HeldAt
  <2> QED BY <2>1, Retyping DEF Found
<1>2. r.cur = u.cur /\ r.screen = u.screen BY DEF Retyped
<1> HIDE DEF u, r
<1>3. cur' = u.cur /\ screen' = u.screen /\ line' = line /\ starting' = starting /\ reading' = reading
      /\ shown' = "yes"
  BY <1>2 DEF Retype, Display, r
<1>4. Good(u.screen) /\ Column(u.screen, u.cur) /\ u.cur \in Nat BY <1>1 DEF GoodOut
<1>5. Behind(starting, line) < Byte BY DEF Found, HeldAt
<1>6. u.cur \in 0..Byte-1 BY <1>1, <1>4, <1>5, SomeBytes
<1>7. HeldAt(u.screen, u.cur, starting, line, "yes") BY <1>1, <1>4, <1>5 DEF HeldAt
<1>8. Len(line) < MaxLen /\ Len(line) <= MaxLen
  <2>1. Len(line) \in Nat /\ MaxLen \in Nat /\ Len(line) < MaxLen BY LineAssumption DEF Found
  <2> QED BY <2>1
<1> QED BY <1>3, <1>4, <1>6, <1>7, <1>8 DEF Kept, Found, Marks

\* Steps back over a text leave what stands before it.
LEMMA BackWritten ==
  ASSUME LineSizes, NEW s, Good(s), NEW t \in Seq(Glyph), NEW g \in Seq(Glyph), Written(s, t \o g)
  PROVE  Written(Backup(s, Len(g)), t)
<1> DEFINE x == s.pos
           n == Len(g)
           w == t \o g
           v == Backup(s, n)
           l == Len(t)
<1>1. n \in Nat /\ l \in Nat /\ Len(w) = l + n /\ \A i \in 1..l : w[i] = t[i] OBVIOUS
<1>2. x \in Nat /\ x < Size BY GoodPos
<1>3. Len(w) <= x /\ \A i \in 1..Len(w) : s.cell[x - Len(w) + i - 1] = w[i] BY DEF Written
<1> HIDE DEF w, n
<1>4. n <= x
  <2> HIDE DEF x, l
  <2> QED BY <1>1, <1>2, <1>3
<1>5. Good(v) /\ v.pos = x - n /\ \A p \in Cell : p < v.pos => v.cell[p] = s.cell[p] BY <1>1, <1>4, BackupIs
<1> DEFINE y == v.pos
<1>6. y = x - n BY <1>5
<1>7. \A p \in Cell : p < y => v.cell[p] = s.cell[p] BY <1>5
<1> HIDE DEF v, x, l, y
<1>8. l <= y BY <1>1, <1>2, <1>3, <1>6
<1>9. ASSUME NEW i \in 1..l PROVE v.cell[y - l + i - 1] = t[i]
  <2> DEFINE p == y - l + i - 1
  <2>1. p \in Nat /\ p < y /\ p < Size /\ p = x - Len(w) + i - 1 /\ i \in 1..Len(w)
    BY <1>1, <1>2, <1>3, <1>6, <1>8, SizeFacts
  <2> HIDE DEF p
  <2>2. p \in Cell BY <2>1, InCell
  <2>3. s.cell[p] = w[i] BY <1>3, <2>1
  <2>4. v.cell[p] = t[i] BY <1>1, <1>7, <2>1, <2>2, <2>3
  <2> QED BY <2>4 DEF p
<1>10. Written(v, t) BY <1>8, <1>9 DEF Written, l, y
<1> QED BY <1>10 DEF v, n

\* So many columns back, in the BDOS's count and on the screen.
LEMMA BackColumn ==
  ASSUME LineSizes, Good(screen), NEW c \in Nat, Column(screen, c), NEW n \in Nat, n <= c
  PROVE  Good(Backup(screen, n)) /\ Column(Backup(screen, n), c - n)
<1> DEFINE x == screen.pos
           v == Backup(screen, n)
           y == v.pos
<1>1. x \in Nat BY GoodPos
<1>2. c <= x /\ (x - c) % Cols = 0 BY DEF Column
<1>3. n <= x
  <2> HIDE DEF x
  <2> QED BY <1>1, <1>2
<1>4. Good(v) /\ y = x - n BY <1>3, BackupIs
<1> HIDE DEF v, y, x
<1>5. c - n <= y /\ y - (c - n) = x - c BY <1>1, <1>2, <1>4
<1>6. (y - (c - n)) % Cols = 0 BY <1>2, <1>5
<1>7. Column(v, c - n) BY <1>5, <1>6 DEF Column, y
<1> QED BY <1>4, <1>7 DEF v

\* A backspace: the silent count gives the column of the shorter line, and the
\* difference is what the screen goes back.
LEMMA BackspaceKeeps ==
  ASSUME LineSizes, ~BackAcross, Found, Backspace, reading
  PROVE  Kept
<1> DEFINE l == Front(line)
           b == Behind(starting, line)
           d == Behind(starting, l)
           u == Show(NewLine(Out(cur)), l)
           g == Look(Last(line), d)
           t == Layout(starting, l)
           n == cur - d
           v == Backup(screen, n)
           r == Retyped(l, cur)
<1>1. cur \in Nat /\ cur < Byte /\ starting \in Nat /\ Byte \in Nat BY SomeBytes, SizeFacts DEF Found
<1>2. line \in Seq(Stored) /\ line # <<>> BY DEF Backspace, Found
<1>3. /\ l \in Seq(Stored) /\ d \in Nat /\ b \in Nat /\ d < b
      /\ Layout(starting, line) = t \o g /\ b = d + Len(g) /\ g \in Seq(Glyph)
  BY <1>1, <1>2, FrontLess
<1>4. t \in Seq(Glyph) BY <1>1, <1>3, LayoutIs
<1>5. Len(line) = Len(l) + 1 BY <1>2, FrontLast
<1>6. HeldAt(screen, cur, starting, line, shown) /\ shown \in Marks /\ shown # "broken" BY DEF Found, Backspace
<1>7. b <= cur /\ b < Byte
  <2>1. cur = b \/ b <= cur BY <1>6 DEF HeldAt, Marks
  <2>2. b < Byte BY <1>6 DEF HeldAt
  <2> HIDE DEF b
  <2> QED BY <1>1, <2>1, <2>2
<1>8. d < Byte /\ n \in Nat /\ n <= cur /\ n # 0 /\ n < Byte /\ cur # 0 /\ cur - n = d
  <2> HIDE DEF b, d
  <2> QED BY <1>1, <1>3, <1>7
<1>9. u.cur = d /\ u.screen = screen
  <2> HIDE DEF l
  <2> QED BY <1>1, <1>3, <1>8, Retyping DEF Found
<1>10. (cur - u.cur) % Byte = n
  <2>1. (cur - u.cur) % Byte = n % Byte BY <1>9
  <2>2. n % Byte = n
    <3> HIDE DEF n
    <3> QED BY <1>1, <1>8
  <2> QED BY <2>1, <2>2
<1>11. r.cur = u.cur /\ r.screen = Backup(u.screen, IF (cur - u.cur) % Byte = 0 THEN Byte ELSE (cur - u.cur) % Byte)
  BY <1>8 DEF Retyped
<1> HIDE DEF u
<1>12. r.cur = d /\ r.screen = v
  <2> HIDE DEF n, r, d
  <2> QED BY <1>8, <1>9, <1>10, <1>11
<1> HIDE DEF r
<1>13. cur' = d /\ screen' = v /\ line' = l /\ starting' = starting /\ reading' = reading /\ shown' = shown
  <2>1. line' = l /\ cur' = Retyped(line', cur).cur /\ screen' = Retyped(line', cur).screen
        /\ starting' = starting /\ reading' = reading /\ shown' = shown
    BY DEF Backspace, Display
  <2>2. cur' = r.cur /\ screen' = r.screen BY <2>1 DEF r
  <2> QED BY <1>12, <2>1, <2>2
<1>14. Good(v) /\ Column(v, d)
  <2> HIDE DEF d, n
  <2>1. Column(screen, cur) /\ Good(screen) BY <1>6 DEF HeldAt, Found
  <2>2. Good(v) /\ Column(v, cur - n) BY <1>1, <1>8, <2>1, BackColumn
  <2> QED BY <1>8, <2>2
<1>15. ASSUME shown = "yes" PROVE Written(v, t)
  <2>1. cur = b /\ Written(screen, t \o g) BY <1>3, <1>6, <1>15 DEF HeldAt
  <2>2. n = Len(g)
    <3> DEFINE h == Len(g)
    <3>1. h \in Nat /\ b = d + h BY <1>3
    <3> HIDE DEF h, b, d
    <3>2. n = h BY <1>3, <2>1, <3>1
    <3> QED BY <3>2 DEF h
  <2> HIDE DEF t, g, n
  <2>3. Written(Backup(screen, Len(g)), t) BY <1>3, <1>4, <2>1, BackWritten DEF Found
  <2> QED BY <2>2, <2>3
<1> HIDE DEF v, n
<1>16. shown = "rubbed" => d <= d
  <2> HIDE DEF d
  <2> QED BY <1>3
<1>17. HeldAt(v, d, starting, l, shown) BY <1>6, <1>8, <1>14, <1>15, <1>16 DEF HeldAt
<1>18. Len(l) < MaxLen /\ Len(l) <= MaxLen
  <2>1. Len(line) < MaxLen /\ MaxLen \in Nat BY LineAssumption DEF Found
  <2>2. Len(l) \in Nat BY <1>3
  <2> HIDE DEF l
  <2> QED BY <1>5, <2>1, <2>2
<1>19. d \in 0..Byte-1
  <2> HIDE DEF d
  <2> QED BY <1>3, <1>8, SomeBytes
<1> HIDE DEF l, d
<1> QED BY <1>3, <1>13, <1>14, <1>17, <1>18, <1>19 DEF Kept, Found

\* ^E: the line goes on in column 0.
LEMMA PhysicalEndKeeps ==
  ASSUME LineSizes, Found, PhysicalEnd, reading
  PROVE  Kept
<1> DEFINE v == OutAll(Out(0), <<"cr", "lf">>)
<1>1. GoodOut(v) /\ v.cur = 0 /\ v.mute = 0
  <2>1. Fit(Out(0)) /\ Out(0).mute = 0 BY OutNow DEF Found
  <2> DEFINE o == Out(0)
  <2> HIDE DEF o
  <2>2. GoodOut(OutAll(o, <<"cr", "lf">>)) /\ OutAll(o, <<"cr", "lf">>).cur = 0
        /\ OutAll(o, <<"cr", "lf">>).mute = 0
    BY <2>1, NewRow DEF o
  <2> QED BY <2>2 DEF o
<1>2. cur' = v.cur /\ screen' = v.screen /\ starting' = 0 /\ shown' = "broken" /\ line' = line /\ reading' = reading
  BY DEF PhysicalEnd, Display
<1> HIDE DEF v
<1>3. Good(v.screen) /\ Column(v.screen, 0) BY <1>1 DEF GoodOut
<1>4. line \in Seq(Stored) /\ Behind(starting, line) < Byte BY DEF Found, HeldAt
<1>5. Behind(0, line) < Byte
  <2> DEFINE x == Behind(0, line)
             y == Behind(starting, line)
             p == Len(Layout(0, line))
             q == Len(Layout(starting, line))
             z == 0
  <2>1. starting \in Nat /\ Byte \in Nat /\ z \in Nat /\ z <= starting BY SomeBytes, SizeFacts DEF Found
  <2>2. x = Behind(z, line) /\ p \in Nat /\ x = z + p /\ q \in Nat /\ y = starting + q BY <1>4, <2>1, LayoutIs
  <2>3. Behind(z, line) <= y
    <3> HIDE DEF z
    <3> QED BY <1>4, <2>1, BehindUp
  <2>4. y < Byte BY <1>4
  <2>5. x <= y BY <2>2, <2>3
  <2> HIDE DEF x, y, p, q
  <2>6. x < Byte BY <2>1, <2>2, <2>4, <2>5
  <2> QED BY <2>6 DEF x
<1>6. 0 \in 0..Byte-1 BY SizeFacts, SomeBytes, LineAssumption
<1>7. Len(line) < MaxLen /\ Len(line) <= MaxLen
  <2>1. Len(line) \in Nat /\ MaxLen \in Nat /\ Len(line) < MaxLen BY LineAssumption DEF Found
  <2> QED BY <2>1
<1>8. HeldAt(v.screen, 0, 0, line, "broken") BY <1>3, <1>5 DEF HeldAt
<1> QED BY <1>1, <1>2, <1>3, <1>4, <1>6, <1>7, <1>8 DEF Kept, Marks

\* A line that starts over, at column c.
LEMMA FreshHeld ==
  ASSUME LineSizes, NEW s, Good(s), NEW c \in 0..Byte-1, Column(s, c)
  PROVE  HeldAt(s, c, c, <<>>, "yes") /\ <<>> \in Seq(Stored) /\ Len(<<>>) < MaxLen /\ Len(<<>>) <= MaxLen
<1> DEFINE l == << >>
           t == << >>
<1>1. l \in Seq(Stored) /\ Len(l) < MaxLen /\ Len(l) <= MaxLen BY LineAssumption
<1>2. c \in Nat /\ c < Byte BY SomeBytes
<1>3. Behind(c, l) = c /\ Layout(c, l) = t BY <1>2, LayoutNone
<1>4. Written(s, t) BY NoTail
<1> HIDE DEF l, t
<1>5. HeldAt(s, c, c, l, "yes") BY <1>2, <1>3, <1>4 DEF HeldAt
<1> QED BY <1>1, <1>5 DEF l

\* ^U: a new line, started where the old one was.
LEMMA CancelLineKeeps ==
  ASSUME LineSizes, Found, CancelLine, reading
  PROVE  Kept
<1> DEFINE v == NewLine(Out(0))
           c == v.cur
           l == << >>
<1>1. GoodOut(v) /\ c = starting /\ v.mute = 0
  <2>1. Fit(Out(0)) /\ Out(0).mute = 0 BY OutNow DEF Found
  <2> DEFINE o == Out(0)
  <2> HIDE DEF o
  <2>2. GoodOut(NewLine(o)) /\ NewLine(o).cur = starting /\ NewLine(o).mute = 0
    BY <2>1, NewLineIs DEF o, Found
  <2> QED BY <2>2 DEF o
<1>2. cur' = c /\ screen' = v.screen /\ starting' = c /\ shown' = "yes" /\ line' = l /\ reading' = reading
  BY DEF CancelLine, Display
<1>3. Good(v.screen) /\ Column(v.screen, c) /\ c \in 0..Byte-1 BY <1>1 DEF GoodOut, Found
<1> HIDE DEF v, c, l
<1>4. HeldAt(v.screen, c, c, l, "yes") /\ l \in Seq(Stored) /\ Len(l) < MaxLen /\ Len(l) <= MaxLen
  BY <1>3, FreshHeld DEF l
<1> QED BY <1>2, <1>3, <1>4 DEF Kept, Marks

\* ^X: back to where the line started.
LEMMA EraseLineKeeps ==
  ASSUME LineSizes, Found, EraseLine, reading
  PROVE  Kept
<1> DEFINE n == IF cur > starting THEN cur - starting ELSE 0
           v == Backup(screen, n)
           c == cur - n
           l == << >>
<1>1. cur \in Nat /\ cur < Byte /\ starting \in Nat /\ Byte \in Nat BY SomeBytes, SizeFacts DEF Found
<1>2. n \in Nat /\ n <= cur /\ c \in Nat /\ c < Byte BY <1>1
<1>3. cur' = c /\ screen' = v /\ starting' = c /\ shown' = "yes" /\ line' = l /\ reading' = reading
  <2>1. cur' = cur - n /\ screen' = Backup(screen, n) /\ starting' = cur' /\ shown' = "yes" /\ line' = l
        /\ reading' = reading
    BY DEF EraseLine
  <2> QED BY <2>1
<1> HIDE DEF n, l
<1>4. Good(v) /\ Column(v, c)
  <2>1. Good(screen) /\ Column(screen, cur) BY DEF Found, HeldAt
  <2> QED BY <1>1, <1>2, <2>1, BackColumn
<1>5. c \in 0..Byte-1
  <2> HIDE DEF c
  <2> QED BY <1>2, SomeBytes
<1> HIDE DEF v, c
<1>6. HeldAt(v, c, c, l, "yes") /\ l \in Seq(Stored) /\ Len(l) < MaxLen /\ Len(l) <= MaxLen
  BY <1>4, <1>5, FreshHeld DEF l
<1> QED BY <1>3, <1>4, <1>5, <1>6 DEF Kept, Marks

\* CR: the line is done.
LEMMA EndLineKeeps ==
  ASSUME LineSizes, Found, EndLine
  PROVE  Kept
<1> DEFINE v == OutChar(Out(0), "cr")
<1>1. Fit(v) /\ v.mute = 0
  <2>1. Fit(Out(0)) /\ Out(0).mute = 0 BY OutNow DEF Found
  <2> QED BY <2>1, OutBreak
<1>2. cur' = v.cur /\ screen' = v.screen /\ reading' = FALSE /\ line' = line /\ starting' = starting
      /\ shown' = shown
  BY DEF EndLine, Display
<1> HIDE DEF v
<1>3. Good(v.screen) /\ v.cur \in 0..Byte-1 BY <1>1 DEF Fit
<1>4. Len(line) <= MaxLen
  <2>1. Len(line) \in Nat /\ MaxLen \in Nat /\ Len(line) < MaxLen BY LineAssumption DEF Found
  <2> QED BY <2>1
<1> QED BY <1>2, <1>3, <1>4 DEF Kept, Found

\* RDBUFF is called on a new line, behind a prompt.
LEMMA ReadKeeps ==
  ASSUME LineSizes, Good(screen), cur \in 0..Byte-1, NEW n \in Prompts, Read(n)
  PROVE  Kept
<1> DEFINE v == OutAll(Out(0), <<"cr", "lf">>)
           x == "a"
           g == [i \in 1..n |-> x]
           u == OutAll(v, g)
           c == u.cur
           l == << >>
           e == << >>
<1>1. n \in Nat /\ n < Byte
  <2>1. n \in 0..Byte-1 BY LineAssumption
  <2> QED BY <2>1, SomeBytes
<1>2. GoodOut(v) /\ v.cur = 0 /\ v.mute = 0
  <2>1. Fit(Out(0)) /\ Out(0).mute = 0 BY OutNow
  <2> DEFINE o == Out(0)
  <2> HIDE DEF o
  <2>2. GoodOut(OutAll(o, <<"cr", "lf">>)) /\ OutAll(o, <<"cr", "lf">>).cur = 0
        /\ OutAll(o, <<"cr", "lf">>).mute = 0
    BY <2>1, NewRow DEF o
  <2> QED BY <2>2 DEF o
<1>3. cur' = c /\ screen' = u.screen /\ starting' = c /\ shown' = "yes" /\ line' = l /\ reading' = TRUE
  BY DEF Read, Display
<1>4. x \in Glyph BY DEF Glyph
<1> HIDE DEF v, l, x
<1>5. g \in Seq(Glyph) /\ Len(g) = n BY <1>1, <1>4
<1>6. e \in Seq(Glyph) /\ Len(e) <= v.cur BY <1>2
<1> HIDE DEF g, e
<1>7. v.cur + Len(g) = n BY <1>1, <1>2, <1>5
<1>8. Wrote(v, u, g, e) BY <1>1, <1>2, <1>5, <1>6, <1>7, OutGlyphs
<1> HIDE DEF u
<1>9. GoodOut(u) /\ u.mute = 0 /\ c = n BY <1>2, <1>7, <1>8 DEF Wrote
<1>10. Good(u.screen) /\ Column(u.screen, c) BY <1>9 DEF GoodOut
<1> HIDE DEF c
<1>11. c \in 0..Byte-1 BY <1>1, <1>9, SomeBytes
<1>12. HeldAt(u.screen, c, c, l, "yes") /\ l \in Seq(Stored) /\ Len(l) < MaxLen /\ Len(l) <= MaxLen
  BY <1>10, <1>11, FreshHeld DEF l
<1> QED BY <1>3, <1>10, <1>11, <1>12 DEF Kept, Marks

\* A screen that was cleared is as it should be.
LEMMA ClearedGood ==
  ASSUME LineSizes, NEW r \in 0..Rows-1
  PROVE  Good(ClearedAt(r * Cols))
<1> DEFINE p == r * Cols
           s == ClearedAt(p)
<1>1. p \in Nat /\ p < Size
  <2>1. Rows \in Nat /\ Cols \in Nat /\ 0 < Cols BY ScreenAssumption
  <2>2. r \in Nat /\ r < Rows BY <2>1
  <2>3. r * Cols \in Nat BY <2>1, <2>2
  <2>4. (r + 1) * Cols <= Rows * Cols BY <2>1, <2>2
  <2>5. (r + 1) * Cols = r * Cols + Cols BY <2>1, <2>2
  <2>6. r * Cols < Rows * Cols
    <3> DEFINE a == r * Cols
               z == Rows * Cols
               y == (r + 1) * Cols
    <3>1. a \in Nat /\ z \in Int /\ y = a + Cols /\ y <= z BY <2>1, <2>3, <2>4, <2>5
    <3> HIDE DEF a, z, y
    <3>2. a < z BY <2>1, <3>1
    <3> QED BY <3>2 DEF a, z
  <2> QED BY <2>3, <2>6 DEF Size
<1> HIDE DEF p
<1>2. p \in Cell BY <1>1, InCell
<1>3. s.pos = p /\ s.cell = [i \in Cell |-> IF i = p THEN Cursor ELSE " "] BY DEF ClearedAt
<1>4. s.cell \in [Cell -> Cells] BY <1>3, CellFacts
<1>5. s.cell[p] = Cursor BY <1>2, <1>3
<1>6. ASSUME NEW q \in Cell, q > p PROVE s.cell[q] = " "
  <2>1. q # p
    <3>1. q \in Nat BY InCell
    <3> QED BY <1>1, <1>6, <3>1
  <2> QED BY <1>3, <2>1
<1> HIDE DEF s
<1>7. Good(s) BY <1>2, <1>3, <1>4, <1>5, <1>6 DEF Good
<1> QED BY <1>7 DEF s, p

\* The invariant holds at the start.
LEMMA LineInit ==
  ASSUME LineSizes, Init
  PROVE  LineInv
<1>1. Good(screen)
  <2>1. PICK r \in 0..Rows-1 : screen = ClearedAt(r * Cols) BY DEF Init
  <2> QED BY <2>1, ClearedGood
<1>2. cur \in 0..Byte-1 /\ starting \in 0..Byte-1
  <2>1. 0 \in 0..Byte-1 BY SomeBytes, LineAssumption
  <2> QED BY <2>1 DEF Init
<1>3. line \in Seq(Stored) /\ Len(line) <= MaxLen
  <2> DEFINE l == << >>
  <2>1. l \in Seq(Stored) /\ Len(l) <= MaxLen BY LineAssumption
  <2> QED BY <2>1 DEF Init
<1>4. typed \in 0..MaxKeys BY LineAssumption DEF Init
<1>5. reading = FALSE /\ shown = "yes" BY DEF Init
<1>6. TypeOK BY <1>1, <1>2, <1>3, <1>4, <1>5 DEF TypeOK, Good, Cells
<1> QED BY <1>1, <1>5, <1>6 DEF LineInv

\* Every key keeps it.
LEMMA KeyKeeps ==
  ASSUME LineSizes, ~BackAcross, ~Overlong, Found, reading, NEW k \in Keys, Key(k)
  PROVE  Kept
<1>1. CASE Store(k)
  <2>1. k \in Stored /\ Room(k) /\ Echo(ShowIt(Out(0), k), Append(line, k)) /\ shown' = shown
    BY <1>1 DEF Store
  <2> QED BY <2>1, StoreKeeps
<1>2. CASE k = "del" /\ RubOut BY <1>2, RubOutKeeps
<1>3. CASE k = "bs" /\ Backspace BY <1>3, BackspaceKeeps
<1>4. CASE k = "^E" /\ PhysicalEnd BY <1>4, PhysicalEndKeeps
<1>5. CASE k = "^R" /\ Retype BY <1>5, RetypeKeeps
<1>6. CASE k = "^U" /\ CancelLine BY <1>6, CancelLineKeeps
<1>7. CASE k = "^X" /\ EraseLine BY <1>7, EraseLineKeeps
<1>8. CASE k = "cr" /\ EndLine BY <1>8, EndLineKeeps
<1> QED BY <1>1, <1>2, <1>3, <1>4, <1>5, <1>6, <1>7, <1>8 DEF Key

\* What a key leaves is the invariant.
LEMMA KeptInv ==
  ASSUME Kept, typed' \in 0..MaxKeys
  PROVE  LineInv'
<1>1. TypeOK' BY DEF TypeOK, Kept, Good, Cells, Marks
<1> QED BY <1>1 DEF LineInv, Kept

\* Every step keeps it.
LEMMA LineNext ==
  ASSUME LineSizes, ~BackAcross, ~Overlong, LineInv, [Next]_vars
  PROVE  LineInv'
<1>1. Good(screen) /\ cur \in 0..Byte-1 /\ typed \in 0..MaxKeys BY DEF LineInv, TypeOK
<1>2. ASSUME NEW n \in Prompts, Read(n) PROVE LineInv'
  <2>1. Kept BY <1>1, <1>2, ReadKeeps
  <2>2. typed' = typed BY <1>2 DEF Read
  <2> QED BY <1>1, <2>1, <2>2, KeptInv
<1>3. ASSUME NEW k \in Keys, Type(k) PROVE LineInv'
  <2>1. reading /\ typed < MaxKeys /\ typed' = typed + 1 /\ Key(k) BY <1>3 DEF Type
  <2>2. Found BY <2>1 DEF LineInv, TypeOK, Found, Marks
  <2>3. Kept BY <2>1, <2>2, KeyKeeps
  <2>4. typed' \in 0..MaxKeys BY <1>1, <2>1, LineAssumption
  <2> QED BY <2>3, <2>4, KeptInv
<1>4. CASE UNCHANGED vars BY <1>4 DEF vars, LineInv, TypeOK
<1> QED BY <1>2, <1>3, <1>4 DEF Next

\* It is an invariant.
LEMMA LineInvCorrect ==
  ASSUME LineSizes, ~BackAcross, ~Overlong
  PROVE  Spec => []LineInv
<1>1. Init => LineInv BY LineInit
<1>2. LineInv /\ [Next]_vars => LineInv' BY LineNext
<1> QED BY <1>1, <1>2, PTL DEF Spec

\* The types, which hold the ranges of the cursor and of CURPOS: no key of RDBUFF
\* leads out of the screen or past what a byte counts.
THEOREM TypeCorrect ==
  ASSUME LineSizes, ~BackAcross, ~Overlong
  PROVE  Spec => []TypeOK
<1>1. LineInv => TypeOK BY DEF LineInv
<1> QED BY <1>1, LineInvCorrect, PTL

\* CURPOS is the column in which the cursor is, on a screen of any size, for tab
\* stops, buffers and prompts of any size, however many lines scrolled by.
THEOREM ColumnKeptCorrect ==
  ASSUME LineSizes, ~BackAcross, ~Overlong
  PROVE  Spec => []ColumnKept
<1>1. LineInv => ColumnKept BY DEF LineInv, HeldAt, Column, ColumnKept
<1> QED BY <1>1, LineInvCorrect, PTL

\* What stands on the screen before the cursor is the line that the program will
\* get: after tabs, backspaces over them, ^R, ^U, ^X, and over ends of rows.
THEOREM ShownCorrect ==
  ASSUME LineSizes, ~BackAcross, ~Overlong
  PROVE  Spec => []Shown
<1>1. ASSUME LineInv PROVE Shown
  <2> SUFFICES ASSUME reading, shown = "yes"
               PROVE  /\ \A i \in DOMAIN Text : LET p == screen.pos - Len(Text) + i - 1
                                                IN  p >= 0 => screen.cell[p] = Text[i]
                      /\ screen.cell[screen.pos] = Cursor
                      /\ \A p \in Cell : p > screen.pos => screen.cell[p] = " "
    BY DEF Shown
  <2>1. Good(screen) /\ Written(screen, Text) BY <1>1 DEF LineInv, HeldAt, Text
  <2>2. Text \in Seq(Glyph)
    <3>1. starting \in Nat /\ line \in Seq(Stored) BY <1>1 DEF LineInv, TypeOK
    <3> QED BY <3>1, LayoutIs DEF Text
  <2>3. DOMAIN Text = 1..Len(Text) BY <2>2
  <2> QED BY <2>1, <2>3 DEF Good, Written
<1> QED BY <1>1, LineInvCorrect, PTL
=============================================================================
