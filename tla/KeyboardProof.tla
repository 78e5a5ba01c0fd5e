---------------------------- MODULE KeyboardProof ---------------------------
(***************************************************************************)
(* Keys arrive in the order of typing and with the modifiers of their press *)
(* for every set of keys, every length of the queue and any number of       *)
(* presses.                                                                 *)
(***************************************************************************)
EXTENDS Keyboard, Integers, TLAPS

(* The numbers of the presses: in the queue q, the press g last delivered,  *)
(* the press c in CHARBUF, t presses in all, of which ms were taken.        *)

\* The press in CHARBUF was typed before those in the queue, which are in order.
Ordered(q, g, c, t) ==
  /\ \A i, j \in DOMAIN q : i < j /\ q[i].n # 0 /\ q[j].n # 0 => q[i].n < q[j].n
  /\ \A i \in DOMAIN q : q[i].n # 0 => g < q[i].n /\ c < q[i].n /\ q[i].n <= t
  /\ c # 0 => g < c /\ c <= t
  /\ g <= t

\* Every press after the last that was delivered is somewhere.
Somewhere(q, g, c, t, ms) ==
  \A m \in g+1..t : m \in ms \/ m = c \/ \E i \in DOMAIN q : q[i].n = m

\* A code has a number if its key was pressed and has a character.
Coded(e) ==
  /\ e.n # 0 <=> e.down /\ e.key \in CharKey
  /\ e.down /\ e.key \notin Modifier => e.meant.key = e.key /\ (e.key = "alt" => e.meant = None)

Numbers ==
  /\ \A i \in DOMAIN queue : Coded(queue[i])
  /\ Ordered(queue, got, charbuf.n, typed)
  /\ Somewhere(queue, got, charbuf.n, typed, missed)
  /\ charbuf.n # 0 <=> charbuf.char # None
  /\ pc # "idle" \/ direct => charbuf.n = 0
  /\ direct => pc \in {"idle", "direct"}

(* The modifiers, before the i-th code of the queue q is read.              *)

\* Code j is the last one of modifier m before code i.
LastOf(q, m, i, j) == q[j].key = m /\ \A l \in j+1..i-1 : q[l].key # m
NoneOf(q, m, i) == \A l \in 1..i-1 : q[l].key # m

\* Whether m is in h is what its last code before i says, or else what the
\* driver has, st, unless m is in up.
Agrees(q, st, up, m, i, h) ==
  /\ \A j \in 1..i-1 : LastOf(q, m, i, j) => (m \in h <=> q[j].down)
  /\ NoneOf(q, m, i) /\ m \notin up => (m \in h <=> m \in st)

\* At the end of the queue this is what the user holds down, and at the code of
\* a key, what was held down when it was pressed (with SHIFT, CTRL is not told).
Modifiers ==
  /\ \A m \in Modifier : Agrees(queue, status, upset, m, Len(queue) + 1, held)
  /\ \A i \in DOMAIN queue : queue[i].n # 0 =>
       /\ Agrees(queue, status, upset, "shift", i, {queue[i].meant.mod})
       /\ queue[i].meant.mod # "shift" => Agrees(queue, status, upset, "ctrl", i, {queue[i].meant.mod})

IInv == TypeOK /\ Numbers /\ Modifiers
-----------------------------------------------------------------------------
(* What reading and sending a code does to the queue.                       *)

LEMMA TailFacts ==
  ASSUME NEW q \in Seq(CodeOf), q # <<>>
  PROVE  /\ Len(q) \in Nat /\ Len(q) >= 1 /\ Head(q) = q[1] /\ q[1] \in CodeOf
         /\ Tail(q) \in Seq(CodeOf) /\ Len(Tail(q)) = Len(q) - 1
         /\ \A i \in DOMAIN Tail(q) : i \in Nat /\ i >= 1 /\ i + 1 \in DOMAIN q /\ Tail(q)[i] = q[i+1]
         /\ \A i \in 1..Len(q)-1 : i \in DOMAIN Tail(q)
         /\ DOMAIN q = 1..Len(q)
OBVIOUS

LEMMA AppendFacts ==
  ASSUME NEW q \in Seq(CodeOf), NEW e \in CodeOf
  PROVE  /\ Len(q) \in Nat /\ DOMAIN q = 1..Len(q)
         /\ Append(q, e) \in Seq(CodeOf) /\ Len(Append(q, e)) = Len(q) + 1
         /\ DOMAIN Append(q, e) = 1..Len(q)+1
         /\ \A i \in 1..Len(q) : Append(q, e)[i] = q[i]
         /\ Append(q, e)[Len(q)+1] = e
OBVIOUS

LEMMA Kinds ==
  /\ "alt" \notin CharKey /\ CharKey \cap Modifier = {} /\ Key = CharKey \cup Modifier \cup {"alt"}
  /\ "s" \in CharKey /\ "c" \in CharKey /\ MaxQueue \in Nat /\ MaxTyped \in Nat
  /\ Modifier = {"shift", "ctrl"}
BY KeyAssumption DEF CharKey, Key, Modifier

LEMMA CodeFacts ==
  \A e \in CodeOf : /\ e.n \in Nat /\ e.n \in 0..MaxTyped /\ e.key \in Key /\ e.down \in BOOLEAN
                    /\ e.meant \in Char \cup {None}
BY Kinds DEF CodeOf

\* The character of a key has that key, and the modifier that counts.
LEMMA CharFacts ==
  ASSUME NEW k \in CharKey, NEW s
  PROVE  /\ CharOf(k, s) \in Char /\ CharOf(k, s) # None /\ CharOf(k, s).key = k
         /\ CharOf(k, s).mod = "shift" <=> "shift" \in s
         /\ CharOf(k, s).mod # "shift" => (CharOf(k, s).mod = "ctrl" <=> "ctrl" \in s)
BY Kinds DEF CharOf, Char, None

\* A character is told by its key and by its modifier.
LEMMA SameChar ==
  ASSUME NEW k \in CharKey, NEW s, NEW c \in Char, c.key = k,
         c.mod = "shift" <=> "shift" \in s,
         c.mod # "shift" => (c.mod = "ctrl" <=> "ctrl" \in s)
  PROVE  CharOf(k, s) = c
BY Kinds DEF CharOf, Char

\* Reading the first code keeps the numbers in order.
LEMMA OrderedTail ==
  ASSUME NEW q \in Seq(CodeOf), q # <<>>, NEW g \in Nat, NEW c \in Nat, NEW t \in Nat, NEW ms,
         Ordered(q, g, c, t), Somewhere(q, g, c, t, ms)
  PROVE  /\ Ordered(Tail(q), g, c, t)
         /\ Somewhere(Tail(q), g, c, t, ms \cup ({Head(q).n} \ {0}))
         /\ c = 0 /\ Head(q).n # 0 =>
              /\ Ordered(Tail(q), Head(q).n, 0, t) /\ Somewhere(Tail(q), Head(q).n, 0, t, ms)
              /\ Ordered(Tail(q), g, Head(q).n, t) /\ Somewhere(Tail(q), g, Head(q).n, t, ms)
              /\ Head(q).n > g /\ (g+1)..(Head(q).n-1) \subseteq ms
<1> DEFINE n == Head(q).n
<1>0. n \in Nat BY TailFacts, CodeFacts
<1>1. \A i \in DOMAIN Tail(q) : i \in Nat /\ i >= 1 /\ i + 1 \in DOMAIN q /\ Tail(q)[i] = q[i+1]
  BY TailFacts
<1>2. Head(q) = q[1] /\ 1 \in DOMAIN q /\ DOMAIN q = 1..Len(q) /\ Len(q) \in Nat BY TailFacts
<1>3. \A i \in DOMAIN q : q[i].n \in Nat BY CodeFacts
<1>4. \A i \in DOMAIN Tail(q) : Tail(q)[i].n \in Nat BY <1>1, <1>3
<1>5. ASSUME NEW m, NEW i \in DOMAIN q, q[i].n = m, m # n
      PROVE  \E j \in DOMAIN Tail(q) : Tail(q)[j].n = m
  <2>1. i # 1 /\ i \in 1..Len(q) BY <1>2, <1>5
  <2>2. i - 1 \in 1..Len(q)-1 BY <1>2, <2>1
  <2>3. i - 1 \in DOMAIN Tail(q) /\ Tail(q)[i-1] = q[(i-1)+1] BY <1>1, <2>2, TailFacts
  <2> QED BY <1>5, <2>1, <2>3
<1>6. Ordered(Tail(q), g, c, t)
  <2>1. ASSUME NEW i \in DOMAIN Tail(q), NEW j \in DOMAIN Tail(q), i < j, Tail(q)[i].n # 0, Tail(q)[j].n # 0
        PROVE  Tail(q)[i].n < Tail(q)[j].n
    BY <1>1, <2>1 DEF Ordered
  <2>2. ASSUME NEW i \in DOMAIN Tail(q), Tail(q)[i].n # 0
        PROVE  g < Tail(q)[i].n /\ c < Tail(q)[i].n /\ Tail(q)[i].n <= t
    BY <1>1, <2>2 DEF Ordered
  <2> QED BY <2>1, <2>2 DEF Ordered
<1>7. Somewhere(Tail(q), g, c, t, ms \cup ({n} \ {0}))
  BY <1>0, <1>5 DEF Somewhere
<1>8. ASSUME c = 0, n # 0
      PROVE  /\ Ordered(Tail(q), n, 0, t) /\ Somewhere(Tail(q), n, 0, t, ms)
             /\ Ordered(Tail(q), g, n, t) /\ Somewhere(Tail(q), g, n, t, ms)
             /\ n > g /\ (g+1)..(n-1) \subseteq ms
  <2>1. g < n /\ n <= t BY <1>2, <1>8 DEF Ordered
  <2>2. ASSUME NEW i \in DOMAIN Tail(q), Tail(q)[i].n # 0 PROVE n < Tail(q)[i].n
    BY <1>1, <1>2, <1>8, <2>2 DEF Ordered
  <2>3. Ordered(Tail(q), n, 0, t) /\ Ordered(Tail(q), g, n, t)
    BY <1>0, <1>4, <1>6, <1>8, <2>1, <2>2 DEF Ordered
  <2>4. Somewhere(Tail(q), g, n, t, ms) BY <1>0, <1>5, <1>8 DEF Somewhere
  <2>5. Somewhere(Tail(q), n, 0, t, ms)
    <3> SUFFICES ASSUME NEW m \in n+1..t PROVE m \in ms \/ m = 0 \/ \E i \in DOMAIN Tail(q) : Tail(q)[i].n = m
      BY DEF Somewhere
    <3>1. m \in g+1..t /\ m # n /\ m # 0 BY <1>0, <2>1
    <3> QED BY <1>5, <1>8, <3>1 DEF Somewhere
  <2>6. ASSUME NEW m \in (g+1)..(n-1) PROVE m \in ms
    <3>1. m \in g+1..t /\ m # 0 /\ m < n BY <1>0, <2>1
    <3>2. \A i \in DOMAIN Tail(q) : Tail(q)[i].n # m BY <1>0, <1>4, <2>2, <3>1
    <3>3. \A i \in DOMAIN q : q[i].n # m BY <1>5, <3>1, <3>2
    <3> QED BY <1>8, <3>1, <3>3 DEF Somewhere
  <2> QED BY <2>1, <2>3, <2>4, <2>5, <2>6
<1> QED BY <1>6, <1>7, <1>8

\* Sending a code keeps the numbers in order, if a new number is the next.
LEMMA OrderedAppend ==
  ASSUME NEW q \in Seq(CodeOf), NEW e \in CodeOf, NEW g \in Nat, NEW c \in Nat, NEW t \in Nat, NEW ms,
         Ordered(q, g, c, t), Somewhere(q, g, c, t, ms), NEW u \in Nat,
         \/ e.n = 0 /\ u = t
         \/ e.n = t + 1 /\ u = t + 1
  PROVE  Ordered(Append(q, e), g, c, u) /\ Somewhere(Append(q, e), g, c, u, ms)
<1> DEFINE p == Append(q, e)
           l == Len(q) + 1
<1>1. /\ l \in DOMAIN p /\ p[l] = e /\ l \in Nat
      /\ \A i \in DOMAIN q : i \in DOMAIN p /\ p[i] = q[i] /\ i < l
      /\ \A i \in DOMAIN p : (i \in DOMAIN q \/ i = l) /\ i <= l
  BY AppendFacts
<1>2. (\A i \in DOMAIN q : q[i].n \in Nat) /\ e.n \in Nat BY CodeFacts
<1> HIDE DEF p, l
<1>3. ASSUME NEW i \in DOMAIN p, NEW j \in DOMAIN p, i < j, p[i].n # 0, p[j].n # 0
      PROVE  p[i].n < p[j].n
  <2>1. i \in DOMAIN q /\ i \in Int /\ j \in Int
    <3>1. i # l BY <1>1, <1>3
    <3> QED BY <1>1, <3>1
  <2>2. CASE j \in DOMAIN q BY <1>1, <1>3, <2>1, <2>2 DEF Ordered
  <2>3. CASE j = l BY <1>1, <1>2, <1>3, <2>1, <2>3 DEF Ordered
  <2> QED BY <1>1, <2>2, <2>3
<1>4. ASSUME NEW i \in DOMAIN p, p[i].n # 0
      PROVE  g < p[i].n /\ c < p[i].n /\ p[i].n <= u
  <2>1. CASE i \in DOMAIN q BY <1>1, <1>2, <1>4, <2>1 DEF Ordered
  <2>2. CASE i = l BY <1>1, <1>4, <2>2 DEF Ordered
  <2> QED BY <1>1, <2>1, <2>2
<1>5. Ordered(p, g, c, u) BY <1>3, <1>4 DEF Ordered
<1>6. ASSUME NEW m \in g+1..u PROVE m \in ms \/ m = c \/ \E i \in DOMAIN p : p[i].n = m
  <2>1. CASE m \in g+1..t BY <1>1, <2>1 DEF Somewhere
  <2>2. CASE m \notin g+1..t BY <1>1, <1>6, <2>2
  <2> QED BY <2>1, <2>2
<1> QED BY <1>5, <1>6 DEF Somewhere, p

\* Reading the first code: the modifiers before the others stay what they were,
\* if the driver has taken note of it, or knows that it has not.
LEMMA AgreesTail ==
  ASSUME NEW q \in Seq(CodeOf), q # <<>>, NEW st, NEW up, NEW st2, NEW up2, NEW m,
         NEW i \in 1..Len(q), NEW h, Agrees(q, st, up, m, i + 1, h),
         \/ m \in up2
         \/ Head(q).key # m /\ m \notin up /\ (m \in st <=> m \in st2)
         \/ Head(q).key = m /\ (m \in st2 <=> Head(q).down)
  PROVE  Agrees(Tail(q), st2, up2, m, i, h)
<1> DEFINE p == Tail(q)
<1>1. /\ Len(q) \in Nat /\ Head(q) = q[1]
      /\ \A j \in 1..i-1 : j \in Nat /\ p[j] = q[j+1] /\ j + 1 \in 1..i
  BY TailFacts
<1> HIDE DEF p
<1>2. ASSUME NEW j \in 1..i-1, LastOf(p, m, i, j) PROVE m \in h <=> p[j].down
  <2>1. j + 1 \in 1..(i+1)-1 /\ p[j] = q[j+1] BY <1>1
  <2>2. LastOf(q, m, i + 1, j + 1)
    <3>1. ASSUME NEW l \in (j+1)+1..(i+1)-1 PROVE q[l].key # m
      <4>1. l - 1 \in j+1..i-1 /\ l - 1 \in 1..i-1 /\ (l - 1) + 1 = l BY <1>1
      <4>2. p[l-1] = q[l] BY <1>1, <4>1
      <4> QED BY <1>2, <4>1, <4>2 DEF LastOf
    <3> QED BY <1>2, <2>1, <3>1 DEF LastOf
  <2> QED BY <2>1, <2>2 DEF Agrees
<1>3. ASSUME NoneOf(p, m, i), m \notin up2 PROVE m \in h <=> m \in st2
  <2>1. \A l \in 2..(i+1)-1 : q[l].key # m
    <3> SUFFICES ASSUME NEW l \in 2..(i+1)-1 PROVE q[l].key # m OBVIOUS
    <3>1. l - 1 \in 1..i-1 /\ (l - 1) + 1 = l BY <1>1
    <3> QED BY <1>1, <1>3, <3>1 DEF NoneOf
  <2>2. CASE q[1].key = m
    <3>1. LastOf(q, m, i + 1, 1) /\ 1 \in 1..(i+1)-1 BY <2>1, <2>2 DEF LastOf
    <3> QED BY <1>1, <1>3, <2>2, <3>1 DEF Agrees
  <2>3. CASE q[1].key # m
    <3>1. NoneOf(q, m, i + 1)
      <4> SUFFICES ASSUME NEW l \in 1..(i+1)-1 PROVE q[l].key # m BY DEF NoneOf
      <4>1. l = 1 \/ l \in 2..(i+1)-1 BY <1>1
      <4> QED BY <2>1, <2>3, <4>1
    <3> QED BY <1>1, <1>3, <2>3, <3>1 DEF Agrees
  <2> QED BY <2>2, <2>3
<1> QED BY <1>2, <1>3 DEF Agrees, p

\* Sending a code changes nothing before it, and after it only its own modifier.
LEMMA AgreesAppend ==
  ASSUME NEW q \in Seq(CodeOf), NEW e \in CodeOf, NEW st, NEW up, NEW m, NEW h
  PROVE  /\ \A i \in 1..Len(q)+1 : Agrees(q, st, up, m, i, h) => Agrees(Append(q, e), st, up, m, i, h)
         /\ e.key # m /\ Agrees(q, st, up, m, Len(q) + 1, h)
              => Agrees(Append(q, e), st, up, m, Len(q) + 2, h)
         /\ e.key = m /\ (m \in h <=> e.down) => Agrees(Append(q, e), st, up, m, Len(q) + 2, h)
<1> DEFINE p == Append(q, e)
           n == Len(q)
<1>1. n \in Nat /\ p[n+1] = e /\ \A l \in 1..n : p[l] = q[l] BY AppendFacts
<1> HIDE DEF p, n
<1>2. ASSUME NEW i \in 1..n+1, Agrees(q, st, up, m, i, h) PROVE Agrees(p, st, up, m, i, h)
  <2>1. \A l \in 1..i-1 : p[l] = q[l] BY <1>1
  <2>2. NoneOf(p, m, i) <=> NoneOf(q, m, i) BY <2>1 DEF NoneOf
  <2>3. \A j \in 1..i-1 : LastOf(p, m, i, j) <=> LastOf(q, m, i, j) BY <2>1 DEF LastOf
  <2> QED BY <1>2, <2>1, <2>2, <2>3 DEF Agrees
<1>3. ASSUME e.key # m, Agrees(q, st, up, m, n + 1, h) PROVE Agrees(p, st, up, m, n + 2, h)
  <2>1. ASSUME NEW j \in 1..(n+2)-1, LastOf(p, m, n + 2, j) PROVE m \in h <=> p[j].down
    <3>1. j # n + 1 BY <1>1, <1>3, <2>1 DEF LastOf
    <3>2. j \in 1..(n+1)-1 /\ p[j] = q[j] BY <1>1, <3>1
    <3>3. LastOf(q, m, n + 1, j) BY <1>1, <2>1, <3>2 DEF LastOf
    <3> QED BY <1>3, <3>2, <3>3 DEF Agrees
  <2>2. NoneOf(p, m, n + 2) => NoneOf(q, m, n + 1) BY <1>1 DEF NoneOf
  <2> QED BY <1>3, <2>1, <2>2 DEF Agrees
<1>4. ASSUME e.key = m, m \in h <=> e.down PROVE Agrees(p, st, up, m, n + 2, h)
  <2>1. ASSUME NEW j \in 1..(n+2)-1, LastOf(p, m, n + 2, j) PROVE m \in h <=> p[j].down
    <3>1. j = n + 1
      <4> SUFFICES ASSUME j # n + 1 PROVE FALSE OBVIOUS
      <4>1. n + 1 \in j+1..(n+2)-1 BY <1>1
      <4> QED BY <1>1, <1>4, <2>1, <4>1 DEF LastOf
    <3> QED BY <1>1, <1>4, <3>1
  <2>2. ~NoneOf(p, m, n + 2)
    <3>1. n + 1 \in 1..(n+2)-1 BY <1>1
    <3> QED BY <1>1, <1>4, <3>1 DEF NoneOf
  <2> QED BY <2>1, <2>2 DEF Agrees
<1> QED BY <1>2, <1>3, <1>4 DEF p, n

LEMMA SameAgrees ==
  ASSUME NEW q, NEW st, NEW up, NEW m, NEW i, NEW h, NEW g, Agrees(q, st, up, m, i, h), m \in h <=> m \in g
  PROVE  Agrees(q, st, up, m, i, g)
BY DEF Agrees
-----------------------------------------------------------------------------
(* The actions.                                                             *)

LEMMA Taken ==
  ASSUME NEW n \in 0..MaxTyped, NEW ms, ms \subseteq 1..MaxTyped
  PROVE  ms \cup ({n} \ {0}) \subseteq 1..MaxTyped
BY Kinds

LEMMA StateFacts ==
  ASSUME IInv
  PROVE  /\ queue \in Seq(CodeOf) /\ got \in Nat /\ typed \in Nat /\ charbuf.n \in Nat
         /\ Ordered(queue, got, charbuf.n, typed) /\ Somewhere(queue, got, charbuf.n, typed, missed)
         /\ \A i \in DOMAIN queue : queue[i].n \in Nat
BY Kinds, CodeFacts DEF IInv, TypeOK, Numbers

\* The user presses and releases keys.
LEMMA SendInv ==
  ASSUME IInv, NEW k \in Key, Press(k) \/ Release(k) PROVE IInv'
<1> USE StateFacts
<1>1. /\ UNCHANGED <<status, charbuf, pc, direct, got, missed, upset>>
      /\ Len(queue) < MaxQueue
  BY DEF Press, Release, Send, driver, history
<1>2. PICK e \in CodeOf :
        /\ queue' = Append(queue, e) /\ e.key = k
        /\ e.n # 0 <=> e.down /\ k \in CharKey
        /\ e.n # 0 => e.n = typed + 1
        /\ typed' = (IF e.n # 0 THEN typed + 1 ELSE typed) /\ typed' \in 0..MaxTyped
        /\ e.down /\ k \notin Modifier => e.meant = CharOf(k, held)
        /\ k \in Modifier => held' = IF e.down THEN held \cup {k} ELSE held \ {k}
        /\ k \notin Modifier => held' = held
  <2>1. CASE Press(k)
    <3> DEFINE n == IF k \in CharKey THEN typed + 1 ELSE 0
               d == [key |-> k, down |-> TRUE, n |-> n,
                     meant |-> IF k \notin Modifier THEN CharOf(k, held) ELSE None]
    <3>1. queue' = Append(queue, d) /\ typed' = (IF k \in CharKey THEN typed + 1 ELSE typed)
          /\ held' = IF k \in Modifier THEN held \cup {k} ELSE held
      BY <2>1, Kinds DEF Press, Send
    <3>2. typed' \in 0..MaxTyped /\ n \in 0..MaxTyped /\ (k \in CharKey <=> n # 0)
          /\ (n # 0 => n = typed + 1)
      BY <2>1, Kinds DEF Press, IInv, TypeOK
    <3>3. k \notin Modifier => CharOf(k, held) \in Char \cup {None}
      <4>1. CASE k \in CharKey BY <4>1, CharFacts
      <4>2. CASE k = "alt" BY <4>2 DEF CharOf
      <4> QED BY <4>1, <4>2, Kinds
    <3> HIDE DEF n
    <3>4. d \in CodeOf BY <3>2, <3>3 DEF CodeOf
    <3> QED BY <3>1, <3>2, <3>4
  <2>2. CASE Release(k)
    <3> DEFINE d == [key |-> k, down |-> FALSE, n |-> 0, meant |-> None]
    <3>1. queue' = Append(queue, d) /\ typed' = typed /\ held' = held \ {k}
      BY <2>2 DEF Release, Send
    <3>2. d \in CodeOf BY Kinds DEF CodeOf
    <3>3. k \notin Modifier => held' = held BY <3>1 DEF IInv, TypeOK
    <3>4. typed \in 0..MaxTyped BY DEF IInv, TypeOK
    <3> QED BY <3>1, <3>2, <3>3, <3>4
  <2> QED BY <2>1, <2>2
<1>3. TypeOK'
  <2>1. held' \subseteq Modifier BY <1>2 DEF IInv, TypeOK
  <2>2. queue' \in Seq(CodeOf) /\ Len(queue') <= MaxQueue BY <1>1, <1>2, AppendFacts, Kinds
  <2> QED BY <1>1, <1>2, <2>1, <2>2 DEF IInv, TypeOK
<1>4. Numbers'
  <2>1. Coded(e)
    <3>1. ASSUME e.down, k \notin Modifier
          PROVE  e.meant.key = k /\ (k = "alt" => e.meant = None)
      <4>1. CASE k \in CharKey BY <1>2, <3>1, <4>1, CharFacts, Kinds
      <4>2. CASE k = "alt" BY <1>2, <3>1, <4>2 DEF CharOf, None
      <4> QED BY <4>1, <4>2, <3>1, Kinds
    <3> QED BY <1>2, <3>1 DEF Coded
  <2>2. \A i \in DOMAIN queue' : Coded(queue'[i])
    <3> SUFFICES ASSUME NEW i \in DOMAIN queue' PROVE Coded(queue'[i]) OBVIOUS
    <3>1. (i \in DOMAIN queue /\ queue'[i] = queue[i]) \/ queue'[i] = e BY <1>2, AppendFacts
    <3> QED BY <2>1, <3>1 DEF IInv, Numbers
  <2>3. (e.n = 0 /\ typed' = typed) \/ (e.n = typed + 1 /\ typed' = typed + 1) BY <1>2
  <2>4. typed' \in Nat BY <1>2
  <2>5. Ordered(queue', got, charbuf.n, typed') /\ Somewhere(queue', got, charbuf.n, typed', missed)
    BY <1>2, <2>3, <2>4, OrderedAppend
  <2> QED BY <1>1, <2>2, <2>5 DEF IInv, Numbers
<1>5. Modifiers'
  <2>1. Len(queue') + 1 = Len(queue) + 2 /\ Len(queue) \in Nat /\ DOMAIN queue' = 1..Len(queue)+1
        /\ queue'[Len(queue)+1] = e /\ DOMAIN queue = 1..Len(queue)
    BY <1>2, AppendFacts
  <2>2. ASSUME NEW m \in Modifier
        PROVE  Agrees(queue', status, upset, m, Len(queue) + 2, held')
    <3>1. Agrees(queue, status, upset, m, Len(queue) + 1, held) BY DEF IInv, Modifiers
    <3>2. CASE e.key # m
      <4>1. m \in held <=> m \in held' BY <1>2, <3>2
      <4>2. Agrees(queue', status, upset, m, Len(queue) + 2, held) BY <1>2, <3>1, <3>2, AgreesAppend
      <4> QED BY <4>1, <4>2, SameAgrees
    <3>3. CASE e.key = m
      <4>1. (m \in held') <=> e.down BY <1>2, <3>3
      <4> QED BY <1>2, <3>3, <4>1, AgreesAppend
    <3> QED BY <3>2, <3>3
  <2>3. ASSUME NEW i \in DOMAIN queue, NEW m \in Modifier, NEW h, Agrees(queue, status, upset, m, i, h)
        PROVE  Agrees(queue', status, upset, m, i, h)
    <3>1. i \in 1..Len(queue)+1 BY <2>1
    <3>2. Agrees(Append(queue, e), status, upset, m, i, h) BY <2>3, <3>1, AgreesAppend
    <3> QED BY <1>2, <3>2
  <2>4. ASSUME NEW i \in DOMAIN queue', queue'[i].n # 0
        PROVE  /\ Agrees(queue', status, upset, "shift", i, {queue'[i].meant.mod})
               /\ queue'[i].meant.mod # "shift" =>
                    Agrees(queue', status, upset, "ctrl", i, {queue'[i].meant.mod})
    <3>1. CASE i \in DOMAIN queue
      <4>1. queue'[i] = queue[i] BY <1>2, <3>1, AppendFacts
      <4> QED BY <2>3, <2>4, <3>1, <4>1, Kinds DEF IInv, Modifiers
    <3>2. CASE i = Len(queue) + 1
      <4>1. k \in CharKey /\ e.meant = CharOf(k, held) /\ queue'[i] = e
        BY <1>2, <2>1, <2>4, <3>2, Kinds
      <4>2. ASSUME NEW m \in Modifier, NEW h, m \in held <=> m \in h
            PROVE  Agrees(queue', status, upset, m, i, h)
        <5>1. Agrees(queue, status, upset, m, Len(queue) + 1, held) BY DEF IInv, Modifiers
        <5>2. Agrees(queue, status, upset, m, Len(queue) + 1, h) BY <4>2, <5>1, SameAgrees
        <5> QED BY <1>2, <2>1, <3>2, <5>2, AgreesAppend
      <4> QED BY <4>1, <4>2, CharFacts, Kinds
    <3> QED BY <2>1, <3>1, <3>2
  <2> QED BY <1>1, <2>1, <2>2, <2>4 DEF Modifiers
<1> QED BY <1>3, <1>4, <1>5 DEF IInv

\* The driver reads a code.
LEMMA ReadModifiers ==
  ASSUME IInv, queue # <<>>, queue' = Tail(queue), held' = held,
         \A m \in Modifier :
           \/ m \in upset'
           \/ Head(queue).key # m /\ m \notin upset /\ (m \in status <=> m \in status')
           \/ Head(queue).key = m /\ (m \in status' <=> Head(queue).down)
  PROVE  Modifiers' /\ \A i \in DOMAIN queue' : Coded(queue'[i])
<1> USE StateFacts
<1>1. /\ Len(queue) \in Nat /\ Len(queue) >= 1 /\ Len(queue') = Len(queue) - 1
      /\ \A i \in DOMAIN queue' : i \in Nat /\ i >= 1 /\ i + 1 \in DOMAIN queue /\ queue'[i] = queue[i+1]
      /\ DOMAIN queue = 1..Len(queue)
  BY TailFacts
<1>2. ASSUME NEW i \in DOMAIN queue' PROVE Coded(queue'[i])
  BY <1>1, <1>2 DEF IInv, Numbers
<1>3. ASSUME NEW m \in Modifier, NEW i \in 1..Len(queue), NEW h, Agrees(queue, status, upset, m, i + 1, h)
      PROVE  Agrees(queue', status', upset', m, i, h)
  <2>1. Agrees(Tail(queue), status', upset', m, i, h) BY <1>3, AgreesTail
  <2> QED BY <2>1
<1>4. ASSUME NEW m \in Modifier PROVE Agrees(queue', status', upset', m, Len(queue') + 1, held')
  <2>1. Agrees(queue, status, upset, m, Len(queue) + 1, held) BY DEF IInv, Modifiers
  <2>2. Len(queue) \in 1..Len(queue) /\ Len(queue') + 1 = Len(queue) BY <1>1
  <2> QED BY <1>3, <2>1, <2>2
<1>5. ASSUME NEW i \in DOMAIN queue', queue'[i].n # 0
      PROVE  /\ Agrees(queue', status', upset', "shift", i, {queue'[i].meant.mod})
             /\ queue'[i].meant.mod # "shift" =>
                  Agrees(queue', status', upset', "ctrl", i, {queue'[i].meant.mod})
  <2>1. i \in 1..Len(queue) /\ i + 1 \in DOMAIN queue /\ queue'[i] = queue[i+1] BY <1>1
  <2> DEFINE h == {queue[i+1].meant.mod}
  <2>2. /\ Agrees(queue, status, upset, "shift", i + 1, h)
        /\ queue[i+1].meant.mod # "shift" => Agrees(queue, status, upset, "ctrl", i + 1, h)
    BY <1>5, <2>1 DEF IInv, Modifiers
  <2> HIDE DEF h
  <2>3. "shift" \in Modifier /\ "ctrl" \in Modifier BY Kinds
  <2>4. /\ Agrees(queue', status', upset', "shift", i, h)
        /\ queue[i+1].meant.mod # "shift" => Agrees(queue', status', upset', "ctrl", i, h)
    BY <1>3, <2>1, <2>2, <2>3
  <2> QED BY <2>1, <2>4 DEF h
<1> QED BY <1>2, <1>4, <1>5 DEF Modifiers

\* CONST takes a code, and CONIN takes one and goes on.
LEMMA TakeInv ==
  ASSUME IInv, CkConsol \/ (\E in \in BOOLEAN : DirCio(in)) \/ Wait PROVE IInv'
<1> USE StateFacts
<1> DEFINE e == Head(queue)
<1>1. /\ queue # <<>> /\ queue' = Tail(queue) /\ UNCHANGED <<held, charbuf, direct, typed, got>>
      /\ missed' = missed \cup ({e.n} \ {0}) /\ upset' \subseteq Modifier /\ status' \subseteq Modifier
      /\ pc' \in {"idle", "get", "direct", "peek", "pause"}
      /\ pc' # "idle" => charbuf.n = 0
      /\ direct => pc' \in {"idle", "direct"}
      /\ \A m \in Modifier :
           \/ m \in upset'
           \/ e.key # m /\ m \notin upset /\ (m \in status <=> m \in status')
           \/ e.key = m /\ (m \in status' <=> e.down)
  <2>1. CASE CkConsol \/ \E in \in BOOLEAN : DirCio(in)
    <3>1. /\ Poll /\ UNCHANGED <<held, status, charbuf, direct, typed, got>> /\ pc = "idle"
          /\ pc' \in {"idle", "direct", "peek"} /\ (direct \/ charbuf.char = None)
          /\ direct => pc' # "peek"
      BY <2>1 DEF CkConsol, DirCio
    <3>2. /\ queue # <<>> /\ queue' = Tail(queue) /\ upset' = upset \cup ({e.key} \cap Modifier)
          /\ missed' = (IF e.n # 0 THEN missed \cup {e.n} ELSE missed)
      BY <3>1 DEF Poll
    <3>3. missed' = missed \cup ({e.n} \ {0}) BY <3>2
    <3>4. upset' \subseteq Modifier /\ status' \subseteq Modifier BY <3>1, <3>2 DEF IInv, TypeOK
    <3>5. charbuf.n = 0 BY <3>1 DEF IInv, Numbers
    <3>6. \A m \in Modifier : m \in upset' \/ (e.key # m /\ m \notin upset) BY <3>2
    <3> HIDE DEF e
    <3> QED BY <3>1, <3>2, <3>3, <3>4, <3>5, <3>6
  <2>2. CASE Wait
    <3>1. /\ pc # "idle" /\ queue # <<>> /\ queue' = Tail(queue) /\ (~e.down \/ e.key \in Modifier)
          /\ status' = (IF e.key \notin Modifier THEN status
                       ELSE IF e.down THEN status \cup {e.key} ELSE status \ {e.key})
          /\ upset' = upset \ {e.key} /\ UNCHANGED <<held, charbuf, direct, pc, typed, got, missed>>
      BY <2>2 DEF Wait
    <3>2. e.n = 0
      <4>1. e = queue[1] /\ 1 \in DOMAIN queue BY <3>1, TailFacts
      <4> QED BY <3>1, <4>1, Kinds DEF IInv, Numbers, Coded
    <3>3. missed' = missed \cup ({e.n} \ {0}) BY <3>1, <3>2
    <3> QED BY <3>1, <3>3 DEF IInv, TypeOK, Numbers
  <2> QED BY <2>1, <2>2
<1>2. e \in CodeOf /\ Tail(queue) \in Seq(CodeOf) /\ Len(Tail(queue)) <= MaxQueue
  BY <1>1, TailFacts, Kinds DEF IInv, TypeOK
<1>3. TypeOK'
  <2>1. e.n \in 0..MaxTyped /\ missed \subseteq 1..MaxTyped /\ missed' = missed \cup ({e.n} \ {0})
    BY <1>1, <1>2, CodeFacts DEF IInv, TypeOK
  <2>2. PICK n \in 0..MaxTyped : missed' = missed \cup ({n} \ {0}) BY <2>1
  <2>3. missed' \subseteq 1..MaxTyped BY <2>1, <2>2, Taken
  <2> QED BY <1>1, <1>2, <2>3 DEF IInv, TypeOK
<1>4. /\ Ordered(queue', got, charbuf.n, typed)
      /\ Somewhere(queue', got, charbuf.n, typed, missed')
  BY <1>1, OrderedTail
<1>5. Modifiers' /\ \A i \in DOMAIN queue' : Coded(queue'[i]) BY <1>1, ReadModifiers
<1>6. Numbers' BY <1>1, <1>4, <1>5 DEF IInv, Numbers
<1> QED BY <1>3, <1>5, <1>6 DEF IInv

\* CONIN returns with a character.
LEMMA ReturnInv ==
  ASSUME IInv, Return
  PROVE  IInv' /\ (got' # got => got' > got /\ (got + 1)..(got' - 1) \subseteq missed)
<1> USE StateFacts
<1> DEFINE e == Head(queue)
           n == e.n
           c == KeyChar(e.key)
<1>1. /\ pc # "idle" /\ queue # <<>> /\ queue' = Tail(queue) /\ e.down /\ e.key \notin Modifier
      /\ status' = (IF c = CntrlC THEN status \ {"ctrl"} ELSE status)
      /\ upset' = (IF c = CntrlC THEN upset \cup {"ctrl"} ELSE upset)
      /\ Deliver(c, n) /\ UNCHANGED <<held, direct, typed>>
  BY DEF Return
<1>2. e \in CodeOf /\ Tail(queue) \in Seq(CodeOf) /\ Len(Tail(queue)) <= MaxQueue
      /\ 1 \in DOMAIN queue /\ queue[1] = e
  BY <1>1, TailFacts, Kinds DEF IInv, TypeOK
<1>3. n \in Nat /\ n \in 0..MaxTyped BY <1>2, CodeFacts
<1>4. (n # 0 <=> e.key \in CharKey) /\ (n # 0 <=> c # None) /\ c \in Char \cup {None}
  <2>1. n # 0 <=> e.key \in CharKey BY <1>1, <1>2 DEF IInv, Numbers, Coded
  <2>2. CASE e.key \in CharKey BY <2>1, <2>2, CharFacts DEF KeyChar
  <2>3. CASE e.key \notin CharKey
    <3>1. e.key = "alt" BY <1>1, <1>2, <2>3, CodeFacts, Kinds
    <3> QED BY <2>1, <2>3, <3>1 DEF KeyChar, CharOf
  <2> QED BY <2>1, <2>2, <2>3
<1>5. charbuf.n = 0 BY <1>1 DEF IInv, Numbers
<1>6. Modifiers' /\ \A i \in DOMAIN queue' : Coded(queue'[i])
  <2>1. \A m \in Modifier :
           \/ m \in upset'
           \/ e.key # m /\ m \notin upset /\ (m \in status <=> m \in status')
    BY <1>1
  <2> QED BY <1>1, <2>1, ReadModifiers
<1>7. /\ Ordered(queue', got, 0, typed) /\ Somewhere(queue', got, 0, typed, missed \cup ({n} \ {0}))
      /\ n # 0 =>
           /\ Ordered(queue', n, 0, typed) /\ Somewhere(queue', n, 0, typed, missed)
           /\ Ordered(queue', got, n, typed) /\ Somewhere(queue', got, n, typed, missed)
           /\ n > got /\ (got+1)..(n-1) \subseteq missed
  BY <1>1, <1>5, OrderedTail
<1>8. status' \subseteq Modifier /\ upset' \subseteq Modifier BY <1>1, Kinds DEF IInv, TypeOK
<1> HIDE DEF e, n, c
<1>9. CASE pc \in {"get", "direct"}
  <2>1. pc' = "idle" /\ got' = (IF n # 0 THEN n ELSE got) /\ UNCHANGED <<charbuf, missed>>
    BY <1>1, <1>9 DEF Deliver
  <2>2. TypeOK' BY <1>1, <1>2, <1>3, <1>8, <2>1 DEF IInv, TypeOK
  <2>3. missed \cup ({n} \ {0}) = missed \/ n # 0 OBVIOUS
  <2>4. Ordered(queue', got', 0, typed) /\ Somewhere(queue', got', 0, typed, missed)
    BY <1>7, <2>1, <2>3
  <2>5. Numbers' BY <1>1, <1>5, <1>6, <2>1, <2>4 DEF IInv, Numbers
  <2> QED BY <1>6, <1>7, <2>1, <2>2, <2>5 DEF IInv
<1>10. CASE pc = "peek" /\ c = CntrlS
  <2>1. pc' = "pause" /\ missed' = missed \cup {n} /\ UNCHANGED <<charbuf, got>>
    BY <1>1, <1>10 DEF Deliver
  <2>2. n # 0 BY <1>4, <1>10 DEF CntrlS, None
  <2>3. missed' = missed \cup ({n} \ {0}) /\ n \in 1..MaxTyped BY <1>3, <2>1, <2>2
  <2>4. TypeOK' BY <1>1, <1>2, <1>3, <1>8, <2>1, <2>3 DEF IInv, TypeOK
  <2>5. ~direct BY <1>10 DEF IInv, Numbers
  <2>6. Numbers' BY <1>1, <1>5, <1>6, <1>7, <2>1, <2>3, <2>5 DEF IInv, Numbers
  <2> QED BY <1>6, <2>1, <2>4, <2>6 DEF IInv
<1>11. CASE pc = "peek" /\ c # CntrlS
  <2>1. pc' = "idle" /\ charbuf' = [char |-> c, n |-> n] /\ UNCHANGED <<got, missed>>
    BY <1>1, <1>11 DEF Deliver
  <2>2. TypeOK' BY <1>1, <1>2, <1>3, <1>4, <1>8, <2>1 DEF IInv, TypeOK
  <2>3. missed \cup ({n} \ {0}) = missed \/ n # 0 OBVIOUS
  <2>4. Ordered(queue', got, n, typed) /\ Somewhere(queue', got, n, typed, missed)
    BY <1>7, <2>3
  <2>5. ~direct BY <1>11 DEF IInv, Numbers
  <2> DEFINE x == charbuf'.n
  <2>7. x = n /\ charbuf'.char = c BY <2>1
  <2>8. x # 0 <=> charbuf'.char # None BY <1>4, <2>7
  <2>9. Ordered(queue', got', x, typed') /\ Somewhere(queue', got', x, typed', missed')
    BY <1>1, <2>1, <2>4, <2>7
  <2>6. Numbers' BY <1>1, <1>6, <2>1, <2>5, <2>8, <2>9 DEF IInv, Numbers
  <2> QED BY <1>6, <2>1, <2>2, <2>6 DEF IInv
<1>12. CASE pc = "pause"
  <2>1. /\ pc' = "idle" /\ missed' = (IF n # 0 THEN missed \cup {n} ELSE missed)
        /\ charbuf' = (IF c = CntrlC THEN Empty ELSE charbuf) /\ got' = got
    BY <1>1, <1>12 DEF Deliver
  <2>2. missed' = missed \cup ({n} \ {0}) /\ missed' \subseteq 1..MaxTyped
    BY <1>3, <2>1 DEF IInv, TypeOK
  <2>3. charbuf'.n = 0 /\ charbuf'.char = None /\ charbuf' \in [char: Char \cup {None}, n: 0..MaxTyped]
    BY <1>5, <2>1, Kinds DEF IInv, TypeOK, Numbers, Empty
  <2>4. TypeOK' BY <1>1, <1>2, <1>8, <2>1, <2>2, <2>3 DEF IInv, TypeOK
  <2>5. Numbers' BY <1>1, <1>6, <1>7, <2>1, <2>2, <2>3 DEF IInv, Numbers
  <2> QED BY <1>6, <2>1, <2>4, <2>5 DEF IInv
<1> QED BY <1>1, <1>9, <1>10, <1>11, <1>12 DEF IInv, TypeOK

\* The calls that read no code.
LEMMA CallInv ==
  ASSUME IInv, GetChar \/ WarmBoot
  PROVE  IInv' /\ (got' # got => got' > got /\ (got + 1)..(got' - 1) \subseteq missed)
<1> USE StateFacts
<1>1. UNCHANGED <<held, queue, status, typed, upset>> BY DEF GetChar, WarmBoot
<1>2. Modifiers' BY <1>1 DEF IInv, Modifiers
<1>3. \A i \in DOMAIN queue' : Coded(queue'[i]) BY <1>1 DEF IInv, Numbers
<1> DEFINE n == charbuf.n
<1>4. CASE GetChar /\ charbuf.char # None
  <2>1. charbuf' = Empty /\ got' = n /\ pc' = pc /\ UNCHANGED <<direct, missed>> /\ pc = "idle"
    BY <1>4 DEF GetChar
  <2>2. n # 0 /\ n \in 0..MaxTyped BY <1>4 DEF IInv, Numbers, TypeOK
  <2>3. \A i \in DOMAIN queue : queue[i].n # 0 => n < queue[i].n /\ queue[i].n <= typed
    BY DEF Ordered
  <2>4. Ordered(queue, n, 0, typed) BY <2>2, <2>3 DEF Ordered
  <2>5. Somewhere(queue, n, 0, typed, missed)
    <3> SUFFICES ASSUME NEW m \in n+1..typed
                 PROVE  m \in missed \/ \E i \in DOMAIN queue : queue[i].n = m
      BY DEF Somewhere
    <3>1. m \in got+1..typed /\ m # n BY <2>2 DEF Ordered
    <3> QED BY <3>1 DEF Somewhere
  <2>6. got' > got /\ (got + 1)..(got' - 1) \subseteq missed
    <3>1. n > got /\ n <= typed BY <2>2 DEF Ordered
    <3>2. ASSUME NEW m \in (got+1)..(n-1) PROVE m \in missed
      <4>1. m \in got+1..typed /\ m # n /\ m < n /\ m # 0 BY <3>1
      <4>2. \A i \in DOMAIN queue : queue[i].n # m BY <2>3, <4>1
      <4> QED BY <4>1, <4>2 DEF Somewhere
    <3> QED BY <2>1, <3>1, <3>2
  <2>7. TypeOK' BY <1>1, <2>1, <2>2, Kinds DEF IInv, TypeOK, Empty
  <2>8. Numbers' BY <1>1, <1>3, <2>1, <2>4, <2>5 DEF IInv, Numbers, Empty
  <2> QED BY <1>2, <2>6, <2>7, <2>8 DEF IInv
<1>5. CASE GetChar /\ charbuf.char = None
  <2>1. pc' = "get" /\ UNCHANGED <<charbuf, got, direct, missed>> /\ ~direct BY <1>5 DEF GetChar
  <2>2. TypeOK' BY <1>1, <2>1 DEF IInv, TypeOK
  <2>3. Numbers' BY <1>1, <1>3, <1>5, <2>1 DEF IInv, Numbers
  <2> QED BY <1>2, <2>1, <2>2, <2>3 DEF IInv
<1>6. CASE WarmBoot
  <2>1. /\ pc = "idle" /\ charbuf' = Empty /\ direct' \in BOOLEAN /\ UNCHANGED <<pc, got>>
        /\ missed' = IF n # 0 THEN missed \cup {n} ELSE missed
    BY <1>6 DEF WarmBoot
  <2>2. missed' \subseteq 1..MaxTyped /\ charbuf' \in [char: Char \cup {None}, n: 0..MaxTyped]
    <3>1. n \in 0..MaxTyped /\ missed \subseteq 1..MaxTyped BY DEF IInv, TypeOK
    <3>2. missed' = missed \cup ({n} \ {0}) BY <2>1
    <3> HIDE DEF n
    <3> QED BY <2>1, <3>1, <3>2, Taken, Kinds DEF Empty
  <2>3. TypeOK' BY <1>1, <2>1, <2>2 DEF IInv, TypeOK
  <2>4. Ordered(queue, got, 0, typed) BY DEF Ordered
  <2>5. Somewhere(queue, got, 0, typed, missed')
    <3> SUFFICES ASSUME NEW m \in got+1..typed
                 PROVE  m \in missed' \/ \E i \in DOMAIN queue : queue[i].n = m
      BY DEF Somewhere
    <3> QED BY <2>1 DEF Somewhere
  <2>6. Numbers' BY <1>1, <1>3, <2>1, <2>4, <2>5 DEF IInv, Numbers, Empty
  <2> QED BY <1>2, <2>1, <2>3, <2>6 DEF IInv
<1> QED BY <1>4, <1>5, <1>6
-----------------------------------------------------------------------------
\* A step either leaves the last key delivered or delivers a later one, and
\* keeps the numbers in order and the modifiers told.
LEMMA StepInv ==
  ASSUME IInv, [Next]_vars
  PROVE  IInv' /\ (got' # got => got' > got /\ (got + 1)..(got' - 1) \subseteq missed)
<1>1. CASE \E k \in Key : Press(k) \/ Release(k)
  <2>1. PICK k \in Key : Press(k) \/ Release(k) BY <1>1
  <2>2. got' = got BY <2>1 DEF Press, Release, history
  <2> QED BY <2>1, <2>2, SendInv
<1>2. CASE CkConsol \/ (\E in \in BOOLEAN : DirCio(in)) \/ Wait
  <2>1. got' = got BY <1>2 DEF CkConsol, DirCio, Wait
  <2> QED BY <1>2, <2>1, TakeInv
<1>3. CASE Return BY <1>3, ReturnInv
<1>4. CASE GetChar \/ WarmBoot BY <1>4, CallInv
<1>5. CASE UNCHANGED vars
  BY <1>5 DEF vars, driver, history, IInv, TypeOK, Numbers, Modifiers
<1> QED BY <1>1, <1>2, <1>3, <1>4, <1>5 DEF Next

\* The codes in the queue are numbered in order, every press is delivered,
\* taken or still on its way, and what the driver has of the modifiers is what
\* they were before the codes in the queue.
THEOREM InvCorrect == Spec => []IInv
<1>1. Init => IInv
  <2> SUFFICES ASSUME Init PROVE IInv OBVIOUS
  <2>1. queue = <<>> /\ Len(queue) = 0 /\ DOMAIN queue = {} BY DEF Init
  <2>2. TypeOK BY <2>1, Kinds DEF Init, TypeOK, Empty
  <2>3. Numbers BY <2>1 DEF Init, Numbers, Ordered, Somewhere, Empty
  <2>4. Modifiers BY <2>1 DEF Init, Modifiers, Agrees, NoneOf, LastOf
  <2> QED BY <2>2, <2>3, <2>4 DEF IInv
<1>2. IInv /\ [Next]_vars => IInv' BY StepInv
<1> QED BY <1>1, <1>2, PTL DEF Spec

\* The queue, CHARBUF and the flags of the driver keep their types.
THEOREM TypeCorrect == Spec => []TypeOK
<1>1. IInv => TypeOK BY DEF IInv
<1> QED BY <1>1, InvCorrect, PTL

\* However CONST, CONIN, output and warm boots take turns, a program gets the
\* keys in the order in which they were typed, each once, and misses none but
\* those that CONST or a pause took.
THEOREM InLineCorrect == Spec => InLine
<1>1. IInv /\ [Next]_vars =>
        [got' # got => got' > got /\ (got + 1)..(got' - 1) \subseteq missed]_vars
  BY StepInv
<1> QED BY <1>1, InvCorrect, PTL DEF Spec, InLine

\* A key is read with the modifiers held when it was pressed, however far the
\* driver is behind the user, unless CONST took the code of one or a ^C has
\* cleared it.
THEOREM MeantCorrect == Spec => []Meant
<1>1. IInv => Meant
  <2> SUFFICES ASSUME IInv, upset = {}, queue # <<>>, Head(queue).down, Head(queue).key \notin Modifier
               PROVE  KeyChar(Head(queue).key) = Head(queue).meant
    BY DEF Meant
  <2> DEFINE e == Head(queue)
  <2>1. e \in CodeOf /\ e = queue[1] /\ 1 \in DOMAIN queue BY StateFacts, TailFacts
  <2>2. e.meant.key = e.key /\ (e.key = "alt" => e.meant = None) /\ (e.n # 0 <=> e.key \in CharKey)
    BY <2>1 DEF IInv, Numbers, Coded
  <2>3. CASE e.key = "alt" BY <2>2, <2>3 DEF KeyChar, CharOf
  <2>4. CASE e.key \in CharKey
    <3>1. e.meant \in Char BY <2>1, <2>2, <2>4, CodeFacts, Kinds DEF None
    <3>2. \A m : NoneOf(queue, m, 1) BY DEF NoneOf
    <3>3. /\ e.meant.mod = "shift" <=> "shift" \in status
          /\ e.meant.mod # "shift" => (e.meant.mod = "ctrl" <=> "ctrl" \in status)
      BY <2>1, <2>2, <2>4, <3>2 DEF IInv, Modifiers, Agrees
    <3> HIDE DEF e
    <3> QED BY <2>2, <2>4, <3>1, <3>3, SameChar DEF KeyChar, e
  <2> QED BY <2>1, <2>3, <2>4, CodeFacts, Kinds
<1> QED BY <1>1, InvCorrect, PTL
=============================================================================
