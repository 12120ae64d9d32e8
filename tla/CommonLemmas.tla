---------------------------- MODULE CommonLemmas -----------------------------
(***************************************************************************)
(* Lemmas the proof modules share: about sequences, and induction over the *)
(* natural numbers and definition by recursion, stated with sets and       *)
(* functions in place of predicates and operators, which no step of a      *)
(* proof would have to instantiate.                                        *)
(***************************************************************************)
EXTENDS Tags, FiniteSetTheorems, SequenceTheorems, WellFoundedInduction, TLAPS

\* What is where in the concatenation of two sequences.
LEMMA Concatenation ==
  ASSUME NEW S, NEW a \in Seq(S), NEW b \in Seq(S)
  PROVE  /\ a \o b \in Seq(S) /\ Len(a \o b) = Len(a) + Len(b)
         /\ \A i \in 1 .. Len(a) : (a \o b)[i] = a[i]
         /\ \A i \in Len(a) + 1 .. Len(a) + Len(b) : (a \o b)[i] = b[i - Len(a)]
  OBVIOUS

\* A sequence cut in two.
LEMMA Cut ==
  ASSUME NEW S, NEW s \in Seq(S), NEW k \in 0 .. Len(s)
  PROVE  /\ SubSeq(s, 1, k) \in Seq(S) /\ Len(SubSeq(s, 1, k)) = k
         /\ SubSeq(s, k + 1, Len(s)) \in Seq(S) /\ Len(SubSeq(s, k + 1, Len(s))) = Len(s) - k
         /\ SubSeq(s, 1, k) \o SubSeq(s, k + 1, Len(s)) = s
         /\ k = Len(s) => SubSeq(s, k + 1, Len(s)) = <<>>
<1>1. Len(s) \in Nat /\ k \in Int /\ \A i \in 1 .. Len(s) : s[i] \in S OBVIOUS
<1>2. SubSeq(s, 1, k) \in Seq(S) /\ Len(SubSeq(s, 1, k)) = k OBVIOUS
<1>3. SubSeq(s, k + 1, Len(s)) \in Seq(S) /\ Len(SubSeq(s, k + 1, Len(s))) = Len(s) - k OBVIOUS
<1>4. SubSeq(s, 1, k) \o SubSeq(s, k + 1, Len(s)) = s
  <2> DEFINE x == SubSeq(s, 1, k)
             y == SubSeq(s, k + 1, Len(s))
  <2>1. \A i \in 1 .. k : x[i] = s[i] OBVIOUS
  <2>2. \A i \in k + 1 .. Len(s) : y[i - k] = s[i] OBVIOUS
  <2> HIDE DEF x, y
  <2>3. x \in Seq(S) /\ y \in Seq(S) /\ Len(x) = k /\ Len(y) = Len(s) - k BY <1>2, <1>3 DEF x, y
  <2> DEFINE z == x \o y
  <2>4. z \in Seq(S) /\ Len(z) = Len(s) /\ \A i \in 1 .. k : z[i] = x[i] BY <1>1, <2>3, Concatenation
  <2>5. \A i \in k + 1 .. Len(s) : z[i] = y[i - k]
    <3>1. \A i \in Len(x) + 1 .. Len(x) + Len(y) : z[i] = y[i - Len(x)] BY <2>3, Concatenation
    <3>2. Len(x) + Len(y) = Len(s) BY <1>1, <2>3
    <3> HIDE DEF z
    <3> QED BY <2>3, <3>1, <3>2
  <2> HIDE DEF z
  <2>6. \A i \in 1 .. Len(s) : z[i] = s[i] BY <1>1, <2>1, <2>2, <2>4, <2>5
  <2>7. z = s BY <2>4, <2>6, SeqEqual
  <2> QED BY <2>7 DEF z, x, y
<1>5. k = Len(s) => SubSeq(s, k + 1, Len(s)) = <<>> BY <1>1, SubSeqEmpty
<1> QED BY <1>2, <1>3, <1>4, <1>5

\* Three sequences in a row.
LEMMA Joined ==
  ASSUME NEW S, NEW a \in Seq(S), NEW b \in Seq(S), NEW c \in Seq(S)
  PROVE  a \o b \in Seq(S) /\ a \o b \o c \in Seq(S) /\ a \o (b \o c) = a \o b \o c
<1>1. a \o b \in Seq(S) BY Concatenation
<1>2. a \o b \o c \in Seq(S) BY <1>1, Concatenation
<1>3. (a \o b) \o c = a \o (b \o c) BY ONLY a \in Seq(S), b \in Seq(S), c \in Seq(S), ConcatAssociative
<1> QED BY <1>1, <1>2, <1>3

-----------------------------------------------------------------------------

Four(S, a, b, c, d) == a \in Seq(S) /\ b \in Seq(S) /\ c \in Seq(S) /\ d \in Seq(S)

LEMMA Regrouped ==
  ASSUME NEW S, NEW a, NEW b, NEW c, NEW d, Four(S, a, b, c, d)
  PROVE  a \o b \o c \o d = a \o (b \o c \o d) /\ b \o c \o d \in Seq(S)
<1> DEFINE x == b \o c
<1>0. a \in Seq(S) /\ b \in Seq(S) /\ c \in Seq(S) /\ d \in Seq(S) BY DEF Four
<1>1. a \in Seq(S) /\ b \in Seq(S) /\ c \in Seq(S) BY <1>0
<1>2. x \in Seq(S) /\ a \o x = a \o b \o c BY ONLY <1>1, Joined
<1> HIDE DEF x
<1>3. a \in Seq(S) /\ x \in Seq(S) /\ d \in Seq(S) BY <1>0, <1>2
<1>4. x \o d \in Seq(S) /\ a \o (x \o d) = a \o x \o d BY ONLY <1>3, Joined
<1> QED BY <1>2, <1>4 DEF x

\* Numbers from an interval have a largest: one above which there are fewest.
LEMMA Largest ==
  ASSUME NEW k \in Nat, NEW S, S \subseteq 0 .. k, S # {}
  PROVE  \E i \in S : \A j \in S : j <= i
<1> DEFINE Above(i) == {j \in S : j > i}
           T == {Above(i) : i \in S}
<1>1. IsFiniteSet(S)
  <2>1. S \in SUBSET Nat /\ \A s \in S : s <= k OBVIOUS
  <2> QED BY <2>1, FS_BoundedSetOfNaturals
<1>2. IsWellFoundedOn(StrictSubsetOrdering(S), SUBSET S)
  BY <1>1, FS_StrictSubsetOrderingWellFounded, FS_FiniteSubsetsOfFinite
<1>3. T \subseteq SUBSET S /\ T # {} OBVIOUS
<1>4. PICK x \in T : \A y \in T : ~ (<<y, x>> \in StrictSubsetOrdering(S))
  <2> HIDE DEF T
  <2> QED BY <1>2, <1>3, WFMin
<1>5. PICK i \in S : x = Above(i) OBVIOUS
<1>6. ASSUME NEW j \in S, ~ (j <= i) PROVE FALSE
  <2>1. i \in Int /\ j \in Int /\ j > i
    <3>1. i \in 0 .. k /\ j \in 0 .. k OBVIOUS
    <3> QED BY <3>1, <1>6
  <2>2. j \in Above(i) /\ j \notin Above(j) BY <2>1
  <2>3. ASSUME NEW a \in Above(j) PROVE a \in Above(i)
    <3>1. a \in 0 .. k /\ a \in S /\ a > j OBVIOUS
    <3> QED BY <3>1, <2>1
  <2>4. j \in Above(i) /\ j \notin Above(j) /\ Above(j) \subseteq Above(i) BY <2>2, <2>3, Zenon
  <2>5. <<Above(j), Above(i)>> \in StrictSubsetOrdering(S) BY <2>4 DEF StrictSubsetOrdering
  <2> QED BY <1>4, <1>5, <2>5
<1> QED BY <1>6

\* The last number up to which all are in S is the last one there is.
LEMMA Induction ==
  ASSUME NEW S, 0 \in S, \A n \in Nat : n \in S => n + 1 \in S
  PROVE  Nat \subseteq S
<1> SUFFICES ASSUME NEW k \in Nat, k \notin S PROVE FALSE OBVIOUS
<1> DEFINE Upto == {i \in 0 .. k : \A j \in 0 .. i : j \in S}
<1>1. 0 \in Upto
  <2>1. \A j \in 0 .. 0 : j = 0 OBVIOUS
  <2> QED BY <2>1
<1>2. Upto \subseteq 0 .. k /\ Upto # {} BY <1>1
<1>3. PICK i \in Upto : \A j \in Upto : j <= i
  <2> HIDE DEF Upto
  <2> QED BY <1>2, Largest
<1>4. i \in 0 .. k /\ (\A j \in 0 .. i : j \in S) OBVIOUS
<1>5. i \in S BY <1>4
<1>6. i # k BY <1>5
<1>7. i + 1 \in S BY <1>4, <1>5
<1>8. i + 1 \in Upto
  <2>1. i + 1 \in 0 .. k BY <1>4, <1>6
  <2>2. ASSUME NEW j \in 0 .. i + 1 PROVE j \in S
    <3>1. CASE j = i + 1 BY <3>1, <1>7
    <3>2. CASE j # i + 1
      <4>1. j \in 0 .. i BY <3>2, <1>4
      <4> QED BY <4>1, <1>4
    <3> QED BY <3>1, <3>2
  <2> QED BY <2>1, <2>2
<1> QED BY <1>3, <1>4, <1>8

\* f starts with first and goes on, from its n-th value, as next[n] says.
Iterates(T, first, next, f) ==
  f \in [Nat -> T] /\ f[0] = first /\ \A n \in Nat : f[n + 1] = next[n][f[n]]

\* A first value and a next one for every value make a sequence of values.
LEMMA Iteration ==
  ASSUME NEW T, NEW first \in T, NEW next \in [Nat -> [T -> T]]
  PROVE  \E f : Iterates(T, first, next, f)
<1> DEFINE Upto(n) == {g \in [0 .. n -> T] : g[0] = first /\ \A i \in 0 .. n - 1 : g[i + 1] = next[i][g[i]]}
           S == {n \in Nat : \E g : Upto(n) = {g}}
<1>1. 0 \in S
  <2> DEFINE g == [i \in 0 .. 0 |-> first]
  <2>1. g \in Upto(0) OBVIOUS
  <2>2. ASSUME NEW h \in Upto(0) PROVE h = g
    <3>1. \A i \in 0 .. 0 : i = 0 OBVIOUS
    <3>2. h \in [0 .. 0 -> T] /\ h[0] = first OBVIOUS
    <3> QED BY <3>1, <3>2
  <2> HIDE DEF g, Upto
  <2>3. Upto(0) = {g} BY <2>1, <2>2
  <2> QED BY <2>3
<1>2. ASSUME NEW n \in Nat, n \in S PROVE n + 1 \in S
  <2>1. PICK g : Upto(n) = {g} BY <1>2
  <2>2. g \in [0 .. n -> T] /\ g[0] = first /\ \A i \in 0 .. n - 1 : g[i + 1] = next[i][g[i]] BY <2>1
  <2> DEFINE h == [i \in 0 .. n + 1 |-> IF i <= n THEN g[i] ELSE next[n][g[n]]]
  <2>3. h \in Upto(n + 1)
    <3>1. h \in [0 .. n + 1 -> T]
      <4>1. next[n][g[n]] \in T
        <5>1. g[n] \in T /\ next[n] \in [T -> T] BY <2>2
        <5> QED BY <5>1
      <4> QED BY <2>2, <4>1
    <3>2. h[0] = first BY <2>2
    <3>3. ASSUME NEW i \in 0 .. n PROVE h[i + 1] = next[i][h[i]]
      <4>1. CASE i = n BY <4>1, <2>2
      <4>2. CASE i # n
        <5>1. i \in 0 .. n - 1 /\ i + 1 \in 0 .. n /\ i <= n /\ i + 1 <= n /\ i \in 0 .. n BY <4>2
        <5>2. h[i + 1] = g[i + 1] /\ h[i] = g[i] BY <5>1
        <5> QED BY <5>1, <5>2, <2>2
      <4> QED BY <4>1, <4>2
    <3>4. n + 1 - 1 = n OBVIOUS
    <3> HIDE DEF h
    <3>5. \A i \in 0 .. n + 1 - 1 : h[i + 1] = next[i][h[i]] BY <3>3, <3>4
    <3> QED BY <3>1, <3>2, <3>5
  <2>4. ASSUME NEW q \in Upto(n + 1) PROVE q = h
    <3> DEFINE r == [i \in 0 .. n |-> q[i]]
    <3>1. q \in [0 .. n + 1 -> T] /\ q[0] = first /\ \A i \in 0 .. n : q[i + 1] = next[i][q[i]] OBVIOUS
    <3>2. r \in Upto(n)
      <4>1. r \in [0 .. n -> T] /\ r[0] = first BY <3>1
      <4>2. ASSUME NEW i \in 0 .. n - 1 PROVE r[i + 1] = next[i][r[i]]
        <5>1. i \in 0 .. n /\ i + 1 \in 0 .. n OBVIOUS
        <5> QED BY <3>1, <5>1
      <4> QED BY <4>1, <4>2
    <3>3. r = g BY <3>2, <2>1
    <3> HIDE DEF r
    <3>4. \A i \in 0 .. n : q[i] = g[i]
      <4>1. \A i \in 0 .. n : q[i] = r[i] BY DEF r
      <4> QED BY <4>1, <3>3
    <3>5. q[n + 1] = next[n][g[n]] BY <3>1, <3>4
    <3>6. ASSUME NEW i \in 0 .. n + 1 PROVE q[i] = h[i]
      <4>1. CASE i <= n BY <4>1, <3>4
      <4>2. CASE ~ (i <= n)
        <5>1. i = n + 1 BY <4>2
        <5> QED BY <5>1, <3>5
      <4> QED BY <4>1, <4>2
    <3> HIDE DEF h
    <3>7. h \in [0 .. n + 1 -> T] BY <2>3
    <3> QED BY <3>1, <3>6, <3>7
  <2> HIDE DEF h, Upto
  <2>5. Upto(n + 1) = {h} BY <2>3, <2>4
  <2>6. \E q : Upto(n + 1) = {q} BY <2>5, Zenon
  <2>7. n + 1 \in Nat OBVIOUS
  <2> QED BY <2>6, <2>7, Zenon
<1>3. Nat \subseteq S
  <2> HIDE DEF S
  <2> QED BY <1>1, <1>2, Induction
<1> DEFINE G(n) == CHOOSE g : Upto(n) = {g}
           f == [n \in Nat |-> G(n)[n]]
<1>4. ASSUME NEW n \in Nat PROVE Upto(n) = {G(n)}
  <2> HIDE DEF Upto
  <2>1. \E g : Upto(n) = {g} BY <1>3
  <2> QED BY <2>1
<1>5. ASSUME NEW n \in Nat
      PROVE  /\ G(n) \in [0 .. n -> T] /\ G(n)[0] = first
             /\ \A i \in 0 .. n - 1 : G(n)[i + 1] = next[i][G(n)[i]]
  <2> HIDE DEF G
  <2> QED BY <1>4
<1>6. ASSUME NEW n \in Nat PROVE G(n + 1)[n] = G(n)[n]
  <2> DEFINE q == G(n + 1)
             r == [i \in 0 .. n |-> q[i]]
  <2>1. q \in [0 .. n + 1 -> T] /\ q[0] = first /\ \A i \in 0 .. n : q[i + 1] = next[i][q[i]]
    <3>1. n + 1 \in Nat /\ n + 1 - 1 = n OBVIOUS
    <3> HIDE DEF G
    <3> QED BY <3>1, <1>5
  <2> HIDE DEF q
  <2>2. r \in Upto(n)
    <3>1. r \in [0 .. n -> T] /\ r[0] = first BY <2>1
    <3>2. ASSUME NEW i \in 0 .. n - 1 PROVE r[i + 1] = next[i][r[i]]
      <4>1. i \in 0 .. n /\ i + 1 \in 0 .. n OBVIOUS
      <4> QED BY <2>1, <4>1
    <3> QED BY <3>1, <3>2
  <2>3. r = G(n)
    <3> HIDE DEF r, G, Upto
    <3> QED BY <2>2, <1>4
  <2>4. r[n] = q[n] OBVIOUS
  <2> HIDE DEF r, G
  <2> QED BY <2>3, <2>4 DEF q
<1> HIDE DEF G
<1>7. f \in [Nat -> T]
  <2>1. \A n \in Nat : G(n)[n] \in T BY <1>5
  <2> QED BY <2>1
<1>8. f[0] = first BY <1>5
<1>9. ASSUME NEW n \in Nat PROVE f[n + 1] = next[n][f[n]]
  <2>1. n + 1 \in Nat /\ n \in 0 .. n + 1 - 1 OBVIOUS
  <2>2. G(n + 1)[n + 1] = next[n][G(n + 1)[n]] BY <2>1, <1>5
  <2> QED BY <2>1, <2>2, <1>6
<1> HIDE DEF f
<1>10. Iterates(T, first, next, f) BY <1>7, <1>8, <1>9 DEF Iterates
<1> QED BY <1>10

\* 2 to the power k, for each k.
Doubles == CHOOSE g : g = [k \in Nat |-> IF k = 0 THEN 1 ELSE 2 * g[k - 1]]

LEMMA Doubling ==
  /\ Doubles \in [Nat -> Nat]
  /\ Doubles[0] = 1 /\ \A k \in Nat : Doubles[k + 1] = 2 * Doubles[k]
<1> DEFINE Doubled(f) == [k \in Nat |-> IF k = 0 THEN 1 ELSE 2 * f[k - 1]]
           double == [k \in Nat |-> [n \in Nat |-> 2 * n]]
<1>1. double \in [Nat -> [Nat -> Nat]]
  OBVIOUS
<1>2. PICK f \in [Nat -> Nat] : f[0] = 1 /\ \A k \in Nat : f[k + 1] = double[k][f[k]]
  <2> HIDE DEF double
  <2>1. \E f : Iterates(Nat, 1, double, f)
    BY <1>1, Iteration
  <2>2. QED
    BY <2>1 DEF Iterates
<1>3. f = Doubled(f)
  <2>1. ASSUME NEW k \in Nat PROVE f[k] = Doubled(f)[k]
    <3>1. CASE k = 0
      BY <1>2, <3>1
    <3>2. CASE k # 0
      <4>1. k - 1 \in Nat /\ k - 1 + 1 = k
        BY <3>2
      <4>2. f[k] = double[k - 1][f[k - 1]]
        BY <1>2, <4>1
      <4>3. QED
        BY <1>2, <3>2, <4>1, <4>2
    <3>3. QED
      BY <3>1, <3>2
  <2>2. QED
    BY <1>2, <2>1
<1> DEFINE p == CHOOSE g : g = Doubled(g)
<1>4. p = Doubled(p)
  BY <1>3
<1>5. Doubles = p
  BY DEF Doubles
<1>6. Doubles[0] = 1 /\ \A k \in Nat : Doubles[k + 1] = 2 * Doubles[k]
  <2> HIDE DEF p
  <2>1. Doubles = Doubled(Doubles)
    BY <1>4, <1>5
  <2>2. \A k \in Nat : Doubles[k] = IF k = 0 THEN 1 ELSE 2 * Doubles[k - 1]
    BY <2>1
  <2>3. \A k \in Nat : k + 1 \in Nat /\ k + 1 # 0 /\ k + 1 - 1 = k
    OBVIOUS
  <2>4. QED
    BY <2>2, <2>3
<1>7. Doubles \in [Nat -> Nat]
  <2> DEFINE S == {k \in Nat : Doubles[k] \in Nat}
  <2>1. 0 \in S /\ \A k \in Nat : k \in S => k + 1 \in S
    BY <1>6
  <2>2. Nat \subseteq S
    <3> HIDE DEF S
    <3>1. QED
      BY <2>1, Induction
  <2>3. \A k \in Nat : Doubles[k] \in Nat
    BY <2>2
  <2>4. Doubles = [k \in Nat |-> Doubles[k]]
    BY <1>4, <1>5
  <2>5. QED
    BY <2>3, <2>4
<1>8. QED
  BY <1>6, <1>7

\* Natural numbers have a least: the largest number below all of them.
LEMMA Least ==
  ASSUME NEW S, S \subseteq Nat, S # {}
  PROVE  \E x \in S : \A y \in S : x <= y
<1>1. PICK k \in S : k \in Nat OBVIOUS
<1> DEFINE Lower == {i \in 0 .. k : \A y \in S : i <= y}
<1>2. 0 \in Lower BY <1>1
<1>3. PICK i \in Lower : \A j \in Lower : j <= i
  <2>1. Lower \subseteq 0 .. k /\ Lower # {} BY <1>2
  <2> HIDE DEF Lower
  <2> QED BY <1>1, <2>1, Largest
<1>4. i \in 0 .. k /\ \A y \in S : i <= y OBVIOUS
<1>5. i \in S
  <2> SUFFICES ASSUME i \notin S PROVE FALSE OBVIOUS
  <2>1. \A y \in S : i + 1 <= y BY <1>4
  <2>2. i + 1 \in Lower BY <1>1, <1>4, <2>1
  <2> QED BY <1>3, <1>4, <2>2
<1> QED BY <1>4, <1>5

-----------------------------------------------------------------------------

\* f is what there is of the flattened sequence after each of its members.
Flattens(S, seqs, f) ==
  /\ f \in [0 .. Len(seqs) -> Seq(S)] /\ f[0] = <<>>
  /\ \A i \in 1 .. Len(seqs) : f[i] = f[i - 1] \o seqs[i]

LEMMA FlattenedSoFar ==
  ASSUME NEW S, NEW seqs \in Seq(Seq(S))
  PROVE  \E f : Flattens(S, seqs, f)
<1> DEFINE member(n) == IF n < Len(seqs) THEN seqs[n + 1] ELSE <<>>
           next == [n \in Nat |-> [s \in Seq(S) |-> s \o member(n)]]
<1>1. ASSUME NEW n \in Nat PROVE member(n) \in Seq(S)
  <2>1. Len(seqs) \in Nat /\ (n < Len(seqs) => n + 1 \in 1 .. Len(seqs)) OBVIOUS
  <2>2. \A i \in 1 .. Len(seqs) : seqs[i] \in Seq(S) OBVIOUS
  <2> QED BY <2>1, <2>2
<1> HIDE DEF member
<1>2. next \in [Nat -> [Seq(S) -> Seq(S)]]
  <2>1. ASSUME NEW n \in Nat, NEW s \in Seq(S) PROVE s \o member(n) \in Seq(S)
    BY <1>1, Concatenation
  <2> QED BY <2>1
<1>3. <<>> \in Seq(S) OBVIOUS
<1>4. PICK f : Iterates(Seq(S), <<>>, next, f)
  <2> HIDE DEF next
  <2> QED BY <1>2, <1>3, Iteration
<1>5. /\ f \in [Nat -> Seq(S)] /\ f[0] = <<>> /\ \A n \in Nat : f[n + 1] = f[n] \o member(n)
  <2>1. /\ f \in [Nat -> Seq(S)] /\ f[0] = <<>> /\ \A n \in Nat : f[n + 1] = next[n][f[n]]
    <3> HIDE DEF next
    <3> QED BY <1>4 DEF Iterates
  <2> QED BY <2>1
<1> DEFINE g == [n \in 0 .. Len(seqs) |-> f[n]]
<1>6. Len(seqs) \in Nat /\ 0 \in 0 .. Len(seqs) OBVIOUS
<1>7. g \in [0 .. Len(seqs) -> Seq(S)] /\ g[0] = <<>> BY <1>5, <1>6
<1>8. ASSUME NEW i \in 1 .. Len(seqs) PROVE g[i] = g[i - 1] \o seqs[i]
  <2>1. i - 1 \in Nat /\ i \in 0 .. Len(seqs) /\ i - 1 \in 0 .. Len(seqs) /\ i - 1 + 1 = i /\ i - 1 < Len(seqs)
    BY <1>6
  <2>2. f[i] = f[i - 1] \o member(i - 1) BY <1>5, <2>1
  <2>3. member(i - 1) = seqs[i] BY <2>1 DEF member
  <2> QED BY <2>1, <2>2, <2>3
<1> HIDE DEF g
<1>9. Flattens(S, seqs, g) BY <1>7, <1>8 DEF Flattens
<1> QED BY <1>9

LEMMA FlattenedAtLast ==
  ASSUME NEW S, NEW seqs \in Seq(Seq(S)), NEW f, Flattens(S, seqs, f)
  PROVE  FlattenSeq(seqs) = f[Len(seqs)] /\ FlattenSeq(seqs) \in Seq(S)
<1> DEFINE n == Len(seqs)
           Body(h) == [i \in 1 .. n |-> IF i = 1 THEN seqs[i] ELSE h[i - 1] \o seqs[i]]
<1>1. /\ n \in Nat /\ f \in [0 .. n -> Seq(S)] /\ f[0] = <<>> /\ \A i \in 1 .. n : f[i] = f[i - 1] \o seqs[i]
      /\ \A i \in 1 .. n : seqs[i] \in Seq(S)
  <2>1. n \in Nat /\ \A i \in 1 .. n : seqs[i] \in Seq(S) OBVIOUS
  <2>2. f \in [0 .. n -> Seq(S)] /\ f[0] = <<>> /\ \A i \in 1 .. n : f[i] = f[i - 1] \o seqs[i]
    BY DEF Flattens
  <2> QED BY <2>1, <2>2
<1>2. CASE n = 0
  <2>1. seqs = <<>> BY <1>2
  <2>2. FlattenSeq(seqs) = <<>> BY <1>2, <2>1 DEF FlattenSeq
  <2>3. <<>> \in Seq(S) OBVIOUS
  <2> QED BY <1>1, <1>2, <2>2, <2>3
<1>3. CASE n # 0
  <2>0. f[1] = seqs[1]
    <3>1. 1 \in 1 .. n /\ 1 - 1 = 0 BY <1>1, <1>3
    <3>2. f[1] = <<>> \o seqs[1] /\ seqs[1] \in Seq(S) BY <1>1, <3>1
    <3> QED BY <3>2, ConcatEmptySeq
  <2>1. \E h : h = Body(h)
    <3> DEFINE h == [i \in 1 .. n |-> f[i]]
    <3>1. ASSUME NEW i \in 1 .. n PROVE h[i] = IF i = 1 THEN seqs[i] ELSE h[i - 1] \o seqs[i]
      <4>1. CASE i = 1 BY <2>0, <4>1
      <4>2. CASE i # 1
        <5>1. i - 1 \in 1 .. n BY <1>1, <4>2
        <5> QED BY <1>1, <4>2, <5>1
      <4> QED BY <4>1, <4>2
    <3> HIDE DEF n
    <3>2. h = Body(h) BY <3>1
    <3> HIDE DEF h, Body
    <3> QED BY <3>2
  <2> DEFINE q == CHOOSE h : h = Body(h)
  <2>2. q = Body(q)
    <3> HIDE DEF Body
    <3> QED BY <2>1
  <2>3. FlattenSeq(seqs) = q[n] BY <1>3 DEF FlattenSeq
  <2> HIDE DEF q, n
  <2>4. \A i \in 1 .. n : q[i] = IF i = 1 THEN seqs[i] ELSE q[i - 1] \o seqs[i] BY <2>2
  <2> HIDE DEF Body
  <2> DEFINE T == {i \in Nat : i + 1 <= n => q[i + 1] = f[i + 1]}
  <2>5. 0 \in T
    <3>1. 1 \in 1 .. n BY <1>1, <1>3
    <3> QED BY <2>0, <2>4, <3>1
  <2>6. ASSUME NEW i \in Nat, i \in T PROVE i + 1 \in T
    <3> SUFFICES ASSUME i + 1 + 1 <= n PROVE q[i + 1 + 1] = f[i + 1 + 1] OBVIOUS
    <3> DEFINE j == i + 1
               k == j + 1
    <3>1. j \in 1 .. n /\ k \in 1 .. n /\ k # 1 /\ k - 1 = j BY <1>1
    <3>2. q[j] = f[j] BY <1>1, <2>6, <3>1
    <3> HIDE DEF j, k
    <3>3. q[k] = q[j] \o seqs[k] /\ f[k] = f[j] \o seqs[k] BY <1>1, <2>4, <3>1
    <3>4. q[k] = f[k] BY <3>2, <3>3
    <3> QED BY <3>4 DEF j, k
  <2>7. Nat \subseteq T
    <3> HIDE DEF T
    <3> QED BY <2>5, <2>6, Induction
  <2>8. n - 1 \in Nat /\ n - 1 + 1 = n /\ n \in 0 .. n BY <1>1, <1>3
  <2>9. q[n] = f[n]
    <3>1. n - 1 \in T BY <2>7, <2>8
    <3> QED BY <1>1, <2>8, <3>1
  <2>10. f[n] \in Seq(S) BY <1>1, <2>8
  <2> QED BY <2>3, <2>9, <2>10 DEF n
<1> QED BY <1>2, <1>3

\* Flattening a longer sequence, and a sequence from its second member.
LEMMA FlattenAppend ==
  ASSUME NEW S, NEW seqs \in Seq(Seq(S)), NEW s \in Seq(S)
  PROVE  FlattenSeq(Append(seqs, s)) = FlattenSeq(seqs) \o s /\ FlattenSeq(seqs) \in Seq(S)
<1> DEFINE z == Append(seqs, s)
           n == Len(seqs)
<1>1. /\ z \in Seq(Seq(S)) /\ Len(z) = n + 1 /\ n \in Nat /\ z[n + 1] = s
      /\ \A i \in 1 .. n : z[i] = seqs[i]
  OBVIOUS
<1>2. PICK f : Flattens(S, seqs, f) BY FlattenedSoFar
<1>3. FlattenSeq(seqs) = f[n] /\ FlattenSeq(seqs) \in Seq(S) BY <1>2, FlattenedAtLast
<1>4. /\ f \in [0 .. n -> Seq(S)] /\ f[0] = <<>> /\ \A i \in 1 .. n : f[i] = f[i - 1] \o seqs[i]
  BY <1>2 DEF Flattens
<1> DEFINE t == f[n] \o s
           g == [i \in 0 .. n + 1 |-> IF i = n + 1 THEN t ELSE f[i]]
<1> HIDE DEF n, z
<1>5. t \in Seq(S)
  <2>1. f[n] \in Seq(S) BY <1>1, <1>4
  <2> QED BY <2>1, Concatenation
<1> HIDE DEF t
<1>6. g \in [0 .. n + 1 -> Seq(S)] /\ g[0] = <<>> /\ g[n + 1] = t
  <2>1. \A i \in 0 .. n + 1 : (IF i = n + 1 THEN t ELSE f[i]) \in Seq(S) BY <1>1, <1>4, <1>5
  <2> QED BY <1>1, <1>4, <2>1
<1>7. ASSUME NEW i \in 1 .. n + 1 PROVE g[i] = g[i - 1] \o z[i]
  <2>1. CASE i = n + 1
    <3>1. i - 1 = n /\ n \in 0 .. n + 1 /\ n # n + 1 BY <1>1, <2>1
    <3>2. g[i - 1] = f[n] BY <3>1
    <3> QED BY <1>1, <1>6, <2>1, <3>2 DEF t
  <2>2. CASE i # n + 1
    <3>1. i \in 1 .. n /\ i \in 0 .. n + 1 /\ i - 1 \in 0 .. n + 1 /\ i - 1 # n + 1 BY <1>1, <2>2
    <3> QED BY <1>1, <1>4, <2>2, <3>1
  <2> QED BY <2>1, <2>2
<1> HIDE DEF g
<1>8. Flattens(S, z, g) BY <1>1, <1>6, <1>7 DEF Flattens
<1>9. FlattenSeq(z) = g[n + 1] BY <1>1, <1>8, FlattenedAtLast
<1>10. FlattenSeq(z) = FlattenSeq(seqs) \o s BY <1>3, <1>6, <1>9 DEF t
<1> QED BY <1>3, <1>10 DEF z

LEMMA FlattenTail ==
  ASSUME NEW S, NEW seqs \in Seq(Seq(S)), seqs # <<>>
  PROVE  /\ FlattenSeq(seqs) = Head(seqs) \o FlattenSeq(Tail(seqs))
         /\ Head(seqs) \in Seq(S) /\ FlattenSeq(Tail(seqs)) \in Seq(S)
<1> DEFINE z == Tail(seqs)
           h == Head(seqs)
           n == Len(z)
<1>1. /\ z \in Seq(Seq(S)) /\ Len(seqs) = n + 1 /\ n \in Nat /\ h = seqs[1] /\ h \in Seq(S)
      /\ \A i \in 1 .. n : z[i] = seqs[i + 1] /\ z[i] \in Seq(S)
  OBVIOUS
<1> HIDE DEF z, h, n
<1>2. PICK f : Flattens(S, z, f) BY <1>1, FlattenedSoFar
<1>3. FlattenSeq(z) = f[n] /\ FlattenSeq(z) \in Seq(S) BY <1>1, <1>2, FlattenedAtLast DEF n
<1>4. /\ f \in [0 .. n -> Seq(S)] /\ f[0] = <<>> /\ \A i \in 1 .. n : f[i] = f[i - 1] \o z[i]
  BY <1>2 DEF Flattens, n
<1> DEFINE g == [i \in 0 .. n + 1 |-> IF i = 0 THEN <<>> ELSE h \o f[i - 1]]
<1>5. g \in [0 .. n + 1 -> Seq(S)] /\ g[0] = <<>> /\ g[n + 1] = h \o f[n]
  <2>1. ASSUME NEW i \in 0 .. n + 1 PROVE (IF i = 0 THEN <<>> ELSE h \o f[i - 1]) \in Seq(S)
    <3>1. CASE i = 0 BY <3>1
    <3>2. CASE i # 0
      <4>1. i - 1 \in 0 .. n BY <1>1, <3>2
      <4>2. f[i - 1] \in Seq(S) BY <1>4, <4>1
      <4>3. h \o f[i - 1] \in Seq(S) BY <1>1, <4>2, Concatenation
      <4> QED BY <3>2, <4>3
    <3> QED BY <3>1, <3>2
  <2>2. 0 \in 0 .. n + 1 /\ n + 1 \in 0 .. n + 1 /\ n + 1 # 0 /\ n + 1 - 1 = n BY <1>1
  <2>3. g \in [0 .. n + 1 -> Seq(S)] BY <2>1
  <2>4. g[0] = <<>> BY <2>2
  <2>5. \A m \in 0 .. n + 1 : m = n + 1 => g[m] = h \o f[n]
    <3> SUFFICES ASSUME NEW m \in 0 .. n + 1, m = n + 1 PROVE g[m] = h \o f[n] OBVIOUS
    <3>1. m # 0 /\ m - 1 = n BY <1>1
    <3>2. \A i \in 0 .. n + 1 : g[i] = IF i = 0 THEN <<>> ELSE h \o f[i - 1] OBVIOUS
    <3> HIDE DEF g
    <3> QED BY <3>1, <3>2
  <2> QED BY <2>2, <2>3, <2>4, <2>5
<1>6. ASSUME NEW i \in 1 .. n + 1 PROVE g[i] = g[i - 1] \o seqs[i]
  <2>1. CASE i = 1
    <3>1. 0 \in 0 .. n + 1 /\ 1 \in 0 .. n + 1 /\ 1 - 1 = 0 BY <1>1
    <3>2. g[1] = h \o <<>> /\ g[0] = <<>>
      <4>1. g[0] = <<>> BY <3>1
      <4>2. g[1] = h \o f[1 - 1] BY <3>1
      <4> QED BY <1>4, <3>1, <4>1, <4>2
    <3>3. h \o <<>> = h /\ <<>> \o h = h BY <1>1, ConcatEmptySeq
    <3> HIDE DEF g
    <3> QED BY <1>1, <2>1, <3>1, <3>2, <3>3
  <2>2. CASE i # 1
    <3> DEFINE j == i - 1
               k == j - 1
    <3>1. /\ j \in 1 .. n /\ k \in 0 .. n /\ j \in 0 .. n + 1 /\ i \in 0 .. n + 1 /\ j # 0 /\ i # 0 /\ j + 1 = i
      BY <1>1, <2>2
    <3>2. g[i] = h \o f[j] /\ g[j] = h \o f[k] BY <3>1
    <3>3. f[j] = f[k] \o z[j] /\ z[j] = seqs[j + 1] /\ f[k] \in Seq(S) /\ z[j] \in Seq(S) BY <1>1, <1>4, <3>1
    <3> HIDE DEF j, k, g
    <3>4. z[j] = seqs[i] BY <3>1, <3>3
    <3>5. h \o (f[k] \o z[j]) = (h \o f[k]) \o z[j]
      <4> DEFINE a == f[k]
                 b == z[j]
      <4>1. a \in Seq(S) /\ b \in Seq(S) /\ h \in Seq(S) BY <1>1, <3>3
      <4> HIDE DEF a, b
      <4>2. (h \o a) \o b = h \o (a \o b) BY ONLY <4>1, ConcatAssociative
      <4> QED BY <4>2 DEF a, b
    <3>6. g[i] = g[j] \o seqs[i] BY <3>2, <3>3, <3>4, <3>5
    <3> QED BY <3>6 DEF j
  <2> QED BY <2>1, <2>2
<1> HIDE DEF g
<1>7. Flattens(S, seqs, g) BY <1>1, <1>5, <1>6 DEF Flattens
<1>8. FlattenSeq(seqs) = g[n + 1] BY <1>1, <1>7, FlattenedAtLast
<1>9. FlattenSeq(seqs) = h \o FlattenSeq(z) BY <1>3, <1>5, <1>8
<1> QED BY <1>1, <1>3, <1>9 DEF z, h

LEMMA FlattenEmpty == FlattenSeq(<<>>) = <<>>
  BY DEF FlattenSeq

-----------------------------------------------------------------------------

\* The same items, whichever of the places they are at: those published, in the
\* span, retained and on their way.  Retained items come into the span.
LEMMA RetainedInSpan ==
  ASSUME NEW S, NEW a \in Seq(S), NEW b \in Seq(S), NEW c \in Seq(S)
  PROVE  a \o b \o c = a \o <<>> \o (b \o c)
<1>1. a \o <<>> = a BY ConcatEmptySeq
<1>2. a \o (b \o c) = a \o b \o c BY Joined
<1> QED BY <1>1, <1>2

\* The span is published.
LEMMA SpanPublished ==
  ASSUME NEW S, NEW a \in Seq(S), NEW b \in Seq(S), NEW c \in Seq(S)
  PROVE  a \o b \o <<>> \o c = a \o b \o c
<1>1. a \o b \in Seq(S) BY Joined
<1>2. a \o b \o <<>> = a \o b BY <1>1, ConcatEmptySeq
<1> QED BY <1>2

\* n numbers from the first.  Adjacent ones, a from j and n from p, are t in all.
Numbers(first, n) == [i \in 1 .. n |-> first + i - 1]

Adjoin(j, a, p, n, t) == j \in Int /\ a \in Nat /\ p = j + a /\ n \in Nat /\ t = a + n

LEMMA Adjacent ==
  ASSUME NEW j, NEW a, NEW p, NEW n, NEW t, Adjoin(j, a, p, n, t)
  PROVE  Numbers(j, a) \o Numbers(p, n) = Numbers(j, t)
<1> DEFINE x == Numbers(j, a)
           y == Numbers(p, n)
           z == Numbers(j, t)
<1>0. j \in Int /\ a \in Nat /\ p \in Int /\ p = j + a /\ n \in Nat /\ t \in Nat /\ t = a + n BY DEF Adjoin
<1>1. x \in Seq(Int) /\ Len(x) = a /\ \A i \in 1 .. a : x[i] = j + i - 1 BY <1>0 DEF Numbers
<1>2. y \in Seq(Int) /\ Len(y) = n /\ \A i \in 1 .. n : y[i] = p + i - 1 BY <1>0 DEF Numbers
<1>3. z \in Seq(Int) /\ Len(z) = t /\ \A i \in 1 .. t : z[i] = j + i - 1 BY <1>0 DEF Numbers
<1> HIDE DEF x, y, z
<1>5. /\ x \o y \in Seq(Int) /\ Len(x \o y) = a + n /\ \A i \in 1 .. a : (x \o y)[i] = x[i]
      /\ \A i \in a + 1 .. a + n : (x \o y)[i] = y[i - a]
  <2>1. /\ x \o y \in Seq(Int) /\ Len(x \o y) = Len(x) + Len(y) /\ \A i \in 1 .. Len(x) : (x \o y)[i] = x[i]
        /\ \A i \in Len(x) + 1 .. Len(x) + Len(y) : (x \o y)[i] = y[i - Len(x)]
    BY <1>0, <1>1, <1>2, Concatenation
  <2> QED BY <1>0, <1>1, <1>2, <2>1
<1>6. ASSUME NEW i \in 1 .. a + n PROVE (x \o y)[i] = z[i]
  <2>1. CASE i <= a BY <1>0, <1>1, <1>3, <1>5, <2>1
  <2>2. CASE ~ (i <= a)
    <3>1. i \in a + 1 .. a + n /\ i - a \in 1 .. n BY <1>0, <2>2
    <3>2. y[i - a] = p + (i - a) - 1 BY <1>0, <1>2, <3>1
    <3>3. z[i] = j + i - 1 /\ (x \o y)[i] = y[i - a] BY <1>0, <1>3, <1>5, <3>1
    <3> QED BY <1>0, <3>1, <3>2, <3>3
  <2> QED BY <2>1, <2>2
<1>7. x \o y = z
  <2> DEFINE w == x \o y
  <2>1. w \in Seq(Int) /\ Len(w) = Len(z) /\ \A i \in 1 .. Len(w) : w[i] = z[i] BY <1>0, <1>3, <1>5, <1>6
  <2> HIDE DEF w
  <2>2. w = z BY <1>0, <1>3, <2>1, SeqEqual
  <2> QED BY <2>2 DEF w
<1> QED BY <1>0, <1>7 DEF x, y, z

-----------------------------------------------------------------------------

\* Multiples of a sum, and of something larger.
LEMMA Multiples ==
  ASSUME NEW a \in Int, NEW b \in Int, NEW c \in Int
  PROVE  a * c \in Int /\ (a + b) * c = a * c + b * c /\ (a - b) * c = a * c - b * c
  BY SMT

LEMMA MultiplesGrow ==
  ASSUME NEW a \in Int, NEW b \in Int, NEW c \in Nat, a <= b
  PROVE  a * c <= b * c
  BY SMT

\* Quotient and remainder, and that there is one pair of them.
LEMMA Division ==
  ASSUME NEW a \in Nat, NEW b \in Nat \ {0}
  PROVE  /\ a = b * (a \div b) + (a % b) /\ a = (a \div b) * b + (a % b)
         /\ a \div b \in Nat /\ a % b \in Nat /\ a % b < b /\ a % b \in 0 .. b - 1
  BY SMTT(30)

LEMMA OneDivision ==
  ASSUME NEW b \in Nat \ {0}, NEW p \in Int, NEW q \in Int, NEW r \in 0 .. b - 1, NEW s \in 0 .. b - 1,
         p * b + r = q * b + s
  PROVE  p = q /\ r = s
<1>1. ASSUME NEW x \in Int, NEW y \in Int, x < y PROVE x * b + b <= y * b
  <2>1. (x + 1) * b <= y * b BY <1>1, MultiplesGrow
  <2>2. (x + 1) * b = x * b + b BY <1>1, SMT
  <2> QED BY <2>1, <2>2
<1>2. ~ (p < q) BY <1>1
<1>3. ~ (q < p) BY <1>1
<1> QED BY <1>2, <1>3

LEMMA DivisionIs ==
  ASSUME NEW a \in Nat, NEW b \in Nat \ {0}, NEW q \in Int, NEW r \in 0 .. b - 1, a = q * b + r
  PROVE  a \div b = q /\ a % b = r
  BY Division, OneDivision

\* A position on a ring of b places: taken along step by step, once around, and
\* less than once around; and what is left when whole frames are taken.
LEMMA RemainderOfSum ==
  ASSUME NEW a \in Nat, NEW b \in Nat \ {0}, NEW c \in Nat
  PROVE  ((a % b) + c) % b = (a + c) % b
<1> DEFINE q == a \div b
           r == a % b
           x == r + c
           p == x \div b
           s == x % b
<1>1. q \in Nat /\ r \in 0 .. b - 1 /\ a = q * b + r BY Division
<1>2. x \in Nat BY <1>1
<1>3. p \in Nat /\ s \in 0 .. b - 1 /\ x = p * b + s BY <1>2, Division
<1>4. (q + p) * b = q * b + p * b BY <1>1, <1>3, Multiples
<1> HIDE DEF q, p, s, r
<1>5. a + c = (q + p) * b + s BY <1>1, <1>3, <1>4, Multiples
<1>6. (a + c) % b = s
  <2> DEFINE y == a + c
             z == q + p
  <2>1. y \in Nat /\ z \in Int /\ y = z * b + s BY <1>1, <1>3, <1>5
  <2> HIDE DEF y, z
  <2>2. y % b = s BY <1>3, <2>1, DivisionIs
  <2> QED BY <2>2 DEF y
<1> QED BY <1>6 DEF s, r

LEMMA FullTurn ==
  ASSUME NEW a \in Nat, NEW b \in Nat \ {0}
  PROVE  (a + b) % b = a % b
<1> DEFINE q == a \div b
           r == a % b
<1>1. q \in Nat /\ r \in 0 .. b - 1 /\ a = q * b + r BY Division
<1> HIDE DEF q, r
<1>2. (q + 1) * b = q * b + 1 * b /\ q * b \in Int BY <1>1, Multiples
<1>3. a + b = (q + 1) * b + r BY <1>1, <1>2
<1>4. (a + b) % b = r BY <1>1, <1>3, DivisionIs
<1> QED BY <1>4 DEF r

LEMMA Apart ==
  ASSUME NEW a \in Nat, NEW b \in Nat \ {0}, NEW c \in Nat, a < c, c < a + b
  PROVE  a % b # c % b
<1> DEFINE q == a \div b
           p == c \div b
           r == a % b
<1> SUFFICES ASSUME c % b = r PROVE FALSE OBVIOUS
<1>1. q \in Nat /\ r \in 0 .. b - 1 /\ a = q * b + r BY Division
<1>2. p \in Nat /\ c = p * b + r BY Division
<1> HIDE DEF q, p, r
<1>3. q * b \in Int /\ p * b \in Int BY <1>1, <1>2, Multiples
<1>4. CASE p <= q
  <2>1. p * b <= q * b BY <1>1, <1>2, <1>4, MultiplesGrow
  <2> QED BY <1>1, <1>2, <1>3, <2>1
<1>5. CASE q + 1 <= p
  <2>1. (q + 1) * b <= p * b BY <1>1, <1>2, <1>5, MultiplesGrow
  <2>2. (q + 1) * b = q * b + 1 * b BY <1>1, Multiples
  <2> QED BY <1>1, <1>2, <1>3, <2>1, <2>2
<1> QED BY <1>1, <1>2, <1>4, <1>5

LeftOver(a, q, b, c) == c = a - q * b

LEMMA DivisionFrom ==
  ASSUME NEW a \in Nat, NEW b \in Nat \ {0}, NEW q \in Nat, NEW c \in Nat, LeftOver(a, q, b, c)
  PROVE  c \div b = (a \div b) - q /\ c % b = a % b
<1> DEFINE p == a \div b
           r == a % b
<1>1. p \in Nat /\ r \in 0 .. b - 1 /\ a = p * b + r BY Division
<1> HIDE DEF p, r
<1>2. (p - q) * b = p * b - q * b /\ p * b \in Int /\ q * b \in Int BY <1>1, Multiples
<1>3. c = (p - q) * b + r /\ p - q \in Int BY <1>1, <1>2 DEF LeftOver
<1> QED BY <1>1, <1>3, DivisionIs DEF p, r

-----------------------------------------------------------------------------

\* The items of the messages of a pipe, in order.
ItemsOf(p) == [i \in DOMAIN p |-> p[i].items]
OnTheWay(p) == FlattenSeq(ItemsOf(p))

\* A pipe is a sequence of messages; a malformed one has no items.
Messages(p) ==
  /\ p \in Seq(ToSet(p))
  /\ \A i \in DOMAIN p : p[i].items \in Seq(Int) /\ (p[i].defect # "none" => p[i].items = <<>>)

\* What a message adds behind the others on their way, and takes from their front.
LEMMA PipeType ==
  ASSUME NEW p, Messages(p)
  PROVE  ItemsOf(p) \in Seq(Seq(Int)) /\ Len(ItemsOf(p)) = Len(p) /\ OnTheWay(p) \in Seq(Int)
<1>1. PICK S : p \in Seq(S) BY DEF Messages
<1>2. Len(p) \in Nat /\ DOMAIN p = 1 .. Len(p) BY <1>1
<1>3. \A i \in DOMAIN p : p[i].items \in Seq(Int) BY DEF Messages
<1>4. ItemsOf(p) \in Seq(Seq(Int)) /\ Len(ItemsOf(p)) = Len(p)
  <2>1. ItemsOf(p) = [i \in 1 .. Len(p) |-> p[i].items] BY <1>2 DEF ItemsOf
  <2> QED BY <1>2, <1>3, <2>1
<1>5. OnTheWay(p) \in Seq(Int)
  <2>1. PICK f : Flattens(Int, ItemsOf(p), f) BY <1>4, FlattenedSoFar
  <2>2. FlattenSeq(ItemsOf(p)) \in Seq(Int) BY <1>4, <2>1, FlattenedAtLast
  <2> QED BY <2>2 DEF OnTheWay
<1> QED BY <1>4, <1>5

LEMMA PipeAppend ==
  ASSUME NEW p, Messages(p), NEW m, m.items \in Seq(Int), m.defect # "none" => m.items = <<>>
  PROVE  Messages(Append(p, m)) /\ OnTheWay(Append(p, m)) = OnTheWay(p) \o m.items
<1>1. PICK S : p \in Seq(S) BY DEF Messages
<1> DEFINE q == Append(p, m)
           n == Len(p)
<1>2. /\ n \in Nat /\ DOMAIN p = 1 .. n /\ q \in Seq(S \cup {m}) /\ Len(q) = n + 1 /\ DOMAIN q = 1 .. n + 1
      /\ q[n + 1] = m /\ \A i \in 1 .. n : q[i] = p[i]
  BY <1>1
<1> HIDE DEF q, n
<1>3. Messages(q)
  <2>1. q \in Seq(ToSet(q)) BY <1>2 DEF ToSet
  <2>2. ASSUME NEW i \in DOMAIN q PROVE q[i].items \in Seq(Int) /\ (q[i].defect # "none" => q[i].items = <<>>)
    <3>1. CASE i = n + 1 BY <1>2, <3>1
    <3>2. CASE i # n + 1
      <4>1. i \in 1 .. n BY <1>2, <3>2
      <4> QED BY <1>2, <4>1 DEF Messages
    <3> QED BY <3>1, <3>2
  <2> QED BY <2>1, <2>2 DEF Messages
<1>4. ItemsOf(q) = Append(ItemsOf(p), m.items)
  <2>1. ItemsOf(p) \in Seq(Seq(Int)) /\ Len(ItemsOf(p)) = n BY PipeType DEF n
  <2>2. \A i \in 1 .. n : ItemsOf(p)[i] = p[i].items BY <1>2 DEF ItemsOf
  <2>3. ItemsOf(q) \in Seq(Seq(Int)) /\ Len(ItemsOf(q)) = n + 1 BY <1>2, <1>3, PipeType
  <2>4. \A i \in 1 .. n + 1 : ItemsOf(q)[i] = q[i].items BY <1>2 DEF ItemsOf
  <2> DEFINE x == ItemsOf(p)
             y == ItemsOf(q)
             z == Append(x, m.items)
  <2> HIDE DEF x, y
  <2>5. z \in Seq(Seq(Int)) /\ Len(z) = n + 1 /\ z[n + 1] = m.items /\ \A i \in 1 .. n : z[i] = x[i]
    BY <1>2, <2>1 DEF x
  <2> HIDE DEF z
  <2>6. ASSUME NEW i \in 1 .. n + 1 PROVE z[i] = y[i]
    <3>1. y[i] = q[i].items BY <2>4 DEF y
    <3>2. CASE i = n + 1 BY <1>2, <2>5, <3>1, <3>2
    <3>3. CASE i # n + 1
      <4>1. i \in 1 .. n BY <1>2, <3>3
      <4>2. z[i] = p[i].items BY <2>2, <2>5, <4>1 DEF x
      <4> QED BY <1>2, <3>1, <4>1, <4>2
    <3> QED BY <3>2, <3>3
  <2>7. z = y
    <3>1. y \in Seq(Seq(Int)) /\ Len(y) = n + 1 BY <2>3 DEF y
    <3> QED BY <2>5, <2>6, <3>1, SeqEqual
  <2> QED BY <2>7 DEF x, y, z
<1>5. FlattenSeq(Append(ItemsOf(p), m.items)) = FlattenSeq(ItemsOf(p)) \o m.items
  <2>1. ItemsOf(p) \in Seq(Seq(Int)) BY PipeType
  <2> QED BY <2>1, FlattenAppend
<1>6. OnTheWay(q) = OnTheWay(p) \o m.items BY <1>4, <1>5 DEF OnTheWay
<1> QED BY <1>3, <1>6 DEF q

LEMMA PipeTail ==
  ASSUME NEW p, Messages(p), p # <<>>
  PROVE  /\ Messages(Tail(p)) /\ OnTheWay(p) = Head(p).items \o OnTheWay(Tail(p))
         /\ Head(p).items \in Seq(Int) /\ (Head(p).defect # "none" => Head(p).items = <<>>)
<1>1. PICK S : p \in Seq(S) BY DEF Messages
<1> DEFINE q == Tail(p)
           h == Head(p)
           n == Len(q)
<1>2. /\ n \in Nat /\ DOMAIN p = 1 .. n + 1 /\ q \in Seq(S) /\ DOMAIN q = 1 .. n
      /\ Len(p) = n + 1 /\ h = p[1] /\ \A i \in 1 .. n : q[i] = p[i + 1]
  BY <1>1
<1> HIDE DEF q, h, n
<1>3. Messages(q)
  <2>1. q \in Seq(ToSet(q)) BY <1>2 DEF ToSet
  <2>2. ASSUME NEW i \in DOMAIN q PROVE q[i].items \in Seq(Int) /\ (q[i].defect # "none" => q[i].items = <<>>)
    <3> DEFINE k == i + 1
    <3>1. k \in 1 .. n + 1 /\ q[i] = p[k] BY <1>2
    <3> HIDE DEF k
    <3> QED BY <1>2, <3>1 DEF Messages
  <2> QED BY <2>1, <2>2 DEF Messages
<1>4. h.items \in Seq(Int) /\ (h.defect # "none" => h.items = <<>>)
  <2>1. 1 \in DOMAIN p BY <1>2
  <2> QED BY <1>2, <2>1 DEF Messages
<1>5. ItemsOf(p) # <<>> /\ Head(ItemsOf(p)) = h.items /\ Tail(ItemsOf(p)) = ItemsOf(q)
  <2> DEFINE x == ItemsOf(p)
             y == ItemsOf(q)
  <2>1. x \in Seq(Seq(Int)) /\ Len(x) = n + 1 BY <1>2, PipeType
  <2>2. y \in Seq(Seq(Int)) /\ Len(y) = n BY <1>3, PipeType DEF n
  <2>3. \A i \in 1 .. n + 1 : x[i] = p[i].items BY <1>2 DEF ItemsOf
  <2>4. \A i \in 1 .. n : y[i] = q[i].items BY <1>2 DEF ItemsOf
  <2> HIDE DEF x, y
  <2>5. x # <<>> BY <1>2, <2>1
  <2>6. Head(x) = h.items BY <1>2, <2>1, <2>3, <2>5
  <2>7. Tail(x) = y
    <3> DEFINE z == Tail(x)
    <3>1. z \in Seq(Seq(Int)) /\ Len(z) = n /\ \A i \in 1 .. n : z[i] = x[i + 1] BY <1>2, <2>1, <2>5
    <3> HIDE DEF z
    <3>2. ASSUME NEW i \in 1 .. n PROVE z[i] = y[i]
      <4> DEFINE k == i + 1
      <4>1. k \in 1 .. n + 1 /\ z[i] = x[k] /\ q[i] = p[k] /\ y[i] = q[i].items BY <1>2, <2>4, <3>1
      <4> HIDE DEF k
      <4> QED BY <2>3, <4>1
    <3>3. z = y BY <2>2, <3>1, <3>2, SeqEqual
    <3> QED BY <3>3 DEF z
  <2> QED BY <2>5, <2>6, <2>7 DEF x, y
<1>6. FlattenSeq(ItemsOf(p)) = Head(ItemsOf(p)) \o FlattenSeq(Tail(ItemsOf(p)))
  <2>1. ItemsOf(p) \in Seq(Seq(Int)) BY PipeType
  <2> QED BY <1>5, <2>1, FlattenTail
<1>7. OnTheWay(p) = h.items \o OnTheWay(q) BY <1>5, <1>6 DEF OnTheWay
<1> QED BY <1>3, <1>4, <1>7 DEF q, h

-----------------------------------------------------------------------------

\* What holds of the empty sequence, and of a longer one if of the shorter.
LEMMA AppendInduction ==
  ASSUME NEW S, NEW G, <<>> \in G, \A s \in Seq(S) : \A x \in S : s \in G => Append(s, x) \in G
  PROVE  Seq(S) \subseteq G
<1> DEFINE N == {n \in Nat : \A s \in Seq(S) : Len(s) = n => s \in G}
<1>1. 0 \in N
  <2>1. ASSUME NEW s \in Seq(S), Len(s) = 0 PROVE s \in G
    <3>1. s = <<>> BY <2>1, EmptySeq
    <3> QED BY <3>1
  <2> QED BY <2>1
<1>2. ASSUME NEW n \in Nat, n \in N PROVE n + 1 \in N
  <2>1. ASSUME NEW s \in Seq(S), Len(s) = n + 1 PROVE s \in G
    <3> DEFINE b == SubSeq(s, 1, n)
               x == s[n + 1]
    <3>1. b \in Seq(S) /\ Len(b) = n /\ x \in S /\ \A i \in 1 .. n : b[i] = s[i] BY <2>1
    <3>2. b \in G BY <1>2, <3>1
    <3> HIDE DEF b, x
    <3>3. Append(b, x) \in G BY <3>1, <3>2
    <3>4. Append(b, x) = s
      <4> DEFINE y == Append(b, x)
      <4>1. y \in Seq(S) /\ Len(y) = n + 1 /\ y[n + 1] = x /\ \A i \in 1 .. n : y[i] = b[i] BY <3>1
      <4> HIDE DEF y
      <4>2. \A i \in 1 .. n + 1 : y[i] = s[i]
        <5> TAKE i \in 1 .. n + 1
        <5>1. CASE i = n + 1 BY <4>1, <5>1 DEF x
        <5>2. CASE i # n + 1
          <6>1. i \in 1 .. n BY <5>2
          <6> QED BY <3>1, <4>1, <6>1
        <5> QED BY <5>1, <5>2
      <4>3. y = s BY <2>1, <4>1, <4>2, SeqEqual
      <4> QED BY <4>3 DEF y
    <3> QED BY <3>3, <3>4
  <2> QED BY <2>1
<1>3. Nat \subseteq N
  <2> HIDE DEF N
  <2> QED BY <1>1, <1>2, Induction
<1>4. ASSUME NEW s \in Seq(S) PROVE s \in G
  <2>1. Len(s) \in N BY <1>3
  <2> QED BY <2>1
<1> QED BY <1>4

\* One more behind two in a row.
LEMMA AppendApart ==
  ASSUME NEW S, NEW a \in Seq(S), NEW b \in Seq(S), NEW x \in S
  PROVE  a \o Append(b, x) = Append(a \o b, x) /\ Append(a \o b, x) \in Seq(S)
<1> DEFINE e == <<x>>
           c == a \o b
<1>1. e \in Seq(S) /\ c \in Seq(S) BY Concatenation
<1>2. Append(b, x) = b \o e /\ Append(c, x) = c \o e /\ Append(c, x) \in Seq(S)
  <2>1. Append(b, x) = b \o <<x>> OBVIOUS
  <2> HIDE DEF c
  <2>2. Append(c, x) = c \o <<x>> /\ Append(c, x) \in Seq(S) BY <1>1
  <2> QED BY <2>1, <2>2
<1> HIDE DEF e
<1>3. a \o (b \o e) = a \o b \o e BY ONLY a \in Seq(S), b \in Seq(S), <1>1, Joined
<1> QED BY <1>2, <1>3 DEF c

\* A sequence that became longer, and what is new in it.
LEMMA Longer ==
  ASSUME NEW S, NEW a \in Seq(S), NEW b \in Seq(S)
  PROVE  /\ b # <<>> => IsStrictPrefix(a, a \o b)
         /\ SubSeq(a \o b, Len(a) + 1, Len(a \o b)) = b
<1> DEFINE c == a \o b
           x == Len(a)
           y == Len(b)
           p == SubSeq(a, 1, x)
           q == SubSeq(c, 1, x)
           z == SubSeq(c, x + 1, Len(c))
<1>1. /\ c \in Seq(S) /\ Len(c) = x + y /\ x \in Nat /\ y \in Nat
      /\ \A i \in 1 .. x : c[i] = a[i]
      /\ \A i \in x + 1 .. x + y : c[i] = b[i - x]
  BY Concatenation
<1> HIDE DEF c
<1>2. p \in Seq(S) /\ Len(p) = x /\ \A i \in 1 .. x : p[i] = a[i] OBVIOUS
<1>3. q \in Seq(S) /\ Len(q) = x /\ \A i \in 1 .. x : q[i] = c[i]
  <2> HIDE DEF x
  <2> QED BY <1>1
<1>4. z \in Seq(S) /\ Len(z) = y /\ \A i \in 1 .. y : z[i] = c[x + i]
  <2> HIDE DEF x, y
  <2> QED BY <1>1
<1>5. p = q
  <2> HIDE DEF p, q, x
  <2>1. p \in Seq(S) /\ q \in Seq(S) /\ Len(p) = Len(q) /\ \A i \in 1 .. Len(p) : p[i] = q[i] BY <1>1, <1>2, <1>3
  <2> QED BY ONLY <2>1, SeqEqual
<1>6. z = b
  <2> HIDE DEF z, x
  <2>1. ASSUME NEW i \in 1 .. Len(z) PROVE z[i] = b[i]
    <3>1. x + i \in x + 1 .. x + y /\ x + i - x = i BY <1>1, <1>4
    <3>2. c[x + i] = b[i] BY <1>1, <3>1
    <3> QED BY <1>4, <3>2
  <2>2. z \in Seq(S) /\ b \in Seq(S) /\ Len(z) = Len(b) /\ \A i \in 1 .. Len(z) : z[i] = b[i] BY <1>4, <2>1
  <2> QED BY ONLY <2>2, SeqEqual
<1>7. b # <<>> => a # c
  <2>1. b # <<>> => y # 0 BY EmptySeq
  <2> HIDE DEF y
  <2> QED BY <1>1, <2>1
<1>8. b # <<>> => IsStrictPrefix(a, c)
  <2>1. x <= x + y BY <1>1
  <2> QED BY <1>1, <1>5, <1>7, <2>1 DEF IsStrictPrefix, IsPrefix
<1> QED BY <1>6, <1>8 DEF c

-----------------------------------------------------------------------------

\* Tags with values from T.
TagsWith(T) == [offset : Int, tag : T]

\* A tag that is moved, tags one after the other, and all to one item.
LEMMA MovedFields ==
  ASSUME NEW T, NEW t \in TagsWith(T), NEW o \in Int
  PROVE  /\ MovedTo(t, o) \in TagsWith(T) /\ MovedTo(t, o).offset = o /\ MovedTo(t, o).tag = t.tag
         /\ t.offset \in Int /\ (t.offset = o => MovedTo(t, o) = t)
  BY DEF TagsWith, MovedTo

LEMMA Shifted ==
  ASSUME NEW T, NEW s \in Seq(TagsWith(T)), NEW d \in Int
  PROVE  /\ Shift(s, d) \in Seq(TagsWith(T)) /\ Len(Shift(s, d)) = Len(s)
         /\ \A i \in 1 .. Len(s) : Shift(s, d)[i] = MovedTo(s[i], s[i].offset + d)
<1>1. Len(s) \in Nat /\ DOMAIN s = 1 .. Len(s) /\ \A i \in 1 .. Len(s) : s[i] \in TagsWith(T) OBVIOUS
<1>2. \A i \in 1 .. Len(s) : s[i].offset + d \in Int BY <1>1 DEF TagsWith
<1>3. \A i \in 1 .. Len(s) : MovedTo(s[i], s[i].offset + d) \in TagsWith(T) BY <1>1, <1>2, MovedFields
<1>4. Shift(s, d) = [i \in 1 .. Len(s) |-> MovedTo(s[i], s[i].offset + d)] BY <1>1 DEF Shift
<1> QED BY <1>1, <1>3, <1>4

LEMMA Placed ==
  ASSUME NEW T, NEW s \in Seq(TagsWith(T)), NEW o \in Int
  PROVE  /\ OnItem(s, o) \in Seq(TagsWith(T)) /\ Len(OnItem(s, o)) = Len(s)
         /\ \A i \in 1 .. Len(s) : OnItem(s, o)[i] = MovedTo(s[i], o)
<1>1. Len(s) \in Nat /\ DOMAIN s = 1 .. Len(s) /\ \A i \in 1 .. Len(s) : s[i] \in TagsWith(T) OBVIOUS
<1>3. \A i \in 1 .. Len(s) : MovedTo(s[i], o) \in TagsWith(T) BY <1>1, MovedFields
<1>4. OnItem(s, o) = [i \in 1 .. Len(s) |-> MovedTo(s[i], o)] BY <1>1 DEF OnItem
<1> QED BY <1>1, <1>3, <1>4

\* Tags in two rows, tags that stay, and those that were put on one item.
LEMMA ShiftApart ==
  ASSUME NEW T, NEW a \in Seq(TagsWith(T)), NEW b \in Seq(TagsWith(T)), NEW d \in Int
  PROVE  Shift(a \o b, d) = Shift(a, d) \o Shift(b, d)
<1> DEFINE x == Shift(a, d)
           y == Shift(b, d)
           c == a \o b
           z == Shift(c, d)
           w == x \o y
<1>1. /\ c \in Seq(TagsWith(T)) /\ Len(c) = Len(a) + Len(b) /\ \A i \in 1 .. Len(a) : c[i] = a[i]
      /\ \A i \in Len(a) + 1 .. Len(a) + Len(b) : c[i] = b[i - Len(a)]
  BY Concatenation
<1>2. /\ x \in Seq(TagsWith(T)) /\ Len(x) = Len(a) /\ \A i \in 1 .. Len(a) : x[i] = MovedTo(a[i], a[i].offset + d)
      /\ y \in Seq(TagsWith(T)) /\ Len(y) = Len(b) /\ \A i \in 1 .. Len(b) : y[i] = MovedTo(b[i], b[i].offset + d)
  BY Shifted
<1> HIDE DEF c, x, y
<1>3. /\ z \in Seq(TagsWith(T)) /\ Len(z) = Len(c) /\ \A i \in 1 .. Len(c) : z[i] = MovedTo(c[i], c[i].offset + d)
  BY <1>1, Shifted
<1>4. /\ w \in Seq(TagsWith(T)) /\ Len(w) = Len(x) + Len(y) /\ \A i \in 1 .. Len(x) : w[i] = x[i]
      /\ \A i \in Len(x) + 1 .. Len(x) + Len(y) : w[i] = y[i - Len(x)]
  BY <1>2, Concatenation
<1> HIDE DEF z, w
<1>5. Len(a) \in Nat /\ Len(b) \in Nat OBVIOUS
<1>6. ASSUME NEW i \in 1 .. Len(z) PROVE z[i] = w[i]
  <2>1. CASE i <= Len(a)
    <3>1. i \in 1 .. Len(a) /\ i \in 1 .. Len(c) BY <1>1, <1>5, <2>1
    <3> QED BY <1>1, <1>2, <1>3, <1>4, <3>1
  <2>2. CASE ~ (i <= Len(a))
    <3> DEFINE j == i - Len(a)
    <3>1. i \in Len(a) + 1 .. Len(a) + Len(b) /\ i \in 1 .. Len(c) /\ j \in 1 .. Len(b) BY <1>1, <1>3, <1>5, <2>2
    <3>2. c[i] = b[j] BY <1>1, <3>1
    <3>3. w[i] = y[j] BY <1>2, <1>4, <3>1
    <3> HIDE DEF j
    <3> QED BY <1>2, <1>3, <3>1, <3>2, <3>3
  <2> QED BY <2>1, <2>2
<1>7. z \in Seq(TagsWith(T)) /\ w \in Seq(TagsWith(T)) /\ Len(z) = Len(w) /\ \A i \in 1 .. Len(z) : z[i] = w[i]
  BY <1>1, <1>2, <1>3, <1>4, <1>6
<1>8. z = w BY ONLY <1>7, SeqEqual
<1> QED BY <1>8 DEF z, w, c, x, y

\* Moving tags twice is moving them once, as far as both.
Twice(d, e, f) == d \in Int /\ e \in Int /\ f = d + e

LEMMA ShiftPlaced ==
  ASSUME NEW T, NEW s \in Seq(TagsWith(T)), NEW o, NEW d, NEW f, Twice(o, d, f)
  PROVE  Shift(OnItem(s, o), d) = OnItem(s, f)
<1> DEFINE x == OnItem(s, o)
           y == Shift(x, d)
           z == OnItem(s, f)
<1>0. d \in Int /\ o \in Int /\ f \in Int /\ f = o + d BY DEF Twice
<1>1. x \in Seq(TagsWith(T)) /\ Len(x) = Len(s) /\ \A i \in 1 .. Len(s) : x[i] = MovedTo(s[i], o)
  BY <1>0, Placed
<1> HIDE DEF x
<1>2. y \in Seq(TagsWith(T)) /\ Len(y) = Len(x) /\ \A i \in 1 .. Len(x) : y[i] = MovedTo(x[i], x[i].offset + d)
  BY <1>0, <1>1, Shifted
<1>3. z \in Seq(TagsWith(T)) /\ Len(z) = Len(s) /\ \A i \in 1 .. Len(s) : z[i] = MovedTo(s[i], f)
  BY <1>0, Placed
<1> HIDE DEF y, z
<1>4. ASSUME NEW i \in 1 .. Len(s) PROVE y[i] = z[i]
  <2>1. s[i] \in TagsWith(T) OBVIOUS
  <2>2. x[i].offset = o /\ x[i].tag = s[i].tag
    <3>1. MovedTo(s[i], o).offset = o /\ MovedTo(s[i], o).tag = s[i].tag BY <1>0, <2>1, MovedFields
    <3> QED BY <1>1, <3>1
  <2>3. y[i] = MovedTo(x[i], x[i].offset + d) BY <1>1, <1>2
  <2>4. x[i].offset + d = f BY <1>0, <2>2
  <2> QED BY <1>3, <2>2, <2>3, <2>4 DEF MovedTo
<1>5. y \in Seq(TagsWith(T)) /\ z \in Seq(TagsWith(T)) /\ Len(y) = Len(z) /\ \A i \in 1 .. Len(y) : y[i] = z[i]
  BY <1>1, <1>2, <1>3, <1>4
<1>6. y = z BY ONLY <1>5, SeqEqual
<1> QED BY <1>6 DEF x, y, z

-----------------------------------------------------------------------------

\* One more tag, and the tags within.
LEMMA WithinAppend ==
  ASSUME NEW T, NEW s \in Seq(TagsWith(T)), NEW t \in TagsWith(T), NEW D
  PROVE  /\ Within(s, D) \in Seq(TagsWith(T))
         /\ t.offset \in D => Within(Append(s, t), D) = Append(Within(s, D), t)
         /\ t.offset \notin D => Within(Append(s, t), D) = Within(s, D)
<1> DEFINE Part(u) == [i \in DOMAIN u |-> IF u[i].offset \in D THEN <<u[i]>> ELSE <<>>]
           z == Append(s, t)
           e == IF t.offset \in D THEN <<t>> ELSE <<>>
           n == Len(s)
<1>1. /\ n \in Nat /\ DOMAIN s = 1 .. n /\ z \in Seq(TagsWith(T)) /\ Len(z) = n + 1 /\ DOMAIN z = 1 .. n + 1
      /\ z[n + 1] = t /\ \A i \in 1 .. n : z[i] = s[i] /\ s[i] \in TagsWith(T)
  OBVIOUS
<1>2. ASSUME NEW u \in TagsWith(T) PROVE <<u>> \in Seq(TagsWith(T)) OBVIOUS
<1>3. e \in Seq(TagsWith(T)) BY <1>2
<1>4. Part(s) \in Seq(Seq(TagsWith(T))) /\ Len(Part(s)) = n
  <2>1. \A i \in 1 .. n : (IF s[i].offset \in D THEN <<s[i]>> ELSE <<>>) \in Seq(TagsWith(T)) BY <1>1, <1>2
  <2>2. Part(s) = [i \in 1 .. n |-> IF s[i].offset \in D THEN <<s[i]>> ELSE <<>>] BY <1>1
  <2> HIDE DEF n
  <2> QED BY <1>1, <2>1, <2>2
<1>5. Part(z) = Append(Part(s), e)
  <2> DEFINE x == Part(s)
             y == Part(z)
             w == Append(x, e)
  <2>1. Part(z) = [i \in 1 .. n + 1 |-> IF z[i].offset \in D THEN <<z[i]>> ELSE <<>>] BY <1>1
  <2>2. \A i \in 1 .. n + 1 : z[i] \in TagsWith(T) BY <1>1
  <2> HIDE DEF z
  <2>3. \A i \in 1 .. n + 1 : (IF z[i].offset \in D THEN <<z[i]>> ELSE <<>>) \in Seq(TagsWith(T)) BY <1>2, <2>2
  <2>4. y \in Seq(Seq(TagsWith(T))) /\ Len(y) = n + 1 /\ \A i \in 1 .. n + 1 : y[i] = IF z[i].offset \in D THEN <<z[i]>> ELSE <<>>
    BY <1>1, <2>1, <2>3
  <2>5. \A i \in 1 .. n : x[i] = IF s[i].offset \in D THEN <<s[i]>> ELSE <<>> BY <1>1
  <2> HIDE DEF x, y, e
  <2>6. w \in Seq(Seq(TagsWith(T))) /\ Len(w) = n + 1 /\ w[n + 1] = e /\ \A i \in 1 .. n : w[i] = x[i]
    BY <1>1, <1>3, <1>4 DEF x
  <2> HIDE DEF w
  <2>7. ASSUME NEW i \in 1 .. Len(y) PROVE y[i] = w[i]
    <3>1. CASE i = n + 1 BY <1>1, <2>4, <2>6, <3>1 DEF e, z
    <3>2. CASE i # n + 1
      <4>1. i \in 1 .. n /\ i \in 1 .. n + 1 BY <1>1, <2>4, <3>2
      <4>2. z[i] = s[i] BY <1>1, <4>1 DEF z
      <4> HIDE DEF n
      <4> QED BY <2>4, <2>5, <2>6, <4>1, <4>2
    <3> QED BY <3>1, <3>2
  <2>8. y \in Seq(Seq(TagsWith(T))) /\ w \in Seq(Seq(TagsWith(T))) /\ Len(y) = Len(w) /\ \A i \in 1 .. Len(y) : y[i] = w[i]
    BY <2>4, <2>6, <2>7
  <2>9. y = w BY ONLY <2>8, SeqEqual
  <2> QED BY <2>9 DEF x, y, w
<1>6. Within(s, D) = FlattenSeq(Part(s)) /\ Within(z, D) = FlattenSeq(Part(z)) BY DEF Within
<1> HIDE DEF Part, e
<1>7. FlattenSeq(Part(z)) = FlattenSeq(Part(s)) \o e /\ FlattenSeq(Part(s)) \in Seq(TagsWith(T))
  BY <1>3, <1>4, <1>5, FlattenAppend
<1> DEFINE x == Within(s, D)
<1>8. x \in Seq(TagsWith(T)) /\ Within(z, D) = x \o e BY <1>6, <1>7
<1> HIDE DEF x, z
<1>9. x \o <<>> = x /\ x \o <<t>> = Append(x, t) BY <1>8, ConcatEmptySeq
<1>10. t.offset \in D => e = <<t>> BY DEF e
<1>11. t.offset \notin D => e = <<>> BY DEF e
<1> QED BY <1>8, <1>9, <1>10, <1>11 DEF x, z

LEMMA WithinEmpty == ASSUME NEW D PROVE Within(<<>>, D) = <<>>
<1>1. [i \in DOMAIN <<>> |-> IF <<>>[i].offset \in D THEN <<<<>>[i]>> ELSE <<>>] = <<>> OBVIOUS
<1> QED BY <1>1, FlattenEmpty DEF Within

\* All of them, or none; and where those within are.
LEMMA WithinType ==
  ASSUME NEW T, NEW s \in Seq(TagsWith(T)), NEW D
  PROVE  /\ Within(s, D) \in Seq(TagsWith(T))
         /\ \A i \in 1 .. Len(Within(s, D)) : Within(s, D)[i].offset \in D
         /\ (\A i \in 1 .. Len(s) : s[i].offset \in D) => Within(s, D) = s
         /\ (\A i \in 1 .. Len(s) : s[i].offset \notin D) => Within(s, D) = <<>>
<1> DEFINE Q(u) == /\ Within(u, D) \in Seq(TagsWith(T))
                   /\ \A i \in 1 .. Len(Within(u, D)) : Within(u, D)[i].offset \in D
                   /\ (\A i \in 1 .. Len(u) : u[i].offset \in D) => Within(u, D) = u
                   /\ (\A i \in 1 .. Len(u) : u[i].offset \notin D) => Within(u, D) = <<>>
           G == {u \in Seq(TagsWith(T)) : Q(u)}
<1>1. <<>> \in G
  <2>1. <<>> \in Seq(TagsWith(T)) /\ Len(<<>>) = 0 OBVIOUS
  <2>2. Within(<<>>, D) = <<>> BY WithinEmpty
  <2>3. \A i \in 1 .. Len(<<>>) : FALSE OBVIOUS
  <2>4. Q(<<>>)
    <3> DEFINE w == Within(<<>>, D)
    <3>1. w = <<>> BY <2>2
    <3>2. w \in Seq(TagsWith(T)) BY <2>1, <2>2
    <3>3. \A i \in 1 .. Len(w) : w[i].offset \in D BY <2>3, <3>1
    <3> HIDE DEF w
    <3> QED BY <3>1, <3>2, <3>3 DEF w
  <2> HIDE DEF Q
  <2> QED BY <2>1, <2>4
<1>2. ASSUME NEW u \in Seq(TagsWith(T)), NEW t \in TagsWith(T), u \in G PROVE Append(u, t) \in G
  <2> DEFINE z == Append(u, t)
             x == Within(u, D)
             y == Within(z, D)
  <2>1. /\ z \in Seq(TagsWith(T)) /\ Len(z) = Len(u) + 1 /\ Len(u) \in Nat /\ z[Len(u) + 1] = t
        /\ \A i \in 1 .. Len(u) : z[i] = u[i]
    OBVIOUS
  <2>2. /\ x \in Seq(TagsWith(T)) /\ (t.offset \in D => y = Append(x, t)) /\ (t.offset \notin D => y = x)
    BY WithinAppend
  <2>3. Q(u) BY <1>2
  <2> HIDE DEF z, x, y
  <2>4. \A i \in 1 .. Len(u) + 1 : i = Len(u) + 1 \/ i \in 1 .. Len(u) BY <2>1
  <2>5. /\ \A i \in 1 .. Len(x) : x[i].offset \in D
        /\ (\A i \in 1 .. Len(u) : u[i].offset \in D) => x = u
        /\ (\A i \in 1 .. Len(u) : u[i].offset \notin D) => x = <<>>
    BY <2>3 DEF x
  <2>6. y \in Seq(TagsWith(T))
    <3>1. Append(x, t) \in Seq(TagsWith(T)) BY <2>2
    <3> QED BY <2>2, <3>1, Zenon
  <2>7. ASSUME NEW i \in 1 .. Len(y) PROVE y[i].offset \in D
    <3>1. CASE t.offset \in D
      <4>1. y = Append(x, t) /\ Len(x) \in Nat BY <2>2, <3>1
      <4>2. i \in 1 .. Len(x) + 1 /\ y[Len(x) + 1] = t /\ \A j \in 1 .. Len(x) : y[j] = x[j] BY <2>2, <4>1
      <4>3. CASE i = Len(x) + 1 BY <3>1, <4>2, <4>3
      <4>4. CASE i # Len(x) + 1
        <5>1. i \in 1 .. Len(x) BY <4>1, <4>2, <4>4
        <5> QED BY <2>5, <4>2, <5>1
      <4> QED BY <4>3, <4>4
    <3>2. CASE t.offset \notin D BY <2>2, <2>5, <3>2
    <3> QED BY <3>1, <3>2
  <2>8. Len(u) + 1 \in 1 .. Len(u) + 1 /\ \A i \in 1 .. Len(u) : i \in 1 .. Len(u) + 1 BY <2>1
  <2>9. (\A i \in 1 .. Len(z) : z[i].offset \in D) => y = z
    <3> SUFFICES ASSUME \A i \in 1 .. Len(z) : z[i].offset \in D PROVE y = z OBVIOUS
    <3>1. t.offset \in D /\ \A i \in 1 .. Len(u) : u[i].offset \in D BY <2>1, <2>8
    <3> QED BY <2>2, <2>5, <3>1 DEF z
  <2>10. (\A i \in 1 .. Len(z) : z[i].offset \notin D) => y = <<>>
    <3> SUFFICES ASSUME \A i \in 1 .. Len(z) : z[i].offset \notin D PROVE y = <<>> OBVIOUS
    <3>1. t.offset \notin D /\ \A i \in 1 .. Len(u) : u[i].offset \notin D BY <2>1, <2>8
    <3> QED BY <2>2, <2>5, <3>1
  <2>11. Q(z) BY <2>6, <2>7, <2>9, <2>10 DEF y
  <2> QED BY <2>1, <2>11 DEF z
<1>3. Seq(TagsWith(T)) \subseteq G
  <2> HIDE DEF G
  <2> QED BY <1>1, <1>2, AppendInduction
<1> QED BY <1>3

LEMMA WithinApart ==
  ASSUME NEW T, NEW a \in Seq(TagsWith(T)), NEW b \in Seq(TagsWith(T)), NEW D
  PROVE  Within(a \o b, D) = Within(a, D) \o Within(b, D)
<1> DEFINE G == {u \in Seq(TagsWith(T)) : Within(a \o u, D) = Within(a, D) \o Within(u, D)}
           x == Within(a, D)
<1>0. x \in Seq(TagsWith(T)) BY WithinType
<1>1. <<>> \in G
  <2>1. Within(<<>>, D) = <<>> BY WithinEmpty
  <2>2. a \o <<>> = a BY ConcatEmptySeq
  <2> HIDE DEF x
  <2>3. x \o <<>> = x BY <1>0, ConcatEmptySeq
  <2>4. <<>> \in Seq(TagsWith(T)) OBVIOUS
  <2>5. Within(a \o <<>>, D) = Within(a, D) \o Within(<<>>, D) BY <2>1, <2>2, <2>3, Zenon DEF x
  <2> QED BY <2>4, <2>5
<1>2. ASSUME NEW u \in Seq(TagsWith(T)), NEW t \in TagsWith(T), u \in G PROVE Append(u, t) \in G
  <2> DEFINE c == a \o u
             y == Within(u, D)
  <2>1. c \in Seq(TagsWith(T)) /\ a \o Append(u, t) = Append(c, t) /\ Append(u, t) \in Seq(TagsWith(T)) OBVIOUS
  <2>2. y \in Seq(TagsWith(T)) BY WithinType
  <2>3. Within(c, D) = x \o y BY <1>2
  <2> HIDE DEF c, x
  <2>4. /\ t.offset \in D => Within(Append(u, t), D) = Append(y, t)
        /\ t.offset \notin D => Within(Append(u, t), D) = y
    BY WithinAppend
  <2> HIDE DEF y
  <2>5. /\ t.offset \in D => Within(Append(c, t), D) = Append(x \o y, t)
        /\ t.offset \notin D => Within(Append(c, t), D) = x \o y
    <3>1. /\ t.offset \in D => Within(Append(c, t), D) = Append(Within(c, D), t)
          /\ t.offset \notin D => Within(Append(c, t), D) = Within(c, D)
      <4>1. c \in Seq(TagsWith(T)) /\ t \in TagsWith(T) BY <2>1
      <4> QED BY ONLY <4>1, WithinAppend
    <3> QED BY <2>3, <3>1, Zenon
  <2>6. Append(x \o y, t) = x \o Append(y, t)
    <3>1. x \in Seq(TagsWith(T)) /\ y \in Seq(TagsWith(T)) /\ t \in TagsWith(T) BY <1>0, <2>2 DEF x, y
    <3>2. x \o Append(y, t) = Append(x \o y, t) /\ Append(x \o y, t) \in Seq(TagsWith(T))
      BY ONLY <3>1, AppendApart
    <3> QED BY <3>2
  <2>7. Within(Append(c, t), D) = x \o Within(Append(u, t), D) BY <2>4, <2>5, <2>6
  <2> QED BY <2>1, <2>7 DEF c, x
<1>3. Seq(TagsWith(T)) \subseteq G
  <2> HIDE DEF G
  <2> QED BY <1>1, <1>2, AppendInduction
<1> QED BY <1>3

\* Of tags in their order, those on earlier items are in front of the others.
Sorted(s) == \A i, j \in 1 .. Len(s) : i <= j => s[i].offset <= s[j].offset

LEMMA WithinBoth ==
  ASSUME NEW T, NEW s \in Seq(TagsWith(T)), Sorted(s), NEW A \in SUBSET Int, NEW B \in SUBSET Int,
         \A p \in A : \A q \in B : p < q
  PROVE  Within(s, A \cup B) = Within(s, A) \o Within(s, B)
<1> DEFINE G == {u \in Seq(TagsWith(T)) : Sorted(u) => Within(u, A \cup B) = Within(u, A) \o Within(u, B)}
<1>1. <<>> \in G
  <2>1. \A D : Within(<<>>, D) = <<>> BY WithinEmpty
  <2>2. <<>> \o <<>> = <<>> /\ <<>> \in Seq(TagsWith(T)) OBVIOUS
  <2>3. Within(<<>>, A \cup B) = Within(<<>>, A) \o Within(<<>>, B) BY <2>1, <2>2, Zenon
  <2> QED BY <2>2, <2>3
<1>2. ASSUME NEW u \in Seq(TagsWith(T)), NEW t \in TagsWith(T), u \in G PROVE Append(u, t) \in G
  <2> SUFFICES ASSUME Sorted(Append(u, t))
               PROVE  Within(Append(u, t), A \cup B) = Within(Append(u, t), A) \o Within(Append(u, t), B)
    <3>1. Append(u, t) \in Seq(TagsWith(T)) OBVIOUS
    <3> QED BY <3>1
  <2> DEFINE z == Append(u, t)
             a == Within(u, A)
             b == Within(u, B)
  <2>1. /\ z \in Seq(TagsWith(T)) /\ Len(z) = Len(u) + 1 /\ Len(u) \in Nat /\ z[Len(u) + 1] = t
        /\ \A i \in 1 .. Len(u) : z[i] = u[i]
    OBVIOUS
  <2> HIDE DEF z
  <2>2. Sorted(z) BY DEF z
  <2>3. /\ \A i, j \in 1 .. Len(u) : i <= j => u[i].offset <= u[j].offset
        /\ \A i \in 1 .. Len(u) : u[i].offset <= t.offset
    <3>1. Len(u) + 1 \in 1 .. Len(z) /\ \A i \in 1 .. Len(u) : i \in 1 .. Len(z) /\ i <= Len(u) + 1 BY <2>1
    <3> QED BY <2>1, <2>2, <3>1 DEF Sorted
  <2>4. Within(u, A \cup B) = a \o b
    <3>1. Sorted(u) BY <2>3 DEF Sorted
    <3> QED BY <1>2, <3>1
  <2>5. a \in Seq(TagsWith(T)) /\ b \in Seq(TagsWith(T)) BY WithinType
  <2>6. /\ t.offset \in A => Within(z, A) = Append(a, t)
        /\ t.offset \notin A => Within(z, A) = a
    BY WithinAppend DEF z
  <2>7. /\ t.offset \in B => Within(z, B) = Append(b, t)
        /\ t.offset \notin B => Within(z, B) = b
    BY WithinAppend DEF z
  <2>8. /\ t.offset \in A \cup B => Within(z, A \cup B) = Append(a \o b, t)
        /\ t.offset \notin A \cup B => Within(z, A \cup B) = a \o b
    <3>1. /\ t.offset \in A \cup B => Within(z, A \cup B) = Append(Within(u, A \cup B), t)
          /\ t.offset \notin A \cup B => Within(z, A \cup B) = Within(u, A \cup B)
      <4> DEFINE D == A \cup B
      <4>1. u \in Seq(TagsWith(T)) /\ t \in TagsWith(T) OBVIOUS
      <4> HIDE DEF D
      <4>2. /\ t.offset \in D => Within(Append(u, t), D) = Append(Within(u, D), t)
            /\ t.offset \notin D => Within(Append(u, t), D) = Within(u, D)
        BY ONLY <4>1, WithinAppend
      <4> QED BY <4>2 DEF z, D
    <3> QED BY <2>4, <3>1, Zenon
  <2>9. t.offset \in A => b = <<>>
    <3> SUFFICES ASSUME t.offset \in A PROVE b = <<>> OBVIOUS
    <3>1. ASSUME NEW i \in 1 .. Len(u), u[i].offset \in B PROVE FALSE
      <4>1. u[i].offset \in Int /\ t.offset \in Int BY MovedFields
      <4>2. t.offset < u[i].offset /\ u[i].offset <= t.offset BY <2>3, <3>1
      <4> QED BY <4>1, <4>2
    <3> QED BY <3>1, WithinType
  <2> HIDE DEF a, b
  <2>10. CASE t.offset \in A
    <3>1. t.offset \notin B
      <4> SUFFICES ASSUME t.offset \in B PROVE FALSE OBVIOUS
      <4>1. t.offset \in Int /\ t.offset < t.offset BY <2>10
      <4> QED BY <4>1
    <3>2. b = <<>> BY <2>9, <2>10
    <3>3. a \o <<>> = a /\ Append(a, t) \o <<>> = Append(a, t) BY <2>5, ConcatEmptySeq
    <3> QED BY <2>6, <2>7, <2>8, <2>10, <3>1, <3>2, <3>3 DEF z
  <2>11. CASE t.offset \in B /\ t.offset \notin A
    <3>1. Append(a \o b, t) = a \o Append(b, t)
      <4>1. a \in Seq(TagsWith(T)) /\ b \in Seq(TagsWith(T)) /\ t \in TagsWith(T) BY <2>5
      <4>2. a \o Append(b, t) = Append(a \o b, t) /\ Append(a \o b, t) \in Seq(TagsWith(T))
        BY ONLY <4>1, AppendApart
      <4> QED BY <4>2
    <3> QED BY <2>6, <2>7, <2>8, <2>11, <3>1 DEF z
  <2>12. CASE t.offset \notin A /\ t.offset \notin B BY <2>6, <2>7, <2>8, <2>12 DEF z
  <2> QED BY <2>10, <2>11, <2>12
<1>3. Seq(TagsWith(T)) \subseteq G
  <2> HIDE DEF G
  <2> QED BY <1>1, <1>2, AppendInduction
<1> QED BY <1>3

-----------------------------------------------------------------------------

\* The tags of a stream whose items are numbers.
AllTags(T, all) == all \in Seq(TagsWith(T))

\* Those on one item.
LEMMA ThoseAt ==
  ASSUME NEW T, NEW all, AllTags(T, all), NEW x
  PROVE  TagsAt(all, x) \in Seq(TagsWith(T)) /\ \A i \in 1 .. Len(TagsAt(all, x)) : TagsAt(all, x)[i].offset = x
<1> DEFINE D == {x}
           w == Within(all, D)
<1>1. all \in Seq(TagsWith(T)) BY DEF AllTags
<1>2. w \in Seq(TagsWith(T)) /\ \A i \in 1 .. Len(w) : w[i].offset \in D
  <2> HIDE DEF D
  <2> QED BY <1>1, WithinType
<1>3. w = TagsAt(all, x) BY DEF TagsAt
<1> HIDE DEF w
<1>4. \A i \in 1 .. Len(w) : w[i].offset = x BY <1>2
<1> QED BY <1>2, <1>3, <1>4

\* What follows one more item.
LEMMA CarriedAppend ==
  ASSUME NEW T, NEW all, AllTags(T, all), NEW a \in Seq(Int), NEW x \in Int, NEW b, NEW o, Twice(b, Len(a), o)
  PROVE  /\ CarriedBy(all, a, b) \in Seq(TagsWith(T))
         /\ CarriedBy(all, Append(a, x), b) = CarriedBy(all, a, b) \o OnItem(TagsAt(all, x), o)
         /\ OnItem(TagsAt(all, x), o) \in Seq(TagsWith(T))
<1> DEFINE Part(s) == [i \in DOMAIN s |-> OnItem(TagsAt(all, s[i]), b + i - 1)]
           z == Append(a, x)
           n == Len(a)
           e == OnItem(TagsAt(all, x), o)
<1>0. b \in Int /\ o \in Int /\ o = b + n BY DEF Twice
<1>1. /\ n \in Nat /\ DOMAIN a = 1 .. n /\ z \in Seq(Int) /\ Len(z) = n + 1 /\ DOMAIN z = 1 .. n + 1
      /\ z[n + 1] = x /\ \A i \in 1 .. n : z[i] = a[i] /\ a[i] \in Int
  OBVIOUS
<1>2. ASSUME NEW u, NEW d \in Int PROVE OnItem(TagsAt(all, u), d) \in Seq(TagsWith(T))
  <2>1. TagsAt(all, u) \in Seq(TagsWith(T)) BY ThoseAt
  <2> QED BY <2>1, Placed
<1> HIDE DEF z
<1>3. e \in Seq(TagsWith(T)) BY <1>0, <1>2
<1>4. ASSUME NEW s \in Seq(Int) PROVE Part(s) \in Seq(Seq(TagsWith(T))) /\ Len(Part(s)) = Len(s)
  <2>1. Len(s) \in Nat /\ DOMAIN s = 1 .. Len(s) OBVIOUS
  <2>2. ASSUME NEW i \in 1 .. Len(s) PROVE OnItem(TagsAt(all, s[i]), b + i - 1) \in Seq(TagsWith(T))
    <3>1. b + i - 1 \in Int BY <1>0
    <3> QED BY <1>2, <3>1
  <2>3. Part(s) = [i \in 1 .. Len(s) |-> OnItem(TagsAt(all, s[i]), b + i - 1)] BY <2>1
  <2> HIDE DEF Part
  <2> QED BY <2>1, <2>2, <2>3
<1>5. Part(z) = Append(Part(a), e)
  <2> DEFINE p == Part(a)
             q == Part(z)
             w == Append(p, e)
  <2>1. p \in Seq(Seq(TagsWith(T))) /\ Len(p) = n BY <1>4
  <2>2. q \in Seq(Seq(TagsWith(T))) /\ Len(q) = n + 1 BY <1>1, <1>4
  <2>3. \A i \in 1 .. n : p[i] = OnItem(TagsAt(all, a[i]), b + i - 1) BY <1>1
  <2>4. \A i \in 1 .. n + 1 : q[i] = OnItem(TagsAt(all, z[i]), b + i - 1) BY <1>1
  <2> HIDE DEF p, q
  <2>5. w \in Seq(Seq(TagsWith(T))) /\ Len(w) = n + 1 /\ w[n + 1] = e /\ \A i \in 1 .. n : w[i] = p[i]
    BY <1>1, <1>3, <2>1
  <2> HIDE DEF w
  <2>6. ASSUME NEW i \in 1 .. Len(q) PROVE q[i] = w[i]
    <3>1. CASE i = n + 1
      <4>1. i \in 1 .. n + 1 /\ b + i - 1 = o /\ z[i] = x BY <1>0, <1>1, <3>1
      <4>2. q[i] = e BY <2>4, <4>1
      <4> QED BY <2>5, <3>1, <4>2
    <3>2. CASE i # n + 1
      <4>1. i \in 1 .. n /\ i \in 1 .. n + 1 BY <1>1, <2>2, <3>2
      <4>2. z[i] = a[i] BY <1>1, <4>1
      <4>3. p[i] = q[i] BY <2>3, <2>4, <4>1, <4>2
      <4> QED BY <2>5, <4>1, <4>3
    <3> QED BY <3>1, <3>2
  <2>7. q \in Seq(Seq(TagsWith(T))) /\ w \in Seq(Seq(TagsWith(T))) /\ Len(q) = Len(w) /\ \A i \in 1 .. Len(q) : q[i] = w[i]
    BY <2>2, <2>5, <2>6
  <2>8. q = w BY ONLY <2>7, SeqEqual
  <2> QED BY <2>8 DEF p, q, w
<1>6. CarriedBy(all, a, b) = FlattenSeq(Part(a)) /\ CarriedBy(all, z, b) = FlattenSeq(Part(z)) BY DEF CarriedBy
<1>7. Part(a) \in Seq(Seq(TagsWith(T))) BY <1>4
<1> HIDE DEF Part, e
<1>8. FlattenSeq(Part(z)) = FlattenSeq(Part(a)) \o e /\ FlattenSeq(Part(a)) \in Seq(TagsWith(T))
  BY <1>3, <1>5, <1>7, FlattenAppend
<1> QED BY <1>3, <1>6, <1>8 DEF z, e

LEMMA CarriedNone == ASSUME NEW all, NEW b PROVE CarriedBy(all, <<>>, b) = <<>>
<1>1. [i \in DOMAIN <<>> |-> OnItem(TagsAt(all, <<>>[i]), b + i - 1)] = <<>> OBVIOUS
<1> QED BY <1>1, FlattenEmpty DEF CarriedBy

\* Where the tags are, and that they move with the items.
LEMMA CarriedType ==
  ASSUME NEW T, NEW all, AllTags(T, all), NEW a \in Seq(Int), NEW b \in Int
  PROVE  /\ CarriedBy(all, a, b) \in Seq(TagsWith(T))
         /\ \A i \in 1 .. Len(CarriedBy(all, a, b)) : CarriedBy(all, a, b)[i].offset \in b .. b + Len(a) - 1
<1> DEFINE G == {u \in Seq(Int) : \A i \in 1 .. Len(CarriedBy(all, u, b)) :
                                    CarriedBy(all, u, b)[i].offset \in b .. b + Len(u) - 1}
<1>1. <<>> \in G
  <2> DEFINE f == CarriedBy(all, <<>>, b)
  <2>1. f = <<>> BY CarriedNone
  <2>2. <<>> \in Seq(Int) /\ Len(<<>>) = 0 /\ \A i \in 1 .. 0 : FALSE OBVIOUS
  <2> HIDE DEF f
  <2>3. \A i \in 1 .. Len(f) : f[i].offset \in b .. b + Len(<<>>) - 1 BY <2>1, <2>2
  <2> QED BY <2>2, <2>3 DEF f
<1>2. ASSUME NEW u \in Seq(Int), NEW x \in Int, u \in G PROVE Append(u, x) \in G
  <2> DEFINE z == Append(u, x)
             w == TagsAt(all, x)
             o == b + Len(u)
             e == OnItem(w, o)
             f == CarriedBy(all, u, b)
             g == CarriedBy(all, z, b)
  <2>2. z \in Seq(Int) /\ Len(z) = Len(u) + 1 /\ Len(u) \in Nat OBVIOUS
  <2>3. o \in Int /\ o = b + Len(u) BY <2>2
  <2>1. /\ f \in Seq(TagsWith(T)) /\ g = f \o e /\ e \in Seq(TagsWith(T))
    <3>1. Twice(b, Len(u), o) BY <2>2, <2>3 DEF Twice
    <3> HIDE DEF o
    <3> QED BY <3>1, CarriedAppend
  <2>4. w \in Seq(TagsWith(T)) BY ThoseAt
  <2> HIDE DEF z, w, o
  <2>5. Len(e) = Len(w) /\ \A i \in 1 .. Len(w) : e[i] = MovedTo(w[i], o) /\ w[i] \in TagsWith(T)
    BY <2>3, <2>4, Placed
  <2>6. \A i \in 1 .. Len(f) : f[i].offset \in b .. b + Len(u) - 1 BY <1>2
  <2> HIDE DEF e, f, g
  <2>7. /\ Len(g) = Len(f) + Len(e) /\ \A i \in 1 .. Len(f) : g[i] = f[i]
        /\ \A i \in Len(f) + 1 .. Len(f) + Len(e) : g[i] = e[i - Len(f)]
        /\ Len(f) \in Nat /\ Len(e) \in Nat
    <3>1. f \in Seq(TagsWith(T)) /\ e \in Seq(TagsWith(T)) BY <2>1
    <3>2. /\ f \o e \in Seq(TagsWith(T)) /\ Len(f \o e) = Len(f) + Len(e) /\ \A i \in 1 .. Len(f) : (f \o e)[i] = f[i]
          /\ \A i \in Len(f) + 1 .. Len(f) + Len(e) : (f \o e)[i] = e[i - Len(f)]
      BY ONLY <3>1, Concatenation
    <3>3. Len(f) \in Nat /\ Len(e) \in Nat BY <3>1
    <3> QED BY <2>1, <3>2, <3>3
  <2>8. ASSUME NEW i \in 1 .. Len(g) PROVE g[i].offset \in b .. b + Len(z) - 1
    <3>1. CASE i <= Len(f)
      <4>1. i \in 1 .. Len(f) BY <2>7, <3>1
      <4>2. g[i].offset \in b .. b + Len(u) - 1 BY <2>6, <2>7, <4>1
      <4> QED BY <2>2, <4>2
    <3>2. CASE ~ (i <= Len(f))
      <4> DEFINE j == i - Len(f)
      <4>1. j \in 1 .. Len(e) /\ g[i] = e[j] BY <2>7, <3>2
      <4> HIDE DEF j
      <4>2. e[j] = MovedTo(w[j], o) /\ w[j] \in TagsWith(T) BY <2>5, <4>1
      <4>3. MovedTo(w[j], o).offset = o BY <2>3, <4>2, MovedFields
      <4> QED BY <2>2, <2>3, <4>1, <4>2, <4>3
    <3> QED BY <3>1, <3>2
  <2> QED BY <2>2, <2>8 DEF z, g
<1>3. Seq(Int) \subseteq G
  <2> HIDE DEF G
  <2> QED BY <1>1, <1>2, AppendInduction
<1>4. CarriedBy(all, a, b) \in Seq(TagsWith(T))
  <2> DEFINE o == b + Len(a)
             x == 0
  <2>1. x \in Int /\ Twice(b, Len(a), o) BY DEF Twice
  <2> HIDE DEF o, x
  <2> QED BY <2>1, CarriedAppend
<1> QED BY <1>3, <1>4

\* The tags of two rows of items in a row.
LEMMA CarriedApart ==
  ASSUME NEW T, NEW all, AllTags(T, all), NEW a \in Seq(Int), NEW c \in Seq(Int), NEW b \in Int
  PROVE  CarriedBy(all, a \o c, b) = CarriedBy(all, a, b) \o CarriedBy(all, c, b + Len(a))
<1> DEFINE o == b + Len(a)
           f == CarriedBy(all, a, b)
           G == {u \in Seq(Int) : CarriedBy(all, a \o u, b) = f \o CarriedBy(all, u, o)}
<1>0. f \in Seq(TagsWith(T)) /\ o \in Int
  <2>1. Len(a) \in Nat OBVIOUS
  <2> QED BY <2>1, CarriedType
<1>1. <<>> \in G
  <2>1. CarriedBy(all, <<>>, o) = <<>> BY CarriedNone
  <2>2. a \o <<>> = a BY ConcatEmptySeq
  <2>3. <<>> \in Seq(Int) OBVIOUS
  <2> HIDE DEF f, o
  <2>4. f \o <<>> = f BY <1>0, ConcatEmptySeq
  <2>5. CarriedBy(all, a \o <<>>, b) = f \o CarriedBy(all, <<>>, o) BY <2>1, <2>2, <2>4, Zenon DEF f
  <2> QED BY <2>3, <2>5
<1>2. ASSUME NEW u \in Seq(Int), NEW x \in Int, u \in G PROVE Append(u, x) \in G
  <2> DEFINE w == TagsAt(all, x)
             v == a \o u
             g == CarriedBy(all, u, o)
             l == o + Len(u)
             e == OnItem(w, l)
  <2>1. v \in Seq(Int) /\ Len(v) = Len(a) + Len(u) /\ a \o Append(u, x) = Append(v, x) /\ Append(u, x) \in Seq(Int)
        /\ Len(a) \in Nat /\ Len(u) \in Nat
    OBVIOUS
  <2>3. Twice(o, Len(u), l) /\ Twice(b, Len(v), l)
    <3> HIDE DEF v
    <3> QED BY <2>1, <1>0 DEF Twice
  <2>4. CarriedBy(all, v, b) = f \o g BY <1>2
  <2> HIDE DEF v, o, l
  <2>2. CarriedBy(all, Append(u, x), o) = g \o e /\ g \in Seq(TagsWith(T)) /\ e \in Seq(TagsWith(T))
    BY <2>3, CarriedAppend
  <2>5. CarriedBy(all, Append(v, x), b) = CarriedBy(all, v, b) \o e
    <3> DEFINE q == CarriedBy(all, v, b)
    <3>1. AllTags(T, all) /\ v \in Seq(Int) /\ x \in Int /\ Twice(b, Len(v), l) BY <2>1, <2>3
    <3>2. /\ q \in Seq(TagsWith(T))
          /\ CarriedBy(all, Append(v, x), b) = q \o e
          /\ e \in Seq(TagsWith(T))
      BY ONLY <3>1, CarriedAppend
    <3> QED BY <3>2
  <2> HIDE DEF e, f, g
  <2>6. f \o (g \o e) = f \o g \o e
    <3>1. f \in Seq(TagsWith(T)) /\ g \in Seq(TagsWith(T)) /\ e \in Seq(TagsWith(T)) BY <1>0, <2>2
    <3> QED BY ONLY <3>1, ConcatAssociative
  <2>7. CarriedBy(all, a \o Append(u, x), b) = f \o CarriedBy(all, Append(u, x), o)
    BY <2>1, <2>2, <2>4, <2>5, <2>6, Zenon
  <2> QED BY <2>1, <2>7 DEF f, o
<1>3. Seq(Int) \subseteq G
  <2> HIDE DEF G
  <2> QED BY <1>1, <1>2, AppendInduction
<1> QED BY <1>3

LEMMA CarriedShifted ==
  ASSUME NEW T, NEW all, AllTags(T, all), NEW a \in Seq(Int), NEW b, NEW d, NEW f, Twice(b, d, f)
  PROVE  Shift(CarriedBy(all, a, b), d) = CarriedBy(all, a, f)
<1> DEFINE G == {u \in Seq(Int) : Shift(CarriedBy(all, u, b), d) = CarriedBy(all, u, f)}
<1>0. b \in Int /\ d \in Int /\ f \in Int /\ f = b + d BY DEF Twice
<1>1. <<>> \in G
  <2>1. CarriedBy(all, <<>>, b) = <<>> /\ CarriedBy(all, <<>>, f) = <<>> BY CarriedNone
  <2>2. <<>> \in Seq(Int) /\ Shift(<<>>, d) = <<>>
    <3>1. [i \in DOMAIN <<>> |-> MovedTo(<<>>[i], <<>>[i].offset + d)] = <<>> OBVIOUS
    <3> QED BY <3>1 DEF Shift
  <2>3. Shift(CarriedBy(all, <<>>, b), d) = CarriedBy(all, <<>>, f) BY <2>1, <2>2, Zenon
  <2> QED BY <2>2, <2>3
<1>2. ASSUME NEW u \in Seq(Int), NEW x \in Int, u \in G PROVE Append(u, x) \in G
  <2> DEFINE w == TagsAt(all, x)
             g == CarriedBy(all, u, b)
             h == CarriedBy(all, u, f)
             k == b + Len(u)
             l == f + Len(u)
             e == OnItem(w, k)
             q == OnItem(w, l)
  <2>3. w \in Seq(TagsWith(T)) BY ThoseAt
  <2>4. Twice(k, d, l) /\ Twice(b, Len(u), k) /\ Twice(f, Len(u), l)
    <3>1. Len(u) \in Nat OBVIOUS
    <3> QED BY <1>0, <3>1 DEF Twice
  <2> HIDE DEF k, l
  <2>1. CarriedBy(all, Append(u, x), b) = g \o e /\ g \in Seq(TagsWith(T)) /\ e \in Seq(TagsWith(T))
    BY <2>4, CarriedAppend
  <2>2. CarriedBy(all, Append(u, x), f) = h \o q BY <2>4, CarriedAppend
  <2> HIDE DEF w
  <2>5. Shift(e, d) = q BY <2>3, <2>4, ShiftPlaced
  <2>6. Shift(g, d) = h BY <1>2
  <2> HIDE DEF e, q, g, h
  <2>7. Shift(g \o e, d) = Shift(g, d) \o Shift(e, d) BY <1>0, <2>1, ShiftApart
  <2>8. Append(u, x) \in Seq(Int) OBVIOUS
  <2>9. Shift(CarriedBy(all, Append(u, x), b), d) = CarriedBy(all, Append(u, x), f)
    BY <2>1, <2>2, <2>5, <2>6, <2>7, Zenon
  <2> QED BY <2>8, <2>9
<1>3. Seq(Int) \subseteq G
  <2> HIDE DEF G
  <2> QED BY <1>1, <1>2, AppendInduction
<1> QED BY <1>3

\* Cut behind the first items, or in front of the others.
LEMMA CarriedCut ==
  ASSUME NEW T, NEW all, AllTags(T, all), NEW a \in Seq(Int), NEW c \in Seq(Int), NEW n, n = Len(a)
  PROVE  /\ Below(CarriedBy(all, a \o c, 0), n) = CarriedBy(all, a, 0)
         /\ Beyond(CarriedBy(all, a \o c, 0), n) = CarriedBy(all, c, 0)
<1> DEFINE x == CarriedBy(all, a, 0)
           y == CarriedBy(all, c, n)
           w == CarriedBy(all, c, 0)
           z == CarriedBy(all, a \o c, 0)
           A == 0 .. n - 1
           B == Nat \ A
           d == -n
<1>1. n \in Nat /\ Len(a) = n /\ Len(c) \in Nat /\ 0 + n = n /\ d \in Int /\ Twice(n, d, 0) /\ 0 \in Int BY DEF Twice
<1>2. /\ x \in Seq(TagsWith(T)) /\ \A i \in 1 .. Len(x) : x[i].offset \in 0 .. 0 + Len(a) - 1
      /\ y \in Seq(TagsWith(T)) /\ \A i \in 1 .. Len(y) : y[i].offset \in n .. n + Len(c) - 1
  BY <1>1, CarriedType
<1>3. z = x \o y
  <2>1. CarriedBy(all, a \o c, 0) = CarriedBy(all, a, 0) \o CarriedBy(all, c, 0 + Len(a)) BY <1>1, CarriedApart
  <2>2. 0 + Len(a) = n BY <1>1
  <2> QED BY <2>1, <2>2, Zenon
<1>4. Shift(y, d) = w BY <1>1, CarriedShifted
<1> HIDE DEF x, y, z, w
<1>5. \A i \in 1 .. Len(x) : x[i].offset \in A /\ x[i].offset \notin B BY <1>1, <1>2
<1>6. \A i \in 1 .. Len(y) : y[i].offset \in B /\ y[i].offset \notin A BY <1>1, <1>2
<1> HIDE DEF A, B, d
<1>7. Within(x, A) = x /\ Within(x, B) = <<>> /\ Within(y, A) = <<>> /\ Within(y, B) = y
  BY <1>2, <1>5, <1>6, WithinType
<1>8. Within(z, A) = Within(x, A) \o Within(y, A) /\ Within(z, B) = Within(x, B) \o Within(y, B)
  BY <1>2, <1>3, WithinApart
<1>9. x \o <<>> = x /\ <<>> \o y = y BY <1>2, ConcatEmptySeq
<1>10. Within(z, A) = x /\ Shift(Within(z, B), d) = w BY <1>4, <1>7, <1>8, <1>9, Zenon
<1>11. Below(z, n) = Within(z, A) /\ Beyond(z, n) = Shift(Within(z, B), d) BY DEF Below, Beyond, A, B, d
<1> QED BY <1>10, <1>11 DEF x, w, z

\* What is collected from n items of the stream, and numbered from the first.
LEMMA CarriedCollected ==
  ASSUME NEW T, NEW all, AllTags(T, all), Sorted(all), NEW first \in Int, NEW n \in Nat
  PROVE  Shift(Within(all, first .. first + n - 1), - first) = CarriedBy(all, Numbers(first, n), 0)
<1> DEFINE G == {k \in Nat : Within(all, first .. first + k - 1) = CarriedBy(all, Numbers(first, k), first)}
<1>0. all \in Seq(TagsWith(T)) BY DEF AllTags
<1>1. 0 \in G
  <2>1. Numbers(first, 0) = <<>> BY DEF Numbers
  <2>2. CarriedBy(all, Numbers(first, 0), first) = <<>> BY <2>1, CarriedNone
  <2> DEFINE D == first .. first + 0 - 1
  <2>3. \A i \in 1 .. Len(all) : all[i].offset \notin D OBVIOUS
  <2> HIDE DEF D
  <2>4. Within(all, D) = <<>> BY <1>0, <2>3, WithinType
  <2>5. Within(all, first .. first + 0 - 1) = CarriedBy(all, Numbers(first, 0), first) BY <2>2, <2>4 DEF D
  <2> QED BY <2>5
<1>2. ASSUME NEW k \in Nat, k \in G PROVE k + 1 \in G
  <2> DEFINE x == first + k
             a == Numbers(first, k)
             A == first .. first + k - 1
             B == {x}
             t == TagsAt(all, x)
             f == CarriedBy(all, a, first)
  <2>1. x \in Int /\ A \in SUBSET Int /\ B \in SUBSET Int /\ \A p \in A : \A q \in B : p < q OBVIOUS
  <2>2. first .. first + (k + 1) - 1 = A \cup B OBVIOUS
  <2>3. a \in Seq(Int) /\ Len(a) = k BY DEF Numbers
  <2>4. Numbers(first, k + 1) = Append(a, x)
    <3> DEFINE y == Numbers(first, k + 1)
               z == Append(a, x)
    <3>1. y \in Seq(Int) /\ Len(y) = k + 1 /\ \A i \in 1 .. k + 1 : y[i] = first + i - 1 BY DEF Numbers
    <3>2. \A i \in 1 .. k : a[i] = first + i - 1 BY DEF Numbers
    <3> HIDE DEF a, x, y
    <3>3. z \in Seq(Int) /\ Len(z) = k + 1 /\ z[k + 1] = x /\ \A i \in 1 .. k : z[i] = a[i] BY <2>1, <2>3
    <3> HIDE DEF z
    <3>4. ASSUME NEW i \in 1 .. Len(y) PROVE y[i] = z[i]
      <4>1. CASE i = k + 1 BY <3>1, <3>3, <4>1 DEF x
      <4>2. CASE i # k + 1
        <5>1. i \in 1 .. k /\ i \in 1 .. k + 1 BY <3>1, <4>2
        <5> QED BY <3>1, <3>2, <3>3, <5>1
      <4> QED BY <4>1, <4>2
    <3>5. y \in Seq(Int) /\ z \in Seq(Int) /\ Len(y) = Len(z) /\ \A i \in 1 .. Len(y) : y[i] = z[i] BY <3>1, <3>3, <3>4
    <3>6. y = z BY ONLY <3>5, SeqEqual
    <3> QED BY <3>6 DEF y, z
  <2>5. t = Within(all, B) BY DEF TagsAt
  <2>6. Twice(first, Len(a), x) BY <2>3 DEF Twice
  <2>7. Within(all, A) = f BY <1>2
  <2> HIDE DEF A, B, x, a
  <2>8. Within(all, A \cup B) = Within(all, A) \o Within(all, B) BY <1>0, <2>1, WithinBoth
  <2>9. CarriedBy(all, Append(a, x), first) = f \o OnItem(t, x) BY <2>1, <2>3, <2>6, CarriedAppend
  <2>10. OnItem(t, x) = t
    <3>1. t \in Seq(TagsWith(T)) /\ \A i \in 1 .. Len(t) : t[i].offset = x BY ThoseAt
    <3> DEFINE z == OnItem(t, x)
    <3> HIDE DEF t
    <3>2. z \in Seq(TagsWith(T)) /\ Len(z) = Len(t) /\ \A i \in 1 .. Len(t) : z[i] = MovedTo(t[i], x)
      BY <2>1, <3>1, Placed
    <3> HIDE DEF z
    <3>3. ASSUME NEW i \in 1 .. Len(t) PROVE z[i] = t[i]
      <4>1. t[i] \in TagsWith(T) /\ t[i].offset = x BY <3>1
      <4>2. MovedTo(t[i], x) = t[i] BY <2>1, <4>1, MovedFields
      <4> QED BY <3>2, <4>2
    <3>4. z = t BY <3>1, <3>2, <3>3, SeqEqual
    <3> QED BY <3>4 DEF z
  <2> HIDE DEF f, t
  <2>11. Within(all, first .. first + (k + 1) - 1) = CarriedBy(all, Numbers(first, k + 1), first)
    BY <2>2, <2>4, <2>5, <2>7, <2>8, <2>9, <2>10, Zenon
  <2> HIDE DEF G
  <2> QED BY <2>11 DEF G
<1>3. Nat \subseteq G
  <2> HIDE DEF G
  <2> QED BY <1>1, <1>2, Induction
<1>4. Within(all, first .. first + n - 1) = CarriedBy(all, Numbers(first, n), first) BY <1>3
<1>5. Numbers(first, n) \in Seq(Int) BY DEF Numbers
<1> DEFINE a == Numbers(first, n)
           d == - first
<1>6. Twice(first, d, 0) BY DEF Twice
<1> HIDE DEF a, d
<1>7. Shift(CarriedBy(all, a, first), d) = CarriedBy(all, a, 0) BY <1>5, <1>6, CarriedShifted DEF a
<1> QED BY <1>4, <1>7 DEF a, d

\* Seen from the item they are counted from.
LEMMA CarriedRebased ==
  ASSUME NEW T, NEW all, AllTags(T, all), NEW a \in Seq(Int), NEW n \in Int
  PROVE  Rebase(CarriedBy(all, a, n), n) = CarriedBy(all, a, 0)
<1> DEFINE s == CarriedBy(all, a, n)
           x == Rebase(s, n)
           d == -n
           z == Shift(s, d)
<1>1. s \in Seq(TagsWith(T)) /\ \A i \in 1 .. Len(s) : s[i].offset \in n .. n + Len(a) - 1 BY CarriedType
<1>2. d \in Int /\ Twice(n, d, 0) BY DEF Twice
<1>3. z = CarriedBy(all, a, 0)
  <2> HIDE DEF d
  <2> QED BY <1>2, CarriedShifted
<1> HIDE DEF s
<1>4. Len(s) \in Nat /\ DOMAIN s = 1 .. Len(s) /\ Len(a) \in Nat BY <1>1
<1>5. x = [i \in 1 .. Len(s) |-> MovedTo(s[i], s[i].offset + d)]
  <2>1. \A i \in 1 .. Len(s) : (IF s[i].offset >= n THEN s[i].offset - n ELSE s[i].offset) = s[i].offset + d
    BY <1>1, <1>4
  <2>2. x = [i \in 1 .. Len(s) |-> MovedTo(s[i], IF s[i].offset >= n THEN s[i].offset - n ELSE s[i].offset)]
    BY <1>4 DEF Rebase
  <2> QED BY <2>1, <2>2
<1>6. z = [i \in 1 .. Len(s) |-> MovedTo(s[i], s[i].offset + d)] BY <1>4 DEF Shift
<1> QED BY <1>3, <1>5, <1>6 DEF s

\* Tags put behind others with the items they are on.
LEMMA CarriedBehind ==
  ASSUME NEW T, NEW all, AllTags(T, all), NEW a \in Seq(Int), NEW c \in Seq(Int)
  PROVE  CarriedBy(all, a, 0) \o Shift(CarriedBy(all, c, 0), Len(a)) = CarriedBy(all, a \o c, 0)
<1> DEFINE n == Len(a)
<1>1. n \in Nat /\ Twice(0, n, n) /\ 0 \in Int /\ 0 + n = n BY DEF Twice
<1>2. Shift(CarriedBy(all, c, 0), n) = CarriedBy(all, c, n)
  <2> HIDE DEF n
  <2> QED BY <1>1, CarriedShifted
<1>3. CarriedBy(all, a \o c, 0) = CarriedBy(all, a, 0) \o CarriedBy(all, c, 0 + Len(a)) BY <1>1, CarriedApart
<1>4. 0 + Len(a) = n BY <1>1
<1> QED BY <1>2, <1>3, <1>4, Zenon

\* One item with its tags.
LEMMA CarriedOne ==
  ASSUME NEW T, NEW all, AllTags(T, all), NEW x \in Int, NEW n \in Int
  PROVE  OnItem(CarriedBy(all, <<x>>, 0), n) = CarriedBy(all, <<x>>, n)
<1> DEFINE e == <<>>
           t == TagsAt(all, x)
           s == OnItem(t, 0)
           y == OnItem(s, n)
           z == OnItem(t, n)
<1>1. e \in Seq(Int) /\ Append(e, x) = <<x>> /\ Twice(0, Len(e), 0) /\ Twice(n, Len(e), n) /\ 0 \in Int BY DEF Twice
<1>2. CarriedBy(all, e, 0) = <<>> /\ CarriedBy(all, e, n) = <<>> BY CarriedNone
<1> HIDE DEF e
<1>0. AllTags(T, all) /\ e \in Seq(Int) /\ x \in Int /\ Twice(0, Len(e), 0) /\ Twice(n, Len(e), n) BY <1>1
<1>3. /\ CarriedBy(all, e, 0) \in Seq(TagsWith(T))
      /\ CarriedBy(all, Append(e, x), 0) = CarriedBy(all, e, 0) \o s /\ s \in Seq(TagsWith(T))
  BY ONLY <1>0, CarriedAppend
<1>4. /\ CarriedBy(all, e, n) \in Seq(TagsWith(T))
      /\ CarriedBy(all, Append(e, x), n) = CarriedBy(all, e, n) \o z /\ z \in Seq(TagsWith(T))
  BY ONLY <1>0, CarriedAppend
<1> HIDE DEF t
<1>5. t \in Seq(TagsWith(T)) BY ThoseAt DEF t
<1>6. /\ s \in Seq(TagsWith(T)) /\ Len(s) = Len(t) /\ \A i \in 1 .. Len(t) : s[i] = MovedTo(t[i], 0)
  BY <1>1, <1>5, Placed
<1>7. /\ z \in Seq(TagsWith(T)) /\ Len(z) = Len(t) /\ \A i \in 1 .. Len(t) : z[i] = MovedTo(t[i], n)
  BY <1>5, Placed
<1>8. <<>> \o s = s /\ <<>> \o z = z BY <1>6, <1>7, ConcatEmptySeq
<1> HIDE DEF s, z
<1>9. /\ y \in Seq(TagsWith(T)) /\ Len(y) = Len(s) /\ \A i \in 1 .. Len(s) : y[i] = MovedTo(s[i], n)
  BY <1>6, Placed
<1> HIDE DEF y
<1>10. ASSUME NEW i \in 1 .. Len(y) PROVE y[i] = z[i]
  <2>1. i \in 1 .. Len(s) /\ i \in 1 .. Len(t) BY <1>6, <1>9
  <2>2. s[i] = MovedTo(t[i], 0) /\ y[i] = MovedTo(s[i], n) /\ z[i] = MovedTo(t[i], n) BY <1>6, <1>7, <1>9, <2>1
  <2>3. t[i] \in TagsWith(T) /\ s[i] \in TagsWith(T) BY <1>5, <1>6, <2>1
  <2>4. s[i].tag = t[i].tag
    <3>1. MovedTo(t[i], 0).tag = t[i].tag BY <1>1, <2>3, MovedFields
    <3> QED BY <2>2, <3>1
  <2> QED BY <2>2, <2>4 DEF MovedTo
<1>11. y \in Seq(TagsWith(T)) /\ z \in Seq(TagsWith(T)) /\ Len(y) = Len(z) /\ \A i \in 1 .. Len(y) : y[i] = z[i]
  BY <1>6, <1>7, <1>9, <1>10
<1>12. y = z BY ONLY <1>11, SeqEqual
<1> QED BY <1>1, <1>2, <1>3, <1>4, <1>8, <1>12, Zenon DEF y

\* A row of one item behind another row.
LEMMA CarriedNext ==
  ASSUME NEW T, NEW all, AllTags(T, all), NEW a \in Seq(Int), NEW c \in Seq(Int), Len(c) = 1
  PROVE  CarriedBy(all, a, 0) \o OnItem(CarriedBy(all, c, 0), Len(a)) = CarriedBy(all, a \o c, 0)
<1> DEFINE x == c[1]
           e == <<x>>
<1>0. x \in Int
  <2>1. 1 \in 1 .. Len(c) OBVIOUS
  <2> QED BY <2>1, ElementOfSeq
<1> HIDE DEF x
<1>1. x \in Int /\ e \in Seq(Int) /\ Len(e) = 1 /\ e[1] = x BY <1>0
<1>2. c = e
  <2> HIDE DEF e
  <2>1. \A i \in 1 .. Len(c) : c[i] = e[i] BY <1>1 DEF x
  <2>2. c \in Seq(Int) /\ e \in Seq(Int) /\ Len(c) = Len(e) /\ \A i \in 1 .. Len(c) : c[i] = e[i] BY <1>1, <2>1
  <2> QED BY ONLY <2>2, SeqEqual
<1>3. Len(a) \in Int /\ 0 \in Int /\ 0 + Len(a) = Len(a) OBVIOUS
<1>4. OnItem(CarriedBy(all, <<x>>, 0), Len(a)) = CarriedBy(all, <<x>>, Len(a)) BY <1>1, <1>3, CarriedOne
<1>5. CarriedBy(all, a \o c, 0) = CarriedBy(all, a, 0) \o CarriedBy(all, c, 0 + Len(a)) BY <1>3, CarriedApart
<1> QED BY <1>2, <1>3, <1>4, <1>5, Zenon

\* What there is, s, and a message whose items are a and b, counted from h; a are n.
Cuts(T, all, s, a, b, n, h) ==
  /\ AllTags(T, all) /\ s \in Seq(Int) /\ a \in Seq(Int) /\ b \in Seq(Int) /\ n = Len(a) /\ h \in Int

\* If b is what does not fit, a goes with its tags behind s, and the tags of b
\* stay with b.
LEMMA CarriedTaken ==
  ASSUME NEW T, NEW all, NEW s, NEW a, NEW b, NEW n, NEW h, Cuts(T, all, s, a, b, n, h)
  PROVE  /\ CarriedBy(all, s, 0) \o Shift(Below(<<>>, n) \o Below(Rebase(CarriedBy(all, a \o b, h), h), n), Len(s))
              = CarriedBy(all, s \o a, 0)
         /\ Beyond(Rebase(CarriedBy(all, a \o b, h), h), n) = CarriedBy(all, b, 0)
         /\ Beyond(<<>>, n) = <<>>
<1> DEFINE c == a \o b
           r == Rebase(CarriedBy(all, c, h), h)
<1> USE DEF Cuts
<1>1. c \in Seq(Int) BY Concatenation
<1> HIDE DEF c
<1>2. r = CarriedBy(all, c, 0) BY <1>1, CarriedRebased
<1>3. Below(r, n) = CarriedBy(all, a, 0) /\ Beyond(r, n) = CarriedBy(all, b, 0)
  <2>1. Below(CarriedBy(all, c, 0), n) = CarriedBy(all, a, 0) /\ Beyond(CarriedBy(all, c, 0), n) = CarriedBy(all, b, 0)
    BY CarriedCut DEF c
  <2> HIDE DEF r
  <2> QED BY <1>2, <2>1, Zenon
<1>4. Below(<<>>, n) = <<>> BY WithinEmpty DEF Below
<1>5. Beyond(<<>>, n) = <<>>
  <2>1. Within(<<>>, Nat \ (0 .. n - 1)) = <<>> BY WithinEmpty
  <2>2. Shift(<<>>, -n) = <<>>
    <3>1. [i \in DOMAIN <<>> |-> MovedTo(<<>>[i], <<>>[i].offset + (-n))] = <<>> OBVIOUS
    <3> QED BY <3>1 DEF Shift
  <2> QED BY <2>1, <2>2, Zenon DEF Beyond
<1>6. CarriedBy(all, a, 0) \in Seq(TagsWith(T))
  <2>1. 0 \in Int OBVIOUS
  <2> QED BY <2>1, CarriedType
<1>7. <<>> \o CarriedBy(all, a, 0) = CarriedBy(all, a, 0) BY <1>6, ConcatEmptySeq
<1>8. CarriedBy(all, s, 0) \o Shift(CarriedBy(all, a, 0), Len(s)) = CarriedBy(all, s \o a, 0) BY CarriedBehind
<1> HIDE DEF r
<1> QED BY <1>3, <1>4, <1>5, <1>7, <1>8, Zenon DEF r, c

-----------------------------------------------------------------------------

\* Numbers that rise and are all below p.
Rising(s, p) ==
  /\ s \in Seq(Int) /\ p \in Int
  /\ \A i, j \in 1 .. Len(s) : i < j => s[i] < s[j]
  /\ \A i \in 1 .. Len(s) : s[i] < p

\* They still do without some in the middle, and with the next ones behind them.
LEMMA RisingWithout ==
  ASSUME NEW a \in Seq(Int), NEW b \in Seq(Int), NEW c \in Seq(Int), NEW p, Rising(a \o b \o c, p)
  PROVE  Rising(a \o c, p)
<1> DEFINE d == a \o b
           s == d \o c
           z == a \o c
           x == Len(a)
           y == Len(b)
           w == Len(c)
<1>1. x \in Nat /\ y \in Nat /\ w \in Nat OBVIOUS
<1>2. d \in Seq(Int) /\ Len(d) = x + y /\ \A i \in 1 .. x : d[i] = a[i] BY Concatenation
<1> HIDE DEF d
<1>3. /\ s \in Seq(Int) /\ Len(s) = Len(d) + w /\ \A i \in 1 .. Len(d) : s[i] = d[i]
      /\ \A i \in Len(d) + 1 .. Len(d) + w : s[i] = c[i - Len(d)]
  <2>1. d \in Seq(Int) /\ c \in Seq(Int) BY <1>2
  <2>2. /\ d \o c \in Seq(Int) /\ Len(d \o c) = Len(d) + Len(c) /\ \A i \in 1 .. Len(d) : (d \o c)[i] = d[i]
        /\ \A i \in Len(d) + 1 .. Len(d) + Len(c) : (d \o c)[i] = c[i - Len(d)]
    BY ONLY <2>1, Concatenation
  <2> QED BY <2>2
<1>4. /\ z \in Seq(Int) /\ Len(z) = x + w /\ \A i \in 1 .. x : z[i] = a[i]
      /\ \A i \in x + 1 .. x + w : z[i] = c[i - x]
  BY Concatenation
<1>5. Rising(s, p) BY DEF d
<1> HIDE DEF s, z, x, y, w
<1> DEFINE at(i) == IF i <= x THEN i ELSE i + y
<1>6. ASSUME NEW i \in 1 .. x + w PROVE at(i) \in 1 .. Len(s) /\ z[i] = s[at(i)]
  <2>1. CASE i <= x
    <3>1. i \in 1 .. x /\ i \in 1 .. Len(d) /\ at(i) = i /\ i \in 1 .. Len(s) BY <1>1, <1>2, <1>3, <2>1
    <3> HIDE DEF at
    <3> QED BY <1>2, <1>3, <1>4, <3>1
  <2>2. CASE ~ (i <= x)
    <3> DEFINE j == i + y
               k == i - x
    <3>1. i \in x + 1 .. x + w /\ j \in Len(d) + 1 .. Len(d) + w /\ j - Len(d) = k /\ at(i) = j /\ j \in 1 .. Len(s)
      BY <1>1, <1>2, <1>3, <2>2
    <3>2. z[i] = c[k] BY <1>4, <3>1
    <3> HIDE DEF at, j, k
    <3>3. s[j] = c[k] BY <1>3, <3>1
    <3> QED BY <3>1, <3>2, <3>3
  <2> QED BY <2>1, <2>2
<1>7. ASSUME NEW i \in 1 .. x + w, NEW j \in 1 .. x + w, i < j PROVE at(i) < at(j) BY <1>1, <1>7
<1> HIDE DEF at
<1>8. ASSUME NEW i \in 1 .. Len(z), NEW j \in 1 .. Len(z), i < j PROVE z[i] < z[j]
  <2>1. i \in 1 .. x + w /\ j \in 1 .. x + w BY <1>4
  <2>2. at(i) < at(j) BY <1>7, <1>8, <2>1
  <2> QED BY <1>5, <1>6, <2>1, <2>2 DEF Rising
<1>9. ASSUME NEW i \in 1 .. Len(z) PROVE z[i] < p
  <2>1. i \in 1 .. x + w BY <1>4
  <2> QED BY <1>5, <1>6, <2>1 DEF Rising
<1>10. p \in Int BY <1>5 DEF Rising
<1>11. Rising(z, p) BY <1>4, <1>8, <1>9, <1>10 DEF Rising
<1> QED BY <1>11 DEF z

LEMMA RisingOn ==
  ASSUME NEW a, NEW p, Rising(a, p), NEW n \in Nat
  PROVE  Rising(a, p + n) /\ Rising(a \o Numbers(p, n), p + n)
<1> DEFINE b == Numbers(p, n)
           z == a \o b
           x == Len(a)
<1>1. /\ a \in Seq(Int) /\ p \in Int /\ x \in Nat /\ (\A i, j \in 1 .. x : i < j => a[i] < a[j])
      /\ \A i \in 1 .. x : a[i] < p /\ a[i] \in Int
  BY DEF Rising
<1>2. b \in Seq(Int) /\ Len(b) = n /\ \A i \in 1 .. n : b[i] = p + i - 1 BY <1>1 DEF Numbers
<1> HIDE DEF b
<1>3. /\ z \in Seq(Int) /\ Len(z) = x + n /\ \A i \in 1 .. x : z[i] = a[i]
      /\ \A i \in x + 1 .. x + n : z[i] = b[i - x]
  <2>1. /\ z \in Seq(Int) /\ Len(z) = Len(a) + Len(b) /\ \A i \in 1 .. Len(a) : z[i] = a[i]
        /\ \A i \in Len(a) + 1 .. Len(a) + Len(b) : z[i] = b[i - Len(a)]
    BY <1>1, <1>2, Concatenation
  <2> QED BY <1>2, <2>1
<1> HIDE DEF z, x
<1>4. ASSUME NEW i \in x + 1 .. x + n PROVE z[i] = p + (i - x) - 1
  <2>1. i - x \in 1 .. n BY <1>1
  <2> QED BY <1>2, <1>3, <2>1
<1>5. Rising(a, p + n)
  <2>1. \A i \in 1 .. Len(a) : a[i] < p + n BY <1>1 DEF x
  <2> QED BY <1>1, <2>1 DEF Rising
<1>6. ASSUME NEW i \in 1 .. Len(z), NEW j \in 1 .. Len(z), i < j PROVE z[i] < z[j]
  <2>1. CASE j <= x
    <3>1. i \in 1 .. x /\ j \in 1 .. x BY <1>1, <1>3, <1>6, <2>1
    <3> QED BY <1>1, <1>3, <1>6, <3>1
  <2>2. CASE i <= x /\ ~ (j <= x)
    <3>1. i \in 1 .. x /\ j \in x + 1 .. x + n BY <1>1, <1>3, <2>2
    <3>2. z[i] < p /\ z[i] \in Int BY <1>1, <1>3, <3>1
    <3>3. z[j] = p + (j - x) - 1 BY <1>4, <3>1
    <3> QED BY <1>1, <3>1, <3>2, <3>3
  <2>3. CASE ~ (i <= x)
    <3>1. i \in x + 1 .. x + n /\ j \in x + 1 .. x + n BY <1>1, <1>3, <1>6, <2>3
    <3> QED BY <1>1, <1>4, <1>6, <3>1
  <2> QED BY <2>1, <2>2, <2>3
<1>7. ASSUME NEW i \in 1 .. Len(z) PROVE z[i] < p + n
  <2>1. CASE i <= x
    <3>1. i \in 1 .. x BY <1>1, <1>3, <2>1
    <3>2. z[i] = a[i] /\ a[i] < p /\ a[i] \in Int BY <1>1, <1>3, <3>1
    <3> QED BY <1>1, <3>2
  <2>2. CASE ~ (i <= x)
    <3>1. i \in x + 1 .. x + n BY <1>1, <1>3, <2>2
    <3> QED BY <1>1, <1>4, <3>1
  <2> QED BY <2>1, <2>2
<1>8. Rising(z, p + n) BY <1>1, <1>3, <1>6, <1>7 DEF Rising
<1> QED BY <1>5, <1>8 DEF z, b

LEMMA RisingFront ==
  ASSUME NEW a \in Seq(Int), NEW b \in Seq(Int), NEW p, Rising(a \o b, p)
  PROVE  Rising(a, p) /\ \A i \in 1 .. Len(a) - 1 : a[i] < a[i + 1]
<1> DEFINE c == a \o b
<1>1. c \in Seq(Int) /\ Len(c) = Len(a) + Len(b) /\ \A i \in 1 .. Len(a) : c[i] = a[i] BY Concatenation
<1>2. Len(a) \in Nat /\ Len(b) \in Nat OBVIOUS
<1> HIDE DEF c
<1>3. /\ \A i, j \in 1 .. Len(c) : i < j => c[i] < c[j]
      /\ p \in Int /\ \A i \in 1 .. Len(c) : c[i] < p
  BY DEF Rising, c
<1>4. ASSUME NEW i \in 1 .. Len(a), NEW j \in 1 .. Len(a), i < j PROVE a[i] < a[j]
  <2>1. i \in 1 .. Len(c) /\ j \in 1 .. Len(c) BY <1>1, <1>2
  <2> QED BY <1>1, <1>3, <1>4, <2>1
<1>5. ASSUME NEW i \in 1 .. Len(a) PROVE a[i] < p
  <2>1. i \in 1 .. Len(c) BY <1>1, <1>2
  <2> QED BY <1>1, <1>3, <2>1
<1>6. ASSUME NEW i \in 1 .. Len(a) - 1 PROVE a[i] < a[i + 1]
  <2>1. i \in 1 .. Len(a) /\ i + 1 \in 1 .. Len(a) /\ i < i + 1 BY <1>2
  <2> QED BY <1>4, <2>1
<1> QED BY <1>3, <1>4, <1>5, <1>6 DEF Rising

-----------------------------------------------------------------------------

\* The names of tags, one more of them, and those of two rows.
LEMMA NamesOf ==
  ASSUME NEW T, NEW s \in Seq(TagsWith(T))
  PROVE  /\ Names(s) \in Seq(T) /\ Len(Names(s)) = Len(s) /\ \A i \in 1 .. Len(s) : Names(s)[i] = s[i].tag
         /\ Names(<<>>) = <<>>
<1>1. DOMAIN s = 1 .. Len(s) /\ Len(s) \in Nat OBVIOUS
<1>2. \A i \in 1 .. Len(s) : s[i] \in TagsWith(T) OBVIOUS
<1>3. Names(s) = [i \in 1 .. Len(s) |-> s[i].tag] BY <1>1 DEF Names
<1>4. \A i \in 1 .. Len(s) : s[i].tag \in T BY <1>2 DEF TagsWith
<1>5. Names(<<>>) = <<>>
  <2>1. [i \in DOMAIN <<>> |-> <<>>[i].tag] = <<>> OBVIOUS
  <2> QED BY <2>1 DEF Names
<1> QED BY <1>1, <1>3, <1>4, <1>5

LEMMA NamesAppend ==
  ASSUME NEW T, NEW s \in Seq(TagsWith(T)), NEW t \in TagsWith(T)
  PROVE  Names(Append(s, t)) = Append(Names(s), t.tag)
<1> DEFINE z == Append(s, t)
           x == Names(s)
           y == Names(z)
           w == Append(x, t.tag)
<1>1. z \in Seq(TagsWith(T)) /\ Len(z) = Len(s) + 1 /\ z[Len(s) + 1] = t /\ \A i \in 1 .. Len(s) : z[i] = s[i]
  OBVIOUS
<1>2. t.tag \in T /\ Len(s) \in Nat BY DEF TagsWith
<1>3. x \in Seq(T) /\ Len(x) = Len(s) /\ \A i \in 1 .. Len(s) : x[i] = s[i].tag BY NamesOf
<1> HIDE DEF z, x
<1>4. y \in Seq(T) /\ Len(y) = Len(z) /\ \A i \in 1 .. Len(z) : y[i] = z[i].tag BY <1>1, NamesOf
<1> HIDE DEF y
<1>5. w \in Seq(T) /\ Len(w) = Len(x) + 1 /\ w[Len(x) + 1] = t.tag /\ \A i \in 1 .. Len(x) : w[i] = x[i]
  BY <1>2, <1>3
<1> HIDE DEF w
<1>6. ASSUME NEW i \in 1 .. Len(y) PROVE y[i] = w[i]
  <2>1. CASE i = Len(s) + 1
    <3>1. i \in 1 .. Len(z) BY <1>1, <1>2, <2>1
    <3>2. y[i] = t.tag BY <1>1, <1>4, <2>1, <3>1
    <3> QED BY <1>3, <1>5, <2>1, <3>2
  <2>2. CASE i # Len(s) + 1
    <3>1. i \in 1 .. Len(s) /\ i \in 1 .. Len(z) /\ i \in 1 .. Len(x) BY <1>1, <1>2, <1>3, <1>4, <2>2
    <3> QED BY <1>1, <1>3, <1>4, <1>5, <3>1
  <2> QED BY <2>1, <2>2
<1>7. y \in Seq(T) /\ w \in Seq(T) /\ Len(y) = Len(w) /\ \A i \in 1 .. Len(y) : y[i] = w[i]
  BY <1>1, <1>3, <1>4, <1>5, <1>6
<1>8. y = w BY ONLY <1>7, SeqEqual
<1> QED BY <1>8 DEF y, w, x, z

LEMMA NamesApart ==
  ASSUME NEW T, NEW a \in Seq(TagsWith(T)), NEW b \in Seq(TagsWith(T))
  PROVE  Names(a \o b) = Names(a) \o Names(b)
<1> DEFINE z == a \o b
           n == Len(a)
           x == Names(a)
           y == Names(b)
           v == Names(z)
           w == x \o y
<1>1. /\ z \in Seq(TagsWith(T)) /\ Len(z) = Len(a) + Len(b) /\ \A i \in 1 .. Len(a) : z[i] = a[i]
      /\ \A i \in Len(a) + 1 .. Len(a) + Len(b) : z[i] = b[i - Len(a)]
  BY Concatenation
<1>2. x \in Seq(T) /\ Len(x) = Len(a) /\ \A i \in 1 .. Len(a) : x[i] = a[i].tag BY NamesOf
<1>3. y \in Seq(T) /\ Len(y) = Len(b) /\ \A i \in 1 .. Len(b) : y[i] = b[i].tag BY NamesOf
<1> HIDE DEF z, x, y
<1>4. v \in Seq(T) /\ Len(v) = Len(z) /\ \A i \in 1 .. Len(z) : v[i] = z[i].tag BY <1>1, NamesOf
<1>5. /\ w \in Seq(T) /\ Len(w) = Len(x) + Len(y) /\ \A i \in 1 .. Len(x) : w[i] = x[i]
      /\ \A i \in Len(x) + 1 .. Len(x) + Len(y) : w[i] = y[i - Len(x)]
  <2>1. x \in Seq(T) /\ y \in Seq(T) BY <1>2, <1>3
  <2> QED BY ONLY <2>1, Concatenation
<1> HIDE DEF v, w
<1>6. Len(a) \in Nat /\ Len(b) \in Nat OBVIOUS
<1>7. ASSUME NEW i \in 1 .. Len(v) PROVE v[i] = w[i]
  <2>1. CASE i <= Len(a)
    <3>1. i \in 1 .. Len(a) /\ i \in 1 .. Len(z) /\ i \in 1 .. Len(x) BY <1>1, <1>2, <1>4, <1>6, <2>1
    <3> QED BY <1>1, <1>2, <1>4, <1>5, <3>1
  <2>2. CASE ~ (i <= Len(a))
    <3> DEFINE k == i - Len(a)
    <3>1. i \in 1 .. Len(z) /\ i \in Len(a) + 1 .. Len(a) + Len(b) /\ k \in 1 .. Len(b)
          /\ i \in Len(x) + 1 .. Len(x) + Len(y) /\ i - Len(x) = k
      BY <1>1, <1>2, <1>3, <1>4, <1>6, <2>2
    <3>2. z[i] = b[k] BY <1>1, <3>1
    <3> HIDE DEF k
    <3>3. w[i] = y[k] BY <1>5, <3>1
    <3> QED BY <1>3, <1>4, <3>1, <3>2, <3>3
  <2> QED BY <2>1, <2>2
<1>8. v \in Seq(T) /\ w \in Seq(T) /\ Len(v) = Len(w) /\ \A i \in 1 .. Len(v) : v[i] = w[i]
  BY <1>1, <1>2, <1>3, <1>4, <1>5, <1>7
<1>9. v = w BY ONLY <1>8, SeqEqual
<1> QED BY <1>9 DEF v, w, x, y, z

\* Tags seen from d items before, on an item of A: the same names.
LEMMA NamesShifted ==
  ASSUME NEW T, NEW s \in Seq(TagsWith(T)), NEW A, NEW x \in A, x \in Int, NEW d \in Int
  PROVE  Names(TagsAt(Shift(Within(s, A), d), x + d)) = Names(TagsAt(s, x))
<1> DEFINE D == {x + d}
           B == {x}
           F(u) == Names(Within(Shift(Within(u, A), d), D))
           G == {u \in Seq(TagsWith(T)) : F(u) = Names(Within(u, B))}
<1>1. <<>> \in G
  <2>1. Shift(<<>>, d) = <<>>
    <3>1. [i \in DOMAIN <<>> |-> MovedTo(<<>>[i], <<>>[i].offset + d)] = <<>> OBVIOUS
    <3> QED BY <3>1 DEF Shift
  <2>2. Within(<<>>, A) = <<>> /\ Within(<<>>, B) = <<>> /\ Within(<<>>, D) = <<>> BY WithinEmpty
  <2>3. F(<<>>) = Names(Within(<<>>, B)) BY <2>1, <2>2, Zenon
  <2>4. <<>> \in Seq(TagsWith(T)) OBVIOUS
  <2> QED BY <2>3, <2>4
<1>2. ASSUME NEW u \in Seq(TagsWith(T)), NEW t \in TagsWith(T), u \in G PROVE Append(u, t) \in G
  <2> DEFINE z == Append(u, t)
             p == Within(u, A)
             q == Shift(p, d)
             m == MovedTo(t, t.offset + d)
             v == Within(u, B)
  <2>0. Names(Within(q, D)) = Names(v) BY <1>2
  <2> HIDE DEF G, F
  <2>1. z \in Seq(TagsWith(T)) OBVIOUS
  <2>2. /\ p \in Seq(TagsWith(T)) /\ (t.offset \in A => Within(z, A) = Append(p, t))
        /\ t.offset \notin A => Within(z, A) = p
    BY WithinAppend
  <2>3. /\ v \in Seq(TagsWith(T)) /\ (t.offset \in B => Within(z, B) = Append(v, t))
        /\ t.offset \notin B => Within(z, B) = v
    <3>1. u \in Seq(TagsWith(T)) /\ t \in TagsWith(T) OBVIOUS
    <3> HIDE DEF B
    <3> QED BY ONLY <3>1, WithinAppend
  <2>4. t.offset \in Int /\ t.offset + d \in Int /\ m \in TagsWith(T) /\ m.offset = t.offset + d /\ m.tag = t.tag
    <3>1. t.offset \in Int BY DEF TagsWith
    <3>2. t.offset + d \in Int BY <3>1
    <3> QED BY <3>1, <3>2, MovedFields
  <2> HIDE DEF p, v, z, m
  <2>5. q \in Seq(TagsWith(T)) BY <2>2, Shifted
  <2>6. Shift(Append(p, t), d) = Append(q, m)
    <3>1. <<t>> \in Seq(TagsWith(T)) /\ Append(p, t) = p \o <<t>>
      <4>1. t \in TagsWith(T) /\ p \in Seq(TagsWith(T)) BY <2>2
      <4> QED BY ONLY <4>1
    <3>2. Shift(p \o <<t>>, d) = q \o Shift(<<t>>, d) BY <2>2, <3>1, ShiftApart
    <3>3. Shift(<<t>>, d) = <<m>>
      <4>1. /\ Shift(<<t>>, d) \in Seq(TagsWith(T)) /\ Len(Shift(<<t>>, d)) = Len(<<t>>)
            /\ \A i \in 1 .. Len(<<t>>) : Shift(<<t>>, d)[i] = MovedTo(<<t>>[i], <<t>>[i].offset + d)
        BY ONLY <3>1, d \in Int, Shifted
      <4>2. Len(<<t>>) = 1 /\ <<t>>[1] = t OBVIOUS
      <4>3. 1 \in 1 .. Len(<<t>>) BY <4>2
      <4>4. Shift(<<t>>, d)[1] = MovedTo(<<t>>[1], <<t>>[1].offset + d) BY ONLY <4>1, <4>3, Zenon
      <4>5. Shift(<<t>>, d)[1] = m BY ONLY <4>2, <4>4, Zenon DEF m
      <4> DEFINE f == Shift(<<t>>, d)
      <4>6. f \in Seq(TagsWith(T)) /\ Len(f) = 1 /\ f[1] = m BY <4>1, <4>2, <4>5
      <4> HIDE DEF f
      <4>7. f = <<m>> BY <4>6
      <4> QED BY <4>7 DEF f
    <3> HIDE DEF q
    <3>4. q \o <<m>> = Append(q, m) BY <2>4, <2>5
    <3> QED BY <3>1, <3>2, <3>3, <3>4, Zenon
  <2> HIDE DEF q
  <2>7. CASE t.offset = x
    <3>1. t.offset \in A /\ t.offset \in B /\ m.offset \in D BY <2>4, <2>7
    <3>2. Within(Append(q, m), D) = Append(Within(q, D), m)
      <4>1. q \in Seq(TagsWith(T)) /\ m \in TagsWith(T) BY <2>4, <2>5
      <4> HIDE DEF D
      <4> QED BY ONLY <3>1, <4>1, WithinAppend
    <3>3. Within(q, D) \in Seq(TagsWith(T)) BY <2>5, WithinType
    <3>4. Names(Append(Within(q, D), m)) = Append(Names(Within(q, D)), m.tag) BY <2>4, <3>3, NamesAppend
    <3>5. Names(Append(v, t)) = Append(Names(v), t.tag) BY <2>3, NamesAppend
    <3>6. F(z) = Names(Within(Shift(Append(p, t), d), D)) BY <2>2, <3>1, Zenon DEF F
    <3> HIDE DEF D, B
    <3>7. F(z) = Names(Within(z, B)) BY <2>0, <2>3, <2>4, <2>6, <3>1, <3>2, <3>4, <3>5, <3>6, Zenon
    <3> QED BY <2>1, <3>7, Zenon DEF z, G
  <2>8. CASE t.offset # x /\ t.offset \in A
    <3>1. t.offset \notin B /\ m.offset \notin D BY <2>4, <2>8
    <3>2. Within(Append(q, m), D) = Within(q, D)
      <4>1. q \in Seq(TagsWith(T)) /\ m \in TagsWith(T) BY <2>4, <2>5
      <4> HIDE DEF D
      <4> QED BY ONLY <3>1, <4>1, WithinAppend
    <3>6. F(z) = Names(Within(Shift(Append(p, t), d), D)) BY <2>2, <2>8, Zenon DEF F
    <3> HIDE DEF D, B
    <3>7. F(z) = Names(Within(z, B)) BY <2>0, <2>3, <2>6, <3>1, <3>2, <3>6, Zenon
    <3> QED BY <2>1, <3>7, Zenon DEF z, G
  <2>9. CASE t.offset \notin A
    <3>1. t.offset \notin B BY <2>9
    <3>6. F(z) = Names(Within(Shift(p, d), D)) BY <2>2, <2>9, Zenon DEF F
    <3> HIDE DEF D, B
    <3>7. F(z) = Names(Within(z, B)) BY <2>0, <2>3, <3>1, <3>6, Zenon DEF q
    <3> QED BY <2>1, <3>7, Zenon DEF z, G
  <2> QED BY <2>7, <2>8, <2>9
<1>3. Seq(TagsWith(T)) \subseteq G
  <2> HIDE DEF G
  <2> QED BY <1>1, <1>2, AppendInduction
<1>4. F(s) = Names(Within(s, B)) BY <1>3
<1> QED BY <1>4 DEF TagsAt

\* Of a row in which those at x are together, these.
LEMMA TagsBetween ==
  ASSUME NEW T, NEW s \in Seq(TagsWith(T)), NEW f \in 0 .. Len(s), NEW t \in f .. Len(s), NEW x,
         \A i \in 1 .. f : s[i].offset # x, \A i \in f + 1 .. t : s[i].offset = x,
         \A i \in t + 1 .. Len(s) : s[i].offset # x
  PROVE  TagsAt(s, x) = SubSeq(s, f + 1, t)
<1> DEFINE u == SubSeq(s, 1, t)
           c == SubSeq(s, t + 1, Len(s))
           a == SubSeq(u, 1, f)
           b == SubSeq(u, f + 1, Len(u))
           D == {x}
<1>0. Len(s) \in Nat /\ t \in 0 .. Len(s) OBVIOUS
<1>1. /\ u \in Seq(TagsWith(T)) /\ Len(u) = t /\ c \in Seq(TagsWith(T)) /\ Len(c) = Len(s) - t /\ u \o c = s
  BY <1>0, Cut
<1>2. \A i \in 1 .. t : u[i] = s[i] BY <1>0
<1>3. \A i \in 1 .. Len(c) : c[i] = s[t + i] BY <1>0
<1>12. b = SubSeq(s, f + 1, t)
  <2> DEFINE v == SubSeq(s, f + 1, t)
  <2>1. b \in Seq(TagsWith(T)) /\ v \in Seq(TagsWith(T)) /\ Len(b) = Len(v) /\ \A i \in 1 .. Len(b) : b[i] = v[i]
    <3>1. v \in Seq(TagsWith(T)) /\ Len(v) = t - f /\ \A i \in 1 .. t - f : v[i] = s[f + i] BY <1>0
    <3> HIDE DEF u, v
    <3>2. b \in Seq(TagsWith(T)) /\ Len(b) = t - f /\ \A i \in 1 .. t - f : b[i] = u[f + i] BY <1>0, <1>1
    <3> HIDE DEF b
    <3>3. ASSUME NEW i \in 1 .. t - f PROVE b[i] = v[i]
      <4>1. f + i \in 1 .. t BY <1>0
      <4> QED BY <1>2, <3>1, <3>2, <4>1
    <3> QED BY <3>1, <3>2, <3>3
  <2> HIDE DEF b, v
  <2>2. b = v BY ONLY <2>1, SeqEqual
  <2> QED BY <2>2 DEF v
<1> HIDE DEF u, c
<1>4. f \in 0 .. Len(u) BY <1>0, <1>1
<1>5. a \in Seq(TagsWith(T)) /\ Len(a) = f /\ b \in Seq(TagsWith(T)) /\ Len(b) = Len(u) - f /\ a \o b = u
  <2>1. u \in Seq(TagsWith(T)) BY <1>1
  <2> QED BY ONLY <2>1, <1>4, Cut
<1>6. \A i \in 1 .. f : a[i] = u[i] BY <1>1, <1>4
<1>7. \A i \in 1 .. Len(b) : b[i] = u[f + i] BY <1>1, <1>4
<1> HIDE DEF a, b
<1>8. Within(a, D) = <<>>
  <2>1. ASSUME NEW i \in 1 .. Len(a) PROVE a[i].offset \notin D
    <3>1. i \in 1 .. f /\ i \in 1 .. t BY <1>0, <1>5
    <3> QED BY <1>2, <1>6, <3>1
  <2> HIDE DEF D
  <2> QED BY <1>5, <2>1, WithinType
<1>9. Within(b, D) = b
  <2>1. ASSUME NEW i \in 1 .. Len(b) PROVE b[i].offset \in D
    <3>1. f + i \in f + 1 .. t /\ f + i \in 1 .. t BY <1>0, <1>1, <1>5
    <3> QED BY <1>2, <1>7, <3>1
  <2> HIDE DEF D
  <2> QED BY <1>5, <2>1, WithinType
<1>10. Within(c, D) = <<>>
  <2>1. ASSUME NEW i \in 1 .. Len(c) PROVE c[i].offset \notin D
    <3>1. t + i \in t + 1 .. Len(s) BY <1>0, <1>1
    <3> QED BY <1>3, <3>1
  <2> HIDE DEF D
  <2> QED BY <1>1, <2>1, WithinType
<1> HIDE DEF D
<1>11. Within(s, D) = b
  <2>1. Within(u \o c, D) = Within(u, D) \o Within(c, D)
    <3>1. u \in Seq(TagsWith(T)) /\ c \in Seq(TagsWith(T)) BY <1>1
    <3> QED BY ONLY <3>1, WithinApart
  <2>2. Within(a \o b, D) = Within(a, D) \o Within(b, D)
    <3>1. a \in Seq(TagsWith(T)) /\ b \in Seq(TagsWith(T)) BY <1>5
    <3> QED BY ONLY <3>1, WithinApart
  <2>3. Within(u, D) = <<>> \o b BY <1>5, <1>8, <1>9, <2>2, Zenon
  <2>4. <<>> \o b = b /\ b \o <<>> = b BY <1>5, ConcatEmptySeq
  <2> QED BY <1>1, <1>10, <2>1, <2>3, <2>4, Zenon
<1> QED BY <1>11, <1>12, Zenon DEF TagsAt, D
=============================================================================
