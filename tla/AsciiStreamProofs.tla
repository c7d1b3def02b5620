-------------------------- MODULE AsciiStreamProofs --------------------------
(***************************************************************************)
(* A text of any length survives both cuts of a transfer, whatever the     *)
(* size of a chunk and wherever a read fails.                              *)
(***************************************************************************)
EXTENDS AsciiStream, SequenceTheorems, WellFoundedInduction, TLAPS

-----------------------------------------------------------------------------
(* Induction and recursion.  The provers cannot instantiate a theorem with an *)
(* operator for its parameter, so both are stated about sets and functions.   *)

Below == {w \in Nat \X Nat : w[1] < w[2]}

\* A set that has 0 and with every number the next has them all.
LEMMA SetInduction ==
  ASSUME NEW S, 0 \in S, \A n \in Nat : n \in S => n + 1 \in S
  PROVE  Nat \subseteq S
<1>1. SUFFICES ASSUME Nat \ S # {} PROVE FALSE
  OBVIOUS
<1>2. IsWellFoundedOn(Below, Nat)
  BY NatLessThanWellFounded DEF OpToRel, Below
<1>3. \E x \in Nat \ S : \A y \in Nat \ S : ~(<<y, x>> \in Below)
  BY <1>1, <1>2, WFMin
<1>4. PICK x \in Nat \ S : \A y \in Nat \ S : ~(<<y, x>> \in Below)
  BY <1>3
<1>5. x # 0 /\ x - 1 \in Nat
  OBVIOUS
<1>6. <<x - 1, x>> \in Below
  BY <1>5 DEF Below
<1>7. x - 1 \in S
  BY <1>4, <1>5, <1>6
<1>8. (x - 1) + 1 = x
  OBVIOUS
<1>. QED
  BY <1>5, <1>7, <1>8

\* Up to a bound.
LEMMA BoundedInduction ==
  ASSUME NEW m \in Nat, NEW S, 0 \in S,
         \A k \in Nat : k < m /\ k \in S => k + 1 \in S
  PROVE  0 .. m \subseteq S
<1>. DEFINE R == {k \in Nat : k <= m => k \in S}
<1>1. 0 \in R
  OBVIOUS
<1>2. ASSUME NEW k \in Nat, k \in R PROVE k + 1 \in R
  <2>1. CASE k + 1 <= m
    <3>1. k < m /\ k <= m
      BY <2>1
    <3>. QED
      BY <1>2, <3>1
  <2>2. CASE ~(k + 1 <= m)
    BY <2>2
  <2>. QED
    BY <2>1, <2>2
<1>. HIDE DEF R
<1>3. Nat \subseteq R
  BY <1>1, <1>2, SetInduction
<1>4. ASSUME NEW k \in 0 .. m PROVE k \in S
  <2>1. k \in R /\ k <= m
    BY <1>3
  <2>. QED
    BY <2>1 DEF R
<1>. QED
  BY <1>4

\* What is reached from base in m steps of next.
Iterates(h, m, base, next) ==
  h[0] = base /\ \A k \in 1 .. m : h[k] = next[k][h[k - 1]]

LEMMA Iterated ==
  ASSUME NEW m \in Nat, NEW X, NEW base \in X, NEW next \in [1 .. m -> [X -> X]]
  PROVE  \E h \in [0 .. m -> X] : Iterates(h, m, base, next)
<1>. DEFINE Up(n, h) == Iterates(h, n, base, next)
            S == {n \in 0 .. m : \E h \in [0 .. n -> X] : Up(n, h)}
<1>1. 0 \in S
  <2>. DEFINE h == [k \in 0 .. 0 |-> base]
  <2>0. 0 \in 0 .. 0 /\ 1 .. 0 = {}
    OBVIOUS
  <2>1. h \in [0 .. 0 -> X] /\ h[0] = base
    BY <2>0
  <2>2. Up(0, h)
    BY <2>0, <2>1 DEF Iterates
  <2>. HIDE DEF h
  <2>3. 0 \in 0 .. m
    OBVIOUS
  <2>. QED
    BY <2>1, <2>2, <2>3
<1>2. ASSUME NEW n \in Nat, n < m, n \in S PROVE n + 1 \in S
  <2>1. PICK h \in [0 .. n -> X] : Up(n, h)
    BY <1>2
  <2>. DEFINE g == [k \in 0 .. n + 1 |-> IF k = n + 1 THEN next[n + 1][h[n]] ELSE h[k]]
  <2>2. n + 1 \in 1 .. m /\ h[n] \in X
    BY <1>2
  <2>3. next[n + 1] \in [X -> X]
    BY <2>2
  <2>4. next[n + 1][h[n]] \in X
    BY <2>2, <2>3
  <2>5. /\ g \in [0 .. n + 1 -> X]
        /\ \A k \in 0 .. n : g[k] = h[k]
        /\ g[n + 1] = next[n + 1][h[n]]
    BY <2>4
  <2>. HIDE DEF g
  <2>6. ASSUME NEW k \in 1 .. n + 1 PROVE g[k] = next[k][g[k - 1]]
    <3>1. CASE k = n + 1
      <4>1. k - 1 = n /\ n \in 0 .. n
        BY <3>1
      <4>. QED
        BY <2>5, <3>1, <4>1
    <3>2. CASE k # n + 1
      <4>1. k \in 1 .. n /\ k \in 0 .. n /\ k - 1 \in 0 .. n
        BY <3>2
      <4>. QED
        BY <2>1, <2>5, <4>1 DEF Iterates
    <3>. QED
      BY <3>1, <3>2
  <2>7. g[0] = base
    BY <2>1, <2>5 DEF Iterates
  <2>8. Up(n + 1, g)
    BY <2>6, <2>7 DEF Iterates
  <2>9. n + 1 \in 0 .. m
    BY <2>2
  <2>. QED
    BY <2>5, <2>8, <2>9
<1>. HIDE DEF S
<1>3. m \in S
  <2>1. 0 .. m \subseteq S
    BY <1>1, <1>2, BoundedInduction
  <2>. QED
    BY <2>1
<1>. QED
  BY <1>3 DEF S

-----------------------------------------------------------------------------
(* FlattenSeq *)

\* The sequences that FlattenSeq goes through.
Partial(ss, h) ==
  h[0] = <<>> /\ \A k \in 1 .. Len(ss) : h[k] = h[k - 1] \o ss[k]

LEMMA PartialExists ==
  ASSUME NEW S, NEW ss \in Seq(Seq(S))
  PROVE  \E h \in [0 .. Len(ss) -> Seq(S)] : Partial(ss, h)
<1>. DEFINE m == Len(ss)
            next == [k \in 1 .. m |-> [x \in Seq(S) |-> x \o ss[k]]]
<1>1. m \in Nat /\ <<>> \in Seq(S) /\ \A k \in 1 .. m : ss[k] \in Seq(S)
  BY ElementOfSeq, EmptySeq
<1>2. ASSUME NEW k \in 1 .. m, NEW x \in Seq(S)
      PROVE  next[k][x] = x \o ss[k] /\ x \o ss[k] \in Seq(S)
  BY <1>1, ConcatProperties
<1>3. next \in [1 .. m -> [Seq(S) -> Seq(S)]]
  BY <1>1, ConcatProperties
<1>. HIDE DEF next, m
<1>. DEFINE X == Seq(S)
            e == <<>>
<1>4. m \in Nat /\ e \in X /\ next \in [1 .. m -> [X -> X]]
  BY <1>1, <1>3
<1>. HIDE DEF X, e
<1>5. \E h \in [0 .. m -> X] : Iterates(h, m, e, next)
  BY <1>4, Iterated
<1>6. PICK h \in [0 .. m -> Seq(S)] :
        h[0] = <<>> /\ \A k \in 1 .. m : h[k] = next[k][h[k - 1]]
  BY <1>5 DEF X, e, Iterates
<1>7. ASSUME NEW k \in 1 .. m PROVE h[k] = h[k - 1] \o ss[k]
  <2>1. k - 1 \in 0 .. m
    BY <1>1
  <2>. QED
    BY <1>2, <1>6, <2>1
<1>8. Partial(ss, h)
  BY <1>6, <1>7 DEF Partial, m
<1>. QED
  BY <1>8 DEF m

\* They determine its result.
LEMMA FlattenIs ==
  ASSUME NEW S, NEW ss \in Seq(Seq(S)), NEW h \in [0 .. Len(ss) -> Seq(S)],
         Partial(ss, h)
  PROVE  FlattenSeq(ss) = h[Len(ss)]
<1>. DEFINE m == Len(ss)
            fl == CHOOSE f : f = [i \in 1 .. m |-> IF i = 1 THEN ss[i] ELSE f[i - 1] \o ss[i]]
<1>0. m \in Nat /\ \A k \in 1 .. m : ss[k] \in Seq(S)
  BY ElementOfSeq
<1>1. CASE m = 0
  <2>1. ss = <<>>
    BY <1>1, EmptySeq
  <2>2. FlattenSeq(ss) = ss
    BY <1>1 DEF FlattenSeq
  <2>. QED
    BY <1>1, <2>1, <2>2 DEF Partial
<1>2. CASE m # 0
  <2>1. FlattenSeq(ss) = fl[m]
    BY <1>2 DEF FlattenSeq
  <2>. DEFINE f0 == [i \in 1 .. m |-> h[i]]
  <2>2. f0 = [i \in 1 .. m |-> IF i = 1 THEN ss[i] ELSE f0[i - 1] \o ss[i]]
    <3>1. ASSUME NEW i \in 1 .. m
          PROVE  h[i] = IF i = 1 THEN ss[i] ELSE f0[i - 1] \o ss[i]
      <4>1. CASE i = 1
        <5>0. 1 \in 1 .. m /\ 1 - 1 = 0
          BY <4>1
        <5>1. h[1] = <<>> \o ss[1] /\ ss[1] \in Seq(S)
          BY <1>0, <5>0 DEF Partial
        <5>. QED
          BY <4>1, <5>1, ConcatEmptySeq
      <4>2. CASE i # 1
        <5>1. i - 1 \in 1 .. m
          BY <1>0, <4>2
        <5>. QED
          BY <4>2, <5>1 DEF Partial
      <4>. QED
        BY <4>1, <4>2
    <3>. QED
      BY <3>1
  <2>. HIDE DEF f0
  <2>3. fl = [i \in 1 .. m |-> IF i = 1 THEN ss[i] ELSE fl[i - 1] \o ss[i]]
    BY <2>2
  <2>. HIDE DEF fl
  <2>. DEFINE R == {k \in 0 .. m : k > 0 => fl[k] = h[k]}
  <2>4. 0 \in R
    BY <1>0
  <2>5. ASSUME NEW k \in Nat, k < m, k \in R PROVE k + 1 \in R
    <3>1. k + 1 \in 1 .. m /\ k + 1 \in 0 .. m /\ (k + 1) - 1 = k
      BY <1>0, <2>5
    <3>2. h[k + 1] = h[k] \o ss[k + 1]
      BY <3>1 DEF Partial
    <3>3. CASE k = 0
      <4>1. fl[k + 1] = ss[k + 1]
        BY <2>3, <3>1, <3>3
      <4>2. h[k] = <<>> /\ ss[k + 1] \in Seq(S)
        BY <1>0, <3>1, <3>3, Zenon DEF Partial
      <4>3. h[k + 1] = ss[k + 1]
        BY <3>2, <4>2, ConcatEmptySeq
      <4>. QED
        BY <3>1, <4>1, <4>3
    <3>4. CASE k # 0
      <4>0. k + 1 # 1
        BY <3>4
      <4>1. fl[k + 1] = fl[(k + 1) - 1] \o ss[k + 1]
        BY <2>3, <3>1, <4>0, Zenon
      <4>2. fl[k] = h[k]
        BY <2>5, <3>4
      <4>. QED
        BY <3>1, <3>2, <4>1, <4>2, Zenon
    <3>. QED
      BY <3>3, <3>4
  <2>. HIDE DEF R
  <2>6. m \in R
    <3>1. 0 .. m \subseteq R
      BY <1>0, <2>4, <2>5, BoundedInduction
    <3>. QED
      BY <1>0, <3>1
  <2>7. fl[m] = h[m]
    BY <1>0, <1>2, <2>6 DEF R
  <2>. QED
    BY <2>1, <2>7
<1>. QED
  BY <1>1, <1>2

LEMMA FlattenType ==
  ASSUME NEW S, NEW ss \in Seq(Seq(S))
  PROVE  FlattenSeq(ss) \in Seq(S)
<1>1. PICK h \in [0 .. Len(ss) -> Seq(S)] : Partial(ss, h)
  BY PartialExists
<1>2. FlattenSeq(ss) = h[Len(ss)]
  BY <1>1, FlattenIs
<1>3. Len(ss) \in 0 .. Len(ss)
  BY LenProperties
<1>. QED
  BY <1>2, <1>3

LEMMA FlattenEmpty == FlattenSeq(<<>>) = <<>>
  BY DEF FlattenSeq

LEMMA FlattenOne ==
  ASSUME NEW S, NEW x \in Seq(S)
  PROVE  FlattenSeq(<<x>>) = x
<1>. DEFINE ss == <<x>>
            h == [k \in 0 .. 1 |-> IF k = 0 THEN <<>> ELSE x]
<1>1. ss \in Seq(Seq(S)) /\ Len(ss) = 1 /\ ss[1] = x
  OBVIOUS
<1>2. h \in [0 .. 1 -> Seq(S)] /\ h[0] = <<>> /\ h[1] = x
  BY EmptySeq
<1>. HIDE DEF ss, h
<1>3. x = <<>> \o x
  BY ConcatEmptySeq
<1>4. \A k \in 1 .. 1 : k = 1 /\ k - 1 = 0
  OBVIOUS
<1>5. Partial(ss, h)
  BY <1>1, <1>2, <1>3, <1>4 DEF Partial
<1>6. FlattenSeq(ss) = x
  BY <1>1, <1>2, <1>5, FlattenIs
<1>. QED
  BY <1>6 DEF ss

\* Concatenation is associative.  Each part has a name, and so have premise and
\* conclusion: the provers seldom find the instance when the terms are nested.
Split(S, x, y, z, xy, yz) ==
  {x, y, z, xy, yz} \subseteq Seq(S) /\ xy = x \o y /\ yz = y \o z

Same(xy, z, x, yz) == xy \o z = x \o yz

LEMMA Joined ==
  ASSUME NEW S, NEW x, NEW y, NEW z, NEW xy, NEW yz, Split(S, x, y, z, xy, yz)
  PROVE  Same(xy, z, x, yz)
<1>0. /\ x \in Seq(S) /\ y \in Seq(S) /\ z \in Seq(S) /\ xy \in Seq(S) /\ yz \in Seq(S)
      /\ xy = x \o y /\ yz = y \o z
  BY DEF Split
<1>1. /\ Len(x) \in Nat /\ Len(y) \in Nat /\ Len(z) \in Nat
      /\ Len(xy) = Len(x) + Len(y) /\ Len(yz) = Len(y) + Len(z)
  BY <1>0, ConcatProperties, LenProperties
<1>2. xy \o z \in Seq(S) /\ x \o yz \in Seq(S)
      /\ Len(xy \o z) = Len(xy) + Len(z) /\ Len(x \o yz) = Len(x) + Len(yz)
  BY <1>0, ConcatProperties
<1>3. ASSUME NEW i \in 1 .. Len(x) + Len(y) + Len(z) PROVE (xy \o z)[i] = (x \o yz)[i]
  <2>1. (xy \o z)[i] = IF i <= Len(xy) THEN xy[i] ELSE z[i - Len(xy)]
    BY <1>0, <1>1, ConcatProperties
  <2>2. (x \o yz)[i] = IF i <= Len(x) THEN x[i] ELSE yz[i - Len(x)]
    BY <1>0, <1>1, ConcatProperties
  <2>3. CASE i <= Len(x)
    <3>1. xy[i] = x[i]
      BY <1>0, <1>1, <2>3, ConcatProperties
    <3>. QED
      BY <1>0, <1>1, <2>1, <2>2, <2>3, <3>1
  <2>4. CASE i > Len(x) /\ i <= Len(x) + Len(y)
    <3>1. xy[i] = y[i - Len(x)] /\ yz[i - Len(x)] = y[i - Len(x)]
      BY <1>0, <1>1, <2>4, ConcatProperties
    <3>. QED
      BY <1>0, <1>1, <2>1, <2>2, <2>4, <3>1
  <2>5. CASE i > Len(x) + Len(y)
    <3>1. yz[i - Len(x)] = z[(i - Len(x)) - Len(y)] /\ (i - Len(x)) - Len(y) = i - Len(xy)
      BY <1>0, <1>1, <2>5, ConcatProperties
    <3>. QED
      BY <1>0, <1>1, <2>1, <2>2, <2>5, <3>1
  <2>. QED
    BY <1>0, <1>1, <2>3, <2>4, <2>5
<1>. QED
  BY <1>0, <1>1, <1>2, <1>3, SeqEqual DEF Same

LEMMA FlattenConcat ==
  ASSUME NEW S, NEW a \in Seq(Seq(S)), NEW b \in Seq(Seq(S))
  PROVE  FlattenSeq(a \o b) = FlattenSeq(a) \o FlattenSeq(b)
<1>. DEFINE n == Len(a)
            m == Len(b)
            c == a \o b
<1>1. PICK ha \in [0 .. n -> Seq(S)] : Partial(a, ha)
  BY PartialExists
<1>2. PICK hb \in [0 .. m -> Seq(S)] : Partial(b, hb)
  BY PartialExists
<1>3. FlattenSeq(a) = ha[n] /\ FlattenSeq(b) = hb[m]
  BY <1>1, <1>2, FlattenIs
<1>4. /\ n \in Nat /\ m \in Nat /\ c \in Seq(Seq(S)) /\ Len(c) = n + m
      /\ \A k \in 1 .. n + m : c[k] = IF k <= n THEN a[k] ELSE b[k - n]
      /\ \A k \in 1 .. m : b[k] \in Seq(S)
  BY ConcatProperties, ElementOfSeq
<1>5. /\ ha[0] = <<>> /\ \A k \in 1 .. n : ha[k] = ha[k - 1] \o a[k]
      /\ hb[0] = <<>> /\ \A k \in 1 .. m : hb[k] = hb[k - 1] \o b[k]
  BY <1>1, <1>2 DEF Partial
<1>. HIDE DEF n, m, c
<1>. DEFINE h == [k \in 0 .. n + m |-> IF k <= n THEN ha[k] ELSE ha[n] \o hb[k - n]]
<1>6. ha[n] \in Seq(S) /\ \A k \in 0 .. m : hb[k] \in Seq(S) /\ ha[n] \o hb[k] \in Seq(S)
  BY <1>4, ConcatProperties
<1>7. h \in [0 .. n + m -> Seq(S)]
  <2>1. ASSUME NEW k \in 0 .. n + m
        PROVE  (IF k <= n THEN ha[k] ELSE ha[n] \o hb[k - n]) \in Seq(S)
    <3>1. CASE k <= n
      BY <1>4, <3>1
    <3>2. CASE ~(k <= n)
      <4>1. k - n \in 0 .. m
        BY <1>4, <3>2
      <4>. QED
        BY <1>6, <3>2, <4>1
    <3>. QED
      BY <3>1, <3>2
  <2>. QED
    BY <2>1
<1>8. \A k \in 0 .. n : h[k] = ha[k]
  BY <1>4
<1>9. ASSUME NEW k \in 0 .. m PROVE h[n + k] = ha[n] \o hb[k]
  <2>1. CASE k = 0
    <3>1. n + k = n /\ n \in 0 .. n
      BY <1>4, <2>1
    <3>2. h[n] = ha[n]
      BY <1>8, <3>1
    <3>3. ha[n] \o hb[k] = ha[n]
      BY <1>5, <1>6, <2>1, ConcatEmptySeq
    <3>. QED
      BY <3>1, <3>2, <3>3
  <2>2. CASE k # 0
    <3>1. n + k \in 0 .. n + m /\ ~(n + k <= n) /\ (n + k) - n = k
      BY <1>4, <2>2
    <3>. QED
      BY <3>1
  <2>. QED
    BY <2>1, <2>2
<1>. HIDE DEF h
<1>10. ASSUME NEW k \in 1 .. n + m PROVE h[k] = h[k - 1] \o c[k]
  <2>1. CASE k <= n
    <3>1. k \in 1 .. n /\ k \in 0 .. n /\ k - 1 \in 0 .. n
      BY <1>4, <2>1
    <3>2. c[k] = a[k]
      BY <1>4, <2>1
    <3>. QED
      BY <1>5, <1>8, <3>1, <3>2
  <2>2. CASE ~(k <= n)
    <3>. DEFINE j == k - n
    <3>1. /\ j \in 1 .. m /\ j \in 0 .. m /\ j - 1 \in 0 .. m
          /\ n + j = k /\ n + (j - 1) = k - 1
      BY <1>4, <2>2
    <3>2. c[k] = b[j] /\ b[j] \in Seq(S)
      BY <1>4, <2>2, <3>1
    <3>. HIDE DEF j
    <3>3. h[k] = ha[n] \o hb[j] /\ h[k - 1] = ha[n] \o hb[j - 1]
      BY <1>9, <3>1
    <3>4. hb[j] = hb[j - 1] \o b[j]
      BY <1>5, <3>1
    <3>5. ha[n] \in Seq(S) /\ hb[j - 1] \in Seq(S) /\ b[j] \in Seq(S)
      BY <1>6, <3>1, <3>2
    <3>6. h[k - 1] \o b[j] = ha[n] \o hb[j]
      <4>1. PICK x \in Seq(S), y \in Seq(S), z \in Seq(S) :
              x = ha[n] /\ y = hb[j - 1] /\ z = b[j]
        BY <3>5
      <4>2. (x \o y) \o z = x \o (y \o z)
        <5>1. PICK xy \in Seq(S), yz \in Seq(S) : xy = x \o y /\ yz = y \o z
          BY ConcatProperties
        <5>2. Split(S, x, y, z, xy, yz)
          BY <5>1 DEF Split
        <5>3. Same(xy, z, x, yz)
          BY <5>2, Joined, Zenon
        <5>. QED
          BY <5>1, <5>3 DEF Same
      <4>. QED
        BY <3>3, <3>4, <4>1, <4>2
    <3>. QED
      BY <3>2, <3>3, <3>6
  <2>. QED
    BY <2>1, <2>2
<1>11. h[0] = <<>>
  <2>1. 0 \in 0 .. n
    BY <1>4
  <2>. QED
    BY <1>5, <1>8, <2>1, Zenon
<1>12. Partial(c, h)
  BY <1>4, <1>10, <1>11 DEF Partial
<1>13. FlattenSeq(c) = h[n + m]
  BY <1>4, <1>7, <1>12, FlattenIs
<1>14. h[n + m] = ha[n] \o hb[m]
  BY <1>4, <1>9
<1>. QED
  BY <1>3, <1>13, <1>14 DEF c

-----------------------------------------------------------------------------
(* normalizeToCRLF *)

\* What is put out for byte k of s, when carry tells of the byte before s.
PutOut(s, carry, k) ==
  IF s[k] = "LF" /\ ~(IF k = 1 THEN carry ELSE s[k - 1] = "CR")
  THEN <<"CR", "LF">> ELSE <<s[k]>>

Carried(s, carry, k) == IF k = 0 THEN carry ELSE s[k] = "CR"

\* The states of its loop determine the result.
LEMMA NormalizeIs ==
  ASSUME NEW s \in Seq(Bytes), NEW carry \in BOOLEAN,
         NEW h, h = [k \in 0 .. Len(s) |-> h[k]],
         h[0] = [out |-> <<>>, cr |-> carry],
         \A k \in 1 .. Len(s) : h[k] = AddByte(h[k - 1], s[k])
  PROVE  NormalizeToCRLF(s, carry) = h[Len(s)]
<1>. DEFINE m == Len(s)
            first == [out |-> <<>>, cr |-> carry]
            fl == CHOOSE f : f = [k \in 0 .. m |-> IF k = 0 THEN first
                                                   ELSE AddByte(f[k - 1], s[k])]
<1>0. m \in Nat
  BY LenProperties
<1>1. NormalizeToCRLF(s, carry) = fl[m]
  BY DEF NormalizeToCRLF, Normalizing
<1>. HIDE DEF first
<1>2. h = [k \in 0 .. m |-> IF k = 0 THEN first ELSE AddByte(h[k - 1], s[k])]
  <2>1. ASSUME NEW k \in 0 .. m
        PROVE  h[k] = IF k = 0 THEN first ELSE AddByte(h[k - 1], s[k])
    <3>1. k = 0 \/ k \in 1 .. m
      BY <1>0
    <3>. QED
      BY <3>1 DEF first
  <2>. QED
    BY <2>1, Zenon
<1>3. fl = [k \in 0 .. m |-> IF k = 0 THEN first ELSE AddByte(fl[k - 1], s[k])]
  BY <1>2
<1>. HIDE DEF fl
<1>. DEFINE R == {k \in 0 .. m : fl[k] = h[k]}
<1>4. 0 \in R
  <2>1. 0 \in 0 .. m
    BY <1>0
  <2>. QED
    BY <1>2, <1>3, <2>1, Zenon
<1>5. ASSUME NEW k \in Nat, k < m, k \in R PROVE k + 1 \in R
  <2>1. k + 1 \in 0 .. m /\ (k + 1) - 1 = k /\ k + 1 # 0
    BY <1>0, <1>5
  <2>2. fl[k + 1] = AddByte(fl[(k + 1) - 1], s[k + 1])
    BY <1>3, <2>1, Zenon
  <2>3. h[k + 1] = AddByte(h[(k + 1) - 1], s[k + 1])
    BY <1>2, <2>1, Zenon
  <2>4. fl[k] = h[k]
    BY <1>5
  <2>. QED
    BY <2>1, <2>2, <2>3, <2>4, Zenon
<1>. HIDE DEF R
<1>6. m \in R
  <2>1. 0 .. m \subseteq R
    BY <1>0, <1>4, <1>5, BoundedInduction
  <2>. QED
    BY <1>0, <2>1
<1>7. fl[m] = h[m]
  BY <1>6 DEF R
<1>. QED
  BY <1>1, <1>7

\* The same, with prevWasCR read off the byte before.
LEMMA NormalizeOut ==
  ASSUME NEW s \in Seq(Bytes), NEW carry \in BOOLEAN,
         NEW o, o[0] = <<>>,
         \A k \in 1 .. Len(s) : o[k] = o[k - 1] \o PutOut(s, carry, k)
  PROVE  /\ NormalizeToCRLF(s, carry).out = o[Len(s)]
         /\ NormalizeToCRLF(s, carry).cr = Carried(s, carry, Len(s))
<1>. DEFINE m == Len(s)
            h == [k \in 0 .. m |-> [out |-> o[k], cr |-> Carried(s, carry, k)]]
<1>0. m \in Nat
  BY LenProperties
<1>1. \A k \in 0 .. m : h[k] = [out |-> o[k], cr |-> Carried(s, carry, k)]
  OBVIOUS
<1>2. h = [k \in 0 .. m |-> h[k]]
  OBVIOUS
<1>. HIDE DEF h
<1>3. h[0] = [out |-> <<>>, cr |-> carry]
  <2>1. 0 \in 0 .. m
    BY <1>0
  <2>2. Carried(s, carry, 0) = carry
    BY DEF Carried
  <2>. QED
    BY <1>1, <2>1, <2>2, Zenon
<1>4. ASSUME NEW k \in 1 .. m PROVE h[k] = AddByte(h[k - 1], s[k])
  <2>1. k \in 0 .. m /\ k - 1 \in 0 .. m /\ k # 0 /\ (k - 1 = 0 <=> k = 1)
    BY <1>0
  <2>2. h[k - 1].out = o[k - 1] /\ h[k - 1].cr = Carried(s, carry, k - 1)
    <3>1. h[k - 1] = [out |-> o[k - 1], cr |-> Carried(s, carry, k - 1)]
      BY <1>1, <2>1
    <3>. QED
      BY <3>1
  <2>3. PutOut(s, carry, k) = IF s[k] = "LF" /\ ~Carried(s, carry, k - 1)
                              THEN <<"CR", "LF">> ELSE <<s[k]>>
    <3>1. Carried(s, carry, k - 1) <=> (IF k = 1 THEN carry ELSE s[k - 1] = "CR")
      BY <2>1, Zenon DEF Carried
    <3>. QED
      BY <3>1, Zenon DEF PutOut
  <2>4. h[k] = [out |-> o[k - 1] \o PutOut(s, carry, k), cr |-> s[k] = "CR"]
    <3>1. Carried(s, carry, k) = (s[k] = "CR")
      BY <2>1, Zenon DEF Carried
    <3>. QED
      BY <1>1, <2>1, <3>1, Zenon
  <2>5. AddByte(h[k - 1], s[k]) =
          [out |-> h[k - 1].out \o IF s[k] = "LF" /\ ~h[k - 1].cr
                                   THEN <<"CR", "LF">> ELSE <<s[k]>>,
           cr |-> s[k] = "CR"]
    BY DEF AddByte
  <2>. QED
    BY <2>2, <2>3, <2>4, <2>5, Zenon
<1>5. NormalizeToCRLF(s, carry) = h[m]
  BY <1>2, <1>3, <1>4, NormalizeIs
<1>6. NormalizeToCRLF(s, carry) = [out |-> o[m], cr |-> Carried(s, carry, m)]
  <2>1. m \in 0 .. m
    BY <1>0
  <2>. QED
    BY <1>1, <1>5, <2>1
<1>. QED
  BY <1>6

-----------------------------------------------------------------------------
(* The text that a file is translated to *)

\* The renderings of m bytes of f, after the first r.
Renderings(f, r, m) == [i \in 1 .. m |-> Rendered(f, r + i)]

Text(f, m) == FlattenSeq(Renderings(f, 0, m))

LEMMA RenderedFacts ==
  ASSUME NEW f \in Seq(Bytes), NEW i \in 1 .. Len(f)
  PROVE  Rendered(f, i) \in Seq(Bytes)
<1>1. f[i] \in Bytes
  BY ElementOfSeq
<1>2. <<"CR", "LF">> \in Seq(Bytes) /\ <<f[i]>> \in Seq(Bytes)
  BY <1>1 DEF Bytes
<1>. QED
  BY <1>2 DEF Rendered

LEMMA RenderingsFacts ==
  ASSUME NEW f \in Seq(Bytes), NEW r \in Nat, NEW m \in Nat, r + m <= Len(f)
  PROVE  /\ Renderings(f, r, m) \in Seq(Seq(Bytes)) /\ Len(Renderings(f, r, m)) = m
         /\ \A i \in 1 .. m : Renderings(f, r, m)[i] = Rendered(f, r + i)
<1>0. Len(f) \in Nat
  BY LenProperties
<1>1. ASSUME NEW i \in 1 .. m PROVE Rendered(f, r + i) \in Seq(Bytes)
  <2>1. r + i \in 1 .. Len(f)
    BY <1>0
  <2>. QED
    BY <2>1, RenderedFacts
<1>2. Renderings(f, r, m) \in [1 .. m -> Seq(Bytes)]
  BY <1>1 DEF Renderings
<1>3. \A i \in 1 .. m : Renderings(f, r, m)[i] = Rendered(f, r + i)
  BY DEF Renderings
<1>. QED
  BY <1>2, <1>3

LEMMA RenderingsSplit ==
  ASSUME NEW f \in Seq(Bytes), NEW r \in Nat, NEW m \in Nat, NEW n \in Nat,
         r + m + n <= Len(f)
  PROVE  Renderings(f, r, m + n) = Renderings(f, r, m) \o Renderings(f, r + m, n)
<1>0. /\ Len(f) \in Nat /\ m + n \in Nat /\ r + m \in Nat
      /\ r + m <= Len(f) /\ r + (m + n) <= Len(f) /\ (r + m) + n <= Len(f)
  BY LenProperties
<1>. DEFINE a == Renderings(f, r, m)
            b == Renderings(f, r + m, n)
            c == Renderings(f, r, m + n)
<1>1. /\ a \in Seq(Seq(Bytes)) /\ Len(a) = m
      /\ \A i \in 1 .. m : a[i] = Rendered(f, r + i)
  BY <1>0, RenderingsFacts
<1>2. /\ b \in Seq(Seq(Bytes)) /\ Len(b) = n
      /\ \A i \in 1 .. n : b[i] = Rendered(f, (r + m) + i)
  BY <1>0, RenderingsFacts
<1>3. /\ c \in Seq(Seq(Bytes)) /\ Len(c) = m + n
      /\ \A i \in 1 .. m + n : c[i] = Rendered(f, r + i)
  BY <1>0, RenderingsFacts
<1>. HIDE DEF a, b, c
<1>4. /\ a \o b \in Seq(Seq(Bytes)) /\ Len(a \o b) = m + n
      /\ \A i \in 1 .. m + n : (a \o b)[i] = IF i <= m THEN a[i] ELSE b[i - m]
  <2>1. PICK x \in Seq(Seq(Bytes)), y \in Seq(Seq(Bytes)) : x = a /\ y = b
    BY <1>1, <1>2
  <2>2. /\ x \o y \in Seq(Seq(Bytes)) /\ Len(x \o y) = Len(x) + Len(y)
        /\ \A i \in 1 .. Len(x) + Len(y) :
             (x \o y)[i] = IF i <= Len(x) THEN x[i] ELSE y[i - Len(x)]
    BY ConcatProperties
  <2>. QED
    BY <1>1, <1>2, <2>1, <2>2
<1>5. ASSUME NEW i \in 1 .. m + n PROVE c[i] = (a \o b)[i]
  <2>1. CASE i <= m
    <3>1. i \in 1 .. m
      BY <2>1
    <3>. QED
      BY <1>1, <1>3, <1>4, <2>1, <3>1
  <2>2. CASE ~(i <= m)
    <3>1. i - m \in 1 .. n /\ (r + m) + (i - m) = r + i
      BY <2>2
    <3>2. b[i - m] = Rendered(f, r + i)
      BY <1>2, <3>1
    <3>. QED
      BY <1>3, <1>4, <2>2, <3>2
  <2>. QED
    BY <2>1, <2>2
<1>6. c = a \o b
  BY <1>3, <1>4, <1>5, SeqEqual
<1>. QED
  BY <1>6 DEF a, b, c

LEMMA RenderingsFlat ==
  ASSUME NEW f \in Seq(Bytes), NEW r \in Nat, NEW m \in Nat, NEW n \in Nat,
         r + m + n <= Len(f)
  PROVE  /\ FlattenSeq(Renderings(f, r, m)) \in Seq(Bytes)
         /\ FlattenSeq(Renderings(f, r + m, n)) \in Seq(Bytes)
         /\ FlattenSeq(Renderings(f, r, m + n)) =
              FlattenSeq(Renderings(f, r, m)) \o FlattenSeq(Renderings(f, r + m, n))
<1>0. /\ Len(f) \in Nat /\ r + m \in Nat /\ r + m <= Len(f) /\ (r + m) + n <= Len(f)
  BY LenProperties
<1>1. /\ Renderings(f, r, m) \in Seq(Seq(Bytes))
      /\ Renderings(f, r + m, n) \in Seq(Seq(Bytes))
  BY <1>0, RenderingsFacts
<1>2. Renderings(f, r, m + n) = Renderings(f, r, m) \o Renderings(f, r + m, n)
  BY RenderingsSplit
<1>. QED
  BY <1>1, <1>2, FlattenType, FlattenConcat

\* One byte more.
LEMMA RenderingsNext ==
  ASSUME NEW f \in Seq(Bytes), NEW r \in Nat, NEW m \in Nat, r + m + 1 <= Len(f)
  PROVE  /\ Rendered(f, r + m + 1) \in Seq(Bytes)
         /\ FlattenSeq(Renderings(f, r, m)) \in Seq(Bytes)
         /\ FlattenSeq(Renderings(f, r, m + 1)) =
              FlattenSeq(Renderings(f, r, m)) \o Rendered(f, r + m + 1)
<1>0. Len(f) \in Nat /\ r + m + 1 \in 1 .. Len(f) /\ r + m \in Nat /\ 1 \in Nat
      /\ (r + m) + 1 <= Len(f)
  BY LenProperties
<1>1. Rendered(f, r + m + 1) \in Seq(Bytes)
  BY <1>0, RenderedFacts
<1>2. Renderings(f, r + m, 1) = <<Rendered(f, r + m + 1)>>
  <2>1. /\ Renderings(f, r + m, 1) \in Seq(Seq(Bytes)) /\ Len(Renderings(f, r + m, 1)) = 1
        /\ \A i \in 1 .. 1 : Renderings(f, r + m, 1)[i] = Rendered(f, (r + m) + i)
    BY <1>0, RenderingsFacts
  <2>2. Renderings(f, r + m, 1)[1] = Rendered(f, r + m + 1)
    BY <2>1
  <2>. QED
    BY <2>1, <2>2
<1>3. FlattenSeq(Renderings(f, r + m, 1)) = Rendered(f, r + m + 1)
  BY <1>1, <1>2, FlattenOne
<1>4. /\ FlattenSeq(Renderings(f, r, m)) \in Seq(Bytes)
      /\ FlattenSeq(Renderings(f, r, m + 1)) =
           FlattenSeq(Renderings(f, r, m)) \o FlattenSeq(Renderings(f, r + m, 1))
  <2>1. PICK n \in Nat : n = 1
    BY <1>0
  <2>2. r + m + n <= Len(f)
    BY <1>0, <2>1
  <2>3. /\ FlattenSeq(Renderings(f, r, m)) \in Seq(Bytes)
        /\ FlattenSeq(Renderings(f, r, m + n)) =
             FlattenSeq(Renderings(f, r, m)) \o FlattenSeq(Renderings(f, r + m, n))
    BY <2>2, RenderingsFlat
  <2>. QED
    BY <2>1, <2>3
<1>. QED
  BY <1>1, <1>3, <1>4

LEMMA TextSplit ==
  ASSUME NEW f \in Seq(Bytes), NEW r \in Nat, NEW n \in Nat, r + n <= Len(f)
  PROVE  /\ FlattenSeq(Renderings(f, r, n)) \in Seq(Bytes)
         /\ Text(f, r + n) = Text(f, r) \o FlattenSeq(Renderings(f, r, n))
<1>1. PICK z \in Nat : z = 0
  OBVIOUS
<1>2. z + r + n <= Len(f) /\ z + r = r
  BY <1>1
<1>3. FlattenSeq(Renderings(f, z + r, n)) \in Seq(Bytes)
  BY <1>2, RenderingsFlat
<1>4. FlattenSeq(Renderings(f, z, r + n)) =
        FlattenSeq(Renderings(f, z, r)) \o FlattenSeq(Renderings(f, z + r, n))
  BY <1>2, RenderingsFlat
<1>. QED
  BY <1>1, <1>2, <1>3, <1>4 DEF Text

LEMMA BlockFacts ==
  ASSUME NEW f \in Seq(Bytes), NEW r \in Nat, NEW n \in Nat, r + n <= Len(f)
  PROVE  /\ SubSeq(f, r + 1, r + n) \in Seq(Bytes) /\ Len(SubSeq(f, r + 1, r + n)) = n
         /\ \A k \in 1 .. n : SubSeq(f, r + 1, r + n)[k] = f[r + k]
<1>0. Len(f) \in Nat
  BY LenProperties
<1>1. \A k \in r + 1 .. r + n : f[k] \in Bytes
  BY <1>0, ElementOfSeq
<1>2. /\ SubSeq(f, r + 1, r + n) \in Seq(Bytes)
      /\ Len(SubSeq(f, r + 1, r + n)) =
           IF r + 1 <= r + n THEN (r + n) - (r + 1) + 1 ELSE 0
      /\ \A k \in 1 .. (r + n) - (r + 1) + 1 :
           SubSeq(f, r + 1, r + n)[k] = f[r + 1 + k - 1]
  BY <1>1, SubSeqProperties
<1>3. (r + n) - (r + 1) + 1 = n /\ \A k \in 1 .. n : r + 1 + k - 1 = r + k
  OBVIOUS
<1>. QED
  BY <1>2, <1>3

\* A block is translated to the renderings of its bytes, wherever it was cut out.
LEMMA EncodedBlock ==
  ASSUME NEW f \in Seq(Bytes), NEW r \in Nat, NEW n \in Nat \ {0}, r + n <= Len(f),
         NEW carry \in BOOLEAN, carry <=> r > 0 /\ f[r] = "CR"
  PROVE  LET e == NormalizeToCRLF(SubSeq(f, r + 1, r + n), carry)
         IN  /\ e.out = FlattenSeq(Renderings(f, r, n))
             /\ e.cr = (f[r + n] = "CR")
<1>. DEFINE s == SubSeq(f, r + 1, r + n)
            o == [k \in 0 .. n |-> FlattenSeq(Renderings(f, r, k))]
<1>0. Len(f) \in Nat
  BY LenProperties
<1>1. s \in Seq(Bytes) /\ Len(s) = n /\ \A k \in 1 .. n : s[k] = f[r + k]
  BY BlockFacts
<1>2. o[0] = <<>>
  <2>1. Renderings(f, r, 0) = <<>>
    BY DEF Renderings
  <2>2. o[0] = FlattenSeq(Renderings(f, r, 0))
    OBVIOUS
  <2>. QED
    BY <2>1, <2>2, FlattenEmpty
<1>3. ASSUME NEW k \in 1 .. n PROVE PutOut(s, carry, k) = Rendered(f, r + k)
  <2>1. s[k] = f[r + k]
    BY <1>1
  <2>2. (IF k = 1 THEN carry ELSE s[k - 1] = "CR")
          <=> ~(r + k = 1 \/ f[r + k - 1] # "CR")
    <3>1. CASE k = 1
      <4>1. r + k - 1 = r /\ (r + k = 1 <=> r = 0) /\ (r > 0 <=> r # 0)
        BY <3>1
      <4>. QED
        BY <3>1, <4>1
    <3>2. CASE k # 1
      <4>1. k - 1 \in 1 .. n /\ r + (k - 1) = r + k - 1 /\ r + k # 1
        BY <3>2
      <4>2. s[k - 1] = f[r + k - 1]
        BY <1>1, <4>1
      <4>. QED
        BY <3>2, <4>1, <4>2
    <3>. QED
      BY <3>1, <3>2
  <2>. HIDE DEF s
  <2>. QED
    BY <2>1, <2>2 DEF PutOut, Rendered
<1>4. ASSUME NEW k \in 1 .. n PROVE o[k] = o[k - 1] \o PutOut(s, carry, k)
  <2>1. PICK m \in Nat : m = k - 1
    OBVIOUS
  <2>2. r + m + 1 <= Len(f) /\ m + 1 = k /\ r + m + 1 = r + k
        /\ k \in 0 .. n /\ m \in 0 .. n
    BY <1>0, <2>1
  <2>3. FlattenSeq(Renderings(f, r, m + 1)) =
          FlattenSeq(Renderings(f, r, m)) \o Rendered(f, r + m + 1)
    BY <2>2, RenderingsNext
  <2>4. FlattenSeq(Renderings(f, r, k)) =
          FlattenSeq(Renderings(f, r, m)) \o Rendered(f, r + k)
    BY <2>2, <2>3, Zenon
  <2>5. o[k] = FlattenSeq(Renderings(f, r, k)) /\ o[m] = FlattenSeq(Renderings(f, r, m))
    BY <2>2
  <2>. HIDE DEF o, s
  <2>. QED
    BY <1>3, <2>1, <2>4, <2>5
<1>5. o[n] = FlattenSeq(Renderings(f, r, n))
  OBVIOUS
<1>6. s[n] = f[r + n]
  BY <1>1
<1>. HIDE DEF s, o
<1>7. /\ NormalizeToCRLF(s, carry).out = o[n]
      /\ NormalizeToCRLF(s, carry).cr = Carried(s, carry, n)
  BY <1>1, <1>2, <1>4, NormalizeOut
<1>8. Carried(s, carry, n) = (f[r + n] = "CR")
  BY <1>6 DEF Carried
<1>. QED
  BY <1>5, <1>7, <1>8 DEF s

\* A text in which each LF has its CR.
Normal(w) == \A i \in 1 .. Len(w) : w[i] = "LF" => i > 1 /\ w[i - 1] = "CR"

LEMMA TextIsNormal ==
  ASSUME NEW f \in Seq(Bytes), NEW m \in 0 .. Len(f)
  PROVE  Text(f, m) \in Seq(Bytes) /\ Normal(Text(f, m))
<1>. DEFINE S == {k \in 0 .. Len(f) :
                    /\ Text(f, k) \in Seq(Bytes) /\ Normal(Text(f, k))
                    /\ k > 0 => /\ Len(Text(f, k)) > 0
                                /\ Text(f, k)[Len(Text(f, k))] = f[k]}
<1>0. Len(f) \in Nat /\ \A k \in 1 .. Len(f) : f[k] \in Bytes
  BY LenProperties, ElementOfSeq
<1>1. 0 \in S
  <2>1. Renderings(f, 0, 0) = <<>>
    BY DEF Renderings
  <2>2. Text(f, 0) = <<>>
    BY <2>1, FlattenEmpty DEF Text
  <2>3. Text(f, 0) \in Seq(Bytes) /\ Len(Text(f, 0)) = 0
    BY <2>2, EmptySeq
  <2>4. 1 .. 0 = {} /\ ~(0 > 0) /\ 0 \in 0 .. Len(f)
    BY <1>0
  <2>5. Normal(Text(f, 0))
    BY <2>3, <2>4, Zenon DEF Normal
  <2>. QED
    BY <2>3, <2>4, <2>5, Zenon
<1>2. ASSUME NEW k \in Nat, k < Len(f), k \in S PROVE k + 1 \in S
  <2>1. k + 1 \in 1 .. Len(f) /\ 0 + k + 1 <= Len(f) /\ 0 + k + 1 = k + 1
    BY <1>0, <1>2
  <2>2. PICK a \in Seq(Bytes) : a = Text(f, k)
    BY <1>2
  <2>3. PICK b \in Seq(Bytes) : b = Rendered(f, k + 1)
    BY <2>1, RenderedFacts
  <2>4. Text(f, k + 1) = a \o b
    <3>1. FlattenSeq(Renderings(f, 0, k + 1)) =
            FlattenSeq(Renderings(f, 0, k)) \o Rendered(f, 0 + k + 1)
      BY <2>1, RenderingsNext
    <3>. QED
      BY <2>1, <2>2, <2>3, <3>1 DEF Text
  <2>5. Normal(a) /\ (k > 0 => Len(a) > 0 /\ a[Len(a)] = f[k])
    BY <1>2, <2>2
  <2>6. /\ a \o b \in Seq(Bytes) /\ Len(a \o b) = Len(a) + Len(b)
        /\ Len(a) \in Nat
        /\ \A i \in 1 .. Len(a) + Len(b) :
             (a \o b)[i] = IF i <= Len(a) THEN a[i] ELSE b[i - Len(a)]
    BY ConcatProperties
  <2>7. Normal(a \o b) /\ Len(a \o b) > 0 /\ (a \o b)[Len(a \o b)] = f[k + 1]
    <3>1. CASE f[k + 1] = "LF" /\ (k + 1 = 1 \/ f[k + 1 - 1] # "CR")
      <4>1. b = <<"CR", "LF">>
        BY <2>3, <3>1 DEF Rendered
      <4>2. Len(b) = 2 /\ b[1] = "CR" /\ b[2] = "LF"
        BY <4>1
      <4>3. /\ (a \o b)[Len(a) + 1] = "CR" /\ (a \o b)[Len(a) + 2] = "LF"
            /\ \A i \in 1 .. Len(a) : (a \o b)[i] = a[i]
            /\ Len(a \o b) = Len(a) + 2
        BY <2>6, <4>2
      <4>4. ASSUME NEW i \in 1 .. Len(a) + 2, (a \o b)[i] = "LF"
            PROVE  i > 1 /\ (a \o b)[i - 1] = "CR"
        <5>1. i \in 1 .. Len(a) \/ i = Len(a) + 1 \/ i = Len(a) + 2
          BY <2>6
        <5>2. CASE i \in 1 .. Len(a)
          <6>1. a[i] = "LF"
            BY <4>3, <4>4, <5>2
          <6>2. i > 1 /\ a[i - 1] = "CR"
            BY <2>5, <5>2, <6>1 DEF Normal
          <6>3. i - 1 \in 1 .. Len(a)
            BY <2>6, <5>2, <6>2
          <6>. QED
            BY <4>3, <6>2, <6>3
        <5>3. CASE i = Len(a) + 1
          BY <4>3, <4>4, <5>3
        <5>4. CASE i = Len(a) + 2
          <6>1. i > 1 /\ i - 1 = Len(a) + 1
            BY <2>6, <5>4
          <6>. QED
            BY <4>3, <6>1
        <5>. QED
          BY <5>1, <5>2, <5>3, <5>4
      <4>5. Normal(a \o b)
        BY <4>3, <4>4 DEF Normal
      <4>. QED
        BY <2>6, <3>1, <4>3, <4>5
    <3>2. CASE ~(f[k + 1] = "LF" /\ (k + 1 = 1 \/ f[k + 1 - 1] # "CR"))
      <4>1. b = <<f[k + 1]>>
        BY <2>3, <3>2 DEF Rendered
      <4>2. Len(b) = 1 /\ b[1] = f[k + 1]
        BY <4>1
      <4>3. /\ (a \o b)[Len(a) + 1] = f[k + 1]
            /\ \A i \in 1 .. Len(a) : (a \o b)[i] = a[i]
            /\ Len(a \o b) = Len(a) + 1
        BY <2>6, <4>2
      <4>4. ASSUME NEW i \in 1 .. Len(a) + 1, (a \o b)[i] = "LF"
            PROVE  i > 1 /\ (a \o b)[i - 1] = "CR"
        <5>1. i \in 1 .. Len(a) \/ i = Len(a) + 1
          BY <2>6
        <5>2. CASE i \in 1 .. Len(a)
          <6>1. a[i] = "LF"
            BY <4>3, <4>4, <5>2
          <6>2. i > 1 /\ a[i - 1] = "CR"
            BY <2>5, <5>2, <6>1 DEF Normal
          <6>3. i - 1 \in 1 .. Len(a)
            BY <2>6, <5>2, <6>2
          <6>. QED
            BY <4>3, <6>2, <6>3
        <5>3. CASE i = Len(a) + 1
          <6>1. f[k + 1] = "LF"
            BY <4>3, <4>4, <5>3
          <6>2. k + 1 # 1 /\ f[k + 1 - 1] = "CR" /\ k + 1 - 1 = k
            BY <3>2, <6>1
          <6>3. k > 0
            BY <6>2
          <6>4. Len(a) > 0 /\ a[Len(a)] = "CR"
            BY <2>5, <6>2, <6>3
          <6>5. i > 1 /\ i - 1 = Len(a) /\ Len(a) \in 1 .. Len(a)
            BY <2>6, <5>3, <6>4
          <6>. QED
            BY <4>3, <6>4, <6>5
        <5>. QED
          BY <5>1, <5>2, <5>3
      <4>5. Normal(a \o b)
        BY <4>3, <4>4 DEF Normal
      <4>. QED
        BY <2>6, <4>3, <4>5
    <3>. QED
      BY <3>1, <3>2
  <2>8. k + 1 \in 0 .. Len(f)
    BY <2>1
  <2>. QED
    BY <2>4, <2>6, <2>7, <2>8
<1>. HIDE DEF S
<1>3. m \in S
  <2>1. 0 .. Len(f) \subseteq S
    BY <1>0, <1>1, <1>2, BoundedInduction
  <2>. QED
    BY <2>1
<1>. QED
  BY <1>3 DEF S

\* What has gone before a cut is normal, too.
LEMMA NormalPrefix ==
  ASSUME NEW a \in Seq(Bytes), NEW b \in Seq(Bytes), Normal(a \o b)
  PROVE  Normal(a)
<1>1. /\ Len(a \o b) = Len(a) + Len(b) /\ Len(a) \in Nat /\ Len(b) \in Nat
      /\ \A i \in 1 .. Len(a) : (a \o b)[i] = a[i]
  BY ConcatProperties, LenProperties
<1>. DEFINE c == a \o b
<1>. HIDE DEF c
<1>2. ASSUME NEW i \in 1 .. Len(a), a[i] = "LF" PROVE i > 1 /\ a[i - 1] = "CR"
  <2>1. i \in 1 .. Len(c) /\ c[i] = "LF"
    BY <1>1, <1>2 DEF c
  <2>2. i > 1 /\ c[i - 1] = "CR"
    BY <2>1 DEF Normal, c
  <2>3. i - 1 \in 1 .. Len(a)
    BY <1>1, <2>2
  <2>. QED
    BY <1>1, <2>2, <2>3 DEF c
<1>. QED
  BY <1>2 DEF Normal

\* The bytes of a sequence, one after the other.
LEMMA TakeOneMore ==
  ASSUME NEW s \in Seq(Bytes), NEW k \in 1 .. Len(s)
  PROVE  SubSeq(s, 1, k) = SubSeq(s, 1, k - 1) \o <<s[k]>>
<1>1. Len(s) \in Nat
  BY LenProperties
<1>2. PICK m \in 1 .. Len(s) : m = 1
  BY <1>1
<1>3. k \in m .. Len(s)
  BY <1>2
<1>4. SubSeq(s, m, k) = SubSeq(s, m, k - 1) \o <<s[k]>>
  BY <1>3, SubSeqRecursiveSecond
<1>. QED
  BY <1>2, <1>4

\* A normal text is written as it comes, wherever it was cut.
LEMMA DecodedChunk ==
  ASSUME NEW p \in Seq(Bytes), NEW s \in Seq(Bytes), Normal(p \o s),
         NEW carry \in BOOLEAN, carry <=> p # <<>> /\ p[Len(p)] = "CR"
  PROVE  LET d == NormalizeToCRLF(s, carry)
         IN  /\ d.out = s /\ d.cr \in BOOLEAN
             /\ d.cr <=> p \o s # <<>> /\ (p \o s)[Len(p \o s)] = "CR"
<1>. DEFINE q == p \o s
            m == Len(s)
            o == [k \in 0 .. m |-> SubSeq(s, 1, k)]
<1>1. /\ q \in Seq(Bytes) /\ Len(q) = Len(p) + m /\ Len(p) \in Nat /\ m \in Nat
      /\ \A i \in 1 .. Len(p) : q[i] = p[i]
      /\ \A i \in 1 .. m : q[Len(p) + i] = s[i]
  BY ConcatProperties, LenProperties
<1>2. (p = <<>> <=> Len(p) = 0) /\ (q = <<>> <=> Len(q) = 0)
  BY <1>1, EmptySeq
<1>3. ASSUME NEW k \in 1 .. m PROVE PutOut(s, carry, k) = <<s[k]>>
  <2>1. ASSUME s[k] = "LF" PROVE IF k = 1 THEN carry ELSE s[k - 1] = "CR"
    <3>. HIDE DEF q
    <3>1. Len(p) + k \in 1 .. Len(q) /\ q[Len(p) + k] = "LF"
      BY <1>1, <2>1
    <3>2. Len(p) + k > 1 /\ q[Len(p) + k - 1] = "CR"
      BY <3>1 DEF Normal, q
    <3>3. CASE k = 1
      <4>1. Len(p) \in 1 .. Len(p) /\ Len(p) + k - 1 = Len(p) /\ Len(p) # 0
        BY <1>1, <3>2, <3>3
      <4>2. p[Len(p)] = "CR"
        BY <1>1, <3>2, <4>1
      <4>. QED
        BY <1>2, <3>3, <4>1, <4>2
    <3>4. CASE k # 1
      <4>1. k - 1 \in 1 .. m /\ Len(p) + k - 1 = Len(p) + (k - 1)
        BY <1>1, <3>4
      <4>2. s[k - 1] = "CR"
        BY <1>1, <3>2, <4>1
      <4>. QED
        BY <3>4, <4>2
    <3>. QED
      BY <3>3, <3>4
  <2>. QED
    BY <2>1, Zenon DEF PutOut
<1>4. o[0] = <<>>
  <2>1. 0 \in 0 .. m
    BY <1>1
  <2>2. SubSeq(s, 1, 0) = <<>>
    OBVIOUS
  <2>. QED
    BY <2>1, <2>2
<1>5. ASSUME NEW k \in 1 .. m PROVE o[k] = o[k - 1] \o PutOut(s, carry, k)
  <2>1. k \in 0 .. m /\ k - 1 \in 0 .. m
    BY <1>1
  <2>2. o[k] = SubSeq(s, 1, k) /\ o[k - 1] = SubSeq(s, 1, k - 1)
    BY <2>1
  <2>. HIDE DEF o
  <2>3. SubSeq(s, 1, k) = SubSeq(s, 1, k - 1) \o <<s[k]>>
    BY TakeOneMore
  <2>. QED
    BY <1>3, <2>2, <2>3
<1>6. o[m] = s
  <2>1. m \in 0 .. m
    BY <1>1
  <2>2. SubSeq(s, 1, Len(s)) = s
    BY SubSeqFull
  <2>. QED
    BY <2>1, <2>2
<1>. HIDE DEF o
<1>7. /\ NormalizeToCRLF(s, carry).out = o[m]
      /\ NormalizeToCRLF(s, carry).cr = Carried(s, carry, m)
  BY <1>4, <1>5, NormalizeOut
<1>8. Carried(s, carry, m) <=> q # <<>> /\ q[Len(q)] = "CR"
  <2>. HIDE DEF q
  <2>1. CASE m = 0
    <3>1. Len(q) = Len(p) /\ (Len(p) # 0 => Len(p) \in 1 .. Len(p))
      BY <1>1, <2>1
    <3>2. Carried(s, carry, m) <=> carry
      BY <2>1 DEF Carried
    <3>. QED
      BY <1>1, <1>2, <3>1, <3>2
  <2>2. CASE m # 0
    <3>1. m \in 1 .. m /\ Len(q) # 0
      BY <1>1, <2>2
    <3>2. Carried(s, carry, m) <=> s[m] = "CR"
      BY <2>2 DEF Carried
    <3>3. q[Len(q)] = s[m]
      BY <1>1, <3>1
    <3>. QED
      BY <1>2, <3>1, <3>2, <3>3
  <2>. QED
    BY <2>1, <2>2
<1>9. Carried(s, carry, m) \in BOOLEAN
  BY DEF Carried
<1>. QED
  BY <1>6, <1>7, <1>8, <1>9

-----------------------------------------------------------------------------
(* The chunks on their way *)

Chunks == [data : Seq(Bytes), final : BOOLEAN]

DataOf(w) == [i \in DOMAIN w |-> w[i].data]

LEMMA DataFacts ==
  ASSUME NEW w \in Seq(Chunks)
  PROVE  /\ DataOf(w) \in Seq(Seq(Bytes)) /\ Len(DataOf(w)) = Len(w)
         /\ \A i \in 1 .. Len(w) : DataOf(w)[i] = w[i].data /\ w[i].data \in Seq(Bytes)
<1>1. Len(w) \in Nat /\ DOMAIN w = 1 .. Len(w)
  BY LenProperties
<1>2. \A i \in 1 .. Len(w) : w[i].data \in Seq(Bytes)
  <2>1. ASSUME NEW i \in 1 .. Len(w) PROVE w[i].data \in Seq(Bytes)
    <3>1. w[i] \in Chunks
      BY ElementOfSeq
    <3>. QED
      BY <3>1 DEF Chunks
  <2>. QED
    BY <2>1
<1>3. DataOf(w) = [i \in 1 .. Len(w) |-> w[i].data]
  BY <1>1 DEF DataOf
<1>4. DataOf(w) \in [1 .. Len(w) -> Seq(Bytes)]
  BY <1>2, <1>3
<1>. QED
  BY <1>1, <1>2, <1>3, <1>4

LEMMA DataConcat ==
  ASSUME NEW v \in Seq(Chunks), NEW w \in Seq(Chunks)
  PROVE  DataOf(v \o w) = DataOf(v) \o DataOf(w)
<1>. DEFINE u == v \o w
            a == DataOf(v)
            b == DataOf(w)
            c == DataOf(u)
<1>1. /\ u \in Seq(Chunks) /\ Len(u) = Len(v) + Len(w)
      /\ Len(v) \in Nat /\ Len(w) \in Nat
      /\ \A i \in 1 .. Len(v) + Len(w) :
           u[i] = IF i <= Len(v) THEN v[i] ELSE w[i - Len(v)]
  BY ConcatProperties, LenProperties
<1>. HIDE DEF u
<1>2. /\ a \in Seq(Seq(Bytes)) /\ Len(a) = Len(v)
      /\ \A i \in 1 .. Len(v) : a[i] = v[i].data
  BY DataFacts
<1>3. /\ b \in Seq(Seq(Bytes)) /\ Len(b) = Len(w)
      /\ \A i \in 1 .. Len(w) : b[i] = w[i].data
  BY DataFacts
<1>4. /\ c \in Seq(Seq(Bytes)) /\ Len(c) = Len(u)
      /\ \A i \in 1 .. Len(u) : c[i] = u[i].data
  BY <1>1, DataFacts
<1>. HIDE DEF a, b, c
<1>5. /\ a \o b \in Seq(Seq(Bytes)) /\ Len(a \o b) = Len(a) + Len(b)
      /\ \A i \in 1 .. Len(a) + Len(b) :
           (a \o b)[i] = IF i <= Len(a) THEN a[i] ELSE b[i - Len(a)]
  <2>1. PICK x \in Seq(Seq(Bytes)), y \in Seq(Seq(Bytes)) : x = a /\ y = b
    BY <1>2, <1>3
  <2>2. /\ x \o y \in Seq(Seq(Bytes)) /\ Len(x \o y) = Len(x) + Len(y)
        /\ \A i \in 1 .. Len(x) + Len(y) :
             (x \o y)[i] = IF i <= Len(x) THEN x[i] ELSE y[i - Len(x)]
    BY ConcatProperties
  <2>. QED
    BY <2>1, <2>2
<1>6. ASSUME NEW i \in 1 .. Len(c) PROVE c[i] = (a \o b)[i]
  <2>1. i \in 1 .. Len(u) /\ c[i] = u[i].data
    BY <1>4
  <2>2. CASE i <= Len(v)
    <3>1. i \in 1 .. Len(v)
      BY <1>1, <2>1, <2>2
    <3>2. u[i] = v[i] /\ a[i] = v[i].data /\ (a \o b)[i] = a[i]
      BY <1>1, <1>2, <1>3, <1>5, <2>1, <2>2, <3>1
    <3>. QED
      BY <2>1, <3>2
  <2>3. CASE ~(i <= Len(v))
    <3>1. PICK j \in 1 .. Len(w) : j = i - Len(v)
      BY <1>1, <2>1, <2>3
    <3>2. u[i] = w[j] /\ b[j] = w[j].data /\ (a \o b)[i] = b[j]
      BY <1>1, <1>2, <1>3, <1>5, <2>1, <2>3, <3>1
    <3>. QED
      BY <2>1, <3>2
  <2>. QED
    BY <2>2, <2>3
<1>7. Len(c) = Len(a \o b)
  BY <1>1, <1>2, <1>3, <1>4, <1>5
<1>8. c = a \o b
  BY <1>4, <1>5, <1>6, <1>7, SeqEqual
<1>. QED
  BY <1>8 DEF a, b, c, u

\* What is on the wire when a chunk is added at the end,
LEMMA WireAppend ==
  ASSUME NEW w \in Seq(Chunks), NEW c \in Chunks
  PROVE  FlattenSeq(DataOf(Append(w, c))) = FlattenSeq(DataOf(w)) \o c.data
<1>1. Append(w, c) = w \o <<c>> /\ <<c>> \in Seq(Chunks)
  BY AppendIsConcat
<1>2. DataOf(<<c>>) = <<c.data>> /\ c.data \in Seq(Bytes)
  BY DEF DataOf, Chunks
<1>3. DataOf(Append(w, c)) = DataOf(w) \o <<c.data>>
  BY <1>1, <1>2, DataConcat
<1>4. PICK a \in Seq(Seq(Bytes)), b \in Seq(Seq(Bytes)) :
        a = DataOf(w) /\ b = <<c.data>>
  <2>1. DataOf(w) \in Seq(Seq(Bytes))
    BY DataFacts
  <2>2. PICK d \in Seq(Bytes) : d = c.data
    BY <1>2
  <2>3. <<d>> \in Seq(Seq(Bytes))
    OBVIOUS
  <2>. QED
    BY <2>1, <2>2, <2>3, Zenon
<1>5. FlattenSeq(a \o b) = FlattenSeq(a) \o FlattenSeq(b)
  BY FlattenConcat
<1>6. FlattenSeq(b) = c.data
  BY <1>2, <1>4, FlattenOne
<1>. QED
  BY <1>3, <1>4, <1>5, <1>6

\* and when the first is taken.
LEMMA WireTail ==
  ASSUME NEW w \in Seq(Chunks), w # <<>>
  PROVE  /\ Head(w).data \in Seq(Bytes)
         /\ FlattenSeq(DataOf(Tail(w))) \in Seq(Bytes)
         /\ FlattenSeq(DataOf(w)) = Head(w).data \o FlattenSeq(DataOf(Tail(w)))
<1>1. PICK c \in Chunks, t \in Seq(Chunks) : c = Head(w) /\ t = Tail(w)
  BY HeadTailProperties
<1>2. w = <<c>> \o t /\ <<c>> \in Seq(Chunks)
  BY <1>1
<1>3. DataOf(<<c>>) = <<c.data>> /\ c.data \in Seq(Bytes)
  BY DEF DataOf, Chunks
<1>4. DataOf(w) = <<c.data>> \o DataOf(t)
  BY <1>2, <1>3, DataConcat
<1>5. PICK a \in Seq(Seq(Bytes)), b \in Seq(Seq(Bytes)) :
        a = <<c.data>> /\ b = DataOf(t)
  <2>1. DataOf(t) \in Seq(Seq(Bytes))
    BY DataFacts
  <2>2. PICK d \in Seq(Bytes) : d = c.data
    BY <1>3
  <2>3. <<d>> \in Seq(Seq(Bytes))
    OBVIOUS
  <2>. QED
    BY <2>1, <2>2, <2>3, Zenon
<1>6. FlattenSeq(a \o b) = FlattenSeq(a) \o FlattenSeq(b)
  BY FlattenConcat
<1>7. FlattenSeq(a) = c.data /\ FlattenSeq(b) \in Seq(Bytes)
  BY <1>3, <1>5, FlattenOne, FlattenType
<1>. QED
  BY <1>1, <1>3, <1>4, <1>5, <1>6, <1>7

LEMMA WireType ==
  ASSUME NEW w \in Seq(Chunks)
  PROVE  FlattenSeq(DataOf(w)) \in Seq(Bytes)
  BY DataFacts, FlattenType

LEMMA WireEmpty == FlattenSeq(DataOf(<<>>)) = <<>>
<1>1. DataOf(<<>>) = <<>>
  BY DEF DataOf
<1>. QED
  BY <1>1, FlattenEmpty

-----------------------------------------------------------------------------
(* What has been read, translated *)

\* The bytes of a file are rendered alike in a part of it from its beginning.
LEMMA TextOfPrefix ==
  ASSUME NEW f \in Seq(Bytes), NEW r \in 0 .. Len(f)
  PROVE  FlattenSeq([i \in DOMAIN SubSeq(f, 1, r) |-> Rendered(SubSeq(f, 1, r), i)])
           = Text(f, r)
<1>. DEFINE g == SubSeq(f, 1, r)
<1>0. Len(f) \in Nat
  BY LenProperties
<1>1. g \in Seq(Bytes) /\ Len(g) = r /\ \A k \in 1 .. r : g[k] = f[k]
  <2>1. PICK z \in Nat, n \in Nat : z = 0 /\ n = r
    OBVIOUS
  <2>2. z + n <= Len(f) /\ z + 1 = 1 /\ z + n = r /\ \A k \in 1 .. r : z + k = k
    BY <1>0, <2>1
  <2>3. /\ SubSeq(f, z + 1, z + n) \in Seq(Bytes) /\ Len(SubSeq(f, z + 1, z + n)) = n
        /\ \A k \in 1 .. n : SubSeq(f, z + 1, z + n)[k] = f[z + k]
    BY <2>2, BlockFacts
  <2>. QED
    BY <2>1, <2>2, <2>3
<1>. HIDE DEF g
<1>2. DOMAIN g = 1 .. r
  BY <1>1
<1>3. ASSUME NEW i \in 1 .. r PROVE Rendered(g, i) = Rendered(f, 0 + i)
  <2>1. 0 + i = i /\ (i = 1 \/ i - 1 \in 1 .. r)
    BY <1>0
  <2>2. g[i] = f[i] /\ (i = 1 \/ g[i - 1] = f[i - 1])
    BY <1>1, <2>1
  <2>. QED
    BY <2>1, <2>2, Zenon DEF Rendered
<1>4. [i \in DOMAIN g |-> Rendered(g, i)] = Renderings(f, 0, r)
  BY <1>2, <1>3, Zenon DEF Renderings
<1>. QED
  BY <1>4 DEF g, Text

SoFar == SubSeq(file, 1, read)

LEMMA SoFarText ==
  ASSUME TypeOK, mode = "ASCII"
  PROVE  Translated(SoFar) = Text(file, read)
<1>1. file \in Seq(Bytes) /\ read \in 0 .. Len(file)
  BY DEF TypeOK
<1>2. Translated(SoFar) = FlattenSeq([i \in DOMAIN SoFar |-> Rendered(SoFar, i)])
  BY DEF Translated
<1>. QED
  BY <1>1, <1>2, TextOfPrefix DEF SoFar

LEMMA SoFarType ==
  ASSUME TypeOK
  PROVE  Translated(SoFar) \in Seq(Bytes)
<1>1. file \in Seq(Bytes) /\ read \in 0 .. Len(file) /\ mode \in Modes
  BY DEF TypeOK
<1>2. CASE mode = "ASCII"
  BY <1>1, <1>2, SoFarText, TextIsNormal
<1>3. CASE mode = "Binary"
  <2>1. \A i \in 1 .. read : file[i] \in Bytes
    BY <1>1, ElementOfSeq, LenProperties
  <2>2. SoFar \in Seq(Bytes)
    BY <1>1, <2>1, SubSeqProperties DEF SoFar
  <2>. QED
    BY <1>3, <2>2 DEF Translated
<1>. QED
  BY <1>1, <1>2, <1>3 DEF Modes

\* The next block, with the carry of the one before, continues it.
LEMMA SoFarNext ==
  ASSUME TypeOK, CarriesInStep, NEW n \in Nat \ {0}, read + n <= Len(file)
  PROVE  LET e == Encode(SubSeq(file, read + 1, read + n))
         IN  /\ e.out \in Seq(Bytes) /\ e.cr \in BOOLEAN
             /\ mode = "ASCII" => e.cr = (file[read + n] = "CR")
             /\ Translated(SubSeq(file, 1, read + n)) = Translated(SoFar) \o e.out
<1>. DEFINE b == SubSeq(file, read + 1, read + n)
<1>1. /\ file \in Seq(Bytes) /\ read \in Nat /\ mode \in Modes /\ encodeCR \in BOOLEAN
      /\ Len(file) \in Nat /\ read + n \in 0 .. Len(file) /\ read \in 0 .. Len(file)
  BY LenProperties DEF TypeOK
<1>2. b \in Seq(Bytes)
  BY <1>1, BlockFacts
<1>3. CASE mode = "ASCII"
  <2>1. encodeCR <=> read > 0 /\ file[read] = "CR"
    BY <1>3 DEF CarriesInStep
  <2>2. /\ NormalizeToCRLF(b, encodeCR).out = FlattenSeq(Renderings(file, read, n))
        /\ NormalizeToCRLF(b, encodeCR).cr = (file[read + n] = "CR")
    BY <1>1, <2>1, EncodedBlock
  <2>3. Encode(b) = NormalizeToCRLF(b, encodeCR)
    BY <1>3 DEF Encode
  <2>4. Translated(SubSeq(file, 1, read + n)) = Text(file, read + n)
    <3>1. PICK r \in 0 .. Len(file) : r = read + n
      BY <1>1
    <3>2. FlattenSeq([i \in DOMAIN SubSeq(file, 1, r) |->
                        Rendered(SubSeq(file, 1, r), i)]) = Text(file, r)
      BY <1>1, TextOfPrefix
    <3>. QED
      BY <1>3, <3>1, <3>2 DEF Translated
  <2>5. /\ FlattenSeq(Renderings(file, read, n)) \in Seq(Bytes)
        /\ Text(file, read + n) =
             Text(file, read) \o FlattenSeq(Renderings(file, read, n))
    <3>1. PICK r \in Nat, k \in Nat : r = read /\ k = n
      BY <1>1
    <3>. QED
      BY <1>1, <3>1, TextSplit
  <2>6. Translated(SoFar) = Text(file, read)
    BY <1>3, SoFarText
  <2>. HIDE DEF b
  <2>7. Encode(b).out = FlattenSeq(Renderings(file, read, n))
    BY <2>2, <2>3
  <2>8. Encode(b).cr = (file[read + n] = "CR") /\ Encode(b).cr \in BOOLEAN
    BY <2>2, <2>3
  <2>9. Translated(SubSeq(file, 1, read + n)) = Translated(SoFar) \o Encode(b).out
    BY <2>4, <2>5, <2>6, <2>7, Zenon
  <2>. QED
    BY <2>5, <2>7, <2>8, <2>9 DEF b
<1>4. CASE mode = "Binary"
  <2>1. Encode(b) = [out |-> b, cr |-> FALSE]
    BY <1>4 DEF Encode
  <2>2. Encode(b).out = b /\ Encode(b).cr = FALSE
    BY <2>1
  <2>3. /\ Translated(SubSeq(file, 1, read + n)) = SubSeq(file, 1, read + n)
        /\ Translated(SoFar) = SoFar
    BY <1>4 DEF Translated
  <2>4. SoFar \o b = SubSeq(file, 1, read + n)
    <3>1. PICK m \in 1 .. Len(file) + 1 : m = 1
      BY <1>1
    <3>2. read \in m - 1 .. Len(file) /\ read + n \in read .. Len(file)
      BY <1>1, <3>1
    <3>3. SubSeq(file, m, read) \o SubSeq(file, read + 1, read + n)
            = SubSeq(file, m, read + n)
      BY <1>1, <3>2, ConcatAdjacentSubSeq
    <3>. QED
      BY <3>1, <3>3 DEF SoFar
  <2>5. mode # "ASCII"
    BY <1>4
  <2>. HIDE DEF b
  <2>. QED
    BY <1>2, <2>2, <2>3, <2>4, <2>5 DEF b
<1>. QED
  BY <1>1, <1>3, <1>4 DEF Modes

-----------------------------------------------------------------------------
(* Rearranging the pieces *)

LEMMA OnWireType ==
  ASSUME TypeOK
  PROVE  wire \in Seq(Chunks) /\ OnWire \in Seq(Bytes) /\ OnWire = FlattenSeq(DataOf(wire))
<1>1. wire \in Seq(Chunks)
  BY DEF TypeOK, Chunks
<1>2. OnWire = FlattenSeq(DataOf(wire))
  BY DEF OnWire, DataOf
<1>. QED
  BY <1>1, <1>2, WireType

\* What is taken and what stays make up pendingOutput.
LEMMA TakenFacts ==
  ASSUME TypeOK
  PROVE  /\ Taken \in Seq(Bytes) /\ Len(Taken) <= ChunkSize
         /\ SubSeq(pending, Len(Taken) + 1, Len(pending)) \in Seq(Bytes)
         /\ Taken \o SubSeq(pending, Len(Taken) + 1, Len(pending)) = pending
         /\ Taken = <<>> => pending = <<>>
         /\ pending = <<>> => SubSeq(pending, Len(Taken) + 1, Len(pending)) = <<>>
<1>1. PICK p \in Seq(Bytes) : p = pending
  BY DEF TypeOK
<1>2. Len(p) \in Nat /\ ChunkSize \in Nat \ {0}
  BY LenProperties, BoundsAssumption
<1>3. PICK k \in 0 .. Len(p) :
        k = Smaller(ChunkSize, Len(p)) /\ k <= ChunkSize /\ (k = 0 => Len(p) = 0)
  BY <1>2 DEF Smaller
<1>4. \A i \in 1 .. Len(p) : p[i] \in Bytes
  BY ElementOfSeq
<1>5. Taken = SubSeq(p, 1, k)
  BY <1>1, <1>3 DEF Taken
<1>6. Taken \in Seq(Bytes) /\ Len(Taken) = k
  <2>1. \A i \in 1 .. k : p[i] \in Bytes
    BY <1>2, <1>4
  <2>2. /\ SubSeq(p, 1, k) \in Seq(Bytes)
        /\ Len(SubSeq(p, 1, k)) = IF 1 <= k THEN k - 1 + 1 ELSE 0
    BY <2>1, SubSeqProperties
  <2>. QED
    BY <1>2, <1>5, <2>2
<1>7. SubSeq(p, k + 1, Len(p)) \in Seq(Bytes)
  <2>1. \A i \in k + 1 .. Len(p) : p[i] \in Bytes
    BY <1>2, <1>4
  <2>. QED
    BY <1>2, <2>1, SubSeqProperties
<1>8. SubSeq(p, 1, k) \o SubSeq(p, k + 1, Len(p)) = p
  <2>1. PICK m \in 1 .. Len(p) + 1 : m = 1
    BY <1>2
  <2>2. k \in m - 1 .. Len(p) /\ Len(p) \in k .. Len(p)
    BY <1>2, <2>1
  <2>3. SubSeq(p, m, k) \o SubSeq(p, k + 1, Len(p)) = SubSeq(p, m, Len(p))
    BY <2>2, ConcatAdjacentSubSeq
  <2>4. SubSeq(p, 1, Len(p)) = p
    BY SubSeqFull
  <2>. QED
    BY <2>1, <2>3, <2>4
<1>9. Taken = <<>> => p = <<>>
  <2>1. Taken = <<>> => k = 0
    BY <1>6, EmptySeq
  <2>. QED
    BY <1>2, <1>3, <2>1, EmptySeq
<1>10. p = <<>> => SubSeq(p, k + 1, Len(p)) = <<>>
  <2>1. ASSUME p = <<>> PROVE SubSeq(p, k + 1, Len(p)) = <<>>
    <3>1. Len(p) = 0
      BY <2>1, EmptySeq
    <3>2. Len(p) < k + 1
      BY <1>2, <3>1
    <3>. QED
      BY <1>2, <3>2, SubSeqEmpty
  <2>. QED
    BY <2>1
<1>. QED
  BY <1>1, <1>3, <1>5, <1>6, <1>7, <1>8, <1>9, <1>10

\* The last chunk has been taken: the file was read, or a read has failed.
LEMMA StopsAtEnd ==
  ASSUME TypeOK, FillStops, pending = <<>>
  PROVE  broken' = TRUE \/ read = Len(file)
<1>1. /\ read \in Nat /\ Len(file) \in Nat /\ read <= Len(file) /\ broken \in BOOLEAN
      /\ ChunkSize \in Nat \ {0}
  BY BoundsAssumption, LenProperties DEF TypeOK
<1>2. Len(pending) = 0
  BY EmptySeq
<1>3. ~(Len(pending) >= ChunkSize)
  BY <1>1, <1>2
<1>4. (Deliverable = 0 /\ broken' = broken) \/ broken' = TRUE
  BY <1>3 DEF FillStops
<1>5. Deliverable = 0 => broken = TRUE \/ read = Len(file)
  BY <1>1 DEF Deliverable, Smaller
<1>. QED
  BY <1>4, <1>5

LEMMA BrokenType ==
  ASSUME TypeOK, FillStops
  PROVE  broken' \in BOOLEAN
  BY DEF TypeOK, FillStops

-----------------------------------------------------------------------------
(* The invariant *)

LEMMA InitInv == Init => Inv
<1>. SUFFICES ASSUME Init PROVE Inv
  OBVIOUS
<1>1. file \in Seq(Bytes) /\ Len(file) \in Nat
  <2>1. PICK n \in Nat : file \in [1 .. n -> Bytes]
    BY BoundsAssumption DEF Init, Files
  <2>. QED
    BY <2>1, LenProperties
<1>2. <<>> \in Seq(Bytes) /\ Len(<<>>) = 0 /\ 0 <= ChunkSize /\ 0 \in 0 .. Len(file)
  BY <1>1, BoundsAssumption, EmptySeq
<1>3. TypeOK
  <2>1. wire \in Seq([data : Seq(Bytes), final : BOOLEAN])
    BY EmptySeq DEF Init
  <2>. QED
    BY <1>1, <1>2, <2>1 DEF Init, TypeOK
<1>4. CarriesInStep
  <2>1. ~(read > 0) /\ stored = <<>> /\ encodeCR = FALSE /\ decodeCR = FALSE
    BY DEF Init
  <2>. QED
    BY <2>1, Zenon DEF CarriesInStep
<1>5. SenderInStep
  <2>1. current = <<>> /\ wire = <<>> /\ sender = "first" /\ sender # "sent"
    BY DEF Init
  <2>. QED
    BY <1>2, <2>1, Zenon DEF SenderInStep
<1>6. PiecesFit
  <2>1. OnWire = <<>>
    <3>1. wire = <<>>
      BY DEF Init
    <3>. QED
      BY <1>3, <3>1, OnWireType, WireEmpty
  <2>2. <<>> \o <<>> = <<>>
    OBVIOUS
  <2>3. stored \o OnWire \o current \o pending = <<>>
    <3>1. stored = <<>> /\ current = <<>> /\ pending = <<>>
      BY DEF Init
    <3>. QED
      BY <2>1, <2>2, <3>1, Zenon
  <2>4. SoFar = <<>>
    <3>1. read = 0
      BY DEF Init
    <3>2. SubSeq(file, 1, 0) = <<>>
      BY SubSeqEmpty
    <3>. QED
      BY <3>1, <3>2 DEF SoFar
  <2>5. Translated(<<>>) = <<>>
    <3>1. [i \in DOMAIN <<>> |-> Rendered(<<>>, i)] = <<>>
      OBVIOUS
    <3>. QED
      BY <3>1, FlattenEmpty DEF Translated
  <2>. QED
    BY <2>3, <2>4, <2>5 DEF PiecesFit, SoFar
<1>7. OneFinalChunk
  <2>1. wire = <<>> /\ sender = "first" /\ committed = FALSE
    BY DEF Init
  <2>2. DOMAIN wire = {}
    BY <2>1
  <2>. QED
    BY <2>1, <2>2 DEF OneFinalChunk
<1>. QED
  BY <1>3, <1>4, <1>5, <1>6, <1>7 DEF Inv

\* The pieces, as one sequence each.
LEMMA PieceTypes ==
  ASSUME Inv
  PROVE  /\ stored \in Seq(Bytes) /\ OnWire \in Seq(Bytes) /\ current \in Seq(Bytes)
         /\ pending \in Seq(Bytes) /\ wire \in Seq(Chunks) /\ TypeOK
         /\ stored \o OnWire \o current \o pending = Translated(SoFar)
<1>1. TypeOK
  BY DEF Inv
<1>2. stored \o OnWire \o current \o pending = Translated(SoFar)
  BY DEF Inv, PiecesFit, SoFar
<1>3. stored \in Seq(Bytes) /\ current \in Seq(Bytes) /\ pending \in Seq(Bytes)
  BY <1>1 DEF TypeOK
<1>. QED
  BY <1>1, <1>2, <1>3, OnWireType

LEMMA FillInv ==
  ASSUME Inv, Fill
  PROVE  Inv'
<1>1. TypeOK /\ CarriesInStep /\ SenderInStep /\ OneFinalChunk
  BY DEF Inv
<1>2. PICK n \in 1 .. Deliverable :
        LET e == Encode(SubSeq(file, read + 1, read + n)) IN
        /\ read' = read + n
        /\ broken' = (broken \/ n < Deliverable)
        /\ encodeCR' = e.cr /\ pending' = pending \o e.out
  BY DEF Fill
<1>. DEFINE e == Encode(SubSeq(file, read + 1, read + n))
<1>3. /\ file' = file /\ mode' = mode /\ current' = current /\ sender' = sender
      /\ wire' = wire /\ decodeCR' = decodeCR /\ stored' = stored
      /\ committed' = committed /\ sender # "sent"
  BY DEF Fill, Reading
<1>4. /\ n \in Nat \ {0} /\ read + n <= Len(file) /\ read \in Nat /\ Len(file) \in Nat
      /\ read + n \in 0 .. Len(file) /\ read + n > 0
  <2>1. read \in Nat /\ Len(file) \in Nat /\ read <= Len(file) /\ ChunkSize \in Nat
    BY <1>1, BoundsAssumption, LenProperties DEF TypeOK
  <2>2. Deliverable \in Nat /\ Deliverable <= Len(file) - read
    BY <2>1 DEF Deliverable, Smaller
  <2>. QED
    BY <2>1, <2>2
<1>5. /\ e.out \in Seq(Bytes) /\ e.cr \in BOOLEAN
      /\ mode = "ASCII" => e.cr = (file[read + n] = "CR")
      /\ Translated(SubSeq(file, 1, read + n)) = Translated(SoFar) \o e.out
  BY <1>1, <1>4, SoFarNext
<1>6. encodeCR' = e.cr /\ pending' = pending \o e.out
  BY <1>2
<1>. HIDE DEF e
<1>7. TypeOK'
  <2>1. pending' \in Seq(Bytes)
    <3>1. PICK x \in Seq(Bytes), y \in Seq(Bytes) : x = pending /\ y = e.out
      BY <1>5, PieceTypes
    <3>2. x \o y \in Seq(Bytes)
      BY ConcatProperties
    <3>. QED
      BY <1>6, <3>1, <3>2
  <2>2. read' \in 0 .. Len(file')
    BY <1>2, <1>3, <1>4
  <2>3. broken' \in BOOLEAN /\ encodeCR' \in BOOLEAN
    BY <1>2, <1>5, <1>6
  <2>. QED
    BY <1>1, <1>3, <2>1, <2>2, <2>3 DEF TypeOK
<1>8. CarriesInStep'
  <2>1. mode = "ASCII" => (encodeCR' <=> read' > 0 /\ file'[read'] = "CR")
    BY <1>2, <1>3, <1>4, <1>5, <1>6
  <2>. QED
    BY <1>1, <1>3, <2>1 DEF CarriesInStep
<1>9. SenderInStep'
  BY <1>1, <1>3 DEF SenderInStep
<1>10. OneFinalChunk'
  BY <1>1, <1>3 DEF OneFinalChunk
<1>11. PiecesFit'
  <2>1. OnWire' = OnWire
    BY <1>3 DEF OnWire
  <2>2. Translated(SubSeq(file, 1, read))' = Translated(SubSeq(file, 1, read + n))
    BY <1>2, <1>3 DEF Translated
  <2>3. PICK a \in Seq(Bytes) : a = stored \o OnWire \o current
    <3>1. stored \o OnWire \in Seq(Bytes)
      BY PieceTypes, ConcatProperties
    <3>2. stored \o OnWire \o current \in Seq(Bytes)
      BY <3>1, PieceTypes, ConcatProperties
    <3>. QED
      BY <3>2
  <2>4. PICK x \in Seq(Bytes), y \in Seq(Bytes) : x = pending /\ y = e.out
    BY <1>5, PieceTypes
  <2>5. a \o x = Translated(SoFar)
    BY <2>3, <2>4, PieceTypes
  <2>6. (a \o x) \o y = a \o (x \o y)
    <3>1. PICK ax \in Seq(Bytes), xy \in Seq(Bytes) : ax = a \o x /\ xy = x \o y
      BY ConcatProperties
    <3>2. Split(Bytes, a, x, y, ax, xy)
      BY <3>1 DEF Split
    <3>3. Same(ax, y, a, xy)
      BY <3>2, Joined, Zenon
    <3>. QED
      BY <3>1, <3>3 DEF Same
  <2>7. a \o pending' = Translated(SubSeq(file, 1, read + n))
    BY <1>5, <1>6, <2>4, <2>5, <2>6
  <2>. QED
    BY <1>3, <2>1, <2>2, <2>3, <2>7 DEF PiecesFit
<1>. QED
  BY <1>7, <1>8, <1>9, <1>10, <1>11 DEF Inv

\* A chunk is sent that is final exactly if it is the last.
LEMMA SentInStep ==
  ASSUME Inv, sender # "sent", NEW c \in Chunks, Len(c.data) <= ChunkSize,
         wire' = Append(wire, c), committed' = committed, c.final <=> sender' = "sent"
  PROVE  OneFinalChunk'
<1>1. /\ \A i \in DOMAIN wire : /\ Len(wire[i].data) <= ChunkSize
                                /\ wire[i].final <=> i = Len(wire) /\ sender = "sent"
      /\ committed => sender = "sent"
  BY DEF Inv, OneFinalChunk
<1>2. /\ wire \in Seq(Chunks) /\ Len(wire) \in Nat /\ DOMAIN wire = 1 .. Len(wire)
  BY PieceTypes, LenProperties
<1>3. /\ wire' \in Seq(Chunks) /\ Len(wire') = Len(wire) + 1
      /\ DOMAIN wire' = 1 .. Len(wire) + 1 /\ wire' # <<>>
      /\ \A i \in 1 .. Len(wire) : wire'[i] = wire[i]
      /\ wire'[Len(wire) + 1] = c
  BY <1>2, AppendProperties
<1>4. ASSUME NEW i \in DOMAIN wire'
      PROVE  /\ Len(wire'[i].data) <= ChunkSize
             /\ wire'[i].final <=> i = Len(wire') /\ sender' = "sent"
  <2>1. CASE i = Len(wire) + 1
    BY <1>3, <2>1
  <2>2. CASE i # Len(wire) + 1
    <3>1. i \in DOMAIN wire /\ i # Len(wire') /\ wire'[i] = wire[i]
      BY <1>2, <1>3, <2>2
    <3>. QED
      BY <1>1, <3>1
  <2>. QED
    BY <2>1, <2>2
<1>5. ~committed'
  BY <1>1
<1>6. committed' \in BOOLEAN
  BY PieceTypes DEF TypeOK
<1>. QED
  BY <1>3, <1>4, <1>5, <1>6 DEF OneFinalChunk

LEMMA TakeFirstInv ==
  ASSUME Inv, TakeFirst
  PROVE  Inv'
<1>. DEFINE rest == SubSeq(pending, Len(Taken) + 1, Len(pending))
            last == [data |-> <<>>, final |-> TRUE]
<1>1. TypeOK /\ CarriesInStep /\ SenderInStep /\ OneFinalChunk
  BY DEF Inv
<1>2. /\ sender = "first" /\ FillStops /\ current' = Taken /\ pending' = rest
      /\ sender' = (IF Taken = <<>> THEN "sent" ELSE "next")
      /\ wire' = (IF Taken = <<>> THEN Append(wire, last) ELSE wire)
      /\ file' = file /\ mode' = mode /\ read' = read /\ encodeCR' = encodeCR
      /\ decodeCR' = decodeCR /\ stored' = stored /\ committed' = committed
  BY DEF TakeFirst
<1>3. current = <<>> /\ wire = <<>>
  BY <1>1, <1>2 DEF SenderInStep
<1>4. /\ Taken \in Seq(Bytes) /\ Len(Taken) <= ChunkSize /\ rest \in Seq(Bytes)
      /\ Taken \o rest = pending /\ (Taken = <<>> => pending = <<>>)
      /\ (pending = <<>> => rest = <<>>)
  BY <1>1, TakenFacts
<1>. HIDE DEF rest
<1>5. last \in Chunks /\ last.data = <<>> /\ last.final = TRUE /\ Len(last.data) <= ChunkSize
  <2>1. <<>> \in Seq(Bytes) /\ Len(<<>>) = 0 /\ 0 <= ChunkSize
    BY BoundsAssumption, EmptySeq
  <2>. QED
    BY <2>1 DEF Chunks
<1>. HIDE DEF last
<1>6. wire' \in Seq(Chunks)
  BY <1>2, <1>5, PieceTypes, AppendProperties
<1>7. TypeOK'
  <2>1. broken' \in BOOLEAN
    BY <1>1, <1>2, BrokenType
  <2>2. sender' \in {"first", "next", "sent"}
    BY <1>2
  <2>3. wire' \in Seq([data : Seq(Bytes), final : BOOLEAN])
    BY <1>6 DEF Chunks
  <2>4. current' \in Seq(Bytes) /\ pending' \in Seq(Bytes)
    BY <1>2, <1>4
  <2>. QED
    BY <1>1, <1>2, <2>1, <2>2, <2>3, <2>4 DEF TypeOK
<1>8. CarriesInStep'
  BY <1>1, <1>2 DEF CarriesInStep
<1>9. SenderInStep'
  <2>1. CASE Taken = <<>>
    <3>1. broken' = TRUE \/ read = Len(file)
      BY <1>1, <1>2, <1>4, <2>1, StopsAtEnd
    <3>2. sender' = "sent" /\ current' = <<>> /\ pending' = <<>>
      BY <1>2, <1>4, <2>1
    <3>3. Len(current') <= ChunkSize
      BY <1>2, <1>4
    <3>4. sender' # "first"
      BY <3>2
    <3>. QED
      BY <1>2, <3>1, <3>2, <3>3, <3>4 DEF SenderInStep
  <2>2. CASE Taken # <<>>
    <3>1. sender' = "next"
      BY <1>2, <2>2
    <3>. QED
      BY <1>2, <1>4, <3>1 DEF SenderInStep
  <2>. QED
    BY <2>1, <2>2
<1>10. OneFinalChunk'
  <2>1. CASE Taken = <<>>
    <3>1. wire' = Append(wire, last) /\ (last.final <=> sender' = "sent")
      BY <1>2, <1>5, <2>1
    <3>2. sender # "sent"
      BY <1>2
    <3>. QED
      BY <1>2, <1>5, <3>1, <3>2, SentInStep
  <2>2. CASE Taken # <<>>
    <3>1. wire' = <<>> /\ sender' = "next" /\ DOMAIN wire' = {}
      BY <1>2, <1>3, <2>2
    <3>2. ~committed'
      BY <1>1, <1>2 DEF OneFinalChunk
    <3>. QED
      BY <3>1, <3>2 DEF OneFinalChunk
  <2>. QED
    BY <2>1, <2>2
<1>11. PiecesFit'
  <2>1. PICK a \in Seq(Bytes), t \in Seq(Bytes), r \in Seq(Bytes) :
          a = stored \o OnWire /\ t = Taken /\ r = rest
    <3>1. stored \o OnWire \in Seq(Bytes)
      BY PieceTypes, ConcatProperties
    <3>. QED
      BY <1>4, <3>1
  <2>2. OnWire' = OnWire
    <3>1. OnWire' = FlattenSeq(DataOf(wire'))
      BY DEF OnWire, DataOf
    <3>2. CASE Taken = <<>>
      <4>1. FlattenSeq(DataOf(wire')) = FlattenSeq(DataOf(wire)) \o <<>>
        BY <1>2, <1>5, <3>2, PieceTypes, WireAppend
      <4>2. OnWire \in Seq(Bytes) /\ OnWire = FlattenSeq(DataOf(wire))
        BY <1>1, OnWireType
      <4>. QED
        BY <3>1, <4>1, <4>2, ConcatEmptySeq
    <3>3. CASE Taken # <<>>
      <4>1. wire' = wire
        BY <1>2, <3>3
      <4>. QED
        BY <4>1 DEF OnWire
    <3>. QED
      BY <3>2, <3>3
  <2>3. a \o (t \o r) = Translated(SoFar)
    <3>1. a \o current = a
      BY <1>3, ConcatEmptySeq
    <3>2. a \o current \o pending = Translated(SoFar)
      BY <2>1, PieceTypes
    <3>. QED
      BY <1>4, <2>1, <3>1, <3>2
  <2>4. (a \o t) \o r = Translated(SoFar)
    <3>1. (a \o t) \o r = a \o (t \o r)
      <4>1. PICK at \in Seq(Bytes), tr \in Seq(Bytes) : at = a \o t /\ tr = t \o r
        BY ConcatProperties
      <4>2. Split(Bytes, a, t, r, at, tr)
        BY <4>1 DEF Split
      <4>3. Same(at, r, a, tr)
        BY <4>2, Joined, Zenon
      <4>. QED
        BY <4>1, <4>3 DEF Same
    <3>. QED
      BY <2>3, <3>1
  <2>5. Translated(SubSeq(file, 1, read))' = Translated(SoFar)
    BY <1>2 DEF Translated, SoFar
  <2>. QED
    BY <1>2, <2>1, <2>2, <2>4, <2>5 DEF PiecesFit
<1>. QED
  BY <1>7, <1>8, <1>9, <1>10, <1>11 DEF Inv

LEMMA TakeNextInv ==
  ASSUME Inv, TakeNext
  PROVE  Inv'
<1>. DEFINE rest == SubSeq(pending, Len(Taken) + 1, Len(pending))
            c == [data |-> current, final |-> Taken = <<>>]
<1>1. TypeOK /\ CarriesInStep /\ SenderInStep /\ OneFinalChunk
  BY DEF Inv
<1>2. /\ sender = "next" /\ FillStops /\ current' = Taken /\ pending' = rest
      /\ sender' = (IF Taken = <<>> THEN "sent" ELSE "next")
      /\ wire' = Append(wire, c)
      /\ file' = file /\ mode' = mode /\ read' = read /\ encodeCR' = encodeCR
      /\ decodeCR' = decodeCR /\ stored' = stored /\ committed' = committed
  BY DEF TakeNext
<1>3. /\ Taken \in Seq(Bytes) /\ Len(Taken) <= ChunkSize /\ rest \in Seq(Bytes)
      /\ Taken \o rest = pending /\ (Taken = <<>> => pending = <<>>)
      /\ (pending = <<>> => rest = <<>>)
  BY <1>1, TakenFacts
<1>. HIDE DEF rest
<1>4. /\ c \in Chunks /\ c.data = current /\ c.final = (Taken = <<>>)
      /\ Len(c.data) <= ChunkSize
  <2>1. current \in Seq(Bytes) /\ Len(current) <= ChunkSize
    BY <1>1 DEF TypeOK, SenderInStep
  <2>. QED
    BY <2>1 DEF Chunks
<1>. HIDE DEF c
<1>5. wire' \in Seq(Chunks)
  BY <1>2, <1>4, PieceTypes, AppendProperties
<1>6. TypeOK'
  <2>1. broken' \in BOOLEAN
    BY <1>1, <1>2, BrokenType
  <2>2. sender' \in {"first", "next", "sent"}
    BY <1>2
  <2>3. wire' \in Seq([data : Seq(Bytes), final : BOOLEAN])
    BY <1>5 DEF Chunks
  <2>4. current' \in Seq(Bytes) /\ pending' \in Seq(Bytes)
    BY <1>2, <1>3
  <2>. QED
    BY <1>1, <1>2, <2>1, <2>2, <2>3, <2>4 DEF TypeOK
<1>7. CarriesInStep'
  BY <1>1, <1>2 DEF CarriesInStep
<1>8. SenderInStep'
  <2>1. CASE Taken = <<>>
    <3>1. broken' = TRUE \/ read = Len(file)
      BY <1>1, <1>2, <1>3, <2>1, StopsAtEnd
    <3>2. sender' = "sent" /\ current' = <<>> /\ pending' = <<>>
      BY <1>2, <1>3, <2>1
    <3>3. Len(current') <= ChunkSize
      BY <1>2, <1>3
    <3>4. sender' # "first"
      BY <3>2
    <3>. QED
      BY <1>2, <3>1, <3>2, <3>3, <3>4 DEF SenderInStep
  <2>2. CASE Taken # <<>>
    <3>1. sender' = "next"
      BY <1>2, <2>2
    <3>. QED
      BY <1>2, <1>3, <3>1 DEF SenderInStep
  <2>. QED
    BY <2>1, <2>2
<1>9. OneFinalChunk'
  <2>1. c.final <=> sender' = "sent"
    BY <1>2, <1>4
  <2>2. sender # "sent"
    BY <1>2
  <2>. QED
    BY <1>2, <1>4, <2>1, <2>2, SentInStep
<1>10. PiecesFit'
  <2>1. PICK x \in Seq(Bytes), y \in Seq(Bytes), z \in Seq(Bytes),
             t \in Seq(Bytes), r \in Seq(Bytes) :
          x = stored /\ y = OnWire /\ z = current /\ t = Taken /\ r = rest
    BY <1>3, PieceTypes
  <2>2. OnWire' = y \o z
    <3>1. OnWire' = FlattenSeq(DataOf(wire'))
      BY DEF OnWire, DataOf
    <3>2. FlattenSeq(DataOf(wire')) = FlattenSeq(DataOf(wire)) \o c.data
      BY <1>2, <1>4, PieceTypes, WireAppend
    <3>3. OnWire = FlattenSeq(DataOf(wire))
      BY <1>1, OnWireType
    <3>. QED
      BY <1>4, <2>1, <3>1, <3>2, <3>3
  <2>3. PICK a \in Seq(Bytes) : a = (x \o y) \o z /\ a = x \o (y \o z)
    <3>1. (x \o y) \o z = x \o (y \o z)
      <4>1. PICK xy \in Seq(Bytes), yz \in Seq(Bytes) : xy = x \o y /\ yz = y \o z
        BY ConcatProperties
      <4>2. Split(Bytes, x, y, z, xy, yz)
        BY <4>1 DEF Split
      <4>3. Same(xy, z, x, yz)
        BY <4>2, Joined, Zenon
      <4>. QED
        BY <4>1, <4>3 DEF Same
    <3>2. x \o y \in Seq(Bytes)
      BY ConcatProperties
    <3>3. (x \o y) \o z \in Seq(Bytes)
      BY <3>2, ConcatProperties
    <3>. QED
      BY <3>1, <3>3
  <2>4. a \o (t \o r) = Translated(SoFar)
    BY <1>3, <2>1, <2>3, PieceTypes
  <2>5. (a \o t) \o r = Translated(SoFar)
    <3>1. (a \o t) \o r = a \o (t \o r)
      <4>1. PICK at \in Seq(Bytes), tr \in Seq(Bytes) : at = a \o t /\ tr = t \o r
        BY ConcatProperties
      <4>2. Split(Bytes, a, t, r, at, tr)
        BY <4>1 DEF Split
      <4>3. Same(at, r, a, tr)
        BY <4>2, Joined, Zenon
      <4>. QED
        BY <4>1, <4>3 DEF Same
    <3>. QED
      BY <2>4, <3>1
  <2>6. Translated(SubSeq(file, 1, read))' = Translated(SoFar)
    BY <1>2 DEF Translated, SoFar
  <2>. QED
    BY <1>2, <2>1, <2>2, <2>3, <2>5, <2>6 DEF PiecesFit
<1>. QED
  BY <1>6, <1>7, <1>8, <1>9, <1>10 DEF Inv

\* The chunk is written as it came.
LEMMA Decoded ==
  ASSUME Inv, wire # <<>>
  PROVE  LET d == Decode(Head(wire).data)
         IN  /\ d.out = Head(wire).data /\ d.cr \in BOOLEAN
             /\ mode = "ASCII" =>
                  (d.cr <=> /\ stored \o d.out # <<>>
                            /\ (stored \o d.out)[Len(stored \o d.out)] = "CR")
<1>. DEFINE s == Head(wire).data
<1>1. PICK x \in Seq(Bytes), y \in Seq(Bytes), z \in Seq(Bytes),
           u \in Seq(Bytes), p \in Seq(Bytes) :
        /\ x = stored /\ y = s /\ z = FlattenSeq(DataOf(Tail(wire)))
        /\ u = current /\ p = pending /\ OnWire = y \o z
  <2>1. /\ s \in Seq(Bytes) /\ FlattenSeq(DataOf(Tail(wire))) \in Seq(Bytes)
        /\ FlattenSeq(DataOf(wire)) = s \o FlattenSeq(DataOf(Tail(wire)))
    BY PieceTypes, WireTail
  <2>2. OnWire = FlattenSeq(DataOf(wire))
    BY PieceTypes, OnWireType
  <2>. QED
    BY <2>1, <2>2, PieceTypes
<1>. HIDE DEF s
<1>2. mode \in Modes /\ decodeCR \in BOOLEAN
  BY PieceTypes DEF TypeOK
<1>3. CASE mode = "ASCII"
  <2>1. PICK w \in Seq(Bytes) : w = Translated(SoFar) /\ Normal(w)
    <3>1. file \in Seq(Bytes) /\ read \in 0 .. Len(file)
      BY PieceTypes DEF TypeOK
    <3>. QED
      BY <1>3, <3>1, PieceTypes, SoFarText, TextIsNormal
  <2>2. PICK xy \in Seq(Bytes), yz \in Seq(Bytes) : xy = x \o y /\ yz = y \o z
    BY ConcatProperties
  <2>3. Split(Bytes, x, y, z, xy, yz)
    BY <2>2 DEF Split
  <2>4. Same(xy, z, x, yz)
    BY <2>3, Joined, Zenon
  <2>5. PICK a \in Seq(Bytes) : a = xy \o z /\ a = x \o yz
    <3>1. xy \o z \in Seq(Bytes)
      BY ConcatProperties
    <3>. QED
      BY <2>4, <3>1 DEF Same
  <2>6. PICK b \in Seq(Bytes) : b = a \o u
    BY ConcatProperties
  <2>7. b \o p = w
    BY <1>1, <2>1, <2>2, <2>5, <2>6, PieceTypes
  <2>8. Normal(b)
    <3>1. Normal(b \o p)
      BY <2>1, <2>7
    <3>. QED
      BY <3>1, NormalPrefix
  <2>9. Normal(a)
    BY <2>6, <2>8, NormalPrefix
  <2>10. Normal(xy)
    BY <2>5, <2>9, NormalPrefix
  <2>11. Normal(x \o y) /\ (decodeCR <=> x # <<>> /\ x[Len(x)] = "CR")
    <3>1. CarriesInStep
      BY DEF Inv
    <3>. QED
      BY <1>1, <1>3, <2>2, <2>10, <3>1 DEF CarriesInStep
  <2>. DEFINE d == NormalizeToCRLF(y, decodeCR)
  <2>12. /\ d.out = y /\ d.cr \in BOOLEAN
         /\ d.cr <=> x \o y # <<>> /\ (x \o y)[Len(x \o y)] = "CR"
    BY <1>2, <2>11, DecodedChunk
  <2>13. Decode(s) = d
    BY <1>1, <1>3 DEF Decode
  <2>. HIDE DEF d
  <2>. QED
    BY <1>1, <2>12, <2>13 DEF s
<1>4. CASE mode = "Binary"
  <2>1. Decode(s) = [out |-> s, cr |-> FALSE]
    BY <1>4 DEF Decode
  <2>2. Decode(s).out = s /\ Decode(s).cr = FALSE /\ mode # "ASCII"
    BY <1>4, <2>1
  <2>. QED
    BY <2>2 DEF s
<1>. QED
  BY <1>2, <1>3, <1>4 DEF Modes

LEMMA ReceiveInv ==
  ASSUME Inv, Receive
  PROVE  Inv'
<1>. DEFINE d == Decode(Head(wire).data)
            q == Head(wire).data
<1>1. TypeOK /\ CarriesInStep /\ SenderInStep /\ OneFinalChunk
  BY DEF Inv
<1>2. /\ wire # <<>> /\ ~committed
      /\ stored' = stored \o d.out /\ decodeCR' = d.cr
      /\ committed' = Head(wire).final /\ wire' = Tail(wire)
      /\ file' = file /\ mode' = mode /\ read' = read /\ broken' = broken
      /\ encodeCR' = encodeCR /\ pending' = pending /\ current' = current
      /\ sender' = sender
  BY DEF Receive
<1>3. /\ d.out = q /\ d.cr \in BOOLEAN
      /\ mode = "ASCII" =>
           (d.cr <=> /\ stored \o d.out # <<>>
                     /\ (stored \o d.out)[Len(stored \o d.out)] = "CR")
  BY <1>2, Decoded
<1>. HIDE DEF d
<1>4. /\ wire \in Seq(Chunks) /\ Len(wire) \in Nat \ {0} /\ DOMAIN wire = 1 .. Len(wire)
      /\ Head(wire) = wire[1] /\ wire[1] \in Chunks
  BY <1>2, PieceTypes, LenProperties, EmptySeq, HeadTailProperties
<1>5. /\ wire' \in Seq(Chunks) /\ Len(wire') = Len(wire) - 1
      /\ DOMAIN wire' = 1 .. Len(wire) - 1
      /\ \A i \in 1 .. Len(wire) - 1 : wire'[i] = wire[i + 1]
  BY <1>2, <1>4, HeadTailProperties, LenProperties
<1>6. q \in Seq(Bytes) /\ stored' \in Seq(Bytes)
  <2>1. q \in Seq(Bytes)
    BY <1>2, PieceTypes, WireTail
  <2>. HIDE DEF q
  <2>2. stored \o q \in Seq(Bytes)
    BY <2>1, PieceTypes, ConcatProperties
  <2>. QED
    BY <1>2, <1>3, <2>1, <2>2
<1>7. TypeOK'
  <2>1. wire' \in Seq([data : Seq(Bytes), final : BOOLEAN])
    BY <1>5 DEF Chunks
  <2>2. committed' \in BOOLEAN /\ decodeCR' \in BOOLEAN
    BY <1>2, <1>3, <1>4 DEF Chunks
  <2>. QED
    BY <1>1, <1>2, <1>6, <2>1, <2>2 DEF TypeOK
<1>8. CarriesInStep'
  <2>1. mode' = "ASCII" =>
          (decodeCR' <=> stored' # <<>> /\ stored'[Len(stored')] = "CR")
    BY <1>2, <1>3
  <2>2. mode' = "ASCII" => (encodeCR' <=> read' > 0 /\ file'[read'] = "CR")
    BY <1>1, <1>2 DEF CarriesInStep
  <2>. QED
    BY <2>1, <2>2 DEF CarriesInStep
<1>9. SenderInStep'
  <2>1. sender # "first"
    BY <1>1, <1>2 DEF SenderInStep
  <2>. QED
    BY <1>1, <1>2, <2>1 DEF SenderInStep
<1>10. OneFinalChunk'
  <2>1. /\ \A i \in 1 .. Len(wire) :
              /\ Len(wire[i].data) <= ChunkSize
              /\ wire[i].final <=> i = Len(wire) /\ sender = "sent"
        /\ wire[1].final \in BOOLEAN
    BY <1>1, <1>4 DEF OneFinalChunk, Chunks
  <2>2. ASSUME NEW i \in DOMAIN wire'
        PROVE  /\ Len(wire'[i].data) <= ChunkSize
               /\ wire'[i].final <=> i = Len(wire') /\ sender' = "sent"
    <3>1. PICK j \in 1 .. Len(wire) : j = i + 1
      BY <1>4, <1>5
    <3>2. wire'[i] = wire[j] /\ (j = Len(wire) <=> i = Len(wire'))
      BY <1>4, <1>5, <3>1
    <3>. QED
      BY <1>2, <2>1, <3>2
  <2>3. committed' <=> Len(wire) = 1 /\ sender = "sent"
    <3>1. 1 \in 1 .. Len(wire)
      BY <1>4
    <3>2. committed' = wire[1].final
      BY <1>2, <1>4
    <3>3. wire[1].final <=> 1 = Len(wire) /\ sender = "sent"
      BY <2>1, <3>1
    <3>. QED
      BY <3>2, <3>3
  <2>4. wire' = <<>> <=> Len(wire) = 1
    <3>1. wire' = <<>> <=> Len(wire') = 0
      BY <1>5, EmptySeq
    <3>. QED
      BY <1>4, <1>5, <3>1
  <2>5. committed' \in BOOLEAN
    BY <1>2, <1>4, <2>1
  <2>6. sender' = "sent" => committed' # (wire' # <<>>)
    BY <1>2, <2>3, <2>4, <2>5
  <2>7. committed' => sender' = "sent"
    BY <1>2, <2>3
  <2>. QED
    BY <2>2, <2>6, <2>7 DEF OneFinalChunk
<1>11. PiecesFit'
  <2>1. PICK x \in Seq(Bytes), y \in Seq(Bytes), z \in Seq(Bytes) :
          /\ x = stored /\ y = q /\ z = FlattenSeq(DataOf(Tail(wire)))
          /\ FlattenSeq(DataOf(wire)) = y \o z
    BY <1>2, PieceTypes, WireTail
  <2>. HIDE DEF q
  <2>2. OnWire = y \o z
    BY <1>1, <2>1, OnWireType
  <2>3. OnWire' = z
    <3>1. OnWire' = FlattenSeq(DataOf(wire'))
      BY DEF OnWire, DataOf
    <3>. QED
      BY <1>2, <2>1, <3>1
  <2>4. PICK xy \in Seq(Bytes), yz \in Seq(Bytes) : xy = x \o y /\ yz = y \o z
    BY ConcatProperties
  <2>5. Split(Bytes, x, y, z, xy, yz)
    BY <2>4 DEF Split
  <2>6. Same(xy, z, x, yz)
    BY <2>5, Joined, Zenon
  <2>7. stored' = xy
    BY <1>2, <1>3, <2>1, <2>4
  <2>8. stored' \o OnWire' = stored \o OnWire
    BY <2>1, <2>2, <2>3, <2>4, <2>6, <2>7 DEF Same
  <2>9. Translated(SubSeq(file, 1, read))' = Translated(SubSeq(file, 1, read))
    BY <1>2 DEF Translated
  <2>10. PiecesFit
    BY DEF Inv
  <2>. QED
    BY <1>2, <2>8, <2>9, <2>10 DEF PiecesFit
<1>. QED
  BY <1>7, <1>8, <1>9, <1>10, <1>11 DEF Inv

LEMMA StutterInv ==
  ASSUME Inv, UNCHANGED vars
  PROVE  Inv'
<1>1. OnWire' = OnWire
  BY DEF vars, OnWire
<1>2. Translated(SubSeq(file, 1, read))' = Translated(SubSeq(file, 1, read))
  BY DEF vars, Translated
<1>3. PiecesFit'
  BY <1>1, <1>2 DEF Inv, PiecesFit, vars
<1>4. TypeOK' /\ CarriesInStep' /\ SenderInStep' /\ OneFinalChunk'
  BY DEF Inv, vars, TypeOK, CarriesInStep, SenderInStep, OneFinalChunk
<1>. QED
  BY <1>3, <1>4 DEF Inv

LEMMA NextInv == Inv /\ [Next]_vars => Inv'
<1>1. ASSUME Inv, Fill PROVE Inv'
  BY <1>1, FillInv
<1>2. ASSUME Inv, TakeFirst PROVE Inv'
  BY <1>2, TakeFirstInv
<1>3. ASSUME Inv, TakeNext PROVE Inv'
  BY <1>3, TakeNextInv
<1>4. ASSUME Inv, Receive PROVE Inv'
  BY <1>4, ReceiveInv
<1>5. ASSUME Inv, UNCHANGED vars PROVE Inv'
  BY <1>5, StutterInv
<1>6. Done => UNCHANGED vars
  BY DEF Done
<1>. QED
  BY <1>1, <1>2, <1>3, <1>4, <1>5, <1>6, Zenon DEF Next

\* The inductive invariant holds for files of any length and chunks of any size: the
\* carries of both translators, what the look ahead of the sending loop holds back, and
\* the pieces.
THEOREM Invariance == Spec => []Inv
  BY InitInv, NextInv, PTL DEF Spec

\* nextChunk, AsciiTranslator and the writing loop lose, double or translate twice no
\* byte, wherever a block of the file and a chunk of the stream end.
THEOREM EveryByteOnce == Spec => []PiecesFit
<1>1. Inv => PiecesFit
  BY DEF Inv
<1>. QED
  BY <1>1, Invariance, PTL

\* The look ahead marks exactly the last chunk as final, also when the file has no bytes
\* or ends with a full chunk, and no chunk exceeds CHUNK_SIZE.
THEOREM FinalChunkMarked == Spec => []OneFinalChunk
<1>1. Inv => OneFinalChunk
  BY DEF Inv
<1>. QED
  BY <1>1, Invariance, PTL

\* Once the receiver has committed, the file on its disk is the whole translation,
\* unless a read has failed at the sender.
THEOREM WholeFile == Spec => []CompleteUnlessBroken
<1>1. ASSUME Inv PROVE CompleteUnlessBroken
  <2>1. SUFFICES ASSUME committed, ~broken PROVE stored = Translated(file)
    BY DEF CompleteUnlessBroken
  <2>2. /\ sender = "sent" /\ wire = <<>> /\ current = <<>> /\ pending = <<>>
        /\ read = Len(file) /\ TypeOK
    <3>1. committed = TRUE /\ TypeOK /\ OneFinalChunk /\ SenderInStep
      BY <1>1, <2>1 DEF Inv, TypeOK
    <3>2. sender = "sent" /\ wire = <<>>
      BY <3>1 DEF OneFinalChunk
    <3>. QED
      BY <2>1, <3>1, <3>2 DEF SenderInStep
  <2>3. OnWire = <<>>
    BY <2>2, OnWireType, WireEmpty
  <2>4. SoFar = file
    <3>1. file \in Seq(Bytes)
      BY <2>2 DEF TypeOK
    <3>. QED
      BY <2>2, <3>1, SubSeqFull DEF SoFar
  <2>5. PICK x \in Seq(Bytes) : x = stored
    BY <1>1, PieceTypes
  <2>6. x \o <<>> = x
    BY ConcatEmptySeq
  <2>7. stored \o OnWire \o current \o pending = Translated(SoFar)
    BY <1>1, PieceTypes
  <2>. QED
    BY <2>2, <2>3, <2>4, <2>5, <2>6, <2>7, Zenon
<1>. QED
  BY <1>1, Invariance, PTL

=============================================================================
