---------------------------- MODULE SumTheorems -----------------------------
(* Induction and recursion along the naturals below a bound, and sums of        *)
(* sequences of naturals.                                                       *)
EXTENDS Integers, SequenceTheorems, WellFoundedInduction, TLAPS

LEMMA Least ==
  ASSUME NEW S \in SUBSET Nat, S # {}
  PROVE  \E m \in S : \A n \in S : m <= n
<1>1. PICK m \in S : \A n \in S : ~ (<<n, m>> \in OpToRel(<, Nat))
  BY NatLessThanWellFounded, WFMin
<1>2. \A n \in S : ~ n < m
  BY <1>1 DEF OpToRel
<1> QED  BY <1>2

LEMMA Induction ==
  ASSUME NEW n \in Nat, NEW P, 0 \in P, \A i \in 0 .. n - 1 : i \in P => i + 1 \in P
  PROVE  \A i \in 0 .. n : i \in P
<1> DEFINE S == {i \in 0 .. n : i \notin P}
<1> SUFFICES ASSUME S # {} PROVE FALSE
  OBVIOUS
<1>1. S \in SUBSET Nat
  OBVIOUS
<1>2. PICK m \in S : \A i \in S : m <= i
  BY <1>1, Least
<1>3. m \in 0 .. n /\ m # 0 /\ m \notin P
  BY <1>2
<1>4. m - 1 \in 0 .. n - 1 /\ m - 1 + 1 = m
  BY <1>3
<1>5. m - 1 \notin S
  BY <1>2, <1>3, <1>4
<1>6. m - 1 \in P
  BY <1>4, <1>5
<1> QED  BY <1>3, <1>4, <1>6

Follows(f, n, base, step) == f[0] = base /\ \A i \in 1 .. n : f[i] = step[i][f[i - 1]]

LEMMA Recursion ==
  ASSUME NEW n \in Nat, NEW Y, NEW base \in Y, NEW step \in [1 .. n -> [Y -> Y]]
  PROVE  \E f \in [0 .. n -> Y] : Follows(f, n, base, step)
<1> DEFINE Good(k, f) == f[0] = base /\ \A i \in 1 .. k : f[i] = step[i][f[i - 1]]
           P == {k \in 0 .. n : \E f \in [0 .. k -> Y] : Good(k, f)}
<1>1. 0 \in P
  <2>1. /\ [i \in 0 .. 0 |-> base] \in [0 .. 0 -> Y]
        /\ Good(0, [i \in 0 .. 0 |-> base])
    OBVIOUS
  <2>2. \E f \in [0 .. 0 -> Y] : Good(0, f)
    BY <2>1
  <2> HIDE DEF Good
  <2> QED  BY <2>2
<1>2. ASSUME NEW k \in 0 .. n - 1, k \in P PROVE k + 1 \in P
  <2>1. PICK f \in [0 .. k -> Y] : Good(k, f)
    BY <1>2
  <2> DEFINE g == [i \in 0 .. k + 1 |-> IF i = k + 1 THEN step[k + 1][f[k]] ELSE f[i]]
  <2>2. g \in [0 .. k + 1 -> Y]
    <3>1. f[k] \in Y /\ step[k + 1] \in [Y -> Y]
      BY <2>1
    <3> QED  BY <2>1, <3>1
  <2>3. Good(k + 1, g)
    <3>1. g[0] = base
      BY <2>1
    <3>2. \A i \in 1 .. k + 1 : g[i] = step[i][g[i - 1]]
      BY <2>1
    <3> QED  BY <3>1, <3>2
  <2> HIDE DEF Good, g
  <2>4. \E f1 \in [0 .. k + 1 -> Y] : Good(k + 1, f1)
    BY <2>2, <2>3
  <2> QED  BY <2>4
<1>3. \A k \in 0 .. n - 1 : k \in P => k + 1 \in P
  BY <1>2
<1>4. n \in P
  <2> HIDE DEF P
  <2>1. \A k \in 0 .. n : k \in P
    BY <1>1, <1>3, Induction
  <2> QED  BY <2>1
<1> QED  BY <1>4 DEF Follows

-----------------------------------------------------------------------------
Sum(v) == LET sum[n \in 0 .. Len(v)] == IF n = 0 THEN 0 ELSE sum[n - 1] + v[n]
          IN  sum[Len(v)]

(* What the sums of the beginnings of a sequence are. *)
Sums(v, f) ==
  f \in [0 .. Len(v) -> Nat] /\ f[0] = 0 /\ \A i \in 1 .. Len(v) : f[i] = f[i - 1] + v[i]

(* Whatever runs through the sums of a sequence ends at its sum. *)
LEMMA SumsOnce ==
  ASSUME NEW v \in Seq(Nat), NEW f, Sums(v, f),
         NEW g, g[0] = 0, \A i \in 1 .. Len(v) : g[i] = g[i - 1] + v[i]
  PROVE  g[Len(v)] = f[Len(v)]
<1> DEFINE n == Len(v)
           P == {i \in 0 .. n : g[i] = f[i]}
<1>0. n \in Nat
  OBVIOUS
<1>1. 0 \in P
  BY <1>0 DEF Sums
<1>2. ASSUME NEW i \in 0 .. n - 1, i \in P PROVE i + 1 \in P
  <2>1. i + 1 \in 0 .. n /\ i + 1 \in 1 .. n /\ (i + 1) - 1 = i
    BY <1>0
  <2>2. f[i + 1] = f[i] + v[i + 1] /\ g[i + 1] = g[i] + v[i + 1]
    BY <2>1 DEF Sums
  <2> QED  BY <1>2, <2>1, <2>2
<1> HIDE DEF P
<1>3. \A i \in 0 .. n : i \in P
  BY <1>0, <1>1, <1>2, Induction
<1> QED  BY <1>0, <1>3 DEF P

LEMMA SumIs ==
  ASSUME NEW v \in Seq(Nat), NEW f, Sums(v, f)
  PROVE  Sum(v) = f[Len(v)]
<1> DEFINE n == Len(v)
           F(g) == g = [i \in 0 .. n |-> IF i = 0 THEN 0 ELSE g[i - 1] + v[i]]
           g == CHOOSE g : F(g)
<1>0. n \in Nat
  OBVIOUS
<1>1. F(f)
  BY DEF Sums
<1>2. F(g)
  BY <1>1
<1>3. Sum(v) = g[n]
  BY DEF Sum
<1> HIDE DEF g
<1>4. g[0] = 0 /\ \A i \in 1 .. n : g[i] = g[i - 1] + v[i]
  BY <1>0, <1>2
<1> QED  BY <1>3, <1>4, SumsOnce

(* Every sequence of naturals has its sums. *)
LEMMA SumsThere ==
  ASSUME NEW v \in Seq(Nat)
  PROVE  \E f : Sums(v, f)
<1> DEFINE n == Len(v)
           step == [i \in 1 .. n |-> [x \in Nat |-> x + v[i]]]
<1>1. n \in Nat /\ step \in [1 .. n -> [Nat -> Nat]]
  <2>1. \A i \in 1 .. n : v[i] \in Nat
    OBVIOUS
  <2> QED  BY <2>1
<1>2. \E f \in [0 .. n -> Nat] : Follows(f, n, 0, step)
  <2> HIDE DEF step, n
  <2> QED  BY <1>1, Recursion
<1>3. PICK f \in [0 .. n -> Nat] : Follows(f, n, 0, step)
  BY <1>2
<1>4. ASSUME NEW i \in 1 .. n PROVE f[i] = f[i - 1] + v[i]
  <2>0. i - 1 \in 0 .. n
    BY <1>1
  <2>1. f[i - 1] \in Nat
    BY <1>3, <2>0
  <2>2. f[i] = step[i][f[i - 1]]
    BY <1>3 DEF Follows
  <2> QED  BY <2>1, <2>2
<1>5. Sums(v, f)
  BY <1>1, <1>3, <1>4 DEF Sums, Follows
<1> QED  BY <1>5

LEMMA SumNat == ASSUME NEW v \in Seq(Nat) PROVE Sum(v) \in Nat
<1>1. PICK f : Sums(v, f)
  BY SumsThere
<1> QED  BY <1>1, SumIs DEF Sums

LEMMA SumEmpty == Sum(<< >>) = 0
<1>1. Sums(<< >>, [i \in 0 .. 0 |-> 0])
  BY DEF Sums
<1> QED  BY <1>1, SumIs

LEMMA SumConcat ==
  ASSUME NEW u \in Seq(Nat), NEW v \in Seq(Nat)
  PROVE  u \o v \in Seq(Nat) /\ Sum(u \o v) = Sum(u) + Sum(v)
<1> DEFINE m == Len(u)
           n == Len(v)
<1>1. PICK f : Sums(u, f)
  BY SumsThere
<1>2. PICK g : Sums(v, g)
  BY SumsThere
<1> DEFINE h == [i \in 0 .. m + n |-> IF i <= m THEN f[i] ELSE f[m] + g[i - m]]
<1>3. u \o v \in Seq(Nat) /\ Len(u \o v) = m + n /\ m \in Nat /\ n \in Nat
      /\ \A i \in 1 .. m + n : (u \o v)[i] = IF i <= m THEN u[i] ELSE v[i - m]
  OBVIOUS
<1>4. Sums(u \o v, h)
  <2>a. f \in [0 .. m -> Nat] /\ g \in [0 .. n -> Nat] /\ m \in 0 .. m
    BY <1>1, <1>2, <1>3 DEF Sums
  <2>0. /\ f[m] \in Nat /\ \A i \in 0 .. m : f[i] \in Nat
        /\ \A i \in 0 .. n : g[i] \in Nat
    BY <2>a
  <2>1. h \in [0 .. m + n -> Nat]
    <3>1. ASSUME NEW i \in 0 .. m + n PROVE h[i] \in Nat
      <4>1. CASE i <= m
        BY <1>3, <2>0, <4>1
      <4>2. CASE ~ (i <= m)
        <5>1. i - m \in 0 .. n
          BY <1>3, <4>2
        <5>2. g[i - m] \in Nat
          BY <2>0, <5>1
        <5> QED  BY <2>0, <4>2, <5>2
      <4> QED  BY <4>1, <4>2
    <3> QED  BY <3>1
  <2>2. h[0] = 0
    BY <1>1, <1>3 DEF Sums
  <2>3. ASSUME NEW i \in 1 .. m + n PROVE h[i] = h[i - 1] + (u \o v)[i]
    <3>1. CASE i <= m
      BY <1>1, <1>3, <2>3, <3>1 DEF Sums
    <3>2. CASE i = m + 1
      BY <1>1, <1>2, <1>3, <2>3, <3>2 DEF Sums
    <3>3. CASE i > m + 1
      <4>1. i - m \in 1 .. n /\ (i - m) - 1 = (i - 1) - m /\ i - 1 \in 0 .. m + n /\ ~ (i - 1 <= m) /\ ~ (i <= m)
        BY <1>3, <3>3
      <4> DEFINE j == i - m
      <4>2. j \in 1 .. n /\ j - 1 = (i - 1) - m /\ j - 1 \in 0 .. n
        BY <4>1, <1>3
      <4>3. g[j] = g[j - 1] + v[j] /\ g[j - 1] \in Nat
        BY <1>2, <2>0, <4>2 DEF Sums
      <4>4. v[j] \in Nat
        BY <1>3, <4>2
      <4>5. h[i] = f[m] + g[j] /\ h[i - 1] = f[m] + g[j - 1] /\ (u \o v)[i] = v[j]
        BY <1>3, <4>1, <4>2
      <4> HIDE DEF j, h
      <4> QED  BY <2>0, <4>3, <4>4, <4>5
    <3> QED  BY <1>3, <3>1, <3>2, <3>3
  <2> QED  BY <1>3, <2>1, <2>2, <2>3 DEF Sums
<1>5. Sum(u \o v) = h[m + n]
  BY <1>3, <1>4, SumIs
<1>6. h[m + n] = f[m] + g[n]
  <2>1. f[m] \in Nat /\ g[0] = 0 /\ m + n \in 0 .. m + n
    BY <1>1, <1>2, <1>3 DEF Sums
  <2>2. CASE n = 0
    BY <1>3, <2>1, <2>2
  <2>3. CASE n > 0
    <3>1. ~ (m + n <= m) /\ (m + n) - m = n
      BY <1>3, <2>3
    <3> QED  BY <2>1, <3>1
  <2> QED  BY <1>3, <2>2, <2>3
<1> QED  BY <1>1, <1>2, <1>3, <1>5, <1>6, SumIs

LEMMA SumOne == ASSUME NEW x \in Nat PROVE Sum(<<x>>) = x
<1>1. Sums(<<x>>, [i \in 0 .. 1 |-> IF i = 0 THEN 0 ELSE x])
  BY DEF Sums
<1> QED  BY <1>1, SumIs

-----------------------------------------------------------------------------
(* The weight of a sequence: the sum of what w says of its elements. *)
Weights(w, s) == [n \in 1 .. Len(s) |-> w[s[n]]]
Weigh(w, s) == Sum(Weights(w, s))

LEMMA WeightsAre ==
  ASSUME NEW I, NEW w \in [I -> Nat], NEW s, s \in Seq(I)
  PROVE  /\ Weights(w, s) \in Seq(Nat) /\ Len(Weights(w, s)) = Len(s)
         /\ \A n \in 1 .. Len(s) : Weights(w, s)[n] = w[s[n]]
<1>1. \A n \in 1 .. Len(s) : s[n] \in I
  OBVIOUS
<1> QED  BY <1>1 DEF Weights

LEMMA WeightsNat ==
  ASSUME NEW I, NEW w \in [I -> Nat], NEW s \in Seq(I)
  PROVE  /\ Weights(w, s) \in Seq(Nat) /\ Len(Weights(w, s)) = Len(s) /\ Len(s) \in Nat
         /\ Weigh(w, s) \in Nat
<1>1. Weights(w, s) \in Seq(Nat) /\ Len(Weights(w, s)) = Len(s) /\ Len(s) \in Nat
  BY WeightsAre
<1> QED  BY <1>1, SumNat DEF Weigh

LEMMA WeighEmpty == ASSUME NEW w PROVE Weigh(w, << >>) = 0
<1>1. Weights(w, << >>) = << >>
  BY DEF Weights
<1> QED  BY <1>1, SumEmpty DEF Weigh

LEMMA WeighConcat ==
  ASSUME NEW I, NEW w \in [I -> Nat], NEW s \in Seq(I), NEW t \in Seq(I)
  PROVE  s \o t \in Seq(I) /\ Weigh(w, s \o t) = Weigh(w, s) + Weigh(w, t)
<1>1. s \o t \in Seq(I)
  OBVIOUS
<1>2. Weights(w, s \o t) = Weights(w, s) \o Weights(w, t)
  <2>1. Len(s \o t) = Len(s) + Len(t) /\ Len(s) \in Nat /\ Len(t) \in Nat
    OBVIOUS
  <2>2. ASSUME NEW n \in 1 .. Len(s) + Len(t)
        PROVE  (s \o t)[n] = IF n <= Len(s) THEN s[n] ELSE t[n - Len(s)]
    OBVIOUS
  <2>3. /\ Weights(w, s) \in Seq(Nat) /\ Weights(w, t) \in Seq(Nat) /\ Weights(w, s \o t) \in Seq(Nat)
        /\ Len(Weights(w, s)) = Len(s) /\ Len(Weights(w, t)) = Len(t)
        /\ Len(Weights(w, s \o t)) = Len(s) + Len(t)
        /\ \A n \in 1 .. Len(s) : Weights(w, s)[n] = w[s[n]]
        /\ \A n \in 1 .. Len(t) : Weights(w, t)[n] = w[t[n]]
        /\ \A n \in 1 .. Len(s) + Len(t) : Weights(w, s \o t)[n] = w[(s \o t)[n]]
    <3>1. \A n \in 1 .. Len(s) : s[n] \in I
      OBVIOUS
    <3>2. \A n \in 1 .. Len(t) : t[n] \in I
      OBVIOUS
    <3> DEFINE st == s \o t
    <3>3. st \in Seq(I) /\ Len(st) = Len(s) + Len(t)
      BY <1>1, <2>1
    <3> HIDE DEF st
    <3>4. \A n \in 1 .. Len(st) : st[n] \in I
      BY <3>3
    <3>5. /\ Weights(w, st) \in Seq(Nat) /\ Len(Weights(w, st)) = Len(s) + Len(t)
          /\ \A n \in 1 .. Len(s) + Len(t) : Weights(w, st)[n] = w[st[n]]
      BY <2>1, <3>3, <3>4 DEF Weights
    <3>6. /\ Weights(w, s) \in Seq(Nat) /\ Len(Weights(w, s)) = Len(s)
          /\ \A n \in 1 .. Len(s) : Weights(w, s)[n] = w[s[n]]
      BY <3>1 DEF Weights
    <3>7. /\ Weights(w, t) \in Seq(Nat) /\ Len(Weights(w, t)) = Len(t)
          /\ \A n \in 1 .. Len(t) : Weights(w, t)[n] = w[t[n]]
      BY <3>2 DEF Weights
    <3> QED  BY <3>5, <3>6, <3>7 DEF st
  <2> DEFINE a == Weights(w, s)
             b == Weights(w, t)
             c == Weights(w, s \o t)
  <2>4. /\ Len(a \o b) = Len(s) + Len(t) /\ a \o b \in Seq(Nat)
        /\ \A n \in 1 .. Len(s) + Len(t) : (a \o b)[n] = IF n <= Len(s) THEN a[n] ELSE b[n - Len(s)]
    <3>1. a \in Seq(Nat) /\ b \in Seq(Nat) /\ Len(a) = Len(s) /\ Len(b) = Len(t)
      BY <2>3
    <3> HIDE DEF a, b
    <3>2. /\ a \o b \in Seq(Nat) /\ Len(a \o b) = Len(a) + Len(b)
          /\ \A n \in 1 .. Len(a) + Len(b) : (a \o b)[n] = IF n <= Len(a) THEN a[n] ELSE b[n - Len(a)]
      BY <3>1, ConcatProperties, Zenon
    <3> QED  BY <3>1, <3>2
  <2>5. ASSUME NEW n \in 1 .. Len(s) + Len(t) PROVE c[n] = (a \o b)[n]
    <3>1. CASE n <= Len(s)
      <4>1. n \in 1 .. Len(s)
        BY <2>1, <3>1
      <4>2. c[n] = w[s[n]] /\ (a \o b)[n] = a[n] /\ a[n] = w[s[n]]
        BY <2>2, <2>3, <2>4, <3>1, <4>1
      <4> QED  BY <4>2
    <3>2. CASE ~ n <= Len(s)
      <4>1. n - Len(s) \in 1 .. Len(t)
        BY <2>1, <3>2
      <4>2. c[n] = w[t[n - Len(s)]] /\ (a \o b)[n] = b[n - Len(s)] /\ b[n - Len(s)] = w[t[n - Len(s)]]
        BY <2>2, <2>3, <2>4, <3>2, <4>1
      <4> QED  BY <4>2
    <3> QED  BY <3>1, <3>2
  <2>6. c = a \o b
    <3>1. c \in Seq(Nat) /\ Len(c) = Len(s) + Len(t)
      BY <2>3
    <3> HIDE DEF a, b, c
    <3> QED  BY <2>1, <2>4, <2>5, <3>1, SeqEqual
  <2> HIDE DEF a, b, c
  <2> QED  BY <2>6 DEF a, b, c
<1> QED  BY <1>1, <1>2, SumConcat, WeightsNat DEF Weigh

LEMMA WeighOne ==
  ASSUME NEW I, NEW w \in [I -> Nat], NEW x \in I
  PROVE  <<x>> \in Seq(I) /\ Weigh(w, <<x>>) = w[x]
<1>1. Weights(w, <<x>>) = <<w[x]>>
  BY DEF Weights
<1> QED  BY <1>1, SumOne DEF Weigh

LEMMA WeighAppend ==
  ASSUME NEW I, NEW w \in [I -> Nat], NEW s \in Seq(I), NEW x \in I
  PROVE  Append(s, x) \in Seq(I) /\ Weigh(w, Append(s, x)) = Weigh(w, s) + w[x]
<1> DEFINE d == <<x>>
<1>1. Append(s, x) = s \o d
  BY AppendIsConcat
<1>2. d \in Seq(I) /\ Weigh(w, d) = w[x]
  BY WeighOne
<1> HIDE DEF d
<1>3. s \o d \in Seq(I) /\ Weigh(w, s \o d) = Weigh(w, s) + Weigh(w, d)
  BY <1>2, WeighConcat, Zenon
<1> QED  BY <1>1, <1>2, <1>3

(* What a sequence weighs is what its parts do. *)
LEMMA WeighParts ==
  ASSUME NEW I, NEW w \in [I -> Nat], NEW s \in Seq(I), NEW n \in 0 .. Len(s)
  PROVE  /\ SubSeq(s, 1, n) \in Seq(I) /\ SubSeq(s, n + 1, Len(s)) \in Seq(I)
         /\ Weigh(w, s) = Weigh(w, SubSeq(s, 1, n)) + Weigh(w, SubSeq(s, n + 1, Len(s)))
<1>1. SubSeq(s, 1, n) \in Seq(I) /\ SubSeq(s, n + 1, Len(s)) \in Seq(I)
  OBVIOUS
<1>2. s = SubSeq(s, 1, n) \o SubSeq(s, n + 1, Len(s))
  <2>1. Len(s) \in Nat
    OBVIOUS
  <2>2. n \in 1 - 1 .. Len(s) /\ Len(s) \in n .. Len(s) /\ 1 \in 1 .. Len(s) + 1
    BY <2>1
  <2>3. SubSeq(s, 1, n) \o SubSeq(s, n + 1, Len(s)) = SubSeq(s, 1, Len(s))
    BY <2>2, ConcatAdjacentSubSeq
  <2> QED  BY <2>3, SubSeqFull
<1> QED  BY <1>1, <1>2, WeighConcat

(* Only what is said of its elements counts. *)
LEMMA WeighSame ==
  ASSUME NEW w, NEW u, NEW I, NEW s \in Seq(I), \A n \in 1 .. Len(s) : w[s[n]] = u[s[n]]
  PROVE  Weigh(w, s) = Weigh(u, s)
<1>1. Weights(w, s) = Weights(u, s)
  BY DEF Weights
<1> QED  BY <1>1 DEF Weigh

(* The weight of one of its elements, which is not there twice, is raised. *)
Raised(w, u, s, k) == Weigh(u, s) = Weigh(w, s) - w[s[k]] + u[s[k]]

LEMMA WeighRaised ==
  ASSUME NEW I, NEW w \in [I -> Nat], NEW u \in [I -> Nat], NEW s \in Seq(I), NEW k \in 1 .. Len(s),
         \A n \in 1 .. Len(s) : n # k => u[s[n]] = w[s[n]]
  PROVE  Raised(w, u, s, k)
<1> DEFINE a == SubSeq(s, 1, k - 1)
           b == SubSeq(s, k, Len(s))
           c == SubSeq(s, k + 1, Len(s))
<1>1. /\ Len(s) \in Nat /\ k - 1 \in 0 .. Len(s) /\ (k - 1) + 1 = k /\ s[k] \in I
      /\ a \in Seq(I) /\ b \in Seq(I) /\ c \in Seq(I)
  OBVIOUS
<1>2. b = <<s[k]>> \o c
  <2>1. Len(s) \in k .. Len(s)
    BY <1>1
  <2> QED  BY <2>1, SubSeqRecursiveFirst
<1>3. Weigh(w, a) = Weigh(u, a)
  <2>1. Len(a) = k - 1 /\ \A n \in 1 .. k - 1 : a[n] = s[n] /\ n \in 1 .. Len(s) /\ n # k
    BY <1>1
  <2>2. \A n \in 1 .. Len(a) : w[a[n]] = u[a[n]]
    BY <2>1
  <2> HIDE DEF a
  <2> QED  BY <1>1, <2>2, WeighSame
<1>4. Weigh(w, c) = Weigh(u, c)
  <2>1. Len(c) = Len(s) - k /\ \A n \in 1 .. Len(s) - k : c[n] = s[n + k] /\ n + k \in 1 .. Len(s) /\ n + k # k
    BY <1>1
  <2>2. \A n \in 1 .. Len(c) : w[c[n]] = u[c[n]]
    BY <2>1
  <2> HIDE DEF c
  <2> QED  BY <1>1, <2>2, WeighSame
<1>5. Weigh(w, s) = Weigh(w, a) + Weigh(w, b) /\ Weigh(u, s) = Weigh(u, a) + Weigh(u, b)
  BY <1>1, WeighParts
<1> HIDE DEF a, b, c
<1>6. /\ Weigh(w, b) = Weigh(w, <<s[k]>>) + Weigh(w, c) /\ Weigh(w, <<s[k]>>) = w[s[k]]
      /\ Weigh(u, b) = Weigh(u, <<s[k]>>) + Weigh(u, c) /\ Weigh(u, <<s[k]>>) = u[s[k]]
  <2> DEFINE d == <<s[k]>>
  <2>1. d \in Seq(I) /\ Weigh(w, d) = w[s[k]] /\ Weigh(u, d) = u[s[k]]
    BY <1>1, WeighOne
  <2>2. b = d \o c
    BY <1>2
  <2> HIDE DEF d
  <2>3. Weigh(w, d \o c) = Weigh(w, d) + Weigh(w, c) /\ Weigh(u, d \o c) = Weigh(u, d) + Weigh(u, c)
    BY <1>1, <2>1, WeighConcat
  <2>4. /\ Weigh(w, b) = Weigh(w, d) + Weigh(w, c) /\ Weigh(w, d) = w[s[k]]
        /\ Weigh(u, b) = Weigh(u, d) + Weigh(u, c) /\ Weigh(u, d) = u[s[k]]
    BY <2>1, <2>2, <2>3
  <2> QED  BY <2>4 DEF d
<1>7. Weigh(w, a) \in Nat /\ Weigh(w, c) \in Nat /\ w[s[k]] \in Nat /\ u[s[k]] \in Nat
  BY <1>1, WeightsNat
<1> QED  BY <1>3, <1>4, <1>5, <1>6, <1>7 DEF Raised

(* A sequence of elements without weight has none. *)
LEMMA WeighNothing ==
  ASSUME NEW I, NEW w \in [I -> Nat], NEW s \in Seq(I), \A n \in 1 .. Len(s) : w[s[n]] = 0
  PROVE  Weigh(w, s) = 0
<1> DEFINE v == Weights(w, s)
<1>1. v \in Seq(Nat) /\ Len(v) = Len(s) /\ Len(s) \in Nat
  BY WeightsNat
<1>2. \A n \in 1 .. Len(s) : v[n] = 0
  BY DEF Weights
<1> HIDE DEF v
<1>3. Sums(v, [i \in 0 .. Len(v) |-> 0])
  BY <1>1, <1>2 DEF Sums
<1>4. Sum(v) = 0
  BY <1>1, <1>3, SumIs
<1> QED  BY <1>4 DEF v, Weigh
=============================================================================
