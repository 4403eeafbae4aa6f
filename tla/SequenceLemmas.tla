--------------------------- MODULE SequenceLemmas ---------------------------
(***************************************************************************)
(* Induction over the naturals and over recursive functions, in the form   *)
(* the proofs of this project use it: what is shown of every number is a   *)
(* set of numbers, and a recursive definition is a function.               *)
(***************************************************************************)
EXTENDS Integers, SequencesExt, Filter, FiniteSetTheorems, WellFoundedInduction, TLAPS

(* Less-than on the naturals, and the least element of a set of them. *)
LEMMA LessIsWellFounded == IsWellFoundedOn({ss \in Nat \X Nat : ss[1] < ss[2]}, Nat)
BY NatLessThanWellFounded DEF OpToRel

LEMMA LeastNatural ==
    ASSUME NEW T \in SUBSET Nat, T # {}
    PROVE  \E s \in T : \A t \in T : s <= t
<1> DEFINE R == {ss \in Nat \X Nat : ss[1] < ss[2]}
<1>1. \A y, s \in Nat : y < s => <<y, s>> \in R
  OBVIOUS
<1>2. IsWellFoundedOn(R, Nat)
  BY LessIsWellFounded
<1> HIDE DEF R
<1>3. \E s \in T : \A y \in T : ~(<<y, s>> \in R)
  BY <1>2, WFMin
<1>4. \A y, s \in Nat : ~(y < s) => s <= y
  OBVIOUS
<1> QED BY <1>1, <1>3, <1>4

(* Induction up to n, for a property given as a set. *)
LEMMA InductionUpTo ==
    ASSUME NEW n \in Nat, NEW Good,
           0 \in Good, \A i \in 1..n : i - 1 \in Good => i \in Good
    PROVE  \A i \in 0..n : i \in Good
<1> DEFINE bad == {i \in 0..n : i \notin Good}
<1> SUFFICES ASSUME bad # {} PROVE FALSE
  OBVIOUS
<1>1. bad \in SUBSET Nat
  OBVIOUS
<1>2. PICK i \in bad : \A j \in bad : i <= j
  BY <1>1, LeastNatural
<1>3. i \in 1..n
  BY <1>2
<1>4. i - 1 \in 0..n /\ ~(i <= i - 1)
  BY <1>3
<1>5. i - 1 \in Good
  BY <1>2, <1>4
<1> QED BY <1>2, <1>3, <1>5

(* The n steps of a recursion over V, and a function that takes them. *)
StepsOver(n, V) == [1..n -> [V -> V]]
Takes(g, n, V, base, step) ==
    /\ g \in [0..n -> V]
    /\ g[0] = base
    /\ \A i \in 1..n : g[i] = step[i][g[i - 1]]

LEMMA Recursion ==
    ASSUME NEW n \in Nat, NEW V, NEW base \in V, NEW step \in StepsOver(n, V)
    PROVE  \E g : Takes(g, n, V, base, step)
<1> USE DEF StepsOver
<1> DEFINE Solves(g, k) == g[0] = base /\ \A i \in 1..k : g[i] = step[i][g[i - 1]]
           Good == {k \in 0..n : \E g \in [0..n -> V] : Solves(g, k)}
<1>1. 0 \in Good
  <2> DEFINE g == [i \in 0..n |-> base]
  <2>1. g \in [0..n -> V] /\ g[0] = base
    OBVIOUS
  <2>2. Solves(g, 0)
    BY <2>1
  <2> HIDE DEF g
  <2> QED BY <2>1, <2>2
<1>2. ASSUME NEW i \in 1..n, i - 1 \in Good PROVE i \in Good
  <2>1. PICK g \in [0..n -> V] : Solves(g, i - 1)
    BY <1>2
  <2> DEFINE h == [g EXCEPT ![i] = step[i][g[i - 1]]]
  <2>2. step[i][g[i - 1]] \in V
    OBVIOUS
  <2>3. h \in [0..n -> V]
    BY <2>2
  <2>4. \A j \in 0..n : h[j] = IF j = i THEN step[i][g[i - 1]] ELSE g[j]
    OBVIOUS
  <2> HIDE DEF h
  <2>5. h[0] = base /\ h[i] = step[i][g[i - 1]]
    BY <2>1, <2>4
  <2>6. ASSUME NEW j \in 1..i PROVE h[j] = step[j][h[j - 1]]
    <3>1. h[j - 1] = g[j - 1]
      BY <2>4
    <3>2. CASE j = i
      BY <2>5, <3>1, <3>2
    <3>3. CASE j # i
      <4>1. j \in 1..(i - 1) /\ h[j] = g[j]
        BY <2>4, <3>3
      <4> QED BY <2>1, <3>1, <4>1
    <3> QED BY <3>2, <3>3
  <2>7. Solves(h, i)
    BY <2>5, <2>6
  <2> QED BY <2>3, <2>7
<1> HIDE DEF Good
<1>3. \A i \in 0..n : i \in Good
  BY <1>1, <1>2, InductionUpTo
<1>4. n \in Good
  BY <1>3
<1> QED BY <1>4 DEF Good, Takes

(* It is the only one: what takes the same steps has the same values. *)
LEMMA OneRun ==
    ASSUME NEW n \in Nat, NEW V, NEW base, NEW step, NEW g, Takes(g, n, V, base, step),
           NEW h, h[0] = base, \A i \in 1..n : h[i - 1] \in V => h[i] = step[i][h[i - 1]]
    PROVE  \A i \in 0..n : h[i] = g[i]
<1> DEFINE Good == {i \in 0..n : h[i] = g[i]}
<1>1. 0 \in Good
  BY DEF Takes
<1>2. \A i \in 1..n : i - 1 \in Good => i \in Good
  BY DEF Takes
<1> HIDE DEF Good
<1>3. \A i \in 0..n : i \in Good
  BY <1>1, <1>2, InductionUpTo
<1> QED BY <1>3 DEF Good

(* SetToSeq lists every element of a finite set, and nothing else. *)
LEMMA SetToSeqLists ==
    ASSUME NEW S, IsFiniteSet(S)
    PROVE  /\ Cardinality(S) \in Nat
           /\ SetToSeq(S) \in [1..Cardinality(S) -> S]
           /\ \A x \in S : \E i \in 1..Cardinality(S) : SetToSeq(S)[i] = x
<1> DEFINE n == Cardinality(S)
           f == SetToSeq(S)
           T == {f[i] : i \in 1..n}
<1>1. n \in Nat /\ ExistsBijection(1..n, S)
  BY FS_CardinalityType
<1>2. \E g \in [1..n -> S] : IsInjective(g)
  BY <1>1 DEF ExistsBijection, Bijection, Injection
<1>3. f \in [1..n -> S] /\ IsInjective(f)
  BY <1>2 DEF SetToSeq
<1> HIDE DEF f, n
<1>4. f \in Bijection(1..n, T)
  BY <1>3 DEF Bijection, Injection, Surjection
<1>5. IsFiniteSet(1..n) /\ Cardinality(1..n) = n
  BY <1>1, FS_Interval
<1>6. Cardinality(T) = n
  BY <1>4, <1>5, FS_Bijection DEF ExistsBijection
<1>7. T = S
  BY <1>3, <1>6, FS_Subset DEF n
<1> QED BY <1>1, <1>3, <1>7 DEF f, n

(* What a filter has let through after each of the elements. *)
Lets(g, s, S, V) ==
    /\ g \in [0..Len(s) -> Seq(V)]
    /\ g[0] = <<>>
    /\ \A i \in 1..Len(s) :
          g[i] = IF s[i] \in S THEN Append(g[i - 1], s[i]) ELSE g[i - 1]

LEMMA OnlyUnfolds ==
    ASSUME NEW V, NEW s \in Seq(V), NEW S
    PROVE  \E g : Lets(g, s, S, V) /\ Only(s, S) = g[Len(s)]
<1> DEFINE n == Len(s)
           W == Seq(V)
           Next(x, i) == IF s[i] \in S THEN Append(x, s[i]) ELSE x
           step == [i \in 1..n |-> [x \in W |-> Next(x, i)]]
<1>1. n \in Nat /\ \A i \in 1..n : s[i] \in V
  OBVIOUS
<1>2. step \in StepsOver(n, W)
  BY <1>1 DEF StepsOver
<1>3. \A x \in W, i \in 1..n : step[i][x] = Next(x, i)
  OBVIOUS
<1>4. Only(s, S) = (CHOOSE g : g = [i \in 0..n |-> IF i = 0 THEN <<>> ELSE Next(g[i - 1], i)])[n]
  BY DEF Only
<1>0. <<>> \in W
  OBVIOUS
<1> HIDE DEF n, step, Next, W
<1>5. PICK g : Takes(g, n, W, <<>>, step)
  BY <1>0, <1>1, <1>2, Recursion
<1>6. /\ g \in [0..n -> W] /\ g[0] = <<>>
      /\ \A i \in 1..n : g[i] = Next(g[i - 1], i)
  BY <1>1, <1>3, <1>5 DEF Takes
<1>7. g = [i \in 0..n |-> IF i = 0 THEN <<>> ELSE Next(g[i - 1], i)]
  BY <1>1, <1>6
<1> DEFINE h == CHOOSE h : h = [i \in 0..n |-> IF i = 0 THEN <<>> ELSE Next(h[i - 1], i)]
<1>8. h = [i \in 0..n |-> IF i = 0 THEN <<>> ELSE Next(h[i - 1], i)]
  BY <1>7
<1>9. Only(s, S) = h[n]
  BY <1>4
<1> HIDE DEF h
<1>10. h[0] = <<>>
  BY <1>1, <1>8
<1>13. \A i \in 1..n : h[i - 1] \in W => h[i] = step[i][h[i - 1]]
  BY <1>1, <1>3, <1>8
<1>11. \A i \in 0..n : h[i] = g[i]
  BY <1>1, <1>5, <1>10, <1>13, OneRun
<1>12. Only(s, S) = g[n]
  BY <1>1, <1>9, <1>11
<1> QED BY <1>6, <1>12 DEF n, Next, W, Lets

LEMMA OnlyType ==
    ASSUME NEW V, NEW s \in Seq(V), NEW S
    PROVE  Only(s, S) \in Seq(V) /\ Len(Only(s, S)) <= Len(s)
<1> DEFINE n == Len(s)
<1>1. n \in Nat
  OBVIOUS
<1>0. PICK g : Lets(g, s, S, V) /\ Only(s, S) = g[n]
  BY OnlyUnfolds
<1>2. /\ g \in [0..n -> Seq(V)] /\ g[0] = <<>> /\ Only(s, S) = g[n]
      /\ \A i \in 1..n : g[i] = IF s[i] \in S THEN Append(g[i - 1], s[i]) ELSE g[i - 1]
  BY <1>0 DEF Lets
<1>3. \A i \in 1..n : s[i] \in V
  OBVIOUS
<1> HIDE DEF n
<1> DEFINE Good == {i \in 0..n : Len(g[i]) <= i}
<1>4. 0 \in Good
  BY <1>1, <1>2
<1>5. ASSUME NEW i \in 1..n, i - 1 \in Good PROVE i \in Good
  <2>0. i - 1 \in 0..n /\ i \in 0..n /\ i \in Nat
    BY <1>1
  <2>1. g[i - 1] \in Seq(V) /\ Len(g[i - 1]) <= i - 1
    BY <1>2, <1>5, <2>0
  <2>2. CASE s[i] \in S
    <3>1. g[i] = Append(g[i - 1], s[i])
      BY <1>2, <2>2
    <3>2. Len(g[i]) = Len(g[i - 1]) + 1
      BY <1>3, <2>1, <3>1
    <3> QED BY <2>0, <2>1, <3>2
  <2>3. CASE s[i] \notin S
    <3>1. g[i] = g[i - 1]
      BY <1>2, <2>3
    <3> QED BY <2>0, <2>1, <3>1
  <2> QED BY <2>2, <2>3
<1> HIDE DEF Good
<1>6. \A i \in 0..n : i \in Good
  BY <1>1, <1>4, <1>5, InductionUpTo
<1>7. n \in Good
  BY <1>1, <1>6
<1>8. Only(s, S) \in Seq(V)
  BY <1>1, <1>2
<1> QED BY <1>2, <1>7, <1>8 DEF Good, n

(* t picks from the first n elements of s, by h, those in S in their order. *)
Picks(h, t, s, S, n) ==
    /\ h \in [1..Len(t) -> 1..n]
    /\ \A j \in 1..Len(t) : t[j] = s[h[j]] /\ s[h[j]] \in S
    /\ \A j, k \in 1..Len(t) : j < k => h[j] < h[k]
    /\ \A i \in 1..n : s[i] \in S => \E j \in 1..Len(t) : h[j] = i

LEMMA OnlyPicks ==
    ASSUME NEW V, NEW s \in Seq(V), NEW S
    PROVE  \E h : Picks(h, Only(s, S), s, S, Len(s))
<1> DEFINE n == Len(s)
<1>1. n \in Nat /\ \A i \in 1..n : s[i] \in V
  OBVIOUS
<1>2. PICK g : Lets(g, s, S, V) /\ Only(s, S) = g[n]
  BY OnlyUnfolds
<1>3. /\ g \in [0..n -> Seq(V)] /\ g[0] = <<>>
      /\ \A i \in 1..n : g[i] = IF s[i] \in S THEN Append(g[i - 1], s[i]) ELSE g[i - 1]
  BY <1>2 DEF Lets
<1> HIDE DEF n
<1> DEFINE Good == {i \in 0..n : \E h : Picks(h, g[i], s, S, i)}
<1>4. 0 \in Good
  <2>1. Picks(<<>>, g[0], s, S, 0)
    BY <1>3 DEF Picks
  <2> QED BY <1>1, <2>1
<1>5. ASSUME NEW i \in 1..n, i - 1 \in Good PROVE i \in Good
  <2>1. i - 1 \in 0..n /\ i \in 0..n /\ i \in Nat
    BY <1>1
  <2>2. PICK h : Picks(h, g[i - 1], s, S, i - 1)
    BY <1>5
  <2> DEFINE t == g[i - 1]
  <2>3. t \in Seq(V) /\ Len(t) \in Nat
    BY <1>3, <2>1
  <2>4. /\ h \in [1..Len(t) -> 1..(i - 1)]
        /\ \A j \in 1..Len(t) : t[j] = s[h[j]] /\ s[h[j]] \in S
        /\ \A j, k \in 1..Len(t) : j < k => h[j] < h[k]
        /\ \A e \in 1..(i - 1) : s[e] \in S => \E j \in 1..Len(t) : h[j] = e
    BY <2>2 DEF Picks
  <2>5. CASE s[i] \notin S
    <3>1. g[i] = t
      BY <1>3, <2>5
    <3>2. \A e \in 1..i : s[e] \in S => e \in 1..(i - 1)
      BY <2>1, <2>5
    <3>3. Picks(h, g[i], s, S, i)
      BY <2>1, <2>3, <2>4, <3>1, <3>2 DEF Picks
    <3> QED BY <2>1, <3>3
  <2>6. CASE s[i] \in S
    <3> HIDE DEF t
    <3> DEFINE u == Append(t, s[i])
               f == [j \in 1..(Len(t) + 1) |-> IF j = Len(t) + 1 THEN i ELSE h[j]]
    <3>1. g[i] = u
      BY <1>3, <2>6 DEF t
    <3>2. Len(u) = Len(t) + 1 /\ u[Len(t) + 1] = s[i] /\ \A j \in 1..Len(t) : u[j] = t[j]
      BY <1>1, <2>3
    <3>3. /\ f \in [1..(Len(t) + 1) -> 1..i] /\ f[Len(t) + 1] = i
          /\ \A j \in 1..Len(t) : f[j] = h[j] /\ f[j] \in 1..(i - 1)
      <4>1. \A j \in 1..(Len(t) + 1) : j # Len(t) + 1 => j \in 1..Len(t)
        BY <2>3
      <4>2. \A j \in 1..Len(t) : j \in 1..(Len(t) + 1) /\ j # Len(t) + 1 /\ h[j] \in 1..(i - 1)
        BY <2>3, <2>4
      <4>3. \A j \in 1..(i - 1) : j \in 1..i
        BY <2>1
      <4>4. f \in [1..(Len(t) + 1) -> 1..i]
        BY <2>1, <4>1, <4>2, <4>3
      <4>5. f[Len(t) + 1] = i
        BY <2>3
      <4>6. \A j \in 1..Len(t) : f[j] = h[j] /\ f[j] \in 1..(i - 1)
        BY <4>2
      <4> QED BY <4>4, <4>5, <4>6
    <3> HIDE DEF u, f
    <3>4. \A j \in 1..(Len(t) + 1) : j \in 1..Len(t) \/ j = Len(t) + 1
      BY <2>3
    <3>5. \A j \in 1..Len(u) : u[j] = s[f[j]] /\ s[f[j]] \in S
      BY <2>4, <2>6, <3>2, <3>3, <3>4
    <3>6. ASSUME NEW j \in 1..Len(u), NEW k \in 1..Len(u), j < k PROVE f[j] < f[k]
      <4>1. j \in 1..Len(t)
        BY <2>3, <3>2, <3>6
      <4>2. CASE k = Len(t) + 1
        BY <2>1, <3>3, <4>1, <4>2
      <4>3. CASE k # Len(t) + 1
        <5>1. k \in 1..Len(t)
          BY <3>2, <3>4, <4>3
        <5> QED BY <2>4, <3>3, <3>6, <4>1, <5>1
      <4> QED BY <4>2, <4>3
    <3>7. ASSUME NEW e \in 1..i, s[e] \in S PROVE \E j \in 1..Len(u) : f[j] = e
      <4>1. CASE e = i
        BY <2>3, <3>2, <3>3, <4>1
      <4>2. CASE e # i
        <5>1. e \in 1..(i - 1)
          BY <2>1, <4>2
        <5>2. PICK j \in 1..Len(t) : h[j] = e
          BY <2>4, <3>7, <5>1
        <5> QED BY <2>3, <3>2, <3>3, <5>2
      <4> QED BY <4>1, <4>2
    <3>8. Picks(f, g[i], s, S, i)
      BY <3>1, <3>2, <3>3, <3>5, <3>6, <3>7 DEF Picks
    <3> QED BY <2>1, <3>8
  <2> QED BY <2>5, <2>6
<1> HIDE DEF Good
<1>6. \A i \in 0..n : i \in Good
  BY <1>1, <1>4, <1>5, InductionUpTo
<1>7. n \in Good
  BY <1>1, <1>6
<1> QED BY <1>2, <1>7 DEF Good, n

(* A filter that lets everything through from one element on drops a front. *)
TailFrom(t, s, m) == Len(t) = Len(s) - m /\ \A j \in 1..Len(t) : t[j] = s[m + j]

LEMMA OnlyTail ==
    ASSUME NEW V, NEW s \in Seq(V), NEW S,
           \A i, j \in 1..Len(s) : i <= j /\ s[i] \in S => s[j] \in S
    PROVE  \E m \in 0..Len(s) : TailFrom(Only(s, S), s, m) /\ \A i \in 1..m : s[i] \notin S
<1> DEFINE n == Len(s)
           t == Only(s, S)
           F == {i \in 1..n : s[i] \in S}
<1>1. n \in Nat /\ \A i \in 1..n : s[i] \in V
  OBVIOUS
<1>2. t \in Seq(V) /\ Len(t) \in Nat
  BY OnlyType
<1>3. PICK h : Picks(h, t, s, S, n)
  BY OnlyPicks
<1> HIDE DEF n, t
<1>4. /\ h \in [1..Len(t) -> 1..n]
      /\ \A j \in 1..Len(t) : t[j] = s[h[j]] /\ s[h[j]] \in S
      /\ \A j, k \in 1..Len(t) : j < k => h[j] < h[k]
      /\ \A i \in 1..n : s[i] \in S => \E j \in 1..Len(t) : h[j] = i
  BY <1>3 DEF Picks
<1>5. CASE Len(t) = 0
  <2>1. \A i \in 1..n : s[i] \notin S
    BY <1>4, <1>5
  <2>2. TailFrom(t, s, n)
    BY <1>1, <1>5 DEF TailFrom, n
  <2> QED BY <1>1, <2>1, <2>2 DEF n, t
<1>6. CASE Len(t) # 0
  <2> DEFINE m == h[1] - 1
             Good == {i \in 0..(Len(t) - 1) : h[i + 1] = m + i + 1}
  <2>1. 1 \in 1..Len(t) /\ h[1] \in 1..n /\ Len(t) - 1 \in Nat
    BY <1>2, <1>4, <1>6
  <2>2. m \in 0..n /\ 0 \in Good /\ h[1] = m + 1
    BY <1>1, <2>1
  <2> HIDE DEF m
  <2>3. ASSUME NEW i \in 1..n, i > m PROVE s[i] \in S
    <3>1. s[h[1]] \in S /\ h[1] <= i
      BY <1>4, <2>1, <2>2, <2>3
    <3> QED BY <2>1, <3>1 DEF n
  <2>4. ASSUME NEW i \in 1..(Len(t) - 1), i - 1 \in Good PROVE i \in Good
    <3>1. i \in Nat /\ i \in 1..Len(t) /\ i + 1 \in 1..Len(t) /\ i < i + 1 /\ i \in 0..(Len(t) - 1)
      BY <1>2, <2>4
    <3>2. h[i] = m + i
      BY <2>2, <2>4, <3>1
    <3>3. h[i] < h[i + 1] /\ h[i + 1] \in 1..n /\ h[i] \in 1..n
      BY <1>4, <3>1
    <3>4. m + i + 1 \in 1..n /\ m + i + 1 > m
      BY <1>1, <2>2, <3>1, <3>2, <3>3
    <3>5. PICK k \in 1..Len(t) : h[k] = m + i + 1
      BY <1>4, <2>3, <3>4
    <3>6. ~(k < i) /\ k # i
      BY <1>4, <2>2, <3>1, <3>2, <3>3, <3>5
    <3>7. ~(i + 1 < k)
      <4>1. i + 1 < k => h[i + 1] < h[k]
        BY <1>4, <3>1
      <4> QED BY <2>2, <3>1, <3>2, <3>3, <3>5, <4>1
    <3>8. k = i + 1
      BY <1>2, <3>1, <3>6, <3>7
    <3> QED BY <2>2, <3>1, <3>5, <3>8
  <2> HIDE DEF Good
  <2>5. \A i \in 0..(Len(t) - 1) : i \in Good
    BY <2>1, <2>2, <2>4, InductionUpTo
  <2>6. ASSUME NEW j \in 1..Len(t) PROVE h[j] = m + j
    <3>1. j - 1 \in Good /\ j \in Nat
      BY <1>2, <2>5
    <3> QED BY <2>2, <3>1 DEF Good
  <2>7. Len(t) \in 1..Len(t) /\ m + Len(t) \in 1..n
    BY <1>2, <1>4, <1>6, <2>6
  <2>8. m + Len(t) = n
    <3> SUFFICES ASSUME m + Len(t) # n PROVE FALSE
      OBVIOUS
    <3>1. n \in 1..n /\ n > m
      BY <1>1, <1>2, <2>2, <2>7
    <3>2. PICK k \in 1..Len(t) : h[k] = n
      BY <1>4, <2>3, <3>1
    <3> QED BY <1>1, <1>2, <2>2, <2>6, <2>7, <3>2
  <2>9. TailFrom(t, s, m)
    <3>1. Len(t) = n - m
      BY <1>1, <1>2, <2>2, <2>8
    <3>2. \A j \in 1..Len(t) : t[j] = s[m + j]
      BY <1>4, <2>6
    <3> QED BY <3>1, <3>2 DEF TailFrom, n
  <2>10. ASSUME NEW i \in 1..m PROVE s[i] \notin S
    <3>1. i \in 1..n /\ i <= m
      BY <1>1, <2>2
    <3>2. ASSUME s[i] \in S PROVE FALSE
      <4>1. PICK j \in 1..Len(t) : h[j] = i
        BY <1>4, <3>1, <3>2
      <4>2. h[j] = m + j
        BY <2>6
      <4> QED BY <1>2, <2>2, <3>1, <4>1, <4>2
    <3> QED BY <3>2
  <2> QED BY <2>2, <2>9, <2>10 DEF n, t
<1> QED BY <1>5, <1>6

LEMMA OnlyEmpty == ASSUME NEW S PROVE Only(<<>>, S) = <<>>
<1>1. <<>> \in Seq({}) /\ Len(<<>>) = 0
  OBVIOUS
<1>2. PICK g : Lets(g, <<>>, S, {}) /\ Only(<<>>, S) = g[0]
  BY <1>1, OnlyUnfolds
<1> QED BY <1>2 DEF Lets

LEMMA OnlyAppend ==
    ASSUME NEW V, NEW s \in Seq(V), NEW e \in V, NEW S
    PROVE  Only(Append(s, e), S) = IF e \in S THEN Append(Only(s, S), e) ELSE Only(s, S)
<1> DEFINE n == Len(s)
           w == Append(s, e)
<1>1. n \in Nat /\ w \in Seq(V) /\ Len(w) = n + 1 /\ w[n + 1] = e /\ \A i \in 1..n : w[i] = s[i]
  OBVIOUS
<1>2. PICK g : Lets(g, s, S, V) /\ Only(s, S) = g[n]
  BY OnlyUnfolds
<1> HIDE DEF w
<1>3. PICK h : Lets(h, w, S, V) /\ Only(w, S) = h[n + 1]
  BY <1>1, OnlyUnfolds
<1>4. /\ g[0] = <<>> /\ \A i \in 1..n : g[i] = IF s[i] \in S THEN Append(g[i - 1], s[i]) ELSE g[i - 1]
      /\ h[0] = <<>> /\ \A i \in 1..(n + 1) : h[i] = IF w[i] \in S THEN Append(h[i - 1], w[i]) ELSE h[i - 1]
  BY <1>1, <1>2, <1>3 DEF Lets
<1> HIDE DEF n
<1> DEFINE Good == {i \in 0..n : h[i] = g[i]}
<1>5. 0 \in Good
  BY <1>1, <1>4
<1>6. \A i \in 1..n : i - 1 \in Good => i \in Good
  BY <1>1, <1>4
<1> HIDE DEF Good
<1>7. \A i \in 0..n : i \in Good
  BY <1>1, <1>5, <1>6, InductionUpTo
<1>8. h[n] = g[n] /\ n + 1 \in 1..(n + 1) /\ (n + 1) - 1 = n
  BY <1>1, <1>7 DEF Good
<1>9. h[n + 1] = IF e \in S THEN Append(g[n], e) ELSE g[n]
  BY <1>1, <1>4, <1>8
<1> QED BY <1>2, <1>3, <1>9 DEF w, n

(* An element added to two sequences joined is added to the second. *)
AddedBehind(a, b, e) == Append(a \o b, e) = a \o Append(b, e)

LEMMA AppendJoin ==
    ASSUME NEW V, NEW a \in Seq(V), NEW b \in Seq(V), NEW e \in V
    PROVE  AddedBehind(a, b, e)
  BY DEF AddedBehind

(* What s keeps of itself is what t keeps, if they have the same elements in S. *)
LEMMA OnlySame ==
    ASSUME NEW V, NEW s \in Seq(V), NEW t \in Seq(V), NEW S, Len(s) = Len(t),
           \A i \in 1..Len(s) : (s[i] \in S <=> t[i] \in S) /\ (s[i] \in S => s[i] = t[i])
    PROVE  Only(s, S) = Only(t, S)
<1> DEFINE n == Len(s)
<1>1. n \in Nat /\ Len(t) = n
  OBVIOUS
<1>2. PICK g : Lets(g, s, S, V) /\ Only(s, S) = g[n]
  BY OnlyUnfolds
<1>3. PICK h : Lets(h, t, S, V) /\ Only(t, S) = h[n]
  BY <1>1, OnlyUnfolds
<1>4. /\ g[0] = <<>> /\ \A i \in 1..n : g[i] = IF s[i] \in S THEN Append(g[i - 1], s[i]) ELSE g[i - 1]
      /\ h[0] = <<>> /\ \A i \in 1..n : h[i] = IF t[i] \in S THEN Append(h[i - 1], t[i]) ELSE h[i - 1]
  BY <1>1, <1>2, <1>3 DEF Lets
<1> DEFINE Good == {i \in 0..n : h[i] = g[i]}
<1>5. 0 \in Good
  BY <1>1, <1>4
<1>6. \A i \in 1..n : i - 1 \in Good => i \in Good
  BY <1>1, <1>4
<1> HIDE DEF Good
<1>7. \A i \in 0..n : i \in Good
  BY <1>1, <1>5, <1>6, InductionUpTo
<1> QED BY <1>1, <1>2, <1>3, <1>7 DEF Good

(* A filter of two sequences joined. *)
LEMMA OnlyJoin ==
    ASSUME NEW V, NEW s \in Seq(V), NEW t \in Seq(V), NEW S
    PROVE  Only(s \o t, S) = Only(s, S) \o Only(t, S)
<1> DEFINE n == Len(s)
           m == Len(t)
           w == s \o t
<1>1. /\ n \in Nat /\ m \in Nat /\ w \in Seq(V) /\ Len(w) = n + m
      /\ \A i \in 1..n : w[i] = s[i]
      /\ \A i \in 1..m : w[n + i] = t[i] /\ t[i] \in V
  OBVIOUS
<1>2. PICK f : Lets(f, s, S, V) /\ Only(s, S) = f[n]
  BY OnlyUnfolds
<1>3. PICK g : Lets(g, t, S, V) /\ Only(t, S) = g[m]
  BY OnlyUnfolds
<1>a. Len(s) = n /\ Len(t) = m
  OBVIOUS
<1> HIDE DEF w, n, m
<1>4. PICK h : Lets(h, w, S, V) /\ Only(w, S) = h[n + m]
  <2>1. \E h : Lets(h, w, S, V) /\ Only(w, S) = h[Len(w)]
    BY <1>1, OnlyUnfolds
  <2> QED BY <1>1, <2>1
<1>f. /\ f[0] = <<>> /\ \A i \in 1..n : f[i] = IF s[i] \in S THEN Append(f[i - 1], s[i]) ELSE f[i - 1]
      /\ f[n] \in Seq(V)
  BY <1>1, <1>2, <1>a DEF Lets
<1>g. /\ g[0] = <<>> /\ \A i \in 1..m : g[i] = IF t[i] \in S THEN Append(g[i - 1], t[i]) ELSE g[i - 1]
      /\ \A i \in 0..m : g[i] \in Seq(V)
  BY <1>1, <1>3, <1>a DEF Lets
<1>h. h[0] = <<>> /\ \A i \in 1..(n + m) : h[i] = IF w[i] \in S THEN Append(h[i - 1], w[i]) ELSE h[i - 1]
  BY <1>1, <1>4 DEF Lets
<1> DEFINE Before == {i \in 0..n : h[i] = f[i]}
<1>6. 0 \in Before
  BY <1>1, <1>f, <1>h
<1>7. ASSUME NEW i \in 1..n, i - 1 \in Before PROVE i \in Before
  <2>1. i \in 0..n /\ i \in 1..(n + m) /\ w[i] = s[i] /\ h[i - 1] = f[i - 1]
    BY <1>1, <1>7
  <2> QED BY <1>f, <1>h, <2>1
<1> HIDE DEF Before
<1>8. \A i \in 0..n : i \in Before
  BY <1>1, <1>6, <1>7, InductionUpTo
<1>9. h[n] = f[n]
  BY <1>1, <1>8 DEF Before
<1> DEFINE Good == {i \in 0..m : h[n + i] = f[n] \o g[i]}
<1>10. 0 \in Good
  <2>1. n + 0 = n /\ 0 \in 0..m /\ f[n] \o <<>> = f[n]
    BY <1>1, <1>f
  <2> QED BY <1>9, <1>g, <2>1
<1>11. ASSUME NEW i \in 1..m, i - 1 \in Good PROVE i \in Good
  <2>1. /\ i \in 0..m /\ i - 1 \in 0..m /\ n + i \in 1..(n + m) /\ (n + i) - 1 = n + (i - 1)
        /\ w[n + i] = t[i] /\ t[i] \in V
    BY <1>1
  <2>2. h[n + (i - 1)] = f[n] \o g[i - 1]
    BY <1>11
  <2>3. h[n + i] = IF t[i] \in S THEN Append(f[n] \o g[i - 1], t[i]) ELSE f[n] \o g[i - 1]
    BY <1>h, <2>1, <2>2
  <2>4. Append(f[n] \o g[i - 1], t[i]) = f[n] \o Append(g[i - 1], t[i])
    <3>1. g[i - 1] \in Seq(V) /\ f[n] \in Seq(V)
      BY <1>f, <1>g, <2>1
    <3>2. AddedBehind(f[n], g[i - 1], t[i])
      BY <2>1, <3>1, AppendJoin
    <3> QED BY <3>2 DEF AddedBehind
  <2> QED BY <1>g, <2>1, <2>3, <2>4
<1> HIDE DEF Good
<1>12. \A i \in 0..m : i \in Good
  BY <1>1, <1>10, <1>11, InductionUpTo
<1>13. h[n + m] = f[n] \o g[m]
  <2>1. m \in Good
    BY <1>1, <1>12
  <2> QED BY <2>1 DEF Good
<1> QED BY <1>2, <1>3, <1>4, <1>13 DEF w, n, m

(* Everything passes, or nothing does. *)
LEMMA OnlyAll ==
    ASSUME NEW V, NEW s \in Seq(V), NEW S, \A i \in 1..Len(s) : s[i] \in S
    PROVE  Only(s, S) = s
<1>1. PICK m \in 0..Len(s) : TailFrom(Only(s, S), s, m) /\ \A i \in 1..m : s[i] \notin S
  BY OnlyTail
<1>2. m = 0
  <2>1. m # 0 => 1 \in 1..m /\ 1 \in 1..Len(s)
    OBVIOUS
  <2> QED BY <1>1, <2>1
<1>3. Only(s, S) \in Seq(V)
  BY OnlyType
<1>4. Len(Only(s, S)) = Len(s) /\ \A j \in 1..Len(s) : Only(s, S)[j] = s[j]
  <2>1. Len(s) \in Nat /\ Len(s) - 0 = Len(s) /\ \A j \in 1..Len(s) : 0 + j = j
    OBVIOUS
  <2> QED BY <1>1, <1>2, <2>1 DEF TailFrom
<1> QED BY <1>3, <1>4

LEMMA OnlyNone ==
    ASSUME NEW V, NEW s \in Seq(V), NEW S, \A i \in 1..Len(s) : s[i] \notin S
    PROVE  Only(s, S) = <<>>
<1> DEFINE t == Only(s, S)
<1>1. t \in Seq(V) /\ Len(t) \in Nat
  BY OnlyType
<1>2. PICK h : Picks(h, t, s, S, Len(s))
  BY OnlyPicks
<1> HIDE DEF t
<1>3. Len(t) = 0
  <2> SUFFICES ASSUME Len(t) # 0 PROVE FALSE
    OBVIOUS
  <2>1. 1 \in 1..Len(t)
    BY <1>1
  <2>2. h[1] \in 1..Len(s) /\ s[h[1]] \in S
    BY <1>2, <2>1 DEF Picks
  <2> QED BY <2>2
<1>4. t = <<>>
  BY <1>1, <1>3
<1> QED BY <1>4 DEF t

(* A filter of what another has let through. *)
LEMMA OnlyOnly ==
    ASSUME NEW V, NEW s \in Seq(V), NEW K, NEW S, \A i \in 1..Len(s) : s[i] \in S => s[i] \in K
    PROVE  Only(Only(s, K), S) = Only(s, S)
<1> DEFINE n == Len(s)
<1>1. n \in Nat /\ \A i \in 1..n : s[i] \in V
  OBVIOUS
<1>2. PICK f : Lets(f, s, K, V) /\ Only(s, K) = f[n]
  BY OnlyUnfolds
<1>3. PICK g : Lets(g, s, S, V) /\ Only(s, S) = g[n]
  BY OnlyUnfolds
<1>4. /\ f[0] = <<>> /\ \A i \in 1..n : f[i] = IF s[i] \in K THEN Append(f[i - 1], s[i]) ELSE f[i - 1]
      /\ g[0] = <<>> /\ \A i \in 1..n : g[i] = IF s[i] \in S THEN Append(g[i - 1], s[i]) ELSE g[i - 1]
      /\ \A i \in 0..n : f[i] \in Seq(V)
  BY <1>2, <1>3 DEF Lets
<1>0. \A d \in Seq(V), e \in V : Only(Append(d, e), S) = IF e \in S THEN Append(Only(d, S), e) ELSE Only(d, S)
  BY OnlyAppend
<1> HIDE DEF n
<1> DEFINE Good == {i \in 0..n : Only(f[i], S) = g[i]}
<1>5. 0 \in Good
  BY <1>1, <1>4, OnlyEmpty
<1>6. ASSUME NEW i \in 1..n, i - 1 \in Good PROVE i \in Good
  <2>1. i \in 0..n /\ i - 1 \in 0..n /\ f[i - 1] \in Seq(V) /\ Only(f[i - 1], S) = g[i - 1] /\ s[i] \in V
    BY <1>1, <1>4, <1>6
  <2>2. Only(Append(f[i - 1], s[i]), S) = IF s[i] \in S THEN Append(g[i - 1], s[i]) ELSE g[i - 1]
    BY <1>0, <2>1
  <2>3. s[i] \in S => s[i] \in K
    BY DEF n
  <2>4. CASE s[i] \in K
    BY <1>4, <2>1, <2>2, <2>4
  <2>5. CASE s[i] \notin K
    BY <1>4, <2>1, <2>3, <2>5
  <2> QED BY <2>4, <2>5
<1> HIDE DEF Good
<1>7. \A i \in 0..n : i \in Good
  BY <1>1, <1>5, <1>6, InductionUpTo
<1> QED BY <1>1, <1>2, <1>3, <1>7 DEF Good, n

(* The f of the places of s that are in T, filtered: what s keeps, if f changes nothing in S and all of it is in T. *)
LEMMA OnlyPlaces ==
    ASSUME NEW V, NEW s \in Seq(V), NEW S, NEW T, NEW f \in Seq(V), Len(f) = Len(s),
           \A i \in 1..Len(s) : (f[i] \in S <=> s[i] \in S) /\ (s[i] \in S => f[i] = s[i] /\ i \in T)
    PROVE  LET q == Only([i \in 1..Len(s) |-> i], T)
           IN  Only([k \in DOMAIN q |-> f[q[k]]], S) = Only(s, S)
<1> DEFINE n == Len(s)
           ids == [i \in 1..n |-> i]
           W == 1..n
           Of(q) == [k \in DOMAIN q |-> f[q[k]]]
<1>1. /\ n \in Nat /\ \A i \in 1..n : s[i] \in V /\ f[i] \in V /\ i \in W
      /\ ids \in Seq(W) /\ Len(ids) = n /\ \A i \in 1..n : ids[i] = i
  OBVIOUS
<1> HIDE DEF ids
<1>2. PICK g : Lets(g, ids, T, W) /\ Only(ids, T) = g[n]
  BY <1>1, OnlyUnfolds
<1>3. PICK h : Lets(h, s, S, V) /\ Only(s, S) = h[n]
  BY OnlyUnfolds
<1>4. /\ g[0] = <<>> /\ \A i \in 1..n : g[i] = IF i \in T THEN Append(g[i - 1], i) ELSE g[i - 1]
      /\ h[0] = <<>> /\ \A i \in 1..n : h[i] = IF s[i] \in S THEN Append(h[i - 1], s[i]) ELSE h[i - 1]
      /\ \A i \in 0..n : g[i] \in Seq(W)
  <2>1. /\ g \in [0..Len(ids) -> Seq(W)] /\ g[0] = <<>>
        /\ \A i \in 1..Len(ids) : g[i] = IF ids[i] \in T THEN Append(g[i - 1], ids[i]) ELSE g[i - 1]
    BY <1>2 DEF Lets
  <2>2. h[0] = <<>> /\ \A i \in 1..n : h[i] = IF s[i] \in S THEN Append(h[i - 1], s[i]) ELSE h[i - 1]
    BY <1>3 DEF Lets
  <2> HIDE DEF n, W
  <2> QED BY <1>1, <2>1, <2>2
<1>0. \A i \in 1..n : (f[i] \in S <=> s[i] \in S) /\ (s[i] \in S => f[i] = s[i] /\ i \in T)
  OBVIOUS
<1>8. ASSUME NEW q \in Seq(W), NEW i \in W
      PROVE  Of(q) \in Seq(V) /\ Of(Append(q, i)) = Append(Of(q), f[i])
  <2>0. Len(q) \in Nat /\ DOMAIN q = 1..Len(q) /\ \A k \in 1..Len(q) : q[k] \in W
    OBVIOUS
  <2>1. Of(q) \in Seq(V) /\ Len(Of(q)) = Len(q) /\ \A k \in 1..Len(q) : Of(q)[k] = f[q[k]]
    BY <1>1, <2>0
  <2>2. Append(q, i) \in Seq(W) /\ Len(Append(q, i)) = Len(q) + 1 /\ DOMAIN Append(q, i) = 1..(Len(q) + 1)
        /\ Append(q, i)[Len(q) + 1] = i /\ \A k \in 1..Len(q) : Append(q, i)[k] = q[k]
    OBVIOUS
  <2> DEFINE u == Append(q, i)
  <2>3. DOMAIN Of(u) = 1..(Len(q) + 1) /\ \A k \in 1..(Len(q) + 1) : Of(u)[k] = f[u[k]]
    BY <2>2
  <2> HIDE DEF u, Of
  <2>4. f[i] \in V
    BY <1>1
  <2>5. /\ Append(Of(q), f[i]) \in Seq(V) /\ Len(Append(Of(q), f[i])) = Len(q) + 1
        /\ DOMAIN Append(Of(q), f[i]) = 1..(Len(q) + 1)
        /\ \A k \in 1..Len(q) : Append(Of(q), f[i])[k] = f[q[k]]
        /\ Append(Of(q), f[i])[Len(q) + 1] = f[i]
    BY <2>0, <2>1, <2>4
  <2>6. \A k \in 1..(Len(q) + 1) : k \in 1..Len(q) \/ k = Len(q) + 1
    BY <2>0
  <2>7. \A k \in 1..(Len(q) + 1) : Of(u)[k] = Append(Of(q), f[i])[k]
    BY <2>2, <2>3, <2>5, <2>6 DEF u
  <2>8. Of(u) = [k \in 1..(Len(q) + 1) |-> Of(u)[k]]
    BY <2>3 DEF Of, u
  <2>9. Append(Of(q), f[i]) = [k \in 1..(Len(q) + 1) |-> Append(Of(q), f[i])[k]]
    BY <2>5
  <2>10. Of(u) = Append(Of(q), f[i])
    BY <2>7, <2>8, <2>9
  <2> QED BY <2>1, <2>10 DEF u
<1>11. \A d \in Seq(V), e \in V : Only(Append(d, e), S) = IF e \in S THEN Append(Only(d, S), e) ELSE Only(d, S)
  BY OnlyAppend
<1>9. Of(<<>>) = <<>>
  OBVIOUS
<1> HIDE DEF n, W, Of
<1> DEFINE Good == {i \in 0..n : Only(Of(g[i]), S) = h[i]}
<1>5. 0 \in Good
  BY <1>1, <1>4, <1>9, OnlyEmpty
<1>6. ASSUME NEW i \in 1..n, i - 1 \in Good PROVE i \in Good
  <2>1. i \in 0..n /\ i - 1 \in 0..n /\ g[i - 1] \in Seq(W) /\ Only(Of(g[i - 1]), S) = h[i - 1] /\ f[i] \in V /\ i \in W
    BY <1>1, <1>4, <1>6
  <2>2. Of(g[i - 1]) \in Seq(V) /\ Of(Append(g[i - 1], i)) = Append(Of(g[i - 1]), f[i])
    BY <1>8, <2>1
  <2>3. Only(Append(Of(g[i - 1]), f[i]), S) = IF f[i] \in S THEN Append(h[i - 1], f[i]) ELSE h[i - 1]
    <3>1. Only(Append(Of(g[i - 1]), f[i]), S) = IF f[i] \in S THEN Append(Only(Of(g[i - 1]), S), f[i]) ELSE Only(Of(g[i - 1]), S)
      BY <1>11, <2>1, <2>2
    <3> QED BY <2>1, <3>1
  <2>4. CASE i \in T
    BY <1>0, <1>4, <2>1, <2>2, <2>3, <2>4
  <2>5. CASE i \notin T
    BY <1>0, <1>4, <2>1, <2>5
  <2> QED BY <2>4, <2>5
<1> HIDE DEF Good
<1>7. \A i \in 0..n : i \in Good
  BY <1>1, <1>5, <1>6, InductionUpTo
<1>10. Only(Of(Only(ids, T)), S) = Only(s, S)
  BY <1>1, <1>2, <1>3, <1>7 DEF Good, n
<1> QED BY <1>10 DEF Of, ids, n
=============================================================================
