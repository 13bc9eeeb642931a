------------------------------ MODULE ChunkProofs ------------------------------
(***************************************************************************)
(* Proofs about Chunking, for any texts, headings and pages of Texts: that *)
(* the chunks of a text keep it and their bounds, know their pages, and    *)
(* have the title of the section they begin with.                          *)
(*                                                                         *)
(* The loops of the code are recursive functions here.  The first part     *)
(* shows, once for all, that such a function exists (Recursion) and that   *)
(* what holds at 0 and is handed on holds everywhere (Induction).  After   *)
(* that, each loop has three facts: what its function is from one round to *)
(* the next (the lemmas ...Def), an invariant of the loop (the definitions *)
(* ...Inv), and that a round keeps it.  What the loop promises follows     *)
(* from the invariant after its last round.                                *)
(***************************************************************************)
EXTENDS Texts, SequenceTheorems, FiniteSetTheorems, WellFoundedInduction, TLAPS

-----------------------------------------------------------------------------
(* Induction and recursion over data.  The library's theorems about them   *)
(* take an operator; these take a set and a function instead.              *)

\* A set of numbers that is not empty has a least one.
LEMMA Least ==
  ASSUME NEW S, S \subseteq Nat, S # {}
  PROVE  \E n \in S : \A m \in S : n <= m
<1>1. IsWellFoundedOn(OpToRel(<, Nat), Nat)
  BY NatLessThanWellFounded
<1>2. PICK n \in S : \A m \in S : ~ (<<m, n>> \in OpToRel(<, Nat))
  BY <1>1, WFMin
<1>3. \A m \in S : ~ (m < n)
  BY <1>2 DEF OpToRel
<1>. QED
  BY <1>3

\* What FiniteSetsExt calls the minimum is the least element.
LEMMA MinIsLeast ==
  ASSUME NEW S, S \subseteq Nat, S # {}
  PROVE  Min(S) \in S /\ \A m \in S : Min(S) <= m
BY Least DEF Min

\* A set with 0, and with each number up to N whose predecessor it has, has them all.
LEMMA Induction ==
  ASSUME NEW N \in Nat, NEW P, 0 \in P, \A n \in 1 .. N : n - 1 \in P => n \in P
  PROVE  \A n \in 0 .. N : n \in P
<1>. SUFFICES ASSUME (0 .. N) \ P # {} PROVE FALSE
  OBVIOUS
<1>1. PICK n \in (0 .. N) \ P : \A m \in (0 .. N) \ P : n <= m
  <2>1. (0 .. N) \ P \subseteq Nat
    OBVIOUS
  <2>. QED
    BY <2>1, Least
<1>2. n # 0 /\ n \in 1 .. N /\ n - 1 \in 0 .. N
  BY <1>1
<1>3. n - 1 \in P
  BY <1>1, <1>2
<1>. QED
  BY <1>1, <1>2, <1>3

\* A function on 0 .. n with the value zero at 0 and each other value from the one before.
Follows(g, n, S, zero, step) ==
  /\ g \in [0 .. n -> S] /\ g[0] = zero
  /\ \A m \in 1 .. n : g[m] = step[m][g[m - 1]]

\* There is one, whatever the steps are: what a recursive definition over 0 .. N means.
LEMMA Recursion ==
  ASSUME NEW N \in Nat, NEW S, NEW zero \in S, NEW step \in [1 .. N -> [S -> S]]
  PROVE  \E g : Follows(g, N, S, zero, step)
<1> DEFINE Upto(g, n) == Follows(g, n, S, zero, step)
           Has == {n \in Nat : \E g : Upto(g, n)}
<1>. USE DEF Follows
<1>1. 0 \in Has
  <2>1. Upto([i \in 0 .. 0 |-> zero], 0)
    OBVIOUS
  <2>. QED
    BY <2>1
<1>2. ASSUME NEW n \in 1 .. N, n - 1 \in Has PROVE n \in Has
  <2>1. PICK g : Upto(g, n - 1)
    BY <1>2
  <2>2. n - 1 \in 0 .. n - 1 /\ n \in Nat /\ n - 1 \in Nat
    OBVIOUS
  <2>3. g[n - 1] \in S
    BY <2>1, <2>2
  <2>4. step[n][g[n - 1]] \in S
    BY <2>3
  <2> DEFINE h == [i \in 0 .. n |-> IF i = n THEN step[n][g[n - 1]] ELSE g[i]]
  <2>5. \A i \in 0 .. n - 1 : h[i] = g[i]
    OBVIOUS
  <2>6. h[n] = step[n][g[n - 1]]
    OBVIOUS
  <2>7. h \in [0 .. n -> S]
    <3>1. \A i \in 0 .. n : i # n => i \in 0 .. n - 1
      OBVIOUS
    <3>. QED
      BY <2>1, <2>4, <3>1
  <2>8. \A m \in 1 .. n : h[m] = step[m][h[m - 1]]
    <3> TAKE m \in 1 .. n
    <3>1. CASE m = n
      BY <3>1, <2>5, <2>6, <2>2
    <3>2. CASE m # n
      <4>1. m \in 1 .. n - 1 /\ m \in 0 .. n - 1 /\ m - 1 \in 0 .. n - 1
        BY <3>2
      <4> HIDE DEF h
      <4>. QED
        BY <4>1, <2>5, <2>1
    <3>. QED
      BY <3>1, <3>2
  <2>9. h[0] = zero
    BY <2>5, <2>1
  <2>. HIDE DEF h
  <2>10. Upto(h, n)
    BY <2>7, <2>8, <2>9
  <2>. QED
    BY <2>2, <2>10
<1>3. N \in Has
  <2>. HIDE DEF Has
  <2>1. \A n \in 0 .. N : n \in Has
    BY <1>1, <1>2, Induction
  <2>. QED
    BY <2>1
<1>. QED
  BY <1>3

-----------------------------------------------------------------------------
(* Sums. *)

\* A sum of so many numbers is the sum of one less and the last of them.
LEMMA SumToDef ==
  ASSUME NEW t \in Seq(Nat)
  PROVE  /\ SumTo(t, 0) = 0
         /\ \A n \in 1 .. Len(t) : SumTo(t, n) = SumTo(t, n - 1) + t[n]
<1> DEFINE N == Len(t)
           step == [n \in 1 .. N |-> [a \in Nat |-> a + t[n]]]
           Is(g) == g = [n \in 0 .. N |-> IF n = 0 THEN 0 ELSE g[n - 1] + t[n]]
           f == CHOOSE g : Is(g)
<1>1. N \in Nat /\ \A n \in 1 .. N : t[n] \in Nat
  OBVIOUS
<1>. HIDE DEF N
<1>2. step \in [1 .. N -> [Nat -> Nat]]
  BY <1>1
<1>3. PICK g : Follows(g, N, Nat, 0, step)
  <2>1. 0 \in Nat
    OBVIOUS
  <2>. HIDE DEF step
  <2>. QED
    BY <2>1, <1>1, <1>2, Recursion
<1>4. Is(g)
  <2>1. \A n \in 1 .. N : n - 1 \in 0 .. N /\ g[n - 1] \in Nat
    BY <1>1, <1>3 DEF Follows
  <2>2. \A n \in 1 .. N : g[n] = g[n - 1] + t[n]
    BY <2>1, <1>3 DEF Follows
  <2>3. g \in [0 .. N -> Nat] /\ g[0] = 0
    BY <1>3 DEF Follows
  <2>4. \A n \in 0 .. N : n # 0 => n \in 1 .. N
    BY <1>1
  <2>. QED
    BY <2>2, <2>3, <2>4
<1>5. Is(f)
  BY <1>4
<1>6. \A n \in 0 .. N : f[n] = IF n = 0 THEN 0 ELSE f[n - 1] + t[n]
  <2>. HIDE DEF f
  <2>. QED
    BY <1>5
<1>7. \A n : SumTo(t, n) = f[n]
  BY DEF SumTo, N
<1>. HIDE DEF f
<1>8. SumTo(t, 0) = 0
  <2>1. 0 \in 0 .. N
    BY <1>1
  <2>. QED
    BY <2>1, <1>6, <1>7
<1>9. ASSUME NEW n \in 1 .. N PROVE SumTo(t, n) = SumTo(t, n - 1) + t[n]
  <2>1. n \in 0 .. N /\ n # 0
    BY <1>1
  <2>2. f[n] = f[n - 1] + t[n]
    BY <2>1, <1>6
  <2>. QED
    BY <2>2, <1>7
<1>. QED
  BY <1>8, <1>9 DEF N

\* It is a natural number, for a part of the sequence
LEMMA SumToType ==
  ASSUME NEW t \in Seq(Nat)
  PROVE  \A n \in 0 .. Len(t) : SumTo(t, n) \in Nat
<1> DEFINE P == {n \in 0 .. Len(t) : SumTo(t, n) \in Nat}
<1>1. Len(t) \in Nat /\ \A n \in 1 .. Len(t) : t[n] \in Nat
  OBVIOUS
<1>2. 0 \in P
  BY <1>1, SumToDef
<1>3. \A n \in 1 .. Len(t) : n - 1 \in P => n \in P
  BY <1>1, SumToDef
<1>. HIDE DEF P
<1>4. \A n \in 0 .. Len(t) : n \in P
  BY <1>1, <1>2, <1>3, Induction
<1>. QED
  BY <1>4 DEF P

\* and for all of it.
LEMMA SumType == \A t \in Seq(Nat) : Sum(t) \in Nat
BY SumToType DEF Sum

\* A sum is of the elements only that it sums.
LEMMA SumToSame ==
  ASSUME NEW t \in Seq(Nat), NEW u \in Seq(Nat), NEW N \in Nat, N <= Len(t), N <= Len(u),
         \A n \in 1 .. N : t[n] = u[n]
  PROVE  \A n \in 0 .. N : SumTo(t, n) = SumTo(u, n)
<1> DEFINE P == {n \in 0 .. N : SumTo(t, n) = SumTo(u, n)}
<1>1. 0 \in P
  BY SumToDef
<1>2. ASSUME NEW n \in 1 .. N, n - 1 \in P PROVE n \in P
  <2>1. n \in 1 .. Len(t) /\ n \in 1 .. Len(u) /\ t[n] = u[n]
    <3>1. PICK k \in Nat : k = Len(t)
      OBVIOUS
    <3>2. PICK l \in Nat : l = Len(u)
      OBVIOUS
    <3>3. n \in 1 .. k /\ n \in 1 .. l
      BY <3>1, <3>2
    <3>. QED
      BY <3>1, <3>2, <3>3
  <2>2. SumTo(t, n) = SumTo(t, n - 1) + t[n] /\ SumTo(u, n) = SumTo(u, n - 1) + u[n]
    BY <2>1, SumToDef
  <2>3. SumTo(t, n - 1) = SumTo(u, n - 1) /\ n \in 0 .. N
    BY <1>2
  <2>. QED
    BY <2>1, <2>2, <2>3
<1>. HIDE DEF P
<1>3. \A n \in 0 .. N : n \in P
  BY <1>1, <1>2, Induction
<1>. QED
  BY <1>3 DEF P

\* The sum of one number more
LEMMA SumAppend ==
  ASSUME NEW t \in Seq(Nat), NEW x \in Nat
  PROVE  Sum(Append(t, x)) = Sum(t) + x
<1>1. /\ Append(t, x) \in Seq(Nat) /\ Len(Append(t, x)) = Len(t) + 1 /\ Len(t) \in Nat
      /\ \A n \in 1 .. Len(t) : Append(t, x)[n] = t[n]
      /\ Append(t, x)[Len(t) + 1] = x
  OBVIOUS
<1>. DEFINE u == Append(t, x)
<1>. HIDE DEF u
<1>2. u \in Seq(Nat) /\ Len(u) = Len(t) + 1 /\ u[Len(t) + 1] = x
      /\ \A n \in 1 .. Len(t) : t[n] = u[n]
  BY <1>1 DEF u
<1>3. SumTo(t, Len(t)) = SumTo(u, Len(t))
  <2>1. Len(t) <= Len(t) /\ Len(t) <= Len(u)
    BY <1>1, <1>2
  <2>2. \A n \in 0 .. Len(t) : SumTo(t, n) = SumTo(u, n)
    BY <2>1, <1>1, <1>2, SumToSame
  <2>. QED
    BY <2>2, <1>1
<1>4. SumTo(u, Len(t) + 1) = SumTo(u, (Len(t) + 1) - 1) + u[Len(t) + 1]
  BY <1>1, <1>2, SumToDef
<1>5. (Len(t) + 1) - 1 = Len(t)
  BY <1>1
<1>. QED
  BY <1>2, <1>3, <1>4, <1>5 DEF Sum, u

\* and that of two sequences one after the other.
LEMMA SumConcat ==
  ASSUME NEW t \in Seq(Nat), NEW u \in Seq(Nat)
  PROVE  Sum(t \o u) = Sum(t) + Sum(u)
<1> DEFINE v == t \o u
           P == {n \in 0 .. Len(u) : SumTo(v, Len(t) + n) = SumTo(t, Len(t)) + SumTo(u, n)}
<1>1. /\ v \in Seq(Nat) /\ Len(v) = Len(t) + Len(u) /\ Len(t) \in Nat /\ Len(u) \in Nat
      /\ \A n \in 1 .. Len(t) : t[n] = v[n]
      /\ \A n \in 1 .. Len(u) : v[Len(t) + n] = u[n]
  OBVIOUS
<1>. HIDE DEF v
<1>2. 0 \in P
  <2>0. Len(t) <= Len(t) /\ Len(t) <= Len(v)
    BY <1>1
  <2>1. \A n \in 0 .. Len(t) : SumTo(t, n) = SumTo(v, n)
    BY <2>0, <1>1, SumToSame
  <2>2. SumTo(t, Len(t)) = SumTo(v, Len(t)) /\ SumTo(t, Len(t)) \in Nat
    BY <2>1, <1>1, SumToType
  <2>3. SumTo(u, 0) = 0 /\ 0 \in 0 .. Len(u) /\ Len(t) + 0 = Len(t)
    BY <1>1, SumToDef
  <2>4. SumTo(t, Len(t)) + 0 = SumTo(t, Len(t))
    BY <2>2
  <2>. QED
    BY <2>2, <2>3, <2>4
<1>3. ASSUME NEW n \in 1 .. Len(u), n - 1 \in P PROVE n \in P
  <2>1. Len(t) + n \in 1 .. Len(v) /\ (Len(t) + n) - 1 = Len(t) + (n - 1) /\ n \in 0 .. Len(u)
        /\ n - 1 \in 0 .. Len(u)
    BY <1>1
  <2>2. SumTo(v, Len(t) + n) = SumTo(v, (Len(t) + n) - 1) + v[Len(t) + n]
    BY <2>1, <1>1, SumToDef
  <2>3. SumTo(u, n) = SumTo(u, n - 1) + u[n]
    BY SumToDef
  <2>4. SumTo(v, Len(t) + (n - 1)) = SumTo(t, Len(t)) + SumTo(u, n - 1)
    BY <1>3
  <2>5. SumTo(t, Len(t)) \in Nat /\ SumTo(u, n - 1) \in Nat
    <3>1. Len(t) \in 0 .. Len(t)
      BY <1>1
    <3>. QED
      BY <3>1, <2>1, SumToType
  <2>7. u[n] \in Nat /\ v[Len(t) + n] = u[n]
    BY <1>1
  <2>6. SumTo(v, Len(t) + n) = (SumTo(t, Len(t)) + SumTo(u, n - 1)) + u[n]
    BY <2>1, <2>2, <2>4, <2>5, <2>7
  <2>. QED
    BY <2>1, <2>3, <2>5, <2>6, <2>7
<1>4. \A n \in 0 .. Len(u) : n \in P
  <2>. HIDE DEF P
  <2>. QED
    BY <1>1, <1>2, <1>3, Induction
<1>5. Len(u) \in P
  BY <1>1, <1>4
<1>. QED
  BY <1>1, <1>5 DEF Sum, v

-----------------------------------------------------------------------------
(* Sequences of sequences, put together. *)

\* What is put together of the first sequences, one more after the other.
Flattens(f, ss, S) ==
  /\ f \in [0 .. Len(ss) -> Seq(S)] /\ f[0] = <<>>
  /\ \A n \in 1 .. Len(ss) : f[n] = f[n - 1] \o ss[n]
  /\ FlattenSeq(ss) = f[Len(ss)]

\* What FlattenSeq returns is of this kind.
LEMMA FlattenDef ==
  ASSUME NEW S, NEW ss \in Seq(Seq(S))
  PROVE  \E f : Flattens(f, ss, S)
<1> DEFINE N == Len(ss)
           step == [n \in 1 .. N |-> [a \in Seq(S) |-> a \o ss[n]]]
           Is(g) == g = [i \in 1 .. N |-> IF i = 1 THEN ss[i] ELSE g[i - 1] \o ss[i]]
           h == CHOOSE g : Is(g)
<1>1. N \in Nat /\ \A n \in 1 .. N : ss[n] \in Seq(S)
  OBVIOUS
<1>. HIDE DEF N
<1>2. step \in [1 .. N -> [Seq(S) -> Seq(S)]]
  <2>1. \A n \in 1 .. N, a \in Seq(S) : a \o ss[n] \in Seq(S)
    BY <1>1
  <2>. QED
    BY <2>1
<1>3. PICK f : Follows(f, N, Seq(S), <<>>, step)
  <2>1. <<>> \in Seq(S)
    OBVIOUS
  <2>. HIDE DEF step
  <2>. QED
    BY <2>1, <1>1, <1>2, Recursion
<1>4. f \in [0 .. N -> Seq(S)] /\ f[0] = <<>>
  BY <1>3 DEF Follows
<1>5. \A n \in 1 .. N : f[n] = f[n - 1] \o ss[n]
  <2>1. \A n \in 1 .. N : n - 1 \in 0 .. N /\ f[n - 1] \in Seq(S)
    BY <1>1, <1>4
  <2>. QED
    BY <2>1, <1>3 DEF Follows
<1>6. FlattenSeq(ss) = f[N]
  <2>1. CASE N = 0
    <3>1. ss = <<>>
      BY <2>1 DEF N
    <3>2. FlattenSeq(ss) = ss
      BY <2>1 DEF FlattenSeq, N
    <3>. QED
      BY <3>1, <3>2, <2>1, <1>4
  <2>2. CASE N # 0
    <3> DEFINE g == [i \in 1 .. N |-> f[i]]
    <3>1. f[1] = ss[1]
      <4>1. 1 \in 1 .. N /\ 1 - 1 = 0
        BY <2>2, <1>1
      <4>2. f[1] = <<>> \o ss[1]
        BY <4>1, <1>4, <1>5
      <4>. QED
        BY <4>1, <4>2, <1>1
    <3>2. \A i \in 1 .. N : g[i] = IF i = 1 THEN ss[i] ELSE g[i - 1] \o ss[i]
      <4> TAKE i \in 1 .. N
      <4>1. i = 1 \/ i - 1 \in 1 .. N
        BY <1>1
      <4>. QED
        BY <4>1, <3>1, <1>5
    <3>3. Is(g)
      BY <3>2
    <3>. HIDE DEF g
    <3>4. Is(h)
      BY <3>3
    <3>. HIDE DEF h
    <3>5. \A i \in 1 .. N : h[i] = IF i = 1 THEN ss[i] ELSE h[i - 1] \o ss[i]
      BY <3>4
    <3> DEFINE P == {n \in 0 .. N : n = 0 \/ h[n] = f[n]}
    <3>6. 0 \in P
      BY <1>1
    <3>7. ASSUME NEW n \in 1 .. N, n - 1 \in P PROVE n \in P
      <4>1. n \in 0 .. N
        OBVIOUS
      <4>2. CASE n = 1
        BY <4>1, <4>2, <3>5, <3>1
      <4>3. CASE n # 1
        <5>1. h[n - 1] = f[n - 1]
          BY <4>3, <3>7
        <5>2. h[n] = h[n - 1] \o ss[n] /\ f[n] = f[n - 1] \o ss[n]
          BY <4>3, <3>5, <1>5
        <5>. QED
          BY <4>1, <5>1, <5>2
      <4>. QED
        BY <4>2, <4>3
    <3>8. \A n \in 0 .. N : n \in P
      <4>. HIDE DEF P
      <4>. QED
        BY <1>1, <3>6, <3>7, Induction
    <3>9. h[N] = f[N]
      BY <3>8, <2>2, <1>1
    <3>10. FlattenSeq(ss) = h[N]
      BY <2>2 DEF FlattenSeq, N, h
    <3>. QED
      BY <3>9, <3>10
  <2>. QED
    BY <2>1, <2>2
<1>7. Flattens(f, ss, S)
  BY <1>4, <1>5, <1>6 DEF Flattens, N
<1>. QED
  BY <1>7

\* Put together, sequences over a set are a sequence over it.
LEMMA FlattenType ==
  ASSUME NEW S, NEW ss \in Seq(Seq(S))
  PROVE  FlattenSeq(ss) \in Seq(S)
<1>1. PICK f : Flattens(f, ss, S)
  BY FlattenDef
<1>2. Len(ss) \in 0 .. Len(ss)
  OBVIOUS
<1>. QED
  BY <1>1, <1>2 DEF Flattens

\* No sequences make an empty one.
LEMMA FlattenEmpty == FlattenSeq(<<>>) = <<>>
BY DEF FlattenSeq

\* One sequence more comes last
LEMMA FlattenAppend ==
  ASSUME NEW S, NEW ss \in Seq(Seq(S)), NEW s \in Seq(S)
  PROVE  FlattenSeq(Append(ss, s)) = FlattenSeq(ss) \o s
<1> DEFINE tt == Append(ss, s)
           N == Len(ss)
<1>1. /\ tt \in Seq(Seq(S)) /\ Len(tt) = N + 1 /\ N \in Nat /\ tt[N + 1] = s
      /\ \A n \in 1 .. N : tt[n] = ss[n]
  OBVIOUS
<1>. HIDE DEF tt
<1>2. PICK f : Flattens(f, ss, S)
  BY FlattenDef
<1>3. PICK h : Flattens(h, tt, S)
  BY <1>1, FlattenDef
<1> DEFINE P == {n \in 0 .. N : f[n] = h[n]}
<1>4. 0 \in P
  BY <1>1, <1>2, <1>3 DEF Flattens
<1>. HIDE DEF N
<1>5. ASSUME NEW n \in 1 .. N, n - 1 \in P PROVE n \in P
  <2>1. n \in 1 .. Len(tt) /\ n \in 0 .. N /\ f[n - 1] = h[n - 1]
    BY <1>1, <1>5
  <2>2. f[n] = f[n - 1] \o ss[n]
    BY <1>2 DEF Flattens, N
  <2>3. h[n] = h[n - 1] \o tt[n]
    BY <1>3, <2>1 DEF Flattens
  <2>. QED
    BY <2>1, <2>2, <2>3, <1>1
<1>6. \A n \in 0 .. N : n \in P
  <2>. HIDE DEF P
  <2>. QED
    BY <1>1, <1>4, <1>5, Induction
<1>7. f[N] = h[N]
  BY <1>6, <1>1
<1>8. N + 1 \in 1 .. Len(tt) /\ (N + 1) - 1 = N
  BY <1>1
<1>9. h[N + 1] = h[N] \o tt[N + 1]
  BY <1>3, <1>8 DEF Flattens
<1>10. FlattenSeq(tt) = h[N + 1]
  BY <1>3, <1>1 DEF Flattens
<1>11. FlattenSeq(ss) = f[N]
  BY <1>2 DEF Flattens, N
<1>. QED
  BY <1>1, <1>7, <1>9, <1>10, <1>11 DEF tt

\* An element more at the end of two sequences is one more at the end of the second.
LEMMA ConcatAppend ==
  ASSUME NEW S, NEW s \in Seq(S), NEW t \in Seq(S), NEW e \in S
  PROVE  s \o Append(t, e) = Append(s \o t, e)
<1>1. Append(t, e) = t \o <<e>> /\ <<e>> \in Seq(S) /\ s \o t \in Seq(S)
  BY AppendIsConcat
<1>2. Append(s \o t, e) = (s \o t) \o <<e>>
  BY <1>1, AppendIsConcat
<1>. QED
  BY <1>1, <1>2, ConcatAssociative

\* and so do several.
LEMMA FlattenConcat ==
  ASSUME NEW S, NEW ss \in Seq(Seq(S)), NEW tt \in Seq(Seq(S))
  PROVE  FlattenSeq(ss \o tt) = FlattenSeq(ss) \o FlattenSeq(tt)
<1> DEFINE N == Len(tt)
           first(n) == SubSeq(tt, 1, n)
           P == {n \in 0 .. N : FlattenSeq(ss \o first(n)) = FlattenSeq(ss) \o FlattenSeq(first(n))}
<1>1. N \in Nat /\ \A n \in 0 .. N : first(n) \in Seq(Seq(S))
  OBVIOUS
<1>2. 0 \in P
  <2>1. first(0) = <<>> /\ ss \o <<>> = ss /\ 0 \in 0 .. N
    OBVIOUS
  <2>2. FlattenSeq(ss) \o <<>> = FlattenSeq(ss)
    BY FlattenType
  <2>. HIDE DEF first
  <2>. QED
    BY <2>1, <2>2, FlattenEmpty
<1>3. \A n \in 1 .. N : first(n) = Append(first(n - 1), tt[n]) /\ tt[n] \in Seq(S)
  OBVIOUS
<1>. HIDE DEF N, first
<1>4. ASSUME NEW n \in 1 .. N, n - 1 \in P PROVE n \in P
  <2>1. n \in 0 .. N /\ n - 1 \in 0 .. N
    BY <1>1
  <2>2. PICK a \in Seq(Seq(S)), e \in Seq(S) : a = first(n - 1) /\ e = tt[n]
    BY <1>1, <2>1, <1>3
  <2>3. ss \o a \in Seq(Seq(S)) /\ first(n) = Append(a, e)
    BY <2>2, <1>3
  <2>4. ss \o Append(a, e) = Append(ss \o a, e)
    BY ConcatAppend
  <2>5. FlattenSeq(Append(ss \o a, e)) = FlattenSeq(ss \o a) \o e
    BY <2>3, FlattenAppend
  <2>6. FlattenSeq(Append(a, e)) = FlattenSeq(a) \o e
    BY FlattenAppend
  <2>7. FlattenSeq(ss) \in Seq(S) /\ FlattenSeq(a) \in Seq(S)
    BY FlattenType
  <2>8. (FlattenSeq(ss) \o FlattenSeq(a)) \o e = FlattenSeq(ss) \o (FlattenSeq(a) \o e)
    BY <2>7, ConcatAssociative
  <2>9. FlattenSeq(ss \o a) = FlattenSeq(ss) \o FlattenSeq(a)
    BY <1>4, <2>2
  <2>. QED
    BY <2>1, <2>3, <2>4, <2>5, <2>6, <2>8, <2>9
<1>5. \A n \in 0 .. N : n \in P
  <2>. HIDE DEF P
  <2>. QED
    BY <1>1, <1>2, <1>4, Induction
<1>6. first(N) = tt
  BY DEF first, N
<1>7. N \in P
  BY <1>1, <1>5
<1>. QED
  BY <1>6, <1>7

-----------------------------------------------------------------------------
(* Sequences, element by element. *)

\* Sequences of any type, typed.
LEMMA SeqForms ==
  ASSUME NEW S
  PROVE  /\ <<>> \in Seq(S)
         /\ \A e \in S : <<e>> \in Seq(S) /\ Len(<<e>>) = 1 /\ <<e>>[1] = e /\ <<e>> # <<>>
         /\ \A n \in Nat : \A f \in [1 .. n -> S] : f \in Seq(S) /\ Len(f) = n
         /\ \A s \in Seq(S) : s \o <<>> = s /\ <<>> \o s = s /\ SubSeq(s, 1, 0) = <<>>
                               /\ SubSeq(s, 1, Len(s)) = s
         /\ \A s, t \in Seq(S) : s \o t \in Seq(S)
         /\ \A s \in Seq(S), e \in S :
              /\ Append(s, e) \in Seq(S) /\ Append(s, e) # <<>> /\ Append(s, e) = s \o <<e>>
         /\ \A s, t \in Seq(S), e \in S : s \o Append(t, e) = Append(s \o t, e)
<1>1. \A s \in Seq(S), e \in S :
        /\ Append(s, e) \in Seq(S) /\ Append(s, e) # <<>> /\ Append(s, e) = s \o <<e>>
  BY AppendProperties, AppendIsConcat
<1>2. \A s, t \in Seq(S), e \in S : s \o Append(t, e) = Append(s \o t, e)
  BY ConcatAppend
<1>. QED
  BY <1>1, <1>2

\* The last element of a sequence with one more.
LEMMA LastOfAppend ==
  ASSUME NEW S, NEW s \in Seq(S), NEW e \in S
  PROVE  Append(s, e) # <<>> /\ Append(s, e)[Len(Append(s, e))] = e
BY AppendProperties

\* The elements of a sequence with one more.
LEMMA ElementsOfAppend ==
  ASSUME NEW S, NEW t \in Seq(S), NEW e \in S
  PROVE  \A i \in DOMAIN Append(t, e) :
           \/ i \in DOMAIN t /\ Append(t, e)[i] = t[i]
           \/ i = Len(t) + 1 /\ Append(t, e)[i] = e
<1>1. DOMAIN Append(t, e) = 1 .. Len(t) + 1 /\ DOMAIN t = 1 .. Len(t) /\ Len(t) \in Nat
  OBVIOUS
<1>2. /\ \A i \in 1 .. Len(t) : Append(t, e)[i] = t[i]
      /\ Append(t, e)[Len(t) + 1] = e
  OBVIOUS
<1>. QED
  BY <1>1, <1>2

\* A sequence that has the elements of one and then those of another.
LEMMA ConcatIs ==
  ASSUME NEW S, NEW a \in Seq(S), NEW b \in Seq(S), NEW e \in Seq(S),
         Len(e) = Len(a) + Len(b),
         \A i \in 1 .. Len(a) : e[i] = a[i],
         \A i \in 1 .. Len(b) : e[Len(a) + i] = b[i]
  PROVE  e = a \o b
<1>1. PICK f \in Seq(S) : f = a \o b
  BY SeqForms
<1>2. Len(a) \in Nat /\ Len(b) \in Nat /\ Len(f) = Len(a) + Len(b)
  BY <1>1
<1>3. ASSUME NEW i \in 1 .. Len(e) PROVE e[i] = f[i]
  <2>1. CASE i <= Len(a)
    <3>1. f[i] = a[i] /\ i \in 1 .. Len(a)
      BY <2>1, <1>1, <1>2, ConcatProperties
    <3>. QED
      BY <3>1
  <2>2. CASE ~ (i <= Len(a))
    <3>1. i - Len(a) \in 1 .. Len(b) /\ Len(a) + (i - Len(a)) = i /\ i \in 1 .. Len(a) + Len(b)
      BY <2>2, <1>2
    <3>2. f[i] = b[i - Len(a)]
      BY <2>2, <3>1, <1>1, ConcatProperties
    <3>3. e[Len(a) + (i - Len(a))] = b[i - Len(a)]
      BY <3>1
    <3>. QED
      BY <3>1, <3>2, <3>3
  <2>. QED
    BY <2>1, <2>2
<1>4. e = f
  BY <1>2, <1>3, SeqEqual
<1>. QED
  BY <1>1, <1>4

\* The elements of two sequences one after the other.
LEMMA ConcatElements ==
  ASSUME NEW S, NEW a \in Seq(S), NEW b \in Seq(S)
  PROVE  /\ Len(a \o b) = Len(a) + Len(b)
         /\ \A i \in 1 .. Len(a) : (a \o b)[i] = a[i]
         /\ \A i \in 1 .. Len(b) : (a \o b)[Len(a) + i] = b[i]
<1>1. Len(a) \in Nat /\ Len(b) \in Nat
  OBVIOUS
<1>2. \A i \in 1 .. Len(a) + Len(b) :
        (a \o b)[i] = IF i <= Len(a) THEN a[i] ELSE b[i - Len(a)]
  BY ConcatProperties
<1>3. \A i \in 1 .. Len(a) : (a \o b)[i] = a[i]
  BY <1>1, <1>2
<1>4. ASSUME NEW i \in 1 .. Len(b) PROVE (a \o b)[Len(a) + i] = b[i]
  <2>1. Len(a) + i \in 1 .. Len(a) + Len(b) /\ ~ (Len(a) + i <= Len(a)) /\ (Len(a) + i) - Len(a) = i
    BY <1>1
  <2>. QED
    BY <2>1, <1>2
<1>5. Len(a \o b) = Len(a) + Len(b)
  OBVIOUS
<1>. QED
  BY <1>3, <1>4, <1>5

\* Each element is related to the next.
Chained(s, R) == \A i \in 1 .. Len(s) - 1 : <<s[i], s[i + 1]>> \in R

\* Two chained sequences make one when the last of the first is related to the first of the second.
LEMMA ChainedConcat ==
  ASSUME NEW S, NEW R, NEW a \in Seq(S), NEW b \in Seq(S), Chained(a, R), Chained(b, R),
         a # <<>> /\ b # <<>> => <<a[Len(a)], b[1]>> \in R
  PROVE  Chained(a \o b, R)
<1>1. Len(a) \in Nat /\ Len(b) \in Nat /\ (a # <<>> <=> Len(a) # 0) /\ (b # <<>> <=> Len(b) # 0)
  OBVIOUS
<1>2. PICK f \in Seq(S) : f = a \o b
  BY SeqForms
<1>3. /\ Len(f) = Len(a) + Len(b)
      /\ \A i \in 1 .. Len(a) : f[i] = a[i]
      /\ \A i \in 1 .. Len(b) : f[Len(a) + i] = b[i]
  BY <1>2, ConcatElements
<1>4. ASSUME NEW i \in 1 .. Len(f) - 1 PROVE <<f[i], f[i + 1]>> \in R
  <2>1. CASE i < Len(a)
    <3>1. i \in 1 .. Len(a) - 1 /\ i \in 1 .. Len(a) /\ i + 1 \in 1 .. Len(a)
      BY <2>1, <1>1
    <3>2. <<a[i], a[i + 1]>> \in R
      BY <3>1 DEF Chained
    <3>. QED
      BY <3>1, <3>2, <1>3
  <2>2. CASE i = Len(a)
    <3>1. i \in 1 .. Len(a) /\ 1 \in 1 .. Len(b) /\ Len(a) # 0 /\ Len(b) # 0
      BY <2>2, <1>1, <1>3
    <3>2. f[i] = a[Len(a)] /\ f[i + 1] = b[1]
      BY <3>1, <2>2, <1>3
    <3>. QED
      BY <3>1, <3>2, <1>1
  <2>3. CASE i > Len(a)
    <3> DEFINE j == i - Len(a)
    <3>1. j \in 1 .. Len(b) - 1 /\ j \in 1 .. Len(b) /\ j + 1 \in 1 .. Len(b)
          /\ Len(a) + j = i /\ Len(a) + (j + 1) = i + 1
      BY <2>3, <1>1, <1>3
    <3>. HIDE DEF j
    <3>2. f[Len(a) + j] = b[j] /\ f[Len(a) + (j + 1)] = b[j + 1]
      BY <3>1, <1>3
    <3>3. <<b[j], b[j + 1]>> \in R
      BY <3>1 DEF Chained
    <3>. QED
      BY <3>1, <3>2, <3>3
  <2>. QED
    BY <2>1, <2>2, <2>3, <1>1
<1>. QED
  BY <1>2, <1>4 DEF Chained

\* An element that the last is related to continues a chained sequence.
LEMMA ChainedAppend ==
  ASSUME NEW S, NEW R, NEW a \in Seq(S), NEW e \in S, Chained(a, R),
         a # <<>> => <<a[Len(a)], e>> \in R
  PROVE  Chained(Append(a, e), R)
<1>1. PICK b \in Seq(S) : b = <<e>>
  BY SeqForms
<1>2. Len(b) = 1 /\ b[1] = e
  BY <1>1
<1>3. Chained(b, R)
  BY <1>2 DEF Chained
<1>4. Chained(a \o b, R)
  BY <1>2, <1>3, ChainedConcat
<1>5. Append(a, e) = a \o b
  BY <1>1, SeqForms
<1>. QED
  BY <1>4, <1>5

\* The first and the last of what is put together.
LEMMA EndsOfConcat ==
  ASSUME NEW S, NEW a \in Seq(S), NEW b \in Seq(S)
  PROVE  /\ a # <<>> => a \o b # <<>> /\ (a \o b)[1] = a[1]
         /\ b # <<>> => a \o b # <<>> /\ (a \o b)[Len(a \o b)] = b[Len(b)]
         /\ a = <<>> => a \o b = b
<1>1. Len(a) \in Nat /\ Len(b) \in Nat /\ (a # <<>> <=> Len(a) # 0) /\ (b # <<>> <=> Len(b) # 0)
  OBVIOUS
<1>2. PICK f \in Seq(S) : f = a \o b
  BY SeqForms
<1>3. /\ Len(f) = Len(a) + Len(b)
      /\ \A i \in 1 .. Len(a) : f[i] = a[i]
      /\ \A i \in 1 .. Len(b) : f[Len(a) + i] = b[i]
  BY <1>2, ConcatElements
<1>4. f # <<>> <=> Len(f) # 0
  OBVIOUS
<1>5. Len(b) # 0 => Len(b) \in 1 .. Len(b)
  BY <1>1
<1>6. Len(a) # 0 => 1 \in 1 .. Len(a)
  BY <1>1
<1>7. a = <<>> => a \o b = b
  BY SeqForms
<1>. QED
  BY <1>1, <1>2, <1>3, <1>4, <1>5, <1>6, <1>7

\* One sequence, put together, is itself.
LEMMA FlattenOne ==
  ASSUME NEW S, NEW s \in Seq(S)
  PROVE  FlattenSeq(<<s>>) = s
<1>1. PICK e \in Seq(Seq(S)) : e = <<>>
  BY SeqForms
<1>2. FlattenSeq(Append(e, s)) = FlattenSeq(e) \o s
  BY FlattenAppend
<1>3. Append(e, s) = <<s>> /\ <<>> \o s = s
  BY <1>1
<1>. QED
  BY <1>1, <1>2, <1>3, FlattenEmpty

-----------------------------------------------------------------------------
(* Places and their tokens. *)

\* Where the pieces of the groups are, and the token counts of the places in a chunk.
Positions(groups) == {p \in Nat \X Nat : p[1] \in DOMAIN groups /\ p[2] \in DOMAIN groups[p[1]]}
Counts(chunk, groups) == [i \in DOMAIN chunk |-> groups[chunk[i][1]][chunk[i][2]]]

\* The tokens of a chunk are the sum of its counts.
LEMMA CountsType ==
  ASSUME NEW groups \in Seq(Seq(Nat)), NEW chunk \in Seq(Positions(groups))
  PROVE  /\ Counts(chunk, groups) \in Seq(Nat) /\ Len(Counts(chunk, groups)) = Len(chunk)
         /\ TokensOf(chunk, groups) = Sum(Counts(chunk, groups)) /\ TokensOf(chunk, groups) \in Nat
<1>1. Len(chunk) \in Nat /\ DOMAIN chunk = 1 .. Len(chunk)
  OBVIOUS
<1>2. \A i \in 1 .. Len(chunk) : groups[chunk[i][1]][chunk[i][2]] \in Nat
  <2>1. ASSUME NEW p \in Positions(groups) PROVE groups[p[1]][p[2]] \in Nat
    <3>1. p[1] \in DOMAIN groups /\ p[2] \in DOMAIN groups[p[1]]
      BY DEF Positions
    <3>2. groups[p[1]] \in Seq(Nat)
      BY <3>1
    <3>. QED
      BY <3>1, <3>2
  <2>2. \A i \in 1 .. Len(chunk) : chunk[i] \in Positions(groups)
    OBVIOUS
  <2>. QED
    BY <2>1, <2>2
<1>3. Counts(chunk, groups) \in [1 .. Len(chunk) -> Nat]
  BY <1>1, <1>2 DEF Counts
<1>4. Counts(chunk, groups) \in Seq(Nat) /\ Len(Counts(chunk, groups)) = Len(chunk)
  BY <1>1, <1>3
<1>5. TokensOf(chunk, groups) = Sum(Counts(chunk, groups))
  BY DEF TokensOf, Counts
<1>. QED
  BY <1>4, <1>5, SumType

\* A chunk without places has no tokens
LEMMA TokensOfNone ==
  ASSUME NEW groups \in Seq(Seq(Nat))
  PROVE  TokensOf(<<>>, groups) = 0
<1>1. PICK e \in Seq(Positions(groups)) : e = <<>>
  BY SeqForms
<1>4. Counts(e, groups) \in Seq(Nat) /\ Len(Counts(e, groups)) = 0
      /\ TokensOf(e, groups) = Sum(Counts(e, groups))
  BY <1>1, CountsType
<1>5. Counts(e, groups) = <<>>
  BY <1>4
<1>2. <<>> \in Seq(Nat) /\ Len(<<>>) = 0
  OBVIOUS
<1>3. Sum(<<>>) = 0
  BY <1>2, SumToDef DEF Sum
<1>. QED
  BY <1>1, <1>3, <1>4, <1>5

\* and two chunks put together have those of both.
LEMMA TokensConcat ==
  ASSUME NEW groups \in Seq(Seq(Nat)), NEW c \in Seq(Positions(groups)),
         NEW d \in Seq(Positions(groups))
  PROVE  TokensOf(c \o d, groups) = TokensOf(c, groups) + TokensOf(d, groups)
<1>1. c \o d \in Seq(Positions(groups))
  OBVIOUS
<1>2. /\ Counts(c, groups) \in Seq(Nat) /\ Counts(d, groups) \in Seq(Nat)
      /\ Counts(c \o d, groups) \in Seq(Nat)
      /\ Len(Counts(c, groups)) = Len(c) /\ Len(Counts(d, groups)) = Len(d)
      /\ Len(Counts(c \o d, groups)) = Len(c \o d)
  BY <1>1, CountsType
<1>3. Len(c) \in Nat /\ Len(d) \in Nat /\ Len(c \o d) = Len(c) + Len(d)
      /\ DOMAIN c = 1 .. Len(c) /\ DOMAIN d = 1 .. Len(d) /\ DOMAIN (c \o d) = 1 .. Len(c \o d)
  OBVIOUS
<1>4. PICK a \in Seq(Nat), b \in Seq(Nat), e \in Seq(Nat) :
        a = Counts(c, groups) /\ b = Counts(d, groups) /\ e = Counts(c \o d, groups)
  BY <1>2
<1>5. Counts(c \o d, groups) = Counts(c, groups) \o Counts(d, groups)
  <2>1. Len(a) = Len(c) /\ Len(b) = Len(d) /\ Len(e) = Len(c) + Len(d) /\ a \o b \in Seq(Nat)
    BY <1>2, <1>3, <1>4
  <2>2. ASSUME NEW i \in 1 .. Len(e) PROVE e[i] = (a \o b)[i]
    <3>1. CASE i <= Len(c)
      <4>1. (c \o d)[i] = c[i] /\ i \in DOMAIN c /\ i \in DOMAIN (c \o d)
        BY <3>1, <2>1, <1>3
      <4>2. e[i] = a[i]
        BY <4>1, <1>4 DEF Counts
      <4>3. (a \o b)[i] = a[i]
        BY <3>1, <2>1, <1>3, ConcatProperties
      <4>. QED
        BY <4>2, <4>3
    <3>2. CASE ~ (i <= Len(c))
      <4>1. (c \o d)[i] = d[i - Len(c)] /\ i - Len(c) \in DOMAIN d /\ i \in DOMAIN (c \o d)
        BY <3>2, <2>1, <1>3
      <4>2. e[i] = b[i - Len(c)]
        BY <4>1, <1>4 DEF Counts
      <4>3. (a \o b)[i] = b[i - Len(a)]
        <5>1. i \in 1 .. Len(a) + Len(b) /\ i > Len(a)
          BY <3>2, <2>1, <1>3
        <5>. QED
          BY <5>1, ConcatProperties
      <4>. QED
        BY <4>2, <4>3, <2>1
    <3>. QED
      BY <3>1, <3>2
  <2>3. PICK f \in Seq(Nat) : f = a \o b
    BY <2>1
  <2>4. e = f
    <3>1. Len(e) = Len(f) /\ \A i \in 1 .. Len(e) : e[i] = f[i]
      <4>0. Len(a \o b) = Len(a) + Len(b)
        OBVIOUS
      <4>1. Len(a \o b) = Len(e)
        BY <4>0, <2>1
      <4>. QED
        BY <4>1, <2>2, <2>3
    <3>. QED
      BY <3>1, SeqEqual
  <2>. QED
    BY <2>3, <2>4, <1>4
<1>6. Sum(a \o b) = Sum(a) + Sum(b)
  BY SumConcat
<1>. QED
  BY <1>1, <1>4, <1>5, <1>6, CountsType

\* A group's places have its tokens.
LEMMA PlacesSound ==
  ASSUME NEW groups \in Seq(Seq(Nat)), NEW g \in DOMAIN groups
  PROVE  /\ Places(groups, g) \in Seq(Positions(groups))
         /\ Len(Places(groups, g)) = Len(groups[g])
         /\ \A s \in 1 .. Len(groups[g]) : Places(groups, g)[s] = <<g, s>>
         /\ TokensOf(Places(groups, g), groups) = Sum(groups[g])
         /\ Sum(groups[g]) \in Nat
<1>1. groups[g] \in Seq(Nat) /\ g \in Nat
  OBVIOUS
<1>2. DOMAIN groups[g] = 1 .. Len(groups[g]) /\ Len(groups[g]) \in Nat
  BY <1>1
<1>3. \A s \in 1 .. Len(groups[g]) : <<g, s>> \in Positions(groups)
  BY <1>1, <1>2 DEF Positions
<1>4. \A s \in 1 .. Len(groups[g]) : Places(groups, g)[s] = <<g, s>>
  BY <1>2 DEF Places
<1>5. Places(groups, g) \in [1 .. Len(groups[g]) -> Positions(groups)]
  <2>1. Places(groups, g) = [s \in 1 .. Len(groups[g]) |-> <<g, s>>]
    BY <1>2 DEF Places
  <2>. HIDE DEF Places
  <2>. QED
    BY <2>1, <1>3
<1>6. Places(groups, g) \in Seq(Positions(groups)) /\ Len(Places(groups, g)) = Len(groups[g])
  <2>0. PICK N \in Nat : N = Len(groups[g])
    BY <1>2
  <2>1. PICK f \in [1 .. N -> Positions(groups)] : f = Places(groups, g)
    BY <1>5, <2>0
  <2>2. f \in Seq(Positions(groups)) /\ Len(f) = N
    BY SeqForms
  <2>. QED
    BY <2>0, <2>1, <2>2
<1>7. DOMAIN Places(groups, g) = 1 .. Len(groups[g])
  BY <1>5
<1>8. \A s \in 1 .. Len(groups[g]) : Counts(Places(groups, g), groups)[s] = groups[g][s]
  BY <1>4, <1>7 DEF Counts
<1>9. Counts(Places(groups, g), groups) = groups[g]
  <2>1. PICK a \in Seq(Nat) : a = Counts(Places(groups, g), groups) /\ Len(a) = Len(groups[g])
    BY <1>6, CountsType
  <2>2. a = groups[g]
    BY <2>1, <1>1, <1>8, SeqEqual
  <2>. QED
    BY <2>1, <2>2
<1>. QED
  BY <1>1, <1>4, <1>6, <1>9, CountsType, SumType

\* One more place.
LEMMA TokensAppend ==
  ASSUME NEW groups \in Seq(Seq(Nat)), NEW c \in Seq(Positions(groups)),
         NEW g \in DOMAIN groups, NEW s \in DOMAIN groups[g]
  PROVE  /\ <<g, s>> \in Positions(groups) /\ groups[g][s] \in Nat
         /\ TokensOf(Append(c, <<g, s>>), groups) = TokensOf(c, groups) + groups[g][s]
         /\ TokensOf(<<<<g, s>>>>, groups) = groups[g][s]
<1>1. groups[g] \in Seq(Nat) /\ g \in Nat /\ s \in Nat
  OBVIOUS
<1>2. groups[g][s] \in Nat
  BY <1>1
<1>3. <<g, s>> \in Positions(groups)
  BY <1>1 DEF Positions
<1>4. PICK one \in Seq(Positions(groups)) : one = <<<<g, s>>>>
  <2>1. PICK p \in Positions(groups) : p = <<g, s>>
    BY <1>3
  <2>2. <<p>> \in Seq(Positions(groups))
    OBVIOUS
  <2>. QED
    BY <2>1, <2>2
<1>5. TokensOf(one, groups) = groups[g][s]
  <2>1. Counts(one, groups) = <<groups[g][s]>>
    BY <1>4 DEF Counts
  <2>2. Sum(<<groups[g][s]>>) = groups[g][s]
    <3>1. PICK x \in Nat : x = groups[g][s]
      BY <1>2
    <3>3. <<x>> = Append(<<>>, x) /\ <<>> \in Seq(Nat)
      OBVIOUS
    <3>2. Sum(<<>>) = 0
      <4>1. <<>> \in Seq(Nat) /\ Len(<<>>) = 0
        OBVIOUS
      <4>. QED
        BY <4>1, SumToDef DEF Sum
    <3>4. Sum(Append(<<>>, x)) = Sum(<<>>) + x
      BY <3>3, SumAppend
    <3>. QED
      BY <3>1, <3>2, <3>3, <3>4
  <2>. QED
    BY <2>1, <2>2, CountsType
<1>6. Append(c, <<g, s>>) = c \o one
  BY <1>3, <1>4, AppendIsConcat
<1>. QED
  BY <1>2, <1>3, <1>4, <1>5, <1>6, TokensConcat

-----------------------------------------------------------------------------
(* Cutting a group. *)

\* What cutting a group has made so far: pieces, and the current one with its tokens.
Splits(groups) ==
  [done : Seq(Seq(Positions(groups))), current : Seq(Positions(groups)), tokens : Nat]

\* Cutting goes through the group one place after the other.
LEMMA SplitToDef ==
  ASSUME NEW groups \in Seq(Seq(Nat)), NEW g \in DOMAIN groups
  PROVE  /\ SplitTo(groups, g, 0) = [done |-> <<>>, current |-> NoChunk, tokens |-> 0]
         /\ \A n \in 1 .. Len(groups[g]) :
              SplitTo(groups, g, n)
              = SplitStep(SplitTo(groups, g, n - 1), groups[g][n], <<g, n>>)
<1> DEFINE N == Len(groups[g])
           zero == [done |-> <<>>, current |-> NoChunk, tokens |-> 0]
           S == Splits(groups)
           step == [n \in 1 .. N |-> [a \in S |-> SplitStep(a, groups[g][n], <<g, n>>)]]
           Is(h) == h = [s \in 0 .. N |-> IF s = 0 THEN zero
                                          ELSE SplitStep(h[s - 1], groups[g][s], <<g, s>>)]
           f == CHOOSE h : Is(h)
<1>1. N \in Nat /\ DOMAIN groups[g] = 1 .. N
  OBVIOUS
<1>2. \A n \in 1 .. N, a \in S : SplitStep(a, groups[g][n], <<g, n>>) \in S
  <2> TAKE n \in 1 .. N, a \in S
  <2>1. <<g, n>> \in Positions(groups) /\ groups[g][n] \in Nat
    <3>1. <<>> \in Seq(Positions(groups)) /\ n \in DOMAIN groups[g]
      BY <1>1
    <3>. QED
      BY <3>1, TokensAppend
  <2>2. a.done \in Seq(Seq(Positions(groups))) /\ a.current \in Seq(Positions(groups)) /\ a.tokens \in Nat
    BY DEF Splits
  <2>3. a.tokens + groups[g][n] \in Nat /\ Append(a.current, <<g, n>>) \in Seq(Positions(groups))
        /\ Append(a.done, a.current) \in Seq(Seq(Positions(groups)))
        /\ <<<<g, n>>>> \in Seq(Positions(groups))
    BY <2>1, <2>2
  <2>. QED
    BY <2>1, <2>2, <2>3 DEF SplitStep, Splits
<1>. HIDE DEF N
<1>3. step \in [1 .. N -> [S -> S]]
  BY <1>2
<1>4. zero \in S
  BY DEF Splits, NoChunk
<1>. HIDE DEF zero, S
<1>5. PICK h : Follows(h, N, S, zero, step)
  <2>. HIDE DEF step
  <2>. QED
    BY <1>1, <1>3, <1>4, Recursion
<1>6. Is(h)
  <2>1. h \in [0 .. N -> S] /\ h[0] = zero
    BY <1>5 DEF Follows
  <2>2. \A n \in 1 .. N : h[n - 1] \in S
    BY <1>1, <2>1
  <2>3. \A n \in 1 .. N : h[n] = SplitStep(h[n - 1], groups[g][n], <<g, n>>)
    BY <2>2, <1>5 DEF Follows
  <2>4. \A n \in 0 .. N : n # 0 => n \in 1 .. N
    BY <1>1
  <2>. QED
    BY <2>1, <2>3, <2>4
<1>7. Is(f)
  BY <1>6
<1>8. \A s \in 0 .. N :
        f[s] = IF s = 0 THEN zero ELSE SplitStep(f[s - 1], groups[g][s], <<g, s>>)
  <2>. HIDE DEF f
  <2>. QED
    BY <1>7
<1>9. \A n : SplitTo(groups, g, n) = f[n]
  BY DEF SplitTo, N, zero
<1>. HIDE DEF f
<1>10. 0 \in 0 .. N /\ \A n \in 1 .. N : n \in 0 .. N /\ n # 0
  BY <1>1
<1>. QED
  BY <1>8, <1>9, <1>10 DEF N, zero

\* A chunk cut from a group.
IsPiece(chunk, groups, g) ==
  /\ chunk \in Seq(Positions(groups)) /\ chunk # <<>>
  /\ TokensOf(chunk, groups) <= MaxTokens \/ Len(chunk) = 1
  /\ \A k \in DOMAIN chunk : chunk[k][1] = g

\* After n places they are all there, in the pieces and the current one, which are as they should be.
SplitInv(a, groups, g, n) ==
  /\ a \in Splits(groups)
  /\ a.tokens = TokensOf(a.current, groups)
  /\ FlattenSeq(a.done) \o a.current = SubSeq(Places(groups, g), 1, n)
  /\ \A i \in DOMAIN a.done : IsPiece(a.done[i], groups, g)
  /\ a.current # <<>> => IsPiece(a.current, groups, g)

\* What is done, and the current chunk, and one more place.
LEMMA OneMore ==
  ASSUME NEW P, NEW p \in P, NEW d \in Seq(Seq(P)), NEW c \in Seq(P)
  PROVE  /\ Append(c, p) \in Seq(P) /\ Append(c, p) # <<>>
         /\ FlattenSeq(Append(d, c)) \o <<p>> = (FlattenSeq(d) \o c) \o <<p>>
         /\ FlattenSeq(d) \o Append(c, p) = (FlattenSeq(d) \o c) \o <<p>>
<1>1. Append(c, p) \in Seq(P) /\ Append(c, p) # <<>>
  BY SeqForms
<1>2. FlattenSeq(Append(d, c)) = FlattenSeq(d) \o c
  BY FlattenAppend
<1>3. PICK f \in Seq(P) : f = FlattenSeq(d)
  BY FlattenType
<1>4. f \o Append(c, p) = Append(f \o c, p) /\ f \o c \in Seq(P)
  BY SeqForms
<1>5. Append(f \o c, p) = (f \o c) \o <<p>>
  BY <1>4, SeqForms
<1>. QED
  BY <1>1, <1>2, <1>3, <1>4, <1>5

\* One place more leaves it so.
LEMMA SplitStepSound ==
  ASSUME NEW groups \in Seq(Seq(Nat)), NEW g \in DOMAIN groups, NEW n \in 1 .. Len(groups[g]),
         NEW a, SplitInv(a, groups, g, n - 1)
  PROVE  SplitInv(SplitStep(a, groups[g][n], <<g, n>>), groups, g, n)
<1>0. PICK P, p, before, after :
        /\ P = Positions(groups) /\ p = <<g, n>>
        /\ before = SubSeq(Places(groups, g), 1, n - 1) /\ after = SubSeq(Places(groups, g), 1, n)
  OBVIOUS
<1>1. a.done \in Seq(Seq(P)) /\ a.current \in Seq(P) /\ a.tokens \in Nat
  BY <1>0 DEF SplitInv, Splits
<1>2. p \in P /\ groups[g][n] \in Nat /\ TokensOf(<<p>>, groups) = groups[g][n]
      /\ TokensOf(Append(a.current, p), groups) = TokensOf(a.current, groups) + groups[g][n]
  <2>1. n \in DOMAIN groups[g] /\ a.current \in Seq(Positions(groups))
    BY <1>0, <1>1
  <2>. QED
    BY <2>1, <1>0, TokensAppend
<1>3. after = before \o <<p>> /\ before \in Seq(P)
  <2>1. PICK all \in Seq(P) : all = Places(groups, g)
    BY <1>0, PlacesSound
  <2>2. Len(all) = Len(groups[g]) /\ all[n] = p
    BY <1>0, <2>1, PlacesSound
  <2>. QED
    <3>1. 1 \in 1 .. Len(all) /\ n \in 1 .. Len(all)
      BY <2>2
    <3>2. SubSeq(all, 1, n) = SubSeq(all, 1, n - 1) \o <<all[n]>>
      BY <3>1, SubSeqRecursiveSecond
    <3>3. SubSeq(all, 1, n - 1) \in Seq(P)
      BY <3>1
    <3>. QED
      BY <1>0, <2>1, <2>2, <3>2, <3>3
<1>4. FlattenSeq(a.done) \in Seq(P)
  BY <1>1, FlattenType
<1>5. FlattenSeq(a.done) \o a.current = before
  BY <1>0 DEF SplitInv
<1>6. <<p>> \in Seq(P) /\ <<p>> # <<>> /\ Len(<<p>>) = 1 /\ Append(a.current, p) \in Seq(P)
      /\ Append(a.current, p) # <<>>
  <2>1. p \in P /\ a.current \in Seq(P)
    BY <1>1, <1>2
  <2>2. <<p>> \in Seq(P) /\ <<p>> # <<>> /\ Len(<<p>>) = 1
    BY <2>1, SeqForms
  <2>3. Append(a.current, p) \in Seq(P) /\ Append(a.current, p) # <<>>
    BY <2>1, <1>1, OneMore
  <2>. QED
    BY <2>2, <2>3
<1>9. FlattenSeq(a.done) \o Append(a.current, p) = after
  <2>1. p \in P /\ a.done \in Seq(Seq(P)) /\ a.current \in Seq(P)
    BY <1>1, <1>2
  <2>2. PICK d \in Seq(Seq(P)), c \in Seq(P), q \in P : d = a.done /\ c = a.current /\ q = p
    BY <2>1
  <2>3. FlattenSeq(d) \o Append(c, q) = (FlattenSeq(d) \o c) \o <<q>>
    BY OneMore, SMTT(60)
  <2>. QED
    BY <2>2, <2>3, <1>3, <1>5
<1>7. CASE a.tokens + groups[g][n] > MaxTokens /\ a.current # <<>>
  <2> DEFINE b == [done |-> Append(a.done, a.current), current |-> <<p>>, tokens |-> groups[g][n]]
  <2>1. SplitStep(a, groups[g][n], <<g, n>>) = b
    BY <1>7, <1>0 DEF SplitStep, NoChunk
  <2>2. Append(a.done, a.current) \in Seq(Seq(P))
    BY <1>1
  <2>3. b \in Splits(groups)
    BY <2>2, <1>0, <1>2, <1>6 DEF Splits
  <2>4. FlattenSeq(Append(a.done, a.current)) \o <<p>> = after
    <3>1. FlattenSeq(Append(a.done, a.current)) = FlattenSeq(a.done) \o a.current
      <4>1. PICK done \in Seq(Seq(P)), current \in Seq(P) : done = a.done /\ current = a.current
        BY <1>1
      <4>2. FlattenSeq(Append(done, current)) = FlattenSeq(done) \o current
        BY FlattenAppend
      <4>. QED
        BY <4>1, <4>2
    <3>. QED
      BY <3>1, <1>3, <1>5
  <2>5. IsPiece(<<p>>, groups, g)
    BY <1>0, <1>6, SeqForms, <1>2 DEF IsPiece
  <2>6. \A i \in DOMAIN Append(a.done, a.current) : IsPiece(Append(a.done, a.current)[i], groups, g)
    <3>1. \A i \in DOMAIN a.done : IsPiece(a.done[i], groups, g)
      BY DEF SplitInv
    <3>2. IsPiece(a.current, groups, g)
      BY <1>7 DEF SplitInv
    <3>3. \A i \in DOMAIN Append(a.done, a.current) :
            \/ i \in DOMAIN a.done /\ Append(a.done, a.current)[i] = a.done[i]
            \/ i = Len(a.done) + 1 /\ Append(a.done, a.current)[i] = a.current
      BY <1>1, ElementsOfAppend
    <3>. QED
      BY <3>1, <3>2, <3>3
  <2>7. SplitInv(b, groups, g, n)
    BY <1>0, <1>2, <2>3, <2>4, <2>5, <2>6 DEF SplitInv
  <2>. QED
    BY <2>1, <2>7
<1>8. CASE ~ (a.tokens + groups[g][n] > MaxTokens /\ a.current # <<>>)
  <2> DEFINE b == [done |-> a.done, current |-> Append(a.current, p),
                   tokens |-> a.tokens + groups[g][n]]
  <2>1. SplitStep(a, groups[g][n], <<g, n>>) = b
    BY <1>8, <1>0 DEF SplitStep, NoChunk
  <2>2. a.tokens + groups[g][n] \in Nat
    BY <1>1, <1>2
  <2>3. b \in Splits(groups)
    BY <2>2, <1>0, <1>1, <1>6 DEF Splits
  <2>4. a.tokens = TokensOf(a.current, groups)
    BY DEF SplitInv
  <2>5. FlattenSeq(a.done) \o Append(a.current, p) = after
    BY <1>9
  <2>6. IsPiece(Append(a.current, p), groups, g)
    <3>1. TokensOf(Append(a.current, p), groups) <= MaxTokens \/ Len(Append(a.current, p)) = 1
      <4>1. CASE a.current = <<>>
        BY <4>1
      <4>2. CASE a.current # <<>>
        BY <4>2, <1>8, <1>2, <2>2, <2>4, ChunkingAssumption
      <4>. QED
        BY <4>1, <4>2
    <3>2. \A k \in DOMAIN Append(a.current, p) : Append(a.current, p)[k][1] = g
      <4>1. \A k \in DOMAIN a.current : a.current[k][1] = g
        BY DEF SplitInv, IsPiece
      <4>2. \A k \in DOMAIN Append(a.current, p) :
              \/ k \in DOMAIN a.current /\ Append(a.current, p)[k] = a.current[k]
              \/ k = Len(a.current) + 1 /\ Append(a.current, p)[k] = p
        BY <1>1, <1>2, ElementsOfAppend
      <4>3. p[1] = g
        BY <1>0
      <4>. QED
        BY <4>1, <4>2, <4>3
    <3>. QED
      BY <3>1, <3>2, <1>0, <1>6 DEF IsPiece
  <2>7. \A i \in DOMAIN a.done : IsPiece(a.done[i], groups, g)
    BY DEF SplitInv
  <2>8. SplitInv(b, groups, g, n)
    BY <1>0, <1>2, <2>3, <2>4, <2>5, <2>6, <2>7 DEF SplitInv
  <2>. QED
    BY <2>1, <2>8
<1>. QED
  BY <1>7, <1>8

\* A group is cut without loss into pieces that fit, or are one sentence.
LEMMA SplitGroupSound ==
  ASSUME NEW groups \in Seq(Seq(Nat)), NEW g \in DOMAIN groups
  PROVE  /\ SplitGroup(groups, g) \in Seq(Seq(Positions(groups)))
         /\ FlattenSeq(SplitGroup(groups, g)) = Places(groups, g)
         /\ \A i \in DOMAIN SplitGroup(groups, g) : IsPiece(SplitGroup(groups, g)[i], groups, g)
<1> DEFINE N == Len(groups[g])
           P == {n \in 0 .. N : SplitInv(SplitTo(groups, g, n), groups, g, n)}
<1>1. N \in Nat
  OBVIOUS
<1>2. 0 \in P
  <2> DEFINE zero == [done |-> <<>>, current |-> NoChunk, tokens |-> 0]
  <2>1. zero \in Splits(groups)
    BY DEF Splits, NoChunk
  <2>2. TokensOf(<<>>, groups) = 0
    BY TokensOfNone
  <2>3. FlattenSeq(<<>>) \o <<>> = SubSeq(Places(groups, g), 1, 0)
    <3>1. PICK all \in Seq(Positions(groups)) : all = Places(groups, g)
      BY PlacesSound
    <3>2. <<>> \o <<>> = <<>> /\ SubSeq(all, 1, 0) = <<>>
      BY SeqForms
    <3>. QED
      BY <3>1, <3>2, FlattenEmpty
  <2>4. SplitInv(zero, groups, g, 0)
    BY <2>1, <2>2, <2>3 DEF SplitInv, NoChunk
  <2>. QED
    BY <2>4, <1>1, SplitToDef
<1>. HIDE DEF N
<1>3. ASSUME NEW n \in 1 .. N, n - 1 \in P PROVE n \in P
  <2>1. n \in 1 .. Len(groups[g]) /\ n \in 0 .. N
    BY <1>1 DEF N
  <2>2. SplitInv(SplitTo(groups, g, n - 1), groups, g, n - 1)
    BY <1>3
  <2>3. SplitInv(SplitStep(SplitTo(groups, g, n - 1), groups[g][n], <<g, n>>), groups, g, n)
    BY <2>1, <2>2, SplitStepSound
  <2>4. SplitTo(groups, g, n) = SplitStep(SplitTo(groups, g, n - 1), groups[g][n], <<g, n>>)
    BY <2>1, SplitToDef
  <2>. QED
    BY <2>1, <2>3, <2>4
<1>4. \A n \in 0 .. N : n \in P
  <2>. HIDE DEF P
  <2>. QED
    BY <1>1, <1>2, <1>3, Induction
<1>5. N \in P
  BY <1>1, <1>4
<1>6. PICK a : a = SplitTo(groups, g, N)
  OBVIOUS
<1>7. SplitInv(a, groups, g, N)
  BY <1>5, <1>6
<1>8. SplitGroup(groups, g) = IF a.current = <<>> THEN a.done ELSE Append(a.done, a.current)
  BY <1>6 DEF SplitGroup, NoChunk, N
<1>9. a.done \in Seq(Seq(Positions(groups))) /\ a.current \in Seq(Positions(groups))
  BY <1>7 DEF SplitInv, Splits
<1>10. FlattenSeq(a.done) \o a.current = Places(groups, g)
  <2>1. SubSeq(Places(groups, g), 1, N) = Places(groups, g)
    BY PlacesSound DEF N
  <2>. QED
    BY <2>1, <1>7 DEF SplitInv
<1>11. CASE a.current = <<>>
  <2>1. FlattenSeq(a.done) \o <<>> = FlattenSeq(a.done)
    BY <1>9, FlattenType
  <2>. QED
    BY <1>7, <1>8, <1>9, <1>10, <1>11, <2>1 DEF SplitInv
<1>12. CASE a.current # <<>>
  <2>1. SplitGroup(groups, g) = Append(a.done, a.current)
    BY <1>8, <1>12
  <2>2. FlattenSeq(Append(a.done, a.current)) = Places(groups, g)
    BY <1>9, <1>10, FlattenAppend
  <2>3. Append(a.done, a.current) \in Seq(Seq(Positions(groups)))
    BY <1>9
  <2>4. \A i \in DOMAIN Append(a.done, a.current) : IsPiece(Append(a.done, a.current)[i], groups, g)
    <3>1. \A i \in DOMAIN a.done : IsPiece(a.done[i], groups, g)
      BY <1>7 DEF SplitInv
    <3>2. IsPiece(a.current, groups, g)
      BY <1>7, <1>12 DEF SplitInv
    <3>3. \A i \in DOMAIN Append(a.done, a.current) :
            \/ i \in DOMAIN a.done /\ Append(a.done, a.current)[i] = a.done[i]
            \/ i = Len(a.done) + 1 /\ Append(a.done, a.current)[i] = a.current
      BY <1>9, ElementsOfAppend
    <3>. QED
      BY <3>1, <3>2, <3>3
  <2>. QED
    BY <2>1, <2>2, <2>3, <2>4
<1>. QED
  BY <1>11, <1>12

-----------------------------------------------------------------------------
(* Chunks and their texts. *)

\* Chunks with their titles, and what they hold without.
Chunks(P) == [places : Seq(P), title : Nat]
TextsOf(chunks) == [i \in DOMAIN chunks |-> chunks[i].places]

\* There is one text for each chunk
LEMMA TextsType ==
  ASSUME NEW P, NEW d \in Seq(Chunks(P))
  PROVE  /\ TextsOf(d) \in Seq(Seq(P)) /\ Len(TextsOf(d)) = Len(d)
         /\ \A i \in 1 .. Len(d) : TextsOf(d)[i] = d[i].places
<1>1. PICK N \in Nat : N = Len(d) /\ DOMAIN d = 1 .. N
  OBVIOUS
<1>2. \A i \in 1 .. N : d[i] \in Chunks(P)
  BY <1>1
<1>3. \A i \in 1 .. N : d[i].places \in Seq(P)
  BY <1>2 DEF Chunks
<1>4. PICK f : f = TextsOf(d)
  OBVIOUS
<1>5. f = [i \in 1 .. N |-> d[i].places]
  BY <1>1, <1>4 DEF TextsOf
<1>6. f \in [1 .. N -> Seq(P)] /\ \A i \in 1 .. N : f[i] = d[i].places
  BY <1>3, <1>5
<1>7. f \in Seq(Seq(P)) /\ Len(f) = N
  BY <1>6, SeqForms
<1>. QED
  BY <1>1, <1>4, <1>6, <1>7

\* the texts of two lists of chunks are those of the one and then those of the other
LEMMA TextsConcat ==
  ASSUME NEW P, NEW d \in Seq(Chunks(P)), NEW e \in Seq(Chunks(P))
  PROVE  /\ TextsOf(d \o e) = TextsOf(d) \o TextsOf(e)
         /\ FlattenSeq(TextsOf(d \o e)) = FlattenSeq(TextsOf(d)) \o FlattenSeq(TextsOf(e))
<1>1. PICK c \in Seq(Chunks(P)) : c = d \o e
  BY SeqForms
<1>2. /\ Len(c) = Len(d) + Len(e) /\ Len(d) \in Nat /\ Len(e) \in Nat
      /\ \A i \in 1 .. Len(d) : c[i] = d[i]
      /\ \A i \in 1 .. Len(e) : c[Len(d) + i] = e[i]
  BY <1>1, ConcatElements
<1>3. PICK td \in Seq(Seq(P)), te \in Seq(Seq(P)), tc \in Seq(Seq(P)) :
        td = TextsOf(d) /\ te = TextsOf(e) /\ tc = TextsOf(c)
  BY TextsType
<1>4. /\ Len(td) = Len(d) /\ Len(te) = Len(e) /\ Len(tc) = Len(c)
      /\ \A i \in 1 .. Len(d) : td[i] = d[i].places
      /\ \A i \in 1 .. Len(e) : te[i] = e[i].places
      /\ \A i \in 1 .. Len(c) : tc[i] = c[i].places
  BY <1>3, TextsType
<1>5. \A i \in 1 .. Len(td) : tc[i] = td[i]
  <2> TAKE i \in 1 .. Len(td)
  <2>1. i \in 1 .. Len(c) /\ i \in 1 .. Len(d)
    BY <1>2, <1>4
  <2>. QED
    BY <2>1, <1>2, <1>4
<1>6. \A i \in 1 .. Len(te) : tc[Len(td) + i] = te[i]
  <2> TAKE i \in 1 .. Len(te)
  <2>1. Len(d) + i \in 1 .. Len(c) /\ i \in 1 .. Len(e)
    BY <1>2, <1>4
  <2>. QED
    BY <2>1, <1>2, <1>4
<1>7. Len(tc) = Len(td) + Len(te)
  BY <1>2, <1>4
<1>8. tc = td \o te
  BY <1>5, <1>6, <1>7, ConcatIs
<1>9. FlattenSeq(td \o te) = FlattenSeq(td) \o FlattenSeq(te)
  BY FlattenConcat
<1>. QED
  BY <1>1, <1>3, <1>8, <1>9

\* and a chunk more adds its text.
LEMMA TextsAppend ==
  ASSUME NEW P, NEW d \in Seq(Chunks(P)), NEW c \in Chunks(P)
  PROVE  FlattenSeq(TextsOf(Append(d, c))) = FlattenSeq(TextsOf(d)) \o c.places
<1>1. PICK e \in Seq(Chunks(P)) : e = <<c>>
  BY SeqForms
<1>2. Len(e) = 1 /\ e[1] = c
  BY <1>1
<1>3. PICK te \in Seq(Seq(P)) : te = TextsOf(e)
  BY TextsType
<1>4. Len(te) = 1 /\ te[1] = c.places /\ c.places \in Seq(P)
  <2>1. Len(te) = Len(e) /\ \A i \in 1 .. Len(e) : te[i] = e[i].places
    BY <1>3, TextsType
  <2>2. c.places \in Seq(P)
    BY DEF Chunks
  <2>. QED
    BY <1>2, <2>1, <2>2
<1>5. te = <<c.places>>
  BY <1>4
<1>6. FlattenSeq(te) = c.places
  BY <1>4, <1>5, FlattenOne
<1>7. FlattenSeq(TextsOf(d \o e)) = FlattenSeq(TextsOf(d)) \o FlattenSeq(TextsOf(e))
  BY TextsConcat
<1>8. Append(d, c) = d \o e
  BY <1>1, SeqForms
<1>. QED
  BY <1>3, <1>6, <1>7, <1>8

-----------------------------------------------------------------------------
(* Packing. *)

\* A group too large for a chunk, and a chunk that is too small.
Large(groups, g) == Sum(groups[g]) > MaxTokens
Small(chunk, groups) == TokensOf(chunk.places, groups) < MinTokens

\* The chunks as the algorithm makes them.
Good(groups, titled) ==
  {c \in Chunks(Positions(groups)) :
     /\ c.places # <<>>
     /\ TokensOf(c.places, groups) < MaxTokens + MinTokens \/ Len(c.places) = 1
     /\ titled => c.title = c.places[1][1]}

\* Those that another may follow, whatever it is.
Firm(groups, titled) ==
  {c \in Good(groups, titled) :
     Small(c, groups) => Large(groups, c.places[Len(c.places)][1])}

\* Which chunk may follow which.
Follow(groups, titled) ==
  {p \in Good(groups, titled) \X Good(groups, titled) :
     p[1] \in Firm(groups, titled) \/ Large(groups, p[2].places[1][1])}

\* What packing has made so far: chunks, and the current one with its tokens and title.
Packs(groups, titled) ==
  [done : Seq(Good(groups, titled)), current : Seq(Positions(groups)), tokens : Nat, title : Nat]

\* What all groups with tokens hold.
Contents(groups) ==
  [g \in DOMAIN groups |-> IF Sum(groups[g]) = 0 THEN <<>> ELSE Places(groups, g)]

\* All of what was held is in the chunks and the current one; the chunks are as they should be and follow
\* rightly; the current one is within its bound, and may be followed.
PackInv(a, groups, titled, held) ==
  /\ a \in Packs(groups, titled)
  /\ a.tokens = TokensOf(a.current, groups) /\ a.tokens < MaxTokens + MinTokens
  /\ FlattenSeq(TextsOf(a.done)) \o a.current = held
  /\ a.current # <<>> /\ titled => a.title = a.current[1][1]
  /\ Chained(a.done, Follow(groups, titled))
  /\ a.done # <<>> => a.done[Len(a.done)] \in Firm(groups, titled)

\* The title that packing passes on with a group.
Title(titled, g) == IF titled THEN g ELSE 0

\* These are chunks.
LEMMA GoodType ==
  ASSUME NEW groups, NEW titled
  PROVE  /\ Good(groups, titled) \subseteq Chunks(Positions(groups))
         /\ Seq(Good(groups, titled)) \subseteq Seq(Chunks(Positions(groups)))
         /\ Firm(groups, titled) \subseteq Good(groups, titled)
<1>1. Good(groups, titled) \subseteq Chunks(Positions(groups)) /\ Firm(groups, titled) \subseteq Good(groups, titled)
  BY DEF Good, Firm
<1>2. \A s \in Seq(Good(groups, titled)) : s \in Seq(Chunks(Positions(groups)))
  BY <1>1, SeqMonotonic
<1>. QED
  BY <1>1, <1>2

\* A current chunk that is done.
LEMMA DoneSound ==
  ASSUME NEW groups \in Seq(Seq(Nat)), NEW titled \in BOOLEAN, NEW a, NEW held,
         PackInv(a, groups, titled, held), a.current # <<>>
  PROVE  /\ Done(a.current, a.title) \in Good(groups, titled)
         /\ Append(a.done, Done(a.current, a.title)) \in Seq(Good(groups, titled))
         /\ FlattenSeq(TextsOf(Append(a.done, Done(a.current, a.title)))) = held
         /\ Chained(Append(a.done, Done(a.current, a.title)), Follow(groups, titled))
         /\ a.tokens >= MinTokens => Done(a.current, a.title) \in Firm(groups, titled)
<1>1. a.done \in Seq(Good(groups, titled)) /\ a.current \in Seq(Positions(groups))
      /\ a.tokens \in Nat /\ a.title \in Nat
  BY DEF PackInv, Packs
<1>2. PICK c : c = Done(a.current, a.title)
  OBVIOUS
<1>3. c \in Chunks(Positions(groups)) /\ c.places = a.current /\ c.title = a.title
  BY <1>1, <1>2 DEF Chunks, Done
<1>4. c \in Good(groups, titled)
  BY <1>3 DEF PackInv, Good
<1>5. PICK d \in Seq(Good(groups, titled)) : d = a.done
  BY <1>1
<1>6. Append(d, c) \in Seq(Good(groups, titled))
  BY <1>4, SeqForms
<1>7. FlattenSeq(TextsOf(Append(d, c))) = FlattenSeq(TextsOf(d)) \o c.places
  BY <1>3, GoodType, TextsAppend
<1>8. d # <<>> => <<d[Len(d)], c>> \in Follow(groups, titled)
  <2>1. d # <<>> => d[Len(d)] \in Firm(groups, titled)
    BY <1>5 DEF PackInv
  <2>. QED
    BY <2>1, <1>4, GoodType DEF Follow
<1>9. Chained(d, Follow(groups, titled))
  BY <1>5 DEF PackInv
<1>10. Chained(Append(d, c), Follow(groups, titled))
  BY <1>4, <1>8, <1>9, ChainedAppend
<1>11. a.tokens >= MinTokens => c \in Firm(groups, titled)
  BY <1>1, <1>3, <1>4, ChunkingAssumption DEF PackInv, Firm, Small
<1>12. FlattenSeq(TextsOf(d)) \o c.places = held
  BY <1>3, <1>5 DEF PackInv
<1>. QED
  BY <1>2, <1>4, <1>5, <1>6, <1>7, <1>10, <1>11, <1>12

\* At the end the current chunk is done as well.
LEMMA FlushedSound ==
  ASSUME NEW groups \in Seq(Seq(Nat)), NEW titled \in BOOLEAN, NEW a, NEW held,
         PackInv(a, groups, titled, held)
  PROVE  /\ Flushed(a) \in Seq(Good(groups, titled))
         /\ FlattenSeq(TextsOf(Flushed(a))) = held
         /\ Chained(Flushed(a), Follow(groups, titled))
<1>1. CASE a.current = <<>>
  <2>1. a.done \in Seq(Good(groups, titled))
    BY DEF PackInv, Packs
  <2>2. Flushed(a) = a.done
    BY <1>1 DEF Flushed, NoChunk
  <2>3. PICK t \in Seq(Positions(groups)) : t = FlattenSeq(TextsOf(a.done))
    BY <2>1, GoodType, TextsType, FlattenType
  <2>4. t \o <<>> = t
    BY SeqForms
  <2>. QED
    BY <1>1, <2>1, <2>2, <2>3, <2>4 DEF PackInv
<1>2. CASE a.current # <<>>
  <2>1. Flushed(a) = Append(a.done, Done(a.current, a.title))
    BY <1>2 DEF Flushed, NoChunk
  <2>. QED
    BY <1>2, <2>1, DoneSound
<1>. QED
  BY <1>1, <1>2

\* The pieces of a large group.
LEMMA CutSound ==
  ASSUME NEW groups \in Seq(Seq(Nat)), NEW g \in DOMAIN groups, Large(groups, g),
         NEW titled \in BOOLEAN
  PROVE  LET cut == Cut(groups, g, Title(titled, g)) IN
         /\ cut \in Seq(Good(groups, titled)) /\ cut # <<>>
         /\ FlattenSeq(TextsOf(cut)) = Places(groups, g)
         /\ \A i \in 1 .. Len(cut) : cut[i] \in Firm(groups, titled) /\ cut[i].places[1][1] = g
<1>1. PICK pieces \in Seq(Seq(Positions(groups))) : pieces = SplitGroup(groups, g)
  BY SplitGroupSound
<1>2. PICK N \in Nat : N = Len(pieces) /\ DOMAIN pieces = 1 .. N
  OBVIOUS
<1>3. g \in Nat /\ Title(titled, g) \in Nat
  BY DEF Title
<1>4. PICK cut : cut = Cut(groups, g, Title(titled, g))
  OBVIOUS
<1>5. cut = [i \in 1 .. N |-> Done(pieces[i], Title(titled, g))]
  BY <1>1, <1>2, <1>4 DEF Cut
<1>6. ASSUME NEW i \in 1 .. N
      PROVE  /\ cut[i] \in Firm(groups, titled) /\ cut[i].places[1][1] = g
             /\ cut[i].places = pieces[i]
  <2>1. IsPiece(pieces[i], groups, g)
    BY <1>1, <1>2, SplitGroupSound
  <2>2. PICK p \in Seq(Positions(groups)) : p = pieces[i] /\ p # <<>>
    BY <2>1 DEF IsPiece
  <2>3. Len(p) \in Nat \ {0} /\ 1 \in DOMAIN p /\ Len(p) \in DOMAIN p
    BY <2>2
  <2>4. p[1][1] = g /\ p[Len(p)][1] = g
    BY <2>1, <2>2, <2>3 DEF IsPiece
  <2>5. TokensOf(p, groups) <= MaxTokens \/ Len(p) = 1
    BY <2>1, <2>2 DEF IsPiece
  <2>6. TokensOf(p, groups) \in Nat
    BY CountsType
  <2>7. TokensOf(p, groups) < MaxTokens + MinTokens \/ Len(p) = 1
    BY <2>5, <2>6, ChunkingAssumption
  <2>8. cut[i].places = p /\ cut[i].title = Title(titled, g) /\ cut[i] \in Chunks(Positions(groups))
    BY <1>3, <1>5, <2>2 DEF Done, Chunks
  <2>9. cut[i] \in Good(groups, titled)
    BY <2>2, <2>4, <2>7, <2>8 DEF Good, Title
  <2>. QED
    BY <2>2, <2>4, <2>8, <2>9 DEF Firm
<1>7. cut \in [1 .. N -> Good(groups, titled)]
  BY <1>5, <1>6, GoodType
<1>8. cut \in Seq(Good(groups, titled)) /\ Len(cut) = N
  BY <1>7, SeqForms
<1>9. TextsOf(cut) = pieces
  <2>0. PICK c \in Seq(Chunks(Positions(groups))) : c = cut
    BY <1>8, GoodType
  <2>1. PICK t \in Seq(Seq(Positions(groups))) : t = TextsOf(c)
    BY TextsType
  <2>2. Len(t) = Len(c) /\ \A i \in 1 .. Len(c) : t[i] = c[i].places
    BY <2>1, TextsType
  <2>3. t = pieces
    <3>1. Len(t) = Len(pieces) /\ \A i \in 1 .. Len(t) : t[i] = pieces[i]
      BY <1>2, <1>6, <1>8, <2>0, <2>2
    <3>. QED
      BY <3>1, SeqEqual
  <2>. QED
    BY <2>0, <2>1, <2>3
<1>10. FlattenSeq(TextsOf(cut)) = Places(groups, g)
  BY <1>1, <1>9, SplitGroupSound
<1>11. cut # <<>>
  <2>1. Sum(groups[g]) # 0
    BY PlacesSound, ChunkingAssumption DEF Large
  <2>2. groups[g] # <<>>
    <3>1. PICK e \in Seq(Nat) : e = groups[g]
      OBVIOUS
    <3>2. e = <<>> => Sum(e) = 0
      <4>1. e = <<>> => Len(e) = 0
        OBVIOUS
      <4>. QED
        BY <4>1, SumToDef DEF Sum
    <3>. QED
      BY <2>1, <3>1, <3>2
  <2>3. Places(groups, g) # <<>>
    <3>1. PICK all \in Seq(Positions(groups)) : all = Places(groups, g) /\ Len(all) = Len(groups[g])
      BY PlacesSound
    <3>2. groups[g] \in Seq(Nat)
      OBVIOUS
    <3>. QED
      BY <2>2, <3>1, <3>2
  <2>4. cut = <<>> => pieces = <<>>
    BY <1>2, <1>8
  <2>5. pieces # <<>>
    BY <1>9, <1>10, <2>3, FlattenEmpty
  <2>. QED
    BY <2>4, <2>5
<1>. QED
  BY <1>4, <1>6, <1>8, <1>10, <1>11

\* What a group adds to what the chunks hold.
Held(groups, g) == IF Sum(groups[g]) = 0 THEN <<>> ELSE Places(groups, g)

\* A group with tokens has places, the first of them in it.
LEMMA PlacesOfGroup ==
  ASSUME NEW groups \in Seq(Seq(Nat)), NEW g \in DOMAIN groups, Sum(groups[g]) # 0
  PROVE  /\ Places(groups, g) \in Seq(Positions(groups)) /\ Places(groups, g) # <<>>
         /\ Places(groups, g)[1][1] = g /\ g # 0 /\ g \in Nat
<1>1. PICK e \in Seq(Nat) : e = groups[g]
  OBVIOUS
<1>2. PICK all \in Seq(Positions(groups)) : all = Places(groups, g)
  BY PlacesSound
<1>3. Len(all) = Len(e) /\ \A s \in 1 .. Len(e) : all[s] = <<g, s>>
  BY <1>1, <1>2, PlacesSound
<1>4. Len(e) # 0
  BY <1>1, SumToDef DEF Sum
<1>5. Len(e) \in Nat /\ 1 \in 1 .. Len(e)
  BY <1>4
<1>6. g \in Nat \ {0}
  OBVIOUS
<1>. QED
  BY <1>2, <1>3, <1>4, <1>5, <1>6

\* A large group: what is current is done, and then the pieces of the group.
LEMMA OversizedSound ==
  ASSUME NEW groups \in Seq(Seq(Nat)), NEW titled \in BOOLEAN, NEW a, NEW held,
         NEW g \in DOMAIN groups, PackInv(a, groups, titled, held), Large(groups, g)
  PROVE  PackInv(Oversized(a, groups, g, Title(titled, g)), groups, titled,
                 held \o Places(groups, g))
<1>1. PICK G, R, F : G = Good(groups, titled) /\ R = Follow(groups, titled) /\ F = Firm(groups, titled)
  OBVIOUS
<1>2. PICK d \in Seq(G) : d = Flushed(a) /\ FlattenSeq(TextsOf(d)) = held /\ Chained(d, R)
  BY <1>1, FlushedSound
<1>3. PICK cut \in Seq(G) : cut = Cut(groups, g, Title(titled, g)) /\ cut # <<>>
                           /\ FlattenSeq(TextsOf(cut)) = Places(groups, g)
  BY <1>1, CutSound
<1>4. \A i \in 1 .. Len(cut) : cut[i] \in F /\ cut[i].places[1][1] = g
  BY <1>1, <1>3, CutSound
<1>5. Len(cut) \in Nat \ {0}
  BY <1>3
<1>6. F \subseteq G /\ \A x \in G, y \in G : x \in F => <<x, y>> \in R
  BY <1>1, GoodType DEF Follow
<1>7. Chained(cut, R)
  <2>1. \A i \in 1 .. Len(cut) - 1 : i \in 1 .. Len(cut) /\ i + 1 \in 1 .. Len(cut)
    BY <1>5
  <2>. QED
    BY <2>1, <1>4, <1>6 DEF Chained
<1>8. d # <<>> => <<d[Len(d)], cut[1]>> \in R
  <2>1. 1 \in 1 .. Len(cut)
    BY <1>5
  <2>2. cut[1] \in G /\ cut[1].places[1][1] = g
    BY <2>1, <1>4
  <2>3. d # <<>> => d[Len(d)] \in G
    OBVIOUS
  <2>. QED
    BY <1>1, <2>2, <2>3 DEF Follow
<1>9. PICK done \in Seq(G) : done = d \o cut
  BY SeqForms
<1>10. Chained(done, R)
  BY <1>2, <1>7, <1>8, <1>9, ChainedConcat
<1>11. FlattenSeq(TextsOf(done)) = held \o Places(groups, g)
  <2>1. PICK dd \in Seq(Chunks(Positions(groups))), cc \in Seq(Chunks(Positions(groups))) : dd = d /\ cc = cut
    BY <1>1, GoodType
  <2>2. FlattenSeq(TextsOf(dd \o cc)) = FlattenSeq(TextsOf(dd)) \o FlattenSeq(TextsOf(cc))
    BY TextsConcat
  <2>. QED
    BY <2>1, <2>2, <1>2, <1>3, <1>9
<1>12. done # <<>> /\ done[Len(done)] \in F
  <2>1. done # <<>> /\ done[Len(done)] = cut[Len(cut)]
    BY <1>3, <1>9, EndsOfConcat
  <2>2. Len(cut) \in 1 .. Len(cut)
    BY <1>5
  <2>. QED
    BY <2>1, <2>2, <1>4
<1>13. PICK b : b = Oversized(a, groups, g, Title(titled, g))
  OBVIOUS
<1>14. b = [done |-> done, current |-> <<>>, tokens |-> 0, title |-> a.title]
  BY <1>2, <1>3, <1>9, <1>13 DEF Oversized, NoChunk
<1>15. b \in Packs(groups, titled) /\ b.done = done /\ b.current = <<>> /\ b.tokens = 0
  <2>1. <<>> \in Seq(Positions(groups))
    BY SeqForms
  <2>2. a.title \in Nat
    BY DEF PackInv, Packs
  <2>. QED
    BY <1>1, <1>14, <2>1, <2>2 DEF Packs
<1>16. TokensOf(<<>>, groups) = 0
  BY TokensOfNone
<1>17. FlattenSeq(TextsOf(done)) \o <<>> = FlattenSeq(TextsOf(done))
  <2>1. PICK dd \in Seq(Chunks(Positions(groups))) : dd = done
    BY <1>1, GoodType
  <2>2. PICK t \in Seq(Seq(Positions(groups))) : t = TextsOf(dd)
    BY TextsType
  <2>3. PICK f \in Seq(Positions(groups)) : f = FlattenSeq(t)
    BY FlattenType
  <2>4. f \o <<>> = f
    BY SeqForms
  <2>. QED
    BY <2>1, <2>2, <2>3, <2>4
<1>18. 0 < MaxTokens + MinTokens
  BY ChunkingAssumption
<1>19. PackInv(b, groups, titled, held \o Places(groups, g))
  BY <1>1, <1>10, <1>11, <1>12, <1>15, <1>16, <1>17, <1>18 DEF PackInv
<1>. QED
  BY <1>13, <1>19

\* A group that joins the current chunk, or begins the next one.
LEMMA JoinedSound ==
  ASSUME NEW groups \in Seq(Seq(Nat)), NEW titled \in BOOLEAN, NEW a, NEW held,
         NEW g \in DOMAIN groups, PackInv(a, groups, titled, held), Sum(groups[g]) # 0,
         ~ Large(groups, g), ~ StartsNext(a, Sum(groups[g]))
  PROVE  PackInv([done |-> a.done, current |-> a.current \o Places(groups, g),
                  tokens |-> a.tokens + Sum(groups[g]),
                  title |-> TitleWhenJoining(a, Title(titled, g))],
                 groups, titled, held \o Places(groups, g))
<1>1. PICK P, d, c, t, p, k, title :
        /\ P = Positions(groups) /\ d = a.done /\ c = a.current /\ t = a.tokens
        /\ p = Places(groups, g) /\ k = Sum(groups[g])
        /\ title = TitleWhenJoining(a, Title(titled, g))
  OBVIOUS
<1>2. d \in Seq(Good(groups, titled)) /\ c \in Seq(P) /\ t \in Nat /\ a.title \in Nat
  BY <1>1 DEF PackInv, Packs
<1>3. p \in Seq(P) /\ p # <<>> /\ p[1][1] = g /\ g # 0 /\ g \in Nat
  BY <1>1, PlacesOfGroup
<1>4. k \in Nat /\ TokensOf(p, groups) = k
  BY <1>1, PlacesSound
<1>5. c \o p \in Seq(P)
  BY <1>2, <1>3, SeqForms
<1>6. TokensOf(c \o p, groups) = t + k
  <2>1. TokensOf(c \o p, groups) = TokensOf(c, groups) + TokensOf(p, groups)
    BY <1>1, <1>2, <1>3, TokensConcat
  <2>2. t = TokensOf(c, groups)
    BY <1>1 DEF PackInv
  <2>. QED
    BY <2>1, <2>2, <1>4
<1>7. t + k \in Nat /\ t + k < MaxTokens + MinTokens
  <2>1. k <= MaxTokens
    BY <1>1, <1>4, ChunkingAssumption DEF Large
  <2>2. t + k <= Target \/ t < MinTokens
    BY <1>1, <1>2, <1>4, ChunkingAssumption DEF StartsNext
  <2>. QED
    BY <1>2, <1>4, <2>1, <2>2, ChunkingAssumption
<1>8. FlattenSeq(TextsOf(d)) \o (c \o p) = held \o p
  <2>1. PICK dd \in Seq(Chunks(P)) : dd = d
    BY <1>1, <1>2, GoodType
  <2>2. PICK ss \in Seq(Seq(P)) : ss = TextsOf(dd)
    BY TextsType
  <2>3. PICK f \in Seq(P) : f = FlattenSeq(ss)
    BY FlattenType
  <2>4. (f \o c) \o p = f \o (c \o p)
    <3>1. c \in Seq(P) /\ p \in Seq(P)
      BY <1>2, <1>3
    <3>. QED
      BY <3>1, ConcatAssociative, SMTT(30)
  <2>5. f \o c = held
    BY <1>1, <2>1, <2>2, <2>3 DEF PackInv
  <2>. QED
    BY <2>1, <2>2, <2>3, <2>4, <2>5
<1>9. title \in Nat
  BY <1>1, <1>2, <1>3 DEF TitleWhenJoining, Title
<1>10. titled => title = (c \o p)[1][1]
  <2>1. CASE c = <<>>
    <3>1. c \o p = p
      BY <2>1, <1>2, <1>3, EndsOfConcat
    <3>. QED
      BY <2>1, <3>1, <1>1, <1>3 DEF TitleWhenJoining, Title, NoChunk
  <2>2. CASE c # <<>>
    <3>1. (c \o p)[1] = c[1]
      BY <2>2, <1>2, <1>3, EndsOfConcat
    <3>2. titled => a.title = c[1][1]
      BY <2>2, <1>1 DEF PackInv
    <3>3. c[1][1] # 0
      <4>1. 1 \in DOMAIN c
        BY <2>2, <1>2
      <4>2. c[1] \in P
        BY <4>1, <1>2
      <4>3. c[1][1] \in DOMAIN groups
        BY <4>2, <1>1 DEF Positions
      <4>. QED
        BY <4>3
    <3>. QED
      BY <2>2, <3>1, <3>2, <3>3, <1>1 DEF TitleWhenJoining, NoChunk
  <2>. QED
    BY <2>1, <2>2
<1>11. PICK b : b = [done |-> d, current |-> c \o p, tokens |-> t + k, title |-> title]
  OBVIOUS
<1>12. b \in Packs(groups, titled) /\ b.done = d /\ b.current = c \o p /\ b.tokens = t + k
       /\ b.title = title
  BY <1>1, <1>2, <1>5, <1>7, <1>9, <1>11 DEF Packs
<1>13. Chained(d, Follow(groups, titled)) /\ (d # <<>> => d[Len(d)] \in Firm(groups, titled))
  BY <1>1 DEF PackInv
<1>14. PackInv(b, groups, titled, held \o p)
  BY <1>6, <1>7, <1>8, <1>10, <1>12, <1>13 DEF PackInv
<1>. QED
  BY <1>1, <1>11, <1>14

\* A group that begins the next chunk, when the current one is large enough.
LEMMA NextSound ==
  ASSUME NEW groups \in Seq(Seq(Nat)), NEW titled \in BOOLEAN, NEW a, NEW held,
         NEW g \in DOMAIN groups, PackInv(a, groups, titled, held), Sum(groups[g]) # 0,
         ~ Large(groups, g), StartsNext(a, Sum(groups[g]))
  PROVE  PackInv([done |-> Append(a.done, Done(a.current, a.title)),
                  current |-> Places(groups, g), tokens |-> Sum(groups[g]),
                  title |-> Title(titled, g)],
                 groups, titled, held \o Places(groups, g))
<1>1. PICK p, k, c, d :
        /\ p = Places(groups, g) /\ k = Sum(groups[g])
        /\ c = Done(a.current, a.title) /\ d = Append(a.done, Done(a.current, a.title))
  OBVIOUS
<1>2. p \in Seq(Positions(groups)) /\ p # <<>> /\ p[1][1] = g /\ g \in Nat
  BY <1>1, PlacesOfGroup
<1>3. k \in Nat /\ TokensOf(p, groups) = k
  BY <1>1, PlacesSound
<1>4. k < MaxTokens + MinTokens
  BY <1>1, <1>3, ChunkingAssumption DEF Large
<1>5. a.current # <<>>
  <2>1. a.tokens \in Nat /\ a.tokens = TokensOf(a.current, groups)
    BY DEF PackInv, Packs
  <2>2. a.tokens >= MinTokens
    BY DEF StartsNext
  <2>. QED
    BY <2>1, <2>2, TokensOfNone, ChunkingAssumption
<1>6. /\ c \in Firm(groups, titled)
      /\ d \in Seq(Good(groups, titled)) /\ FlattenSeq(TextsOf(d)) = held
      /\ Chained(d, Follow(groups, titled))
  BY <1>1, <1>5, DoneSound DEF StartsNext
<1>7. d # <<>> /\ d[Len(d)] = c
  <2>1. PICK dd \in Seq(Good(groups, titled)) : dd = a.done
    BY DEF PackInv, Packs
  <2>2. c \in Good(groups, titled)
    BY <1>6, GoodType
  <2>3. Append(dd, c) # <<>> /\ Append(dd, c)[Len(Append(dd, c))] = c
    BY <2>2, LastOfAppend
  <2>. QED
    BY <1>1, <2>1, <2>3
<1>8. Title(titled, g) \in Nat /\ (titled => Title(titled, g) = p[1][1])
  BY <1>2 DEF Title
<1>9. PICK b : b = [done |-> d, current |-> p, tokens |-> k, title |-> Title(titled, g)]
  OBVIOUS
<1>10. b \in Packs(groups, titled) /\ b.done = d /\ b.current = p /\ b.tokens = k
       /\ b.title = Title(titled, g)
  BY <1>2, <1>3, <1>6, <1>8, <1>9 DEF Packs
<1>11. PackInv(b, groups, titled, held \o p)
  BY <1>2, <1>3, <1>4, <1>6, <1>7, <1>8, <1>10 DEF PackInv
<1>. QED
  BY <1>1, <1>9, <1>11

\* A group more leaves the invariant, whichever way it is packed.
LEMMA PackSound ==
  ASSUME NEW groups \in Seq(Seq(Nat)), NEW titled \in BOOLEAN, NEW a, NEW held,
         NEW g \in DOMAIN groups, PackInv(a, groups, titled, held)
  PROVE  PackInv(Pack(a, groups, g, Title(titled, g)), groups, titled, held \o Held(groups, g))
<1>1. CASE Sum(groups[g]) = 0
  <2>1. Pack(a, groups, g, Title(titled, g)) = a /\ Held(groups, g) = <<>>
    BY <1>1 DEF Pack, Held
  <2>2. held \in Seq(Positions(groups))
    <3>1. a.done \in Seq(Chunks(Positions(groups))) /\ a.current \in Seq(Positions(groups))
      BY GoodType DEF PackInv, Packs
    <3>2. PICK f \in Seq(Positions(groups)) : f = FlattenSeq(TextsOf(a.done))
      BY <3>1, TextsType, FlattenType
    <3>3. f \o a.current \in Seq(Positions(groups))
      BY <3>1, SeqForms
    <3>. QED
      BY <3>2, <3>3 DEF PackInv
  <2>3. held \o <<>> = held
    BY <2>2, SeqForms
  <2>. QED
    BY <2>1, <2>3
<1>2. CASE Sum(groups[g]) # 0
  <2>1. Held(groups, g) = Places(groups, g)
    BY <1>2 DEF Held
  <2>2. CASE Large(groups, g)
    <3>1. Pack(a, groups, g, Title(titled, g)) = Oversized(a, groups, g, Title(titled, g))
      BY <1>2, <2>2 DEF Pack, Large
    <3>. QED
      BY <2>1, <2>2, <3>1, OversizedSound
  <2>3. CASE ~ Large(groups, g) /\ StartsNext(a, Sum(groups[g]))
    <3>1. Pack(a, groups, g, Title(titled, g))
          = [done |-> Append(a.done, Done(a.current, a.title)),
             current |-> Places(groups, g), tokens |-> Sum(groups[g]),
             title |-> Title(titled, g)]
      BY <1>2, <2>3 DEF Pack, Large
    <3>. QED
      BY <1>2, <2>1, <2>3, <3>1, NextSound
  <2>4. CASE ~ Large(groups, g) /\ ~ StartsNext(a, Sum(groups[g]))
    <3>1. Pack(a, groups, g, Title(titled, g))
          = [done |-> a.done, current |-> a.current \o Places(groups, g),
             tokens |-> a.tokens + Sum(groups[g]),
             title |-> TitleWhenJoining(a, Title(titled, g))]
      BY <1>2, <2>4 DEF Pack, Large
    <3>. QED
      BY <1>2, <2>1, <2>4, <3>1, JoinedSound
  <2>. QED
    BY <2>2, <2>3, <2>4
<1>. QED
  BY <1>1, <1>2

\* The types only, under which the recursion of PackTo is defined.
PackTypes(groups) ==
  [done : Seq(Chunks(Positions(groups))), current : Seq(Positions(groups)), tokens : Nat, title : Nat]

\* Packing a group keeps them.
LEMMA PackType ==
  ASSUME NEW groups \in Seq(Seq(Nat)), NEW titled \in BOOLEAN, NEW g \in DOMAIN groups,
         NEW a \in PackTypes(groups)
  PROVE  Pack(a, groups, g, Title(titled, g)) \in PackTypes(groups)
<1>1. PICK P, C, p, k :
        P = Positions(groups) /\ C = Chunks(P) /\ p = Places(groups, g) /\ k = Sum(groups[g])
  OBVIOUS
<1>2. a.done \in Seq(C) /\ a.current \in Seq(P) /\ a.tokens \in Nat /\ a.title \in Nat
  BY <1>1 DEF PackTypes
<1>3. p \in Seq(P) /\ k \in Nat
  BY <1>1, PlacesSound
<1>4. Title(titled, g) \in Nat /\ TitleWhenJoining(a, Title(titled, g)) \in Nat
  <2>1. g \in Nat
    OBVIOUS
  <2>. QED
    BY <2>1, <1>2 DEF Title, TitleWhenJoining
<1>5. Done(a.current, a.title) \in C
  BY <1>1, <1>2 DEF Done, Chunks
<1>6. Append(a.done, Done(a.current, a.title)) \in Seq(C)
  BY <1>2, <1>5, SeqForms
<1>7. a.current \o p \in Seq(P)
  BY <1>2, <1>3, SeqForms
<1>8. <<>> \in Seq(P) /\ 0 \in Nat
  BY SeqForms
<1>9. CASE k = 0
  BY <1>1, <1>9 DEF Pack
<1>10. CASE k # 0 /\ k > MaxTokens
  <2>1. Cut(groups, g, Title(titled, g)) \in Seq(C)
    BY <1>1, <1>10, CutSound, GoodType DEF Large
  <2>2. Flushed(a) \in Seq(C)
    BY <1>2, <1>6 DEF Flushed
  <2>3. Flushed(a) \o Cut(groups, g, Title(titled, g)) \in Seq(C)
    BY <2>1, <2>2, SeqForms
  <2>4. Pack(a, groups, g, Title(titled, g))
        = [done |-> Flushed(a) \o Cut(groups, g, Title(titled, g)), current |-> <<>>,
           tokens |-> 0, title |-> a.title]
    BY <1>1, <1>10 DEF Pack, Oversized, NoChunk
  <2>. QED
    BY <1>1, <1>2, <1>8, <2>3, <2>4 DEF PackTypes
<1>11. CASE k # 0 /\ ~ (k > MaxTokens) /\ StartsNext(a, k)
  <2>1. Pack(a, groups, g, Title(titled, g))
        = [done |-> Append(a.done, Done(a.current, a.title)), current |-> p, tokens |-> k,
           title |-> Title(titled, g)]
    BY <1>1, <1>11 DEF Pack
  <2>. QED
    BY <1>1, <1>3, <1>4, <1>6, <2>1 DEF PackTypes
<1>12. CASE k # 0 /\ ~ (k > MaxTokens) /\ ~ StartsNext(a, k)
  <2>1. Pack(a, groups, g, Title(titled, g))
        = [done |-> a.done, current |-> a.current \o p, tokens |-> a.tokens + k,
           title |-> TitleWhenJoining(a, Title(titled, g))]
    BY <1>1, <1>12 DEF Pack
  <2>2. a.tokens + k \in Nat
    BY <1>2, <1>3
  <2>. QED
    BY <1>1, <1>2, <1>4, <1>7, <2>1, <2>2 DEF PackTypes
<1>. QED
  BY <1>9, <1>10, <1>11, <1>12

\* Packing goes through the text one group after the other.
LEMMA PackToDef ==
  ASSUME NEW groups \in Seq(Seq(Nat)), NEW titled \in BOOLEAN
  PROVE  /\ PackTo(groups, titled, 0) = Empty
         /\ \A n \in 1 .. Len(groups) :
              PackTo(groups, titled, n)
              = Pack(PackTo(groups, titled, n - 1), groups, n, Title(titled, n))
<1> DEFINE N == Len(groups)
           S == PackTypes(groups)
           step == [n \in 1 .. N |-> [a \in S |-> Pack(a, groups, n, Title(titled, n))]]
           Is(h) == h = [g \in 0 .. N |-> IF g = 0 THEN Empty
                                          ELSE Pack(h[g - 1], groups, g, IF titled THEN g ELSE 0)]
           f == CHOOSE h : Is(h)
<1>1. N \in Nat /\ DOMAIN groups = 1 .. N
  OBVIOUS
<1>2. \A n \in 1 .. N, a \in S : Pack(a, groups, n, Title(titled, n)) \in S
  BY <1>1, PackType
<1>. HIDE DEF N
<1>3. step \in [1 .. N -> [S -> S]]
  BY <1>2
<1>4. Empty \in S
  <2>1. <<>> \in Seq(Positions(groups)) /\ <<>> \in Seq(Chunks(Positions(groups)))
    BY SeqForms
  <2>. QED
    BY <2>1 DEF Empty, PackTypes, NoChunk
<1>. HIDE DEF S
<1>5. PICK h : Follows(h, N, S, Empty, step)
  <2>. HIDE DEF step
  <2>. QED
    BY <1>1, <1>3, <1>4, Recursion
<1>6. Is(h)
  <2>1. h \in [0 .. N -> S] /\ h[0] = Empty
    BY <1>5 DEF Follows
  <2>2. \A n \in 1 .. N : h[n - 1] \in S
    BY <1>1, <2>1
  <2>3. \A n \in 1 .. N : h[n] = Pack(h[n - 1], groups, n, Title(titled, n))
    BY <2>2, <1>5 DEF Follows
  <2>4. \A n \in 0 .. N : n # 0 => n \in 1 .. N
    BY <1>1
  <2>. QED
    BY <2>1, <2>3, <2>4 DEF Title
<1>7. Is(f)
  BY <1>6
<1>8. \A g \in 0 .. N :
        f[g] = IF g = 0 THEN Empty ELSE Pack(f[g - 1], groups, g, Title(titled, g))
  <2>. HIDE DEF f
  <2>. QED
    BY <1>7 DEF Title
<1>9. \A n : PackTo(groups, titled, n) = f[n]
  BY DEF PackTo, N
<1>. HIDE DEF f
<1>10. 0 \in 0 .. N /\ \A n \in 1 .. N : n \in 0 .. N /\ n # 0
  BY <1>1
<1>. QED
  BY <1>8, <1>9, <1>10 DEF N

\* The invariant holds before the first group.
LEMMA EmptySound ==
  ASSUME NEW groups \in Seq(Seq(Nat)), NEW titled \in BOOLEAN
  PROVE  PackInv(Empty, groups, titled, <<>>)
<1>1. PICK G, P : G = Good(groups, titled) /\ P = Positions(groups)
  OBVIOUS
<1>2. PICK d \in Seq(G) : d = <<>>
  BY SeqForms
<1>3. PICK c \in Seq(P) : c = <<>>
  BY SeqForms
<1>4. Empty = [done |-> d, current |-> c, tokens |-> 0, title |-> 0]
  BY <1>2, <1>3 DEF Empty, NoChunk
<1>5. Empty \in Packs(groups, titled)
  BY <1>1, <1>4 DEF Packs
<1>6. FlattenSeq(TextsOf(<<>>)) \o <<>> = <<>>
  <2>1. TextsOf(<<>>) = <<>>
    <3>1. PICK e \in Seq(Chunks(P)) : e = <<>>
      BY SeqForms
    <3>2. PICK t \in Seq(Seq(P)) : t = TextsOf(e) /\ Len(t) = Len(e)
      BY TextsType
    <3>. QED
      BY <3>1, <3>2
  <2>2. <<>> \o <<>> = <<>>
    BY <1>3, SeqForms
  <2>. QED
    BY <2>1, <2>2, FlattenEmpty
<1>7. Chained(d, Follow(groups, titled))
  BY <1>2 DEF Chained
<1>. QED
  BY <1>2, <1>3, <1>4, <1>5, <1>6, <1>7, TokensOfNone, ChunkingAssumption DEF PackInv

\* The chunks of a text: each good, each rightly followed, and together the whole text.
LEMMA ChunkingSound ==
  ASSUME NEW groups \in Seq(Seq(Nat)), NEW titled \in BOOLEAN, NEW chunks,
         chunks = Flushed(PackTo(groups, titled, Len(groups)))
  PROVE  /\ chunks \in Seq(Good(groups, titled))
         /\ FlattenSeq(TextsOf(chunks)) = FlattenSeq(Contents(groups))
         /\ Chained(chunks, Follow(groups, titled))
<1>1. PICK N \in Nat : N = Len(groups) /\ DOMAIN groups = 1 .. N
  OBVIOUS
<1>2. \A g \in 1 .. N : Held(groups, g) \in Seq(Positions(groups))
  <2> TAKE g \in 1 .. N
  <2>1. <<>> \in Seq(Positions(groups)) /\ Places(groups, g) \in Seq(Positions(groups))
    BY <1>1, SeqForms, PlacesSound
  <2>. QED
    BY <2>1 DEF Held
<1>3. PICK cc \in Seq(Seq(Positions(groups))) :
        cc = Contents(groups) /\ Len(cc) = N /\ \A g \in 1 .. N : cc[g] = Held(groups, g)
  <2>1. PICK h : h = [g \in 1 .. N |-> Held(groups, g)]
    OBVIOUS
  <2>2. h = Contents(groups)
    BY <1>1, <2>1 DEF Contents, Held
  <2>3. h \in [1 .. N -> Seq(Positions(groups))]
    BY <1>2, <2>1
  <2>4. h \in Seq(Seq(Positions(groups))) /\ Len(h) = N
    BY <2>3, SeqForms
  <2>. QED
    BY <2>1, <2>2, <2>4
<1>4. PICK f : Flattens(f, cc, Positions(groups))
  BY FlattenDef
<1> DEFINE P == {n \in 0 .. N : PackInv(PackTo(groups, titled, n), groups, titled, f[n])}
<1>5. 0 \in P
  <2>1. f[0] = <<>> /\ PackTo(groups, titled, 0) = Empty
    BY <1>4, PackToDef DEF Flattens
  <2>. QED
    BY <2>1, EmptySound
<1>6. ASSUME NEW n \in 1 .. N, n - 1 \in P PROVE n \in P
  <2>1. n \in DOMAIN groups /\ n \in 0 .. N /\ n \in 1 .. Len(cc) /\ n \in 1 .. Len(groups)
    BY <1>1, <1>3
  <2>2. f[n] = f[n - 1] \o Held(groups, n)
    BY <2>1, <1>3, <1>4 DEF Flattens
  <2>3. PackTo(groups, titled, n) = Pack(PackTo(groups, titled, n - 1), groups, n, Title(titled, n))
    BY <2>1, PackToDef
  <2>4. PackInv(PackTo(groups, titled, n - 1), groups, titled, f[n - 1])
    BY <1>6
  <2>5. PackInv(PackTo(groups, titled, n), groups, titled, f[n])
    BY <2>1, <2>2, <2>3, <2>4, PackSound
  <2>. QED
    BY <2>1, <2>5
<1>7. \A n \in 0 .. N : n \in P
  <2>. HIDE DEF P
  <2>. QED
    BY <1>5, <1>6, Induction
<1>8. PackInv(PackTo(groups, titled, N), groups, titled, f[N])
  BY <1>7
<1>9. f[N] = FlattenSeq(Contents(groups))
  BY <1>3, <1>4 DEF Flattens
<1>. QED
  BY <1>1, <1>8, <1>9, FlushedSound

-----------------------------------------------------------------------------
(* What the chunks promise. *)

\* So the chunks have the properties that ChunksAreSound and SectionsAreSound ask of them.
LEMMA ChunksKeep ==
  ASSUME NEW groups \in Seq(Seq(Nat)), NEW titled \in BOOLEAN, NEW chunks,
         chunks = Flushed(PackTo(groups, titled, Len(groups)))
  PROVE  /\ KeepsText(chunks, groups) /\ BoundedChunks(chunks, groups)
         /\ SmallOnlyAtBreaks(chunks, groups)
         /\ titled => TitledByFirst(chunks)
<1>1. PICK G, R : G = Good(groups, titled) /\ R = Follow(groups, titled)
  OBVIOUS
<1>2. PICK c \in Seq(G) : /\ c = chunks /\ Chained(c, R)
                         /\ FlattenSeq(TextsOf(c)) = FlattenSeq(Contents(groups))
  BY <1>1, ChunkingSound
<1>3. PICK N \in Nat : N = Len(c) /\ DOMAIN c = 1 .. N
  OBVIOUS
<1>4. \A i \in 1 .. N :
        /\ c[i] \in G /\ c[i].places \in Seq(Positions(groups)) /\ c[i].places # <<>>
        /\ TokensOf(c[i].places, groups) < MaxTokens + MinTokens \/ Len(c[i].places) = 1
        /\ titled => c[i].title = c[i].places[1][1]
  <2> TAKE i \in 1 .. N
  <2>1. c[i] \in G
    BY <1>3
  <2>. QED
    BY <2>1, <1>1 DEF Good, Chunks
<1>5. KeepsText(chunks, groups)
  BY <1>2, <1>3, <1>4 DEF KeepsText, TextsOf, Contents
<1>6. BoundedChunks(chunks, groups)
  BY <1>2, <1>3, <1>4 DEF BoundedChunks
<1>7. SmallOnlyAtBreaks(chunks, groups)
  <2> SUFFICES ASSUME NEW i \in 1 .. N, TokensOf(c[i].places, groups) < MinTokens, i # N
               PROVE  \/ Sum(groups[Last(c[i].places)[1]]) > MaxTokens
                      \/ Sum(groups[Head(c[i + 1].places)[1]]) > MaxTokens
    BY <1>2, <1>3 DEF SmallOnlyAtBreaks
  <2>1. i \in 1 .. N - 1
    OBVIOUS
  <2>2. <<c[i], c[i + 1]>> \in R
    BY <2>1, <1>2, <1>3 DEF Chained
  <2>3. c[i] \in Firm(groups, titled) \/ Large(groups, c[i + 1].places[1][1])
    BY <2>2, <1>1 DEF Follow
  <2>4. c[i] \in Firm(groups, titled) => Large(groups, c[i].places[Len(c[i].places)][1])
    BY DEF Firm, Small
  <2>5. Last(c[i].places) = c[i].places[Len(c[i].places)]
    BY DEF Last
  <2>6. Head(c[i + 1].places) = c[i + 1].places[1]
    <3>1. i + 1 \in 1 .. N
      BY <2>1
    <3>2. PICK s \in Seq(Positions(groups)) : s = c[i + 1].places /\ s # <<>>
      BY <3>1, <1>4
    <3>3. Head(s) = s[1]
      OBVIOUS
    <3>. QED
      BY <3>2, <3>3
  <2>. QED
    BY <2>3, <2>4, <2>5, <2>6 DEF Large
<1>8. ASSUME titled PROVE TitledByFirst(chunks)
  <2>1. \A i \in 1 .. N : Head(c[i].places) = c[i].places[1]
    <3> TAKE i \in 1 .. N
    <3>1. PICK s \in Seq(Positions(groups)) : s = c[i].places
      BY <1>4
    <3>2. Head(s) = s[1]
      OBVIOUS
    <3>. QED
      BY <3>1, <3>2
  <2>2. \A i \in 1 .. N : c[i].title = c[i].places[1][1]
    BY <1>4, <1>8
  <2>. QED
    BY <2>1, <2>2, <1>2, <1>3 DEF TitledByFirst
<1>. QED
  BY <1>5, <1>6, <1>7, <1>8

\* A bounded set of numbers that is not empty has a greatest one.
LEMMA Greatest ==
  ASSUME NEW N \in Nat, NEW S, S \subseteq 0 .. N, S # {}
  PROVE  \E n \in S : \A m \in S : m <= n
<1> DEFINE T == {n \in 0 .. N : N - n \in S}
<1>1. PICK k : k \in S
  OBVIOUS
<1>2. N - k \in T /\ T \subseteq Nat
  BY <1>1
<1>. HIDE DEF T
<1>3. PICK n \in T : \A m \in T : n <= m
  BY <1>2, Least
<1>. USE DEF T
<1>4. N - n \in S /\ \A m \in S : N - m \in T
  <2>1. \A m \in S : m \in 0 .. N /\ N - m \in 0 .. N /\ N - (N - m) = m
    OBVIOUS
  <2>. QED
    BY <2>1, <1>3
<1>5. \A m \in S : m <= N - n
  <2> TAKE m \in S
  <2>1. n <= N - m
    BY <1>3, <1>4
  <2>2. m \in 0 .. N /\ n \in Nat
    BY <1>3
  <2>. QED
    BY <2>1, <2>2
<1>. QED
  BY <1>4, <1>5

\* What FiniteSetsExt calls the maximum is that.
LEMMA MaxIsGreatest ==
  ASSUME NEW N \in Nat, NEW S, S \subseteq 0 .. N, S # {}
  PROVE  Max(S) \in S /\ \A m \in S : m <= Max(S)
BY Greatest DEF Max

-----------------------------------------------------------------------------
(* Pages. *)

\* Pages follow each other, the first at 0.
LEMMA PageStarts ==
  ASSUME NEW lengths \in Seq(Nat), lengths # <<>>
  PROVE  /\ PageStart(lengths, 1) = 0
         /\ \A n \in 1 .. Len(lengths) :
              /\ PageStart(lengths, n) \in Nat /\ PageNext(lengths, n) \in Nat
              /\ PageStart(lengths, n) + lengths[n] + 2 = PageNext(lengths, n)
              /\ n > 1 => PageNext(lengths, n - 1) = PageStart(lengths, n)
              /\ \A m \in 1 .. n : PageStart(lengths, m) <= PageStart(lengths, n)
<1>1. PICK N \in Nat \ {0} : N = Len(lengths)
  OBVIOUS
<1>2. \A n \in 1 .. N : lengths[n] \in Nat /\ n - 1 \in 0 .. N /\ SumTo(lengths, n - 1) \in Nat
  BY <1>1, SumToType
<1>3. \A n \in 1 .. N : SumTo(lengths, n) = SumTo(lengths, n - 1) + lengths[n]
  BY <1>1, SumToDef
<1>4. PageStart(lengths, 1) = 0
  <2>1. 1 - 1 = 0 /\ SumTo(lengths, 0) = 0
    BY SumToDef
  <2>. QED
    BY <2>1 DEF PageStart
<1>5. \A n \in 1 .. N :
        /\ PageStart(lengths, n) \in Nat /\ PageNext(lengths, n) \in Nat
        /\ PageStart(lengths, n) + lengths[n] + 2 = PageNext(lengths, n)
  <2> TAKE n \in 1 .. N
  <2>1. PICK s \in Nat, l \in Nat : s = SumTo(lengths, n - 1) /\ l = lengths[n]
    BY <1>2
  <2>2. s + 2 * (n - 1) \in Nat /\ (s + 2 * (n - 1)) + l + 2 \in Nat
    OBVIOUS
  <2>3. PageStart(lengths, n) = s + 2 * (n - 1) /\ PageNext(lengths, n) = (s + 2 * (n - 1)) + l + 2
    BY <2>1 DEF PageStart, PageNext
  <2>. QED
    BY <2>1, <2>2, <2>3
<1>6. \A n \in 1 .. N : n > 1 => PageNext(lengths, n - 1) = PageStart(lengths, n)
  <2> TAKE n \in 1 .. N
  <2> HAVE n > 1
  <2>1. n - 1 \in 1 .. N
    OBVIOUS
  <2>2. SumTo(lengths, n - 1) = SumTo(lengths, (n - 1) - 1) + lengths[n - 1]
    BY <2>1, <1>3
  <2>3. SumTo(lengths, (n - 1) - 1) \in Nat /\ lengths[n - 1] \in Nat
    BY <2>1, <1>2
  <2>. QED
    BY <2>2, <2>3 DEF PageStart, PageNext
<1> DEFINE P == {n \in 0 .. N : \A m \in 1 .. n : PageStart(lengths, m) <= PageStart(lengths, n)}
<1>7. 0 \in P
  OBVIOUS
<1>8. ASSUME NEW n \in 1 .. N, n - 1 \in P PROVE n \in P
  <2>1. n \in 0 .. N /\ PageStart(lengths, n) \in Nat
    BY <1>5
  <2>2. ASSUME NEW m \in 1 .. n PROVE PageStart(lengths, m) <= PageStart(lengths, n)
    <3>1. CASE m = n
      BY <3>1, <2>1
    <3>2. CASE m # n
      <4>1. n > 1 /\ n - 1 \in 1 .. N /\ m \in 1 .. n - 1 /\ m \in 1 .. N
        BY <3>2
      <4>2. PageStart(lengths, m) <= PageStart(lengths, n - 1)
        BY <4>1, <1>8
      <4>3. PageStart(lengths, n - 1) + lengths[n - 1] + 2 = PageStart(lengths, n)
        BY <4>1, <1>5, <1>6
      <4>4. lengths[n - 1] \in Nat /\ PageStart(lengths, n - 1) \in Nat /\ PageStart(lengths, m) \in Nat
        BY <4>1, <1>2, <1>5
      <4>. QED
        BY <2>1, <4>2, <4>3, <4>4
    <3>. QED
      BY <3>1, <3>2
  <2>. QED
    BY <2>1, <2>2
<1>9. \A n \in 0 .. N : n \in P
  <2>. HIDE DEF P
  <2>. QED
    BY <1>7, <1>8, Induction
<1>10. \A n \in 1 .. N : \A m \in 1 .. n : PageStart(lengths, m) <= PageStart(lengths, n)
  BY <1>9
<1>. QED
  BY <1>1, <1>4, <1>5, <1>6, <1>10

\* The first page found starts no later than the chunk, the last one ends no earlier.
LEMMA PagesSound ==
  ASSUME NEW lengths \in Seq(Nat), lengths # <<>>,
         NEW length, length = PageStart(lengths, Len(lengths)) + lengths[Len(lengths)],
         NEW from \in NotFound .. length - 1, NEW to \in from + 1 .. length
  PROVE  RangeHolds(lengths, from, to)
<1> SUFFICES ASSUME from # NotFound PROVE RangeHolds(lengths, from, to)
  BY DEF RangeHolds
<1>1. PICK N \in Nat \ {0} : N = Len(lengths) /\ DOMAIN lengths = 1 .. N
  OBVIOUS
<1>2. PICK S, E : /\ S = [n \in 1 .. N |-> PageStart(lengths, n)]
                  /\ E = [n \in 1 .. N |-> PageNext(lengths, n)]
  OBVIOUS
<1>3. /\ S[1] = 0 /\ N \in 1 .. N /\ 1 \in 1 .. N
      /\ \A n \in 1 .. N : /\ S[n] = PageStart(lengths, n) /\ E[n] = PageNext(lengths, n)
                           /\ S[n] \in Nat /\ E[n] \in Nat
                           /\ n > 1 => E[n - 1] = S[n]
                           /\ \A m \in 1 .. n : S[m] <= S[n]
  <2>1. S[1] = 0 /\ N \in 1 .. N /\ 1 \in 1 .. N
    BY <1>1, <1>2, PageStarts
  <2>2. ASSUME NEW n \in 1 .. N
        PROVE  /\ S[n] = PageStart(lengths, n) /\ E[n] = PageNext(lengths, n)
               /\ S[n] \in Nat /\ E[n] \in Nat
               /\ n > 1 => E[n - 1] = S[n]
               /\ \A m \in 1 .. n : S[m] <= S[n]
    <3>1. \A m \in 1 .. n : m \in 1 .. N
      OBVIOUS
    <3>2. n > 1 => n - 1 \in 1 .. N
      OBVIOUS
    <3>. QED
      BY <3>1, <3>2, <1>1, <1>2, PageStarts
  <2>. QED
    BY <2>1, <2>2
<1>4. length \in Nat /\ E[N] = length + 2
  <2>1. lengths[N] \in Nat
    BY <1>1
  <2>2. PageStart(lengths, N) \in Nat /\ PageStart(lengths, N) + lengths[N] + 2 = PageNext(lengths, N)
    BY <1>1, <1>3, PageStarts
  <2>3. length = PageStart(lengths, N) + lengths[N]
    BY <1>1
  <2>. QED
    <3>1. E[N] = PageNext(lengths, N)
      BY <1>3
    <3>. QED
      BY <2>1, <2>2, <2>3, <3>1
<1>5. from \in Nat /\ to \in Nat /\ from < to /\ from < length /\ to <= length
  BY <1>4 DEF NotFound
<1> DEFINE starting == {n \in 1 .. N : S[n] <= from /\ from < E[n]}
           ending == {n \in 1 .. N : S[n] <= to /\ to <= E[n]}
<1>6. starting # {}
  <2>1. PICK n \in {m \in 1 .. N : from < E[m]} : \A k \in {m \in 1 .. N : from < E[m]} : n <= k
    <3>1. N \in {m \in 1 .. N : from < E[m]} /\ {m \in 1 .. N : from < E[m]} \subseteq Nat
      BY <1>3, <1>4, <1>5
    <3>. QED
      BY <3>1, Least
  <2>2. n > 1 => E[n - 1] <= from
    <3>1. n > 1 => n - 1 \in 1 .. N /\ ~ (n <= n - 1)
      BY <2>1
    <3>. QED
      BY <2>1, <3>1, <1>3, <1>5
  <2>3. S[n] <= from
    BY <2>1, <2>2, <1>3, <1>5
  <2>. QED
    BY <2>1, <2>3
<1>7. ending # {}
  <2>1. PICK n \in {m \in 1 .. N : to <= E[m]} : \A k \in {m \in 1 .. N : to <= E[m]} : n <= k
    <3>1. N \in {m \in 1 .. N : to <= E[m]} /\ {m \in 1 .. N : to <= E[m]} \subseteq Nat
      BY <1>3, <1>4, <1>5
    <3>. QED
      BY <3>1, Least
  <2>2. n > 1 => E[n - 1] <= to
    <3>1. n > 1 => n - 1 \in 1 .. N /\ ~ (n <= n - 1)
      BY <2>1
    <3>. QED
      BY <2>1, <3>1, <1>3, <1>5
  <2>3. S[n] <= to
    BY <2>1, <2>2, <1>3, <1>5
  <2>. QED
    BY <2>1, <2>3
<1>0. starting \subseteq Nat /\ ending \subseteq Nat
  OBVIOUS
<1>8. PICK first \in starting : first = Min(starting)
  <2>. HIDE DEF starting
  <2>. QED
    BY <1>0, <1>6, MinIsLeast
<1>9. PICK last \in ending : last = Min(ending)
  <2>. HIDE DEF ending
  <2>. QED
    BY <1>0, <1>7, MinIsLeast
<1>10. starting = {n \in DOMAIN lengths : PageStart(lengths, n) <= from /\ from < PageNext(lengths, n)}
  BY <1>1, <1>3
<1>11. ending = {n \in DOMAIN lengths : PageStart(lengths, n) <= to /\ to <= PageNext(lengths, n)}
  BY <1>1, <1>3
<1>12. find_page_range(lengths, from, to) = [page_start |-> first, page_end |-> last]
  <2>. HIDE DEF starting, ending
  <2>. QED
    BY <1>6, <1>7, <1>8, <1>9, <1>10, <1>11 DEF find_page_range, FirstPage
<1>13. first <= last
  <2> SUFFICES ASSUME last < first PROVE FALSE
    BY <1>8, <1>9
  <2>1. last + 1 \in 1 .. first /\ last + 1 \in 1 .. N /\ last + 1 > 1 /\ (last + 1) - 1 = last
    BY <1>8, <1>9
  <2>2. E[last] = S[last + 1]
    BY <2>1, <1>3
  <2>3. S[last + 1] <= S[first] /\ S[last + 1] \in Nat /\ S[first] \in Nat
    BY <2>1, <1>3, <1>8
  <2>4. S[first] <= from /\ to <= E[last]
    BY <1>8, <1>9
  <2>. QED
    BY <2>2, <2>3, <2>4, <1>5
<1>14. /\ S[first] <= from /\ from < E[first] /\ S[last] <= to /\ to <= E[last]
       /\ first \in 1 .. N /\ last \in 1 .. N
  BY <1>8, <1>9
<1>. QED
  BY <1>3, <1>12, <1>13, <1>14 DEF RangeHolds

-----------------------------------------------------------------------------
(* Sections. *)

\* Segments of a text, and those that meet.
Segments(length) == [title : Nat, from : 0 .. length, to : 0 .. length]
Meeting(length) == {p \in Segments(length) \X Segments(length) : p[1].to = p[2].from}

\* Where sections start: in the text, and none before the one before it.
Sorted(length, starts) ==
  /\ length \in Nat \ {0} /\ starts \in Seq(0 .. length)
  /\ \A i, j \in DOMAIN starts : i < j => starts[i] <= starts[j]

\* A section ends where the next one starts, the last at the end of the text.
LEMMA EndsOfSections ==
  ASSUME NEW length, NEW starts, Sorted(length, starts)
  PROVE  /\ Len(starts) \in Nat /\ DOMAIN starts = 1 .. Len(starts)
         /\ \A i \in 1 .. Len(starts) :
              /\ starts[i] \in 0 .. length /\ SegmentEnd(length, starts, i) \in 0 .. length
              /\ starts[i] <= SegmentEnd(length, starts, i)
              /\ i < Len(starts) => SegmentEnd(length, starts, i) = starts[i + 1]
         /\ SegmentEnd(length, starts, Len(starts)) = length
<1>1. /\ length \in Nat \ {0} /\ starts \in Seq(0 .. length)
      /\ \A i, j \in DOMAIN starts : i < j => starts[i] <= starts[j]
  BY DEF Sorted
<1>2. PICK N \in Nat : N = Len(starts) /\ DOMAIN starts = 1 .. N
  BY <1>1
<1>3. \A i \in 1 .. N : starts[i] \in 0 .. length
  BY <1>1, <1>2
<1>4. ASSUME NEW i \in 1 .. N
      PROVE  /\ SegmentEnd(length, starts, i) \in 0 .. length
             /\ starts[i] <= SegmentEnd(length, starts, i)
             /\ i < N => SegmentEnd(length, starts, i) = starts[i + 1]
  <2>1. CASE i < N
    <3>1. i + 1 \in 1 .. N /\ i < i + 1
      BY <2>1
    <3>2. SegmentEnd(length, starts, i) = starts[i + 1]
      BY <2>1, <1>2 DEF SegmentEnd
    <3>. QED
      BY <3>1, <3>2, <1>1, <1>2, <1>3
  <2>2. CASE ~ (i < N)
    <3>1. SegmentEnd(length, starts, i) = length
      BY <2>2, <1>2 DEF SegmentEnd
    <3>. QED
      BY <2>2, <3>1, <1>1, <1>3
  <2>. QED
    BY <2>1, <2>2
<1>5. SegmentEnd(length, starts, N) = length
  BY <1>2 DEF SegmentEnd
<1>. QED
  BY <1>2, <1>3, <1>4, <1>5

\* The segments with that of one more section.
OneNamed(s, length, starts, n) ==
  IF starts[n] < SegmentEnd(length, starts, n)
  THEN Append(s, Segment(n, starts[n], SegmentEnd(length, starts, n)))
  ELSE s

\* The segments are made of one section after the other.
LEMMA NamedToDef ==
  ASSUME NEW length, NEW starts, Sorted(length, starts)
  PROVE  /\ NamedTo(length, starts, 0) = <<>>
         /\ \A n \in 1 .. Len(starts) :
              NamedTo(length, starts, n)
              = OneNamed(NamedTo(length, starts, n - 1), length, starts, n)
<1> DEFINE N == Len(starts)
           S == Seq(Segments(length))
           step == [n \in 1 .. N |-> [a \in S |-> OneNamed(a, length, starts, n)]]
           Is(h) == h = [i \in 0 .. N |-> IF i = 0 THEN <<>> ELSE IF starts[i] < SegmentEnd(length, starts, i)
                          THEN Append(h[i - 1], Segment(i, starts[i], SegmentEnd(length, starts, i)))
                          ELSE h[i - 1]]
           f == CHOOSE h : Is(h)
<1>1. N \in Nat
  BY EndsOfSections
<1>2. \A n \in 1 .. N, a \in S : OneNamed(a, length, starts, n) \in S
  <2> TAKE n \in 1 .. N, a \in S
  <2>1. Segment(n, starts[n], SegmentEnd(length, starts, n)) \in Segments(length)
    BY EndsOfSections DEF Segment, Segments
  <2>2. PICK e \in Segments(length) : e = Segment(n, starts[n], SegmentEnd(length, starts, n))
    BY <2>1
  <2>3. Append(a, e) \in S
    BY SeqForms
  <2>. QED
    BY <2>2, <2>3 DEF OneNamed
<1>. HIDE DEF N
<1>3. step \in [1 .. N -> [S -> S]]
  BY <1>2
<1>4. <<>> \in S
  BY SeqForms
<1>. HIDE DEF S
<1>5. PICK h : Follows(h, N, S, <<>>, step)
  <2>. HIDE DEF step
  <2>. QED
    BY <1>1, <1>3, <1>4, Recursion
<1>6. Is(h)
  <2>1. h \in [0 .. N -> S] /\ h[0] = <<>>
    BY <1>5 DEF Follows
  <2>2. \A n \in 1 .. N : h[n - 1] \in S
    BY <1>1, <2>1
  <2>3. \A n \in 1 .. N : h[n] = OneNamed(h[n - 1], length, starts, n)
    BY <2>2, <1>5 DEF Follows
  <2>4. \A n \in 0 .. N : n # 0 => n \in 1 .. N
    BY <1>1
  <2>. QED
    BY <2>1, <2>3, <2>4 DEF OneNamed
<1>7. Is(f)
  BY <1>6
<1>8. \A n \in 0 .. N : f[n] = IF n = 0 THEN <<>> ELSE OneNamed(f[n - 1], length, starts, n)
  <2>. HIDE DEF f
  <2>. QED
    BY <1>7 DEF OneNamed
<1>9. \A n : NamedTo(length, starts, n) = f[n]
  BY DEF NamedTo, N
<1>. HIDE DEF f
<1>10. 0 \in 0 .. N /\ \A n \in 1 .. N : n \in 0 .. N /\ n # 0
  BY <1>1
<1>. QED
  BY <1>8, <1>9, <1>10 DEF N

\* The sections so far that have text, one after the other up to the end of the last.
NamedInv(s, length, starts, n) ==
  LET end == SegmentEnd(length, starts, n) IN
  /\ s \in Seq(Segments(length))
  /\ Chained(s, Meeting(length))
  /\ n = 0 => s = <<>>
  /\ s = <<>> /\ n > 0 => starts[1] = end
  /\ s # <<>> => s[1].from = starts[1] /\ s[Len(s)].to = end
  /\ \A j \in 1 .. n : starts[j] < SegmentEnd(length, starts, j) =>
       \E i \in 1 .. Len(s) : s[i] = Segment(j, starts[j], SegmentEnd(length, starts, j))

\* A section more leaves it so: it follows the last that has text, or has none itself.
LEMMA NamedStep ==
  ASSUME NEW length, NEW starts, Sorted(length, starts), NEW n \in 1 .. Len(starts),
         NEW s, NamedInv(s, length, starts, n - 1)
  PROVE  NamedInv(OneNamed(s, length, starts, n), length, starts, n)
<1>1. PICK from \in 0 .. length, to \in 0 .. length :
        from = starts[n] /\ to = SegmentEnd(length, starts, n) /\ from <= to
  BY EndsOfSections
<1>2. n \in Nat /\ n >= 1 /\ length \in Nat
  BY EndsOfSections DEF Sorted
<1>3. n > 1 => SegmentEnd(length, starts, n - 1) = from
  <2> HAVE n > 1
  <2>1. n - 1 \in 1 .. Len(starts) /\ n - 1 < Len(starts) /\ (n - 1) + 1 = n
    BY EndsOfSections
  <2>. QED
    BY <2>1, <1>1, EndsOfSections
<1>4. s \in Seq(Segments(length)) /\ Chained(s, Meeting(length))
  BY DEF NamedInv
<1>5. Len(s) \in Nat /\ (s = <<>> <=> Len(s) = 0)
  BY <1>4
<1>6. s = <<>> => starts[1] = from
  BY <1>1, <1>2, <1>3 DEF NamedInv
<1>7. s # <<>> => s[1].from = starts[1] /\ s[Len(s)].to = from
  <2>1. n = 1 => s = <<>>
    <3> HAVE n = 1
    <3>1. n - 1 = 0
      OBVIOUS
    <3>. QED
      BY <3>1 DEF NamedInv
  <2>. QED
    BY <1>2, <1>3, <2>1 DEF NamedInv
<1>8. \A j \in 1 .. n - 1 : starts[j] < SegmentEnd(length, starts, j) =>
        \E i \in 1 .. Len(s) : s[i] = Segment(j, starts[j], SegmentEnd(length, starts, j))
  BY DEF NamedInv
<1>9. \A j \in 1 .. n : j = n \/ j \in 1 .. n - 1
  BY <1>2
<1>10. CASE from < to
  <2>1. PICK e \in Segments(length) : e = Segment(n, from, to) /\ e.from = from /\ e.to = to
    <3>1. Segment(n, from, to) \in Segments(length)
      BY <1>2 DEF Segment, Segments
    <3>2. Segment(n, from, to).from = from /\ Segment(n, from, to).to = to
      BY DEF Segment
    <3>. QED
      BY <3>1, <3>2
  <2>2. PICK t \in Seq(Segments(length)) : t = Append(s, e)
    BY <1>4, SeqForms
  <2>3. /\ t # <<>> /\ Len(t) = Len(s) + 1 /\ t[Len(t)] = e
        /\ \A i \in 1 .. Len(s) : t[i] = s[i]
    BY <1>4, <2>1, <2>2, AppendProperties
  <2>4. Chained(t, Meeting(length))
    <3>1. s # <<>> => <<s[Len(s)], e>> \in Meeting(length)
      <4> HAVE s # <<>>
      <4>1. Len(s) \in 1 .. Len(s)
        BY <1>5
      <4>2. s[Len(s)] \in Segments(length)
        BY <1>4, <4>1
      <4>. QED
        BY <4>2, <2>1, <1>7 DEF Meeting
    <3>. QED
      BY <1>4, <2>1, <2>2, <3>1, ChainedAppend
  <2>5. t[1].from = starts[1]
    <3>1. CASE s = <<>>
      BY <3>1, <1>5, <1>6, <2>1, <2>3
    <3>2. CASE s # <<>>
      <4>1. 1 \in 1 .. Len(s)
        BY <3>2, <1>5
      <4>. QED
        BY <3>2, <4>1, <1>7, <2>3
    <3>. QED
      BY <3>1, <3>2
  <2>6. \A j \in 1 .. n : starts[j] < SegmentEnd(length, starts, j) =>
          \E i \in 1 .. Len(t) : t[i] = Segment(j, starts[j], SegmentEnd(length, starts, j))
    <3> TAKE j \in 1 .. n
    <3> HAVE starts[j] < SegmentEnd(length, starts, j)
    <3>1. CASE j = n
      <4>1. Len(t) \in 1 .. Len(t)
        BY <2>3, <1>5
      <4>. QED
        BY <3>1, <4>1, <1>1, <2>1, <2>3
    <3>2. CASE j \in 1 .. n - 1
      <4>1. PICK i \in 1 .. Len(s) : s[i] = Segment(j, starts[j], SegmentEnd(length, starts, j))
        BY <3>2, <1>8
      <4>2. i \in 1 .. Len(t)
        BY <2>3, <1>5
      <4>. QED
        BY <4>1, <4>2, <2>3
    <3>. QED
      BY <3>1, <3>2, <1>9
  <2>7. NamedInv(t, length, starts, n)
    BY <1>1, <1>2, <2>1, <2>3, <2>4, <2>5, <2>6 DEF NamedInv
  <2>. QED
    BY <1>1, <1>10, <2>1, <2>2, <2>7 DEF OneNamed
<1>11. CASE ~ (from < to)
  <2>1. from = to
    BY <1>1, <1>2, <1>11
  <2>2. \A j \in 1 .. n : starts[j] < SegmentEnd(length, starts, j) =>
          \E i \in 1 .. Len(s) : s[i] = Segment(j, starts[j], SegmentEnd(length, starts, j))
    BY <1>1, <1>8, <1>9, <1>11
  <2>3. NamedInv(s, length, starts, n)
    BY <1>1, <1>2, <1>4, <1>6, <1>7, <2>1, <2>2 DEF NamedInv
  <2>. QED
    BY <1>1, <1>11, <2>3 DEF OneNamed
<1>. QED
  BY <1>10, <1>11

\* After the last section the invariant holds for all.
LEMMA NamedSound ==
  ASSUME NEW length, NEW starts, Sorted(length, starts)
  PROVE  NamedInv(NamedTo(length, starts, Len(starts)), length, starts, Len(starts))
<1> DEFINE P == {n \in 0 .. Len(starts) : NamedInv(NamedTo(length, starts, n), length, starts, n)}
<1>1. Len(starts) \in Nat
  BY EndsOfSections
<1>2. 0 \in P
  <2>1. PICK e \in Seq(Segments(length)) : e = <<>>
    BY SeqForms
  <2>2. Chained(e, Meeting(length)) /\ Len(e) = 0
    BY <2>1 DEF Chained
  <2>3. NamedInv(e, length, starts, 0)
    BY <2>1, <2>2 DEF NamedInv
  <2>. QED
    BY <1>1, <2>1, <2>3, NamedToDef
<1>3. ASSUME NEW n \in 1 .. Len(starts), n - 1 \in P PROVE n \in P
  <2>1. NamedInv(NamedTo(length, starts, n - 1), length, starts, n - 1) /\ n \in 0 .. Len(starts)
    BY <1>1, <1>3
  <2>. QED
    BY <2>1, NamedStep, NamedToDef
<1>4. \A n \in 0 .. Len(starts) : n \in P
  <2>. HIDE DEF P
  <2>. QED
    BY <1>1, <1>2, <1>3, Induction
<1>. QED
  BY <1>1, <1>4

-----------------------------------------------------------------------------

\* The segments of a text, with the front matter: they cover it, and have each section's.
LEMMA SegmentsSound ==
  ASSUME NEW length, NEW starts, Sorted(length, starts)
  PROVE  LET segments == split_by_sections(length, starts) IN
         /\ SegmentsCover(length, starts)
         /\ Len(starts) = 0 => \E i \in DOMAIN segments : segments[i] = Segment(0, 0, length)
         /\ Len(starts) # 0 /\ starts[1] > 0 =>
              \E i \in DOMAIN segments : segments[i] \in {Segment(0, 0, length), Segment(0, 0, starts[1])}
         /\ \A j \in 1 .. Len(starts) : starts[j] < SegmentEnd(length, starts, j) =>
              \E i \in DOMAIN segments :
                segments[i] = Segment(j, starts[j], SegmentEnd(length, starts, j))
<1>1. PICK N \in Nat : N = Len(starts)
  BY EndsOfSections
<1>2. length \in Nat \ {0} /\ (N # 0 => starts[1] \in 0 .. length)
  <2>1. N # 0 => 1 \in 1 .. N
    OBVIOUS
  <2>. QED
    BY <2>1, <1>1, EndsOfSections DEF Sorted
<1>3. PICK S : S = Segments(length)
  OBVIOUS
<1>4. PICK named \in Seq(S) :
        named = NamedTo(length, starts, N) /\ NamedInv(named, length, starts, N)
  BY <1>1, <1>3, NamedSound DEF NamedInv
<1>5. PICK q : q = split_by_sections(length, starts)
  OBVIOUS
<1>6. SegmentEnd(length, starts, N) = length
  BY <1>1, EndsOfSections
<1>7. \A j \in 1 .. N : starts[j] < SegmentEnd(length, starts, j) =>
        \E i \in 1 .. Len(named) : named[i] = Segment(j, starts[j], SegmentEnd(length, starts, j))
  BY <1>4 DEF NamedInv
<1>8. CASE named = <<>>
  <2>1. q = <<Segment(0, 0, length)>>
    BY <1>1, <1>4, <1>5, <1>8 DEF split_by_sections
  <2>2. Len(q) = 1 /\ q[1] = Segment(0, 0, length) /\ 1 \in DOMAIN q
    BY <2>1
  <2>3. q[1].from = 0 /\ Last(q).to = length
    BY <2>2 DEF Last, Segment
  <2>4. SegmentsCover(length, starts)
    BY <1>5, <2>2, <2>3 DEF SegmentsCover
  <2>5. \A j \in 1 .. N : ~ (starts[j] < SegmentEnd(length, starts, j))
    <3>1. Len(named) = 0
      BY <1>8
    <3>. QED
      BY <3>1, <1>7
  <2>. QED
    BY <1>1, <1>5, <2>2, <2>4, <2>5
<1>9. CASE named # <<>> /\ starts[1] > 0
  <2>1. PICK f \in S : f = Segment(0, 0, starts[1]) /\ f.from = 0 /\ f.to = starts[1]
    <3>1. N # 0
      BY <1>4, <1>9 DEF NamedInv
    <3>2. Segment(0, 0, starts[1]) \in S
      BY <1>2, <1>3, <3>1 DEF Segment, Segments
    <3>3. Segment(0, 0, starts[1]).from = 0 /\ Segment(0, 0, starts[1]).to = starts[1]
      BY DEF Segment
    <3>. QED
      BY <3>2, <3>3
  <2>2. PICK a \in Seq(S) : a = <<f>> /\ Len(a) = 1 /\ a[1] = f /\ a # <<>>
    BY SeqForms
  <2>3. q = a \o named
    BY <1>1, <1>4, <1>5, <1>9, <2>1, <2>2 DEF split_by_sections
  <2>4. PICK t \in Seq(S) : t = q
    BY <2>3, SeqForms
  <2>5. t[1] = f /\ t[Len(t)] = named[Len(named)] /\ Len(t) = 1 + Len(named)
        /\ \A i \in 1 .. Len(named) : t[1 + i] = named[i]
    BY <1>9, <2>2, <2>3, <2>4, EndsOfConcat, ConcatElements
  <2>6. Len(named) \in Nat \ {0} /\ DOMAIN t = 1 .. Len(t)
    BY <1>9
  <2>7. named[1].from = starts[1] /\ named[Len(named)].to = length /\ Chained(named, Meeting(length))
    BY <1>4, <1>6, <1>9 DEF NamedInv
  <2>8. Chained(t, Meeting(length))
    <3>1. Chained(a, Meeting(length))
      BY <2>2 DEF Chained
    <3>2. <<a[Len(a)], named[1]>> \in Meeting(length)
      <4>1. 1 \in 1 .. Len(named)
        BY <2>6
      <4>2. named[1] \in S
        BY <4>1
      <4>. QED
        BY <1>3, <2>1, <2>2, <2>7, <4>2 DEF Meeting
    <3>. QED
      BY <2>2, <2>3, <2>4, <2>7, <3>1, <3>2, ChainedConcat
  <2>9. SegmentsCover(length, starts)
    <3>1. \A i \in 1 .. Len(t) - 1 : t[i].to = t[i + 1].from
      BY <2>8 DEF Chained, Meeting
    <3>2. t[1].from = 0 /\ Last(t).to = length
      BY <2>1, <2>5, <2>7 DEF Last
    <3>. QED
      BY <1>5, <2>4, <3>1, <3>2 DEF SegmentsCover
  <2>10. 1 \in DOMAIN t /\ \A i \in 1 .. Len(named) : 1 + i \in DOMAIN t
    BY <2>5, <2>6
  <2>11. \A j \in 1 .. N : starts[j] < SegmentEnd(length, starts, j) =>
           \E i \in DOMAIN t : t[i] = Segment(j, starts[j], SegmentEnd(length, starts, j))
    BY <1>7, <2>5, <2>10
  <2>12. N # 0
    BY <1>4, <1>9 DEF NamedInv
  <2>. QED
    BY <1>1, <1>5, <2>1, <2>4, <2>5, <2>9, <2>10, <2>11, <2>12
<1>10. CASE named # <<>> /\ ~ (starts[1] > 0)
  <2>1. q = named
    BY <1>1, <1>4, <1>5, <1>10 DEF split_by_sections
  <2>2. N # 0
    BY <1>4, <1>10 DEF NamedInv
  <2>3. starts[1] = 0
    BY <1>2, <1>10, <2>2
  <2>4. named[1].from = 0 /\ named[Len(named)].to = length /\ Chained(named, Meeting(length))
    BY <1>4, <1>6, <1>10, <2>3 DEF NamedInv
  <2>5. SegmentsCover(length, starts)
    <3>1. \A i \in 1 .. Len(named) - 1 : named[i].to = named[i + 1].from
      BY <2>4 DEF Chained, Meeting
    <3>. QED
      BY <1>5, <2>1, <2>4, <3>1 DEF SegmentsCover, Last
  <2>6. DOMAIN named = 1 .. Len(named)
    OBVIOUS
  <2>. QED
    BY <1>1, <1>5, <1>7, <1>10, <2>1, <2>2, <2>5, <2>6
<1>. QED
  BY <1>8, <1>9, <1>10

\* The nearest section at or before a character is the one whose segment holds it.
LEMMA TitleSound ==
  ASSUME NEW length, NEW starts, Sorted(length, starts), NEW from \in 0 .. length - 1
  PROVE  TitleHolds(length, starts, from)
<1> SUFFICES ASSUME \A i, j \in DOMAIN starts : starts[i] = starts[j] => i = j
             PROVE  \E s \in ToSet(split_by_sections(length, starts)) :
                      /\ s.title = find_section_title(starts, from)
                      /\ s.from <= from /\ from < s.to
  BY DEF TitleHolds
<1>1. PICK N \in Nat : N = Len(starts) /\ DOMAIN starts = 1 .. N
  BY EndsOfSections
<1>2. length \in Nat \ {0} /\ \A i \in 1 .. N : starts[i] \in 0 .. length
  BY <1>1, EndsOfSections DEF Sorted
<1>3. \A i, j \in 1 .. N : i < j => starts[i] <= starts[j]
  BY <1>1 DEF Sorted
<1>4. from \in Nat /\ from < length
  BY <1>2
<1>5. PICK q : q = split_by_sections(length, starts)
  OBVIOUS
<1> DEFINE before == {i \in DOMAIN starts : \A j \in 1 .. i : starts[j] <= from}
           nearest == {i \in before : \A j \in before : starts[j] <= starts[i]}
<1>6. find_section_title(starts, from) = IF nearest = {} THEN 0 ELSE Min(nearest)
  BY DEF find_section_title
<1>7. CASE before = {}
  <2>1. find_section_title(starts, from) = 0
    BY <1>6, <1>7
  <2>2. N # 0 => starts[1] > from
    <3> HAVE N # 0
    <3>1. 1 \in 1 .. N /\ 1 \notin before
      BY <1>7
    <3>2. \A j \in 1 .. 1 : j = 1
      OBVIOUS
    <3>3. ~ (starts[1] <= from)
      BY <3>1, <3>2, <1>1
    <3>. QED
      BY <3>1, <3>3, <1>2, <1>4
  <2>3. PICK i \in DOMAIN q :
          \/ q[i] = Segment(0, 0, length)
          \/ N # 0 /\ q[i] = Segment(0, 0, starts[1])
    <3>1. N # 0 => starts[1] > 0
      <4> HAVE N # 0
      <4>1. 1 \in 1 .. N
        OBVIOUS
      <4>. QED
        BY <4>1, <2>2, <1>2, <1>4
    <3>2. N = 0 => \E i \in DOMAIN q : q[i] = Segment(0, 0, length)
      BY <1>1, <1>5, SegmentsSound
    <3>3. N # 0 => \E i \in DOMAIN q : q[i] \in {Segment(0, 0, length), Segment(0, 0, starts[1])}
      BY <1>1, <1>5, <3>1, SegmentsSound
    <3>. QED
      BY <3>2, <3>3
  <2>4. q[i].title = 0 /\ q[i].from = 0 /\ from < q[i].to
    BY <2>2, <2>3, <1>4 DEF Segment
  <2>5. q[i] \in ToSet(q)
    BY DEF ToSet
  <2>. QED
    BY <1>4, <1>5, <2>1, <2>4, <2>5
<1>8. CASE before # {}
  <2>1. before \subseteq 0 .. N /\ before \subseteq 1 .. N
    BY <1>1
  <2>2. PICK k \in before : \A i \in before : i <= k
    <3>. HIDE DEF before
    <3>. QED
      BY <1>8, <2>1, Greatest
  <2>3. k \in 1 .. N /\ starts[k] <= from /\ starts[k] \in Nat
    <3>1. k \in 1 .. N /\ k \in 1 .. k
      BY <2>1
    <3>2. \A j \in 1 .. k : starts[j] <= from
      OBVIOUS
    <3>. QED
      BY <3>1, <3>2, <1>2
  <2>4. \A i \in before : starts[i] <= starts[k]
    <3> TAKE i \in before
    <3>1. i = k \/ i < k
      BY <2>1, <2>2
    <3>2. i \in 1 .. N
      BY <2>1
    <3>. QED
      BY <3>1, <3>2, <2>3, <1>3
  <2>5. nearest = {k}
    <3>1. k \in nearest
      BY <2>4
    <3>2. ASSUME NEW i \in nearest PROVE i = k
      <4>1. i \in before /\ starts[k] <= starts[i] /\ starts[i] <= starts[k]
        BY <2>4
      <4>2. i \in 1 .. N /\ starts[i] \in Nat
        BY <4>1, <2>1, <1>2
      <4>3. starts[i] = starts[k]
        BY <4>1, <4>2, <2>3
      <4>. QED
        BY <4>2, <4>3, <2>3, <1>1
    <3>. QED
      BY <3>1, <3>2
  <2>6. find_section_title(starts, from) = k
    <3>1. {k} \subseteq Nat /\ {k} # {}
      BY <2>3
    <3>2. Min({k}) = k
      BY <3>1, MinIsLeast
    <3>. QED
      BY <1>6, <2>5, <3>2
  <2>7. from < SegmentEnd(length, starts, k)
    <3>1. CASE k < N
      <4>1. k + 1 \in 1 .. N /\ k + 1 \notin before
        BY <2>2, <2>3, <3>1
      <4>2. PICK j \in 1 .. k + 1 : ~ (starts[j] <= from)
        BY <4>1, <1>1
      <4>3. j \notin 1 .. k
        BY <4>2
      <4>4. j = k + 1
        BY <4>3, <2>3
      <4>5. starts[k + 1] \in Nat /\ SegmentEnd(length, starts, k) = starts[k + 1]
        BY <3>1, <4>1, <2>3, <1>1, <1>2, EndsOfSections
      <4>. QED
        BY <4>2, <4>4, <4>5, <1>4
    <3>2. CASE ~ (k < N)
      <4>1. k = N
        BY <3>2, <2>3
      <4>. QED
        BY <4>1, <1>1, <1>4, EndsOfSections
    <3>. QED
      BY <3>1, <3>2
  <2>8. starts[k] < SegmentEnd(length, starts, k)
    <3>1. SegmentEnd(length, starts, k) \in 0 .. length
      BY <1>1, <2>3, EndsOfSections
    <3>. QED
      BY <3>1, <1>2, <1>4, <2>3, <2>7
  <2>9. PICK i \in DOMAIN q : q[i] = Segment(k, starts[k], SegmentEnd(length, starts, k))
    BY <1>1, <1>5, <2>3, <2>8, SegmentsSound
  <2>10. q[i] \in ToSet(q)
    BY DEF ToSet
  <2>11. q[i].title = k /\ q[i].from = starts[k] /\ q[i].to = SegmentEnd(length, starts, k)
    BY <2>9 DEF Segment
  <2>. QED
    BY <1>5, <2>3, <2>6, <2>7, <2>10, <2>11
<1>. QED
  BY <1>7, <1>8

-----------------------------------------------------------------------------
(* The invariant: the case that was picked is one that could be.           *)

\* The cases, one by one.
CaseOfHits ==
  \E vec, kw \in HitLists, mode \in {"vector", "bm25", "hybrid"}, topK \in TopKs, size \in PageSizes :
    case = [of |-> "hits", vec |-> vec, kw |-> kw, mode |-> mode, topK |-> topK, size |-> size]
CaseOfSpans == \E spans \in SpanSets : case = [of |-> "spans", spans |-> spans]
CaseOfText == \E groups \in GroupTexts : case = [of |-> "text", groups |-> groups]
CaseOfHeadings ==
  \E h \in Headings : case = [of |-> "headings", length |-> h.length, starts |-> h.starts]
CaseOfPages ==
  \E lengths \in PageLengths :
    \E from \in NotFound .. TextLength(lengths) - 1 : \E to \in from + 1 .. TextLength(lengths) :
      case = [of |-> "pages", lengths |-> lengths, from |-> from, to |-> to]
CaseOfCitations ==
  \E text \in CitedTexts, chunks \in Contexts :
    case = [of |-> "citations", text |-> text, chunks |-> chunks]
CaseOfFile == \E file \in Files : case = [of |-> "file", file |-> file]
CaseOfPdf == \E pdf \in Pdfs : case = [of |-> "pdf", pdf |-> pdf]

\* One of them, or none yet.
CaseInv ==
  \/ case = [of |-> "none"]
  \/ CaseOfHits \/ CaseOfSpans \/ CaseOfText \/ CaseOfHeadings \/ CaseOfPages
  \/ CaseOfCitations \/ CaseOfFile \/ CaseOfPdf

\* A case is picked once, from the inputs.
THEOREM PickedCase == Spec => []CaseInv
<1>1. Init => CaseInv
  BY DEF Init, CaseInv
<1>2. CaseInv /\ [Next]_case => CaseInv'
  <2> SUFFICES ASSUME CaseInv, [Next]_case PROVE CaseInv'
    OBVIOUS
  <2>1. CASE UNCHANGED case
    BY <2>1 DEF CaseInv, CaseOfHits, CaseOfSpans, CaseOfText, CaseOfHeadings, CaseOfPages,
                CaseOfCitations, CaseOfFile, CaseOfPdf
  <2>2. CASE PickHits
    BY <2>2 DEF PickHits, CaseInv, CaseOfHits
  <2>3. CASE PickSpans
    BY <2>3 DEF PickSpans, CaseInv, CaseOfSpans
  <2>4. CASE PickText
    BY <2>4 DEF PickText, CaseInv, CaseOfText
  <2>5. CASE PickHeadings
    BY <2>5 DEF PickHeadings, CaseInv, CaseOfHeadings
  <2>6. CASE PickPages
    BY <2>6 DEF PickPages, CaseInv, CaseOfPages
  <2>7. CASE PickCitations
    BY <2>7 DEF PickCitations, CaseInv, CaseOfCitations
  <2>8. CASE PickFile
    BY <2>8 DEF PickFile, CaseInv, CaseOfFile
  <2>9. CASE PickPdf
    BY <2>9 DEF PickPdf, CaseInv, CaseOfPdf
  <2>. QED
    BY <2>1, <2>2, <2>3, <2>4, <2>5, <2>6, <2>7, <2>8, <2>9 DEF Next
<1>. QED
  BY <1>1, <1>2, PTL DEF Spec

\* For any text and any limits of the assumption, chunks keep the text, within their bounds but where there
\* is no choice, and know their pages: the chunker of the document service.
THEOREM ChunkTexts == Spec => []ChunksAreSound
<1>1. CaseInv => ChunksAreSound
  <2> SUFFICES ASSUME CaseInv PROVE ChunksAreSound
    OBVIOUS
  <2>1. ASSUME case.of = "text"
        PROVE  \A chunks \in {chunk_paragraph_level(case.groups), chunk_section_level(case.groups)} :
                 /\ KeepsText(chunks, case.groups)
                 /\ BoundedChunks(chunks, case.groups)
                 /\ SmallOnlyAtBreaks(chunks, case.groups)
    <3>1. CaseOfText
      BY <2>1 DEF CaseInv, CaseOfHits, CaseOfSpans, CaseOfHeadings, CaseOfPages, CaseOfCitations,
                  CaseOfFile, CaseOfPdf
    <3>2. PICK groups \in GroupTexts : case = [of |-> "text", groups |-> groups]
      BY <3>1 DEF CaseOfText
    <3>3. groups \in Seq(Seq(Nat)) /\ case.groups = groups
      BY <3>2, TextsAssumption
    <3>. QED
      BY <3>3, ChunksKeep DEF chunk_paragraph_level, chunk_section_level
  <2>2. ASSUME case.of = "pages" PROVE RangeHolds(case.lengths, case.from, case.to)
    <3>1. CaseOfPages
      BY <2>2 DEF CaseInv, CaseOfHits, CaseOfSpans, CaseOfText, CaseOfHeadings, CaseOfCitations,
                  CaseOfFile, CaseOfPdf
    <3>2. PICK lengths \in PageLengths :
            \E from \in NotFound .. TextLength(lengths) - 1 : \E to \in from + 1 .. TextLength(lengths) :
              case = [of |-> "pages", lengths |-> lengths, from |-> from, to |-> to]
      BY <3>1 DEF CaseOfPages
    <3>3. PICK length : length = TextLength(lengths)
      OBVIOUS
    <3>4. PICK from \in NotFound .. length - 1 : \E to \in from + 1 .. length :
            case = [of |-> "pages", lengths |-> lengths, from |-> from, to |-> to]
      BY <3>2, <3>3
    <3>5. PICK to \in from + 1 .. length :
            case = [of |-> "pages", lengths |-> lengths, from |-> from, to |-> to]
      BY <3>4
    <3>6. lengths \in Seq(Nat) /\ lengths # <<>>
      BY TextsAssumption
    <3>7. RangeHolds(lengths, from, to)
      BY <3>3, <3>6, PagesSound DEF TextLength
    <3>8. case.lengths = lengths /\ case.from = from /\ case.to = to
      BY <3>5
    <3>. QED
      BY <3>7, <3>8
  <2>. QED
    BY <2>1, <2>2 DEF ChunksAreSound
<1>. QED
  BY <1>1, PickedCase, PTL

\* For any sections, segments cover the text and chunks have the title of the section they begin with.
THEOREM Sections == Spec => []SectionsAreSound
<1>1. CaseInv => SectionsAreSound
  <2> SUFFICES ASSUME CaseInv PROVE SectionsAreSound
    OBVIOUS
  <2>1. ASSUME case.of = "text" PROVE TitledByFirst(chunk_section_level(case.groups))
    <3>1. CaseOfText
      BY <2>1 DEF CaseInv, CaseOfHits, CaseOfSpans, CaseOfHeadings, CaseOfPages, CaseOfCitations,
                  CaseOfFile, CaseOfPdf
    <3>2. PICK groups \in GroupTexts : case = [of |-> "text", groups |-> groups]
      BY <3>1 DEF CaseOfText
    <3>3. groups \in Seq(Seq(Nat)) /\ case.groups = groups
      BY <3>2, TextsAssumption
    <3>. QED
      BY <3>3, ChunksKeep DEF chunk_section_level
  <2>2. ASSUME case.of = "headings"
        PROVE  /\ SegmentsCover(case.length, case.starts)
               /\ \A from \in 0 .. case.length - 1 : TitleHolds(case.length, case.starts, from)
    <3>1. CaseOfHeadings
      BY <2>2 DEF CaseInv, CaseOfHits, CaseOfSpans, CaseOfText, CaseOfPages, CaseOfCitations,
                  CaseOfFile, CaseOfPdf
    <3>2. PICK h \in Headings : case = [of |-> "headings", length |-> h.length, starts |-> h.starts]
      BY <3>1 DEF CaseOfHeadings
    <3>3. PICK length, starts : length = h.length /\ starts = h.starts
      OBVIOUS
    <3>4. Sorted(length, starts)
      BY <3>3, TextsAssumption DEF Sorted
    <3>5. SegmentsCover(length, starts)
      BY <3>4, SegmentsSound
    <3>6. \A from \in 0 .. length - 1 : TitleHolds(length, starts, from)
      BY <3>4, TitleSound
    <3>7. case.length = length /\ case.starts = starts
      BY <3>2, <3>3
    <3>. QED
      BY <3>5, <3>6, <3>7
  <2>. QED
    BY <2>1, <2>2 DEF SectionsAreSound
<1>. QED
  BY <1>1, PickedCase, PTL

================================================================================
