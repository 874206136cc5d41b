--------------------------- MODULE SequenceLemmas ---------------------------
(***************************************************************************)
(* What FlattenSeq is built of: the sequences of a sequence, one behind    *)
(* the other.  It is defined by a recursive function, so that its lemmas   *)
(* need induction; SetInduction is induction for a set of numbers, which   *)
(* the provers can instantiate.                                            *)
(***************************************************************************)
EXTENDS Integers, Sequences, SequencesExt, SequenceTheorems, WellFoundedInduction, TLAPS

\* Every set of natural numbers that is not empty has a least one.
LEMMA LeastNumber ==
  ASSUME NEW T, T \subseteq Nat, T # {}
  PROVE  \E x \in T : \A y \in T : x <= y
<1> DEFINE R == OpToRel(<, Nat)
<1>1. IsWellFoundedOn(R, Nat)
  BY NatLessThanWellFounded
<1>2. \A p \in Nat \X Nat : p \in R <=> p[1] < p[2]
  BY DEF OpToRel
<1> HIDE DEF R
<1>3. PICK x \in T : \A y \in T : ~ (<<y, x>> \in R)
  BY <1>1, WFMin
<1>4. \A y \in T : x <= y
  <2> TAKE y \in T
  <2>1. x \in Nat /\ y \in Nat
    OBVIOUS
  <2>2. <<y, x>> \in R <=> y < x
    BY <1>2, <2>1
  <2> QED
    BY <1>3, <2>1, <2>2
<1> QED
  BY <1>4

\* Induction, for a set of numbers.
LEMMA SetInduction ==
  ASSUME NEW P, 0 \in P, \A n \in Nat : n \in P => n + 1 \in P
  PROVE  Nat \subseteq P
<1> SUFFICES ASSUME Nat \ P # {} PROVE FALSE
  OBVIOUS
<1>1. PICK x \in Nat \ P : \A y \in Nat \ P : x <= y
  <2>1. Nat \ P \subseteq Nat
    OBVIOUS
  <2> QED
    BY <2>1, LeastNumber
<1>2. x # 0 /\ x - 1 \in Nat
  BY <1>1
<1>3. x - 1 \in P
  BY <1>1, <1>2
<1> QED
  BY <1>1, <1>2, <1>3

\* Glue keeps the provers from looking into \o.
Glue(a, b) == a \o b

\* The function that defines FlattenSeq, for the first n sequences.
IsFlat(f, s, n) ==
  f = [k \in 1 .. n |-> IF k = 1 THEN s[k] ELSE Glue(f[k - 1], s[k])]

\* Its values, from the first on.
LEMMA FlatAt ==
  ASSUME NEW f, NEW s, NEW m \in Nat, IsFlat(f, s, m)
  PROVE  /\ m # 0 => f[1] = s[1]
         /\ \A k \in 1 .. m - 1 : f[k + 1] = Glue(f[k], s[k + 1])
<1> DEFINE e(j) == IF j = 1 THEN s[j] ELSE Glue(f[j - 1], s[j])
           g == [j \in 1 .. m |-> e(j)]
<1>1. f = g
  BY DEF IsFlat
<1>2. \A j \in 1 .. m : g[j] = e(j)
  BY Zenon
<1> HIDE DEF g
<1>3. \A j \in 1 .. m : f[j] = e(j)
  BY <1>1, <1>2, Zenon
<1>4. m # 0 => 1 \in 1 .. m
  OBVIOUS
<1>5. \A k \in 1 .. m - 1 : k + 1 \in 1 .. m /\ k + 1 # 1 /\ k + 1 - 1 = k
  OBVIOUS
<1>6. m # 0 => f[1] = s[1]
  BY <1>3, <1>4
<1>7. ASSUME NEW k \in 1 .. m - 1
      PROVE  f[k + 1] = Glue(f[k], s[k + 1])
  <2>1. PICK j \in 1 .. m : j = k + 1
    BY <1>5
  <2>2. f[j] = Glue(f[j - 1], s[j])
    BY <1>3, <1>5, <2>1
  <2> QED
    BY <1>5, <2>1, <2>2
<1> QED
  BY <1>6, <1>7

\* There is one.
LEMMA FlatExists ==
  ASSUME NEW s, NEW m \in Nat
  PROVE  \E f : IsFlat(f, s, m)
<1> DEFINE P == {n \in Nat : \E f : IsFlat(f, s, n)}
<1>1. 0 \in P
  <2>1. \A f : 1 .. 0 = {}
    OBVIOUS
  <2> DEFINE e == [k \in {} |-> s[k]]
  <2>2. IsFlat(e, s, 0)
    BY <2>1 DEF IsFlat
  <2> QED
    BY <2>2
<1>2. ASSUME NEW n \in Nat, n \in P
      PROVE  n + 1 \in P
  <2>1. PICK f : IsFlat(f, s, n)
    BY <1>2
  <2> DEFINE g == [k \in 1 .. n + 1 |->
                     IF k = 1 THEN s[k] ELSE Glue(f[k - 1], s[k])]
  <2>2. \A k \in 1 .. n : g[k] = f[k]
    <3> TAKE k \in 1 .. n
    <3>2. g[k] = IF k = 1 THEN s[k] ELSE Glue(f[k - 1], s[k])
      OBVIOUS
    <3>3. k = 1 \/ (k - 1 \in 1 .. n - 1 /\ k - 1 + 1 = k)
      OBVIOUS
    <3>4. CASE k = 1
      BY <2>1, <3>2, <3>4, FlatAt
    <3>5. CASE k # 1
      BY <2>1, <3>2, <3>3, <3>5, FlatAt
    <3> QED
      BY <3>4, <3>5
  <2>3. \A k \in 1 .. n + 1 : k # 1 => k - 1 \in 1 .. n
    OBVIOUS
  <2>4. IsFlat(g, s, n + 1)
    <3>1. \A k \in 1 .. n + 1 :
            g[k] = IF k = 1 THEN s[k] ELSE Glue(g[k - 1], s[k])
      BY <2>2, <2>3
    <3> HIDE DEF g
    <3>2. g = [k \in 1 .. n + 1 |-> g[k]]
      BY DEF g
    <3> QED
      BY <3>1, <3>2 DEF IsFlat
  <2> QED
    BY <2>4
<1> HIDE DEF P
<1>3. m \in P
  BY <1>1, <1>2, SetInduction
<1> QED
  BY <1>3 DEF P

\* FlattenSeq, by such a function.
LEMMA FlatIs ==
  ASSUME NEW s, NEW m \in Nat, Len(s) = m, m # 0
  PROVE  \E f : IsFlat(f, s, m) /\ FlattenSeq(s) = f[m]
<1> DEFINE F == CHOOSE f : f = [k \in 1 .. m |-> IF k = 1 THEN s[k] ELSE f[k - 1] \o s[k]]
<1>1. F = [k \in 1 .. m |-> IF k = 1 THEN s[k] ELSE F[k - 1] \o s[k]]
  BY FlatExists DEF IsFlat, Glue
<1>2. FlattenSeq(s) = F[m]
  BY DEF FlattenSeq
<1> QED
  BY <1>1, <1>2 DEF IsFlat, Glue

\* The sequences put one behind the other are one more sequence.
LEMMA FlatType ==
  ASSUME NEW S, NEW s \in Seq(Seq(S))
  PROVE  FlattenSeq(s) \in Seq(S)
<1>1. CASE Len(s) = 0
  BY <1>1 DEF FlattenSeq
<1>2. CASE Len(s) # 0
  <2>1. PICK m \in Nat : m = Len(s)
    OBVIOUS
  <2>2. PICK f : IsFlat(f, s, m) /\ FlattenSeq(s) = f[m]
    BY <1>2, <2>1, FlatIs
  <2>3. \A k \in 1 .. m : s[k] \in Seq(S)
    BY <2>1
  <2> DEFINE P == {n \in Nat : n \in 1 .. m => f[n] \in Seq(S)}
  <2>4. 0 \in P
    OBVIOUS
  <2>5. ASSUME NEW n \in Nat, n \in P
        PROVE  n + 1 \in P
    <3> SUFFICES ASSUME n + 1 \in 1 .. m
                 PROVE  f[n + 1] \in Seq(S)
      OBVIOUS
    <3>1. CASE n = 0
      BY <2>2, <2>3, <3>1, FlatAt
    <3>2. CASE n # 0
      <4>1. n \in 1 .. m - 1 /\ n \in 1 .. m
        BY <3>2
      <4>2. f[n] \in Seq(S)
        BY <2>5, <4>1
      <4>3. f[n + 1] = Glue(f[n], s[n + 1])
        BY <2>2, <4>1, FlatAt
      <4> QED
        BY <2>3, <4>2, <4>3 DEF Glue
    <3> QED
      BY <3>1, <3>2
  <2> HIDE DEF P
  <2>6. m \in P
    BY <2>4, <2>5, SetInduction
  <2>7. f[m] \in Seq(S)
    BY <1>2, <2>1, <2>6 DEF P
  <2> QED
    BY <2>2, <2>7
<1> QED
  BY <1>1, <1>2

\* One more sequence is one more piece at the end.
LEMMA FlatAppend ==
  ASSUME NEW S, NEW s \in Seq(Seq(S)), NEW x \in Seq(S)
  PROVE  FlattenSeq(Append(s, x)) = FlattenSeq(s) \o x
<1> DEFINE t == Append(s, x)
<1>1. PICK m \in Nat : m = Len(s)
  OBVIOUS
<1>2. /\ Len(t) = m + 1 /\ t[m + 1] = x
      /\ \A k \in 1 .. m : t[k] = s[k]
  BY <1>1
<1> HIDE DEF t
<1>3. PICK g : IsFlat(g, t, m + 1) /\ FlattenSeq(t) = g[m + 1]
  BY <1>2, FlatIs
<1>4. CASE m = 0
  <2>1. FlattenSeq(t) = x
    <3>1. g[1] = t[1]
      BY <1>3, <1>4, FlatAt
    <3> QED
      BY <1>2, <1>3, <1>4, <3>1
  <2>2. s = <<>>
    BY <1>1, <1>4, EmptySeq
  <2>3. FlattenSeq(s) = <<>>
    BY <2>2 DEF FlattenSeq
  <2> QED
    BY <2>1, <2>3, ConcatEmptySeq DEF t
<1>5. CASE m # 0
  <2>1. PICK f : IsFlat(f, s, m) /\ FlattenSeq(s) = f[m]
    BY <1>1, <1>5, FlatIs
  <2> DEFINE P == {n \in Nat : n \in 1 .. m => f[n] = g[n]}
  <2>2. 0 \in P
    OBVIOUS
  <2>3. ASSUME NEW n \in Nat, n \in P
        PROVE  n + 1 \in P
    <3> SUFFICES ASSUME n + 1 \in 1 .. m
                 PROVE  f[n + 1] = g[n + 1]
      OBVIOUS
    <3>1. CASE n = 0
      BY <1>2, <1>3, <2>1, <3>1, FlatAt
    <3>2. CASE n # 0
      <4>1. n \in 1 .. m - 1 /\ n \in 1 .. m /\ n \in 1 .. (m + 1) - 1
        BY <3>2
      <4>2. f[n] = g[n]
        BY <2>3, <4>1
      <4>3. f[n + 1] = Glue(f[n], s[n + 1])
        BY <2>1, <4>1, FlatAt
      <4>4. g[n + 1] = Glue(g[n], t[n + 1])
        BY <1>3, <4>1, FlatAt
      <4> QED
        BY <1>2, <4>2, <4>3, <4>4
    <3> QED
      BY <3>1, <3>2
  <2> HIDE DEF P
  <2>4. f[m] = g[m]
    <3>1. m \in P
      BY <2>2, <2>3, SetInduction
    <3> QED
      BY <1>5, <3>1 DEF P
  <2>5. g[m + 1] = Glue(g[m], x)
    <3>1. m \in 1 .. (m + 1) - 1
      BY <1>5
    <3> QED
      BY <1>2, <1>3, <3>1, FlatAt
  <2> QED
    BY <1>3, <2>1, <2>4, <2>5 DEF t, Glue
<1> QED
  BY <1>4, <1>5

\* Behind the same sequence, a beginning stays a beginning.
LEMMA BeginningIsPrefix ==
  ASSUME NEW S, NEW a \in Seq(S), NEW b \in Seq(S), NEW k \in 0 .. Len(b)
  PROVE  IsPrefix(a \o SubSeq(b, 1, k), a \o b)
<1>1. PICK m \in Nat : m = Len(a)
  OBVIOUS
<1>2. PICK n \in Nat : n = Len(b)
  OBVIOUS
<1>3. /\ SubSeq(b, 1, k) \in Seq(S) /\ Len(SubSeq(b, 1, k)) = k
      /\ \A j \in 1 .. k : SubSeq(b, 1, k)[j] = b[j]
  <2>1. \A j \in 1 .. k : b[j] \in S
    BY <1>2
  <2> QED
    BY <2>1, SubSeqProperties
<1>4. PICK c \in Seq(S) : c = SubSeq(b, 1, k)
  BY <1>3
<1>5. Len(c) = k /\ \A j \in 1 .. k : c[j] = b[j]
  BY <1>3, <1>4
<1>6. PICK u \in Seq(S) : u = a \o c
  BY ConcatProperties
<1>7. PICK v \in Seq(S) : v = a \o b
  BY ConcatProperties
<1>8. Len(u) = m + k /\ Len(v) = m + n
  BY <1>1, <1>2, <1>5, <1>6, <1>7, ConcatProperties
<1>9. \A j \in 1 .. m + k : u[j] = v[j]
  <2> TAKE j \in 1 .. m + k
  <2>1. u[j] = IF j <= m THEN a[j] ELSE c[j - m]
    BY <1>1, <1>5, <1>6, ConcatProperties
  <2>2. v[j] = IF j <= m THEN a[j] ELSE b[j - m]
    BY <1>1, <1>2, <1>7, ConcatProperties
  <2>3. j > m => j - m \in 1 .. k
    OBVIOUS
  <2> QED
    BY <1>5, <2>1, <2>2, <2>3
<1>10. PICK w \in Seq(S) : w = SubSeq(v, 1, m + k)
  <2>1. \A j \in 1 .. m + k : v[j] \in S
    BY <1>2, <1>8
  <2>2. 1 \in Int /\ m + k \in Int
    BY <1>2
  <2>3. SubSeq(v, 1, m + k) \in Seq(S)
    BY <2>1, <2>2, SubSeqProperties, Zenon
  <2> QED
    BY <2>3
<1>11. Len(w) = m + k /\ \A j \in 1 .. m + k : w[j] = v[j]
  BY <1>2, <1>8, <1>10
<1>12. u = w
  BY <1>8, <1>9, <1>11, SeqEqual
<1>13. SubSeq(u, 1, Len(u)) = u
  BY SubSeqFull
<1>14. IsPrefix(u, v)
  BY <1>2, <1>8, <1>10, <1>12, <1>13 DEF IsPrefix
<1> QED
  BY <1>4, <1>6, <1>7, <1>14
=============================================================================
