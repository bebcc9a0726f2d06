--------------------------- MODULE SequenceLemmas ---------------------------
(***************************************************************************)
(* Induction over the naturals without an operator for the hypothesis: a    *)
(* set of counterexamples has a least one.  With it, what FlattenSeq makes  *)
(* of a sequence of sequences, step by step.                                *)
(***************************************************************************)
EXTENDS SequencesExt, Naturals, SequenceTheorems, WellFoundedInduction, TLAPS

\* A nonempty set of naturals has a least element: the order of the naturals is
\* well founded.
LEMMA NatMin ==
  ASSUME NEW T, T \subseteq Nat, T # {}
  PROVE  \E x \in T : \A y \in T : x <= y
<1>1. IsWellFoundedOn(OpToRel(<, Nat), Nat)
  BY NatLessThanWellFounded
<1>2. PICK x \in T : \A y \in T : ~ (<< y, x >> \in OpToRel(<, Nat))
  BY <1>1, WFMin
<1>3. \A y \in T : ~(y < x)
  <2> TAKE y \in T
  <2>1. << y, x >> \notin OpToRel(<, Nat)
    BY <1>2
  <2>2. y \in Nat /\ x \in Nat
    OBVIOUS
  <2> QED
    BY <2>1, <2>2 DEF OpToRel
<1> QED
  BY <1>3

LEMMA OneMore ==
  ASSUME NEW S, NEW s \in Seq(S), NEW u \in Seq(S), NEW t \in S,
         NEW n, n = Len(s), NEW m, m = n + 1, Len(u) = m,
         \A i \in 1 .. n : u[i] = s[i], u[m] = t
  PROVE  u = Append(s, t)
<1> DEFINE v == Append(s, t)
<1>1. /\ v \in Seq(S) /\ Len(v) = Len(s) + 1 /\ v[Len(s) + 1] = t
      /\ \A i \in 1 .. Len(s) : v[i] = s[i]
  BY AppendProperties
<1>2. \A i \in 1 .. Len(u) : u[i] = v[i]
  <2> HIDE DEF v
  <2> TAKE i \in 1 .. Len(u)
  <2>1. i \in 1 .. Len(s) \/ i = Len(s) + 1
    OBVIOUS
  <2> QED
    BY <1>1, <2>1
<1> HIDE DEF v
<1>3. u = v
  BY <1>1, <1>2, SeqEqual
<1> QED
  BY <1>3 DEF v

\* f joins up the first n elements of s, one after the other.
Joins(f, s, n) == f = [i \in 1 .. n |-> IF i = 1 THEN s[i] ELSE f[i - 1] \o s[i]]

LEMMA JoinsExists ==
  ASSUME NEW S, NEW s \in Seq(Seq(S)), NEW n \in 1 .. Len(s)
  PROVE  \E f \in [1 .. n -> Seq(S)] : Joins(f, s, n)
<1> DEFINE T == {m \in 1 .. Len(s) : ~ \E f \in [1 .. m -> Seq(S)] : Joins(f, s, m)}
<1>1. SUFFICES ASSUME T # {} PROVE FALSE
  OBVIOUS
<1>2. PICK m \in T : \A k \in T : m <= k
  <2>1. T \subseteq Nat
    OBVIOUS
  <2> HIDE DEF T
  <2> QED
    BY <1>1, <2>1, NatMin
<1>3. m # 1
  <2> SUFFICES ASSUME m = 1 PROVE \E f \in [1 .. m -> Seq(S)] : Joins(f, s, m)
    BY <1>2
  <2> WITNESS [i \in 1 .. m |-> s[i]] \in [1 .. m -> Seq(S)]
  <2> QED
    BY DEF Joins
<1>4. PICK f \in [1 .. m - 1 -> Seq(S)] : Joins(f, s, m - 1)
  <2>1. m \in 1 .. Len(s) /\ Len(s) \in Nat
    BY <1>2
  <2>2. m - 1 \in 1 .. Len(s) /\ ~ (m <= m - 1)
    BY <1>3, <2>1
  <2>3. m - 1 \notin T
    <3> HIDE DEF T
    <3> QED
      BY <1>2, <2>2
  <2> QED
    BY <2>2, <2>3
<1> DEFINE g == [i \in 1 .. m |-> IF i = m THEN f[m - 1] \o s[m] ELSE f[i]]
<1>5. m \in Nat /\ m - 1 \in 1 .. m - 1 /\ s[m] \in Seq(S)
  BY <1>2, <1>3
<1>6. f[m - 1] \o s[m] \in Seq(S)
  BY <1>4, <1>5, ConcatProperties
<1>7. g \in [1 .. m -> Seq(S)]
  BY <1>5, <1>6
<1>8. \A i \in 1 .. m : g[i] = IF i = 1 THEN s[i] ELSE g[i - 1] \o s[i]
  <2> TAKE i \in 1 .. m
  <2>1. CASE i = m
    <3>1. m - 1 \in 1 .. m /\ m - 1 # m
      BY <1>3, <1>5
    <3>2. g[m - 1] = f[m - 1] /\ g[m] = f[m - 1] \o s[m]
      <4>1. m \in 1 .. m
        BY <1>5
      <4>2. \A j \in 1 .. m : g[j] = IF j = m THEN f[m - 1] \o s[m] ELSE f[j]
        OBVIOUS
      <4> HIDE DEF g
      <4> QED
        BY <3>1, <4>1, <4>2
    <3> HIDE DEF g
    <3> QED
      BY <1>3, <2>1, <3>2
  <2>2. CASE i # m
    <3>1. i \in 1 .. m - 1 /\ (i # 1 => i - 1 \in 1 .. m - 1 /\ i - 1 # m /\ i - 1 \in 1 .. m)
      BY <2>2, <1>5
    <3>2. f[i] = IF i = 1 THEN s[i] ELSE f[i - 1] \o s[i]
      BY <3>1, <1>4 DEF Joins
    <3> QED
      BY <2>2, <3>1, <3>2
  <2> QED
    BY <2>1, <2>2
<1>9. Joins(g, s, m)
  BY <1>7, <1>8 DEF Joins
<1> QED
  BY <1>2, <1>7, <1>9

LEMMA JoinsUnique ==
  ASSUME NEW s, NEW t, NEW n \in Nat, NEW m \in Nat, NEW f, NEW g, Joins(f, s, n), Joins(g, t, m),
         NEW k \in Nat \ {0}, k <= n, k <= m, \A i \in 1 .. k : s[i] = t[i]
  PROVE  f[k] = g[k]
<1> DEFINE T == {i \in 1 .. k : f[i] # g[i]}
<1>1. SUFFICES ASSUME T # {} PROVE FALSE
  <2> SUFFICES \A i \in 1 .. k : f[i] = g[i]
    OBVIOUS
  <2> QED
    OBVIOUS
<1>2. PICK i \in T : \A j \in T : i <= j
  <2>1. T \subseteq Nat
    OBVIOUS
  <2> HIDE DEF T
  <2> QED
    BY <1>1, <2>1, NatMin
<1>3. i \in 1 .. n /\ i \in 1 .. m /\ i \in 1 .. k /\ f[i] # g[i]
  BY <1>2
<1>4. /\ f[i] = IF i = 1 THEN s[i] ELSE f[i - 1] \o s[i]
      /\ g[i] = IF i = 1 THEN t[i] ELSE g[i - 1] \o t[i]
  BY <1>3 DEF Joins
<1>5. i # 1 => f[i - 1] = g[i - 1]
  BY <1>2, <1>3
<1> QED
  BY <1>3, <1>4, <1>5

LEMMA JoinsShorter ==
  ASSUME NEW s, NEW t, NEW n \in Nat \ {0}, NEW m, m = n + 1,
         NEW f, NEW g, Joins(f, s, n), Joins(g, t, m),
         \A i \in 1 .. n : s[i] = t[i]
  PROVE  f[n] = g[n]
<1>1. n \in Nat /\ n <= n /\ m \in Nat /\ n <= m
  OBVIOUS
<1> QED
  BY <1>1, JoinsUnique

LEMMA JoinsSame ==
  ASSUME NEW s, NEW n \in Nat \ {0}, NEW f, NEW g, Joins(f, s, n), Joins(g, s, n)
  PROVE  f[n] = g[n]
<1>1. n \in Nat /\ n <= n
  OBVIOUS
<1>2. \A i \in 1 .. n : s[i] = s[i]
  OBVIOUS
<1> QED
  BY <1>1, <1>2, JoinsUnique

LEMMA FlattenIsJoined ==
  ASSUME NEW S, NEW s \in Seq(Seq(S)), Len(s) # 0
  PROVE  \E f : Joins(f, s, Len(s)) /\ FlattenSeq(s) = f[Len(s)] /\ FlattenSeq(s) \in Seq(S)
<1> DEFINE n == Len(s)
<1>1. n \in Nat /\ n \in 1 .. n
  OBVIOUS
<1>2. PICK f \in [1 .. n -> Seq(S)] : Joins(f, s, n)
  BY <1>1, JoinsExists
<1> DEFINE h == CHOOSE h : h = [i \in 1 .. n |-> IF i = 1 THEN s[i] ELSE h[i - 1] \o s[i]]
<1>3. FlattenSeq(s) = h[n]
  BY DEF FlattenSeq
<1>4. h = [i \in 1 .. n |-> IF i = 1 THEN s[i] ELSE h[i - 1] \o s[i]]
  BY <1>2 DEF Joins
<1>5. Joins(h, s, n)
  BY <1>4 DEF Joins
<1> HIDE DEF h
<1>6. f[n] = h[n]
  <2> HIDE DEF n
  <2>1. n \in Nat \ {0} /\ n \in Nat /\ n <= n
    BY <1>1
  <2> QED
    BY <1>2, <1>5, <2>1, JoinsSame
<1> QED
  BY <1>1, <1>2, <1>3, <1>6

LEMMA FlattenEmpty == FlattenSeq(<< >>) = << >>
  BY DEF FlattenSeq

LEMMA FlattenIsSeq ==
  ASSUME NEW S, NEW s \in Seq(Seq(S))
  PROVE  FlattenSeq(s) \in Seq(S)
<1>1. CASE Len(s) = 0
  BY <1>1, FlattenEmpty, EmptySeq
<1>2. CASE Len(s) # 0
  BY <1>2, FlattenIsJoined
<1> QED
  BY <1>1, <1>2

\* One more sequence is joined to what there is.
LEMMA FlattenAppend ==
  ASSUME NEW S, NEW s \in Seq(Seq(S)), NEW t \in Seq(S)
  PROVE  FlattenSeq(Append(s, t)) = FlattenSeq(s) \o t
<1> DEFINE u == Append(s, t)
           n == Len(s)
           m == Len(u)
<1>1. /\ u \in Seq(Seq(S)) /\ n \in Nat /\ m = n + 1 /\ u[m] = t
      /\ \A i \in 1 .. n : u[i] = s[i]
  BY AppendProperties
<1> HIDE DEF u, n, m
<1>2. PICK g : Joins(g, u, m) /\ FlattenSeq(u) = g[m]
  <2>1. u \in Seq(Seq(S)) /\ Len(u) # 0
    BY <1>1 DEF m
  <2>2. \E g : Joins(g, u, Len(u)) /\ FlattenSeq(u) = g[Len(u)]
    BY <2>1, FlattenIsJoined
  <2> QED
    BY <2>2 DEF m
<1>3. g[m] = IF m = 1 THEN t ELSE g[n] \o t
  <2>1. m \in 1 .. m /\ m - 1 = n
    BY <1>1
  <2>2. \A i \in 1 .. m : g[i] = IF i = 1 THEN u[i] ELSE g[i - 1] \o u[i]
    BY <1>2 DEF Joins
  <2> QED
    BY <1>1, <2>1, <2>2
<1>4. CASE n = 0
  <2>1. s = << >> /\ << >> \o t = t
    BY <1>4, EmptySeq, ConcatEmptySeq DEF n
  <2> QED
    BY <1>1, <1>2, <1>3, <1>4, <2>1, FlattenEmpty DEF u
<1>5. CASE n # 0
  <2>1. PICK f : Joins(f, s, n) /\ FlattenSeq(s) = f[n]
    BY <1>5, FlattenIsJoined DEF n
  <2>2. f[n] = g[n]
    <3>1. n \in Nat \ {0}
      BY <1>1, <1>5
    <3>2. \A i \in 1 .. n : s[i] = u[i]
      BY <1>1
    <3>3. Joins(f, s, n) /\ Joins(g, u, m) /\ m = n + 1
      BY <1>1, <1>2, <2>1
    <3> QED
      BY <3>1, <3>2, <3>3, JoinsShorter
  <2>3. m # 1
    BY <1>1, <1>5
  <2> QED
    BY <1>2, <1>3, <2>1, <2>2, <2>3 DEF u
<1> QED
  BY <1>4, <1>5

\* What comes first stays first.
LEMMA FlattenPrefix ==
  ASSUME NEW S, NEW s \in Seq(Seq(S)), NEW k \in 0 .. Len(s)
  PROVE  \E rest \in Seq(S) : FlattenSeq(s) = FlattenSeq(SubSeq(s, 1, k)) \o rest
<1> DEFINE P(n) == \E rest \in Seq(S) :
                     FlattenSeq(SubSeq(s, 1, n)) = FlattenSeq(SubSeq(s, 1, k)) \o rest
           T == {n \in k .. Len(s) : ~P(n)}
<1>1. SUFFICES ASSUME T # {} PROVE FALSE
  <2>1. Len(s) \in k .. Len(s) /\ SubSeq(s, 1, Len(s)) = s
    BY SubSeqFull
  <2> QED
    BY <2>1
<1>2. PICK n \in T : \A m \in T : n <= m
  <2>1. T \subseteq Nat
    OBVIOUS
  <2> HIDE DEF T
  <2> QED
    BY <1>1, <2>1, NatMin
<1>3. n \in k .. Len(s) /\ k \in Nat /\ ~P(n)
  BY <1>2
<1>4. n # k
  <2>1. SubSeq(s, 1, k) \in Seq(Seq(S))
    BY SubSeqProperties
  <2>2. FlattenSeq(SubSeq(s, 1, k)) \in Seq(S)
    BY <2>1, FlattenIsSeq
  <2>3. FlattenSeq(SubSeq(s, 1, k)) = FlattenSeq(SubSeq(s, 1, k)) \o << >> /\ << >> \in Seq(S)
    BY <2>2, ConcatEmptySeq, EmptySeq
  <2> QED
    BY <1>3, <2>3
<1>5. n - 1 \in k .. Len(s) /\ n - 1 \in Nat /\ ~(n <= n - 1) /\ n \in 1 .. Len(s)
  BY <1>3, <1>4
<1>6. PICK rest \in Seq(S) :
        FlattenSeq(SubSeq(s, 1, n - 1)) = FlattenSeq(SubSeq(s, 1, k)) \o rest
  BY <1>2, <1>5
<1>7. SubSeq(s, 1, n) = Append(SubSeq(s, 1, n - 1), s[n])
  BY <1>5, SubSeqProperties, AppendProperties
<1>8. SubSeq(s, 1, n - 1) \in Seq(Seq(S)) /\ SubSeq(s, 1, k) \in Seq(Seq(S)) /\ s[n] \in Seq(S)
  BY <1>5, SubSeqProperties
<1>9. FlattenSeq(SubSeq(s, 1, n)) = FlattenSeq(SubSeq(s, 1, n - 1)) \o s[n]
  BY <1>7, <1>8, FlattenAppend
<1>10. FlattenSeq(SubSeq(s, 1, k)) \in Seq(S)
  BY <1>8, FlattenIsSeq
<1>11. rest \o s[n] \in Seq(S)
  BY <1>8, ConcatProperties
<1> DEFINE first == FlattenSeq(SubSeq(s, 1, k))
           last == s[n]
<1>12. (first \o rest) \o last = first \o (rest \o last)
  <2> HIDE DEF first, last
  <2>1. first \in Seq(S) /\ last \in Seq(S)
    BY <1>8, <1>10 DEF first, last
  <2> QED
    BY <2>1, ConcatAssociative
<1> QED
  BY <1>3, <1>6, <1>9, <1>11, <1>12

\* How many elements the first n sequences of s have.
UpTo(s, n) == Len(FlattenSeq(SubSeq(s, 1, n)))

LEMMA UpToNext ==
  ASSUME NEW S, NEW s \in Seq(Seq(S)), NEW i \in 1 .. Len(s), NEW n, n = i - 1
  PROVE  /\ UpTo(s, n) \in Nat /\ Len(s[i]) \in Nat
         /\ UpTo(s, i) = UpTo(s, n) + Len(s[i])
         /\ \A j \in 1 .. Len(s[i]) : FlattenSeq(SubSeq(s, 1, i))[UpTo(s, n) + j] = s[i][j]
<1> DEFINE p == FlattenSeq(SubSeq(s, 1, n))
           t == s[i]
<1>1. n \in 0 .. Len(s) /\ n \in Nat /\ i = n + 1
  OBVIOUS
<1>2. SubSeq(s, 1, n) \in Seq(Seq(S)) /\ t \in Seq(S)
  BY <1>1, SubSeqProperties
<1>3. SubSeq(s, 1, i) = Append(SubSeq(s, 1, n), t)
  BY <1>1, SubSeqProperties, AppendProperties
<1>4. FlattenSeq(SubSeq(s, 1, i)) = p \o t
  BY <1>2, <1>3, FlattenAppend
<1>5. p \in Seq(S)
  BY <1>2, FlattenIsSeq
<1>6. UpTo(s, n) = Len(p) /\ UpTo(s, i) = Len(p \o t)
  BY <1>4 DEF UpTo
<1> HIDE DEF p, t
<1>7. /\ Len(p) \in Nat /\ Len(t) \in Nat /\ Len(p \o t) = Len(p) + Len(t)
      /\ \A j \in 1 .. Len(t) : (p \o t)[Len(p) + j] = t[j]
  BY <1>2, <1>5, ConcatProperties
<1> QED
  BY <1>4, <1>6, <1>7 DEF t

LEMMA UpToGrows ==
  ASSUME NEW S, NEW s \in Seq(Seq(S)), NEW n \in 0 .. Len(s), NEW m \in 0 .. n
  PROVE  /\ UpTo(s, m) \in Nat /\ UpTo(s, n) \in Nat /\ UpTo(s, m) <= UpTo(s, n)
         /\ \A k \in 1 .. UpTo(s, m) :
              FlattenSeq(SubSeq(s, 1, n))[k] = FlattenSeq(SubSeq(s, 1, m))[k]
<1> DEFINE u == SubSeq(s, 1, n)
           p == FlattenSeq(SubSeq(s, 1, m))
<1>1. u \in Seq(Seq(S)) /\ Len(u) = n /\ SubSeq(u, 1, m) = SubSeq(s, 1, m)
  BY SubSeqProperties
<1>2. m \in 0 .. Len(u)
  BY <1>1
<1>3. \E rest \in Seq(S) : FlattenSeq(u) = FlattenSeq(SubSeq(u, 1, m)) \o rest
  <2> HIDE DEF u
  <2> QED
    BY <1>1, <1>2, FlattenPrefix
<1>4. PICK rest \in Seq(S) : FlattenSeq(u) = p \o rest
  BY <1>1, <1>3
<1>5. p \in Seq(S)
  <2>1. SubSeq(s, 1, m) \in Seq(Seq(S))
    BY SubSeqProperties
  <2> QED
    BY <2>1, FlattenIsSeq
<1>6. UpTo(s, m) = Len(p) /\ UpTo(s, n) = Len(p \o rest)
  BY <1>4 DEF UpTo
<1> HIDE DEF p, u
<1>7. /\ Len(p) \in Nat /\ Len(rest) \in Nat /\ Len(p \o rest) = Len(p) + Len(rest)
      /\ \A k \in 1 .. Len(p) : (p \o rest)[k] = p[k]
  BY <1>5, ConcatProperties
<1> QED
  BY <1>4, <1>6, <1>7 DEF p, u

\* Where the j-th element of the i-th sequence goes.
LEMMA FlattenAt ==
  ASSUME NEW S, NEW s \in Seq(Seq(S)), NEW i \in 1 .. Len(s), NEW n, n = i - 1,
         NEW j \in 1 .. Len(s[i])
  PROVE  /\ UpTo(s, n) + j \in 1 .. Len(FlattenSeq(s))
         /\ FlattenSeq(s)[UpTo(s, n) + j] = s[i][j]
<1> DEFINE k == UpTo(s, n) + j
           m == Len(s)
<1>1. /\ UpTo(s, n) \in Nat /\ Len(s[i]) \in Nat /\ UpTo(s, i) = UpTo(s, n) + Len(s[i])
      /\ FlattenSeq(SubSeq(s, 1, i))[k] = s[i][j]
  BY UpToNext
<1>2. k \in 1 .. UpTo(s, i)
  BY <1>1
<1>3. m \in 0 .. Len(s) /\ i \in 0 .. m /\ SubSeq(s, 1, m) = s
  BY SubSeqFull
<1>4. UpTo(s, m) = Len(FlattenSeq(s))
  BY <1>3 DEF UpTo
<1> HIDE DEF k, m
<1>5. /\ UpTo(s, i) \in Nat /\ UpTo(s, m) \in Nat /\ UpTo(s, i) <= UpTo(s, m)
      /\ FlattenSeq(SubSeq(s, 1, m))[k] = FlattenSeq(SubSeq(s, 1, i))[k]
  BY <1>2, <1>3, UpToGrows
<1>6. FlattenSeq(SubSeq(s, 1, m)) = FlattenSeq(s)
  BY <1>3
<1>7. k \in 1 .. Len(FlattenSeq(s)) /\ FlattenSeq(s)[k] = s[i][j]
  BY <1>1, <1>2, <1>4, <1>5, <1>6
<1> QED
  BY <1>7 DEF k

\* Two elements do not go to one place.
LEMMA FlattenApart ==
  ASSUME NEW S, NEW s \in Seq(Seq(S)), NEW i \in 1 .. Len(s), NEW n, n = i - 1,
         NEW j \in 1 .. Len(s[i]), NEW k \in 1 .. Len(s), NEW m, m = k - 1,
         NEW l \in 1 .. Len(s[k]), UpTo(s, n) + j = UpTo(s, m) + l
  PROVE  i = k /\ j = l
<1>1. /\ UpTo(s, n) \in Nat /\ Len(s[i]) \in Nat /\ UpTo(s, i) = UpTo(s, n) + Len(s[i])
      /\ UpTo(s, m) \in Nat /\ Len(s[k]) \in Nat /\ UpTo(s, k) = UpTo(s, m) + Len(s[k])
  BY UpToNext
<1>2. \A a, b \in 1 .. Len(s) : \A c : c = b - 1 /\ a < b => UpTo(s, a) <= UpTo(s, c)
  <2> TAKE a, b \in 1 .. Len(s)
  <2> TAKE c
  <2> SUFFICES ASSUME c = b - 1, a < b
               PROVE  UpTo(s, a) <= UpTo(s, c)
    OBVIOUS
  <2>1. c \in 0 .. Len(s) /\ a \in 0 .. c
    OBVIOUS
  <2> QED
    BY <2>1, UpToGrows
<1>3. ~(i < k)
  <2> SUFFICES ASSUME i < k
               PROVE  FALSE
    OBVIOUS
  <2>1. UpTo(s, i) <= UpTo(s, m)
    BY <1>2
  <2> QED
    BY <1>1, <2>1
<1>4. ~(k < i)
  <2> SUFFICES ASSUME k < i
               PROVE  FALSE
    OBVIOUS
  <2>1. UpTo(s, k) <= UpTo(s, n)
    BY <1>2
  <2> QED
    BY <1>1, <2>1
<1>5. i = k
  BY <1>3, <1>4
<1> QED
  BY <1>1, <1>5

\* Every place holds an element of one of the sequences.
LEMMA FlattenFrom ==
  ASSUME NEW S, NEW s \in Seq(Seq(S)), NEW k \in 1 .. Len(FlattenSeq(s))
  PROVE  \E i \in 1 .. Len(s) : \E j \in 1 .. Len(s[i]) : UpTo(s, i - 1) + j = k
<1> DEFINE T == {i \in 0 .. Len(s) : k <= UpTo(s, i)}
<1>1. Len(s) \in T
  <2>1. SubSeq(s, 1, Len(s)) = s
    BY SubSeqFull
  <2>2. UpTo(s, Len(s)) = Len(FlattenSeq(s))
    BY <2>1 DEF UpTo
  <2>3. Len(FlattenSeq(s)) \in Nat
    BY FlattenIsSeq
  <2> QED
    BY <2>2, <2>3
<1>2. PICK i \in T : \A n \in T : i <= n
  <2>1. T \subseteq Nat /\ T # {}
    BY <1>1
  <2> HIDE DEF T
  <2> QED
    BY <2>1, NatMin
<1>3. k \in Nat \ {0} /\ i \in 0 .. Len(s) /\ k <= UpTo(s, i)
  <2>1. FlattenSeq(s) \in Seq(S)
    BY FlattenIsSeq
  <2> QED
    BY <1>2, <2>1
<1>4. i # 0
  <2>1. UpTo(s, 0) = 0
    <3>1. SubSeq(s, 1, 0) = << >>
      OBVIOUS
    <3>2. FlattenSeq(SubSeq(s, 1, 0)) = << >>
      BY <3>1, FlattenEmpty
    <3> QED
      BY <3>2 DEF UpTo
  <2> QED
    BY <1>3, <2>1
<1> DEFINE n == i - 1
<1>5. i \in 1 .. Len(s) /\ n \in 0 .. Len(s) /\ ~(i <= n)
  BY <1>3, <1>4
<1>6. ~(k <= UpTo(s, n))
  BY <1>2, <1>5
<1>7. UpTo(s, n) \in Nat /\ Len(s[i]) \in Nat /\ UpTo(s, i) = UpTo(s, n) + Len(s[i])
  BY <1>5, UpToNext
<1> DEFINE j == k - UpTo(s, n)
<1>8. j \in 1 .. Len(s[i]) /\ UpTo(s, n) + j = k
  BY <1>3, <1>6, <1>7
<1> QED
  BY <1>5, <1>8

\* If one place of what is joined up is in T, one element of the sequences is.
LEMMA FlattenOnly ==
  ASSUME NEW S, NEW s \in Seq(Seq(S)), NEW T, NEW k \in 1 .. Len(FlattenSeq(s)),
         FlattenSeq(s)[k] \in T,
         \A m \in 1 .. Len(FlattenSeq(s)) : FlattenSeq(s)[m] \in T => m = k
  PROVE  \E i \in 1 .. Len(s) : \E j \in 1 .. Len(s[i]) :
           /\ s[i][j] \in T
           /\ \A g \in 1 .. Len(s) : \A h \in 1 .. Len(s[g]) : s[g][h] \in T => g = i /\ h = j
<1>0. PICK i \in 1 .. Len(s) : \E j \in 1 .. Len(s[i]) : UpTo(s, i - 1) + j = k
  BY FlattenFrom
<1>1. PICK j \in 1 .. Len(s[i]) : UpTo(s, i - 1) + j = k
  BY <1>0
<1>2. s[i][j] \in T
  BY <1>1, FlattenAt
<1>3. ASSUME NEW g \in 1 .. Len(s), NEW h \in 1 .. Len(s[g]), s[g][h] \in T
      PROVE  g = i /\ h = j
  <2> DEFINE m == UpTo(s, g - 1) + h
  <2>1. m \in 1 .. Len(FlattenSeq(s)) /\ FlattenSeq(s)[m] = s[g][h]
    BY FlattenAt
  <2>2. m = k
    BY <1>3, <2>1
  <2> QED
    BY <1>1, <2>2, FlattenApart
<1> QED
  BY <1>2, <1>3

=============================================================================
