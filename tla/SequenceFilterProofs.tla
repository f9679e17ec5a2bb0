------------------------- MODULE SequenceFilterProofs -------------------------
(***************************************************************************)
(* What Filter keeps and what Joined makes, for sequences of any length.   *)
(* The induction goes over sets of numbers: a set with 0 in it, and with   *)
(* n + 1 for every n in it, has every natural number in it.                *)
(***************************************************************************)
EXTENDS SequenceFilter, SequenceTheorems, WellFoundedInduction, TLAPS

\* Every set of natural numbers that is not empty has a least element.
LEMMA LeastNatural ==
  ASSUME NEW T \in SUBSET Nat, T # {}
  PROVE  \E x \in T : \A y \in T : x <= y
  <1> DEFINE R == OpToRel(<, Nat)
  <1>1. IsWellFoundedOn(R, Nat)
    BY NatLessThanWellFounded
  <1>2. \E x \in T : \A y \in T : ~(<<y, x>> \in R)
    <2> HIDE DEF R
    <2> QED BY <1>1, WFMin
  <1>3. PICK x \in T : \A y \in T : ~(<<y, x>> \in R)
    BY <1>2
  <1>4. \A y \in T : ~(y < x)
    BY <1>3 DEF OpToRel
  <1> QED BY <1>4

\* Induction over the natural numbers, for a set.
LEMMA SetInduction ==
  ASSUME NEW T, 0 \in T, \A n \in Nat : n \in T => n + 1 \in T
  PROVE  Nat \subseteq T
  <1> SUFFICES ASSUME Nat \ T # {} PROVE FALSE
    OBVIOUS
  <1>1. PICK x \in Nat \ T : \A y \in Nat \ T : x <= y
    BY LeastNatural
  <1>2. x # 0 /\ x - 1 \in Nat
    BY <1>1
  <1>3. x - 1 \in T
    BY <1>1, <1>2
  <1>4. (x - 1) + 1 \in T
    BY <1>2, <1>3
  <1> QED BY <1>1, <1>2, <1>4

\* One step of the recursion of Kept.
KeptStep(F, s, S, i) == IF i = 0 THEN <<>> ELSE IF s[i] \in S THEN Append(F[i - 1], s[i]) ELSE F[i - 1]

\* The recursion of Kept has a solution.
LEMMA KeptExists ==
  ASSUME NEW s, NEW S, NEW m \in Nat
  PROVE  \E F : F = [i \in 0..m |-> KeptStep(F, s, S, i)]
  <1> DEFINE T == {n \in Nat : \E F : F = [i \in 0..n |-> KeptStep(F, s, S, i)]}
  <1>1. 0 \in T
    <2> DEFINE F0 == [i \in 0..0 |-> <<>>]
    <2>1. F0 = [i \in 0..0 |-> KeptStep(F0, s, S, i)]
      BY DEF KeptStep
    <2> QED BY <2>1
  <1>2. ASSUME NEW n \in Nat, n \in T PROVE n + 1 \in T
    <2>1. PICK F : F = [i \in 0..n |-> KeptStep(F, s, S, i)]
      BY <1>2
    <2> DEFINE G == [i \in 0..(n + 1) |-> IF i = n + 1 THEN KeptStep(F, s, S, i) ELSE F[i]]
    <2>2. ASSUME NEW i \in 0..(n + 1) PROVE G[i] = KeptStep(G, s, S, i)
      <3>1. KeptStep(G, s, S, i) = KeptStep(F, s, S, i)
        <4>1. i # 0 => i - 1 \in 0..(n + 1) /\ i - 1 # n + 1
          OBVIOUS
        <4>2. i # 0 => G[i - 1] = F[i - 1]
          BY <4>1
        <4> QED BY <4>2 DEF KeptStep
      <3>2. i # n + 1 => i \in 0..n /\ F[i] = KeptStep(F, s, S, i)
        BY <2>1
      <3> QED BY <3>1, <3>2
    <2>3. G = [i \in 0..(n + 1) |-> KeptStep(G, s, S, i)]
      BY <2>2
    <2> HIDE DEF G
    <2>4. \E H : H = [i \in 0..(n + 1) |-> KeptStep(H, s, S, i)]
      BY <2>3
    <2> QED BY <2>4
  <1> HIDE DEF T
  <1>3. Nat \subseteq T
    BY <1>1, <1>2, SetInduction
  <1> QED BY <1>3 DEF T

\* Kept is a solution of its recursion.
LEMMA KeptIs ==
  ASSUME NEW T, NEW s \in Seq(T), NEW S
  PROVE  Kept(s, S) = [i \in 0..Len(s) |-> KeptStep(Kept(s, S), s, S, i)]
  <1> DEFINE m == Len(s)
  <1>0. m \in Nat
    OBVIOUS
  <1>1. \E F : F = [i \in 0..m |-> KeptStep(F, s, S, i)]
    <2> HIDE DEF m
    <2> QED BY <1>0, KeptExists
  <1> QED BY <1>1, Zenon DEF Kept, KeptStep

\* What is kept of the first n elements, with the places it was at.
KeptFrom(r, s, S, n, g) ==
    /\ g \in [1..Len(r) -> 1..n]
    /\ \A i \in 1..Len(r) : r[i] = s[g[i]] /\ r[i] \in S
    /\ \A i, k \in 1..Len(r) : i < k => g[i] < g[k]
    /\ \A j \in 1..n : s[j] \in S => \E i \in 1..Len(r) : g[i] = j

\* What is kept of the first n elements is those of them in S, in their order.
LEMMA KeptFacts ==
  ASSUME NEW T, NEW s \in Seq(T), NEW S
  PROVE  \A n \in 0..Len(s) : Kept(s, S)[n] \in Seq(T) /\ \E g : KeptFrom(Kept(s, S)[n], s, S, n, g)
  <1> DEFINE F == Kept(s, S)
             Good(n) == F[n] \in Seq(T) /\ \E g : KeptFrom(F[n], s, S, n, g)
             N == {n \in Nat : n <= Len(s) => Good(n)}
  <1>1. \A i \in 0..Len(s) : F[i] = KeptStep(F, s, S, i)
    BY KeptIs
  <1> HIDE DEF F
  <1>2. 0 \in N
    <2>1. F[0] = <<>>
      BY <1>1 DEF KeptStep
    <2>2. KeptFrom(<<>>, s, S, 0, <<>>)
      BY DEF KeptFrom
    <2>3. Good(0)
      BY <2>1, <2>2
    <2> HIDE DEF Good
    <2> QED BY <2>3
  <1>3. ASSUME NEW n \in Nat, n \in N PROVE n + 1 \in N
    <2> SUFFICES ASSUME n + 1 <= Len(s) PROVE Good(n + 1)
      OBVIOUS
    <2>1. Good(n) /\ n + 1 \in 1..Len(s) /\ s[n + 1] \in T
      BY <1>3
    <2>2. PICK g : KeptFrom(F[n], s, S, n, g)
      BY <2>1
    <2> DEFINE r == F[n]
    <2>3. r \in Seq(T) /\ KeptFrom(r, s, S, n, g)
      BY <2>1, <2>2
    <2>4. F[n + 1] = IF s[n + 1] \in S THEN Append(r, s[n + 1]) ELSE r
      BY <1>1 DEF KeptStep
    <2> HIDE DEF r
    <2>5. CASE s[n + 1] \in S
      <3> DEFINE q == Append(r, s[n + 1])
                 h == [i \in 1..(Len(r) + 1) |-> IF i = Len(r) + 1 THEN n + 1 ELSE g[i]]
      <3>1. q \in Seq(T) /\ Len(q) = Len(r) + 1 /\ q[Len(r) + 1] = s[n + 1]
            /\ (\A i \in 1..Len(r) : q[i] = r[i]) /\ Len(r) \in Nat
        BY <2>1, <2>3
      <3>2. h \in [1..(Len(r) + 1) -> 1..(n + 1)]
        BY <2>3, <3>1 DEF KeptFrom
      <3>3. \A i \in 1..(Len(r) + 1) : q[i] = s[h[i]] /\ q[i] \in S
        BY <2>3, <2>5, <3>1 DEF KeptFrom
      <3>4. \A i, k \in 1..(Len(r) + 1) : i < k => h[i] < h[k]
        <4>1. ASSUME NEW i \in 1..(Len(r) + 1), NEW k \in 1..(Len(r) + 1), i < k PROVE h[i] < h[k]
          <5>1. i \in 1..Len(r) /\ h[i] = g[i] /\ g[i] \in 1..n
            BY SMTT(60), <2>3, <3>1, <4>1 DEF KeptFrom
          <5>2. CASE k = Len(r) + 1
            BY <5>1, <5>2
          <5>3. CASE k # Len(r) + 1
            <6>1. k \in 1..Len(r) /\ h[k] = g[k]
              BY <3>1, <5>3
            <6>2. g[i] < g[k]
              BY <2>3, <4>1, <5>1, <6>1 DEF KeptFrom
            <6> QED BY <5>1, <6>1, <6>2
          <5> QED BY <5>2, <5>3
        <4> QED BY <4>1
      <3>5. \A j \in 1..(n + 1) : s[j] \in S => \E i \in 1..(Len(r) + 1) : h[i] = j
        <4> SUFFICES ASSUME NEW j \in 1..(n + 1), s[j] \in S PROVE \E i \in 1..(Len(r) + 1) : h[i] = j
          OBVIOUS
        <4>1. CASE j = n + 1
          BY <4>1, <3>1
        <4>2. CASE j # n + 1
          <5>1. PICK i \in 1..Len(r) : g[i] = j
            BY <4>2, <2>3 DEF KeptFrom
          <5> QED BY <5>1, <3>1
        <4> QED BY <4>1, <4>2
      <3> HIDE DEF q, h
      <3>6. KeptFrom(q, s, S, n + 1, h)
        BY <3>1, <3>2, <3>3, <3>4, <3>5 DEF KeptFrom
      <3> QED BY <2>4, <2>5, <3>1, <3>6 DEF q
    <2>6. CASE s[n + 1] \notin S
      <3>1. KeptFrom(r, s, S, n + 1, g)
        BY <2>3, <2>6 DEF KeptFrom
      <3> QED BY <2>3, <2>4, <2>6, <3>1
    <2> QED BY <2>5, <2>6
  <1> HIDE DEF N
  <1>4. Nat \subseteq N
    BY <1>2, <1>3, SetInduction
  <1> QED BY <1>4 DEF N, F

\* A filter keeps the elements of s in S, all of them, once each and in their order.
LEMMA FilterFacts ==
  ASSUME NEW T, NEW s \in Seq(T), NEW S
  PROVE  /\ Filter(s, S) \in Seq(T)
         /\ \E g : KeptFrom(Filter(s, S), s, S, Len(s), g)
  <1>1. Len(s) \in 0..Len(s)
    OBVIOUS
  <1> QED BY <1>1, KeptFacts DEF Filter

\* There is nothing to keep of an empty sequence.
LEMMA FilterEmpty == \A S : Filter(<<>>, S) = <<>>
  <1> SUFFICES ASSUME NEW S PROVE Filter(<<>>, S) = <<>>
    OBVIOUS
  <1> DEFINE e == <<>>
  <1>1. e \in Seq({}) /\ Len(e) = 0
    OBVIOUS
  <1> HIDE DEF e
  <1>2. Kept(e, S)[0] = KeptStep(Kept(e, S), e, S, 0)
    <2>1. Kept(e, S) = [i \in 0..Len(e) |-> KeptStep(Kept(e, S), e, S, i)]
      <3> DEFINE T == {}
      <3>1. e \in Seq(T)
        BY <1>1
      <3> HIDE DEF T
      <3> QED BY <3>1, KeptIs, Zenon
    <2>2. 0 \in 0..Len(e)
      BY <1>1
    <2> QED BY <2>1, <2>2, Zenon
  <1>3. Filter(e, S) = <<>>
    BY <1>1, <1>2 DEF Filter, KeptStep
  <1> QED BY <1>3 DEF e

\* What comes last is kept or not, and changes nothing before it.
LEMMA FilterAppend ==
  ASSUME NEW T, NEW s \in Seq(T), NEW e \in T, NEW S
  PROVE  Filter(Append(s, e), S) = IF e \in S THEN Append(Filter(s, S), e) ELSE Filter(s, S)
  <1> DEFINE u == Append(s, e)
             F == Kept(s, S)
             G == Kept(u, S)
             N == {n \in Nat : n <= Len(s) => G[n] = F[n]}
  <1>1. /\ u \in Seq(T) /\ Len(u) = Len(s) + 1 /\ u[Len(s) + 1] = e /\ Len(s) \in Nat
        /\ \A i \in 1..Len(s) : u[i] = s[i]
    OBVIOUS
  <1> HIDE DEF u
  <1>2. /\ \A i \in 0..Len(s) : F[i] = KeptStep(F, s, S, i)
        /\ \A i \in 0..(Len(s) + 1) : G[i] = KeptStep(G, u, S, i)
    BY <1>1, KeptIs
  <1> HIDE DEF F, G
  <1>3. 0 \in N
    BY <1>1, <1>2 DEF KeptStep
  <1>4. ASSUME NEW n \in Nat, n \in N PROVE n + 1 \in N
    <2> SUFFICES ASSUME n + 1 <= Len(s) PROVE G[n + 1] = F[n + 1]
      OBVIOUS
    <2>1. G[n] = F[n] /\ u[n + 1] = s[n + 1] /\ n + 1 \in 0..Len(s) /\ n + 1 \in 0..(Len(s) + 1) /\ n + 1 # 0
      BY <1>1, <1>4
    <2>2. G[n + 1] = KeptStep(G, u, S, n + 1) /\ F[n + 1] = KeptStep(F, s, S, n + 1)
      BY <1>2, <2>1
    <2> QED BY <2>1, <2>2 DEF KeptStep
  <1> HIDE DEF N
  <1>5. Nat \subseteq N
    BY <1>3, <1>4, SetInduction
  <1>6. G[Len(s)] = F[Len(s)]
    BY <1>1, <1>5 DEF N
  <1>7. G[Len(s) + 1] = KeptStep(G, u, S, Len(s) + 1)
    BY <1>1, <1>2
  <1>8. G[Len(s) + 1] = IF e \in S THEN Append(F[Len(s)], e) ELSE F[Len(s)]
    BY <1>1, <1>6, <1>7 DEF KeptStep
  <1> QED BY <1>1, <1>8 DEF Filter, F, G, u

\* Two sets that agree on the elements of a sequence keep the same of it.
LEMMA FilterAgrees ==
  ASSUME NEW T, NEW s \in Seq(T), NEW S, NEW R, \A i \in 1..Len(s) : s[i] \in S <=> s[i] \in R
  PROVE  Filter(s, S) = Filter(s, R)
  <1> DEFINE F == Kept(s, S)
             G == Kept(s, R)
             N == {n \in Nat : n <= Len(s) => G[n] = F[n]}
  <1>1. Len(s) \in Nat
    OBVIOUS
  <1>2. \A i \in 0..Len(s) : F[i] = KeptStep(F, s, S, i) /\ G[i] = KeptStep(G, s, R, i)
    BY KeptIs
  <1> HIDE DEF F, G
  <1>3. 0 \in N
    BY <1>1, <1>2 DEF KeptStep
  <1>4. ASSUME NEW n \in Nat, n \in N PROVE n + 1 \in N
    <2> SUFFICES ASSUME n + 1 <= Len(s) PROVE G[n + 1] = F[n + 1]
      OBVIOUS
    <2>1. G[n] = F[n] /\ n + 1 \in 0..Len(s) /\ n + 1 # 0 /\ (s[n + 1] \in S <=> s[n + 1] \in R)
      BY <1>1, <1>4
    <2>2. G[n + 1] = KeptStep(G, s, R, n + 1) /\ F[n + 1] = KeptStep(F, s, S, n + 1)
      BY <1>2, <2>1
    <2> QED BY <2>1, <2>2 DEF KeptStep
  <1> HIDE DEF N
  <1>5. Nat \subseteq N
    BY <1>3, <1>4, SetInduction
  <1>6. G[Len(s)] = F[Len(s)]
    BY <1>1, <1>5 DEF N
  <1> QED BY <1>6 DEF Filter, F, G

\* A sequence all of whose elements are in the set is kept as it is.
LEMMA FilterAll ==
  ASSUME NEW T, NEW s \in Seq(T), NEW S, \A i \in 1..Len(s) : s[i] \in S
  PROVE  Filter(s, S) = s
  <1> DEFINE F == Kept(s, S)
             Same(n) == F[n] \in Seq(T) /\ Len(F[n]) = n /\ \A i \in 1..n : F[n][i] = s[i]
             N == {n \in Nat : n <= Len(s) => Same(n)}
  <1>1. Len(s) \in Nat
    OBVIOUS
  <1>2. \A i \in 0..Len(s) : F[i] = KeptStep(F, s, S, i)
    BY KeptIs
  <1> HIDE DEF F
  <1>3. 0 \in N
    <2>1. F[0] = <<>>
      BY <1>1, <1>2 DEF KeptStep
    <2>2. F[0] \in Seq(T) /\ Len(F[0]) = 0
      BY <2>1
    <2> QED BY <2>2
  <1>4. ASSUME NEW n \in Nat, n \in N PROVE n + 1 \in N
    <2> SUFFICES ASSUME n + 1 <= Len(s) PROVE Same(n + 1)
      OBVIOUS
    <2>0. n + 1 \in 0..Len(s) /\ n + 1 # 0 /\ n + 1 \in 1..Len(s) /\ n <= Len(s)
      BY <1>1
    <2>1. Same(n)
      BY <1>4, <2>0
    <2>9. s[n + 1] \in S /\ s[n + 1] \in T
      BY <2>0
    <2>2. F[n + 1] = Append(F[n], s[n + 1])
      <3>1. (n + 1) - 1 = n
        OBVIOUS
      <3>2. F[n + 1] = KeptStep(F, s, S, n + 1)
        BY <1>2, <2>0
      <3> QED BY <2>0, <2>9, <3>1, <3>2 DEF KeptStep
    <2> DEFINE r == F[n]
    <2>3. r \in Seq(T) /\ Len(r) = n /\ F[n + 1] = Append(r, s[n + 1]) /\ \A i \in 1..n : r[i] = s[i]
      BY <2>1, <2>2
    <2> HIDE DEF r
    <2>4. Append(r, s[n + 1]) \in Seq(T) /\ Len(Append(r, s[n + 1])) = n + 1
      BY <2>3, <2>9
    <2>5. \A i \in 1..(n + 1) : Append(r, s[n + 1])[i] = s[i]
      BY <2>3, <2>9
    <2> QED BY <2>3, <2>4, <2>5
  <1> HIDE DEF N
  <1>5. Nat \subseteq N
    BY <1>3, <1>4, SetInduction
  <1>6. Same(Len(s))
    BY <1>1, <1>5 DEF N
  <1> DEFINE r == F[Len(s)]
  <1>7. r \in Seq(T) /\ Len(r) = Len(s) /\ \A i \in 1..Len(s) : r[i] = s[i]
    BY <1>6
  <1> HIDE DEF r
  <1>8. r = s
    BY <1>7
  <1> QED BY <1>8 DEF Filter, F, r

-----------------------------------------------------------------------------
\* What a slice of a sequence holds.
LEMMA SliceIs ==
  ASSUME NEW T, NEW s \in Seq(T), NEW lo \in Nat, NEW hi \in Nat, lo <= hi, hi <= Len(s)
  PROVE  /\ SubSeq(s, lo + 1, hi) \in Seq(T) /\ Len(SubSeq(s, lo + 1, hi)) = hi - lo
         /\ \A i \in 1..(hi - lo) : SubSeq(s, lo + 1, hi)[i] = s[lo + i]
  <1> DEFINE p == SubSeq(s, lo + 1, hi)
  <1>1. \A i \in (lo + 1)..hi : s[i] \in T
    OBVIOUS
  <1>2. lo + 1 \in Int /\ hi \in Int
    OBVIOUS
  <1>3. /\ p \in Seq(T) /\ Len(p) = IF lo + 1 <= hi THEN hi - (lo + 1) + 1 ELSE 0
        /\ \A i \in 1..(hi - (lo + 1) + 1) : p[i] = s[(lo + 1) + i - 1]
    BY <1>1, <1>2, SubSeqProperties
  <1> HIDE DEF p
  <1>4. hi - (lo + 1) + 1 = hi - lo /\ \A i \in 1..(hi - lo) : (lo + 1) + i - 1 = lo + i
    OBVIOUS
  <1>5. p \in Seq(T) /\ Len(p) = hi - lo /\ \A i \in 1..(hi - lo) : p[i] = s[lo + i]
    BY <1>3, <1>4
  <1> QED BY <1>5 DEF p

\* The same of its beginning.
LEMMA HeadIs ==
  ASSUME NEW T, NEW s \in Seq(T), NEW n \in Nat, n <= Len(s)
  PROVE  SubSeq(s, 1, n) \in Seq(T) /\ Len(SubSeq(s, 1, n)) = n /\ \A i \in 1..n : SubSeq(s, 1, n)[i] = s[i]
  <1>1. 0 \in Nat /\ 0 <= n /\ 0 + 1 = 1 /\ n - 0 = n /\ \A i \in 1..n : 0 + i = i
    OBVIOUS
  <1>2. /\ SubSeq(s, 0 + 1, n) \in Seq(T) /\ Len(SubSeq(s, 0 + 1, n)) = n - 0
        /\ \A i \in 1..(n - 0) : SubSeq(s, 0 + 1, n)[i] = s[0 + i]
    BY <1>1, SliceIs
  <1> QED BY <1>1, <1>2

\* The elements that are kept are those in the set, and what was there once is kept once.
LEMMA FilterKeeps ==
  ASSUME NEW T, NEW s \in Seq(T), NEW S
  PROVE  LET r == Filter(s, S) IN
         /\ r \in Seq(T)
         /\ \A i \in 1..Len(r) : r[i] \in S /\ \E j \in 1..Len(s) : r[i] = s[j]
         /\ \A j \in 1..Len(s) : s[j] \in S => \E i \in 1..Len(r) : r[i] = s[j]
         /\ (\A i, k \in 1..Len(s) : s[i] = s[k] => i = k) => \A i, k \in 1..Len(r) : r[i] = r[k] => i = k
  <1> DEFINE r == Filter(s, S)
  <1>1. r \in Seq(T) /\ \E g : KeptFrom(r, s, S, Len(s), g)
    BY FilterFacts
  <1> HIDE DEF r
  <1>2. PICK g : KeptFrom(r, s, S, Len(s), g)
    BY <1>1
  <1>3. Len(r) \in Nat /\ Len(s) \in Nat
    BY <1>1
  <1>4. \A i \in 1..Len(r) : g[i] \in 1..Len(s) /\ r[i] = s[g[i]] /\ r[i] \in S
    BY <1>2 DEF KeptFrom
  <1>5. \A j \in 1..Len(s) : s[j] \in S => \E i \in 1..Len(r) : r[i] = s[j]
    BY <1>2, <1>4 DEF KeptFrom
  <1>6. \A i \in 1..Len(r) : r[i] \in S /\ \E j \in 1..Len(s) : r[i] = s[j]
    BY <1>4
  <1>7. ASSUME \A i, k \in 1..Len(s) : s[i] = s[k] => i = k, NEW i \in 1..Len(r), NEW k \in 1..Len(r), r[i] = r[k]
        PROVE  i = k
    <2>1. g[i] = g[k]
      BY <1>4, <1>7
    <2>2. g[i] \in Nat /\ g[k] \in Nat
      BY <1>3, <1>4
    <2>3. ~(i < k) /\ ~(k < i)
      BY <1>2, <2>1, <2>2 DEF KeptFrom
    <2> QED BY <1>3, <2>3
  <1> QED BY <1>1, <1>5, <1>6, <1>7 DEF r

\* One step of the recursion of JoinedUpTo.
JoinedStep(F, ss, n) == IF n = 0 THEN <<>> ELSE F[n - 1] \o ss[n]

\* The recursion of JoinedUpTo has a solution.
LEMMA JoinedExists ==
  ASSUME NEW ss, NEW m \in Nat
  PROVE  \E F : F = [n \in 0..m |-> JoinedStep(F, ss, n)]
  <1> DEFINE T == {k \in Nat : \E F : F = [n \in 0..k |-> JoinedStep(F, ss, n)]}
  <1>1. 0 \in T
    <2> DEFINE F0 == [n \in 0..0 |-> <<>>]
    <2>1. F0 = [n \in 0..0 |-> JoinedStep(F0, ss, n)]
      BY DEF JoinedStep
    <2> QED BY <2>1
  <1>2. ASSUME NEW k \in Nat, k \in T PROVE k + 1 \in T
    <2>1. PICK F : F = [n \in 0..k |-> JoinedStep(F, ss, n)]
      BY <1>2
    <2> DEFINE G == [n \in 0..(k + 1) |-> IF n = k + 1 THEN JoinedStep(F, ss, n) ELSE F[n]]
    <2>2. ASSUME NEW n \in 0..(k + 1) PROVE G[n] = JoinedStep(G, ss, n)
      <3>1. JoinedStep(G, ss, n) = JoinedStep(F, ss, n)
        <4>1. n # 0 => n - 1 \in 0..(k + 1) /\ n - 1 # k + 1
          OBVIOUS
        <4>2. n # 0 => G[n - 1] = F[n - 1]
          BY <4>1
        <4> QED BY <4>2 DEF JoinedStep
      <3>2. n # k + 1 => n \in 0..k /\ F[n] = JoinedStep(F, ss, n)
        BY <2>1
      <3> QED BY <3>1, <3>2
    <2>3. G = [n \in 0..(k + 1) |-> JoinedStep(G, ss, n)]
      BY <2>2
    <2> HIDE DEF G
    <2>4. \E H : H = [n \in 0..(k + 1) |-> JoinedStep(H, ss, n)]
      BY <2>3
    <2> QED BY <2>4
  <1> HIDE DEF T
  <1>3. Nat \subseteq T
    BY <1>1, <1>2, SetInduction
  <1> QED BY <1>3 DEF T

\* Sequences of the elements of a set make one when they are joined.
LEMMA JoinedIsSequence ==
  ASSUME NEW T, NEW ss \in Seq(Seq(T))
  PROVE  Joined(ss) \in Seq(T)
  <1> DEFINE m == Len(ss)
             F == JoinedUpTo(ss)
             N == {n \in Nat : n <= m => F[n] \in Seq(T)}
  <1>1. m \in Nat /\ \A n \in 1..m : ss[n] \in Seq(T)
    OBVIOUS
  <1>2. \E H : H = [n \in 0..m |-> JoinedStep(H, ss, n)]
    <2> HIDE DEF m
    <2> QED BY <1>1, JoinedExists
  <1>3. JoinedUpTo(ss) = [n \in 0..Len(ss) |-> JoinedStep(JoinedUpTo(ss), ss, n)]
    BY <1>2, Zenon DEF JoinedUpTo, JoinedStep
  <1>4. \A n \in 0..m : F[n] = JoinedStep(F, ss, n)
    BY <1>3
  <1> HIDE DEF F
  <1>5. 0 \in N
    <2>1. F[0] = <<>>
      BY <1>1, <1>4 DEF JoinedStep
    <2>2. F[0] \in Seq(T)
      BY <2>1
    <2> QED BY <2>2
  <1>6. ASSUME NEW n \in Nat, n \in N PROVE n + 1 \in N
    <2> SUFFICES ASSUME n + 1 <= m PROVE F[n + 1] \in Seq(T)
      OBVIOUS
    <2>1. F[n] \in Seq(T) /\ ss[n + 1] \in Seq(T)
      BY <1>1, <1>6
    <2>2. n + 1 \in 0..m /\ n + 1 # 0 /\ (n + 1) - 1 = n
      BY <1>1
    <2>3. F[n + 1] = F[n] \o ss[n + 1]
      BY <1>4, <2>2 DEF JoinedStep
    <2> QED BY <2>1, <2>3
  <1> HIDE DEF N
  <1>7. Nat \subseteq N
    BY <1>5, <1>6, SetInduction
  <1>8. F[m] \in Seq(T)
    BY <1>1, <1>7 DEF N
  <1> QED BY <1>8 DEF F, Joined
=============================================================================
