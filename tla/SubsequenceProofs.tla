------------------------- MODULE SubsequenceProofs -------------------------
(***************************************************************************)
(* What SelectAt computes, for every sequence.  The induction over the     *)
(* length of the sequence is an induction over sets of natural numbers     *)
(* (NatSetInduction), which is derived here from the well-foundedness of   *)
(* < on Nat.                                                               *)
(***************************************************************************)
EXTENDS Subsequences, WellFoundedInduction, TLAPS

-----------------------------------------------------------------------------
(* Induction.                                                              *)

\* Every non-empty set of natural numbers has a least element.
LEMMA LeastNumber ==
    ASSUME NEW T \in SUBSET Nat, T # {}
    PROVE  \E n \in T : \A m \in T : n <= m
<1>. DEFINE less == {p \in Nat \X Nat : p[1] < p[2]}
<1>1. IsWellFoundedOn(less, Nat)
  BY NatLessThanWellFounded, Zenon DEF OpToRel
<1>2. \A x, y \in Nat : <<y, x>> \in less <=> y < x
  OBVIOUS
<1>. HIDE DEF less
<1>3. PICK x \in T : \A y \in T : ~ (<<y, x>> \in less)
  BY <1>1, WFMin
<1>4. \A y \in T : x \in Nat /\ y \in Nat /\ ~(y < x)
  BY <1>2, <1>3
<1>. QED
  BY <1>4

\* A bounded set of numbers has a greatest one.
LEMMA GreatestNumber ==
    ASSUME NEW N \in Nat, NEW T \in SUBSET (0..N), T # {}
    PROVE  \E n \in T : \A m \in T : m <= n
<1>. DEFINE D == {N - n : n \in T}
<1>1. D \in SUBSET Nat /\ D # {}
  <2>1. ASSUME NEW n \in T PROVE N - n \in Nat
    <3>1. n \in 0..N
      OBVIOUS
    <3>2. QED
      BY <3>1
  <2>2. QED
    BY <2>1
<1>2. PICK d \in D : \A m \in D : d <= m
  <2>. HIDE DEF D
  <2>. QED
    BY <1>1, LeastNumber
<1>3. PICK n \in T : d = N - n
  OBVIOUS
<1>4. ASSUME NEW m \in T PROVE m <= n
  <2>1. d <= N - m
    BY <1>2
  <2>2. QED
    BY <1>3, <2>1
<1>5. QED
  BY <1>4

\* A set that has 0 and with every number its successor has all numbers.
LEMMA NatSetInduction ==
    ASSUME NEW T, 0 \in T, \A n \in Nat : n \in T => n + 1 \in T
    PROVE  \A n \in Nat : n \in T
<1>. SUFFICES ASSUME Nat \ T # {} PROVE FALSE
  OBVIOUS
<1>1. PICK n \in Nat \ T : \A m \in Nat \ T : n <= m
  BY LeastNumber
<1>2. n # 0 /\ n - 1 \in Nat /\ n - 1 \notin Nat \ T
  BY <1>1
<1>3. (n - 1) + 1 = n
  BY <1>1
<1>. QED
  BY <1>1, <1>2, <1>3

-----------------------------------------------------------------------------
(* SelectAt.                                                               *)

\* The equation of the recursive function in SelectAt.
SelectStep(s, I, F, n) ==
    IF n = 0 THEN <<>>
    ELSE IF n \in I THEN Append(F[n - 1], s[n]) ELSE F[n - 1]

SelectsUpTo(s, I, F, n) == \A k \in 0..n : F[k] = SelectStep(s, I, F, k)

\* h maps the positions of r to the positions of s, up to n, that are in I.
PicksBy(s, I, n, r, h) ==
    /\ h \in [1..Len(r) -> 1..n]
    /\ \A k \in 1..Len(r) : h[k] \in I /\ r[k] = s[h[k]]
    /\ \A j, k \in 1..Len(r) : j < k => h[j] < h[k]
    /\ \A i \in 1..n : i \in I => \E k \in 1..Len(r) : h[k] = i

Picks(s, I, n, r) == \E h : PicksBy(s, I, n, r, h)

\* One more element keeps what is selected.
LEMMA SelectOne ==
    ASSUME NEW S, NEW s \in Seq(S), NEW I, NEW n \in Nat, n + 1 \in 1..Len(s),
           NEW r \in Seq(S), Picks(s, I, n, r),
           NEW q, q = IF n + 1 \in I THEN Append(r, s[n + 1]) ELSE r
    PROVE  q \in Seq(S) /\ Picks(s, I, n + 1, q)
<1>1. PICK h : PicksBy(s, I, n, r, h)
  BY DEF Picks
<1>2. CASE n + 1 \notin I
  <2>1. PicksBy(s, I, n + 1, q, h)
    BY <1>1, <1>2 DEF PicksBy
  <2>. QED
    BY <1>2, <2>1 DEF Picks
<1>3. CASE n + 1 \in I
  <2>. DEFINE g == [k \in 1..(Len(r) + 1) |-> IF k = Len(r) + 1 THEN n + 1 ELSE h[k]]
  <2>1. /\ q \in Seq(S) /\ Len(q) = Len(r) + 1
        /\ \A k \in 1..Len(r) : q[k] = r[k]
        /\ q[Len(r) + 1] = s[n + 1]
    BY <1>3
  <2>2. \A k \in 1..Len(r) : g[k] = h[k]
    OBVIOUS
  <2>3. g[Len(r) + 1] = n + 1
    OBVIOUS
  <2>4. g \in [1..(Len(r) + 1) -> 1..(n + 1)]
    BY <1>1 DEF PicksBy
  <2>. HIDE DEF g
  <2>5. \A k \in 1..Len(q) : k \in 1..Len(r) \/ k = Len(r) + 1
    BY <2>1
  <2>6. \A k \in 1..Len(q) : g[k] \in I /\ q[k] = s[g[k]]
    BY <1>1, <1>3, <2>1, <2>2, <2>3, <2>5 DEF PicksBy
  <2>7. \A j, k \in 1..Len(q) : j < k => g[j] < g[k]
    <3>. SUFFICES ASSUME NEW j \in 1..Len(q), NEW k \in 1..Len(q), j < k PROVE g[j] < g[k]
      OBVIOUS
    <3>0. j \in 1..Len(r)
      BY <2>1
    <3>1. j \in 1..Len(r) /\ h[j] \in 1..n
      BY <1>1, <3>0 DEF PicksBy
    <3>. QED
      BY <1>1, <2>2, <2>3, <2>5, <3>1 DEF PicksBy
  <2>8. \A i \in 1..(n + 1) : i \in I => \E k \in 1..Len(q) : g[k] = i
    <3>. SUFFICES ASSUME NEW i \in 1..(n + 1), i \in I PROVE \E k \in 1..Len(q) : g[k] = i
      OBVIOUS
    <3>1. CASE i = n + 1
      BY <2>1, <2>3, <3>1
    <3>2. CASE i \in 1..n
      BY <1>1, <2>1, <2>2, <3>2 DEF PicksBy
    <3>. QED
      BY <3>1, <3>2
  <2>9. PicksBy(s, I, n + 1, q, g)
    BY <2>1, <2>4, <2>6, <2>7, <2>8 DEF PicksBy
  <2>. QED
    BY <2>1, <2>9 DEF Picks
<1>. QED
  BY <1>2, <1>3

\* The recursion has a solution up to every position.
LEMMA SelectExists ==
    ASSUME NEW S, NEW s \in Seq(S), NEW I
    PROVE  \E F \in [0..Len(s) -> Seq(S)] : SelectsUpTo(s, I, F, Len(s))
<1>. DEFINE Has(n) == \E F \in [0..n -> Seq(S)] : SelectsUpTo(s, I, F, n)
            T == {n \in Nat : n <= Len(s) => Has(n)}
<1>1. 0 \in T
  <2>. DEFINE F == [k \in 0..0 |-> <<>>]
  <2>1. F \in [0..0 -> Seq(S)] /\ SelectsUpTo(s, I, F, 0)
    BY DEF SelectsUpTo, SelectStep
  <2>. QED
    BY <2>1
<1>2. ASSUME NEW n \in Nat, n \in T PROVE n + 1 \in T
  <2>. SUFFICES ASSUME n + 1 <= Len(s) PROVE Has(n + 1)
    OBVIOUS
  <2>1. PICK F \in [0..n -> Seq(S)] : SelectsUpTo(s, I, F, n)
    BY <1>2
  <2>. DEFINE new == IF n + 1 \in I THEN Append(F[n], s[n + 1]) ELSE F[n]
              G == [k \in 0..(n + 1) |-> IF k = n + 1 THEN new ELSE F[k]]
  <2>2. n \in 0..n /\ n + 1 \in 1..Len(s)
    OBVIOUS
  <2>3. F[n] \in Seq(S) /\ s[n + 1] \in S
    BY <2>2
  <2>4. new \in Seq(S)
    BY <2>3
  <2>5. G[n + 1] = new /\ \A k \in 0..n : G[k] = F[k]
    OBVIOUS
  <2>6. G \in [0..(n + 1) -> Seq(S)]
    BY <2>4
  <2>. HIDE DEF G
  <2>7. \A k \in 0..n : G[k] = SelectStep(s, I, G, k)
    <3>. SUFFICES ASSUME NEW k \in 0..n PROVE G[k] = SelectStep(s, I, G, k)
      OBVIOUS
    <3>1. k # 0 => k - 1 \in 0..n
      OBVIOUS
    <3>2. F[k] = SelectStep(s, I, F, k)
      BY <2>1 DEF SelectsUpTo
    <3>. QED
      BY <2>5, <3>1, <3>2 DEF SelectStep
  <2>8. G[n + 1] = SelectStep(s, I, G, n + 1)
    <3>1. n + 1 # 0 /\ (n + 1) - 1 = n /\ G[n] = F[n]
      BY <2>2, <2>5
    <3>. QED
      BY <2>5, <3>1 DEF SelectStep
  <2>9. \A k \in 0..(n + 1) : k \in 0..n \/ k = n + 1
    OBVIOUS
  <2>. QED
    BY <2>6, <2>7, <2>8, <2>9 DEF SelectsUpTo
<1>. HIDE DEF T
<1>3. \A n \in Nat : n \in T
  BY <1>1, <1>2, NatSetInduction
<1>. QED
  BY <1>3 DEF T

\* SelectAt returns the end of a solution of its recursion.
LEMMA SelectAtSolves ==
    ASSUME NEW S, NEW s \in Seq(S), NEW I
    PROVE  \E F : SelectsUpTo(s, I, F, Len(s)) /\ SelectAt(s, I) = F[Len(s)]
<1>1. PICK F \in [0..Len(s) -> Seq(S)] : SelectsUpTo(s, I, F, Len(s))
  BY SelectExists
<1>2. F = [n \in 0..Len(s) |-> IF n = 0 THEN <<>>
                               ELSE IF n \in I THEN Append(F[n - 1], s[n]) ELSE F[n - 1]]
  BY <1>1 DEF SelectsUpTo, SelectStep
<1>3. PICK G : /\ G = [n \in 0..Len(s) |-> IF n = 0 THEN <<>>
                               ELSE IF n \in I THEN Append(G[n - 1], s[n]) ELSE G[n - 1]]
               /\ SelectAt(s, I) = G[Len(s)]
  BY <1>2 DEF SelectAt
<1>4. \A n \in 0..Len(s) : G[n] = IF n = 0 THEN <<>>
                               ELSE IF n \in I THEN Append(G[n - 1], s[n]) ELSE G[n - 1]
  BY <1>3
<1>. QED
  BY <1>3, <1>4 DEF SelectsUpTo, SelectStep

\* SelectAt returns exactly the elements at the positions given, once each and
\* in their order: there is an increasing map between the positions.
THEOREM SelectAtSelects ==
    ASSUME NEW S, NEW s \in Seq(S), NEW I
    PROVE  SelectAt(s, I) \in Seq(S) /\ Picks(s, I, Len(s), SelectAt(s, I))
<1>1. PICK F : SelectsUpTo(s, I, F, Len(s)) /\ SelectAt(s, I) = F[Len(s)]
  BY SelectAtSolves
<1>. DEFINE T == {n \in Nat : n <= Len(s) => F[n] \in Seq(S) /\ Picks(s, I, n, F[n])}
<1>2. 0 \in T
  <2>1. F[0] = <<>>
    BY <1>1 DEF SelectsUpTo, SelectStep
  <2>2. PicksBy(s, I, 0, <<>>, <<>>)
    BY DEF PicksBy
  <2>3. Picks(s, I, 0, F[0])
    BY <2>1, <2>2 DEF Picks
  <2>4. F[0] \in Seq(S)
    BY <2>1
  <2>. QED
    BY <2>3, <2>4
<1>3. ASSUME NEW n \in Nat, n \in T PROVE n + 1 \in T
  <2>. SUFFICES ASSUME n + 1 <= Len(s)
                PROVE  F[n + 1] \in Seq(S) /\ Picks(s, I, n + 1, F[n + 1])
    OBVIOUS
  <2>1. F[n] \in Seq(S) /\ Picks(s, I, n, F[n])
    BY <1>3
  <2>2. n + 1 \in 0..Len(s) /\ n + 1 # 0 /\ (n + 1) - 1 = n
    OBVIOUS
  <2>3. F[n + 1] = IF n + 1 \in I THEN Append(F[n], s[n + 1]) ELSE F[n]
    BY <1>1, <2>2 DEF SelectsUpTo, SelectStep
  <2>4. n + 1 \in 1..Len(s)
    OBVIOUS
  <2>. HIDE DEF T
  <2>. QED
    BY <2>1, <2>3, <2>4, SelectOne
<1>. HIDE DEF T
<1>4. \A n \in Nat : n \in T
  BY <1>2, <1>3, NatSetInduction
<1>. QED
  BY <1>1, <1>4 DEF T
-----------------------------------------------------------------------------
(* The elements of sequences.                                              *)

\* Elements of a concatenation, of an extended and of a shortened sequence.
LEMMA InSeqConcat ==
    ASSUME NEW S, NEW s \in Seq(S), NEW t \in Seq(S)
    PROVE  s \o t \in Seq(S) /\ InSeq(s \o t) = InSeq(s) \cup InSeq(t)
<1>. DEFINE q == s \o t
<1>1. /\ q \in Seq(S) /\ Len(q) = Len(s) + Len(t) /\ Len(s) \in Nat /\ Len(t) \in Nat
      /\ \A i \in 1..Len(q) : q[i] = IF i <= Len(s) THEN s[i] ELSE t[i - Len(s)]
  OBVIOUS
<1>. HIDE DEF q
<1>2. ASSUME NEW e \in InSeq(q) PROVE e \in InSeq(s) \cup InSeq(t)
  <2>1. PICK i \in 1..Len(q) : e = q[i]
    BY DEF InSeq
  <2>2. CASE i <= Len(s)
    <3>1. i \in 1..Len(s) /\ e = s[i]
      BY <1>1, <2>1, <2>2
    <3>. QED
      BY <3>1 DEF InSeq
  <2>3. CASE ~(i <= Len(s))
    <3>1. i - Len(s) \in 1..Len(t) /\ e = t[i - Len(s)]
      BY <1>1, <2>1, <2>3
    <3>. QED
      BY <3>1 DEF InSeq
  <2>. QED
    BY <2>2, <2>3
<1>3. ASSUME NEW e \in InSeq(s) PROVE e \in InSeq(q)
  <2>1. PICK i \in 1..Len(s) : e = s[i]
    BY DEF InSeq
  <2>2. i \in 1..Len(q) /\ q[i] = e
    BY <1>1, <2>1
  <2>. QED
    BY <2>2 DEF InSeq
<1>4. ASSUME NEW e \in InSeq(t) PROVE e \in InSeq(q)
  <2>1. PICK i \in 1..Len(t) : e = t[i]
    BY DEF InSeq
  <2>2. i + Len(s) \in 1..Len(q) /\ ~(i + Len(s) <= Len(s)) /\ (i + Len(s)) - Len(s) = i
    BY <1>1, <2>1
  <2>3. q[i + Len(s)] = e
    BY <1>1, <2>1, <2>2
  <2>. QED
    BY <2>2, <2>3 DEF InSeq
<1>. QED
  BY <1>1, <1>2, <1>3, <1>4 DEF q

LEMMA InSeqAppend ==
    ASSUME NEW S, NEW s \in Seq(S), NEW e \in S
    PROVE  Append(s, e) \in Seq(S) /\ InSeq(Append(s, e)) = InSeq(s) \cup {e}
<1>. DEFINE q == Append(s, e)
<1>1. /\ q \in Seq(S) /\ Len(q) = Len(s) + 1 /\ Len(s) \in Nat
      /\ q[Len(s) + 1] = e /\ \A i \in 1..Len(s) : q[i] = s[i]
  OBVIOUS
<1>. HIDE DEF q
<1>2. \A i \in 1..Len(q) : i \in 1..Len(s) \/ i = Len(s) + 1
  BY <1>1
<1>3. Len(s) + 1 \in 1..Len(q) /\ 1..Len(s) \subseteq 1..Len(q)
  BY <1>1
<1>4. InSeq(q) \subseteq InSeq(s) \cup {e}
  BY <1>1, <1>2 DEF InSeq
<1>5. InSeq(s) \cup {e} \subseteq InSeq(q)
  BY <1>1, <1>3 DEF InSeq
<1>. QED
  BY <1>1, <1>4, <1>5 DEF q

LEMMA InSeqTyped ==
    ASSUME NEW S, NEW s \in Seq(S)
    PROVE  InSeq(s) \subseteq S
BY DEF InSeq

LEMMA InSeqEmpty == InSeq(<<>>) = {} /\ Entries(<<>>) = {}
BY DEF InSeq, Entries

LEMMA EntriesAppend ==
    ASSUME NEW S, NEW s \in Seq(Seq(S)), NEW b \in Seq(S)
    PROVE  Append(s, b) \in Seq(Seq(S)) /\ Entries(Append(s, b)) = Entries(s) \cup InSeq(b)
<1>. DEFINE q == Append(s, b)
<1>1. /\ q \in Seq(Seq(S)) /\ Len(q) = Len(s) + 1 /\ Len(s) \in Nat
      /\ q[Len(s) + 1] = b /\ \A i \in 1..Len(s) : q[i] = s[i]
  OBVIOUS
<1>. HIDE DEF q
<1>2. \A i \in 1..Len(q) : i \in 1..Len(s) \/ i = Len(s) + 1
  BY <1>1
<1>3. Len(s) + 1 \in 1..Len(q) /\ 1..Len(s) \subseteq 1..Len(q)
  BY <1>1
<1>4. Entries(q) \subseteq Entries(s) \cup InSeq(b)
  BY <1>1, <1>2 DEF Entries
<1>5. Entries(s) \cup InSeq(b) \subseteq Entries(q)
  BY <1>1, <1>3 DEF Entries
<1>. QED
  BY <1>1, <1>4, <1>5 DEF q

LEMMA EntriesTail ==
    ASSUME NEW S, NEW s \in Seq(Seq(S)), s # <<>>
    PROVE  /\ Head(s) \in Seq(S) /\ Tail(s) \in Seq(Seq(S))
           /\ Entries(s) = InSeq(Head(s)) \cup Entries(Tail(s))
<1>. DEFINE q == Tail(s)
<1>1. /\ q \in Seq(Seq(S)) /\ Len(s) = Len(q) + 1 /\ Len(q) \in Nat
      /\ Head(s) = s[1] /\ Head(s) \in Seq(S)
      /\ \A i \in 1..Len(q) : q[i] = s[i + 1]
  OBVIOUS
<1>. HIDE DEF q
<1>2. ASSUME NEW i \in 1..Len(s), i # 1 PROVE i - 1 \in 1..Len(q) /\ q[i - 1] = s[i]
  <2>1. i - 1 \in 1..Len(q) /\ (i - 1) + 1 = i
    BY <1>1, <1>2
  <2>. QED
    BY <1>1, <2>1
<1>3. 1 \in 1..Len(s) /\ \A i \in 1..Len(q) : i + 1 \in 1..Len(s)
  BY <1>1
<1>4. Entries(s) \subseteq InSeq(Head(s)) \cup Entries(q)
  BY <1>1, <1>2 DEF Entries
<1>5. InSeq(Head(s)) \cup Entries(q) \subseteq Entries(s)
  BY <1>1, <1>3 DEF Entries
<1>. QED
  BY <1>1, <1>4, <1>5 DEF q

-----------------------------------------------------------------------------
(* AppendNew.                                                              *)

\* AppendNew adds what is new, and nothing else.
LEMMA AppendNewIs ==
    ASSUME NEW S, NEW s \in Seq(S), NEW b \in Seq(S)
    PROVE  AppendNew(s, b) \in Seq(S) /\ InSeq(AppendNew(s, b)) = InSeq(s) \cup InSeq(b)
<1>. DEFINE I == {i \in 1..Len(b) : b[i] \notin InSeq(s)}
            n == SelectAt(b, I)
<1>1. n \in Seq(S) /\ Picks(b, I, Len(b), n)
  BY SelectAtSelects
<1>2. PICK h : PicksBy(b, I, Len(b), n, h)
  BY <1>1 DEF Picks
<1>3. AppendNew(s, b) = s \o n
  BY DEF AppendNew
<1>4. \A i \in I : \E k \in 1..Len(n) : h[k] = i
  BY <1>2 DEF PicksBy
<1>5. \A k \in 1..Len(n) : h[k] \in 1..Len(b) /\ n[k] = b[h[k]]
  BY <1>2 DEF PicksBy
<1>. HIDE DEF n
<1>6. InSeq(n) \subseteq InSeq(b)
  BY <1>5 DEF InSeq
<1>7. ASSUME NEW e \in InSeq(b), e \notin InSeq(s) PROVE e \in InSeq(n)
  <2>1. PICK i \in 1..Len(b) : e = b[i]
    BY DEF InSeq
  <2>2. PICK k \in 1..Len(n) : h[k] = i
    BY <1>4, <1>7, <2>1
  <2>3. e = n[k]
    BY <1>5, <2>1, <2>2
  <2>. QED
    BY <2>3 DEF InSeq
<1>8. s \o n \in Seq(S) /\ InSeq(s \o n) = InSeq(s) \cup InSeq(n)
  BY <1>1, InSeqConcat
<1>. QED
  BY <1>3, <1>6, <1>7, <1>8

Increasing(s) == \A i, j \in 1..Len(s) : i < j => s[i] < s[j]

\* What s has and the known elements lack is above all of them.
Ahead(s, known) == \A e \in InSeq(s) : e \in known \/ \A x \in known : x < e

\* AppendNew keeps a sequence of numbers increasing when what is new comes
\* later than all that is known.
LEMMA AppendNewIncreasing ==
    ASSUME NEW S \in SUBSET Nat, NEW s \in Seq(S), NEW b \in Seq(S),
           Increasing(s), Increasing(b), Ahead(b, InSeq(s))
    PROVE  Increasing(AppendNew(s, b))
<1>. DEFINE I == {i \in 1..Len(b) : b[i] \notin InSeq(s)}
            n == SelectAt(b, I)
            q == s \o n
<1>1. n \in Seq(S) /\ Picks(b, I, Len(b), n)
  BY SelectAtSelects
<1>2. PICK h : PicksBy(b, I, Len(b), n, h)
  BY <1>1 DEF Picks
<1>3. \A k \in 1..Len(n) : h[k] \in 1..Len(b) /\ n[k] = b[h[k]] /\ h[k] \in I
  BY <1>2 DEF PicksBy
<1>4. \A j, k \in 1..Len(n) : j < k => h[j] < h[k]
  BY <1>2 DEF PicksBy
<1>. HIDE DEF n
<1>5. \A j, k \in 1..Len(n) : j < k => n[j] < n[k]
  BY <1>3, <1>4 DEF Increasing
<1>6. ASSUME NEW i \in 1..Len(s), NEW k \in 1..Len(n) PROVE s[i] < n[k]
  <2>1. n[k] \in InSeq(b) /\ n[k] \notin InSeq(s) /\ s[i] \in InSeq(s)
    BY <1>3 DEF InSeq
  <2>. QED
    BY <2>1 DEF Ahead
<1>7. /\ Len(q) = Len(s) + Len(n) /\ Len(s) \in Nat /\ Len(n) \in Nat
      /\ \A i \in 1..Len(q) : q[i] = IF i <= Len(s) THEN s[i] ELSE n[i - Len(s)]
  BY <1>1
<1>8. AppendNew(s, b) = q
  BY DEF AppendNew, n
<1>. HIDE DEF q
<1>9. ASSUME NEW i \in 1..Len(q), NEW j \in 1..Len(q), i < j PROVE q[i] < q[j]
  <2>1. CASE j <= Len(s)
    <3>1. i \in 1..Len(s) /\ j \in 1..Len(s) /\ q[i] = s[i] /\ q[j] = s[j]
      BY <1>7, <1>9, <2>1
    <3>. QED
      BY <1>9, <3>1 DEF Increasing
  <2>2. CASE i <= Len(s) /\ ~(j <= Len(s))
    <3>1. i \in 1..Len(s) /\ j - Len(s) \in 1..Len(n) /\ q[i] = s[i] /\ q[j] = n[j - Len(s)]
      BY <1>7, <2>2
    <3>. QED
      BY <1>6, <3>1
  <2>3. CASE ~(i <= Len(s))
    <3>1. /\ i - Len(s) \in 1..Len(n) /\ j - Len(s) \in 1..Len(n) /\ i - Len(s) < j - Len(s)
          /\ q[i] = n[i - Len(s)] /\ q[j] = n[j - Len(s)]
      BY <1>7, <1>9, <2>3
    <3>. QED
      BY <1>5, <3>1
  <2>. QED
    BY <1>7, <1>9, <2>1, <2>2, <2>3
<1>. QED
  BY <1>8, <1>9 DEF Increasing
\* A number above all in sight joins an increasing sequence.
LEMMA AppendNewest ==
    ASSUME NEW S \in SUBSET Nat, NEW s \in Seq(S), NEW known \in SUBSET S, NEW m \in S,
           NEW b, b = Append(s, m),
           \A e \in known \cup InSeq(s) : e < m,
           Increasing(s), Ahead(s, known)
    PROVE  Increasing(b) /\ Ahead(b, known)
<1>1. InSeq(b) = InSeq(s) \cup {m}
  BY InSeqAppend
<1>4. Ahead(b, known)
  BY <1>1 DEF Ahead
<1>5. Increasing(b)
  <2>1. /\ Len(b) = Len(s) + 1 /\ Len(s) \in Nat
        /\ b[Len(s) + 1] = m /\ \A i \in 1..Len(s) : b[i] = s[i]
    OBVIOUS
  <2>2. \A i \in 1..Len(s) : s[i] < m
    BY DEF InSeq
  <2>. SUFFICES ASSUME NEW i \in 1..Len(b), NEW j \in 1..Len(b), i < j PROVE b[i] < b[j]
    BY DEF Increasing
  <2>3. i \in 1..Len(s) /\ (j \in 1..Len(s) \/ j = Len(s) + 1)
    BY <2>1
  <2>. QED
    BY <2>1, <2>2, <2>3 DEF Increasing
<1>. QED
  BY <1>4, <1>5
=============================================================================
