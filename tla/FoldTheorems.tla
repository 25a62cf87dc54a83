----------------------------- MODULE FoldTheorems -----------------------------
(***************************************************************************)
(* Induction over numbers, sequences and finite sets, and what follows for *)
(* the folds of the model.  The induction theorems of the library take a   *)
(* predicate, the lemmas here take the set of the values for which it      *)
(* holds; a fold is described by a function F instead of an operator.      *)
(***************************************************************************)
EXTENDS Integers, Sequences, FiniteSetsExt, SequencesExt, NaturalsInduction,
        FiniteSetTheorems, FunctionTheorems, SequenceTheorems, TLAPS

-----------------------------------------------------------------------------
(***************************************************************************)
(* Induction.                                                              *)
(***************************************************************************)
\* A set of numbers has a least one.
LEMMA Minimum ==
    ASSUME NEW T \in SUBSET Nat, T # {}
    PROVE  \E m \in T : \A k \in T : m <= k
<1> DEFINE R == OpToRel(<, Nat)
<1>1. IsWellFoundedOn(R, Nat)
  BY NatLessThanWellFounded
<1> HIDE DEF R
<1>2. PICK m \in T : \A k \in T : <<k, m>> \notin R
  BY <1>1, WFMin
<1>3. \A k \in T : ~(k < m)
  BY <1>2 DEF OpToRel, R
<1> QED
  BY <1>3

\* What holds of 0 and goes from each number to the next holds of all.
LEMMA Upwards ==
    ASSUME NEW T, 0 \in T, \A n \in Nat : n \in T => n + 1 \in T
    PROVE  Nat \subseteq T
<1> SUFFICES ASSUME Nat \ T # {} PROVE FALSE
  OBVIOUS
<1>1. PICK m \in Nat \ T : \A k \in Nat \ T : m <= k
  BY Minimum
<1>2. m # 0 /\ m - 1 \in Nat /\ m = (m - 1) + 1
  BY <1>1
<1>3. m - 1 \in T
  BY <1>1, <1>2
<1> QED
  BY <1>1, <1>2, <1>3

\* The same for sequences, which grow at their end.
LEMMA SequencesGrow ==
    ASSUME NEW X, NEW T, <<>> \in T, \A s \in Seq(X), x \in X : s \in T => Append(s, x) \in T
    PROVE  Seq(X) \subseteq T
<1> DEFINE N == {n \in Nat : \A s \in Seq(X) : Len(s) = n => s \in T}
<1>1. 0 \in N
  <2> SUFFICES ASSUME NEW s \in Seq(X), Len(s) = 0 PROVE s \in T
    OBVIOUS
  <2>1. s = <<>>
    BY EmptySeq
  <2> QED
    BY <2>1
<1>2. ASSUME NEW n \in Nat, n \in N PROVE n + 1 \in N
  <2> SUFFICES ASSUME NEW s \in Seq(X), Len(s) = n + 1 PROVE s \in T
    OBVIOUS
  <2>1. s # <<>>
    BY EmptySeq
  <2>2. PICK front \in Seq(X), x \in X : s = Append(front, x)
    BY <2>1, SequenceEmptyOrAppend
  <2>3. Len(front) \in Nat /\ Len(s) = Len(front) + 1
    BY <2>2, AppendProperties, LenProperties
  <2>4. front \in T
    BY <1>2, <2>3
  <2> QED
    BY <2>2, <2>4
<1> HIDE DEF N
<1>3. Nat \subseteq N
  BY <1>1, <1>2, Upwards
<1> QED
  BY <1>3, LenProperties DEF N

\* And for finite sets, which grow by one element at a time.
LEMMA FiniteSetsGrow ==
    ASSUME NEW S, IsFiniteSet(S), NEW T, {} \in T,
           \A A \in SUBSET S : \A x \in S \ A : A \in T => A \cup {x} \in T
    PROVE  \A A \in SUBSET S : A \in T
<1> DEFINE N == {n \in Nat : \A A \in SUBSET S : Cardinality(A) = n => A \in T}
<1>0. \A A \in SUBSET S : IsFiniteSet(A) /\ Cardinality(A) \in Nat
  BY FS_Subset, FS_CardinalityType
<1>1. 0 \in N
  <2>1. \A A \in SUBSET S : Cardinality(A) = 0 => A = {}
    BY <1>0, FS_EmptySet
  <2> QED
    BY <2>1
<1>2. ASSUME NEW n \in Nat, n \in N PROVE n + 1 \in N
  <2> SUFFICES ASSUME NEW A \in SUBSET S, Cardinality(A) = n + 1 PROVE A \in T
    OBVIOUS
  <2>1. A # {}
    BY FS_EmptySet
  <2>2. PICK x : x \in A
    BY <2>1
  <2>3. Cardinality(A \ {x}) = n
    <3>1. Cardinality(A \ {x}) = Cardinality(A) - 1
      BY <1>0, <2>2, FS_RemoveElement
    <3> QED
      BY <3>1
  <2>4. A \ {x} \in T
    BY <1>2, <2>3
  <2>5. A = (A \ {x}) \cup {x} /\ x \in S \ (A \ {x})
    BY <2>2
  <2> QED
    BY <2>4, <2>5
<1> HIDE DEF N
<1>3. Nat \subseteq N
  BY <1>1, <1>2, Upwards
<1> QED
  BY <1>0, <1>3 DEF N

\* Max() of numbers up to n.
LEMMA Largest ==
    ASSUME NEW n \in Nat, NEW s \in SUBSET (1 .. n), s # {}
    PROVE  Max(s) \in s /\ \A k \in s : k <= Max(s)
<1> DEFINE T == {m \in Nat : \A k \in s : k <= m}
<1>1. T # {}
  <2>1. n \in T
    OBVIOUS
  <2> QED
    BY <2>1
<1>2. PICK m \in T : \A k \in T : m <= k
  <2>1. T \in SUBSET Nat
    OBVIOUS
  <2> HIDE DEF T
  <2> QED
    BY <1>1, <2>1, Minimum
<1>3. m \in s
  <2> SUFFICES ASSUME m \notin s PROVE FALSE
    OBVIOUS
  <2>1. \A k \in s : k \in Nat \ {0} /\ k <= m /\ k # m
    BY <1>2
  <2>2. \A k \in s : k <= m - 1
    BY <1>2, <2>1
  <2>3. m - 1 \in Nat
    <3>1. PICK k : k \in s
      OBVIOUS
    <3>2. m \in Nat /\ k \in Nat \ {0} /\ k <= m
      BY <1>2, <2>1, <3>1
    <3> QED
      BY <3>2
  <2>4. m - 1 \in T
    BY <2>2, <2>3
  <2>5. m <= m - 1 /\ m \in Nat
    BY <1>2, <2>4
  <2> QED
    BY <2>5
<1>4. \E x \in s : \A y \in s : x >= y
  <2>1. \A y \in s : y <= m /\ y \in Nat
    BY <1>2
  <2>2. m \in Nat
    BY <1>2
  <2> QED
    BY <1>3, <2>1, <2>2
<1>5. Max(s) \in s /\ \A y \in s : Max(s) >= y
  BY <1>4 DEF Max
<1>6. \A y \in s : y \in Nat
  OBVIOUS
<1> DEFINE x == Max(s)
<1> HIDE DEF x
<1>7. x \in s /\ \A y \in s : x >= y
  BY <1>5 DEF x
<1>8. x \in s /\ \A k \in s : k <= x
  BY <1>6, <1>7
<1> QED
  BY <1>8 DEF x

LEMMA LargestIs ==
    ASSUME NEW n \in Nat, NEW s \in SUBSET (1 .. n), n \in s
    PROVE  Max(s) = n
<1> DEFINE x == Max(s)
<1>1. x \in s /\ n <= x
  BY Largest
<1> HIDE DEF x
<1>2. x \in Nat /\ x <= n
  BY <1>1
<1>3. x = n
  BY <1>1, <1>2
<1> QED
  BY <1>3 DEF x

-----------------------------------------------------------------------------
(***************************************************************************)
(* FoldLeft() of the library, whose definition chooses a function on the   *)
(* sets of positions of the sequence.                                      *)
(***************************************************************************)
\* g is the function that a fold from the left computes: its value on each set
\* of positions of seq.
Folds(g, F, base, seq) ==
  \A s \in SUBSET DOMAIN seq :
    g[s] = IF s = {} THEN base ELSE F[<<seq[Max(s)], g[s \ {Max(s)}]>>]

\* There is such a function.
LEMMA FoldExists ==
    ASSUME NEW X, NEW Y, NEW F \in [X \X Y -> Y], NEW base \in Y, NEW seq \in Seq(X)
    PROVE  \E g \in [SUBSET DOMAIN seq -> Y] : Folds(g, F, base, seq)
<1> DEFINE Good(g, k) == \A s \in SUBSET (1 .. k) :
             g[s] = IF s = {} THEN base ELSE F[<<seq[Max(s)], g[s \ {Max(s)}]>>]
           E(k) == \E g \in [SUBSET (1 .. k) -> Y] : Good(g, k)
           T == {k \in Nat : k <= Len(seq) => E(k)}
<1> HIDE DEF E
<1>0. Len(seq) \in Nat /\ DOMAIN seq = 1 .. Len(seq) /\ \A i \in 1 .. Len(seq) : seq[i] \in X
  BY LenProperties
<1>1. 0 \in T
  <2> DEFINE g == [s \in SUBSET (1 .. 0) |-> base]
  <2>1. \A s \in SUBSET (1 .. 0) : s = {}
    OBVIOUS
  <2>2. g \in [SUBSET (1 .. 0) -> Y] /\ Good(g, 0)
    BY <2>1
  <2> QED
    BY <2>2 DEF E
<1>2. ASSUME NEW k \in Nat, k \in T PROVE k + 1 \in T
  <2> SUFFICES ASSUME k + 1 <= Len(seq) PROVE E(k + 1)
    OBVIOUS
  <2>1. k <= Len(seq) /\ k + 1 \in 1 .. Len(seq)
    BY <1>0
  <2>2. PICK h \in [SUBSET (1 .. k) -> Y] : Good(h, k)
    BY <1>2, <2>1 DEF E
  <2> DEFINE g == [s \in SUBSET (1 .. k + 1) |->
                     IF k + 1 \in s THEN F[<<seq[k + 1], h[s \ {k + 1}]>>] ELSE h[s]]
  <2>3. ASSUME NEW s \in SUBSET (1 .. k + 1)
        PROVE  /\ g[s] \in Y
               /\ g[s] = IF s = {} THEN base ELSE F[<<seq[Max(s)], g[s \ {Max(s)}]>>]
    <3>1. CASE k + 1 \in s
      <4>1. Max(s) = k + 1 /\ s # {}
        BY <3>1, LargestIs
      <4>2. s \ {k + 1} \in SUBSET (1 .. k)
        OBVIOUS
      <4>3. s \ {k + 1} \in SUBSET (1 .. k + 1) /\ k + 1 \notin s \ {k + 1}
        OBVIOUS
      <4>4. g[s \ {k + 1}] = h[s \ {k + 1}] /\ h[s \ {k + 1}] \in Y
        BY <4>2, <4>3
      <4>5. g[s] = F[<<seq[k + 1], h[s \ {k + 1}]>>]
        BY <3>1
      <4>6. seq[k + 1] \in X
        BY <1>0, <2>1
      <4> QED
        BY <4>1, <4>4, <4>5, <4>6
    <3>2. CASE k + 1 \notin s
      <4>1. s \in SUBSET (1 .. k)
        BY <3>2
      <4>2. g[s] = h[s] /\ h[s] \in Y
        BY <3>2, <4>1
      <4>3. CASE s = {}
        BY <2>2, <4>1, <4>2, <4>3
      <4>4. CASE s # {}
        <5>1. Max(s) \in s
          BY <4>1, <4>4, Largest
        <5>2. s \ {Max(s)} \in SUBSET (1 .. k + 1) /\ k + 1 \notin s \ {Max(s)}
          BY <3>2
        <5>3. g[s \ {Max(s)}] = h[s \ {Max(s)}]
          BY <5>2
        <5>4. h[s] = F[<<seq[Max(s)], h[s \ {Max(s)}]>>]
          BY <2>2, <4>1, <4>4
        <5> QED
          BY <4>2, <4>4, <5>3, <5>4
      <4> QED
        BY <4>3, <4>4
    <3> QED
      BY <3>1, <3>2
  <2>4. g \in [SUBSET (1 .. k + 1) -> Y]
    BY <2>3
  <2> QED
    BY <2>3, <2>4 DEF E
<1>3. Nat \subseteq T
  <2> HIDE DEF T
  <2> QED
    BY <1>1, <1>2, Upwards
<1>4. E(Len(seq))
  BY <1>0, <1>3
<1> QED
  BY <1>0, <1>4 DEF E, Folds

\* g computes what F says wherever its values are in Y.
FoldsIn(g, Y, F, base, seq) ==
  /\ g[{}] = base
  /\ \A s \in SUBSET DOMAIN seq :
       s # {} /\ g[s \ {Max(s)}] \in Y => g[s] = F[<<seq[Max(s)], g[s \ {Max(s)}]>>]

\* The values of a fold on the prefixes of a sequence.
OnPrefixes(h, Y, F, base, seq, value) ==
  /\ h \in [0 .. Len(seq) -> Y]
  /\ h[0] = base /\ h[Len(seq)] = value
  /\ \A k \in 1 .. Len(seq) : h[k] = F[<<seq[k], h[k - 1]>>]

LEMMA FoldSteps ==
    ASSUME NEW X, NEW Y, NEW F \in [X \X Y -> Y], NEW base \in Y, NEW seq \in Seq(X), NEW iter,
           FoldsIn(iter, Y, F, base, seq)
    PROVE  \E h : OnPrefixes(h, Y, F, base, seq, iter[DOMAIN seq])
<1> USE DEF FoldsIn, OnPrefixes
<1> DEFINE h == [k \in 0 .. Len(seq) |-> iter[1 .. k]]
           T == {k \in Nat : k <= Len(seq) => h[k] \in Y}
<1>0. Len(seq) \in Nat /\ DOMAIN seq = 1 .. Len(seq) /\ \A i \in 1 .. Len(seq) : seq[i] \in X
  BY LenProperties
<1>1. h[0] = base
  <2>1. 1 .. 0 = {} /\ 0 \in 0 .. Len(seq)
    BY <1>0
  <2> QED
    BY <2>1
<1>2. ASSUME NEW k \in 1 .. Len(seq), h[k - 1] \in Y
      PROVE  h[k] = F[<<seq[k], h[k - 1]>>] /\ h[k] \in Y
  <2> DEFINE s == 1 .. k
  <2>1. /\ k \in Nat /\ k - 1 \in 0 .. Len(seq) /\ k \in 0 .. Len(seq)
        /\ s \in SUBSET (1 .. k) /\ k \in s /\ s \in SUBSET DOMAIN seq /\ s \ {k} = 1 .. k - 1
    BY <1>0
  <2>2. Max(s) = k
    BY <2>1, LargestIs
  <2>3. h[k - 1] = iter[s \ {Max(s)}] /\ h[k] = iter[s]
    BY <2>1, <2>2
  <2>4. h[k] = F[<<seq[k], h[k - 1]>>]
    BY <1>2, <2>1, <2>2, <2>3
  <2> HIDE DEF h
  <2> QED
    BY <1>0, <1>2, <2>4
<1> HIDE DEF h
<1>3. 0 \in T
  BY <1>1
<1>4. ASSUME NEW k \in Nat, k \in T PROVE k + 1 \in T
  <2> SUFFICES ASSUME k + 1 <= Len(seq) PROVE h[k + 1] \in Y
    OBVIOUS
  <2>1. h[k] \in Y /\ k + 1 \in 1 .. Len(seq) /\ (k + 1) - 1 = k
    BY <1>0, <1>4
  <2> QED
    BY <1>2, <2>1
<1>5. Nat \subseteq T
  <2> HIDE DEF T
  <2> QED
    BY <1>3, <1>4, Upwards
<1>6. \A k \in 0 .. Len(seq) : h[k] \in Y
  BY <1>0, <1>5
<1>7. h \in [0 .. Len(seq) -> Y] /\ h[Len(seq)] = iter[DOMAIN seq]
  BY <1>0, <1>6 DEF h
<1>8. \A k \in 1 .. Len(seq) : h[k] = F[<<seq[k], h[k - 1]>>]
  <2> TAKE k \in 1 .. Len(seq)
  <2>1. k - 1 \in 0 .. Len(seq)
    BY <1>0
  <2> QED
    BY <1>2, <1>6, <2>1
<1> QED
  BY <1>1, <1>7, <1>8

\* value is what a fold of seq computes.
FoldIs(Y, F, base, seq, value) == \E h : OnPrefixes(h, Y, F, base, seq, value)

LEMMA FoldOnce ==
    ASSUME NEW Y, NEW F, NEW base, NEW seq, Len(seq) \in Nat, NEW v, NEW w,
           FoldIs(Y, F, base, seq, v), FoldIs(Y, F, base, seq, w)
    PROVE  v = w /\ v \in Y
<1>1. PICK g : OnPrefixes(g, Y, F, base, seq, v)
  BY DEF FoldIs
<1>2. PICK h : OnPrefixes(h, Y, F, base, seq, w)
  BY DEF FoldIs
<1> DEFINE T == {k \in Nat : k <= Len(seq) => g[k] = h[k]}
<1>3. 0 \in T
  BY <1>1, <1>2 DEF OnPrefixes
<1>4. ASSUME NEW k \in Nat, k \in T PROVE k + 1 \in T
  <2> SUFFICES ASSUME k + 1 <= Len(seq) PROVE g[k + 1] = h[k + 1]
    OBVIOUS
  <2>1. k + 1 \in 1 .. Len(seq) /\ (k + 1) - 1 = k /\ g[k] = h[k]
    BY <1>4
  <2>2. g[k + 1] = F[<<seq[k + 1], g[k]>>] /\ h[k + 1] = F[<<seq[k + 1], h[k]>>]
    BY <1>1, <1>2, <2>1 DEF OnPrefixes
  <2> QED
    BY <2>1, <2>2
<1> HIDE DEF T
<1>5. Nat \subseteq T
  BY <1>3, <1>4, Upwards
<1> QED
  BY <1>1, <1>2, <1>5 DEF OnPrefixes, T

LEMMA FoldEmpty ==
    ASSUME NEW Y, NEW F, NEW base \in Y
    PROVE  FoldIs(Y, F, base, <<>>, base)
<1> DEFINE h == [k \in 0 .. 0 |-> base]
<1>1. OnPrefixes(h, Y, F, base, <<>>, base)
  BY DEF OnPrefixes
<1> QED
  BY <1>1 DEF FoldIs

LEMMA FoldAppend ==
    ASSUME NEW X, NEW Y, NEW F \in [X \X Y -> Y], NEW base, NEW seq \in Seq(X), NEW x \in X,
           NEW value, FoldIs(Y, F, base, seq, value)
    PROVE  FoldIs(Y, F, base, Append(seq, x), F[<<x, value>>])
<1>1. PICK g : OnPrefixes(g, Y, F, base, seq, value)
  BY DEF FoldIs
<1> DEFINE n == Len(seq)
           h == [k \in 0 .. n + 1 |-> IF k = n + 1 THEN F[<<x, value>>] ELSE g[k]]
<1>2. /\ n \in Nat /\ Append(seq, x) \in Seq(X) /\ Len(Append(seq, x)) = n + 1
      /\ \A i \in 1 .. n : Append(seq, x)[i] = seq[i]
      /\ Append(seq, x)[n + 1] = x
  BY AppendProperties, LenProperties
<1>3. \A k \in 0 .. n : g[k] \in Y /\ h[k] = g[k]
  BY <1>1, <1>2 DEF OnPrefixes
<1>4. g[n] = value /\ value \in Y /\ h[n + 1] = F[<<x, value>>] /\ F[<<x, value>>] \in Y
  BY <1>1, <1>2 DEF OnPrefixes
<1>5. h \in [0 .. n + 1 -> Y]
  <2>1. ASSUME NEW k \in 0 .. n + 1, k # n + 1 PROVE k \in 0 .. n
    BY <1>2, <2>1
  <2> QED
    BY <1>3, <1>4, <2>1
<1>6. h[0] = base
  BY <1>1, <1>2, <1>3 DEF OnPrefixes
<1>7. ASSUME NEW k \in 1 .. n + 1 PROVE h[k] = F[<<Append(seq, x)[k], h[k - 1]>>]
  <2>1. CASE k = n + 1
    <3>1. k - 1 = n /\ n \in 0 .. n
      BY <1>2, <2>1
    <3>2. h[k - 1] = value
      BY <1>3, <1>4, <3>1
    <3> QED
      BY <1>2, <1>4, <2>1, <3>2
  <2>2. CASE k # n + 1
    <3>1. k \in 1 .. n /\ k \in 0 .. n /\ k - 1 \in 0 .. n
      BY <1>2, <2>2
    <3>2. g[k] = F[<<seq[k], g[k - 1]>>]
      BY <1>1, <3>1 DEF OnPrefixes
    <3> QED
      BY <1>2, <1>3, <3>1, <3>2
  <2> QED
    BY <2>1, <2>2
<1> HIDE DEF h
<1>8. OnPrefixes(h, Y, F, base, Append(seq, x), F[<<x, value>>])
  BY <1>2, <1>4, <1>5, <1>6, <1>7 DEF OnPrefixes
<1> QED
  BY <1>8 DEF FoldIs

LEMMA FoldHas ==
    ASSUME NEW X, NEW Y, NEW F \in [X \X Y -> Y], NEW base \in Y, NEW seq \in Seq(X)
    PROVE  \E value \in Y : FoldIs(Y, F, base, seq, value)
<1> DEFINE T == {s \in Seq(X) : \E value \in Y : FoldIs(Y, F, base, s, value)}
<1>1. <<>> \in T
  BY FoldEmpty, EmptySeq
<1>2. ASSUME NEW s \in Seq(X), NEW x \in X, s \in T PROVE Append(s, x) \in T
  <2>1. PICK value \in Y : FoldIs(Y, F, base, s, value)
    BY <1>2
  <2>2. FoldIs(Y, F, base, Append(s, x), F[<<x, value>>])
    BY <2>1, FoldAppend
  <2>3. F[<<x, value>>] \in Y /\ Append(s, x) \in Seq(X)
    BY AppendProperties
  <2> QED
    BY <2>2, <2>3
<1> HIDE DEF T
<1>3. Seq(X) \subseteq T
  BY <1>1, <1>2, SequencesGrow
<1> QED
  BY <1>3 DEF T

-----------------------------------------------------------------------------
(***************************************************************************)
(* Sums: what FoldLeft computes with + and 0.                              *)
(***************************************************************************)
Plus == [p \in Nat \X Nat |-> p[2] + p[1]]

LEMMA PlusIs ==
    /\ Plus \in [Nat \X Nat -> Nat]
    /\ \A a, b \in Nat : Plus[<<a, b>>] = b + a
BY DEF Plus

LEMMA SumFolds ==
    ASSUME NEW s \in Seq(Nat)
    PROVE  LET iter == CHOOSE g : g = [t \in SUBSET DOMAIN s |->
                                        IF t = {} THEN 0 ELSE g[t \ {Max(t)}] + s[Max(t)]]
           IN  FoldIs(Nat, Plus, 0, s, iter[DOMAIN s])
<1> DEFINE Eq(g) == g = [t \in SUBSET DOMAIN s |->
                           IF t = {} THEN 0 ELSE g[t \ {Max(t)}] + s[Max(t)]]
           iter == CHOOSE g : Eq(g)
<1>0. /\ Len(s) \in Nat /\ DOMAIN s = 1 .. Len(s) /\ \A i \in 1 .. Len(s) : s[i] \in Nat
      /\ Plus \in [Nat \X Nat -> Nat] /\ \A a, b \in Nat : Plus[<<a, b>>] = b + a
  BY LenProperties, PlusIs
<1>2. PICK g \in [SUBSET DOMAIN s -> Nat] : Folds(g, Plus, 0, s)
  BY <1>0, FoldExists
<1>3. Eq(g)
  <2>1. ASSUME NEW t \in SUBSET DOMAIN s, t # {} PROVE g[t] = g[t \ {Max(t)}] + s[Max(t)]
    <3>1. Max(t) \in t
      BY <1>0, <2>1, Largest
    <3>2. g[t] = Plus[<<s[Max(t)], g[t \ {Max(t)}]>>]
      BY <1>2, <2>1 DEF Folds
    <3> QED
      BY <1>0, <3>1, <3>2
  <2>2. g[{}] = 0
    BY <1>2 DEF Folds
  <2> QED
    BY <2>1, <2>2
<1>4. Eq(iter)
  <2> HIDE DEF Eq
  <2> QED
    BY <1>3
<1> HIDE DEF iter
<1>5. FoldsIn(iter, Nat, Plus, 0, s)
  <2>1. ASSUME NEW t \in SUBSET DOMAIN s, t # {}, iter[t \ {Max(t)}] \in Nat
        PROVE  iter[t] = Plus[<<s[Max(t)], iter[t \ {Max(t)}]>>]
    <3>1. Max(t) \in t
      BY <1>0, <2>1, Largest
    <3>2. iter[t] = iter[t \ {Max(t)}] + s[Max(t)]
      BY <1>4, <2>1
    <3> QED
      BY <1>0, <2>1, <3>1, <3>2
  <2>2. iter[{}] = 0
    BY <1>4
  <2> QED
    BY <2>1, <2>2 DEF FoldsIn
<1>6. FoldIs(Nat, Plus, 0, s, iter[DOMAIN s])
  <2>1. PICK N, z : N = Nat /\ z = 0
    OBVIOUS
  <2>2. Plus \in [N \X N -> N] /\ s \in Seq(N) /\ FoldsIn(iter, N, Plus, z, s) /\ z \in N
    BY <1>0, <1>5, <2>1
  <2>3. FoldIs(N, Plus, z, s, iter[DOMAIN s])
    BY ONLY <2>2, FoldSteps DEF FoldIs
  <2> QED
    BY <2>1, <2>3
<1> QED
  BY <1>6 DEF iter

-----------------------------------------------------------------------------
(***************************************************************************)
(* FlattenSeq() joins sequences from the left.                             *)
(***************************************************************************)
Joined(X) == [p \in Seq(X) \X Seq(X) |-> p[2] \o p[1]]

LEMMA FlattenIsFold ==
    ASSUME NEW X, NEW ss \in Seq(Seq(X))
    PROVE  FoldIs(Seq(X), Joined(X), <<>>, ss, FlattenSeq(ss))
<1> DEFINE S == Seq(X)
           J == Joined(X)
           n == Len(ss)
<1>0. /\ n \in Nat /\ DOMAIN ss = 1 .. n /\ (\A i \in 1 .. n : ss[i] \in S)
      /\ <<>> \in S /\ (\A s \in S : <<>> \o s = s)
  BY LenProperties, EmptySeq, ConcatEmptySeq
<1>1. J \in [S \X S -> S] /\ \A s, t \in S : J[<<s, t>>] = t \o s
  BY ConcatProperties DEF Joined
<1>2. CASE n = 0
  <2>1. ss = <<>> /\ FlattenSeq(ss) = <<>>
    BY <1>2, EmptySeq DEF FlattenSeq
  <2> QED
    BY <1>0, <2>1, FoldEmpty
<1>3. CASE n # 0
  <2>1. PICK value \in S : FoldIs(S, J, <<>>, ss, value)
    BY <1>0, <1>1, FoldHas
  <2>2. PICK h : OnPrefixes(h, S, J, <<>>, ss, value)
    BY <2>1 DEF FoldIs
  <2> DEFINE Eq(f) == f = [i \in 1 .. n |-> IF i = 1 THEN ss[i] ELSE f[i - 1] \o ss[i]]
             flatten == CHOOSE f : Eq(f)
             g == [i \in 1 .. n |-> h[i]]
  <2>3. /\ h \in [0 .. n -> S] /\ h[0] = <<>> /\ h[n] = value
        /\ \A k \in 1 .. n : h[k] = J[<<ss[k], h[k - 1]>>]
    BY <2>2 DEF OnPrefixes
  <2>4. \A k \in 1 .. n : h[k - 1] \in S /\ h[k] = h[k - 1] \o ss[k]
    <3> TAKE k \in 1 .. n
    <3>1. k - 1 \in 0 .. n
      BY <1>0
    <3> QED
      BY <1>0, <1>1, <2>3, <3>1
  <2>5. h[1] = ss[1]
    <3>1. 1 \in 1 .. n /\ 1 - 1 = 0
      BY <1>0, <1>3
    <3>2. h[1] = h[0] \o ss[1] /\ h[0] = <<>> /\ ss[1] \in S
      BY <1>0, <2>3, <2>4, <3>1
    <3> QED
      BY <1>0, <3>2
  <2>6. Eq(g)
    <3>1. ASSUME NEW i \in 1 .. n, i # 1 PROVE g[i] = g[i - 1] \o ss[i]
      <4>1. i - 1 \in 1 .. n
        BY <1>0, <3>1
      <4> QED
        BY <2>4, <4>1
    <3>2. g[1] = ss[1]
      BY <1>0, <1>3, <2>5
    <3> QED
      BY <3>1, <3>2
  <2>7. FlattenSeq(ss) = flatten[n]
    BY <1>3 DEF FlattenSeq
  <2>8. Eq(flatten)
    <3> HIDE DEF g, Eq
    <3> QED
      BY <2>6
  <2> HIDE DEF g, flatten
  <2> DEFINE T == {k \in Nat : k < n => flatten[k + 1] = h[k + 1]}
  <2>9. 0 \in T
    <3>1. 1 \in 1 .. n
      BY <1>0, <1>3
    <3>2. flatten[1] = ss[1]
      BY <2>8, <3>1
    <3> QED
      BY <2>5, <3>2
  <2>10. ASSUME NEW k \in Nat, k \in T PROVE k + 1 \in T
    <3> SUFFICES ASSUME k + 1 < n PROVE flatten[(k + 1) + 1] = h[(k + 1) + 1]
      OBVIOUS
    <3> DEFINE i == (k + 1) + 1
    <3>1. i \in 1 .. n /\ i # 1 /\ i - 1 = k + 1 /\ flatten[k + 1] = h[k + 1]
      BY <1>0, <2>10
    <3> HIDE DEF i, T
    <3>2. flatten[i] = flatten[i - 1] \o ss[i]
      BY <2>8, <3>1
    <3>3. flatten[i] = h[i]
      BY <2>4, <3>1, <3>2
    <3> QED
      BY <3>3 DEF i
  <2> HIDE DEF T
  <2>11. Nat \subseteq T
    BY <2>9, <2>10, Upwards
  <2>12. flatten[n] = h[n]
    <3>1. n - 1 \in T
      BY <1>0, <1>3, <2>11
    <3> QED
      BY <1>0, <1>3, <3>1 DEF T
  <2> QED
    BY <2>1, <2>3, <2>7, <2>12
<1> QED
  BY <1>2, <1>3

LEMMA FlattenAppend ==
    ASSUME NEW X, NEW ss \in Seq(Seq(X)), NEW s \in Seq(X)
    PROVE  /\ FlattenSeq(ss) \in Seq(X)
           /\ FlattenSeq(Append(ss, s)) = FlattenSeq(ss) \o s
<1> DEFINE S == Seq(X)
           J == Joined(X)
<1>1. J \in [S \X S -> S] /\ \A a, b \in S : J[<<a, b>>] = b \o a
  BY ConcatProperties DEF Joined
<1>2. Len(ss) \in Nat /\ Append(ss, s) \in Seq(S) /\ Len(Append(ss, s)) \in Nat
  BY LenProperties, AppendProperties
<1>3. FoldIs(S, J, <<>>, ss, FlattenSeq(ss))
  BY FlattenIsFold
<1>4. FoldIs(S, J, <<>>, Append(ss, s), FlattenSeq(Append(ss, s)))
  BY <1>2, FlattenIsFold
<1>5. FlattenSeq(ss) \in S
  BY <1>2, <1>3, FoldOnce
<1> HIDE DEF J
<1>6. FoldIs(S, J, <<>>, Append(ss, s), J[<<s, FlattenSeq(ss)>>])
  BY <1>1, <1>3, FoldAppend
<1>7. FlattenSeq(Append(ss, s)) = J[<<s, FlattenSeq(ss)>>]
  BY <1>2, <1>4, <1>6, FoldOnce
<1> QED
  BY <1>1, <1>5, <1>7

LEMMA FlattenEmpty == FlattenSeq(<<>>) = <<>>
BY EmptySeq DEF FlattenSeq

-----------------------------------------------------------------------------
(***************************************************************************)
(* How often something occurs in a sequence.                               *)
(***************************************************************************)
LEMMA JoinedCardinality ==
    ASSUME NEW A, NEW B, IsFiniteSet(A), IsFiniteSet(B), A \cap B = {}
    PROVE  /\ IsFiniteSet(A \cup B)
           /\ Cardinality(A \cup B) = Cardinality(A) + Cardinality(B)
<1>1. Cardinality(A) \in Nat /\ Cardinality(B) \in Nat
  BY FS_CardinalityType
<1>2. /\ IsFiniteSet(A \cup B)
      /\ Cardinality(A \cup B) = Cardinality(A) + Cardinality(B) - Cardinality(A \cap B)
  BY FS_Union
<1>3. Cardinality(A \cap B) = 0
  BY FS_EmptySet
<1> QED
  BY <1>1, <1>2, <1>3

\* Sets that correspond to one another are equally large.
LEMMA MatchedCardinality ==
    ASSUME NEW A, IsFiniteSet(A), NEW B, NEW h,
           \A a \in A : h[a] \in B,
           \A a, b \in A : h[a] = h[b] => a = b,
           \A b \in B : \E a \in A : h[a] = b
    PROVE  IsFiniteSet(B) /\ Cardinality(B) = Cardinality(A)
<1> DEFINE g == [a \in A |-> h[a]]
<1>1. g \in [A -> B] /\ \A a \in A : g[a] = h[a]
  OBVIOUS
<1> HIDE DEF g
<1>2. g \in Bijection(A, B)
  BY <1>1, Fun_IsBij
<1>3. ExistsBijection(A, B)
  BY <1>2, Fun_ExistsBij
<1> QED
  BY <1>3, FS_Bijection

Occurrences(s, x) == Cardinality({i \in DOMAIN s : s[i] = x})

LEMMA OccurrencesType ==
    ASSUME NEW X, NEW s \in Seq(X), NEW x
    PROVE  Occurrences(s, x) \in Nat /\ IsFiniteSet({i \in DOMAIN s : s[i] = x})
<1>1. IsFiniteSet(1 .. Len(s)) /\ DOMAIN s = 1 .. Len(s)
  BY LenProperties, FS_Interval
<1>2. IsFiniteSet({i \in DOMAIN s : s[i] = x})
  BY <1>1, FS_Subset
<1> QED
  BY <1>2, FS_CardinalityType DEF Occurrences

\* What differs from place to place occurs once or not at all.
LEMMA OccursOnce ==
    ASSUME NEW X, NEW s \in Seq(X), NEW x, \A i, j \in DOMAIN s : s[i] = x /\ s[j] = x => i = j
    PROVE  Occurrences(s, x) = IF \E i \in DOMAIN s : s[i] = x THEN 1 ELSE 0
<1> DEFINE places == {i \in DOMAIN s : s[i] = x}
<1>1. CASE \E i \in DOMAIN s : s[i] = x
  <2>1. PICK i \in DOMAIN s : s[i] = x
    BY <1>1
  <2>2. places = {i}
    BY <2>1
  <2>3. Cardinality({i}) = 1
    BY FS_Singleton
  <2> QED
    BY <1>1, <2>2, <2>3 DEF Occurrences
<1>2. CASE ~(\E i \in DOMAIN s : s[i] = x)
  <2>1. places = {}
    BY <1>2
  <2> QED
    BY <1>2, <2>1, FS_EmptySet DEF Occurrences
<1> QED
  BY <1>1, <1>2

LEMMA OccursInBoth ==
    ASSUME NEW X, NEW s \in Seq(X), NEW t \in Seq(X), NEW x
    PROVE  Occurrences(s \o t, x) = Occurrences(s, x) + Occurrences(t, x)
<1> DEFINE u == s \o t
           m == Len(s)
           n == Len(t)
           A == {i \in DOMAIN s : s[i] = x}
           B == {i \in DOMAIN t : t[i] = x}
           C == {i \in DOMAIN u : u[i] = x}
           h == [i \in Nat |-> m + i]
           D == {h[i] : i \in B}
<1>1. /\ m \in Nat /\ n \in Nat /\ DOMAIN s = 1 .. m /\ DOMAIN t = 1 .. n
      /\ DOMAIN u = 1 .. m + n
      /\ \A i \in 1 .. m + n : u[i] = IF i <= m THEN s[i] ELSE t[i - m]
  BY ConcatProperties, LenProperties
<1> HIDE DEF u
<1>2. \A i \in 1 .. m : i \in 1 .. m + n /\ u[i] = s[i]
  BY <1>1
<1>3. \A i \in 1 .. n : m + i \in 1 .. m + n /\ u[m + i] = t[i] /\ h[i] = m + i
  <2> TAKE i \in 1 .. n
  <2>1. m + i \in 1 .. m + n /\ ~(m + i <= m) /\ (m + i) - m = i /\ i \in Nat
    BY <1>1
  <2> QED
    BY <1>1, <2>1
<1>4. C = A \cup D
  <2>1. ASSUME NEW i \in C PROVE i \in A \cup D
    <3>1. CASE i <= m
      BY <1>1, <3>1
    <3>2. CASE ~(i <= m)
      <4>1. i - m \in 1 .. n /\ u[i] = t[i - m] /\ m + (i - m) = i
        BY <1>1, <3>2
      <4>2. i - m \in B /\ h[i - m] = i
        BY <1>1, <1>3, <4>1
      <4> QED
        BY <4>2
    <3> QED
      BY <3>1, <3>2
  <2>2. ASSUME NEW i \in B PROVE h[i] \in C
    <3>1. i \in 1 .. n /\ t[i] = x
      BY <1>1
    <3>2. h[i] \in 1 .. m + n /\ u[h[i]] = x
      BY <1>3, <3>1
    <3> QED
      BY <1>1, <3>2
  <2>3. ASSUME NEW i \in A PROVE i \in C
    BY <1>1, <1>2
  <2> QED
    BY <2>1, <2>2, <2>3
<1>5. A \cap D = {}
  <2> SUFFICES ASSUME NEW i \in B, h[i] \in A PROVE FALSE
    OBVIOUS
  <2>1. i \in 1 .. n /\ m + i \in 1 .. m
    BY <1>1, <1>3
  <2> QED
    BY <1>1, <2>1
<1>6. IsFiniteSet(A) /\ IsFiniteSet(B)
  BY OccurrencesType
<1>7. \A i, j \in B : h[i] = h[j] => i = j
  <2> SUFFICES ASSUME NEW i \in B, NEW j \in B, h[i] = h[j] PROVE i = j
    OBVIOUS
  <2>1. i \in Nat /\ j \in Nat /\ m + i = m + j
    BY <1>1, <1>3
  <2> QED
    BY <1>1, <2>1
<1>8. /\ \A i \in B : h[i] \in D
      /\ \A d \in D : \E i \in B : h[i] = d
  OBVIOUS
<1> HIDE DEF A, B, C, D, h
<1>9. IsFiniteSet(D) /\ Cardinality(D) = Cardinality(B)
  BY <1>6, <1>7, <1>8, MatchedCardinality
<1>10. Cardinality(A \cup D) = Cardinality(A) + Cardinality(D)
  BY <1>5, <1>6, <1>9, JoinedCardinality
<1> QED
  BY <1>4, <1>9, <1>10 DEF Occurrences, A, B, C, u

LEMMA OccursAppended ==
    ASSUME NEW X, NEW s \in Seq(X), NEW x \in X, NEW y
    PROVE  Occurrences(Append(s, x), y) = Occurrences(s, y) + (IF x = y THEN 1 ELSE 0)
<1> DEFINE one == <<x>>
<1>1. one \in Seq(X) /\ DOMAIN one = {1} /\ one[1] = x
  OBVIOUS
<1>2. Append(s, x) = s \o one
  BY AppendIsConcat
<1> HIDE DEF one
<1>3. Occurrences(s \o one, y) = Occurrences(s, y) + Occurrences(one, y)
  BY <1>1, OccursInBoth
<1>4. Occurrences(one, y) = IF x = y THEN 1 ELSE 0
  <2>1. \A i, j \in DOMAIN one : one[i] = y /\ one[j] = y => i = j
    BY <1>1
  <2>2. Occurrences(one, y) = IF \E i \in DOMAIN one : one[i] = y THEN 1 ELSE 0
    BY <1>1, <2>1, OccursOnce
  <2> QED
    BY <1>1, <2>2
<1> QED
  BY <1>2, <1>3, <1>4

\* What occurs in one of several sequences, once, occurs once in all of them
\* joined, and what is in none does not.
OnceIn(ss, x) ==
  /\ (\A i \in DOMAIN ss : Occurrences(ss[i], x) = 0) => Occurrences(FlattenSeq(ss), x) = 0
  /\ \A j \in DOMAIN ss :
       /\ Occurrences(ss[j], x) = 1
       /\ \A i \in DOMAIN ss : i # j => Occurrences(ss[i], x) = 0
       => Occurrences(FlattenSeq(ss), x) = 1

LEMMA OccursWhenFlat ==
    ASSUME NEW X, NEW x
    PROVE  \A ss \in Seq(Seq(X)) : OnceIn(ss, x)
<1> DEFINE T == {ss \in Seq(Seq(X)) : OnceIn(ss, x)}
<1>1. <<>> \in T
  <2>1. Occurrences(<<>>, x) = 0
    <3>1. {i \in DOMAIN <<>> : <<>>[i] = x} = {}
      OBVIOUS
    <3> QED
      BY <3>1, FS_EmptySet DEF Occurrences
  <2>2. <<>> \in Seq(Seq(X)) /\ DOMAIN <<>> = {}
    BY EmptySeq
  <2> QED
    BY <2>1, <2>2, FlattenEmpty DEF OnceIn
<1>2. ASSUME NEW ss \in Seq(Seq(X)), NEW s \in Seq(X), ss \in T
      PROVE  Append(ss, s) \in T
  <2> DEFINE tt == Append(ss, s)
             n == Len(ss)
  <2>1. /\ n \in Nat /\ tt \in Seq(Seq(X)) /\ DOMAIN ss = 1 .. n /\ DOMAIN tt = 1 .. n + 1
        /\ \A i \in 1 .. n : tt[i] = ss[i] /\ ss[i] \in Seq(X)
        /\ tt[n + 1] = s
    BY AppendProperties, LenProperties
  <2>2. FlattenSeq(ss) \in Seq(X) /\ FlattenSeq(tt) = FlattenSeq(ss) \o s
    BY FlattenAppend
  <2> HIDE DEF tt
  <2>3. Occurrences(FlattenSeq(tt), x) = Occurrences(FlattenSeq(ss), x) + Occurrences(s, x)
    BY <2>2, OccursInBoth
  <2>4. \A i \in 1 .. n : i \in DOMAIN tt /\ i # n + 1
    BY <2>1
  <2>5. ASSUME \A i \in DOMAIN tt : Occurrences(tt[i], x) = 0
        PROVE  Occurrences(FlattenSeq(tt), x) = 0
    <3>1. \A i \in DOMAIN ss : Occurrences(ss[i], x) = 0
      BY <2>1, <2>4, <2>5
    <3>2. Occurrences(FlattenSeq(ss), x) = 0
      BY <1>2, <3>1 DEF OnceIn
    <3>3. Occurrences(s, x) = 0
      BY <2>1, <2>5
    <3> QED
      BY <2>3, <3>2, <3>3
  <2>6. ASSUME NEW j \in DOMAIN tt, Occurrences(tt[j], x) = 1,
               \A i \in DOMAIN tt : i # j => Occurrences(tt[i], x) = 0
        PROVE  Occurrences(FlattenSeq(tt), x) = 1
    <3>1. CASE j = n + 1
      <4>1. \A i \in DOMAIN ss : Occurrences(ss[i], x) = 0
        BY <2>1, <2>4, <2>6, <3>1
      <4>2. Occurrences(FlattenSeq(ss), x) = 0
        BY <1>2, <4>1 DEF OnceIn
      <4>3. Occurrences(s, x) = 1
        BY <2>1, <2>6, <3>1
      <4> QED
        BY <2>3, <4>2, <4>3
    <3>2. CASE j # n + 1
      <4>1. j \in DOMAIN ss /\ tt[j] = ss[j]
        BY <2>1, <3>2
      <4>2. \A i \in DOMAIN ss : i # j => Occurrences(ss[i], x) = 0
        BY <2>1, <2>4, <2>6
      <4>3. Occurrences(FlattenSeq(ss), x) = 1
        BY <1>2, <2>6, <4>1, <4>2 DEF OnceIn
      <4>4. n + 1 \in DOMAIN tt
        BY <2>1
      <4>5. Occurrences(s, x) = 0
        BY <2>1, <2>6, <3>2, <4>4
      <4> QED
        BY <2>3, <4>3, <4>5
    <3> QED
      BY <3>1, <3>2
  <2>7. OnceIn(tt, x)
    BY <2>5, <2>6 DEF OnceIn
  <2> QED
    BY <2>1, <2>7 DEF tt
<1> DEFINE S == Seq(X)
<1> HIDE DEF T
<1>3. <<>> \in T /\ \A ss \in Seq(S), s \in S : ss \in T => Append(ss, s) \in T
  BY <1>1, <1>2
<1> HIDE DEF S
<1>4. Seq(S) \subseteq T
  BY ONLY <1>3, SequencesGrow
<1> QED
  BY <1>4 DEF S, T
=============================================================================
