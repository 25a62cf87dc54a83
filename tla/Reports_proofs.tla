--------------------------- MODULE Reports_proofs ---------------------------
(*****************************************************************************)
(* Proofs about the reports of the load generator and of the aggregator.     *)
(* The report of an attack counts every request of every worker that did not *)
(* fail exactly once, whatever the interleaving of the workers; the combined *)
(* report is that of one generator that made the requests of all pods, in    *)
(* whatever order their logs are read.                                       *)
(*****************************************************************************)
EXTENDS LoadAttack, Aggregator, FoldTheorems, FunctionTheorems, TLAPS

-----------------------------------------------------------------------------
(***************************************************************************)
(* Counting.                                                               *)
(***************************************************************************)
LEMMA FirstNumbers ==
    ASSUME NEW n \in Nat
    PROVE  IsFiniteSet(1 .. n) /\ Cardinality(1 .. n) = n
<1>1. 1 \in Int /\ n \in Int /\ (1 > n => n = 0) /\ n - 1 + 1 = n
  OBVIOUS
<1>2. IsFiniteSet(1 .. n) /\ Cardinality(1 .. n) = IF 1 > n THEN 0 ELSE n - 1 + 1
  BY <1>1, FS_Interval
<1> QED
  BY <1>1, <1>2

-----------------------------------------------------------------------------
(***************************************************************************)
(* Largest and smallest.                                                   *)
(***************************************************************************)
LargestOf(S)  == IF S = {} THEN 0 ELSE Max(S)
SmallestOf(S) == IF S = {} THEN 0 ELSE Min(S)

LEMMA MaxIs ==
    ASSUME NEW S \in SUBSET Nat, NEW v \in S, \A k \in S : k <= v
    PROVE  Max(S) = v
<1>1. \A y \in S : v >= y
  OBVIOUS
<1>2. Max(S) \in S /\ \A y \in S : Max(S) >= y
  BY <1>1 DEF Max
<1>3. Max(S) >= v /\ v >= Max(S) /\ v \in Nat /\ Max(S) \in Nat
  BY <1>1, <1>2
<1> QED
  BY <1>3

LEMMA MinIs ==
    ASSUME NEW S \in SUBSET Nat, NEW v \in S, \A k \in S : v <= k
    PROVE  Min(S) = v
<1>1. \A y \in S : v =< y
  OBVIOUS
<1>2. Min(S) \in S /\ \A y \in S : Min(S) =< y
  BY <1>1 DEF Min
<1>3. Min(S) <= v /\ v <= Min(S) /\ v \in Nat /\ Min(S) \in Nat
  BY <1>1, <1>2
<1> QED
  BY <1>3

LEMMA MaxExists ==
    ASSUME NEW S \in SUBSET Nat, IsFiniteSet(S), S # {}
    PROVE  Max(S) \in S /\ \A k \in S : k <= Max(S)
<1> DEFINE T == {A \in SUBSET S : A # {} => \E m \in A : \A k \in A : k <= m}
<1>1. {} \in T
  OBVIOUS
<1>2. ASSUME NEW A \in SUBSET S, NEW x \in S \ A, A \in T PROVE A \cup {x} \in T
  <2>1. CASE A = {}
    <3>1. \A k \in A \cup {x} : k <= x
      BY <2>1
    <3> QED
      BY <3>1
  <2>2. CASE A # {}
    <3>1. PICK m \in A : \A k \in A : k <= m
      BY <1>2, <2>2
    <3>2. m \in Nat /\ x \in Nat /\ \A k \in A : k \in Nat
      BY <3>1
    <3>3. CASE x <= m
      <4>1. m \in A \cup {x} /\ \A k \in A \cup {x} : k <= m
        BY <3>1, <3>3
      <4> QED
        BY <4>1
    <3>4. CASE ~(x <= m)
      <4>1. \A k \in A \cup {x} : k <= x
        BY <3>1, <3>2, <3>4
      <4> QED
        BY <4>1
    <3> QED
      BY <3>3, <3>4
  <2> QED
    BY <2>1, <2>2
<1> HIDE DEF T
<1>3. S \in T
  BY <1>1, <1>2, FiniteSetsGrow
<1>4. PICK m \in S : \A k \in S : k <= m
  BY <1>3 DEF T
<1> QED
  BY <1>4, MaxIs

LEMMA MinExists ==
    ASSUME NEW S \in SUBSET Nat, S # {}
    PROVE  Min(S) \in S /\ \A k \in S : Min(S) <= k
<1>1. PICK m \in S : \A k \in S : m <= k
  BY Minimum
<1> QED
  BY <1>1, MinIs

LEMMA LargestJoined ==
    ASSUME NEW A \in SUBSET Nat, NEW B \in SUBSET Nat, IsFiniteSet(A), IsFiniteSet(B)
    PROVE  LargestOf(A \cup B) = Larger(LargestOf(A), LargestOf(B))
<1>1. CASE A = {} /\ B = {}
  BY <1>1 DEF LargestOf, Larger
<1>2. CASE A # {} /\ B = {}
  <2>1. A \cup B = A /\ Max(A) \in Nat
    BY <1>2, MaxExists
  <2> QED
    BY <1>2, <2>1 DEF LargestOf, Larger
<1>3. CASE A = {} /\ B # {}
  <2>1. A \cup B = B /\ Max(B) \in Nat
    BY <1>3, MaxExists
  <2> QED
    BY <1>3, <2>1 DEF LargestOf, Larger
<1>4. CASE A # {} /\ B # {}
  <2> DEFINE a == Max(A)
             b == Max(B)
             v == Larger(a, b)
  <2>1. a \in A /\ (\A k \in A : k <= a) /\ b \in B /\ (\A k \in B : k <= b)
    BY <1>4, MaxExists
  <2>2. a \in Nat /\ b \in Nat
    BY <2>1
  <2> HIDE DEF a, b
  <2>3. v \in A \cup B /\ a <= v /\ b <= v /\ v \in Nat
    BY <2>1, <2>2 DEF Larger
  <2> HIDE DEF v
  <2>4. \A k \in A \cup B : k <= v
    <3> TAKE k \in A \cup B
    <3>1. k \in Nat /\ (k <= a \/ k <= b)
      BY <2>1
    <3> QED
      BY <2>2, <2>3, <3>1
  <2>5. Max(A \cup B) = v
    <3>1. A \cup B \in SUBSET Nat
      OBVIOUS
    <3> QED
      BY <2>3, <2>4, <3>1, MaxIs
  <2> QED
    BY <1>4, <2>5 DEF LargestOf, a, b, v
<1> QED
  BY <1>1, <1>2, <1>3, <1>4

LEMMA SmallestJoined ==
    ASSUME NEW A \in SUBSET (Nat \ {0}), NEW B \in SUBSET (Nat \ {0})
    PROVE  SmallestOf(A \cup B) = Earlier(SmallestOf(A), SmallestOf(B))
<1>0. A \in SUBSET Nat /\ B \in SUBSET Nat
  OBVIOUS
<1>1. CASE A = {} /\ B = {}
  BY <1>1 DEF SmallestOf, Earlier
<1>2. CASE A # {} /\ B = {}
  <2>1. A \cup B = A /\ Min(A) \in Nat
    BY <1>0, <1>2, MinExists
  <2> QED
    BY <1>2, <2>1 DEF SmallestOf, Earlier
<1>3. CASE A = {} /\ B # {}
  <2>1. A \cup B = B /\ Min(B) \in Nat
    BY <1>0, <1>3, MinExists
  <2> QED
    BY <1>3, <2>1 DEF SmallestOf, Earlier
<1>4. CASE A # {} /\ B # {}
  <2> DEFINE a == Min(A)
             b == Min(B)
             v == Earlier(a, b)
  <2>1. a \in A /\ (\A k \in A : a <= k) /\ b \in B /\ (\A k \in B : b <= k)
    BY <1>0, <1>4, MinExists
  <2>2. a \in Nat \ {0} /\ b \in Nat \ {0}
    BY <2>1
  <2> HIDE DEF a, b
  <2>3. v \in A \cup B /\ v <= a /\ v <= b /\ v \in Nat
    BY <2>1, <2>2 DEF Earlier
  <2> HIDE DEF v
  <2>4. \A k \in A \cup B : v <= k
    <3> TAKE k \in A \cup B
    <3>1. k \in Nat /\ (a <= k \/ b <= k)
      BY <2>1
    <3> QED
      BY <2>2, <2>3, <3>1
  <2>5. Min(A \cup B) = v
    <3>1. A \cup B \in SUBSET Nat
      OBVIOUS
    <3> QED
      BY <2>3, <2>4, <3>1, MinIs
  <2> QED
    BY <1>4, <2>5 DEF SmallestOf, a, b, v
<1> QED
  BY <1>1, <1>2, <1>3, <1>4

LEMMA OnlyOne ==
    ASSUME NEW v \in Nat
    PROVE  LargestOf({v}) = v /\ SmallestOf({v}) = v
<1>1. {v} \in SUBSET Nat /\ v \in {v} /\ (\A k \in {v} : k <= v /\ v <= k)
  OBVIOUS
<1>2. Max({v}) = v /\ Min({v}) = v
  BY <1>1, MaxIs, MinIs
<1> QED
  BY <1>2 DEF LargestOf, SmallestOf

-----------------------------------------------------------------------------
(***************************************************************************)
(* The report on the results f[i] of the places i in a set D, whatever     *)
(* their order: numbers of results, largest and smallest times.  The total *)
(* latency is the number of all units of time of all results.              *)
(***************************************************************************)
Ticks(D, f) == {u \in D \X Nat : u[2] \in 1 .. f[u[1]].latency}

ReportOn(D, f) ==
  [requests |-> Cardinality(D),
   codes    |-> [c \in Codes |-> Cardinality({i \in D : f[i].code = c})],
   total    |-> Cardinality(Ticks(D, f)),
   max      |-> LargestOf({f[i].latency : i \in D}),
   min      |-> SmallestOf({f[i].latency : i \in D}),
   earliest |-> SmallestOf({f[i].at : i \in D}),
   latest   |-> LargestOf({f[i].at : i \in D}),
   end      |-> LargestOf({f[i].at + f[i].latency : i \in D}),
   success  |-> Cardinality({i \in D : Succeeded(f[i].code)}),
   errors   |-> {f[i].error : i \in D} \ {""},
   counts   |-> [b \in DOMAIN Buckets |-> Cardinality({i \in D : Bucket(f[i].latency) = b})]]

\* A result as AddResult() expects it: it took time, after the zero time.
Proper(r) ==
    /\ r.at \in Nat \ {0}
    /\ r.latency \in Nat \ {0}
    /\ r.code \in Codes

LEMMA ReportOnNothing ==
    ASSUME NEW f
    PROVE  ReportOn({}, f) = NewMetrics
<1>1. Cardinality({}) = 0 /\ Ticks({}, f) = {}
  BY FS_EmptySet DEF Ticks
<1>2. \A c \in Codes : {i \in {} : f[i].code = c} = {}
  OBVIOUS
<1>3. \A b \in DOMAIN Buckets : {i \in {} : Bucket(f[i].latency) = b} = {}
  OBVIOUS
<1>4. {i \in {} : Succeeded(f[i].code)} = {}
  OBVIOUS
<1>5. /\ {f[i].latency : i \in {}} = {} /\ {f[i].at : i \in {}} = {}
      /\ {f[i].at + f[i].latency : i \in {}} = {} /\ {f[i].error : i \in {}} \ {""} = {}
  OBVIOUS
<1>6. LargestOf({}) = 0 /\ SmallestOf({}) = 0
  BY DEF LargestOf, SmallestOf
<1> QED
  BY <1>1, <1>2, <1>3, <1>4, <1>5, <1>6 DEF ReportOn, NewMetrics

LEMMA TicksOfOne ==
    ASSUME NEW x, NEW f, f[x].latency \in Nat
    PROVE  IsFiniteSet(Ticks({x}, f)) /\ Cardinality(Ticks({x}, f)) = f[x].latency
<1> DEFINE n == f[x].latency
           h == [k \in 1 .. n |-> <<x, k>>]
<1>1. IsFiniteSet(1 .. n) /\ Cardinality(1 .. n) = n
  BY FirstNumbers
<1>2. \A k \in 1 .. n : h[k] = <<x, k>> /\ h[k] \in Ticks({x}, f)
  BY DEF Ticks
<1>3. \A k, l \in 1 .. n : h[k] = h[l] => k = l
  BY <1>2
<1>4. \A u \in Ticks({x}, f) : \E k \in 1 .. n : h[k] = u
  <2> TAKE u \in Ticks({x}, f)
  <2>1. u[1] = x /\ u[2] \in 1 .. n /\ u = <<x, u[2]>>
    BY DEF Ticks
  <2> QED
    BY <1>2, <2>1
<1> DEFINE A == 1 .. n
           B == Ticks({x}, f)
<1>a. /\ IsFiniteSet(A)
      /\ \A k \in A : h[k] \in B
      /\ \A k, l \in A : h[k] = h[l] => k = l
      /\ \A u \in B : \E k \in A : h[k] = u
  BY <1>1, <1>2, <1>3, <1>4
<1> HIDE DEF h, n, A, B
<1>b. IsFiniteSet(B) /\ Cardinality(B) = Cardinality(A)
  BY ONLY <1>a, MatchedCardinality
<1>5. IsFiniteSet(Ticks({x}, f)) /\ Cardinality(Ticks({x}, f)) = Cardinality(1 .. n)
  BY <1>b DEF A, B
<1> QED
  BY <1>1, <1>5 DEF n

LEMMA TicksFinite ==
    ASSUME NEW D, IsFiniteSet(D), NEW f, \A i \in D : f[i].latency \in Nat
    PROVE  IsFiniteSet(Ticks(D, f))
<1> DEFINE T == {A \in SUBSET D : IsFiniteSet(Ticks(A, f))}
<1>1. {} \in T
  <2>1. Ticks({}, f) = {}
    BY DEF Ticks
  <2> QED
    BY <2>1, FS_EmptySet
<1>2. ASSUME NEW A \in SUBSET D, NEW x \in D \ A, A \in T PROVE A \cup {x} \in T
  <2>1. Ticks(A \cup {x}, f) = Ticks(A, f) \cup Ticks({x}, f)
    BY DEF Ticks
  <2>2. IsFiniteSet(Ticks({x}, f))
    BY TicksOfOne
  <2>3. IsFiniteSet(Ticks(A \cup {x}, f))
    BY <1>2, <2>1, <2>2, FS_Union
  <2> QED
    BY <2>3
<1> HIDE DEF T
<1>3. D \in T
  BY <1>1, <1>2, FiniteSetsGrow
<1> QED
  BY <1>3 DEF T

LEMMA ReportOnOne ==
    ASSUME NEW x, NEW f, Proper(f[x])
    PROVE  ReportOn({x}, f) =
             [requests |-> 1,
              codes    |-> [c \in Codes |-> IF f[x].code = c THEN 1 ELSE 0],
              total    |-> f[x].latency,
              max      |-> f[x].latency,
              min      |-> f[x].latency,
              earliest |-> f[x].at,
              latest   |-> f[x].at,
              end      |-> f[x].at + f[x].latency,
              success  |-> IF Succeeded(f[x].code) THEN 1 ELSE 0,
              errors   |-> {f[x].error} \ {""},
              counts   |-> [b \in DOMAIN Buckets |-> IF Bucket(f[x].latency) = b THEN 1 ELSE 0]]
<1>1. Cardinality({x}) = 1 /\ Cardinality({}) = 0
  BY FS_Singleton, FS_EmptySet
<1>2. Cardinality(Ticks({x}, f)) = f[x].latency
  BY TicksOfOne DEF Proper
<1>3. ASSUME NEW c \in Codes
      PROVE  Cardinality({i \in {x} : f[i].code = c}) = IF f[x].code = c THEN 1 ELSE 0
  <2>1. {i \in {x} : f[i].code = c} = IF f[x].code = c THEN {x} ELSE {}
    OBVIOUS
  <2> QED
    BY <1>1, <2>1
<1>4. ASSUME NEW b \in DOMAIN Buckets
      PROVE  Cardinality({i \in {x} : Bucket(f[i].latency) = b}) =
                IF Bucket(f[x].latency) = b THEN 1 ELSE 0
  <2>1. {i \in {x} : Bucket(f[i].latency) = b} = IF Bucket(f[x].latency) = b THEN {x} ELSE {}
    OBVIOUS
  <2> QED
    BY <1>1, <2>1
<1>5. Cardinality({i \in {x} : Succeeded(f[i].code)}) = IF Succeeded(f[x].code) THEN 1 ELSE 0
  <2>1. {i \in {x} : Succeeded(f[i].code)} = IF Succeeded(f[x].code) THEN {x} ELSE {}
    OBVIOUS
  <2> QED
    BY <1>1, <2>1
<1>6. /\ {f[i].latency : i \in {x}} = {f[x].latency} /\ {f[i].at : i \in {x}} = {f[x].at}
      /\ {f[i].at + f[i].latency : i \in {x}} = {f[x].at + f[x].latency}
      /\ {f[i].error : i \in {x}} = {f[x].error}
  OBVIOUS
<1>7. /\ LargestOf({f[x].latency}) = f[x].latency /\ SmallestOf({f[x].latency}) = f[x].latency
      /\ LargestOf({f[x].at}) = f[x].at /\ SmallestOf({f[x].at}) = f[x].at
      /\ LargestOf({f[x].at + f[x].latency}) = f[x].at + f[x].latency
  <2>1. f[x].latency \in Nat /\ f[x].at \in Nat /\ f[x].at + f[x].latency \in Nat
    BY DEF Proper
  <2> QED
    BY <2>1, OnlyOne
<1>8. [c \in Codes |-> Cardinality({i \in {x} : f[i].code = c})] =
      [c \in Codes |-> IF f[x].code = c THEN 1 ELSE 0]
  BY <1>3
<1>9. [b \in DOMAIN Buckets |-> Cardinality({i \in {x} : Bucket(f[i].latency) = b})] =
      [b \in DOMAIN Buckets |-> IF Bucket(f[x].latency) = b THEN 1 ELSE 0]
  BY <1>4
<1> QED
  BY <1>1, <1>2, <1>5, <1>6, <1>7, <1>8, <1>9 DEF ReportOn

LEMMA ImageFinite ==
    ASSUME NEW D, IsFiniteSet(D), NEW h
    PROVE  IsFiniteSet({h[i] : i \in D})
<1> DEFINE g == [i \in D |-> h[i]]
           T == {h[i] : i \in D}
<1>1. g \in Surjection(D, T)
  BY DEF Surjection
<1> HIDE DEF g
<1> QED
  BY <1>1, FS_Surjection

\* Metrics.Merge(): the report on two disjoint sets together.
LEMMA ReportOnBoth ==
    ASSUME NEW D, NEW E, IsFiniteSet(D), IsFiniteSet(E), D \cap E = {},
           NEW f, \A i \in D \cup E : Proper(f[i])
    PROVE  MergeReports(ReportOn(D, f), ReportOn(E, f)) = ReportOn(D \cup E, f)
<1> DEFINE B == D \cup E
<1>0. \A i \in B : f[i].latency \in Nat \ {0} /\ f[i].at \in Nat \ {0} /\ f[i].at + f[i].latency \in Nat
  BY DEF Proper
<1>a. \A S : Cardinality((D \cup E) \cap S) = Cardinality(D \cap S) + Cardinality(E \cap S)
  <2> TAKE S
  <2>1. IsFiniteSet(D \cap S) /\ IsFiniteSet(E \cap S)
    BY FS_Intersection
  <2>2. (D \cup E) \cap S = (D \cap S) \cup (E \cap S) /\ (D \cap S) \cap (E \cap S) = {}
    OBVIOUS
  <2> QED
    BY <2>1, <2>2, JoinedCardinality
<1>1. Cardinality(B) = Cardinality(D) + Cardinality(E)
  BY JoinedCardinality
<1>2. ASSUME NEW c \in Codes
      PROVE  Cardinality({i \in B : f[i].code = c}) =
                Cardinality({i \in D : f[i].code = c}) + Cardinality({i \in E : f[i].code = c})
  <2> DEFINE S == {i \in B : f[i].code = c}
  <2>1. /\ {i \in B : f[i].code = c} = (D \cup E) \cap S
        /\ {i \in D : f[i].code = c} = D \cap S /\ {i \in E : f[i].code = c} = E \cap S
    OBVIOUS
  <2> HIDE DEF S, B
  <2>2. Cardinality((D \cup E) \cap S) = Cardinality(D \cap S) + Cardinality(E \cap S)
    BY ONLY <1>a
  <2> QED
    BY <2>1, <2>2
<1>3. ASSUME NEW b \in DOMAIN Buckets
      PROVE  Cardinality({i \in B : Bucket(f[i].latency) = b}) =
                Cardinality({i \in D : Bucket(f[i].latency) = b}) +
                Cardinality({i \in E : Bucket(f[i].latency) = b})
  <2> DEFINE S == {i \in B : Bucket(f[i].latency) = b}
  <2>1. /\ {i \in B : Bucket(f[i].latency) = b} = (D \cup E) \cap S
        /\ {i \in D : Bucket(f[i].latency) = b} = D \cap S
        /\ {i \in E : Bucket(f[i].latency) = b} = E \cap S
    OBVIOUS
  <2> HIDE DEF S, B
  <2>2. Cardinality((D \cup E) \cap S) = Cardinality(D \cap S) + Cardinality(E \cap S)
    BY ONLY <1>a
  <2> QED
    BY <2>1, <2>2
<1>4. Cardinality({i \in B : Succeeded(f[i].code)}) =
        Cardinality({i \in D : Succeeded(f[i].code)}) + Cardinality({i \in E : Succeeded(f[i].code)})
  <2> DEFINE S == {i \in B : Succeeded(f[i].code)}
  <2>1. /\ {i \in B : Succeeded(f[i].code)} = (D \cup E) \cap S
        /\ {i \in D : Succeeded(f[i].code)} = D \cap S
        /\ {i \in E : Succeeded(f[i].code)} = E \cap S
    OBVIOUS
  <2> HIDE DEF S, B
  <2>2. Cardinality((D \cup E) \cap S) = Cardinality(D \cap S) + Cardinality(E \cap S)
    BY ONLY <1>a
  <2> QED
    BY <2>1, <2>2
<1>5. Cardinality(Ticks(B, f)) = Cardinality(Ticks(D, f)) + Cardinality(Ticks(E, f))
  <2>1. Ticks(B, f) = Ticks(D, f) \cup Ticks(E, f) /\ Ticks(D, f) \cap Ticks(E, f) = {}
    BY DEF Ticks
  <2>2. IsFiniteSet(Ticks(D, f)) /\ IsFiniteSet(Ticks(E, f))
    BY <1>0, TicksFinite
  <2> QED
    BY <2>1, <2>2, JoinedCardinality
<1>6. /\ LargestOf({f[i].latency : i \in B}) =
           Larger(LargestOf({f[i].latency : i \in D}), LargestOf({f[i].latency : i \in E}))
      /\ SmallestOf({f[i].latency : i \in B}) =
           Earlier(SmallestOf({f[i].latency : i \in D}), SmallestOf({f[i].latency : i \in E}))
  <2> DEFINE h == [i \in B |-> f[i].latency]
             d == {h[i] : i \in D}
             e == {h[i] : i \in E}
  <2>1. IsFiniteSet(d) /\ IsFiniteSet(e)
    <3> HIDE DEF h
    <3> QED
      BY ImageFinite
  <2>2. d \in SUBSET (Nat \ {0}) /\ e \in SUBSET (Nat \ {0}) /\ d \in SUBSET Nat /\ e \in SUBSET Nat
    BY <1>0
  <2>3. /\ {f[i].latency : i \in B} = d \cup e
        /\ {f[i].latency : i \in D} = d /\ {f[i].latency : i \in E} = e
    OBVIOUS
  <2> HIDE DEF d, e, B
  <2>4. LargestOf(d \cup e) = Larger(LargestOf(d), LargestOf(e))
    BY ONLY <2>1, <2>2, LargestJoined
  <2>5. SmallestOf(d \cup e) = Earlier(SmallestOf(d), SmallestOf(e))
    BY ONLY <2>2, SmallestJoined
  <2> QED
    BY <2>3, <2>4, <2>5
<1>7. /\ LargestOf({f[i].at : i \in B}) =
           Larger(LargestOf({f[i].at : i \in D}), LargestOf({f[i].at : i \in E}))
      /\ SmallestOf({f[i].at : i \in B}) =
           Earlier(SmallestOf({f[i].at : i \in D}), SmallestOf({f[i].at : i \in E}))
  <2> DEFINE h == [i \in B |-> f[i].at]
             d == {h[i] : i \in D}
             e == {h[i] : i \in E}
  <2>1. IsFiniteSet(d) /\ IsFiniteSet(e)
    <3> HIDE DEF h
    <3> QED
      BY ImageFinite
  <2>2. d \in SUBSET (Nat \ {0}) /\ e \in SUBSET (Nat \ {0}) /\ d \in SUBSET Nat /\ e \in SUBSET Nat
    BY <1>0
  <2>3. /\ {f[i].at : i \in B} = d \cup e
        /\ {f[i].at : i \in D} = d /\ {f[i].at : i \in E} = e
    OBVIOUS
  <2> HIDE DEF d, e, B
  <2>4. LargestOf(d \cup e) = Larger(LargestOf(d), LargestOf(e))
    BY ONLY <2>1, <2>2, LargestJoined
  <2>5. SmallestOf(d \cup e) = Earlier(SmallestOf(d), SmallestOf(e))
    BY ONLY <2>2, SmallestJoined
  <2> QED
    BY <2>3, <2>4, <2>5
<1>8. LargestOf({f[i].at + f[i].latency : i \in B}) =
           Larger(LargestOf({f[i].at + f[i].latency : i \in D}),
                  LargestOf({f[i].at + f[i].latency : i \in E}))
  <2> DEFINE h == [i \in B |-> f[i].at + f[i].latency]
             d == {h[i] : i \in D}
             e == {h[i] : i \in E}
  <2>1. IsFiniteSet(d) /\ IsFiniteSet(e)
    <3> HIDE DEF h
    <3> QED
      BY ImageFinite
  <2>2. d \in SUBSET Nat /\ e \in SUBSET Nat
    BY <1>0
  <2>3. /\ {f[i].at + f[i].latency : i \in B} = d \cup e
        /\ {f[i].at + f[i].latency : i \in D} = d /\ {f[i].at + f[i].latency : i \in E} = e
    OBVIOUS
  <2> HIDE DEF d, e, B
  <2> QED
    BY <2>1, <2>2, <2>3, LargestJoined
<1>9. {f[i].error : i \in B} \ {""} = ({f[i].error : i \in D} \ {""}) \cup ({f[i].error : i \in E} \ {""})
  OBVIOUS
<1>10. [c \in Codes |-> Cardinality({i \in B : f[i].code = c})] =
       [c \in Codes |-> [k \in Codes |-> Cardinality({i \in D : f[i].code = k})][c]
                        + [k \in Codes |-> Cardinality({i \in E : f[i].code = k})][c]]
  BY <1>2
<1>11. [b \in DOMAIN Buckets |-> Cardinality({i \in B : Bucket(f[i].latency) = b})] =
       [b \in DOMAIN Buckets |->
          [k \in DOMAIN Buckets |-> Cardinality({i \in D : Bucket(f[i].latency) = k})][b]
          + [k \in DOMAIN Buckets |-> Cardinality({i \in E : Bucket(f[i].latency) = k})][b]]
  BY <1>3
<1> HIDE DEF B
<1>12. ReportOn(B, f) = MergeReports(ReportOn(D, f), ReportOn(E, f))
  BY <1>1, <1>4, <1>5, <1>6, <1>7, <1>8, <1>9, <1>10, <1>11 DEF ReportOn, MergeReports, Merged
<1> QED
  BY <1>12 DEF B

LEMMA ReportTypes ==
    ASSUME NEW D, IsFiniteSet(D), NEW f
    PROVE  /\ ReportOn(D, f).requests \in Nat
           /\ ReportOn(D, f).success \in Nat
           /\ ReportOn(D, f).codes \in [Codes -> Nat]
           /\ ReportOn(D, f).counts \in [DOMAIN Buckets -> Nat]
<1>1. \A A \in SUBSET D : Cardinality(A) \in Nat
  BY FS_Subset, FS_CardinalityType
<1>2. \A c \in Codes : Cardinality({i \in D : f[i].code = c}) \in Nat
  BY <1>1
<1>3. \A b \in DOMAIN Buckets : Cardinality({i \in D : Bucket(f[i].latency) = b}) \in Nat
  BY <1>1
<1>4. Cardinality(D) \in Nat /\ Cardinality({i \in D : Succeeded(f[i].code)}) \in Nat
  BY <1>1
<1> QED
  BY <1>2, <1>3, <1>4 DEF ReportOn

\* Metrics.Add(): the report on one place more.
LEMMA ReportOnMore ==
    ASSUME NEW D, IsFiniteSet(D), NEW x, x \notin D, NEW f, \A i \in D \cup {x} : Proper(f[i])
    PROVE  AddResult(ReportOn(D, f), f[x]) = ReportOn(D \cup {x}, f)
<1> DEFINE m == ReportOn(D, f)
           o == ReportOn({x}, f)
           r == f[x]
<1>1. MergeReports(m, o) = ReportOn(D \cup {x}, f)
  <2>1. IsFiniteSet({x}) /\ D \cap {x} = {}
    BY FS_Singleton
  <2> QED
    BY <2>1, ReportOnBoth
<1>2. /\ Proper(r) /\ m.codes \in [Codes -> Nat] /\ m.counts \in [DOMAIN Buckets -> Nat]
      /\ r.latency # 0 /\ r.at # 0
  BY ReportTypes DEF Proper
<1>3. o = [requests |-> 1,
           codes    |-> [c \in Codes |-> IF r.code = c THEN 1 ELSE 0],
           total    |-> r.latency,
           max      |-> r.latency,
           min      |-> r.latency,
           earliest |-> r.at,
           latest   |-> r.at,
           end      |-> r.at + r.latency,
           success  |-> IF Succeeded(r.code) THEN 1 ELSE 0,
           errors   |-> {r.error} \ {""},
           counts   |-> [b \in DOMAIN Buckets |-> IF Bucket(r.latency) = b THEN 1 ELSE 0]]
  BY <1>2, ReportOnOne
<1> HIDE DEF m, o, r
<1>4. [m.codes EXCEPT ![r.code] = @ + 1] = [c \in Codes |-> m.codes[c] + o.codes[c]]
  <2>1. \A c \in Codes : o.codes[c] = IF r.code = c THEN 1 ELSE 0
    BY <1>3
  <2>2. \A c \in Codes : m.codes[c] \in Nat
    BY <1>2
  <2>3. \A c \in Codes : [m.codes EXCEPT ![r.code] = @ + 1][c] = m.codes[c] + o.codes[c]
    BY <1>2, <2>1, <2>2
  <2> QED
    BY <1>2, <2>3
<1>5. [m.counts EXCEPT ![Bucket(r.latency)] = @ + 1] =
      [b \in DOMAIN Buckets |-> m.counts[b] + o.counts[b]]
  <2>1. \A b \in DOMAIN Buckets : o.counts[b] = IF Bucket(r.latency) = b THEN 1 ELSE 0
    BY <1>3
  <2>2. \A b \in DOMAIN Buckets : m.counts[b] \in Nat
    BY <1>2
  <2>3. \A b \in DOMAIN Buckets :
           [m.counts EXCEPT ![Bucket(r.latency)] = @ + 1][b] = m.counts[b] + o.counts[b]
    BY <1>2, <2>1, <2>2
  <2> QED
    BY <1>2, <2>3
<1>6. (IF r.latency < m.min \/ m.min = 0 THEN r.latency ELSE m.min) = Earlier(m.min, o.min)
  BY <1>2, <1>3 DEF Earlier
<1>7. (IF m.earliest = 0 \/ r.at < m.earliest THEN r.at ELSE m.earliest) = Earlier(m.earliest, o.earliest)
  BY <1>2, <1>3 DEF Earlier
<1>8. m.errors \cup (IF r.error = "" THEN {} ELSE {r.error}) = m.errors \cup o.errors
  BY <1>3
<1>9. /\ o.requests = 1 /\ o.total = r.latency /\ o.max = r.latency /\ o.latest = r.at
      /\ o.end = r.at + r.latency /\ o.success = IF Succeeded(r.code) THEN 1 ELSE 0
  BY <1>3
<1>10. AddResult(m, r) = MergeReports(m, o)
  BY <1>4, <1>5, <1>6, <1>7, <1>8, <1>9 DEF AddResult, MergeReports, Merged
<1> QED
  BY <1>1, <1>10 DEF m, o, r

\* The places D of f hold what the places E of g do; h says where.
Moved(D, f, E, g, h) ==
  /\ IsFiniteSet(D)
  /\ \A i \in D : h[i] \in E /\ f[i] = g[h[i]] /\ f[i].latency \in Nat
  /\ \A i, j \in D : h[i] = h[j] => i = j
  /\ \A e \in E : \E i \in D : h[i] = e

\* Neither the places nor their order matter, only their results.
LEMMA ReportMoved ==
    ASSUME NEW D, NEW f, NEW E, NEW g, NEW h, Moved(D, f, E, g, h)
    PROVE  IsFiniteSet(E) /\ ReportOn(D, f) = ReportOn(E, g)
<1> USE DEF Moved
<1>1. ASSUME NEW S, NEW R, \A i \in D : i \in S <=> h[i] \in R
      PROVE  Cardinality(D \cap S) = Cardinality(E \cap R)
  <2> DEFINE A == D \cap S
             B == E \cap R
  <2>1. IsFiniteSet(A)
    BY FS_Intersection
  <2>2. (\A a \in A : h[a] \in B) /\ (\A a, b \in A : h[a] = h[b] => a = b)
    BY <1>1
  <2>3. \A b \in B : \E a \in A : h[a] = b
    BY <1>1
  <2> HIDE DEF A, B
  <2>4. Cardinality(B) = Cardinality(A)
    BY <2>1, <2>2, <2>3, MatchedCardinality
  <2> QED
    BY <2>4 DEF A, B
<1>2. IsFiniteSet(E) /\ Cardinality(E) = Cardinality(D)
  BY MatchedCardinality
<1>3. \A c \in Codes : Cardinality({i \in D : f[i].code = c}) = Cardinality({i \in E : g[i].code = c})
  <2> TAKE c \in Codes
  <2> DEFINE S == {i \in D : f[i].code = c}
             R == {i \in E : g[i].code = c}
  <2>1. D \cap S = S /\ E \cap R = R /\ \A i \in D : i \in S <=> h[i] \in R
    OBVIOUS
  <2> HIDE DEF S, R
  <2>2. Cardinality(S) = Cardinality(R)
    BY <1>1, <2>1
  <2> QED
    BY <2>2 DEF S, R
<1>4. \A b \in DOMAIN Buckets :
         Cardinality({i \in D : Bucket(f[i].latency) = b}) = Cardinality({i \in E : Bucket(g[i].latency) = b})
  <2> TAKE b \in DOMAIN Buckets
  <2> DEFINE S == {i \in D : Bucket(f[i].latency) = b}
             R == {i \in E : Bucket(g[i].latency) = b}
  <2>1. D \cap S = S /\ E \cap R = R /\ \A i \in D : i \in S <=> h[i] \in R
    OBVIOUS
  <2> HIDE DEF S, R
  <2>2. Cardinality(S) = Cardinality(R)
    BY <1>1, <2>1
  <2> QED
    BY <2>2 DEF S, R
<1>5. Cardinality({i \in D : Succeeded(f[i].code)}) = Cardinality({i \in E : Succeeded(g[i].code)})
  <2> DEFINE S == {i \in D : Succeeded(f[i].code)}
             R == {i \in E : Succeeded(g[i].code)}
  <2>1. D \cap S = S /\ E \cap R = R /\ \A i \in D : i \in S <=> h[i] \in R
    OBVIOUS
  <2> HIDE DEF S, R
  <2>2. Cardinality(S) = Cardinality(R)
    BY <1>1, <2>1
  <2> QED
    BY <2>2 DEF S, R
<1>6. Cardinality(Ticks(D, f)) = Cardinality(Ticks(E, g))
  <2> DEFINE A == Ticks(D, f)
             B == Ticks(E, g)
             k == [u \in A |-> <<h[u[1]], u[2]>>]
  <2>1. IsFiniteSet(A)
    BY TicksFinite
  <2>2. \A u \in A : u[1] \in D /\ u = <<u[1], u[2]>> /\ u[2] \in Nat /\ u[2] \in 1 .. f[u[1]].latency
    BY DEF Ticks
  <2>3. \A u \in A : k[u] \in B
    BY <2>2 DEF Ticks
  <2>4. \A u, v \in A : k[u] = k[v] => u = v
    <3> SUFFICES ASSUME NEW u \in A, NEW v \in A, k[u] = k[v] PROVE u = v
      OBVIOUS
    <3>1. h[u[1]] = h[v[1]] /\ u[2] = v[2]
      OBVIOUS
    <3>2. u[1] = v[1]
      BY <2>2, <3>1
    <3> HIDE DEF A, k
    <3>3. u = <<u[1], u[2]>> /\ v = <<v[1], v[2]>>
      BY <2>2
    <3> QED
      BY <3>1, <3>2, <3>3
  <2>5. \A v \in B : \E u \in A : k[u] = v
    <3> TAKE v \in B
    <3>1. v[1] \in E /\ v[2] \in Nat /\ v[2] \in 1 .. g[v[1]].latency /\ v = <<v[1], v[2]>>
      BY DEF Ticks
    <3>2. PICK i \in D : h[i] = v[1]
      BY <3>1
    <3>3. <<i, v[2]>> \in A
      BY <3>1, <3>2 DEF Ticks
    <3>4. k[<<i, v[2]>>] = v
      BY <3>1, <3>2, <3>3
    <3> QED
      BY <3>3, <3>4
  <2> HIDE DEF A, B, k
  <2>6. Cardinality(B) = Cardinality(A)
    BY <2>1, <2>3, <2>4, <2>5, MatchedCardinality
  <2> QED
    BY <2>6 DEF A, B
<1>7. /\ {f[i].latency : i \in D} = {g[i].latency : i \in E}
      /\ {f[i].at : i \in D} = {g[i].at : i \in E}
      /\ {f[i].at + f[i].latency : i \in D} = {g[i].at + g[i].latency : i \in E}
      /\ {f[i].error : i \in D} = {g[i].error : i \in E}
  <2>1. {f[i].latency : i \in D} = {g[i].latency : i \in E}
    OBVIOUS
  <2>2. {f[i].at : i \in D} = {g[i].at : i \in E}
    OBVIOUS
  <2>3. {f[i].at + f[i].latency : i \in D} = {g[i].at + g[i].latency : i \in E}
    OBVIOUS
  <2>4. {f[i].error : i \in D} = {g[i].error : i \in E}
    OBVIOUS
  <2> QED
    BY <2>1, <2>2, <2>3, <2>4
<1> QED
  BY <1>2, <1>3, <1>4, <1>5, <1>6, <1>7 DEF ReportOn

LEMMA ReportSame ==
    ASSUME NEW D, IsFiniteSet(D), NEW f, NEW g,
           \A i \in D : f[i] = g[i] /\ f[i].latency \in Nat
    PROVE  ReportOn(D, f) = ReportOn(D, g)
<1> DEFINE h == [i \in D |-> i]
<1>1. \A i \in D : h[i] = i
  OBVIOUS
<1> HIDE DEF h
<1>2. Moved(D, f, D, g, h)
  BY <1>1 DEF Moved
<1> QED
  BY <1>2, ReportMoved

-----------------------------------------------------------------------------
\* The report of one worker on its results, one after the other.
LEMMA ReportOfIs ==
    ASSUME NEW X, \A r \in X : Proper(r), NEW s \in Seq(X)
    PROVE  ReportOf(s) = ReportOn(1 .. Len(s), s)
<1> DEFINE n == Len(s)
           Eq(g) == g = [t \in SUBSET DOMAIN s |->
                           IF t = {} THEN NewMetrics ELSE AddResult(g[t \ {Max(t)}], s[Max(t)])]
           iter == CHOOSE g : Eq(g)
           report == [t \in SUBSET DOMAIN s |-> ReportOn(t, s)]
<1>0. n \in Nat /\ DOMAIN s = 1 .. n /\ \A i \in 1 .. n : Proper(s[i])
  BY LenProperties
<1>1. ReportOf(s) = iter[DOMAIN s]
  BY DEF ReportOf, FoldLeft, MapThenFoldSet
<1> HIDE DEF n
<1>2. ASSUME NEW t \in SUBSET (1 .. n), t # {}
      PROVE  ReportOn(t, s) = AddResult(ReportOn(t \ {Max(t)}, s), s[Max(t)])
  <2> DEFINE x == Max(t)
             u == t \ {x}
  <2>1. x \in t
    BY <1>0, <1>2, Largest
  <2>2. IsFiniteSet(1 .. n)
    BY <1>0, FirstNumbers
  <2>3. u \in SUBSET (1 .. n) /\ x \notin u /\ u \cup {x} = t
    BY <2>1
  <2>4. IsFiniteSet(u)
    BY <2>2, <2>3, FS_Subset
  <2>5. \A i \in u \cup {x} : Proper(s[i])
    BY <1>0, <2>1, <2>3
  <2> HIDE DEF x, u
  <2>6. AddResult(ReportOn(u, s), s[x]) = ReportOn(u \cup {x}, s)
    BY <2>3, <2>4, <2>5, ReportOnMore
  <2> QED
    BY <2>3, <2>6 DEF x, u
<1>3. Eq(report)
  <2>1. ASSUME NEW t \in SUBSET DOMAIN s, t # {}
        PROVE  report[t] = AddResult(report[t \ {Max(t)}], s[Max(t)])
    <3>1. t \in SUBSET (1 .. n) /\ t \ {Max(t)} \in SUBSET DOMAIN s
      BY <1>0
    <3> QED
      BY <1>2, <2>1, <3>1
  <2>2. report[{}] = NewMetrics
    BY ReportOnNothing
  <2> QED
    BY <2>1, <2>2
<1>4. Eq(iter)
  <2> HIDE DEF Eq, report
  <2> QED
    BY <1>3
<1> HIDE DEF iter
<1>5. \A k \in Nat : k <= n => iter[1 .. k] = ReportOn(1 .. k, s)
  <2> DEFINE T == {k \in Nat : k <= n => iter[1 .. k] = ReportOn(1 .. k, s)}
  <2>1. 0 \in T
    <3>1. 1 .. 0 = {} /\ {} \in SUBSET DOMAIN s
      OBVIOUS
    <3>2. iter[{}] = NewMetrics
      BY <1>4
    <3> QED
      BY <3>1, <3>2, ReportOnNothing
  <2>2. ASSUME NEW k \in Nat, k \in T PROVE k + 1 \in T
    <3> SUFFICES ASSUME k + 1 <= n PROVE iter[1 .. k + 1] = ReportOn(1 .. k + 1, s)
      OBVIOUS
    <3> DEFINE t == 1 .. k + 1
    <3>0. k <= n /\ k + 1 \in 1 .. k + 1 /\ (\A i \in 1 .. k + 1 : i <= k + 1) /\ 1 .. k + 1 \subseteq 1 .. n
      BY <1>0
    <3>1. /\ k <= n /\ t \in SUBSET (1 .. n) /\ t # {} /\ k + 1 \in t
          /\ \A i \in t : i <= k + 1
      BY <3>0
    <3>2. Max(t) = k + 1
      <4>1. t \in SUBSET Nat
        OBVIOUS
      <4> QED
        BY <3>1, <4>1, MaxIs
    <3>3. t \ {Max(t)} = 1 .. k
      BY <3>2
    <3>4. iter[1 .. k] = ReportOn(1 .. k, s)
      BY <2>2, <3>1
    <3> HIDE DEF t
    <3>5. iter[t] = AddResult(iter[t \ {Max(t)}], s[Max(t)])
      BY <1>0, <1>4, <3>1
    <3>6. iter[t] = AddResult(ReportOn(t \ {Max(t)}, s), s[Max(t)])
      BY <3>3, <3>4, <3>5
    <3>7. iter[t] = ReportOn(t, s)
      BY <1>2, <3>1, <3>6
    <3> QED
      BY <3>7 DEF t
  <2> HIDE DEF T
  <2>3. Nat \subseteq T
    BY <2>1, <2>2, Upwards
  <2> QED
    BY <2>3 DEF T
<1> QED
  BY <1>0, <1>1, <1>5 DEF n

\* The report on one sequence of results after another.
LEMMA ReportOfBoth ==
    ASSUME NEW X, \A r \in X : Proper(r), NEW s \in Seq(X), NEW t \in Seq(X)
    PROVE  ReportOf(s \o t) = MergeReports(ReportOf(s), ReportOf(t))
<1> DEFINE u == s \o t
           m == Len(s)
           n == Len(t)
           D == 1 .. m
           E == m + 1 .. m + n
           h == [i \in 1 .. n |-> m + i]
<1>1. /\ m \in Nat /\ n \in Nat /\ u \in Seq(X) /\ Len(u) = m + n
      /\ \A i \in 1 .. m + n : u[i] \in X
      /\ \A i \in 1 .. m : u[i] = s[i] /\ s[i] \in X
      /\ \A i \in 1 .. n : u[m + i] = t[i] /\ t[i] \in X
  <2>1. m \in Nat /\ n \in Nat /\ (\A i \in 1 .. m : s[i] \in X) /\ (\A i \in 1 .. n : t[i] \in X)
    BY LenProperties
  <2>2. /\ u \in Seq(X) /\ Len(u) = m + n
        /\ \A i \in 1 .. m + n : u[i] = IF i <= m THEN s[i] ELSE t[i - m]
    BY ConcatProperties
  <2>3. \A i \in 1 .. m + n : u[i] \in X
    BY <2>2, LenProperties
  <2>4. \A i \in 1 .. m : i \in 1 .. m + n /\ i <= m
    BY <2>1
  <2>5. \A i \in 1 .. n : m + i \in 1 .. m + n /\ ~(m + i <= m) /\ (m + i) - m = i
    BY <2>1
  <2> HIDE DEF u, m, n
  <2>6. \A i \in 1 .. m : u[i] = s[i]
    BY <2>2, <2>4
  <2>7. \A i \in 1 .. n : u[m + i] = t[i]
    BY <2>2, <2>5
  <2> QED
    BY <2>1, <2>2, <2>3, <2>6, <2>7
<1>2. ReportOf(s) = ReportOn(1 .. m, s) /\ ReportOf(t) = ReportOn(1 .. n, t) /\ ReportOf(u) = ReportOn(1 .. m + n, u)
  BY <1>1, ReportOfIs
<1> HIDE DEF u, m, n
<1>3. IsFiniteSet(1 .. m) /\ IsFiniteSet(1 .. n)
  BY <1>1, FirstNumbers
<1>4. ReportOn(1 .. m, s) = ReportOn(D, u)
  <2>1. \A i \in 1 .. m : s[i] = u[i] /\ s[i].latency \in Nat
    BY <1>1 DEF Proper
  <2> QED
    BY <1>3, <2>1, ReportSame
<1>5. IsFiniteSet(E) /\ ReportOn(1 .. n, t) = ReportOn(E, u)
  <2>1. \A i \in 1 .. n : h[i] = m + i /\ m + i \in E
    BY <1>1
  <2>2. \A e \in E : e - m \in 1 .. n /\ m + (e - m) = e
    BY <1>1
  <2>3. \A i, j \in 1 .. n : m + i = m + j => i = j
    BY <1>1
  <2> HIDE DEF h, E
  <2>4. \A i \in 1 .. n : h[i] \in E /\ t[i] = u[h[i]] /\ t[i].latency \in Nat
    BY <1>1, <2>1 DEF Proper
  <2>5. \A i, j \in 1 .. n : h[i] = h[j] => i = j
    BY <2>1, <2>3
  <2>6. \A e \in E : \E i \in 1 .. n : h[i] = e
    BY <2>1, <2>2
  <2> DEFINE N == 1 .. n
  <2>7. Moved(N, t, E, u, h)
    BY <1>3, <2>4, <2>5, <2>6 DEF Moved
  <2> HIDE DEF N
  <2>8. IsFiniteSet(E) /\ ReportOn(N, t) = ReportOn(E, u)
    BY ONLY <2>7, ReportMoved
  <2> QED
    BY <2>8 DEF N
<1>6. D \cap E = {} /\ D \cup E = 1 .. m + n
  BY <1>1
<1>7. \A i \in D \cup E : Proper(u[i])
  BY <1>1, <1>6
<1> HIDE DEF D, E
<1>8. MergeReports(ReportOn(D, u), ReportOn(E, u)) = ReportOn(D \cup E, u)
  <2>1. IsFiniteSet(D)
    BY <1>3 DEF D
  <2> QED
    BY <1>5, <1>6, <1>7, <2>1, ReportOnBoth
<1> QED
  BY <1>2, <1>4, <1>5, <1>6, <1>8 DEF u

-----------------------------------------------------------------------------
(***************************************************************************)
(* The attack: where the Builders and the mutex are.                       *)
(***************************************************************************)
Places == {"delay", "loop", "target", "generated", "copy", "send", "unsent", "merge", "merging",
           "fail", "failing", "unlock", "done"}

HoldInv ==
  /\ worker \in [Workers -> Places]
  /\ takes \in [Workers -> Builders \cup {Nobody}]
  /\ owner \in [Builders -> Workers \cup {Nobody}]
  /\ \A b \in Builders : owner[b] # Nobody => /\ worker[owner[b]] = "generated"
                                             /\ takes[owner[b]] = b
  /\ AttackTypeOK

LEMMA HoldInit == AttackInit => HoldInv
<1> SUFFICES ASSUME AttackInit PROVE HoldInv
  OBVIOUS
<1>1. Nobody \notin Workers /\ Nobody \notin Builders /\ MaxHits \in Nat
  BY AttackAssumption
<1> QED
  BY <1>1 DEF AttackInit, HoldInv, AttackTypeOK, Places

LEMMA HoldNext == HoldInv /\ [AttackNext]_attackVars => HoldInv'
<1> SUFFICES ASSUME HoldInv, [AttackNext]_attackVars PROVE HoldInv'
  OBVIOUS
<1>0. Nobody \notin Workers /\ Nobody \notin Builders /\ MaxHits \in Nat
  BY AttackAssumption
<1> USE <1>0 DEF HoldInv, AttackTypeOK, Places, Turn
<1>1. ASSUME NEW w \in Workers, Loop(w) PROVE HoldInv'
  BY <1>1 DEF Loop
<1>2. ASSUME NEW w \in Workers, Generate(w) PROVE HoldInv'
  BY <1>2 DEF Generate
<1>3. ASSUME NEW w \in Workers, PutBuilder(w) PROVE HoldInv'
  BY <1>3 DEF PutBuilder
<1>4. ASSUME NEW w \in Workers, CopyBody(w) PROVE HoldInv'
  BY <1>4 DEF CopyBody
<1>5. ASSUME NEW w \in Workers, Answered(w) PROVE HoldInv'
  BY <1>5 DEF Answered, AddOwn
<1>6. ASSUME NEW w \in Workers, TargeterFails(w) PROVE HoldInv'
  BY <1>6 DEF TargeterFails, StopLooks
<1>7. ASSUME NEW w \in Workers, AddUnsent(w) PROVE HoldInv'
  BY <1>7 DEF AddUnsent, AddOwn
<1>8. ASSUME NEW w \in Workers, HitFails(w) PROVE HoldInv'
  BY <1>8 DEF HitFails
<1>9. ASSUME NEW w \in Workers, Locked(w) PROVE HoldInv'
  BY <1>9 DEF Locked
<1>10. ASSUME NEW w \in Workers, Merge(w) PROVE HoldInv'
  BY <1>10 DEF Merge
<1>11. ASSUME NEW w \in Workers, FailStops(w) PROVE HoldInv'
  BY <1>11 DEF FailStops, StopLooks
<1>12. ASSUME NEW w \in Workers, Unlock(w) PROVE HoldInv'
  BY <1>12 DEF Unlock
<1>13. ASSUME NEW g, StopCloses(g) PROVE HoldInv'
  BY <1>13 DEF StopCloses
<1>14. CASE TimerFires
  BY <1>14 DEF TimerFires, StopLooks
<1>15. CASE AttackReturns
  BY <1>15 DEF AttackReturns
<1>16. CASE UNCHANGED attackVars
  BY <1>16 DEF attackVars
<1> QED
  BY <1>1, <1>2, <1>3, <1>4, <1>5, <1>6, <1>7, <1>8, <1>9, <1>10, <1>11, <1>12, <1>13, <1>14, <1>15,
     <1>16 DEF AttackNext, AttackerStep, TimerStep

(***************************************************************************)
(* THEOREM (type correctness): a Builder out of the pool belongs to the    *)
(* worker whose body points into it, the mutex to the one worker that      *)
(* merges, fails or unlocks, and only workers and the timer are in Stop()  *)
(* (attack.go, app.go).                                                    *)
(***************************************************************************)
THEOREM AttackTypeCorrect == AttackSpec => []AttackTypeOK
<1>1. HoldInv => AttackTypeOK
  BY DEF HoldInv
<1> QED
  BY <1>1, HoldInit, HoldNext, PTL DEF AttackSpec

-----------------------------------------------------------------------------
(***************************************************************************)
(* The attack: every result is in the report of one worker, and in the     *)
(* report of the attack once that worker has merged its own.               *)
(***************************************************************************)
Made == [at : Nat \ {0}, latency : Nat \ {0}, code : Codes,
         error : {a.error : a \in Answers} \cup {"targeter"}]

InRequest == {"target", "generated", "copy", "send", "unsent"}
Failed(w) == <<"worker", w>> \in failed

\* The workers whose current request is begun and has no result in "all"; a
\* worker that failed never adds it.
Busy == {w \in Workers : worker[w] \in InRequest \/ Failed(w)}

\* by[i] is the worker that made the i-th result.
OfWorker(by, w)     == {i \in 1 .. Len(all) : by[i] = w}
OfMerged(by, merged) == {i \in 1 .. Len(all) : by[i] \in merged}

Split(by, merged) ==
  /\ by \in [1 .. Len(all) -> Workers]
  /\ merged \in SUBSET Workers
  /\ \A w \in merged : worker[w] = "done"
  /\ \A w \in Workers : worker[w] = "done" => w \in merged \/ Failed(w)
  /\ \A w \in Workers : own[w] = ReportOn(OfWorker(by, w), all)
  /\ results = ReportOn(OfMerged(by, merged), all)

AttackInv ==
  /\ worker \in [Workers -> Places]
  /\ hit \in [Workers -> Nat]
  /\ DOMAIN own = Workers
  /\ all \in Seq(Made)
  /\ \A w \in Workers : worker[w] \in InRequest => hit[w] # 0
  /\ \A w \in Workers : Failed(w) => worker[w] \in {"fail", "failing", "unlock", "done"}
  /\ \A w \in Workers : worker[w] \in {"fail", "failing", "unlock"} => Failed(w)
  /\ seq \in Nat /\ seq = Len(all) + Cardinality(Busy)
  /\ \E by, merged : Split(by, merged)

LEMMA MadeProper == \A r \in Made : Proper(r)
BY DEF Made, Proper

LEMMA BusyFinite == IsFiniteSet(Busy) /\ Cardinality(Busy) \in Nat
BY AttackAssumption, FS_Subset, FS_CardinalityType DEF Busy

LEMMA AttackInvInit == AttackInit => AttackInv
<1> SUFFICES ASSUME AttackInit PROVE AttackInv
  OBVIOUS
<1> DEFINE by == [i \in 1 .. 0 |-> CHOOSE w \in Workers : TRUE]
<1>1. all = <<>> /\ Len(<<>>) = 0 /\ <<>> \in Seq(Made) /\ 1 .. 0 = {}
  BY EmptySeq DEF AttackInit
<1>2. Busy = {} /\ Cardinality({}) = 0
  BY FS_EmptySet DEF AttackInit, Busy, InRequest, Failed
<1>3. ReportOn({}, all) = NewMetrics
  BY ReportOnNothing
<1>4. OfMerged(by, {}) = {} /\ \A w \in Workers : OfWorker(by, w) = {}
  BY <1>1 DEF OfMerged, OfWorker
<1>5. by \in [1 .. Len(all) -> Workers]
  BY <1>1
<1> HIDE DEF by
<1>6. Split(by, {})
  BY <1>3, <1>4, <1>5 DEF Split, AttackInit
<1>7. seq = Len(all) + Cardinality(Busy) /\ seq \in Nat
  BY <1>1, <1>2 DEF AttackInit
<1> QED
  BY <1>1, <1>6, <1>7 DEF AttackInit, AttackInv, Places, InRequest, Failed

\* A step that adds no result and begins no request.
LEMMA AttackFrame ==
    ASSUME AttackInv, UNCHANGED <<own, all, results, seq>>,
           worker' \in [Workers -> Places], hit' = hit,
           \A w \in Workers : worker'[w] \in InRequest => worker[w] \in InRequest,
           \A w \in Workers : (worker'[w] \in InRequest \/ Failed(w)') <=> (worker[w] \in InRequest \/ Failed(w)),
           \A w \in Workers : worker[w] = "done" => worker'[w] = "done",
           \A w \in Workers : worker'[w] = "done" => worker[w] = "done" \/ Failed(w),
           \A w \in Workers : Failed(w) => Failed(w)',
           \A w \in Workers : Failed(w)' => worker'[w] \in {"fail", "failing", "unlock", "done"},
           \A w \in Workers : worker'[w] \in {"fail", "failing", "unlock"} => Failed(w)'
    PROVE  AttackInv'
<1>1. Busy' = Busy
  BY DEF Busy
<1>2. PICK by, merged : Split(by, merged)
  BY DEF AttackInv
<1>3. \A w : OfWorker(by, w)' = OfWorker(by, w)
  BY DEF OfWorker
<1>4. OfMerged(by, merged)' = OfMerged(by, merged)
  BY DEF OfMerged
<1>5. Split(by, merged)'
  <2>1. by \in [1 .. Len(all') -> Workers] /\ merged \in SUBSET Workers
    BY <1>2 DEF Split
  <2>2. \A w \in merged : worker'[w] = "done"
    BY <1>2 DEF Split
  <2>3. \A w \in Workers : worker'[w] = "done" => w \in merged \/ Failed(w)'
    BY <1>2 DEF Split
  <2>4. \A w \in Workers : own'[w] = ReportOn(OfWorker(by, w)', all')
    BY <1>2, <1>3 DEF Split
  <2>5. results' = ReportOn(OfMerged(by, merged)', all')
    BY <1>2, <1>4 DEF Split
  <2> QED
    BY <2>1, <2>2, <2>3, <2>4, <2>5 DEF Split
<1>6. \E b, m : Split(b, m)'
  BY <1>5
<1> QED
  BY <1>1, <1>6 DEF AttackInv

\* A worker adds the result of its request to its own report.
LEMMA AttackAdds ==
    ASSUME AttackInv, NEW w \in Workers, worker[w] \in {"send", "unsent"},
           NEW r \in Made, AddOwn(w, r)
    PROVE  AttackInv'
<1> DEFINE n == Len(all)
<1>1. /\ own' = [own EXCEPT ![w] = AddResult(@, r)] /\ all' = Append(all, r)
      /\ worker' = [worker EXCEPT ![w] = "loop"] /\ UNCHANGED <<hit, seq, results, failed>>
  BY DEF AddOwn, Turn
<1>2. /\ worker \in [Workers -> Places] /\ DOMAIN own = Workers /\ all \in Seq(Made) /\ n \in Nat
      /\ \A i \in 1 .. n : Proper(all[i])
  BY LenProperties, MadeProper DEF AttackInv
<1>3. /\ all' \in Seq(Made) /\ Len(all') = n + 1 /\ all'[n + 1] = r
      /\ \A i \in 1 .. n : all'[i] = all[i]
  BY <1>1, <1>2, AppendProperties
<1>4. ~Failed(w) /\ w \in Busy
  BY DEF AttackInv, Busy, InRequest
<1>5. Busy' = Busy \ {w}
  BY <1>1, <1>2, <1>4 DEF Busy, InRequest, Failed
<1>6. Cardinality(Busy') = Cardinality(Busy) - 1
  BY <1>4, <1>5, BusyFinite, FS_RemoveElement
<1>7. seq' = Len(all') + Cardinality(Busy')
  BY <1>1, <1>2, <1>3, <1>6, BusyFinite DEF AttackInv
<1>8. PICK by, merged : Split(by, merged)
  BY DEF AttackInv
<1>9. /\ by \in [1 .. n -> Workers] /\ merged \in SUBSET Workers /\ w \notin merged
      /\ \A v \in Workers : own[v] = ReportOn(OfWorker(by, v), all)
      /\ results = ReportOn(OfMerged(by, merged), all)
  BY <1>8 DEF Split
<1>10. PICK after :
       /\ after \in [1 .. n + 1 -> Workers] /\ after[n + 1] = w /\ n + 1 \notin 1 .. n
       /\ \A i \in 1 .. n : after[i] = by[i]
       /\ 1 .. n + 1 = 1 .. n \cup {n + 1}
  <2> DEFINE f == [i \in 1 .. n + 1 |-> IF i = n + 1 THEN w ELSE by[i]]
  <2>1. /\ f \in [1 .. n + 1 -> Workers] /\ f[n + 1] = w /\ n + 1 \notin 1 .. n
        /\ \A i \in 1 .. n : f[i] = by[i]
        /\ 1 .. n + 1 = 1 .. n \cup {n + 1}
    BY <1>2, <1>9
  <2> HIDE DEF f, n
  <2> QED
    BY <2>1
<1> HIDE DEF n
<1>11. \A D \in SUBSET (1 .. n) : IsFiniteSet(D) /\ ReportOn(D, all') = ReportOn(D, all)
  <2> TAKE D \in SUBSET (1 .. n)
  <2>1. IsFiniteSet(D)
    <3>1. IsFiniteSet(1 .. n)
      BY <1>2, FirstNumbers
    <3> QED
      BY <3>1, FS_Subset
  <2>2. \A i \in D : all'[i] = all[i] /\ all'[i].latency \in Nat
    BY <1>2, <1>3 DEF Proper
  <2> QED
    BY <2>1, <2>2, ReportSame
<1>12. \A v : OfWorker(by, v) = {i \in 1 .. n : by[i] = v}
  BY DEF OfWorker, n
<1>13. \A v : OfWorker(after, v)' = {i \in 1 .. n + 1 : after[i] = v}
  BY <1>3 DEF OfWorker
<1>14. ASSUME NEW v \in Workers PROVE own'[v] = ReportOn(OfWorker(after, v)', all')
  <2> DEFINE D == {i \in 1 .. n : by[i] = v}
  <2>1. own[v] = ReportOn(D, all) /\ IsFiniteSet(D) /\ ReportOn(D, all') = ReportOn(D, all)
    BY <1>9, <1>11, <1>12
  <2>2. CASE v # w
    <3>1. {i \in 1 .. n + 1 : after[i] = v} = D
      BY <1>10, <2>2
    <3>2. own'[v] = own[v]
      BY <1>1, <1>2, <2>2
    <3> HIDE DEF D
    <3> QED
      BY <1>13, <2>1, <3>1, <3>2
  <2>3. CASE v = w
    <3>1. {i \in 1 .. n + 1 : after[i] = v} = D \cup {n + 1} /\ n + 1 \notin D
      BY <1>10, <2>3
    <3>2. own'[v] = AddResult(own[v], all'[n + 1])
      BY <1>1, <1>2, <1>3, <2>3
    <3>3. \A i \in D \cup {n + 1} : Proper(all'[i])
      BY <1>2, <1>3, MadeProper
    <3> HIDE DEF D
    <3>4. AddResult(ReportOn(D, all'), all'[n + 1]) = ReportOn(D \cup {n + 1}, all')
      BY <2>1, <3>1, <3>3, ReportOnMore
    <3> QED
      BY <1>13, <2>1, <3>1, <3>2, <3>4
  <2> QED
    BY <2>2, <2>3
<1>15. results' = ReportOn(OfMerged(after, merged)', all')
  <2> DEFINE D == {i \in 1 .. n : by[i] \in merged}
  <2>1. results = ReportOn(D, all) /\ ReportOn(D, all') = ReportOn(D, all)
    BY <1>9, <1>11 DEF OfMerged, n
  <2>2. OfMerged(after, merged)' = D
    BY <1>3, <1>9, <1>10 DEF OfMerged
  <2> HIDE DEF D
  <2> QED
    BY <1>1, <2>1, <2>2
<1>16. Split(after, merged)'
  <2>1. after \in [1 .. Len(all') -> Workers] /\ merged \in SUBSET Workers
    BY <1>3, <1>9, <1>10
  <2>2. \A v \in merged : worker'[v] = "done"
    BY <1>1, <1>2, <1>8, <1>9 DEF Split
  <2>3. \A v \in Workers : worker'[v] = "done" => v \in merged \/ Failed(v)'
    BY <1>1, <1>2, <1>8 DEF Split, Failed
  <2> QED
    BY <1>14, <1>15, <2>1, <2>2, <2>3 DEF Split
<1>17. \E b, m : Split(b, m)'
  BY <1>16
<1>18. /\ worker' \in [Workers -> Places] /\ hit' \in [Workers -> Nat] /\ DOMAIN own' = Workers
       /\ \A v \in Workers : worker'[v] \in InRequest => hit'[v] # 0
       /\ \A v \in Workers : Failed(v)' => worker'[v] \in {"fail", "failing", "unlock", "done"}
       /\ \A v \in Workers : worker'[v] \in {"fail", "failing", "unlock"} => Failed(v)'
       /\ seq' \in Nat
  <2>1. worker' \in [Workers -> Places] /\ hit' \in [Workers -> Nat] /\ DOMAIN own' = Workers /\ seq' \in Nat
    BY <1>1, <1>2 DEF AttackInv, Places
  <2>2. \A v \in Workers : worker'[v] \in InRequest => hit'[v] # 0
    BY <1>1, <1>2 DEF AttackInv, InRequest
  <2>3. \A v \in Workers : Failed(v)' => worker'[v] \in {"fail", "failing", "unlock", "done"}
    BY <1>1, <1>2, <1>4 DEF AttackInv, Failed
  <2>4. \A v \in Workers : worker'[v] \in {"fail", "failing", "unlock"} => Failed(v)'
    BY <1>1, <1>2 DEF AttackInv, Failed
  <2> QED
    BY <2>1, <2>2, <2>3, <2>4
<1> QED
  BY <1>3, <1>7, <1>17, <1>18 DEF AttackInv

\* A worker merges its report into that of the attack.
LEMMA AttackMerges ==
    ASSUME AttackInv, NEW w \in Workers, Merge(w)
    PROVE  AttackInv'
<1>1. /\ worker[w] = "merging" /\ results' = MergeReports(results, own[w])
      /\ worker' = [worker EXCEPT ![w] = "done"] /\ UNCHANGED <<hit, seq, own, all, failed>>
  BY DEF Merge, Turn
<1>2. /\ worker \in [Workers -> Places] /\ all \in Seq(Made) /\ Len(all) \in Nat
      /\ \A i \in 1 .. Len(all) : Proper(all[i])
  BY LenProperties, MadeProper DEF AttackInv
<1>3. Busy' = Busy
  BY <1>1, <1>2 DEF Busy, InRequest, Failed
<1>4. PICK by, merged : Split(by, merged)
  BY DEF AttackInv
<1> DEFINE D == OfMerged(by, merged)
           E == OfWorker(by, w)
<1>5. /\ by \in [1 .. Len(all) -> Workers] /\ merged \in SUBSET Workers /\ w \notin merged
      /\ own[w] = ReportOn(E, all) /\ results = ReportOn(D, all)
  BY <1>1, <1>4 DEF Split
<1>6. D \cap E = {} /\ D \in SUBSET (1 .. Len(all)) /\ E \in SUBSET (1 .. Len(all))
  BY <1>5 DEF OfMerged, OfWorker
<1>7. OfMerged(by, merged \cup {w})' = D \cup E
  BY <1>1 DEF OfMerged, OfWorker
<1> HIDE DEF D, E
<1>8. results' = ReportOn(D \cup E, all)
  <2>1. IsFiniteSet(1 .. Len(all))
    BY <1>2, FirstNumbers
  <2>2. IsFiniteSet(D) /\ IsFiniteSet(E)
    BY <1>6, <2>1, FS_Subset
  <2>3. \A i \in D \cup E : Proper(all[i])
    BY <1>2, <1>6
  <2>4. D \cap E = {}
    BY <1>6
  <2>5. MergeReports(ReportOn(D, all), ReportOn(E, all)) = ReportOn(D \cup E, all)
    BY ONLY <2>2, <2>3, <2>4, ReportOnBoth
  <2> QED
    BY <1>1, <1>5, <2>5
<1>9. Split(by, merged \cup {w})'
  <2>1. by \in [1 .. Len(all') -> Workers] /\ merged \cup {w} \in SUBSET Workers
    BY <1>1, <1>5
  <2>2. \A v \in merged \cup {w} : worker'[v] = "done"
    BY <1>1, <1>2, <1>4 DEF Split
  <2>3. \A v \in Workers : worker'[v] = "done" => v \in merged \cup {w} \/ Failed(v)'
    BY <1>1, <1>2, <1>4 DEF Split, Failed
  <2>4. \A v \in Workers : own'[v] = ReportOn(OfWorker(by, v)', all')
    BY <1>1, <1>4 DEF Split, OfWorker
  <2>5. results' = ReportOn(OfMerged(by, merged \cup {w})', all')
    BY <1>1, <1>7, <1>8
  <2> QED
    BY <2>1, <2>2, <2>3, <2>4, <2>5 DEF Split
<1>10. \E b, m : Split(b, m)'
  BY <1>9
<1>11. /\ worker' \in [Workers -> Places]
       /\ \A v \in Workers : worker'[v] \in InRequest => hit'[v] # 0
       /\ \A v \in Workers : Failed(v)' => worker'[v] \in {"fail", "failing", "unlock", "done"}
       /\ \A v \in Workers : worker'[v] \in {"fail", "failing", "unlock"} => Failed(v)'
  BY <1>1, <1>2 DEF AttackInv, Failed, InRequest, Places
<1> QED
  BY <1>1, <1>3, <1>10, <1>11 DEF AttackInv

\* A worker begins a request, or sees that the attack is over.
LEMMA AttackLoops ==
    ASSUME AttackInv, NEW w \in Workers, Loop(w)
    PROVE  AttackInv'
<1>1. worker \in [Workers -> Places] /\ worker[w] \in {"delay", "loop"} /\ UNCHANGED <<own, all, results, failed>>
  BY DEF Loop, AttackInv
<1>2. ~Failed(w) /\ w \notin Busy
  BY <1>1 DEF AttackInv, Busy, InRequest
<1>3. CASE stopped
  <2>1. worker' = [worker EXCEPT ![w] = "merge"] /\ UNCHANGED <<hit, seq>>
    BY <1>3 DEF Loop, Turn
  <2>2. worker' \in [Workers -> Places]
    BY <1>1, <2>1 DEF Places
  <2>3. \A v : Failed(v)' = Failed(v)
    BY <1>1 DEF Failed
  <2> QED
    BY <1>1, <1>2, <2>1, <2>2, <2>3, AttackFrame DEF AttackInv, InRequest
<1>4. CASE ~stopped
  <2>1. /\ worker' = [worker EXCEPT ![w] = "target"] /\ seq' = seq + 1
        /\ hit' = [hit EXCEPT ![w] = seq + 1]
    BY <1>4 DEF Loop, Turn
  <2>2. Busy' = Busy \cup {w}
    BY <1>1, <1>2, <2>1 DEF Busy, InRequest, Failed
  <2>3. Cardinality(Busy') = Cardinality(Busy) + 1
    BY <1>2, <2>2, BusyFinite, FS_AddElement
  <2>4. Len(all) \in Nat /\ seq \in Nat /\ seq = Len(all) + Cardinality(Busy)
    BY LenProperties DEF AttackInv
  <2>5. seq' = Len(all') + Cardinality(Busy') /\ seq' \in Nat
    BY <1>1, <2>1, <2>3, <2>4, BusyFinite
  <2>6. PICK by, merged : Split(by, merged)
    BY DEF AttackInv
  <2>7. Split(by, merged)'
    <3>1. by \in [1 .. Len(all') -> Workers] /\ merged \in SUBSET Workers
      BY <1>1, <2>6 DEF Split
    <3>2. \A v \in merged : worker'[v] = "done"
      BY <1>1, <2>1, <2>6 DEF Split
    <3>3. \A v \in Workers : worker'[v] = "done" => v \in merged \/ Failed(v)'
      BY <1>1, <2>1, <2>6 DEF Split, Failed
    <3>4. \A v \in Workers : own'[v] = ReportOn(OfWorker(by, v)', all')
      BY <1>1, <2>6 DEF Split, OfWorker
    <3>5. results' = ReportOn(OfMerged(by, merged)', all')
      BY <1>1, <2>6 DEF Split, OfMerged
    <3> QED
      BY <3>1, <3>2, <3>3, <3>4, <3>5 DEF Split
  <2>8. \E b, m : Split(b, m)'
    BY <2>7
  <2>9. /\ worker' \in [Workers -> Places] /\ hit' \in [Workers -> Nat]
        /\ \A v \in Workers : worker'[v] \in InRequest => hit'[v] # 0
    <3>1. hit \in [Workers -> Nat] /\ seq + 1 \in Nat /\ seq + 1 # 0
      BY <2>4 DEF AttackInv
    <3>2. worker' \in [Workers -> Places] /\ hit' \in [Workers -> Nat]
      BY <1>1, <2>1, <3>1 DEF Places
    <3>3. \A v \in Workers : worker'[v] \in InRequest => hit'[v] # 0
      BY <1>1, <2>1, <3>1 DEF AttackInv
    <3> QED
      BY <3>2, <3>3
  <2>10. /\ \A v \in Workers : Failed(v)' => worker'[v] \in {"fail", "failing", "unlock", "done"}
         /\ \A v \in Workers : worker'[v] \in {"fail", "failing", "unlock"} => Failed(v)'
    BY <1>1, <1>2, <2>1 DEF AttackInv, Failed
  <2> QED
    BY <1>1, <2>5, <2>8, <2>9, <2>10 DEF AttackInv
<1> QED
  BY <1>3, <1>4

LEMMA AttackInvNext == AttackInv /\ [AttackNext]_attackVars => AttackInv'
<1> SUFFICES ASSUME AttackInv, [AttackNext]_attackVars PROVE AttackInv'
  OBVIOUS
<1>0. worker \in [Workers -> Places]
  BY DEF AttackInv
<1>1. ASSUME NEW w \in Workers, Loop(w) PROVE AttackInv'
  BY <1>1, AttackLoops
<1>2. ASSUME NEW w \in Workers, Merge(w) PROVE AttackInv'
  BY <1>2, AttackMerges
<1>3. ASSUME NEW w \in Workers, Answered(w) PROVE AttackInv'
  <2>1. worker[w] = "send"
    BY <1>3 DEF Answered
  <2>2. PICK a \in Answers :
           AddOwn(w, [at |-> hit[w], latency |-> a.latency, code |-> a.code, error |-> a.error])
    BY <1>3 DEF Answered
  <2>3. hit[w] \in Nat \ {0}
    BY <2>1 DEF AttackInv, InRequest
  <2>4. [at |-> hit[w], latency |-> a.latency, code |-> a.code, error |-> a.error] \in Made
    BY <2>3, AttackAssumption DEF Made
  <2> QED
    BY <2>1, <2>2, <2>4, AttackAdds
<1>4. ASSUME NEW w \in Workers, AddUnsent(w) PROVE AttackInv'
  <2>1. worker[w] = "unsent"
    BY <1>4 DEF AddUnsent
  <2>2. AddOwn(w, [at |-> hit[w], latency |-> 1, code |-> 0, error |-> "targeter"])
    BY <1>4 DEF AddUnsent
  <2>3. hit[w] \in Nat \ {0}
    BY <2>1 DEF AttackInv, InRequest
  <2>4. [at |-> hit[w], latency |-> 1, code |-> 0, error |-> "targeter"] \in Made
    BY <2>3, AttackAssumption DEF Made
  <2> QED
    BY <2>1, <2>2, <2>4, AttackAdds
<1>5. ASSUME NEW w \in Workers, NEW there \in Places, Turn(w, there),
             UNCHANGED <<hit, own, all, results, seq, failed>>,
             (there \in InRequest) <=> (worker[w] \in InRequest),
             worker[w] # "done",
             there = "done" => Failed(w),
             Failed(w) => there \in {"fail", "failing", "unlock", "done"},
             there \in {"fail", "failing", "unlock"} => Failed(w)
      PROVE  AttackInv'
  <2>1. worker' = [worker EXCEPT ![w] = there] /\ worker' \in [Workers -> Places]
    BY <1>0, <1>5 DEF Turn
  <2>2. \A v : Failed(v)' = Failed(v)
    BY <1>5 DEF Failed
  <2>3. \A v \in Workers : worker'[v] = IF v = w THEN there ELSE worker[v]
    BY <1>0, <2>1
  <2>4. /\ \A v \in Workers : Failed(v) => worker[v] \in {"fail", "failing", "unlock", "done"}
        /\ \A v \in Workers : worker[v] \in {"fail", "failing", "unlock"} => Failed(v)
    BY DEF AttackInv
  <2> QED
    BY <1>5, <2>1, <2>2, <2>3, <2>4, AttackFrame
<1>6. ASSUME NEW w \in Workers, Generate(w) PROVE AttackInv'
  <2>1. /\ worker[w] = "target" /\ Turn(w, "generated")
        /\ UNCHANGED <<hit, own, all, results, seq, failed>>
    BY <1>6 DEF Generate
  <2> QED
    BY <1>5, <2>1 DEF AttackInv, InRequest, Places
<1>7. ASSUME NEW w \in Workers, PutBuilder(w) PROVE AttackInv'
  <2>1. /\ worker[w] = "generated" /\ Turn(w, "copy")
        /\ UNCHANGED <<hit, own, all, results, seq, failed>>
    BY <1>7 DEF PutBuilder
  <2> QED
    BY <1>5, <2>1 DEF AttackInv, InRequest, Places
<1>8. ASSUME NEW w \in Workers, CopyBody(w) PROVE AttackInv'
  <2>1. /\ worker[w] = "copy" /\ Turn(w, "send")
        /\ UNCHANGED <<hit, own, all, results, seq, failed>>
    BY <1>8 DEF CopyBody
  <2> QED
    BY <1>5, <2>1 DEF AttackInv, InRequest, Places
<1>9. ASSUME NEW w \in Workers, TargeterFails(w) PROVE AttackInv'
  <2>1. /\ worker[w] = "target" /\ worker' = [worker EXCEPT ![w] = "unsent"]
        /\ UNCHANGED <<hit, own, all, results, seq>>
        /\ failed' = failed \cup {<<"targeter", w>>}
    BY <1>9 DEF TargeterFails, Turn
  <2>2. \A v : Failed(v)' = Failed(v)
    BY <2>1 DEF Failed
  <2>3. worker' \in [Workers -> Places]
    BY <1>0, <2>1 DEF Places
  <2> QED
    BY <1>0, <2>1, <2>2, <2>3, AttackFrame DEF AttackInv, InRequest
<1>10. ASSUME NEW w \in Workers, HitFails(w) PROVE AttackInv'
  <2>1. /\ worker[w] = "send" /\ worker' = [worker EXCEPT ![w] = "fail"]
        /\ UNCHANGED <<hit, own, all, results, seq>>
        /\ failed' = failed \cup {<<"worker", w>>}
    BY <1>10 DEF HitFails, Turn
  <2>2. \A v : Failed(v)' = (Failed(v) \/ v = w)
    BY <2>1 DEF Failed
  <2>3. worker' \in [Workers -> Places]
    BY <1>0, <2>1 DEF Places
  <2> QED
    BY <1>0, <2>1, <2>2, <2>3, AttackFrame DEF AttackInv, InRequest
<1>11. ASSUME NEW w \in Workers, Locked(w) PROVE AttackInv'
  <2> DEFINE there == IF worker[w] = "merge" THEN "merging" ELSE "failing"
  <2>1. /\ worker[w] \in {"merge", "fail"} /\ Turn(w, there)
        /\ UNCHANGED <<hit, own, all, results, seq, failed>>
    BY <1>11 DEF Locked
  <2>2. CASE worker[w] = "merge"
    BY <1>5, <2>1, <2>2 DEF AttackInv, InRequest, Places
  <2>3. CASE worker[w] = "fail"
    BY <1>5, <2>1, <2>3 DEF AttackInv, InRequest, Places
  <2> QED
    BY <2>1, <2>2, <2>3
<1>12. ASSUME NEW w \in Workers, FailStops(w) PROVE AttackInv'
  <2>1. /\ worker[w] = "failing" /\ Turn(w, "unlock")
        /\ UNCHANGED <<hit, own, all, results, seq, failed>>
    BY <1>12 DEF FailStops
  <2> QED
    BY <1>5, <2>1 DEF AttackInv, InRequest, Places
<1>13. ASSUME NEW w \in Workers, Unlock(w) PROVE AttackInv'
  <2>1. /\ worker[w] = "unlock" /\ Turn(w, "done")
        /\ UNCHANGED <<hit, own, all, results, seq, failed>>
    BY <1>13 DEF Unlock
  <2> QED
    BY <1>5, <2>1 DEF AttackInv, InRequest, Places
<1>14. ASSUME UNCHANGED <<worker, hit, own, all, results, seq, failed>> PROVE AttackInv'
  BY <1>14, AttackFrame DEF AttackInv, Failed
<1>15. ASSUME NEW g, StopCloses(g) PROVE AttackInv'
  BY <1>14, <1>15 DEF StopCloses
<1>16. CASE TimerFires
  BY <1>14, <1>16 DEF TimerFires
<1>17. CASE AttackReturns
  BY <1>14, <1>17 DEF AttackReturns
<1>18. CASE UNCHANGED attackVars
  BY <1>14, <1>18 DEF attackVars
<1> QED
  BY <1>1, <1>2, <1>3, <1>4, <1>6, <1>7, <1>8, <1>9, <1>10, <1>11, <1>12, <1>13, <1>15, <1>16, <1>17,
     <1>18 DEF AttackNext, AttackerStep, TimerStep

\* Attack() returns its report when all workers are done.
LEMMA ReturnedDone ==
    (outcome \in {"report", "error"} => \A w \in Workers : worker[w] = "done")
    /\ [AttackNext]_attackVars
    => (outcome' \in {"report", "error"} => \A w \in Workers : worker'[w] = "done")
<1> SUFFICES ASSUME outcome \in {"report", "error"} => \A w \in Workers : worker[w] = "done",
                    [AttackNext]_attackVars, outcome' \in {"report", "error"}
             PROVE  \A w \in Workers : worker'[w] = "done"
  OBVIOUS
<1>1. CASE AttackReturns
  BY <1>1 DEF AttackReturns
<1>2. CASE UNCHANGED attackVars
  BY <1>2 DEF attackVars
<1>3. ASSUME outcome = "running", UNCHANGED outcome PROVE FALSE
  BY <1>3
<1>4. ASSUME NEW g, StopCloses(g), outcome = "running" PROVE FALSE
  BY <1>4 DEF StopCloses
<1>5. CASE TimerStep
  BY <1>3, <1>4, <1>5 DEF TimerStep, TimerFires
<1>6. ASSUME NEW w \in Workers, AttackerStep(w) PROVE FALSE
  <2>1. outcome = "running"
    BY <1>6 DEF AttackerStep
  <2>2. CASE StopCloses(w)
    BY <1>4, <2>1, <2>2
  <2>3. CASE ~StopCloses(w)
    BY <1>3, <1>6, <2>1, <2>3
      DEF AttackerStep, Loop, Generate, PutBuilder, CopyBody, Answered, AddOwn, TargeterFails, AddUnsent,
          HitFails, Locked, Merge, FailStops, Unlock
  <2> QED
    BY <2>2, <2>3
<1> QED
  BY <1>1, <1>2, <1>5, <1>6 DEF AttackNext

ReturnedInv == outcome \in {"report", "error"} => \A w \in Workers : worker[w] = "done"

LEMMA AttackInvShows == AttackInv /\ ReturnedInv => ReportIsUnion
<1> SUFFICES ASSUME AttackInv, outcome = "report", \A w \in Workers : worker[w] = "done",
                    \A w \in Workers : ~Failed(w)
             PROVE  results = ReportOf(all) /\ results.requests = seq
  BY DEF ReturnedInv, ReportIsUnion, Failed
<1>1. all \in Seq(Made) /\ Len(all) \in Nat
  BY LenProperties DEF AttackInv
<1>2. PICK by, merged : Split(by, merged)
  BY DEF AttackInv
<1>3. OfMerged(by, merged) = 1 .. Len(all)
  BY <1>2 DEF Split, OfMerged
<1>4. results = ReportOn(1 .. Len(all), all)
  BY <1>2, <1>3 DEF Split
<1>5. results = ReportOf(all)
  BY <1>1, <1>4, MadeProper, ReportOfIs
<1>6. Busy = {} /\ Cardinality({}) = 0
  BY FS_EmptySet DEF Busy, InRequest
<1>7. seq = Len(all)
  BY <1>1, <1>6 DEF AttackInv
<1>8. Cardinality(1 .. Len(all)) = Len(all)
  BY <1>1, FirstNumbers
<1>9. results.requests = Len(all)
  BY <1>4, <1>8 DEF ReportOn
<1> QED
  BY <1>5, <1>7, <1>9

(***************************************************************************)
(* THEOREM: for any workers, answers and failures, when Attack() returns   *)
(* its report and no worker failed, the report is the one a single worker  *)
(* would have made of all the results, and counts every request that was   *)
(* begun (attack.go:123-139, Metrics.Add() and Metrics.Merge()).           *)
(***************************************************************************)
THEOREM ReportAlwaysUnion == AttackSpec => []ReportIsUnion
<1>1. AttackInit => ReturnedInv
  BY DEF AttackInit, ReturnedInv
<1>2. ReturnedInv /\ [AttackNext]_attackVars => ReturnedInv'
  BY ReturnedDone DEF ReturnedInv
<1> QED
  BY <1>1, <1>2, AttackInvInit, AttackInvNext, AttackInvShows, PTL DEF AttackSpec

-----------------------------------------------------------------------------
(***************************************************************************)
(* What the aggregator computes from a sequence of numbers.                *)
(***************************************************************************)
LEMMA LengthIs ==
    ASSUME NEW S, NEW n \in Nat, NEW s \in [1 .. n -> S]
    PROVE  s \in Seq(S) /\ Len(s) = n
<1>1. s \in Seq(S)
  BY SeqDef
<1>2. Len(s) \in Nat /\ DOMAIN s = 1 .. Len(s) /\ DOMAIN s = 1 .. n
  BY <1>1, LenProperties
<1>3. Len(s) \in 1 .. n \/ Len(s) = 0
  BY <1>2
<1>4. n \in 1 .. Len(s) \/ n = 0
  BY <1>2
<1> QED
  BY <1>1, <1>2, <1>3, <1>4

LEMMA TotalIs ==
    ASSUME NEW n \in Nat, NEW s \in [1 .. n -> Nat], NEW g \in [0 .. n -> Nat], g[0] = 0,
           \A k \in 1 .. n : g[k] = g[k - 1] + s[k]
    PROVE  Total(s) = g[n]
<1> DEFINE Eq(h) == h = [t \in SUBSET DOMAIN s |->
                           IF t = {} THEN 0 ELSE h[t \ {Max(t)}] + s[Max(t)]]
           iter == CHOOSE h : Eq(h)
           v == iter[DOMAIN s]
<1>1. Total(s) = v
  BY DEF Total, FoldLeft, MapThenFoldSet
<1>2. s \in Seq(Nat) /\ Len(s) = n /\ Len(s) \in Nat
  BY LengthIs
<1>3. FoldIs(Nat, Plus, 0, s, v)
  BY <1>2, SumFolds
<1> HIDE DEF v
<1>4. \A k \in 1 .. n : g[k] = Plus[<<s[k], g[k - 1]>>]
  <2> TAKE k \in 1 .. n
  <2>1. k - 1 \in 0 .. n /\ s[k] \in Nat
    OBVIOUS
  <2>2. g[k - 1] \in Nat
    BY <2>1
  <2> QED
    BY <2>1, <2>2, PlusIs
<1>5. PICK N, z : N = Nat /\ z = 0
  OBVIOUS
<1>6. OnPrefixes(g, N, Plus, z, s, g[n])
  BY <1>2, <1>4, <1>5 DEF OnPrefixes
<1>7. FoldIs(N, Plus, z, s, g[n])
  BY ONLY <1>6 DEF FoldIs
<1>8. FoldIs(N, Plus, z, s, v)
  BY <1>3, <1>5
<1>9. v = g[n]
  BY ONLY <1>2, <1>7, <1>8, FoldOnce
<1> QED
  BY <1>1, <1>9

LEMMA OneMore ==
    ASSUME NEW l \in Nat
    PROVE  \A j : j \in 1 .. l + 1 <=> j \in 1 .. l \/ j = l + 1
OBVIOUS

LEMMA MaxRuns ==
    ASSUME NEW n \in Nat \ {0}, NEW a \in [1 .. n -> Nat], NEW h \in [0 .. n -> Nat], h[0] = 0,
           \A k \in 1 .. n : h[k] = Larger(h[k - 1], a[k])
    PROVE  Max({a[k] : k \in 1 .. n}) = h[n]
<1> DEFINE Good(k) == (\E j \in 1 .. k : h[k] = a[j]) /\ \A j \in 1 .. k : a[j] <= h[k]
           T == {k \in Nat : k + 1 <= n => Good(k + 1)}
<1>1. 0 \in T
  <2>1. 1 \in 1 .. n /\ 1 - 1 = 0 /\ a[1] \in Nat /\ 0 + 1 = 1 /\ 1 .. 1 = {1}
    OBVIOUS
  <2>2. h[1] = a[1]
    BY <2>1 DEF Larger
  <2>3. Good(1)
    BY <2>1, <2>2
  <2> QED
    BY <2>1, <2>3
<1>2. ASSUME NEW k \in Nat, k \in T PROVE k + 1 \in T
  <2> SUFFICES ASSUME (k + 1) + 1 <= n PROVE Good((k + 1) + 1)
    OBVIOUS
  <2> HIDE DEF Good
  <2> DEFINE l == k + 1
             m == l + 1
  <2>0. l \in 1 .. n /\ m \in 1 .. n /\ m - 1 = l /\ l \in 0 .. n /\ m \in 0 .. n
    OBVIOUS
  <2>1. \A j : j \in 1 .. m <=> j \in 1 .. l \/ j = m
    <3>1. l \in Nat
      OBVIOUS
    <3> HIDE DEF l
    <3> QED
      BY <3>1, OneMore
  <2>a. l <= n
    BY <2>0
  <2>2. Good(l)
    BY <1>2, <2>a
  <2> HIDE DEF l, m, T
  <2> USE DEF Good
  <2>3. h[m] = Larger(h[l], a[m]) /\ h[l] \in Nat /\ a[m] \in Nat /\ h[m] \in Nat
    BY <2>0
  <2>4. \A j \in 1 .. l : a[j] \in Nat
    <3>1. \A j \in 1 .. l : j \in 1 .. n
      BY <2>0
    <3> QED
      BY <3>1
  <2>5. \E j \in 1 .. m : h[m] = a[j]
    BY <2>1, <2>2, <2>3 DEF Larger
  <2>6. h[l] <= h[m] /\ a[m] <= h[m]
    BY ONLY <2>3 DEF Larger
  <2>7. ASSUME NEW j \in 1 .. m PROVE a[j] <= h[m]
    <3>1. CASE j \in 1 .. l
      <4>1. a[j] \in Nat /\ a[j] <= h[l]
        BY <2>2, <2>4, <3>1
      <4> QED
        BY ONLY <2>3, <2>6, <4>1
    <3> QED
      BY <2>1, <2>6, <3>1
  <2> QED
    BY <2>5, <2>7 DEF l, m
<1> HIDE DEF T
<1>3. Nat \subseteq T
  BY <1>1, <1>2, Upwards
<1>4. n - 1 \in Nat /\ (n - 1) + 1 = n
  OBVIOUS
<1>5. Good(n)
  <2> DEFINE k == n - 1
  <2> HIDE DEF Good
  <2>1. k \in T /\ k + 1 = n
    BY <1>3, <1>4
  <2>2. k + 1 <= n
    BY <1>4
  <2> HIDE DEF k
  <2>3. Good(k + 1)
    BY <2>1, <2>2 DEF T
  <2> QED
    BY ONLY <2>1, <2>3
<1> DEFINE S == {a[k] : k \in 1 .. n}
<1>6. S \in SUBSET Nat /\ h[n] \in S /\ \A v \in S : v <= h[n]
  BY <1>5
<1> HIDE DEF S
<1>7. Max(S) = h[n]
  BY <1>6, MaxIs
<1> QED
  BY <1>7 DEF S

LEMMA MinRuns ==
    ASSUME NEW n \in Nat \ {0}, NEW a \in [1 .. n -> Nat \ {0}], NEW h \in [0 .. n -> Nat], h[0] = 0,
           \A k \in 1 .. n : h[k] = Earlier(h[k - 1], a[k])
    PROVE  /\ Min({a[k] : k \in 1 .. n}) = h[n]
           /\ \A now \in Nat : (\A k \in 1 .. n : a[k] < now) => Min({a[k] : k \in 1 .. n} \cup {now}) = h[n]
<1> DEFINE Good(k) == (\E j \in 1 .. k : h[k] = a[j]) /\ \A j \in 1 .. k : h[k] <= a[j]
           T == {k \in Nat : k + 1 <= n => Good(k + 1)}
<1>1. 0 \in T
  <2>1. 1 \in 1 .. n /\ 1 - 1 = 0 /\ a[1] \in Nat /\ 0 + 1 = 1 /\ 1 .. 1 = {1}
    OBVIOUS
  <2>2. h[1] = a[1]
    BY <2>1 DEF Earlier
  <2>3. Good(1)
    BY <2>1, <2>2
  <2> QED
    BY <2>1, <2>3
<1>2. ASSUME NEW k \in Nat, k \in T PROVE k + 1 \in T
  <2> SUFFICES ASSUME (k + 1) + 1 <= n PROVE Good((k + 1) + 1)
    OBVIOUS
  <2> HIDE DEF Good
  <2> DEFINE l == k + 1
             m == l + 1
  <2>0. l \in 1 .. n /\ m \in 1 .. n /\ m - 1 = l /\ l \in 0 .. n /\ m \in 0 .. n
    OBVIOUS
  <2>1. \A j : j \in 1 .. m <=> j \in 1 .. l \/ j = m
    <3>1. l \in Nat
      OBVIOUS
    <3> HIDE DEF l
    <3> QED
      BY <3>1, OneMore
  <2>a. l <= n
    BY <2>0
  <2>2. Good(l)
    BY <1>2, <2>a
  <2> HIDE DEF l, m, T
  <2> USE DEF Good
  <2>3. /\ h[m] = Earlier(h[l], a[m]) /\ h[l] \in Nat /\ a[m] \in Nat \ {0} /\ h[m] \in Nat
    BY <2>0
  <2>4. \A j \in 1 .. l : a[j] \in Nat \ {0}
    <3>1. \A j \in 1 .. l : j \in 1 .. n
      BY <2>0
    <3> QED
      BY <3>1
  <2>b. h[l] # 0
    BY <2>2, <2>4
  <2>5. \E j \in 1 .. m : h[m] = a[j]
    BY <2>1, <2>2, <2>3 DEF Earlier
  <2>6. h[m] <= h[l] /\ h[m] <= a[m]
    BY ONLY <2>3, <2>b DEF Earlier
  <2>7. ASSUME NEW j \in 1 .. m PROVE h[m] <= a[j]
    <3>1. CASE j \in 1 .. l
      <4>1. a[j] \in Nat /\ h[l] <= a[j]
        BY <2>2, <2>4, <3>1
      <4> QED
        BY ONLY <2>3, <2>6, <4>1
    <3> QED
      BY <2>1, <2>6, <3>1
  <2> QED
    BY <2>5, <2>7 DEF l, m
<1> HIDE DEF T
<1>3. Nat \subseteq T
  BY <1>1, <1>2, Upwards
<1>4. n - 1 \in Nat /\ (n - 1) + 1 = n
  OBVIOUS
<1>5. Good(n)
  <2> DEFINE k == n - 1
  <2> HIDE DEF Good
  <2>1. k \in T /\ k + 1 = n
    BY <1>3, <1>4
  <2>2. k + 1 <= n
    BY <1>4
  <2> HIDE DEF k
  <2>3. Good(k + 1)
    BY <2>1, <2>2 DEF T
  <2> QED
    BY ONLY <2>1, <2>3
<1> DEFINE S == {a[k] : k \in 1 .. n}
<1>6. S \in SUBSET Nat /\ h[n] \in S /\ \A v \in S : h[n] <= v
  BY <1>5
<1>7. ASSUME NEW now \in Nat, \A k \in 1 .. n : a[k] < now PROVE h[n] <= now
  <2>1. PICK j \in 1 .. n : h[n] = a[j]
    BY <1>5
  <2> QED
    BY <1>7, <2>1
<1> HIDE DEF S
<1>8. Min(S) = h[n]
  BY <1>6, MinIs
<1>9. ASSUME NEW now \in Nat, h[n] <= now PROVE Min(S \cup {now}) = h[n]
  <2>1. /\ S \cup {now} \in SUBSET Nat /\ h[n] \in S \cup {now}
        /\ \A v \in S \cup {now} : h[n] <= v
    BY <1>6, <1>9
  <2> QED
    BY <2>1, MinIs
<1> QED
  BY <1>7, <1>8, <1>9 DEF S

LEMMA UnionRuns ==
    ASSUME NEW n \in Nat, NEW a, NEW h, h[0] = {}, \A k \in 1 .. n : h[k] = h[k - 1] \cup a[k]
    PROVE  UNION {a[k] : k \in 1 .. n} = h[n]
<1> DEFINE T == {m \in Nat : m <= n => UNION {a[k] : k \in 1 .. m} = h[m]}
<1>1. 0 \in T
  OBVIOUS
<1>2. ASSUME NEW m \in Nat, m \in T PROVE m + 1 \in T
  <2> SUFFICES ASSUME m + 1 <= n PROVE UNION {a[k] : k \in 1 .. m + 1} = h[m + 1]
    OBVIOUS
  <2> DEFINE l == m + 1
  <2>1. l \in 1 .. n /\ l - 1 = m /\ 1 .. l = 1 .. m \cup {l}
    OBVIOUS
  <2>2. UNION {a[k] : k \in 1 .. m} = h[m]
    BY <1>2
  <2> HIDE DEF l, T
  <2>3. h[l] = h[m] \cup a[l]
    BY <2>1
  <2>4. UNION {a[k] : k \in 1 .. l} = (UNION {a[k] : k \in 1 .. m}) \cup a[l]
    BY <2>1
  <2> QED
    BY <2>2, <2>3, <2>4 DEF l
<1> HIDE DEF T
<1>3. Nat \subseteq T
  BY <1>1, <1>2, Upwards
<1> QED
  BY <1>3 DEF T

\* The number of results with one of some status codes.
LEMMA SumOverCodes ==
    ASSUME NEW D, IsFiniteSet(D), NEW f, NEW S \in SUBSET Codes
    PROVE  LET codes == [c \in Codes |-> Cardinality({i \in D : f[i].code = c})]
           IN  SumFunctionOnSet(codes, S) = Cardinality({i \in D : f[i].code \in S})
<1> DEFINE codes == [c \in Codes |-> Cardinality({i \in D : f[i].code = c})]
           Eq(g) == g = [t \in SUBSET S |->
                           IF t = {} THEN 0
                           ELSE codes[CHOOSE x \in t : TRUE] + g[t \ {CHOOSE x \in t : TRUE}]]
           iter == CHOOSE g : Eq(g)
           With(t) == {i \in D : f[i].code \in t}
           count == [t \in SUBSET S |-> Cardinality(With(t))]
<1>1. SumFunctionOnSet(codes, S) = iter[S]
  BY DEF SumFunctionOnSet, FoldFunctionOnSet, MapThenFoldSet
<1>2. \A A \in SUBSET D : IsFiniteSet(A)
  BY FS_Subset
<1>3. ASSUME NEW t \in SUBSET S, NEW x \in t
      PROVE  Cardinality(With(t)) = codes[x] + Cardinality(With(t \ {x}))
  <2> DEFINE A == {i \in D : f[i].code = x}
             B == With(t \ {x})
  <2>1. A \in SUBSET D /\ B \in SUBSET D /\ A \cap B = {} /\ A \cup B = With(t)
    OBVIOUS
  <2>2. codes[x] = Cardinality(A)
    OBVIOUS
  <2>3. IsFiniteSet(A) /\ IsFiniteSet(B)
    BY <1>2, <2>1
  <2> HIDE DEF A, B, codes, With
  <2>4. Cardinality(A \cup B) = Cardinality(A) + Cardinality(B)
    BY <2>1, <2>3, JoinedCardinality
  <2> QED
    BY <2>1, <2>2, <2>4 DEF B
<1>4. Cardinality(With({})) = 0
  <2>1. With({}) = {}
    OBVIOUS
  <2> QED
    BY <2>1, FS_EmptySet
<1> HIDE DEF With, codes
<1>5. Eq(count)
  <2>1. ASSUME NEW t \in SUBSET S, t # {}
        PROVE  count[t] = codes[CHOOSE x \in t : TRUE] + count[t \ {CHOOSE x \in t : TRUE}]
    <3>1. (CHOOSE x \in t : TRUE) \in t
      BY <2>1
    <3>2. t \ {CHOOSE x \in t : TRUE} \in SUBSET S
      OBVIOUS
    <3> QED
      BY <1>3, <3>1, <3>2
  <2>2. count[{}] = 0
    BY <1>4
  <2> QED
    BY <2>1, <2>2
<1>6. Eq(iter)
  <2> HIDE DEF Eq, count
  <2> QED
    BY <1>5
<1> HIDE DEF iter
<1> DEFINE T == {n \in Nat : \A t \in SUBSET S : Cardinality(t) = n => iter[t] = Cardinality(With(t))}
<1>7. IsFiniteSet(S)
  BY ReportAssumption, FS_Subset
<1>8. 0 \in T
  <2>1. ASSUME NEW t \in SUBSET S, Cardinality(t) = 0 PROVE iter[t] = Cardinality(With(t))
    <3>1. t = {}
      BY <1>7, <2>1, FS_Subset, FS_EmptySet
    <3>2. iter[{}] = 0
      BY <1>6
    <3> QED
      BY <1>4, <3>1, <3>2
  <2> QED
    BY <2>1
<1>9. ASSUME NEW n \in Nat, n \in T PROVE n + 1 \in T
  <2>1. ASSUME NEW t \in SUBSET S, Cardinality(t) = n + 1 PROVE iter[t] = Cardinality(With(t))
    <3> DEFINE x == CHOOSE y \in t : TRUE
               u == t \ {x}
    <3>1. IsFiniteSet(t) /\ t # {}
      BY <1>7, <2>1, FS_Subset, FS_EmptySet
    <3>2. x \in t /\ u \in SUBSET S
      BY <3>1
    <3>3. iter[t] = codes[x] + iter[u]
      BY <1>6, <3>1
    <3> HIDE DEF x
    <3>4. Cardinality(u) = n
      <4>1. Cardinality(u) = Cardinality(t) - 1
        BY <3>1, <3>2, FS_RemoveElement
      <4> QED
        BY <2>1, <4>1
    <3>5. iter[u] = Cardinality(With(u))
      BY <1>9, <3>2, <3>4
    <3>6. Cardinality(With(t)) = codes[x] + Cardinality(With(u))
      BY <1>3, <3>2
    <3> QED
      BY <3>3, <3>5, <3>6
  <2> QED
    BY <2>1
<1> HIDE DEF T
<1>10. Nat \subseteq T
  BY <1>8, <1>9, Upwards
<1>11. Cardinality(S) \in Nat
  BY <1>7, FS_CardinalityType
<1>12. iter[S] = Cardinality(With(S))
  BY <1>10, <1>11 DEF T
<1> QED
  BY <1>1, <1>12 DEF With, codes

-----------------------------------------------------------------------------
(***************************************************************************)
(* The pods' requests as one set of places: place <<p, i>> is the i-th     *)
(* request of pod p.                                                       *)
(***************************************************************************)
Results == UNION {Range(s) : s \in PodResults}

Rows(P, m) == {u \in P \X Nat : u[2] \in 1 .. Len(m[u[1]])}

ResultAt(m) == [u \in Pods \X Nat |-> m[u[1]][u[2]]]

PodsReport(P, m) == ReportOn(Rows(P, m), ResultAt(m))

LEMMA PodResultsProper ==
    /\ \A r \in Results : Proper(r) /\ r.at < Now
    /\ \A s \in PodResults : s \in Seq(Results) /\ Len(s) > 0
<1>1. ASSUME NEW s \in PodResults
      PROVE  /\ s \in Seq(Results) /\ Len(s) > 0
             /\ \A r \in Range(s) : Proper(r) /\ r.at < Now
  <2>1. /\ s \in Seq(Range(s)) /\ s # <<>>
        /\ \A i \in DOMAIN s : /\ s[i].at \in 1 .. Now - 1
                               /\ s[i].latency \in Nat \ {0}
                               /\ s[i].code \in Codes
    BY AggregatorAssumption
  <2>2. DOMAIN s = 1 .. Len(s) /\ Len(s) \in Nat
    BY <2>1, LenProperties
  <2>3. \A i \in 1 .. Len(s) : s[i] \in Range(s)
    BY <2>2 DEF Range
  <2>4. \A i \in 1 .. Len(s) : s[i] \in Results
    BY <2>3 DEF Results
  <2>5. s \in Seq(Results)
    BY <2>1, <2>2, <2>4, IsASeq, LenProperties
  <2>6. Len(s) > 0
    BY <2>1, <2>2, EmptySeq
  <2>7. ASSUME NEW r \in Range(s) PROVE Proper(r) /\ r.at < Now
    <3>1. PICK i \in DOMAIN s : r = s[i]
      BY DEF Range
    <3>2. r.at \in 1 .. Now - 1 /\ r.latency \in Nat \ {0} /\ r.code \in Codes
      BY <2>1, <3>1
    <3>3. Now \in Nat
      BY AggregatorAssumption
    <3>4. r.at \in Nat \ {0} /\ r.at < Now
      BY <3>2, <3>3
    <3> QED
      BY <3>2, <3>4 DEF Proper
  <2> QED
    BY <2>5, <2>6, <2>7
<1> QED
  BY <1>1 DEF Results

LEMMA RowsProper ==
    ASSUME NEW m \in [Pods -> PodResults], NEW u \in Rows(Pods, m)
    PROVE  Proper(ResultAt(m)[u]) /\ ResultAt(m)[u].at < Now
<1>1. u[1] \in Pods /\ u[2] \in 1 .. Len(m[u[1]]) /\ ResultAt(m)[u] = m[u[1]][u[2]]
  BY DEF Rows, ResultAt
<1>2. m[u[1]] \in Seq(Results)
  BY <1>1, PodResultsProper
<1>3. m[u[1]][u[2]] \in Results
  BY <1>1, <1>2, LenProperties
<1> QED
  BY <1>1, <1>3, PodResultsProper

LEMMA PodRows ==
    ASSUME NEW m \in [Pods -> PodResults], NEW p \in Pods
    PROVE  /\ IsFiniteSet(Rows({p}, m)) /\ Rows({p}, m) # {}
           /\ ReportOf(m[p]) = PodsReport({p}, m)
<1> DEFINE s == m[p]
           D == 1 .. Len(s)
           E == Rows({p}, m)
           g == ResultAt(m)
           h == [i \in D |-> <<p, i>>]
<1>1. s \in Seq(Results) /\ Len(s) > 0 /\ Len(s) \in Nat /\ \A i \in D : s[i] \in Results
  BY PodResultsProper, LenProperties
<1>2. ReportOf(s) = ReportOn(D, s)
  BY <1>1, PodResultsProper, ReportOfIs
<1>3. \A i \in D : h[i] = <<p, i>> /\ h[i] \in E /\ s[i] = g[h[i]]
  BY DEF Rows, ResultAt
<1>4. \A i, j \in D : h[i] = h[j] => i = j
  BY <1>3
<1>5. \A e \in E : \E i \in D : h[i] = e
  <2> TAKE e \in E
  <2>1. e[1] = p /\ e[2] \in D /\ e = <<p, e[2]>>
    BY DEF Rows
  <2> QED
    BY <1>3, <2>1
<1>6. \A i \in D : s[i].latency \in Nat
  BY <1>1, PodResultsProper DEF Proper
<1>7. IsFiniteSet(D)
  BY <1>1, FirstNumbers
<1>8. 1 \in D
  BY <1>1
<1> HIDE DEF s, D, E, g, h
<1>a. Moved(D, s, E, g, h)
  BY <1>3, <1>4, <1>5, <1>6, <1>7 DEF Moved
<1>9. IsFiniteSet(E) /\ ReportOn(D, s) = ReportOn(E, g)
  BY ONLY <1>a, ReportMoved
<1>10. E # {}
  BY <1>3, <1>8
<1> QED
  BY <1>2, <1>9, <1>10 DEF s, E, g, PodsReport

LEMMA RowsFinite ==
    ASSUME NEW m \in [Pods -> PodResults], NEW P \in SUBSET Pods
    PROVE  IsFiniteSet(Rows(P, m))
<1> DEFINE T == {A \in SUBSET Pods : IsFiniteSet(Rows(A, m))}
<1>1. {} \in T
  <2>1. Rows({}, m) = {}
    BY DEF Rows
  <2> QED
    BY <2>1, FS_EmptySet
<1>2. ASSUME NEW A \in SUBSET Pods, NEW x \in Pods \ A, A \in T PROVE A \cup {x} \in T
  <2>1. Rows(A \cup {x}, m) = Rows(A, m) \cup Rows({x}, m)
    BY DEF Rows
  <2>2. IsFiniteSet(Rows({x}, m))
    BY PodRows
  <2>3. IsFiniteSet(Rows(A \cup {x}, m))
    BY <1>2, <2>1, <2>2, FS_Union
  <2> QED
    BY <2>3
<1> HIDE DEF T
<1>3. P \in T
  BY <1>1, <1>2, FiniteSetsGrow, AggregatorAssumption
<1> QED
  BY <1>3 DEF T

LEMMA PodsReportMore ==
    ASSUME NEW m \in [Pods -> PodResults], NEW P \in SUBSET Pods, NEW p \in Pods \ P
    PROVE  PodsReport(P \cup {p}, m) = MergeReports(PodsReport(P, m), ReportOf(m[p]))
<1> DEFINE D == Rows(P, m)
           E == Rows({p}, m)
           f == ResultAt(m)
<1>1. IsFiniteSet(D) /\ IsFiniteSet(E)
  BY RowsFinite, PodRows
<1>2. D \cap E = {} /\ D \cup E = Rows(P \cup {p}, m) /\ D \cup E \subseteq Rows(Pods, m)
  BY DEF Rows
<1>3. \A u \in D \cup E : Proper(f[u])
  BY <1>2, RowsProper
<1>4. ReportOf(m[p]) = ReportOn(E, f)
  BY PodRows DEF PodsReport
<1> HIDE DEF D, E, f
<1>5. MergeReports(ReportOn(D, f), ReportOn(E, f)) = ReportOn(D \cup E, f)
  BY <1>1, <1>2, <1>3, ReportOnBoth
<1> QED
  BY <1>2, <1>4, <1>5 DEF PodsReport, D, f

-----------------------------------------------------------------------------
(***************************************************************************)
(* The pods in some order, without repetition.                             *)
(***************************************************************************)
Listed(q, n) ==
  /\ n \in Nat /\ q \in [1 .. n -> Pods]
  /\ \A i, j \in 1 .. n : q[i] = q[j] => i = j

FirstPods(q, k) == {q[i] : i \in 1 .. k}

LEMMA ListedSteps ==
    ASSUME NEW n, NEW q, Listed(q, n), NEW m \in [Pods -> PodResults]
    PROVE  /\ PodsReport(FirstPods(q, 0), m) = NewMetrics
           /\ \A k \in 1 .. n :
                /\ FirstPods(q, k - 1) \in SUBSET Pods
                /\ q[k] \in Pods \ FirstPods(q, k - 1)
                /\ FirstPods(q, k) = FirstPods(q, k - 1) \cup {q[k]}
                /\ PodsReport(FirstPods(q, k), m) =
                     MergeReports(PodsReport(FirstPods(q, k - 1), m), ReportOf(m[q[k]]))
<1>1. PodsReport(FirstPods(q, 0), m) = NewMetrics
  <2>1. Rows(FirstPods(q, 0), m) = {}
    BY DEF Rows, FirstPods
  <2> QED
    BY <2>1, ReportOnNothing DEF PodsReport
<1>2. ASSUME NEW k \in 1 .. n
      PROVE  /\ FirstPods(q, k - 1) \in SUBSET Pods
             /\ q[k] \in Pods \ FirstPods(q, k - 1)
             /\ FirstPods(q, k) = FirstPods(q, k - 1) \cup {q[k]}
  <2>1. n \in Nat /\ q \in [1 .. n -> Pods] /\ \A i, j \in 1 .. n : q[i] = q[j] => i = j
    BY DEF Listed
  <2>2. \A i : i \in 1 .. k <=> i \in 1 .. k - 1 \/ i = k
    BY <2>1
  <2>3. \A i \in 1 .. k - 1 : i \in 1 .. n /\ i # k
    BY <2>1
  <2>4. \A i \in 1 .. k - 1 : q[i] \in Pods /\ q[i] # q[k]
    BY <2>1, <2>3
  <2> QED
    BY <2>1, <2>2, <2>4 DEF FirstPods
<1>3. ASSUME NEW k \in 1 .. n
      PROVE  PodsReport(FirstPods(q, k), m) =
               MergeReports(PodsReport(FirstPods(q, k - 1), m), ReportOf(m[q[k]]))
  <2> DEFINE P == FirstPods(q, k - 1)
  <2>1. P \in SUBSET Pods /\ q[k] \in Pods \ P /\ FirstPods(q, k) = P \cup {q[k]}
    BY <1>2
  <2> HIDE DEF P
  <2>2. PodsReport(P \cup {q[k]}, m) = MergeReports(PodsReport(P, m), ReportOf(m[q[k]]))
    BY <2>1, PodsReportMore
  <2> QED
    BY <2>1, <2>2 DEF P
<1> QED
  BY <1>1, <1>2, <1>3

\* The report of one generator that made the requests of all the pods.
LEMMA OneReportIs ==
    ASSUME made \in [Pods -> PodResults]
    PROVE  OneReport = PodsReport(Pods, made)
<1> DEFINE q == SetToSeq(Pods)
           n == Cardinality(Pods)
<1>1. n \in Nat /\ q \in [1 .. n -> Pods] /\ IsInjective(q)
  <2>1. IsFiniteSet(Pods)
    BY AggregatorAssumption
  <2>2. n \in Nat
    BY <2>1, FS_CardinalityType
  <2>3. ExistsBijection(1 .. n, Pods)
    BY <2>1, FS_CardinalityType
  <2>4. \E f \in [1 .. n -> Pods] : IsInjective(f)
    BY <2>3 DEF ExistsBijection, Bijection, Injection
  <2> QED
    BY <2>2, <2>4 DEF SetToSeq
<1>2. Listed(q, n)
  BY <1>1 DEF Listed, IsInjective
<1>3. FirstPods(q, n) = Pods
  <2>1. q \in Injection(1 .. n, Pods)
    BY <1>1 DEF Injection
  <2>2. IsFiniteSet(Pods) /\ Cardinality(1 .. n) = Cardinality(Pods)
    BY <1>1, AggregatorAssumption, FirstNumbers
  <2>3. q \in Surjection(1 .. n, Pods)
    BY <2>1, <2>2, FS_Injection
  <2> QED
    BY <2>3 DEF Surjection, FirstPods
<1> HIDE DEF q, n
<1> DEFINE X == Results
           ss(k) == [i \in 1 .. k |-> made[q[i]]]
           T == {k \in Nat : k <= n =>
                   /\ ss(k) \in Seq(Seq(X)) /\ FlattenSeq(ss(k)) \in Seq(X)
                   /\ ReportOf(FlattenSeq(ss(k))) = PodsReport(FirstPods(q, k), made)}
<1>4. 0 \in T
  <2>1. ss(0) = <<>>
    OBVIOUS
  <2>2. <<>> \in Seq(Seq(X)) /\ <<>> \in Seq(X) /\ Len(<<>>) = 0 /\ 1 .. 0 = {}
    BY EmptySeq
  <2>3. ReportOf(<<>>) = NewMetrics
    <3>1. ReportOf(<<>>) = ReportOn(1 .. 0, <<>>)
      BY <2>2, PodResultsProper, ReportOfIs
    <3> QED
      BY <2>2, <3>1, ReportOnNothing
  <2>4. PodsReport(FirstPods(q, 0), made) = NewMetrics
    BY <1>2, ListedSteps
  <2>5. FlattenSeq(ss(0)) = <<>>
    BY <2>1, FlattenEmpty
  <2> HIDE DEF ss
  <2>6. /\ ss(0) \in Seq(Seq(X)) /\ FlattenSeq(ss(0)) \in Seq(X)
        /\ ReportOf(FlattenSeq(ss(0))) = PodsReport(FirstPods(q, 0), made)
    BY <2>1, <2>2, <2>3, <2>4, <2>5
  <2> QED
    BY <2>6
<1>5. ASSUME NEW k \in Nat, k \in T PROVE k + 1 \in T
  <2> SUFFICES ASSUME k + 1 <= n
               PROVE  /\ ss(k + 1) \in Seq(Seq(X)) /\ FlattenSeq(ss(k + 1)) \in Seq(X)
                      /\ ReportOf(FlattenSeq(ss(k + 1))) = PodsReport(FirstPods(q, k + 1), made)
    OBVIOUS
  <2>1. /\ ss(k) \in Seq(Seq(X)) /\ FlattenSeq(ss(k)) \in Seq(X)
        /\ ReportOf(FlattenSeq(ss(k))) = PodsReport(FirstPods(q, k), made)
    BY <1>1, <1>5
  <2> DEFINE l == k + 1
             t == made[q[l]]
  <2>2. l \in 1 .. n /\ l - 1 = k
    BY <1>1
  <2>3. t \in Seq(X)
    BY <1>1, <2>2, PodResultsProper
  <2>4. ss(l) = Append(ss(k), t)
    <3>1. Len(ss(k)) = k
      BY <2>1, LenProperties
    <3>2. /\ Append(ss(k), t) \in Seq(Seq(X)) /\ Len(Append(ss(k), t)) = l
          /\ Append(ss(k), t)[l] = t
          /\ \A i \in 1 .. k : Append(ss(k), t)[i] = ss(k)[i]
      BY <2>1, <2>3, <3>1, AppendProperties
    <3>3. DOMAIN Append(ss(k), t) = 1 .. l
      BY <3>2, LenProperties
    <3>4. \A i \in 1 .. l : i \in 1 .. k \/ i = l
      OBVIOUS
    <3>5. Append(ss(k), t) = [i \in 1 .. l |-> Append(ss(k), t)[i]]
      BY <3>2, <3>3
    <3>6. \A i \in 1 .. l : Append(ss(k), t)[i] = made[q[i]]
      BY <3>2, <3>4
    <3> QED
      BY <3>5, <3>6
  <2> HIDE DEF l, t, ss
  <2>5. ss(l) \in Seq(Seq(X))
    BY <2>1, <2>3, <2>4, AppendProperties
  <2>6. FlattenSeq(ss(l)) = FlattenSeq(ss(k)) \o t
    BY <2>1, <2>3, <2>4, FlattenAppend
  <2>7. FlattenSeq(ss(l)) \in Seq(X)
    BY <2>1, <2>3, <2>6, ConcatProperties
  <2>8. ReportOf(FlattenSeq(ss(l))) = MergeReports(ReportOf(FlattenSeq(ss(k))), ReportOf(t))
    BY <2>1, <2>3, <2>6, PodResultsProper, ReportOfBoth
  <2>9. PodsReport(FirstPods(q, l), made) = MergeReports(PodsReport(FirstPods(q, k), made), ReportOf(t))
    BY <1>2, <2>2, ListedSteps DEF t
  <2> QED
    BY <2>1, <2>5, <2>7, <2>8, <2>9 DEF l
<1> HIDE DEF T, ss
<1>6. n \in T
  BY <1>1, <1>4, <1>5, Upwards
<1>7. OneReport = ReportOf(FlattenSeq(ss(n)))
  BY DEF OneReport, ss, q, n
<1>8. ReportOf(FlattenSeq(ss(n))) = PodsReport(FirstPods(q, n), made)
  BY <1>1, <1>6 DEF T
<1> QED
  BY <1>3, <1>7, <1>8

-----------------------------------------------------------------------------
(***************************************************************************)
(* The reports of the pods and what the aggregator makes of them.          *)
(***************************************************************************)
Reported(r) ==
  /\ r.requests \in Nat
  /\ r.codes \in [Codes -> Nat]
  /\ r.total \in Nat /\ r.max \in Nat /\ r.min \in Nat
  /\ r.earliest \in Nat /\ r.latest \in Nat
  /\ r.counts \in [DOMAIN Buckets -> Nat]

LEMMA PodsReported ==
    ASSUME NEW m \in [Pods -> PodResults], NEW P \in SUBSET Pods
    PROVE  /\ Reported(PodsReport(P, m))
           /\ P # {} => LET r == PodsReport(P, m)
                        IN  r.min # 0 /\ r.earliest # 0 /\ r.earliest < Now
<1> DEFINE D == Rows(P, m)
           f == ResultAt(m)
<1>1. IsFiniteSet(D)
  BY RowsFinite
<1>2. \A u \in D : Proper(f[u]) /\ f[u].at < Now
  <2>1. D \subseteq Rows(Pods, m)
    BY DEF Rows
  <2> QED
    BY <2>1, RowsProper
<1>3. P # {} => D # {}
  <2> SUFFICES ASSUME NEW p \in P PROVE D # {}
    OBVIOUS
  <2>1. Rows({p}, m) # {} /\ Rows({p}, m) \subseteq D
    BY PodRows DEF Rows
  <2> QED
    BY <2>1
<1> HIDE DEF D, f
<1> DEFINE L == {f[u].latency : u \in D}
           A == {f[u].at : u \in D}
<1>4. L \in SUBSET (Nat \ {0}) /\ A \in SUBSET (Nat \ {0}) /\ IsFiniteSet(L) /\ IsFiniteSet(A)
  <2>1. IsFiniteSet(L)
    <3> DEFINE h == [u \in D |-> f[u].latency]
    <3>1. IsFiniteSet({h[u] : u \in D})
      BY <1>1, ImageFinite
    <3>2. {h[u] : u \in D} = L
      OBVIOUS
    <3> QED
      BY <3>1, <3>2
  <2>2. IsFiniteSet(A)
    <3> DEFINE h == [u \in D |-> f[u].at]
    <3>1. IsFiniteSet({h[u] : u \in D})
      BY <1>1, ImageFinite
    <3>2. {h[u] : u \in D} = A
      OBVIOUS
    <3> QED
      BY <3>1, <3>2
  <2> QED
    BY <1>2, <2>1, <2>2 DEF Proper
<1>5. A # {} => Min(A) < Now
  <2> SUFFICES ASSUME A # {} PROVE Min(A) < Now
    OBVIOUS
  <2>1. Min(A) \in A
    BY <1>4, MinExists
  <2> QED
    BY <1>2, <2>1
<1>6. D # {} => L # {} /\ A # {}
  OBVIOUS
<1> DEFINE r == ReportOn(D, f)
<1>7. /\ r.max = LargestOf(L) /\ r.min = SmallestOf(L) /\ r.earliest = SmallestOf(A)
      /\ r.latest = LargestOf(A) /\ r.total = Cardinality(Ticks(D, f))
  BY DEF ReportOn
<1>8. r.requests \in Nat /\ r.codes \in [Codes -> Nat] /\ r.counts \in [DOMAIN Buckets -> Nat]
  BY <1>1, ReportTypes
<1>9. r.total \in Nat
  <2>1. \A u \in D : f[u].latency \in Nat
    BY <1>2 DEF Proper
  <2> QED
    BY <1>1, <1>7, <2>1, TicksFinite, FS_CardinalityType
<1>10. PodsReport(P, m) = r
  BY DEF PodsReport, D, f
<1> HIDE DEF L, A, r
<1>11. \A S \in SUBSET (Nat \ {0}) : IsFiniteSet(S) =>
         /\ LargestOf(S) \in Nat /\ SmallestOf(S) \in Nat
         /\ S # {} => SmallestOf(S) = Min(S) /\ Min(S) \in Nat \ {0}
  <2> TAKE S \in SUBSET (Nat \ {0})
  <2>1. S # {} /\ IsFiniteSet(S) => Max(S) \in S /\ Min(S) \in S
    BY MaxExists, MinExists
  <2> QED
    BY <2>1 DEF LargestOf, SmallestOf
<1>12. Reported(r)
  BY <1>4, <1>7, <1>8, <1>9, <1>11 DEF Reported
<1>13. P # {} => r.min # 0 /\ r.earliest # 0 /\ r.earliest < Now
  BY <1>3, <1>4, <1>5, <1>6, <1>7, <1>11
<1> QED
  BY <1>10, <1>12, <1>13

\* rep[k] is the report on the first k pods, ins[k] that of the k-th one.
Combining(rep, ins, n) ==
  /\ n \in Nat \ {0} /\ DOMAIN ins = 1 .. n
  /\ rep[0] = NewMetrics
  /\ \A k \in 0 .. n : Reported(rep[k])
  /\ \A k \in 1 .. n :
       /\ rep[k] = MergeReports(rep[k - 1], ins[k])
       /\ Reported(ins[k])
       /\ ins[k].min # 0 /\ ins[k].earliest # 0 /\ ins[k].earliest < Now

LEMMA PodsCombine ==
    ASSUME NEW m \in [Pods -> PodResults], NEW n, NEW q, Listed(q, n), FirstPods(q, n) = Pods,
           NEW ins, ins = [k \in 1 .. n |-> ReportOf(m[q[k]])]
    PROVE  \E rep : Combining(rep, ins, n) /\ rep[n] = PodsReport(Pods, m)
<1> DEFINE rep == [k \in 0 .. n |-> PodsReport(FirstPods(q, k), m)]
<1>0. n \in Nat /\ q \in [1 .. n -> Pods]
  BY DEF Listed
<1>1. n # 0
  <2>1. 1 .. 0 = {}
    OBVIOUS
  <2> QED
    BY <2>1, AggregatorAssumption DEF FirstPods
<1>2. \A k \in 0 .. n : rep[k] = PodsReport(FirstPods(q, k), m)
  OBVIOUS
<1>3. 0 \in 0 .. n /\ n \in 0 .. n /\ \A k \in 1 .. n : k \in 0 .. n /\ k - 1 \in 0 .. n
  BY <1>0
<1> HIDE DEF rep
<1>4. \A k \in 0 .. n : Reported(rep[k])
  <2> TAKE k \in 0 .. n
  <2>1. \A i \in 1 .. k : i \in 1 .. n
    BY <1>0
  <2>2. FirstPods(q, k) \in SUBSET Pods
    BY <1>0, <2>1 DEF FirstPods
  <2> QED
    BY <1>2, <2>2, PodsReported
<1>5. ASSUME NEW k \in 1 .. n
      PROVE  /\ Reported(ins[k])
             /\ ins[k].min # 0 /\ ins[k].earliest # 0 /\ ins[k].earliest < Now
  <2>1. q[k] \in Pods
    BY <1>0
  <2>2. ins[k] = PodsReport({q[k]}, m)
    BY <2>1, PodRows
  <2>3. {q[k]} \in SUBSET Pods /\ {q[k]} # {}
    BY <2>1
  <2> QED
    BY <2>2, <2>3, PodsReported
<1>6. rep[0] = NewMetrics /\ rep[n] = PodsReport(Pods, m)
  BY <1>2, <1>3, ListedSteps
<1>7. \A k \in 1 .. n : rep[k] = MergeReports(rep[k - 1], ins[k])
  <2> TAKE k \in 1 .. n
  <2>1. PodsReport(FirstPods(q, k), m) =
          MergeReports(PodsReport(FirstPods(q, k - 1), m), ReportOf(m[q[k]]))
    BY ListedSteps
  <2> QED
    BY <1>2, <1>3, <2>1
<1>8. DOMAIN ins = 1 .. n
  OBVIOUS
<1> QED
  BY <1>0, <1>1, <1>4, <1>5, <1>6, <1>7, <1>8 DEF Combining

LEMMA MergedFields ==
    ASSUME NEW m, NEW o
    PROVE  LET r == MergeReports(m, o)
           IN  /\ r.requests = m.requests + o.requests
               /\ r.total = m.total + o.total
               /\ \A c \in Codes : r.codes[c] = m.codes[c] + o.codes[c]
               /\ \A b \in DOMAIN Buckets : r.counts[b] = m.counts[b] + o.counts[b]
               /\ r.max = Larger(m.max, o.max)
               /\ r.min = Earlier(m.min, o.min)
               /\ r.earliest = Earlier(m.earliest, o.earliest)
               /\ r.latest = Larger(m.latest, o.latest)
               /\ r.errors = m.errors \cup o.errors
BY DEF MergeReports, Merged

\* The totals of the aggregator.
LEMMA AggregateCounts ==
    ASSUME NEW rep, NEW ins, NEW n, Combining(rep, ins, n)
    PROVE  /\ Aggregate(ins, Now).requests = rep[n].requests
           /\ Aggregate(ins, Now).total = rep[n].total
           /\ Aggregate(ins, Now).codes = rep[n].codes
           /\ Aggregate(ins, Now).counts = rep[n].counts
<1>0. /\ n \in Nat /\ n \in 0 .. n /\ 0 \in 0 .. n /\ DOMAIN ins = 1 .. n
      /\ \A k \in 1 .. n : k \in 0 .. n /\ k - 1 \in 0 .. n
  BY DEF Combining
<1>1. /\ \A k \in 0 .. n : Reported(rep[k])
      /\ \A k \in 1 .. n : Reported(ins[k])
  BY DEF Combining
<1>2. \A k \in 1 .. n :
        /\ rep[k].requests = rep[k - 1].requests + ins[k].requests
        /\ rep[k].total = rep[k - 1].total + ins[k].total
        /\ \A c \in Codes : rep[k].codes[c] = rep[k - 1].codes[c] + ins[k].codes[c]
        /\ \A b \in DOMAIN Buckets : rep[k].counts[b] = rep[k - 1].counts[b] + ins[k].counts[b]
  BY MergedFields DEF Combining
<1>3. /\ rep[0].requests = 0 /\ rep[0].total = 0
      /\ \A c \in Codes : rep[0].codes[c] = 0
      /\ \A b \in DOMAIN Buckets : rep[0].counts[b] = 0
  BY DEF Combining, NewMetrics
<1>4. Total([k \in DOMAIN ins |-> ins[k].requests]) = rep[n].requests
  <2> DEFINE s == [k \in 1 .. n |-> ins[k].requests]
             g == [k \in 0 .. n |-> rep[k].requests]
  <2>1. s \in [1 .. n -> Nat] /\ g \in [0 .. n -> Nat]
    BY <1>1 DEF Reported
  <2>2. g[0] = 0 /\ \A k \in 1 .. n : g[k] = g[k - 1] + s[k]
    BY <1>0, <1>2, <1>3
  <2>3. g[n] = rep[n].requests
    BY <1>0
  <2> HIDE DEF s, g
  <2>4. Total(s) = g[n]
    BY <1>0, <2>1, <2>2, TotalIs
  <2> QED
    BY <1>0, <2>3, <2>4 DEF s
<1>5. Total([k \in DOMAIN ins |-> ins[k].total]) = rep[n].total
  <2> DEFINE s == [k \in 1 .. n |-> ins[k].total]
             g == [k \in 0 .. n |-> rep[k].total]
  <2>1. s \in [1 .. n -> Nat] /\ g \in [0 .. n -> Nat]
    BY <1>1 DEF Reported
  <2>2. g[0] = 0 /\ \A k \in 1 .. n : g[k] = g[k - 1] + s[k]
    BY <1>0, <1>2, <1>3
  <2>3. g[n] = rep[n].total
    BY <1>0
  <2> HIDE DEF s, g
  <2>4. Total(s) = g[n]
    BY <1>0, <2>1, <2>2, TotalIs
  <2> QED
    BY <1>0, <2>3, <2>4 DEF s
<1>6. ASSUME NEW c \in Codes
      PROVE  Total([k \in DOMAIN ins |-> ins[k].codes[c]]) = rep[n].codes[c]
  <2> DEFINE s == [k \in 1 .. n |-> ins[k].codes[c]]
             g == [k \in 0 .. n |-> rep[k].codes[c]]
  <2>1. s \in [1 .. n -> Nat] /\ g \in [0 .. n -> Nat]
    BY <1>1 DEF Reported
  <2>2. g[0] = 0 /\ \A k \in 1 .. n : g[k] = g[k - 1] + s[k]
    BY <1>0, <1>2, <1>3
  <2>3. g[n] = rep[n].codes[c]
    BY <1>0
  <2> HIDE DEF s, g
  <2>4. Total(s) = g[n]
    BY <1>0, <2>1, <2>2, TotalIs
  <2> QED
    BY <1>0, <2>3, <2>4 DEF s
<1>7. ASSUME NEW b \in DOMAIN Buckets
      PROVE  Total([k \in DOMAIN ins |-> ins[k].counts[b]]) = rep[n].counts[b]
  <2> DEFINE s == [k \in 1 .. n |-> ins[k].counts[b]]
             g == [k \in 0 .. n |-> rep[k].counts[b]]
  <2>1. s \in [1 .. n -> Nat] /\ g \in [0 .. n -> Nat]
    BY <1>1 DEF Reported
  <2>2. g[0] = 0 /\ \A k \in 1 .. n : g[k] = g[k - 1] + s[k]
    BY <1>0, <1>2, <1>3
  <2>3. g[n] = rep[n].counts[b]
    BY <1>0
  <2> HIDE DEF s, g
  <2>4. Total(s) = g[n]
    BY <1>0, <2>1, <2>2, TotalIs
  <2> QED
    BY <1>0, <2>3, <2>4 DEF s
<1>8. rep[n].codes \in [Codes -> Nat] /\ rep[n].counts \in [DOMAIN Buckets -> Nat]
  BY <1>0, <1>1 DEF Reported
<1> HIDE DEF Combining
<1>9. [c \in Codes |-> Total([k \in DOMAIN ins |-> ins[k].codes[c]])] = rep[n].codes
  BY <1>6, <1>8
<1>10. [b \in DOMAIN Buckets |-> Total([k \in DOMAIN ins |-> ins[k].counts[b]])] = rep[n].counts
  BY <1>7, <1>8
<1>11. /\ Aggregate(ins, Now).requests = Total([k \in DOMAIN ins |-> ins[k].requests])
       /\ Aggregate(ins, Now).total = Total([k \in DOMAIN ins |-> ins[k].total])
       /\ Aggregate(ins, Now).codes = [c \in Codes |-> Total([k \in DOMAIN ins |-> ins[k].codes[c]])]
       /\ Aggregate(ins, Now).counts =
            [b \in DOMAIN Buckets |-> Total([k \in DOMAIN ins |-> ins[k].counts[b]])]
  BY DEF Aggregate
<1> QED
  BY <1>4, <1>5, <1>9, <1>10, <1>11

\* Its largest and smallest times, and the errors.
LEMMA AggregateExtremes ==
    ASSUME NEW rep, NEW ins, NEW n, Combining(rep, ins, n)
    PROVE  /\ Aggregate(ins, Now).max = rep[n].max
           /\ Aggregate(ins, Now).min = rep[n].min
           /\ Aggregate(ins, Now).earliest = rep[n].earliest
           /\ Aggregate(ins, Now).latest = rep[n].latest
           /\ UNION {r.errors : r \in Range(ins)} = rep[n].errors
<1>0. /\ n \in Nat \ {0} /\ n \in 0 .. n /\ 0 \in 0 .. n /\ DOMAIN ins = 1 .. n
      /\ \A k \in 1 .. n : k \in 0 .. n /\ k - 1 \in 0 .. n
  BY DEF Combining
<1>1. /\ \A k \in 0 .. n : Reported(rep[k])
      /\ \A k \in 1 .. n : /\ Reported(ins[k])
                           /\ ins[k].min # 0 /\ ins[k].earliest # 0 /\ ins[k].earliest < Now
  BY DEF Combining
<1>2. \A k \in 1 .. n :
        /\ rep[k].max = Larger(rep[k - 1].max, ins[k].max)
        /\ rep[k].min = Earlier(rep[k - 1].min, ins[k].min)
        /\ rep[k].earliest = Earlier(rep[k - 1].earliest, ins[k].earliest)
        /\ rep[k].latest = Larger(rep[k - 1].latest, ins[k].latest)
        /\ rep[k].errors = rep[k - 1].errors \cup ins[k].errors
  BY MergedFields DEF Combining
<1>3. /\ rep[0].max = 0 /\ rep[0].min = 0 /\ rep[0].earliest = 0 /\ rep[0].latest = 0
      /\ rep[0].errors = {}
  BY DEF Combining, NewMetrics
<1>4. Max({ins[k].max : k \in 1 .. n}) = rep[n].max
  <2> DEFINE a == [k \in 1 .. n |-> ins[k].max]
             h == [k \in 0 .. n |-> rep[k].max]
  <2>1. a \in [1 .. n -> Nat] /\ h \in [0 .. n -> Nat]
    BY <1>1 DEF Reported
  <2>2. h[0] = 0 /\ \A k \in 1 .. n : h[k] = Larger(h[k - 1], a[k])
    BY <1>0, <1>2, <1>3
  <2>3. h[n] = rep[n].max /\ {a[k] : k \in 1 .. n} = {ins[k].max : k \in 1 .. n}
    BY <1>0
  <2> HIDE DEF a, h
  <2>4. Max({a[k] : k \in 1 .. n}) = h[n]
    BY <1>0, <2>1, <2>2, MaxRuns
  <2> QED
    BY <2>3, <2>4
<1>5. Max({ins[k].latest : k \in 1 .. n}) = rep[n].latest
  <2> DEFINE a == [k \in 1 .. n |-> ins[k].latest]
             h == [k \in 0 .. n |-> rep[k].latest]
  <2>1. a \in [1 .. n -> Nat] /\ h \in [0 .. n -> Nat]
    BY <1>1 DEF Reported
  <2>2. h[0] = 0 /\ \A k \in 1 .. n : h[k] = Larger(h[k - 1], a[k])
    BY <1>0, <1>2, <1>3
  <2>3. h[n] = rep[n].latest /\ {a[k] : k \in 1 .. n} = {ins[k].latest : k \in 1 .. n}
    BY <1>0
  <2> HIDE DEF a, h
  <2>4. Max({a[k] : k \in 1 .. n}) = h[n]
    BY <1>0, <2>1, <2>2, MaxRuns
  <2> QED
    BY <2>3, <2>4
<1>6. Min({ins[k].min : k \in 1 .. n}) = rep[n].min
  <2> DEFINE a == [k \in 1 .. n |-> ins[k].min]
             h == [k \in 0 .. n |-> rep[k].min]
  <2>1. a \in [1 .. n -> Nat \ {0}] /\ h \in [0 .. n -> Nat]
    BY <1>1 DEF Reported
  <2>2. h[0] = 0 /\ \A k \in 1 .. n : h[k] = Earlier(h[k - 1], a[k])
    BY <1>0, <1>2, <1>3
  <2>3. h[n] = rep[n].min /\ {a[k] : k \in 1 .. n} = {ins[k].min : k \in 1 .. n}
    BY <1>0
  <2> HIDE DEF a, h
  <2>4. Min({a[k] : k \in 1 .. n}) = h[n]
    BY <1>0, <2>1, <2>2, MinRuns
  <2> QED
    BY <2>3, <2>4
<1>7. Min({ins[k].earliest : k \in 1 .. n} \cup {Now}) = rep[n].earliest
  <2> DEFINE a == [k \in 1 .. n |-> ins[k].earliest]
             h == [k \in 0 .. n |-> rep[k].earliest]
  <2>1. a \in [1 .. n -> Nat \ {0}] /\ h \in [0 .. n -> Nat]
    BY <1>1 DEF Reported
  <2>2. h[0] = 0 /\ \A k \in 1 .. n : h[k] = Earlier(h[k - 1], a[k])
    BY <1>0, <1>2, <1>3
  <2>3. h[n] = rep[n].earliest /\ {a[k] : k \in 1 .. n} = {ins[k].earliest : k \in 1 .. n}
    BY <1>0
  <2>4. \A k \in 1 .. n : a[k] < Now
    BY <1>1
  <2> HIDE DEF a, h
  <2>5. \A now \in Nat : (\A k \in 1 .. n : a[k] < now) => Min({a[k] : k \in 1 .. n} \cup {now}) = h[n]
    BY <1>0, <2>1, <2>2, MinRuns
  <2>6. Now \in Nat
    BY AggregatorAssumption
  <2>7. Min({a[k] : k \in 1 .. n} \cup {Now}) = h[n]
    BY ONLY <2>4, <2>5, <2>6
  <2> QED
    BY <2>3, <2>7
<1>8. UNION {ins[k].errors : k \in 1 .. n} = rep[n].errors
  <2> DEFINE a == [k \in 1 .. n |-> ins[k].errors]
             h == [k \in 0 .. n |-> rep[k].errors]
  <2>2. h[0] = {} /\ \A k \in 1 .. n : h[k] = h[k - 1] \cup a[k]
    BY <1>0, <1>2, <1>3
  <2>3. h[n] = rep[n].errors /\ {a[k] : k \in 1 .. n} = {ins[k].errors : k \in 1 .. n}
    BY <1>0
  <2> HIDE DEF a, h
  <2>4. UNION {a[k] : k \in 1 .. n} = h[n]
    BY <1>0, <2>2, UnionRuns
  <2> QED
    BY <2>3, <2>4
<1>9. Range(ins) = {ins[k] : k \in 1 .. n}
  BY <1>0 DEF Range
<1>10. /\ {r.max : r \in Range(ins)} = {ins[k].max : k \in 1 .. n}
       /\ {r.min : r \in Range(ins)} = {ins[k].min : k \in 1 .. n}
       /\ {r.earliest : r \in Range(ins)} = {ins[k].earliest : k \in 1 .. n}
       /\ {r.latest : r \in Range(ins)} = {ins[k].latest : k \in 1 .. n}
       /\ {r.errors : r \in Range(ins)} = {ins[k].errors : k \in 1 .. n}
  BY <1>9
<1>11. /\ Aggregate(ins, Now).max = Max({r.max : r \in Range(ins)})
       /\ Aggregate(ins, Now).min = Min({r.min : r \in Range(ins)})
       /\ Aggregate(ins, Now).earliest = Min({r.earliest : r \in Range(ins)} \cup {Now})
       /\ Aggregate(ins, Now).latest = Max({r.latest : r \in Range(ins)})
  BY DEF Aggregate
<1> QED
  BY <1>4, <1>5, <1>6, <1>7, <1>8, <1>10, <1>11

LEMMA AggregateSuccess ==
    ASSUME NEW m \in [Pods -> PodResults], NEW ins, Aggregate(ins, Now).codes = PodsReport(Pods, m).codes
    PROVE  Aggregate(ins, Now).success = PodsReport(Pods, m).success
<1> DEFINE D == Rows(Pods, m)
           f == ResultAt(m)
           S == {c \in Codes : Succeeded(c)}
           codes == [c \in Codes |-> Cardinality({u \in D : f[u].code = c})]
<1>1. IsFiniteSet(D) /\ \A u \in D : f[u].code \in Codes
  BY RowsFinite, RowsProper DEF Proper
<1>2. PodsReport(Pods, m).codes = codes /\ PodsReport(Pods, m).success = Cardinality({u \in D : Succeeded(f[u].code)})
  BY DEF PodsReport, ReportOn
<1>3. {u \in D : Succeeded(f[u].code)} = {u \in D : f[u].code \in S}
  BY <1>1
<1>4. Aggregate(ins, Now).success = SumFunctionOnSet(Aggregate(ins, Now).codes, S)
  BY DEF Aggregate
<1> HIDE DEF D, f
<1>5. SumFunctionOnSet(codes, S) = Cardinality({u \in D : f[u].code \in S})
  <2>1. S \in SUBSET Codes
    OBVIOUS
  <2> HIDE DEF S
  <2> QED
    BY <1>1, <2>1, SumOverCodes
<1> HIDE DEF S, codes
<1> QED
  BY <1>2, <1>3, <1>4, <1>5

-----------------------------------------------------------------------------
(***************************************************************************)
(* The percentiles of a histogram.                                         *)
(***************************************************************************)
LEMMA BucketsRise ==
    /\ Len(Buckets) \in Nat \ {0} /\ DOMAIN Buckets = 1 .. Len(Buckets)
    /\ \A i \in DOMAIN Buckets : Buckets[i] \in Nat
    /\ \A i, j \in DOMAIN Buckets : Buckets[i] = Buckets[j] => i = j
<1> DEFINE B == Len(Buckets)
<1>1. /\ B \in Nat /\ DOMAIN Buckets = 1 .. B /\ (\A i \in 1 .. B : Buckets[i] \in Nat) /\ B # 0
  <2>1. Buckets \in Seq(Nat) /\ Buckets # <<>>
    BY ReportAssumption
  <2> QED
    BY <2>1, LenProperties, EmptySeq
<1>2. \A i \in 1 .. B - 1 : Buckets[i] < Buckets[i + 1]
  BY ReportAssumption
<1> HIDE DEF B
<1> DEFINE T == {k \in Nat : \A i \in 1 .. B : (k + 1 <= B /\ i <= k) => Buckets[i] < Buckets[k + 1]}
<1>3. 0 \in T
  OBVIOUS
<1>4. ASSUME NEW k \in Nat, k \in T PROVE k + 1 \in T
  <2> DEFINE l == k + 1
  <2> SUFFICES ASSUME NEW i \in 1 .. B, l + 1 <= B, i <= l PROVE Buckets[i] < Buckets[l + 1]
    OBVIOUS
  <2>1. l \in 1 .. B - 1 /\ l \in 1 .. B /\ l + 1 \in 1 .. B
    BY <1>1
  <2>2. Buckets[l] < Buckets[l + 1] /\ Buckets[i] \in Nat /\ Buckets[l] \in Nat /\ Buckets[l + 1] \in Nat
    BY <1>1, <1>2, <2>1
  <2>3. CASE i = l
    BY <2>2, <2>3
  <2>4. CASE i # l
    <3>1. i <= k /\ k + 1 <= B
      BY <1>1, <2>4
    <3>2. Buckets[i] < Buckets[l]
      BY <1>4, <3>1
    <3> HIDE DEF l
    <3> QED
      BY ONLY <2>2, <3>2
  <2> QED
    BY <2>3, <2>4
<1> HIDE DEF T
<1>5. \A k \in Nat : k \in T
  BY <1>3, <1>4, Upwards
<1>6. ASSUME NEW i \in 1 .. B, NEW j \in 1 .. B, i < j PROVE Buckets[i] < Buckets[j]
  <2> DEFINE k == j - 1
  <2>1. k \in Nat /\ k + 1 = j /\ i <= k /\ k + 1 <= B
    BY <1>1, <1>6
  <2> HIDE DEF k
  <2>2. Buckets[i] < Buckets[k + 1]
    BY <1>5, <2>1 DEF T
  <2> QED
    BY ONLY <2>1, <2>2
<1>7. ASSUME NEW i \in 1 .. B, NEW j \in 1 .. B, Buckets[i] = Buckets[j] PROVE i = j
  <2>1. ~ (Buckets[i] < Buckets[j]) /\ ~ (Buckets[j] < Buckets[i])
    BY <1>1, <1>7
  <2>2. ~ (i < j) /\ ~ (j < i)
    BY <1>6, <2>1
  <2> QED
    BY <1>1, <2>2
<1> QED
  BY <1>1, <1>7 DEF B

\* What is counted up to a bucket.
LEMMA UpToIs ==
    ASSUME NEW D, IsFiniteSet(D), NEW f, NEW i \in 0 .. Len(Buckets)
    PROVE  UpTo(ReportOn(D, f).counts, i) = Cardinality({u \in D : Bucket(f[u].latency) \in 1 .. i})
<1> DEFINE B == Len(Buckets)
           counts == ReportOn(D, f).counts
           In(k) == {u \in D : Bucket(f[u].latency) = k}
           Till(k) == {u \in D : Bucket(f[u].latency) \in 1 .. k}
           s == SubSeq(counts, 1, i)
           g == [k \in 0 .. i |-> Cardinality(Till(k))]
<1>0. B \in Nat /\ i \in Nat /\ i <= B /\ DOMAIN Buckets = 1 .. B
  BY BucketsRise
<1>1. counts \in [1 .. B -> Nat] /\ \A k \in 1 .. B : counts[k] = Cardinality(In(k))
  <2>1. counts \in [1 .. B -> Nat]
    BY <1>0, ReportTypes
  <2> QED
    BY <1>0, <2>1 DEF ReportOn
<1>2. \A A \in SUBSET D : IsFiniteSet(A) /\ Cardinality(A) \in Nat
  BY FS_Subset, FS_CardinalityType
<1>3. \A k \in Nat : In(k) \in SUBSET D /\ Till(k) \in SUBSET D
  OBVIOUS
<1>4. g \in [0 .. i -> Nat]
  BY <1>0, <1>2, <1>3
<1>5. g[0] = 0
  <2>1. Till(0) = {}
    OBVIOUS
  <2> QED
    BY <1>0, <2>1, FS_EmptySet
<1> HIDE DEF counts
<1>6. s \in [1 .. i -> Nat] /\ \A k \in 1 .. i : s[k] = counts[k]
  <2>1. counts \in Seq(Nat)
    BY <1>0, <1>1, LengthIs
  <2>2. Len(counts) = B
    BY <1>0, <1>1, LengthIs
  <2>3. 1 \in 1 .. Len(counts) + 1 /\ i \in 1 - 1 .. Len(counts)
    BY <1>0, <2>2
  <2>4. /\ s \in Seq(Nat) /\ Len(s) = IF 1 <= i THEN i - 1 + 1 ELSE 0
        /\ \A k \in 1 .. i - 1 + 1 : s[k] = counts[1 + k - 1]
    BY <2>1, <2>3, SubSeqProperties
  <2>5. Len(s) = i
    BY <1>0, <2>4
  <2>6. \A k \in 1 .. i : k \in 1 .. i - 1 + 1 /\ 1 + k - 1 = k
    BY <1>0
  <2> HIDE DEF s
  <2>7. \A k \in 1 .. i : s[k] = counts[k]
    BY <2>4, <2>6
  <2>8. s \in [1 .. i -> Nat]
    BY <2>4, <2>5, LenProperties
  <2> QED
    BY <2>7, <2>8
<1> HIDE DEF s
<1>7. ASSUME NEW k \in 1 .. i PROVE g[k] = g[k - 1] + s[k]
  <2>1. k \in 1 .. B /\ k \in 0 .. i /\ k - 1 \in 0 .. i /\ k \in Nat /\ k - 1 \in Nat
    BY <1>0
  <2>2. \A b : b \in 1 .. k <=> b \in 1 .. k - 1 \/ b = k
    BY <2>1
  <2>3. k \notin 1 .. k - 1
    BY <2>1
  <2>4. Till(k) = Till(k - 1) \cup In(k) /\ Till(k - 1) \cap In(k) = {}
    BY <2>2, <2>3
  <2>5. IsFiniteSet(Till(k - 1)) /\ IsFiniteSet(In(k))
    BY <1>2, <1>3, <2>1
  <2>6. g[k] = Cardinality(Till(k)) /\ g[k - 1] = Cardinality(Till(k - 1)) /\ s[k] = Cardinality(In(k))
    BY <1>1, <1>6, <2>1
  <2> HIDE DEF Till, In, g
  <2>7. Cardinality(Till(k)) = Cardinality(Till(k - 1)) + Cardinality(In(k))
    BY <2>4, <2>5, JoinedCardinality
  <2> QED
    BY ONLY <2>6, <2>7
<1>8. g[i] = Cardinality(Till(i))
  BY <1>0
<1> HIDE DEF g, Till
<1>9. Total(s) = g[i]
  BY <1>0, <1>4, <1>5, <1>6, <1>7, TotalIs
<1> QED
  BY <1>8, <1>9 DEF UpTo, s, counts, Till

\* Every latency falls into a bucket.
LEMMA BucketIn ==
    ASSUME NEW latency
    PROVE  Bucket(latency) \in 1 .. Len(Buckets)
<1> DEFINE between == {i \in 1 .. Len(Buckets) - 1 :
                         latency >= Buckets[i] /\ latency < Buckets[i + 1]}
<1>1. Len(Buckets) \in Nat \ {0}
  BY BucketsRise
<1>2. Bucket(latency) = IF between = {} THEN Len(Buckets) ELSE CHOOSE i \in between : TRUE
  BY DEF Bucket
<1>3. between \subseteq 1 .. Len(Buckets) - 1
  OBVIOUS
<1>4. \A i \in 1 .. Len(Buckets) - 1 : i \in 1 .. Len(Buckets)
  BY <1>1
<1>5. Len(Buckets) \in 1 .. Len(Buckets)
  BY <1>1
<1> HIDE DEF between
<1>6. between # {} => (CHOOSE i \in between : TRUE) \in between
  OBVIOUS
<1> QED
  BY <1>2, <1>3, <1>4, <1>5, <1>6

PositionOf(lower) == CHOOSE i \in DOMAIN Buckets : Buckets[i] = lower

LEMMA ByHundred ==
    ASSUME NEW y \in Nat
    PROVE  /\ y \div 100 \in Int
           /\ 100 * (y \div 100) <= y /\ y < 100 * (y \div 100) + 100
OBVIOUS

\* The buckets below a percentile hold fewer requests than it asks for, those up to it enough.
LEMMA PercentileIs ==
    ASSUME NEW counts, DOMAIN counts = DOMAIN Buckets, Len(counts) = Len(Buckets),
           \A i \in 0 .. Len(Buckets) : UpTo(counts, i) \in Nat,
           UpTo(counts, 0) = 0, UpTo(counts, Len(Buckets)) # 0, NEW percent \in {50, 99}
    PROVE  LET position == PositionOf(Percentile(counts, percent))
           IN  /\ UpTo(counts, position) * 100 >= percent * UpTo(counts, Len(Buckets))
               /\ UpTo(counts, position - 1) * 100 < percent * UpTo(counts, Len(Buckets))
<1> DEFINE B == Len(Buckets)
           total == UpTo(counts, B)
           wanted == (percent * total + 99) \div 100
           reached == {i \in DOMAIN counts : UpTo(counts, i) >= wanted}
           p == Min(reached)
           position == PositionOf(Percentile(counts, percent))
<1>0. B \in Nat \ {0} /\ DOMAIN counts = 1 .. B /\ DOMAIN Buckets = 1 .. B
  BY BucketsRise
<1>1. total \in Nat \ {0}
  BY <1>0
<1> HIDE DEF total
<1>2. /\ wanted \in Nat /\ total >= wanted /\ wanted > 0
      /\ \A x \in Nat : x >= wanted <=> x * 100 >= percent * total
  <2>1. CASE percent = 50
    <3> DEFINE w == (50 * total + 99) \div 100
    <3>1. w \in Int /\ 100 * w <= 50 * total + 99 /\ 50 * total + 99 < 100 * w + 100
      <4>1. 50 * total + 99 \in Nat
        BY <1>1
      <4> QED
        BY <4>1, ByHundred
    <3> HIDE DEF w
    <3>2. w \in Nat /\ total >= w /\ w > 0 /\ \A x \in Nat : x >= w <=> x * 100 >= 50 * total
      BY <1>1, <3>1
    <3> QED
      BY <2>1, <3>2 DEF w
  <2>2. CASE percent = 99
    <3> DEFINE w == (99 * total + 99) \div 100
    <3>1. w \in Int /\ 100 * w <= 99 * total + 99 /\ 99 * total + 99 < 100 * w + 100
      <4>1. 99 * total + 99 \in Nat
        BY <1>1
      <4> QED
        BY <4>1, ByHundred
    <3> HIDE DEF w
    <3>2. w \in Nat /\ total >= w /\ w > 0 /\ \A x \in Nat : x >= w <=> x * 100 >= 99 * total
      BY <1>1, <3>1
    <3> QED
      BY <2>2, <3>2 DEF w
  <2> QED
    BY <2>1, <2>2
<1>3. Percentile(counts, percent) = IF reached = {} THEN 0 ELSE Buckets[p]
  BY DEF Percentile, BucketReaching, total
<1> HIDE DEF wanted
<1>4. B \in reached /\ reached \in SUBSET Nat
  BY <1>0, <1>2 DEF total
<1>5. p \in reached /\ \A i \in reached : p <= i
  BY <1>4, MinExists
<1>6. p \in 1 .. B /\ UpTo(counts, p) >= wanted
  BY <1>0, <1>5
<1>7. ~ (UpTo(counts, p - 1) >= wanted)
  <2>1. CASE p = 1
    <3>1. p - 1 = 0
      BY <2>1
    <3> QED
      BY <1>2, <3>1
  <2>2. CASE p # 1
    <3>1. p - 1 \in 1 .. B /\ ~ (p <= p - 1)
      BY <1>0, <1>6, <2>2
    <3>2. p - 1 \notin reached
      BY <1>5, <3>1
    <3> QED
      BY <1>0, <3>1, <3>2
  <2> QED
    BY <2>1, <2>2
<1>8. position = p
  <2>1. Percentile(counts, percent) = Buckets[p]
    BY <1>3, <1>4
  <2> HIDE DEF p
  <2>2. \A i \in DOMAIN Buckets : Buckets[i] = Buckets[p] => i = p
    BY <1>0, <1>6, BucketsRise
  <2> QED
    BY <1>0, <1>6, <2>1, <2>2 DEF PositionOf
<1>9. p \in 0 .. B /\ p - 1 \in 0 .. B
  BY <1>0, <1>6
<1> HIDE DEF p, position, reached
<1>10. UpTo(counts, p) \in Nat /\ UpTo(counts, p - 1) \in Nat
  BY <1>9
<1>11. UpTo(counts, p) * 100 >= percent * total
  BY ONLY <1>2, <1>6, <1>10
<1>12. UpTo(counts, p - 1) * 100 < percent * total
  <2>1. ~ (UpTo(counts, p - 1) * 100 >= percent * total)
    BY ONLY <1>2, <1>7, <1>10
  <2>2. percent * total \in Nat /\ UpTo(counts, p - 1) * 100 \in Nat
    BY <1>1, <1>10
  <2> QED
    BY ONLY <2>1, <2>2
<1> QED
  BY <1>8, <1>11, <1>12 DEF position, total

-----------------------------------------------------------------------------
(***************************************************************************)
(* The aggregator reads when all pods are complete, and what they made     *)
(* does not change any more; the reports it has read are those of the pods *)
(* it has read, in some order.                                             *)
(***************************************************************************)
ReportsOf(q, n, m) == [k \in 1 .. n |-> ReportOf(m[q[k]])]

AggregatorInv ==
  /\ made \in [Pods -> PodResults \cup {<<>>}]
  /\ podState \in [Pods -> {"running", "complete", "failed"}]
  /\ \A p \in Pods : podState[p] = "complete" => made[p] \in PodResults
  /\ step \in {"read", "done"} => \A p \in Pods : podState[p] = "complete"
  /\ step = "find" => inputs = <<>> /\ read = {}
  /\ step = "read" => \E n, q : Listed(q, n) /\ FirstPods(q, n) = read /\ inputs = ReportsOf(q, n, made)
  /\ aggregated # <<>> =>
       /\ step = "done"
       /\ \E n, q : /\ Listed(q, n) /\ FirstPods(q, n) = Pods
                    /\ aggregated = <<Aggregate(ReportsOf(q, n, made), Now)>>

LEMMA AggregatorInvInit == AggregatorInit => AggregatorInv
BY DEF AggregatorInit, AggregatorInv

\* A pod that ends while the aggregator has not begun to read, or has given up.
LEMMA PodEndsKeeps ==
    ASSUME AggregatorInv, NEW p \in Pods, PodEnds(p)
    PROVE  AggregatorInv'
<1>1. step \notin {"read", "done"} /\ aggregated = <<>>
  BY DEF AggregatorInv, PodEnds
<1>2. step' = step /\ aggregated' = aggregated /\ inputs' = inputs /\ read' = read
  BY DEF PodEnds
<1>3. /\ made' \in [Pods -> PodResults \cup {<<>>}]
      /\ podState' \in [Pods -> {"running", "complete", "failed"}]
      /\ \A x \in Pods : podState'[x] = "complete" => made'[x] \in PodResults
  <2>1. CASE podState' = [podState EXCEPT ![p] = "complete"]
             /\ \E these \in PodResults : made' = [made EXCEPT ![p] = these]
    BY <2>1 DEF AggregatorInv
  <2>2. CASE podState' = [podState EXCEPT ![p] = "failed"] /\ made' = made
    BY <2>2 DEF AggregatorInv
  <2> QED
    BY <2>1, <2>2 DEF PodEnds
<1>4. step = "find" => inputs = <<>> /\ read = {}
  BY DEF AggregatorInv
<1> QED
  BY <1>1, <1>2, <1>3, <1>4 DEF AggregatorInv

LEMMA FindJobKeeps ==
    ASSUME AggregatorInv, FindJob
    PROVE  AggregatorInv'
<1>1. /\ step = "find" /\ made' = made /\ podState' = podState /\ inputs' = inputs
      /\ read' = read /\ aggregated' = aggregated
      /\ step' \in {"read", "error"}
      /\ step' = "read" => \A p \in Pods : podState[p] = "complete"
  BY DEF FindJob
<1>2. inputs = <<>> /\ read = {} /\ aggregated = <<>>
  BY <1>1 DEF AggregatorInv
<1>3. \E n, q : Listed(q, n) /\ FirstPods(q, n) = read /\ inputs = ReportsOf(q, n, made)
  <2>1. Listed(<<>>, 0) /\ FirstPods(<<>>, 0) = {} /\ ReportsOf(<<>>, 0, made) = <<>>
    BY DEF Listed, FirstPods, ReportsOf
  <2> QED
    BY <1>2, <2>1
<1>4. (\E n, q : Listed(q, n) /\ FirstPods(q, n) = read /\ inputs = ReportsOf(q, n, made))'
  <2>1. PICK n, q : Listed(q, n) /\ FirstPods(q, n) = read /\ inputs = ReportsOf(q, n, made)
    BY <1>3
  <2>2. Listed(q, n) /\ FirstPods(q, n) = read' /\ inputs' = ReportsOf(q, n, made')
    BY <1>1, <2>1
  <2>3. \E k, t : Listed(t, k) /\ FirstPods(t, k) = read' /\ inputs' = ReportsOf(t, k, made')
    BY <2>2
  <2> QED
    BY <2>3
<1> QED
  BY <1>1, <1>2, <1>4 DEF AggregatorInv

LEMMA AppendIs ==
    ASSUME NEW S, NEW n \in Nat, NEW s \in [1 .. n -> S], NEW x \in S
    PROVE  Append(s, x) = [k \in 1 .. n + 1 |-> IF k = n + 1 THEN x ELSE s[k]]
<1>1. s \in Seq(S) /\ Len(s) = n
  BY LengthIs
<1>2. /\ Append(s, x) \in Seq(S) /\ Len(Append(s, x)) = n + 1
      /\ Append(s, x)[n + 1] = x
      /\ \A i \in 1 .. n : Append(s, x)[i] = s[i]
  BY <1>1, AppendProperties
<1>4. \A k \in 1 .. n + 1 : k \in 1 .. n \/ k = n + 1
  OBVIOUS
<1> DEFINE a == Append(s, x)
           b == [k \in 1 .. n + 1 |-> IF k = n + 1 THEN x ELSE s[k]]
<1>5. \A k \in 1 .. n + 1 : a[k] = b[k]
  BY <1>2, <1>4
<1>6. a \in [1 .. n + 1 -> S]
  BY <1>2, LenProperties
<1>7. b \in [1 .. n + 1 -> S]
  BY <1>4
<1> HIDE DEF a, b
<1>8. a = b
  BY <1>5, <1>6, <1>7
<1> QED
  BY <1>8 DEF a, b

\* One more pod in the list, and its report at the end of the reports.
LEMMA ListedMore ==
    ASSUME NEW m, NEW n, NEW q, Listed(q, n), NEW p \in Pods \ FirstPods(q, n)
    PROVE  \E r : /\ Listed(r, n + 1) /\ FirstPods(r, n + 1) = FirstPods(q, n) \cup {p}
                  /\ ReportsOf(r, n + 1, m) = Append(ReportsOf(q, n, m), ReportOf(m[p]))
<1> DEFINE r == [k \in 1 .. n + 1 |-> IF k = n + 1 THEN p ELSE q[k]]
           s == ReportsOf(q, n, m)
           x == ReportOf(m[p])
           S == {s[k] : k \in 1 .. n} \cup {x}
<1>1. n \in Nat /\ q \in [1 .. n -> Pods] /\ \A i, j \in 1 .. n : q[i] = q[j] => i = j
  BY DEF Listed
<1>2. /\ n + 1 \in Nat /\ n + 1 \in 1 .. n + 1 /\ n + 1 \notin 1 .. n
      /\ \A k : k \in 1 .. n + 1 <=> k \in 1 .. n \/ k = n + 1
  BY <1>1
<1>3. r[n + 1] = p /\ (\A k \in 1 .. n : r[k] = q[k]) /\ r \in [1 .. n + 1 -> Pods]
  BY <1>1, <1>2
<1>4. \A k \in 1 .. n : q[k] # p
  BY DEF FirstPods
<1> HIDE DEF r
<1>5. \A i, j \in 1 .. n + 1 : r[i] = r[j] => i = j
  BY <1>1, <1>2, <1>3, <1>4
<1>6. FirstPods(r, n + 1) = FirstPods(q, n) \cup {p}
  BY <1>2, <1>3 DEF FirstPods
<1>7. s \in [1 .. n -> S] /\ x \in S
  BY DEF ReportsOf
<1>8. \A k \in 1 .. n : s[k] = ReportOf(m[q[k]])
  BY DEF ReportsOf
<1> HIDE DEF s, x, S
<1>9. Append(s, x) = [k \in 1 .. n + 1 |-> IF k = n + 1 THEN x ELSE s[k]]
  BY <1>1, <1>7, AppendIs
<1>10. \A k \in 1 .. n + 1 : ReportOf(m[r[k]]) = IF k = n + 1 THEN x ELSE s[k]
  BY <1>2, <1>3, <1>8 DEF x
<1>11. ReportsOf(r, n + 1, m) = Append(s, x)
  BY <1>9, <1>10 DEF ReportsOf
<1> QED
  BY <1>1, <1>2, <1>3, <1>5, <1>6, <1>11 DEF Listed, s, x

LEMMA ReadLogKeeps ==
    ASSUME AggregatorInv, NEW p \in Pods, ReadLog(p)
    PROVE  AggregatorInv'
<1>1. /\ step = "read" /\ p \notin read
      /\ made' = made /\ podState' = podState /\ aggregated' = aggregated
  BY DEF ReadLog
<1>2. aggregated = <<>>
  BY <1>1 DEF AggregatorInv
<1>3. CASE step' = "error" /\ read' = read /\ inputs' = inputs
  BY <1>1, <1>2, <1>3 DEF AggregatorInv
<1>4. CASE step' = step /\ read' = read \cup {p} /\ inputs' = Append(inputs, ReportOf(made[p]))
  <2>1. PICK n, q : Listed(q, n) /\ FirstPods(q, n) = read /\ inputs = ReportsOf(q, n, made)
    BY <1>1 DEF AggregatorInv
  <2>2. PICK r : /\ Listed(r, n + 1) /\ FirstPods(r, n + 1) = FirstPods(q, n) \cup {p}
                 /\ ReportsOf(r, n + 1, made) = Append(ReportsOf(q, n, made), ReportOf(made[p]))
    BY <1>1, <2>1, ListedMore
  <2>3. Listed(r, n + 1) /\ FirstPods(r, n + 1) = read' /\ inputs' = ReportsOf(r, n + 1, made)
    BY <1>4, <2>1, <2>2
  <2>4. ReportsOf(r, n + 1, made) = ReportsOf(r, n + 1, made')
    BY <1>1
  <2>5. \E k, t : Listed(t, k) /\ FirstPods(t, k) = read' /\ inputs' = ReportsOf(t, k, made')
    BY <2>3, <2>4
  <2>6. (\E k, t : Listed(t, k) /\ FirstPods(t, k) = read /\ inputs = ReportsOf(t, k, made))'
    BY <2>5
  <2> QED
    BY <1>1, <1>2, <1>4, <2>6 DEF AggregatorInv
<1> QED
  BY <1>3, <1>4 DEF ReadLog

LEMMA AggregateMetricsKeeps ==
    ASSUME AggregatorInv, AggregateMetrics
    PROVE  AggregatorInv'
<1>1. /\ step = "read" /\ read = Pods /\ step' = "done"
      /\ aggregated' = <<Aggregate(inputs, Now)>>
      /\ made' = made /\ podState' = podState /\ inputs' = inputs /\ read' = read
  BY DEF AggregateMetrics
<1>2. PICK n, q : Listed(q, n) /\ FirstPods(q, n) = read /\ inputs = ReportsOf(q, n, made)
  BY <1>1 DEF AggregatorInv
<1>3. aggregated' = <<Aggregate(ReportsOf(q, n, made'), Now)>>
  BY <1>1, <1>2
<1>4. (\E k, t : /\ Listed(t, k) /\ FirstPods(t, k) = Pods
                 /\ aggregated = <<Aggregate(ReportsOf(t, k, made), Now)>>)'
  BY <1>1, <1>2, <1>3
<1> QED
  BY <1>1, <1>4 DEF AggregatorInv

(***************************************************************************)
(* THEOREM: no pod makes a request while the logs are read, and the        *)
(* reports read so far are those of different pods, one per log            *)
(* (k8s.go, aggregator.go).                                                *)
(***************************************************************************)
THEOREM AggregatorInvariant == AggregatorSpec => []AggregatorInv
<1>1. AggregatorInv /\ [AggregatorNext]_aggregatorVars => AggregatorInv'
  <2> SUFFICES ASSUME AggregatorInv, [AggregatorNext]_aggregatorVars PROVE AggregatorInv'
    OBVIOUS
  <2>1. CASE UNCHANGED aggregatorVars
    BY <2>1 DEF aggregatorVars, AggregatorInv
  <2>2. CASE AggregatorNext
    BY <2>2, FindJobKeeps, AggregateMetricsKeeps, PodEndsKeeps, ReadLogKeeps DEF AggregatorNext
  <2> QED
    BY <2>1, <2>2
<1> QED
  BY <1>1, AggregatorInvInit, PTL DEF AggregatorSpec

\* A list of all the pods, each once, has as many places with some property as
\* there are pods with it.
LEMMA ListedCount ==
    ASSUME NEW n, NEW q, Listed(q, n), FirstPods(q, n) = Pods, NEW S, S \subseteq Pods
    PROVE  Cardinality({k \in 1 .. n : q[k] \in S}) = Cardinality(S)
<1> DEFINE T == {k \in 1 .. n : q[k] \in S}
           f == [k \in T |-> q[k]]
<1>1. n \in Nat /\ q \in [1 .. n -> Pods] /\ \A i, j \in 1 .. n : q[i] = q[j] => i = j
  BY DEF Listed
<1>2. f \in Bijection(T, S)
  <2>1. f \in [T -> S] /\ \A i, j \in T : f[i] = f[j] => i = j
    BY <1>1
  <2>2. \A s \in S : \E k \in T : f[k] = s
    BY DEF FirstPods
  <2> QED
    BY <2>1, <2>2 DEF Bijection, Injection, Surjection, IsInjective
<1>3. IsFiniteSet(T)
  BY <1>1, FS_Interval, FS_Subset
<1>4. ExistsBijection(T, S)
  BY <1>2 DEF ExistsBijection
<1> HIDE DEF T
<1>5. Cardinality(T) = Cardinality(S)
  BY <1>3, <1>4, FS_Bijection
<1> QED
  BY <1>5 DEF T

\* Each error is listed once per pod whose report has it.
LEMMA ErrorsPerPod ==
    ASSUME NEW m, NEW n, NEW q, Listed(q, n), FirstPods(q, n) = Pods, NEW W,
           UNION {r.errors : r \in Range(ReportsOf(q, n, m))} = W
    PROVE  ErrorsListed(ReportsOf(q, n, m))
             = [e \in W |-> Cardinality({p \in Pods : e \in ReportOf(m[p]).errors})]
<1> DEFINE ins == ReportsOf(q, n, m)
<1>1. DOMAIN ins = 1 .. n /\ \A k \in 1 .. n : ins[k] = ReportOf(m[q[k]])
  BY DEF ReportsOf
<1>2. \A k \in 1 .. n : q[k] \in Pods
  BY DEF Listed
<1>3. ASSUME NEW e
      PROVE  Cardinality({k \in DOMAIN ins : e \in ins[k].errors})
               = Cardinality({p \in Pods : e \in ReportOf(m[p]).errors})
  <2> DEFINE S == {p \in Pods : e \in ReportOf(m[p]).errors}
  <2>1. {k \in DOMAIN ins : e \in ins[k].errors} = {k \in 1 .. n : q[k] \in S}
    BY <1>1, <1>2
  <2>2. Cardinality({k \in 1 .. n : q[k] \in S}) = Cardinality(S)
    BY ListedCount
  <2> QED
    BY <2>1, <2>2
<1>4. ErrorsListed(ins) = [e \in W |-> Cardinality({k \in DOMAIN ins : e \in ins[k].errors})]
  BY DEF ErrorsListed
<1> HIDE DEF ins
<1> QED
  BY <1>3, <1>4 DEF ins

LEMMA AggregatorInvShows ==
    ASSUME AggregatorInv
    PROVE  AggregateIsUnion
<1> SUFFICES ASSUME aggregated # <<>>
             PROVE  /\ \A field \in DOMAIN OneReport \ {"end", "errors"} :
                         aggregated[1][field] = OneReport[field]
                    /\ aggregated[1].errors =
                         [e \in OneReport.errors |->
                            Cardinality({p \in Pods : e \in ReportOf(made[p]).errors})]
                    /\ \A percent \in {50, 99} :
                         LET lower == IF percent = 50 THEN aggregated[1].p50 ELSE aggregated[1].p99
                             counts == aggregated[1].counts
                             position == CHOOSE i \in DOMAIN Buckets : Buckets[i] = lower
                         IN /\ UpTo(counts, position) * 100 >= percent * aggregated[1].requests
                            /\ UpTo(counts, position - 1) * 100 < percent * aggregated[1].requests
  BY DEF AggregateIsUnion
<1>1. PICK n, q : /\ Listed(q, n) /\ FirstPods(q, n) = Pods
                  /\ aggregated = <<Aggregate(ReportsOf(q, n, made), Now)>>
  BY DEF AggregatorInv
<1>2. made \in [Pods -> PodResults]
  BY DEF AggregatorInv
<1> DEFINE ins == ReportsOf(q, n, made)
           A == Aggregate(ins, Now)
           W == PodsReport(Pods, made)
           D == Rows(Pods, made)
           f == ResultAt(made)
<1>3. aggregated[1] = A
  BY <1>1
<1>4. OneReport = W
  BY <1>2, OneReportIs
<1>4a. ASSUME UNION {r.errors : r \in Range(ins)} = W.errors
       PROVE  A.errors = [e \in W.errors |-> Cardinality({p \in Pods : e \in ReportOf(made[p]).errors})]
  <2>1. A.errors = ErrorsListed(ins)
    BY DEF Aggregate
  <2> QED
    BY <1>1, <1>4a, <2>1, ErrorsPerPod
<1>5. PICK rep : Combining(rep, ins, n) /\ rep[n] = W
  <2>1. ins = [k \in 1 .. n |-> ReportOf(made[q[k]])]
    BY DEF ReportsOf
  <2> HIDE DEF ins
  <2> QED
    BY <1>1, <1>2, <2>1, PodsCombine
<1> HIDE DEF ins
<1>6. /\ A.requests = W.requests /\ A.total = W.total /\ A.codes = W.codes /\ A.counts = W.counts
      /\ A.max = W.max /\ A.min = W.min /\ A.earliest = W.earliest /\ A.latest = W.latest
      /\ UNION {r.errors : r \in Range(ins)} = W.errors
  BY <1>5, AggregateCounts, AggregateExtremes
<1>7. A.success = W.success
  BY <1>2, <1>6, AggregateSuccess
<1>8. A.p50 = Percentile(A.counts, 50) /\ A.p99 = Percentile(A.counts, 99)
  BY DEF Aggregate
<1>9. DOMAIN W = {"requests", "codes", "total", "max", "min", "earliest", "latest", "end",
                  "success", "errors", "counts"}
  BY DEF PodsReport, ReportOn
<1>10. W = ReportOn(D, f) /\ IsFiniteSet(D) /\ D # {}
  <2>1. PICK p \in Pods : TRUE
    BY AggregatorAssumption
  <2>2. Rows({p}, made) # {} /\ Rows({p}, made) \subseteq D
    BY <1>2, PodRows DEF Rows
  <2> QED
    BY <1>2, <2>2, RowsFinite DEF PodsReport
<1> HIDE DEF A, W, D, f
<1> DEFINE counts == W.counts
           B == Len(Buckets)
<1>11. B \in Nat \ {0} /\ DOMAIN Buckets = 1 .. B
  BY BucketsRise
<1>12. \A i \in 0 .. B : UpTo(counts, i) = Cardinality({u \in D : Bucket(f[u].latency) \in 1 .. i})
  BY <1>10, UpToIs
<1>13. DOMAIN counts = DOMAIN Buckets /\ Len(counts) = B
  <2>1. counts \in [1 .. B -> Nat]
    BY <1>10, <1>11, ReportTypes
  <2> HIDE DEF counts, B
  <2> QED
    BY <1>11, <2>1, LengthIs
<1>14. \A i \in 0 .. B : UpTo(counts, i) \in Nat
  <2> TAKE i \in 0 .. B
  <2>1. IsFiniteSet({u \in D : Bucket(f[u].latency) \in 1 .. i})
    BY <1>10, FS_Subset
  <2> QED
    BY <1>12, <2>1, FS_CardinalityType
<1>15. UpTo(counts, 0) = 0
  <2>1. {u \in D : Bucket(f[u].latency) \in 1 .. 0} = {}
    OBVIOUS
  <2>2. 0 \in 0 .. B
    BY <1>11
  <2> QED
    BY <1>12, <2>1, <2>2, FS_EmptySet
<1>16. UpTo(counts, B) = Cardinality(D) /\ Cardinality(D) # 0 /\ W.requests = Cardinality(D)
  <2>1. {u \in D : Bucket(f[u].latency) \in 1 .. B} = D
    BY BucketIn
  <2>2. B \in 0 .. B
    BY <1>11
  <2>3. W.requests = Cardinality(D)
    BY <1>10 DEF ReportOn
  <2>4. Cardinality(D) # 0
    BY <1>10, FS_EmptySet
  <2> QED
    BY <1>12, <2>1, <2>2, <2>3, <2>4
<1> HIDE DEF counts
<1>17. ASSUME NEW percent \in {50, 99}
       PROVE  LET position == PositionOf(Percentile(counts, percent))
              IN /\ UpTo(counts, position) * 100 >= percent * W.requests
                 /\ UpTo(counts, position - 1) * 100 < percent * W.requests
  <2>1. /\ DOMAIN counts = DOMAIN Buckets /\ Len(counts) = Len(Buckets)
        /\ \A i \in 0 .. Len(Buckets) : UpTo(counts, i) \in Nat
        /\ UpTo(counts, 0) = 0 /\ UpTo(counts, Len(Buckets)) # 0
        /\ percent \in {50, 99}
    BY <1>13, <1>14, <1>15, <1>16
  <2>2. UpTo(counts, Len(Buckets)) = W.requests
    BY <1>16
  <2>3. LET position == PositionOf(Percentile(counts, percent))
        IN /\ UpTo(counts, position) * 100 >= percent * UpTo(counts, Len(Buckets))
           /\ UpTo(counts, position - 1) * 100 < percent * UpTo(counts, Len(Buckets))
    BY ONLY <2>1, PercentileIs
  <2> QED
    BY ONLY <2>2, <2>3
<1>18. \A field \in DOMAIN OneReport \ {"end", "errors"} : aggregated[1][field] = OneReport[field]
  BY <1>3, <1>4, <1>6, <1>7, <1>9
<1>18a. aggregated[1].errors =
         [e \in OneReport.errors |-> Cardinality({p \in Pods : e \in ReportOf(made[p]).errors})]
  BY <1>3, <1>4, <1>6, <1>4a
<1>19. ASSUME NEW percent \in {50, 99}
       PROVE  (IF percent = 50 THEN aggregated[1].p50 ELSE aggregated[1].p99) = Percentile(counts, percent)
  BY <1>3, <1>6, <1>8 DEF counts
<1>20. aggregated[1].counts = counts /\ aggregated[1].requests = W.requests
  BY <1>3, <1>6 DEF counts
<1>21. ASSUME NEW percent \in {50, 99}
       PROVE  LET lower == IF percent = 50 THEN aggregated[1].p50 ELSE aggregated[1].p99
                  position == PositionOf(lower)
              IN /\ UpTo(aggregated[1].counts, position) * 100 >= percent * aggregated[1].requests
                 /\ UpTo(aggregated[1].counts, position - 1) * 100 < percent * aggregated[1].requests
  BY ONLY <1>17, <1>19, <1>20
<1> QED
  BY <1>18, <1>21, <1>18a DEF PositionOf

(***************************************************************************)
(* THEOREM: for any number of pods, any requests of theirs and any order   *)
(* of their logs, the combined report, but for the end of the attack, is   *)
(* the one a single generator would have counted for all the requests,     *)
(* each error listed once per pod that met it, and its percentiles are the *)
(* first buckets that hold enough of the requests (aggregateMetrics(),     *)
(* histogramPercentile()).                                                 *)
(***************************************************************************)
THEOREM AggregateAlwaysUnion == AggregatorSpec => []AggregateIsUnion
BY AggregatorInvariant, AggregatorInvShows, PTL
=============================================================================
