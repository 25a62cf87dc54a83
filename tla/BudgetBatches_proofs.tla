------------------------- MODULE BudgetBatches_proofs -------------------------
(***************************************************************************)
(* The tables that the data generator writes, how the bidder reads its     *)
(* budgets from them, and the devices that the load generator asks for.    *)
(***************************************************************************)
EXTENDS DeviceNumbers, FoldTheorems

-----------------------------------------------------------------------------
(***************************************************************************)
(* The inductive invariant.                                                *)
(***************************************************************************)
Made(c) == Range(Records(c))
Ids(c) == {r.id : r \in Made(c)}
Resolved == {Resolve(c) : c \in Configs}

\* The configurations of the runs that fill the same table.
Like(c) == {d \in Resolved : d.Type = c.Type /\ d.Output = c.Output}
AllIds(c) == UNION {Ids(d) : d \in Like(c)}

Steps == {"take", "put", "bins", "limit", "close", "done"}
Writers(c) == [pc : Steps, record : Made(c) \cup {<<>>}, buffer : Seq(Made(c))]

DataTypeOK ==
  /\ cfg \in Resolved
  /\ generation \in Nat
  /\ offered \in Seq(Made(cfg))
  /\ writers \in Seq(Writers(cfg))
  /\ last \in BOOLEAN
  /\ returned \in {"none", "running", "nil", "error"}
  /\ list \in Seq(AllIds(cfg))

\* A row is one of those that some run made for its ID, and a row of this run
\* one that this run made.
IsRow(id, c) ==
  \E r \in Made(c) :
    r.id = id /\ stored[id] = [generation |-> stored[id].generation, data |-> r.data]

RowsAreMade ==
  /\ IsFiniteSet(DOMAIN stored)
  /\ \A id \in DOMAIN stored :
       /\ stored[id].generation \in 0 .. generation
       /\ \E c \in Like(cfg) : IsRow(id, c)
       /\ stored[id].generation = generation => IsRow(id, cfg)

\* What the step of a writer says of its record, its buffer and the channel.
WritersKeep ==
  /\ returned \in {"running", "nil"} => writers # <<>>
  /\ returned = "nil" => ~last
  /\ \A w \in DOMAIN writers :
       /\ returned # "running" => writers[w].pc = "done"
       /\ writers[w].pc \in {"put", "bins"} => writers[w].record \in Made(cfg)
       /\ cfg.Output = "aerospike" =>
            writers[w].pc \notin {"limit", "close"} /\ writers[w].buffer = <<>>
       /\ ~last /\ writers[w].pc \in {"close", "done"} => offered = <<>>
       /\ ~last /\ writers[w].pc = "done" => writers[w].buffer = <<>>

\* Unless a writer failed, no record of the run is lost: it is on the channel,
\* with a writer, or written.
HeldBy(w, r) ==
  \/ writers[w].pc \in {"put", "bins"} /\ writers[w].record = r
  \/ r \in Range(writers[w].buffer)

NothingLost ==
  returned \in {"running", "nil"} /\ ~last =>
    \A r \in Made(cfg) :
      r \in Range(offered) \/ (\E w \in DOMAIN writers : HeldBy(w, r)) \/ Written(r.id)

\* The list of keys: a batch is listed before it is stored, so what was written
\* since the keys were cleared is listed.
Batches == cfg.Output = "aerospike" /\ cfg.Type = "budgets"

Listed ==
  Batches =>
    /\ DOMAIN stored \subseteq Range(list) \cup orphans
    /\ \A w \in DOMAIN writers : writers[w].pc = "bins" => writers[w].record.id \in Range(list)

\* The keys of the runs that returned nil.
Filled == cfg.Type = "devices" => filled \subseteq DOMAIN stored

\* A batch that a read owes is still to be read or has been, and what is stored
\* of it has only become newer.
Newer(new, old) ==
  /\ new.generation \in Nat /\ old.generation \in Nat
  /\ new = old \/ new.generation > old.generation

WasRead(id) == id \in DOMAIN consumed /\ Newer(consumed[id], owed[id])

Reading ==
  /\ reader \in [pc : {"idle", "getAll", "scan", "nil", "error"}, todo : Seq(AllIds(cfg))]
  /\ reader.pc = "nil" => reader.todo = <<>>
  /\ reader.pc = "scan" => reader.todo \in Seq(DOMAIN stored)
  /\ reader.pc \in {"getAll", "scan", "nil"} =>
       \A id \in DOMAIN owed :
         /\ id \in DOMAIN stored /\ Newer(stored[id], owed[id])
         /\ id \in Range(reader.todo) \/ WasRead(id)

OnlyBudgetsAreRead == ~Batches => reader.pc = "idle"

DataInv ==
  /\ cfg \in Resolved
  /\ OnlyBudgetsAreRead
  /\ DataTypeOK /\ RowsAreMade /\ WritersKeep /\ NothingLost /\ Listed /\ Filled /\ Reading

-----------------------------------------------------------------------------
(***************************************************************************)
(* The configurations and the records.                                     *)
(***************************************************************************)
Positive == Nat \ {0}
Resolutions ==
  [Type : {"budgets", "campaigns", "devices", "audiences"}, Output : {"dynamodb", "aerospike"},
   KeyLow : Nat, KeyHigh : Nat, MinAudiences : Nat, MaxAudiences : Nat, MaxAudienceID : Nat,
   Concurrency : Positive, BudgetBatchSize : Positive]

\* Config.Resolve() leaves no batch size and no concurrency out, and puts the
\* limits of the audiences in order.
LEMMA ResolvedType ==
    ASSUME NEW c \in Resolved
    PROVE  /\ c \in Resolutions
           /\ c.MinAudiences <= c.MaxAudiences /\ c.MaxAudiences <= c.MaxAudienceID
<1>1. PICK f \in Configs : c = Resolve(f)
  BY DEF Resolved
<1> DEFINE most == IF f.MinAudiences = 0 /\ f.MaxAudiences = 0 THEN Default.MaxAudiences ELSE f.MaxAudiences
           id == Unless(f.MaxAudienceID, Default.MaxAudienceID)
           C == [f EXCEPT !.KeyLow = Unless(@, Default.KeyLow),
                          !.KeyHigh = Unless(@, Default.KeyHigh),
                          !.MaxAudiences = most,
                          !.MinAudiences = Least(Unless(@, Default.MinAudiences), most),
                          !.MaxAudienceID = IF id < most THEN most ELSE id,
                          !.Concurrency = IF @ < 1 THEN Default.Concurrency ELSE @,
                          !.BudgetBatchSize = Unless(@, Default.BudgetBatchSize)]
<1>2. c = C
  BY <1>1 DEF Resolve
<1>3. f \in [Type : {"budgets", "campaigns", "devices", "audiences"}, Output : {"dynamodb", "aerospike"},
             KeyLow : Nat, KeyHigh : Nat, MinAudiences : Nat, MaxAudiences : Nat, MaxAudienceID : Nat,
             Concurrency : Nat, BudgetBatchSize : Nat]
  BY DataGenAssumption
<1>4. /\ Unless(f.KeyLow, Default.KeyLow) \in Nat /\ Unless(f.KeyHigh, Default.KeyHigh) \in Nat
      /\ most \in Nat /\ id \in Nat /\ Unless(f.MinAudiences, Default.MinAudiences) \in Nat
      /\ Unless(f.BudgetBatchSize, Default.BudgetBatchSize) \in Positive
      /\ (IF f.Concurrency < 1 THEN Default.Concurrency ELSE f.Concurrency) \in Positive
  BY <1>3, DataGenAssumption DEF Unless, Positive
<1> HIDE DEF most, id
<1>5. /\ Least(Unless(f.MinAudiences, Default.MinAudiences), most) \in Nat
      /\ Least(Unless(f.MinAudiences, Default.MinAudiences), most) <= most
      /\ (IF id < most THEN most ELSE id) \in Nat /\ most <= (IF id < most THEN most ELSE id)
  BY <1>4 DEF Least
<1>6. C \in Resolutions
  BY <1>3, <1>4, <1>5 DEF Resolutions
<1>7. /\ C.MaxAudiences = most
      /\ C.MinAudiences = Least(Unless(f.MinAudiences, Default.MinAudiences), most)
      /\ C.MaxAudienceID = (IF id < most THEN most ELSE id)
  BY <1>3
<1> QED
  BY <1>2, <1>5, <1>6, <1>7

LEMMA KeysSeq ==
    ASSUME NEW c \in Resolved
    PROVE  /\ Keys(c) \in Seq(Nat)
           /\ Len(Keys(c)) = IF c.KeyHigh + 1 >= c.KeyLow THEN (c.KeyHigh + 1) - c.KeyLow ELSE 0
           /\ DOMAIN Keys(c) = 1 .. Len(Keys(c))
           /\ \A i \in DOMAIN Keys(c) : Keys(c)[i] = (c.KeyLow + i) - 1
<1> DEFINE n == (c.KeyHigh + 1) - c.KeyLow
           m == IF n >= 0 THEN n ELSE 0
<1>1. c.KeyLow \in Nat /\ c.KeyHigh \in Nat
  BY ResolvedType DEF Resolutions
<1>2. m \in Nat /\ 1 .. n = 1 .. m
  BY <1>1
<1>3. Keys(c) = [i \in 1 .. m |-> (c.KeyLow + i) - 1]
  BY <1>1, <1>2 DEF Keys
<1>4. \A i \in 1 .. m : (c.KeyLow + i) - 1 \in Nat
  BY <1>1, <1>2
<1> HIDE DEF m
<1>5. Keys(c) \in Seq(Nat) /\ Len(Keys(c)) = m
  BY <1>2, <1>3, <1>4
<1> QED
  BY <1>1, <1>2, <1>3, <1>5 DEF m

\* The keys are the range of the configuration.
LEMMA KeysCover ==
    ASSUME NEW c \in Resolved, NEW key \in c.KeyLow .. c.KeyHigh
    PROVE  \E i \in 1 .. Len(Keys(c)) : Keys(c)[i] = key
<1> DEFINE i == key - c.KeyLow + 1
<1>1. c.KeyLow \in Nat /\ c.KeyHigh \in Nat /\ key \in Int
  BY ResolvedType DEF Resolutions
<1>2. Len(Keys(c)) = (c.KeyHigh + 1) - c.KeyLow
  BY <1>1, KeysSeq
<1>3. i \in 1 .. Len(Keys(c))
  BY <1>1, <1>2
<1>4. i \in DOMAIN Keys(c)
  BY <1>3, KeysSeq
<1>5. Keys(c)[i] = (c.KeyLow + i) - 1
  BY <1>4, KeysSeq
<1> QED
  BY <1>1, <1>3, <1>5

-----------------------------------------------------------------------------
(***************************************************************************)
(* Quotients and remainders, and the audiences of a device.                *)
(***************************************************************************)
LEMMA Quotient ==
    ASSUME NEW k \in Nat \ {0}, NEW a \in Nat
    PROVE  a \div k \in Nat /\ (a \div k) * k <= a /\ a < (a \div k) * k + k
OBVIOUS

LEMMA Times ==
    ASSUME NEW k \in Nat \ {0}, NEW x \in Nat \ {0}, NEW y \in Nat \ {0}
    PROVE  /\ x * k \in Nat /\ (x - 1) * k \in Nat /\ x * k = (x - 1) * k + k
           /\ x <= y => x * k <= y * k
<1>1. PICK d \in Nat : x = d + 1
  <2>1. x - 1 \in Nat /\ x = (x - 1) + 1
    OBVIOUS
  <2> QED
    BY <2>1
<1>2. d * k \in Nat /\ (d + 1) * k = d * k + k
  OBVIOUS
<1>3. x - 1 = d
  BY <1>1
<1>4. ASSUME x <= y PROVE x * k <= y * k
  <2>1. PICK e \in Nat : y = x + e
    <3>1. y - x \in Nat /\ y = x + (y - x)
      BY <1>4
    <3> QED
      BY <3>1
  <2>2. e * k \in Nat /\ x * k \in Nat /\ (x + e) * k = x * k + e * k
    OBVIOUS
  <2> QED
    BY <2>1, <2>2
<1> QED
  BY <1>1, <1>2, <1>3, <1>4

LEMMA Remainder ==
    ASSUME NEW k \in Nat \ {0}, NEW a \in Nat
    PROVE  a % k \in 0 .. k - 1 /\ a = ((a \div k) * k) + (a % k)
OBVIOUS

\* Numbers closer than k have different remainders.
LEMMA RemaindersDiffer ==
    ASSUME NEW k \in Nat \ {0}, NEW a \in Nat, NEW b \in Nat, a < b, b - a < k
    PROVE  a % k # b % k
<1> SUFFICES ASSUME a % k = b % k PROVE FALSE
  OBVIOUS
<1> DEFINE p == a \div k
           q == b \div k
<1>1. p \in Nat /\ q \in Nat /\ a % k \in Nat /\ a = (p * k) + (a % k) /\ b = (q * k) + (b % k)
  <2>1. p \in Nat /\ q \in Nat
    BY Quotient
  <2>2. a % k \in 0 .. k - 1 /\ a = (p * k) + (a % k)
    BY Remainder
  <2>3. b = (q * k) + (b % k)
    BY Remainder
  <2>4. a % k \in Nat
    BY <2>2
  <2> HIDE DEF p, q
  <2> QED
    BY <2>1, <2>2, <2>3, <2>4
<1>2. p * k \in Nat /\ q * k \in Nat /\ q * k - p * k = b - a
  <2> DEFINE s == p * k
             t == q * k
             u == a % k
  <2>1. s \in Nat /\ t \in Nat
    BY <1>1
  <2>2. a = s + u /\ b = t + u /\ u \in Nat
    BY <1>1
  <2> HIDE DEF s, t, u
  <2>3. t - s = b - a
    BY <2>1, <2>2
  <2> QED
    BY <2>1, <2>3 DEF s, t
<1> HIDE DEF p, q
<1>3. p < q
  <2>1. (q + 1) * k = q * k + k /\ (p + 1) * k = p * k + k
    BY <1>1, Times
  <2>2. q <= p => (q + 1) * k <= (p + 1) * k
    BY <1>1, Times
  <2> QED
    BY <1>1, <1>2, <2>1, <2>2
<1>4. q * k >= p * k + k
  <2>1. q \in Nat \ {0} /\ p + 1 \in Nat \ {0} /\ p + 1 <= q
    BY <1>1, <1>3
  <2>2. (p + 1) * k <= q * k /\ (p + 1) * k = ((p + 1) - 1) * k + k /\ (p + 1) - 1 = p
    BY <1>1, <2>1, Times
  <2> QED
    BY <1>2, <2>2
<1> QED
  BY <1>2, <1>4

\* A device has different audiences, as many as the limits say.
LEMMA AudiencesDiffer ==
    ASSUME NEW c \in Resolved, NEW seed \in Nat
    PROVE  /\ AudiencesOf(seed, c) \in Seq(Nat)
           /\ IsInjective(AudiencesOf(seed, c))
           /\ Len(AudiencesOf(seed, c)) \in c.MinAudiences .. c.MaxAudiences
<1> DEFINE low == c.MinAudiences
           high == c.MaxAudiences
           m == c.MaxAudienceID
           n == (seed % (high - low + 1)) + low
           A == AudiencesOf(seed, c)
<1>1. low \in Nat /\ high \in Nat /\ m \in Nat /\ low <= high /\ high <= m
  BY ResolvedType DEF Resolutions
<1>2. n \in Nat /\ n \in low .. high
  <2> DEFINE d == high - low + 1
             u == seed % d
  <2>1. d \in Nat \ {0}
    BY <1>1
  <2> HIDE DEF d
  <2>2. u \in 0 .. d - 1
    BY <2>1, Remainder
  <2>3. u \in Int /\ 0 <= u /\ u <= high - low
    BY <1>1, <2>1, <2>2 DEF d
  <2> HIDE DEF u
  <2>4. u + low \in Nat /\ u + low \in low .. high
    BY <1>1, <2>3
  <2> QED
    BY <2>4 DEF u, d
<1>3. A = [i \in 1 .. n |-> ((seed + i - 1) % m) + 1]
  BY DEF AudiencesOf
<1> HIDE DEF n, A
<1>4. Len(A) = n /\ DOMAIN A = 1 .. n
  BY <1>2, <1>3
<1>5. ASSUME NEW i \in 1 .. n, NEW j \in 1 .. n, i < j PROVE A[i] # A[j]
  <2> DEFINE a == seed + i - 1
             b == seed + j - 1
  <2>1. m \in Nat \ {0} /\ a \in Nat /\ b \in Nat /\ a < b /\ b - a < m
    BY <1>1, <1>2, <1>5
  <2> HIDE DEF a, b, m
  <2>2. a % m # b % m /\ a % m \in Int /\ b % m \in Int
    <3>1. a % m # b % m
      BY <2>1, RemaindersDiffer
    <3>2. a % m \in 0 .. m - 1
      BY <2>1, Remainder
    <3>3. b % m \in 0 .. m - 1
      BY <2>1, Remainder
    <3> DEFINE x == a % m
               y == b % m
    <3> HIDE DEF x, y
    <3>4. x \in 0 .. m - 1 /\ y \in 0 .. m - 1
      BY <3>2, <3>3 DEF x, y
    <3>5. x \in Int /\ y \in Int
      BY <2>1, <3>4
    <3> QED
      BY <3>1, <3>5 DEF x, y
  <2>3. A[i] = (a % m) + 1 /\ A[j] = (b % m) + 1
    BY <1>3 DEF a, b, m
  <2> QED
    BY <2>2, <2>3
<1>6. ASSUME NEW i \in 1 .. n, NEW j \in 1 .. n, A[i] = A[j] PROVE i = j
  BY <1>2, <1>5, <1>6
<1>7. IsInjective(A)
  BY <1>4, <1>6 DEF IsInjective
<1>8. A \in Seq(Nat)
  <2>1. ASSUME NEW i \in 1 .. n PROVE A[i] \in Nat
    <3>1. m \in Nat \ {0} /\ seed + i - 1 \in Nat
      BY <1>1, <1>2
    <3>2. (seed + i - 1) % m \in 0 .. m - 1
      BY <3>1, Remainder
    <3> DEFINE x == (seed + i - 1) % m
    <3> HIDE DEF x, m
    <3>3. x \in Nat
      BY <3>1, <3>2 DEF x
    <3> QED
      BY <1>3, <3>3 DEF x, m
  <2> QED
    BY <1>2, <1>3, <1>4, <2>1
<1> QED
  BY <1>2, <1>4, <1>7, <1>8 DEF A

-----------------------------------------------------------------------------
(***************************************************************************)
(* The rows of the audience table: a fold adds the pairs of a campaign and *)
(* one of its audiences to the rows of the audiences.                      *)
(***************************************************************************)
AddTo(index, pair) ==
  [a \in DOMAIN index \cup {pair[2]} |->
     (IF a \in DOMAIN index THEN index[a] ELSE <<>>)
       \o (IF a = pair[2] THEN <<pair[1]>> ELSE <<>>)]

RowOf(index, a) == IF a \in DOMAIN index THEN index[a] ELSE <<>>

Targets == Nat \X Nat
Indices == UNION {[D -> Seq(Nat)] : D \in SUBSET Nat}
Adding == [p \in Targets \X Indices |-> AddTo(p[2], p[1])]

LEMMA IndexType ==
    /\ <<>> \in Indices /\ DOMAIN <<>> = {} /\ <<>> \in Seq(Nat)
    /\ \A index \in Indices :
         /\ DOMAIN index \in SUBSET Nat /\ index = [a \in DOMAIN index |-> index[a]]
         /\ \A a : RowOf(index, a) \in Seq(Nat)
<1>1. <<>> \in [{} -> Seq(Nat)] /\ DOMAIN <<>> = {} /\ <<>> \in Seq(Nat)
  BY EmptySeq
<1>2. ASSUME NEW index \in Indices
      PROVE  /\ DOMAIN index \in SUBSET Nat /\ index = [a \in DOMAIN index |-> index[a]]
             /\ \A a : RowOf(index, a) \in Seq(Nat)
  <2>1. PICK D \in SUBSET Nat : index \in [D -> Seq(Nat)]
    BY DEF Indices
  <2> QED
    BY <1>1, <2>1 DEF RowOf
<1>3. <<>> \in Indices
  <2>1. {} \in SUBSET Nat
    OBVIOUS
  <2> QED
    BY <1>1, <2>1 DEF Indices
<1> QED
  BY <1>1, <1>2, <1>3

LEMMA AddToIs ==
    ASSUME NEW index \in Indices, NEW pair \in Targets
    PROVE  /\ AddTo(index, pair) \in Indices
           /\ DOMAIN AddTo(index, pair) = DOMAIN index \cup {pair[2]}
           /\ \A a \in Nat : RowOf(AddTo(index, pair), a) =
                IF a = pair[2] THEN Append(RowOf(index, a), pair[1]) ELSE RowOf(index, a)
<1> DEFINE new == AddTo(index, pair)
           D == DOMAIN index \cup {pair[2]}
           part(a) == IF a = pair[2] THEN <<pair[1]>> ELSE <<>>
<1>1. pair[1] \in Nat /\ pair[2] \in Nat
  BY DEF Targets
<1>2. DOMAIN index \in SUBSET Nat /\ <<>> \in Seq(Nat) /\ \A a : RowOf(index, a) \in Seq(Nat)
  BY IndexType
<1>3. new = [a \in D |-> RowOf(index, a) \o part(a)]
  BY DEF AddTo, RowOf
<1>4. ASSUME NEW a
      PROVE  /\ RowOf(index, a) \o part(a) \in Seq(Nat)
             /\ a = pair[2] => RowOf(index, a) \o part(a) = Append(RowOf(index, a), pair[1])
             /\ a # pair[2] => RowOf(index, a) \o part(a) = RowOf(index, a)
  <2> DEFINE row == RowOf(index, a)
  <2>1. row \in Seq(Nat)
    BY <1>2
  <2> HIDE DEF row
  <2>2. CASE a = pair[2]
    <3>1. part(a) = <<pair[1]>> /\ Append(row, pair[1]) = row \o <<pair[1]>>
      BY <1>1, <2>1, <2>2, AppendIsConcat
    <3>2. Append(row, pair[1]) \in Seq(Nat)
      BY <1>1, <2>1, AppendProperties
    <3> QED
      BY <2>2, <3>1, <3>2 DEF row
  <2>3. CASE a # pair[2]
    <3>1. part(a) = <<>> /\ row \o <<>> = row
      BY <2>1, <2>3, ConcatEmptySeq
    <3> QED
      BY <2>1, <2>3, <3>1 DEF row
  <2> QED
    BY <2>2, <2>3
<1> HIDE DEF part, new
<1>5. DOMAIN new = D /\ D \in SUBSET Nat
  BY <1>1, <1>2, <1>3
<1>6. new \in Indices
  <2>1. new \in [D -> Seq(Nat)]
    BY <1>3, <1>4
  <2> QED
    BY <1>5, <2>1 DEF Indices
<1>7. ASSUME NEW a \in Nat
      PROVE  RowOf(new, a) = IF a = pair[2] THEN Append(RowOf(index, a), pair[1]) ELSE RowOf(index, a)
  <2>1. CASE a \in D
    <3>1. RowOf(new, a) = new[a] /\ new[a] = RowOf(index, a) \o part(a)
      BY <1>3, <1>5, <2>1 DEF RowOf
    <3> QED
      BY <1>4, <3>1
  <2>2. CASE a \notin D
    <3>1. RowOf(new, a) = <<>> /\ RowOf(index, a) = <<>> /\ a # pair[2]
      BY <1>5, <2>2 DEF RowOf
    <3> QED
      BY <3>1
  <2> QED
    BY <2>1, <2>2
<1> QED
  BY <1>5, <1>6, <1>7 DEF new

LEMMA AddingIs ==
    /\ Adding \in [Targets \X Indices -> Indices]
    /\ \A pair \in Targets, index \in Indices : Adding[<<pair, index>>] = AddTo(index, pair)
<1>1. \A p \in Targets \X Indices : p[1] \in Targets /\ p[2] \in Indices
  OBVIOUS
<1>2. \A p \in Targets \X Indices : AddTo(p[2], p[1]) \in Indices
  BY <1>1, AddToIs
<1>3. \A pair \in Targets, index \in Indices :
        /\ <<pair, index>> \in Targets \X Indices
        /\ <<pair, index>>[1] = pair /\ <<pair, index>>[2] = index
  OBVIOUS
<1> QED
  BY <1>2, <1>3 DEF Adding

\* What reverseIndex computes is a fold in the sense of FoldTheorems.
IndexOf(s) == FoldLeft(AddTo, <<>>, s)

LEMMA IndexFolds ==
    ASSUME NEW s \in Seq(Targets)
    PROVE  FoldIs(Indices, Adding, <<>>, s, IndexOf(s))
<1> DEFINE Eq(g) == g = [t \in SUBSET DOMAIN s |->
                           IF t = {} THEN <<>> ELSE AddTo(g[t \ {Max(t)}], s[Max(t)])]
           iter == CHOOSE g : Eq(g)
<1>0. /\ Len(s) \in Nat /\ DOMAIN s = 1 .. Len(s) /\ \A i \in 1 .. Len(s) : s[i] \in Targets
      /\ Adding \in [Targets \X Indices -> Indices] /\ <<>> \in Indices
      /\ \A pair \in Targets, index \in Indices : Adding[<<pair, index>>] = AddTo(index, pair)
  BY LenProperties, AddingIs, IndexType
<1>1. IndexOf(s) = iter[DOMAIN s]
  BY DEF IndexOf, FoldLeft, MapThenFoldSet
<1>2. PICK g \in [SUBSET DOMAIN s -> Indices] : Folds(g, Adding, <<>>, s)
  BY <1>0, FoldExists
<1>3. Eq(g)
  <2>1. ASSUME NEW t \in SUBSET DOMAIN s, t # {} PROVE g[t] = AddTo(g[t \ {Max(t)}], s[Max(t)])
    <3>1. Max(t) \in t
      BY <1>0, <2>1, Largest
    <3>2. g[t] = Adding[<<s[Max(t)], g[t \ {Max(t)}]>>]
      BY <1>2, <2>1 DEF Folds
    <3> QED
      BY <1>0, <3>1, <3>2
  <2>2. g[{}] = <<>>
    BY <1>2 DEF Folds
  <2> QED
    BY <2>1, <2>2
<1>4. Eq(iter)
  <2> HIDE DEF Eq
  <2> QED
    BY <1>3
<1> HIDE DEF iter
<1>5. FoldsIn(iter, Indices, Adding, <<>>, s)
  <2>1. ASSUME NEW t \in SUBSET DOMAIN s, t # {}, iter[t \ {Max(t)}] \in Indices
        PROVE  iter[t] = Adding[<<s[Max(t)], iter[t \ {Max(t)}]>>]
    <3>1. Max(t) \in t
      BY <1>0, <2>1, Largest
    <3>2. iter[t] = AddTo(iter[t \ {Max(t)}], s[Max(t)])
      BY <1>4, <2>1
    <3> QED
      BY <1>0, <2>1, <3>1, <3>2
  <2>2. iter[{}] = <<>>
    BY <1>4
  <2> QED
    BY <2>1, <2>2 DEF FoldsIn
<1>6. FoldIs(Indices, Adding, <<>>, s, iter[DOMAIN s])
  <2>1. PICK X, Y, z : X = Targets /\ Y = Indices /\ z = <<>>
    OBVIOUS
  <2>2. Adding \in [X \X Y -> Y] /\ s \in Seq(X) /\ FoldsIn(iter, Y, Adding, z, s) /\ z \in Y
    BY <1>0, <1>5, <2>1
  <2>3. FoldIs(Y, Adding, z, s, iter[DOMAIN s])
    BY ONLY <2>2, FoldSteps DEF FoldIs
  <2> QED
    BY <2>1, <2>3
<1> QED
  BY <1>1, <1>6

\* A campaign is in the row of an audience as often as their pair was added.
Counted(index, s) ==
  /\ index \in Indices /\ IsFiniteSet(DOMAIN index)
  /\ \A key, a \in Nat : Occurrences(RowOf(index, a), key) = Occurrences(s, <<key, a>>)

LEMMA IndexCounts ==
    ASSUME NEW s \in Seq(Targets)
    PROVE  Counted(IndexOf(s), s)
<1> DEFINE P == Targets
           Y == Indices
           z == <<>>
           T == {r \in Seq(P) : \E v \in Y : FoldIs(Y, Adding, z, r, v) /\ Counted(v, r)}
<1>0. /\ Adding \in [P \X Y -> Y] /\ z \in Y /\ DOMAIN z = {}
      /\ \A pair \in P, index \in Y : Adding[<<pair, index>>] = AddTo(index, pair)
  BY AddingIs, IndexType
<1>1. <<>> \in T
  <2>1. FoldIs(Y, Adding, z, <<>>, z)
    BY <1>0, FoldEmpty
  <2>2. \A a : RowOf(z, a) = <<>>
    BY <1>0 DEF RowOf
  <2>3. \A x : Occurrences(<<>>, x) = 0
    <3>1. \A x : {i \in DOMAIN <<>> : <<>>[i] = x} = {}
      OBVIOUS
    <3> QED
      BY <3>1, FS_EmptySet DEF Occurrences
  <2>4. Counted(z, <<>>)
    BY <1>0, <2>2, <2>3, FS_EmptySet DEF Counted
  <2> QED
    BY <1>0, <2>1, <2>4, EmptySeq
<1>2. ASSUME NEW r \in Seq(P), NEW pair \in P, r \in T PROVE Append(r, pair) \in T
  <2>1. PICK v \in Y : FoldIs(Y, Adding, z, r, v) /\ Counted(v, r)
    BY <1>2
  <2> DEFINE w == AddTo(v, pair)
             t == Append(r, pair)
  <2>2. t \in Seq(P)
    BY AppendProperties
  <2>3. FoldIs(Y, Adding, z, t, w)
    <3> HIDE DEF P, Y, z, w
    <3>1. Adding \in [P \X Y -> Y] /\ r \in Seq(P) /\ pair \in P /\ FoldIs(Y, Adding, z, r, v)
      BY <1>0, <2>1
    <3>2. FoldIs(Y, Adding, z, Append(r, pair), Adding[<<pair, v>>])
      BY ONLY <3>1, FoldAppend
    <3> QED
      BY <1>0, <2>1, <3>2 DEF w
  <2>4. /\ w \in Y /\ DOMAIN w = DOMAIN v \cup {pair[2]}
        /\ \A a \in Nat : RowOf(w, a) = IF a = pair[2] THEN Append(RowOf(v, a), pair[1]) ELSE RowOf(v, a)
    BY AddToIs
  <2> HIDE DEF w
  <2>5. IsFiniteSet(DOMAIN w)
    BY <2>1, <2>4, FS_AddElement DEF Counted
  <2>6. ASSUME NEW key \in Nat, NEW a \in Nat
        PROVE  Occurrences(RowOf(w, a), key) = Occurrences(t, <<key, a>>)
    <3>1. pair[1] \in Nat /\ pair[2] \in Nat /\ pair = <<pair[1], pair[2]>>
      BY DEF Targets
    <3>2. Occurrences(t, <<key, a>>) = Occurrences(r, <<key, a>>) + (IF pair = <<key, a>> THEN 1 ELSE 0)
      BY OccursAppended
    <3>3. Occurrences(RowOf(v, a), key) = Occurrences(r, <<key, a>>)
      BY <2>1 DEF Counted
    <3>4. Occurrences(r, <<key, a>>) \in Nat
      BY OccurrencesType
    <3>5. CASE a = pair[2]
      <4>1. RowOf(v, a) \in Seq(Nat)
        BY IndexType
      <4>2. Occurrences(Append(RowOf(v, a), pair[1]), key) =
              Occurrences(RowOf(v, a), key) + (IF pair[1] = key THEN 1 ELSE 0)
        <5> DEFINE row == RowOf(v, a)
                   k == pair[1]
        <5>1. row \in Seq(Nat) /\ k \in Nat
          BY <3>1, <4>1
        <5> HIDE DEF row, k
        <5>2. Occurrences(Append(row, k), key) = Occurrences(row, key) + (IF k = key THEN 1 ELSE 0)
          BY ONLY <5>1, OccursAppended
        <5> QED
          BY <5>2 DEF row, k
      <4>3. (pair = <<key, a>>) <=> pair[1] = key
        BY <3>1, <3>5
      <4> QED
        BY <2>4, <3>2, <3>3, <3>5, <4>2, <4>3
    <3>6. CASE a # pair[2]
      <4>1. pair # <<key, a>>
        BY <3>6
      <4> QED
        BY <2>4, <3>2, <3>3, <3>4, <3>6, <4>1
    <3> QED
      BY <3>5, <3>6
  <2>7. Counted(w, t)
    BY <2>4, <2>5, <2>6 DEF Counted
  <2> QED
    BY <2>2, <2>3, <2>4, <2>7
<1> HIDE DEF T
<1>3. Seq(P) \subseteq T
  <2> HIDE DEF P
  <2>1. <<>> \in T /\ \A r \in Seq(P), x \in P : r \in T => Append(r, x) \in T
    BY <1>1, <1>2
  <2> QED
    BY ONLY <2>1, SequencesGrow
<1>4. PICK v \in Y : FoldIs(Y, Adding, z, s, v) /\ Counted(v, s)
  BY <1>3 DEF T
<1>5. v = IndexOf(s)
  <2>1. FoldIs(Y, Adding, z, s, IndexOf(s)) /\ Len(s) \in Nat
    BY IndexFolds, LenProperties
  <2> HIDE DEF Y, z
  <2> QED
    BY <1>4, <2>1, FoldOnce
<1> QED
  BY <1>4, <1>5

\* The rows hold each campaign of the range once if it targets the audience,
\* else not at all (reverseIndex.Process()).
PairsOf(key, c) == [i \in DOMAIN AudiencesOf(key, c) |-> <<key, AudiencesOf(key, c)[i]>>]
PairsOfKeys(c) == [i \in DOMAIN Keys(c) |-> PairsOf(Keys(c)[i], c)]

LEMMA PairsOnce ==
    ASSUME NEW c \in Resolved, NEW seed \in Nat
    PROVE  /\ PairsOf(seed, c) \in Seq(Targets)
           /\ \A key, a : Occurrences(PairsOf(seed, c), <<key, a>>) =
                           IF key = seed /\ a \in Range(AudiencesOf(seed, c)) THEN 1 ELSE 0
<1> DEFINE A == AudiencesOf(seed, c)
           P == PairsOf(seed, c)
<1>1. /\ A \in Seq(Nat) /\ Len(A) \in Nat /\ DOMAIN A = 1 .. Len(A)
      /\ \A i \in 1 .. Len(A) : A[i] \in Nat
      /\ IsInjective(A)
  BY AudiencesDiffer, LenProperties
<1>2. P = [i \in DOMAIN A |-> <<seed, A[i]>>]
  BY DEF PairsOf
<1> HIDE DEF A, P
<1>3. P \in Seq(Targets) /\ DOMAIN P = DOMAIN A /\ \A i \in DOMAIN A : P[i] = <<seed, A[i]>>
  BY <1>1, <1>2 DEF Targets
<1>4. ASSUME NEW key, NEW a
      PROVE  Occurrences(P, <<key, a>>) = IF key = seed /\ a \in Range(A) THEN 1 ELSE 0
  <2>1. \A i, j \in DOMAIN A : A[i] = A[j] => i = j
    BY <1>1 DEF IsInjective
  <2>2. \A i \in DOMAIN A : P[i] = <<key, a>> <=> key = seed /\ A[i] = a
    BY <1>3
  <2>3. \A i, j \in DOMAIN P : P[i] = <<key, a>> /\ P[j] = <<key, a>> => i = j
    BY <1>3, <2>1, <2>2
  <2>4. Occurrences(P, <<key, a>>) = IF \E i \in DOMAIN P : P[i] = <<key, a>> THEN 1 ELSE 0
    BY <1>3, <2>3, OccursOnce
  <2>5. (\E i \in DOMAIN P : P[i] = <<key, a>>) <=> key = seed /\ a \in Range(A)
    BY <1>3, <2>2 DEF Range
  <2> QED
    BY <2>4, <2>5
<1> QED
  BY <1>3, <1>4 DEF A, P

LEMMA ReverseIndexIs ==
    ASSUME NEW c \in Resolved
    PROVE  /\ ReverseIndex(c) \in Indices /\ IsFiniteSet(DOMAIN ReverseIndex(c))
           /\ \A key \in c.KeyLow .. c.KeyHigh, a \in Nat :
                Occurrences(RowOf(ReverseIndex(c), a), key) =
                  IF a \in Range(AudiencesOf(key, c)) THEN 1 ELSE 0
<1> DEFINE K == Keys(c)
           ss == PairsOfKeys(c)
           flat == FlattenSeq(ss)
           index == ReverseIndex(c)
<1>1. index = IndexOf(flat)
  BY DEF ReverseIndex, IndexOf, AddTo, PairsOf, PairsOfKeys, FoldLeft, MapThenFoldSet
<1>2. /\ K \in Seq(Nat) /\ Len(K) \in Nat /\ DOMAIN K = 1 .. Len(K)
      /\ \A i \in 1 .. Len(K) : K[i] \in Nat /\ K[i] = (c.KeyLow + i) - 1
      /\ c.KeyLow \in Nat /\ c.KeyHigh \in Nat
  BY KeysSeq, LenProperties, ResolvedType DEF Resolutions
<1>3. ss = [i \in DOMAIN K |-> PairsOf(K[i], c)]
  BY DEF PairsOfKeys
<1> HIDE DEF K, ss
<1>4. \A i \in 1 .. Len(K) : PairsOf(K[i], c) \in Seq(Targets)
  BY <1>2, PairsOnce
<1>5. /\ ss \in Seq(Seq(Targets)) /\ DOMAIN ss = 1 .. Len(K)
      /\ \A i \in 1 .. Len(K) : ss[i] = PairsOf(K[i], c)
  <2> DEFINE S == Seq(Targets)
  <2> HIDE DEF S
  <2>1. \A i \in 1 .. Len(K) : PairsOf(K[i], c) \in S
    BY <1>4 DEF S
  <2>2. ss \in Seq(S) /\ DOMAIN ss = 1 .. Len(K) /\ \A i \in 1 .. Len(K) : ss[i] = PairsOf(K[i], c)
    BY <1>2, <1>3, <2>1
  <2> QED
    BY <2>2 DEF S
<1>6. flat \in Seq(Targets)
  <2>1. <<>> \in Seq(Targets)
    BY EmptySeq
  <2> QED
    BY <1>5, <2>1, FlattenAppend
<1> HIDE DEF flat, index
<1>7. Counted(index, flat)
  BY <1>1, <1>6, IndexCounts
<1>8. ASSUME NEW key \in c.KeyLow .. c.KeyHigh, NEW a \in Nat
      PROVE  Occurrences(flat, <<key, a>>) = IF a \in Range(AudiencesOf(key, c)) THEN 1 ELSE 0
  <2>1. PICK j \in 1 .. Len(K) : K[j] = key
    BY KeysCover DEF K
  <2>2. key \in Nat
    BY <1>2, <2>1
  <2>3. \A i \in 1 .. Len(K) : i # j => K[i] # key
    BY <1>2, <2>1
  <2>4. \A i \in 1 .. Len(K) : Occurrences(ss[i], <<key, a>>) =
          IF key = K[i] /\ a \in Range(AudiencesOf(K[i], c)) THEN 1 ELSE 0
    <3> TAKE i \in 1 .. Len(K)
    <3> DEFINE seed == K[i]
    <3>1. seed \in Nat /\ ss[i] = PairsOf(seed, c)
      BY <1>2, <1>5
    <3> HIDE DEF seed
    <3>2. Occurrences(PairsOf(seed, c), <<key, a>>) =
            IF key = seed /\ a \in Range(AudiencesOf(seed, c)) THEN 1 ELSE 0
      BY <3>1, PairsOnce
    <3> QED
      BY <3>1, <3>2 DEF seed
  <2>5. \A i \in DOMAIN ss : i # j => Occurrences(ss[i], <<key, a>>) = 0
    BY <1>5, <2>3, <2>4
  <2>6. j \in DOMAIN ss /\ Occurrences(ss[j], <<key, a>>) =
          IF a \in Range(AudiencesOf(key, c)) THEN 1 ELSE 0
    BY <1>5, <2>1, <2>4
  <2>7. OnceIn(ss, <<key, a>>)
    BY <1>5, OccursWhenFlat
  <2>8. CASE a \in Range(AudiencesOf(key, c))
    BY <2>5, <2>6, <2>7, <2>8 DEF OnceIn, flat
  <2>9. CASE a \notin Range(AudiencesOf(key, c))
    <3>1. \A i \in DOMAIN ss : Occurrences(ss[i], <<key, a>>) = 0
      BY <2>5, <2>6, <2>9
    <3> QED
      BY <2>7, <2>9, <3>1 DEF OnceIn, flat
  <2> QED
    BY <2>8, <2>9
<1>9. ASSUME NEW key \in c.KeyLow .. c.KeyHigh, NEW a \in Nat
      PROVE  Occurrences(RowOf(index, a), key) = IF a \in Range(AudiencesOf(key, c)) THEN 1 ELSE 0
  <2>1. key \in Nat
    BY <1>2
  <2> QED
    BY <1>7, <1>8, <2>1 DEF Counted
<1> QED
  BY <1>7, <1>9 DEF Counted, index

-----------------------------------------------------------------------------
(***************************************************************************)
(* The records.                                                            *)
(***************************************************************************)
LEMMA FromFunction ==
    ASSUME NEW f, NEW n \in Nat, f = [i \in 1 .. n |-> f[i]]
    PROVE  f \in Seq(Range(f)) /\ DOMAIN f = 1 .. n
BY DEF Range

\* How many batches there are, and where each of them begins and ends.
Count(c) == ((Len(Keys(c)) + c.BudgetBatchSize) - 1) \div c.BudgetBatchSize

LEMMA RecordsSeq ==
    ASSUME NEW c \in Resolved
    PROVE  /\ Records(c) \in Seq(Made(c))
           /\ c.Type = "budgets" => Records(c) = BudgetBatches(c) /\ DOMAIN Records(c) = 1 .. Count(c)
           /\ c.Type \in {"campaigns", "devices"} => DOMAIN Records(c) = DOMAIN Keys(c)
<1>1. c.Type \in {"budgets", "campaigns", "devices", "audiences"}
  BY ResolvedType DEF Resolutions
<1>2. CASE c.Type = "budgets"
  <2>1. Count(c) \in Nat
    <3>1. Len(Keys(c)) \in Nat /\ c.BudgetBatchSize \in Nat /\ c.BudgetBatchSize > 0
      BY KeysSeq, ResolvedType DEF Resolutions, Positive
    <3> DEFINE a == (Len(Keys(c)) + c.BudgetBatchSize) - 1
    <3>2. a \in Nat
      BY <3>1
    <3> HIDE DEF a
    <3>3. a \div c.BudgetBatchSize \in Nat
      BY ONLY <3>1, <3>2
    <3> QED
      BY <3>3 DEF Count, a
  <2>2. Records(c) = BudgetBatches(c)
    BY <1>2 DEF Records
  <2>3. BudgetBatches(c) = [id \in 1 .. Count(c) |-> BudgetBatches(c)[id]]
    BY DEF BudgetBatches, Count
  <2> QED
    BY <1>2, <2>1, <2>2, <2>3, FromFunction DEF Made
<1>3. CASE c.Type = "campaigns"
  <2>1. Records(c) = [i \in DOMAIN Keys(c) |-> Records(c)[i]]
    BY <1>3 DEF Records
  <2> QED
    BY <1>3, <2>1, KeysSeq, FromFunction DEF Made
<1>4. CASE c.Type = "devices"
  <2>1. Records(c) = [i \in DOMAIN Keys(c) |-> Records(c)[i]]
    BY <1>4 DEF Records
  <2> QED
    BY <1>4, <2>1, KeysSeq, FromFunction DEF Made
<1>5. CASE c.Type = "audiences"
  <2> DEFINE n == Cardinality(DOMAIN ReverseIndex(c))
  <2>1. n \in Nat
    BY ReverseIndexIs, FS_CardinalityType
  <2>2. Records(c) = [i \in 1 .. n |-> Records(c)[i]]
    BY <1>5 DEF Records
  <2> HIDE DEF n
  <2> QED
    BY <1>5, <2>1, <2>2, FromFunction DEF Made
<1> QED
  BY <1>1, <1>2, <1>3, <1>4, <1>5

-----------------------------------------------------------------------------
(***************************************************************************)
(* Sequences and their elements.                                           *)
(***************************************************************************)
LEMMA RangeSeq ==
    ASSUME NEW S, NEW s \in Seq(S)
    PROVE  /\ Len(s) \in Nat /\ DOMAIN s = 1 .. Len(s)
           /\ \A i \in 1 .. Len(s) : s[i] \in S
           /\ Range(s) \subseteq S
           /\ \A x : x \in Range(s) <=> \E i \in 1 .. Len(s) : s[i] = x
BY LenProperties DEF Range

LEMMA EmptyRange == Range(<<>>) = {}
BY DEF Range

LEMMA AppendSet ==
    ASSUME NEW S, NEW s \in Seq(S), NEW x \in S
    PROVE  /\ Append(s, x) \in Seq(S)
           /\ Range(Append(s, x)) = Range(s) \cup {x}
<1> DEFINE t == Append(s, x)
<1>1. /\ t \in Seq(S) /\ Len(t) = Len(s) + 1
      /\ \A i \in 1 .. Len(s) : t[i] = s[i]
      /\ t[Len(s) + 1] = x
  BY AppendProperties
<1>2. Len(s) \in Nat
  BY LenProperties
<1> HIDE DEF t
<1>3. \A y : y \in Range(t) => y \in Range(s) \cup {x}
  <2> SUFFICES ASSUME NEW i \in 1 .. Len(t) PROVE t[i] \in Range(s) \cup {x}
    BY <1>1, RangeSeq
  <2> QED
    BY <1>1, <1>2, RangeSeq
<1>4. \A y \in Range(s) : y \in Range(t)
  <2> SUFFICES ASSUME NEW i \in 1 .. Len(s) PROVE s[i] \in Range(t)
    BY RangeSeq
  <2> QED
    BY <1>1, <1>2, RangeSeq
<1>5. x \in Range(t)
  BY <1>1, <1>2, RangeSeq
<1> QED
  BY <1>1, <1>3, <1>4, <1>5 DEF t

LEMMA TailSet ==
    ASSUME NEW S, NEW s \in Seq(S), s # <<>>
    PROVE  /\ Head(s) \in S /\ Tail(s) \in Seq(S)
           /\ Range(s) = {Head(s)} \cup Range(Tail(s))
<1>1. /\ Head(s) \in S /\ Tail(s) \in Seq(S) /\ Len(Tail(s)) = Len(s) - 1
      /\ \A i \in 1 .. Len(Tail(s)) : Tail(s)[i] = s[i + 1]
  BY HeadTailProperties
<1>2. Len(s) \in Nat \ {0} /\ Head(s) = s[1]
  BY EmptySeq, LenProperties
<1>3. \A x \in Range(s) : x \in {Head(s)} \cup Range(Tail(s))
  <2> SUFFICES ASSUME NEW i \in 1 .. Len(s) PROVE s[i] = Head(s) \/ s[i] \in Range(Tail(s))
    BY RangeSeq
  <2>1. CASE i = 1
    BY <1>2, <2>1
  <2>2. CASE i # 1
    <3>1. i - 1 \in 1 .. Len(Tail(s)) /\ Tail(s)[i - 1] = s[i]
      BY <1>1, <1>2, <2>2
    <3> DEFINE t == Tail(s)
    <3> HIDE DEF t
    <3>2. t \in Seq(S) /\ i - 1 \in 1 .. Len(t) /\ t[i - 1] = s[i]
      BY <1>1, <3>1 DEF t
    <3>3. s[i] \in Range(t)
      BY ONLY <3>2, RangeSeq
    <3> QED
      BY <3>3 DEF t
  <2> QED
    BY <2>1, <2>2
<1>4. \A x \in Range(Tail(s)) : x \in Range(s)
  <2> TAKE x \in Range(Tail(s))
  <2>0. PICK i \in 1 .. Len(Tail(s)) : x = Tail(s)[i]
    BY <1>1, LenProperties DEF Range
  <2>1. i + 1 \in 1 .. Len(s) /\ x = s[i + 1]
    BY <1>1, <1>2, <2>0
  <2> QED
    BY <2>1, RangeSeq
<1>5. Head(s) \in Range(s)
  BY <1>2, RangeSeq
<1> QED
  BY <1>1, <1>3, <1>4, <1>5

LEMMA ConcatSet ==
    ASSUME NEW S, NEW s \in Seq(S), NEW t \in Seq(S)
    PROVE  s \o t \in Seq(S) /\ Range(s \o t) = Range(s) \cup Range(t)
<1> DEFINE u == s \o t
<1>1. /\ u \in Seq(S) /\ Len(u) = Len(s) + Len(t) /\ Len(s) \in Nat /\ Len(t) \in Nat
      /\ \A i \in 1 .. Len(s) + Len(t) : u[i] = IF i <= Len(s) THEN s[i] ELSE t[i - Len(s)]
  BY ConcatProperties, LenProperties
<1> HIDE DEF u
<1>2. \A i \in 1 .. Len(u) : u[i] \in Range(s) \cup Range(t)
  <2> TAKE i \in 1 .. Len(u)
  <2>1. CASE i <= Len(s)
    BY <1>1, <2>1, RangeSeq
  <2>2. CASE ~(i <= Len(s))
    <3>1. i - Len(s) \in 1 .. Len(t) /\ u[i] = t[i - Len(s)]
      BY <1>1, <2>2
    <3> QED
      BY <3>1, RangeSeq
  <2> QED
    BY <2>1, <2>2
<1>3. \A i \in 1 .. Len(s) : s[i] \in Range(u)
  <2> TAKE i \in 1 .. Len(s)
  <2>1. i \in 1 .. Len(u) /\ u[i] = s[i]
    BY <1>1
  <2> QED
    BY <1>1, <2>1, RangeSeq
<1>4. \A i \in 1 .. Len(t) : t[i] \in Range(u)
  <2> TAKE i \in 1 .. Len(t)
  <2>0. /\ Len(s) + i \in 1 .. Len(s) + Len(t) /\ ~(Len(s) + i <= Len(s))
        /\ (Len(s) + i) - Len(s) = i
    BY <1>1
  <2>1. Len(s) + i \in 1 .. Len(u) /\ u[Len(s) + i] = t[i]
    BY <1>1, <2>0
  <2> QED
    BY <1>1, <2>1, RangeSeq
<1>5. \A x : x \in Range(u) <=> x \in Range(s) \cup Range(t)
  BY <1>1, <1>2, <1>3, <1>4, RangeSeq
<1> QED
  BY <1>1, <1>5 DEF u

\* A sequence cut in two; the first part may be empty, and so may the second.
LEMMA CutSet ==
    ASSUME NEW S, NEW s \in Seq(S), NEW n \in 0 .. Len(s)
    PROVE  /\ SubSeq(s, 1, n) \in Seq(S) /\ SubSeq(s, n + 1, Len(s)) \in Seq(S)
           /\ Range(s) = Range(SubSeq(s, 1, n)) \cup Range(SubSeq(s, n + 1, Len(s)))
<1> DEFINE u == SubSeq(s, 1, n)
           v == SubSeq(s, n + 1, Len(s))
<1>1. Len(s) \in Nat /\ n \in Nat /\ n <= Len(s) /\ \A i \in 1 .. Len(s) : s[i] \in S
  BY LenProperties
<1>2. /\ u \in Seq(S) /\ Len(u) = n
      /\ \A i \in 1 .. n : u[i] = s[i]
  <2>1. \A i \in 1 .. n : s[i] \in S
    BY <1>1
  <2>2. /\ u \in Seq(S) /\ Len(u) = IF 1 <= n THEN n - 1 + 1 ELSE 0
        /\ \A i \in 1 .. n - 1 + 1 : u[i] = s[1 + i - 1]
    BY <1>1, <2>1, SubSeqProperties
  <2> HIDE DEF u
  <2> QED
    BY <1>1, <2>2
<1>3. /\ v \in Seq(S) /\ Len(v) = Len(s) - n
      /\ \A i \in 1 .. Len(s) - n : v[i] = s[n + i]
  <2>1. \A i \in n + 1 .. Len(s) : s[i] \in S
    BY <1>1
  <2>2. /\ v \in Seq(S) /\ Len(v) = IF n + 1 <= Len(s) THEN Len(s) - (n + 1) + 1 ELSE 0
        /\ \A i \in 1 .. Len(s) - (n + 1) + 1 : v[i] = s[(n + 1) + i - 1]
    BY <1>1, <2>1, SubSeqProperties
  <2> HIDE DEF v
  <2> QED
    BY <1>1, <2>2
<1> HIDE DEF u, v
<1>4. \A i \in 1 .. Len(s) : s[i] \in Range(u) \cup Range(v)
  <2> TAKE i \in 1 .. Len(s)
  <2>1. CASE i <= n
    <3>1. i \in 1 .. Len(u) /\ u[i] = s[i]
      BY <1>1, <1>2, <2>1
    <3> QED
      BY <1>2, <3>1, RangeSeq
  <2>2. CASE ~(i <= n)
    <3>1. i - n \in 1 .. Len(v) /\ v[i - n] = s[i]
      BY <1>1, <1>3, <2>2
    <3> QED
      BY <1>3, <3>1, RangeSeq
  <2> QED
    BY <2>1, <2>2
<1>5. \A i \in 1 .. Len(u) : u[i] \in Range(s)
  <2> TAKE i \in 1 .. Len(u)
  <2>1. i \in 1 .. Len(s) /\ u[i] = s[i]
    BY <1>1, <1>2
  <2> QED
    BY <2>1, RangeSeq
<1>6. \A i \in 1 .. Len(v) : v[i] \in Range(s)
  <2> TAKE i \in 1 .. Len(v)
  <2>1. n + i \in 1 .. Len(s) /\ v[i] = s[n + i]
    BY <1>1, <1>3
  <2> QED
    BY <2>1, RangeSeq
<1>7. \A x \in Range(s) : x \in Range(u) \cup Range(v)
  BY <1>4, RangeSeq
<1>8. \A x \in Range(u) : x \in Range(s)
  BY <1>2, <1>5, RangeSeq
<1>9. \A x \in Range(v) : x \in Range(s)
  BY <1>3, <1>6, RangeSeq
<1>10. Range(s) = Range(u) \cup Range(v)
  BY <1>7, <1>8, <1>9
<1> QED
  BY <1>2, <1>3, <1>10 DEF u, v

\* RemoveAt() leaves every other element.
LEMMA RemoveSet ==
    ASSUME NEW S, NEW s \in Seq(S), NEW i \in DOMAIN s
    PROVE  /\ RemoveAt(s, i) \in Seq(S)
           /\ \A x \in Range(s) : x = s[i] \/ x \in Range(RemoveAt(s, i))
<1>1. Len(s) \in Nat /\ i \in 1 .. Len(s) /\ i - 1 \in 0 .. Len(s) /\ i \in 0 .. Len(s)
  BY LenProperties
<1> DEFINE t == SubSeq(s, i, Len(s))
<1>2. /\ SubSeq(s, 1, i - 1) \in Seq(S) /\ t \in Seq(S)
      /\ Range(s) = Range(SubSeq(s, 1, i - 1)) \cup Range(t)
  <2>1. (i - 1) + 1 = i
    BY <1>1
  <2> QED
    BY <1>1, <2>1, CutSet
<1>3. SubSeq(s, i + 1, Len(s)) \in Seq(S)
  BY <1>1, CutSet
<1>4. Head(t) = s[i] /\ Tail(t) = SubSeq(s, i + 1, Len(s)) /\ t # <<>>
  <2>1. Len(s) \in i .. Len(s)
    BY <1>1
  <2>2. t = <<s[i]>> \o SubSeq(s, i + 1, Len(s))
    BY <1>1, <2>1, SubSeqRecursiveFirst
  <2>3. Head(t) = s[i] /\ Tail(t) = SubSeq(s, i + 1, Len(s))
    BY <1>1, <2>1, HeadTailOfSubSeq
  <2>4. Len(t) # 0
    <3>1. <<s[i]>> \in Seq(S) /\ Len(<<s[i]>>) = 1
      BY <1>1, LenProperties
    <3>2. Len(<<s[i]>> \o SubSeq(s, i + 1, Len(s))) = 1 + Len(SubSeq(s, i + 1, Len(s)))
      BY <1>3, <3>1, ConcatProperties
    <3> QED
      BY <1>3, <2>2, <3>2, LenProperties
  <2> QED
    BY <1>2, <2>3, <2>4, EmptySeq
<1> HIDE DEF t
<1>5. Range(t) = {s[i]} \cup Range(SubSeq(s, i + 1, Len(s)))
  BY <1>2, <1>4, TailSet
<1> DEFINE u == SubSeq(s, 1, i - 1)
           v == SubSeq(s, i + 1, Len(s))
<1>6. RemoveAt(s, i) = u \o v
  BY DEF RemoveAt
<1>7. u \in Seq(S) /\ v \in Seq(S) /\ Range(s) = Range(u) \cup ({s[i]} \cup Range(v))
  BY <1>2, <1>3, <1>5
<1> HIDE DEF u, v
<1>8. u \o v \in Seq(S) /\ Range(u \o v) = Range(u) \cup Range(v)
  BY <1>7, ConcatSet
<1> QED
  BY <1>6, <1>7, <1>8

LEMMA SetToSeqSet ==
    ASSUME NEW S, IsFiniteSet(S)
    PROVE  /\ SetToSeq(S) \in Seq(S) /\ Range(SetToSeq(S)) = S
           /\ DOMAIN SetToSeq(S) = 1 .. Cardinality(S)
<1> DEFINE n == Cardinality(S)
           f == SetToSeq(S)
<1>1. n \in Nat /\ ExistsBijection(1 .. n, S)
  BY FS_CardinalityType
<1>2. \E g \in [1 .. n -> S] : IsInjective(g)
  BY <1>1 DEF ExistsBijection, Bijection, Injection
<1>3. f \in [1 .. n -> S] /\ IsInjective(f)
  BY <1>2 DEF SetToSeq
<1> HIDE DEF f
<1>4. f \in Injection(1 .. n, S)
  BY <1>3 DEF Injection
<1>5. Cardinality(1 .. n) = Cardinality(S)
  BY <1>1, FS_Interval
<1>6. f \in Surjection(1 .. n, S)
  BY <1>4, <1>5, FS_Injection
<1>7. f \in Seq(S) /\ Range(f) = S /\ DOMAIN f = 1 .. n
  BY <1>1, <1>3, <1>6 DEF Surjection, Range
<1> QED
  BY <1>7 DEF f

LEMMA RangeFinite ==
    ASSUME NEW S, NEW s \in Seq(S), NEW T \in SUBSET Range(s)
    PROVE  IsFiniteSet(T)
<1>1. IsFiniteSet(1 .. Len(s))
  BY LenProperties, FS_Interval
<1>2. s \in [1 .. Len(s) -> Range(s)] /\ \A x \in Range(s) : \E i \in 1 .. Len(s) : s[i] = x
  BY LenProperties DEF Range
<1>3. s \in Surjection(1 .. Len(s), Range(s))
  BY <1>2 DEF Surjection
<1> QED
  BY <1>1, <1>3, FS_Surjection, FS_Subset

\* A run makes finitely many records.
LEMMA IdsFinite ==
    ASSUME NEW c \in Resolved
    PROVE  IsFiniteSet(Ids(c))
<1> DEFINE records == Records(c)
           ids == [i \in 1 .. Len(records) |-> records[i].id]
<1>1. Len(records) \in Nat /\ DOMAIN records = 1 .. Len(records)
  BY RecordsSeq, LenProperties
<1> HIDE DEF records
<1>2. Ids(c) = {records[i].id : i \in 1 .. Len(records)}
  BY <1>1 DEF Ids, Made, Range, records
<1>3. ids \in Seq(Ids(c)) /\ Range(ids) = Ids(c)
  BY <1>1, <1>2 DEF Range
<1> QED
  BY <1>3, RangeFinite

-----------------------------------------------------------------------------
(***************************************************************************)
(* What a write does to the table.                                         *)
(***************************************************************************)
Row(r) == [generation |-> generation, data |-> r.data]

\* Some of the records of R are written, each under its ID.
Grows(R) ==
  /\ DOMAIN stored \subseteq DOMAIN stored'
  /\ \A id \in DOMAIN stored' :
       \/ id \in DOMAIN stored /\ stored'[id] = stored[id]
       \/ \E r \in R : r.id = id /\ stored'[id] = Row(r)

LEMMA StoringGrows ==
    ASSUME NEW r, stored' = Storing(r)
    PROVE  /\ Grows({r})
           /\ r.id \in DOMAIN stored' /\ stored'[r.id].generation = generation
<1>1. stored' = [id \in DOMAIN stored \cup {r.id} |-> IF id = r.id THEN Row(r) ELSE stored[id]]
  BY DEF Storing, Row
<1> QED
  BY <1>1 DEF Grows, Row

LEMMA StoringAllGrows ==
    ASSUME NEW R, stored' = StoringAll(R)
    PROVE  /\ Grows(R)
           /\ \A r \in R : r.id \in DOMAIN stored' /\ stored'[r.id].generation = generation
<1> DEFINE one(id) == CHOOSE r \in R : r.id = id
<1>1. stored' = [id \in DOMAIN stored \cup {r.id : r \in R} |->
                   IF \E r \in R : r.id = id THEN Row(one(id)) ELSE stored[id]]
  BY DEF StoringAll, Row
<1>2. \A id : (\E r \in R : r.id = id) => one(id) \in R /\ one(id).id = id
  OBVIOUS
<1> HIDE DEF one
<1>3. DOMAIN stored' = DOMAIN stored \cup {r.id : r \in R}
  BY <1>1
<1>4. \A id \in DOMAIN stored' : stored'[id] = IF \E r \in R : r.id = id THEN Row(one(id)) ELSE stored[id]
  BY <1>1
<1>5. ASSUME NEW id \in DOMAIN stored'
      PROVE  \/ id \in DOMAIN stored /\ stored'[id] = stored[id]
             \/ \E r \in R : r.id = id /\ stored'[id] = Row(r)
  BY <1>2, <1>3, <1>4
<1>6. ASSUME NEW r \in R
      PROVE  r.id \in DOMAIN stored' /\ stored'[r.id].generation = generation
  <2>1. r.id \in DOMAIN stored' /\ stored'[r.id] = Row(one(r.id))
    BY <1>3, <1>4
  <2> QED
    BY <2>1 DEF Row
<1> QED
  BY <1>3, <1>5, <1>6 DEF Grows

\* What every step leaves of the table: a row is only replaced by one of this
\* run, and the runs fill one table.
TableKept ==
  /\ cfg' \in Resolved /\ cfg'.Type = cfg.Type /\ cfg'.Output = cfg.Output
  /\ \A id \in DOMAIN stored :
       /\ id \in DOMAIN stored' /\ stored'[id].generation >= stored[id].generation
       /\ \/ stored'[id] = stored[id]
          \/ stored'[id].generation = generation /\ cfg' = cfg /\ generation' = generation

\* A table that grows keeps its rows, and those written in this run.
LEMMA GrowingKeeps ==
    ASSUME RowsAreMade, NEW R \in SUBSET Made(cfg), Grows(R), generation \in Nat,
           cfg \in Resolved, cfg' = cfg, generation' = generation
    PROVE  /\ RowsAreMade' /\ TableKept
           /\ \A id : Written(id) => Written(id)'
           /\ DOMAIN stored' \subseteq DOMAIN stored \cup {r.id : r \in R}
<1>1. \A id \in DOMAIN stored' :
        \/ id \in DOMAIN stored /\ stored'[id] = stored[id]
        \/ /\ stored'[id].generation = generation
           /\ \E r \in R : r.id = id /\ stored'[id] = [generation |-> generation, data |-> r.data]
  BY DEF Grows, Row
<1>2. ASSUME NEW id \in DOMAIN stored'
      PROVE  /\ stored'[id].generation \in 0 .. generation
             /\ \E c \in Like(cfg) : IsRow(id, c)'
             /\ stored'[id].generation = generation => IsRow(id, cfg)'
  <2>1. CASE id \in DOMAIN stored /\ stored'[id] = stored[id]
    <3>1. \A c : IsRow(id, c)' <=> IsRow(id, c)
      BY <2>1 DEF IsRow, Made
    <3> QED
      BY <2>1, <3>1 DEF RowsAreMade
  <2>2. CASE /\ stored'[id].generation = generation
             /\ \E r \in R : r.id = id /\ stored'[id] = [generation |-> generation, data |-> r.data]
    <3>1. cfg \in Like(cfg)
      BY DEF Like
    <3>2. IsRow(id, cfg)'
      BY <2>2 DEF IsRow, Made
    <3> QED
      BY <2>2, <3>1, <3>2
  <2> QED
    BY <1>1, <2>1, <2>2
<1>3. RowsAreMade'
  <2>1. DOMAIN stored' \subseteq DOMAIN stored \cup Ids(cfg)
    BY <1>1 DEF Ids
  <2>2. IsFiniteSet(DOMAIN stored')
    BY <2>1, IdsFinite, FS_Union, FS_Subset DEF RowsAreMade
  <2> QED
    BY <1>2, <2>2 DEF RowsAreMade, Like, IsRow, Made
<1>4. \A id : Written(id) => Written(id)'
  BY <1>1 DEF Written, Grows
<1>5. ASSUME NEW id \in DOMAIN stored
      PROVE  id \in DOMAIN stored' /\ stored'[id].generation >= stored[id].generation
  <2>1. id \in DOMAIN stored'
    BY DEF Grows
  <2>2. stored[id].generation \in 0 .. generation
    BY DEF RowsAreMade
  <2> QED
    BY <1>1, <2>1, <2>2
<1>6. DOMAIN stored' \subseteq DOMAIN stored \cup {r.id : r \in R}
  BY <1>1
<1>7. TableKept
  BY <1>1, <1>5 DEF TableKept
<1> QED
  BY <1>3, <1>4, <1>6, <1>7

\* What a writer holds.
LEMMA WriterType ==
    ASSUME DataTypeOK, NEW w \in DOMAIN writers
    PROVE  /\ writers \in Seq(Writers(cfg)) /\ writers[w] \in Writers(cfg)
           /\ writers[w].pc \in Steps /\ writers[w].buffer \in Seq(Made(cfg))
           /\ writers[w].record \in Made(cfg) \cup {<<>>}
<1>1. writers \in Seq(Writers(cfg))
  BY DEF DataTypeOK
<1>2. writers[w] \in Writers(cfg)
  BY <1>1, RangeSeq
<1> QED
  BY <1>1, <1>2 DEF Writers

\* A step of a writer.
LEMMA WriterStep ==
    ASSUME writers \in Seq(Writers(cfg)), NEW w \in DOMAIN writers, NEW x \in Writers(cfg),
           writers' = [writers EXCEPT ![w] = x], cfg' = cfg
    PROVE  /\ writers' \in Seq(Writers(cfg)) /\ writers # <<>> /\ writers' # <<>>
           /\ DOMAIN writers' = DOMAIN writers
           /\ writers'[w] = x
           /\ \A v \in DOMAIN writers : v # w => writers'[v] = writers[v]
<1>1. Len(writers) \in Nat /\ DOMAIN writers = 1 .. Len(writers)
      /\ writers \in [1 .. Len(writers) -> Writers(cfg)]
  BY LenProperties
<1>2. writers' \in [1 .. Len(writers) -> Writers(cfg)]
  BY <1>1
<1>3. writers' \in Seq(Writers(cfg))
  BY <1>1, <1>2
<1> QED
  BY <1>1, <1>2, <1>3

\* What flushBatchFromBuffer() does to the buffer and to the table.
LEMMA FlushedKeeps ==
    ASSUME DataTypeOK, RowsAreMade, NEW w \in DOMAIN writers, NEW p \in Steps, Flushed(w, p),
           cfg' = cfg, generation' = generation
    PROVE  \E b \in Seq(Made(cfg)), R \in SUBSET Made(cfg) :
             /\ writers' = [writers EXCEPT ![w] = [writers[w] EXCEPT !.pc = p, !.buffer = b]]
             /\ Grows(R)
             /\ \A r \in Range(writers[w].buffer) : r \in Range(b) \/ Written(r.id)'
<1> DEFINE buffer == writers[w].buffer
           n == Least(Len(buffer), putManyBatchLimit)
           cut == SubSeq(buffer, 1, n)
           rest == SubSeq(buffer, n + 1, Len(buffer))
<1>0. writers \in Seq(Writers(cfg)) /\ writers[w] \in Writers(cfg) /\ buffer \in Seq(Made(cfg))
  BY WriterType
<1>1. Len(buffer) \in Nat /\ n \in 0 .. Len(buffer)
  BY <1>0, LenProperties, DataGenAssumption DEF Least
<1>2. /\ cut \in Seq(Made(cfg)) /\ rest \in Seq(Made(cfg)) /\ Len(cut) = n
      /\ Range(buffer) = Range(cut) \cup Range(rest)
  <2>1. Len(cut) = n
    <3>1. \A i \in 1 .. n : buffer[i] \in Made(cfg)
      BY <1>0, <1>1, LenProperties
    <3> HIDE DEF buffer, n
    <3>2. Len(cut) = IF 1 <= n THEN n - 1 + 1 ELSE 0
      BY <1>1, <3>1, SubSeqProperties
    <3> QED
      BY <1>1, <3>2
  <2> QED
    BY <1>0, <1>1, <2>1, CutSet
<1>3. Cut(w) = cut
  BY DEF Cut
<1>4. PICK u \in SUBSET Range(cut) :
        /\ stored' = StoringAll(Range(cut) \ u)
        /\ writers' = [writers EXCEPT ![w].pc = p,
                         ![w].buffer = SubSeq(@, Len(cut) + 1, Len(@)) \o SetToSeq(u)]
  BY <1>3 DEF Flushed
<1> DEFINE b == rest \o SetToSeq(u)
<1> HIDE DEF n, cut, rest
<1>5. Range(cut) \subseteq Made(cfg) /\ IsFiniteSet(u)
  BY <1>2, RangeSeq, RangeFinite
<1>6. b \in Seq(Made(cfg)) /\ Range(b) = Range(rest) \cup u
  <2>1. SetToSeq(u) \in Seq(u) /\ Range(SetToSeq(u)) = u
    BY <1>5, SetToSeqSet
  <2>2. SetToSeq(u) \in Seq(Made(cfg))
    BY <1>4, <1>5, <2>1
  <2> QED
    <3> DEFINE t == SetToSeq(u)
    <3> HIDE DEF t
    <3>1. t \in Seq(Made(cfg)) /\ Range(t) = u
      BY <2>1, <2>2 DEF t
    <3>2. rest \o t \in Seq(Made(cfg)) /\ Range(rest \o t) = Range(rest) \cup Range(t)
      BY <1>2, <3>1, ConcatSet
    <3> QED
      BY <3>1, <3>2 DEF t
<1>7. writers' = [writers EXCEPT ![w] = [writers[w] EXCEPT !.pc = p, !.buffer = b]]
  <2>1. writers \in [DOMAIN writers -> Writers(cfg)]
    BY <1>0, LenProperties
  <2> QED
    BY <1>0, <1>2, <1>4, <2>1 DEF Writers, rest
<1>8. /\ Grows(Range(cut) \ u)
      /\ \A r \in Range(cut) \ u : Written(r.id)'
  BY <1>4, StoringAllGrows DEF Written
<1>9. \A r \in Range(buffer) : r \in Range(b) \/ Written(r.id)'
  BY <1>2, <1>6, <1>8
<1> QED
  BY <1>5, <1>6, <1>7, <1>8, <1>9

\* What is written by a call that fails.
LEMMA FailingKeeps ==
    ASSUME DataTypeOK, NEW w \in DOMAIN writers, FlushFails(w)
    PROVE  \E R \in SUBSET Made(cfg) : Grows(R)
<1>1. writers[w].buffer \in Seq(Made(cfg))
  BY WriterType
<1>2. Range(Cut(w)) \subseteq Made(cfg)
  <2> DEFINE buffer == writers[w].buffer
             n == Least(Len(buffer), putManyBatchLimit)
  <2>1. n \in 0 .. Len(buffer)
    BY <1>1, LenProperties, DataGenAssumption DEF Least
  <2> QED
    BY <1>1, <2>1, CutSet, RangeSeq DEF Cut
<1>3. CASE stored' = StoringAll(Range(Cut(w)))
  BY <1>2, <1>3, StoringAllGrows
<1>4. CASE stored' = stored
  BY <1>4 DEF Grows
<1> QED
  BY <1>3, <1>4 DEF FlushFails, Applied

-----------------------------------------------------------------------------
(***************************************************************************)
(* The steps of a writer.                                                  *)
(***************************************************************************)
GoodInv == DataTypeOK /\ RowsAreMade /\ WritersKeep /\ NothingLost /\ Listed /\ Filled

\* The record x.record and the buffer x.buffer of a writer at x.pc hold r.
In(x, r) == (x.pc \in {"put", "bins"} /\ x.record = r) \/ r \in Range(x.buffer)

\* What a step that makes a writer x and writes records of R must see to.
Orderly(x) ==
  /\ x.pc \in {"put", "bins"} => x.record \in Made(cfg)
  /\ cfg.Output = "aerospike" => x.pc \notin {"limit", "close"} /\ x.buffer = <<>>
  /\ ~last' /\ x.pc \in {"close", "done"} => offered' = <<>>
  /\ ~last' /\ x.pc = "done" => x.buffer = <<>>

HandsOn(w, x) ==
  ~last' => \A r \in Made(cfg) :
    r \in Range(offered) \/ In(writers[w], r) => r \in Range(offered') \/ In(x, r) \/ Written(r.id)'

ListsFirst(x, R) ==
  Batches =>
    /\ \A r \in R : r.id \in Range(list')
    /\ x.pc = "bins" => x.record.id \in Range(list')
    /\ orphans \subseteq Range(list') \cup orphans'

LEMMA WriterMoves ==
    ASSUME GoodInv, returned = "running", NEW w \in DOMAIN writers, NEW x \in Writers(cfg),
           writers' = [writers EXCEPT ![w] = x],
           NEW R \in SUBSET Made(cfg), Grows(R),
           UNCHANGED <<cfg, generation, returned, filled>>,
           offered' \in Seq(Made(cfg)), offered = <<>> => offered' = <<>>,
           list' \in Seq(AllIds(cfg)), Range(list) \subseteq Range(list'),
           last' \in BOOLEAN, last => last',
           Orderly(x), HandsOn(w, x), ListsFirst(x, R)
    PROVE  GoodInv' /\ TableKept
<1> USE DEF GoodInv
<1>1. /\ writers' \in Seq(Writers(cfg)) /\ writers' # <<>> /\ DOMAIN writers' = DOMAIN writers
      /\ writers'[w] = x
      /\ \A v \in DOMAIN writers : v # w => writers'[v] = writers[v]
  BY WriterStep DEF DataTypeOK
<1>2. /\ RowsAreMade' /\ TableKept
      /\ \A id : Written(id) => Written(id)'
      /\ DOMAIN stored' \subseteq DOMAIN stored \cup {r.id : r \in R}
  BY GrowingKeeps DEF DataTypeOK
<1>3. DataTypeOK'
  BY <1>1 DEF DataTypeOK
<1>4. WritersKeep'
  <2>1. /\ returned' = "running" => writers' # <<>>
        /\ returned' # "nil"
    BY <1>1
  <2>2. ASSUME NEW v \in DOMAIN writers'
        PROVE  /\ returned' # "running" => writers'[v].pc = "done"
               /\ writers'[v].pc \in {"put", "bins"} => writers'[v].record \in Made(cfg')
               /\ cfg'.Output = "aerospike" =>
                    writers'[v].pc \notin {"limit", "close"} /\ writers'[v].buffer = <<>>
               /\ ~last' /\ writers'[v].pc \in {"close", "done"} => offered' = <<>>
               /\ ~last' /\ writers'[v].pc = "done" => writers'[v].buffer = <<>>
    <3>1. CASE v = w
      BY <1>1, <3>1 DEF Orderly
    <3>2. CASE v # w
      BY <1>1, <2>2, <3>2 DEF WritersKeep
    <3> QED
      BY <3>1, <3>2
  <2> QED
    BY <2>1, <2>2 DEF WritersKeep
<1>5. NothingLost'
  <2> SUFFICES ASSUME ~last', NEW r \in Made(cfg)
               PROVE  r \in Range(offered') \/ (\E v \in DOMAIN writers' : HeldBy(v, r)') \/ Written(r.id)'
    BY DEF NothingLost
  <2>0. \A v \in DOMAIN writers' : HeldBy(v, r)' <=> In(writers'[v], r)
    BY DEF HeldBy, In
  <2>1. r \in Range(offered) \/ (\E v \in DOMAIN writers : In(writers[v], r)) \/ Written(r.id)
    BY DEF NothingLost, HeldBy, In
  <2>2. CASE r \in Range(offered) \/ In(writers[w], r)
    BY <1>1, <2>0, <2>2 DEF HandsOn
  <2>3. ASSUME NEW v \in DOMAIN writers, v # w, In(writers[v], r) PROVE In(writers'[v], r)
    BY <1>1, <2>3
  <2>4. CASE Written(r.id)
    BY <1>2, <2>4
  <2> QED
    BY <1>1, <2>0, <2>1, <2>2, <2>3, <2>4
<1>6. Listed'
  <2> SUFFICES ASSUME Batches
               PROVE  /\ DOMAIN stored' \subseteq Range(list') \cup orphans'
                      /\ \A v \in DOMAIN writers' :
                           writers'[v].pc = "bins" => writers'[v].record.id \in Range(list')
    BY DEF Listed, Batches
  <2>1. DOMAIN stored' \subseteq Range(list') \cup orphans'
    BY <1>2 DEF Listed, ListsFirst
  <2>2. \A v \in DOMAIN writers' : writers'[v].pc = "bins" => writers'[v].record.id \in Range(list')
    BY <1>1 DEF Listed, ListsFirst
  <2> QED
    BY <2>1, <2>2
<1>7. Filled'
  BY <1>2 DEF Filled, TableKept
<1> QED
  BY <1>2, <1>3, <1>4, <1>5, <1>6, <1>7

LEMMA Going ==
    ASSUME DataTypeOK, NEW w \in DOMAIN writers, NEW p \in Steps, WriterGoes(w, p),
           p = "bins" => writers[w].record \in Made(cfg)
    PROVE  \E x \in Writers(cfg) :
             /\ writers' = [writers EXCEPT ![w] = x]
             /\ x.pc = p /\ x.buffer = writers[w].buffer
             /\ p = "bins" => x.record = writers[w].record
<1> DEFINE x == [writers[w] EXCEPT !.pc = p, !.record = IF p = "bins" THEN @ ELSE <<>>]
<1>1. writers[w] \in Writers(cfg) /\ writers \in [DOMAIN writers -> Writers(cfg)]
  BY WriterType, LenProperties
<1>2. x \in Writers(cfg) /\ x.pc = p /\ x.buffer = writers[w].buffer
      /\ (p = "bins" => x.record = writers[w].record)
  BY <1>1 DEF Writers
<1>3. writers' = [writers EXCEPT ![w] = x]
  BY <1>1 DEF WriterGoes, Writers
<1> QED
  BY <1>2, <1>3

\* A step of a writer that only goes on, and writes nothing.
LEMMA Runs ==
    ASSUME GoodInv, NEW w \in DOMAIN writers, writers[w].pc # "done"
    PROVE  returned = "running"
BY DEF GoodInv, WritersKeep

LEMMA NothingGrows ==
    ASSUME stored' = stored
    PROVE  Grows({})
BY DEF Grows

LEMMA TakeInv ==
    ASSUME GoodInv, NEW w \in DOMAIN writers, Take(w)
    PROVE  GoodInv' /\ TableKept
<1> DEFINE x == [writers[w] EXCEPT !.pc = "put", !.record = Head(offered)]
<1>0. DataTypeOK /\ WritersKeep
  BY DEF GoodInv
<1>1. /\ writers[w].pc = "take" /\ offered # <<>> /\ offered' = Tail(offered)
      /\ UNCHANGED <<cfg, generation, last, returned, stored, list, orphans, filled>>
  BY DEF Take
<1>2. writers[w] \in Writers(cfg) /\ writers \in [DOMAIN writers -> Writers(cfg)]
  BY <1>0, WriterType, LenProperties
<1>3. /\ offered \in Seq(Made(cfg)) /\ Head(offered) \in Made(cfg) /\ Tail(offered) \in Seq(Made(cfg))
      /\ Range(offered) = {Head(offered)} \cup Range(Tail(offered))
  BY <1>0, <1>1, TailSet DEF DataTypeOK
<1>4. x \in Writers(cfg) /\ x.pc = "put" /\ x.record = Head(offered) /\ x.buffer = writers[w].buffer
  BY <1>2, <1>3 DEF Writers, Steps
<1>5. writers' = [writers EXCEPT ![w] = x]
  BY <1>2 DEF Take, Writers
<1> HIDE DEF x
<1>6. Orderly(x)
  BY <1>0, <1>3, <1>4 DEF Orderly, WritersKeep
<1>7. HandsOn(w, x)
  BY <1>1, <1>3, <1>4 DEF HandsOn, In
<1>8. ListsFirst(x, {})
  BY <1>1, <1>3, <1>4 DEF ListsFirst
<1>9. list \in Seq(AllIds(cfg)) /\ last \in BOOLEAN /\ returned = "running" /\ Grows({})
  BY <1>0, <1>1, Runs, NothingGrows DEF DataTypeOK
<1> QED
  BY <1>1, <1>3, <1>4, <1>5, <1>6, <1>7, <1>8, <1>9, WriterMoves

LEMMA TakeNoneInv ==
    ASSUME GoodInv, NEW w \in DOMAIN writers, TakeNone(w)
    PROVE  GoodInv' /\ TableKept
<1> DEFINE p == IF cfg.Output = "dynamodb" THEN "close" ELSE "done"
<1>0. DataTypeOK /\ WritersKeep
  BY DEF GoodInv
<1>1. /\ writers[w].pc = "take" /\ offered = <<>> /\ WriterGoes(w, p)
      /\ UNCHANGED <<cfg, generation, offered, last, returned, stored, list, orphans, filled>>
  BY DEF TakeNone
<1>2. PICK x \in Writers(cfg) :
         writers' = [writers EXCEPT ![w] = x] /\ x.pc = p /\ x.buffer = writers[w].buffer
  BY <1>0, <1>1, Going DEF Steps
<1>3. p = "close" => cfg.Output # "aerospike"
  OBVIOUS
<1>4. p = "done" => cfg.Output = "aerospike"
  BY <1>0, ResolvedType DEF DataTypeOK, Resolutions
<1>5. Orderly(x)
  BY <1>0, <1>1, <1>2, <1>3, <1>4 DEF Orderly, WritersKeep
<1>6. HandsOn(w, x)
  BY <1>1, <1>2 DEF HandsOn, In
<1>7. ListsFirst(x, {})
  BY <1>1, <1>2 DEF ListsFirst
<1>8. list \in Seq(AllIds(cfg)) /\ last \in BOOLEAN /\ returned = "running" /\ Grows({})
      /\ offered \in Seq(Made(cfg))
  BY <1>0, <1>1, Runs, NothingGrows DEF DataTypeOK
<1> QED
  BY <1>1, <1>2, <1>5, <1>6, <1>7, <1>8, WriterMoves

LEMMA AddToBufferInv ==
    ASSUME GoodInv, NEW w \in DOMAIN writers, AddToBuffer(w)
    PROVE  GoodInv' /\ TableKept
<1> DEFINE b == Append(writers[w].buffer, writers[w].record)
           x == [writers[w] EXCEPT !.pc = "limit", !.record = <<>>, !.buffer = b]
<1>0. DataTypeOK /\ WritersKeep
  BY DEF GoodInv
<1>1. /\ cfg.Output = "dynamodb" /\ writers[w].pc = "put"
      /\ UNCHANGED <<cfg, generation, offered, last, returned, stored, list, orphans, filled>>
  BY DEF AddToBuffer
<1>2. writers[w] \in Writers(cfg) /\ writers \in [DOMAIN writers -> Writers(cfg)]
      /\ writers[w].buffer \in Seq(Made(cfg)) /\ writers[w].record \in Made(cfg)
  BY <1>0, <1>1, WriterType, LenProperties DEF WritersKeep
<1>3. b \in Seq(Made(cfg)) /\ Range(b) = Range(writers[w].buffer) \cup {writers[w].record}
  BY <1>2, AppendSet
<1>4. writers' = [writers EXCEPT ![w] = x]
  BY <1>2 DEF AddToBuffer, Writers
<1> HIDE DEF b
<1>5. x \in Writers(cfg) /\ x.pc = "limit" /\ x.buffer = b
  BY <1>2, <1>3 DEF Writers, Steps
<1> HIDE DEF x
<1>6. Orderly(x)
  BY <1>1, <1>5 DEF Orderly
<1>7. HandsOn(w, x)
  BY <1>1, <1>3, <1>5 DEF HandsOn, In
<1>8. ListsFirst(x, {})
  BY <1>1 DEF ListsFirst, Batches
<1>9. list \in Seq(AllIds(cfg)) /\ last \in BOOLEAN /\ returned = "running" /\ Grows({})
      /\ offered \in Seq(Made(cfg))
  BY <1>0, <1>1, Runs, NothingGrows DEF DataTypeOK
<1> QED
  BY <1>1, <1>4, <1>5, <1>6, <1>7, <1>8, <1>9, WriterMoves

\* A flush that succeeds, by the writer or behind its back.
LEMMA FlushInv ==
    ASSUME GoodInv, NEW w \in DOMAIN writers, NEW p \in Steps, Flushed(w, p),
           returned = "running", writers[w].pc # "done" \/ writers[w].buffer # <<>>,
           p = writers[w].pc \/ (p = "take" /\ writers[w].pc = "limit"),
           cfg.Output # "aerospike",
           UNCHANGED <<cfg, generation, offered, last, returned, list, orphans, filled>>
    PROVE  GoodInv' /\ TableKept
<1>0. DataTypeOK /\ WritersKeep /\ RowsAreMade
  BY DEF GoodInv
<1>1. PICK b \in Seq(Made(cfg)), R \in SUBSET Made(cfg) :
         /\ writers' = [writers EXCEPT ![w] = [writers[w] EXCEPT !.pc = p, !.buffer = b]]
         /\ Grows(R)
         /\ \A r \in Range(writers[w].buffer) : r \in Range(b) \/ Written(r.id)'
  BY <1>0, FlushedKeeps
<1> DEFINE x == [writers[w] EXCEPT !.pc = p, !.buffer = b]
<1>2. writers[w] \in Writers(cfg)
  BY <1>0, WriterType
<1>3. x \in Writers(cfg) /\ x.pc = p /\ x.buffer = b /\ x.record = writers[w].record
  BY <1>1, <1>2 DEF Writers
<1>4. writers' = [writers EXCEPT ![w] = x]
  BY <1>1
<1> HIDE DEF x
<1>5. Orderly(x)
  BY <1>0, <1>3 DEF Orderly, WritersKeep
<1>6. HandsOn(w, x)
  BY <1>1, <1>3 DEF HandsOn, In
<1>7. ListsFirst(x, R)
  BY DEF ListsFirst, Batches
<1>8. list \in Seq(AllIds(cfg)) /\ last \in BOOLEAN /\ offered \in Seq(Made(cfg))
  BY <1>0 DEF DataTypeOK
<1> QED
  BY <1>1, <1>3, <1>4, <1>5, <1>6, <1>7, <1>8, WriterMoves

\* A writer that fails leaves what it holds; the run has failed then.
LEMMA FailInv ==
    ASSUME GoodInv, NEW w \in DOMAIN writers, WriterFails(w), returned = "running",
           NEW R \in SUBSET Made(cfg), Grows(R), Batches => \A r \in R : r.id \in Range(list'),
           list' \in Seq(AllIds(cfg)), Range(list) \subseteq Range(list'),
           Batches => orphans \subseteq Range(list') \cup orphans',
           UNCHANGED <<cfg, generation, offered, returned, filled>>
    PROVE  GoodInv' /\ TableKept
<1>0. DataTypeOK /\ WritersKeep
  BY DEF GoodInv
<1>1. PICK x \in Writers(cfg) :
         writers' = [writers EXCEPT ![w] = x] /\ x.pc = "done" /\ x.buffer = writers[w].buffer
  BY <1>0, Going DEF Steps, WriterFails
<1>2. last'
  BY DEF WriterFails
<1>3. Orderly(x) /\ HandsOn(w, x) /\ ListsFirst(x, R)
  BY <1>0, <1>1, <1>2 DEF Orderly, HandsOn, ListsFirst, WritersKeep
<1>4. offered \in Seq(Made(cfg)) /\ last' \in BOOLEAN
  BY <1>0, <1>2 DEF DataTypeOK, WriterFails
<1> QED
  BY <1>1, <1>2, <1>3, <1>4, WriterMoves

LEMMA FlushFailInv ==
    ASSUME GoodInv, NEW w \in DOMAIN writers, FlushFails(w), WriterFails(w), returned = "running",
           cfg.Output # "aerospike", UNCHANGED <<cfg, generation, offered, returned, list, orphans, filled>>
    PROVE  GoodInv' /\ TableKept
<1>1. PICK R \in SUBSET Made(cfg) : Grows(R)
  BY FailingKeeps DEF GoodInv
<1>2. list \in Seq(AllIds(cfg))
  BY DEF GoodInv, DataTypeOK
<1> QED
  BY <1>1, <1>2, FailInv DEF Batches

LEMMA FlushFullInv ==
    ASSUME GoodInv, NEW w \in DOMAIN writers, FlushFull(w)
    PROVE  GoodInv' /\ TableKept
<1>0. DataTypeOK /\ WritersKeep
  BY DEF GoodInv
<1>1. /\ writers[w].pc = "limit" /\ returned = "running" /\ cfg.Output # "aerospike"
      /\ UNCHANGED <<cfg, generation, offered, returned, list, orphans, filled>>
  BY <1>0, Runs DEF FlushFull, WritersKeep
<1>2. CASE WriterGoes(w, "take") /\ UNCHANGED <<last, stored>>
  <2>1. PICK x \in Writers(cfg) :
           writers' = [writers EXCEPT ![w] = x] /\ x.pc = "take" /\ x.buffer = writers[w].buffer
    BY <1>0, <1>2, Going DEF Steps
  <2>2. Orderly(x) /\ HandsOn(w, x) /\ ListsFirst(x, {})
    BY <1>0, <1>1, <2>1 DEF Orderly, HandsOn, In, ListsFirst, Batches, WritersKeep
  <2>3. list \in Seq(AllIds(cfg)) /\ last \in BOOLEAN /\ offered \in Seq(Made(cfg)) /\ Grows({})
    BY <1>0, <1>2, NothingGrows DEF DataTypeOK
  <2> QED
    BY <1>1, <1>2, <2>1, <2>2, <2>3, WriterMoves
<1>3. CASE Flushed(w, "take") /\ UNCHANGED last
  BY <1>1, <1>3, FlushInv DEF Steps
<1>4. CASE FlushFails(w) /\ WriterFails(w)
  BY <1>1, <1>4, FlushFailInv
<1> QED
  BY <1>2, <1>3, <1>4 DEF FlushFull

LEMMA CloseConnectionInv ==
    ASSUME GoodInv, NEW w \in DOMAIN writers, CloseConnection(w)
    PROVE  GoodInv' /\ TableKept
<1>0. DataTypeOK /\ WritersKeep
  BY DEF GoodInv
<1>1. /\ writers[w].pc = "close" /\ returned = "running" /\ cfg.Output # "aerospike"
      /\ UNCHANGED <<cfg, generation, offered, returned, list, orphans, filled>>
  BY <1>0, Runs DEF CloseConnection, WritersKeep
<1>2. CASE writers[w].buffer = <<>> /\ WriterGoes(w, "done") /\ UNCHANGED <<last, stored>>
  <2>1. PICK x \in Writers(cfg) :
           writers' = [writers EXCEPT ![w] = x] /\ x.pc = "done" /\ x.buffer = writers[w].buffer
    BY <1>0, <1>2, Going DEF Steps
  <2>2. Orderly(x) /\ HandsOn(w, x) /\ ListsFirst(x, {})
    BY <1>0, <1>1, <1>2, <2>1 DEF Orderly, HandsOn, In, ListsFirst, Batches, WritersKeep
  <2>3. list \in Seq(AllIds(cfg)) /\ last \in BOOLEAN /\ offered \in Seq(Made(cfg)) /\ Grows({})
    BY <1>0, <1>2, NothingGrows DEF DataTypeOK
  <2> QED
    BY <1>1, <1>2, <2>1, <2>2, <2>3, WriterMoves
<1>3. CASE Flushed(w, "close") /\ UNCHANGED last
  BY <1>1, <1>3, FlushInv DEF Steps
<1>4. CASE FlushFails(w) /\ WriterFails(w)
  BY <1>1, <1>4, FlushFailInv
<1> QED
  BY <1>2, <1>3, <1>4 DEF CloseConnection

LEMMA TickFlushInv ==
    ASSUME GoodInv, NEW w \in DOMAIN writers, TickFlush(w)
    PROVE  GoodInv' /\ TableKept
<1>0. DataTypeOK /\ WritersKeep
  BY DEF GoodInv
<1>1. /\ writers[w].buffer # <<>> /\ returned = "running" /\ cfg.Output # "aerospike"
      /\ UNCHANGED <<cfg, generation, offered, last, returned, list, orphans, filled>>
  BY <1>0 DEF TickFlush, WritersKeep
<1>2. CASE Flushed(w, writers[w].pc)
  BY <1>0, <1>1, <1>2, FlushInv, WriterType
<1>3. CASE FlushFails(w) /\ UNCHANGED writers
  <2>1. PICK R \in SUBSET Made(cfg) : Grows(R)
    BY <1>0, <1>3, FailingKeeps
  <2>2. writers[w] \in Writers(cfg) /\ writers' = [writers EXCEPT ![w] = writers[w]]
    <3>1. writers[w] \in Writers(cfg) /\ writers \in [DOMAIN writers -> Writers(cfg)]
      BY <1>0, WriterType, LenProperties
    <3> QED
      BY <1>3, <3>1
  <2>3. Orderly(writers[w]) /\ HandsOn(w, writers[w]) /\ ListsFirst(writers[w], R)
    BY <1>0, <1>1 DEF Orderly, HandsOn, ListsFirst, Batches, WritersKeep
  <2>4. list \in Seq(AllIds(cfg)) /\ last \in BOOLEAN /\ offered \in Seq(Made(cfg))
    BY <1>0 DEF DataTypeOK
  <2> QED
    BY <1>1, <2>1, <2>2, <2>3, <2>4, WriterMoves
<1> QED
  BY <1>2, <1>3 DEF TickFlush

\* The key of a batch is listed, or may be, before the batch is stored.
LEMMA AppendKeyInv ==
    ASSUME GoodInv, NEW w \in DOMAIN writers, AppendKey(w)
    PROVE  GoodInv' /\ TableKept
<1> DEFINE record == writers[w].record
           longer == Append(list, record.id)
<1>0. DataTypeOK /\ WritersKeep
  BY DEF GoodInv
<1>1. /\ writers[w].pc = "put" /\ returned = "running"
      /\ UNCHANGED <<cfg, generation, offered, returned, stored, orphans, filled>>
  BY Runs DEF AppendKey
<1>2. record \in Made(cfg) /\ writers[w] \in Writers(cfg)
  BY <1>0, <1>1, WriterType DEF WritersKeep
<1>3. /\ list \in Seq(AllIds(cfg)) /\ longer \in Seq(AllIds(cfg))
      /\ Range(longer) = Range(list) \cup {record.id}
  <2>1. record.id \in Ids(cfg) /\ cfg \in Like(cfg)
    BY <1>0, <1>2 DEF Ids, Like, DataTypeOK
  <2>2. record.id \in AllIds(cfg)
    BY <2>1 DEF AllIds
  <2> QED
    BY <1>0, <2>2, AppendSet DEF DataTypeOK
<1> HIDE DEF longer
<1>4. Grows({})
  BY <1>1, NothingGrows
<1>5. CASE list' = longer /\ WriterGoes(w, "bins") /\ UNCHANGED last
  <2>1. PICK x \in Writers(cfg) :
           /\ writers' = [writers EXCEPT ![w] = x] /\ x.pc = "bins"
           /\ x.buffer = writers[w].buffer /\ x.record = record
    BY <1>0, <1>2, <1>5, Going DEF Steps
  <2>2. Orderly(x)
    BY <1>0, <1>2, <2>1 DEF Orderly, WritersKeep
  <2>3. HandsOn(w, x) /\ ListsFirst(x, {})
    BY <1>1, <1>3, <1>5, <2>1 DEF HandsOn, In, ListsFirst
  <2>4. last \in BOOLEAN /\ offered \in Seq(Made(cfg))
    BY <1>0 DEF DataTypeOK
  <2> QED
    BY <1>1, <1>3, <1>4, <1>5, <2>1, <2>2, <2>3, <2>4, WriterMoves
<1>6. CASE list' \in {longer, list} /\ WriterFails(w)
  BY <1>1, <1>3, <1>4, <1>6, FailInv
<1> QED
  BY <1>5, <1>6 DEF AppendKey, Applied, longer

LEMMA PutBinsInv ==
    ASSUME GoodInv, NEW w \in DOMAIN writers, PutBins(w)
    PROVE  GoodInv' /\ TableKept
<1>0. DataTypeOK /\ WritersKeep /\ Listed
  BY DEF GoodInv
<1>1. /\ writers[w].pc = (IF cfg.Type = "budgets" THEN "bins" ELSE "put") /\ returned = "running"
      /\ UNCHANGED <<cfg, generation, offered, returned, list, filled>>
      /\ orphans \subseteq {writers[w].record.id} \cup orphans'
  BY Runs DEF PutBins
<1>2. PICK record \in Made(cfg) : record = writers[w].record
  BY <1>0, <1>1 DEF WritersKeep
<1>3. Batches => record.id \in Range(list) /\ orphans \subseteq Range(list') \cup orphans'
  BY <1>0, <1>1, <1>2 DEF Listed, Batches
<1>4. list \in Seq(AllIds(cfg)) /\ last \in BOOLEAN /\ offered \in Seq(Made(cfg))
  BY <1>0 DEF DataTypeOK
<1>5. CASE stored' = Storing(record) /\ WriterGoes(w, "take") /\ UNCHANGED last
  <2>1. PICK x \in Writers(cfg) :
           /\ writers' = [writers EXCEPT ![w] = x] /\ x.pc = "take" /\ x.buffer = writers[w].buffer
    BY <1>0, <1>5, Going DEF Steps
  <2>2. Grows({record}) /\ Written(record.id)'
    BY <1>1, <1>5, StoringGrows DEF Written
  <2>3. Orderly(x)
    BY <1>0, <2>1 DEF Orderly, WritersKeep
  <2>4. HandsOn(w, x)
    BY <1>1, <1>2, <2>1, <2>2 DEF HandsOn, In
  <2>5. ListsFirst(x, {record})
    BY <1>1, <1>3, <2>1 DEF ListsFirst, Batches
  <2> QED
    BY <1>1, <1>2, <1>4, <1>5, <2>1, <2>2, <2>3, <2>4, <2>5, WriterMoves
<1>6. CASE stored' \in {Storing(record), stored} /\ WriterFails(w)
  <2>1. PICK R \in {{}, {record}} : Grows(R)
    BY <1>6, StoringGrows, NothingGrows
  <2> QED
    BY <1>1, <1>2, <1>3, <1>4, <1>6, <2>1, FailInv
<1> QED
  BY <1>2, <1>5, <1>6 DEF PutBins, Applied

-----------------------------------------------------------------------------
(***************************************************************************)
(* What a run has written when all its writers are done and none failed.   *)
(***************************************************************************)
Complete ==
  /\ returned \in {"running", "nil"} /\ ~last /\ writers # <<>>
  /\ \A w \in DOMAIN writers : writers[w].pc = "done"

LEMMA NilIsComplete ==
    ASSUME GoodInv, returned = "nil"
    PROVE  Complete
BY DEF GoodInv, WritersKeep, Complete

LEMMA WrittenIsMade ==
    ASSUME GoodInv, NEW id, Written(id)
    PROVE  \E r \in Made(cfg) : r.id = id /\ r.data = stored[id].data
<1>1. IsRow(id, cfg)
  BY DEF GoodInv, RowsAreMade, Written
<1>2. PICK r \in Made(cfg) :
         r.id = id /\ stored[id] = [generation |-> stored[id].generation, data |-> r.data]
  BY <1>1 DEF IsRow
<1>3. stored[id].data = r.data
  BY <1>2
<1> QED
  BY <1>2, <1>3

LEMMA AllWritten ==
    ASSUME GoodInv, Complete, NEW r \in Made(cfg)
    PROVE  Written(r.id)
<1>0. DataTypeOK /\ WritersKeep /\ NothingLost
  BY DEF GoodInv
<1>1. /\ ~last /\ writers # <<>> /\ \A w \in DOMAIN writers : writers[w].pc = "done"
      /\ returned \in {"running", "nil"}
  BY DEF Complete
<1>2. \E w \in DOMAIN writers : TRUE
  <2>1. writers \in Seq(Writers(cfg))
    BY <1>0 DEF DataTypeOK
  <2>2. Len(writers) # 0 /\ Len(writers) \in Nat /\ DOMAIN writers = 1 .. Len(writers)
    BY <1>1, <2>1, EmptySeq, LenProperties
  <2> QED
    BY <2>2
<1>3. Range(offered) = {}
  <2>1. offered = <<>>
    BY <1>0, <1>1, <1>2 DEF WritersKeep
  <2> QED
    BY <2>1, EmptyRange
<1>4. \A w \in DOMAIN writers : ~HeldBy(w, r)
  <2> TAKE w \in DOMAIN writers
  <2>1. writers[w].pc = "done" /\ writers[w].buffer = <<>>
    BY <1>0, <1>1 DEF WritersKeep
  <2> QED
    BY <2>1, EmptyRange DEF HeldBy
<1>5. r \in Range(offered) \/ (\E w \in DOMAIN writers : HeldBy(w, r)) \/ Written(r.id)
  BY <1>0, <1>1 DEF NothingLost
<1> QED
  BY <1>3, <1>4, <1>5

\* A row of the other tables is made from its key.
LEMMA RowOfKey ==
    ASSUME GoodInv, Complete, cfg.Type \in {"campaigns", "devices"},
           NEW key \in cfg.KeyLow .. cfg.KeyHigh
    PROVE  /\ Written(key)
           /\ cfg.Type = "devices" => stored[key].data = AudiencesOf(key, cfg)
<1>0. cfg \in Resolved /\ RowsAreMade
  BY DEF GoodInv, DataTypeOK
<1> DEFINE D(k) == IF cfg.Type = "campaigns" THEN "price" ELSE AudiencesOf(k, cfg)
<1>1. Records(cfg) = [i \in DOMAIN Keys(cfg) |-> Record(Keys(cfg)[i], D(Keys(cfg)[i]))]
  <2>1. CASE cfg.Type = "campaigns"
    BY <2>1 DEF Records
  <2>2. CASE cfg.Type = "devices"
    BY <2>2 DEF Records
  <2> QED
    BY <2>1, <2>2
<1> HIDE DEF D
<1>2. \A r \in Made(cfg) : r.data = D(r.id)
  BY <1>1 DEF Made, Range, Record
<1>3. \E r \in Made(cfg) : r.id = key
  <2>1. PICK i \in DOMAIN Keys(cfg) : Keys(cfg)[i] = key
    BY <1>0, KeysCover, KeysSeq
  <2> QED
    BY <1>1, <2>1 DEF Made, Range, Record
<1>4. Written(key)
  BY <1>3, AllWritten
<1>5. stored[key].data = D(key)
  BY <1>2, <1>4, WrittenIsMade
<1> QED
  BY <1>4, <1>5 DEF D

-----------------------------------------------------------------------------
(***************************************************************************)
(* A run as a whole.                                                       *)
(***************************************************************************)
LEMMA TableStays ==
    ASSUME RowsAreMade, generation \in Nat, generation' \in Nat,
           stored' = stored, cfg' \in Resolved, cfg'.Type = cfg.Type, cfg'.Output = cfg.Output,
           generation' > generation \/ (generation' = generation /\ cfg' = cfg)
    PROVE  RowsAreMade' /\ TableKept
<1>1. \A id, c : IsRow(id, c)' <=> IsRow(id, c)
  BY DEF IsRow, Made
<1>2. Like(cfg)' = Like(cfg)
  BY DEF Like
<1>3. ASSUME NEW id \in DOMAIN stored
      PROVE  /\ stored[id].generation \in 0 .. generation'
             /\ \E c \in Like(cfg)' : IsRow(id, c)'
             /\ stored[id].generation = generation' => IsRow(id, cfg)'
             /\ stored[id].generation >= stored[id].generation
  <2>1. /\ stored[id].generation \in 0 .. generation
        /\ \E c \in Like(cfg) : IsRow(id, c)
        /\ stored[id].generation = generation => IsRow(id, cfg)
    BY DEF RowsAreMade
  <2>2. stored[id].generation = generation' => IsRow(id, cfg)'
    BY <2>1 DEF IsRow, Made
  <2> QED
    BY <1>1, <1>2, <2>1, <2>2
<1>4. IsFiniteSet(DOMAIN stored')
  BY DEF RowsAreMade
<1> QED
  BY <1>3, <1>4 DEF RowsAreMade, TableKept

LEMMA GenerateInv ==
    ASSUME GoodInv, Generate
    PROVE  GoodInv' /\ TableKept
<1>0. DataTypeOK /\ RowsAreMade /\ Listed /\ Filled
  BY DEF GoodInv
<1>1. /\ generation' = generation + 1 /\ offered' = Records(cfg')
      /\ writers' = [w \in 1 .. cfg'.Concurrency |-> Idle]
      /\ last' = FALSE /\ returned' = "running"
      /\ cfg' \in Resolved /\ cfg'.Type = cfg.Type /\ cfg'.Output = cfg.Output
      /\ UNCHANGED <<stored, list, orphans, filled>>
  BY DEF Generate, Resolved
<1>2. cfg'.Concurrency \in Nat \ {0}
  BY <1>1, ResolvedType DEF Resolutions, Positive
<1>3. Idle \in Writers(cfg') /\ Idle.pc = "take" /\ Idle.buffer = <<>>
  BY DEF Idle, Writers, Steps
<1>4. writers' \in Seq(Writers(cfg')) /\ writers' # <<>> /\ \A w \in DOMAIN writers' : writers'[w] = Idle
  <2>1. writers' \in Seq(Writers(cfg')) /\ Len(writers') = cfg'.Concurrency
    BY <1>1, <1>2, <1>3
  <2> QED
    BY <1>1, <1>2, <2>1
<1>5. offered' \in Seq(Made(cfg')) /\ Range(offered') = Made(cfg')
  BY <1>1, RecordsSeq DEF Made
<1>6. DataTypeOK'
  <2>1. generation' \in Nat /\ last' \in BOOLEAN /\ returned' \in {"none", "running", "nil", "error"}
    <3>1. generation \in Nat /\ generation' = generation + 1
      BY <1>0, <1>1 DEF DataTypeOK
    <3>2. last' = FALSE /\ returned' = "running"
      BY <1>1
    <3>3. generation' \in Nat
      BY ONLY <3>1
    <3>4. last' \in BOOLEAN
      BY ONLY <3>2
    <3> QED
      BY ONLY <3>2, <3>3, <3>4
  <2>2. list' \in Seq(AllIds(cfg)) /\ AllIds(cfg)' = AllIds(cfg)
    BY <1>0, <1>1 DEF DataTypeOK, AllIds, Like, Ids, Made
  <2>3. offered' \in Seq(Made(cfg)') /\ writers' \in Seq(Writers(cfg)')
    BY <1>4, <1>5 DEF Made, Writers
  <2> QED
    BY <1>1, <2>1, <2>2, <2>3 DEF DataTypeOK
<1>7. WritersKeep'
  BY <1>1, <1>3, <1>4 DEF WritersKeep
<1>8. NothingLost'
  BY <1>1, <1>5 DEF NothingLost, Made
<1>9. Listed' /\ Filled'
  BY <1>0, <1>1, <1>3, <1>4 DEF Listed, Batches, Filled
<1>10. RowsAreMade' /\ TableKept
  <2>1. generation \in Nat /\ generation' \in Nat /\ generation' > generation
    BY <1>0, <1>1 DEF DataTypeOK
  <2> QED
    BY <1>0, <1>1, <2>1, TableStays
<1> QED
  BY <1>6, <1>7, <1>8, <1>9, <1>10 DEF GoodInv

LEMMA ClearBudgetBatchesInv ==
    ASSUME GoodInv, ClearBudgetBatches
    PROVE  GoodInv' /\ TableKept
<1>0. DataTypeOK /\ RowsAreMade /\ WritersKeep /\ NothingLost /\ Listed /\ Filled
  BY DEF GoodInv
<1>1. /\ returned # "running" /\ list' = <<>> /\ orphans' = DOMAIN stored
      /\ UNCHANGED <<cfg, generation, offered, writers, last, returned, stored, filled>>
  BY DEF ClearBudgetBatches
<1>2. DataTypeOK'
  BY <1>0, <1>1, EmptySeq DEF DataTypeOK
<1>3. WritersKeep'
  BY <1>0, <1>1 DEF WritersKeep
<1>4. NothingLost'
  BY <1>0, <1>1 DEF NothingLost, HeldBy, Written
<1>5. Listed' /\ Filled'
  BY <1>0, <1>1 DEF Listed, Batches, WritersKeep, Filled
<1>6. RowsAreMade' /\ TableKept
  BY <1>0, <1>1, TableStays DEF DataTypeOK
<1> QED
  BY <1>2, <1>3, <1>4, <1>5, <1>6 DEF GoodInv

\* A run that did not fail has written the whole range.
LEMMA ReturnInv ==
    ASSUME GoodInv, Return
    PROVE  GoodInv' /\ TableKept
<1>0. DataTypeOK /\ RowsAreMade /\ WritersKeep /\ NothingLost /\ Listed /\ Filled
  BY DEF GoodInv
<1>1. /\ returned = "running" /\ \A w \in DOMAIN writers : writers[w].pc = "done"
      /\ returned' = (IF last THEN "error" ELSE "nil")
      /\ filled' = IF last THEN filled ELSE filled \cup (cfg.KeyLow .. cfg.KeyHigh)
      /\ UNCHANGED <<cfg, generation, offered, writers, last, stored, list, orphans>>
  BY DEF Return
<1>2. DataTypeOK'
  <2>1. returned' \in {"nil", "error"}
    BY <1>1
  <2> QED
    BY <1>0, <1>1, <2>1 DEF DataTypeOK
<1>3. WritersKeep'
  BY <1>0, <1>1 DEF WritersKeep
<1>4. NothingLost'
  BY <1>0, <1>1 DEF NothingLost, HeldBy, Written
<1>5. Listed'
  BY <1>0, <1>1 DEF Listed, Batches
<1>6. Filled'
  <2>1. CASE last
    BY <1>0, <1>1, <2>1 DEF Filled
  <2>2. CASE ~last /\ cfg.Type = "devices"
    <3>1. Complete
      BY <1>0, <1>1, <2>2 DEF Complete, WritersKeep
    <3>2. \A key \in cfg.KeyLow .. cfg.KeyHigh : key \in DOMAIN stored
      BY <2>2, <3>1, RowOfKey DEF Written
    <3> QED
      BY <1>0, <1>1, <2>2, <3>2 DEF Filled
  <2>3. CASE cfg.Type # "devices"
    BY <1>1, <2>3 DEF Filled
  <2> QED
    BY <2>1, <2>2, <2>3
<1>7. RowsAreMade' /\ TableKept
  BY <1>0, <1>1, TableStays DEF DataTypeOK
<1> QED
  BY <1>2, <1>3, <1>4, <1>5, <1>6, <1>7 DEF GoodInv

LEMMA DataNextInv ==
    ASSUME GoodInv, DataNext
    PROVE  GoodInv' /\ TableKept
<1>1. CASE Generate \/ ClearBudgetBatches \/ Return
  BY <1>1, GenerateInv, ClearBudgetBatchesInv, ReturnInv
<1>2. ASSUME NEW w \in DOMAIN writers,
             \/ Take(w) \/ TakeNone(w) \/ AddToBuffer(w) \/ FlushFull(w) \/ CloseConnection(w)
             \/ TickFlush(w) \/ AppendKey(w) \/ PutBins(w)
      PROVE  GoodInv' /\ TableKept
  BY <1>2, TakeInv, TakeNoneInv, AddToBufferInv, FlushFullInv, CloseConnectionInv, TickFlushInv,
     AppendKeyInv, PutBinsInv
<1> QED
  BY <1>1, <1>2 DEF DataNext

\* A step that changes nothing of the generator.
LEMMA DataStays ==
    ASSUME GoodInv, UNCHANGED dataVars
    PROVE  GoodInv' /\ TableKept
<1>0. DataTypeOK /\ RowsAreMade /\ WritersKeep /\ NothingLost /\ Listed /\ Filled
  BY DEF GoodInv
<1>1. UNCHANGED <<cfg, generation, offered, writers, last, returned, stored, list, orphans, filled>>
  BY DEF dataVars
<1>2. DataTypeOK'
  BY <1>0, <1>1 DEF DataTypeOK
<1>3. WritersKeep' /\ NothingLost'
  BY <1>0, <1>1 DEF WritersKeep, NothingLost, HeldBy, Written
<1>4. Listed' /\ Filled'
  BY <1>0, <1>1 DEF Listed, Batches, Filled
<1>5. RowsAreMade' /\ TableKept
  BY <1>0, <1>1, TableStays DEF DataTypeOK
<1> QED
  BY <1>2, <1>3, <1>4, <1>5 DEF GoodInv

LEMMA DataInitInv ==
    ASSUME DataInit
    PROVE  GoodInv /\ cfg \in Resolved
<1>1. /\ cfg \in Resolved
      /\ generation = 0 /\ offered = <<>> /\ writers = <<>> /\ last = FALSE
      /\ returned = "none" /\ stored = <<>> /\ list = <<>>
      /\ orphans = {} /\ filled = {}
  BY DEF DataInit, Resolved
<1>2. DataTypeOK
  <2>1. \A S : <<>> \in Seq(S)
    BY EmptySeq
  <2>2. generation \in Nat /\ last \in BOOLEAN
        /\ returned \in {"none", "running", "nil", "error"}
    BY <1>1
  <2>3. offered \in Seq(Made(cfg)) /\ writers \in Seq(Writers(cfg)) /\ list \in Seq(AllIds(cfg))
    BY <1>1, <2>1
  <2> QED
    BY <1>1, <2>2, <2>3 DEF DataTypeOK
<1>3. DOMAIN stored = {} /\ DOMAIN writers = {} /\ IsFiniteSet({})
  BY <1>1, FS_EmptySet
<1> QED
  BY <1>1, <1>2, <1>3 DEF GoodInv, RowsAreMade, WritersKeep, NothingLost, Listed, Filled

-----------------------------------------------------------------------------
(***************************************************************************)
(* The keys of a batch of budgets.                                         *)
(***************************************************************************)
LEMMA SubSeqSet ==
    ASSUME NEW S, NEW s \in Seq(S), NEW m \in 1 .. Len(s) + 1, NEW n \in 0 .. Len(s)
    PROVE  /\ SubSeq(s, m, n) \in Seq(S)
           /\ \A x : x \in Range(SubSeq(s, m, n)) <=> \E i \in m .. n : s[i] = x
<1> DEFINE u == SubSeq(s, m, n)
<1>1. Len(s) \in Nat /\ m \in Int /\ n \in Int
  BY LenProperties
<1>2. \A i \in m .. n : s[i] \in S
  <2> TAKE i \in m .. n
  <2>1. i \in 1 .. Len(s)
    BY <1>1
  <2> QED
    BY <2>1, RangeSeq
<1>3. /\ u \in Seq(S)
      /\ Len(u) = IF m <= n THEN n - m + 1 ELSE 0
      /\ \A i \in 1 .. n - m + 1 : u[i] = s[m + i - 1]
  BY <1>1, <1>2, SubSeqProperties
<1> HIDE DEF u
<1>4. ASSUME NEW i \in 1 .. Len(u)
      PROVE  \E j \in m .. n : s[j] = u[i]
  <2>1. i \in 1 .. n - m + 1 /\ m + i - 1 \in m .. n
    BY <1>1, <1>3
  <2> QED
    BY <1>3, <2>1
<1>5. ASSUME NEW j \in m .. n
      PROVE  \E i \in 1 .. Len(u) : u[i] = s[j]
  <2> DEFINE i == j - m + 1
  <2>1. i \in 1 .. Len(u) /\ i \in 1 .. n - m + 1 /\ m + i - 1 = j
    BY <1>1, <1>3
  <2> QED
    BY <1>3, <2>1
<1>6. \A x : x \in Range(u) <=> \E i \in 1 .. Len(u) : u[i] = x
  BY <1>3, RangeSeq
<1>7. \A x : x \in Range(u) => \E i \in m .. n : s[i] = x
  BY <1>4, <1>6
<1>8. \A x : (\E i \in m .. n : s[i] = x) => x \in Range(u)
  BY <1>5, <1>6
<1> QED
  BY <1>3, <1>7, <1>8 DEF u

\* Position i of the keys belongs to batch id.
Belongs(c, i, id) == (id - 1) * c.BudgetBatchSize < i /\ i <= id * c.BudgetBatchSize

LEMMA BatchKeys ==
    ASSUME NEW c \in Resolved, c.Type = "budgets", NEW r \in Made(c)
    PROVE  /\ r.id \in 1 .. Count(c) /\ r = Records(c)[r.id]
           /\ r.data \in Seq(Nat)
           /\ \A key : key \in Range(r.data) <=>
                \E i \in 1 .. Len(Keys(c)) : Keys(c)[i] = key /\ Belongs(c, i, r.id)
<1> DEFINE size == c.BudgetBatchSize
           n == Len(Keys(c))
<1>1. size \in Nat \ {0} /\ n \in Nat /\ Keys(c) \in Seq(Nat)
  BY KeysSeq, ResolvedType, LenProperties DEF Resolutions, Positive
<1>2. /\ Records(c) \in Seq(Made(c)) /\ Records(c) = BudgetBatches(c)
      /\ DOMAIN Records(c) = 1 .. Count(c)
  BY RecordsSeq, ResolvedType DEF Resolutions
<1>3. PICK id \in 1 .. Count(c) : r = BudgetBatches(c)[id]
  BY <1>2 DEF Made, Range
<1>4. r = Record(id, SubSeq(Keys(c), (id - 1) * size + 1, Least(id * size, n)))
  BY <1>3 DEF BudgetBatches, Count
<1>5. /\ r.id = id /\ r = Records(c)[id]
      /\ r.data = SubSeq(Keys(c), (id - 1) * size + 1, Least(id * size, n))
  <2> DEFINE d == SubSeq(Keys(c), (id - 1) * size + 1, Least(id * size, n))
  <2>1. r = Record(id, d)
    BY <1>4
  <2> HIDE DEF d
  <2>2. r.id = id /\ r.data = d
    BY <2>1 DEF Record
  <2> QED
    BY <1>2, <1>3, <2>2 DEF d
<1>6. id \in Nat \ {0} /\ Count(c) = ((n + size) - 1) \div size
  <2>1. id \in Nat \ {0}
    BY <1>3
  <2> QED
    BY <2>1 DEF Count
<1> DEFINE low == (id - 1) * size
           high == id * size
<1>7. low \in Nat /\ high \in Nat /\ high = low + size
  BY <1>1, <1>6, Times
<1>8. low <= n
  <2> DEFINE a == (n + size) - 1
             q == a \div size
  <2>1. a \in Nat /\ a - n = size - 1
    BY <1>1
  <2> HIDE DEF a
  <2>2. q \in Nat /\ q * size <= a
    BY <1>1, <2>1, Quotient
  <2>3. id <= q
    BY <1>3, <1>6, <2>2 DEF a
  <2> HIDE DEF q
  <2>4. high <= q * size /\ q * size \in Nat
    BY <1>1, <1>6, <2>2, <2>3, Times
  <2> HIDE DEF low, high, n
  <2> QED
    BY <1>1, <1>7, <2>1, <2>2, <2>4
<1> HIDE DEF low, high, n
<1>9. /\ low + 1 \in 1 .. n + 1 /\ Least(high, n) \in 0 .. n
      /\ \A i \in 1 .. n : i \in low + 1 .. Least(high, n) <=> (low < i /\ i <= high)
      /\ low + 1 .. Least(high, n) \subseteq 1 .. n
  BY <1>1, <1>7, <1>8 DEF Least
<1>10. r.data = SubSeq(Keys(c), low + 1, Least(high, n))
  BY <1>5 DEF low, high, n
<1>11. /\ r.data \in Seq(Nat)
       /\ \A key : key \in Range(r.data) <=> \E i \in low + 1 .. Least(high, n) : Keys(c)[i] = key
  <2>1. low + 1 \in 1 .. Len(Keys(c)) + 1 /\ Least(high, n) \in 0 .. Len(Keys(c))
    BY <1>9 DEF n
  <2> QED
    <3> DEFINE m == low + 1
               l == Least(high, n)
    <3>1. m \in 1 .. Len(Keys(c)) + 1 /\ l \in 0 .. Len(Keys(c)) /\ r.data = SubSeq(Keys(c), m, l)
      BY <1>10, <2>1
    <3> HIDE DEF m, l
    <3>2. PICK keys \in Seq(Nat) : keys = Keys(c)
      BY <1>1
    <3>3. m \in 1 .. Len(keys) + 1 /\ l \in 0 .. Len(keys)
      BY <3>1, <3>2
    <3>4. /\ SubSeq(keys, m, l) \in Seq(Nat)
          /\ \A x : x \in Range(SubSeq(keys, m, l)) <=> \E i \in m .. l : keys[i] = x
      BY ONLY <3>3, SubSeqSet, keys \in Seq(Nat)
    <3>5. r.data = SubSeq(keys, m, l)
      BY <3>1, <3>2
    <3>6. /\ r.data \in Seq(Nat)
          /\ \A key : key \in Range(r.data) <=> \E i \in m .. l : keys[i] = key
      BY <3>4, <3>5
    <3> QED
      BY <3>2, <3>6 DEF m, l
<1>12. \A i : Belongs(c, i, id) <=> (low < i /\ i <= high)
  BY DEF Belongs, low, high
<1>13. \A key : key \in Range(r.data) <=>
         \E i \in 1 .. n : Keys(c)[i] = key /\ Belongs(c, i, r.id)
  BY <1>5, <1>9, <1>11, <1>12
<1> QED
  BY <1>3, <1>5, <1>11, <1>13 DEF n

\* A position belongs to one batch.
LEMMA OneBatchEach ==
    ASSUME NEW c \in Resolved, NEW i \in Nat, NEW a \in Nat \ {0}, NEW b \in Nat \ {0},
           Belongs(c, i, a), Belongs(c, i, b)
    PROVE  a = b
<1> DEFINE size == c.BudgetBatchSize
<1>1. size \in Nat \ {0}
  BY ResolvedType DEF Resolutions, Positive
<1>2. ASSUME NEW x \in Nat \ {0}, NEW y \in Nat \ {0}, x < y PROVE x * size <= (y - 1) * size
  <2>1. y - 1 \in Nat \ {0} /\ x <= y - 1
    BY <1>2
  <2> QED
    BY <1>1, <2>1, Times
<1>3. /\ a * size \in Int /\ b * size \in Int /\ (a - 1) * size \in Int /\ (b - 1) * size \in Int
  BY <1>1, Times
<1>4. CASE a < b
  BY <1>2, <1>3, <1>4 DEF Belongs
<1>5. CASE b < a
  BY <1>2, <1>3, <1>5 DEF Belongs
<1> QED
  BY <1>4, <1>5

\* A record of a run is told by its ID, and batches share no key.
LEMMA BatchesDiffer ==
    ASSUME NEW c \in Resolved, c.Type = "budgets", NEW r \in Made(c), NEW q \in Made(c),
           r.id = q.id \/ Range(r.data) \cap Range(q.data) # {}
    PROVE  r = q
<1>1. CASE r.id = q.id
  BY <1>1, BatchKeys
<1>2. CASE Range(r.data) \cap Range(q.data) # {}
  <2>0. \A p \in Made(c) : \A key \in Range(p.data) :
          \E i \in 1 .. Len(Keys(c)) : Keys(c)[i] = key /\ Belongs(c, i, p.id)
    <3> SUFFICES ASSUME NEW p \in Made(c), NEW key \in Range(p.data)
                 PROVE  \E i \in 1 .. Len(Keys(c)) : Keys(c)[i] = key /\ Belongs(c, i, p.id)
      OBVIOUS
    <3>1. \A k : k \in Range(p.data) <=> \E i \in 1 .. Len(Keys(c)) : Keys(c)[i] = k /\ Belongs(c, i, p.id)
      BY BatchKeys
    <3> QED
      BY <3>1
  <2>1. PICK key : key \in Range(r.data) /\ key \in Range(q.data)
    BY <1>2
  <2>2. PICK i \in 1 .. Len(Keys(c)) : Keys(c)[i] = key /\ Belongs(c, i, r.id)
    BY <2>0, <2>1
  <2>3. PICK j \in 1 .. Len(Keys(c)) : Keys(c)[j] = key /\ Belongs(c, j, q.id)
    BY <2>0, <2>1
  <2>4. i = j
    <3>1. c.KeyLow \in Nat /\ i \in Nat /\ j \in Nat
      BY KeysSeq, LenProperties, ResolvedType DEF Resolutions
    <3>2. Keys(c)[i] = (c.KeyLow + i) - 1 /\ Keys(c)[j] = (c.KeyLow + j) - 1
      BY KeysSeq
    <3> QED
      BY <2>2, <2>3, <3>1, <3>2
  <2>5. r.id \in Nat \ {0} /\ q.id \in Nat \ {0}
    <3>1. r.id \in 1 .. Count(c) /\ q.id \in 1 .. Count(c)
      BY BatchKeys
    <3> QED
      BY <3>1
  <2>6. r.id = q.id
    BY <2>2, <2>3, <2>4, <2>5, OneBatchEach
  <2> QED
    BY <2>6, <1>1, BatchKeys
<1> QED
  BY <1>1, <1>2

-----------------------------------------------------------------------------
(***************************************************************************)
(* The reader.                                                             *)
(***************************************************************************)
Pcs == {"idle", "getAll", "scan", "nil", "error"}
Active == {"getAll", "scan", "nil"}

\* What a read owes of a batch.
Owing(id) ==
  /\ id \in DOMAIN stored /\ Newer(stored[id], owed[id])
  /\ id \in Range(reader.todo) \/ WasRead(id)

LEMMA ReadingIs ==
  Reading <=> /\ reader \in [pc : Pcs, todo : Seq(AllIds(cfg))]
              /\ reader.pc = "nil" => reader.todo = <<>>
              /\ reader.pc = "scan" => reader.todo \in Seq(DOMAIN stored)
              /\ reader.pc \in Active => \A id \in DOMAIN owed : Owing(id)
BY DEF Reading, Owing, Pcs, Active

LEMMA NewerStill ==
    ASSUME NEW a, NEW b, NEW c, Newer(a, b), Newer(b, c)
    PROVE  Newer(a, c)
BY DEF Newer

LEMMA RowsTyped ==
    ASSUME RowsAreMade, generation \in Nat, NEW id \in DOMAIN stored
    PROVE  /\ stored[id].generation \in Nat /\ Newer(stored[id], stored[id])
           /\ id \in AllIds(cfg)
<1>1. stored[id].generation \in Nat
  BY DEF RowsAreMade
<1>2. id \in AllIds(cfg)
  BY DEF RowsAreMade, IsRow, AllIds, Ids
<1> QED
  BY <1>1, <1>2 DEF Newer

\* A row is replaced by a newer one, or by itself: a run makes one batch of an
\* ID.
LEMMA RowsGetNewer ==
    ASSUME GoodInv, RowsAreMade', TableKept, Batches, NEW id \in DOMAIN stored
    PROVE  id \in DOMAIN stored' /\ Newer(stored'[id], stored[id])
<1>0. RowsAreMade /\ cfg \in Resolved /\ cfg.Type = "budgets" /\ generation \in Nat
  BY DEF GoodInv, DataTypeOK, Batches
<1>1. id \in DOMAIN stored' /\ stored[id].generation \in 0 .. generation
  BY <1>0 DEF TableKept, RowsAreMade
<1>2. stored[id].generation \in Nat
  BY <1>0, <1>1
<1>3. CASE stored'[id] = stored[id]
  BY <1>1, <1>2, <1>3 DEF Newer
<1>4. CASE stored'[id].generation = generation /\ cfg' = cfg /\ generation' = generation
  <2>1. CASE stored[id].generation < generation
    BY <1>0, <1>1, <1>2, <1>4, <2>1 DEF Newer
  <2>2. CASE stored[id].generation = generation
    <3>1. PICK r \in Made(cfg) :
             r.id = id /\ stored[id] = [generation |-> stored[id].generation, data |-> r.data]
      BY <1>0, <2>2 DEF RowsAreMade, IsRow
    <3>2. IsRow(id, cfg)'
      BY <1>1, <1>4 DEF RowsAreMade
    <3>3. PICK q \in Made(cfg) :
             q.id = id /\ stored'[id] = [generation |-> stored'[id].generation, data |-> q.data]
      BY <1>4, <3>2 DEF IsRow, Made
    <3>4. r = q
      BY <1>0, <3>1, <3>3, BatchesDiffer
    <3>5. stored'[id] = stored[id]
      BY <1>4, <2>2, <3>1, <3>3, <3>4
    <3> QED
      BY <1>3, <3>5
  <2> QED
    BY <1>0, <1>1, <1>2, <2>1, <2>2
<1> QED
  BY <1>3, <1>4 DEF TableKept

\* The generator does not disturb a read.
LEMMA ReadingKept ==
    ASSUME GoodInv, GoodInv', TableKept, Reading, OnlyBudgetsAreRead, UNCHANGED readerVars
    PROVE  Reading' /\ OnlyBudgetsAreRead'
<1>0. RowsAreMade' /\ cfg'.Type = cfg.Type /\ cfg'.Output = cfg.Output
  BY DEF GoodInv, TableKept
<1>1. reader' = reader /\ consumed' = consumed /\ owed' = owed
  BY DEF readerVars
<1>2. OnlyBudgetsAreRead'
  BY <1>0, <1>1 DEF OnlyBudgetsAreRead, Batches
<1>3. reader \in [pc : Pcs, todo : Seq(AllIds(cfg))] /\ (reader.pc = "nil" => reader.todo = <<>>)
  BY ReadingIs
<1>4. AllIds(cfg)' = AllIds(cfg)
  BY <1>0 DEF AllIds, Like, Ids, Made
<1>5. CASE ~Batches
  <2>1. reader.pc \notin Active /\ reader.pc # "scan"
    BY <1>5 DEF OnlyBudgetsAreRead, Active
  <2> QED
    BY <1>1, <1>2, <1>3, <1>4, <2>1 DEF Reading, Active, Pcs
<1>6. CASE Batches
  <2>1. DOMAIN stored \subseteq DOMAIN stored'
    BY DEF TableKept
  <2>2. ASSUME reader.pc = "scan" PROVE reader.todo \in Seq(DOMAIN stored')
    <3>1. reader.todo \in Seq(DOMAIN stored)
      BY <2>2, ReadingIs
    <3> QED
      BY <2>1, <3>1
  <2>3. ASSUME reader.pc \in Active, NEW id \in DOMAIN owed
        PROVE  /\ id \in DOMAIN stored' /\ Newer(stored'[id], owed[id])
               /\ id \in Range(reader.todo) \/ WasRead(id)
    <3>1. Owing(id)
      BY <2>3, ReadingIs
    <3>2. id \in DOMAIN stored /\ Newer(stored[id], owed[id])
      BY <3>1 DEF Owing
    <3>3. id \in DOMAIN stored' /\ Newer(stored'[id], stored[id])
      BY <1>0, <1>6, <3>2, RowsGetNewer
    <3> QED
      BY <3>1, <3>2, <3>3, NewerStill DEF Owing
  <2>4. \A id : WasRead(id)' <=> WasRead(id)
    BY <1>1 DEF WasRead, Newer
  <2> QED
    BY <1>1, <1>2, <1>3, <1>4, <2>2, <2>3, <2>4 DEF Reading, Active, Pcs, Newer
<1> QED
  BY <1>5, <1>6

\* Reading a batch consumes it as it is stored.
LEMMA ConsumedKeeps ==
    ASSUME \A id \in DOMAIN owed : Owing(id),
           NEW k \in DOMAIN stored, consumed' = Consumed(k), owed' = owed
    PROVE  \A id \in DOMAIN owed : (id = k \/ WasRead(id)) => WasRead(id)'
<1> SUFFICES ASSUME NEW id \in DOMAIN owed, id = k \/ WasRead(id)
             PROVE  id \in DOMAIN consumed' /\ Newer(consumed'[id], owed[id])
  BY DEF WasRead, Newer
<1>1. consumed' = [b \in DOMAIN consumed \cup {k} |-> IF b = k THEN stored[k] ELSE consumed[b]]
  BY DEF Consumed
<1>2. CASE id = k
  <2>1. Newer(stored[k], owed[id])
    BY <1>2 DEF Owing
  <2> QED
    BY <1>1, <1>2, <2>1
<1>3. CASE id # k
  BY <1>1, <1>3 DEF WasRead
<1> QED
  BY <1>2, <1>3

\* The steps of the reader leave the table alone.
LEMMA ReaderMoves ==
    ASSUME UNCHANGED dataVars, NEW pc \in Pcs, NEW todo \in Seq(AllIds(cfg)), reader' = At(pc, todo),
           pc = "nil" => todo = <<>>,
           pc = "scan" => todo \in Seq(DOMAIN stored),
           pc \in Active => \A id \in DOMAIN owed' :
             /\ id \in DOMAIN stored /\ Newer(stored[id], owed'[id])
             /\ id \in Range(todo) \/ WasRead(id)'
    PROVE  Reading'
<1>1. cfg' = cfg /\ stored' = stored
  BY DEF dataVars
<1>2. reader' \in [pc : Pcs, todo : Seq(AllIds(cfg))] /\ reader'.pc = pc /\ reader'.todo = todo
  BY DEF At
<1> QED
  BY <1>1, <1>2 DEF Reading, Active, Pcs, Newer, AllIds, Like, Ids, Made

\* What a read that begins owes.
LEMMA Promises ==
    ASSUME GoodInv, Batches, owed' \in {Promised, stored}, NEW id \in DOMAIN owed'
    PROVE  /\ id \in DOMAIN stored /\ Newer(stored[id], owed'[id])
           /\ owed' = Promised => id \in Range(list)
<1>1. RowsAreMade /\ generation \in Nat /\ DOMAIN stored \subseteq Range(list) \cup orphans
  BY DEF GoodInv, DataTypeOK, Listed
<1>2. id \in DOMAIN stored /\ owed'[id] = stored[id] /\ (owed' = Promised => id \notin orphans)
  BY DEF Promised
<1> QED
  BY <1>1, <1>2, RowsTyped

LEMMA GetKeysInv ==
    ASSUME GoodInv, Batches, UNCHANGED dataVars, GetKeys
    PROVE  Reading'
<1>0. list \in Seq(AllIds(cfg))
  BY DEF GoodInv, DataTypeOK
<1>1. owed' = Promised /\ reader' = IF list = <<>> THEN At("error", <<>>) ELSE At("getAll", list)
  BY DEF GetKeys
<1>2. CASE list = <<>>
  <2>1. <<>> \in Seq(AllIds(cfg)) /\ "error" \in Pcs /\ "error" \notin Active
    BY EmptySeq DEF Pcs, Active
  <2> QED
    BY <1>1, <1>2, <2>1, ReaderMoves
<1>3. CASE list # <<>>
  <2>1. "getAll" \in Pcs /\ reader' = At("getAll", list)
    BY <1>1, <1>3 DEF Pcs
  <2>2. \A id \in DOMAIN owed' :
          /\ id \in DOMAIN stored /\ Newer(stored[id], owed'[id])
          /\ id \in Range(list)
    BY <1>1, Promises
  <2> QED
    BY <1>0, <2>1, <2>2, ReaderMoves
<1> QED
  BY <1>2, <1>3

LEMMA ScanAllInv ==
    ASSUME GoodInv, Batches, UNCHANGED dataVars, ScanAll
    PROVE  Reading'
<1> DEFINE todo == SetToSeq(DOMAIN stored)
<1>1. owed' = stored /\ reader' = At("scan", todo)
  BY DEF ScanAll
<1>2. DOMAIN stored \subseteq AllIds(cfg)
  BY RowsTyped DEF GoodInv, DataTypeOK
<1>3. IsFiniteSet(DOMAIN stored)
  BY DEF GoodInv, RowsAreMade
<1>4. todo \in Seq(DOMAIN stored) /\ Range(todo) = DOMAIN stored
  BY <1>3, SetToSeqSet
<1> HIDE DEF todo
<1>5. todo \in Seq(AllIds(cfg)) /\ "scan" \in Pcs
  BY <1>2, <1>4 DEF Pcs
<1>6. \A id \in DOMAIN owed' :
        /\ id \in DOMAIN stored /\ Newer(stored[id], owed'[id])
        /\ id \in Range(todo)
  BY <1>1, <1>4, Promises
<1> QED
  BY <1>1, <1>4, <1>5, <1>6, ReaderMoves

\* The reader goes on to todo after it has read batch k.
LEMMA ReadsOne ==
    ASSUME GoodInv, Batches, UNCHANGED dataVars, Reading, reader.pc \in {"getAll", "scan"},
           NEW k \in DOMAIN stored, NEW todo \in Seq(AllIds(cfg)), reader' = At(reader.pc, todo),
           \A id \in Range(reader.todo) : id = k \/ id \in Range(todo),
           reader.pc = "scan" => todo \in Seq(DOMAIN stored),
           consumed' = Consumed(k), owed' = owed
    PROVE  Reading'
<1>1. reader.pc \in Pcs /\ reader.pc \in Active /\ reader.pc # "nil"
  BY DEF Pcs, Active
<1>2. \A id \in DOMAIN owed : Owing(id)
  BY <1>1, ReadingIs
<1>3. \A id \in DOMAIN owed : (id = k \/ WasRead(id)) => WasRead(id)'
  BY <1>2, ConsumedKeeps
<1>4. \A id \in DOMAIN owed' :
        /\ id \in DOMAIN stored /\ Newer(stored[id], owed'[id])
        /\ id \in Range(todo) \/ WasRead(id)'
  BY <1>2, <1>3 DEF Owing
<1> QED
  BY <1>1, <1>4, ReaderMoves

LEMMA GetBatchInv ==
    ASSUME GoodInv, Batches, UNCHANGED dataVars, Reading, GetBatch
    PROVE  Reading'
<1>1. reader.pc = "getAll" /\ reader.todo # <<>> /\ reader.todo \in Seq(AllIds(cfg)) /\ owed' = owed
  BY ReadingIs DEF GetBatch
<1> DEFINE k == Head(reader.todo)
<1>2. Tail(reader.todo) \in Seq(AllIds(cfg)) /\ Range(reader.todo) = {k} \cup Range(Tail(reader.todo))
  BY <1>1, TailSet
<1>3. CASE k \in DOMAIN stored
  <2>1. reader' = At("getAll", Tail(reader.todo)) /\ consumed' = Consumed(k)
    BY <1>3 DEF GetBatch
  <2> HIDE DEF k
  <2> QED
    BY <1>1, <1>2, <1>3, <2>1, ReadsOne
<1>4. CASE k \notin DOMAIN stored
  <2>1. reader' = At("error", <<>>)
    BY <1>4 DEF GetBatch
  <2>2. <<>> \in Seq(AllIds(cfg)) /\ "error" \in Pcs /\ "error" \notin Active
    BY EmptySeq DEF Pcs, Active
  <2> QED
    BY <2>1, <2>2, ReaderMoves
<1> QED
  BY <1>3, <1>4

LEMMA ScanRecordInv ==
    ASSUME GoodInv, Batches, UNCHANGED dataVars, Reading, ScanRecord
    PROVE  Reading'
<1>1. reader.pc = "scan" /\ reader.todo \in Seq(DOMAIN stored) /\ owed' = owed
  BY ReadingIs DEF ScanRecord
<1>2. PICK i \in DOMAIN reader.todo :
        reader' = At("scan", RemoveAt(reader.todo, i)) /\ consumed' = Consumed(reader.todo[i])
  BY DEF ScanRecord
<1> DEFINE k == reader.todo[i]
           todo == RemoveAt(reader.todo, i)
<1>3. k \in DOMAIN stored
  BY <1>1, <1>2, RangeSeq
<1>4. todo \in Seq(DOMAIN stored) /\ \A x \in Range(reader.todo) : x = k \/ x \in Range(todo)
  BY <1>1, <1>2, RemoveSet
<1> HIDE DEF k, todo
<1>5. DOMAIN stored \subseteq AllIds(cfg)
  BY RowsTyped DEF GoodInv, DataTypeOK
<1>6. todo \in Seq(AllIds(cfg))
  BY <1>4, <1>5
<1>7. reader' = At("scan", todo) /\ consumed' = Consumed(k)
  BY <1>2 DEF k, todo
<1> QED
  BY <1>1, <1>3, <1>4, <1>6, <1>7, ReadsOne

LEMMA ReadEndsInv ==
    ASSUME GoodInv, Batches, UNCHANGED dataVars, Reading, ReadEnds
    PROVE  Reading'
<1>1. /\ reader.pc \in {"getAll", "scan"} /\ reader.todo = <<>>
      /\ reader' = At("nil", <<>>) /\ consumed' = consumed /\ owed' = owed
  BY DEF ReadEnds
<1>2. reader.pc \in Active /\ "nil" \in Pcs /\ Range(reader.todo) = {} /\ <<>> \in Seq(AllIds(cfg))
  BY <1>1, EmptyRange, EmptySeq DEF Active, Pcs
<1>3. \A id \in DOMAIN owed : Owing(id)
  BY <1>2, ReadingIs
<1>4. \A id \in DOMAIN owed' :
        id \in DOMAIN stored /\ Newer(stored[id], owed'[id]) /\ WasRead(id)'
  BY <1>1, <1>2, <1>3 DEF Owing, WasRead, Newer
<1> QED
  BY <1>1, <1>2, <1>4, ReaderMoves

LEMMA ReadFailsInv ==
    ASSUME UNCHANGED dataVars, ReadFails
    PROVE  Reading'
<1>1. reader' = At("error", <<>>)
  BY DEF ReadFails
<1>2. <<>> \in Seq(AllIds(cfg)) /\ "error" \in Pcs /\ "error" \notin Active
  BY EmptySeq DEF Pcs, Active
<1> QED
  BY <1>1, <1>2, ReaderMoves

LEMMA ReaderNextInv ==
    ASSUME GoodInv, Reading, ReaderNext, UNCHANGED dataVars
    PROVE  Reading'
<1>1. Batches
  BY DEF ReaderNext, Batches
<1> QED
  BY <1>1, GetKeysInv, GetBatchInv, ScanAllInv, ScanRecordInv, ReadFailsInv, ReadEndsInv DEF ReaderNext

-----------------------------------------------------------------------------
(***************************************************************************)
(* The invariant is inductive.                                             *)
(***************************************************************************)
LEMMA DataInitially == DataInit /\ ReaderInit => DataInv
<1> SUFFICES ASSUME DataInit, ReaderInit PROVE DataInv
  OBVIOUS
<1>1. GoodInv /\ cfg \in Resolved
  BY DataInitInv
<1>2. reader.pc = "idle" /\ reader = [pc |-> "idle", todo |-> <<>>]
  BY DEF ReaderInit, At
<1>3. reader \in [pc : Pcs, todo : Seq(AllIds(cfg))]
  BY <1>2, EmptySeq DEF Pcs
<1>4. OnlyBudgetsAreRead /\ Reading
  BY <1>2, <1>3, ReadingIs DEF OnlyBudgetsAreRead, Active
<1> QED
  BY <1>1, <1>4 DEF DataInv, GoodInv

LEMMA DataInductive == DataInv /\ [BudgetsNext]_<<dataVars, readerVars>> => DataInv'
<1> SUFFICES ASSUME DataInv, [BudgetsNext]_<<dataVars, readerVars>> PROVE DataInv'
  OBVIOUS
<1>1. GoodInv /\ Reading /\ OnlyBudgetsAreRead
  BY DEF DataInv, GoodInv
<1>2. CASE DataNext /\ UNCHANGED readerVars
  <2>1. GoodInv' /\ TableKept
    BY <1>1, <1>2, DataNextInv
  <2>2. Reading' /\ OnlyBudgetsAreRead'
    BY <1>1, <1>2, <2>1, ReadingKept
  <2> QED
    BY <2>1, <2>2 DEF DataInv, GoodInv, DataTypeOK
<1>3. CASE ReaderNext /\ UNCHANGED dataVars
  <2>1. GoodInv' /\ Reading'
    BY <1>1, <1>3, DataStays, ReaderNextInv
  <2>2. OnlyBudgetsAreRead'
    BY <1>3 DEF OnlyBudgetsAreRead, Batches, ReaderNext, dataVars
  <2> QED
    BY <2>1, <2>2 DEF DataInv, GoodInv, DataTypeOK
<1>4. CASE UNCHANGED dataVars /\ UNCHANGED readerVars
  <2>1. GoodInv' /\ TableKept
    BY <1>1, <1>4, DataStays
  <2>2. Reading' /\ OnlyBudgetsAreRead'
    BY <1>1, <1>4, <2>1, ReadingKept
  <2> QED
    BY <2>1, <2>2 DEF DataInv, GoodInv, DataTypeOK
<1> QED
  BY <1>2, <1>3, <1>4 DEF BudgetsNext

\* The invariant about the generator and its reader holds in every state.
THEOREM DataInvariant == BudgetsSpec => []DataInv
<1>1. DataInit /\ ReaderInit => DataInv
  BY DataInitially
<1>2. DataInv /\ [BudgetsNext]_<<dataVars, readerVars>> => DataInv'
  BY DataInductive
<1> QED
  BY <1>1, <1>2, PTL DEF BudgetsSpec

\* A read that returns nil has consumed every batch it owes, as it was when the
\* read began or newer: every batch that was stored, for a scan, and every batch
\* written since the keys were cleared, for a read by the list of keys; whatever
\* the generator did meanwhile, in runs of any flags
\* (BudgetRepository.FetchAll()).
THEOREM ReadsEveryBatch == BudgetsSpec => []ReadsAllStored
<1>1. DataInv => ReadsAllStored
  <2> SUFFICES ASSUME DataInv, reader.pc = "nil"
               PROVE  \A id \in DOMAIN owed : WasRead(id)
    BY DEF ReadsAllStored, WasRead, Newer
  <2>1. Batches
    BY DEF DataInv, OnlyBudgetsAreRead
  <2>2. Reading /\ reader.todo = <<>>
    BY <2>1, ReadingIs DEF DataInv, Batches
  <2>3. \A id \in DOMAIN owed : Owing(id)
    BY <2>2, ReadingIs DEF Active
  <2> QED
    BY <2>2, <2>3, EmptyRange DEF Owing
<1> QED
  BY <1>1, DataInvariant, PTL

-----------------------------------------------------------------------------
(***************************************************************************)
(* What a run that returns nil has written.                                *)
(***************************************************************************)
\* Every position belongs to a batch.
LEMMA SomeBatchEach ==
    ASSUME NEW c \in Resolved, NEW i \in 1 .. Len(Keys(c))
    PROVE  \E id \in 1 .. Count(c) : Belongs(c, i, id)
<1> DEFINE size == c.BudgetBatchSize
           n == Len(Keys(c))
           q == (i - 1) \div size
           count == Count(c)
<1>1. size \in Nat \ {0} /\ n \in Nat /\ i - 1 \in Nat /\ i <= n
  BY KeysSeq, ResolvedType, LenProperties DEF Resolutions, Positive
<1>2. q \in Nat /\ q * size <= i - 1 /\ i - 1 < q * size + size
  BY <1>1, Quotient
<1>3. (n + size) - 1 \in Nat /\ count = ((n + size) - 1) \div size
  BY <1>1 DEF Count
<1>4. count \in Nat /\ (n + size) - 1 < count * size + size
  BY <1>1, <1>3, Quotient
<1> HIDE DEF size, n, q, count
<1>5. q + 1 \in Nat \ {0} /\ (q + 1) - 1 = q
  BY <1>2
<1>6. q * size \in Nat /\ (q + 1) * size = q * size + size
  BY <1>1, <1>5, Times
<1>7. q + 1 <= count
  <2> SUFFICES ASSUME count <= q PROVE FALSE
    BY <1>2, <1>4
  <2>1. count * size <= q * size /\ count * size \in Nat
    <3>1. CASE count = 0
      BY <1>1, <1>6, <3>1
    <3>2. CASE count # 0
      <4>1. count \in Nat \ {0} /\ q \in Nat \ {0}
        BY <1>2, <1>4, <3>2
      <4> QED
        BY <1>1, <4>1, Times
    <3> QED
      BY <3>1, <3>2
  <2> QED
    BY <1>1, <1>2, <1>4, <1>6, <2>1
<1>8. Belongs(c, i, q + 1)
  BY <1>1, <1>2, <1>5, <1>6 DEF Belongs, size
<1> QED
  BY <1>4, <1>5, <1>7, <1>8 DEF count

LEMMA BudgetsWritten ==
    ASSUME GoodInv, Complete, cfg.Type = "budgets", NEW key \in cfg.KeyLow .. cfg.KeyHigh
    PROVE  Cardinality({id \in DOMAIN stored : Written(id) /\ key \in Range(stored[id].data)}) = 1
<1>0. cfg \in Resolved /\ RowsAreMade
  BY DEF GoodInv, DataTypeOK
<1>1. PICK i \in 1 .. Len(Keys(cfg)) : Keys(cfg)[i] = key
  BY <1>0, KeysCover
<1>2. PICK id \in 1 .. Count(cfg) : Belongs(cfg, i, id)
  BY <1>0, SomeBatchEach
<1>3. PICK r \in Made(cfg) : r.id = id
  <2>1. Records(cfg)[id] \in Made(cfg)
    BY <1>0, RecordsSeq DEF Made, Range
  <2>2. Records(cfg)[id].id = id
    <3>1. Records(cfg) = BudgetBatches(cfg)
      BY <1>0, RecordsSeq
    <3> DEFINE d == SubSeq(Keys(cfg), (id - 1) * cfg.BudgetBatchSize + 1,
                           Least(id * cfg.BudgetBatchSize, Len(Keys(cfg))))
    <3>2. Records(cfg)[id] = Record(id, d)
      BY <3>1 DEF BudgetBatches, Count
    <3> HIDE DEF d
    <3> QED
      BY <3>2 DEF Record
  <2> QED
    BY <2>1, <2>2
<1>4. key \in Range(r.data)
  <2>1. \A k : k \in Range(r.data) <=>
          \E j \in 1 .. Len(Keys(cfg)) : Keys(cfg)[j] = k /\ Belongs(cfg, j, r.id)
    BY <1>0, BatchKeys
  <2> QED
    BY <1>1, <1>2, <1>3, <2>1
<1>5. Written(id)
  BY <1>3, AllWritten
<1>6. id \in DOMAIN stored /\ stored[id].data = r.data
  <2>1. id \in DOMAIN stored
    BY <1>5 DEF Written
  <2>2. PICK q \in Made(cfg) : q.id = id /\ q.data = stored[id].data
    BY <1>5, WrittenIsMade
  <2>3. q = r
    BY <1>0, <1>3, <2>2, BatchesDiffer
  <2> QED
    BY <2>1, <2>2, <2>3
<1>7. \A k \in DOMAIN stored : Written(k) /\ key \in Range(stored[k].data) => k = id
  <2> SUFFICES ASSUME NEW k \in DOMAIN stored, Written(k), key \in Range(stored[k].data) PROVE k = id
    OBVIOUS
  <2>1. PICK q \in Made(cfg) : q.id = k /\ q.data = stored[k].data
    BY WrittenIsMade
  <2>2. Range(q.data) \cap Range(r.data) # {}
    BY <1>4, <2>1
  <2>3. q = r
    BY <1>0, <2>2, BatchesDiffer
  <2> QED
    BY <1>3, <2>1, <2>3
<1>8. {k \in DOMAIN stored : Written(k) /\ key \in Range(stored[k].data)} = {id}
  BY <1>4, <1>5, <1>6, <1>7
<1> QED
  BY <1>8, FS_Singleton

LEMMA AudienceWritten ==
    ASSUME GoodInv, Complete, cfg.Type = "audiences",
           NEW key \in cfg.KeyLow .. cfg.KeyHigh, NEW a \in Nat
    PROVE  a \in Range(AudiencesOf(key, cfg)) <=>
             /\ a \in DOMAIN stored /\ Written(a)
             /\ Occurrences(stored[a].data, key) = 1
<1> DEFINE index == ReverseIndex(cfg)
           ids == DOMAIN index
           n == Cardinality(ids)
           order == SetToSeq(ids)
<1>0. cfg \in Resolved /\ RowsAreMade
  BY DEF GoodInv, DataTypeOK
<1>1. /\ index \in Indices /\ IsFiniteSet(ids)
      /\ Occurrences(RowOf(index, a), key) = IF a \in Range(AudiencesOf(key, cfg)) THEN 1 ELSE 0
  BY <1>0, ReverseIndexIs
<1>2. Records(cfg) = [i \in 1 .. n |-> Record(order[i], index[order[i]])]
  BY DEF Records
<1> HIDE DEF index
<1>3. order \in Seq(ids) /\ Range(order) = ids /\ n \in Nat /\ DOMAIN order = 1 .. n
  BY <1>1, SetToSeqSet, FS_CardinalityType
<1> HIDE DEF ids, n, order
<1>5. \A i \in 1 .. n : order[i] \in ids
  BY <1>3 DEF Range
<1>6. \A r \in Made(cfg) : r.data = RowOf(index, r.id)
  <2> TAKE r \in Made(cfg)
  <2>1. PICK i \in 1 .. n : r = Record(order[i], index[order[i]])
    BY <1>2 DEF Made, Range
  <2> QED
    BY <1>5, <2>1 DEF Record, RowOf, ids
<1>7. ASSUME NEW id, Written(id) PROVE stored[id].data = RowOf(index, id)
  BY <1>6, <1>7, WrittenIsMade
<1>8. ASSUME NEW id \in ids PROVE Written(id)
  <2>1. PICK i \in 1 .. n : order[i] = id
    BY <1>3 DEF Range
  <2>2. Record(id, index[id]) \in Made(cfg)
    BY <1>2, <2>1 DEF Made, Range
  <2>3. Written(Record(id, index[id]).id)
    BY <2>2, AllWritten
  <2> QED
    BY <2>3 DEF Record
<1>9. ASSUME a \in Range(AudiencesOf(key, cfg))
      PROVE  Written(a) /\ a \in DOMAIN stored /\ Occurrences(stored[a].data, key) = 1
  <2>1. Occurrences(RowOf(index, a), key) = 1
    BY <1>1, <1>9
  <2>2. a \in ids
    <3> SUFFICES ASSUME a \notin ids PROVE FALSE
      OBVIOUS
    <3>1. RowOf(index, a) = <<>>
      BY DEF RowOf, ids
    <3>2. Occurrences(<<>>, key) = 0
      <4>1. {i \in DOMAIN <<>> : <<>>[i] = key} = {}
        OBVIOUS
      <4> QED
        BY <4>1, FS_EmptySet DEF Occurrences
    <3> QED
      BY <2>1, <3>1, <3>2
  <2>3. Written(a) /\ a \in DOMAIN stored
    BY <1>8, <2>2 DEF Written
  <2> QED
    BY <1>7, <2>1, <2>3
<1>10. ASSUME Written(a), Occurrences(stored[a].data, key) = 1
       PROVE  a \in Range(AudiencesOf(key, cfg))
  BY <1>1, <1>7, <1>10
<1> QED
  BY <1>9, <1>10

\* A run of the data generator that returns nil has written every budget of the
\* range in exactly one batch, every campaign its row, every device a row of
\* different audiences, between the limits, and in the row of every audience each
\* campaign that targets it, once, and no other of the range, whatever the flags
\* were and although writers fail, batches come back in part and the ticker
\* flushes (put(), flushBatchFromBuffer(), Close()).
THEOREM NilMeansWritten == BudgetsSpec => []WrittenWhenNil
<1>1. DataInv => WrittenWhenNil
  <2> SUFFICES ASSUME DataInv, returned = "nil",
                      NEW key \in cfg.KeyLow .. cfg.KeyHigh
               PROVE  CASE cfg.Type = "budgets" ->
                             Cardinality({id \in DOMAIN stored : Written(id) /\ key \in Range(stored[id].data)}) = 1
                        [] cfg.Type = "audiences" ->
                             \A a \in 1 .. cfg.MaxAudienceID :
                               a \in Range(AudiencesOf(key, cfg)) <=>
                                 /\ a \in DOMAIN stored /\ Written(a)
                                 /\ Cardinality({i \in DOMAIN stored[a].data : stored[a].data[i] = key}) = 1
                        [] cfg.Type = "devices" ->
                             /\ Written(key)
                             /\ IsInjective(stored[key].data)
                             /\ Len(stored[key].data) \in cfg.MinAudiences .. cfg.MaxAudiences
                        [] OTHER -> Written(key)
    BY DEF WrittenWhenNil
  <2>1. GoodInv /\ cfg \in Resolved /\ Complete
    BY NilIsComplete DEF DataInv, GoodInv
  <2>2. CASE cfg.Type = "budgets"
    BY <2>1, <2>2, BudgetsWritten
  <2>3. CASE cfg.Type = "devices"
    <3>1. Written(key) /\ stored[key].data = AudiencesOf(key, cfg)
      BY <2>1, <2>3, RowOfKey
    <3>2. key \in Nat
      BY <2>1, ResolvedType DEF Resolutions
    <3>3. /\ IsInjective(stored[key].data)
          /\ Len(stored[key].data) \in cfg.MinAudiences .. cfg.MaxAudiences
      BY <2>1, <3>1, <3>2, AudiencesDiffer
    <3> QED
      BY <2>3, <3>1, <3>3
  <2>4. CASE cfg.Type = "campaigns"
    <3>1. Written(key)
      BY <2>1, <2>4, RowOfKey
    <3> QED
      BY <2>4, <3>1
  <2>5. CASE cfg.Type = "audiences"
    <3>1. \A a \in 1 .. cfg.MaxAudienceID :
            a \in Range(AudiencesOf(key, cfg)) <=>
              /\ a \in DOMAIN stored /\ Written(a)
              /\ Occurrences(stored[a].data, key) = 1
      <4>1. \A a \in 1 .. cfg.MaxAudienceID : a \in Nat
        BY <2>1, ResolvedType DEF Resolutions
      <4> QED
        BY <2>1, <2>5, <4>1, AudienceWritten
    <3> QED
      BY <2>5, <3>1 DEF Occurrences
  <2>6. cfg.Type \in {"budgets", "campaigns", "devices", "audiences"}
    BY <2>1, ResolvedType DEF Resolutions
  <2> QED
    BY <2>2, <2>3, <2>4, <2>5, <2>6
<1> QED
  BY <1>1, DataInvariant, PTL

-----------------------------------------------------------------------------
(***************************************************************************)
(* The numbers of the load generator.                                      *)
(***************************************************************************)
LEMMA NobidDevicesBeyond ==
    ASSUME NEW used \in Nat, NEW percent \in {0, 20, 50, 75}, NEW id \in NobidDevices(used, percent)
    PROVE  id \in Int /\ id > maxDatabaseDeviceID
<1> DEFINE maxID == (used * percent) \div (100 - percent)
<1>1. NobidDevices(used, percent) =
        IF maxID <= 1 THEN {maxDatabaseDeviceID + 1}
        ELSE RandomID(maxDatabaseDeviceID + 1, maxDatabaseDeviceID + maxID)
  BY DEF NobidDevices
<1>2. maxDatabaseDeviceID \in Nat
  BY BuilderAssumption
<1> HIDE DEF maxID
<1>3. CASE maxID <= 1
  BY <1>1, <1>2, <1>3
<1>4. CASE ~(maxID <= 1)
  <2>1. id \in (maxDatabaseDeviceID + 1) .. (maxDatabaseDeviceID + maxID) - 1
    BY <1>1, <1>4 DEF RandomID
  <2> QED
    BY <1>2, <2>1
<1> QED
  BY <1>3, <1>4

LEMMA StoredBelow ==
    ASSUME GoodInv, cfg.Type = "devices", NEW id \in DOMAIN stored
    PROVE  id \in Int /\ id <= maxDatabaseDeviceID
<1>1. PICK c \in Like(cfg) : IsRow(id, c)
  BY DEF GoodInv, RowsAreMade
<1>2. PICK r \in Made(c) : r.id = id
  BY <1>1 DEF IsRow
<1>3. c \in Resolved /\ c.Type = "devices"
  BY <1>1 DEF Like
<1>4. PICK i \in DOMAIN Keys(c) : r = Record(Keys(c)[i], AudiencesOf(Keys(c)[i], c))
  BY <1>2, <1>3 DEF Made, Range, Records
<1>5. id = Keys(c)[i]
  BY <1>2, <1>4 DEF Record
<1>6. c.KeyLow \in Nat /\ c.KeyHigh \in Nat /\ maxDatabaseDeviceID \in Nat
  BY <1>3, ResolvedType, BuilderAssumption DEF Resolutions
<1>7. /\ i \in 1 .. Len(Keys(c)) /\ Keys(c)[i] = (c.KeyLow + i) - 1
      /\ Len(Keys(c)) = IF c.KeyHigh + 1 >= c.KeyLow THEN (c.KeyHigh + 1) - c.KeyLow ELSE 0
  BY <1>3, KeysSeq
<1>8. i \in Int /\ 1 <= i /\ i <= Len(Keys(c)) /\ Len(Keys(c)) = (c.KeyHigh + 1) - c.KeyLow
  BY <1>6, <1>7
<1>9. c.KeyHigh <= maxDatabaseDeviceID
  <2>1. PICK f \in Configs : c = Resolve(f)
    BY <1>3 DEF Resolved
  <2>2. f.Type = "devices"
    BY <1>3, <2>1 DEF Resolve
  <2> QED
    BY <2>1, <2>2, DeviceTableAssumption
<1> QED
  BY <1>5, <1>6, <1>7, <1>8, <1>9

\* Whatever the number of devices and however the table was written, by one run
\* or by several, a bid request asks for a device that is stored once the runs
\* that returned nil cover the devices used, and a no-bid request for one that
\* no run stores (generateDeviceIFA()).
THEOREM LoadFindsItsDevices == BudgetsSpec => []DevicesKnown
<1>1. DataInv => DevicesKnown
  <2> SUFFICES ASSUME DataInv, cfg.Type = "devices",
                      NEW used \in Usable, NEW percent \in {0, 20, 50, 75}
               PROVE  /\ BidDevices(used) \subseteq DOMAIN stored
                      /\ NobidDevices(used, percent) \cap DOMAIN stored = {}
    BY DEF DevicesKnown
  <2>1. GoodInv /\ filled \subseteq DOMAIN stored
    BY DEF DataInv, GoodInv, Filled
  <2>2. used \in Nat /\ 1 \in filled /\ 1 .. used \subseteq filled /\ maxDatabaseDeviceID \in Nat
    BY BuilderAssumption DEF Usable
  <2>3. BidDevices(used) \subseteq {1} \cup (1 .. used)
    BY <2>2 DEF BidDevices, RandomID
  <2>4. ASSUME NEW id \in NobidDevices(used, percent), id \in DOMAIN stored PROVE FALSE
    <3>1. id \in Int /\ id > maxDatabaseDeviceID
      BY <2>2, NobidDevicesBeyond
    <3>2. id <= maxDatabaseDeviceID
      BY <2>1, <2>4, StoredBelow
    <3> QED
      BY <2>2, <3>1, <3>2
  <2> QED
    BY <2>1, <2>2, <2>3, <2>4
<1> QED
  BY <1>1, DataInvariant, PTL
=============================================================================
