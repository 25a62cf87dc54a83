--------------------------- MODULE Batching_proofs ---------------------------
(* Proofs that a batch never outgrows one PutRecords request and that it is *)
(* compiled into the entries that were counted when it was filled.          *)
EXTENDS Batching, FoldTheorems, TLAPS

-----------------------------------------------------------------------------
(***************************************************************************)
(* The counters of a batch.  Every entry but the last one was closed by a  *)
(* message that did not fit into it any more, so two entries in a row hold *)
(* more than EntryCapacity together: twice the total, less what is in the  *)
(* last entry, pays for EntryCapacity + 1 per closed entry.                *)
(***************************************************************************)
Counters ==
    [totalMessageSize : Nat, entryMessageSize : Nat, entryNumber : Nat]

Paid(b) ==
    b.entryNumber * (EntryCapacity + 1) <= 2 * b.totalMessageSize - b.entryMessageSize

BatchFits(b) ==
    /\ b \in Counters
    /\ requestTotalSize(b) <= maxRequestSize
    /\ b.entryMessageSize <= b.totalMessageSize
    /\ Paid(b)

\* Only a message that fits into no entry makes the current one too large.
EntryFits(b, s) ==
    \/ entrySize(b) <= maxEntrySize
    \/ s # <<>> /\ Last(s) > EntryCapacity

BatchInv ==
    /\ stage \in {"adding", "compiling", "compiled"}
    /\ messages \in Seq(Sizes)
    /\ BatchFits(batch)
    /\ EntryFits(batch, messages)

LEMMA Sizing ==
    /\ maxEntrySize \in Nat /\ maxRequestSize \in Nat /\ maxEntriesPerRequest \in Nat
    /\ entryMetadataSize \in Nat /\ partitionKeySize \in Nat
    /\ entryTotalMetadataSize \in Nat /\ EntryCapacity \in Nat \ {0}
    /\ entryTotalMetadataSize <= maxRequestSize
PROOF
  BY BatchAssumption DEF EntryCapacity, entryTotalMetadataSize

\* A larger factor gives a larger product.
LEMMA Products ==
    ASSUME NEW m \in Nat, NEW n \in Nat, NEW k \in Nat, m <= n
    PROVE  m * k <= n * k
PROOF
  <1>1. PICK d \in Nat : n = m + d
    <2> n - m \in Nat /\ n = m + (n - m) OBVIOUS
    <2> QED OBVIOUS
  <1>2. n * k = m * k + d * k
    BY <1>1
  <1>3. d * k \in Nat
    BY <1>1
  <1>4. m * k \in Int
    OBVIOUS
  <1> QED BY <1>2, <1>3, <1>4

-----------------------------------------------------------------------------
LEMMA EmptyEntryFits == \A s : EntryFits(EmptyBatch, s)
PROOF
  BY Sizing DEF EmptyBatch, entrySize, EntryCapacity, EntryFits

LEMMA EmptyFits == BatchFits(EmptyBatch)
PROOF
  <1>1. EmptyBatch \in Counters
    BY DEF EmptyBatch, Counters
  <1>2. requestTotalSize(EmptyBatch) = entryTotalMetadataSize
    BY Sizing DEF EmptyBatch, requestTotalSize
  <1>3. Paid(EmptyBatch)
    BY Sizing DEF EmptyBatch, Paid
  <1> QED BY <1>1, <1>2, <1>3, Sizing DEF BatchFits, EmptyBatch

\* tryAddMessage() keeps the counters within the limits.
LEMMA AddingFits ==
    ASSUME NEW b, BatchFits(b), NEW size \in Nat, ~Refused(b, size)
    PROVE  BatchFits(Added(b, size))
PROOF
  <1> DEFINE t == b.totalMessageSize
             e == b.entryMessageSize
             n == b.entryNumber
             k == EntryCapacity + 1
             r == Added(b, size)
  <1>1. t \in Nat /\ e \in Nat /\ n \in Nat /\ size \in Nat /\ k \in Nat /\ e <= t
    BY Sizing DEF BatchFits, Counters
  <1>2. /\ requestTotalSize(b) = (n + 1) * entryTotalMetadataSize + t
        /\ requestTotalSize(b) \in Nat
    BY <1>1, Sizing DEF requestTotalSize
  <1>3. n * k <= 2 * t - e /\ n * k \in Nat
    BY <1>1, Sizing DEF BatchFits, Paid
  <1>4. r \in Counters
    BY <1>1 DEF Added, Counters
  <1>5. requestTotalSize(b) + size <= maxRequestSize
    BY <1>1, <1>2, Sizing DEF Refused, OverflowsRequest
  <1>6. CASE OverflowsEntry(b, size)
    <2>1. r = [totalMessageSize |-> t + size, entryMessageSize |-> size,
               entryNumber |-> n + 1]
      BY <1>6 DEF Added
    <2>2. requestTotalSize(b) + size + entryTotalMetadataSize <= maxRequestSize
      BY <1>1, <1>2, <1>6, Sizing DEF Refused, CannotOpenEntry, OverflowsRequest
    <2>3. (n + 2) * entryTotalMetadataSize =
              (n + 1) * entryTotalMetadataSize + entryTotalMetadataSize
      BY <1>1, Sizing
    <2>4. requestTotalSize(r) = requestTotalSize(b) + size + entryTotalMetadataSize
      <3> DEFINE x == (n + 1) * entryTotalMetadataSize
      <3>1. requestTotalSize(r) = (n + 2) * entryTotalMetadataSize + (t + size)
        BY <2>1, <1>1 DEF requestTotalSize
      <3>2. x \in Nat
        BY <1>1, Sizing
      <3>3. requestTotalSize(b) = x + t
        BY <1>2
      <3>4. requestTotalSize(r) = x + entryTotalMetadataSize + (t + size)
        BY <3>1, <2>3
      <3> HIDE DEF x, t, r
      <3> QED BY <3>2, <3>3, <3>4, <1>1, Sizing
    <2>6. e + size >= k
      BY <1>1, <1>6, Sizing DEF OverflowsEntry, entrySize, EntryCapacity
    <2>7. (n + 1) * k = n * k + k
      BY <1>1
    <2>8. Paid(r)
      <3> DEFINE y == n * k
      <3>1. y \in Nat /\ y <= 2 * t - e /\ (n + 1) * k = y + k
        BY <1>3, <2>7
      <3>2. Paid(r) <=> (n + 1) * k <= 2 * (t + size) - size
        BY <2>1 DEF Paid
      <3> HIDE DEF y, k, t, e, n, r
      <3> QED BY <3>1, <3>2, <2>6, <1>1
    <2> QED BY <1>4, <2>1, <2>2, <2>4, <2>8, <1>1 DEF BatchFits
  <1>7. CASE ~OverflowsEntry(b, size)
    <2>1. r = [totalMessageSize |-> t + size, entryMessageSize |-> e + size,
               entryNumber |-> n]
      BY <1>7 DEF Added
    <2>2. requestTotalSize(r) = requestTotalSize(b) + size
      <3> DEFINE x == (n + 1) * entryTotalMetadataSize
      <3>1. x \in Nat /\ requestTotalSize(b) = x + t /\ requestTotalSize(r) = x + (t + size)
        BY <2>1, <1>1, <1>2, Sizing DEF requestTotalSize
      <3> HIDE DEF x, t, r
      <3> QED BY <3>1, <1>1
    <2>4. Paid(r)
      <3>1. Paid(r) <=> n * k <= 2 * (t + size) - (e + size)
        BY <2>1 DEF Paid
      <3> DEFINE y == n * k
      <3>2. y \in Nat /\ y <= 2 * t - e
        BY <1>3
      <3>3. Paid(r) <=> y <= 2 * (t + size) - (e + size)
        BY <3>1
      <3> HIDE DEF y, k, t, e, n, r
      <3> QED BY <3>2, <3>3, <1>1
    <2> QED BY <1>4, <1>5, <2>1, <2>2, <2>4, <1>1 DEF BatchFits
  <1> QED BY <1>6, <1>7

\* The current entry after a message was added.
LEMMA AddingEntry ==
    ASSUME NEW b, BatchFits(b), NEW size \in Nat
    PROVE  entrySize(Added(b, size)) <= maxEntrySize \/ size > EntryCapacity
PROOF
  <1>1. b.entryMessageSize \in Nat
    BY DEF BatchFits, Counters
  <1>2. CASE OverflowsEntry(b, size)
    <2>1. Added(b, size).entryMessageSize = size
      BY <1>2 DEF Added
    <2> QED BY <2>1, Sizing DEF entrySize, EntryCapacity
  <1>3. CASE ~OverflowsEntry(b, size)
    <2>1. Added(b, size).entryMessageSize = b.entryMessageSize + size
      BY <1>3 DEF Added
    <2> QED BY <1>1, <1>3, <2>1, Sizing DEF entrySize, OverflowsEntry
  <1> QED BY <1>2, <1>3

LEMMA AddingEntryFits ==
    ASSUME NEW b, BatchFits(b), NEW s \in Seq(Sizes), NEW size \in Sizes
    PROVE  /\ EntryFits(Added(b, size), Append(s, size))
           /\ Append(s, size) \in Seq(Sizes)
PROOF
  <1>1. size \in Nat
    BY SizesAssumption
  <1>2. /\ Append(s, size) \in Seq(Sizes) /\ Append(s, size) # <<>>
        /\ Last(Append(s, size)) = size
    BY DEF Last
  <1> QED BY <1>1, <1>2, AddingEntry DEF EntryFits

\* What fits in bytes fits in the number of entries.
LEMMA FewEntries ==
    ASSUME NEW b, BatchFits(b)
    PROVE  b.entryNumber + 1 <= maxEntriesPerRequest
PROOF
  <1> DEFINE n == b.entryNumber
             t == b.totalMessageSize
             k == EntryCapacity + 1
             m == maxEntriesPerRequest
  <1>1. n \in Nat /\ t \in Nat /\ b.entryMessageSize \in Nat /\ k \in Nat /\ m \in Nat
    BY Sizing DEF BatchFits, Counters
  <1>2. t <= maxRequestSize
    <2> (n + 1) * entryTotalMetadataSize \in Nat
      BY <1>1, Sizing
    <2> QED BY <1>1, Sizing DEF BatchFits, requestTotalSize
  <1>3. n * k <= 2 * t
    BY <1>1 DEF BatchFits, Paid
  <1>4. 2 * maxRequestSize < m * k
    BY BatchAssumption
  <1>5. ~(m <= n)
    <2> SUFFICES ASSUME m <= n PROVE FALSE
      OBVIOUS
    <2>1. m * k <= n * k
      BY <1>1, Products
    <2>2. m * k \in Int /\ n * k \in Int
      BY <1>1
    <2> QED BY <2>1, <2>2, <1>1, <1>2, <1>3, <1>4, Sizing
  <1> QED BY <1>1, <1>5

-----------------------------------------------------------------------------
THEOREM BatchInvariant == BatchSpec => []BatchInv
PROOF
  <1>1. BatchInit => BatchInv
    BY EmptyFits, EmptyEntryFits, EmptySeq DEF BatchInit, BatchInv
  <1>2. BatchInv /\ [BatchNext]_batchVars => BatchInv'
    <2> SUFFICES ASSUME BatchInv, [BatchNext]_batchVars PROVE BatchInv'
      OBVIOUS
    <2>1. ASSUME NEW size \in Sizes, AddMessage(size) PROVE BatchInv'
      <3>1. size \in Nat
        BY SizesAssumption
      <3>2. BatchFits(Added(batch, size))
        BY <2>1, <3>1, AddingFits DEF AddMessage, BatchInv
      <3>3. /\ EntryFits(Added(batch, size), Append(messages, size))
            /\ Append(messages, size) \in Seq(Sizes)
        BY AddingEntryFits DEF BatchInv
      <3>4. EntryFits(batch, messages)' /\ BatchFits(batch)'
        BY <2>1, <3>2, <3>3 DEF AddMessage
      <3> QED BY <2>1, <3>3, <3>4 DEF AddMessage, BatchInv
    <2>2. CASE SendBatch
      BY <2>2 DEF SendBatch, BatchInv
    <2>3. CASE CompileEntry
      BY <2>3 DEF CompileEntry, BatchInv
    <2>4. CASE FinishCompile
      BY <2>4 DEF FinishCompile, BatchInv
    <2>5. CASE UNCHANGED batchVars
      BY <2>5 DEF batchVars, BatchInv
    <2> QED BY <2>1, <2>2, <2>3, <2>4, <2>5 DEF BatchNext
  <1> QED BY <1>1, <1>2, PTL DEF BatchSpec

(***************************************************************************)
(* No batch exceeds the limits of PutRecords in bytes or in entries,       *)
(* whatever sizes of messages come in whatever order, although             *)
(* tryAddMessage() compares one entry too late; and the current entry is   *)
(* too large only by a message that alone fits into none, which the check  *)
(* of Put() does not keep away.                                            *)
(***************************************************************************)
THEOREM RequestAlwaysFits == BatchSpec => []RequestFits
PROOF
  <1>1. BatchInv => RequestFits
    BY FewEntries DEF BatchInv, BatchFits, EntryFits, RequestFits
  <1> QED BY <1>1, BatchInvariant, PTL

-----------------------------------------------------------------------------
(***************************************************************************)
(* Sums of sizes.                                                          *)
(***************************************************************************)
LEMMA SumIsFold ==
    ASSUME NEW s \in Seq(Nat)
    PROVE  FoldIs(Nat, Plus, 0, s, SumOf(s))
<1> DEFINE Eq(g) == g = [t \in SUBSET DOMAIN s |->
                           IF t = {} THEN 0 ELSE g[t \ {Max(t)}] + s[Max(t)]]
           iter == CHOOSE g : Eq(g)
<1>1. SumOf(s) = iter[DOMAIN s]
  BY DEF SumOf, FoldLeft, MapThenFoldSet
<1> QED
  BY <1>1, SumFolds

LEMMA SumAppend ==
    ASSUME NEW s \in Seq(Nat), NEW n \in Nat
    PROVE  SumOf(s) \in Nat /\ SumOf(Append(s, n)) = SumOf(s) + n
<1>1. /\ Plus \in [Nat \X Nat -> Nat] /\ \A a, b \in Nat : Plus[<<a, b>>] = b + a
      /\ Len(s) \in Nat /\ Append(s, n) \in Seq(Nat) /\ Len(Append(s, n)) \in Nat
  BY PlusIs, LenProperties, AppendProperties
<1>2. FoldIs(Nat, Plus, 0, s, SumOf(s)) /\ FoldIs(Nat, Plus, 0, Append(s, n), SumOf(Append(s, n)))
  BY <1>1, SumIsFold
<1> DEFINE v == SumOf(s)
           w == SumOf(Append(s, n))
<1> HIDE DEF v, w
<1>3. PICK N, z : N = Nat /\ z = 0
  OBVIOUS
<1>4. /\ Plus \in [N \X N -> N] /\ s \in Seq(N) /\ n \in N /\ Append(s, n) \in Seq(N)
      /\ FoldIs(N, Plus, z, s, v) /\ FoldIs(N, Plus, z, Append(s, n), w)
  BY <1>1, <1>2, <1>3 DEF v, w
<1>5. v \in N
  BY ONLY <1>1, <1>4, FoldOnce
<1>6. FoldIs(N, Plus, z, Append(s, n), Plus[<<n, v>>])
  BY ONLY <1>4, FoldAppend
<1>7. w = Plus[<<n, v>>]
  BY ONLY <1>1, <1>4, <1>6, FoldOnce
<1> QED
  BY <1>1, <1>3, <1>5, <1>7 DEF v, w

LEMMA SumEmpty == SumOf(<<>>) = 0
<1>1. FoldIs(Nat, Plus, 0, <<>>, SumOf(<<>>))
  BY SumIsFold, EmptySeq
<1> DEFINE v == SumOf(<<>>)
<1> HIDE DEF v
<1>2. PICK N, z : N = Nat /\ z = 0
  OBVIOUS
<1>3. FoldIs(N, Plus, z, <<>>, v) /\ z \in N /\ Len(<<>>) \in Nat
  BY <1>1, <1>2, EmptySeq DEF v
<1>4. FoldIs(N, Plus, z, <<>>, z)
  BY ONLY <1>3, FoldEmpty
<1>5. v = z
  BY ONLY <1>3, <1>4, FoldOnce
<1> QED
  BY <1>2, <1>5 DEF v

\* The size of the first n messages.
First(s, n) == SumOf(SubSeq(s, 1, n))

LEMMA FirstSteps ==
    ASSUME NEW s \in Seq(Nat)
    PROVE  /\ First(s, 0) = 0
           /\ First(s, Len(s)) = SumOf(s)
           /\ \A n \in 0 .. Len(s) : First(s, n) \in Nat
           /\ \A n \in 1 .. Len(s) : First(s, n) = First(s, n - 1) + s[n]
<1>0. Len(s) \in Nat /\ \A i \in 1 .. Len(s) : s[i] \in Nat
  BY LenProperties
<1>1. SubSeq(s, 1, 0) = <<>>
  BY SubSeqEmpty
<1>2. SubSeq(s, 1, Len(s)) = s
  BY SubSeqFull
<1>3. \A n \in 0 .. Len(s) : SubSeq(s, 1, n) \in Seq(Nat) /\ Len(SubSeq(s, 1, n)) = n
  <2> TAKE n \in 0 .. Len(s)
  <2>1. \A i \in 1 .. n : s[i] \in Nat
    BY <1>0
  <2>2. SubSeq(s, 1, n) \in Seq(Nat) /\ Len(SubSeq(s, 1, n)) = IF 1 <= n THEN n - 1 + 1 ELSE 0
    BY <1>0, <2>1, SubSeqProperties
  <2> QED
    BY <1>0, <2>2
<1>4. \A n \in 1 .. Len(s) : SubSeq(s, 1, n) = Append(SubSeq(s, 1, n - 1), s[n])
  <2> TAKE n \in 1 .. Len(s)
  <2>1. SubSeq(s, 1, n) = SubSeq(s, 1, n - 1) \o <<s[n]>>
    <3>1. 1 \in 1 .. Len(s)
      BY <1>0
    <3> QED
      BY <3>1, SubSeqRecursiveSecond
  <2>2. n - 1 \in 0 .. Len(s) /\ s[n] \in Nat
    BY <1>0
  <2>3. SubSeq(s, 1, n - 1) \in Seq(Nat)
    BY <1>3, <2>2
  <2> QED
    BY <2>1, <2>2, <2>3, AppendIsConcat
<1>5. \A n \in 1 .. Len(s) : First(s, n) = First(s, n - 1) + s[n]
  <2> TAKE n \in 1 .. Len(s)
  <2>1. n - 1 \in 0 .. Len(s) /\ s[n] \in Nat
    BY <1>0
  <2> QED
    BY <1>3, <1>4, <2>1, SumAppend DEF First
<1>6. \A n \in 0 .. Len(s) : First(s, n) \in Nat
  BY <1>3, SumAppend DEF First
<1> QED
  BY <1>1, <1>2, <1>5, <1>6, SumEmpty DEF First

LEMMA FirstOfAppend ==
    ASSUME NEW s \in Seq(Nat), NEW x \in Nat
    PROVE  /\ \A n \in 0 .. Len(s) : First(Append(s, x), n) = First(s, n)
           /\ First(Append(s, x), Len(s) + 1) = First(s, Len(s)) + x
<1>0. /\ Len(s) \in Nat /\ Append(s, x) \in Seq(Nat) /\ Len(Append(s, x)) = Len(s) + 1
      /\ \A i \in 1 .. Len(s) : s[i] \in Nat /\ Append(s, x)[i] = s[i]
      /\ Append(s, x)[Len(s) + 1] = x
  BY LenProperties, AppendProperties
<1> DEFINE T == {n \in Nat : n <= Len(s) => First(Append(s, x), n) = First(s, n)}
<1>1. 0 \in T
  BY <1>0, FirstSteps
<1>2. ASSUME NEW n \in Nat, n \in T PROVE n + 1 \in T
  <2> SUFFICES ASSUME n + 1 <= Len(s) PROVE First(Append(s, x), n + 1) = First(s, n + 1)
    OBVIOUS
  <2> DEFINE m == n + 1
  <2>1. m \in 1 .. Len(s) /\ m \in 1 .. Len(Append(s, x)) /\ m - 1 = n /\ First(Append(s, x), n) = First(s, n)
    BY <1>0, <1>2
  <2> HIDE DEF m, T
  <2>2. First(Append(s, x), m) = First(Append(s, x), n) + Append(s, x)[m] /\ First(s, m) = First(s, n) + s[m]
    BY <1>0, <2>1, FirstSteps
  <2>3. First(Append(s, x), m) = First(s, m)
    BY <1>0, <2>1, <2>2
  <2> QED
    BY <2>3 DEF m
<1> HIDE DEF T
<1>3. Nat \subseteq T
  BY <1>1, <1>2, Upwards
<1>4. \A n \in 0 .. Len(s) : First(Append(s, x), n) = First(s, n)
  BY <1>0, <1>3 DEF T
<1> DEFINE m == Len(s) + 1
<1>5. m \in 1 .. Len(Append(s, x)) /\ m - 1 = Len(s) /\ Len(s) \in 0 .. Len(s) /\ Append(s, x)[m] = x
  BY <1>0
<1> HIDE DEF m
<1>6. First(Append(s, x), m) = First(Append(s, x), Len(s)) + x
  BY <1>0, <1>5, FirstSteps
<1> QED
  BY <1>4, <1>5, <1>6 DEF m

\* A part of the messages is as large as what the first ones grow by.
LEMMA PartSize ==
    ASSUME NEW s \in Seq(Nat), NEW i \in 0 .. Len(s), NEW n \in 0 .. Len(s) - i
    PROVE  First(SubSeq(s, i + 1, Len(s)), n) = First(s, i + n) - First(s, i)
<1> DEFINE rest == SubSeq(s, i + 1, Len(s))
           T == {k \in Nat : k <= Len(s) - i => First(rest, k) = First(s, i + k) - First(s, i)}
<1>0. /\ Len(s) \in Nat /\ i \in Nat /\ (\A j \in 1 .. Len(s) : s[j] \in Nat)
      /\ \A k \in 0 .. Len(s) : First(s, k) \in Nat
  <2>1. Len(s) \in Nat /\ \A j \in 1 .. Len(s) : s[j] \in Nat
    BY LenProperties
  <2>2. \A k \in 0 .. Len(s) : First(s, k) \in Nat
    BY FirstSteps
  <2> QED
    BY <2>1, <2>2
<1>1. /\ rest \in Seq(Nat) /\ Len(rest) = Len(s) - i
      /\ \A k \in 1 .. Len(s) - i : rest[k] = s[i + k]
  <2>1. \A j \in i + 1 .. Len(s) : s[j] \in Nat
    BY <1>0
  <2>2. i + 1 \in Int /\ Len(s) \in Int
    BY <1>0
  <2>3. /\ rest \in Seq(Nat)
        /\ Len(rest) = IF i + 1 <= Len(s) THEN Len(s) - (i + 1) + 1 ELSE 0
        /\ \A k \in 1 .. Len(s) - (i + 1) + 1 : rest[k] = s[(i + 1) + k - 1]
    BY ONLY <2>1, <2>2, SubSeqProperties
  <2>4. Len(rest) = Len(s) - i
    BY <1>0, <2>3
  <2>5. ASSUME NEW k \in 1 .. Len(s) - i PROVE rest[k] = s[i + k]
    <3>1. k \in 1 .. Len(s) - (i + 1) + 1 /\ (i + 1) + k - 1 = i + k
      BY <1>0
    <3> QED
      BY <2>3, <3>1
  <2> QED
    BY <2>3, <2>4, <2>5
<1> HIDE DEF rest
<1>2. 0 \in T
  <2>1. First(rest, 0) = 0 /\ i + 0 = i /\ First(s, i) \in Nat
    BY <1>0, <1>1, FirstSteps
  <2> QED
    BY <2>1
<1>3. ASSUME NEW k \in Nat, k \in T PROVE k + 1 \in T
  <2> SUFFICES ASSUME k + 1 <= Len(s) - i PROVE First(rest, k + 1) = First(s, i + (k + 1)) - First(s, i)
    OBVIOUS
  <2> DEFINE m == k + 1
             j == i + (k + 1)
  <2>0. First(rest, k) = First(s, i + k) - First(s, i)
    BY <1>0, <1>3
  <2>1. /\ m \in 1 .. Len(s) - i /\ m - 1 = k /\ i + m = j
        /\ j \in 1 .. Len(s) /\ j - 1 = i + k /\ i + k \in 0 .. Len(s)
    BY <1>0
  <2> HIDE DEF m, j, T
  <2>2. First(rest, m) = First(rest, k) + rest[m] /\ First(s, j) = First(s, i + k) + s[j]
    <3>1. m \in 1 .. Len(rest)
      BY <1>1, <2>1
    <3> QED
      BY <1>1, <2>1, <3>1, FirstSteps
  <2>3. rest[m] = s[j] /\ s[j] \in Nat
    BY <1>0, <1>1, <2>1
  <2>4. First(rest, m) = First(s, j) - First(s, i)
    <3>1. First(s, i) \in Nat /\ First(s, i + k) \in Nat
      BY <1>0, <2>1
    <3> QED
      BY <2>0, <2>2, <2>3, <3>1
  <2> QED
    BY <2>4 DEF m, j
<1> HIDE DEF T
<1>4. Nat \subseteq T
  BY <1>2, <1>3, Upwards
<1>5. n \in Nat /\ n <= Len(s) - i
  BY <1>0
<1> QED
  BY <1>4, <1>5 DEF T, rest

\* Messages are not empty: more of them are larger.
LEMMA FirstGrows ==
    ASSUME NEW s \in Seq(Nat \ {0}), NEW i \in 0 .. Len(s), NEW j \in 0 .. Len(s), i < j
    PROVE  First(s, i) < First(s, j)
<1> DEFINE T == {k \in Nat : i + k + 1 <= Len(s) => First(s, i) < First(s, i + k + 1)}
<1>0. Len(s) \in Nat /\ i \in Nat /\ s \in Seq(Nat) /\ \A k \in 1 .. Len(s) : s[k] \in Nat /\ s[k] > 0
  BY LenProperties, SeqMonotonic
<1>1. \A k \in 1 .. Len(s) : First(s, k - 1) < First(s, k) /\ First(s, k - 1) \in Nat /\ First(s, k) \in Nat
  <2> TAKE k \in 1 .. Len(s)
  <2>1. k - 1 \in 0 .. Len(s) /\ k \in 0 .. Len(s)
    BY <1>0
  <2>2. First(s, k) = First(s, k - 1) + s[k] /\ First(s, k - 1) \in Nat /\ First(s, k) \in Nat
    BY <1>0, <2>1, FirstSteps
  <2> QED
    BY <1>0, <2>2
<1>2. 0 \in T
  <2> SUFFICES ASSUME i + 0 + 1 <= Len(s) PROVE First(s, i) < First(s, i + 0 + 1)
    OBVIOUS
  <2> DEFINE m == i + 0 + 1
  <2>1. m \in 1 .. Len(s) /\ m - 1 = i
    BY <1>0
  <2> HIDE DEF m
  <2>2. First(s, i) < First(s, m)
    BY <1>1, <2>1
  <2> QED
    BY <2>2 DEF m
<1>3. ASSUME NEW k \in Nat, k \in T PROVE k + 1 \in T
  <2> SUFFICES ASSUME i + (k + 1) + 1 <= Len(s) PROVE First(s, i) < First(s, i + (k + 1) + 1)
    OBVIOUS
  <2> DEFINE m == i + (k + 1) + 1
  <2>1. m \in 1 .. Len(s) /\ m - 1 = i + k + 1 /\ First(s, i) < First(s, i + k + 1) /\ i \in 0 .. Len(s)
    BY <1>0, <1>3
  <2> HIDE DEF m, T
  <2>2. First(s, i) \in Nat
    BY <1>0, FirstSteps
  <2>3. First(s, i) < First(s, m)
    BY <1>1, <2>1, <2>2
  <2> QED
    BY <2>3 DEF m
<1> HIDE DEF T
<1>4. Nat \subseteq T
  BY <1>2, <1>3, Upwards
<1> DEFINE k == j - i - 1
<1>5. k \in Nat /\ i + k + 1 = j /\ j <= Len(s)
  BY <1>0
<1> HIDE DEF k
<1> QED
  BY <1>4, <1>5 DEF T

-----------------------------------------------------------------------------
(***************************************************************************)
(* The size of a compiled request.                                         *)
(***************************************************************************)
Entries == Seq(Nat)
PlusEntry == [p \in Entries \X Nat |-> p[2] + entryTotalMetadataSize + SumOf(p[1])]

LEMMA PlusEntryIs ==
    /\ PlusEntry \in [Entries \X Nat -> Nat]
    /\ \A e \in Entries, n \in Nat : /\ PlusEntry[<<e, n>>] = n + entryTotalMetadataSize + SumOf(e)
                                     /\ SumOf(e) \in Nat
<1>1. \A e \in Entries : SumOf(e) \in Nat
  BY SumAppend DEF Entries
<1> QED
  BY <1>1, Sizing DEF PlusEntry

LEMMA SizeIsFold ==
    ASSUME NEW s \in Seq(Entries)
    PROVE  FoldIs(Nat, PlusEntry, 0, s, CompiledSize(s))
<1> DEFINE Eq(g) == g = [t \in SUBSET DOMAIN s |->
                           IF t = {} THEN 0
                           ELSE g[t \ {Max(t)}] + entryTotalMetadataSize + SumOf(s[Max(t)])]
           iter == CHOOSE g : Eq(g)
<1>0. Len(s) \in Nat /\ DOMAIN s = 1 .. Len(s) /\ \A i \in 1 .. Len(s) : s[i] \in Entries
  BY LenProperties
<1>1. CompiledSize(s) = iter[DOMAIN s]
  BY DEF CompiledSize, FoldLeft, MapThenFoldSet
<1>2. PICK g \in [SUBSET DOMAIN s -> Nat] : Folds(g, PlusEntry, 0, s)
  BY <1>0, PlusEntryIs, FoldExists
<1>3. Eq(g)
  <2>1. ASSUME NEW t \in SUBSET DOMAIN s, t # {}
        PROVE  g[t] = g[t \ {Max(t)}] + entryTotalMetadataSize + SumOf(s[Max(t)])
    <3>1. Max(t) \in t
      BY <1>0, <2>1, Largest
    <3>2. g[t] = PlusEntry[<<s[Max(t)], g[t \ {Max(t)}]>>]
      BY <1>2, <2>1 DEF Folds
    <3>3. s[Max(t)] \in Entries /\ g[t \ {Max(t)}] \in Nat
      BY <1>0, <3>1
    <3> QED
      BY <3>2, <3>3, PlusEntryIs
  <2>2. g[{}] = 0
    BY <1>2 DEF Folds
  <2> QED
    BY <2>1, <2>2
<1>4. Eq(iter)
  <2> HIDE DEF Eq
  <2> QED
    BY <1>3
<1> HIDE DEF iter
<1>5. FoldsIn(iter, Nat, PlusEntry, 0, s)
  <2>1. ASSUME NEW t \in SUBSET DOMAIN s, t # {}, iter[t \ {Max(t)}] \in Nat
        PROVE  iter[t] = PlusEntry[<<s[Max(t)], iter[t \ {Max(t)}]>>]
    <3>1. Max(t) \in t
      BY <1>0, <2>1, Largest
    <3>2. iter[t] = iter[t \ {Max(t)}] + entryTotalMetadataSize + SumOf(s[Max(t)])
      BY <1>4, <2>1
    <3>3. s[Max(t)] \in Entries
      BY <1>0, <3>1
    <3> QED
      BY <2>1, <3>2, <3>3, PlusEntryIs
  <2>2. iter[{}] = 0
    BY <1>4
  <2> QED
    BY <2>1, <2>2 DEF FoldsIn
<1>6. PICK N, z : N = Nat /\ z = 0
  OBVIOUS
<1>7. PlusEntry \in [Entries \X N -> N] /\ FoldsIn(iter, N, PlusEntry, z, s) /\ z \in N
  BY <1>5, <1>6, PlusEntryIs
<1>8. FoldIs(N, PlusEntry, z, s, iter[DOMAIN s])
  BY <1>7, FoldSteps DEF FoldIs
<1> QED
  BY <1>1, <1>6, <1>8

LEMMA SizeAppend ==
    ASSUME NEW s \in Seq(Entries), NEW e \in Entries
    PROVE  /\ CompiledSize(s) \in Nat
           /\ CompiledSize(Append(s, e)) = CompiledSize(s) + entryTotalMetadataSize + SumOf(e)
<1>1. Len(s) \in Nat /\ Append(s, e) \in Seq(Entries) /\ Len(Append(s, e)) \in Nat
  BY LenProperties, AppendProperties
<1>2. /\ FoldIs(Nat, PlusEntry, 0, s, CompiledSize(s))
      /\ FoldIs(Nat, PlusEntry, 0, Append(s, e), CompiledSize(Append(s, e)))
  BY <1>1, SizeIsFold
<1> DEFINE v == CompiledSize(s)
           w == CompiledSize(Append(s, e))
<1> HIDE DEF v, w
<1>3. PICK N, z : N = Nat /\ z = 0
  OBVIOUS
<1>4. /\ PlusEntry \in [Entries \X N -> N]
      /\ FoldIs(N, PlusEntry, z, s, v) /\ FoldIs(N, PlusEntry, z, Append(s, e), w)
  BY <1>2, <1>3, PlusEntryIs DEF v, w
<1>5. v \in N
  BY ONLY <1>1, <1>4, FoldOnce
<1>6. FoldIs(N, PlusEntry, z, Append(s, e), PlusEntry[<<e, v>>])
  BY <1>4, FoldAppend
<1>7. w = PlusEntry[<<e, v>>]
  BY ONLY <1>1, <1>4, <1>6, FoldOnce
<1> QED
  BY <1>3, <1>5, <1>7, PlusEntryIs DEF v, w

LEMMA SizeEmpty == CompiledSize(<<>>) = 0
<1>1. FoldIs(Nat, PlusEntry, 0, <<>>, CompiledSize(<<>>))
  BY SizeIsFold, EmptySeq
<1> DEFINE v == CompiledSize(<<>>)
<1> HIDE DEF v
<1>2. PICK N, z : N = Nat /\ z = 0
  OBVIOUS
<1>3. FoldIs(N, PlusEntry, z, <<>>, v) /\ z \in N /\ Len(<<>>) \in Nat
  BY <1>1, <1>2, EmptySeq DEF v
<1>4. FoldIs(N, PlusEntry, z, <<>>, z)
  BY ONLY <1>3, FoldEmpty
<1>5. v = z
  BY ONLY <1>3, <1>4, FoldOnce
<1> QED
  BY <1>2, <1>5 DEF v

-----------------------------------------------------------------------------
(***************************************************************************)
(* Both sides cut the messages at the same places.  start[k] is where the  *)
(* entry after k others begins, in messages before it: an entry before the *)
(* last one is full, it fits and the next message does not.                *)
(***************************************************************************)
Part(s, i, j) == entryMetadataSize + (First(s, j) - First(s, i))

Full(s, i, j) ==
    /\ i < j /\ j < Len(s)
    /\ Part(s, i, j) <= maxEntrySize
    /\ Part(s, i, j + 1) > maxEntrySize

Divides(start, b, s) ==
    /\ start \in [0 .. b.entryNumber -> 0 .. Len(s)]
    /\ start[0] = 0
    /\ \A k \in 0 .. b.entryNumber - 1 : Full(s, start[k], start[k + 1])
    /\ s # <<>> => start[b.entryNumber] < Len(s)
    /\ b.entryMessageSize = SumOf(s) - First(s, start[b.entryNumber])
    /\ b.totalMessageSize = SumOf(s)

\* After n compiled entries, so many messages are compressed.
Reached(start, b, n, done, all) ==
    /\ n <= b.entryNumber + 1
    /\ done = IF n <= b.entryNumber THEN start[n] ELSE all

\* The messages that fit into an entry.
Small(s, n) == \A i \in 1 .. n : s[i] <= EntryCapacity

\* The next message fits into no entry.
Stuck(s, n) == n < Len(s) /\ s[n + 1] > EntryCapacity

CompileInv ==
    /\ BatchTypeOK
    /\ BatchFits(batch)
    /\ EntryFits(batch, messages)
    /\ stage = "adding" => request = <<>> /\ compressed = 0
    /\ stage # "adding" => messages # <<>>
    /\ stage = "compiled" => compressed = Len(messages)
    /\ FlattenSeq(request) = SubSeq(messages, 1, compressed)
    /\ CompiledSize(request) = Len(request) * entryTotalMetadataSize + First(messages, compressed)
    /\ Small(messages, compressed)
    /\ \A i \in DOMAIN request :
          /\ entryMetadataSize + SumOf(request[i]) <= maxEntrySize
          /\ request[i] = <<>> => Stuck(messages, compressed)
    /\ Small(messages, Len(messages)) =>
          \E start : /\ Divides(start, batch, messages)
                     /\ Reached(start, batch, Len(request), compressed, Len(messages))

LEMMA MessageSizes ==
    /\ Sizes \subseteq Nat \ {0}
    /\ \A s \in Seq(Sizes) : s \in Seq(Nat) /\ s \in Seq(Nat \ {0}) /\ s \in Entries
    /\ \A t \in Seq(Seq(Sizes)) : t \in Seq(Entries)
<1>1. Sizes \subseteq Nat \ {0}
  BY Sizing, SizesAssumption
<1>2. \A s \in Seq(Sizes) : s \in Seq(Nat) /\ s \in Seq(Nat \ {0})
  <2>1. Sizes \subseteq Nat
    BY <1>1
  <2> QED
    BY <1>1, <2>1, SeqMonotonic
<1>3. Seq(Sizes) \subseteq Entries
  BY <1>2 DEF Entries
<1>4. \A t \in Seq(Seq(Sizes)) : t \in Seq(Entries)
  BY <1>3, SeqMonotonic
<1> QED
  BY <1>1, <1>2, <1>4 DEF Entries

\* tryAddMessage() keeps the division.
LEMMA AddingDivides ==
    ASSUME NEW s \in Seq(Sizes), NEW x \in Sizes, x <= EntryCapacity, NEW b, BatchFits(b),
           entrySize(b) <= maxEntrySize, NEW start, Divides(start, b, s)
    PROVE  \E after : Divides(after, Added(b, x), Append(s, x))
<1> DEFINE t == Append(s, x)
           n == b.entryNumber
           c == Added(b, x)
<1>1. /\ s \in Seq(Nat) /\ x \in Nat /\ x # 0 /\ Len(s) \in Nat
      /\ t \in Seq(Nat) /\ t # <<>> /\ Len(t) = Len(s) + 1
  BY MessageSizes, LenProperties, AppendProperties
<1>2. n \in Nat /\ b.entryMessageSize \in Nat /\ b.totalMessageSize \in Nat
  BY DEF BatchFits, Counters
<1>3. /\ \A i \in 0 .. Len(s) : First(t, i) = First(s, i) /\ First(s, i) \in Nat
      /\ First(s, Len(s)) = SumOf(s) /\ SumOf(s) \in Nat
      /\ First(t, Len(t)) = SumOf(s) + x /\ SumOf(t) = SumOf(s) + x
  BY <1>1, FirstOfAppend, FirstSteps, SumAppend
<1>4. ASSUME NEW i \in 0 .. Len(s), NEW j \in 0 .. Len(s), Full(s, i, j) PROVE Full(t, i, j)
  <2>1. j + 1 \in 0 .. Len(s)
    BY <1>1, <1>4 DEF Full
  <2> QED
    BY <1>1, <1>3, <1>4, <2>1 DEF Full, Part
<1>5. /\ start \in [0 .. n -> 0 .. Len(s)] /\ start[0] = 0
      /\ (\A k \in 0 .. n - 1 : Full(s, start[k], start[k + 1]))
      /\ (s # <<>> => start[n] < Len(s))
      /\ b.entryMessageSize = SumOf(s) - First(s, start[n])
      /\ b.totalMessageSize = SumOf(s)
  BY DEF Divides
<1>6. \A k \in 0 .. n - 1 : k \in 0 .. n /\ k + 1 \in 0 .. n
  BY <1>2
<1>7. \A k \in 0 .. n - 1 : Full(t, start[k], start[k + 1])
  BY <1>4, <1>5, <1>6
<1>8. n \in 0 .. n /\ start[n] \in 0 .. Len(s)
  BY <1>2, <1>5
<1>9. CASE ~OverflowsEntry(b, x)
  <2>1. /\ c.entryNumber = n /\ c.entryMessageSize = b.entryMessageSize + x
        /\ c.totalMessageSize = b.totalMessageSize + x
    BY <1>9 DEF Added
  <2>2. start \in [0 .. n -> 0 .. Len(t)]
    <3>1. 0 .. Len(s) \subseteq 0 .. Len(t)
      BY <1>1
    <3> HIDE DEF t
    <3> QED
      BY <1>5, <3>1
  <2>3. start[n] < Len(t)
    BY <1>1, <1>8
  <2>4. c.entryMessageSize = SumOf(t) - First(t, start[n])
    <3>1. First(t, start[n]) = First(s, start[n]) /\ First(s, start[n]) \in Nat
      BY <1>3, <1>8
    <3> HIDE DEF c, t
    <3> QED
      BY <1>1, <1>3, <1>5, <2>1, <3>1
  <2> HIDE DEF c, t
  <2>5. Divides(start, c, t)
    BY <1>3, <1>5, <1>7, <2>1, <2>2, <2>3, <2>4 DEF Divides
  <2> QED
    BY <2>5 DEF c, t
<1>10. CASE OverflowsEntry(b, x)
  <2> DEFINE after == [k \in 0 .. n + 1 |-> IF k = n + 1 THEN Len(s) ELSE start[k]]
  <2>1. /\ c.entryNumber = n + 1 /\ c.entryMessageSize = x
        /\ c.totalMessageSize = b.totalMessageSize + x
    BY <1>10 DEF Added
  <2>2. entryMetadataSize + b.entryMessageSize <= maxEntrySize
    BY DEF entrySize
  <2>3. entryMetadataSize + b.entryMessageSize + x > maxEntrySize
    BY <1>1, <1>2, <1>10, Sizing DEF OverflowsEntry, entrySize
  <2>4. s # <<>>
    <3> SUFFICES ASSUME s = <<>> PROVE FALSE
      OBVIOUS
    <3>0. Len(s) = 0
      BY EmptySeq
    <3>1. start[n] = 0
      BY <1>8, <3>0
    <3>2a. SumOf(s) = 0
      BY SumEmpty
    <3>2b. First(s, 0) = 0
      BY <1>1, FirstSteps
    <3>2. b.entryMessageSize = 0
      BY <1>5, <3>1, <3>2a, <3>2b
    <3>3. x <= maxEntrySize - entryMetadataSize
      BY <1>1, Sizing DEF EntryCapacity
    <3> QED
      BY <1>1, <2>3, <3>2, <3>3, Sizing
  <2>5. \A k \in 0 .. n : after[k] = start[k] /\ k \in 0 .. n + 1
    BY <1>2
  <2>6. after[n + 1] = Len(s) /\ n + 1 \in 0 .. n + 1
    BY <1>2
  <2>7. after \in [0 .. n + 1 -> 0 .. Len(t)]
    <3>1. \A k \in 0 .. n + 1 : k # n + 1 => k \in 0 .. n
      BY <1>2
    <3>2. 0 .. Len(s) \subseteq 0 .. Len(t) /\ Len(s) \in 0 .. Len(t)
      BY <1>1
    <3> HIDE DEF t
    <3> QED
      BY <1>5, <3>1, <3>2
  <2> HIDE DEF after
  <2>8. Full(t, start[n], Len(s))
    <3>1. start[n] < Len(s) /\ Len(s) < Len(t) /\ Len(s) \in 0 .. Len(s)
      BY <1>1, <1>5, <2>4
    <3>2. /\ First(t, start[n]) = First(s, start[n]) /\ First(s, start[n]) \in Nat
          /\ First(t, Len(s)) = SumOf(s) /\ First(t, Len(s) + 1) = SumOf(s) + x
      BY <1>1, <1>3, <1>8, <3>1
    <3>3. Part(t, start[n], Len(s)) = entryMetadataSize + b.entryMessageSize
      BY <1>3, <1>5, <3>2 DEF Part
    <3>4. Part(t, start[n], Len(s) + 1) = entryMetadataSize + b.entryMessageSize + x
      <4> HIDE DEF t
      <4> QED
        BY <1>1, <1>3, <1>5, <3>2, Sizing DEF Part
    <3> QED
      BY <2>2, <2>3, <3>1, <3>3, <3>4 DEF Full
  <2>9. \A k \in 0 .. (n + 1) - 1 : Full(t, after[k], after[k + 1])
    <3> TAKE k \in 0 .. (n + 1) - 1
    <3>1. k \in 0 .. n
      BY <1>2
    <3>2. CASE k = n
      BY <2>5, <2>6, <2>8, <3>1, <3>2
    <3>3. CASE k # n
      <4>1. k \in 0 .. n - 1
        BY <1>2, <3>1, <3>3
      <4>2. after[k] = start[k] /\ after[k + 1] = start[k + 1]
        BY <1>6, <2>5, <4>1
      <4> QED
        BY <1>7, <4>1, <4>2
    <3> QED
      BY <3>2, <3>3
  <2>10. after[0] = 0
    <3>1. 0 \in 0 .. n
      BY <1>2
    <3> QED
      BY <1>5, <2>5, <3>1
  <2>11. after[n + 1] < Len(t)
    BY <1>1, <2>6
  <2>12. x = SumOf(t) - First(t, after[n + 1])
    <3>1. First(t, Len(s)) = SumOf(s)
      BY <1>1, <1>3
    <3> HIDE DEF t
    <3> QED
      BY <1>1, <1>3, <2>6, <3>1
  <2> HIDE DEF c, t
  <2>13. Divides(after, c, t)
    BY <1>3, <1>5, <2>1, <2>7, <2>9, <2>10, <2>11, <2>12 DEF Divides
  <2> QED
    BY <2>13 DEF c, t
<1> QED
  BY <1>9, <1>10

\* How many messages compileMessages() takes is well defined.
LEMMA LengthIs ==
    ASSUME NEW rest \in Seq(Nat)
    PROVE  LET n == CompiledLength(rest)
           IN  /\ n \in 0 .. Len(rest)
               /\ n > 0 => Fit(rest, n)
               /\ n < Len(rest) => ~Fit(rest, n + 1)
<1> DEFINE Good(n) == (n > 0 => Fit(rest, n)) /\ (n < Len(rest) => ~Fit(rest, n + 1))
           T == {k \in Nat : k <= Len(rest) /\ k > 0 => Fit(rest, k)}
<1>1. Len(rest) \in Nat
  BY LenProperties
<1>2. \E n \in 0 .. Len(rest) : Good(n)
  <2> SUFFICES ASSUME \A n \in 0 .. Len(rest) : ~Good(n) PROVE FALSE
    OBVIOUS
  <2>1. 0 \in T
    OBVIOUS
  <2>2. ASSUME NEW k \in Nat, k \in T PROVE k + 1 \in T
    <3> SUFFICES ASSUME k + 1 <= Len(rest) PROVE Fit(rest, k + 1)
      OBVIOUS
    <3>1. k \in 0 .. Len(rest) /\ k < Len(rest)
      BY <1>1
    <3>2. k > 0 => Fit(rest, k)
      BY <2>2, <3>1
    <3> QED
      BY <3>1, <3>2
  <2> HIDE DEF T
  <2>3. Nat \subseteq T
    BY <2>1, <2>2, Upwards
  <2>4. Len(rest) > 0 => Fit(rest, Len(rest))
    BY <1>1, <2>3 DEF T
  <2>5. Good(Len(rest)) /\ Len(rest) \in 0 .. Len(rest)
    BY <1>1, <2>4
  <2> QED
    BY <2>5
<1>3. CompiledLength(rest) \in 0 .. Len(rest) /\ Good(CompiledLength(rest))
  BY <1>2 DEF CompiledLength
<1> QED
  BY <1>3

\* compileMessages() fills an entry to the same place.
LEMMA GreedyLength ==
    ASSUME NEW s \in Seq(Nat \ {0}), NEW i \in 0 .. Len(s), NEW j \in 0 .. Len(s), i < j,
           Part(s, i, j) <= maxEntrySize,
           j < Len(s) => Part(s, i, j + 1) > maxEntrySize
    PROVE  CompiledLength(SubSeq(s, i + 1, Len(s))) = j - i
<1> DEFINE rest == SubSeq(s, i + 1, Len(s))
           m == j - i
           Good(n) == (n > 0 => Fit(rest, n)) /\ (n < Len(rest) => ~Fit(rest, n + 1))
<1>1. /\ Len(s) \in Nat /\ s \in Seq(Nat) /\ i \in Nat /\ j \in Nat /\ m \in Nat \ {0}
      /\ rest \in Seq(Nat \ {0}) /\ rest \in Seq(Nat) /\ Len(rest) = Len(s) - i
  <2>1. Len(s) \in Nat /\ s \in Seq(Nat) /\ \A k \in 1 .. Len(s) : s[k] \in Nat \ {0}
    BY LenProperties, SeqMonotonic
  <2>2. \A k \in i + 1 .. Len(s) : s[k] \in Nat \ {0}
    BY <2>1
  <2>3. i + 1 \in Int /\ Len(s) \in Int
    BY <2>1
  <2>4. /\ rest \in Seq(Nat \ {0})
        /\ Len(rest) = IF i + 1 <= Len(s) THEN Len(s) - (i + 1) + 1 ELSE 0
    BY ONLY <2>2, <2>3, SubSeqProperties
  <2>5. rest \in Seq(Nat)
    BY <2>4, SeqMonotonic
  <2> HIDE DEF rest
  <2> QED
    BY <2>1, <2>4, <2>5
<1>2. \A n \in 0 .. Len(s) - i : First(rest, n) = First(s, i + n) - First(s, i)
  BY <1>1, PartSize
<1> HIDE DEF rest
<1>3. \A n \in 0 .. Len(rest) : First(rest, n) \in Nat
  BY <1>1, FirstSteps
<1>4. \A n \in 0 .. Len(rest) : Fit(rest, n) <=> entryMetadataSize + First(rest, n) <= maxEntrySize
  BY DEF Fit, First
<1>5. Good(m) /\ m \in 0 .. Len(rest)
  <2>1. m \in 0 .. Len(rest) /\ i + m = j
    BY <1>1
  <2>2. Fit(rest, m)
    BY <1>1, <1>2, <1>4, <2>1 DEF Part
  <2>3. ASSUME m < Len(rest) PROVE ~Fit(rest, m + 1)
    <3> DEFINE k == m + 1
    <3>1. k \in 0 .. Len(rest) /\ k \in 0 .. Len(s) - i /\ i + k = j + 1 /\ j < Len(s)
      <4>1. Len(rest) = Len(s) - i /\ Len(s) \in Nat /\ i \in Nat /\ j \in Nat /\ m \in Nat
        BY <1>1
      <4> HIDE DEF m
      <4> QED
        BY <2>1, <2>3, <4>1
    <3> HIDE DEF k, m
    <3>2. entryMetadataSize + First(rest, k) = Part(s, i, j + 1)
      BY <1>2, <3>1 DEF Part
    <3>3. Part(s, i, j + 1) > maxEntrySize /\ entryMetadataSize + First(rest, k) \in Int
      BY <1>3, <3>1, Sizing
    <3>4. ~(entryMetadataSize + First(rest, k) <= maxEntrySize)
      BY <3>2, <3>3, Sizing
    <3>5. ~Fit(rest, k)
      BY <1>4, <3>1, <3>4
    <3> QED
      BY <3>5 DEF k
  <2> QED
    BY <2>1, <2>2, <2>3
<1> DEFINE n == CompiledLength(rest)
<1>6. Good(n) /\ n \in 0 .. Len(rest)
  BY <1>5 DEF CompiledLength
<1> HIDE DEF n, m
<1>a. n \in Nat /\ m \in Nat /\ Len(rest) \in Nat /\ n <= Len(rest) /\ m <= Len(rest)
  BY <1>1, <1>5, <1>6
<1>7. \A k, l \in 0 .. Len(rest) : k <= l /\ Fit(rest, l) => Fit(rest, k)
  <2> SUFFICES ASSUME NEW k \in 0 .. Len(rest), NEW l \in 0 .. Len(rest), k < l, Fit(rest, l)
               PROVE  Fit(rest, k)
    OBVIOUS
  <2>1. First(rest, k) < First(rest, l)
    BY <1>1, FirstGrows
  <2> QED
    BY <1>3, <1>4, <2>1, Sizing
<1>8. ~(n < m)
  <2> SUFFICES ASSUME n < m PROVE FALSE
    OBVIOUS
  <2>1. n < Len(rest) /\ n + 1 \in 0 .. Len(rest) /\ n + 1 <= m /\ m > 0
    BY <1>a
  <2>2. Fit(rest, m) /\ ~Fit(rest, n + 1)
    BY <1>5, <1>6, <2>1
  <2> QED
    BY <1>7, <1>a, <1>5, <2>1, <2>2
<1>9. ~(m < n)
  <2> SUFFICES ASSUME m < n PROVE FALSE
    OBVIOUS
  <2>1. m < Len(rest) /\ m + 1 \in 0 .. Len(rest) /\ m + 1 <= n /\ n > 0
    BY <1>a
  <2>2. Fit(rest, n) /\ ~Fit(rest, m + 1)
    BY <1>5, <1>6, <2>1
  <2> QED
    BY <1>6, <1>7, <2>1, <2>2
<1>10. n = m
  BY <1>1, <1>5, <1>6, <1>8, <1>9
<1> QED
  BY <1>10 DEF n, m, rest

-----------------------------------------------------------------------------
\* compileBatch() cuts off what fits into an entry, nothing only if the next
\* message fits into none.
LEMMA EntryCut ==
    ASSUME NEW s \in Seq(Sizes), NEW i \in 0 .. Len(s), i < Len(s)
    PROVE  LET rest == SubSeq(s, i + 1, Len(s))
               n == CompiledLength(rest)
               entry == SubSeq(rest, 1, n)
           IN  /\ n \in 0 .. Len(s) - i
               /\ entry \in Seq(Sizes)
               /\ SumOf(entry) = First(s, i + n) - First(s, i)
               /\ SubSeq(s, 1, i) \o entry = SubSeq(s, 1, i + n)
               /\ entryMetadataSize + SumOf(entry) <= maxEntrySize
               /\ \A k \in i + 1 .. i + n : s[k] <= EntryCapacity
               /\ entry = <<>> => n = 0
               /\ n = 0 => Stuck(s, i)
<1> DEFINE rest == SubSeq(s, i + 1, Len(s))
           n == CompiledLength(rest)
           j == i + n
           entry == SubSeq(s, i + 1, j)
<1>1. /\ Len(s) \in Nat /\ i \in Nat
      /\ s \in Seq(Nat) /\ s \in Seq(Nat \ {0})
      /\ \A k \in 1 .. Len(s) : s[k] \in Sizes /\ s[k] \in Nat \ {0}
  BY LenProperties, MessageSizes
<1>2. rest \in Seq(Nat) /\ Len(rest) = Len(s) - i
  <2>1. \A k \in i + 1 .. Len(s) : s[k] \in Nat
    BY <1>1
  <2>2. i + 1 \in Int /\ Len(s) \in Int
    BY <1>1
  <2>3. rest \in Seq(Nat) /\ Len(rest) = IF i + 1 <= Len(s) THEN Len(s) - (i + 1) + 1 ELSE 0
    BY ONLY <2>1, <2>2, SubSeqProperties
  <2> HIDE DEF rest
  <2> QED
    BY <1>1, <2>3
<1> HIDE DEF rest
<1>3. n \in 0 .. Len(rest) /\ (n > 0 => Fit(rest, n)) /\ (n < Len(rest) => ~Fit(rest, n + 1))
  BY <1>2, LengthIs
<1> HIDE DEF n
<1>4. n \in Nat /\ j \in Nat /\ i <= j /\ j <= Len(s) /\ n \in 0 .. Len(s) - i /\ j - i = n
  BY <1>1, <1>2, <1>3
<1>5. \A m \in 0 .. Len(s) - i : First(rest, m) = First(s, i + m) - First(s, i)
  BY <1>1, PartSize DEF rest
<1>6. SubSeq(rest, 1, n) = entry
  <2>1. CASE n = 0
    <3>1. SubSeq(rest, 1, 0) = <<>>
      BY SubSeqEmpty
    <3>2. SubSeq(s, i + 1, i) = <<>> /\ j = i
      BY <1>1, <2>1, SubSeqEmpty
    <3> QED
      BY <2>1, <3>1, <3>2
  <2>2. CASE n # 0
    <3> DEFINE a == i + 1
               b == Len(s)
    <3>1. /\ a \in 1 .. Len(s) /\ b \in 1 .. Len(s) /\ 1 \in 1 .. b - a + 1 /\ n \in 1 .. b - a + 1
          /\ a + 1 - 1 = i + 1 /\ a + n - 1 = j
      BY <1>1, <1>4, <2>2
    <3> HIDE DEF a, b, j
    <3>2. SubSeq(SubSeq(s, a, b), 1, n) = SubSeq(s, a + 1 - 1, a + n - 1)
      BY <3>1, SubSeqOfSubSeq
    <3>3. SubSeq(SubSeq(s, a, b), 1, n) = SubSeq(s, i + 1, j)
      BY <3>1, <3>2
    <3> QED
      BY <3>3 DEF a, b, rest
  <2> QED
    BY <2>1, <2>2
<1> HIDE DEF j
<1>7. entry \in Seq(Sizes) /\ Len(entry) = n
  <2>1. \A k \in i + 1 .. j : s[k] \in Sizes
    BY <1>1, <1>4
  <2>2. i + 1 \in Int /\ j \in Int /\ (i + 1 <= j => j - (i + 1) + 1 = n) /\ (~(i + 1 <= j) => n = 0)
    BY <1>1, <1>4
  <2>3. entry \in Seq(Sizes) /\ Len(entry) = IF i + 1 <= j THEN j - (i + 1) + 1 ELSE 0
    BY ONLY <2>1, <2>2, SubSeqProperties
  <2> QED
    BY <2>2, <2>3
<1>8. SubSeq(s, 1, i) \o entry = SubSeq(s, 1, j)
  <2>1. 1 \in 1 .. Len(s) + 1 /\ i \in 1 - 1 .. Len(s) /\ j \in i .. Len(s)
    BY <1>1, <1>4
  <2> QED
    BY <2>1, ConcatAdjacentSubSeq
<1>9. SumOf(entry) = First(s, j) - First(s, i)
  <2>1. First(rest, n) = First(s, j) - First(s, i)
    BY <1>4, <1>5 DEF j
  <2> QED
    BY <1>6, <2>1 DEF First
<1>10. \A k \in 0 .. Len(s) : First(s, k) \in Nat
  BY <1>1, FirstSteps
<1>11. entryMetadataSize + SumOf(entry) <= maxEntrySize
  <2>1. CASE n = 0
    <3>1. j = i /\ i \in 0 .. Len(s)
      BY <1>1, <1>4, <2>1
    <3>2. SumOf(entry) = 0
      BY <1>9, <1>10, <3>1
    <3> QED
      BY <3>2, Sizing DEF EntryCapacity
  <2>2. CASE n # 0
    <3>1. Fit(rest, n)
      BY <1>3, <1>4, <2>2
    <3> HIDE DEF entry
    <3>2. Fit(rest, n) <=> entryMetadataSize + SumOf(entry) <= maxEntrySize
      BY <1>6 DEF Fit
    <3> QED
      BY <3>1, <3>2
  <2> QED
    BY <2>1, <2>2
<1>12. ASSUME NEW k \in i + 1 .. j PROVE s[k] <= EntryCapacity
  <2>1. /\ k \in 1 .. Len(s) /\ k - 1 \in 0 .. Len(s) /\ k \in 0 .. Len(s) /\ j \in 0 .. Len(s)
        /\ i <= k - 1 /\ k <= j
    BY <1>1, <1>4
  <2>2. First(s, k) = First(s, k - 1) + s[k] /\ s[k] \in Nat
    BY <1>1, <2>1, FirstSteps
  <2>3. First(s, i) <= First(s, k - 1)
    <3>1. CASE i = k - 1
      BY <1>10, <2>1, <3>1
    <3>2. CASE i # k - 1
      <4>1. i < k - 1
        BY <1>1, <2>1, <3>2
      <4>2. First(s, i) < First(s, k - 1)
        BY <1>1, <2>1, <4>1, FirstGrows
      <4> QED
        BY <1>10, <2>1, <4>2
    <3> QED
      BY <3>1, <3>2
  <2>4. First(s, k) <= First(s, j)
    <3>1. CASE k = j
      BY <1>10, <2>1, <3>1
    <3>2. CASE k # j
      <4>1. k < j
        BY <1>4, <2>1, <3>2
      <4>2. First(s, k) < First(s, j)
        BY <1>1, <2>1, <4>1, FirstGrows
      <4> QED
        BY <1>10, <2>1, <4>2
    <3> QED
      BY <3>1, <3>2
  <2>5. /\ First(s, i) \in Nat /\ First(s, k) \in Nat /\ First(s, k - 1) \in Nat
        /\ First(s, j) \in Nat /\ entryMetadataSize + (First(s, j) - First(s, i)) <= maxEntrySize
    BY <1>9, <1>10, <1>11, <2>1
  <2> DEFINE f == First(s, i)
             g == First(s, k - 1)
             h == First(s, k)
             l == First(s, j)
             x == s[k]
  <2>6. /\ f \in Nat /\ g \in Nat /\ h \in Nat /\ l \in Nat /\ x \in Nat
        /\ h = g + x /\ f <= g /\ h <= l /\ entryMetadataSize + (l - f) <= maxEntrySize
    BY <2>2, <2>3, <2>4, <2>5
  <2> HIDE DEF f, g, h, l, x
  <2>7. x <= EntryCapacity
    BY <2>6, Sizing DEF EntryCapacity
  <2> QED
    BY <2>7 DEF x
<1>13. entry = <<>> => n = 0
  BY <1>7, EmptySeq
<1>14. ASSUME n = 0 PROVE Stuck(s, i)
  <2>1. 1 \in 0 .. Len(s) - i /\ 0 < Len(rest) /\ i + 1 \in 1 .. Len(s) /\ i \in 0 .. Len(s)
    BY <1>1, <1>2
  <2>2. ~Fit(rest, 1)
    BY <1>3, <1>14, <2>1
  <2>3. First(rest, 1) = First(s, i + 1) - First(s, i)
    BY <1>5, <2>1
  <2>4. First(s, i + 1) = First(s, i) + s[i + 1] /\ s[i + 1] \in Nat /\ First(s, i) \in Nat
    <3>1. (i + 1) - 1 = i
      BY <1>1
    <3> QED
      BY <1>1, <1>10, <2>1, <3>1, FirstSteps
  <2>5. First(rest, 1) = s[i + 1]
    BY <2>3, <2>4
  <2>6. ~(entryMetadataSize + s[i + 1] <= maxEntrySize)
    BY <2>2, <2>5 DEF Fit, First
  <2> QED
    BY <2>4, <2>6, Sizing DEF Stuck, EntryCapacity
<1> HIDE DEF entry
<1>15. SubSeq(rest, 1, n) \in Seq(Sizes) /\ (SubSeq(rest, 1, n) = <<>> => n = 0)
  BY <1>6, <1>7, <1>13
<1>16. /\ SumOf(SubSeq(rest, 1, n)) = First(s, i + n) - First(s, i)
       /\ SubSeq(s, 1, i) \o SubSeq(rest, 1, n) = SubSeq(s, 1, i + n)
       /\ entryMetadataSize + SumOf(SubSeq(rest, 1, n)) <= maxEntrySize
       /\ \A k \in i + 1 .. i + n : s[k] <= EntryCapacity
  BY <1>6, <1>8, <1>9, <1>11, <1>12 DEF j
<1> QED
  BY <1>4, <1>14, <1>15, <1>16 DEF n, rest

\* The current entry is small if all messages are.
LEMMA SmallEntry ==
    ASSUME NEW b, NEW s \in Seq(Sizes), EntryFits(b, s), Small(s, Len(s))
    PROVE  entrySize(b) <= maxEntrySize
<1> SUFFICES ASSUME s # <<>>, Last(s) > EntryCapacity PROVE FALSE
  BY DEF EntryFits
<1>1. Len(s) \in Nat /\ Len(s) # 0 /\ \A k \in 1 .. Len(s) : s[k] \in Nat
  BY LenProperties, EmptySeq, MessageSizes
<1>2. Len(s) \in 1 .. Len(s)
  BY <1>1
<1> QED
  BY <1>1, <1>2, Sizing DEF Small, Last

\* If every message fits into an entry, compileBatch() cuts off the entry
\* that tryAddMessage() counted.
LEMMA EntryReached ==
    ASSUME CompileInv, CompileEntry, Small(messages, Len(messages)),
           NEW start, Divides(start, batch, messages),
           Reached(start, batch, Len(request), compressed, Len(messages))
    PROVE  Reached(start, batch, Len(request) + 1,
                   compressed + CompiledLength(SubSeq(messages, compressed + 1, Len(messages))),
                   Len(messages))
<1> DEFINE s == messages
           i == compressed
           k == Len(request)
           N == batch.entryNumber
<1>1. i < Len(s) /\ s # <<>>
  BY DEF CompileEntry, CompileInv
<1>2. /\ s \in Seq(Sizes) /\ s \in Seq(Nat) /\ s \in Seq(Nat \ {0}) /\ Len(s) \in Nat
      /\ i \in 0 .. Len(s) /\ request \in Seq(Seq(Sizes)) /\ k \in Nat
      /\ N \in Nat /\ batch.entryMessageSize \in Nat
  BY LenProperties, MessageSizes DEF CompileInv, BatchTypeOK
<1>3. k \in 0 .. N /\ i = start[k]
  BY <1>1, <1>2 DEF Reached
<1>4. /\ start \in [0 .. N -> 0 .. Len(s)]
      /\ (\A l \in 0 .. N - 1 : Full(s, start[l], start[l + 1]))
      /\ start[N] < Len(s)
      /\ batch.entryMessageSize = SumOf(s) - First(s, start[N])
  BY <1>1 DEF Divides
<1> DEFINE j == IF k + 1 <= N THEN start[k + 1] ELSE Len(s)
<1>5. /\ j \in 0 .. Len(s) /\ i < j /\ Part(s, i, j) <= maxEntrySize
      /\ j < Len(s) => Part(s, i, j + 1) > maxEntrySize
  <2>1. CASE k + 1 <= N
    <3>1. k \in 0 .. N - 1 /\ k + 1 \in 0 .. N /\ j = start[k + 1]
      BY <1>2, <1>3, <2>1
    <3>2. Full(s, i, j)
      BY <1>3, <1>4, <3>1
    <3> QED
      BY <1>4, <3>1, <3>2 DEF Full
  <2>2. CASE ~(k + 1 <= N)
    <3>1. k = N /\ j = Len(s)
      BY <1>2, <1>3, <2>2
    <3>2. First(s, Len(s)) = SumOf(s)
      BY <1>2, FirstSteps
    <3>3. Part(s, i, j) = entryMetadataSize + batch.entryMessageSize
      BY <1>3, <1>4, <3>1, <3>2 DEF Part
    <3>4. entryMetadataSize + batch.entryMessageSize <= maxEntrySize
      BY <1>2, SmallEntry DEF CompileInv, entrySize
    <3> QED
      BY <1>2, <1>1, <3>1, <3>3, <3>4
  <2> QED
    BY <2>1, <2>2
<1>6. CompiledLength(SubSeq(s, i + 1, Len(s))) = j - i
  <2> HIDE DEF j
  <2> QED
    BY <1>2, <1>5, GreedyLength
<1>7. Reached(start, batch, k + 1, j, Len(s))
  BY <1>2, <1>3 DEF Reached
<1>8. i + (j - i) = j
  <2>1. i \in Nat /\ j \in Nat
    BY <1>2, <1>5
  <2> HIDE DEF j
  <2> QED
    BY <2>1
<1> QED
  BY <1>6, <1>7, <1>8

LEMMA CompilingKeeps ==
    ASSUME CompileInv, CompileEntry
    PROVE  CompileInv'
<1> DEFINE s == messages
           i == compressed
           k == Len(request)
           rest == SubSeq(s, i + 1, Len(s))
           n == CompiledLength(rest)
           j == i + n
           entry == SubSeq(rest, 1, n)
<1>1. /\ stage = "compiling" /\ i < Len(s) /\ s # <<>>
      /\ UNCHANGED <<stage, batch, messages>>
      /\ request' = Append(request, entry) /\ compressed' = j
  BY DEF CompileEntry, CompileInv
<1>2. /\ s \in Seq(Sizes) /\ s \in Seq(Nat) /\ Len(s) \in Nat /\ i \in 0 .. Len(s)
      /\ request \in Seq(Seq(Sizes)) /\ request \in Seq(Entries) /\ k \in Nat
  BY LenProperties, MessageSizes DEF CompileInv, BatchTypeOK
<1>3. /\ n \in 0 .. Len(s) - i
      /\ entry \in Seq(Sizes)
      /\ SumOf(entry) = First(s, j) - First(s, i)
      /\ SubSeq(s, 1, i) \o entry = SubSeq(s, 1, j)
      /\ entryMetadataSize + SumOf(entry) <= maxEntrySize
      /\ \A l \in i + 1 .. j : s[l] <= EntryCapacity
      /\ entry = <<>> => n = 0
      /\ n = 0 => Stuck(s, i)
  BY <1>1, <1>2, EntryCut
<1>4. ASSUME Small(s, Len(s))
      PROVE  \E start : Divides(start, batch, s) /\ Reached(start, batch, k + 1, j, Len(s))
  <2>1. PICK start : Divides(start, batch, s) /\ Reached(start, batch, k, i, Len(s))
    BY <1>4 DEF CompileInv
  <2>2. Reached(start, batch, k + 1, j, Len(s))
    BY <1>4, <2>1, EntryReached
  <2> QED
    BY <2>1, <2>2
<1> HIDE DEF entry, rest, n
<1>5. j \in 0 .. Len(s) /\ i <= j /\ (n = 0 => j = i)
  BY <1>2, <1>3
<1> HIDE DEF j
<1>6. /\ request' \in Seq(Seq(Sizes)) /\ Len(request') = k + 1
      /\ \A l \in 1 .. k : request'[l] = request[l]
      /\ request'[k + 1] = entry
  BY <1>1, <1>2, <1>3, AppendProperties
<1>7. BatchTypeOK'
  BY <1>1, <1>5, <1>6 DEF CompileInv, BatchTypeOK
<1>8. BatchFits(batch)' /\ EntryFits(batch, messages)'
  BY <1>1 DEF CompileInv
<1>9. FlattenSeq(request') = SubSeq(s, 1, j)
  <2>1. FlattenSeq(request) = SubSeq(s, 1, i)
    BY DEF CompileInv
  <2> QED
    BY <1>1, <1>2, <1>3, <2>1, FlattenAppend
<1>10. CompiledSize(request') = (k + 1) * entryTotalMetadataSize + First(s, j)
  <2>1. CompiledSize(request) = k * entryTotalMetadataSize + First(s, i)
    BY DEF CompileInv
  <2>2. CompiledSize(request') = CompiledSize(request) + entryTotalMetadataSize + SumOf(entry)
    BY <1>1, <1>2, <1>3, SizeAppend, MessageSizes
  <2>3. First(s, i) \in Nat /\ First(s, j) \in Nat
    BY <1>2, <1>5, FirstSteps
  <2>4. (k + 1) * entryTotalMetadataSize = k * entryTotalMetadataSize + entryTotalMetadataSize
    BY <1>2, Sizing
  <2>5. k * entryTotalMetadataSize \in Nat
    BY <1>2, Sizing
  <2> DEFINE p == k * entryTotalMetadataSize
             q == (k + 1) * entryTotalMetadataSize
             u == CompiledSize(request')
             v == CompiledSize(request)
             f == First(s, i)
             g == First(s, j)
             e == SumOf(entry)
  <2>6. /\ v = p + f /\ u = v + entryTotalMetadataSize + e /\ f \in Nat /\ g \in Nat
        /\ q = p + entryTotalMetadataSize /\ p \in Nat /\ e = g - f
    BY <1>3, <2>1, <2>2, <2>3, <2>4, <2>5
  <2> HIDE DEF p, q, u, v, f, g, e
  <2>7. u = q + g
    BY <2>6, Sizing
  <2> QED
    BY <2>7 DEF q, u, g
<1>11. Small(s, j)
  <2> SUFFICES ASSUME NEW l \in 1 .. j PROVE s[l] <= EntryCapacity
    BY DEF Small
  <2>1. CASE l <= i
    <3>1. l \in 1 .. i
      BY <1>2, <1>5, <2>1
    <3> QED
      BY <3>1 DEF CompileInv, Small
  <2>2. CASE ~(l <= i)
    <3>1. l \in i + 1 .. j
      BY <1>2, <1>5, <2>2
    <3> QED
      BY <1>3, <3>1
  <2> QED
    BY <2>1, <2>2
<1>12. ASSUME Stuck(s, i) PROVE Stuck(s, j)
  <2>1. /\ i \in Nat /\ j \in Nat /\ Len(s) \in Nat
        /\ s[i + 1] \in Nat /\ EntryCapacity \in Nat /\ s[i + 1] > EntryCapacity
    <3>1. i + 1 \in 1 .. Len(s) /\ \A l \in 1 .. Len(s) : s[l] \in Nat
      BY <1>1, <1>2, LenProperties
    <3> QED
      BY <1>2, <1>5, <1>12, <3>1, Sizing DEF Stuck
  <2>2. ~(i + 1 <= j)
    <3> SUFFICES ASSUME i + 1 <= j PROVE FALSE
      OBVIOUS
    <3>1. i + 1 \in 1 .. j
      BY <2>1
    <3> QED
      BY <1>11, <2>1, <3>1 DEF Small
  <2>3. i = j
    BY <1>5, <2>1, <2>2
  <2> QED
    BY <1>12, <2>3
<1>13. \A l \in DOMAIN request' :
          /\ entryMetadataSize + SumOf(request'[l]) <= maxEntrySize
          /\ request'[l] = <<>> => Stuck(s, j)
  <2> TAKE l \in DOMAIN request'
  <2>1. l \in 1 .. k + 1
    BY <1>6, LenProperties
  <2>2. CASE l = k + 1
    BY <1>3, <1>5, <1>6, <2>2
  <2>3. CASE l # k + 1
    <3>1. l \in 1 .. k /\ l \in DOMAIN request
      BY <1>2, <2>1, <2>3, LenProperties
    <3>2. /\ entryMetadataSize + SumOf(request[l]) <= maxEntrySize
          /\ request[l] = <<>> => Stuck(s, i)
      BY <3>1 DEF CompileInv
    <3> QED
      BY <1>6, <1>12, <3>1, <3>2
  <2> QED
    BY <2>2, <2>3
<1>14. Small(messages, Len(messages))' =>
          \E start : /\ Divides(start, batch, messages)'
                     /\ Reached(start, batch, Len(request), compressed, Len(messages))'
  BY <1>1, <1>4, <1>6
<1>15. FlattenSeq(request)' = SubSeq(messages, 1, compressed)'
  BY <1>1, <1>9
<1>16. CompiledSize(request)' = (Len(request) * entryTotalMetadataSize + First(messages, compressed))'
  BY <1>1, <1>6, <1>10
<1>17. Small(messages, compressed)' /\ (\A l \in DOMAIN request :
          /\ entryMetadataSize + SumOf(request[l]) <= maxEntrySize
          /\ request[l] = <<>> => Stuck(messages, compressed))'
  BY <1>1, <1>11, <1>13
<1> QED
  BY <1>1, <1>7, <1>8, <1>14, <1>15, <1>16, <1>17 DEF CompileInv

LEMMA CompileInvInit == BatchInit => CompileInv
<1> SUFFICES ASSUME BatchInit PROVE CompileInv
  OBVIOUS
<1> DEFINE start == [k \in 0 .. 0 |-> 0]
<1>1. /\ stage = "adding" /\ batch = EmptyBatch /\ messages = <<>> /\ compressed = 0 /\ request = <<>>
  BY DEF BatchInit
<1>2. Len(<<>>) = 0 /\ <<>> \in Seq(Sizes) /\ <<>> \in Seq(Seq(Sizes)) /\ <<>> \in Seq(Nat)
  BY EmptySeq
<1>3. First(<<>>, 0) = 0
  BY <1>2, FirstSteps
<1>4. SubSeq(<<>>, 1, 0) = <<>>
  BY SubSeqEmpty
<1>5. Divides(start, EmptyBatch, <<>>)
  <2>1. 0 \in 0 .. 0 /\ start[0] = 0 /\ start \in [0 .. 0 -> 0 .. 0]
    OBVIOUS
  <2> HIDE DEF start
  <2> QED
    BY <1>2, <1>3, <2>1, SumEmpty DEF Divides, EmptyBatch
<1>6. Reached(start, EmptyBatch, 0, 0, 0)
  BY DEF Reached, EmptyBatch
<1>7. BatchTypeOK
  BY <1>1, <1>2 DEF BatchTypeOK, EmptyBatch
<1>8. \E h : Divides(h, batch, messages) /\ Reached(h, batch, Len(request), compressed, Len(messages))
  <2> HIDE DEF start
  <2> QED
    BY <1>1, <1>2, <1>5, <1>6
<1>9. CompiledSize(request) = Len(request) * entryTotalMetadataSize + First(messages, compressed)
  BY <1>1, <1>2, <1>3, SizeEmpty, Sizing
<1>10. /\ BatchFits(batch) /\ DOMAIN request = {} /\ stage = "adding"
       /\ EntryFits(batch, messages) /\ Small(messages, compressed)
  BY <1>1, EmptyFits, EmptyEntryFits, EmptySeq DEF Small
<1>11. FlattenSeq(request) = SubSeq(messages, 1, compressed)
  BY <1>1, <1>4, FlattenEmpty
<1> HIDE DEF start
<1> QED
  BY <1>1, <1>7, <1>8, <1>9, <1>10, <1>11 DEF CompileInv

LEMMA CompileInvNext == CompileInv /\ [BatchNext]_batchVars => CompileInv'
<1> SUFFICES ASSUME CompileInv, [BatchNext]_batchVars PROVE CompileInv'
  OBVIOUS
<1>1. ASSUME NEW size \in Sizes, AddMessage(size) PROVE CompileInv'
  <2>1. /\ stage = "adding" /\ stage' = "adding" /\ request = <<>> /\ request' = <<>>
        /\ compressed = 0 /\ compressed' = 0
        /\ batch' = Added(batch, size) /\ messages' = Append(messages, size)
    BY <1>1 DEF AddMessage, CompileInv
  <2>2. size \in Nat /\ messages \in Seq(Sizes) /\ messages \in Seq(Nat) /\ Len(messages) \in Nat
    BY SizesAssumption, MessageSizes, LenProperties DEF CompileInv, BatchTypeOK
  <2>3. BatchFits(batch') /\ EntryFits(batch', messages')
    BY <1>1, <2>1, <2>2, AddingFits, AddingEntryFits DEF AddMessage, CompileInv
  <2>4. /\ messages' \in Seq(Sizes) /\ messages' \in Seq(Nat)
        /\ Len(messages') \in Nat /\ Len(<<>>) = 0
    BY <1>1, <2>1, <2>2, AppendProperties, LenProperties, EmptySeq, MessageSizes
  <2>5. BatchTypeOK'
    <3>1. batch' \in [totalMessageSize : Nat, entryMessageSize : Nat, entryNumber : Nat]
      BY <2>3 DEF BatchFits, Counters
    <3>2. compressed' \in 0 .. Len(messages') /\ stage' \in {"adding", "compiling", "compiled"}
      BY <2>1, <2>4
    <3>3. request' \in Seq(Seq(Sizes))
      BY <2>1, EmptySeq
    <3> QED
      BY <2>4, <3>1, <3>2, <3>3 DEF BatchTypeOK
  <2>6. ASSUME Small(messages', Len(messages'))
        PROVE  \E h : Divides(h, batch', messages') /\ Reached(h, batch', 0, 0, Len(messages'))
    <3>1. Small(messages, Len(messages)) /\ size <= EntryCapacity
      <4>1. /\ Len(messages') = Len(messages) + 1
            /\ \A i \in 1 .. Len(messages) : messages'[i] = messages[i] /\ i \in 1 .. Len(messages')
            /\ messages'[Len(messages')] = size /\ Len(messages') \in 1 .. Len(messages')
        BY <2>1, <2>2, AppendProperties
      <4> QED
        BY <2>6, <4>1 DEF Small
    <3>2. PICK h : Divides(h, batch, messages)
      BY <3>1 DEF CompileInv
    <3>3. entrySize(batch) <= maxEntrySize
      BY <2>2, <3>1, SmallEntry DEF CompileInv
    <3>4. PICK start : Divides(start, batch', messages')
      BY <1>1, <2>1, <2>2, <3>1, <3>2, <3>3, AddingDivides DEF CompileInv
    <3>5. batch'.entryNumber \in Nat /\ start[0] = 0
      BY <2>3, <3>4 DEF BatchFits, Counters, Divides
    <3> QED
      BY <3>4, <3>5 DEF Reached
  <2>8. First(messages', 0) = 0 /\ SubSeq(messages', 1, 0) = <<>>
    BY <2>4, FirstSteps, SubSeqEmpty
  <2>9. FlattenSeq(request)' = SubSeq(messages, 1, compressed)'
    BY <2>1, <2>8, FlattenEmpty
  <2>10. CompiledSize(request)' = (Len(request) * entryTotalMetadataSize + First(messages, compressed))'
    BY <2>1, <2>4, <2>8, SizeEmpty, Sizing
  <2>11. Small(messages', Len(messages')) =>
            \E h : Divides(h, batch', messages') /\ Reached(h, batch', Len(request'), compressed', Len(messages'))
    BY <2>1, <2>4, <2>6
  <2>12. DOMAIN request' = {} /\ Small(messages', compressed')
    BY <2>1, EmptySeq DEF Small
  <2> QED
    BY <2>1, <2>3, <2>5, <2>9, <2>10, <2>11, <2>12 DEF CompileInv
<1>2. CASE SendBatch
  BY <1>2 DEF SendBatch, CompileInv, BatchTypeOK
<1>3. CASE CompileEntry
  BY <1>3, CompilingKeeps
<1>4. CASE FinishCompile
  BY <1>4 DEF FinishCompile, CompileInv, BatchTypeOK
<1>5. CASE UNCHANGED batchVars
  BY <1>5 DEF batchVars, CompileInv, BatchTypeOK
<1> QED
  BY <1>1, <1>2, <1>3, <1>4, <1>5 DEF BatchNext

LEMMA CompileInvShows == CompileInv => CompiledAsCounted
<1> SUFFICES ASSUME CompileInv PROVE CompiledAsCounted
  OBVIOUS
<1>1. \A i \in DOMAIN request :
        /\ entryMetadataSize + SumOf(request[i]) <= maxEntrySize
        /\ request[i] = <<>> => compressed < Len(messages) /\ messages[compressed + 1] > EntryCapacity
  BY DEF CompileInv, Stuck
<1>2. ASSUME stage = "compiled"
      PROVE  /\ Len(request) = batch.entryNumber + 1
             /\ CompiledSize(request) = requestTotalSize(batch)
             /\ FlattenSeq(request) = messages
  <2> DEFINE k == Len(request)
             N == batch.entryNumber
  <2>1. /\ compressed = Len(messages) /\ messages # <<>>
        /\ Small(messages, Len(messages))
    BY <1>2 DEF CompileInv
  <2>2. /\ messages \in Seq(Sizes) /\ messages \in Seq(Nat) /\ Len(messages) \in Nat
        /\ k \in Nat /\ N \in Nat
    BY LenProperties, MessageSizes DEF CompileInv, BatchTypeOK
  <2>3. PICK start : Divides(start, batch, messages) /\ Reached(start, batch, k, compressed, Len(messages))
    BY <2>1 DEF CompileInv
  <2>4. /\ start \in [0 .. N -> 0 .. Len(messages)] /\ start[N] < Len(messages)
        /\ \A l \in 0 .. N - 1 : Full(messages, start[l], start[l + 1])
        /\ batch.totalMessageSize = SumOf(messages)
    BY <2>1, <2>3 DEF Divides
  <2>5. k = N + 1
    <3> SUFFICES ASSUME k # N + 1 PROVE FALSE
      OBVIOUS
    <3>1. k <= N /\ start[k] = Len(messages)
      BY <2>1, <2>2, <2>3 DEF Reached
    <3>2. CASE k = N
      BY <2>2, <2>4, <3>1, <3>2
    <3>3. CASE k # N
      <4>1. k \in 0 .. N - 1 /\ k + 1 \in 0 .. N
        BY <2>2, <3>1, <3>3
      <4>2. start[k] < start[k + 1] /\ start[k + 1] \in 0 .. Len(messages)
        BY <2>4, <4>1 DEF Full
      <4> QED
        BY <2>2, <3>1, <4>2
    <3> QED
      BY <3>2, <3>3
  <2>6. CompiledSize(request) = (N + 1) * entryTotalMetadataSize + SumOf(messages)
    <3>1. First(messages, Len(messages)) = SumOf(messages)
      BY <2>2, FirstSteps
    <3> QED
      BY <2>1, <2>5, <3>1 DEF CompileInv
  <2>7. FlattenSeq(request) = messages
    BY <2>1, <2>2, SubSeqFull DEF CompileInv
  <2> QED
    BY <2>4, <2>5, <2>6, <2>7 DEF requestTotalSize
<1> QED
  BY <1>1, <1>2 DEF CompiledAsCounted

(***************************************************************************)
(* The invariant of the batch and its compilation.  What was compiled fits *)
(* into its entries, and an empty entry is written only before a message   *)
(* that fits into none.  As long as there is no such message, the messages *)
(* are cut where tryAddMessage() cut them, and compileBatch() has reached  *)
(* the end of as many parts as it has written entries.                     *)
(***************************************************************************)
THEOREM CompileInvariant == BatchSpec => []CompileInv
<1> QED
  BY CompileInvInit, CompileInvNext, PTL DEF BatchSpec

(***************************************************************************)
(* The variables keep their types; compressed never leaves the messages.   *)
(***************************************************************************)
THEOREM BatchTypeCorrect == BatchSpec => []BatchTypeOK
<1>1. CompileInv => BatchTypeOK
  BY DEF CompileInv
<1> QED
  BY <1>1, CompileInvariant, PTL

(***************************************************************************)
(* For every sequence of messages, those that Put() lets in and that are   *)
(* larger than an entry when they are compressed included: a request that  *)
(* compileBatch() finishes has as many entries and bytes as                *)
(* tryAddMessage() counted, with all messages in order; no entry is too    *)
(* large; and one is empty only where compileBatch() can get no further.   *)
(***************************************************************************)
THEOREM CompiledAlwaysAsCounted == BatchSpec => []CompiledAsCounted
<1> QED
  BY CompileInvariant, CompileInvShows, PTL

-----------------------------------------------------------------------------
(***************************************************************************)
(* The byte counts of module RecordSize, and that the real limits satisfy  *)
(* what module Batch assumes of its parameters.                            *)
(***************************************************************************)
Real == INSTANCE RecordSize

RealBatch == INSTANCE Batch WITH
    maxEntriesPerRequest <- Real!maxEntriesPerRequest,
    maxEntrySize         <- Real!maxEntrySize,
    maxRequestSize       <- Real!maxRequestSize,
    entryMetadataSize    <- Real!entryMetadataSize,
    partitionKeySize     <- Real!ksuidPartitionKeyStringSize

\* The varint of a length takes one, two or three bytes.
LEMMA VarintSizes ==
    ASSUME NEW n \in Nat, n <= 2097151
    PROVE  /\ n <= 127 => Real!VarintSize(n) = 1
           /\ 127 < n /\ n <= 16383 => Real!VarintSize(n) = 2
           /\ 16383 < n => Real!VarintSize(n) = 3
PROOF
  <1>1. CASE n <= 127
    <2> Real!Above(n, 127) = 0 /\ Real!Above(n, 16383) = 0 /\ Real!Above(n, 2097151) = 0
      BY <1>1, SMT DEF Real!Above
    <2> QED BY <1>1, SMT DEF Real!VarintSize
  <1>2. CASE 127 < n /\ n <= 16383
    <2> Real!Above(n, 127) = 1 /\ Real!Above(n, 16383) = 0 /\ Real!Above(n, 2097151) = 0
      BY <1>2, SMT DEF Real!Above
    <2> QED BY <1>2, SMT DEF Real!VarintSize
  <1>3. CASE 16383 < n
    <2> Real!Above(n, 127) = 1 /\ Real!Above(n, 16383) = 1 /\ Real!Above(n, 2097151) = 0
      BY <1>3, SMT DEF Real!Above
    <2> QED BY <1>3, SMT DEF Real!VarintSize
  <1> QED BY <1>1, <1>2, <1>3, SMT

(***************************************************************************)
(* messageProtoSize() is the size of the encoded record to the byte, for   *)
(* every message up to MaxLength, far above what Put() accepts.  The       *)
(* thresholds are where the length of the data or the length of the record *)
(* needs one more byte.                                                    *)
(***************************************************************************)
THEOREM ProtoSizeExact ==
    \A l \in Nat : l <= Real!MaxLength =>
        Real!messageProtoSize(l) = Real!EncodedRecord(l)
PROOF
  <1> TAKE l \in Nat
  <1> HAVE l <= Real!MaxLength
  <1>1. CASE l <= 123
    <2>1. /\ Real!Above(l, 123) = 0
             /\ Real!Above(l, 127) = 0
             /\ Real!Above(l, 16378) = 0
             /\ Real!Above(l, 16383) = 0
      BY <1>1, SMT DEF Real!MaxLength, Real!Above
    <2>2. Real!messageProtoSize(l) = l + 6
      BY <2>1, SMT DEF Real!messageProtoSize, Real!MaxLength
    <2>3. Real!BytesField(l) = l + 2
      BY <1>1, VarintSizes, SMT DEF Real!BytesField, Real!MaxLength
    <2>4. Real!VarintSize(l + 4) = 1
      <3> DEFINE n == l + 4
      <3> n \in Nat /\ n <= 2097151 /\ (n <= 127)
        BY <1>1, SMT DEF Real!MaxLength
      <3> HIDE DEF n
      <3>1. Real!VarintSize(n) = 1
        BY VarintSizes, SMT
      <3> QED BY <3>1, SMT DEF n
    <2>5. Real!SmallIntField + Real!BytesField(l) = l + 4
      BY <2>3, SMT DEF Real!SmallIntField, Real!MaxLength
    <2>6. Real!EncodedRecord(l) = l + 6
      BY <2>4, <2>5, SMT DEF Real!EncodedRecord, Real!BytesField, Real!MaxLength
    <2> QED BY <2>2, <2>6, SMT
  <1>2. CASE 123 < l /\ l <= 127
    <2>1. /\ Real!Above(l, 123) = 1
             /\ Real!Above(l, 127) = 0
             /\ Real!Above(l, 16378) = 0
             /\ Real!Above(l, 16383) = 0
      BY <1>2, SMT DEF Real!MaxLength, Real!Above
    <2>2. Real!messageProtoSize(l) = l + 7
      BY <2>1, SMT DEF Real!messageProtoSize, Real!MaxLength
    <2>3. Real!BytesField(l) = l + 2
      BY <1>2, VarintSizes, SMT DEF Real!BytesField, Real!MaxLength
    <2>4. Real!VarintSize(l + 4) = 2
      <3> DEFINE n == l + 4
      <3> n \in Nat /\ n <= 2097151 /\ (127 < n /\ n <= 16383)
        BY <1>2, SMT DEF Real!MaxLength
      <3> HIDE DEF n
      <3>1. Real!VarintSize(n) = 2
        BY VarintSizes, SMT
      <3> QED BY <3>1, SMT DEF n
    <2>5. Real!SmallIntField + Real!BytesField(l) = l + 4
      BY <2>3, SMT DEF Real!SmallIntField, Real!MaxLength
    <2>6. Real!EncodedRecord(l) = l + 7
      BY <2>4, <2>5, SMT DEF Real!EncodedRecord, Real!BytesField, Real!MaxLength
    <2> QED BY <2>2, <2>6, SMT
  <1>3. CASE 127 < l /\ l <= 16378
    <2>1. /\ Real!Above(l, 123) = 1
             /\ Real!Above(l, 127) = 1
             /\ Real!Above(l, 16378) = 0
             /\ Real!Above(l, 16383) = 0
      BY <1>3, SMT DEF Real!MaxLength, Real!Above
    <2>2. Real!messageProtoSize(l) = l + 8
      BY <2>1, SMT DEF Real!messageProtoSize, Real!MaxLength
    <2>3. Real!BytesField(l) = l + 3
      BY <1>3, VarintSizes, SMT DEF Real!BytesField, Real!MaxLength
    <2>4. Real!VarintSize(l + 5) = 2
      <3> DEFINE n == l + 5
      <3> n \in Nat /\ n <= 2097151 /\ (127 < n /\ n <= 16383)
        BY <1>3, SMT DEF Real!MaxLength
      <3> HIDE DEF n
      <3>1. Real!VarintSize(n) = 2
        BY VarintSizes, SMT
      <3> QED BY <3>1, SMT DEF n
    <2>5. Real!SmallIntField + Real!BytesField(l) = l + 5
      BY <2>3, SMT DEF Real!SmallIntField, Real!MaxLength
    <2>6. Real!EncodedRecord(l) = l + 8
      BY <2>4, <2>5, SMT DEF Real!EncodedRecord, Real!BytesField, Real!MaxLength
    <2> QED BY <2>2, <2>6, SMT
  <1>4. CASE 16378 < l /\ l <= 16383
    <2>1. /\ Real!Above(l, 123) = 1
             /\ Real!Above(l, 127) = 1
             /\ Real!Above(l, 16378) = 1
             /\ Real!Above(l, 16383) = 0
      BY <1>4, SMT DEF Real!MaxLength, Real!Above
    <2>2. Real!messageProtoSize(l) = l + 9
      BY <2>1, SMT DEF Real!messageProtoSize, Real!MaxLength
    <2>3. Real!BytesField(l) = l + 3
      BY <1>4, VarintSizes, SMT DEF Real!BytesField, Real!MaxLength
    <2>4. Real!VarintSize(l + 5) = 3
      <3> DEFINE n == l + 5
      <3> n \in Nat /\ n <= 2097151 /\ (16383 < n)
        BY <1>4, SMT DEF Real!MaxLength
      <3> HIDE DEF n
      <3>1. Real!VarintSize(n) = 3
        BY VarintSizes, SMT
      <3> QED BY <3>1, SMT DEF n
    <2>5. Real!SmallIntField + Real!BytesField(l) = l + 5
      BY <2>3, SMT DEF Real!SmallIntField, Real!MaxLength
    <2>6. Real!EncodedRecord(l) = l + 9
      BY <2>4, <2>5, SMT DEF Real!EncodedRecord, Real!BytesField, Real!MaxLength
    <2> QED BY <2>2, <2>6, SMT
  <1>5. CASE 16383 < l
    <2>1. /\ Real!Above(l, 123) = 1
             /\ Real!Above(l, 127) = 1
             /\ Real!Above(l, 16378) = 1
             /\ Real!Above(l, 16383) = 1
      BY <1>5, SMT DEF Real!MaxLength, Real!Above
    <2>2. Real!messageProtoSize(l) = l + 10
      BY <2>1, SMT DEF Real!messageProtoSize, Real!MaxLength
    <2>3. Real!BytesField(l) = l + 4
      BY <1>5, VarintSizes, SMT DEF Real!BytesField, Real!MaxLength
    <2>4. Real!VarintSize(l + 6) = 3
      <3> DEFINE n == l + 6
      <3> n \in Nat /\ n <= 2097151 /\ (16383 < n)
        BY <1>5, SMT DEF Real!MaxLength
      <3> HIDE DEF n
      <3>1. Real!VarintSize(n) = 3
        BY VarintSizes, SMT
      <3> QED BY <3>1, SMT DEF n
    <2>5. Real!SmallIntField + Real!BytesField(l) = l + 6
      BY <2>3, SMT DEF Real!SmallIntField, Real!MaxLength
    <2>6. Real!EncodedRecord(l) = l + 10
      BY <2>4, <2>5, SMT DEF Real!EncodedRecord, Real!BytesField, Real!MaxLength
    <2> QED BY <2>2, <2>6, SMT
  <1> QED BY <1>1, <1>2, <1>3, <1>4, <1>5, SMT DEF Real!MaxLength

(***************************************************************************)
(* compileMessages() takes a compressed message into an entry of its own   *)
(* exactly when the bytes of that entry are within the limit.              *)
(***************************************************************************)
THEOREM CompilableExactly ==
    \A l \in Nat : l <= Real!MaxLength =>
        (Real!Compilable(l) <=> Real!EncodedEntry(l) <= Real!maxEntrySize)
PROOF
  <1> TAKE l \in Nat
  <1> HAVE l <= Real!MaxLength
  <1>1. Real!messageProtoSize(l) = Real!EncodedRecord(l)
    BY ProtoSizeExact, SMT
  <1>2. Real!EncodedRecord(l) \in Int
    <2> \A t \in Int : Real!Above(l, t) \in 0..1
      BY SMT DEF Real!MaxLength, Real!Above
    <2> QED BY <1>1, SMT DEF Real!messageProtoSize, Real!MaxLength
  <1>3. Real!EncodedEntry(l) = Real!EncodedRecord(l) + Real!entryMetadataSize
    BY <1>2, SMT DEF Real!EncodedEntry, Real!BytesField, Real!VarintSize, Real!Above, Real!entryMetadataSize,
           Real!aggregateMetadataSize, Real!recordMetadataSize, Real!magicNumberSize, Real!md5Size,
           Real!ksuidPartitionKeySize, Real!ksuidPartitionKeyStringSize
  <1> QED
    BY <1>1, <1>2, <1>3, SMT DEF Real!Compilable

(***************************************************************************)
(* What the check of Put() on the raw message is worth for the compressed  *)
(* one (producer.go:88-93): if compression does not make the message       *)
(* larger, the entry can be built; for the largest message that Put() lets *)
(* in, one byte more is one too many.                                      *)
(***************************************************************************)
THEOREM AcceptedCompiles ==
    /\ \A raw, packed \in Nat : Real!Accepted(raw) /\ packed <= raw => Real!Compilable(packed)
    /\ \E raw \in Nat : Real!Accepted(raw) /\ ~Real!Compilable(raw + 1)
PROOF
  <1> USE DEF Real!entryMetadataSize, Real!aggregateMetadataSize, Real!recordMetadataSize,
              Real!magicNumberSize, Real!md5Size, Real!ksuidPartitionKeySize, Real!maxEntrySize
  <1>1. ASSUME NEW raw \in Nat, NEW packed \in Nat, packed <= raw
        PROVE  Real!messageProtoSize(packed) <= Real!messageProtoSize(raw)
    BY <1>1, SMT DEF Real!messageProtoSize, Real!Above
  <1>2. \A l \in Nat : Real!messageProtoSize(l) \in Nat
    BY SMT DEF Real!messageProtoSize, Real!Above
  <1>3. \A raw, packed \in Nat : Real!Accepted(raw) /\ packed <= raw => Real!Compilable(packed)
    BY <1>1, <1>2, SMT DEF Real!Accepted, Real!Compilable
  <1> DEFINE l == 51141
  <1>4. Real!Accepted(l) /\ ~Real!Compilable(l + 1)
    BY SMT DEF Real!Accepted, Real!Compilable, Real!messageProtoSize, Real!Above
  <1> QED
    BY <1>3, <1>4

(***************************************************************************)
(* The limits of const.go are as module Batch assumes.                     *)
(***************************************************************************)
THEOREM RealLimits ==
    /\ RealBatch!EntryCapacity > 0
    /\ Real!maxEntrySize + Real!ksuidPartitionKeyStringSize <= Real!maxRequestSize
    /\ 2 * Real!maxRequestSize < Real!maxEntriesPerRequest * (RealBatch!EntryCapacity + 1)
PROOF
  BY SMT DEF RealBatch!EntryCapacity, Real!maxEntrySize, Real!maxRequestSize, Real!maxEntriesPerRequest,
         Real!entryMetadataSize, Real!aggregateMetadataSize, Real!recordMetadataSize, Real!magicNumberSize,
         Real!md5Size, Real!ksuidPartitionKeySize, Real!ksuidPartitionKeyStringSize
=============================================================================
