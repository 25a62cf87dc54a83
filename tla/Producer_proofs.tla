--------------------------- MODULE Producer_proofs ----------------------------
(***************************************************************************)
(* Proofs about the Kinesis producer, for any number of messages, buffers, *)
(* entries and workers, any sizes and any capacity of the channels: where  *)
(* a message is, how often it is confirmed, and that the producer delivers *)
(* as module Delivery promises.                                            *)
(***************************************************************************)
EXTENDS Producer, FiniteSetTheorems, SequenceTheorems, TLAPS

-----------------------------------------------------------------------------
(***************************************************************************)
(* The inductive invariant.                                                *)
(***************************************************************************)
\* Which part of the pipeline holds a buffer.
InInput(b)  == b \in ToSet(inputChan)
InBatch(b)  == b \in ToSet(batched)
InOutput(b) == \E i \in DOMAIN outputChan : b \in ToSet(outputChan[i])
InWorker(b) == \E w \in Workers : b \in ToSet(held[w])

Queued(b) == InInput(b) \/ pending = b \/ InBatch(b) \/ InOutput(b) \/ InWorker(b)

\* One part at a time, and there once.
OneHome ==
    /\ \A b \in Buffers :
          /\ InInput(b) => pending # b /\ ~InBatch(b) /\ ~InOutput(b) /\ ~InWorker(b)
          /\ pending = b => ~InBatch(b) /\ ~InOutput(b) /\ ~InWorker(b)
          /\ InBatch(b) => ~InOutput(b) /\ ~InWorker(b)
          /\ InOutput(b) => ~InWorker(b)
          /\ \A i, j \in DOMAIN outputChan :
                b \in ToSet(outputChan[i]) /\ b \in ToSet(outputChan[j]) => i = j
          /\ \A v, w \in Workers : b \in ToSet(held[v]) /\ b \in ToSet(held[w]) => v = w
    /\ IsInjective(inputChan)
    /\ IsInjective(batched)
    /\ \A i \in DOMAIN outputChan : IsInjective(outputChan[i])
    /\ \A w \in Workers : IsInjective(held[w])

\* A buffer is in use while its message is on the way; only then is it queued.
\* What it holds can start a batch.
BuffersKept ==
    /\ \A b \in Buffers :
          /\ b \in freeBuffers <=> content[b] = None
          /\ Queued(b) => b \notin freeBuffers
          /\ b \notin freeBuffers =>
                /\ RawSize[content[b].message] <= EntryCapacity
                /\ content[b].size \in PackedSizes[content[b].message]
                /\ status[content[b].message] = IF Queued(b) THEN "accepted" ELSE "sending"
    /\ \A b, c \in Buffers \ freeBuffers : content[b].message = content[c].message => b = c

\* The entries of a request are in use and in no other request; a message is
\* in one of them, once.
EntriesKept ==
    /\ \A e \in Entries :
          /\ e \in freeEntries => entryData[e] = <<>>
          /\ e \notin freeEntries => \E w \in Workers : e \in ToSet(records[w])
    /\ \A w \in Workers :
          /\ IsInjective(records[w])
          /\ \A e \in ToSet(records[w]) :
                /\ e \notin freeEntries
                /\ \A v \in Workers : e \in ToSet(records[v]) => v = w
    /\ \A e, f \in Entries : \A i \in DOMAIN entryData[e], j \in DOMAIN entryData[f] :
          entryData[e][i] = entryData[f][j] => e = f /\ i = j

Coded(w) == Encoded(ToSet(records[w]))

\* The entries of a worker hold what it has compiled; from then on the messages
\* are in no buffer.
WorkerKept(w) ==
    /\ wstate[w] # "compile" => held[w] = <<>>
    /\ wstate[w] \in {"idle", "ended"} => records[w] = <<>>
    /\ wstate[w] = "compile" =>
          /\ compressed[w] <= Len(held[w])
          /\ Coded(w) = {content[held[w][i]].message : i \in 1..compressed[w]}
    /\ wstate[w] = "request" =>
          \A m \in Coded(w) :
             /\ status[m] = "accepted"
             /\ \A b \in Buffers \ freeBuffers : content[b].message # m

WorkersKept == \A w \in Workers : WorkerKept(w)

\* An accepted message is in a buffer or in a request.
NoneDropped ==
    \A m \in Messages : status[m] = "accepted" =>
        \/ \E b \in Buffers \ freeBuffers : content[b].message = m
        \/ \E w \in Workers : wstate[w] = "request" /\ m \in Coded(w)

\* Close() goes through the pipeline from its front to its end.
ClosedInOrder ==
    /\ agg = "sendSize" <=> pending # None
    /\ InputClosed => \A m \in Messages : status[m] # "sending"
    /\ agg \in {"sendDrain", "ended"} => InputClosed /\ inputChan = <<>>
    /\ agg = "ended" => batched = <<>>
    /\ OutputClosed => agg = "ended"
    /\ \A w \in Workers : wstate[w] = "ended" => OutputClosed /\ outputChan = <<>>
    /\ closer = "closed" => \A w \in Workers : wstate[w] = "ended"

\* What Kinesis has confirmed, and what it may have stored without an answer.
Confirms ==
    /\ \A m \in Messages : confirmed[m] = IF status[m] = "delivered" THEN 1 ELSE 0
    /\ \A m \in doubtful : status[m] \in {"accepted", "delivered", "lost"}

Inv ==
    /\ ProducerTypeOK
    /\ OneHome
    /\ BuffersKept
    /\ EntriesKept
    /\ WorkersKept
    /\ NoneDropped
    /\ Confirms
    /\ ClosedInOrder

-----------------------------------------------------------------------------
(***************************************************************************)
(* Sequences.                                                              *)
(***************************************************************************)
\* Every set of numbers that is not empty has a least one.
LEMMA Least ==
    ASSUME NEW T \in SUBSET Nat, T # {}
    PROVE  \E n \in T : \A k \in T : n <= k
<1>1. PICK n \in T : \A k \in T : <<k, n>> \notin OpToRel(<, Nat)
  BY WFMin, NatLessThanWellFounded
<1>2. \A k \in T : ~(k < n)
  BY <1>1 DEF OpToRel
<1> QED
  BY <1>2

LEMMA AppendSet ==
    ASSUME NEW S, NEW s \in Seq(S), NEW e \in S
    PROVE  /\ Append(s, e) \in Seq(S)
           /\ Len(Append(s, e)) = Len(s) + 1
           /\ ToSet(Append(s, e)) = ToSet(s) \cup {e}
           /\ IsInjective(s) /\ e \notin ToSet(s) => IsInjective(Append(s, e))
<1>1. /\ Append(s, e) \in Seq(S)
      /\ Len(s) \in Nat
      /\ Len(Append(s, e)) = Len(s) + 1
      /\ DOMAIN s = 1..Len(s) /\ DOMAIN Append(s, e) = 1..(Len(s) + 1)
      /\ \A i \in 1..Len(s) : Append(s, e)[i] = s[i]
      /\ Append(s, e)[Len(s) + 1] = e
  BY AppendProperties, LenProperties
<1>2. ToSet(Append(s, e)) = ToSet(s) \cup {e}
  BY <1>1 DEF ToSet
<1>3. IsInjective(s) /\ e \notin ToSet(s) => IsInjective(Append(s, e))
  BY <1>1 DEF ToSet, IsInjective
<1> QED
  BY <1>1, <1>2, <1>3

LEMMA TailSet ==
    ASSUME NEW S, NEW s \in Seq(S), s # <<>>
    PROVE  /\ Head(s) \in S
           /\ Tail(s) \in Seq(S)
           /\ Len(s) \in Nat \ {0} /\ Len(Tail(s)) = Len(s) - 1
           /\ \A i \in 1..(Len(s) - 1) : Tail(s)[i] = s[i + 1]
           /\ Head(s) = s[1]
           /\ ToSet(s) = {Head(s)} \cup ToSet(Tail(s))
           /\ IsInjective(s) => IsInjective(Tail(s)) /\ Head(s) \notin ToSet(Tail(s))
<1>1. /\ Head(s) \in S /\ Tail(s) \in Seq(S)
      /\ Len(s) \in Nat \ {0} /\ Len(Tail(s)) = Len(s) - 1
      /\ DOMAIN s = 1..Len(s) /\ DOMAIN Tail(s) = 1..(Len(s) - 1)
      /\ \A i \in 1..(Len(s) - 1) : Tail(s)[i] = s[i + 1]
      /\ Head(s) = s[1]
  BY HeadTailProperties, EmptySeq, LenProperties
<1>2. ToSet(s) = {Head(s)} \cup ToSet(Tail(s))
  <2>1. ASSUME NEW i \in 1..Len(s) PROVE s[i] \in {Head(s)} \cup ToSet(Tail(s))
    <3>1. CASE i = 1
      BY <1>1, <3>1
    <3>2. CASE i # 1
      <4>1. i - 1 \in 1..(Len(s) - 1) /\ s[(i - 1) + 1] = s[i]
        BY <1>1, <3>2
      <4>2. s[i] = Tail(s)[i - 1]
        BY <1>1, <4>1
      <4> QED
        BY <1>1, <4>1, <4>2 DEF ToSet
    <3> QED
      BY <3>1, <3>2
  <2>2. ASSUME NEW i \in 1..(Len(s) - 1) PROVE i + 1 \in 1..Len(s) /\ Tail(s)[i] = s[i + 1]
    BY <1>1
  <2>3. 1 \in 1..Len(s)
    BY <1>1
  <2> QED
    BY <1>1, <2>1, <2>2, <2>3 DEF ToSet
<1>3. IsInjective(s) => IsInjective(Tail(s)) /\ Head(s) \notin ToSet(Tail(s))
  BY <1>1 DEF ToSet, IsInjective
<1> QED
  BY <1>1, <1>2, <1>3

\* A part of a sequence.
LEMMA PartOf ==
    ASSUME NEW S, NEW s \in Seq(S), NEW a \in Nat, NEW b \in Nat, a <= b, b <= Len(s)
    PROVE  /\ SubSeq(s, a + 1, b) \in Seq(S)
           /\ Len(SubSeq(s, a + 1, b)) = b - a
           /\ DOMAIN SubSeq(s, a + 1, b) = 1..(b - a)
           /\ \A i \in 1..(b - a) : SubSeq(s, a + 1, b)[i] = s[a + i]
<1> DEFINE m == a + 1
           t == SubSeq(s, m, b)
<1>1. m \in Int /\ b \in Int /\ \A i \in m..b : s[i] \in S
  <2>1. Len(s) \in Nat
    BY LenProperties
  <2>2. \A i \in m..b : i \in 1..Len(s)
    BY <2>1
  <2> QED
    BY <2>2, ElementOfSeq
<1> HIDE DEF m
<1>2. /\ t \in Seq(S)
      /\ Len(t) = IF m <= b THEN b - m + 1 ELSE 0
      /\ \A i \in 1..(b - m + 1) : t[i] = s[m + i - 1]
  BY <1>1, SubSeqProperties
<1>3. Len(t) = b - a /\ \A i \in 1..(b - a) : t[i] = s[a + i]
  <2>1. b - m + 1 = b - a /\ (m <= b <=> a < b) /\ \A i \in 1..(b - a) : m + i - 1 = a + i
    BY DEF m
  <2>2. Len(t) = b - a
    BY <1>2, <2>1
  <2> QED
    BY <1>2, <2>1, <2>2
<1>4. DOMAIN t = 1..(b - a)
  BY <1>2, <1>3, LenProperties
<1> QED
  BY <1>2, <1>3, <1>4 DEF m

\* A function on the first n numbers is a sequence.
LEMMA FunctionSeq ==
    ASSUME NEW S, NEW n \in Nat, NEW s \in [1..n -> S]
    PROVE  s \in Seq(S) /\ Len(s) = n /\ DOMAIN s = 1..n
<1>1. s \in Seq(S) /\ DOMAIN s = 1..n
  BY SeqDef
<1>2. Len(s) \in Nat /\ DOMAIN s = 1..Len(s)
  BY <1>1, LenProperties
<1> QED
  BY <1>1, <1>2

LEMMA EmptySet == ToSet(<<>>) = {} /\ IsInjective(<<>>)
BY DEF ToSet, IsInjective

\* The k-th of a finite set of numbers.
LEMMA Ranked ==
    ASSUME NEW T \in SUBSET Nat, IsFiniteSet(T)
    PROVE  \A k \in 1..Cardinality(T) :
              \E i \in T : Cardinality({j \in T : j <= i}) = k
<1> DEFINE upTo(i) == {j \in T : j <= i}
           rank == [i \in T |-> Cardinality(upTo(i))]
           n == Cardinality(T)
<1>1. n \in Nat /\ IsFiniteSet(1..n) /\ Cardinality(1..n) = n
  BY FS_CardinalityType, FS_Interval
<1>2. \A i \in T : IsFiniteSet(upTo(i)) /\ Cardinality(upTo(i)) \in 1..n
  <2> TAKE i \in T
  <2>1. upTo(i) \in SUBSET T /\ i \in upTo(i)
    OBVIOUS
  <2>2. IsFiniteSet(upTo(i)) /\ Cardinality(upTo(i)) <= n
    BY <2>1, FS_Subset
  <2>3. Cardinality(upTo(i)) \in Nat /\ Cardinality(upTo(i)) # 0
    BY <2>1, <2>2, FS_CardinalityType, FS_EmptySet
  <2> QED
    BY <1>1, <2>2, <2>3
<1>3. \A i, j \in T : rank[i] = rank[j] => i = j
  <2>1. ASSUME NEW i \in T, NEW j \in T, i < j PROVE rank[i] # rank[j]
    <3>1. upTo(i) \in SUBSET upTo(j) /\ j \in upTo(j) /\ j \notin upTo(i)
      <4>1. \A k \in T : k <= i => k <= j
        BY <2>1
      <4>2. j <= j /\ ~(j <= i)
        BY <2>1
      <4> QED
        BY <4>1, <4>2
    <3>2. Cardinality(upTo(j)) = Cardinality(upTo(i)) => upTo(j) = upTo(i)
      BY <3>1, <1>2, FS_Subset
    <3> QED
      BY <3>1, <3>2
  <2> QED
    BY <2>1
<1>4. rank \in Injection(T, 1..n)
  BY <1>2, <1>3 DEF Injection, IsInjective
<1>5. rank \in Surjection(T, 1..n)
  BY <1>1, <1>4, FS_Injection
<1> QED
  BY <1>5 DEF Surjection

\* failures() returns the failed records, each once.
LEMMA FailuresSet ==
    ASSUME NEW S, NEW s \in Seq(S), NEW failed \in SUBSET DOMAIN s
    PROVE  /\ Failures(s, failed) \in Seq(S)
           /\ ToSet(Failures(s, failed)) = {s[i] : i \in failed}
           /\ IsInjective(s) => IsInjective(Failures(s, failed))
<1> DEFINE upTo(i) == {j \in failed : j <= i}
           n == Cardinality(failed)
           kth(k) == CHOOSE i \in failed : Cardinality(upTo(i)) = k
<1>1. /\ Len(s) \in Nat /\ DOMAIN s = 1..Len(s) /\ \A i \in DOMAIN s : s[i] \in S
      /\ failed \in SUBSET Nat /\ IsFiniteSet(failed) /\ n \in Nat
  <2>1. Len(s) \in Nat /\ DOMAIN s = 1..Len(s) /\ \A i \in DOMAIN s : s[i] \in S
    BY LenProperties, ElementOfSeq
  <2>2. IsFiniteSet(1..Len(s))
    BY <2>1, FS_Interval
  <2>3. IsFiniteSet(failed)
    BY <2>1, <2>2, FS_Subset
  <2> QED
    BY <2>1, <2>3, FS_CardinalityType
<1>2. \A k \in 1..n : kth(k) \in failed /\ Cardinality(upTo(kth(k))) = k
  BY <1>1, Ranked
<1>3. \A i \in failed : Cardinality(upTo(i)) \in 1..n
  <2> TAKE i \in failed
  <2>1. upTo(i) \in SUBSET failed /\ i \in upTo(i)
    BY <1>1
  <2>2. IsFiniteSet(upTo(i)) /\ Cardinality(upTo(i)) <= n
    BY <1>1, <2>1, FS_Subset
  <2>3. Cardinality(upTo(i)) \in Nat /\ Cardinality(upTo(i)) # 0
    BY <2>1, <2>2, FS_CardinalityType, FS_EmptySet
  <2> QED
    BY <1>1, <2>2, <2>3
<1>4. \A i, j \in failed : Cardinality(upTo(i)) = Cardinality(upTo(j)) => i = j
  <2>1. ASSUME NEW i \in failed, NEW j \in failed, i < j
        PROVE  Cardinality(upTo(i)) # Cardinality(upTo(j))
    <3>1. upTo(i) \in SUBSET upTo(j) /\ j \in upTo(j) /\ j \notin upTo(i)
      <4>1. \A k \in failed : k <= i => k <= j
        BY <1>1, <2>1
      <4>2. j <= j /\ ~(j <= i)
        BY <1>1, <2>1
      <4> QED
        BY <4>1, <4>2
    <3>2. IsFiniteSet(upTo(j))
      BY <1>1, FS_Subset
    <3>3. Cardinality(upTo(j)) = Cardinality(upTo(i)) => upTo(j) = upTo(i)
      BY <3>1, <3>2, FS_Subset
    <3> QED
      BY <3>1, <3>3
  <2> TAKE i, j \in failed
  <2>2. i < j \/ j < i \/ i = j
    BY <1>1
  <2> HIDE DEF upTo
  <2> QED
    BY <2>1, <2>2
<1>5. \A i \in failed : kth(Cardinality(upTo(i))) = i
  BY <1>2, <1>3, <1>4
<1>6. Failures(s, failed) = [k \in 1..n |-> s[kth(k)]]
  BY DEF Failures
<1> HIDE DEF n, kth
<1>7. Failures(s, failed) \in Seq(S)
  <2>1. Failures(s, failed) \in [1..n -> S]
    BY <1>1, <1>2, <1>6
  <2> QED
    BY <1>1, <2>1, SeqDef
<1>8. DOMAIN Failures(s, failed) = 1..n
  BY <1>6
<1>9. ToSet(Failures(s, failed)) = {s[i] : i \in failed}
  <2>1. ASSUME NEW i \in failed PROVE \E k \in 1..n : s[i] = Failures(s, failed)[k]
    BY <1>3, <1>5, <1>6
  <2>2. ASSUME NEW k \in 1..n PROVE \E i \in failed : Failures(s, failed)[k] = s[i]
    BY <1>2, <1>6
  <2> QED
    BY <1>8, <2>1, <2>2 DEF ToSet
<1>10. ASSUME IsInjective(s) PROVE IsInjective(Failures(s, failed))
  <2>1. \A k, l \in 1..n : s[kth(k)] = s[kth(l)] => kth(k) = kth(l)
    BY <1>1, <1>2, <1>10 DEF IsInjective
  <2>2. \A k, l \in 1..n : kth(k) = kth(l) => k = l
    BY <1>2
  <2> QED
    BY <1>6, <1>8, <2>1, <2>2 DEF IsInjective
<1> QED
  BY <1>7, <1>9, <1>10

\* An entry takes some of the messages it is offered, whatever their sizes.
LEMMA CompiledSome ==
    ASSUME NEW sizes, Len(sizes) \in Nat
    PROVE  CompiledLength(sizes) \in 0..Len(sizes)
<1> DEFINE tooMany == {n \in 1..Len(sizes) : ~Fit(sizes, n)}
           P(n) == (n > 0 => Fit(sizes, n)) /\ (n < Len(sizes) => ~Fit(sizes, n + 1))
<1>1. \E n \in 0..Len(sizes) : P(n)
  <2>1. CASE tooMany = {}
    <3>1. \A n \in 1..Len(sizes) : Fit(sizes, n)
      BY <2>1
    <3>2. Len(sizes) \in 0..Len(sizes) /\ (Len(sizes) > 0 => Len(sizes) \in 1..Len(sizes))
          /\ ~(Len(sizes) < Len(sizes))
      OBVIOUS
    <3> QED
      BY <3>1, <3>2
  <2>2. CASE tooMany # {}
    <3>1. tooMany \in SUBSET Nat
      OBVIOUS
    <3>2. PICK n \in tooMany : \A k \in tooMany : n <= k
      <4> HIDE DEF tooMany
      <4> QED
        BY <2>2, <3>1, Least
    <3>3. n \in 1..Len(sizes) /\ ~Fit(sizes, n)
      OBVIOUS
    <3>4. n - 1 > 0 => Fit(sizes, n - 1)
      BY <3>2, <3>3
    <3>5. n - 1 \in 0..Len(sizes) /\ (n - 1) + 1 = n
      BY <3>3
    <3> QED
      BY <3>3, <3>4, <3>5
  <2> QED
    BY <2>1, <2>2
<1>2. CompiledLength(sizes) = CHOOSE n \in 0..Len(sizes) : P(n)
  BY DEF CompiledLength
<1> HIDE DEF P
<1> QED
  BY <1>1, <1>2

-----------------------------------------------------------------------------
(***************************************************************************)
(* What the invariant says of buffers and entries.                         *)
(***************************************************************************)
LEMMA SetOfSeq ==
    ASSUME NEW S, NEW s \in Seq(S)
    PROVE  ToSet(s) \subseteq S /\ Len(s) \in Nat /\ DOMAIN s = 1..Len(s)
<1>1. Len(s) \in Nat /\ DOMAIN s = 1..Len(s)
  BY LenProperties
<1>2. \A i \in 1..Len(s) : s[i] \in S
  BY ElementOfSeq
<1> QED
  BY <1>1, <1>2 DEF ToSet

LEMMA PipeTypes ==
    ASSUME ProducerTypeOK
    PROVE  /\ ToSet(inputChan) \subseteq Buffers
           /\ ToSet(batched) \subseteq Buffers
           /\ \A i \in DOMAIN outputChan :
                 outputChan[i] \in Seq(Buffers) /\ ToSet(outputChan[i]) \subseteq Buffers
           /\ \A w \in Workers :
                 held[w] \in Seq(Buffers) /\ ToSet(held[w]) \subseteq Buffers
           /\ \A w \in Workers :
                 records[w] \in Seq(Entries) /\ ToSet(records[w]) \subseteq Entries
           /\ \A e \in Entries :
                 entryData[e] \in Seq(Messages) /\ ToSet(entryData[e]) \subseteq Messages
<1>1. /\ inputChan \in Seq(Buffers) /\ batched \in Seq(Buffers)
      /\ outputChan \in Seq(Seq(Buffers))
      /\ \A w \in Workers : held[w] \in Seq(Buffers) /\ records[w] \in Seq(Entries)
      /\ \A e \in Entries : entryData[e] \in Seq(Messages)
  BY DEF ProducerTypeOK
<1>2. \A i \in DOMAIN outputChan : outputChan[i] \in Seq(Buffers)
  BY <1>1, LenProperties, ElementOfSeq
<1> QED
  BY <1>1, <1>2, SetOfSeq

LEMMA CodedTypes ==
    ASSUME ProducerTypeOK, NEW w \in Workers
    PROVE  Coded(w) \subseteq Messages
BY PipeTypes DEF Coded, Encoded

LEMMA InUse ==
    ASSUME ProducerTypeOK, BuffersKept, NEW b \in Buffers, b \notin freeBuffers
    PROVE  /\ content[b] # None
           /\ content[b].message \in Messages
           /\ content[b].size \in Nat
           /\ ~Refused(EmptyBatch, content[b].size)
<1>1. content[b] # None
  BY DEF BuffersKept
<1>2. content[b] \in [message : Messages, size : Nat]
  BY <1>1 DEF ProducerTypeOK
<1>3. RawSize[content[b].message] <= EntryCapacity /\ content[b].size \in PackedSizes[content[b].message]
  BY DEF BuffersKept
<1> QED
  BY <1>1, <1>2, <1>3, ProducerAssumption

-----------------------------------------------------------------------------
(***************************************************************************)
(* What does not change.                                                   *)
(***************************************************************************)
LEMMA PipeRests ==
    ASSUME OneHome, UNCHANGED <<inputChan, pending, batched, outputChan, held>>
    PROVE  OneHome' /\ \A b : Queued(b)' = Queued(b)
BY DEF OneHome, Queued, InInput, InBatch, InOutput, InWorker

LEMMA EntriesRest ==
    ASSUME UNCHANGED <<entryData, freeEntries, records>>
    PROVE  (EntriesKept => EntriesKept') /\ \A w : Coded(w)' = Coded(w)
BY DEF EntriesKept, Coded, Encoded

\* What is between Put() and the aggregator does not touch the buffers' fate.
LEMMA BuffersRest ==
    ASSUME BuffersKept, UNCHANGED putVars, \A b \in Buffers : Queued(b)' <=> Queued(b)
    PROVE  BuffersKept'
BY DEF BuffersKept, putVars

LEMMA WorkersRest ==
    ASSUME WorkersKept, UNCHANGED <<putVars, workerVars, entryVars>>
    PROVE  WorkersKept'
<1>1. \A w : Coded(w)' = Coded(w)
  BY EntriesRest DEF workerVars, entryVars
<1> QED
  BY <1>1 DEF WorkersKept, WorkerKept, putVars, workerVars, entryVars

LEMMA MessagesRest ==
    ASSUME UNCHANGED <<putVars, workerVars, entryVars>>
    PROVE  NoneDropped => NoneDropped'
<1>1. \A w : Coded(w)' = Coded(w)
  BY EntriesRest DEF workerVars, entryVars
<1> QED
  BY <1>1 DEF NoneDropped, putVars, workerVars

-----------------------------------------------------------------------------
(***************************************************************************)
(* Put().                                                                  *)
(***************************************************************************)
LEMMA PutRejectedStep ==
    ASSUME Inv, NEW m \in Messages, PutRejected(m)
    PROVE  Inv'
<1> USE DEF Inv, putVars, aggVars, workerVars, entryVars
<1>1. /\ status[m] = "idle" /\ status' = [status EXCEPT ![m] = "rejected"]
      /\ UNCHANGED <<content, freeBuffers, aggVars, outputChan, workerVars, entryVars,
                     confirmed, doubtful, closer>>
  BY DEF PutRejected
<1>2. ProducerTypeOK'
  BY <1>1 DEF ProducerTypeOK, PutStates
<1>3. \A k \in Messages : status'[k] = IF k = m THEN "rejected" ELSE status[k]
  BY <1>1 DEF ProducerTypeOK
<1>4. OneHome' /\ \A b : Queued(b)' = Queued(b)
  BY <1>1, PipeRests
<1>5. EntriesKept' /\ \A w : Coded(w)' = Coded(w)
  BY <1>1, EntriesRest
<1>6. BuffersKept'
  <2>1. \A b \in Buffers \ freeBuffers : content[b].message \in Messages /\ content[b].message # m
    BY <1>1, InUse DEF BuffersKept
  <2> QED
    BY <1>1, <1>3, <1>4, <2>1 DEF BuffersKept
<1>7. WorkersKept'
  BY <1>1, <1>3, <1>5, CodedTypes DEF WorkersKept, WorkerKept
<1>8. NoneDropped'
  BY <1>1, <1>3, <1>5 DEF NoneDropped
<1>9. Confirms'
  BY <1>1, <1>3 DEF Confirms
<1>10. ClosedInOrder'
  BY <1>1, <1>3 DEF ClosedInOrder, InputClosed, OutputClosed
<1> QED
  BY <1>2, <1>4, <1>5, <1>6, <1>7, <1>8, <1>9, <1>10

LEMMA PutPacksStep ==
    ASSUME Inv, NEW m \in Messages, NEW b \in Buffers, NEW size \in PackedSizes[m],
           PutPacks(m, b, size)
    PROVE  Inv'
<1> USE DEF Inv, putVars, aggVars, workerVars, entryVars
<1>1. /\ closer = "open" /\ status[m] = "idle" /\ RawSize[m] <= EntryCapacity
      /\ b \in freeBuffers
      /\ status' = [status EXCEPT ![m] = "sending"]
      /\ content' = [content EXCEPT ![b] = [message |-> m, size |-> size]]
      /\ freeBuffers' = freeBuffers \ {b}
      /\ UNCHANGED <<aggVars, outputChan, workerVars, entryVars, confirmed, doubtful, closer>>
  BY DEF PutPacks
<1>2. size \in Nat /\ [message |-> m, size |-> size] # None
  BY ProducerAssumption
<1>3. ProducerTypeOK'
  <2>1. content' \in [Buffers -> [message : Messages, size : Nat] \cup {None}]
    BY <1>1, <1>2 DEF ProducerTypeOK
  <2> QED
    BY <1>1, <2>1 DEF ProducerTypeOK, PutStates
<1>4. /\ \A k \in Messages : status'[k] = IF k = m THEN "sending" ELSE status[k]
      /\ \A c \in Buffers \ {b} : content'[c] = content[c]
      /\ content'[b] = [message |-> m, size |-> size]
  BY <1>1 DEF ProducerTypeOK
<1>5. OneHome' /\ \A c : Queued(c)' = Queued(c)
  BY <1>1, PipeRests
<1>6. EntriesKept' /\ \A w : Coded(w)' = Coded(w)
  BY <1>1, EntriesRest
<1>7. \A c \in Buffers \ freeBuffers : content[c].message \in Messages /\ content[c].message # m
  BY <1>1, InUse DEF BuffersKept
<1>8. ~Queued(b)
  BY <1>1 DEF BuffersKept
<1>9. BuffersKept'
  <2>1. ASSUME NEW c \in Buffers
        PROVE  /\ c \in freeBuffers' <=> content'[c] = None
               /\ Queued(c)' => c \notin freeBuffers'
               /\ c \notin freeBuffers' =>
                    /\ RawSize[content'[c].message] <= EntryCapacity
                    /\ content'[c].size \in PackedSizes[content'[c].message]
                    /\ status'[content'[c].message] = IF Queued(c)' THEN "accepted" ELSE "sending"
    <3>1. CASE c = b
      BY <1>1, <1>2, <1>4, <1>5, <1>8, <3>1
    <3>2. CASE c # b
      BY <1>1, <1>4, <1>5, <1>7, <3>2 DEF BuffersKept
    <3> QED
      BY <3>1, <3>2
  <2>2. ASSUME NEW c \in Buffers \ freeBuffers', NEW d \in Buffers \ freeBuffers',
               content'[c].message = content'[d].message
        PROVE  c = d
    BY <1>1, <1>4, <1>7, <2>2 DEF BuffersKept
  <2> QED
    BY <2>1, <2>2 DEF BuffersKept
<1>10. WorkersKept'
  <2>1. ASSUME NEW w \in Workers, wstate[w] = "compile"
        PROVE  Coded(w)' = {content'[held[w][i]].message : i \in 1..compressed[w]}
    <3>1. \A i \in 1..compressed[w] : held[w][i] \in Buffers \ freeBuffers
      <4>1. compressed[w] \in Nat /\ compressed[w] <= Len(held[w]) /\ DOMAIN held[w] = 1..Len(held[w])
            /\ Len(held[w]) \in Nat
        BY <2>1, PipeTypes, SetOfSeq DEF WorkersKept, WorkerKept, ProducerTypeOK
      <4>2. \A i \in 1..compressed[w] : held[w][i] \in ToSet(held[w])
        BY <4>1 DEF ToSet
      <4> QED
        BY <4>2, PipeTypes DEF BuffersKept, Queued, InWorker
    <3>2. \A i \in 1..compressed[w] : content'[held[w][i]] = content[held[w][i]]
      BY <1>1, <1>4, <3>1
    <3> QED
      BY <1>6, <2>1, <3>2 DEF WorkersKept, WorkerKept
  <2>2. ASSUME NEW w \in Workers, wstate[w] = "request", NEW k \in Coded(w)
        PROVE  /\ status'[k] = "accepted"
               /\ \A c \in Buffers \ freeBuffers' : content'[c].message # k
    <3>1. status[k] = "accepted" /\ k \in Messages /\ k # m
      BY <1>1, <2>2, CodedTypes DEF WorkersKept, WorkerKept
    <3> QED
      BY <1>1, <1>4, <2>2, <3>1 DEF WorkersKept, WorkerKept
  <2> QED
    BY <1>1, <1>6, <2>1, <2>2 DEF WorkersKept, WorkerKept
<1>11. NoneDropped'
  BY <1>1, <1>4, <1>6 DEF NoneDropped
<1>12. Confirms'
  BY <1>1, <1>4 DEF Confirms
<1>13. ClosedInOrder'
  BY <1>1, <1>4 DEF ClosedInOrder, InputClosed, OutputClosed
<1> QED
  BY <1>3, <1>5, <1>6, <1>9, <1>10, <1>11, <1>12, <1>13

LEMMA PutSendsStep ==
    ASSUME Inv, NEW m \in Messages, NEW b \in Buffers, PutSends(m, b)
    PROVE  Inv'
<1> USE DEF Inv, putVars, aggVars, workerVars, entryVars
<1>1. /\ status[m] = "sending" /\ b \notin freeBuffers /\ content[b].message = m
      /\ Len(inputChan) < inputBufferSize
      /\ inputChan' = Append(inputChan, b)
      /\ status' = [status EXCEPT ![m] = "accepted"]
      /\ UNCHANGED <<content, freeBuffers, agg, batch, batched, pending, tick, outputChan,
                     workerVars, entryVars, confirmed, doubtful, closer>>
  BY DEF PutSends
<1>2. /\ inputChan' \in Seq(Buffers) /\ Len(inputChan') = Len(inputChan) + 1
      /\ ToSet(inputChan') = ToSet(inputChan) \cup {b}
      /\ b \notin ToSet(inputChan) => IsInjective(inputChan')
  BY <1>1, AppendSet DEF ProducerTypeOK, OneHome
<1>3. ProducerTypeOK'
  <2>1. Len(inputChan') <= inputBufferSize
    BY <1>1, <1>2, SetOfSeq, ProducerAssumption DEF ProducerTypeOK
  <2> QED
    BY <1>1, <1>2, <2>1 DEF ProducerTypeOK, PutStates
<1>4. \A k \in Messages : status'[k] = IF k = m THEN "accepted" ELSE status[k]
  BY <1>1 DEF ProducerTypeOK
<1>5. ~Queued(b)
  BY <1>1 DEF BuffersKept
<1>6. /\ \A c : InInput(c)' = (InInput(c) \/ c = b)
      /\ \A c : InBatch(c)' = InBatch(c)
      /\ \A c : InOutput(c)' = InOutput(c)
      /\ \A c : InWorker(c)' = InWorker(c)
  BY <1>1, <1>2 DEF InInput, InBatch, InOutput, InWorker
<1>7. \A c : Queued(c)' = (Queued(c) \/ c = b)
  BY <1>1, <1>6 DEF Queued
<1>8. OneHome'
  <2>1. IsInjective(inputChan')
    BY <1>2, <1>5 DEF Queued, InInput
  <2> QED
    BY <1>1, <1>5, <1>6, <2>1 DEF OneHome, Queued
<1>9. EntriesKept' /\ \A w : Coded(w)' = Coded(w)
  BY <1>1, EntriesRest
<1>10. BuffersKept'
  <2>1. \A c \in Buffers \ freeBuffers : /\ content[c].message \in Messages
                                         /\ c # b => content[c].message # m
    BY <1>1, InUse DEF BuffersKept
  <2>2. \A c, d \in Buffers \ freeBuffers : content[c].message = content[d].message => c = d
    BY DEF BuffersKept
  <2>3. ASSUME NEW c \in Buffers
        PROVE  /\ c \in freeBuffers <=> content[c] = None
               /\ Queued(c)' => c \notin freeBuffers
               /\ c \notin freeBuffers =>
                    /\ RawSize[content[c].message] <= EntryCapacity
                    /\ content[c].size \in PackedSizes[content[c].message]
                    /\ status'[content[c].message] = IF Queued(c)' THEN "accepted" ELSE "sending"
    <3>1. CASE c = b
      BY <1>1, <1>4, <1>7, <3>1 DEF BuffersKept
    <3>2. CASE c # b
      BY <1>4, <1>7, <2>1, <3>2 DEF BuffersKept
    <3> QED
      BY <3>1, <3>2
  <2> QED
    BY <1>1, <2>2, <2>3 DEF BuffersKept
<1>11. WorkersKept'
  BY <1>1, <1>4, <1>9, CodedTypes DEF WorkersKept, WorkerKept
<1>12. NoneDropped'
  BY <1>1, <1>4, <1>9 DEF NoneDropped
<1>13. Confirms'
  BY <1>1, <1>4 DEF Confirms
<1>14. ClosedInOrder'
  BY <1>1, <1>4 DEF ClosedInOrder, InputClosed, OutputClosed
<1> QED
  BY <1>3, <1>8, <1>9, <1>10, <1>11, <1>12, <1>13, <1>14

-----------------------------------------------------------------------------
(***************************************************************************)
(* aggregate(), the ticker and Close().                                    *)
(***************************************************************************)
LEMMA AggReceivesStep ==
    ASSUME Inv, AggReceives
    PROVE  Inv'
<1> USE DEF Inv, putVars, aggVars, workerVars, entryVars
<1> PICK b : b = Head(inputChan)
  OBVIOUS
<1> DEFINE size == content[b].size
<1>1. /\ agg = "select" /\ inputChan # <<>> /\ inputChan' = Tail(inputChan)
      /\ \/ /\ Refused(batch, size)
            /\ agg' = "sendSize" /\ pending' = b /\ UNCHANGED <<batch, batched>>
         \/ /\ ~Refused(batch, size)
            /\ batch' = Added(batch, size) /\ batched' = Append(batched, b)
            /\ UNCHANGED <<agg, pending>>
      /\ UNCHANGED <<putVars, tick, outputChan, workerVars, entryVars, confirmed, doubtful, closer>>
  BY DEF AggReceives
<1>2. /\ b \in Buffers /\ inputChan' \in Seq(Buffers)
      /\ Len(inputChan) \in Nat \ {0} /\ Len(inputChan') = Len(inputChan) - 1
      /\ ToSet(inputChan) = {b} \cup ToSet(inputChan')
      /\ IsInjective(inputChan') /\ b \notin ToSet(inputChan')
  <2>1. inputChan \in Seq(Buffers) /\ IsInjective(inputChan)
    BY DEF ProducerTypeOK, OneHome
  <2> QED
    BY <1>1, <2>1, TailSet
<1>3. /\ ToSet(Append(batched, b)) = ToSet(batched) \cup {b}
      /\ Append(batched, b) \in Seq(Buffers)
      /\ b \notin ToSet(batched) => IsInjective(Append(batched, b))
  <2>1. batched \in Seq(Buffers) /\ IsInjective(batched)
    BY DEF ProducerTypeOK, OneHome
  <2> QED
    BY <1>2, <2>1, AppendSet
<1>4. /\ InInput(b) /\ pending # b /\ ~InBatch(b) /\ ~InOutput(b) /\ ~InWorker(b)
      /\ pending = None
  BY <1>1, <1>2 DEF OneHome, InInput, ClosedInOrder
<1>5. size \in Nat /\ b # None
  BY <1>2, <1>4, InUse, ProducerAssumption DEF BuffersKept, Queued
<1> HIDE DEF size
<1>6. ProducerTypeOK'
  <2>1. Len(inputChan') <= inputBufferSize
    BY <1>2, ProducerAssumption DEF ProducerTypeOK
  <2>2. batch' \in [totalMessageSize : Nat, entryMessageSize : Nat, entryNumber : Nat]
    <3>1. batch \in [totalMessageSize : Nat, entryMessageSize : Nat, entryNumber : Nat]
      BY DEF ProducerTypeOK
    <3>2. Added(batch, size) \in [totalMessageSize : Nat, entryMessageSize : Nat, entryNumber : Nat]
      BY ONLY <1>5, <3>1 DEF Added
    <3> QED
      BY <1>1, <3>1, <3>2
  <2>3. batched' \in Seq(Buffers) /\ pending' \in Buffers \cup {None} /\ agg' \in AggStates
    BY <1>1, <1>2, <1>3 DEF ProducerTypeOK, AggStates
  <2> QED
    BY <1>1, <1>2, <2>1, <2>2, <2>3 DEF ProducerTypeOK
<1>7. /\ \A c : InInput(c) <=> (InInput(c)' \/ c = b)
      /\ ~InInput(b)'
      /\ \A c : InOutput(c)' = InOutput(c)
      /\ \A c : InWorker(c)' = InWorker(c)
  BY <1>1, <1>2 DEF InInput, InOutput, InWorker
<1>8. /\ \A c : (pending' = c \/ InBatch(c)' <=> pending = c \/ InBatch(c) \/ c = b) \/ c = None
      /\ \A c : c # None => ~(pending' = c /\ InBatch(c)')
      /\ IsInjective(batched')
  <2>1. CASE Refused(batch, size)
    BY <1>1, <1>4, <1>5, <2>1 DEF InBatch, OneHome
  <2>2. CASE ~Refused(batch, size)
    BY <1>1, <1>3, <1>4, <1>5, <2>2 DEF InBatch, OneHome
  <2> QED
    BY <2>1, <2>2
<1>9. \A c \in Buffers : Queued(c)' <=> Queued(c)
  BY <1>7, <1>8, ProducerAssumption DEF Queued
<1>10. OneHome'
  <2>1. ASSUME NEW c \in Buffers
        PROVE  /\ InInput(c)' => pending' # c /\ ~InBatch(c)' /\ ~InOutput(c)' /\ ~InWorker(c)'
               /\ pending' = c => ~InBatch(c)' /\ ~InOutput(c)' /\ ~InWorker(c)'
               /\ InBatch(c)' => ~InOutput(c)' /\ ~InWorker(c)'
               /\ InOutput(c)' => ~InWorker(c)'
    <3>1. c # None
      BY ProducerAssumption
    <3>2. /\ InInput(c) => pending # c /\ ~InBatch(c) /\ ~InOutput(c) /\ ~InWorker(c)
          /\ pending = c => ~InBatch(c) /\ ~InOutput(c) /\ ~InWorker(c)
          /\ InBatch(c) => ~InOutput(c) /\ ~InWorker(c)
          /\ InOutput(c) => ~InWorker(c)
      BY DEF OneHome
    <3> QED
      BY <1>4, <1>7, <1>8, <3>1, <3>2
  <2> QED
    BY <1>1, <1>2, <1>8, <2>1 DEF OneHome
<1>11. BuffersKept' /\ EntriesKept' /\ WorkersKept' /\ NoneDropped'
  BY <1>1, <1>9, BuffersRest, EntriesRest, WorkersRest, MessagesRest
<1>12. Confirms'
  BY <1>1 DEF Confirms
<1>13. ClosedInOrder'
  BY <1>1, <1>4, <1>5 DEF ClosedInOrder, InputClosed, OutputClosed
<1> QED
  BY <1>6, <1>10, <1>11, <1>12, <1>13

LEMMA AggDrainsStep ==
    ASSUME Inv, AggDrains
    PROVE  Inv'
<1> USE DEF Inv, putVars, aggVars, workerVars, entryVars
<1>1. /\ agg = "select" /\ inputChan = <<>> /\ InputClosed /\ agg' = "sendDrain"
      /\ UNCHANGED <<putVars, inputChan, batch, batched, pending, tick, outputChan,
                     workerVars, entryVars, confirmed, doubtful, closer>>
  BY DEF AggDrains
<1>2. ProducerTypeOK'
  BY <1>1 DEF ProducerTypeOK, AggStates
<1>3. OneHome' /\ \A b : Queued(b)' = Queued(b)
  BY <1>1, PipeRests
<1>4. BuffersKept' /\ EntriesKept' /\ WorkersKept' /\ NoneDropped'
  BY <1>1, <1>3, BuffersRest, EntriesRest, WorkersRest, MessagesRest
<1>5. Confirms'
  BY <1>1 DEF Confirms
<1>6. ClosedInOrder'
  BY <1>1 DEF ClosedInOrder, InputClosed, OutputClosed
<1> QED
  BY <1>2, <1>3, <1>4, <1>5, <1>6

LEMMA TickStep ==
    ASSUME Inv, Tick \/ \E elapsed \in BOOLEAN : AggTick(elapsed)
    PROVE  Inv'
<1> USE DEF Inv, putVars, aggVars, workerVars, entryVars
<1>1. /\ agg' = agg \/ (agg = "select" /\ agg' = "sendInterval")
      /\ tick' \in BOOLEAN
      /\ UNCHANGED <<putVars, inputChan, batch, batched, pending, outputChan, workerVars,
                     entryVars, confirmed, doubtful, closer>>
  BY DEF AggTick, Tick
<1>2. ProducerTypeOK'
  BY <1>1 DEF ProducerTypeOK, AggStates
<1>3. OneHome' /\ \A b : Queued(b)' = Queued(b)
  BY <1>1, PipeRests
<1>4. BuffersKept' /\ EntriesKept' /\ WorkersKept' /\ NoneDropped'
  BY <1>1, <1>3, BuffersRest, EntriesRest, WorkersRest, MessagesRest
<1>5. Confirms'
  BY <1>1 DEF Confirms
<1>6. ClosedInOrder'
  BY <1>1 DEF ClosedInOrder, InputClosed, OutputClosed
<1> QED
  BY <1>2, <1>3, <1>4, <1>5, <1>6

\* A message that had to wait for a new batch always fits into it.
LEMMA AggSendsStep ==
    ASSUME Inv, AggSends
    PROVE  Inv'
<1> USE DEF Inv, putVars, aggVars, workerVars, entryVars
<1>1. /\ agg \in {"sendSize", "sendInterval", "sendDrain"}
      /\ Len(outputChan) < outputBufferSize
      /\ outputChan' = Append(outputChan, batched)
      /\ agg' = IF agg = "sendDrain" THEN "ended" ELSE "select"
      /\ pending' = None
      /\ UNCHANGED <<putVars, inputChan, tick, workerVars, entryVars, confirmed, doubtful, closer>>
  BY DEF AggSends
<1>2. /\ agg = "sendSize" => pending \in Buffers /\ pending # None
      /\ agg # "sendSize" => pending = None
  BY DEF ClosedInOrder, ProducerTypeOK
<1>3. /\ batch' \in [totalMessageSize : Nat, entryMessageSize : Nat, entryNumber : Nat]
      /\ batched' = IF agg = "sendSize" THEN <<pending>> ELSE <<>>
  <2>1. EmptyBatch \in [totalMessageSize : Nat, entryMessageSize : Nat, entryNumber : Nat]
    BY DEF EmptyBatch
  <2>2. CASE agg = "sendSize"
    <3>1. content[pending].size \in Nat /\ ~Refused(EmptyBatch, content[pending].size)
      BY <1>2, <2>2, InUse DEF BuffersKept, Queued
    <3>2. batch' = Added(EmptyBatch, content[pending].size) /\ batched' = <<pending>>
      BY <2>2, <3>1 DEF AggSends
    <3> QED
      BY <2>1, <2>2, <3>1, <3>2 DEF Added
  <2>3. CASE agg # "sendSize"
    BY <2>1, <2>3 DEF AggSends
  <2> QED
    BY <2>2, <2>3
<1>4. /\ batched \in Seq(Buffers) /\ outputChan \in Seq(Seq(Buffers))
      /\ outputChan' \in Seq(Seq(Buffers)) /\ Len(outputChan') = Len(outputChan) + 1
      /\ Len(outputChan) \in Nat
      /\ DOMAIN outputChan = 1..Len(outputChan) /\ DOMAIN outputChan' = 1..(Len(outputChan) + 1)
      /\ \A i \in 1..Len(outputChan) : outputChan'[i] = outputChan[i]
      /\ outputChan'[Len(outputChan) + 1] = batched
  BY <1>1, AppendProperties, LenProperties DEF ProducerTypeOK
<1>5. /\ batched' \in Seq(Buffers)
      /\ ToSet(batched') = IF agg = "sendSize" THEN {pending} ELSE {}
      /\ IsInjective(batched')
  <2>1. CASE agg = "sendSize"
    <3>1. batched' = <<pending>> /\ batched' \in Seq(Buffers) /\ Len(batched') = 1 /\ batched'[1] = pending
      BY <1>2, <1>3, <2>1
    <3>2. DOMAIN batched' = {1}
      BY <3>1
    <3> QED
      BY <2>1, <3>1, <3>2 DEF ToSet, IsInjective
  <2>2. CASE agg # "sendSize"
    BY <1>3, <2>2, EmptySet
  <2> QED
    BY <2>1, <2>2
<1>6. ProducerTypeOK'
  <2>1. Len(outputChan') <= outputBufferSize
    BY <1>1, <1>4, ProducerAssumption
  <2> QED
    BY <1>1, <1>3, <1>4, <1>5, <2>1 DEF ProducerTypeOK, AggStates
<1>7. \A c \in Buffers : /\ InInput(c)' = InInput(c)
                         /\ pending' # c
                         /\ InBatch(c)' <=> pending = c
                         /\ InOutput(c)' <=> InOutput(c) \/ InBatch(c)
                         /\ InWorker(c)' = InWorker(c)
  <2> TAKE c \in Buffers
  <2>1. InInput(c)' = InInput(c) /\ InWorker(c)' = InWorker(c)
    BY <1>1 DEF InInput, InWorker
  <2>2. pending' # c
    BY <1>1, ProducerAssumption
  <2>3. InBatch(c)' <=> pending = c
    BY <1>2, <1>5, ProducerAssumption DEF InBatch
  <2>4. InOutput(c) => InOutput(c)'
    BY <1>4 DEF InOutput
  <2>5. InBatch(c) => InOutput(c)'
    BY <1>4 DEF InOutput, InBatch
  <2>6. InOutput(c)' => InOutput(c) \/ InBatch(c)
    <3> SUFFICES ASSUME NEW i \in DOMAIN outputChan', c \in ToSet(outputChan'[i])
                 PROVE  InOutput(c) \/ InBatch(c)
      BY DEF InOutput
    <3>1. CASE i = Len(outputChan) + 1
      BY <1>4, <3>1 DEF InBatch
    <3>2. CASE i \in 1..Len(outputChan)
      BY <1>4, <3>2 DEF InOutput
    <3> QED
      BY <1>4, <3>1, <3>2
  <2> QED
    BY <2>1, <2>2, <2>3, <2>4, <2>5, <2>6
<1>8. \A c \in Buffers : Queued(c)' <=> Queued(c)
  BY <1>7 DEF Queued
<1>9. OneHome'
  <2>1. ASSUME NEW c \in Buffers
        PROVE  /\ InInput(c)' => pending' # c /\ ~InBatch(c)' /\ ~InOutput(c)' /\ ~InWorker(c)'
               /\ pending' = c => ~InBatch(c)' /\ ~InOutput(c)' /\ ~InWorker(c)'
               /\ InBatch(c)' => ~InOutput(c)' /\ ~InWorker(c)'
               /\ InOutput(c)' => ~InWorker(c)'
    BY <1>7 DEF OneHome
  <2>2. ASSUME NEW c \in Buffers, NEW i \in DOMAIN outputChan', NEW j \in DOMAIN outputChan',
               c \in ToSet(outputChan'[i]), c \in ToSet(outputChan'[j])
        PROVE  i = j
    <3>1. c \in ToSet(batched) => \A k \in DOMAIN outputChan : c \notin ToSet(outputChan[k])
      BY DEF OneHome, InBatch, InOutput
    <3>2. CASE i \in 1..Len(outputChan) /\ j \in 1..Len(outputChan)
      BY <1>4, <2>2, <3>2 DEF OneHome
    <3>3. CASE i = Len(outputChan) + 1 /\ j = Len(outputChan) + 1
      BY <3>3
    <3>4. CASE i = Len(outputChan) + 1 /\ j \in 1..Len(outputChan)
      BY <1>4, <2>2, <3>1, <3>4
    <3>5. CASE i \in 1..Len(outputChan) /\ j = Len(outputChan) + 1
      BY <1>4, <2>2, <3>1, <3>5
    <3> QED
      BY <1>4, <3>2, <3>3, <3>4, <3>5
  <2>3. ASSUME NEW i \in DOMAIN outputChan' PROVE IsInjective(outputChan'[i])
    <3>1. CASE i \in 1..Len(outputChan)
      BY <1>4, <3>1 DEF OneHome
    <3>2. CASE i = Len(outputChan) + 1
      BY <1>4, <3>2 DEF OneHome
    <3> QED
      BY <1>4, <3>1, <3>2
  <2> QED
    BY <1>1, <1>5, <2>1, <2>2, <2>3 DEF OneHome
<1>10. BuffersKept' /\ EntriesKept' /\ WorkersKept' /\ NoneDropped'
  BY <1>1, <1>8, BuffersRest, EntriesRest, WorkersRest, MessagesRest
<1>11. Confirms'
  BY <1>1 DEF Confirms
<1>12. ClosedInOrder'
  BY <1>1, <1>3 DEF ClosedInOrder, InputClosed, OutputClosed
<1> QED
  BY <1>6, <1>9, <1>10, <1>11, <1>12

LEMMA CloseStep ==
    ASSUME Inv, CloseInput \/ CloseOutput \/ CloseReturns
    PROVE  Inv'
<1> USE DEF Inv, putVars, aggVars, workerVars, entryVars
<1>1. UNCHANGED <<putVars, aggVars, outputChan, workerVars, entryVars, confirmed, doubtful>>
  BY DEF CloseInput, CloseOutput, CloseReturns
<1>2. ProducerTypeOK'
  BY <1>1 DEF ProducerTypeOK, CloseStates, CloseInput, CloseOutput, CloseReturns
<1>3. OneHome' /\ \A b : Queued(b)' = Queued(b)
  BY <1>1, PipeRests
<1>4. BuffersKept' /\ EntriesKept' /\ WorkersKept' /\ NoneDropped'
  BY <1>1, <1>3, BuffersRest, EntriesRest, WorkersRest, MessagesRest
<1>5. Confirms'
  BY <1>1 DEF Confirms
<1>6. ClosedInOrder'
  BY <1>1 DEF ClosedInOrder, InputClosed, OutputClosed, CloseInput, CloseOutput, CloseReturns
<1> QED
  BY <1>2, <1>3, <1>4, <1>5, <1>6

-----------------------------------------------------------------------------
(***************************************************************************)
(* The flush workers.                                                      *)
(***************************************************************************)
\* The order of closing, as far as a worker that has not ended can disturb it.
LEMMA WorkersClose ==
    ASSUME Inv, NEW w \in Workers, wstate[w] # "ended", NEW s, s # "ended",
           wstate' = [wstate EXCEPT ![w] = s],
           UNCHANGED <<inputChan, agg, batched, pending, closer>>,
           \A m \in Messages : status'[m] = "sending" => status[m] = "sending",
           outputChan' = outputChan \/ outputChan # <<>>
    PROVE  ClosedInOrder'
<1>1. \A v \in Workers : wstate'[v] = IF v = w THEN s ELSE wstate[v]
  BY DEF Inv, ProducerTypeOK
<1> QED
  BY <1>1 DEF Inv, ClosedInOrder, InputClosed, OutputClosed

LEMMA TakeBatchStep ==
    ASSUME Inv, NEW w \in Workers, TakeBatch(w)
    PROVE  Inv'
<1> USE DEF Inv, putVars, aggVars, workerVars, entryVars
<1> PICK b : b = Head(outputChan)
  OBVIOUS
<1>1. /\ wstate[w] = "idle" /\ outputChan # <<>> /\ outputChan' = Tail(outputChan)
      /\ \/ b = <<>> /\ UNCHANGED workerVars
         \/ /\ b # <<>>
            /\ wstate' = [wstate EXCEPT ![w] = "compile"]
            /\ held' = [held EXCEPT ![w] = b]
            /\ compressed' = [compressed EXCEPT ![w] = 0]
            /\ records' = [records EXCEPT ![w] = <<>>]
      /\ UNCHANGED <<putVars, aggVars, entryVars, confirmed, doubtful, closer>>
  BY DEF TakeBatch
<1>2. /\ b \in Seq(Buffers) /\ outputChan' \in Seq(Seq(Buffers))
      /\ Len(outputChan) \in Nat \ {0} /\ Len(outputChan') = Len(outputChan) - 1
      /\ DOMAIN outputChan = 1..Len(outputChan) /\ DOMAIN outputChan' = 1..(Len(outputChan) - 1)
      /\ b = outputChan[1]
      /\ \A i \in 1..(Len(outputChan) - 1) : outputChan'[i] = outputChan[i + 1]
  <2>1. outputChan \in Seq(Seq(Buffers))
    BY DEF ProducerTypeOK
  <2> QED
    BY <1>1, <2>1, TailSet, LenProperties
<1>3. held[w] = <<>> /\ records[w] = <<>>
  BY <1>1 DEF WorkersKept, WorkerKept
<1>4. records' = records
  BY <1>1, <1>3 DEF ProducerTypeOK
<1>5. held' = [held EXCEPT ![w] = b]
  <2>1. held = [held EXCEPT ![w] = <<>>]
    BY <1>3 DEF ProducerTypeOK
  <2> QED
    BY <1>1, <2>1
<1>6. \A v \in Workers : held'[v] = IF v = w THEN b ELSE held[v]
  BY <1>5 DEF ProducerTypeOK
<1>7. ProducerTypeOK'
  <2>1. /\ wstate' \in [Workers -> WorkerStates]
        /\ held' \in [Workers -> Seq(Buffers)]
        /\ compressed' \in [Workers -> Nat]
    <3>1. wstate' \in [Workers -> WorkerStates]
      BY <1>1 DEF ProducerTypeOK, WorkerStates
    <3>2. held' \in [Workers -> Seq(Buffers)]
      BY <1>2, <1>5 DEF ProducerTypeOK
    <3>3. compressed' \in [Workers -> Nat]
      <4>1. compressed \in [Workers -> Nat] /\ 0 \in Nat
        BY DEF ProducerTypeOK
      <4>2. compressed' = compressed \/ compressed' = [compressed EXCEPT ![w] = 0]
        BY <1>1
      <4> QED
        BY ONLY <4>1, <4>2
    <3> QED
      BY <3>1, <3>2, <3>3
  <2>2. Len(outputChan') <= outputBufferSize
    BY <1>2, ProducerAssumption DEF ProducerTypeOK
  <2> QED
    BY <1>1, <1>2, <1>4, <2>1, <2>2 DEF ProducerTypeOK
<1>8. ToSet(held[w]) = {}
  BY <1>3, EmptySet
<1>9. 1 \in DOMAIN outputChan /\ \A i \in DOMAIN outputChan' : i + 1 \in DOMAIN outputChan
  BY <1>2
<1>10. \A c \in Buffers : /\ InInput(c)' <=> InInput(c)
                          /\ InBatch(c)' <=> InBatch(c)
                          /\ InOutput(c) <=> InOutput(c)' \/ c \in ToSet(b)
                          /\ InWorker(c)' <=> InWorker(c) \/ c \in ToSet(b)
  <2> TAKE c \in Buffers
  <2>1. (InInput(c)' <=> InInput(c)) /\ (InBatch(c)' <=> InBatch(c))
    BY <1>1 DEF InInput, InBatch
  <2>2. InOutput(c)' \/ c \in ToSet(b) => InOutput(c)
    BY <1>2, <1>9 DEF InOutput
  <2>3. InOutput(c) => InOutput(c)' \/ c \in ToSet(b)
    <3> SUFFICES ASSUME NEW i \in DOMAIN outputChan, c \in ToSet(outputChan[i])
                 PROVE  InOutput(c)' \/ c \in ToSet(b)
      BY DEF InOutput
    <3>1. CASE i = 1
      BY <1>2, <3>1
    <3>2. CASE i # 1
      <4>1. i - 1 \in 1..(Len(outputChan) - 1) /\ (i - 1) + 1 = i
        BY <1>2, <3>2
      <4>2. outputChan'[i - 1] = outputChan[i]
        BY <1>2, <4>1
      <4> QED
        BY <1>2, <4>1, <4>2 DEF InOutput
    <3> QED
      BY <3>1, <3>2
  <2>4. InWorker(c)' <=> InWorker(c) \/ c \in ToSet(b)
    BY <1>6, <1>8 DEF InWorker
  <2> QED
    BY <2>1, <2>2, <2>3, <2>4
<1>11. \A c \in Buffers : Queued(c)' <=> Queued(c)
  BY <1>1, <1>10 DEF Queued
<1>12. OneHome'
  <2>1. ASSUME NEW c \in Buffers, c \in ToSet(b) PROVE ~InOutput(c)'
    <3> SUFFICES ASSUME NEW i \in DOMAIN outputChan', c \in ToSet(outputChan'[i]) PROVE FALSE
      BY DEF InOutput
    <3>1. i + 1 \in DOMAIN outputChan /\ c \in ToSet(outputChan[i + 1]) /\ c \in ToSet(outputChan[1])
      <4>1. i \in 1..(Len(outputChan) - 1) /\ i + 1 \in 1..Len(outputChan) /\ 1 \in 1..Len(outputChan)
        BY <1>2
      <4>2. outputChan'[i] = outputChan[i + 1]
        BY <1>2, <4>1
      <4> QED
        BY <1>2, <2>1, <4>1, <4>2
    <3>2. i + 1 = 1
      BY <1>9, <3>1 DEF OneHome
    <3> QED
      <4>1. i \in Nat \ {0}
        BY <1>2
      <4> QED
        BY ONLY <3>2, <4>1
  <2>2. ASSUME NEW c \in Buffers
        PROVE  /\ InInput(c)' => pending' # c /\ ~InBatch(c)' /\ ~InOutput(c)' /\ ~InWorker(c)'
               /\ pending' = c => ~InBatch(c)' /\ ~InOutput(c)' /\ ~InWorker(c)'
               /\ InBatch(c)' => ~InOutput(c)' /\ ~InWorker(c)'
               /\ InOutput(c)' => ~InWorker(c)'
    BY <1>1, <1>10, <2>1 DEF OneHome
  <2>3. ASSUME NEW c \in Buffers, NEW i \in DOMAIN outputChan', NEW j \in DOMAIN outputChan',
               c \in ToSet(outputChan'[i]), c \in ToSet(outputChan'[j])
        PROVE  i = j
    <3>1. c \in ToSet(outputChan[i + 1]) /\ c \in ToSet(outputChan[j + 1])
      BY <1>2, <2>3
    <3>2. i + 1 = j + 1
      BY <1>9, <3>1 DEF OneHome
    <3> QED
      BY <1>2, <3>2
  <2>4. ASSUME NEW c \in Buffers, NEW u \in Workers, NEW v \in Workers,
               c \in ToSet(held'[u]), c \in ToSet(held'[v])
        PROVE  u = v
    <3>1. c \in ToSet(b) => ~InWorker(c)
      BY <1>2, <1>9 DEF OneHome, InOutput
    <3> QED
      BY <1>6, <2>4, <3>1 DEF OneHome, InWorker
  <2>5. ASSUME NEW i \in DOMAIN outputChan' PROVE IsInjective(outputChan'[i])
    BY <1>2, <1>9 DEF OneHome
  <2>6. ASSUME NEW v \in Workers PROVE IsInjective(held'[v])
    BY <1>2, <1>6, <1>9 DEF OneHome
  <2> QED
    BY <1>1, <2>2, <2>3, <2>4, <2>5, <2>6 DEF OneHome
<1>13. BuffersKept'
  BY <1>1, <1>11, BuffersRest
<1>14. EntriesKept' /\ \A v : Coded(v)' = Coded(v)
  BY <1>1, <1>4, EntriesRest
<1>15. WorkersKept'
  <2>1. ASSUME NEW v \in Workers, v # w
        PROVE  /\ wstate'[v] = wstate[v] /\ held'[v] = held[v]
               /\ compressed'[v] = compressed[v] /\ records'[v] = records[v]
    BY <1>1, <1>4, <1>6, <2>1 DEF ProducerTypeOK
  <2>2. CASE b = <<>>
    <3>1. UNCHANGED <<wstate, compressed, held>>
      <4>1. held = [held EXCEPT ![w] = <<>>]
        BY <1>3 DEF ProducerTypeOK
      <4> QED
        BY <1>1, <1>5, <2>2, <4>1
    <3> QED
      BY <1>1, <1>4, <1>14, <3>1 DEF WorkersKept, WorkerKept
  <2>3. CASE b # <<>>
    <3>1. wstate'[w] = "compile" /\ compressed'[w] = 0 /\ held'[w] = b
      BY <1>1, <1>6, <2>3 DEF ProducerTypeOK
    <3>2. Coded(w)' = {}
      BY <1>3, <1>14, EmptySet DEF Coded, Encoded
    <3>3. compressed'[w] <= Len(held'[w]) /\ 1..compressed'[w] = {}
      BY <1>2, <3>1, SetOfSeq
    <3> SUFFICES ASSUME NEW v \in Workers PROVE WorkerKept(v)'
      BY DEF WorkersKept
    <3>4. CASE v = w
      BY <3>1, <3>2, <3>3, <3>4 DEF WorkerKept
    <3>5. CASE v # w
      BY <1>1, <1>14, <2>1, <3>5 DEF WorkersKept, WorkerKept
    <3> QED
      BY <3>4, <3>5
  <2> QED
    BY <2>2, <2>3
<1>16. NoneDropped'
  <2>1. \A v \in Workers : wstate[v] = "request" => wstate'[v] = "request"
    BY <1>1 DEF ProducerTypeOK
  <2> QED
    BY <1>1, <1>14, <2>1 DEF NoneDropped
<1>17. Confirms'
  BY <1>1 DEF Confirms
<1>18. ClosedInOrder'
  BY <1>1 DEF ClosedInOrder, InputClosed, OutputClosed, ProducerTypeOK
<1> QED
  BY <1>7, <1>12, <1>13, <1>14, <1>15, <1>16, <1>17, <1>18

\* Different entries, and different requests, hold different messages.
LEMMA Separate ==
    ASSUME Inv
    PROVE  /\ \A e, f \in Entries : e # f => ToSet(entryData[e]) \cap ToSet(entryData[f]) = {}
           /\ \A v, w \in Workers : v # w => Coded(v) \cap Coded(w) = {}
<1>1. \A e, f \in Entries : e # f => ToSet(entryData[e]) \cap ToSet(entryData[f]) = {}
  BY DEF Inv, EntriesKept, ToSet
<1>2. ASSUME NEW v \in Workers, NEW w \in Workers, v # w PROVE Coded(v) \cap Coded(w) = {}
  <2> SUFFICES ASSUME NEW e \in ToSet(records[v]), NEW f \in ToSet(records[w])
               PROVE  ToSet(entryData[e]) \cap ToSet(entryData[f]) = {}
    BY DEF Coded, Encoded
  <2>1. e \in Entries /\ f \in Entries
    BY PipeTypes DEF Inv
  <2>2. e # f
    BY <1>2 DEF Inv, EntriesKept
  <2> QED
    BY <1>1, <2>1, <2>2
<1> QED
  BY <1>1, <1>2

\* The buffers a worker holds are in use, and nobody else's.
LEMMA HeldBuffers ==
    ASSUME Inv, NEW w \in Workers
    PROVE  /\ Len(held[w]) \in Nat /\ DOMAIN held[w] = 1..Len(held[w])
           /\ \A i \in 1..Len(held[w]) : held[w][i] \in ToSet(held[w])
           /\ \A b \in ToSet(held[w]) :
                 /\ b \in Buffers /\ b \notin freeBuffers
                 /\ Queued(b) /\ InWorker(b)
                 /\ content[b].message \in Messages
                 /\ status[content[b].message] = "accepted"
                 /\ \A v \in Workers : v # w => b \notin ToSet(held[v])
           /\ wstate[w] = "compile" =>
                 \A m \in Coded(w) : \E i \in 1..compressed[w] :
                    i \in 1..Len(held[w]) /\ m = content[held[w][i]].message
<1> USE DEF Inv
<1>1. Len(held[w]) \in Nat /\ DOMAIN held[w] = 1..Len(held[w])
  BY PipeTypes, SetOfSeq
<1>2. \A i \in 1..Len(held[w]) : held[w][i] \in ToSet(held[w])
  BY <1>1 DEF ToSet
<1>3. ASSUME NEW b \in ToSet(held[w])
      PROVE  /\ b \in Buffers /\ b \notin freeBuffers
             /\ Queued(b) /\ InWorker(b)
             /\ content[b].message \in Messages
             /\ status[content[b].message] = "accepted"
             /\ \A v \in Workers : v # w => b \notin ToSet(held[v])
  <2>1. b \in Buffers /\ InWorker(b) /\ Queued(b)
    BY PipeTypes DEF InWorker, Queued
  <2>2. b \notin freeBuffers /\ status[content[b].message] = "accepted"
    BY <2>1 DEF BuffersKept
  <2>3. content[b].message \in Messages
    BY <2>1, <2>2, InUse
  <2>4. \A v \in Workers : v # w => b \notin ToSet(held[v])
    BY <2>1 DEF OneHome
  <2> QED
    BY <2>1, <2>2, <2>3, <2>4
<1>4. ASSUME wstate[w] = "compile", NEW m \in Coded(w)
      PROVE  \E i \in 1..compressed[w] : i \in 1..Len(held[w]) /\ m = content[held[w][i]].message
  <2>1. /\ compressed[w] <= Len(held[w]) /\ compressed[w] \in Nat
        /\ Coded(w) = {content[held[w][i]].message : i \in 1..compressed[w]}
    BY <1>4 DEF WorkersKept, WorkerKept, ProducerTypeOK
  <2>2. \A i \in 1..compressed[w] : i \in 1..Len(held[w])
    BY <1>1, <2>1
  <2> QED
    BY <2>1, <2>2
<1> QED
  BY <1>1, <1>2, <1>3, <1>4

\* Of the messages in buffers, only what a worker has compiled is in an entry.
LEMMA CodedBuffers ==
    ASSUME Inv, NEW w \in Workers, NEW b \in Buffers \ freeBuffers,
           content[b].message \in Coded(w)
    PROVE  /\ wstate[w] = "compile"
           /\ \E i \in 1..compressed[w] : i \in 1..Len(held[w]) /\ b = held[w][i]
<1> USE DEF Inv
<1>1. wstate[w] # "request"
  BY DEF WorkersKept, WorkerKept
<1>2. ~(wstate[w] \in {"idle", "ended"})
  BY EmptySet DEF WorkersKept, WorkerKept, Coded, Encoded
<1>3. wstate[w] = "compile"
  BY <1>1, <1>2 DEF ProducerTypeOK, WorkerStates
<1>4. PICK i \in 1..compressed[w] : i \in 1..Len(held[w]) /\ content[b].message = content[held[w][i]].message
  BY <1>3, HeldBuffers
<1>5. held[w][i] \in Buffers \ freeBuffers
  BY <1>4, HeldBuffers
<1>6. b = held[w][i]
  BY <1>4, <1>5 DEF BuffersKept
<1> QED
  BY <1>3, <1>4, <1>6

\* A worker that takes no part in a step, when its buffers keep their content.
LEMMA WorkerRests ==
    ASSUME ProducerTypeOK, NEW w \in Workers, WorkerKept(w),
           wstate'[w] = wstate[w], held'[w] = held[w], compressed'[w] = compressed[w],
           records'[w] = records[w], Coded(w)' = Coded(w),
           \A b \in ToSet(held[w]) : content'[b] = content[b],
           \A m \in Coded(w) : status[m] = "accepted" => status'[m] = "accepted",
           \A b \in Buffers \ freeBuffers' : b \notin freeBuffers /\ content'[b] = content[b]
    PROVE  WorkerKept(w)'
<1>1. ASSUME wstate[w] = "compile"
      PROVE  /\ compressed'[w] <= Len(held'[w])
             /\ Coded(w)' = {content'[held'[w][i]].message : i \in 1..compressed'[w]}
  <2> PICK h, c : h = held[w] /\ c = compressed[w]
    OBVIOUS
  <2>1. c \in Nat /\ Len(h) \in Nat /\ c <= Len(h) /\ DOMAIN h = 1..Len(h)
    BY <1>1, PipeTypes, SetOfSeq DEF WorkerKept, ProducerTypeOK
  <2>2. \A i \in 1..c : h[i] \in ToSet(h)
    BY <2>1 DEF ToSet
  <2>3. \A i \in 1..c : content'[h[i]] = content[h[i]]
    BY <2>2
  <2>4. Coded(w) = {content[h[i]].message : i \in 1..c}
    BY <1>1 DEF WorkerKept
  <2>5. Coded(w)' = {content'[h[i]].message : i \in 1..c}
    BY <2>3, <2>4
  <2> QED
    BY <2>1, <2>5
<1>2. ASSUME wstate[w] = "request", NEW m \in Coded(w)
      PROVE  /\ status'[m] = "accepted"
             /\ \A b \in Buffers \ freeBuffers' : content'[b].message # m
  BY <1>2 DEF WorkerKept
<1>3. /\ wstate'[w] # "compile" => held'[w] = <<>>
      /\ wstate'[w] \in {"idle", "ended"} => records'[w] = <<>>
  BY DEF WorkerKept
<1> QED
  BY <1>1, <1>2, <1>3 DEF WorkerKept

LEMMA CompileEntryStep ==
    ASSUME Inv, NEW w \in Workers, CompileEntry(w)
    PROVE  Inv'
<1> USE DEF Inv, putVars, aggVars, workerVars, entryVars
<1> PICK rest, n : rest = SubSeq(held[w], compressed[w] + 1, Len(held[w]))
                   /\ n = CompiledLength(SizesIn(rest))
  OBVIOUS
<1>1. /\ wstate[w] = "compile" /\ compressed[w] < Len(held[w])
      /\ compressed' = [compressed EXCEPT ![w] = @ + n]
      /\ \/ n = 0 /\ UNCHANGED <<records, entryVars>>
         \/ /\ n > 0
            /\ \E e \in freeEntries :
                  /\ entryData' = [entryData EXCEPT ![e] = MessagesIn(SubSeq(rest, 1, n))]
                  /\ freeEntries' = freeEntries \ {e}
                  /\ records' = [records EXCEPT ![w] = Append(@, e)]
      /\ UNCHANGED <<putVars, aggVars, outputChan, wstate, held, confirmed, doubtful, closer>>
  BY DEF CompileEntry
<1> PICK c, h : c = compressed[w] /\ h = held[w]
  OBVIOUS
<1>2. /\ c \in Nat /\ h \in Seq(Buffers) /\ Len(h) \in Nat /\ DOMAIN h = 1..Len(h) /\ c < Len(h)
      /\ Coded(w) = {content[h[i]].message : i \in 1..c}
      /\ \A i \in 1..Len(h) : h[i] \in Buffers \ freeBuffers
      /\ \A i, j \in 1..Len(h) : h[i] = h[j] => i = j
  <2>1. c \in Nat /\ h \in Seq(Buffers)
    BY DEF ProducerTypeOK
  <2>2. Coded(w) = {content[h[i]].message : i \in 1..c}
    BY <1>1 DEF WorkersKept, WorkerKept
  <2>3. /\ Len(h) \in Nat /\ DOMAIN h = 1..Len(h)
        /\ \A i \in 1..Len(h) : h[i] \in Buffers \ freeBuffers
    BY HeldBuffers
  <2>4. \A i, j \in 1..Len(h) : h[i] = h[j] => i = j
    BY <2>3 DEF OneHome, IsInjective
  <2> QED
    BY <1>1, <2>1, <2>2, <2>3, <2>4
<1>3. /\ rest \in Seq(Buffers) /\ Len(rest) = Len(h) - c
      /\ Len(rest) \in Nat \ {0} /\ DOMAIN rest = 1..Len(rest)
      /\ \A i \in 1..Len(rest) : rest[i] = h[c + i]
  <2>1. rest = SubSeq(h, c + 1, Len(h))
    OBVIOUS
  <2>2. /\ rest \in Seq(Buffers) /\ Len(rest) = Len(h) - c /\ DOMAIN rest = 1..(Len(h) - c)
        /\ \A i \in 1..(Len(h) - c) : rest[i] = h[c + i]
    <3> PICK l \in Nat : l = Len(h)
      BY <1>2
    <3>1. c <= l /\ l <= Len(h)
      BY <1>2
    <3>2. /\ SubSeq(h, c + 1, l) \in Seq(Buffers)
          /\ Len(SubSeq(h, c + 1, l)) = l - c
          /\ DOMAIN SubSeq(h, c + 1, l) = 1..(l - c)
          /\ \A i \in 1..(l - c) : SubSeq(h, c + 1, l)[i] = h[c + i]
      <4>1. c \in Nat /\ l \in Nat /\ h \in Seq(Buffers)
        BY <1>2
      <4> HIDE DEF Inv, putVars, aggVars, workerVars, entryVars
      <4> QED
        BY ONLY <4>1, <3>1, PartOf
    <3> QED
      BY <2>1, <3>2
  <2>3. Len(h) - c \in Nat \ {0}
    BY <1>2
  <2> QED
    BY <2>2, <2>3
<1>4. n \in 0..Len(rest)
  <2> DEFINE S == {content[rest[i]].size : i \in 1..Len(rest)}
  <2>1. SizesIn(rest) \in [1..Len(rest) -> S]
    BY <1>3 DEF SizesIn
  <2>2. Len(SizesIn(rest)) = Len(rest)
    <3> HIDE DEF S
    <3> QED
      BY <1>3, <2>1, FunctionSeq
  <2> QED
    BY <1>3, <2>2, CompiledSome
<1>5. n \in Nat /\ c + n \in Nat /\ c + n <= Len(h)
  BY <1>2, <1>3, <1>4
<1>5a. /\ compressed'[w] = c + n
       /\ \A v \in Workers : v # w => compressed'[v] = compressed[v]
       /\ compressed' \in [Workers -> Nat]
  BY <1>1, <1>5 DEF ProducerTypeOK
<1>6. OneHome' /\ \A b : Queued(b)' = Queued(b)
  BY <1>1, PipeRests
<1>7. BuffersKept'
  BY <1>1, <1>6, BuffersRest
<1>8. Confirms' /\ ClosedInOrder'
  BY <1>1 DEF Confirms, ClosedInOrder, InputClosed, OutputClosed
<1>9. CASE n = 0
  <2>1. compressed' = compressed
    BY <1>1, <1>5, <1>9 DEF ProducerTypeOK
  <2>2. UNCHANGED <<records, entryVars>>
    BY <1>1, <1>9
  <2>3. ProducerTypeOK'
    BY <1>1, <2>1, <2>2 DEF ProducerTypeOK
  <2>4. EntriesKept' /\ WorkersKept' /\ NoneDropped'
    BY <1>1, <2>1, <2>2, EntriesRest, WorkersRest, MessagesRest
  <2> QED
    BY <1>6, <1>7, <1>8, <2>3, <2>4
<1>10. CASE n > 0
  <2> PICK e \in freeEntries :
           /\ entryData' = [entryData EXCEPT ![e] = MessagesIn(SubSeq(rest, 1, n))]
           /\ freeEntries' = freeEntries \ {e}
           /\ records' = [records EXCEPT ![w] = Append(@, e)]
    BY <1>1, <1>10
  <2> PICK data : data = MessagesIn(SubSeq(rest, 1, n))
    OBVIOUS
  <2>1. e \in Entries /\ entryData[e] = <<>>
    BY DEF ProducerTypeOK, EntriesKept
  <2>2. /\ \A i \in 1..n : c + i \in 1..Len(h)
        /\ \A i \in 1..n : h[c + i] \in Buffers \ freeBuffers
    <3>1. \A i \in 1..n : c + i \in 1..Len(h)
      BY ONLY <1>2, <1>5
    <3> QED
      BY ONLY <1>2, <3>1
  <2>3. /\ data \in Seq(Messages) /\ DOMAIN data = 1..n
        /\ \A i \in 1..n : data[i] = content[h[c + i]].message
    <3> PICK part : part = SubSeq(rest, 1, n)
      OBVIOUS
    <3>1. DOMAIN part = 1..n /\ \A i \in 1..n : part[i] = rest[i]
      <4>1. /\ DOMAIN SubSeq(rest, 0 + 1, n) = 1..(n - 0)
            /\ \A i \in 1..(n - 0) : SubSeq(rest, 0 + 1, n)[i] = rest[0 + i]
        <5>1. 0 \in Nat /\ n \in Nat /\ 0 <= n /\ n <= Len(rest) /\ rest \in Seq(Buffers)
          BY ONLY <1>3, <1>4
        <5> QED
          BY ONLY <5>1, PartOf
      <4>2. 0 + 1 = 1 /\ n - 0 = n /\ \A i \in 1..n : 0 + i = i
        BY ONLY <1>5
      <4> QED
        BY ONLY <4>1, <4>2, part = SubSeq(rest, 1, n)
    <3>2. data = [i \in 1..n |-> content[part[i]].message]
      BY <3>1 DEF MessagesIn
    <3>3. \A i \in 1..n : i \in 1..Len(rest)
      BY <1>3, <1>4
    <3>4. \A i \in 1..n : data[i] = content[h[c + i]].message
      <4> TAKE i \in 1..n
      <4>1. data[i] = content[part[i]].message
        BY <3>2
      <4>2. part[i] = rest[i] /\ rest[i] = h[c + i]
        BY <1>3, <3>1, <3>3
      <4> QED
        BY <4>1, <4>2
    <3>5. \A i \in 1..n : data[i] \in Messages
      BY <2>2, <3>4, InUse
    <3>6. data \in [1..n -> Messages]
      BY <3>2, <3>5
    <3> QED
      BY <1>5, <3>4, <3>6, FunctionSeq
  <2>4. \A i, j \in 1..n : data[i] = data[j] => i = j
    <3> SUFFICES ASSUME NEW i \in 1..n, NEW j \in 1..n, data[i] = data[j] PROVE i = j
      OBVIOUS
    <3>1. h[c + i] = h[c + j]
      <4>1. content[h[c + i]].message = content[h[c + j]].message
        BY <2>3
      <4>2. h[c + i] \in Buffers \ freeBuffers /\ h[c + j] \in Buffers \ freeBuffers
        BY <2>2
      <4> QED
        BY <4>1, <4>2 DEF BuffersKept
    <3>2. c + i = c + j
      BY <1>2, <2>2, <3>1
    <3> QED
      BY <1>2, <3>2
  <2>5. \A v \in Workers : \A i \in 1..n : data[i] \notin Coded(v)
    <3> SUFFICES ASSUME NEW v \in Workers, NEW i \in 1..n, data[i] \in Coded(v) PROVE FALSE
      OBVIOUS
    <3> PICK b \in Buffers \ freeBuffers : b = h[c + i]
      BY <2>2
    <3>1. PICK k \in 1..compressed[v] : k \in 1..Len(held[v]) /\ b = held[v][k]
      BY <2>3, CodedBuffers
    <3>2. b \in ToSet(held[v]) /\ b \in ToSet(h)
      <4>1. \A k1 \in 1..Len(held[v]) : held[v][k1] \in ToSet(held[v])
        BY HeldBuffers
      <4>2. \A k1 \in 1..Len(h) : h[k1] \in ToSet(h)
        BY HeldBuffers
      <4> QED
        BY <2>2, <3>1, <4>1, <4>2
    <3>3. v = w
      BY <3>2 DEF OneHome
    <3>4. k \in 1..c /\ k \in 1..Len(h) /\ h[k] = h[c + i]
      BY <3>1, <3>3
    <3>5. k = c + i
      BY <1>2, <2>2, <3>4
    <3> QED
      BY <1>2, <3>4, <3>5
  <2>6. \A f \in Entries : \A i \in 1..n, j \in DOMAIN entryData[f] : data[i] # entryData[f][j]
    <3> SUFFICES ASSUME NEW f \in Entries, NEW i \in 1..n, NEW j \in DOMAIN entryData[f],
                        data[i] = entryData[f][j]
                 PROVE  FALSE
      OBVIOUS
    <3>1. f \notin freeEntries
      BY DEF EntriesKept
    <3>2. PICK v \in Workers : f \in ToSet(records[v])
      BY <3>1 DEF EntriesKept
    <3>3. data[i] \in Coded(v)
      BY <3>2 DEF Coded, Encoded, ToSet
    <3> QED
      BY <2>5, <3>3
  <2>7. \A f \in Entries : entryData'[f] = IF f = e THEN data ELSE entryData[f]
    BY DEF ProducerTypeOK
  <2>7a. \A f \in Entries \ {e} : entryData'[f] = entryData[f] /\ DOMAIN entryData'[f] = DOMAIN entryData[f]
    BY <2>7
  <2>7b. entryData'[e] = data /\ DOMAIN entryData'[e] = 1..n
    BY <2>1, <2>3, <2>7
  <2>8. /\ \A v \in Workers : v # w => records'[v] = records[v]
        /\ records'[w] = Append(records[w], e)
        /\ records'[w] \in Seq(Entries)
        /\ ToSet(records'[w]) = ToSet(records[w]) \cup {e}
        /\ IsInjective(records'[w])
    <3>1. records[w] \in Seq(Entries) /\ records'[w] = Append(records[w], e)
      BY DEF ProducerTypeOK
    <3>2. e \notin ToSet(records[w]) /\ IsInjective(records[w])
      BY DEF EntriesKept
    <3> QED
      BY <2>1, <3>1, <3>2, AppendSet DEF ProducerTypeOK
  <2>9. ProducerTypeOK'
    <3>1. entryData' \in [Entries -> Seq(Messages)]
      BY <2>1, <2>3 DEF ProducerTypeOK
    <3>2. records' \in [Workers -> Seq(Entries)]
      BY <2>8 DEF ProducerTypeOK
    <3> QED
      BY <1>1, <1>5a, <3>1, <3>2 DEF ProducerTypeOK
  <2>10. EntriesKept'
    <3>1. ASSUME NEW f \in Entries
          PROVE  /\ f \in freeEntries' => entryData'[f] = <<>>
                 /\ f \notin freeEntries' => \E v \in Workers : f \in ToSet(records'[v])
      BY <2>7, <2>8 DEF EntriesKept
    <3>2. ASSUME NEW v \in Workers
          PROVE  /\ IsInjective(records'[v])
                 /\ \A f \in ToSet(records'[v]) :
                       /\ f \notin freeEntries'
                       /\ \A u \in Workers : f \in ToSet(records'[u]) => u = v
      <4>1. \A u \in Workers : e \notin ToSet(records[u])
        BY DEF EntriesKept
      <4>2. \A u \in Workers : \A f \in ToSet(records'[u]) :
               f \in ToSet(records[u]) \/ (f = e /\ u = w)
        BY <2>8
      <4>3. IsInjective(records'[v])
        BY <2>8 DEF EntriesKept
      <4>4. ASSUME NEW f \in ToSet(records'[v])
            PROVE  /\ f \notin freeEntries'
                   /\ \A u \in Workers : f \in ToSet(records'[u]) => u = v
        <5>1. CASE f = e
          BY <4>1, <4>2, <5>1
        <5>2. CASE f # e
          BY <4>2, <5>2 DEF EntriesKept
        <5> QED
          BY <5>1, <5>2
      <4> QED
        BY <4>3, <4>4
    <3>3. ASSUME NEW f \in Entries, NEW g \in Entries, NEW i \in DOMAIN entryData'[f],
                 NEW j \in DOMAIN entryData'[g], entryData'[f][i] = entryData'[g][j]
          PROVE  f = g /\ i = j
      <4>1. CASE f = e /\ g = e
        <5>1. i \in 1..n /\ j \in 1..n /\ data[i] = data[j]
          BY <2>7b, <3>3, <4>1
        <5> QED
          BY <2>4, <4>1, <5>1
      <4>2. CASE f = e /\ g # e
        <5>1. i \in 1..n /\ j \in DOMAIN entryData[g] /\ data[i] = entryData[g][j]
          BY <2>7a, <2>7b, <3>3, <4>2
        <5> QED
          BY <2>6, <5>1
      <4>3. CASE f # e /\ g = e
        <5>1. j \in 1..n /\ i \in DOMAIN entryData[f] /\ data[j] = entryData[f][i]
          BY <2>7a, <2>7b, <3>3, <4>3
        <5> QED
          BY <2>6, <5>1
      <4>4. CASE f # e /\ g # e
        BY <2>7a, <3>3, <4>4 DEF EntriesKept
      <4> QED
        BY <4>1, <4>2, <4>3, <4>4
    <3> QED
      BY <3>1, <3>2, <3>3 DEF EntriesKept
  <2>11. \A v \in Workers : v # w => Coded(v)' = Coded(v)
    <3> SUFFICES ASSUME NEW v \in Workers, v # w PROVE Coded(v)' = Coded(v)
      OBVIOUS
    <3>1. \A f \in ToSet(records[v]) : f \in Entries /\ f # e
      BY PipeTypes DEF EntriesKept
    <3> QED
      BY <2>7, <2>8, <3>1 DEF Coded, Encoded
  <2>12. Coded(w)' = Coded(w) \cup {content[h[i]].message : i \in (c + 1)..(c + n)}
    <3>1. \A f \in ToSet(records[w]) : f \in Entries /\ f # e
      BY PipeTypes DEF EntriesKept
    <3>2. Coded(w)' = Coded(w) \cup ToSet(data)
      BY <2>1, <2>7, <2>8, <3>1 DEF Coded, Encoded
    <3>3. ToSet(data) = {data[i] : i \in 1..n}
      BY <2>3 DEF ToSet
    <3>4. \A i \in (c + 1)..(c + n) :
             i - c \in 1..n /\ c + (i - c) = i
      BY ONLY <1>2, <1>5
    <3>5. \A i \in 1..n : c + i \in (c + 1)..(c + n)
      BY ONLY <1>2, <1>5
    <3>6. {data[i] : i \in 1..n} =
             {content[h[i]].message : i \in (c + 1)..(c + n)}
      <4>1. ASSUME NEW i \in 1..n
            PROVE  \E k \in (c + 1)..(c + n) : data[i] = content[h[k]].message
        BY <2>3, <3>5
      <4>2. ASSUME NEW k \in (c + 1)..(c + n)
            PROVE  \E i \in 1..n : content[h[k]].message = data[i]
        <5>1. k - c \in 1..n /\ c + (k - c) = k
          BY <3>4
        <5>2. data[k - c] = content[h[c + (k - c)]].message
          BY <2>3, <5>1
        <5> QED
          BY <5>1, <5>2
      <4>3. ASSUME NEW x PROVE (\E i \in 1..n : x = data[i])
                               <=> \E k \in (c + 1)..(c + n) : x = content[h[k]].message
        <5>1. ASSUME NEW i \in 1..n, x = data[i]
              PROVE  \E k \in (c + 1)..(c + n) : x = content[h[k]].message
          BY <4>1, <5>1
        <5>2. ASSUME NEW k \in (c + 1)..(c + n), x = content[h[k]].message
              PROVE  \E i \in 1..n : x = data[i]
          BY <4>2, <5>2
        <5> QED
          BY <5>1, <5>2
      <4> QED
        BY ONLY <4>3
    <3> QED
      BY <3>2, <3>3, <3>6
  <2>13. WorkersKept'
    <3> SUFFICES ASSUME NEW v \in Workers PROVE WorkerKept(v)'
      BY DEF WorkersKept
    <3>1. CASE v = w
      <4>1. 1..(c + n) = (1..c) \cup ((c + 1)..(c + n))
        BY <1>2, <1>5
      <4>2. Coded(w)' = {content[h[i]].message : i \in 1..(c + n)}
        <5> PICK A, B : A = 1..c /\ B = (c + 1)..(c + n)
          OBVIOUS
        <5>1. 1..(c + n) = A \cup B
          BY <4>1
        <5>2. Coded(w)' = {content[h[i]].message : i \in A} \cup {content[h[i]].message : i \in B}
          BY <1>2, <2>12
        <5>3. {content[h[i]].message : i \in A} \cup {content[h[i]].message : i \in B}
                 = {content[h[i]].message : i \in A \cup B}
          OBVIOUS
        <5> QED
          BY <5>1, <5>2, <5>3
      <4> QED
        <5>1. /\ wstate'[w] = "compile" /\ held'[w] = h /\ content' = content
              /\ compressed'[w] = c + n /\ compressed'[w] <= Len(h)
          BY <1>1, <1>5, <1>5a
        <5>2. WorkerKept(w)'
          BY <4>2, <5>1 DEF WorkerKept
        <5> QED
          BY <3>1, <5>2
    <3>2. CASE v # w
      <4>1. WorkerKept(v)
        BY DEF WorkersKept
      <4>2. /\ wstate'[v] = wstate[v] /\ held'[v] = held[v] /\ compressed'[v] = compressed[v]
            /\ records'[v] = records[v] /\ Coded(v)' = Coded(v)
            /\ UNCHANGED <<status, content, freeBuffers>>
        BY <1>1, <1>5a, <2>8, <2>11, <3>2
      <4> QED
        BY <4>1, <4>2, WorkerRests
    <3> QED
      BY <3>1, <3>2
  <2>14. NoneDropped'
    BY <1>1, <2>11 DEF NoneDropped
  <2> QED
    BY <1>6, <1>7, <1>8, <2>9, <2>10, <2>13, <2>14
<1> QED
  BY <1>5, <1>9, <1>10

\* compileBatch() is done with its buffers: nothing else of the pipeline was in them.
LEMMA Released ==
    ASSUME Inv, NEW w \in Workers, ReleaseBuffers(w),
           UNCHANGED <<inputChan, pending, batched, outputChan>>
    PROVE  /\ content' \in [Buffers -> [message : Messages, size : Nat] \cup {None}]
           /\ freeBuffers' \subseteq Buffers
           /\ held' \in [Workers -> Seq(Buffers)]
           /\ held'[w] = <<>> /\ \A v \in Workers : v # w => held'[v] = held[v]
           /\ \A b \in Buffers :
                 /\ b \in ToSet(held[w]) => content'[b] = None /\ b \in freeBuffers' /\ ~Queued(b)'
                 /\ b \notin ToSet(held[w]) => /\ content'[b] = content[b]
                                               /\ b \in freeBuffers' <=> b \in freeBuffers
                                               /\ Queued(b)' <=> Queued(b)
           /\ OneHome'
<1> USE DEF Inv
<1>1. /\ freeBuffers' = freeBuffers \cup ToSet(held[w])
      /\ content' = [b \in Buffers |-> IF b \in ToSet(held[w]) THEN None ELSE content[b]]
      /\ held' = [held EXCEPT ![w] = <<>>]
  BY DEF ReleaseBuffers
<1>2. held'[w] = <<>> /\ \A v \in Workers : v # w => held'[v] = held[v]
  BY <1>1 DEF ProducerTypeOK
<1>3. /\ content' \in [Buffers -> [message : Messages, size : Nat] \cup {None}]
      /\ freeBuffers' \subseteq Buffers
      /\ held' \in [Workers -> Seq(Buffers)]
  <2>1. content' \in [Buffers -> [message : Messages, size : Nat] \cup {None}]
    BY <1>1 DEF ProducerTypeOK
  <2>2. freeBuffers' \subseteq Buffers
    BY <1>1, PipeTypes DEF ProducerTypeOK
  <2>3. held' \in [Workers -> Seq(Buffers)]
    BY <1>1 DEF ProducerTypeOK
  <2> QED
    BY <2>1, <2>2, <2>3
<1>4. \A b : /\ InInput(b)' <=> InInput(b)
             /\ InBatch(b)' <=> InBatch(b)
             /\ InOutput(b)' <=> InOutput(b)
  BY DEF InInput, InBatch, InOutput
<1>5. ASSUME NEW b \in Buffers
      PROVE  InWorker(b)' <=> InWorker(b) /\ b \notin ToSet(held[w])
  <2>1. \A v \in Workers : b \in ToSet(held[w]) /\ b \in ToSet(held[v]) => v = w
    BY DEF OneHome
  <2> QED
    BY <1>2, <2>1, EmptySet DEF InWorker
<1>6. ASSUME NEW b \in Buffers, b \in ToSet(held[w])
      PROVE  content'[b] = None /\ b \in freeBuffers' /\ ~Queued(b)'
  <2>1. ~InInput(b) /\ pending # b /\ ~InBatch(b) /\ ~InOutput(b)
    BY <1>6 DEF OneHome, InWorker
  <2> QED
    BY <1>1, <1>4, <1>5, <1>6, <2>1 DEF Queued
<1>7. ASSUME NEW b \in Buffers, b \notin ToSet(held[w])
      PROVE  /\ content'[b] = content[b]
             /\ b \in freeBuffers' <=> b \in freeBuffers
             /\ Queued(b)' <=> Queued(b)
  BY <1>1, <1>4, <1>5, <1>7 DEF Queued
<1>8. OneHome'
  <2>1. ASSUME NEW b \in Buffers
        PROVE  /\ InInput(b)' => pending' # b /\ ~InBatch(b)' /\ ~InOutput(b)' /\ ~InWorker(b)'
               /\ pending' = b => ~InBatch(b)' /\ ~InOutput(b)' /\ ~InWorker(b)'
               /\ InBatch(b)' => ~InOutput(b)' /\ ~InWorker(b)'
               /\ InOutput(b)' => ~InWorker(b)'
    BY <1>4, <1>5 DEF OneHome
  <2>2. ASSUME NEW b \in Buffers, NEW u \in Workers, NEW v \in Workers,
               b \in ToSet(held'[u]), b \in ToSet(held'[v])
        PROVE  u = v
    BY <1>2, <2>2, EmptySet DEF OneHome
  <2>3. ASSUME NEW v \in Workers PROVE IsInjective(held'[v])
    BY <1>2, EmptySet DEF OneHome
  <2> QED
    BY <2>1, <2>2, <2>3 DEF OneHome
<1> QED
  BY <1>2, <1>3, <1>6, <1>7, <1>8

LEMMA BuffersReleased ==
    ASSUME Inv, NEW w \in Workers, ReleaseBuffers(w),
           UNCHANGED <<inputChan, pending, batched, outputChan>>,
           \A b \in Buffers \ freeBuffers : b \notin ToSet(held[w]) =>
              status'[content[b].message] = status[content[b].message]
    PROVE  BuffersKept'
<1> USE DEF Inv
<1>1. ASSUME NEW b \in Buffers
      PROVE  /\ b \in freeBuffers' <=> content'[b] = None
             /\ Queued(b)' => b \notin freeBuffers'
             /\ b \notin freeBuffers' =>
                  /\ RawSize[content'[b].message] <= EntryCapacity
                  /\ content'[b].size \in PackedSizes[content'[b].message]
                  /\ status'[content'[b].message] = IF Queued(b)' THEN "accepted" ELSE "sending"
  <2>1. CASE b \in ToSet(held[w])
    BY <2>1, Released
  <2>2. CASE b \notin ToSet(held[w])
    <3>1. /\ content'[b] = content[b]
          /\ b \in freeBuffers' <=> b \in freeBuffers
          /\ Queued(b)' <=> Queued(b)
      BY <2>2, Released
    <3> QED
      BY <2>2, <3>1 DEF BuffersKept
  <2> QED
    BY <2>1, <2>2
<1>2. ASSUME NEW b \in Buffers \ freeBuffers', NEW c \in Buffers \ freeBuffers',
             content'[b].message = content'[c].message
      PROVE  b = c
  <2>1. /\ content'[b] = content[b] /\ b \notin freeBuffers
        /\ content'[c] = content[c] /\ c \notin freeBuffers
    BY Released
  <2> QED
    BY <1>2, <2>1 DEF BuffersKept
<1> QED
  BY <1>1, <1>2 DEF BuffersKept

LEMMA CompiledStep ==
    ASSUME Inv, NEW w \in Workers, Compiled(w)
    PROVE  Inv'
<1> USE DEF Inv, putVars, aggVars, workerVars, entryVars
<1>1. /\ wstate[w] = "compile" /\ compressed[w] = Len(held[w])
      /\ ReleaseBuffers(w)
      /\ wstate' = [wstate EXCEPT ![w] = "request"]
      /\ UNCHANGED <<status, aggVars, outputChan, compressed, records, entryVars, confirmed, doubtful,
                     closer>>
  BY DEF Compiled
<1>2. UNCHANGED <<inputChan, pending, batched, outputChan>>
  BY <1>1
<1>3. OneHome'
  BY <1>1, <1>2, Released
<1>4. BuffersKept'
  BY <1>1, <1>2, BuffersReleased
<1>5. ProducerTypeOK'
  <2>1. /\ content' \in [Buffers -> [message : Messages, size : Nat] \cup {None}]
        /\ freeBuffers' \subseteq Buffers
        /\ held' \in [Workers -> Seq(Buffers)]
    BY <1>1, <1>2, Released
  <2>2. wstate' \in [Workers -> WorkerStates]
    BY <1>1 DEF ProducerTypeOK, WorkerStates
  <2> QED
    BY <1>1, <2>1, <2>2 DEF ProducerTypeOK
<1>6. /\ wstate'[w] = "request"
      /\ \A v \in Workers : v # w => wstate'[v] = wstate[v]
  BY <1>1 DEF ProducerTypeOK
<1>7. EntriesKept' /\ \A v : Coded(v)' = Coded(v)
  BY <1>1, EntriesRest
<1>8. WorkersKept'
  <2> SUFFICES ASSUME NEW v \in Workers PROVE WorkerKept(v)'
    BY DEF WorkersKept
  <2>1. CASE v = w
    <3>1. held'[w] = <<>> /\ Coded(w)' = Coded(w) /\ status' = status
      BY <1>1, <1>2, <1>7, Released
    <3>2. ASSUME NEW m \in Coded(w) PROVE status[m] = "accepted"
      <4>1. PICK i \in 1..compressed[w] : i \in 1..Len(held[w]) /\ m = content[held[w][i]].message
        BY <1>1, HeldBuffers
      <4> QED
        BY <4>1, HeldBuffers
    <3>3. ASSUME NEW m \in Coded(w), NEW b \in Buffers \ freeBuffers', content'[b].message = m
          PROVE  FALSE
      <4>1. b \notin ToSet(held[w]) /\ content'[b] = content[b] /\ b \notin freeBuffers
        BY <1>1, <1>2, Released
      <4>2. \E i \in 1..compressed[w] : i \in 1..Len(held[w]) /\ b = held[w][i]
        BY <3>3, <4>1, CodedBuffers
      <4>3. b \in ToSet(held[w])
        BY <4>2, HeldBuffers
      <4> QED
        BY <4>1, <4>3
    <3> QED
      BY <1>6, <2>1, <3>1, <3>2, <3>3 DEF WorkerKept
  <2>2. CASE v # w
    <3>1. WorkerKept(v)
      BY DEF WorkersKept
    <3>2. wstate'[v] = wstate[v] /\ held'[v] = held[v] /\ compressed'[v] = compressed[v]
          /\ records'[v] = records[v] /\ Coded(v)' = Coded(v) /\ status' = status
      BY <1>1, <1>2, <1>6, <1>7, <2>2, Released
    <3>3. ASSUME NEW b \in ToSet(held[v]) PROVE content'[b] = content[b]
      <4>1. b \in Buffers /\ b \notin ToSet(held[w])
        BY <2>2, HeldBuffers
      <4> QED
        BY <1>1, <1>2, <4>1, Released
    <3>4. \A b \in Buffers \ freeBuffers' : b \notin freeBuffers /\ content'[b] = content[b]
      BY <1>1, <1>2, Released
    <3> QED
      BY <3>1, <3>2, <3>3, <3>4, WorkerRests
  <2> QED
    BY <2>1, <2>2
<1>9. NoneDropped'
  <2> SUFFICES ASSUME NEW m \in Messages, status[m] = "accepted"
               PROVE  \/ \E b \in Buffers \ freeBuffers' : content'[b].message = m
                      \/ \E v \in Workers : wstate'[v] = "request" /\ m \in Coded(v)
    BY <1>1, <1>7 DEF NoneDropped
  <2>1. CASE \E v \in Workers : wstate[v] = "request" /\ m \in Coded(v)
    BY <1>1, <1>6, <2>1
  <2>2. CASE \E b \in Buffers \ freeBuffers : content[b].message = m
    <3> PICK b \in Buffers \ freeBuffers : content[b].message = m
      BY <2>2
    <3>1. CASE b \notin ToSet(held[w])
      BY <1>1, <1>2, <3>1, Released
    <3>2. CASE b \in ToSet(held[w])
      <4>1. PICK i \in 1..Len(held[w]) : b = held[w][i]
        BY <3>2, HeldBuffers DEF ToSet
      <4>2. Coded(w) = {content[held[w][k]].message : k \in 1..Len(held[w])}
        BY <1>1 DEF WorkersKept, WorkerKept
      <4>3. m \in Coded(w)
        BY <4>1, <4>2
      <4> QED
        BY <1>6, <4>3
    <3> QED
      BY <3>1, <3>2
  <2> QED
    BY <2>1, <2>2 DEF NoneDropped
<1>10. Confirms'
  BY <1>1 DEF Confirms
<1>11. ClosedInOrder'
  BY <1>1, WorkersClose
<1> QED
  BY <1>3, <1>4, <1>5, <1>7, <1>8, <1>9, <1>10, <1>11

\* Some entries of a request go back to the pool, the others stay in it.
LEMMA Returned ==
    ASSUME Inv, NEW w \in Workers, NEW gone \in SUBSET ToSet(records[w]),
           NEW r \in Seq(Entries), IsInjective(r), ToSet(r) = ToSet(records[w]) \ gone,
           records' = [records EXCEPT ![w] = r],
           freeEntries' = freeEntries \cup gone,
           entryData' = [e \in Entries |-> IF e \in gone THEN <<>> ELSE entryData[e]]
    PROVE  /\ records' \in [Workers -> Seq(Entries)]
           /\ freeEntries' \subseteq Entries
           /\ entryData' \in [Entries -> Seq(Messages)]
           /\ EntriesKept'
           /\ records'[w] = r /\ \A v \in Workers : v # w => records'[v] = records[v]
           /\ \A v \in Workers : v # w => Coded(v)' = Coded(v)
           /\ Encoded(gone) \subseteq Coded(w)
           /\ Coded(w)' = Coded(w) \ Encoded(gone)
<1> USE DEF Inv
<1>1. ToSet(records[w]) \subseteq Entries /\ gone \subseteq Entries
  BY PipeTypes
<1>2. records'[w] = r /\ \A v \in Workers : v # w => records'[v] = records[v]
  BY DEF ProducerTypeOK
<1>3. /\ records' \in [Workers -> Seq(Entries)]
      /\ freeEntries' \subseteq Entries
      /\ entryData' \in [Entries -> Seq(Messages)]
  <2>1. records' \in [Workers -> Seq(Entries)]
    BY DEF ProducerTypeOK
  <2>2. freeEntries' \subseteq Entries
    BY <1>1 DEF ProducerTypeOK
  <2>3. <<>> \in Seq(Messages)
    OBVIOUS
  <2>4. entryData' \in [Entries -> Seq(Messages)]
    BY <2>3 DEF ProducerTypeOK
  <2> QED
    BY <2>1, <2>2, <2>4
<1>4. /\ \A e \in gone : entryData'[e] = <<>>
      /\ \A e \in Entries \ gone : entryData'[e] = entryData[e]
  BY <1>1
<1>5. \A v \in Workers : v # w => \A e \in ToSet(records[v]) : e \in Entries \ gone
  BY PipeTypes DEF EntriesKept
<1>6. EntriesKept'
  <2>1. ASSUME NEW e \in Entries
        PROVE  /\ e \in freeEntries' => entryData'[e] = <<>>
               /\ e \notin freeEntries' => \E v \in Workers : e \in ToSet(records'[v])
    <3>1. e \in freeEntries' => entryData'[e] = <<>>
      BY <1>4 DEF EntriesKept
    <3>2. ASSUME e \notin freeEntries' PROVE \E v \in Workers : e \in ToSet(records'[v])
      <4>1. e \notin freeEntries /\ e \notin gone
        BY <3>2
      <4>2. PICK v \in Workers : e \in ToSet(records[v])
        BY <4>1 DEF EntriesKept
      <4>3. CASE v = w
        BY <1>2, <4>1, <4>2, <4>3
      <4>4. CASE v # w
        BY <1>2, <4>2, <4>4
      <4> QED
        BY <4>3, <4>4
    <3> QED
      BY <3>1, <3>2
  <2>2. ASSUME NEW v \in Workers
        PROVE  /\ IsInjective(records'[v])
               /\ \A e \in ToSet(records'[v]) :
                     /\ e \notin freeEntries'
                     /\ \A u \in Workers : e \in ToSet(records'[u]) => u = v
    <3>1. \A u \in Workers : ToSet(records'[u]) \subseteq ToSet(records[u]) \ gone
      <4> TAKE u \in Workers
      <4>1. CASE u = w
        BY <1>2, <4>1
      <4>2. CASE u # w
        BY <1>2, <1>5, <4>2
      <4> QED
        BY <4>1, <4>2
    <3>2. IsInjective(records'[v])
      BY <1>2 DEF EntriesKept
    <3> QED
      BY <3>1, <3>2 DEF EntriesKept
  <2>3. ASSUME NEW e \in Entries, NEW f \in Entries, NEW i \in DOMAIN entryData'[e],
               NEW j \in DOMAIN entryData'[f], entryData'[e][i] = entryData'[f][j]
        PROVE  e = f /\ i = j
    <3>1. e \notin gone /\ f \notin gone
      BY <1>4
    <3>2. entryData'[e] = entryData[e] /\ entryData'[f] = entryData[f]
      BY <1>4, <3>1
    <3> QED
      BY <2>3, <3>2 DEF EntriesKept
  <2> QED
    BY <2>1, <2>2, <2>3 DEF EntriesKept
<1>7. \A v \in Workers : v # w => Coded(v)' = Coded(v)
  BY <1>2, <1>4, <1>5 DEF Coded, Encoded
<1>8. Encoded(gone) \subseteq Coded(w)
  BY DEF Coded, Encoded
<1>9. Coded(w)' = Coded(w) \ Encoded(gone)
  <2>1. ToSet(records'[w]) = ToSet(records[w]) \ gone
    BY <1>2
  <2>2. Coded(w)' = UNION {ToSet(entryData[e]) : e \in ToSet(records[w]) \ gone}
    BY <1>1, <1>4, <2>1 DEF Coded, Encoded
  <2>3. \A e, f \in Entries : e # f => ToSet(entryData[e]) \cap ToSet(entryData[f]) = {}
    BY Separate
  <2>4. ASSUME NEW e \in ToSet(records[w]) \ gone, NEW f \in gone, NEW m \in ToSet(entryData[e])
        PROVE  m \notin ToSet(entryData[f])
    BY <1>1, <2>3
  <2>5. ASSUME NEW m \in Coded(w)' PROVE m \in Coded(w) \ Encoded(gone)
    <3>1. PICK e \in ToSet(records[w]) \ gone : m \in ToSet(entryData[e])
      BY <2>2
    <3>2. m \in Coded(w)
      BY <3>1 DEF Coded, Encoded
    <3>3. \A f \in gone : m \notin ToSet(entryData[f])
      BY <2>4, <3>1
    <3> QED
      BY <3>2, <3>3 DEF Encoded
  <2>6. Coded(w) \ Encoded(gone) \subseteq Coded(w)'
    BY <2>2 DEF Coded, Encoded
  <2> QED
    BY <2>5, <2>6
<1> QED
  BY <1>2, <1>3, <1>6, <1>7, <1>8, <1>9

\* Protobuf refuses an entry: what was compiled and what was not is given up.
LEMMA CompileFailsStep ==
    ASSUME Inv, NEW w \in Workers, CompileFails(w)
    PROVE  Inv'
<1> USE DEF Inv, putVars, aggVars, workerVars, entryVars
<1> PICK M : M = ToSet(MessagesIn(held[w]))
  OBVIOUS
<1>1. /\ wstate[w] = "compile"
      /\ status' = Settled(M, "lost")
      /\ ReleaseBuffers(w) /\ ReleaseEntries(w)
      /\ wstate' = [wstate EXCEPT ![w] = "idle"]
      /\ UNCHANGED <<aggVars, outputChan, compressed, confirmed, doubtful, closer>>
  BY DEF CompileFails
<1>2. UNCHANGED <<inputChan, pending, batched, outputChan>>
  BY <1>1
<1>3. M = {content[held[w][i]].message : i \in 1..Len(held[w])}
  <2>1. DOMAIN held[w] = 1..Len(held[w])
    BY HeldBuffers
  <2> QED
    BY <2>1 DEF MessagesIn, ToSet
<1>4. \A m \in M : /\ m \in Messages /\ status[m] = "accepted"
                   /\ \E b \in ToSet(held[w]) : m = content[b].message
  BY <1>3, HeldBuffers
<1>5. \A m \in Messages : status'[m] = IF m \in M THEN "lost" ELSE status[m]
  BY <1>1 DEF Settled
<1>6. \A b \in Buffers \ freeBuffers : content[b].message \in M <=> b \in ToSet(held[w])
  <2> TAKE b \in Buffers \ freeBuffers
  <2>1. b \in ToSet(held[w]) => content[b].message \in M
    <3>1. DOMAIN held[w] = 1..Len(held[w])
      BY HeldBuffers
    <3> QED
      BY <1>3, <3>1 DEF ToSet
  <2>2. ASSUME content[b].message \in M PROVE b \in ToSet(held[w])
    <3>1. PICK d \in ToSet(held[w]) : content[b].message = content[d].message
      BY <1>4, <2>2
    <3>2. d \in Buffers \ freeBuffers
      BY HeldBuffers
    <3> QED
      BY <3>1, <3>2 DEF BuffersKept
  <2> QED
    BY <2>1, <2>2
<1>7. Coded(w) \subseteq M
  BY <1>1, <1>3, HeldBuffers
<1>8. /\ records' \in [Workers -> Seq(Entries)]
      /\ freeEntries' \subseteq Entries
      /\ entryData' \in [Entries -> Seq(Messages)]
      /\ EntriesKept'
      /\ records'[w] = <<>> /\ \A v \in Workers : v # w => records'[v] = records[v]
      /\ \A v \in Workers : v # w => Coded(v)' = Coded(v)
  <2> PICK gone, r : gone = ToSet(records[w]) /\ r = <<>>
    OBVIOUS
  <2>1. /\ gone \in SUBSET ToSet(records[w]) /\ r \in Seq(Entries)
        /\ IsInjective(r) /\ ToSet(r) = ToSet(records[w]) \ gone
    BY EmptySet
  <2>2. /\ records' = [records EXCEPT ![w] = r]
        /\ freeEntries' = freeEntries \cup gone
        /\ entryData' = [e \in Entries |-> IF e \in gone THEN <<>> ELSE entryData[e]]
    BY <1>1 DEF ReleaseEntries
  <2> QED
    BY <2>1, <2>2, Returned
<1>9. OneHome'
  BY <1>1, <1>2, Released
<1>10. BuffersKept'
  <2>1. \A b \in Buffers \ freeBuffers : b \notin ToSet(held[w]) =>
           status'[content[b].message] = status[content[b].message]
    BY <1>5, <1>6, InUse
  <2> QED
    BY <1>1, <1>2, <2>1, BuffersReleased
<1>11. /\ wstate'[w] = "idle"
       /\ \A v \in Workers : v # w => wstate'[v] = wstate[v]
  BY <1>1 DEF ProducerTypeOK
<1>12. ProducerTypeOK'
  <2>1. /\ content' \in [Buffers -> [message : Messages, size : Nat] \cup {None}]
        /\ freeBuffers' \subseteq Buffers
        /\ held' \in [Workers -> Seq(Buffers)]
    BY <1>1, <1>2, Released
  <2>2. wstate' \in [Workers -> WorkerStates]
    BY <1>1 DEF ProducerTypeOK, WorkerStates
  <2>3. status' \in [Messages -> PutStates]
    BY <1>1 DEF ProducerTypeOK, PutStates, Settled
  <2> QED
    BY <1>1, <1>8, <2>1, <2>2, <2>3 DEF ProducerTypeOK
<1>13. WorkersKept'
  <2> SUFFICES ASSUME NEW v \in Workers PROVE WorkerKept(v)'
    BY DEF WorkersKept
  <2>1. CASE v = w
    <3>1. held'[w] = <<>>
      BY <1>1, <1>2, Released
    <3> QED
      BY <1>8, <1>11, <2>1, <3>1 DEF WorkerKept
  <2>2. CASE v # w
    <3>1. WorkerKept(v)
      BY DEF WorkersKept
    <3>2. wstate'[v] = wstate[v] /\ held'[v] = held[v] /\ compressed'[v] = compressed[v]
          /\ records'[v] = records[v] /\ Coded(v)' = Coded(v)
      BY <1>1, <1>2, <1>8, <1>11, <2>2, Released
    <3>3. ASSUME NEW b \in ToSet(held[v]) PROVE content'[b] = content[b]
      <4>1. b \in Buffers /\ b \notin ToSet(held[w])
        BY <2>2, HeldBuffers
      <4> QED
        BY <1>1, <1>2, <4>1, Released
    <3>4. \A b \in Buffers \ freeBuffers' : b \notin freeBuffers /\ content'[b] = content[b]
      BY <1>1, <1>2, Released
    <3>5. ASSUME NEW m \in Coded(v), status[m] = "accepted" PROVE status'[m] = "accepted"
      <4>1. m \in Messages
        BY CodedTypes
      <4>2. m \notin M
        <5> SUFFICES ASSUME m \in M PROVE FALSE
          OBVIOUS
        <5>1. PICK b \in ToSet(held[w]) : m = content[b].message
          BY <1>4
        <5>2. b \in Buffers \ freeBuffers /\ b \notin ToSet(held[v])
          BY <2>2, <5>1, HeldBuffers
        <5>3. \E i \in 1..compressed[v] : i \in 1..Len(held[v]) /\ b = held[v][i]
          BY <5>1, <5>2, CodedBuffers
        <5>4. b \in ToSet(held[v])
          BY <5>3, HeldBuffers
        <5> QED
          BY <5>2, <5>4
      <4> QED
        BY <1>5, <3>5, <4>1, <4>2
    <3> QED
      BY <3>1, <3>2, <3>3, <3>4, <3>5, WorkerRests
  <2> QED
    BY <2>1, <2>2
<1>14. NoneDropped'
  <2> SUFFICES ASSUME NEW m \in Messages, status'[m] = "accepted"
               PROVE  \/ \E b \in Buffers \ freeBuffers' : content'[b].message = m
                      \/ \E v \in Workers : wstate'[v] = "request" /\ m \in Coded(v)'
    BY DEF NoneDropped
  <2>1. status[m] = "accepted" /\ m \notin M
    BY <1>5
  <2>2. CASE \E v \in Workers : wstate[v] = "request" /\ m \in Coded(v)
    <3>1. PICK v \in Workers : wstate[v] = "request" /\ m \in Coded(v)
      BY <2>2
    <3>2. v # w
      BY <1>1, <3>1
    <3> QED
      BY <1>8, <1>11, <3>1, <3>2
  <2>3. CASE \E b \in Buffers \ freeBuffers : content[b].message = m
    <3>1. PICK b \in Buffers \ freeBuffers : content[b].message = m
      BY <2>3
    <3>2. b \notin ToSet(held[w])
      BY <1>6, <2>1, <3>1
    <3>3. b \in Buffers \ freeBuffers' /\ content'[b].message = m
      BY <1>1, <1>2, <3>1, <3>2, Released
    <3> QED
      BY <3>3
  <2> QED
    BY <2>1, <2>2, <2>3 DEF NoneDropped
<1>15. Confirms'
  <2>1. confirmed' = confirmed /\ doubtful' = doubtful /\ doubtful \subseteq Messages
    BY <1>1 DEF ProducerTypeOK
  <2>2. \A m \in Messages : (status'[m] = "delivered" <=> status[m] = "delivered")
    BY <1>4, <1>5
  <2>3. ASSUME NEW m \in doubtful PROVE status'[m] \in {"accepted", "delivered", "lost"}
    BY <1>5, <2>1, <2>3 DEF Confirms
  <2> QED
    BY <2>1, <2>2, <2>3 DEF Confirms
<1>16. ClosedInOrder'
  <2>1. \A m \in Messages : status'[m] = "sending" => status[m] = "sending"
    BY <1>5
  <2> QED
    BY <1>1, <2>1, WorkersClose
<1> QED
  BY <1>8, <1>9, <1>10, <1>12, <1>13, <1>14, <1>15, <1>16

(***************************************************************************)
(* Kinesis answers: some entries of the request leave it, and what they    *)
(* hold is settled; the worker keeps the request, or nothing is left of it.*)
(***************************************************************************)
LEMMA AnsweredStep ==
    ASSUME Inv, NEW w \in Workers, wstate[w] = "request",
           NEW gone \in SUBSET ToSet(records[w]),
           NEW r \in Seq(Entries), IsInjective(r), ToSet(r) = ToSet(records[w]) \ gone,
           records' = [records EXCEPT ![w] = r],
           freeEntries' = freeEntries \cup gone,
           entryData' = [e \in Entries |-> IF e \in gone THEN <<>> ELSE entryData[e]],
           NEW fate \in {"delivered", "lost"}, status' = Settled(Encoded(gone), fate),
           \/ fate = "delivered" /\ confirmed' = Confirmed(gone) /\ doubtful' = doubtful
           \/ /\ fate = "lost" /\ confirmed' = confirmed
              /\ \E arrived \in SUBSET gone : doubtful' = doubtful \cup Encoded(arrived),
           \/ wstate' = wstate
           \/ wstate' = [wstate EXCEPT ![w] = "idle"] /\ r = <<>>,
           UNCHANGED <<content, freeBuffers, aggVars, outputChan, held, compressed, closer>>
    PROVE  Inv'
<1> USE DEF Inv, putVars, aggVars, workerVars, entryVars
<1> PICK M : M = Encoded(gone)
  OBVIOUS
<1>1. /\ records' \in [Workers -> Seq(Entries)]
      /\ freeEntries' \subseteq Entries
      /\ entryData' \in [Entries -> Seq(Messages)]
      /\ EntriesKept'
      /\ records'[w] = r /\ \A v \in Workers : v # w => records'[v] = records[v]
      /\ \A v \in Workers : v # w => Coded(v)' = Coded(v)
      /\ M \subseteq Coded(w)
      /\ Coded(w)' = Coded(w) \ M
  BY Returned
<1>2. ASSUME NEW m \in M
      PROVE  /\ m \in Messages /\ status[m] = "accepted"
             /\ \A b \in Buffers \ freeBuffers : content[b].message # m
  BY <1>1, CodedTypes DEF WorkersKept, WorkerKept
<1>3. \A m \in Messages : status'[m] = IF m \in M THEN fate ELSE status[m]
  BY DEF Settled
<1>4. /\ wstate' \in [Workers -> WorkerStates]
      /\ \A v \in Workers : v # w => wstate'[v] = wstate[v]
      /\ wstate'[w] = "request" \/ (wstate'[w] = "idle" /\ r = <<>>)
  BY DEF ProducerTypeOK, WorkerStates
<1>5. /\ \A m \in Messages : confirmed'[m] = confirmed[m] + IF m \in M /\ fate = "delivered" THEN 1 ELSE 0
      /\ confirmed' \in [Messages -> Nat]
      /\ doubtful \subseteq doubtful' /\ \A m \in doubtful' : m \in doubtful \/ (m \in M /\ fate = "lost")
  <2>1. confirmed \in [Messages -> Nat]
    BY DEF ProducerTypeOK
  <2>2. CASE fate = "delivered" /\ confirmed' = Confirmed(gone) /\ doubtful' = doubtful
    <3>1. confirmed' = [m \in Messages |-> confirmed[m] + IF m \in M THEN 1 ELSE 0]
      BY <2>2 DEF Confirmed
    <3>2. \A m \in Messages : (confirmed[m] + IF m \in M THEN 1 ELSE 0) \in Nat
      BY <2>1
    <3> QED
      BY <2>1, <2>2, <3>1, <3>2
  <2>3. CASE /\ fate = "lost" /\ confirmed' = confirmed
             /\ \E arrived \in SUBSET gone : doubtful' = doubtful \cup Encoded(arrived)
    <3>1. PICK arrived \in SUBSET gone : doubtful' = doubtful \cup Encoded(arrived)
      BY <2>3
    <3>2. Encoded(arrived) \subseteq M
      BY DEF Encoded
    <3>3. \A m \in Messages : confirmed[m] + 0 = confirmed[m]
      BY <2>1
    <3> QED
      BY <2>1, <2>3, <3>1, <3>2, <3>3
  <2> QED
    BY <2>2, <2>3
<1>6. ProducerTypeOK'
  <2>1. status' \in [Messages -> PutStates]
    BY DEF ProducerTypeOK, PutStates, Settled
  <2>2. confirmed' \in [Messages -> Nat] /\ doubtful' \subseteq Messages
    BY <1>2, <1>5 DEF ProducerTypeOK
  <2> QED
    BY <1>1, <1>4, <2>1, <2>2 DEF ProducerTypeOK
<1>7. OneHome' /\ \A b : Queued(b)' = Queued(b)
  BY PipeRests
<1>8. BuffersKept'
  <2>1. \A b \in Buffers \ freeBuffers : status'[content[b].message] = status[content[b].message]
    BY <1>2, <1>3, InUse
  <2> QED
    BY <1>7, <2>1 DEF BuffersKept
<1>9. WorkersKept'
  <2> SUFFICES ASSUME NEW v \in Workers PROVE WorkerKept(v)'
    BY DEF WorkersKept
  <2>1. CASE v = w
    <3>1. held'[w] = <<>>
      BY DEF WorkersKept, WorkerKept
    <3>2. ASSUME NEW m \in Coded(w)'
          PROVE  /\ status'[m] = "accepted"
                 /\ \A b \in Buffers \ freeBuffers' : content'[b].message # m
      <4>1. m \in Coded(w) /\ m \notin M /\ m \in Messages
        BY <1>1, CodedTypes
      <4>2. status[m] = "accepted" /\ \A b \in Buffers \ freeBuffers : content[b].message # m
        BY <4>1 DEF WorkersKept, WorkerKept
      <4> QED
        BY <1>3, <4>1, <4>2
    <3> QED
      BY <1>1, <1>4, <2>1, <3>1, <3>2 DEF WorkerKept
  <2>2. CASE v # w
    <3>1. WorkerKept(v)
      BY DEF WorkersKept
    <3>2. /\ wstate'[v] = wstate[v] /\ records'[v] = records[v] /\ Coded(v)' = Coded(v)
          /\ UNCHANGED <<content, freeBuffers, held, compressed>>
      BY <1>1, <1>4, <2>2
    <3>3. \A m \in Coded(v) : status[m] = "accepted" => status'[m] = "accepted"
      <4>1. Coded(v) \cap Coded(w) = {}
        BY <2>2, Separate
      <4> QED
        BY <1>1, <1>3, <4>1, CodedTypes
    <3> QED
      BY <3>1, <3>2, <3>3, WorkerRests
  <2> QED
    BY <2>1, <2>2
<1>10. NoneDropped'
  <2> SUFFICES ASSUME NEW m \in Messages, status'[m] = "accepted"
               PROVE  \/ \E b \in Buffers \ freeBuffers : content[b].message = m
                      \/ \E v \in Workers : wstate'[v] = "request" /\ m \in Coded(v)'
    BY DEF NoneDropped
  <2>1. status[m] = "accepted" /\ m \notin M
    BY <1>3
  <2>2. CASE \E v \in Workers : wstate[v] = "request" /\ m \in Coded(v)
    <3>1. PICK v \in Workers : wstate[v] = "request" /\ m \in Coded(v)
      BY <2>2
    <3>2. CASE v = w
      <4>1. m \in Coded(w)'
        BY <1>1, <2>1, <3>1, <3>2
      <4>2. r # <<>>
        BY <1>1, <4>1, EmptySet DEF Coded, Encoded
      <4> QED
        BY <1>4, <4>1, <4>2
    <3>3. CASE v # w
      BY <1>1, <1>4, <3>1, <3>3
    <3> QED
      BY <3>2, <3>3
  <2> QED
    BY <2>1, <2>2 DEF NoneDropped
<1>11. Confirms'
  <2>1. ASSUME NEW m \in Messages
        PROVE  confirmed'[m] = IF status'[m] = "delivered" THEN 1 ELSE 0
    <3>1. confirmed[m] = IF status[m] = "delivered" THEN 1 ELSE 0
      BY DEF Confirms
    <3>2. CASE m \in M
      <4>1. confirmed[m] = 0 /\ status'[m] = fate
        BY <1>2, <1>3, <3>1, <3>2
      <4> QED
        BY <1>5, <3>2, <4>1
    <3>3. CASE m \notin M
      <4>1. confirmed'[m] = confirmed[m] + 0 /\ status'[m] = status[m]
        BY <1>3, <1>5, <3>3
      <4> QED
        BY <3>1, <4>1
    <3> QED
      BY <3>2, <3>3
  <2>2. ASSUME NEW m \in doubtful' PROVE status'[m] \in {"accepted", "delivered", "lost"}
    <3>1. m \in Messages
      BY <1>6 DEF ProducerTypeOK
    <3>2. CASE m \in M
      BY <1>3, <3>1, <3>2
    <3>3. CASE m \notin M
      BY <1>3, <1>5, <3>1, <3>3 DEF Confirms
    <3> QED
      BY <3>2, <3>3
  <2> QED
    BY <2>1, <2>2 DEF Confirms
<1>12. ClosedInOrder'
  <2>1. \A m \in Messages : status'[m] = "sending" => status[m] = "sending"
    BY <1>3
  <2>2. CASE wstate' = wstate
    BY <2>1, <2>2 DEF ClosedInOrder, InputClosed, OutputClosed
  <2>3. CASE wstate' = [wstate EXCEPT ![w] = "idle"]
    BY <2>1, <2>3, WorkersClose
  <2> QED
    BY <2>2, <2>3
<1> QED
  BY <1>1, <1>6, <1>7, <1>8, <1>9, <1>10, <1>11, <1>12

\* The whole request is settled.
LEMMA RequestEndsStep ==
    ASSUME Inv, NEW w \in Workers,
           RequestStored(w) \/ \E arrived \in SUBSET Entries : RequestFails(w, arrived)
    PROVE  Inv'
<1> PICK gone, r : gone = ToSet(records[w]) /\ r = <<>>
  OBVIOUS
<1>1. /\ gone \in SUBSET ToSet(records[w]) /\ r \in Seq(Entries)
      /\ IsInjective(r) /\ ToSet(r) = ToSet(records[w]) \ gone
  BY EmptySet
<1>2. /\ wstate[w] = "request"
      /\ ReleaseEntries(w)
      /\ wstate' = [wstate EXCEPT ![w] = "idle"]
      /\ UNCHANGED <<content, freeBuffers, aggVars, outputChan, held, compressed, closer>>
  BY DEF RequestStored, RequestFails
<1>3. /\ records' = [records EXCEPT ![w] = r]
      /\ freeEntries' = freeEntries \cup gone
      /\ entryData' = [e \in Entries |-> IF e \in gone THEN <<>> ELSE entryData[e]]
  BY <1>2 DEF ReleaseEntries
<1>5. PICK fate \in {"delivered", "lost"} : status' = Settled(Encoded(gone), fate) /\
         \/ fate = "delivered" /\ confirmed' = Confirmed(gone) /\ doubtful' = doubtful
         \/ /\ fate = "lost" /\ confirmed' = confirmed
            /\ \E arrived \in SUBSET gone : doubtful' = doubtful \cup Encoded(arrived)
  <2>1. CASE RequestStored(w)
    BY <2>1 DEF RequestStored
  <2>2. CASE \E arrived \in SUBSET Entries : RequestFails(w, arrived)
    BY <2>2 DEF RequestFails
  <2> QED
    BY <2>1, <2>2
<1> QED
  BY <1>1, <1>2, <1>3, <1>5, AnsweredStep

\* Messages that Kinesis has stored without an answer are still under way.
LEMMA RequestResentStep ==
    ASSUME Inv, NEW w \in Workers, NEW arrived, RequestResent(w, arrived)
    PROVE  Inv'
<1> USE DEF Inv, putVars, aggVars, workerVars, entryVars
<1>1. /\ wstate[w] = "request" /\ arrived \subseteq ToSet(records[w])
      /\ doubtful' = doubtful \cup Encoded(arrived)
      /\ UNCHANGED <<putVars, aggVars, outputChan, workerVars, entryVars, confirmed, closer>>
  BY DEF RequestResent
<1>2. \A m \in Encoded(arrived) : m \in Messages /\ status[m] = "accepted"
  <2>1. Encoded(arrived) \subseteq Coded(w)
    BY <1>1 DEF Coded, Encoded
  <2> QED
    BY <1>1, <2>1, CodedTypes DEF WorkersKept, WorkerKept
<1>3. ProducerTypeOK' /\ Confirms' /\ ClosedInOrder'
  <2>1. ProducerTypeOK'
    BY <1>1, <1>2 DEF ProducerTypeOK
  <2>2. Confirms'
    BY <1>1, <1>2 DEF Confirms
  <2>3. ClosedInOrder'
    BY <1>1 DEF ClosedInOrder, InputClosed, OutputClosed
  <2> QED
    BY <2>1, <2>2, <2>3
<1>4. OneHome' /\ \A b : Queued(b)' = Queued(b)
  BY <1>1, PipeRests
<1>5. BuffersKept' /\ EntriesKept' /\ WorkersKept' /\ NoneDropped'
  BY <1>1, <1>4, BuffersRest, EntriesRest, WorkersRest, MessagesRest
<1> QED
  BY <1>3, <1>4, <1>5

\* What is sent again is what failed.
LEMMA RequestPartlyStoredStep ==
    ASSUME Inv, NEW w \in Workers, NEW failed, RequestPartlyStored(w, failed)
    PROVE  Inv'
<1> PICK s, r : s = records[w] /\ r = Failures(records[w], failed)
  OBVIOUS
<1> PICK gone : gone = ToSet(s) \ {s[i] : i \in failed}
  OBVIOUS
<1>1. /\ wstate[w] = "request" /\ failed \subseteq DOMAIN s
      /\ confirmed' = Confirmed(gone) /\ doubtful' = doubtful
      /\ status' = Settled(Encoded(gone), "delivered")
      /\ records' = [records EXCEPT ![w] = r]
      /\ freeEntries' = freeEntries \cup gone
      /\ entryData' = [e \in Entries |-> IF e \in gone THEN <<>> ELSE entryData[e]]
      /\ UNCHANGED <<content, freeBuffers, aggVars, outputChan, wstate, held, compressed,
                     closer>>
  BY DEF RequestPartlyStored
<1>2. s \in Seq(Entries) /\ IsInjective(s)
  BY DEF Inv, ProducerTypeOK, EntriesKept
<1>3. r \in Seq(Entries) /\ ToSet(r) = {s[i] : i \in failed} /\ IsInjective(r)
  BY <1>1, <1>2, FailuresSet
<1>4. {s[i] : i \in failed} \subseteq ToSet(s)
  BY <1>1 DEF ToSet
<1>5. gone \in SUBSET ToSet(records[w]) /\ ToSet(r) = ToSet(records[w]) \ gone
  BY <1>3, <1>4
<1> QED
  BY <1>1, <1>3, <1>5, AnsweredStep

LEMMA WorkerEndsStep ==
    ASSUME Inv, NEW w \in Workers, WorkerEnds(w)
    PROVE  Inv'
<1> USE DEF Inv, putVars, aggVars, workerVars, entryVars
<1>1. /\ wstate[w] = "idle" /\ outputChan = <<>> /\ OutputClosed
      /\ wstate' = [wstate EXCEPT ![w] = "ended"]
      /\ UNCHANGED <<putVars, aggVars, outputChan, held, compressed, records, entryVars,
                     confirmed, doubtful, closer>>
  BY DEF WorkerEnds
<1>2. /\ wstate'[w] = "ended"
      /\ \A v \in Workers : v # w => wstate'[v] = wstate[v]
      /\ wstate' \in [Workers -> WorkerStates]
  BY <1>1 DEF ProducerTypeOK, WorkerStates
<1>3. ProducerTypeOK'
  BY <1>1, <1>2 DEF ProducerTypeOK
<1>4. OneHome' /\ \A b : Queued(b)' = Queued(b)
  BY <1>1, PipeRests
<1>5. BuffersKept'
  BY <1>1, <1>4, BuffersRest
<1>6. EntriesKept' /\ \A v : Coded(v)' = Coded(v)
  BY <1>1, EntriesRest
<1>7. WorkersKept'
  <2> SUFFICES ASSUME NEW v \in Workers PROVE WorkerKept(v)'
    BY DEF WorkersKept
  <2>1. WorkerKept(v) /\ Coded(v)' = Coded(v)
    BY <1>6 DEF WorkersKept
  <2>2. UNCHANGED <<putVars, held, compressed, records>>
    BY <1>1
  <2>3. CASE v = w
    BY <1>1, <1>2, <2>1, <2>2, <2>3 DEF WorkerKept
  <2>4. CASE v # w
    <3>1. wstate'[v] = wstate[v]
      BY <1>2, <2>4
    <3> QED
      BY <2>1, <2>2, <3>1, WorkerRests
  <2> QED
    BY <2>3, <2>4
<1>8. NoneDropped'
  BY <1>1, <1>2, <1>6 DEF NoneDropped
<1>9. Confirms'
  BY <1>1 DEF Confirms
<1>10. ClosedInOrder'
  BY <1>1, <1>2 DEF ClosedInOrder, InputClosed, OutputClosed
<1> QED
  BY <1>3, <1>4, <1>5, <1>6, <1>7, <1>8, <1>9, <1>10

-----------------------------------------------------------------------------
(***************************************************************************)
(* The invariant.                                                          *)
(***************************************************************************)
LEMMA InitInv == ProducerInit => Inv
<1> SUFFICES ASSUME ProducerInit PROVE Inv
  OBVIOUS
<1> USE DEF ProducerInit
<1>1. ProducerTypeOK
  <2>1. /\ inputBufferSize \in Nat /\ outputBufferSize \in Nat /\ Len(<<>>) = 0
        /\ <<>> \in Seq(Buffers) /\ <<>> \in Seq(Seq(Buffers)) /\ <<>> \in Seq(Entries)
        /\ <<>> \in Seq(Messages)
    BY ProducerAssumption
  <2>2. batch \in [totalMessageSize : Nat, entryMessageSize : Nat, entryNumber : Nat]
    BY DEF EmptyBatch
  <2>3. /\ inputChan \in Seq(Buffers) /\ Len(inputChan) <= inputBufferSize
        /\ batched \in Seq(Buffers)
        /\ outputChan \in Seq(Seq(Buffers)) /\ Len(outputChan) <= outputBufferSize
    BY <2>1
  <2>4. /\ held \in [Workers -> Seq(Buffers)]
        /\ records \in [Workers -> Seq(Entries)]
        /\ entryData \in [Entries -> Seq(Messages)]
    BY <2>1
  <2>5. /\ wstate \in [Workers -> WorkerStates]
        /\ status \in [Messages -> PutStates]
        /\ agg \in AggStates /\ closer \in CloseStates
    BY DEF PutStates, AggStates, WorkerStates, CloseStates
  <2>6. /\ compressed \in [Workers -> Nat]
        /\ confirmed \in [Messages -> Nat] /\ doubtful \subseteq Messages
        /\ content \in [Buffers -> [message : Messages, size : Nat] \cup {None}]
        /\ pending \in Buffers \cup {None} /\ tick \in BOOLEAN
        /\ freeBuffers \subseteq Buffers /\ freeEntries \subseteq Entries
    OBVIOUS
  <2> QED
    BY ONLY <2>2, <2>3, <2>4, <2>5, <2>6 DEF ProducerTypeOK
<1>2. /\ DOMAIN outputChan = {}
      /\ \A b \in Buffers : ~Queued(b)
  BY EmptySet, ProducerAssumption DEF Queued, InInput, InBatch, InOutput, InWorker
<1>3. OneHome
  <2>1. \A b \in Buffers : ~InInput(b) /\ pending # b /\ ~InBatch(b) /\ ~InOutput(b) /\ ~InWorker(b)
    BY <1>2 DEF Queued
  <2> QED
    BY <1>2, <2>1, EmptySet DEF OneHome
<1>4. BuffersKept
  BY <1>2 DEF BuffersKept
<1>5. EntriesKept
  <2>1. \A e \in Entries : DOMAIN entryData[e] = {}
    OBVIOUS
  <2> QED
    BY <2>1, EmptySet DEF EntriesKept
<1>6. WorkersKept
  BY DEF WorkersKept, WorkerKept
<1>7. NoneDropped /\ Confirms
  BY DEF NoneDropped, Confirms
<1>8. ClosedInOrder
  BY DEF ClosedInOrder, InputClosed, OutputClosed
<1> QED
  BY <1>1, <1>3, <1>4, <1>5, <1>6, <1>7, <1>8 DEF Inv

LEMMA StutterStep ==
    ASSUME Inv, UNCHANGED producerVars
    PROVE  Inv'
<1> USE DEF Inv, producerVars, putVars, aggVars, workerVars, entryVars
<1>1. ProducerTypeOK' /\ Confirms' /\ ClosedInOrder'
  BY DEF ProducerTypeOK, Confirms, ClosedInOrder, InputClosed, OutputClosed
<1>2. OneHome' /\ \A b : Queued(b)' = Queued(b)
  BY PipeRests
<1>3. BuffersKept' /\ EntriesKept' /\ WorkersKept' /\ NoneDropped'
  BY <1>2, BuffersRest, EntriesRest, WorkersRest, MessagesRest
<1> QED
  BY <1>1, <1>2, <1>3

LEMMA StepInv == Inv /\ [ProducerNext]_producerVars => Inv'
<1> SUFFICES ASSUME Inv, [ProducerNext]_producerVars PROVE Inv'
  OBVIOUS
<1>1. ASSUME NEW m \in Messages, PutRejected(m) PROVE Inv'
  BY <1>1, PutRejectedStep
<1>2. ASSUME NEW m \in Messages, NEW b \in Buffers, NEW size \in PackedSizes[m],
             PutPacks(m, b, size)
      PROVE  Inv'
  BY <1>2, PutPacksStep
<1>3. ASSUME NEW m \in Messages, NEW b \in Buffers, PutSends(m, b) PROVE Inv'
  BY <1>3, PutSendsStep
<1>4. CASE Aggregator
  BY <1>4, AggReceivesStep, AggDrainsStep, AggSendsStep, TickStep DEF Aggregator
<1>5. CASE Tick
  BY <1>5, TickStep
<1>6. ASSUME NEW w \in Workers, WorkerStep(w) PROVE Inv'
  <2>1. CASE TakeBatch(w)
    BY <2>1, TakeBatchStep
  <2>2. CASE CompileEntry(w)
    BY <2>2, CompileEntryStep
  <2>3. CASE CompileFails(w)
    BY <2>3, CompileFailsStep
  <2>4. CASE Compiled(w)
    BY <2>4, CompiledStep
  <2>5. CASE RequestStored(w) \/ \E arrived \in SUBSET Entries : RequestFails(w, arrived)
    BY <2>5, RequestEndsStep
  <2>8. CASE \E arrived \in SUBSET Entries : RequestResent(w, arrived)
    BY <2>8, RequestResentStep
  <2>6. ASSUME NEW failed \in SUBSET (1..Cardinality(Entries)), RequestPartlyStored(w, failed)
        PROVE  Inv'
    BY <2>6, RequestPartlyStoredStep
  <2>7. CASE WorkerEnds(w)
    BY <2>7, WorkerEndsStep
  <2> QED
    BY <1>6, <2>1, <2>2, <2>3, <2>4, <2>5, <2>6, <2>7, <2>8 DEF WorkerStep
<1>7. CASE CloseInput \/ CloseOutput \/ CloseReturns
  BY <1>7, CloseStep
<1>8. CASE ProducerEnded \/ UNCHANGED producerVars
  BY <1>8, StutterStep DEF ProducerEnded
<1> QED
  BY <1>1, <1>2, <1>3, <1>4, <1>5, <1>6, <1>7, <1>8 DEF ProducerNext

(***************************************************************************)
(* Wherever a message goes, its buffer is in one part of the pipeline or   *)
(* back in the pool, its entry in one request, and Close() finds the parts *)
(* empty in their order (producer.go, flush.go, batch_compiler.go).        *)
(***************************************************************************)
THEOREM ProducerInvariant == ProducerSafe => []Inv
BY InitInv, StepInv, PTL DEF ProducerSafe

\* The state of the producer keeps its type: no channel exceeds its capacity.
THEOREM TypeCorrect == ProducerSafe => []ProducerTypeOK
<1>1. Inv => ProducerTypeOK
  BY DEF Inv
<1> QED
  BY <1>1, ProducerInvariant, PTL

(***************************************************************************)
(* Kinesis confirms each delivered message once and no other, whatever it  *)
(* fails and however often a request is sent again, by sendRequest() or    *)
(* inside the SDK (failures(), flush.go); what is sent is not yet settled. *)
(***************************************************************************)
THEOREM AlwaysConfirmedOnce == ProducerSafe => []ConfirmedOnce
<1>1. Inv => ConfirmedOnce
  <2> SUFFICES ASSUME Inv PROVE ConfirmedOnce
    OBVIOUS
  <2>1. ASSUME NEW w \in Workers, wstate[w] = "request", NEW m \in Encoded(ToSet(records[w]))
        PROVE  status[m] = "accepted"
    <3>1. m \in Coded(w)
      BY <2>1 DEF Coded
    <3> QED
      BY <2>1, <3>1 DEF Inv, WorkersKept, WorkerKept
  <2> QED
    BY <2>1 DEF Inv, Confirms, ConfirmedOnce
<1> QED
  BY <1>1, ProducerInvariant, PTL

-----------------------------------------------------------------------------
(***************************************************************************)
(* Where a message is.                                                     *)
(***************************************************************************)
\* x is a place of a buffer of the pipeline, what is compiled left out.
BufferPlace(b, x) ==
    \/ \E i \in DOMAIN inputChan : inputChan[i] = b /\ x = <<"input", i>>
    \/ pending = b /\ x = <<"pending", 1>>
    \/ \E i \in DOMAIN batched : batched[i] = b /\ x = <<"batch", i>>
    \/ \E i \in DOMAIN outputChan : \E j \in DOMAIN outputChan[i] :
          outputChan[i][j] = b /\ x = <<<<"output", i>>, j>>
    \/ \E w \in Workers : \E i \in DOMAIN held[w] :
          /\ i > compressed[w] /\ held[w][i] = b
          /\ x = <<<<"worker", w>>, i - compressed[w]>>

\* x is a place of a message in a request.
RequestPlace(m, x) ==
    \E w \in Workers : \E k \in DOMAIN records[w] : \E j \in DOMAIN entryData[records[w][k]] :
        entryData[records[w][k]][j] = m /\ x = <<<<"request", w, k>>, j>>

\* m is in a buffer that no worker has compiled.
Waits(m, b) ==
    /\ b \in Buffers \ freeBuffers
    /\ content[b].message = m
    /\ \A w \in Workers : m \notin Coded(w)

\* A buffer of the pipeline has one place, unless it is compiled.
LEMMA OneBufferPlace ==
    ASSUME Inv, NEW b \in Buffers
    PROVE  /\ \A x, y : BufferPlace(b, x) /\ BufferPlace(b, y) => x = y
           /\ \A x : BufferPlace(b, x) => Queued(b)
<1> USE DEF Inv
<1>1. /\ \A i \in DOMAIN inputChan : inputChan[i] = b => InInput(b)
      /\ \A i \in DOMAIN batched : batched[i] = b => InBatch(b)
      /\ \A i \in DOMAIN outputChan : \A j \in DOMAIN outputChan[i] :
            outputChan[i][j] = b => InOutput(b) /\ b \in ToSet(outputChan[i])
      /\ \A w \in Workers : \A i \in DOMAIN held[w] :
            held[w][i] = b => InWorker(b) /\ b \in ToSet(held[w])
  BY DEF InInput, InBatch, InOutput, InWorker, ToSet
<1>2. \A x : BufferPlace(b, x) => Queued(b)
  BY <1>1 DEF BufferPlace, Queued
<1>3. ASSUME NEW x, NEW y, BufferPlace(b, x), BufferPlace(b, y) PROVE x = y
  <2>1. CASE InInput(b)
    <3>1. pending # b /\ ~InBatch(b) /\ ~InOutput(b) /\ ~InWorker(b)
      BY <2>1 DEF OneHome
    <3>2. PICK i \in DOMAIN inputChan : inputChan[i] = b /\ x = <<"input", i>>
      BY <1>1, <1>3, <3>1 DEF BufferPlace
    <3>3. PICK j \in DOMAIN inputChan : inputChan[j] = b /\ y = <<"input", j>>
      BY <1>1, <1>3, <3>1 DEF BufferPlace
    <3> QED
      BY <3>2, <3>3 DEF OneHome, IsInjective
  <2>2. CASE pending = b
    <3>1. ~InInput(b) /\ ~InBatch(b) /\ ~InOutput(b) /\ ~InWorker(b)
      BY <2>2 DEF OneHome
    <3> QED
      BY <1>1, <1>3, <3>1 DEF BufferPlace
  <2>3. CASE InBatch(b)
    <3>1. ~InInput(b) /\ pending # b /\ ~InOutput(b) /\ ~InWorker(b)
      BY <2>3 DEF OneHome
    <3>2. PICK i \in DOMAIN batched : batched[i] = b /\ x = <<"batch", i>>
      BY <1>1, <1>3, <3>1 DEF BufferPlace
    <3>3. PICK j \in DOMAIN batched : batched[j] = b /\ y = <<"batch", j>>
      BY <1>1, <1>3, <3>1 DEF BufferPlace
    <3> QED
      BY <3>2, <3>3 DEF OneHome, IsInjective
  <2>4. CASE InOutput(b)
    <3>1. ~InInput(b) /\ pending # b /\ ~InBatch(b) /\ ~InWorker(b)
      BY <2>4 DEF OneHome
    <3>2. PICK i, j :
             /\ i \in DOMAIN outputChan /\ j \in DOMAIN outputChan[i]
             /\ outputChan[i][j] = b /\ x = <<<<"output", i>>, j>>
      BY <1>1, <1>3, <3>1 DEF BufferPlace
    <3>3. PICK k, l :
             /\ k \in DOMAIN outputChan /\ l \in DOMAIN outputChan[k]
             /\ outputChan[k][l] = b /\ y = <<<<"output", k>>, l>>
      BY <1>1, <1>3, <3>1 DEF BufferPlace
    <3>4. i = k
      BY <1>1, <3>2, <3>3 DEF OneHome
    <3>5. j = l
      BY <3>2, <3>3, <3>4 DEF OneHome, IsInjective
    <3> QED
      BY <3>2, <3>3, <3>4, <3>5
  <2>5. CASE InWorker(b)
    <3>1. ~InInput(b) /\ pending # b /\ ~InBatch(b) /\ ~InOutput(b)
      BY <2>5 DEF OneHome
    <3>2. PICK v, i :
             /\ v \in Workers /\ i \in DOMAIN held[v]
             /\ held[v][i] = b /\ x = <<<<"worker", v>>, i - compressed[v]>>
      BY <1>1, <1>3, <3>1 DEF BufferPlace
    <3>3. PICK w, j :
             /\ w \in Workers /\ j \in DOMAIN held[w]
             /\ held[w][j] = b /\ y = <<<<"worker", w>>, j - compressed[w]>>
      BY <1>1, <1>3, <3>1 DEF BufferPlace
    <3>4. v = w
      BY <1>1, <3>2, <3>3 DEF OneHome
    <3>5. i = j
      BY <3>2, <3>3, <3>4 DEF OneHome, IsInjective
    <3> QED
      BY <3>2, <3>3, <3>4, <3>5
  <2> QED
    BY <1>2, <1>3, <2>1, <2>2, <2>3, <2>4, <2>5 DEF Queued
<1> QED
  BY <1>2, <1>3

\* What waits in a queued buffer has a place.
LEMMA SomeBufferPlace ==
    ASSUME Inv, NEW m \in Messages, NEW b, Waits(m, b), Queued(b)
    PROVE  \E x : BufferPlace(b, x)
<1> USE DEF Inv
<1>1. CASE InInput(b) \/ pending = b \/ InBatch(b)
  BY <1>1 DEF BufferPlace, InInput, InBatch, ToSet
<1>2. CASE InOutput(b)
  <2>1. PICK i \in DOMAIN outputChan : b \in ToSet(outputChan[i])
    BY <1>2 DEF InOutput
  <2>2. PICK j \in DOMAIN outputChan[i] : outputChan[i][j] = b
    BY <2>1 DEF ToSet
  <2> QED
    BY <2>2 DEF BufferPlace
<1>3. CASE InWorker(b)
  <2>1. PICK w \in Workers : b \in ToSet(held[w])
    BY <1>3 DEF InWorker
  <2>2. PICK i \in DOMAIN held[w] : held[w][i] = b
    BY <2>1 DEF ToSet
  <2>3. wstate[w] = "compile"
    BY <2>1, EmptySet DEF WorkersKept, WorkerKept
  <2>4. i > compressed[w]
    <3> SUFFICES ASSUME ~(i > compressed[w]) PROVE FALSE
      OBVIOUS
    <3>1. Len(held[w]) \in Nat /\ DOMAIN held[w] = 1..Len(held[w]) /\ compressed[w] \in Nat
      BY HeldBuffers DEF ProducerTypeOK
    <3>2. i \in 1..compressed[w]
      BY <2>2, <3>1
    <3>3. content[held[w][i]].message \in Coded(w)
      BY <2>3, <3>2 DEF WorkersKept, WorkerKept
    <3> QED
      BY <2>2, <3>3 DEF Waits
  <2> QED
    BY <2>2, <2>4 DEF BufferPlace
<1> QED
  BY <1>1, <1>2, <1>3 DEF Queued

\* A message is once in a request if it is there at all.
LEMMA OneRequestPlace ==
    ASSUME Inv, NEW m \in Messages
    PROVE  /\ \A x, y : RequestPlace(m, x) /\ RequestPlace(m, y) => x = y
           /\ (\E x : RequestPlace(m, x)) <=> \E w \in Workers : m \in Coded(w)
<1> USE DEF Inv
<1>1. \A w \in Workers : \A k \in DOMAIN records[w] :
         records[w][k] \in ToSet(records[w]) /\ records[w][k] \in Entries
  BY PipeTypes DEF ToSet
<1>2. ASSUME NEW x, NEW y, RequestPlace(m, x), RequestPlace(m, y) PROVE x = y
  <2>1. PICK v, k, i :
             /\ v \in Workers /\ k \in DOMAIN records[v] /\ i \in DOMAIN entryData[records[v][k]]
             /\ entryData[records[v][k]][i] = m /\ x = <<<<"request", v, k>>, i>>
    BY <1>2 DEF RequestPlace
  <2>2. PICK w, l, j :
             /\ w \in Workers /\ l \in DOMAIN records[w] /\ j \in DOMAIN entryData[records[w][l]]
             /\ entryData[records[w][l]][j] = m /\ y = <<<<"request", w, l>>, j>>
    BY <1>2 DEF RequestPlace
  <2>3. records[v][k] = records[w][l] /\ i = j
    BY <1>1, <2>1, <2>2 DEF EntriesKept
  <2>4. v = w
    <3> PICK e : e = records[v][k]
      OBVIOUS
    <3>1. e \in ToSet(records[v]) /\ e \in ToSet(records[w])
      BY <1>1, <2>1, <2>2, <2>3
    <3> QED
      BY <2>1, <2>2, <3>1 DEF EntriesKept
  <2>5. k = l
    <3>1. IsInjective(records[w])
      BY <2>2 DEF EntriesKept
    <3>2. k \in DOMAIN records[w] /\ l \in DOMAIN records[w] /\ records[w][k] = records[w][l]
      BY <2>1, <2>2, <2>3, <2>4
    <3> QED
      BY <3>1, <3>2 DEF IsInjective
  <2> QED
    BY <2>1, <2>2, <2>3, <2>4, <2>5
<1>3. ASSUME NEW w \in Workers, m \in Coded(w) PROVE \E x : RequestPlace(m, x)
  <2>1. PICK e \in ToSet(records[w]) : m \in ToSet(entryData[e])
    BY <1>3 DEF Coded, Encoded
  <2>2. PICK k \in DOMAIN records[w] : records[w][k] = e
    BY <2>1 DEF ToSet
  <2>3. PICK j \in DOMAIN entryData[e] : entryData[e][j] = m
    BY <2>1 DEF ToSet
  <2> QED
    BY <2>2, <2>3 DEF RequestPlace
<1>4. ASSUME NEW x, RequestPlace(m, x) PROVE \E w \in Workers : m \in Coded(w)
  <2>1. PICK w, k, j :
             /\ w \in Workers /\ k \in DOMAIN records[w] /\ j \in DOMAIN entryData[records[w][k]]
             /\ entryData[records[w][k]][j] = m
    BY <1>4 DEF RequestPlace
  <2> PICK e : e = records[w][k]
    OBVIOUS
  <2>2. m \in ToSet(entryData[e]) /\ e \in ToSet(records[w])
    BY <1>1, <2>1 DEF ToSet
  <2>3. m \in Coded(w)
    BY <2>2 DEF Coded, Encoded
  <2> QED
    BY <2>1, <2>3
<1> QED
  BY <1>2, <1>3, <1>4

\* A message in a queued buffer waits, unless a worker has compiled it.
LEMMA WaitsUnless ==
    ASSUME Inv, NEW m \in Messages, NEW b \in Buffers, Queued(b), content[b].message = m
    PROVE  /\ b \notin freeBuffers /\ content[b] # None /\ status[m] = "accepted"
           /\ ~Waits(m, b) => \E w \in Workers : \E i \in DOMAIN held[w] :
                 /\ i <= compressed[w] /\ held[w][i] = b /\ m \in Coded(w)
<1> USE DEF Inv
<1>1. b \notin freeBuffers /\ content[b] # None /\ status[m] = "accepted"
  BY DEF BuffersKept
<1>2. ASSUME ~Waits(m, b)
      PROVE  \E w \in Workers : \E i \in DOMAIN held[w] :
                i <= compressed[w] /\ held[w][i] = b /\ m \in Coded(w)
  <2>1. PICK w \in Workers : m \in Coded(w)
    BY <1>1, <1>2 DEF Waits
  <2>2. PICK i \in 1..compressed[w] : i \in 1..Len(held[w]) /\ b = held[w][i]
    BY <1>1, <2>1, CodedBuffers
  <2>3. i \in DOMAIN held[w] /\ i <= compressed[w]
    BY <2>2, HeldBuffers DEF ProducerTypeOK
  <2> QED
    BY <2>1, <2>2, <2>3
<1> QED
  BY <1>1, <1>2

\* A sequence of buffers of the pipeline that no worker holds.
LEMMA AtPlaces ==
    ASSUME Inv, NEW m \in Messages, NEW s \in Seq(Buffers),
           \A b \in ToSet(s) : Queued(b) /\ ~InWorker(b), NEW i
    PROVE  i \in At(s, m) <=> i \in DOMAIN s /\ Waits(m, s[i])
<1> USE DEF Inv
<1>1. ASSUME NEW j \in DOMAIN s
      PROVE  s[j] \in Buffers /\ Queued(s[j]) /\ ~InWorker(s[j])
  BY SetOfSeq DEF ToSet
<1>2. ASSUME i \in At(s, m) PROVE i \in DOMAIN s /\ Waits(m, s[i])
  <2>1. i \in DOMAIN s /\ content[s[i]].message = m
    BY <1>2 DEF At
  <2>2. \A w \in Workers : \A k \in DOMAIN held[w] : held[w][k] # s[i]
    BY <1>1, <2>1 DEF InWorker, ToSet
  <2> QED
    BY <1>1, <2>1, <2>2, WaitsUnless
<1>3. ASSUME i \in DOMAIN s, Waits(m, s[i]) PROVE i \in At(s, m)
  BY <1>1, <1>3, InUse DEF At, Waits
<1> QED
  BY <1>2, <1>3

\* What a worker has not compiled.
LEMMA UncompiledPlaces ==
    ASSUME Inv, NEW m \in Messages, NEW w \in Workers, wstate[w] = "compile", NEW i
    PROVE  i \in At(Uncompiled(w), m) <=>
              \E k \in DOMAIN held[w] :
                 k > compressed[w] /\ Waits(m, held[w][k]) /\ i = k - compressed[w]
<1> USE DEF Inv
<1> PICK c, h, l : c = compressed[w] /\ h = held[w] /\ l = Len(held[w])
  OBVIOUS
<1>1. /\ c \in Nat /\ h \in Seq(Buffers) /\ l \in Nat /\ l = Len(h) /\ c <= l /\ l <= Len(h)
      /\ DOMAIN h = 1..l
      /\ \A k \in 1..l : h[k] \in Buffers /\ Queued(h[k]) /\ h[k] \in ToSet(h)
  <2>1. c <= l
    BY DEF WorkersKept, WorkerKept
  <2>2. c \in Nat /\ h \in Seq(Buffers)
    BY DEF ProducerTypeOK
  <2>3. l \in Nat /\ DOMAIN h = 1..l /\ \A k \in 1..l : h[k] \in ToSet(h)
    BY HeldBuffers
  <2>4. \A b \in ToSet(h) : b \in Buffers /\ Queued(b)
    BY HeldBuffers
  <2> QED
    BY <2>1, <2>2, <2>3, <2>4
<1>2. /\ DOMAIN Uncompiled(w) = 1..(l - c)
      /\ \A j \in 1..(l - c) : Uncompiled(w)[j] = h[c + j]
  <2>1. /\ DOMAIN SubSeq(h, c + 1, l) = 1..(l - c)
        /\ \A j \in 1..(l - c) : SubSeq(h, c + 1, l)[j] = h[c + j]
    BY ONLY <1>1, PartOf
  <2>2. Uncompiled(w) = SubSeq(h, c + 1, l)
    BY DEF Uncompiled
  <2> QED
    BY <2>1, <2>2
<1>3. ASSUME i \in At(Uncompiled(w), m)
      PROVE  \E k \in 1..l : k > c /\ Waits(m, h[k]) /\ i = k - c
  <2>1. i \in 1..(l - c) /\ content[h[c + i]].message = m
    BY <1>2, <1>3 DEF At
  <2>2. c + i \in 1..l /\ c + i > c /\ i = (c + i) - c
    BY <1>1, <2>1
  <2>3. Waits(m, h[c + i])
    <3> SUFFICES ASSUME ~Waits(m, h[c + i]) PROVE FALSE
      OBVIOUS
    <3>1. PICK v \in Workers : \E k \in DOMAIN held[v] :
             k <= compressed[v] /\ held[v][k] = h[c + i]
      <4> PICK b : b = h[c + i]
        OBVIOUS
      <4>1. b \in Buffers /\ Queued(b) /\ content[b].message = m /\ ~Waits(m, b)
        BY <1>1, <2>1, <2>2
      <4>2. \E v \in Workers : \E k \in DOMAIN held[v] : k <= compressed[v] /\ held[v][k] = b
        BY <4>1, WaitsUnless
      <4> QED
        BY <4>2
    <3>2. PICK k \in DOMAIN held[v] : k <= compressed[v] /\ held[v][k] = h[c + i]
      BY <3>1
    <3>3. v = w
      <4>1. h[c + i] \in ToSet(held[v]) /\ h[c + i] \in ToSet(held[w])
        BY <1>1, <2>2, <3>2 DEF ToSet
      <4> QED
        BY <4>1, HeldBuffers
    <3>4. k = c + i
      BY <1>1, <2>2, <3>2, <3>3 DEF OneHome, IsInjective
    <3>5. k <= c
      BY <3>2, <3>3
    <3> QED
      BY <2>2, <1>1, <2>1, <3>4, <3>5
  <2> QED
    BY <2>2, <2>3
<1>4. ASSUME NEW k \in 1..l, k > c, Waits(m, h[k]), i = k - c PROVE i \in At(Uncompiled(w), m)
  <2>1. i \in 1..(l - c) /\ c + i = k
    BY <1>1, <1>4
  <2>2. content[h[k]] # None /\ content[h[k]].message = m
    BY <1>4, InUse DEF Waits
  <2> QED
    BY <1>2, <2>1, <2>2 DEF At
<1> QED
  BY <1>1, <1>3, <1>4

LEMMA PlacesOfMessage ==
    ASSUME Inv, NEW m \in Messages, NEW x
    PROVE  x \in Places(m) <=>
              (\E b : Waits(m, b) /\ BufferPlace(b, x)) \/ RequestPlace(m, x)
<1> USE DEF Inv
<1>1. x \in {"input"} \X At(inputChan, m) <=>
         \E i \in DOMAIN inputChan : Waits(m, inputChan[i]) /\ x = <<"input", i>>
  <2>1. inputChan \in Seq(Buffers) /\ \A b \in ToSet(inputChan) : Queued(b) /\ ~InWorker(b)
    BY PipeTypes DEF ProducerTypeOK, OneHome, Queued, InInput
  <2>2. \A i : i \in At(inputChan, m) <=> i \in DOMAIN inputChan /\ Waits(m, inputChan[i])
    BY <2>1, AtPlaces
  <2> QED
    BY <2>2
<1>2. x \in {"pending"} \X At(IF pending = None THEN <<>> ELSE <<pending>>, m) <=>
         Waits(m, pending) /\ x = <<"pending", 1>>
  <2>1. CASE pending = None
    <3>1. \A i : i \notin At(<<>>, m)
      BY DEF At
    <3>2. ~Waits(m, pending)
      BY <2>1, ProducerAssumption DEF Waits
    <3> QED
      BY <2>1, <3>1, <3>2
  <2>2. CASE pending # None
    <3> PICK s : s = <<pending>>
      OBVIOUS
    <3>1. pending \in Buffers
      BY <2>2 DEF ProducerTypeOK
    <3>2. s \in Seq(Buffers) /\ DOMAIN s = {1} /\ s[1] = pending /\ ToSet(s) = {pending}
      <4>1. s \in Seq(Buffers) /\ Len(s) = 1 /\ s[1] = pending
        BY <3>1
      <4>2. DOMAIN s = {1}
        BY <4>1
      <4> QED
        BY <4>1, <4>2 DEF ToSet
    <3>3. Queued(pending) /\ ~InWorker(pending)
      BY <3>1 DEF OneHome, Queued
    <3>4. \A i : i \in At(s, m) <=> i \in DOMAIN s /\ Waits(m, s[i])
      BY <3>2, <3>3, AtPlaces
    <3> QED
      BY <2>2, <3>2, <3>4
  <2> QED
    BY <2>1, <2>2
<1>3. x \in {"batch"} \X At(batched, m) <=>
         \E i \in DOMAIN batched : Waits(m, batched[i]) /\ x = <<"batch", i>>
  <2>1. batched \in Seq(Buffers) /\ \A b \in ToSet(batched) : Queued(b) /\ ~InWorker(b)
    BY PipeTypes DEF ProducerTypeOK, OneHome, Queued, InBatch
  <2>2. \A i : i \in At(batched, m) <=> i \in DOMAIN batched /\ Waits(m, batched[i])
    BY <2>1, AtPlaces
  <2> QED
    BY <2>2
<1>4. x \in UNION {{<<"output", i>>} \X At(outputChan[i], m) : i \in DOMAIN outputChan} <=>
         \E i \in DOMAIN outputChan : \E j \in DOMAIN outputChan[i] :
            Waits(m, outputChan[i][j]) /\ x = <<<<"output", i>>, j>>
  <2>1. ASSUME NEW i \in DOMAIN outputChan, NEW j
        PROVE  j \in At(outputChan[i], m) <=>
                  j \in DOMAIN outputChan[i] /\ Waits(m, outputChan[i][j])
    <3>1. /\ outputChan[i] \in Seq(Buffers)
          /\ \A b \in ToSet(outputChan[i]) : Queued(b) /\ ~InWorker(b)
      BY PipeTypes DEF OneHome, Queued, InOutput
    <3> QED
      BY <3>1, AtPlaces
  <2> QED
    BY <2>1
<1>5. x \in UNION {{<<"worker", w>>} \X At(Uncompiled(w), m) :
                      w \in {v \in Workers : wstate[v] = "compile"}} <=>
         \E w \in Workers : \E k \in DOMAIN held[w] :
            /\ k > compressed[w] /\ Waits(m, held[w][k])
            /\ x = <<<<"worker", w>>, k - compressed[w]>>
  <2>1. x \in UNION {{<<"worker", w>>} \X At(Uncompiled(w), m) :
                        w \in {v \in Workers : wstate[v] = "compile"}} <=>
           \E w \in Workers : \E i : /\ wstate[w] = "compile" /\ i \in At(Uncompiled(w), m)
                                     /\ x = <<<<"worker", w>>, i>>
    OBVIOUS
  <2>2. \A w \in Workers : \A k \in DOMAIN held[w] : wstate[w] = "compile"
    BY DEF WorkersKept, WorkerKept
  <2> QED
    BY <2>1, <2>2, UncompiledPlaces
<1>6. x \in UNION {UNION {{<<"request", w, k>>} \X Encodings(records[w][k], m) :
                             k \in DOMAIN records[w]} : w \in Workers} <=>
         RequestPlace(m, x)
  BY DEF RequestPlace, Encodings
<1>7. (\E b : Waits(m, b) /\ BufferPlace(b, x)) <=>
         \/ \E i \in DOMAIN inputChan : Waits(m, inputChan[i]) /\ x = <<"input", i>>
         \/ Waits(m, pending) /\ x = <<"pending", 1>>
         \/ \E i \in DOMAIN batched : Waits(m, batched[i]) /\ x = <<"batch", i>>
         \/ \E i \in DOMAIN outputChan : \E j \in DOMAIN outputChan[i] :
               Waits(m, outputChan[i][j]) /\ x = <<<<"output", i>>, j>>
         \/ \E w \in Workers : \E k \in DOMAIN held[w] :
               /\ k > compressed[w] /\ Waits(m, held[w][k])
               /\ x = <<<<"worker", w>>, k - compressed[w]>>
  BY DEF BufferPlace
<1>8. x \in Places(m) <=>
         \/ x \in {"input"} \X At(inputChan, m)
         \/ x \in {"pending"} \X At(IF pending = None THEN <<>> ELSE <<pending>>, m)
         \/ x \in {"batch"} \X At(batched, m)
         \/ x \in UNION {{<<"output", i>>} \X At(outputChan[i], m) : i \in DOMAIN outputChan}
         \/ x \in UNION {{<<"worker", w>>} \X At(Uncompiled(w), m) :
                            w \in {v \in Workers : wstate[v] = "compile"}}
         \/ x \in UNION {UNION {{<<"request", w, k>>} \X Encodings(records[w][k], m) :
                                   k \in DOMAIN records[w]} : w \in Workers}
  <2> DEFINE A == {"input"} \X At(inputChan, m)
             B == {"pending"} \X At(IF pending = None THEN <<>> ELSE <<pending>>, m)
             C == {"batch"} \X At(batched, m)
             D == UNION {{<<"output", i>>} \X At(outputChan[i], m) : i \in DOMAIN outputChan}
             E == UNION {{<<"worker", w>>} \X At(Uncompiled(w), m) :
                            w \in {v \in Workers : wstate[v] = "compile"}}
             F == UNION {UNION {{<<"request", w, k>>} \X Encodings(records[w][k], m) :
                                   k \in DOMAIN records[w]} : w \in Workers}
  <2>1. Places(m) = A \cup B \cup C \cup D \cup E \cup F
    BY DEF Places
  <2> HIDE DEF A, B, C, D, E, F
  <2>2. x \in Places(m) <=>
           x \in A \/ x \in B \/ x \in C \/ x \in D \/ x \in E \/ x \in F
    BY <2>1
  <2> QED
    BY <2>2 DEF A, B, C, D, E, F
<1> QED
  BY <1>1, <1>2, <1>3, <1>4, <1>5, <1>6, <1>7, <1>8

(***************************************************************************)
(* An accepted message that is not settled is in one place of the          *)
(* pipeline, whatever the order in which batches are sent, compiled,       *)
(* stored in part and sent again (producer.go, flush.go).                  *)
(***************************************************************************)
THEOREM AlwaysInOnePlace == ProducerSafe => []InOnePlace
<1>1. ASSUME Inv PROVE InOnePlace
  <2> USE <1>1 DEF Inv
  <2> SUFFICES ASSUME NEW m \in Messages
               PROVE  Cardinality(Places(m)) = IF status[m] = "accepted" THEN 1 ELSE 0
    BY DEF InOnePlace
  <2>1. \A b, c : Waits(m, b) /\ Waits(m, c) => b = c
    BY DEF Waits, BuffersKept
  <2>2. \A x, y : x \in Places(m) /\ y \in Places(m) => x = y
    <3> SUFFICES ASSUME NEW x \in Places(m), NEW y \in Places(m) PROVE x = y
      OBVIOUS
    <3>1. CASE \E w \in Workers : m \in Coded(w)
      BY <3>1, PlacesOfMessage, OneRequestPlace DEF Waits
    <3>2. CASE \A w \in Workers : m \notin Coded(w)
      <4>1. ~RequestPlace(m, x) /\ ~RequestPlace(m, y)
        BY <3>2, OneRequestPlace
      <4>2. PICK b : Waits(m, b) /\ BufferPlace(b, x)
        BY <4>1, PlacesOfMessage
      <4>3. PICK c : Waits(m, c) /\ BufferPlace(c, y)
        BY <4>1, PlacesOfMessage
      <4>4. b = c /\ b \in Buffers
        BY <2>1, <4>2, <4>3 DEF Waits
      <4> QED
        BY <4>2, <4>3, <4>4, OneBufferPlace
    <3> QED
      BY <3>1, <3>2
  <2>3. ASSUME NEW x \in Places(m) PROVE status[m] = "accepted"
    <3>1. CASE \E b : Waits(m, b) /\ BufferPlace(b, x)
      BY <3>1, OneBufferPlace, WaitsUnless DEF Waits
    <3>2. CASE RequestPlace(m, x)
      <4>1. PICK w \in Workers : m \in Coded(w)
        BY <3>2, OneRequestPlace
      <4>2. wstate[w] = "request" \/ wstate[w] = "compile"
        BY <4>1, EmptySet DEF WorkersKept, WorkerKept, Coded, Encoded, ProducerTypeOK, WorkerStates
      <4>3. wstate[w] = "request" => status[m] = "accepted"
        BY <4>1 DEF WorkersKept, WorkerKept
      <4>4. wstate[w] = "compile" => status[m] = "accepted"
        BY <4>1, HeldBuffers
      <4> QED
        BY <4>2, <4>3, <4>4
    <3> QED
      BY <3>1, <3>2, PlacesOfMessage
  <2>4. ASSUME status[m] = "accepted" PROVE \E x : x \in Places(m)
    <3>1. CASE \E w \in Workers : m \in Coded(w)
      BY <3>1, OneRequestPlace, PlacesOfMessage
    <3>2. CASE \A w \in Workers : m \notin Coded(w)
      <4>1. PICK b \in Buffers \ freeBuffers : content[b].message = m
        BY <2>4, <3>2 DEF NoneDropped
      <4>2. Waits(m, b) /\ Queued(b)
        BY <2>4, <3>2, <4>1 DEF Waits, BuffersKept
      <4> QED
        BY <4>2, SomeBufferPlace, PlacesOfMessage
    <3> QED
      BY <3>1, <3>2
  <2>5. CASE status[m] = "accepted"
    <3>1. PICK x : x \in Places(m)
      BY <2>4, <2>5
    <3>2. Places(m) = {x}
      BY <2>2, <3>1
    <3> QED
      BY <2>5, <3>2, FS_Singleton
  <2>6. CASE status[m] # "accepted"
    <3>1. Places(m) = {}
      BY <2>3, <2>6
    <3> QED
      BY <2>6, <3>1, FS_EmptySet
  <2> QED
    BY <2>5, <2>6
<1> QED
  BY <1>1, ProducerInvariant, PTL

-----------------------------------------------------------------------------
(***************************************************************************)
(* The producer implements module Delivery.                                *)
(***************************************************************************)
\* When Close() returns, nothing is on the way any more.
LEMMA NothingLeft ==
    ASSUME Workers # {}, Inv, closer = "waitFlush", \A w \in Workers : wstate[w] = "ended"
    PROVE  \A m \in Messages : status[m] # "accepted"
<1> USE DEF Inv
<1>1. agg = "ended" /\ inputChan = <<>> /\ batched = <<>> /\ pending = None /\ outputChan = <<>>
  BY DEF ClosedInOrder, OutputClosed, InputClosed
<1>2. \A w \in Workers : held[w] = <<>>
  BY DEF WorkersKept, WorkerKept
<1>3. DOMAIN outputChan = {}
  BY <1>1
<1>4. \A b \in Buffers : ~Queued(b)
  BY <1>1, <1>2, <1>3, EmptySet, ProducerAssumption
     DEF Queued, InInput, InBatch, InOutput, InWorker
<1> SUFFICES ASSUME NEW m \in Messages, status[m] = "accepted" PROVE FALSE
  OBVIOUS
<1>5. PICK b \in Buffers \ freeBuffers : content[b].message = m
  BY DEF NoneDropped
<1> QED
  BY <1>4, <1>5 DEF BuffersKept

\* A fate that befalls accepted messages is a step of Delivery.
LEMMA SettledStep ==
    ASSUME NEW M \in SUBSET Messages, NEW fate \in {"delivered", "lost"},
           \A m \in M : status[m] = "accepted",
           status' = Settled(M, fate), closer # "closed", closer' = closer
    PROVE  Deliver!Settle(M, fate)
BY DEF Deliver!Settle, Settled

(***************************************************************************)
(* The producer delivers as promised: a message that was accepted is       *)
(* settled once, and Close() returns when none is left, provided that      *)
(* there is a flush worker (cfg.MaxConnections, producer.go:121-124).      *)
(***************************************************************************)
THEOREM ProducerDelivers ==
    ASSUME Workers # {}
    PROVE  ProducerSafe => DeliversAsPromised
<1>1. ProducerInit => Deliver!DeliveryInit
  BY DEF ProducerInit, Deliver!DeliveryInit
<1>2. Inv /\ [ProducerNext]_producerVars => [Deliver!DeliveryNext]_(Deliver!deliveryVars)
  <2> SUFFICES ASSUME Inv, [ProducerNext]_producerVars
               PROVE  [Deliver!DeliveryNext]_(Deliver!deliveryVars)
    OBVIOUS
  <2> USE DEF Inv, putVars, aggVars, workerVars, entryVars
  <2>1. ASSUME UNCHANGED status, (closer' = "closed") <=> (closer = "closed")
        PROVE  UNCHANGED Deliver!deliveryVars
    BY <2>1 DEF Deliver!deliveryVars
  <2>2. ASSUME NEW m \in Messages, PutRejected(m)
        PROVE  Deliver!Decide(m, "rejected")
    BY <2>2 DEF PutRejected, Deliver!Decide, ProducerTypeOK
  <2>3. ASSUME NEW m \in Messages, NEW b \in Buffers, NEW size \in PackedSizes[m],
               PutPacks(m, b, size)
        PROVE  UNCHANGED Deliver!deliveryVars
    BY <2>3 DEF PutPacks, Deliver!deliveryVars, ProducerTypeOK
  <2>4. ASSUME NEW m \in Messages, NEW b \in Buffers, PutSends(m, b)
        PROVE  Deliver!Decide(m, "accepted")
    <3>1. closer # "closed"
      BY <2>4 DEF PutSends, ClosedInOrder, InputClosed
    <3> QED
      BY <2>4, <3>1 DEF PutSends, Deliver!Decide, ProducerTypeOK
  <2>5. CASE Aggregator \/ Tick \/ CloseInput \/ CloseOutput \/ ProducerEnded \/ UNCHANGED producerVars
    <3>1. UNCHANGED status /\ ((closer' = "closed") <=> (closer = "closed"))
      BY <2>5 DEF Aggregator, AggReceives, AggDrains, AggTick, AggSends, Tick, CloseInput,
                  CloseOutput, ProducerEnded, producerVars
    <3> QED
      BY <2>1, <3>1
  <2>6. ASSUME CloseReturns PROVE Deliver!Close
    <3>1. \A m \in Messages : status[m] # "accepted"
      BY <2>6, NothingLeft DEF CloseReturns
    <3> QED
      BY <2>6, <3>1 DEF CloseReturns, Deliver!Close
  <2>7. ASSUME NEW w \in Workers, WorkerStep(w)
        PROVE  \/ UNCHANGED Deliver!deliveryVars
               \/ \E M \in SUBSET Messages, fate \in {"delivered", "lost"} : Deliver!Settle(M, fate)
    <3>1. CASE TakeBatch(w) \/ CompileEntry(w) \/ Compiled(w) \/ WorkerEnds(w)
      <4>1. UNCHANGED <<status, closer>>
        BY <3>1 DEF TakeBatch, CompileEntry, Compiled, WorkerEnds
      <4> QED
        BY <2>1, <4>1
    <3>2. ASSUME NEW M, NEW fate \in {"delivered", "lost"}, wstate[w] \in {"compile", "request"},
                 M \subseteq Messages, \A m \in M : status[m] = "accepted",
                 status' = Settled(M, fate), closer' = closer
          PROVE  Deliver!Settle(M, fate)
      <4>1. closer # "closed"
        BY <3>2 DEF ClosedInOrder
      <4> QED
        BY <3>2, <4>1, SettledStep
    <3>3. CASE CompileFails(w)
      <4> PICK M : M = ToSet(MessagesIn(held[w]))
        OBVIOUS
      <4>1. M = {content[held[w][i]].message : i \in 1..Len(held[w])}
        <5>1. DOMAIN held[w] = 1..Len(held[w])
          BY HeldBuffers
        <5> QED
          BY <5>1 DEF MessagesIn, ToSet
      <4>2. M \subseteq Messages /\ \A m \in M : status[m] = "accepted"
        BY <4>1, HeldBuffers
      <4>3. wstate[w] = "compile" /\ status' = Settled(M, "lost") /\ closer' = closer
        BY <3>3 DEF CompileFails
      <4> QED
        BY <3>2, <4>2, <4>3
    <3>4. ASSUME NEW E \in SUBSET ToSet(records[w]), NEW fate \in {"delivered", "lost"},
                 wstate[w] = "request", status' = Settled(Encoded(E), fate), closer' = closer
          PROVE  \E M \in SUBSET Messages : Deliver!Settle(M, fate)
      <4>1. Encoded(E) \subseteq Coded(w)
        BY DEF Coded, Encoded
      <4>2. Encoded(E) \subseteq Messages /\ \A m \in Encoded(E) : status[m] = "accepted"
        BY <3>4, <4>1, CodedTypes DEF WorkersKept, WorkerKept
      <4> QED
        BY <3>2, <3>4, <4>2
    <3>7. CASE \E arrived \in SUBSET Entries : RequestResent(w, arrived)
      <4>1. UNCHANGED <<status, closer>>
        BY <3>7 DEF RequestResent, putVars
      <4> QED
        BY <2>1, <4>1
    <3>5. CASE RequestStored(w) \/ \E arrived \in SUBSET Entries : RequestFails(w, arrived)
      <4>1. PICK fate \in {"delivered", "lost"} :
               /\ wstate[w] = "request" /\ closer' = closer
               /\ status' = Settled(Encoded(ToSet(records[w])), fate)
        BY <3>5 DEF RequestStored, RequestFails
      <4> QED
        BY <3>4, <4>1
    <3>6. CASE \E failed \in SUBSET (1..Cardinality(Entries)) : RequestPartlyStored(w, failed)
      <4>1. PICK failed \in SUBSET (1..Cardinality(Entries)) : RequestPartlyStored(w, failed)
        BY <3>6
      <4> PICK E : E = ToSet(records[w]) \ {records[w][i] : i \in failed}
        OBVIOUS
      <4>2. /\ E \in SUBSET ToSet(records[w])
            /\ wstate[w] = "request" /\ closer' = closer
            /\ status' = Settled(Encoded(E), "delivered")
        BY <4>1 DEF RequestPartlyStored
      <4> QED
        BY <3>4, <4>2
    <3> QED
      BY <2>7, <3>1, <3>3, <3>5, <3>6, <3>7 DEF WorkerStep
  <2> QED
    BY <2>2, <2>3, <2>4, <2>5, <2>6, <2>7 DEF ProducerNext, Deliver!DeliveryNext
<1> QED
  BY <1>1, <1>2, ProducerInvariant, PTL
     DEF ProducerSafe, DeliversAsPromised, Deliver!DeliverySpec
=============================================================================
