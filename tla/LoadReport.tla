------------------------------ MODULE LoadReport ------------------------------
(*****************************************************************************)
(* The reports of the load generator: Metrics with its latencies and its     *)
(* histogram, how a worker adds a result to them, how the reports of the     *)
(* workers are merged, and how the report aggregator combines the reports of *)
(* several generators.  Time is a number, 0 the zero time.Time; the numbers  *)
(* of bytes behave like the total latency, and the t-digest of a generator's *)
(* own percentiles is a library: both are left out.                          *)
(*****************************************************************************)
EXTENDS Naturals, Sequences, FiniteSetsExt, SequencesExt

CONSTANTS Codes,    \* the status codes answered, 0 when the request failed
          Buckets   \* the lower bounds of the histogram's buckets, in order

ASSUME ReportAssumption ==
  /\ Codes \subseteq Nat /\ IsFiniteSet(Codes)
  /\ Buckets \in Seq(Nat) /\ Buckets # <<>>
  /\ \A i \in 1 .. Len(Buckets) - 1 : Buckets[i] < Buckets[i + 1]

NewMetrics ==
  [requests |-> 0, codes |-> [c \in Codes |-> 0], total |-> 0, max |-> 0, min |-> 0,
   earliest |-> 0, latest |-> 0, end |-> 0, success |-> 0, errors |-> {},
   counts |-> [i \in DOMAIN Buckets |-> 0]]

Succeeded(code) == code >= 200 /\ code < 400

\* What falls between no two bounds, below the first one included, is counted
\* in the last bucket.
Bucket(latency) ==
  LET between == {i \in 1 .. Len(Buckets) - 1 :
                    latency >= Buckets[i] /\ latency < Buckets[i + 1]}
  IN IF between = {} THEN Len(Buckets) ELSE CHOOSE i \in between : TRUE

Larger(a, b) == IF b > a THEN b ELSE a

\* A zero is "nothing yet".
Earlier(a, b) == IF a = 0 \/ (b # 0 /\ b < a) THEN b ELSE a

\* Metrics.Add(), with LatencyMetrics.Add() and Histogram.Add().
AddResult(m, r) ==
  [requests |-> m.requests + 1,
   codes    |-> [m.codes EXCEPT ![r.code] = @ + 1],
   total    |-> m.total + r.latency,
   max      |-> Larger(m.max, r.latency),
   min      |-> IF r.latency < m.min \/ m.min = 0 THEN r.latency ELSE m.min,
   earliest |-> IF m.earliest = 0 \/ r.at < m.earliest THEN r.at ELSE m.earliest,
   latest   |-> Larger(m.latest, r.at),
   end      |-> Larger(m.end, r.at + r.latency),
   success  |-> m.success + (IF Succeeded(r.code) THEN 1 ELSE 0),
   errors   |-> m.errors \cup (IF r.error = "" THEN {} ELSE {r.error}),
   counts   |-> [m.counts EXCEPT ![Bucket(r.latency)] = @ + 1]]

\* Metrics.Merge(), with LatencyMetrics.Merge() and Histogram.Merge(); "first"
\* is the earliest timestamp of the two.
Merged(m, o, first) ==
  [requests |-> m.requests + o.requests,
   codes    |-> [c \in Codes |-> m.codes[c] + o.codes[c]],
   total    |-> m.total + o.total,
   max      |-> Larger(m.max, o.max),
   min      |-> Earlier(m.min, o.min),
   earliest |-> first,
   latest   |-> Larger(m.latest, o.latest),
   end      |-> Larger(m.end, o.end),
   success  |-> m.success + o.success,
   errors   |-> m.errors \cup o.errors,
   counts   |-> [i \in DOMAIN Buckets |-> m.counts[i] + o.counts[i]]]

\* Mutant: the zero time of a worker without requests is taken for the earliest.
MergeReportsUnguarded(m, o) ==
  Merged(m, o, IF m.earliest = 0 \/ o.earliest < m.earliest THEN o.earliest ELSE m.earliest)

MergeReports(m, o) == Merged(m, o, Earlier(m.earliest, o.earliest))

ReportOf(results) == FoldLeft(AddResult, NewMetrics, results)

(* ------------------------------- the aggregator -------------------------- *)

Total(numbers) == FoldLeft(LAMBDA a, b : a + b, 0, numbers)

UpTo(counts, i) == Total(SubSeq(counts, 1, i))

\* The lower bound of the first bucket that reaches the wanted count.
BucketReaching(counts, wanted) ==
  LET reached == {i \in DOMAIN counts : UpTo(counts, i) >= wanted}
  IN IF reached = {} THEN 0 ELSE Buckets[Min(reached)]

\* histogramPercentile() rounds it up.
Percentile(counts, percent) ==
  BucketReaching(counts, (percent * UpTo(counts, Len(counts)) + 99) \div 100)

\* aggregateSimpleMetrics() compares the end of a report with the latest
\* beginning so far, not with the latest end.
AggregateEnd(inputs) ==
  FoldLeft(LAMBDA acc, m : [latest |-> Larger(acc.latest, m.latest),
                            end |-> IF m.end > Larger(acc.latest, m.latest) THEN m.end ELSE acc.end],
           [latest |-> 0, end |-> 0], inputs).end

\* aggregateSimpleMetrics() appends the list of each report, in which an error is
\* once, without looking for what it has: how often each error is then listed.
ErrorsListed(inputs) ==
  [e \in UNION {m.errors : m \in Range(inputs)} |->
     Cardinality({n \in DOMAIN inputs : e \in inputs[n].errors})]

\* aggregateMetrics(): the success is computed again from the status codes.
Aggregate(inputs, now) ==
  LET codes  == [c \in Codes |-> Total([n \in DOMAIN inputs |-> inputs[n].codes[c]])]
      counts == [i \in DOMAIN Buckets |-> Total([n \in DOMAIN inputs |-> inputs[n].counts[i]])]
  IN [requests |-> Total([n \in DOMAIN inputs |-> inputs[n].requests]),
      codes    |-> codes,
      total    |-> Total([n \in DOMAIN inputs |-> inputs[n].total]),
      max      |-> Max({m.max : m \in Range(inputs)}),
      min      |-> Min({m.min : m \in Range(inputs)}),
      earliest |-> Min({m.earliest : m \in Range(inputs)} \cup {now}),
      latest   |-> Max({m.latest : m \in Range(inputs)}),
      end      |-> AggregateEnd(inputs),
      success  |-> SumFunctionOnSet(codes, {c \in Codes : Succeeded(c)}),
      errors   |-> ErrorsListed(inputs),
      counts   |-> counts,
      p50      |-> Percentile(counts, 50),
      p99      |-> Percentile(counts, 99)]
=============================================================================
