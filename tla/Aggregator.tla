------------------------------- MODULE Aggregator -------------------------------
(*****************************************************************************)
(* The report aggregator (report-aggregator/): it looks up the Kubernetes    *)
(* job of the load generators, gives up when one of them failed or still     *)
(* runs, reads the report of every pod from its log and combines them.  The  *)
(* pods are load generators whose reports are those of LoadReport.           *)
(*****************************************************************************)
EXTENDS LoadReport

CONSTANTS Pods,        \* the pods of the job
          PodResults,  \* the requests a pod may have made, in order
          Now          \* the time of the aggregation

\* A generator has made at least one request when it prints its report; the
\* aggregation divides by their number (aggregator.go:71).
ASSUME AggregatorAssumption ==
  /\ IsFiniteSet(Pods) /\ Pods # {}
  /\ Now \in Nat
  /\ \A results \in PodResults :
       /\ results \in Seq(Range(results)) /\ results # <<>>
       /\ \A i \in DOMAIN results :
            /\ results[i].at \in 1 .. Now - 1
            /\ results[i].latency \in Nat \ {0}
            /\ results[i].code \in Codes

VARIABLES made,        \* the requests of each pod that has finished
          podState, step, inputs, read, aggregated

aggregatorVars == <<made, podState, step, inputs, read, aggregated>>

AggregatorInit ==
  /\ made = [p \in Pods |-> <<>>]
  /\ podState = [p \in Pods |-> "running"]
  /\ step = "find"
  /\ inputs = <<>>
  /\ read = {}
  /\ aggregated = <<>>

\* A pod prints its report as one line of its log, or fails.
PodEnds(p) ==
  /\ podState[p] = "running"
  /\ \/ /\ podState' = [podState EXCEPT ![p] = "complete"]
        /\ \E results \in PodResults : made' = [made EXCEPT ![p] = results]
     \/ /\ podState' = [podState EXCEPT ![p] = "failed"]
        /\ UNCHANGED made
  /\ UNCHANGED <<step, inputs, read, aggregated>>

\* Mutant: only the failures of the job are looked at.
FindJobUnlessFailed ==
  /\ step = "find"
  /\ step' = IF \E p \in Pods : podState[p] = "failed" THEN "error" ELSE "read"
  /\ UNCHANGED <<made, podState, inputs, read, aggregated>>

\* findJob(): an error when a pod failed or the job is not complete.
FindJob ==
  /\ step = "find"
  /\ step' = IF \A p \in Pods : podState[p] = "complete" THEN "read" ELSE "error"
  /\ UNCHANGED <<made, podState, inputs, read, aggregated>>

\* One pod of the list after the other; its log may be gone or hold no report.
ReadLog(p) ==
  /\ step = "read"
  /\ p \notin read
  /\ \/ /\ read' = read \cup {p}
        /\ inputs' = Append(inputs, ReportOf(made[p]))
        /\ UNCHANGED step
     \/ /\ step' = "error"
        /\ UNCHANGED <<read, inputs>>
  /\ UNCHANGED <<made, podState, aggregated>>

AggregateMetrics ==
  /\ step = "read"
  /\ read = Pods
  /\ step' = "done"
  /\ aggregated' = <<Aggregate(inputs, Now)>>
  /\ UNCHANGED <<made, podState, inputs, read>>

AggregatorNext ==
  FindJob \/ AggregateMetrics \/ \E p \in Pods : PodEnds(p) \/ ReadLog(p)

AggregatorSpec == AggregatorInit /\ [][AggregatorNext]_aggregatorVars

(* ------------------------------- properties ------------------------------ *)

OneReport == ReportOf(FlattenSeq([i \in 1 .. Cardinality(Pods) |-> made[SetToSeq(Pods)[i]]]))

\* In whatever order the logs are read, the combined report counts what one
\* generator that made all the requests of all the pods would have counted; no
\* pod that is still running is left out (aggregator.go:12, k8s.go:82-98).  The
\* end of the attack is excepted: aggregator.go:57 compares it with the latest
\* beginning, so that it depends on the order of the reports.  So are the
\* errors: one generator lists an error once (metrics.go:40), the combined report
\* lists the same errors, each once per pod that met it (aggregator.go:47).  The
\* buckets below a reported percentile hold fewer requests than it asks for, and
\* those up to it hold enough (aggregator.go:142).
AggregateIsUnion ==
  aggregated # <<>> =>
    /\ \A field \in DOMAIN OneReport \ {"end", "errors"} : aggregated[1][field] = OneReport[field]
    /\ aggregated[1].errors =
         [e \in OneReport.errors |-> Cardinality({p \in Pods : e \in ReportOf(made[p]).errors})]
    /\ \A percent \in {50, 99} :
         LET lower == IF percent = 50 THEN aggregated[1].p50 ELSE aggregated[1].p99
             counts == aggregated[1].counts
             position == CHOOSE i \in DOMAIN Buckets : Buckets[i] = lower
         IN /\ UpTo(counts, position) * 100 >= percent * aggregated[1].requests
            /\ UpTo(counts, position - 1) * 100 < percent * aggregated[1].requests
=============================================================================
