------------------------------- MODULE MCTraffic -------------------------------
(*****************************************************************************)
(* Instance of what is made of goroutines that wait for one another: the     *)
(* bid server from start to stop, the scan of a table that it starts with,   *)
(* and the load generator with its report aggregator.  They do not share     *)
(* state, so a behaviour is about one of them ("focus").  The server has two *)
(* focuses: every kind of request and outcome while nothing fails and nobody *)
(* stops the program, or every failure and every stop around a single plain  *)
(* request.                                                                  *)
(*****************************************************************************)
EXTENDS Lifecycle, RequestBuilder, TableScan, LoadAttack, Aggregator

CONSTANTS s1, s2

VARIABLES focus

(* -------------------------------- the server ----------------------------- *)

Http(route, header, form, id, ifa, items) ==
  [route |-> route, header |-> header, form |-> form, id |-> id, ifa |-> ifa, items |-> items,
   unfit |-> CASE id = "l" -> {"request", "bid"} [] id = "m" -> {"bid"} [] OTHER -> {}]

Plain == Http("bid", "", "2.5", "a", "uuid", <<"i", "j">>)

\* The requests of the load generator, and others: one that is too large to be
\* streamed and leaves its version to the configuration, one whose bid alone is too
\* large, one whose body is not of the version it announces, and a health check.
MCRequests ==
  Generated("g", "h") \cup
  { Plain,
    Http("bid", "", "2.5", "l", "uuid", <<"i", "j">>),
    Http("bid", "3.0", "3.0", "m", "uuid", <<"i">>),
    Http("bid", "3.0", "2.5", "c", "uuid", <<"i">>),
    Http("health", "", "2.5", "", "none", <<>>) }

ServerNext ==
  /\ Next
  /\ CASE focus = "requests" -> /\ \A r \in Handlers : req'[r] # Plain
                                /\ stop' = 0 /\ errReturn' = "nil"
       [] focus = "failures" -> /\ \A r \in Handlers : req'[r] \in {None, Plain}
                                /\ count'.received < MaxRequests
                                /\ count'.timeout + count'.error = 0

(* --------------------------------- the scan ------------------------------ *)

\* A segment with an empty page before its last one, and one that ends with an
\* empty page.
MCPages == [w \in ScanWorkers |-> IF w = s1 THEN <<0, 1>> ELSE <<2, 0>>]

(* ---------------------------- the load generator ------------------------- *)

MCBuckets == <<0, 2, 4>>

Got(latency, code, error) == [latency |-> latency, code |-> code, error |-> error]
MCAnswers == {Got(1, 204, ""), Got(3, 0, "timeout")}

Made(began, latency, code, error) ==
  [at |-> began, latency |-> latency, code |-> code, error |-> error]

MCPodResults ==
  LET first == {Made(1, 9, 200, ""), Made(2, 1, 204, ""), Made(3, 2, 0, "timeout")}
      second == {Made(4, 5, 200, ""), Made(5, 3, 0, "refused")}
  IN {<<r>> : r \in first} \cup {<<r, s>> : r \in first, s \in second}

-----------------------------------------------------------------------------

Serves == focus \in {"requests", "failures"}

MCInit ==
  /\ Init /\ ScanInit /\ AttackInit /\ AggregatorInit
  /\ focus \in {"requests", "failures", "scan", "attack", "aggregator"}

MCNext ==
  /\ UNCHANGED focus
  /\ \/ Serves /\ ServerNext /\ UNCHANGED <<scanVars, attackVars, aggregatorVars>>
     \/ focus = "scan" /\ ScanNext /\ UNCHANGED <<vars, attackVars, aggregatorVars>>
     \/ focus = "attack" /\ AttackNext /\ UNCHANGED <<vars, scanVars, aggregatorVars>>
     \/ focus = "aggregator" /\ AggregatorNext /\ UNCHANGED <<vars, scanVars, attackVars>>

\* The fairness of each part, in the behaviours that are about it.
MCFairness ==
  /\ WF_vars(Serves /\ MainStep)
  /\ WF_vars(Serves /\ ShutdownStep)
  /\ \A s \in Servers : WF_vars(Serves /\ CallbackSends(s))
  /\ \A r \in Handlers : WF_vars(Serves /\ HandlerStep(r))
  /\ \A s \in Summaries : WF_vars(Serves /\ Collect(s))
  /\ WF_scanVars(focus = "scan" /\ Return)
  /\ \A w \in ScanWorkers : WF_scanVars(focus = "scan" /\ WorkerStep(w))
  /\ \A w \in Workers : WF_attackVars(focus = "attack" /\ AttackerStep(w))
  /\ WF_attackVars(focus = "attack" /\ TimerStep)
  /\ WF_attackVars(focus = "attack" /\ AttackReturns)

MCSpec ==
  /\ MCInit
  /\ [][MCNext]_<<vars, scanVars, attackVars, aggregatorVars, focus>>
  /\ MCFairness

\* The type invariants of the three state machines.
TrafficTypeOK == TypeOK /\ ScanTypeOK /\ AttackTypeOK

\* scan() returns, whichever workers fail and whoever holds the mutex then
\* (scan.go:33-53).
TheScanReturns == focus = "scan" => ScanReturns
=============================================================================
