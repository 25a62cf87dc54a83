------------------------------- MODULE LoadAttack -------------------------------
(*****************************************************************************)
(* Attacker.Attack(): workers that take a request from a shared targeter,    *)
(* send it, add the result to a report of their own and merge that report    *)
(* under a mutex when the attack stops; a timer, a worker or a targeter may  *)
(* stop it.  The targeter is bidRequestTargeter() of app.go: it generates    *)
(* the body in the buffer of a pooled Builder.  A time is the number of      *)
(* requests begun so far.                                                    *)
(*****************************************************************************)
EXTENDS LoadReport

CONSTANTS Workers, Builders,
          Answers,    \* [latency, code, error] of a request
          Failures,   \* what may fail: a subset of {"targeter", "worker"}
          MaxHits,    \* bound: requests begun in one attack
          Nobody

\* A request takes time; one that is not answered has the code 0.
ASSUME AttackAssumption ==
  /\ IsFiniteSet(Workers) /\ Workers # {}
  /\ Cardinality(Workers) <= Cardinality(Builders)
  /\ Nobody \notin Workers \cup Builders
  /\ \A a \in Answers : a.latency \in Nat \ {0} /\ a.code \in Codes
  /\ 0 \in Codes
  /\ MaxHits \in Nat

VARIABLES worker,    \* where each worker is
          hit,       \* the sequence number of its current request
          takes,     \* the Builder whose buffer its target's body points into
          owner,     \* which worker holds a Builder, Nobody when it is in the pool
          generated, \* the request that was last generated in each Builder
          body,      \* the body of the request it sends
          own,       \* its report
          seq,       \* requests begun
          stopped,   \* stopch is closed
          stopping,  \* goroutines between Stop()'s look at stopch and its close()
          timer, lock, results, err, outcome,
          all,       \* every result, in the order they were added (history)
          failed     \* goroutines that failed (history)

attackVars == <<worker, hit, takes, owner, generated, body, own, seq, stopped, stopping, timer,
                lock, results, err, outcome, all, failed>>

AttackInit ==
  /\ worker = [w \in Workers |-> "delay"]
  /\ hit = [w \in Workers |-> 0]
  /\ takes = [w \in Workers |-> Nobody]
  /\ owner = [b \in Builders |-> Nobody]
  /\ generated = [b \in Builders |-> 0]
  /\ body = [w \in Workers |-> 0]
  /\ own = [w \in Workers |-> NewMetrics]
  /\ seq = 0
  /\ stopped = FALSE /\ stopping = {}
  /\ timer = "waiting" /\ lock = Nobody
  /\ results = NewMetrics /\ err = FALSE
  /\ outcome = "running"
  /\ all = <<>> /\ failed = {}

Turn(w, there) == worker' = [worker EXCEPT ![w] = there]

(* Stop() looks whether stopch is closed, and closes it in a second step. *)

StopLooks(g) == stopping' = IF stopped THEN stopping ELSE stopping \cup {g}

StopCloses(g) ==
  /\ g \in stopping
  /\ stopping' = stopping \ {g}
  /\ IF stopped THEN outcome' = "panicked" /\ UNCHANGED stopped
                ELSE stopped' = TRUE /\ UNCHANGED outcome
  /\ UNCHANGED <<worker, hit, takes, owner, generated, body, own, seq, timer, lock, results, err,
                 all, failed>>

(* -------------------------------- a worker ------------------------------- *)

\* The head of the loop, after the initial delay or a pause.
Loop(w) ==
  /\ worker[w] \in {"delay", "loop"}
  /\ w \notin stopping
  /\ IF stopped THEN Turn(w, "merge") /\ UNCHANGED <<hit, seq>>
     ELSE /\ seq < MaxHits
          /\ seq' = seq + 1
          /\ hit' = [hit EXCEPT ![w] = seq + 1]
          /\ Turn(w, "target")
  /\ UNCHANGED <<takes, owner, generated, body, own, stopped, stopping, timer, lock, results, err,
                 outcome, all, failed>>

\* The targeter takes a Builder and generates the body in its buffer.
Generate(w) ==
  /\ worker[w] = "target"
  /\ \E b \in Builders :
       /\ owner[b] = Nobody
       /\ owner' = [owner EXCEPT ![b] = w]
       /\ generated' = [generated EXCEPT ![b] = hit[w]]
       /\ takes' = [takes EXCEPT ![w] = b]
  /\ Turn(w, "generated")
  /\ UNCHANGED <<hit, body, own, seq, stopped, stopping, timer, lock, results, err, outcome, all,
                 failed>>

\* Its deferred Put(): the target still points into the buffer.
PutBuilder(w) ==
  /\ worker[w] = "generated"
  /\ owner' = [owner EXCEPT ![takes[w]] = Nobody]
  /\ Turn(w, "copy")
  /\ UNCHANGED <<hit, takes, generated, body, own, seq, stopped, stopping, timer, lock, results,
                 err, outcome, all, failed>>

\* SetBody() copies the bytes at last.
CopyBody(w) ==
  /\ worker[w] = "copy"
  /\ body' = [body EXCEPT ![w] = generated[takes[w]]]
  /\ takes' = [takes EXCEPT ![w] = Nobody]
  /\ Turn(w, "send")
  /\ UNCHANGED <<hit, owner, generated, own, seq, stopped, stopping, timer, lock, results, err,
                 outcome, all, failed>>

\* A failing targeter stops the attack; its result is added all the same.
TargeterFails(w) ==
  /\ "targeter" \in Failures
  /\ worker[w] = "target"
  /\ StopLooks(w)
  /\ failed' = failed \cup {<<"targeter", w>>}
  /\ Turn(w, "unsent")
  /\ UNCHANGED <<hit, takes, owner, generated, body, own, seq, stopped, timer, lock, results, err,
                 outcome, all>>

AddOwn(w, r) ==
  /\ own' = [own EXCEPT ![w] = AddResult(@, r)]
  /\ all' = Append(all, r)
  /\ Turn(w, "loop")
  /\ UNCHANGED <<hit, takes, owner, generated, body, seq, stopped, stopping, timer, lock, results,
                 err, outcome, failed>>

\* The answer of client.Do(), or its error (code 0).
Answered(w) ==
  /\ worker[w] = "send"
  /\ \E a \in Answers :
       AddOwn(w, [at |-> hit[w], latency |-> a.latency, code |-> a.code, error |-> a.error])

AddUnsent(w) ==
  /\ worker[w] = "unsent"
  /\ w \notin stopping
  /\ AddOwn(w, [at |-> hit[w], latency |-> 1, code |-> 0, error |-> "targeter"])

\* results.Add() or the metric factory fails: attack() returns the error.
HitFails(w) ==
  /\ "worker" \in Failures
  /\ worker[w] = "send"
  /\ failed' = failed \cup {<<"worker", w>>}
  /\ Turn(w, "fail")
  /\ UNCHANGED <<hit, takes, owner, generated, body, own, seq, stopped, stopping, timer, lock,
                 results, err, outcome, all>>

Locked(w) ==
  /\ worker[w] \in {"merge", "fail"}
  /\ lock = Nobody
  /\ lock' = w
  /\ Turn(w, IF worker[w] = "merge" THEN "merging" ELSE "failing")
  /\ UNCHANGED <<hit, takes, owner, generated, body, own, seq, stopped, stopping, timer, results,
                 err, outcome, all, failed>>

\* The merge succeeds; an error that another worker left is overwritten.
Merge(w) ==
  /\ worker[w] = "merging"
  /\ results' = MergeReports(results, own[w])
  /\ err' = FALSE
  /\ lock' = Nobody
  /\ Turn(w, "done")
  /\ UNCHANGED <<hit, takes, owner, generated, body, own, seq, stopped, stopping, timer, outcome, all,
                 failed>>

\* "Treat any worker error as fatal."
FailStops(w) ==
  /\ worker[w] = "failing"
  /\ err' = TRUE
  /\ StopLooks(w)
  /\ Turn(w, "unlock")
  /\ UNCHANGED <<hit, takes, owner, generated, body, own, seq, stopped, timer, lock, results, outcome,
                 all, failed>>

\* Mutant: the early return of a failed worker leaves the mutex locked.
UnlockForgotten(w) ==
  /\ worker[w] = "unlock"
  /\ w \notin stopping
  /\ Turn(w, "done")
  /\ UNCHANGED <<hit, takes, owner, generated, body, own, seq, stopped, stopping, timer, lock,
                 results, err, outcome, all, failed>>

Unlock(w) ==
  /\ worker[w] = "unlock"
  /\ w \notin stopping
  /\ lock' = Nobody
  /\ Turn(w, "done")
  /\ UNCHANGED <<hit, takes, owner, generated, body, own, seq, stopped, stopping, timer, results,
                 err, outcome, all, failed>>

(* --------------------------- the timer and Attack() ---------------------- *)

\* After the duration, or when somebody else stopped the attack.
TimerFires ==
  /\ timer = "waiting"
  /\ timer' = "done"
  /\ StopLooks("timer")
  /\ UNCHANGED <<worker, hit, takes, owner, generated, body, own, seq, stopped, lock, results, err,
                 outcome, all, failed>>

\* wg.Wait() is over.
AttackReturns ==
  /\ outcome = "running"
  /\ \A w \in Workers : worker[w] = "done"
  /\ timer = "done" /\ stopping = {}
  /\ outcome' = IF err THEN "error" ELSE "report"
  /\ UNCHANGED <<worker, hit, takes, owner, generated, body, own, seq, stopped, stopping, timer,
                 lock, results, err, all, failed>>

AttackerStep(w) ==
  /\ outcome = "running"
  /\ \/ Loop(w) \/ Generate(w) \/ PutBuilder(w) \/ CopyBody(w) \/ Answered(w)
     \/ TargeterFails(w) \/ AddUnsent(w) \/ HitFails(w)
     \/ Locked(w) \/ Merge(w) \/ FailStops(w) \/ Unlock(w) \/ StopCloses(w)

TimerStep == outcome = "running" /\ (TimerFires \/ StopCloses("timer"))

AttackNext == (\E w \in Workers : AttackerStep(w)) \/ TimerStep \/ AttackReturns

\* The goroutines run, and the time of the attack passes.
AttackFairness ==
  /\ \A w \in Workers : WF_attackVars(AttackerStep(w))
  /\ WF_attackVars(TimerStep)
  /\ WF_attackVars(AttackReturns)

AttackSpec == AttackInit /\ [][AttackNext]_attackVars /\ AttackFairness

(* ------------------------------- properties ------------------------------ *)

AttackTypeOK ==
  /\ \A b \in Builders : owner[b] = Nobody \/ takes[owner[b]] = b
  /\ \A w \in Workers : (worker[w] \in {"merging", "failing", "unlock"}) = (lock = w)
  /\ \A w \in Workers : (takes[w] # Nobody) = (worker[w] \in {"generated", "copy"})
  /\ stopping \subseteq Workers \cup {"timer"}
  /\ seq \in 0 .. MaxHits
  /\ outcome \in {"running", "report", "error", "panicked"}

\* Unless a worker failed, the report that Attack() returns is the one that a
\* single worker would have made of all the requests that were begun, also of
\* those whose targeter failed: no result is lost or counted twice, in whatever
\* order the workers stop and merge (attack.go:123-139, metrics.go:108).
ReportIsUnion ==
  (outcome = "report" /\ \A w \in Workers : <<"worker", w>> \notin failed) =>
    results = ReportOf(all) /\ results.requests = seq

\* The body of a request is the one that was generated for it: the targeter
\* hands its caller bytes that no other worker writes to.
BodyIsOwn == \A w \in Workers : worker[w] = "send" => body[w] = hit[w]

\* An attack that has begun returns once its time is over, whatever fails; it
\* panics only if a targeter or a worker fails while another goroutine is in
\* Stop(): the timer alone never closes stopch twice (attack.go:166-173).
AttackEnds ==
  (seq > 0) ~> \/ outcome \in {"report", "error"}
               \/ outcome = "panicked" /\ failed # {}
=============================================================================
