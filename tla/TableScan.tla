----------------------------- MODULE TableScan ------------------------------
(***************************************************************************)
(* The parallel scan of a DynamoDB table: Client.scan() and its workers    *)
(* scanWorkerDynamo() and scanWorkerDAX(), which differ only in the API    *)
(* they call (database/dynamodb/scan.go, scan_dynamo.go, scan_dax.go).     *)
(*                                                                         *)
(* Every worker reads one segment of the table page by page and passes the *)
(* items of a page to the consumer while it holds a mutex, since consumers *)
(* append to maps and slices without a lock.  The worker that fails leaves *)
(* its error in a variable that all workers share without a lock: that is  *)
(* a data race on an interface value, and such a value has two words, its  *)
(* type and its data, which are stored one after the other.                *)
(*                                                                         *)
(* The table does not change during the scan.  A consumer call that fails  *)
(* delivers nothing: every consumer decodes the item before it passes      *)
(* anything on, and what the caches do with it never fails.                *)
(***************************************************************************)
EXTENDS Integers, Sequences, FiniteSets

CONSTANTS
    ScanWorkers,   \* one per segment: 0 .. cfg.ScanWorkers - 1
    Pages,     \* Pages[w]: the number of items in each page of w's segment
    NoWorker   \* nobody holds the mutex

ASSUME ScanAssumption ==
    /\ IsFiniteSet(ScanWorkers)
    /\ ScanWorkers # {}
    /\ Pages \in [ScanWorkers -> Seq(Nat) \ {<<>>}]
    /\ NoWorker \notin ScanWorkers

NoError == "nil"
Errors  == {"timeout", "request", "format"}

\* The item at position i of page p of w's segment.
PageItems(w, p) == {<<w, p, i>> : i \in 1..Pages[w][p]}
Items == UNION {UNION {PageItems(w, p) : p \in DOMAIN Pages[w]} : w \in ScanWorkers}

VARIABLES
    at,          \* [ScanWorkers -> "scan", "lock", "consume", "store", "leave", "done"]
    page,        \* [ScanWorkers -> the page that exclusiveStartKey leads to]
    pos,         \* [ScanWorkers -> items of that page already consumed]
    mutex,       \* consumerMutex: the worker that holds it
    workerErr,   \* [ScanWorkers -> what scanWorker() returned]
    unstored,    \* [ScanWorkers -> words of workerErr still to be stored in lastError]
    lastError,   \* the shared lastError, word by word
    wg,          \* counter of the WaitGroup
    returned,    \* has scan() returned?
    consumed     \* history: [Items -> how often the consumer got it]

scanVars == <<at, page, pos, mutex, workerErr, unstored, lastError, wg, returned, consumed>>

ScanInit ==
    /\ at = [w \in ScanWorkers |-> "scan"]
    /\ page = [w \in ScanWorkers |-> 1]
    /\ pos = [w \in ScanWorkers |-> 0]
    /\ mutex = NoWorker
    /\ workerErr = [w \in ScanWorkers |-> NoError]
    /\ unstored = [w \in ScanWorkers |-> {}]
    /\ lastError = [type |-> NoError, data |-> NoError]
    /\ wg = Cardinality(ScanWorkers)
    /\ returned = FALSE
    /\ consumed = [i \in Items |-> 0]

-----------------------------------------------------------------------------
PageSize(w) == Pages[w][page[w]]
LastPage(w) == page[w] = Len(Pages[w])

\* The goroutine of scan() looks at the error of its worker.
WorkerFails(w, e) ==
    /\ workerErr' = [workerErr EXCEPT ![w] = e]
    /\ unstored' = [unstored EXCEPT ![w] = {"type", "data"}]
    /\ at' = [at EXCEPT ![w] = "store"]

\* The request for the next page is answered.
Scan(w) ==
    /\ at[w] = "scan"
    /\ at' = [at EXCEPT ![w] = "lock"]
    /\ UNCHANGED <<page, pos, mutex, workerErr, unstored, lastError, wg, returned, consumed>>

\* The request runs into its timeout or is refused.
SegmentFails(w) ==
    /\ at[w] = "scan"
    /\ \E e \in {"timeout", "request"} : WorkerFails(w, e)
    /\ UNCHANGED <<page, pos, mutex, lastError, wg, returned, consumed>>

\* Mutant: the consumer is called without the mutex.
LockFree(w) ==
    /\ at[w] = "lock"
    /\ at' = [at EXCEPT ![w] = "consume"]
    /\ UNCHANGED <<page, pos, mutex, workerErr, unstored, lastError, wg, returned, consumed>>

Lock(w) ==
    /\ at[w] = "lock"
    /\ mutex = NoWorker
    /\ mutex' = w
    /\ at' = [at EXCEPT ![w] = "consume"]
    /\ UNCHANGED <<page, pos, workerErr, unstored, lastError, wg, returned, consumed>>

\* consume() takes the next item of the page.
Consume(w) ==
    /\ at[w] = "consume"
    /\ pos[w] < PageSize(w)
    /\ pos' = [pos EXCEPT ![w] = @ + 1]
    /\ consumed' = [consumed EXCEPT ![<<w, page[w], pos[w] + 1>>] = @ + 1]
    /\ UNCHANGED <<at, page, mutex, workerErr, unstored, lastError, wg, returned>>

\* Mutant: the mutex is not released on the way out.
ConsumeFailsLocked(w) ==
    /\ at[w] = "consume"
    /\ pos[w] < PageSize(w)
    /\ WorkerFails(w, "format")
    /\ UNCHANGED <<page, pos, mutex, lastError, wg, returned, consumed>>

\* consume() refuses the item; the deferred Unlock() runs.
ConsumeFails(w) ==
    /\ at[w] = "consume"
    /\ pos[w] < PageSize(w)
    /\ mutex' = NoWorker
    /\ WorkerFails(w, "format")
    /\ UNCHANGED <<page, pos, lastError, wg, returned, consumed>>

\* Mutant: a page without items is taken for the end of the segment.
PageDoneUnlessEmpty(w) ==
    /\ at[w] = "consume"
    /\ pos[w] = PageSize(w)
    /\ mutex' = NoWorker
    /\ IF LastPage(w) \/ PageSize(w) = 0
       THEN /\ at' = [at EXCEPT ![w] = "leave"]
            /\ UNCHANGED <<page, pos>>
       ELSE /\ page' = [page EXCEPT ![w] = @ + 1]
            /\ pos' = [pos EXCEPT ![w] = 0]
            /\ at' = [at EXCEPT ![w] = "scan"]
    /\ UNCHANGED <<workerErr, unstored, lastError, wg, returned, consumed>>

\* The page is consumed: Unlock(), and on to LastEvaluatedKey, if any.
PageDone(w) ==
    /\ at[w] = "consume"
    /\ pos[w] = PageSize(w)
    /\ mutex' = NoWorker
    /\ IF LastPage(w)
       THEN /\ at' = [at EXCEPT ![w] = "leave"]
            /\ UNCHANGED <<page, pos>>
       ELSE /\ page' = [page EXCEPT ![w] = @ + 1]
            /\ pos' = [pos EXCEPT ![w] = 0]
            /\ at' = [at EXCEPT ![w] = "scan"]
    /\ UNCHANGED <<workerErr, unstored, lastError, wg, returned, consumed>>

\* lastError = err, one word of it.
StoreWord(w) ==
    /\ at[w] = "store"
    /\ \E word \in unstored[w] :
         /\ lastError' = [lastError EXCEPT ![word] = workerErr[w]]
         /\ unstored' = [unstored EXCEPT ![w] = @ \ {word}]
         /\ at' = [at EXCEPT ![w] = IF unstored'[w] = {} THEN "leave" ELSE @]
    /\ UNCHANGED <<page, pos, mutex, workerErr, wg, returned, consumed>>

\* Mutant: Done() is called twice, once deferred and once on the error path.
LeaveTwice(w) ==
    /\ at[w] = "leave"
    /\ wg' = IF workerErr[w] = NoError THEN wg - 1 ELSE wg - 2
    /\ at' = [at EXCEPT ![w] = "done"]
    /\ UNCHANGED <<page, pos, mutex, workerErr, unstored, lastError, returned, consumed>>

\* wg.Done()
Leave(w) ==
    /\ at[w] = "leave"
    /\ wg' = wg - 1
    /\ at' = [at EXCEPT ![w] = "done"]
    /\ UNCHANGED <<page, pos, mutex, workerErr, unstored, lastError, returned, consumed>>

\* wg.Wait() lets scan() go on.
Return ==
    /\ wg = 0
    /\ ~returned
    /\ returned' = TRUE
    /\ UNCHANGED <<at, page, pos, mutex, workerErr, unstored, lastError, wg, consumed>>

WorkerStep(w) ==
    \/ Scan(w) \/ SegmentFails(w) \/ Lock(w) \/ Consume(w) \/ ConsumeFails(w)
    \/ PageDone(w) \/ StoreWord(w) \/ Leave(w)

ScanNext == Return \/ \E w \in ScanWorkers : WorkerStep(w)

ScanSafe == ScanInit /\ [][ScanNext]_scanVars

\* Goroutines are scheduled, every request ends by its timeout, and the Go
\* mutex is handed over in the end to whoever waits for it.
ScanFairness == WF_scanVars(Return) /\ \A w \in ScanWorkers : WF_scanVars(WorkerStep(w))

ScanSpec == ScanSafe /\ ScanFairness

-----------------------------------------------------------------------------
\* Every variable holds a value of its kind; the WaitGroup counts the workers
\* that have not called Done(), so it never panics as negative (scan.go:41-49).
ScanTypeOK ==
    /\ at \in [ScanWorkers -> {"scan", "lock", "consume", "store", "leave", "done"}]
    /\ page \in [ScanWorkers -> Nat] /\ \A w \in ScanWorkers : page[w] \in DOMAIN Pages[w]
    /\ pos \in [ScanWorkers -> Nat] /\ \A w \in ScanWorkers : pos[w] <= PageSize(w)
    /\ mutex \in ScanWorkers \cup {NoWorker}
    /\ workerErr \in [ScanWorkers -> Errors \cup {NoError}]
    /\ unstored \in [ScanWorkers -> SUBSET {"type", "data"}]
    /\ lastError \in [type : Errors \cup {NoError}, data : Errors \cup {NoError}]
    /\ wg = Cardinality({w \in ScanWorkers : at[w] # "done"})
    /\ returned \in BOOLEAN
    /\ consumed \in [Items -> Nat]

\* The consumers of the caches write maps and slices without a lock, so two
\* workers must never be inside the consumer at once, errors included
\* (callConsumerV1, callConsumerV2).
OneConsumer ==
    \A v, w \in ScanWorkers : at[v] = "consume" /\ at[w] = "consume" => v = w

\* scan() is a FetchAll: no item twice, none missing unless an error is
\* returned, nothing after the return.  A caller tests the error against nil,
\* that is, its type word (scan.go:55).
Outcome ==
    IF ~returned THEN "running"
    ELSE IF lastError.type = NoError THEN "ok" ELSE "failed"

Fetch == INSTANCE FetchAll WITH delivered <- consumed, outcome <- Outcome

ImplementsFetchAll == Fetch!FetchSpec

\* scan() returns, whichever workers fail and whoever holds the mutex then.
ScanReturns == <>returned

\* The error that scan() returns is one that a worker returned, not the type
\* of one and the data of another.
ErrorIsWhole == returned => lastError.type = lastError.data
=============================================================================
