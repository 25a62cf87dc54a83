# TLA+ models of the real-time bidder

The repository deploys a bidder (Go, `src/apps/bidder`), the tools that load and
feed it (`src/tools`: load generator, report aggregator, data generator), an
experimental copy of its auction that asks a model server
(`src/apps/model`), and the infrastructure around them. These modules
specify the parts of it whose correctness depends on the order in which
things happen: the budget cache and the auctions that draw on it, the scans that
fill the caches, the lookup of campaigns and devices, the Kinesis producer, the
handling of requests in the life of the server; and, of the tools, the attack of
the load generator with its reports, and the generator of the tables.

Paths below are relative to `src/apps/bidder/code/` unless they start with `src/`.
`PROJECT.json` lists, definition by definition, the lines each one stands for.

## 1. The system

One bid request, inside the bidder:

```
 HTTP handler (bidhandler) --parse--> auction.Run --format--> response
      |                                 |  |  |
      |                      device query  |  Budget.Reserve / Free
      |                                    |  Budget.AsyncUpdate --.
      |                     audience/campaign cache                | goroutine
      '-- stream.Put --> producer --> Kinesis                      v
                                              FetchAll (DynamoDB scan, DAX, Aerospike)
```

### Inventory

Each entry: the state, the operations, the partners, what is hard, and what makes
the component correct.

| Component | State | Operations | Hard | Correct when |
|---|---|---|---|---|
| Budget cache (`cache/budget.go`) | pointer to a table of atomic counters, `updateInProgress`, `updateWg`, an unbuffered request channel, a ticker | `start`, `stop`, `AsyncUpdate`, `asyncUpdate`, `scanState`, `Reserve`, `Free` | a tick, requests, refreshes and `stop()` interleave; a scan fails half way; a channel is closed | only complete, newer tables are published; one refresh at a time; `stop()` returns, leaves nothing running, panics nobody |
| Auction (`auction/auction.go`) | per request: indices, snapshot, winners | `Run`, `getDevice`, `getAudienceCampaigns`, `chooseCampaign` | auctions reserve several campaigns one by one, without a lock, while the table is swapped | counters stay exact, nothing is oversold, the best granted campaign wins, every auction ends |
| Campaign lookup and pools (`auction/pool.go`) | pooled buffers; pooled lookup tables stamped with a run number | `get`, `put`, and their use | nothing is cleared between two auctions | each targeting campaign once, nothing from an earlier auction |
| Campaign, audience, device caches (`cache/campaign.go`, `audience.go`, `device.go`) | slices and maps, written once | two loading scans, reads | indices depend on the order of a parallel scan; audiences name invalid campaigns | an index leads back to its campaign |
| Scans (`database/dynamodb/scan*.go`) | a worker per segment, a mutex, a WaitGroup, `lastError` | `scan`, `scanWorkerDynamo`, `scanWorkerDAX`, `callConsumer` | segments fail alone; `lastError` has no lock; pages may be empty | every item once, or an error; the consumer never entered twice; it returns |
| DynamoDB and Aerospike repositories | none | decode items, call the consumer | Aerospike reads a list of batch keys and then each batch | a table is of one generation |
| Low-level device query (`database/dynamodb/low_level`) | pooled query objects: credentials, signer with the key of the day, buffers | `Get`, `renewCredentials`, `buildBody`, `SignRequest`, `parseResponse` | reused base64 buffer with padding; a cached key and credentials that expire at different times | the device's audiences; key, date, credentials and body of a signature belong together |
| Kinesis producer (`stream/producer`) | two bounded channels, current batch, flush workers, three pools | `Put`, `aggregate`, `flush`, `sendRequest`, `Close` | back pressure, ticks, partial failures, retries, shutdown order, pooled memory | a message accepted is settled once, confirmed once if it is delivered, never lost in the pipeline; `Put` and `Close` return |
| Batches, entries, sizes (`stream/producer/batch*.go`, `size.go`) | three counters; a buffer | `tryAddMessage`, `compileBatch`, size formulas | sizes are predicted, not measured; a message may be larger than an entry | a request is within the limits of Kinesis |
| Stream service (`stream/stream.go`) | producer or nothing | `Put`, `Close` | a `Put` after `Close` | passes through |
| Bid handler (`bidhandler`) | pooled request, response, parser; counters and a gauge | parse, auction, stream, answer, deferred calls | fields are slices of the parser's buffer; many early returns; the stream may refuse the request or its bid as too large | what is streamed is what was answered, to the request that asked; each request counted once |
| Response builder (`bidhandler/bidresponse.go`, `price`, `id`, `ksuid`) | a buffer | format | | layout only |
| Server life cycle (`app`, `server`, `diagnostic_server`) | two listeners, `stop`, `errReturn`, services | start, interrupt, `Shutdown`, close in order | errors, signals and draining race | services close only when no request uses them; `App()` returns, with the error that ended the wait |
| Metrics (`metrics`) | buffered summaries behind channels | `Observe`, `CloseService` | closing closes a channel | nobody observes after it, nothing observed is lost |
| Inference variant (`src/apps/model`) | as the auction | one HTTP call more | | as the auction |
| Load generator: attack (`src/tools/load-generator`) | workers, `stopch`, pooled builders, a report each | `Attack`, `attack`, `hit`, `Stop`, the targeter | check-then-close; a buffer handed on after it is back in the pool; merged errors | the report counts every request once; `Attack()` returns |
| Load generator: reports; report aggregator (`src/tools/report-aggregator`) | metrics, latencies, histograms; logs of pods | `Add`, `Merge`; `findJob`, `aggregateMetrics` | zero as "nothing yet"; rounding | the combination is the report of all requests |
| Load generator: requests (`request_builder`) | templates, random fields | `Generate` | the bidder must accept them, the data generator must have made their devices | a request is no refusal; bid devices exist, no-bid devices do not |
| Data generator (`src/tools/datagen`) | a channel of records, writers with buffers, a ticker | resolve flags, `GenerateX`, `PutBuffered`, `Close`, `ClearBudgetBatches` | partial writes, two-step writes, readers meanwhile; each run has flags of its own | a run without an error has written everything |
| Infrastructure (`src/cdk`, charts, test servers) | | | | not modelled |

The hazards of this code, each at its line and with the properties that cover it,
are in `PROJECT.json`.

## 2. Modules

| Module | Models | Instance, proofs |
|---|---|---|
| `BudgetCache` | `cache/budget.go`: the updater, ticks, requests, refreshes, `stop()` | `MCBudgetCache`, `BudgetAuction_proofs` |
| `BudgetAuction` | `auction/auction.go` over `BudgetCache`, in the life of the server | `MCBudgetAuction`, `BudgetAuction_proofs` |
| `BudgetLedger` | abstract: atomic sales against budgets, refreshes | refined by `BudgetAuction`: `BudgetAuction_proofs` |
| `Targeting` | loading of campaigns and audiences; lookup and pools of the auction | `MCTables`, `Tables_proofs` |
| `DeviceQuery` | device cache and repository; the low-level query in full | `MCTables`, `Tables_proofs` |
| `FetchAll` | abstract: what the caches take a scan to be | refined by `TableScan`: `Tables_proofs` |
| `TableScan` | the parallel DynamoDB and DAX scan | `MCTraffic`, `Tables_proofs` |
| `Delivery` | abstract: what the producer promises | refined by `Producer`: `Producer_proofs` |
| `Producer` | `Put`, `aggregate`, the flush workers, the pools, `Close` | `MCProducer`, `Producer_proofs` |
| `Batch` | the arithmetic of a batch, shared by the next module and `Producer` | |
| `Batching` | a batch from its first message to its compiled request | `MCTables`, `Batching_proofs` |
| `RecordSize` | `size.go`, `const.go` with their real constants | `Batching_proofs` only: every length is covered by the proof |
| `BidHandler` | `bidhandler`: routes, `HandleRequest()`, parsers, answers, object pool, counters | `MCTraffic`, `Lifecycle_proofs` |
| `Lifecycle` | `app`, both servers, `stream.go`, buffered summaries; EXTENDS `BidHandler` | `MCTraffic`, `Lifecycle_proofs` |
| `LoadReport` | pure: reports, histograms, their merging, the aggregation of reports | through the next two, `Reports_proofs` |
| `LoadAttack` | `Attacker` and its targeter; EXTENDS `LoadReport` | `MCTraffic`, `Reports_proofs` |
| `Aggregator` | the report aggregator; EXTENDS `LoadReport` | `MCTraffic`, `Reports_proofs` |
| `RequestBuilder` | pure: the load generator's requests and device numbers | `MCTraffic`, `MCTables` |
| `DataGen` | the data generator with both databases | `MCTables`, `BudgetBatches_proofs` |
| `BudgetBatches` | the reader of Aerospike's budget batches beside the generator; EXTENDS `DataGen` | `MCTables`, `BudgetBatches_proofs` |
| `DeviceNumbers` | the numbers both tools give to devices; EXTENDS `BudgetBatches` and `RequestBuilder` | `MCTables`, `BudgetBatches_proofs` |
| `FoldTheorems` | no code: what folds, sums and joined sequences of the community modules yield | used by `Batching_proofs`, `Reports_proofs` and `BudgetBatches_proofs` |

How they fit together: `BudgetAuction` EXTENDS `BudgetCache`, so it is the
composition of the two. It in turn shows (`CacheContract`) that it uses
the cache as `BudgetCache` on its own assumes its users to do: nobody requests a
refresh once `stop()` was called. `BudgetCache` takes a scan as records that
arrive in any order and may end in an error at any point, and `Targeting` takes
its two scans likewise: that is `FetchAll`, which `TableScan` implements.
`BudgetAuction` chooses freely among lists of campaigns
without duplicates: `Targeting` shows that `getAudienceCampaigns()` gives such
lists. `Producer` EXTENDS `Batch`; `Batching` shows that the batches fit, and
`RecordSize` that the real limits satisfy what `Batching` assumes.

`Lifecycle` puts the handlers of `BidHandler` into the server that starts, serves
and closes the services under them; `BudgetAuction` takes from it that the cache
is stopped only when no auction runs, and `Lifecycle` shows when that holds
(`NoUseAfterClose`) and when not (`missed`). The two ends of the tools are checked
against each other and the bidder: the requests of the load generator
are the ones the bidder's handlers are checked with, its device numbers are those the data
generator writes (`DevicesKnown`), the budget batches that the data generator
writes are read whole (`ReadsAllStored`), and the reports of several generators
add up to one (`AggregateIsUnion`).

`MCTables` and `MCTraffic` each hold several systems that share no state. A variable
`focus`, chosen initially, says which of them a behaviour is about; it never changes, the others
rest, and the fairness of each counts only in its own behaviours.

### State and actions against the code

*BudgetCache.* A table is never reused, so it is named by its generation,
the number of tables allocated up to it; `state` is the published one,
`available[g]` its counters, `loaded[g]` what the scan put in (history). `task[g]`
is the program counter of the refresh goroutine (`fill`: `scanState()`; `swap`: the
assignment under the write lock; `clear` and `leave`: its two deferred calls, in
the order they run). `updater` is the goroutine of `start()`: it waits in `select`, or is
about to do the compare-and-swap. `call[p]` is a goroutine inside `AsyncUpdate()`,
blocked until the updater receives, panicked if the channel was closed. `stopper`
walks through `stop()`.

*BudgetAuction.* `pc[a]` follows one request through `Run()`. `ReserveNext` is one
round of the first loop of `chooseCampaign()`, with its atomic subtraction;
`PickWinner` the random choice among the best; `FreeNext` one round of the second
loop. `winningAuctions` is a set: the code draws from it at random, and its
duplicates cannot arise. The no-bid path blocks in `AsyncUpdate()`. The server
serves, drains in `Shutdown()` and is down; then the services are closed.

*Targeting.* `ConsumeCampaign` and `ConsumeAudience` are the consumers of the scans;
`NextRun` is `l.runID++` with the allocation of the table. Pools are sets of
objects; `get` may return any of them or a fresh one, and objects vanish whenever
`sync.Pool` likes (`Collect`). An object in no pool that nobody holds has not been allocated.
Indices count from 1; filtered lists keep their positions, so that order and
duplicates are those of the record.

*TableScan.* A worker reads pages (`page`), and the items in a page (`pos`), under
`mutex`. An assignment to `lastError` is a data race between workers: its two words
are stored one by one, in either order (`StoreWord`).

*Producer.* A buffer or an entry is a memory cell, and messages are read from it
when they are used; returning it to a pool too early lets another `Put()`
overwrite it. `aggregate()` is `AggReceives`, `AggTick`, `AggDrains` and the send
`AggSends`; a worker takes a batch, compiles it entry by entry, and calls
Kinesis. An answer confirms all, some or none of the records (`confirmed`). A send without
an answer may have stored any of them (`doubtful`), and the default retryer of the SDK, which
`stream.go` leaves on, then sends the whole request again inside the same call
(`RequestResent`) until the call fails (`RequestFails`) or an answer comes. So a record may
be in the stream twice; that is not an error of the producer, and what is said of it
is said of confirmations. How often the SDK tries is not bounded in the model.

*BidHandler.* `pc[r]` follows `HandleRequest()` in a goroutine of fasthttp. The
objects of the pool are cells (`data`); an `auction.Request` is not a value of its own but a
look into the parser of the object the handler holds, because its fields are slices of that
parser's buffer: a handler that put its object back too early would read the next
request. `sync.Pool` may hand out any object that nobody holds, with what the
last request left in it, or a new one. The auction is one step with any outcome. `unfit` says of a
request whether it, or the bid that repeats its ID, is too large for the stream: `PutRequest` and
`WriteResponse` then log the refusal and go on. The
deferred calls are `PutObject`, `ObserveDuration`, `Reply`, in the order they run.

*Lifecycle.* `main` is `App()` from `initializeServices()` to its return; every step of the
start may fail. `stop` is the channel with room for one signal: an interrupt that
finds it full is dropped, a listener's callback that finds it full waits (`calling`).
`closing` is what the two goroutines of `shutdown()` still have to do. `Shutdown()` of
a server whose listener does not exist yet returns at once, and that server may
start afterwards; `missed` records it. `CloseService` follows the order of
`services.close()`; `main` being a summary's name means that its `CloseService()` waits
for the goroutine (`Collect`) to empty the closed channel. A send on a channel that was closed
sets `main` to `panicked` (`SendOnClosed`, `Observe`). `App()` reads `errReturn` (`ShutdownReturns`) and assigns it
by its `return err` (`ReturnErr`) in two steps, between which a callback may write it (`overtaken`). The
two words of an error are not torn here: both callbacks and `shutdown()` store what `errors.Wrap()`
returns, so the first word is the same.

*DeviceQuery.* A hash is the term of what was hashed, so that a signature made with
the wrong key, date or body is a different value. Credentials are the number of the
period they are valid in; `CredentialsExpire` and `Midnight` may happen between any two
steps of a query. The answer is decoded over the whole of the reused buffer: `DecodedIDs`
counts what the loop of `parseResponse()` makes of the padding.

*LoadReport, LoadAttack, Aggregator.* A report is a record of numbers, `AddResult` and
`MergeReports` are `Add()` and `Merge()` of `Metrics` with its latencies and
histogram. `worker[w]` follows `attack()` and `hit()`; a target's body is a pointer to
the buffer of a builder (`takes`) until `CopyBody`. `Stop()` is a look at `stopch`
(`StopLooks`) and a close (`StopCloses`). The aggregator reads the logs of the pods in any order, and
appends the errors of each report: an error is listed once per report that has it (`ErrorsListed`).

*RequestBuilder, DataGen, BudgetBatches.* A key stands for its encryption. `offered` is
what the generator's goroutine has still to send; a writer takes a record, buffers it
(DynamoDB, with batches that may be processed in part, and a ticker that flushes
behind its back) or writes it at once (Aerospike, a budget batch in two steps: its key in the list,
then its bytes). Each run (`Generate`) is a process with flags of its own: any configuration of the same
table and database, so that a batch may be replaced by a smaller or a larger one. `orphans` are the batches
not written since the keys were cleared, `filled` the keys of the runs that ended without an error
(history). `GetKeys` and `GetBatch` are the reader by keys, which owes every stored batch but the orphans;
`ScanAll` and `ScanRecord` are the other one, which owes all of them.

*Batch, Batching, RecordSize.* Messages are their sizes. The constants of the first two are
small in the runs and arbitrary in the proofs; those of the last are the ones in the code. `Put()` checks
the size of the raw message and batches the compressed one, so the sizes in a batch have no bound: `Accepted` is
the check on the raw size, `Compilable` that of `compileMessages()` on the compressed one. A message that fits no
entry leaves `compileBatch()` in its loop; the model stops it at `MaxEntries`, one more than a request may have.

## 3. Runs

| Run | Question | States |
|---|---|---|
| `budget_cache` | Is only a complete, newer table published, at most one refresh in flight, does every call and `stop()` return, and `stop()` leave nothing behind? | all interleavings of two callers, a tick, scans that fail anywhere, `stop()` |
| `budget_auction` | Can three auctions that reserve two campaigns crosswise oversell one? Do they implement the ledger? | three callers, refreshes on demand, the shutdown |
| `auction_ties` | Are counters exact and is the winner the best with ties, with a negative price, a campaign without a record, and a tick that swaps the table meanwhile? Is the cache used as it demands? Does every auction end, and the shutdown complete? | two auctions, three campaigns |
| `spurious_no_bid` | (violation) Is a no-bid always due to spent budgets? | two auctions, two campaigns; see findings |
| `tables` | Does an auction get each targeting campaign exactly once, whatever the pools hand out? Is a device query signed with what belongs together, whenever credentials expire and the day changes? Are entries of a batch what was counted, and within the limits? Has the data generator written everything when it says so, do its devices have different audiences, does a reader see all of it? | lookup: two handlers, two objects of each pool, two runs per table; query: two lookups, two objects; batch: every sequence of sizes that a small request admits, one size larger than an entry; data: eleven configurations, two runs |
| `stale_signer` | (violation) Does an object's signer follow its credentials? | as `tables` |
| `traffic` | Does a bid answer its own request and does the stream tell the same? Do the services outlive their users, does `App()` return the right error, is nothing unrecorded? Is a scan a `FetchAll`, and does it return? Does the attack end, with a report of every request, and do the pods' reports add up? | two handlers, two requests of every kind or two plain ones with every failure; two segments; two attackers; two pods |
| `load_body` | (violation) Is the body a worker sends the one generated for it? | as `traffic` |
| `scan_error` | (violation) Is the error of a scan an error of a worker? | as `traffic` |
| `producer` | Does the producer deliver as promised, is a message confirmed at most once and not sent again once it is settled, with partial failures, lost answers, requests sent again by the SDK, errors, growing messages and `Close()`? | four messages, channels of one element, two workers |
| `producer_liveness` | Do `Put()` and `Close()` return, and does a lone message leave? | two messages, two workers |
| `producer_grows` | (violation) Does `Close()` end when a message grows by being compressed? | two messages, one worker |

Bounds, and why they are enough. Of the cache: `MaxTicks` limits ticks, every
caller calls once, and `MaxStates` is chosen in `MCMaxStates` so that no
compare-and-swap is ever cut off. With two callers and a tick a request meets a running
refresh, a blocked request and a waiting `stop()` at once. The budget is one or two
sales, so that counters pass through zero and below, with several auctions in each
phase. Auctions run once each: an auction leaves nothing behind but its charge,
which the counters keep. `MaxRunID = 2` lets a lookup table be used again
with what an earlier run left in it. Channels of one element are full and empty
within a few steps, and two workers and three messages suffice for a batch to be
compiled while the memory of another is given back; the limits of `MCProducer`
make a batch close for its size, on the tick and in the drain.

Of `MCTables`: devices with one and with three audiences have encodings with and
without padding; two periods and two days let credentials expire, and the key of the day change,
between any two steps of a query. Messages of the batch have sizes 2, 3, 5 and 6, the last larger than an entry.
A key range that ends inside a batch, limits in the wrong order and
flags left out are among the configurations; `putManyBatchLimit` is 2, so that batches
are full, partial and cut, and two runs (`MaxRuns`) let a reader meet a batch being replaced, by
the same campaigns or, as ranges and batch sizes differ, by others, and let two runs divide a device table.
Aerospike is written with one writer and DynamoDB with up to two: writers share nothing but the channel and the table.
Of `MCTraffic`: the server is checked with two handlers and two requests (`MaxRequests`)
over two objects, so that an object goes from one request to another while a third thing
happens; every kind of request while nothing fails (`requests`), among them one that is too large for the
stream and one whose bid alone is, and every failure, signal and
step of a shutdown with plain requests (`failures`): what fails does not depend on
what was asked. `BufferSize` is 1, so that a summary's channel is full as well as empty. The scan has a
segment with an empty page before its last and one that ends with an empty page.
The attack begins two requests (`MaxHits`) with two workers, a timer, and both kinds of failure; the pods
made one or two requests each, whose codes, latencies and errors differ.

Symmetry is used only in
runs without liveness properties, over workers, buffers, entries, handlers and
tables, which are interchangeable.

Deadlock is checked where a terminal state is distinguished (`CacheEnded`, `Ended`,
`ProducerEnded`). It is not checked in `tables`, `traffic` and the violation runs of
their instances, whose systems simply stop: `App()` or the attack has returned, a scan or an
aggregation is done, a batch is compiled, a lookup table was used as often as the bound allows. That the
goroutines of `traffic` do not wait for one another is what its liveness properties say.

### Fairness

* Goroutines run: weak fairness of each one's next step.
* A `select` with several ready cases picks at random, and goroutines blocked on a
  channel are served in order of arrival: strong fairness of a receive that is offered
  again and again (`ReceiveRequest`, `ReceiveStop`, `AggReceives`, the ticks of the aggregator).
* Database and Kinesis calls return: each has a timeout
  (`OperationTimeout`; the Kinesis client's, whose SDK sends a request at most three times).
* `sendRequest()` retries without a limit; for the liveness of the producer some
  call of each request is assumed not to fail in part. Nothing is
  assumed of errors, ticks of the budget cache, requests and the interrupt.
* The consumer mutex of a scan needs no more than weak fairness of the
  workers: each takes it once per page, so that a waiting worker finds it
  free for good in the end. The same holds of the mutex of the attack.
* In `traffic`: weak fairness of `App()`, of the two goroutines of `shutdown()`, of a
  callback whose send can proceed, of each handler, of each summary's goroutine, of each worker of the
  attack and of its timer. Nothing is assumed of clients, signals, listeners, or of a listener
  that is to be opened.

### Findings

* `spurious_no_bid`: `chooseCampaign()` reserves every campaign before it knows the
  winner. An auction is refused a campaign that another one holds; that one then chooses a dearer
  campaign and frees the first. Nobody buys it, its budget is there, and the refused
  auction answers no bid, asks for a refresh, and logs and counts spent budgets. A campaign that some
  auction may still choose counts as spent here, so a refusal before a sale is no violation.
* `producer_grows`: `Put()` compares the size before compression. A message that
  grows beyond an entry makes `compileBatch()` loop for ever, and `Close()` waits.
* `scan_error`: the shared `lastError` of a scan can hold half of each of two errors.
* `stale_signer`: when renewing credentials fails, `renewCredentials()` has already
  replaced them by empty ones, which never expire: the object goes on signing with the expired key.
* `load_body`: the targeter of the load generator puts its builder back into the pool
  before the worker has copied the body, so two workers can send the same request.

## 4. Proofs

Eight modules hold theorems, checked by TLAPS for every value of the constants that
satisfies the named assumptions of the modules (finite sets of callers, handlers or workers,
non-zero prices, duplicate-free targeting lists, non-empty segments, limits that leave
room for one message, as much memory as there are messages, and the like; the runs evaluate
them). Of the reports it is assumed that a request takes time, which a monotonic clock
guarantees and `Metrics.Add()` needs (a latency of 0 means none yet), and that each pod made a request, as
the aggregator divides by their number (`src/tools/report-aggregator/aggregator.go:71`); of the device
table, that it ends below the numbers that the load generator keeps for no-bids. Nothing is assumed of the
sizes of messages. One theorem (`ProducerDelivers`) has a hypothesis of its own, named below.

* **`BudgetAuction_proofs`, the cache.** The inductive invariant ties the flag, the
  WaitGroup and the program counters to each other: `updateInProgress` is set exactly while one
  refresh is between its compare-and-swap and its reset, and `updateWg` is the
  number of live goroutines; a table past its `fill` phase has all records; every
  table in flight is newer than the published one. The properties are not
  inductive alone: that a swapped table is complete needs the fact about `swap`, that
  `Wait()` waits for everybody needs the count.
* **`BudgetAuction_proofs`, the auctions.** `BudgetExact` is proved from a description of what each
  auction holds at each point (`Held`); the lemmas say how a set of
  holders and its cardinality change when one auction moves. `NoOverspend` follows from
  it and from one more conjunct: at the moment a reservation was granted, the counter was
  not negative, so all holders then present could be paid; and a sold campaign
  stays granted.
  From the same invariant the auctions implement `BudgetLedger`: `PickWinner` is the
  atomic sale, `SwapState` the refresh, everything else stutters. And the auctions
  keep the contract of the cache: its invariants, proved for the cache alone, hold in the bidder.
* **`Tables_proofs`, the lookup.** An entry of a lookup table never exceeds its run number, and
  during a run it equals that number exactly at the indices collected so
  far; two handlers never hold one object. From this, `TargetedExactly`.
* **`Tables_proofs`, the scan.** An item was consumed once if it is before its worker's
  position, else not at all; a worker that is through has read its segment or an
  error is recorded; the mutex is held exactly by the worker inside the
  consumer; the WaitGroup counts the others. From this, the refinement of `FetchAll`.
* **`Batching_proofs`.** Two neighbouring entries hold more than one entry's capacity
  together, which bounds the number of entries by the bytes (`Paid`): the test of
  `tryAddMessage()` on the number of entries is off by one and never needed.
  Then the size formulas of `RecordSize` equal the protobuf encoding for all messages
  below 2 MiB, `compileMessages()` takes exactly the messages whose encoding fits (`CompilableExactly`), and
  the real limits satisfy the assumptions of `Batching`. `AcceptedCompiles` says what the check of
  `Put()` is worth: a message that compression does not make larger can be compiled, and the largest
  one that is let in cannot when it grows by one byte.
  The compiled request is proved from where the messages are cut: a function `start` says at which message
  each entry began when `tryAddMessage()` counted (`Divides`), and `compileBatch()`, which decides anew where
  to cut, always stands at one of these places (`Reached`). Each entry it writes then has the length, and the sum, of
  one part; the parts join to the messages. A message that fits no entry is a part of its own, before which
  `compileBatch()` stays. `CompiledAlwaysAsCounted` follows.
* **`FoldTheorems`.** A fold is a choice of a function on pairs in the community modules. That such a function exists
  and steps through a sequence is shown without the induction theorems of the library, which take an operator: a set of
  naturals that has 0 and the successor of each member is all of them (`Upwards`), because otherwise
  there would be a least one outside. A property is given as the set of the numbers it holds of.
* **`Reports_proofs`, the attack.** A report is described without order: `ReportOn(S, s)` counts the positions `S` of the sequence
  of results `s`. Adding a result adds a position, merging two reports of disjoint sets joins them, and
  `ReportOf`, a fold, is the report on all positions. The invariant (`AttackInv`) gives each result to a
  worker (`by`) and says which workers have merged theirs; `results` is the report on what these made. When `Attack()` returns
  without a failure all have, so it is the report on everything. The number of requests
  is the number of results, as no worker is between the counter and its result any more.
* **`Reports_proofs`, the aggregator.** The logs are read in some order without repetition (`Listed`); sums,
  earliest, latest and largest over that order equal those over the union of the pods' positions, so the order does not
  matter. The success rate is one division of one sum; a percentile is a bucket found by a search
  from below (`UpToIs`), whose bounds follow as the counts up to a bucket only rise.
* **`Producer_proofs`.** The invariant says where everything is: a buffer is in one part of the
  pipeline, once (`OneHome`), and in use while it is there (`BuffersKept`); an entry in use is in
  one request, and no message is encoded twice (`EntriesKept`); what the entries of a worker
  hold is what it has compiled, and from the moment the buffers are released, nobody else has it
  (`WorkersKept`); an accepted message is in one or the other (`NoneDropped`); and `Close()`
  empties the parts from the front (`ClosedInOrder`). `InOnePlace` counts places, which
  no step preserves by itself; it follows by showing that the place of a message is unique
  and exists. `ConfirmedOnce` needs that messages in a request are still unsettled, and that what Kinesis has
  confirmed of a request is no longer in it. The refinement
  of `Delivery` supposes one flush worker at least (`Workers # {}`): with `KINESIS_MAX_CONNECTIONS`
  0 the code starts none, `Close()` waits for none, and what is in `outputChan` stays there.
  How many messages an entry takes is not used: the proof holds for any number that
  `compileMessages()` may return, none included.
* **`Lifecycle_proofs`.** Handlers: an object of the pool is free or held by one handler, and what the
  handler reads from it is what its own client sent. Server: the services are closed after the
  listener has stopped and the handlers are drained, or `missed` is set; once a listener has failed, the error that
  `App()` returns is a listener's, unless a callback wrote it between the read and the assignment of `errReturn`
  (`overtaken`), when it is that of the shutdown or a listener's; a summary holds what was observed, less what is
  in its channel. Of the stream: what was streamed so far follows from the request and the place its handler is at.
* **`Tables_proofs`, the device query.** The key of a query object belongs to its date and its credentials, through renewals
  that fail half-way; what is decoded is computed by cases from the length and padding of the text.
* **`BudgetBatches_proofs`.** Unless a writer has failed, every record of a run is on the channel, with a
  writer (in hand or in its buffer) or written (`NothingLost`), whatever comes back from a batch write and
  whoever flushes; writers end with an empty buffer only when the channel is closed (`WritersKeep`). From this,
  what a run without an error has written. That it is one row for each key is arithmetic: the batches of
  budgets cut the range into disjoint parts, and a device's audiences are fewer than the modulus. A batch that
  was written since the keys were cleared is listed before it is stored (`Listed`). Runs differ, so a batch may be
  replaced by one of other campaigns, but only by a newer one. A batch that a read owes is still to be read or has
  been consumed, as it was or newer (`Reading`). From this, `ReadsAllStored`. The rows of the
  audience table are a fold (`ReverseIndex`): a campaign is in the row of an audience as often as their pair is in the
  joined pairs of all campaigns (`IndexCounts`), which is once, as a device's audiences differ and each key comes once
  (`ReverseIndexIs`). With that, `WrittenWhenNil` is proved of all four tables. `LoadFindsItsDevices` takes from
  the same invariant that the devices of every run without an error are stored (`Filled`), whichever runs came
  before and after, and from the assumption on the device table that none beyond its end is.

Only model-checked: every liveness property (fairness and ENABLED are out of the
prover's reach), and, as conjunctions over systems that share a module only to be checked, `TablesTypeOK` and
`TrafficTypeOK`: their parts are proved of each system (`LookupTypeCorrect`, `BatchTypeCorrect`, `TypeCorrect`
of `Lifecycle_proofs`, `ScanTypeCorrect`, `AttackTypeCorrect`).

## 5. What is abstracted

* Counters are unbounded integers; in the code they are `int64` micro-units, which
  the generated budgets do not approach.
* Records, campaigns, messages are model values; JSON, protobuf, compression,
  base64 and logs are represented by sizes or left out. Of the metrics, the outcome counters,
  the gauge and the buffered summaries are modelled, in the bid handler.
* `fasthttp` and `net/http` are modelled by what the code relies on: in `BudgetAuction`,
  `Shutdown` returns when no request is active; in `Lifecycle` also when there is no listener or
  closing it fails. A response is sent when the handler has returned.
* A panic ends the process.
* Some edges of the code are left to a reader, as no property is about them: with no scan
  workers (`DYNAMODB_SCAN_WORKERS` 0) `scan()` returns at once without an item, which `ScanAssumption`
  excludes; `Histogram.Merge()` overwrites the total of a merged histogram, which no report shows; a latency
  below the first bucket would be counted in the last, but the buckets start at 0.
* A hash is a term, credentials and days are numbers; nothing is said of cryptography.
* `AggregateIsUnion` excepts the end of the attack: `aggregateSimpleMetrics()` compares it with
  the latest beginning (`src/tools/report-aggregator/aggregator.go:57`), as `AggregateEnd` does. The errors
  are compared with how often they are listed: one generator lists an error once (`metrics.go:40`), the combined report
  once per pod that met it (`aggregator.go:47`).
* What a read of budgets is promised is said of batches, not of campaigns. When runs with other ranges or batch sizes
  replace batches, a campaign may be in an old batch and in a new one: a scan delivers both, in any order, so
  that an older budget may overwrite a newer one; and a campaign that moves to another batch during a read may be
  missed until the next refresh. Neither is excluded by `ReadsAllStored`, nor by the code.
* Data generator jobs that run side by side are modelled as runs one after the other; each job writes a range of its own.
* A server whose listener comes up after `Shutdown()` has returned serves on closed services: `NoUseAfterClose` excepts
  it (`missed`); requests on connections that are kept alive are not told apart from new ones. Of the attack: a worker that
  merges after another one has failed overwrites the shared `err` by nil (`attack.go:137-139`), so that `Attack()` may return a
  report although a worker failed. The model does so too, and `ReportIsUnion` excepts it, as `AttackEnds`
  excepts the double close of `stopch` when a worker or a targeter fails.
* Pods that were deleted from the cluster before their logs are read are not in the aggregator's list, and not in the model.
* Ticks of a ticker that finds its channel full are dropped, as in Go.
* A refresh reads each record at some amount in `Amounts`; two refreshes may read
  different amounts, as the database changes in between.
* A consumer call of a scan that fails delivers nothing: each consumer decodes its item
  first, and the consumers of the caches never fail.
* Batches of the producer are sequences of messages; the object from `batchPool`
  is not followed separately from the messages in it.

## 6. Not modelled

* The inference variant (`src/apps/model`): a copy of the auction with one HTTP call to a model server in front of
  each bid, which is not built into the bidder.
* The layout of what is written: JSON of bid responses, prices as text, ksuids, the encoders of
  `results.go` and `reporters.go` of the load generator, of which it uses one, the text of the
  aggregator's report, and the generated protobuf code of `messages.pb.go`, whose sizes `RecordSize` proves.
* Decoding of items in the DynamoDB and Aerospike repositories: sequential, without state.
* Profiling, the handlers of the diagnostic server, and reading of configuration.
* Infrastructure (`src/cdk`, charts, test servers, fixtures): no run-time state of the bidder.

## 7. Plan

Done: the budget cache and the auctions; the lookups; the scans; the producer; the bid
handler in the life of the server; the load generator, the aggregator and the data generator; the proofs of section 4.
Every property of a passing run is proved but those that section 4 names as only
model-checked. What is left is to model the inference variant of the auction, if it is ever built into the bidder.
