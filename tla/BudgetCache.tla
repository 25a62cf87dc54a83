----------------------------- MODULE BudgetCache -----------------------------
(***************************************************************************)
(* The budget cache of the bidder: cache/budget.go.                        *)
(*                                                                         *)
(* The cache holds a pointer `state' to an immutable-in-shape table of     *)
(* atomic counters, one per campaign.  A refresh allocates a new table,    *)
(* fills it while the database scan delivers records and, when the scan    *)
(* succeeded, swaps the pointer.  Tables are never reused, so a table is   *)
(* identified here by the number of tables allocated before it, its        *)
(* generation.                                                             *)
(*                                                                         *)
(* Goroutines: the updater started by start(), which serves an unbuffered  *)
(* request channel and a ticker; one short-lived goroutine per refresh,    *)
(* started by asyncUpdate(); the goroutines that call AsyncUpdate(); and   *)
(* the one that calls stop().                                              *)
(***************************************************************************)
EXTENDS Integers, FiniteSets

CONSTANTS
    Campaigns,   \* campaigns known to the campaign cache
    Records,     \* campaign IDs that have a record in the budget table
    Amounts,     \* amounts a budget record may hold when it is read
    Callers,     \* goroutines that may call AsyncUpdate(), once each
    MaxTicks,    \* bound: how often the ticker fires
    MaxStates    \* bound: how many tables are allocated

ASSUME CacheAssumption ==
    /\ IsFiniteSet(Callers)
    /\ Amounts \subseteq Int
    /\ MaxTicks \in Nat
    /\ MaxStates \in Nat \ {0}

Gens == 1..MaxStates

VARIABLES
    state,              \* Budget.state: the generation auctions read
    available,          \* [Gens -> [Campaigns -> Int]]: BudgetState.available
    states,             \* number of tables allocated so far
    scanned,            \* [Gens -> SUBSET Records]: records delivered so far
    loaded,             \* history: what the scan put into each table
    task,               \* [Gens -> ...]: control state of the refresh goroutine
    updater,            \* control state of the goroutine of start()
    updateInProgress,   \* Budget.updateInProgress
    updateWg,           \* Budget.updateWg
    tick,               \* is a tick waiting in updateTicker.C (capacity 1)?
    ticks,              \* number of ticks so far
    call,               \* [Callers -> ...]: progress of each AsyncUpdate() call
    stopper             \* control state of the goroutine that calls stop()

tableVars == <<state, available, states, scanned, loaded>>
taskVars  == <<task, updater, updateInProgress, updateWg>>
cacheVars == <<state, available, states, scanned, loaded, task, updater,
               updateInProgress, updateWg, tick, ticks, call, stopper>>

TaskStates    == {"none", "fill", "swap", "clear", "leave", "gone"}
UpdaterStates == {"select", "cas", "exited"}
CallStates    == {"none", "blocked", "returned", "panicked"}
StopStates    == {"running", "send", "wait", "close", "stopped"}

NoBudget == [c \in Campaigns |-> 0]

(***************************************************************************)
(* Control predicates.                                                     *)
(***************************************************************************)
Open == stopper # "stopped"             \* close(updateChannel) not yet reached

\* The refresh goroutine between its CAS and its Store(false).
InFlight(g) == task[g] \in {"fill", "swap", "clear"}

\* The refresh goroutine between updateWg.Add(1) and updateWg.Done().
Alive(g) == task[g] \in {"fill", "swap", "clear", "leave"}

-----------------------------------------------------------------------------
(***************************************************************************)
(* newBudget() scans synchronously; the program does not come up when that *)
(* scan fails.  start() then launches the updater.                         *)
(***************************************************************************)
CacheInit ==
    /\ \E first \in [Campaigns -> Amounts \cup {0}] :
          /\ \A c \in Campaigns : (c \in Records) => first[c] \in Amounts
          /\ \A c \in Campaigns : (c \notin Records) => first[c] = 0
          /\ loaded = [g \in Gens |-> IF g = 1 THEN first ELSE NoBudget]
    /\ available = loaded
    /\ state = 1
    /\ states = 1
    /\ scanned = [g \in Gens |-> IF g = 1 THEN Records ELSE {}]
    /\ task = [g \in Gens |-> IF g = 1 THEN "gone" ELSE "none"]
    /\ updater = "select"
    /\ updateInProgress = FALSE
    /\ updateWg = 1
    /\ tick = FALSE
    /\ ticks = 0
    /\ call = [p \in Callers |-> "none"]
    /\ stopper = "running"

-----------------------------------------------------------------------------
(***************************************************************************)
(* The operations of BudgetState, each one atomic add on a counter.  They  *)
(* act on the table the caller holds, published or not any more.           *)
(***************************************************************************)
Reserve(g, c, v) == available' = [available EXCEPT ![g][c] = @ - v]

\* Mutant: Reserve() looks at the counter before it subtracts.
ReservedEarly(g, c, v) == available[g][c] >= 0

\* What Reserve() returns: is the counter non-negative after the subtraction?
Reserved(g, c, v) == available[g][c] - v >= 0

Free(g, c, v) == available' = [available EXCEPT ![g][c] = @ + v]

-----------------------------------------------------------------------------
(***************************************************************************)
(* AsyncUpdate(): a send on the unbuffered updateChannel.  The sender is   *)
(* blocked until the updater receives; on a closed channel it panics.      *)
(***************************************************************************)
AsyncUpdate(p) ==
    /\ call[p] = "none"
    /\ call' = [call EXCEPT ![p] = IF Open THEN "blocked" ELSE "panicked"]
    /\ UNCHANGED <<tableVars, taskVars, tick, ticks, stopper>>

\* The updater's select takes a `true' from the channel.
ReceiveRequest(p) ==
    /\ call[p] = "blocked"
    /\ updater = "select"
    /\ call' = [call EXCEPT ![p] = "returned"]
    /\ updater' = "cas"
    /\ UNCHANGED <<tableVars, task, updateInProgress, updateWg, tick, ticks, stopper>>

\* The ticker fires; a tick that finds the channel full is dropped.
Tick ==
    /\ stopper = "running"
    /\ ticks < MaxTicks
    /\ ticks' = ticks + 1
    /\ tick' = TRUE
    /\ UNCHANGED <<tableVars, taskVars, call, stopper>>

\* The updater's select takes a tick.
ReceiveTick ==
    /\ tick
    /\ updater = "select"
    /\ tick' = FALSE
    /\ updater' = "cas"
    /\ UNCHANGED <<tableVars, task, updateInProgress, updateWg, ticks, call, stopper>>

(***************************************************************************)
(* asyncUpdate(), run by the updater: the compare-and-swap decides whether *)
(* a refresh starts or the request is dropped.                             *)
(***************************************************************************)
\* Mutant: the updater returns from its loop when a refresh is in progress.
UpdateDroppedReturns ==
    /\ updater = "cas"
    /\ updateInProgress
    /\ updater' = "exited"
    /\ UNCHANGED <<tableVars, task, updateInProgress, updateWg, tick, ticks, call, stopper>>

UpdateDropped ==
    /\ updater = "cas"
    /\ updateInProgress
    /\ updater' = "select"
    /\ UNCHANGED <<tableVars, task, updateInProgress, updateWg, tick, ticks, call, stopper>>

\* Mutant: no compare-and-swap, every request starts a refresh.
UpdateStartedAlways ==
    /\ updater = "cas"
    /\ states < MaxStates
    /\ updateInProgress' = TRUE
    /\ updateWg' = updateWg + 1
    /\ states' = states + 1
    /\ task' = [task EXCEPT ![states + 1] = "fill"]
    /\ updater' = "select"
    /\ UNCHANGED <<state, available, scanned, loaded, tick, ticks, call, stopper>>

\* Mutant: updateWg.Add(1) is missing.
UpdateStartedUncounted ==
    /\ updater = "cas"
    /\ ~updateInProgress
    /\ states < MaxStates
    /\ updateInProgress' = TRUE
    /\ states' = states + 1
    /\ task' = [task EXCEPT ![states + 1] = "fill"]
    /\ updater' = "select"
    /\ UNCHANGED <<state, available, scanned, loaded, updateWg, tick, ticks, call, stopper>>

UpdateStarted ==
    /\ updater = "cas"
    /\ ~updateInProgress
    /\ states < MaxStates
    /\ updateInProgress' = TRUE
    /\ updateWg' = updateWg + 1
    /\ states' = states + 1
    /\ task' = [task EXCEPT ![states + 1] = "fill"]
    /\ updater' = "select"
    /\ UNCHANGED <<state, available, scanned, loaded, tick, ticks, call, stopper>>

-----------------------------------------------------------------------------
(***************************************************************************)
(* The refresh goroutine of generation g: scanState(), the swap under      *)
(* stateMutex, and the two deferred calls in the order they run.           *)
(***************************************************************************)

\* The consumer of scanState() gets one record; unknown campaigns are skipped.
ConsumeRecord(g, r, v) ==
    /\ task[g] = "fill"
    /\ r \in Records \ scanned[g]
    /\ scanned' = [scanned EXCEPT ![g] = @ \cup {r}]
    /\ IF r \in Campaigns
       THEN /\ available' = [available EXCEPT ![g][r] = @ + v]
            /\ loaded' = [loaded EXCEPT ![g][r] = @ + v]
       ELSE UNCHANGED <<available, loaded>>
    /\ UNCHANGED <<state, states, taskVars, tick, ticks, call, stopper>>

\* FetchAll() returns nil once every record was delivered.
ScanSucceeds(g) ==
    /\ task[g] = "fill"
    /\ scanned[g] = Records
    /\ task' = [task EXCEPT ![g] = "swap"]
    /\ UNCHANGED <<tableVars, updater, updateInProgress, updateWg, tick, ticks, call, stopper>>

\* Mutant: asyncUpdate() swaps although scanState() returned an error.
ScanFailsSwaps(g) ==
    /\ task[g] = "fill"
    /\ task' = [task EXCEPT ![g] = "swap"]
    /\ UNCHANGED <<tableVars, updater, updateInProgress, updateWg, tick, ticks, call, stopper>>

\* FetchAll() returns an error, whatever it delivered before.
ScanFails(g) ==
    /\ task[g] = "fill"
    /\ task' = [task EXCEPT ![g] = "clear"]
    /\ UNCHANGED <<tableVars, updater, updateInProgress, updateWg, tick, ticks, call, stopper>>

SwapState(g) ==
    /\ task[g] = "swap"
    /\ state' = g
    /\ task' = [task EXCEPT ![g] = "clear"]
    /\ UNCHANGED <<available, states, scanned, loaded, updater, updateInProgress,
                   updateWg, tick, ticks, call, stopper>>

ClearInProgress(g) ==
    /\ task[g] = "clear"
    /\ updateInProgress' = FALSE
    /\ task' = [task EXCEPT ![g] = "leave"]
    /\ UNCHANGED <<tableVars, updater, updateWg, tick, ticks, call, stopper>>

\* Mutant: updateWg.Done() is missing.
TaskDoneUncounted(g) ==
    /\ task[g] = "leave"
    /\ task' = [task EXCEPT ![g] = "gone"]
    /\ UNCHANGED <<tableVars, updater, updateInProgress, updateWg, tick, ticks, call, stopper>>

TaskDone(g) ==
    /\ task[g] = "leave"
    /\ updateWg' = updateWg - 1
    /\ task' = [task EXCEPT ![g] = "gone"]
    /\ UNCHANGED <<tableVars, updater, updateInProgress, tick, ticks, call, stopper>>

Refresh(g) ==
    \/ \E r \in Records, v \in Amounts : ConsumeRecord(g, r, v)
    \/ ScanSucceeds(g)
    \/ ScanFails(g)
    \/ SwapState(g)
    \/ ClearInProgress(g)
    \/ TaskDone(g)

-----------------------------------------------------------------------------
(***************************************************************************)
(* stop(): stop the ticker, hand `false' to the updater, wait for every    *)
(* goroutine of the cache, close the channel.  A tick that was already in  *)
(* the ticker's channel stays there.                                       *)
(***************************************************************************)
StopTicker ==
    /\ stopper = "running"
    /\ stopper' = "send"
    /\ UNCHANGED <<tableVars, taskVars, tick, ticks, call>>

\* The rendezvous of `updateChannel <- false' with the updater, which returns.
ReceiveStop ==
    /\ stopper = "send"
    /\ updater = "select"
    /\ stopper' = "wait"
    /\ updater' = "exited"
    /\ updateWg' = updateWg - 1
    /\ UNCHANGED <<tableVars, task, updateInProgress, tick, ticks, call>>

WaitTasks ==
    /\ stopper = "wait"
    /\ updateWg = 0
    /\ stopper' = "close"
    /\ UNCHANGED <<tableVars, taskVars, tick, ticks, call>>

\* close(updateChannel) makes every blocked sender panic.
CloseChannel ==
    /\ stopper = "close"
    /\ stopper' = "stopped"
    /\ call' = [p \in Callers |-> IF call[p] = "blocked" THEN "panicked" ELSE call[p]]
    /\ UNCHANGED <<tableVars, taskVars, tick, ticks>>

-----------------------------------------------------------------------------
(***************************************************************************)
(* The cache on its own, its counters left alone (module BudgetAuction     *)
(* adds the auctions that use them).  Its users owe it two things: nobody  *)
(* calls AsyncUpdate() once stop() was called, and stop() is called only   *)
(* when no call is outstanding.                                            *)
(***************************************************************************)
UserCalls(p) == stopper = "running" /\ AsyncUpdate(p)
UserStops    == (\A p \in Callers : call[p] # "blocked") /\ StopTicker

Updater == ReceiveTick \/ UpdateDropped \/ UpdateStarted
Stopper == ReceiveStop \/ WaitTasks \/ CloseChannel

CacheStep ==
    \/ \E p \in Callers : UserCalls(p) \/ ReceiveRequest(p)
    \/ Tick
    \/ Updater
    \/ \E g \in Gens : Refresh(g)
    \/ UserStops
    \/ Stopper

\* Everything has ended: not a deadlock.
CacheEnded ==
    /\ stopper = "stopped"
    /\ UNCHANGED cacheVars

CacheNext == CacheStep \/ CacheEnded

(***************************************************************************)
(* Fairness: the Go scheduler runs every runnable goroutine; a select with *)
(* several ready cases picks one at random, and blocked senders are served *)
(* in arrival order, so a sender that is offered again and again is taken  *)
(* (strong fairness).  FetchAll() returns: every database call it makes    *)
(* has a deadline.                                                         *)
(***************************************************************************)
CacheFairness ==
    /\ \A p \in Callers : SF_cacheVars(ReceiveRequest(p))
    /\ WF_cacheVars(Updater)
    /\ \A g \in Gens : WF_cacheVars(Refresh(g))
    /\ SF_cacheVars(ReceiveStop)
    /\ WF_cacheVars(WaitTasks \/ CloseChannel)

CacheSpec == CacheInit /\ [][CacheNext]_cacheVars /\ CacheFairness

-----------------------------------------------------------------------------
CacheTypeOK ==
    /\ state \in Gens
    /\ available \in [Gens -> [Campaigns -> Int]]
    /\ states \in Gens
    /\ scanned \in [Gens -> SUBSET Records]
    /\ loaded \in [Gens -> [Campaigns -> Int]]
    /\ task \in [Gens -> TaskStates]
    /\ updater \in UpdaterStates
    /\ updateInProgress \in BOOLEAN
    /\ updateWg \in Nat
    /\ tick \in BOOLEAN
    /\ ticks \in 0..MaxTicks
    /\ call \in [Callers -> CallStates]
    /\ stopper \in StopStates

(***************************************************************************)
(* Auctions never read a table that is still being filled or whose scan    *)
(* failed: the published table holds every record of one scan              *)
(* (asyncUpdate() returns before the swap on an error).                    *)
(***************************************************************************)
PublishedIsComplete == scanned[state] = Records

(***************************************************************************)
(* At most one refresh is in flight, and updateInProgress tells whether    *)
(* there is one (the compare-and-swap of asyncUpdate() and the deferred    *)
(* Store(false)).                                                          *)
(***************************************************************************)
OneUpdateInFlight ==
    /\ updateInProgress = (\E g \in Gens : InFlight(g))
    /\ \A g, h \in Gens : InFlight(g) /\ InFlight(h) => g = h

(***************************************************************************)
(* Once stop() has stopped waiting, every goroutine the cache ever started *)
(* has finished, no caller was caught by the close of the channel, and     *)
(* nothing of the cache changes any more.                                  *)
(***************************************************************************)
StopIsClean ==
    stopper \in {"close", "stopped"} =>
        /\ updater = "exited"
        /\ \A g \in Gens : ~Alive(g)
        /\ \A p \in Callers : call[p] \notin {"blocked", "panicked"}

(***************************************************************************)
(* The published table is only ever replaced by one whose scan started     *)
(* later: a slow refresh cannot overwrite a newer one with older data.     *)
(***************************************************************************)
NeverOlder == [][state' # state => state' > state]_cacheVars

(***************************************************************************)
(* Nobody waits for ever, although requests, ticks and refreshes, fast or  *)
(* slow, are in progress: stop() returns; a caller of AsyncUpdate() is     *)
(* never stuck behind other callers, the ticker or a refresh (the reason   *)
(* asyncUpdate() scans in a goroutine of its own); and every refresh, also *)
(* a failed one, re-arms the cache, so that a later request can start      *)
(* another one.                                                            *)
(***************************************************************************)
CacheNeverHangs ==
    /\ (stopper = "send") ~> (stopper = "stopped")
    /\ \A p \in Callers : (call[p] = "blocked") ~> (call[p] = "returned")
    /\ updateInProgress ~> ~updateInProgress
=============================================================================
