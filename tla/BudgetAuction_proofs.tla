------------------------- MODULE BudgetAuction_proofs ------------------------
(***************************************************************************)
(* Proofs about budgets.  First the cache on its own, for any set of       *)
(* campaigns and callers and any number of refreshes; then concurrent      *)
(* auctions, for any number of auctions, campaigns and refreshes, any      *)
(* prices and any budgets.  The lemmas about single steps of the cache are *)
(* used again where its callers are the auctions.                          *)
(***************************************************************************)
EXTENDS BudgetAuction, FiniteSetTheorems, TLAPS

-----------------------------------------------------------------------------
(***************************************************************************)
(* The inductive invariant of the cache.  Types alone are not inductive:   *)
(* that WaitGroup.Done() keeps updateWg natural needs the exact count of   *)
(* the goroutines, and that a swap publishes a newer, complete table needs the *)
(* order in which tables are allocated and the state of the one refresh    *)
(* that can be in flight.                                                  *)
(***************************************************************************)
AliveTasks == {g \in Gens : Alive(g)}

WgExact ==
    updateWg = Cardinality(AliveTasks) + (IF updater = "exited" THEN 0 ELSE 1)

AllocatedInOrder ==
    /\ \A g \in Gens : task[g] = "none" <=> g > states
    /\ \A g \in Gens : task[g] \in {"fill", "swap"} => g = states /\ g > state
    /\ state <= states

CompleteTables ==
    /\ scanned[state] = Records
    /\ \A g \in Gens : task[g] = "swap" => scanned[g] = Records

UpdaterRuns == updater = "exited" <=> stopper \in {"wait", "close", "stopped"}

WaitedForAll == stopper \in {"close", "stopped"} => updateWg = 0

CacheInv ==
    /\ CacheTypeOK
    /\ WgExact
    /\ OneUpdateInFlight
    /\ AllocatedInOrder
    /\ CompleteTables
    /\ UpdaterRuns
    /\ WaitedForAll

\* A counter of one table takes an integer amount.
LEMMA CounterType ==
    ASSUME NEW T \in [Gens -> [Campaigns -> Int]], NEW g \in Gens,
           NEW c \in Campaigns, NEW x \in Int
    PROVE  /\ [T EXCEPT ![g][c] = @ + x] \in [Gens -> [Campaigns -> Int]]
           /\ [T EXCEPT ![g][c] = @ - x] \in [Gens -> [Campaigns -> Int]]
<1>1. T[g] \in [Campaigns -> Int] /\ T[g][c] \in Int
  OBVIOUS
<1>2. [T[g] EXCEPT ![c] = @ + x] \in [Campaigns -> Int]
  BY <1>1
<1>3. [T[g] EXCEPT ![c] = @ - x] \in [Campaigns -> Int]
  BY <1>1
<1> QED
  BY <1>1, <1>2, <1>3

LEMMA AliveFinite ==
    /\ IsFiniteSet(AliveTasks)
    /\ Cardinality(AliveTasks) \in Nat
<1>1. IsFiniteSet(Gens)
  BY FS_Interval, CacheAssumption DEF Gens
<1>2. AliveTasks \in SUBSET Gens
  BY DEF AliveTasks
<1> QED
  BY <1>1, <1>2, FS_Subset, FS_CardinalityType

LEMMA CacheInitInv == CacheInit => CacheInv
<1> SUFFICES ASSUME CacheInit PROVE CacheInv
  OBVIOUS
<1>0. 1 \in Gens /\ Gens \subseteq Nat
  BY CacheAssumption DEF Gens
<1>1. CacheTypeOK
  <2>1. PICK first \in [Campaigns -> Amounts \cup {0}] :
            loaded = [g \in Gens |-> IF g = 1 THEN first ELSE NoBudget]
    BY DEF CacheInit
  <2>2. first \in [Campaigns -> Int] /\ NoBudget \in [Campaigns -> Int]
    <3>1. Amounts \cup {0} \subseteq Int
      BY CacheAssumption
    <3> QED
      BY <3>1 DEF NoBudget
  <2>3. loaded \in [Gens -> [Campaigns -> Int]]
    BY <2>1, <2>2
  <2>4. available \in [Gens -> [Campaigns -> Int]]
    BY <2>3 DEF CacheInit
  <2>5. scanned \in [Gens -> SUBSET Records]
    BY DEF CacheInit
  <2>6. task \in [Gens -> TaskStates] /\ call \in [Callers -> CallStates]
    BY DEF CacheInit, TaskStates, CallStates
  <2>7. /\ updater \in UpdaterStates /\ stopper \in StopStates
        /\ updateInProgress \in BOOLEAN /\ tick \in BOOLEAN
    BY DEF CacheInit, UpdaterStates, StopStates
  <2>8. /\ state \in Gens /\ states \in Gens
        /\ updateWg \in Nat /\ ticks \in 0..MaxTicks
    BY <1>0, CacheAssumption DEF CacheInit
  <2> QED
    BY <2>3, <2>4, <2>5, <2>6, <2>7, <2>8 DEF CacheTypeOK
<1>2. WgExact
  <2>1. AliveTasks = {}
    BY DEF CacheInit, AliveTasks, Alive
  <2> QED
    BY <2>1, FS_EmptySet DEF CacheInit, WgExact
<1>3. OneUpdateInFlight
  BY DEF CacheInit, OneUpdateInFlight, InFlight
<1>4. AllocatedInOrder
  BY <1>0, CacheAssumption DEF CacheInit, AllocatedInOrder, Gens
<1>5. CompleteTables
  BY <1>0 DEF CacheInit, CompleteTables
<1>6. UpdaterRuns /\ WaitedForAll
  BY DEF CacheInit, UpdaterRuns, WaitedForAll
<1> QED
  BY <1>1, <1>2, <1>3, <1>4, <1>5, <1>6 DEF CacheInv

-----------------------------------------------------------------------------
(***************************************************************************)
(* Steps that touch neither the tables nor the refresh goroutines.         *)
(***************************************************************************)

\* The parts of the invariant about tables and refreshes read these variables.
LEMMA TablesFrame ==
    ASSUME CacheInv,
           UNCHANGED <<state, states, scanned, task, updateInProgress>>
    PROVE  /\ AliveTasks' = AliveTasks
           /\ OneUpdateInFlight'
           /\ AllocatedInOrder'
           /\ CompleteTables'
<1>1. AliveTasks' = AliveTasks
  BY DEF AliveTasks, Alive
<1>2. OneUpdateInFlight'
  BY DEF CacheInv, OneUpdateInFlight, InFlight
<1>3. AllocatedInOrder'
  BY DEF CacheInv, AllocatedInOrder
<1>4. CompleteTables'
  BY DEF CacheInv, CompleteTables
<1> QED
  BY <1>1, <1>2, <1>3, <1>4

LEMMA CallStepsInv ==
    ASSUME CacheInv, NEW p \in Callers,
           AsyncUpdate(p) \/ ReceiveRequest(p)
    PROVE  CacheInv'
<1> USE DEF CacheInv, tableVars, taskVars
<1>1. CASE AsyncUpdate(p)
  <2>1. CacheTypeOK'
    BY <1>1 DEF AsyncUpdate, CacheTypeOK, CallStates, Open
  <2>2. WgExact' /\ UpdaterRuns' /\ WaitedForAll'
    BY <1>1, TablesFrame DEF AsyncUpdate, WgExact, UpdaterRuns, WaitedForAll
  <2> QED
    BY <1>1, <2>1, <2>2, TablesFrame DEF AsyncUpdate
<1>2. CASE ReceiveRequest(p)
  <2>1. CacheTypeOK'
    BY <1>2 DEF ReceiveRequest, CacheTypeOK, CallStates, UpdaterStates
  <2>2. WgExact' /\ UpdaterRuns' /\ WaitedForAll'
    BY <1>2, TablesFrame DEF ReceiveRequest, WgExact, UpdaterRuns, WaitedForAll
  <2> QED
    BY <1>2, <2>1, <2>2, TablesFrame DEF ReceiveRequest
<1> QED
  BY <1>1, <1>2

LEMMA TickInv ==
    ASSUME CacheInv, Tick
    PROVE  CacheInv'
<1> USE DEF CacheInv, tableVars, taskVars
<1>1. CacheTypeOK'
  BY CacheAssumption DEF Tick, CacheTypeOK
<1>2. WgExact' /\ UpdaterRuns' /\ WaitedForAll'
  BY TablesFrame DEF Tick, WgExact, UpdaterRuns, WaitedForAll
<1> QED
  BY <1>1, <1>2, TablesFrame DEF Tick

-----------------------------------------------------------------------------
(***************************************************************************)
(* The updater.  Starting a refresh is the step that makes a new goroutine *)
(* and a new table.                                                        *)
(***************************************************************************)
LEMMA UpdateStartedInv ==
    ASSUME CacheInv, UpdateStarted
    PROVE  CacheInv'
<1> USE DEF CacheInv, UpdateStarted
<1> DEFINE n == states + 1
<1>1. /\ n \in Gens /\ states \in Gens /\ n > states
      /\ Gens \subseteq Nat
  BY CacheAssumption DEF CacheTypeOK, Gens
<1>2. task[n] = "none" /\ ~Alive(n)
  BY <1>1 DEF AllocatedInOrder, Alive
<1>3. CacheTypeOK'
  <2>1. task' \in [Gens -> TaskStates]
    BY DEF CacheTypeOK, TaskStates
  <2> QED
    BY <1>1, <2>1 DEF CacheTypeOK, UpdaterStates
<1>4. WgExact'
  <2>1. AliveTasks' = AliveTasks \cup {n}
    BY <1>1, <1>2 DEF AliveTasks, Alive, CacheTypeOK
  <2>2. n \notin AliveTasks
    BY <1>2 DEF AliveTasks
  <2>3. Cardinality(AliveTasks') = Cardinality(AliveTasks) + 1
    BY <2>1, <2>2, AliveFinite, FS_AddElement
  <2> QED
    BY <2>3, AliveFinite DEF WgExact
<1>5. OneUpdateInFlight'
  <2>1. \A g \in Gens : ~InFlight(g)
    BY DEF OneUpdateInFlight
  <2>2. \A g \in Gens : InFlight(g)' <=> g = n
    BY <1>1, <2>1 DEF InFlight, CacheTypeOK
  <2> QED
    BY <1>1, <2>2 DEF OneUpdateInFlight, CacheTypeOK
<1>6. AllocatedInOrder'
  <2>1. \A g \in Gens : task[g] \notin {"fill", "swap"}
    BY DEF OneUpdateInFlight, InFlight
  <2>2. state \in Gens /\ n > state
    BY <1>1 DEF CacheTypeOK, AllocatedInOrder
  <2> QED
    BY <1>1, <1>2, <2>1, <2>2 DEF AllocatedInOrder, CacheTypeOK
<1>7. CompleteTables'
  BY <1>1 DEF CompleteTables, CacheTypeOK
<1>8. UpdaterRuns' /\ WaitedForAll'
  BY DEF UpdaterRuns, WaitedForAll
<1> QED
  BY <1>3, <1>4, <1>5, <1>6, <1>7, <1>8

LEMMA UpdaterInv ==
    ASSUME CacheInv, Updater
    PROVE  CacheInv'
<1> USE DEF CacheInv, tableVars
<1>1. CASE ReceiveTick
  <2>1. CacheTypeOK'
    BY <1>1 DEF ReceiveTick, CacheTypeOK, UpdaterStates
  <2>2. WgExact' /\ UpdaterRuns' /\ WaitedForAll'
    BY <1>1, TablesFrame DEF ReceiveTick, WgExact, UpdaterRuns, WaitedForAll
  <2> QED
    BY <1>1, <2>1, <2>2, TablesFrame DEF ReceiveTick
<1>2. CASE UpdateDropped
  <2>1. CacheTypeOK'
    BY <1>2 DEF UpdateDropped, CacheTypeOK, UpdaterStates
  <2>2. WgExact' /\ UpdaterRuns' /\ WaitedForAll'
    BY <1>2, TablesFrame DEF UpdateDropped, WgExact, UpdaterRuns, WaitedForAll
  <2> QED
    BY <1>2, <2>1, <2>2, TablesFrame DEF UpdateDropped
<1> QED
  BY <1>1, <1>2, UpdateStartedInv DEF Updater

-----------------------------------------------------------------------------
(***************************************************************************)
(* The refresh goroutine.                                                  *)
(***************************************************************************)
LEMMA RefreshInv ==
    ASSUME CacheInv, NEW g \in Gens, Refresh(g)
    PROVE  CacheInv'
<1> USE DEF CacheInv, tableVars, taskVars
<1>0. Gens \subseteq Nat /\ state \in Gens /\ states \in Gens
  BY CacheAssumption DEF CacheTypeOK, Gens
<1>1. ASSUME NEW r \in Records, NEW v \in Amounts, ConsumeRecord(g, r, v)
      PROVE  CacheInv'
  <2> USE <1>1 DEF ConsumeRecord
  <2>1. CacheTypeOK'
    <3>1. v \in Int
      BY CacheAssumption
    <3>2. scanned' \in [Gens -> SUBSET Records]
      BY DEF CacheTypeOK
    <3>3. /\ available' \in [Gens -> [Campaigns -> Int]]
          /\ loaded' \in [Gens -> [Campaigns -> Int]]
      <4>1. CASE r \notin Campaigns
        BY <4>1 DEF CacheTypeOK
      <4>2. CASE r \in Campaigns
        <5>1. /\ available' = [available EXCEPT ![g][r] = @ + v]
              /\ loaded' = [loaded EXCEPT ![g][r] = @ + v]
          BY <4>2
        <5>2. /\ available \in [Gens -> [Campaigns -> Int]]
              /\ loaded \in [Gens -> [Campaigns -> Int]]
          BY DEF CacheTypeOK
        <5>3. [available EXCEPT ![g][r] = @ + v] \in [Gens -> [Campaigns -> Int]]
          BY <3>1, <4>2, <5>2, CounterType
        <5>4. [loaded EXCEPT ![g][r] = @ + v] \in [Gens -> [Campaigns -> Int]]
          BY <3>1, <4>2, <5>2, CounterType
        <5> QED
          BY <5>1, <5>3, <5>4
      <4> QED
        BY <4>1, <4>2
    <3> QED
      BY <3>2, <3>3 DEF CacheTypeOK
  <2>2. AliveTasks' = AliveTasks
    BY DEF AliveTasks, Alive
  <2>3. WgExact' /\ UpdaterRuns' /\ WaitedForAll'
    BY <2>2 DEF WgExact, UpdaterRuns, WaitedForAll
  <2>4. OneUpdateInFlight' /\ AllocatedInOrder'
    BY DEF OneUpdateInFlight, InFlight, AllocatedInOrder
  <2>5. CompleteTables'
    BY <1>0 DEF CompleteTables, AllocatedInOrder, CacheTypeOK
  <2> QED
    BY <2>1, <2>3, <2>4, <2>5
<1>2. CASE ScanSucceeds(g)
  <2> USE <1>2 DEF ScanSucceeds
  <2>1. CacheTypeOK'
    BY DEF CacheTypeOK, TaskStates
  <2>2. AliveTasks' = AliveTasks
    BY DEF AliveTasks, Alive, CacheTypeOK
  <2>3. WgExact' /\ UpdaterRuns' /\ WaitedForAll'
    BY <2>2 DEF WgExact, UpdaterRuns, WaitedForAll
  <2>4. OneUpdateInFlight'
    BY DEF OneUpdateInFlight, InFlight, CacheTypeOK
  <2>5. AllocatedInOrder' /\ CompleteTables'
    BY DEF AllocatedInOrder, CompleteTables, CacheTypeOK
  <2> QED
    BY <2>1, <2>3, <2>4, <2>5
<1>3. CASE ScanFails(g)
  <2> USE <1>3 DEF ScanFails
  <2>1. CacheTypeOK'
    BY DEF CacheTypeOK, TaskStates
  <2>2. AliveTasks' = AliveTasks
    BY DEF AliveTasks, Alive, CacheTypeOK
  <2>3. WgExact' /\ UpdaterRuns' /\ WaitedForAll'
    BY <2>2 DEF WgExact, UpdaterRuns, WaitedForAll
  <2>4. OneUpdateInFlight'
    BY DEF OneUpdateInFlight, InFlight, CacheTypeOK
  <2>5. AllocatedInOrder' /\ CompleteTables'
    BY DEF AllocatedInOrder, CompleteTables, CacheTypeOK
  <2> QED
    BY <2>1, <2>3, <2>4, <2>5
<1>4. CASE SwapState(g)
  <2> USE <1>4 DEF SwapState
  <2>1. CacheTypeOK'
    BY DEF CacheTypeOK, TaskStates
  <2>2. AliveTasks' = AliveTasks
    BY DEF AliveTasks, Alive, CacheTypeOK
  <2>3. WgExact' /\ UpdaterRuns' /\ WaitedForAll'
    BY <2>2 DEF WgExact, UpdaterRuns, WaitedForAll
  <2>4. OneUpdateInFlight'
    BY DEF OneUpdateInFlight, InFlight, CacheTypeOK
  <2>5. \A h \in Gens : task'[h] \notin {"fill", "swap"}
    BY DEF OneUpdateInFlight, InFlight, CacheTypeOK
  <2>6. AllocatedInOrder'
    BY <1>0, <2>5 DEF AllocatedInOrder, CacheTypeOK
  <2>7. CompleteTables'
    BY <2>5 DEF CompleteTables, CacheTypeOK
  <2> QED
    BY <2>1, <2>3, <2>4, <2>6, <2>7
<1>5. CASE ClearInProgress(g)
  <2> USE <1>5 DEF ClearInProgress
  <2>1. CacheTypeOK'
    BY DEF CacheTypeOK, TaskStates
  <2>2. AliveTasks' = AliveTasks
    BY DEF AliveTasks, Alive, CacheTypeOK
  <2>3. WgExact' /\ UpdaterRuns' /\ WaitedForAll'
    BY <2>2 DEF WgExact, UpdaterRuns, WaitedForAll
  <2>4. \A h \in Gens : ~InFlight(h)'
    BY DEF OneUpdateInFlight, InFlight, CacheTypeOK
  <2>5. OneUpdateInFlight'
    BY <2>4 DEF OneUpdateInFlight
  <2>6. AllocatedInOrder' /\ CompleteTables'
    BY DEF AllocatedInOrder, CompleteTables, CacheTypeOK
  <2> QED
    BY <2>1, <2>3, <2>5, <2>6
<1>6. CASE TaskDone(g)
  <2> USE <1>6 DEF TaskDone
  <2>1. AliveTasks' = AliveTasks \ {g} /\ g \in AliveTasks
    BY DEF AliveTasks, Alive, CacheTypeOK
  <2>2. Cardinality(AliveTasks') = Cardinality(AliveTasks) - 1
    BY <2>1, AliveFinite, FS_RemoveElement
  <2>3. Cardinality(AliveTasks) >= 1
    BY <2>1, AliveFinite, FS_EmptySet
  <2>4. WgExact' /\ updateWg' \in Nat
    BY <2>2, <2>3, AliveFinite DEF WgExact, CacheTypeOK
  <2>5. CacheTypeOK'
    BY <2>4 DEF CacheTypeOK, TaskStates
  <2>6. UpdaterRuns' /\ WaitedForAll'
    BY <2>3, AliveFinite DEF UpdaterRuns, WaitedForAll, WgExact, CacheTypeOK
  <2>7. OneUpdateInFlight'
    BY DEF OneUpdateInFlight, InFlight, CacheTypeOK
  <2>8. AllocatedInOrder' /\ CompleteTables'
    BY DEF AllocatedInOrder, CompleteTables, CacheTypeOK
  <2> QED
    BY <2>4, <2>5, <2>6, <2>7, <2>8
<1> QED
  BY <1>1, <1>2, <1>3, <1>4, <1>5, <1>6 DEF Refresh

-----------------------------------------------------------------------------
(***************************************************************************)
(* stop().                                                                 *)
(***************************************************************************)
LEMMA StopStepsInv ==
    ASSUME CacheInv, StopTicker \/ Stopper
    PROVE  CacheInv'
<1> USE DEF CacheInv, tableVars, taskVars
<1>1. CASE StopTicker
  <2>1. CacheTypeOK'
    BY <1>1 DEF StopTicker, CacheTypeOK, StopStates
  <2>2. WgExact' /\ UpdaterRuns' /\ WaitedForAll'
    BY <1>1, TablesFrame DEF StopTicker, WgExact, UpdaterRuns, WaitedForAll
  <2> QED
    BY <1>1, <2>1, <2>2, TablesFrame DEF StopTicker
<1>2. CASE ReceiveStop
  <2>1. WgExact' /\ updateWg' \in Nat
    BY <1>2, TablesFrame, AliveFinite DEF ReceiveStop, WgExact
  <2>2. CacheTypeOK'
    BY <1>2, <2>1 DEF ReceiveStop, CacheTypeOK, StopStates, UpdaterStates
  <2>3. UpdaterRuns' /\ WaitedForAll'
    BY <1>2 DEF ReceiveStop, UpdaterRuns, WaitedForAll
  <2> QED
    BY <1>2, <2>1, <2>2, <2>3, TablesFrame DEF ReceiveStop
<1>3. CASE WaitTasks
  <2>1. CacheTypeOK'
    BY <1>3 DEF WaitTasks, CacheTypeOK, StopStates
  <2>2. WgExact' /\ UpdaterRuns' /\ WaitedForAll'
    BY <1>3, TablesFrame DEF WaitTasks, WgExact, UpdaterRuns, WaitedForAll
  <2> QED
    BY <1>3, <2>1, <2>2, TablesFrame DEF WaitTasks
<1>4. CASE CloseChannel
  <2>1. CacheTypeOK'
    BY <1>4 DEF CloseChannel, CacheTypeOK, StopStates, CallStates
  <2>2. WgExact' /\ UpdaterRuns' /\ WaitedForAll'
    BY <1>4, TablesFrame DEF CloseChannel, WgExact, UpdaterRuns, WaitedForAll
  <2> QED
    BY <1>4, <2>1, <2>2, TablesFrame DEF CloseChannel
<1> QED
  BY <1>1, <1>2, <1>3, <1>4 DEF Stopper

\* When nothing changes, or only the counters that auctions use.
LEMMA CacheStutterInv ==
    ASSUME CacheInv,
           available' \in [Gens -> [Campaigns -> Int]],
           UNCHANGED <<state, states, scanned, loaded, taskVars, tick, ticks, call,
                       stopper>>
    PROVE  CacheInv'
<1>1. CacheTypeOK'
  BY DEF CacheInv, CacheTypeOK, taskVars
<1>2. WgExact' /\ UpdaterRuns' /\ WaitedForAll'
  BY TablesFrame DEF CacheInv, WgExact, UpdaterRuns, WaitedForAll, taskVars
<1> QED
  BY <1>1, <1>2, TablesFrame DEF CacheInv, taskVars

-----------------------------------------------------------------------------
(***************************************************************************)
(* The behaviours of the cache on its own.                                 *)
(***************************************************************************)
LEMMA CacheNextInv ==
    ASSUME CacheInv, [CacheNext]_cacheVars
    PROVE  CacheInv'
<1>1. CASE CacheStep
  BY <1>1, CallStepsInv, TickInv, UpdaterInv, RefreshInv, StopStepsInv
     DEF CacheStep, UserCalls, UserStops
<1>2. CASE UNCHANGED cacheVars
  BY <1>2, CacheStutterInv DEF CacheInv, CacheTypeOK, cacheVars, taskVars
<1> QED
  BY <1>1, <1>2 DEF CacheNext, CacheEnded

(***************************************************************************)
(* The inductive invariant holds in every behaviour of the cache.          *)
(***************************************************************************)
THEOREM CacheInvariant == CacheSpec => []CacheInv
<1>1. CacheInit => CacheInv
  BY CacheInitInv
<1>2. CacheInv /\ [CacheNext]_cacheVars => CacheInv'
  BY CacheNextInv
<1> QED
  BY <1>1, <1>2, PTL DEF CacheSpec

(***************************************************************************)
(* The variables keep their types; in particular updateWg.Done() never     *)
(* makes the wait group negative, which would panic.                       *)
(***************************************************************************)
THEOREM CacheTypes == CacheSpec => []CacheTypeOK
<1>1. CacheInv => CacheTypeOK
  BY DEF CacheInv
<1> QED
  BY <1>1, CacheInvariant, PTL

(***************************************************************************)
(* Auctions only ever see a table filled by one complete scan.             *)
(***************************************************************************)
THEOREM PublishedAlwaysComplete == CacheSpec => []PublishedIsComplete
<1>1. CacheInv => PublishedIsComplete
  BY DEF CacheInv, CompleteTables, PublishedIsComplete
<1> QED
  BY <1>1, CacheInvariant, PTL

(***************************************************************************)
(* No two refreshes of the cache are ever in flight together.              *)
(***************************************************************************)
THEOREM AlwaysOneUpdateInFlight == CacheSpec => []OneUpdateInFlight
<1>1. CacheInv => OneUpdateInFlight
  BY DEF CacheInv
<1> QED
  BY <1>1, CacheInvariant, PTL

\* Only the swap of a refresh changes the published table.
LEMMA OnlySwapPublishes ==
    ASSUME CacheInv, [CacheNext]_cacheVars, state' # state
    PROVE  state' > state
<1>1. PICK g \in Gens : SwapState(g)
  <2>1. ~(\E p \in Callers : UserCalls(p) \/ ReceiveRequest(p))
    BY DEF UserCalls, AsyncUpdate, ReceiveRequest, tableVars
  <2>2. ~(Tick \/ UserStops \/ Stopper)
    BY DEF Tick, UserStops, StopTicker, Stopper, ReceiveStop, WaitTasks,
           CloseChannel, tableVars
  <2>3. ~Updater
    BY DEF Updater, ReceiveTick, UpdateDropped, UpdateStarted, tableVars
  <2>4. PICK g \in Gens : Refresh(g)
    BY <2>1, <2>2, <2>3 DEF CacheNext, CacheStep, CacheEnded, cacheVars
  <2>5. SwapState(g)
    BY <2>4 DEF Refresh, ConsumeRecord, ScanSucceeds, ScanFails, ClearInProgress,
                TaskDone, tableVars
  <2> QED
    BY <2>5
<1> QED
  BY <1>1 DEF SwapState, CacheInv, AllocatedInOrder

(***************************************************************************)
(* A refresh never replaces the published table by an older one.           *)
(***************************************************************************)
THEOREM PublishedNeverOlder == CacheSpec => NeverOlder
<1>1. CacheInv /\ [CacheNext]_cacheVars => [state' # state => state' > state]_cacheVars
  BY OnlySwapPublishes
<1> QED
  BY <1>1, CacheInvariant, PTL DEF CacheSpec, NeverOlder

-----------------------------------------------------------------------------
(***************************************************************************)
(* stop() leaves nothing behind.                                           *)
(***************************************************************************)

\* What the contract of the cache's users comes to.
CallsEndBeforeStop ==
    /\ \A p \in Callers : call[p] # "panicked"
    /\ stopper # "running" => \A p \in Callers : call[p] # "blocked"

LEMMA StopCleanFromInv ==
    ASSUME CacheInv, CallsEndBeforeStop
    PROVE  StopIsClean
<1> SUFFICES ASSUME stopper \in {"close", "stopped"}
             PROVE  /\ updater = "exited"
                    /\ \A g \in Gens : ~Alive(g)
                    /\ \A p \in Callers : call[p] \notin {"blocked", "panicked"}
  BY DEF StopIsClean
<1>1. updater = "exited"
  BY DEF CacheInv, UpdaterRuns
<1>2. Cardinality(AliveTasks) = 0
  BY <1>1, AliveFinite DEF CacheInv, WgExact, WaitedForAll
<1>3. AliveTasks = {}
  BY <1>2, AliveFinite, FS_EmptySet
<1>4. \A g \in Gens : ~Alive(g)
  BY <1>3 DEF AliveTasks
<1> QED
  BY <1>1, <1>4 DEF CallsEndBeforeStop

LEMMA CallsEndInductive ==
    ASSUME CacheInv, CallsEndBeforeStop, [CacheNext]_cacheVars
    PROVE  CallsEndBeforeStop'
<1> USE DEF CallsEndBeforeStop
<1>1. ASSUME NEW p \in Callers, UserCalls(p) \/ ReceiveRequest(p)
      PROVE  CallsEndBeforeStop'
  BY <1>1 DEF UserCalls, AsyncUpdate, ReceiveRequest, Open, CacheInv, CacheTypeOK
<1>2. CASE Tick \/ Updater
  BY <1>2 DEF Tick, Updater, ReceiveTick, UpdateDropped, UpdateStarted
<1>3. ASSUME NEW g \in Gens, Refresh(g)
      PROVE  CallsEndBeforeStop'
  BY <1>3 DEF Refresh, ConsumeRecord, ScanSucceeds, ScanFails, SwapState,
              ClearInProgress, TaskDone
<1>4. CASE UserStops
  BY <1>4 DEF UserStops, StopTicker
<1>5. CASE Stopper
  BY <1>5 DEF Stopper, ReceiveStop, WaitTasks, CloseChannel
<1>6. CASE UNCHANGED cacheVars
  BY <1>6 DEF cacheVars
<1> QED
  BY <1>1, <1>2, <1>3, <1>4, <1>5, <1>6 DEF CacheNext, CacheStep, CacheEnded

(***************************************************************************)
(* When stop() has finished waiting, no goroutine of the cache is left and *)
(* no caller was caught by the close of the channel.                       *)
(***************************************************************************)
THEOREM StopAlwaysClean == CacheSpec => []StopIsClean
<1>1. CacheInit => CallsEndBeforeStop
  BY DEF CacheInit, CallsEndBeforeStop
<1>2. CacheInv /\ CallsEndBeforeStop /\ [CacheNext]_cacheVars => CallsEndBeforeStop'
  BY CallsEndInductive
<1>3. CacheInv /\ CallsEndBeforeStop => StopIsClean
  BY StopCleanFromInv
<1> QED
  BY <1>1, <1>2, <1>3, CacheInvariant, PTL DEF CacheSpec

-----------------------------------------------------------------------------
(***************************************************************************)
(* The inductive invariant of the auctions.                                *)
(***************************************************************************)
AuctionTypeOK ==
    /\ pc \in [Auctions -> AuctionStates]
    /\ indices \in [Auctions -> Targetings \cup {<<>>}]
    /\ pos \in [Auctions -> Nat \ {0}]
    /\ snap \in [Auctions -> Gens]
    /\ granted \in [Auctions -> SUBSET Campaigns]
    /\ winningCPM \in [Auctions -> Int]
    /\ winning \in [Auctions -> SUBSET Campaigns]
    /\ winner \in [Auctions -> Campaigns \cup {NoCampaign}]
    /\ result \in [Auctions -> Results]
    /\ server \in {"serving", "draining", "down"}

\* An auction that has not begun its first loop has reserved nothing.
Unreserved(a) ==
    /\ pos[a] = 1
    /\ granted[a] = {}
    /\ winning[a] = {}
    /\ winningCPM[a] = 0
    /\ winner[a] = NoCampaign

\* The first loop: winningCPM is the highest price granted so far.
Reserving(a) ==
    /\ winner[a] = NoCampaign
    /\ pos[a] <= Len(indices[a]) + 1
    /\ winningCPM[a] >= 0
    /\ winning[a] \subseteq granted[a]
    /\ \A c \in winning[a] : CPM[c] = winningCPM[a] /\ CPM[c] > 0
    /\ \A c \in granted[a] : CPM[c] <= winningCPM[a] /\ c \in Held(a)
    /\ winning[a] = {} => winningCPM[a] = 0

\* From the choice of the winner on.
Decided(a) ==
    IF winner[a] = NoCampaign
    THEN \A c \in granted[a] : CPM[c] < 0
    ELSE /\ winner[a] \in granted[a]
         /\ CPM[winner[a]] > 0
         /\ \A c \in granted[a] : CPM[c] <= CPM[winner[a]]

Progress(a) ==
    /\ pc[a] \in {"idle", "device", "snapshot"} => Unreserved(a)
    /\ pc[a] = "reserve" => Reserving(a)
    /\ pc[a] = "free" => pos[a] <= Len(indices[a]) + 1
    /\ pc[a] \in {"free", "asyncUpdate", "done"} => Decided(a)
    /\ pc[a] # "done" => result[a] = "none"

SnapshotsPublished == \A a \in Auctions : snap[a] <= state

\* The auctions whose claim to campaign c in table g has been confirmed.
Good(g, c) ==
    {a \in Auctions : /\ snap[a] = g
                      /\ winner[a] = c \/ (pc[a] = "reserve" /\ c \in granted[a])}

(***************************************************************************)
(* Why no budget is overspent: not only the sales, but all the confirmed   *)
(* claims to a campaign fit into its budget.  A claim is confirmed only if *)
(* the counter stays non-negative with every held reservation subtracted,  *)
(* and the confirmed claims are among the held ones.                       *)
(***************************************************************************)
GoodFits ==
    \A g \in Gens, c \in Campaigns :
        CPM[c] > 0 /\ Good(g, c) # {} =>
            CPM[c] * Cardinality(Good(g, c)) <= loaded[g][c]

AuctionInv ==
    /\ CacheInv
    /\ AuctionTypeOK
    /\ \A a \in Auctions : Progress(a)
    /\ SnapshotsPublished
    /\ BudgetExact
    /\ GoodFits

-----------------------------------------------------------------------------
(***************************************************************************)
(* Facts about constants, sets and prices.                                 *)
(***************************************************************************)
LEMMA SubsetOfAuctions ==
    ASSUME NEW S \in SUBSET Auctions
    PROVE  IsFiniteSet(S) /\ Cardinality(S) \in Nat
BY CacheAssumption, FS_Subset, FS_CardinalityType DEF Auctions

LEMMA IndicesInjective ==
    ASSUME NEW s \in Targetings \cup {<<>>}
    PROVE  /\ s \in Seq(Campaigns)
           /\ \A i, j \in 1..Len(s) : s[i] = s[j] => i = j
<1>1. CASE s \in Targetings
  <2>1. s \in Seq(Campaigns)
    BY <1>1, AuctionAssumption
  <2>2. DOMAIN s = 1..Len(s)
    BY <2>1
  <2> QED
    BY <1>1, <2>1, <2>2, AuctionAssumption
<1>2. CASE s = <<>>
  BY <1>2
<1> QED
  BY <1>1, <1>2

LEMMA PriceType ==
    ASSUME NEW c \in Campaigns
    PROVE  CPM[c] \in Int /\ CPM[c] # 0
BY AuctionAssumption

LEMMA Monotone ==
    ASSUME NEW k \in Nat, NEW x \in Nat, NEW y \in Nat, x <= y
    PROVE  k * x <= k * y
OBVIOUS

LEMMA OneMore ==
    ASSUME NEW k \in Int, NEW x \in Int
    PROVE  /\ k * x \in Int /\ k * (x + 1) \in Int /\ k * (x - 1) \in Int
           /\ k * (x + 1) = k * x + k
           /\ k * (x - 1) = k * x - k
OBVIOUS

-----------------------------------------------------------------------------
(***************************************************************************)
(* How a step changes who holds what.                                      *)
(***************************************************************************)
LEMMA HeldFrame ==
    ASSUME NEW b \in Auctions,
           pc'[b] = pc[b], pos'[b] = pos[b], indices'[b] = indices[b],
           winner'[b] = winner[b]
    PROVE  Held(b)' = Held(b)
BY DEF Held

\* Nobody starts or stops holding anything.
LEMMA HoldingFrame ==
    ASSUME \A b \in Auctions : Held(b)' = Held(b) /\ (snap'[b] = snap[b] \/ Held(b) = {})
    PROVE  \A g, c : Holding(g, c)' = Holding(g, c)
BY DEF Holding

\* The counters stay exact in a step that moves neither them nor the holders.
LEMMA ExactFrame ==
    ASSUME BudgetExact, UNCHANGED <<available, loaded>>,
           \A b \in Auctions : Held(b)' = Held(b) /\ (snap'[b] = snap[b] \/ Held(b) = {})
    PROVE  BudgetExact'
BY HoldingFrame DEF BudgetExact

\* Confirmed claims still fit when none is added.
LEMMA GoodShrinks ==
    ASSUME CacheInv, GoodFits, UNCHANGED loaded,
           \A g \in Gens, c \in Campaigns : Good(g, c)' \subseteq Good(g, c)
    PROVE  GoodFits'
<1> SUFFICES ASSUME NEW g \in Gens, NEW c \in Campaigns,
                    CPM[c] > 0, Good(g, c)' # {}
             PROVE  CPM[c] * Cardinality(Good(g, c)') <= loaded[g][c]
  BY DEF GoodFits
<1>1. /\ Good(g, c) \in SUBSET Auctions /\ Good(g, c) # {}
      /\ Good(g, c)' \in SUBSET Good(g, c)
  BY DEF Good
<1>2. /\ Cardinality(Good(g, c)) \in Nat /\ Cardinality(Good(g, c)') \in Nat
      /\ Cardinality(Good(g, c)') <= Cardinality(Good(g, c))
  BY <1>1, SubsetOfAuctions, FS_Subset
<1>3. CPM[c] \in Nat
  BY PriceType
<1>4. CPM[c] * Cardinality(Good(g, c)') <= CPM[c] * Cardinality(Good(g, c))
  BY <1>2, <1>3, Monotone
<1>5. CPM[c] * Cardinality(Good(g, c)) <= loaded[g][c]
  BY <1>1 DEF GoodFits
<1>6. /\ CPM[c] * Cardinality(Good(g, c)) \in Int
      /\ CPM[c] * Cardinality(Good(g, c)') \in Int
  BY <1>2, <1>3
<1>7. loaded[g][c] \in Int
  BY DEF CacheInv, CacheTypeOK
<1> QED
  BY <1>4, <1>5, <1>6, <1>7

-----------------------------------------------------------------------------
(***************************************************************************)
(* Initial states.                                                         *)
(***************************************************************************)
LEMMA AuctionInitInv == Init => AuctionInv
<1> SUFFICES ASSUME Init PROVE AuctionInv
  OBVIOUS
<1>1. CacheInv
  BY CacheInitInv DEF Init
<1>2. AuctionTypeOK
  <2>1. 1 \in Gens
    BY CacheAssumption DEF Gens
  <2> QED
    BY <2>1 DEF Init, AuctionTypeOK, AuctionStates, Results
<1>3. \A a \in Auctions : Progress(a)
  BY DEF Init, Progress, Unreserved
<1>4. SnapshotsPublished
  BY <1>1 DEF Init, CacheInit, SnapshotsPublished
<1>5. \A a \in Auctions : Held(a) = {}
  BY AuctionAssumption DEF Init, Held
<1>6. BudgetExact
  <2> SUFFICES ASSUME NEW g \in Gens, NEW c \in Campaigns
               PROVE  available[g][c] = loaded[g][c] - CPM[c] * Cardinality(Holding(g, c))
    BY DEF BudgetExact
  <2>1. Cardinality(Holding(g, c)) = 0
    BY <1>5, FS_EmptySet DEF Holding
  <2>2. available[g][c] = loaded[g][c] /\ loaded[g][c] \in Int
    BY <1>1 DEF Init, CacheInit, CacheInv, CacheTypeOK
  <2> QED
    BY <2>1, <2>2, PriceType
<1>7. GoodFits
  <2>1. \A g \in Gens, c \in Campaigns : Good(g, c) = {}
    BY AuctionAssumption DEF Init, Good
  <2> QED
    BY <2>1 DEF GoodFits
<1> QED
  BY <1>1, <1>2, <1>3, <1>4, <1>6, <1>7 DEF AuctionInv

-----------------------------------------------------------------------------
(***************************************************************************)
(* The steps of an auction that neither reserve nor free.                  *)
(***************************************************************************)
LEMMA BeginInv ==
    ASSUME AuctionInv, NEW a \in Auctions, Begin(a)
    PROVE  AuctionInv'
<1> USE DEF AuctionInv
<1>1. CacheInv'
  BY CacheStutterInv DEF Begin, cacheVars, taskVars, CacheInv, CacheTypeOK
<1>2. AuctionTypeOK'
  BY DEF Begin, AuctionTypeOK, AuctionStates
<1>3. \A b \in Auctions : Progress(b)'
  <2>1. Progress(a)'
    BY DEF Begin, Progress, Unreserved, AuctionTypeOK
  <2>2. ASSUME NEW b \in Auctions, b # a PROVE Progress(b)'
    BY <2>2, HeldFrame DEF Begin, Progress, Unreserved, Reserving, Decided, AuctionTypeOK
  <2> QED
    BY <2>1, <2>2
<1>4. SnapshotsPublished'
  BY DEF Begin, SnapshotsPublished, AuctionTypeOK, cacheVars
<1>5. \A b \in Auctions : Held(b)' = Held(b) /\ (snap'[b] = snap[b] \/ Held(b) = {})
  BY AuctionAssumption DEF Begin, Held, AuctionTypeOK, Progress, Unreserved
<1>6. BudgetExact'
  BY <1>5, ExactFrame DEF Begin, cacheVars
<1>7. GoodFits'
  <2>1. \A g \in Gens, c \in Campaigns : Good(g, c)' \subseteq Good(g, c)
    BY AuctionAssumption DEF Begin, Good, AuctionTypeOK, Progress, Unreserved
  <2> QED
    BY <2>1, GoodShrinks DEF Begin, cacheVars
<1> QED
  BY <1>1, <1>2, <1>3, <1>4, <1>6, <1>7

LEMMA EndEarlyInv ==
    ASSUME AuctionInv, NEW a \in Auctions, NEW r \in Results, EndEarly(a, r)
    PROVE  AuctionInv'
<1> USE DEF AuctionInv
<1>1. CacheInv'
  BY CacheStutterInv DEF EndEarly, cacheVars, taskVars, CacheInv, CacheTypeOK
<1>2. AuctionTypeOK'
  BY DEF EndEarly, AuctionTypeOK, AuctionStates
<1>3. \A b \in Auctions : Progress(b)'
  <2>1. Progress(a)'
    BY DEF EndEarly, Progress, Unreserved, Decided, AuctionTypeOK
  <2>2. ASSUME NEW b \in Auctions, b # a PROVE Progress(b)'
    BY <2>2, HeldFrame DEF EndEarly, Progress, Unreserved, Reserving, Decided, AuctionTypeOK
  <2> QED
    BY <2>1, <2>2
<1>4. SnapshotsPublished'
  BY DEF EndEarly, SnapshotsPublished, AuctionTypeOK, cacheVars
<1>5. \A b \in Auctions : Held(b)' = Held(b) /\ (snap'[b] = snap[b] \/ Held(b) = {})
  BY AuctionAssumption DEF EndEarly, Held, AuctionTypeOK, Progress, Unreserved
<1>6. BudgetExact'
  BY <1>5, ExactFrame DEF EndEarly, cacheVars
<1>7. GoodFits'
  <2>1. \A g \in Gens, c \in Campaigns : Good(g, c)' \subseteq Good(g, c)
    BY AuctionAssumption DEF EndEarly, Good, AuctionTypeOK, Progress, Unreserved
  <2> QED
    BY <2>1, GoodShrinks DEF EndEarly, cacheVars
<1> QED
  BY <1>1, <1>2, <1>3, <1>4, <1>6, <1>7

LEMMA FindCampaignsInv ==
    ASSUME AuctionInv, NEW a \in Auctions, NEW s \in Targetings, FindCampaigns(a, s)
    PROVE  AuctionInv'
<1> USE DEF AuctionInv
<1>1. CacheInv'
  BY CacheStutterInv DEF FindCampaigns, cacheVars, taskVars, CacheInv, CacheTypeOK
<1>2. AuctionTypeOK'
  BY DEF FindCampaigns, AuctionTypeOK, AuctionStates
<1>3. \A b \in Auctions : Progress(b)'
  <2>1. Progress(a)'
    BY DEF FindCampaigns, Progress, Unreserved, AuctionTypeOK
  <2>2. ASSUME NEW b \in Auctions, b # a PROVE Progress(b)'
    BY <2>2, HeldFrame DEF FindCampaigns, Progress, Unreserved, Reserving, Decided, AuctionTypeOK
  <2> QED
    BY <2>1, <2>2
<1>4. SnapshotsPublished'
  BY DEF FindCampaigns, SnapshotsPublished, AuctionTypeOK, cacheVars
<1>5. \A b \in Auctions : Held(b)' = Held(b) /\ (snap'[b] = snap[b] \/ Held(b) = {})
  BY AuctionAssumption DEF FindCampaigns, Held, AuctionTypeOK, Progress, Unreserved
<1>6. BudgetExact'
  BY <1>5, ExactFrame DEF FindCampaigns, cacheVars
<1>7. GoodFits'
  <2>1. \A g \in Gens, c \in Campaigns : Good(g, c)' \subseteq Good(g, c)
    BY AuctionAssumption DEF FindCampaigns, Good, AuctionTypeOK, Progress, Unreserved
  <2> QED
    BY <2>1, GoodShrinks DEF FindCampaigns, cacheVars
<1> QED
  BY <1>1, <1>2, <1>3, <1>4, <1>6, <1>7

LEMMA TakeSnapshotInv ==
    ASSUME AuctionInv, NEW a \in Auctions, TakeSnapshot(a)
    PROVE  AuctionInv'
<1> USE DEF AuctionInv
<1>1. CacheInv'
  BY CacheStutterInv DEF TakeSnapshot, cacheVars, taskVars, CacheInv, CacheTypeOK
<1>2. AuctionTypeOK'
  BY DEF TakeSnapshot, AuctionTypeOK, AuctionStates, CacheInv, CacheTypeOK
<1>3. \A b \in Auctions : Progress(b)'
  <2>1. Progress(a)'
    BY IndicesInjective DEF TakeSnapshot, Progress, Unreserved, Reserving, AuctionTypeOK
  <2>2. ASSUME NEW b \in Auctions, b # a PROVE Progress(b)'
    BY <2>2, HeldFrame DEF TakeSnapshot, Progress, Unreserved, Reserving, Decided, AuctionTypeOK
  <2> QED
    BY <2>1, <2>2
<1>4. SnapshotsPublished'
  BY DEF TakeSnapshot, SnapshotsPublished, AuctionTypeOK, cacheVars, CacheInv, CacheTypeOK, Gens
<1>5. \A b \in Auctions : Held(b)' = Held(b) /\ (snap'[b] = snap[b] \/ Held(b) = {})
  BY AuctionAssumption DEF TakeSnapshot, Held, AuctionTypeOK, Progress, Unreserved
<1>6. BudgetExact'
  BY <1>5, ExactFrame DEF TakeSnapshot, cacheVars
<1>7. GoodFits'
  <2>1. \A g \in Gens, c \in Campaigns : Good(g, c)' \subseteq Good(g, c)
    BY AuctionAssumption DEF TakeSnapshot, Good, AuctionTypeOK, Progress, Unreserved
  <2> QED
    BY <2>1, GoodShrinks DEF TakeSnapshot, cacheVars
<1> QED
  BY <1>1, <1>2, <1>3, <1>4, <1>6, <1>7

\* The winner's reservation becomes final; nothing else changes hands.
LEMMA PickWinnerInv ==
    ASSUME AuctionInv, NEW a \in Auctions, PickWinner(a)
    PROVE  AuctionInv'
<1> USE DEF AuctionInv
<1> DEFINE s == indices[a]
<1>1. PICK w \in (IF winning[a] = {} THEN {NoCampaign} ELSE winning[a]) :
          winner' = [winner EXCEPT ![a] = w]
  BY DEF PickWinner
<1>2. /\ s \in Seq(Campaigns) /\ Reserving(a) /\ pos[a] = Len(s) + 1
      /\ pc[a] = "reserve"
  BY IndicesInjective DEF PickWinner, Progress, Reserving, AuctionTypeOK
<1>3. /\ w = NoCampaign \/ w \in winning[a]
      /\ w \in Campaigns \cup {NoCampaign}
      /\ w \in Campaigns => w \in granted[a] /\ w \in Held(a)
  BY <1>2, AuctionAssumption DEF Reserving, AuctionTypeOK
<1>4. CacheInv'
  BY CacheStutterInv DEF PickWinner, cacheVars, taskVars, CacheInv, CacheTypeOK
<1>5. AuctionTypeOK'
  BY <1>1, <1>3 DEF PickWinner, AuctionTypeOK, AuctionStates
<1>6. Decided(a)'
  <2>1. \A c \in granted[a] : CPM[c] \in Int /\ CPM[c] # 0 /\ CPM[c] <= winningCPM[a]
    BY <1>2, PriceType DEF Reserving, AuctionTypeOK
  <2>2. CASE w = NoCampaign
    <3>1. winning[a] = {}
      BY <1>1, <2>2, AuctionAssumption DEF AuctionTypeOK
    <3>2. \A c \in granted[a] : CPM[c] < 0
      BY <1>2, <2>1, <3>1 DEF Reserving
    <3> QED
      BY <1>1, <2>2, <3>2 DEF PickWinner, Decided, AuctionTypeOK
  <2>3. CASE w \in winning[a]
    <3>1. w # NoCampaign
      BY <2>3, AuctionAssumption DEF AuctionTypeOK
    <3> QED
      BY <1>1, <1>2, <2>1, <2>3, <3>1 DEF PickWinner, Decided, Reserving, AuctionTypeOK
  <2> QED
    BY <1>3, <2>2, <2>3
<1>7. \A b \in Auctions : Progress(b)'
  <2>1. Progress(a)'
    BY <1>2, <1>6 DEF PickWinner, Progress, AuctionTypeOK
  <2>2. ASSUME NEW b \in Auctions, b # a PROVE Progress(b)'
    BY <2>2, HeldFrame DEF PickWinner, Progress, Unreserved, Reserving, Decided,
                           AuctionTypeOK
  <2> QED
    BY <2>1, <2>2
<1>8. SnapshotsPublished'
  BY DEF PickWinner, SnapshotsPublished, cacheVars
<1>9. \A b \in Auctions : Held(b)' = Held(b) /\ (snap'[b] = snap[b] \/ Held(b) = {})
  <2>1. Held(a)' = Held(a)
    <3>1. /\ winner[a] = NoCampaign /\ winner'[a] = w /\ pc'[a] = "free"
          /\ pos'[a] = 1 /\ s' = s
      BY <1>1, <1>2 DEF PickWinner, AuctionTypeOK, Reserving
    <3>2. 1..(pos[a] - 1) = 1..Len(s)
      BY <1>2
    <3>3. Held(a) = {c \in Campaigns : \E i \in 1..Len(s) : s[i] = c}
      BY <1>2, <3>1, <3>2, AuctionAssumption DEF Held
    <3>4. Held(a)' = {c \in Campaigns : w = c \/ \E i \in 1..Len(s) : s[i] = c}
      BY <3>1 DEF Held
    <3> QED
      BY <1>3, <3>3, <3>4
  <2>2. ASSUME NEW b \in Auctions, b # a PROVE Held(b)' = Held(b)
    BY <2>2, HeldFrame DEF PickWinner, AuctionTypeOK
  <2> QED
    BY <2>1, <2>2 DEF PickWinner
<1>10. BudgetExact'
  BY <1>9, ExactFrame DEF PickWinner, cacheVars
<1>11. GoodFits'
  <2>1. ASSUME NEW b \in Auctions, NEW g \in Gens, NEW c \in Campaigns,
               b \in Good(g, c)'
        PROVE  b \in Good(g, c)
    <3>1. CASE b = a
      <4>1. snap[a] = g /\ w = c
        BY <1>1, <2>1, <3>1 DEF Good, PickWinner, AuctionTypeOK
      <4> QED
        BY <1>2, <1>3, <3>1, <4>1 DEF Good
    <3>2. CASE b # a
      BY <2>1, <3>2, <1>1 DEF Good, PickWinner, AuctionTypeOK
    <3> QED
      BY <3>1, <3>2
  <2>2. \A g \in Gens, c \in Campaigns : Good(g, c)' \subseteq Good(g, c)
    BY <2>1 DEF Good
  <2> QED
    BY <2>2, GoodShrinks DEF PickWinner, cacheVars
<1> QED
  BY <1>4, <1>5, <1>7, <1>8, <1>10, <1>11

\* The auction answers with a bid.
LEMMA BidInv ==
    ASSUME AuctionInv, NEW a \in Auctions, Bid(a)
    PROVE  AuctionInv'
<1> USE DEF AuctionInv
<1>1. CacheInv'
  BY CacheStutterInv DEF Bid, cacheVars, taskVars, CacheInv, CacheTypeOK
<1>2. /\ pc[a] \in {"free", "asyncUpdate"} /\ pc'[a] \in {"asyncUpdate", "done"}
      /\ pc[a] = "free" => pos[a] > Len(indices[a])
  BY DEF Bid, AuctionTypeOK, AuctionStates
<1>3. /\ \A b \in Auctions : b # a => pc'[b] = pc[b] /\ result'[b] = result[b]
      /\ UNCHANGED <<indices, pos, snap, granted, winningCPM, winning, winner,
                     available, loaded, state, server>>
  BY DEF Bid, AuctionTypeOK, cacheVars, tableVars
<1>4. AuctionTypeOK'
  BY DEF Bid, AuctionTypeOK, AuctionStates, Results
<1>5. \A b \in Auctions : Progress(b)'
  <2>1. Progress(a)'
    BY DEF Bid, Progress, Decided, AuctionTypeOK
  <2>2. ASSUME NEW b \in Auctions, b # a PROVE Progress(b)'
    BY <1>3, <2>2, HeldFrame DEF Progress, Unreserved, Reserving, Decided
  <2> QED
    BY <2>1, <2>2
<1>6. SnapshotsPublished'
  BY <1>3 DEF SnapshotsPublished
<1>7. \A b \in Auctions : Held(b)' = Held(b) /\ (snap'[b] = snap[b] \/ Held(b) = {})
  <2>1. Held(a)' = Held(a)
    <3>1. indices[a] \in Seq(Campaigns) /\ pos[a] \in Nat
      BY IndicesInjective DEF AuctionTypeOK
    <3>2. pc[a] = "free" => pos[a]..Len(indices[a]) = {}
      BY <1>2, <3>1
    <3> QED
      BY <1>2, <1>3, <3>2 DEF Held
  <2>2. ASSUME NEW b \in Auctions, b # a PROVE Held(b)' = Held(b)
    BY <1>3, <2>2, HeldFrame
  <2> QED
    BY <1>3, <2>1, <2>2
<1>8. BudgetExact'
  BY <1>3, <1>7, ExactFrame
<1>9. GoodFits'
  <2>1. \A g \in Gens, c \in Campaigns : Good(g, c)' \subseteq Good(g, c)
    BY <1>2, <1>3 DEF Good
  <2> QED
    BY <1>3, <2>1, GoodShrinks
<1> QED
  BY <1>1, <1>4, <1>5, <1>6, <1>8, <1>9

\* The auction found no winner and calls AsyncUpdate().
LEMMA RequestUpdateInv ==
    ASSUME AuctionInv, NEW a \in Auctions, RequestUpdate(a)
    PROVE  AuctionInv'
<1> USE DEF AuctionInv
<1>1. CacheInv'
  BY CallStepsInv DEF RequestUpdate, Auctions
<1>2. /\ pc[a] \in {"free", "asyncUpdate"} /\ pc'[a] \in {"asyncUpdate", "done"}
      /\ pc[a] = "free" => pos[a] > Len(indices[a])
  BY DEF RequestUpdate, AsyncUpdate, AuctionTypeOK, AuctionStates
<1>3. /\ \A b \in Auctions : b # a => pc'[b] = pc[b] /\ result'[b] = result[b]
      /\ UNCHANGED <<indices, pos, snap, granted, winningCPM, winning, winner,
                     available, loaded, state, server>>
  BY DEF RequestUpdate, AsyncUpdate, AuctionTypeOK, cacheVars, tableVars
<1>4. AuctionTypeOK'
  BY DEF RequestUpdate, AsyncUpdate, AuctionTypeOK, AuctionStates, Results
<1>5. \A b \in Auctions : Progress(b)'
  <2>1. Progress(a)'
    BY DEF RequestUpdate, AsyncUpdate, Progress, Decided, AuctionTypeOK
  <2>2. ASSUME NEW b \in Auctions, b # a PROVE Progress(b)'
    BY <1>3, <2>2, HeldFrame DEF Progress, Unreserved, Reserving, Decided
  <2> QED
    BY <2>1, <2>2
<1>6. SnapshotsPublished'
  BY <1>3 DEF SnapshotsPublished
<1>7. \A b \in Auctions : Held(b)' = Held(b) /\ (snap'[b] = snap[b] \/ Held(b) = {})
  <2>1. Held(a)' = Held(a)
    <3>1. indices[a] \in Seq(Campaigns) /\ pos[a] \in Nat
      BY IndicesInjective DEF AuctionTypeOK
    <3>2. pc[a] = "free" => pos[a]..Len(indices[a]) = {}
      BY <1>2, <3>1
    <3> QED
      BY <1>2, <1>3, <3>2 DEF Held
  <2>2. ASSUME NEW b \in Auctions, b # a PROVE Held(b)' = Held(b)
    BY <1>3, <2>2, HeldFrame
  <2> QED
    BY <1>3, <2>1, <2>2
<1>8. BudgetExact'
  BY <1>3, <1>7, ExactFrame
<1>9. GoodFits'
  <2>1. \A g \in Gens, c \in Campaigns : Good(g, c)' \subseteq Good(g, c)
    BY <1>2, <1>3 DEF Good
  <2> QED
    BY <1>3, <2>1, GoodShrinks
<1> QED
  BY <1>1, <1>4, <1>5, <1>6, <1>8, <1>9

\* AsyncUpdate() returns and the auction answers "no bid".
LEMMA UpdateRequestedInv ==
    ASSUME AuctionInv, NEW a \in Auctions, UpdateRequested(a), pc[a] = "asyncUpdate"
    PROVE  AuctionInv'
<1> USE DEF AuctionInv
<1>1. CacheInv'
  BY CallStepsInv DEF UpdateRequested, Auctions
<1>2. /\ pc[a] \in {"free", "asyncUpdate"} /\ pc'[a] \in {"asyncUpdate", "done"}
      /\ pc[a] = "free" => pos[a] > Len(indices[a])
  BY DEF UpdateRequested, ReceiveRequest, AuctionTypeOK, AuctionStates
<1>3. /\ \A b \in Auctions : b # a => pc'[b] = pc[b] /\ result'[b] = result[b]
      /\ UNCHANGED <<indices, pos, snap, granted, winningCPM, winning, winner,
                     available, loaded, state, server>>
  BY DEF UpdateRequested, ReceiveRequest, AuctionTypeOK, cacheVars, tableVars
<1>4. AuctionTypeOK'
  BY DEF UpdateRequested, ReceiveRequest, AuctionTypeOK, AuctionStates, Results
<1>5. \A b \in Auctions : Progress(b)'
  <2>1. Progress(a)'
    BY DEF UpdateRequested, ReceiveRequest, Progress, Decided, AuctionTypeOK
  <2>2. ASSUME NEW b \in Auctions, b # a PROVE Progress(b)'
    BY <1>3, <2>2, HeldFrame DEF Progress, Unreserved, Reserving, Decided
  <2> QED
    BY <2>1, <2>2
<1>6. SnapshotsPublished'
  BY <1>3 DEF SnapshotsPublished
<1>7. \A b \in Auctions : Held(b)' = Held(b) /\ (snap'[b] = snap[b] \/ Held(b) = {})
  <2>1. Held(a)' = Held(a)
    <3>1. indices[a] \in Seq(Campaigns) /\ pos[a] \in Nat
      BY IndicesInjective DEF AuctionTypeOK
    <3>2. pc[a] = "free" => pos[a]..Len(indices[a]) = {}
      BY <1>2, <3>1
    <3> QED
      BY <1>2, <1>3, <3>2 DEF Held
  <2>2. ASSUME NEW b \in Auctions, b # a PROVE Held(b)' = Held(b)
    BY <1>3, <2>2, HeldFrame
  <2> QED
    BY <1>3, <2>1, <2>2
<1>8. BudgetExact'
  BY <1>3, <1>7, ExactFrame
<1>9. GoodFits'
  <2>1. \A g \in Gens, c \in Campaigns : Good(g, c)' \subseteq Good(g, c)
    BY <1>2, <1>3 DEF Good
  <2> QED
    BY <1>3, <2>1, GoodShrinks
<1> QED
  BY <1>1, <1>4, <1>5, <1>6, <1>8, <1>9

-----------------------------------------------------------------------------
(***************************************************************************)
(* Reserve(): the step that can confirm a claim.                           *)
(***************************************************************************)
LEMMA ReserveNextInv ==
    ASSUME AuctionInv, NEW a \in Auctions, ReserveNext(a)
    PROVE  AuctionInv'
<1> USE DEF AuctionInv
<1>0. /\ indices[a] \in Seq(Campaigns) /\ pos[a] \in 1..Len(indices[a])
      /\ snap[a] \in Gens /\ pc[a] = "reserve" /\ Reserving(a)
  BY IndicesInjective DEF ReserveNext, Progress, AuctionTypeOK
<1>1. PICK s \in Seq(Campaigns), k \in Nat, c0 \in Campaigns, g0 \in Gens, v \in Int :
          /\ s = indices[a] /\ k = pos[a] /\ c0 = s[k] /\ g0 = snap[a] /\ v = CPM[c0]
          /\ k \in 1..Len(s) /\ v # 0 /\ pc[a] = "reserve" /\ Reserving(a)
  <2>1. indices[a][pos[a]] \in Campaigns
    BY <1>0
  <2> QED
    BY <1>0, <2>1, PriceType
<1> DEFINE ok == Reserved(g0, c0, v)
<1>2. /\ available' = [available EXCEPT ![g0][c0] = @ - v]
      /\ pos' = [pos EXCEPT ![a] = k + 1]
      /\ UNCHANGED <<state, states, scanned, loaded, taskVars, tick, ticks, call,
                     stopper, pc, indices, snap, winner, result, server>>
  <2>1. Reserve(g0, c0, v) /\ pos' = [pos EXCEPT ![a] = @ + 1]
    BY <1>1 DEF ReserveNext
  <2> QED
    BY <1>1, <2>1 DEF ReserveNext, Reserve
<1>3. /\ available \in [Gens -> [Campaigns -> Int]]
      /\ loaded \in [Gens -> [Campaigns -> Int]]
  BY DEF CacheInv, CacheTypeOK
<1>4. available' \in [Gens -> [Campaigns -> Int]]
  <2>1. g0 \in Gens /\ c0 \in Campaigns /\ v \in Int
    OBVIOUS
  <2>2. [available EXCEPT ![g0][c0] = @ - v] \in [Gens -> [Campaigns -> Int]]
    BY ONLY <1>3, <2>1, CounterType
  <2> QED
    BY ONLY <1>2, <2>2
<1>5. CacheInv'
  BY <1>2, <1>4, CacheStutterInv

\* What the auction notes when the reservation succeeded, and when it failed.
<1>6. /\ ok => /\ granted' = [granted EXCEPT ![a] = @ \cup {c0}]
               /\ winningCPM'[a] = IF v > winningCPM[a] THEN v ELSE winningCPM[a]
               /\ winning'[a] = IF v > winningCPM[a] THEN {c0}
                                ELSE IF v = winningCPM[a] THEN winning[a] \cup {c0}
                                ELSE winning[a]
      /\ ~ok => UNCHANGED <<granted, winningCPM, winning>>
  <2>1. CASE ok
    BY <1>1, <2>1 DEF ReserveNext, AuctionTypeOK
  <2>2. CASE ~ok
    BY <1>1, <2>2 DEF ReserveNext
  <2> QED
    BY <2>1, <2>2
<1>7. /\ granted' \in [Auctions -> SUBSET Campaigns]
      /\ winningCPM' \in [Auctions -> Int]
      /\ winning' \in [Auctions -> SUBSET Campaigns]
  <2>1. CASE ok
    <3>1. granted[a] \cup {c0} \in SUBSET Campaigns
      BY <1>1 DEF AuctionTypeOK
    <3>2. granted' \in [Auctions -> SUBSET Campaigns]
      BY <1>6, <2>1, <3>1 DEF AuctionTypeOK
    <3>3. winningCPM' \in [Auctions -> Int]
      BY <1>1, <2>1 DEF ReserveNext, AuctionTypeOK
    <3>4. PICK W \in SUBSET Campaigns : winning' = [winning EXCEPT ![a] = W]
      <4>1. winning[a] \in SUBSET Campaigns /\ {} \in SUBSET Campaigns
        BY DEF AuctionTypeOK
      <4> QED
        BY <1>1, <2>1, <4>1 DEF ReserveNext
    <3>5. winning' \in [Auctions -> SUBSET Campaigns]
      BY <3>4 DEF AuctionTypeOK
    <3> QED
      BY <3>2, <3>3, <3>5
  <2>2. CASE ~ok
    BY <1>6, <2>2 DEF AuctionTypeOK
  <2> QED
    BY <2>1, <2>2
<1>8. \A b \in Auctions : b # a =>
          /\ granted'[b] = granted[b]
          /\ winningCPM'[b] = winningCPM[b]
          /\ winning'[b] = winning[b]
          /\ pos'[b] = pos[b]
  BY <1>2 DEF ReserveNext, AuctionTypeOK
<1>9. pos'[a] = k + 1 /\ k + 1 \in Nat \ {0}
  BY <1>1, <1>2 DEF AuctionTypeOK
<1>10. AuctionTypeOK'
  BY <1>2, <1>7, <1>9 DEF AuctionTypeOK

\* Auction a now holds c0, which it did not hold before.
<1>11. c0 \notin Held(a)
  <2>1. \A i \in 1..(k - 1) : s[i] # c0
    BY <1>1, IndicesInjective DEF AuctionTypeOK
  <2>2. winner[a] # c0
    BY <1>1, AuctionAssumption DEF Reserving
  <2> QED
    BY <1>1, <2>1, <2>2 DEF Held
<1>12. Held(a)' = Held(a) \cup {c0}
  <2>1. /\ winner'[a] = NoCampaign /\ winner[a] = NoCampaign /\ pc'[a] = "reserve"
        /\ indices'[a] = s
    BY <1>1, <1>2 DEF Reserving
  <2>2. 1..(k + 1 - 1) = 1..(k - 1) \cup {k}
    BY <1>1
  <2>3. Held(a)' = {c \in Campaigns : \E i \in 1..(k - 1) \cup {k} : s[i] = c}
    BY <1>9, <2>1, <2>2, AuctionAssumption DEF Held
  <2>4. Held(a) = {c \in Campaigns : \E i \in 1..(k - 1) : s[i] = c}
    BY <1>1, <2>1, AuctionAssumption DEF Held
  <2> QED
    BY <1>1, <2>3, <2>4
<1>13. \A b \in Auctions : b # a => Held(b)' = Held(b)
  BY <1>2, <1>8, HeldFrame

<1>14. \A b \in Auctions : Progress(b)'
  <2>1. Reserving(a)'
    <3>1. /\ winner'[a] = NoCampaign
          /\ pos'[a] <= Len(indices'[a]) + 1
      BY <1>1, <1>2, <1>9 DEF Reserving
    <3>2. CASE ok
      <4>1. /\ \A c \in granted[a] : CPM[c] \in Int
            /\ winningCPM[a] \in Int /\ winningCPM[a] >= 0
        BY <1>1, PriceType DEF Reserving, AuctionTypeOK
      <4>2. granted'[a] = granted[a] \cup {c0}
        BY <1>6, <3>2 DEF AuctionTypeOK
      <4>3. /\ winningCPM'[a] >= 0 /\ winning'[a] \subseteq granted'[a]
            /\ winning'[a] = {} => winningCPM'[a] = 0
        <5>1. winning[a] \subseteq granted[a] /\ (winning[a] = {} => winningCPM[a] = 0)
          BY <1>1 DEF Reserving
        <5>2. CASE v > winningCPM[a]
          <6>1. winningCPM'[a] = v /\ winning'[a] = {c0}
            BY <1>6, <3>2, <5>2
          <6> QED
            BY <4>1, <4>2, <5>2, <6>1
        <5>3. CASE v = winningCPM[a]
          BY <1>1, <1>6, <3>2, <4>1, <4>2, <5>1, <5>3
        <5>4. CASE v < winningCPM[a]
          BY <1>1, <1>6, <3>2, <4>1, <4>2, <5>1, <5>4
        <5> QED
          BY <4>1, <5>2, <5>3, <5>4
      <4>4. \A c \in winning'[a] : CPM[c] = winningCPM'[a] /\ CPM[c] > 0
        BY <1>1, <1>6, <3>2, <4>1 DEF Reserving
      <4>5. \A c \in granted'[a] : CPM[c] <= winningCPM'[a]
        BY <1>1, <1>6, <3>2, <4>1, <4>2, SMTT(30) DEF Reserving
      <4>6. \A c \in granted'[a] : c \in Held(a)'
        BY <1>1, <1>12, <4>2 DEF Reserving
      <4> QED
        BY <3>1, <4>3, <4>4, <4>5, <4>6 DEF Reserving
    <3>3. CASE ~ok
      BY <1>1, <1>6, <1>12, <3>1, <3>3 DEF Reserving
    <3> QED
      BY <3>2, <3>3
  <2>2. Progress(a)'
    BY <1>1, <1>2, <2>1 DEF Progress
  <2>3. ASSUME NEW b \in Auctions, b # a PROVE Progress(b)'
    BY <1>2, <1>8, <1>13, <2>3 DEF Progress, Unreserved, Reserving, Decided
  <2> QED
    BY <2>2, <2>3
<1>15. SnapshotsPublished'
  BY <1>2 DEF SnapshotsPublished

\* One more holder of c0 in table g0, one CPM less in its counter.
<1>16. \A g \in Gens, c \in Campaigns :
          IF g = g0 /\ c = c0
          THEN Holding(g, c)' = Holding(g, c) \cup {a} /\ a \notin Holding(g, c)
          ELSE Holding(g, c)' = Holding(g, c)
  BY <1>1, <1>2, <1>11, <1>12, <1>13 DEF Holding
<1>17. PICK h \in Nat :
          /\ Holding(g0, c0) \in SUBSET Auctions
          /\ Holding(g0, c0)' \in SUBSET Auctions
          /\ Cardinality(Holding(g0, c0)) = h
          /\ Cardinality(Holding(g0, c0)') = h + 1
  <2>1. Holding(g0, c0) \in SUBSET Auctions /\ Holding(g0, c0)' \in SUBSET Auctions
    BY <1>1, <1>16 DEF Holding
  <2>2. Holding(g0, c0)' = Holding(g0, c0) \cup {a} /\ a \notin Holding(g0, c0)
    BY <1>1, <1>16
  <2> QED
    BY <2>1, <2>2, SubsetOfAuctions, FS_AddElement
<1> DEFINE room == loaded[g0][c0]
<1>17a. room \in Int /\ available[g0][c0] \in Int
  BY <1>1, <1>3
<1>17b. /\ v * h \in Int /\ v * (h + 1) \in Int
       /\ v * (h + 1) = v * h + v
  <2>1. v \in Int /\ h \in Int
    OBVIOUS
  <2> QED
    BY <2>1, OneMore
<1> HIDE DEF room
<1>18. available'[g0][c0] = room - v * (h + 1)
  <2>1. available[g0][c0] = room - v * h
    BY <1>1, <1>17 DEF BudgetExact, room
  <2>2. available'[g0][c0] = available[g0][c0] - v
    BY <1>1, <1>2, <1>3
  <2> QED
    BY <1>17a, <1>17b, <2>1, <2>2
<1>19. BudgetExact'
  <2> SUFFICES ASSUME NEW g \in Gens, NEW c \in Campaigns
               PROVE  available'[g][c] = loaded'[g][c] - CPM[c] * Cardinality(Holding(g, c)')
    BY DEF BudgetExact
  <2>1. CASE g = g0 /\ c = c0
    BY <1>1, <1>2, <1>17, <1>18, <2>1 DEF room
  <2>2. CASE ~(g = g0 /\ c = c0)
    <3>1. available'[g][c] = available[g][c] /\ Holding(g, c)' = Holding(g, c)
      BY <1>1, <1>2, <1>3, <1>16, <2>2
    <3> QED
      BY <1>2, <3>1 DEF BudgetExact
  <2> QED
    BY <2>1, <2>2

\* A confirmed claim was checked against all the holders of the campaign.
<1>20. GoodFits'
  <2>1. CASE ~ok
    <3>1. \A g \in Gens, c \in Campaigns : Good(g, c)' \subseteq Good(g, c)
      BY <1>2, <1>6, <2>1 DEF Good
    <3> QED
      BY <1>2, <3>1, GoodShrinks
  <2>2. CASE ok
    <3> SUFFICES ASSUME NEW g \in Gens, NEW c \in Campaigns,
                        CPM[c] > 0, Good(g, c)' # {}
                 PROVE  CPM[c] * Cardinality(Good(g, c)') <= loaded[g][c]
      BY <1>2 DEF GoodFits
    <3>1. CASE g = g0 /\ c = c0
      <4>1. Good(g0, c0)' \in SUBSET (Holding(g0, c0)')
        <5> SUFFICES ASSUME NEW b \in Good(g0, c0)'
                     PROVE  b \in Holding(g0, c0)'
          OBVIOUS
        <5>1. b \in Auctions /\ snap'[b] = g0
          BY DEF Good
        <5>2. CASE winner'[b] = c0
          BY <1>1, <5>1, <5>2 DEF Holding, Held
        <5>3. CASE pc'[b] = "reserve" /\ c0 \in granted'[b]
          <6>1. Reserving(b)'
            BY <1>14, <5>1, <5>3 DEF Progress
          <6> QED
            BY <5>1, <5>3, <6>1 DEF Reserving, Holding
        <5> QED
          BY <5>2, <5>3 DEF Good
      <4>2. /\ Cardinality(Good(g0, c0)') \in Nat
            /\ Cardinality(Good(g0, c0)') <= h + 1
        BY <1>17, <4>1, SubsetOfAuctions, FS_Subset
      <4>3. v * Cardinality(Good(g0, c0)') <= v * (h + 1)
        BY <1>1, <1>17, <3>1, <4>2, Monotone, SMTT(30)
      <4>4. v * (h + 1) <= room
        <5>1. available'[g0][c0] >= 0
          BY <1>1, <1>2, <1>3, <2>2 DEF Reserved
        <5> QED
          BY <1>18, <1>17a, <1>17b, <5>1
      <4>5. v * Cardinality(Good(g0, c0)') \in Int
        BY <1>1, <4>2, OneMore
      <4>6. v * Cardinality(Good(g0, c0)') <= room
        BY <1>17a, <1>17b, <4>3, <4>4, <4>5
      <4> QED
        BY <1>1, <3>1, <4>6 DEF room
    <3>2. CASE ~(g = g0 /\ c = c0)
      <4>1. Good(g, c)' = Good(g, c)
        <5>1. \A b \in Auctions, d \in Campaigns :
                  d \in granted'[b] <=> (d \in granted[b] \/ (b = a /\ d = c0))
          BY <1>6, <1>8, <2>2 DEF AuctionTypeOK
        <5> QED
          BY <1>1, <1>2, <3>2, <5>1 DEF Good
      <4> QED
        BY <3>2, <4>1 DEF GoodFits
    <3> QED
      BY <3>1, <3>2
  <2> QED
    BY <2>1, <2>2
<1> QED
  BY <1>5, <1>10, <1>14, <1>15, <1>19, <1>20

-----------------------------------------------------------------------------
(***************************************************************************)
(* Free(): gives back what the auction holds, except for the winner.       *)
(***************************************************************************)
LEMMA FreeNextInv ==
    ASSUME AuctionInv, NEW a \in Auctions, FreeNext(a)
    PROVE  AuctionInv'
<1> USE DEF AuctionInv
<1>0. /\ indices[a] \in Seq(Campaigns) /\ pos[a] \in 1..Len(indices[a])
      /\ snap[a] \in Gens /\ pc[a] = "free"
  BY IndicesInjective DEF FreeNext, AuctionTypeOK
<1>1. PICK s \in Seq(Campaigns), k \in Nat, c0 \in Campaigns, g0 \in Gens, v \in Int :
          /\ s = indices[a] /\ k = pos[a] /\ c0 = s[k] /\ g0 = snap[a] /\ v = CPM[c0]
          /\ k \in 1..Len(s) /\ pc[a] = "free"
  <2>1. indices[a][pos[a]] \in Campaigns
    BY <1>0
  <2> QED
    BY <1>0, <2>1, PriceType
<1>2. /\ c0 # winner[a] => available' = [available EXCEPT ![g0][c0] = @ + v]
      /\ c0 = winner[a] => UNCHANGED available
      /\ pos' = [pos EXCEPT ![a] = k + 1]
      /\ UNCHANGED <<state, states, scanned, loaded, taskVars, tick, ticks, call,
                     stopper, pc, indices, snap, granted, winningCPM, winning, winner,
                     result, server>>
  BY <1>1 DEF FreeNext, Free
<1>3. /\ available \in [Gens -> [Campaigns -> Int]]
      /\ loaded \in [Gens -> [Campaigns -> Int]]
  BY DEF CacheInv, CacheTypeOK
<1>4. available' \in [Gens -> [Campaigns -> Int]]
  <2>1. [available EXCEPT ![g0][c0] = @ + v] \in [Gens -> [Campaigns -> Int]]
    BY <1>3, CounterType
  <2> QED
    BY <1>2, <1>3, <2>1
<1>5. CacheInv'
  BY <1>2, <1>4, CacheStutterInv
<1>6. pos'[a] = k + 1 /\ k + 1 \in Nat \ {0}
  BY <1>1, <1>2 DEF AuctionTypeOK
<1>7. \A b \in Auctions : b # a => pos'[b] = pos[b]
  BY <1>2 DEF AuctionTypeOK
<1>8. AuctionTypeOK'
  BY <1>2, <1>6 DEF AuctionTypeOK
<1>9. \A b \in Auctions : b # a => Held(b)' = Held(b)
  BY <1>2, <1>7, HeldFrame

\* Auction a held c0; it still does only if c0 is its winner.
<1>10. c0 \in Held(a)
  <2>1. k \in k..Len(s)
    BY <1>1
  <2> QED
    BY <1>1, <2>1 DEF Held
<1>11. Held(a)' = IF c0 = winner[a] THEN Held(a) ELSE Held(a) \ {c0}
  <2>1. k..Len(s) = ((k + 1)..Len(s)) \cup {k}
    BY <1>1
  <2>2. \A i \in (k + 1)..Len(s) : s[i] # c0
    <3>1. \A i \in 1..Len(s) : s[i] = c0 => i = k
      BY <1>1, IndicesInjective DEF AuctionTypeOK
    <3>2. \A i \in (k + 1)..Len(s) : i \in 1..Len(s) /\ i # k
      BY <1>1
    <3> QED
      BY <3>1, <3>2
  <2>3. Held(a) = {c \in Campaigns : \/ winner[a] = c
                                    \/ \E i \in ((k + 1)..Len(s)) \cup {k} : s[i] = c}
    BY <1>1, <2>1 DEF Held
  <2>4. Held(a)' = {c \in Campaigns : \/ winner[a] = c
                                     \/ \E i \in (k + 1)..Len(s) : s[i] = c}
    BY <1>1, <1>2, <1>6 DEF Held
  <2> QED
    BY <1>1, <2>2, <2>3, <2>4

<1>12. \A b \in Auctions : Progress(b)'
  <2>1. Progress(a)'
    BY <1>1, <1>2, <1>6 DEF Progress, Decided
  <2>2. ASSUME NEW b \in Auctions, b # a PROVE Progress(b)'
    BY <1>2, <1>7, <1>9, <2>2 DEF Progress, Unreserved, Reserving, Decided
  <2> QED
    BY <2>1, <2>2
<1>13. SnapshotsPublished'
  BY <1>2 DEF SnapshotsPublished
<1>14. BudgetExact'
  <2>1. CASE c0 = winner[a]
    <3>1. \A b \in Auctions : Held(b)' = Held(b) /\ (snap'[b] = snap[b] \/ Held(b) = {})
      BY <1>2, <1>9, <1>11, <2>1
    <3> QED
      BY <1>2, <2>1, <3>1, ExactFrame
  <2>2. CASE c0 # winner[a]
    <3>1. \A g \in Gens, c \in Campaigns :
              IF g = g0 /\ c = c0
              THEN Holding(g, c)' = Holding(g, c) \ {a} /\ a \in Holding(g, c)
              ELSE Holding(g, c)' = Holding(g, c)
      BY <1>1, <1>2, <1>9, <1>10, <1>11, <2>2 DEF Holding
    <3>2. PICK h \in Int :
              /\ Cardinality(Holding(g0, c0)) = h
              /\ Cardinality(Holding(g0, c0)') = h - 1
      <4>1. Holding(g0, c0) \in SUBSET Auctions
        BY DEF Holding
      <4>2. Holding(g0, c0)' = Holding(g0, c0) \ {a} /\ a \in Holding(g0, c0)
        BY <3>1
      <4> QED
        BY <4>1, <4>2, SubsetOfAuctions, FS_RemoveElement
    <3> DEFINE room == loaded[g0][c0]
    <3>3. room \in Int /\ available[g0][c0] \in Int
      BY <1>3
    <3>4. v * h \in Int /\ v * (h - 1) \in Int /\ v * (h - 1) = v * h - v
      BY OneMore
    <3> HIDE DEF room
    <3>5. available'[g0][c0] = room - v * (h - 1)
      <4>1. available[g0][c0] = room - v * h
        BY <1>1, <3>2 DEF BudgetExact, room
      <4>2. available'[g0][c0] = available[g0][c0] + v
        BY <1>2, <1>3, <2>2
      <4> QED
        BY <3>3, <3>4, <4>1, <4>2
    <3> SUFFICES ASSUME NEW g \in Gens, NEW c \in Campaigns
                 PROVE  available'[g][c] = loaded'[g][c] - CPM[c] * Cardinality(Holding(g, c)')
      BY DEF BudgetExact
    <3>6. CASE g = g0 /\ c = c0
      BY <1>1, <1>2, <3>2, <3>5, <3>6 DEF room
    <3>7. CASE ~(g = g0 /\ c = c0)
      <4>1. available'[g][c] = available[g][c] /\ Holding(g, c)' = Holding(g, c)
        BY <1>2, <1>3, <2>2, <3>1, <3>7
      <4> QED
        BY <1>2, <4>1 DEF BudgetExact
    <3> QED
      BY <3>6, <3>7
  <2> QED
    BY <2>1, <2>2
<1>15. GoodFits'
  <2>1. \A g \in Gens, c \in Campaigns : Good(g, c)' \subseteq Good(g, c)
    BY <1>2 DEF Good
  <2> QED
    BY <1>2, <2>1, GoodShrinks
<1> QED
  BY <1>5, <1>8, <1>12, <1>13, <1>14, <1>15

-----------------------------------------------------------------------------
(***************************************************************************)
(* The steps of the cache, between those of the auctions.                  *)
(***************************************************************************)

\* A step that leaves the auctions, the counters and what was loaded alone.
LEMMA CacheControlInv ==
    ASSUME AuctionInv, CacheInv', UNCHANGED <<available, loaded, auctionVars>>,
           state' >= state, server' \in {"serving", "draining", "down"}
    PROVE  AuctionInv'
<1> USE DEF AuctionInv, auctionVars
<1>1. AuctionTypeOK'
  BY DEF AuctionTypeOK
<1>2. \A b \in Auctions : Held(b)' = Held(b)
  BY HeldFrame
<1>3. \A b \in Auctions : Progress(b)'
  BY <1>2 DEF Progress, Unreserved, Reserving, Decided
<1>4. SnapshotsPublished'
  BY CacheAssumption
     DEF SnapshotsPublished, AuctionTypeOK, CacheInv, CacheTypeOK, Gens
<1>5. BudgetExact'
  BY <1>2, ExactFrame
<1>6. GoodFits'
  <2>1. \A g \in Gens, c \in Campaigns : Good(g, c)' \subseteq Good(g, c)
    BY DEF Good
  <2> QED
    BY <2>1, GoodShrinks
<1> QED
  BY <1>1, <1>3, <1>4, <1>5, <1>6

\* A table is filled before any auction can take it as its snapshot.
LEMMA ConsumeRecordInv ==
    ASSUME AuctionInv, CacheInv', NEW g \in Gens, NEW r \in Records, NEW v \in Amounts,
           ConsumeRecord(g, r, v), UNCHANGED <<auctionVars, server>>
    PROVE  AuctionInv'
<1> USE DEF AuctionInv, auctionVars
<1>1. AuctionTypeOK'
  BY DEF AuctionTypeOK
<1>2. \A b \in Auctions : Held(b)' = Held(b)
  BY HeldFrame
<1>3. \A b \in Auctions : Progress(b)'
  BY <1>2 DEF Progress, Unreserved, Reserving, Decided
<1>4. SnapshotsPublished'
  BY DEF SnapshotsPublished, ConsumeRecord
<1>5. /\ available \in [Gens -> [Campaigns -> Int]]
      /\ loaded \in [Gens -> [Campaigns -> Int]]
      /\ v \in Int
  BY CacheAssumption DEF CacheInv, CacheTypeOK
<1>6. BudgetExact'
  <2> SUFFICES ASSUME NEW f \in Gens, NEW c \in Campaigns
               PROVE  available'[f][c] = loaded'[f][c] - CPM[c] * Cardinality(Holding(f, c)')
    BY DEF BudgetExact
  <2>1. Holding(f, c)' = Holding(f, c)
    BY <1>2, HoldingFrame
  <2>2. CPM[c] * Cardinality(Holding(f, c)) \in Int
    <3>1. Holding(f, c) \in SUBSET Auctions
      BY DEF Holding
    <3> QED
      BY <3>1, SubsetOfAuctions, PriceType, OneMore
  <2>3. available[f][c] = loaded[f][c] - CPM[c] * Cardinality(Holding(f, c))
    BY DEF BudgetExact
  <2>4. CASE f = g /\ c = r
    <3>1. available'[f][c] = available[f][c] + v /\ loaded'[f][c] = loaded[f][c] + v
      BY <1>5, <2>4 DEF ConsumeRecord
    <3>2. available[f][c] \in Int /\ loaded[f][c] \in Int
      BY <1>5
    <3> QED
      BY <1>5, <2>1, <2>2, <2>3, <3>1, <3>2
  <2>5. CASE ~(f = g /\ c = r)
    <3>1. available'[f][c] = available[f][c] /\ loaded'[f][c] = loaded[f][c]
      BY <1>5, <2>5 DEF ConsumeRecord
    <3> QED
      BY <2>1, <2>3, <3>1
  <2> QED
    BY <2>4, <2>5
<1>7. GoodFits'
  <2> SUFFICES ASSUME NEW f \in Gens, NEW c \in Campaigns,
                      CPM[c] > 0, Good(f, c)' # {}
               PROVE  CPM[c] * Cardinality(Good(f, c)') <= loaded'[f][c]
    BY DEF GoodFits
  <2>1. Good(f, c)' = Good(f, c)
    BY DEF Good
  <2>2. f # g
    <3>1. f <= state
      BY <2>1 DEF Good, SnapshotsPublished
    <3>2. g > state
      BY DEF ConsumeRecord, CacheInv, AllocatedInOrder
    <3>3. g \in Int /\ state \in Int
      BY DEF CacheInv, CacheTypeOK, Gens
    <3> QED
      BY <3>1, <3>2, <3>3
  <2>3. loaded'[f][c] = loaded[f][c]
    BY <1>5, <2>2 DEF ConsumeRecord
  <2> QED
    BY <2>1, <2>3 DEF GoodFits
<1> QED
  BY <1>1, <1>3, <1>4, <1>6, <1>7

-----------------------------------------------------------------------------
(***************************************************************************)
(* Calls of AsyncUpdate() and the life of the server.                      *)
(***************************************************************************)
CallsMatch ==
    \A a \in Auctions :
        /\ call[a] = "blocked" <=> pc[a] = "asyncUpdate"
        /\ pc[a] \in {"idle", "device", "snapshot", "reserve", "free"} => call[a] = "none"
        /\ call[a] # "panicked"

\* The cache is stopped after the server, the server after its requests.
ServerOrder ==
    /\ server = "down" => \A a \in Auctions : ~Active(a)
    /\ stopper # "running" => server = "down"

Inv == AuctionInv /\ CallsMatch /\ ServerOrder

LEMMA InitInv == Init => Inv
<1> SUFFICES ASSUME Init PROVE CallsMatch /\ ServerOrder
  BY AuctionInitInv DEF Inv
<1> QED
  BY DEF Init, CacheInit, CallsMatch, ServerOrder, Auctions

\* One step of a request.
LEMMA RequestInv ==
    ASSUME Inv, NEW a \in Auctions, Begin(a) \/ AuctionStep(a) \/ UpdateRequested(a)
    PROVE  Inv'
<1> USE DEF Inv
<1>1. AuctionInv'
  <2>1. UpdateRequested(a) => pc[a] = "asyncUpdate"
    BY DEF UpdateRequested, ReceiveRequest, CallsMatch
  <2> QED
    BY <2>1, BeginInv, EndEarlyInv, FindCampaignsInv, TakeSnapshotInv, ReserveNextInv,
       PickWinnerInv, FreeNextInv, BidInv, RequestUpdateInv, UpdateRequestedInv
       DEF AuctionStep
<1>2. pc \in [Auctions -> AuctionStates] /\ call \in [Auctions -> CallStates]
  BY DEF AuctionInv, AuctionTypeOK, CacheInv, CacheTypeOK, Auctions
<1>3. CASE Begin(a)
  BY <1>1, <1>2, <1>3 DEF Begin, CallsMatch, ServerOrder, Active, cacheVars
<1>4. ASSUME NEW r \in Results, EndEarly(a, r)
      PROVE  Inv'
  BY <1>1, <1>2, <1>4 DEF EndEarly, CallsMatch, ServerOrder, Active, cacheVars
<1>5. ASSUME NEW s \in Targetings, FindCampaigns(a, s)
      PROVE  Inv'
  BY <1>1, <1>2, <1>5 DEF FindCampaigns, CallsMatch, ServerOrder, Active, cacheVars
<1>6. CASE TakeSnapshot(a)
  BY <1>1, <1>2, <1>6 DEF TakeSnapshot, CallsMatch, ServerOrder, Active, cacheVars
<1>7. CASE ReserveNext(a) \/ FreeNext(a)
  BY <1>1, <1>2, <1>7 DEF ReserveNext, FreeNext, CallsMatch, ServerOrder, Active
<1>8. CASE PickWinner(a)
  BY <1>1, <1>2, <1>8 DEF PickWinner, CallsMatch, ServerOrder, Active, cacheVars
<1>9. CASE Bid(a)
  BY <1>1, <1>2, <1>9 DEF Bid, CallsMatch, ServerOrder, Active, cacheVars
<1>10. CASE RequestUpdate(a)
  <2>1. Open
    BY <1>10 DEF RequestUpdate, ServerOrder, Active, Open
  <2> QED
    BY <1>1, <1>2, <1>10, <2>1
       DEF RequestUpdate, AsyncUpdate, CallsMatch, ServerOrder, Active
<1>11. CASE UpdateRequested(a)
  BY <1>1, <1>2, <1>11
     DEF UpdateRequested, ReceiveRequest, CallsMatch, ServerOrder, Active
<1> QED
  BY <1>3, <1>4, <1>5, <1>6, <1>7, <1>8, <1>9, <1>10, <1>11 DEF AuctionStep

\* One step of the cache, or of its stop().
LEMMA CacheSideInv ==
    ASSUME Inv, CacheInternal \/ CloseServices
    PROVE  Inv'
<1> USE DEF Inv
<1>0. /\ AuctionInv /\ CacheInv /\ UNCHANGED <<auctionVars, server>>
      /\ server \in {"serving", "draining", "down"} /\ state \in Int
  BY DEF CacheInternal, CloseServices, AuctionInv, AuctionTypeOK, CacheInv, CacheTypeOK,
         Gens
<1>1. UNCHANGED pc
  BY <1>0 DEF auctionVars
<1>2. CASE Tick
  <2>1. CacheInv' /\ UNCHANGED <<available, loaded, state, call, stopper>>
    BY <1>0, <1>2, TickInv DEF Tick, tableVars
  <2> QED
    BY <1>0, <1>1, <2>1, CacheControlInv DEF CallsMatch, ServerOrder, Active
<1>3. CASE Updater
  <2>1. CacheInv' /\ UNCHANGED <<available, loaded, state, call, stopper>>
    BY <1>0, <1>3, UpdaterInv
       DEF Updater, ReceiveTick, UpdateDropped, UpdateStarted, tableVars
  <2> QED
    BY <1>0, <1>1, <2>1, CacheControlInv DEF CallsMatch, ServerOrder, Active
<1>4. ASSUME NEW g \in Gens, Refresh(g)
      PROVE  Inv'
  <2>1. CacheInv'
    BY <1>0, <1>4, RefreshInv
  <2>2. UNCHANGED <<call, stopper>>
    BY <1>4 DEF Refresh, ConsumeRecord, ScanSucceeds, ScanFails, SwapState,
                ClearInProgress, TaskDone
  <2>3. CallsMatch' /\ ServerOrder'
    BY <1>0, <1>1, <2>2 DEF CallsMatch, ServerOrder, Active
  <2>4. ASSUME NEW r \in Records, NEW v \in Amounts, ConsumeRecord(g, r, v)
        PROVE  AuctionInv'
    BY <1>0, <2>1, <2>4, ConsumeRecordInv
  <2>5. CASE SwapState(g)
    <3>1. UNCHANGED <<available, loaded>> /\ state' = g /\ g > state
      BY <1>0, <2>5 DEF SwapState, CacheInv, AllocatedInOrder
    <3>2. state' >= state
      BY <1>0, <3>1 DEF Gens
    <3> QED
      BY <1>0, <2>1, <2>3, <3>1, <3>2, CacheControlInv
  <2>6. CASE ScanSucceeds(g) \/ ScanFails(g) \/ ClearInProgress(g) \/ TaskDone(g)
    <3>1. UNCHANGED <<available, loaded, state>>
      BY <2>6 DEF ScanSucceeds, ScanFails, ClearInProgress, TaskDone, tableVars
    <3> QED
      BY <1>0, <2>1, <2>3, <3>1, CacheControlInv
  <2> QED
    BY <1>4, <2>3, <2>4, <2>5, <2>6 DEF Refresh
<1>5. CASE Stopper
  <2>1. CacheInv' /\ UNCHANGED <<available, loaded, state>>
    BY <1>0, <1>5, StopStepsInv
       DEF Stopper, ReceiveStop, WaitTasks, CloseChannel, tableVars
  <2>2. \A p \in Auctions : ~Active(p)
    BY <1>5 DEF Stopper, ReceiveStop, WaitTasks, CloseChannel, ServerOrder
  <2>3. \A p \in Callers : call[p] # "blocked"
    BY <2>2 DEF CallsMatch, Active, Auctions
  <2>4. call \in [Callers -> CallStates]
    BY <1>0 DEF CacheInv, CacheTypeOK
  <2>5. call' = call
    BY <1>5, <2>3, <2>4 DEF Stopper, ReceiveStop, WaitTasks, CloseChannel
  <2>6. stopper # "running"
    BY <1>5 DEF Stopper, ReceiveStop, WaitTasks, CloseChannel
  <2>7. AuctionInv'
    BY <1>0, <2>1, CacheControlInv
  <2>8. CallsMatch' /\ ServerOrder'
    BY <1>0, <1>1, <2>5, <2>6 DEF CallsMatch, ServerOrder, Active
  <2> QED
    BY <2>7, <2>8
<1>6. CASE CloseServices
  <2>1. CacheInv' /\ UNCHANGED <<available, loaded, state, call>>
    BY <1>0, <1>6, StopStepsInv DEF CloseServices, StopTicker, tableVars
  <2>2. AuctionInv'
    BY <1>0, <2>1, CacheControlInv
  <2>3. CallsMatch' /\ ServerOrder'
    BY <1>0, <1>1, <1>6, <2>1 DEF CloseServices, CallsMatch, ServerOrder, Active
  <2> QED
    BY <2>2, <2>3
<1> QED
  BY <1>2, <1>3, <1>4, <1>5, <1>6 DEF CacheInternal

LEMMA NextInv ==
    ASSUME Inv, [Next]_vars
    PROVE  Inv'
<1>1. CASE \E a \in Auctions : Begin(a) \/ AuctionStep(a) \/ UpdateRequested(a)
  BY <1>1, RequestInv
<1>2. CASE CacheInternal \/ CloseServices
  BY <1>2, CacheSideInv
<1>3. CASE Interrupt \/ ShutdownReturns \/ UNCHANGED vars
  <2>1. /\ UNCHANGED <<cacheVars, auctionVars>>
        /\ server' \in {"serving", "draining", "down"}
        /\ AuctionInv /\ state \in Int
    BY <1>3 DEF Interrupt, ShutdownReturns, vars, Inv, AuctionInv, AuctionTypeOK,
                CacheInv, CacheTypeOK, Gens
  <2>2. CacheInv'
    BY <2>1, CacheStutterInv DEF AuctionInv, CacheInv, CacheTypeOK, cacheVars, taskVars
  <2>3. AuctionInv'
    BY <2>1, <2>2, CacheControlInv DEF cacheVars
  <2>4. CallsMatch'
    BY <2>1 DEF Inv, CallsMatch, cacheVars, auctionVars
  <2>5. ServerOrder'
    BY <1>3 DEF Inv, Interrupt, ShutdownReturns, vars, ServerOrder, Active, cacheVars,
                auctionVars
  <2> QED
    BY <2>3, <2>4, <2>5 DEF Inv
<1> QED
  BY <1>1, <1>2, <1>3 DEF Next, Ended

(***************************************************************************)
(* The inductive invariant holds in every behaviour.                       *)
(***************************************************************************)
THEOREM Invariant == Safe => []Inv
<1>1. Init => Inv
  BY InitInv
<1>2. Inv /\ [Next]_vars => Inv'
  BY NextInv
<1> QED
  BY <1>1, <1>2, PTL DEF Safe

(***************************************************************************)
(* Every variable keeps its type, whatever the auctions and refreshes do.  *)
(***************************************************************************)
THEOREM TypeCorrect == Safe => []TypeOK
<1>1. Inv => TypeOK
  BY DEF Inv, AuctionInv, AuctionTypeOK, CacheInv, TypeOK
<1> QED
  BY <1>1, Invariant, PTL

(***************************************************************************)
(* The counters are exact at every moment: nothing reserved is leaked,     *)
(* nothing is freed twice.                                                 *)
(***************************************************************************)
THEOREM CountersExact == Safe => []BudgetExact
<1>1. Inv => BudgetExact
  BY DEF Inv, AuctionInv
<1> QED
  BY <1>1, Invariant, PTL

\* A sale is a confirmed claim, and its campaign has a positive price.
LEMMA NoOverspendFromInv == Inv => NoOverspend
<1> SUFFICES ASSUME Inv, NEW g \in Gens, NEW c \in Campaigns, Sold(g, c) # {}
             PROVE  CPM[c] * Cardinality(Sold(g, c)) <= loaded[g][c]
  BY DEF NoOverspend
<1>1. PICK a \in Auctions : snap[a] = g /\ winner[a] = c
  BY DEF Sold
<1>2. CPM[c] > 0
  <2>1. Progress(a) /\ winner[a] # NoCampaign /\ pc[a] \in AuctionStates
    BY <1>1, AuctionAssumption DEF Inv, AuctionInv, AuctionTypeOK
  <2>2. Decided(a)
    BY <2>1 DEF Progress, Unreserved, Reserving, AuctionStates
  <2> QED
    BY <1>1, <2>1, <2>2 DEF Decided
<1>3. /\ Good(g, c) \in SUBSET Auctions /\ Sold(g, c) \in SUBSET Good(g, c)
      /\ Good(g, c) # {}
  BY <1>1 DEF Good, Sold
<1>4. /\ Cardinality(Good(g, c)) \in Nat /\ Cardinality(Sold(g, c)) \in Nat
      /\ Cardinality(Sold(g, c)) <= Cardinality(Good(g, c))
  BY <1>3, SubsetOfAuctions, FS_Subset
<1>5. CPM[c] \in Nat
  BY <1>2, PriceType
<1>6. CPM[c] * Cardinality(Sold(g, c)) <= CPM[c] * Cardinality(Good(g, c))
  BY <1>4, <1>5, Monotone
<1>7. CPM[c] * Cardinality(Good(g, c)) <= loaded[g][c]
  BY <1>2, <1>3 DEF Inv, AuctionInv, GoodFits
<1>8. /\ CPM[c] * Cardinality(Sold(g, c)) \in Int
      /\ CPM[c] * Cardinality(Good(g, c)) \in Int
  BY <1>4, <1>5, OneMore
<1>9. loaded[g][c] \in Int
  BY DEF Inv, AuctionInv, CacheInv, CacheTypeOK
<1> QED
  BY <1>6, <1>7, <1>8, <1>9

(***************************************************************************)
(* No interleaving of auctions and refreshes sells a campaign beyond the   *)
(* budget that was loaded for it.                                          *)
(***************************************************************************)
THEOREM NeverOverspent == Safe => []NoOverspend
<1>1. Inv => NoOverspend
  BY NoOverspendFromInv
<1> QED
  BY <1>1, Invariant, PTL

(***************************************************************************)
(* An auction's winner is the best campaign it was granted.                *)
(***************************************************************************)
THEOREM BestAlwaysWins == Safe => []BestGrantedWins
<1>1. Inv => BestGrantedWins
  BY DEF Inv, AuctionInv, BestGrantedWins, Progress, Decided
<1> QED
  BY <1>1, Invariant, PTL

(***************************************************************************)
(* Stopping the cache is clean under real auctions: no request panics on   *)
(* the closed channel, no goroutine of the cache is left behind.           *)
(***************************************************************************)
THEOREM ShutdownClean == Safe => []StopIsClean
<1>1. Inv => StopIsClean
  <2> SUFFICES ASSUME Inv PROVE StopIsClean
    OBVIOUS
  <2>1. CallsEndBeforeStop
    BY DEF Inv, CallsMatch, ServerOrder, CallsEndBeforeStop, Active, Auctions
  <2> QED
    BY <2>1, StopCleanFromInv DEF Inv, AuctionInv
<1> QED
  BY <1>1, Invariant, PTL

-----------------------------------------------------------------------------
(***************************************************************************)
(* The auctions implement the ledger of BudgetLedger, and they use the     *)
(* cache the way BudgetCache asks of its users.                            *)
(***************************************************************************)
SoldTable == [g \in Gens |-> [c \in Campaigns |-> Sold(g, c)]]

\* The ledger's module has its own copy of Cardinality.
LEMMA SameCardinality == \A S : Ledger!Cardinality(S) = Cardinality(S)
BY DEF Ledger!Cardinality, Cardinality

\* The ledger sees a step that sells nothing as a refresh or a stutter.
LEMMA LedgerRefresh ==
    ASSUME Inv, Inv', UNCHANGED <<snap, winner>>, state' >= state,
           \A t \in Gens : t <= state => loaded'[t] = loaded[t]
    PROVE  Ledger!Refresh
<1>1. state' \in Gens
  BY DEF Inv, AuctionInv, CacheInv, CacheTypeOK
<1>2. SoldTable' = SoldTable
  BY DEF SoldTable, Sold
<1> QED
  BY <1>1, <1>2 DEF Ledger!Refresh, SoldTable

\* Taking a snapshot sells nothing either: the auction has no winner yet.
LEMMA LedgerSnapshot ==
    ASSUME Inv, NEW a \in Auctions, TakeSnapshot(a)
    PROVE  SoldTable' = SoldTable
<1>1. winner[a] = NoCampaign
  BY DEF TakeSnapshot, Inv, AuctionInv, Progress, Unreserved
<1>2. \A g \in Gens, c \in Campaigns : Sold(g, c)' = Sold(g, c)
  BY <1>1, AuctionAssumption DEF TakeSnapshot, Sold, Inv, AuctionInv, AuctionTypeOK
<1> QED
  BY <1>2 DEF SoldTable

(***************************************************************************)
(* Picking a winner is the sale: the winner's reservation was confirmed,   *)
(* so one more CPM fits beside all the sales of the campaign so far.       *)
(***************************************************************************)
LEMMA LedgerSale ==
    ASSUME Inv, NEW a \in Auctions, PickWinner(a), winner'[a] # NoCampaign
    PROVE  Ledger!Sell(a, snap[a], winner'[a])
<1> USE DEF Inv, AuctionInv
<1>1. Reserving(a) /\ winner[a] = NoCampaign /\ pc[a] = "reserve"
  BY DEF PickWinner, Progress, Reserving
<1>2. PICK c \in Campaigns, g \in Gens :
          /\ c = winner'[a] /\ g = snap[a] /\ c \in granted[a] /\ CPM[c] > 0
          /\ winner' = [winner EXCEPT ![a] = c]
  <2>1. PICK w \in (IF winning[a] = {} THEN {NoCampaign} ELSE winning[a]) :
            winner' = [winner EXCEPT ![a] = w]
    BY DEF PickWinner
  <2>2. winner'[a] = w /\ w \in winning[a]
    BY <2>1 DEF AuctionTypeOK
  <2> QED
    BY <1>1, <2>1, <2>2 DEF Reserving, AuctionTypeOK
<1>3. UNCHANGED <<state, loaded, snap>>
  BY DEF PickWinner, cacheVars
<1>4. g <= state
  BY <1>2 DEF SnapshotsPublished
<1>5. \A f \in Gens, d \in Campaigns : a \notin Sold(f, d)
  BY <1>1, AuctionAssumption DEF Sold
<1>6. CPM[c] * (Cardinality(Sold(g, c)) + 1) <= loaded[g][c]
  <2>1. /\ Sold(g, c) \in SUBSET Auctions /\ Good(g, c) \in SUBSET Auctions
        /\ Sold(g, c) \cup {a} \in SUBSET Good(g, c)
    BY <1>1, <1>2 DEF Sold, Good
  <2>2. /\ Cardinality(Sold(g, c) \cup {a}) = Cardinality(Sold(g, c)) + 1
        /\ Cardinality(Sold(g, c)) \in Nat
    BY <1>2, <1>5, <2>1, SubsetOfAuctions, FS_AddElement
  <2>3. /\ Cardinality(Good(g, c)) \in Nat
        /\ Cardinality(Sold(g, c)) + 1 <= Cardinality(Good(g, c))
    BY <2>1, <2>2, SubsetOfAuctions, FS_Subset
  <2>4. CPM[c] \in Nat
    BY <1>2, PriceType
  <2>5. CPM[c] * (Cardinality(Sold(g, c)) + 1) <= CPM[c] * Cardinality(Good(g, c))
    BY <2>2, <2>3, <2>4, Monotone
  <2>6. CPM[c] * Cardinality(Good(g, c)) <= loaded[g][c]
    BY <1>2, <2>1 DEF GoodFits
  <2>7. loaded[g][c] \in Int
    BY DEF CacheInv, CacheTypeOK
  <2>8. /\ CPM[c] * Cardinality(Good(g, c)) \in Int
        /\ CPM[c] * (Cardinality(Sold(g, c)) + 1) \in Int
    BY <2>2, <2>3, <2>4, OneMore
  <2> QED
    BY <2>5, <2>6, <2>7, <2>8
<1>7. \A f \in Gens, d \in Campaigns :
         Sold(f, d)' = IF f = g /\ d = c THEN Sold(f, d) \cup {a} ELSE Sold(f, d)
  BY <1>1, <1>2, <1>3, AuctionAssumption DEF Sold, AuctionTypeOK
<1>8. SoldTable' = [SoldTable EXCEPT ![g][c] = @ \cup {a}]
  <2> DEFINE T == [SoldTable EXCEPT ![g][c] = @ \cup {a}]
  <2>1. ASSUME NEW f \in Gens PROVE SoldTable'[f] = T[f]
    <3>1. SoldTable'[f] = [d \in Campaigns |-> Sold(f, d)']
      BY DEF SoldTable
    <3>2. SoldTable[f] = [d \in Campaigns |-> Sold(f, d)]
      BY DEF SoldTable
    <3>3. CASE f = g
      <4>1. T[f] = [SoldTable[f] EXCEPT ![c] = @ \cup {a}]
        BY <3>3 DEF SoldTable
      <4>2. \A d \in Campaigns : SoldTable'[f][d] = T[f][d]
        <5> TAKE d \in Campaigns
        <5>1. T[f][d] = IF d = c THEN Sold(f, d) \cup {a} ELSE Sold(f, d)
          BY <1>2, <3>2, <4>1
        <5>2. SoldTable'[f][d] = Sold(f, d)'
          BY <3>1
        <5> QED
          BY <1>7, <3>3, <5>1, <5>2
      <4>3. /\ SoldTable'[f] = [d \in Campaigns |-> SoldTable'[f][d]]
            /\ T[f] = [d \in Campaigns |-> T[f][d]]
        BY <3>1, <3>2, <4>1
      <4> QED
        BY <4>2, <4>3
    <3>4. CASE f # g
      <4>1. T[f] = SoldTable[f]
        BY <3>4 DEF SoldTable
      <4> QED
        BY <1>7, <3>1, <3>2, <3>4, <4>1
    <3> QED
      BY <3>3, <3>4
  <2>2. /\ SoldTable' = [f \in Gens |-> SoldTable'[f]]
        /\ T = [f \in Gens |-> T[f]]
    BY DEF SoldTable
  <2> QED
    BY <2>1, <2>2
<1>9. /\ \A u \in Gens, d \in Campaigns : SoldTable[u][d] = Sold(u, d)
  BY DEF SoldTable
<1>10. /\ \A u \in Gens, d \in Campaigns : a \notin SoldTable[u][d]
      /\ CPM[c] * (Cardinality(SoldTable[g][c]) + 1) <= loaded[g][c]
  BY <1>2, <1>5, <1>6, <1>9
<1>11. Ledger!Sell(a, g, c)
  BY <1>3, <1>4, <1>8, <1>10, SameCardinality DEF Ledger!Sell, SoldTable
<1> QED
  BY <1>2, <1>11

LEMMA LedgerStep ==
    ASSUME Inv, Inv', [Next]_vars
    PROVE  [Ledger!LedgerNext]_(Ledger!ledgerVars)
<1> DEFINE Goal == [Ledger!LedgerNext]_(Ledger!ledgerVars)
<1>0. Ledger!Refresh => Goal
  BY DEF Ledger!LedgerNext
<1>1. ASSUME UNCHANGED <<state, loaded>>, SoldTable' = SoldTable
      PROVE  Goal
  BY <1>1 DEF Ledger!ledgerVars, SoldTable
<1>2. ASSUME UNCHANGED <<state, loaded, snap, winner>>
      PROVE  Goal
  <2>1. SoldTable' = SoldTable
    BY <1>2 DEF SoldTable, Sold
  <2> QED
    BY <1>1, <1>2, <2>1
<1>3. ASSUME NEW a \in Auctions, PickWinner(a)
      PROVE  Goal
  <2>1. UNCHANGED <<state, loaded, snap>>
    BY <1>3 DEF PickWinner, cacheVars
  <2>2. CASE winner'[a] = NoCampaign
    <3>1. winner[a] = NoCampaign
      BY <1>3 DEF PickWinner, Inv, AuctionInv, Progress, Reserving
    <3>2. \A b \in Auctions : winner'[b] = winner[b]
      BY <1>3, <2>2, <3>1 DEF PickWinner, Inv, AuctionInv, AuctionTypeOK
    <3>3. SoldTable' = SoldTable
      BY <2>1, <3>2 DEF SoldTable, Sold
    <3> QED
      BY <1>1, <2>1, <3>3
  <2>3. CASE winner'[a] # NoCampaign
    <3>1. snap[a] \in Gens /\ winner'[a] \in Campaigns
      BY <2>3 DEF Inv, AuctionInv, AuctionTypeOK
    <3>2. Ledger!Sell(a, snap[a], winner'[a])
      BY <1>3, <2>3, LedgerSale
    <3>3. \E b \in Auctions, t \in Gens, c \in Campaigns : Ledger!Sell(b, t, c)
      BY <3>1, <3>2
    <3> QED
      BY <3>3 DEF Ledger!LedgerNext
  <2> QED
    BY <2>2, <2>3
<1>4. ASSUME NEW a \in Auctions, TakeSnapshot(a)
      PROVE  Goal
  BY <1>1, <1>4, LedgerSnapshot DEF TakeSnapshot, cacheVars
<1>5. ASSUME NEW a \in Auctions, Begin(a) \/ AuctionStep(a) \/ UpdateRequested(a)
      PROVE  Goal
  <2>1. CASE Begin(a) \/ UpdateRequested(a) \/ ReserveNext(a) \/ FreeNext(a) \/ Bid(a)
             \/ RequestUpdate(a)
    <3>1. UNCHANGED <<state, loaded, snap, winner>>
      BY <2>1 DEF Begin, UpdateRequested, ReceiveRequest, ReserveNext, FreeNext, Bid,
                  RequestUpdate, AsyncUpdate, cacheVars, tableVars
    <3> QED
      BY <1>2, <3>1
  <2>2. ASSUME NEW r \in Results, EndEarly(a, r) PROVE Goal
    BY <1>2, <2>2 DEF EndEarly, cacheVars
  <2>3. ASSUME NEW s \in Targetings, FindCampaigns(a, s) PROVE Goal
    BY <1>2, <2>3 DEF FindCampaigns, cacheVars
  <2> QED
    BY <1>3, <1>4, <1>5, <2>1, <2>2, <2>3 DEF AuctionStep
<1>6. ASSUME Tick \/ Updater \/ Stopper \/ CloseServices, UNCHANGED auctionVars
      PROVE  Goal
  <2>1. UNCHANGED <<state, loaded>>
    BY <1>6 DEF Tick, Updater, ReceiveTick, UpdateDropped, UpdateStarted, Stopper,
                ReceiveStop, WaitTasks, CloseChannel, CloseServices, StopTicker, tableVars
  <2> QED
    BY <1>2, <1>6, <2>1 DEF auctionVars
<1>7. ASSUME NEW g \in Gens, Refresh(g), UNCHANGED auctionVars
      PROVE  Goal
  <2>0. /\ state \in Int /\ g \in Int /\ loaded \in [Gens -> [Campaigns -> Int]]
        /\ UNCHANGED <<snap, winner>>
    BY <1>7 DEF Inv, AuctionInv, CacheInv, CacheTypeOK, Gens, auctionVars
  <2>1. ASSUME NEW r \in Records, NEW v \in Amounts, ConsumeRecord(g, r, v)
        PROVE  Goal
    <3>1. g > state /\ state' = state
      BY <2>1 DEF ConsumeRecord, Inv, AuctionInv, CacheInv, AllocatedInOrder
    <3>2. \A t \in Gens : t <= state => t # g
      BY <2>0, <3>1 DEF Gens
    <3>3. \A t \in Gens : t # g => loaded'[t] = loaded[t]
      BY <2>0, <2>1 DEF ConsumeRecord
    <3>4. \A t \in Gens : t <= state => loaded'[t] = loaded[t]
      BY <3>2, <3>3
    <3>5. state' >= state
      BY <2>0, <3>1
    <3>6. Ledger!Refresh
      BY <2>0, <3>4, <3>5, LedgerRefresh
    <3> QED
      BY <1>0, <3>6
  <2>2. CASE SwapState(g)
    <3>1. state' = g /\ g > state /\ UNCHANGED loaded
      BY <2>2 DEF SwapState, Inv, AuctionInv, CacheInv, AllocatedInOrder
    <3> QED
      BY <1>0, <2>0, <3>1, LedgerRefresh
  <2>3. CASE ScanSucceeds(g) \/ ScanFails(g) \/ ClearInProgress(g) \/ TaskDone(g)
    <3>1. UNCHANGED <<state, loaded>>
      BY <2>3 DEF ScanSucceeds, ScanFails, ClearInProgress, TaskDone, tableVars
    <3> QED
      BY <1>2, <2>0, <3>1
  <2> QED
    BY <1>7, <2>1, <2>2, <2>3 DEF Refresh
<1>8. CASE Interrupt \/ ShutdownReturns \/ Ended \/ UNCHANGED vars
  BY <1>2, <1>8 DEF Interrupt, ShutdownReturns, Ended, vars, cacheVars, auctionVars
<1> QED
  BY <1>5, <1>6, <1>7, <1>8 DEF Next, CacheInternal, CloseServices

LEMMA LedgerStart == Inv /\ Init => Ledger!LedgerInit
<1> SUFFICES ASSUME Inv, Init PROVE Ledger!LedgerInit
  OBVIOUS
<1>1. state \in Gens /\ loaded \in [Gens -> [Campaigns -> Int]]
  BY DEF Inv, AuctionInv, CacheInv, CacheTypeOK
<1>2. \A g \in Gens, c \in Campaigns : Sold(g, c) = {}
  BY AuctionAssumption DEF Init, Sold
<1>3. SoldTable = [g \in Gens |-> [c \in Campaigns |-> {}]]
  BY <1>2 DEF SoldTable
<1> QED
  BY <1>1, <1>3 DEF Ledger!LedgerInit, SoldTable

(***************************************************************************)
(* Concurrent auctions implement the ledger: seen from outside, budgets    *)
(* are spent by atomic sales, each checked against what is really left of  *)
(* one published table, although no auction ever locks anything.           *)
(***************************************************************************)
THEOREM ImplementsLedger == Safe => LedgerSpec
<1>1. Inv /\ Init => Ledger!LedgerInit
  BY LedgerStart
<1>2. Inv /\ Inv' /\ [Next]_vars => [Ledger!LedgerNext]_(Ledger!ledgerVars)
  BY LedgerStep
<1> QED
  BY <1>1, <1>2, Invariant, PTL DEF Safe, LedgerSpec, Ledger!LedgerSpec

-----------------------------------------------------------------------------
(***************************************************************************)
(* The contract of the cache's users.                                      *)
(***************************************************************************)
LEMMA ContractStep ==
    ASSUME Inv, [Next]_vars
    PROVE  [CacheAlone!CacheNext]_(CacheAlone!cacheVars)
<1> DEFINE Goal == [CacheAlone!CacheNext]_(CacheAlone!cacheVars)
<1>1. ASSUME UNCHANGED <<state, states, scanned, loaded, taskVars, tick, ticks, call,
                         stopper>>
      PROVE  Goal
  BY <1>1 DEF CacheAlone!cacheVars, taskVars
<1>2. ASSUME NEW a \in Auctions, Begin(a) \/ AuctionStep(a) \/ UpdateRequested(a)
      PROVE  Goal
  <2>1. CASE Begin(a) \/ TakeSnapshot(a) \/ ReserveNext(a) \/ PickWinner(a)
             \/ FreeNext(a) \/ Bid(a)
    BY <1>1, <2>1 DEF Begin, TakeSnapshot, ReserveNext, PickWinner, FreeNext, Bid,
                      cacheVars, taskVars
  <2>2. ASSUME NEW r \in Results, EndEarly(a, r) PROVE Goal
    BY <1>1, <2>2 DEF EndEarly, cacheVars, taskVars
  <2>3. ASSUME NEW s \in Targetings, FindCampaigns(a, s) PROVE Goal
    BY <1>1, <2>3 DEF FindCampaigns, cacheVars, taskVars
  <2>4. CASE RequestUpdate(a)
    <3>1. stopper = "running"
      BY <2>4 DEF RequestUpdate, Inv, ServerOrder, Active
    <3>2. CacheAlone!UserCalls(a)
      BY <2>4, <3>1
         DEF RequestUpdate, AsyncUpdate, CacheAlone!UserCalls, CacheAlone!AsyncUpdate,
             Open, CacheAlone!Open, tableVars, taskVars, CacheAlone!tableVars,
             CacheAlone!taskVars
    <3> QED
      BY <3>2 DEF CacheAlone!CacheNext, CacheAlone!CacheStep, Auctions
  <2>5. CASE UpdateRequested(a)
    <3>1. CacheAlone!ReceiveRequest(a)
      BY <2>5 DEF UpdateRequested, ReceiveRequest, CacheAlone!ReceiveRequest, tableVars,
                  CacheAlone!tableVars
    <3> QED
      BY <3>1 DEF CacheAlone!CacheNext, CacheAlone!CacheStep, Auctions
  <2> QED
    BY <1>2, <2>1, <2>2, <2>3, <2>4, <2>5 DEF AuctionStep
<1>3. CASE Tick
  <2>1. CacheAlone!Tick
    BY <1>3 DEF Tick, CacheAlone!Tick, tableVars, taskVars, CacheAlone!tableVars,
                CacheAlone!taskVars
  <2> QED
    BY <2>1 DEF CacheAlone!CacheNext, CacheAlone!CacheStep
<1>4. CASE Updater
  <2>1. CacheAlone!Updater
    BY <1>4 DEF Updater, ReceiveTick, UpdateDropped, UpdateStarted, tableVars,
                CacheAlone!Updater, CacheAlone!ReceiveTick, CacheAlone!UpdateDropped,
                CacheAlone!UpdateStarted, CacheAlone!tableVars
  <2> QED
    BY <2>1 DEF CacheAlone!CacheNext, CacheAlone!CacheStep
<1>5. ASSUME NEW g \in Gens, Refresh(g)
      PROVE  Goal
  <2>1. CacheAlone!Refresh(g)
    BY <1>5 DEF Refresh, ConsumeRecord, ScanSucceeds, ScanFails, SwapState,
                ClearInProgress, TaskDone, tableVars, taskVars, CacheAlone!Refresh,
                CacheAlone!ConsumeRecord, CacheAlone!ScanSucceeds,
                CacheAlone!ScanFails, CacheAlone!SwapState,
                CacheAlone!ClearInProgress, CacheAlone!TaskDone,
                CacheAlone!tableVars, CacheAlone!taskVars
  <2> QED
    BY <2>1 DEF CacheAlone!CacheNext, CacheAlone!CacheStep, CacheAlone!Gens, Gens
<1>6. CASE Stopper
  <2>1. CacheAlone!Stopper
    BY <1>6 DEF Stopper, ReceiveStop, WaitTasks, CloseChannel, tableVars, taskVars,
                CacheAlone!Stopper, CacheAlone!ReceiveStop,
                CacheAlone!WaitTasks, CacheAlone!CloseChannel,
                CacheAlone!tableVars, CacheAlone!taskVars
  <2> QED
    BY <2>1 DEF CacheAlone!CacheNext, CacheAlone!CacheStep
<1>7. CASE CloseServices
  <2>1. \A p \in Callers : call[p] # "blocked"
    BY <1>7 DEF CloseServices, Inv, ServerOrder, CallsMatch, Active, Auctions
  <2>2. CacheAlone!UserStops
    BY <1>7, <2>1 DEF CloseServices, StopTicker, tableVars, taskVars,
                      CacheAlone!UserStops, CacheAlone!StopTicker,
                      CacheAlone!tableVars, CacheAlone!taskVars
  <2> QED
    BY <2>2 DEF CacheAlone!CacheNext, CacheAlone!CacheStep
<1>8. CASE Interrupt \/ ShutdownReturns \/ Ended \/ UNCHANGED vars
  BY <1>1, <1>8 DEF Interrupt, ShutdownReturns, Ended, vars, cacheVars, taskVars
<1> QED
  BY <1>2, <1>3, <1>4, <1>5, <1>6, <1>7, <1>8 DEF Next, CacheInternal

LEMMA ContractStart == Init => CacheAlone!CacheInit
<1> SUFFICES ASSUME Init PROVE CacheAlone!CacheInit
  OBVIOUS
<1> QED
  BY DEF Init, CacheInit, CacheAlone!CacheInit, CacheAlone!Gens, Gens,
         CacheAlone!NoBudget, NoBudget

(***************************************************************************)
(* The auctions, started and stopped by the bid server, keep to the        *)
(* contract of the cache: no request calls AsyncUpdate() after stop() was  *)
(* called, and stop() finds no call outstanding.                           *)
(***************************************************************************)
THEOREM KeepsCacheContract == Safe => CacheContract
<1>1. Init => CacheAlone!CacheInit
  BY ContractStart
<1>2. Inv /\ [Next]_vars => [CacheAlone!CacheNext]_(CacheAlone!cacheVars)
  BY ContractStep
<1> QED
  BY <1>1, <1>2, Invariant, PTL DEF Safe, CacheContract
=============================================================================
