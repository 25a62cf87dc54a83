---------------------------- MODULE Tables_proofs ----------------------------
(***************************************************************************)
(* Proofs about the way of rows from their tables to an auction.           *)
(*                                                                         *)
(* TableScan: for any number of segments, pages and items and wherever the *)
(* workers fail, the parallel scan that fills a cache is a FetchAll, and   *)
(* only one worker is inside the consumer at a time.                       *)
(*                                                                         *)
(* Targeting: getAudienceCampaigns() returns exactly the campaigns that    *)
(* target the device, for any tables, audiences and number of handlers and *)
(* however the pools hand out what earlier auctions left.                  *)
(*                                                                         *)
(* DeviceQuery: for any number of lookups and pooled query objects, for    *)
(* every table and however credentials and days change in between, a       *)
(* request is signed for its own device with a key that belongs to its     *)
(* date and its credentials, and what is decoded is the audiences of the   *)
(* device.                                                                 *)
(***************************************************************************)
EXTENDS TableScan, Targeting, DeviceQuery, FiniteSetTheorems, SequenceTheorems, TLAPS

-----------------------------------------------------------------------------
(***************************************************************************)
(* The inductive invariant.                                                *)
(***************************************************************************)
Alive == {w \in ScanWorkers : at[w] # "done"}

\* The mutex is held exactly by the worker that is inside the consumer.
MutexHeld == \A w \in ScanWorkers : at[w] = "consume" <=> mutex = w

\* The items before a worker's position were consumed once, the others never.
Before(w, p, i) == p < page[w] \/ (p = page[w] /\ i <= pos[w])
Counted ==
    \A w \in ScanWorkers : \A p \in DOMAIN Pages[w] : \A i \in 1..Pages[w][p] :
        consumed[<<w, p, i>>] = IF Before(w, p, i) THEN 1 ELSE 0

\* A worker that is through has read its segment to the end, or an error is
\* recorded; one that is storing its error has an error.
Complete(w) == LastPage(w) /\ pos[w] = PageSize(w)
ErrorsKept ==
    \A w \in ScanWorkers :
        /\ at[w] = "store" => /\ workerErr[w] # NoError
                              /\ "type" \in unstored[w] \/ lastError.type # NoError
        /\ at[w] \in {"leave", "done"} => Complete(w) \/ lastError.type # NoError

ScanInv == ScanTypeOK /\ MutexHeld /\ Counted /\ ErrorsKept /\ (returned => wg = 0)

-----------------------------------------------------------------------------
(***************************************************************************)
(* Lemmas.                                                                 *)
(***************************************************************************)
\* An item is a position in a page of a segment.
LEMMA ItemOf ==
    ASSUME NEW w \in ScanWorkers, NEW p \in DOMAIN Pages[w], NEW i \in 1..Pages[w][p]
    PROVE  <<w, p, i>> \in Items
BY DEF Items, PageItems

\* Every item is one.
LEMMA ItemShape ==
    ASSUME NEW x \in Items
    PROVE  \E w \in ScanWorkers : \E p \in DOMAIN Pages[w] : \E i \in 1..Pages[w][p] :
               x = <<w, p, i>>
BY DEF Items, PageItems

\* Pages of a segment are numbered from 1 and hold numbers of items.
LEMMA PageOf ==
    ASSUME NEW w \in ScanWorkers
    PROVE  /\ Len(Pages[w]) \in Nat \ {0}
           /\ DOMAIN Pages[w] = 1..Len(Pages[w])
           /\ \A p \in DOMAIN Pages[w] : Pages[w][p] \in Nat
<1>1. Pages[w] \in Seq(Nat) /\ Pages[w] # <<>>
  BY ScanAssumption
<1> QED
  BY <1>1

\* When Done() was called by all, the counter is zero, and only then.
LEMMA CountAlive ==
    ASSUME ScanTypeOK
    PROVE  /\ IsFiniteSet(Alive) /\ wg = Cardinality(Alive)
           /\ wg = 0 <=> \A w \in ScanWorkers : at[w] = "done"
<1>1. IsFiniteSet(Alive)
  BY ScanAssumption, FS_Subset DEF Alive
<1>2. wg = Cardinality(Alive)
  BY DEF ScanTypeOK, Alive
<1>3. wg = 0 <=> Alive = {}
  BY <1>1, <1>2, FS_EmptySet
<1> QED
  BY <1>1, <1>2, <1>3 DEF Alive

\* Control that moves but does not end leaves the counter as it is.
LEMMA SameAlive ==
    ASSUME ScanTypeOK, NEW w \in ScanWorkers, NEW s \in {"scan", "lock", "consume", "store", "leave"},
           at[w] # "done", at' = [at EXCEPT ![w] = s], wg' = wg
    PROVE  /\ at' \in [ScanWorkers -> {"scan", "lock", "consume", "store", "leave", "done"}]
           /\ wg' = Cardinality({v \in ScanWorkers : at'[v] # "done"})
<1>1. at' \in [ScanWorkers -> {"scan", "lock", "consume", "store", "leave", "done"}]
  BY DEF ScanTypeOK
<1>2. {v \in ScanWorkers : at'[v] # "done"} = {v \in ScanWorkers : at[v] # "done"}
  BY DEF ScanTypeOK
<1> QED
  BY <1>1, <1>2 DEF ScanTypeOK

\* A worker that is not done keeps scan() from returning.
LEMMA NotReturned ==
    ASSUME ScanInv, NEW w \in ScanWorkers, at[w] # "done"
    PROVE  ~returned
BY CountAlive DEF ScanInv

-----------------------------------------------------------------------------
(***************************************************************************)
(* ScanInv is inductive: one step per action.                                  *)
(***************************************************************************)
LEMMA ScanInitInv == ScanInit => ScanInv
<1> SUFFICES ASSUME ScanInit PROVE ScanInv
  OBVIOUS
<1> USE DEF ScanInit
<1>1. ScanTypeOK
  <2>1. \A w \in ScanWorkers : page[w] \in DOMAIN Pages[w] /\ pos[w] <= PageSize(w)
    BY PageOf DEF PageSize
  <2>2. {w \in ScanWorkers : at[w] # "done"} = ScanWorkers
    OBVIOUS
  <2> QED
    BY <2>1, <2>2 DEF ScanTypeOK, NoError, Errors
<1>2. MutexHeld
  BY ScanAssumption DEF MutexHeld
<1>3. Counted
  <2> SUFFICES ASSUME NEW w \in ScanWorkers, NEW p \in DOMAIN Pages[w], NEW i \in 1..Pages[w][p]
               PROVE  consumed[<<w, p, i>>] = 0 /\ ~Before(w, p, i)
    BY DEF Counted
  <2>1. consumed[<<w, p, i>>] = 0
    BY ItemOf
  <2>2. p \in Nat /\ p >= 1 /\ i >= 1 /\ i \in Nat
    BY PageOf
  <2> QED
    BY <2>1, <2>2 DEF Before
<1>4. ErrorsKept
  BY DEF ErrorsKept
<1> QED
  BY <1>1, <1>2, <1>3, <1>4 DEF ScanInv

LEMMA ScanStepInv == ScanInv /\ [ScanNext]_scanVars => ScanInv'
<1> SUFFICES ASSUME ScanInv, [ScanNext]_scanVars PROVE ScanInv'
  OBVIOUS
<1> DEFINE States == {"scan", "lock", "consume", "store", "leave", "done"}
<1>1. CASE Return
  <2>1. ScanTypeOK'
    BY <1>1 DEF Return, ScanInv, ScanTypeOK, PageSize
  <2>2. MutexHeld' /\ Counted' /\ ErrorsKept'
    BY <1>1 DEF Return, ScanInv, MutexHeld, Counted, Before, ErrorsKept, Complete, LastPage, PageSize
  <2> QED
    BY <1>1, <2>1, <2>2 DEF Return, ScanInv
<1>2. ASSUME NEW w \in ScanWorkers, Scan(w) PROVE ScanInv'
  <2>0. at' = [at EXCEPT ![w] = "lock"] /\ at[w] = "scan"
    BY <1>2 DEF Scan
  <2>1. ScanTypeOK'
    BY <1>2, <2>0, SameAlive DEF Scan, ScanInv, ScanTypeOK, PageSize
  <2>2. MutexHeld'
    BY <1>2 DEF Scan, ScanInv, ScanTypeOK, MutexHeld
  <2>3. Counted'
    BY <1>2 DEF Scan, ScanInv, Counted, Before
  <2>4. ErrorsKept'
    BY <1>2 DEF Scan, ScanInv, ScanTypeOK, ErrorsKept, Complete, LastPage, PageSize
  <2> QED
    BY <1>2, <2>1, <2>2, <2>3, <2>4 DEF Scan, ScanInv
<1>3. ASSUME NEW w \in ScanWorkers, SegmentFails(w) PROVE ScanInv'
  <2>0. PICK e \in {"timeout", "request"} : WorkerFails(w, e)
    BY <1>3 DEF SegmentFails
  <2>1. ScanTypeOK'
    <3>1. /\ workerErr' \in [ScanWorkers -> Errors \cup {NoError}]
          /\ unstored' \in [ScanWorkers -> SUBSET {"type", "data"}]
      BY <2>0 DEF WorkerFails, ScanInv, ScanTypeOK, Errors
    <3>2. wg' = Cardinality({v \in ScanWorkers : at'[v] # "done"}) /\ at' \in [ScanWorkers -> States]
      BY <1>3, <2>0, SameAlive DEF SegmentFails, WorkerFails, ScanInv
    <3> QED
      BY <1>3, <3>1, <3>2 DEF SegmentFails, ScanInv, ScanTypeOK, PageSize
  <2>2. MutexHeld'
    BY <1>3, <2>0 DEF SegmentFails, WorkerFails, ScanInv, ScanTypeOK, MutexHeld
  <2>3. Counted'
    BY <1>3 DEF SegmentFails, ScanInv, Counted, Before
  <2>4. ErrorsKept'
    BY <1>3, <2>0 DEF SegmentFails, WorkerFails, ScanInv, ScanTypeOK, ErrorsKept, Complete, LastPage, PageSize, NoError
  <2> QED
    BY <1>3, <2>1, <2>2, <2>3, <2>4 DEF SegmentFails, ScanInv
<1>4. ASSUME NEW w \in ScanWorkers, Lock(w) PROVE ScanInv'
  <2>1. ScanTypeOK'
    <3>1. wg' = Cardinality({v \in ScanWorkers : at'[v] # "done"}) /\ at' \in [ScanWorkers -> States]
      BY <1>4, SameAlive DEF Lock, ScanInv
    <3> QED
      BY <1>4, <3>1 DEF Lock, ScanInv, ScanTypeOK, PageSize
  <2>2. MutexHeld'
    BY <1>4, ScanAssumption DEF Lock, ScanInv, ScanTypeOK, MutexHeld
  <2>3. Counted'
    BY <1>4 DEF Lock, ScanInv, Counted, Before
  <2>4. ErrorsKept'
    BY <1>4 DEF Lock, ScanInv, ScanTypeOK, ErrorsKept, Complete, LastPage, PageSize
  <2> QED
    BY <1>4, <2>1, <2>2, <2>3, <2>4 DEF Lock, ScanInv
<1>5. ASSUME NEW w \in ScanWorkers, Consume(w) PROVE ScanInv'
  <2> DEFINE it == <<w, page[w], pos[w] + 1>>
  <2>0. /\ page[w] \in DOMAIN Pages[w] /\ PageSize(w) \in Nat /\ pos[w] \in Nat
        /\ pos[w] + 1 \in 1..Pages[w][page[w]] /\ it \in Items
    <3>1. page[w] \in DOMAIN Pages[w] /\ pos[w] \in Nat
      BY DEF ScanInv, ScanTypeOK
    <3>2. PageSize(w) \in Nat
      BY <3>1, PageOf DEF PageSize
    <3>3. pos[w] + 1 \in 1..Pages[w][page[w]]
      BY <1>5, <3>1, <3>2 DEF Consume, PageSize
    <3> QED
      BY <3>1, <3>2, <3>3, ItemOf
  <2>1. ScanTypeOK'
    <3>1. pos' \in [ScanWorkers -> Nat] /\ \A v \in ScanWorkers : pos'[v] <= PageSize(v)
      BY <1>5, <2>0 DEF Consume, ScanInv, ScanTypeOK
    <3>2. consumed' \in [Items -> Nat]
      BY <1>5, <2>0 DEF Consume, ScanInv, ScanTypeOK
    <3> QED
      BY <1>5, <3>1, <3>2 DEF Consume, ScanInv, ScanTypeOK, PageSize
  <2>2. MutexHeld'
    BY <1>5 DEF Consume, ScanInv, MutexHeld
  <2>3. Counted'
    <3> SUFFICES ASSUME NEW v \in ScanWorkers, NEW p \in DOMAIN Pages[v], NEW i \in 1..Pages[v][p]
                 PROVE  consumed'[<<v, p, i>>] = IF Before(v, p, i)' THEN 1 ELSE 0
      BY DEF Counted
    <3>1. /\ <<v, p, i>> \in Items /\ p \in Nat /\ i \in Nat
          /\ consumed[<<v, p, i>>] = IF Before(v, p, i) THEN 1 ELSE 0
      BY ItemOf, PageOf DEF ScanInv, Counted
    <3>2. CASE <<v, p, i>> = it
      <4>1. ~Before(v, p, i) /\ Before(v, p, i)'
        BY <1>5, <2>0, <3>1, <3>2 DEF Consume, Before, ScanInv, ScanTypeOK
      <4> QED
        BY <1>5, <3>1, <3>2, <4>1 DEF Consume, ScanInv, ScanTypeOK
    <3>3. CASE <<v, p, i>> # it
      <4>1. Before(v, p, i)' <=> Before(v, p, i)
        <5>1. page' = page /\ pos' = [pos EXCEPT ![w] = @ + 1]
          BY <1>5 DEF Consume
        <5>2. CASE v # w
          BY <5>1, <5>2 DEF Before, ScanInv, ScanTypeOK
        <5>3. CASE v = w /\ p # page[w]
          BY <5>1, <5>3 DEF Before
        <5>4. CASE v = w /\ p = page[w] /\ i # pos[w] + 1
          <6>1. pos'[w] = pos[w] + 1
            BY <5>1 DEF ScanInv, ScanTypeOK
          <6>2. i <= pos[w] + 1 <=> i <= pos[w]
            BY <2>0, <3>1, <5>4
          <6> QED
            BY <5>1, <5>4, <6>1, <6>2 DEF Before
        <5> QED
          BY <3>3, <5>2, <5>3, <5>4
      <4> QED
        BY <1>5, <3>1, <3>3, <4>1 DEF Consume, ScanInv, ScanTypeOK
    <3> QED
      BY <3>2, <3>3
  <2>4. ErrorsKept'
    BY <1>5 DEF Consume, ScanInv, ScanTypeOK, ErrorsKept, Complete, LastPage, PageSize
  <2> QED
    BY <1>5, <2>1, <2>2, <2>3, <2>4 DEF Consume, ScanInv
<1>6. ASSUME NEW w \in ScanWorkers, ConsumeFails(w) PROVE ScanInv'
  <2>0. WorkerFails(w, "format")
    BY <1>6 DEF ConsumeFails
  <2>1. ScanTypeOK'
    <3>1. /\ workerErr' \in [ScanWorkers -> Errors \cup {NoError}]
          /\ unstored' \in [ScanWorkers -> SUBSET {"type", "data"}]
      BY <2>0 DEF WorkerFails, ScanInv, ScanTypeOK, Errors
    <3>2. wg' = Cardinality({v \in ScanWorkers : at'[v] # "done"}) /\ at' \in [ScanWorkers -> States]
      BY <1>6, <2>0, SameAlive DEF ConsumeFails, WorkerFails, ScanInv
    <3> QED
      BY <1>6, <3>1, <3>2 DEF ConsumeFails, ScanInv, ScanTypeOK, PageSize
  <2>2. MutexHeld'
    BY <1>6, <2>0, ScanAssumption DEF ConsumeFails, WorkerFails, ScanInv, ScanTypeOK, MutexHeld
  <2>3. Counted'
    BY <1>6 DEF ConsumeFails, ScanInv, Counted, Before
  <2>4. ErrorsKept'
    BY <1>6, <2>0 DEF ConsumeFails, WorkerFails, ScanInv, ScanTypeOK, ErrorsKept, Complete, LastPage, PageSize, NoError
  <2> QED
    BY <1>6, <2>1, <2>2, <2>3, <2>4 DEF ConsumeFails, ScanInv
<1>7. ASSUME NEW w \in ScanWorkers, PageDone(w) PROVE ScanInv'
  <2>0. /\ page[w] \in DOMAIN Pages[w] /\ page[w] \in Nat /\ pos[w] = Pages[w][page[w]]
        /\ \A v \in ScanWorkers \ {w} : page'[v] = page[v] /\ pos'[v] = pos[v]
    BY <1>7 DEF PageDone, ScanInv, ScanTypeOK, PageSize
  <2>1. CASE LastPage(w)
    <3>1. at' = [at EXCEPT ![w] = "leave"] /\ page' = page /\ pos' = pos
      BY <1>7, <2>1 DEF PageDone
    <3>2. ScanTypeOK'
      <4>1. wg' = Cardinality({v \in ScanWorkers : at'[v] # "done"}) /\ at' \in [ScanWorkers -> States]
        BY <1>7, <3>1, SameAlive DEF PageDone, ScanInv
      <4> QED
        BY <1>7, <3>1, <4>1 DEF PageDone, ScanInv, ScanTypeOK, PageSize
    <3>3. MutexHeld'
      BY <1>7, <3>1, ScanAssumption DEF PageDone, ScanInv, ScanTypeOK, MutexHeld
    <3>4. Counted'
      BY <1>7, <3>1 DEF PageDone, ScanInv, Counted, Before
    <3>5. ErrorsKept'
      BY <1>7, <2>1, <3>1 DEF PageDone, ScanInv, ScanTypeOK, ErrorsKept, Complete, LastPage, PageSize
    <3> QED
      BY <1>7, <3>2, <3>3, <3>4, <3>5 DEF PageDone, ScanInv
  <2>2. CASE ~LastPage(w)
    <3>1. /\ at' = [at EXCEPT ![w] = "scan"]
          /\ page' = [page EXCEPT ![w] = @ + 1] /\ pos' = [pos EXCEPT ![w] = 0]
      BY <1>7, <2>2 DEF PageDone
    <3>2. page[w] + 1 \in DOMAIN Pages[w]
      BY <2>0, <2>2, PageOf DEF LastPage
    <3>3. ScanTypeOK'
      <4>1. wg' = Cardinality({v \in ScanWorkers : at'[v] # "done"}) /\ at' \in [ScanWorkers -> States]
        BY <1>7, <3>1, SameAlive DEF PageDone, ScanInv
      <4>2. page' \in [ScanWorkers -> Nat] /\ \A v \in ScanWorkers : page'[v] \in DOMAIN Pages[v]
        BY <2>0, <3>1, <3>2 DEF ScanInv, ScanTypeOK
      <4>3. 0 <= Pages[w][page[w] + 1]
        BY <3>2, PageOf
      <4>4. pos' \in [ScanWorkers -> Nat] /\ \A v \in ScanWorkers : pos'[v] <= PageSize(v)'
        BY <2>0, <3>1, <4>3 DEF ScanInv, ScanTypeOK, PageSize
      <4> QED
        BY <1>7, <4>1, <4>2, <4>4 DEF PageDone, ScanInv, ScanTypeOK
    <3>4. MutexHeld'
      BY <1>7, <3>1, ScanAssumption DEF PageDone, ScanInv, ScanTypeOK, MutexHeld
    <3>5. Counted'
      <4> SUFFICES ASSUME NEW v \in ScanWorkers, NEW p \in DOMAIN Pages[v], NEW i \in 1..Pages[v][p]
                   PROVE  Before(v, p, i)' <=> Before(v, p, i)
        BY <1>7 DEF PageDone, ScanInv, Counted
      <4>1. p \in Nat /\ i \in Nat /\ i >= 1 /\ Pages[v][p] \in Nat
        BY PageOf
      <4>2. CASE v = w
        BY <2>0, <3>1, <4>1, <4>2, SMTT(30) DEF Before, ScanInv, ScanTypeOK
      <4>3. CASE v # w
        BY <2>0, <4>3 DEF Before
      <4> QED
        BY <4>2, <4>3
    <3>6. ErrorsKept'
      BY <1>7, <2>0, <3>1 DEF PageDone, ScanInv, ScanTypeOK, ErrorsKept, Complete, LastPage, PageSize
    <3> QED
      BY <1>7, <3>3, <3>4, <3>5, <3>6 DEF PageDone, ScanInv
  <2> QED
    BY <2>1, <2>2
<1>8. ASSUME NEW w \in ScanWorkers, StoreWord(w) PROVE ScanInv'
  <2>0. PICK word \in unstored[w] :
          /\ lastError' = [lastError EXCEPT ![word] = workerErr[w]]
          /\ unstored' = [unstored EXCEPT ![w] = @ \ {word}]
          /\ at' = [at EXCEPT ![w] = IF unstored'[w] = {} THEN "leave" ELSE @]
    BY <1>8 DEF StoreWord
  <2>1. /\ word \in {"type", "data"} /\ at[w] = "store" /\ workerErr[w] \in Errors /\ workerErr[w] # NoError
        /\ lastError' \in [type : Errors \cup {NoError}, data : Errors \cup {NoError}]
        /\ lastError'.type = IF word = "type" THEN workerErr[w] ELSE lastError.type
    BY <1>8, <2>0 DEF StoreWord, ScanInv, ScanTypeOK, ErrorsKept
  <2>2. \E s \in {"store", "leave"} : at' = [at EXCEPT ![w] = s]
    BY <2>0, <2>1 DEF ScanInv, ScanTypeOK
  <2>3. ScanTypeOK'
    <3>1. wg' = Cardinality({v \in ScanWorkers : at'[v] # "done"}) /\ at' \in [ScanWorkers -> States]
      BY <1>8, <2>1, <2>2, SameAlive DEF StoreWord, ScanInv
    <3> QED
      BY <1>8, <2>0, <2>1, <3>1 DEF StoreWord, ScanInv, ScanTypeOK, PageSize
  <2>4. MutexHeld'
    BY <1>8, <2>1, <2>2 DEF StoreWord, ScanInv, ScanTypeOK, MutexHeld
  <2>5. Counted'
    <3>1. page' = page /\ pos' = pos /\ consumed' = consumed
      BY <1>8 DEF StoreWord
    <3> QED
      BY <3>1 DEF ScanInv, Counted, Before
  <2>6. ErrorsKept'
    <3> SUFFICES ASSUME NEW v \in ScanWorkers
                 PROVE  /\ at'[v] = "store" => /\ workerErr'[v] # NoError
                                               /\ "type" \in unstored'[v] \/ lastError'.type # NoError
                        /\ at'[v] \in {"leave", "done"} => Complete(v)' \/ lastError'.type # NoError
      BY DEF ErrorsKept
    <3>1. workerErr' = workerErr /\ (Complete(v)' <=> Complete(v))
      BY <1>8 DEF StoreWord, Complete, LastPage, PageSize
    <3>2. lastError.type # NoError => lastError'.type # NoError
      BY <2>1
    <3>3. CASE v # w
      <4>1. at'[v] = at[v] /\ unstored'[v] = unstored[v]
        BY <2>0, <3>3 DEF ScanInv, ScanTypeOK
      <4> QED
        BY <3>1, <3>2, <4>1 DEF ScanInv, ErrorsKept
    <3>4. CASE v = w
      <4>1. "type" \in unstored[w] \/ lastError.type # NoError
        BY <2>1 DEF ScanInv, ErrorsKept
      <4>2. unstored'[w] = unstored[w] \ {word}
        BY <2>0 DEF ScanInv, ScanTypeOK
      <4>3. "type" \in unstored'[w] \/ lastError'.type # NoError
        BY <2>1, <3>2, <4>1, <4>2
      <4>4. at'[w] = IF unstored'[w] = {} THEN "leave" ELSE "store"
        BY <2>0, <2>1 DEF ScanInv, ScanTypeOK
      <4> QED
        BY <2>1, <3>1, <3>4, <4>3, <4>4
    <3> QED
      BY <3>3, <3>4
  <2> QED
    BY <1>8, <2>3, <2>4, <2>5, <2>6 DEF StoreWord, ScanInv
<1>9. ASSUME NEW w \in ScanWorkers, Leave(w) PROVE ScanInv'
  <2>1. ScanTypeOK'
    <3>1. at' \in [ScanWorkers -> States]
      BY <1>9 DEF Leave, ScanInv, ScanTypeOK
    <3>2. {v \in ScanWorkers : at'[v] # "done"} = Alive \ {w} /\ w \in Alive
      BY <1>9 DEF Leave, ScanInv, ScanTypeOK, Alive
    <3>3. wg' = Cardinality({v \in ScanWorkers : at'[v] # "done"})
      BY <1>9, <3>2, CountAlive, FS_RemoveElement DEF Leave, ScanInv
    <3> QED
      BY <1>9, <3>1, <3>3 DEF Leave, ScanInv, ScanTypeOK, PageSize
  <2>2. MutexHeld'
    BY <1>9 DEF Leave, ScanInv, ScanTypeOK, MutexHeld
  <2>3. Counted'
    BY <1>9 DEF Leave, ScanInv, Counted, Before
  <2>4. ErrorsKept'
    BY <1>9 DEF Leave, ScanInv, ScanTypeOK, ErrorsKept, Complete, LastPage, PageSize
  <2>5. ~returned'
    BY <1>9, NotReturned DEF Leave
  <2> QED
    BY <2>1, <2>2, <2>3, <2>4, <2>5 DEF ScanInv
<1>10. CASE UNCHANGED scanVars
  BY <1>10 DEF scanVars, ScanInv, ScanTypeOK, PageSize, MutexHeld, Counted, Before, ErrorsKept, Complete, LastPage
<1> QED
  BY <1>1, <1>2, <1>3, <1>4, <1>5, <1>6, <1>7, <1>8, <1>9, <1>10 DEF ScanNext, WorkerStep

\* The invariant holds throughout every scan (scan.go:22-56).
THEOREM ScanInvariance == ScanSafe => []ScanInv
<1> QED
  BY ScanInitInv, ScanStepInv, PTL DEF ScanSafe

-----------------------------------------------------------------------------
\* Type correctness: among other things the WaitGroup counts exactly the
\* workers that have not called Done() (scan.go:40-53).
THEOREM ScanTypeCorrect == ScanSafe => []ScanTypeOK
<1>1. ScanInv => ScanTypeOK
  BY DEF ScanInv
<1> QED
  BY <1>1, ScanInvariance, PTL

\* Two workers are never inside the consumer at once (scan_dynamo.go:76-92).
THEOREM AlwaysOneConsumer == ScanSafe => []OneConsumer
<1>1. ScanInv => OneConsumer
  BY DEF ScanInv, MutexHeld, OneConsumer
<1> QED
  BY <1>1, ScanInvariance, PTL

-----------------------------------------------------------------------------
(***************************************************************************)
(* The refinement: only Consume() and Return are visible in FetchAll.      *)
(***************************************************************************)
LEMMA InitFetch == ScanInit => Fetch!FetchInit
BY DEF ScanInit, Fetch!FetchInit, Outcome

LEMMA StepFetch == ScanInv /\ [ScanNext]_scanVars => [Fetch!FetchNext]_(Fetch!fetchVars)
<1> SUFFICES ASSUME ScanInv, [ScanNext]_scanVars
             PROVE  Fetch!FetchNext \/ UNCHANGED <<consumed, Outcome>>
  BY DEF Fetch!fetchVars
<1>1. CASE Return
  <2>1. ~returned /\ returned' /\ lastError' = lastError /\ consumed' = consumed /\ wg = 0
    BY <1>1 DEF Return
  <2>2. CASE lastError.type = NoError
    <3>1. \A x \in Items : consumed[x] = 1
      <4> SUFFICES ASSUME NEW x \in Items PROVE consumed[x] = 1
        OBVIOUS
      <4>1. PICK w \in ScanWorkers : \E p \in DOMAIN Pages[w] : \E i \in 1..Pages[w][p] : x = <<w, p, i>>
        BY ItemShape
      <4>2. PICK p \in DOMAIN Pages[w] : \E i \in 1..Pages[w][p] : x = <<w, p, i>>
        BY <4>1
      <4>3. PICK i \in 1..Pages[w][p] : x = <<w, p, i>>
        BY <4>2
      <4>4. Complete(w)
        BY <2>1, <2>2, CountAlive DEF ScanInv, ErrorsKept
      <4>5. Before(w, p, i)
        BY <4>4, PageOf DEF Complete, LastPage, PageSize, Before
      <4> QED
        BY <4>3, <4>5 DEF ScanInv, Counted
    <3>2. Outcome = "running" /\ Outcome' = "ok"
      BY <2>1, <2>2 DEF Outcome
    <3> QED
      BY <2>1, <3>1, <3>2 DEF Fetch!FetchNext, Fetch!Succeed
  <2>3. CASE lastError.type # NoError
    <3>1. Outcome = "running" /\ Outcome' = "failed"
      BY <2>1, <2>3 DEF Outcome
    <3> QED
      BY <2>1, <3>1 DEF Fetch!FetchNext, Fetch!Fail
  <2> QED
    BY <2>2, <2>3
<1>2. ASSUME NEW w \in ScanWorkers, WorkerStep(w)
      PROVE  Fetch!FetchNext \/ UNCHANGED <<consumed, Outcome>>
  <2>1. at[w] # "done"
    BY <1>2 DEF WorkerStep, Scan, SegmentFails, Lock, Consume, ConsumeFails, PageDone, StoreWord, Leave
  <2>2. returned' = returned
    BY <1>2 DEF WorkerStep, Scan, SegmentFails, Lock, Consume, ConsumeFails, PageDone, StoreWord, Leave
  <2>3. Outcome = "running" /\ Outcome' = "running"
    BY <2>1, <2>2, NotReturned DEF Outcome
  <2>4. CASE Consume(w)
    <3> DEFINE it == <<w, page[w], pos[w] + 1>>
    <3>1. page[w] \in DOMAIN Pages[w] /\ pos[w] \in Nat
      BY DEF ScanInv, ScanTypeOK
    <3>2. pos[w] + 1 \in 1..Pages[w][page[w]]
      BY <2>4, <3>1, PageOf DEF Consume, PageSize
    <3>3. it \in Items
      BY <3>1, <3>2, ItemOf
    <3>4. ~Before(w, page[w], pos[w] + 1)
      BY <3>1, PageOf DEF Before
    <3>5. consumed[it] = 0 /\ consumed \in [Items -> Nat]
      BY <3>1, <3>2, <3>4 DEF ScanInv, Counted, ScanTypeOK
    <3>6. consumed' = [consumed EXCEPT ![it] = 1]
      BY <2>4, <3>5 DEF Consume
    <3> QED
      BY <2>3, <3>3, <3>5, <3>6 DEF Fetch!FetchNext, Fetch!Deliver
  <2>5. CASE ~Consume(w)
    <3>1. consumed' = consumed
      BY <1>2, <2>5 DEF WorkerStep, Scan, SegmentFails, Lock, ConsumeFails, PageDone, StoreWord, Leave
    <3> QED
      BY <2>3, <3>1
  <2> QED
    BY <2>4, <2>5
<1>3. CASE UNCHANGED scanVars
  BY <1>3 DEF scanVars, Outcome
<1> QED
  BY <1>1, <1>2, <1>3 DEF ScanNext

\* The parallel scan is a FetchAll: no item is delivered twice, none is
\* missing when no error is returned, and nothing comes after the return
\* (scan.go:22-56).
THEOREM ScanIsFetchAll == ScanSafe => ImplementsFetchAll
<1> QED
  BY ScanInvariance, InitFetch, StepFetch, PTL DEF ScanSafe, ImplementsFetchAll, Fetch!FetchSpec

-----------------------------------------------------------------------------

(***************************************************************************)
(* The inductive invariant.  The result is only exact because no entry of  *)
(* a lookup table ever exceeds the run number (StampsBelow), so that after *)
(* l.runID++ no entry is of the current run, and because nobody else holds *)
(* the table and the buffer (HeldOnce); then an entry is of the current    *)
(* run exactly when its campaign is in the list (Adding).                  *)
(***************************************************************************)
IDs == UNION {Elements(ids) : ids \in AudienceIDs}

LookupTables == [runID : Nat, lookup : Seq(Nat)]
AuctionBuffers == [audienceIDs : Seq(IDs), campaignIndices : Seq(Indices)]
Loops == [i : Nat, todo : SUBSET Nat]

Types ==
    /\ data \in Seq(Valid)
    /\ tablePool \subseteq Tables
    /\ bufferPool \subseteq Buffers
    /\ table \in [Tables -> LookupTables]
    /\ buffer \in [Buffers -> AuctionBuffers]
    /\ pc \in [Handlers -> {"idle", "device", "getLookup", "adding", "choosing"}]
    /\ mine \in [Handlers -> [table : Tables \cup {NoObject}, buffer : Buffers \cup {NoObject}]]
    /\ loop \in [Handlers -> Loops]
    /\ asked \in [Handlers -> Seq(IDs)]

\* What is in the campaign cache, and what leads to it.
IndexInv ==
    /\ DOMAIN idToIndex \subseteq Valid
    /\ idToIndex \in [DOMAIN idToIndex -> Indices]
    /\ \A c \in DOMAIN idToIndex : data[idToIndex[c]] = c
    /\ \A i \in Indices : data[i] \in DOMAIN idToIndex /\ idToIndex[data[i]] = i

\* An audience has the indices of its valid campaigns.
AudienceOf(a) ==
    LET found == {p \in DOMAIN Targets[a] : Targets[a][p] \in Valid}
    IN [p \in found |-> idToIndex[Targets[a][p]]]

PhaseInv ==
    /\ phase \in {"campaigns", "audiences", "serving", "failed"}
    /\ phase \in {"audiences", "serving"} => DOMAIN idToIndex = Valid
    /\ DOMAIN audienceData # {} => DOMAIN idToIndex = Valid
    /\ DOMAIN audienceData \subseteq Audiences
    /\ \A a \in DOMAIN audienceData : audienceData[a] = AudienceOf(a)
    /\ phase = "serving" => DOMAIN audienceData = Audiences
    /\ \A h \in Handlers : pc[h] # "idle" => phase = "serving"

HeldOnce ==
    /\ \A h \in Handlers :
          /\ pc[h] = "idle" <=> mine[h].buffer = NoObject
          /\ pc[h] = "adding" <=> mine[h].table # NoObject
          /\ mine[h].buffer \notin bufferPool
          /\ mine[h].table \notin tablePool
    /\ \A g, h \in Handlers : g # h =>
          /\ mine[g].buffer = mine[h].buffer => mine[h].buffer = NoObject
          /\ mine[g].table = mine[h].table => mine[h].table = NoObject

StampsBelow ==
    \A t \in Tables : \A i \in DOMAIN table[t].lookup : table[t].lookup[i] <= table[t].runID

NoDuplicates(s) == \A i, j \in DOMAIN s : s[i] = s[j] => i = j

\* The campaigns of the first i audiences, less the positions in `todo' of the
\* last of them.
Listed(ids, i, todo) ==
    {x \in Indices : \E k \in 1..i : \E p \in DOMAIN CampaignsOf(ids[k]) :
                        /\ x = CampaignsOf(ids[k])[p]
                        /\ k = i => p \notin todo}

\* In the loops of getAudienceCampaigns().
Adding(b, t, l, ids) ==
    /\ b.audienceIDs = ids
    /\ l.i <= Len(ids)
    /\ l.i = 0 => l.todo = {}
    /\ l.i # 0 => l.todo \subseteq DOMAIN CampaignsOf(ids[l.i])
    /\ NoDuplicates(b.campaignIndices)
    /\ Elements(b.campaignIndices) = Listed(ids, l.i, l.todo)
    /\ Len(data) <= Len(t.lookup)
    /\ \A x \in Indices : t.lookup[x] = t.runID <=> x \in Elements(b.campaignIndices)

\* After them.
Chosen(b, ids) ==
    /\ b.audienceIDs = ids
    /\ NoDuplicates(b.campaignIndices)
    /\ Elements(b.campaignIndices) = Listed(ids, Len(ids), {})

HandlerInv(h) ==
    LET b == buffer[mine[h].buffer]
        t == table[mine[h].table]
    IN
    /\ pc[h] = "device" => b.audienceIDs = <<>>
    /\ pc[h] = "getLookup" => b.audienceIDs = asked[h]
    /\ pc[h] = "adding" => Adding(b, t, loop[h], asked[h])
    /\ pc[h] = "choosing" => Chosen(b, asked[h])
    /\ pc[h] # "adding" => loop[h] = LoopStart

LookupInv ==
    /\ Types
    /\ IndexInv
    /\ PhaseInv
    /\ HeldOnce
    /\ StampsBelow
    /\ \A h \in Handlers : HandlerInv(h)

-----------------------------------------------------------------------------
LEMMA WiderSeq ==
    ASSUME NEW S, NEW T, S \subseteq T
    PROVE  Seq(S) \subseteq Seq(T)
<1> SUFFICES ASSUME NEW s \in Seq(S)
             PROVE  s \in Seq(T)
  OBVIOUS
<1>1. Len(s) \in Nat /\ s \in [1..Len(s) -> T]
  BY LenProperties
<1> QED
  BY <1>1

LEMMA DeviceAudiences ==
    ASSUME NEW ids \in AudienceIDs
    PROVE  ids \in Seq(IDs)
<1>1. ids \in Seq(Elements(ids))
  BY TargetingAssumption
<1>2. Elements(ids) \subseteq IDs
  BY DEF IDs
<1> QED
  BY <1>1, <1>2, WiderSeq

LEMMA LookupInitInv == Init => LookupInv
<1> SUFFICES ASSUME Init PROVE LookupInv
  OBVIOUS
<1> USE DEF Init, NewTable, NewBuffer, LoopStart
<1>1. Types
  <2>1. <<>> \in Seq(IDs) /\ <<>> \in Seq(Indices) /\ <<>> \in Seq(Nat) /\ <<>> \in Seq(Valid)
    BY EmptySeq
  <2>2. NewTable \in LookupTables /\ NewBuffer \in AuctionBuffers /\ LoopStart \in Loops
    BY <2>1 DEF LookupTables, AuctionBuffers, Loops
  <2>3. table \in [Tables -> LookupTables] /\ buffer \in [Buffers -> AuctionBuffers]
    BY <2>2
  <2>4. loop \in [Handlers -> Loops] /\ asked \in [Handlers -> Seq(IDs)]
    BY <2>1, <2>2
  <2>5. mine \in [Handlers -> [table : Tables \cup {NoObject}, buffer : Buffers \cup {NoObject}]]
    OBVIOUS
  <2> QED
    BY <2>1, <2>3, <2>4, <2>5 DEF Types
<1>2. IndexInv
  <2>1. Len(data) = 0
    OBVIOUS
  <2> QED
    BY <2>1 DEF IndexInv, Indices
<1>3. PhaseInv
  BY DEF PhaseInv
<1>4. HeldOnce
  BY TargetingAssumption DEF HeldOnce
<1>5. StampsBelow
  BY DEF StampsBelow
<1>6. \A h \in Handlers : HandlerInv(h)
  BY DEF HandlerInv
<1> QED
  BY <1>1, <1>2, <1>3, <1>4, <1>5, <1>6 DEF LookupInv

-----------------------------------------------------------------------------
(***************************************************************************)
(* Loading: no handler runs yet.                                           *)
(***************************************************************************)
LEMMA LoadingFrame ==
    ASSUME LookupInv, phase # "serving", UNCHANGED auctionVars
    PROVE  /\ HeldOnce'
           /\ StampsBelow'
           /\ \A h \in Handlers : pc[h] = "idle"
           /\ \A h \in Handlers : HandlerInv(h)'
<1> USE DEF auctionVars
<1>1. \A h \in Handlers : pc[h] = "idle"
  BY DEF LookupInv, PhaseInv
<1>2. HeldOnce' /\ StampsBelow'
  BY DEF LookupInv, HeldOnce, StampsBelow
<1>3. \A h \in Handlers : HandlerInv(h)'
  BY <1>1 DEF LookupInv, HandlerInv
<1> QED
  BY <1>1, <1>2, <1>3

LEMMA ConsumeCampaignInv ==
    ASSUME LookupInv, NEW c \in Valid, ConsumeCampaign(c)
    PROVE  LookupInv'
<1> USE DEF ConsumeCampaign, auctionVars
<1>1. /\ data \in Seq(Valid) /\ Len(data) \in Nat
      /\ data' \in Seq(Valid) /\ Len(data') = Len(data) + 1
      /\ \A i \in 1..Len(data) : data'[i] = data[i]
      /\ data'[Len(data) + 1] = c
  BY AppendProperties, LenProperties DEF LookupInv, Types
<1>2. Indices \subseteq Indices' /\ Indices' = Indices \cup {Len(data) + 1}
  BY <1>1 DEF Indices
<1>3. Types'
  <2>1. Seq(Indices) \subseteq Seq(Indices')
    BY <1>2, WiderSeq
  <2>2. \A b \in AuctionBuffers : b \in AuctionBuffers'
    BY <2>1 DEF AuctionBuffers
  <2>3. buffer' \in [Buffers -> AuctionBuffers']
    BY <2>2 DEF LookupInv, Types
  <2> QED
    BY <1>1, <2>3 DEF LookupInv, Types
<1>4. /\ DOMAIN idToIndex' = DOMAIN idToIndex \cup {c}
      /\ idToIndex'[c] = Len(data) + 1
      /\ \A x \in DOMAIN idToIndex : idToIndex'[x] = idToIndex[x]
      /\ idToIndex' = [x \in DOMAIN idToIndex' |-> idToIndex'[x]]
  BY DEF Extend
<1>5. IndexInv'
  <2> USE DEF LookupInv, IndexInv
  <2>1. DOMAIN idToIndex' \subseteq Valid
    BY <1>4
  <2>2. idToIndex' \in [DOMAIN idToIndex' -> Indices']
    BY <1>1, <1>2, <1>4 DEF Indices
  <2>3. \A x \in DOMAIN idToIndex' : data'[idToIndex'[x]] = x
    BY <1>1, <1>4 DEF Indices
  <2>4. \A i \in Indices' : data'[i] \in DOMAIN idToIndex' /\ idToIndex'[data'[i]] = i
    <3> TAKE i \in Indices'
    <3>1. CASE i \in Indices
      <4>1. data'[i] = data[i] /\ data[i] \in DOMAIN idToIndex
        BY <1>1, <3>1 DEF Indices
      <4> QED
        BY <1>4, <4>1, <3>1
    <3>2. CASE i = Len(data) + 1
      BY <1>1, <1>4, <3>2
    <3> QED
      BY <1>2, <3>1, <3>2
  <2> QED
    BY <2>1, <2>2, <2>3, <2>4
<1>6. PhaseInv'
  BY LoadingFrame DEF LookupInv, PhaseInv
<1> QED
  BY <1>3, <1>5, <1>6, LoadingFrame DEF LookupInv

LEMMA ConsumeAudienceInv ==
    ASSUME LookupInv, NEW a \in Audiences, ConsumeAudience(a)
    PROVE  LookupInv'
<1> USE DEF ConsumeAudience, auctionVars
<1>1. DOMAIN idToIndex = Valid
  BY DEF LookupInv, PhaseInv
<1>2. Types' /\ IndexInv'
  BY DEF LookupInv, Types, IndexInv, AuctionBuffers, Indices
<1>3. audienceData' = Extend(audienceData, a, AudienceOf(a))
  BY <1>1 DEF AudienceOf
<1>4. PhaseInv'
  <2>1. DOMAIN audienceData' = DOMAIN audienceData \cup {a}
    BY <1>3 DEF Extend
  <2>2. \A x \in DOMAIN audienceData' : audienceData'[x] = AudienceOf(x)
    BY <1>3, <2>1 DEF Extend, LookupInv, PhaseInv
  <2>3. \A x \in DOMAIN audienceData' : audienceData'[x] = AudienceOf(x)'
    BY <2>2 DEF AudienceOf
  <2> QED
    BY <1>1, <2>1, <2>3, LoadingFrame DEF LookupInv, PhaseInv
<1> QED
  BY <1>2, <1>4, LoadingFrame DEF LookupInv

LEMMA PhaseStepsInv ==
    ASSUME LookupInv, CampaignsRead \/ AudiencesRead \/ ScanFails
    PROVE  LookupInv'
<1> USE DEF CampaignsRead, AudiencesRead, ScanFails, auctionVars
<1>1. phase # "serving"
  OBVIOUS
<1>2. Types' /\ IndexInv'
  BY DEF LookupInv, Types, IndexInv, AuctionBuffers, Indices
<1>3. \A a : AudienceOf(a)' = AudienceOf(a)
  BY DEF AudienceOf
<1>4. PhaseInv'
  BY <1>1, <1>3, LoadingFrame DEF LookupInv, PhaseInv, IndexInv
<1> QED
  BY <1>1, <1>2, <1>4, LoadingFrame DEF LookupInv

-----------------------------------------------------------------------------
(***************************************************************************)
(* Serving: the caches do not change any more.  A handler that takes no    *)
(* step keeps its part of the invariant, because the objects it holds are  *)
(* not those of the handler that does.                                     *)
(***************************************************************************)
LEMMA CacheFrame ==
    ASSUME LookupInv, UNCHANGED cacheVars,
           \A h \in Handlers : pc'[h] # "idle" => phase = "serving"
    PROVE  IndexInv' /\ PhaseInv' /\ Indices' = Indices /\ AuctionBuffers' = AuctionBuffers
<1> USE DEF cacheVars
<1>1. \A a : AudienceOf(a)' = AudienceOf(a)
  BY DEF AudienceOf
<1>2. Indices' = Indices /\ AuctionBuffers' = AuctionBuffers
  BY DEF Indices, AuctionBuffers
<1>3. IndexInv'
  BY <1>2 DEF LookupInv, IndexInv
<1>4. PhaseInv'
  BY <1>1 DEF LookupInv, PhaseInv
<1> QED
  BY <1>2, <1>3, <1>4

\* Adding and Chosen read the caches, which stay.
LEMMA ListFrame ==
    ASSUME UNCHANGED cacheVars
    PROVE  /\ \A b, t, l, ids : Adding(b, t, l, ids)' = Adding(b, t, l, ids)
           /\ \A b, ids : Chosen(b, ids)' = Chosen(b, ids)
<1> USE DEF cacheVars
<1>1. \A ids, i, todo : Listed(ids, i, todo)' = Listed(ids, i, todo)
  BY DEF Listed, CampaignsOf, Indices
<1>2. \A b, t, l, ids : Adding(b, t, l, ids)' = Adding(b, t, l, ids)
  BY <1>1 DEF Adding, CampaignsOf, Indices
<1>3. \A b, ids : Chosen(b, ids)' = Chosen(b, ids)
  BY <1>1 DEF Chosen
<1> QED
  BY <1>2, <1>3

LEMMA OtherHandler ==
    ASSUME LookupInv, UNCHANGED cacheVars, NEW g \in Handlers,
           pc'[g] = pc[g], mine'[g] = mine[g], loop'[g] = loop[g], asked'[g] = asked[g],
           pc[g] # "idle" => buffer'[mine[g].buffer] = buffer[mine[g].buffer],
           pc[g] = "adding" => table'[mine[g].table] = table[mine[g].table]
    PROVE  HandlerInv(g)'
<1>1. HandlerInv(g)
  BY DEF LookupInv
<1> QED
  BY <1>1, ListFrame DEF HandlerInv

\* What a handler that is not idle holds.
LEMMA Holds ==
    ASSUME LookupInv, NEW h \in Handlers
    PROVE  /\ pc[h] # "idle" => mine[h].buffer \in Buffers /\ buffer[mine[h].buffer] \in AuctionBuffers
           /\ pc[h] = "adding" => mine[h].table \in Tables /\ table[mine[h].table] \in LookupTables
           /\ \A g \in Handlers : g # h =>
                /\ pc[h] # "idle" => mine[g].buffer # mine[h].buffer
                /\ pc[h] = "adding" => mine[g].table # mine[h].table
BY TargetingAssumption DEF LookupInv, Types, HeldOnce

LEMMA CollectInv ==
    ASSUME LookupInv, Collect
    PROVE  LookupInv'
<1> USE DEF Collect
<1>1. Types'
  <2>1. NewTable \in LookupTables /\ NewBuffer \in AuctionBuffers
    BY EmptySeq DEF NewTable, NewBuffer, LookupTables, AuctionBuffers
  <2>2. AuctionBuffers' = AuctionBuffers
    BY CacheFrame DEF LookupInv, PhaseInv
  <2> QED
    BY <2>1, <2>2 DEF LookupInv, Types, cacheVars
<1>2. HeldOnce'
  BY DEF LookupInv, HeldOnce
<1>3. StampsBelow'
  BY DEF LookupInv, Types, StampsBelow, NewTable
<1>4. \A h \in Handlers : HandlerInv(h)'
  <2> TAKE h \in Handlers
  <2>1. mine[h].buffer \notin bufferPool /\ mine[h].table \notin tablePool
    BY DEF LookupInv, HeldOnce
  <2>2. pc[h] # "idle" => buffer'[mine[h].buffer] = buffer[mine[h].buffer]
    BY <2>1, Holds DEF LookupInv, Types
  <2>3. pc[h] = "adding" => table'[mine[h].table] = table[mine[h].table]
    BY <2>1, Holds DEF LookupInv, Types
  <2> QED
    BY <2>2, <2>3, OtherHandler
<1> QED
  BY <1>1, <1>2, <1>3, <1>4, CacheFrame DEF LookupInv, PhaseInv

LEMMA RunInv ==
    ASSUME LookupInv, NEW h \in Handlers, Run(h)
    PROVE  LookupInv'
<1>1. PICK b \in Buffers :
          /\ BufferAvailable(b)
          /\ buffer' = [buffer EXCEPT ![b].audienceIDs = <<>>]
          /\ bufferPool' = bufferPool \ {b}
          /\ mine' = [mine EXCEPT ![h].buffer = b]
  BY DEF Run
<1>2. /\ phase = "serving" /\ pc[h] = "idle" /\ pc' = [pc EXCEPT ![h] = "device"]
      /\ UNCHANGED cacheVars /\ UNCHANGED <<tablePool, table, loop, asked>>
  BY DEF Run
<1>3. IndexInv' /\ PhaseInv' /\ AuctionBuffers' = AuctionBuffers
  BY <1>2, CacheFrame
<1>4. buffer'[b] \in AuctionBuffers /\ buffer'[b].audienceIDs = <<>>
  BY <1>1, EmptySeq DEF LookupInv, Types, AuctionBuffers
<1>5. Types'
  BY <1>1, <1>2, <1>3, <1>4 DEF LookupInv, Types, cacheVars
<1>6. HeldOnce'
  BY <1>1, <1>2, TargetingAssumption DEF LookupInv, Types, HeldOnce, BufferAvailable
<1>7. StampsBelow'
  BY <1>2 DEF LookupInv, StampsBelow
<1>8. \A g \in Handlers : HandlerInv(g)'
  <2> TAKE g \in Handlers
  <2>1. CASE g = h
    BY <2>1, <1>1, <1>2, <1>4 DEF LookupInv, Types, HandlerInv
  <2>2. CASE g # h
    <3>1. mine[g].buffer # b
      BY <1>1 DEF BufferAvailable
    <3> QED
      BY <1>1, <1>2, <2>2, <3>1, OtherHandler DEF LookupInv, Types
  <2> QED
    BY <2>1, <2>2
<1> QED
  BY <1>3, <1>5, <1>6, <1>7, <1>8 DEF LookupInv

LEMMA GetDeviceInv ==
    ASSUME LookupInv, NEW h \in Handlers, GetDevice(h)
    PROVE  LookupInv'
<1> DEFINE b == mine[h].buffer
<1>1. PICK ids \in AudienceIDs :
          /\ buffer' = [buffer EXCEPT ![b].audienceIDs = @ \o ids]
          /\ asked' = [asked EXCEPT ![h] = ids]
  BY DEF GetDevice
<1>2. /\ pc[h] = "device" /\ pc' = [pc EXCEPT ![h] = "getLookup"]
      /\ UNCHANGED cacheVars /\ UNCHANGED <<tablePool, table, bufferPool, mine, loop>>
  BY DEF GetDevice
<1>3. IndexInv' /\ PhaseInv' /\ AuctionBuffers' = AuctionBuffers
  BY <1>2, CacheFrame DEF LookupInv, PhaseInv
<1>4. b \in Buffers /\ buffer[b] \in AuctionBuffers /\ buffer[b].audienceIDs = <<>>
  BY <1>2, Holds DEF LookupInv, HandlerInv
<1>5. ids \in Seq(IDs) /\ <<>> \o ids = ids
  BY DeviceAudiences, ConcatEmptySeq
<1>6. buffer'[b] = [buffer[b] EXCEPT !.audienceIDs = ids]
  BY <1>1, <1>4, <1>5 DEF LookupInv, Types
<1>7. buffer'[b] \in AuctionBuffers /\ buffer'[b].audienceIDs = ids
  BY <1>4, <1>5, <1>6 DEF AuctionBuffers
<1>8. Types'
  BY <1>1, <1>2, <1>3, <1>4, <1>5, <1>7 DEF LookupInv, Types, cacheVars
<1>9. HeldOnce' /\ StampsBelow'
  BY <1>2 DEF LookupInv, Types, HeldOnce, StampsBelow
<1>10. \A g \in Handlers : HandlerInv(g)'
  <2> TAKE g \in Handlers
  <2>1. CASE g = h
    BY <2>1, <1>1, <1>2, <1>7 DEF LookupInv, Types, HandlerInv
  <2>2. CASE g # h
    <3>1. mine[g].buffer # b
      BY <1>2, <2>2, Holds
    <3> QED
      BY <1>1, <1>2, <2>2, <3>1, OtherHandler DEF LookupInv, Types
  <2> QED
    BY <2>1, <2>2
<1> QED
  BY <1>3, <1>8, <1>9, <1>10 DEF LookupInv

\* Putting the buffer back, after a failure or after the auction.
LEMMA BufferBackInv ==
    ASSUME LookupInv, NEW h \in Handlers, DeviceFails(h) \/ PutBuffer(h)
    PROVE  LookupInv'
<1>1. /\ pc[h] \in {"device", "choosing"}
      /\ bufferPool' = bufferPool \cup {mine[h].buffer}
      /\ mine' = [mine EXCEPT ![h].buffer = NoObject]
      /\ asked' = [asked EXCEPT ![h] = <<>>]
      /\ pc' = [pc EXCEPT ![h] = "idle"]
      /\ UNCHANGED cacheVars /\ UNCHANGED <<tablePool, table, buffer, loop>>
  BY DEF DeviceFails, PutBuffer
<1>2. IndexInv' /\ PhaseInv' /\ AuctionBuffers' = AuctionBuffers
  BY <1>1, CacheFrame DEF LookupInv, PhaseInv
<1>3. Types'
  <2>1. mine[h].buffer \in Buffers
    BY <1>1, Holds
  <2>2. /\ mine' \in [Handlers -> [table : Tables \cup {NoObject}, buffer : Buffers \cup {NoObject}]]
        /\ bufferPool' \subseteq Buffers
    <3> DEFINE Holding == [table : Tables \cup {NoObject}, buffer : Buffers \cup {NoObject}]
    <3>1. mine \in [Handlers -> Holding] /\ bufferPool \subseteq Buffers
      BY DEF LookupInv, Types
    <3>2. [mine[h] EXCEPT !.buffer = NoObject] \in Holding
      BY <3>1
    <3>3. mine' = [mine EXCEPT ![h] = [mine[h] EXCEPT !.buffer = NoObject]]
      BY <1>1
    <3> HIDE DEF Holding
    <3>4. mine' \in [Handlers -> Holding]
      BY <3>1, <3>2, <3>3
    <3> QED
      BY <1>1, <2>1, <3>1, <3>4 DEF Holding
  <2>3. /\ asked' \in [Handlers -> Seq(IDs)]
        /\ pc' \in [Handlers -> {"idle", "device", "getLookup", "adding", "choosing"}]
    BY <1>1, EmptySeq DEF LookupInv, Types
  <2>4. data' = data
    BY <1>1 DEF cacheVars
  <2> QED
    BY <1>1, <1>2, <2>2, <2>3, <2>4 DEF LookupInv, Types
<1>4. HeldOnce'
  <2>1. \A g \in Handlers : g # h => mine[g].buffer # mine[h].buffer
    BY <1>1, Holds
  <2> QED
    BY <1>1, <2>1, TargetingAssumption DEF LookupInv, Types, HeldOnce
<1>5. StampsBelow'
  BY <1>1 DEF LookupInv, StampsBelow
<1>6. \A g \in Handlers : HandlerInv(g)'
  <2> TAKE g \in Handlers
  <2>1. CASE g = h
    BY <2>1, <1>1 DEF LookupInv, Types, HandlerInv, LoopStart
  <2>2. CASE g # h
    BY <1>1, <2>2, OtherHandler DEF LookupInv, Types
  <2> QED
    BY <2>1, <2>2
<1> QED
  BY <1>2, <1>3, <1>4, <1>5, <1>6 DEF LookupInv

-----------------------------------------------------------------------------
(***************************************************************************)
(* getAudienceCampaigns().                                                 *)
(***************************************************************************)

\* The handler h goes from one control state to another and touches no other
\* handler's objects.
LEMMA OneHandler ==
    ASSUME LookupInv, UNCHANGED cacheVars, NEW h \in Handlers, HandlerInv(h)',
           pc[h] # "idle",
           \A g \in Handlers : g # h =>
               /\ pc'[g] = pc[g] /\ mine'[g] = mine[g]
               /\ loop'[g] = loop[g] /\ asked'[g] = asked[g],
           \A b \in Buffers : b # mine[h].buffer => buffer'[b] = buffer[b],
           \A t \in Tables : (\E g \in Handlers : g # h /\ mine[g].table = t) => table'[t] = table[t]
    PROVE  \A g \in Handlers : HandlerInv(g)'
<1> SUFFICES ASSUME NEW g \in Handlers, g # h
             PROVE  HandlerInv(g)'
  OBVIOUS
<1>1. pc[g] # "idle" => buffer'[mine[g].buffer] = buffer[mine[g].buffer]
  BY Holds
<1>2. pc[g] = "adding" => table'[mine[g].table] = table[mine[g].table]
  BY Holds
<1> QED
  BY <1>1, <1>2, OtherHandler

\* The table after l.runID++: long enough, no entry above the run number, and
\* none of the current run.
LEMMA NextRunProps ==
    ASSUME NEW tab \in LookupTables, data \in Seq(Valid),
           \A i \in DOMAIN tab.lookup : tab.lookup[i] <= tab.runID
    PROVE  /\ NextRun(tab) \in LookupTables
           /\ Len(data) <= Len(NextRun(tab).lookup)
           /\ \A i \in DOMAIN NextRun(tab).lookup : NextRun(tab).lookup[i] < NextRun(tab).runID
<1> DEFINE fresh == [i \in 1..Len(data) |-> 0]
<1>1. Len(data) \in Nat /\ tab.lookup \in Seq(Nat) /\ tab.runID \in Nat
  BY LenProperties DEF LookupTables
<1>2. fresh \in Seq(Nat) /\ Len(fresh) = Len(data)
  BY <1>1
<1>3. Len(tab.lookup) \in Nat /\ \A i \in DOMAIN tab.lookup : tab.lookup[i] \in Nat
  BY <1>1, LenProperties
<1>4. CASE Len(tab.lookup) < Len(data)
  BY <1>1, <1>2, <1>4 DEF NextRun, LookupTables
<1>5. CASE ~(Len(tab.lookup) < Len(data))
  BY <1>1, <1>3, <1>5 DEF NextRun, LookupTables
<1> QED
  BY <1>4, <1>5

LEMMA GetLookupInv ==
    ASSUME LookupInv, NEW h \in Handlers, GetLookup(h)
    PROVE  LookupInv'
<1> DEFINE b == mine[h].buffer
<1>1. PICK t \in Tables :
          /\ TableAvailable(t)
          /\ table' = [table EXCEPT ![t] = NextRun(@)]
          /\ tablePool' = tablePool \ {t}
          /\ mine' = [mine EXCEPT ![h].table = t]
  BY DEF GetLookup
<1>2. /\ pc[h] = "getLookup" /\ pc' = [pc EXCEPT ![h] = "adding"]
      /\ buffer' = [buffer EXCEPT ![b].campaignIndices = <<>>]
      /\ UNCHANGED cacheVars /\ UNCHANGED <<bufferPool, loop, asked>>
  BY DEF GetLookup
<1>3. IndexInv' /\ PhaseInv' /\ Indices' = Indices /\ AuctionBuffers' = AuctionBuffers
  BY <1>2, CacheFrame DEF LookupInv, PhaseInv
<1>4. /\ b \in Buffers /\ buffer[b] \in AuctionBuffers
      /\ buffer[b].audienceIDs = asked[h] /\ loop[h] = LoopStart
  BY <1>2, Holds DEF LookupInv, HandlerInv
<1>5. /\ buffer'[b] \in AuctionBuffers
      /\ buffer'[b].audienceIDs = asked[h] /\ buffer'[b].campaignIndices = <<>>
  BY <1>2, <1>4, EmptySeq DEF LookupInv, Types, AuctionBuffers
<1>6. /\ table'[t] = NextRun(table[t]) /\ table'[t] \in LookupTables
      /\ Len(data) <= Len(table'[t].lookup)
      /\ \A i \in DOMAIN table'[t].lookup : table'[t].lookup[i] < table'[t].runID
  <2>1. table[t] \in LookupTables /\ data \in Seq(Valid)
    BY DEF LookupInv, Types
  <2>2. \A i \in DOMAIN table[t].lookup : table[t].lookup[i] <= table[t].runID
    BY DEF LookupInv, StampsBelow
  <2> QED
    BY <1>1, <2>1, <2>2, NextRunProps DEF LookupInv, Types
<1>7. Types'
  BY <1>1, <1>2, <1>3, <1>5, <1>6 DEF LookupInv, Types, cacheVars
<1>8. HeldOnce'
  BY <1>1, <1>2, TargetingAssumption DEF LookupInv, Types, HeldOnce, TableAvailable
<1>9. StampsBelow'
  <2> SUFFICES ASSUME NEW u \in Tables, NEW i \in DOMAIN table'[u].lookup
               PROVE  table'[u].lookup[i] <= table'[u].runID
    BY DEF StampsBelow
  <2>1. CASE u = t
    <3>1. table'[t].lookup \in Seq(Nat) /\ table'[t].runID \in Nat
      BY <1>6 DEF LookupTables
    <3>2. table'[t].lookup[i] \in Nat
      BY <3>1, <2>1, LenProperties
    <3> QED
      BY <1>6, <2>1, <3>1, <3>2
  <2>2. CASE u # t
    BY <1>1, <2>2 DEF LookupInv, Types, StampsBelow
  <2> QED
    BY <2>1, <2>2
<1>10. HandlerInv(h)'
  <2>1. Elements(<<>>) = {} /\ NoDuplicates(<<>>)
    BY DEF Elements, NoDuplicates
  <2>2. Listed(asked[h], 0, {}) = {}
    BY DEF Listed
  <2>3. \A x \in Indices : table'[t].lookup[x] # table'[t].runID
    <3> TAKE x \in Indices
    <3>1. /\ table'[t].lookup \in Seq(Nat) /\ table'[t].runID \in Nat
          /\ Len(data) \in Nat /\ Len(table'[t].lookup) \in Nat
      BY <1>6, LenProperties DEF LookupTables, LookupInv, Types
    <3>2. x \in DOMAIN table'[t].lookup /\ table'[t].lookup[x] \in Nat
      BY <1>6, <3>1, LenProperties DEF Indices
    <3> QED
      BY <1>6, <3>1, <3>2
  <2>4. Len(asked[h]) \in Nat
    BY LenProperties DEF LookupInv, Types
  <2>5. Adding(buffer'[b], table'[t], LoopStart, asked[h])
    <3>1. LoopStart.i = 0 /\ LoopStart.todo = {}
      BY DEF LoopStart
    <3>2. Elements(buffer'[b].campaignIndices) = Listed(asked[h], LoopStart.i, LoopStart.todo)
      BY <1>5, <2>1, <2>2, <3>1
    <3>3. \A x \in Indices : table'[t].lookup[x] = table'[t].runID
                             <=> x \in Elements(buffer'[b].campaignIndices)
      BY <1>5, <2>1, <2>3
    <3> QED
      BY <1>5, <1>6, <2>1, <2>4, <3>1, <3>2, <3>3 DEF Adding
  <2>6. /\ mine'[h].table = t /\ mine'[h].buffer = b /\ pc'[h] = "adding"
        /\ loop'[h] = LoopStart /\ asked'[h] = asked[h]
    BY <1>1, <1>2, <1>4 DEF LookupInv, Types
  <2> QED
    BY <1>2, <2>5, <2>6, ListFrame DEF HandlerInv
<1>11. \A g \in Handlers : HandlerInv(g)'
  BY <1>1, <1>2, <1>10, OneHandler DEF LookupInv, Types, TableAvailable
<1> QED
  BY <1>3, <1>7, <1>8, <1>9, <1>11 DEF LookupInv

\* The list of an audience that the cache knows; and of any other.
LEMMA CampaignList ==
    ASSUME LookupInv, phase = "serving", NEW a
    PROVE  /\ DOMAIN CampaignsOf(a) \subseteq Nat
           /\ \A p \in DOMAIN CampaignsOf(a) : CampaignsOf(a)[p] \in Indices
<1>1. CASE a \in Audiences
  <2>1. CampaignsOf(a) = AudienceOf(a)
    BY <1>1 DEF LookupInv, PhaseInv, CampaignsOf
  <2>2. DOMAIN Targets[a] \subseteq Nat
    BY <1>1, LenProperties, TargetingAssumption
  <2>3. \A c \in Valid : idToIndex[c] \in Indices
    BY DEF LookupInv, PhaseInv, IndexInv
  <2> QED
    BY <2>1, <2>2, <2>3 DEF AudienceOf
<1>2. CASE a \notin Audiences
  <2>1. CampaignsOf(a) = <<>>
    BY <1>2 DEF LookupInv, PhaseInv, CampaignsOf
  <2> QED
    BY <2>1
<1> QED
  BY <1>1, <1>2

\* In the loops the handler changes at most its own list, table and position.
LEMMA NextAudienceInv ==
    ASSUME LookupInv, NEW h \in Handlers, NextAudience(h)
    PROVE  LookupInv'
<1> DEFINE b == mine[h].buffer
           t == mine[h].table
           i == loop[h].i + 1
           ids == asked[h]
           l == [i |-> i, todo |-> DOMAIN CampaignsOf(ids[i])]
<1>1. /\ pc[h] = "adding" /\ phase = "serving"
      /\ UNCHANGED cacheVars /\ UNCHANGED <<tablePool, table, bufferPool, buffer, pc, mine, asked>>
  BY DEF NextAudience, LookupInv, PhaseInv
<1>2. Adding(buffer[b], table[t], loop[h], ids)
  BY <1>1 DEF LookupInv, HandlerInv
<1>3. /\ loop[h].todo = {} /\ i <= Len(ids)
      /\ loop' = [loop EXCEPT ![h] = l]
  BY <1>2 DEF NextAudience, Adding
<1>4. IndexInv' /\ PhaseInv' /\ Indices' = Indices /\ AuctionBuffers' = AuctionBuffers
  BY <1>1, CacheFrame DEF LookupInv, PhaseInv
<1>5. loop[h].i \in Nat /\ i \in Nat /\ i # 0 /\ Len(ids) \in Nat
  BY LenProperties DEF LookupInv, Types, Loops
<1>6. l \in Loops
  BY <1>1, <1>5, CampaignList DEF Loops
<1>7. Types'
  BY <1>1, <1>3, <1>4, <1>6 DEF LookupInv, Types, cacheVars
<1>8. HeldOnce' /\ StampsBelow'
  BY <1>1 DEF LookupInv, HeldOnce, StampsBelow
<1>9. Listed(ids, i, l.todo) = Listed(ids, loop[h].i, {})
  <2>1. ASSUME NEW x \in Listed(ids, i, l.todo)
        PROVE  x \in Listed(ids, loop[h].i, {})
    <3>1. PICK k \in 1..i : \E p \in DOMAIN CampaignsOf(ids[k]) :
                               /\ x = CampaignsOf(ids[k])[p]
                               /\ k = i => p \notin l.todo
      BY DEF Listed
    <3>2. k # i
      BY <3>1
    <3>3. k \in 1..loop[h].i
      BY <1>5, <3>2
    <3> QED
      BY <3>1, <3>3 DEF Listed
  <2>2. ASSUME NEW x \in Listed(ids, loop[h].i, {})
        PROVE  x \in Listed(ids, i, l.todo)
    <3>1. PICK k \in 1..loop[h].i : \E p \in DOMAIN CampaignsOf(ids[k]) : x = CampaignsOf(ids[k])[p]
      BY DEF Listed
    <3>2. k \in 1..i /\ k # i
      BY <1>5
    <3> QED
      BY <3>1, <3>2 DEF Listed
  <2> QED
    BY <2>1, <2>2
<1>10. Adding(buffer[b], table[t], l, ids)
  BY <1>2, <1>3, <1>5, <1>9 DEF Adding
<1>11. HandlerInv(h)'
  <2>1. loop'[h] = l
    BY <1>3 DEF LookupInv, Types
  <2> QED
    BY <1>1, <1>10, <2>1, ListFrame DEF HandlerInv
<1>12. \A g \in Handlers : HandlerInv(g)'
  BY <1>1, <1>3, <1>11, OneHandler DEF LookupInv, Types
<1> QED
  BY <1>4, <1>7, <1>8, <1>12 DEF LookupInv

LEMMA PutLookupInv ==
    ASSUME LookupInv, NEW h \in Handlers, PutLookup(h)
    PROVE  LookupInv'
<1> DEFINE b == mine[h].buffer
           t == mine[h].table
           ids == asked[h]
<1>1. /\ pc[h] = "adding" /\ phase = "serving" /\ loop[h].todo = {}
      /\ loop[h].i = Len(buffer[b].audienceIDs)
      /\ tablePool' = tablePool \cup {t}
      /\ mine' = [mine EXCEPT ![h].table = NoObject]
      /\ loop' = [loop EXCEPT ![h] = LoopStart]
      /\ pc' = [pc EXCEPT ![h] = "choosing"]
      /\ UNCHANGED cacheVars /\ UNCHANGED <<table, bufferPool, buffer, asked>>
  BY DEF PutLookup, LookupInv, PhaseInv
<1>2. Adding(buffer[b], table[t], loop[h], ids)
  BY <1>1 DEF LookupInv, HandlerInv
<1>3. Chosen(buffer[b], ids)
  BY <1>1, <1>2 DEF Adding, Chosen
<1>4. IndexInv' /\ PhaseInv' /\ Indices' = Indices /\ AuctionBuffers' = AuctionBuffers
  BY <1>1, CacheFrame DEF LookupInv, PhaseInv
<1>5. Types'
  <2>1. LoopStart \in Loops
    BY DEF LoopStart, Loops
  <2>2. t \in Tables
    BY <1>1, Holds
  <2>3. /\ mine' \in [Handlers -> [table : Tables \cup {NoObject}, buffer : Buffers \cup {NoObject}]]
        /\ tablePool' \subseteq Tables
    <3> DEFINE Holding == [table : Tables \cup {NoObject}, buffer : Buffers \cup {NoObject}]
    <3>1. mine \in [Handlers -> Holding] /\ tablePool \subseteq Tables
      BY DEF LookupInv, Types
    <3>2. [mine[h] EXCEPT !.table = NoObject] \in Holding
      BY <3>1
    <3>3. mine' = [mine EXCEPT ![h] = [mine[h] EXCEPT !.table = NoObject]]
      BY <1>1
    <3> HIDE DEF Holding
    <3>4. mine' \in [Handlers -> Holding]
      BY <3>1, <3>2, <3>3
    <3> QED
      BY <1>1, <2>2, <3>1, <3>4 DEF Holding
  <2>4. /\ loop' \in [Handlers -> Loops]
        /\ pc' \in [Handlers -> {"idle", "device", "getLookup", "adding", "choosing"}]
    BY <1>1, <2>1 DEF LookupInv, Types
  <2>5. data' = data
    BY <1>1 DEF cacheVars
  <2> QED
    BY <1>1, <1>4, <2>3, <2>4, <2>5 DEF LookupInv, Types
<1>6. HeldOnce'
  <2>1. \A g \in Handlers : g # h => mine[g].table # t
    BY <1>1, Holds
  <2> QED
    BY <1>1, <2>1, TargetingAssumption DEF LookupInv, Types, HeldOnce
<1>7. StampsBelow'
  BY <1>1 DEF LookupInv, StampsBelow
<1>8. HandlerInv(h)'
  <2>1. mine'[h].buffer = b /\ pc'[h] = "choosing" /\ loop'[h] = LoopStart
    BY <1>1 DEF LookupInv, Types
  <2> QED
    BY <1>1, <1>3, <2>1, ListFrame DEF HandlerInv, LoopStart
<1>9. \A g \in Handlers : HandlerInv(g)'
  BY <1>1, <1>8, OneHandler DEF LookupInv, Types
<1> QED
  BY <1>4, <1>5, <1>6, <1>7, <1>9 DEF LookupInv

LEMMA ListedMore ==
    ASSUME NEW ids, NEW i \in Nat \ {0}, NEW todo, NEW p \in todo,
           p \in DOMAIN CampaignsOf(ids[i]), CampaignsOf(ids[i])[p] \in Indices
    PROVE  Listed(ids, i, todo \ {p}) = Listed(ids, i, todo) \cup {CampaignsOf(ids[i])[p]}
<1> DEFINE x == CampaignsOf(ids[i])[p]
<1>1. x \in Listed(ids, i, todo \ {p})
  <2>1. i \in 1..i
    OBVIOUS
  <2> QED
    BY <2>1 DEF Listed
<1>2. Listed(ids, i, todo) \subseteq Listed(ids, i, todo \ {p})
  BY DEF Listed
<1>3. ASSUME NEW y \in Listed(ids, i, todo \ {p}), y # x
      PROVE  y \in Listed(ids, i, todo)
  <2>1. PICK k \in 1..i : \E q \in DOMAIN CampaignsOf(ids[k]) :
                             /\ y = CampaignsOf(ids[k])[q]
                             /\ k = i => q \notin todo \ {p}
    BY DEF Listed
  <2>2. PICK q \in DOMAIN CampaignsOf(ids[k]) :
            y = CampaignsOf(ids[k])[q] /\ (k = i => q \notin todo \ {p})
    BY <2>1
  <2>3. k = i => q \notin todo
    BY <1>3, <2>2
  <2> QED
    BY <2>2, <2>3 DEF Listed
<1> QED
  BY <1>1, <1>2, <1>3

\* Appending a campaign that is not in the list yet.
LEMMA AppendNew ==
    ASSUME NEW S, NEW s \in Seq(S), NEW x \in S, NoDuplicates(s), x \notin Elements(s)
    PROVE  /\ Append(s, x) \in Seq(S)
           /\ NoDuplicates(Append(s, x))
           /\ Elements(Append(s, x)) = Elements(s) \cup {x}
<1> DEFINE r == Append(s, x)
<1>1. /\ Len(s) \in Nat /\ DOMAIN s = 1..Len(s)
      /\ r \in Seq(S) /\ Len(r) = Len(s) + 1 /\ DOMAIN r = 1..Len(s) + 1
      /\ \A j \in 1..Len(s) : r[j] = s[j]
      /\ r[Len(s) + 1] = x
  BY AppendProperties, LenProperties
<1>2. DOMAIN r = DOMAIN s \cup {Len(s) + 1} /\ Len(s) + 1 \notin DOMAIN s
  BY <1>1
<1>3. \A j \in DOMAIN s : s[j] # x /\ r[j] = s[j]
  BY <1>1 DEF Elements
<1>4. NoDuplicates(r)
  BY <1>1, <1>2, <1>3 DEF NoDuplicates
<1>5. Elements(r) = Elements(s) \cup {x}
  <2>1. Elements(r) \subseteq Elements(s) \cup {x}
    BY <1>1, <1>2, <1>3 DEF Elements
  <2>2. Elements(s) \subseteq Elements(r)
    BY <1>2, <1>3 DEF Elements
  <2>3. x \in Elements(r)
    BY <1>1, <1>2 DEF Elements
  <2> QED
    BY <2>1, <2>2, <2>3
<1> QED
  BY <1>1, <1>4, <1>5

LEMMA AddCampaignInv ==
    ASSUME LookupInv, NEW h \in Handlers, AddCampaign(h)
    PROVE  LookupInv'
<1> DEFINE b == mine[h].buffer
           t == mine[h].table
           B == buffer[b]
           T == table[t]
           i == loop[h].i
           todo == loop[h].todo
           ids == asked[h]
           list == CampaignsOf(ids[i])
<1>1. /\ pc[h] = "adding" /\ phase = "serving"
      /\ UNCHANGED cacheVars /\ UNCHANGED <<tablePool, bufferPool, pc, mine, asked>>
  BY DEF AddCampaign, LookupInv, PhaseInv
<1>2. Adding(B, T, loop[h], ids)
  BY <1>1 DEF LookupInv, HandlerInv
<1>3. PICK p \in todo :
          /\ loop' = [loop EXCEPT ![h].todo = @ \ {p}]
          /\ IF T.lookup[list[p]] # T.runID
             THEN /\ buffer' = [buffer EXCEPT ![b].campaignIndices = Append(@, list[p])]
                  /\ table' = [table EXCEPT ![t].lookup[list[p]] = T.runID]
             ELSE UNCHANGED <<buffer, table>>
  BY <1>2 DEF AddCampaign, Adding
<1> DEFINE x == list[p]
           l == [i |-> i, todo |-> todo \ {p}]
<1>4. IndexInv' /\ PhaseInv' /\ Indices' = Indices /\ AuctionBuffers' = AuctionBuffers
  BY <1>1, CacheFrame DEF LookupInv, PhaseInv
<1>5. /\ b \in Buffers /\ B \in AuctionBuffers /\ t \in Tables /\ T \in LookupTables
      /\ B.campaignIndices \in Seq(Indices)
      /\ T.lookup \in Seq(Nat) /\ T.runID \in Nat
  BY <1>1, Holds DEF AuctionBuffers, LookupTables
<1>6. /\ i \in Nat \ {0} /\ todo \subseteq Nat /\ p \in Nat
      /\ loop'[h] = l /\ l \in Loops
      /\ \A g \in Handlers : g # h => loop'[g] = loop[g]
      /\ loop' \in [Handlers -> Loops]
  BY <1>2, <1>3 DEF LookupInv, Types, Loops, Adding
<1>7. p \in DOMAIN list /\ x \in Indices
  BY <1>1, <1>2, <1>6, CampaignList DEF Adding
<1>8. Indices \subseteq DOMAIN T.lookup
  <2>1. Len(data) \in Nat /\ Len(T.lookup) \in Nat /\ DOMAIN T.lookup = 1..Len(T.lookup)
    BY <1>5, LenProperties DEF LookupInv, Types
  <2> QED
    BY <1>2, <2>1 DEF Adding, Indices
<1>9. Listed(ids, i, l.todo) = Listed(ids, i, todo) \cup {x}
  BY <1>6, <1>7, ListedMore
<1>10. HeldOnce'
  BY <1>1 DEF LookupInv, HeldOnce
<1>11. CASE T.lookup[x] = T.runID
  <2>1. UNCHANGED <<buffer, table>>
    BY <1>3, <1>11
  <2>2. Types' /\ StampsBelow'
    BY <1>1, <1>4, <1>6, <2>1 DEF LookupInv, Types, StampsBelow, cacheVars
  <2>3. x \in Elements(B.campaignIndices)
    BY <1>2, <1>7, <1>11 DEF Adding
  <2>4. Adding(B, T, l, ids)
    BY <1>2, <1>6, <1>9, <2>3 DEF Adding
  <2>5. HandlerInv(h)'
    BY <1>1, <1>6, <2>1, <2>4, ListFrame DEF HandlerInv
  <2>6. \A g \in Handlers : HandlerInv(g)'
    BY <1>1, <1>6, <2>1, <2>5, OneHandler
  <2> QED
    BY <1>4, <1>10, <2>2, <2>6 DEF LookupInv
<1>12. CASE T.lookup[x] # T.runID
  <2>1. /\ buffer' = [buffer EXCEPT ![b].campaignIndices = Append(@, x)]
        /\ table' = [table EXCEPT ![t].lookup[x] = T.runID]
    BY <1>3, <1>12
  <2>2. x \notin Elements(B.campaignIndices)
    BY <1>2, <1>7, <1>12 DEF Adding
  <2>3. /\ Append(B.campaignIndices, x) \in Seq(Indices)
        /\ NoDuplicates(Append(B.campaignIndices, x))
        /\ Elements(Append(B.campaignIndices, x)) = Elements(B.campaignIndices) \cup {x}
    BY <1>2, <1>5, <1>7, <2>2, AppendNew DEF Adding
  <2>4. /\ buffer'[b] = [B EXCEPT !.campaignIndices = Append(B.campaignIndices, x)]
        /\ \A c \in Buffers : c # b => buffer'[c] = buffer[c]
        /\ buffer' = [c \in Buffers |-> buffer'[c]]
    BY <1>5, <2>1 DEF LookupInv, Types
  <2>5. /\ buffer'[b] \in AuctionBuffers
        /\ buffer'[b].audienceIDs = B.audienceIDs
        /\ buffer'[b].campaignIndices = Append(B.campaignIndices, x)
    BY <1>5, <2>3, <2>4 DEF AuctionBuffers
  <2>6. /\ table'[t] = [T EXCEPT !.lookup = [T.lookup EXCEPT ![x] = T.runID]]
        /\ \A u \in Tables : u # t => table'[u] = table[u]
        /\ table' = [u \in Tables |-> table'[u]]
    BY <1>5, <2>1 DEF LookupInv, Types
  <2>7. /\ table'[t] \in LookupTables
        /\ table'[t].runID = T.runID
        /\ table'[t].lookup = [T.lookup EXCEPT ![x] = T.runID]
        /\ Len(table'[t].lookup) = Len(T.lookup)
    <3>1. [T.lookup EXCEPT ![x] = T.runID] \in Seq(Nat)
      BY <1>5, <1>7, <1>8
    <3>2. Len([T.lookup EXCEPT ![x] = T.runID]) = Len(T.lookup)
      BY <1>5, <1>7, <1>8
    <3> QED
      BY <1>5, <2>6, <3>1, <3>2 DEF LookupTables
  <2>8. Types'
    <3>1. buffer' \in [Buffers -> AuctionBuffers'] /\ table' \in [Tables -> LookupTables]
      BY <1>4, <2>4, <2>5, <2>6, <2>7 DEF LookupInv, Types
    <3> QED
      BY <1>1, <1>6, <3>1 DEF LookupInv, Types, cacheVars
  <2>9. StampsBelow'
    <3> SUFFICES ASSUME NEW u \in Tables, NEW y \in DOMAIN table'[u].lookup
                 PROVE  table'[u].lookup[y] <= table'[u].runID
      BY DEF StampsBelow
    <3>1. CASE u = t
      <4>1. y \in DOMAIN T.lookup
        BY <2>7, <3>1
      <4>2. T.lookup[y] <= T.runID
        BY <1>5, <4>1 DEF LookupInv, StampsBelow
      <4> QED
        BY <1>5, <2>7, <3>1, <4>1, <4>2
    <3>2. CASE u # t
      BY <2>6, <3>2 DEF LookupInv, StampsBelow
    <3> QED
      BY <3>1, <3>2
  <2>10. Adding(buffer'[b], table'[t], l, ids)
    <3>1. \A y \in Indices : table'[t].lookup[y] = table'[t].runID
                             <=> y \in Elements(buffer'[b].campaignIndices)
      <4> TAKE y \in Indices
      <4>1. T.lookup[y] = T.runID <=> y \in Elements(B.campaignIndices)
        BY <1>2 DEF Adding
      <4>2. CASE y = x
        BY <1>7, <1>8, <2>3, <2>5, <2>7, <4>2
      <4>3. CASE y # x
        BY <1>7, <1>8, <2>3, <2>5, <2>7, <4>1, <4>3
      <4> QED
        BY <4>2, <4>3
    <3> QED
      BY <1>2, <1>6, <1>9, <2>3, <2>5, <2>7, <3>1 DEF Adding
  <2>11. HandlerInv(h)'
    BY <1>1, <1>6, <2>10, ListFrame DEF HandlerInv
  <2>12. \A g \in Handlers : HandlerInv(g)'
    <3>1. \A g \in Handlers : g # h => mine[g].table # t
      BY <1>1, Holds
    <3> QED
      BY <1>1, <1>6, <2>4, <2>6, <2>11, <3>1, OneHandler
  <2> QED
    BY <1>4, <1>10, <2>8, <2>9, <2>12 DEF LookupInv
<1> QED
  BY <1>11, <1>12

-----------------------------------------------------------------------------
\* The invariant is inductive.
THEOREM LookupInvariance == Spec => []LookupInv
<1>1. Init => LookupInv
  BY LookupInitInv
<1>2. LookupInv /\ [Next]_vars => LookupInv'
  <2> SUFFICES ASSUME LookupInv, [Next]_vars PROVE LookupInv'
    OBVIOUS
  <2>1. CASE Loading
    BY <2>1, ConsumeCampaignInv, ConsumeAudienceInv, PhaseStepsInv DEF Loading
  <2>2. CASE Collect
    BY <2>2, CollectInv
  <2>3. CASE \E h \in Handlers : Auction(h)
    BY <2>3, RunInv, GetDeviceInv, BufferBackInv, GetLookupInv, NextAudienceInv,
       AddCampaignInv, PutLookupInv DEF Auction
  <2>4. CASE UNCHANGED vars
    <3>1. UNCHANGED cacheVars
      BY <2>4 DEF vars, cacheVars
    <3>2. Types' /\ HeldOnce' /\ StampsBelow'
      BY <2>4 DEF vars, LookupInv, Types, HeldOnce, StampsBelow, AuctionBuffers, Indices
    <3>3. \A h \in Handlers : HandlerInv(h)'
      BY <2>4, <3>1, ListFrame DEF vars, LookupInv, HandlerInv
    <3>4. IndexInv' /\ PhaseInv'
      BY <2>4, <3>1, CacheFrame DEF vars, LookupInv, PhaseInv
    <3> QED
      BY <3>2, <3>3, <3>4 DEF LookupInv
  <2> QED
    BY <2>1, <2>2, <2>3, <2>4 DEF Next
<1> QED
  BY <1>1, <1>2, PTL DEF Spec

\* Every variable keeps its type; the audience cache refers to campaigns that
\* are in the campaign cache (cache/audience.go, newAudience).
THEOREM LookupTypeCorrect == Spec => []TypeOK
<1>1. LookupInv => TypeOK
  <2> SUFFICES ASSUME LookupInv PROVE TypeOK
    OBVIOUS
  <2>1. \A a \in DOMAIN audienceData : \A p \in DOMAIN audienceData[a] : audienceData[a][p] \in Indices
    <3> SUFFICES ASSUME NEW a \in DOMAIN audienceData, NEW p \in DOMAIN audienceData[a]
                 PROVE  audienceData[a][p] \in Indices
      OBVIOUS
    <3>1. audienceData[a] = AudienceOf(a) /\ DOMAIN idToIndex = Valid
      BY DEF LookupInv, PhaseInv
    <3>2. Targets[a][p] \in Valid /\ audienceData[a][p] = idToIndex[Targets[a][p]]
      BY <3>1 DEF AudienceOf
    <3> QED
      BY <3>1, <3>2 DEF LookupInv, IndexInv
  <2>2. /\ \A t \in Tables : table[t].runID \in Nat /\ table[t].lookup \in Seq(Nat)
        /\ \A b \in Buffers : buffer[b].campaignIndices \in Seq(Indices)
    BY DEF LookupInv, Types, LookupTables, AuctionBuffers
  <2> QED
    BY <2>1, <2>2 DEF TypeOK, LookupInv, Types, PhaseInv, IndexInv
<1> QED
  BY <1>1, LookupInvariance, PTL

\* An index of the campaign cache leads back to its campaign (cache/campaign.go,
\* newCampaign).
THEOREM IndexAlwaysFaithful == Spec => []IndexFaithful
<1>1. LookupInv => IndexFaithful
  BY DEF LookupInv, IndexInv, IndexFaithful
<1> QED
  BY <1>1, LookupInvariance, PTL

LEMMA ListedIsTargeting ==
    ASSUME LookupInv, phase = "serving", NEW ids \in Seq(IDs)
    PROVE  {data[x] : x \in Listed(ids, Len(ids), {})} = Targeting(ids)
<1>1. DOMAIN ids = 1..Len(ids) /\ DOMAIN idToIndex = Valid
  BY LenProperties DEF LookupInv, PhaseInv
<1>2. \A a \in Audiences : CampaignsOf(a) = AudienceOf(a)
  BY DEF LookupInv, PhaseInv, CampaignsOf
<1>3. \A a : a \notin Audiences => CampaignsOf(a) = <<>>
  BY DEF LookupInv, PhaseInv, CampaignsOf
<1>4. ASSUME NEW x \in Listed(ids, Len(ids), {})
      PROVE  data[x] \in Targeting(ids)
  <2>1. PICK k \in 1..Len(ids) : \E p \in DOMAIN CampaignsOf(ids[k]) : x = CampaignsOf(ids[k])[p]
    BY DEF Listed
  <2>2. PICK p \in DOMAIN CampaignsOf(ids[k]) : x = CampaignsOf(ids[k])[p]
    BY <2>1
  <2>3. ids[k] \in Audiences
    BY <1>3, <2>2
  <2>4. p \in DOMAIN Targets[ids[k]] /\ Targets[ids[k]][p] \in Valid /\ x = idToIndex[Targets[ids[k]][p]]
    BY <1>2, <2>2, <2>3 DEF AudienceOf
  <2>5. data[x] = Targets[ids[k]][p]
    BY <1>1, <2>4 DEF LookupInv, IndexInv
  <2> QED
    BY <1>1, <2>3, <2>4, <2>5 DEF Targeting, Elements
<1>5. ASSUME NEW c \in Targeting(ids)
      PROVE  c \in {data[x] : x \in Listed(ids, Len(ids), {})}
  <2>1. PICK k \in 1..Len(ids) : ids[k] \in Audiences /\ c \in Elements(Targets[ids[k]])
    BY <1>1 DEF Targeting
  <2>2. PICK p \in DOMAIN Targets[ids[k]] : c = Targets[ids[k]][p]
    BY <2>1 DEF Elements
  <2>3. c \in Valid
    BY DEF Targeting
  <2>4. p \in DOMAIN CampaignsOf(ids[k]) /\ CampaignsOf(ids[k])[p] = idToIndex[c]
    BY <1>2, <2>1, <2>2, <2>3 DEF AudienceOf
  <2>5. idToIndex[c] \in Indices /\ data[idToIndex[c]] = c
    BY <1>1, <2>3 DEF LookupInv, IndexInv
  <2>6. idToIndex[c] \in Listed(ids, Len(ids), {})
    BY <2>4, <2>5 DEF Listed
  <2> QED
    BY <2>5, <2>6
<1> QED
  BY <1>4, <1>5

\* getAudienceCampaigns() returns each valid campaign that targets the device
\* once and no other, whatever the pools hand out (auction/auction.go,
\* getAudienceCampaigns).
THEOREM AlwaysTargetedExactly == Spec => []TargetedExactly
<1>1. LookupInv => TargetedExactly
  <2> SUFFICES ASSUME LookupInv, NEW h \in Handlers, pc[h] = "choosing"
               PROVE  LET indices == buffer[mine[h].buffer].campaignIndices
                      IN /\ \A i, j \in DOMAIN indices : indices[i] = indices[j] => i = j
                         /\ {data[indices[i]] : i \in DOMAIN indices} = Targeting(asked[h])
    BY DEF TargetedExactly
  <2> DEFINE indices == buffer[mine[h].buffer].campaignIndices
  <2>1. Chosen(buffer[mine[h].buffer], asked[h]) /\ phase = "serving"
    BY DEF LookupInv, HandlerInv, PhaseInv
  <2>2. NoDuplicates(indices) /\ Elements(indices) = Listed(asked[h], Len(asked[h]), {})
    BY <2>1 DEF Chosen
  <2>3. {data[indices[i]] : i \in DOMAIN indices} = {data[x] : x \in Elements(indices)}
    BY DEF Elements
  <2>4. asked[h] \in Seq(IDs)
    BY DEF LookupInv, Types
  <2> QED
    BY <2>1, <2>2, <2>3, <2>4, ListedIsTargeting DEF NoDuplicates
<1> QED
  BY <1>1, LookupInvariance, PTL

-----------------------------------------------------------------------------

-----------------------------------------------------------------------------
(***************************************************************************)
(* The inductive invariant.                                                *)
(***************************************************************************)
Keys == {DerivedKey(c, d) : c \in Nat, d \in Nat}
Signers == [credentials : Nat, key : Keys \cup {None}, keyDate : Nat \cup {None}]
LowLevels == [credentials : Nat, signer : Signers, body : Devices \cup {None}]
Asking == {"renew", "body", "sign", "sent"}
Steps == {"idle", "sdk", "lowlevel", "put"} \cup Asking
QueryErrors == {"nil", "not found", "bad response format", "timeout", "other"}
Queries == [pc : Steps, device : Devices \cup {None}, holds : QueryObjects \cup {None},
            result : Nat, error : QueryErrors]

QueryTypeOK ==
    /\ mode \in {"lowlevel", "sdk", "disabled"}
    /\ period \in Nat /\ day \in Nat
    /\ query \in [Lookups -> Queries]
    /\ object \in [QueryObjects -> LowLevels \cup {None}]
    /\ DOMAIN sent = Lookups

\* The key that a signer keeps is that of its credentials and of the key's day.
KeyFits(signer) ==
    signer.keyDate # None => signer.key = DerivedKey(signer.credentials, signer.keyDate)
Usable(o) == object[o] \in LowLevels /\ KeyFits(object[o].signer)
KeysFit == \A o \in QueryObjects : object[o] # None => Usable(o)

\* A query object belongs to one lookup, from Get() to Put().
Owned ==
    /\ \A l \in Lookups : query[l].pc \in Asking =>
          /\ query[l].holds \in QueryObjects
          /\ Usable(query[l].holds)
          /\ query[l].device \in Devices
    /\ \A l, k \in Lookups :
          query[l].pc \in Asking /\ query[k].pc \in Asking /\ query[l].holds = query[k].holds => l = k

\* The body in the object is that of the lookup, and so is what was sent.
Signed(l) ==
    /\ sent[l].body = query[l].device
    /\ sent[l].signature =
         Hmac(DerivedKey(sent[l].accessKey, sent[l].date),
              StringToSign(CanonicalString(query[l].device, sent[l].date, sent[l].accessKey),
                           sent[l].date))
OwnBody(l) ==
    /\ query[l].pc = "sign" => object[query[l].holds].body = query[l].device
    /\ query[l].pc = "sent" => Signed(l)
    /\ sent[l] # None => Signed(l) /\ query[l].pc \in {"sent", "put"}

\* The way a lookup asks is that of the configuration, and its answer is right.
Returned(n) == IF mode = "lowlevel" /\ n % 3 # 0 THEN n + 1 ELSE n
OwnResult(l) ==
    /\ query[l].pc = "sdk" => mode = "sdk" /\ query[l].device \in Devices
    /\ query[l].pc \in Asking \cup {"lowlevel"} => mode = "lowlevel" /\ query[l].device \in Devices
    /\ query[l].pc = "put" /\ query[l].error = "nil" /\ mode # "disabled" =>
         query[l].result = Returned(Rows[query[l].device])

QueryInv ==
    /\ QueryTypeOK
    /\ Owned
    /\ KeysFit
    /\ \A l \in Lookups : OwnBody(l) /\ OwnResult(l)

-----------------------------------------------------------------------------
(***************************************************************************)
(* Lemmas about the operators.                                             *)
(***************************************************************************)
\* The loop over the decoded buffer finds one ID too many exactly when the
\* encoding of n IDs is padded.
THEOREM DecodedIDsExact ==
    ASSUME NEW n \in Nat
    PROVE  DecodedIDs(n) = IF n % 3 # 0 THEN n + 1 ELSE n
<1>1. PICK k \in Nat, r \in 0..2 : n = 3 * k + r
  <2>1. n = 3 * (n \div 3) + (n % 3) /\ n \div 3 \in Nat /\ n % 3 \in 0..2
    OBVIOUS
  <2> QED
    BY <2>1
<1>2. n % 3 = r
  BY <1>1
<1>3. EncodedLen(n * IDLen) = ((48 * k + 16 * r + 2) \div 3) * 4
  BY <1>1 DEF EncodedLen, IDLen
<1>4. \A d \in Nat : DecodedLen(EncodedLen(n * IDLen)) = d => DecodedIDs(n) = (d + 15) \div 16
  BY DEF DecodedIDs, IDLen
<1>5. CASE r = 0
  <2>1. (48 * k + 16 * r + 2) \div 3 = 16 * k
    BY <1>5
  <2>2. DecodedLen(EncodedLen(n * IDLen)) = 48 * k
    BY <1>3, <2>1 DEF DecodedLen
  <2>3. (48 * k + 15) \div 16 = 3 * k
    OBVIOUS
  <2> QED
    BY <1>1, <1>2, <1>4, <1>5, <2>2, <2>3
<1>6. CASE r = 1
  <2>1. (48 * k + 16 * r + 2) \div 3 = 16 * k + 6
    BY <1>6
  <2>2. DecodedLen(EncodedLen(n * IDLen)) = 48 * k + 18
    BY <1>3, <2>1 DEF DecodedLen
  <2>3. (48 * k + 18 + 15) \div 16 = 3 * k + 2
    OBVIOUS
  <2> QED
    BY <1>1, <1>2, <1>4, <1>6, <2>2, <2>3
<1>7. CASE r = 2
  <2>1. (48 * k + 16 * r + 2) \div 3 = 16 * k + 11
    BY <1>7
  <2>2. DecodedLen(EncodedLen(n * IDLen)) = 48 * k + 33
    BY <1>3, <2>1 DEF DecodedLen
  <2>3. (48 * k + 33 + 15) \div 16 = 3 * k + 3
    OBVIOUS
  <2> QED
    BY <1>1, <1>2, <1>4, <1>7, <2>2, <2>3
<1> QED
  BY <1>1, <1>5, <1>6, <1>7

\* The key of the day is made whenever the day is another.
LEMMA KeyOfTheDayFits ==
    ASSUME NEW signer \in Signers, KeyFits(signer), day \in Nat
    PROVE  /\ KeyOfTheDay(signer) \in Signers
           /\ KeyFits(KeyOfTheDay(signer))
           /\ KeyOfTheDay(signer).key = DerivedKey(signer.credentials, day)
           /\ KeyOfTheDay(signer).credentials = signer.credentials
<1>1. DerivedKey(signer.credentials, day) \in Keys
  BY DEF Keys, Signers
<1>2. CASE day # signer.keyDate
  BY <1>1, <1>2 DEF KeyOfTheDay, KeyFits, Signers
<1>3. CASE day = signer.keyDate
  BY <1>3, QueryAssumption DEF KeyOfTheDay, KeyFits, Signers
<1> QED
  BY <1>2, <1>3

\* A new object has no key yet.
LEMMA NewFits ==
    ASSUME NEW c \in Nat
    PROVE  /\ NewLowLevel(c) \in LowLevels /\ KeyFits(NewLowLevel(c).signer)
           /\ NewSigner(c) \in Signers /\ KeyFits(NewSigner(c))
BY DEF NewLowLevel, NewSigner, LowLevels, Signers, KeyFits

-----------------------------------------------------------------------------
(***************************************************************************)
(* QueryInv is inductive: one step per action.                                  *)
(***************************************************************************)
LEMMA QueryInitInv == QueryInit => QueryInv
<1> SUFFICES ASSUME QueryInit PROVE QueryInv
  OBVIOUS
<1> USE DEF QueryInit, Quiet
<1>1. QueryTypeOK
  BY DEF QueryErrors, QueryTypeOK, Queries, Steps
<1>2. Owned /\ \A l \in Lookups : OwnBody(l) /\ OwnResult(l)
  BY DEF Owned, Asking, OwnBody, OwnResult
<1>3. KeysFit
  BY DEF KeysFit
<1> QED
  BY <1>1, <1>2, <1>3 DEF QueryInv

\* Get() goes on, or is left.
LEMMA GoesTo ==
    ASSUME QueryTypeOK, NEW l \in Lookups, NEW p \in Steps, Goes(l, p)
    PROVE  /\ query' \in [Lookups -> Queries]
           /\ query'[l].pc = p /\ query'[l].device = query[l].device /\ query'[l].holds = query[l].holds
           /\ query'[l].error = query[l].error /\ query'[l].result = query[l].result
           /\ \A k \in Lookups \ {l} : query'[k] = query[k]
BY DEF Goes, QueryTypeOK, Queries

LEMMA EndsWith ==
    ASSUME QueryTypeOK, NEW l \in Lookups, NEW n \in Nat,
           NEW e \in QueryErrors, Ends(l, e, n)
    PROVE  /\ query' \in [Lookups -> Queries]
           /\ query'[l].pc = "put" /\ query'[l].device = query[l].device /\ query'[l].holds = query[l].holds
           /\ query'[l].error = e /\ query'[l].result = n
           /\ \A k \in Lookups \ {l} : query'[k] = query[k]
<1>1. query[l] \in Queries
  BY DEF QueryTypeOK
<1>2. query' = [query EXCEPT ![l] = [query[l] EXCEPT !.pc = "put", !.error = e, !.result = n]]
  BY <1>1 DEF Ends, QueryTypeOK, Queries
<1> QED
  BY <1>1, <1>2 DEF QueryTypeOK, Queries, Steps

\* What a step changes in an object leaves a key that fits.
LEMMA ObjectStep ==
    ASSUME QueryTypeOK, KeysFit, NEW o \in QueryObjects, NEW x \in LowLevels, KeyFits(x.signer),
           object' = [object EXCEPT ![o] = x]
    PROVE  /\ object' \in [QueryObjects -> LowLevels \cup {None}]
           /\ KeysFit' /\ Usable(o)' /\ object'[o] = x
           /\ \A p \in QueryObjects \ {o} : object'[p] = object[p]
BY DEF QueryTypeOK, KeysFit, Usable

\* A step of one lookup that takes no object leaves the others as they are:
\* none has its object.
LEMMA LookupStep ==
    ASSUME QueryInv, NEW l \in Lookups, QueryTypeOK', KeysFit', mode' = mode,
           \A k \in Lookups \ {l} : query'[k] = query[k] /\ sent'[k] = sent[k],
           \A o \in QueryObjects : o # query[l].holds \/ query[l].pc \notin Asking => object'[o] = object[o],
           query'[l].pc \in Asking =>
              /\ query[l].pc \in Asking
              /\ query'[l].holds = query[l].holds /\ query'[l].device = query[l].device
              /\ Usable(query[l].holds)',
           OwnBody(l)', OwnResult(l)'
    PROVE  QueryInv'
<1>1. Owned /\ \A k \in Lookups : OwnBody(k) /\ OwnResult(k)
  BY DEF QueryInv
<1>2. \A k \in Lookups \ {l} : query[k].pc \in Asking => object'[query[k].holds] = object[query[k].holds]
  BY <1>1 DEF Owned
<1>3. Owned'
  BY <1>1, <1>2 DEF Owned, Usable
<1>4. \A k \in Lookups \ {l} : OwnBody(k)'
  BY <1>1, <1>2 DEF OwnBody, Signed, Asking
<1>5. \A k \in Lookups \ {l} : OwnResult(k)'
  BY <1>1 DEF OwnResult, Returned
<1> QED
  BY <1>3, <1>4, <1>5 DEF QueryInv

LEMMA QueryStepInv == QueryInv /\ [QueryNext]_queryVars => QueryInv'
<1> SUFFICES ASSUME QueryInv, [QueryNext]_queryVars PROVE QueryInv'
  OBVIOUS
<1>0. QueryTypeOK /\ Owned /\ KeysFit
  BY DEF QueryInv
<1>a. \A l \in Lookups : OwnBody(l) /\ OwnResult(l)
  BY DEF QueryInv
<1>1. CASE UNCHANGED queryVars \/ Midnight \/ CredentialsExpire
  <2>1. QueryTypeOK' /\ UNCHANGED <<mode, query, object, sent>>
    BY <1>0, <1>1, QueryAssumption DEF queryVars, Midnight, CredentialsExpire, QueryTypeOK
  <2>2. Owned' /\ KeysFit' /\ \A l \in Lookups : OwnBody(l)' /\ OwnResult(l)'
    BY <1>0, <1>a, <2>1 DEF Owned, KeysFit, Usable, OwnBody, Signed, OwnResult, Returned
  <2> QED
    BY <2>1, <2>2 DEF QueryInv
<1>2. ASSUME NEW l \in Lookups, Get(l) PROVE QueryInv'
  <2>1. PICK d \in Devices, p \in {"put", mode}, e \in {"nil", "not found"}, n \in Nat :
           /\ query' = [query EXCEPT ![l] = [pc |-> p, device |-> d, holds |-> None, result |-> n, error |-> e]]
           /\ p = mode => mode # "disabled"
           /\ p = "put" => e = "not found" \/ mode = "disabled"
    <3>1. PICK d \in Devices :
             LET lookedUp == [Quiet EXCEPT !.device = d]
             IN \/ /\ d = "zero"
                   /\ query' = [query EXCEPT ![l] = [lookedUp EXCEPT !.pc = "put", !.error = "not found"]]
                \/ /\ d # "zero" /\ mode = "disabled"
                   /\ \E n \in {0, 5} :
                        query' = [query EXCEPT ![l] = [lookedUp EXCEPT !.pc = "put", !.result = n]]
                \/ /\ d # "zero" /\ mode # "disabled"
                   /\ query' = [query EXCEPT ![l] = [lookedUp EXCEPT !.pc = mode]]
      BY <1>2 DEF Get
    <3> DEFINE Asked(p, e, n) == [pc |-> p, device |-> d, holds |-> None, result |-> n, error |-> e]
    <3> DEFINE lookedUp == [Quiet EXCEPT !.device = d]
    <3>a. /\ [lookedUp EXCEPT !.pc = "put", !.error = "not found"] = Asked("put", "not found", 0)
          /\ \A n : [lookedUp EXCEPT !.pc = "put", !.result = n] = Asked("put", "nil", n)
          /\ [lookedUp EXCEPT !.pc = mode] = Asked(mode, "nil", 0)
      <4>1. lookedUp = [pc |-> "idle", device |-> d, holds |-> None, result |-> 0, error |-> "nil"]
        BY DEF Quiet
      <4> HIDE DEF lookedUp
      <4>2. [lookedUp EXCEPT !.pc = "put", !.error = "not found"] = Asked("put", "not found", 0)
        <5>1. [lookedUp EXCEPT !.pc = "put"] = Asked("put", "nil", 0)
          BY <4>1
        <5>2. \A x : [Asked("put", "nil", 0) EXCEPT !.error = x] = Asked("put", x, 0)
          OBVIOUS
        <5> HIDE DEF Asked
        <5>3. [lookedUp EXCEPT !.pc = "put", !.error = "not found"] = [[lookedUp EXCEPT !.pc = "put"] EXCEPT !.error = "not found"]
          OBVIOUS
        <5> QED
          BY <5>1, <5>2, <5>3
      <4>3. \A n : [lookedUp EXCEPT !.pc = "put", !.result = n] = Asked("put", "nil", n)
        <5>1. [lookedUp EXCEPT !.pc = "put"] = Asked("put", "nil", 0)
          BY <4>1
        <5>2. \A n : [Asked("put", "nil", 0) EXCEPT !.result = n] = Asked("put", "nil", n)
          OBVIOUS
        <5> HIDE DEF Asked
        <5>3. \A n : [lookedUp EXCEPT !.pc = "put", !.result = n] = [[lookedUp EXCEPT !.pc = "put"] EXCEPT !.result = n]
          OBVIOUS
        <5> QED
          BY <5>1, <5>2, <5>3
      <4>4. [lookedUp EXCEPT !.pc = mode] = Asked(mode, "nil", 0)
        BY <4>1
      <4> QED
        BY <4>2, <4>3, <4>4
    <3>2. \/ query' = [query EXCEPT ![l] = Asked("put", "not found", 0)]
          \/ mode = "disabled" /\ \E n \in {0, 5} : query' = [query EXCEPT ![l] = Asked("put", "nil", n)]
          \/ mode # "disabled" /\ query' = [query EXCEPT ![l] = Asked(mode, "nil", 0)]
      <4> HIDE DEF Asked
      <4> QED
        BY <3>1, <3>a
    <3>3. mode # "put"
      BY <1>0 DEF QueryTypeOK
    <3> QED
      BY <3>2, <3>3
  <2>2. query[l].pc = "idle" /\ UNCHANGED <<mode, period, day, object, sent>>
    BY <1>2 DEF Get
  <2>3. QueryTypeOK'
    BY <1>0, <2>1, <2>2 DEF QueryErrors, QueryTypeOK, Queries, Steps
  <2>4. query'[l].pc = p /\ query'[l].device = d /\ query'[l].error = e /\ p \notin Asking
    BY <1>0, <2>1 DEF QueryTypeOK, Asking
  <2>5. KeysFit'
    BY <1>0, <2>2 DEF KeysFit, Usable
  <2>6. OwnBody(l)' /\ OwnResult(l)'
    BY <1>0, <1>a, <2>1, <2>2, <2>4 DEF OwnBody, OwnResult, QueryTypeOK, Asking
  <2> QED
    BY <1>0, <2>1, <2>2, <2>3, <2>4, <2>5, <2>6, LookupStep DEF QueryTypeOK
<1>3. ASSUME NEW l \in Lookups, AskSDK(l) PROVE QueryInv'
  <2>1. query[l].pc = "sdk" /\ UNCHANGED <<mode, period, day, object, sent>>
    BY <1>3 DEF AskSDK
  <2>2. PICK e \in QueryErrors, n \in Nat :
           /\ Ends(l, e, n)
           /\ e = "nil" => n = Rows[query[l].device]
    <3>1. \A d \in DOMAIN Rows : Rows[d] \in Nat
      BY QueryAssumption
    <3> QED
      BY <1>3, <3>1 DEF QueryErrors, AskSDK
  <2>3. /\ query' \in [Lookups -> Queries]
        /\ query'[l].pc = "put" /\ query'[l].device = query[l].device
        /\ query'[l].error = e /\ query'[l].result = n
        /\ \A k \in Lookups \ {l} : query'[k] = query[k]
    <3>1. /\ QueryTypeOK /\ Ends(l, e, n) /\ l \in Lookups /\ n \in Nat
          /\ e \in QueryErrors
      BY <1>0, <2>2
    <3> QED
      BY ONLY <3>1, EndsWith
  <2>4. QueryTypeOK' /\ KeysFit'
    BY <1>0, <2>1, <2>3 DEF QueryTypeOK, KeysFit, Usable
  <2>5. OwnBody(l)' /\ OwnResult(l)'
    BY <1>a, <2>1, <2>2, <2>3 DEF OwnBody, OwnResult, Returned, Asking
  <2> QED
    BY <2>1, <2>3, <2>4, <2>5, LookupStep DEF Asking
<1>4. ASSUME NEW l \in Lookups, GetObject(l) PROVE QueryInv'
  <2>1. query[l].pc = "lowlevel" /\ UNCHANGED <<mode, period, day, sent>>
    BY <1>4 DEF GetObject
  <2>2. PICK o \in QueryObjects \ Held : \E contents \in {object[o], None} :
       \/ /\ contents # None
          /\ query' = [query EXCEPT ![l].pc = "renew", ![l].holds = o]
          /\ UNCHANGED object
       \/ /\ contents = None
          /\ query' = [query EXCEPT ![l].pc = "renew", ![l].holds = o]
          /\ object' = [object EXCEPT ![o] = NewLowLevel(period)]
       \/ contents = None /\ Ends(l, "other", 0) /\ UNCHANGED object
    BY <1>4 DEF GetObject
  <2>3. CASE Ends(l, "other", 0) /\ UNCHANGED object
    <3>1. /\ query' \in [Lookups -> Queries]
          /\ query'[l].pc = "put" /\ query'[l].error = "other"
          /\ \A k \in Lookups \ {l} : query'[k] = query[k]
      BY <1>0, <2>3, EndsWith DEF QueryErrors
    <3>2. QueryTypeOK' /\ KeysFit'
      BY <1>0, <2>1, <2>3, <3>1 DEF QueryTypeOK, KeysFit, Usable
    <3>3. OwnBody(l)' /\ OwnResult(l)'
      BY <1>a, <2>1, <3>1 DEF OwnBody, OwnResult, Asking
    <3> QED
      BY <2>1, <2>3, <3>1, <3>2, <3>3, LookupStep DEF Asking
  <2>4. CASE /\ query' = [query EXCEPT ![l].pc = "renew", ![l].holds = o]
             /\ \/ object' = object /\ object[o] # None
                \/ object' = [object EXCEPT ![o] = NewLowLevel(period)]
    <3>1. /\ query' \in [Lookups -> Queries]
          /\ query'[l].pc = "renew" /\ query'[l].holds = o /\ query'[l].device = query[l].device
          /\ \A k \in Lookups \ {l} : query'[k] = query[k] /\ query[k].holds # o
      <4>1. query[l] \in Queries
        BY <1>0 DEF QueryTypeOK
      <4>2. query' = [query EXCEPT ![l] = [query[l] EXCEPT !.pc = "renew", !.holds = o]]
        BY <2>4, <4>1 DEF Queries
      <4> QED
        BY <1>0, <4>1, <4>2 DEF QueryTypeOK, Queries, Steps, Asking, Held
    <3>2. /\ object' \in [QueryObjects -> LowLevels \cup {None}]
          /\ KeysFit' /\ Usable(o)'
          /\ \A p \in QueryObjects \ {o} : object'[p] = object[p]
      <4>1. CASE object' = object /\ object[o] # None
        BY <1>0, <4>1 DEF QueryTypeOK, KeysFit, Usable
      <4>2. CASE object' = [object EXCEPT ![o] = NewLowLevel(period)]
        BY <1>0, <4>2, NewFits, ObjectStep DEF QueryTypeOK
      <4> QED
        BY <2>4, <4>1, <4>2
    <3>3. query[l].device \in Devices /\ mode = "lowlevel"
      BY <1>a, <2>1 DEF OwnResult
    <3>4. Owned'
      BY <1>0, <3>1, <3>2, <3>3 DEF Owned, Usable
    <3>5. OwnBody(l)' /\ OwnResult(l)'
      BY <1>a, <2>1, <3>1, <3>3 DEF OwnBody, OwnResult, Asking
    <3>6. \A k \in Lookups \ {l} : OwnBody(k)' /\ OwnResult(k)'
      <4> SUFFICES ASSUME NEW k \in Lookups \ {l} PROVE OwnBody(k)' /\ OwnResult(k)'
        OBVIOUS
      <4>1. query[k].pc = "sign" => object'[query[k].holds] = object[query[k].holds]
        BY <1>0, <3>1, <3>2 DEF Owned, Asking
      <4> QED
        BY <1>a, <2>1, <3>1, <4>1 DEF OwnBody, Signed, OwnResult, Returned
    <3> QED
      BY <1>0, <2>1, <3>1, <3>2, <3>4, <3>5, <3>6 DEF QueryInv, QueryTypeOK
  <2> QED
    BY <2>2, <2>3, <2>4
<1>5. ASSUME NEW l \in Lookups, RenewCredentials(l) PROVE QueryInv'
  <2>0. PICK o : o = query[l].holds
    OBVIOUS
  <2>1. query[l].pc = "renew" /\ UNCHANGED <<mode, period, day, sent>>
    BY <1>5 DEF RenewCredentials
  <2>2. o \in QueryObjects /\ Usable(o) /\ query[l].device \in Devices /\ mode = "lowlevel"
    BY <1>0, <1>a, <2>0, <2>1 DEF Owned, OwnResult, Asking
  <2>3. /\ object' \in [QueryObjects -> LowLevels \cup {None}]
        /\ KeysFit' /\ Usable(o)'
        /\ \A p \in QueryObjects \ {o} : object'[p] = object[p]
    <3>1. period \in Nat /\ NoCredentials \in Nat
      BY <1>0 DEF QueryTypeOK, NoCredentials
    <3>2. CASE object' = [object EXCEPT ![o].credentials = period, ![o].signer = NewSigner(period)]
      <4>1. [object[o] EXCEPT !.credentials = period, !.signer = NewSigner(period)] \in LowLevels
            /\ KeyFits([object[o] EXCEPT !.credentials = period, !.signer = NewSigner(period)].signer)
        BY <2>2, <3>1, NewFits DEF Usable, LowLevels
      <4>2. object' = [object EXCEPT ![o] = [object[o] EXCEPT !.credentials = period, !.signer = NewSigner(period)]]
        BY <1>0, <2>2, <3>2 DEF QueryTypeOK, Usable, LowLevels
      <4> QED
        BY <1>0, <2>2, <4>1, <4>2, ObjectStep
    <3>3. CASE object' = [object EXCEPT ![o].credentials = NoCredentials]
      <4>1. [object[o] EXCEPT !.credentials = NoCredentials] \in LowLevels
            /\ KeyFits([object[o] EXCEPT !.credentials = NoCredentials].signer)
        BY <2>2, <3>1 DEF Usable, LowLevels
      <4> QED
        BY <1>0, <2>2, <3>3, <4>1, ObjectStep
    <3>4. CASE object' = object
      BY <1>0, <2>2, <3>4 DEF QueryTypeOK, KeysFit, Usable
    <3> QED
      BY <1>5, <2>0, <3>2, <3>3, <3>4 DEF RenewCredentials
  <2>4. /\ query' \in [Lookups -> Queries]
        /\ query'[l].pc = "body" \/ (query'[l].pc = "put" /\ query'[l].error = "other")
        /\ query'[l].holds = o /\ query'[l].device = query[l].device
        /\ \A k \in Lookups \ {l} : query'[k] = query[k]
    <3>1. CASE Goes(l, "body")
      BY <1>0, <2>0, <3>1, GoesTo DEF Steps, Asking
    <3>2. CASE Ends(l, "other", 0)
      BY <1>0, <2>0, <3>2, EndsWith DEF QueryErrors
    <3> QED
      BY <1>5, <3>1, <3>2 DEF RenewCredentials
  <2>5. QueryTypeOK'
    BY <1>0, <2>1, <2>3, <2>4 DEF QueryTypeOK
  <2>6. OwnBody(l)' /\ OwnResult(l)'
    BY <1>a, <2>0, <2>1, <2>2, <2>4 DEF OwnBody, OwnResult, Asking
  <2> QED
    BY <2>0, <2>1, <2>3, <2>4, <2>5, <2>6, LookupStep DEF Asking
<1>6. ASSUME NEW l \in Lookups, BuildBody(l) PROVE QueryInv'
  <2>0. PICK o : o = query[l].holds
    OBVIOUS
  <2>1. query[l].pc = "body" /\ Goes(l, "sign") /\ UNCHANGED <<mode, period, day, sent>>
    BY <1>6 DEF BuildBody
  <2>2. o \in QueryObjects /\ Usable(o) /\ query[l].device \in Devices /\ mode = "lowlevel"
    BY <1>0, <1>a, <2>0, <2>1 DEF Owned, OwnResult, Asking
  <2>3. /\ object' \in [QueryObjects -> LowLevels \cup {None}]
        /\ KeysFit' /\ Usable(o)' /\ object'[o].body = query[l].device
        /\ \A p \in QueryObjects \ {o} : object'[p] = object[p]
    <3> DEFINE x == [object[o] EXCEPT !.body = query[l].device]
    <3>1. x \in LowLevels /\ KeyFits(x.signer) /\ x.body = query[l].device
      BY <2>2 DEF Usable, LowLevels
    <3>2. object' = [object EXCEPT ![o] = x]
      BY <1>6, <2>0 DEF BuildBody
    <3> HIDE DEF x
    <3> QED
      BY <1>0, <2>2, <3>1, <3>2, ObjectStep
  <2>4. /\ query' \in [Lookups -> Queries]
        /\ query'[l].pc = "sign" /\ query'[l].holds = o /\ query'[l].device = query[l].device
        /\ \A k \in Lookups \ {l} : query'[k] = query[k]
    BY <1>0, <2>0, <2>1, GoesTo DEF Steps, Asking
  <2>5. QueryTypeOK'
    BY <1>0, <2>1, <2>3, <2>4 DEF QueryTypeOK
  <2>6. OwnBody(l)' /\ OwnResult(l)'
    BY <1>a, <2>0, <2>1, <2>2, <2>3, <2>4 DEF OwnBody, OwnResult, Asking
  <2> QED
    BY <2>0, <2>1, <2>3, <2>4, <2>5, <2>6, LookupStep DEF Asking
<1>7. ASSUME NEW l \in Lookups, SignAndSend(l) PROVE QueryInv'
  <2>0. PICK o : o = query[l].holds
    OBVIOUS
  <2>s. PICK signer : signer = KeyOfTheDay(object[o].signer)
    OBVIOUS
  <2>1. query[l].pc = "sign" /\ Goes(l, "sent") /\ UNCHANGED <<mode, period, day>>
    BY <1>7 DEF SignAndSend
  <2>2. o \in QueryObjects /\ Usable(o) /\ query[l].device \in Devices /\ mode = "lowlevel"
        /\ object[o].body = query[l].device
    BY <1>0, <1>a, <2>0, <2>1 DEF Owned, OwnResult, OwnBody, Asking
  <2>3. /\ signer \in Signers /\ KeyFits(signer)
        /\ signer.key = DerivedKey(signer.credentials, day)
    BY <1>0, <2>2, <2>s, KeyOfTheDayFits DEF Usable, LowLevels, QueryTypeOK
  <2>4. /\ object' \in [QueryObjects -> LowLevels \cup {None}]
        /\ KeysFit' /\ Usable(o)'
        /\ \A p \in QueryObjects \ {o} : object'[p] = object[p]
    <3>1. object' = [object EXCEPT ![o] = [object[o] EXCEPT !.signer = signer]]
      BY <1>7, <2>0, <2>s DEF SignAndSend
    <3>2. [object[o] EXCEPT !.signer = signer] \in LowLevels
          /\ KeyFits([object[o] EXCEPT !.signer = signer].signer)
      BY <2>2, <2>3 DEF Usable, LowLevels
    <3> QED
      BY <1>0, <2>2, <3>1, <3>2, ObjectStep
  <2>5. /\ query' \in [Lookups -> Queries]
        /\ query'[l].pc = "sent" /\ query'[l].holds = o /\ query'[l].device = query[l].device
        /\ \A k \in Lookups \ {l} : query'[k] = query[k]
    BY <1>0, <2>0, <2>1, GoesTo DEF Steps, Asking
  <2>6. /\ DOMAIN sent' = Lookups
        /\ \A k \in Lookups \ {l} : sent'[k] = sent[k]
        /\ sent'[l] = [body |-> object[o].body, date |-> day, accessKey |-> signer.credentials,
                       token |-> signer.credentials,
                       signature |-> Hmac(signer.key,
                          StringToSign(CanonicalString(object[o].body, day, signer.credentials), day))]
    BY <1>0, <1>7, <2>0, <2>s DEF SignAndSend, QueryTypeOK
  <2>7. Signed(l)'
    BY <2>2, <2>3, <2>5, <2>6 DEF Signed
  <2>8. QueryTypeOK'
    BY <1>0, <2>1, <2>4, <2>5, <2>6 DEF QueryTypeOK
  <2>9. OwnBody(l)' /\ OwnResult(l)'
    BY <1>a, <2>0, <2>1, <2>2, <2>5, <2>7 DEF OwnBody, OwnResult, Asking
  <2> QED
    BY <2>0, <2>1, <2>4, <2>5, <2>6, <2>8, <2>9, LookupStep DEF Asking
<1>8. ASSUME NEW l \in Lookups, Answer(l) PROVE QueryInv'
  <2>1. query[l].pc = "sent" /\ UNCHANGED <<mode, period, day, object, sent>>
    BY <1>8 DEF Answer
  <2>2. Signed(l) /\ mode = "lowlevel"
    BY <1>a, <2>1 DEF OwnBody, OwnResult, Asking
  <2>3. PICK e \in QueryErrors, n \in Nat :
           /\ Ends(l, e, n)
           /\ e = "nil" => n = Returned(Rows[query[l].device])
    <3>1. \A d \in DOMAIN Rows : Rows[d] \in Nat /\ DecodedIDs(Rows[d]) = Returned(Rows[d])
                                 /\ DecodedIDs(Rows[d]) \in Nat
      BY <2>2, QueryAssumption, DecodedIDsExact DEF Returned
    <3>2. sent[l].body = query[l].device
      BY <2>2 DEF Signed
    <3> QED
      BY <1>8, <3>1, <3>2 DEF QueryErrors, Answer
  <2>4. /\ query' \in [Lookups -> Queries]
        /\ query'[l].pc = "put" /\ query'[l].device = query[l].device
        /\ query'[l].error = e /\ query'[l].result = n
        /\ \A k \in Lookups \ {l} : query'[k] = query[k]
    <3>1. /\ QueryTypeOK /\ Ends(l, e, n) /\ l \in Lookups /\ n \in Nat
          /\ e \in QueryErrors
      BY <1>0, <2>3
    <3> QED
      BY ONLY <3>1, EndsWith
  <2>5. QueryTypeOK' /\ KeysFit'
    BY <1>0, <2>1, <2>4 DEF QueryTypeOK, KeysFit, Usable
  <2>6. OwnBody(l)' /\ OwnResult(l)'
    BY <1>a, <2>1, <2>2, <2>3, <2>4 DEF OwnBody, Signed, OwnResult, Returned, Asking
  <2> QED
    BY <2>1, <2>4, <2>5, <2>6, LookupStep DEF Asking
<1>9. ASSUME NEW l \in Lookups, Put(l) PROVE QueryInv'
  <2>1. query[l].pc = "put" /\ UNCHANGED <<mode, period, day, object>>
    BY <1>9 DEF Put
  <2>2. Quiet \in Queries /\ Quiet.pc = "idle"
    BY DEF QueryErrors, Quiet, Queries, Steps
  <2>3. /\ query' \in [Lookups -> Queries] /\ query'[l].pc = "idle"
        /\ DOMAIN sent' = Lookups /\ sent'[l] = None
        /\ \A k \in Lookups \ {l} : query'[k] = query[k] /\ sent'[k] = sent[k]
    BY <1>0, <1>9, <2>2 DEF Put, QueryTypeOK
  <2>4. QueryTypeOK' /\ KeysFit'
    BY <1>0, <2>1, <2>3 DEF QueryTypeOK, KeysFit, Usable
  <2>5. OwnBody(l)' /\ OwnResult(l)'
    BY <2>3 DEF OwnBody, OwnResult, Asking
  <2> QED
    BY <2>1, <2>3, <2>4, <2>5, LookupStep DEF Asking
<1> QED
  BY <1>1, <1>2, <1>3, <1>4, <1>5, <1>6, <1>7, <1>8, <1>9 DEF QueryNext

\* The invariant holds of every behaviour of the lookups.
THEOREM QueryInvariant == QueryInit /\ [][QueryNext]_queryVars => []QueryInv
<1> QED
  BY QueryInitInv, QueryStepInv, PTL

-----------------------------------------------------------------------------
(***************************************************************************)
(* What the invariant implies.                                             *)
(***************************************************************************)
\* Every request is signed for its own device with a key that belongs to its
\* date and its credentials, whatever its object was used for before.
THEOREM SignaturesHold == QueryInit /\ [][QueryNext]_queryVars => []SignatureHolds
<1>1. QueryInv => SignatureHolds
  BY DEF QueryInv, OwnBody, Signed, SignatureHolds
<1> QED
  BY <1>1, QueryInvariant, PTL

\* A lookup that succeeds returns the audiences of its device, with one ID more
\* when the low-level query decodes a padded text: for every table.
THEOREM AudiencesAreKept == QueryInit /\ [][QueryNext]_queryVars => []AudiencesKept
<1>1. QueryInv => AudiencesKept
  BY DEF QueryInv, OwnResult, Returned, AudiencesKept
<1> QED
  BY <1>1, QueryInvariant, PTL
=============================================================================
