---------------------------- MODULE BudgetAuction ----------------------------
(***************************************************************************)
(* Concurrent auctions over the budget cache: auction/auction.go on top of *)
(* cache/budget.go, inside the life of the bid server (app/app.go,         *)
(* app/shutdown.go, app/services.go).                                      *)
(*                                                                         *)
(* One auction is one bid request.  It takes a snapshot of the budget      *)
(* table, reserves the CPM of every targeted campaign, picks a winner      *)
(* among the most expensive campaigns whose reservation succeeded, and     *)
(* frees what it reserved for the others, failed reservations included.    *)
(* Every Reserve() and Free() is one atomic operation, so auctions and the *)
(* refresh of the cache interleave between any two of them.                *)
(***************************************************************************)
EXTENDS BudgetCache, Sequences

CONSTANTS
    CPM,          \* [Campaigns -> Int \ {0}]: Campaign.MaxCPM
    Targetings,   \* possible results of getAudienceCampaigns()
    NoCampaign    \* "no winner": winningCampaignID = -1

\* Campaign.IsValid() accepts any non-zero CPM; the lookup table of
\* getAudienceCampaigns() never lets a campaign in twice.
ASSUME AuctionAssumption ==
    /\ CPM \in [Campaigns -> Int \ {0}]
    /\ Targetings \subseteq Seq(Campaigns)
    /\ \A s \in Targetings : \A i, j \in DOMAIN s : s[i] = s[j] => i = j
    /\ NoCampaign \notin Campaigns

Auctions == Callers

VARIABLES
    pc,          \* [Auctions -> ...]: control state of the request's goroutine
    indices,     \* [Auctions -> Seq(Campaigns)]: campaignIndices
    pos,         \* [Auctions -> Nat]: loop index over campaignIndices
    snap,        \* [Auctions -> Gens]: budgets, the table taken as snapshot
    granted,     \* [Auctions -> SUBSET Campaigns]: Reserve() returned true
    winningCPM,  \* [Auctions -> Int]
    winning,     \* [Auctions -> SUBSET Campaigns]: winningAuctions
    winner,      \* [Auctions -> Campaigns \cup {NoCampaign}]: winningCampaignID
    result,      \* [Auctions -> ...]: what Run() returns
    server       \* the bid server: "serving", "draining" in Shutdown(), "down"

auctionVars == <<pc, indices, pos, snap, granted, winningCPM, winning, winner, result>>
vars == <<cacheVars, auctionVars, server>>

AuctionStates == {"idle", "device", "snapshot", "reserve", "free", "asyncUpdate", "done"}
Results == {"none", "bid", "noBid", "timeout", "error"}

Active(a) == pc[a] \notin {"idle", "done"}

-----------------------------------------------------------------------------
Init ==
    /\ CacheInit
    /\ pc = [a \in Auctions |-> "idle"]
    /\ indices = [a \in Auctions |-> <<>>]
    /\ pos = [a \in Auctions |-> 1]
    /\ snap = [a \in Auctions |-> 1]
    /\ granted = [a \in Auctions |-> {}]
    /\ winningCPM = [a \in Auctions |-> 0]
    /\ winning = [a \in Auctions |-> {}]
    /\ winner = [a \in Auctions |-> NoCampaign]
    /\ result = [a \in Auctions |-> "none"]
    /\ server = "serving"

-----------------------------------------------------------------------------
(***************************************************************************)
(* The steps of one auction.                                               *)
(***************************************************************************)

\* The request is read; connections that are still open may send requests
\* while the server drains.
Begin(a) ==
    /\ pc[a] = "idle"
    /\ server \in {"serving", "draining"}
    /\ pc' = [pc EXCEPT ![a] = "device"]
    /\ UNCHANGED <<cacheVars, indices, pos, snap, granted, winningCPM, winning,
                   winner, result, server>>

\* getDevice() fails: unknown device, deadline passed, or any other error.
\* The same answer as for an unknown device when no campaign is targeted.
EndEarly(a, r) ==
    /\ pc[a] = "device"
    /\ r \in {"noBid", "timeout", "error"}
    /\ pc' = [pc EXCEPT ![a] = "done"]
    /\ result' = [result EXCEPT ![a] = r]
    /\ UNCHANGED <<cacheVars, indices, pos, snap, granted, winningCPM, winning,
                   winner, server>>

\* getDevice() and getAudienceCampaigns() find at least one campaign.
FindCampaigns(a, s) ==
    /\ pc[a] = "device"
    /\ s # <<>>
    /\ indices' = [indices EXCEPT ![a] = s]
    /\ pc' = [pc EXCEPT ![a] = "snapshot"]
    /\ UNCHANGED <<cacheVars, pos, snap, granted, winningCPM, winning, winner,
                   result, server>>

\* GetCurrentState(), under the read lock.
TakeSnapshot(a) ==
    /\ pc[a] = "snapshot"
    /\ snap' = [snap EXCEPT ![a] = state]
    /\ pc' = [pc EXCEPT ![a] = "reserve"]
    /\ UNCHANGED <<cacheVars, indices, pos, granted, winningCPM, winning, winner,
                   result, server>>

\* Mutant: a campaign whose reservation failed stays a candidate.
ReserveNextUnchecked(a) ==
    /\ pc[a] = "reserve"
    /\ pos[a] <= Len(indices[a])
    /\ LET c == indices[a][pos[a]]
           v == CPM[c]
           best == IF v > winningCPM[a] THEN v ELSE winningCPM[a]
           kept == IF v > winningCPM[a] THEN {} ELSE winning[a]
       IN /\ Reserve(snap[a], c, v)
          /\ granted' = [granted EXCEPT ![a] =
                            IF Reserved(snap[a], c, v) THEN @ \cup {c} ELSE @]
          /\ winningCPM' = [winningCPM EXCEPT ![a] = best]
          /\ winning' = [winning EXCEPT ![a] = IF v = best THEN kept \cup {c} ELSE kept]
    /\ pos' = [pos EXCEPT ![a] = @ + 1]
    /\ UNCHANGED <<state, states, scanned, loaded, taskVars, tick, ticks, call,
                   stopper, pc, indices, snap, winner, result, server>>

\* One round of the first loop of chooseCampaign().
ReserveNext(a) ==
    /\ pc[a] = "reserve"
    /\ pos[a] <= Len(indices[a])
    /\ LET c == indices[a][pos[a]]
           v == CPM[c]
           best == IF v > winningCPM[a] THEN v ELSE winningCPM[a]
           kept == IF v > winningCPM[a] THEN {} ELSE winning[a]
       IN /\ Reserve(snap[a], c, v)
          /\ IF Reserved(snap[a], c, v)
             THEN /\ granted' = [granted EXCEPT ![a] = @ \cup {c}]
                  /\ winningCPM' = [winningCPM EXCEPT ![a] = best]
                  /\ winning' = [winning EXCEPT ![a] =
                                    IF v = best THEN kept \cup {c} ELSE kept]
             ELSE UNCHANGED <<granted, winningCPM, winning>>
    /\ pos' = [pos EXCEPT ![a] = @ + 1]
    /\ UNCHANGED <<state, states, scanned, loaded, taskVars, tick, ticks, call,
                   stopper, pc, indices, snap, winner, result, server>>

\* A random campaign among the winning ones, if there is any.
PickWinner(a) ==
    /\ pc[a] = "reserve"
    /\ pos[a] > Len(indices[a])
    /\ \E w \in (IF winning[a] = {} THEN {NoCampaign} ELSE winning[a]) :
          winner' = [winner EXCEPT ![a] = w]
    /\ pc' = [pc EXCEPT ![a] = "free"]
    /\ pos' = [pos EXCEPT ![a] = 1]
    /\ UNCHANGED <<cacheVars, indices, snap, granted, winningCPM, winning, result,
                   server>>

\* Mutant: only successful reservations are freed.
FreeNextGranted(a) ==
    /\ pc[a] = "free"
    /\ pos[a] <= Len(indices[a])
    /\ LET c == indices[a][pos[a]]
       IN IF c # winner[a] /\ c \in granted[a]
          THEN Free(snap[a], c, CPM[c])
          ELSE UNCHANGED available
    /\ pos' = [pos EXCEPT ![a] = @ + 1]
    /\ UNCHANGED <<state, states, scanned, loaded, taskVars, tick, ticks, call,
                   stopper, pc, indices, snap, granted, winningCPM, winning, winner,
                   result, server>>

\* Mutant: the winner is freed, too.
FreeNextAll(a) ==
    /\ pc[a] = "free"
    /\ pos[a] <= Len(indices[a])
    /\ Free(snap[a], indices[a][pos[a]], CPM[indices[a][pos[a]]])
    /\ pos' = [pos EXCEPT ![a] = @ + 1]
    /\ UNCHANGED <<state, states, scanned, loaded, taskVars, tick, ticks, call,
                   stopper, pc, indices, snap, granted, winningCPM, winning, winner,
                   result, server>>

\* One round of the second loop of chooseCampaign().
FreeNext(a) ==
    /\ pc[a] = "free"
    /\ pos[a] <= Len(indices[a])
    /\ LET c == indices[a][pos[a]]
       IN IF c # winner[a]
          THEN Free(snap[a], c, CPM[c])
          ELSE UNCHANGED available
    /\ pos' = [pos EXCEPT ![a] = @ + 1]
    /\ UNCHANGED <<state, states, scanned, loaded, taskVars, tick, ticks, call,
                   stopper, pc, indices, snap, granted, winningCPM, winning, winner,
                   result, server>>

Bid(a) ==
    /\ pc[a] = "free"
    /\ pos[a] > Len(indices[a])
    /\ winner[a] # NoCampaign
    /\ pc' = [pc EXCEPT ![a] = "done"]
    /\ result' = [result EXCEPT ![a] = "bid"]
    /\ UNCHANGED <<cacheVars, indices, pos, snap, granted, winningCPM, winning,
                   winner, server>>

\* No campaign won: ask for fresh budgets before answering "no bid".
RequestUpdate(a) ==
    /\ pc[a] = "free"
    /\ pos[a] > Len(indices[a])
    /\ winner[a] = NoCampaign
    /\ pc' = [pc EXCEPT ![a] = "asyncUpdate"]
    /\ AsyncUpdate(a)
    /\ UNCHANGED <<indices, pos, snap, granted, winningCPM, winning, winner, result,
                   server>>

\* The updater takes the request; AsyncUpdate() returns to the auction.
UpdateRequested(a) ==
    /\ ReceiveRequest(a)
    /\ pc' = [pc EXCEPT ![a] = "done"]
    /\ result' = [result EXCEPT ![a] = "noBid"]
    /\ UNCHANGED <<indices, pos, snap, granted, winningCPM, winning, winner, server>>

\* What a request's goroutine does without waiting for the updater.
AuctionStep(a) ==
    \/ \E r \in Results : EndEarly(a, r)
    \/ \E s \in Targetings : FindCampaigns(a, s)
    \/ TakeSnapshot(a)
    \/ ReserveNext(a)
    \/ PickWinner(a)
    \/ FreeNext(a)
    \/ Bid(a)
    \/ RequestUpdate(a)

-----------------------------------------------------------------------------
(***************************************************************************)
(* The life of the bid server.  Shutdown() returns when every connection   *)
(* has ended (external: fasthttp); only then does App() return and its     *)
(* deferred services.close() stop the cache.                               *)
(***************************************************************************)
Interrupt ==
    /\ server = "serving"
    /\ server' = "draining"
    /\ UNCHANGED <<cacheVars, auctionVars>>

\* Mutant: the services are closed without waiting for open connections.
ShutdownAtOnce ==
    /\ server = "draining"
    /\ server' = "down"
    /\ UNCHANGED <<cacheVars, auctionVars>>

ShutdownReturns ==
    /\ server = "draining"
    /\ \A a \in Auctions : ~Active(a)
    /\ server' = "down"
    /\ UNCHANGED <<cacheVars, auctionVars>>

CloseServices ==
    /\ server = "down"
    /\ StopTicker
    /\ UNCHANGED <<auctionVars, server>>

-----------------------------------------------------------------------------
CacheInternal ==
    /\ \/ Tick
       \/ Updater
       \/ \E g \in Gens : Refresh(g)
       \/ Stopper
    /\ UNCHANGED <<auctionVars, server>>

\* The process has exited: not a deadlock.
Ended ==
    /\ stopper = "stopped"
    /\ UNCHANGED vars

Next ==
    \/ \E a \in Auctions : Begin(a) \/ AuctionStep(a) \/ UpdateRequested(a)
    \/ CacheInternal
    \/ Interrupt
    \/ ShutdownReturns
    \/ CloseServices
    \/ Ended

(***************************************************************************)
(* Requests and the interrupt need not come.  A request that has begun is  *)
(* run by its goroutine; the device query it waits for has a deadline.     *)
(* The cache's fairness is that of BudgetCache.                            *)
(***************************************************************************)
Fairness ==
    /\ \A a \in Auctions : WF_vars(AuctionStep(a))
    /\ \A a \in Auctions : SF_vars(UpdateRequested(a))
    /\ WF_vars(Updater /\ UNCHANGED <<auctionVars, server>>)
    /\ \A g \in Gens : WF_vars(Refresh(g) /\ UNCHANGED <<auctionVars, server>>)
    /\ SF_vars(ReceiveStop /\ UNCHANGED <<auctionVars, server>>)
    /\ WF_vars((WaitTasks \/ CloseChannel) /\ UNCHANGED <<auctionVars, server>>)
    /\ WF_vars(ShutdownReturns)
    /\ WF_vars(CloseServices)

Safe == Init /\ [][Next]_vars
Spec == Safe /\ Fairness

-----------------------------------------------------------------------------
(***************************************************************************)
(* What the counters stand for.                                            *)
(***************************************************************************)

\* The campaigns whose CPM auction a has subtracted and not added back.
Held(a) ==
    {c \in Campaigns :
        \/ winner[a] = c
        \/ pc[a] = "reserve" /\ \E i \in 1..(pos[a] - 1) : indices[a][i] = c
        \/ pc[a] = "free" /\ \E i \in pos[a]..Len(indices[a]) : indices[a][i] = c}

Holding(g, c) == {a \in Auctions : snap[a] = g /\ c \in Held(a)}

\* The auctions charged to campaign c in table g.
Sold(g, c) == {a \in Auctions : snap[a] = g /\ winner[a] = c}

TypeOK ==
    /\ CacheTypeOK
    /\ pc \in [Auctions -> AuctionStates]
    /\ indices \in [Auctions -> Targetings \cup {<<>>}]
    /\ pos \in [Auctions -> Nat \ {0}]
    /\ snap \in [Auctions -> Gens]
    /\ granted \in [Auctions -> SUBSET Campaigns]
    /\ winningCPM \in [Auctions -> Int]
    /\ winning \in [Auctions -> SUBSET Campaigns]
    /\ winner \in [Auctions -> Campaigns \cup {NoCampaign}]
    /\ result \in [Auctions -> Results]
    /\ server \in {"serving", "draining", "down"}

(***************************************************************************)
(* The counters are exact at every moment: a counter is the amount loaded  *)
(* by the scan minus one CPM for every auction that holds the campaign in  *)
(* that table.  Nothing is leaked or freed twice by chooseCampaign(), not  *)
(* even when a refresh swaps the table in the middle of an auction, and    *)
(* when no auction is running only the winners are charged.                *)
(***************************************************************************)
BudgetExact ==
    \A g \in Gens, c \in Campaigns :
        available[g][c] = loaded[g][c] - CPM[c] * Cardinality(Holding(g, c))

(***************************************************************************)
(* No campaign is sold beyond the budget loaded for it, however the        *)
(* Reserve() and Free() calls of concurrent auctions interleave.           *)
(***************************************************************************)
NoOverspend ==
    \A g \in Gens, c \in Campaigns :
        Sold(g, c) # {} => CPM[c] * Cardinality(Sold(g, c)) <= loaded[g][c]

(***************************************************************************)
(* chooseCampaign() returns a campaign of the highest positive CPM among   *)
(* those whose reservation succeeded, and none only if there is none.      *)
(***************************************************************************)
BestGrantedWins ==
    \A a \in Auctions : pc[a] \in {"free", "asyncUpdate"} \/ result[a] = "bid" =>
        IF winner[a] = NoCampaign
        THEN \A c \in granted[a] : CPM[c] < 0
        ELSE /\ winner[a] \in granted[a]
             /\ CPM[winner[a]] > 0
             /\ \A c \in granted[a] : CPM[c] <= CPM[winner[a]]

(***************************************************************************)
(* auction.go:95 logs "all campaigns targeting device ran out of budget"   *)
(* and metrics/cache_refresh.go:16 counts "no-bid caused by not sufficient *)
(* budget of campaigns" when an auction has no winner: none of the         *)
(* campaigns it considered could afford one more sale.  A campaign that    *)
(* another auction has reserved and may still choose counts as spent, so   *)
(* the winners are counted when no auction over that table has its choice  *)
(* before it.                                                              *)
(***************************************************************************)
Choosing(g) == {a \in Auctions : snap[a] = g /\ pc[a] = "reserve"}

NoBidMeansSpent ==
    \A a \in Auctions : pc[a] = "asyncUpdate" /\ Choosing(snap[a]) = {} =>
        \A i \in DOMAIN indices[a] :
            LET c == indices[a][i]
            IN CPM[c] > 0 =>
                 CPM[c] * (Cardinality(Sold(snap[a], c)) + 1) > loaded[snap[a]][c]

(***************************************************************************)
(* Every request that has begun is answered: not even an auction that      *)
(* waits for the updater to take its refresh request stays stuck.  After   *)
(* an interrupt the server drains, the cache stops, and the process can    *)
(* exit, whatever auctions and refreshes were running.                     *)
(***************************************************************************)
AuctionsEnd ==
    /\ \A a \in Auctions : (pc[a] = "device") ~> (pc[a] = "done")
    /\ (server = "draining") ~> (stopper = "stopped")

-----------------------------------------------------------------------------
(***************************************************************************)
(* The auctions implement the ledger.  An auction sells when it picks its  *)
(* winner: from then on the winner's reservation is final.                 *)
(***************************************************************************)
Ledger == INSTANCE BudgetLedger WITH
    Buyers <- Auctions, Tables <- Gens, current <- state, budget <- loaded,
    sold <- [g \in Gens |-> [c \in Campaigns |-> Sold(g, c)]]

LedgerSpec == Ledger!LedgerSpec

(***************************************************************************)
(* The auctions keep what BudgetCache asks of its users: seen without the  *)
(* reservations, every step is a step of the cache on its own.  In         *)
(* particular nobody calls AsyncUpdate() once stop() has been called.      *)
(***************************************************************************)
CacheAlone == INSTANCE BudgetCache WITH available <- loaded

CacheContract ==
    CacheAlone!CacheInit /\ [][CacheAlone!CacheNext]_(CacheAlone!cacheVars)
=============================================================================
