---------------------------- MODULE BudgetLedger -----------------------------
(***************************************************************************)
(* What the bidder promises about campaign budgets, without auctions,      *)
(* reservations or refresh goroutines: a sequence of published budget      *)
(* tables that never change once published, and sales, each of which is    *)
(* charged to one published table and fits into what is left of it.        *)
(*                                                                         *)
(* This is the abstract specification of the exported operations of        *)
(* cache/budget.go as auction/auction.go uses them.                        *)
(***************************************************************************)
EXTENDS Integers, FiniteSets

CONSTANTS Campaigns, Buyers, CPM, Tables

VARIABLES
    current,    \* the table published last
    budget,     \* [Tables -> [Campaigns -> Int]]
    sold        \* [Tables -> [Campaigns -> SUBSET Buyers]]

ledgerVars == <<current, budget, sold>>

LedgerInit ==
    /\ current \in Tables
    /\ budget \in [Tables -> [Campaigns -> Int]]
    /\ sold = [t \in Tables |-> [c \in Campaigns |-> {}]]

\* A sale is atomic: it happens only if the budget has room for one more CPM.
Sell(b, t, c) ==
    /\ t <= current
    /\ \A u \in Tables, d \in Campaigns : b \notin sold[u][d]
    /\ CPM[c] * (Cardinality(sold[t][c]) + 1) <= budget[t][c]
    /\ sold' = [sold EXCEPT ![t][c] = @ \cup {b}]
    /\ UNCHANGED <<current, budget>>

\* Tables are prepared and published in order; published ones are fixed.
Refresh ==
    /\ current' \in Tables
    /\ current' >= current
    /\ \A t \in Tables : t <= current => budget'[t] = budget[t]
    /\ UNCHANGED sold

LedgerNext ==
    \/ \E b \in Buyers, t \in Tables, c \in Campaigns : Sell(b, t, c)
    \/ Refresh

LedgerSpec == LedgerInit /\ [][LedgerNext]_ledgerVars
=============================================================================
