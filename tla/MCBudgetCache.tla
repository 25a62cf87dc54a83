---------------------------- MODULE MCBudgetCache ----------------------------
(* A small instance of BudgetCache: two callers and a tick, a campaign      *)
(* with a budget record, one without, and a record of an unknown campaign.  *)
EXTENDS BudgetCache

CONSTANTS c1, c2, unknown

MCCampaigns == {c1, c2}
MCRecords   == {c1, unknown}
MCAmounts   == {1}

\* Every tick and every call may start a refresh, so no CAS is cut off.
MCMaxStates == 1 + MaxTicks + Cardinality(Callers)
=============================================================================
