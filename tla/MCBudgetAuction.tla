--------------------------- MODULE MCBudgetAuction ---------------------------
(* Small instances of BudgetAuction.  The campaigns are one expensive       *)
(* campaign, two cheap ones of the same price, and one with a negative      *)
(* price (IsValid() lets it in); targeting lists differ in order, so that   *)
(* two auctions can reserve the same campaigns crosswise.                   *)
EXTENDS BudgetAuction

CONSTANTS high, low, twin, minus

MCPrice == [c \in Campaigns |-> CASE c = high -> 2 [] c = minus -> -1 [] OTHER -> 1]

MCTargetings == {<<high, low>>, <<low>>}
CrossTargetings == {<<high, low>>, <<low, high>>}
TieMinus == {<<low, twin>>, <<minus, low>>}

MCMaxStates == 1 + MaxTicks + Cardinality(Callers)
=============================================================================
