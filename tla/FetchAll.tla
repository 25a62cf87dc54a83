------------------------------ MODULE FetchAll -------------------------------
(***************************************************************************)
(* What the caches take a scan of a database table to be                   *)
(* (api.BudgetRepository.FetchAll, api.CampaignRepository.Scan,            *)
(* api.AudienceRepository.Scan): the consumer gets the items of the table  *)
(* in any order, each at most once, and when the call returns without an   *)
(* error it got them all.  Whatever happens after an error, nothing is     *)
(* delivered once the call has returned.                                   *)
(***************************************************************************)
EXTENDS Naturals

CONSTANT Items

VARIABLES
    delivered,   \* [Items -> Nat]: how often the consumer got the item
    outcome      \* "running", "ok", "failed"

fetchVars == <<delivered, outcome>>

FetchInit ==
    /\ delivered = [i \in Items |-> 0]
    /\ outcome = "running"

Deliver(i) ==
    /\ outcome = "running"
    /\ delivered[i] = 0
    /\ delivered' = [delivered EXCEPT ![i] = 1]
    /\ UNCHANGED outcome

Succeed ==
    /\ outcome = "running"
    /\ \A i \in Items : delivered[i] = 1
    /\ outcome' = "ok"
    /\ UNCHANGED delivered

Fail ==
    /\ outcome = "running"
    /\ outcome' = "failed"
    /\ UNCHANGED delivered

FetchNext == (\E i \in Items : Deliver(i)) \/ Succeed \/ Fail

FetchSpec == FetchInit /\ [][FetchNext]_fetchVars
=============================================================================
