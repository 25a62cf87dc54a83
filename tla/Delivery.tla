------------------------------ MODULE Delivery -------------------------------
(***************************************************************************)
(* What the Kinesis producer promises to those that Put() messages and to  *)
(* the one that calls Close(), without channels, batches, workers and      *)
(* buffers: a message that was accepted is, once, either delivered or      *)
(* given up, and Close() returns only when this is decided for all.        *)
(***************************************************************************)
CONSTANT Messages

VARIABLES
    outcome,   \* [Messages -> "open", "accepted", "rejected", "delivered", "lost"]
    closed     \* has Close() returned?

deliveryVars == <<outcome, closed>>

DeliveryInit ==
    /\ outcome = [m \in Messages |-> "open"]
    /\ closed = FALSE

Decide(m, answer) ==
    /\ ~closed
    /\ outcome[m] = "open"
    /\ answer \in {"accepted", "rejected"}
    /\ outcome' = [outcome EXCEPT ![m] = answer]
    /\ UNCHANGED closed

\* The messages of an entry, of a request or of a batch share their fate.
Settle(M, fate) ==
    /\ ~closed
    /\ \A m \in M : outcome[m] = "accepted"
    /\ fate \in {"delivered", "lost"}
    /\ outcome' = [m \in Messages |-> IF m \in M THEN fate ELSE outcome[m]]
    /\ UNCHANGED closed

Close ==
    /\ \A m \in Messages : outcome[m] # "accepted"
    /\ closed' = TRUE
    /\ UNCHANGED outcome

DeliveryNext ==
    \/ \E m \in Messages, answer \in {"accepted", "rejected"} : Decide(m, answer)
    \/ \E M \in SUBSET Messages, fate \in {"delivered", "lost"} : Settle(M, fate)
    \/ Close

DeliverySpec == DeliveryInit /\ [][DeliveryNext]_deliveryVars
=============================================================================
