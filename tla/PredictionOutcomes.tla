-------------------------- MODULE PredictionOutcomes -------------------------
(***************************************************************************)
(* What the predictor promises for each invocation, with no queue, no      *)
(* batch and no task: it is decided once, and an event exists only for a   *)
(* prediction that was made.                                               *)
(***************************************************************************)
CONSTANT Items

VARIABLES
    outcome,  \* [Items -> {"none", "open", "predicted", "failed"}]
    events    \* the predictions recorded for monitoring

Init ==
    /\ outcome = [i \in Items |-> "none"]
    /\ events = {}

\* An invocation may be rejected at once.
Moves == { <<"none", "open">>, <<"none", "failed">>,
           <<"open", "predicted">>, <<"open", "failed">> }

Next ==
    /\ outcome' \in [Items -> {"none", "open", "predicted", "failed"}]
    /\ \A i \in Items : outcome'[i] # outcome[i] => <<outcome[i], outcome'[i]>> \in Moves
    /\ events \subseteq events'
    /\ \A i \in events' \ events : outcome[i] = "open" /\ outcome'[i] = "predicted"

Spec == Init /\ [][Next]_<<outcome, events>>
=============================================================================
