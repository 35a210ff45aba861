--------------------------- MODULE CanaryRollback ---------------------------
(***************************************************************************)
(* scripts/deployment/rollback_candidate_canary.py: takes the canary out   *)
(* of the traffic, loads the previous version on it when asked to, and     *)
(* marks the request rolled back.  It leaves the runtime state rows alone. *)
(***************************************************************************)
EXTENDS Deployment

RollbackEligibleStatuses ==
    {"promoted", "canary_reloading", "canary_ready", "release_reloading", "failed"}

\* validate_deployment_request
CanaryRollbackEligible(r) ==
    /\ request[r] # None
    /\ request[r].approved
    /\ status[r] \in RollbackEligibleStatuses

CanaryPrevious == request[arg["rollback_canary"]].previous

WithdrawStart(r) ==
    /\ CanaryRollbackEligible(r)
    /\ Start("rollback_canary", r, "traffic")
    /\ UNCHANGED <<runtime, inbox, champion, candidate, percent, store, faults>>

\* Mutant: an error of the gateway is swallowed.
WithdrawTrafficBestEffort ==
    /\ pc["rollback_canary"] = "traffic"
    /\ \/ percent' = 0 /\ UNCHANGED faults
       \/ Spend("call") /\ UNCHANGED percent
    /\ Goto("rollback_canary", "mark_done")
    /\ UNCHANGED <<runtime, inbox, champion, candidate, store>>

\* set_canary_traffic_zero; --reload-canary-to-previous decides what follows.
WithdrawTraffic ==
    /\ ResetTraffic("rollback_canary")
    /\ Done("rollback_canary", "post") \/ Done("rollback_canary", "mark_done")

WithdrawPost == PostReload("rollback_canary", "canary", CanaryPrevious, None)

WithdrawVerify == Verify("rollback_canary", "canary", CanaryPrevious)

WithdrawRecordEvent ==
    /\ RecordEvent("rollback_canary", "canary", CanaryPrevious)
    /\ Done("rollback_canary", "mark_done")

WithdrawMark ==
    /\ pc["rollback_canary"] = "mark_done"
    /\ Mark("rollback_canary", "rolled_back")
    /\ Completed("rollback_canary")

WithdrawStep ==
    \/ WithdrawTraffic
    \/ WithdrawPost
    \/ WithdrawVerify
    \/ WithdrawRecordEvent
    \/ WithdrawMark
=============================================================================
