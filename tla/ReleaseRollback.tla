--------------------------- MODULE ReleaseRollback --------------------------
(***************************************************************************)
(* scripts/deployment/rollback_release_deployment.py: takes the release    *)
(* server back to the version that the runtime state row names as the      *)
(* previous one.  The script reads the row once, at the beginning, and     *)
(* writes it swapped at the end.                                           *)
(***************************************************************************)
EXTENDS Deployment

RollbackRow == row["rollback_release"]

\* validate_runtime_state_for_rollback: rollback is one-step only, and there
\* must be a previous version.  resolve_deployment_request: the row must name
\* the active request.
RollbackReady(known) ==
    /\ known # None
    /\ known.lastOp # "rollback"
    /\ known.prev # None
    /\ known.activeReq # None

RollbackStart ==
    /\ RollbackReady(state["release"])
    /\ MayStart("rollback_release")
    /\ pc' = [pc EXCEPT !["rollback_release"] = "check_request"]
    /\ row' = [row EXCEPT !["rollback_release"] = state["release"]]
    /\ arg' = [arg EXCEPT !["rollback_release"] = state["release"].activeReq]
    /\ UNCHANGED <<runtime, inbox, champion, candidate, percent, store, obs, prev,
                   faults>>

\* validate_deployment_request: the active request is deployed and is the one
\* that brought the active version.
RollbackEligible(r) ==
    /\ request[r].approved
    /\ status[r] = "deployed"
    /\ request[r].source = RollbackRow.active

RollbackCheckRequest ==
    /\ pc["rollback_release"] = "check_request"
    /\ IF RollbackEligible(arg["rollback_release"])
       THEN Goto("rollback_release", "check_alias")
       ELSE Exit("rollback_release")
    /\ UNCHANGED <<runtime, inbox, champion, candidate, percent, store, faults>>

\* validate_alias_precondition
RollbackCheckAlias ==
    /\ pc["rollback_release"] = "check_alias"
    /\ IF champion \in {RollbackRow.active, RollbackRow.prev}
       THEN Goto("rollback_release", "traffic")
       ELSE Exit("rollback_release")
    /\ UNCHANGED <<runtime, inbox, champion, candidate, percent, store, faults>>

RollbackResetTraffic ==
    /\ ResetTraffic("rollback_release")
    /\ Done("rollback_release", "observe")

\* --skip-canary-traffic-reset
RollbackSkipTraffic ==
    /\ pc["rollback_release"] = "traffic"
    /\ Goto("rollback_release", "observe")
    /\ UNCHANGED <<runtime, inbox, champion, candidate, percent, store, faults>>

\* get_json and validate_release_precondition: here the server must answer, and
\* serve the active or the previous version of the row.
RollbackObserve ==
    /\ pc["rollback_release"] = "observe"
    /\ \/ /\ Readable("release")
          /\ runtime["release"] \in {RollbackRow.active, RollbackRow.prev}
          /\ pc' = [pc EXCEPT !["rollback_release"] = "post"]
          /\ obs' = [obs EXCEPT !["rollback_release"] = runtime["release"]]
          /\ UNCHANGED <<arg, row, prev, faults>>
       \/ /\ Readable("release")
          /\ runtime["release"] \notin {RollbackRow.active, RollbackRow.prev}
          /\ Exit("rollback_release")
          /\ UNCHANGED faults
       \/ Unreadable("release") /\ Exit("rollback_release")
    /\ UNCHANGED <<runtime, inbox, champion, candidate, percent, store>>

RollbackPost ==
    PostReload("rollback_release", "release", RollbackRow.prev,
               obs["rollback_release"])

RollbackVerify == Verify("rollback_release", "release", RollbackRow.prev)

RollbackRecordEvent ==
    /\ RecordEvent("rollback_release", "release", RollbackRow.prev)
    /\ Done("rollback_release", "set_alias")

RollbackSetChampion ==
    /\ SetChampion("rollback_release", RollbackRow.prev)
    /\ Done("rollback_release", "mark_done")

RollbackMark ==
    /\ pc["rollback_release"] = "mark_done"
    /\ Mark("rollback_release", "rolled_back")
    /\ Done("rollback_release", "upsert")

SwappedRow ==
    [activeReq |-> RollbackRow.prevReq, active |-> RollbackRow.prev,
     prevReq |-> arg["rollback_release"], prev |-> RollbackRow.active,
     lastOp |-> "rollback"]

RollbackUpsert ==
    /\ Upsert("rollback_release", "release", SwappedRow)
    /\ Completed("rollback_release")

RollbackStep ==
    \/ RollbackCheckRequest
    \/ RollbackCheckAlias
    \/ RollbackResetTraffic
    \/ RollbackSkipTraffic
    \/ RollbackObserve
    \/ RollbackPost
    \/ RollbackVerify
    \/ RollbackRecordEvent
    \/ RollbackSetChampion
    \/ RollbackMark
    \/ RollbackUpsert
=============================================================================
