---------------------------- MODULE CanaryDeploy ----------------------------
(***************************************************************************)
(* scripts/deployment/deploy_candidate_to_canary.py: loads the source      *)
(* version of an approved request on the canary server.  The metadata read *)
(* before the reload only feeds the audit event, so it is not a step.      *)
(***************************************************************************)
EXTENDS Deployment

CanaryDeployableStatuses ==
    {"not_started", "promoted", "canary_reloading", "canary_ready"}

\* Mutant: the approval of the request is not checked.
CanaryDeployableUnapproved(r) ==
    /\ request[r] # None
    /\ status[r] \in CanaryDeployableStatuses

\* Mutant: the status of the request is not checked.
CanaryDeployableAnyStatus(r) ==
    /\ request[r] # None
    /\ request[r].approved

\* validate_deployment_request
CanaryDeployable(r) ==
    /\ request[r] # None
    /\ request[r].approved
    /\ status[r] \notin TerminalStatuses
    /\ status[r] \in CanaryDeployableStatuses

DeploySource == request[arg["deploy"]].source

DeployStart(r) ==
    /\ CanaryDeployable(r)
    /\ Start("deploy", r, "read_row")
    /\ UNCHANGED <<runtime, inbox, champion, candidate, percent, store, faults>>

\* get_runtime_deployment_state: the row that tells which request is being
\* replaced.
DeployReadRow ==
    /\ pc["deploy"] = "read_row"
    /\ pc' = [pc EXCEPT !["deploy"] = "mark_reloading"]
    /\ row' = [row EXCEPT !["deploy"] = state["canary"]]
    /\ UNCHANGED <<runtime, inbox, champion, candidate, percent, store, arg, obs,
                   prev, faults>>

DeployMarkReloading ==
    /\ pc["deploy"] = "mark_reloading"
    /\ Mark("deploy", "canary_reloading")
    /\ Done("deploy", "post")

\* The canary reload names no expected current version.
DeployPost == PostReload("deploy", "canary", DeploySource, None)

DeployVerify == Verify("deploy", "canary", DeploySource)

DeployRecordEvent ==
    /\ RecordEvent("deploy", "canary", DeploySource)
    /\ Done("deploy", "mark_done")

DeployMarkReady ==
    /\ pc["deploy"] = "mark_done"
    /\ Mark("deploy", "canary_ready")
    /\ Done("deploy", "upsert")

DeployRow ==
    [activeReq |-> arg["deploy"], active |-> DeploySource,
     prevReq |-> ActiveRequest(row["deploy"], prev["deploy"]),
     prev |-> prev["deploy"], lastOp |-> "canary_reload"]

DeployUpsert ==
    /\ Upsert("deploy", "canary", DeployRow)
    /\ Completed("deploy")

\* Mutant: the except block raises without marking the request.
DeployFailedUnmarked ==
    /\ pc["deploy"] = "failing"
    /\ Exit("deploy")
    /\ UNCHANGED <<runtime, inbox, champion, candidate, percent, store, faults>>

\* The except block: the request becomes failed and the script raises.
DeployFailed ==
    /\ pc["deploy"] = "failing"
    /\ Mark("deploy", "failed")
    /\ Completed("deploy")

DeployStep ==
    \/ DeployReadRow
    \/ DeployMarkReloading
    \/ DeployPost
    \/ DeployVerify
    \/ DeployRecordEvent
    \/ DeployMarkReady
    \/ DeployUpsert
    \/ DeployFailed
=============================================================================
