-------------------------- MODULE ReleasePromotion --------------------------
(***************************************************************************)
(* scripts/deployment/promote_candidate_to_release.py: loads the source    *)
(* version of a canary-ready request on the release server, then moves the *)
(* champion alias to it, clears the candidate alias, takes the canary out  *)
(* of the traffic and records the deployment.                              *)
(***************************************************************************)
EXTENDS Deployment

\* Mutant: a request whose canary reload has not ended may be promoted.
ReleasePromotableEarly == {"canary_reloading", "canary_ready", "release_reloading"}

ReleasePromotableStatuses == {"canary_ready", "release_reloading"}

\* validate_deployment_request
ReleasePromotable(r) ==
    /\ request[r] # None
    /\ request[r].approved
    /\ status[r] \in ReleasePromotableStatuses

PromoteRequest == request[arg["promote"]]

PromoteStart(r) ==
    /\ ReleasePromotable(r)
    /\ Start("promote", r, "observe")
    /\ UNCHANGED <<runtime, inbox, champion, candidate, percent, store, faults>>

\* try_get_metadata: an unreadable server is not an error here.
PromoteObserve ==
    /\ pc["promote"] = "observe"
    /\ pc' = [pc EXCEPT !["promote"] = "read_row"]
    /\ \/ /\ Readable("release")
          /\ obs' = [obs EXCEPT !["promote"] = runtime["release"]]
          /\ UNCHANGED faults
       \/ Unreadable("release") /\ UNCHANGED obs
    /\ UNCHANGED <<runtime, inbox, champion, candidate, percent, store, arg, row, prev>>

PromoteReadRow ==
    /\ pc["promote"] = "read_row"
    /\ pc' = [pc EXCEPT !["promote"] = "mark_reloading"]
    /\ row' = [row EXCEPT !["promote"] = state["release"]]
    /\ UNCHANGED <<runtime, inbox, champion, candidate, percent, store, arg, obs,
                   prev, faults>>

\* validate_release_precondition: the release serves the version the candidate
\* was compared with, or the candidate itself; not checked without metadata.
LineageHolds ==
    obs["promote"] \in {None, PromoteRequest.source, PromoteRequest.previous}

PromoteMarkReloading ==
    /\ pc["promote"] = "mark_reloading"
    /\ LineageHolds
    /\ Mark("promote", "release_reloading")
    /\ Done("promote", "post")

PromoteRefused ==
    /\ pc["promote"] = "mark_reloading"
    /\ ~LineageHolds
    /\ Goto("promote", "failing")
    /\ UNCHANGED <<runtime, inbox, champion, candidate, percent, store, faults>>

\* Mutant: the reload does not name the version it expects to replace.
PromotePostUnconditional ==
    PostReload("promote", "release", PromoteRequest.source, None)

\* build_reload_payload: the server must still run what was observed.
PromotePost ==
    PostReload("promote", "release", PromoteRequest.source, obs["promote"])

\* Mutant: champion moves before the reload is recorded.
PromoteVerifyUnrecorded ==
    /\ pc["promote"] = "verify"
    /\ Readable("release")
    /\ runtime["release"] = PromoteRequest.source
    /\ Goto("promote", "set_alias")
    /\ UNCHANGED <<runtime, inbox, champion, candidate, percent, store, faults>>

PromoteVerify == Verify("promote", "release", PromoteRequest.source)

PromoteRecordEvent ==
    /\ RecordEvent("promote", "release", PromoteRequest.source)
    /\ Done("promote", "set_alias")

\* Mutant: a registry error is swallowed and the promotion goes on.
PromoteSetChampionBestEffort ==
    /\ pc["promote"] = "set_alias"
    /\ \/ champion' = PromoteRequest.source /\ UNCHANGED faults
       \/ Spend("call") /\ UNCHANGED champion
    /\ Goto("promote", "get_candidate")
    /\ UNCHANGED <<runtime, inbox, candidate, percent, store>>

PromoteSetChampion ==
    /\ SetChampion("promote", PromoteRequest.source)
    /\ Done("promote", "get_candidate")

\* clear_source_alias_if_current: the alias is looked up, and deleted by a
\* second call if it was the source version.  --keep-source-alias skips both.
PromoteGetCandidate ==
    /\ pc["promote"] = "get_candidate"
    /\ \/ Goto("promote", "traffic")
       \/ /\ PromoteRequest.alias
          /\ candidate = PromoteRequest.source
          /\ Goto("promote", "delete_candidate")
    /\ UNCHANGED <<runtime, inbox, champion, candidate, percent, store, faults>>

PromoteDeleteCandidate ==
    /\ pc["promote"] = "delete_candidate"
    /\ candidate' = None
    /\ UNCHANGED <<runtime, inbox, champion, percent, store>>
    /\ Done("promote", "traffic")

PromoteResetTraffic ==
    /\ ResetTraffic("promote")
    /\ Done("promote", "mark_done")

\* --skip-canary-traffic-reset
PromoteSkipTraffic ==
    /\ pc["promote"] = "traffic"
    /\ Goto("promote", "mark_done")
    /\ UNCHANGED <<runtime, inbox, champion, candidate, percent, store, faults>>

PromoteMarkDeployed ==
    /\ pc["promote"] = "mark_done"
    /\ Mark("promote", "deployed")
    /\ Done("promote", "upsert")

PromoteRow ==
    [activeReq |-> arg["promote"], active |-> PromoteRequest.source,
     prevReq |-> ActiveRequest(row["promote"], prev["promote"]),
     prev |-> prev["promote"], lastOp |-> "promote"]

PromoteUpsert ==
    /\ Upsert("promote", "release", PromoteRow)
    /\ Completed("promote")

\* The except block, whatever the try block has already changed.
PromoteFailed ==
    /\ pc["promote"] = "failing"
    /\ Mark("promote", "failed")
    /\ Completed("promote")

PromoteStep ==
    \/ PromoteObserve
    \/ PromoteReadRow
    \/ PromoteMarkReloading
    \/ PromoteRefused
    \/ PromotePost
    \/ PromoteVerify
    \/ PromoteRecordEvent
    \/ PromoteSetChampion
    \/ PromoteGetCandidate
    \/ PromoteDeleteCandidate
    \/ PromoteResetTraffic
    \/ PromoteSkipTraffic
    \/ PromoteMarkDeployed
    \/ PromoteUpsert
    \/ PromoteFailed
=============================================================================
