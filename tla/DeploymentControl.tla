-------------------------- MODULE DeploymentControl -------------------------
(***************************************************************************)
(* The deployment control plane as a whole: the four scripts, the model    *)
(* servers, the operator and the faults, and what they promise together.   *)
(***************************************************************************)
EXTENDS ModelServer, CanaryDeploy, ReleasePromotion,
        ReleaseRollback, CanaryRollback

(***************************************************************************)
(* The operations that no script of the deployment control plane waits     *)
(* for: a training run registers a candidate, an operator records a        *)
(* deployment request for an evaluated candidate, an operator sets the     *)
(* canary share of the traffic.  Each is one step here; the calls of the   *)
(* request's script, and how it finds its evaluation, are in ServingGate.  *)
(***************************************************************************)

\* register_candidate: a new version is registered and becomes the candidate.
RegisterCandidate(v) ==
    /\ v \in Trainable
    /\ candidate # v
    /\ candidate' = v
    /\ UNCHANGED <<runtime, inbox, champion, percent, store, pc, locals, faults>>

\* Mutant: the request names the candidate alias as the version to go back to.
RecordRequestOnCandidate(r, v, approved) ==
    /\ request[r] = None
    /\ v # champion
    /\ request' = [request EXCEPT ![r] =
                     [source |-> v, previous |-> candidate,
                      alias |-> (candidate = v), approved |-> approved]]
    /\ UNCHANGED <<runtime, inbox, champion, candidate, percent, status, state,
                   events, pc, locals, faults>>

\* record_serving_candidate_deployment_request: the evaluation passed, it is the
\* candidate's latest, and the champion is still the one it was compared with.
\* The alias is recorded only when candidate still points to the version.
RecordRequest(r, v, approved) ==
    /\ request[r] = None
    /\ v # champion
    /\ request' = [request EXCEPT ![r] =
                     [source |-> v, previous |-> champion,
                      alias |-> (candidate = v), approved |-> approved]]
    /\ UNCHANGED <<runtime, inbox, champion, candidate, percent, status, state,
                   events, pc, locals, faults>>

\* set_model_gateway_canary_traffic
SetTraffic(p) ==
    /\ MayRun
    /\ percent # p
    /\ percent' = p
    /\ UNCHANGED <<runtime, inbox, champion, candidate, store, pc, locals, faults>>
-----------------------------------------------------------------------------
(* The composition                                                         *)

Operator ==
    \/ \E v \in Versions : RegisterCandidate(v)
    \/ \E r \in Requests, v \in Versions, a \in BOOLEAN : RecordRequest(r, v, a)
    \/ \E p \in Percents : SetTraffic(p)
    \/ \E r \in Requests : DeployStart(r)
    \/ \E r \in Requests : PromoteStart(r)
    \/ RollbackStart
    \/ \E r \in Requests : WithdrawStart(r)

Script == DeployStep \/ PromoteStep \/ RollbackStep \/ WithdrawStep

Server ==
    \/ \E s \in Slots : Reload(s)
    \/ \E s \in Slots : RefuseReload(s)
    \/ \E s \in Slots : ReloadFails(s)

Fault ==
    \/ \E o \in Ops : CallFails(o)
    \/ \E o \in Ops : Crash(o)
    \/ \E o \in Ops : Timeout(o)
    \/ \E s \in Slots : Restart(s)

Next == Operator \/ Script \/ Server \/ Fault

Spec == Init /\ [][Next]_vars

\* A script that was started runs until it ends, and a model server answers the
\* requests it has received; nothing makes an operator act or a fault happen.
Fairness ==
    /\ WF_vars(DeployStep)
    /\ WF_vars(PromoteStep)
    /\ WF_vars(RollbackStep)
    /\ WF_vars(WithdrawStep)
    /\ WF_vars(Server)

FairSpec == Spec /\ Fairness
-----------------------------------------------------------------------------
(* Type invariant                                                          *)

TypeOK ==
    /\ runtime \in [Slots -> Versions]
    /\ inbox \in [Slots -> Seq(Message)]
    /\ champion \in Versions
    /\ candidate \in Versions \cup {None}
    /\ percent \in Nat
    /\ request \in [Requests -> RequestRow \cup {None}]
    /\ status \in [Requests -> Statuses]
    /\ state \in [Slots -> StateRow \cup {None}]
    /\ events \subseteq Event
    /\ pc \in [Ops -> Labels]
    /\ arg \in [Ops -> Requests \cup {None}]
    /\ obs \in [Ops -> Versions \cup {None}]
    /\ row \in [Ops -> StateRow \cup {None}]
    /\ prev \in [Ops -> Versions \cup {None}]
    /\ faults \in Nat
-----------------------------------------------------------------------------
(* Safety                                                                  *)

ApprovedVersions ==
    {InitialVersion} \cup
    {v \in Versions : \E r \in Requests : /\ request[r] # None
                                        /\ request[r].approved
                                        /\ request[r].source = v}

\* The versions that a script has seen served by a slot.
SeenOn(slot) ==
    {InitialVersion} \cup
    {v \in Versions : \E r \in Requests :
                        [req |-> r, slot |-> slot, version |-> v] \in events}

\* No server ever loads, and champion never names, a version that no approved
\* request asked for: restarts, rollbacks, late reloads and re-runs included.
OnlyApprovedServed ==
    /\ \A s \in Slots : runtime[s] \in ApprovedVersions
    /\ champion \in ApprovedVersions

\* A request is only ever deployed after a verified reload of its version on the
\* canary and one on the release (the rows of model_runtime_reload_events).
DeployedHasEvidence ==
    \A r \in Requests : status[r] = "deployed" =>
        \A s \in Slots :
            [req |-> r, slot |-> s, version |-> request[r].source] \in events

\* When a promotion or a release rollback completes, the row it leaves, the
\* version the release serves and champion agree, whatever failed, timed out or
\* was killed before it (scripts run one after the other).
CompletionConsistent ==
    [][ state'["release"] # state["release"] =>
          /\ state'["release"].active = runtime'["release"]
          /\ state'["release"].active = champion' ]_vars

\* A rolled back request stays rolled back (scripts run one after the other).
RolledBackIsFinal ==
    [][ \A r \in Requests :
          status[r] = "rolled_back" => status'[r] = "rolled_back" ]_vars

\* A promotion that could read the server's metadata replaces only the version
\* its candidate was compared with (or the candidate itself), whatever the
\* other scripts did to the release since the metadata was read.
EvaluatedLineage ==
    [][ /\ pc["promote"] = "await" /\ pc'["promote"] = "verify"
        /\ obs["promote"] # None
        => runtime["release"] \in {PromoteRequest.source, PromoteRequest.previous} ]_vars

\* The request was recorded and approved.
Known(r) == r \in Requests /\ request[r] # None /\ request[r].approved

\* A script has verified a reload of the request's version on the slot.
Evidence(r, slot) ==
    [req |-> r, slot |-> slot, version |-> request[r].source] \in events

StagesNested ==
    /\ SeenOn("canary") \subseteq ApprovedVersions
    /\ SeenOn("release") \subseteq SeenOn("canary")
    /\ champion \in SeenOn("release")
    /\ runtime["release"] \in SeenOn("canary")
    /\ runtime["canary"] \in ApprovedVersions

RequestsSound ==
    \A r \in Requests :
        /\ request[r] = None => status[r] = "not_started"
        /\ request[r] # None => request[r].previous \in SeenOn("release")
        /\ status[r] \in {"canary_ready", "release_reloading", "deployed"} =>
              Evidence(r, "canary")
        /\ status[r] = "deployed" => Evidence(r, "release")

\* The scripts that reload a slot.
Reloaders(slot) == IF slot = "release" THEN {"promote", "rollback_release"}
                                       ELSE {"deploy", "rollback_canary"}

\* What a server may be asked to load, by whom, and that a script waits for one
\* answer at most.
InboxSound ==
    \A s \in Slots : \A i \in DOMAIN inbox[s] :
        LET m == inbox[s][i]
        IN /\ m.op \in Reloaders(s)
           /\ m.version \in IF s = "release" THEN SeenOn("canary") ELSE ApprovedVersions
           /\ m.live => pc[m.op] = "await"
           /\ m.live => \A j \in DOMAIN inbox[s] :
                           inbox[s][j].op = m.op /\ inbox[s][j].live => i = j

\* A runtime state row of the release slot leads back only to vetted versions.
RowSound(r) ==
    r # None => /\ r.active \in SeenOn("canary")
                /\ r.prev \in SeenOn("canary") \cup {None}
                /\ r.activeReq # None => Known(r.activeReq)
                /\ r.prevReq # None => Known(r.prevReq)

DeploySound ==
    pc["deploy"] # "idle" =>
        /\ Known(arg["deploy"])
        /\ pc["deploy"] \in {"mark_done", "upsert"} => Evidence(arg["deploy"], "canary")

PromoteSound ==
    pc["promote"] # "idle" =>
        /\ Known(arg["promote"])
        /\ Evidence(arg["promote"], "canary")
        /\ RowSound(row["promote"])
        /\ prev["promote"] \in SeenOn("canary") \cup {None}
        /\ pc["promote"] \in {"set_alias", "get_candidate", "delete_candidate",
                              "traffic", "mark_done", "upsert"} =>
              Evidence(arg["promote"], "release")

RollbackSound ==
    pc["rollback_release"] # "idle" =>
        /\ Known(arg["rollback_release"])
        /\ RollbackRow # None
        /\ RowSound(RollbackRow)
        /\ RollbackRow.prev # None
        /\ pc["rollback_release"] \in {"set_alias", "mark_done", "upsert"} =>
              RollbackRow.prev \in SeenOn("release")

WithdrawSound ==
    pc["rollback_canary"] # "idle" => Known(arg["rollback_canary"])

\* The inductive invariant behind the staged rollout: the evidence that every
\* script carries from one call to the next, whatever runs between the calls.
RolloutInv ==
    /\ StagesNested
    /\ RequestsSound
    /\ InboxSound
    /\ RowSound(state["release"])
    /\ DeploySound
    /\ PromoteSound
    /\ RollbackSound
    /\ WithdrawSound

\* The control plane implements the staged rollout: approval before the canary,
\* a verified canary reload before the release, a verified release reload before
\* champion, with every script, re-run, rollback, restart and fault.
Rollout == INSTANCE StagedRollout WITH
    serving <- runtime,
    approved <- ApprovedVersions,
    vetted <- SeenOn("canary"),
    proven <- SeenOn("release")

StagedRolloutSpec == Rollout!Spec
\* When a canary rollback completes, the canary gets no traffic (scripts run one
\* after the other).
WithdrawnTakesNoTraffic ==
    [][ /\ pc["rollback_canary"] = "mark_done"
        /\ status[arg["rollback_canary"]] # "rolled_back"
        /\ status'[arg["rollback_canary"]] = "rolled_back"
        => percent = 0 ]_vars
-----------------------------------------------------------------------------
(* What the documentation says and the code does not keep                  *)

\* container/README.md:897, rollback moves champion "back to a known previous model
\* version": a release rollback that completes has replaced the version.
RollbackMovesChampion ==
    [][ /\ state'["release"] # state["release"]
        /\ state'["release"].lastOp = "rollback"
        => state'["release"].active # state'["release"].prev ]_vars
-----------------------------------------------------------------------------
(* Liveness                                                                *)

\* When only reloads fail (the server refuses, answers late or is unreadable), no
\* request stays in a reloading status: it becomes ready, deployed or failed.
ReloadingResolves ==
    \A r \in Requests :
        status[r] \in {"canary_reloading", "release_reloading"}
            ~> status[r] \notin {"canary_reloading", "release_reloading"}
=============================================================================
