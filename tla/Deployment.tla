----------------------------- MODULE Deployment -----------------------------
(***************************************************************************)
(* The deployment control plane: the state that the operator scripts in    *)
(* scripts/deployment share, the two model servers they reload, and the    *)
(* faults that hit them.                                                   *)
(*                                                                         *)
(* Each script is a process of its own that an operator starts (an Airflow *)
(* DAG with max_active_runs=1 and no retry, so at most one process per     *)
(* script).  It talks to PostgreSQL (deployment requests, runtime state    *)
(* rows, reload events), to the MLflow registry (aliases), to the gateway  *)
(* (traffic split) and to a model server, one call after the other; no     *)
(* transaction spans two calls.  The steps of a script are in the module   *)
(* named after it, which extends this one.                                 *)
(*                                                                         *)
(* A model version stands for (version, run id, threshold of the run): the *)
(* registry fixes the run of a version, and every comparison of the code   *)
(* compares the three together.                                            *)
(***************************************************************************)
EXTENDS Naturals, FiniteSets, Sequences

CONSTANTS
    Versions,        \* registered model versions
    InitialVersion,  \* the version every server starts on
    Trainable,       \* versions that training runs register as the candidate
    Requests,        \* deployment request ids
    Percents,        \* canary shares of the traffic an operator may choose
    None,            \* SQL NULL, a missing row, an alias that is not set
    FaultKinds,      \* the kinds of fault of this instance
    Scripts,         \* bound: the scripts that the operator runs
    MaxFaults,       \* bound: how many faults may happen
    MaxActive        \* bound: how many scripts run at the same time

ASSUME VersionsAssumption == InitialVersion \in Versions /\ Trainable \subseteq Versions
ASSUME NoneAssumption == None \notin Versions \cup Requests
ASSUME PercentsAssumption == Percents \subseteq Nat
ASSUME BoundsAssumption == MaxFaults \in Nat /\ MaxActive \in Nat

VARIABLES
    runtime,    \* [Slots -> Versions]: the version each model server has loaded
    inbox,      \* [Slots -> Seq(Message)]: reload requests each server has to handle
    champion,   \* the registry's champion alias
    candidate,  \* the registry's candidate alias
    percent,    \* the canary share of the traffic
    request,    \* [Requests -> record]: the columns that no script updates
    status,     \* [Requests -> rollout_status]
    state,      \* [Slots -> row of model_runtime_deployment_state]
    events,     \* the succeeded rows of model_runtime_reload_events
    pc,         \* [Ops -> the next call of the running script]
    arg,        \* [Ops -> the request the script works on]
    obs,        \* [Ops -> the version of the first GET /metadata, None on error]
    row,        \* [Ops -> the runtime state row the script has read]
    prev,       \* [Ops -> the "previous" version of the reload response]
    faults      \* the number of faults so far

store    == <<request, status, state, events>>
registry == <<champion, candidate>>
locals   == <<arg, obs, row, prev>>
vars == <<runtime, inbox, champion, candidate, percent, request, status, state,
          events, pc, arg, obs, row, prev, faults>>
-----------------------------------------------------------------------------
Slots == {"release", "canary"}
Ops == {"deploy", "promote", "rollback_release", "rollback_canary"}
\* MARK_PROMOTED_SQL ("promoted") and "superseded" have no writer among the
\* scripts modelled here; their guards are kept.
Statuses == {"not_started", "promoted", "canary_reloading", "canary_ready",
             "release_reloading", "deployed", "failed", "rolled_back",
             "superseded"}
TerminalStatuses == {"deployed", "failed", "rolled_back", "superseded"}
Operations == {"bootstrap", "canary_reload", "promote", "rollback"}

RequestRow == [source: Versions, previous: Versions, alias: BOOLEAN,
               approved: BOOLEAN]
StateRow == [activeReq: Requests \cup {None}, active: Versions,
             prevReq: Requests \cup {None}, prev: Versions \cup {None},
             lastOp: Operations]
Message == [op: Ops, version: Versions, expected: Versions \cup {None},
            live: BOOLEAN]
Event == [req: Requests, slot: Slots, version: Versions]

Labels == {"idle", "read_row", "check_request", "check_alias", "observe",
           "mark_reloading", "post", "await", "verify", "event", "set_alias",
           "get_candidate", "delete_candidate", "traffic", "mark_done",
           "upsert", "failing"}

\* What insert_runtime_deployment_state_if_missing writes when a server starts.
Bootstrap(v) == [activeReq |-> None, active |-> v, prevReq |-> None,
                 prev |-> None, lastOp |-> "bootstrap"]

\* What the runtime state row of a slot without one may become when the server
\* starts: a failure to write it (fault kind "seed") is logged and swallowed.
Seeded(v) == {Bootstrap(v)} \cup (IF "seed" \in FaultKinds THEN {None} ELSE {})

\* The servers have loaded champion.
Init ==
    /\ runtime = [s \in Slots |-> InitialVersion]
    /\ inbox = [s \in Slots |-> << >>]
    /\ champion = InitialVersion
    /\ candidate = None
    /\ percent = 0
    /\ request = [r \in Requests |-> None]
    /\ status = [r \in Requests |-> "not_started"]
    /\ state \in [Slots -> Seeded(InitialVersion)]
    /\ events = {}
    /\ pc = [o \in Ops |-> "idle"]
    /\ arg = [o \in Ops |-> None]
    /\ obs = [o \in Ops |-> None]
    /\ row = [o \in Ops |-> None]
    /\ prev = [o \in Ops |-> None]
    /\ faults = 0
-----------------------------------------------------------------------------
(* Control flow of a script                                                *)

Active == {o \in Ops : pc[o] # "idle"}
MayRun == Cardinality(Active) < MaxActive
MayStart(o) == pc[o] = "idle" /\ o \in Scripts /\ MayRun

Spend(kind) ==
    /\ kind \in FaultKinds
    /\ faults < MaxFaults
    /\ faults' = faults + 1

Start(o, r, label) ==
    /\ MayStart(o)
    /\ pc' = [pc EXCEPT ![o] = label]
    /\ arg' = [arg EXCEPT ![o] = r]
    /\ obs' = [obs EXCEPT ![o] = None]
    /\ row' = [row EXCEPT ![o] = None]
    /\ prev' = [prev EXCEPT ![o] = None]

Goto(o, label) ==
    /\ pc' = [pc EXCEPT ![o] = label]
    /\ UNCHANGED locals

Exit(o) ==
    /\ pc' = [pc EXCEPT ![o] = "idle"]
    /\ arg' = [arg EXCEPT ![o] = None]
    /\ obs' = [obs EXCEPT ![o] = None]
    /\ row' = [row EXCEPT ![o] = None]
    /\ prev' = [prev EXCEPT ![o] = None]

\* The scripts whose except block marks the request failed, and the calls inside
\* their try block.  The except blocks of the rollbacks only write an audit event
\* and raise.
Guarded == {"deploy", "promote"}
InTry == {"mark_reloading", "post", "await", "verify", "event", "set_alias",
          "get_candidate", "delete_candidate", "traffic", "mark_done", "upsert"}

Raise(o) ==
    IF o \in Guarded /\ pc[o] \in InTry
    THEN Goto(o, "failing")
    ELSE Exit(o)

\* A call has taken effect.  Its reply may be lost, and the script then sees an
\* exception although the effect is there.
Done(o, label) ==
    \/ Goto(o, label) /\ UNCHANGED faults
    \/ Spend("lost") /\ Raise(o)

Completed(o) ==
    \/ Exit(o) /\ UNCHANGED faults
    \/ Spend("lost") /\ Raise(o)

\* try_get_metadata and get_alias_version catch every error of their call.
Caught == {<<"promote", "observe">>, <<"promote", "get_candidate">>}

\* A call raises and has had no effect: a database, registry or gateway error,
\* or a failing insert of the audit event in an except block.
CallFails(o) ==
    /\ pc[o] \notin {"idle", "await"}
    /\ <<o, pc[o]>> \notin Caught
    /\ Spend("call")
    /\ Raise(o)
    /\ UNCHANGED <<runtime, inbox, champion, candidate, percent, store>>
-----------------------------------------------------------------------------
(* Calls that several scripts make                                         *)

\* mark_deployment_request_rollout_status: an UPDATE with no condition on the
\* status it replaces.
Mark(o, to) ==
    /\ status' = [status EXCEPT ![arg[o]] = to]
    /\ UNCHANGED <<runtime, inbox, champion, candidate, percent, request, state,
                   events>>

\* insert_runtime_reload_event with reload_status "succeeded".
RecordEvent(o, slot, v) ==
    /\ pc[o] = "event"
    /\ events' = events \cup {[req |-> arg[o], slot |-> slot, version |-> v]}
    /\ UNCHANGED <<runtime, inbox, champion, candidate, percent, request, status,
                   state>>

SetChampion(o, v) ==
    /\ pc[o] = "set_alias"
    /\ champion' = v
    /\ UNCHANGED <<runtime, inbox, candidate, percent, store>>

\* POST /admin/traffic-policy with canary_percent 0.
ResetTraffic(o) ==
    /\ pc[o] = "traffic"
    /\ percent' = 0
    /\ UNCHANGED <<runtime, inbox, champion, candidate, store>>

Upsert(o, slot, new) ==
    /\ pc[o] = "upsert"
    /\ state' = [state EXCEPT ![slot] = new]
    /\ UNCHANGED <<runtime, inbox, champion, candidate, percent, request, status,
                   events>>

\* The script sends POST /admin/reload-model-version and blocks.
PostReload(o, slot, v, expected) ==
    /\ pc[o] = "post"
    /\ inbox' = [inbox EXCEPT ![slot] =
                    Append(@, [op |-> o, version |-> v, expected |-> expected,
                               live |-> TRUE])]
    /\ Goto(o, "await")
    /\ UNCHANGED <<runtime, champion, candidate, percent, store, faults>>

\* A server handles its requests in the order they arrive and the reload handler
\* never yields to the event loop: GET /metadata is answered after the reloads
\* that came before it.  It fails if the server does, or, at no cost of a fault,
\* if those reloads outlast its timeout.
Readable(slot) == inbox[slot] = << >>

Unreadable(slot) ==
    \/ Spend("metadata")
    \/ ~Readable(slot) /\ UNCHANGED faults

\* The GET /metadata after a reload, and the comparison with the version that
\* was asked for.
Verify(o, slot, v) ==
    /\ pc[o] = "verify"
    /\ \/ /\ Readable(slot)
          /\ IF runtime[slot] = v THEN Goto(o, "event") ELSE Raise(o)
          /\ UNCHANGED faults
       \/ Unreadable(slot) /\ Raise(o)
    /\ UNCHANGED <<runtime, inbox, champion, candidate, percent, store>>

\* active_request_id_from_state: the row still describes what was running.
ActiveRequest(known, v) ==
    IF known # None /\ known.active = v THEN known.activeReq ELSE None
=============================================================================
