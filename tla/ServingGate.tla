------------------------------ MODULE ServingGate ------------------------------
(***************************************************************************)
(* From the serving gate to the deployment request: runs of the gate       *)
(* compare the candidate with the champion and publish their evaluation as *)
(* a tag of the candidate; record_serving_candidate_deployment_request     *)
(* turns an evaluation into a request; both aliases move meanwhile.        *)
(***************************************************************************)
EXTENDS GatePolicy, TLC

CONSTANTS
    MaxEvaluations,  \* the runs of the gate are 1 .. MaxEvaluations, one after the other
    Scripts,         \* runs of the scripts that act on what the gate has published
    MaxProcesses,    \* runs of the gate and of scripts
    InitialChampion,
    MaxUpsets        \* moves of an alias, failed calls and killed processes

VARIABLES
    champion,   \* the versions that the aliases point to
    candidate,  \* or None
    latest,     \* [Versions -> tag LATEST_EVALUATION_RUN_ID of the version, or None]
    evaluation, \* [Evaluations -> its MLflow run, or None]
    epc,        \* [Evaluations -> where it is]
    ectx,       \* [Evaluations -> its local variables]
    spc,        \* [Scripts -> where it is]
    sctx,       \* [Scripts -> its local variables]
    requests,   \* rows of model_deployment_requests, without
    rollout,    \* [Scripts -> rollout_status of the row that it has inserted, or None]
    upsets

aliases == <<champion, candidate>>
evaluator == <<evaluation, epc, ectx, latest>>
scripts == <<spc, sctx>>
store == <<requests, rollout>>

Evaluations == 1 .. MaxEvaluations

ESteps == {"candidate", "load candidate", "champion", "load champion", "decisions",
           "start run", "finish run", "point"}
RecordSteps == {"evaluation", "candidate", "champion", "insert"}
Ends == {"idle", "done", "raised", "killed"}

\* An evaluation as MLflow stores it.
Runs == [status : {"RUNNING", "FINISHED", "FAILED"}, passed : BOOLEAN, dataset : Datasets,
         candidate : Versions \cup {None}, champion : Versions \cup {None}]

ASSUME EvaluationsAssumption == MaxEvaluations \in Nat
ASSUME ChampionAssumption == InitialChampion \in Versions
ASSUME NoneAssumption == None \notin Evaluations \cup Runs

Init ==
    /\ champion = InitialChampion
    /\ candidate \in Versions \ {champion}
    /\ latest = [v \in Versions |-> None]
    /\ evaluation = [e \in Evaluations |-> None]
    /\ epc = [e \in Evaluations |-> "idle"]
    /\ ectx = [e \in Evaluations |-> None]
    /\ spc = [r \in Scripts |-> "idle"]
    /\ sctx = [r \in Scripts |-> None]
    /\ requests = {}
    /\ rollout = [r \in Scripts |-> None]
    /\ upsets = 0

-----------------------------------------------------------------------------
\* Room for one more process.
MayStartProcess ==
    Cardinality({e \in Evaluations : epc[e] # "idle"})
        + Cardinality({r \in Scripts : spc[r] # "idle"}) < MaxProcesses

\* The history of a record script has every version that was champion since its start.
MoveChampion(v, contexts) ==
    /\ champion' = v
    /\ sctx' = [r \in Scripts |->
                    IF spc[r] \in RecordSteps
                    THEN [contexts[r] EXCEPT !.champions = @ \cup {v}] ELSE contexts[r]]

Terminal == {"deployed", "failed", "rolled_back", "superseded"}

\* A training run registers a version, an operator rolls champion back, or the deployment
\* of an approved request (DeploymentControl) ends, with the champion or without it.
MoveAlias ==
    /\ upsets < MaxUpsets
    /\ upsets' = upsets + 1
    /\ \/ /\ \E v \in Versions \ {candidate} : candidate' = v
          /\ UNCHANGED <<champion, sctx, rollout>>
       \/ /\ \E v \in Versions \ {champion} : MoveChampion(v, sctx)
          /\ UNCHANGED <<candidate, rollout>>
       \/ \E q \in requests :
            /\ q.approved /\ rollout[q.by] \notin Terminal
            /\ \/ MoveChampion(q.source, sctx) /\ rollout' = [rollout EXCEPT ![q.by] = "deployed"]
               \/ /\ rollout' = [rollout EXCEPT ![q.by] = "failed"]
                  /\ UNCHANGED <<champion, sctx>>
            /\ UNCHANGED candidate
    /\ UNCHANGED <<evaluator, spc, requests>>

EGoto(e, l) ==
    /\ epc' = [epc EXCEPT ![e] = l]
    /\ UNCHANGED <<aliases, scripts, store, upsets>>

\* A process that has ended has no local variables.
EEnd(e, l) ==
    /\ EGoto(e, l)
    /\ ectx' = [ectx EXCEPT ![e] = None]

\* max_active_runs = 1 of the gate's DAG; the dataset is the one its first task has named.
StartEvaluation(e) ==
    /\ epc[e] = "idle" /\ MayStartProcess
    /\ \A f \in 1 .. e - 1 : epc[f] \in Ends \ {"idle"}
    /\ \E d \in Datasets :
        ectx' = [ectx EXCEPT ![e] =
            [dataset |-> d, candidate |-> None, champion |-> None,
             candidateModel |-> None, championModel |-> None]]
    /\ EGoto(e, "candidate")
    /\ UNCHANGED <<evaluation, latest>>

\* resolve_model: a version that the operator names, or the one of the alias.
ResolveCandidate(e) ==
    /\ epc[e] = "candidate"
    /\ \E v \in Versions : ectx' = [ectx EXCEPT ![e].candidate = v]
    /\ EGoto(e, "load candidate")
    /\ UNCHANGED <<evaluation, latest>>

LoadCandidateByAlias(e) ==
    /\ epc[e] = "load candidate"
    /\ ectx' = [ectx EXCEPT ![e].candidateModel = candidate]
    /\ EGoto(e, "champion")
    /\ UNCHANGED <<evaluation, latest>>

\* The model is loaded by its version and not by the alias, which may have moved.
LoadCandidate(e) ==
    /\ epc[e] = "load candidate"
    /\ ectx' = [ectx EXCEPT ![e].candidateModel = ectx[e].candidate]
    /\ EGoto(e, "champion")
    /\ UNCHANGED <<evaluation, latest>>

ResolveChampion(e) ==
    /\ epc[e] = "champion"
    /\ ectx' = [ectx EXCEPT ![e].champion = champion]
    /\ EGoto(e, "load champion")
    /\ UNCHANGED <<evaluation, latest>>

\* validate_distinct_models comes after both are loaded.
LoadChampion(e) ==
    /\ epc[e] = "load champion"
    /\ IF ectx[e].candidate = ectx[e].champion
       THEN EEnd(e, "raised")
       ELSE /\ EGoto(e, "decisions")
            /\ ectx' = [ectx EXCEPT ![e].championModel = ectx[e].champion]
    /\ UNCHANGED <<evaluation, latest>>

LoadDecisions(e) ==
    /\ epc[e] = "decisions"
    /\ IF Unusable(Rows[ectx[e].dataset])
       THEN EEnd(e, "raised")
       ELSE EGoto(e, "start run") /\ UNCHANGED ectx
    /\ UNCHANGED <<evaluation, latest>>

\* The MLflow run is RUNNING until the block is left; its parameters are the pinned versions.
StartRun(e) ==
    /\ epc[e] = "start run"
    /\ evaluation' = [evaluation EXCEPT ![e] =
            [status |-> "RUNNING", passed |-> FALSE, dataset |-> ectx[e].dataset,
             candidate |-> ectx[e].candidate, champion |-> ectx[e].champion]]
    /\ EGoto(e, "finish run")
    /\ UNCHANGED <<ectx, latest>>

\* evaluate_predictions of both models and evaluate_gate.
Verdict(x) ==
    LET rows == Selected(Rows[x.dataset])
    IN  Passes(Metrics(x.candidateModel, rows), Metrics(x.championModel, rows))

FinishRun(e) ==
    /\ epc[e] = "finish run"
    /\ evaluation' = [evaluation EXCEPT
            ![e].status = "FINISHED", ![e].passed = Verdict(ectx[e])]
    /\ EGoto(e, "point")
    /\ UNCHANGED <<ectx, latest>>

\* set_candidate_evaluation_pointer, also when the gate has failed.
SetPointer(e) ==
    /\ epc[e] = "point"
    /\ latest' = [latest EXCEPT ![ectx[e].candidate] = e]
    /\ EEnd(e, "done")
    /\ UNCHANGED evaluation

\* A call of MLflow fails, or Airflow kills the task.  An exception ends the MLflow run as
\* FAILED, a kill leaves it RUNNING.
StopEvaluation(e) ==
    /\ epc[e] \in ESteps
    /\ upsets < MaxUpsets
    /\ upsets' = upsets + 1
    /\ \E l \in {"raised", "killed"} :
        /\ epc' = [epc EXCEPT ![e] = l]
        /\ ectx' = [ectx EXCEPT ![e] = None]
        /\ evaluation' = IF epc[e] = "finish run" /\ l = "raised"
                         THEN [evaluation EXCEPT ![e].status = "FAILED"]
                         ELSE evaluation
    /\ UNCHANGED <<aliases, scripts, store, latest>>

-----------------------------------------------------------------------------
SGoto(r, l) ==
    /\ spc' = [spc EXCEPT ![r] = l]
    /\ UNCHANGED <<evaluator, upsets>>

SEnd(r, l) ==
    /\ SGoto(r, l)
    /\ sctx' = [sctx EXCEPT ![r] = None]

\* An operator starts a script.
StartScript(r, l, arguments) ==
    /\ spc[r] = "idle" /\ MayStartProcess
    /\ sctx' = [sctx EXCEPT ![r] = arguments]
    /\ SGoto(r, l)
    /\ UNCHANGED <<champion, candidate, store>>

ReadsOnly == UNCHANGED <<champion, candidate, store>>

\* The id of an evaluation, and a version or none; one run of the DAG at a time.  before and
\* champions are history: what was published for each version by then, and which versions
\* have been champion since.
StartRecorder(r) ==
    /\ \A q \in Scripts : spc[q] \notin RecordSteps
    /\ \E e \in Evaluations, v \in Versions \cup {None} :
        StartScript(r, "evaluation",
            [id |-> e, wanted |-> v, read |-> None, version |-> None, alias |-> FALSE,
             tag |-> None, champion |-> None, before |-> latest, champions |-> {champion}])

\* parse_evaluation_run refuses a run that is not FINISHED.
LoadEvaluation(r) ==
    LET run == evaluation[sctx[r].id]
    IN  /\ spc[r] = "evaluation"
        /\ IF run = None \/ run.status # "FINISHED"
           THEN SEnd(r, "raised")
           ELSE SGoto(r, "candidate") /\ sctx' = [sctx EXCEPT ![r].read = run]
        /\ ReadsOnly

\* The version with its tags; the alias is only noted when it points to that version.
ResolveRequested(r) ==
    LET v == IF sctx[r].wanted = None THEN candidate ELSE sctx[r].wanted
    IN  /\ spc[r] = "candidate"
        /\ IF v = None
           THEN SEnd(r, "raised")
           ELSE /\ SGoto(r, "champion")
                /\ sctx' = [sctx EXCEPT ![r].version = v, ![r].tag = latest[v],
                                        ![r].alias = (candidate = v)]
        /\ ReadsOnly

ResolveCurrentChampion(r) ==
    /\ spc[r] = "champion"
    /\ sctx' = [sctx EXCEPT ![r].champion = champion]
    /\ SGoto(r, "insert")
    /\ ReadsOnly

AdmissibleOld(x) ==
    /\ x.read.passed
    /\ x.read.candidate = x.version
    /\ x.read.champion = x.champion

AdmissibleAnyChampion(x) ==
    /\ x.read.passed
    /\ x.read.candidate = x.version
    /\ x.id = x.tag

\* validate_evaluation_for_deployment
Admissible(x) ==
    /\ x.read.passed
    /\ x.read.candidate = x.version
    /\ x.id = x.tag
    /\ x.read.champion = x.champion

\* The row that is inserted; previous_version is the evaluated champion.
DeploymentRequestRow(r, x, approved) ==
    [by |-> r, evaluation |-> x.id, source |-> x.version, previous |-> x.read.champion,
     alias |-> x.alias, approved |-> approved]

InsertRequest(r) ==
    LET x == sctx[r]
    IN  /\ spc[r] = "insert"
        /\ IF Admissible(x)
           THEN /\ \E approved \in BOOLEAN :
                      requests' = requests \cup {DeploymentRequestRow(r, x, approved)}
                /\ rollout' = [rollout EXCEPT ![r] = "not_started"]
                /\ SEnd(r, "done")
           ELSE SEnd(r, "raised") /\ UNCHANGED store
        /\ UNCHANGED <<champion, candidate>>

\* A call fails or the process is killed: what was done stays done.
StopScript(r) ==
    /\ spc[r] \notin Ends
    /\ upsets < MaxUpsets
    /\ upsets' = upsets + 1
    /\ spc' = [spc EXCEPT ![r] = "killed"]
    /\ sctx' = [sctx EXCEPT ![r] = None]
    /\ UNCHANGED <<aliases, evaluator, store>>

Evaluate(e) ==
    \/ StartEvaluation(e)
    \/ ResolveCandidate(e) \/ LoadCandidate(e)
    \/ ResolveChampion(e) \/ LoadChampion(e)
    \/ LoadDecisions(e)
    \/ StartRun(e) \/ FinishRun(e) \/ SetPointer(e)
    \/ StopEvaluation(e)

Record(r) ==
    \/ StartRecorder(r)
    \/ LoadEvaluation(r)
    \/ ResolveRequested(r) \/ ResolveCurrentChampion(r)
    \/ InsertRequest(r)
=============================================================================
