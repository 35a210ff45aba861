--------------------------- MODULE DatasetCatalogue ---------------------------
(***************************************************************************)
(* The catalogue of datasets (table dataset_builds), the artifact store of *)
(* MLflow, and the builders of training and serving-gate datasets          *)
(* (training_dataset_builder.py, serving_gate_dataset_builder.py and their *)
(* repositories).                                                          *)
(*                                                                         *)
(* A builder reads the cohort in one repeatable-read transaction, claims   *)
(* the row of the catalogue in a second one, uploads the artifacts in a    *)
(* run of MLflow, and marks the row READY in a third; when one of the last *)
(* two raises it marks the row FAILED.  It can be killed anywhere.         *)
(***************************************************************************)
EXTENDS ServingGateDataset

CONSTANTS
    MaxBuilds,  \* the builders of a behaviour are 1 .. MaxBuilds
    Configs,    \* the configs that the DAG runs with
    MaxFaults   \* how often something fails; one bound for overlapping builders, one for others

\* The windows are intervals of one schedule.
ASSUME ConfigsAssumption ==
    /\ \A c \in Configs : c.start \in Int /\ c.cutoff \in Int
    /\ \A c, d \in Configs : c.start = d.start => c.cutoff = d.cutoff
ASSUME BuildersAssumption == MaxBuilds \in Nat /\ None \notin 1 .. MaxBuilds

VARIABLES
    kind,       \* "training" or "gate"
    overlap,    \* builders may run side by side
    catalogue,  \* dataset id |-> row of dataset_builds
    artifacts,  \* [Builders -> what its MLflow run holds, or None]
    pc,         \* [Builders -> where it is, or how it has ended]
    ctx,        \* [Builders -> [config, id, stats, members], its local variables, or None]
    faults

Builders == 1 .. MaxBuilds

catVars == <<kind, overlap, catalogue, artifacts, pc, ctx, faults>>

\* A builder ends as READY or REUSED, when it reports the dataset's id; as FAILED, when it has
\* recorded its failure; or as SKIPPED, RAISED, UNRECORDED or KILLED.
Steps == {"read", "claim", "lookup", "persist", "ready", "failed"}

CatalogueInit ==
    /\ kind \in {"training", "gate"}
    /\ overlap \in BOOLEAN
    /\ catalogue = [i \in {} |-> None]
    /\ artifacts = [b \in Builders |-> None]
    /\ pc = [b \in Builders |-> "idle"]
    /\ ctx = [b \in Builders |-> None]
    /\ faults = 0

Running(b) == pc[b] \in Steps

Goto(b, l) ==
    /\ pc' = [pc EXCEPT ![b] = l]
    /\ UNCHANGED <<kind, overlap>>

IsReady(id) == id \in DOMAIN catalogue /\ catalogue[id].status = "READY"

SetRow(id, row) ==
    catalogue' = [i \in DOMAIN catalogue \cup {id} |-> IF i = id THEN row ELSE catalogue[i]]

UpsertAlways(id, row) == SetRow(id, row)

\* INSERT ... ON CONFLICT DO UPDATE ... WHERE status <> 'READY'.
Upsert(id, row) == IF IsReady(id) THEN UNCHANGED catalogue ELSE SetRow(id, row)

SetReady(id, b) ==
    SetRow(id, [catalogue[id] EXCEPT
        !.status = "READY", !.run = b, !.sha = artifacts[b].sha])

SetFailed(id) == SetRow(id, [catalogue[id] EXCEPT !.status = "FAILED"])

\* max_active_runs = 1 of the two DAGs; overlap: a run that outlives its Airflow task.
Start(b) ==
    /\ pc[b] = "idle"
    /\ \A a \in 1 .. b - 1 : pc[a] # "idle" /\ (overlap \/ ~Running(a))
    /\ \E c \in Configs :
        /\ IF kind = "training" THEN TrainingValid(c) ELSE GateValid(c)
        /\ ctx' = [ctx EXCEPT ![b] = [config |-> c, id |-> None, stats |-> None, members |-> {}]]
    /\ Goto(b, "read")
    /\ UNCHANGED <<catalogue, artifacts, faults>>

\* What the builder goes on with after its first transaction.
Chosen(b, id, s, ms) ==
    ctx' = [ctx EXCEPT ![b].id = id, ![b].stats = s, ![b].members = ms]

ReadTraining(b) ==
    LET c  == ctx[b].config
        ms == TrainingCohort(c)
        s  == Summary(ms)
        id == TrainingIdentity(c, ms)
    IN  /\ kind = "training"
        /\ pc[b] = "read"
        /\ Goto(b, IF ~TrainingReady(s) \/ IsReady(id) THEN "SKIPPED" ELSE "claim")
        /\ Chosen(b, id, s, ms)
        /\ UNCHANGED <<catalogue, artifacts, faults>>

\* A READY row is reused without a second build.
ReadGate(b) ==
    LET c  == ctx[b].config
        ms == GateCohort(c)
        s  == GateSummary(ms)
        id == GateIdentity(c, ms)
    IN  /\ kind = "gate"
        /\ pc[b] = "read"
        /\ IF \E p \in DecisionCohort(c) : DecisionRefused(p)
           THEN Goto(b, "RAISED") /\ UNCHANGED ctx
           ELSE /\ Goto(b, CASE ~GateReady(s) -> "RAISED"
                             [] GateReady(s) /\ IsReady(id) -> "REUSED"
                             [] OTHER -> "claim")
                /\ Chosen(b, id, s, ms)
        /\ UNCHANGED <<catalogue, artifacts, faults>>

\* Mutant: the answer of the claim is not looked at.
ClaimTrainingUnchecked(b) ==
    /\ kind = "training"
    /\ pc[b] = "claim"
    /\ Upsert(ctx[b].id, TrainingRow(ctx[b].config, ctx[b].stats))
    /\ Goto(b, "persist")
    /\ UNCHANGED <<artifacts, ctx, faults>>

ClaimTraining(b) ==
    /\ kind = "training"
    /\ pc[b] = "claim"
    /\ Upsert(ctx[b].id, TrainingRow(ctx[b].config, ctx[b].stats))
    /\ Goto(b, IF IsReady(ctx[b].id) THEN "SKIPPED" ELSE "persist")
    /\ UNCHANGED <<artifacts, ctx, faults>>

ClaimGate(b) ==
    /\ kind = "gate"
    /\ pc[b] = "claim"
    /\ Upsert(ctx[b].id, GateRow(ctx[b].config, ctx[b].stats))
    /\ Goto(b, IF IsReady(ctx[b].id) THEN "lookup" ELSE "persist")
    /\ UNCHANGED <<artifacts, ctx, faults>>

\* get_ready_dataset_by_manifest, in a transaction after the refused claim.
LookUp(b) ==
    /\ pc[b] = "lookup"
    /\ Goto(b, IF IsReady(ctx[b].id) /\ catalogue[ctx[b].id].run # None
               THEN "REUSED" ELSE "RAISED")
    /\ UNCHANGED <<catalogue, artifacts, ctx, faults>>

\* The frame, the files and the run of MLflow, which is complete when it returns.
PersistTraining(b) ==
    LET x == ctx[b]
    IN  /\ kind = "training"
        /\ pc[b] = "persist"
        /\ IF FrameRaises(x.members)
           THEN Goto(b, "failed") /\ UNCHANGED artifacts
           ELSE /\ Goto(b, "ready")
                /\ artifacts' = [artifacts EXCEPT ![b] =
                      Artifacts(Frame(x.id, x.members), Manifest(x.config, x.id, x.stats))]
        /\ UNCHANGED <<catalogue, ctx, faults>>

PersistGate(b) ==
    LET x == ctx[b]
    IN  /\ kind = "gate"
        /\ pc[b] = "persist"
        /\ IF GateFrameRaises(x.members)
           THEN Goto(b, "failed") /\ UNCHANGED artifacts
           ELSE /\ Goto(b, "ready")
                /\ artifacts' = [artifacts EXCEPT ![b] =
                      Artifacts(GateFrame(x.id, x.members), GateManifest(x.config, x.id, x.stats))]
        /\ UNCHANGED <<catalogue, ctx, faults>>

MarkReady(b) ==
    /\ pc[b] = "ready"
    /\ SetReady(ctx[b].id, b)
    /\ Goto(b, "READY")
    /\ UNCHANGED <<artifacts, ctx, faults>>

\* The except block: by dataset id, whatever status the row has by now.
MarkFailed(b) ==
    /\ pc[b] = "failed"
    /\ SetFailed(ctx[b].id)
    /\ Goto(b, "FAILED")
    /\ UNCHANGED <<artifacts, ctx, faults>>

Fault ==
    /\ faults < MaxFaults[overlap]
    /\ faults' = faults + 1

\* The database or MLflow fails before a step has had an effect.  A failure after the claim is
\* caught and recorded; one of the recording itself is only printed.
StepFails(b) ==
    /\ Running(b)
    /\ Fault
    /\ Goto(b, CASE pc[b] \in {"persist", "ready"} -> "failed"
                 [] pc[b] = "failed" -> "UNRECORDED"
                 [] OTHER -> "RAISED")
    /\ UNCHANGED <<catalogue, artifacts, ctx>>

\* The commit of READY has reached the database, but its answer is lost.
ReadyReplyLost(b) ==
    /\ pc[b] = "ready"
    /\ Fault
    /\ SetReady(ctx[b].id, b)
    /\ Goto(b, "failed")
    /\ UNCHANGED <<artifacts, ctx>>

\* The same of the claim, which is made outside the try block.
ClaimReplyLost(b) ==
    /\ pc[b] = "claim"
    /\ Fault
    /\ Upsert(ctx[b].id, IF kind = "training" THEN TrainingRow(ctx[b].config, ctx[b].stats)
                         ELSE GateRow(ctx[b].config, ctx[b].stats))
    /\ Goto(b, "UNRECORDED")
    /\ UNCHANGED <<artifacts, ctx>>

\* execution_timeout, or the container stops.
Kill(b) ==
    /\ Running(b)
    /\ Fault
    /\ Goto(b, "KILLED")
    /\ UNCHANGED <<catalogue, artifacts, ctx>>

BuilderStep(b) ==
    \/ Start(b)
    \/ ReadTraining(b) \/ ReadGate(b)
    \/ ClaimTraining(b) \/ ClaimGate(b) \/ LookUp(b)
    \/ PersistTraining(b) \/ PersistGate(b)
    \/ MarkReady(b) \/ MarkFailed(b)

BuilderFault(b) ==
    StepFails(b) \/ ReadyReplyLost(b) \/ ClaimReplyLost(b) \/ Kill(b)

\* load_training_dataset and load_serving_gate_dataset.
LoadsTraining(id) ==
    LET row == catalogue[id]
    IN  IsReady(id) /\ row.run # None /\ TrainingVerified(id, row, artifacts[row.run])

LoadsGate(id) ==
    LET row == catalogue[id]
    IN  IsReady(id) /\ row.run # None /\ GateVerified(id, row, artifacts[row.run])

Loads(id) == IF kind = "training" THEN LoadsTraining(id) ELSE LoadsGate(id)
=============================================================================
