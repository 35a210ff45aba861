------------------------------- MODULE Archiver -------------------------------
(***************************************************************************)
(* feature-raw-archiver, label-archiver and prediction-log-archiver: one   *)
(* program three times.  A consumer of one topic parses a record, inserts  *)
(* a row in a transaction, commits it, and commits the offset.             *)
(*                                                                         *)
(* The rows are inserted with ON CONFLICT (id) DO NOTHING.  Only the label *)
(* archiver then compares what it has with what is stored, and throws if   *)
(* they differ.  Whatever is thrown ends the process; the container starts *)
(* it again at the committed offset.  The topic is the one of the stream   *)
(* that WorkloadCursor fills.                                              *)
(***************************************************************************)
EXTENDS WorkloadCursor

CONSTANTS
    FromLatest,   \* streams with auto.offset.reset = latest, {"labels"}
    MaxRestarts,  \* deaths of the process
    None

ASSUME RestartsAssumption == MaxRestarts \in Nat
ASSUME NoneAssumption == None \notin Events

VARIABLES
    rows,         \* the rows of the table, as the records they are from
    inserted,     \* the row of the open transaction, or None
    step,         \* "insert", "commit" or "offset": what is done next
    handled,      \* the position of the consumer
    committed,    \* the committed offset
    hasOffset,    \* the group has a committed offset
    restarts

archiverVars ==
    <<rows, inserted, step, handled, committed, hasOffset, restarts>>

\* The groups are new, but for one that would start from "latest": it would begin
\* behind records that it has not stored.
ArchiverInit ==
    /\ rows = {}
    /\ inserted = None
    /\ step = "insert"
    /\ handled = 0
    /\ committed = 0
    /\ hasOffset = (stream \in FromLatest)
    /\ restarts = 0

Record == topic[handled + 1]

\* The parsers: what they require of a record, or throw.
SampleValid(e) == e.sample \in Nat
FeatureValid(e) == SampleValid(e) /\ e.group \in Groups /\ e.value # None
LabelValid(e) == SampleValid(e) /\ e.value \in {-1, 1} /\ e.label = ToActualLabel(e.value)
PredictionValid(e) == SampleValid(e) /\ e.value \in {-1, 1} /\ e.label = ToActualLabel(e.value)

\* verifyReplayPayload: a stored row with the id of the label and another payload.
Conflicts(e) ==
    \E row \in rows : row.id = e.id /\ <<row.sample, row.value, row.label>>
                                          # <<e.sample, e.value, e.label>>

\* INSERT ... ON CONFLICT (id) DO NOTHING in the open transaction.
InsertRow(e) ==
    /\ inserted' = IF \E row \in rows : row.id = e.id THEN None ELSE e
    /\ step' = "commit"
    /\ UNCHANGED <<rows, handled, committed, hasOffset, restarts>>

Polled(s) == stream = s /\ step = "insert" /\ handled < Len(topic)

InsertFeature == Polled("features") /\ FeatureValid(Record) /\ InsertRow(Record)

\* Mutant: a replay is not a record that can be committed.
InsertLabelNewOnly ==
    /\ Polled("labels")
    /\ LabelValid(Record)
    /\ ~ \E row \in rows : row.id = Record.id
    /\ InsertRow(Record)

\* A label that conflicts is thrown at, again after each restart, which leaves
\* everything as it is.
InsertLabel ==
    Polled("labels") /\ LabelValid(Record) /\ ~Conflicts(Record) /\ InsertRow(Record)

InsertPrediction == Polled("predictions") /\ PredictionValid(Record) /\ InsertRow(Record)

\* Mutant: the offset is committed with the row, before the row is.
CommitRowOffset ==
    /\ step = "commit"
    /\ committed' = handled + 1
    /\ step' = "offset"
    /\ UNCHANGED <<rows, inserted, handled, hasOffset, restarts>>

\* connection.commit.
CommitRow ==
    /\ step = "commit"
    /\ rows' = rows \cup ({inserted} \ {None})
    /\ inserted' = None
    /\ step' = "offset"
    /\ UNCHANGED <<handled, committed, hasOffset, restarts>>

\* commitSync, and the next record.
CommitOffset ==
    /\ step = "offset"
    /\ handled' = handled + 1
    /\ committed' = handled + 1
    /\ hasOffset' = TRUE
    /\ step' = "insert"
    /\ UNCHANGED <<rows, inserted, restarts>>

ArchiveStep ==
    InsertFeature \/ InsertLabel \/ InsertPrediction \/ CommitRow \/ CommitOffset

\* The process dies, for an exception or otherwise, and is started again: without a
\* committed offset the reset policy says where.
Restart ==
    /\ restarts < MaxRestarts
    /\ restarts' = restarts + 1
    /\ inserted' = None
    /\ step' = "insert"
    /\ handled' = IF hasOffset THEN committed
                  ELSE IF stream \in FromLatest THEN Len(topic) ELSE 0
    /\ UNCHANGED <<rows, committed, hasOffset>>
=============================================================================
