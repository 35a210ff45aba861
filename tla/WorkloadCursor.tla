---------------------------- MODULE WorkloadCursor ----------------------------
(***************************************************************************)
(* The three workload scripts that walk over the samples with a cursor in  *)
(* a file: send_feature_events_from_cursor.py, send_label_events_from_     *)
(* cursor.py and request_predictions_from_cursor.py.  A run of a script    *)
(* reads the cursor once, works batch after batch, and saves the cursor    *)
(* after each.  The streams share nothing, so a behaviour is about one.    *)
(*                                                                         *)
(* The senders hand their events to librdkafka, which delivers them on its *)
(* own and reports each; it retries without idempotence, so the order is   *)
(* open and an event may arrive twice.  A prediction is answered by the    *)
(* predictor, whose event reaches the topic or is dropped on the way.      *)
(***************************************************************************)
EXTENDS Integers, Sequences, FiniteSets

CONSTANTS
    Runs,        \* runs of the script
    Groups,      \* feature groups of --feature-group
    BatchSize,   \* --batch-size
    MaxSamples,  \* --max-samples
    MaxFaults,   \* failed or doubled deliveries, and killed runs
    MaxActive,   \* runs at a time
    MaxEdits     \* edits of the label file

ASSUME CursorAssumption ==
    /\ IsFiniteSet(Runs)
    /\ BatchSize \in Nat \ {0} /\ MaxSamples \in Nat \ {0}
    /\ MaxFaults \in Nat /\ MaxActive \in Nat
ASSUME EditsAssumption == MaxEdits \in Nat

VARIABLES
    stream,   \* the script the behaviour is about
    cursor,   \* next_..._index in the state file
    run,      \* [Runs -> where the run is]
    start,    \* [Runs -> the index its batch starts at]
    left,     \* [Runs -> remaining]
    outbox,   \* [Runs -> events of its batch without a report or an answer]
    acked,    \* [Runs -> events of its batch that were reported delivered, or predicted]
    answered, \* indices that were answered with a prediction so far
    topic,    \* the records of the stream's topic
    edits,    \* edits of the label file so far
    faults

cursorVars ==
    <<stream, cursor, run, start, left, outbox, acked, answered, topic, edits, faults>>

Streams == {"features", "labels", "predictions"}

CursorInit ==
    /\ stream \in Streams
    /\ cursor = 0
    /\ run = [r \in Runs |-> "idle"]
    /\ start = [r \in Runs |-> 0]
    /\ left = [r \in Runs |-> 0]
    /\ outbox = [r \in Runs |-> {}]
    /\ acked = [r \in Runs |-> {}]
    /\ answered = {}
    /\ topic = << >>
    /\ edits = 0
    /\ faults = 0

Size(r) == IF left[r] < BatchSize THEN left[r] ELSE BatchSize
Batch(r) == start[r] .. (start[r] + Size(r) - 1)

\* The patch of a group, from the row of the sample, whatever is done to its numbers.
Patch(i, g) == <<i, g>>

\* The id has the run and the time: another one whenever the sample is sent.
FeatureEvents(r) ==
    {[id |-> <<r, i, g>>, sample |-> i, group |-> g, value |-> Patch(i, g)] :
        i \in Batch(r), g \in Groups}

ToActualLabel(v) == IF v = 1 THEN "fail" ELSE "pass"

\* The label comes from the file; the id has the sample only, and the one revision.
LabelEvents(r) ==
    LET v == IF edits = 0 THEN 1 ELSE -1
    IN {[id |-> <<"label", i, "r1">>, sample |-> i, group |-> "r1",
         value |-> v, label |-> ToActualLabel(v)] : i \in Batch(r)}

\* The events of the predictor for the requests of a batch, each with a new id.
Requests(r) ==
    {[id |-> <<r, i, "uuid">>, sample |-> i, group |-> "uuid",
      value |-> 1, label |-> ToActualLabel(1)] : i \in Batch(r)}

Ids == (Runs \cup {"label"}) \X Nat \X (Groups \cup {"r1", "uuid"})

Events ==
    [id : Ids, sample : Nat, group : Groups, value : Nat \X Groups]
    \cup [id : Ids, sample : Nat, group : {"r1", "uuid"}, value : {-1, 1},
          label : {"fail", "pass"}]

BuildEvents(r) ==
    CASE stream = "features" -> FeatureEvents(r)
      [] stream = "labels" -> LabelEvents(r)
      [] stream = "predictions" -> Requests(r)

Active == {r \in Runs : run[r] \in {"build", "wait"}}

\* Mutant: the cursor file is not found.
LoadStateMissing(r) ==
    /\ run[r] = "idle"
    /\ Cardinality(Active) < MaxActive
    /\ run' = [run EXCEPT ![r] = "build"]
    /\ start' = [start EXCEPT ![r] = 0]
    /\ left' = [left EXCEPT ![r] = MaxSamples]
    /\ UNCHANGED <<stream, cursor, outbox, acked, answered, topic, edits, faults>>

LoadState(r) ==
    /\ run[r] = "idle"
    /\ Cardinality(Active) < MaxActive
    /\ run' = [run EXCEPT ![r] = "build"]
    /\ start' = [start EXCEPT ![r] = cursor]
    /\ left' = [left EXCEPT ![r] = MaxSamples]
    /\ UNCHANGED <<stream, cursor, outbox, acked, answered, topic, edits, faults>>

\* The events of a batch are handed to the producer, or the requests are posted.
StartBatch(r) ==
    /\ run[r] = "build"
    /\ run' = [run EXCEPT ![r] = "wait"]
    /\ outbox' = [outbox EXCEPT ![r] = BuildEvents(r)]
    /\ UNCHANGED <<stream, cursor, start, left, acked, answered, topic, edits, faults>>

\* A report of librdkafka without an error, and a 200 of the predictor, which hands an
\* event to its publisher.
Delivered(r, e) ==
    /\ e \in outbox[r]
    /\ outbox' = [outbox EXCEPT ![r] = @ \ {e}]
    /\ acked' = [acked EXCEPT ![r] = @ \cup {e}]
    /\ \/ topic' = Append(topic, e)
       \/ stream = "predictions" /\ topic' = topic
    /\ answered' = IF stream = "predictions" THEN answered \cup {e.sample} ELSE answered
    /\ UNCHANGED <<stream, cursor, run, start, left, edits, faults>>

\* Any answer but 200: the sample is not known or not complete, the model or the
\* feature store fails, or the request does.  A request that was given up may have
\* been answered, with an event.
NotPredicted(r, e) ==
    /\ stream = "predictions"
    /\ e \in outbox[r]
    /\ outbox' = [outbox EXCEPT ![r] = @ \ {e}]
    /\ topic' \in {topic, Append(topic, e)}
    /\ UNCHANGED <<stream, cursor, run, start, left, acked, answered, edits, faults>>

Fault == faults < MaxFaults /\ faults' = faults + 1

\* A report with an error, of an event that may have reached the topic.
DeliveryFails(r, e) ==
    /\ Fault
    /\ stream # "predictions"
    /\ e \in outbox[r]
    /\ outbox' = [outbox EXCEPT ![r] = @ \ {e}]
    /\ topic' \in {topic, Append(topic, e)}
    /\ UNCHANGED <<stream, cursor, run, start, left, acked, answered, edits>>

\* An acknowledgement of the broker is lost and the event is sent again.
SentTwice(r, e) ==
    /\ Fault
    /\ stream # "predictions"
    /\ e \in outbox[r]
    /\ topic' = Append(topic, e)
    /\ UNCHANGED <<stream, cursor, run, start, left, outbox, acked, answered, edits>>

\* Mutant: as many as were predicted.
LeadingCount(r) == Cardinality({e.sample : e \in acked[r]})

\* leading_predicted_count.
Leading(r) ==
    CHOOSE n \in 0 .. Size(r) :
        /\ \A k \in 0 .. (n - 1) : \E e \in acked[r] : e.sample = start[r] + k
        /\ n < Size(r) => ~ \E e \in acked[r] : e.sample = start[r] + n

\* stats.failed = 0, once flush has returned.
AllDelivered(r) == acked[r] = BuildEvents(r)

Reported(r) == run[r] = "wait" /\ outbox[r] = {}

\* save_state, and the next batch if there is one.
Save(r, n) ==
    /\ cursor' = start[r] + n
    /\ IF n = Size(r) /\ left[r] > n
       THEN /\ run' = [run EXCEPT ![r] = "build"]
            /\ start' = [start EXCEPT ![r] = cursor']
            /\ left' = [left EXCEPT ![r] = @ - n]
       ELSE /\ run' = [run EXCEPT ![r] = "done"]
            /\ UNCHANGED <<start, left>>
    /\ acked' = [acked EXCEPT ![r] = {}]
    /\ UNCHANGED <<stream, outbox, answered, topic, edits, faults>>

\* SystemExit(1), with the cursor where it was.
Quit(r) ==
    /\ run' = [run EXCEPT ![r] = "done"]
    /\ acked' = [acked EXCEPT ![r] = {}]
    /\ UNCHANGED <<stream, cursor, start, left, outbox, answered, topic, edits, faults>>

FinishFeatures(r) ==
    /\ stream = "features"
    /\ Reported(r)
    /\ IF AllDelivered(r) THEN Save(r, Size(r)) ELSE Quit(r)

FinishLabels(r) ==
    /\ stream = "labels"
    /\ Reported(r)
    /\ IF AllDelivered(r) THEN Save(r, Size(r)) ELSE Quit(r)

\* The cursor moves up to the first sample without a prediction, and the run ends there.
FinishPredictions(r) ==
    /\ stream = "predictions"
    /\ Reported(r)
    /\ Save(r, Leading(r))

\* The run is killed, or flush gives up after its 30 s.
EndRun(r) ==
    /\ Fault
    /\ run[r] \in {"build", "wait"}
    /\ run' = [run EXCEPT ![r] = "done"]
    /\ outbox' = [outbox EXCEPT ![r] = {}]
    /\ acked' = [acked EXCEPT ![r] = {}]
    /\ UNCHANGED <<stream, cursor, start, left, answered, topic, edits>>

\* The label file is replaced, by one that has other labels, when no run has read it.
EditLabels ==
    /\ stream = "labels"
    /\ edits < MaxEdits
    /\ \A r \in Runs : run[r] \in {"idle", "done"}
    /\ edits' = edits + 1
    /\ UNCHANGED <<stream, cursor, run, start, left, outbox, acked, answered, topic, faults>>

RunStep(r) ==
    \/ StartBatch(r)
    \/ \E e \in outbox[r] : Delivered(r, e) \/ NotPredicted(r, e)
    \/ FinishFeatures(r)
    \/ FinishLabels(r)
    \/ FinishPredictions(r)

RunFault(r) ==
    \/ \E e \in outbox[r] : DeliveryFails(r, e) \/ SentTwice(r, e)
    \/ EndRun(r)
=============================================================================
