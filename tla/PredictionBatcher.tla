-------------------------- MODULE PredictionBatcher --------------------------
(***************************************************************************)
(* PredictionBatcher (serving/api/batch.py): callers put pending           *)
(* invocations on a bounded queue and wait for their futures; one asyncio  *)
(* task takes them in batches, asks the model runtime for the predictions, *)
(* and completes the futures.  A step is what a task does between two      *)
(* awaits; what a caller does is in PredictionService.                     *)
(***************************************************************************)
EXTENDS EventPublisher, SequencesExt

CONSTANTS
    Traced,     \* items with an event context: real traffic, not debug traffic
    QueueMax,   \* MODEL_BATCH_QUEUE_MAX_SIZE
    BatchMax,   \* MODEL_BATCH_MAX_SIZE
    None        \* no prediction

ASSUME BatcherAssumption == /\ Traced \subseteq Items
                            /\ QueueMax \in Nat \ {0} /\ BatchMax \in Nat \ {0}
                            /\ None \notin Items

VARIABLES
    running,  \* [Paths -> BOOLEAN]
    queue,    \* [Paths -> Seq(Items)]
    batch,    \* [Paths -> Seq(Items)]: the batch the task has collected
    active,   \* [Paths -> Seq(Items)]: the inputs of the request to the model
    worker,   \* [Paths -> the await the task is at, or "stopped"]
    future,   \* [Items -> "none", or its future: pending, result, failed or cancelled]
    answer    \* [Items -> the item whose features its prediction is for]

batcherVars == <<running, queue, batch, active, worker, future, answer>>

BatcherInit ==
    /\ running = [p \in Paths |-> TRUE]
    /\ queue = [p \in Paths |-> << >>]
    /\ batch = [p \in Paths |-> << >>]
    /\ active = [p \in Paths |-> << >>]
    /\ worker = [p \in Paths |-> "idle"]
    /\ future = [i \in Items |-> "none"]
    /\ answer = [i \in Items |-> None]

Pending(i) == future[i] = "pending"

\* set_exception on the futures of a set that are not done.
Failing(items) ==
    [i \in Items |-> IF i \in items /\ Pending(i) THEN "failed" ELSE future[i]]

\* The members of a set in the order in which a sequence lists them.
InOrder(items, s) ==
    {t \in SeqOf(items, Len(s)) :
        /\ Range(t) = items
        /\ \A m, n \in DOMAIN t : m < n =>
              \E j, k \in DOMAIN s : j < k /\ s[j] = t[m] /\ s[k] = t[n]}

HasRoom(p) == Len(queue[p]) < QueueMax

\* The first invocation of a batch, and the ones that arrive before the deadline.
Collect(p) ==
    /\ worker[p] \in {"idle", "collecting"}
    /\ queue[p] # << >>
    /\ Len(batch[p]) < BatchMax
    /\ worker' = [worker EXCEPT ![p] = "collecting"]
    /\ batch' = [batch EXCEPT ![p] = Append(@, Head(queue[p]))]
    /\ queue' = [queue EXCEPT ![p] = Tail(@)]
    /\ UNCHANGED <<running, active, future, answer, publisherVars>>

\* _flush up to its await: the invocations whose futures are done, because nobody
\* waits for them any more, are left out.
Dispatch(p) ==
    LET wanted == {i \in Range(batch[p]) : Pending(i)}
    IN /\ worker[p] = "collecting"
       /\ \/ /\ wanted = {}
             /\ worker' = [worker EXCEPT ![p] = "idle"]
             /\ batch' = [batch EXCEPT ![p] = << >>]
             /\ UNCHANGED active
          \/ /\ wanted # {}
             /\ worker' = [worker EXCEPT ![p] = "flushing"]
             /\ \E inputs \in InOrder(wanted, batch[p]) :
                   active' = [active EXCEPT ![p] = inputs]
             /\ UNCHANGED batch
       /\ UNCHANGED <<running, queue, future, answer, publisherVars>>

FlushEnds(p) ==
    /\ worker[p] = "flushing"
    /\ worker' = [worker EXCEPT ![p] = "idle"]
    /\ batch' = [batch EXCEPT ![p] = << >>]
    /\ active' = [active EXCEPT ![p] = << >>]

\* Mutant: the predictions are paired with the whole batch.
ZippedWithBatch(p) == batch[p]

\* What the predictions are paired with, in their order.
Zipped(p) == active[p]

\* The rows that are completed with a prediction: futures that are not done.
\* Mutant: without that test.
RowsToCompleteAll(p) ==
    {k \in DOMAIN Zipped(p) : k \in DOMAIN active[p]}

RowsToComplete(p) ==
    {k \in DOMAIN Zipped(p) : k \in DOMAIN active[p] /\ Pending(Zipped(p)[k])}

\* The model answers with one prediction per input, some of which may not be usable:
\* their futures fail.  The event of a prediction is submitted just before its
\* future gets the result.
Respond(p) ==
    \E malformed \in SUBSET Range(active[p]) :
        LET rows == RowsToComplete(p)
            Row(i) == CHOOSE k \in rows : Zipped(p)[k] = i
            completed == {Zipped(p)[k] : k \in rows}
            predicted == completed \ malformed
        IN /\ FlushEnds(p)
           /\ future' = [i \in Items |-> IF i \in predicted THEN "result"
                                         ELSE IF i \in completed THEN "failed"
                                         ELSE future[i]]
           /\ answer' = [i \in Items |-> IF i \in predicted THEN active[p][Row(i)]
                                         ELSE answer[i]]
           /\ \E events \in InOrder(predicted \cap Traced, Zipped(p)) :
                 SubmitEvents(p, events)
           /\ UNCHANGED <<running, queue>>

\* Mutant: an error of the model is only logged.
RuntimeFailsSilently(p) ==
    /\ FlushEnds(p)
    /\ UNCHANGED <<running, queue, answer, future, publisherVars>>

\* The model is unreachable, too slow, or answers with an error or a malformed body.
RuntimeFails(p) ==
    /\ FlushEnds(p)
    /\ future' = Failing(Range(active[p]))
    /\ UNCHANGED <<running, queue, answer, publisherVars>>

\* Mutant: close leaves the queue as it is.
CloseBatcherUndrained(p) ==
    /\ running' = [running EXCEPT ![p] = FALSE]
    /\ worker' = [worker EXCEPT ![p] = "stopped"]
    /\ future' = Failing(Range(batch[p]))
    /\ batch' = [batch EXCEPT ![p] = << >>]
    /\ active' = [active EXCEPT ![p] = << >>]
    /\ UNCHANGED <<queue, answer, publisherVars>>

\* close: the task is cancelled wherever it is and fails the batch it holds; then
\* the queue is drained.  No caller is left by then (PredictionService), so nothing
\* touches this batcher between the steps of close.
CloseBatcher(p) ==
    /\ running' = [running EXCEPT ![p] = FALSE]
    /\ worker' = [worker EXCEPT ![p] = "stopped"]
    /\ future' = Failing(Range(batch[p]) \cup Range(queue[p]))
    /\ queue' = [queue EXCEPT ![p] = << >>]
    /\ batch' = [batch EXCEPT ![p] = << >>]
    /\ active' = [active EXCEPT ![p] = << >>]
    /\ UNCHANGED <<answer, publisherVars>>
=============================================================================
