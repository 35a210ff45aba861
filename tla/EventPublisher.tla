---------------------------- MODULE EventPublisher ---------------------------
(***************************************************************************)
(* BufferedPredictionEventPublisher (serving/api): a bounded queue of      *)
(* prediction events and one asyncio task that hands them to the sink in   *)
(* batches.  There is one publisher per path, primary and shadow.  A step  *)
(* is what the task does between two awaits.                               *)
(*                                                                         *)
(* publish_many may drop events (a full producer buffer) or raise in the   *)
(* middle of a batch; the task goes on in every case, so the only trace    *)
(* kept here is that the events were offered to the sink.                  *)
(***************************************************************************)
EXTENDS Naturals, Sequences, FiniteSets, Functions

CONSTANTS
    Paths,          \* {"primary"}, or {"primary", "shadow"} with a shadow model
    Items,          \* pending invocations; an event has the identity of its item
    EventQueueMax,  \* PREDICTION_EVENT_QUEUE_MAX_SIZE
    EventBatchMax   \* PREDICTION_EVENT_BATCH_MAX_SIZE

ASSUME PathsAssumption == "primary" \in Paths /\ Paths \subseteq {"primary", "shadow"}
ASSUME EventBoundsAssumption == EventQueueMax \in Nat \ {0} /\ EventBatchMax \in Nat \ {0}

VARIABLES
    accepting,   \* [Paths -> BOOLEAN]
    eventQueue,  \* [Paths -> Seq(Items)]
    eventBatch,  \* [Paths -> Seq(Items)]: the batch the task has collected
    publisher,   \* [Paths -> the await the task is at, or "stopped"]
    unfinished,  \* [Paths -> Nat]: what Queue.join waits for
    accepted,    \* the events submit_nowait has accepted so far
    offered      \* the events that publish_many has been called with so far

publisherVars ==
    <<accepting, eventQueue, eventBatch, publisher, unfinished, accepted, offered>>

PublisherInit ==
    /\ accepting = [p \in Paths |-> TRUE]
    /\ eventQueue = [p \in Paths |-> << >>]
    /\ eventBatch = [p \in Paths |-> << >>]
    /\ publisher = [p \in Paths |-> "idle"]
    /\ unfinished = [p \in Paths |-> 0]
    /\ accepted = {}
    /\ offered = {}

\* submit_nowait for every event of a sequence: the ones that find the queue full,
\* or the publisher closed, are dropped.
SubmitEvents(p, events) ==
    LET room == IF accepting[p] THEN EventQueueMax - Len(eventQueue[p]) ELSE 0
        fit == SubSeq(events, 1, IF Len(events) < room THEN Len(events) ELSE room)
    IN /\ eventQueue' = [eventQueue EXCEPT ![p] = @ \o fit]
       /\ unfinished' = [unfinished EXCEPT ![p] = @ + Len(fit)]
       /\ accepted' = accepted \cup Range(fit)
       /\ UNCHANGED <<accepting, eventBatch, publisher, offered>>

\* The first event of a batch, and the ones that arrive before the deadline.
CollectEvent(p) ==
    /\ publisher[p] \in {"idle", "collecting"}
    /\ eventQueue[p] # << >>
    /\ Len(eventBatch[p]) < EventBatchMax
    /\ publisher' = [publisher EXCEPT ![p] = "collecting"]
    /\ eventBatch' = [eventBatch EXCEPT ![p] = Append(@, Head(eventQueue[p]))]
    /\ eventQueue' = [eventQueue EXCEPT ![p] = Tail(@)]
    /\ UNCHANGED <<accepting, unfinished, accepted, offered>>

\* Mutant: a sink that raises ends the task.
PublishBatchDies(p) ==
    /\ publisher[p] = "collecting"
    /\ offered' = offered \cup Range(eventBatch[p])
    /\ publisher' = [publisher EXCEPT ![p] = "stopped"]
    /\ UNCHANGED <<accepting, eventQueue, unfinished, accepted, eventBatch>>

\* The batch is full or its deadline has passed: publish_many, which does not
\* yield, then task_done for each event, whether publish_many raised or not.
PublishBatch(p) ==
    /\ publisher[p] = "collecting"
    /\ offered' = offered \cup Range(eventBatch[p])
    /\ publisher' = [publisher EXCEPT ![p] = "idle"]
    /\ unfinished' = [unfinished EXCEPT ![p] = @ - Len(eventBatch[p])]
    /\ eventBatch' = [eventBatch EXCEPT ![p] = << >>]
    /\ UNCHANGED <<accepting, eventQueue, accepted>>

PublisherStep(p) == CollectEvent(p) \/ PublishBatch(p)

\* close, up to the join.
StopAccepting(p) ==
    /\ accepting' = [accepting EXCEPT ![p] = FALSE]
    /\ UNCHANGED <<eventQueue, eventBatch, publisher, unfinished, accepted, offered>>

\* Mutant: the task is cancelled without waiting for the queue.
JoinAndStopAtOnce(p) ==
    /\ publisher' = [publisher EXCEPT ![p] = "stopped"]
    /\ UNCHANGED <<accepting, eventQueue, eventBatch, unfinished, accepted, offered>>

\* close, from the join on: the task is idle then, and is cancelled.
JoinAndStop(p) ==
    /\ unfinished[p] = 0
    /\ publisher' = [publisher EXCEPT ![p] = "stopped"]
    /\ UNCHANGED <<accepting, eventQueue, eventBatch, unfinished, accepted, offered>>
=============================================================================
