-------------------------- MODULE PredictionService --------------------------
(***************************************************************************)
(* The online predictor (serving/api/app.py, prediction_service.py): the   *)
(* request handlers that call the batchers, and the lifespan that closes   *)
(* batchers and publishers in order.                                       *)
(*                                                                         *)
(* A call is a request that has passed validation: POST /predict with its  *)
(* rows, or POST /predict-by-id, one row whose snapshot is loaded, with a  *)
(* copy for the shadow model when there is one.  All runs on one event     *)
(* loop.  uvicorn stops taking calls and waits for the running handlers    *)
(* before it ends the lifespan.                                            *)
(***************************************************************************)
EXTENDS PredictionBatcher

CONSTANTS
    Calls,    \* requests
    Primary,  \* [Calls -> Seq(Items)]: the rows of a call
    Shadow    \* [Calls -> Items \cup {None}]: its copy for the shadow model

\* The items of the calls are distinct.  Only /predict-by-id has an event context, and
\* it has one row.
ASSUME CallsAssumption ==
    /\ Primary \in [Calls -> Seq(Items) \ {<< >>}]
    /\ Shadow \in [Calls -> Items \cup {None}]
    /\ \A c, d \in Calls : \A k \in DOMAIN Primary[c], m \in DOMAIN Primary[d] :
          Primary[c][k] = Primary[d][m] => c = d /\ k = m
    /\ \A c, d \in Calls : Shadow[c] # None =>
          /\ Shadow[c] \notin Range(Primary[d])
          /\ Shadow[c] = Shadow[d] => c = d
    /\ \A c \in Calls : Shadow[c] # None => "shadow" \in Paths
    /\ \A c \in Calls : Range(Primary[c]) \cap Traced # {} => Len(Primary[c]) = 1

VARIABLES
    handler,  \* [Calls -> the await its handler is at, or how it has ended]
    putting,  \* [Calls -> Nat]: the row that the handler puts next
    phase     \* the await the lifespan is at

serviceVars == <<handler, putting, phase>>
vars == <<publisherVars, batcherVars, serviceVars>>

Init ==
    /\ PublisherInit
    /\ BatcherInit
    /\ handler = [c \in Calls |-> "idle"]
    /\ putting = [c \in Calls |-> 0]
    /\ phase = "serving"

Rows(c) == Range(Primary[c])
InFlight == {c \in Calls : handler[c] \in {"putting", "waiting"}}
-----------------------------------------------------------------------------
(* Request handlers                                                        *)

\* A shadow batcher that is not running takes no copy.
Copied(c) == Shadow[c] # None /\ running["shadow"]

\* predict and predict_debug_many, up to the first await: the futures of all rows
\* are created.  The shadow copy is submitted first, by submit_nowait: when its
\* queue is full its future is cancelled and the call goes on.
Begin(c) ==
    /\ phase = "serving"
    /\ handler[c] = "idle"
    /\ handler' = [handler EXCEPT ![c] = "putting"]
    /\ putting' = [putting EXCEPT ![c] = 1]
    /\ future' = [i \in Items |->
                     IF i \in Rows(c) \/ (Copied(c) /\ i = Shadow[c] /\ HasRoom("shadow"))
                     THEN "pending"
                     ELSE IF Copied(c) /\ i = Shadow[c] THEN "cancelled"
                     ELSE future[i]]
    /\ queue' = IF Copied(c) /\ HasRoom("shadow")
                THEN [queue EXCEPT !["shadow"] = Append(@, Shadow[c])]
                ELSE queue
    /\ UNCHANGED <<running, batch, active, worker, answer, publisherVars, phase>>

\* _enqueue_and_wait puts the rows one after the other and blocks while the queue
\* is full.
Put(c) ==
    /\ handler[c] = "putting"
    /\ HasRoom("primary")
    /\ queue' = [queue EXCEPT !["primary"] = Append(@, Primary[c][putting[c]])]
    /\ IF putting[c] = Len(Primary[c])
       THEN handler' = [handler EXCEPT ![c] = "waiting"] /\ UNCHANGED putting
       ELSE putting' = [putting EXCEPT ![c] = @ + 1] /\ UNCHANGED handler
    /\ UNCHANGED <<running, batch, active, worker, future, answer, publisherVars,
                   phase>>

Fails(c) == handler' = [handler EXCEPT ![c] = "failed"] /\ UNCHANGED <<putting, phase>>

\* A put has blocked for queue_timeout_seconds: the rows that are not done fail, the
\* ones already on the queue too.
PutTimeout(c) ==
    /\ handler[c] = "putting"
    /\ Fails(c)
    /\ future' = Failing(Rows(c))
    /\ UNCHANGED <<running, queue, batch, active, worker, answer, publisherVars>>

\* gather: the call has its predictions, or fails with its first row that fails and
\* leaves the others to themselves.
Gather(c) ==
    /\ handler[c] = "waiting"
    /\ \/ /\ \A i \in Rows(c) : future[i] = "result"
          /\ handler' = [handler EXCEPT ![c] = "answered"]
          /\ UNCHANGED <<putting, phase>>
       \/ /\ \E i \in Rows(c) : future[i] \in {"failed", "cancelled"}
          /\ Fails(c)
    /\ UNCHANGED <<publisherVars, batcherVars>>

\* Mutant: the answer is given up even if it has just arrived.
ResponseTimeoutAnyTime(c) ==
    /\ handler[c] = "waiting"
    /\ Fails(c)
    /\ future' = [i \in Items |-> IF i \in Rows(c) /\ Pending(i) THEN "cancelled"
                                  ELSE future[i]]
    /\ UNCHANGED <<running, queue, batch, active, worker, answer, publisherVars>>

\* asyncio.wait_for gives up after response_timeout_seconds and cancels the futures
\* that are not done.  It returns the answer if there is nothing left to cancel,
\* even though the handler has not resumed yet.
ResponseTimeout(c) ==
    /\ handler[c] = "waiting"
    /\ \E i \in Rows(c) : Pending(i)
    /\ Fails(c)
    /\ future' = [i \in Items |-> IF i \in Rows(c) /\ Pending(i) THEN "cancelled"
                                  ELSE future[i]]
    /\ UNCHANGED <<running, queue, batch, active, worker, answer, publisherVars>>
-----------------------------------------------------------------------------
(* The lifespan                                                            *)

\* The steps of the shutdown, in order; without a shadow model its steps are skipped.
ShutdownOrder(now) ==
    CASE now = "serving" -> "primary_batcher"
      [] now = "primary_batcher" ->
            IF "shadow" \in Paths THEN "shadow_batcher" ELSE "stop_primary_publisher"
      [] now = "shadow_batcher" -> "stop_primary_publisher"
      [] now = "stop_primary_publisher" -> "join_primary_publisher"
      [] now = "join_primary_publisher" ->
            IF "shadow" \in Paths THEN "stop_shadow_publisher" ELSE "stopped"
      [] now = "stop_shadow_publisher" -> "join_shadow_publisher"
      [] now = "join_shadow_publisher" -> "stopped"

Advance ==
    /\ phase' = ShutdownOrder(phase)
    /\ UNCHANGED <<handler, putting>>

\* uvicorn is told to stop and no handler is left.
Shutdown ==
    /\ phase = "serving"
    /\ InFlight = {}
    /\ Advance
    /\ UNCHANGED <<publisherVars, batcherVars>>

ShutdownStep ==
    \/ phase = "primary_batcher" /\ CloseBatcher("primary") /\ Advance
    \/ phase = "shadow_batcher" /\ CloseBatcher("shadow") /\ Advance
    \/ phase = "stop_primary_publisher" /\ StopAccepting("primary") /\ Advance
                                       /\ UNCHANGED batcherVars
    \/ phase = "join_primary_publisher" /\ JoinAndStop("primary") /\ Advance
                                       /\ UNCHANGED batcherVars
    \/ phase = "stop_shadow_publisher" /\ StopAccepting("shadow") /\ Advance
                                      /\ UNCHANGED batcherVars
    \/ phase = "join_shadow_publisher" /\ JoinAndStop("shadow") /\ Advance
                                      /\ UNCHANGED batcherVars
-----------------------------------------------------------------------------
Handler(c) == Put(c) \/ Gather(c)
Timeouts(c) == PutTimeout(c) \/ ResponseTimeout(c)
Worker(p) == (Collect(p) \/ Dispatch(p)) /\ UNCHANGED serviceVars
Model(p) == (Respond(p) \/ RuntimeFails(p)) /\ UNCHANGED serviceVars
Publisher(p) == PublisherStep(p) /\ UNCHANGED <<batcherVars, serviceVars>>

Next ==
    \/ \E c \in Calls : Begin(c) \/ Handler(c) \/ Timeouts(c)
    \/ \E p \in Paths : Worker(p) \/ Model(p) \/ Publisher(p)
    \/ Shutdown
    \/ ShutdownStep

Spec == Init /\ [][Next]_vars

\* The event loop runs every task that can go on, and the HTTP client of the primary
\* path has an answer or an error within its timeout.  No timeout of the batcher has
\* to fire, and the shadow model never has to answer.
Fairness ==
    /\ \A c \in Calls : WF_vars(Handler(c))
    /\ \A p \in Paths : WF_vars(Worker(p)) /\ WF_vars(Publisher(p))
    /\ WF_vars(Model("primary"))
    /\ WF_vars(ShutdownStep)

FairSpec == Spec /\ Fairness
-----------------------------------------------------------------------------
\* A prediction is the one for the features of its own invocation, however the batch
\* was cut and whatever invocations were given up while it was in flight.
OwnPrediction == \A i \in Items : answer[i] \in {i, None}

\* An event of the primary path is only submitted for a call that is answered: the
\* monitoring never counts a prediction that its caller was told has failed.
EventOnlyForAnswered ==
    \A c \in Calls : Rows(c) \cap accepted # {} => handler[c] # "failed"

\* "Graceful shutdown drains the queue": an event that a publisher has accepted has
\* been offered to the sink when the publisher stops.
DrainedAtShutdown ==
    \A p \in Paths :
        publisher[p] = "stopped" => eventQueue[p] = << >> /\ eventBatch[p] = << >>

\* No caller and no shadow copy waits for a future that nobody will complete.
NothingLeftPending == phase = "stopped" => \A i \in Items : ~Pending(i)

\* Every invocation is decided once, and has an event only if it was predicted.
Outcomes == INSTANCE PredictionOutcomes WITH
    outcome <- [i \in Items |->
                  CASE future[i] = "none" -> "none"
                    [] future[i] = "pending" -> "open"
                    [] future[i] = "result" -> "predicted"
                    [] future[i] \in {"failed", "cancelled"} -> "failed"],
    events <- accepted

OutcomesSpec == Outcomes!Spec

\* Every call is answered or fails although no timeout of the batcher fires, the
\* queue is full at times and the shadow model never answers.
CallsEnd == \A c \in Calls : c \in InFlight ~> c \notin InFlight

\* A shutdown that has begun ends, also when the shadow model never answers.
ShutdownEnds == phase # "serving" ~> phase = "stopped"
=============================================================================
