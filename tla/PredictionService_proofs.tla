----------------------- MODULE PredictionService_proofs -----------------------
(***************************************************************************)
(* Proofs about PredictionService, for any calls, queues and batches.      *)
(*                                                                         *)
(* The argument rests on what an invocation that no row of a call has put  *)
(* on the queue yet can be: nobody holds it (HeldInv), so nobody completes *)
(* it.  Every pending future is then of a row that is still to be put, or  *)
(* of one that a batcher holds (PendingInv), and a batcher that is closed  *)
(* holds none (ClosedInv).                                                 *)
(***************************************************************************)
EXTENDS PredictionService, SequenceTheorems, TLAPS

Awaits == {"idle", "collecting", "flushing", "stopped"}
Futures == {"none", "pending", "result", "failed", "cancelled"}
Phases == {"serving", "primary_batcher", "shadow_batcher", "stop_primary_publisher",
           "join_primary_publisher", "stop_shadow_publisher", "join_shadow_publisher",
           "stopped"}

BatcherType ==
    /\ running \in [Paths -> BOOLEAN]
    /\ queue \in [Paths -> Seq(Items)]
    /\ batch \in [Paths -> Seq(Items)]
    /\ active \in [Paths -> Seq(Items)]
    /\ worker \in [Paths -> Awaits]
    /\ future \in [Items -> Futures]
    /\ answer \in [Items -> Items \cup {None}]

PublisherType ==
    /\ accepting \in [Paths -> BOOLEAN]
    /\ eventQueue \in [Paths -> Seq(Items)]
    /\ eventBatch \in [Paths -> Seq(Items)]
    /\ publisher \in [Paths -> {"idle", "collecting", "stopped"}]
    /\ unfinished \in [Paths -> Nat]
    /\ accepted \subseteq Items /\ offered \subseteq Items

ServiceType ==
    /\ handler \in [Calls -> {"idle", "putting", "waiting", "answered", "failed"}]
    /\ putting \in [Calls -> Nat]
    /\ \A c \in Calls : handler[c] = "putting" => putting[c] \in DOMAIN Primary[c]
    /\ phase \in Phases

TypeOK == BatcherType /\ PublisherType /\ ServiceType

\* Invocations of calls that have not begun, and rows that a handler is still to put.
NotPut ==
    {i \in Items : \E c \in Calls :
        \/ handler[c] = "idle" /\ (i \in Rows(c) \/ i = Shadow[c])
        \/ /\ handler[c] = "putting"
           /\ \E k \in DOMAIN Primary[c] : putting[c] <= k /\ Primary[c][k] = i}

Held(p) == Range(queue[p]) \cup Range(batch[p]) \cup Range(active[p])

HeldInv == \A p \in Paths : Held(p) \cap NotPut = {}

\* A batch in flight has asked for all its invocations that are pending.
FlushInv ==
    \A p \in Paths :
        worker[p] = "flushing" => \A i \in Range(batch[p]) : Pending(i) => i \in Range(active[p])

PendingInv ==
    \A i \in Items : Pending(i) =>
        i \in NotPut \/ \E p \in Paths : i \in Range(queue[p]) \cup Range(batch[p])

\* The futures of a call exist from its first step on, and those of an idle call do not.
CallInv ==
    \A c \in Calls :
        /\ handler[c] = "idle" =>
            \A i \in Items : i \in Rows(c) \/ i = Shadow[c] => future[i] = "none"
        /\ handler[c] # "idle" => \A i \in Rows(c) : future[i] # "none"
        /\ handler[c] = "failed" =>
            \A i \in Rows(c) \cap Traced : future[i] \in {"failed", "cancelled"}

\* An invocation that is still to be put has no prediction, and one with an event has.
EventInv ==
    /\ \A i \in NotPut : future[i] # "result"
    /\ accepted \subseteq {i \in Traced : future[i] = "result"}

\* What is closed, by phase.
Closed(p) ==
    /\ phase \notin {"serving", "primary_batcher"}
    /\ p = "shadow" => phase # "shadow_batcher"

Stopping(p) ==
    \/ p = "primary" /\ phase \in {"join_primary_publisher", "stop_shadow_publisher",
                                   "join_shadow_publisher", "stopped"}
    \/ p = "shadow" /\ phase \in {"join_shadow_publisher", "stopped"}

ClosedInv ==
    /\ phase # "serving" => InFlight = {}
    /\ \A p \in Paths : Closed(p) =>
            worker[p] = "stopped" /\ queue[p] = << >> /\ batch[p] = << >>

PublisherInv ==
    \A p \in Paths :
        /\ unfinished[p] = Len(eventQueue[p]) + Len(eventBatch[p])
        /\ publisher[p] = "stopped" => unfinished[p] = 0 /\ ~accepting[p]
        /\ Stopping(p) => ~accepting[p]

IInv ==
    /\ TypeOK
    /\ HeldInv /\ FlushInv /\ PendingInv /\ CallInv /\ EventInv /\ ClosedInv /\ PublisherInv

-----------------------------------------------------------------------------
(* Sequences by what they hold                                             *)

LEMMA RangeType ==
    ASSUME NEW s \in Seq(Items)
    PROVE  /\ Range(s) \subseteq Items
           /\ \A i \in Range(s) : \E k \in 1 .. Len(s) : s[k] = i
           /\ \A k \in 1 .. Len(s) : s[k] \in Range(s)
BY LenProperties, ElementOfSeq DEF Range

LEMMA RangeEmpty == Range(<< >>) = {}
BY DEF Range

LEMMA RangeAppend ==
    ASSUME NEW s \in Seq(Items), NEW i \in Items
    PROVE  /\ Append(s, i) \in Seq(Items) /\ Len(Append(s, i)) = Len(s) + 1
           /\ Range(Append(s, i)) = Range(s) \cup {i}
<1> DEFINE t == Append(s, i)
<1>1. /\ t \in Seq(Items) /\ Len(t) = Len(s) + 1 /\ Len(s) \in Nat
      /\ \A k \in 1 .. Len(s) : t[k] = s[k]
      /\ t[Len(s) + 1] = i
  BY AppendProperties, LenProperties
<1>2. Range(t) = {t[k] : k \in 1 .. Len(s) + 1} /\ Range(s) = {s[k] : k \in 1 .. Len(s)}
  BY <1>1, LenProperties DEF Range
<1>3. 1 .. Len(s) + 1 = (1 .. Len(s)) \cup {Len(s) + 1}
  BY <1>1
<1> HIDE DEF t
<1>4. Range(t) = Range(s) \cup {i}
  BY <1>1, <1>2, <1>3
<1>5. QED
  BY <1>1, <1>4 DEF t

LEMMA RangeTail ==
    ASSUME NEW s \in Seq(Items), s # << >>
    PROVE  /\ Head(s) \in Items /\ Tail(s) \in Seq(Items) /\ Len(Tail(s)) = Len(s) - 1
           /\ Range(s) = {Head(s)} \cup Range(Tail(s))
<1> DEFINE t == Tail(s)
<1>1. /\ Head(s) \in Items /\ t \in Seq(Items) /\ Len(t) = Len(s) - 1
      /\ \A k \in 1 .. Len(t) : t[k] = s[k + 1]
  BY HeadTailProperties
<1>2. Head(s) = s[1] /\ Len(s) \in Nat \ {0}
  BY EmptySeq
<1>3. Range(t) = {t[k] : k \in 1 .. Len(t)} /\ Range(s) = {s[k] : k \in 1 .. Len(s)}
  BY <1>1, LenProperties DEF Range
<1> HIDE DEF t
<1>4. \A k \in 1 .. Len(s) : k = 1 \/ (k - 1 \in 1 .. Len(t) /\ t[k - 1] = s[k])
  BY <1>1, <1>2
<1>5. \A k \in 1 .. Len(t) : k + 1 \in 1 .. Len(s) /\ t[k] = s[k + 1]
  BY <1>1, <1>2
<1>6. Range(s) = {Head(s)} \cup Range(t)
  <2>1. Range(s) \subseteq {Head(s)} \cup Range(t)
    BY <1>2, <1>3, <1>4
  <2>2. Range(t) \subseteq Range(s)
    BY <1>3, <1>5
  <2>3. Head(s) \in Range(s)
    BY <1>2, <1>3
  <2>4. QED
    BY <2>1, <2>2, <2>3
<1>7. QED
  BY <1>1, <1>6 DEF t

\* The events that fit are some of the events, and no more than there is room for.
LEMMA RangeFit ==
    ASSUME NEW q \in Seq(Items), NEW s \in Seq(Items), NEW n \in 0 .. Len(s)
    PROVE  /\ SubSeq(s, 1, n) \in Seq(Items) /\ Len(SubSeq(s, 1, n)) = n
           /\ Range(SubSeq(s, 1, n)) \subseteq Range(s)
           /\ q \o SubSeq(s, 1, n) \in Seq(Items)
           /\ Len(q \o SubSeq(s, 1, n)) = Len(q) + n
<1> DEFINE t == SubSeq(s, 1, n)
<1>1. Len(s) \in Nat /\ \A k \in 1 .. n : s[k] \in Items
  BY LenProperties, ElementOfSeq
<1>2. t \in Seq(Items) /\ Len(t) = n /\ \A k \in 1 .. n : t[k] = s[k]
  BY <1>1, SubSeqProperties
<1>3. Range(t) \subseteq Range(s)
  <2>1. Range(t) = {t[k] : k \in 1 .. n} /\ Range(s) = {s[k] : k \in 1 .. Len(s)}
    BY <1>2, LenProperties DEF Range
  <2> HIDE DEF t
  <2>2. QED
    BY <1>1, <1>2, <2>1
<1>4. q \o t \in Seq(Items) /\ Len(q \o t) = Len(q) + n
  BY <1>2, ConcatProperties
<1>5. QED
  BY <1>2, <1>3, <1>4

\* InOrder gives a sequence of just these members.
LEMMA InOrderType ==
    ASSUME NEW items \in SUBSET Items, NEW s \in Seq(Items), NEW t \in InOrder(items, s)
    PROVE  t \in Seq(Items) /\ Range(t) = items
<1>1. Len(s) \in Nat
  BY LenProperties
<1>2. PICK m \in 0 .. Len(s) : t \in [1 .. m -> items]
  BY DEF InOrder, SeqOf
<1>3. m \in Nat /\ t \in [1 .. m -> Items]
  BY <1>1, <1>2
<1>4. t \in Seq(Items)
  BY <1>3, SeqDef
<1>5. QED
  BY <1>4 DEF InOrder

-----------------------------------------------------------------------------
(* Types                                                                   *)

\* The rows of a call are invocations of no other call.
LEMMA RowsFacts ==
    ASSUME NEW c \in Calls
    PROVE  /\ Primary[c] \in Seq(Items) /\ Len(Primary[c]) \in Nat \ {0}
           /\ DOMAIN Primary[c] = 1 .. Len(Primary[c])
           /\ Rows(c) \subseteq Items
           /\ Rows(c) = {Primary[c][k] : k \in DOMAIN Primary[c]}
           /\ \A d \in Calls : d # c => Rows(c) \cap Rows(d) = {}
           /\ \A d \in Calls : Shadow[d] \in Items => Shadow[d] \notin Rows(c)
           /\ \A d \in Calls : Shadow[c] \in Items /\ Shadow[d] = Shadow[c] => d = c
           /\ Shadow[c] \in Items => "shadow" \in Paths
           /\ Rows(c) \cap Traced # {} => Len(Primary[c]) = 1
<1>1. Primary[c] \in Seq(Items) /\ Primary[c] # << >>
  BY CallsAssumption
<1>2. /\ Len(Primary[c]) \in Nat \ {0}
      /\ DOMAIN Primary[c] = 1 .. Len(Primary[c])
  BY <1>1, EmptySeq, LenProperties
<1>3. Rows(c) \subseteq Items
  BY <1>1, RangeType DEF Rows
<1>4. \A d \in Calls : d # c => Rows(c) \cap Rows(d) = {}
  BY CallsAssumption DEF Rows, Range
<1>5. None \notin Items
  BY BatcherAssumption
<1>6. QED
  BY <1>1, <1>2, <1>3, <1>4, <1>5, CallsAssumption DEF Rows, Range

\* Futures that are not done may be completed, and nothing else happens to a future.
Completes ==
    /\ future' \in [Items -> Futures]
    /\ \A i \in Items : future'[i] # future[i] =>
            Pending(i) /\ future'[i] \in {"result", "failed", "cancelled"}

\* A failing of futures fails the ones that are pending.
LEMMA FailingCompletes ==
    ASSUME TypeOK, NEW S, future' = Failing(S)
    PROVE  /\ Completes
           /\ \A i \in Items : future'[i] = IF i \in S /\ Pending(i) THEN "failed" ELSE future[i]
BY DEF TypeOK, BatcherType, Failing, Completes, Pending, Futures

\* What is submitted is queued or dropped.
LEMMA SubmitType ==
    ASSUME TypeOK, NEW p \in Paths, NEW events \in Seq(Items), SubmitEvents(p, events)
    PROVE  /\ PublisherType' /\ UNCHANGED <<accepting, eventBatch, publisher, offered>>
           /\ accepted' \subseteq accepted \cup Range(events) /\ accepted \subseteq accepted'
           /\ \E n \in Nat :
                /\ ~accepting[p] => n = 0
                /\ unfinished'[p] = unfinished[p] + n
                /\ Len(eventQueue'[p]) = Len(eventQueue[p]) + n
           /\ \A q \in Paths : q # p =>
                unfinished'[q] = unfinished[q] /\ eventQueue'[q] = eventQueue[q]
<1> DEFINE room == IF accepting[p] THEN EventQueueMax - Len(eventQueue[p]) ELSE 0
           n == IF Len(events) < room THEN Len(events) ELSE room
           fit == SubSeq(events, 1, n)
<1>0. PublisherType
  BY DEF TypeOK
<1>1. eventQueue[p] \in Seq(Items) /\ Len(eventQueue[p]) \in Nat /\ Len(events) \in Nat
  BY <1>0, LenProperties DEF PublisherType
<1>2. EventQueueMax \in Nat
  BY EventBoundsAssumption
<1>3. /\ eventQueue' = [eventQueue EXCEPT ![p] = @ \o fit]
      /\ unfinished' = [unfinished EXCEPT ![p] = @ + Len(fit)]
      /\ accepted' = accepted \cup Range(fit)
      /\ UNCHANGED <<accepting, eventBatch, publisher, offered>>
  BY DEF SubmitEvents
<1>4. n \in Int
  BY <1>1, <1>2
<1>5. CASE n >= 0
  <2>1. n \in 0 .. Len(events) /\ (~accepting[p] => n = 0)
    BY <1>1, <1>2, <1>5
  <2> HIDE DEF n
  <2>2. /\ fit \in Seq(Items) /\ Len(fit) = n /\ Range(fit) \subseteq Range(events)
        /\ eventQueue[p] \o fit \in Seq(Items)
        /\ Len(eventQueue[p] \o fit) = Len(eventQueue[p]) + n
    BY <1>1, <2>1, RangeFit
  <2> HIDE DEF fit
  <2>3. /\ eventQueue' \in [Paths -> Seq(Items)] /\ unfinished' \in [Paths -> Nat]
        /\ accepted' \subseteq Items
    BY <1>0, <1>1, <1>3, <2>1, <2>2, RangeType DEF PublisherType
  <2>4. PublisherType'
    BY <1>0, <1>3, <2>3 DEF PublisherType
  <2>5. n \in Nat /\ unfinished'[p] = unfinished[p] + n
        /\ Len(eventQueue'[p]) = Len(eventQueue[p]) + n
    BY <1>0, <1>1, <1>3, <2>1, <2>2 DEF PublisherType
  <2>6. QED
    BY <1>0, <1>3, <2>1, <2>2, <2>4, <2>5 DEF PublisherType
<1>6. CASE n < 0
  <2> HIDE DEF n
  <2>1. fit = << >>
    BY <1>1, <1>4, <1>6, SubSeqEmpty
  <2>2. /\ eventQueue[p] \o fit = eventQueue[p] /\ Len(fit) = 0 /\ Range(fit) = {}
    BY <1>1, <2>1, ConcatEmptySeq, EmptySeq, RangeEmpty
  <2> HIDE DEF fit
  <2>3. UNCHANGED <<eventQueue, unfinished, accepted>>
    BY <1>0, <1>1, <1>3, <2>2 DEF PublisherType
  <2>4. /\ 0 \in Nat /\ unfinished'[p] = unfinished[p] + 0
        /\ Len(eventQueue'[p]) = Len(eventQueue[p]) + 0
    BY <1>0, <1>1, <2>3 DEF PublisherType
  <2>5. PublisherType'
    BY <1>0, <1>3, <2>3 DEF PublisherType
  <2>6. QED
    BY <1>3, <2>3, <2>4, <2>5
<1>7. QED
  BY <1>4, <1>5, <1>6

\* What an answer of the model does: it completes the pending invocations of the request.
LEMMA RespondFacts ==
    ASSUME TypeOK, NEW p \in Paths, Respond(p)
    PROVE  \E events \in Seq(Items), predicted \in SUBSET Items :
                /\ FlushEnds(p) /\ Completes /\ UNCHANGED <<running, queue>>
                /\ \A i \in Range(active[p]) : Pending(i) => future'[i] # "pending"
                /\ \A i \in Items :
                        future'[i] # future[i] => i \in Range(active[p]) /\ Pending(i)
                /\ \A i \in predicted : Pending(i) /\ future'[i] = "result"
                /\ \A i \in Items : future'[i] = "result" => future[i] = "result" \/ i \in predicted
                /\ answer' \in [Items -> Items \cup {None}]
                /\ \A i \in Items : answer'[i] # answer[i] => answer'[i] = i
                /\ SubmitEvents(p, events) /\ Range(events) = predicted \cap Traced
<1>1. active[p] \in Seq(Items) /\ future \in [Items -> Futures]
      /\ answer \in [Items -> Items \cup {None}]
  BY DEF TypeOK, BatcherType
<1>2. DOMAIN active[p] = 1 .. Len(active[p]) /\ \A k \in DOMAIN active[p] : active[p][k] \in Items
  BY <1>1, LenProperties, ElementOfSeq
<1> DEFINE rows == RowsToComplete(p)
           Row(i) == CHOOSE k \in rows : active[p][k] = i
           completed == {active[p][k] : k \in rows}
<1>3. rows = {k \in DOMAIN active[p] : Pending(active[p][k])}
  BY DEF RowsToComplete, Zipped
<1>4. completed = {i \in Range(active[p]) : Pending(i)} /\ completed \subseteq Items
  BY <1>2, <1>3 DEF Range
<1>5. \A i \in completed : Row(i) \in rows /\ active[p][Row(i)] = i
  OBVIOUS
<1> HIDE DEF rows, completed
<1>6. PICK malformed \in SUBSET Range(active[p]) :
            /\ FlushEnds(p)
            /\ future' = [i \in Items |-> IF i \in completed \ malformed THEN "result"
                                          ELSE IF i \in completed THEN "failed"
                                          ELSE future[i]]
            /\ answer' = [i \in Items |-> IF i \in completed \ malformed THEN active[p][Row(i)]
                                          ELSE answer[i]]
            /\ \E events \in InOrder((completed \ malformed) \cap Traced, active[p]) :
                 SubmitEvents(p, events)
            /\ UNCHANGED <<running, queue>>
  BY DEF Respond, Zipped, completed, rows
<1> DEFINE predicted == completed \ malformed
<1>7. PICK events \in InOrder(predicted \cap Traced, active[p]) : SubmitEvents(p, events)
  BY <1>6
<1>8. events \in Seq(Items) /\ Range(events) = predicted \cap Traced
  BY <1>1, <1>4, InOrderType
<1>9. Completes
  BY <1>1, <1>4, <1>6 DEF Completes, Futures, Pending
<1>10. \A i \in Items : answer'[i] # answer[i] => answer'[i] = i
  BY <1>5, <1>6
<1>11. answer' \in [Items -> Items \cup {None}]
  <2>1. \A i \in Items : answer'[i] \in Items \cup {None}
    BY <1>1, <1>10
  <2>2. QED
    BY <1>6, <2>1
<1>12. /\ \A i \in Range(active[p]) : Pending(i) => future'[i] # "pending"
       /\ \A i \in Items : future'[i] # future[i] => i \in Range(active[p]) /\ Pending(i)
       /\ \A i \in predicted : Pending(i) /\ future'[i] = "result"
       /\ \A i \in Items : future'[i] = "result" => future[i] = "result" \/ i \in predicted
  BY <1>1, <1>4, <1>6, RangeType
<1>13. predicted \in SUBSET Items
  BY <1>4
<1>14. QED
  BY <1>6, <1>7, <1>8, <1>9, <1>10, <1>11, <1>12, <1>13

LEMMA BeginFacts ==
    ASSUME TypeOK, NEW c \in Calls, Begin(c)
    PROVE  /\ future' \in [Items -> Futures]
           /\ queue' \in [Paths -> Seq(Items)]
           /\ \A p \in Paths :
                \/ queue'[p] = queue[p]
                \/ /\ p = "shadow" /\ Shadow[c] \in Items /\ future'[Shadow[c]] = "pending"
                   /\ queue'[p] = Append(queue[p], Shadow[c])
           /\ \A i \in Rows(c) : future'[i] = "pending"
           /\ \A i \in Items : i \notin Rows(c) /\ i # Shadow[c] => future'[i] = future[i]
           /\ \A i \in Items : i = Shadow[c] /\ future'[i] # future[i] =>
                \/ future'[i] = "cancelled"
                \/ future'[i] = "pending" /\ i \in Range(queue'["shadow"]) /\ "shadow" \in Paths
<1>1. Shadow[c] \in Items \cup {None} /\ None \notin Items
  BY CallsAssumption, BatcherAssumption
<1>2. queue \in [Paths -> Seq(Items)] /\ future \in [Items -> Futures]
  BY DEF TypeOK, BatcherType
<1>3. future' \in [Items -> Futures]
  BY <1>2 DEF Begin, Futures
<1>4. CASE Copied(c) /\ HasRoom("shadow")
  <2>1. Shadow[c] \in Items /\ "shadow" \in Paths
    BY <1>1, <1>4, RowsFacts DEF Copied
  <2>2. queue' = [queue EXCEPT !["shadow"] = Append(@, Shadow[c])]
    BY <1>4 DEF Begin
  <2>3. /\ Append(queue["shadow"], Shadow[c]) \in Seq(Items)
        /\ Shadow[c] \in Range(Append(queue["shadow"], Shadow[c]))
    BY <1>2, <2>1, RangeAppend
  <2>4. queue' \in [Paths -> Seq(Items)] /\ Shadow[c] \in Range(queue'["shadow"])
        /\ \A p \in Paths : queue'[p] = queue[p]
                \/ (p = "shadow" /\ queue'[p] = Append(queue[p], Shadow[c]))
    BY <1>2, <2>1, <2>2, <2>3
  <2>5. future'[Shadow[c]] = "pending"
    BY <1>4, <2>1 DEF Begin
  <2>6. \A i \in Items : i \in Rows(c) \/ i = Shadow[c] => future'[i] = "pending"
    BY <1>4, <2>1 DEF Begin
  <2>7. \A i \in Items : i \notin Rows(c) /\ i # Shadow[c] => future'[i] = future[i]
    BY <1>4, <2>1 DEF Begin
  <2>8. QED
    BY <1>3, <2>1, <2>4, <2>5, <2>6, <2>7, RowsFacts
<1>5. CASE ~(Copied(c) /\ HasRoom("shadow"))
  <2>1. queue' = queue
    BY <1>5 DEF Begin
  <2>2. \A i \in Items : future'[i] = IF i \in Rows(c) THEN "pending"
                                      ELSE IF Copied(c) /\ i = Shadow[c] THEN "cancelled"
                                      ELSE future[i]
    BY <1>5 DEF Begin
  <2>3. QED
    BY <1>2, <1>3, <2>1, <2>2, RowsFacts
<1>6. QED
  BY <1>4, <1>5

\* A step of the loop that is none of the callers' or of the shutdown's.
Task(p) == Worker(p) \/ Model(p) \/ Publisher(p)

LEMMA TaskType ==
    ASSUME TypeOK, PublisherInv, NEW p \in Paths, Task(p)
    PROVE  TypeOK'
<1>a. BatcherType /\ PublisherType /\ ServiceType
  BY DEF TypeOK
<1>1. CASE Worker(p)
  <2>1. PublisherType' /\ ServiceType'
    BY <1>a, <1>1 DEF Worker, Collect, Dispatch, PublisherType, ServiceType, serviceVars,
                      publisherVars
  <2>2. CASE Collect(p)
    <3>1. queue[p] \in Seq(Items) /\ batch[p] \in Seq(Items) /\ queue[p] # << >>
      BY <1>a, <2>2 DEF BatcherType, Collect
    <3>2. Tail(queue[p]) \in Seq(Items) /\ Append(batch[p], Head(queue[p])) \in Seq(Items)
      BY <3>1, RangeTail, RangeAppend
    <3>3. BatcherType'
      BY <1>a, <2>2, <3>2 DEF BatcherType, Collect, Awaits
    <3>4. QED
      BY <2>1, <3>3 DEF TypeOK
  <2>3. CASE Dispatch(p)
    <3> DEFINE wanted == {i \in Range(batch[p]) : Pending(i)}
    <3>1. batch[p] \in Seq(Items) /\ wanted \in SUBSET Items /\ << >> \in Seq(Items)
      BY <1>a, RangeType, EmptySeq DEF BatcherType
    <3>2. \A inputs \in InOrder(wanted, batch[p]) : inputs \in Seq(Items)
      BY <3>1, InOrderType
    <3>3. batch' \in [Paths -> Seq(Items)] /\ active' \in [Paths -> Seq(Items)]
      BY <1>a, <2>3, <3>1, <3>2 DEF BatcherType, Dispatch
    <3>4. BatcherType'
      BY <1>a, <2>3, <3>3 DEF BatcherType, Dispatch, Awaits
    <3>5. QED
      BY <2>1, <3>4 DEF TypeOK
  <2>4. QED
    BY <1>1, <2>2, <2>3 DEF Worker
<1>2. CASE Model(p)
  <2>1. ServiceType' /\ << >> \in Seq(Items)
    BY <1>a, <1>2, EmptySeq DEF Model, ServiceType, serviceVars
  <2>2. ASSUME FlushEnds(p), future' \in [Items -> Futures],
               answer' \in [Items -> Items \cup {None}], UNCHANGED <<running, queue>>
        PROVE  BatcherType'
    BY <1>a, <2>1, <2>2 DEF BatcherType, FlushEnds, Awaits
  <2>3. CASE Respond(p)
    <3>1. PICK events \in Seq(Items) :
                /\ FlushEnds(p) /\ Completes /\ UNCHANGED <<running, queue>>
                /\ answer' \in [Items -> Items \cup {None}] /\ SubmitEvents(p, events)
      BY <2>3, RespondFacts
    <3>2. BatcherType' /\ PublisherType'
      BY <2>2, <3>1, SubmitType DEF Completes
    <3>3. QED
      BY <2>1, <3>2 DEF TypeOK
  <2>4. CASE RuntimeFails(p)
    <3>1. future' \in [Items -> Futures]
      BY <2>4, FailingCompletes DEF RuntimeFails, Completes
    <3>2. BatcherType'
      BY <1>a, <2>2, <2>4, <3>1 DEF RuntimeFails, BatcherType
    <3>3. PublisherType'
      BY <1>a, <2>4 DEF RuntimeFails, PublisherType, publisherVars
    <3>4. QED
      BY <2>1, <3>2, <3>3 DEF TypeOK
  <2>5. QED
    BY <1>2, <2>3, <2>4 DEF Model
<1>3. CASE Publisher(p)
  <2>1. BatcherType' /\ ServiceType'
    BY <1>a, <1>3 DEF Publisher, BatcherType, ServiceType, batcherVars, serviceVars
  <2>2. CASE CollectEvent(p)
    <3>1. /\ eventQueue[p] \in Seq(Items) /\ eventBatch[p] \in Seq(Items)
          /\ eventQueue[p] # << >>
      BY <1>a, <2>2 DEF PublisherType, CollectEvent
    <3>2. /\ Tail(eventQueue[p]) \in Seq(Items)
          /\ Append(eventBatch[p], Head(eventQueue[p])) \in Seq(Items)
      BY <3>1, RangeTail, RangeAppend
    <3>3. PublisherType'
      BY <1>a, <2>2, <3>2 DEF PublisherType, CollectEvent
    <3>4. QED
      BY <2>1, <3>3 DEF TypeOK
  <2>3. CASE PublishBatch(p)
    <3>1. /\ eventBatch[p] \in Seq(Items) /\ Len(eventBatch[p]) \in Nat
          /\ Len(eventQueue[p]) \in Nat /\ << >> \in Seq(Items)
      BY <1>a, LenProperties, EmptySeq DEF PublisherType
    <3>2. unfinished[p] - Len(eventBatch[p]) \in Nat
      <4>1. unfinished[p] = Len(eventQueue[p]) + Len(eventBatch[p])
        BY DEF PublisherInv
      <4>2. \A a, b \in Nat : a + b - b \in Nat
        OBVIOUS
      <4>3. QED
        BY <3>1, <4>1, <4>2
    <3>3. unfinished' \in [Paths -> Nat]
      BY <1>a, <2>3, <3>2 DEF PublisherType, PublishBatch
    <3>4. Range(eventBatch[p]) \subseteq Items
      BY <3>1, RangeType
    <3>5. PublisherType'
      BY <1>a, <2>3, <3>1, <3>3, <3>4 DEF PublisherType, PublishBatch
    <3>6. QED
      BY <2>1, <3>5 DEF TypeOK
  <2>4. QED
    BY <1>3, <2>2, <2>3 DEF Publisher, PublisherStep
<1>4. QED
  BY <1>1, <1>2, <1>3 DEF Task

\* The steps of a handler.
Caller(c) == Begin(c) \/ Handler(c) \/ Timeouts(c)

LEMMA CallerType ==
    ASSUME TypeOK, NEW c \in Calls, Caller(c)
    PROVE  TypeOK'
<1>a. BatcherType /\ PublisherType /\ ServiceType
  BY DEF TypeOK
<1>1. PublisherType'
  BY <1>a DEF Caller, Handler, Timeouts, Begin, Put, Gather, PutTimeout, ResponseTimeout,
              PublisherType, publisherVars
<1>2. CASE Begin(c)
  <2>1. BatcherType'
    BY <1>a, <1>2, BeginFacts DEF BatcherType, Begin
  <2>2. ServiceType'
    BY <1>a, <1>2, RowsFacts DEF ServiceType, Begin
  <2>3. QED
    BY <1>1, <2>1, <2>2 DEF TypeOK
<1>3. CASE Put(c)
  <2>1. putting[c] \in 1 .. Len(Primary[c]) /\ Primary[c][putting[c]] \in Items
    BY <1>a, <1>3, RowsFacts DEF ServiceType, Put
  <2>2. Append(queue["primary"], Primary[c][putting[c]]) \in Seq(Items)
    BY <1>a, <2>1, RangeAppend, PathsAssumption DEF BatcherType
  <2>3. BatcherType'
    BY <1>a, <1>3, <2>2 DEF BatcherType, Put
  <2>4. putting[c] # Len(Primary[c]) => putting[c] + 1 \in DOMAIN Primary[c]
    BY <2>1, RowsFacts
  <2>5. ServiceType'
    BY <1>a, <1>3, <2>4 DEF ServiceType, Put
  <2>6. QED
    BY <1>1, <2>3, <2>5 DEF TypeOK
<1>4. CASE Gather(c)
  <2>1. BatcherType'
    BY <1>a, <1>4 DEF BatcherType, Gather, batcherVars
  <2>2. ServiceType'
    BY <1>a, <1>4 DEF ServiceType, Gather, Fails
  <2>3. QED
    BY <1>1, <2>1, <2>2 DEF TypeOK
<1>5. CASE PutTimeout(c)
  <2>1. BatcherType'
    BY <1>a, <1>5, FailingCompletes DEF BatcherType, PutTimeout, Completes
  <2>2. ServiceType'
    BY <1>a, <1>5 DEF ServiceType, PutTimeout, Fails
  <2>3. QED
    BY <1>1, <2>1, <2>2 DEF TypeOK
<1>6. CASE ResponseTimeout(c)
  <2>1. BatcherType'
    BY <1>a, <1>6 DEF BatcherType, ResponseTimeout, Futures
  <2>2. ServiceType'
    BY <1>a, <1>6 DEF ServiceType, ResponseTimeout, Fails
  <2>3. QED
    BY <1>1, <2>1, <2>2 DEF TypeOK
<1>7. QED
  BY <1>2, <1>3, <1>4, <1>5, <1>6 DEF Caller, Handler, Timeouts

\* The next phase is a phase.
LEMMA NextPhase ==
    ASSUME phase \in Phases \ {"stopped"}
    PROVE  ShutdownOrder(phase) \in Phases
BY DEF Phases, ShutdownOrder

LEMMA ShutdownType ==
    ASSUME TypeOK, Shutdown \/ ShutdownStep
    PROVE  TypeOK'
<1>a. BatcherType /\ PublisherType /\ ServiceType /\ << >> \in Seq(Items)
  BY EmptySeq DEF TypeOK
<1>1. phase \in Phases \ {"stopped"} /\ Advance
  BY <1>a DEF Shutdown, ShutdownStep, ServiceType, Phases
<1>2. ServiceType'
  BY <1>a, <1>1, NextPhase DEF Advance, ServiceType
<1>3. CASE UNCHANGED batcherVars
  <2>1. BatcherType'
    BY <1>a, <1>3 DEF BatcherType, batcherVars
  <2>2. PublisherType'
    BY <1>a DEF Shutdown, ShutdownStep, CloseBatcher, StopAccepting, JoinAndStop, PublisherType,
                publisherVars
  <2>3. QED
    BY <1>2, <2>1, <2>2 DEF TypeOK
<1>4. ASSUME NEW p \in {"primary", "shadow"}, CloseBatcher(p)
      PROVE  TypeOK'
  <2>1. BatcherType'
    BY <1>a, <1>4, FailingCompletes DEF BatcherType, CloseBatcher, Completes, Awaits
  <2>2. PublisherType'
    BY <1>a, <1>4 DEF CloseBatcher, PublisherType, publisherVars
  <2>3. QED
    BY <1>2, <2>1, <2>2 DEF TypeOK
<1>5. QED
  BY <1>3, <1>4 DEF Shutdown, ShutdownStep

LEMMA TypeStep ==
    ASSUME TypeOK, PublisherInv, [Next]_vars
    PROVE  TypeOK'
<1>1. CASE UNCHANGED vars
  BY <1>1 DEF vars, TypeOK, BatcherType, PublisherType, ServiceType, batcherVars, publisherVars,
              serviceVars
<1>2. QED
  BY <1>1, TaskType, CallerType, ShutdownType DEF Next, Task, Caller

-----------------------------------------------------------------------------
(* Publishers                                                              *)

\* A step after which every publisher is what it was.
LEMMA PublishersStay ==
    ASSUME PublisherInv, \A p \in Paths : Stopping(p)' => Stopping(p),
           UNCHANGED <<accepting, eventQueue, eventBatch, publisher, unfinished>>
    PROVE  PublisherInv'
BY DEF PublisherInv

LEMMA PublisherStepInv ==
    ASSUME TypeOK, PublisherInv, [Next]_vars
    PROVE  PublisherInv'
<1>a. PublisherType /\ phase \in Phases
  BY DEF TypeOK, ServiceType
<1>b. \A p \in Paths :
        /\ eventQueue[p] \in Seq(Items) /\ Len(eventQueue[p]) \in Nat
        /\ eventBatch[p] \in Seq(Items) /\ Len(eventBatch[p]) \in Nat
        /\ unfinished[p] = Len(eventQueue[p]) + Len(eventBatch[p])
        /\ publisher[p] = "stopped" => unfinished[p] = 0 /\ ~accepting[p]
        /\ Stopping(p) => ~accepting[p]
  BY <1>a, LenProperties DEF PublisherType, PublisherInv
<1>1. CASE phase' = phase /\ UNCHANGED <<accepting, eventQueue, eventBatch, publisher, unfinished>>
  BY <1>1, PublishersStay DEF Stopping
<1>2. ASSUME NEW c \in Calls, Caller(c) PROVE PublisherInv'
  BY <1>1, <1>2 DEF Caller, Handler, Timeouts, Begin, Put, Gather, PutTimeout, ResponseTimeout,
                    Fails, publisherVars
<1>3. ASSUME NEW p \in Paths, Worker(p) PROVE PublisherInv'
  BY <1>1, <1>3 DEF Worker, Collect, Dispatch, publisherVars, serviceVars
<1>4. ASSUME NEW p \in Paths, Model(p) PROVE PublisherInv'
  <2>1. CASE RuntimeFails(p)
    BY <1>1, <1>4, <2>1 DEF Model, RuntimeFails, publisherVars, serviceVars
  <2>2. CASE Respond(p)
    <3>1. PICK events \in Seq(Items) : SubmitEvents(p, events)
      BY <2>2, RespondFacts
    <3>2. PICK n \in Nat :
                /\ ~accepting[p] => n = 0
                /\ unfinished'[p] = unfinished[p] + n
                /\ Len(eventQueue'[p]) = Len(eventQueue[p]) + n
      BY <3>1, SubmitType
    <3>3. /\ UNCHANGED <<accepting, eventBatch, publisher>>
          /\ \A q \in Paths : q # p =>
                unfinished'[q] = unfinished[q] /\ eventQueue'[q] = eventQueue[q]
      BY <3>1, SubmitType
    <3>4. phase' = phase
      BY <1>4 DEF Model, serviceVars
    <3>5. \A a, b, k \in Nat : (a + b) + k = (a + k) + b
      OBVIOUS
    <3>6. unfinished'[p] = Len(eventQueue'[p]) + Len(eventBatch[p])
      <4>1. /\ Len(eventQueue[p]) \in Nat /\ Len(eventBatch[p]) \in Nat
            /\ unfinished[p] = Len(eventQueue[p]) + Len(eventBatch[p])
        BY <1>b
      <4>2. (Len(eventQueue[p]) + Len(eventBatch[p])) + n = (Len(eventQueue[p]) + n) + Len(eventBatch[p])
        BY <3>5, <4>1, Zenon
      <4>3. unfinished'[p] = unfinished[p] + n /\ Len(eventQueue'[p]) = Len(eventQueue[p]) + n
        BY <3>2
      <4>4. QED
        BY <4>1, <4>2, <4>3, Zenon
    <3>7. publisher[p] = "stopped" => unfinished'[p] = 0
      <4>1. publisher[p] = "stopped" => unfinished[p] = 0 /\ n = 0
        BY <1>b, <3>2
      <4>2. 0 + 0 = 0
        OBVIOUS
      <4>3. unfinished'[p] = unfinished[p] + n
        BY <3>2
      <4>4. QED
        BY <4>1, <4>2, <4>3, Zenon
    <3>8. QED
      BY <1>b, <3>3, <3>4, <3>6, <3>7 DEF PublisherInv, Stopping
  <2>3. QED
    BY <1>4, <2>1, <2>2 DEF Model
<1>5. ASSUME NEW p \in Paths, Publisher(p) PROVE PublisherInv'
  <2>1. phase' = phase /\ accepting' = accepting
    BY <1>5 DEF Publisher, serviceVars, PublisherStep, CollectEvent, PublishBatch
  <2>2. CASE CollectEvent(p)
    <3>1. /\ Len(Tail(eventQueue[p])) = Len(eventQueue[p]) - 1
          /\ Len(Append(eventBatch[p], Head(eventQueue[p]))) = Len(eventBatch[p]) + 1
      BY <1>b, <2>2, RangeTail, RangeAppend DEF CollectEvent
    <3>2. \A a, b \in Nat : (a - 1) + (b + 1) = a + b
      OBVIOUS
    <3>3. /\ eventQueue'[p] = Tail(eventQueue[p])
          /\ eventBatch'[p] = Append(eventBatch[p], Head(eventQueue[p]))
          /\ publisher'[p] = "collecting"
          /\ unfinished' = unfinished
          /\ \A q \in Paths : q # p => /\ eventQueue'[q] = eventQueue[q]
                                       /\ eventBatch'[q] = eventBatch[q]
                                       /\ publisher'[q] = publisher[q]
      BY <1>a, <2>2 DEF PublisherType, CollectEvent
    <3>4. unfinished'[p] = Len(eventQueue'[p]) + Len(eventBatch'[p])
      <4>1. /\ Len(eventQueue[p]) \in Nat /\ Len(eventBatch[p]) \in Nat
            /\ unfinished[p] = Len(eventQueue[p]) + Len(eventBatch[p])
        BY <1>b
      <4>2. (Len(eventQueue[p]) - 1) + (Len(eventBatch[p]) + 1)
            = Len(eventQueue[p]) + Len(eventBatch[p])
        BY <3>2, <4>1, Zenon
      <4>3. /\ Len(eventQueue'[p]) = Len(eventQueue[p]) - 1
            /\ Len(eventBatch'[p]) = Len(eventBatch[p]) + 1
            /\ unfinished'[p] = unfinished[p]
        BY <3>1, <3>3, Zenon
      <4>4. QED
        BY <4>1, <4>2, <4>3, Zenon
    <3>5. QED
      BY <1>b, <2>1, <3>3, <3>4 DEF PublisherInv, Stopping
  <2>3. CASE PublishBatch(p)
    <3>1. /\ eventBatch'[p] = << >> /\ publisher'[p] = "idle" /\ eventQueue' = eventQueue
          /\ unfinished'[p] = unfinished[p] - Len(eventBatch[p])
          /\ \A q \in Paths : q # p => /\ unfinished'[q] = unfinished[q]
                                       /\ eventBatch'[q] = eventBatch[q]
                                       /\ publisher'[q] = publisher[q]
      BY <1>a, <2>3 DEF PublisherType, PublishBatch
    <3>2. \A a, b \in Nat : (a + b) - b = a + 0
      OBVIOUS
    <3>3. unfinished'[p] = Len(eventQueue'[p]) + Len(eventBatch'[p])
      BY <1>b, <3>1, <3>2, EmptySeq
    <3>4. QED
      BY <1>b, <2>1, <3>1, <3>3 DEF PublisherInv, Stopping
  <2>4. QED
    BY <1>5, <2>2, <2>3 DEF Publisher, PublisherStep
<1>6. CASE Shutdown \/ ShutdownStep
  <2>1. ASSUME NEW p \in {"primary", "shadow"}, StopAccepting(p), Advance,
               phase = IF p = "primary" THEN "stop_primary_publisher"
                                        ELSE "stop_shadow_publisher"
        PROVE  PublisherInv'
    <3>1. \A q \in Paths : accepting'[q] = IF q = p THEN FALSE ELSE accepting[q]
      BY <1>a, <2>1 DEF PublisherType, StopAccepting
    <3>2. \A q \in Paths : Stopping(q)' => Stopping(q) \/ q = p
      BY <2>1, PathsAssumption DEF Advance, ShutdownOrder, Stopping
    <3>3. QED
      BY <1>b, <2>1, <3>1, <3>2 DEF PublisherInv, StopAccepting
  <2>2. ASSUME NEW p \in {"primary", "shadow"}, JoinAndStop(p), Advance,
               phase = IF p = "primary" THEN "join_primary_publisher"
                                        ELSE "join_shadow_publisher"
        PROVE  PublisherInv'
    <3>1. \A q \in Paths : publisher'[q] = IF q = p THEN "stopped" ELSE publisher[q]
      BY <1>a, <2>2 DEF PublisherType, JoinAndStop
    <3>2. Stopping(p)
      BY <2>2 DEF Stopping
    <3>3. \A q \in Paths : Stopping(q)' => Stopping(q)
      BY <2>2, PathsAssumption DEF Advance, ShutdownOrder, Stopping
    <3>4. QED
      BY <1>b, <2>2, <3>1, <3>2, <3>3 DEF PublisherInv, JoinAndStop
  <2>3. CASE UNCHANGED publisherVars /\ Advance
             /\ phase \in {"serving", "primary_batcher", "shadow_batcher"}
    <3>1. \A p \in Paths : ~Stopping(p)'
      BY <2>3 DEF Advance, ShutdownOrder, Stopping
    <3>2. QED
      BY <2>3, <3>1, PublishersStay DEF publisherVars
  <2>4. QED
    BY <1>6, <2>1, <2>2, <2>3 DEF Shutdown, ShutdownStep, CloseBatcher
<1>7. CASE UNCHANGED vars
  BY <1>1, <1>7 DEF vars, publisherVars, serviceVars
<1>8. QED
  BY <1>2, <1>3, <1>4, <1>5, <1>6, <1>7 DEF Next, Caller

-----------------------------------------------------------------------------
(* How calls and futures move                                              *)

\* A handler only goes on, and never forgets a row.
HandlerMoves ==
    \A c \in Calls :
        \/ handler'[c] = handler[c] /\ putting'[c] = putting[c]
        \/ handler[c] = "idle" /\ handler'[c] = "putting" /\ putting'[c] = 1
        \/ handler[c] = "putting" /\ handler'[c] = "putting" /\ putting'[c] = putting[c] + 1
        \/ handler[c] \in {"putting", "waiting"} /\ handler'[c] \in {"waiting", "answered", "failed"}

LEMMA HandlerStep ==
    ASSUME TypeOK, [Next]_vars
    PROVE  HandlerMoves
<1>a. ServiceType
  BY DEF TypeOK
<1>1. CASE UNCHANGED <<handler, putting>>
  BY <1>1 DEF HandlerMoves
<1>2. ASSUME NEW c \in Calls, Caller(c) PROVE HandlerMoves
  <2>1. CASE Begin(c)
    BY <1>a, <2>1 DEF ServiceType, Begin, HandlerMoves
  <2>2. CASE Put(c)
    BY <1>a, <2>2 DEF ServiceType, Put, HandlerMoves
  <2>3. CASE Gather(c)
    BY <1>a, <2>3 DEF ServiceType, Gather, Fails, HandlerMoves
  <2>4. CASE Timeouts(c)
    BY <1>a, <2>4 DEF ServiceType, Timeouts, PutTimeout, ResponseTimeout, Fails, HandlerMoves
  <2>5. QED
    BY <1>2, <2>1, <2>2, <2>3, <2>4 DEF Caller, Handler
<1>3. ASSUME NEW p \in Paths, Task(p) PROVE HandlerMoves
  BY <1>1, <1>3 DEF Task, Worker, Model, Publisher, serviceVars
<1>4. CASE Shutdown \/ ShutdownStep
  BY <1>1, <1>4 DEF Shutdown, ShutdownStep, Advance
<1>5. CASE UNCHANGED vars
  BY <1>1, <1>5 DEF vars, serviceVars
<1>6. QED
  BY <1>2, <1>3, <1>4, <1>5 DEF Next, Caller, Task

\* What is still to be put was still to be put before.
LEMMA NotPutShrinks ==
    ASSUME TypeOK, TypeOK', HandlerMoves
    PROVE  NotPut' \subseteq NotPut
<1>1. SUFFICES ASSUME NEW i \in Items, i \in NotPut' PROVE i \in NotPut
  BY DEF NotPut
<1>2. PICK c \in Calls :
        \/ handler'[c] = "idle" /\ (i \in Rows(c) \/ i = Shadow[c])
        \/ /\ handler'[c] = "putting"
           /\ \E k \in DOMAIN Primary[c] : putting'[c] <= k /\ Primary[c][k] = i
  BY <1>1 DEF NotPut, Rows
<1>3. CASE handler'[c] = "idle"
  BY <1>2, <1>3 DEF NotPut, HandlerMoves
<1>4. CASE handler'[c] = "putting"
  <2>1. PICK k \in DOMAIN Primary[c] : putting'[c] <= k /\ Primary[c][k] = i
    BY <1>2, <1>4
  <2>2. CASE handler[c] = "idle"
    BY <2>1, <2>2, RowsFacts DEF NotPut
  <2>3. CASE handler[c] = "putting"
    <3>1. putting[c] \in Nat /\ putting'[c] \in {putting[c], putting[c] + 1} /\ k \in Nat
      <4>1. putting[c] \in Nat
        BY DEF TypeOK, ServiceType
      <4>2. putting'[c] \in {putting[c], putting[c] + 1}
        BY <1>4, <2>3 DEF HandlerMoves
      <4>3. k \in 1 .. Len(Primary[c]) /\ Len(Primary[c]) \in Nat
        BY <2>1, RowsFacts
      <4>4. QED
        BY <4>1, <4>2, <4>3
    <3>2. putting[c] <= k
      BY <2>1, <3>1
    <3>3. QED
      BY <2>1, <2>3, <3>2 DEF NotPut
  <2>4. QED
    BY <1>4, <2>2, <2>3 DEF HandlerMoves
<1>5. QED
  BY <1>2, <1>3, <1>4

\* A future is created by the first step of its call, and completed once.
FutureMoves ==
    \A i \in Items : future'[i] # future[i] =>
        \/ Pending(i) /\ future'[i] \in {"result", "failed", "cancelled"}
        \/ \E c \in Calls : /\ Begin(c) /\ (i \in Rows(c) \/ i = Shadow[c])
                            /\ future'[i] \in {"pending", "cancelled"}

LEMMA FutureStep ==
    ASSUME TypeOK, [Next]_vars
    PROVE  FutureMoves
<1>a. BatcherType
  BY DEF TypeOK
<1>1. CASE UNCHANGED future
  BY <1>1 DEF FutureMoves
<1>2. CASE Completes
  BY <1>2 DEF Completes, FutureMoves
<1>3. ASSUME NEW c \in Calls, Caller(c) PROVE FutureMoves
  <2>1. CASE Begin(c)
    BY <2>1, BeginFacts DEF FutureMoves
  <2>2. CASE Handler(c)
    BY <1>1, <2>2 DEF Handler, Put, Gather, batcherVars
  <2>3. CASE PutTimeout(c)
    BY <1>2, <2>3, FailingCompletes DEF PutTimeout
  <2>4. CASE ResponseTimeout(c)
    BY <1>a, <1>2, <2>4 DEF ResponseTimeout, BatcherType, Futures, Completes, Pending
  <2>5. QED
    BY <1>3, <2>1, <2>2, <2>3, <2>4 DEF Caller, Timeouts
<1>4. ASSUME NEW p \in Paths, Task(p) PROVE FutureMoves
  <2>1. CASE Worker(p) \/ Publisher(p)
    BY <1>1, <2>1 DEF Worker, Collect, Dispatch, Publisher, batcherVars
  <2>2. CASE Respond(p)
    BY <1>2, <2>2, RespondFacts
  <2>3. CASE RuntimeFails(p)
    BY <1>2, <2>3, FailingCompletes DEF RuntimeFails
  <2>4. QED
    BY <1>4, <2>1, <2>2, <2>3 DEF Task, Model
<1>5. CASE Shutdown \/ ShutdownStep
  <2>1. CASE UNCHANGED batcherVars
    BY <1>1, <2>1 DEF batcherVars
  <2>2. ASSUME NEW p \in {"primary", "shadow"}, CloseBatcher(p) PROVE FutureMoves
    BY <1>2, <2>2, FailingCompletes DEF CloseBatcher
  <2>3. QED
    BY <1>5, <2>1, <2>2 DEF Shutdown, ShutdownStep
<1>6. CASE UNCHANGED vars
  BY <1>1, <1>6 DEF vars, batcherVars
<1>7. QED
  BY <1>3, <1>4, <1>5, <1>6 DEF Next, Caller, Task

-----------------------------------------------------------------------------
(* What the batchers hold                                                  *)

\* A batcher only takes over what nobody has put on a queue before.
HeldMoves == \A p \in Paths : Held(p)' \subseteq Held(p) \cup (Items \ NotPut')

LEMMA HeldSame ==
    ASSUME UNCHANGED <<queue, batch, active>>
    PROVE  HeldMoves
BY DEF Held, HeldMoves

\* The row a handler has just put is put.
LEMMA PutIsPut ==
    ASSUME TypeOK, NEW c \in Calls, Put(c)
    PROVE  /\ Primary[c][putting[c]] \in Items \ NotPut'
           /\ queue'["primary"] = Append(queue["primary"], Primary[c][putting[c]])
           /\ \A i \in Items : i \in NotPut => i \in NotPut' \/ i = Primary[c][putting[c]]
<1> DEFINE row == Primary[c][putting[c]]
<1>1. /\ handler[c] = "putting" /\ putting[c] \in 1 .. Len(Primary[c])
      /\ Len(Primary[c]) \in Nat /\ row \in Rows(c) /\ row \in Items
      /\ DOMAIN Primary[c] = 1 .. Len(Primary[c])
  BY RowsFacts DEF TypeOK, ServiceType, Put
<1>2. \A d \in Calls : handler'[d] = "idle" => handler[d] = "idle" /\ d # c
  BY <1>1 DEF Put, TypeOK, ServiceType
<1>3. \A d \in Calls : d # c => row \notin Rows(d) /\ row # Shadow[d]
  BY <1>1, RowsFacts
<1>4. \A k \in DOMAIN Primary[c] : Primary[c][k] = row => k = putting[c]
  BY <1>1, CallsAssumption
<1>5. handler'[c] = "putting" => putting'[c] = putting[c] + 1
  BY <1>1 DEF Put, TypeOK, ServiceType
<1>6. row \notin NotPut'
  <2>1. SUFFICES ASSUME NEW d \in Calls,
                        \/ handler'[d] = "idle" /\ (row \in Rows(d) \/ row = Shadow[d])
                        \/ /\ handler'[d] = "putting"
                           /\ \E k \in DOMAIN Primary[d] : putting'[d] <= k /\ Primary[d][k] = row
                 PROVE  FALSE
    BY DEF NotPut, Rows
  <2>2. handler'[d] = "putting" /\ d = c
    BY <1>2, <1>3, <2>1, RowsFacts
  <2>3. PICK k \in DOMAIN Primary[c] : putting'[c] <= k /\ Primary[c][k] = row
    BY <2>1, <2>2
  <2>4. k = putting[c] /\ putting'[c] = putting[c] + 1
    BY <1>4, <1>5, <2>2, <2>3
  <2>5. QED
    BY <1>1, <2>3, <2>4
<1>7. ASSUME NEW i \in Items, i \in NotPut, i # row PROVE i \in NotPut'
  <2>1. PICK d \in Calls :
            \/ handler[d] = "idle" /\ (i \in Rows(d) \/ i = Shadow[d])
            \/ /\ handler[d] = "putting"
               /\ \E k \in DOMAIN Primary[d] : putting[d] <= k /\ Primary[d][k] = i
    BY <1>7 DEF NotPut
  <2>2. CASE d # c
    <3>1. handler'[d] = handler[d] /\ putting'[d] = putting[d]
      BY <2>2 DEF Put, TypeOK, ServiceType
    <3>2. QED
      BY <2>1, <3>1 DEF NotPut, Rows
  <2>3. CASE d = c
    <3>1. PICK k \in DOMAIN Primary[c] : putting[c] <= k /\ Primary[c][k] = i
      BY <1>1, <2>1, <2>3
    <3>2. k # putting[c]
      BY <1>7, <3>1
    <3>3. putting[c] + 1 <= k /\ putting[c] # Len(Primary[c])
      BY <1>1, <3>1, <3>2
    <3>4. handler'[c] = "putting" /\ putting'[c] = putting[c] + 1
      BY <1>1, <3>3 DEF Put, TypeOK, ServiceType
    <3>5. QED
      BY <3>1, <3>3, <3>4 DEF NotPut
  <2>4. QED
    BY <2>2, <2>3
<1>8. queue'["primary"] = Append(queue["primary"], row)
  BY PathsAssumption DEF Put, TypeOK, BatcherType
<1>9. QED
  BY <1>1, <1>6, <1>7, <1>8

LEMMA HeldStep ==
    ASSUME TypeOK, [Next]_vars
    PROVE  HeldMoves
<1>a. BatcherType
  BY DEF TypeOK
<1>1. ASSUME NEW c \in Calls, Caller(c) PROVE HeldMoves
  <2>1. CASE Begin(c)
    <3>1. Shadow[c] \in Items => Shadow[c] \notin NotPut'
      <4>1. SUFFICES ASSUME NEW i \in Items, i = Shadow[c], i \in NotPut' PROVE FALSE
        OBVIOUS
      <4>2. PICK d \in Calls :
                \/ handler'[d] = "idle" /\ (i \in Rows(d) \/ i = Shadow[d])
                \/ handler'[d] = "putting" /\ i \in Rows(d)
        BY <4>1 DEF NotPut, Rows, Range
      <4>3. d = c /\ handler'[d] = "idle"
        BY <4>1, <4>2, RowsFacts
      <4>4. QED
        BY <2>1, <4>3 DEF Begin, TypeOK, ServiceType
    <3>2. \A p \in Paths : Range(queue'[p]) \subseteq Range(queue[p]) \cup (Items \ NotPut')
      <4>1. SUFFICES ASSUME NEW p \in Paths
                     PROVE  Range(queue'[p]) \subseteq Range(queue[p]) \cup (Items \ NotPut')
        OBVIOUS
      <4>2. CASE queue'[p] = queue[p]
        BY <4>2
      <4>3. CASE Shadow[c] \in Items /\ queue'[p] = Append(queue[p], Shadow[c])
        <5>1. Range(queue'[p]) = Range(queue[p]) \cup {Shadow[c]}
          BY <1>a, <4>3, RangeAppend DEF BatcherType
        <5>2. QED
          BY <3>1, <4>3, <5>1
      <4>4. QED
        BY <2>1, <4>2, <4>3, BeginFacts
    <3>3. QED
      BY <2>1, <3>2 DEF Begin, Held, HeldMoves
  <2>2. CASE Put(c)
    <3>1. \A p \in Paths : queue'[p] = queue[p]
                \/ queue'[p] = Append(queue[p], Primary[c][putting[c]])
      BY <1>a, <2>2 DEF Put, BatcherType
    <3>2. \A p \in Paths : Range(queue'[p]) \subseteq Range(queue[p]) \cup (Items \ NotPut')
      <4>1. SUFFICES ASSUME NEW p \in Paths
                     PROVE  Range(queue'[p]) \subseteq Range(queue[p]) \cup (Items \ NotPut')
        OBVIOUS
      <4>2. Primary[c][putting[c]] \in Items \ NotPut'
        BY <2>2, PutIsPut
      <4>3. CASE queue'[p] = Append(queue[p], Primary[c][putting[c]])
        <5>1. Range(queue'[p]) = Range(queue[p]) \cup {Primary[c][putting[c]]}
          BY <1>a, <4>2, <4>3, RangeAppend DEF BatcherType
        <5>2. QED
          BY <4>2, <5>1
      <4>4. QED
        BY <3>1, <4>3
    <3>3. QED
      BY <2>2, <3>2 DEF Put, Held, HeldMoves
  <2>3. CASE Gather(c) \/ Timeouts(c)
    BY <2>3, HeldSame DEF Gather, Timeouts, PutTimeout, ResponseTimeout, batcherVars
  <2>4. QED
    BY <1>1, <2>1, <2>2, <2>3 DEF Caller, Handler
<1>2. ASSUME NEW p \in Paths, Worker(p) PROVE HeldMoves
  <2>1. CASE Collect(p)
    <3>1. /\ queue[p] \in Seq(Items) /\ batch[p] \in Seq(Items) /\ queue[p] # << >>
      BY <1>a, <2>1 DEF BatcherType, Collect
    <3>2. Range(queue[p]) = {Head(queue[p])} \cup Range(Tail(queue[p]))
          /\ Range(Append(batch[p], Head(queue[p]))) = Range(batch[p]) \cup {Head(queue[p])}
      BY <3>1, RangeTail, RangeAppend
    <3>3. Held(p)' = Held(p)
      BY <1>a, <2>1, <3>2 DEF BatcherType, Collect, Held
    <3>4. \A q \in Paths : q # p => Held(q)' = Held(q)
      BY <1>a, <2>1 DEF BatcherType, Collect, Held
    <3>5. QED
      BY <3>3, <3>4 DEF HeldMoves
  <2>2. CASE Dispatch(p)
    <3>1. batch[p] \in Seq(Items) /\ Range(batch[p]) \subseteq Items
      BY <1>a, RangeType DEF BatcherType
    <3>2. \A inputs \in InOrder({i \in Range(batch[p]) : Pending(i)}, batch[p]) :
                Range(inputs) \subseteq Range(batch[p])
      BY <3>1, InOrderType
    <3>3. Range(active'[p]) \subseteq Range(active[p]) \cup Range(batch[p])
          /\ Range(batch'[p]) \subseteq Range(batch[p]) /\ queue' = queue
          /\ \A q \in Paths : q # p => active'[q] = active[q] /\ batch'[q] = batch[q]
      BY <1>a, <2>2, <3>2, RangeEmpty DEF BatcherType, Dispatch
    <3>4. QED
      BY <3>3 DEF Held, HeldMoves
  <2>3. QED
    BY <1>2, <2>1, <2>2 DEF Worker
<1>3. ASSUME NEW p \in Paths, FlushEnds(p), UNCHANGED queue PROVE HeldMoves
  <2>1. \A q \in Paths : /\ batch'[q] \in {<< >>, batch[q]} /\ active'[q] \in {<< >>, active[q]}
    BY <1>a, <1>3 DEF BatcherType, FlushEnds
  <2>2. QED
    BY <1>3, <2>1, RangeEmpty DEF Held, HeldMoves
<1>4. ASSUME NEW p \in Paths, Task(p) PROVE HeldMoves
  <2>1. CASE Publisher(p)
    BY <2>1, HeldSame DEF Publisher, batcherVars
  <2>2. CASE Respond(p)
    BY <1>3, <2>2, RespondFacts
  <2>3. CASE RuntimeFails(p)
    BY <1>3, <2>3 DEF RuntimeFails
  <2>4. QED
    BY <1>2, <1>4, <2>1, <2>2, <2>3 DEF Task, Model
<1>5. CASE Shutdown \/ ShutdownStep
  <2>1. CASE UNCHANGED batcherVars
    BY <2>1, HeldSame DEF batcherVars
  <2>2. ASSUME NEW p \in {"primary", "shadow"}, CloseBatcher(p) PROVE HeldMoves
    <3>1. \A q \in Paths : /\ queue'[q] \in {<< >>, queue[q]} /\ batch'[q] \in {<< >>, batch[q]}
                           /\ active'[q] \in {<< >>, active[q]}
      BY <1>a, <2>2 DEF BatcherType, CloseBatcher
    <3>2. QED
      BY <3>1, RangeEmpty DEF Held, HeldMoves
  <2>3. QED
    BY <1>5, <2>1, <2>2 DEF Shutdown, ShutdownStep
<1>6. CASE UNCHANGED vars
  BY <1>6, HeldSame DEF vars, batcherVars
<1>7. QED
  BY <1>1, <1>4, <1>5, <1>6 DEF Next, Caller, Task

LEMMA HeldStepInv ==
    ASSUME HeldInv, HeldMoves, NotPut' \subseteq NotPut
    PROVE  HeldInv'
BY DEF HeldInv, HeldMoves

-----------------------------------------------------------------------------
(* Flushes, and the calls that are over                                    *)

\* Nothing that a batcher holds becomes pending.
LEMMA NoNewPending ==
    ASSUME TypeOK, HeldInv, FutureMoves, NEW p \in Paths, NEW i \in Held(p),
           i \in Items, future'[i] = "pending"
    PROVE  Pending(i)
<1>1. CASE future'[i] = future[i]
  BY <1>1 DEF Pending
<1>2. CASE future'[i] # future[i]
  <2>1. PICK c \in Calls : Begin(c) /\ (i \in Rows(c) \/ i = Shadow[c])
    BY <1>2 DEF FutureMoves
  <2>2. i \in NotPut
    BY <2>1 DEF Begin, NotPut
  <2>3. QED
    BY <2>2 DEF HeldInv
<1>3. QED
  BY <1>1, <1>2

LEMMA FlushStepInv ==
    ASSUME TypeOK, HeldInv, FlushInv, FutureMoves, [Next]_vars
    PROVE  FlushInv'
<1>a. BatcherType
  BY DEF TypeOK
<1>b. \A p \in Paths : Range(batch[p]) \subseteq Items
  BY <1>a, RangeType DEF BatcherType
<1>c. \A p \in Paths : \A i \in Range(batch[p]) : future'[i] = "pending" => Pending(i)
  BY <1>b, NoNewPending DEF Held
<1>1. ASSUME NEW p \in Paths, worker'[p] = worker[p], batch'[p] = batch[p],
             active'[p] = active[p], worker'[p] = "flushing"
      PROVE  \A i \in Range(batch'[p]) : Pending(i)' => i \in Range(active'[p])
  BY <1>1, <1>c DEF FlushInv, Pending
<1>2. SUFFICES ASSUME NEW p \in Paths, worker'[p] = "flushing"
               PROVE  \A i \in Range(batch'[p]) : Pending(i)' => i \in Range(active'[p])
  BY DEF FlushInv
<1>3. CASE worker'[p] = worker[p] /\ batch'[p] = batch[p] /\ active'[p] = active[p]
  BY <1>1, <1>2, <1>3
<1>4. ASSUME NEW c \in Calls, Caller(c)
      PROVE  worker'[p] = worker[p] /\ batch'[p] = batch[p] /\ active'[p] = active[p]
  BY <1>4 DEF Caller, Handler, Timeouts, Begin, Put, Gather, PutTimeout, ResponseTimeout,
              batcherVars
<1>5. ASSUME NEW q \in Paths, Worker(q)
      PROVE  \A i \in Range(batch'[p]) : Pending(i)' => i \in Range(active'[p])
  <2>1. CASE q # p
    BY <1>a, <1>3, <1>5, <2>1 DEF BatcherType, Worker, Collect, Dispatch
  <2>2. CASE q = p
    <3>1. Dispatch(p) /\ batch'[p] = batch[p] /\ future' = future
      BY <1>a, <1>2, <1>5, <2>2 DEF BatcherType, Worker, Collect, Dispatch
    <3>2. PICK inputs \in InOrder({i \in Range(batch[p]) : Pending(i)}, batch[p]) :
                active' = [active EXCEPT ![p] = inputs]
      BY <1>a, <1>2, <3>1 DEF BatcherType, Dispatch
    <3>3. Range(inputs) = {i \in Range(batch[p]) : Pending(i)}
      BY DEF InOrder
    <3>4. active'[p] = inputs
      BY <1>a, <3>2 DEF BatcherType
    <3>5. QED
      BY <3>1, <3>3, <3>4 DEF Pending
  <2>3. QED
    BY <2>1, <2>2
<1>6. ASSUME NEW q \in Paths, Model(q)
      PROVE  worker'[p] = worker[p] /\ batch'[p] = batch[p] /\ active'[p] = active[p]
  <2>1. FlushEnds(q)
    BY <1>6, RespondFacts DEF Model, RuntimeFails
  <2>2. q # p
    BY <1>a, <1>2, <2>1 DEF BatcherType, FlushEnds
  <2>3. QED
    BY <1>a, <2>1, <2>2 DEF BatcherType, FlushEnds
<1>7. ASSUME NEW q \in {"primary", "shadow"}, CloseBatcher(q)
      PROVE  worker'[p] = worker[p] /\ batch'[p] = batch[p] /\ active'[p] = active[p]
  BY <1>a, <1>2, <1>7 DEF BatcherType, CloseBatcher
<1>8. CASE UNCHANGED batcherVars
  BY <1>3, <1>8 DEF batcherVars
<1>9. QED
  BY <1>3, <1>4, <1>5, <1>6, <1>7, <1>8
     DEF Next, Caller, Publisher, Shutdown, ShutdownStep, vars

\* Only an answer of the model predicts and submits events, for what a batcher holds.
ResultMoves ==
    /\ \A i \in Items : future'[i] = "result" =>
            future[i] = "result" \/ \E p \in Paths : i \in Held(p)
    /\ accepted \subseteq accepted'
    /\ \A i \in accepted' \ accepted :
            i \in Items /\ i \in Traced /\ Pending(i) /\ future'[i] = "result"

LEMMA ResultStep ==
    ASSUME TypeOK, [Next]_vars
    PROVE  ResultMoves
<1>a. BatcherType
  BY DEF TypeOK
<1>1. CASE UNCHANGED <<future, accepted>>
  BY <1>1 DEF ResultMoves
<1>2. ASSUME NEW S, future' = Failing(S), UNCHANGED accepted PROVE ResultMoves
  BY <1>2, FailingCompletes DEF ResultMoves
<1>3. ASSUME NEW c \in Calls, Caller(c) PROVE ResultMoves
  <2>1. CASE Begin(c)
    <3>1. \A i \in Items : future'[i] # "result" \/ future'[i] = future[i]
      BY <2>1, BeginFacts
    <3>2. QED
      BY <2>1, <3>1 DEF Begin, ResultMoves, publisherVars
  <2>2. CASE Handler(c)
    BY <1>1, <2>2 DEF Handler, Put, Gather, batcherVars, publisherVars
  <2>3. CASE PutTimeout(c)
    BY <1>2, <2>3 DEF PutTimeout, publisherVars
  <2>4. CASE ResponseTimeout(c)
    BY <2>4 DEF ResponseTimeout, ResultMoves, publisherVars
  <2>5. QED
    BY <1>3, <2>1, <2>2, <2>3, <2>4 DEF Caller, Timeouts
<1>4. ASSUME NEW p \in Paths, Task(p) PROVE ResultMoves
  <2>1. CASE Worker(p) \/ Publisher(p)
    BY <1>1, <2>1 DEF Worker, Collect, Dispatch, Publisher, PublisherStep, CollectEvent,
                      PublishBatch, batcherVars, publisherVars
  <2>2. CASE Respond(p)
    <3>1. PICK events \in Seq(Items), predicted \in SUBSET Items :
                /\ \A i \in Items :
                        future'[i] # future[i] => i \in Range(active[p]) /\ Pending(i)
                /\ \A i \in predicted : Pending(i) /\ future'[i] = "result"
                /\ SubmitEvents(p, events) /\ Range(events) = predicted \cap Traced
      BY <2>2, RespondFacts
    <3>2. accepted' \subseteq accepted \cup Range(events) /\ accepted \subseteq accepted'
      BY <3>1, SubmitType
    <3>3. \A i \in Items : future'[i] = "result" => future[i] = "result" \/ i \in Held(p)
      BY <3>1 DEF Held
    <3>4. QED
      BY <3>1, <3>2, <3>3 DEF ResultMoves
  <2>3. CASE RuntimeFails(p)
    BY <1>2, <2>3 DEF RuntimeFails, publisherVars
  <2>4. QED
    BY <1>4, <2>1, <2>2, <2>3 DEF Task, Model
<1>5. CASE Shutdown \/ ShutdownStep
  <2>1. CASE UNCHANGED batcherVars
    BY <1>1, <1>5, <2>1 DEF Shutdown, ShutdownStep, StopAccepting, JoinAndStop, CloseBatcher,
                            batcherVars, publisherVars
  <2>2. ASSUME NEW p \in {"primary", "shadow"}, CloseBatcher(p) PROVE ResultMoves
    BY <1>2, <2>2 DEF CloseBatcher, publisherVars
  <2>3. QED
    BY <1>5, <2>1, <2>2 DEF Shutdown, ShutdownStep
<1>6. CASE UNCHANGED vars
  BY <1>1, <1>6 DEF vars, batcherVars, publisherVars
<1>7. QED
  BY <1>3, <1>4, <1>5, <1>6 DEF Next, Caller, Task

\* The futures of a call that has not begun have not been created.
LEMMA BeginFresh ==
    ASSUME CallInv, NEW c \in Calls, Begin(c), NEW i \in Items, i \in Rows(c) \/ i = Shadow[c]
    PROVE  future[i] = "none"
BY DEF CallInv, Begin

LEMMA EventStepInv ==
    ASSUME TypeOK, HeldInv, CallInv, EventInv, FutureMoves, ResultMoves, NotPut' \subseteq NotPut
    PROVE  EventInv'
<1>1. \A i \in Items : future[i] = "result" => future'[i] = "result"
  BY BeginFresh DEF FutureMoves, Pending
<1>2. \A i \in NotPut' : future'[i] # "result"
  <2>1. SUFFICES ASSUME NEW i \in NotPut', future'[i] = "result" PROVE FALSE
    OBVIOUS
  <2>2. i \in NotPut /\ i \in Items
    BY <2>1 DEF NotPut
  <2>3. QED
    BY <2>1, <2>2 DEF ResultMoves, EventInv, HeldInv
<1>3. accepted' \subseteq {i \in Traced : future'[i] = "result"}
  BY <1>1, BatcherAssumption DEF ResultMoves, EventInv
<1>4. QED
  BY <1>2, <1>3 DEF EventInv

\* The rows of a call that has failed and has a trace have failed.
LEMMA FailStep ==
    ASSUME TypeOK, CallInv, EventInv, [Next]_vars, NEW c \in Calls, handler[c] # "failed",
           handler'[c] = "failed", NEW i \in Rows(c) \cap Traced
    PROVE  future'[i] \in {"failed", "cancelled"}
<1>1. /\ Len(Primary[c]) = 1 /\ DOMAIN Primary[c] = 1 .. Len(Primary[c]) /\ i \in Items
      /\ Rows(c) = {Primary[c][k] : k \in DOMAIN Primary[c]}
  BY RowsFacts
<1>2. Rows(c) = {i} /\ Primary[c][1] = i
  BY <1>1
<1>3. ~ UNCHANGED handler
  OBVIOUS
<1>4. PICK d \in Calls : Caller(d)
  BY <1>3 DEF Next, Caller, Worker, Model, Publisher, Shutdown, ShutdownStep, Advance, vars,
              serviceVars
<1>5. d = c /\ (Gather(c) \/ Timeouts(c))
  BY <1>4 DEF Caller, Handler, Timeouts, Begin, Put, Gather, PutTimeout, ResponseTimeout, Fails,
              TypeOK, ServiceType
<1>6. CASE Gather(c)
  BY <1>1, <1>2, <1>6 DEF Gather, batcherVars, TypeOK, ServiceType
<1>7. CASE ResponseTimeout(c)
  BY <1>1, <1>2, <1>7 DEF ResponseTimeout
<1>8. CASE PutTimeout(c)
  <2>1. handler[c] = "putting" /\ putting[c] = 1
    BY <1>1, <1>8 DEF PutTimeout, TypeOK, ServiceType
  <2>2. i \in NotPut
    BY <1>1, <1>2, <2>1 DEF NotPut
  <2>3. future[i] \in {"pending", "failed", "cancelled"}
    <3>1. future[i] \in Futures
      BY <1>1 DEF TypeOK, BatcherType
    <3>2. future[i] # "result"
      BY <2>2 DEF EventInv
    <3>3. future[i] # "none"
      BY <2>1 DEF CallInv
    <3>4. QED
      BY <3>1, <3>2, <3>3 DEF Futures
  <2>4. QED
    BY <1>1, <1>2, <1>8, <2>3, FailingCompletes DEF PutTimeout, Pending
<1>9. QED
  BY <1>5, <1>6, <1>7, <1>8 DEF Timeouts

LEMMA CallStepInv ==
    ASSUME TypeOK, CallInv, EventInv, HandlerMoves, FutureMoves, [Next]_vars
    PROVE  CallInv'
<1>1. SUFFICES ASSUME NEW c \in Calls
               PROVE  /\ handler'[c] = "idle" =>
                            \A i \in Items : i \in Rows(c) \/ i = Shadow[c] => future'[i] = "none"
                      /\ handler'[c] # "idle" => \A i \in Rows(c) : future'[i] # "none"
                      /\ handler'[c] = "failed" =>
                            \A i \in Rows(c) \cap Traced : future'[i] \in {"failed", "cancelled"}
  BY DEF CallInv, Rows
<1>2. \A i \in Items : \A d \in Calls :
            Begin(d) /\ (i \in Rows(d) \/ i = Shadow[d]) /\ (i \in Rows(c) \/ i = Shadow[c]) => d = c
  BY RowsFacts
<1>3. \A i \in Items : future[i] # "none" => future'[i] # "none"
  BY DEF FutureMoves
<1>4. ASSUME handler'[c] = "idle", NEW i \in Items, i \in Rows(c) \/ i = Shadow[c]
      PROVE  future'[i] = "none"
  <2>1. handler[c] = "idle" /\ future[i] = "none"
    BY <1>4 DEF HandlerMoves, CallInv
  <2>2. ~ Begin(c)
    BY <1>4 DEF Begin, TypeOK, ServiceType
  <2>3. QED
    BY <1>2, <1>4, <2>1, <2>2 DEF FutureMoves, Pending
<1>5. ASSUME handler'[c] # "idle", NEW i \in Rows(c) PROVE future'[i] # "none"
  <2>1. i \in Items
    BY RowsFacts
  <2>2. CASE handler[c] # "idle"
    BY <1>3, <2>1, <2>2 DEF CallInv
  <2>3. CASE handler[c] = "idle"
    <3>1. ~ UNCHANGED handler
      BY <1>5, <2>3
    <3>2. PICK d \in Calls : Caller(d)
      BY <3>1 DEF Next, Caller, Worker, Model, Publisher, Shutdown, ShutdownStep, Advance, vars,
                  serviceVars
    <3>3. Begin(c)
      BY <1>5, <2>3, <3>2 DEF Caller, Handler, Timeouts, Begin, Put, Gather, PutTimeout,
                              ResponseTimeout, Fails, TypeOK, ServiceType
    <3>4. QED
      BY <3>3, BeginFacts
  <2>4. QED
    BY <2>2, <2>3
<1>6. ASSUME handler'[c] = "failed", NEW i \in Rows(c) \cap Traced
      PROVE  future'[i] \in {"failed", "cancelled"}
  <2>1. CASE handler[c] # "failed"
    BY <1>6, <2>1, FailStep
  <2>2. CASE handler[c] = "failed"
    <3>1. i \in Items /\ future[i] \in {"failed", "cancelled"}
      BY <2>2, RowsFacts DEF CallInv
    <3>2. QED
      BY <3>1, BeginFresh DEF FutureMoves, Pending
  <2>3. QED
    BY <2>1, <2>2
<1>7. QED
  BY <1>4, <1>5, <1>6

-----------------------------------------------------------------------------
(* Where a pending invocation is                                           *)

Queued(i) == \E p \in Paths : i \in Range(queue[p]) \cup Range(batch[p])

\* The rows of the other calls are as much to be put as before.
LEMMA OthersNotPut ==
    ASSUME NEW c \in Calls, NEW i \in Items, i \in NotPut, i \notin Rows(c), i # Shadow[c],
           \A d \in Calls : d # c => handler'[d] = handler[d] /\ putting'[d] = putting[d]
    PROVE  i \in NotPut'
<1>1. PICK d \in Calls :
        \/ handler[d] = "idle" /\ (i \in Rows(d) \/ i = Shadow[d])
        \/ /\ handler[d] = "putting"
           /\ \E k \in DOMAIN Primary[d] : putting[d] <= k /\ Primary[d][k] = i
  BY DEF NotPut
<1>2. d # c
  BY <1>1 DEF Rows, Range
<1>3. QED
  BY <1>1, <1>2 DEF NotPut, Rows

LEMMA PendingCaller ==
    ASSUME TypeOK, PendingInv, CallInv, NEW c \in Calls, Caller(c),
           NEW i \in Items, Pending(i), future'[i] = "pending"
    PROVE  i \in NotPut' \/ Queued(i)'
<1>a. BatcherType /\ ServiceType
  BY DEF TypeOK
<1>1. i \in NotPut \/ Queued(i)
  BY DEF PendingInv, Queued
<1>2. \A d \in Calls : d # c => handler'[d] = handler[d] /\ putting'[d] = putting[d]
  BY <1>a DEF ServiceType, Caller, Handler, Timeouts, Begin, Put, Gather, PutTimeout,
              ResponseTimeout, Fails
<1>3. CASE Begin(c)
  <2>1. i \notin Rows(c) /\ i # Shadow[c]
    BY <1>3, BeginFresh DEF Pending
  <2>2. ASSUME NEW p \in Paths, i \in Range(queue[p]) PROVE i \in Range(queue'[p])
    <3>1. CASE queue'[p] = queue[p]
      BY <2>2, <3>1
    <3>2. CASE Shadow[c] \in Items /\ queue'[p] = Append(queue[p], Shadow[c])
      BY <1>a, <2>2, <3>2, RangeAppend DEF BatcherType
    <3>3. QED
      BY <1>3, <3>1, <3>2, BeginFacts
  <2>3. Queued(i) => Queued(i)'
    BY <1>3, <2>2 DEF Begin, Queued
  <2>4. QED
    BY <1>1, <1>2, <2>1, <2>3, OthersNotPut
<1>4. CASE Put(c)
  <2> DEFINE row == Primary[c][putting[c]]
  <2>1. /\ row \in Items /\ queue["primary"] \in Seq(Items) /\ "primary" \in Paths
        /\ queue'["primary"] = Append(queue["primary"], row)
        /\ i \in NotPut => i \in NotPut' \/ i = row
    BY <1>a, <1>4, PutIsPut, PathsAssumption DEF BatcherType
  <2> HIDE DEF row
  <2>2. Range(queue'["primary"]) = Range(queue["primary"]) \cup {row}
    BY <2>1, RangeAppend
  <2>3. Queued(i) => Queued(i)'
    BY <1>a, <1>4, <2>2 DEF Put, Queued, BatcherType
  <2>4. QED
    BY <1>1, <2>1, <2>2, <2>3 DEF Queued
<1>5. CASE Gather(c) \/ ResponseTimeout(c) \/ PutTimeout(c)
  <2>1. Queued(i) => Queued(i)'
    BY <1>5 DEF Gather, ResponseTimeout, PutTimeout, Queued, batcherVars
  <2>2. ASSUME i \in NotPut PROVE i \in NotPut'
    <3>1. PICK d \in Calls :
            \/ handler[d] = "idle" /\ (i \in Rows(d) \/ i = Shadow[d])
            \/ /\ handler[d] = "putting"
               /\ \E k \in DOMAIN Primary[d] : putting[d] <= k /\ Primary[d][k] = i
      BY <2>2 DEF NotPut
    <3>2. d # c
      <4>1. PutTimeout(c) => i \notin Rows(c)
        BY FailingCompletes DEF PutTimeout
      <4>2. QED
        BY <1>5, <3>1, <4>1 DEF Gather, ResponseTimeout, PutTimeout, Rows, Range
    <3>3. QED
      BY <1>2, <3>1, <3>2 DEF NotPut, Rows
  <2>3. QED
    BY <1>1, <2>1, <2>2
<1>6. QED
  BY <1>3, <1>4, <1>5 DEF Caller, Handler, Timeouts

LEMMA PendingTask ==
    ASSUME TypeOK, FlushInv, PendingInv, NEW p \in Paths, Task(p),
           NEW i \in Items, Pending(i), future'[i] = "pending"
    PROVE  i \in NotPut' \/ Queued(i)'
<1>a. BatcherType
  BY DEF TypeOK
<1>1. i \in NotPut \/ Queued(i)
  BY DEF PendingInv, Queued
<1>2. i \in NotPut => i \in NotPut'
  BY DEF Task, Worker, Model, Publisher, serviceVars, NotPut, Rows
<1>3. CASE Publisher(p)
  BY <1>1, <1>2, <1>3 DEF Publisher, batcherVars, Queued
<1>4. CASE Collect(p)
  <2>1. /\ queue[p] \in Seq(Items) /\ batch[p] \in Seq(Items) /\ queue[p] # << >>
    BY <1>a, <1>4 DEF BatcherType, Collect
  <2>2. Range(queue[p]) = {Head(queue[p])} \cup Range(Tail(queue[p]))
        /\ Range(Append(batch[p], Head(queue[p]))) = Range(batch[p]) \cup {Head(queue[p])}
    BY <2>1, RangeTail, RangeAppend
  <2>3. Queued(i) => Queued(i)'
    BY <1>a, <1>4, <2>2 DEF BatcherType, Collect, Queued
  <2>4. QED
    BY <1>1, <1>2, <2>3
<1>5. CASE Dispatch(p)
  <2>1. Queued(i) => Queued(i)'
    BY <1>a, <1>5 DEF BatcherType, Dispatch, Queued
  <2>2. QED
    BY <1>1, <1>2, <2>1
<1>6. CASE Model(p)
  <2>1. FlushEnds(p) /\ queue' = queue
    BY <1>6, RespondFacts DEF Model, RuntimeFails
  <2>2. i \notin Range(active[p])
    BY <1>6, RespondFacts, FailingCompletes DEF Model, RuntimeFails
  <2>3. i \notin Range(batch[p])
    BY <2>1, <2>2 DEF FlushEnds, FlushInv
  <2>4. Queued(i) => Queued(i)'
    BY <1>a, <2>1, <2>3 DEF BatcherType, FlushEnds, Queued
  <2>5. QED
    BY <1>1, <1>2, <2>4
<1>7. QED
  BY <1>3, <1>4, <1>5, <1>6 DEF Task, Worker

LEMMA PendingStepInv ==
    ASSUME TypeOK, FlushInv, PendingInv, CallInv, FutureMoves, [Next]_vars
    PROVE  PendingInv'
<1>a. BatcherType
  BY DEF TypeOK
<1>1. SUFFICES ASSUME NEW i \in Items, future'[i] = "pending" PROVE i \in NotPut' \/ Queued(i)'
  BY DEF PendingInv, Pending, Queued
<1>2. CASE ~ Pending(i)
  <2>1. PICK c \in Calls : Begin(c) /\ (i \in Rows(c) \/ i = Shadow[c])
    BY <1>1, <1>2 DEF FutureMoves, Pending
  <2>2. CASE i \in Rows(c)
    <3>1. handler'[c] = "putting" /\ putting'[c] = 1
      BY <2>1 DEF Begin, TypeOK, ServiceType
    <3>2. PICK k \in DOMAIN Primary[c] : Primary[c][k] = i
      BY <2>2, RowsFacts
    <3>3. 1 <= k
      <4>1. k \in 1 .. Len(Primary[c]) /\ Len(Primary[c]) \in Nat
        BY <3>2, RowsFacts
      <4>2. QED
        BY <4>1
    <3>4. QED
      BY <3>1, <3>2, <3>3 DEF NotPut
  <2>3. CASE i = Shadow[c]
    <3>1. future'[i] # future[i]
      BY <1>1, <1>2 DEF Pending
    <3>2. i \in Range(queue'["shadow"]) /\ "shadow" \in Paths
      BY <1>1, <2>1, <2>3, <3>1, BeginFacts
    <3>3. QED
      BY <3>2 DEF Queued
  <2>4. QED
    BY <2>1, <2>2, <2>3
<1>3. CASE Pending(i)
  <2>1. CASE Shutdown \/ ShutdownStep
    <3>1. i \in NotPut => i \in NotPut'
      BY <2>1 DEF Shutdown, ShutdownStep, Advance, NotPut, Rows
    <3>2. i \in NotPut \/ Queued(i)
      BY <1>3 DEF PendingInv, Queued
    <3>3. CASE UNCHANGED batcherVars
      BY <3>1, <3>2, <3>3 DEF batcherVars, Queued
    <3>4. ASSUME NEW p \in {"primary", "shadow"}, CloseBatcher(p) PROVE i \in NotPut' \/ Queued(i)'
      <4>1. i \notin Range(batch[p]) \cup Range(queue[p])
        BY <1>1, <1>3, <3>4, FailingCompletes DEF CloseBatcher
      <4>2. Queued(i) => Queued(i)'
        BY <1>a, <3>4, <4>1 DEF BatcherType, CloseBatcher, Queued
      <4>3. QED
        BY <3>1, <3>2, <4>2
    <3>5. QED
      BY <2>1, <3>3, <3>4 DEF Shutdown, ShutdownStep
  <2>2. CASE UNCHANGED vars
    BY <1>3, <2>2 DEF vars, batcherVars, serviceVars, PendingInv, Queued, NotPut, Rows
  <2>3. QED
    BY <1>1, <1>3, <2>1, <2>2, PendingCaller, PendingTask DEF Next, Caller, Task
<1>4. QED
  BY <1>2, <1>3

-----------------------------------------------------------------------------
(* The shutdown                                                            *)

LEMMA ClosedStepInv ==
    ASSUME TypeOK, ClosedInv, HandlerMoves, [Next]_vars
    PROVE  ClosedInv'
<1>a. BatcherType /\ ServiceType
  BY DEF TypeOK
<1>1. ASSUME phase' # "serving" PROVE InFlight' = {}
  <2>1. CASE phase # "serving"
    <3>1. InFlight = {} /\ \A c \in Calls : ~ Begin(c)
      BY <2>1 DEF ClosedInv, Begin
    <3>2. \A c \in Calls : ~ Caller(c)
      BY <3>1 DEF InFlight, Caller, Handler, Timeouts, Put, Gather, PutTimeout, ResponseTimeout
    <3>3. handler' = handler
      BY <3>2 DEF Next, Caller, Worker, Model, Publisher, Shutdown, ShutdownStep, Advance, vars,
                  serviceVars
    <3>4. QED
      BY <3>1, <3>3 DEF InFlight
  <2>2. CASE phase = "serving"
    <3>1. Shutdown
      BY <1>1, <2>2 DEF Next, Begin, Handler, Timeouts, Put, Gather, PutTimeout, ResponseTimeout,
                        Fails, Worker, Model, Publisher, ShutdownStep, vars, serviceVars
    <3>2. QED
      BY <3>1 DEF Shutdown, Advance, InFlight
  <2>3. QED
    BY <2>1, <2>2
<1>2. SUFFICES ASSUME NEW p \in Paths, Closed(p)'
               PROVE  worker'[p] = "stopped" /\ queue'[p] = << >> /\ batch'[p] = << >>
  BY <1>1 DEF ClosedInv, InFlight
<1>3. CASE Closed(p)
  <2>1. worker[p] = "stopped" /\ queue[p] = << >> /\ batch[p] = << >> /\ phase # "serving"
        /\ InFlight = {}
    BY <1>3 DEF ClosedInv, Closed
  <2>2. \A c \in Calls : ~ Caller(c)
    BY <2>1 DEF InFlight, Caller, Begin, Handler, Timeouts, Put, Gather, PutTimeout,
                ResponseTimeout
  <2>3. ASSUME NEW q \in Paths, Task(q)
        PROVE  worker'[p] = worker[p] /\ queue'[p] = queue[p] /\ batch'[p] = batch[p]
    <3>1. CASE Worker(q)
      BY <1>a, <2>1, <3>1 DEF BatcherType, Worker, Collect, Dispatch
    <3>2. CASE Model(q)
      <4>1. FlushEnds(q) /\ queue' = queue
        BY <3>2, RespondFacts DEF Model, RuntimeFails
      <4>2. QED
        BY <1>a, <2>1, <4>1 DEF BatcherType, FlushEnds
    <3>3. CASE Publisher(q)
      BY <3>3 DEF Publisher, batcherVars
    <3>4. QED
      BY <2>3, <3>1, <3>2, <3>3 DEF Task
  <2>4. ASSUME NEW q \in {"primary", "shadow"}, CloseBatcher(q)
        PROVE  worker'[p] = "stopped" /\ queue'[p] = << >> /\ batch'[p] = << >>
    BY <1>a, <2>1, <2>4 DEF BatcherType, CloseBatcher
  <2>5. CASE UNCHANGED batcherVars
    BY <2>1, <2>5 DEF batcherVars
  <2>6. QED
    BY <2>1, <2>2, <2>3, <2>4, <2>5 DEF Next, Caller, Task, Shutdown, ShutdownStep, vars
<1>4. CASE ~ Closed(p)
  <2>1. phase' # phase
    BY <1>2, <1>4 DEF Closed
  <2>2. Shutdown \/ ShutdownStep
    BY <2>1 DEF Next, Begin, Handler, Timeouts, Put, Gather, PutTimeout, ResponseTimeout,
                Fails, Worker, Model, Publisher, vars, serviceVars
  <2>3. p \in {"primary", "shadow"} /\ CloseBatcher(p)
    BY <1>2, <1>4, <2>2, PathsAssumption
       DEF Closed, Shutdown, ShutdownStep, Advance, ShutdownOrder
  <2>4. QED
    BY <1>a, <2>3 DEF BatcherType, CloseBatcher
<1>5. QED
  BY <1>3, <1>4

-----------------------------------------------------------------------------
(* The invariant                                                           *)

LEMMA InitHolds == Init => IInv
<1> SUFFICES ASSUME Init PROVE IInv
  OBVIOUS
<1>0. << >> \in Seq(Items) /\ Len(<< >>) = 0 /\ Range(<< >>) = {} /\ 0 + 0 = 0
  BY EmptySeq, RangeEmpty
<1>1. BatcherType /\ PublisherType
  BY <1>0 DEF Init, BatcherInit, PublisherInit, BatcherType, PublisherType, Awaits, Futures
<1>2. ServiceType
  BY DEF Init, ServiceType, Phases
<1>3. HeldInv /\ FlushInv /\ PendingInv
  BY <1>0, BatcherAssumption DEF Init, BatcherInit, HeldInv, Held, FlushInv, PendingInv, Pending
<1>4. CallInv
  BY DEF Init, BatcherInit, CallInv
<1>5. EventInv
  BY DEF Init, BatcherInit, PublisherInit, EventInv, NotPut
<1>6. ClosedInv
  BY DEF Init, ClosedInv, Closed
<1>7. PublisherInv
  BY <1>0 DEF Init, PublisherInit, PublisherInv, Stopping
<1>8. QED
  BY <1>1, <1>2, <1>3, <1>4, <1>5, <1>6, <1>7 DEF IInv, TypeOK

LEMMA StepHolds == IInv /\ [Next]_vars => IInv'
<1> SUFFICES ASSUME IInv, [Next]_vars PROVE IInv'
  OBVIOUS
<1>1. TypeOK /\ HeldInv /\ FlushInv /\ PendingInv /\ CallInv /\ EventInv /\ ClosedInv /\ PublisherInv
  BY DEF IInv
<1>2. TypeOK' /\ PublisherInv'
  BY <1>1, TypeStep, PublisherStepInv
<1>3. HandlerMoves /\ FutureMoves /\ HeldMoves /\ ResultMoves
  BY <1>1, HandlerStep, FutureStep, HeldStep, ResultStep
<1>4. NotPut' \subseteq NotPut
  BY <1>1, <1>2, <1>3, NotPutShrinks
<1>5. HeldInv' /\ FlushInv' /\ PendingInv'
  BY <1>1, <1>3, <1>4, HeldStepInv, FlushStepInv, PendingStepInv
<1>6. CallInv' /\ EventInv' /\ ClosedInv'
  BY <1>1, <1>3, <1>4, CallStepInv, EventStepInv, ClosedStepInv
<1>7. QED
  BY <1>2, <1>5, <1>6 DEF IInv

\* The invariant that the other results rest on: what may be held, pending or closed, and
\* when (batch.py, prediction_service.py, the lifespan in app.py).
THEOREM InvariantHolds == Spec => []IInv
<1>1. Init => IInv
  BY InitHolds
<1>2. IInv /\ [Next]_vars => IInv'
  BY StepHolds
<1>3. QED
  BY <1>1, <1>2, PTL DEF Spec

-----------------------------------------------------------------------------
(* What the predictor guarantees                                           *)

\* A prediction is that of its own row, however the batch was cut and whoever gave up
\* meanwhile (_flush pairs the predictions with the inputs it sent).
THEOREM PredictionsAreTheirOwn == Spec => []OwnPrediction
<1>1. Init => OwnPrediction
  BY DEF Init, BatcherInit, OwnPrediction
<1>2. IInv /\ OwnPrediction /\ [Next]_vars => OwnPrediction'
  <2> SUFFICES ASSUME IInv, OwnPrediction, [Next]_vars PROVE OwnPrediction'
    OBVIOUS
  <2>1. CASE UNCHANGED answer
    BY <2>1 DEF OwnPrediction
  <2>2. CASE \E p \in Paths : Respond(p)
    BY <2>2, RespondFacts DEF IInv, OwnPrediction
  <2>3. QED
    BY <2>1, <2>2 DEF Next, Begin, Handler, Timeouts, Put, Gather, PutTimeout, ResponseTimeout,
                      Worker, Collect, Dispatch, Model, RuntimeFails, Publisher, Shutdown,
                      ShutdownStep, CloseBatcher, vars, batcherVars
<1>3. QED
  BY <1>1, <1>2, InvariantHolds, PTL DEF Spec

\* No call that has failed has an event: the monitoring counts no prediction that the
\* caller was told it did not get.
THEOREM EventsAreOfAnsweredCalls == Spec => []EventOnlyForAnswered
<1>1. IInv => EventOnlyForAnswered
  BY DEF IInv, CallInv, EventInv, EventOnlyForAnswered
<1>2. QED
  BY <1>1, InvariantHolds, PTL

\* A publisher that has stopped has offered every event it had accepted.
THEOREM ShutdownDrains == Spec => []DrainedAtShutdown
<1>1. IInv => DrainedAtShutdown
  <2> SUFFICES ASSUME IInv, NEW p \in Paths, publisher[p] = "stopped"
               PROVE  eventQueue[p] = << >> /\ eventBatch[p] = << >>
    BY DEF DrainedAtShutdown
  <2>1. eventQueue[p] \in Seq(Items) /\ eventBatch[p] \in Seq(Items)
    BY DEF IInv, TypeOK, PublisherType
  <2>2. Len(eventQueue[p]) \in Nat /\ Len(eventBatch[p]) \in Nat
    BY <2>1, LenProperties
  <2>3. Len(eventQueue[p]) + Len(eventBatch[p]) = 0
    BY DEF IInv, PublisherInv
  <2>4. \A a, b \in Nat : a + b = 0 => a = 0 /\ b = 0
    OBVIOUS
  <2>5. Len(eventQueue[p]) = 0 /\ Len(eventBatch[p]) = 0
    BY <2>2, <2>3, <2>4, Zenon
  <2>6. QED
    BY <2>1, <2>5, EmptySeq
<1>2. QED
  BY <1>1, InvariantHolds, PTL

\* After the shutdown no future is pending: closing fails what the batchers hold, and
\* nobody else had one.
THEOREM ShutdownLeavesNothingPending == Spec => []NothingLeftPending
<1>1. IInv => NothingLeftPending
  <2> SUFFICES ASSUME IInv, phase = "stopped", NEW i \in Items, Pending(i) PROVE FALSE
    BY DEF NothingLeftPending
  <2>1. InFlight = {} /\ \A p \in Paths : queue[p] = << >> /\ batch[p] = << >>
    BY DEF IInv, ClosedInv, Closed
  <2>2. ~ Queued(i)
    BY <2>1, RangeEmpty DEF Queued
  <2>3. i \in NotPut
    BY <2>2 DEF IInv, PendingInv, Queued
  <2>4. PICK c \in Calls : handler[c] = "idle" /\ (i \in Rows(c) \/ i = Shadow[c])
    BY <2>1, <2>3 DEF NotPut, InFlight
  <2>5. QED
    BY <2>4 DEF IInv, CallInv, Pending
<1>2. QED
  BY <1>1, InvariantHolds, PTL

\* The predictor implements PredictionOutcomes: every invocation is decided once, and an
\* event is submitted in the step that predicts.
THEOREM DecidesOnce == Spec => OutcomesSpec
<1> DEFINE outcome == [i \in Items |->
                  CASE future[i] = "none" -> "none"
                    [] future[i] = "pending" -> "open"
                    [] future[i] = "result" -> "predicted"
                    [] future[i] \in {"failed", "cancelled"} -> "failed"]
<1>1. Init => Outcomes!Init
  BY DEF Init, BatcherInit, PublisherInit, Outcomes!Init
<1>2. IInv /\ [Next]_vars => [Outcomes!Next]_<<outcome, accepted>>
  <2> SUFFICES ASSUME IInv, [Next]_vars PROVE Outcomes!Next
    OBVIOUS
  <2>0. /\ TypeOK /\ TypeOK' /\ CallInv /\ FutureMoves /\ ResultMoves
    BY TypeStep, FutureStep, ResultStep DEF IInv
  <2>1. future \in [Items -> Futures] /\ future' \in [Items -> Futures]
    BY <2>0 DEF TypeOK, BatcherType
  <2>2. outcome' \in [Items -> {"none", "open", "predicted", "failed"}]
    BY <2>1 DEF Futures
  <2>3. \A i \in Items : outcome'[i] # outcome[i] =>
            <<outcome[i], outcome'[i]>> \in Outcomes!Moves
    <3>1. SUFFICES ASSUME NEW i \in Items, outcome'[i] # outcome[i]
                   PROVE  <<outcome[i], outcome'[i]>> \in Outcomes!Moves
      OBVIOUS
    <3>2. future'[i] # future[i]
      BY <2>1, <3>1 DEF Futures
    <3>3. CASE Pending(i) /\ future'[i] \in {"result", "failed", "cancelled"}
      BY <3>3 DEF Outcomes!Moves, Pending
    <3>4. CASE future[i] = "none" /\ future'[i] \in {"pending", "cancelled"}
      BY <3>4 DEF Outcomes!Moves
    <3>5. QED
      BY <2>0, <3>2, <3>3, <3>4, BeginFresh DEF FutureMoves
  <2>4. \A i \in accepted' \ accepted : outcome[i] = "open" /\ outcome'[i] = "predicted"
    BY <2>0 DEF ResultMoves, Pending
  <2>5. accepted \subseteq accepted'
    BY <2>0 DEF ResultMoves
  <2>6. QED
    BY <2>2, <2>3, <2>4, <2>5 DEF Outcomes!Next
<1>3. QED
  BY <1>1, <1>2, InvariantHolds, PTL DEF Spec, OutcomesSpec, Outcomes!Spec
=============================================================================
