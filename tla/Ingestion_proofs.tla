--------------------------- MODULE Ingestion_proofs ---------------------------
(***************************************************************************)
(* Proofs about Ingestion, for any runs, batches and deaths of both ends.  *)
(*                                                                         *)
(* What a run holds as acknowledged is on the topic or was answered        *)
(* (AckInv), and what a run has begun behind has been passed before        *)
(* (StartInv): both survive whatever the other runs do with the cursor.    *)
(* The archiver's position is its committed offset, and what it does next  *)
(* says what it has stored of the record at that position (ArchiverInv).   *)
(***************************************************************************)
EXTENDS Ingestion, SequenceTheorems, FiniteSetTheorems, WellFoundedInduction, TLAPS

Places == {"idle", "build", "wait", "done"}

CursorType ==
    /\ stream \in Streams
    /\ cursor \in Nat
    /\ run \in [Runs -> Places]
    /\ start \in [Runs -> Nat]
    /\ left \in [Runs -> Nat]
    /\ outbox \in [Runs -> SUBSET Events]
    /\ acked \in [Runs -> SUBSET Events]
    /\ answered \subseteq Nat
    /\ topic \in Seq(Events)

ArchiverType ==
    /\ rows \subseteq Events
    /\ inserted \in Events \cup {None}
    /\ step \in {"insert", "commit", "offset"}
    /\ handled \in Nat /\ committed \in Nat
    /\ hasOffset \in BOOLEAN

TypeOK == CursorType /\ ArchiverType

\* What the cursor may pass.
Passed(i) ==
    CASE stream = "features" -> \A g \in Groups : InTopic(i, g)
      [] stream = "labels" -> InTopic(i, "r1")
      [] stream = "predictions" -> i \in answered

AckInv ==
    \A r \in Runs : \A e \in acked[r] :
        IF stream = "predictions" THEN e.sample \in answered ELSE InTopic(e.sample, e.group)

\* What a run waits for is of its batch.
OutboxInv ==
    \A r \in Runs : \A e \in outbox[r] : run[r] = "wait" /\ e.sample >= start[r]

StartInv == \A r \in Runs : \A i \in Nat : i < start[r] => Passed(i)

CursorInv == \A i \in Nat : i < cursor => Passed(i)

\* With one run at a time, it is where the cursor is.
AloneInv ==
    MaxActive = 1 => \A r \in Active : start[r] = cursor /\ \A s \in Active : s = r

Stored(e) == \E row \in rows : row.id = e.id

ArchiverInv ==
    /\ handled = committed /\ handled <= Len(topic)
    /\ hasOffset \/ (committed = 0 /\ stream \notin FromLatest)
    /\ step # "insert" => handled < Len(topic)
    /\ step = "commit" => IF inserted = None THEN Stored(Record) ELSE inserted = Record
    /\ step = "offset" => Stored(Record)

IInv ==
    /\ TypeOK
    /\ AckInv /\ OutboxInv /\ StartInv /\ CursorInv /\ AloneInv /\ ArchiverInv

-----------------------------------------------------------------------------
(* Batches                                                                 *)

LEMMA EventFacts ==
    ASSUME NEW e \in Events
    PROVE  e.sample \in Nat /\ e.id \in Ids
BY DEF Events

LEMMA BatchFacts ==
    ASSUME CursorType, NEW r \in Runs
    PROVE  /\ start[r] \in Nat /\ left[r] \in Nat
           /\ Size(r) \in Nat /\ Size(r) <= left[r] /\ left[r] - Size(r) \in Nat
           /\ \A i \in Batch(r) : i \in Nat /\ i >= start[r]
           /\ \A k \in Nat : k < Size(r) => start[r] + k \in Batch(r)
<1>1. start[r] \in Nat /\ left[r] \in Nat /\ BatchSize \in Nat
  BY CursorAssumption DEF CursorType
<1>2. Size(r) \in Nat /\ Size(r) <= left[r] /\ left[r] - Size(r) \in Nat
  BY <1>1 DEF Size
<1>3. QED
  BY <1>1, <1>2 DEF Batch

\* The events of a batch are of its samples.
LEMMA BuildType ==
    ASSUME CursorType, NEW r \in Runs
    PROVE  /\ BuildEvents(r) \subseteq Events
           /\ \A e \in BuildEvents(r) : e.sample \in Batch(r)
<1>1. \A i \in Batch(r) : i \in Nat
  BY BatchFacts
<1>2. CASE stream = "features"
  <2>1. BuildEvents(r) = FeatureEvents(r)
    BY <1>2 DEF BuildEvents
  <2>2. QED
    BY <1>1, <2>1 DEF FeatureEvents, Events, Ids, Patch
<1>3. CASE stream = "labels"
  <2>1. BuildEvents(r) = LabelEvents(r)
    BY <1>3 DEF BuildEvents
  <2>2. QED
    BY <1>1, <2>1 DEF LabelEvents, Events, Ids, ToActualLabel
<1>4. CASE stream = "predictions"
  <2>1. BuildEvents(r) = Requests(r)
    BY <1>4 DEF BuildEvents
  <2>2. QED
    BY <1>1, <2>1 DEF Requests, Events, Ids, ToActualLabel
<1>5. QED
  BY <1>2, <1>3, <1>4 DEF CursorType, Streams

\* There is a first sample without a prediction, or none.
LEMMA LeadingFacts ==
    ASSUME CursorType, NEW r \in Runs
    PROVE  /\ Leading(r) \in 0 .. Size(r)
           /\ \A k \in 0 .. (Leading(r) - 1) : \E e \in acked[r] : e.sample = start[r] + k
<1> DEFINE P(k) == \E e \in acked[r] : e.sample = start[r] + k
           Stops == {n \in 0 .. Size(r) : n = Size(r) \/ ~ P(n)}
<1>1. Size(r) \in Nat
  BY BatchFacts
<1>2. Stops \subseteq Nat /\ Stops # {}
  BY <1>1
<1>3. PICK n \in Stops : \A m \in Stops : ~ (<<m, n>> \in OpToRel(<, Nat))
  <2> HIDE DEF Stops
  <2>1. QED
    BY <1>2, NatLessThanWellFounded, WFMin
<1>4. \A m \in Stops : ~ (m < n)
  BY <1>2, <1>3 DEF OpToRel
<1>5. n \in 0 .. Size(r) /\ (n < Size(r) => ~ P(n))
  BY <1>1
<1>6. \A k \in 0 .. (n - 1) : P(k)
  <2>1. SUFFICES ASSUME NEW k \in 0 .. (n - 1), ~ P(k) PROVE FALSE
    OBVIOUS
  <2>2. k \in 0 .. Size(r) /\ k < n
    BY <1>1, <1>5
  <2>3. k \in Stops
    BY <2>1, <2>2
  <2>4. QED
    BY <1>4, <2>2, <2>3
<1>7. \E m \in 0 .. Size(r) :
        /\ \A k \in 0 .. (m - 1) : \E e \in acked[r] : e.sample = start[r] + k
        /\ m < Size(r) => ~ \E e \in acked[r] : e.sample = start[r] + m
  BY <1>5, <1>6
<1>8. QED
  BY <1>7 DEF Leading

-----------------------------------------------------------------------------
(* The topic                                                               *)

LEMMA TopicFacts ==
    ASSUME topic \in Seq(Events), NEW e \in Events
    PROVE  /\ Append(topic, e) \in Seq(Events)
           /\ Len(Append(topic, e)) = Len(topic) + 1 /\ Len(topic) \in Nat
           /\ DOMAIN topic = 1 .. Len(topic)
           /\ DOMAIN Append(topic, e) = 1 .. (Len(topic) + 1)
           /\ \A n \in 1 .. Len(topic) : Append(topic, e)[n] = topic[n] /\ topic[n] \in Events
           /\ Append(topic, e)[Len(topic) + 1] = e
<1>1. Append(topic, e) \in Seq(Events) /\ Len(Append(topic, e)) = Len(topic) + 1
  BY AppendProperties
<1>2. QED
  BY <1>1, AppendProperties, LenProperties, ElementOfSeq

\* An event that is sent is of a run that waits for it.
TopicMoves ==
    /\ stream' = stream
    /\ answered \subseteq answered'
    /\ \/ topic' = topic
       \/ \E r \in Runs : \E e \in outbox[r] : topic' = Append(topic, e)

LEMMA TopicStep ==
    ASSUME [Next]_vars
    PROVE  TopicMoves
BY DEF Next, Workload, LoadState, RunStep, RunFault, StartBatch, Delivered, NotPredicted,
       FinishFeatures, FinishLabels, FinishPredictions, Save, Quit, DeliveryFails, SentTwice,
       EndRun, EditLabels, Archive, cursorVars, vars, TopicMoves

\* What is on the topic stays there.
LEMMA TopicKeeps ==
    ASSUME CursorType, TopicMoves
    PROVE  /\ topic' \in Seq(Events) /\ Len(topic) \in Nat /\ Len(topic) <= Len(topic')
           /\ \A n \in 1 .. Len(topic) : topic'[n] = topic[n]
           /\ \A i, g : InTopic(i, g) => InTopic(i, g)'
           /\ \A i : Passed(i) => Passed(i)'
<1>1. topic \in Seq(Events) /\ Len(topic) \in Nat /\ DOMAIN topic = 1 .. Len(topic)
  BY LenProperties DEF CursorType
<1>2. /\ topic' \in Seq(Events) /\ Len(topic) <= Len(topic')
      /\ \A n \in 1 .. Len(topic) : topic'[n] = topic[n] /\ n \in DOMAIN topic'
  <2>1. CASE topic' = topic
    BY <1>1, <2>1
  <2>2. ASSUME NEW r \in Runs, NEW e \in outbox[r], topic' = Append(topic, e)
        PROVE  /\ topic' \in Seq(Events) /\ Len(topic) <= Len(topic')
               /\ \A n \in 1 .. Len(topic) : topic'[n] = topic[n] /\ n \in DOMAIN topic'
    <3>1. e \in Events
      BY <2>2 DEF CursorType
    <3>2. QED
      BY <1>1, <2>2, <3>1, TopicFacts
  <2>3. QED
    BY <2>1, <2>2 DEF TopicMoves
<1>3. \A i, g : InTopic(i, g) => InTopic(i, g)'
  BY <1>1, <1>2 DEF InTopic
<1>4. \A i : Passed(i) => Passed(i)'
  BY <1>3 DEF Passed, TopicMoves, CursorType, Streams
<1>5. QED
  BY <1>1, <1>2, <1>3, <1>4

-----------------------------------------------------------------------------
(* Types                                                                   *)

LEMMA SaveType ==
    ASSUME TypeOK, NEW r \in Runs, NEW n \in 0 .. Size(r), Save(r, n)
    PROVE  /\ cursor' = start[r] + n /\ cursor' \in Nat
           /\ run' \in [Runs -> Places] /\ start' \in [Runs -> Nat] /\ left' \in [Runs -> Nat]
           /\ acked' \in [Runs -> SUBSET Events] /\ acked'[r] = {}
           /\ run'[r] \in {"build", "done"}
           /\ run'[r] = "build" => start'[r] = cursor'
           /\ start'[r] \in {start[r], cursor'}
           /\ \A s \in Runs : s # r =>
                run'[s] = run[s] /\ start'[s] = start[s] /\ acked'[s] = acked[s]
           /\ UNCHANGED <<stream, outbox, answered, topic>>
<1>0. CursorType
  BY DEF TypeOK
<1>1. start[r] \in Nat /\ n \in Nat /\ left[r] \in Nat /\ (n = Size(r) => left[r] - n \in Nat)
  BY <1>0, BatchFacts
<1>2. cursor' = start[r] + n /\ cursor' \in Nat
  BY <1>1 DEF Save
<1>3. acked' = [acked EXCEPT ![r] = {}] /\ UNCHANGED <<stream, outbox, answered, topic>>
  BY DEF Save
<1>4. CASE n = Size(r) /\ left[r] > n
  <2>1. /\ run' = [run EXCEPT ![r] = "build"]
        /\ start' = [start EXCEPT ![r] = cursor']
        /\ left' = [left EXCEPT ![r] = @ - n]
    BY <1>4 DEF Save
  <2>2. QED
    BY <1>0, <1>1, <1>2, <1>3, <1>4, <2>1 DEF CursorType, Places
<1>5. CASE ~ (n = Size(r) /\ left[r] > n)
  <2>1. run' = [run EXCEPT ![r] = "done"] /\ UNCHANGED <<start, left>>
    BY <1>5 DEF Save
  <2>2. QED
    BY <1>0, <1>2, <1>3, <2>1 DEF CursorType, Places
<1>6. QED
  BY <1>4, <1>5

\* A batch whose events were all acknowledged, or a leading part of it that was answered.
Finish(r, n) ==
    /\ Reported(r)
    /\ n \in 0 .. Size(r)
    /\ Save(r, n)
    /\ \A i \in Nat : i >= start[r] /\ i < start[r] + n =>
            CASE stream = "features" -> \A g \in Groups : \E e \in acked[r] : e.sample = i /\ e.group = g
              [] stream = "labels" -> \E e \in acked[r] : e.sample = i /\ e.group = "r1"
              [] stream = "predictions" -> \E e \in acked[r] : e.sample = i

LEMMA FinishFacts ==
    ASSUME TypeOK, NEW r \in Runs,
           FinishFeatures(r) \/ FinishLabels(r) \/ FinishPredictions(r)
    PROVE  \/ Reported(r) /\ Quit(r)
           \/ \E n \in Nat : Finish(r, n)
<1>0. CursorType
  BY DEF TypeOK
<1>1. /\ start[r] \in Nat /\ Size(r) \in Nat /\ Size(r) \in 0 .. Size(r)
      /\ \A i \in Nat : i >= start[r] /\ i < start[r] + Size(r) => i \in Batch(r)
  <2>1. start[r] \in Nat /\ Size(r) \in Nat /\ \A k \in Nat : k < Size(r) => start[r] + k \in Batch(r)
    BY <1>0, BatchFacts
  <2>2. ASSUME NEW i \in Nat, i >= start[r], i < start[r] + Size(r) PROVE i \in Batch(r)
    <3>1. i - start[r] \in Nat /\ i - start[r] < Size(r) /\ start[r] + (i - start[r]) = i
      BY <2>1, <2>2
    <3>2. QED
      BY <2>1, <3>1
  <2>3. QED
    BY <2>1, <2>2
<1>2. CASE FinishFeatures(r)
  <2>1. CASE AllDelivered(r)
    <3>1. stream = "features" /\ acked[r] = FeatureEvents(r)
      BY <1>2, <2>1 DEF FinishFeatures, AllDelivered, BuildEvents
    <3>2. \A i \in Batch(r) : \A g \in Groups : \E e \in acked[r] : e.sample = i /\ e.group = g
      <4>1. SUFFICES ASSUME NEW i \in Batch(r), NEW g \in Groups
                     PROVE  \E e \in acked[r] : e.sample = i /\ e.group = g
        OBVIOUS
      <4> DEFINE event == [id |-> <<r, i, g>>, sample |-> i, group |-> g, value |-> Patch(i, g)]
      <4>2. event \in FeatureEvents(r) /\ event.sample = i /\ event.group = g
        BY <4>1 DEF FeatureEvents
      <4>3. QED
        BY <3>1, <4>2
    <3>3. Finish(r, Size(r))
      BY <1>1, <1>2, <2>1, <3>1, <3>2 DEF Finish, FinishFeatures
    <3>4. QED
      BY <1>1, <3>3
  <2>2. QED
    BY <1>2, <2>1 DEF FinishFeatures
<1>3. CASE FinishLabels(r)
  <2>1. CASE AllDelivered(r)
    <3>1. stream = "labels" /\ acked[r] = LabelEvents(r)
      BY <1>3, <2>1 DEF FinishLabels, AllDelivered, BuildEvents
    <3>2. \A i \in Batch(r) : \E e \in acked[r] : e.sample = i /\ e.group = "r1"
      <4>1. SUFFICES ASSUME NEW i \in Batch(r)
                     PROVE  \E e \in acked[r] : e.sample = i /\ e.group = "r1"
        OBVIOUS
      <4> DEFINE v == IF edits = 0 THEN 1 ELSE -1
                 event == [id |-> <<"label", i, "r1">>, sample |-> i, group |-> "r1",
                           value |-> v, label |-> ToActualLabel(v)]
      <4>2. event \in LabelEvents(r) /\ event.sample = i /\ event.group = "r1"
        BY <4>1 DEF LabelEvents
      <4>3. QED
        BY <3>1, <4>2
    <3>3. Finish(r, Size(r))
      BY <1>1, <1>3, <2>1, <3>1, <3>2 DEF Finish, FinishLabels
    <3>4. QED
      BY <1>1, <3>3
  <2>2. QED
    BY <1>3, <2>1 DEF FinishLabels
<1>4. CASE FinishPredictions(r)
  <2> DEFINE n == Leading(r)
  <2>1. n \in 0 .. Size(r) /\ \A k \in 0 .. (n - 1) : \E e \in acked[r] : e.sample = start[r] + k
    BY <1>0, LeadingFacts
  <2>2. stream = "predictions" /\ Reported(r) /\ Save(r, n)
    BY <1>4 DEF FinishPredictions
  <2> HIDE DEF n
  <2>3. ASSUME NEW i \in Nat, i >= start[r], i < start[r] + n
        PROVE  \E e \in acked[r] : e.sample = i
    <3>1. i - start[r] \in 0 .. (n - 1) /\ start[r] + (i - start[r]) = i
      BY <1>1, <2>1, <2>3
    <3>2. QED
      BY <2>1, <3>1
  <2>4. Finish(r, n) /\ n \in Nat
    BY <1>1, <2>1, <2>2, <2>3 DEF Finish
  <2>5. QED
    BY <2>4
<1>5. QED
  BY <1>2, <1>3, <1>4

\* The events of a run move from its outbox to what was acknowledged, or nowhere.
Hands(r) ==
    /\ outbox[r] # {}
    /\ outbox' \in [Runs -> SUBSET Events] /\ acked' \in [Runs -> SUBSET Events]
    /\ outbox'[r] \subseteq outbox[r]
    /\ \A e \in acked'[r] : e \in acked[r] \/
            IF stream = "predictions" THEN e.sample \in answered'
            ELSE e \in outbox[r] /\ topic' = Append(topic, e)
    /\ \A s \in Runs : s # r => outbox'[s] = outbox[s] /\ acked'[s] = acked[s]
    /\ answered' \subseteq Nat
    /\ UNCHANGED <<cursor, run, start, left>>

LEMMA HandsFacts ==
    ASSUME TypeOK, NEW r \in Runs, NEW e \in outbox[r],
           Delivered(r, e) \/ NotPredicted(r, e) \/ DeliveryFails(r, e) \/ SentTwice(r, e)
    PROVE  Hands(r)
<1>0. /\ outbox \in [Runs -> SUBSET Events] /\ acked \in [Runs -> SUBSET Events]
      /\ e \in Events /\ e.sample \in Nat /\ answered \subseteq Nat /\ stream \in Streams
  BY EventFacts DEF TypeOK, CursorType
<1>1. CASE Delivered(r, e)
  <2>1. /\ outbox' = [outbox EXCEPT ![r] = @ \ {e}]
        /\ acked' = [acked EXCEPT ![r] = @ \cup {e}]
        /\ stream # "predictions" => topic' = Append(topic, e)
        /\ answered' = IF stream = "predictions" THEN answered \cup {e.sample} ELSE answered
        /\ UNCHANGED <<cursor, run, start, left>>
    BY <1>1 DEF Delivered
  <2>2. QED
    BY <1>0, <2>1 DEF Hands
<1>2. CASE NotPredicted(r, e) \/ DeliveryFails(r, e) \/ SentTwice(r, e)
  <2>1. /\ outbox' \in {outbox, [outbox EXCEPT ![r] = @ \ {e}]}
        /\ UNCHANGED <<acked, answered, cursor, run, start, left>>
    BY <1>2 DEF NotPredicted, DeliveryFails, SentTwice
  <2>2. QED
    BY <1>0, <2>1 DEF Hands
<1>3. QED
  BY <1>1, <1>2

\* The steps of the scripts that the invariant tells apart.
LEMMA WorkloadCases ==
    ASSUME TypeOK, Workload
    PROVE  \/ \E r \in Runs : LoadState(r) \/ StartBatch(r) \/ Hands(r)
                                \/ (Reported(r) /\ Quit(r)) \/ EndRun(r)
                                \/ \E n \in Nat : Finish(r, n)
           \/ UNCHANGED <<cursor, run, start, left, outbox, acked, answered, topic>>
BY HandsFacts, FinishFacts DEF Workload, RunStep, RunFault, EditLabels

LEMMA CursorTypeStep ==
    ASSUME TypeOK, TopicMoves, Workload
    PROVE  CursorType'
<1>0. CursorType
  BY DEF TypeOK
<1>1. topic' \in Seq(Events) /\ stream' \in Streams
  BY <1>0, TopicKeeps DEF TopicMoves, CursorType
<1>2. ASSUME NEW r \in Runs, LoadState(r) PROVE CursorType'
  BY <1>0, <1>1, <1>2, CursorAssumption DEF LoadState, CursorType, Places
<1>3. ASSUME NEW r \in Runs, StartBatch(r) PROVE CursorType'
  <2>1. BuildEvents(r) \subseteq Events
    BY <1>0, BuildType
  <2>2. QED
    BY <1>0, <1>1, <1>3, <2>1 DEF StartBatch, CursorType, Places
<1>4. ASSUME NEW r \in Runs, Hands(r) PROVE CursorType'
  BY <1>0, <1>1, <1>4 DEF Hands, CursorType
<1>5. ASSUME NEW r \in Runs, Quit(r) \/ EndRun(r) PROVE CursorType'
  BY <1>0, <1>1, <1>5 DEF Quit, EndRun, CursorType, Places
<1>6. ASSUME NEW r \in Runs, NEW n \in Nat, Finish(r, n) PROVE CursorType'
  BY <1>0, <1>1, <1>6, SaveType DEF Finish, CursorType
<1>7. CASE UNCHANGED <<cursor, run, start, left, outbox, acked, answered, topic>>
  BY <1>0, <1>1, <1>7 DEF CursorType
<1>8. QED
  BY <1>2, <1>3, <1>4, <1>5, <1>6, <1>7, WorkloadCases

-----------------------------------------------------------------------------
(* The scripts                                                             *)

LEMMA AckStep ==
    ASSUME TypeOK, AckInv, TopicMoves, Workload
    PROVE  AckInv'
<1>0. CursorType
  BY DEF TypeOK
<1>1. /\ stream' = stream /\ answered \subseteq answered'
      /\ \A i, g : InTopic(i, g) => InTopic(i, g)'
  BY <1>0, TopicKeeps DEF TopicMoves
<1>2. ASSUME NEW r \in Runs, NEW e \in acked[r]
      PROVE  IF stream' = "predictions" THEN e.sample \in answered' ELSE InTopic(e.sample, e.group)'
  BY <1>1, <1>2 DEF AckInv
<1>3. CASE \A r \in Runs : acked'[r] \in {{}, acked[r]}
  BY <1>2, <1>3 DEF AckInv
<1>4. ASSUME NEW r \in Runs, Hands(r) PROVE AckInv'
  <2>1. SUFFICES ASSUME NEW s \in Runs, NEW e \in acked'[s]
                 PROVE  IF stream' = "predictions" THEN e.sample \in answered'
                        ELSE InTopic(e.sample, e.group)'
    BY DEF AckInv
  <2>2. CASE e \in acked[s]
    BY <1>2, <2>2
  <2>3. CASE e \notin acked[s]
    <3>1. s = r
      BY <1>4, <2>1, <2>3 DEF Hands
    <3>2. CASE stream = "predictions"
      BY <1>1, <1>4, <2>1, <2>3, <3>1, <3>2 DEF Hands
    <3>3. CASE stream # "predictions"
      <4>1. e \in outbox[r] /\ topic' = Append(topic, e)
        BY <1>4, <2>1, <2>3, <3>1, <3>3 DEF Hands
      <4>2. e \in Events /\ topic \in Seq(Events)
        BY <1>0, <4>1 DEF CursorType
      <4>3. Len(topic) + 1 \in DOMAIN topic' /\ topic'[Len(topic) + 1] = e
        BY <4>1, <4>2, TopicFacts
      <4>4. InTopic(e.sample, e.group)'
        BY <4>3 DEF InTopic
      <4>5. QED
        BY <1>1, <3>3, <4>4
    <3>4. QED
      BY <3>2, <3>3
  <2>4. QED
    BY <2>2, <2>3
<1>5. ASSUME NEW r \in Runs, LoadState(r) \/ StartBatch(r) \/ Quit(r) \/ EndRun(r) PROVE AckInv'
  BY <1>0, <1>3, <1>5 DEF LoadState, StartBatch, Quit, EndRun, CursorType
<1>6. ASSUME NEW r \in Runs, NEW n \in Nat, Finish(r, n) PROVE AckInv'
  BY <1>3, <1>6, SaveType DEF Finish
<1>7. CASE UNCHANGED acked
  BY <1>3, <1>7
<1>8. QED
  BY <1>4, <1>5, <1>6, <1>7, WorkloadCases

LEMMA OutboxStep ==
    ASSUME TypeOK, OutboxInv, Workload
    PROVE  OutboxInv'
<1>0. CursorType
  BY DEF TypeOK
<1>1. ASSUME NEW r \in Runs, LoadState(r) PROVE OutboxInv'
  BY <1>0, <1>1 DEF LoadState, CursorType, OutboxInv
<1>2. ASSUME NEW r \in Runs, StartBatch(r) PROVE OutboxInv'
  <2>1. \A e \in BuildEvents(r) : e.sample >= start[r]
    BY <1>0, BuildType, BatchFacts
  <2>2. QED
    BY <1>0, <1>2, <2>1 DEF StartBatch, CursorType, OutboxInv
<1>3. ASSUME NEW r \in Runs, Hands(r) PROVE OutboxInv'
  BY <1>3 DEF Hands, OutboxInv
<1>4. ASSUME NEW r \in Runs, Reported(r), Quit(r) PROVE OutboxInv'
  BY <1>0, <1>4 DEF Reported, Quit, CursorType, OutboxInv
<1>5. ASSUME NEW r \in Runs, EndRun(r) PROVE OutboxInv'
  BY <1>0, <1>5 DEF EndRun, CursorType, OutboxInv
<1>6. ASSUME NEW r \in Runs, NEW n \in Nat, Finish(r, n) PROVE OutboxInv'
  BY <1>6, SaveType DEF Finish, Reported, OutboxInv
<1>7. CASE UNCHANGED <<run, start, outbox>>
  BY <1>7 DEF OutboxInv
<1>8. QED
  BY <1>1, <1>2, <1>3, <1>4, <1>5, <1>6, <1>7, WorkloadCases

LEMMA CursorStep ==
    ASSUME TypeOK, AckInv, StartInv, CursorInv, TopicMoves, Workload
    PROVE  StartInv' /\ CursorInv'
<1>0. CursorType
  BY DEF TypeOK
<1>1. \A i : Passed(i) => Passed(i)'
  BY <1>0, TopicKeeps
<1>2. ASSUME cursor' = cursor, \A r \in Runs : start'[r] \in {start[r], cursor}
      PROVE  StartInv' /\ CursorInv'
  BY <1>1, <1>2 DEF StartInv, CursorInv
<1>3. ASSUME NEW r \in Runs, NEW n \in Nat, Finish(r, n) PROVE StartInv' /\ CursorInv'
  <2>1. cursor' = start[r] + n /\ \A s \in Runs : start'[s] \in {start[s], cursor'}
    BY <1>3, SaveType DEF Finish
  <2>2. start[r] \in Nat
    BY <1>0 DEF CursorType
  <2>3. ASSUME NEW i \in Nat, i < cursor' PROVE Passed(i)
    <3>1. CASE i < start[r]
      BY <3>1 DEF StartInv
    <3>2. CASE i >= start[r]
      <4>1. i < start[r] + n
        BY <2>1, <2>3
      <4>2. CASE stream = "features" \/ stream = "labels"
        BY <1>3, <3>2, <4>1, <4>2 DEF Finish, AckInv, Passed
      <4>3. CASE stream = "predictions"
        BY <1>3, <3>2, <4>1, <4>3 DEF Finish, AckInv, Passed
      <4>4. QED
        BY <1>0, <4>2, <4>3 DEF CursorType, Streams
    <3>3. QED
      BY <2>2, <3>1, <3>2
  <2>4. QED
    BY <1>1, <2>1, <2>3 DEF StartInv, CursorInv
<1>4. ASSUME NEW r \in Runs, LoadState(r) \/ StartBatch(r) \/ Hands(r) \/ Quit(r) \/ EndRun(r)
      PROVE  StartInv' /\ CursorInv'
  BY <1>0, <1>2, <1>4 DEF LoadState, StartBatch, Hands, Quit, EndRun, CursorType
<1>5. CASE UNCHANGED <<cursor, start>>
  BY <1>2, <1>5
<1>6. QED
  BY <1>3, <1>4, <1>5, WorkloadCases

LEMMA AloneStep ==
    ASSUME TypeOK, OutboxInv, AloneInv, Workload
    PROVE  AloneInv'
<1>0. CursorType
  BY DEF TypeOK
<1>1. SUFFICES ASSUME MaxActive = 1
               PROVE  \A r \in Active' : start'[r] = cursor' /\ \A s \in Active' : s = r
  BY DEF AloneInv
<1>2. \A r \in Active : start[r] = cursor /\ \A s \in Active : s = r
  BY <1>1 DEF AloneInv
<1>3. ASSUME NEW r \in Runs, LoadState(r)
      PROVE  \A q \in Active' : start'[q] = cursor' /\ \A s \in Active' : s = q
  <2>1. Active = {}
    <3>1. IsFiniteSet(Active)
      BY CursorAssumption, FS_Subset DEF Active
    <3>2. Cardinality(Active) \in Nat /\ Cardinality(Active) < 1
      BY <1>1, <1>3, <3>1, FS_CardinalityType DEF LoadState
    <3>3. QED
      BY <3>1, <3>2, FS_EmptySet
  <2>2. Active' = {r} /\ start'[r] = cursor /\ cursor' = cursor
    BY <1>0, <1>3, <2>1 DEF LoadState, Active, CursorType
  <2>3. QED
    BY <2>2
<1>4. ASSUME NEW r \in Runs, NEW n \in Nat, Finish(r, n)
      PROVE  \A q \in Active' : start'[q] = cursor' /\ \A s \in Active' : s = q
  <2>1. Active = {r}
    BY <1>2, <1>4 DEF Finish, Reported, Active
  <2>2. Active' \subseteq {r} /\ (r \in Active' => start'[r] = cursor')
    BY <1>4, <2>1, SaveType DEF Finish, Active
  <2>3. QED
    BY <2>2
<1>5. ASSUME NEW r \in Runs, StartBatch(r) \/ Hands(r) \/ Quit(r) \/ EndRun(r)
      PROVE  \A q \in Active' : start'[q] = cursor' /\ \A s \in Active' : s = q
  <2>1. Active' \subseteq Active /\ start' = start /\ cursor' = cursor
    BY <1>0, <1>5 DEF StartBatch, Hands, Quit, EndRun, CursorType, Active
  <2>2. QED
    BY <1>2, <2>1
<1>6. CASE UNCHANGED <<cursor, run, start>>
  BY <1>2, <1>6 DEF Active
<1>7. QED
  BY <1>3, <1>4, <1>5, <1>6, WorkloadCases

-----------------------------------------------------------------------------
(* The archiver                                                            *)

LEMMA Position ==
    ASSUME TypeOK, ArchiverInv, handled < Len(topic)
    PROVE  /\ handled + 1 \in 1 .. Len(topic) /\ handled + 1 \in DOMAIN topic
           /\ Record \in Events /\ Record # None
<1>1. /\ topic \in Seq(Events) /\ Len(topic) \in Nat /\ DOMAIN topic = 1 .. Len(topic)
      /\ handled \in Nat
  BY LenProperties DEF TypeOK, CursorType, ArchiverType
<1>2. handled + 1 \in 1 .. Len(topic)
  BY <1>1
<1>3. Record \in Events
  BY <1>1, <1>2, ElementOfSeq DEF Record
<1>4. QED
  BY <1>1, <1>2, <1>3, NoneAssumption

LEMMA InsertStep ==
    ASSUME TypeOK, ArchiverInv, InsertFeature \/ InsertLabel \/ InsertPrediction,
           UNCHANGED cursorVars
    PROVE  /\ ArchiverType' /\ ArchiverInv' /\ UNCHANGED <<rows, committed, topic>>
<1>1. handled < Len(topic) /\ InsertRow(Record)
  BY DEF InsertFeature, InsertLabel, InsertPrediction, Polled
<1>2. Record \in Events /\ Record # None
  BY <1>1, Position
<1>3. topic' = topic /\ stream' = stream /\ UNCHANGED <<rows, handled, committed, hasOffset>>
  BY <1>1 DEF InsertRow, cursorVars
<1>4. inserted' = IF Stored(Record) THEN None ELSE Record
  BY <1>1 DEF InsertRow, Stored
<1>5. step' = "commit" /\ Record' = Record
  BY <1>1, <1>3 DEF InsertRow, Record
<1>6. ArchiverType'
  BY <1>2, <1>3, <1>4, <1>5 DEF TypeOK, ArchiverType
<1>7. ArchiverInv'
  BY <1>1, <1>2, <1>3, <1>4, <1>5 DEF ArchiverInv, Stored
<1>8. QED
  BY <1>3, <1>6, <1>7

LEMMA CommitRowStep ==
    ASSUME TypeOK, ArchiverInv, CommitRow, UNCHANGED cursorVars
    PROVE  /\ ArchiverType' /\ ArchiverInv' /\ UNCHANGED <<committed, topic>>
           /\ rows' = rows \/ rows' = rows \cup {Record}
           /\ handled < Len(topic)
<1>1. /\ topic' = topic /\ stream' = stream /\ UNCHANGED <<handled, committed, hasOffset>>
      /\ step = "commit" /\ step' = "offset" /\ inserted' = None
      /\ rows' = rows \cup ({inserted} \ {None})
  BY DEF CommitRow, cursorVars
<1>2. handled < Len(topic) /\ Record' = Record
  BY <1>1 DEF ArchiverInv, Record
<1>3. Record \in Events /\ Record # None
  BY <1>2, Position
<1>4. CASE inserted = None
  <2>1. rows' = rows /\ Stored(Record)
    BY <1>1, <1>4 DEF ArchiverInv
  <2>2. Stored(Record)'
    BY <1>2, <2>1 DEF Stored
  <2>3. QED
    BY <1>1, <1>2, <2>1, <2>2 DEF TypeOK, ArchiverType, ArchiverInv
<1>5. CASE inserted # None
  <2>1. rows' = rows \cup {Record}
    BY <1>1, <1>5 DEF ArchiverInv
  <2>2. Stored(Record)'
    BY <1>2, <2>1 DEF Stored
  <2>3. QED
    BY <1>1, <1>2, <1>3, <2>1, <2>2 DEF TypeOK, ArchiverType, ArchiverInv
<1>6. QED
  BY <1>4, <1>5

LEMMA CommitOffsetStep ==
    ASSUME TypeOK, ArchiverInv, CommitOffset, UNCHANGED cursorVars
    PROVE  /\ ArchiverType' /\ ArchiverInv' /\ UNCHANGED <<rows, topic>>
           /\ committed' = committed + 1 /\ handled < Len(topic) /\ Stored(Record)
<1>1. /\ topic' = topic /\ UNCHANGED <<rows, inserted>>
      /\ step = "offset" /\ step' = "insert" /\ hasOffset' = TRUE
      /\ handled' = handled + 1 /\ committed' = handled + 1
  BY DEF CommitOffset, cursorVars
<1>2. handled = committed /\ handled < Len(topic) /\ Stored(Record)
  BY <1>1 DEF ArchiverInv
<1>3. handled \in Nat /\ Len(topic) \in Nat
  BY LenProperties DEF TypeOK, CursorType, ArchiverType
<1>4. ArchiverType' /\ ArchiverInv'
  BY <1>1, <1>2, <1>3 DEF TypeOK, ArchiverType, ArchiverInv
<1>5. QED
  BY <1>1, <1>2, <1>4

LEMMA RestartStep ==
    ASSUME TypeOK, ArchiverInv, Restart, UNCHANGED cursorVars
    PROVE  /\ ArchiverType' /\ ArchiverInv' /\ UNCHANGED <<rows, committed, topic>>
<1>1. /\ topic' = topic /\ stream' = stream /\ UNCHANGED <<rows, committed, hasOffset>>
      /\ inserted' = None /\ step' = "insert"
      /\ handled' = IF hasOffset THEN committed
                    ELSE IF stream \in FromLatest THEN Len(topic) ELSE 0
  BY DEF Restart, cursorVars
<1>2. handled' = committed
  BY <1>1 DEF ArchiverInv
<1>3. QED
  BY <1>1, <1>2 DEF TypeOK, ArchiverType, ArchiverInv

\* What the scripts do leaves the record at hand where it is.
LEMMA ArchiverStays ==
    ASSUME TypeOK, ArchiverInv, TopicMoves, UNCHANGED archiverVars
    PROVE  ArchiverType' /\ ArchiverInv'
<1>1. /\ Len(topic) \in Nat /\ Len(topic') \in Nat /\ Len(topic) <= Len(topic')
      /\ \A n \in 1 .. Len(topic) : topic'[n] = topic[n]
  BY TopicKeeps, LenProperties DEF TypeOK
<1>2. handled \in Nat /\ handled' = handled /\ UNCHANGED <<rows, inserted, step, committed, hasOffset, stream>>
  BY DEF TypeOK, ArchiverType, archiverVars, TopicMoves
<1>3. handled < Len(topic) => handled' < Len(topic') /\ Record' = Record
  BY <1>1, <1>2 DEF Record
<1>4. handled' <= Len(topic')
  BY <1>1, <1>2 DEF ArchiverInv
<1>5. ArchiverInv'
  BY <1>2, <1>3, <1>4 DEF ArchiverInv, Stored
<1>6. QED
  BY <1>2, <1>5 DEF TypeOK, ArchiverType

-----------------------------------------------------------------------------
(* The invariant                                                           *)

LEMMA InitHolds == Init => IInv
<1> SUFFICES ASSUME Init PROVE IInv
  OBVIOUS
<1>0. << >> \in Seq(Events) /\ Len(<< >>) = 0 /\ DOMAIN << >> = {}
  BY EmptySeq
<1>1. CursorType
  BY <1>0 DEF Init, CursorInit, CursorType, Places
<1>2. ArchiverType
  BY DEF Init, ArchiverInit, ArchiverType
<1>3. AckInv /\ OutboxInv /\ StartInv /\ CursorInv /\ AloneInv
  BY DEF Init, CursorInit, AckInv, OutboxInv, StartInv, CursorInv, AloneInv, Active
<1>4. ArchiverInv
  <2>1. hasOffset \/ (committed = 0 /\ stream \notin FromLatest)
    BY Zenon DEF Init, ArchiverInit
  <2>2. handled = committed /\ handled <= Len(topic) /\ step = "insert"
    BY <1>0 DEF Init, CursorInit, ArchiverInit
  <2>3. QED
    BY <2>1, <2>2 DEF ArchiverInv
<1>5. QED
  BY <1>1, <1>2, <1>3, <1>4 DEF IInv, TypeOK

LEMMA StepHolds == IInv /\ [Next]_vars => IInv'
<1> SUFFICES ASSUME IInv, [Next]_vars PROVE IInv'
  OBVIOUS
<1>0. TypeOK /\ AckInv /\ OutboxInv /\ StartInv /\ CursorInv /\ AloneInv /\ ArchiverInv
  BY DEF IInv
<1>1. TopicMoves
  BY TopicStep
<1>2. CASE Workload
  <2>1. CursorType' /\ AckInv' /\ OutboxInv' /\ StartInv' /\ CursorInv' /\ AloneInv'
    BY <1>0, <1>1, <1>2, CursorTypeStep, AckStep, OutboxStep, CursorStep, AloneStep
  <2>2. ArchiverType' /\ ArchiverInv'
    BY <1>0, <1>1, <1>2, ArchiverStays DEF Workload
  <2>3. QED
    BY <2>1, <2>2 DEF IInv, TypeOK
<1>3. ASSUME UNCHANGED cursorVars
      PROVE  CursorType' /\ AckInv' /\ OutboxInv' /\ StartInv' /\ CursorInv' /\ AloneInv'
  BY <1>0, <1>3 DEF cursorVars, TypeOK, CursorType, AckInv, OutboxInv, StartInv, CursorInv,
                    AloneInv, Active, Passed, InTopic
<1>4. CASE Archive
  <2>1. ArchiverType' /\ ArchiverInv'
    BY <1>0, <1>4, InsertStep, CommitRowStep, CommitOffsetStep, RestartStep
       DEF Archive, ArchiveStep
  <2>2. QED
    BY <1>3, <1>4, <2>1 DEF Archive, IInv, TypeOK
<1>5. CASE UNCHANGED vars
  <2>1. ArchiverType' /\ ArchiverInv'
    BY <1>0, <1>1, <1>5, ArchiverStays DEF vars
  <2>2. QED
    BY <1>3, <1>5, <2>1 DEF vars, IInv, TypeOK
<1>6. QED
  BY <1>2, <1>4, <1>5 DEF Next

\* The invariant that the other results rest on: what runs and archiver hold, whoever
\* else moves the cursor (the three workload scripts, the three archivers).
THEOREM InvariantHolds == Spec => []IInv
<1>1. Init => IInv
  BY InitHolds
<1>2. IInv /\ [Next]_vars => IInv'
  BY StepHolds
<1>3. QED
  BY <1>1, <1>2, PTL DEF Spec

\* What the cursor has passed was sent or answered, for any number of runs at a time,
\* failed deliveries and kills (save_state after the reports of a batch).
THEOREM CursorIsSound == Spec => []CursorSound
<1>1. IInv => CursorSound
  <2> SUFFICES ASSUME IInv, NEW i \in 0 .. (cursor - 1) PROVE Passed(i)
    BY DEF CursorSound, Passed
  <2>1. i \in Nat /\ i < cursor
    BY DEF IInv, TypeOK, CursorType
  <2>2. QED
    BY <2>1 DEF IInv, CursorInv
<1>2. QED
  BY <1>1, InvariantHolds, PTL

\* With one run at a time, as the scripts are started, nothing is sent again that the
\* cursor has passed.
THEOREM NothingIsSentAgain == ASSUME MaxActive = 1 PROVE Spec => NothingSentBehindCursor
<1>1. IInv /\ [Next]_vars =>
        [\A r \in Runs :
            Active = {r} /\ topic' # topic => topic'[Len(topic')].sample >= cursor]_vars
  <2> SUFFICES ASSUME IInv, [Next]_vars, NEW r \in Runs, Active = {r}, topic' # topic
               PROVE  topic'[Len(topic')].sample >= cursor
    OBVIOUS
  <2>0. PICK s \in Runs : \E e \in outbox[s] : topic' = Append(topic, e)
    BY TopicStep DEF TopicMoves
  <2>1. PICK e \in outbox[s] : topic' = Append(topic, e)
    BY <2>0
  <2>2. topic \in Seq(Events) /\ e \in Events
    BY <2>1 DEF IInv, TypeOK, CursorType
  <2>3. topic'[Len(topic')] = e
    BY <2>1, <2>2, TopicFacts
  <2>4. run[s] = "wait" /\ e.sample >= start[s]
    BY <2>1 DEF IInv, OutboxInv
  <2>5. s = r /\ start[r] = cursor
    BY <2>4 DEF IInv, AloneInv, Active
  <2>6. QED
    BY <2>3, <2>4, <2>5
<1>2. QED
  BY <1>1, InvariantHolds, PTL DEF Spec, NothingSentBehindCursor

-----------------------------------------------------------------------------
(* The archivers implement AtLeastOnceSink                                 *)

SinkLog == [n \in DOMAIN topic |-> topic[n].id]
SinkStored == {row.id : row \in rows}

LEMMA SinkInit == Init => Sink!Init
<1> SUFFICES ASSUME Init PROVE Sink!Init
  OBVIOUS
<1>1. SinkLog = << >>
  BY DEF SinkLog, Init, CursorInit
<1>2. SinkStored = {} /\ committed = 0
  BY DEF SinkStored, Init, ArchiverInit
<1>3. QED
  BY <1>1, <1>2 DEF Sink!Init, SinkLog, SinkStored

LEMMA LogFacts ==
    ASSUME NEW t \in Seq(Events), NEW log, log = [n \in DOMAIN t |-> t[n].id]
    PROVE  /\ Len(t) \in Nat /\ DOMAIN t = 1 .. Len(t)
           /\ log \in Seq(Ids) /\ Len(log) = Len(t) /\ DOMAIN log = 1 .. Len(t)
           /\ \A n \in 1 .. Len(t) : log[n] = t[n].id
<1>1. Len(t) \in Nat /\ DOMAIN t = 1 .. Len(t)
  BY LenProperties
<1>2. \A n \in 1 .. Len(t) : t[n].id \in Ids
  BY <1>1, ElementOfSeq, EventFacts
<1>3. log \in [1 .. Len(t) -> Ids]
  BY <1>1, <1>2
<1>4. QED
  BY <1>1, <1>3, SeqDef, LenProperties

\* Each step is a Produce, a Store, a Commit or a stutter of the sink.
LEMMA SinkStep ==
    IInv /\ [Next]_vars => [Sink!Next]_<<SinkLog, SinkStored, committed>>
<1> SUFFICES ASSUME IInv, [Next]_vars
             PROVE  Sink!Next \/ UNCHANGED <<SinkLog, SinkStored, committed>>
  OBVIOUS
<1>0. TypeOK /\ ArchiverInv /\ topic \in Seq(Events) /\ handled = committed /\ handled \in Nat
  BY DEF IInv, TypeOK, CursorType, ArchiverType, ArchiverInv
<1>1. CASE Workload
  <2>1. SinkStored' = SinkStored /\ committed' = committed
    BY <1>1 DEF Workload, archiverVars, SinkStored
  <2>2. CASE topic' = topic
    BY <2>1, <2>2 DEF SinkLog
  <2>3. ASSUME NEW r \in Runs, NEW e \in outbox[r], topic' = Append(topic, e)
        PROVE  Sink!Produce
    <3>1. e \in Events
      BY <1>0, <2>3 DEF TypeOK, CursorType
    <3>2. /\ topic' \in Seq(Events) /\ Len(topic') = Len(topic) + 1
          /\ \A n \in 1 .. Len(topic) : topic'[n] = topic[n]
      BY <1>0, <2>3, <3>1, TopicFacts
    <3>3. /\ SinkLog' \in Seq(Ids) /\ Len(SinkLog') = Len(topic) + 1
          /\ \A n \in 1 .. (Len(topic) + 1) : SinkLog'[n] = topic'[n].id
      BY <3>2, LogFacts DEF SinkLog
    <3>4. /\ SinkLog \in Seq(Ids) /\ Len(SinkLog) = Len(topic) /\ Len(topic) \in Nat
          /\ \A n \in 1 .. Len(topic) : SinkLog[n] = topic[n].id
      BY <1>0, LogFacts DEF SinkLog
    <3>5. \A n \in 1 .. Len(SinkLog) : SinkLog'[n] = SinkLog[n]
      BY <3>2, <3>3, <3>4
    <3> HIDE DEF SinkLog
    <3>6. SubSeq(SinkLog', 1, Len(SinkLog)) = SinkLog
      BY <3>3, <3>4, <3>5
    <3>7. QED
      BY <2>1, <3>3, <3>4, <3>6 DEF Sink!Produce, SinkLog, SinkStored
  <2>4. QED
    BY <2>2, <2>3, TopicStep DEF TopicMoves, Sink!Next
<1>2. CASE Archive
  <2>1. CASE CommitRow
    <3>1. /\ rows' = rows \/ rows' = rows \cup {Record}
          /\ handled < Len(topic) /\ committed' = committed /\ topic' = topic
      BY <1>0, <1>2, <2>1, CommitRowStep DEF Archive
    <3>2. SinkLog' = SinkLog
      BY <3>1 DEF SinkLog
    <3>3. CASE rows' = rows
      BY <3>1, <3>2, <3>3 DEF SinkStored
    <3>4. CASE rows' = rows \cup {Record}
      <4>1. handled + 1 \in DOMAIN SinkLog /\ SinkLog[handled + 1] = Record.id
        BY <1>0, <3>1, Position DEF SinkLog, Record
      <4>2. SinkStored' = SinkStored \cup {SinkLog[handled + 1]}
        BY <3>4, <4>1 DEF SinkStored
      <4>3. handled + 1 > committed
        BY <1>0
      <4>4. Sink!Store
        BY <3>1, <3>2, <4>1, <4>2, <4>3 DEF Sink!Store, SinkLog, SinkStored
      <4>5. QED
        BY <4>4 DEF Sink!Next
    <3>5. QED
      BY <3>1, <3>3, <3>4
  <2>2. CASE CommitOffset
    <3>1. /\ committed' = committed + 1 /\ handled < Len(topic) /\ Stored(Record)
          /\ rows' = rows /\ topic' = topic
      BY <1>0, <1>2, <2>2, CommitOffsetStep DEF Archive
    <3>2. handled + 1 \in DOMAIN SinkLog /\ SinkLog[handled + 1] = Record.id
      BY <1>0, <3>1, Position DEF SinkLog, Record
    <3>3. SinkLog[handled + 1] \in SinkStored
      BY <3>1, <3>2 DEF Stored, SinkStored
    <3>4. QED
      BY <1>0, <3>1, <3>2, <3>3 DEF Sink!Next, Sink!Commit, SinkLog, SinkStored
  <2>3. CASE InsertFeature \/ InsertLabel \/ InsertPrediction \/ Restart
    BY <1>0, <1>2, <2>3, InsertStep, RestartStep DEF Archive, SinkLog, SinkStored
  <2>4. QED
    BY <1>2, <2>1, <2>2, <2>3 DEF Archive, ArchiveStep
<1>3. CASE UNCHANGED vars
  BY <1>3 DEF vars, cursorVars, archiverVars, SinkLog, SinkStored
<1>4. QED
  BY <1>1, <1>2, <1>3 DEF Next

\* Each archiver stores a record before its offset is passed, one by one, however often
\* it dies (archiveThenCommit).
THEOREM ArchiverImplementsSink == Spec => SinkSpec
<1>1. Init => Sink!Init
  BY SinkInit
<1>2. QED
  BY <1>1, InvariantHolds, SinkStep, PTL DEF Spec, SinkSpec, Sink!Spec, SinkLog, SinkStored
===============================================================================
