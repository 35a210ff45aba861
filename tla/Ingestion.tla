------------------------------ MODULE Ingestion -------------------------------
(***************************************************************************)
(* The way of the samples' events into the tables that everything offline  *)
(* reads: a workload script with its cursor, a topic, and the archiver of  *)
(* the topic.  Both ends die and begin again, at a position of their own.  *)
(***************************************************************************)
EXTENDS Archiver

vars == <<cursorVars, archiverVars>>

Init == CursorInit /\ ArchiverInit

Workload ==
    /\ \/ \E r \in Runs : LoadState(r) \/ RunStep(r) \/ RunFault(r)
       \/ EditLabels
    /\ UNCHANGED archiverVars

Archive == (ArchiveStep \/ Restart) /\ UNCHANGED cursorVars

Next == Workload \/ Archive

\* Scripts that were started go on, librdkafka and httpx report everything in time,
\* and the container starts the archiver again whenever it dies.
Fairness ==
    /\ \A r \in Runs : WF_vars(RunStep(r) /\ UNCHANGED archiverVars)
    /\ WF_vars(ArchiveStep /\ UNCHANGED cursorVars)

Spec == Init /\ [][Next]_vars /\ Fairness

-----------------------------------------------------------------------------
(* Properties                                                              *)

InTopic(i, g) == \E n \in DOMAIN topic : topic[n].sample = i /\ topic[n].group = g

InTable(i, g) == \E row \in rows : row.sample = i /\ row.group = g

\* Whatever failed: what the cursor has passed was sent, every group of it, or was
\* answered with a prediction.
CursorSound ==
    \A i \in 0 .. (cursor - 1) :
        CASE stream = "features" -> \A g \in Groups : InTopic(i, g)
          [] stream = "labels" -> InTopic(i, "r1")
          [] stream = "predictions" -> i \in answered

\* One run at a time begins where the last one could not go on, so that it sends
\* nothing again that the cursor has passed: repeats are of the last batch.
NothingSentBehindCursor ==
    [][\A r \in Runs :
         Active = {r} /\ topic' # topic => topic'[Len(topic')].sample >= cursor]_vars

\* The archivers store before they commit and pass record after record.
Sink == INSTANCE AtLeastOnceSink
            WITH log <- [n \in DOMAIN topic |-> topic[n].id],
                 stored <- {row.id : row \in rows}

SinkSpec == Sink!Spec

\* What the cursor has passed is in the table in the end, every label and every
\* feature group, and so is every prediction event that reached the topic, however
\* often both ends die; unless labels of another file were sent for known samples.
PassedIsArchived ==
    []<>(\/ edits > 0
         \/ /\ committed = Len(topic)
            /\ \A i \in 0 .. (cursor - 1) :
                  CASE stream = "features" -> \A g \in Groups : InTable(i, g)
                    [] stream = "labels" -> InTable(i, "r1")
                    [] stream = "predictions" -> TRUE)
=============================================================================
