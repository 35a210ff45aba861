------------------------------- MODULE Datasets --------------------------------
(***************************************************************************)
(* Builders of datasets over tables that rows are still committed to.  A   *)
(* behaviour is about training datasets or about serving-gate datasets.    *)
(***************************************************************************)
EXTENDS DatasetCatalogue

CONSTANT MaxLate   \* rows that are committed while builders run

vars == <<rowVars, catVars>>

Init == RowsInit /\ CatalogueInit

Missing == (Snapshots \ snapshots) \cup (Labels \ labels) \cup (Decisions \ decisions)

\* No training builder reads the decisions.
Commit ==
    /\ Cardinality(Late \ Missing) < MaxLate
    /\ CommitSnapshot \/ CommitLabel \/ (kind = "gate" /\ CommitDecision)
    /\ UNCHANGED catVars

Build(b) ==
    /\ BuilderStep(b) \/ BuilderFault(b)
    /\ UNCHANGED rowVars

Next == Commit \/ \E b \in Builders : Build(b)

Spec == Init /\ [][Next]_vars

-----------------------------------------------------------------------------
Reported == {ctx[b].id : b \in {a \in Builders : pc[a] \in {"READY", "REUSED"}}}

\* Builders that marked the row of an id FAILED, whatever it said.
FailedOn(id) == {b \in Builders : pc[b] = "FAILED" /\ ctx[b].id = id}

\* An id that a builder has reported can be loaded, also after other builders of the same
\* dataset, failures, lost answers and kills.  Only where builders overlap may it not be, and
\* then one of them has failed on it (the except block marks the row by its id, and the claim
\* takes any row that is not READY).
ReportedLoads == \A id \in Reported : Loads(id) \/ (overlap /\ FailedOn(id) # {})

Loadable == {id \in DOMAIN catalogue : Loads(id)}

Rows(id) == {r.member : r \in artifacts[catalogue[id].run].frame}

\* Whatever loads is what its row of the catalogue says: every sample was decided on in the
\* window and had the whole maturity period for its label, no label is younger than the
\* cutoff, and both classes are there (the cohort queries and evaluate_readiness).
LoadedIsSound ==
    \A id \in Loadable :
        LET row  == catalogue[id]
            when(m) == IF kind = "training" THEN m.at ELSE m.predicted
        IN  /\ \A m \in Rows(id) :
                /\ row.start <= when(m) /\ when(m) + Maturity < row.cutoff
                /\ m.at <= when(m)
                /\ m.label # None => m.label.sample = m.sample /\ m.label.at <= row.cutoff
            /\ \A v \in {"fail", "pass"} :
                \E m \in Rows(id) : m.label # None /\ m.label.value = v

\* A sample is a member of the training datasets of no two windows that are apart: one that was
\* trained on does not come back in a later window with a later snapshot
\* (first_complete_per_sample).
TrainedOnce ==
    LET End(id) == catalogue[id].cutoff - Maturity
    IN  kind = "training" => \A i, j \in Loadable :
            End(i) <= j.start =>
                {m.sample : m \in Rows(i)} \cap {m.sample : m \in Rows(j)} = {}

\* The catalogue implements PublishedDatasets: an id names the members that it is computed
\* from, is withdrawn only by a builder that claimed it before, and never while builders
\* follow one another, although its row may be claimed again and its artifacts replaced.
MembersOf(id) == id.members

Claims == {<<b, ctx[b].id>> : b \in {a \in Builders : pc[a] \in {"persist", "ready", "failed"}}}

Published == INSTANCE PublishedDatasets WITH
    Content <- MembersOf,
    exclusive <- ~overlap,
    claims <- Claims,
    offered <- [id \in Loadable |-> Rows(id)],
    told <- Reported

PublishedSpec == Published!Spec
=============================================================================
