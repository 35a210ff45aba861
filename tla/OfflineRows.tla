----------------------------- MODULE OfflineRows ------------------------------
(***************************************************************************)
(* The tables that the dataset builders read: serving_feature_snapshots,   *)
(* label_events and prediction_logs (container/postgres/                   *)
(* monitoring-schema.sql).  Rows are only inserted.  A row may be          *)
(* committed long after the time it carries, so that a builder that ran in *)
(* between did not see it.                                                 *)
(***************************************************************************)
EXTENDS Integers, FiniteSets

CONSTANTS
    Snapshots,  \* the rows that may ever be inserted
    Labels,
    Decisions,
    Late,       \* those of them that are committed while builders run
    None

\* The keys of the tables.  The snapshots of a sample are written in the order of their
\* versions, by one materializer, each with the time at which it is written.
ASSUME RowsAssumption ==
    /\ IsFiniteSet(Snapshots) /\ IsFiniteSet(Labels) /\ IsFiniteSet(Decisions)
    /\ \A x \in Snapshots : x.version \in Nat /\ x.at \in Nat /\ x.sound \in BOOLEAN
    /\ \A l \in Labels : l.revision \in Nat /\ l.at \in Nat
    /\ \A p \in Decisions : p.at \in Nat
    /\ \A x, y \in Snapshots : x.sample = y.sample =>
        /\ x.version = y.version => x = y
        /\ x.version < y.version => x.at <= y.at /\ (x \in Late => y \in Late)

VARIABLES
    snapshots,  \* [sample, version, at, complete, hash, sound], one per (sample, version);
                \* sound: features_json agrees with the counts stored beside it
    labels,     \* [sample, revision, at, value], one per (sample, revision)
    decisions   \* [id, sample, version, hash, at, slot]

rowVars == <<snapshots, labels, decisions>>

RowsInit ==
    /\ snapshots = Snapshots \ Late
    /\ labels = Labels \ Late
    /\ decisions = Decisions \ Late

\* The snapshots of a sample are inserted in the order of their versions.
CommitSnapshot ==
    \E x \in Snapshots \ snapshots :
        /\ \A y \in Snapshots \ snapshots : y.sample = x.sample => x.version <= y.version
        /\ snapshots' = snapshots \cup {x}
        /\ UNCHANGED <<labels, decisions>>

CommitLabel ==
    \E l \in Labels \ labels :
        /\ labels' = labels \cup {l}
        /\ UNCHANGED <<snapshots, decisions>>

CommitDecision ==
    \E p \in Decisions \ decisions :
        /\ decisions' = decisions \cup {p}
        /\ UNCHANGED <<snapshots, labels>>

\* labels_at_cutoff: the highest revision among the labels that were available.
LabelsAtAnyTime(s, cutoff) == {l \in labels : l.sample = s}

LabelsAt(s, cutoff) == {l \in labels : l.sample = s /\ l.at <= cutoff}

LabelAt(s, cutoff) ==
    IF LabelsAt(s, cutoff) = {} THEN None
    ELSE CHOOSE l \in LabelsAt(s, cutoff) :
            \A k \in LabelsAt(s, cutoff) : k.revision <= l.revision
=============================================================================
