--------------------------- MODULE TrainingDataset ----------------------------
(***************************************************************************)
(* What a training-source dataset contains, when it is ready, by what it   *)
(* is identified and what its loader checks                                *)
(* (secom_mlops/datasets/training_dataset*.py).                            *)
(***************************************************************************)
EXTENDS OfflineRows

CONSTANTS
    Maturity,     \* label_maturity_seconds
    MinLabeled,   \* min_labeled_samples
    MinCoverage,  \* min_label_coverage, in percent
    MinFail,      \* min_fail_samples
    MinPass       \* min_pass_samples

ASSUME MinimaAssumption ==
    /\ Maturity \in Nat /\ MinCoverage \in 0 .. 100
    /\ MinLabeled \in Nat \ {0} /\ MinFail \in Nat \ {0} /\ MinPass \in Nat \ {0}

\* A config has a start and a cutoff.
CohortEnd(c) == c.cutoff - Maturity

TrainingValid(c) == c.start >= 0 /\ c.cutoff >= 0 /\ c.start <= CohortEnd(c)

\* The first complete snapshot of a sample, of all there are and not of those in the window.
FirstComplete ==
    LET Complete == {x \in snapshots : x.complete}
    IN  {x \in Complete : \A y \in Complete : y.sample = x.sample =>
            x.at < y.at \/ (x.at = y.at /\ x.version <= y.version)}

TrainingMember(x, c) ==
    [sample |-> x.sample, version |-> x.version, hash |-> x.hash, at |-> x.at,
     label |-> LabelAt(x.sample, c.cutoff), sound |-> x.sound]

TrainingCohortOfWindow(c) ==
    LET inside == {y \in snapshots : y.complete /\ c.start <= y.at /\ y.at < CohortEnd(c)}
    IN  {TrainingMember(x, c) : x \in
            {y \in inside : \A z \in inside : z.sample = y.sample => y.version <= z.version}}

TrainingCohort(c) ==
    {TrainingMember(x, c) : x \in {y \in FirstComplete : c.start <= y.at /\ y.at < CohortEnd(c)}}

Labeled(ms) == {m \in ms : m.label # None}

Summary(ms) ==
    [eligible |-> Cardinality(ms),
     labeled  |-> Cardinality(Labeled(ms)),
     fails    |-> Cardinality({m \in Labeled(ms) : m.label.value = "fail"}),
     passes   |-> Cardinality({m \in Labeled(ms) : m.label.value = "pass"})]

\* A cohort without samples has coverage 0.
Covered(s) ==
    /\ s.labeled * 100 >= MinCoverage * s.eligible
    /\ s.eligible = 0 => MinCoverage = 0

TrainingReady(s) ==
    /\ s.labeled >= MinLabeled
    /\ Covered(s)
    /\ s.fails >= MinFail
    /\ s.passes >= MinPass

IdentityRecord(m) == [k \in DOMAIN m \ {"sound"} |-> m[k]]

\* The hash of this is the manifest hash, and its first digits the dataset id; the cutoff is
\* not part of it.
TrainingIdentity(c, ms) ==
    [type |-> "training", start |-> c.start, members |-> {IdentityRecord(m) : m \in ms}]

FrameRaises(ms) == \E m \in ms : ~m.sound

\* The rows of dataset.parquet, each with the id of its dataset.
Frame(id, ms) ==
    {[dataset |-> id, member |-> [k \in DOMAIN m \ {"sound"} |-> m[k]]] : m \in ms}

Manifest(c, id, s) == [identity |-> id, cutoff |-> c.cutoff, stats |-> s]

\* manifest.json and dataset.parquet; the SHA-256 of the file stands for its rows.
Artifacts(frame, manifest) == [manifest |-> manifest, sha |-> frame, frame |-> frame]

TrainingRow(c, s) ==
    [status |-> "BUILDING", start |-> c.start, cutoff |-> c.cutoff, stats |-> s,
     run |-> None, sha |-> None]

TrainingVerified(id, row, art) ==
    LET ms == {r.member : r \in art.frame}
    IN  /\ art.manifest.identity = id
        /\ art.sha = row.sha
        /\ art.frame # {}
        /\ \A r \in art.frame : r.dataset = id
        /\ \A r, q \in art.frame : r.member.sample = q.member.sample => r = q
        /\ Summary(ms) = art.manifest.stats
        /\ Summary(ms) = row.stats
        /\ row.start = id.start
        /\ row.cutoff = art.manifest.cutoff
=============================================================================
