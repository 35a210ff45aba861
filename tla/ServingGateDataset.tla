-------------------------- MODULE ServingGateDataset --------------------------
(***************************************************************************)
(* What a serving-gate dataset contains: one release decision of each      *)
(* snapshot of a sample, joined with exactly the snapshot it was made on   *)
(* (secom_mlops/datasets/serving_gate_dataset*.py).                        *)
(***************************************************************************)
EXTENDS TrainingDataset

CONSTANT MinDecisions

GateValid(c) == c.start >= 0 /\ c.cutoff >= 0 /\ c.start < CohortEnd(c)

Release == {p \in decisions : p.slot = "release"}

SameSnapshot(p, q) == p.sample = q.sample /\ p.version = q.version

FirstDecision ==
    {p \in Release : \A q \in Release : SameSnapshot(p, q) =>
        p.at < q.at \/ (p.at = q.at /\ p.id <= q.id)}

DecisionCohort(c) == {p \in FirstDecision : c.start <= p.at /\ p.at < CohortEnd(c)}

\* Two decisions on one snapshot that do not agree on what it contained.
Conflicting(p) == \E q \in Release : SameSnapshot(p, q) /\ q.hash # p.hash

Joined(p) == {x \in snapshots : SameSnapshot(p, x)}

\* member_from_row refuses the row, and with it the whole dataset.
DecisionRefused(p) ==
    \/ Conflicting(p)
    \/ Joined(p) = {}
    \/ \E x \in Joined(p) : x.hash # p.hash \/ ~x.complete \/ x.at > p.at

GateMember(p, c) ==
    LET x == CHOOSE y \in Joined(p) : TRUE
    IN  [id |-> p.id, predicted |-> p.at, sample |-> p.sample, version |-> p.version,
         hash |-> p.hash, slot |-> p.slot, at |-> x.at,
         label |-> LabelAt(p.sample, c.cutoff), sound |-> x.sound]

GateCohort(c) == {GateMember(p, c) : p \in DecisionCohort(c)}

GateSummary(ms) ==
    [eligible |-> Cardinality(ms),
     labeled  |-> Cardinality(Labeled(ms)),
     fails    |-> Cardinality({m \in Labeled(ms) : m.label.value = "fail"}),
     passes   |-> Cardinality({m \in Labeled(ms) : m.label.value = "pass"}),
     samples  |-> Cardinality({m.sample : m \in ms})]

GateReady(s) ==
    /\ s.eligible >= MinDecisions
    /\ TrainingReady(s)

GateIdentityRecord(m) == [k \in DOMAIN m \ {"sound"} |-> m[k]]

GateIdentity(c, ms) ==
    [type |-> "gate", start |-> c.start, end |-> CohortEnd(c),
     members |-> {GateIdentityRecord(m) : m \in ms}]

\* Two rows of one snapshot are refused, as is a payload that does not agree with its counts.
GateFrameRaises(ms) ==
    \/ \E m, n \in ms : SameSnapshot(m, n) /\ m # n
    \/ \E m \in ms : ~m.sound

GateFrame(id, ms) == {[dataset |-> id, member |-> GateIdentityRecord(m)] : m \in ms}

GateManifest(c, id, s) == [identity |-> id, cutoff |-> c.cutoff, stats |-> s]

\* The catalogue has no column for the number of samples.
GateRow(c, s) == TrainingRow(c, [k \in DOMAIN s \ {"samples"} |-> s[k]])

GateVerified(id, row, art) ==
    LET ms == {r.member : r \in art.frame}
        s  == GateSummary(ms)
    IN  /\ art.manifest.identity = id
        /\ art.sha = row.sha
        /\ art.frame # {}
        /\ \A r \in art.frame : r.dataset = id /\ r.member.slot = "release"
        /\ \A r, q \in art.frame : SameSnapshot(r.member, q.member) => r = q
        /\ s.eligible = art.manifest.stats.eligible /\ s.eligible = row.stats.eligible
        /\ s.labeled = art.manifest.stats.labeled /\ s.labeled = row.stats.labeled
=============================================================================
