------------------------------ MODULE GatePolicy -------------------------------
(***************************************************************************)
(* What the serving gate computes from a loaded dataset and two models     *)
(* (compare_candidate_with_champion_serving.py).  A dataset is a set of    *)
(* decisions [id, at, label]; a model is what it predicts for each.        *)
(***************************************************************************)
EXTENDS Integers, FiniteSets

CONSTANTS
    Versions,      \* model versions, each from a training run of its own
    Datasets,      \* serving-gate datasets that load
    Rows,          \* [Datasets -> the decisions in dataset.parquet]
    Predicts,      \* [Versions -> [ids of decisions -> "fail" or "pass"]]
    Limit,         \* EVALUATION_DECISION_LIMIT
    MinFail,       \* DEFAULT_MIN_FAIL_SAMPLES
    MinPass,       \* DEFAULT_MIN_PASS_SAMPLES
    MinPrimary,    \* min_primary_delta, of fail_f1; the deltas are in percent
    MinRecall,     \* min_recall_delta
    MinPrecision,  \* min_precision_delta
    None

\* The three are constants of the code: 1000 decisions, 20 of each class.
ASSUME LimitAssumption == {Limit, MinFail, MinPass} \subseteq Nat \ {0}

\* prediction_id is a primary key (monitoring-schema.sql), and predicted_at is a time.
ASSUME RowsAssumption ==
    \A s \in Datasets :
        /\ IsFiniteSet(Rows[s])
        /\ \A d \in Rows[s] : d.id \in Int /\ d.at \in Int
        /\ \A d, f \in Rows[s] : d.id = f.id => d = f

Labeled(rows) == {d \in rows : d.label # None}

Newer(d, f) == d.at > f.at \/ (d.at = f.at /\ d.id > f.id)

\* select_latest_labeled_decisions: what is left of the sorted decisions, newest first, when
\* they are cut off.
Selected(rows) ==
    CHOOSE T \in SUBSET Labeled(rows) :
        /\ Cardinality(T) = Limit
        /\ \A d \in T, f \in Labeled(rows) \ T : Newer(d, f)

WithLabel(rows, l) == {d \in rows : d.label = l}

\* Too few labelled decisions, or too few of a class among the selected ones.
Unusable(rows) ==
    \/ Cardinality(Labeled(rows)) < Limit
    \/ Cardinality(WithLabel(Selected(rows), "fail")) < MinFail
    \/ Cardinality(WithLabel(Selected(rows), "pass")) < MinPass

\* Decisions with a label that a model gives a prediction.
Count(v, rows, label, predicted) ==
    Cardinality({d \in WithLabel(rows, label) : Predicts[v][d.id] = predicted})

Ratio(n, d) == IF d = 0 THEN [n |-> 0, d |-> 1] ELSE [n |-> n, d |-> d]

\* The metrics that the gate looks at; scikit-learn gives 0 for a division by zero.
Metrics(v, rows) ==
    LET tp == Count(v, rows, "fail", "fail")
        fp == Count(v, rows, "pass", "fail")
        fn == Count(v, rows, "fail", "pass")
    IN  [f1 |-> Ratio(2 * tp, 2 * tp + fp + fn),
         recall |-> Ratio(tp, tp + fn),
         precision |-> Ratio(tp, tp + fp)]

\* The difference of two metrics is at least so many percent.
DeltaAtLeast(a, b, percent) == (a.n * b.d - b.n * a.d) * 100 >= percent * a.d * b.d

Passes(c, h) ==
    /\ DeltaAtLeast(c.f1, h.f1, MinPrimary)
    /\ DeltaAtLeast(c.recall, h.recall, MinRecall)
    /\ DeltaAtLeast(c.precision, h.precision, MinPrecision)
=============================================================================
