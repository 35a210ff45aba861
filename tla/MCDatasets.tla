------------------------------ MODULE MCDatasets ------------------------------
(***************************************************************************)
(* Model checking of Datasets: two windows of the DAG, one time unit long, *)
(* with a maturity of one unit; in each of them a sample of either class.  *)
(***************************************************************************)
EXTENDS Datasets

Windows == {[start |-> 0, cutoff |-> 2], [start |-> 1, cutoff |-> 3]}

Snapshot(s, v, t, complete, sound) ==
    [sample |-> s, version |-> v, at |-> t, complete |-> complete, hash |-> v, sound |-> sound]

Again == Snapshot("a", 2, 1, TRUE, TRUE)      \* a later snapshot of a sample of window 1
Broken == Snapshot("e", 1, 1, TRUE, FALSE)    \* a payload that does not fit its counts

AllSnapshots ==
    {Snapshot("a", 1, 0, TRUE, TRUE), Again,
     Snapshot("b", 1, 0, FALSE, TRUE), Snapshot("b", 2, 0, TRUE, TRUE),
     Snapshot("c", 1, 1, TRUE, TRUE), Snapshot("d", 1, 1, TRUE, TRUE), Broken}

Label(s, r, t, v) == [sample |-> s, revision |-> r, at |-> t, value |-> v]

Revised == Label("a", 2, 2, "fail")           \* in time for both windows
TooLate == Label("b", 2, 3, "pass")           \* after the cutoff of window 1

AllLabels ==
    {Label("a", 1, 1, "fail"), Revised, Label("b", 1, 1, "pass"), TooLate,
     Label("c", 1, 3, "fail"), Label("d", 1, 2, "pass")}

Decision(i, s, v, h, t, slot) ==
    [id |-> i, sample |-> s, version |-> v, hash |-> h, at |-> t, slot |-> slot]

Repeated == Decision(6, "a", 1, 1, 1, "release")
Changed == Decision(7, "b", 2, 3, 1, "release")   \* another hash for a snapshot decided on
Early == Decision(8, "c", 1, 1, 0, "release")     \* before its snapshot was available

AllDecisions ==
    {Decision(1, "a", 1, 1, 0, "release"), Decision(2, "b", 2, 2, 0, "release"),
     Decision(3, "c", 1, 1, 1, "release"), Decision(4, "d", 1, 1, 1, "release"),
     Decision(5, "a", 1, 1, 0, "canary"), Repeated, Changed, Early}

FaultBounds == [overlapping \in BOOLEAN |-> IF overlapping THEN 1 ELSE 2]

LateRows == {Again, Broken, Revised, TooLate, Repeated, Changed, Early}
=============================================================================
