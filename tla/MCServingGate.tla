---------------------------- MODULE MCServingGate ----------------------------
(***************************************************************************)
(* Model checking of the review: three versions, of which 2 passes against *)
(* 1 on the newest decisions and not on the oldest, and 3 is worse than    *)
(* both; one dataset that can be used, and one with too few labels.        *)
(***************************************************************************)
EXTENDS CandidateReview

CONSTANTS s1, s2

Symmetry == Permutations(Scripts)

Decision(i, t, l) == [id |-> i, at |-> t, label |-> l]

GateRows ==
    [large |-> {Decision(1, 0, "fail"), Decision(2, 0, "pass"), Decision(3, 1, "fail"),
                Decision(4, 2, "pass"), Decision(5, 2, "fail"), Decision(6, 3, None)},
     small |-> {Decision(1, 0, "fail"), Decision(2, 1, None), Decision(3, 1, "fail"),
                Decision(4, 2, None), Decision(5, 2, "pass"), Decision(6, 3, None)}]

GatePredicts ==
    << <<"fail", "pass", "fail", "fail", "fail", "pass">>,
       <<"pass", "pass", "fail", "pass", "fail", "pass">>,
       <<"pass", "pass", "pass", "fail", "fail", "pass">> >>

RecallDelta == -2
PrecisionDelta == -5
=============================================================================
