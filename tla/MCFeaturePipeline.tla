-------------------------- MODULE MCFeaturePipeline ---------------------------
(***************************************************************************)
(* Model checking of FeaturePipeline: the patches of one workload run have *)
(* one event time for all groups of a sample; runs for single groups have  *)
(* one each, and a patch that is late or sent again may have any.          *)
(***************************************************************************)
EXTENDS FeaturePipeline, TLC

CONSTANTS a, b, c, g1, g2, v, w

Patch(s, t, f) == [sample |-> s, time |-> t, features |-> f, accepted |-> TRUE]
BadPatch(s) == [sample |-> s, time |-> 1, features |-> (g1 :> v), accepted |-> FALSE]

\* Sample a in two groups with event times 1 and 2; sample b in one patch.
TwoRuns == << Patch(a, 1, g1 :> v),
              Patch(b, 1, g1 :> v @@ g2 :> Null),
              Patch(a, 2, g2 :> v) >>

\* Sample a is complete at 2; then a feature is sent again, with another value and an
\* earlier time.  When both patches are consumed twice, the window stays the same, and
\* so do the versions up to 2, with other features.
Corrected == << Patch(b, 1, g1 :> v),
                Patch(a, 2, g1 :> v @@ g2 :> v),
                Patch(a, 1, g1 :> w) >>

\* The same with one event time.
Repeated == << Patch(a, 1, g1 :> v @@ g2 :> v),
               Patch(b, 1, g1 :> v @@ g2 :> w),
               Patch(a, 1, g1 :> w) >>

\* A time before 1970, a sample id of another form, a patch that throws.
Early == << Patch(a, 1, g1 :> v @@ g2 :> v), Patch(a, -1, g1 :> w) >>
Foreign == << Patch(a, 1, g1 :> v @@ g2 :> v), Patch(c, 1, g1 :> v) >>
Malformed == << Patch(a, 1, g1 :> v @@ g2 :> v), BadPatch(b), Patch(a, 1, g1 :> w) >>

AllInputs == {TwoRuns, Corrected, Repeated, Early, Foreign, Malformed}
TwoRunsOnly == {TwoRuns}
=============================================================================
