------------------------- MODULE MCPredictionService -------------------------
(***************************************************************************)
(* Model checking of PredictionService: two calls of /predict-by-id, with  *)
(* their shadow copies, and one call of /predict with two rows.            *)
(***************************************************************************)
EXTENDS PredictionService

CONSTANTS c1, c2, d, p1, p2, s1, s2, d1, d2

MCCalls == {c1, c2, d}
MCPrimary == (c1 :> <<p1>>) @@ (c2 :> <<p2>>) @@ (d :> <<d1, d2>>)

\* One instance without a shadow model, with all three calls.
SoloItems == {p1, p2, d1, d2}
SoloTraced == {p1, p2}
SoloShadow == [c \in MCCalls |-> None]

\* One instance with it, and the calls that are copied.
CopiedCalls == {c1, c2}
CopiedItems == {p1, p2, s1, s2}
CopiedPrimary == (c1 :> <<p1>>) @@ (c2 :> <<p2>>)
CopiedShadow == (c1 :> s1) @@ (c2 :> s2)
=============================================================================
