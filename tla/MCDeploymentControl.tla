------------------------ MODULE MCDeploymentControl ------------------------
(***************************************************************************)
(* Model checking of DeploymentControl: the constants of the instances.    *)
(***************************************************************************)
EXTENDS DeploymentControl, TLC

CONSTANTS v0, v1, v2, r1, r2

MCPercents == {0, 10}
AllFaults == {"call", "lost", "reload", "timeout", "metadata", "crash", "restart",
              "seed"}
ScriptFaults == AllFaults \ {"restart"}
CrashFaults == {"crash"}
ReleaseScripts == {"deploy", "promote", "rollback_release"}
RestartFaults == {"timeout", "restart"}
ReloadFaults == {"reload", "timeout", "metadata"}

\* Bounds the number of reloads that the scripts complete.
FewReloads == Cardinality(events) <= 3

\* Requests are interchangeable, and so are the versions that no server starts
\* with.
Symmetry == Permutations({v1, v2}) \cup Permutations({r1, r2})
=============================================================================
