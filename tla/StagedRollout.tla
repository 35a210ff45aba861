---------------------------- MODULE StagedRollout ---------------------------
(***************************************************************************)
(* What the deployment control plane promises, with no script, no message  *)
(* and no fault: the stages a model version goes through.  A version is    *)
(* approved before the canary serves it, vetted on the canary before the   *)
(* release serves it, and proven on the release before champion names it.  *)
(* A stage once reached is never lost, and a server may go back to any     *)
(* version that has reached its stage.                                     *)
(***************************************************************************)
CONSTANTS Versions, InitialVersion

VARIABLES
    serving,   \* [{"release", "canary"} -> Versions]
    champion,  \* the version that champion names
    approved,  \* versions that an approved request asks for
    vetted,    \* versions that the canary has been seen to serve
    proven     \* versions that the release has been seen to serve

stages == <<serving, champion, approved, vetted, proven>>

Init ==
    /\ serving = [s \in {"release", "canary"} |-> InitialVersion]
    /\ champion = InitialVersion
    /\ approved = {InitialVersion}
    /\ vetted = {InitialVersion}
    /\ proven = {InitialVersion}

Approve(v) ==
    /\ approved' = approved \cup {v}
    /\ UNCHANGED <<serving, champion, vetted, proven>>

ServeCanary(v) ==
    /\ v \in approved
    /\ serving' = [serving EXCEPT !["canary"] = v]
    /\ UNCHANGED <<champion, approved, vetted, proven>>

Vet(v) ==
    /\ v \in approved
    /\ vetted' = vetted \cup {v}
    /\ UNCHANGED <<serving, champion, approved, proven>>

ServeRelease(v) ==
    /\ v \in vetted
    /\ serving' = [serving EXCEPT !["release"] = v]
    /\ UNCHANGED <<champion, approved, vetted, proven>>

Prove(v) ==
    /\ v \in vetted
    /\ proven' = proven \cup {v}
    /\ UNCHANGED <<serving, champion, approved, vetted>>

MoveChampion(v) ==
    /\ v \in proven
    /\ champion' = v
    /\ UNCHANGED <<serving, approved, vetted, proven>>

Next ==
    \E v \in Versions :
        \/ Approve(v)
        \/ ServeCanary(v)
        \/ Vet(v)
        \/ ServeRelease(v)
        \/ Prove(v)
        \/ MoveChampion(v)

Spec == Init /\ [][Next]_stages
=============================================================================
