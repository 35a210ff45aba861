---------------------------- MODULE TrafficPolicy -----------------------------
(***************************************************************************)
(* What the gateway's admin API promises its callers: the traffic policy   *)
(* is changed by a request that asked for it and is told so, and by        *)
(* nothing else.  An upset (a command that cannot be started, a process    *)
(* that dies, a new container) is the only excuse: it is counted, and it   *)
(* may bring the default, or what a call wanted that it has just cut off,  *)
(* but no other policy.                                                    *)
(***************************************************************************)
EXTENDS Naturals

CONSTANTS
    Requests,   \* identities of the calls of the admin API
    Texts,      \* what the configuration file may hold
    Policies,   \* the prepared traffic policies
    Default,    \* the policy of a new container
    Torn,       \* a policy that is written half
    Wants,      \* what a request may ask for, which need not be a policy
    Refusals    \* answers that say that nothing was changed

VARIABLES
    policy,     \* the policy in force
    wanted,     \* [Requests -> Wants]
    answer,     \* [Requests -> its answer, or "none"]
    upsets      \* upsets so far

Init ==
    /\ policy \in Texts
    /\ wanted \in [Requests -> Wants]
    /\ answer = [r \in Requests |-> "none"]
    /\ upsets = 0

\* A change of the policy, which its caller is told of.
Apply(r) ==
    /\ answer[r] = "none"
    /\ wanted[r] \in Policies
    /\ policy' = wanted[r]
    /\ answer' = [answer EXCEPT ![r] = "succeeded"]
    /\ UNCHANGED <<wanted, upsets>>

\* The policy as it is, loaded again.
Reapply(r) ==
    /\ answer[r] = "none"
    /\ wanted[r] \notin Policies
    /\ answer' = [answer EXCEPT ![r] = "succeeded"]
    /\ UNCHANGED <<policy, wanted, upsets>>

Refuse(r) ==
    /\ answer[r] = "none"
    /\ \E a \in Refusals : answer' = [answer EXCEPT ![r] = a]
    /\ UNCHANGED <<policy, wanted, upsets>>

\* Requests may be cut off, and the policy may be that of one of them, or torn by it.
Upset ==
    /\ upsets' = upsets + 1
    /\ \/ policy' \in {policy, Default}
       \/ \E r \in Requests :
             /\ answer[r] = "none" /\ answer'[r] = "cut off"
             /\ wanted[r] \in Policies
             /\ policy' \in {wanted[r], Torn}
    /\ answer' \in [Requests -> {"none", "succeeded", "cut off"} \cup Refusals]
    /\ \A r \in Requests : answer'[r] \in {answer[r], "cut off"}
    /\ UNCHANGED wanted

Next == (\E r \in Requests : Apply(r) \/ Reapply(r) \/ Refuse(r)) \/ Upset

Spec == Init /\ [][Next]_<<policy, wanted, answer, upsets>>
=============================================================================
