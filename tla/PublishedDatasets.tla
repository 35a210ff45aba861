--------------------------- MODULE PublishedDatasets ---------------------------
(***************************************************************************)
(* What the catalogue of datasets promises to those who have been told a   *)
(* dataset id.  An id names one content: a loader gets that or nothing.    *)
(* Where builders follow one another, an id that was told goes on being    *)
(* offered.  Where they overlap it can be withdrawn, but only by a builder *)
(* that claimed the id while it was not offered and has failed since; and  *)
(* what is offered again is the same content.                              *)
(***************************************************************************)
CONSTANT Content(_)

VARIABLES
    exclusive,  \* builders follow one another
    claims,     \* <<builder, id>> for the ids that builders work on
    offered,    \* id |-> what a loader gets, of the ids that load
    told        \* the ids that builders have reported

pubVars == <<exclusive, claims, offered, told>>

Init ==
    /\ exclusive \in BOOLEAN
    /\ claims = {}
    /\ offered = [i \in {} |-> {}]
    /\ told = {}

Claim ==
    /\ exclusive => claims = {}
    /\ \E c \in claims' \ claims :
        /\ c[2] \notin DOMAIN offered
        /\ claims' = claims \cup {c}
    /\ UNCHANGED <<exclusive, offered, told>>

Offer(i) ==
    offered' = [j \in DOMAIN offered \cup {i} |-> IF j = i THEN Content(i) ELSE offered[j]]

Publish(c) ==
    /\ Offer(c[2])
    /\ told' = told \cup {c[2]}
    /\ claims' = claims \ {c}
    /\ UNCHANGED exclusive

\* The builder is not told that it has succeeded.
PublishUnheard(c) ==
    /\ Offer(c[2])
    /\ UNCHANGED <<exclusive, claims, told>>

Withdraw(c) ==
    /\ offered' = [j \in DOMAIN offered \ {c[2]} |-> offered[j]]
    /\ claims' = claims \ {c}
    /\ UNCHANGED <<exclusive, told>>

GiveUp(c) ==
    /\ claims' = claims \ {c}
    /\ UNCHANGED <<exclusive, offered, told>>

Reuse(i) ==
    /\ exclusive => claims = {}
    /\ told' = told \cup {i}
    /\ UNCHANGED <<exclusive, claims, offered>>

Next ==
    \/ Claim
    \/ \E c \in claims : Publish(c) \/ PublishUnheard(c) \/ Withdraw(c) \/ GiveUp(c)
    \/ \E i \in DOMAIN offered : Reuse(i)

Spec == Init /\ [][Next]_pubVars
=============================================================================
