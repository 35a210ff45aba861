---------------------------- MODULE CandidateCleanup ----------------------------
(***************************************************************************)
(* The cleanup after a failed gate (cleanup_failed_candidate_alias):       *)
(* clear_model_alias.py marks the version of the candidate alias as        *)
(* rejected and deletes the alias, with six calls of the registry.         *)
(***************************************************************************)
EXTENDS ServingGate

VARIABLE review   \* [Versions -> tag candidate_review_status, or None]

ReviewInit == review = [v \in Versions |-> None]

CleanupSteps == {"look up", "judge", "look again", "tag", "clear"}

StartCleanup(r) ==
    /\ \A q \in Scripts : spc[q] \notin CleanupSteps
    /\ StartScript(r, "look up", [version |-> None, tag |-> None, before |-> latest])
    /\ UNCHANGED review

\* The version of the alias and its tags; without an alias or a pointer nothing is cleared.
LookUp(r) ==
    /\ spc[r] = "look up"
    /\ IF candidate = None \/ latest[candidate] = None
       THEN SEnd(r, "done")
       ELSE /\ SGoto(r, "judge")
            /\ sctx' = [sctx EXCEPT ![r].version = candidate, ![r].tag = latest[candidate]]
    /\ ReadsOnly /\ UNCHANGED review

\* Mutant: the status of the evaluation is not asked for.
RejectedAny(v, run) == run.candidate = v

\* CLEANUP_POLICIES: serving_snapshot_eval_rejected.
Rejected(v, run) == run.candidate = v /\ ~run.passed

Judge(r) ==
    LET run == evaluation[sctx[r].tag]
    IN  /\ spc[r] = "judge"
        /\ IF run.status # "FINISHED" THEN SEnd(r, "raised")
           ELSE IF Rejected(sctx[r].version, run) THEN SGoto(r, "look again") /\ UNCHANGED sctx
           ELSE SEnd(r, "done")
        /\ ReadsOnly /\ UNCHANGED review

\* alias_changed_before_delete
LookAgain(r) ==
    /\ spc[r] = "look again"
    /\ IF candidate = sctx[r].version THEN SGoto(r, "tag") /\ UNCHANGED sctx ELSE SEnd(r, "done")
    /\ ReadsOnly /\ UNCHANGED review

\* Policy, reason and time of the review are tags of their own.
TagReview(r) ==
    /\ spc[r] = "tag"
    /\ review' = [review EXCEPT ![sctx[r].version] = "rejected"]
    /\ SGoto(r, "clear")
    /\ ReadsOnly /\ UNCHANGED sctx

\* The alias is deleted whatever it points to by now.
ClearAlias(r) ==
    /\ spc[r] = "clear"
    /\ candidate' = None
    /\ SEnd(r, "done")
    /\ UNCHANGED <<champion, store, review>>

Cleanup(r) ==
    \/ StartCleanup(r)
    \/ LookUp(r) \/ Judge(r) \/ LookAgain(r)
    \/ TagReview(r) \/ ClearAlias(r)
=============================================================================
