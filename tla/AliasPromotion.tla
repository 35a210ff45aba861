----------------------------- MODULE AliasPromotion -----------------------------
(***************************************************************************)
(* The procedure by hand: promote_model_alias.py moves champion, with a    *)
(* deployment request or without one, and                                  *)
(* mark_model_deployment_rolled_back.py closes a request.                  *)
(***************************************************************************)
EXTENDS CandidateCleanup

CONSTANT Alias   \* the source is the candidate alias

Request(id) == CHOOSE q \in requests : q.by = id

Ids == {q.by : q \in requests}

\* --request-id, and a version or an alias instead of the request's own; or one of these
\* alone, with --require-approved-request or without; --keep-source-alias is left out.
StartPromotion(r) ==
    /\ \E id \in Ids \cup {None}, w \in Versions \cup {Alias, None},
          required \in BOOLEAN :
        /\ id = None => w # None
        /\ id # None => ~required
        /\ StartScript(r, "request",
               [id |-> id, wanted |-> w, required |-> required, row |-> None,
                status |-> None, version |-> None, alias |-> FALSE])
    /\ UNCHANGED review

\* get_deployment_request: the row with its status; without arguments its version counts.
ReadRequest(r) ==
    LET x   == sctx[r]
        row == Request(x.id)
    IN  /\ spc[r] = "request"
        /\ sctx' = IF x.id = None
                   THEN [sctx EXCEPT ![r].version = x.wanted, ![r].alias = (x.wanted = Alias)]
                   ELSE [sctx EXCEPT ![r].row = row, ![r].status = rollout[x.id],
                     ![r].version = IF x.wanted = None THEN row.source ELSE x.wanted,
                     ![r].alias = IF x.wanted = None THEN row.alias ELSE x.wanted = Alias]
        /\ SGoto(r, "source")
        /\ ReadsOnly /\ UNCHANGED review

\* resolve_source_version
ResolveSource(r) ==
    LET v == IF sctx[r].version = Alias THEN candidate ELSE sctx[r].version
    IN  /\ spc[r] = "source"
        /\ IF v = None THEN SEnd(r, "raised")
           ELSE SGoto(r, "find") /\ sctx' = [sctx EXCEPT ![r].version = v]
        /\ ReadsOnly /\ UNCHANGED review

\* APPROVED_DEPLOYMENT_REQUEST_SQL takes the newest of them.
ApprovedOf(v) ==
    {q \in requests : q.source = v /\ q.approved /\ rollout[q.by] \notin Terminal}

FindApproved(r) ==
    /\ spc[r] = "find"
    /\ IF ~sctx[r].required THEN SGoto(r, "validate") /\ UNCHANGED sctx
       ELSE IF ApprovedOf(sctx[r].version) = {} THEN SEnd(r, "raised")
       ELSE \E q \in ApprovedOf(sctx[r].version) :
              /\ SGoto(r, "validate")
              /\ sctx' = [sctx EXCEPT ![r].id = q.by, ![r].row = q,
                                      ![r].status = rollout[q.by]]
    /\ ReadsOnly /\ UNCHANGED review

ValidRequestAnyVersion(x) == x.row.approved /\ x.status \notin Terminal

\* validate_request: the status is the one that was read with the row.
ValidRequest(x) == x.row.approved /\ x.status \notin Terminal /\ x.row.source = x.version

Validate(r) ==
    LET x == sctx[r]
    IN  /\ spc[r] = "validate"
        /\ IF x.id # None /\ ~ValidRequest(x)
           THEN SEnd(r, "raised")
           ELSE SGoto(r, "set champion") /\ UNCHANGED sctx
        /\ ReadsOnly /\ UNCHANGED review

SetChampion(r) ==
    /\ spc[r] = "set champion"
    /\ MoveChampion(sctx[r].version, sctx)
    /\ SGoto(r, IF sctx[r].alias THEN "look at source" ELSE "mark promoted")
    /\ UNCHANGED <<candidate, store, review>>

LookAtSource(r) ==
    /\ spc[r] = "look at source"
    /\ SGoto(r, IF candidate = sctx[r].version THEN "delete source" ELSE "mark promoted")
    /\ ReadsOnly /\ UNCHANGED <<sctx, review>>

DeleteSource(r) ==
    /\ spc[r] = "delete source"
    /\ candidate' = None
    /\ SGoto(r, "mark promoted")
    /\ UNCHANGED <<champion, store, sctx, review>>

\* MARK_PROMOTED_SQL has no condition on the status.
MarkPromoted(r) ==
    /\ spc[r] = "mark promoted"
    /\ rollout' = IF sctx[r].id = None THEN rollout
                  ELSE [rollout EXCEPT ![sctx[r].id] = "promoted"]
    /\ SEnd(r, "done")
    /\ UNCHANGED <<champion, candidate, requests, review>>

Promote(r) ==
    \/ StartPromotion(r)
    \/ ReadRequest(r) \/ ResolveSource(r) \/ FindApproved(r) \/ Validate(r)
    \/ SetChampion(r) \/ LookAtSource(r) \/ DeleteSource(r) \/ MarkPromoted(r)

-----------------------------------------------------------------------------
\* SELECT and UPDATE are two statements of a transaction that locks nothing in between.
StartMark(r) ==
    /\ \E id \in Ids : StartScript(r, "read request", [id |-> id])
    /\ UNCHANGED review

\* Also when the operator expects another source version: nothing is changed.
ReadEligible(r) ==
    /\ spc[r] = "read request"
    /\ \/ /\ rollout[sctx[r].id] \in {"promoted", "deployed", "failed"}
          /\ SGoto(r, "mark rolled back") /\ UNCHANGED sctx
       \/ SEnd(r, "raised")
    /\ ReadsOnly /\ UNCHANGED review

MarkRolledBack(r) ==
    /\ spc[r] = "mark rolled back"
    /\ rollout' = [rollout EXCEPT ![sctx[r].id] = "rolled_back"]
    /\ SEnd(r, "done")
    /\ UNCHANGED <<champion, candidate, requests, review>>

Withdraw(r) == StartMark(r) \/ ReadEligible(r) \/ MarkRolledBack(r)
=============================================================================
