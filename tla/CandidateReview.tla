----------------------------- MODULE CandidateReview -----------------------------
(***************************************************************************)
(* The review of a candidate as a whole: runs of the gate, and the scripts *)
(* that record a request, clear the candidate alias, promote by hand and   *)
(* close a request, while the aliases move.                                *)
(***************************************************************************)
EXTENDS AliasPromotion

vars == <<aliases, evaluator, scripts, store, review, upsets>>

ReviewStarts == Init /\ ReviewInit

Next ==
    \/ MoveAlias /\ UNCHANGED review
    \/ \E e \in Evaluations : Evaluate(e) /\ UNCHANGED review
    \/ \E r \in Scripts :
        \/ (Record(r) \/ StopScript(r)) /\ UNCHANGED review
        \/ Cleanup(r) \/ Promote(r) \/ Withdraw(r)

Spec == ReviewStarts /\ [][Next]_vars

-----------------------------------------------------------------------------
Published(e) == evaluation[e] # None /\ evaluation[e].status = "FINISHED"

\* The newest labelled decisions of a dataset, at most Limit of them.
Newest(rows) ==
    {d \in Labeled(rows) : Cardinality({f \in Labeled(rows) : Newer(f, d)}) < Limit}

\* A finished evaluation says of the two versions it names what the gate says of those versions
\* on the newest labelled decisions of the dataset it names, wherever the aliases went
\* meanwhile; and the decisions were enough, of both classes (resolve_model, :80).
VerdictIsTrue ==
    \A e \in Evaluations : Published(e) =>
        LET run  == evaluation[e]
            rows == Newest(Rows[run.dataset])
        IN  /\ run.passed = Passes(Metrics(run.candidate, rows), Metrics(run.champion, rows))
            /\ Cardinality(rows) = Limit
            /\ \E d, f \in rows : d.label = "fail" /\ f.label = "pass"

NewRequests == requests' \ requests

\* A request rests on a finished evaluation that passed, of its version against the champion
\* that it would go back to, and that one was champion at some time between the start of the
\* script and the insert; it need not be it any more at the insert, which is a call later.
RequestsSound ==
    [][\A q \in NewRequests :
        /\ Published(q.evaluation) /\ evaluation[q.evaluation].passed
        /\ evaluation[q.evaluation].candidate = q.source
        /\ evaluation[q.evaluation].champion = q.previous
        /\ q.previous \in sctx[q.by].champions]_vars

\* No request rests on an evaluation of its version that a later one had replaced before the
\* script was started: a gate that has failed since blocks the version, although the older
\* evaluation passed (validate_evaluation_for_deployment).
NewestEvaluationCounts ==
    [][\A q \in NewRequests :
        LET before == sctx[q.by].before[q.source]
        IN  before # None => before <= q.evaluation]_vars

\* A version is marked as rejected for an evaluation of this version that has failed, and
\* that no other had replaced when the cleanup was started, wherever the alias went since.
RejectionsEarned ==
    [][\A v \in Versions : review'[v] # review[v] =>
        \E e \in Evaluations :
            /\ Published(e) /\ evaluation[e].candidate = v /\ ~evaluation[e].passed
            /\ \A r \in Scripts :
                spc[r] = "tag" /\ spc'[r] = "clear" /\ sctx[r].before[v] # None
                    => sctx[r].before[v] <= e]_vars

\* A promotion by hand that names or needs a request moves champion only to the version of
\* an approved request, whose evaluation passed (validate_request).
PromotionsApproved ==
    [][\A r \in Scripts :
        spc[r] = "set champion" /\ spc'[r] # spc[r] /\ champion' # champion /\ sctx[r].id # None =>
            \E q \in requests :
                /\ q.by = sctx[r].id /\ q.approved /\ q.source = champion'
                /\ Published(q.evaluation) /\ evaluation[q.evaluation].passed]_vars
=============================================================================
