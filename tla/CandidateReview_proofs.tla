------------------------ MODULE CandidateReview_proofs ------------------------
(***************************************************************************)
(* Proofs about CandidateReview, for any number of evaluations, scripts,   *)
(* versions and upsets.                                                    *)
(*                                                                         *)
(* The argument: an evaluation that has been published never changes, and  *)
(* the pointer of a version only ever moves on to a later one.  So what a  *)
(* script has read of them stays true in its context however long it waits *)
(* (ScriptInv), and a lemma of its own (Undisturbed) says so for every     *)
(* script but the one that takes the step.                                 *)
(*                                                                         *)
(* Of a run of the gate, PinnedInv says that the models it has loaded are  *)
(* those of the versions it names, wherever the aliases went; and that     *)
(* what it selects are the newest decisions follows from how Newer orders  *)
(* them (SelectedAreNewest).                                               *)
(***************************************************************************)
EXTENDS CandidateReview, TLAPS, FiniteSetTheorems

Pointers == [Versions -> Evaluations \cup {None}]

EContexts ==
    [dataset : Datasets, candidate : Versions \cup {None}, champion : Versions \cup {None},
     candidateModel : Versions \cup {None}, championModel : Versions \cup {None}]

RecordContexts ==
    [id : Evaluations, wanted : Versions \cup {None}, read : Runs \cup {None},
     version : Versions \cup {None}, alias : BOOLEAN, tag : Evaluations \cup {None},
     champion : Versions \cup {None}, before : Pointers, champions : SUBSET Versions]

CleanupContexts ==
    [version : Versions \cup {None}, tag : Evaluations \cup {None}, before : Pointers]

Rollouts == Terminal \cup {"not_started", "promoted", None}

RequestRows ==
    [by : Scripts, evaluation : Evaluations, source : Versions, previous : Versions \cup {None},
     alias : BOOLEAN, approved : BOOLEAN]

PromoteContexts ==
    [id : Scripts \cup {None}, wanted : Versions \cup {Alias, None}, required : BOOLEAN,
     row : RequestRows \cup {None}, status : Rollouts,
     version : Versions \cup {Alias, None}, alias : BOOLEAN]

MarkContexts == [id : Scripts]

Contexts == RecordContexts \cup CleanupContexts \cup PromoteContexts \cup MarkContexts \cup {None}

PromoteSteps ==
    {"request", "source", "find", "validate", "set champion", "look at source",
     "delete source", "mark promoted"}
MarkSteps == {"read request", "mark rolled back"}

PC == RecordSteps \cup CleanupSteps \cup PromoteSteps \cup MarkSteps \cup Ends

\* The types of the variables, and of the context that goes with a program counter.
TypeOK ==
    /\ champion \in Versions /\ candidate \in Versions \cup {None}
    /\ latest \in Pointers
    /\ evaluation \in [Evaluations -> Runs \cup {None}]
    /\ epc \in [Evaluations -> ESteps \cup Ends]
    /\ ectx \in [Evaluations -> EContexts \cup {None}]
    /\ \A e \in Evaluations : epc[e] \in ESteps => ectx[e] \in EContexts
    /\ spc \in [Scripts -> PC]
    /\ sctx \in [Scripts -> Contexts]
    /\ requests \subseteq RequestRows
    /\ rollout \in [Scripts -> Rollouts]
    /\ review \in [Versions -> {"rejected", None}]

\* An evaluation is published by its last call but one, and runs of the gate follow each other.
EvaluationInv ==
    /\ \A e \in Evaluations :
        /\ epc[e] \in ({"idle"} \cup ESteps) \ {"finish run", "point"} => evaluation[e] = None
        /\ epc[e] = "finish run" => evaluation[e] \in Runs /\ evaluation[e].status = "RUNNING"
        /\ epc[e] = "point" => Published(e)
    /\ \A e, f \in Evaluations : f < e /\ epc[e] # "idle" => epc[f] \in Ends \ {"idle"}
    /\ \A v \in Versions : latest[v] # None => Published(latest[v]) /\ epc[latest[v]] # "idle"

RequestInv ==
    \A q \in requests :
        /\ Published(q.evaluation) /\ evaluation[q.evaluation].passed
        /\ evaluation[q.evaluation].candidate = q.source
        /\ evaluation[q.evaluation].champion = q.previous

\* The pointer of a version has moved on, if at all, since it was what it was before.
MovedOn(before, v, now) == before[v] # None => now \in Evaluations /\ before[v] <= now

\* What is true of a script that is at l with the context x.
EndInv(l, x) == l \in Ends => x = None

RecordInv(l, x) ==
    l \in RecordSteps =>
        /\ x \in RecordContexts
        /\ champion \in x.champions
        /\ \A v \in Versions : MovedOn(x.before, v, latest[v])
        /\ l # "evaluation" => Published(x.id) /\ x.read = evaluation[x.id]
        /\ l \in {"champion", "insert"} =>
                x.version \in Versions /\ MovedOn(x.before, x.version, x.tag)
        /\ l = "insert" => x.champion \in x.champions

CleanupInv(l, x) ==
    l \in CleanupSteps =>
        /\ x \in CleanupContexts
        /\ \A v \in Versions : MovedOn(x.before, v, latest[v])
        /\ l # "look up" =>
            /\ x.version \in Versions /\ x.tag \in Evaluations /\ Published(x.tag)
            /\ MovedOn(x.before, x.version, x.tag)
        /\ l \in {"look again", "tag", "clear"} => Rejected(x.version, evaluation[x.tag])

PromoteInv(l, x) ==
    l \in PromoteSteps =>
        /\ x \in PromoteContexts
        /\ l = "request" => IF x.id = None THEN x.wanted # None ELSE x.id \in Ids
        /\ l # "request" /\ x.id # None => x.row \in requests /\ x.row.by = x.id
        /\ l \notin {"request", "source"} => x.version \in Versions
        /\ l = "set champion" /\ x.id # None => x.row.approved /\ x.row.source = x.version

MarkInv(l, x) == l \in MarkSteps => x \in MarkContexts

ScriptInv(l, x) ==
    EndInv(l, x) /\ RecordInv(l, x) /\ CleanupInv(l, x) /\ PromoteInv(l, x) /\ MarkInv(l, x)

IInv == TypeOK /\ EvaluationInv /\ RequestInv /\ \A r \in Scripts : ScriptInv(spc[r], sctx[r])

\* Published evaluations stay as they are, pointers move on, and no request is deleted.
Grows ==
    /\ \A e \in Evaluations : Published(e) => evaluation'[e] = evaluation[e]
    /\ \A v \in Versions :
            latest[v] # None => latest'[v] \in Evaluations /\ latest[v] <= latest'[v]
    /\ requests \subseteq requests'

\* A script that another process passes by; it notes a new champion if it records.
Kept(r) ==
    /\ spc'[r] = spc[r]
    /\ \/ sctx'[r] = sctx[r] /\ (champion' = champion \/ spc[r] \notin RecordSteps)
       \/ /\ spc[r] \in RecordSteps
          /\ sctx'[r] = [sctx[r] EXCEPT !.champions = @ \cup {champion'}]

LEMMA InitInv == ReviewStarts => IInv
<1> SUFFICES ASSUME ReviewStarts PROVE IInv
  OBVIOUS
<1> USE DEF ReviewStarts, Init, ReviewInit
<1>1. TypeOK
  BY ChampionAssumption DEF TypeOK, Pointers, ESteps, Ends, PC, Contexts, Rollouts
<1>2. EvaluationInv
  BY DEF EvaluationInv
<1>3. RequestInv
  BY DEF RequestInv
<1>4. \A r \in Scripts : ScriptInv(spc[r], sctx[r])
  BY DEF ScriptInv, EndInv, RecordInv, CleanupInv, PromoteInv, MarkInv, RecordSteps,
         CleanupSteps, PromoteSteps, MarkSteps
<1>5. QED
  BY <1>1, <1>2, <1>3, <1>4 DEF IInv

-----------------------------------------------------------------------------
(* Runs of the gate                                                        *)

LEMMA PassesType == ASSUME NEW c, NEW h PROVE Passes(c, h) \in BOOLEAN
BY DEF Passes

\* A step of a run of the gate that goes to l with the context c.
LEMMA EvaluateMoves ==
    ASSUME TypeOK, NEW e \in Evaluations, NEW l \in ESteps \cup Ends, NEW c,
           IF l \in ESteps THEN c \in EContexts ELSE c \in EContexts \cup {None},
           epc' = [epc EXCEPT ![e] = l], ectx' = [ectx EXCEPT ![e] = c],
           evaluation' \in [Evaluations -> Runs \cup {None}], latest' \in Pointers,
           UNCHANGED <<aliases, scripts, store, review>>
    PROVE  TypeOK'
<1> USE DEF TypeOK, aliases, scripts, store
<1>1. ectx' \in [Evaluations -> EContexts \cup {None}] /\ epc' \in [Evaluations -> ESteps \cup Ends]
  OBVIOUS
<1>2. \A f \in Evaluations : epc'[f] \in ESteps => ectx'[f] \in EContexts
  OBVIOUS
<1>3. QED
  BY <1>1, <1>2

\* What a run of the gate does to its own state.
LEMMA EvaluateType ==
    ASSUME TypeOK, EvaluationInv, NEW e \in Evaluations, Evaluate(e), UNCHANGED review
    PROVE  TypeOK'
<1>0. UNCHANGED <<aliases, scripts, store, review>>
  BY DEF Evaluate, EGoto, EEnd, StartEvaluation, ResolveCandidate, LoadCandidate,
         ResolveChampion, LoadChampion, LoadDecisions, StartRun, FinishRun, SetPointer,
         StopEvaluation
<1>a. epc[e] \in ESteps => ectx[e] \in EContexts
  BY DEF TypeOK
<1>b. evaluation \in [Evaluations -> Runs \cup {None}] /\ latest \in Pointers
  BY DEF TypeOK
<1>c. champion \in Versions /\ candidate \in Versions \cup {None}
      /\ ectx \in [Evaluations -> EContexts \cup {None}]
  BY DEF TypeOK
<1> USE <1>0, <1>a, <1>b, <1>c DEF EGoto, EEnd
<1>1. CASE StartEvaluation(e)
  <2>1. PICK d \in Datasets :
            ectx' = [ectx EXCEPT ![e] =
                [dataset |-> d, candidate |-> None, champion |-> None,
                 candidateModel |-> None, championModel |-> None]]
    BY <1>1 DEF StartEvaluation
  <2>2. epc' = [epc EXCEPT ![e] = "candidate"] /\ UNCHANGED <<evaluation, latest>>
    BY <1>1 DEF StartEvaluation
  <2>3. [dataset |-> d, candidate |-> None, champion |-> None,
         candidateModel |-> None, championModel |-> None] \in EContexts
    BY DEF EContexts
  <2>4. QED
    BY <2>1, <2>2, <2>3, EvaluateMoves DEF ESteps
<1>2. CASE ResolveCandidate(e)
  <2>1. PICK v \in Versions : ectx' = [ectx EXCEPT ![e].candidate = v]
    BY <1>2 DEF ResolveCandidate
  <2>2. ectx' = [ectx EXCEPT ![e] = [ectx[e] EXCEPT !.candidate = v]]
    BY <2>1
  <2>3. [ectx[e] EXCEPT !.candidate = v] \in EContexts
    BY <1>2 DEF ResolveCandidate, EContexts, ESteps
  <2>4. epc' = [epc EXCEPT ![e] = "load candidate"] /\ UNCHANGED <<evaluation, latest>>
    BY <1>2 DEF ResolveCandidate
  <2>5. QED
    BY <2>2, <2>3, <2>4, EvaluateMoves DEF ESteps
<1>3. CASE LoadCandidate(e)
  <2>1. ectx' = [ectx EXCEPT ![e] = [ectx[e] EXCEPT !.candidateModel = ectx[e].candidate]]
    BY <1>3 DEF LoadCandidate
  <2>2. [ectx[e] EXCEPT !.candidateModel = ectx[e].candidate] \in EContexts
    BY <1>3 DEF LoadCandidate, EContexts, ESteps
  <2>3. epc' = [epc EXCEPT ![e] = "champion"] /\ UNCHANGED <<evaluation, latest>>
    BY <1>3 DEF LoadCandidate
  <2>4. QED
    BY <2>1, <2>2, <2>3, EvaluateMoves DEF ESteps
<1>4. CASE ResolveChampion(e)
  <2>1. ectx' = [ectx EXCEPT ![e] = [ectx[e] EXCEPT !.champion = champion]]
    BY <1>4 DEF ResolveChampion
  <2>2. [ectx[e] EXCEPT !.champion = champion] \in EContexts
    BY <1>4 DEF ResolveChampion, EContexts, ESteps
  <2>3. epc' = [epc EXCEPT ![e] = "load champion"] /\ UNCHANGED <<evaluation, latest>>
    BY <1>4 DEF ResolveChampion
  <2>4. QED
    BY <2>1, <2>2, <2>3, EvaluateMoves DEF ESteps
<1>5. CASE LoadChampion(e)
  <2>1. UNCHANGED <<evaluation, latest>> /\ epc[e] = "load champion"
    BY <1>5 DEF LoadChampion
  <2>2. CASE EEnd(e, "raised")
    BY <2>1, <2>2, EvaluateMoves DEF Ends, ESteps
  <2>3. CASE /\ EGoto(e, "decisions")
             /\ ectx' = [ectx EXCEPT ![e].championModel = ectx[e].champion]
    <3>1. ectx' = [ectx EXCEPT ![e] = [ectx[e] EXCEPT !.championModel = ectx[e].champion]]
      BY <2>3
    <3>2. [ectx[e] EXCEPT !.championModel = ectx[e].champion] \in EContexts
      BY <2>1 DEF EContexts, ESteps
    <3>3. QED
      BY <2>1, <2>3, <3>1, <3>2, EvaluateMoves DEF ESteps
  <2>4. QED
    BY <1>5, <2>2, <2>3 DEF LoadChampion
<1>6. CASE LoadDecisions(e)
  <2>1. UNCHANGED <<evaluation, latest>> /\ epc[e] = "decisions"
    BY <1>6 DEF LoadDecisions
  <2>2. CASE EEnd(e, "raised")
    BY <2>1, <2>2, EvaluateMoves DEF Ends, ESteps
  <2>3. CASE EGoto(e, "start run") /\ UNCHANGED ectx
    <3>1. ectx' = [ectx EXCEPT ![e] = ectx[e]] /\ ectx[e] \in EContexts
      BY <2>1, <2>3 DEF ESteps
    <3>2. QED
      BY <2>1, <2>3, <3>1, EvaluateMoves DEF ESteps
  <2>4. QED
    BY <1>6, <2>2, <2>3 DEF LoadDecisions
<1>7. CASE StartRun(e)
  <2>1. epc' = [epc EXCEPT ![e] = "finish run"] /\ UNCHANGED <<ectx, latest>>
    BY <1>7 DEF StartRun
  <2>2. ectx' = [ectx EXCEPT ![e] = ectx[e]] /\ ectx[e] \in EContexts
    BY <1>7, <2>1 DEF StartRun, ESteps
  <2>3. evaluation' \in [Evaluations -> Runs \cup {None}]
    BY <1>7, <2>2 DEF StartRun, EContexts, Runs
  <2>4. QED
    BY <2>1, <2>2, <2>3, EvaluateMoves DEF ESteps
<1>8. CASE FinishRun(e)
  <2>1. epc' = [epc EXCEPT ![e] = "point"] /\ UNCHANGED <<ectx, latest>>
    BY <1>8 DEF FinishRun
  <2>2. ectx' = [ectx EXCEPT ![e] = ectx[e]] /\ ectx[e] \in EContexts
    BY <1>8, <2>1 DEF FinishRun, ESteps
  <2>3. evaluation[e] \in Runs /\ Verdict(ectx[e]) \in BOOLEAN
    BY <1>8, PassesType DEF FinishRun, EvaluationInv, Verdict
  <2>4. evaluation' = [evaluation EXCEPT ![e] =
                [evaluation[e] EXCEPT !.status = "FINISHED", !.passed = Verdict(ectx[e])]]
    BY <1>8 DEF FinishRun
  <2>5. [evaluation[e] EXCEPT !.status = "FINISHED", !.passed = Verdict(ectx[e])] \in Runs
    BY <2>3 DEF Runs
  <2>6. QED
    BY <2>1, <2>2, <2>4, <2>5, EvaluateMoves DEF ESteps
<1>9. CASE SetPointer(e)
  <2>1. latest' \in Pointers /\ UNCHANGED evaluation
    BY <1>9 DEF SetPointer, Pointers
  <2>2. QED
    BY <1>9, <2>1, EvaluateMoves DEF SetPointer, Ends, ESteps
<1>10. CASE StopEvaluation(e)
  <2>1. PICK l \in {"raised", "killed"} :
            /\ epc' = [epc EXCEPT ![e] = l]
            /\ ectx' = [ectx EXCEPT ![e] = None]
            /\ evaluation' = IF epc[e] = "finish run" /\ l = "raised"
                             THEN [evaluation EXCEPT ![e].status = "FAILED"]
                             ELSE evaluation
    BY <1>10 DEF StopEvaluation
  <2>2. evaluation' \in [Evaluations -> Runs \cup {None}]
    <3>1. CASE epc[e] = "finish run" /\ l = "raised"
      <4>1. [evaluation[e] EXCEPT !.status = "FAILED"] \in Runs
        BY <3>1 DEF EvaluationInv, Runs
      <4>2. evaluation' = [evaluation EXCEPT ![e] = [evaluation[e] EXCEPT !.status = "FAILED"]]
        BY <2>1, <3>1
      <4>3. QED
        BY <4>1, <4>2
    <3>2. QED
      BY <2>1, <3>1
  <2>3. latest' \in Pointers
    BY <1>10 DEF StopEvaluation
  <2>4. QED
    BY <2>1, <2>2, <2>3, EvaluateMoves DEF Ends, ESteps
<1>11. QED
  BY <1>1, <1>2, <1>3, <1>4, <1>5, <1>6, <1>7, <1>8, <1>9, <1>10 DEF Evaluate

\* Evaluations are numbered.
LEMMA EvaluationOrder == Evaluations \subseteq Int
BY EvaluationsAssumption DEF Evaluations

\* The integers are ordered.
LEMMA IntOrder ==
    \A i, j \in Int : (i < j => i # j) /\ (~(j < i) => i <= j) /\ (i = j => i <= j)
OBVIOUS

\* A step of a run of the gate that goes to l and leaves run in MLflow.
LEMMA EvaluateGrows ==
    ASSUME TypeOK, EvaluationInv, NEW e \in Evaluations,
           NEW l \in (ESteps \cup Ends) \ {"idle"}, NEW run,
           epc[e] \in ESteps \cup {"idle"},
           epc[e] = "idle" => \A f \in Evaluations : f < e => epc[f] \in Ends \ {"idle"},
           epc' = [epc EXCEPT ![e] = l], evaluation' = [evaluation EXCEPT ![e] = run],
           Published(e) => run = evaluation[e],
           l \in ESteps \ {"finish run", "point"} => run = None,
           l = "finish run" => run \in Runs /\ run.status = "RUNNING",
           l = "point" => run # None /\ run.status = "FINISHED",
           \A v \in Versions : latest'[v] = latest[v] \/ (latest'[v] = e /\ Published(e)),
           requests' = requests
    PROVE  EvaluationInv' /\ Grows
<1> USE DEF Published
<1>1. /\ latest \in Pointers /\ epc \in [Evaluations -> ESteps \cup Ends]
      /\ evaluation \in [Evaluations -> Runs \cup {None}]
  BY DEF TypeOK
<1>2. \A f \in Evaluations : Published(f) => evaluation'[f] = evaluation[f]
  BY <1>1
<1>3. \A f, g \in Evaluations : f < g /\ epc'[g] # "idle" => epc'[f] \in Ends \ {"idle"}
  <2> SUFFICES ASSUME NEW f \in Evaluations, NEW g \in Evaluations, f < g, epc'[g] # "idle"
               PROVE  epc'[f] \in Ends \ {"idle"}
    OBVIOUS
  <2>0. f \in Int /\ g \in Int
    BY EvaluationOrder
  <2>1. CASE g = e
    <3>1. epc[f] \in Ends \ {"idle"}
      BY <2>1, <1>1 DEF EvaluationInv
    <3>2. f # e
      BY <2>0, <2>1, IntOrder
    <3>3. QED
      BY <3>1, <3>2, <1>1
  <2>2. CASE g # e
    <3>1. epc[f] \in Ends \ {"idle"}
      BY <2>2, <1>1 DEF EvaluationInv
    <3>2. f # e
      BY <3>1 DEF Ends, ESteps
    <3>3. QED
      BY <3>1, <3>2, <1>1
  <2>3. QED
    BY <2>1, <2>2
<1>4. \A v \in Versions : latest[v] # None =>
        /\ latest[v] \in Evaluations /\ Published(latest[v]) /\ epc[latest[v]] # "idle"
        /\ latest[v] <= e
  <2> SUFFICES ASSUME NEW v \in Versions, latest[v] # None
               PROVE  /\ latest[v] \in Evaluations /\ Published(latest[v])
                      /\ epc[latest[v]] # "idle" /\ latest[v] <= e
    OBVIOUS
  <2>1. latest[v] \in Evaluations /\ Published(latest[v]) /\ epc[latest[v]] # "idle"
    BY <1>1 DEF Pointers, EvaluationInv
  <2>0. e \in Int /\ latest[v] \in Int
    BY <2>1, EvaluationOrder
  <2>2. ~(e < latest[v])
    BY <2>1 DEF EvaluationInv, Ends, ESteps
  <2>3. QED
    BY <2>0, <2>1, <2>2, IntOrder
<1>5. \A v \in Versions : latest[v] # None => latest'[v] \in Evaluations /\ latest[v] <= latest'[v]
  <2> SUFFICES ASSUME NEW v \in Versions, latest[v] # None
               PROVE  latest'[v] \in Evaluations /\ latest[v] <= latest'[v]
    OBVIOUS
  <2>1. latest[v] \in Int /\ latest[v] \in Evaluations /\ latest[v] <= e
    BY <1>4, EvaluationOrder
  <2>2. latest[v] <= latest[v]
    BY <2>1, IntOrder
  <2>3. QED
    BY <2>1, <2>2
<1>6. \A f \in Evaluations :
        /\ epc'[f] \in ({"idle"} \cup ESteps) \ {"finish run", "point"} => evaluation'[f] = None
        /\ epc'[f] = "finish run" => evaluation'[f] \in Runs /\ evaluation'[f].status = "RUNNING"
        /\ epc'[f] = "point" => Published(f)'
  BY <1>1 DEF EvaluationInv
<1>7. \A v \in Versions : latest'[v] # None => Published(latest[v])' /\ epc'[latest'[v]] # "idle"
  <2> SUFFICES ASSUME NEW v \in Versions, latest'[v] # None
               PROVE  Published(latest[v])' /\ epc'[latest'[v]] # "idle"
    OBVIOUS
  <2>1. latest'[v] \in Evaluations /\ Published(latest'[v])
        /\ (latest'[v] # e => epc[latest'[v]] # "idle")
    BY <1>4
  <2>2. QED
    BY <2>1, <1>1, <1>2
<1>8. QED
  BY <1>2, <1>3, <1>5, <1>6, <1>7 DEF EvaluationInv, Grows

LEMMA EvaluateInv ==
    ASSUME TypeOK, EvaluationInv, NEW e \in Evaluations, Evaluate(e), UNCHANGED review
    PROVE  EvaluationInv' /\ Grows
<1>0. requests' = requests
  BY DEF Evaluate, EGoto, EEnd, StartEvaluation, ResolveCandidate, LoadCandidate,
         ResolveChampion, LoadChampion, LoadDecisions, StartRun, FinishRun, SetPointer,
         StopEvaluation, store
<1>a. /\ epc[e] \in ({"idle"} \cup ESteps) \ {"finish run", "point"} => evaluation[e] = None
      /\ epc[e] = "finish run" => evaluation[e] \in Runs /\ evaluation[e].status = "RUNNING"
      /\ epc[e] = "point" => Published(e)
  BY DEF EvaluationInv
<1>b. evaluation \in [Evaluations -> Runs \cup {None}] /\ latest \in Pointers
  BY DEF TypeOK
<1> USE <1>0, <1>a, <1>b DEF EGoto, EEnd, Published
<1>1. CASE StartEvaluation(e)
  <2>1. epc[e] = "idle" /\ epc' = [epc EXCEPT ![e] = "candidate"]
        /\ UNCHANGED <<evaluation, latest>>
    BY <1>1 DEF StartEvaluation
  <2>2. \A f \in Evaluations : f < e => epc[f] \in Ends \ {"idle"}
    BY <1>1, EvaluationsAssumption DEF StartEvaluation, Evaluations
  <2>3. evaluation' = [evaluation EXCEPT ![e] = evaluation[e]]
    BY <2>1
  <2>4. QED
    BY <2>1, <2>2, <2>3, EvaluateGrows DEF ESteps
<1>2. CASE ResolveCandidate(e) \/ LoadCandidate(e) \/ ResolveChampion(e) \/ LoadChampion(e)
           \/ LoadDecisions(e)
  <2>1. /\ epc[e] \in ESteps \ {"finish run", "point"}
        /\ \E l \in {"load candidate", "champion", "load champion", "decisions", "start run",
                     "raised"} : epc' = [epc EXCEPT ![e] = l]
        /\ UNCHANGED <<evaluation, latest>>
    BY <1>2 DEF ResolveCandidate, LoadCandidate, ResolveChampion, LoadChampion, LoadDecisions,
                ESteps
  <2>2. evaluation' = [evaluation EXCEPT ![e] = evaluation[e]] /\ evaluation[e] = None
    BY <2>1
  <2>3. QED
    BY <2>1, <2>2, EvaluateGrows DEF ESteps, Ends
<1>3. CASE StartRun(e)
  <2> DEFINE run == [status |-> "RUNNING", passed |-> FALSE, dataset |-> ectx[e].dataset,
                     candidate |-> ectx[e].candidate, champion |-> ectx[e].champion]
  <2>1. /\ epc[e] = "start run" /\ epc' = [epc EXCEPT ![e] = "finish run"]
        /\ evaluation' = [evaluation EXCEPT ![e] = run] /\ latest' = latest
    BY <1>3 DEF StartRun
  <2>2. run \in Runs /\ run.status = "RUNNING"
    BY <2>1 DEF TypeOK, EContexts, Runs, ESteps
  <2>3. QED
    BY <2>1, <2>2, EvaluateGrows DEF ESteps
<1>4. CASE FinishRun(e)
  <2> DEFINE run == [evaluation[e] EXCEPT !.status = "FINISHED", !.passed = Verdict(ectx[e])]
  <2>1. /\ epc[e] = "finish run" /\ epc' = [epc EXCEPT ![e] = "point"]
        /\ evaluation' = [evaluation EXCEPT ![e] = run] /\ latest' = latest
    BY <1>4 DEF FinishRun
  <2>2. Verdict(ectx[e]) \in BOOLEAN
    BY PassesType DEF Verdict
  <2>3. run \in Runs /\ run.status = "FINISHED" /\ ~Published(e)
    BY <2>1, <2>2 DEF Runs
  <2>4. run # None
    BY <2>3, NoneAssumption
  <2>5. QED
    BY <2>1, <2>3, <2>4, EvaluateGrows DEF ESteps
<1>5. CASE SetPointer(e)
  <2>1. /\ epc[e] = "point" /\ epc' = [epc EXCEPT ![e] = "done"]
        /\ evaluation' = [evaluation EXCEPT ![e] = evaluation[e]]
    BY <1>5 DEF SetPointer
  <2>2. \A v \in Versions : latest'[v] = latest[v] \/ latest'[v] = e
    BY <1>5 DEF SetPointer, Pointers
  <2>3. QED
    BY <2>1, <2>2, EvaluateGrows DEF ESteps, Ends
<1>6. CASE StopEvaluation(e)
  <2>1. PICK l \in {"raised", "killed"} :
            /\ epc' = [epc EXCEPT ![e] = l]
            /\ evaluation' = IF epc[e] = "finish run" /\ l = "raised"
                             THEN [evaluation EXCEPT ![e].status = "FAILED"]
                             ELSE evaluation
    BY <1>6 DEF StopEvaluation
  <2>2. epc[e] \in ESteps /\ latest' = latest
    BY <1>6 DEF StopEvaluation
  <2>3. CASE epc[e] = "finish run" /\ l = "raised"
    <3> DEFINE run == [evaluation[e] EXCEPT !.status = "FAILED"]
    <3>1. evaluation' = [evaluation EXCEPT ![e] = run] /\ ~Published(e)
      BY <2>1, <2>3
    <3>2. QED
      BY <2>1, <2>2, <3>1, EvaluateGrows DEF ESteps, Ends
  <2>4. CASE ~(epc[e] = "finish run" /\ l = "raised")
    <3>1. evaluation' = [evaluation EXCEPT ![e] = evaluation[e]]
      BY <2>1, <2>4
    <3>2. QED
      BY <2>1, <2>2, <3>1, EvaluateGrows DEF ESteps, Ends
  <2>5. QED
    BY <2>3, <2>4
<1>7. QED
  BY <1>1, <1>2, <1>3, <1>4, <1>5, <1>6 DEF Evaluate

-----------------------------------------------------------------------------
(* Scripts                                                                 *)

\* A pointer that has moved on since some time still has after a step.
LEMMA MovedOnLater ==
    ASSUME TypeOK, Grows, NEW before \in Pointers, NEW v \in Versions,
           MovedOn(before, v, latest[v])
    PROVE  MovedOn(before, v, latest'[v])
<1> SUFFICES ASSUME before[v] # None PROVE latest'[v] \in Evaluations /\ before[v] <= latest'[v]
  BY DEF MovedOn
<1>1. latest[v] \in Evaluations /\ before[v] \in Evaluations /\ before[v] <= latest[v]
  BY DEF MovedOn, Pointers
<1>2. latest'[v] \in Evaluations /\ latest[v] <= latest'[v]
  BY <1>1, NoneAssumption DEF Grows
<1>3. latest[v] \in Int /\ latest'[v] \in Int /\ before[v] \in Int
  BY <1>1, <1>2, EvaluationOrder
<1>4. \A i, j, k \in Int : i <= j /\ j <= k => i <= k
  OBVIOUS
<1>5. QED
  BY <1>1, <1>2, <1>3, <1>4

\* What is true of a script stays true while others take their steps.
LEMMA Undisturbed ==
    ASSUME TypeOK, Grows, champion' \in Versions, NEW r \in Scripts, Kept(r),
           ScriptInv(spc[r], sctx[r])
    PROVE  ScriptInv(spc[r], sctx[r])'
<1>1. spc'[r] = spc[r]
  BY DEF Kept
<1>2. EndInv(spc[r], sctx[r])'
  BY <1>1 DEF Kept, ScriptInv, EndInv, RecordSteps, Ends
<1>3. RecordInv(spc[r], sctx[r])'
  <2> SUFFICES ASSUME spc[r] \in RecordSteps PROVE RecordInv(spc[r], sctx[r])'
    BY <1>1 DEF RecordInv
  <2> DEFINE x == sctx[r]
             y == sctx'[r]
  <2>1. RecordInv(spc[r], x)
    BY DEF ScriptInv
  <2>2. /\ y \in RecordContexts /\ champion' \in y.champions
        /\ y.before = x.before /\ y.id = x.id /\ y.read = x.read /\ y.version = x.version
        /\ y.tag = x.tag /\ y.champion = x.champion /\ x.champions \subseteq y.champions
    <3>1. CASE y = x /\ champion' = champion
      BY <2>1, <3>1 DEF RecordInv
    <3>2. CASE y = [x EXCEPT !.champions = @ \cup {champion'}]
      BY <2>1, <3>2 DEF RecordInv, RecordContexts
    <3>3. QED
      BY <3>1, <3>2 DEF Kept
  <2>3. x.id \in Evaluations /\ x.before \in Pointers
    BY <2>1 DEF RecordInv, RecordContexts
  <2>4. \A v \in Versions : MovedOn(y.before, v, latest'[v])
    BY <2>1, <2>2, <2>3, MovedOnLater DEF RecordInv
  <2>5. spc[r] # "evaluation" => Published(sctx[r].id)' /\ y.read = evaluation'[y.id]
    BY <2>1, <2>2, <2>3 DEF RecordInv, Grows, Published
  <2>6. spc[r] \in {"champion", "insert"} =>
            y.version \in Versions /\ MovedOn(y.before, y.version, y.tag)
    BY <2>1, <2>2 DEF RecordInv
  <2>7. spc[r] = "insert" => y.champion \in y.champions
    BY <2>1, <2>2 DEF RecordInv
  <2>8. QED
    BY <1>1, <2>2, <2>4, <2>5, <2>6, <2>7 DEF RecordInv, MovedOn
<1>4. CASE spc[r] \in RecordSteps
  BY <1>1, <1>2, <1>3, <1>4
     DEF ScriptInv, CleanupInv, PromoteInv, MarkInv, RecordSteps, CleanupSteps, PromoteSteps,
         MarkSteps
<1>5. CASE spc[r] \notin RecordSteps
  <2>1. sctx'[r] = sctx[r]
    BY <1>5 DEF Kept
  <2>2. CleanupInv(spc[r], sctx[r])'
    <3> SUFFICES ASSUME spc[r] \in CleanupSteps PROVE CleanupInv(spc[r], sctx[r])'
      BY <1>1 DEF CleanupInv
    <3> DEFINE x == sctx[r]
    <3>1. CleanupInv(spc[r], x) /\ x \in CleanupContexts
      BY DEF ScriptInv, CleanupInv
    <3>2. \A v \in Versions : MovedOn(x.before, v, latest'[v])
      BY <3>1, MovedOnLater DEF CleanupInv, CleanupContexts
    <3>3. spc[r] # "look up" => evaluation'[x.tag] = evaluation[x.tag]
      BY <3>1 DEF CleanupInv, Grows
    <3>4. QED
      BY <1>1, <2>1, <3>1, <3>2, <3>3 DEF CleanupInv, Published, MovedOn, Rejected
  <2>3. PromoteInv(spc[r], sctx[r])'
    <3>1. requests \subseteq requests' /\ Ids \subseteq Ids'
      BY DEF Grows, Ids
    <3>2. PromoteInv(spc[r], sctx[r])
      BY DEF ScriptInv
    <3>3. QED
      BY <1>1, <2>1, <3>1, <3>2 DEF PromoteInv
  <2>4. MarkInv(spc[r], sctx[r])'
    BY <1>1, <2>1 DEF ScriptInv, MarkInv
  <2>5. QED
    BY <1>2, <1>3, <2>2, <2>3, <2>4 DEF ScriptInv
<1>6. QED
  BY <1>4, <1>5

LEMMA RequestsStay == RequestInv /\ TypeOK /\ Grows /\ requests' = requests => RequestInv'
<1> SUFFICES ASSUME RequestInv, TypeOK, Grows, requests' = requests PROVE RequestInv'
  OBVIOUS
<1>1. \A q \in requests : q.evaluation \in Evaluations
  BY DEF TypeOK, RequestRows
<1>2. QED
  BY <1>1 DEF RequestInv, Grows, Published

\* The context of a script has a type at each of its calls.
LEMMA ContextType ==
    ASSUME NEW l \in PC, NEW c, ScriptInv(l, c)
    PROVE  c \in Contexts
BY DEF ScriptInv, EndInv, RecordInv, CleanupInv, PromoteInv, MarkInv, PC, Contexts

\* A step that leaves the runs of the gate alone.
LEMMA NoEvaluation ==
    ASSUME IInv, TypeOK', UNCHANGED evaluator, requests \subseteq requests',
           \A q \in requests' \ requests :
                /\ q \in RequestRows /\ Published(q.evaluation) /\ evaluation[q.evaluation].passed
                /\ evaluation[q.evaluation].candidate = q.source
                /\ evaluation[q.evaluation].champion = q.previous,
           \A q \in Scripts : Kept(q) \/ ScriptInv(spc[q], sctx[q])'
    PROVE  IInv'
<1>1. EvaluationInv'
  BY DEF IInv, EvaluationInv, Published, evaluator
<1>2. Grows
  <2>1. \A v \in Versions : latest[v] # None => latest[v] \in Evaluations /\ latest[v] <= latest[v]
    BY EvaluationOrder, IntOrder DEF IInv, TypeOK, Pointers
  <2>2. QED
    BY <2>1 DEF Grows, evaluator
<1>3. RequestInv'
  BY DEF IInv, RequestInv, Published, evaluator
<1>4. \A q \in Scripts : ScriptInv(spc[q], sctx[q])'
  BY <1>2, Undisturbed DEF IInv, TypeOK
<1>5. QED
  BY <1>1, <1>3, <1>4 DEF IInv

\* A step of a script to l with the context c that moves no champion and inserts no request.
LEMMA ScriptStep ==
    ASSUME IInv, NEW r \in Scripts, NEW l \in PC, NEW c, ScriptInv(l, c),
           spc' = [spc EXCEPT ![r] = l], sctx' = [sctx EXCEPT ![r] = c],
           UNCHANGED <<champion, evaluator, requests>>,
           candidate' \in Versions \cup {None}, rollout' \in [Scripts -> Rollouts],
           review' \in [Versions -> {"rejected", None}]
    PROVE  IInv'
<1>1. spc'[r] = l /\ sctx'[r] = c /\ spc' \in [Scripts -> PC] /\ sctx' \in [Scripts -> Contexts]
  BY ContextType DEF IInv, TypeOK
<1>2. TypeOK'
  BY <1>1 DEF IInv, TypeOK, evaluator
<1>3. ScriptInv(spc[r], sctx[r])'
  BY <1>1 DEF ScriptInv, EndInv, RecordInv, CleanupInv, PromoteInv, MarkInv, Published, Ids,
              evaluator
<1>4. \A q \in Scripts : q # r => Kept(q)
  BY DEF IInv, TypeOK, Kept
<1>5. QED
  BY <1>2, <1>3, <1>4, NoEvaluation

\* The end of a script.
LEMMA ScriptEnds ==
    ASSUME IInv, NEW r \in Scripts, NEW l \in Ends,
           spc' = [spc EXCEPT ![r] = l], sctx' = [sctx EXCEPT ![r] = None],
           UNCHANGED <<champion, evaluator, requests>>,
           candidate' \in Versions \cup {None}, rollout' \in [Scripts -> Rollouts],
           review' \in [Versions -> {"rejected", None}]
    PROVE  IInv'
<1>1. ScriptInv(l, None)
  BY DEF ScriptInv, EndInv, RecordInv, CleanupInv, PromoteInv, MarkInv, Ends, RecordSteps,
         CleanupSteps, PromoteSteps, MarkSteps
<1>2. QED
  BY <1>1, ScriptStep DEF PC

\* A pointer has moved on from what it is.
LEMMA NotMoved ==
    ASSUME TypeOK
    PROVE  \A v \in Versions : MovedOn(latest, v, latest[v])
BY EvaluationOrder, IntOrder DEF TypeOK, Pointers, MovedOn

LEMMA RecordStep ==
    ASSUME IInv, NEW r \in Scripts, Record(r), UNCHANGED review
    PROVE  IInv'
<1> DEFINE x == sctx[r]
<1>a. /\ TypeOK /\ ScriptInv(spc[r], x)
      /\ champion \in Versions /\ candidate \in Versions \cup {None} /\ latest \in Pointers
      /\ evaluation \in [Evaluations -> Runs \cup {None}]
      /\ rollout \in [Scripts -> Rollouts] /\ review \in [Versions -> {"rejected", None}]
      /\ sctx \in [Scripts -> Contexts] /\ spc \in [Scripts -> PC]
  BY DEF IInv, TypeOK
<1>b. spc[r] \in RecordSteps => RecordInv(spc[r], x) /\ x \in RecordContexts
  BY <1>a DEF ScriptInv, RecordInv
<1> USE DEF SGoto, SEnd, ReadsOnly, store
<1>1. CASE StartRecorder(r)
  <2>1. PICK e \in Evaluations, v \in Versions \cup {None} :
            StartScript(r, "evaluation",
                [id |-> e, wanted |-> v, read |-> None, version |-> None, alias |-> FALSE,
                 tag |-> None, champion |-> None, before |-> latest, champions |-> {champion}])
    BY <1>1 DEF StartRecorder
  <2> DEFINE c == [id |-> e, wanted |-> v, read |-> None, version |-> None, alias |-> FALSE,
                   tag |-> None, champion |-> None, before |-> latest, champions |-> {champion}]
  <2>2. c \in RecordContexts
    BY <1>a DEF RecordContexts
  <2>3. ScriptInv("evaluation", c)
    BY <1>a, <2>2, NotMoved
       DEF ScriptInv, EndInv, RecordInv, CleanupInv, PromoteInv, MarkInv, Ends, RecordSteps,
           CleanupSteps, PromoteSteps, MarkSteps
  <2>4. QED
    BY <1>a, <2>1, <2>3, ScriptStep DEF StartScript, PC, RecordSteps
<1>2. CASE LoadEvaluation(r)
  <2> DEFINE c == [x EXCEPT !.read = evaluation[x.id]]
  <2>1. spc[r] = "evaluation" /\ UNCHANGED <<champion, candidate, store, evaluator>>
    BY <1>2 DEF LoadEvaluation
  <2>2. CASE SEnd(r, "raised")
    BY <1>a, <2>1, <2>2, ScriptEnds DEF Ends
  <2>3. CASE /\ Published(x.id)
             /\ SGoto(r, "candidate") /\ sctx' = [sctx EXCEPT ![r].read = evaluation[x.id]]
    <3>1. c \in RecordContexts
      BY <1>a, <1>b, <2>1 DEF RecordContexts, RecordSteps
    <3>2. RecordInv("candidate", c)
      BY <1>b, <2>1, <2>3, <3>1 DEF RecordInv, RecordSteps, RecordContexts
    <3>3. ScriptInv("candidate", c)
      BY <3>2 DEF ScriptInv, EndInv, CleanupInv, PromoteInv, MarkInv, Ends, CleanupSteps,
                  PromoteSteps, MarkSteps
    <3>4. sctx' = [sctx EXCEPT ![r] = c]
      BY <2>3
    <3>5. QED
      BY <1>a, <2>1, <2>3, <3>3, <3>4, ScriptStep DEF PC, RecordSteps
  <2>4. QED
    BY <1>2, <2>2, <2>3 DEF LoadEvaluation, Published
<1>3. CASE ResolveRequested(r)
  <2> DEFINE v == IF x.wanted = None THEN candidate ELSE x.wanted
             c == [x EXCEPT !.version = v, !.tag = latest[v], !.alias = (candidate = v)]
  <2>1. spc[r] = "candidate" /\ UNCHANGED <<champion, candidate, store, evaluator>>
    BY <1>3 DEF ResolveRequested
  <2>2. CASE SEnd(r, "raised")
    BY <1>a, <2>1, <2>2, ScriptEnds DEF Ends
  <2>3. CASE /\ v # None /\ SGoto(r, "champion")
             /\ sctx' = [sctx EXCEPT ![r].version = v, ![r].tag = latest[v],
                                     ![r].alias = (candidate = v)]
    <3>1. v \in Versions
      BY <1>a, <1>b, <2>1, <2>3 DEF RecordContexts, RecordSteps
    <3>2. latest[v] \in Evaluations \cup {None}
      BY <1>a, <3>1 DEF Pointers
    <3>3. /\ c \in RecordContexts /\ c.version = v /\ c.tag = latest[v] /\ c.before = x.before
          /\ c.id = x.id /\ c.read = x.read /\ c.champions = x.champions
      BY <1>b, <2>1, <3>1, <3>2 DEF RecordContexts, RecordSteps
    <3>4. RecordInv("champion", c)
      BY <1>b, <2>1, <3>1, <3>3 DEF RecordInv, RecordSteps
    <3>5. ScriptInv("champion", c)
      BY <3>4 DEF ScriptInv, EndInv, CleanupInv, PromoteInv, MarkInv, Ends, CleanupSteps,
                  PromoteSteps, MarkSteps
    <3>6. sctx' = [sctx EXCEPT ![r] = c]
      BY <2>3, <1>a, <1>b, <2>1 DEF RecordContexts, RecordSteps
    <3>7. QED
      BY <1>a, <2>1, <2>3, <3>5, <3>6, ScriptStep DEF PC, RecordSteps
  <2>4. QED
    BY <1>3, <2>2, <2>3 DEF ResolveRequested
<1>4. CASE ResolveCurrentChampion(r)
  <2> DEFINE c == [x EXCEPT !.champion = champion]
  <2>1. /\ spc[r] = "champion" /\ UNCHANGED <<champion, candidate, store, evaluator>>
        /\ SGoto(r, "insert") /\ sctx' = [sctx EXCEPT ![r] = c]
    BY <1>4 DEF ResolveCurrentChampion
  <2>2. /\ c \in RecordContexts /\ c.champion = champion /\ c.version = x.version
        /\ c.tag = x.tag /\ c.before = x.before
        /\ c.id = x.id /\ c.read = x.read /\ c.champions = x.champions
    BY <1>a, <1>b, <2>1 DEF RecordContexts, RecordSteps
  <2>3. RecordInv("insert", c)
    BY <1>b, <2>1, <2>2 DEF RecordInv, RecordSteps
  <2>4. ScriptInv("insert", c)
    BY <2>3 DEF ScriptInv, EndInv, CleanupInv, PromoteInv, MarkInv, Ends, CleanupSteps,
                PromoteSteps, MarkSteps
  <2>5. QED
    BY <1>a, <2>1, <2>4, ScriptStep DEF PC, RecordSteps
<1>5. CASE InsertRequest(r)
  <2>1. spc[r] = "insert" /\ UNCHANGED <<champion, candidate, evaluator>>
    BY <1>5 DEF InsertRequest
  <2>2. CASE SEnd(r, "raised") /\ UNCHANGED store
    BY <1>a, <2>1, <2>2, ScriptEnds DEF Ends
  <2>3. CASE Admissible(x) /\ SEnd(r, "done")
    <3>1. PICK approved \in BOOLEAN :
              requests' = requests \cup {DeploymentRequestRow(r, x, approved)}
      BY <1>a, <1>b, <1>5, <2>1, <2>3 DEF InsertRequest
    <3> DEFINE q == DeploymentRequestRow(r, x, approved)
    <3>2. /\ x \in RecordContexts /\ x.version \in Versions /\ Published(x.id)
          /\ x.read = evaluation[x.id] /\ x.id \in Evaluations
      BY <1>b, <2>1 DEF RecordInv, RecordSteps, RecordContexts
    <3>3. /\ q.by = r /\ q.evaluation = x.id /\ q.source = x.version
          /\ q.previous = x.read.champion /\ q.alias = x.alias /\ q.approved = approved
      BY DEF DeploymentRequestRow
    <3>4. x.read \in Runs
      BY <1>a, <3>2 DEF Published
    <3>5. q \in RequestRows
      BY <3>2, <3>4 DEF DeploymentRequestRow, RequestRows, RecordContexts, Runs
    <3>6. /\ evaluation[q.evaluation].passed /\ evaluation[q.evaluation].candidate = q.source
          /\ evaluation[q.evaluation].champion = q.previous /\ Published(q.evaluation)
      BY <2>3, <3>2, <3>3 DEF Admissible
    <3>7. spc'[r] = "done" /\ sctx'[r] = None
      BY <1>a, <2>3
    <3>8. ScriptInv(spc[r], sctx[r])'
      BY <3>7 DEF ScriptInv, EndInv, RecordInv, CleanupInv, PromoteInv, MarkInv, Ends,
                  RecordSteps, CleanupSteps, PromoteSteps, MarkSteps
    <3>9. \A s \in Scripts : s # r => Kept(s)
      BY <1>a, <2>1, <2>3 DEF Kept
    <3>10. rollout' \in [Scripts -> Rollouts]
      BY <1>5, <2>1, <2>3, <1>a DEF InsertRequest, Rollouts
    <3>11. TypeOK'
      BY <1>a, <2>1, <2>3, <3>1, <3>5, <3>10 DEF TypeOK, PC, Ends, Contexts, evaluator
    <3>12. QED
      BY <2>1, <2>3, <3>1, <3>5, <3>6, <3>8, <3>9, <3>11, NoEvaluation
  <2>4. QED
    BY <1>5, <2>2, <2>3 DEF InsertRequest
<1>6. QED
  BY <1>1, <1>2, <1>3, <1>4, <1>5 DEF Record

LEMMA CleanupStep ==
    ASSUME IInv, NEW r \in Scripts, Cleanup(r)
    PROVE  IInv'
<1> DEFINE x == sctx[r]
<1>a. /\ TypeOK /\ ScriptInv(spc[r], x) /\ EvaluationInv
      /\ candidate \in Versions \cup {None} /\ latest \in Pointers
      /\ rollout \in [Scripts -> Rollouts] /\ review \in [Versions -> {"rejected", None}]
      /\ sctx \in [Scripts -> Contexts] /\ spc \in [Scripts -> PC]
  BY DEF IInv, TypeOK
<1>b. spc[r] \in CleanupSteps => CleanupInv(spc[r], x) /\ x \in CleanupContexts
  BY <1>a DEF ScriptInv, CleanupInv
\* A step to another call of the cleanup with the same context.
<1>c. ASSUME NEW l \in CleanupSteps, CleanupInv(l, x), SGoto(r, l), sctx' = sctx,
             UNCHANGED <<champion, requests, rollout>>, candidate' = candidate,
             review' \in [Versions -> {"rejected", None}]
      PROVE  IInv'
  <2>1. ScriptInv(l, x)
    BY <1>c DEF ScriptInv, EndInv, RecordInv, PromoteInv, MarkInv, Ends, RecordSteps,
                CleanupSteps, PromoteSteps, MarkSteps
  <2>2. sctx' = [sctx EXCEPT ![r] = x]
    BY <1>a, <1>c
  <2>3. QED
    BY <1>a, <1>c, <2>1, <2>2, ScriptStep DEF SGoto, PC
<1> USE DEF SEnd, ReadsOnly, store
<1>1. CASE StartCleanup(r)
  <2> DEFINE c == [version |-> None, tag |-> None, before |-> latest]
  <2>1. StartScript(r, "look up", c) /\ UNCHANGED review
    BY <1>1 DEF StartCleanup
  <2>2. c \in CleanupContexts
    BY <1>a DEF CleanupContexts
  <2>3. ScriptInv("look up", c)
    BY <1>a, <2>2, NotMoved
       DEF ScriptInv, EndInv, RecordInv, CleanupInv, PromoteInv, MarkInv, Ends, RecordSteps,
           CleanupSteps, PromoteSteps, MarkSteps
  <2>4. QED
    BY <1>a, <2>1, <2>3, ScriptStep DEF StartScript, SGoto, PC, CleanupSteps
<1>2. CASE LookUp(r)
  <2>1. spc[r] = "look up" /\ UNCHANGED <<champion, candidate, store, review>>
    BY <1>2 DEF LookUp
  <2>2. CASE SEnd(r, "done")
    BY <1>a, <2>1, <2>2, ScriptEnds DEF Ends, SGoto
  <2>3. CASE /\ candidate # None /\ latest[candidate] # None /\ SGoto(r, "judge")
             /\ sctx' = [sctx EXCEPT ![r].version = candidate, ![r].tag = latest[candidate]]
    <3> DEFINE c == [x EXCEPT !.version = candidate, !.tag = latest[candidate]]
    <3>1. /\ candidate \in Versions /\ latest[candidate] \in Evaluations
          /\ Published(latest[candidate])
      BY <1>a, <2>3 DEF Pointers, EvaluationInv
    <3>2. /\ c \in CleanupContexts /\ c.version = candidate /\ c.tag = latest[candidate]
          /\ c.before = x.before
      BY <1>b, <2>1, <3>1 DEF CleanupContexts, CleanupSteps
    <3>3. CleanupInv("judge", c)
      BY <1>b, <2>1, <3>1, <3>2 DEF CleanupInv, CleanupSteps
    <3>4. ScriptInv("judge", c)
      BY <3>3 DEF ScriptInv, EndInv, RecordInv, PromoteInv, MarkInv, Ends, RecordSteps,
                  PromoteSteps, MarkSteps
    <3>5. sctx' = [sctx EXCEPT ![r] = c]
      BY <2>3, <1>a, <1>b, <2>1 DEF CleanupContexts, CleanupSteps
    <3>6. QED
      BY <1>a, <2>1, <2>3, <3>4, <3>5, ScriptStep DEF SGoto, PC, CleanupSteps
  <2>4. QED
    BY <1>2, <2>2, <2>3 DEF LookUp
<1>3. CASE Judge(r)
  <2>1. spc[r] = "judge" /\ UNCHANGED <<champion, candidate, store, review>>
    BY <1>3 DEF Judge
  <2>2. CASE SEnd(r, "raised") \/ SEnd(r, "done")
    BY <1>a, <2>1, <2>2, ScriptEnds DEF Ends, SGoto
  <2>3. CASE Rejected(x.version, evaluation[x.tag]) /\ SGoto(r, "look again") /\ UNCHANGED sctx
    <3>1. CleanupInv("look again", x)
      BY <1>b, <2>1, <2>3 DEF CleanupInv, CleanupSteps
    <3>2. QED
      BY <1>a, <1>c, <2>1, <2>3, <3>1 DEF CleanupSteps
  <2>4. QED
    BY <1>3, <2>2, <2>3 DEF Judge
<1>4. CASE LookAgain(r)
  <2>1. spc[r] = "look again" /\ UNCHANGED <<champion, candidate, store, review>>
    BY <1>4 DEF LookAgain
  <2>2. CASE SEnd(r, "done")
    BY <1>a, <2>1, <2>2, ScriptEnds DEF Ends, SGoto
  <2>3. CASE SGoto(r, "tag") /\ UNCHANGED sctx
    <3>1. CleanupInv("tag", x)
      BY <1>b, <2>1, <2>3 DEF CleanupInv, CleanupSteps
    <3>2. QED
      BY <1>a, <1>c, <2>1, <2>3, <3>1 DEF CleanupSteps
  <2>4. QED
    BY <1>4, <2>2, <2>3 DEF LookAgain
<1>5. CASE TagReview(r)
  <2>1. spc[r] = "tag" /\ UNCHANGED <<champion, candidate, store, sctx>> /\ SGoto(r, "clear")
    BY <1>5 DEF TagReview
  <2>2. CleanupInv("clear", x)
    BY <1>b, <2>1 DEF CleanupInv, CleanupSteps
  <2>3. review' \in [Versions -> {"rejected", None}]
    BY <1>a, <1>5 DEF TagReview
  <2>4. QED
    BY <1>c, <2>1, <2>2, <2>3 DEF CleanupSteps
<1>6. CASE ClearAlias(r)
  BY <1>a, <1>6, ScriptEnds DEF ClearAlias, Ends, SGoto
<1>7. QED
  BY <1>1, <1>2, <1>3, <1>4, <1>5, <1>6 DEF Cleanup

LEMMA WithdrawStep ==
    ASSUME IInv, NEW r \in Scripts, Withdraw(r)
    PROVE  IInv'
<1> DEFINE x == sctx[r]
<1>a. /\ TypeOK /\ ScriptInv(spc[r], x)
      /\ candidate \in Versions \cup {None} /\ requests \subseteq RequestRows
      /\ rollout \in [Scripts -> Rollouts] /\ review \in [Versions -> {"rejected", None}]
      /\ sctx \in [Scripts -> Contexts] /\ spc \in [Scripts -> PC]
  BY DEF IInv, TypeOK
<1> USE DEF SGoto, SEnd, ReadsOnly, store
\* A step to a call of the script with a request that exists.
<1>b. ASSUME NEW l \in MarkSteps, NEW c \in MarkContexts, spc' = [spc EXCEPT ![r] = l],
             sctx' = [sctx EXCEPT ![r] = c],
             UNCHANGED <<champion, candidate, store, review, evaluator>>
      PROVE  IInv'
  <2>1. ScriptInv(l, c)
    BY <1>b DEF ScriptInv, EndInv, RecordInv, CleanupInv, PromoteInv, MarkInv, Ends,
                RecordSteps, CleanupSteps, PromoteSteps, MarkSteps
  <2>2. QED
    BY <1>a, <1>b, <2>1, ScriptStep DEF PC
<1>1. CASE StartMark(r)
  <2>1. PICK id \in Ids : StartScript(r, "read request", [id |-> id])
    BY <1>1 DEF StartMark
  <2>2. [id |-> id] \in MarkContexts
    BY <1>a DEF Ids, RequestRows, MarkContexts
  <2>3. QED
    BY <1>1, <1>b, <2>1, <2>2 DEF StartMark, StartScript, MarkSteps
<1>2. CASE ReadEligible(r)
  <2>1. spc[r] = "read request" /\ UNCHANGED <<champion, candidate, store, review>>
    BY <1>2 DEF ReadEligible
  <2>2. CASE SEnd(r, "raised")
    BY <1>a, <2>1, <2>2, ScriptEnds DEF Ends
  <2>3. CASE SGoto(r, "mark rolled back") /\ UNCHANGED sctx
    <3>1. x \in MarkContexts /\ sctx' = [sctx EXCEPT ![r] = x]
      BY <1>a, <2>1, <2>3 DEF ScriptInv, MarkInv, MarkSteps
    <3>2. QED
      BY <1>b, <2>1, <2>3, <3>1 DEF MarkSteps
  <2>4. QED
    BY <1>2, <2>2, <2>3 DEF ReadEligible
<1>3. CASE MarkRolledBack(r)
  <2>1. rollout' \in [Scripts -> Rollouts]
    BY <1>a, <1>3 DEF MarkRolledBack, Rollouts, Terminal
  <2>2. QED
    BY <1>a, <1>3, <2>1, ScriptEnds DEF MarkRolledBack, Ends
<1>4. QED
  BY <1>1, <1>2, <1>3 DEF Withdraw

LEMMA StopStep ==
    ASSUME IInv, NEW r \in Scripts, StopScript(r), UNCHANGED review
    PROVE  IInv'
<1>1. /\ candidate \in Versions \cup {None} /\ rollout \in [Scripts -> Rollouts]
      /\ review \in [Versions -> {"rejected", None}]
  BY DEF IInv, TypeOK
<1>2. QED
  BY <1>1, ScriptEnds DEF StopScript, Ends, aliases, store

-----------------------------------------------------------------------------
(* Steps that move champion                                                *)

\* Every script that records notes the new champion, and no other context changes.
LEMMA ChampionNoted ==
    ASSUME IInv, NEW v \in Versions, MoveChampion(v, sctx)
    PROVE  /\ champion' \in Versions /\ sctx' \in [Scripts -> Contexts]
           /\ \A q \in Scripts : spc[q] \notin RecordSteps => sctx'[q] = sctx[q]
           /\ \A q \in Scripts : spc'[q] = spc[q] => Kept(q)
<1>1. champion' = v /\ sctx \in [Scripts -> Contexts]
  BY DEF MoveChampion, IInv, TypeOK
<1>2. \A q \in Scripts :
        sctx'[q] = IF spc[q] \in RecordSteps
                   THEN [sctx[q] EXCEPT !.champions = @ \cup {v}] ELSE sctx[q]
  BY DEF MoveChampion
<1>3. \A q \in Scripts : spc[q] \in RecordSteps => sctx'[q] \in RecordContexts
  <2> SUFFICES ASSUME NEW q \in Scripts, spc[q] \in RecordSteps
               PROVE  sctx'[q] \in RecordContexts
    OBVIOUS
  <2>1. sctx[q] \in RecordContexts
    BY DEF IInv, ScriptInv, RecordInv
  <2>2. sctx'[q] = [sctx[q] EXCEPT !.champions = @ \cup {v}]
    BY <1>2
  <2>3. QED
    BY <2>1, <2>2 DEF RecordContexts
<1>4. sctx' \in [Scripts -> Contexts]
  <2>1. \A q \in Scripts : sctx'[q] \in Contexts
    BY <1>1, <1>2, <1>3 DEF Contexts
  <2>2. sctx' = [q \in Scripts |-> sctx'[q]]
    BY DEF MoveChampion
  <2>3. QED
    BY <2>1, <2>2
<1>5. \A q \in Scripts : spc'[q] = spc[q] => Kept(q)
  BY <1>1, <1>2 DEF Kept
<1>6. QED
  BY <1>1, <1>2, <1>4, <1>5

LEMMA MoveAliasStep ==
    ASSUME IInv, MoveAlias, UNCHANGED review
    PROVE  IInv'
<1>a. TypeOK
  BY DEF IInv
<1>b. UNCHANGED <<evaluator, spc, requests>>
  BY DEF MoveAlias
<1>1. ASSUME NEW v \in Versions, MoveChampion(v, sctx), candidate' = candidate,
             rollout' \in [Scripts -> Rollouts]
      PROVE  IInv'
  <2>1. TypeOK'
    BY <1>a, <1>b, <1>1, ChampionNoted DEF TypeOK, evaluator
  <2>2. \A q \in Scripts : Kept(q)
    BY <1>b, <1>1, ChampionNoted
  <2>3. QED
    BY <1>b, <2>1, <2>2, NoEvaluation
<1>2. ASSUME UNCHANGED <<champion, sctx>>, candidate' \in Versions \cup {None},
             rollout' \in [Scripts -> Rollouts]
      PROVE  IInv'
  <2>1. TypeOK'
    BY <1>a, <1>b, <1>2 DEF TypeOK, evaluator
  <2>2. \A q \in Scripts : Kept(q)
    BY <1>b, <1>2 DEF Kept
  <2>3. QED
    BY <1>b, <2>1, <2>2, NoEvaluation
<1>3. CASE /\ \E v \in Versions \ {candidate} : candidate' = v
           /\ UNCHANGED <<champion, sctx, rollout>>
  BY <1>a, <1>2, <1>3 DEF TypeOK
<1>4. CASE /\ \E v \in Versions \ {champion} : MoveChampion(v, sctx)
           /\ UNCHANGED <<candidate, rollout>>
  BY <1>a, <1>1, <1>4 DEF TypeOK
<1>5. ASSUME NEW q \in requests, candidate' = candidate,
             \/ MoveChampion(q.source, sctx) /\ rollout' = [rollout EXCEPT ![q.by] = "deployed"]
             \/ /\ rollout' = [rollout EXCEPT ![q.by] = "failed"]
                /\ UNCHANGED <<champion, sctx>>
      PROVE  IInv'
  <2>1. rollout' \in [Scripts -> Rollouts]
    BY <1>a, <1>5 DEF TypeOK, Rollouts, Terminal
  <2>2. q.source \in Versions /\ candidate' \in Versions \cup {None}
    BY <1>a, <1>5 DEF TypeOK, RequestRows
  <2>3. QED
    BY <1>1, <1>2, <1>5, <2>1, <2>2
<1>6. QED
  BY <1>3, <1>4, <1>5 DEF MoveAlias

LEMMA PromoteStep ==
    ASSUME IInv, NEW r \in Scripts, Promote(r)
    PROVE  IInv'
<1> DEFINE x == sctx[r]
<1>a. /\ TypeOK /\ ScriptInv(spc[r], x)
      /\ candidate \in Versions \cup {None} /\ requests \subseteq RequestRows
      /\ rollout \in [Scripts -> Rollouts] /\ review \in [Versions -> {"rejected", None}]
      /\ sctx \in [Scripts -> Contexts] /\ spc \in [Scripts -> PC]
  BY DEF IInv, TypeOK
<1>b. spc[r] \in PromoteSteps => PromoteInv(spc[r], x) /\ x \in PromoteContexts
  BY <1>a DEF ScriptInv, PromoteInv
<1> USE DEF ReadsOnly, store
\* A step to another call of the script that leaves champion and the requests alone.
<1>c. ASSUME NEW l \in PromoteSteps, NEW c, PromoteInv(l, c), SGoto(r, l),
             sctx' = [sctx EXCEPT ![r] = c], UNCHANGED <<champion, store, review>>,
             candidate' \in Versions \cup {None}
      PROVE  IInv'
  <2>1. ScriptInv(l, c)
    BY <1>c DEF ScriptInv, EndInv, RecordInv, CleanupInv, MarkInv, Ends, RecordSteps,
                CleanupSteps, PromoteSteps, MarkSteps
  <2>2. QED
    BY <1>a, <1>c, <2>1, ScriptStep DEF SGoto, PC
<1>d. ASSUME SEnd(r, "raised"), UNCHANGED <<champion, candidate, store, review>> PROVE IInv'
  BY <1>a, <1>d, ScriptEnds DEF SEnd, SGoto, Ends
<1>1. CASE StartPromotion(r)
  <2>1. PICK id \in Ids \cup {None}, w \in Versions \cup {Alias, None}, required \in BOOLEAN :
            /\ id = None => w # None
            /\ StartScript(r, "request",
                   [id |-> id, wanted |-> w, required |-> required, row |-> None,
                    status |-> None, version |-> None, alias |-> FALSE])
    BY <1>1 DEF StartPromotion
  <2> DEFINE c == [id |-> id, wanted |-> w, required |-> required, row |-> None,
                   status |-> None, version |-> None, alias |-> FALSE]
  <2>2. c \in PromoteContexts
    BY <1>a DEF Ids, RequestRows, PromoteContexts, Rollouts
  <2>3. PromoteInv("request", c)
    BY <2>1, <2>2 DEF PromoteInv
  <2>4. QED
    BY <1>a, <1>1, <1>c, <2>1, <2>3 DEF StartPromotion, StartScript, PromoteSteps
<1>2. CASE ReadRequest(r)
  <2>1. /\ spc[r] = "request" /\ UNCHANGED <<champion, candidate, store, review>>
        /\ SGoto(r, "source")
    BY <1>2 DEF ReadRequest
  <2>2. x \in PromoteContexts /\ (IF x.id = None THEN x.wanted # None ELSE x.id \in Ids)
    BY <1>b, <2>1 DEF PromoteInv, PromoteSteps
  <2>3. CASE x.id = None
    <3> DEFINE c == [x EXCEPT !.version = x.wanted, !.alias = (x.wanted = Alias)]
    <3>1. sctx' = [sctx EXCEPT ![r] = c]
      BY <1>a, <1>2, <2>2, <2>3 DEF ReadRequest, PromoteContexts
    <3>2. c \in PromoteContexts /\ c.id = None
      BY <2>2, <2>3 DEF PromoteContexts
    <3>3. PromoteInv("source", c)
      BY <3>2 DEF PromoteInv
    <3>4. QED
      BY <1>a, <1>c, <2>1, <3>1, <3>3 DEF PromoteSteps
  <2>4. CASE x.id # None
    <3> DEFINE row == Request(x.id)
               c == [x EXCEPT !.row = row, !.status = rollout[x.id],
                      !.version = IF x.wanted = None THEN row.source ELSE x.wanted,
                      !.alias = IF x.wanted = None THEN row.alias ELSE x.wanted = Alias]
    <3>1. sctx' = [sctx EXCEPT ![r] = c]
      BY <1>a, <1>2, <2>2, <2>4 DEF ReadRequest, PromoteContexts
    <3>2. row \in requests /\ row.by = x.id
      BY <2>2, <2>4 DEF Ids, Request
    <3>3. row \in RequestRows
      BY <1>a, <3>2
    <3>4. rollout[x.id] \in Rollouts
      BY <1>a, <3>2, <3>3 DEF RequestRows
    <3>5. row.source \in Versions /\ row.alias \in BOOLEAN
      BY <3>3 DEF RequestRows
    <3>6. c \in PromoteContexts /\ c.id = x.id /\ c.row = row
      <4> HIDE DEF row
      <4>1. QED
        BY <2>2, <3>3, <3>4, <3>5 DEF PromoteContexts
    <3>7. PromoteInv("source", c)
      <4> HIDE DEF c, row
      <4>1. QED
        BY <3>2, <3>6 DEF PromoteInv
    <3>8. QED
      <4> HIDE DEF c
      <4>1. QED
        BY <1>a, <1>c, <2>1, <3>1, <3>7 DEF PromoteSteps
  <2>5. QED
    BY <2>3, <2>4
<1>3. CASE ResolveSource(r)
  <2> DEFINE v == IF x.version = Alias THEN candidate ELSE x.version
             c == [x EXCEPT !.version = v]
  <2>1. spc[r] = "source" /\ UNCHANGED <<champion, candidate, store, review>>
    BY <1>3 DEF ResolveSource
  <2>2. CASE SEnd(r, "raised")
    BY <1>d, <2>1, <2>2
  <2>3. CASE v # None /\ SGoto(r, "find") /\ sctx' = [sctx EXCEPT ![r].version = v]
    <3>1. v \in Versions
      BY <1>a, <1>b, <2>1, <2>3 DEF PromoteContexts, PromoteSteps
    <3>2. c \in PromoteContexts /\ c.version = v /\ c.id = x.id /\ c.row = x.row
      BY <1>b, <2>1, <3>1 DEF PromoteContexts, PromoteSteps
    <3>3. PromoteInv("find", c)
      BY <1>b, <2>1, <3>1, <3>2 DEF PromoteInv, PromoteSteps
    <3>4. sctx' = [sctx EXCEPT ![r] = c]
      BY <2>3
    <3>5. QED
      BY <1>a, <1>c, <2>1, <2>3, <3>3, <3>4 DEF PromoteSteps
  <2>4. QED
    BY <1>3, <2>2, <2>3 DEF ResolveSource
<1>4. CASE FindApproved(r)
  <2>1. spc[r] = "find" /\ UNCHANGED <<champion, candidate, store, review>>
    BY <1>4 DEF FindApproved
  <2>2. CASE SEnd(r, "raised")
    BY <1>d, <2>1, <2>2
  <2>3. CASE SGoto(r, "validate") /\ UNCHANGED sctx
    <3>1. PromoteInv("validate", x) /\ sctx' = [sctx EXCEPT ![r] = x]
      BY <1>a, <1>b, <2>1, <2>3 DEF PromoteInv, PromoteSteps
    <3>2. QED
      BY <1>a, <1>c, <2>1, <2>3, <3>1 DEF PromoteSteps
  <2>4. ASSUME NEW q \in requests, SGoto(r, "validate"),
               sctx' = [sctx EXCEPT ![r].id = q.by, ![r].row = q, ![r].status = rollout[q.by]]
        PROVE  IInv'
    <3> DEFINE c == [x EXCEPT !.id = q.by, !.row = q, !.status = rollout[q.by]]
    <3>1. q \in RequestRows /\ q.by \in Scripts /\ rollout[q.by] \in Rollouts
      BY <1>a DEF RequestRows
    <3>2. /\ c \in PromoteContexts /\ c.version = x.version /\ c.id = q.by /\ c.row = q
      BY <1>b, <2>1, <3>1 DEF PromoteContexts, PromoteSteps
    <3>3. PromoteInv("validate", c)
      BY <1>b, <2>1, <3>2 DEF PromoteInv, PromoteSteps
    <3>4. sctx' = [sctx EXCEPT ![r] = c]
      BY <1>a, <1>b, <2>1, <2>4 DEF PromoteContexts, PromoteSteps
    <3>5. QED
      BY <1>a, <1>c, <2>1, <2>4, <3>3, <3>4 DEF PromoteSteps
  <2>5. QED
    BY <1>4, <2>2, <2>3, <2>4 DEF FindApproved, ApprovedOf
<1>5. CASE Validate(r)
  <2>1. spc[r] = "validate" /\ UNCHANGED <<champion, candidate, store, review>>
    BY <1>5 DEF Validate
  <2>2. CASE SEnd(r, "raised")
    BY <1>d, <2>1, <2>2
  <2>3. CASE ~(x.id # None /\ ~ValidRequest(x)) /\ SGoto(r, "set champion") /\ UNCHANGED sctx
    <3>1. PromoteInv("set champion", x) /\ sctx' = [sctx EXCEPT ![r] = x]
      BY <1>a, <1>b, <2>1, <2>3 DEF PromoteInv, PromoteSteps, ValidRequest
    <3>2. QED
      BY <1>a, <1>c, <2>1, <2>3, <3>1 DEF PromoteSteps
  <2>4. QED
    BY <1>5, <2>2, <2>3 DEF Validate
<1>6. CASE SetChampion(r)
  <2>1. PICK l \in {"look at source", "mark promoted"} : SGoto(r, l)
    BY <1>6 DEF SetChampion
  <2>2. /\ spc[r] = "set champion" /\ MoveChampion(x.version, sctx)
        /\ UNCHANGED <<candidate, store, review, evaluator>>
    BY <1>6 DEF SetChampion, SGoto
  <2>3. /\ x \in PromoteContexts /\ x.version \in Versions
        /\ (x.id # None => x.row \in requests /\ x.row.by = x.id)
    BY <1>b, <2>2 DEF PromoteInv, PromoteSteps
  <2>4. spc'[r] = l /\ spc' \in [Scripts -> PC] /\ (\A q \in Scripts : q # r => spc'[q] = spc[q])
    BY <1>a, <2>1 DEF SGoto, PC, PromoteSteps
  <2>5. sctx'[r] = x
    BY <2>2, <2>3, ChampionNoted DEF RecordSteps
  <2>6. TypeOK'
    BY <1>a, <2>2, <2>3, <2>4, ChampionNoted DEF TypeOK, evaluator
  <2>7. PromoteInv(spc[r], sctx[r])'
    BY <2>2, <2>3, <2>4, <2>5 DEF PromoteInv
  <2>8. ScriptInv(spc[r], sctx[r])'
    BY <2>4, <2>7 DEF ScriptInv, EndInv, RecordInv, CleanupInv, MarkInv, Ends, RecordSteps,
                      CleanupSteps, MarkSteps
  <2>9. \A q \in Scripts : q # r => Kept(q)
    BY <2>2, <2>3, <2>4, ChampionNoted
  <2>10. QED
    BY <2>2, <2>6, <2>8, <2>9, NoEvaluation
<1>7. CASE LookAtSource(r) \/ DeleteSource(r)
  <2>1. /\ spc[r] \in {"look at source", "delete source"} /\ UNCHANGED <<champion, store, review>>
        /\ candidate' \in Versions \cup {None} /\ sctx' = [sctx EXCEPT ![r] = x]
    BY <1>a, <1>7 DEF LookAtSource, DeleteSource
  <2>2. PICK l \in {"delete source", "mark promoted"} : SGoto(r, l)
    BY <1>7 DEF LookAtSource, DeleteSource
  <2>3. PromoteInv(l, x)
    BY <1>b, <2>1, <2>2 DEF PromoteInv, PromoteSteps
  <2>4. QED
    BY <1>c, <2>1, <2>2, <2>3 DEF PromoteSteps
<1>8. CASE MarkPromoted(r)
  <2>1. rollout' \in [Scripts -> Rollouts]
    BY <1>a, <1>8 DEF MarkPromoted, Rollouts
  <2>2. QED
    BY <1>a, <1>8, <2>1, ScriptEnds DEF MarkPromoted, SEnd, SGoto, Ends
<1>9. QED
  BY <1>1, <1>2, <1>3, <1>4, <1>5, <1>6, <1>7, <1>8 DEF Promote

-----------------------------------------------------------------------------
(* The theorems                                                            *)

LEMMA NextInv == IInv /\ [Next]_vars => IInv'
<1> SUFFICES ASSUME IInv, [Next]_vars PROVE IInv'
  OBVIOUS
<1>1. ASSUME NEW e \in Evaluations, Evaluate(e), UNCHANGED review PROVE IInv'
  <2>1. TypeOK' /\ EvaluationInv' /\ Grows
    BY <1>1, EvaluateType, EvaluateInv DEF IInv
  <2>2. UNCHANGED <<aliases, scripts, store>>
    BY <1>1 DEF Evaluate, EGoto, EEnd, StartEvaluation, ResolveCandidate, LoadCandidate,
                ResolveChampion, LoadChampion, LoadDecisions, StartRun, FinishRun, SetPointer,
                StopEvaluation
  <2>3. RequestInv'
    BY <2>1, <2>2, RequestsStay DEF IInv, store
  <2>4. \A q \in Scripts : Kept(q)
    BY <2>2 DEF Kept, scripts, aliases
  <2>5. \A q \in Scripts : ScriptInv(spc[q], sctx[q])'
    BY <2>1, <2>4, Undisturbed DEF IInv, TypeOK
  <2>6. QED
    BY <2>1, <2>3, <2>5 DEF IInv
<1>2. CASE UNCHANGED vars
  <2>1. UNCHANGED <<aliases, evaluator, spc, sctx, requests, rollout, review>>
    BY <1>2 DEF vars, scripts, store
  <2>2. TypeOK'
    BY <2>1 DEF IInv, TypeOK, aliases, evaluator
  <2>3. \A q \in Scripts : Kept(q)
    BY <2>1 DEF Kept, aliases
  <2>4. QED
    BY <2>1, <2>2, <2>3, NoEvaluation
<1>3. QED
  BY <1>1, <1>2, MoveAliasStep, RecordStep, StopStep, CleanupStep, PromoteStep, WithdrawStep
     DEF Next

\* The invariant holds: what a script has read of published evaluations stays true, every
\* request rests on a finished evaluation that passed, and every pointer on a finished one.
THEOREM InvariantHolds == Spec => []IInv
BY InitInv, NextInv, PTL DEF Spec

\* Only the record script inserts requests, and only one that it has validated.
LEMMA OnlyInserts ==
    ASSUME TypeOK, Next, NEW q \in NewRequests
    PROVE  \E r \in Scripts, approved \in BOOLEAN :
                /\ spc[r] = "insert" /\ Admissible(sctx[r])
                /\ q = DeploymentRequestRow(r, sctx[r], approved)
<1>1. requests' # requests
  BY DEF NewRequests
<1>2. PICK r \in Scripts : InsertRequest(r)
  <2>1. CASE MoveAlias
    BY <1>1, <2>1 DEF MoveAlias
  <2>2. CASE \E e \in Evaluations : Evaluate(e)
    BY <1>1, <2>2 DEF Evaluate, EGoto, EEnd, StartEvaluation, ResolveCandidate, LoadCandidate,
         ResolveChampion, LoadChampion, LoadDecisions, StartRun, FinishRun, SetPointer,
         StopEvaluation, store
  <2>3. ASSUME NEW r \in Scripts, Record(r) PROVE InsertRequest(r)
    BY <1>1, <2>3 DEF Record, StartRecorder, StartScript, LoadEvaluation, ResolveRequested,
                      ResolveCurrentChampion, ReadsOnly, store
  <2>4. ASSUME NEW r \in Scripts, StopScript(r) \/ Withdraw(r) PROVE FALSE
    BY <1>1, <2>4 DEF StopScript, Withdraw, StartMark, StartScript, ReadEligible,
                      MarkRolledBack, ReadsOnly, store
  <2>5. ASSUME NEW r \in Scripts, Cleanup(r) PROVE FALSE
    BY <1>1, <2>5 DEF Cleanup, StartCleanup, StartScript, LookUp, Judge, LookAgain, TagReview,
                      ClearAlias, ReadsOnly, store
  <2>6. ASSUME NEW r \in Scripts, Promote(r) PROVE FALSE
    BY <1>1, <2>6 DEF Promote, StartPromotion, StartScript, ReadRequest, ResolveSource,
                      FindApproved, Validate, SetChampion, LookAtSource, DeleteSource,
                      MarkPromoted, ReadsOnly, store
  <2>7. QED
    BY <2>1, <2>2, <2>3, <2>4, <2>5, <2>6 DEF Next
<1>3. Admissible(sctx[r])
  BY <1>1, <1>2 DEF InsertRequest, store
<1>4. PICK approved \in BOOLEAN :
            requests' = requests \cup {DeploymentRequestRow(r, sctx[r], approved)}
  BY <1>2, <1>3 DEF InsertRequest
<1>5. q = DeploymentRequestRow(r, sctx[r], approved)
  BY <1>4 DEF NewRequests
<1>6. QED
  BY <1>2, <1>3, <1>4, <1>5 DEF InsertRequest

\* A request rests on a finished evaluation that passed, of its version against the champion
\* that it goes back to, which was champion while the script ran (RequestsSound).
THEOREM RequestsRestOnEvaluations == Spec => RequestsSound
<1>1. ASSUME IInv, [Next]_vars, NEW q \in NewRequests
      PROVE  /\ Published(q.evaluation) /\ evaluation[q.evaluation].passed
             /\ evaluation[q.evaluation].candidate = q.source
             /\ evaluation[q.evaluation].champion = q.previous
             /\ q.previous \in sctx[q.by].champions
  <2>1. Next
    BY <1>1 DEF NewRequests, vars, store
  <2>2. PICK r \in Scripts, approved \in BOOLEAN :
                /\ spc[r] = "insert" /\ Admissible(sctx[r])
                /\ q = DeploymentRequestRow(r, sctx[r], approved)
    BY <1>1, <2>1, OnlyInserts DEF IInv
  <2>3. RecordInv("insert", sctx[r])
    BY <1>1, <2>2 DEF IInv, ScriptInv
  <2>4. QED
    BY <2>2, <2>3 DEF RecordInv, RecordSteps, Admissible, DeploymentRequestRow
<1>2. IInv /\ [Next]_vars =>
        [\A q \in NewRequests :
            /\ Published(q.evaluation) /\ evaluation[q.evaluation].passed
            /\ evaluation[q.evaluation].candidate = q.source
            /\ evaluation[q.evaluation].champion = q.previous
            /\ q.previous \in sctx[q.by].champions]_vars
  BY <1>1
<1>3. QED
  BY <1>2, InvariantHolds, PTL DEF Spec, RequestsSound

\* A later evaluation that was published before the script started counts
\* (NewestEvaluationCounts): the pointer is read after the start and only moves on.
THEOREM LaterFailureBlocks == Spec => NewestEvaluationCounts
<1>1. ASSUME IInv, [Next]_vars, NEW q \in NewRequests
      PROVE  sctx[q.by].before[q.source] # None => sctx[q.by].before[q.source] <= q.evaluation
  <2>1. Next
    BY <1>1 DEF NewRequests, vars, store
  <2>2. PICK r \in Scripts, approved \in BOOLEAN :
                /\ spc[r] = "insert" /\ Admissible(sctx[r])
                /\ q = DeploymentRequestRow(r, sctx[r], approved)
    BY <1>1, <2>1, OnlyInserts DEF IInv
  <2>3. MovedOn(sctx[r].before, sctx[r].version, sctx[r].tag)
    BY <1>1, <2>2 DEF IInv, ScriptInv, RecordInv, RecordSteps
  <2>4. q.by = r /\ q.source = sctx[r].version /\ q.evaluation = sctx[r].tag
    BY <2>2 DEF Admissible, DeploymentRequestRow
  <2>5. QED
    BY <2>3, <2>4 DEF MovedOn
<1>2. IInv /\ [Next]_vars =>
        [\A q \in NewRequests :
            LET before == sctx[q.by].before[q.source]
            IN  before # None => before <= q.evaluation]_vars
  BY <1>1
<1>3. QED
  BY <1>2, InvariantHolds, PTL DEF Spec, NewestEvaluationCounts

\* Only the cleanup marks a version, the one it has judged.
LEMMA OnlyTags ==
    ASSUME TypeOK, Next, review' # review
    PROVE  \E r \in Scripts : TagReview(r)
<1>1. ASSUME NEW r \in Scripts, Cleanup(r) PROVE TagReview(r)
  BY <1>1 DEF Cleanup, StartCleanup, LookUp, Judge, LookAgain, ClearAlias
<1>2. ASSUME NEW r \in Scripts, Promote(r) \/ Withdraw(r) PROVE FALSE
  BY <1>2 DEF Promote, StartPromotion, ReadRequest, ResolveSource, FindApproved, Validate,
              SetChampion, LookAtSource, DeleteSource, MarkPromoted,
              Withdraw, StartMark, ReadEligible, MarkRolledBack
<1>3. QED
  BY <1>1, <1>2 DEF Next

\* A version is marked only for a failure of its own, and not for one that was replaced
\* before the cleanup started (RejectionsEarned).
THEOREM RejectionsRestOnEvaluations == Spec => RejectionsEarned
<1> DEFINE Earned(v) ==
        \E e \in Evaluations :
            /\ Published(e) /\ evaluation[e].candidate = v /\ ~evaluation[e].passed
            /\ \A r \in Scripts :
                spc[r] = "tag" /\ spc'[r] = "clear" /\ sctx[r].before[v] # None
                    => sctx[r].before[v] <= e
<1>1. ASSUME IInv, [Next]_vars, NEW v \in Versions, review'[v] # review[v]
      PROVE  Earned(v)
  <2>1. PICK r \in Scripts : TagReview(r)
    BY <1>1, OnlyTags DEF IInv, vars
  <2>2. CleanupInv("tag", sctx[r])
    BY <1>1, <2>1 DEF IInv, ScriptInv, TagReview
  <2>3. v = sctx[r].version
    BY <1>1, <2>1 DEF IInv, TypeOK, TagReview
  <2> DEFINE e == sctx[r].tag
  <2>4. /\ e \in Evaluations /\ Published(e)
        /\ evaluation[e].candidate = v /\ ~evaluation[e].passed
        /\ MovedOn(sctx[r].before, v, e)
    BY <2>2, <2>3 DEF CleanupInv, CleanupSteps, Rejected
  <2>5. \A q \in Scripts : spc[q] = "tag" /\ spc'[q] = "clear" => q = r
    BY <1>1, <2>1 DEF IInv, TypeOK, TagReview, SGoto
  <2>6. QED
    BY <2>4, <2>5 DEF MovedOn
<1>2. IInv /\ [Next]_vars => [\A v \in Versions : review'[v] # review[v] => Earned(v)]_vars
  BY <1>1
<1>3. QED
  BY <1>2, InvariantHolds, PTL DEF Spec, RejectionsEarned

\* A script at this call of the promotion moves champion to its version or is stopped.
LEMMA OnlySets ==
    ASSUME TypeOK, Next, NEW r \in Scripts, spc[r] = "set champion", spc'[r] # spc[r],
           champion' # champion
    PROVE  champion' = sctx[r].version
<1>1. ASSUME NEW q \in Scripts, Promote(q) PROVE champion' = sctx[r].version
  <2>1. SetChampion(q)
    BY <1>1 DEF Promote, StartPromotion, StartScript, ReadRequest, ResolveSource, FindApproved,
                Validate, LookAtSource, DeleteSource, MarkPromoted, ReadsOnly
  <2>2. q = r
    BY <2>1 DEF SetChampion, SGoto, TypeOK
  <2>3. QED
    BY <2>1, <2>2 DEF SetChampion, MoveChampion
<1>2. ASSUME NEW q \in Scripts, Record(q) \/ StopScript(q) \/ Cleanup(q) \/ Withdraw(q)
      PROVE  champion' = champion
  BY <1>2 DEF Record, StartRecorder, StartScript, LoadEvaluation, ResolveRequested,
              ResolveCurrentChampion, InsertRequest, ReadsOnly, StopScript, aliases,
              Cleanup, StartCleanup, LookUp, Judge, LookAgain, TagReview, ClearAlias,
              Withdraw, StartMark, ReadEligible, MarkRolledBack
<1>3. ASSUME NEW e \in Evaluations, Evaluate(e) PROVE champion' = champion
  BY <1>3 DEF Evaluate, EGoto, EEnd, StartEvaluation, ResolveCandidate, LoadCandidate,
              ResolveChampion, LoadChampion, LoadDecisions, StartRun, FinishRun, SetPointer,
              StopEvaluation, aliases
<1>4. CASE MoveAlias
  BY <1>4 DEF MoveAlias
<1>5. QED
  BY <1>1, <1>2, <1>3, <1>4 DEF Next

\* A promotion with a request moves champion to the version of a request that is approved and
\* whose evaluation passed (PromotionsApproved).
THEOREM PromotionsRestOnApproval == Spec => PromotionsApproved
<1> DEFINE Approved(r) ==
        \E q \in requests :
            /\ q.by = sctx[r].id /\ q.approved /\ q.source = champion'
            /\ Published(q.evaluation) /\ evaluation[q.evaluation].passed
<1>1. ASSUME IInv, [Next]_vars, NEW r \in Scripts,
             spc[r] = "set champion", spc'[r] # spc[r], champion' # champion, sctx[r].id # None
      PROVE  Approved(r)
  <2>1. champion' = sctx[r].version
    BY <1>1, OnlySets DEF IInv, vars, scripts
  <2>2. PromoteInv("set champion", sctx[r])
    BY <1>1 DEF IInv, ScriptInv
  <2> DEFINE q == sctx[r].row
  <2>3. /\ q \in requests /\ q.by = sctx[r].id /\ q.approved /\ q.source = sctx[r].version
    BY <1>1, <2>2 DEF PromoteInv, PromoteSteps
  <2>4. Published(q.evaluation) /\ evaluation[q.evaluation].passed
    BY <1>1, <2>3 DEF IInv, RequestInv
  <2>5. QED
    BY <2>1, <2>3, <2>4
<1>2. IInv /\ [Next]_vars =>
        [\A r \in Scripts :
            spc[r] = "set champion" /\ spc'[r] # spc[r] /\ champion' # champion
                /\ sctx[r].id # None => Approved(r)]_vars
  BY <1>1
<1>3. QED
  BY <1>2, InvariantHolds, PTL DEF Spec, PromotionsApproved

-----------------------------------------------------------------------------
(* The verdict of the gate                                                 *)

LateSteps == {"start run", "finish run", "point"}

\* What is true of a run of the gate that is at l with the context x and its run in MLflow: a
\* model that is loaded is the one of the version that the run names.
PinnedInv(l, x, run) ==
    /\ l \in {"champion", "load champion", "decisions"} \cup LateSteps =>
            x.candidateModel = x.candidate
    /\ l \in {"decisions"} \cup LateSteps => x.championModel = x.champion
    /\ l \in LateSteps => ~Unusable(Rows[x.dataset])
    /\ l = "finish run" =>
            run.dataset = x.dataset /\ run.candidate = x.candidate /\ run.champion = x.champion
    /\ run # None /\ run.status = "FINISHED" =>
            LET rows == Selected(Rows[run.dataset])
            IN  /\ ~Unusable(Rows[run.dataset])
                /\ run.passed =
                        Passes(Metrics(run.candidate, rows), Metrics(run.champion, rows))

VerdictInv == \A e \in Evaluations : PinnedInv(epc[e], ectx[e], evaluation[e])

\* A step of a run of the gate keeps its models, its versions and its verdict together.
LEMMA EvaluatePinned ==
    ASSUME TypeOK, EvaluationInv, NEW e \in Evaluations, Evaluate(e),
           PinnedInv(epc[e], ectx[e], evaluation[e])
    PROVE  PinnedInv(epc[e], ectx[e], evaluation[e])'
<1> DEFINE x == ectx[e]
           run == evaluation[e]
<1>a. /\ epc \in [Evaluations -> ESteps \cup Ends] /\ ectx \in [Evaluations -> EContexts \cup {None}]
      /\ evaluation \in [Evaluations -> Runs \cup {None}]
      /\ epc[e] \in ESteps => x \in EContexts
  BY DEF TypeOK
<1>b. /\ epc[e] \in ({"idle"} \cup ESteps) \ {"finish run", "point"} => run = None
      /\ epc[e] = "finish run" => run \in Runs /\ run.status = "RUNNING"
  BY DEF EvaluationInv
<1> USE <1>a, <1>b DEF EGoto, EEnd, PinnedInv, LateSteps, ESteps
<1>1. CASE StartEvaluation(e)
  BY <1>1 DEF StartEvaluation
<1>2. CASE ResolveCandidate(e)
  BY <1>2 DEF ResolveCandidate
<1>3. CASE LoadCandidate(e)
  BY <1>3 DEF LoadCandidate, EContexts
<1>4. CASE ResolveChampion(e)
  BY <1>4 DEF ResolveChampion, EContexts
<1>5. CASE LoadChampion(e)
  <2>1. epc[e] = "load champion" /\ evaluation' = evaluation
    BY <1>5 DEF LoadChampion
  <2>2. CASE EEnd(e, "raised")
    BY <2>1, <2>2
  <2>3. CASE EGoto(e, "decisions") /\ ectx' = [ectx EXCEPT ![e].championModel = ectx[e].champion]
    <3>1. ectx'[e] = [x EXCEPT !.championModel = x.champion] /\ x \in EContexts
      BY <2>1, <2>3
    <3>2. /\ ectx'[e].candidate = x.candidate /\ ectx'[e].candidateModel = x.candidateModel
          /\ ectx'[e].champion = x.champion /\ ectx'[e].championModel = x.champion
      BY <3>1 DEF EContexts
    <3>3. QED
      BY <2>1, <2>3, <3>2
  <2>4. QED
    BY <1>5, <2>2, <2>3 DEF LoadChampion
<1>6. CASE LoadDecisions(e)
  BY <1>6 DEF LoadDecisions
<1>7. CASE StartRun(e)
  <2> DEFINE new == [status |-> "RUNNING", passed |-> FALSE, dataset |-> x.dataset,
                     candidate |-> x.candidate, champion |-> x.champion]
  <2>1. epc'[e] = "finish run" /\ ectx'[e] = x /\ evaluation'[e] = new
    BY <1>7 DEF StartRun
  <2>2. /\ new.status = "RUNNING" /\ new.dataset = x.dataset
        /\ new.candidate = x.candidate /\ new.champion = x.champion
    OBVIOUS
  <2>3. /\ x.candidateModel = x.candidate /\ x.championModel = x.champion
        /\ ~Unusable(Rows[x.dataset])
    BY <1>7 DEF StartRun
  <2> HIDE DEF new
  <2>4. PinnedInv("finish run", x, new)
    BY <2>2, <2>3
  <2>5. QED
    BY <2>1, <2>4
<1>8. CASE FinishRun(e)
  <2>1. epc'[e] = "point" /\ ectx'[e] = x
    BY <1>8 DEF FinishRun
  <2>2. /\ epc[e] = "finish run" /\ run \in Runs
        /\ evaluation'[e] = [run EXCEPT !.status = "FINISHED", !.passed = Verdict(x)]
    BY <1>8 DEF FinishRun
  <2>3. /\ evaluation'[e].dataset = x.dataset /\ evaluation'[e].candidate = x.candidateModel
        /\ evaluation'[e].champion = x.championModel /\ evaluation'[e].passed = Verdict(x)
    BY <2>2 DEF Runs
  <2>4. x.candidateModel = x.candidate /\ x.championModel = x.champion
        /\ ~Unusable(Rows[x.dataset])
    BY <2>2
  <2>5. QED
    BY <2>1, <2>3, <2>4 DEF Verdict
<1>9. CASE SetPointer(e)
  BY <1>9 DEF SetPointer, Ends
<1>10. CASE StopEvaluation(e)
  <2>1. PICK l \in {"raised", "killed"} :
            /\ epc' = [epc EXCEPT ![e] = l]
            /\ evaluation' = IF epc[e] = "finish run" /\ l = "raised"
                             THEN [evaluation EXCEPT ![e].status = "FAILED"]
                             ELSE evaluation
    BY <1>10 DEF StopEvaluation
  <2>2. CASE epc[e] = "finish run" /\ l = "raised"
    <3>1. evaluation'[e] = [run EXCEPT !.status = "FAILED"]
      BY <2>1, <2>2
    <3>2. evaluation'[e].status = "FAILED"
      BY <2>2, <3>1 DEF Runs
    <3>3. QED
      BY <2>1, <2>2, <3>2
  <2>3. CASE ~(epc[e] = "finish run" /\ l = "raised")
    BY <2>1, <2>3
  <2>4. QED
    BY <2>2, <2>3
<1>11. QED
  BY <1>1, <1>2, <1>3, <1>4, <1>5, <1>6, <1>7, <1>8, <1>9, <1>10 DEF Evaluate

\* A run of the gate leaves the others alone.
LEMMA EvaluateAlone ==
    ASSUME TypeOK, NEW e \in Evaluations, Evaluate(e), NEW f \in Evaluations, f # e
    PROVE  epc'[f] = epc[f] /\ ectx'[f] = ectx[f] /\ evaluation'[f] = evaluation[f]
BY DEF TypeOK, Evaluate, EGoto, EEnd, StartEvaluation, ResolveCandidate, LoadCandidate,
       ResolveChampion, LoadChampion, LoadDecisions, StartRun, FinishRun, SetPointer,
       StopEvaluation

\* Nothing else touches a run of the gate.
LEMMA OnlyEvaluates ==
    ASSUME Next \/ UNCHANGED vars
    PROVE  UNCHANGED evaluator \/ \E e \in Evaluations : Evaluate(e)
<1>1. CASE MoveAlias
  BY <1>1 DEF MoveAlias
<1>2. ASSUME NEW r \in Scripts, Record(r) \/ StopScript(r) PROVE UNCHANGED evaluator
  BY <1>2 DEF Record, StartRecorder, StartScript, LoadEvaluation, ResolveRequested,
              ResolveCurrentChampion, InsertRequest, StopScript, SGoto, SEnd
<1>3. ASSUME NEW r \in Scripts, Cleanup(r) \/ Withdraw(r) PROVE UNCHANGED evaluator
  BY <1>3 DEF Cleanup, StartCleanup, StartScript, LookUp, Judge, LookAgain, TagReview,
              ClearAlias, Withdraw, StartMark, ReadEligible, MarkRolledBack, SGoto, SEnd
<1>4. ASSUME NEW r \in Scripts, Promote(r) PROVE UNCHANGED evaluator
  BY <1>4 DEF Promote, StartPromotion, StartScript, ReadRequest, ResolveSource, FindApproved,
              Validate, SetChampion, LookAtSource, DeleteSource, MarkPromoted, SGoto, SEnd
<1>5. QED
  BY <1>1, <1>2, <1>3, <1>4 DEF Next, vars

\* With the invariant, every step keeps the verdicts.
LEMMA NextVerdict == IInv /\ VerdictInv /\ [Next]_vars => VerdictInv'
<1> SUFFICES ASSUME IInv, VerdictInv, [Next]_vars PROVE VerdictInv'
  OBVIOUS
<1>1. CASE UNCHANGED evaluator
  BY <1>1 DEF VerdictInv, PinnedInv, evaluator
<1>2. ASSUME NEW e \in Evaluations, Evaluate(e), NEW f \in Evaluations
      PROVE  PinnedInv(epc[f], ectx[f], evaluation[f])'
  <2>1. CASE f = e
    BY <1>2, <2>1, EvaluatePinned DEF IInv, VerdictInv
  <2>2. CASE f # e
    BY <1>2, <2>2, EvaluateAlone DEF IInv, VerdictInv, PinnedInv
  <2>3. QED
    BY <2>1, <2>2
<1>3. QED
  BY <1>1, <1>2, OnlyEvaluates DEF VerdictInv

-----------------------------------------------------------------------------
(* The selection of the gate                                               *)

\* How many of the decisions are newer.
Rank(S, d) == Cardinality({f \in S : Newer(f, d)})

\* Newer orders the labelled decisions of a dataset, as no two of them have the same id.
LEMMA NewerOrders ==
    ASSUME NEW s \in Datasets
    PROVE  LET S == Labeled(Rows[s])
           IN  /\ IsFiniteSet(S)
               /\ \A d \in S : ~Newer(d, d)
               /\ \A d, f \in S : d = f \/ Newer(d, f) \/ Newer(f, d)
               /\ \A d, f, g \in S : Newer(d, f) /\ Newer(f, g) => Newer(d, g)
<1> DEFINE S == Labeled(Rows[s])
<1>1. S \subseteq Rows[s] /\ IsFiniteSet(S)
  BY RowsAssumption, FS_Subset DEF Labeled
<1>2. \A d \in S : d.id \in Int /\ d.at \in Int
  BY <1>1, RowsAssumption
<1>3. \A d, f \in S : d.id = f.id => d = f
  BY <1>1, RowsAssumption
<1> HIDE DEF S
<1>4. \A d \in S : ~Newer(d, d)
  BY <1>2 DEF Newer
<1>5. \A d, f \in S : d = f \/ Newer(d, f) \/ Newer(f, d)
  BY <1>2, <1>3 DEF Newer
<1>6. \A d, f, g \in S : Newer(d, f) /\ Newer(f, g) => Newer(d, g)
  BY <1>2 DEF Newer
<1>7. QED
  BY <1>1, <1>4, <1>5, <1>6 DEF S

\* A newer decision has a smaller rank.
LEMMA RankOrders ==
    ASSUME NEW s \in Datasets
    PROVE  LET S == Labeled(Rows[s])
           IN  /\ \A d \in S : Rank(S, d) \in 0 .. Cardinality(S) - 1
               /\ \A d, f \in S : Newer(d, f) => Rank(S, d) < Rank(S, f)
<1> DEFINE S == Labeled(Rows[s])
           Above(d) == {f \in S : Newer(f, d)}
<1>1. /\ IsFiniteSet(S)
      /\ \A d \in S : ~Newer(d, d)
      /\ \A d, f, g \in S : Newer(d, f) /\ Newer(f, g) => Newer(d, g)
  BY NewerOrders
<1> HIDE DEF S
<1>2. ASSUME NEW T, NEW U, T \subseteq U, U \subseteq S, NEW d \in U \ T
      PROVE  Cardinality(T) \in Nat /\ Cardinality(T) < Cardinality(U) /\ Cardinality(U) \in Nat
  <2>1. IsFiniteSet(U) /\ IsFiniteSet(T)
    BY <1>1, <1>2, FS_Subset
  <2>2. Cardinality(T) <= Cardinality(U) /\ Cardinality(U) # Cardinality(T)
    BY <1>2, <2>1, FS_Subset
  <2>3. QED
    BY <2>1, <2>2, FS_CardinalityType
<1>3. \A d \in S : Rank(S, d) \in 0 .. Cardinality(S) - 1
  <2> SUFFICES ASSUME NEW d \in S PROVE Rank(S, d) \in 0 .. Cardinality(S) - 1
    OBVIOUS
  <2>1. Above(d) \subseteq S /\ d \in S \ Above(d)
    BY <1>1
  <2>2. /\ Cardinality(Above(d)) \in Nat /\ Cardinality(S) \in Nat
        /\ Cardinality(Above(d)) < Cardinality(S)
    BY <1>2, <2>1
  <2>3. QED
    BY <2>2 DEF Rank
<1>4. \A d, f \in S : Newer(d, f) => Rank(S, d) < Rank(S, f)
  <2> SUFFICES ASSUME NEW d \in S, NEW f \in S, Newer(d, f) PROVE Rank(S, d) < Rank(S, f)
    OBVIOUS
  <2>1. Above(d) \subseteq Above(f) /\ Above(f) \subseteq S /\ d \in Above(f) \ Above(d)
    BY <1>1
  <2>2. QED
    BY <1>2, <2>1 DEF Rank
<1>5. QED
  BY <1>3, <1>4 DEF S

\* When there are enough decisions, Limit of them are the newest, and newer than the others.
LEMMA NewestCount ==
    ASSUME NEW s \in Datasets, ~(Cardinality(Labeled(Rows[s])) < Limit)
    PROVE  LET S == Labeled(Rows[s])
               N == Newest(Rows[s])
           IN  /\ Cardinality(N) = Limit
               /\ \A d \in N, f \in S \ N : Newer(d, f)
<1> DEFINE S == Labeled(Rows[s])
           N == Newest(Rows[s])
           n == Cardinality(S)
           rank == [d \in S |-> Rank(S, d)]
<1>1. IsFiniteSet(S) /\ n \in Nat /\ Limit \in Nat \ {0} /\ Limit <= n
  BY NewerOrders, FS_CardinalityType, LimitAssumption
<1>2. /\ \A d \in S : Rank(S, d) \in 0 .. n - 1
      /\ \A d, f \in S : Newer(d, f) => Rank(S, d) < Rank(S, f)
  BY RankOrders
<1>3. \A d, f \in S : d = f \/ Newer(d, f) \/ Newer(f, d)
  BY NewerOrders
<1>4. N = {d \in S : Rank(S, d) < Limit}
  BY DEF Newest, Rank
<1> HIDE DEF S, N
<1>5. rank \in Injection(S, 0 .. n - 1)
  BY <1>2, <1>3 DEF Injection, IsInjective
<1>6. IsFiniteSet(0 .. n - 1) /\ Cardinality(0 .. n - 1) = n
  <2>1. 0 \in Int /\ n - 1 \in Int /\ ~(0 > n - 1) /\ (n - 1) - 0 + 1 = n
    BY <1>1
  <2>2. QED
    BY <2>1, FS_Interval
<1>7. rank \in Surjection(S, 0 .. n - 1)
  <2> DEFINE T == 0 .. n - 1
  <2>1. rank \in Injection(S, T) /\ IsFiniteSet(T) /\ Cardinality(S) = Cardinality(T)
    BY <1>5, <1>6
  <2> HIDE DEF rank, T
  <2>2. rank \in Surjection(S, T)
    BY <2>1, FS_Injection
  <2>3. QED
    BY <2>2 DEF T
<1>8. Cardinality(N) = Limit
  <2> DEFINE first == [d \in N |-> Rank(S, d)]
  <2>1. first \in Injection(N, 0 .. Limit - 1)
    <3>1. \A d \in N : d \in S /\ Rank(S, d) \in 0 .. Limit - 1
      BY <1>1, <1>2, <1>4
    <3>2. \A d, f \in N : Rank(S, d) = Rank(S, f) => d = f
      BY <1>2, <1>3, <3>1
    <3>3. QED
      BY <3>1, <3>2 DEF Injection, IsInjective
  <2>2. \A k \in 0 .. Limit - 1 : \E d \in N : first[d] = k
    <3> SUFFICES ASSUME NEW k \in 0 .. Limit - 1 PROVE \E d \in N : first[d] = k
      OBVIOUS
    <3>1. k \in 0 .. n - 1
      BY <1>1
    <3>2. PICK d \in S : rank[d] = k
      BY <1>7, <3>1 DEF Surjection
    <3>3. Rank(S, d) = k /\ k < Limit
      BY <1>1, <3>2
    <3>4. d \in N
      BY <1>4, <3>3
    <3>5. QED
      BY <3>3, <3>4
  <2>3. first \in Surjection(N, 0 .. Limit - 1)
    BY <2>1, <2>2 DEF Surjection, Injection
  <2>4. ExistsBijection(N, 0 .. Limit - 1)
    BY <2>1, <2>3 DEF ExistsBijection, Bijection
  <2>5. IsFiniteSet(N)
    BY <1>1, <1>4, FS_Subset
  <2>6. Cardinality(0 .. Limit - 1) = Cardinality(N)
    BY <2>4, <2>5, FS_Bijection
  <2>7. QED
    BY <1>1, <2>6, FS_Interval
<1>9. \A d \in N, f \in S \ N : Newer(d, f)
  BY <1>1, <1>2, <1>3, <1>4
<1>10. QED
  BY <1>8, <1>9 DEF S, N

\* What the sort and the cut leave are the newest decisions, whatever the sort.
LEMMA SelectedAreNewest ==
    ASSUME NEW s \in Datasets, ~(Cardinality(Labeled(Rows[s])) < Limit)
    PROVE  Selected(Rows[s]) = Newest(Rows[s]) /\ Cardinality(Newest(Rows[s])) = Limit
<1> DEFINE S == Labeled(Rows[s])
           N == Newest(Rows[s])
           Cut(T) == Cardinality(T) = Limit /\ \A d \in T, f \in S \ T : Newer(d, f)
<1>1. N \in SUBSET S /\ Cut(N)
  BY NewestCount DEF Newest
<1>2. ASSUME NEW T \in SUBSET S, Cut(T) PROVE T = N
  <2>1. /\ IsFiniteSet(S)
        /\ \A d \in S : ~Newer(d, d)
        /\ \A d, f, g \in S : Newer(d, f) /\ Newer(f, g) => Newer(d, g)
    BY NewerOrders
  <2>2. N = {d \in S : Rank(S, d) < Limit} /\ Limit \in Nat \ {0}
    BY LimitAssumption DEF Newest, Rank
  <2>3. Cardinality(T) = Limit /\ Cardinality(N) = Limit
    BY <1>1, <1>2
  <2>4. \A d \in T, f \in S \ T : Newer(d, f)
    BY <1>2
  <2> HIDE DEF S, N
  <2>5. ASSUME NEW d \in T PROVE d \in N
    <3> DEFINE Above == {f \in S : Newer(f, d)}
    <3>1. Above \in SUBSET (T \ {d})
      BY <2>1, <2>4
    <3>2. IsFiniteSet(T) /\ IsFiniteSet(T \ {d}) /\ Cardinality(T \ {d}) = Limit - 1
      BY <2>1, <2>3, FS_Subset, FS_RemoveElement
    <3> HIDE DEF Above
    <3>3. Cardinality(Above) <= Limit - 1 /\ Cardinality(Above) \in Nat
      BY <3>1, <3>2, FS_Subset, FS_CardinalityType
    <3>4. Rank(S, d) < Limit
      BY <2>2, <3>3 DEF Rank, Above
    <3>5. QED
      BY <2>2, <3>4
  <2>6. IsFiniteSet(N) /\ T \in SUBSET N
    BY <2>1, <2>2, <2>5, FS_Subset
  <2>7. QED
    BY <2>3, <2>6, FS_Subset
<1>3. Selected(Rows[s]) = CHOOSE T \in SUBSET S : Cut(T)
  BY DEF Selected
<1> HIDE DEF S, N, Cut
<1>4. (CHOOSE T \in SUBSET S : Cut(T)) = N
  BY <1>1, <1>2
<1>5. QED
  BY <1>1, <1>3, <1>4 DEF N, Cut

\* A finished evaluation says of the versions it names what the gate says of them on the
\* newest labelled decisions of the dataset it names (VerdictIsTrue): the models are loaded by
\* the versions that the aliases were resolved to.
THEOREM VerdictsAreTrue == Spec => []VerdictIsTrue
<1>1. ReviewStarts => VerdictInv
  BY DEF ReviewStarts, Init, VerdictInv, PinnedInv, LateSteps
<1>2. IInv /\ VerdictInv => VerdictIsTrue
  <2> SUFFICES ASSUME IInv, VerdictInv, NEW e \in Evaluations, Published(e)
               PROVE  LET run  == evaluation[e]
                          rows == Newest(Rows[run.dataset])
                      IN  /\ run.passed = Passes(Metrics(run.candidate, rows),
                                                 Metrics(run.champion, rows))
                          /\ Cardinality(rows) = Limit
                          /\ \E d, f \in rows : d.label = "fail" /\ f.label = "pass"
    BY DEF VerdictIsTrue
  <2> DEFINE run == evaluation[e]
             rows == Newest(Rows[run.dataset])
  <2>1. run.dataset \in Datasets
    BY DEF IInv, TypeOK, Published, Runs
  <2>2. PinnedInv(epc[e], ectx[e], run)
    BY DEF VerdictInv
  <2>3. ~Unusable(Rows[run.dataset])
    BY <2>2 DEF Published, PinnedInv
  <2>4. Selected(Rows[run.dataset]) = rows /\ Cardinality(rows) = Limit
    BY <2>1, <2>3, SelectedAreNewest DEF Unusable
  <2>5. run.passed = Passes(Metrics(run.candidate, rows), Metrics(run.champion, rows))
    BY <2>2, <2>4 DEF Published, PinnedInv
  <2>6. \E d, f \in rows : d.label = "fail" /\ f.label = "pass"
    <3>1. /\ ~(Cardinality(WithLabel(rows, "fail")) < MinFail)
          /\ ~(Cardinality(WithLabel(rows, "pass")) < MinPass)
      BY <2>3, <2>4 DEF Unusable
    <3>2. WithLabel(rows, "fail") # {} /\ WithLabel(rows, "pass") # {}
      BY <3>1, LimitAssumption, FS_EmptySet
    <3>3. QED
      BY <3>2 DEF WithLabel
  <2>7. QED
    BY <2>4, <2>5, <2>6
<1>3. QED
  BY <1>1, <1>2, InvariantHolds, NextVerdict, PTL DEF Spec
=============================================================================
