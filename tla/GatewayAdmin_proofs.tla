-------------------------- MODULE GatewayAdmin_proofs -------------------------
(***************************************************************************)
(* Proofs about GatewayAdmin, for any number of requests, any set of       *)
(* policies and any number of upsets.                                      *)
(*                                                                         *)
(* HandlerInv says what the handler that has the lock relies on, and       *)
(* FileInv what the file and nginx have in common while nothing has been   *)
(* upset.  TypeOK needs the first: what is written to the file is what the *)
(* handler asked for or has read.                                          *)
(***************************************************************************)
EXTENDS GatewayAdmin, TLAPS

PolicyPC == {"replace", "test", "reload", "restore", "rewrite"}
Changed == {"test", "reload", "restore", "rewrite"}

\* The handler of a policy asks for a prepared one and knows the text it replaces.
HandlerInv ==
    /\ LockInv
    /\ \A r \in Requests :
        /\ pc[r] # "done" => answer[r] = "none"
        /\ pc[r] \in PolicyPC => wanted[r] \in Policies /\ previous \in Texts
        /\ pc[r] \in {"test file", "signal"} => wanted[r] = None
        /\ pc[r] = "replace" => file = previous
        /\ pc[r] \in {"test", "reload", "restore"} => file = wanted[r]
        /\ pc[r] = "rewrite" => file = Torn

\* The text to go back to is the one that nginx runs, or has been told to.
FileInv ==
    upsets = 0 =>
        /\ InForce # Torn
        /\ ~signalled => loaded = InForce

IInv == TypeOK /\ HandlerInv /\ FileInv

\* None of the marks for other texts is a policy.
LEMMA PolicyFacts ==
    /\ Policies \subseteq Texts /\ Torn \notin Policies /\ None \notin Policies
    /\ None \notin Texts /\ Torn # Custom /\ None \notin Requests
    /\ Custom \notin Policies
BY PolicyAssumption DEF Policies, Texts

\* The holder is the only handler that can be in the middle of a change.
LEMMA ChangingHolder ==
    ASSUME LockInv, NEW r \in Requests, holder = r
    PROVE  Changing <=> pc[r] \in Changed
BY DEF Changing, Changed

LEMMA NotChanging ==
    ASSUME holder = None
    PROVE  ~Changing
BY PolicyFacts DEF Changing

LEMMA InitInv == Init => IInv
<1> SUFFICES ASSUME Init PROVE IInv
  OBVIOUS
<1> USE PolicyFacts DEF Init
<1>1. TypeOK
  <2>1. file \in Texts \ {Torn}
    BY DEF Texts
  <2>2. pc \in [Requests -> PC] /\ answer \in [Requests -> Answers]
    BY DEF PC, Answers
  <2>3. upsets \in 0 .. MaxUpsets
    BY UpsetsAssumption
  <2>4. QED
    BY <2>1, <2>2, <2>3 DEF TypeOK
<1>2. HandlerInv
  BY DEF HandlerInv, LockInv, PolicyPC
<1>3. FileInv
  BY NotChanging DEF FileInv, InForce
<1>4. QED
  BY <1>1, <1>2, <1>3 DEF IInv

-----------------------------------------------------------------------------
(* Types                                                                   *)

\* The number of upsets stays within its bound.
LEMMA UpsetType == TypeOK /\ MayUpset => upsets' \in 0 .. MaxUpsets /\ upsets' # 0
BY UpsetsAssumption DEF TypeOK, MayUpset

LEMMA TypeStep == TypeOK /\ HandlerInv /\ [Next]_vars => TypeOK'
<1> SUFFICES ASSUME TypeOK, HandlerInv, [Next]_vars PROVE TypeOK'
  OBVIOUS
<1> USE PolicyFacts DEF TypeOK
<1>1. ASSUME NEW r \in Requests, Arrive(r) PROVE TypeOK'
  <2>1. CASE RefusePolicy(r)
    BY <2>1 DEF RefusePolicy, Answer, PC, Answers, Refusals
  <2>2. CASE TakeLock(r)
    BY <2>2 DEF TakeLock, PC
  <2>3. CASE ReloadRequest(r)
    BY <2>3 DEF ReloadRequest, Answer, PC, Answers, Refusals
  <2>4. QED
    BY <1>1, <2>1, <2>2, <2>3 DEF Arrive
<1>2. ASSUME NEW r \in Requests, Handler(r) PROVE TypeOK'
  <2> USE DEF Goto, Release, Answer, PC, Answers, Refusals
  <2>1. CASE Replace(r)
    BY <2>1 DEF Replace, HandlerInv, PolicyPC
  <2>2. CASE Test(r)
    BY <2>2 DEF Test
  <2>3. CASE SignalReload(r)
    BY <2>3 DEF SignalReload
  <2>4. CASE Truncate(r)
    BY <2>4 DEF Truncate, Texts
  <2>5. CASE Rewrite(r)
    BY <2>5 DEF Rewrite, HandlerInv, PolicyPC
  <2>6. CASE TestFile(r)
    BY <2>6 DEF TestFile
  <2>7. CASE SignalFile(r)
    BY <2>7 DEF SignalFile
  <2>8. QED
    BY <1>2, <2>1, <2>2, <2>3, <2>4, <2>5, <2>6, <2>7 DEF Handler
<1>3. ASSUME NEW r \in Requests, Raises(r) PROVE TypeOK'
  <2>1. upsets' \in 0 .. MaxUpsets
    BY <1>3, UpsetType DEF Raises
  <2>2. QED
    BY <1>3, <2>1 DEF Raises, Release, Answer, PC, Answers
<1>4. CASE LoadFile
  BY <1>4 DEF LoadFile
<1>5. CASE LoadEarly
  <2>1. upsets' \in 0 .. MaxUpsets
    BY <1>5, UpsetType DEF LoadEarly
  <2>2. QED
    BY <1>5, <2>1 DEF LoadEarly
<1>6. CASE LoadFails
  <2>1. upsets' \in 0 .. MaxUpsets
    BY <1>6, UpsetType DEF LoadFails
  <2>2. QED
    BY <1>6, <2>1 DEF LoadFails
<1>7. CASE AdminDies \/ ContainerStarts
  <2>1. file' \in Texts /\ loaded' \in Texts \ {Torn} /\ signalled' \in BOOLEAN
    BY <1>7, PolicyAssumption DEF AdminDies, ContainerStarts
  <2>2. /\ pc' = [r \in Requests |-> IF pc[r] = "idle" THEN "idle" ELSE "done"]
        /\ answer' = [r \in Requests |->
                        IF pc[r] \in {"idle", "done"} THEN answer[r] ELSE "cut off"]
        /\ holder' = None /\ previous' = None /\ wanted' = wanted
        /\ adminUp' \in BOOLEAN /\ MayUpset
    BY <1>7 DEF AdminDies, ContainerStarts
  <2>3. pc' \in [Requests -> PC] /\ answer' \in [Requests -> Answers]
    BY <2>2 DEF PC, Answers
  <2>4. upsets' \in 0 .. MaxUpsets
    BY <2>2, UpsetType
  <2>5. QED
    BY <2>1, <2>2, <2>3, <2>4
<1>8. CASE UNCHANGED vars
  BY <1>8 DEF vars
<1>9. QED
  BY <1>1, <1>2, <1>3, <1>4, <1>5, <1>6, <1>7, <1>8 DEF Next

-----------------------------------------------------------------------------
(* The handlers                                                            *)

\* A handler that answers and keeps or gives back the lock leaves nothing to rely on.
LEMMA AnswerStep ==
    ASSUME TypeOK, HandlerInv, NEW r \in Requests, NEW a, Answer(r, a),
           wanted' = wanted, file' = file,
           \/ holder = r /\ holder' = None
           \/ pc[r] = "idle" /\ holder' = holder /\ previous' = previous
    PROVE  HandlerInv'
<1> USE PolicyFacts DEF TypeOK, HandlerInv, LockInv, PolicyPC, Answer
<1>1. /\ pc'[r] = "done"
      /\ \A s \in Requests \ {r} : pc'[s] = pc[s] /\ answer'[s] = answer[s]
  OBVIOUS
<1>2. CASE holder = r /\ holder' = None
  <2>1. \A s \in Requests \ {r} : pc'[s] \in {"idle", "done"}
    BY <1>1, <1>2
  <2>2. QED
    BY <1>1, <1>2, <2>1
<1>3. CASE pc[r] = "idle" /\ holder' = holder /\ previous' = previous
  BY <1>1, <1>3
<1>4. QED
  BY <1>2, <1>3

LEMMA HandlerStep == TypeOK /\ HandlerInv /\ [Next]_vars => HandlerInv'
<1> SUFFICES ASSUME TypeOK, HandlerInv, [Next]_vars PROVE HandlerInv'
  OBVIOUS
<1> USE PolicyFacts DEF TypeOK, HandlerInv, LockInv, PolicyPC
<1>1. ASSUME NEW r \in Requests, Arrive(r) PROVE HandlerInv'
  <2>1. CASE RefusePolicy(r)
    <3>1. PICK a : Answer(r, a)
      BY <2>1 DEF RefusePolicy
    <3>2. QED
      BY <2>1, <3>1, AnswerStep DEF RefusePolicy
  <2>2. CASE TakeLock(r)
    BY <2>2 DEF TakeLock
  <2>3. CASE ReloadRequest(r) /\ holder # None
    <3>1. Answer(r, "409")
      BY <2>3 DEF ReloadRequest
    <3>2. QED
      BY <2>3, <3>1, AnswerStep DEF ReloadRequest
  <2>5. CASE ReloadRequest(r) /\ holder = None
    <3>1. /\ holder' = r /\ pc' = [pc EXCEPT ![r] = "test file"] /\ wanted[r] = None
          /\ pc[r] = "idle" /\ UNCHANGED <<file, previous, wanted, answer>>
      BY <2>5 DEF ReloadRequest
    <3>2. QED
      BY <2>5, <3>1
  <2>4. QED
    BY <1>1, <2>1, <2>2, <2>3, <2>5 DEF Arrive
<1>2. ASSUME NEW r \in Requests, Handler(r) PROVE HandlerInv'
  <2> USE DEF Goto, Release, Answer
  <2>1. CASE Replace(r)
    BY <2>1 DEF Replace
  <2>2. CASE Test(r)
    BY <2>2 DEF Test
  <2>3. CASE SignalReload(r)
    BY <2>3 DEF SignalReload
  <2>4. CASE Truncate(r)
    BY <2>4 DEF Truncate
  <2>5. CASE Rewrite(r)
    BY <2>5 DEF Rewrite
  <2>6. CASE TestFile(r)
    <3>1. CASE Goto(r, "signal")
      BY <2>6, <3>1 DEF TestFile
    <3>2. CASE Release(r, "failed")
      <4>1. Answer(r, "failed")
        BY <3>2
      <4>2. QED
        BY <2>6, <3>2, <4>1, AnswerStep DEF TestFile
    <3>3. QED
      BY <2>6, <3>1, <3>2 DEF TestFile
  <2>7. CASE SignalFile(r)
    <3>1. holder = r /\ holder' = None /\ wanted' = wanted /\ file' = file
      BY <2>7 DEF SignalFile
    <3>2. CASE Answer(r, "succeeded")
      BY <3>1, <3>2, AnswerStep
    <3>3. CASE Answer(r, "failed")
      BY <3>1, <3>3, AnswerStep
    <3>4. QED
      BY <2>7, <3>2, <3>3 DEF SignalFile
  <2>8. QED
    BY <1>2, <2>1, <2>2, <2>3, <2>4, <2>5, <2>6, <2>7 DEF Handler
<1>3. ASSUME NEW r \in Requests, Raises(r) PROVE HandlerInv'
  <2>1. Answer(r, "cut off") /\ holder = r /\ holder' = None
    BY <1>3 DEF Raises, Release
  <2>2. QED
    BY <1>3, <2>1, AnswerStep DEF Raises
<1>4. CASE LoadFile \/ LoadEarly \/ LoadFails
  BY <1>4 DEF LoadFile, LoadEarly, LoadFails
<1>5. CASE AdminDies \/ ContainerStarts
  <2>1. /\ pc' = [r \in Requests |-> IF pc[r] = "idle" THEN "idle" ELSE "done"]
        /\ answer' = [r \in Requests |->
                        IF pc[r] \in {"idle", "done"} THEN answer[r] ELSE "cut off"]
        /\ holder' = None
    BY <1>5 DEF AdminDies, ContainerStarts
  <2>2. QED
    BY <2>1
<1>6. CASE UNCHANGED vars
  BY <1>6 DEF vars
<1>7. QED
  BY <1>1, <1>2, <1>3, <1>4, <1>5, <1>6 DEF Next

-----------------------------------------------------------------------------
(* The file and nginx                                                      *)

\* The step with which a handler succeeds.
Succeeds(r) == SignalReload(r) /\ holder' = None

\* A call leaves the policy in force as it is, but for its step that succeeds.
LEMMA InForceStep ==
    ASSUME TypeOK, HandlerInv, NEW r \in Requests, Arrive(r) \/ Handler(r)
    PROVE  InForce' = IF Succeeds(r) THEN wanted[r] ELSE InForce
<1> USE PolicyFacts DEF TypeOK, HandlerInv, LockInv, PolicyPC, Succeeds, InForce
<1>1. CASE RefusePolicy(r) \/ ReloadRequest(r)
  <2>1. ~SignalReload(r) /\ file' = file /\ previous' = previous
    BY <1>1 DEF RefusePolicy, ReloadRequest, SignalReload, Answer
  <2>2. Changing' <=> Changing
    <3>1. pc[r] = "idle" /\ pc' \in {[pc EXCEPT ![r] = "done"], [pc EXCEPT ![r] = "test file"]}
      BY <1>1 DEF RefusePolicy, ReloadRequest, Answer
    <3>2. holder' = holder \/ (holder = None /\ holder' = r)
      BY <1>1 DEF RefusePolicy, ReloadRequest
    <3>3. /\ pc'[r] \in {"done", "test file"}
          /\ \A s \in Requests \ {r} : pc'[s] = pc[s]
      BY <3>1
    <3>4. QED
      BY <3>1, <3>2, <3>3 DEF Changing
  <2>3. QED
    BY <2>1, <2>2
<1>2. CASE TakeLock(r)
  BY <1>2 DEF TakeLock, SignalReload, Changing
<1>3. CASE Replace(r)
  <2>1. ~SignalReload(r) /\ previous' = previous /\ file = previous
    BY <1>3 DEF Replace, SignalReload, Goto
  <2>2. Changing'
    BY <1>3 DEF Replace, Goto, Changing
  <2>3. QED
    BY <2>1, <2>2
<1>4. CASE Test(r) \/ Truncate(r) \/ (SignalReload(r) /\ holder' # None)
  <2>1. ~Succeeds(r) /\ previous' = previous /\ Changing
    BY <1>4 DEF Test, Truncate, SignalReload, Release, Goto, Changing
  <2>2. Changing'
    BY <1>4 DEF Test, Truncate, SignalReload, Release, Goto, Changing
  <2>3. QED
    BY <2>1, <2>2
<1>5. CASE Succeeds(r)
  <2>1. file' = file /\ file = wanted[r] /\ ~Changing'
    BY <1>5 DEF SignalReload, Changing
  <2>2. QED
    BY <1>5, <2>1
<1>6. CASE Rewrite(r)
  <2>1. ~SignalReload(r) /\ file' = previous /\ ~Changing' /\ Changing
    BY <1>6 DEF Rewrite, SignalReload, Release, Changing
  <2>2. QED
    BY <2>1
<1>7. CASE TestFile(r) \/ SignalFile(r)
  <2>1. ~SignalReload(r) /\ file' = file /\ ~Changing /\ ~Changing'
    BY <1>7 DEF TestFile, SignalFile, SignalReload, Release, Answer, Goto, Changing
  <2>2. QED
    BY <2>1
<1>8. QED
  BY <1>1, <1>2, <1>3, <1>4, <1>5, <1>6, <1>7 DEF Arrive, Handler

\* Where a handler succeeds the signal has been sent; elsewhere nothing is told nginx
\* that it does not run.
LEMMA FileStep == TypeOK /\ HandlerInv /\ FileInv /\ [Next]_vars => FileInv'
<1> SUFFICES ASSUME TypeOK, HandlerInv, FileInv, [Next]_vars PROVE FileInv'
  OBVIOUS
<1> USE PolicyFacts DEF FileInv
<1>1. ASSUME NEW r \in Requests, Arrive(r) \/ Handler(r) PROVE FileInv'
  <2>1. upsets' = upsets /\ loaded' = loaded /\ (signalled => signalled')
    <3>1. CASE Arrive(r)
      <4>1. UNCHANGED <<upsets, loaded, signalled>>
        BY <3>1 DEF Arrive, RefusePolicy, TakeLock, ReloadRequest
      <4>2. QED
        BY <4>1
    <3>2. CASE Replace(r) \/ Test(r) \/ Truncate(r) \/ Rewrite(r) \/ TestFile(r)
      <4>1. UNCHANGED <<upsets, loaded, signalled>>
        BY <3>2 DEF Replace, Test, Truncate, Rewrite, TestFile
      <4>2. QED
        BY <4>1
    <3>3. CASE SignalReload(r) \/ SignalFile(r)
      <4>1. /\ UNCHANGED <<upsets, loaded>>
            /\ signalled' = TRUE \/ signalled' = signalled
        BY <3>3 DEF SignalReload, SignalFile
      <4>2. CASE signalled' = TRUE
        BY <4>1, <4>2
      <4>3. CASE signalled' = signalled
        BY <4>1, <4>3
      <4>4. QED
        BY <4>1, <4>2, <4>3
    <3>4. QED
      BY <1>1, <3>1, <3>2, <3>3 DEF Handler
  <2>2. InForce' = IF Succeeds(r) THEN wanted[r] ELSE InForce
    BY <1>1, InForceStep
  <2>3. Succeeds(r) => signalled' /\ wanted[r] \in Policies
    BY DEF Succeeds, SignalReload, Goto, HandlerInv, LockInv, PolicyPC
  <2>4. QED
    BY <2>1, <2>2, <2>3
<1>2. CASE LoadFile
  <2>1. InForce' = InForce /\ InForce = file /\ upsets' = upsets
    BY <1>2 DEF LoadFile, InForce, Changing
  <2>2. QED
    BY <1>2, <2>1 DEF LoadFile
<1>3. CASE MayUpset
  BY <1>3, UpsetType
<1>4. CASE UNCHANGED vars
  BY <1>4 DEF vars, InForce, Changing
<1>5. QED
  BY <1>1, <1>2, <1>3, <1>4
     DEF Next, Raises, LoadEarly, LoadFails, AdminDies, ContainerStarts

\* The invariant: types, what the handlers rely on, what file and nginx share.
THEOREM InvariantHolds == Spec => []IInv
<1>1. IInv /\ [Next]_vars => IInv'
  BY TypeStep, HandlerStep, FileStep DEF IInv
<1>2. QED
  BY InitInv, <1>1, PTL DEF Spec

\* Every variable of the gateway keeps its type; nginx never runs a torn file.
THEOREM TypeCorrect == Spec => []TypeOK
BY InvariantHolds, PTL DEF IInv

\* One handler at a time is between its first and its last command.
THEOREM LockHolds == Spec => []LockInv
BY InvariantHolds, PTL DEF IInv, HandlerInv

\* GET /admin/traffic-policy reports what nginx runs as long as nothing is upset.
THEOREM ReportIsTrue == Spec => []ReportTrue
<1>1. IInv => ReportTrue
  <2> SUFFICES ASSUME IInv, upsets = 0, holder = None, ~signalled
               PROVE  loaded = Reported
    BY DEF ReportTrue
  <2>1. loaded = file /\ file # Torn
    BY NotChanging DEF IInv, FileInv, InForce
  <2>2. file \in Texts
    BY DEF IInv, TypeOK
  <2>3. QED
    BY <2>1, <2>2 DEF Reported, Texts
<1>2. QED
  BY InvariantHolds, <1>1, PTL

-----------------------------------------------------------------------------
(* The gateway implements TrafficPolicy                                    *)

\* A call answers its own request only.
LEMMA PromiseCall ==
    ASSUME TypeOK, HandlerInv, NEW r \in Requests, Arrive(r) \/ Handler(r)
    PROVE  Promise!Next \/ UNCHANGED <<InForce, wanted, answer, upsets>>
<1> USE PolicyFacts DEF TypeOK
<1>1. InForce' = IF Succeeds(r) THEN wanted[r] ELSE InForce
  BY InForceStep
<1>2. UNCHANGED <<wanted, upsets>>
  BY DEF Arrive, Handler, RefusePolicy, TakeLock, ReloadRequest, Replace, Test,
         SignalReload, Truncate, Rewrite, TestFile, SignalFile
<1>3. ASSUME NEW a \in Refusals, Answer(r, a), ~Succeeds(r), pc[r] # "done"
      PROVE  Promise!Refuse(r)
  <2>1. answer[r] = "none" /\ answer' = [answer EXCEPT ![r] = a]
    BY <1>3 DEF HandlerInv, Answer
  <2>2. QED
    BY <1>1, <1>2, <1>3, <2>1 DEF Promise!Refuse
<1>4. CASE Arrive(r)
  <2>1. CASE RefusePolicy(r)
    <3>1. pc[r] = "idle" /\ \E a \in Refusals : Answer(r, a)
      BY <2>1 DEF RefusePolicy, Refusals
    <3>2. ~Succeeds(r)
      BY <3>1 DEF Succeeds, SignalReload
    <3>3. QED
      BY <1>3, <3>1, <3>2 DEF Promise!Next
  <2>2. CASE TakeLock(r)
    <3>1. ~Succeeds(r) /\ answer' = answer
      BY <2>2 DEF TakeLock, Succeeds, SignalReload
    <3>2. QED
      BY <1>1, <1>2, <3>1
  <2>3. CASE ReloadRequest(r)
    <3>1. ~Succeeds(r) /\ pc[r] = "idle"
      BY <2>3 DEF ReloadRequest, Succeeds, SignalReload
    <3>2. Answer(r, "409") \/ answer' = answer
      BY <2>3 DEF ReloadRequest
    <3>3. QED
      BY <1>1, <1>2, <1>3, <3>1, <3>2 DEF Promise!Next, Refusals
  <2>4. QED
    BY <1>4, <2>1, <2>2, <2>3 DEF Arrive
<1>5. CASE Replace(r) \/ Test(r) \/ Truncate(r) \/ (SignalReload(r) /\ ~Succeeds(r))
  <2>1. ~Succeeds(r) /\ answer' = answer
    BY <1>5 DEF Replace, Test, Truncate, SignalReload, Succeeds, Goto, Release
  <2>2. QED
    BY <1>1, <1>2, <2>1
<1>6. CASE Succeeds(r)
  <2>1. wanted[r] \in Policies /\ answer[r] = "none"
    BY <1>6 DEF Succeeds, SignalReload, HandlerInv, PolicyPC
  <2>2. answer' = [answer EXCEPT ![r] = "succeeded"]
    BY <1>6 DEF Succeeds, SignalReload, Release, Answer, Goto, HandlerInv, LockInv
  <2>3. QED
    BY <1>1, <1>2, <1>6, <2>1, <2>2 DEF Promise!Next, Promise!Apply
<1>7. CASE Rewrite(r)
  <2>1. ~Succeeds(r) /\ Answer(r, "failed") /\ pc[r] = "rewrite"
    BY <1>7 DEF Rewrite, Release, Succeeds, SignalReload
  <2>2. QED
    BY <1>3, <2>1 DEF Promise!Next, Refusals
<1>8. CASE TestFile(r) \/ SignalFile(r)
  <2>1. /\ ~Succeeds(r) /\ pc[r] \in {"test file", "signal"} /\ wanted[r] = None
        /\ answer[r] = "none"
    BY <1>8 DEF TestFile, SignalFile, Succeeds, SignalReload, HandlerInv
  <2>2. Answer(r, "failed") \/ Answer(r, "succeeded") \/ answer' = answer
    BY <1>8 DEF TestFile, SignalFile, Release, Goto
  <2>3. CASE Answer(r, "succeeded")
    <3>1. answer' = [answer EXCEPT ![r] = "succeeded"]
      BY <2>3 DEF Answer
    <3>2. QED
      BY <1>1, <1>2, <2>1, <3>1 DEF Promise!Next, Promise!Reapply
  <2>4. CASE Answer(r, "failed")
    BY <1>3, <2>1, <2>4 DEF Promise!Next, Refusals
  <2>5. QED
    BY <1>1, <1>2, <2>1, <2>2, <2>3, <2>4
<1>9. QED
  BY <1>4, <1>5, <1>6, <1>7, <1>8 DEF Handler

\* What is in the file of a handler that is cut off.
LEMMA CutOff ==
    ASSUME HandlerInv, Changing,
           \A r \in Requests :
              pc[r] \notin {"idle", "done"} /\ holder = r => answer'[r] = "cut off"
    PROVE  \E r \in Requests :
              /\ answer[r] = "none" /\ answer'[r] = "cut off"
              /\ wanted[r] \in Policies
              /\ file \in {wanted[r], Torn}
BY DEF HandlerInv, PolicyPC, Changing

\* An upset cuts calls off, and leaves the policy in force as it was, the default, or
\* what one of those calls has left in the file.
LEMMA PromiseUpset ==
    TypeOK /\ HandlerInv /\ TypeOK' /\ HandlerInv' /\ MayUpset /\ [Next]_vars
        => Promise!Upset
<1> SUFFICES ASSUME TypeOK, HandlerInv, TypeOK', HandlerInv', MayUpset, [Next]_vars
             PROVE  Promise!Upset
  OBVIOUS
<1> DEFINE Brings == \/ InForce' \in {InForce, Default}
                     \/ \E r \in Requests :
                           /\ answer[r] = "none" /\ answer'[r] = "cut off"
                           /\ wanted[r] \in Policies
                           /\ InForce' \in {wanted[r], Torn}
<1>1. ASSUME holder' = None, file' \in {file, Default},
             \A r \in Requests :
                pc[r] \notin {"idle", "done"} /\ holder = r => answer'[r] = "cut off"
      PROVE  Brings
  <2>1. InForce' = file'
    BY <1>1, PolicyFacts DEF InForce, Changing
  <2>2. CASE Changing
    BY <1>1, <2>1, <2>2, CutOff
  <2>3. CASE ~Changing
    BY <1>1, <2>1, <2>3 DEF InForce
  <2>4. QED
    BY <2>2, <2>3
<1>2. upsets' = upsets + 1 /\ upsets' # upsets
  BY DEF MayUpset, TypeOK
<1>3. /\ wanted' = wanted
      /\ \A r \in Requests : answer'[r] \in {answer[r], "cut off"}
      /\ Brings
  <2>1. CASE \E r \in Requests : Arrive(r) \/ Handler(r)
    <3>1. upsets' = upsets
      BY <2>1 DEF Arrive, Handler, RefusePolicy, TakeLock, ReloadRequest, Replace,
                  Test, SignalReload, Truncate, Rewrite, TestFile, SignalFile
    <3>2. QED
      BY <1>2, <3>1
  <2>2. ASSUME NEW r \in Requests, Raises(r)
        PROVE  /\ wanted' = wanted
               /\ \A s \in Requests : answer'[s] \in {answer[s], "cut off"}
               /\ Brings
    <3>1. /\ wanted' = wanted /\ file' = file
          /\ \A s \in Requests : answer'[s] \in {answer[s], "cut off"}
      BY <2>2 DEF Raises, Release, Answer, TypeOK
    <3>2. holder = r /\ holder' = None /\ answer'[r] = "cut off"
      BY <2>2 DEF Raises, Release, Answer, TypeOK, HandlerInv, LockInv
    <3>3. \A s \in Requests :
             pc[s] \notin {"idle", "done"} /\ holder = s => answer'[s] = "cut off"
      BY <3>2
    <3>4. file' \in {file, Default}
      BY <3>1
    <3> HIDE DEF Brings
    <3>5. Brings
      BY <1>1, <3>2, <3>3, <3>4
    <3>6. QED
      BY <3>1, <3>5
  <2>3. CASE LoadFile \/ UNCHANGED vars
    BY <1>2, <2>3 DEF LoadFile, vars
  <2>4. CASE LoadEarly \/ LoadFails
    BY <2>4 DEF LoadEarly, LoadFails, InForce, Changing
  <2>5. CASE AdminDies \/ ContainerStarts
    <3>1. /\ wanted' = wanted /\ holder' = None /\ file' \in {file, Default}
          /\ answer' = [r \in Requests |->
                          IF pc[r] \in {"idle", "done"} THEN answer[r] ELSE "cut off"]
      BY <2>5 DEF AdminDies, ContainerStarts
    <3>2. Brings
      BY <1>1, <3>1
    <3>3. QED
      BY <3>1, <3>2
  <2>6. QED
    BY <2>1, <2>2, <2>3, <2>4, <2>5 DEF Next
<1>4. answer' \in [Requests -> {"none", "succeeded", "cut off"} \cup Refusals]
  BY DEF TypeOK, Answers
<1>5. QED
  BY <1>2, <1>3, <1>4 DEF Promise!Upset

LEMMA PromiseStep ==
    TypeOK /\ HandlerInv /\ TypeOK' /\ HandlerInv' /\ [Next]_vars
        => [Promise!Next]_<<InForce, wanted, answer, upsets>>
<1> SUFFICES ASSUME TypeOK, HandlerInv, TypeOK', HandlerInv', [Next]_vars
             PROVE  Promise!Next \/ UNCHANGED <<InForce, wanted, answer, upsets>>
  OBVIOUS
<1>1. CASE \E r \in Requests : Arrive(r) \/ Handler(r)
  BY <1>1, PromiseCall
<1>2. CASE MayUpset
  BY <1>2, PromiseUpset DEF Promise!Next
<1>3. CASE LoadFile \/ UNCHANGED vars
  BY <1>3 DEF LoadFile, vars, InForce, Changing
<1>4. QED
  BY <1>1, <1>2, <1>3
     DEF Next, Raises, LoadEarly, LoadFails, AdminDies, ContainerStarts

\* Seen from its callers, the policy changes with a success or with an upset, and an upset
\* brings the default policy or that of a handler it has cut off.
THEOREM PolicyImplemented == Spec => PolicySpec
<1>1. Init => Promise!Init
  BY PolicyFacts, NotChanging DEF Init, Promise!Init, InForce, Texts
<1>2. IInv /\ IInv' /\ [Next]_vars => [Promise!Next]_<<InForce, wanted, answer, upsets>>
  BY PromiseStep DEF IInv
<1>3. QED
  BY <1>1, <1>2, InvariantHolds, PTL DEF Spec, PolicySpec, Promise!Spec
=============================================================================
