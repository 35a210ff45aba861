----------------------------- MODULE GatewayAdmin -----------------------------
(***************************************************************************)
(* The container of the model gateway: nginx, and the admin API that       *)
(* switches the traffic split between release and canary                   *)
(* (container/nginx/model-gateway-reload-admin.py).                        *)
(*                                                                         *)
(* The handlers are threads of one process and exclude each other with a   *)
(* lock that is never waited for.  A handler replaces the file that nginx  *)
(* includes, has nginx test it, and signals the reload; when one of the    *)
(* two commands fails it writes the previous text back.  nginx reads the   *)
(* file when it gets to the signal, which is after the command has ended,  *)
(* and keeps what it runs when it cannot load the file.                    *)
(***************************************************************************)
EXTENDS Naturals, FiniteSets

CONSTANTS
    Requests,     \* identities of the calls of the admin API
    Percents,     \* values of canary_percent that are asked for
    Allowed,      \* _allowed_canary_percents
    Prepared,     \* the percents whose canary-NNN.conf exists
    Default,      \* NGINX_DEFAULT_POLICY_CONF
    Custom,       \* a text that is not one of the prepared ones
    Torn,         \* a file that was truncated and is not written yet; nginx does not
                  \* load it, as model-gateway.conf needs the upstreams it defines
    None,
    MaxUpsets     \* upsets of a behaviour

Policies == Allowed \cap Prepared
Texts == Policies \cup {Custom, Torn}

ASSUME PolicyAssumption ==
    /\ Default \in Policies
    /\ Custom \notin Percents \cup Prepared \cup {Torn, None}
    /\ None \notin Percents \cup Prepared \cup Requests \cup {Torn}
    /\ Torn \notin Percents \cup Prepared
ASSUME UpsetsAssumption == MaxUpsets \in Nat

VARIABLES
    file,       \* _runtime_conf
    loaded,     \* what the workers of nginx run
    signalled,  \* a SIGHUP that the master has not got to
    holder,     \* the handler that has _reload_lock, or None
    previous,   \* previous_conf of the handler that has the lock
    pc,         \* [Requests -> where its handler is]
    wanted,     \* [Requests -> canary_percent, or None for /admin/reload]
    answer,     \* [Requests -> its answer, or "none"]
    adminUp,    \* the admin process runs
    upsets

vars == <<file, loaded, signalled, holder, previous, pc, wanted, answer, adminUp, upsets>>

Refusals == {"422", "404", "409", "dry_run", "failed"}
Answers == {"none", "succeeded", "cut off"} \cup Refusals

\* The container has started with a file it found or copied.
Init ==
    /\ file \in (Policies \cup {Custom})
    /\ loaded = file
    /\ signalled = FALSE
    /\ holder = None
    /\ previous = None
    /\ pc = [r \in Requests |-> "idle"]
    /\ wanted \in [Requests -> Percents \cup {None}]
    /\ answer = [r \in Requests |-> "none"]
    /\ adminUp = TRUE
    /\ upsets = 0

Answer(r, a) ==
    /\ pc' = [pc EXCEPT ![r] = "done"]
    /\ answer' = [answer EXCEPT ![r] = a]

\* The finally block, with the answer.
Release(r, a) ==
    /\ Answer(r, a)
    /\ holder' = None
    /\ previous' = None

Goto(r, l) ==
    /\ pc' = [pc EXCEPT ![r] = l]
    /\ UNCHANGED <<holder, previous, answer>>

\* set_traffic_policy up to the lock: what is answered without it.
RefusePolicy(r) ==
    /\ adminUp
    /\ pc[r] = "idle"
    /\ wanted[r] # None
    /\ \/ wanted[r] \notin Allowed /\ Answer(r, "422")
       \/ wanted[r] \in Allowed \ Prepared /\ Answer(r, "404")
       \/ wanted[r] \in Policies /\ Answer(r, "dry_run")
       \/ wanted[r] \in Policies /\ holder # None /\ Answer(r, "409")
    /\ UNCHANGED <<file, loaded, signalled, holder, previous, wanted, adminUp, upsets>>

\* The lock, and the text to go back to.
TakeLock(r) ==
    /\ adminUp
    /\ pc[r] = "idle"
    /\ wanted[r] \in Policies
    /\ holder = None
    /\ holder' = r
    /\ previous' = file
    /\ pc' = [pc EXCEPT ![r] = "replace"]
    /\ UNCHANGED <<file, loaded, signalled, wanted, answer, adminUp, upsets>>

\* A temporary file is written and renamed.
Replace(r) ==
    /\ pc[r] = "replace"
    /\ file' = wanted[r]
    /\ Goto(r, "test")
    /\ UNCHANGED <<loaded, signalled, wanted, adminUp, upsets>>

\* Mutant: a failed test is answered and the file left as it is.
TestFailsUnrestored(r) ==
    /\ pc[r] = "test"
    /\ \/ file # Torn /\ Goto(r, "reload")
       \/ Release(r, "failed")
    /\ UNCHANGED <<file, loaded, signalled, wanted, adminUp, upsets>>

\* nginx -t fails for a text it cannot load, and for a server name it cannot resolve.
Test(r) ==
    /\ pc[r] = "test"
    /\ \/ file # Torn /\ Goto(r, "reload")
       \/ Goto(r, "restore")
    /\ UNCHANGED <<file, loaded, signalled, wanted, adminUp, upsets>>

\* Mutant: the test was enough.
SignalReloadForgotten(r) ==
    /\ pc[r] = "reload"
    /\ Release(r, "succeeded")
    /\ UNCHANGED <<file, loaded, signalled, wanted, adminUp, upsets>>

\* nginx -s reload: the signal is sent, or the command fails before it sends it.
SignalReload(r) ==
    /\ pc[r] = "reload"
    /\ \/ signalled' = TRUE /\ Release(r, "succeeded")
       \/ signalled' = signalled /\ Goto(r, "restore")
    /\ UNCHANGED <<file, loaded, wanted, adminUp, upsets>>

\* _restore_runtime_conf opens the file for writing, which truncates it ...
Truncate(r) ==
    /\ pc[r] = "restore"
    /\ file' = Torn
    /\ Goto(r, "rewrite")
    /\ UNCHANGED <<loaded, signalled, wanted, adminUp, upsets>>

\* Mutant: the restore falls back to the default policy.
RewriteDefault(r) ==
    /\ pc[r] = "rewrite"
    /\ file' = Default
    /\ Release(r, "failed")
    /\ UNCHANGED <<loaded, signalled, wanted, adminUp, upsets>>

\* ... and writes the previous text; the test that follows is only reported.
Rewrite(r) ==
    /\ pc[r] = "rewrite"
    /\ file' = previous
    /\ Release(r, "failed")
    /\ UNCHANGED <<loaded, signalled, wanted, adminUp, upsets>>

\* reload_nginx: the same two commands for the file as it is.
ReloadRequest(r) ==
    /\ adminUp
    /\ pc[r] = "idle"
    /\ wanted[r] = None
    /\ \/ holder # None /\ Answer(r, "409") /\ UNCHANGED <<holder, previous>>
       \/ /\ holder = None
          /\ holder' = r
          /\ pc' = [pc EXCEPT ![r] = "test file"]
          /\ UNCHANGED <<previous, answer>>
    /\ UNCHANGED <<file, loaded, signalled, wanted, adminUp, upsets>>

\* Mutant: the failure is answered outside of the try block.
TestFileKeepsLock(r) ==
    /\ pc[r] = "test file"
    /\ \/ file # Torn /\ Goto(r, "signal")
       \/ Answer(r, "failed") /\ UNCHANGED <<holder, previous>>
    /\ UNCHANGED <<file, loaded, signalled, wanted, adminUp, upsets>>

TestFile(r) ==
    /\ pc[r] = "test file"
    /\ \/ file # Torn /\ Goto(r, "signal")
       \/ Release(r, "failed")
    /\ UNCHANGED <<file, loaded, signalled, wanted, adminUp, upsets>>

SignalFile(r) ==
    /\ pc[r] = "signal"
    /\ \/ signalled' = TRUE /\ Release(r, "succeeded")
       \/ signalled' = signalled /\ Release(r, "failed")
    /\ UNCHANGED <<file, loaded, wanted, adminUp, upsets>>

\* A call arrives, and a handler goes on.
Arrive(r) == RefusePolicy(r) \/ TakeLock(r) \/ ReloadRequest(r)

Handler(r) ==
    \/ Replace(r)
    \/ Test(r)
    \/ SignalReload(r)
    \/ Truncate(r)
    \/ Rewrite(r)
    \/ TestFile(r)
    \/ SignalFile(r)

\* A handler has replaced the file and has not succeeded or put it back.
Changing ==
    \E r \in Requests :
        holder = r /\ pc[r] \in {"test", "reload", "restore", "rewrite"}

\* Mutant: the empty file counts as a configuration.
LoadFileTorn ==
    /\ signalled
    /\ ~Changing
    /\ signalled' = FALSE
    /\ loaded' = file
    /\ UNCHANGED <<file, holder, previous, pc, wanted, answer, adminUp, upsets>>

\* The master reads the file, with no handler in the middle of a change.
LoadFile ==
    /\ signalled
    /\ ~Changing
    /\ signalled' = FALSE
    /\ loaded' = IF file = Torn THEN loaded ELSE file
    /\ UNCHANGED <<file, holder, previous, pc, wanted, answer, adminUp, upsets>>

-----------------------------------------------------------------------------
(* What upsets the order.                                                  *)

MayUpset == upsets < MaxUpsets /\ upsets' = upsets + 1

\* The master gets to the signal of one request when the next has replaced the
\* file, tested or not.
LoadEarly ==
    /\ MayUpset
    /\ signalled
    /\ Changing
    /\ signalled' = FALSE
    /\ loaded' = IF file = Torn THEN loaded ELSE file
    /\ UNCHANGED <<file, holder, previous, pc, wanted, answer, adminUp>>

\* The master cannot load what it was told to, a name does not resolve any more.
LoadFails ==
    /\ MayUpset
    /\ signalled
    /\ signalled' = FALSE
    /\ UNCHANGED <<file, loaded, holder, previous, pc, wanted, answer, adminUp>>

\* A command cannot be started, or the file cannot be written: the handler raises,
\* and the finally block releases the lock.
Raises(r) ==
    /\ MayUpset
    /\ pc[r] \notin {"idle", "done"}
    /\ Release(r, "cut off")
    /\ UNCHANGED <<file, loaded, signalled, wanted, adminUp>>

\* The admin process dies with its handlers; nobody starts it again while nginx runs.
AdminDies ==
    /\ MayUpset
    /\ adminUp
    /\ adminUp' = FALSE
    /\ holder' = None
    /\ previous' = None
    /\ pc' = [r \in Requests |-> IF pc[r] = "idle" THEN "idle" ELSE "done"]
    /\ answer' = [r \in Requests |->
                    IF pc[r] \in {"idle", "done"} THEN answer[r] ELSE "cut off"]
    /\ UNCHANGED <<file, loaded, signalled, wanted>>

\* start-model-gateway.sh, in the container that stopped (which has its file) or in
\* a new one (which has none).  It goes no further than nginx -t with a torn file.
ContainerStarts ==
    /\ MayUpset
    /\ file' \in {file, Default}
    /\ file' # Torn
    /\ loaded' = file'
    /\ signalled' = FALSE
    /\ adminUp' = TRUE
    /\ holder' = None
    /\ previous' = None
    /\ pc' = [r \in Requests |-> IF pc[r] = "idle" THEN "idle" ELSE "done"]
    /\ answer' = [r \in Requests |->
                    IF pc[r] \in {"idle", "done"} THEN answer[r] ELSE "cut off"]
    /\ UNCHANGED wanted

Next ==
    \/ \E r \in Requests : Arrive(r) \/ Handler(r) \/ Raises(r)
    \/ LoadFile
    \/ LoadEarly
    \/ LoadFails
    \/ AdminDies
    \/ ContainerStarts

\* The threads of the handlers run, commands end, and nginx gets to its signals.
Fairness ==
    /\ \A r \in Requests : WF_vars(Handler(r))
    /\ WF_vars(LoadFile)

Spec == Init /\ [][Next]_vars /\ Fairness

-----------------------------------------------------------------------------
(* Properties                                                              *)

PC == {"idle", "replace", "test", "reload", "restore", "rewrite", "test file",
       "signal", "done"}

\* Every variable has its type.
TypeOK ==
    /\ file \in Texts
    /\ loaded \in Texts \ {Torn}
    /\ signalled \in BOOLEAN
    /\ holder \in Requests \cup {None}
    /\ previous \in Texts \cup {None}
    /\ pc \in [Requests -> PC]
    /\ wanted \in [Requests -> Percents \cup {None}]
    /\ answer \in [Requests -> Answers]
    /\ adminUp \in BOOLEAN
    /\ upsets \in 0 .. MaxUpsets

\* _reload_lock: the lock belongs to the one handler that is between its first and
\* its last command, and every such handler has it.
LockInv ==
    \A r \in Requests : holder = r <=> pc[r] \notin {"idle", "done"}

\* _traffic_policy_state matches the file with the prepared policies: "custom" if there
\* is none.
Reported == IF file \in Policies THEN file ELSE Custom

\* The report comes from the file, nginx is not asked.  What is reported between requests is
\* what nginx runs, unless something was upset; a handler that fails has put back what nginx
\* never stopped running.
ReportTrue ==
    upsets = 0 /\ holder = None /\ ~signalled => loaded = Reported

\* The policy that callers can count on: the file, or what a handler that has not
\* succeeded yet would put back.
InForce == IF Changing THEN previous ELSE file

\* Seen from its callers the policy changes with the answer "succeeded" to a request
\* that asked for it, or by an upset, which brings nothing but the default policy or that
\* of the handler it cuts off: a handler that fails has put back what it found.
Promise == INSTANCE TrafficPolicy WITH policy <- InForce, Wants <- Percents \cup {None}
PolicySpec == Promise!Spec

\* Whatever goes wrong, a handler comes to its end and gives the lock back: a lock
\* that is not waited for would otherwise answer 409 until the process is restarted.
LockReleased ==
    \A r \in Requests : holder = r ~> holder # r

\* When the requests have ended, nginx comes to run the policy of the last one that
\* succeeded, unless something is upset: an answer that came before the master got
\* to the signal was not a lie.
SuccessTakesEffect ==
    \A p \in Policies :
        (file = p /\ upsets = 0 /\ \A r \in Requests : pc[r] = "done")
            ~> (loaded = p \/ upsets > 0)
=============================================================================
