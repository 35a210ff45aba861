----------------------------- MODULE ModelServer ----------------------------
(***************************************************************************)
(* The two model servers (secom_mlops/serving/runtime/app.py), one per     *)
(* slot, as the deployment scripts see them: they load the champion when   *)
(* they start, and swap the version they serve when a reload request asks  *)
(* for it.  A server is one process whose reload handler is a coroutine    *)
(* without an await, so it handles its requests one after the other, in    *)
(* the order of their arrival, and a handled request is one step.  A       *)
(* request whose sender has given up (live = FALSE) is handled all the     *)
(* same.                                                                   *)
(***************************************************************************)
EXTENDS Deployment

\* The reply reaches the script if it still waits for it.
Reply(slot, m) ==
    IF m.live
    THEN /\ pc' = [pc EXCEPT ![m.op] = "verify"]
         /\ prev' = [prev EXCEPT ![m.op] = runtime[slot]]
         /\ UNCHANGED <<arg, obs, row>>
    ELSE UNCHANGED <<pc, locals>>

ReplyError(m) == IF m.live THEN Raise(m.op) ELSE UNCHANGED <<pc, locals>>

Receive(slot) ==
    /\ inbox[slot] # << >>
    /\ inbox' = [inbox EXCEPT ![slot] = Tail(@)]

\* _validate_current_runtime: a caller may name the version it expects to replace.
Accepts(slot, m) == m.expected \in {None, runtime[slot]}

\* reload_model_version: the new runtime replaces the old one, and the response
\* carries both.
Reload(slot) ==
    LET m == Head(inbox[slot])
    IN /\ Receive(slot)
       /\ Accepts(slot, m)
       /\ runtime' = [runtime EXCEPT ![slot] = m.version]
       /\ \/ Reply(slot, m) /\ UNCHANGED faults
          \/ m.live /\ Spend("lost") /\ ReplyError(m)
       /\ UNCHANGED <<champion, candidate, percent, store>>

\* The answer is 409 and nothing changes.
RefuseReload(slot) ==
    LET m == Head(inbox[slot])
    IN /\ Receive(slot)
       /\ ~Accepts(slot, m)
       /\ ReplyError(m)
       /\ UNCHANGED <<runtime, champion, candidate, percent, store, faults>>

\* The registry or the artifact store fails while the model loads: the runtime
\* in place is kept and the answer is a 5xx.
ReloadFails(slot) ==
    LET m == Head(inbox[slot])
    IN /\ Receive(slot)
       /\ Accepts(slot, m)
       /\ Spend("reload")
       /\ ReplyError(m)
       /\ UNCHANGED <<runtime, champion, candidate, percent, store>>

\* The requests of script o stay with the servers, but nobody waits for them.
Abandon(o) ==
    inbox' = [s \in Slots |->
                [i \in DOMAIN inbox[s] |->
                    IF inbox[s][i].op = o THEN [inbox[s][i] EXCEPT !.live = FALSE]
                                          ELSE inbox[s][i]]]

\* The script gives up after http_timeout_seconds.
Timeout(o) ==
    /\ pc[o] = "await"
    /\ Spend("timeout")
    /\ Abandon(o)
    /\ Raise(o)
    /\ UNCHANGED <<runtime, champion, candidate, percent, store>>

\* The process running the script is killed.
Crash(o) ==
    /\ pc[o] # "idle"
    /\ Spend("crash")
    /\ Abandon(o)
    /\ Exit(o)
    /\ UNCHANGED <<runtime, champion, candidate, percent, store>>

\* The scripts that wait for a server; when their connection drops, the ones with
\* an except block go there and the others end.
Waiting(slot) ==
    {o \in Ops : \E i \in DOMAIN inbox[slot] : /\ inbox[slot][i].op = o
                                              /\ inbox[slot][i].live}

Disconnect(slot) ==
    LET ended == Waiting(slot) \ Guarded
        Cleared(f) == [o \in Ops |-> IF o \in ended THEN None ELSE f[o]]
    IN /\ inbox' = [inbox EXCEPT ![slot] = << >>]
       /\ pc' = [o \in Ops |-> CASE o \in ended -> "idle"
                               [] o \in Waiting(slot) \cap Guarded -> "failing"
                               [] OTHER -> pc[o]]
       /\ arg' = Cleared(arg)
       /\ obs' = Cleared(obs)
       /\ row' = Cleared(row)
       /\ prev' = Cleared(prev)

\* A server restarts: its outstanding requests are gone, it loads the champion
\* (both slots are configured with that alias), and seeds the runtime state row
\* if there is none.
Restart(slot) ==
    /\ Spend("restart")
    /\ Disconnect(slot)
    /\ runtime' = [runtime EXCEPT ![slot] = champion]
    /\ IF state[slot] = None
       THEN \E seed \in Seeded(champion) : state' = [state EXCEPT ![slot] = seed]
       ELSE UNCHANGED state
    /\ UNCHANGED <<champion, candidate, percent, request, status, events>>
=============================================================================
