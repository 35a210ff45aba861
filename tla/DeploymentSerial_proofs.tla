------------------------ MODULE DeploymentSerial_proofs ------------------------
(***************************************************************************)
(* Proofs about the steps of DeploymentControl, for every number of        *)
(* versions, requests and faults: what a promotion replaces, for any       *)
(* number of scripts at a time, and what scripts that run one after the    *)
(* other (MaxActive = 1) find and leave.                                   *)
(*                                                                         *)
(* Own(o) says that a step is one of script o; most of the lemmas say      *)
(* which step is whose.  Three invariants follow, on top of IInv:          *)
(* LineageSound, SerialInv and, while no server restarts, SettledInv.  At  *)
(* the end, for any number of scripts at a time: who answers for a request *)
(* that is being reloaded.                                                 *)
(***************************************************************************)
EXTENDS DeploymentControl_proofs, FiniteSetTheorems

-----------------------------------------------------------------------------
(* Whose step it is.                                                       *)

\* Script o is running, keeps its request until it ends, and leaves the other
\* scripts where they are.
Own(o) ==
    /\ pc[o] # "idle"
    /\ pc'[o] # "idle" => arg'[o] = arg[o]
    /\ \A p \in Ops \ {o} : /\ pc'[p] = pc[p] /\ arg'[p] = arg[p]
                            /\ obs'[p] = obs[p] /\ row'[p] = row[p]

LEMMA OwnGoto ==
    ASSUME TypeOK, NEW o \in Ops, NEW l \in Labels, pc[o] # "idle", Goto(o, l)
    PROVE  Own(o)
BY DEF TypeOK, Goto, locals, Own

LEMMA OwnRaise ==
    ASSUME TypeOK, NEW o \in Ops, pc[o] # "idle", Raise(o)
    PROVE  Own(o)
<1>1. CASE Exit(o)
  BY <1>1 DEF TypeOK, Exit, Own
<1>2. CASE Goto(o, "failing")
  BY <1>2, OwnGoto DEF Labels
<1>3. QED
  BY <1>1, <1>2 DEF Raise

LEMMA OwnDone ==
    ASSUME TypeOK, NEW o \in Ops, NEW l \in Labels, pc[o] # "idle", Done(o, l)
    PROVE  Own(o)
BY OwnGoto, OwnRaise DEF Done

LEMMA OwnCompleted ==
    ASSUME TypeOK, NEW o \in Ops, pc[o] # "idle", Completed(o)
    PROVE  Own(o)
<1>1. CASE Exit(o)
  BY <1>1 DEF TypeOK, Exit, Own
<1>2. CASE Raise(o)
  BY <1>2, OwnRaise
<1>3. QED
  BY <1>1, <1>2 DEF Completed

LEMMA OwnVerify ==
    ASSUME TypeOK, NEW o \in Ops, NEW slot, NEW v, Verify(o, slot, v)
    PROVE  Own(o)
<1>1. pc[o] # "idle"
  BY DEF Verify
<1>2. Goto(o, "event") \/ Raise(o)
  BY DEF Verify
<1>3. QED
  BY <1>1, <1>2, OwnGoto, OwnRaise DEF Labels

LEMMA DeployOwn ==
    ASSUME TypeOK, DeployStep
    PROVE  Own("deploy")
<1> USE DEF Ops, Labels
<1>1. CASE DeployReadRow
  BY <1>1 DEF DeployReadRow, Own, TypeOK
<1>2. CASE DeployMarkReloading
  BY <1>2, OwnDone DEF DeployMarkReloading
<1>3. CASE DeployPost
  BY <1>3, OwnGoto DEF DeployPost, PostReload
<1>4. CASE DeployVerify
  BY <1>4, OwnVerify DEF DeployVerify
<1>5. CASE DeployRecordEvent
  BY <1>5, OwnDone DEF DeployRecordEvent, RecordEvent
<1>6. CASE DeployMarkReady
  BY <1>6, OwnDone DEF DeployMarkReady
<1>7. CASE DeployUpsert
  BY <1>7, OwnCompleted DEF DeployUpsert, Upsert
<1>8. CASE DeployFailed
  BY <1>8, OwnCompleted DEF DeployFailed
<1>9. QED
  BY <1>1, <1>2, <1>3, <1>4, <1>5, <1>6, <1>7, <1>8 DEF DeployStep

LEMMA PromoteOwn ==
    ASSUME TypeOK, PromoteStep
    PROVE  Own("promote")
<1> USE DEF Ops, Labels
<1>1. CASE PromoteObserve \/ PromoteReadRow
  BY <1>1 DEF PromoteObserve, PromoteReadRow, Own, TypeOK
<1>2. CASE PromoteMarkReloading
  BY <1>2, OwnDone DEF PromoteMarkReloading
<1>3. CASE PromoteRefused \/ PromotePost \/ PromoteSkipTraffic
  BY <1>3, OwnGoto DEF PromoteRefused, PromotePost, PostReload, PromoteSkipTraffic
<1>4. CASE PromoteVerify
  BY <1>4, OwnVerify DEF PromoteVerify
<1>5. CASE PromoteRecordEvent
  BY <1>5, OwnDone DEF PromoteRecordEvent, RecordEvent
<1>6. CASE PromoteSetChampion
  BY <1>6, OwnDone DEF PromoteSetChampion, SetChampion
<1>7. CASE PromoteGetCandidate
  BY <1>7, OwnGoto DEF PromoteGetCandidate
<1>8. CASE PromoteDeleteCandidate
  BY <1>8, OwnDone DEF PromoteDeleteCandidate
<1>9. CASE PromoteResetTraffic
  BY <1>9, OwnDone DEF PromoteResetTraffic, ResetTraffic
<1>10. CASE PromoteMarkDeployed
  BY <1>10, OwnDone DEF PromoteMarkDeployed
<1>11. CASE PromoteUpsert
  BY <1>11, OwnCompleted DEF PromoteUpsert, Upsert
<1>12. CASE PromoteFailed
  BY <1>12, OwnCompleted DEF PromoteFailed
<1>13. QED
  BY <1>1, <1>2, <1>3, <1>4, <1>5, <1>6, <1>7, <1>8, <1>9, <1>10, <1>11, <1>12
     DEF PromoteStep

LEMMA RollbackOwn ==
    ASSUME TypeOK, RollbackStep
    PROVE  Own("rollback_release")
<1> USE DEF Ops, Labels
<1>1. CASE RollbackCheckRequest
  BY <1>1 DEF RollbackCheckRequest, Goto, Exit, locals, Own, TypeOK
<1>2. CASE RollbackCheckAlias
  BY <1>2 DEF RollbackCheckAlias, Goto, Exit, locals, Own, TypeOK
<1>3. CASE RollbackResetTraffic
  BY <1>3, OwnDone DEF RollbackResetTraffic, ResetTraffic
<1>4. CASE RollbackSkipTraffic \/ RollbackPost
  BY <1>4, OwnGoto DEF RollbackSkipTraffic, RollbackPost, PostReload
<1>5. CASE RollbackObserve
  BY <1>5 DEF RollbackObserve, Exit, Own, TypeOK
<1>6. CASE RollbackVerify
  BY <1>6, OwnVerify DEF RollbackVerify
<1>7. CASE RollbackRecordEvent
  BY <1>7, OwnDone DEF RollbackRecordEvent, RecordEvent
<1>8. CASE RollbackSetChampion
  BY <1>8, OwnDone DEF RollbackSetChampion, SetChampion
<1>9. CASE RollbackMark
  BY <1>9, OwnDone DEF RollbackMark
<1>10. CASE RollbackUpsert
  BY <1>10, OwnCompleted DEF RollbackUpsert, Upsert
<1>11. QED
  BY <1>1, <1>2, <1>3, <1>4, <1>5, <1>6, <1>7, <1>8, <1>9, <1>10 DEF RollbackStep

LEMMA WithdrawOwn ==
    ASSUME TypeOK, WithdrawStep
    PROVE  Own("rollback_canary")
<1> USE DEF Ops, Labels
<1>1. CASE WithdrawTraffic
  BY <1>1, OwnDone DEF WithdrawTraffic, ResetTraffic
<1>2. CASE WithdrawPost
  BY <1>2, OwnGoto DEF WithdrawPost, PostReload
<1>3. CASE WithdrawVerify
  BY <1>3, OwnVerify DEF WithdrawVerify
<1>4. CASE WithdrawRecordEvent
  BY <1>4, OwnDone DEF WithdrawRecordEvent, RecordEvent
<1>5. CASE WithdrawMark
  BY <1>5, OwnCompleted DEF WithdrawMark
<1>6. QED
  BY <1>1, <1>2, <1>3, <1>4, <1>5 DEF WithdrawStep
-----------------------------------------------------------------------------
(* A server that handles a request moves its sender on, or nobody.         *)

Handles(slot) == Reload(slot) \/ RefuseReload(slot) \/ ReloadFails(slot)

LEMMA HandledOwn ==
    ASSUME IInv, NEW slot \in Slots, Handles(slot)
    PROVE  LET m == Head(inbox[slot])
           IN \/ /\ m.live /\ m.op \in Reloaders(slot) /\ Own(m.op)
                 /\ pc[m.op] = "await" /\ pc'[m.op] \in {"verify", "failing", "idle"}
              \/ UNCHANGED <<pc, locals>>
<1> DEFINE m == Head(inbox[slot])
<1>1. /\ m \in Message /\ m.op \in Reloaders(slot) /\ m.op \in Ops
      /\ m.live => pc[m.op] = "await"
  BY HeadSound, ReloadersDisjoint
     DEF Handles, Reload, RefuseReload, ReloadFails, Receive
<1>2. Reply(slot, m) \/ ReplyError(m)
  BY DEF Handles, Reload, RefuseReload, ReloadFails
<1>3. CASE ~m.live
  BY <1>2, <1>3 DEF Reply, ReplyError
<1>4. CASE m.live /\ Reply(slot, m)
  BY <1>1, <1>4 DEF Reply, Own, IInv, TypeOK
<1>5. CASE m.live /\ ReplyError(m)
  <2>1. Raise(m.op)
    BY <1>5 DEF ReplyError
  <2>2. Own(m.op)
    BY <1>1, <1>5, <2>1, OwnRaise DEF IInv
  <2>3. Moves(m.op, {"idle", "failing"})
    BY <1>1, <2>1, RaiseMoves DEF IInv
  <2>4. QED
    BY <1>1, <1>5, <2>2, <2>3 DEF Moves
<1>6. QED
  BY <1>2, <1>3, <1>4, <1>5

LEMMA FaultOwn ==
    ASSUME IInv, NEW o \in Ops, CallFails(o) \/ Crash(o) \/ Timeout(o)
    PROVE  Own(o) /\ pc'[o] \in {"idle", "failing"}
<1>1. pc[o] # "idle"
  BY DEF CallFails, Crash, Timeout
<1>2. CASE Raise(o)
  BY <1>1, <1>2, OwnRaise, RaiseMoves DEF IInv, Moves
<1>3. CASE Exit(o)
  BY <1>1, <1>3 DEF Exit, Own, IInv, TypeOK
<1>4. QED
  BY <1>2, <1>3 DEF CallFails, Crash, Timeout

\* A restarted server ends, or sends to the except block, the scripts that wait
\* for it, and leaves the others where they are.
LEMMA RestartMoves ==
    ASSUME IInv, NEW slot \in Slots, Restart(slot)
    PROVE  \A p \in Ops :
              \/ /\ p \in Reloaders(slot) /\ pc[p] = "await"
                 /\ pc'[p] \in {"idle", "failing"}
                 /\ pc'[p] # "idle" => arg'[p] = arg[p]
              \/ /\ pc'[p] = pc[p] /\ arg'[p] = arg[p]
                 /\ obs'[p] = obs[p] /\ row'[p] = row[p]
<1>1. \A p \in Waiting(slot) : p \in Reloaders(slot) /\ pc[p] = "await"
  BY DEF Waiting, IInv, RolloutInv, InboxSound
<1>2. QED
  BY <1>1 DEF Restart, Disconnect

\* Every step but an operator's: a script that runs afterwards ran before, for the
\* same request.
Continues == \A o \in Ops : pc'[o] # "idle" => pc[o] # "idle" /\ arg'[o] = arg[o]

LEMMA OwnContinues ==
    ASSUME NEW o \in Ops, Own(o)
    PROVE  Continues
BY DEF Own, Continues

LEMMA StepContinues ==
    ASSUME IInv, Script \/ Server \/ Fault
    PROVE  Continues
<1>1. CASE Script
  <2>1. \E o \in Ops : Own(o)
    BY <1>1, DeployOwn, PromoteOwn, RollbackOwn, WithdrawOwn DEF Script, IInv, Ops
  <2>2. QED
    BY <2>1, OwnContinues
<1>2. CASE Server
  <2>1. PICK slot \in Slots : Handles(slot)
    BY <1>2 DEF Server, Handles
  <2>2. (\E o \in Ops : Own(o)) \/ UNCHANGED <<pc, locals>>
    BY <2>1, HandledOwn, ReloadersDisjoint
  <2>3. QED
    BY <2>2, OwnContinues DEF Continues, locals
<1>3. CASE Fault
  <2>1. CASE \E o \in Ops : CallFails(o) \/ Crash(o) \/ Timeout(o)
    BY <2>1, FaultOwn, OwnContinues
  <2>2. CASE \E slot \in Slots : Restart(slot)
    BY <2>2, RestartMoves DEF Continues
  <2>3. QED
    BY <1>3, <2>1, <2>2 DEF Fault
<1>4. QED
  BY <1>1, <1>2, <1>3
-----------------------------------------------------------------------------
(* The version that a promotion expects to replace.                        *)

\* A promotion that asks for a reload, or waits for it, has read a version that
\* the request allows, and its outstanding request names that version.
LineageSound ==
    pc["promote"] \in {"post", "await"} =>
        /\ LineageHolds
        /\ \A i \in DOMAIN inbox["release"] :
              LET m == inbox["release"][i]
              IN m.op = "promote" /\ m.live => m.expected = obs["promote"]

\* The promotion's outstanding requests were outstanding before the step.
LiveKept ==
    \A i \in DOMAIN inbox'["release"] :
        inbox'["release"][i].op = "promote" /\ inbox'["release"][i].live =>
            \E j \in DOMAIN inbox["release"] : inbox["release"][j] = inbox'["release"][i]

\* A promotion that asks or waits for a reload afterwards did so before the step.
PromoteStays ==
    pc'["promote"] \in {"post", "await"} =>
        /\ pc["promote"] = pc'["promote"]
        /\ arg'["promote"] = arg["promote"] /\ obs'["promote"] = obs["promote"]

LEMMA LineageKept ==
    ASSUME IInv, LineageSound, Grows, LiveKept, PromoteStays
    PROVE  LineageSound'
<1> SUFFICES ASSUME pc'["promote"] \in {"post", "await"}
             PROVE  /\ LineageHolds'
                    /\ \A i \in DOMAIN inbox'["release"] :
                          LET m == inbox'["release"][i]
                          IN m.op = "promote" /\ m.live => m.expected = obs'["promote"]
  BY DEF LineageSound
<1>1. /\ pc["promote"] \in {"post", "await"} /\ arg'["promote"] = arg["promote"]
      /\ obs'["promote"] = obs["promote"]
  BY DEF PromoteStays
<1>2. Known(arg["promote"])
  BY <1>1 DEF IInv, RolloutInv, PromoteSound
<1>3. PromoteRequest' = PromoteRequest
  BY <1>1, <1>2 DEF Known, Grows, PromoteRequest
<1>4. QED
  BY <1>1, <1>3 DEF LineageSound, LiveKept, LineageHolds

LEMMA SameInboxLive ==
    ASSUME inbox'["release"] = inbox["release"]
    PROVE  LiveKept
BY DEF LiveKept

LEMMA TailLive ==
    ASSUME IInv, NEW slot \in Slots, Receive(slot)
    PROVE  LiveKept
<1>1. CASE slot = "release"
  <2>1. /\ inbox["release"] \in Seq(Message) /\ inbox["release"] # << >>
        /\ inbox'["release"] = Tail(inbox["release"])
    BY <1>1 DEF Receive, IInv, TypeOK
  <2>2. \A i \in DOMAIN inbox'["release"] :
           i + 1 \in DOMAIN inbox["release"] /\ inbox'["release"][i] = inbox["release"][i + 1]
    BY <2>1
  <2>3. QED
    BY <2>2 DEF LiveKept
<1>2. CASE slot # "release"
  BY <1>2, SameInboxLive DEF Receive, IInv, TypeOK, Slots
<1>3. QED
  BY <1>1, <1>2

LEMMA AbandonLive ==
    ASSUME IInv, NEW o \in Ops, Abandon(o)
    PROVE  LiveKept
<1>1. inbox["release"] \in Seq(Message)
  BY DEF IInv, TypeOK, Slots
<1>2. /\ DOMAIN inbox'["release"] = DOMAIN inbox["release"]
      /\ \A i \in DOMAIN inbox["release"] :
            inbox'["release"][i] = IF inbox["release"][i].op = o
                                   THEN [inbox["release"][i] EXCEPT !.live = FALSE]
                                   ELSE inbox["release"][i]
  BY DEF Abandon, Slots
<1>3. \A i \in DOMAIN inbox["release"] : inbox["release"][i] \in Message
  BY <1>1
<1>4. QED
  BY <1>2, <1>3 DEF LiveKept, Message

LEMMA PostLive ==
    ASSUME IInv, NEW o \in Ops \ {"promote"}, NEW slot \in Slots, NEW v, NEW expected,
           PostReload(o, slot, v, expected)
    PROVE  LiveKept
<1> DEFINE new == [op |-> o, version |-> v, expected |-> expected, live |-> TRUE]
<1>1. CASE slot = "release"
  <2>1. /\ inbox["release"] \in Seq(Message)
        /\ inbox'["release"] = Append(inbox["release"], new)
    BY <1>1 DEF PostReload, IInv, TypeOK
  <2>2. \A i \in DOMAIN inbox'["release"] :
           \/ i \in DOMAIN inbox["release"] /\ inbox'["release"][i] = inbox["release"][i]
           \/ inbox'["release"][i] = new
    BY <2>1
  <2>3. new.op # "promote"
    OBVIOUS
  <2>4. QED
    BY <2>2, <2>3 DEF LiveKept
<1>2. CASE slot # "release"
  BY <1>2, SameInboxLive DEF PostReload, IInv, TypeOK, Slots
<1>3. QED
  BY <1>1, <1>2

\* A step of another script.
LEMMA OtherLineage ==
    ASSUME IInv, LineageSound, NEW o \in Ops \ {"promote"}, Own(o), Grows, LiveKept
    PROVE  LineageSound'
<1>1. PromoteStays
  BY DEF Own, PromoteStays, Ops
<1>2. QED
  BY <1>1, LineageKept

LEMMA ScriptsLineage ==
    ASSUME IInv, LineageSound, DeployStep \/ RollbackStep \/ WithdrawStep
    PROVE  LineageSound'
<1> USE DEF Ops
<1>1. CASE DeployStep
  <2>1. Own("deploy")
    BY <1>1, DeployOwn DEF IInv
  <2>2. LiveKept
    BY <1>1, SameInboxLive, PostLive DEF DeployStep, DeployReadRow, DeployMarkReloading,
       DeployPost, DeployVerify, Verify, DeployRecordEvent, RecordEvent, DeployMarkReady,
       DeployUpsert, Upsert, DeployFailed, Mark, Slots
  <2>3. Grows
    BY <1>1 DEF DeployStep, DeployReadRow, DeployMarkReloading,
       DeployPost, PostReload, DeployVerify, Verify, DeployRecordEvent, RecordEvent,
       DeployMarkReady, DeployUpsert, Upsert, DeployFailed, Mark, store, Grows
  <2>4. QED
    BY <2>1, <2>2, <2>3, OtherLineage
<1>2. CASE RollbackStep
  <2>1. Own("rollback_release")
    BY <1>2, RollbackOwn DEF IInv
  <2>2. LiveKept
    BY <1>2, SameInboxLive, PostLive DEF RollbackStep, RollbackCheckRequest,
       RollbackCheckAlias, RollbackResetTraffic, ResetTraffic, RollbackSkipTraffic,
       RollbackObserve, RollbackPost, RollbackVerify, Verify, RollbackRecordEvent,
       RecordEvent, RollbackSetChampion, SetChampion, RollbackMark, Mark, RollbackUpsert,
       Upsert, Slots
  <2>3. Grows
    BY <1>2 DEF RollbackStep, RollbackCheckRequest,
       RollbackCheckAlias, RollbackResetTraffic, ResetTraffic, RollbackSkipTraffic,
       RollbackObserve, RollbackPost, PostReload, RollbackVerify, Verify,
       RollbackRecordEvent, RecordEvent, RollbackSetChampion, SetChampion, RollbackMark,
       Mark, RollbackUpsert, Upsert, store, Grows
  <2>4. QED
    BY <2>1, <2>2, <2>3, OtherLineage
<1>3. CASE WithdrawStep
  <2>1. Own("rollback_canary")
    BY <1>3, WithdrawOwn DEF IInv
  <2>2. LiveKept
    BY <1>3, SameInboxLive, PostLive DEF WithdrawStep, WithdrawTraffic, ResetTraffic,
       WithdrawPost, WithdrawVerify, Verify, WithdrawRecordEvent, RecordEvent,
       WithdrawMark, Mark, Slots
  <2>3. Grows
    BY <1>3 DEF WithdrawStep, WithdrawTraffic, ResetTraffic, WithdrawPost, PostReload,
       WithdrawVerify, Verify, WithdrawRecordEvent, RecordEvent, WithdrawMark, Mark,
       store, Grows
  <2>4. QED
    BY <2>1, <2>2, <2>3, OtherLineage
<1>4. QED
  BY <1>1, <1>2, <1>3

\* A script with no outstanding request has none in the inbox.
LEMMA NoLiveRequest ==
    ASSUME IInv, pc["promote"] # "await", NEW i \in DOMAIN inbox["release"],
           inbox["release"][i].op = "promote"
    PROVE  ~inbox["release"][i].live
BY DEF IInv, RolloutInv, InboxSound, Slots

LEMMA PromoteLineage ==
    ASSUME IInv, LineageSound, PromoteStep
    PROVE  LineageSound'
<1> DEFINE o == "promote"
<1>1. Own(o)
  BY PromoteOwn DEF IInv
<1>2. CASE PromoteMarkReloading
  <2>1. LineageHolds /\ pc[o] = "mark_reloading" /\ UNCHANGED <<request, inbox>>
    BY <1>2 DEF PromoteMarkReloading, Mark
  <2>2. CASE Goto(o, "post")
    BY <2>1, <2>2, NoLiveRequest
       DEF Goto, locals, LineageSound, LineageHolds, PromoteRequest
  <2>3. CASE Raise(o)
    <3>1. pc'[o] \in {"idle", "failing"}
      BY <2>3, RaiseMoves DEF Moves, IInv, Ops
    <3>2. QED
      BY <3>1 DEF LineageSound
  <2>4. QED
    BY <1>2, <2>2, <2>3 DEF PromoteMarkReloading, Done
<1>3. CASE PromotePost
  <2> DEFINE new == [op |-> o, version |-> PromoteRequest.source, expected |-> obs[o],
                     live |-> TRUE]
  <2>1. /\ pc[o] = "post" /\ UNCHANGED <<request, arg, obs>>
        /\ inbox["release"] \in Seq(Message)
        /\ inbox'["release"] = Append(inbox["release"], new)
    BY <1>3 DEF PromotePost, PostReload, Goto, locals, store, IInv, TypeOK, Slots
  <2>2. \A i \in DOMAIN inbox'["release"] :
           \/ i \in DOMAIN inbox["release"] /\ inbox'["release"][i] = inbox["release"][i]
           \/ inbox'["release"][i] = new
    BY <2>1
  <2>3. new.expected = obs[o]
    OBVIOUS
  <2>4. LineageHolds
    BY <2>1 DEF LineageSound
  <2>5. QED
    BY <2>1, <2>2, <2>3, <2>4, NoLiveRequest DEF LineageSound, LineageHolds, PromoteRequest
<1>4. CASE ~PromoteMarkReloading /\ ~PromotePost
  <2>1. pc'[o] \notin {"post", "await"}
    <3>1. ASSUME NEW l \in Labels \ {"post", "await"}, Done(o, l)
          PROVE  pc'[o] \notin {"post", "await"}
      BY <3>1, DoneMoves DEF Moves, IInv, Ops
    <3>2. ASSUME NEW l \in Labels \ {"post", "await"}, Goto(o, l)
          PROVE  pc'[o] \notin {"post", "await"}
      BY <3>2, GotoMoves DEF Moves, IInv, Ops
    <3>3. ASSUME Completed(o)
          PROVE  pc'[o] \notin {"post", "await"}
      BY <3>3, CompletedMoves DEF Moves, IInv, Ops
    <3>4. ASSUME Raise(o)
          PROVE  pc'[o] \notin {"post", "await"}
      BY <3>4, RaiseMoves DEF Moves, IInv, Ops
    <3>5. CASE PromoteObserve \/ PromoteReadRow
      BY <3>5 DEF PromoteObserve, PromoteReadRow, IInv, TypeOK, Ops
    <3>6. CASE PromoteRefused \/ PromoteGetCandidate \/ PromoteSkipTraffic
      BY <3>2, <3>6 DEF PromoteRefused, PromoteGetCandidate, PromoteSkipTraffic, Labels
    <3>7. CASE PromoteVerify
      BY <3>2, <3>4, <3>7 DEF PromoteVerify, Verify, Labels
    <3>8. CASE \/ PromoteRecordEvent \/ PromoteSetChampion \/ PromoteDeleteCandidate
               \/ PromoteResetTraffic \/ PromoteMarkDeployed
      BY <3>1, <3>8 DEF PromoteRecordEvent, PromoteSetChampion, PromoteDeleteCandidate,
         PromoteResetTraffic, PromoteMarkDeployed, Labels
    <3>9. CASE PromoteUpsert \/ PromoteFailed
      BY <3>3, <3>9 DEF PromoteUpsert, PromoteFailed
    <3>10. QED
      BY <1>4, <3>5, <3>6, <3>7, <3>8, <3>9 DEF PromoteStep
  <2>2. QED
    BY <2>1 DEF LineageSound
<1>5. QED
  BY <1>2, <1>3, <1>4

LEMMA ServerLineage ==
    ASSUME IInv, LineageSound, NEW slot \in Slots, Handles(slot)
    PROVE  LineageSound'
<1> DEFINE m == Head(inbox[slot])
<1>1. Grows /\ Receive(slot)
  BY DEF Handles, Reload, RefuseReload, ReloadFails, store, Grows
<1>2. LiveKept
  BY <1>1, TailLive
<1>3. PromoteStays
  <2>1. CASE UNCHANGED <<pc, locals>>
    BY <2>1 DEF PromoteStays, locals
  <2>2. CASE Own(m.op) /\ pc'[m.op] \in {"verify", "failing", "idle"}
    BY <2>2 DEF Own, PromoteStays, Ops
  <2>3. QED
    BY <2>1, <2>2, HandledOwn
<1>4. QED
  BY <1>1, <1>2, <1>3, LineageKept

LEMMA FaultLineage ==
    ASSUME IInv, LineageSound, Fault
    PROVE  LineageSound'
<1>1. ASSUME NEW o \in Ops, CallFails(o) \/ Crash(o) \/ Timeout(o)
      PROVE  LineageSound'
  <2>1. Own(o) /\ pc'[o] \in {"idle", "failing"}
    BY <1>1, FaultOwn
  <2>2. Grows /\ LiveKept
    BY <1>1, AbandonLive, SameInboxLive DEF CallFails, Crash, Timeout, store, Grows
  <2>3. PromoteStays
    BY <2>1 DEF Own, PromoteStays, Ops
  <2>4. QED
    BY <2>2, <2>3, LineageKept
<1>2. ASSUME NEW slot \in Slots, Restart(slot)
      PROVE  LineageSound'
  <2>1. Grows
    BY <1>2 DEF Restart, Grows
  <2>2. LiveKept
    <3>1. inbox'["release"] \in {inbox["release"], << >>}
      BY <1>2 DEF Restart, Disconnect, Slots, IInv, TypeOK
    <3>2. QED
      BY <3>1, SameInboxLive DEF LiveKept
  <2>3. PromoteStays
    BY <1>2, RestartMoves DEF PromoteStays, Ops
  <2>4. QED
    BY <2>1, <2>2, <2>3, LineageKept
<1>3. QED
  BY <1>1, <1>2 DEF Fault

LEMMA OperatorLineage ==
    ASSUME IInv, LineageSound, Operator
    PROVE  LineageSound'
<1>1. Grows /\ LiveKept
  BY SameInboxLive DEF Operator, RegisterCandidate, RecordRequest, SetTraffic,
     DeployStart, PromoteStart, RollbackStart, WithdrawStart, store, Grows, IInv, TypeOK
<1>2. PromoteStays
  BY DEF Operator, RegisterCandidate, RecordRequest, SetTraffic, DeployStart,
     PromoteStart, RollbackStart, WithdrawStart, Start, PromoteStays, locals, IInv, TypeOK,
     Ops
<1>3. QED
  BY <1>1, <1>2, LineageKept

LEMMA LineageInductive == IInv /\ LineageSound /\ [Next]_vars => LineageSound'
<1> SUFFICES ASSUME IInv, LineageSound, [Next]_vars
             PROVE  LineageSound'
  OBVIOUS
<1>1. CASE Operator
  BY <1>1, OperatorLineage
<1>2. CASE Script
  BY <1>2, ScriptsLineage, PromoteLineage DEF Script
<1>3. CASE Server
  BY <1>3, ServerLineage DEF Server, Handles
<1>4. CASE Fault
  BY <1>4, FaultLineage
<1>5. CASE UNCHANGED vars
  BY <1>5 DEF vars, LineageSound, LineageHolds, PromoteRequest
<1>6. QED
  BY <1>1, <1>2, <1>3, <1>4, <1>5 DEF Next

\* A promotion reaches the verification of its reload only by the answer of the
\* release server to its own request.
LEMMA LineageStep ==
    ASSUME IInv, LineageSound, [Next]_vars,
           pc["promote"] = "await", pc'["promote"] = "verify", obs["promote"] # None
    PROVE  runtime["release"] \in {PromoteRequest.source, PromoteRequest.previous}
<1>1. ~Operator
  BY DEF Operator, RegisterCandidate, RecordRequest, SetTraffic, DeployStart,
     PromoteStart, RollbackStart, WithdrawStart, Start, MayStart, locals, IInv, TypeOK, Ops
<1>2. ~Script
  <2>1. ~PromoteStep
    BY DEF PromoteStep, PromoteObserve, PromoteReadRow, PromoteMarkReloading,
       PromoteRefused, PromotePost, PostReload, PromoteVerify, Verify,
       PromoteRecordEvent, RecordEvent, PromoteSetChampion, SetChampion,
       PromoteGetCandidate, PromoteDeleteCandidate, PromoteResetTraffic,
       ResetTraffic, PromoteSkipTraffic, PromoteMarkDeployed, PromoteUpsert,
       Upsert, PromoteFailed
  <2>2. ~Own("deploy") /\ ~Own("rollback_release") /\ ~Own("rollback_canary")
    BY DEF Own, Ops
  <2>3. QED
    BY <2>1, <2>2, DeployOwn, RollbackOwn, WithdrawOwn DEF Script, IInv
<1>3. ~Fault
  <2>1. ASSUME NEW o \in Ops, CallFails(o) \/ Crash(o) \/ Timeout(o)
        PROVE  FALSE
    BY <2>1, FaultOwn DEF Own, Ops
  <2>2. ASSUME NEW slot \in Slots, Restart(slot)
        PROVE  FALSE
    BY <2>2, RestartMoves DEF Ops
  <2>3. QED
    BY <2>1, <2>2 DEF Fault
<1>4. PICK slot \in Slots : Handles(slot)
  BY <1>1, <1>2, <1>3 DEF Next, Server, Handles, vars
<1> DEFINE m == Head(inbox[slot])
<1>5. m.live /\ m.op = "promote" /\ m.op \in Reloaders(slot)
  BY <1>4, HandledOwn DEF Own, Ops, locals
<1>6. slot = "release"
  BY <1>5 DEF Reloaders
<1>7. Accepts(slot, m)
  <2>1. CASE Reload(slot) \/ ReloadFails(slot)
    BY <2>1 DEF Reload, ReloadFails
  <2>2. CASE RefuseReload(slot)
    <3>1. Raise("promote")
      BY <1>5, <2>2 DEF RefuseReload, ReplyError
    <3>2. QED
      BY <3>1, RaiseMoves DEF Moves, IInv, Ops
  <2>3. QED
    BY <1>4, <2>1, <2>2 DEF Handles
<1>8. m.expected = obs["promote"]
  <2>1. inbox["release"] \in Seq(Message) /\ inbox["release"] # << >>
    BY <1>4, <1>6 DEF Handles, Reload, RefuseReload, ReloadFails, Receive, IInv, TypeOK
  <2>2. 1 \in DOMAIN inbox["release"] /\ m = inbox["release"][1]
    BY <1>6, <2>1
  <2>3. QED
    BY <1>5, <2>2 DEF LineageSound
<1>9. QED
  BY <1>6, <1>7, <1>8 DEF Accepts, LineageSound, LineageHolds

\* A promotion that could read the release's metadata replaces only the version its
\* candidate was compared with or the candidate itself, however many scripts run
\* and whatever restarts (promote_candidate_to_release.py, runtime/app.py).
THEOREM EvaluatedLineageHolds == Spec => EvaluatedLineage
<1>1. Init => LineageSound
  BY DEF Init, LineageSound, Ops
<1>2. IInv /\ LineageSound /\ [Next]_vars => LineageSound'
  BY LineageInductive
<1>3. IInv /\ LineageSound /\ [Next]_vars =>
        [ /\ pc["promote"] = "await" /\ pc'["promote"] = "verify"
          /\ obs["promote"] # None
          => runtime["release"] \in {PromoteRequest.source, PromoteRequest.previous} ]_vars
  BY LineageStep
<1>4. QED
  BY <1>1, <1>2, <1>3, InvariantHolds, PTL DEF Spec, EvaluatedLineage
-----------------------------------------------------------------------------
(* Scripts that run one after the other.                                   *)

RunsAlone == \A o, p \in Ops : pc[o] # "idle" /\ pc[p] # "idle" => o = p

\* A request that a deployment or a promotion works on is not rolled back.
NotWithdrawn == \A o \in Guarded : pc[o] # "idle" => status[arg[o]] # "rolled_back"

\* A canary rollback that has taken the canary out of the traffic finds it there.
WithdrawLate == {"post", "await", "verify", "event", "mark_done"}
OutOfTraffic == pc["rollback_canary"] \in WithdrawLate => percent = 0

SerialInv == RunsAlone /\ NotWithdrawn /\ OutOfTraffic

LEMMA NobodyRuns ==
    ASSUME MaxActive = 1, MayRun
    PROVE  \A o \in Ops : pc[o] = "idle"
<1>1. IsFiniteSet(Ops)
  <2>1. Ops = {"deploy"} \cup ({"promote"} \cup ({"rollback_release"} \cup {"rollback_canary"}))
    BY DEF Ops
  <2>2. \A o : IsFiniteSet({o})
    BY FS_Singleton
  <2>3. QED
    BY <2>1, <2>2, FS_Union
<1>2. IsFiniteSet(Active)
  BY <1>1, FS_Subset DEF Active
<1>3. Cardinality(Active) = 0
  BY <1>2, FS_CardinalityType DEF MayRun
<1>4. Active = {}
  BY <1>2, <1>3, FS_EmptySet
<1>5. QED
  BY <1>4 DEF Active

LEMMA ContinuesAlone ==
    ASSUME RunsAlone, Continues
    PROVE  RunsAlone'
BY DEF RunsAlone, Continues

\* A step of a script changes no status, or marks the request of that script.
Marks(o) ==
    \/ UNCHANGED status
    \/ \E to \in Statuses : /\ Mark(o, to)
                            /\ o \in Guarded => to # "rolled_back"
                            /\ o \notin Guarded => to = "rolled_back"

LEMMA DeployMarks ==
    ASSUME DeployStep
    PROVE  Marks("deploy")
BY DEF DeployStep, DeployReadRow, DeployMarkReloading, DeployPost, PostReload,
   DeployVerify, Verify, DeployRecordEvent, RecordEvent, DeployMarkReady, DeployUpsert,
   Upsert, DeployFailed, store, Statuses, Guarded, Marks

LEMMA PromoteMarks ==
    ASSUME PromoteStep
    PROVE  Marks("promote")
BY DEF PromoteStep, PromoteObserve, PromoteReadRow, PromoteMarkReloading, PromoteRefused,
   PromotePost, PostReload, PromoteVerify, Verify, PromoteRecordEvent, RecordEvent,
   PromoteSetChampion, SetChampion, PromoteGetCandidate, PromoteDeleteCandidate,
   PromoteResetTraffic, ResetTraffic, PromoteSkipTraffic, PromoteMarkDeployed,
   PromoteUpsert, Upsert, PromoteFailed, store, Statuses, Guarded, Marks

LEMMA RollbackMarks ==
    ASSUME RollbackStep
    PROVE  Marks("rollback_release")
BY DEF RollbackStep, RollbackCheckRequest, RollbackCheckAlias, RollbackResetTraffic,
   ResetTraffic, RollbackSkipTraffic, RollbackObserve, RollbackPost, PostReload,
   RollbackVerify, Verify, RollbackRecordEvent, RecordEvent, RollbackSetChampion,
   SetChampion, RollbackMark, RollbackUpsert, Upsert, store, Statuses, Guarded, Marks

LEMMA WithdrawMarks ==
    ASSUME WithdrawStep
    PROVE  Marks("rollback_canary")
BY DEF WithdrawStep, WithdrawTraffic, ResetTraffic, WithdrawPost, PostReload,
   WithdrawVerify, Verify, WithdrawRecordEvent, RecordEvent, WithdrawMark, store,
   Statuses, Guarded, Marks

\* The scripts that have a step.
LEMMA ScriptMarks ==
    ASSUME IInv, Script
    PROVE  \E o \in Ops : Own(o) /\ Marks(o)
BY DeployOwn, PromoteOwn, RollbackOwn, WithdrawOwn, DeployMarks, PromoteMarks,
   RollbackMarks, WithdrawMarks DEF Script, IInv, Ops

LEMMA StatusKept ==
    ASSUME Operator \/ Server \/ Fault
    PROVE  UNCHANGED status
BY DEF Operator, RegisterCandidate, RecordRequest, SetTraffic, DeployStart, PromoteStart,
   RollbackStart, WithdrawStart, Server, Reload, RefuseReload, ReloadFails, Fault,
   CallFails, Crash, Timeout, Restart, store

LEMMA MarksNotWithdrawn ==
    ASSUME IInv, RunsAlone, NotWithdrawn, NEW o \in Ops, Own(o), Marks(o)
    PROVE  /\ NotWithdrawn'
           /\ \A r \in Requests : status[r] = "rolled_back" => status'[r] = "rolled_back"
<1>1. Guarded \subseteq Ops
  BY DEF Guarded, Ops
<1>2. \A p \in Guarded : pc'[p] # "idle" => p = o /\ pc[p] # "idle" /\ arg'[p] = arg[p]
  BY <1>1 DEF Own, RunsAlone
<1>3. CASE UNCHANGED status
  BY <1>2, <1>3 DEF NotWithdrawn
<1>4. ASSUME NEW to \in Statuses, Mark(o, to),
             o \in Guarded => to # "rolled_back", o \notin Guarded => to = "rolled_back"
      PROVE  /\ NotWithdrawn'
             /\ \A r \in Requests : status[r] = "rolled_back" => status'[r] = "rolled_back"
  <2>1. \A r \in Requests : status'[r] = IF r = arg[o] THEN to ELSE status[r]
    BY <1>4 DEF Mark, IInv, TypeOK
  <2>2. NotWithdrawn'
    <3>1. \A p \in Guarded : pc[p] # "idle" => arg[p] \in Requests
      BY DEF Guarded, IInv, RolloutInv, DeploySound, PromoteSound, Known
    <3>2. QED
      BY <1>2, <1>4, <2>1, <3>1 DEF NotWithdrawn
  <2>3. QED
    BY <1>4, <2>1, <2>2 DEF NotWithdrawn, Own
<1>5. QED
  BY <1>3, <1>4 DEF Marks

\* The canary share of the traffic.
LEMMA TrafficKept ==
    ASSUME UNCHANGED percent,
           pc'["rollback_canary"] \in WithdrawLate =>
               pc["rollback_canary"] \in WithdrawLate,
           OutOfTraffic
    PROVE  OutOfTraffic'
BY DEF OutOfTraffic

LEMMA ScriptTraffic ==
    ASSUME IInv, RunsAlone, OutOfTraffic, Script
    PROVE  OutOfTraffic'
<1> USE DEF Ops
<1>1. ASSUME NEW o \in Ops \ {"rollback_canary"}, Own(o)
      PROVE  OutOfTraffic'
  BY <1>1 DEF Own, RunsAlone, OutOfTraffic, WithdrawLate
<1>2. CASE WithdrawTraffic
  BY <1>2 DEF WithdrawTraffic, ResetTraffic, OutOfTraffic
<1>3. CASE WithdrawStep /\ ~WithdrawTraffic
  BY <1>3, TrafficKept DEF WithdrawStep, WithdrawPost, PostReload, WithdrawVerify, Verify,
     WithdrawRecordEvent, RecordEvent, WithdrawMark, Mark, WithdrawLate
<1>4. QED
  BY <1>1, <1>2, <1>3, DeployOwn, PromoteOwn, RollbackOwn DEF Script, IInv

LEMMA ServerTraffic ==
    ASSUME IInv, OutOfTraffic, Server
    PROVE  OutOfTraffic'
<1>1. PICK slot \in Slots : Handles(slot)
  BY DEF Server, Handles
<1>2. UNCHANGED percent
  BY <1>1 DEF Handles, Reload, RefuseReload, ReloadFails
<1>3. \/ pc'["rollback_canary"] \in {pc["rollback_canary"], "idle", "failing"}
      \/ pc["rollback_canary"] = "await"
  BY <1>1, HandledOwn DEF Own, locals, Ops
<1>4. QED
  BY <1>2, <1>3, TrafficKept DEF WithdrawLate

LEMMA FaultTraffic ==
    ASSUME IInv, OutOfTraffic, Fault
    PROVE  OutOfTraffic'
<1>1. UNCHANGED percent
  BY DEF Fault, CallFails, Crash, Timeout, Restart
<1>2. pc'["rollback_canary"] \in {pc["rollback_canary"], "idle", "failing"}
  <2>1. ASSUME NEW o \in Ops, CallFails(o) \/ Crash(o) \/ Timeout(o)
        PROVE  pc'["rollback_canary"] \in {pc["rollback_canary"], "idle", "failing"}
    BY <2>1, FaultOwn DEF Own, Ops
  <2>2. QED
    BY <2>1, RestartMoves DEF Fault, Ops
<1>3. QED
  BY <1>1, <1>2, TrafficKept DEF WithdrawLate

\* No script runs when an operator starts one, or changes the traffic.
LEMMA OperatorSerial ==
    ASSUME MaxActive = 1, IInv, SerialInv, Operator
    PROVE  SerialInv'
<1>1. CASE UNCHANGED <<pc, locals, percent>>
  <2>1. UNCHANGED status
    BY StatusKept
  <2>2. QED
    BY <1>1, <2>1 DEF SerialInv, RunsAlone, NotWithdrawn, OutOfTraffic, locals
<1>2. CASE \E p \in Percents : SetTraffic(p)
  <2>1. \A o \in Ops : pc[o] = "idle"
    BY <1>2, NobodyRuns DEF SetTraffic
  <2>2. pc' = pc
    BY <1>2 DEF SetTraffic
  <2>3. Guarded \subseteq Ops /\ "rollback_canary" \in Ops
    BY DEF Guarded, Ops
  <2>4. QED
    BY <2>1, <2>2, <2>3 DEF SerialInv, RunsAlone, NotWithdrawn, OutOfTraffic, WithdrawLate
<1>3. ASSUME NEW o \in Ops, NEW r, NEW l \in Labels \ WithdrawLate,
             MayStart(o), pc' = [pc EXCEPT ![o] = l], arg' = [arg EXCEPT ![o] = r],
             o \in Guarded => status[r] # "rolled_back"
      PROVE  SerialInv'
  <2>1. \A p \in Ops : pc[p] = "idle"
    BY <1>3, NobodyRuns DEF MayStart
  <2>2. /\ \A p \in Ops \ {o} : pc'[p] = "idle"
        /\ pc'[o] = l /\ arg'[o] = r
    BY <1>3, <2>1 DEF IInv, TypeOK
  <2>3. UNCHANGED status
    BY StatusKept
  <2>4. Guarded \subseteq Ops /\ "rollback_canary" \in Ops
    BY DEF Guarded, Ops
  <2>5. RunsAlone'
    BY <2>2 DEF RunsAlone
  <2>6. NotWithdrawn'
    BY <1>3, <2>2, <2>3, <2>4 DEF NotWithdrawn
  <2>7. OutOfTraffic'
    BY <1>3, <2>2, <2>4 DEF OutOfTraffic, WithdrawLate
  <2>8. QED
    BY <2>5, <2>6, <2>7 DEF SerialInv
<1>4. CASE \E r \in Requests : DeployStart(r)
  BY <1>3, <1>4 DEF DeployStart, CanaryDeployable, CanaryDeployableStatuses, Start, Ops,
     Labels, WithdrawLate
<1>5. CASE \E r \in Requests : PromoteStart(r)
  BY <1>3, <1>5 DEF PromoteStart, ReleasePromotable, ReleasePromotableStatuses, Start,
     Ops, Labels, WithdrawLate
<1>6. CASE RollbackStart
  BY <1>3, <1>6 DEF RollbackStart, Guarded, Ops, Labels, WithdrawLate
<1>7. CASE \E r \in Requests : WithdrawStart(r)
  BY <1>3, <1>7 DEF WithdrawStart, Start, Guarded, Ops, Labels, WithdrawLate
<1>8. QED
  BY <1>1, <1>2, <1>4, <1>5, <1>6, <1>7 DEF Operator, RegisterCandidate, RecordRequest

LEMMA SerialInductive ==
    ASSUME MaxActive = 1
    PROVE  IInv /\ SerialInv /\ [Next]_vars => SerialInv'
<1> SUFFICES ASSUME IInv, SerialInv, [Next]_vars
             PROVE  SerialInv'
  OBVIOUS
<1>1. CASE Operator
  BY <1>1, OperatorSerial
<1>2. CASE Script \/ Server \/ Fault
  <2>1. RunsAlone'
    BY <1>2, StepContinues, ContinuesAlone DEF SerialInv
  <2>2. NotWithdrawn'
    <3>1. CASE Script
      BY <3>1, ScriptMarks, MarksNotWithdrawn DEF SerialInv
    <3>2. CASE Server \/ Fault
      <4>1. Continues /\ UNCHANGED status /\ Guarded \subseteq Ops
        BY <3>2, StepContinues, StatusKept DEF Guarded, Ops
      <4>2. QED
        BY <4>1 DEF SerialInv, NotWithdrawn, Continues
    <3>3. QED
      BY <1>2, <3>1, <3>2
  <2>3. OutOfTraffic'
    BY <1>2, ScriptTraffic, ServerTraffic, FaultTraffic DEF SerialInv
  <2>4. QED
    BY <2>1, <2>2, <2>3 DEF SerialInv
<1>3. CASE UNCHANGED vars
  BY <1>3 DEF vars, SerialInv, RunsAlone, NotWithdrawn, OutOfTraffic
<1>4. QED
  BY <1>1, <1>2, <1>3 DEF Next

LEMMA SerialInit == Init => SerialInv
BY DEF Init, SerialInv, RunsAlone, NotWithdrawn, OutOfTraffic, WithdrawLate, Guarded, Ops

\* What scripts that run one after the other find (the Airflow DAGs of
\* scripts/deployment when no two of them overlap).
THEOREM SerialInvHolds ==
    ASSUME MaxActive = 1
    PROVE  Spec => []SerialInv
<1>1. Init => SerialInv
  BY SerialInit
<1>2. IInv /\ SerialInv /\ [Next]_vars => SerialInv'
  BY SerialInductive
<1>3. QED
  BY <1>1, <1>2, InvariantHolds, PTL DEF Spec

\* A rolled back request stays rolled back when the scripts run one after the other,
\* whatever fails, is lost, times out, crashes or restarts.
THEOREM RolledBackStays ==
    ASSUME MaxActive = 1
    PROVE  Spec => RolledBackIsFinal
<1>1. IInv /\ SerialInv /\ [Next]_vars =>
        [ \A r \in Requests : status[r] = "rolled_back" => status'[r] = "rolled_back" ]_vars
  <2> SUFFICES ASSUME IInv, SerialInv, [Next]_vars
               PROVE  \A r \in Requests :
                          status[r] = "rolled_back" => status'[r] = "rolled_back"
    OBVIOUS
  <2>1. CASE Script
    BY <2>1, ScriptMarks, MarksNotWithdrawn DEF SerialInv
  <2>2. CASE Operator \/ Server \/ Fault
    BY <2>2, StatusKept
  <2>3. CASE UNCHANGED vars
    BY <2>3 DEF vars
  <2>4. QED
    BY <2>1, <2>2, <2>3 DEF Next
<1>2. QED
  BY <1>1, InvariantHolds, SerialInvHolds, PTL DEF Spec, RolledBackIsFinal

\* When a canary rollback completes, the canary gets no traffic: nothing that runs
\* between its two calls gives it any (rollback_candidate_canary.py).
THEOREM WithdrawnOutOfTraffic ==
    ASSUME MaxActive = 1
    PROVE  Spec => WithdrawnTakesNoTraffic
<1>1. SerialInv =>
        [ /\ pc["rollback_canary"] = "mark_done"
          /\ status[arg["rollback_canary"]] # "rolled_back"
          /\ status'[arg["rollback_canary"]] = "rolled_back"
          => percent = 0 ]_vars
  BY DEF SerialInv, OutOfTraffic, WithdrawLate
<1>2. QED
  BY <1>1, SerialInvHolds, PTL DEF Spec, WithdrawnTakesNoTraffic
-----------------------------------------------------------------------------
(* What a completed promotion or release rollback leaves.                  *)

PromoteVerified == {"event"} \cup PromoteLate
RollbackVerified == {"event"} \cup RollbackLate

\* After a promotion has verified its reload the release has no request left to
\* handle and keeps the version, and champion names it once it has been moved.
PromoteSettled ==
    pc["promote"] \in PromoteVerified =>
        /\ inbox["release"] = << >>
        /\ runtime["release"] = PromoteRequest.source
        /\ pc["promote"] \in PromoteLate \ {"set_alias"} =>
              champion = PromoteRequest.source

\* The same for a release rollback.
RollbackSettled ==
    pc["rollback_release"] \in RollbackVerified =>
        /\ inbox["release"] = << >>
        /\ runtime["release"] = RollbackRow.prev
        /\ pc["rollback_release"] \in RollbackLate \ {"set_alias"} =>
              champion = RollbackRow.prev

SettledInv == PromoteSettled /\ RollbackSettled

\* A script whose reload is verified afterwards was at that point before the step,
\* for the same request and with the same row.
SettledStays ==
    /\ pc'["promote"] \in PromoteVerified =>
          /\ pc["promote"] \in PromoteVerified
          /\ pc'["promote"] \in PromoteLate \ {"set_alias"} =>
                pc["promote"] \in PromoteLate \ {"set_alias"}
          /\ arg'["promote"] = arg["promote"]
    /\ pc'["rollback_release"] \in RollbackVerified =>
          /\ pc["rollback_release"] \in RollbackVerified
          /\ pc'["rollback_release"] \in RollbackLate \ {"set_alias"} =>
                pc["rollback_release"] \in RollbackLate \ {"set_alias"}
          /\ row'["rollback_release"] = row["rollback_release"]

\* A request that was recorded is not touched.
LEMMA SameRequest ==
    ASSUME IInv, Grows, pc["promote"] # "idle", arg'["promote"] = arg["promote"]
    PROVE  PromoteRequest' = PromoteRequest
BY DEF IInv, RolloutInv, PromoteSound, Known, Grows, PromoteRequest

LEMMA SettledKept ==
    ASSUME IInv, Grows, SettledInv, SettledStays,
           UNCHANGED champion,
           inbox["release"] = << >> =>
               inbox'["release"] = << >> /\ runtime'["release"] = runtime["release"]
    PROVE  SettledInv'
<1>1. PromoteSettled'
  <2> SUFFICES ASSUME pc'["promote"] \in PromoteVerified
               PROVE  /\ inbox'["release"] = << >>
                      /\ runtime'["release"] = PromoteRequest'.source
                      /\ pc'["promote"] \in PromoteLate \ {"set_alias"} =>
                            champion' = PromoteRequest'.source
    BY DEF PromoteSettled, PromoteVerified, PromoteLate
  <2>1. PromoteRequest' = PromoteRequest
    BY SameRequest DEF SettledStays, PromoteVerified, PromoteLate
  <2>2. QED
    BY <2>1 DEF SettledInv, PromoteSettled, SettledStays
<1>2. RollbackSettled'
  BY DEF RollbackSettled, RollbackVerified, RollbackLate, SettledInv, SettledStays,
         RollbackRow
<1>3. QED
  BY <1>1, <1>2 DEF SettledInv

\* Nothing is settled while another script runs.
LEMMA Unsettled ==
    ASSUME SerialInv, NEW o \in Ops \ {"promote", "rollback_release"}, Own(o)
    PROVE  SettledInv'
BY DEF SerialInv, RunsAlone, Own, SettledInv, PromoteSettled, RollbackSettled,
       PromoteVerified, PromoteLate, RollbackVerified, RollbackLate, Ops

LEMMA PromoteVerifies ==
    ASSUME IInv, Verify("promote", "release", PromoteRequest.source),
           RollbackSettled'
    PROVE  SettledInv'
<1>1. /\ pc'["promote"] \in {"event", "failing", "idle"}
      /\ pc'["promote"] = "event" =>
            /\ inbox["release"] = << >> /\ runtime["release"] = PromoteRequest.source
            /\ arg' = arg
  <2>1. CASE Goto("promote", "event")
    <3>1. ~Raise("promote")
      BY <2>1, RaiseMoves DEF Goto, Moves, IInv, TypeOK, Ops
    <3>2. QED
      BY <2>1, <3>1 DEF Verify, Readable, Goto, locals, IInv, TypeOK, Ops
  <2>2. CASE Raise("promote")
    BY <2>2, RaiseMoves DEF Moves, IInv, Ops
  <2>3. QED
    BY <2>1, <2>2 DEF Verify
<1>2. UNCHANGED <<inbox, runtime, request>>
  BY DEF Verify, store
<1>3. PromoteSettled'
  BY <1>1, <1>2 DEF PromoteSettled, PromoteVerified, PromoteLate, PromoteRequest
<1>4. QED
  BY <1>3 DEF SettledInv

LEMMA PromoteSettles ==
    ASSUME IInv, SerialInv, SettledInv, PromoteStep
    PROVE  SettledInv'
<1> USE DEF Ops
<1> DEFINE o == "promote"
<1>1. Own(o)
  BY PromoteOwn DEF IInv
<1>2. RollbackSettled'
  BY <1>1 DEF Own, SerialInv, RunsAlone, RollbackSettled, RollbackVerified, RollbackLate
<1>3. pc'[o] # "idle" => PromoteRequest' = PromoteRequest
  <2>1. UNCHANGED request
    BY DEF PromoteStep, PromoteObserve, PromoteReadRow, PromoteMarkReloading,
       PromoteRefused, PromotePost, PostReload, PromoteVerify, Verify,
       PromoteRecordEvent, RecordEvent, PromoteSetChampion, SetChampion,
       PromoteGetCandidate, PromoteDeleteCandidate, PromoteResetTraffic,
       ResetTraffic, PromoteSkipTraffic, PromoteMarkDeployed, PromoteUpsert,
       Upsert, PromoteFailed, Mark, store
  <2>2. QED
    BY <1>1, <2>1 DEF Own, PromoteRequest
<1>4. ASSUME NEW l \in Labels, Done(o, l) \/ Goto(o, l)
      PROVE  pc'[o] \in {l, "idle", "failing"}
  BY <1>4, DoneMoves, GotoMoves DEF Moves, IInv
<1>5. CASE PromoteVerify
  BY <1>2, <1>5, PromoteVerifies DEF PromoteVerify
<1>6. CASE PromoteRecordEvent
  <2>1. pc[o] = "event" /\ pc'[o] \in {"set_alias", "idle", "failing"}
    BY <1>4, <1>6 DEF PromoteRecordEvent, RecordEvent, Labels
  <2>2. UNCHANGED <<runtime, inbox>>
    BY <1>6 DEF PromoteRecordEvent, RecordEvent
  <2>3. QED
    BY <1>2, <1>3, <2>1, <2>2 DEF SettledInv, PromoteSettled, PromoteVerified, PromoteLate
<1>7. CASE PromoteSetChampion
  <2>1. pc[o] = "set_alias" /\ pc'[o] \in {"get_candidate", "idle", "failing"}
    BY <1>4, <1>7 DEF PromoteSetChampion, SetChampion, Labels
  <2>2. UNCHANGED <<runtime, inbox>> /\ champion' = PromoteRequest.source
    BY <1>7 DEF PromoteSetChampion, SetChampion
  <2>3. QED
    BY <1>2, <1>3, <2>1, <2>2 DEF SettledInv, PromoteSettled, PromoteVerified, PromoteLate
<1>8. CASE \/ PromoteGetCandidate \/ PromoteDeleteCandidate \/ PromoteResetTraffic
           \/ PromoteSkipTraffic \/ PromoteMarkDeployed
  <2>1. /\ pc[o] \in PromoteLate \ {"set_alias"}
        /\ UNCHANGED <<runtime, inbox, champion>>
    BY <1>8 DEF PromoteGetCandidate, PromoteDeleteCandidate, PromoteResetTraffic,
       ResetTraffic, PromoteSkipTraffic, PromoteMarkDeployed, Mark, PromoteLate
  <2>2. QED
    BY <1>2, <1>3, <2>1 DEF SettledInv, PromoteSettled, PromoteVerified, PromoteLate
<1>9. CASE PromoteUpsert \/ PromoteFailed
  <2>1. pc'[o] \in {"idle", "failing"}
    BY <1>9, CompletedMoves DEF PromoteUpsert, PromoteFailed, Moves, IInv
  <2>2. QED
    BY <1>2, <2>1 DEF SettledInv, PromoteSettled, PromoteVerified, PromoteLate
<1>10. CASE \/ PromoteObserve \/ PromoteReadRow \/ PromoteMarkReloading
            \/ PromoteRefused \/ PromotePost
  <2>1. pc'[o] \in {"read_row", "mark_reloading", "post", "await", "idle", "failing"}
    BY <1>4, <1>10 DEF PromoteObserve, PromoteReadRow, PromoteMarkReloading,
       PromoteRefused, PromotePost, PostReload, Labels, IInv, TypeOK
  <2>2. QED
    BY <1>2, <2>1 DEF SettledInv, PromoteSettled, PromoteVerified, PromoteLate
<1>11. QED
  BY <1>5, <1>6, <1>7, <1>8, <1>9, <1>10 DEF PromoteStep

LEMMA RollbackSettles ==
    ASSUME IInv, SerialInv, SettledInv, RollbackStep
    PROVE  SettledInv'
<1> USE DEF Ops
<1> DEFINE o == "rollback_release"
<1>1. Own(o)
  BY RollbackOwn DEF IInv
<1>2. PromoteSettled'
  BY <1>1 DEF Own, SerialInv, RunsAlone, PromoteSettled, PromoteVerified, PromoteLate
<1>3. ASSUME NEW l \in Labels, Done(o, l) \/ Goto(o, l)
      PROVE  /\ pc'[o] \in {l, "idle", "failing"}
             /\ pc'[o] # "idle" => RollbackRow' = RollbackRow
  BY <1>3, DoneMoves, GotoMoves DEF Moves, SameLocals, RollbackRow, IInv
<1>4. CASE RollbackVerify
  <2>1. CASE Goto(o, "event")
    <3>1. ~Raise(o)
      BY <2>1, RaiseMoves DEF Goto, Moves, IInv, TypeOK
    <3>2. inbox["release"] = << >> /\ runtime["release"] = RollbackRow.prev
      BY <1>4, <3>1 DEF RollbackVerify, Verify, Readable
    <3>3. pc'[o] = "event" /\ RollbackRow' = RollbackRow
      BY <2>1 DEF Goto, locals, RollbackRow, IInv, TypeOK
    <3>4. UNCHANGED <<runtime, inbox>>
      BY <1>4 DEF RollbackVerify, Verify
    <3>5. QED
      BY <1>2, <3>2, <3>3, <3>4 DEF SettledInv, RollbackSettled, RollbackLate
  <2>2. CASE Raise(o)
    BY <1>2, <2>2, RaiseMoves
       DEF Moves, IInv, SettledInv, RollbackSettled, RollbackVerified, RollbackLate
  <2>3. QED
    BY <1>4, <2>1, <2>2 DEF RollbackVerify, Verify
<1>5. CASE RollbackRecordEvent
  <2>1. pc[o] = "event" /\ UNCHANGED <<runtime, inbox>>
    BY <1>5 DEF RollbackRecordEvent, RecordEvent
  <2>2. /\ pc'[o] \in {"set_alias", "idle", "failing"}
        /\ pc'[o] # "idle" => RollbackRow' = RollbackRow
    BY <1>3, <1>5 DEF RollbackRecordEvent, Labels
  <2>3. QED
    BY <1>2, <2>1, <2>2 DEF SettledInv, RollbackSettled, RollbackVerified, RollbackLate
<1>6. CASE RollbackSetChampion
  <2>1. /\ pc[o] = "set_alias" /\ UNCHANGED <<runtime, inbox>>
        /\ champion' = RollbackRow.prev
    BY <1>6 DEF RollbackSetChampion, SetChampion
  <2>2. /\ pc'[o] \in {"mark_done", "idle", "failing"}
        /\ pc'[o] # "idle" => RollbackRow' = RollbackRow
    BY <1>3, <1>6 DEF RollbackSetChampion, Labels
  <2>3. QED
    BY <1>2, <2>1, <2>2 DEF SettledInv, RollbackSettled, RollbackVerified, RollbackLate
<1>7. CASE RollbackMark
  <2>1. pc[o] = "mark_done" /\ UNCHANGED <<runtime, inbox, champion>>
    BY <1>7 DEF RollbackMark, Mark
  <2>2. /\ pc'[o] \in {"upsert", "idle", "failing"}
        /\ pc'[o] # "idle" => RollbackRow' = RollbackRow
    BY <1>3, <1>7 DEF RollbackMark, Labels
  <2>3. QED
    BY <1>2, <2>1, <2>2 DEF SettledInv, RollbackSettled, RollbackVerified, RollbackLate
<1>8. CASE \/ RollbackCheckRequest \/ RollbackCheckAlias \/ RollbackResetTraffic
           \/ RollbackSkipTraffic \/ RollbackObserve \/ RollbackPost \/ RollbackUpsert
  <2>1. \A l \in Labels : Done(o, l) \/ Goto(o, l) => pc'[o] \in {l, "idle", "failing"}
    BY <1>3
  <2>2. Exit(o) => pc'[o] = "idle"
    BY DEF Exit, IInv, TypeOK
  <2>3. Completed(o) => pc'[o] \in {"idle", "failing"}
    BY CompletedMoves DEF Moves, IInv
  <2>4. pc'[o] \in {"check_alias", "traffic", "observe", "post", "await", "idle", "failing"}
    <3>1. CASE RollbackObserve
      BY <2>2, <3>1 DEF RollbackObserve, IInv, TypeOK
    <3>2. CASE RollbackCheckRequest \/ RollbackCheckAlias
      BY <2>1, <2>2, <3>2 DEF RollbackCheckRequest, RollbackCheckAlias, Labels
    <3>3. CASE RollbackUpsert
      BY <2>3, <3>3 DEF RollbackUpsert
    <3>4. CASE RollbackResetTraffic \/ RollbackSkipTraffic \/ RollbackPost
      BY <2>1, <3>4 DEF RollbackResetTraffic, RollbackSkipTraffic, RollbackPost,
         PostReload, Labels
    <3>5. QED
      BY <1>8, <3>1, <3>2, <3>3, <3>4
  <2>5. QED
    BY <1>2, <2>4 DEF SettledInv, RollbackSettled, RollbackVerified, RollbackLate
<1>9. QED
  BY <1>4, <1>5, <1>6, <1>7, <1>8 DEF RollbackStep

LEMMA ServerSettled ==
    ASSUME IInv, SettledInv, NEW slot \in Slots, Handles(slot)
    PROVE  SettledInv'
<1>1. Receive(slot)
  BY DEF Handles, Reload, RefuseReload, ReloadFails
<1>2. Grows /\ UNCHANGED champion
  BY DEF Handles, Reload, RefuseReload, ReloadFails, store, Grows
<1>3. inbox["release"] = << >> =>
        inbox'["release"] = << >> /\ runtime'["release"] = runtime["release"]
  <2> SUFFICES ASSUME inbox["release"] = << >>
               PROVE  inbox'["release"] = << >> /\ runtime'["release"] = runtime["release"]
    OBVIOUS
  <2>1. slot # "release"
    BY <1>1 DEF Receive
  <2>2. inbox'["release"] = inbox["release"]
    BY <1>1, <2>1 DEF Receive, IInv, TypeOK, Slots
  <2>3. runtime'["release"] = runtime["release"]
    BY <2>1 DEF Handles, Reload, RefuseReload, ReloadFails, IInv, TypeOK, Slots
  <2>4. QED
    BY <2>2, <2>3
<1>4. SettledStays
  <2>1. CASE UNCHANGED <<pc, locals>>
    BY <2>1 DEF SettledStays, locals
  <2>2. ASSUME NEW o \in Ops, Own(o), pc'[o] \in {"verify", "failing", "idle"}
        PROVE  SettledStays
    BY <2>2 DEF Own, SettledStays, PromoteVerified, PromoteLate, RollbackVerified,
                RollbackLate, Ops
  <2>3. QED
    BY <2>1, <2>2, HandledOwn, ReloadersDisjoint
<1>5. QED
  BY <1>2, <1>3, <1>4, SettledKept

LEMMA FaultSettled ==
    ASSUME "restart" \notin FaultKinds, IInv, SerialInv, SettledInv, Fault
    PROVE  SettledInv'
<1>1. PICK o \in Ops : CallFails(o) \/ Crash(o) \/ Timeout(o)
  BY DEF Fault, Restart, Spend
<1>2. Own(o) /\ pc'[o] \in {"idle", "failing"}
  BY <1>1, FaultOwn
<1>3. QED
  BY <1>2 DEF Own, SerialInv, RunsAlone, SettledInv, PromoteSettled, RollbackSettled,
     PromoteVerified, PromoteLate, RollbackVerified, RollbackLate, Ops

LEMMA OperatorSettled ==
    ASSUME IInv, SettledInv, Operator
    PROVE  SettledInv'
<1>1. Grows
  BY DEF Operator, RegisterCandidate, RecordRequest, SetTraffic,
     DeployStart, PromoteStart, RollbackStart, WithdrawStart, store, Grows, IInv, TypeOK
<1>2. UNCHANGED <<runtime, inbox, champion>>
  BY DEF Operator, RegisterCandidate, RecordRequest, SetTraffic,
     DeployStart, PromoteStart, RollbackStart, WithdrawStart
<1>3. SettledStays
  BY DEF Operator, RegisterCandidate, RecordRequest, SetTraffic, DeployStart,
     PromoteStart, RollbackStart, WithdrawStart, Start, SettledStays, PromoteVerified,
     PromoteLate, RollbackVerified, RollbackLate, locals, IInv, TypeOK, Ops
<1>4. QED
  BY <1>1, <1>2, <1>3, SettledKept

LEMMA SettledInductive ==
    ASSUME "restart" \notin FaultKinds
    PROVE  IInv /\ SerialInv /\ SettledInv /\ [Next]_vars => SettledInv'
<1> SUFFICES ASSUME IInv, SerialInv, SettledInv, [Next]_vars
             PROVE  SettledInv'
  OBVIOUS
<1>1. CASE Script
  BY <1>1, PromoteSettles, RollbackSettles, DeployOwn, WithdrawOwn, Unsettled
     DEF Script, IInv, Ops
<1>2. CASE Server
  BY <1>2, ServerSettled DEF Server, Handles
<1>3. CASE Fault
  BY <1>3, FaultSettled
<1>4. CASE Operator
  BY <1>4, OperatorSettled
<1>5. CASE UNCHANGED vars
  BY <1>5 DEF vars, SettledInv, PromoteSettled, RollbackSettled, PromoteRequest, RollbackRow
<1>6. QED
  BY <1>1, <1>2, <1>3, <1>4, <1>5 DEF Next

\* The row of the release changes only when a promotion or a release rollback
\* completes.
LEMMA ReleaseRowStep ==
    ASSUME "restart" \notin FaultKinds, IInv, [Next]_vars,
           state'["release"] # state["release"]
    PROVE  PromoteUpsert \/ RollbackUpsert
<1>1. ~Operator /\ ~Server /\ ~UNCHANGED vars
  BY DEF Operator, RegisterCandidate, RecordRequest, SetTraffic, DeployStart,
     PromoteStart, RollbackStart, WithdrawStart, Server, Reload, RefuseReload,
     ReloadFails, store, vars
<1>2. ~Fault
  BY DEF Fault, CallFails, Crash, Timeout, Restart, Spend, store
<1>3. ~DeployStep
  BY DEF DeployStep, DeployReadRow, DeployMarkReloading, DeployPost, PostReload,
     DeployVerify, Verify, DeployRecordEvent, RecordEvent, DeployMarkReady, DeployUpsert,
     Upsert, DeployFailed, Mark, store, IInv, TypeOK, Slots
<1>4. ~WithdrawStep
  BY DEF WithdrawStep, WithdrawTraffic, ResetTraffic, WithdrawPost, PostReload,
     WithdrawVerify, Verify, WithdrawRecordEvent, RecordEvent, WithdrawMark, Mark, store
<1>5. PromoteStep => PromoteUpsert
  BY DEF PromoteStep, PromoteObserve, PromoteReadRow, PromoteMarkReloading,
     PromoteRefused, PromotePost, PostReload, PromoteVerify, Verify,
     PromoteRecordEvent, RecordEvent, PromoteSetChampion, SetChampion,
     PromoteGetCandidate, PromoteDeleteCandidate, PromoteResetTraffic,
     ResetTraffic, PromoteSkipTraffic, PromoteMarkDeployed, PromoteFailed, Mark, store
<1>6. RollbackStep => RollbackUpsert
  BY DEF RollbackStep, RollbackCheckRequest, RollbackCheckAlias, RollbackResetTraffic,
     ResetTraffic, RollbackSkipTraffic, RollbackObserve, RollbackPost, PostReload,
     RollbackVerify, Verify, RollbackRecordEvent, RecordEvent, RollbackSetChampion,
     SetChampion, RollbackMark, Mark, store
<1>7. QED
  BY <1>1, <1>2, <1>3, <1>4, <1>5, <1>6 DEF Next, Script

LEMMA CompletionStep ==
    ASSUME "restart" \notin FaultKinds, IInv, SettledInv, [Next]_vars,
           state'["release"] # state["release"]
    PROVE  /\ state'["release"].active = runtime'["release"]
           /\ state'["release"].active = champion'
<1>1. CASE PromoteUpsert
  <2>1. pc["promote"] = "upsert" /\ UNCHANGED <<runtime, champion>>
    BY <1>1 DEF PromoteUpsert, Upsert
  <2>2. state'["release"].active = PromoteRequest.source
    BY <1>1 DEF PromoteUpsert, Upsert, PromoteRow, IInv, TypeOK, Slots
  <2>3. QED
    BY <2>1, <2>2 DEF SettledInv, PromoteSettled, PromoteVerified, PromoteLate
<1>2. CASE RollbackUpsert
  <2>1. pc["rollback_release"] = "upsert" /\ UNCHANGED <<runtime, champion>>
    BY <1>2 DEF RollbackUpsert, Upsert
  <2>2. state'["release"].active = RollbackRow.prev
    BY <1>2 DEF RollbackUpsert, Upsert, SwappedRow, IInv, TypeOK, Slots
  <2>3. QED
    BY <2>1, <2>2 DEF SettledInv, RollbackSettled, RollbackVerified, RollbackLate
<1>3. QED
  BY <1>1, <1>2, ReleaseRowStep

\* When a promotion or a release rollback completes, the row it writes, the version
\* the release serves and champion agree, whatever failed, timed out or was killed
\* before it: for scripts that run one after the other and servers that stay up.
THEOREM CompletionAgrees ==
    ASSUME MaxActive = 1, "restart" \notin FaultKinds
    PROVE  Spec => CompletionConsistent
<1>1. Init => SettledInv
  BY DEF Init, SettledInv, PromoteSettled, RollbackSettled, PromoteVerified,
         PromoteLate, RollbackVerified, RollbackLate, Ops
<1>2. IInv /\ SerialInv /\ SettledInv /\ [Next]_vars => SettledInv'
  BY SettledInductive
<1>3. IInv /\ SettledInv /\ [Next]_vars =>
        [ state'["release"] # state["release"] =>
            /\ state'["release"].active = runtime'["release"]
            /\ state'["release"].active = champion' ]_vars
  BY CompletionStep
<1>4. QED
  BY <1>1, <1>2, <1>3, InvariantHolds, SerialInvHolds, PTL DEF Spec, CompletionConsistent
-----------------------------------------------------------------------------
(* Who answers for a request that is being reloaded.                       *)

ReloadingStatuses == {"canary_reloading", "release_reloading"}

\* From the call after the mark to the next mark, the except block's included.
InFlight == {"post", "await", "verify", "event", "set_alias", "get_candidate",
             "delete_candidate", "traffic", "mark_done", "failing"}

Held(r) == \E o \in Guarded : arg[o] = r /\ pc[o] \in InFlight

\* The requests that stay in a reloading status until an operator comes.
Orphans == {r \in Requests : status[r] \in ReloadingStatuses /\ ~Held(r)}

\* The process is killed, or the database fails in the except block.
GivesUp(o) == Crash(o) \/ (pc[o] = "failing" /\ CallFails(o))

\* A step of script o marks its request, and as reloading only if it goes on, or
\* it goes on with a request that it has marked.
Answers(o) ==
    \/ UNCHANGED status /\ (pc[o] \in InFlight => pc'[o] \in InFlight)
    \/ \E to \in Statuses :
          Mark(o, to) /\ (to \in ReloadingStatuses => pc'[o] \in InFlight)

LEMMA GuardedOps == Guarded \subseteq Ops /\ InFlight \subseteq Labels /\ "idle" \notin InFlight
BY DEF Guarded, Ops, InFlight, Labels

LEMMA AnswersHold ==
    ASSUME IInv, NEW o \in Guarded, Own(o), Answers(o)
    PROVE  Orphans' \subseteq Orphans
<1> SUFFICES ASSUME NEW r \in Requests, status'[r] \in ReloadingStatuses, ~Held(r)'
             PROVE  status[r] \in ReloadingStatuses /\ ~Held(r)
  BY DEF Orphans
<1>1. \A p \in Guarded : p # o => pc'[p] = pc[p] /\ arg'[p] = arg[p]
  BY GuardedOps DEF Own
<1>2. pc'[o] \in InFlight => arg'[o] = arg[o]
  BY GuardedOps DEF Own
<1>3. CASE UNCHANGED status /\ (pc[o] \in InFlight => pc'[o] \in InFlight)
  BY <1>1, <1>2, <1>3 DEF Held
<1>4. ASSUME NEW to \in Statuses, Mark(o, to), to \in ReloadingStatuses => pc'[o] \in InFlight
      PROVE  status[r] \in ReloadingStatuses /\ ~Held(r)
  <2>1. status'[r] = IF r = arg[o] THEN to ELSE status[r]
    BY <1>4 DEF Mark, IInv, TypeOK
  <2>2. r # arg[o]
    BY <1>2, <1>4, <2>1 DEF Held
  <2>3. QED
    BY <1>1, <2>1, <2>2 DEF Held
<1>5. QED
  BY <1>3, <1>4 DEF Answers

\* The rollbacks mark no request as reloading.
LEMMA RollbacksHold ==
    ASSUME IInv, NEW o \in Ops \ Guarded, Own(o), Marks(o)
    PROVE  Orphans' \subseteq Orphans
<1>1. \A p \in Guarded : pc'[p] = pc[p] /\ arg'[p] = arg[p]
  BY GuardedOps DEF Own
<1>2. \A r \in Requests : status'[r] \in ReloadingStatuses => status'[r] = status[r]
  BY DEF Marks, Mark, IInv, TypeOK, ReloadingStatuses
<1>3. QED
  BY <1>1, <1>2 DEF Orphans, Held

LEMMA DoneFlies ==
    ASSUME TypeOK, NEW o \in Guarded, NEW l \in Labels, pc[o] \in InTry, Done(o, l)
    PROVE  pc'[o] \in {l, "failing"}
BY GuardedOps DEF Done, Raise, Goto, TypeOK

LEMMA VerifyFlies ==
    ASSUME TypeOK, NEW o \in Guarded, NEW slot, NEW v, Verify(o, slot, v)
    PROVE  pc'[o] \in {"event", "failing"}
BY GuardedOps DEF Verify, Raise, Goto, TypeOK, InTry

LEMMA DeployAnswers ==
    ASSUME TypeOK, DeployStep
    PROVE  Answers("deploy")
<1> DEFINE o == "deploy"
<1>1. o \in Guarded /\ o \in Ops /\ pc \in [Ops -> Labels]
  BY DEF Guarded, Ops, TypeOK
<1> USE <1>1 DEF InFlight, Labels, InTry, Answers, ReloadingStatuses, Statuses, store
<1>2. CASE DeployReadRow
  BY <1>2 DEF DeployReadRow
<1>3. CASE DeployMarkReloading
  BY <1>3, DoneFlies DEF DeployMarkReloading
<1>4. CASE DeployPost
  BY <1>4 DEF DeployPost, PostReload, Goto
<1>5. CASE DeployVerify
  BY <1>5, VerifyFlies DEF DeployVerify, Verify
<1>6. CASE DeployRecordEvent
  BY <1>6, DoneFlies DEF DeployRecordEvent, RecordEvent
<1>7. CASE DeployMarkReady \/ DeployFailed
  BY <1>7 DEF DeployMarkReady, DeployFailed
<1>8. CASE DeployUpsert
  BY <1>8 DEF DeployUpsert, Upsert
<1>9. QED
  BY <1>2, <1>3, <1>4, <1>5, <1>6, <1>7, <1>8 DEF DeployStep

LEMMA PromoteAnswers ==
    ASSUME TypeOK, PromoteStep
    PROVE  Answers("promote")
<1> DEFINE o == "promote"
<1>1. o \in Guarded /\ o \in Ops /\ pc \in [Ops -> Labels]
  BY DEF Guarded, Ops, TypeOK
<1> USE <1>1 DEF InFlight, Labels, InTry, Answers, ReloadingStatuses, Statuses, store
<1>2. CASE PromoteObserve \/ PromoteReadRow
  BY <1>2 DEF PromoteObserve, PromoteReadRow
<1>3. CASE PromoteMarkReloading
  BY <1>3, DoneFlies DEF PromoteMarkReloading
<1>4. CASE PromoteRefused \/ PromotePost \/ PromoteSkipTraffic
  BY <1>4 DEF PromoteRefused, PromotePost, PostReload, PromoteSkipTraffic, Goto
<1>5. CASE PromoteVerify
  BY <1>5, VerifyFlies DEF PromoteVerify, Verify
<1>6. CASE PromoteRecordEvent
  BY <1>6, DoneFlies DEF PromoteRecordEvent, RecordEvent
<1>7. CASE PromoteSetChampion
  BY <1>7, DoneFlies DEF PromoteSetChampion, SetChampion
<1>8. CASE PromoteGetCandidate
  BY <1>8 DEF PromoteGetCandidate, Goto
<1>9. CASE PromoteDeleteCandidate
  BY <1>9, DoneFlies DEF PromoteDeleteCandidate
<1>10. CASE PromoteResetTraffic
  BY <1>10, DoneFlies DEF PromoteResetTraffic, ResetTraffic
<1>11. CASE PromoteMarkDeployed \/ PromoteFailed
  BY <1>11 DEF PromoteMarkDeployed, PromoteFailed
<1>12. CASE PromoteUpsert
  BY <1>12 DEF PromoteUpsert, Upsert
<1>13. QED
  BY <1>2, <1>3, <1>4, <1>5, <1>6, <1>7, <1>8, <1>9, <1>10, <1>11, <1>12 DEF PromoteStep

\* The scripts keep answering for what they have marked when nothing is done to
\* their requests or their place, or when an error sends them to the except block.
LEMMA StayHeld ==
    ASSUME IInv, UNCHANGED status,
           \A o \in Guarded : pc[o] \in InFlight => pc'[o] \in InFlight /\ arg'[o] = arg[o]
    PROVE  Orphans' \subseteq Orphans
BY DEF Orphans, Held

LEMMA RaiseFlies ==
    ASSUME TypeOK, NEW o \in Guarded, pc[o] \in InFlight \ {"failing"}, Raise(o)
    PROVE  pc'[o] = "failing"
BY GuardedOps DEF TypeOK, Raise, Goto, InFlight, InTry

\* An error in a call of script o, which is not its last one.
LEMMA RaiseHolds ==
    ASSUME IInv, NEW o \in Ops, Raise(o), pc[o] # "idle", UNCHANGED status,
           o \in Guarded => pc[o] # "failing"
    PROVE  Orphans' \subseteq Orphans
<1>1. Own(o)
  BY OwnRaise DEF IInv
<1>2. CASE o \in Guarded
  <2>1. Answers(o)
    BY <1>2, RaiseFlies DEF IInv, Answers, InFlight
  <2>2. QED
    BY <1>1, <1>2, <2>1, AnswersHold
<1>3. CASE o \notin Guarded
  BY <1>1, <1>3, RollbacksHold DEF Marks
<1>4. QED
  BY <1>2, <1>3

LEMMA ServerHolds ==
    ASSUME IInv, Server
    PROVE  Orphans' \subseteq Orphans
<1>1. PICK slot \in Slots : Handles(slot)
  BY DEF Server, Handles
<1> DEFINE m == Head(inbox[slot])
<1>2. UNCHANGED status
  BY StatusKept
<1>3. /\ m.op \in Ops
      /\ m.live => pc[m.op] = "await"
  BY <1>1, HeadSound, ReloadersDisjoint
     DEF Handles, Reload, RefuseReload, ReloadFails, Receive
<1>4. CASE UNCHANGED <<pc, locals>>
  BY <1>2, <1>4, StayHeld DEF locals
<1>5. CASE m.live /\ Reply(slot, m)
  BY <1>2, <1>3, <1>5, StayHeld, GuardedOps DEF Reply, IInv, TypeOK, InFlight
<1>6. CASE m.live /\ Raise(m.op)
  <2>1. pc[m.op] # "idle" /\ pc[m.op] # "failing"
    BY <1>3, <1>6
  <2> HIDE DEF m
  <2>2. QED
    BY <1>2, <1>3, <1>6, <2>1, RaiseHolds
<1>7. QED
  BY <1>1, <1>4, <1>5, <1>6
     DEF Handles, Reload, RefuseReload, ReloadFails, Reply, ReplyError

LEMMA FaultHolds ==
    ASSUME IInv, Fault
    PROVE  \/ Orphans' \subseteq Orphans
           \/ \E o \in Guarded : GivesUp(o)
<1>1. UNCHANGED status
  BY StatusKept
<1>2. ASSUME NEW o \in Ops, CallFails(o) \/ Timeout(o), ~(o \in Guarded /\ GivesUp(o))
      PROVE  Orphans' \subseteq Orphans
  BY <1>1, <1>2, RaiseHolds DEF CallFails, Timeout, GivesUp
<1>3. ASSUME NEW o \in Ops \ Guarded, Crash(o) PROVE Orphans' \subseteq Orphans
  <2>1. Own(o)
    BY <1>3, FaultOwn
  <2>2. QED
    BY <1>1, <2>1, RollbacksHold DEF Marks
<1>4. ASSUME NEW slot \in Slots, Restart(slot) PROVE Orphans' \subseteq Orphans
  <2>1. \A o \in Guarded : pc[o] \in InFlight => pc'[o] \in InFlight /\ arg'[o] = arg[o]
    BY <1>4, GuardedOps DEF Restart, Disconnect, InFlight
  <2>2. QED
    BY <1>1, <2>1, StayHeld
<1>5. QED
  BY <1>2, <1>3, <1>4, GuardedOps DEF Fault, GivesUp

LEMMA OperatorHolds ==
    ASSUME IInv, Operator
    PROVE  Orphans' \subseteq Orphans
<1>1. UNCHANGED status
  BY StatusKept
<1>2. CASE UNCHANGED <<pc, locals>>
  BY <1>1, <1>2, StayHeld DEF locals
<1>3. ASSUME NEW o \in Ops, NEW r, NEW l, Start(o, r, l) PROVE Orphans' \subseteq Orphans
  <2>1. pc[o] = "idle"
    BY <1>3 DEF Start, MayStart
  <2>2. \A p \in Ops : p # o => pc'[p] = pc[p] /\ arg'[p] = arg[p]
    BY <1>3 DEF Start, IInv, TypeOK
  <2>3. QED
    BY <1>1, <2>1, <2>2, StayHeld, GuardedOps
<1>4. CASE \E r \in Requests : DeployStart(r) \/ PromoteStart(r) \/ WithdrawStart(r)
  BY <1>3, <1>4 DEF DeployStart, PromoteStart, WithdrawStart, Ops
<1>5. CASE RollbackStart
  BY <1>1, <1>5, StayHeld DEF RollbackStart, Guarded, Ops, IInv, TypeOK
<1>6. QED
  BY <1>2, <1>4, <1>5 DEF Operator, RegisterCandidate, RecordRequest, SetTraffic

LEMMA ScriptHolds ==
    ASSUME IInv, Script
    PROVE  Orphans' \subseteq Orphans
<1> USE DEF IInv
<1>1. CASE DeployStep
  BY <1>1, DeployOwn, DeployAnswers, AnswersHold DEF Guarded
<1>2. CASE PromoteStep
  BY <1>2, PromoteOwn, PromoteAnswers, AnswersHold DEF Guarded
<1>3. CASE RollbackStep
  BY <1>3, RollbackOwn, RollbackMarks, RollbacksHold DEF Guarded, Ops
<1>4. CASE WithdrawStep
  BY <1>4, WithdrawOwn, WithdrawMarks, RollbacksHold DEF Guarded, Ops
<1>5. QED
  BY <1>1, <1>2, <1>3, <1>4 DEF Script

LEMMA OrphansStep ==
    IInv /\ [Next]_vars => [Orphans' \subseteq Orphans \/ \E o \in Guarded : GivesUp(o)]_vars
BY ScriptHolds, ServerHolds, FaultHolds, OperatorHolds DEF Next

\* A request is left in a reloading status with nobody to answer for it only when
\* the script that reloads is killed, or the database fails in its except block;
\* whatever other scripts do at the same time (deploy_candidate_to_canary.py,
\* promote_candidate_to_release.py).
THEOREM OrphansAreExplained ==
    Spec => [][Orphans' \subseteq Orphans \/ \E o \in Guarded : GivesUp(o)]_vars
<1>1. IInv /\ [Next]_vars => [Orphans' \subseteq Orphans \/ \E o \in Guarded : GivesUp(o)]_vars
  BY OrphansStep
<1>2. QED
  BY <1>1, InvariantHolds, PTL DEF Spec

NobodyIsLeft == Orphans = {}

\* Without these two faults, some script answers for every request in a reloading
\* status: the half of ReloadingResolves that needs no fairness.
THEOREM ReloadingIsHeld ==
    ASSUME {"call", "crash"} \cap FaultKinds = {}
    PROVE  Spec => []NobodyIsLeft
<1>1. Init => NobodyIsLeft
  BY DEF Init, NobodyIsLeft, Orphans, ReloadingStatuses
<1>2. \A o \in Guarded : ~GivesUp(o)
  BY DEF GivesUp, Crash, CallFails, Spend
<1>3. IInv /\ NobodyIsLeft /\ [Next]_vars => NobodyIsLeft'
  <2>1. CASE UNCHANGED vars
    BY <2>1 DEF vars, NobodyIsLeft, Orphans, Held
  <2>2. QED
    BY <1>2, <2>1, OrphansStep DEF vars, NobodyIsLeft
<1>4. QED
  BY <1>1, <1>3, InvariantHolds, PTL DEF Spec
=============================================================================
