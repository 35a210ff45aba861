----------------------- MODULE DeploymentControl_proofs ----------------------
(***************************************************************************)
(* Proofs about DeploymentControl, for every number of versions, requests, *)
(* running scripts and faults.  IInv (types and RolloutInv) is inductive;  *)
(* the safety invariants and the refinement of StagedRollout follow.       *)
(*                                                                         *)
(* Most steps only move one script on.  Moves says so, Grows says that     *)
(* recorded requests and events are never lost, and the lemmas below show  *)
(* once and for all what such a step keeps.                                *)
(***************************************************************************)
EXTENDS DeploymentControl, TLAPS

IInv == TypeOK /\ RolloutInv

Outside == <<runtime, inbox, champion, candidate, percent, request, status,
             state, events>>

LocalsOK ==
    /\ pc \in [Ops -> Labels]
    /\ arg \in [Ops -> Requests \cup {None}]
    /\ obs \in [Ops -> Versions \cup {None}]
    /\ row \in [Ops -> StateRow \cup {None}]
    /\ prev \in [Ops -> Versions \cup {None}]

SameLocals(o) ==
    /\ arg'[o] = arg[o]
    /\ row'[o] = row[o]

\* Script o goes to one of the labels L, and keeps what it knows unless it ends.
Moves(o, L) ==
    /\ LocalsOK'
    /\ \A p \in Ops \ {o} : pc'[p] = pc[p]
    /\ \A p \in Ops : p # o \/ pc'[p] # "idle" => SameLocals(p) /\ prev'[p] = prev[p]
    /\ pc'[o] \in L

Grows ==
    /\ events \subseteq events'
    /\ \A r \in Requests : request[r] # None => request'[r] = request[r]
-----------------------------------------------------------------------------
(* Control flow                                                            *)

LEMMA GotoMoves ==
    ASSUME TypeOK, NEW o \in Ops, NEW l \in Labels, Goto(o, l)
    PROVE  Moves(o, {l})
BY DEF TypeOK, Goto, locals, Moves, LocalsOK, SameLocals

LEMMA ExitMoves ==
    ASSUME TypeOK, NEW o \in Ops, Exit(o)
    PROVE  Moves(o, {"idle"})
BY DEF TypeOK, Exit, Moves, LocalsOK, SameLocals, Labels

LEMMA RaiseMoves ==
    ASSUME TypeOK, NEW o \in Ops, Raise(o)
    PROVE  Moves(o, {"idle", "failing"})
<1>1. CASE Exit(o)
  BY <1>1, ExitMoves DEF Moves
<1>2. CASE Goto(o, "failing")
  <2>1. "failing" \in Labels
    BY DEF Labels
  <2>2. QED
    BY <1>2, <2>1, GotoMoves DEF Moves
<1>3. QED
  BY <1>1, <1>2 DEF Raise

LEMMA SpendNat ==
    ASSUME TypeOK, NEW kind, Spend(kind)
    PROVE  faults' \in Nat
BY DEF TypeOK, Spend

LEMMA DoneMoves ==
    ASSUME TypeOK, NEW o \in Ops, NEW l \in Labels, Done(o, l)
    PROVE  Moves(o, {l, "idle", "failing"}) /\ faults' \in Nat
<1>1. CASE Goto(o, l) /\ UNCHANGED faults
  BY <1>1, GotoMoves DEF Moves, TypeOK
<1>2. CASE Spend("lost") /\ Raise(o)
  BY <1>2, RaiseMoves, SpendNat DEF Moves
<1>3. QED
  BY <1>1, <1>2 DEF Done

LEMMA CompletedMoves ==
    ASSUME TypeOK, NEW o \in Ops, Completed(o)
    PROVE  Moves(o, {"idle", "failing"}) /\ faults' \in Nat
<1>1. CASE Exit(o) /\ UNCHANGED faults
  BY <1>1, ExitMoves DEF Moves, TypeOK
<1>2. CASE Spend("lost") /\ Raise(o)
  BY <1>2, RaiseMoves, SpendNat DEF Moves
<1>3. QED
  BY <1>1, <1>2 DEF Completed
-----------------------------------------------------------------------------
(* What growing request and event tables keep                              *)

LEMMA SeenGrows ==
    ASSUME TypeOK, Grows, NEW slot \in Slots
    PROVE  SeenOn(slot) \subseteq SeenOn(slot)'
BY DEF Grows, SeenOn

LEMMA ApprovedGrows ==
    ASSUME TypeOK, Grows
    PROVE  ApprovedVersions \subseteq ApprovedVersions'
BY DEF Grows, ApprovedVersions

LEMMA KnownGrows ==
    ASSUME TypeOK, Grows, NEW r, Known(r)
    PROVE  /\ Known(r)'
           /\ request'[r] = request[r]
           /\ \A s \in Slots : Evidence(r, s) => Evidence(r, s)'
BY DEF Grows, Known, Evidence

LEMMA RowGrows ==
    ASSUME TypeOK, Grows, NEW x, RowSound(x)
    PROVE  RowSound(x)'
<1>1. SeenOn("canary") \subseteq SeenOn("canary")'
  BY SeenGrows DEF Slots
<1>2. \A r : Known(r) => Known(r)'
  BY KnownGrows
<1>3. QED
  BY <1>1, <1>2 DEF RowSound
-----------------------------------------------------------------------------
(* What a step keeps of the knowledge of a script.  Late(o) are the labels *)
(* that only a script with evidence of its own reload reaches.             *)

DeployLate == {"mark_done", "upsert"}
PromoteLate == {"set_alias", "get_candidate", "delete_candidate", "traffic",
                "mark_done", "upsert"}
RollbackLate == {"set_alias", "mark_done", "upsert"}

LEMMA DeployKept ==
    ASSUME TypeOK, DeploySound, Grows,
           pc'["deploy"] # "idle" => SameLocals("deploy") /\ pc["deploy"] # "idle",
           pc'["deploy"] \in DeployLate =>
               pc["deploy"] \in DeployLate \/ Evidence(arg["deploy"], "canary")'
    PROVE  DeploySound'
<1> SUFFICES ASSUME pc'["deploy"] # "idle"
             PROVE  /\ Known(arg["deploy"])'
                    /\ pc'["deploy"] \in DeployLate => Evidence(arg["deploy"], "canary")'
  BY DEF DeploySound, DeployLate
<1> DEFINE r == arg["deploy"]
<1>1. Known(r) /\ r' = r
  BY DEF DeploySound, SameLocals
<1>2. /\ Known(r)'
      /\ Evidence(r, "canary") => Evidence(r, "canary")'
  BY <1>1, KnownGrows DEF Slots, Known, Evidence
<1>3. QED
  BY <1>1, <1>2 DEF DeploySound, DeployLate

LEMMA PromoteKept ==
    ASSUME TypeOK, PromoteSound, Grows,
           pc'["promote"] # "idle" => SameLocals("promote") /\ pc["promote"] # "idle",
           pc'["promote"] # "idle" => prev'["promote"] \in {prev["promote"]} \cup SeenOn("canary"),
           pc'["promote"] \in PromoteLate =>
               pc["promote"] \in PromoteLate \/ Evidence(arg["promote"], "release")'
    PROVE  PromoteSound'
<1> SUFFICES ASSUME pc'["promote"] # "idle"
             PROVE  /\ Known(arg["promote"])'
                    /\ Evidence(arg["promote"], "canary")'
                    /\ RowSound(row["promote"])'
                    /\ (prev["promote"] \in SeenOn("canary") \cup {None})'
                    /\ pc'["promote"] \in PromoteLate => Evidence(arg["promote"], "release")'
  BY DEF PromoteSound, PromoteLate
<1>1. /\ Known(arg["promote"]) /\ arg'["promote"] = arg["promote"]
      /\ row'["promote"] = row["promote"]
  BY DEF PromoteSound, SameLocals
<1>2. /\ Known(arg["promote"])'
      /\ Evidence(arg["promote"], "canary") => Evidence(arg["promote"], "canary")'
      /\ Evidence(arg["promote"], "release") => Evidence(arg["promote"], "release")'
  BY <1>1, KnownGrows DEF Slots, Known, Evidence
<1>3. RowSound(row["promote"])'
  <2>1. RowSound(row["promote"])
    BY DEF PromoteSound
  <2>2. SeenOn("canary") \subseteq SeenOn("canary")'
    BY SeenGrows DEF Slots
  <2>3. \A r : Known(r) => Known(r)'
    BY KnownGrows
  <2>4. QED
    BY <1>1, <2>1, <2>2, <2>3 DEF RowSound
<1>4. prev'["promote"] \in SeenOn("canary")' \cup {None}
  BY <1>1, SeenGrows DEF PromoteSound, Slots
<1>5. QED
  BY <1>1, <1>2, <1>3, <1>4 DEF PromoteSound, PromoteLate

LEMMA RollbackKept ==
    ASSUME TypeOK, RollbackSound, Grows,
           pc'["rollback_release"] # "idle" =>
               SameLocals("rollback_release") /\ pc["rollback_release"] # "idle",
           pc'["rollback_release"] \in RollbackLate =>
               \/ pc["rollback_release"] \in RollbackLate
               \/ RollbackRow.prev \in SeenOn("release")'
    PROVE  RollbackSound'
<1> SUFFICES ASSUME pc'["rollback_release"] # "idle"
             PROVE  /\ Known(arg["rollback_release"])'
                    /\ RollbackRow' # None
                    /\ RowSound(RollbackRow)'
                    /\ RollbackRow.prev' # None
                    /\ pc'["rollback_release"] \in RollbackLate =>
                          RollbackRow.prev' \in SeenOn("release")'
  BY DEF RollbackSound, RollbackLate
<1>1. /\ Known(arg["rollback_release"])
      /\ arg'["rollback_release"] = arg["rollback_release"]
      /\ RollbackRow' = RollbackRow
  BY DEF RollbackSound, SameLocals, RollbackRow
<1>2. Known(arg["rollback_release"])'
  BY <1>1, KnownGrows DEF Known
<1>3. RowSound(RollbackRow)'
  <2>1. RowSound(RollbackRow)
    BY DEF RollbackSound
  <2>2. SeenOn("canary") \subseteq SeenOn("canary")'
    BY SeenGrows DEF Slots
  <2>3. \A r : Known(r) => Known(r)'
    BY KnownGrows
  <2>4. QED
    BY <1>1, <2>1, <2>2, <2>3 DEF RowSound
<1>4. SeenOn("release") \subseteq SeenOn("release")'
  BY SeenGrows DEF Slots
<1>5. QED
  BY <1>1, <1>2, <1>3, <1>4 DEF RollbackSound, RollbackLate

LEMMA WithdrawKept ==
    ASSUME TypeOK, WithdrawSound, Grows,
           pc'["rollback_canary"] # "idle" =>
               SameLocals("rollback_canary") /\ pc["rollback_canary"] # "idle"
    PROVE  WithdrawSound'
<1> SUFFICES ASSUME pc'["rollback_canary"] # "idle"
             PROVE  Known(arg["rollback_canary"])'
  BY DEF WithdrawSound
<1>1. Known(arg["rollback_canary"]) /\ arg'["rollback_canary"] = arg["rollback_canary"]
  BY DEF WithdrawSound, SameLocals
<1>2. QED
  BY <1>1, KnownGrows DEF Known

\* Inboxes that no step touches stay sound while the scripts that move were not
\* waiting for an answer.
LEMMA InboxKept ==
    ASSUME TypeOK, InboxSound, Grows, UNCHANGED inbox,
           \A o \in Ops : pc[o] = "await" => pc'[o] = "await"
    PROVE  InboxSound'
<1>1. SeenOn("canary") \subseteq SeenOn("canary")'
  BY SeenGrows DEF Slots
<1>2. ApprovedVersions \subseteq ApprovedVersions'
  BY ApprovedGrows
<1> SUFFICES ASSUME NEW s \in Slots, NEW i \in DOMAIN inbox[s]
             PROVE  LET m == inbox[s][i]
                    IN /\ m.op \in Reloaders(s)
                       /\ m.version \in IF s = "release" THEN SeenOn("canary")' ELSE ApprovedVersions'
                       /\ m.live => pc'[m.op] = "await"
                       /\ m.live => \A j \in DOMAIN inbox[s] :
                             inbox[s][j].op = m.op /\ inbox[s][j].live => i = j
  BY DEF InboxSound, Reloaders
<1>3. Reloaders(s) \subseteq Ops
  BY DEF Reloaders, Ops
<1>4. QED
  BY <1>1, <1>2, <1>3 DEF InboxSound

\* A script reaches a late label only from another one or with its evidence.
Earned(o) ==
    /\ o = "deploy" /\ pc'[o] \in DeployLate =>
          pc[o] \in DeployLate \/ Evidence(arg["deploy"], "canary")'
    /\ o = "promote" /\ pc'[o] \in PromoteLate =>
          pc[o] \in PromoteLate \/ Evidence(arg["promote"], "release")'
    /\ o = "rollback_release" /\ pc'[o] \in RollbackLate =>
          pc[o] \in RollbackLate \/ RollbackRow.prev \in SeenOn("release")'

LEMMA ScriptsKept ==
    ASSUME IInv, Grows, NEW o \in Ops, NEW L, Moves(o, L), pc[o] # "idle", Earned(o)
    PROVE  DeploySound' /\ PromoteSound' /\ RollbackSound' /\ WithdrawSound'
<1> USE DEF Ops
<1>1. \A p \in Ops : /\ pc'[p] # "idle" => SameLocals(p) /\ pc[p] # "idle"
                     /\ p # o => pc'[p] = pc[p]
  BY DEF Moves
<1>0. pc'["promote"] # "idle" => prev'["promote"] = prev["promote"]
  BY DEF Moves
<1>2. DeploySound'
  <2>1. pc'["deploy"] \in DeployLate =>
          pc["deploy"] \in DeployLate \/ Evidence(arg["deploy"], "canary")'
    BY <1>1 DEF Earned
  <2>2. QED
    BY <1>1, <2>1, DeployKept DEF IInv, RolloutInv
<1>3. PromoteSound'
  <2>1. pc'["promote"] \in PromoteLate =>
          pc["promote"] \in PromoteLate \/ Evidence(arg["promote"], "release")'
    BY <1>1 DEF Earned
  <2>2. QED
    BY <1>0, <1>1, <2>1, PromoteKept DEF IInv, RolloutInv
<1>4. RollbackSound'
  <2>1. pc'["rollback_release"] \in RollbackLate =>
          \/ pc["rollback_release"] \in RollbackLate
          \/ RollbackRow.prev \in SeenOn("release")'
    BY <1>1 DEF Earned
  <2>2. QED
    BY <1>1, <2>1, RollbackKept DEF IInv, RolloutInv
<1>5. WithdrawSound'
  BY <1>1, WithdrawKept DEF IInv, RolloutInv
<1>6. QED
  BY <1>2, <1>3, <1>4, <1>5

\* A step of a running script that leaves servers, champion and tables alone.
LEMMA QuietStep ==
    ASSUME IInv, NEW o \in Ops, NEW L, Moves(o, L), pc[o] \notin {"idle", "await"},
           Earned(o), faults' \in Nat, percent' \in Nat,
           candidate' \in Versions \cup {None},
           UNCHANGED <<runtime, inbox, champion, store>>
    PROVE  IInv'
<1>1. Grows
  BY DEF Grows, store
<1>2. TypeOK'
  BY DEF IInv, TypeOK, Moves, LocalsOK, store
<1>3. StagesNested' /\ RequestsSound' /\ RowSound(state["release"])'
  BY DEF IInv, RolloutInv, StagesNested, RequestsSound, RowSound, SeenOn,
         ApprovedVersions, Known, Evidence, store
<1>4. InboxSound'
  <2>1. \A p \in Ops : pc[p] = "await" => pc'[p] = "await"
    BY DEF Moves
  <2>2. QED
    BY <1>1, <2>1, InboxKept DEF IInv, RolloutInv
<1>5. QED
  BY <1>1, <1>2, <1>3, <1>4, ScriptsKept DEF IInv, RolloutInv

\* mark_deployment_request_rollout_status, with the evidence the status claims.
LEMMA MarkStep ==
    ASSUME IInv, NEW o \in Ops, NEW L, Moves(o, L), pc[o] \notin {"idle", "await"},
           Earned(o), faults' \in Nat, NEW to \in Statuses, Mark(o, to),
           to # "not_started" => Known(arg[o]),
           to \in {"canary_ready", "release_reloading", "deployed"} =>
               Evidence(arg[o], "canary"),
           to = "deployed" => Evidence(arg[o], "release")
    PROVE  IInv'
<1>1. Grows
  BY DEF Grows, Mark
<1>2. TypeOK'
  BY DEF IInv, TypeOK, Moves, LocalsOK, Mark
<1>3. StagesNested' /\ RowSound(state["release"])'
  BY DEF IInv, RolloutInv, StagesNested, RowSound, SeenOn, ApprovedVersions,
         Known, Mark
<1>4. RequestsSound'
  <2> SUFFICES ASSUME NEW r \in Requests
               PROVE  /\ request[r] = None => status'[r] = "not_started"
                      /\ request[r] # None => request[r].previous \in SeenOn("release")
                      /\ status'[r] \in {"canary_ready", "release_reloading", "deployed"} =>
                            Evidence(r, "canary")
                      /\ status'[r] = "deployed" => Evidence(r, "release")
    BY DEF RequestsSound, SeenOn, Evidence, Mark
  <2>1. status'[r] = IF r = arg[o] THEN to ELSE status[r]
    BY DEF Mark, IInv, TypeOK
  <2>2. QED
    BY <2>1 DEF IInv, RolloutInv, RequestsSound, Known
<1>5. InboxSound'
  <2>1. \A p \in Ops : pc[p] = "await" => pc'[p] = "await"
    BY DEF Moves
  <2>2. QED
    BY <1>1, <2>1, InboxKept DEF IInv, RolloutInv, Mark
<1>6. QED
  BY <1>1, <1>2, <1>3, <1>4, <1>5, ScriptsKept DEF IInv, RolloutInv

\* insert_runtime_reload_event of a version that has reached the slot's stage.
LEMMA RecordEventStep ==
    ASSUME IInv, NEW o \in Ops, NEW L, Moves(o, L), Earned(o), faults' \in Nat,
           NEW slot \in Slots, NEW v \in Versions, RecordEvent(o, slot, v),
           Known(arg[o]),
           v \in IF slot = "release" THEN SeenOn("canary") ELSE ApprovedVersions
    PROVE  IInv'
<1>1. Grows
  BY DEF Grows, RecordEvent
<1>2. TypeOK'
  BY DEF IInv, TypeOK, Moves, LocalsOK, RecordEvent, Event, Known
<1>3. /\ SeenOn(slot)' = SeenOn(slot) \cup {v}
      /\ \A s \in Slots \ {slot} : SeenOn(s)' = SeenOn(s)
      /\ ApprovedVersions' = ApprovedVersions
  BY DEF SeenOn, RecordEvent, ApprovedVersions, Known
<1>4. StagesNested'
  BY <1>3 DEF IInv, RolloutInv, StagesNested, RecordEvent, Slots
<1>5. RequestsSound'
  <2>1. \A s \in Slots : SeenOn(s) \subseteq SeenOn(s)'
    BY <1>3
  <2>2. QED
    BY <2>1 DEF IInv, RolloutInv, RequestsSound, RecordEvent, Evidence, Slots
<1>6. RowSound(state["release"])'
  BY <1>3 DEF IInv, RolloutInv, RowSound, RecordEvent, Known, Slots
<1>7. InboxSound'
  <2>1. \A p \in Ops : pc[p] = "await" => pc'[p] = "await"
    BY DEF Moves, RecordEvent
  <2>2. QED
    BY <1>1, <2>1, InboxKept DEF IInv, RolloutInv, RecordEvent
<1>8. pc[o] # "idle"
  BY DEF RecordEvent
<1>9. QED
  BY <1>1, <1>2, <1>4, <1>5, <1>6, <1>7, <1>8, ScriptsKept DEF IInv, RolloutInv

\* champion moves to a version that the release has been seen to serve.
LEMMA ChampionStep ==
    ASSUME IInv, NEW o \in Ops, NEW L, Moves(o, L), Earned(o), faults' \in Nat,
           NEW v \in SeenOn("release"), SetChampion(o, v)
    PROVE  IInv'
<1>1. Grows
  BY DEF Grows, SetChampion, store
<1>2. v \in Versions
  BY VersionsAssumption DEF SeenOn
<1>3. TypeOK'
  BY <1>2 DEF IInv, TypeOK, Moves, LocalsOK, SetChampion, store
<1>4. StagesNested' /\ RequestsSound' /\ RowSound(state["release"])'
  BY DEF IInv, RolloutInv, StagesNested, RequestsSound, RowSound, SeenOn,
         ApprovedVersions, Known, Evidence, SetChampion, store
<1>5. InboxSound'
  <2>1. \A p \in Ops : pc[p] = "await" => pc'[p] = "await"
    BY DEF Moves, SetChampion
  <2>2. QED
    BY <1>1, <2>1, InboxKept DEF IInv, RolloutInv, SetChampion
<1>6. pc[o] # "idle"
  BY DEF SetChampion
<1>7. QED
  BY <1>1, <1>3, <1>4, <1>5, <1>6, ScriptsKept DEF IInv, RolloutInv

\* upsert_runtime_deployment_state; a row of the release slot must be sound.
LEMMA UpsertStep ==
    ASSUME IInv, NEW o \in Ops, NEW L, Moves(o, L), Earned(o), faults' \in Nat,
           NEW slot \in Slots, NEW new \in StateRow, Upsert(o, slot, new),
           slot = "release" => RowSound(new)
    PROVE  IInv'
<1>1. Grows
  BY DEF Grows, Upsert
<1>2. TypeOK'
  BY DEF IInv, TypeOK, Moves, LocalsOK, Upsert
<1>3. StagesNested' /\ RequestsSound'
  BY DEF IInv, RolloutInv, StagesNested, RequestsSound, SeenOn, ApprovedVersions,
         Evidence, Upsert
<1>4. RowSound(state["release"])'
  <2>1. state'["release"] = IF slot = "release" THEN new ELSE state["release"]
    BY DEF Upsert, IInv, TypeOK, Slots
  <2>2. SeenOn("canary")' = SeenOn("canary") /\ \A r : Known(r)' = Known(r)
    BY DEF SeenOn, Known, Upsert
  <2>3. RowSound(state["release"])
    BY DEF IInv, RolloutInv
  <2>4. QED
    BY <2>1, <2>2, <2>3 DEF RowSound
<1>5. InboxSound'
  <2>1. \A p \in Ops : pc[p] = "await" => pc'[p] = "await"
    BY DEF Moves, Upsert
  <2>2. QED
    BY <1>1, <2>1, InboxKept DEF IInv, RolloutInv, Upsert
<1>6. pc[o] # "idle"
  BY DEF Upsert
<1>7. QED
  BY <1>1, <1>2, <1>3, <1>4, <1>5, <1>6, ScriptsKept DEF IInv, RolloutInv

\* A reload request for a version that has reached the stage before the slot's.
LEMMA PostStep ==
    ASSUME IInv, NEW o \in Ops, NEW slot \in Slots, NEW v \in Versions,
           NEW expected \in Versions \cup {None}, PostReload(o, slot, v, expected),
           o \in Reloaders(slot),
           v \in IF slot = "release" THEN SeenOn("canary") ELSE ApprovedVersions
    PROVE  IInv'
<1> DEFINE new == [op |-> o, version |-> v, expected |-> expected, live |-> TRUE]
<1>1. Grows
  BY DEF Grows, PostReload, store
<1>2. Moves(o, {"await"})
  BY GotoMoves DEF PostReload, IInv, Labels
<1>3. /\ inbox[slot] \in Seq(Message) /\ new \in Message
      /\ inbox'[slot] = Append(inbox[slot], new)
      /\ \A s \in Slots \ {slot} : inbox'[s] = inbox[s]
  BY DEF PostReload, IInv, TypeOK, Message
<1>4. TypeOK'
  <2>1. inbox' \in [Slots -> Seq(Message)]
    BY <1>3 DEF PostReload, IInv, TypeOK
  <2>2. QED
    BY <1>2, <2>1 DEF IInv, TypeOK, Moves, LocalsOK, PostReload, store
<1>5. StagesNested' /\ RequestsSound' /\ RowSound(state["release"])'
  BY DEF IInv, RolloutInv, StagesNested, RequestsSound, RowSound, SeenOn,
         ApprovedVersions, Known, Evidence, PostReload, store
<1>6. InboxSound'
  <2>1. /\ SeenOn("canary")' = SeenOn("canary")
        /\ ApprovedVersions' = ApprovedVersions
    BY DEF SeenOn, ApprovedVersions, PostReload, store
  <2>2. /\ pc[o] = "post" /\ pc'[o] = "await"
        /\ \A p \in Ops \ {o} : pc'[p] = pc[p]
    BY <1>2 DEF PostReload, Moves
  <2> SUFFICES ASSUME NEW s \in Slots, NEW i \in DOMAIN inbox'[s]
               PROVE  LET m == inbox'[s][i]
                      IN /\ m.op \in Reloaders(s)
                         /\ m.version \in IF s = "release" THEN SeenOn("canary") ELSE ApprovedVersions
                         /\ m.live => pc'[m.op] = "await"
                         /\ m.live => \A j \in DOMAIN inbox'[s] :
                               inbox'[s][j].op = m.op /\ inbox'[s][j].live => i = j
    BY <2>1 DEF InboxSound, Reloaders
  <2>3. \A t \in Slots : Reloaders(t) \subseteq Ops
    BY DEF Reloaders, Ops
  <2>4. \A t \in Slots : \A k \in DOMAIN inbox[t] :
           /\ inbox[t][k].op \in Reloaders(t)
           /\ inbox[t][k].version \in IF t = "release" THEN SeenOn("canary") ELSE ApprovedVersions
           /\ inbox[t][k].live => pc[inbox[t][k].op] = "await"
           /\ inbox[t][k].live => \A j \in DOMAIN inbox[t] :
                 inbox[t][j].op = inbox[t][k].op /\ inbox[t][j].live => k = j
    BY DEF IInv, RolloutInv, InboxSound
  <2>5. CASE s # slot
    <3>1. inbox'[s] = inbox[s]
      BY <1>3, <2>5
    <3>2. \A k \in DOMAIN inbox[s] : inbox[s][k].live => inbox[s][k].op # o
      BY <2>2, <2>4
    <3>3. QED
      BY <2>2, <2>3, <2>4, <3>1, <3>2
  <2>6. CASE s = slot
    <3>1. /\ DOMAIN inbox'[s] = 1 .. Len(inbox[s]) + 1
          /\ DOMAIN inbox[s] = 1 .. Len(inbox[s])
          /\ Len(inbox[s]) \in Nat
          /\ inbox'[s][Len(inbox[s]) + 1] = new
          /\ \A k \in 1 .. Len(inbox[s]) : inbox'[s][k] = inbox[s][k]
      BY <1>3, <2>6
    <3>2. CASE i \in 1 .. Len(inbox[s])
      <4>1. inbox[s][i].live => inbox[s][i].op # o
        BY <2>2, <2>4, <3>1, <3>2
      <4>2. inbox'[s][i] = inbox[s][i] /\ i \in DOMAIN inbox[s]
        BY <3>1, <3>2
      <4>3. inbox[s][i].live => pc'[inbox[s][i].op] = "await"
        BY <2>2, <2>3, <2>4, <4>1, <4>2
      <4>4. ASSUME inbox[s][i].live, NEW j \in DOMAIN inbox'[s],
                   inbox'[s][j].op = inbox[s][i].op, inbox'[s][j].live
            PROVE  i = j
        <5>1. j # Len(inbox[s]) + 1
          BY <3>1, <4>1, <4>4
        <5>2. j \in DOMAIN inbox[s] /\ inbox'[s][j] = inbox[s][j]
          BY <3>1, <5>1
        <5>3. QED
          BY <2>4, <4>2, <4>4, <5>2
      <4>5. QED
        BY <2>4, <4>2, <4>3, <4>4
    <3>3. CASE i = Len(inbox[s]) + 1
      <4>1. \A k \in 1 .. Len(inbox[s]) : inbox[s][k].live => inbox[s][k].op # o
        BY <2>2, <2>4, <3>1
      <4>2. QED
        BY <2>2, <2>6, <3>1, <3>3, <4>1
    <3>4. QED
      BY <3>1, <3>2, <3>3
  <2>7. QED
    BY <2>5, <2>6
<1>7. Earned(o) /\ pc[o] # "idle"
  BY <1>2 DEF Earned, Moves, DeployLate, PromoteLate, RollbackLate, PostReload
<1>8. QED
  BY <1>1, <1>2, <1>4, <1>5, <1>6, <1>7, ScriptsKept DEF IInv, RolloutInv
-----------------------------------------------------------------------------
(* Steps that start a script or read a row                                 *)

\* A step that touches nothing outside the scripts, and no waiting script.
LEMMA OutsideKept ==
    ASSUME IInv, UNCHANGED Outside,
           \A p \in Ops : pc[p] = "await" => pc'[p] = "await"
    PROVE  StagesNested' /\ RequestsSound' /\ InboxSound' /\ RowSound(state["release"])'
<1>1. StagesNested' /\ RequestsSound' /\ RowSound(state["release"])'
  BY DEF IInv, RolloutInv, StagesNested, RequestsSound, RowSound, SeenOn,
         ApprovedVersions, Known, Evidence, Outside
<1>2. InboxSound'
  BY InboxKept DEF IInv, RolloutInv, Outside, Grows
<1>3. QED
  BY <1>1, <1>2

LEMMA StartStep ==
    ASSUME IInv, NEW o \in Ops \ {"rollback_release"}, NEW r \in Requests,
           NEW l \in {"read_row", "observe", "traffic"}, Start(o, r, l), Known(r),
           o = "promote" => l = "observe" /\ Evidence(r, "canary"),
           UNCHANGED Outside, UNCHANGED faults
    PROVE  IInv'
<1>1. TypeOK'
  BY DEF IInv, TypeOK, Start, Labels, Outside
<1>2. StagesNested' /\ RequestsSound' /\ InboxSound' /\ RowSound(state["release"])'
  BY OutsideKept DEF Start, MayStart, IInv, TypeOK
<1>3. /\ pc'[o] = l /\ arg'[o] = r /\ row'[o] = None /\ prev'[o] = None
      /\ \A p \in Ops \ {o} : pc'[p] = pc[p] /\ SameLocals(p) /\ prev'[p] = prev[p]
  BY DEF IInv, TypeOK, Start, SameLocals
<1>4. Grows
  BY DEF Grows, Outside
<1>5. /\ Known(r)'
      /\ Evidence(r, "canary") => Evidence(r, "canary")'
  BY DEF Known, Evidence, Outside
<1>6. DeploySound'
  <2>1. CASE o = "deploy"
    BY <1>3, <1>5, <2>1 DEF DeploySound
  <2>2. CASE o # "deploy"
    BY <1>3, <1>4, <2>2, DeployKept DEF IInv, RolloutInv, DeploySound, Ops
  <2>3. QED
    BY <2>1, <2>2
<1>7. PromoteSound'
  <2>1. CASE o = "promote"
    BY <1>3, <1>5, <2>1 DEF PromoteSound, RowSound
  <2>2. CASE o # "promote"
    BY <1>3, <1>4, <2>2, PromoteKept DEF IInv, RolloutInv, PromoteSound, Ops
  <2>3. QED
    BY <2>1, <2>2
<1>8. RollbackSound'
  BY <1>3, <1>4, RollbackKept DEF IInv, RolloutInv, RollbackSound, Ops
<1>9. WithdrawSound'
  <2>1. CASE o = "rollback_canary"
    BY <1>3, <1>5, <2>1 DEF WithdrawSound
  <2>2. CASE o # "rollback_canary"
    BY <1>3, <1>4, <2>2, WithdrawKept DEF IInv, RolloutInv, WithdrawSound, Ops
  <2>3. QED
    BY <2>1, <2>2
<1>10. QED
  BY <1>1, <1>2, <1>6, <1>7, <1>8, <1>9 DEF IInv, RolloutInv

LEMMA DeployStarts ==
    ASSUME IInv, NEW r \in Requests, DeployStart(r)
    PROVE  IInv'
BY StartStep DEF DeployStart, CanaryDeployable, Known, Ops, Outside, store

LEMMA PromoteStarts ==
    ASSUME IInv, NEW r \in Requests, PromoteStart(r)
    PROVE  IInv'
<1>1. Known(r) /\ Evidence(r, "canary")
  BY DEF PromoteStart, ReleasePromotable, ReleasePromotableStatuses, Known,
         IInv, RolloutInv, RequestsSound
<1>2. QED
  BY <1>1, StartStep DEF PromoteStart, Ops, Outside, store

LEMMA WithdrawStarts ==
    ASSUME IInv, NEW r \in Requests, WithdrawStart(r)
    PROVE  IInv'
BY StartStep DEF WithdrawStart, CanaryRollbackEligible, Known, Ops, Outside, store

LEMMA RollbackStarts ==
    ASSUME IInv, RollbackStart
    PROVE  IInv'
<1> DEFINE o == "rollback_release"
<1>1. TypeOK'
  BY DEF IInv, TypeOK, RollbackStart, RollbackReady, StateRow, Labels, Slots, store
<1>2. StagesNested' /\ RequestsSound' /\ InboxSound' /\ RowSound(state["release"])'
  BY OutsideKept DEF RollbackStart, MayStart, IInv, TypeOK, Outside, store
<1>3. /\ pc'[o] = "check_request" /\ arg'[o] = state["release"].activeReq
      /\ row'[o] = state["release"]
      /\ \A p \in Ops \ {o} : pc'[p] = pc[p] /\ SameLocals(p) /\ prev'[p] = prev[p]
  BY DEF IInv, TypeOK, RollbackStart, SameLocals, Ops
<1>4. Grows
  BY DEF Grows, RollbackStart, store
<1>5. DeploySound'
  BY <1>3, <1>4, DeployKept DEF IInv, RolloutInv, DeploySound, Ops
<1>6. PromoteSound'
  BY <1>3, <1>4, PromoteKept DEF IInv, RolloutInv, PromoteSound, Ops
<1>7. RollbackSound'
  <2>1. /\ RowSound(state["release"]) /\ state["release"] # None
        /\ state["release"].prev # None /\ Known(state["release"].activeReq)
    BY DEF RollbackStart, RollbackReady, IInv, RolloutInv, RowSound
  <2>2. RowSound(RollbackRow)' /\ Known(arg[o])'
    BY <1>3, <2>1 DEF RowSound, RollbackRow, Known, SeenOn, RollbackStart, store
  <2>3. QED
    BY <1>3, <2>1, <2>2 DEF RollbackSound, RollbackRow
<1>8. WithdrawSound'
  BY <1>3, <1>4, WithdrawKept DEF IInv, RolloutInv, WithdrawSound, Ops
<1>9. QED
  BY <1>1, <1>2, <1>5, <1>6, <1>7, <1>8 DEF IInv, RolloutInv

LEMMA DeployReads ==
    ASSUME IInv, DeployReadRow
    PROVE  IInv'
<1>1. TypeOK'
  BY DEF IInv, TypeOK, DeployReadRow, Labels, Slots, store
<1>2. StagesNested' /\ RequestsSound' /\ InboxSound' /\ RowSound(state["release"])'
  BY OutsideKept DEF DeployReadRow, IInv, TypeOK, Outside, store
<1>3. /\ pc'["deploy"] = "mark_reloading" /\ arg' = arg /\ prev' = prev
      /\ \A p \in Ops \ {"deploy"} : pc'[p] = pc[p] /\ SameLocals(p)
  BY DEF IInv, TypeOK, DeployReadRow, SameLocals, Ops
<1>4. Grows
  BY DEF Grows, DeployReadRow, store
<1>5. DeploySound'
  BY <1>3 DEF IInv, RolloutInv, DeploySound, DeployReadRow, Known, store
<1>6. PromoteSound'
  BY <1>3, <1>4, PromoteKept DEF IInv, RolloutInv, PromoteSound, Ops
<1>7. RollbackSound'
  BY <1>3, <1>4, RollbackKept DEF IInv, RolloutInv, RollbackSound, Ops
<1>8. WithdrawSound'
  BY <1>3, <1>4, WithdrawKept DEF IInv, RolloutInv, WithdrawSound, Ops
<1>9. QED
  BY <1>1, <1>2, <1>5, <1>6, <1>7, <1>8 DEF IInv, RolloutInv

LEMMA PromoteReads ==
    ASSUME IInv, PromoteReadRow
    PROVE  IInv'
<1>1. TypeOK'
  BY DEF IInv, TypeOK, PromoteReadRow, Labels, Slots, store
<1>2. StagesNested' /\ RequestsSound' /\ InboxSound' /\ RowSound(state["release"])'
  BY OutsideKept DEF PromoteReadRow, IInv, TypeOK, Outside, store
<1>3. /\ pc'["promote"] = "mark_reloading" /\ row'["promote"] = state["release"]
      /\ arg' = arg /\ prev' = prev
      /\ \A p \in Ops \ {"promote"} : pc'[p] = pc[p] /\ SameLocals(p)
  BY DEF IInv, TypeOK, PromoteReadRow, SameLocals, Ops
<1>4. Grows
  BY DEF Grows, PromoteReadRow, store
<1>5. DeploySound'
  BY <1>3, <1>4, DeployKept DEF IInv, RolloutInv, DeploySound, Ops
<1>6. PromoteSound'
  <2>1. RowSound(row["promote"])'
    BY <1>2, <1>3 DEF RowSound, PromoteReadRow, store
  <2>2. QED
    BY <1>3, <2>1 DEF IInv, RolloutInv, PromoteSound, PromoteReadRow, Known, Evidence,
                      SeenOn, store
<1>7. RollbackSound'
  BY <1>3, <1>4, RollbackKept DEF IInv, RolloutInv, RollbackSound, Ops
<1>8. WithdrawSound'
  BY <1>3, <1>4, WithdrawKept DEF IInv, RolloutInv, WithdrawSound, Ops
<1>9. QED
  BY <1>1, <1>2, <1>5, <1>6, <1>7, <1>8 DEF IInv, RolloutInv
-----------------------------------------------------------------------------
(* The steps of the scripts                                                *)

LEMMA SourceApproved ==
    ASSUME TypeOK, NEW r, Known(r)
    PROVE  /\ r \in Requests
           /\ request[r] \in RequestRow
           /\ request[r].source \in ApprovedVersions
           /\ request[r].source \in Versions
BY DEF TypeOK, Known, ApprovedVersions, RequestRow

LEMMA StagesInVersions ==
    ASSUME TypeOK
    PROVE  /\ ApprovedVersions \subseteq Versions
           /\ \A slot : SeenOn(slot) \subseteq Versions
BY VersionsAssumption DEF ApprovedVersions, SeenOn

LEMMA EvidenceSeen ==
    ASSUME TypeOK, NEW r, Known(r), NEW slot \in Slots, Evidence(r, slot)
    PROVE  request[r].source \in SeenOn(slot)
BY SourceApproved DEF Evidence, SeenOn

\* A reload of slot is verified, or the script gives up.
LEMMA VerifyStep ==
    ASSUME IInv, NEW o \in Ops, NEW slot \in Slots, NEW v, Verify(o, slot, v)
    PROVE  IInv'
<1>1. "event" \in Labels
  BY DEF Labels
<1>2. Moves(o, {"event", "idle", "failing"})
  <2>1. CASE Goto(o, "event")
    BY <1>1, <2>1, GotoMoves DEF IInv, Moves
  <2>2. CASE Raise(o)
    BY <2>2, RaiseMoves DEF IInv, Moves
  <2>3. QED
    BY <2>1, <2>2 DEF Verify
<1>3. faults' \in Nat
  BY SpendNat DEF Verify, Unreadable, IInv, TypeOK
<1>4. Earned(o)
  BY <1>2 DEF Earned, Moves, DeployLate, PromoteLate, RollbackLate
<1>5. QED
  BY <1>2, <1>3, <1>4, QuietStep DEF Verify, IInv, TypeOK

LEMMA DeploySteps ==
    ASSUME IInv, DeployStep
    PROVE  IInv'
<1> USE DEF Ops
<1> DEFINE o == "deploy"
<1>1. pc[o] # "idle"
  BY DEF DeployStep, DeployReadRow, DeployMarkReloading, DeployPost, PostReload,
         DeployVerify, Verify, DeployRecordEvent, RecordEvent, DeployMarkReady,
         DeployUpsert, Upsert, DeployFailed
<1>2. Known(arg[o]) /\ (pc[o] \in DeployLate => Evidence(arg[o], "canary"))
  BY <1>1 DEF IInv, RolloutInv, DeploySound, DeployLate
<1>3. /\ DeploySource \in ApprovedVersions /\ DeploySource \in Versions
      /\ arg[o] \in Requests
  BY <1>2, SourceApproved DEF DeploySource, IInv
<1>4. CASE DeployReadRow
  BY <1>4, DeployReads
<1>5. CASE DeployMarkReloading
  <2>1. Moves(o, {"post", "idle", "failing"}) /\ faults' \in Nat
    BY <1>5, DoneMoves DEF DeployMarkReloading, IInv, Labels
  <2>2. Earned(o)
    BY <2>1 DEF Earned, Moves, DeployLate
  <2>3. QED
    BY <1>2, <1>5, <2>1, <2>2, MarkStep DEF DeployMarkReloading, Statuses
<1>6. CASE DeployPost
  BY <1>3, <1>6, PostStep DEF DeployPost, Slots, Reloaders
<1>7. CASE DeployVerify
  BY <1>7, VerifyStep DEF DeployVerify, Slots
<1>8. CASE DeployRecordEvent
  <2>1. Moves(o, {"mark_done", "idle", "failing"}) /\ faults' \in Nat
    BY <1>8, DoneMoves DEF DeployRecordEvent, IInv, Labels
  <2>2. pc'[o] # "idle" => arg'[o] = arg[o]
    BY <2>1 DEF Moves, SameLocals
  <2>3. Earned(o)
    BY <1>8, <2>2 DEF Earned, DeployRecordEvent, RecordEvent, Evidence, DeploySource,
                      DeployLate
  <2>4. QED
    BY <1>2, <1>3, <1>8, <2>1, <2>3, RecordEventStep DEF DeployRecordEvent, Slots
<1>9. CASE DeployMarkReady
  <2>1. Moves(o, {"upsert", "idle", "failing"}) /\ faults' \in Nat
    BY <1>9, DoneMoves DEF DeployMarkReady, IInv, Labels
  <2>2. pc[o] \in DeployLate
    BY <1>9 DEF DeployMarkReady, DeployLate
  <2>3. Earned(o)
    BY <2>2 DEF Earned
  <2>4. QED
    BY <1>2, <1>9, <2>1, <2>2, <2>3, MarkStep DEF DeployMarkReady, Statuses, DeployLate
<1>10. CASE DeployUpsert
  <2>1. Moves(o, {"idle", "failing"}) /\ faults' \in Nat
    BY <1>10, CompletedMoves DEF DeployUpsert, IInv
  <2>2. Earned(o)
    BY <2>1 DEF Earned, Moves, DeployLate
  <2>3. DeployRow \in StateRow
    <3>1. /\ prev[o] \in Versions \cup {None}
          /\ ActiveRequest(row[o], prev[o]) \in Requests \cup {None}
      BY DEF IInv, TypeOK, ActiveRequest, StateRow
    <3>2. QED
      BY <1>3, <3>1 DEF DeployRow, StateRow, Operations
  <2>4. QED
    BY <1>10, <2>1, <2>2, <2>3, UpsertStep DEF DeployUpsert, Slots
<1>11. CASE DeployFailed
  <2>1. Moves(o, {"idle", "failing"}) /\ faults' \in Nat
    BY <1>11, CompletedMoves DEF DeployFailed, IInv
  <2>2. Earned(o)
    BY <2>1 DEF Earned, Moves, DeployLate
  <2>3. QED
    BY <1>2, <1>11, <2>1, <2>2, MarkStep DEF DeployFailed, Statuses
<1>12. QED
  BY <1>4, <1>5, <1>6, <1>7, <1>8, <1>9, <1>10, <1>11 DEF DeployStep

LEMMA PromoteSteps ==
    ASSUME IInv, PromoteStep
    PROVE  IInv'
<1> USE DEF Ops
<1> DEFINE o == "promote"
<1> DEFINE source == PromoteRequest.source
<1>1. pc[o] # "idle"
  BY DEF PromoteStep, PromoteObserve, PromoteReadRow, PromoteMarkReloading,
         PromoteRefused, PromotePost, PostReload, PromoteVerify, Verify,
         PromoteRecordEvent, RecordEvent, PromoteSetChampion, SetChampion,
         PromoteGetCandidate, PromoteDeleteCandidate, PromoteResetTraffic,
         ResetTraffic, PromoteSkipTraffic, PromoteMarkDeployed, PromoteUpsert,
         Upsert, PromoteFailed
<1>2. /\ Known(arg[o]) /\ Evidence(arg[o], "canary") /\ RowSound(row[o])
      /\ prev[o] \in SeenOn("canary") \cup {None}
      /\ pc[o] \in PromoteLate => Evidence(arg[o], "release")
  BY <1>1 DEF IInv, RolloutInv, PromoteSound, PromoteLate
<1>3. /\ arg[o] \in Requests /\ source \in Versions
      /\ source \in SeenOn("canary")
      /\ pc[o] \in PromoteLate => source \in SeenOn("release")
  BY <1>2, SourceApproved, EvidenceSeen DEF PromoteRequest, IInv, Slots
<1>4. CASE PromoteObserve
  <2>1. Moves(o, {"read_row"})
    BY <1>4 DEF PromoteObserve, Moves, LocalsOK, SameLocals, IInv, TypeOK, Labels, Slots
  <2>2. faults' \in Nat
    BY <1>4, SpendNat DEF PromoteObserve, Unreadable, IInv, TypeOK
  <2>3. Earned(o)
    BY <2>1 DEF Earned, Moves, PromoteLate
  <2>4. QED
    BY <1>4, <2>1, <2>2, <2>3, QuietStep DEF PromoteObserve, IInv, TypeOK
<1>5. CASE PromoteReadRow
  BY <1>5, PromoteReads
<1>6. CASE PromoteMarkReloading
  <2>1. Moves(o, {"post", "idle", "failing"}) /\ faults' \in Nat
    BY <1>6, DoneMoves DEF PromoteMarkReloading, IInv, Labels
  <2>2. Earned(o)
    BY <2>1 DEF Earned, Moves, PromoteLate
  <2>3. QED
    BY <1>2, <1>6, <2>1, <2>2, MarkStep DEF PromoteMarkReloading, Statuses
<1>7. CASE PromoteRefused
  <2>1. Moves(o, {"failing"})
    BY <1>7, GotoMoves DEF PromoteRefused, IInv, Labels
  <2>2. Earned(o)
    BY <2>1 DEF Earned, Moves, PromoteLate
  <2>3. QED
    BY <1>7, <2>1, <2>2, QuietStep DEF PromoteRefused, IInv, TypeOK
<1>8. CASE PromotePost
  <2>1. obs[o] \in Versions \cup {None}
    BY DEF IInv, TypeOK
  <2>2. QED
    BY <1>3, <1>8, <2>1, PostStep DEF PromotePost, Slots, Reloaders
<1>9. CASE PromoteVerify
  BY <1>9, VerifyStep DEF PromoteVerify, Slots
<1>10. CASE PromoteRecordEvent
  <2>1. Moves(o, {"set_alias", "idle", "failing"}) /\ faults' \in Nat
    BY <1>10, DoneMoves DEF PromoteRecordEvent, IInv, Labels
  <2>2. pc'[o] # "idle" => arg'[o] = arg[o]
    BY <2>1 DEF Moves, SameLocals
  <2>3. Earned(o)
    BY <1>10, <2>2 DEF Earned, PromoteRecordEvent, RecordEvent, Evidence,
                       PromoteRequest, PromoteLate
  <2>4. QED
    BY <1>2, <1>3, <1>10, <2>1, <2>3, RecordEventStep DEF PromoteRecordEvent, Slots
<1>11. CASE PromoteSetChampion
  <2>1. Moves(o, {"get_candidate", "idle", "failing"}) /\ faults' \in Nat
    BY <1>11, DoneMoves DEF PromoteSetChampion, IInv, Labels
  <2>2. pc[o] \in PromoteLate
    BY <1>11 DEF PromoteSetChampion, SetChampion, PromoteLate
  <2>3. QED
    BY <1>3, <1>11, <2>1, <2>2, ChampionStep DEF PromoteSetChampion, Earned
<1>12. CASE PromoteGetCandidate
  <2>1. Moves(o, {"traffic", "delete_candidate"})
    BY <1>12, GotoMoves DEF PromoteGetCandidate, IInv, Labels, Moves
  <2>2. pc[o] \in PromoteLate
    BY <1>12 DEF PromoteGetCandidate, PromoteLate
  <2>3. QED
    BY <1>12, <2>1, <2>2, QuietStep DEF PromoteGetCandidate, IInv, TypeOK, Earned
<1>13. CASE PromoteDeleteCandidate
  <2>1. Moves(o, {"traffic", "idle", "failing"}) /\ faults' \in Nat
    BY <1>13, DoneMoves DEF PromoteDeleteCandidate, IInv, Labels
  <2>2. pc[o] \in PromoteLate
    BY <1>13 DEF PromoteDeleteCandidate, PromoteLate
  <2>3. QED
    BY <1>13, <2>1, <2>2, QuietStep DEF PromoteDeleteCandidate, IInv, TypeOK, Earned
<1>14. CASE PromoteResetTraffic
  <2>1. Moves(o, {"mark_done", "idle", "failing"}) /\ faults' \in Nat
    BY <1>14, DoneMoves DEF PromoteResetTraffic, IInv, Labels
  <2>2. pc[o] \in PromoteLate
    BY <1>14 DEF PromoteResetTraffic, ResetTraffic, PromoteLate
  <2>3. QED
    BY <1>14, <2>1, <2>2, QuietStep DEF PromoteResetTraffic, ResetTraffic, IInv, TypeOK,
                                        Earned
<1>15. CASE PromoteSkipTraffic
  <2>1. Moves(o, {"mark_done"})
    BY <1>15, GotoMoves DEF PromoteSkipTraffic, IInv, Labels
  <2>2. pc[o] \in PromoteLate
    BY <1>15 DEF PromoteSkipTraffic, PromoteLate
  <2>3. QED
    BY <1>15, <2>1, <2>2, QuietStep DEF PromoteSkipTraffic, IInv, TypeOK, Earned
<1>16. CASE PromoteMarkDeployed
  <2>1. Moves(o, {"upsert", "idle", "failing"}) /\ faults' \in Nat
    BY <1>16, DoneMoves DEF PromoteMarkDeployed, IInv, Labels
  <2>2. pc[o] \in PromoteLate
    BY <1>16 DEF PromoteMarkDeployed, PromoteLate
  <2>3. QED
    BY <1>2, <1>16, <2>1, <2>2, MarkStep DEF PromoteMarkDeployed, Statuses, Earned
<1>17. CASE PromoteUpsert
  <2>1. Moves(o, {"idle", "failing"}) /\ faults' \in Nat
    BY <1>17, CompletedMoves DEF PromoteUpsert, IInv
  <2>2. Earned(o)
    BY <2>1 DEF Earned, Moves, PromoteLate
  <2>3. PromoteRow \in StateRow
    <3>1. /\ prev[o] \in Versions \cup {None}
          /\ ActiveRequest(row[o], prev[o]) \in Requests \cup {None}
      BY DEF IInv, TypeOK, ActiveRequest, StateRow
    <3>2. QED
      BY <1>3, <3>1 DEF PromoteRow, StateRow, Operations
  <2>4. RowSound(PromoteRow)
    BY <1>2, <1>3 DEF RowSound, PromoteRow, ActiveRequest
  <2>5. QED
    BY <1>17, <2>1, <2>2, <2>3, <2>4, UpsertStep DEF PromoteUpsert, Slots
<1>18. CASE PromoteFailed
  <2>1. Moves(o, {"idle", "failing"}) /\ faults' \in Nat
    BY <1>18, CompletedMoves DEF PromoteFailed, IInv
  <2>2. Earned(o)
    BY <2>1 DEF Earned, Moves, PromoteLate
  <2>3. QED
    BY <1>2, <1>18, <2>1, <2>2, MarkStep DEF PromoteFailed, Statuses
<1>19. QED
  BY <1>4, <1>5, <1>6, <1>7, <1>8, <1>9, <1>10, <1>11, <1>12, <1>13, <1>14, <1>15,
     <1>16, <1>17, <1>18 DEF PromoteStep

LEMMA RollbackSteps ==
    ASSUME IInv, RollbackStep
    PROVE  IInv'
<1> USE DEF Ops
<1> DEFINE o == "rollback_release"
<1>1. pc[o] # "idle"
  BY DEF RollbackStep, RollbackCheckRequest, RollbackCheckAlias, RollbackResetTraffic,
         ResetTraffic, RollbackSkipTraffic, RollbackObserve, RollbackPost, PostReload,
         RollbackVerify, Verify, RollbackRecordEvent, RecordEvent, RollbackSetChampion,
         SetChampion, RollbackMark, RollbackUpsert, Upsert
<1>2. /\ Known(arg[o]) /\ RollbackRow # None /\ RowSound(RollbackRow)
      /\ RollbackRow.prev # None
      /\ pc[o] \in RollbackLate => RollbackRow.prev \in SeenOn("release")
  BY <1>1 DEF IInv, RolloutInv, RollbackSound, RollbackLate
<1>3. /\ arg[o] \in Requests
      /\ RollbackRow \in StateRow
      /\ RollbackRow.prev \in Versions
      /\ RollbackRow.prev \in SeenOn("canary")
  BY <1>2 DEF Known, RowSound, RollbackRow, IInv, TypeOK, StateRow
<1>4. CASE RollbackCheckRequest
  <2>1. Moves(o, {"check_alias", "idle"})
    BY <1>4, GotoMoves, ExitMoves DEF RollbackCheckRequest, IInv, Labels, Moves
  <2>2. Earned(o)
    BY <2>1 DEF Earned, Moves, RollbackLate
  <2>3. QED
    BY <1>4, <2>1, <2>2, QuietStep DEF RollbackCheckRequest, IInv, TypeOK
<1>5. CASE RollbackCheckAlias
  <2>1. Moves(o, {"traffic", "idle"})
    BY <1>5, GotoMoves, ExitMoves DEF RollbackCheckAlias, IInv, Labels, Moves
  <2>2. Earned(o)
    BY <2>1 DEF Earned, Moves, RollbackLate
  <2>3. QED
    BY <1>5, <2>1, <2>2, QuietStep DEF RollbackCheckAlias, IInv, TypeOK
<1>6. CASE RollbackResetTraffic
  <2>1. Moves(o, {"observe", "idle", "failing"}) /\ faults' \in Nat
    BY <1>6, DoneMoves DEF RollbackResetTraffic, IInv, Labels
  <2>2. Earned(o)
    BY <2>1 DEF Earned, Moves, RollbackLate
  <2>3. QED
    BY <1>6, <2>1, <2>2, QuietStep DEF RollbackResetTraffic, ResetTraffic, IInv, TypeOK
<1>7. CASE RollbackSkipTraffic
  <2>1. Moves(o, {"observe"})
    BY <1>7, GotoMoves DEF RollbackSkipTraffic, IInv, Labels
  <2>2. Earned(o)
    BY <2>1 DEF Earned, Moves, RollbackLate
  <2>3. QED
    BY <1>7, <2>1, <2>2, QuietStep DEF RollbackSkipTraffic, IInv, TypeOK
<1>8. CASE RollbackObserve
  <2>1. Moves(o, {"post", "idle"})
    <3>1. CASE Exit(o)
      BY <3>1, ExitMoves DEF IInv, Moves
    <3>2. CASE ~Exit(o)
      <4>1. /\ pc' = [pc EXCEPT ![o] = "post"]
            /\ obs' = [obs EXCEPT ![o] = runtime["release"]]
            /\ arg' = arg /\ row' = row /\ prev' = prev
        BY <1>8, <3>2 DEF RollbackObserve
      <4>2. runtime["release"] \in Versions /\ "post" \in Labels /\ TypeOK
        BY DEF IInv, TypeOK, Slots, Labels
      <4>3. LocalsOK'
        BY <4>1, <4>2 DEF LocalsOK, TypeOK
      <4>4. QED
        BY <4>1, <4>2, <4>3 DEF Moves, SameLocals, TypeOK
    <3>3. QED
      BY <3>1, <3>2
  <2>2. faults' \in Nat
    BY <1>8, SpendNat DEF RollbackObserve, Unreadable, IInv, TypeOK
  <2>3. Earned(o)
    BY <2>1 DEF Earned, Moves, RollbackLate
  <2>4. QED
    BY <1>8, <2>1, <2>2, <2>3, QuietStep DEF RollbackObserve, IInv, TypeOK
<1>9. CASE RollbackPost
  <2>1. obs[o] \in Versions \cup {None}
    BY DEF IInv, TypeOK
  <2>2. QED
    BY <1>3, <1>9, <2>1, PostStep DEF RollbackPost, Slots, Reloaders
<1>10. CASE RollbackVerify
  BY <1>10, VerifyStep DEF RollbackVerify, Slots
<1>11. CASE RollbackRecordEvent
  <2>1. Moves(o, {"set_alias", "idle", "failing"}) /\ faults' \in Nat
    BY <1>11, DoneMoves DEF RollbackRecordEvent, IInv, Labels
  <2>2. RollbackRow.prev \in SeenOn("release")'
    BY <1>3, <1>11 DEF RollbackRecordEvent, RecordEvent, SeenOn
  <2>3. Earned(o)
    BY <2>2 DEF Earned
  <2>4. QED
    BY <1>2, <1>3, <1>11, <2>1, <2>3, RecordEventStep DEF RollbackRecordEvent, Slots
<1>12. CASE RollbackSetChampion
  <2>1. Moves(o, {"mark_done", "idle", "failing"}) /\ faults' \in Nat
    BY <1>12, DoneMoves DEF RollbackSetChampion, IInv, Labels
  <2>2. pc[o] \in RollbackLate
    BY <1>12 DEF RollbackSetChampion, SetChampion, RollbackLate
  <2>3. QED
    BY <1>2, <1>12, <2>1, <2>2, ChampionStep DEF RollbackSetChampion, Earned
<1>13. CASE RollbackMark
  <2>1. Moves(o, {"upsert", "idle", "failing"}) /\ faults' \in Nat
    BY <1>13, DoneMoves DEF RollbackMark, IInv, Labels
  <2>2. pc[o] \in RollbackLate
    BY <1>13 DEF RollbackMark, RollbackLate
  <2>3. QED
    BY <1>2, <1>13, <2>1, <2>2, MarkStep DEF RollbackMark, Statuses, Earned
<1>14. CASE RollbackUpsert
  <2>1. Moves(o, {"idle", "failing"}) /\ faults' \in Nat
    BY <1>14, CompletedMoves DEF RollbackUpsert, IInv
  <2>2. Earned(o)
    BY <2>1 DEF Earned, Moves, RollbackLate
  <2>3. SwappedRow \in StateRow
    BY <1>3 DEF SwappedRow, StateRow, Operations
  <2>4. RowSound(SwappedRow)
    BY <1>2, <1>3 DEF RowSound, SwappedRow
  <2>5. QED
    BY <1>14, <2>1, <2>2, <2>3, <2>4, UpsertStep DEF RollbackUpsert, Slots
<1>15. QED
  BY <1>4, <1>5, <1>6, <1>7, <1>8, <1>9, <1>10, <1>11, <1>12, <1>13, <1>14
     DEF RollbackStep

LEMMA WithdrawSteps ==
    ASSUME IInv, WithdrawStep
    PROVE  IInv'
<1> USE DEF Ops
<1> DEFINE o == "rollback_canary"
<1>1. pc[o] # "idle"
  BY DEF WithdrawStep, WithdrawTraffic, ResetTraffic, WithdrawPost, PostReload,
         WithdrawVerify, Verify, WithdrawRecordEvent, RecordEvent, WithdrawMark
<1>2. Known(arg[o])
  BY <1>1 DEF IInv, RolloutInv, WithdrawSound
<1>3. arg[o] \in Requests /\ CanaryPrevious \in Versions /\ CanaryPrevious \in ApprovedVersions
  <2>1. arg[o] \in Requests /\ request[arg[o]] # None
    BY <1>2 DEF Known
  <2>2. CanaryPrevious \in SeenOn("release")
    BY <2>1 DEF CanaryPrevious, IInv, RolloutInv, RequestsSound
  <2>3. QED
    BY <2>1, <2>2, StagesInVersions DEF IInv, RolloutInv, StagesNested
<1>4. Earned(o)
  BY DEF Earned
<1>5. CASE WithdrawTraffic
  <2>1. Moves(o, {"post", "mark_done", "idle", "failing"}) /\ faults' \in Nat
    BY <1>5, DoneMoves DEF WithdrawTraffic, IInv, Labels, Moves
  <2>2. QED
    BY <1>4, <1>5, <2>1, QuietStep DEF WithdrawTraffic, ResetTraffic, IInv, TypeOK
<1>6. CASE WithdrawPost
  BY <1>3, <1>6, PostStep DEF WithdrawPost, Slots, Reloaders
<1>7. CASE WithdrawVerify
  BY <1>7, VerifyStep DEF WithdrawVerify, Slots
<1>8. CASE WithdrawRecordEvent
  <2>1. Moves(o, {"mark_done", "idle", "failing"}) /\ faults' \in Nat
    BY <1>8, DoneMoves DEF WithdrawRecordEvent, IInv, Labels
  <2>2. QED
    BY <1>2, <1>3, <1>4, <1>8, <2>1, RecordEventStep DEF WithdrawRecordEvent, Slots
<1>9. CASE WithdrawMark
  <2>1. Moves(o, {"idle", "failing"}) /\ faults' \in Nat
    BY <1>9, CompletedMoves DEF WithdrawMark, IInv
  <2>2. QED
    BY <1>2, <1>4, <1>9, <2>1, MarkStep DEF WithdrawMark, Statuses
<1>10. QED
  BY <1>5, <1>6, <1>7, <1>8, <1>9 DEF WithdrawStep
-----------------------------------------------------------------------------
(* The steps of the servers                                                *)

\* What a server may be asked to load.
Loadable(slot) == IF slot = "release" THEN SeenOn("canary") ELSE ApprovedVersions

LEMMA ReloadersDisjoint ==
    /\ \A s \in Slots : Reloaders(s) \subseteq Ops
    /\ \A s, t \in Slots : s # t => Reloaders(s) \cap Reloaders(t) = {}
BY DEF Slots, Reloaders, Ops

LEMMA HeadSound ==
    ASSUME IInv, NEW slot \in Slots, inbox[slot] # << >>
    PROVE  LET m == Head(inbox[slot])
           IN /\ m \in Message
              /\ m.op \in Reloaders(slot)
              /\ m.version \in Loadable(slot)
              /\ m.live => pc[m.op] = "await"
<1>1. inbox[slot] \in Seq(Message)
  BY DEF IInv, TypeOK
<1>2. 1 \in DOMAIN inbox[slot] /\ Head(inbox[slot]) = inbox[slot][1]
  BY <1>1
<1>3. inbox[slot][1] \in Message
  BY <1>1, <1>2
<1>4. QED
  BY <1>2, <1>3 DEF IInv, RolloutInv, InboxSound, Loadable

\* A handled request leaves the inboxes sound if only its sender stops waiting.
LEMMA ReceiveKept ==
    ASSUME IInv, Grows, NEW slot \in Slots, Receive(slot),
           \A p \in Ops : \/ pc'[p] = pc[p]
                          \/ Head(inbox[slot]).live /\ p = Head(inbox[slot]).op
    PROVE  InboxSound' /\ inbox' \in [Slots -> Seq(Message)]
<1> DEFINE m == Head(inbox[slot])
<1>1. /\ inbox[slot] \in Seq(Message) /\ inbox[slot] # << >>
      /\ inbox'[slot] = Tail(inbox[slot])
      /\ \A s \in Slots \ {slot} : inbox'[s] = inbox[s]
      /\ inbox' \in [Slots -> Seq(Message)]
  BY DEF Receive, IInv, TypeOK
<1>2. /\ DOMAIN inbox[slot] = 1 .. Len(inbox[slot]) /\ Len(inbox[slot]) \in Nat \ {0}
      /\ DOMAIN inbox'[slot] = 1 .. Len(inbox[slot]) - 1
      /\ \A i \in DOMAIN inbox'[slot] : inbox'[slot][i] = inbox[slot][i + 1]
      /\ m = inbox[slot][1]
  BY <1>1
<1>3. SeenOn("canary") \subseteq SeenOn("canary")' /\ ApprovedVersions \subseteq ApprovedVersions'
  BY SeenGrows, ApprovedGrows DEF Slots, IInv
<1>4. \A t \in Slots : \A k \in DOMAIN inbox[t] :
         /\ inbox[t][k].op \in Reloaders(t)
         /\ inbox[t][k].version \in IF t = "release" THEN SeenOn("canary") ELSE ApprovedVersions
         /\ inbox[t][k].live => pc[inbox[t][k].op] = "await"
         /\ inbox[t][k].live => \A j \in DOMAIN inbox[t] :
               inbox[t][j].op = inbox[t][k].op /\ inbox[t][j].live => k = j
  BY DEF IInv, RolloutInv, InboxSound
<1>5. m.op \in Reloaders(slot)
  BY HeadSound, <1>1
<1>6. InboxSound'
  <2> SUFFICES ASSUME NEW s \in Slots, NEW i \in DOMAIN inbox'[s]
               PROVE  LET x == inbox'[s][i]
                      IN /\ x.op \in Reloaders(s)
                         /\ x.version \in IF s = "release" THEN SeenOn("canary") ELSE ApprovedVersions
                         /\ x.live => pc'[x.op] = "await"
                         /\ x.live => \A j \in DOMAIN inbox'[s] :
                               inbox'[s][j].op = x.op /\ inbox'[s][j].live => i = j
    BY <1>3 DEF InboxSound, Reloaders
  <2>1. CASE s # slot
    <3>1. inbox'[s] = inbox[s] /\ i \in DOMAIN inbox[s]
      BY <1>1, <2>1
    <3>2. inbox[s][i].op # m.op /\ inbox[s][i].op \in Ops
      BY <1>4, <1>5, <2>1, <3>1, ReloadersDisjoint
    <3>3. pc'[inbox[s][i].op] = pc[inbox[s][i].op]
      BY <3>2
    <3>4. QED
      BY <1>4, <3>1, <3>3
  <2>2. CASE s = slot
    <3>1. /\ i + 1 \in DOMAIN inbox[s] /\ inbox'[s][i] = inbox[s][i + 1]
          /\ i + 1 # 1 /\ 1 \in DOMAIN inbox[s] /\ m = inbox[s][1]
      BY <1>2, <2>2
    <3>2. inbox[s][i + 1].op \in Ops
      BY <1>4, <3>1, ReloadersDisjoint
    <3>3. ~(inbox[s][i + 1].live /\ m.live /\ inbox[s][i + 1].op = m.op)
      BY <1>4, <3>1
    <3>4. inbox[s][i + 1].live => pc'[inbox[s][i + 1].op] = "await"
      BY <1>4, <3>1, <3>2, <3>3
    <3>5. ASSUME inbox[s][i + 1].live, NEW j \in DOMAIN inbox'[s],
                 inbox'[s][j].op = inbox[s][i + 1].op, inbox'[s][j].live
          PROVE  i = j
      <4>1. j + 1 \in DOMAIN inbox[s] /\ inbox'[s][j] = inbox[s][j + 1]
        BY <1>2, <2>2
      <4>2. i + 1 = j + 1
        BY <1>4, <3>1, <3>5, <4>1
      <4>3. i \in Nat /\ j \in Nat
        BY <1>2, <2>2
      <4>4. QED
        BY <4>2, <4>3
    <3>6. QED
      BY <1>4, <3>1, <3>4, <3>5
  <2>3. QED
    BY <2>1, <2>2
<1>7. QED
  BY <1>1, <1>6

\* The sender of a handled request goes on to verify it, or gives up.
Answered(o) ==
    /\ LocalsOK'
    /\ \A p \in Ops \ {o} : pc'[p] = pc[p]
    /\ pc'[o] \in {pc[o], "verify", "failing", "idle"}
    /\ \A p \in Ops : p # o \/ pc'[p] # "idle" => SameLocals(p)
    /\ \A p \in Ops \ {o} : prev'[p] = prev[p]

LEMMA RequestHandled ==
    ASSUME IInv, NEW slot \in Slots, Receive(slot), faults' \in Nat,
           Answered(Head(inbox[slot]).op),
           ~Head(inbox[slot]).live => pc' = pc,
           Head(inbox[slot]).op = "promote" /\ pc'["promote"] # "idle" =>
               prev'["promote"] \in {prev["promote"]} \cup SeenOn("canary"),
           UNCHANGED <<champion, candidate, percent, store>>,
           \/ UNCHANGED runtime
           \/ runtime' = [runtime EXCEPT ![slot] = Head(inbox[slot]).version]
    PROVE  IInv'
<1> DEFINE m == Head(inbox[slot])
<1>1. /\ m \in Message /\ m.op \in Reloaders(slot) /\ m.version \in Loadable(slot)
      /\ m.live => pc[m.op] = "await"
      /\ m.op \in Ops
  BY HeadSound, ReloadersDisjoint DEF Receive
<1>2. Grows
  BY DEF Grows, store
<1>3. InboxSound' /\ inbox' \in [Slots -> Seq(Message)]
  <2>1. \A p \in Ops : pc'[p] = pc[p] \/ (m.live /\ p = m.op)
    BY DEF Answered, IInv, TypeOK
  <2>2. QED
    BY <1>2, <2>1, ReceiveKept
<1>4. TypeOK'
  <2>1. runtime' \in [Slots -> Versions]
    BY <1>1 DEF IInv, TypeOK, Message
  <2>2. QED
    BY <1>3, <2>1 DEF IInv, TypeOK, Answered, LocalsOK, store
<1>5. /\ ApprovedVersions' = ApprovedVersions
      /\ \A s : SeenOn(s)' = SeenOn(s)
      /\ \A r : Known(r)' = Known(r)
  BY DEF ApprovedVersions, SeenOn, Known, store
<1>6. StagesNested'
  <2>1. runtime'["release"] \in SeenOn("canary") /\ runtime'["canary"] \in ApprovedVersions
    <3>1. CASE UNCHANGED runtime
      BY <3>1 DEF IInv, RolloutInv, StagesNested
    <3>2. CASE runtime' = [runtime EXCEPT ![slot] = m.version]
      BY <1>1, <3>2 DEF Loadable, Slots, IInv, TypeOK, RolloutInv, StagesNested
    <3>3. QED
      BY <3>1, <3>2
  <2>2. QED
    BY <1>5, <2>1 DEF IInv, RolloutInv, StagesNested
<1>7. RequestsSound' /\ RowSound(state["release"])'
  BY <1>5 DEF IInv, RolloutInv, RequestsSound, RowSound, Evidence, store
<1>8. \A p \in Ops : /\ pc'[p] # "idle" => SameLocals(p) /\ pc[p] # "idle"
                     /\ pc'[p] \in {pc[p], "verify", "failing", "idle"}
  <2> SUFFICES ASSUME NEW p \in Ops
               PROVE  /\ pc'[p] # "idle" => SameLocals(p) /\ pc[p] # "idle"
                      /\ pc'[p] \in {pc[p], "verify", "failing", "idle"}
    OBVIOUS
  <2>1. CASE p # m.op
    BY <2>1 DEF Answered
  <2>2. CASE p = m.op
    BY <1>1, <2>2 DEF Answered
  <2>3. QED
    BY <2>1, <2>2
<1>9. DeploySound'
  BY <1>2, <1>8, DeployKept DEF IInv, RolloutInv, DeployLate, Ops
<1>10. PromoteSound'
  <2>1. pc'["promote"] # "idle" => prev'["promote"] \in {prev["promote"]} \cup SeenOn("canary")
    BY DEF Answered, Ops
  <2>2. QED
    BY <1>2, <1>8, <2>1, PromoteKept DEF IInv, RolloutInv, PromoteLate, Ops
<1>11. RollbackSound'
  BY <1>2, <1>8, RollbackKept DEF IInv, RolloutInv, RollbackLate, Ops
<1>12. WithdrawSound'
  BY <1>2, <1>8, WithdrawKept DEF IInv, RolloutInv, Ops
<1>13. QED
  BY <1>3, <1>4, <1>6, <1>7, <1>9, <1>10, <1>11, <1>12 DEF IInv, RolloutInv

LEMMA ReplyErrorAnswers ==
    ASSUME IInv, NEW m \in Message, ReplyError(m)
    PROVE  /\ Answered(m.op)
           /\ ~m.live => pc' = pc
           /\ pc'[m.op] # "idle" => prev'[m.op] = prev[m.op]
<1>1. m.op \in Ops
  BY DEF Message
<1>2. CASE m.live
  <2>1. Moves(m.op, {"idle", "failing"})
    BY <1>1, <1>2, RaiseMoves DEF ReplyError, IInv
  <2>2. QED
    BY <1>1, <1>2, <2>1 DEF Moves, Answered
<1>3. CASE ~m.live
  BY <1>1, <1>3 DEF ReplyError, Answered, LocalsOK, SameLocals, locals, IInv, TypeOK
<1>4. QED
  BY <1>2, <1>3

LEMMA ServerSteps ==
    ASSUME IInv, Server
    PROVE  IInv'
<1>1. ASSUME NEW slot \in Slots, Reload(slot)
      PROVE  IInv'
  <2> DEFINE m == Head(inbox[slot])
  <2>1. /\ m \in Message /\ m.op \in Reloaders(slot) /\ m.op \in Ops
    BY <1>1, HeadSound, ReloadersDisjoint DEF Reload, Receive
  <2>2. runtime[slot] \in Versions /\ (m.op = "promote" => runtime[slot] \in SeenOn("canary"))
    BY <2>1 DEF Reloaders, Slots, IInv, TypeOK, RolloutInv, StagesNested
  <2>3. faults' \in Nat
    BY <1>1, SpendNat DEF Reload, IInv, TypeOK
  <2>4. /\ Answered(m.op)
        /\ ~m.live => pc' = pc
        /\ m.op = "promote" /\ pc'["promote"] # "idle" =>
               prev'["promote"] \in {prev["promote"]} \cup SeenOn("canary")
    <3>1. CASE m.live /\ Reply(slot, m)
      <4>1. /\ pc' = [pc EXCEPT ![m.op] = "verify"]
            /\ prev' = [prev EXCEPT ![m.op] = runtime[slot]]
            /\ arg' = arg /\ obs' = obs /\ row' = row
        BY <3>1 DEF Reply
      <4>2. "verify" \in Labels
        BY DEF Labels
      <4>3. LocalsOK'
        BY <2>1, <2>2, <4>1, <4>2 DEF LocalsOK, IInv, TypeOK
      <4>4. QED
        BY <2>1, <2>2, <3>1, <4>1, <4>3 DEF Answered, SameLocals, IInv, TypeOK
    <3>2. CASE ~m.live /\ Reply(slot, m)
      BY <2>1, <3>2 DEF Reply, locals, Answered, LocalsOK, SameLocals, IInv, TypeOK
    <3>3. CASE ReplyError(m)
      BY <2>1, <3>3, ReplyErrorAnswers
    <3>4. QED
      BY <1>1, <3>1, <3>2, <3>3 DEF Reload
  <2>5. QED
    BY <1>1, <2>3, <2>4, RequestHandled DEF Reload
<1>2. ASSUME NEW slot \in Slots, RefuseReload(slot) \/ ReloadFails(slot)
      PROVE  IInv'
  <2> DEFINE m == Head(inbox[slot])
  <2>1. m \in Message /\ m.op \in Ops
    BY <1>2, HeadSound, ReloadersDisjoint DEF RefuseReload, ReloadFails, Receive
  <2>2. faults' \in Nat
    BY <1>2, SpendNat DEF RefuseReload, ReloadFails, IInv, TypeOK
  <2>3. /\ Answered(m.op)
        /\ ~m.live => pc' = pc
        /\ pc'[m.op] # "idle" => prev'[m.op] = prev[m.op]
    BY <1>2, <2>1, ReplyErrorAnswers DEF RefuseReload, ReloadFails
  <2>4. QED
    BY <1>2, <2>2, <2>3, RequestHandled DEF RefuseReload, ReloadFails
<1>3. QED
  BY <1>1, <1>2 DEF Server
-----------------------------------------------------------------------------
(* Faults                                                                  *)

LEMMA AbandonKept ==
    ASSUME IInv, Grows, NEW o \in Ops, Abandon(o),
           \A p \in Ops \ {o} : pc'[p] = pc[p]
    PROVE  InboxSound' /\ inbox' \in [Slots -> Seq(Message)]
<1>1. \A s \in Slots : /\ inbox[s] \in Seq(Message)
                       /\ DOMAIN inbox[s] = 1 .. Len(inbox[s])
                       /\ Len(inbox[s]) \in Nat
                       /\ \A i \in DOMAIN inbox[s] : inbox[s][i] \in Message
  BY DEF IInv, TypeOK
<1>2. \A s \in Slots :
        inbox'[s] = [i \in DOMAIN inbox[s] |->
                       IF inbox[s][i].op = o THEN [inbox[s][i] EXCEPT !.live = FALSE]
                                             ELSE inbox[s][i]]
  BY DEF Abandon
<1>3. \A s \in Slots : \A i \in DOMAIN inbox[s] :
        /\ inbox'[s][i] \in Message
        /\ inbox'[s][i].op = inbox[s][i].op
        /\ inbox'[s][i].version = inbox[s][i].version
        /\ inbox'[s][i].live => inbox[s][i].live /\ inbox[s][i].op # o
  <2> SUFFICES ASSUME NEW s \in Slots, NEW i \in DOMAIN inbox[s]
               PROVE  /\ inbox'[s][i] \in Message
                      /\ inbox'[s][i].op = inbox[s][i].op
                      /\ inbox'[s][i].version = inbox[s][i].version
                      /\ inbox'[s][i].live => inbox[s][i].live /\ inbox[s][i].op # o
    OBVIOUS
  <2> DEFINE x == inbox[s][i]
  <2>1. x \in Message
    BY <1>1
  <2>2. inbox'[s][i] = IF x.op = o THEN [x EXCEPT !.live = FALSE] ELSE x
    BY <1>2
  <2>3. CASE x.op = o
    <3>1. inbox'[s][i] = [x EXCEPT !.live = FALSE]
      BY <2>2, <2>3
    <3>2. /\ [x EXCEPT !.live = FALSE].op = x.op
          /\ [x EXCEPT !.live = FALSE].version = x.version
          /\ [x EXCEPT !.live = FALSE].live = FALSE
          /\ [x EXCEPT !.live = FALSE] \in Message
      BY <2>1 DEF Message
    <3>3. QED
      BY <3>1, <3>2
  <2>4. CASE x.op # o
    BY <2>1, <2>2, <2>4
  <2>5. QED
    BY <2>3, <2>4
<1>4. inbox' \in [Slots -> Seq(Message)]
  <2>1. \A s \in Slots : inbox'[s] \in Seq(Message)
    <3> SUFFICES ASSUME NEW s \in Slots
                 PROVE  inbox'[s] \in Seq(Message)
      OBVIOUS
    <3>1. inbox'[s] \in [1 .. Len(inbox[s]) -> Message]
      BY <1>1, <1>2, <1>3
    <3>2. QED
      BY <1>1, <3>1
  <2>2. inbox' = [s \in Slots |-> inbox'[s]]
    BY DEF Abandon
  <2>3. QED
    BY <2>1, <2>2
<1>5. SeenOn("canary") \subseteq SeenOn("canary")' /\ ApprovedVersions \subseteq ApprovedVersions'
  BY SeenGrows, ApprovedGrows DEF Slots, IInv
<1>6. \A t \in Slots : \A k \in DOMAIN inbox[t] :
         /\ inbox[t][k].op \in Reloaders(t)
         /\ inbox[t][k].version \in IF t = "release" THEN SeenOn("canary") ELSE ApprovedVersions
         /\ inbox[t][k].live => pc[inbox[t][k].op] = "await"
         /\ inbox[t][k].live => \A j \in DOMAIN inbox[t] :
               inbox[t][j].op = inbox[t][k].op /\ inbox[t][j].live => k = j
  BY DEF IInv, RolloutInv, InboxSound
<1>7. InboxSound'
  <2> SUFFICES ASSUME NEW s \in Slots, NEW i \in DOMAIN inbox'[s]
               PROVE  LET x == inbox'[s][i]
                      IN /\ x.op \in Reloaders(s)
                         /\ x.version \in IF s = "release" THEN SeenOn("canary") ELSE ApprovedVersions
                         /\ x.live => pc'[x.op] = "await"
                         /\ x.live => \A j \in DOMAIN inbox'[s] :
                               inbox'[s][j].op = x.op /\ inbox'[s][j].live => i = j
    BY <1>5 DEF InboxSound, Reloaders
  <2>1. DOMAIN inbox'[s] = DOMAIN inbox[s] /\ i \in DOMAIN inbox[s]
    BY <1>2
  <2>2. inbox[s][i].op \in Ops
    BY <1>6, <2>1, ReloadersDisjoint
  <2>3. inbox'[s][i].live => pc'[inbox'[s][i].op] = "await"
    BY <1>3, <1>6, <2>1, <2>2
  <2>4. ASSUME inbox'[s][i].live, NEW j \in DOMAIN inbox'[s],
               inbox'[s][j].op = inbox'[s][i].op, inbox'[s][j].live
        PROVE  i = j
    BY <1>3, <1>6, <2>1, <2>4
  <2>5. QED
    BY <1>3, <1>6, <2>1, <2>3, <2>4
<1>8. QED
  BY <1>4, <1>7

\* A script that gives up on a server, or is killed.
LEMMA AbandonStep ==
    ASSUME IInv, NEW o \in Ops, Abandon(o), Moves(o, {"idle", "failing"}),
           pc[o] # "idle", faults' \in Nat,
           UNCHANGED <<runtime, champion, candidate, percent, store>>
    PROVE  IInv'
<1>1. Grows
  BY DEF Grows, store
<1>2. InboxSound' /\ inbox' \in [Slots -> Seq(Message)]
  BY <1>1, AbandonKept DEF Moves
<1>3. TypeOK'
  BY <1>2 DEF IInv, TypeOK, Moves, LocalsOK, store
<1>4. StagesNested' /\ RequestsSound' /\ RowSound(state["release"])'
  BY DEF IInv, RolloutInv, StagesNested, RequestsSound, RowSound, SeenOn,
         ApprovedVersions, Known, Evidence, store
<1>5. Earned(o)
  BY DEF Earned, Moves, DeployLate, PromoteLate, RollbackLate
<1>6. QED
  BY <1>1, <1>2, <1>3, <1>4, <1>5, ScriptsKept DEF IInv, RolloutInv

LEMMA RestartStep ==
    ASSUME IInv, NEW slot \in Slots, Restart(slot)
    PROVE  IInv'
<1>1. Waiting(slot) \subseteq Reloaders(slot)
  BY DEF Waiting, IInv, RolloutInv, InboxSound
<1>2. \A p \in Waiting(slot) : p \in Ops /\ pc[p] = "await"
  BY DEF Waiting, IInv, RolloutInv, InboxSound
<1>3. /\ inbox' = [inbox EXCEPT ![slot] = << >>]
      /\ \A p \in Ops : /\ p \notin Waiting(slot) => pc'[p] = pc[p] /\ SameLocals(p)
                        /\ pc'[p] # "idle" => SameLocals(p) /\ prev'[p] = prev[p]
                        /\ pc'[p] \in {pc[p], "idle", "failing"}
                        /\ pc'[p] # "idle" => pc[p] # "idle"
      /\ LocalsOK'
  <2>1. \A p \in Ops :
          /\ p \in Waiting(slot) \ Guarded =>
               pc'[p] = "idle" /\ arg'[p] = None /\ obs'[p] = None /\ row'[p] = None
               /\ prev'[p] = None
          /\ p \in Waiting(slot) \cap Guarded => pc'[p] = "failing"
          /\ p \notin Waiting(slot) => pc'[p] = pc[p]
          /\ p \notin Waiting(slot) \ Guarded =>
               /\ arg'[p] = arg[p] /\ obs'[p] = obs[p] /\ row'[p] = row[p]
               /\ prev'[p] = prev[p]
    BY DEF Restart, Disconnect
  <2>2. LocalsOK'
    <3>1. "idle" \in Labels /\ "failing" \in Labels
      BY DEF Labels
    <3>2. \A p \in Ops : /\ pc'[p] \in Labels
                         /\ arg'[p] \in Requests \cup {None}
                         /\ obs'[p] \in Versions \cup {None}
                         /\ row'[p] \in StateRow \cup {None}
                         /\ prev'[p] \in Versions \cup {None}
      BY <2>1, <3>1 DEF IInv, TypeOK
    <3>3. /\ pc' = [p \in Ops |-> pc'[p]] /\ arg' = [p \in Ops |-> arg'[p]]
          /\ obs' = [p \in Ops |-> obs'[p]] /\ row' = [p \in Ops |-> row'[p]]
          /\ prev' = [p \in Ops |-> prev'[p]]
      BY DEF Restart, Disconnect
    <3>4. QED
      BY <3>2, <3>3 DEF LocalsOK
  <2>3. QED
    BY <1>2, <2>1, <2>2 DEF SameLocals, Restart, Disconnect
<1>4. Grows
  BY DEF Grows, Restart
<1>5. /\ ApprovedVersions' = ApprovedVersions
      /\ \A s : SeenOn(s)' = SeenOn(s)
      /\ \A r : Known(r)' = Known(r)
  BY DEF ApprovedVersions, SeenOn, Known, Restart
<1>6. champion \in SeenOn("release") /\ champion \in SeenOn("canary")
      /\ champion \in ApprovedVersions /\ champion \in Versions
  BY DEF IInv, TypeOK, RolloutInv, StagesNested
<1>7. /\ state' \in [Slots -> StateRow \cup {None}]
      /\ RowSound(state["release"])'
  <2>1. CASE state[slot] = None
    <3>1. PICK seed \in Seeded(champion) : state' = [state EXCEPT ![slot] = seed]
      BY <2>1 DEF Restart
    <3>2. seed \in {Bootstrap(champion), None}
      BY <3>1 DEF Seeded
    <3>3. Bootstrap(champion) \in StateRow
      BY <1>6 DEF Bootstrap, StateRow, Operations
    <3>4. state'["release"] \in {Bootstrap(champion), None, state["release"]}
      BY <3>1, <3>2 DEF IInv, TypeOK, Slots
    <3>5. QED
      BY <1>5, <1>6, <3>1, <3>2, <3>3, <3>4 DEF RowSound, Bootstrap, IInv, TypeOK, RolloutInv
  <2>2. CASE state[slot] # None
    BY <1>5, <2>2 DEF Restart, RowSound, IInv, TypeOK, RolloutInv
  <2>3. QED
    BY <2>1, <2>2
<1>8. TypeOK'
  <2>1. << >> \in Seq(Message)
    OBVIOUS
  <2>2. inbox' \in [Slots -> Seq(Message)]
    BY <1>3, <2>1 DEF IInv, TypeOK
  <2>3. runtime' \in [Slots -> Versions] /\ faults' \in Nat
    BY <1>6, SpendNat DEF IInv, TypeOK, Restart
  <2>4. QED
    BY <1>3, <1>7, <2>2, <2>3 DEF IInv, TypeOK, LocalsOK, Restart
<1>9. StagesNested' /\ RequestsSound'
  <2>1. runtime'["release"] \in SeenOn("canary") /\ runtime'["canary"] \in ApprovedVersions
    BY <1>6 DEF Restart, IInv, TypeOK, RolloutInv, StagesNested, Slots
  <2>2. QED
    BY <1>5, <2>1 DEF IInv, RolloutInv, StagesNested, RequestsSound, Evidence, Restart
<1>10. InboxSound'
  <2> SUFFICES ASSUME NEW s \in Slots, NEW i \in DOMAIN inbox'[s]
               PROVE  LET x == inbox'[s][i]
                      IN /\ x.op \in Reloaders(s)
                         /\ x.version \in IF s = "release" THEN SeenOn("canary") ELSE ApprovedVersions
                         /\ x.live => pc'[x.op] = "await"
                         /\ x.live => \A j \in DOMAIN inbox'[s] :
                               inbox'[s][j].op = x.op /\ inbox'[s][j].live => i = j
    BY <1>5 DEF InboxSound, Reloaders
  <2>1. s # slot
    BY <1>3 DEF IInv, TypeOK
  <2>2. inbox'[s] = inbox[s]
    BY <1>3, <2>1
  <2>3. /\ inbox[s][i].op \in Reloaders(s)
        /\ inbox[s][i].live => pc[inbox[s][i].op] = "await"
        /\ inbox[s][i].version \in IF s = "release" THEN SeenOn("canary") ELSE ApprovedVersions
        /\ inbox[s][i].live => \A j \in DOMAIN inbox[s] :
               inbox[s][j].op = inbox[s][i].op /\ inbox[s][j].live => i = j
    BY <2>2 DEF IInv, RolloutInv, InboxSound
  <2>4. pc'[inbox[s][i].op] = pc[inbox[s][i].op]
    BY <1>1, <1>3, <2>1, <2>3, ReloadersDisjoint
  <2>5. QED
    BY <2>2, <2>3, <2>4
<1>11. DeploySound'
  BY <1>3, <1>4, DeployKept DEF IInv, RolloutInv, DeployLate, Ops
<1>12. PromoteSound'
  BY <1>3, <1>4, PromoteKept DEF IInv, RolloutInv, PromoteLate, Ops
<1>13. RollbackSound'
  BY <1>3, <1>4, RollbackKept DEF IInv, RolloutInv, RollbackLate, Ops
<1>14. WithdrawSound'
  BY <1>3, <1>4, WithdrawKept DEF IInv, RolloutInv, Ops
<1>15. QED
  BY <1>7, <1>8, <1>9, <1>10, <1>11, <1>12, <1>13, <1>14 DEF IInv, RolloutInv

LEMMA FaultSteps ==
    ASSUME IInv, Fault
    PROVE  IInv'
<1>1. ASSUME NEW o \in Ops, CallFails(o)
      PROVE  IInv'
  <2>1. Moves(o, {"idle", "failing"}) /\ faults' \in Nat
    BY <1>1, RaiseMoves, SpendNat DEF CallFails, IInv
  <2>2. Earned(o)
    BY <2>1 DEF Earned, Moves, DeployLate, PromoteLate, RollbackLate
  <2>3. QED
    BY <1>1, <2>1, <2>2, QuietStep DEF CallFails, IInv, TypeOK
<1>2. ASSUME NEW o \in Ops, Crash(o)
      PROVE  IInv'
  <2>1. Moves(o, {"idle", "failing"}) /\ faults' \in Nat
    BY <1>2, ExitMoves, SpendNat DEF Crash, IInv, Moves
  <2>2. QED
    BY <1>2, <2>1, AbandonStep DEF Crash
<1>3. ASSUME NEW o \in Ops, Timeout(o)
      PROVE  IInv'
  <2>1. Moves(o, {"idle", "failing"}) /\ faults' \in Nat
    BY <1>3, RaiseMoves, SpendNat DEF Timeout, IInv
  <2>2. QED
    BY <1>3, <2>1, AbandonStep DEF Timeout
<1>4. QED
  BY <1>1, <1>2, <1>3, RestartStep DEF Fault
-----------------------------------------------------------------------------
(* The steps of the operator, and the inductive invariant                  *)

LEMMA TrafficOrAliasStep ==
    ASSUME IInv, candidate' \in Versions \cup {None}, percent' \in Nat,
           UNCHANGED <<runtime, inbox, champion, store, pc, locals, faults>>
    PROVE  IInv'
<1>1. TypeOK'
  BY DEF IInv, TypeOK, store, locals
<1>2. StagesNested' /\ RequestsSound' /\ RowSound(state["release"])'
  BY DEF IInv, RolloutInv, StagesNested, RequestsSound, RowSound, SeenOn,
         ApprovedVersions, Known, Evidence, store
<1>3. Grows
  BY DEF Grows, store
<1>4. InboxSound'
  BY <1>3, InboxKept DEF IInv, RolloutInv
<1>5. \A p \in Ops : SameLocals(p) /\ prev'[p] = prev[p]
  BY DEF SameLocals, locals
<1>6. DeploySound' /\ PromoteSound' /\ RollbackSound' /\ WithdrawSound'
  BY <1>3, <1>5, DeployKept, PromoteKept, RollbackKept, WithdrawKept
     DEF IInv, RolloutInv, DeploySound, PromoteSound, RollbackSound, WithdrawSound, Ops
<1>7. QED
  BY <1>1, <1>2, <1>4, <1>6 DEF IInv, RolloutInv

LEMMA RecordRequestStep ==
    ASSUME IInv, NEW r \in Requests, NEW v \in Versions, NEW a \in BOOLEAN,
           RecordRequest(r, v, a)
    PROVE  IInv'
<1> DEFINE new == [source |-> v, previous |-> champion, alias |-> (candidate = v),
                   approved |-> a]
<1>1. /\ request[r] = None
      /\ request' = [request EXCEPT ![r] = new]
      /\ new \in RequestRow
      /\ UNCHANGED <<runtime, inbox, champion, candidate, percent, status, state, events,
                     pc, arg, obs, row, prev, faults>>
  BY DEF RecordRequest, RequestRow, IInv, TypeOK, locals
<1>2. TypeOK'
  BY <1>1 DEF IInv, TypeOK
<1>3. Grows
  BY <1>1 DEF Grows, IInv, TypeOK
<1>4. \A s : SeenOn(s)' = SeenOn(s)
  BY <1>1 DEF SeenOn
<1>5. StagesNested'
  <2>1. ApprovedVersions \subseteq ApprovedVersions'
    BY <1>3, ApprovedGrows DEF IInv
  <2>2. QED
    BY <1>1, <1>4, <2>1 DEF IInv, RolloutInv, StagesNested
<1>6. RequestsSound'
  <2> SUFFICES ASSUME NEW q \in Requests
               PROVE  /\ request'[q] = None => status'[q] = "not_started"
                      /\ request'[q] # None => request'[q].previous \in SeenOn("release")'
                      /\ status'[q] \in {"canary_ready", "release_reloading", "deployed"} =>
                            Evidence(q, "canary")'
                      /\ status'[q] = "deployed" => Evidence(q, "release")'
    BY DEF RequestsSound
  <2>1. CASE q = r
    <3>1. request'[q] = new /\ status'[q] = "not_started"
      BY <1>1, <2>1 DEF IInv, TypeOK, RolloutInv, RequestsSound
    <3>2. new.previous \in SeenOn("release")'
      BY <1>4 DEF IInv, RolloutInv, StagesNested
    <3>3. QED
      BY <3>1, <3>2
  <2>2. CASE q # r
    <3>1. request'[q] = request[q] /\ status'[q] = status[q]
      BY <1>1, <2>2 DEF IInv, TypeOK
    <3>2. \A s : Evidence(q, s)' <=> Evidence(q, s)
      BY <1>1, <3>1 DEF Evidence
    <3>3. QED
      BY <1>4, <3>1, <3>2 DEF IInv, RolloutInv, RequestsSound
  <2>3. QED
    BY <2>1, <2>2
<1>7. RowSound(state["release"])'
  <2>1. \A q : Known(q) => Known(q)'
    BY <1>3, KnownGrows DEF IInv
  <2>2. QED
    BY <1>1, <1>4, <2>1 DEF IInv, RolloutInv, RowSound
<1>8. InboxSound'
  BY <1>1, <1>3, InboxKept DEF IInv, RolloutInv
<1>9. \A p \in Ops : SameLocals(p) /\ prev'[p] = prev[p]
  BY <1>1 DEF SameLocals
<1>10. DeploySound' /\ PromoteSound' /\ RollbackSound' /\ WithdrawSound'
  BY <1>1, <1>3, <1>9, DeployKept, PromoteKept, RollbackKept, WithdrawKept
     DEF IInv, RolloutInv, DeploySound, PromoteSound, RollbackSound, WithdrawSound, Ops
<1>11. QED
  BY <1>2, <1>5, <1>6, <1>7, <1>8, <1>10 DEF IInv, RolloutInv

LEMMA OperatorSteps ==
    ASSUME IInv, Operator
    PROVE  IInv'
<1>1. ASSUME NEW v \in Versions, RegisterCandidate(v)
      PROVE  IInv'
  BY <1>1, TrafficOrAliasStep DEF RegisterCandidate, IInv, TypeOK
<1>2. ASSUME NEW p \in Percents, SetTraffic(p)
      PROVE  IInv'
  BY <1>2, TrafficOrAliasStep, PercentsAssumption DEF SetTraffic, IInv, TypeOK
<1>3. QED
  BY <1>1, <1>2, RecordRequestStep, DeployStarts, PromoteStarts, RollbackStarts,
     WithdrawStarts DEF Operator

LEMMA InitInv == Init => IInv
<1> SUFFICES ASSUME Init
             PROVE  IInv
  OBVIOUS
<1>1. \A s \in Slots : state[s] \in {Bootstrap(InitialVersion), None}
  BY DEF Init, Seeded
<1>2. Bootstrap(InitialVersion) \in StateRow
  BY VersionsAssumption DEF Bootstrap, StateRow, Operations
<1>3. state \in [Slots -> StateRow \cup {None}]
  <2>1. state = [s \in Slots |-> state[s]]
    BY DEF Init
  <2>2. QED
    BY <1>1, <1>2, <2>1
<1>4. << >> \in Seq(Message)
  OBVIOUS
<1>5. TypeOK
  BY <1>3, <1>4, VersionsAssumption DEF Init, TypeOK, Statuses, Labels
<1>6. InitialVersion \in ApprovedVersions /\ \A s : InitialVersion \in SeenOn(s)
  BY DEF ApprovedVersions, SeenOn
<1>7. StagesNested
  BY <1>6 DEF StagesNested, Init, Slots, SeenOn, ApprovedVersions
<1>8. RequestsSound
  BY DEF RequestsSound, Init
<1>9. InboxSound
  BY DEF InboxSound, Init
<1>10. RowSound(state["release"])
  BY <1>1, <1>6 DEF RowSound, Bootstrap, Slots
<1>11. DeploySound /\ PromoteSound /\ RollbackSound /\ WithdrawSound
  BY DEF DeploySound, PromoteSound, RollbackSound, WithdrawSound, Init, Ops
<1>12. QED
  BY <1>5, <1>7, <1>8, <1>9, <1>10, <1>11 DEF IInv, RolloutInv

LEMMA StutterStep ==
    ASSUME IInv, UNCHANGED vars
    PROVE  IInv'
BY TrafficOrAliasStep DEF vars, store, locals, IInv, TypeOK

LEMMA Inductive == IInv /\ [Next]_vars => IInv'
BY OperatorSteps, DeploySteps, PromoteSteps, RollbackSteps, WithdrawSteps, ServerSteps,
   FaultSteps, StutterStep DEF Next, Script

\* IInv holds in every reachable state: what each script knows between two of its
\* calls stays true whatever the other scripts, the servers and the faults do.
THEOREM InvariantHolds == Spec => []IInv
<1>1. Init => IInv
  BY InitInv
<1>2. IInv /\ [Next]_vars => IInv'
  BY Inductive
<1>3. QED
  BY <1>1, <1>2, PTL DEF Spec
-----------------------------------------------------------------------------
(* What follows                                                            *)

\* Every variable keeps its type.
THEOREM TypeCorrect == Spec => []TypeOK
<1>1. IInv => TypeOK
  BY DEF IInv
<1>2. QED
  BY <1>1, InvariantHolds, PTL

\* The evidence behind the stages (RolloutInv) is never lost.
THEOREM RolloutInvHolds == Spec => []RolloutInv
<1>1. IInv => RolloutInv
  BY DEF IInv
<1>2. QED
  BY <1>1, InvariantHolds, PTL

\* The servers load, and champion names, only versions that an approved request
\* asked for (scripts/deployment, runtime/app.py).
THEOREM ApprovedServed == Spec => []OnlyApprovedServed
<1>1. IInv => OnlyApprovedServed
  BY DEF IInv, RolloutInv, StagesNested, OnlyApprovedServed, Slots
<1>2. QED
  BY <1>1, InvariantHolds, PTL

\* mark_deployment_request_rollout_status sets "deployed" only after both reload
\* events are recorded (promote_candidate_to_release.py).
THEOREM DeployedEvidence == Spec => []DeployedHasEvidence
<1>1. IInv => DeployedHasEvidence
  BY DEF IInv, RolloutInv, RequestsSound, Evidence, DeployedHasEvidence, Slots
<1>2. QED
  BY <1>1, InvariantHolds, PTL
-----------------------------------------------------------------------------
(* DeploymentControl implements StagedRollout                              *)

LEMMA RolloutInit == Init => Rollout!Init
BY VersionsAssumption
   DEF Init, Rollout!Init, Slots, ApprovedVersions, SeenOn

\* A step that the staged rollout does not see.
LEMMA UnseenStep ==
    ASSUME UNCHANGED <<runtime, champion, request, events>>
    PROVE  UNCHANGED Rollout!stages
BY DEF Rollout!stages, ApprovedVersions, SeenOn

LEMMA ApproveStep ==
    ASSUME IInv, NEW r \in Requests, NEW v \in Versions, NEW a \in BOOLEAN,
           RecordRequest(r, v, a)
    PROVE  Rollout!Next \/ UNCHANGED Rollout!stages
<1>1. /\ request[r] = None
      /\ request' = [request EXCEPT ![r] =
                       [source |-> v, previous |-> champion, alias |-> (candidate = v),
                        approved |-> a]]
      /\ UNCHANGED <<runtime, champion, events>>
  BY DEF RecordRequest
<1>2. \A s : SeenOn(s)' = SeenOn(s)
  BY <1>1 DEF SeenOn
<1>3. \/ ApprovedVersions' = ApprovedVersions \cup {v}
      \/ ApprovedVersions' = ApprovedVersions
  <2> DEFINE new == [source |-> v, previous |-> champion, alias |-> (candidate = v),
                     approved |-> a]
  <2>1. \A q \in Requests \ {r} : request'[q] = request[q]
    BY <1>1 DEF IInv, TypeOK
  <2>2. request'[r] = new
    BY <1>1 DEF IInv, TypeOK
  <2>3. CASE new = None \/ ~a
    BY <1>1, <2>1, <2>2, <2>3 DEF ApprovedVersions
  <2>4. CASE new # None /\ a
    BY <1>1, <2>1, <2>2, <2>4 DEF ApprovedVersions
  <2>5. QED
    BY <2>3, <2>4
<1>4. QED
  BY <1>1, <1>2, <1>3 DEF Rollout!Next, Rollout!Approve, Rollout!stages

\* A server loads a version that has reached the stage before the slot's.
LEMMA ServeStep ==
    ASSUME IInv, NEW slot \in Slots, NEW v \in Loadable(slot),
           runtime' = [runtime EXCEPT ![slot] = v],
           UNCHANGED <<champion, request, events>>
    PROVE  Rollout!Next
<1>1. v \in Versions
  BY StagesInVersions DEF IInv, Loadable
<1>2. ApprovedVersions' = ApprovedVersions /\ \A s : SeenOn(s)' = SeenOn(s)
  BY DEF ApprovedVersions, SeenOn
<1>3. CASE slot = "release"
  BY <1>1, <1>2, <1>3 DEF Loadable, Rollout!Next, Rollout!ServeRelease
<1>4. CASE slot = "canary"
  BY <1>1, <1>2, <1>4 DEF Loadable, Rollout!Next, Rollout!ServeCanary
<1>5. QED
  BY <1>3, <1>4 DEF Slots

\* A verified reload is recorded.
LEMMA SeenStep ==
    ASSUME IInv, NEW o \in Ops, NEW slot \in Slots, NEW v \in Versions,
           arg[o] \in Requests, v \in Loadable(slot), RecordEvent(o, slot, v)
    PROVE  Rollout!Next
<1>1. /\ ApprovedVersions' = ApprovedVersions
      /\ SeenOn(slot)' = SeenOn(slot) \cup {v}
      /\ \A s \in Slots \ {slot} : SeenOn(s)' = SeenOn(s)
  BY DEF ApprovedVersions, SeenOn, RecordEvent
<1>2. runtime' = runtime /\ champion' = champion
  BY DEF RecordEvent
<1>3. CASE slot = "release"
  BY <1>1, <1>2, <1>3 DEF Slots, Loadable, Rollout!Next, Rollout!Prove
<1>4. CASE slot = "canary"
  BY <1>1, <1>2, <1>4 DEF Slots, Loadable, Rollout!Next, Rollout!Vet
<1>5. QED
  BY <1>3, <1>4 DEF Slots

LEMMA MoveStep ==
    ASSUME IInv, NEW o \in Ops, NEW v \in SeenOn("release"), SetChampion(o, v)
    PROVE  Rollout!Next
<1>1. v \in Versions
  BY StagesInVersions DEF IInv
<1>2. ApprovedVersions' = ApprovedVersions /\ \A s : SeenOn(s)' = SeenOn(s)
  BY DEF ApprovedVersions, SeenOn, SetChampion, store
<1>3. QED
  BY <1>1, <1>2 DEF SetChampion, Rollout!Next, Rollout!MoveChampion

LEMMA DeployImplements ==
    ASSUME IInv, DeployStep
    PROVE  Rollout!Next \/ UNCHANGED Rollout!stages
<1>1. CASE DeployRecordEvent
  <2>1. Known(arg["deploy"])
    BY <1>1 DEF DeployRecordEvent, RecordEvent, IInv, RolloutInv, DeploySound
  <2>2. /\ DeploySource \in Versions /\ DeploySource \in Loadable("canary")
        /\ arg["deploy"] \in Requests
    BY <2>1, SourceApproved DEF DeploySource, Loadable, IInv
  <2>3. QED
    BY <1>1, <2>2, SeenStep DEF DeployRecordEvent, Ops, Slots
<1>2. CASE ~DeployRecordEvent
  BY <1>2, UnseenStep DEF DeployStep, DeployReadRow, DeployMarkReloading, DeployPost,
     PostReload, DeployVerify, Verify, DeployMarkReady, DeployUpsert, Upsert, DeployFailed,
     Mark, store
<1>3. QED
  BY <1>1, <1>2

LEMMA PromoteImplements ==
    ASSUME IInv, PromoteStep
    PROVE  Rollout!Next \/ UNCHANGED Rollout!stages
<1> DEFINE source == PromoteRequest.source
<1>1. pc["promote"] # "idle" =>
        /\ arg["promote"] \in Requests /\ source \in Versions
        /\ source \in Loadable("release")
        /\ pc["promote"] = "set_alias" => source \in SeenOn("release")
  <2> SUFFICES ASSUME pc["promote"] # "idle"
               PROVE  /\ arg["promote"] \in Requests /\ source \in Versions
                      /\ source \in Loadable("release")
                      /\ pc["promote"] = "set_alias" => source \in SeenOn("release")
    OBVIOUS
  <2>1. /\ Known(arg["promote"]) /\ Evidence(arg["promote"], "canary")
        /\ pc["promote"] = "set_alias" => Evidence(arg["promote"], "release")
    BY DEF IInv, RolloutInv, PromoteSound
  <2>2. QED
    BY <2>1, SourceApproved, EvidenceSeen DEF IInv, PromoteRequest, Loadable, Slots
<1>2. CASE PromoteRecordEvent
  BY <1>1, <1>2, SeenStep DEF PromoteRecordEvent, RecordEvent, Ops, Slots
<1>3. CASE PromoteSetChampion
  BY <1>1, <1>3, MoveStep DEF PromoteSetChampion, SetChampion, Ops
<1>4. CASE ~PromoteRecordEvent /\ ~PromoteSetChampion
  BY <1>4, UnseenStep DEF PromoteStep, PromoteObserve, PromoteReadRow,
     PromoteMarkReloading, PromoteRefused, PromotePost, PostReload, PromoteVerify, Verify,
     PromoteGetCandidate, PromoteDeleteCandidate, PromoteResetTraffic, ResetTraffic,
     PromoteSkipTraffic, PromoteMarkDeployed, PromoteUpsert, Upsert, PromoteFailed, Mark,
     store
<1>5. QED
  BY <1>2, <1>3, <1>4

LEMMA RollbackImplements ==
    ASSUME IInv, RollbackStep
    PROVE  Rollout!Next \/ UNCHANGED Rollout!stages
<1>1. pc["rollback_release"] # "idle" =>
        /\ arg["rollback_release"] \in Requests
        /\ RollbackRow.prev \in Versions /\ RollbackRow.prev \in Loadable("release")
        /\ pc["rollback_release"] = "set_alias" => RollbackRow.prev \in SeenOn("release")
  BY StagesInVersions DEF IInv, RolloutInv, RollbackSound, RowSound, Known, Loadable
<1>2. CASE RollbackRecordEvent
  BY <1>1, <1>2, SeenStep DEF RollbackRecordEvent, RecordEvent, Ops, Slots
<1>3. CASE RollbackSetChampion
  BY <1>1, <1>3, MoveStep DEF RollbackSetChampion, SetChampion, Ops
<1>4. CASE ~RollbackRecordEvent /\ ~RollbackSetChampion
  BY <1>4, UnseenStep DEF RollbackStep, RollbackCheckRequest, RollbackCheckAlias,
     RollbackResetTraffic, ResetTraffic, RollbackSkipTraffic, RollbackObserve, RollbackPost,
     PostReload, RollbackVerify, Verify, RollbackMark, Mark, RollbackUpsert, Upsert, store
<1>5. QED
  BY <1>2, <1>3, <1>4

LEMMA WithdrawImplements ==
    ASSUME IInv, WithdrawStep
    PROVE  Rollout!Next \/ UNCHANGED Rollout!stages
<1>1. CASE WithdrawRecordEvent
  <2>1. arg["rollback_canary"] \in Requests /\ request[arg["rollback_canary"]] # None
    BY <1>1 DEF WithdrawRecordEvent, RecordEvent, IInv, RolloutInv, WithdrawSound, Known
  <2>2. CanaryPrevious \in SeenOn("release")
    BY <2>1 DEF CanaryPrevious, IInv, RolloutInv, RequestsSound
  <2>3. CanaryPrevious \in Versions /\ CanaryPrevious \in Loadable("canary")
    BY <2>2, StagesInVersions DEF IInv, RolloutInv, StagesNested, Loadable
  <2>4. QED
    BY <1>1, <2>1, <2>3, SeenStep DEF WithdrawRecordEvent, Ops, Slots
<1>2. CASE ~WithdrawRecordEvent
  BY <1>2, UnseenStep DEF WithdrawStep, WithdrawTraffic, ResetTraffic, WithdrawPost,
     PostReload, WithdrawVerify, Verify, WithdrawMark, Mark, store
<1>3. QED
  BY <1>1, <1>2

LEMMA ServerImplements ==
    ASSUME IInv, Server
    PROVE  Rollout!Next \/ UNCHANGED Rollout!stages
<1>1. ASSUME NEW slot \in Slots, Reload(slot)
      PROVE  Rollout!Next
  BY <1>1, HeadSound, ServeStep DEF Reload, Receive, store
<1>2. ASSUME NEW slot \in Slots, RefuseReload(slot) \/ ReloadFails(slot)
      PROVE  UNCHANGED Rollout!stages
  BY <1>2, UnseenStep DEF RefuseReload, ReloadFails, store
<1>3. QED
  BY <1>1, <1>2 DEF Server

LEMMA FaultImplements ==
    ASSUME IInv, Fault
    PROVE  Rollout!Next \/ UNCHANGED Rollout!stages
<1>1. ASSUME NEW o \in Ops, CallFails(o) \/ Crash(o) \/ Timeout(o)
      PROVE  UNCHANGED Rollout!stages
  BY <1>1, UnseenStep DEF CallFails, Crash, Timeout, store
<1>2. ASSUME NEW slot \in Slots, Restart(slot)
      PROVE  Rollout!Next
  <2>1. champion \in Loadable(slot)
    BY DEF IInv, RolloutInv, StagesNested, Loadable
  <2>2. QED
    BY <1>2, <2>1, ServeStep DEF Restart
<1>3. QED
  BY <1>1, <1>2 DEF Fault

LEMMA OperatorImplements ==
    ASSUME IInv, Operator
    PROVE  Rollout!Next \/ UNCHANGED Rollout!stages
<1>1. CASE \E r \in Requests, v \in Versions, a \in BOOLEAN : RecordRequest(r, v, a)
  BY <1>1, ApproveStep
<1>2. CASE ~ \E r \in Requests, v \in Versions, a \in BOOLEAN : RecordRequest(r, v, a)
  BY <1>2, UnseenStep DEF Operator, RegisterCandidate, SetTraffic, DeployStart,
     PromoteStart, RollbackStart, WithdrawStart, store
<1>3. QED
  BY <1>1, <1>2

LEMMA RolloutStep == IInv /\ [Next]_vars => [Rollout!Next]_Rollout!stages
<1>1. UNCHANGED vars => UNCHANGED Rollout!stages
  BY UnseenStep DEF vars
<1>2. QED
  BY <1>1, DeployImplements, PromoteImplements, RollbackImplements, WithdrawImplements,
     ServerImplements, FaultImplements, OperatorImplements DEF Next, Script

\* The control plane implements the staged rollout: approval before the canary, a
\* verified canary reload before the release, a verified release reload before
\* champion, for every number of scripts, faults, requests and versions.
THEOREM Refinement == Spec => StagedRolloutSpec
<1>1. Init => Rollout!Init
  BY RolloutInit
<1>2. IInv /\ [Next]_vars => [Rollout!Next]_Rollout!stages
  BY RolloutStep
<1>3. QED
  BY <1>1, <1>2, InvariantHolds, PTL DEF Spec, StagedRolloutSpec, Rollout!Spec
=============================================================================
