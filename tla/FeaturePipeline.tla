---------------------------- MODULE FeaturePipeline ---------------------------
(***************************************************************************)
(* Feature patches, snapshots and the evidence of predictions: the         *)
(* assembler, the materializer, and the predictor that reads a snapshot    *)
(* from Valkey and records which one it has used.                          *)
(***************************************************************************)
EXTENDS FeatureMaterializer

VARIABLE evidence   \* the snapshots that predictions were made from

vars == <<assemblerVars, materializerVars, evidence>>

Init ==
    /\ AssemblerInit
    /\ MaterializerInit
    /\ evidence = {}

\* /predict-by-id: a snapshot that is not complete is refused.  The event of the
\* prediction has the id, the version and the hash of the snapshot.
Predict(s) ==
    /\ online[s] # Null
    /\ online[s].complete
    /\ evidence' = evidence \cup {online[s]}
    /\ UNCHANGED <<assemblerVars, materializerVars>>

Assembler == AssemblerStep /\ UNCHANGED <<materializerVars, evidence>>
Materializer == MaterializerStep /\ UNCHANGED evidence
Restart ==
    \/ RestartAssembler /\ UNCHANGED <<materializerVars, evidence>>
    \/ RestartMaterializer /\ UNCHANGED evidence

Next ==
    \/ Assembler
    \/ Materializer
    \/ Restart
    \/ \E s \in Samples : Predict(s)

Spec == Init /\ [][Next]_vars

\* Both processes are always started again and their loops go on.  The producer sends
\* what it has buffered, and the task commits every second, unless it is about to throw
\* on a patch: then it may be closed before it does either.
Goes(action) == ~Rejects /\ action /\ UNCHANGED <<materializerVars, evidence>>

Fairness ==
    /\ WF_vars(Goes(Process))
    /\ WF_vars(Goes(SendChange))
    /\ WF_vars(Goes(SendUpdate))
    /\ WF_vars(Goes(CommitInput))
    /\ WF_vars(Materializer)

FairSpec == Spec /\ Fairness
-----------------------------------------------------------------------------
(* Reference definitions                                                   *)

PatchesOf(s) == {n \in DOMAIN patches : patches[n].sample = s}

\* The value of a key after some patches: the one in the last of them that has it.
Latest(k, numbers) ==
    LET having == {n \in numbers : k \in DOMAIN patches[n].features}
    IN IF having = {} THEN Null
       ELSE patches[CHOOSE n \in having : \A m \in having : m <= n].features[k]

Vector(s, numbers) == [k \in Keys |-> Latest(k, numbers)]

\* The materializer cannot pass the record at its position: it is refused by the parser,
\* or by the second unique key of the table.
Stopped ==
    /\ handled < Len(updates)
    /\ \/ ~Parses(Record)
       \/ /\ ~\E r \in rows : SameId(r)
          /\ \E r \in rows : SameVersion(r)

\* The identity was given to two snapshots with different features, which happens only
\* when a restarted task consumes patches again.
Reissued(id) ==
    /\ assemblerRestarts > 0
    /\ \E m, n \in DOMAIN updates :
          updates[m].id = id /\ updates[n].id = id /\ updates[m].hash # updates[n].hash
-----------------------------------------------------------------------------
StateType == [features : PatchFeatures, count : Nat, start : Int, end : Int]
SnapshotType == [id : Samples \X Int \X Nat, sample : Samples, version : Nat,
                 start : Int, end : Int, feature_count : Nat, missing_count : Nat,
                 complete : BOOLEAN, hash : [Keys -> Values]]

TypeOK ==
    /\ patches \in Inputs
    /\ state \in [Samples -> StateType]
    /\ consumed \in 0 .. Len(patches)
    /\ offset \in (0 .. Len(patches)) \cup {NoOffset}
    /\ changelog \in [Samples -> StateType]
    /\ changes \in Seq([sample : Samples, state : StateType])
    /\ emitted \in Seq(SnapshotType)
    /\ updates \in Seq(SnapshotType)
    /\ online \in [Samples -> SnapshotType \cup {Null}]
    /\ rows \subseteq SnapshotType
    /\ handled \in 0 .. Len(updates)
    /\ committed \in (0 .. Len(updates)) \cup {NoOffset}
    /\ step \in {"set", "persist", "commit"}
    /\ step # "set" => handled < Len(updates)
    /\ evidence \subseteq SnapshotType
    /\ assemblerRestarts \in 0 .. MaxAssemblerRestarts
    /\ materializerRestarts \in 0 .. MaxMaterializerRestarts

\* "Downstream consumers use it to verify that prediction evidence and durable snapshot
\* history refer to the same Feature vector": there is a row with the id, the version and
\* the hash of the evidence, or the record that will bring it is not committed yet.  Of
\* an identity that was given twice the table keeps the first row, and evidence of the
\* other snapshot finds that one.
EvidenceJoinable ==
    \A e \in evidence :
        \/ \E r \in rows : r.id = e.id /\ r.version = e.version /\ r.hash = e.hash
        \/ \E n \in DOMAIN updates :
              n > CommittedCount /\ updates[n].id = e.id /\ updates[n].hash = e.hash
        \/ Reissued(e.id) /\ \E r \in rows : r.id = e.id

\* The materializer is stopped by nothing but a sample id or a time that only its parser
\* checks, or a version that a restarted assembler has given to two windows of a sample.
\* It is never stopped by samples with valid ids and one event time each, whatever
\* restarts and repeated patches there are.
StopsAreExplained ==
    Stopped =>
        LET times == {patches[n].time : n \in PatchesOf(Record.sample)}
        IN \/ Record.sample \notin ValidSamples
           \/ \E time \in times : time < 0
           \/ assemblerRestarts > 0 /\ \E x, y \in times : x # y

\* When the materializer has caught up, Valkey has the last snapshot of each sample
\* and not an older one, wherever restarts have interrupted it.
OnlineIsLast ==
    handled = Len(updates) /\ step = "set" /\ committed # NoOffset =>
        \A s \in Samples :
            LET having == {n \in DOMAIN updates : updates[n].sample = s}
            IN IF having = {} THEN online[s] = Null
               ELSE online[s] = updates[CHOOSE n \in having : \A m \in having : m <= n]

\* "(sample, snapshot_version) must be unique": as long as the task has not died, two
\* snapshots of a sample with the same version are the same snapshot.
VersionIdentifiesSnapshot ==
    assemblerRestarts = 0 =>
        \A m, n \in DOMAIN updates :
            /\ updates[m].sample = updates[n].sample
            /\ updates[m].version = updates[n].version
            => updates[m] = updates[n]

\* The consumer that a restart may stop anywhere stores each record before its offset
\* is passed.
Sink == INSTANCE AtLeastOnceSink WITH
    Ids <- Samples \X Int \X Nat,
    log <- [n \in DOMAIN updates |-> updates[n].id],
    stored <- {r.id : r \in rows},
    committed <- CommittedCount

SinkSpec == Sink!Spec

UpdateNumbers == UNION {1 .. Len(input) * (MaxAssemblerRestarts + 1) : input \in Inputs}

\* "For every record": each snapshot is written to both stores and its offset
\* committed, whatever restarts come in between.
EveryUpdateCommitted ==
    \A n \in UpdateNumbers : Len(updates) >= n ~> CommittedCount >= n

\* Unless a patch throws, every sample ends up online with the features of all its
\* patches, or the materializer ends up in front of a record that it cannot pass.
FeaturesConverge ==
    (\A n \in DOMAIN patches : patches[n].accepted) =>
        <>[](\/ Stopped
             \/ \A s \in Samples : PatchesOf(s) # {} =>
                    online[s] # Null /\ online[s].hash = Vector(s, PatchesOf(s)))
=============================================================================
