-------------------------- MODULE FeatureMaterializer -------------------------
(***************************************************************************)
(* fdc-feature-materializer: a Kafka consumer that writes each snapshot to *)
(* Valkey, then to the table serving_feature_snapshots, and then commits   *)
(* its offset.  Any exception ends the process, which is started again.    *)
(***************************************************************************)
EXTENDS FeatureAssembler

CONSTANTS
    ValidSamples,               \* the samples whose id is secom- and seven digits
    MaxMaterializerRestarts     \* bound

ASSUME MaterializerAssumption ==
    /\ ValidSamples \subseteq Samples
    /\ MaxMaterializerRestarts \in Nat

VARIABLES
    online,      \* [Samples -> the snapshot that Valkey has, or Null]
    rows,        \* serving_feature_snapshots
    handled,     \* the position of the consumer
    committed,   \* its committed offset
    step,        \* what handle does next with the record at the position
    materializerRestarts

materializerVars == <<online, rows, handled, committed, step, materializerRestarts>>

MaterializerInit ==
    /\ online = [s \in Samples |-> Null]
    /\ rows = {}
    /\ handled = 0
    /\ committed = IF FreshGroups THEN NoOffset ELSE 0
    /\ step = "set"
    /\ materializerRestarts = 0

Record == updates[handled + 1]

\* What is committed, as a number of records.
CommittedCount == IF committed = NoOffset THEN 0 ELSE committed

\* What FeatureSnapshotParser accepts.  The assembler checks neither the form of a sample
\* id nor the sign of a time.
Parses(r) ==
    /\ r.sample \in ValidSamples
    /\ r.version >= 1
    /\ 0 <= r.start /\ r.start <= r.end
    /\ r.feature_count \in 0 .. Cardinality(Keys)
    /\ r.complete = (r.feature_count = Cardinality(Keys))
    /\ DOMAIN r.hash = Keys
    /\ r.missing_count = Cardinality({k \in Keys : r.hash[k] = Null})

\* Mutant: a sample that is online is not written again.
SetOnlineOnce ==
    /\ step = "set"
    /\ handled < Len(updates)
    /\ online' = [online EXCEPT ![Record.sample] = IF @ = Null THEN Record ELSE @]
    /\ step' = "persist"
    /\ UNCHANGED <<rows, handled, committed, materializerRestarts, assemblerVars>>

\* The record is parsed; then store.put: SET, and the value is read back.
SetOnline ==
    /\ step = "set"
    /\ handled < Len(updates)
    /\ Parses(Record)
    /\ online' = [online EXCEPT ![Record.sample] = Record]
    /\ step' = "persist"
    /\ UNCHANGED <<rows, handled, committed, materializerRestarts, assemblerVars>>

\* Mutant: the process goes on at the end of the topic although an offset is committed.
ResumesAtEnd == handled' = Len(updates) /\ step' = "set"

\* The process is started again and goes on after its committed offset; without one,
\* at the end of the topic.
Resumes ==
    /\ handled' = IF committed = NoOffset THEN Len(updates) ELSE committed
    /\ step' = "set"

\* The parser throws, before anything is written.  With a committed offset the process
\* comes back to the same record each time that it is started again.
Refuse ==
    /\ step = "set"
    /\ handled < Len(updates)
    /\ ~Parses(Record)
    /\ Resumes
    /\ UNCHANGED <<online, rows, committed, materializerRestarts, assemblerVars>>

SameId(r) == r.id = Record.id
SameVersion(r) == r.sample = Record.sample /\ r.version = Record.version

\* snapshotSink.persist: a row with the same id is kept as it is, and another one with
\* the same sample and version violates uq_serving_feature_snapshots_sample_version.
Persist ==
    /\ step = "persist"
    /\ \/ /\ \E r \in rows : SameId(r)
          /\ step' = "commit"
          /\ UNCHANGED <<rows, handled>>
       \/ /\ ~\E r \in rows : SameId(r) \/ SameVersion(r)
          /\ rows' = rows \cup {Record}
          /\ step' = "commit"
          /\ UNCHANGED handled
       \/ /\ ~\E r \in rows : SameId(r)
          /\ \E r \in rows : SameVersion(r)
          /\ Resumes
          /\ UNCHANGED rows
    /\ UNCHANGED <<online, committed, materializerRestarts, assemblerVars>>

\* Mutant: the offset of the last record of the poll is committed.
CommitRecordPolled ==
    /\ step = "commit"
    /\ committed' = Len(updates)
    /\ handled' = Len(updates)
    /\ step' = "set"
    /\ UNCHANGED <<online, rows, materializerRestarts, assemblerVars>>

\* offsetCommitter.accept
CommitRecord ==
    /\ step = "commit"
    /\ committed' = handled + 1
    /\ handled' = handled + 1
    /\ step' = "set"
    /\ UNCHANGED <<online, rows, materializerRestarts, assemblerVars>>

\* The process dies, or a call of Valkey, PostgreSQL or Kafka fails, before or after
\* it had its effect.
RestartMaterializer ==
    /\ materializerRestarts < MaxMaterializerRestarts
    /\ materializerRestarts' = materializerRestarts + 1
    /\ Resumes
    /\ UNCHANGED <<online, rows, committed, assemblerVars>>

MaterializerStep == Refuse \/ SetOnline \/ Persist \/ CommitRecord
=============================================================================
