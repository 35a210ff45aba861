--------------------------- MODULE FeatureAssembler ---------------------------
(***************************************************************************)
(* fdc-feature-assembler: a Kafka Streams task that merges feature patches *)
(* into a state per sample and emits a snapshot for each patch.  One       *)
(* partition of the input topic, which has all patches of its samples, and *)
(* the partition of the output topic that they go to.                      *)
(*                                                                         *)
(* processing.guarantee is left at its default, at_least_once: the state   *)
(* changes and the snapshots are sent to their topics on their own, the    *)
(* input offset is committed once both have arrived, and a task that dies  *)
(* before that restores its state from the changelog and consumes the      *)
(* patches after the committed offset again.                               *)
(***************************************************************************)
EXTENDS Integers, Sequences, FiniteSets

CONSTANTS
    Samples,        \* what patches have as a sample_id: any text that is not blank
    Keys,           \* the canonical feature keys, f000 to f589
    Values,         \* feature values
    Null,           \* a feature that is missing, or sent as null
    Inputs,         \* the sequences of patches that the input topic may have
    NoOffset,       \* a consumer group that has not committed yet
    FreshGroups,    \* TRUE: neither group has committed on these partitions yet
    MaxAssemblerRestarts    \* bound

PatchFeatures == UNION {[K -> Values] : K \in SUBSET Keys}

\* A time is a number of ms, before or after 1970.  A patch that is not accepted has a
\* field that is missing or of another type than it should be, a Kafka key that is not
\* its sample, a feature that does not exist, or one that is not a finite number.
PatchType == [sample : Samples, time : Int, features : PatchFeatures, accepted : BOOLEAN]

ASSUME KeysAssumption == IsFiniteSet(Keys)
ASSUME PatchesAssumption ==
    /\ Null \in Values
    /\ Inputs \subseteq Seq(PatchType)
ASSUME OffsetAssumption == NoOffset \notin Nat
ASSUME AssemblerAssumption == FreshGroups \in BOOLEAN /\ MaxAssemblerRestarts \in Nat

VARIABLES
    patches,       \* the input topic
    state,         \* [Samples -> the state of the sample in the store]
    consumed,      \* how many patches the task has processed or skipped
    offset,        \* the committed input offset
    changelog,     \* [Samples -> the last state that its changelog topic has]
    changes,       \* buffered by the producer: states, in order
    emitted,       \* buffered by the producer: snapshots, in order
    updates,       \* the output topic, a sequence of snapshots
    assemblerRestarts

assemblerVars == <<patches, state, consumed, offset, changelog, changes, emitted,
                   updates, assemblerRestarts>>

EmptyState == [features |-> [k \in {} |-> Null], count |-> 0, start |-> 0, end |-> 0]

AssemblerInit ==
    /\ patches \in Inputs
    /\ state = [s \in Samples |-> EmptyState]
    /\ consumed = 0
    /\ offset = IF FreshGroups THEN NoOffset ELSE 0
    /\ changelog = [s \in Samples |-> EmptyState]
    /\ changes = << >>
    /\ emitted = << >>
    /\ updates = << >>
    /\ assemblerRestarts = 0

\* updateWindow
WindowStart(old, patch) ==
    IF old.count = 0 \/ patch.time < old.start THEN patch.time ELSE old.start
WindowEnd(old, patch) ==
    IF old.count = 0 \/ patch.time > old.end THEN patch.time ELSE old.end

\* Features, some of which are replaced or added.
Overlay(new, old) ==
    [k \in DOMAIN new \cup DOMAIN old |-> IF k \in DOMAIN new THEN new[k] ELSE old[k]]

\* Mutant: the patches are not counted.
MergedUncounted(old, patch) ==
    [features |-> Overlay(patch.features, old.features),
     count |-> old.count,
     start |-> WindowStart(old, patch),
     end |-> WindowEnd(old, patch)]

\* A patch replaces the features it has.
Merged(old, patch) ==
    [features |-> Overlay(patch.features, old.features),
     count |-> old.count + 1,
     start |-> WindowStart(old, patch),
     end |-> WindowEnd(old, patch)]

\* The vector of all keys, in which a feature that was never sent is null as well.
Canonical(features) ==
    [k \in Keys |-> IF k \in DOMAIN features THEN features[k] ELSE Null]

\* buildOutput.  The identity is made of the sample, the end of its window and the
\* number of patches.  The hash is a function of the canonical vector that tells any
\* two vectors apart.  A feature that was sent as null counts for completeness.
Snapshot(s, st) ==
    [id |-> <<s, st.end, st.count>>,
     sample |-> s,
     version |-> st.count,
     start |-> st.start,
     end |-> st.end,
     feature_count |-> Cardinality(DOMAIN st.features),
     missing_count |-> Cardinality({k \in Keys : Canonical(st.features)[k] = Null}),
     complete |-> Cardinality(DOMAIN st.features) = Cardinality(Keys),
     hash |-> Canonical(st.features)]

\* The next patch throws: it is checked, and its snapshot built, before the store is
\* written.  The exception shuts the application down, its container is started again
\* (RestartAssembler), and the task throws on the same patch for ever.
Rejects == consumed < Len(patches) /\ ~patches[consumed + 1].accepted

\* process: the store and its changelog, then the snapshot.
Process ==
    /\ consumed < Len(patches)
    /\ ~Rejects
    /\ LET patch == patches[consumed + 1]
           s == patch.sample
           new == Merged(state[s], patch)
       IN /\ state' = [state EXCEPT ![s] = new]
          /\ changes' = Append(changes, [sample |-> s, state |-> new])
          /\ emitted' = Append(emitted, Snapshot(s, new))
    /\ consumed' = consumed + 1
    /\ UNCHANGED <<patches, offset, changelog, updates, assemblerRestarts>>

\* The producer sends what it has buffered for each of the two topics in order.
SendChange ==
    /\ changes # << >>
    /\ changelog' = [changelog EXCEPT ![Head(changes).sample] = Head(changes).state]
    /\ changes' = Tail(changes)
    /\ UNCHANGED <<patches, state, consumed, offset, emitted, updates, assemblerRestarts>>

SendUpdate ==
    /\ emitted # << >>
    /\ updates' = Append(updates, Head(emitted))
    /\ emitted' = Tail(emitted)
    /\ UNCHANGED <<patches, state, consumed, offset, changelog, changes,
                   assemblerRestarts>>

\* Mutant: the offset is committed without flushing the producer.
CommitInputUnflushed ==
    /\ consumed > 0
    /\ offset # consumed
    /\ offset' = consumed
    /\ UNCHANGED <<patches, state, consumed, changelog, changes, emitted, updates,
                   assemblerRestarts>>

\* Every second, once the producer is flushed.
CommitInput ==
    /\ consumed > 0
    /\ offset # consumed
    /\ changes = << >> /\ emitted = << >>
    /\ offset' = consumed
    /\ UNCHANGED <<patches, state, consumed, changelog, changes, emitted, updates,
                   assemblerRestarts>>

\* The process dies and is started again.  Without a committed offset it goes on at
\* the end of the input: auto.offset.reset is latest.
RestartAssembler ==
    /\ assemblerRestarts < MaxAssemblerRestarts
    /\ assemblerRestarts' = assemblerRestarts + 1
    /\ state' = changelog
    /\ consumed' = IF offset = NoOffset THEN Len(patches) ELSE offset
    /\ changes' = << >>
    /\ emitted' = << >>
    /\ UNCHANGED <<patches, offset, changelog, updates>>

AssemblerStep == Process \/ SendChange \/ SendUpdate \/ CommitInput
=============================================================================
