------------------------ MODULE FeaturePipeline_proofs ------------------------
(***************************************************************************)
(* Proofs about FeaturePipeline, for all samples, finite sets of keys,     *)
(* sequences of patches (the ones that throw or are refused later, too)    *)
(* and numbers of restarts.                                                *)
(*                                                                         *)
(* TypeOK comes first.  VersionInv (what has been issued, sent or still in *)
(* the producer's buffer), WindowInv (event-time windows), MaterializerInv *)
(* (what is stored up to the offset) and OnlineInv (which record Valkey    *)
(* has) are inductive relative to it.                                      *)
(***************************************************************************)
EXTENDS FeaturePipeline, FiniteSetTheorems, SequenceTheorems, TLAPS

(* The operators of the assembler                                          *)

\* Merging two maps of features gives a map of features.
LEMMA ValuesOverlay ==
    ASSUME NEW f \in PatchFeatures, NEW g \in PatchFeatures
    PROVE  Overlay(f, g) \in PatchFeatures
<1> DEFINE D == DOMAIN f \cup DOMAIN g
<1>1. PICK K \in SUBSET Keys : f \in [K -> Values]
  BY DEF PatchFeatures
<1>2. PICK L \in SUBSET Keys : g \in [L -> Values]
  BY DEF PatchFeatures
<1>3. D \in SUBSET Keys
  BY <1>1, <1>2
<1>4. Overlay(f, g) \in [D -> Values]
  BY <1>1, <1>2 DEF Overlay
<1>5. QED
  BY <1>3, <1>4 DEF PatchFeatures

\* A patch of the input has the type of a patch.
LEMMA PatchAt ==
    ASSUME TypeOK, NEW n \in 1 .. Len(patches)
    PROVE  patches[n] \in PatchType
<1>1. patches \in Seq(PatchType)
  BY PatchesAssumption DEF TypeOK
<1>2. QED
  BY <1>1, ElementOfSeq

\* loadOrCreateState gives a state.
LEMMA EmptyStateType == EmptyState \in StateType
<1>1. [k \in {} |-> Null] \in [{} -> Values]
  OBVIOUS
<1>2. [k \in {} |-> Null] \in PatchFeatures
  BY <1>1 DEF PatchFeatures
<1>3. QED
  BY <1>2 DEF EmptyState, StateType

\* A merge gives a state that counts one patch more.
LEMMA MergedType ==
    ASSUME NEW st \in StateType,
           NEW p \in PatchType
    PROVE  Merged(st, p) \in StateType /\ Merged(st, p).count = st.count + 1
<1>1. Overlay(p.features, st.features) \in PatchFeatures
  BY ValuesOverlay DEF StateType, PatchType
<1>2. WindowStart(st, p) \in Int /\ WindowEnd(st, p) \in Int
  BY DEF WindowStart, WindowEnd, StateType, PatchType
<1>3. QED
  BY <1>1, <1>2 DEF Merged, StateType

\* The canonical vector has all keys, and features are of known keys.
LEMMA CanonicalType ==
    ASSUME NEW f \in PatchFeatures
    PROVE  Canonical(f) \in [Keys -> Values] /\ DOMAIN f \in SUBSET Keys
<1>1. PICK K \in SUBSET Keys : f \in [K -> Values]
  BY DEF PatchFeatures
<1>2. QED
  BY <1>1, PatchesAssumption DEF Canonical

\* buildOutput gives a snapshot of the sample, with the count as its version.
LEMMA SnapshotHasType ==
    ASSUME NEW s \in Samples, NEW st \in StateType
    PROVE  /\ Snapshot(s, st) \in SnapshotType
           /\ Snapshot(s, st).sample = s
           /\ Snapshot(s, st).version = st.count
           /\ Snapshot(s, st).end = st.end
           /\ Snapshot(s, st).id = <<s, st.end, st.count>>
<1> DEFINE missing == {k \in Keys : Canonical(st.features)[k] = Null}
<1>1. st.features \in PatchFeatures
  BY DEF StateType
<1>2. Cardinality(DOMAIN st.features) \in Nat
  BY <1>1, CanonicalType, KeysAssumption, FS_Subset, FS_CardinalityType
<1>3. Cardinality(missing) \in Nat
  BY KeysAssumption, FS_Subset, FS_CardinalityType
<1>4. Canonical(st.features) \in [Keys -> Values]
  BY <1>1, CanonicalType
<1>5. QED
  BY <1>2, <1>3, <1>4 DEF Snapshot, SnapshotType, StateType
-----------------------------------------------------------------------------
(* Types                                                                   *)

\* A record of the output topic is a snapshot.
LEMMA PublishedType ==
    ASSUME TypeOK, NEW n \in 1 .. Len(updates)
    PROVE  updates[n] \in SnapshotType
BY ElementOfSeq DEF TypeOK

\* The types hold at the start.
LEMMA TypeInit == Init => TypeOK
<1> SUFFICES ASSUME Init PROVE TypeOK
  OBVIOUS
<1> USE DEF Init, AssemblerInit, MaterializerInit, TypeOK
<1>1. Len(patches) \in Nat
  BY PatchesAssumption, LenProperties
<1>2. /\ state \in [Samples -> StateType]
      /\ changelog \in [Samples -> StateType]
  BY EmptyStateType
<1>3. /\ changes \in Seq([sample : Samples, state : StateType])
      /\ emitted \in Seq(SnapshotType)
      /\ updates \in Seq(SnapshotType)
      /\ Len(updates) = 0
  BY EmptySeq
<1>4. QED
  BY <1>1, <1>2, <1>3, AssemblerAssumption, MaterializerAssumption

\* Every step keeps the types.
LEMMA TypeStep == TypeOK /\ [Next]_vars => TypeOK'
<1> SUFFICES ASSUME TypeOK, [Next]_vars PROVE TypeOK'
  OBVIOUS
<1> DEFINE Change == [sample : Samples, state : StateType]
<1> USE DEF assemblerVars, materializerVars
<1>0. Len(patches) \in Nat /\ Len(updates) \in Nat
  BY PatchesAssumption, LenProperties DEF TypeOK
<1>1. CASE Process /\ UNCHANGED <<materializerVars, evidence>>
  <2> DEFINE patch == patches[consumed + 1]
             s == patch.sample
             new == Merged(state[s], patch)
  <2>0. consumed + 1 \in 1 .. Len(patches)
    BY <1>0, <1>1 DEF TypeOK, Process
  <2>1. patch \in PatchType
    BY <2>0, PatchAt
  <2>2. s \in Samples /\ state[s] \in StateType
    BY <2>1 DEF TypeOK, PatchType
  <2>3. new \in StateType /\ Snapshot(s, new) \in SnapshotType
    BY <2>1, <2>2, MergedType, SnapshotHasType
  <2>4. /\ state' = [state EXCEPT ![s] = new]
        /\ changes' = Append(changes, [sample |-> s, state |-> new])
        /\ emitted' = Append(emitted, Snapshot(s, new))
        /\ consumed' \in 0 .. Len(patches)
    BY <1>0, <1>1 DEF TypeOK, Process
  <2> HIDE DEF patch, s, new
  <2>5. [sample |-> s, state |-> new] \in Change
    BY <2>2, <2>3
  <2>6. /\ changes' \in Seq(Change)
        /\ emitted' \in Seq(SnapshotType)
    BY <2>3, <2>4, <2>5, AppendProperties DEF TypeOK
  <2>7. state' \in [Samples -> StateType]
    BY <2>2, <2>3, <2>4 DEF TypeOK
  <2>8. UNCHANGED <<patches, offset, changelog, updates, assemblerRestarts, online, rows,
                    handled, committed, step, materializerRestarts, evidence>>
    BY <1>1 DEF Process
  <2>9. consumed' \in 0 .. Len(patches)
    BY <2>4
  <2>10. QED
    BY <2>6, <2>7, <2>8, <2>9 DEF TypeOK
<1>2. CASE SendChange /\ UNCHANGED <<materializerVars, evidence>>
  <2>1. Head(changes) \in Change /\ Tail(changes) \in Seq(Change)
    BY <1>2, HeadTailProperties DEF TypeOK, SendChange
  <2>2. QED
    BY <1>2, <2>1 DEF TypeOK, SendChange
<1>3. CASE SendUpdate /\ UNCHANGED <<materializerVars, evidence>>
  <2>1. Head(emitted) \in SnapshotType /\ Tail(emitted) \in Seq(SnapshotType)
    BY <1>3, HeadTailProperties DEF TypeOK, SendUpdate
  <2>2. updates' \in Seq(SnapshotType) /\ Len(updates') = Len(updates) + 1
    BY <1>3, <2>1, AppendProperties DEF TypeOK, SendUpdate
  <2>3. QED
    BY <1>0, <1>3, <2>1, <2>2 DEF TypeOK, SendUpdate
<1>4. CASE CommitInput /\ UNCHANGED <<materializerVars, evidence>>
  BY <1>4 DEF TypeOK, CommitInput
<1>5. CASE RestartAssembler /\ UNCHANGED <<materializerVars, evidence>>
  BY <1>0, <1>5, EmptySeq, AssemblerAssumption DEF TypeOK, RestartAssembler
<1>a. CASE Refuse /\ UNCHANGED evidence
  BY <1>0, <1>a DEF TypeOK, Refuse, Resumes
<1>6. CASE SetOnline /\ UNCHANGED evidence
  <2>1. Record \in SnapshotType
    BY <1>0, <1>6, PublishedType DEF TypeOK, SetOnline, Record
  <2>2. QED
    BY <1>6, <2>1 DEF TypeOK, SetOnline, SnapshotType
<1>7. CASE Persist /\ UNCHANGED evidence
  <2>1. Record \in SnapshotType
    BY <1>0, <1>7, PublishedType DEF TypeOK, Persist, Record
  <2>2. QED
    BY <1>0, <1>7, <2>1 DEF TypeOK, Persist, Resumes
<1>8. CASE CommitRecord /\ UNCHANGED evidence
  BY <1>0, <1>8 DEF TypeOK, CommitRecord
<1>9. CASE RestartMaterializer /\ UNCHANGED evidence
  BY <1>0, <1>9, MaterializerAssumption DEF TypeOK, RestartMaterializer, Resumes
<1>10. CASE \E s \in Samples : Predict(s)
  BY <1>10 DEF TypeOK, Predict
<1>11. CASE UNCHANGED vars
  BY <1>11 DEF TypeOK, vars
<1>12. QED
  BY <1>1, <1>2, <1>3, <1>4, <1>5, <1>a, <1>6, <1>7, <1>8, <1>9, <1>10, <1>11
     DEF Next, Assembler, AssemblerStep, Materializer, MaterializerStep, Restart

\* The variables of assembler, materializer and predictor always have their types.
THEOREM TypeCorrect == Spec => []TypeOK
BY TypeInit, TypeStep, PTL DEF Spec
-----------------------------------------------------------------------------
(* A version identifies its snapshot                                       *)

Published == {updates[n] : n \in 1 .. Len(updates)}
Buffered == {emitted[n] : n \in 1 .. Len(emitted)}
Issued == Published \cup Buffered

\* Until the task dies, what it has issued for a sample is numbered by the count of the
\* state, and the identity of a snapshot is made of its sample, end and version.
VersionInv ==
    /\ \A u \in Issued : u.id = <<u.sample, u.end, u.version>>
    /\ assemblerRestarts = 0 =>
          /\ \A u \in Issued : u.version <= state[u.sample].count
          /\ \A u, v \in Issued :
                u.sample = v.sample /\ u.version = v.version => u = v

\* Sending a snapshot appends the first of the buffer to the topic.
LEMMA SendGrows ==
    ASSUME TypeOK, SendUpdate
    PROVE  /\ Len(updates) \in Nat
           /\ Len(updates') = Len(updates) + 1
           /\ \A n \in 1 .. Len(updates) : updates'[n] = updates[n]
           /\ updates'[Len(updates) + 1] \in Buffered
           /\ Buffered' \subseteq Buffered
<1> USE DEF SendUpdate, TypeOK
<1>1. Len(emitted) \in Nat \ {0} /\ Len(updates) \in Nat
  BY EmptySeq, LenProperties
<1>2. /\ Head(emitted) = emitted[1]
      /\ Len(Tail(emitted)) = Len(emitted) - 1
      /\ \A n \in 1 .. Len(Tail(emitted)) : Tail(emitted)[n] = emitted[n + 1]
  BY HeadTailProperties
<1>3. emitted[1] \in Buffered /\ Head(emitted) \in SnapshotType
  BY <1>1, <1>2, ElementOfSeq DEF Buffered
<1>4. /\ Len(updates') = Len(updates) + 1
      /\ \A n \in 1 .. Len(updates) : updates'[n] = updates[n]
      /\ updates'[Len(updates) + 1] = emitted[1]
  BY <1>2, <1>3, AppendProperties
<1>5. \A n \in 1 .. Len(emitted') :
         n + 1 \in 1 .. Len(emitted) /\ emitted'[n] = emitted[n + 1]
  BY <1>1, <1>2
<1>6. Buffered' \subseteq Buffered
  BY <1>5 DEF Buffered
<1>7. QED
  BY <1>1, <1>3, <1>4, <1>6

\* Sending issues nothing new and takes nothing back.
LEMMA IssuedSends ==
    ASSUME TypeOK, SendUpdate
    PROVE  Issued' \subseteq Issued /\ Published \subseteq Published'
<1>1. \A n \in 1 .. Len(updates') :
         \/ n \in 1 .. Len(updates) /\ updates'[n] = updates[n]
         \/ updates'[n] \in Buffered
  BY SendGrows
<1>2. QED
  BY <1>1, SendGrows DEF Issued, Published

\* VersionInv holds at the start.
LEMMA VersionInit == Init => VersionInv
<1> SUFFICES ASSUME Init PROVE VersionInv
  OBVIOUS
<1>1. Len(updates) = 0 /\ Len(emitted) = 0
  BY EmptySeq DEF Init, AssemblerInit
<1>2. Issued = {}
  BY <1>1 DEF Issued, Published, Buffered
<1>3. QED
  BY <1>2 DEF VersionInv

\* Every step keeps VersionInv: a new snapshot has a version above all others.
LEMMA VersionStep == TypeOK /\ VersionInv /\ [Next]_vars => VersionInv'
<1> SUFFICES ASSUME TypeOK, VersionInv, [Next]_vars PROVE VersionInv'
  OBVIOUS
<1> USE DEF assemblerVars, materializerVars
<1>0. Len(patches) \in Nat /\ Len(emitted) \in Nat
  BY PatchesAssumption, LenProperties DEF TypeOK
<1>1. CASE Process
  <2> DEFINE patch == patches[consumed + 1]
             s == patch.sample
             new == Merged(state[s], patch)
             w == Snapshot(s, new)
  <2>0. consumed + 1 \in 1 .. Len(patches)
    BY <1>0, <1>1 DEF TypeOK, Process
  <2>1. /\ patch \in PatchType
        /\ s \in Samples
        /\ state[s] \in StateType
    BY <2>0, PatchAt DEF TypeOK, PatchType
  <2>2. new \in StateType /\ new.count = state[s].count + 1
    BY <2>1, MergedType
  <2>3. /\ w \in SnapshotType
        /\ w.sample = s
        /\ w.version = state[s].count + 1
        /\ w.id = <<w.sample, w.end, w.version>>
    BY <2>1, <2>2, SnapshotHasType
  <2>4. /\ state' = [state EXCEPT ![s] = new]
        /\ emitted' = Append(emitted, w)
        /\ UNCHANGED <<updates, assemblerRestarts>>
    BY <1>1 DEF Process
  <2>5. \A t \in Samples : /\ state[t].count \in Nat
                           /\ state'[t].count = IF t = s THEN state[s].count + 1
                                                ELSE state[t].count
    BY <2>1, <2>2, <2>4 DEF TypeOK, StateType
  <2> HIDE DEF patch, s, new, w
  <2>6. \A n \in 1 .. Len(emitted') :
           \/ n \in 1 .. Len(emitted) /\ emitted'[n] = emitted[n]
           \/ emitted'[n] = w
    BY <1>0, <2>3, <2>4, AppendProperties DEF TypeOK
  <2>7. Issued' \subseteq Issued \cup {w}
    BY <2>4, <2>6 DEF Issued, Published, Buffered
  <2>8. \A u \in Issued : u \in SnapshotType
    BY ElementOfSeq DEF TypeOK, Issued, Published, Buffered
  <2>9. \A u \in Issued : u.sample \in Samples /\ u.version \in Nat
    BY <2>8 DEF SnapshotType
  <2>10. \A u \in Issued' : u.id = <<u.sample, u.end, u.version>>
    BY <2>3, <2>7 DEF VersionInv
  <2>11. ASSUME assemblerRestarts = 0
         PROVE  \A u \in Issued' : u.version <= state'[u.sample].count
    BY <2>1, <2>3, <2>5, <2>7, <2>9, <2>11 DEF VersionInv
  <2>12. ASSUME assemblerRestarts = 0
         PROVE  \A u \in Issued : u.sample = s => u.version # w.version
    BY <2>1, <2>3, <2>5, <2>9, <2>12 DEF VersionInv
  <2>13. ASSUME assemblerRestarts = 0
         PROVE  \A u, v \in Issued' :
                   u.sample = v.sample /\ u.version = v.version => u = v
    BY <2>3, <2>7, <2>12, <2>13 DEF VersionInv
  <2>14. QED
    BY <2>4, <2>10, <2>11, <2>13 DEF VersionInv
<1>2. CASE SendUpdate
  BY <1>2, IssuedSends DEF VersionInv, SendUpdate
<1>3. CASE RestartAssembler
  <2>1. Len(emitted') = 0
    BY <1>3, EmptySeq DEF RestartAssembler
  <2>2. Issued' \subseteq Issued
    BY <1>3, <2>1 DEF RestartAssembler, Issued, Published, Buffered
  <2>3. assemblerRestarts' # 0
    BY <1>3, AssemblerAssumption DEF RestartAssembler, TypeOK
  <2>4. QED
    BY <2>2, <2>3 DEF VersionInv
<1>4. CASE UNCHANGED <<state, updates, emitted, assemblerRestarts>>
  BY <1>4 DEF VersionInv, Issued, Published, Buffered
<1>5. QED
  BY <1>1, <1>2, <1>3, <1>4
     DEF Next, Assembler, AssemblerStep, Materializer, MaterializerStep, Restart,
         SendChange, CommitInput, Refuse, SetOnline, Persist, CommitRecord,
         RestartMaterializer, Predict, vars

\* The assembler, as long as it has not died, never gives two snapshots of a sample the
\* same version.
THEOREM VersionsIdentify == Spec => []VersionIdentifiesSnapshot
<1>1. TypeOK /\ VersionInv => VersionIdentifiesSnapshot
  <2> SUFFICES ASSUME TypeOK, VersionInv PROVE VersionIdentifiesSnapshot
    OBVIOUS
  <2>1. DOMAIN updates = 1 .. Len(updates)
    BY LenProperties DEF TypeOK
  <2>2. QED
    BY <2>1 DEF VersionIdentifiesSnapshot, VersionInv, Issued, Published
<1>2. QED
  BY <1>1, TypeInit, TypeStep, VersionInit, VersionStep, PTL DEF Spec
-----------------------------------------------------------------------------
(* Windows, and what stops the materializer                                *)

\* The times that the patches of a sample have.
Times == [s \in Samples |-> {patches[n].time : n \in {m \in DOMAIN patches :
                                                        patches[m].sample = s}}]

\* The window of a state that has counted a patch starts and ends at such times.
WindowOK(st, times) ==
    st.count >= 1 => st.start <= st.end /\ st.start \in times /\ st.end \in times

\* What FeatureSnapshotParser asks of a snapshot, but for the form of its sample id and
\* the sign of its times, of which it is known only that patches had them.
Consistent(u, times) ==
    /\ u.version >= 1
    /\ u.start <= u.end
    /\ u.start \in times /\ u.end \in times
    /\ u.feature_count \in 0 .. Cardinality(Keys)
    /\ u.complete = (u.feature_count = Cardinality(Keys))
    /\ DOMAIN u.hash = Keys
    /\ u.missing_count = Cardinality({k \in Keys : u.hash[k] = Null})

\* The windows of all states are ordered and made of times of their sample, and what was
\* issued is consistent.
WindowInv ==
    /\ \A s \in Samples : WindowOK(state[s], Times[s]) /\ WindowOK(changelog[s], Times[s])
    /\ \A n \in 1 .. Len(changes) : WindowOK(changes[n].state, Times[changes[n].sample])
    /\ \A u \in Issued : Consistent(u, Times[u.sample])

\* updateWindow keeps the window ordered and adds no time but that of the patch.
LEMMA MergedWindow ==
    ASSUME NEW times, NEW st \in StateType, WindowOK(st, times),
           NEW p \in PatchType, p.time \in times
    PROVE  WindowOK(Merged(st, p), times)
<1>1. /\ st.count \in Nat /\ st.start \in Int /\ st.end \in Int /\ p.time \in Int
      /\ Merged(st, p).start = WindowStart(st, p)
      /\ Merged(st, p).end = WindowEnd(st, p)
  BY DEF StateType, PatchType, Merged
<1>2. CASE st.count = 0
  BY <1>1, <1>2 DEF WindowOK, WindowStart, WindowEnd
<1>3. CASE st.count >= 1
  BY <1>1, <1>3 DEF WindowOK, WindowStart, WindowEnd
<1>4. QED
  BY <1>1, <1>2, <1>3

\* buildOutput gives a snapshot that is consistent.
LEMMA SnapshotConsistent ==
    ASSUME NEW times, NEW s \in Samples, NEW st \in StateType,
           WindowOK(st, times), st.count >= 1
    PROVE  Consistent(Snapshot(s, st), times)
<1>1. st.features \in PatchFeatures
  BY DEF StateType
<1>2. /\ Cardinality(DOMAIN st.features) \in Nat
      /\ Cardinality(Keys) \in Nat
      /\ Cardinality(DOMAIN st.features) <= Cardinality(Keys)
  BY <1>1, CanonicalType, KeysAssumption, FS_Subset, FS_CardinalityType
<1>3. DOMAIN Canonical(st.features) = Keys
  BY DEF Canonical
<1>4. QED
  BY <1>2, <1>3 DEF Consistent, Snapshot, WindowOK

\* WindowInv holds at the start.
LEMMA WindowInit == Init => WindowInv
<1> SUFFICES ASSUME Init PROVE WindowInv
  OBVIOUS
<1> USE DEF Init, AssemblerInit
<1>1. Issued = {}
  BY DEF Issued, Published, Buffered
<1>2. QED
  BY <1>1 DEF WindowInv, WindowOK, EmptyState

\* Every step keeps WindowInv, the restart of the task from its changelog included.
LEMMA WindowStep == TypeOK /\ WindowInv /\ [Next]_vars => WindowInv'
<1> SUFFICES ASSUME TypeOK, WindowInv, [Next]_vars PROVE WindowInv'
  OBVIOUS
<1> DEFINE Change == [sample : Samples, state : StateType]
<1> USE DEF assemblerVars, materializerVars
<1>0. Len(patches) \in Nat /\ Len(emitted) \in Nat /\ Len(changes) \in Nat
  BY PatchesAssumption, LenProperties DEF TypeOK
<1>1. CASE Process
  <2> DEFINE patch == patches[consumed + 1]
             s == patch.sample
             new == Merged(state[s], patch)
             w == Snapshot(s, new)
             change == [sample |-> s, state |-> new]
  <2>0. consumed + 1 \in 1 .. Len(patches)
    BY <1>0, <1>1 DEF TypeOK, Process
  <2>1. /\ patch \in PatchType
        /\ s \in Samples
        /\ state[s] \in StateType
    BY <2>0, PatchAt DEF TypeOK, PatchType
  <2>a. patch.time \in Times[s]
    <3>1. DOMAIN patches = 1 .. Len(patches)
      BY PatchesAssumption, LenProperties DEF TypeOK
    <3>2. QED
      BY <2>0, <2>1, <3>1 DEF Times
  <2>2. /\ new \in StateType /\ new.count >= 1
        /\ WindowOK(new, Times[s])
    <3>1. WindowOK(state[s], Times[s]) /\ state[s].count \in Nat
      BY <2>1 DEF WindowInv, StateType
    <3>2. /\ new \in StateType /\ new.count = state[s].count + 1
          /\ WindowOK(new, Times[s])
      BY <2>1, <2>a, <3>1, MergedType, MergedWindow
    <3>3. QED
      BY <3>1, <3>2
  <2>3. w \in SnapshotType /\ w.sample = s /\ Consistent(w, Times[s])
    BY <2>1, <2>2, SnapshotHasType, SnapshotConsistent
  <2>4. /\ state' = [state EXCEPT ![s] = new]
        /\ changes' = Append(changes, change)
        /\ emitted' = Append(emitted, w)
        /\ UNCHANGED <<patches, updates, changelog>>
    BY <1>1 DEF Process
  <2>5. change \in Change /\ change.state = new /\ change.sample = s
    BY <2>1, <2>2
  <2>b. Times' = Times
    BY <2>4 DEF Times
  <2> HIDE DEF patch, s, new, w, change
  <2>6. \A n \in 1 .. Len(emitted') :
           \/ n \in 1 .. Len(emitted) /\ emitted'[n] = emitted[n]
           \/ emitted'[n] = w
    BY <1>0, <2>3, <2>4, AppendProperties DEF TypeOK
  <2>7. Issued' \subseteq Issued \cup {w}
    BY <2>4, <2>6 DEF Issued, Published, Buffered
  <2>8. \A n \in 1 .. Len(changes') :
           \/ n \in 1 .. Len(changes) /\ changes'[n] = changes[n]
           \/ changes'[n] = change
    BY <1>0, <2>4, <2>5, AppendProperties DEF TypeOK
  <2>9. \A n \in 1 .. Len(changes') :
           WindowOK(changes'[n].state, Times'[changes'[n].sample])
    BY <2>2, <2>5, <2>8, <2>b DEF WindowInv
  <2>10. \A t \in Samples : /\ WindowOK(state'[t], Times'[t])
                            /\ WindowOK(changelog'[t], Times'[t])
    BY <2>1, <2>2, <2>4, <2>b DEF WindowInv, TypeOK
  <2>11. \A u \in Issued' : Consistent(u, Times'[u.sample])
    BY <2>3, <2>7, <2>b DEF WindowInv
  <2>12. QED
    BY <2>9, <2>10, <2>11 DEF WindowInv
<1>2. CASE SendChange
  <2>1. /\ changes # << >>
        /\ changelog' = [changelog EXCEPT ![Head(changes).sample] = Head(changes).state]
        /\ changes' = Tail(changes)
        /\ UNCHANGED <<patches, state, emitted, updates>>
    BY <1>2 DEF SendChange
  <2>2. Len(changes) \in Nat \ {0}
    BY <2>1, EmptySeq DEF TypeOK
  <2>3. /\ Head(changes) = changes[1]
        /\ Len(Tail(changes)) = Len(changes) - 1
        /\ \A n \in 1 .. Len(Tail(changes)) : Tail(changes)[n] = changes[n + 1]
    BY <2>1, HeadTailProperties DEF TypeOK
  <2>4. \A n \in 1 .. Len(changes') :
           n + 1 \in 1 .. Len(changes) /\ changes'[n] = changes[n + 1]
    BY <2>1, <2>2, <2>3
  <2>5. WindowOK(Head(changes).state, Times[Head(changes).sample])
    BY <2>2, <2>3 DEF WindowInv
  <2>6. Times' = Times /\ Issued' = Issued
    BY <2>1 DEF Times, Issued, Published, Buffered
  <2>7. \A n \in 1 .. Len(changes') :
           WindowOK(changes'[n].state, Times'[changes'[n].sample])
    BY <2>4, <2>6 DEF WindowInv
  <2>8. \A t \in Samples : /\ WindowOK(state'[t], Times'[t])
                           /\ WindowOK(changelog'[t], Times'[t])
    BY <2>1, <2>5, <2>6 DEF WindowInv, TypeOK
  <2>9. QED
    BY <2>6, <2>7, <2>8 DEF WindowInv
<1>3. CASE SendUpdate
  <2>1. Issued' \subseteq Issued /\ UNCHANGED <<patches, state, changelog, changes>>
    BY <1>3, IssuedSends DEF SendUpdate
  <2>2. Times' = Times
    BY <2>1 DEF Times
  <2>3. QED
    BY <2>1, <2>2 DEF WindowInv
<1>4. CASE RestartAssembler
  <2>1. Len(emitted') = 0 /\ Len(changes') = 0
    BY <1>4, EmptySeq DEF RestartAssembler
  <2>2. Issued' \subseteq Issued
    BY <1>4, <2>1 DEF RestartAssembler, Issued, Published, Buffered
  <2>3. Times' = Times /\ state' = changelog /\ changelog' = changelog
    BY <1>4 DEF RestartAssembler, Times
  <2>4. QED
    BY <2>1, <2>2, <2>3 DEF WindowInv
<1>5. CASE UNCHANGED <<patches, state, changelog, changes, updates, emitted>>
  <2>1. Issued' = Issued /\ Times' = Times
    BY <1>5 DEF Issued, Published, Buffered, Times
  <2>2. QED
    BY <1>5, <2>1 DEF WindowInv
<1>6. QED
  BY <1>1, <1>2, <1>3, <1>4, <1>5
     DEF Next, Assembler, AssemblerStep, Materializer, MaterializerStep, Restart,
         CommitInput, Refuse, SetOnline, Persist, CommitRecord, RestartMaterializer,
         Predict, vars

\* A row is a record of the topic, also when the group started without an offset.
RowsInv == rows \subseteq Published

\* RowsInv holds at the start.
LEMMA RowsInit == Init => RowsInv
BY DEF Init, MaterializerInit, RowsInv

\* Every step keeps RowsInv: persist writes the record at the position.
LEMMA RowsStep == TypeOK /\ RowsInv /\ [Next]_vars => RowsInv'
<1> SUFFICES ASSUME TypeOK, RowsInv, [Next]_vars PROVE RowsInv'
  OBVIOUS
<1> USE DEF assemblerVars, materializerVars
<1>1. CASE SendUpdate /\ UNCHANGED <<materializerVars, evidence>>
  BY <1>1, IssuedSends DEF RowsInv
<1>2. CASE Persist /\ UNCHANGED evidence
  <2>1. handled + 1 \in 1 .. Len(updates)
    BY <1>2, LenProperties DEF TypeOK, Persist
  <2>2. Record \in Published /\ Published' = Published
    BY <1>2, <2>1 DEF Record, Published, Persist
  <2>3. rows' \subseteq rows \cup {Record}
    BY <1>2 DEF Persist
  <2>4. QED
    BY <2>2, <2>3 DEF RowsInv
<1>3. CASE UNCHANGED <<updates, rows>>
  BY <1>3 DEF RowsInv, Published
<1>4. QED
  BY <1>1, <1>2, <1>3
     DEF Next, Assembler, AssemblerStep, Materializer, MaterializerStep, Restart,
         Process, SendChange, CommitInput, RestartAssembler, Refuse, SetOnline,
         CommitRecord, RestartMaterializer, Predict, vars

\* A record that the parser refuses has an id or a time of the kinds named; one that the
\* table refuses has the version of a row with another end of the window, and then the
\* task has died and both ends are times of patches.
LEMMA ExplainedFromInv ==
    TypeOK /\ VersionInv /\ WindowInv /\ RowsInv => StopsAreExplained
<1> DEFINE s == Record.sample
           times == {patches[n].time : n \in PatchesOf(s)}
<1> SUFFICES ASSUME TypeOK, VersionInv, WindowInv, RowsInv, Stopped
             PROVE  \/ s \notin ValidSamples
                    \/ \E time \in times : time < 0
                    \/ assemblerRestarts > 0 /\ \E x, y \in times : x # y
  BY DEF StopsAreExplained
<1>1. Record \in Published /\ Record \in SnapshotType
  <2>1. handled + 1 \in 1 .. Len(updates)
    BY LenProperties DEF TypeOK, Stopped
  <2>2. QED
    BY <2>1, PublishedType DEF Record, Published
<1>2. Record \in Issued /\ s \in Samples /\ Record.start \in Int /\ Record.end \in Int
  BY <1>1 DEF Issued, SnapshotType
<1>3. Times[s] = times
  BY <1>2 DEF Times, PatchesOf
<1>4. Consistent(Record, times)
  BY <1>2, <1>3 DEF WindowInv
<1> HIDE DEF times
<1>5. CASE ~Parses(Record)
  <2>1. s \notin ValidSamples \/ Record.start < 0
    BY <1>2, <1>4, <1>5 DEF Parses, Consistent
  <2>2. QED
    BY <1>4, <2>1 DEF Consistent
<1>6. CASE /\ ~\E r \in rows : SameId(r)
           /\ \E r \in rows : SameVersion(r)
  <2>1. PICK r \in rows : r.sample = s /\ r.version = Record.version
    BY <1>6 DEF SameVersion
  <2>2. r \in Issued /\ r.id # Record.id
    BY <1>6, <2>1 DEF RowsInv, Issued, SameId
  <2>3. r.end # Record.end
    BY <1>2, <2>1, <2>2 DEF VersionInv
  <2>4. assemblerRestarts # 0
    BY <1>2, <2>1, <2>2 DEF VersionInv
  <2>5. assemblerRestarts > 0
    BY <2>4, AssemblerAssumption DEF TypeOK
  <2>6. r.end \in times /\ Record.end \in times
    BY <1>3, <1>4, <2>1, <2>2 DEF WindowInv, Consistent
  <2>7. QED
    BY <2>3, <2>5, <2>6
<1>7. QED
  BY <1>5, <1>6 DEF Stopped

\* Samples with valid ids and one event time each never stop the materializer, whatever
\* is sent again and whatever restarts come in between; every stop has one of the three
\* causes.
THEOREM StopsExplained == Spec => []StopsAreExplained
BY TypeInit, TypeStep, VersionInit, VersionStep, WindowInit, WindowStep, RowsInit,
   RowsStep, ExplainedFromInv, PTL DEF Spec
-----------------------------------------------------------------------------
(* The materializer                                                        *)

\* The position is the committed offset, a record that has passed a store is in it, and
\* nothing is stored or used for a prediction that is not in the topic.
MaterializerInv ==
    /\ committed = handled
    /\ step # "set" => online[Record.sample] = Record
    /\ step = "commit" => \E r \in rows : r.id = Record.id
    /\ \A n \in 1 .. handled : \E r \in rows : r.id = updates[n].id
    /\ \A s \in Samples : online[s] \in Published \cup {Null}
    /\ rows \subseteq Published
    /\ evidence \subseteq Published

\* The records that are in Valkey or will never be written there again.
Reached == IF step = "set" THEN handled ELSE handled + 1

\* Valkey has a record of the sample that is at least as new as all records behind the
\* position.  It may be newer than they are: a restart begins the record at hand again.
OnlineInv ==
    \A s \in Samples :
        \/ /\ online[s] = Null
           /\ \A m \in 1 .. Reached : updates[m].sample # s
        \/ \E n \in 1 .. Len(updates) :
              /\ online[s] = updates[n]
              /\ updates[n].sample = s
              /\ \A m \in 1 .. Reached : updates[m].sample = s => m <= n

\* The invariants of the materializer hold at the start of a group with an offset.
LEMMA RecordsInit == ~FreshGroups /\ Init => MaterializerInv /\ OnlineInv
<1> SUFFICES ASSUME ~FreshGroups, Init PROVE MaterializerInv /\ OnlineInv
  OBVIOUS
<1> USE DEF Init, AssemblerInit, MaterializerInit
<1>1. MaterializerInv
  BY DEF MaterializerInv
<1>2. OnlineInv
  BY DEF OnlineInv, Reached
<1>3. QED
  BY <1>1, <1>2

\* Every step keeps the invariants of the materializer.
LEMMA RecordsStep ==
    TypeOK /\ MaterializerInv /\ OnlineInv /\ [Next]_vars
        => MaterializerInv' /\ OnlineInv'
<1> SUFFICES ASSUME TypeOK, MaterializerInv, OnlineInv, [Next]_vars
             PROVE  MaterializerInv' /\ OnlineInv'
  OBVIOUS
<1> USE DEF assemblerVars, materializerVars
<1>0. Len(updates) \in Nat /\ handled \in 0 .. Len(updates)
  BY LenProperties DEF TypeOK
<1>a. handled < Len(updates) => Record \in Published
  BY <1>0 DEF Record, Published
<1>b. \A n \in 1 .. Len(updates) : updates[n].sample \in Samples
  BY PublishedType DEF SnapshotType
<1>1. CASE SendUpdate /\ UNCHANGED <<materializerVars, evidence>>
  <2>1. /\ Len(updates') = Len(updates) + 1
        /\ \A n \in 1 .. Len(updates) : updates'[n] = updates[n]
        /\ Published \subseteq Published'
    BY <1>1, SendGrows, IssuedSends
  <2>2. step # "set" => Record' = Record /\ handled + 1 \in 1 .. Len(updates)
    BY <1>0, <1>1, <2>1 DEF TypeOK, Record
  <2>3. Reached' = Reached /\ Reached \in 0 .. Len(updates)
    BY <1>0, <1>1, <2>2 DEF Reached
  <2>4. MaterializerInv'
    BY <1>0, <1>1, <2>1, <2>2 DEF MaterializerInv
  <2>5. OnlineInv'
    BY <1>0, <1>1, <2>1, <2>3 DEF OnlineInv
  <2>6. QED
    BY <2>4, <2>5
<1>2. CASE SetOnline /\ UNCHANGED evidence
  <2>1. /\ online' = [online EXCEPT ![Record.sample] = Record]
        /\ step = "set" /\ step' = "persist"
        /\ handled + 1 \in 1 .. Len(updates)
        /\ UNCHANGED <<updates, rows, handled, committed, evidence>>
        /\ Record' = Record /\ Published' = Published
    BY <1>0, <1>2 DEF SetOnline, Record, Published
  <2>2. Record.sample \in Samples
    BY <1>b, <2>1 DEF Record
  <2>3. MaterializerInv'
    BY <1>0, <1>a, <2>1, <2>2 DEF MaterializerInv, TypeOK
  <2>4. OnlineInv'
    <3> SUFFICES ASSUME NEW s \in Samples
                 PROVE  \/ /\ online'[s] = Null
                           /\ \A m \in 1 .. handled + 1 : updates[m].sample # s
                        \/ \E n \in 1 .. Len(updates) :
                              /\ online'[s] = updates[n]
                              /\ updates[n].sample = s
                              /\ \A m \in 1 .. handled + 1 :
                                    updates[m].sample = s => m <= n
      BY <2>1 DEF OnlineInv, Reached
    <3>1. CASE s = Record.sample
      <4>1. online'[s] = updates[handled + 1] /\ updates[handled + 1].sample = s
        BY <2>1, <2>2, <3>1 DEF TypeOK, Record
      <4>2. \A m \in 1 .. handled + 1 : m <= handled + 1
        BY <1>0
      <4>3. QED
        BY <2>1, <4>1, <4>2
    <3>2. CASE s # Record.sample
      <4>1. online'[s] = online[s] /\ updates[handled + 1].sample # s
        BY <2>1, <2>2, <3>2 DEF TypeOK, Record
      <4>2. \A m \in 1 .. handled + 1 : m \in 1 .. handled \/ m = handled + 1
        BY <1>0
      <4>3. QED
        BY <2>1, <4>1, <4>2 DEF OnlineInv, Reached
    <3>3. QED
      BY <3>1, <3>2
  <2>5. QED
    BY <2>3, <2>4
<1>3. CASE Persist /\ UNCHANGED evidence
  <2>1. /\ handled + 1 \in 1 .. Len(updates)
        /\ step = "persist"
        /\ UNCHANGED <<updates, online, committed, evidence, handled>>
        /\ Record' = Record /\ Published' = Published
    BY <1>0, <1>3, OffsetAssumption
       DEF Persist, Record, Published, TypeOK, MaterializerInv, Resumes
  <2>2. /\ step' \in {"set", "commit"}
        /\ step' = "commit" => \E r \in rows' : r.id = Record.id
        /\ rows \subseteq rows' /\ rows' \subseteq rows \cup {Record}
    BY <1>3 DEF Persist, Resumes, SameId
  <2>3. MaterializerInv'
    BY <1>0, <1>a, <2>1, <2>2 DEF MaterializerInv
  <2>4. Reached' \in {handled, handled + 1} /\ Reached = handled + 1
    BY <2>1, <2>2 DEF Reached
  <2>5. 1 .. Reached' \subseteq 1 .. Reached
    BY <1>0, <2>4
  <2>6. OnlineInv'
    BY <2>1, <2>5 DEF OnlineInv
  <2>7. QED
    BY <2>3, <2>6
<1>4. CASE CommitRecord /\ UNCHANGED evidence
  <2>1. /\ step = "commit" /\ step' = "set"
        /\ handled' = handled + 1 /\ committed' = handled + 1
        /\ UNCHANGED <<updates, online, rows, evidence>>
        /\ Published' = Published
    BY <1>4 DEF CommitRecord, Published
  <2>2. \A n \in 1 .. handled + 1 : n \in 1 .. handled \/ n = handled + 1
    BY <1>0
  <2>3. MaterializerInv'
    BY <2>1, <2>2 DEF MaterializerInv, Record
  <2>4. Reached' = Reached
    BY <2>1 DEF Reached
  <2>5. OnlineInv'
    BY <2>1, <2>4 DEF OnlineInv
  <2>6. QED
    BY <2>3, <2>5
<1>5. CASE (Refuse \/ RestartMaterializer) /\ UNCHANGED evidence
  <2>1. /\ step' = "set" /\ handled' = handled
        /\ UNCHANGED <<updates, online, rows, committed, evidence>>
        /\ Published' = Published
    BY <1>0, <1>5, OffsetAssumption
       DEF Refuse, RestartMaterializer, Resumes, MaterializerInv, Published
  <2>2. MaterializerInv'
    BY <2>1 DEF MaterializerInv
  <2>3. 1 .. Reached' \subseteq 1 .. Reached
    BY <1>0, <2>1 DEF Reached
  <2>4. OnlineInv'
    BY <2>1, <2>3 DEF OnlineInv
  <2>5. QED
    BY <2>2, <2>4
<1>6. CASE \E s \in Samples : Predict(s)
  <2>1. PICK s \in Samples : Predict(s)
    BY <1>6
  <2>2. /\ online[s] # Null /\ evidence' = evidence \cup {online[s]}
        /\ UNCHANGED <<updates, online, rows, handled, committed, step>>
        /\ Record' = Record /\ Published' = Published /\ Reached' = Reached
    BY <2>1 DEF Predict, Record, Published, Reached
  <2>3. MaterializerInv' /\ OnlineInv'
    BY <2>2 DEF MaterializerInv, OnlineInv
  <2>4. QED
    BY <2>3
<1>7. CASE UNCHANGED <<updates, online, rows, handled, committed, step, evidence>>
  BY <1>7 DEF MaterializerInv, OnlineInv, Record, Published, Reached
<1>8. QED
  BY <1>1, <1>2, <1>3, <1>4, <1>5, <1>6, <1>7
     DEF Next, Assembler, AssemblerStep, Materializer, MaterializerStep, Restart,
         Process, SendChange, CommitInput, RestartAssembler, vars

\* A record that is committed has a row with its id.  When that row is another snapshot,
\* the task has died and has issued the identity a second time.
LEMMA JoinableFromInv == TypeOK /\ VersionInv /\ MaterializerInv => EvidenceJoinable
<1> SUFFICES ASSUME TypeOK, VersionInv, MaterializerInv, NEW e \in evidence
             PROVE  \/ \E r \in rows :
                          r.id = e.id /\ r.version = e.version /\ r.hash = e.hash
                    \/ \E n \in DOMAIN updates :
                          n > CommittedCount /\ updates[n].id = e.id
                                             /\ updates[n].hash = e.hash
                    \/ Reissued(e.id) /\ \E r \in rows : r.id = e.id
  BY DEF EvidenceJoinable
<1>1. /\ Len(updates) \in Nat /\ DOMAIN updates = 1 .. Len(updates)
      /\ handled \in 0 .. Len(updates) /\ CommittedCount = handled
  BY LenProperties, OffsetAssumption DEF TypeOK, MaterializerInv, CommittedCount
<1>2. PICK n \in 1 .. Len(updates) : e = updates[n]
  BY DEF MaterializerInv, Published
<1>3. CASE n > handled
  BY <1>1, <1>2, <1>3
<1>4. CASE n <= handled
  <2>1. PICK r \in rows : r.id = e.id
    BY <1>1, <1>2, <1>4 DEF MaterializerInv
  <2>2. PICK m \in 1 .. Len(updates) : r = updates[m]
    BY DEF MaterializerInv, Published
  <2>3. r \in Issued /\ e \in Issued
    BY <1>2, <2>2 DEF Issued, Published
  <2>4. r.sample = e.sample /\ r.version = e.version
    BY <2>1, <2>3 DEF VersionInv
  <2>5. CASE r.hash = e.hash
    BY <2>1, <2>4, <2>5
  <2>6. CASE r.hash # e.hash
    <3>1. assemblerRestarts # 0
      BY <2>3, <2>4, <2>6 DEF VersionInv
    <3>2. assemblerRestarts > 0
      BY <3>1, AssemblerAssumption DEF TypeOK
    <3>3. Reissued(e.id)
      BY <1>1, <1>2, <2>1, <2>2, <2>6, <3>2 DEF Reissued
    <3>4. QED
      BY <2>1, <3>3
  <2>7. QED
    BY <2>5, <2>6
<1>5. QED
  BY <1>1, <1>3, <1>4

\* Every prediction can be joined with the features it was made from, at every moment and
\* for any number of restarts of both processes, when the materializer's group has a
\* committed offset: only an identity that a restarted assembler gave to two snapshots
\* may lead to the row of the other one.
THEOREM EvidenceIsJoinable == ASSUME ~FreshGroups PROVE Spec => []EvidenceJoinable
<1>1. Init => MaterializerInv /\ OnlineInv
  BY RecordsInit
<1>2. QED
  BY <1>1, TypeInit, TypeStep, VersionInit, VersionStep, RecordsStep,
     JoinableFromInv, PTL DEF Spec

\* At the end of the topic, the newest record of a sample is the one that is online.
LEMMA LastFromInv == TypeOK /\ OnlineInv => OnlineIsLast
<1> SUFFICES ASSUME TypeOK, OnlineInv, handled = Len(updates), step = "set",
                    NEW s \in Samples
             PROVE  LET having == {n \in DOMAIN updates : updates[n].sample = s}
                    IN IF having = {} THEN online[s] = Null
                       ELSE online[s] = updates[CHOOSE n \in having :
                                                  \A m \in having : m <= n]
  BY DEF OnlineIsLast
<1> DEFINE having == {n \in DOMAIN updates : updates[n].sample = s}
           Last(n) == \A m \in having : m <= n
<1>1. /\ Len(updates) \in Nat /\ DOMAIN updates = 1 .. Len(updates)
      /\ Reached = Len(updates)
  BY LenProperties DEF TypeOK, Reached
<1>2. CASE having = {}
  BY <1>1, <1>2 DEF OnlineInv
<1>3. CASE having # {}
  <2>1. PICK n \in 1 .. Len(updates) :
           /\ online[s] = updates[n]
           /\ updates[n].sample = s
           /\ \A m \in 1 .. Len(updates) : updates[m].sample = s => m <= n
    BY <1>1, <1>3 DEF OnlineInv
  <2>2. n \in having /\ Last(n)
    BY <1>1, <2>1
  <2>3. \A k \in having : Last(k) => k = n
    BY <1>1, <2>2
  <2>4. (CHOOSE k \in having : Last(k)) = n
    BY <2>2, <2>3
  <2>5. QED
    BY <1>3, <2>1, <2>4
<1>4. QED
  BY <1>2, <1>3

\* A materializer that has caught up has the last snapshot of each sample online,
\* whatever restarts of both processes came in between.
THEOREM OnlineLast == ASSUME ~FreshGroups PROVE Spec => []OnlineIsLast
<1>1. Init => MaterializerInv /\ OnlineInv
  BY RecordsInit
<1>2. QED
  BY <1>1, TypeInit, TypeStep, RecordsStep, LastFromInv, PTL DEF Spec
-----------------------------------------------------------------------------
(* The materializer implements AtLeastOnceSink                             *)

SinkIds == Samples \X Int \X Nat
SinkLog == [n \in DOMAIN updates |-> updates[n].id]
SinkStored == {r.id : r \in rows}

\* The initial states are initial states of the sink.
LEMMA SinkInit == ~FreshGroups /\ Init => Sink!Init
<1> SUFFICES ASSUME ~FreshGroups, Init PROVE Sink!Init
  OBVIOUS
<1>1. SinkLog = << >>
  BY DEF SinkLog, Init, AssemblerInit
<1>2. QED
  BY <1>1, OffsetAssumption
     DEF Sink!Init, SinkLog, CommittedCount, Init, AssemblerInit, MaterializerInit

\* Each step is a Produce, a Store, a Commit or a stutter of the sink.
LEMMA SinkStep ==
    TypeOK /\ TypeOK' /\ MaterializerInv /\ MaterializerInv' /\ [Next]_vars
        => [Sink!Next]_<<SinkLog, SinkStored, CommittedCount>>
<1> SUFFICES ASSUME TypeOK, TypeOK', MaterializerInv, MaterializerInv', [Next]_vars
             PROVE  Sink!Next \/ UNCHANGED <<SinkLog, SinkStored, CommittedCount>>
  OBVIOUS
<1> USE DEF assemblerVars, materializerVars
<1>a. /\ Len(updates) \in Nat /\ DOMAIN updates = 1 .. Len(updates)
      /\ handled \in 0 .. Len(updates)
      /\ updates \in Seq(SnapshotType)
  BY LenProperties DEF TypeOK
<1>b. CommittedCount = handled /\ CommittedCount' = handled'
  <2>1. Len(updates') \in Nat
    BY LenProperties DEF TypeOK
  <2>2. handled \in Nat /\ handled' \in Nat
    BY <1>a, <2>1 DEF TypeOK
  <2>3. QED
    BY <2>2, OffsetAssumption DEF MaterializerInv, CommittedCount
<1>c. /\ DOMAIN SinkLog = 1 .. Len(updates)
      /\ \A n \in 1 .. Len(updates) : SinkLog[n] = updates[n].id
  BY <1>a DEF SinkLog
<1>1. CASE SendUpdate /\ UNCHANGED <<materializerVars, evidence>>
  <2>1. /\ Len(updates') = Len(updates) + 1
        /\ \A n \in 1 .. Len(updates) : updates'[n] = updates[n]
        /\ updates' \in Seq(SnapshotType)
        /\ DOMAIN updates' = 1 .. Len(updates) + 1
    BY <1>1, SendGrows, LenProperties DEF TypeOK
  <2>2. \A u \in SnapshotType : u.id \in SinkIds
    BY DEF SnapshotType, SinkIds
  <2>3. SinkLog \in Seq(SinkIds) /\ Len(SinkLog) = Len(updates)
    BY <1>a, <1>b, <1>c, <2>2, ElementOfSeq DEF SinkLog
  <2>4. SinkLog' \in Seq(SinkIds) /\ Len(SinkLog') = Len(updates) + 1
    BY <1>a, <1>b, <1>c, <2>1, <2>2, ElementOfSeq DEF SinkLog
  <2>5. \A n \in 1 .. Len(SinkLog) : SinkLog'[n] = SinkLog[n]
    BY <1>a, <1>b, <1>c, <2>1, <2>3 DEF SinkLog
  <2>6. SubSeq(SinkLog', 1, Len(SinkLog)) = SinkLog
    BY <1>a, <1>b, <1>c, <2>3, <2>4, <2>5
  <2>7. SinkStored' = SinkStored /\ CommittedCount' = CommittedCount
    BY <1>1 DEF SinkStored, CommittedCount
  <2>8. QED
    BY <2>3, <2>4, <2>6, <2>7
       DEF Sink!Next, Sink!Produce, SinkLog, SinkStored, SinkIds
<1>2. CASE Persist /\ UNCHANGED evidence
  <2>1. SinkLog' = SinkLog /\ handled' = handled
    BY <1>a, <1>b, <1>c, <1>2, OffsetAssumption
       DEF Persist, SinkLog, Resumes, MaterializerInv
  <2>2. handled + 1 \in 1 .. Len(updates) /\ SinkLog[handled + 1] = Record.id
    BY <1>a, <1>b, <1>c, <1>2 DEF Persist, TypeOK, Record
  <2>3. rows' = rows \/ rows' = rows \cup {Record}
    BY <1>2 DEF Persist
  <2>4. SinkStored' = SinkStored \/ SinkStored' = SinkStored \cup {SinkLog[handled + 1]}
    BY <2>2, <2>3 DEF SinkStored
  <2>5. CASE SinkStored' = SinkStored
    BY <1>b, <2>1, <2>5
  <2>6. CASE SinkStored' = SinkStored \cup {SinkLog[handled + 1]}
    <3>1. handled + 1 \in DOMAIN SinkLog /\ handled + 1 > CommittedCount
      BY <1>a, <1>b, <1>c, <2>2
    <3>2. CommittedCount' = CommittedCount
      BY <1>b, <2>1
    <3>3. Sink!Store
      BY <2>1, <2>6, <3>1, <3>2 DEF Sink!Store, SinkLog, SinkStored
    <3>4. QED
      BY <3>3 DEF Sink!Next
  <2>7. QED
    BY <2>4, <2>5, <2>6
<1>3. CASE CommitRecord /\ UNCHANGED evidence
  <2>1. /\ SinkLog' = SinkLog /\ SinkStored' = SinkStored
        /\ handled' = handled + 1
    BY <1>3 DEF CommitRecord, SinkLog, SinkStored
  <2>2. /\ handled + 1 \in 1 .. Len(updates)
        /\ SinkLog[handled + 1] \in SinkStored
    BY <1>a, <1>b, <1>c, <1>3
       DEF CommitRecord, TypeOK, MaterializerInv, SinkStored, Record
  <2>3. QED
    BY <1>a, <1>b, <1>c, <2>1, <2>2 DEF Sink!Next, Sink!Commit, SinkLog, SinkStored
<1>4. CASE (Refuse \/ RestartMaterializer) /\ UNCHANGED evidence
  BY <1>4 DEF Refuse, RestartMaterializer, SinkLog, SinkStored, CommittedCount
<1>5. CASE UNCHANGED <<updates, rows, committed>>
  BY <1>5 DEF SinkLog, SinkStored, CommittedCount
<1>6. QED
  BY <1>1, <1>2, <1>3, <1>4, <1>5
     DEF Next, Assembler, AssemblerStep, Materializer, MaterializerStep, Restart,
         Process, SendChange, CommitInput, RestartAssembler, SetOnline, Predict, vars

\* The materializer stores each record before its offset is passed, one by one, for any
\* number of restarts, when the group has a committed offset.
THEOREM SinkImplemented == ASSUME ~FreshGroups PROVE Spec => SinkSpec
<1>1. Init => MaterializerInv /\ OnlineInv
  BY RecordsInit
<1>2. Init => Sink!Init
  BY SinkInit
<1>3. QED
  BY <1>1, <1>2, TypeInit, TypeStep, RecordsStep, SinkStep, PTL
     DEF Spec, SinkSpec, Sink!Spec, SinkLog, SinkStored
=============================================================================
