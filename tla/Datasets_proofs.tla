---------------------------- MODULE Datasets_proofs ----------------------------
(***************************************************************************)
(* Proofs about Datasets, for any tables, windows and builders.            *)
(*                                                                         *)
(* An id determines the rows it was computed from (SameIdentity), so that  *)
(* it does not matter which builder has claimed the row of the catalogue   *)
(* and which one has marked it READY, as long as both have read what makes *)
(* that id (RowInv).  A reported row stays READY while builders follow one *)
(* another, since none of them works on it any more (AloneInv); where they *)
(* overlap it is one that failed on it that has made it FAILED.            *)
(***************************************************************************)
EXTENDS Datasets, FiniteSetTheorems, WellFoundedInduction, TLAPS

\* What a member of a training dataset for c is made from.
TrainingMemberOf(m, c, x, l) ==
    /\ m = [sample |-> x.sample, version |-> x.version, hash |-> x.hash, at |-> x.at,
            label |-> l, sound |-> x.sound]
    /\ c.start <= x.at /\ x.at < CohortEnd(c)
    /\ l # None => l.sample = x.sample /\ l.at <= c.cutoff

TrainingMembers(c, ms) ==
    /\ IsFiniteSet(ms)
    /\ TrainingReady(Summary(ms))
    /\ \A m \in ms : \E x \in Snapshots, l \in Labels \cup {None} : TrainingMemberOf(m, c, x, l)
    /\ \A m, n \in ms : m.sample = n.sample => m = n

GateMemberOf(m, c, p, x, l) ==
    /\ m = [id |-> p.id, predicted |-> p.at, sample |-> p.sample, version |-> p.version,
            hash |-> p.hash, slot |-> "release", at |-> x.at, label |-> l, sound |-> x.sound]
    /\ SameSnapshot(p, x) /\ x.at <= p.at
    /\ c.start <= p.at /\ p.at < CohortEnd(c)
    /\ l # None => l.sample = p.sample /\ l.at <= c.cutoff

GateMembers(c, ms) ==
    /\ IsFiniteSet(ms)
    /\ GateReady(GateSummary(ms))
    /\ \A m \in ms : \E p \in Decisions, x \in Snapshots, l \in Labels \cup {None} :
            GateMemberOf(m, c, p, x, l)

\* Both kinds of dataset.
Members(k, c, ms) == IF k = "training" THEN TrainingMembers(c, ms) ELSE GateMembers(c, ms)

Identity(k, c, ms) == IF k = "training" THEN TrainingIdentity(c, ms) ELSE GateIdentity(c, ms)

Stats(k, ms) == IF k = "training" THEN Summary(ms) ELSE GateSummary(ms)

RowStats(k, s) ==
    IF k = "training" THEN s ELSE [f \in DOMAIN s \ {"samples"} |-> s[f]]

RowOf(k, c, s) == IF k = "training" THEN TrainingRow(c, s) ELSE GateRow(c, s)

Raises(k, ms) == IF k = "training" THEN FrameRaises(ms) ELSE GateFrameRaises(ms)

Made(k, c, id, ms, s) ==
    IF k = "training" THEN Artifacts(Frame(id, ms), Manifest(c, id, s))
    ELSE Artifacts(GateFrame(id, ms), GateManifest(c, id, s))

-----------------------------------------------------------------------------
(* The invariant                                                           *)

Ends == {"READY", "REUSED", "FAILED", "SKIPPED", "RAISED", "UNRECORDED", "KILLED"}

RowsInv ==
    /\ snapshots \subseteq Snapshots /\ labels \subseteq Labels /\ decisions \subseteq Decisions
    /\ \A x \in snapshots, y \in Snapshots \ snapshots :
            x.sample = y.sample => x.version < y.version

TypeInv ==
    /\ kind \in {"training", "gate"}
    /\ overlap \in BOOLEAN
    /\ artifacts = [b \in Builders |-> artifacts[b]]
    /\ pc \in [Builders -> {"idle"} \cup Steps \cup Ends]
    /\ ctx = [b \in Builders |-> ctx[b]]
    /\ \A b \in Builders : pc[b] # "idle" =>
        /\ ctx[b] = [config |-> ctx[b].config, id |-> ctx[b].id, stats |-> ctx[b].stats,
                     members |-> ctx[b].members]
        /\ ctx[b].config \in Configs
        /\ pc[b] = "read" => ctx[b].members = {}

HasRead(b) ==
    /\ pc[b] \notin {"idle", "read"}
    /\ ctx[b].config \in Configs
    /\ Members(kind, ctx[b].config, ctx[b].members)
    /\ ctx[b].id = Identity(kind, ctx[b].config, ctx[b].members)
    /\ ctx[b].stats = Stats(kind, ctx[b].members)

Persisted(b) ==
    /\ HasRead(b)
    /\ pc[b] \notin {"claim", "lookup", "persist"}
    /\ ~Raises(kind, ctx[b].members)
    /\ artifacts[b] = Made(kind, ctx[b].config, ctx[b].id, ctx[b].members, ctx[b].stats)

ContextInv ==
    \A b \in Builders :
        /\ pc[b] \in {"claim", "lookup", "persist", "ready", "failed", "READY", "REUSED"} =>
                HasRead(b)
        /\ pc[b] = "ready" => Persisted(b)
        /\ pc[b] \in {"persist", "ready", "failed"} => ctx[b].id \in DOMAIN catalogue

\* A row is what one builder has claimed and, when it is READY, another one has marked.
RowFields == {"status", "start", "cutoff", "stats", "run", "sha"}

ClaimedBy(b, id) ==
    /\ HasRead(b) /\ ctx[b].id = id
    /\ DOMAIN catalogue[id] = RowFields
    /\ catalogue[id].start = ctx[b].config.start
    /\ catalogue[id].cutoff = ctx[b].config.cutoff
    /\ catalogue[id].stats = RowStats(kind, ctx[b].stats)

MarkedBy(b, id) ==
    /\ Persisted(b) /\ ctx[b].id = id
    /\ catalogue[id].run = b /\ catalogue[id].sha = artifacts[b].sha

RowInv ==
    \A id \in DOMAIN catalogue :
        /\ \E b \in Builders : ClaimedBy(b, id)
        /\ IsReady(id) => \E b \in Builders : MarkedBy(b, id)

ReportedInv ==
    \A id \in Reported : IsReady(id) \/ (overlap /\ FailedOn(id) # {})

SerialInv ==
    /\ ~overlap => \A a, b \in Builders : Running(a) /\ Running(b) => a = b
    /\ \A a, b \in Builders : a < b /\ pc[b] # "idle" => pc[a] # "idle"

AloneInv ==
    ~overlap => \A b \in Builders :
        pc[b] \in {"persist", "ready", "failed"} => ctx[b].id \notin Reported

\* What a training builder has read as the first complete snapshot of a sample still is.
FirstInv ==
    kind = "training" =>
        \A b \in Builders : pc[b] # "idle" =>
            \A m \in ctx[b].members : \E x \in FirstComplete :
                m.sample = x.sample /\ m.version = x.version /\ m.at = x.at

IInv ==
    /\ RowsInv /\ TypeInv /\ ContextInv /\ RowInv
    /\ ReportedInv /\ SerialInv /\ AloneInv /\ FirstInv
-----------------------------------------------------------------------------
(* Members and what of them is in an id                                    *)

\* A member without sound, as it is in the file and in the identity.
LEMMA TrainingRecord ==
    ASSUME NEW c, NEW x, NEW l, NEW m, TrainingMemberOf(m, c, x, l)
    PROVE  IdentityRecord(m) = [sample |-> m.sample, version |-> m.version, hash |-> m.hash,
                                at |-> m.at, label |-> m.label]
BY DEF IdentityRecord, TrainingMemberOf

LEMMA GateRecord ==
    ASSUME NEW c, NEW p, NEW x, NEW l, NEW m, GateMemberOf(m, c, p, x, l)
    PROVE  GateIdentityRecord(m) =
                [id |-> m.id, predicted |-> m.predicted, sample |-> m.sample,
                 version |-> m.version, hash |-> m.hash, slot |-> m.slot, at |-> m.at,
                 label |-> m.label]
BY DEF GateIdentityRecord, GateMemberOf

\* Whether a payload is sound is a matter of the snapshot, so that the record says it.
LEMMA TrainingRecordDetermines ==
    ASSUME NEW c, NEW d, NEW x \in Snapshots, NEW y \in Snapshots, NEW l, NEW k, NEW m, NEW n,
           TrainingMemberOf(m, c, x, l), TrainingMemberOf(n, d, y, k),
           IdentityRecord(m) = IdentityRecord(n)
    PROVE  m = n
<1>1. /\ m.sample = n.sample /\ m.version = n.version /\ m.hash = n.hash
      /\ m.at = n.at /\ m.label = n.label
  BY TrainingRecord
<1>2. x = y
  BY <1>1, RowsAssumption DEF TrainingMemberOf
<1>3. QED
  BY <1>1, <1>2 DEF TrainingMemberOf

LEMMA GateRecordDetermines ==
    ASSUME NEW c, NEW d, NEW p, NEW q, NEW x \in Snapshots, NEW y \in Snapshots, NEW l, NEW k,
           NEW m, NEW n, GateMemberOf(m, c, p, x, l), GateMemberOf(n, d, q, y, k),
           GateIdentityRecord(m) = GateIdentityRecord(n)
    PROVE  m = n
<1>1. /\ m.id = n.id /\ m.predicted = n.predicted /\ m.sample = n.sample
      /\ m.version = n.version /\ m.hash = n.hash /\ m.slot = n.slot
      /\ m.at = n.at /\ m.label = n.label
  BY GateRecord
<1>2. x = y
  BY <1>1, RowsAssumption DEF GateMemberOf, SameSnapshot
<1>3. QED
  BY <1>1, <1>2 DEF GateMemberOf

\* A config of a row agrees with the config of any other builder of the same id.
LEMMA SameIdentity ==
    ASSUME NEW k, NEW c \in Configs, NEW d \in Configs, NEW ms, NEW ns,
           Members(k, c, ms), Members(k, d, ns), Identity(k, c, ms) = Identity(k, d, ns)
    PROVE  ms = ns /\ c.start = d.start /\ c.cutoff = d.cutoff
<1>1. CASE k = "training"
  <2>1. {IdentityRecord(m) : m \in ms} = {IdentityRecord(m) : m \in ns} /\ c.start = d.start
    BY <1>1 DEF Identity, TrainingIdentity
  <2>2. \A m \in ms, n \in ns : IdentityRecord(m) = IdentityRecord(n) => m = n
    BY <1>1, TrainingRecordDetermines DEF Members, TrainingMembers
  <2>3. \A m \in ms : m \in ns
    BY <2>1, <2>2
  <2>4. \A m \in ns : m \in ms
    BY <2>1, <2>2
  <2>5. QED
    BY <2>1, <2>3, <2>4, ConfigsAssumption
<1>2. CASE k # "training"
  <2>1. /\ {GateIdentityRecord(m) : m \in ms} = {GateIdentityRecord(m) : m \in ns}
        /\ c.start = d.start /\ CohortEnd(c) = CohortEnd(d)
    BY <1>2 DEF Identity, GateIdentity
  <2>2. \A m \in ms, n \in ns : GateIdentityRecord(m) = GateIdentityRecord(n) => m = n
    BY <1>2, GateRecordDetermines DEF Members, GateMembers
  <2>3. \A m \in ms : m \in ns
    BY <2>1, <2>2
  <2>4. \A m \in ns : m \in ms
    BY <2>1, <2>2
  <2>5. QED
    BY <2>1, <2>3, <2>4, ConfigsAssumption
<1>3. QED
  BY <1>1, <1>2

\* Sets that a function maps one to one have the same number of members.
LEMMA SameSize ==
    ASSUME NEW S, NEW T, NEW f, IsFiniteSet(S),
           f = [x \in S |-> f[x]], T = {f[x] : x \in S},
           \A x, y \in S : f[x] = f[y] => x = y
    PROVE  IsFiniteSet(T) /\ Cardinality(T) = Cardinality(S)
<1>1. f \in [S -> T]
  <2>1. \A x \in S : f[x] \in T
    OBVIOUS
  <2>2. QED
    BY <2>1
<1>2. f \in Injection(S, T)
  BY <1>1 DEF Injection, IsInjective
<1>3. f \in Surjection(S, T)
  BY <1>1 DEF Surjection
<1>4. f \in Bijection(S, T)
  BY <1>2, <1>3 DEF Bijection
<1>5. QED
  BY <1>4, FS_Bijection DEF ExistsBijection

\* The counts of a file are those of the members that it is written from.
LEMMA TrainingSize ==
    ASSUME NEW c, NEW ms, TrainingMembers(c, ms), NEW T \in SUBSET ms
    PROVE  Cardinality({IdentityRecord(m) : m \in T}) = Cardinality(T)
<1> DEFINE f == [m \in T |-> IdentityRecord(m)]
<1>1. IsFiniteSet(T)
  BY FS_Subset DEF TrainingMembers
<1>2. \A m, n \in T : f[m] = f[n] => m = n
  BY TrainingRecordDetermines DEF TrainingMembers
<1>3. {IdentityRecord(m) : m \in T} = {f[m] : m \in T}
  OBVIOUS
<1>4. f = [m \in T |-> f[m]]
  OBVIOUS
<1> HIDE DEF f
<1>5. QED
  BY <1>1, <1>2, <1>3, <1>4, SameSize

LEMMA TrainingLabel ==
    ASSUME NEW c, NEW ms, TrainingMembers(c, ms), NEW m \in ms
    PROVE  IdentityRecord(m).label = m.label /\ IdentityRecord(m).sample = m.sample
BY TrainingRecord DEF TrainingMembers

LEMMA SummaryOfRecords ==
    ASSUME NEW c, NEW ms, TrainingMembers(c, ms)
    PROVE  Summary({IdentityRecord(m) : m \in ms}) = Summary(ms)
<1> DEFINE rs == {IdentityRecord(m) : m \in ms}
           Of(v) == {m \in Labeled(ms) : m.label.value = v}
<1>1. Labeled(rs) = {IdentityRecord(m) : m \in Labeled(ms)}
  BY TrainingLabel DEF Labeled
<1>2. ASSUME NEW v
      PROVE  {r \in Labeled(rs) : r.label.value = v} = {IdentityRecord(m) : m \in Of(v)}
  <2>1. \A m \in Labeled(ms) : IdentityRecord(m).label = m.label
    BY TrainingLabel DEF Labeled
  <2>2. QED
    BY <1>1, <2>1
<1>3. Labeled(ms) \subseteq ms /\ \A v : Of(v) \subseteq ms
  BY DEF Labeled
<1>4. /\ Cardinality(rs) = Cardinality(ms)
      /\ Cardinality(Labeled(rs)) = Cardinality(Labeled(ms))
  BY <1>1, <1>3, TrainingSize
<1>5. ASSUME NEW v
      PROVE  Cardinality({r \in Labeled(rs) : r.label.value = v}) = Cardinality(Of(v))
  BY <1>2, <1>3, TrainingSize
<1>6. QED
  BY <1>4, <1>5 DEF Summary

LEMMA GateSize ==
    ASSUME NEW c, NEW ms, GateMembers(c, ms), NEW T \in SUBSET ms
    PROVE  Cardinality({GateIdentityRecord(m) : m \in T}) = Cardinality(T)
<1> DEFINE f == [m \in T |-> GateIdentityRecord(m)]
<1>1. IsFiniteSet(T)
  BY FS_Subset DEF GateMembers
<1>2. \A m, n \in T : f[m] = f[n] => m = n
  BY GateRecordDetermines DEF GateMembers
<1>3. {GateIdentityRecord(m) : m \in T} = {f[m] : m \in T}
  OBVIOUS
<1>4. f = [m \in T |-> f[m]]
  OBVIOUS
<1> HIDE DEF f
<1>5. QED
  BY <1>1, <1>2, <1>3, <1>4, SameSize

LEMMA GateRecordFields ==
    ASSUME NEW c, NEW ms, GateMembers(c, ms), NEW m \in ms
    PROVE  /\ GateIdentityRecord(m).label = m.label /\ GateIdentityRecord(m).slot = "release"
           /\ GateIdentityRecord(m).sample = m.sample
           /\ GateIdentityRecord(m).version = m.version
<1>1. PICK p \in Decisions, x \in Snapshots, l \in Labels \cup {None} :
            GateMemberOf(m, c, p, x, l)
  BY DEF GateMembers
<1>2. QED
  BY <1>1, GateRecord DEF GateMemberOf

LEMMA GateSummaryOfRecords ==
    ASSUME NEW c, NEW ms, GateMembers(c, ms)
    PROVE  LET s == GateSummary({GateIdentityRecord(m) : m \in ms})
           IN  s.eligible = GateSummary(ms).eligible /\ s.labeled = GateSummary(ms).labeled
<1> DEFINE rs == {GateIdentityRecord(m) : m \in ms}
<1>1. Labeled(rs) = {GateIdentityRecord(m) : m \in Labeled(ms)}
  BY GateRecordFields DEF Labeled
<1>2. Labeled(ms) \subseteq ms
  BY DEF Labeled
<1>3. /\ Cardinality(rs) = Cardinality(ms)
      /\ Cardinality(Labeled(rs)) = Cardinality(Labeled(ms))
  BY <1>1, <1>2, GateSize
<1>4. QED
  BY <1>3 DEF GateSummary

\* There is something in a dataset that is ready.
LEMMA ReadyHasMembers ==
    ASSUME NEW k, NEW c, NEW ms, Members(k, c, ms)
    PROVE  /\ ms # {}
           /\ \A v \in {"fail", "pass"} :
                \E m \in ms : m.label # None /\ m.label.value = v
<1> DEFINE Of(v) == {m \in Labeled(ms) : m.label.value = v}
<1>1. IsFiniteSet(ms) /\ \A v : Of(v) \in SUBSET ms
  BY DEF Members, TrainingMembers, GateMembers, Labeled
<1>2. \A v : IsFiniteSet(Of(v))
  BY <1>1, FS_Subset
<1>3. Cardinality(Of("fail")) >= MinFail /\ Cardinality(Of("pass")) >= MinPass
  BY DEF Members, TrainingMembers, GateMembers, GateReady, TrainingReady, Summary, GateSummary
<1>4. MinFail > 0 /\ MinPass > 0 /\ Cardinality({}) = 0
  BY FS_EmptySet, MinimaAssumption
<1> HIDE DEF Of
<1>5. Of("fail") # {} /\ Of("pass") # {}
  BY <1>3, <1>4, MinimaAssumption
<1> USE DEF Of
<1>6. QED
  BY <1>5 DEF Labeled

LEMMA TrainingVerifies ==
    ASSUME NEW c, NEW ms, TrainingMembers(c, ms), ~FrameRaises(ms), NEW id, NEW row, NEW art,
           id = TrainingIdentity(c, ms),
           art = Artifacts(Frame(id, ms), Manifest(c, id, Summary(ms))),
           row.start = c.start, row.cutoff = c.cutoff, row.stats = Summary(ms),
           row.sha = art.sha
    PROVE  TrainingVerified(id, row, art) /\ {r.member : r \in art.frame} = id.members
<1>1. /\ art.manifest.identity = id /\ art.sha = art.frame /\ art.manifest.stats = Summary(ms)
      /\ art.manifest.cutoff = c.cutoff
      /\ art.frame = {[dataset |-> id, member |-> IdentityRecord(m)] : m \in ms}
  BY DEF Artifacts, Manifest, Frame, IdentityRecord
<1>2. {r.member : r \in art.frame} = {IdentityRecord(m) : m \in ms}
  <2>1. \A r \in art.frame : \E m \in ms : r.member = IdentityRecord(m)
    BY <1>1
  <2>2. ASSUME NEW m \in ms PROVE \E r \in art.frame : r.member = IdentityRecord(m)
    <3>1. [dataset |-> id, member |-> IdentityRecord(m)] \in art.frame
      BY <1>1
    <3>2. QED
      BY <3>1
  <2>3. QED
    BY <2>1, <2>2
<1>3. id.members = {IdentityRecord(m) : m \in ms} /\ id.start = c.start
  BY DEF TrainingIdentity
<1>4. art.frame # {}
  <2>1. Members("training", c, ms)
    BY DEF Members
  <2>2. PICK m \in ms : TRUE
    BY <2>1, ReadyHasMembers
  <2>3. [dataset |-> id, member |-> IdentityRecord(m)] \in art.frame
    BY <1>1
  <2>4. QED
    BY <2>3
<1>5. \A r, q \in art.frame : r.member.sample = q.member.sample => r = q
  <2> SUFFICES ASSUME NEW m \in ms, NEW n \in ms,
                      IdentityRecord(m).sample = IdentityRecord(n).sample
               PROVE  m = n
    BY <1>1
  <2>1. QED
    BY TrainingLabel DEF TrainingMembers
<1>6. \A r \in art.frame : r.dataset = id
  BY <1>1
<1> DEFINE rs == {r.member : r \in art.frame}
<1>7. Summary(rs) = Summary(ms)
  BY <1>2, SummaryOfRecords
<1>8. TrainingVerified(id, row, art)
  BY <1>1, <1>3, <1>4, <1>5, <1>6, <1>7 DEF TrainingVerified
<1>9. QED
  BY <1>2, <1>3, <1>8

LEMMA GateVerifies ==
    ASSUME NEW c, NEW ms, GateMembers(c, ms), ~GateFrameRaises(ms), NEW id, NEW row, NEW art,
           id = GateIdentity(c, ms),
           art = Artifacts(GateFrame(id, ms), GateManifest(c, id, GateSummary(ms))),
           row.stats.eligible = GateSummary(ms).eligible,
           row.stats.labeled = GateSummary(ms).labeled, row.sha = art.sha
    PROVE  GateVerified(id, row, art) /\ {r.member : r \in art.frame} = id.members
<1>1. /\ art.manifest.identity = id /\ art.sha = art.frame
      /\ art.manifest.stats = GateSummary(ms)
      /\ art.frame = {[dataset |-> id, member |-> GateIdentityRecord(m)] : m \in ms}
  BY DEF Artifacts, GateManifest, GateFrame
<1>2. {r.member : r \in art.frame} = {GateIdentityRecord(m) : m \in ms}
  <2>1. \A r \in art.frame : \E m \in ms : r.member = GateIdentityRecord(m)
    BY <1>1
  <2>2. ASSUME NEW m \in ms PROVE \E r \in art.frame : r.member = GateIdentityRecord(m)
    <3>1. [dataset |-> id, member |-> GateIdentityRecord(m)] \in art.frame
      BY <1>1
    <3>2. QED
      BY <3>1
  <2>3. QED
    BY <2>1, <2>2
<1>3. id.members = {GateIdentityRecord(m) : m \in ms}
  BY DEF GateIdentity
<1>4. art.frame # {}
  <2>1. Members("gate", c, ms)
    BY DEF Members
  <2>2. PICK m \in ms : TRUE
    BY <2>1, ReadyHasMembers
  <2>3. [dataset |-> id, member |-> GateIdentityRecord(m)] \in art.frame
    BY <1>1
  <2>4. QED
    BY <2>3
<1>5. \A r \in art.frame : r.dataset = id /\ r.member.slot = "release"
  BY <1>1, GateRecordFields
<1>6. \A r, q \in art.frame : SameSnapshot(r.member, q.member) => r = q
  BY <1>1, GateRecordFields DEF GateFrameRaises, SameSnapshot
<1>7. QED
  BY <1>1, <1>2, <1>3, <1>4, <1>5, <1>6, GateSummaryOfRecords DEF GateVerified

-----------------------------------------------------------------------------
(* What a builder reads                                                    *)

\* The label at a cutoff exists, as there are finitely many.
LEMMA LatestExists ==
    ASSUME NEW S \in SUBSET Labels, S # {}
    PROVE  \E l \in S : \A k \in S : k.revision <= l.revision
<1> DEFINE Has(T) == \E l \in T : \A k \in T : k.revision <= l.revision
           Without == {T \in FiniteSubsetsOf(Labels) : T # {} /\ ~Has(T)}
<1>1. Without = {}
  <2> SUFFICES ASSUME Without # {} PROVE FALSE
    OBVIOUS
  <2>1. PICK T \in Without :
            \A U \in Without : <<U, T>> \notin StrictSubsetOrdering(Labels)
    <3>1. Without \subseteq FiniteSubsetsOf(Labels)
      OBVIOUS
    <3> HIDE DEF Without
    <3>2. QED
      BY <3>1, FS_StrictSubsetOrderingWellFounded, WFMin
  <2>2. PICK l \in T : TRUE
    OBVIOUS
  <2> DEFINE U == T \ {l}
  <2>3. U \in FiniteSubsetsOf(Labels) /\ <<U, T>> \in StrictSubsetOrdering(Labels)
    BY <2>2, FS_RemoveElement DEF FiniteSubsetsOf, StrictSubsetOrdering
  <2>4. U = {} \/ Has(U)
    BY <2>1, <2>3
  <2>5. \A k \in T : k.revision \in Nat
    BY RowsAssumption DEF FiniteSubsetsOf
  <2>6. CASE U = {}
    <3>1. \A k \in T : k = l
      BY <2>6
    <3>2. QED
      BY <2>2, <2>5, <3>1
  <2>7. CASE Has(U)
    <3>1. PICK k \in U : \A j \in U : j.revision <= k.revision
      BY <2>7
    <3>2. \A j \in T : j = l \/ j \in U
      OBVIOUS
    <3>3. CASE k.revision <= l.revision
      <4>1. \A j \in T : j.revision <= l.revision
        BY <2>5, <3>1, <3>2, <3>3
      <4>2. QED
        BY <2>2, <4>1
    <3>4. CASE l.revision <= k.revision
      <4>1. \A j \in T : j.revision <= k.revision
        BY <2>5, <3>1, <3>2, <3>4
      <4>2. QED
        BY <3>1, <4>1
    <3>5. QED
      BY <2>5, <3>1, <3>3, <3>4
  <2>8. QED
    BY <2>4, <2>6, <2>7
<1>2. S \in FiniteSubsetsOf(Labels)
  BY FS_Subset, RowsAssumption DEF FiniteSubsetsOf
<1>3. QED
  BY <1>1, <1>2

LEMMA LabelFacts ==
    ASSUME RowsInv, NEW s, NEW t
    PROVE  /\ LabelAt(s, t) \in Labels \cup {None}
           /\ LabelAt(s, t) # None => LabelAt(s, t).sample = s /\ LabelAt(s, t).at <= t
<1>1. CASE LabelsAt(s, t) = {}
  BY <1>1 DEF LabelAt
<1>2. CASE LabelsAt(s, t) # {}
  <2>1. LabelsAt(s, t) \in SUBSET Labels
    BY DEF LabelsAt, RowsInv
  <2>2. \E l \in LabelsAt(s, t) : \A k \in LabelsAt(s, t) : k.revision <= l.revision
    BY <1>2, <2>1, LatestExists
  <2>3. LabelAt(s, t) \in LabelsAt(s, t)
    BY <1>2, <2>2 DEF LabelAt
  <2>4. QED
    BY <2>1, <2>3 DEF LabelsAt
<1>3. QED
  BY <1>1, <1>2

\* One snapshot of a sample is its first complete one.
LEMMA FirstIsUnique ==
    ASSUME RowsInv
    PROVE  /\ FirstComplete \subseteq Snapshots
           /\ \A x, y \in FirstComplete : x.sample = y.sample => x = y
<1>1. FirstComplete \subseteq snapshots /\ snapshots \subseteq Snapshots
  BY DEF FirstComplete, RowsInv
<1>2. ASSUME NEW x \in FirstComplete, NEW y \in FirstComplete, x.sample = y.sample
      PROVE  x = y
  <2>1. x.at < y.at \/ (x.at = y.at /\ x.version <= y.version)
    BY <1>2 DEF FirstComplete
  <2>2. y.at < x.at \/ (y.at = x.at /\ y.version <= x.version)
    BY <1>2 DEF FirstComplete
  <2>3. x.at \in Nat /\ y.at \in Nat /\ x.version \in Nat /\ y.version \in Nat
    BY <1>1, RowsAssumption
  <2>4. x.version = y.version
    BY <2>1, <2>2, <2>3
  <2>5. QED
    BY <1>1, <1>2, <2>4, RowsAssumption
<1>3. QED
  BY <1>1, <1>2

LEMMA TrainingCohortMembers ==
    ASSUME RowsInv, NEW c
    PROVE  /\ IsFiniteSet(TrainingCohort(c))
           /\ \A m \in TrainingCohort(c) : \E x \in FirstComplete :
                TrainingMemberOf(m, c, x, LabelAt(x.sample, c.cutoff))
<1> DEFINE S == {x \in FirstComplete : c.start <= x.at /\ x.at < CohortEnd(c)}
           f == [x \in S |-> TrainingMember(x, c)]
<1>1. IsFiniteSet(S)
  BY FirstIsUnique, RowsAssumption, FS_Subset
<1>2. \A x, y \in S : f[x] = f[y] => x = y
  BY FirstIsUnique DEF TrainingMember
<1>3. TrainingCohort(c) = {f[x] : x \in S}
  BY DEF TrainingCohort
<1>4. \A x \in S : TrainingMemberOf(f[x], c, x, LabelAt(x.sample, c.cutoff))
  BY LabelFacts DEF TrainingMember, TrainingMemberOf
<1>5. f = [x \in S |-> f[x]]
  OBVIOUS
<1>6. S \subseteq FirstComplete
  OBVIOUS
<1> HIDE DEF f, S
<1>7. IsFiniteSet(TrainingCohort(c))
  BY <1>1, <1>2, <1>3, <1>5, SameSize
<1>8. QED
  BY <1>3, <1>4, <1>6, <1>7

LEMMA TrainingReadHolds ==
    ASSUME RowsInv, NEW c, TrainingReady(Summary(TrainingCohort(c)))
    PROVE  TrainingMembers(c, TrainingCohort(c))
<1> DEFINE ms == TrainingCohort(c)
<1>1. \A m \in ms : \E x \in Snapshots, l \in Labels \cup {None} : TrainingMemberOf(m, c, x, l)
  BY TrainingCohortMembers, FirstIsUnique, LabelFacts
<1>2. ASSUME NEW m \in ms, NEW n \in ms, m.sample = n.sample PROVE m = n
  <2>1. PICK x \in FirstComplete : TrainingMemberOf(m, c, x, LabelAt(x.sample, c.cutoff))
    BY TrainingCohortMembers
  <2>2. PICK y \in FirstComplete : TrainingMemberOf(n, c, y, LabelAt(y.sample, c.cutoff))
    BY TrainingCohortMembers
  <2>3. x = y
    BY <1>2, <2>1, <2>2, FirstIsUnique DEF TrainingMemberOf
  <2>4. QED
    BY <2>1, <2>2, <2>3 DEF TrainingMemberOf
<1>3. QED
  BY <1>1, <1>2, TrainingCohortMembers DEF TrainingMembers

LEMMA GateReadHolds ==
    ASSUME RowsInv, NEW c, GateReady(GateSummary(GateCohort(c))),
           \A p \in DecisionCohort(c) : ~DecisionRefused(p)
    PROVE  GateMembers(c, GateCohort(c))
<1> DEFINE S == DecisionCohort(c)
           f == [p \in S |-> GateMember(p, c)]
           T == {GateMember(p, c) : p \in S}
<1>1. S \subseteq decisions /\ decisions \subseteq Decisions
  BY DEF DecisionCohort, FirstDecision, Release, RowsInv
<1>2. ASSUME NEW p \in S
      PROVE  \E x \in Snapshots : GateMemberOf(GateMember(p, c), c, p, x, LabelAt(p.sample, c.cutoff))
  <2>1. ~DecisionRefused(p)
    OBVIOUS
  <2> DEFINE x == CHOOSE y \in Joined(p) : TRUE
  <2>2. x \in Joined(p)
    BY <2>1 DEF DecisionRefused
  <2> HIDE DEF x
  <2>3. x \in Snapshots /\ SameSnapshot(p, x)
    BY <2>2 DEF Joined, RowsInv
  <2>4. x.at \in Nat /\ p.at \in Nat /\ x.at <= p.at
    BY <1>1, <2>1, <2>2, <2>3, RowsAssumption DEF DecisionRefused
  <2>5. p.slot = "release" /\ c.start <= p.at /\ p.at < CohortEnd(c)
    BY DEF DecisionCohort, FirstDecision, Release
  <2>6. GateMember(p, c) =
           [id |-> p.id, predicted |-> p.at, sample |-> p.sample, version |-> p.version,
            hash |-> p.hash, slot |-> p.slot, at |-> x.at,
            label |-> LabelAt(p.sample, c.cutoff), sound |-> x.sound]
    BY DEF GateMember, x
  <2>7. QED
    BY <2>3, <2>4, <2>5, <2>6, LabelFacts DEF GateMemberOf
<1>3. GateCohort(c) = {f[p] : p \in S} /\ f \in Surjection(S, GateCohort(c))
  <2>1. GateCohort(c) = {f[p] : p \in S}
    BY DEF GateCohort
  <2>2. f \in [S -> GateCohort(c)]
    BY DEF GateCohort
  <2>3. QED
    BY <2>1, <2>2 DEF Surjection
<1>4. IsFiniteSet(GateCohort(c))
  BY <1>1, <1>3, RowsAssumption, FS_Subset, FS_Surjection
<1>5. ASSUME NEW m \in GateCohort(c)
      PROVE  \E p \in Decisions, x \in Snapshots, l \in Labels \cup {None} :
                GateMemberOf(m, c, p, x, l)
  <2>1. PICK p \in S : m = GateMember(p, c)
    BY DEF GateCohort
  <2>2. QED
    BY <1>1, <1>2, <2>1, LabelFacts
<1>6. QED
  BY <1>4, <1>5 DEF GateMembers

-----------------------------------------------------------------------------
(* Tables                                                                  *)

LEMMA InitHolds == Init => IInv
<1> SUFFICES ASSUME Init PROVE IInv
  OBVIOUS
<1> USE DEF Init, RowsInit, CatalogueInit
<1>1. RowsInv
  <2>1. \A x \in Snapshots \ Late, y \in Snapshots \cap Late :
            x.sample = y.sample => x.version < y.version
    BY RowsAssumption
  <2>2. QED
    BY <2>1 DEF RowsInv
<1>2. TypeInv
  BY DEF TypeInv
<1>3. ContextInv /\ RowInv /\ ReportedInv /\ SerialInv
  BY DEF ContextInv, RowInv, ReportedInv, Reported, SerialInv, Running, Steps
<1>4. AloneInv /\ FirstInv
  BY DEF AloneInv, FirstInv
<1>5. QED
  BY <1>1, <1>2, <1>3, <1>4 DEF IInv

\* Snapshots of a sample are committed in the order of their versions: the first complete
\* one stays the first.
LEMMA CommitRows ==
    ASSUME RowsInv, CommitSnapshot \/ CommitLabel \/ CommitDecision
    PROVE  RowsInv' /\ FirstComplete \subseteq FirstComplete'
<1>1. CASE CommitSnapshot
  <2>1. PICK x \in Snapshots \ snapshots :
            /\ \A y \in Snapshots \ snapshots : y.sample = x.sample => x.version <= y.version
            /\ snapshots' = snapshots \cup {x}
            /\ UNCHANGED <<labels, decisions>>
    BY <1>1 DEF CommitSnapshot
  <2>2. ASSUME NEW y \in snapshots', NEW z \in Snapshots \ snapshots', y.sample = z.sample
        PROVE  y.version < z.version
    <3>1. CASE y = x
      BY <2>1, <2>2, <3>1, RowsAssumption
    <3>2. CASE y # x
      BY <2>1, <2>2, <3>2 DEF RowsInv
    <3>3. QED
      BY <3>1, <3>2
  <2>3. RowsInv'
    BY <2>1, <2>2 DEF RowsInv
  <2>4. ASSUME NEW y \in FirstComplete PROVE y \in FirstComplete'
    <3>1. y \in snapshots /\ y \in Snapshots
      BY DEF FirstComplete, RowsInv
    <3>2. y.sample = x.sample => y.version < x.version
      BY <2>1, <3>1 DEF RowsInv
    <3>3. y.sample = x.sample => y.at <= x.at /\ y.version <= x.version
      BY <2>1, <3>1, <3>2, RowsAssumption
    <3>4. y.sample = x.sample => y.at < x.at \/ (y.at = x.at /\ y.version <= x.version)
      BY <2>1, <3>1, <3>3, RowsAssumption
    <3>5. QED
      BY <2>1, <3>1, <3>4 DEF FirstComplete
  <2>5. QED
    BY <2>3, <2>4
<1>2. CASE CommitLabel \/ CommitDecision
  BY <1>2 DEF CommitLabel, CommitDecision, RowsInv, FirstComplete
<1>3. QED
  BY <1>1, <1>2

LEMMA CommitHolds == IInv /\ Commit => IInv'
<1> SUFFICES ASSUME IInv, Commit PROVE IInv'
  OBVIOUS
<1>1. UNCHANGED catVars
  BY DEF Commit
<1>2. RowsInv' /\ FirstComplete \subseteq FirstComplete'
  BY CommitRows DEF Commit, IInv
<1>3. \A b \in Builders : HasRead(b)' <=> HasRead(b)
  BY <1>1 DEF catVars, HasRead
<1>4. \A b \in Builders : Persisted(b)' <=> Persisted(b)
  BY <1>1, <1>3 DEF catVars, Persisted
<1>5. TypeInv' /\ SerialInv' /\ AloneInv' /\ ReportedInv'
  BY <1>1 DEF IInv, catVars, TypeInv, SerialInv, Running, AloneInv, ReportedInv, Reported,
              FailedOn, IsReady
<1>6. ContextInv'
  BY <1>1, <1>3, <1>4 DEF IInv, catVars, ContextInv
<1>7. RowInv'
  <2>1. \A id, b : b \in Builders => (ClaimedBy(b, id)' <=> ClaimedBy(b, id))
    BY <1>1, <1>3 DEF catVars, ClaimedBy
  <2>2. \A id, b : b \in Builders => (MarkedBy(b, id)' <=> MarkedBy(b, id))
    BY <1>1, <1>4 DEF catVars, MarkedBy
  <2>3. QED
    BY <1>1, <2>1, <2>2 DEF IInv, catVars, RowInv, IsReady
<1>8. FirstInv'
  BY <1>1, <1>2 DEF IInv, catVars, FirstInv
<1>9. QED
  BY <1>2, <1>5, <1>6, <1>7, <1>8 DEF IInv

LEMMA StutterHolds == IInv /\ UNCHANGED vars => IInv'
<1> SUFFICES ASSUME IInv, UNCHANGED vars PROVE IInv'
  OBVIOUS
<1>1. UNCHANGED rowVars /\ UNCHANGED catVars
  BY DEF vars
<1>2. RowsInv' /\ FirstComplete' = FirstComplete
  BY <1>1 DEF IInv, rowVars, RowsInv, FirstComplete
<1>3. \A b \in Builders : HasRead(b)' <=> HasRead(b)
  BY <1>1 DEF catVars, HasRead
<1>4. \A b \in Builders : Persisted(b)' <=> Persisted(b)
  BY <1>1, <1>3 DEF catVars, Persisted
<1>5. TypeInv' /\ SerialInv' /\ AloneInv' /\ ReportedInv'
  BY <1>1 DEF IInv, catVars, TypeInv, SerialInv, Running, AloneInv, ReportedInv, Reported,
              FailedOn, IsReady
<1>6. ContextInv'
  BY <1>1, <1>3, <1>4 DEF IInv, catVars, ContextInv
<1>7. RowInv'
  <2>1. \A id, b : b \in Builders => (ClaimedBy(b, id)' <=> ClaimedBy(b, id))
    BY <1>1, <1>3 DEF catVars, ClaimedBy
  <2>2. \A id, b : b \in Builders => (MarkedBy(b, id)' <=> MarkedBy(b, id))
    BY <1>1, <1>4 DEF catVars, MarkedBy
  <2>3. QED
    BY <1>1, <2>1, <2>2 DEF IInv, catVars, RowInv, IsReady
<1>8. FirstInv'
  BY <1>1, <1>2 DEF IInv, catVars, FirstInv
<1>9. QED
  BY <1>2, <1>5, <1>6, <1>7, <1>8 DEF IInv

-----------------------------------------------------------------------------
(* What a step of a builder leaves alone                                   *)

Early == {"idle", "read"}

Unwritten == Early \cup {"claim", "lookup", "persist"}

Final == {"FAILED", "SKIPPED", "RAISED", "UNRECORDED", "KILLED"}

\* Nobody else is touched, and what was read or written stays.
Forward(b) ==
    /\ kind' = kind /\ overlap' = overlap
    /\ TypeInv'
    /\ \A a \in Builders \ {b} : pc'[a] = pc[a] /\ ctx'[a] = ctx[a] /\ artifacts'[a] = artifacts[a]
    /\ pc[b] \notin Early => pc'[b] \notin Early /\ ctx'[b] = ctx[b]
    /\ pc[b] \notin Unwritten => pc'[b] \notin Unwritten /\ artifacts'[b] = artifacts[b]

Moves(b) ==
    \/ pc[b] = "idle" /\ pc'[b] = "read"
    \/ pc[b] = "read" /\ pc'[b] \in {"claim", "REUSED"} \cup Final
    \/ pc[b] = "claim" /\ pc'[b] \in {"lookup", "persist"} \cup Final
    \/ pc[b] = "lookup" /\ pc'[b] \in {"REUSED"} \cup Final
    \/ pc[b] = "persist" /\ pc'[b] \in {"ready", "failed"} \cup Final
    \/ pc[b] = "ready" /\ pc'[b] \in {"READY", "failed"} \cup Final
    \/ pc[b] = "failed" /\ pc'[b] \in Final

CatalogueStep(b) ==
    \/ catalogue' = catalogue
    \/ /\ pc[b] = "claim" /\ ~IsReady(ctx[b].id)
       /\ SetRow(ctx[b].id, RowOf(kind, ctx[b].config, ctx[b].stats))
    \/ pc[b] = "ready" /\ pc'[b] \in {"READY", "failed"} /\ SetReady(ctx[b].id, b)
    \/ pc[b] = "failed" /\ pc'[b] = "FAILED" /\ SetFailed(ctx[b].id)

\* What leads to the places that the invariant says more about.
Reasons(b) ==
    /\ pc[b] = "claim" /\ pc'[b] = "persist" =>
            ~IsReady(ctx[b].id) /\ ctx[b].id \in DOMAIN catalogue'
    /\ pc'[b] = "REUSED" => catalogue' = catalogue /\ IsReady(ctx'[b].id)
    /\ pc[b] = "persist" /\ pc'[b] = "ready" =>
        /\ ~Raises(kind, ctx[b].members)
        /\ artifacts'[b] = Made(kind, ctx[b].config, ctx[b].id, ctx[b].members, ctx[b].stats)
    /\ pc'[b] = "READY" => SetReady(ctx[b].id, b)
    /\ pc[b] = "read" /\ pc'[b] \in {"claim", "REUSED"} => HasRead(b)'

Effect(b) == Forward(b) /\ Moves(b) /\ CatalogueStep(b) /\ Reasons(b)

LEMMA StartEffect ==
    ASSUME IInv, NEW b \in Builders, Start(b)
    PROVE  Effect(b)
<1>1. /\ pc[b] = "idle" /\ pc' = [pc EXCEPT ![b] = "read"]
      /\ UNCHANGED <<kind, overlap, catalogue, artifacts, faults>>
  BY DEF Start, Goto
<1>2. PICK c \in Configs :
        ctx' = [ctx EXCEPT ![b] = [config |-> c, id |-> None, stats |-> None, members |-> {}]]
  BY DEF Start
<1>3. TypeInv'
  BY <1>1, <1>2 DEF IInv, TypeInv, Steps, Ends
<1>4. Forward(b)
  BY <1>1, <1>2, <1>3 DEF Forward, IInv, TypeInv, Early, Unwritten
<1>5. pc'[b] = "read"
  BY <1>1 DEF IInv, TypeInv
<1>6. QED
  BY <1>1, <1>4, <1>5 DEF Effect, Moves, CatalogueStep, Reasons

LEMMA TrainingReadEffect ==
    ASSUME IInv, NEW b \in Builders, ReadTraining(b)
    PROVE  Effect(b) /\ (pc'[b] \in Final \/ HasRead(b)')
<1> DEFINE c  == ctx[b].config
           ms == TrainingCohort(c)
           s  == Summary(ms)
           id == TrainingIdentity(c, ms)
<1>1. /\ kind = "training" /\ pc[b] = "read" /\ kind' = kind /\ overlap' = overlap
      /\ pc' = [pc EXCEPT ![b] = IF ~TrainingReady(s) \/ IsReady(id) THEN "SKIPPED" ELSE "claim"]
      /\ ctx' = [ctx EXCEPT ![b].id = id, ![b].stats = s, ![b].members = ms]
      /\ UNCHANGED <<catalogue, artifacts, faults>>
  BY DEF ReadTraining, Goto, Chosen
<1> HIDE DEF ms, s, id
<1>2. c \in Configs
  BY <1>1 DEF IInv, TypeInv
<1>3. ctx'[b] = [config |-> c, id |-> id, stats |-> s, members |-> ms]
  <2>1. /\ ctx[b] = [config |-> ctx[b].config, id |-> ctx[b].id, stats |-> ctx[b].stats,
                    members |-> ctx[b].members]
        /\ ctx = [a \in Builders |-> ctx[a]]
    BY <1>1 DEF IInv, TypeInv
  <2>2. ctx'[b] = [ctx[b] EXCEPT !.id = id, !.stats = s, !.members = ms]
    BY <1>1, <2>1
  <2>3. QED
    BY <2>1, <2>2
<1>4. /\ pc'[b] \in {"SKIPPED", "claim"}
      /\ pc'[b] = "claim" => TrainingReady(s)
  BY <1>1 DEF IInv, TypeInv
<1>5. TypeInv'
  BY <1>1, <1>2, <1>3, <1>4 DEF IInv, TypeInv, Steps, Ends
<1>6. Forward(b)
  BY <1>1, <1>5 DEF Forward, IInv, TypeInv, Early, Unwritten
<1>7. pc'[b] = "claim" => HasRead(b)'
  <2>1. SUFFICES ASSUME pc'[b] = "claim" PROVE HasRead(b)'
    OBVIOUS
  <2>2. TrainingMembers(c, ms)
    BY <1>4, <2>1, TrainingReadHolds DEF IInv, ms, s
  <2>3. Members(kind, c, ms) /\ id = Identity(kind, c, ms) /\ s = Stats(kind, ms)
    BY <1>1, <2>2 DEF Members, Identity, Stats, id, s
  <2>4. QED
    BY <1>1, <1>2, <1>3, <2>1, <2>3 DEF HasRead
<1>8. QED
  BY <1>1, <1>4, <1>6, <1>7 DEF Effect, Moves, CatalogueStep, Reasons, Final

LEMMA GateReadEffect ==
    ASSUME IInv, NEW b \in Builders, ReadGate(b)
    PROVE  Effect(b) /\ (pc'[b] \in Final \/ HasRead(b)')
<1> DEFINE c  == ctx[b].config
           ms == GateCohort(c)
           s  == GateSummary(ms)
           id == GateIdentity(c, ms)
<1>1. /\ kind = "gate" /\ pc[b] = "read" /\ kind' = kind /\ overlap' = overlap
      /\ UNCHANGED <<catalogue, artifacts, faults>>
  BY DEF ReadGate, Goto
<1>2. c \in Configs
  BY <1>1 DEF IInv, TypeInv
<1>3. CASE \E p \in DecisionCohort(c) : DecisionRefused(p)
  <2>1. pc' = [pc EXCEPT ![b] = "RAISED"] /\ ctx' = ctx
    BY <1>3 DEF ReadGate, Goto
  <2>2. pc'[b] = "RAISED"
    BY <2>1 DEF IInv, TypeInv
  <2>3. TypeInv'
    BY <1>1, <2>1, <2>2 DEF IInv, TypeInv, Steps, Ends
  <2>4. Forward(b)
    BY <1>1, <2>1, <2>3 DEF Forward, IInv, TypeInv, Early, Unwritten
  <2>5. QED
    BY <1>1, <2>2, <2>4 DEF Effect, Moves, CatalogueStep, Reasons, Final
<1>4. CASE \A p \in DecisionCohort(c) : ~DecisionRefused(p)
  <2>1. /\ pc' = [pc EXCEPT ![b] = CASE ~GateReady(s) -> "RAISED"
                                     [] GateReady(s) /\ IsReady(id) -> "REUSED"
                                     [] OTHER -> "claim"]
        /\ ctx' = [ctx EXCEPT ![b].id = id, ![b].stats = s, ![b].members = ms]
    BY <1>4 DEF ReadGate, Goto, Chosen
  <2>2. ms = GateCohort(c) /\ s = GateSummary(ms) /\ id = GateIdentity(c, ms)
    OBVIOUS
  <2> HIDE DEF ms, s, id
  <2>3. ctx'[b] = [config |-> c, id |-> id, stats |-> s, members |-> ms]
    <3>1. /\ ctx[b] = [config |-> ctx[b].config, id |-> ctx[b].id, stats |-> ctx[b].stats,
                      members |-> ctx[b].members]
          /\ ctx = [a \in Builders |-> ctx[a]]
      BY <1>1 DEF IInv, TypeInv
    <3>2. ctx'[b] = [ctx[b] EXCEPT !.id = id, !.stats = s, !.members = ms]
      BY <1>1, <2>1, <3>1
    <3>3. QED
      BY <3>1, <3>2
  <2>4. /\ pc'[b] \in {"RAISED", "REUSED", "claim"}
        /\ pc'[b] # "RAISED" => GateReady(s)
        /\ pc'[b] = "REUSED" => IsReady(id)
    BY <2>1 DEF IInv, TypeInv
  <2>5. TypeInv'
    BY <1>1, <1>2, <2>1, <2>3, <2>4 DEF IInv, TypeInv, Steps, Ends
  <2>6. Forward(b)
    BY <1>1, <2>1, <2>5 DEF Forward, IInv, TypeInv, Early, Unwritten
  <2>7. pc'[b] # "RAISED" => HasRead(b)'
    <3>1. SUFFICES ASSUME pc'[b] # "RAISED" PROVE HasRead(b)'
      OBVIOUS
    <3>2. GateMembers(c, ms)
      BY <1>4, <2>2, <2>4, <3>1, GateReadHolds DEF IInv
    <3>3. Members(kind, c, ms) /\ id = Identity(kind, c, ms) /\ s = Stats(kind, ms)
      BY <1>1, <2>2, <3>2 DEF Members, Identity, Stats
    <3>4. QED
      BY <1>1, <1>2, <2>3, <2>4, <3>1, <3>3 DEF HasRead
  <2>8. QED
    BY <1>1, <2>3, <2>4, <2>6, <2>7 DEF Effect, Moves, CatalogueStep, Reasons, Final
<1>5. QED
  BY <1>3, <1>4

\* The other steps change no local variable but the artifacts.
LEMMA LaterStepForward ==
    ASSUME IInv, NEW b \in Builders, pc[b] \in Steps \ {"read"},
           NEW l \in Steps \cup Ends, Goto(b, l), ctx' = ctx,
           l \notin Early,
           artifacts' = artifacts \/
              (pc[b] \in Unwritten /\ \E v : artifacts' = [artifacts EXCEPT ![b] = v]),
           pc[b] \notin Unwritten => l \notin Unwritten
    PROVE  Forward(b) /\ pc'[b] = l
<1>1. pc' = [pc EXCEPT ![b] = l] /\ kind' = kind /\ overlap' = overlap
  BY DEF Goto
<1>2. pc'[b] = l
  BY <1>1 DEF IInv, TypeInv
<1>3. TypeInv'
  <2>1. artifacts' = [a \in Builders |-> artifacts'[a]]
    BY DEF IInv, TypeInv
  <2>2. QED
    BY <1>1, <1>2, <2>1 DEF IInv, TypeInv, Steps, Early
<1>4. \A a \in Builders \ {b} : pc'[a] = pc[a] /\ ctx'[a] = ctx[a] /\ artifacts'[a] = artifacts[a]
  BY <1>1 DEF IInv, TypeInv
<1>5. QED
  BY <1>1, <1>2, <1>3, <1>4 DEF Forward

LEMMA UpsertEffect ==
    ASSUME NEW b \in Builders, pc[b] = "claim",
           Upsert(ctx[b].id, RowOf(kind, ctx[b].config, ctx[b].stats))
    PROVE  CatalogueStep(b) /\ (~IsReady(ctx[b].id) => ctx[b].id \in DOMAIN catalogue')
BY DEF Upsert, CatalogueStep, SetRow

LEMMA ClaimEffect ==
    ASSUME IInv, NEW b \in Builders, ClaimTraining(b) \/ ClaimGate(b) \/ ClaimReplyLost(b)
    PROVE  Effect(b)
<1>1. /\ pc[b] = "claim" /\ ctx' = ctx /\ artifacts' = artifacts
      /\ Upsert(ctx[b].id, RowOf(kind, ctx[b].config, ctx[b].stats))
  BY DEF ClaimTraining, ClaimGate, ClaimReplyLost, RowOf, IInv, TypeInv
<1>2. PICK l \in {"SKIPPED", "lookup", "persist", "UNRECORDED"} :
        Goto(b, l) /\ (l = "persist" => ~IsReady(ctx[b].id))
  BY DEF ClaimTraining, ClaimGate, ClaimReplyLost
<1>3. Forward(b) /\ pc'[b] = l
  BY <1>1, <1>2, LaterStepForward DEF Steps, Ends, Early, Unwritten
<1>4. QED
  BY <1>1, <1>2, <1>3, UpsertEffect DEF Effect, Moves, Reasons, Final

LEMMA LookUpEffect ==
    ASSUME IInv, NEW b \in Builders, LookUp(b)
    PROVE  Effect(b)
<1>1. pc[b] = "lookup" /\ ctx' = ctx /\ artifacts' = artifacts /\ catalogue' = catalogue
  BY DEF LookUp
<1>2. PICK l \in {"REUSED", "RAISED"} : Goto(b, l) /\ (l = "REUSED" => IsReady(ctx[b].id))
  BY DEF LookUp
<1>3. Forward(b) /\ pc'[b] = l
  BY <1>1, <1>2, LaterStepForward DEF Steps, Ends, Early, Unwritten
<1>4. QED
  BY <1>1, <1>2, <1>3 DEF Effect, Moves, CatalogueStep, Reasons, Final

LEMMA PersistEffect ==
    ASSUME IInv, NEW b \in Builders, PersistTraining(b) \/ PersistGate(b)
    PROVE  Effect(b)
<1> DEFINE made == Made(kind, ctx[b].config, ctx[b].id, ctx[b].members, ctx[b].stats)
<1>1. pc[b] = "persist" /\ ctx' = ctx /\ catalogue' = catalogue
  BY DEF PersistTraining, PersistGate
<1>2. \/ Raises(kind, ctx[b].members) /\ Goto(b, "failed") /\ artifacts' = artifacts
      \/ /\ ~Raises(kind, ctx[b].members) /\ Goto(b, "ready")
         /\ artifacts' = [artifacts EXCEPT ![b] = made]
  BY DEF PersistTraining, PersistGate, Raises, Made
<1> HIDE DEF made
<1>3. CASE Raises(kind, ctx[b].members)
  <2>1. Forward(b) /\ pc'[b] = "failed"
    BY <1>1, <1>2, <1>3, LaterStepForward DEF Steps, Ends, Early, Unwritten
  <2>2. QED
    BY <1>1, <1>3, <2>1 DEF Effect, Moves, CatalogueStep, Reasons, Final
<1>4. CASE ~Raises(kind, ctx[b].members)
  <2>1. Forward(b) /\ pc'[b] = "ready"
    BY <1>1, <1>2, <1>4, LaterStepForward DEF Steps, Ends, Early, Unwritten
  <2>2. artifacts'[b] = made
    BY <1>2, <1>4 DEF IInv, TypeInv
  <2>3. QED
    BY <1>1, <1>4, <2>1, <2>2 DEF Effect, Moves, CatalogueStep, Reasons, Final, made
<1>5. QED
  BY <1>3, <1>4

LEMMA MarkEffect ==
    ASSUME IInv, NEW b \in Builders, MarkReady(b) \/ MarkFailed(b) \/ ReadyReplyLost(b)
    PROVE  Effect(b)
<1>1. ctx' = ctx /\ artifacts' = artifacts
  BY DEF MarkReady, MarkFailed, ReadyReplyLost
<1>2. CASE MarkReady(b)
  <2>1. pc[b] = "ready" /\ SetReady(ctx[b].id, b) /\ Goto(b, "READY")
    BY <1>2 DEF MarkReady
  <2>2. Forward(b) /\ pc'[b] = "READY"
    BY <1>1, <2>1, LaterStepForward DEF Steps, Ends, Early, Unwritten
  <2>3. QED
    BY <1>1, <2>1, <2>2 DEF Effect, Moves, CatalogueStep, Reasons
<1>3. CASE MarkFailed(b)
  <2>1. pc[b] = "failed" /\ SetFailed(ctx[b].id) /\ Goto(b, "FAILED")
    BY <1>3 DEF MarkFailed
  <2>2. Forward(b) /\ pc'[b] = "FAILED"
    BY <1>1, <2>1, LaterStepForward DEF Steps, Ends, Early, Unwritten
  <2>3. QED
    BY <1>1, <2>1, <2>2 DEF Effect, Moves, CatalogueStep, Reasons, Final
<1>4. CASE ReadyReplyLost(b)
  <2>1. pc[b] = "ready" /\ SetReady(ctx[b].id, b) /\ Goto(b, "failed")
    BY <1>4 DEF ReadyReplyLost
  <2>2. Forward(b) /\ pc'[b] = "failed"
    BY <1>1, <2>1, LaterStepForward DEF Steps, Ends, Early, Unwritten
  <2>3. QED
    BY <1>1, <2>1, <2>2 DEF Effect, Moves, CatalogueStep, Reasons
<1>5. QED
  BY <1>2, <1>3, <1>4

LEMMA FailureEffect ==
    ASSUME IInv, NEW b \in Builders, StepFails(b) \/ Kill(b)
    PROVE  Effect(b)
<1>1. /\ pc[b] \in Steps /\ ctx' = ctx /\ artifacts' = artifacts /\ catalogue' = catalogue
  BY DEF StepFails, Kill, Running
<1>2. PICK l \in {"failed", "UNRECORDED", "RAISED", "KILLED"} :
        Goto(b, l) /\ (l = "failed" => pc[b] \in {"persist", "ready"})
  BY DEF StepFails, Kill
<1>3. CASE pc[b] # "read"
  <2>1. Forward(b) /\ pc'[b] = l
    BY <1>1, <1>2, <1>3, LaterStepForward DEF Steps, Ends, Early, Unwritten
  <2>2. QED
    BY <1>1, <1>2, <1>3, <2>1 DEF Effect, Moves, CatalogueStep, Reasons, Final, Steps
<1>4. CASE pc[b] = "read"
  <2>1. pc' = [pc EXCEPT ![b] = l] /\ kind' = kind /\ overlap' = overlap
    BY <1>2 DEF Goto
  <2>2. pc'[b] = l /\ l \in Final
    BY <1>2, <1>4, <2>1 DEF IInv, TypeInv, Final
  <2>3. TypeInv'
    BY <1>1, <2>1, <2>2 DEF IInv, TypeInv, Steps, Ends, Final
  <2>4. Forward(b)
    BY <1>1, <1>4, <2>1, <2>3 DEF Forward, IInv, TypeInv, Early, Unwritten
  <2>5. QED
    BY <1>1, <1>4, <2>2, <2>4 DEF Effect, Moves, CatalogueStep, Reasons, Final
<1>5. QED
  BY <1>3, <1>4

LEMMA BuildEffect ==
    ASSUME IInv, NEW b \in Builders, Build(b)
    PROVE  Effect(b)
BY StartEffect, TrainingReadEffect, GateReadEffect, ClaimEffect, LookUpEffect, PersistEffect,
   MarkEffect, FailureEffect DEF Build, BuilderStep, BuilderFault

-----------------------------------------------------------------------------
(* The invariant is kept                                                   *)

LEMMA ReadStays ==
    ASSUME NEW b \in Builders, Forward(b), NEW a \in Builders
    PROVE  /\ HasRead(a) => HasRead(a)' /\ ctx'[a] = ctx[a]
           /\ Persisted(a) => Persisted(a)' /\ artifacts'[a] = artifacts[a]
<1>1. HasRead(a) => HasRead(a)' /\ ctx'[a] = ctx[a]
  BY DEF Forward, HasRead, Early
<1>2. Persisted(a) => pc'[a] \notin Unwritten /\ artifacts'[a] = artifacts[a]
  BY DEF Forward, Persisted, HasRead, Early, Unwritten
<1>3. Persisted(a) => Persisted(a)'
  BY <1>1, <1>2 DEF Forward, Persisted, Unwritten
<1>4. QED
  BY <1>1, <1>2, <1>3

\* A row is neither removed nor, once it is READY, changed but by who has claimed it before.
LEMMA CatalogueGrows ==
    ASSUME NEW b \in Builders, CatalogueStep(b)
    PROVE  /\ DOMAIN catalogue \subseteq DOMAIN catalogue'
           /\ \A id \in DOMAIN catalogue' :
                id # ctx[b].id => id \in DOMAIN catalogue /\ catalogue'[id] = catalogue[id]
           /\ pc[b] \notin {"claim", "ready", "failed"} => catalogue' = catalogue
BY DEF CatalogueStep, SetRow, SetReady, SetFailed

\* The two updates of a row.
LEMMA RowUpdate ==
    ASSUME NEW row, DOMAIN row = RowFields, NEW run, NEW sha
    PROVE  /\ LET r == [row EXCEPT !.status = "READY", !.run = run, !.sha = sha]
              IN  /\ DOMAIN r = RowFields
                  /\ r.start = row.start /\ r.cutoff = row.cutoff /\ r.stats = row.stats
                  /\ r.status = "READY" /\ r.run = run /\ r.sha = sha
           /\ LET r == [row EXCEPT !.status = "FAILED"]
              IN  /\ DOMAIN r = RowFields
                  /\ r.start = row.start /\ r.cutoff = row.cutoff /\ r.stats = row.stats
                  /\ r.status = "FAILED"
BY DEF RowFields

LEMMA MarkedReady ==
    ASSUME IInv, NEW b \in Builders, pc[b] = "ready", SetReady(ctx[b].id, b)
    PROVE  ctx[b].id \in DOMAIN catalogue' /\ catalogue'[ctx[b].id].status = "READY"
<1> DEFINE id == ctx[b].id
<1>1. id \in DOMAIN catalogue
  BY DEF IInv, ContextInv
<1>2. DOMAIN catalogue[id] = RowFields
  BY <1>1 DEF IInv, RowInv, ClaimedBy
<1>3. /\ id \in DOMAIN catalogue'
      /\ catalogue'[id] = [catalogue[id] EXCEPT !.status = "READY", !.run = b,
                                              !.sha = artifacts[b].sha]
  BY DEF SetReady, SetRow
<1>4. QED
  BY <1>2, <1>3, RowUpdate

LEMMA MarkedFailed ==
    ASSUME IInv, NEW b \in Builders, pc[b] = "failed", SetFailed(ctx[b].id)
    PROVE  catalogue'[ctx[b].id].status = "FAILED"
<1> DEFINE id == ctx[b].id
<1>1. DOMAIN catalogue[id] = RowFields
  BY DEF IInv, ContextInv, RowInv, ClaimedBy
<1>2. catalogue'[id] = [catalogue[id] EXCEPT !.status = "FAILED"]
  BY DEF SetFailed, SetRow
<1>3. QED
  BY <1>1, <1>2, RowUpdate

\* Who marks the row of a reported id FAILED has overlapped with who reported it.
LEMMA ReadyStays ==
    ASSUME IInv, NEW b \in Builders, Effect(b), NEW id \in Reported
    PROVE  \/ id \in DOMAIN catalogue' /\ catalogue'[id].status = "READY"
           \/ overlap' /\ FailedOn(id)' # {}
<1>1. CASE overlap /\ FailedOn(id) # {}
  <2>1. PICK a \in Builders : pc[a] = "FAILED" /\ ctx[a].id = id
    BY <1>1 DEF FailedOn
  <2>2. a # b /\ overlap'
    BY <1>1, <2>1 DEF Effect, Moves, Forward
  <2>3. pc'[a] = "FAILED" /\ ctx'[a].id = id
    BY <2>1, <2>2 DEF Effect, Forward
  <2>4. QED
    BY <2>2, <2>3 DEF FailedOn
<1>2. CASE IsReady(id)
  <2>1. CASE id # ctx[b].id \/ catalogue' = catalogue
    BY <1>2, <2>1, CatalogueGrows DEF Effect, IsReady
  <2>2. CASE id = ctx[b].id /\ pc[b] = "ready" /\ SetReady(ctx[b].id, b)
    BY <2>2, MarkedReady
  <2>3. CASE id = ctx[b].id /\ pc[b] = "failed" /\ pc'[b] = "FAILED"
    <3>1. overlap
      BY <2>3 DEF IInv, AloneInv, TypeInv
    <3>2. overlap' /\ ctx'[b].id = id
      BY <2>3, <3>1 DEF Effect, Forward, Early
    <3>3. QED
      BY <2>3, <3>2 DEF FailedOn
  <2>4. QED
    BY <1>2, <2>1, <2>2, <2>3 DEF Effect, CatalogueStep
<1>3. QED
  BY <1>1, <1>2 DEF IInv, ReportedInv

LEMMA ContextStep ==
    ASSUME IInv, NEW b \in Builders, Effect(b)
    PROVE  ContextInv'
<1> SUFFICES ASSUME NEW a \in Builders
             PROVE  /\ pc'[a] \in {"claim", "lookup", "persist", "ready", "failed", "READY",
                                   "REUSED"} => HasRead(a)'
                    /\ pc'[a] = "ready" => Persisted(a)'
                    /\ pc'[a] \in {"persist", "ready", "failed"} =>
                            ctx'[a].id \in DOMAIN catalogue'
  BY DEF ContextInv
<1>1. DOMAIN catalogue \subseteq DOMAIN catalogue'
  BY CatalogueGrows DEF Effect
<1>2. CASE a # b
  BY <1>1, <1>2, ReadStays DEF Effect, Forward, IInv, ContextInv
<1>3. CASE a = b
  <2>1. CASE pc[b] \in Early
    BY <1>3, <2>1 DEF Effect, Moves, Reasons, Early, Final
  <2>2. CASE pc[b] \notin Early
    <3>1. HasRead(b) /\ HasRead(b)' /\ ctx'[b] = ctx[b]
      BY <2>2, ReadStays DEF Effect, Moves, IInv, ContextInv, Early
    <3>2. pc'[b] = "ready" => Persisted(b)'
      BY <3>1 DEF Effect, Moves, Reasons, Forward, Persisted, Final
    <3>3. pc'[b] \in {"persist", "ready", "failed"} => ctx'[b].id \in DOMAIN catalogue'
      BY <1>1, <3>1 DEF Effect, Moves, Reasons, IInv, ContextInv, Final
    <3>4. QED
      BY <1>3, <3>1, <3>2, <3>3
  <2>3. QED
    BY <2>1, <2>2
<1>4. QED
  BY <1>2, <1>3

LEMMA RowStep ==
    ASSUME IInv, NEW b \in Builders, Effect(b)
    PROVE  RowInv'
<1> SUFFICES ASSUME NEW id \in DOMAIN catalogue'
             PROVE  /\ \E a \in Builders : ClaimedBy(a, id)'
                    /\ IsReady(id)' => \E a \in Builders : MarkedBy(a, id)'
  BY DEF RowInv
<1>1. kind' = kind
  BY DEF Effect, Forward
<1>2. \A a \in Builders : MarkedBy(a, id) /\ catalogue'[id] = catalogue[id] => MarkedBy(a, id)'
  BY ReadStays DEF Effect, MarkedBy, Persisted
<1>3. \A a \in Builders : ClaimedBy(a, id) /\ catalogue'[id] = catalogue[id] => ClaimedBy(a, id)'
  BY <1>1, ReadStays DEF Effect, ClaimedBy
<1>4. CASE id \in DOMAIN catalogue /\ catalogue'[id] = catalogue[id]
  <2>1. IsReady(id)' <=> IsReady(id)
    BY <1>4 DEF IsReady
  <2>2. QED
    BY <1>2, <1>3, <1>4, <2>1 DEF IInv, RowInv
<1>5. CASE ~(id \in DOMAIN catalogue /\ catalogue'[id] = catalogue[id])
  <2>1. id = ctx[b].id /\ catalogue' # catalogue
    BY <1>5, CatalogueGrows DEF Effect
  <2>2. CASE /\ pc[b] = "claim"
             /\ SetRow(ctx[b].id, RowOf(kind, ctx[b].config, ctx[b].stats))
    <3>1. catalogue'[id] = RowOf(kind, ctx[b].config, ctx[b].stats)
      BY <2>1, <2>2 DEF SetRow
    <3>2. catalogue'[id] =
            [status |-> "BUILDING", start |-> ctx[b].config.start,
             cutoff |-> ctx[b].config.cutoff, stats |-> RowStats(kind, ctx[b].stats),
             run |-> None, sha |-> None]
      BY <3>1 DEF RowOf, TrainingRow, GateRow, RowStats
    <3>3. HasRead(b)' /\ ctx'[b] = ctx[b]
      BY <2>2, ReadStays DEF Effect, IInv, ContextInv
    <3>4. ClaimedBy(b, id)'
      BY <1>1, <2>1, <3>2, <3>3 DEF ClaimedBy, RowFields
    <3>5. ~IsReady(id)'
      BY <3>2 DEF IsReady
    <3>6. QED
      BY <3>4, <3>5
  <2>3. CASE pc[b] = "ready" /\ SetReady(ctx[b].id, b)
    <3>1. id \in DOMAIN catalogue /\ Persisted(b)
      BY <2>1, <2>3 DEF IInv, ContextInv
    <3>2. PICK a \in Builders : ClaimedBy(a, id)
      BY <3>1 DEF IInv, RowInv
    <3>3. catalogue'[id] = [catalogue[id] EXCEPT !.status = "READY", !.run = b,
                                                 !.sha = artifacts[b].sha]
      BY <2>1, <2>3 DEF SetReady, SetRow
    <3>4. /\ DOMAIN catalogue'[id] = RowFields
          /\ catalogue'[id].start = catalogue[id].start
          /\ catalogue'[id].cutoff = catalogue[id].cutoff
          /\ catalogue'[id].stats = catalogue[id].stats
          /\ catalogue'[id].run = b /\ catalogue'[id].sha = artifacts[b].sha
      BY <3>2, <3>3, RowUpdate DEF ClaimedBy
    <3>5. ClaimedBy(a, id)'
      BY <1>1, <3>2, <3>4, ReadStays DEF Effect, ClaimedBy
    <3>6. MarkedBy(b, id)'
      BY <2>1, <3>1, <3>4, ReadStays DEF Effect, MarkedBy, Persisted
    <3>7. QED
      BY <3>5, <3>6
  <2>4. CASE pc[b] = "failed" /\ SetFailed(ctx[b].id)
    <3>1. id \in DOMAIN catalogue
      BY <2>1, <2>4 DEF IInv, ContextInv
    <3>2. PICK a \in Builders : ClaimedBy(a, id)
      BY <3>1 DEF IInv, RowInv
    <3>3. catalogue'[id] = [catalogue[id] EXCEPT !.status = "FAILED"]
      BY <2>1, <2>4 DEF SetFailed, SetRow
    <3>4. /\ DOMAIN catalogue'[id] = RowFields
          /\ catalogue'[id].start = catalogue[id].start
          /\ catalogue'[id].cutoff = catalogue[id].cutoff
          /\ catalogue'[id].stats = catalogue[id].stats
          /\ catalogue'[id].status = "FAILED"
      BY <3>2, <3>3, RowUpdate DEF ClaimedBy
    <3>5. ClaimedBy(a, id)' /\ ~IsReady(id)'
      BY <1>1, <3>2, <3>4, ReadStays DEF Effect, ClaimedBy, IsReady
    <3>6. QED
      BY <3>5
  <2>5. QED
    BY <2>1, <2>2, <2>3, <2>4 DEF Effect, CatalogueStep
<1>6. QED
  BY <1>4, <1>5

\* What becomes reported in a step.
LEMMA NewlyReported ==
    ASSUME IInv, NEW b \in Builders, Effect(b), NEW id \in Reported', id \notin Reported
    PROVE  id = ctx'[b].id /\ pc[b] \in Steps /\ pc'[b] \in {"READY", "REUSED"}
<1>1. PICK a \in Builders : pc'[a] \in {"READY", "REUSED"} /\ id = ctx'[a].id
  BY DEF Reported
<1>2. a = b
  BY <1>1 DEF Reported, Effect, Forward
<1>3. QED
  BY <1>1, <1>2 DEF Effect, Moves, Final, Steps

LEMMA ReportedGrows ==
    ASSUME IInv, NEW b \in Builders, Effect(b)
    PROVE  Reported \subseteq Reported'
<1> SUFFICES ASSUME NEW a \in Builders, pc[a] \in {"READY", "REUSED"}
             PROVE  pc'[a] \in {"READY", "REUSED"} /\ ctx'[a].id = ctx[a].id
  BY DEF Reported
<1>1. a # b
  BY DEF Effect, Moves
<1>2. QED
  BY <1>1 DEF Effect, Forward

LEMMA ReportedStep ==
    ASSUME IInv, NEW b \in Builders, Effect(b)
    PROVE  ReportedInv'
<1> SUFFICES ASSUME NEW id \in Reported'
             PROVE  \/ id \in DOMAIN catalogue' /\ catalogue'[id].status = "READY"
                    \/ overlap' /\ FailedOn(id)' # {}
  BY DEF ReportedInv, IsReady
<1>1. CASE id \in Reported
  BY <1>1, ReadyStays
<1>2. CASE id \notin Reported
  <2>1. id = ctx'[b].id /\ pc'[b] \in {"READY", "REUSED"}
    BY <1>2, NewlyReported
  <2>2. CASE pc'[b] = "REUSED"
    BY <2>1, <2>2 DEF Effect, Reasons, IsReady
  <2>3. CASE pc'[b] = "READY"
    <3>1. pc[b] = "ready" /\ SetReady(ctx[b].id, b) /\ ctx'[b] = ctx[b]
      BY <2>3 DEF Effect, Moves, Reasons, Forward, Final, Early
    <3>2. QED
      BY <2>1, <3>1, MarkedReady
  <2>4. QED
    BY <2>1, <2>2, <2>3
<1>3. QED
  BY <1>1, <1>2

LEMMA SerialStep ==
    ASSUME IInv, NEW b \in Builders, Effect(b), Build(b)
    PROVE  SerialInv'
<1>1. \A a \in Builders \ {b} : pc'[a] = pc[a]
  BY DEF Effect, Forward
<1>2. overlap' = overlap
  BY DEF Effect, Forward
<1>3. CASE pc[b] = "idle"
  <2>1. /\ pc'[b] = "read"
        /\ \A a \in 1 .. b - 1 : pc[a] # "idle" /\ (overlap \/ ~Running(a))
    BY <1>3 DEF Effect, Moves, Build, BuilderStep, BuilderFault, Start, ReadTraining, ReadGate,
                ClaimTraining, ClaimGate, LookUp, PersistTraining, PersistGate, MarkReady,
                MarkFailed, StepFails, ReadyReplyLost, ClaimReplyLost, Kill, Running, Steps
  <2>2. \A a \in Builders : a < b => a \in 1 .. b - 1
    BY BuildersAssumption DEF Builders
  <2>3. \A a \in Builders : b < a => pc[a] = "idle"
    BY <1>3 DEF IInv, SerialInv
  <2>4. \A a \in Builders : a = b \/ a < b \/ b < a
    BY BuildersAssumption DEF Builders
  <2>5. ~overlap => \A a \in Builders \ {b} : ~Running(a)
    BY <2>1, <2>2, <2>3, <2>4 DEF Running, Steps
  <2>6. ~overlap' => \A a, c \in Builders : Running(a)' /\ Running(c)' => a = c
    BY <1>1, <1>2, <2>5 DEF Running
  <2>7. \A a, c \in Builders : a < c /\ pc'[c] # "idle" => pc'[a] # "idle"
    BY <1>1, <2>1, <2>2, <2>3, <2>4 DEF IInv, SerialInv
  <2>8. QED
    BY <2>6, <2>7 DEF SerialInv
<1>4. CASE pc[b] # "idle"
  <2>1. Running(b) /\ pc'[b] # "idle"
    BY <1>4 DEF Effect, Moves, Running, Steps, Final
  <2>2. \A a \in Builders : Running(a)' => Running(a)
    BY <1>1, <2>1 DEF Running
  <2>3. \A a \in Builders : pc'[a] # "idle" <=> pc[a] # "idle"
    BY <1>1, <1>4, <2>1
  <2>4. QED
    BY <1>2, <2>2, <2>3 DEF IInv, SerialInv
<1>5. QED
  BY <1>3, <1>4

LEMMA AloneStep ==
    ASSUME IInv, NEW b \in Builders, Effect(b)
    PROVE  AloneInv'
<1> SUFFICES ASSUME ~overlap, NEW a \in Builders, pc'[a] \in {"persist", "ready", "failed"},
                    ctx'[a].id \in Reported'
             PROVE  FALSE
  BY DEF AloneInv, Effect, Forward
<1>1. CASE a # b
  <2>1. pc'[a] = pc[a] /\ ctx'[a] = ctx[a]
    BY <1>1 DEF Effect, Forward
  <2>2. ctx[a].id \notin Reported
    BY <2>1 DEF IInv, AloneInv
  <2>3. pc[b] \in Steps /\ pc[a] \in Steps
    BY <2>1, <2>2, NewlyReported DEF Steps
  <2>4. QED
    BY <1>1, <2>3 DEF IInv, SerialInv, Running
<1>2. CASE a = b
  <2>1. ctx'[b] = ctx[b] /\ pc[b] \in {"claim", "persist", "ready"}
    BY <1>2 DEF Effect, Moves, Forward, Final, Early
  <2>2. ctx[b].id \notin Reported
    BY <1>2, <2>1 DEF Effect, Moves, Reasons, IInv, AloneInv, ReportedInv, Final
  <2>3. QED
    BY <1>2, <2>1, <2>2, NewlyReported
<1>3. QED
  BY <1>1, <1>2

LEMMA FirstStep ==
    ASSUME IInv, NEW b \in Builders, Effect(b), Build(b)
    PROVE  FirstInv'
<1>1. FirstComplete' = FirstComplete /\ kind' = kind
  BY DEF Build, rowVars, FirstComplete, Effect, Forward
<1> SUFFICES ASSUME kind = "training", NEW a \in Builders, pc'[a] # "idle",
                    NEW m \in ctx'[a].members
             PROVE  \E x \in FirstComplete :
                        m.sample = x.sample /\ m.version = x.version /\ m.at = x.at
  BY <1>1 DEF FirstInv
<1>2. CASE m \in ctx[a].members /\ pc[a] # "idle"
  BY <1>2 DEF IInv, FirstInv
<1>3. CASE ~(m \in ctx[a].members /\ pc[a] # "idle")
  <2>1. a = b /\ pc[b] \in Early
    BY <1>3 DEF Effect, Moves, Forward, Early
  <2>2. pc'[b] # "read"
    BY <2>1 DEF Effect, Forward, TypeInv
  <2>3. ReadTraining(b) \/ StepFails(b) \/ Kill(b)
    BY <2>1, <2>2 DEF Build, BuilderStep, BuilderFault, Start, Goto, ReadGate,
                      ClaimTraining, ClaimGate, LookUp, PersistTraining, PersistGate,
                      MarkReady, MarkFailed, ReadyReplyLost, ClaimReplyLost, Early,
                      IInv, TypeInv
  <2>4. ReadTraining(b)
    BY <1>3, <2>1, <2>3 DEF StepFails, Kill, Running, Steps, Early
  <2>5. ctx'[b].members = TrainingCohort(ctx[b].config)
    BY <2>1, <2>4 DEF ReadTraining, Chosen, IInv, TypeInv
  <2>6. QED
    BY <2>1, <2>5, TrainingCohortMembers DEF IInv, TrainingMemberOf
<1>4. QED
  BY <1>2, <1>3

LEMMA StepHolds == IInv /\ [Next]_vars => IInv'
<1>1. ASSUME IInv, NEW b \in Builders, Build(b) PROVE IInv'
  <2>1. Effect(b)
    BY <1>1, BuildEffect
  <2>2. RowsInv' /\ TypeInv'
    BY <1>1, <2>1 DEF Build, rowVars, IInv, RowsInv, Effect, Forward
  <2>3. QED
    BY <1>1, <2>1, <2>2, ContextStep, RowStep, ReportedStep, SerialStep, AloneStep,
       FirstStep DEF IInv
<1>2. QED
  BY <1>1, CommitHolds, StutterHolds DEF Next

\* The invariant that the other results rest on: rows of the catalogue are what builders have
\* read, whoever claims and whoever marks them (the builders and their repositories).
THEOREM InvariantHolds == Spec => []IInv
<1>1. Init => IInv
  BY InitHolds
<1>2. IInv /\ [Next]_vars => IInv'
  BY StepHolds
<1>3. QED
  BY <1>1, <1>2, PTL DEF Spec

-----------------------------------------------------------------------------
(* What can be loaded                                                      *)

LEMMA ReadyFacts ==
    ASSUME IInv, NEW id, IsReady(id)
    PROVE  /\ Loads(id) /\ Rows(id) = id.members /\ id.members # {}
           /\ \E a \in Builders :
                /\ HasRead(a) /\ ctx[a].id = id
                /\ catalogue[id].start = ctx[a].config.start
                /\ catalogue[id].cutoff = ctx[a].config.cutoff
<1> DEFINE row == catalogue[id]
<1>1. PICK a \in Builders : ClaimedBy(a, id)
  BY DEF IInv, RowInv, IsReady
<1>2. PICK b \in Builders : MarkedBy(b, id)
  BY DEF IInv, RowInv, IsReady
<1> DEFINE c == ctx[b].config
           ms == ctx[b].members
           art == artifacts[b]
<1>3. /\ c \in Configs /\ Members(kind, c, ms) /\ id = Identity(kind, c, ms)
      /\ ~Raises(kind, ms) /\ art = Made(kind, c, id, ms, Stats(kind, ms))
      /\ row.run = b /\ row.sha = art.sha
  BY <1>2 DEF MarkedBy, Persisted, HasRead
<1>4. /\ ctx[a].config \in Configs /\ Members(kind, ctx[a].config, ctx[a].members)
      /\ id = Identity(kind, ctx[a].config, ctx[a].members)
      /\ ctx[a].stats = Stats(kind, ctx[a].members)
      /\ row.start = ctx[a].config.start /\ row.cutoff = ctx[a].config.cutoff
      /\ row.stats = RowStats(kind, ctx[a].stats)
  BY <1>1 DEF ClaimedBy, HasRead
<1>5. ms = ctx[a].members /\ c.start = ctx[a].config.start /\ c.cutoff = ctx[a].config.cutoff
  <2>1. Identity(kind, c, ms) = Identity(kind, ctx[a].config, ctx[a].members)
    BY <1>3, <1>4
  <2> HIDE DEF c, ms
  <2>2. QED
    BY <1>3, <1>4, <2>1, SameIdentity
<1>6. row.start = c.start /\ row.cutoff = c.cutoff /\ row.stats = RowStats(kind, Stats(kind, ms))
  BY <1>4, <1>5
<1>7. row.run # None
  BY <1>3, BuildersAssumption DEF Builders
<1>8. ASSUME kind = "training" PROVE Loads(id) /\ Rows(id) = id.members
  <2>1. TrainingVerified(id, row, art) /\ {r.member : r \in art.frame} = id.members
    <3>1. /\ TrainingMembers(c, ms) /\ ~FrameRaises(ms) /\ id = TrainingIdentity(c, ms)
          /\ art = Artifacts(Frame(id, ms), Manifest(c, id, Summary(ms)))
          /\ row.stats = Summary(ms)
      BY <1>3, <1>6, <1>8 DEF Members, Raises, Identity, Made, Stats, RowStats
    <3> HIDE DEF c, ms, art, row
    <3>2. QED
      BY <1>3, <1>6, <3>1, TrainingVerifies
  <2>2. QED
    BY <1>1, <1>3, <1>7, <1>8, <2>1 DEF Loads, LoadsTraining, Rows, ClaimedBy
<1>9. ASSUME kind = "gate" PROVE Loads(id) /\ Rows(id) = id.members
  <2>1. GateVerified(id, row, art) /\ {r.member : r \in art.frame} = id.members
    <3>1. /\ GateMembers(c, ms) /\ ~GateFrameRaises(ms) /\ id = GateIdentity(c, ms)
          /\ art = Artifacts(GateFrame(id, ms), GateManifest(c, id, GateSummary(ms)))
      BY <1>3, <1>9 DEF Members, Raises, Identity, Made, Stats
    <3>2. row.stats.eligible = GateSummary(ms).eligible /\ row.stats.labeled = GateSummary(ms).labeled
      BY <1>6, <1>9 DEF RowStats, Stats, GateSummary
    <3> HIDE DEF c, ms, art, row
    <3>3. QED
      BY <1>3, <3>1, <3>2, GateVerifies
  <2>2. QED
    BY <1>1, <1>3, <1>7, <1>9, <2>1 DEF Loads, LoadsGate, Rows, ClaimedBy
<1>10. id.members # {}
  BY <1>3, ReadyHasMembers DEF Identity, TrainingIdentity, GateIdentity
<1>11. QED
  BY <1>1, <1>4, <1>8, <1>9, <1>10 DEF IInv, TypeInv, ClaimedBy

LEMMA LoadableIsReady == \A id \in Loadable : IsReady(id)
BY DEF Loadable, Loads, LoadsTraining, LoadsGate

\* An id that a builder has reported can be loaded, unless builders overlap and one of them has
\* failed on it, for any tables, windows, builders, failures, lost answers and kills (the
\* except block, the claim of a row that is not READY).
THEOREM ReportedCanBeLoaded == Spec => []ReportedLoads
<1>1. IInv => ReportedLoads
  BY ReadyFacts DEF IInv, ReportedInv, ReportedLoads
<1>2. QED
  BY <1>1, InvariantHolds, PTL

LEMMA MemberRecords ==
    ASSUME NEW k, NEW c, NEW ms, Members(k, c, ms), NEW r \in Identity(k, c, ms).members
    PROVE  IF k = "training"
           THEN \E m \in ms, x \in Snapshots, l \in Labels \cup {None} :
                    /\ TrainingMemberOf(m, c, x, l)
                    /\ r = [sample |-> m.sample, version |-> m.version, hash |-> m.hash,
                            at |-> m.at, label |-> m.label]
           ELSE \E m \in ms, p \in Decisions, x \in Snapshots, l \in Labels \cup {None} :
                    /\ GateMemberOf(m, c, p, x, l)
                    /\ r = [id |-> m.id, predicted |-> m.predicted, sample |-> m.sample,
                            version |-> m.version, hash |-> m.hash, slot |-> m.slot,
                            at |-> m.at, label |-> m.label]
<1>1. CASE k = "training"
  <2>1. PICK m \in ms : r = IdentityRecord(m)
    BY <1>1 DEF Identity, TrainingIdentity
  <2>2. PICK x \in Snapshots, l \in Labels \cup {None} : TrainingMemberOf(m, c, x, l)
    BY <1>1 DEF Members, TrainingMembers
  <2>3. QED
    BY <1>1, <2>1, <2>2, TrainingRecord
<1>2. CASE k # "training"
  <2>1. PICK m \in ms : r = GateIdentityRecord(m)
    BY <1>2 DEF Identity, GateIdentity
  <2>2. PICK p \in Decisions, x \in Snapshots, l \in Labels \cup {None} :
            GateMemberOf(m, c, p, x, l)
    BY <1>2 DEF Members, GateMembers
  <2>3. QED
    BY <1>2, <2>1, <2>2, GateRecord
<1>3. QED
  BY <1>1, <1>2

-----------------------------------------------------------------------------
(* The refinement of PublishedDatasets                                     *)

ReadyIds == {id \in DOMAIN catalogue : catalogue[id].status = "READY"}

Work == {"persist", "ready", "failed"}

\* What a loader gets of an id depends on the id alone.
OffersMembers == [id \in Loadable |-> Rows(id)] = [id \in ReadyIds |-> MembersOf(id)]

LEMMA OfferedIs == IInv => OffersMembers
<1> SUFFICES ASSUME IInv PROVE OffersMembers
  OBVIOUS
<1>1. Loadable = ReadyIds
  BY LoadableIsReady, ReadyFacts DEF Loadable, ReadyIds, IsReady
<1>2. \A id \in ReadyIds : Rows(id) = MembersOf(id)
  BY ReadyFacts DEF ReadyIds, IsReady, MembersOf
<1>3. QED
  BY <1>1, <1>2 DEF OffersMembers

LEMMA OfferedIsNext == IInv' => OffersMembers'
BY OfferedIs, PTL

LEMMA ReadyIdsMove ==
    ASSUME IInv, NEW b \in Builders, CatalogueStep(b)
    PROVE  \/ ReadyIds' = ReadyIds
           \/ /\ pc[b] = "ready" /\ pc'[b] \in {"READY", "failed"}
              /\ ReadyIds' = ReadyIds \cup {ctx[b].id}
           \/ /\ pc[b] = "failed" /\ pc'[b] = "FAILED"
              /\ ReadyIds' = ReadyIds \ {ctx[b].id}
<1>1. \A id : id # ctx[b].id =>
        (id \in DOMAIN catalogue' /\ catalogue'[id].status = "READY"
            <=> id \in DOMAIN catalogue /\ catalogue[id].status = "READY")
  BY CatalogueGrows
<1>2. CASE catalogue' = catalogue
  BY <1>2 DEF ReadyIds
<1>3. CASE /\ pc[b] = "claim" /\ ~IsReady(ctx[b].id)
           /\ SetRow(ctx[b].id, RowOf(kind, ctx[b].config, ctx[b].stats))
  <2>1. catalogue'[ctx[b].id].status = "BUILDING"
    BY <1>3 DEF SetRow, RowOf, TrainingRow, GateRow
  <2>2. QED
    BY <1>1, <1>3, <2>1 DEF ReadyIds, IsReady
<1>4. CASE pc[b] = "ready" /\ pc'[b] \in {"READY", "failed"} /\ SetReady(ctx[b].id, b)
  BY <1>1, <1>4, MarkedReady DEF ReadyIds
<1>5. CASE pc[b] = "failed" /\ pc'[b] = "FAILED" /\ SetFailed(ctx[b].id)
  BY <1>1, <1>5, MarkedFailed DEF ReadyIds
<1>6. QED
  BY <1>2, <1>3, <1>4, <1>5 DEF CatalogueStep

\* A step that ends as READY has set the row, one that ends as FAILED likewise.
LEMMA OutcomeOfEnd ==
    ASSUME IInv, NEW b \in Builders, Effect(b)
    PROVE  pc'[b] = "READY" => ReadyIds' = ReadyIds \cup {ctx[b].id}
<1> SUFFICES ASSUME pc'[b] = "READY" PROVE ReadyIds' = ReadyIds \cup {ctx[b].id}
  OBVIOUS
<1>1. pc[b] = "ready" /\ SetReady(ctx[b].id, b)
  BY DEF Effect, Moves, Reasons, Final
<1>2. \A id : id # ctx[b].id =>
        (id \in DOMAIN catalogue' /\ catalogue'[id].status = "READY"
            <=> id \in DOMAIN catalogue /\ catalogue[id].status = "READY")
  BY CatalogueGrows DEF Effect
<1>3. QED
  BY <1>1, <1>2, MarkedReady DEF ReadyIds

LEMMA ClaimsMove ==
    ASSUME IInv, NEW b \in Builders, Effect(b)
    PROVE  LET c == <<b, ctx[b].id>>
           IN  /\ pc[b] \in Work => c \in Claims
               /\ pc[b] \in Work /\ pc'[b] \in Work => Claims' = Claims
               /\ pc[b] \in Work /\ pc'[b] \notin Work => Claims' = Claims \ {c}
               /\ pc[b] \notin Work /\ pc'[b] \notin Work => Claims' = Claims
               /\ pc[b] \notin Work /\ pc'[b] \in Work =>
                    c \notin Claims /\ Claims' = Claims \cup {c} /\ ctx'[b] = ctx[b]
<1> DEFINE c == <<b, ctx[b].id>>
           Others == {<<a, ctx[a].id>> : a \in {d \in Builders \ {b} : pc[d] \in Work}}
<1>1. c \notin Others
  OBVIOUS
<1>2. Claims = IF pc[b] \in Work THEN Others \cup {c} ELSE Others
  BY DEF Claims, Work
<1>3. \A a \in Builders \ {b} : pc'[a] = pc[a] /\ ctx'[a] = ctx[a]
  BY DEF Effect, Forward
<1>4. pc[b] \in Work \/ pc'[b] \in Work => ctx'[b] = ctx[b]
  BY DEF Effect, Moves, Forward, Work, Early, Final
<1>5. Claims' = IF pc'[b] \in Work THEN Others \cup {c} ELSE Others
  BY <1>3, <1>4 DEF Claims, Work
<1> HIDE DEF Others, c
<1>6. QED
  BY <1>1, <1>2, <1>4, <1>5 DEF c

LEMMA ReportedMoves ==
    ASSUME IInv, NEW b \in Builders, Effect(b)
    PROVE  /\ pc'[b] \in {"READY", "REUSED"} => Reported' = Reported \cup {ctx'[b].id}
           /\ pc'[b] \notin {"READY", "REUSED"} => Reported' = Reported
<1>1. Reported \subseteq Reported'
  BY ReportedGrows
<1>2. \A id \in Reported' : id \in Reported \/ (id = ctx'[b].id /\ pc'[b] \in {"READY", "REUSED"})
  BY NewlyReported
<1>3. pc'[b] \in {"READY", "REUSED"} => ctx'[b].id \in Reported'
  BY DEF Reported
<1>4. QED
  BY <1>1, <1>2, <1>3

\* While builders follow one another the one that takes a step is the only one at work.
LEMMA AloneAtWork ==
    ASSUME IInv, ~overlap, NEW b \in Builders, Running(b), pc[b] \notin Work
    PROVE  Claims = {}
BY DEF IInv, SerialInv, Running, Steps, Work, Claims

LEMMA PublishedStep ==
    ASSUME IInv, IInv', NEW b \in Builders, Effect(b)
    PROVE  [Published!Next]_(Published!pubVars)
<1> DEFINE c == <<b, ctx[b].id>>
           offered == [id \in Loadable |-> Rows(id)]
           i == ctx[b].id
<1>1. offered = [id \in ReadyIds |-> MembersOf(id)] /\ overlap' = overlap
  BY OfferedIs DEF OffersMembers, Effect, Forward
<1>2. offered' = [id \in ReadyIds' |-> MembersOf(id)]
  BY OfferedIsNext DEF OffersMembers, MembersOf
<1>3. c[2] = i
  OBVIOUS
<1>4. /\ ReadyIds' = ReadyIds => offered' = offered
      /\ ReadyIds' = ReadyIds \cup {i} =>
            offered' = [j \in DOMAIN offered \cup {i} |->
                            IF j = i THEN MembersOf(i) ELSE offered[j]]
      /\ ReadyIds' = ReadyIds \ {i} => offered' = [j \in DOMAIN offered \ {i} |-> offered[j]]
  BY <1>1, <1>2
<1>5. DOMAIN offered = ReadyIds
  BY <1>1
<1> HIDE DEF offered, c, i
<1>6. CASE pc[b] = "claim" /\ pc'[b] = "persist"
  <2>1. /\ c \notin Claims /\ Claims' = Claims \cup {c}
        /\ Reported' = Reported /\ ReadyIds' = ReadyIds
    BY <1>6, ClaimsMove, ReportedMoves, ReadyIdsMove DEF Effect, Work, c
  <2>2. i \notin ReadyIds
    BY <1>6 DEF Effect, Reasons, IsReady, ReadyIds, i
  <2>3. ~overlap => Claims = {}
    BY <1>6, AloneAtWork DEF Running, Steps, Work
  <2>4. c \in Claims' \ Claims
    BY <2>1
  <2>5. Published!Claim
    BY <1>1, <1>3, <1>4, <1>5, <2>1, <2>2, <2>3, <2>4 DEF Published!Claim, offered
  <2>6. QED
    BY <2>5 DEF Published!Next
<1>7. CASE pc[b] \in Work /\ pc'[b] = "READY"
  <2>1. c \in Claims /\ Claims' = Claims \ {c}
    BY <1>7, ClaimsMove DEF Work, c
  <2>2. ctx'[b] = ctx[b]
    BY <1>7 DEF Effect, Forward, Work, Early
  <2>3. Reported' = Reported \cup {i} /\ ReadyIds' = ReadyIds \cup {i}
    BY <1>7, <2>2, ReportedMoves, OutcomeOfEnd DEF i
  <2>4. Published!Publish(c)
    BY <1>1, <1>3, <1>4, <2>1, <2>3 DEF Published!Publish, Published!Offer, offered
  <2>5. QED
    BY <2>1, <2>4 DEF Published!Next
<1>8. CASE pc[b] \in Work /\ pc'[b] # "READY"
  <2>1. c \in Claims
    BY <1>8, ClaimsMove DEF c
  <2>2. Reported' = Reported
    BY <1>8, ReportedMoves DEF Effect, Moves, Work, Final
  <2>3. CASE pc[b] = "ready" /\ pc'[b] = "failed" /\ ReadyIds' = ReadyIds \cup {i}
    <3>1. Claims' = Claims
      BY <2>3, ClaimsMove DEF Work
    <3>2. Published!PublishUnheard(c)
      BY <1>1, <1>3, <1>4, <2>2, <2>3, <3>1
      DEF Published!PublishUnheard, Published!Offer, offered
    <3>3. QED
      BY <2>1, <3>2 DEF Published!Next
  <2>4. CASE pc[b] = "failed" /\ pc'[b] = "FAILED" /\ ReadyIds' = ReadyIds \ {i}
    <3>1. Claims' = Claims \ {c}
      BY <2>4, ClaimsMove DEF Work, c
    <3>2. Published!Withdraw(c)
      BY <1>1, <1>3, <1>4, <2>2, <2>4, <3>1 DEF Published!Withdraw, offered
    <3>3. QED
      BY <2>1, <3>2 DEF Published!Next
  <2>5. CASE ReadyIds' = ReadyIds
    <3>1. CASE pc'[b] \in Work
      <4>1. Claims' = Claims
        BY <1>8, <3>1, ClaimsMove
      <4>2. QED
        BY <1>1, <1>4, <2>2, <2>5, <4>1 DEF Published!pubVars, offered
    <3>2. CASE pc'[b] \notin Work
      <4>1. Claims' = Claims \ {c}
        BY <1>8, <3>2, ClaimsMove DEF c
      <4>2. Published!GiveUp(c)
        BY <1>1, <1>4, <2>2, <2>5, <4>1 DEF Published!GiveUp, offered
      <4>3. QED
        BY <2>1, <4>2 DEF Published!Next
    <3>3. QED
      BY <3>1, <3>2
  <2>6. QED
    BY <1>8, <2>3, <2>4, <2>5, ReadyIdsMove DEF Effect, i
<1>9. CASE pc'[b] = "REUSED"
  <2>1. pc[b] \in {"read", "lookup"}
    BY <1>9 DEF Effect, Moves, Final
  <2>2. Claims' = Claims /\ ReadyIds' = ReadyIds /\ Reported' = Reported \cup {ctx'[b].id}
    BY <1>9, <2>1, ClaimsMove, ReportedMoves, ReadyIdsMove DEF Effect, Work
  <2>3. ctx'[b].id \in ReadyIds
    BY <1>9 DEF Effect, Reasons, IsReady, ReadyIds
  <2>4. ~overlap => Claims = {}
    BY <2>1, AloneAtWork DEF Running, Steps, Work
  <2>5. Published!Reuse(ctx'[b].id)
    BY <1>1, <1>4, <2>2, <2>4 DEF Published!Reuse, offered
  <2>6. QED
    BY <1>5, <2>3, <2>5 DEF Published!Next, offered
<1>10. CASE pc[b] \notin Work /\ pc'[b] \notin {"persist", "REUSED"}
  <2>1. pc'[b] \notin Work /\ pc'[b] # "READY"
    BY <1>10 DEF Effect, Moves, Work, Final
  <2>2. Claims' = Claims /\ ReadyIds' = ReadyIds /\ Reported' = Reported
    BY <1>10, <2>1, ClaimsMove, ReportedMoves, ReadyIdsMove DEF Effect, Work
  <2>3. QED
    BY <1>1, <1>4, <2>2 DEF Published!pubVars, offered
<1>11. pc[b] \in Work \/ pc'[b] # "persist" \/ pc[b] = "claim"
  BY DEF Effect, Moves, Work, Final
<1>12. QED
  BY <1>6, <1>7, <1>8, <1>9, <1>10, <1>11

\* The catalogue implements PublishedDatasets: an id names its own members, is withdrawn by no
\* one but a builder that claimed it while it was not offered and has failed since, and never
\* while builders follow one another, although its row may be claimed again and its artifacts
\* written by another builder (the claim, the two marks and the except block).
THEOREM PublishedDatasetsImplemented == Spec => PublishedSpec
<1>1. Init => Published!Init
  <2> SUFFICES ASSUME Init PROVE Published!Init
    OBVIOUS
  <2>1. Reported = {} /\ Claims = {}
    BY DEF Init, CatalogueInit, Reported, Claims
  <2>2. Loadable = {}
    BY DEF Init, CatalogueInit, Loadable
  <2>3. (~overlap) \in BOOLEAN
    OBVIOUS
  <2>4. QED
    BY <2>1, <2>2, <2>3 DEF Published!Init
<1>2. IInv /\ IInv' /\ [Next]_vars => [Published!Next]_(Published!pubVars)
  <2> SUFFICES ASSUME IInv, IInv', [Next]_vars
               PROVE  [Published!Next]_(Published!pubVars)
    OBVIOUS
  <2>1. ASSUME NEW b \in Builders, Build(b) PROVE [Published!Next]_(Published!pubVars)
    BY <2>1, BuildEffect, PublishedStep
  <2>2. CASE Commit \/ UNCHANGED vars
    <3>1. UNCHANGED catVars
      BY <2>2 DEF Commit, vars
    <3>2. UNCHANGED <<overlap, Claims, Reported, ReadyIds>>
      BY <3>1 DEF catVars, Claims, Reported, ReadyIds
    <3>3. [id \in Loadable |-> Rows(id)] = [id \in ReadyIds |-> MembersOf(id)]
      BY OfferedIs DEF OffersMembers
    <3>4. [id \in Loadable |-> Rows(id)]' = [id \in ReadyIds' |-> MembersOf(id)]
      BY OfferedIsNext DEF OffersMembers, MembersOf
    <3>5. QED
      BY <3>2, <3>3, <3>4 DEF Published!pubVars
  <2>3. QED
    BY <2>1, <2>2 DEF Next
<1>3. QED
  BY <1>1, <1>2, InvariantHolds, PTL DEF Spec, PublishedSpec, Published!Spec

\* The rows of a dataset that loads: each is a first complete snapshot of its window.
LEMMA LoadedTrainingRow ==
    ASSUME IInv, kind = "training", NEW id \in Loadable, NEW r \in Rows(id)
    PROVE  \E x \in FirstComplete :
                /\ r.sample = x.sample /\ id.start <= x.at
                /\ x.at < catalogue[id].cutoff - Maturity
<1>1. IsReady(id)
  BY LoadableIsReady
<1>2. PICK a \in Builders : /\ HasRead(a) /\ ctx[a].id = id
                            /\ catalogue[id].start = ctx[a].config.start
                            /\ catalogue[id].cutoff = ctx[a].config.cutoff
  BY <1>1, ReadyFacts
<1> DEFINE c == ctx[a].config
           ms == ctx[a].members
<1>3. Members(kind, c, ms) /\ id = Identity(kind, c, ms) /\ r \in Identity(kind, c, ms).members
  BY <1>1, <1>2, ReadyFacts DEF HasRead
<1>4. id.start = c.start
  BY <1>3 DEF Identity, TrainingIdentity
<1>5. PICK m \in ms, x \in Snapshots, l \in Labels \cup {None} :
        /\ TrainingMemberOf(m, c, x, l)
        /\ r = [sample |-> m.sample, version |-> m.version, hash |-> m.hash,
                at |-> m.at, label |-> m.label]
  <2> HIDE DEF c, ms
  <2>1. QED
    BY <1>3, MemberRecords
<1>6. PICK y \in FirstComplete : m.sample = y.sample /\ m.version = y.version /\ m.at = y.at
  BY <1>2 DEF IInv, FirstInv, HasRead
<1>7. r.sample = y.sample /\ c.start <= y.at /\ y.at < CohortEnd(c)
  BY <1>5, <1>6 DEF TrainingMemberOf
<1>8. QED
  BY <1>2, <1>4, <1>7 DEF CohortEnd

\* No sample is in the training datasets of two windows that are apart
\* (first_complete_per_sample).
THEOREM SamplesAreTrainedOnOnce == Spec => []TrainedOnce
<1>1. IInv => TrainedOnce
  <2> SUFFICES ASSUME IInv, kind = "training", NEW i \in Loadable, NEW j \in Loadable,
                      catalogue[i].cutoff - Maturity <= j.start,
                      NEW r \in Rows(i), NEW q \in Rows(j), r.sample = q.sample
               PROVE  FALSE
    BY DEF TrainedOnce
  <2>1. PICK x \in FirstComplete : /\ r.sample = x.sample /\ i.start <= x.at
                                   /\ x.at < catalogue[i].cutoff - Maturity
    BY LoadedTrainingRow
  <2>2. PICK y \in FirstComplete : /\ q.sample = y.sample /\ j.start <= y.at
                                   /\ y.at < catalogue[j].cutoff - Maturity
    BY LoadedTrainingRow
  <2>3. x = y /\ x.at \in Nat
    BY <2>1, <2>2, FirstIsUnique, RowsAssumption DEF IInv
  <2>4. PICK a \in Builders : /\ HasRead(a) /\ ctx[a].id = i
                              /\ catalogue[i].cutoff = ctx[a].config.cutoff
    BY LoadableIsReady, ReadyFacts
  <2>5. PICK b \in Builders : HasRead(b) /\ ctx[b].id = j
    BY LoadableIsReady, ReadyFacts
  <2>6. catalogue[i].cutoff - Maturity \in Int
    BY <2>4, ConfigsAssumption, MinimaAssumption DEF HasRead
  <2>7. j.start \in Int
    BY <2>5, ConfigsAssumption DEF HasRead, Identity, TrainingIdentity
  <2>8. QED
    BY <2>1, <2>2, <2>3, <2>6, <2>7
<1>2. QED
  BY <1>1, InvariantHolds, PTL

\* What loads is what its row says: decided on in the window, matured, with labels of its own
\* from before the cutoff, and with both classes (the cohort queries, evaluate_readiness).
THEOREM LoadedDatasetsAreSound == Spec => []LoadedIsSound
<1>1. IInv => LoadedIsSound
  <2> SUFFICES ASSUME IInv, NEW id \in Loadable
      PROVE LET row  == catalogue[id]
                when(m) == IF kind = "training" THEN m.at ELSE m.predicted
            IN  /\ \A m \in Rows(id) :
                    /\ row.start <= when(m) /\ when(m) + Maturity < row.cutoff
                    /\ m.at <= when(m)
                    /\ m.label # None => m.label.sample = m.sample /\ m.label.at <= row.cutoff
                /\ \A v \in {"fail", "pass"} :
                    \E m \in Rows(id) : m.label # None /\ m.label.value = v
    BY DEF LoadedIsSound
  <2>1. IsReady(id)
    BY LoadableIsReady
  <2>2. PICK a \in Builders : /\ HasRead(a) /\ ctx[a].id = id
                              /\ catalogue[id].start = ctx[a].config.start
                              /\ catalogue[id].cutoff = ctx[a].config.cutoff
    BY <2>1, ReadyFacts
  <2> DEFINE row == catalogue[id]
             c == ctx[a].config
             ms == ctx[a].members
  <2>3. /\ Members(kind, c, ms) /\ Rows(id) = Identity(kind, c, ms).members
        /\ row.start = c.start /\ row.cutoff = c.cutoff
        /\ c.start \in Int /\ c.cutoff \in Int
    BY <2>1, <2>2, ReadyFacts, ConfigsAssumption DEF HasRead
  <2> HIDE DEF row, c, ms
  <2>4. ASSUME NEW r \in Rows(id)
        PROVE  LET when == IF kind = "training" THEN r.at ELSE r.predicted
               IN  /\ row.start <= when /\ when + Maturity < row.cutoff
                   /\ r.at <= when
                   /\ r.label # None => r.label.sample = r.sample /\ r.label.at <= row.cutoff
    <3>1. CASE kind = "training"
      <4>1. PICK m \in ms, x \in Snapshots, l \in Labels \cup {None} :
              /\ TrainingMemberOf(m, c, x, l)
              /\ r = [sample |-> m.sample, version |-> m.version, hash |-> m.hash,
                      at |-> m.at, label |-> m.label]
        BY <2>3, <3>1, MemberRecords
      <4>2. /\ r.at = x.at /\ r.label = l /\ r.sample = x.sample
            /\ c.start <= x.at /\ x.at < c.cutoff - Maturity
            /\ l # None => l.sample = x.sample /\ l.at <= c.cutoff
        BY <4>1 DEF TrainingMemberOf, CohortEnd
      <4>3. x.at \in Nat /\ Maturity \in Nat
        BY RowsAssumption, MinimaAssumption
      <4>4. QED
        BY <2>3, <3>1, <4>2, <4>3
    <3>2. CASE kind # "training"
      <4>1. PICK m \in ms, p \in Decisions, x \in Snapshots, l \in Labels \cup {None} :
              /\ GateMemberOf(m, c, p, x, l)
              /\ r = [id |-> m.id, predicted |-> m.predicted, sample |-> m.sample,
                      version |-> m.version, hash |-> m.hash, slot |-> m.slot,
                      at |-> m.at, label |-> m.label]
        BY <2>3, <3>2, MemberRecords
      <4>2. /\ r.at = x.at /\ r.predicted = p.at /\ r.label = l /\ r.sample = p.sample
            /\ c.start <= p.at /\ p.at < c.cutoff - Maturity /\ x.at <= p.at
            /\ l # None => l.sample = p.sample /\ l.at <= c.cutoff
        BY <4>1 DEF GateMemberOf, CohortEnd
      <4>3. p.at \in Nat /\ Maturity \in Nat
        BY RowsAssumption, MinimaAssumption
      <4>4. QED
        BY <2>3, <3>2, <4>2, <4>3
    <3>3. QED
      BY <3>1, <3>2
  <2>5. ASSUME NEW v \in {"fail", "pass"}
        PROVE  \E r \in Rows(id) : r.label # None /\ r.label.value = v
    <3>1. PICK m \in ms : m.label # None /\ m.label.value = v
      BY <2>3, ReadyHasMembers
    <3>2. CASE kind = "training"
      <4>1. IdentityRecord(m) \in Rows(id) /\ IdentityRecord(m).label = m.label
        BY <2>3, <3>2, TrainingLabel DEF Identity, TrainingIdentity, Members
      <4>2. QED
        BY <3>1, <4>1
    <3>3. CASE kind # "training"
      <4>1. GateIdentityRecord(m) \in Rows(id) /\ GateIdentityRecord(m).label = m.label
        BY <2>3, <3>3, GateRecordFields DEF Identity, GateIdentity, Members
      <4>2. QED
        BY <3>1, <4>1
    <3>4. QED
      BY <3>2, <3>3
  <2>6. QED
    BY <2>4, <2>5 DEF row
<1>2. QED
  BY <1>1, InvariantHolds, PTL
===============================================================================
