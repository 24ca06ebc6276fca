--------------------------- MODULE IndexingProofs ---------------------------
(***************************************************************************)
(* Theorems about the indexing subsystem, for every set of workers, chunks *)
(* and summaries, every assignment of roles, both kinds of index and every *)
(* value of the bounds.                                                    *)
(***************************************************************************)
EXTENDS Indexing, FiniteSetTheorems, WellFoundedInduction, TLAPS

USE BoundsAssumption

---------------------------------------------------------------------------
(* What the operators the actions are built from return.                   *)

LEMMA NewDocsType ==
    ASSUME NEW v \in Versions, NEW n \in Versions
    PROVE  /\ NewDocs(v, n) \subseteq Docs
           /\ \A d \in NewDocs(v, n) : VersionOf(d) = v
BY DEF NewDocs, Docs, ChunkDocs, SummaryDocs, Versions, VersionOf

LEMMA IndexEventType ==
    ASSUME NEW t \in Ticks \cup {0}, NEW d \in Docs, NEW a \in {0, 1}
    PROVE  /\ IndexEvent(t, d, a) \in Event
           /\ IndexEvent(t, d, a).docs = {d} /\ IndexEvent(t, d, a).available = a
BY MaxAttemptsAssumption DEF IndexEvent, Event

LEMMA SetEventType ==
    ASSUME NEW t \in Ticks \cup {0}, NEW ds \in SUBSET Docs, NEW a \in {0, 1}
    PROVE  /\ SetEvent(t, ds, a) \in Event
           /\ SetEvent(t, ds, a).docs = ds /\ SetEvent(t, ds, a).available = a
BY MaxAttemptsAssumption DEF SetEvent, Event

LEMMA DeleteEventType ==
    ASSUME NEW t \in Ticks \cup {0}, NEW ds \in SUBSET Docs
    PROVE  /\ DeleteEvent(t, ds) \in Event
           /\ DeleteEvent(t, ds).docs = ds /\ DeleteEvent(t, ds).available = 0
BY MaxAttemptsAssumption DEF DeleteEvent, Event

LEMMA IfAnyType ==
    ASSUME NEW S, NEW ds, NEW e \in S
    PROVE  IfAny(ds, e) \subseteq S
BY DEF IfAny

LEMMA RetriedType ==
    ASSUME NEW r \in Event
    PROVE  /\ Retried(r) \in Event
           /\ Retried(r).docs = r.docs
           /\ Retried(r).available = r.available
BY MaxAttemptsAssumption DEF Retried, Event

LEMMA NoJobType == NoJob \in Job /\ NoJob.ver = 0
BY DEF NoJob, Job, Ticks

LEMMA NoDrainType == NoDrain \in Drain
BY DEF NoDrain, Drain

LEMMA EsStateType ==
    ASSUME NEW s, NEW a
    PROVE  IndexedAs(a) \in EsState /\ WithAvailable(s, a) \in EsState
BY DEF IndexedAs, WithAvailable, EsState
LEMMA FaultTyped ==
    ASSUME faults \in [FaultKinds -> Nat], NEW k \in FaultKinds, Fault(k)
    PROVE  faults' \in [FaultKinds -> Nat]
BY DEF Fault

---------------------------------------------------------------------------
(* Type correctness.                                                       *)

(* The helpers a step moves its request with leave every request typed.    *)
LEMMA EndRequestTyped ==
    ASSUME RequestsTypeOK, NEW w \in Workers, EndRequest(w),
           ingests \in Nat, ingests' \in Nat, ingests' >= ingests
    PROVE  RequestsTypeOK'
<1>1. pc' \in [Workers -> PCs]
  BY DEF RequestsTypeOK, EndRequest, PCs
<1>2. job' \in [Workers -> Job] /\ dr' \in [Workers -> Drain]
  BY NoJobType, NoDrainType DEF RequestsTypeOK, EndRequest
<1>3. ASSUME NEW v \in Workers
      PROVE  job'[v].ver <= ingests' /\ (Making(v)' => job'[v].ver >= 1)
  <2>1. CASE v = w
    <3>1. pc'[v] = "idle" /\ job'[v].ver = 0
      BY <2>1 DEF RequestsTypeOK, EndRequest, NoJob, NoDrain
    <3> QED BY <3>1 DEF Making
  <2>2. CASE v # w
    <3>1. pc'[v] = pc[v] /\ job'[v] = job[v] /\ dr'[v] = dr[v]
      BY <2>2 DEF RequestsTypeOK, EndRequest
    <3>2. job[v].ver \in Nat
      BY DEF RequestsTypeOK, Job
    <3> QED BY <3>1, <3>2 DEF Making, RequestsTypeOK
  <2> QED BY <2>1, <2>2
<1> QED BY <1>1, <1>2, <1>3 DEF RequestsTypeOK

LEMMA MovesTyped ==
    ASSUME RequestsTypeOK, NEW w \in Workers, NEW next \in PCs, NEW j \in Job,
           StartRequest(w, next, j) \/ GoTo(w, next, j),
           ingests \in Nat, ingests' \in Nat, ingests' >= ingests,
           next \notin {"drain", "publish"}, j.ver <= ingests',
           next \in {"parse", "barrier", "flip", "flipping"} => j.ver >= 1
    PROVE  RequestsTypeOK'
<1>1. /\ pc' = [pc EXCEPT ![w] = next] /\ job' = [job EXCEPT ![w] = j]
      /\ dr' = dr
  BY DEF StartRequest, GoTo
<1>2. pc' \in [Workers -> PCs] /\ job' \in [Workers -> Job] /\ dr' \in [Workers -> Drain]
  BY <1>1 DEF RequestsTypeOK
<1>3. ASSUME NEW v \in Workers
      PROVE  job'[v].ver <= ingests' /\ (Making(v)' => job'[v].ver >= 1)
  <2>1. CASE v = w
    <3>1. pc'[v] = next /\ job'[v] = j
      BY <1>1, <2>1 DEF RequestsTypeOK
    <3> QED BY <3>1 DEF Making
  <2>2. CASE v # w
    <3>1. pc'[v] = pc[v] /\ job'[v] = job[v] /\ dr'[v] = dr[v]
      BY <1>1, <2>2 DEF RequestsTypeOK
    <3>2. job[v].ver \in Nat
      BY DEF RequestsTypeOK, Job
    <3> QED BY <3>1, <3>2 DEF Making, RequestsTypeOK
  <2> QED BY <2>1, <2>2
<1> QED BY <1>2, <1>3 DEF RequestsTypeOK
LEMMA CallDrainTyped ==
    ASSUME RequestsTypeOK, NEW w \in Workers, NEW then \in {"barrier", "idle"},
           NEW j \in Job, CallDrain(w, then, j),
           ingests \in Nat, ingests' \in Nat, ingests' >= ingests,
           j.ver <= ingests', then = "barrier" => j.ver >= 1
    PROVE  RequestsTypeOK'
<1>1. [NoDrain EXCEPT !.then = then] \in Drain
  BY DEF NoDrain, Drain
<1>2. /\ pc' \in [Workers -> PCs] /\ job' \in [Workers -> Job]
      /\ dr' \in [Workers -> Drain]
  BY <1>1 DEF RequestsTypeOK, CallDrain, PCs
<1>3. ASSUME NEW v \in Workers
      PROVE  job'[v].ver <= ingests' /\ (Making(v)' => job'[v].ver >= 1)
  <2>1. CASE v = w
    <3>1. pc'[v] = "drain" /\ job'[v] = j /\ dr'[v].then = then
      BY <2>1 DEF RequestsTypeOK, CallDrain, NoDrain
    <3> QED BY <3>1 DEF Making
  <2>2. CASE v # w
    <3>1. pc'[v] = pc[v] /\ job'[v] = job[v] /\ dr'[v] = dr[v]
      BY <2>2 DEF RequestsTypeOK, CallDrain
    <3>2. job[v].ver \in Nat
      BY DEF RequestsTypeOK, Job
    <3> QED BY <3>1, <3>2 DEF Making, RequestsTypeOK
  <2> QED BY <2>1, <2>2
<1> QED BY <1>2, <1>3 DEF RequestsTypeOK

(* A drain that goes on updates its own locals and keeps its destination.  *)
LEMMA DrainsOnTyped ==
    ASSUME RequestsTypeOK, NEW w \in Workers, NEW d \in Drain,
           dr' = [dr EXCEPT ![w] = d], d.then = dr[w].then,
           pc[w] \in {"drain", "publish"}, pc' = [pc EXCEPT ![w] = "publish"],
           job' = job, ingests' = ingests
    PROVE  RequestsTypeOK'
<1>1. /\ pc' \in [Workers -> PCs] /\ job' \in [Workers -> Job]
      /\ dr' \in [Workers -> Drain]
  BY DEF RequestsTypeOK, PCs
<1>2. ASSUME NEW v \in Workers
      PROVE  job'[v].ver <= ingests' /\ (Making(v)' => job'[v].ver >= 1)
  <2>1. job[v].ver <= ingests /\ (Making(v) => job[v].ver >= 1)
    BY DEF RequestsTypeOK
  <2>2. CASE v = w
    <3>1. pc'[v] = "publish" /\ dr'[v].then = dr[v].then
      BY <2>2 DEF RequestsTypeOK
    <3> QED BY <2>1, <2>2, <3>1 DEF Making
  <2>3. CASE v # w
    <3>1. pc'[v] = pc[v] /\ dr'[v] = dr[v]
      BY <2>3 DEF RequestsTypeOK
    <3> QED BY <2>1, <3>1 DEF Making
  <2> QED BY <2>2, <2>3
<1> QED BY <1>1, <1>2 DEF RequestsTypeOK
LEMMA TypeInit == Init => TypeOK
<1> SUFFICES ASSUME Init PROVE TypeOK
  OBVIOUS
<1>1. TablesTypeOK
  BY DEF Init, TablesTypeOK, DefaultVersion, Versions
<1>2. es \in [Docs -> EsState] /\ outbox \subseteq Event
  BY DEF Init, EsState
<1>3. RequestsTypeOK
  <2>1. /\ pc \in [Workers -> PCs] /\ job \in [Workers -> Job]
        /\ dr \in [Workers -> Drain]
    BY NoJobType, NoDrainType DEF Init, PCs
  <2>2. ASSUME NEW w \in Workers
        PROVE  job[w].ver = 0 /\ ~Making(w)
    BY DEF Init, NoJob, NoDrain, Making
  <2> QED BY <2>1, <2>2 DEF RequestsTypeOK, Init
<1>4. CountersTypeOK
  BY DEF Init, CountersTypeOK
<1> QED BY <1>1, <1>2, <1>3, <1>4 DEF TypeOK

(* A job that an ingest carries from step to step keeps its type.          *)
LEMMA JobParts ==
    ASSUME TypeOK, NEW w \in Workers
    PROVE  /\ job[w] \in Job /\ dr[w] \in Drain
           /\ job[w].ver \in Nat /\ job[w].ver <= ingests
           /\ job[w].ver # 0 => job[w].ver \in Versions
BY DEF TypeOK, RequestsTypeOK, CountersTypeOK, Job, Versions

LEMMA IngestsBounded ==
    ASSUME TypeOK
    PROVE  ingests \in Nat /\ ingests <= MaxIngests
BY DEF TypeOK, CountersTypeOK

LEMMA NextVersionBounded ==
    ASSUME TypeOK, NEW v \in Versions, IsNextVersion(v)
    PROVE  v <= ingests + 1
BY DEF TypeOK, TablesTypeOK, CountersTypeOK, IsNextVersion, Versions

LEMMA IngestTyped ==
    ASSUME TypeOK, NEW w \in Workers, IngestStart(w) \/ IngestStep(w)
    PROVE  TypeOK'
<1>a. job[w] \in Job
  BY JobParts
<1>b. job[w].ver \in Nat /\ job[w].ver <= ingests
  BY JobParts
<1>c. ingests \in Nat /\ ingests <= MaxIngests
  BY IngestsBounded
<1>1. CASE IngestStart(w)
  <2>1. /\ ingests < MaxIngests /\ ingests' = ingests + 1
        /\ UNCHANGED <<exists, active, rows, shown, versions, outbox, es,
                       upkeep, activated, faults>>
    BY <1>1 DEF IngestStart, pgVars
  <2>2. ingests + 1 \in Versions
    BY <1>c, <2>1 DEF Versions
  <2>3. PICK v \in Versions :
           /\ IsNextVersion(v)
           /\ StartRequest(w, "parse", [NoJob EXCEPT !.ver = v, !.own = NewDocs(v, ingests + 1)])
    BY <1>1 DEF IngestStart
  <2> DEFINE j == [NoJob EXCEPT !.ver = v, !.own = NewDocs(v, ingests + 1)]
  <2>4. NewDocs(v, ingests + 1) \in SUBSET Docs /\ v \in 0 .. MaxIngests
    BY <2>2, NewDocsType DEF Versions
  <2>5. j \in Job /\ j.ver = v
    BY <2>4, NoJobType DEF Job
  <2>6. v <= ingests' /\ v >= 1
    BY <1>c, <2>1, <2>3, NextVersionBounded DEF Versions
  <2>7. StartRequest(w, "parse", j)
    BY <2>3
  <2> HIDE DEF j
  <2>8. RequestsTypeOK /\ "parse" \in PCs /\ ingests' \in Nat /\ ingests' >= ingests
    BY <1>c, <2>1 DEF TypeOK, PCs
  <2>9. RequestsTypeOK'
    BY <1>c, <2>5, <2>6, <2>7, <2>8, MovesTyped
  <2>10. TablesTypeOK'
    BY <1>c, <2>1 DEF TypeOK, TablesTypeOK
  <2>11. CountersTypeOK'
    BY <1>c, <2>1 DEF TypeOK, CountersTypeOK
  <2> QED
    BY <2>1, <2>9, <2>10, <2>11 DEF TypeOK
<1>2. CASE Stage(w)
  <2>1. job[w].ver >= 1
    BY <1>2 DEF Stage, TypeOK, RequestsTypeOK, Making
  <2>2. RequestsTypeOK'
    BY <1>2, <2>1, <1>a, <1>b, <1>c, CallDrainTyped DEF Stage, TypeOK, histVars
  <2>3. job[w].own \subseteq Docs
    BY <1>a DEF Job
  <2>4. TablesTypeOK'
    <3>1. /\ rows' = rows \cup job[w].own /\ versions' = versions \cup {job[w].ver}
          /\ UNCHANGED <<exists, active, shown, ingests>>
      BY <1>2 DEF Stage, histVars
    <3>2. job[w].ver \in 1 .. ingests
      BY <1>b, <1>c, <2>1
    <3> QED BY <2>3, <3>1, <3>2 DEF TypeOK, TablesTypeOK
  <2>5. outbox' \subseteq Event
    BY <1>2, <2>3, IndexEventType DEF Stage, StagedEvents, TypeOK
  <2> QED
    BY <1>2, <2>2, <2>4, <2>5 DEF Stage, TypeOK, CountersTypeOK, histVars
<1>3. CASE StageFails(w) \/ BarrierFail(w)
  <2>1. RequestsTypeOK'
    BY <1>3, <1>c, EndRequestTyped DEF StageFails, BarrierFail, TypeOK, histVars
  <2> QED
    BY <1>3, <2>1
    DEF StageFails, BarrierFail, TypeOK, TablesTypeOK, CountersTypeOK, pgVars, histVars
<1>4. CASE BarrierPass(w)
  <2>1. job[w].ver >= 1
    BY <1>4 DEF BarrierPass, TypeOK, RequestsTypeOK, Making
  <2>2. RequestsTypeOK'
    BY <1>4, <2>1, <1>a, <1>b, <1>c, MovesTyped DEF BarrierPass, TypeOK, histVars, PCs
  <2> QED
    BY <1>4, <2>2
    DEF BarrierPass, TypeOK, TablesTypeOK, CountersTypeOK, pgVars, histVars
<1>5. CASE FlipBegin(w)
  <2>1. job[w].ver >= 1
    BY <1>5 DEF FlipBegin, TypeOK, RequestsTypeOK, Making
  <2>2. PICK t \in Ticks :
           GoTo(w, "flipping", [job[w] EXCEPT !.at = t,
                  !.known = {d \in rows : VersionOf(d) < job[w].ver}])
    BY <1>5 DEF FlipBegin
  <2> DEFINE j == [job[w] EXCEPT !.at = t,
                     !.known = {d \in rows : VersionOf(d) < job[w].ver}]
  <2>3. j \in Job /\ j.ver = job[w].ver
    BY <1>a DEF Job, TypeOK, TablesTypeOK
  <2> HIDE DEF j
  <2>4. RequestsTypeOK /\ ingests' = ingests /\ "flipping" \in PCs /\ GoTo(w, "flipping", j)
    BY <1>5, <2>2 DEF FlipBegin, TypeOK, histVars, PCs, j
  <2>5. RequestsTypeOK'
    BY <1>b, <1>c, <2>1, <2>3, <2>4, MovesTyped
  <2> QED
    BY <1>5, <2>5
    DEF FlipBegin, TypeOK, TablesTypeOK, CountersTypeOK, pgVars, histVars
<1>6. CASE Flip(w)
  <2>1. job[w].ver \in Versions
    <3>1. job[w].ver >= 1
      BY <1>6 DEF Flip, TypeOK, RequestsTypeOK, Making
    <3> QED BY <1>b, <1>c, <3>1 DEF Versions
  <2>2. RequestsTypeOK'
    BY <1>6, NoJobType, <1>a, <1>b, <1>c, CallDrainTyped DEF Flip, TypeOK
  <2>3. TablesTypeOK'
    <3>1. active' \in [Pointers -> Versions]
      BY <1>6, <2>1 DEF Flip, TypeOK, TablesTypeOK
    <3>2. shown' \subseteq rows' \cap ChunkDocs
      BY <1>6 DEF Flip, ShownAfterFlip, TypeOK, TablesTypeOK
    <3> QED BY <1>6, <3>1, <3>2 DEF Flip, TypeOK, TablesTypeOK
  <2>4. outbox' \subseteq Event
    <3>1. /\ job[w].at \in Ticks \cup {0}
          /\ job[w].own \in SUBSET Docs /\ job[w].known \in SUBSET Docs
      BY <1>a DEF Job
    <3>2. /\ SetEvent(job[w].at, job[w].own, 1) \in Event
          /\ SetEvent(job[w].at, job[w].known, 0) \in Event
      BY <3>1, SetEventType
    <3>3. IfAny(job[w].known, SetEvent(job[w].at, job[w].known, 0)) \subseteq Event
      BY <3>2, IfAnyType
    <3> QED BY <1>6, <3>2, <3>3 DEF Flip, TypeOK
  <2>5. CountersTypeOK'
    BY <1>6, <2>1 DEF Flip, TypeOK, CountersTypeOK
  <2> QED BY <1>6, <2>2, <2>3, <2>4, <2>5 DEF Flip, TypeOK
<1> QED BY <1>1, <1>2, <1>3, <1>4, <1>5, <1>6 DEF IngestStep

(* The start of a collection, a reconciliation or a deletion.              *)
LEMMA UpkeepTyped ==
    ASSUME TypeOK, NEW w \in Workers, NEW next \in PCs, NEW j \in Job,
           next \notin {"drain", "publish", "parse", "barrier", "flip", "flipping"},
           j.ver = 0, StartUpkeep(w, next, j),
           UNCHANGED <<exists, active, rows, shown, versions, outbox, es, faults>>
    PROVE  TypeOK'
<1>1. /\ upkeep < MaxUpkeep /\ upkeep' = upkeep + 1 /\ StartRequest(w, next, j)
      /\ UNCHANGED <<ingests, activated>>
  BY DEF StartUpkeep
<1>2. RequestsTypeOK'
  BY <1>1, IngestsBounded, MovesTyped DEF TypeOK
<1>3. CountersTypeOK'
  BY <1>1 DEF TypeOK, CountersTypeOK
<1>4. TablesTypeOK'
  BY <1>1 DEF TypeOK, TablesTypeOK
<1> QED BY <1>2, <1>3, <1>4 DEF TypeOK

LEMMA GcTyped ==
    ASSUME TypeOK, NEW w \in Workers, GcBegin(w) \/ GcStep(w)
    PROVE  TypeOK'
<1>a. job[w] \in Job
  BY JobParts
<1>b. job[w].ver \in Nat /\ job[w].ver <= ingests
  BY JobParts
<1>c. ingests \in Nat /\ ingests <= MaxIngests
  BY IngestsBounded
<1>1. CASE GcBegin(w)
  <2>1. PICK t \in Ticks : StartUpkeep(w, "gcDelete", [NoJob EXCEPT !.at = t])
    BY <1>1 DEF GcBegin
  <2> DEFINE j == [NoJob EXCEPT !.at = t]
  <2>2. j \in Job /\ j.ver = 0
    BY NoJobType DEF Job
  <2>3. UNCHANGED <<exists, active, rows, shown, versions, outbox, es, faults>>
    BY <1>1 DEF GcBegin, pgVars
  <2> HIDE DEF j
  <2>4. StartUpkeep(w, "gcDelete", j)
    BY <2>1 DEF j
  <2> QED BY <2>2, <2>3, <2>4, UpkeepTyped DEF PCs
<1>2. CASE GcDelete(w)
  <2>1. RequestsTypeOK'
    BY <1>2, NoJobType, <1>a, <1>b, <1>c, CallDrainTyped DEF GcDelete, TypeOK, histVars
  <2>2. TablesTypeOK'
    BY <1>2 DEF GcDelete, VersionsKept, TypeOK, TablesTypeOK, histVars
  <2>3. outbox' \subseteq Event
    <3>1. job[w].at \in Ticks \cup {0} /\ Doomed \in SUBSET Docs
      BY <1>a DEF Job, Doomed, TypeOK, TablesTypeOK
    <3>2. IfAny(Doomed, DeleteEvent(job[w].at, Doomed)) \subseteq Event
      BY <3>1, DeleteEventType, IfAnyType
    <3> QED BY <1>2, <3>2 DEF GcDelete, TypeOK
  <2> QED
    BY <1>2, <2>1, <2>2, <2>3 DEF GcDelete, TypeOK, CountersTypeOK, histVars
<1>3. CASE GcNothing(w)
  <2>1. RequestsTypeOK'
    BY <1>3, <1>c, EndRequestTyped DEF GcNothing, TypeOK, histVars
  <2> QED
    BY <1>3, <2>1
    DEF GcNothing, TypeOK, TablesTypeOK, CountersTypeOK, pgVars, histVars
<1> QED BY <1>1, <1>2, <1>3 DEF GcStep

LEMMA PurgeTyped ==
    ASSUME TypeOK, NEW w \in Workers, PurgeBegin(w) \/ PurgeCommit(w)
    PROVE  TypeOK'
<1>a. job[w] \in Job
  BY JobParts
<1>b. job[w].ver \in Nat /\ job[w].ver <= ingests
  BY JobParts
<1>c. ingests \in Nat /\ ingests <= MaxIngests
  BY IngestsBounded
<1>1. CASE PurgeBegin(w)
  <2>1. PICK t \in Ticks :
           StartUpkeep(w, "purge", [NoJob EXCEPT !.at = t, !.known = rows])
    BY <1>1 DEF PurgeBegin
  <2> DEFINE j == [NoJob EXCEPT !.at = t, !.known = rows]
  <2>2. j \in Job /\ j.ver = 0
    BY NoJobType DEF Job, TypeOK, TablesTypeOK
  <2> HIDE DEF j
  <2>3. UNCHANGED <<exists, active, rows, shown, versions, outbox, es, faults>>
    BY <1>1 DEF PurgeBegin, pgVars
  <2> HIDE DEF j
  <2>4. StartUpkeep(w, "purge", j)
    BY <2>1 DEF j
  <2> QED BY <2>2, <2>3, <2>4, UpkeepTyped DEF PCs
<1>2. CASE PurgeCommit(w)
  <2>1. RequestsTypeOK'
    BY <1>2, NoJobType, <1>a, <1>b, <1>c, CallDrainTyped DEF PurgeCommit, TypeOK, histVars
  <2>2. TablesTypeOK'
    BY <1>2 DEF PurgeCommit, TypeOK, TablesTypeOK, histVars
  <2>3. outbox' \subseteq Event
    <3>1. job[w].at \in Ticks \cup {0} /\ job[w].known \in SUBSET Docs
      BY <1>a DEF Job
    <3>2. IfAny(job[w].known, DeleteEvent(job[w].at, job[w].known)) \subseteq Event
      BY <3>1, DeleteEventType, IfAnyType
    <3> QED BY <1>2, <3>2 DEF PurgeCommit, TypeOK
  <2> QED
    BY <1>2, <2>1, <2>2, <2>3 DEF PurgeCommit, TypeOK, CountersTypeOK, histVars
<1> QED BY <1>1, <1>2
(* The repairs of a reconciliation are outbox rows for documents there can *)
(* be; those that make a document visible are for the ones it took for     *)
(* active.                                                                 *)
LEMMA RepairsType ==
    ASSUME NEW own \in SUBSET Docs, NEW known \in SUBSET Docs, NEW unread
    PROVE  /\ Repairs(own, known, unread) \subseteq Event
           /\ \A e \in Repairs(own, known, unread) : e.available = 1 => e.docs \subseteq own
<1>1. Republish(own, unread) \subseteq own /\ AvailDrift(own, unread) \subseteq own
  BY DEF Republish, AvailDrift
<1>2. Leaked(own) \subseteq Docs
  BY DEF Leaked
<1>3. ASSUME NEW e \in Repairs(own, known, unread)
      PROVE  e \in Event /\ (e.available = 1 => e.docs \subseteq own)
  <2>1. CASE \E d \in Republish(own, unread) : e = IndexEvent(0, d, 1)
    <3>1. PICK d \in Republish(own, unread) : e = IndexEvent(0, d, 1)
      BY <2>1
    <3>2. d \in Docs /\ d \in own
      BY <1>1
    <3>3. 0 \in Ticks \cup {0} /\ 1 \in {0, 1}
      OBVIOUS
    <3>4. IndexEvent(0, d, 1) \in Event /\ IndexEvent(0, d, 1).docs = {d}
      BY <3>2, <3>3, IndexEventType
    <3> QED BY <3>1, <3>2, <3>4
  <2>2. CASE e = SetEvent(0, AvailDrift(own, unread), 1)
    BY <1>1, <2>2, SetEventType
  <2>3. CASE e = SetEvent(0, Leaked(own) \cap known, 0)
    BY <1>2, <2>3, SetEventType
  <2>4. CASE e = DeleteEvent(0, Leaked(own) \ known)
    BY <1>2, <2>4, DeleteEventType
  <2> QED BY <1>3, <2>1, <2>2, <2>3, <2>4 DEF Repairs, IfAny
<1> QED BY <1>3

LEMMA ReconcileTyped ==
    ASSUME TypeOK, NEW w \in Workers, ReconcileLoad(w) \/ ReconcileStep(w)
    PROVE  TypeOK'
<1>a. job[w] \in Job
  BY JobParts
<1>b. job[w].ver \in Nat /\ job[w].ver <= ingests
  BY JobParts
<1>c. ingests \in Nat /\ ingests <= MaxIngests
  BY IngestsBounded
<1>1. CASE ReconcileLoad(w)
  <2> DEFINE j == [NoJob EXCEPT !.own = ActiveDocs, !.known = rows]
  <2>1. rows \in SUBSET Docs /\ ActiveDocs \in SUBSET Docs
    BY DEF TypeOK, TablesTypeOK, ActiveDocs
  <2>2. j \in Job /\ j.ver = 0
    BY <2>1, NoJobType DEF Job
  <2>3. /\ StartUpkeep(w, "classify", j)
        /\ UNCHANGED <<exists, active, rows, shown, versions, outbox, es, faults>>
    BY <1>1 DEF ReconcileLoad, pgVars
  <2> HIDE DEF j
  <2> QED BY <2>2, <2>3, UpkeepTyped DEF PCs
<1>2. CASE Classify(w)
  <2>1. PICK unread \in SUBSET job[w].own :
           /\ IF unread = {} THEN UNCHANGED faults ELSE Fault("error")
           /\ GoTo(w, "embed",
                [job[w] EXCEPT !.plan = Repairs(job[w].own, job[w].known, unread)])
    BY <1>2 DEF Classify
  <2> DEFINE plan == Repairs(job[w].own, job[w].known, unread)
             j == [job[w] EXCEPT !.plan = plan]
  <2>2. plan \in SUBSET Event
    <3>1. job[w].own \in SUBSET Docs /\ job[w].known \in SUBSET Docs
      BY <1>a DEF Job
    <3> QED BY <3>1, RepairsType
  <2> HIDE DEF plan
  <2>3. j \in Job /\ j.ver = job[w].ver
    BY <1>a, <2>2 DEF Job
  <2>4. GoTo(w, "embed", j) /\ ingests' = ingests
    BY <1>2, <2>1 DEF Classify, histVars, plan
  <2> HIDE DEF j
  <2>5. RequestsTypeOK'
    BY <1>b, <1>c, <2>3, <2>4, MovesTyped DEF TypeOK, PCs
  <2>6. faults' \in [FaultKinds -> Nat]
    BY <2>1, FaultTyped DEF TypeOK, CountersTypeOK, FaultKinds
  <2> QED
    BY <1>2, <2>5, <2>6
    DEF Classify, TypeOK, TablesTypeOK, CountersTypeOK, pgVars, histVars
<1>3. CASE RepairBegin(w)
  <2>1. PICK t \in Ticks : GoTo(w, "repair", [job[w] EXCEPT !.at = t])
    BY <1>3 DEF RepairBegin
  <2> DEFINE j == [job[w] EXCEPT !.at = t]
  <2>2. j \in Job /\ j.ver = job[w].ver
    BY <1>a DEF Job
  <2>3. GoTo(w, "repair", j) /\ ingests' = ingests
    BY <1>3, <2>1 DEF RepairBegin, histVars
  <2> HIDE DEF j
  <2>4. RequestsTypeOK'
    BY <1>b, <1>c, <2>2, <2>3, MovesTyped DEF TypeOK, PCs
  <2> QED
    BY <1>3, <2>4
    DEF RepairBegin, TypeOK, TablesTypeOK, CountersTypeOK, pgVars, histVars
<1>4. CASE Repair(w)
  <2>1. RequestsTypeOK'
    BY <1>4, <1>c, NoJobType, CallDrainTyped DEF Repair, TypeOK, histVars
  <2>2. outbox' \subseteq Event
    <3>1. job[w].at \in Ticks \cup {0} /\ job[w].plan \subseteq Event
      BY <1>a DEF Job
    <3>2. ASSUME NEW e \in Event PROVE [e EXCEPT !.at = job[w].at] \in Event
      BY <3>1 DEF Event
    <3>3. outbox \subseteq Event
      BY DEF TypeOK
    <3> QED BY <1>4, <3>1, <3>2, <3>3 DEF Repair
  <2> QED
    BY <1>4, <2>1, <2>2
    DEF Repair, TypeOK, TablesTypeOK, CountersTypeOK, pgVars, histVars
<1> QED BY <1>1, <1>2, <1>3, <1>4 DEF ReconcileStep
(* The row whose turn it is is one of the drain's, and what is left of it  *)
(* are ids it names.                                                       *)
LEMMA TurnType ==
    ASSUME TypeOK, NEW w \in Workers, NEW r \in Turn(w)
    PROVE  /\ r \in dr[w].todo \cup dr[w].cur
           /\ r \in Event /\ Left(w, r) \subseteq Docs
<1>1. dr[w] \in Drain
  BY JobParts
<1>2. dr[w].todo \subseteq Event /\ dr[w].cur \subseteq Event /\ dr[w].left \subseteq Docs
  BY <1>1 DEF Drain
<1>3. r \in dr[w].todo \cup dr[w].cur
  BY DEF Turn
<1>4. r \in Event
  BY <1>2, <1>3
<1>5. r.docs \subseteq Docs
  BY <1>4 DEF Event
<1> QED BY <1>2, <1>3, <1>4, <1>5 DEF Left

(* What a failing call may leave under an id is something the index can    *)
(* hold.                                                                   *)
LEMMA AppliedType ==
    ASSUME TypeOK, NEW w \in Workers, NEW r \in Event, NEW d \in Docs
    PROVE  Applied(w, r, d) \in EsState
<1>1. r.type \in {"index", "set_available", "delete"}
  BY DEF Event
<1>2. es[d] \in EsState /\ "absent" \in EsState
  BY DEF TypeOK, EsState
<1> QED BY <1>1, <1>2, EsStateType DEF Applied

(* A step of a drain that stays in the drain and touches no table.         *)
LEMMA PublishTyped ==
    ASSUME TypeOK, NEW w \in Workers, NEW d \in Drain,
           dr' = [dr EXCEPT ![w] = d], d.then = dr[w].then,
           pc[w] \in {"drain", "publish"}, pc' = [pc EXCEPT ![w] = "publish"],
           es' \in [Docs -> EsState], faults' \in [FaultKinds -> Nat],
           UNCHANGED <<pgVars, outbox, job, histVars>>
    PROVE  TypeOK'
<1>1. RequestsTypeOK'
  BY DrainsOnTyped DEF TypeOK, histVars
<1> QED
  BY <1>1 DEF TypeOK, TablesTypeOK, CountersTypeOK, pgVars, histVars

LEMMA RelayTyped ==
    ASSUME TypeOK, NEW w \in Workers, DrainStep(w) \/ PublishError(w)
    PROVE  TypeOK'
<1>a. dr[w] \in Drain
  BY JobParts
<1>b. /\ dr[w].todo \subseteq Event /\ dr[w].cur \subseteq Event
      /\ dr[w].done \subseteq Event /\ dr[w].failed \subseteq Event
      /\ dr[w].left \subseteq Docs /\ dr[w].got \subseteq Docs \X EsState
      /\ dr[w].ok \in BOOLEAN /\ dr[w].then \in {"barrier", "idle"}
  BY <1>a DEF Drain
<1>c. /\ outbox \subseteq Event /\ es \in [Docs -> EsState]
      /\ faults \in [FaultKinds -> Nat] /\ dr \in [Workers -> Drain]
      /\ pc \in [Workers -> PCs] /\ RequestsTypeOK
  BY DEF TypeOK, CountersTypeOK, RequestsTypeOK
<1>d. ASSUME Draining(w), UNCHANGED pc
      PROVE  /\ pc[w] \in {"drain", "publish"}
             /\ pc' = [pc EXCEPT ![w] = "publish"]
  BY <1>c, <1>d DEF Draining
<1>e. ASSUME NEW r \in Event, NEW left \in SUBSET Docs,
             NEW g \in SUBSET (Docs \X EsState), Advance(w, r, left, g),
             Draining(w), es' \in [Docs -> EsState],
             UNCHANGED <<pgVars, outbox, pc, job, histVars, faults>>
      PROVE  TypeOK'
  <2> DEFINE d == [dr[w] EXCEPT !.cur = {r}, !.left = left, !.got = g]
  <2>1. d \in Drain /\ d.then = dr[w].then
    BY <1>a DEF Drain
  <2>2. dr' = [dr EXCEPT ![w] = d]
    BY <1>c, <1>e DEF Advance
  <2> HIDE DEF d
  <2> QED BY <1>c, <1>d, <1>e, <2>1, <2>2, PublishTyped
<1>f. ASSUME NEW r \in Event, GiveUp(w, r), Draining(w),
             es' \in [Docs -> EsState], faults' \in [FaultKinds -> Nat],
             UNCHANGED <<pgVars, outbox, pc, job, histVars>>
      PROVE  TypeOK'
  <2> DEFINE d == [dr[w] EXCEPT !.cur = {r}, !.left = {}, !.got = {}, !.ok = FALSE]
  <2>1. d \in Drain /\ d.then = dr[w].then
    BY <1>a DEF Drain
  <2>2. dr' = [dr EXCEPT ![w] = d]
    BY <1>c, <1>f DEF GiveUp
  <2> HIDE DEF d
  <2> QED BY <1>c, <1>d, <1>f, <2>1, <2>2, PublishTyped
<1>1. CASE DrainSelect(w)
  <2> DEFINE d == [dr[w] EXCEPT !.todo = outbox]
  <2>1. d \in Drain /\ d.then = dr[w].then
    BY <1>a, <1>c DEF Drain
  <2>2. dr' = [dr EXCEPT ![w] = d] /\ pc[w] = "drain"
        /\ pc' = [pc EXCEPT ![w] = "publish"]
        /\ UNCHANGED <<pgVars, outbox, es, job, histVars, faults>>
    BY <1>1, <1>c DEF DrainSelect
  <2> HIDE DEF d
  <2> QED BY <1>c, <2>1, <2>2, PublishTyped
<1>2. CASE PublishIndex(w)
  <2>1. PICK r \in Turn(w) : \E d \in Left(w, r) :
           /\ es' = [es EXCEPT ![d] = IndexedAs(r.available)]
           /\ Advance(w, r, Left(w, r) \ {d}, {})
    BY <1>2 DEF PublishIndex
  <2>2. r \in Event /\ Left(w, r) \subseteq Docs
    BY TurnType
  <2>3. PICK d \in Left(w, r) :
           /\ es' = [es EXCEPT ![d] = IndexedAs(r.available)]
           /\ Advance(w, r, Left(w, r) \ {d}, {})
    BY <2>1
  <2>4. es' \in [Docs -> EsState]
    BY <1>c, <2>3, EsStateType
  <2> QED BY <1>2, <1>e, <2>2, <2>3, <2>4 DEF PublishIndex
<1>3. CASE PublishGet(w)
  <2>1. PICK r \in Turn(w) : \E d \in Left(w, r) : Advance(w, r, Left(w, r), {<<d, es[d]>>})
    BY <1>3 DEF PublishGet
  <2>2. r \in Event /\ Left(w, r) \subseteq Docs
    BY TurnType
  <2>3. PICK d \in Left(w, r) : Advance(w, r, Left(w, r), {<<d, es[d]>>})
    BY <2>1
  <2>4. {<<d, es[d]>>} \in SUBSET (Docs \X EsState) /\ es' \in [Docs -> EsState]
    BY <1>3, <1>c, <2>2 DEF PublishGet
  <2> QED BY <1>3, <1>e, <2>2, <2>3, <2>4 DEF PublishGet
<1>4. CASE PublishPut(w)
  <2>1. PICK r \in dr[w].cur, g \in dr[w].got :
           /\ es' = [es EXCEPT ![g[1]] = WithAvailable(g[2], r.available)]
           /\ Advance(w, r, dr[w].left \ {g[1]}, {})
    BY <1>4 DEF PublishPut
  <2>2. r \in Event /\ dr[w].left \ {g[1]} \in SUBSET Docs
    BY <1>b
  <2>3. es' \in [Docs -> EsState]
    BY <1>c, <2>1, EsStateType
  <2> QED BY <1>4, <1>e, <2>1, <2>2, <2>3 DEF PublishPut
<1>5. CASE PublishDelete(w)
  <2>1. PICK r \in Turn(w) : \E d \in Left(w, r) :
           /\ es' = [es EXCEPT ![d] = "absent"]
           /\ Advance(w, r, Left(w, r) \ {d}, {})
    BY <1>5 DEF PublishDelete
  <2>2. r \in Event /\ Left(w, r) \subseteq Docs
    BY TurnType
  <2>3. PICK d \in Left(w, r) :
           /\ es' = [es EXCEPT ![d] = "absent"]
           /\ Advance(w, r, Left(w, r) \ {d}, {})
    BY <2>1
  <2>4. es' \in [Docs -> EsState]
    BY <1>c, <2>3 DEF EsState
  <2> QED BY <1>5, <1>e, <2>2, <2>3, <2>4 DEF PublishDelete
<1>6. CASE PublishMissing(w)
  <2>1. PICK r \in Turn(w) : GiveUp(w, r)
    BY <1>6 DEF PublishMissing
  <2>2. r \in Event
    BY TurnType
  <2>3. es' \in [Docs -> EsState] /\ faults' \in [FaultKinds -> Nat]
    BY <1>6, <1>c DEF PublishMissing
  <2> QED BY <1>6, <1>f, <2>1, <2>2, <2>3 DEF PublishMissing
<1>7. CASE PublishError(w)
  <2>1. PICK r \in Turn(w) : \E d \in Left(w, r) :
           /\ es' \in {es, [es EXCEPT ![d] = Applied(w, r, d)]}
           /\ GiveUp(w, r)
    BY <1>7 DEF PublishError
  <2>2. r \in Event /\ Left(w, r) \subseteq Docs
    BY TurnType
  <2>3. PICK d \in Left(w, r) :
           /\ es' \in {es, [es EXCEPT ![d] = Applied(w, r, d)]}
           /\ GiveUp(w, r)
    BY <2>1
  <2>4. Applied(w, r, d) \in EsState
    BY <2>2, AppliedType
  <2>5. es' \in [Docs -> EsState]
    BY <1>c, <2>3, <2>4
  <2>6. faults' \in [FaultKinds -> Nat]
    BY <1>7, <1>c, FaultTyped DEF PublishError, FaultKinds
  <2> QED BY <1>7, <1>f, <2>2, <2>3, <2>5, <2>6 DEF PublishError
<1>8. CASE DrainMark(w)
  <2>1. PICK r \in dr[w].cur :
           /\ AtUpdate(w, r)
           /\ dr' = [dr EXCEPT ![w].todo = @ \ {r}, ![w].cur = {}, ![w].ok = TRUE,
                               ![w].done = IF dr[w].ok THEN @ \cup {r} ELSE @,
                               ![w].failed = IF dr[w].ok THEN @ ELSE @ \cup {r}]
    BY <1>8 DEF DrainMark
  <2> DEFINE d == [dr[w] EXCEPT !.todo = @ \ {r}, !.cur = {}, !.ok = TRUE,
                                !.done = IF dr[w].ok THEN @ \cup {r} ELSE @,
                                !.failed = IF dr[w].ok THEN @ ELSE @ \cup {r}]
  <2>2. r \in Event
    BY <1>b
  <2>3. d \in Drain /\ d.then = dr[w].then
    BY <1>a, <1>b, <2>2 DEF Drain
  <2>4. dr' = [dr EXCEPT ![w] = d]
    BY <1>c, <2>1
  <2> HIDE DEF d
  <2>5. Draining(w) /\ UNCHANGED <<pgVars, outbox, es, pc, job, histVars, faults>>
    BY <1>8, <2>1 DEF DrainMark, AtUpdate
  <2> QED BY <1>c, <1>d, <2>3, <2>4, <2>5, PublishTyped
<1>9. CASE DrainDeadlock(w)
  <2>1. RequestsTypeOK'
    BY <1>9, IngestsBounded, EndRequestTyped DEF DrainDeadlock, TypeOK, histVars
  <2> QED
    BY <1>9, <2>1
    DEF DrainDeadlock, TypeOK, TablesTypeOK, CountersTypeOK, pgVars, histVars
<1>10. CASE DrainCommit(w)
  <2>1. outbox' \subseteq Event
    <3>1. \A f \in dr[w].failed : Retried(f) \in Event
      BY <1>b, RetriedType
    <3> QED BY <1>10, <1>c, <3>1 DEF DrainCommit, OutboxAfter
  <2>2. RequestsTypeOK'
    <3>1. CASE dr[w].then = "idle"
      BY <1>10, <3>1, IngestsBounded, EndRequestTyped DEF DrainCommit, TypeOK, histVars
    <3>2. CASE dr[w].then = "barrier"
      <4>1. /\ pc[w] = "publish" /\ pc' = [pc EXCEPT ![w] = "barrier"]
            /\ dr' = [dr EXCEPT ![w] = NoDrain] /\ job' = job /\ ingests' = ingests
        BY <1>10, <3>2 DEF DrainCommit, Draining, histVars
      <4>2. /\ pc' \in [Workers -> PCs] /\ job' \in [Workers -> Job]
            /\ dr' \in [Workers -> Drain]
        BY <1>c, <4>1, NoDrainType DEF RequestsTypeOK, PCs
      <4>3. ASSUME NEW v \in Workers
            PROVE  job'[v].ver <= ingests' /\ (Making(v)' => job'[v].ver >= 1)
        <5>1. job[v].ver <= ingests /\ (Making(v) => job[v].ver >= 1)
          BY <1>c DEF RequestsTypeOK
        <5>2. CASE v = w
          BY <3>2, <4>1, <5>1, <5>2 DEF Making
        <5>3. CASE v # w
          <6>1. pc'[v] = pc[v] /\ dr'[v] = dr[v]
            BY <1>c, <4>1, <5>3
          <6> QED BY <4>1, <5>1, <6>1 DEF Making
        <5> QED BY <5>2, <5>3
      <4> QED BY <4>2, <4>3 DEF RequestsTypeOK
    <3> QED BY <1>b, <3>1, <3>2
  <2> QED
    BY <1>10, <2>1, <2>2
    DEF DrainCommit, TypeOK, TablesTypeOK, CountersTypeOK, pgVars, histVars
<1> QED
  BY <1>1, <1>2, <1>3, <1>4, <1>5, <1>6, <1>7, <1>8, <1>9, <1>10 DEF DrainStep

LEMMA TypeNext == TypeOK /\ [Next]_vars => TypeOK'
<1> SUFFICES ASSUME TypeOK, [Next]_vars PROVE TypeOK'
  OBVIOUS
<1>1. CASE \E w \in Workers : Arrive(w) \/ Work(w)
  BY <1>1, IngestTyped, GcTyped, ReconcileTyped, PurgeTyped, RelayTyped DEF Arrive, Work
<1>2. CASE \E w \in Workers : PublishError(w)
  BY <1>2, RelayTyped
<1>3. ASSUME NEW w \in Workers, Abort(w) PROVE TypeOK'
  <2>1. RequestsTypeOK'
    BY <1>3, IngestsBounded, EndRequestTyped DEF Abort, TypeOK, histVars
  <2>2. faults' \in [FaultKinds -> Nat]
    BY <1>3, FaultTyped DEF Abort, TypeOK, CountersTypeOK, FaultKinds
  <2> QED
    BY <1>3, <2>1, <2>2
    DEF Abort, TypeOK, TablesTypeOK, CountersTypeOK, pgVars, histVars
<1>4. ASSUME NEW d \in Docs, EsLose(d) PROVE TypeOK'
  <2>1. faults' \in [FaultKinds -> Nat]
    BY <1>4, FaultTyped DEF EsLose, TypeOK, CountersTypeOK, FaultKinds
  <2>2. es' \in [Docs -> EsState]
    BY <1>4 DEF EsLose, TypeOK, EsState
  <2>3. RequestsTypeOK'
    BY <1>4 DEF EsLose, TypeOK, RequestsTypeOK, Making, reqVars, histVars
  <2> QED
    BY <1>4, <2>1, <2>2, <2>3
    DEF EsLose, TypeOK, TablesTypeOK, CountersTypeOK, pgVars, histVars
<1>5. CASE UNCHANGED vars
  BY <1>5 DEF vars, pgVars, reqVars, histVars, TypeOK, TablesTypeOK,
     RequestsTypeOK, Making, CountersTypeOK
<1> QED BY <1>1, <1>2, <1>3, <1>4, <1>5 DEF Next

(* Type correctness: whatever the requests, their interleaving and the     *)
(* faults, the tables, the outbox, the index and the locals of the         *)
(* requests hold what their definitions say, and no version number exceeds *)
(* the number of ingests started (pipeline.py:193).                        *)
THEOREM TypeCorrect == Spec => []TypeOK
BY TypeInit, TypeNext, PTL DEF Spec

---------------------------------------------------------------------------
(***************************************************************************)
(* A version that is only staged cannot be found, for every value of the   *)
(* constants.  The invariant is StagedInv of Indexing: what is visible,    *)
(* and everything that may yet make a document visible, is of a version    *)
(* that a flip has published or of the default version.  A flip publishes  *)
(* the version in the very step that queues its visibility; nothing else   *)
(* queues visibility but a reconciliation, for documents that the active_* *)
(* columns name, and those only ever name published versions.              *)
(***************************************************************************)
(* What is published stays published: activated only grows.                *)
LEMMA ActivatedGrows ==
    ASSUME [Next]_vars
    PROVE  activated \subseteq activated'
<1>1. ASSUME NEW w \in Workers, Arrive(w) PROVE activated' = activated
  BY <1>1 DEF Arrive, IngestStart, GcBegin, ReconcileLoad, PurgeBegin, StartUpkeep
<1>2. ASSUME NEW w \in Workers, Work(w) PROVE activated \subseteq activated'
  <2>1. CASE Flip(w)
    BY <2>1 DEF Flip
  <2>2. CASE ~Flip(w)
    BY <1>2, <2>2
    DEF Work, IngestStep, GcStep, ReconcileStep, DrainStep, Stage, StageFails,
        BarrierPass, BarrierFail, FlipBegin, GcDelete, GcNothing, Classify,
        RepairBegin, Repair, PurgeCommit, DrainSelect, PublishIndex, PublishGet,
        PublishPut, PublishDelete, PublishMissing, DrainMark, DrainDeadlock,
        DrainCommit, histVars
  <2> QED BY <2>1, <2>2
<1>3. ASSUME NEW w \in Workers, PublishError(w) \/ Abort(w) PROVE activated' = activated
  BY <1>3 DEF PublishError, Abort, histVars
<1>4. ASSUME NEW d \in Docs, EsLose(d) PROVE activated' = activated
  BY <1>4 DEF EsLose, histVars
<1>5. CASE UNCHANGED vars
  BY <1>5 DEF vars, histVars
<1> QED BY <1>1, <1>2, <1>3, <1>4, <1>5 DEF Next

(* The parts of the invariant survive when activated grows.                *)
LEMMA PublishedGrows ==
    ASSUME activated \subseteq activated', NEW CONSTANT ds, Published(ds)
    PROVE  Published(ds)'
BY DEF Published, DefaultVersion

LEMMA ShowsGrows ==
    ASSUME activated \subseteq activated', NEW CONSTANT events, ShowsPublished(events)
    PROVE  ShowsPublished(events)'
BY PublishedGrows DEF ShowsPublished

LEMMA DrainGrows ==
    ASSUME activated \subseteq activated', NEW CONSTANT d, DrainStaged(d)
    PROVE  DrainStaged(d)'
BY ShowsGrows DEF DrainStaged

LEMMA JobGrows ==
    ASSUME activated \subseteq activated', NEW CONSTANT at, NEW CONSTANT j, JobStaged(at, j)
    PROVE  JobStaged(at, j)'
BY ShowsGrows, PublishedGrows DEF JobStaged
---------------------------------------------------------------------------
(* The helpers a step moves its request with.                              *)
LEMMA IdleStaged == DrainStaged(NoDrain) /\ \A at : JobStaged(at, NoJob)
BY DEF DrainStaged, JobStaged, ShowsPublished, Published, NoDrain, NoJob

(* The requests of the other workers are as they were; worker w's is j at  *)
(* next with the drain d.                                                  *)
LEMMA RequestsStagedStep ==
    ASSUME TypeOK, StagedInv, activated \subseteq activated', NEW w \in Workers,
           NEW CONSTANT next, NEW CONSTANT j, NEW CONSTANT d,
           pc' = [pc EXCEPT ![w] = next], job' = [job EXCEPT ![w] = j],
           dr' = [dr EXCEPT ![w] = d],
           DrainStaged(d)', JobStaged(next, j)'
    PROVE  \A v \in Workers : DrainStaged(dr[v])' /\ JobStaged(pc[v], job[v])'
<1> SUFFICES ASSUME NEW v \in Workers
             PROVE  DrainStaged(dr[v])' /\ JobStaged(pc[v], job[v])'
  OBVIOUS
<1>1. pc \in [Workers -> PCs] /\ job \in [Workers -> Job] /\ dr \in [Workers -> Drain]
  BY DEF TypeOK, RequestsTypeOK
<1>2. CASE v = w
  <2>1. pc'[v] = next /\ job'[v] = j /\ dr'[v] = d
    BY <1>1, <1>2
  <2> QED BY <2>1
<1>3. CASE v # w
  <2>1. pc'[v] = pc[v] /\ job'[v] = job[v] /\ dr'[v] = dr[v]
    BY <1>1, <1>3
  <2>2. DrainStaged(dr[v]) /\ JobStaged(pc[v], job[v])
    BY DEF StagedInv
  <2> QED BY <2>1, <2>2, DrainGrows, JobGrows
<1> QED BY <1>2, <1>3
(* A step that ends the request, or moves it on with its drain as it is.   *)
LEMMA EndStaged ==
    ASSUME TypeOK, StagedInv, activated \subseteq activated', NEW w \in Workers,
           EndRequest(w)
    PROVE  \A v \in Workers : DrainStaged(dr[v])' /\ JobStaged(pc[v], job[v])'
<1>1. DrainStaged(NoDrain)' /\ JobStaged("idle", NoJob)'
  BY IdleStaged, DrainGrows, JobGrows
<1> QED BY <1>1, RequestsStagedStep DEF EndRequest

LEMMA MoveStaged ==
    ASSUME TypeOK, StagedInv, activated \subseteq activated', NEW w \in Workers,
           NEW next, NEW j, StartRequest(w, next, j) \/ GoTo(w, next, j),
           JobStaged(next, j)'
    PROVE  \A v \in Workers : DrainStaged(dr[v])' /\ JobStaged(pc[v], job[v])'
<1>1. dr \in [Workers -> Drain]
  BY DEF TypeOK, RequestsTypeOK
<1>2. dr' = [dr EXCEPT ![w] = dr[w]]
  BY <1>1 DEF StartRequest, GoTo
<1>3. DrainStaged(dr[w])
  BY DEF StagedInv
<1> QED BY <1>2, <1>3, DrainGrows, RequestsStagedStep DEF StartRequest, GoTo

LEMMA CallStaged ==
    ASSUME TypeOK, StagedInv, activated \subseteq activated', NEW w \in Workers,
           NEW then, NEW j, CallDrain(w, then, j), JobStaged("drain", j)'
    PROVE  \A v \in Workers : DrainStaged(dr[v])' /\ JobStaged(pc[v], job[v])'
<1> DEFINE d == [NoDrain EXCEPT !.then = then]
<1>1. d.todo = {} /\ d.cur = {} /\ d.failed = {}
  BY DEF NoDrain
<1>2. dr' = [dr EXCEPT ![w] = d]
  BY DEF CallDrain
<1> HIDE DEF d
<1>3. DrainStaged(d)
  BY <1>1 DEF DrainStaged, ShowsPublished
<1> QED BY <1>2, <1>3, DrainGrows, RequestsStagedStep DEF CallDrain

(* What a step leaves alone stays right.                                   *)
LEMMA KeepsVisible ==
    ASSUME StagedInv, activated \subseteq activated', es' = es
    PROVE  StagedNeverSearchable'
BY DEF StagedInv, StagedNeverSearchable, DefaultVersion

LEMMA KeepsPointers ==
    ASSUME StagedInv, activated \subseteq activated', active' = active
    PROVE  (\A p \in Pointers : active[p] \in activated \cup {DefaultVersion})'
BY DEF StagedInv, DefaultVersion

LEMMA KeepsOutbox ==
    ASSUME StagedInv, activated \subseteq activated', NEW added,
           outbox' \subseteq outbox \cup added,
           \A e \in added : e.available = 1 => Published(e.docs)'
    PROVE  ShowsPublished(outbox)'
<1>1. \A e \in outbox : e.available = 1 => Published(e.docs)'
  BY PublishedGrows DEF StagedInv, ShowsPublished
<1> QED BY <1>1 DEF ShowsPublished
LEMMA StagedKept ==
    ASSUME StagedInv, activated \subseteq activated', NEW added,
           UNCHANGED <<active, es>>, outbox' \subseteq outbox \cup added,
           \A e \in added : e.available = 1 => Published(e.docs)',
           \A v \in Workers : DrainStaged(dr[v])' /\ JobStaged(pc[v], job[v])'
    PROVE  StagedInv'
<1>1. StagedNeverSearchable'
  BY KeepsVisible
<1>2. (\A p \in Pointers : active[p] \in activated \cup {DefaultVersion})'
  BY KeepsPointers
<1>3. ShowsPublished(outbox)'
  BY KeepsOutbox
<1> QED BY <1>1, <1>2, <1>3 DEF StagedInv

LEMMA StagedShown ==
    ASSUME StagedInv, activated \subseteq activated', UNCHANGED <<active, outbox>>,
           StagedNeverSearchable',
           \A v \in Workers : DrainStaged(dr[v])' /\ JobStaged(pc[v], job[v])'
    PROVE  StagedInv'
<1>1. (\A p \in Pointers : active[p] \in activated \cup {DefaultVersion})'
  BY KeepsPointers
<1>2. ShowsPublished(outbox)'
  BY ShowsGrows DEF StagedInv, ShowsPublished
<1> QED BY <1>1, <1>2 DEF StagedInv

LEMMA StagedMoved ==
    ASSUME StagedInv, activated \subseteq activated', UNCHANGED <<active, outbox, es>>,
           \A v \in Workers : DrainStaged(dr[v])' /\ JobStaged(pc[v], job[v])'
    PROVE  StagedInv'
BY KeepsVisible, StagedShown

---------------------------------------------------------------------------
(* One lemma for each module's actions.                                    *)
LEMMA IngestStaged ==
    ASSUME TypeOK, StagedInv, activated \subseteq activated', NEW w \in Workers,
           IngestStart(w) \/ IngestStep(w)
    PROVE  StagedInv'
<1>a. JobStaged(pc[w], job[w])
  BY DEF StagedInv
<1>1. CASE IngestStart(w)
  <2>1. /\ UNCHANGED <<active, outbox, es>>
        /\ ingests < MaxIngests
    BY <1>1 DEF IngestStart, pgVars
  <2>2. PICK v \in Versions :
           StartRequest(w, "parse", [NoJob EXCEPT !.ver = v, !.own = NewDocs(v, ingests + 1)])
    BY <1>1 DEF IngestStart
  <2> DEFINE j == [NoJob EXCEPT !.ver = v, !.own = NewDocs(v, ingests + 1)]
  <2>3. j.ver = v /\ j.own = NewDocs(v, ingests + 1) /\ j.plan = {}
    BY DEF NoJob
  <2>4. StartRequest(w, "parse", j)
    BY <2>2
  <2>5. ingests + 1 \in Versions
    BY <2>1, IngestsBounded DEF Versions
  <2> HIDE DEF j
  <2>6. JobStaged("parse", j)
    BY <2>3, <2>5, NewDocsType DEF JobStaged, ShowsPublished
  <2>7. \A u \in Workers : DrainStaged(dr[u])' /\ JobStaged(pc[u], job[u])'
    BY <2>4, <2>6, JobGrows, MoveStaged
  <2> QED BY <2>1, <2>7, StagedMoved
<1>2. CASE Stage(w)
  <2>1. JobStaged("drain", job[w])
    BY <1>a, <1>2 DEF Stage, JobStaged
  <2>2. \A u \in Workers : DrainStaged(dr[u])' /\ JobStaged(pc[u], job[u])'
    BY <1>2, <2>1, JobGrows, CallStaged DEF Stage
  <2>3. PICK t \in Ticks : outbox' = outbox \cup StagedEvents(t, job[w].own)
    BY <1>2 DEF Stage
  <2>4. \A e \in StagedEvents(t, job[w].own) : e.available = 0
    BY DEF StagedEvents, IndexEvent
  <2>5. UNCHANGED <<active, es>>
    BY <1>2 DEF Stage
  <2> QED BY <2>2, <2>3, <2>4, <2>5, StagedKept
<1>3. CASE StageFails(w) \/ BarrierFail(w)
  <2>1. EndRequest(w) /\ UNCHANGED <<active, outbox, es>>
    BY <1>3 DEF StageFails, BarrierFail, pgVars
  <2> QED BY <2>1, EndStaged, StagedMoved
<1>4. CASE BarrierPass(w)
  <2>1. JobStaged("flip", job[w])
    BY <1>a, <1>4 DEF BarrierPass, JobStaged
  <2>2. \A u \in Workers : DrainStaged(dr[u])' /\ JobStaged(pc[u], job[u])'
    BY <1>4, <2>1, JobGrows, MoveStaged DEF BarrierPass
  <2>3. UNCHANGED <<active, outbox, es>>
    BY <1>4 DEF BarrierPass, pgVars
  <2> QED BY <2>2, <2>3, StagedMoved
<1>5. CASE FlipBegin(w)
  <2>1. PICK t \in Ticks :
           GoTo(w, "flipping", [job[w] EXCEPT !.at = t,
                  !.known = {d \in rows : VersionOf(d) < job[w].ver}])
    BY <1>5 DEF FlipBegin
  <2> DEFINE j == [job[w] EXCEPT !.at = t,
                     !.known = {d \in rows : VersionOf(d) < job[w].ver}]
  <2>2. j.ver = job[w].ver /\ j.own = job[w].own /\ j.plan = job[w].plan
    BY JobParts DEF Job
  <2>3. GoTo(w, "flipping", j) /\ pc[w] = "flip" /\ UNCHANGED <<active, outbox, es>>
    BY <1>5, <2>1 DEF FlipBegin, pgVars
  <2> HIDE DEF j
  <2>4. JobStaged("flipping", j)
    BY <1>a, <2>2, <2>3 DEF JobStaged
  <2>5. \A u \in Workers : DrainStaged(dr[u])' /\ JobStaged(pc[u], job[u])'
    BY <2>3, <2>4, JobGrows, MoveStaged
  <2> QED BY <2>3, <2>5, StagedMoved
<1>6. CASE Flip(w)
  <2> DEFINE v == job[w].ver
             new == SetEvent(job[w].at, job[w].own, 1)
             old == IfAny(job[w].known, SetEvent(job[w].at, job[w].known, 0))
  <2>1. /\ active' = IF exists THEN [p \in Pointers |-> v] ELSE active
        /\ activated' = activated \cup {v}
        /\ outbox' = outbox \cup ({new} \cup old)
        /\ CallDrain(w, "idle", NoJob) /\ pc[w] = "flipping" /\ es' = es
    BY <1>6 DEF Flip
  <2>2. \A d \in job[w].own : VersionOf(d) \in activated' \cup {DefaultVersion}
    BY <1>a, <2>1 DEF JobStaged
  <2>3. \A e \in {new} \cup old : e.available = 1 => Published(e.docs)'
    <3>1. new.docs = job[w].own
      BY DEF SetEvent
    <3>2. \A e \in old : e.available = 0
      BY DEF IfAny, SetEvent
    <3> HIDE DEF new, old
    <3> QED BY <2>2, <3>1, <3>2 DEF Published, DefaultVersion
  <2>4. (\A p \in Pointers : active[p] \in activated \cup {DefaultVersion})'
    BY <2>1 DEF StagedInv, DefaultVersion
  <2>5. \A u \in Workers : DrainStaged(dr[u])' /\ JobStaged(pc[u], job[u])'
    BY <2>1, IdleStaged, JobGrows, CallStaged
  <2> HIDE DEF new, old, v
  <2>6. ShowsPublished(outbox)'
    BY <2>1, <2>3, KeepsOutbox
  <2>7. StagedNeverSearchable'
    BY <2>1, KeepsVisible
  <2> QED BY <2>6, <2>7, <2>4, <2>5 DEF StagedInv
<1> QED BY <1>1, <1>2, <1>3, <1>4, <1>5, <1>6 DEF IngestStep

LEMMA UpkeepStaged ==
    ASSUME TypeOK, StagedInv, activated \subseteq activated', NEW w \in Workers,
           GcBegin(w) \/ GcStep(w) \/ PurgeBegin(w) \/ PurgeCommit(w)
    PROVE  StagedInv'
<1>1. CASE GcBegin(w)
  <2>1. PICK t \in Ticks : StartRequest(w, "gcDelete", [NoJob EXCEPT !.at = t])
    BY <1>1 DEF GcBegin, StartUpkeep
  <2> DEFINE j == [NoJob EXCEPT !.at = t]
  <2>2. j.own = {} /\ j.plan = {} /\ StartRequest(w, "gcDelete", j)
    BY <2>1 DEF NoJob
  <2> HIDE DEF j
  <2>3. JobStaged("gcDelete", j)
    BY <2>2 DEF JobStaged, ShowsPublished
  <2>4. \A u \in Workers : DrainStaged(dr[u])' /\ JobStaged(pc[u], job[u])'
    BY <2>2, <2>3, JobGrows, MoveStaged
  <2>5. UNCHANGED <<active, outbox, es>>
    BY <1>1 DEF GcBegin, pgVars
  <2> QED BY <2>4, <2>5, StagedMoved
<1>2. CASE GcNothing(w)
  <2>1. EndRequest(w) /\ UNCHANGED <<active, outbox, es>>
    BY <1>2 DEF GcNothing, pgVars
  <2> QED BY <2>1, EndStaged, StagedMoved
<1>3. CASE PurgeBegin(w)
  <2>1. PICK t \in Ticks :
           StartRequest(w, "purge", [NoJob EXCEPT !.at = t, !.known = rows])
    BY <1>3 DEF PurgeBegin, StartUpkeep
  <2> DEFINE j == [NoJob EXCEPT !.at = t, !.known = rows]
  <2>2. j.own = {} /\ j.plan = {} /\ StartRequest(w, "purge", j)
    BY <2>1 DEF NoJob
  <2> HIDE DEF j
  <2>3. JobStaged("purge", j)
    BY <2>2 DEF JobStaged, ShowsPublished
  <2>4. \A u \in Workers : DrainStaged(dr[u])' /\ JobStaged(pc[u], job[u])'
    BY <2>2, <2>3, JobGrows, MoveStaged
  <2>5. UNCHANGED <<active, outbox, es>>
    BY <1>3 DEF PurgeBegin, pgVars
  <2> QED BY <2>4, <2>5, StagedMoved
<1>4. CASE GcDelete(w) \/ PurgeCommit(w)
  <2>1. PICK ds : outbox' = outbox \cup IfAny(ds, DeleteEvent(job[w].at, ds))
    BY <1>4 DEF GcDelete, PurgeCommit
  <2>2. \A e \in IfAny(ds, DeleteEvent(job[w].at, ds)) : e.available = 0
    BY DEF IfAny, DeleteEvent
  <2>3. CallDrain(w, "idle", NoJob) /\ UNCHANGED <<active, es>>
    BY <1>4 DEF GcDelete, PurgeCommit
  <2>4. \A u \in Workers : DrainStaged(dr[u])' /\ JobStaged(pc[u], job[u])'
    BY <2>3, IdleStaged, JobGrows, CallStaged
  <2> QED BY <2>1, <2>2, <2>3, <2>4, StagedKept
<1> QED BY <1>1, <1>2, <1>3, <1>4 DEF GcStep
LEMMA ReconcileStaged ==
    ASSUME TypeOK, StagedInv, activated \subseteq activated', NEW w \in Workers,
           ReconcileLoad(w) \/ ReconcileStep(w)
    PROVE  StagedInv'
<1>a. JobStaged(pc[w], job[w])
  BY DEF StagedInv
<1>b. job[w] \in Job
  BY JobParts
<1>1. CASE ReconcileLoad(w)
  <2> DEFINE j == [NoJob EXCEPT !.own = ActiveDocs, !.known = rows]
  <2>1. j.own = ActiveDocs /\ j.plan = {}
    BY DEF NoJob
  <2>2. Published(ActiveDocs)
    BY DEF Published, ActiveDocs, StagedInv, Pointers
  <2>3. StartRequest(w, "classify", j) /\ UNCHANGED <<active, outbox, es>>
    BY <1>1 DEF ReconcileLoad, StartUpkeep, pgVars
  <2> HIDE DEF j
  <2>4. JobStaged("classify", j)
    BY <2>1, <2>2 DEF JobStaged, ShowsPublished
  <2>5. \A u \in Workers : DrainStaged(dr[u])' /\ JobStaged(pc[u], job[u])'
    BY <2>3, <2>4, JobGrows, MoveStaged
  <2> QED BY <2>3, <2>5, StagedMoved
<1>2. CASE Classify(w)
  <2>1. PICK unread \in SUBSET job[w].own :
           GoTo(w, "embed",
                [job[w] EXCEPT !.plan = Repairs(job[w].own, job[w].known, unread)])
    BY <1>2 DEF Classify
  <2> DEFINE plan == Repairs(job[w].own, job[w].known, unread)
             j == [job[w] EXCEPT !.plan = plan]
  <2>2. job[w].own \in SUBSET Docs /\ job[w].known \in SUBSET Docs
    BY <1>b DEF Job
  <2>3. \A e \in plan : e.available = 1 => e.docs \subseteq job[w].own
    BY <2>2, RepairsType
  <2>4. pc[w] = "classify" /\ GoTo(w, "embed", j) /\ UNCHANGED <<active, outbox, es>>
    BY <1>2, <2>1 DEF Classify, pgVars
  <2> HIDE DEF plan
  <2>5. j.own = job[w].own /\ j.plan = plan
    BY <1>b DEF Job
  <2> HIDE DEF j
  <2>6. JobStaged("embed", j)
    <3>1. Published(job[w].own)
      BY <1>a, <2>4 DEF JobStaged
    <3> QED BY <2>3, <2>5, <3>1 DEF JobStaged, ShowsPublished, Published
  <2>7. \A u \in Workers : DrainStaged(dr[u])' /\ JobStaged(pc[u], job[u])'
    BY <2>4, <2>6, JobGrows, MoveStaged
  <2> QED BY <2>4, <2>7, StagedMoved
<1>3. CASE RepairBegin(w)
  <2>1. PICK t \in Ticks : GoTo(w, "repair", [job[w] EXCEPT !.at = t])
    BY <1>3 DEF RepairBegin
  <2> DEFINE j == [job[w] EXCEPT !.at = t]
  <2>2. j.own = job[w].own /\ j.plan = job[w].plan
    BY <1>b DEF Job
  <2>3. pc[w] = "embed" /\ GoTo(w, "repair", j) /\ UNCHANGED <<active, outbox, es>>
    BY <1>3, <2>1 DEF RepairBegin, pgVars
  <2> HIDE DEF j
  <2>4. JobStaged("repair", j)
    BY <1>a, <2>2, <2>3 DEF JobStaged
  <2>5. \A u \in Workers : DrainStaged(dr[u])' /\ JobStaged(pc[u], job[u])'
    BY <2>3, <2>4, JobGrows, MoveStaged
  <2> QED BY <2>3, <2>5, StagedMoved
<1>4. CASE Repair(w)
  <2> DEFINE added == {[e EXCEPT !.at = job[w].at] : e \in job[w].plan}
  <2>1. outbox' = outbox \cup added /\ CallDrain(w, "idle", NoJob) /\ UNCHANGED <<active, es>>
    BY <1>4 DEF Repair, pgVars
  <2>2. \A e \in added : e.available = 1 => Published(e.docs)'
    <3>1. ASSUME NEW f \in job[w].plan, f.available = 1
          PROVE  Published(f.docs)'
      BY <1>a, <3>1, PublishedGrows DEF JobStaged, ShowsPublished
    <3>2. ASSUME NEW f \in job[w].plan, NEW e, e = [f EXCEPT !.at = job[w].at]
          PROVE  e.available = f.available /\ e.docs = f.docs
      BY <1>b, <3>2 DEF Job, Event
    <3> QED BY <3>1, <3>2
  <2> HIDE DEF added
  <2>3. \A u \in Workers : DrainStaged(dr[u])' /\ JobStaged(pc[u], job[u])'
    BY <2>1, IdleStaged, JobGrows, CallStaged
  <2> QED BY <2>1, <2>2, <2>3, StagedKept
<1> QED BY <1>1, <1>2, <1>3, <1>4 DEF ReconcileStep
(* What a call for a row that hides or deletes leaves is not visible; a    *)
(* failing call makes a document visible only for a row that shows it.     *)
LEMMA WrittenVisible ==
    /\ \A a \in {0, 1} : IndexedAs(a) = "visible" => a = 1
    /\ \A s : \A a \in {0, 1} : WithAvailable(s, a) = "visible" => a = 1
BY DEF IndexedAs, WithAvailable

LEMMA AppliedVisible ==
    ASSUME NEW w \in Workers, NEW r \in Event, NEW d \in Docs,
           Applied(w, r, d) = "visible"
    PROVE  es[d] = "visible" \/ r.available = 1
<1>1. r.type \in {"index", "set_available", "delete"} /\ r.available \in {0, 1}
  BY DEF Event
<1> QED BY <1>1, WrittenVisible DEF Applied

(* The index after one document has changed.                               *)
LEMMA VisibleAfter ==
    ASSUME TypeOK, StagedInv, activated \subseteq activated', NEW d \in Docs, NEW s,
           es' = [es EXCEPT ![d] = s],
           s = "visible" => es[d] = "visible" \/ VersionOf(d) \in activated \cup {DefaultVersion}
    PROVE  StagedNeverSearchable'
<1>1. es \in [Docs -> EsState]
  BY DEF TypeOK
<1>2. ASSUME NEW c \in Docs, es'[c] = "visible"
      PROVE  VersionOf(c) \in activated' \cup {DefaultVersion}
  <2>1. CASE c = d
    BY <1>1, <1>2, <2>1 DEF StagedInv, StagedNeverSearchable, DefaultVersion
  <2>2. CASE c # d
    BY <1>1, <1>2, <2>2 DEF StagedInv, StagedNeverSearchable, DefaultVersion
  <2> QED BY <2>1, <2>2
<1> QED BY <1>2 DEF StagedNeverSearchable, DefaultVersion

LEMMA RelayStaged ==
    ASSUME TypeOK, StagedInv, activated \subseteq activated', NEW w \in Workers,
           DrainStep(w) \/ PublishError(w)
    PROVE  StagedInv'
<1>a. /\ es \in [Docs -> EsState] /\ dr \in [Workers -> Drain]
      /\ pc \in [Workers -> PCs] /\ job \in [Workers -> Job]
  BY DEF TypeOK, RequestsTypeOK
<1>b. dr[w] \in Drain /\ dr[w].cur \subseteq Event /\ dr[w].failed \subseteq Event
  BY JobParts DEF Drain
<1>c. DrainStaged(dr[w]) /\ JobStaged(pc[w], job[w])
  BY DEF StagedInv
<1>d. \A r \in dr[w].todo \cup dr[w].cur \cup dr[w].failed :
         r.available = 1 => Published(r.docs)
  BY <1>c DEF DrainStaged, ShowsPublished
<1>e. ASSUME NEW r \in Turn(w)
      PROVE  /\ r \in Event /\ r \in dr[w].todo \cup dr[w].cur
             /\ Left(w, r) \subseteq Docs /\ Left(w, r) \subseteq r.docs
             /\ r.available = 1 => Published(r.docs)
  <2>1. r \in Event /\ r \in dr[w].todo \cup dr[w].cur /\ Left(w, r) \subseteq Docs
    BY TurnType
  <2>2. Left(w, r) \subseteq r.docs
    BY <1>c DEF DrainStaged, Turn, Left
  <2> QED BY <1>d, <2>1, <2>2
<1>f. ASSUME NEW d, dr' = [dr EXCEPT ![w] = d], DrainStaged(d),
             pc' = [pc EXCEPT ![w] = "publish"], pc[w] \in {"drain", "publish"}, job' = job
      PROVE  \A v \in Workers : DrainStaged(dr[v])' /\ JobStaged(pc[v], job[v])'
  <2>1. JobStaged("publish", job[w])
    BY <1>c, <1>f DEF JobStaged
  <2>2. job' = [job EXCEPT ![w] = job[w]]
    BY <1>a, <1>f
  <2> QED BY <1>f, <2>1, <2>2, DrainGrows, JobGrows, RequestsStagedStep
<1>g. ASSUME NEW r \in dr[w].todo \cup dr[w].cur, NEW left, NEW g,
             left \subseteq r.docs, \A x \in g : x[1] \in r.docs,
             Advance(w, r, left, g), Draining(w), UNCHANGED <<pc, job>>
      PROVE  \A v \in Workers : DrainStaged(dr[v])' /\ JobStaged(pc[v], job[v])'
  <2> DEFINE d == [dr[w] EXCEPT !.cur = {r}, !.left = left, !.got = g]
  <2>1. dr' = [dr EXCEPT ![w] = d]
    BY <1>a, <1>g DEF Advance
  <2>2. /\ d.todo = dr[w].todo /\ d.cur = {r} /\ d.failed = dr[w].failed
        /\ d.left = left /\ d.got = g
    BY <1>b DEF Drain
  <2> HIDE DEF d
  <2>3. DrainStaged(d)
    BY <1>d, <1>g, <2>2 DEF DrainStaged, ShowsPublished
  <2>4. pc' = [pc EXCEPT ![w] = "publish"] /\ pc[w] = "publish"
    BY <1>a, <1>g DEF Draining
  <2> QED BY <1>f, <1>g, <2>1, <2>3, <2>4
<1>h. ASSUME NEW r \in Turn(w), GiveUp(w, r), Draining(w), UNCHANGED <<pc, job>>
      PROVE  \A v \in Workers : DrainStaged(dr[v])' /\ JobStaged(pc[v], job[v])'
  <2> DEFINE d == [dr[w] EXCEPT !.cur = {r}, !.left = {}, !.got = {}, !.ok = FALSE]
  <2>1. dr' = [dr EXCEPT ![w] = d]
    BY <1>a, <1>h DEF GiveUp
  <2>2. /\ d.todo = dr[w].todo /\ d.cur = {r} /\ d.failed = dr[w].failed
        /\ d.left = {} /\ d.got = {}
    BY <1>b DEF Drain
  <2> HIDE DEF d
  <2>3. DrainStaged(d)
    BY <1>d, <1>e, <1>h, <2>2 DEF DrainStaged, ShowsPublished
  <2>4. pc' = [pc EXCEPT ![w] = "publish"] /\ pc[w] = "publish"
    BY <1>a, <1>h DEF Draining
  <2> QED BY <1>f, <1>h, <2>1, <2>3, <2>4
<1>1. CASE DrainSelect(w)
  <2> DEFINE d == [dr[w] EXCEPT !.todo = outbox]
  <2>1. /\ dr' = [dr EXCEPT ![w] = d] /\ pc' = [pc EXCEPT ![w] = "publish"]
        /\ pc[w] = "drain" /\ job' = job /\ UNCHANGED <<active, outbox, es>>
    BY <1>1, <1>a DEF DrainSelect, pgVars
  <2>2. /\ d.todo = outbox /\ d.cur = dr[w].cur /\ d.failed = dr[w].failed
        /\ d.left = dr[w].left /\ d.got = dr[w].got
    BY <1>b DEF Drain
  <2> HIDE DEF d
  <2>3. DrainStaged(d)
    BY <1>c, <2>2 DEF DrainStaged, ShowsPublished, StagedInv
  <2>4. \A v \in Workers : DrainStaged(dr[v])' /\ JobStaged(pc[v], job[v])'
    BY <1>f, <2>1, <2>3
  <2> QED BY <2>1, <2>4, StagedMoved
<1>2. CASE PublishIndex(w)
  <2>1. PICK r \in Turn(w) : \E d \in Left(w, r) :
           /\ es' = [es EXCEPT ![d] = IndexedAs(r.available)]
           /\ Advance(w, r, Left(w, r) \ {d}, {})
    BY <1>2 DEF PublishIndex
  <2>d. PICK d \in Left(w, r) :
           /\ es' = [es EXCEPT ![d] = IndexedAs(r.available)]
           /\ Advance(w, r, Left(w, r) \ {d}, {})
    BY <2>1
  <2>2. Draining(w) /\ UNCHANGED <<active, outbox, pc, job>>
    BY <1>2 DEF PublishIndex, pgVars
  <2>3. \A v \in Workers : DrainStaged(dr[v])' /\ JobStaged(pc[v], job[v])'
    BY <1>e, <1>g, <2>d, <2>2
  <2>4. r.available \in {0, 1} /\ d \in Docs /\ d \in r.docs
    BY <1>e DEF Event
  <2>5. IndexedAs(r.available) = "visible" => VersionOf(d) \in activated \cup {DefaultVersion}
    BY <1>e, <2>4, WrittenVisible DEF Published
  <2>6. StagedNeverSearchable'
    BY <2>d, <2>4, <2>5, VisibleAfter
  <2> QED BY <2>2, <2>3, <2>6, StagedShown
<1>3. CASE PublishGet(w)
  <2>1. PICK r \in Turn(w) : \E d \in Left(w, r) :
           Advance(w, r, Left(w, r), {<<d, es[d]>>})
    BY <1>3 DEF PublishGet
  <2>d. PICK d \in Left(w, r) :
           Advance(w, r, Left(w, r), {<<d, es[d]>>})
    BY <2>1
  <2>2. Draining(w) /\ UNCHANGED <<active, outbox, es, pc, job>>
    BY <1>3 DEF PublishGet, pgVars
  <2>3. \A v \in Workers : DrainStaged(dr[v])' /\ JobStaged(pc[v], job[v])'
    BY <1>e, <1>g, <2>d, <2>2
  <2> QED BY <2>2, <2>3, StagedMoved
<1>4. CASE PublishPut(w)
  <2>1. PICK r \in dr[w].cur, g \in dr[w].got :
           /\ es' = [es EXCEPT ![g[1]] = WithAvailable(g[2], r.available)]
           /\ Advance(w, r, dr[w].left \ {g[1]}, {})
    BY <1>4 DEF PublishPut
  <2>2. Draining(w) /\ UNCHANGED <<active, outbox, pc, job>>
    BY <1>4 DEF PublishPut, pgVars
  <2>3. r \in Event /\ r.available \in {0, 1} /\ g[1] \in r.docs /\ g[1] \in Docs
    BY <1>b, <1>c DEF DrainStaged, Event
  <2>4. \A v \in Workers : DrainStaged(dr[v])' /\ JobStaged(pc[v], job[v])'
    <3>1. dr[w].left \ {g[1]} \subseteq r.docs
      BY <1>c DEF DrainStaged
    <3> QED BY <1>g, <2>1, <2>2, <3>1
  <2>5. WithAvailable(g[2], r.available) = "visible"
           => VersionOf(g[1]) \in activated \cup {DefaultVersion}
    BY <1>d, <2>3, WrittenVisible DEF Published
  <2>6. StagedNeverSearchable'
    BY <2>1, <2>3, <2>5, VisibleAfter
  <2> QED BY <2>2, <2>4, <2>6, StagedShown
<1>5. CASE PublishDelete(w)
  <2>1. PICK r \in Turn(w) : \E d \in Left(w, r) :
           /\ es' = [es EXCEPT ![d] = "absent"]
           /\ Advance(w, r, Left(w, r) \ {d}, {})
    BY <1>5 DEF PublishDelete
  <2>d. PICK d \in Left(w, r) :
           /\ es' = [es EXCEPT ![d] = "absent"]
           /\ Advance(w, r, Left(w, r) \ {d}, {})
    BY <2>1
  <2>2. Draining(w) /\ UNCHANGED <<active, outbox, pc, job>>
    BY <1>5 DEF PublishDelete, pgVars
  <2>3. \A v \in Workers : DrainStaged(dr[v])' /\ JobStaged(pc[v], job[v])'
    BY <1>e, <1>g, <2>d, <2>2
  <2>4. StagedNeverSearchable'
    BY <1>e, <2>d, VisibleAfter
  <2> QED BY <2>2, <2>3, <2>4, StagedShown
<1>6. CASE PublishMissing(w)
  <2>1. PICK r \in Turn(w) : GiveUp(w, r)
    BY <1>6 DEF PublishMissing
  <2>2. Draining(w) /\ UNCHANGED <<active, outbox, es, pc, job>>
    BY <1>6 DEF PublishMissing, pgVars
  <2> QED BY <1>h, <2>1, <2>2, StagedMoved
<1>7. CASE PublishError(w)
  <2>1. PICK r \in Turn(w) : \E d \in Left(w, r) :
           /\ es' \in {es, [es EXCEPT ![d] = Applied(w, r, d)]}
           /\ GiveUp(w, r)
    BY <1>7 DEF PublishError
  <2>d. PICK d \in Left(w, r) :
           /\ es' \in {es, [es EXCEPT ![d] = Applied(w, r, d)]}
           /\ GiveUp(w, r)
    BY <2>1
  <2>2. Draining(w) /\ UNCHANGED <<active, outbox, pc, job>>
    BY <1>7 DEF PublishError, pgVars
  <2>3. \A v \in Workers : DrainStaged(dr[v])' /\ JobStaged(pc[v], job[v])'
    BY <1>h, <2>d, <2>2
  <2>4. StagedNeverSearchable'
    <3>1. CASE es' = es
      BY <3>1, KeepsVisible
    <3>2. CASE es' = [es EXCEPT ![d] = Applied(w, r, d)]
      <4>1. d \in Docs /\ d \in r.docs /\ r \in Event
        BY <1>e
      <4>2. Applied(w, r, d) = "visible"
               => es[d] = "visible" \/ VersionOf(d) \in activated \cup {DefaultVersion}
        BY <1>e, <4>1, AppliedVisible DEF Published
      <4> QED BY <3>2, <4>1, <4>2, VisibleAfter
    <3> QED BY <2>d, <3>1, <3>2
  <2> QED BY <2>2, <2>3, <2>4, StagedShown
<1>8. CASE DrainMark(w)
  <2>1. PICK r \in dr[w].cur :
           /\ AtUpdate(w, r)
           /\ dr' = [dr EXCEPT ![w].todo = @ \ {r}, ![w].cur = {}, ![w].ok = TRUE,
                               ![w].done = IF dr[w].ok THEN @ \cup {r} ELSE @,
                               ![w].failed = IF dr[w].ok THEN @ ELSE @ \cup {r}]
    BY <1>8 DEF DrainMark
  <2> DEFINE d == [dr[w] EXCEPT !.todo = @ \ {r}, !.cur = {}, !.ok = TRUE,
                                !.done = IF dr[w].ok THEN @ \cup {r} ELSE @,
                                !.failed = IF dr[w].ok THEN @ ELSE @ \cup {r}]
  <2>2. dr' = [dr EXCEPT ![w] = d]
    BY <1>a, <2>1
  <2>3. /\ d.todo \subseteq dr[w].todo /\ d.cur = {}
        /\ d.failed \subseteq dr[w].failed \cup dr[w].cur
    BY <1>b DEF Drain
  <2> HIDE DEF d
  <2>4. DrainStaged(d)
    BY <1>d, <2>3 DEF DrainStaged, ShowsPublished
  <2>5. pc[w] = "publish" /\ UNCHANGED <<active, outbox, es, pc, job>>
    BY <1>8, <2>1 DEF DrainMark, AtUpdate, Draining, pgVars
  <2>6. \A v \in Workers : DrainStaged(dr[v])' /\ JobStaged(pc[v], job[v])'
    BY <1>a, <1>f, <2>2, <2>4, <2>5
  <2> QED BY <2>5, <2>6, StagedMoved
<1>9. CASE DrainDeadlock(w)
  <2>1. EndRequest(w) /\ UNCHANGED <<active, outbox, es>>
    BY <1>9 DEF DrainDeadlock, pgVars
  <2> QED BY <2>1, EndStaged, StagedMoved
<1>10. CASE DrainCommit(w)
  <2> DEFINE added == {Retried(f) : f \in dr[w].failed}
  <2>1. outbox' \subseteq outbox \cup added /\ UNCHANGED <<active, es>>
    BY <1>10 DEF DrainCommit, OutboxAfter, pgVars
  <2>2. \A e \in added : e.available = 1 => Published(e.docs)'
    <3>1. ASSUME NEW f \in dr[w].failed, Retried(f).available = 1
          PROVE  Published(Retried(f).docs)'
      <4>1. Retried(f).docs = f.docs /\ f.available = 1
        BY <1>b, <3>1, RetriedType
      <4>2. Published(f.docs)'
        BY <1>d, <4>1, PublishedGrows
      <4> QED BY <4>1, <4>2 DEF Published
    <3> QED BY <3>1 DEF Published
  <2>3. \A v \in Workers : DrainStaged(dr[v])' /\ JobStaged(pc[v], job[v])'
    <3>1. CASE dr[w].then = "idle"
      BY <1>10, <3>1, EndStaged DEF DrainCommit
    <3>2. CASE dr[w].then # "idle"
      <4>1. /\ pc' = [pc EXCEPT ![w] = dr[w].then] /\ dr' = [dr EXCEPT ![w] = NoDrain]
            /\ job' = [job EXCEPT ![w] = job[w]] /\ pc[w] = "publish"
        BY <1>10, <1>a, <3>2 DEF DrainCommit, Draining
      <4>2. dr[w].then = "barrier"
        BY <1>b, <3>2 DEF Drain
      <4>3. JobStaged("barrier", job[w])
        BY <1>c, <4>1 DEF JobStaged
      <4> QED BY <4>1, <4>2, <4>3, IdleStaged, DrainGrows, JobGrows, RequestsStagedStep
    <3> QED BY <3>1, <3>2
  <2> HIDE DEF added
  <2> QED BY <2>1, <2>2, <2>3, StagedKept
<1> QED
  BY <1>1, <1>2, <1>3, <1>4, <1>5, <1>6, <1>7, <1>8, <1>9, <1>10 DEF DrainStep

---------------------------------------------------------------------------
LEMMA StagedInit == Init => StagedInv
<1> SUFFICES ASSUME Init PROVE StagedInv
  OBVIOUS
<1>1. StagedNeverSearchable
  BY DEF Init, StagedNeverSearchable
<1>2. \A p \in Pointers : active[p] \in activated \cup {DefaultVersion}
  BY DEF Init
<1>3. ShowsPublished(outbox)
  BY DEF Init, ShowsPublished
<1>4. \A w \in Workers : DrainStaged(dr[w]) /\ JobStaged(pc[w], job[w])
  BY IdleStaged DEF Init
<1> QED BY <1>1, <1>2, <1>3, <1>4 DEF StagedInv

LEMMA StagedNext == TypeOK /\ StagedInv /\ [Next]_vars => StagedInv'
<1> SUFFICES ASSUME TypeOK, StagedInv, [Next]_vars PROVE StagedInv'
  OBVIOUS
<1>a. activated \subseteq activated'
  BY ActivatedGrows
<1>1. CASE \E w \in Workers : Arrive(w) \/ Work(w)
  BY <1>a, <1>1, IngestStaged, UpkeepStaged, ReconcileStaged, RelayStaged DEF Arrive, Work
<1>2. CASE \E w \in Workers : PublishError(w)
  BY <1>a, <1>2, RelayStaged
<1>3. ASSUME NEW w \in Workers, Abort(w) PROVE StagedInv'
  <2>1. EndRequest(w) /\ UNCHANGED <<active, outbox, es>>
    BY <1>3 DEF Abort, pgVars
  <2> QED BY <1>a, <2>1, EndStaged, StagedMoved
<1>4. ASSUME NEW d \in Docs, EsLose(d) PROVE StagedInv'
  <2>1. es' = [es EXCEPT ![d] = "absent"] /\ UNCHANGED <<active, outbox, pc, job, dr>>
    BY <1>4 DEF EsLose, pgVars, reqVars
  <2>2. StagedNeverSearchable'
    BY <1>a, <2>1, VisibleAfter
  <2>3. \A v \in Workers : DrainStaged(dr[v])' /\ JobStaged(pc[v], job[v])'
    BY <1>a, <2>1, DrainGrows, JobGrows DEF StagedInv
  <2> QED BY <1>a, <2>1, <2>2, <2>3, StagedShown
<1>5. CASE UNCHANGED vars
  <2>1. UNCHANGED <<active, outbox, es, pc, job, dr>>
    BY <1>5 DEF vars, pgVars, reqVars
  <2>2. \A v \in Workers : DrainStaged(dr[v])' /\ JobStaged(pc[v], job[v])'
    BY <1>a, <2>1, DrainGrows, JobGrows DEF StagedInv
  <2> QED BY <1>a, <2>1, <2>2, StagedMoved
<1> QED BY <1>1, <1>2, <1>3, <1>4, <1>5 DEF Next

(* The strengthened invariant: nothing visible, and nothing queued, held   *)
(* by a drain or planned by a reconciliation that would make a document    *)
(* visible, is of a version that no flip has published (pipeline.py:280,   *)
(* reconcile.py:156, relay.py:33).                                         *)
THEOREM StagedInvariant == Spec => []StagedInv
<1>1. Init => TypeOK /\ StagedInv
  BY TypeInit, StagedInit
<1>2. TypeOK /\ StagedInv /\ [Next]_vars => (TypeOK /\ StagedInv)'
  BY TypeNext, StagedNext
<1> QED BY <1>1, <1>2, PTL DEF Spec

(* A version that is only staged cannot be found, with any number of       *)
(* requests at a time, failing calls, deaths and losses: what the index    *)
(* shows is of a version that a flip has published, or of version 1, where *)
(* the active_* columns point by default (schema.sql:84).                  *)
THEOREM StagedSafe == Spec => []StagedNeverSearchable
<1>1. StagedInv => StagedNeverSearchable
  BY DEF StagedInv
<1> QED BY <1>1, StagedInvariant, PTL

---------------------------------------------------------------------------
(***************************************************************************)
(* One ingesting worker.  The version being made is the only one, so every *)
(* flip is to a newer version, whose rows are all there.                   *)
(***************************************************************************)

(* A request that moves on does not touch the others.                      *)
LEMMA OthersStay ==
    ASSUME TypeOK, NEW w \in Workers,
           \E n : pc' = [pc EXCEPT ![w] = n],
           \E j : job' = [job EXCEPT ![w] = j],
           \E d : dr' = [dr EXCEPT ![w] = d]
    PROVE  \A v \in Workers : v # w =>
                /\ pc'[v] = pc[v] /\ job'[v] = job[v] /\ dr'[v] = dr[v]
                /\ Making(v)' <=> Making(v)
<1>1. pc \in [Workers -> PCs] /\ job \in [Workers -> Job] /\ dr \in [Workers -> Drain]
  BY DEF TypeOK, RequestsTypeOK
<1>2. \A v \in Workers : v # w => pc'[v] = pc[v] /\ job'[v] = job[v] /\ dr'[v] = dr[v]
  BY <1>1
<1> QED BY <1>2 DEF Making

LEMMA Functions ==
    ASSUME TypeOK
    PROVE  /\ pc \in [Workers -> PCs] /\ job \in [Workers -> Job]
           /\ dr \in [Workers -> Drain]
BY DEF TypeOK, RequestsTypeOK

(* No request starts to make a version, or makes another one.              *)
MakersKept ==
    \A v \in Workers : Making(v)' =>
        /\ Making(v) /\ (pc[v] = "parse" <=> pc'[v] = "parse")
        /\ job'[v].ver = job[v].ver /\ job'[v].own = job[v].own

(* Nor does one become a deletion.                                         *)
PurgesKept == \A v \in Workers : pc'[v] = "purge" => pc[v] = "purge"

LEMMA EndKeepsMakers ==
    ASSUME TypeOK, NEW w \in Workers, EndRequest(w)
    PROVE  MakersKept /\ PurgesKept
<1>1. pc'[w] = "idle"
  BY Functions DEF EndRequest
<1>2. \A v \in Workers : v # w => /\ pc'[v] = pc[v] /\ job'[v] = job[v]
                                  /\ Making(v)' <=> Making(v)
  BY OthersStay DEF EndRequest
<1>3. ~Making(w)'
  BY <1>1 DEF Making
<1> QED BY <1>1, <1>2, <1>3 DEF MakersKept, PurgesKept

LEMMA MoveKeepsMakers ==
    ASSUME TypeOK, NEW w \in Workers, NEW n, NEW j,
           StartRequest(w, n, j) \/ GoTo(w, n, j),
           n \notin {"parse", "drain", "publish", "purge"},
           n \in {"barrier", "flip", "flipping"} =>
               Making(w) /\ pc[w] # "parse" /\ j.ver = job[w].ver /\ j.own = job[w].own
    PROVE  MakersKept /\ PurgesKept
<1>0. dr' = [dr EXCEPT ![w] = dr[w]]
  BY DEF StartRequest, GoTo, TypeOK, RequestsTypeOK
<1>1. pc'[w] = n /\ job'[w] = j
  BY Functions DEF StartRequest, GoTo
<1>3. \A v \in Workers : v # w => /\ pc'[v] = pc[v] /\ job'[v] = job[v]
                                  /\ Making(v)' <=> Making(v)
  BY <1>0, OthersStay DEF StartRequest, GoTo
<1>2. Making(w)' => /\ Making(w) /\ (pc[w] = "parse" <=> pc'[w] = "parse")
                    /\ job'[w].ver = job[w].ver /\ job'[w].own = job[w].own
  BY <1>1 DEF Making
<1> QED BY <1>1, <1>2, <1>3 DEF MakersKept, PurgesKept

LEMMA CallKeepsMakers ==
    ASSUME TypeOK, NEW w \in Workers, NEW j, CallDrain(w, "idle", j)
    PROVE  MakersKept /\ PurgesKept /\ ~Making(w)'
<1> DEFINE d == [NoDrain EXCEPT !.then = "idle"]
<1>1. pc'[w] = "drain" /\ dr'[w] = d
  BY Functions DEF CallDrain
<1>4. \A v \in Workers : v # w => /\ pc'[v] = pc[v] /\ job'[v] = job[v]
                                  /\ Making(v)' <=> Making(v)
  BY OthersStay DEF CallDrain
<1>2. d.then = "idle"
  BY DEF NoDrain
<1>3. ~Making(w)'
  BY <1>1, <1>2 DEF Making
<1> QED BY <1>1, <1>3, <1>4 DEF MakersKept, PurgesKept

LEMMA DrainKeepsMakers ==
    ASSUME TypeOK, NEW w \in Workers,
           pc[w] \in {"drain", "publish"}, pc' = [pc EXCEPT ![w] = "publish"], job' = job,
           \E d : dr' = [dr EXCEPT ![w] = d] /\ d.then = dr[w].then
    PROVE  MakersKept /\ PurgesKept
<1>0. job' = [job EXCEPT ![w] = job[w]]
  BY DEF TypeOK, RequestsTypeOK
<1>1. pc'[w] = "publish" /\ dr'[w].then = dr[w].then
  BY Functions
<1>3. \A v \in Workers : v # w => pc'[v] = pc[v] /\ (Making(v)' <=> Making(v))
  BY <1>0, OthersStay
<1>2. Making(w)' => Making(w) /\ pc[w] # "parse"
  BY <1>1 DEF Making
<1> QED BY <1>1, <1>2, <1>3 DEF MakersKept, PurgesKept

(* Such a step that leaves the tables alone keeps the invariant.           *)
LEMMA PublicationKept ==
    ASSUME PublicationInv, MakersKept, PurgesKept, UNCHANGED <<pgVars, activated>>
    PROVE  PublicationInv'
<1>1. \A w \in Workers : Making(w)' => MadeOk(w)'
  BY DEF PublicationInv, MakersKept, MadeOk, ChunksOfVersion, pgVars
<1>2. PublishedOk' <=> PublishedOk
  BY DEF PublishedOk, ChunksOfVersion, DefaultVersion, pgVars
<1>3. RetainedRowsPresent'
  BY DEF PublicationInv, RetainedRowsPresent, pgVars
<1> QED BY <1>1, <1>2, <1>3 DEF PublicationInv, PurgesKept, pgVars

LEMMA PublicationInit == Init => PublicationInv
<1> SUFFICES ASSUME Init PROVE PublicationInv
  OBVIOUS
<1>1. \A w \in Workers : ~Making(w) /\ pc[w] # "purge"
  BY DEF Init, Making
<1>2. \A p \in Pointers : active[p] = DefaultVersion
  BY DEF Init
<1>3. PublishedOk /\ RetainedRowsPresent
  BY <1>2 DEF Init, PublishedOk, RetainedRowsPresent, Pointers
<1> QED BY <1>1, <1>2, <1>3 DEF Init, PublicationInv, Pointers

---------------------------------------------------------------------------
LEMMA OnlyMaker ==
    ASSUME OneIngester, PublicationInv, NEW w \in Workers, w \in Ingesters,
           NEW v \in Workers, Making(v)
    PROVE  v = w
BY DEF OneIngester, PublicationInv, MadeOk

LEMMA StartKeeps ==
    ASSUME OneIngester, TypeOK, PublicationInv, NEW w \in Workers, IngestStart(w)
    PROVE  PublicationInv'
<1>1. PICK v \in Versions :
          /\ IsNextVersion(v)
          /\ StartRequest(w, "parse", [NoJob EXCEPT !.ver = v, !.own = NewDocs(v, ingests + 1)])
  BY DEF IngestStart
<1>2. w \in Ingesters /\ exists /\ UNCHANGED <<pgVars, activated>> /\ pc[w] = "idle"
  BY <1>1 DEF IngestStart, StartRequest
<1>3. /\ pc'[w] = "parse" /\ job'[w].ver = v
      /\ ChunksOfVersion(v) \subseteq job'[w].own
      /\ \A u \in Workers : u # w => pc'[u] = pc[u] /\ (Making(u)' <=> Making(u))
  <2>1. dr' = [dr EXCEPT ![w] = dr[w]]
    BY <1>1, Functions DEF StartRequest
  <2>2. pc'[w] = "parse" /\ job'[w] = [NoJob EXCEPT !.ver = v, !.own = NewDocs(v, ingests + 1)]
    BY <1>1, Functions DEF StartRequest
  <2>3. job'[w].ver = v /\ job'[w].own = NewDocs(v, ingests + 1)
    BY <2>2 DEF NoJob
  <2>4. ChunksOfVersion(v) \subseteq job'[w].own
    BY <2>3 DEF ChunksOfVersion, NewDocs
  <2>5. \A u \in Workers : u # w => pc'[u] = pc[u] /\ (Making(u)' <=> Making(u))
    BY <1>1, <2>1, OthersStay DEF StartRequest
  <2> QED BY <2>2, <2>3, <2>4, <2>5
<1>4. \A u \in activated : u < v
  <2>1. PublishedOk /\ \A u \in versions : u < v
    BY <1>1, <1>2 DEF PublicationInv, IsNextVersion
  <2>2. ASSUME NEW u \in activated PROVE u < v
    <3>1. u <= active["doc"] /\ active["doc"] < v
      BY <2>1, <2>2 DEF PublishedOk
    <3>2. u \in Nat /\ v \in Nat /\ active["doc"] \in Nat
      BY DEF TypeOK, TablesTypeOK, CountersTypeOK, Versions, Pointers
    <3> QED BY <3>1, <3>2
  <2> QED BY <2>2
<1>5. ASSUME NEW u \in Workers, Making(u)' PROVE MadeOk(u)'
  <2>1. u = w
    BY <1>2, <1>3, <1>5, OnlyMaker DEF PublicationInv, MadeOk, OneIngester
  <2> QED BY <1>2, <1>3, <1>4, <2>1 DEF MadeOk, pgVars
<1>6. PublishedOk' /\ RetainedRowsPresent'
  BY <1>2 DEF PublicationInv, PublishedOk, RetainedRowsPresent, ChunksOfVersion, DefaultVersion, pgVars
<1>7. \A u \in Workers : pc'[u] = "purge" => u \in Purgers
  BY <1>3 DEF PublicationInv
<1> QED BY <1>2, <1>5, <1>6, <1>7 DEF PublicationInv, pgVars

LEMMA StageKeeps ==
    ASSUME OneIngester, TypeOK, PublicationInv, NEW w \in Workers, Stage(w)
    PROVE  PublicationInv'
<1>1. /\ Making(w) /\ exists /\ pc[w] = "parse"
      /\ rows' = rows \cup job[w].own /\ versions' = versions \cup {job[w].ver}
      /\ UNCHANGED <<exists, active, shown, activated>>
      /\ CallDrain(w, "barrier", job[w])
  BY DEF Stage, Making, histVars
<1>2. /\ pc'[w] = "drain" /\ job'[w] = job[w]
      /\ \A u \in Workers : u # w => pc'[u] = pc[u] /\ (Making(u)' <=> Making(u))
  BY <1>1, Functions, OthersStay DEF CallDrain
<1>3. MadeOk(w) /\ w \in Ingesters
  BY <1>1 DEF PublicationInv, MadeOk
<1>4. ChunksOfVersion(job[w].ver) \subseteq rows'
  BY <1>1, <1>3 DEF MadeOk
<1>5. ASSUME NEW u \in Workers, Making(u)' PROVE MadeOk(u)'
  <2>1. u = w
    BY <1>2, <1>3, <1>5, OnlyMaker
  <2> QED BY <1>1, <1>2, <1>3, <1>4, <2>1 DEF MadeOk, ChunksOfVersion
<1>6. PublishedOk' /\ RetainedRowsPresent'
  BY <1>1 DEF PublicationInv, PublishedOk, RetainedRowsPresent, ChunksOfVersion, DefaultVersion
<1>7. \A u \in Workers : pc'[u] = "purge" => u \in Purgers
  BY <1>2 DEF PublicationInv
<1> QED BY <1>1, <1>5, <1>6, <1>7 DEF PublicationInv

(* The version being published is above all others, and its rows are in.   *)
LEMMA FlipIsNewest ==
    ASSUME TypeOK, PublicationInv, NEW w \in Workers, NEW v, v = job[w].ver,
           pc[w] = "flipping", exists
    PROVE  /\ v \in Versions /\ v \in versions /\ ChunksOfVersion(v) \subseteq rows
           /\ active["doc"] \in Versions /\ active["doc"] <= v
           /\ \A u \in activated : u \in Nat /\ u < v
           /\ ShownAfterFlip(v) = ChunksOfVersion(v)
<1>1. MadeOk(w) /\ PublishedOk /\ v >= 1
  BY DEF PublicationInv, Making, TypeOK, RequestsTypeOK
<1>2. v \in versions /\ ChunksOfVersion(v) \subseteq rows /\ \A u \in activated : u < v
  BY <1>1 DEF MadeOk
<1>3. /\ v \in Versions /\ active["doc"] \in Versions
      /\ \A u \in activated : u \in Nat
  BY <1>1, JobParts DEF TypeOK, TablesTypeOK, CountersTypeOK, Versions, Pointers
<1>4. active["doc"] <= v
  <2>1. CASE activated = {}
    BY <1>1, <1>3, <2>1 DEF PublishedOk, DefaultVersion, Versions
  <2>2. CASE activated # {}
    BY <1>1, <1>2, <1>3, <2>2 DEF PublishedOk, Versions
  <2> QED BY <2>1, <2>2
<1>5. \A d \in shown : VersionOf(d) = active["doc"]
  BY <1>1 DEF PublishedOk, ChunksOfVersion, VersionOf
<1>6. {d \in shown : VersionOf(d) > v} = {}
  BY <1>3, <1>4, <1>5 DEF Versions
<1>7. {d \in rows \cap ChunkDocs : VersionOf(d) = v} = ChunksOfVersion(v)
  BY <1>2, <1>3 DEF ChunkDocs, ChunksOfVersion, VersionOf
<1> QED BY <1>2, <1>3, <1>4, <1>6, <1>7 DEF ShownAfterFlip

LEMMA FlipKeeps ==
    ASSUME OneIngester, TypeOK, PublicationInv, NEW w \in Workers, Flip(w)
    PROVE  PublicationInv'
<1> PICK v : v = job[w].ver
  OBVIOUS
<1>1. /\ pc[w] = "flipping" /\ Making(w) /\ CallDrain(w, "idle", NoJob)
      /\ active' = IF exists THEN [p \in Pointers |-> v] ELSE active
      /\ shown' = ShownAfterFlip(v) /\ activated' = activated \cup {v}
      /\ UNCHANGED <<exists, rows, versions>>
  BY DEF Flip, Making
<1>2. \A u \in Workers : ~Making(u)'
  <2>1. MakersKept /\ ~Making(w)' /\ w \in Ingesters
    BY <1>1, CallKeepsMakers DEF PublicationInv, MadeOk
  <2> QED BY <2>1, OnlyMaker DEF MakersKept
<1>3. \A p \in Pointers : active'[p] = active'["doc"]
  BY <1>1 DEF PublicationInv, Pointers
<1>4. ASSUME exists PROVE PublishedOk' /\ RetainedRowsPresent'
  <2>1. /\ v \in Versions /\ v \in versions /\ ChunksOfVersion(v) \subseteq rows
        /\ active["doc"] \in Versions /\ active["doc"] <= v
        /\ \A u \in activated : u \in Nat /\ u < v
        /\ shown' = ChunksOfVersion(v)
    BY <1>1, <1>4, FlipIsNewest
  <2>2. active'["doc"] = v
    BY <1>1, <1>4 DEF Pointers
  <2>3. PublishedOk'
    BY <1>1, <2>1, <2>2 DEF PublishedOk, ChunksOfVersion, Versions
  <2>4. ASSUME NEW u \in activated', u + Retain > v PROVE ChunksOfVersion(u) \subseteq rows
    <3>1. CASE u = v
      BY <2>1, <3>1
    <3>2. CASE u # v
      <4>1. u \in activated /\ u + Retain > active["doc"]
        BY <1>1, <2>1, <2>4, <3>2, RetainAssumption DEF Versions
      <4> QED BY <1>4, <4>1 DEF PublicationInv, RetainedRowsPresent, ChunksOfVersion
    <3> QED BY <3>1, <3>2
  <2> QED BY <1>1, <2>2, <2>3, <2>4 DEF RetainedRowsPresent, ChunksOfVersion
<1>5. ASSUME ~exists PROVE rows' = {} /\ shown' = {} /\ versions' = {}
  BY <1>1, <1>5 DEF PublicationInv, ShownAfterFlip
<1>6. PurgesKept
  BY <1>1, CallKeepsMakers
<1> QED BY <1>1, <1>2, <1>3, <1>4, <1>5, <1>6 DEF PublicationInv, PurgesKept, RetainedRowsPresent

(* The collector deletes nothing of the active version or above it.        *)
LEMMA CollectKeeps ==
    ASSUME TypeOK, PublicationInv, NEW w \in Workers, GcDelete(w)
    PROVE  PublicationInv' /\ shown' = shown
<1>1. /\ exists /\ active["chunk"] > Retain
      /\ rows' = rows \ Doomed /\ shown' = shown \ Doomed /\ versions' = VersionsKept
      /\ UNCHANGED <<exists, active, activated>>
      /\ CallDrain(w, "idle", NoJob)
  BY DEF GcDelete, GcApplies, histVars
<1>2. /\ active["chunk"] = active["doc"] /\ active["doc"] \in Nat
      /\ \A u \in activated : u \in Nat
      /\ \A u \in versions : u \in Nat
  BY DEF PublicationInv, Pointers, TypeOK, TablesTypeOK, CountersTypeOK, Versions
<1>3. ASSUME NEW u \in Nat, u + Retain > active["doc"]
      PROVE  /\ ChunksOfVersion(u) \subseteq rows => ChunksOfVersion(u) \subseteq rows'
             /\ ChunksOfVersion(u) \cap Doomed = {}
             /\ u \in versions => u \in versions'
  <2>1. \A d \in ChunksOfVersion(u) : d \notin Doomed
    BY <1>2, <1>3, RetainAssumption DEF ChunksOfVersion, Doomed, VersionOf
  <2> QED BY <1>1, <1>2, <1>3, <2>1 DEF VersionsKept
<1>4. active["doc"] + Retain > active["doc"]
  BY <1>2, RetainAssumption
<1>5. PublishedOk /\ activated # {}
  BY <1>1, <1>2, RetainAssumption DEF PublicationInv, PublishedOk, DefaultVersion
<1>6. shown' = shown
  BY <1>1, <1>2, <1>3, <1>4, <1>5 DEF PublishedOk
<1>7. PublishedOk'
  BY <1>1, <1>2, <1>3, <1>4, <1>5, <1>6 DEF PublishedOk, ChunksOfVersion
<1>8. MakersKept /\ PurgesKept
  BY <1>1, CallKeepsMakers
<1>9. ASSUME NEW u \in Workers, Making(u)' PROVE MadeOk(u)'
  <2>1. /\ Making(u) /\ MadeOk(u) /\ (pc[u] = "parse" <=> pc'[u] = "parse")
        /\ job'[u].ver = job[u].ver /\ job'[u].own = job[u].own
    BY <1>8, <1>9 DEF MakersKept, PublicationInv
  <2>2. job[u].ver \in Nat /\ job[u].ver + Retain > active["doc"]
    <3>1. job[u].ver \in Nat
      BY JobParts
    <3>2. active["doc"] < job[u].ver
      BY <1>1, <1>5, <2>1 DEF MadeOk, PublishedOk
    <3> QED BY <1>2, <3>1, <3>2, RetainAssumption
  <2>3. CASE pc[u] = "parse"
    BY <1>1, <2>1, <2>3 DEF MadeOk, ChunksOfVersion
  <2>4. CASE pc[u] # "parse"
    <3>1. job[u].ver \in versions' /\ ChunksOfVersion(job[u].ver) \subseteq rows'
      BY <1>1, <1>3, <2>1, <2>2, <2>4 DEF MadeOk
    <3> QED BY <1>1, <2>1, <2>4, <3>1 DEF MadeOk, ChunksOfVersion
  <2> QED BY <2>3, <2>4
<1>10. RetainedRowsPresent'
  <2>1. ASSUME NEW u \in activated, u + Retain > active["doc"]
        PROVE  ChunksOfVersion(u) \subseteq rows'
    BY <1>1, <1>2, <1>3, <2>1 DEF PublicationInv, RetainedRowsPresent, ChunksOfVersion
  <2> QED BY <1>1, <2>1 DEF RetainedRowsPresent, ChunksOfVersion
<1> QED BY <1>1, <1>6, <1>7, <1>8, <1>9, <1>10 DEF PublicationInv, PurgesKept

LEMMA DeletionKeeps ==
    ASSUME TypeOK, PublicationInv, NEW w \in Workers, PurgeBegin(w) \/ PurgeCommit(w)
    PROVE  PublicationInv'
<1>1. CASE PurgeBegin(w)
  <2>1. PICK t \in Ticks :
            StartUpkeep(w, "purge", [NoJob EXCEPT !.at = t, !.known = rows])
    BY <1>1 DEF PurgeBegin
  <2>2. w \in Purgers /\ UNCHANGED <<pgVars, activated>>
    BY <1>1, <2>1 DEF PurgeBegin, StartUpkeep
  <2>3. /\ pc'[w] = "purge"
        /\ \A v \in Workers : v # w => /\ pc'[v] = pc[v] /\ job'[v] = job[v]
                                       /\ Making(v)' <=> Making(v)
    <3>1. dr' = [dr EXCEPT ![w] = dr[w]]
      BY <2>1, Functions DEF StartUpkeep, StartRequest
    <3>2. pc'[w] = "purge"
      BY <2>1, Functions DEF StartUpkeep, StartRequest
    <3> QED BY <2>1, <3>1, <3>2, OthersStay DEF StartUpkeep, StartRequest
  <2>4. MakersKept
    BY <2>3 DEF MakersKept, Making
  <2>5. \A v \in Workers : Making(v)' => MadeOk(v)'
    BY <2>2, <2>4 DEF PublicationInv, MakersKept, MadeOk, ChunksOfVersion, pgVars
  <2>6. (PublishedOk' <=> PublishedOk) /\ RetainedRowsPresent'
    BY <2>2 DEF PublicationInv, PublishedOk, RetainedRowsPresent, ChunksOfVersion, DefaultVersion, pgVars
  <2> QED BY <2>2, <2>3, <2>5, <2>6 DEF PublicationInv, pgVars
<1>2. CASE PurgeCommit(w)
  <2>1. /\ pc[w] = "purge" /\ exists' = FALSE /\ CallDrain(w, "idle", NoJob)
        /\ rows' = {} /\ shown' = {} /\ versions' = {} /\ UNCHANGED active
    BY <1>2 DEF PurgeCommit
  <2>2. MakersKept /\ PurgesKept
    BY <2>1, CallKeepsMakers
  <2>3. \A v \in Workers : Making(v)' => MadeOk(v)'
    BY <2>1, <2>2 DEF PublicationInv, MakersKept, MadeOk
  <2> QED BY <2>1, <2>2, <2>3 DEF PublicationInv, PurgesKept, RetainedRowsPresent
<1> QED BY <1>1, <1>2

(* The steps that touch neither the tables nor what is being made.         *)
LEMMA IngestMoves ==
    ASSUME TypeOK, NEW w \in Workers,
           StageFails(w) \/ BarrierPass(w) \/ BarrierFail(w) \/ FlipBegin(w)
    PROVE  MakersKept /\ PurgesKept /\ UNCHANGED <<pgVars, activated>>
<1>1. CASE StageFails(w) \/ BarrierFail(w)
  BY <1>1, EndKeepsMakers DEF StageFails, BarrierFail, histVars
<1>2. CASE BarrierPass(w)
  <2>1. pc[w] = "barrier" /\ GoTo(w, "flip", job[w]) /\ UNCHANGED <<pgVars, activated>> /\ Making(w)
    BY <1>2 DEF BarrierPass, histVars, Making
  <2> QED BY <2>1, MoveKeepsMakers
<1>3. CASE FlipBegin(w)
  <2>1. PICK t \in Ticks :
            GoTo(w, "flipping", [job[w] EXCEPT !.at = t,
                                   !.known = {d \in rows : VersionOf(d) < job[w].ver}])
    BY <1>3 DEF FlipBegin
  <2>2. pc[w] = "flip" /\ Making(w) /\ UNCHANGED <<pgVars, activated>>
    BY <1>3 DEF FlipBegin, histVars, Making
  <2>3. job[w] \in Job
    BY JobParts
  <2> DEFINE j == [job[w] EXCEPT !.at = t, !.known = {d \in rows : VersionOf(d) < job[w].ver}]
  <2>4. j.ver = job[w].ver /\ j.own = job[w].own
    BY <2>3 DEF Job
  <2>5. GoTo(w, "flipping", j)
    BY <2>1
  <2> HIDE DEF j
  <2> QED BY <2>2, <2>4, <2>5, MoveKeepsMakers
<1> QED BY <1>1, <1>2, <1>3

LEMMA UpkeepMoves ==
    ASSUME TypeOK, NEW w \in Workers,
           \/ GcBegin(w) \/ GcNothing(w) \/ ReconcileLoad(w) \/ ReconcileStep(w)
    PROVE  MakersKept /\ PurgesKept /\ UNCHANGED <<pgVars, activated>>
<1>1. CASE GcBegin(w)
  <2>1. PICK t \in Ticks : StartRequest(w, "gcDelete", [NoJob EXCEPT !.at = t])
    BY <1>1 DEF GcBegin, StartUpkeep
  <2>2. UNCHANGED <<pgVars, activated>>
    BY <1>1 DEF GcBegin, StartUpkeep
  <2> QED BY <2>1, <2>2, MoveKeepsMakers
<1>2. CASE GcNothing(w)
  BY <1>2, EndKeepsMakers DEF GcNothing, histVars
<1>3. CASE ReconcileLoad(w)
  BY <1>3, MoveKeepsMakers DEF ReconcileLoad, StartUpkeep
<1>4. CASE Classify(w)
  <2>1. PICK j : GoTo(w, "embed", j)
    BY <1>4 DEF Classify
  <2> QED BY <1>4, <2>1, MoveKeepsMakers DEF Classify, histVars
<1>5. CASE RepairBegin(w)
  <2>1. PICK j : GoTo(w, "repair", j)
    BY <1>5 DEF RepairBegin
  <2> QED BY <1>5, <2>1, MoveKeepsMakers DEF RepairBegin, histVars
<1>6. CASE Repair(w)
  BY <1>6, CallKeepsMakers DEF Repair, histVars
<1> QED BY <1>1, <1>2, <1>3, <1>4, <1>5, <1>6 DEF ReconcileStep

(* A drain changes at most one document of the index at a time.            *)
OneDocument == es' = es \/ \E d \in Docs : \E s : es' = [es EXCEPT ![d] = s]

LEMMA DrainMoves ==
    ASSUME TypeOK, NEW w \in Workers, DrainStep(w) \/ PublishError(w)
    PROVE  /\ MakersKept /\ PurgesKept /\ UNCHANGED <<pgVars, activated>>
           /\ OneDocument
<1>a. dr[w] \in Drain
  BY JobParts
<1>b. \A r \in Turn(w) : Left(w, r) \subseteq Docs
  BY TurnType
<1>1. CASE DrainSelect(w)
  <2> DEFINE d == [dr[w] EXCEPT !.todo = outbox]
  <2>1. dr' = [dr EXCEPT ![w] = d] /\ d.then = dr[w].then
    BY <1>1, <1>a, Functions DEF DrainSelect, Drain
  <2>2. pc[w] = "drain" /\ pc' = [pc EXCEPT ![w] = "publish"] /\ job' = job
    BY <1>1 DEF DrainSelect
  <2>3. UNCHANGED <<pgVars, activated, es>>
    BY <1>1 DEF DrainSelect, histVars
  <2> HIDE DEF d
  <2> QED BY <2>1, <2>2, <2>3, DrainKeepsMakers DEF OneDocument
(* One call: the drain goes on as d.                                       *)
<1>c. ASSUME Draining(w), \E d : dr' = [dr EXCEPT ![w] = d] /\ d.then = dr[w].then,
             UNCHANGED <<pgVars, pc, job, histVars>>
      PROVE  MakersKept /\ PurgesKept /\ UNCHANGED <<pgVars, activated>>
  <2>1. pc[w] = "publish" /\ pc' = [pc EXCEPT ![w] = "publish"] /\ job' = job
    BY <1>c, Functions DEF Draining
  <2>2. UNCHANGED <<pgVars, activated>>
    BY <1>c DEF histVars
  <2> QED BY <1>c, <2>1, <2>2, DrainKeepsMakers
<1>d. ASSUME NEW r, NEW left, NEW g, Advance(w, r, left, g)
      PROVE  \E d : dr' = [dr EXCEPT ![w] = d] /\ d.then = dr[w].then
  <2> DEFINE d == [dr[w] EXCEPT !.cur = {r}, !.left = left, !.got = g]
  <2>1. dr' = [dr EXCEPT ![w] = d] /\ d.then = dr[w].then
    BY <1>d, <1>a, Functions DEF Advance, Drain
  <2> HIDE DEF d
  <2> QED BY <2>1
<1>e. ASSUME NEW r, GiveUp(w, r)
      PROVE  \E d : dr' = [dr EXCEPT ![w] = d] /\ d.then = dr[w].then
  <2> DEFINE d == [dr[w] EXCEPT !.cur = {r}, !.left = {}, !.got = {}, !.ok = FALSE]
  <2>1. dr' = [dr EXCEPT ![w] = d] /\ d.then = dr[w].then
    BY <1>e, <1>a, Functions DEF GiveUp, Drain
  <2> HIDE DEF d
  <2> QED BY <2>1
<1>2. CASE PublishIndex(w)
  <2>1. PICK r \in Turn(w) : \E d \in Left(w, r) :
            es' = [es EXCEPT ![d] = IndexedAs(r.available)] /\ Advance(w, r, Left(w, r) \ {d}, {})
    BY <1>2 DEF PublishIndex
  <2>2. PICK d \in Left(w, r) :
            es' = [es EXCEPT ![d] = IndexedAs(r.available)] /\ Advance(w, r, Left(w, r) \ {d}, {})
    BY <2>1
  <2> QED BY <1>2, <1>b, <1>c, <1>d, <2>2 DEF PublishIndex, OneDocument
<1>3. CASE PublishGet(w)
  <2>1. PICK r \in Turn(w) : \E d \in Left(w, r) : Advance(w, r, Left(w, r), {<<d, es[d]>>})
    BY <1>3 DEF PublishGet
  <2>2. PICK d \in Left(w, r) : Advance(w, r, Left(w, r), {<<d, es[d]>>})
    BY <2>1
  <2> QED BY <1>3, <1>c, <1>d, <2>2 DEF PublishGet, OneDocument
<1>4. CASE PublishPut(w)
  <2>1. PICK r \in dr[w].cur, g \in dr[w].got :
            /\ es' = [es EXCEPT ![g[1]] = WithAvailable(g[2], r.available)]
            /\ Advance(w, r, dr[w].left \ {g[1]}, {})
    BY <1>4 DEF PublishPut
  <2>2. g[1] \in Docs
    BY <1>a, <2>1 DEF Drain
  <2> QED BY <1>4, <1>c, <1>d, <2>1, <2>2 DEF PublishPut, OneDocument
<1>5. CASE PublishDelete(w)
  <2>1. PICK r \in Turn(w) : \E d \in Left(w, r) :
            es' = [es EXCEPT ![d] = "absent"] /\ Advance(w, r, Left(w, r) \ {d}, {})
    BY <1>5 DEF PublishDelete
  <2>2. PICK d \in Left(w, r) :
            es' = [es EXCEPT ![d] = "absent"] /\ Advance(w, r, Left(w, r) \ {d}, {})
    BY <2>1
  <2> QED BY <1>5, <1>b, <1>c, <1>d, <2>2 DEF PublishDelete, OneDocument
<1>6. CASE PublishMissing(w)
  <2>1. PICK r \in Turn(w) : GiveUp(w, r)
    BY <1>6 DEF PublishMissing
  <2> QED BY <1>6, <1>c, <1>e, <2>1 DEF PublishMissing, OneDocument
<1>7. CASE PublishError(w)
  <2>1. PICK r \in Turn(w) : \E d \in Left(w, r) :
            es' \in {es, [es EXCEPT ![d] = Applied(w, r, d)]} /\ GiveUp(w, r)
    BY <1>7 DEF PublishError
  <2>2. PICK d \in Left(w, r) :
            es' \in {es, [es EXCEPT ![d] = Applied(w, r, d)]} /\ GiveUp(w, r)
    BY <2>1
  <2> QED BY <1>7, <1>b, <1>c, <1>e, <2>2 DEF PublishError, OneDocument
<1>8. CASE DrainMark(w)
  <2>1. PICK r \in dr[w].cur :
          dr' = [dr EXCEPT ![w].todo = @ \ {r}, ![w].cur = {}, ![w].ok = TRUE,
                              ![w].done = IF dr[w].ok THEN @ \cup {r} ELSE @,
                              ![w].failed = IF dr[w].ok THEN @ ELSE @ \cup {r}]
    BY <1>8 DEF DrainMark
  <2> DEFINE d == [dr[w] EXCEPT !.todo = @ \ {r}, !.cur = {}, !.ok = TRUE,
                                !.done = IF dr[w].ok THEN @ \cup {r} ELSE @,
                                !.failed = IF dr[w].ok THEN @ ELSE @ \cup {r}]
  <2>2. dr' = [dr EXCEPT ![w] = d] /\ d.then = dr[w].then
    BY <1>a, <2>1, Functions DEF Drain
  <2> HIDE DEF d
  <2> QED BY <1>8, <1>c, <2>2 DEF DrainMark, AtUpdate, OneDocument
<1>9. CASE DrainDeadlock(w)
  BY <1>9, EndKeepsMakers DEF DrainDeadlock, histVars, OneDocument
<1>10. CASE DrainCommit(w)
  <2>1. UNCHANGED <<pgVars, activated, es>>
    BY <1>10 DEF DrainCommit, histVars
  <2>2. CASE dr[w].then = "idle"
    BY <1>10, <2>1, <2>2, EndKeepsMakers DEF DrainCommit, OneDocument
  <2>3. CASE dr[w].then # "idle"
    <3>1. /\ pc[w] = "publish" /\ dr[w].then = "barrier" /\ Making(w)
          /\ pc' = [pc EXCEPT ![w] = "barrier"] /\ dr' = [dr EXCEPT ![w] = NoDrain]
          /\ job' = job
      BY <1>10, <1>a, <2>3 DEF DrainCommit, Draining, Drain, Making
    <3>2. job' = [job EXCEPT ![w] = job[w]]
      BY <3>1, Functions
    <3>3. \A v \in Workers : v # w => pc'[v] = pc[v] /\ (Making(v)' <=> Making(v))
      BY <3>1, <3>2, OthersStay
    <3>4. pc'[w] = "barrier"
      BY <3>1, Functions
    <3> QED BY <2>1, <3>1, <3>3, <3>4 DEF MakersKept, PurgesKept, OneDocument
  <2> QED BY <2>2, <2>3
<1> QED
  BY <1>1, <1>2, <1>3, <1>4, <1>5, <1>6, <1>7, <1>8, <1>9, <1>10 DEF DrainStep

LEMMA PublicationNext ==
    ASSUME OneIngester, TypeOK, PublicationInv, [Next]_vars
    PROVE  PublicationInv'
<1>1. ASSUME NEW w \in Workers, Arrive(w) \/ Work(w) PROVE PublicationInv'
  <2>1. CASE IngestStart(w) \/ IngestStep(w)
    BY <2>1, StartKeeps, StageKeeps, FlipKeeps, IngestMoves, PublicationKept DEF IngestStep
  <2>2. CASE GcBegin(w) \/ GcStep(w) \/ ReconcileLoad(w) \/ ReconcileStep(w)
    BY <2>2, CollectKeeps, UpkeepMoves, PublicationKept DEF GcStep
  <2>3. CASE DrainStep(w)
    BY <2>3, DrainMoves, PublicationKept
  <2> QED BY <1>1, <2>1, <2>2, <2>3, DeletionKeeps DEF Arrive, Work
<1>2. ASSUME NEW w \in Workers, PublishError(w) PROVE PublicationInv'
  BY <1>2, DrainMoves, PublicationKept
<1>3. ASSUME NEW w \in Workers, Abort(w) PROVE PublicationInv'
  BY <1>3, EndKeepsMakers, PublicationKept DEF Abort, histVars
<1>4. ASSUME NEW d \in Docs, EsLose(d) PROVE PublicationInv'
  <2>1. MakersKept /\ PurgesKept /\ UNCHANGED <<pgVars, activated>>
    BY <1>4 DEF EsLose, reqVars, histVars, MakersKept, PurgesKept, Making
  <2> QED BY <2>1, PublicationKept
<1>5. CASE UNCHANGED vars
  <2>1. MakersKept /\ PurgesKept /\ UNCHANGED <<pgVars, activated>>
    BY <1>5 DEF vars, reqVars, histVars, MakersKept, PurgesKept, Making
  <2> QED BY <2>1, PublicationKept
<1> QED BY <1>1, <1>2, <1>3, <1>4, <1>5 DEF Next

(* What a step does to what readers see: a flip publishes, any other step  *)
(* changes one document of the index or nothing.                           *)
LEMMA StepIsPublication ==
    ASSUME OneIngester, Purgers = {}, TypeOK, StagedInv', PublicationInv, [Next]_vars
    PROVE  [Reader!Next]_(Reader!vars)
<1>0. exists /\ \A w \in Workers : pc[w] # "purge"
  BY DEF PublicationInv
<1>1. ASSUME NEW w \in Workers, Flip(w) PROVE Reader!Next
  <2> PICK v : v = job[w].ver
    OBVIOUS
  <2>1. /\ pc[w] = "flipping" /\ shown' = ShownAfterFlip(v)
        /\ activated' = activated \cup {v} /\ es' = es
    BY <1>1 DEF Flip
  <2>2. v \in Versions /\ (\A u \in activated : u < v) /\ ShownAfterFlip(v) = ChunksOfVersion(v)
    BY <1>0, <2>1, FlipIsNewest
  <2>3. Reader!Publish(v)
    BY <2>1, <2>2 DEF Reader!Publish, Reader!ChunksOf, ChunksOfVersion
  <2> QED BY <2>2, <2>3 DEF Reader!Next
<1>2. ASSUME OneDocument, UNCHANGED <<shown, activated>>
      PROVE  [Reader!Next]_(Reader!vars)
  <2>1. CASE es' = es
    BY <1>2, <2>1 DEF Reader!vars
  <2>2. ASSUME NEW d \in Docs, NEW s, es' = [es EXCEPT ![d] = s]
        PROVE  Reader!Next
    <3>1. es \in [Docs -> EsState] /\ es'[d] = s /\ \A e \in Docs : e # d => es'[e] = es[e]
      BY <2>2 DEF TypeOK
    <3>2. CASE s = "visible"
      <4>1. d[1] \in activated \cup {DefaultVersion}
        BY <1>2, <3>1, <3>2 DEF StagedInv, StagedNeverSearchable, VersionOf, DefaultVersion
      <4>2. {e \in Docs : es'[e] = "visible"} = {e \in Docs : es[e] = "visible"} \cup {d}
        BY <3>1, <3>2
      <4>3. Reader!Show(d)
        BY <1>2, <4>1, <4>2 DEF Reader!Show
      <4> QED BY <4>3 DEF Reader!Next
    <3>3. CASE s # "visible"
      <4>1. {e \in Docs : es'[e] = "visible"} = {e \in Docs : es[e] = "visible"} \ {d}
        BY <3>1, <3>3
      <4>2. Reader!Hide(d)
        BY <1>2, <4>1 DEF Reader!Hide
      <4> QED BY <4>2 DEF Reader!Next
    <3> QED BY <3>2, <3>3
  <2> QED BY <1>2, <2>1, <2>2 DEF OneDocument
<1>3. ASSUME NEW w \in Workers, Arrive(w) \/ Work(w), ~Flip(w)
      PROVE  OneDocument /\ UNCHANGED <<shown, activated>>
  <2>1. CASE IngestStart(w) \/ Stage(w)
    BY <2>1 DEF IngestStart, Stage, pgVars, histVars, OneDocument
  <2>2. CASE StageFails(w) \/ BarrierPass(w) \/ BarrierFail(w) \/ FlipBegin(w)
    BY <2>2, IngestMoves DEF StageFails, BarrierPass, BarrierFail, FlipBegin, OneDocument, pgVars
  <2>3. CASE GcDelete(w)
    BY <2>3, CollectKeeps DEF GcDelete, histVars, OneDocument
  <2>4. CASE GcBegin(w) \/ GcNothing(w) \/ ReconcileLoad(w) \/ ReconcileStep(w)
    BY <2>4, UpkeepMoves
    DEF GcBegin, GcNothing, ReconcileLoad, ReconcileStep, Classify, RepairBegin, Repair,
        OneDocument, pgVars
  <2>5. CASE PurgeBegin(w) \/ PurgeCommit(w)
    BY <1>0, <2>5 DEF PurgeBegin, PurgeCommit
  <2>6. CASE DrainStep(w)
    BY <2>6, DrainMoves DEF pgVars
  <2> QED BY <1>3, <2>1, <2>2, <2>3, <2>4, <2>5, <2>6 DEF Arrive, Work, IngestStep, GcStep
<1>4. ASSUME NEW w \in Workers, PublishError(w)
      PROVE  OneDocument /\ UNCHANGED <<shown, activated>>
  BY <1>4, DrainMoves DEF pgVars
<1>5. ASSUME NEW w \in Workers, Abort(w)
      PROVE  OneDocument /\ UNCHANGED <<shown, activated>>
  BY <1>5 DEF Abort, pgVars, histVars, OneDocument
<1>6. ASSUME NEW d \in Docs, EsLose(d)
      PROVE  OneDocument /\ UNCHANGED <<shown, activated>>
  BY <1>6 DEF EsLose, pgVars, histVars, OneDocument
<1>7. CASE UNCHANGED vars
  BY <1>2, <1>7 DEF vars, pgVars, histVars, OneDocument
<1> QED BY <1>1, <1>2, <1>3, <1>4, <1>5, <1>6, <1>7 DEF Next

(* With one ingesting worker, the version being made is above all that     *)
(* were published and its rows stay until it is (pipeline.py:280-314); the *)
(* pointers agree, name the newest published version and offer its chunks. *)
THEOREM PublicationAlways ==
    ASSUME OneIngester
    PROVE  Spec => []PublicationInv
<1>1. TypeOK /\ PublicationInv /\ [Next]_vars => PublicationInv'
  BY PublicationNext
<1> QED BY <1>1, PublicationInit, TypeCorrect, PTL DEF Spec

(* The collector (gc.py:121) never deletes the rows of a published version *)
(* that the retention still covers, whatever else runs beside it.          *)
THEOREM RetainedRows ==
    ASSUME OneIngester
    PROVE  Spec => []RetainedRowsPresent
<1>1. PublicationInv => RetainedRowsPresent
  BY DEF PublicationInv
<1> QED BY <1>1, PublicationAlways, PTL

(* Every flip (pipeline.py:280-314) leaves chunks of one version only on   *)
(* offer, so a reader never sees two versions of a document side by side.  *)
THEOREM OneVersion ==
    ASSUME OneIngester
    PROVE  Spec => []OneVersionShown
<1>1. PublicationInv => OneVersionShown
  BY DEF PublicationInv, PublishedOk, OneVersionShown, ChunksOfVersion, VersionOf, Pointers
<1> QED BY <1>1, PublicationAlways, PTL

(* Without deletions, the whole of ingest, outbox, repair and collection   *)
(* implements Publication: versions come out whole and in order, and what  *)
(* the index shows is of the default version or of a published one.        *)
THEOREM Implementation ==
    ASSUME OneIngester, Purgers = {}
    PROVE  Spec => PublishesAtomically
<1>1. Init => Reader!Init
  BY DEF Init, Reader!Init
<1>2. TypeOK /\ StagedInv' /\ PublicationInv /\ [Next]_vars => [Reader!Next]_(Reader!vars)
  BY StepIsPublication
<1> QED
  BY <1>1, <1>2, TypeCorrect, StagedInvariant, PublicationAlways, PTL
  DEF Spec, PublishesAtomically, Reader!Spec

LEMMA OnlyFlipsPoint ==
    ASSUME TypeOK, [Next]_vars, active' # active
    PROVE  \E w \in Workers : Flip(w)
<1>1. ASSUME NEW w \in Workers, Arrive(w) \/ Work(w), ~Flip(w) PROVE active' = active
  <2>1. CASE IngestStart(w) \/ Stage(w) \/ GcDelete(w) \/ PurgeBegin(w) \/ PurgeCommit(w)
    BY <2>1 DEF IngestStart, Stage, GcDelete, PurgeBegin, PurgeCommit, pgVars
  <2>2. CASE StageFails(w) \/ BarrierPass(w) \/ BarrierFail(w) \/ FlipBegin(w)
    BY <2>2, IngestMoves DEF pgVars
  <2>3. CASE GcBegin(w) \/ GcNothing(w) \/ ReconcileLoad(w) \/ ReconcileStep(w)
    BY <2>3, UpkeepMoves DEF pgVars
  <2>4. CASE DrainStep(w)
    BY <2>4, DrainMoves DEF pgVars
  <2> QED BY <1>1, <2>1, <2>2, <2>3, <2>4 DEF Arrive, Work, IngestStep, GcStep
<1>2. ASSUME NEW w \in Workers, PublishError(w) \/ Abort(w) PROVE active' = active
  BY <1>2, DrainMoves DEF Abort, pgVars
<1>3. (\E d \in Docs : EsLose(d)) \/ UNCHANGED vars => active' = active
  BY DEF EsLose, vars, pgVars
<1> QED BY <1>1, <1>2, <1>3 DEF Next

(* No step moves a document's active version back: only a flip writes the  *)
(* pointers (pipeline.py:280-314), and its version is the newest.          *)
THEOREM ActiveOnlyGrows ==
    ASSUME OneIngester
    PROVE  Spec => ActiveNeverRegresses
<1>1. ASSUME TypeOK, PublicationInv, [Next]_vars
      PROVE  [\A p \in Pointers : active'[p] >= active[p]]_active
  <2>1. SUFFICES ASSUME active' # active PROVE \A p \in Pointers : active'[p] >= active[p]
    OBVIOUS
  <2>2. PICK w \in Workers : Flip(w)
    BY <1>1, <2>1, OnlyFlipsPoint
  <2>3. PICK v : v = job[w].ver
    OBVIOUS
  <2>4. exists /\ pc[w] = "flipping" /\ active' = [p \in Pointers |-> v]
    BY <2>1, <2>2, <2>3 DEF Flip
  <2>5. v \in Versions /\ active["doc"] \in Versions /\ active["doc"] <= v
    BY <1>1, <2>3, <2>4, FlipIsNewest
  <2>6. \A p \in Pointers : active[p] = active["doc"]
    BY <1>1 DEF PublicationInv
  <2> QED BY <2>4, <2>5, <2>6 DEF Versions
<1> QED BY <1>1, TypeCorrect, PublicationAlways, PTL DEF Spec, ActiveNeverRegresses

---------------------------------------------------------------------------
(***************************************************************************)
(* The drain barrier.  Above the active version a document is only ever    *)
(* staged, so what has arrived in the index stays there until the flip.    *)
(***************************************************************************)
LEMMA DocVersions ==
    ASSUME NEW d \in Docs
    PROVE  VersionOf(d) \in Nat
BY DEF Docs, ChunkDocs, SummaryDocs, Versions, VersionOf

LEMMA ActiveNat == TypeOK => active["doc"] \in Nat
BY DEF TypeOK, TablesTypeOK, Pointers, Versions

(* The active version does not fall, and the index changes below it or     *)
(* hides what is above.                                                    *)
Steady ==
    /\ TypeOK /\ TypeOK' /\ active'["doc"] >= active["doc"]
    /\ \A d \in Docs : VersionOf(d) > active["doc"] => es'[d] \in {es[d], "hidden"}

LEMMA BelowGrows ==
    ASSUME Steady, NEW CONSTANT ds, ds \in SUBSET Docs, Below(ds)
    PROVE  Below(ds)'
<1>1. active["doc"] \in Nat /\ active'["doc"] \in Nat /\ active'["doc"] >= active["doc"]
  BY ActiveNat DEF Steady, TypeOK, TablesTypeOK, Pointers, Versions
<1> QED BY <1>1, DocVersions DEF Below

LEMMA ArrivedGrows ==
    ASSUME Steady, NEW CONSTANT d, d \in Docs, Arrived(d)
    PROVE  Arrived(d)'
<1>1. active["doc"] \in Nat /\ active'["doc"] \in Nat /\ active'["doc"] >= active["doc"]
  BY ActiveNat DEF Steady, TypeOK, TablesTypeOK, Pointers, Versions
<1>2. VersionOf(d) > active'["doc"] => VersionOf(d) > active["doc"]
  BY <1>1, DocVersions
<1>3. VersionOf(d) > active["doc"] => es'[d] \in {es[d], "hidden"}
  BY DEF Steady
<1> QED BY <1>2, <1>3 DEF Arrived

LEMMA OnlyStagesGrows ==
    ASSUME Steady, NEW CONSTANT e, e \in Event, OnlyStages(e)
    PROVE  OnlyStages(e)'
<1>1. e.docs \in SUBSET Docs
  BY DEF Event
<1> QED BY <1>1, BelowGrows DEF OnlyStages

LEMMA DrainArrivesGrows ==
    ASSUME Steady, NEW CONSTANT d, d \in Drain, DrainArrives(d)
    PROVE  DrainArrives(d)'
<1>1. /\ d.todo \cup d.cur \cup d.done \cup d.failed \subseteq Event
      /\ \A r \in d.cur \cup d.done : r.docs \in SUBSET Docs
  BY DEF Drain, Event
<1>2. \A e \in d.todo \cup d.cur \cup d.done \cup d.failed : OnlyStages(e)'
  BY <1>1, OnlyStagesGrows DEF DrainArrives
<1>3. d.ok => \A r \in d.cur : r.type = "index" => \A i \in r.docs \ d.left : Arrived(i)'
  BY <1>1, ArrivedGrows DEF DrainArrives
<1>4. \A r \in d.done : r.type = "index" => \A i \in r.docs : Arrived(i)'
  BY <1>1, ArrivedGrows DEF DrainArrives
<1> QED BY <1>2, <1>3, <1>4 DEF DrainArrives

LEMMA JobArrivesGrows ==
    ASSUME Steady, NEW CONSTANT at, NEW CONSTANT j, j \in Job, JobArrives(at, j),
           at \in {"flip", "flipping"} => rows' \subseteq rows
    PROVE  JobArrives(at, j)'
<1>1. \A e \in j.plan : e.docs \in SUBSET Docs
  BY DEF Job, Event
<1>2. \A e \in j.plan : Below(e.docs)'
  BY <1>1, BelowGrows DEF JobArrives
<1>3. rows \subseteq Docs
  BY DEF Steady, TypeOK, TablesTypeOK
<1>4. at \in {"flip", "flipping"} => \A d \in rows' : Arrived(d)'
  BY <1>3, ArrivedGrows DEF JobArrives
<1> QED BY <1>2, <1>4 DEF JobArrives

---------------------------------------------------------------------------
(* The rows only shrink, or nobody is about to flip.                       *)
RowsSteady(w) ==
    rows' \subseteq rows \/ \A v \in Workers : v # w => pc[v] \notin {"flip", "flipping"}

RequestsArrive == \A v \in Workers : DrainArrives(dr[v]) /\ JobArrives(pc[v], job[v])

LEMMA RequestsArriveStep ==
    ASSUME Steady, RequestsArrive, NEW w \in Workers, RowsSteady(w),
           NEW CONSTANT next, NEW CONSTANT j, NEW CONSTANT d,
           pc' = [pc EXCEPT ![w] = next], job' = [job EXCEPT ![w] = j],
           dr' = [dr EXCEPT ![w] = d],
           DrainArrives(d)', JobArrives(next, j)'
    PROVE  RequestsArrive'
<1> SUFFICES ASSUME NEW v \in Workers
             PROVE  DrainArrives(dr[v])' /\ JobArrives(pc[v], job[v])'
  BY DEF RequestsArrive
<1>1. pc \in [Workers -> PCs] /\ job \in [Workers -> Job] /\ dr \in [Workers -> Drain]
  BY Functions DEF Steady
<1>2. CASE v = w
  <2>1. pc'[v] = next /\ job'[v] = j /\ dr'[v] = d
    BY <1>1, <1>2
  <2> QED BY <2>1
<1>3. CASE v # w
  <2>1. pc'[v] = pc[v] /\ job'[v] = job[v] /\ dr'[v] = dr[v]
    BY <1>1, <1>3
  <2>2. DrainArrives(dr[v]) /\ JobArrives(pc[v], job[v])
    BY DEF RequestsArrive
  <2>3. pc[v] \in {"flip", "flipping"} => rows' \subseteq rows
    BY <1>3 DEF RowsSteady
  <2>4. dr[v] \in Drain /\ job[v] \in Job
    BY <1>1
  <2> QED BY <2>1, <2>2, <2>3, <2>4, DrainArrivesGrows, JobArrivesGrows
<1> QED BY <1>2, <1>3

LEMMA IdleArrives ==
    /\ DrainArrives(NoDrain)
    /\ \A at : at \notin {"flip", "flipping"} => JobArrives(at, NoJob)
BY DEF DrainArrives, JobArrives, NoDrain, NoJob

LEMMA EndArrives ==
    ASSUME Steady, RequestsArrive, NEW w \in Workers, RowsSteady(w), EndRequest(w)
    PROVE  RequestsArrive'
<1>1. DrainArrives(NoDrain)' /\ JobArrives("idle", NoJob)'
  BY IdleArrives, DrainArrivesGrows, JobArrivesGrows, NoDrainType, NoJobType
<1> QED BY <1>1, RequestsArriveStep DEF EndRequest

LEMMA MoveArrives ==
    ASSUME Steady, RequestsArrive, NEW w \in Workers, RowsSteady(w),
           NEW next, NEW j, StartRequest(w, next, j) \/ GoTo(w, next, j),
           JobArrives(next, j)'
    PROVE  RequestsArrive'
<1>1. dr \in [Workers -> Drain]
  BY Functions DEF Steady
<1>2. dr' = [dr EXCEPT ![w] = dr[w]]
  BY <1>1 DEF StartRequest, GoTo
<1>3. DrainArrives(dr[w]) /\ dr[w] \in Drain
  BY <1>1 DEF RequestsArrive
<1> QED BY <1>2, <1>3, DrainArrivesGrows, RequestsArriveStep DEF StartRequest, GoTo

LEMMA CallArrives ==
    ASSUME Steady, RequestsArrive, NEW w \in Workers, RowsSteady(w),
           NEW then, NEW j, CallDrain(w, then, j), JobArrives("drain", j)'
    PROVE  RequestsArrive'
<1> DEFINE d == [NoDrain EXCEPT !.then = then]
<1>1. d.todo = {} /\ d.cur = {} /\ d.failed = {} /\ d.done = {} /\ d.got = {}
  BY DEF NoDrain
<1>2. dr' = [dr EXCEPT ![w] = d]
  BY DEF CallDrain
<1> HIDE DEF d
<1>3. DrainArrives(d)'
  BY <1>1 DEF DrainArrives
<1> QED BY <1>2, <1>3, RequestsArriveStep DEF CallDrain

---------------------------------------------------------------------------
(* The whole invariant, while the file is there.                           *)
BarrierParts ==
    /\ \A e \in outbox : OnlyStages(e)
    /\ RequestsArrive
    /\ \A d \in rows : Arrived(d) \/ \E e \in outbox : e.type = "index" /\ d \in e.docs

LEMMA BarrierSplit == BarrierInv <=> (exists => BarrierParts)
BY DEF BarrierInv, BarrierParts, RequestsArrive

(* A step that adds rows to the outbox and takes none away.                *)
LEMMA BarrierKept ==
    ASSUME Steady, BarrierParts, NEW added, outbox' = outbox \cup added,
           \A e \in added : OnlyStages(e)', RequestsArrive',
           \A d \in rows' : d \in rows \/ \E e \in added : e.type = "index" /\ d \in e.docs
    PROVE  BarrierParts'
<1>1. outbox \subseteq Event /\ rows \subseteq Docs
  BY DEF Steady, TypeOK, TablesTypeOK
<1>2. \A e \in outbox : OnlyStages(e)'
  BY <1>1, OnlyStagesGrows DEF BarrierParts
<1>3. ASSUME NEW d \in rows'
      PROVE  Arrived(d)' \/ \E e \in outbox' : e.type = "index" /\ d \in e.docs
  <2>1. CASE d \in rows
    BY <1>1, <2>1, ArrivedGrows DEF BarrierParts
  <2>2. CASE d \notin rows
    BY <1>3, <2>2
  <2> QED BY <2>1, <2>2
<1> QED BY <1>2, <1>3 DEF BarrierParts

LEMMA BarrierMoved ==
    ASSUME Steady, BarrierParts, outbox' = outbox, rows' \subseteq rows, RequestsArrive'
    PROVE  BarrierParts'
<1>1. PICK added : added = {}
  OBVIOUS
<1>2. /\ outbox' = outbox \cup added /\ \A e \in added : OnlyStages(e)'
      /\ \A d \in rows' : d \in rows
  BY <1>1
<1> QED BY <1>2, BarrierKept
---------------------------------------------------------------------------
LEMMA PublishedBelow ==
    ASSUME TypeOK, PublicationInv, exists, NEW ds, ds \in SUBSET Docs, Published(ds)
    PROVE  Below(ds)
<1>1. PublishedOk /\ active["doc"] \in Versions
  BY DEF PublicationInv, TypeOK, TablesTypeOK, Pointers
<1>2. \A d \in ds : VersionOf(d) \in activated \/ VersionOf(d) = 1
  BY DEF Published, DefaultVersion
<1> QED BY <1>1, <1>2 DEF PublishedOk, Below, Versions

LEMMA VisibleBelow ==
    ASSUME TypeOK, PublicationInv, exists, StagedNeverSearchable,
           NEW ds, ds \subseteq {d \in Docs : es[d] = "visible"}
    PROVE  Below(ds)
<1>1. Published(ds) /\ ds \in SUBSET Docs
  BY DEF StagedNeverSearchable, Published, DefaultVersion
<1> QED BY <1>1, PublishedBelow

LEMMA OutboxFinite ==
    ASSUME IsFiniteSet(Chunks), IsFiniteSet(Summaries), TypeOK
    PROVE  IsFiniteSet(outbox)
<1>1. IsFiniteSet(Versions) /\ IsFiniteSet(Ticks \cup {0}) /\ IsFiniteSet(0 .. MaxAttempts)
  <2>1. IsFiniteSet(1 .. MaxIngests) /\ IsFiniteSet(1 .. 2 * MaxIngests + MaxUpkeep)
    <3>1. \A n \in Int : IsFiniteSet(1 .. n)
      BY FS_Interval
    <3>2. MaxIngests \in Int /\ 2 * MaxIngests + MaxUpkeep \in Int
      BY BoundsAssumption
    <3> QED BY <3>1, <3>2
  <2>2. IsFiniteSet(0 .. MaxAttempts)
    BY FS_Interval, MaxAttemptsAssumption
  <2>3. IsFiniteSet(Ticks \cup {0})
    BY <2>1, FS_AddElement DEF Ticks
  <2> QED BY <2>1, <2>2, <2>3 DEF Versions
<1>2. IsFiniteSet(Docs)
  <2>1. IsFiniteSet(Chunks \X {0}) /\ IsFiniteSet(Summaries \X Versions)
    BY <1>1, FS_Product, FS_Singleton
  <2>2. IsFiniteSet(Versions \X Chunks) /\ IsFiniteSet(Versions \X Summaries)
    BY <1>1, FS_Product
  <2> DEFINE C == (Versions \X Chunks) \X {0}
             S == (Versions \X Summaries) \X Versions
             f == [p \in C |-> <<p[1][1], p[1][2], p[2]>>]
             g == [p \in S |-> <<p[1][1], p[1][2], p[2]>>]
  <2>3. IsFiniteSet(C) /\ IsFiniteSet(S)
    BY <1>1, <2>2, FS_Product, FS_Singleton
  <2>4. f \in Surjection(C, ChunkDocs)
    <3>1. ASSUME NEW d \in ChunkDocs PROVE \E p \in C : f[p] = d
      <4>1. PICK v \in Versions, c \in Chunks : d = <<v, c, 0>>
        BY DEF ChunkDocs
      <4>2. <<<<v, c>>, 0>> \in C /\ f[<<<<v, c>>, 0>>] = d
        BY <4>1
      <4> QED BY <4>2
    <3>2. f \in [C -> ChunkDocs]
      BY DEF ChunkDocs
    <3> HIDE DEF f, C
    <3> QED BY <3>1, <3>2 DEF Surjection
  <2>5. g \in Surjection(S, SummaryDocs)
    <3>1. ASSUME NEW d \in SummaryDocs PROVE \E p \in S : g[p] = d
      <4>1. PICK v \in Versions, c \in Summaries, n \in Versions : d = <<v, c, n>>
        BY DEF SummaryDocs
      <4>2. <<<<v, c>>, n>> \in S /\ g[<<<<v, c>>, n>>] = d
        BY <4>1
      <4> QED BY <4>2
    <3>2. g \in [S -> SummaryDocs]
      BY DEF SummaryDocs
    <3> HIDE DEF g, S
    <3> QED BY <3>1, <3>2 DEF Surjection
  <2> HIDE DEF C, S, f, g
  <2>6. IsFiniteSet(ChunkDocs) /\ IsFiniteSet(SummaryDocs)
    BY <2>3, <2>4, <2>5, FS_Surjection
  <2> QED BY <2>6, FS_Union DEF Docs
<1>3. IsFiniteSet(Event)
  <2> DEFINE T == {"index", "set_available", "delete"}
             A == (Ticks \cup {0}) \X T
             B == (SUBSET Docs) \X {0, 1}
             P == (A \X B) \X (0 .. MaxAttempts)
             f == [p \in P |-> [at |-> p[1][1][1], type |-> p[1][1][2],
                                docs |-> p[1][2][1], available |-> p[1][2][2],
                                attempts |-> p[2]]]
  <2>1. IsFiniteSet(T) /\ IsFiniteSet({0, 1})
    <3>1. T = {"index"} \cup {"set_available"} \cup {"delete"} /\ {0, 1} = {0} \cup {1}
      OBVIOUS
    <3>2. \A x : IsFiniteSet({x})
      BY FS_Singleton
    <3>3. IsFiniteSet({"index"} \cup {"set_available"}) /\ IsFiniteSet({0} \cup {1})
      BY <3>2, FS_Union
    <3>4. IsFiniteSet({"index"} \cup {"set_available"} \cup {"delete"})
      BY <3>2, <3>3, FS_Union
    <3> QED BY <3>1, <3>3, <3>4
  <2>2. f \in [P -> Event]
    BY DEF Event
  <2>3. ASSUME NEW e \in Event PROVE \E p \in P : f[p] = e
    <3> DEFINE q == <<<<<<e.at, e.type>>, <<e.docs, e.available>>>>, e.attempts>>
    <3>1. q \in P
      BY DEF Event
    <3>2. f[q] = [at |-> e.at, type |-> e.type, docs |-> e.docs,
                  available |-> e.available, attempts |-> e.attempts]
      BY <3>1
    <3>3. f[q] = e
      BY <3>2 DEF Event
    <3> QED BY <3>1, <3>3
  <2> HIDE DEF T
  <2>4. IsFiniteSet(A) /\ IsFiniteSet(B)
    BY <1>1, <1>2, <2>1, FS_Product, FS_SUBSET
  <2> HIDE DEF A, B
  <2>5. IsFiniteSet(P)
    <3>1. IsFiniteSet(A \X B)
      BY <2>4, FS_Product
    <3> QED BY <1>1, <3>1, FS_Product
  <2> HIDE DEF P, f
  <2>6. f \in Surjection(P, Event)
    BY <2>2, <2>3 DEF Surjection
  <2> QED BY <2>5, <2>6, FS_Surjection
<1> QED BY <1>3, FS_Subset DEF TypeOK
---------------------------------------------------------------------------
LEMMA IngestArrives ==
    ASSUME OneIngester, IsFiniteSet(Chunks), IsFiniteSet(Summaries),
           Steady, StagedInv, PublicationInv, BarrierParts, exists,
           NEW w \in Workers, IngestStart(w) \/ IngestStep(w)
    PROVE  BarrierParts'
<1>a. job[w] \in Job /\ JobArrives(pc[w], job[w]) /\ JobStaged(pc[w], job[w])
  BY JobParts DEF Steady, BarrierParts, RequestsArrive, StagedInv
<1>b. RequestsArrive /\ TypeOK
  BY DEF BarrierParts, Steady
<1>1. CASE IngestStart(w)
  <2>1. PICK v \in Versions :
           StartRequest(w, "parse", [NoJob EXCEPT !.ver = v, !.own = NewDocs(v, ingests + 1)])
    BY <1>1 DEF IngestStart
  <2>j. PICK j : j = [NoJob EXCEPT !.ver = v, !.own = NewDocs(v, ingests + 1)]
    OBVIOUS
  <2>2. j.plan = {} /\ StartRequest(w, "parse", j)
    BY <2>1, <2>j DEF NoJob
  <2>3. JobArrives("parse", j)'
    BY <2>2 DEF JobArrives
  <2>4. UNCHANGED <<rows, outbox>>
    BY <1>1 DEF IngestStart, pgVars
  <2> QED BY <1>b, <2>2, <2>3, <2>4, MoveArrives, BarrierMoved DEF RowsSteady
<1>2. CASE Stage(w)
  <2>1. PICK t \in Ticks : outbox' = outbox \cup StagedEvents(t, job[w].own)
    BY <1>2 DEF Stage
  <2>2. /\ Making(w) /\ CallDrain(w, "barrier", job[w]) /\ rows' = rows \cup job[w].own
    BY <1>2 DEF Stage, Making
  <2>3. RowsSteady(w)
    <3>1. w \in Ingesters
      BY <2>2 DEF PublicationInv, MadeOk
    <3>2. \A v \in Workers : v # w => ~Making(v)
      BY <3>1, OnlyMaker
    <3> QED BY <3>2 DEF RowsSteady, Making
  <2>4. JobArrives("drain", job[w])
    BY <1>a DEF JobArrives
  <2>5. RequestsArrive'
    BY <1>a, <1>b, <2>2, <2>3, <2>4, JobArrivesGrows, CallArrives
  <2> DEFINE added == StagedEvents(t, job[w].own)
  <2>6. \A e \in added : OnlyStages(e)'
    BY DEF StagedEvents, IndexEvent, OnlyStages
  <2>7. \A d \in job[w].own : \E e \in added : e.type = "index" /\ d \in e.docs
    <3>1. ASSUME NEW d \in job[w].own PROVE \E e \in added : e.type = "index" /\ d \in e.docs
      <4>1. IndexEvent(t, d, 0) \in added
        BY DEF StagedEvents
      <4>2. IndexEvent(t, d, 0).type = "index" /\ d \in IndexEvent(t, d, 0).docs
        BY DEF IndexEvent
      <4> QED BY <4>1, <4>2
    <3> QED BY <3>1
  <2> HIDE DEF added
  <2>8. outbox' = outbox \cup added
    BY <2>1 DEF added
  <2> QED BY <2>2, <2>5, <2>6, <2>7, <2>8, BarrierKept
<1>3. CASE StageFails(w) \/ BarrierFail(w)
  <2>1. EndRequest(w) /\ UNCHANGED <<rows, outbox>>
    BY <1>3 DEF StageFails, BarrierFail, pgVars
  <2> QED BY <1>b, <2>1, EndArrives, BarrierMoved DEF RowsSteady
<1>4. CASE BarrierPass(w)
  <2>j. PICK j : j = job[w]
    OBVIOUS
  <2>1. GoTo(w, "flip", j) /\ UNCHANGED <<rows, outbox>> /\ PendingCount = 0
    BY <1>4, <2>j DEF BarrierPass, pgVars
  <2>2. outbox = {}
    BY <1>b, <2>1, OutboxFinite, FS_EmptySet DEF PendingCount
  <2>3. JobArrives("flip", j)
    BY <1>a, <2>2, <2>j DEF JobArrives, BarrierParts
  <2>4. JobArrives("flip", j)'
    BY <1>a, <2>1, <2>3, <2>j, JobArrivesGrows
  <2> QED BY <1>b, <2>1, <2>4, MoveArrives, BarrierMoved DEF RowsSteady
<1>5. CASE FlipBegin(w)
  <2>1. PICK t \in Ticks :
           GoTo(w, "flipping", [job[w] EXCEPT !.at = t,
                  !.known = {d \in rows : VersionOf(d) < job[w].ver}])
    BY <1>5 DEF FlipBegin
  <2>j. PICK j : j = [job[w] EXCEPT !.at = t,
                     !.known = {d \in rows : VersionOf(d) < job[w].ver}]
    OBVIOUS
  <2>2. /\ j.ver = job[w].ver /\ j.plan = job[w].plan
        /\ j.known = {d \in rows : VersionOf(d) < job[w].ver}
    BY <1>a, <2>j DEF Job
  <2>3. GoTo(w, "flipping", j) /\ pc[w] = "flip" /\ UNCHANGED <<rows, outbox>>
    BY <1>5, <2>1, <2>j DEF FlipBegin, pgVars
  <2>4. j \in Job
    <3>1. {d \in rows : VersionOf(d) < job[w].ver} \in SUBSET Docs
      BY <1>b DEF TypeOK, TablesTypeOK
    <3> QED BY <1>a, <2>j, <3>1 DEF Job
  <2>5. \A d \in j.known : VersionOf(d) <= j.ver
    <3>1. job[w].ver \in Nat /\ rows \subseteq Docs
      BY <1>b, JobParts DEF TypeOK, TablesTypeOK
    <3> QED BY <2>2, <3>1, DocVersions
  <2>6. JobArrives("flipping", j)
    BY <1>a, <2>2, <2>3, <2>5 DEF JobArrives
  <2>7. JobArrives("flipping", j)'
    BY <2>3, <2>4, <2>6, JobArrivesGrows
  <2> QED BY <1>b, <2>3, <2>7, MoveArrives, BarrierMoved DEF RowsSteady
<1>6. CASE Flip(w)
  <2> DEFINE v == job[w].ver
             new == SetEvent(job[w].at, job[w].own, 1)
             old == IfAny(job[w].known, SetEvent(job[w].at, job[w].known, 0))
             added == {new} \cup old
  <2>1. /\ active' = [p \in Pointers |-> v] /\ outbox' = outbox \cup added
        /\ CallDrain(w, "idle", NoJob) /\ pc[w] = "flipping" /\ rows' = rows
    BY <1>6 DEF Flip
  <2>2. new.docs = job[w].own /\ \A e \in old : e.docs = job[w].known
    BY DEF SetEvent, IfAny
  <2>3. active'["doc"] = v
    BY <2>1 DEF Pointers
  <2>4. \A d \in job[w].own \cup job[w].known : VersionOf(d) <= v
    <3>1. v \in Nat
      BY <1>b, JobParts
    <3> QED BY <1>a, <2>1, <3>1 DEF JobStaged, JobArrives
  <2> HIDE DEF new, old, v
  <2>5. \A e \in added : OnlyStages(e)'
    BY <2>2, <2>3, <2>4 DEF OnlyStages, Below
  <2>6. RequestsArrive'
    <3>1. JobArrives("drain", NoJob)'
      BY IdleArrives, JobArrivesGrows, NoJobType
    <3> QED BY <1>b, <2>1, <3>1, CallArrives DEF RowsSteady
  <2> HIDE DEF added
  <2> QED BY <2>1, <2>5, <2>6, BarrierKept
<1> QED BY <1>1, <1>2, <1>3, <1>4, <1>5, <1>6 DEF IngestStep

LEMMA UpkeepArrives ==
    ASSUME Steady, PublicationInv, BarrierParts, exists, exists',
           NEW w \in Workers, GcBegin(w) \/ GcStep(w) \/ PurgeBegin(w) \/ PurgeCommit(w)
    PROVE  BarrierParts'
<1>b. RequestsArrive /\ TypeOK
  BY DEF BarrierParts, Steady
<1>1. CASE GcBegin(w) \/ PurgeBegin(w)
  <2>1. UNCHANGED <<rows, outbox>>
    BY <1>1 DEF GcBegin, PurgeBegin, pgVars
  <2>2. PICK n \in {"gcDelete", "purge"} : \E j : StartRequest(w, n, j) /\ j.plan = {}
    <3>1. CASE GcBegin(w)
      <4>1. PICK t \in Ticks : StartRequest(w, "gcDelete", [NoJob EXCEPT !.at = t])
        BY <3>1 DEF GcBegin, StartUpkeep
      <4>2. [NoJob EXCEPT !.at = t].plan = {}
        BY DEF NoJob
      <4> QED BY <4>1, <4>2
    <3>2. CASE PurgeBegin(w)
      <4>1. PICK t \in Ticks :
               StartRequest(w, "purge", [NoJob EXCEPT !.at = t, !.known = rows])
        BY <3>2 DEF PurgeBegin, StartUpkeep
      <4>2. [NoJob EXCEPT !.at = t, !.known = rows].plan = {}
        BY DEF NoJob
      <4> QED BY <4>1, <4>2
    <3> QED BY <1>1, <3>1, <3>2
  <2>3. PICK j : StartRequest(w, n, j) /\ j.plan = {}
    BY <2>2
  <2>4. JobArrives(n, j)'
    BY <2>3 DEF JobArrives
  <2> QED BY <1>b, <2>1, <2>3, <2>4, MoveArrives, BarrierMoved DEF RowsSteady
<1>2. CASE GcNothing(w)
  <2>1. EndRequest(w) /\ UNCHANGED <<rows, outbox>>
    BY <1>2 DEF GcNothing, pgVars
  <2> QED BY <1>b, <2>1, EndArrives, BarrierMoved DEF RowsSteady
<1>3. CASE GcDelete(w)
  <2>1. PICK added : added = IfAny(Doomed, DeleteEvent(job[w].at, Doomed))
    OBVIOUS
  <2>2. /\ outbox' = outbox \cup added /\ rows' \subseteq rows /\ active' = active
        /\ CallDrain(w, "idle", NoJob)
    BY <1>3, <2>1 DEF GcDelete
  <2>3. Below(Doomed)
    <3>1. active["chunk"] = active["doc"] /\ active["doc"] \in Nat /\ rows \subseteq Docs
      BY <1>b, ActiveNat DEF PublicationInv, Pointers, TypeOK, TablesTypeOK
    <3> QED BY <3>1, RetainAssumption, DocVersions DEF Doomed, Below
  <2>4. \A e \in added : OnlyStages(e)'
    BY <2>1, <2>2, <2>3 DEF IfAny, DeleteEvent, OnlyStages, Below
  <2>5. RequestsArrive'
    <3>1. JobArrives("drain", NoJob)'
      BY IdleArrives, JobArrivesGrows, NoJobType
    <3> QED BY <1>b, <2>2, <3>1, CallArrives DEF RowsSteady
  <2> QED BY <2>2, <2>4, <2>5, BarrierKept
<1>4. CASE PurgeCommit(w)
  BY <1>4 DEF PurgeCommit
<1> QED BY <1>1, <1>2, <1>3, <1>4 DEF GcStep

(* A repair is of what was active, or of what the index shows.             *)
LEMMA RepairsNames ==
    ASSUME NEW own \in SUBSET Docs, NEW known, NEW unread
    PROVE  \A e \in Repairs(own, known, unread) :
               e.docs \subseteq own \/ e.docs \subseteq {d \in Docs : es[d] = "visible"}
<1>1. Republish(own, unread) \subseteq own /\ AvailDrift(own, unread) \subseteq own
  BY DEF Republish, AvailDrift
<1>2. Leaked(own) \subseteq {d \in Docs : es[d] = "visible"}
  BY DEF Leaked
<1> QED BY <1>1, <1>2 DEF Repairs, IfAny, IndexEvent, SetEvent, DeleteEvent

LEMMA ReconcileArrives ==
    ASSUME Steady, StagedInv, PublicationInv, BarrierParts, exists,
           NEW w \in Workers, ReconcileLoad(w) \/ ReconcileStep(w)
    PROVE  BarrierParts'
<1>a. job[w] \in Job /\ JobArrives(pc[w], job[w]) /\ JobStaged(pc[w], job[w])
  BY JobParts DEF Steady, BarrierParts, RequestsArrive, StagedInv
<1>b. RequestsArrive /\ TypeOK
  BY DEF BarrierParts, Steady
<1>1. CASE ReconcileLoad(w)
  <2>1. PICK j : j = [NoJob EXCEPT !.own = ActiveDocs, !.known = rows]
    OBVIOUS
  <2>2. StartRequest(w, "classify", j) /\ UNCHANGED <<rows, outbox>> /\ j.plan = {}
    BY <1>1, <2>1 DEF ReconcileLoad, StartUpkeep, NoJob, pgVars
  <2>3. JobArrives("classify", j)'
    BY <2>2 DEF JobArrives
  <2> QED BY <1>b, <2>2, <2>3, MoveArrives, BarrierMoved DEF RowsSteady
<1>2. CASE Classify(w)
  <2>1. PICK unread \in SUBSET job[w].own :
           GoTo(w, "embed",
                [job[w] EXCEPT !.plan = Repairs(job[w].own, job[w].known, unread)])
    BY <1>2 DEF Classify
  <2>2. PICK plan, j : /\ plan = Repairs(job[w].own, job[w].known, unread)
                       /\ j = [job[w] EXCEPT !.plan = plan]
    OBVIOUS
  <2>3. pc[w] = "classify" /\ GoTo(w, "embed", j) /\ UNCHANGED <<rows, outbox, active>>
    BY <1>2, <2>1, <2>2 DEF Classify, pgVars
  <2>4. Below(job[w].own) /\ job[w].own \in SUBSET Docs
    BY <1>a, <1>b, <2>3, PublishedBelow DEF JobStaged, Job
  <2>5. Below({d \in Docs : es[d] = "visible"})
    BY <1>b, VisibleBelow DEF StagedInv
  <2>6. \A e \in plan : Below(e.docs)
    BY <2>2, <2>4, <2>5, RepairsNames DEF Below
  <2>7. j.plan = plan
    BY <1>a, <2>2 DEF Job
  <2>8. JobArrives("embed", j)'
    BY <2>3, <2>6, <2>7 DEF JobArrives, Below
  <2> QED BY <1>b, <2>3, <2>8, MoveArrives, BarrierMoved DEF RowsSteady
<1>3. CASE RepairBegin(w)
  <2>1. PICK t \in Ticks : GoTo(w, "repair", [job[w] EXCEPT !.at = t])
    BY <1>3 DEF RepairBegin
  <2>2. PICK j : j = [job[w] EXCEPT !.at = t]
    OBVIOUS
  <2>3. j.plan = job[w].plan /\ GoTo(w, "repair", j) /\ UNCHANGED <<rows, outbox, active>>
    BY <1>3, <1>a, <2>1, <2>2 DEF RepairBegin, pgVars, Job
  <2>4. JobArrives("repair", j)'
    BY <1>a, <2>3 DEF JobArrives, Below
  <2> QED BY <1>b, <2>3, <2>4, MoveArrives, BarrierMoved DEF RowsSteady
<1>4. CASE Repair(w)
  <2>1. PICK added : added = {[e EXCEPT !.at = job[w].at] : e \in job[w].plan}
    OBVIOUS
  <2>2. /\ outbox' = outbox \cup added /\ CallDrain(w, "idle", NoJob)
        /\ UNCHANGED <<rows, active>>
    BY <1>4, <2>1 DEF Repair, pgVars
  <2>3. \A e \in added : \E f \in job[w].plan : e.docs = f.docs
    BY <1>a, <2>1 DEF Job, Event
  <2>4. \A e \in added : OnlyStages(e)'
    BY <1>a, <2>2, <2>3 DEF JobArrives, OnlyStages, Below
  <2>5. RequestsArrive'
    <3>1. JobArrives("drain", NoJob)'
      BY IdleArrives, JobArrivesGrows, NoJobType
    <3> QED BY <1>b, <2>2, <3>1, CallArrives DEF RowsSteady
  <2> QED BY <2>2, <2>4, <2>5, BarrierKept
<1> QED BY <1>1, <1>2, <1>3, <1>4 DEF ReconcileStep
---------------------------------------------------------------------------
Quiet == \A d \in Docs : VersionOf(d) > active["doc"] => es'[d] \in {es[d], "hidden"}

LEMMA QuietWrite ==
    ASSUME TypeOK, NEW d \in Docs, NEW s, es' = [es EXCEPT ![d] = s],
           VersionOf(d) > active["doc"] => s \in {es[d], "hidden"}
    PROVE  Quiet
<1>1. es \in [Docs -> EsState]
  BY DEF TypeOK
<1> QED BY <1>1 DEF Quiet

(* The row whose turn it is.                                               *)
LEMMA TurnArrives ==
    ASSUME TypeOK, StagedInv, RequestsArrive, NEW w \in Workers, NEW r \in Turn(w)
    PROVE  /\ r \in Event /\ r \in dr[w].todo \cup dr[w].cur /\ OnlyStages(r)
           /\ Left(w, r) \subseteq r.docs /\ Left(w, r) \subseteq Docs
           /\ \A d \in r.docs : VersionOf(d) > active["doc"] => r.type = "index" /\ r.available = 0
<1>1. r \in Event /\ r \in dr[w].todo \cup dr[w].cur /\ Left(w, r) \subseteq Docs
  BY TurnType
<1>2. DrainStaged(dr[w]) /\ DrainArrives(dr[w])
  BY DEF StagedInv, RequestsArrive
<1>3. Left(w, r) \subseteq r.docs
  BY <1>2 DEF DrainStaged, Turn, Left
<1>4. OnlyStages(r)
  BY <1>1, <1>2 DEF DrainArrives
<1>5. ASSUME NEW d \in r.docs, VersionOf(d) > active["doc"]
      PROVE  r.type = "index" /\ r.available = 0
  <2>1. d \in Docs
    BY <1>1 DEF Event
  <2>2. VersionOf(d) \in Nat /\ active["doc"] \in Nat
    BY <2>1, DocVersions, ActiveNat
  <2>3. ~Below(r.docs)
    BY <1>5, <2>2 DEF Below
  <2> QED BY <1>4, <2>3 DEF OnlyStages
<1> QED BY <1>1, <1>3, <1>4, <1>5

LEMMA DrainQuiet ==
    ASSUME TypeOK, StagedInv, RequestsArrive, NEW w \in Workers,
           DrainStep(w) \/ PublishError(w)
    PROVE  Quiet
<1>1. CASE es' = es
  BY <1>1 DEF Quiet
<1>2. CASE PublishIndex(w)
  <2>1. PICK r \in Turn(w) : \E d \in Left(w, r) :
           r.type = "index" /\ es' = [es EXCEPT ![d] = IndexedAs(r.available)]
    BY <1>2 DEF PublishIndex
  <2>2. PICK d \in Left(w, r) : es' = [es EXCEPT ![d] = IndexedAs(r.available)]
    BY <2>1
  <2>3. d \in Docs /\ (VersionOf(d) > active["doc"] => r.available = 0)
    BY TurnArrives
  <2>4. VersionOf(d) > active["doc"] => IndexedAs(r.available) = "hidden"
    BY <2>3 DEF IndexedAs
  <2> QED BY <2>2, <2>3, <2>4, QuietWrite
<1>3. CASE PublishPut(w)
  <2>1. PICK r \in dr[w].cur, g \in dr[w].got :
           es' = [es EXCEPT ![g[1]] = WithAvailable(g[2], r.available)]
    BY <1>3 DEF PublishPut
  <2>2. r \in Turn(w) /\ r.type = "set_available" /\ g[1] \in r.docs
    BY <2>1 DEF Turn, StagedInv, DrainStaged, RequestsArrive, DrainArrives
  <2>3. g[1] \in Docs
    BY <2>2, TurnArrives DEF Event
  <2>4. ~(VersionOf(g[1]) > active["doc"])
    BY <2>2, TurnArrives
  <2> QED BY <2>1, <2>3, <2>4, QuietWrite
<1>4. CASE PublishDelete(w)
  <2>1. PICK r \in Turn(w) : \E d \in Left(w, r) :
           r.type = "delete" /\ es' = [es EXCEPT ![d] = "absent"]
    BY <1>4 DEF PublishDelete
  <2>2. PICK d \in Left(w, r) : es' = [es EXCEPT ![d] = "absent"]
    BY <2>1
  <2>3. d \in Docs /\ ~(VersionOf(d) > active["doc"])
    BY <2>1, TurnArrives
  <2> QED BY <2>2, <2>3, QuietWrite
<1>5. CASE PublishError(w)
  <2>1. PICK r \in Turn(w) : \E d \in Left(w, r) :
           es' \in {es, [es EXCEPT ![d] = Applied(w, r, d)]}
    BY <1>5 DEF PublishError
  <2>2. PICK d \in Left(w, r) : es' \in {es, [es EXCEPT ![d] = Applied(w, r, d)]}
    BY <2>1
  <2>3. d \in Docs /\ (VersionOf(d) > active["doc"] => r.type = "index" /\ r.available = 0)
    BY TurnArrives
  <2>4. VersionOf(d) > active["doc"] => Applied(w, r, d) = "hidden"
    BY <2>3 DEF Applied, IndexedAs
  <2> QED BY <1>1, <2>2, <2>3, <2>4, QuietWrite
<1>6. CASE \/ DrainSelect(w) \/ PublishGet(w) \/ PublishMissing(w)
           \/ DrainMark(w) \/ DrainDeadlock(w) \/ DrainCommit(w)
  BY <1>1, <1>6
  DEF DrainSelect, PublishGet, PublishMissing, DrainMark, DrainDeadlock, DrainCommit
<1> QED BY <1>2, <1>3, <1>4, <1>5, <1>6 DEF DrainStep

LEMMA RelayArrives ==
    ASSUME Steady, StagedInv, BarrierParts, NEW w \in Workers, DrainStep(w) \/ PublishError(w),
           UNCHANGED pgVars
    PROVE  BarrierParts'
<1>a. TypeOK /\ RequestsArrive /\ dr[w] \in Drain /\ UNCHANGED <<rows, active>> /\ RowsSteady(w)
  BY JobParts DEF Steady, BarrierParts, pgVars, RowsSteady
<1>b. /\ dr \in [Workers -> Drain] /\ pc \in [Workers -> PCs] /\ job \in [Workers -> Job]
      /\ DrainStaged(dr[w]) /\ DrainArrives(dr[w]) /\ JobArrives(pc[w], job[w])
  BY <1>a, Functions DEF RequestsArrive, StagedInv
<1>c. /\ dr[w].todo \cup dr[w].cur \cup dr[w].done \cup dr[w].failed \subseteq Event
      /\ \A r \in dr[w].cur \cup dr[w].done : r.docs \subseteq Docs
  BY <1>a DEF Drain, Event
(* What held of the drain's rows and documents still holds.                *)
<1>e. /\ \A e \in dr[w].todo \cup dr[w].cur \cup dr[w].done \cup dr[w].failed : OnlyStages(e)'
      /\ dr[w].ok => \A r \in dr[w].cur : r.type = "index" =>
                          \A i \in r.docs \ dr[w].left : Arrived(i)'
      /\ \A r \in dr[w].done : r.type = "index" => \A i \in r.docs : Arrived(i)'
  BY <1>b, <1>c, OnlyStagesGrows, ArrivedGrows DEF DrainArrives
(* The drain goes on as d.                                                 *)
<1>f. ASSUME NEW d, dr' = [dr EXCEPT ![w] = d], DrainArrives(d)',
             pc' = [pc EXCEPT ![w] = "publish"], job' = job
      PROVE  RequestsArrive'
  <2>1. PICK j : j = job[w]
    OBVIOUS
  <2>2. job' = [job EXCEPT ![w] = j] /\ j \in Job
    BY <1>b, <1>f, <2>1
  <2>3. JobArrives("publish", j)'
    <3>1. JobArrives("publish", j)
      BY <1>b, <2>1 DEF JobArrives
    <3> QED BY <2>2, <3>1, JobArrivesGrows
  <2> QED BY <1>a, <1>f, <2>2, <2>3, RequestsArriveStep
<1>g. ASSUME Draining(w), UNCHANGED pc
      PROVE  pc' = [pc EXCEPT ![w] = "publish"]
  BY <1>b, <1>g DEF Draining
<1>h. ASSUME NEW r \in Turn(w), NEW left, NEW g, Advance(w, r, left, g),
             Draining(w), UNCHANGED <<pc, job>>,
             g # {} => r.type = "set_available",
             r.type = "index" /\ dr[w].ok => \A i \in r.docs \ left : Arrived(i)'
      PROVE  RequestsArrive'
  <2>1. PICK d : d = [dr[w] EXCEPT !.cur = {r}, !.left = left, !.got = g]
    OBVIOUS
  <2>2. dr' = [dr EXCEPT ![w] = d]
    BY <1>b, <1>h, <2>1 DEF Advance
  <2>3. /\ d.todo = dr[w].todo /\ d.cur = {r} /\ d.failed = dr[w].failed
        /\ d.done = dr[w].done /\ d.left = left /\ d.got = g /\ d.ok = dr[w].ok
    BY <1>a, <2>1 DEF Drain
  <2>4. r \in dr[w].todo \cup dr[w].cur
    BY <1>a, TurnArrives
  <2>5. DrainArrives(d)'
    BY <1>e, <1>h, <2>3, <2>4 DEF DrainArrives
  <2> QED BY <1>f, <1>g, <1>h, <2>2, <2>5
<1>i. ASSUME NEW r \in Turn(w), GiveUp(w, r), Draining(w), UNCHANGED <<pc, job>>
      PROVE  RequestsArrive'
  <2>1. PICK d : d = [dr[w] EXCEPT !.cur = {r}, !.left = {}, !.got = {}, !.ok = FALSE]
    OBVIOUS
  <2>2. dr' = [dr EXCEPT ![w] = d]
    BY <1>b, <1>i, <2>1 DEF GiveUp
  <2>3. /\ d.todo = dr[w].todo /\ d.cur = {r} /\ d.failed = dr[w].failed
        /\ d.done = dr[w].done /\ d.got = {} /\ d.ok = FALSE
    BY <1>a, <2>1 DEF Drain
  <2>4. r \in dr[w].todo \cup dr[w].cur
    BY <1>a, TurnArrives
  <2>5. DrainArrives(d)'
    BY <1>e, <2>3, <2>4 DEF DrainArrives
  <2> QED BY <1>f, <1>g, <1>i, <2>2, <2>5
(* The documents of an index row that are already done.                    *)
<1>j. ASSUME NEW r \in Turn(w), r.type = "index", dr[w].ok
      PROVE  \A i \in r.docs \ Left(w, r) : Arrived(i)'
  <2>1. CASE dr[w].cur = {}
    BY <2>1 DEF Left
  <2>2. CASE dr[w].cur # {}
    BY <1>e, <1>j, <2>2 DEF Left, Turn
  <2> QED BY <2>1, <2>2
<1>1. CASE DrainSelect(w)
  <2>1. PICK d : d = [dr[w] EXCEPT !.todo = outbox]
    OBVIOUS
  <2>2. /\ dr' = [dr EXCEPT ![w] = d] /\ pc' = [pc EXCEPT ![w] = "publish"]
        /\ job' = job /\ outbox' = outbox
    BY <1>1, <1>b, <2>1 DEF DrainSelect
  <2>3. /\ d.todo = outbox /\ d.cur = dr[w].cur /\ d.failed = dr[w].failed
        /\ d.done = dr[w].done /\ d.left = dr[w].left /\ d.got = dr[w].got /\ d.ok = dr[w].ok
    BY <1>a, <2>1 DEF Drain
  <2>4. \A e \in outbox : OnlyStages(e)'
    BY <1>a, OnlyStagesGrows DEF BarrierParts, TypeOK
  <2>5. DrainArrives(d)'
    BY <1>b, <1>e, <2>3, <2>4 DEF DrainArrives
  <2> QED BY <1>a, <1>f, <2>2, <2>5, BarrierMoved
<1>2. CASE PublishIndex(w)
  <2>1. PICK r \in Turn(w) : \E d \in Left(w, r) :
           /\ r.type = "index" /\ es' = [es EXCEPT ![d] = IndexedAs(r.available)]
           /\ Advance(w, r, Left(w, r) \ {d}, {})
    BY <1>2 DEF PublishIndex
  <2>2. PICK d \in Left(w, r) :
           /\ es' = [es EXCEPT ![d] = IndexedAs(r.available)]
           /\ Advance(w, r, Left(w, r) \ {d}, {})
    BY <2>1
  <2>3. Draining(w) /\ UNCHANGED <<outbox, pc, job>>
    BY <1>2 DEF PublishIndex
  <2>4. Arrived(d)'
    <3>1. d \in Docs /\ (VersionOf(d) > active["doc"] => r.available = 0)
      BY <1>a, TurnArrives
    <3>2. es \in [Docs -> EsState]
      BY <1>a DEF TypeOK
    <3> QED BY <1>a, <2>2, <3>1, <3>2 DEF Arrived, IndexedAs
  <2>5. RequestsArrive'
    BY <1>h, <1>j, <2>1, <2>2, <2>3, <2>4
  <2> QED BY <1>a, <2>3, <2>5, BarrierMoved
<1>3. CASE PublishGet(w)
  <2>1. PICK r \in Turn(w) : \E d \in Left(w, r) :
           r.type = "set_available" /\ Advance(w, r, Left(w, r), {<<d, es[d]>>})
    BY <1>3 DEF PublishGet
  <2>2. PICK d \in Left(w, r) : Advance(w, r, Left(w, r), {<<d, es[d]>>})
    BY <2>1
  <2>3. Draining(w) /\ UNCHANGED <<outbox, pc, job>>
    BY <1>3 DEF PublishGet
  <2>4. RequestsArrive'
    BY <1>h, <2>1, <2>2, <2>3
  <2> QED BY <1>a, <2>3, <2>4, BarrierMoved
<1>4. CASE PublishPut(w)
  <2>1. PICK r \in dr[w].cur, g \in dr[w].got : Advance(w, r, dr[w].left \ {g[1]}, {})
    BY <1>4 DEF PublishPut
  <2>2. r \in Turn(w) /\ r.type = "set_available"
    BY <1>b, <2>1 DEF Turn, DrainArrives
  <2>3. Draining(w) /\ UNCHANGED <<outbox, pc, job>>
    BY <1>4 DEF PublishPut
  <2>4. RequestsArrive'
    BY <1>h, <2>1, <2>2, <2>3
  <2> QED BY <1>a, <2>3, <2>4, BarrierMoved
<1>5. CASE PublishDelete(w)
  <2>1. PICK r \in Turn(w) : \E d \in Left(w, r) :
           r.type = "delete" /\ Advance(w, r, Left(w, r) \ {d}, {})
    BY <1>5 DEF PublishDelete
  <2>2. PICK d \in Left(w, r) : Advance(w, r, Left(w, r) \ {d}, {})
    BY <2>1
  <2>3. Draining(w) /\ UNCHANGED <<outbox, pc, job>>
    BY <1>5 DEF PublishDelete
  <2>4. RequestsArrive'
    BY <1>h, <2>1, <2>2, <2>3
  <2> QED BY <1>a, <2>3, <2>4, BarrierMoved
<1>6. CASE PublishMissing(w)
  <2>1. PICK r \in Turn(w) : GiveUp(w, r)
    BY <1>6 DEF PublishMissing
  <2>2. Draining(w) /\ UNCHANGED <<outbox, pc, job>>
    BY <1>6 DEF PublishMissing
  <2> QED BY <1>a, <1>i, <2>1, <2>2, BarrierMoved
<1>7. CASE PublishError(w)
  <2>1. PICK r \in Turn(w) : GiveUp(w, r)
    BY <1>7 DEF PublishError
  <2>2. Draining(w) /\ UNCHANGED <<outbox, pc, job>>
    BY <1>7 DEF PublishError
  <2> QED BY <1>a, <1>i, <2>1, <2>2, BarrierMoved
<1>8. CASE DrainMark(w)
  <2>1. PICK r \in dr[w].cur :
           /\ AtUpdate(w, r)
           /\ dr' = [dr EXCEPT ![w].todo = @ \ {r}, ![w].cur = {}, ![w].ok = TRUE,
                               ![w].done = IF dr[w].ok THEN @ \cup {r} ELSE @,
                               ![w].failed = IF dr[w].ok THEN @ ELSE @ \cup {r}]
    BY <1>8 DEF DrainMark
  <2>2. PICK d : d = [dr[w] EXCEPT !.todo = @ \ {r}, !.cur = {}, !.ok = TRUE,
                                !.done = IF dr[w].ok THEN @ \cup {r} ELSE @,
                                !.failed = IF dr[w].ok THEN @ ELSE @ \cup {r}]
    OBVIOUS
  <2>3. dr' = [dr EXCEPT ![w] = d]
    BY <1>b, <2>1, <2>2
  <2>4. /\ d.todo \subseteq dr[w].todo /\ d.cur = {} /\ d.got = dr[w].got
        /\ d.failed \subseteq dr[w].failed \cup dr[w].cur
        /\ d.done = IF dr[w].ok THEN dr[w].done \cup {r} ELSE dr[w].done
    BY <1>a, <2>2 DEF Drain
  <2>5. dr[w].left = {} /\ Draining(w) /\ UNCHANGED <<outbox, pc, job>>
    BY <1>8, <2>1 DEF DrainMark, AtUpdate
  <2>6. \A e \in d.done : e.type = "index" => \A i \in e.docs : Arrived(i)'
    BY <1>e, <2>1, <2>4, <2>5
  <2>7. \A e \in d.todo \cup d.cur \cup d.done \cup d.failed : OnlyStages(e)'
    BY <1>e, <2>1, <2>4
  <2>8. DrainArrives(d)'
    BY <2>4, <2>6, <2>7 DEF DrainArrives
  <2>9. RequestsArrive'
    BY <1>f, <1>g, <2>3, <2>5, <2>8
  <2> QED BY <1>a, <2>5, <2>9, BarrierMoved
<1>9. CASE DrainDeadlock(w)
  <2>1. EndRequest(w) /\ outbox' = outbox
    BY <1>9 DEF DrainDeadlock
  <2> QED BY <1>a, <2>1, EndArrives, BarrierMoved
<1>10. CASE DrainCommit(w)
  <2>1. outbox' = OutboxAfter(w) /\ Draining(w)
    BY <1>10 DEF DrainCommit
  <2>2. ASSUME NEW e \in outbox' PROVE OnlyStages(e)'
    <3>1. CASE e \in outbox
      BY <1>a, <3>1, OnlyStagesGrows DEF BarrierParts, TypeOK
    <3>2. CASE e \notin outbox
      <4>1. PICK f \in dr[w].failed : e = Retried(f)
        BY <2>1, <2>2, <3>2 DEF OutboxAfter
      <4>2. f \in Event /\ OnlyStages(f)'
        BY <1>c, <1>e
      <4>3. e.docs = f.docs /\ e.available = f.available /\ e.type = f.type
        BY <4>1, <4>2 DEF Retried, Event
      <4> QED BY <4>2, <4>3 DEF OnlyStages
    <3> QED BY <3>1, <3>2
  <2>3. ASSUME NEW d \in rows'
        PROVE  Arrived(d)' \/ \E e \in outbox' : e.type = "index" /\ d \in e.docs
    <3>1. d \in rows /\ d \in Docs
      BY <1>a DEF TypeOK, TablesTypeOK
    <3>2. CASE Arrived(d)
      BY <3>1, <3>2, ArrivedGrows
    <3>3. ASSUME NEW e \in outbox, e.type = "index", d \in e.docs
          PROVE  Arrived(d)' \/ \E f \in outbox' : f.type = "index" /\ d \in f.docs
      <4>0. e \in Event
        BY <1>a DEF TypeOK
      <4>1. CASE ~Holds(w, e)
        BY <2>1, <3>3, <4>1 DEF OutboxAfter
      <4>2. ASSUME NEW f \in Event, SameRow(f, e)
            PROVE  f.type = "index" /\ d \in f.docs
        <5>1. [f EXCEPT !.attempts = 0].type = f.type /\ [e EXCEPT !.attempts = 0].type = e.type
              /\ [f EXCEPT !.attempts = 0].docs = f.docs /\ [e EXCEPT !.attempts = 0].docs = e.docs
          BY <4>0 DEF Event
        <5> QED BY <3>3, <4>2, <5>1 DEF SameRow
      <4>3. ASSUME NEW f \in dr[w].done, SameRow(f, e) PROVE Arrived(d)'
        BY <1>c, <1>e, <4>2, <4>3
      <4>4. ASSUME NEW f \in dr[w].failed, SameRow(f, e)
            PROVE  \E g \in outbox' : g.type = "index" /\ d \in g.docs
        <5>1. f \in Event /\ f.type = "index" /\ d \in f.docs
          BY <1>c, <4>2, <4>4
        <5>2. Retried(f) \in outbox'
          BY <2>1, <4>4 DEF OutboxAfter
        <5>3. Retried(f).type = "index" /\ d \in Retried(f).docs
          BY <5>1 DEF Retried, Event
        <5> QED BY <5>2, <5>3
      <4> QED BY <4>1, <4>3, <4>4 DEF Holds
    <3> QED BY <3>1, <3>2, <3>3 DEF BarrierParts
  <2>4. RequestsArrive'
    <3>1. CASE dr[w].then = "idle"
      BY <1>10, <1>a, <3>1, EndArrives DEF DrainCommit
    <3>2. CASE dr[w].then # "idle"
      <4>j. PICK j : j = job[w]
        OBVIOUS
      <4>1. /\ pc' = [pc EXCEPT ![w] = "barrier"] /\ dr' = [dr EXCEPT ![w] = NoDrain]
            /\ job' = [job EXCEPT ![w] = j] /\ j \in Job
        BY <1>10, <1>a, <1>b, <3>2, <4>j DEF DrainCommit, Drain
      <4>2. JobArrives("barrier", j)'
        <5>1. JobArrives("barrier", j)
          BY <1>b, <4>j DEF JobArrives
        <5> QED BY <4>1, <5>1, JobArrivesGrows
      <4>3. DrainArrives(NoDrain)'
        BY IdleArrives, NoDrainType, DrainArrivesGrows
      <4> QED BY <1>a, <4>1, <4>2, <4>3, RequestsArriveStep
    <3> QED BY <3>1, <3>2
  <2> QED BY <2>2, <2>3, <2>4 DEF BarrierParts
<1> QED
  BY <1>1, <1>2, <1>3, <1>4, <1>5, <1>6, <1>7, <1>8, <1>9, <1>10 DEF DrainStep
---------------------------------------------------------------------------
(* The barrier is about a file whose documents the index does not lose,    *)
(* with finitely many of them.                                             *)
BarrierAssumption ==
    OneIngester /\ MaxLosses = 0 /\ IsFiniteSet(Chunks) /\ IsFiniteSet(Summaries)

LEMMA NoLoss ==
    ASSUME MaxLosses = 0, TypeOK
    PROVE  \A d \in Docs : ~EsLose(d)
<1>1. faults["loss"] \in Nat
  BY DEF TypeOK, CountersTypeOK, FaultKinds
<1>2. ~(faults["loss"] < FaultBound("loss"))
  BY <1>1 DEF FaultBound
<1> QED BY <1>2 DEF EsLose, Fault

LEMMA SteadyStep ==
    ASSUME MaxLosses = 0, TypeOK, StagedInv, PublicationInv, BarrierParts, exists, [Next]_vars
    PROVE  Steady
<1>1. TypeOK' /\ RequestsArrive
  BY TypeNext DEF BarrierParts
<1>2. active'["doc"] >= active["doc"]
  <2>1. CASE active' = active
    BY <2>1, ActiveNat
  <2>2. CASE active' # active
    <3>1. PICK w \in Workers : Flip(w)
      BY <2>2, OnlyFlipsPoint
    <3>2. PICK v : v = job[w].ver
      OBVIOUS
    <3>3. pc[w] = "flipping" /\ active'["doc"] = v
      BY <3>1, <3>2 DEF Flip, Pointers
    <3> QED BY <3>2, <3>3, FlipIsNewest DEF Versions
  <2> QED BY <2>1, <2>2
<1>3. Quiet
  <2>1. CASE es' = es
    BY <2>1 DEF Quiet
  <2>2. ASSUME NEW w \in Workers, Arrive(w) \/ Work(w), ~DrainStep(w) PROVE es' = es
    BY <2>2
    DEF Arrive, IngestStart, GcBegin, ReconcileLoad, PurgeBegin, Work, IngestStep, GcStep,
        ReconcileStep, Stage, StageFails, BarrierPass, BarrierFail, FlipBegin, Flip,
        GcDelete, GcNothing, Classify, RepairBegin, Repair, PurgeCommit
  <2>3. ASSUME NEW w \in Workers, DrainStep(w) \/ PublishError(w) PROVE Quiet
    BY <1>1, <2>3, DrainQuiet
  <2>4. (\E w \in Workers : Abort(w)) \/ UNCHANGED vars => es' = es
    BY DEF Abort, vars
  <2> QED BY <2>1, <2>2, <2>3, <2>4, NoLoss DEF Next
<1> QED BY <1>1, <1>2, <1>3 DEF Steady, Quiet

LEMMA BarrierInit == Init => BarrierInv
<1> SUFFICES ASSUME Init PROVE BarrierParts
  BY BarrierSplit
<1>1. RequestsArrive
  BY IdleArrives DEF Init, RequestsArrive
<1> QED BY <1>1 DEF Init, BarrierParts

LEMMA BarrierNext ==
    ASSUME BarrierAssumption, TypeOK, StagedInv, PublicationInv, BarrierInv, [Next]_vars
    PROVE  BarrierInv'
<1> SUFFICES ASSUME exists' PROVE BarrierParts'
  BY DEF BarrierInv, BarrierParts, RequestsArrive
<1>1. exists
  <2>1. ASSUME NEW w \in Workers, Arrive(w) \/ Work(w) PROVE exists' = exists \/ exists' = FALSE
    <3>1. CASE DrainStep(w)
      BY <3>1, DrainMoves DEF pgVars
    <3>2. CASE ~DrainStep(w)
      BY <2>1, <3>2
      DEF Arrive, IngestStart, GcBegin, ReconcileLoad, PurgeBegin, Work, IngestStep, GcStep,
          ReconcileStep, Stage, StageFails, BarrierPass, BarrierFail, FlipBegin, Flip,
          GcDelete, GcNothing, Classify, RepairBegin, Repair, PurgeCommit, pgVars
    <3> QED BY <3>1, <3>2
  <2>2. ASSUME NEW w \in Workers, PublishError(w) \/ Abort(w) PROVE exists' = exists
    BY <2>2, DrainMoves DEF Abort, pgVars
  <2>3. (\E d \in Docs : EsLose(d)) \/ UNCHANGED vars => exists' = exists
    BY DEF EsLose, vars, pgVars
  <2> QED BY <2>1, <2>2, <2>3 DEF Next
<1>2. BarrierParts
  BY <1>1, BarrierSplit
<1>3. Steady
  BY <1>1, <1>2, SteadyStep DEF BarrierAssumption
<1>4. ASSUME NEW w \in Workers, Arrive(w) \/ Work(w) PROVE BarrierParts'
  <2>1. CASE IngestStart(w) \/ IngestStep(w)
    BY <1>1, <1>2, <1>3, <2>1, IngestArrives DEF BarrierAssumption
  <2>2. CASE GcBegin(w) \/ GcStep(w) \/ PurgeBegin(w) \/ PurgeCommit(w)
    BY <1>1, <1>2, <1>3, <2>2, UpkeepArrives
  <2>3. CASE ReconcileLoad(w) \/ ReconcileStep(w)
    BY <1>1, <1>2, <1>3, <2>3, ReconcileArrives
  <2>4. CASE DrainStep(w)
    <3>1. UNCHANGED pgVars
      BY <2>4, DrainMoves
    <3> QED BY <1>2, <1>3, <2>4, <3>1, RelayArrives
  <2> QED BY <1>4, <2>1, <2>2, <2>3, <2>4 DEF Arrive, Work
<1>5. ASSUME NEW w \in Workers, PublishError(w) PROVE BarrierParts'
  <2>1. UNCHANGED pgVars
    BY <1>5, DrainMoves
  <2> QED BY <1>2, <1>3, <1>5, <2>1, RelayArrives
<1>6. ASSUME NEW w \in Workers, Abort(w) PROVE BarrierParts'
  <2>1. EndRequest(w) /\ UNCHANGED <<outbox, rows>>
    BY <1>6 DEF Abort, pgVars
  <2>2. RequestsArrive'
    BY <1>2, <1>3, <2>1, EndArrives DEF BarrierParts, RowsSteady
  <2> QED BY <1>2, <1>3, <2>1, <2>2, BarrierMoved
<1>7. CASE UNCHANGED vars
  <2>1. UNCHANGED <<active, es, rows, outbox, pc, job, dr>>
    BY <1>7 DEF vars, pgVars, reqVars
  <2> QED BY <1>2, <2>1
          DEF BarrierParts, RequestsArrive, DrainArrives, JobArrives, OnlyStages, Below, Arrived
<1> QED BY <1>4, <1>5, <1>6, <1>7, NoLoss DEF Next, BarrierAssumption

(* A flip finds every document of its version in the index: the barrier    *)
(* (pipeline.py:278) has seen an empty outbox, and until the flip nothing  *)
(* but a loss takes a document above the active version out again.         *)
THEOREM FlipsWhatIsIndexed ==
    ASSUME OneIngester, MaxLosses = 0, IsFiniteSet(Chunks), IsFiniteSet(Summaries)
    PROVE  Spec => FlipOnlyIndexed
<1>1. TypeOK /\ StagedInv /\ PublicationInv /\ BarrierInv /\ [Next]_vars => BarrierInv'
  BY BarrierNext DEF BarrierAssumption
<1>2. ASSUME TypeOK, PublicationInv, BarrierInv, [Next]_vars
      PROVE  [\A d \in rows : VersionOf(d) = active'["doc"] => es[d] \in {"hidden", "visible"}]_active
  <2> SUFFICES ASSUME active' # active, NEW d \in rows, VersionOf(d) = active'["doc"]
               PROVE  es[d] = "hidden"
    OBVIOUS
  <2>1. PICK w \in Workers : Flip(w)
    BY <1>2, OnlyFlipsPoint
  <2>2. PICK v : v = job[w].ver
    OBVIOUS
  <2>3. exists /\ pc[w] = "flipping" /\ active' = [p \in Pointers |-> v]
    BY <2>1, <2>2 DEF Flip
  <2>4. v \in Versions /\ active["doc"] \in Versions /\ active["doc"] <= v
    BY <1>2, <2>2, <2>3, FlipIsNewest
  <2>5. active["doc"] # v
    <3>1. active = [p \in Pointers |-> active[p]] /\ \A p \in Pointers : active[p] = active["doc"]
      BY <1>2 DEF TypeOK, TablesTypeOK, PublicationInv
    <3> QED BY <2>3, <3>1
  <2>6. Arrived(d)
    BY <1>2, <2>3 DEF BarrierInv, JobArrives
  <2>7. VersionOf(d) > active["doc"]
    BY <2>3, <2>4, <2>5 DEF Versions, Pointers
  <2> QED BY <2>6, <2>7 DEF Arrived
<1> QED
  BY <1>1, <1>2, BarrierInit, TypeCorrect, StagedInvariant, PublicationAlways, PTL
  DEF Spec, FlipOnlyIndexed
---------------------------------------------------------------------------
(***************************************************************************)
(* One request at a time.                                                  *)
(***************************************************************************)

(* One request at a time: every worker is the same one.                    *)
OneRequest == \A v, w \in Workers : v = w

Stored(s) == s \in {"hidden", "visible"}
NoLossYet == faults["loss"] = 0

(* What the tables ask the index to hold under d, and of a row of the      *)
(* outbox that names d.                                                    *)
Known(d) == \E v \in versions : VersionOf(d) <= v
Agrees(d, s) ==
    /\ d \notin ActiveDocs => s # "visible"
    /\ d \in Served => s = "visible" \/ (~NoLossYet /\ s # "hidden")
Fits(e, d) ==
    /\ e.type = "delete" <=> d \notin rows
    /\ d \notin ActiveDocs => e.available = 0
    /\ d \in Served => e.available = 1
    /\ Known(d)

(* s is what publishing row r leaves under d.                              *)
Takes(r, d, s) ==
    /\ r.type = "delete" => s = "absent"
    /\ exists => /\ Agrees(d, s)
                 /\ NoLossYet /\ r.type # "delete" => Stored(s)

(* While there is a file, the rows of the outbox about a document agree,   *)
(* and a document no row is about is as the tables say.                    *)
AgreementInv ==
    exists =>
      /\ \A e \in outbox : \A d \in e.docs : Fits(e, d)
      /\ \A d \in Docs : Owed(d) = {} => Agrees(d, es[d])
      /\ \A d \in rows : Known(d)

(* Until a document is lost, one with a row is in the index or on its way, *)
(* and in it before its available_int is to change.                        *)
PresenceInv ==
    exists /\ NoLossYet =>
      /\ \A d \in Docs : es[d] = "absent" \/ Stored(es[d])
      /\ \A e \in outbox : e.type = "set_available" => \A d \in e.docs : Stored(es[d])
      /\ \A d \in rows : Stored(es[d]) \/ \E e \in Owed(d) : e.type = "index"

(* What the index holds has a row or a pending delete; a document's delete *)
(* is its last event; what a deleted file still has pending is deleted.    *)
RemovalInv ==
    /\ \A d \in Docs : es[d] # "absent" => d \in rows \/ \E e \in Owed(d) : e.type = "delete"
    /\ \A e, f \in outbox : \A d \in e.docs \cap f.docs :
           e.type = "delete" /\ f.type # "delete" => f.at < e.at
    /\ ~exists /\ (\E w \in Workers : pc[w] \in {"drain", "publish"}) =>
         \A e \in outbox : \A d \in e.docs : \E f \in Owed(d) : f.type = "delete"

(* The drain publishes in order, and what it has published has arrived.    *)
DrainReplays(w) ==
    /\ pc[w] # "publish" => dr[w].todo = {} /\ dr[w].done = {}
    /\ dr[w].cur \subseteq dr[w].todo
    /\ dr[w].todo \cup dr[w].done \subseteq outbox
    /\ \A r \in dr[w].cur \cup dr[w].done : \A s \in dr[w].todo : r.at <= s.at
    /\ dr[w].cur = {} => dr[w].got = {}
    /\ \A r \in dr[w].cur : \A g \in dr[w].got :
          /\ g[1] \in dr[w].left /\ r.type = "set_available"
          /\ exists /\ NoLossYet => Stored(g[2])
    /\ dr[w].ok => \A r \in dr[w].cur : \A d \in r.docs \ dr[w].left : Takes(r, d, es[d])
    /\ \A r \in dr[w].done : \A d \in r.docs : Takes(r, d, es[d])

JobReplays(w) ==
    /\ pc[w] \in PCs \ {"idle", "drain", "publish"} \/ Making(w) => exists
    /\ pc[w] = "parse" => \A v \in versions : v < job[w].ver
    /\ Making(w) /\ pc[w] # "parse" =>
         /\ job[w].own \subseteq rows
         /\ \A d \in rows : VersionOf(d) < job[w].ver \/ d \in job[w].own
    /\ pc[w] \in {"flip", "flipping", "gcDelete"} => outbox = {}
    /\ pc[w] = "flipping" => job[w].known = {d \in rows : VersionOf(d) < job[w].ver}
    /\ pc[w] = "classify" => job[w].own = ActiveDocs /\ job[w].known = rows
    /\ pc[w] \in {"embed", "repair"} =>
         \A e \in job[w].plan : \A d \in e.docs :
            Fits(e, d) /\ (NoLossYet /\ e.type = "set_available" => Stored(es[d]))
    /\ pc[w] = "purge" => job[w].known = rows /\ \A e \in outbox : e.at < job[w].at

(* One request at a time, the outbox replays: its pending rows agree with  *)
(* the tables and with each other, and the drain that publishes them in    *)
(* order (relay.py:47-64) leaves the index as the last of them asks.       *)
(* Every step that adds rows (pipeline.py, gc.py, reconcile.py, docs.py)   *)
(* keeps that up, which is what OutboxCompletes follows from.              *)
SerialInv ==
    /\ AgreementInv /\ PresenceInv /\ RemovalInv
    /\ \A w \in Workers : DrainReplays(w) /\ JobReplays(w)

LEMMA EventFields ==
    ASSUME NEW e \in Event
    PROVE  /\ e.at \in Nat /\ e.docs \subseteq Docs
           /\ e.type \in {"index", "set_available", "delete"} /\ e.available \in {0, 1}
BY DEF Event, Ticks

LEMMA Tables ==
    ASSUME UNCHANGED <<exists, active, rows, shown, activated>>
    PROVE  ActiveDocs' = ActiveDocs /\ Served' = Served
BY DEF ActiveDocs, Served

(* The row whose turn it is.                                               *)
LEMMA TurnReplays ==
    ASSUME TypeOK, StagedInv, NEW w \in Workers, DrainReplays(w), NEW r \in Turn(w)
    PROVE  /\ r \in dr[w].todo /\ r \in outbox /\ r \in Event
           /\ Left(w, r) \subseteq r.docs /\ r.docs \subseteq Docs
           /\ \A s \in dr[w].todo : r.at <= s.at
           /\ \A q \in dr[w].done : q.at <= r.at
<1>1. r \in Event /\ r \in dr[w].todo /\ r \in outbox
  BY TurnType DEF DrainReplays
<1>2. DrainStaged(dr[w])
  BY DEF StagedInv
<1>3. Left(w, r) \subseteq r.docs
  BY <1>2 DEF DrainStaged, Turn, Left
<1>4. \A s \in dr[w].todo : r.at <= s.at
  BY DEF DrainReplays, Turn
<1>5. \A q \in dr[w].done : q.at <= r.at
  BY <1>1 DEF DrainReplays
<1> QED BY <1>1, <1>3, <1>4, <1>5, EventFields

(* Publishing row r leaves x under d.                                      *)
LEMMA WriteReplays ==
    ASSUME TypeOK, StagedInv, AgreementInv, PresenceInv, RemovalInv,
           NEW w \in Workers, DrainReplays(w), pc[w] = "publish",
           NEW r \in Turn(w), NEW d \in r.docs, NEW x, Takes(r, d, x),
           es' = [es EXCEPT ![d] = x],
           UNCHANGED <<pgVars, outbox, pc, activated, faults["loss"]>>
    PROVE  /\ AgreementInv' /\ PresenceInv' /\ RemovalInv'
           /\ es'[d] = x /\ \A i \in Docs : i # d => es'[i] = es[i]
           /\ \A q \in dr[w].done : \A i \in q.docs : Takes(q, i, es'[i])
<1>1. /\ r \in outbox /\ r \in Event /\ d \in Docs /\ r \in dr[w].todo
      /\ \A q \in dr[w].done : q.at <= r.at
  BY TurnReplays
<1>2. es \in [Docs -> EsState] /\ outbox \subseteq Event /\ rows \subseteq Docs
  BY DEF TypeOK, TablesTypeOK
<1>3. es'[d] = x /\ \A i \in Docs : i # d => es'[i] = es[i]
  BY <1>1, <1>2
<1>4. UNCHANGED <<exists, active, rows, shown, versions>>
  BY DEF pgVars
<1>5. ActiveDocs' = ActiveDocs /\ Served' = Served
  BY <1>4, Tables
<1>6. r \in Owed(d)
  BY <1>1 DEF Owed
<1>7. exists => (r.type = "delete" <=> d \notin rows)
  BY <1>1 DEF AgreementInv, Fits
<1>8. \A q \in dr[w].done : q \in outbox /\ q \in Event
  BY <1>2 DEF DrainReplays
<1>a. AgreementInv'
  <2>1. \A e \in outbox : \A i \in e.docs : Fits(e, i)' <=> Fits(e, i)
    BY <1>4, <1>5 DEF Fits, Known
  <2>2. ASSUME NEW i \in Docs, Owed(i) = {}, exists PROVE Agrees(i, es[i])'
    <3>1. Agrees(i, es[i]) /\ i # d
      BY <1>6, <2>2 DEF AgreementInv
    <3>2. es'[i] = es[i]
      BY <1>3, <3>1
    <3> QED BY <1>5, <3>1, <3>2 DEF Agrees, NoLossYet
  <2> QED BY <1>4, <2>1, <2>2 DEF AgreementInv, Owed, Known
<1>b. PresenceInv'
  <2> SUFFICES ASSUME exists, NoLossYet
               PROVE  /\ \A i \in Docs : es'[i] = "absent" \/ Stored(es'[i])
                      /\ \A e \in outbox : e.type = "set_available" => \A i \in e.docs : Stored(es'[i])
                      /\ \A i \in rows : Stored(es'[i]) \/ \E e \in Owed(i) : e.type = "index"
    BY <1>4 DEF PresenceInv, NoLossYet, Owed, Stored
  <2>1. r.type = "delete" => x = "absent"
    BY DEF Takes
  <2>2. r.type # "delete" => Stored(x)
    BY DEF Takes
  <2>3. \A e \in outbox : e.type = "set_available" => \A i \in e.docs : Stored(es'[i])
    <3> SUFFICES ASSUME NEW e \in outbox, e.type = "set_available", NEW i \in e.docs
                 PROVE  Stored(es'[i])
      OBVIOUS
    <3>1. i \in Docs /\ Stored(es[i])
      BY <1>2, EventFields DEF PresenceInv
    <3>2. i = d => r.type # "delete"
      BY <1>7 DEF AgreementInv, Fits
    <3> QED BY <1>3, <2>2, <3>1, <3>2
  <2>4. \A i \in rows : Stored(es'[i]) \/ \E e \in Owed(i) : e.type = "index"
    BY <1>2, <1>3, <1>7, <2>2 DEF PresenceInv
  <2>5. \A i \in Docs : es'[i] = "absent" \/ Stored(es'[i])
    BY <1>3, <2>1, <2>2 DEF PresenceInv
  <2> QED BY <2>3, <2>4, <2>5
<1>c. RemovalInv'
  <2>1. ASSUME NEW i \in Docs, es'[i] # "absent"
        PROVE  i \in rows \/ \E e \in Owed(i) : e.type = "delete"
    <3>1. CASE i # d
      BY <1>3, <2>1, <3>1 DEF RemovalInv
    <3>2. CASE i = d
      <4>1. r.type # "delete"
        BY <1>3, <2>1, <3>2 DEF Takes
      <4>2. CASE exists
        BY <1>7, <3>2, <4>1, <4>2
      <4>3. CASE ~exists
        BY <1>1, <3>2, <4>3 DEF RemovalInv
      <4> QED BY <4>2, <4>3
    <3> QED BY <3>1, <3>2
  <2> QED BY <1>4, <2>1 DEF RemovalInv, Owed
<1>d. ASSUME NEW q \in dr[w].done, NEW i \in q.docs PROVE Takes(q, i, es'[i])
  <2>1. Takes(q, i, es[i]) /\ i \in Docs
    BY <1>8, EventFields DEF DrainReplays
  <2>2. CASE i # d
    BY <1>3, <2>1, <2>2
  <2>3. CASE i = d
    <3>1. es'[i] = x
      BY <1>3, <2>3
    <3>2. CASE exists
      <4>1. q.type = "delete" <=> r.type = "delete"
        BY <1>7, <1>8, <2>3, <3>2 DEF AgreementInv, Fits
      <4> QED BY <3>1, <4>1, <2>3 DEF Takes
    <3>3. CASE ~exists
      <4>1. q.at \in Nat /\ r.at \in Nat /\ q.at <= r.at
        BY <1>1, <1>8, EventFields
      <4>2. q.type = "delete" /\ r.type # "delete" => r.at < q.at
        BY <1>1, <1>8, <2>3 DEF RemovalInv
      <4>3. q.type = "delete" => r.type = "delete"
        BY <4>1, <4>2
      <4> QED BY <3>1, <3>3, <4>3 DEF Takes
    <3> QED BY <3>2, <3>3
  <2> QED BY <2>2, <2>3
<1> QED BY <1>3, <1>a, <1>b, <1>c, <1>d

(* One drain, at most: the drain goes on as d.                             *)
LEMMA DrainReplaysAs ==
    ASSUME TypeOK, OneRequest, NEW w \in Workers, JobReplays(w),
           NEW d, dr' = [dr EXCEPT ![w] = d], pc[w] \in {"drain", "publish"},
           pc' = [pc EXCEPT ![w] = "publish"], d.then = dr[w].then, job' = job,
           UNCHANGED <<pgVars, outbox, activated, faults["loss"]>>,
           d.cur \subseteq d.todo, d.todo \cup d.done \subseteq outbox,
           \A r \in d.cur \cup d.done : \A s \in d.todo : r.at <= s.at,
           d.cur = {} => d.got = {},
           \A r \in d.cur : \A g \in d.got :
              /\ g[1] \in d.left /\ r.type = "set_available"
              /\ exists /\ NoLossYet => Stored(g[2]),
           d.ok => \A r \in d.cur : \A i \in r.docs \ d.left : Takes(r, i, es'[i]),
           \A r \in d.done : \A i \in r.docs : Takes(r, i, es'[i])
    PROVE  \A v \in Workers : DrainReplays(v)' /\ JobReplays(v)'
<1>1. dr'[w] = d /\ pc'[w] = "publish"
  BY Functions
<1>2. UNCHANGED <<exists, active, rows, shown, versions>>
  BY DEF pgVars
<1>3. ActiveDocs' = ActiveDocs /\ Served' = Served
  BY <1>2, Tables
<1>4. \A r, i : Takes(r, i, es'[i]) <=> Takes(r, i, es[i])'
  BY <1>2, <1>3 DEF Takes, Agrees, NoLossYet, Stored
<1>5. DrainReplays(w)'
  BY <1>1, <1>2, <1>4 DEF DrainReplays, NoLossYet, Stored
<1>6. Making(w)' => Making(w) /\ pc[w] # "parse"
  BY <1>1 DEF Making
<1>7. JobReplays(w)'
  BY <1>1, <1>2, <1>6 DEF JobReplays, Known
<1> QED BY <1>5, <1>7 DEF OneRequest

(* One document of row r is done, or given up.                             *)
LEMMA AdvanceReplays ==
    ASSUME TypeOK, StagedInv, OneRequest, NEW w \in Workers, JobReplays(w), DrainReplays(w),
           NEW r \in Turn(w), NEW left, NEW g, Advance(w, r, left, g), Draining(w),
           UNCHANGED <<pgVars, outbox, pc, job, activated, faults["loss"]>>,
           \A h \in g : /\ h[1] \in left /\ r.type = "set_available"
                        /\ exists /\ NoLossYet => Stored(h[2]),
           dr[w].ok => \A i \in r.docs \ left : Takes(r, i, es'[i]),
           \A q \in dr[w].done : \A i \in q.docs : Takes(q, i, es'[i])
    PROVE  \A v \in Workers : DrainReplays(v)' /\ JobReplays(v)'
<1>1. PICK d : d = [dr[w] EXCEPT !.cur = {r}, !.left = left, !.got = g]
  OBVIOUS
<1>2. dr \in [Workers -> Drain] /\ pc \in [Workers -> PCs] /\ dr[w] \in Drain
  BY Functions
<1>3. dr' = [dr EXCEPT ![w] = d] /\ pc' = [pc EXCEPT ![w] = "publish"] /\ pc[w] = "publish"
  BY <1>1, <1>2 DEF Advance, Draining
<1>4. /\ d.todo = dr[w].todo /\ d.cur = {r} /\ d.done = dr[w].done /\ d.left = left
      /\ d.got = g /\ d.ok = dr[w].ok /\ d.then = dr[w].then
  BY <1>1, <1>2 DEF Drain
<1>5. r \in dr[w].todo /\ r \in outbox /\ \A s \in dr[w].todo : r.at <= s.at
  BY TurnReplays
<1>6. \A q \in d.cur \cup d.done : \A s \in d.todo : q.at <= s.at
  BY <1>4, <1>5 DEF DrainReplays
<1>7. d.cur \subseteq d.todo /\ d.todo \cup d.done \subseteq outbox
  BY <1>4, <1>5 DEF DrainReplays
<1>8. /\ \A q \in d.cur : \A h \in d.got :
           /\ h[1] \in d.left /\ q.type = "set_available"
           /\ exists /\ NoLossYet => Stored(h[2])
      /\ d.ok => \A q \in d.cur : \A i \in q.docs \ d.left : Takes(q, i, es'[i])
      /\ \A q \in d.done : \A i \in q.docs : Takes(q, i, es'[i])
  BY <1>4
<1> QED BY <1>3, <1>4, <1>6, <1>7, <1>8, DrainReplaysAs

LEMMA GiveUpReplays ==
    ASSUME TypeOK, StagedInv, OneRequest, NEW w \in Workers, JobReplays(w), DrainReplays(w),
           NEW r \in Turn(w), GiveUp(w, r), Draining(w),
           UNCHANGED <<pgVars, outbox, pc, job, activated, faults["loss"]>>,
           \A q \in dr[w].done : \A i \in q.docs : Takes(q, i, es'[i])
    PROVE  \A v \in Workers : DrainReplays(v)' /\ JobReplays(v)'
<1>1. PICK d : d = [dr[w] EXCEPT !.cur = {r}, !.left = {}, !.got = {}, !.ok = FALSE]
  OBVIOUS
<1>2. dr \in [Workers -> Drain] /\ pc \in [Workers -> PCs] /\ dr[w] \in Drain
  BY Functions
<1>3. dr' = [dr EXCEPT ![w] = d] /\ pc' = [pc EXCEPT ![w] = "publish"] /\ pc[w] = "publish"
  BY <1>1, <1>2 DEF GiveUp, Draining
<1>4. /\ d.todo = dr[w].todo /\ d.cur = {r} /\ d.done = dr[w].done
      /\ d.got = {} /\ d.ok = FALSE /\ d.then = dr[w].then
  BY <1>1, <1>2 DEF Drain
<1>5. r \in dr[w].todo /\ r \in outbox /\ \A s \in dr[w].todo : r.at <= s.at
  BY TurnReplays
<1>6. \A q \in d.cur \cup d.done : \A s \in d.todo : q.at <= s.at
  BY <1>4, <1>5 DEF DrainReplays
<1>7. d.cur \subseteq d.todo /\ d.todo \cup d.done \subseteq outbox
  BY <1>4, <1>5 DEF DrainReplays
<1> QED BY <1>3, <1>4, <1>6, <1>7, DrainReplaysAs

(* What a call to the index leaves is what its row asks for.               *)
LEMMA IndexTakes ==
    ASSUME TypeOK, AgreementInv, NEW r \in outbox, r.type = "index", NEW d \in r.docs
    PROVE  Takes(r, d, IndexedAs(r.available))
<1>1. exists => Fits(r, d)
  BY DEF AgreementInv
<1>2. IndexedAs(r.available) \in {"hidden", "visible"}
  BY DEF IndexedAs
<1> QED BY <1>1, <1>2 DEF Takes, Fits, Agrees, Stored, IndexedAs

LEMMA DeleteTakes ==
    ASSUME TypeOK, AgreementInv, NEW r \in outbox, r.type = "delete", NEW d \in r.docs
    PROVE  Takes(r, d, "absent")
<1>1. exists => d \notin rows
  BY DEF AgreementInv, Fits
<1>3. exists => d \notin Served
  BY <1>1 DEF Served, TypeOK, TablesTypeOK
<1> QED BY <1>3 DEF Takes, Agrees

LEMMA SetTakes ==
    ASSUME TypeOK, AgreementInv, NEW r \in outbox, r.type = "set_available", NEW d \in r.docs,
           NEW s, exists /\ NoLossYet => Stored(s)
    PROVE  Takes(r, d, WithAvailable(s, r.available))
<1>1. exists => Fits(r, d)
  BY DEF AgreementInv
<1>2. exists /\ NoLossYet =>
        WithAvailable(s, r.available) = IndexedAs(r.available) /\ Stored(IndexedAs(r.available))
  BY DEF WithAvailable, Stored, IndexedAs
<1>3. exists => Agrees(d, WithAvailable(s, r.available))
  <2> SUFFICES ASSUME exists PROVE Agrees(d, WithAvailable(s, r.available))
    OBVIOUS
  <2>1. d \notin ActiveDocs => WithAvailable(s, r.available) # "visible"
    BY <1>1 DEF Fits, WithAvailable, IndexedAs
  <2>2. d \in Served => WithAvailable(s, r.available) \in {"visible", "ghostVisible"}
    BY <1>1 DEF Fits, WithAvailable, IndexedAs
  <2>3. d \in Served /\ NoLossYet => WithAvailable(s, r.available) = "visible"
    BY <1>1, <1>2 DEF Fits, IndexedAs
  <2> QED BY <2>1, <2>2, <2>3 DEF Agrees
<1> QED BY <1>2, <1>3 DEF Takes

(* A step that changes neither tables, outbox nor index.                   *)
LEMMA QuietReplays ==
    ASSUME AgreementInv, PresenceInv, RemovalInv,
           UNCHANGED <<pgVars, outbox, es, activated, faults["loss"]>>,
           ~exists => \A v \in Workers : pc'[v] \in {"drain", "publish"} =>
                                         pc[v] \in {"drain", "publish"}
    PROVE  AgreementInv' /\ PresenceInv' /\ RemovalInv'
<1>1. UNCHANGED <<exists, active, rows, shown, versions>>
  BY DEF pgVars
<1>2. ActiveDocs' = ActiveDocs /\ Served' = Served /\ NoLossYet' = NoLossYet
  BY <1>1, Tables DEF NoLossYet
<1>3. AgreementInv'
  BY <1>1, <1>2 DEF AgreementInv, Fits, Agrees, Owed, Known
<1>4. PresenceInv'
  BY <1>1, <1>2 DEF PresenceInv, Owed
<1>5. RemovalInv'
  BY <1>1 DEF RemovalInv, Owed
<1> QED BY <1>3, <1>4, <1>5

(* The row being published and the documents of it that are done.          *)
LEMMA DoneSoFar ==
    ASSUME NEW w \in Workers, DrainReplays(w), NEW r \in Turn(w), dr[w].ok
    PROVE  \A i \in r.docs \ Left(w, r) : Takes(r, i, es[i])
<1>1. CASE dr[w].cur = {}
  BY <1>1 DEF Left
<1>2. CASE dr[w].cur # {}
  BY <1>2 DEF Left, Turn, DrainReplays
<1> QED BY <1>1, <1>2

(* A call to the index that takes effect.                                  *)
LEMMA CallReplays ==
    ASSUME TypeOK, StagedInv, SerialInv, OneRequest, NEW w \in Workers, Draining(w),
           NEW r \in Turn(w), NEW d \in Left(w, r), NEW x, Takes(r, d, x),
           es' = [es EXCEPT ![d] = x],
           Advance(w, r, Left(w, r) \ {d}, {}),
           UNCHANGED <<pgVars, outbox, pc, job, activated, faults["loss"]>>
    PROVE  SerialInv'
<1>1. /\ AgreementInv /\ PresenceInv /\ RemovalInv /\ DrainReplays(w) /\ JobReplays(w)
      /\ pc[w] = "publish"
  BY DEF SerialInv, Draining
<1>2. d \in r.docs /\ r.docs \subseteq Docs /\ r \in outbox
  BY <1>1, TurnReplays
<1>3. /\ AgreementInv' /\ PresenceInv' /\ RemovalInv'
      /\ es'[d] = x /\ \A i \in Docs : i # d => es'[i] = es[i]
      /\ \A q \in dr[w].done : \A i \in q.docs : Takes(q, i, es'[i])
  BY <1>1, <1>2, WriteReplays
<1>4. dr[w].ok => \A i \in r.docs \ (Left(w, r) \ {d}) : Takes(r, i, es'[i])
  <2> SUFFICES ASSUME dr[w].ok, NEW i \in r.docs \ (Left(w, r) \ {d})
               PROVE  Takes(r, i, es'[i])
    OBVIOUS
  <2>1. CASE i = d
    BY <1>3, <2>1
  <2>2. CASE i # d
    <3>1. Takes(r, i, es[i]) /\ i \in Docs
      BY <1>1, <1>2, <2>2, DoneSoFar
    <3> QED BY <1>3, <2>2, <3>1
  <2> QED BY <2>1, <2>2
<1>5. \A v \in Workers : DrainReplays(v)' /\ JobReplays(v)'
  <2>1. PICK left : left = Left(w, r) \ {d}
    OBVIOUS
  <2>2. Advance(w, r, left, {}) /\ (dr[w].ok => \A i \in r.docs \ left : Takes(r, i, es'[i]))
    BY <1>4, <2>1
  <2> QED BY <1>1, <1>3, <2>2, AdvanceReplays
<1> QED BY <1>3, <1>5 DEF SerialInv

(* One that fails, with or without taking effect.                          *)
LEMMA FailureReplays ==
    ASSUME TypeOK, StagedInv, SerialInv, OneRequest, NEW w \in Workers, Draining(w),
           NEW r \in Turn(w), GiveUp(w, r),
           \/ es' = es
           \/ \E d \in r.docs : \E x : Takes(r, d, x) /\ es' = [es EXCEPT ![d] = x],
           UNCHANGED <<pgVars, outbox, pc, job, activated, faults["loss"]>>
    PROVE  SerialInv'
<1>1. /\ AgreementInv /\ PresenceInv /\ RemovalInv /\ DrainReplays(w) /\ JobReplays(w)
      /\ pc[w] = "publish"
  BY DEF SerialInv, Draining
<1>2. /\ AgreementInv' /\ PresenceInv' /\ RemovalInv'
      /\ \A q \in dr[w].done : \A i \in q.docs : Takes(q, i, es'[i])
  <2>1. CASE es' = es
    BY <1>1, <2>1, QuietReplays DEF DrainReplays
  <2>2. ASSUME NEW d \in r.docs, NEW x, Takes(r, d, x), es' = [es EXCEPT ![d] = x]
        PROVE  /\ AgreementInv' /\ PresenceInv' /\ RemovalInv'
               /\ \A q \in dr[w].done : \A i \in q.docs : Takes(q, i, es'[i])
    BY <1>1, <2>2, WriteReplays
  <2> QED BY <2>1, <2>2
<1>3. \A v \in Workers : DrainReplays(v)' /\ JobReplays(v)'
  BY <1>1, <1>2, GiveUpReplays
<1> QED BY <1>2, <1>3 DEF SerialInv

(* A step of a drain between its SELECT and its commit.                    *)
LEMMA PublishReplays ==
    ASSUME TypeOK, StagedInv, SerialInv, OneRequest, NEW w \in Workers,
           \/ PublishIndex(w) \/ PublishGet(w) \/ PublishPut(w)
           \/ PublishDelete(w) \/ PublishMissing(w) \/ PublishError(w)
    PROVE  SerialInv'
<1>1. /\ AgreementInv /\ PresenceInv /\ RemovalInv /\ DrainReplays(w) /\ JobReplays(w)
      /\ \A q \in dr[w].done : \A i \in q.docs : Takes(q, i, es[i])
  BY DEF SerialInv, DrainReplays
<1>2. Draining(w) /\ UNCHANGED <<pgVars, outbox, pc, job, activated, faults["loss"]>>
  <2>1. UNCHANGED faults["loss"]
    <3>1. PublishError(w) => UNCHANGED faults["loss"]
      BY DEF PublishError, Fault, FaultKinds, TypeOK, CountersTypeOK
    <3> QED BY <3>1
            DEF PublishIndex, PublishGet, PublishPut, PublishDelete, PublishMissing
  <2>2. Draining(w) /\ UNCHANGED <<pgVars, outbox, pc, job, activated>>
    BY DEF PublishIndex, PublishGet, PublishPut, PublishDelete, PublishMissing, PublishError,
           histVars
  <2> QED BY <2>1, <2>2
<1>3. CASE PublishIndex(w)
  <2>1. PICK r \in Turn(w) : \E d \in Left(w, r) :
           /\ r.type = "index" /\ es' = [es EXCEPT ![d] = IndexedAs(r.available)]
           /\ Advance(w, r, Left(w, r) \ {d}, {})
    BY <1>3 DEF PublishIndex
  <2>2. PICK d \in Left(w, r) :
           /\ r.type = "index" /\ es' = [es EXCEPT ![d] = IndexedAs(r.available)]
           /\ Advance(w, r, Left(w, r) \ {d}, {})
    BY <2>1
  <2>3. r \in outbox /\ d \in r.docs
    BY <1>1, TurnReplays
  <2>4. Takes(r, d, IndexedAs(r.available))
    BY <1>1, <2>2, <2>3, IndexTakes
  <2> QED BY <1>2, <2>2, <2>4, CallReplays
<1>4. CASE PublishDelete(w)
  <2>1. PICK r \in Turn(w) : \E d \in Left(w, r) :
           /\ r.type = "delete" /\ es' = [es EXCEPT ![d] = "absent"]
           /\ Advance(w, r, Left(w, r) \ {d}, {})
    BY <1>4 DEF PublishDelete
  <2>2. PICK d \in Left(w, r) :
           /\ r.type = "delete" /\ es' = [es EXCEPT ![d] = "absent"]
           /\ Advance(w, r, Left(w, r) \ {d}, {})
    BY <2>1
  <2>3. r \in outbox /\ d \in r.docs
    BY <1>1, TurnReplays
  <2>4. Takes(r, d, "absent")
    BY <1>1, <2>2, <2>3, DeleteTakes
  <2> QED BY <1>2, <2>2, <2>4, CallReplays
<1>5. CASE PublishPut(w)
  <2>1. PICK r \in dr[w].cur, g \in dr[w].got :
           /\ es' = [es EXCEPT ![g[1]] = WithAvailable(g[2], r.available)]
           /\ Advance(w, r, dr[w].left \ {g[1]}, {})
    BY <1>5 DEF PublishPut
  <2>2. PICK d, s : d = g[1] /\ s = g[2]
    OBVIOUS
  <2>3. r \in Turn(w) /\ Left(w, r) = dr[w].left
    BY <2>1 DEF Turn, Left
  <2>4. d \in r.docs /\ r.type = "set_available" /\ (exists /\ NoLossYet => Stored(s))
    BY <1>1, <2>1, <2>2, <2>3, TurnReplays DEF DrainReplays
  <2>5. r \in outbox /\ r.docs \subseteq Docs
    BY <1>1, <2>3, TurnReplays
  <2>6. Takes(r, d, WithAvailable(s, r.available))
    BY <1>1, <2>4, <2>5, SetTakes
  <2>7. PICK x : x = WithAvailable(s, r.available)
    OBVIOUS
  <2>8. /\ es' = [es EXCEPT ![d] = x] /\ Advance(w, r, dr[w].left \ {d}, {})
        /\ Takes(r, d, x) /\ pc[w] = "publish"
    BY <1>2, <2>1, <2>2, <2>6, <2>7 DEF Draining
  <2>9. /\ AgreementInv' /\ PresenceInv' /\ RemovalInv'
        /\ es'[d] = x /\ \A i \in Docs : i # d => es'[i] = es[i]
        /\ \A q \in dr[w].done : \A i \in q.docs : Takes(q, i, es'[i])
    BY <1>1, <1>2, <2>3, <2>4, <2>8, WriteReplays
  <2>10. dr[w].ok => \A i \in r.docs \ (dr[w].left \ {d}) : Takes(r, i, es'[i])
    <3>1. dr[w].ok => \A i \in r.docs \ dr[w].left : Takes(r, i, es[i])
      BY <1>1, <2>1 DEF DrainReplays
    <3> QED BY <2>5, <2>6, <2>7, <2>9, <3>1
  <2>11. \A v \in Workers : DrainReplays(v)' /\ JobReplays(v)'
    <3>1. PICK left : left = dr[w].left \ {d}
      OBVIOUS
    <3>2. Advance(w, r, left, {}) /\ (dr[w].ok => \A i \in r.docs \ left : Takes(r, i, es'[i]))
      BY <2>8, <2>10, <3>1
    <3> QED BY <1>1, <1>2, <2>3, <2>9, <3>2, AdvanceReplays
  <2> QED BY <2>9, <2>11 DEF SerialInv
<1>6. CASE PublishGet(w)
  <2>1. PICK r \in Turn(w) : \E d \in Left(w, r) :
           r.type = "set_available" /\ Advance(w, r, Left(w, r), {<<d, es[d]>>})
    BY <1>6 DEF PublishGet
  <2>2. PICK d \in Left(w, r) : Advance(w, r, Left(w, r), {<<d, es[d]>>})
    BY <2>1
  <2>3. r \in outbox /\ d \in r.docs /\ r.docs \subseteq Docs
    BY <1>1, TurnReplays
  <2>4. exists /\ NoLossYet => Stored(es[d])
    BY <1>1, <2>1, <2>3 DEF PresenceInv
  <2>5. es' = es
    BY <1>6 DEF PublishGet
  <2>6. PICK left, g : left = Left(w, r) /\ g = {<<d, es[d]>>}
    OBVIOUS
  <2>7. Advance(w, r, left, g)
    BY <2>2, <2>6
  <2>8. \A h \in g : /\ h[1] \in left /\ r.type = "set_available"
                     /\ exists /\ NoLossYet => Stored(h[2])
    BY <2>1, <2>3, <2>4, <2>6
  <2>9. dr[w].ok => \A i \in r.docs \ left : Takes(r, i, es'[i])
    BY <1>1, <2>5, <2>6, DoneSoFar
  <2>10. \A v \in Workers : DrainReplays(v)' /\ JobReplays(v)'
    BY <1>1, <1>2, <2>5, <2>7, <2>8, <2>9, AdvanceReplays
  <2> QED BY <1>1, <1>2, <2>5, <2>10, QuietReplays DEF SerialInv
<1>7. CASE PublishMissing(w)
  <2>1. PICK r \in Turn(w) : GiveUp(w, r) /\ es' = es
    BY <1>7 DEF PublishMissing
  <2> QED BY <1>2, <2>1, FailureReplays
<1>8. CASE PublishError(w)
  <2>1. PICK r \in Turn(w) : \E d \in Left(w, r) :
           /\ es' \in {es, [es EXCEPT ![d] = Applied(w, r, d)]}
           /\ GiveUp(w, r)
    BY <1>8 DEF PublishError
  <2>2. PICK d \in Left(w, r) : es' \in {es, [es EXCEPT ![d] = Applied(w, r, d)]}
    BY <2>1
  <2>3. r \in outbox /\ r \in Event /\ d \in r.docs /\ r.docs \subseteq Docs
    BY <1>1, TurnReplays
  <2>4. PICK x : x = Applied(w, r, d)
    OBVIOUS
  <2>5. x = es[d] \/ Takes(r, d, x)
    <3>1. CASE r.type = "index"
      <4>1. x = IndexedAs(r.available)
        BY <2>4, <3>1 DEF Applied
      <4> QED BY <1>1, <2>3, <3>1, <4>1, IndexTakes
    <3>2. CASE r.type = "delete"
      <4>1. x = "absent"
        BY <2>4, <3>2 DEF Applied
      <4> QED BY <1>1, <2>3, <3>2, <4>1, DeleteTakes
    <3>3. CASE r.type = "set_available"
      <4>1. CASE dr[w].got = {}
        BY <2>4, <3>3, <4>1 DEF Applied
      <4>2. CASE dr[w].got # {}
        <5>1. PICK g : g = CHOOSE h \in dr[w].got : TRUE
          OBVIOUS
        <5>2. g \in dr[w].got
          BY <4>2, <5>1
        <5>3. x = IF g[1] = d THEN WithAvailable(g[2], r.available) ELSE es[d]
          BY <2>4, <3>3, <4>2, <5>1 DEF Applied
        <5>4. exists /\ NoLossYet /\ dr[w].cur # {} => Stored(g[2])
          BY <1>1, <5>2 DEF DrainReplays
        <5>5. CASE dr[w].cur # {}
          <6>1. PICK s : s = g[2]
            OBVIOUS
          <6>2. Takes(r, d, WithAvailable(s, r.available))
            BY <1>1, <2>3, <3>3, <5>4, <5>5, <6>1, SetTakes
          <6> QED BY <5>3, <6>1, <6>2
        <5>6. dr[w].cur # {}
          BY <1>1, <4>2 DEF DrainReplays
        <5> QED BY <5>5, <5>6
      <4> QED BY <4>1, <4>2
    <3> QED BY <2>3, <3>1, <3>2, <3>3, EventFields
  <2>6. es' = es \/ (Takes(r, d, x) /\ es' = [es EXCEPT ![d] = x])
    <3>1. es \in [Docs -> EsState]
      BY DEF TypeOK
    <3> QED BY <2>2, <2>3, <2>4, <2>5, <3>1
  <2> QED BY <1>2, <2>1, <2>3, <2>6, FailureReplays
<1> QED BY <1>3, <1>4, <1>5, <1>6, <1>7, <1>8

(* No drain has begun to publish.                                          *)
LEMMA NoDrainReplays ==
    ASSUME OneRequest, NEW w \in Workers,
           dr'[w].todo = {}, dr'[w].cur = {}, dr'[w].got = {}, dr'[w].done = {}
    PROVE  \A v \in Workers : DrainReplays(v)'
<1>1. DrainReplays(w)'
  BY DEF DrainReplays
<1> QED BY <1>1 DEF OneRequest

LEMMA EndReplays ==
    ASSUME TypeOK, SerialInv, OneRequest, NEW w \in Workers, EndRequest(w),
           UNCHANGED <<pgVars, outbox, es, activated, faults["loss"]>>
    PROVE  SerialInv'
<1>1. pc'[w] = "idle" /\ dr'[w] = NoDrain
  BY Functions DEF EndRequest
<1>2. AgreementInv' /\ PresenceInv' /\ RemovalInv'
  BY <1>1, QuietReplays DEF SerialInv, OneRequest
<1>3. JobReplays(w)'
  BY <1>1 DEF JobReplays, Making
<1>4. \A v \in Workers : DrainReplays(v)'
  BY <1>1, NoDrainReplays DEF NoDrain
<1> QED BY <1>2, <1>3, <1>4 DEF SerialInv, OneRequest

(* The request goes on as n, with locals j.                                *)
LEMMA MoveReplays ==
    ASSUME TypeOK, SerialInv, OneRequest, NEW w \in Workers, NEW n, NEW j,
           StartRequest(w, n, j) \/ GoTo(w, n, j),
           pc[w] \notin {"drain", "publish"}, n \notin {"drain", "publish"},
           UNCHANGED <<pgVars, outbox, es, activated, faults["loss"]>>,
           pc'[w] = n /\ job'[w] = j /\ dr' = dr => JobReplays(w)'
    PROVE  SerialInv'
<1>1. pc'[w] = n /\ job'[w] = j /\ dr' = dr
  BY Functions DEF StartRequest, GoTo
<1>2. AgreementInv' /\ PresenceInv' /\ RemovalInv'
  BY <1>1, QuietReplays DEF SerialInv, OneRequest
<1>3. dr'[w].todo = {} /\ dr'[w].cur = {} /\ dr'[w].got = {} /\ dr'[w].done = {}
  BY <1>1 DEF SerialInv, DrainReplays
<1>4. \A v \in Workers : DrainReplays(v)'
  BY <1>3, NoDrainReplays
<1> QED BY <1>1, <1>2, <1>4 DEF SerialInv, OneRequest

LEMMA LoseReplays ==
    ASSUME TypeOK, StagedInv, SerialInv, OneRequest, NEW d \in Docs, EsLose(d)
    PROVE  SerialInv'
<1>1. /\ es' = [es EXCEPT ![d] = "absent"]
      /\ UNCHANGED <<exists, active, rows, shown, versions, outbox, pc, job, dr, activated>>
  BY DEF EsLose, pgVars, reqVars, histVars
<1>2. ~NoLossYet'
  <2>1. faults["loss"] \in Nat /\ faults \in [FaultKinds -> Nat] /\ "loss" \in FaultKinds
    BY DEF TypeOK, CountersTypeOK, FaultKinds
  <2>2. faults' = [faults EXCEPT !["loss"] = @ + 1]
    BY DEF EsLose, Fault
  <2>3. faults'["loss"] = faults["loss"] + 1
    BY <2>1, <2>2
  <2> QED BY <2>1, <2>3 DEF NoLossYet
<1>3. ActiveDocs' = ActiveDocs /\ Served' = Served
  BY <1>1, Tables
<1>4. es'[d] = "absent" /\ \A i \in Docs : i # d => es'[i] = es[i]
  BY <1>1 DEF TypeOK
<1>5. ASSUME NEW i \in Docs, Agrees(i, es[i]) PROVE Agrees(i, es[i])'
  BY <1>2, <1>3, <1>4, <1>5 DEF Agrees
<1>6. ASSUME NEW r, NEW i \in Docs, Takes(r, i, es[i]) PROVE Takes(r, i, es[i])'
  BY <1>1, <1>2, <1>4, <1>5, <1>6 DEF Takes
<1>7. AgreementInv'
  BY <1>1, <1>3, <1>5 DEF SerialInv, AgreementInv, Fits, Owed, Known
<1>8. PresenceInv'
  BY <1>2 DEF PresenceInv
<1>9. RemovalInv'
  BY <1>1, <1>4 DEF SerialInv, RemovalInv, Owed
<1>10. ASSUME NEW w \in Workers PROVE DrainReplays(w)' /\ JobReplays(w)'
  <2>1. \A r \in dr[w].cur \cup dr[w].done : r.docs \subseteq Docs
    <3>1. \A r \in dr[w].cur \cup dr[w].done : r \in Event
      BY DEF SerialInv, DrainReplays, TypeOK
    <3> QED BY <3>1, EventFields
  <2>2. DrainReplays(w)
    BY DEF SerialInv
  <2>3. DrainReplays(w)'
    BY <1>1, <1>2, <1>6, <2>1, <2>2 DEF DrainReplays
  <2>4. JobReplays(w)
    BY DEF SerialInv
  <2>5. JobReplays(w)'
    BY <1>1, <1>2, <1>3, <2>4 DEF JobReplays, Making, Fits, Known
  <2> QED BY <2>3, <2>5
<1> QED BY <1>7, <1>8, <1>9, <1>10 DEF SerialInv

LEMMA SelectReplays ==
    ASSUME TypeOK, StagedInv, SerialInv, OneRequest, NEW w \in Workers, DrainSelect(w)
    PROVE  SerialInv'
<1>1. /\ pc[w] = "drain" /\ pc' = [pc EXCEPT ![w] = "publish"]
      /\ UNCHANGED <<pgVars, outbox, es, job, activated, faults["loss"]>>
  BY DEF DrainSelect, histVars
<1>2. PICK d : d = [dr[w] EXCEPT !.todo = outbox]
  OBVIOUS
<1>3. dr' = [dr EXCEPT ![w] = d]
  BY <1>2, Functions DEF DrainSelect
<1>4. dr[w].todo = {} /\ dr[w].cur = {} /\ dr[w].got = {} /\ dr[w].done = {}
  BY <1>1 DEF SerialInv, DrainReplays
<1>5. d.todo = outbox /\ d.cur = {} /\ d.got = {} /\ d.done = {} /\ d.then = dr[w].then
  BY <1>2, <1>4, Functions DEF Drain
<1>6. \A v \in Workers : DrainReplays(v)' /\ JobReplays(v)'
  BY <1>1, <1>3, <1>5, DrainReplaysAs DEF SerialInv
<1>7. AgreementInv' /\ PresenceInv' /\ RemovalInv'
  BY <1>1, Functions, QuietReplays DEF SerialInv, OneRequest
<1> QED BY <1>6, <1>7 DEF SerialInv

LEMMA MarkReplays ==
    ASSUME TypeOK, StagedInv, SerialInv, OneRequest, NEW w \in Workers, DrainMark(w)
    PROVE  SerialInv'
<1>1. PICK r \in dr[w].cur :
         /\ AtUpdate(w, r)
         /\ dr' = [dr EXCEPT ![w].todo = @ \ {r}, ![w].cur = {}, ![w].ok = TRUE,
                             ![w].done = IF dr[w].ok THEN @ \cup {r} ELSE @,
                             ![w].failed = IF dr[w].ok THEN @ ELSE @ \cup {r}]
  BY DEF DrainMark
<1>2. PICK d : d = [dr[w] EXCEPT !.todo = @ \ {r}, !.cur = {}, !.ok = TRUE,
                              !.done = IF dr[w].ok THEN @ \cup {r} ELSE @,
                              !.failed = IF dr[w].ok THEN @ ELSE @ \cup {r}]
  OBVIOUS
<1>3. dr' = [dr EXCEPT ![w] = d]
  BY <1>1, <1>2, Functions
<1>4. /\ d.todo = dr[w].todo \ {r} /\ d.cur = {} /\ d.got = dr[w].got /\ d.then = dr[w].then
      /\ d.done = IF dr[w].ok THEN dr[w].done \cup {r} ELSE dr[w].done
  BY <1>2, Functions DEF Drain
<1>5. /\ dr[w].left = {} /\ pc[w] = "publish"
      /\ UNCHANGED <<pgVars, outbox, es, pc, job, activated, faults["loss"]>>
  BY <1>1 DEF DrainMark, AtUpdate, Draining, histVars
<1>6. DrainReplays(w) /\ JobReplays(w)
  BY DEF SerialInv
<1>7. d.got = {}
  BY <1>1, <1>4, <1>5, <1>6 DEF DrainReplays
<1>8. /\ d.todo \cup d.done \subseteq outbox
      /\ \A q \in d.cur \cup d.done : \A s \in d.todo : q.at <= s.at
      /\ \A q \in d.done : \A i \in q.docs : Takes(q, i, es'[i])
  BY <1>1, <1>4, <1>5, <1>6 DEF DrainReplays
<1>9. pc' = [pc EXCEPT ![w] = "publish"]
  BY <1>5, Functions
<1>10. \A v \in Workers : DrainReplays(v)' /\ JobReplays(v)'
  BY <1>3, <1>4, <1>5, <1>6, <1>7, <1>8, <1>9, DrainReplaysAs
<1>11. AgreementInv' /\ PresenceInv' /\ RemovalInv'
  BY <1>5, QuietReplays DEF SerialInv
<1> QED BY <1>10, <1>11 DEF SerialInv

(* What a commit leaves of a row of the outbox.                            *)
LEMMA SameRowFields ==
    ASSUME NEW e \in Event, NEW f \in Event, SameRow(f, e)
    PROVE  f.type = e.type /\ f.docs = e.docs /\ f.available = e.available /\ f.at = e.at
<1>1. /\ [f EXCEPT !.attempts = 0].type = f.type /\ [e EXCEPT !.attempts = 0].type = e.type
      /\ [f EXCEPT !.attempts = 0].docs = f.docs /\ [e EXCEPT !.attempts = 0].docs = e.docs
      /\ [f EXCEPT !.attempts = 0].at = f.at /\ [e EXCEPT !.attempts = 0].at = e.at
      /\ [f EXCEPT !.attempts = 0].available = f.available
      /\ [e EXCEPT !.attempts = 0].available = e.available
  BY DEF Event
<1> QED BY <1>1 DEF SameRow

LEMMA RetriedFields ==
    ASSUME NEW f \in Event
    PROVE  /\ Retried(f).type = f.type /\ Retried(f).docs = f.docs
           /\ Retried(f).available = f.available /\ Retried(f).at = f.at
BY DEF Retried, Event

LEMMA AfterCommit ==
    ASSUME TypeOK, NEW w \in Workers, outbox' = OutboxAfter(w)
    PROVE  /\ \A e \in outbox' : \E f \in outbox :
                 /\ e.type = f.type /\ e.docs = f.docs
                 /\ e.available = f.available /\ e.at = f.at
           /\ \A f \in outbox :
                 \/ \E e \in outbox' : /\ e.type = f.type /\ e.docs = f.docs
                                       /\ e.available = f.available /\ e.at = f.at
                 \/ \E q \in dr[w].done : q.type = f.type /\ q.docs = f.docs
<1>1. dr[w].done \subseteq Event /\ dr[w].failed \subseteq Event /\ outbox \subseteq Event
  BY Functions DEF Drain, TypeOK
<1>2. ASSUME NEW e \in outbox', e \notin outbox
      PROVE  \E f \in outbox : /\ e.type = f.type /\ e.docs = f.docs
                               /\ e.available = f.available /\ e.at = f.at
  <2>1. PICK f \in dr[w].failed : e = Retried(f) /\ \E r \in outbox : SameRow(f, r)
    BY <1>2 DEF OutboxAfter
  <2>2. PICK r \in outbox : SameRow(f, r)
    BY <2>1
  <2>3. f \in Event /\ r \in Event
    BY <1>1
  <2> QED BY <2>1, <2>2, <2>3, SameRowFields, RetriedFields
<1>3. ASSUME NEW f \in outbox, f \notin outbox'
      PROVE  \/ \E e \in outbox' : /\ e.type = f.type /\ e.docs = f.docs
                                   /\ e.available = f.available /\ e.at = f.at
             \/ \E q \in dr[w].done : q.type = f.type /\ q.docs = f.docs
  <2>1. Holds(w, f)
    BY <1>3 DEF OutboxAfter
  <2>2. PICK q \in dr[w].done \cup dr[w].failed : SameRow(q, f)
    BY <2>1 DEF Holds
  <2>3. q \in Event /\ f \in Event
    BY <1>1
  <2>4. q.type = f.type /\ q.docs = f.docs /\ q.available = f.available /\ q.at = f.at
    BY <2>2, <2>3, SameRowFields
  <2>5. CASE q \in dr[w].done
    BY <2>4, <2>5
  <2>6. CASE q \in dr[w].failed
    <3>1. Retried(q) \in outbox'
      BY <2>2, <2>6 DEF OutboxAfter
    <3> QED BY <2>3, <2>4, <3>1, RetriedFields
  <2> QED BY <2>2, <2>5, <2>6
<1> QED BY <1>2, <1>3

LEMMA CommitReplays ==
    ASSUME TypeOK, StagedInv, SerialInv, OneRequest, NEW w \in Workers, DrainCommit(w)
    PROVE  SerialInv'
<1>1. /\ pc[w] = "publish" /\ outbox' = OutboxAfter(w)
      /\ UNCHANGED <<exists, active, rows, shown, versions, es, activated, faults>>
      /\ DrainReplays(w) /\ JobReplays(w)
  BY DEF DrainCommit, Draining, pgVars, histVars, SerialInv
<1>2. /\ pc'[w] = dr[w].then /\ dr'[w] = NoDrain
      /\ dr[w].then # "idle" => dr[w].then = "barrier" /\ job' = job
  BY Functions DEF DrainCommit, EndRequest, Drain
<1>3. /\ \A e \in outbox' : \E f \in outbox :
            /\ e.type = f.type /\ e.docs = f.docs
            /\ e.available = f.available /\ e.at = f.at
      /\ \A f \in outbox :
            \/ \E e \in outbox' : /\ e.type = f.type /\ e.docs = f.docs
                                  /\ e.available = f.available /\ e.at = f.at
            \/ \E q \in dr[w].done : q.type = f.type /\ q.docs = f.docs
  BY <1>1, AfterCommit
<1>4. ActiveDocs' = ActiveDocs /\ Served' = Served /\ NoLossYet' = NoLossYet
  BY <1>1, Tables DEF NoLossYet
<1>5. \A q \in dr[w].done : \A i \in q.docs : Takes(q, i, es[i])
  BY <1>1 DEF DrainReplays
<1>6. rows \subseteq Docs
  BY DEF TypeOK, TablesTypeOK
<1>7. AgreementInv'
  <2>1. ASSUME exists, NEW e \in outbox', NEW d \in e.docs PROVE Fits(e, d)'
    <3>1. PICK f \in outbox : e.type = f.type /\ e.docs = f.docs /\ e.available = f.available
      BY <1>3
    <3>2. Fits(f, d)
      BY <2>1, <3>1 DEF SerialInv, AgreementInv
    <3> QED BY <1>1, <1>4, <3>1, <3>2 DEF Fits, Known
  <2>2. ASSUME exists, NEW d \in Docs, Owed(d)' = {} PROVE Agrees(d, es[d])
    <3>1. CASE Owed(d) = {}
      BY <2>2, <3>1 DEF SerialInv, AgreementInv
    <3>2. CASE Owed(d) # {}
      <4>1. PICK f \in outbox : d \in f.docs
        BY <3>2 DEF Owed
      <4>2. \A e \in outbox' : d \notin e.docs
        BY <2>2 DEF Owed
      <4>3. PICK q \in dr[w].done : q.docs = f.docs
        BY <1>3, <4>1, <4>2
      <4> QED BY <1>5, <2>2, <4>1, <4>3 DEF Takes
    <3> QED BY <3>1, <3>2
  <2>3. \A d \in Docs : Agrees(d, es[d]) => Agrees(d, es[d])'
    BY <1>1, <1>4 DEF Agrees
  <2> QED BY <1>1, <2>1, <2>2, <2>3 DEF SerialInv, AgreementInv, Known
<1>8. PresenceInv'
  <2> SUFFICES ASSUME exists, NoLossYet
               PROVE  /\ \A d \in Docs : es[d] = "absent" \/ Stored(es[d])
                      /\ \A e \in outbox' : e.type = "set_available" =>
                            \A d \in e.docs : Stored(es[d])
                      /\ \A d \in rows : Stored(es[d]) \/ \E e \in outbox' : d \in e.docs /\ e.type = "index"
    BY <1>1, <1>4 DEF PresenceInv, Owed
  <2>1. PresenceInv
    BY DEF SerialInv
  <2>2. \A e \in outbox' : e.type = "set_available" => \A d \in e.docs : Stored(es[d])
    BY <1>3, <2>1 DEF PresenceInv
  <2>3. ASSUME NEW d \in rows, ~Stored(es[d])
        PROVE  \E e \in outbox' : d \in e.docs /\ e.type = "index"
    <3>1. PICK f \in outbox : d \in f.docs /\ f.type = "index"
      BY <2>1, <2>3 DEF PresenceInv, Owed
    <3>2. ASSUME NEW q \in dr[w].done, q.type = f.type, q.docs = f.docs PROVE FALSE
      BY <1>5, <2>3, <3>1, <3>2 DEF Takes
    <3> QED BY <1>3, <3>1, <3>2
  <2> QED BY <2>1, <2>2, <2>3 DEF PresenceInv
<1>9. RemovalInv'
  <2>1. RemovalInv
    BY DEF SerialInv
  <2>2. ASSUME NEW d \in Docs, es[d] # "absent", d \notin rows
        PROVE  \E e \in outbox' : d \in e.docs /\ e.type = "delete"
    <3>1. PICK f \in outbox : d \in f.docs /\ f.type = "delete"
      BY <2>1, <2>2 DEF RemovalInv, Owed
    <3>2. ASSUME NEW q \in dr[w].done, q.type = f.type, q.docs = f.docs PROVE FALSE
      BY <1>5, <2>2, <3>1, <3>2 DEF Takes
    <3> QED BY <1>3, <3>1, <3>2
  <2>3. ASSUME NEW e \in outbox', NEW f \in outbox', NEW d \in e.docs \cap f.docs,
               e.type = "delete", f.type # "delete"
        PROVE  f.at < e.at
    <3>1. PICK g \in outbox : e.type = g.type /\ e.docs = g.docs /\ e.at = g.at
      BY <1>3
    <3>2. PICK h \in outbox : f.type = h.type /\ f.docs = h.docs /\ f.at = h.at
      BY <1>3
    <3>3. d \in g.docs \cap h.docs /\ g.type = "delete" /\ h.type # "delete"
      BY <2>3, <3>1, <3>2
    <3>4. h.at < g.at
      BY <2>1, <3>3 DEF RemovalInv
    <3> QED BY <3>1, <3>2, <3>4
  <2>4. ~exists => \A v \in Workers : pc'[v] \notin {"drain", "publish"}
    BY <1>2 DEF OneRequest
  <2> QED BY <1>1, <2>2, <2>3, <2>4 DEF RemovalInv, Owed
<1>10. DrainReplays(w)'
  BY <1>2 DEF DrainReplays, NoDrain
<1>11. JobReplays(w)'
  <2>1. CASE dr[w].then = "idle"
    BY <1>2, <2>1 DEF JobReplays, Making
  <2>2. CASE dr[w].then # "idle"
    <3>1. pc'[w] = "barrier" /\ job' = job /\ dr[w].then = "barrier"
      BY <1>2, <2>2
    <3>2. Making(w) /\ pc[w] # "parse"
      BY <1>1, <3>1 DEF Making
    <3> QED BY <1>1, <3>1, <3>2 DEF JobReplays
  <2> QED BY <2>1, <2>2
<1> QED BY <1>7, <1>8, <1>9, <1>10, <1>11 DEF SerialInv, OneRequest

(* An empty outbox.                                                        *)
LEMMA NonePending ==
    ASSUME IsFiniteSet(Chunks), IsFiniteSet(Summaries), TypeOK, PendingCount = 0
    PROVE  outbox = {}
<1>1. IsFiniteSet(outbox)
  BY OutboxFinite
<1> QED BY <1>1, FS_EmptySet DEF PendingCount

LEMMA StepsReplay ==
    ASSUME IsFiniteSet(Chunks), IsFiniteSet(Summaries),
           TypeOK, StagedInv, PublicationInv, SerialInv, OneRequest, NEW w \in Workers,
           \/ IngestStart(w) \/ StageFails(w) \/ BarrierPass(w) \/ BarrierFail(w) \/ FlipBegin(w)
           \/ GcBegin(w) \/ GcNothing(w) \/ PurgeBegin(w) \/ ReconcileLoad(w) \/ RepairBegin(w)
    PROVE  SerialInv'
<1>1. UNCHANGED <<pgVars, outbox, es, activated, faults["loss"]>>
  BY DEF IngestStart, StageFails, BarrierPass, BarrierFail, FlipBegin, GcBegin, GcNothing,
         PurgeBegin, ReconcileLoad, RepairBegin, StartUpkeep, histVars
<1>2. UNCHANGED <<exists, active, rows, shown, versions>>
  BY <1>1 DEF pgVars
<1>3. JobReplays(w) /\ AgreementInv /\ outbox \subseteq Event /\ job[w] \in Job
  BY Functions DEF SerialInv, TypeOK
<1>4. ActiveDocs' = ActiveDocs /\ Served' = Served /\ NoLossYet' = NoLossYet
  BY <1>1, <1>2, Tables DEF NoLossYet
<1>5. CASE StageFails(w) \/ BarrierFail(w) \/ GcNothing(w)
  BY <1>1, <1>5, EndReplays DEF StageFails, BarrierFail, GcNothing
<1>6. CASE IngestStart(w)
  <2>1. PICK v \in Versions :
           /\ IsNextVersion(v)
           /\ StartRequest(w, "parse", [NoJob EXCEPT !.ver = v, !.own = NewDocs(v, ingests + 1)])
    BY <1>6 DEF IngestStart
  <2>2. PICK j : j = [NoJob EXCEPT !.ver = v, !.own = NewDocs(v, ingests + 1)]
    OBVIOUS
  <2>3. j.ver = v
    BY <2>2 DEF NoJob
  <2>4. exists /\ pc[w] = "idle" /\ \A u \in versions : u < v
    BY <1>6, <2>1 DEF IngestStart, StartRequest, IsNextVersion
  <2>5. pc'[w] = "parse" /\ job'[w] = j => JobReplays(w)'
    BY <1>2, <2>3, <2>4 DEF JobReplays
  <2> QED BY <1>1, <2>1, <2>2, <2>4, <2>5, MoveReplays
<1>7. CASE BarrierPass(w)
  <2>1. pc[w] = "barrier" /\ outbox = {} /\ GoTo(w, "flip", job[w])
    BY <1>7, NonePending DEF BarrierPass
  <2>2. Making(w) /\ exists
    BY <1>3, <2>1 DEF Making, JobReplays
  <2>3. PICK j : j = job[w]
    OBVIOUS
  <2>4. pc'[w] = "flip" /\ job'[w] = j => JobReplays(w)'
    BY <1>1, <1>2, <1>3, <2>1, <2>2, <2>3 DEF JobReplays
  <2> QED BY <1>1, <2>1, <2>3, <2>4, MoveReplays
<1>8. CASE FlipBegin(w)
  <2>1. PICK t \in Ticks :
           GoTo(w, "flipping", [job[w] EXCEPT !.at = t,
                                  !.known = {d \in rows : VersionOf(d) < job[w].ver}])
    BY <1>8 DEF FlipBegin
  <2>2. PICK j : j = [job[w] EXCEPT !.at = t, !.known = {d \in rows : VersionOf(d) < job[w].ver}]
    OBVIOUS
  <2>3. j.ver = job[w].ver /\ j.own = job[w].own
        /\ j.known = {d \in rows : VersionOf(d) < job[w].ver}
    BY <1>3, <2>2 DEF Job
  <2>4. pc[w] = "flip" /\ Making(w) /\ exists /\ outbox = {}
    BY <1>3, <1>8 DEF FlipBegin, Making, JobReplays
  <2>5. pc'[w] = "flipping" /\ job'[w] = j => JobReplays(w)'
    BY <1>1, <1>2, <1>3, <2>3, <2>4 DEF JobReplays
  <2> QED BY <1>1, <2>1, <2>2, <2>4, <2>5, MoveReplays
<1>9. CASE GcBegin(w)
  <2>1. PICK t \in Ticks : StartUpkeep(w, "gcDelete", [NoJob EXCEPT !.at = t])
    BY <1>9 DEF GcBegin
  <2>2. PICK j : j = [NoJob EXCEPT !.at = t]
    OBVIOUS
  <2>3. StartRequest(w, "gcDelete", j) /\ pc[w] = "idle" /\ exists /\ outbox = {}
    BY <1>9, <2>1, <2>2, NonePending DEF GcBegin, StartUpkeep, StartRequest
  <2>4. pc'[w] = "gcDelete" => JobReplays(w)'
    BY <1>1, <1>2, <2>3 DEF JobReplays, Making
  <2> QED BY <1>1, <2>3, <2>4, MoveReplays
<1>10. CASE PurgeBegin(w)
  <2>1. PICK t \in Ticks :
           IsNow(t) /\ StartUpkeep(w, "purge", [NoJob EXCEPT !.at = t, !.known = rows])
    BY <1>10 DEF PurgeBegin
  <2>2. PICK j : j = [NoJob EXCEPT !.at = t, !.known = rows]
    OBVIOUS
  <2>3. StartRequest(w, "purge", j) /\ pc[w] = "idle" /\ exists
    BY <1>10, <2>1, <2>2 DEF PurgeBegin, StartUpkeep, StartRequest
  <2>4. j.at = t /\ j.known = rows
    BY <2>2 DEF NoJob
  <2>5. \A e \in outbox : e.at < t
    BY <2>1 DEF IsNow, TicksInUse
  <2>6. pc'[w] = "purge" /\ job'[w] = j => JobReplays(w)'
    BY <1>1, <1>2, <2>3, <2>4, <2>5 DEF JobReplays, Making
  <2> QED BY <1>1, <2>3, <2>6, MoveReplays
<1>11. CASE ReconcileLoad(w)
  <2>1. PICK j : j = [NoJob EXCEPT !.own = ActiveDocs, !.known = rows]
    OBVIOUS
  <2>2. StartRequest(w, "classify", j) /\ pc[w] = "idle" /\ exists
    BY <1>11, <2>1 DEF ReconcileLoad, StartUpkeep, StartRequest
  <2>3. j.own = ActiveDocs /\ j.known = rows
    BY <2>1 DEF NoJob
  <2>4. pc'[w] = "classify" /\ job'[w] = j => JobReplays(w)'
    BY <1>2, <1>4, <2>2, <2>3 DEF JobReplays, Making
  <2> QED BY <1>1, <2>2, <2>4, MoveReplays
<1>12. CASE RepairBegin(w)
  <2>1. PICK t \in Ticks : GoTo(w, "repair", [job[w] EXCEPT !.at = t])
    BY <1>12 DEF RepairBegin
  <2>2. PICK j : j = [job[w] EXCEPT !.at = t]
    OBVIOUS
  <2>3. j.plan = job[w].plan
    BY <1>3, <2>2 DEF Job
  <2>4. pc[w] = "embed" /\ exists
    BY <1>3, <1>12 DEF RepairBegin, JobReplays, PCs
  <2>5. pc'[w] = "repair" /\ job'[w] = j => JobReplays(w)'
    BY <1>1, <1>2, <1>3, <1>4, <2>3, <2>4 DEF JobReplays, Making, Fits, Known
  <2> QED BY <1>1, <2>1, <2>2, <2>4, <2>5, MoveReplays
<1> QED BY <1>5, <1>6, <1>7, <1>8, <1>9, <1>10, <1>11, <1>12

(* What PostgreSQL says is published is of the active version.             *)
LEMMA ServedActive ==
    ASSUME TypeOK, PublicationInv, exists
    PROVE  /\ Served \subseteq ActiveDocs /\ ActiveDocs \subseteq rows /\ rows \subseteq Docs
           /\ \A d \in ActiveDocs : VersionOf(d) = active["doc"]
           /\ active["doc"] \in Nat
<1>1. PublishedOk /\ active["chunk"] = active["doc"] /\ active["summary"] = active["doc"]
  BY DEF PublicationInv, Pointers
<1>2. rows \subseteq Docs /\ shown \subseteq rows \cap ChunkDocs /\ active["doc"] \in Nat
  BY ActiveNat DEF TypeOK, TablesTypeOK
<1>3. Served \subseteq ActiveDocs
  BY <1>2 DEF Served, ActiveDocs
<1>4. ActiveDocs \subseteq rows
  BY DEF ActiveDocs
<1>5. \A d \in ActiveDocs : VersionOf(d) = active["doc"]
  BY <1>1 DEF ActiveDocs
<1> QED BY <1>2, <1>3, <1>4, <1>5

LEMMA ClassifyReplays ==
    ASSUME TypeOK, StagedInv, PublicationInv, SerialInv, OneRequest, NEW w \in Workers, Classify(w)
    PROVE  SerialInv'
<1>1. PICK unread \in SUBSET job[w].own :
         GoTo(w, "embed", [job[w] EXCEPT !.plan = Repairs(job[w].own, job[w].known, unread)])
  BY DEF Classify
<1>2. /\ UNCHANGED <<pgVars, outbox, es, activated, faults["loss"]>>
      /\ UNCHANGED <<exists, active, rows, shown, versions>> /\ pc[w] = "classify"
  BY DEF Classify, pgVars, histVars, Fault, FaultKinds, TypeOK, CountersTypeOK
<1>3. JobReplays(w) /\ AgreementInv /\ PresenceInv /\ RemovalInv /\ job[w] \in Job
  BY Functions DEF SerialInv
<1>4. exists /\ job[w].own = ActiveDocs /\ job[w].known = rows
  BY <1>2, <1>3 DEF JobReplays, PCs
<1>5. /\ Served \subseteq ActiveDocs /\ ActiveDocs \subseteq rows /\ rows \subseteq Docs
  BY <1>4, ServedActive
<1>6. PICK plan : plan = Repairs(job[w].own, job[w].known, unread)
  OBVIOUS
<1>7. \A d \in Leaked(ActiveDocs) : d \in Docs /\ d \notin ActiveDocs /\ es[d] = "visible" /\ Known(d)
  <2> SUFFICES ASSUME NEW d \in Docs \ ActiveDocs, es[d] = "visible" PROVE Known(d)
    BY DEF Leaked
  <2>1. CASE d \in rows
    BY <1>3, <1>4, <2>1 DEF AgreementInv
  <2>2. CASE d \notin rows
    <3>1. PICK e \in outbox : d \in e.docs
      BY <1>3, <2>2 DEF RemovalInv, Owed
    <3> QED BY <1>3, <1>4, <3>1 DEF AgreementInv, Fits
  <2> QED BY <2>1, <2>2
<1>8. ASSUME NEW e \in plan, NEW d \in e.docs
      PROVE  Fits(e, d) /\ (NoLossYet /\ e.type = "set_available" => Stored(es[d]))
  <2>1. /\ Republish(ActiveDocs, unread) \subseteq ActiveDocs
        /\ AvailDrift(ActiveDocs, unread) \subseteq ActiveDocs
    BY DEF Republish, AvailDrift
  <2>2. \/ e \in {IndexEvent(0, i, 1) : i \in Republish(ActiveDocs, unread)}
        \/ e = SetEvent(0, AvailDrift(ActiveDocs, unread), 1)
        \/ e = SetEvent(0, Leaked(ActiveDocs) \cap rows, 0)
        \/ e = DeleteEvent(0, Leaked(ActiveDocs) \ rows)
    BY <1>4, <1>6 DEF Repairs, IfAny
  <2>3. CASE e \in {IndexEvent(0, i, 1) : i \in Republish(ActiveDocs, unread)}
    <3>1. d \in ActiveDocs /\ e.type = "index" /\ e.available = 1
      BY <2>1, <2>3 DEF IndexEvent
    <3> QED BY <1>3, <1>4, <1>5, <3>1 DEF Fits, AgreementInv
  <2>4. CASE e = SetEvent(0, AvailDrift(ActiveDocs, unread), 1)
    <3>1. d \in AvailDrift(ActiveDocs, unread) /\ e.type = "set_available" /\ e.available = 1
      BY <2>4 DEF SetEvent
    <3>2. es[d] \in {"hidden", "ghostHidden"} /\ d \in ActiveDocs
      BY <3>1 DEF AvailDrift, Seen
    <3>3. NoLossYet => Stored(es[d])
      BY <1>3, <1>4, <1>5, <3>2 DEF PresenceInv
    <3> QED BY <1>3, <1>4, <1>5, <3>1, <3>2, <3>3 DEF Fits, AgreementInv
  <2>5. CASE e = SetEvent(0, Leaked(ActiveDocs) \cap rows, 0)
    <3>1. /\ d \in Leaked(ActiveDocs) /\ d \in rows
          /\ e.type = "set_available" /\ e.available = 0
      BY <2>5 DEF SetEvent
    <3> QED BY <1>5, <1>7, <3>1 DEF Fits, Stored
  <2>6. CASE e = DeleteEvent(0, Leaked(ActiveDocs) \ rows)
    <3>1. d \in Leaked(ActiveDocs) /\ d \notin rows /\ e.type = "delete" /\ e.available = 0
      BY <2>6 DEF DeleteEvent
    <3> QED BY <1>5, <1>7, <3>1 DEF Fits
  <2> QED BY <2>2, <2>3, <2>4, <2>5, <2>6
<1>9. PICK j : j = [job[w] EXCEPT !.plan = plan]
  OBVIOUS
<1>10. GoTo(w, "embed", j) /\ j.plan = plan
  BY <1>1, <1>3, <1>6, <1>9 DEF Job
<1>11. ActiveDocs' = ActiveDocs /\ Served' = Served /\ NoLossYet' = NoLossYet
  BY <1>2, Tables DEF NoLossYet
<1>12. \A e, d : Fits(e, d)' <=> Fits(e, d)
  BY <1>2, <1>11 DEF Fits, Known
<1>13. pc'[w] = "embed" /\ job'[w] = j => JobReplays(w)'
  BY <1>2, <1>4, <1>8, <1>10, <1>11, <1>12 DEF JobReplays, Making
<1> QED BY <1>2, <1>10, <1>13, MoveReplays

(* A transaction that queues events, after which the request drains.       *)
LEMMA QueueReplays ==
    ASSUME TypeOK, OneRequest, NEW w \in Workers, NEW then, NEW j, CallDrain(w, then, j),
           AgreementInv', PresenceInv', RemovalInv',
           \/ then = "idle"
           \/ exists' /\ j.own \subseteq rows' /\ \A d \in rows' : VersionOf(d) < j.ver \/ d \in j.own
    PROVE  SerialInv'
<1>1. pc'[w] = "drain" /\ job'[w] = j /\ dr'[w] = [NoDrain EXCEPT !.then = then]
  BY Functions DEF CallDrain
<1>2. /\ dr'[w].todo = {} /\ dr'[w].cur = {} /\ dr'[w].got = {} /\ dr'[w].done = {}
      /\ dr'[w].then = then
  BY <1>1 DEF NoDrain
<1>3. \A v \in Workers : DrainReplays(v)'
  BY <1>2, NoDrainReplays
<1>4. JobReplays(w)'
  BY <1>1, <1>2 DEF JobReplays, Making
<1> QED BY <1>3, <1>4 DEF SerialInv, OneRequest

LEMMA StageReplays ==
    ASSUME TypeOK, StagedInv, PublicationInv, SerialInv, OneRequest, NEW w \in Workers, Stage(w)
    PROVE  SerialInv'
<1>1. PICK v, own : v = job[w].ver /\ own = job[w].own
  OBVIOUS
<1>2. PICK t \in Ticks : outbox' = outbox \cup StagedEvents(t, own)
  BY <1>1 DEF Stage
<1>3. /\ pc[w] = "parse" /\ exists /\ own \cap rows = {}
      /\ rows' = rows \cup own /\ versions' = versions \cup {v}
      /\ UNCHANGED <<exists, active, shown, es, activated, faults>>
      /\ CallDrain(w, "barrier", job[w])
  BY <1>1 DEF Stage, histVars
<1>4. JobReplays(w) /\ AgreementInv /\ PresenceInv /\ RemovalInv
  BY DEF SerialInv
<1>5. /\ \A u \in versions : u < v /\ u \in Nat
      /\ \A d \in own : VersionOf(d) = v /\ d \in Docs
      /\ v \in Nat /\ rows \subseteq Docs
  <2>1. \A u \in versions : u < v
    BY <1>1, <1>3, <1>4 DEF JobReplays
  <2>2. job[w] \in Job /\ JobStaged(pc[w], job[w]) /\ versions \subseteq Nat /\ rows \subseteq Docs
    BY Functions DEF StagedInv, TypeOK, TablesTypeOK
  <2>3. v \in Nat /\ own \subseteq Docs
    BY <1>1, <2>2 DEF Job
  <2>4. \A d \in own : VersionOf(d) = v
    BY <1>1, <1>3, <2>2 DEF JobStaged
  <2> QED BY <2>1, <2>2, <2>3, <2>4
<1>6. \A u \in activated : u < v
  BY <1>1, <1>3 DEF PublicationInv, MadeOk, Making
<1>7. \A d \in Docs : Known(d) => VersionOf(d) < v
  BY <1>5, DocVersions DEF Known
<1>8. \A e \in outbox : \A d \in e.docs : Fits(e, d) /\ d \notin own
  <2>1. \A e \in outbox : \A d \in e.docs : d \in Docs
    BY EventFields DEF TypeOK
  <2>2. \A e \in outbox : \A d \in e.docs : Fits(e, d)
    BY <1>3, <1>4 DEF AgreementInv
  <2> QED BY <1>5, <1>7, <2>1, <2>2 DEF Fits
<1>9. \A e \in StagedEvents(t, own) : \E d \in own :
         e.type = "index" /\ e.docs = {d} /\ e.available = 0
  BY DEF StagedEvents, IndexEvent
<1>10. \A d \in own : \E e \in outbox' : d \in e.docs /\ e.type = "index"
  <2> SUFFICES ASSUME NEW d \in own PROVE IndexEvent(t, d, 0) \in outbox'
    BY DEF IndexEvent
  <2> QED BY <1>2 DEF StagedEvents
<1>11. ASSUME NEW d, d \notin own PROVE (d \in ActiveDocs' <=> d \in ActiveDocs) /\ (d \in rows' <=> d \in rows)
  BY <1>3, <1>11 DEF ActiveDocs
<1>12. Served' = Served
  <2>1. \A d \in own : VersionOf(d) \notin activated
    <3>1. \A u \in activated : u \in Nat
      BY DEF TypeOK, CountersTypeOK, Versions
    <3> QED BY <1>5, <1>6, <3>1
  <2> QED BY <1>3, <2>1 DEF Served
<1>13. Served \subseteq rows
  BY <1>3, ServedActive
<1>14. \A d : Known(d) => Known(d)'
  BY <1>3 DEF Known
<1>15. \A d \in own : Known(d)'
  BY <1>3, <1>5 DEF Known
<1>a. AgreementInv'
  <2>1. ASSUME NEW e \in outbox', NEW d \in e.docs PROVE Fits(e, d)'
    <3>1. CASE e \in outbox
      BY <1>8, <1>11, <1>12, <1>14, <3>1 DEF Fits
    <3>2. CASE e \in StagedEvents(t, own)
      <4>1. d \in own /\ e.type = "index" /\ e.available = 0
        BY <1>9, <3>2
      <4>2. d \in rows' /\ d \notin Served'
        BY <1>3, <1>12, <1>13, <4>1
      <4> QED BY <1>15, <4>1, <4>2 DEF Fits
    <3> QED BY <1>2, <3>1, <3>2
  <2>2. ASSUME NEW d \in Docs, Owed(d)' = {} PROVE Agrees(d, es[d])'
    <3>1. d \notin own
      BY <1>10, <2>2 DEF Owed
    <3>2. Owed(d) = {}
      BY <1>2, <2>2 DEF Owed
    <3>3. Agrees(d, es[d])
      BY <1>3, <1>4, <3>2 DEF AgreementInv
    <3> QED BY <1>3, <1>11, <1>12, <3>1, <3>3 DEF Agrees, NoLossYet
  <2>3. \A d \in rows' : Known(d)'
    BY <1>3, <1>4, <1>14, <1>15 DEF AgreementInv
  <2> QED BY <2>1, <2>2, <2>3 DEF AgreementInv
<1>b. PresenceInv'
  <2> SUFFICES ASSUME NoLossYet
               PROVE  /\ \A d \in Docs : es[d] = "absent" \/ Stored(es[d])
                      /\ \A e \in outbox' : e.type = "set_available" =>
                            \A d \in e.docs : Stored(es[d])
                      /\ \A d \in rows' : Stored(es[d]) \/ \E e \in outbox' : d \in e.docs /\ e.type = "index"
    BY <1>3 DEF PresenceInv, Owed, NoLossYet
  <2>1. \A e \in outbox' : e.type = "set_available" => e \in outbox
    BY <1>2, <1>9
  <2>2. \A d \in rows : Stored(es[d]) \/ \E e \in outbox : d \in e.docs /\ e.type = "index"
    BY <1>3, <1>4 DEF PresenceInv, Owed
  <2>3. \A d \in rows' : Stored(es[d]) \/ \E e \in outbox' : d \in e.docs /\ e.type = "index"
    BY <1>2, <1>3, <1>10, <2>2
  <2> QED BY <1>3, <1>4, <2>1, <2>3 DEF PresenceInv
<1>c. RemovalInv'
  <2>1. \A d \in Docs : es[d] # "absent" => d \in rows' \/ \E e \in outbox' : d \in e.docs /\ e.type = "delete"
    <3>1. \A d \in Docs : es[d] # "absent" => d \in rows \/ \E e \in outbox : d \in e.docs /\ e.type = "delete"
      BY <1>4 DEF RemovalInv, Owed
    <3> QED BY <1>2, <1>3, <3>1
  <2>2. ASSUME NEW e \in outbox', NEW f \in outbox', NEW d \in e.docs \cap f.docs,
               e.type = "delete", f.type # "delete"
        PROVE  f.at < e.at
    <3>1. e \in outbox
      BY <1>2, <1>9, <2>2
    <3>2. f \in outbox
      BY <1>2, <1>8, <1>9, <2>2, <3>1
    <3> QED BY <1>4, <2>2, <3>1, <3>2 DEF RemovalInv
  <2> QED BY <1>3, <2>1, <2>2 DEF RemovalInv, Owed
<1>16. own \subseteq rows' /\ \A d \in rows' : VersionOf(d) < v \/ d \in own
  BY <1>3, <1>4, <1>5, <1>7 DEF AgreementInv
<1>17. PICK j : j = job[w]
  OBVIOUS
<1>18. /\ CallDrain(w, "barrier", j)
       /\ exists' /\ j.own \subseteq rows' /\ \A d \in rows' : VersionOf(d) < j.ver \/ d \in j.own
  BY <1>1, <1>3, <1>16, <1>17
<1> QED BY <1>a, <1>b, <1>c, <1>18, QueueReplays

LEMMA FlipReplays ==
    ASSUME TypeOK, StagedInv, PublicationInv, SerialInv, OneRequest, NEW w \in Workers, Flip(w)
    PROVE  SerialInv'
<1>1. PICK v, own, known, t :
         v = job[w].ver /\ own = job[w].own /\ known = job[w].known /\ t = job[w].at
  OBVIOUS
<1>2. /\ pc[w] = "flipping" /\ shown' = ShownAfterFlip(v) /\ activated' = activated \cup {v}
      /\ outbox' = outbox \cup {SetEvent(t, own, 1)} \cup IfAny(known, SetEvent(t, known, 0))
      /\ active' = IF exists THEN [p \in Pointers |-> v] ELSE active
      /\ UNCHANGED <<exists, rows, versions, es, faults>> /\ CallDrain(w, "idle", NoJob)
  BY <1>1 DEF Flip
<1>3. /\ JobReplays(w) /\ AgreementInv /\ PresenceInv /\ RemovalInv /\ Making(w)
  BY <1>2 DEF SerialInv, Making
<1>4. /\ exists /\ outbox = {} /\ own \subseteq rows /\ rows \subseteq Docs
      /\ \A d \in rows : VersionOf(d) < v \/ d \in own
      /\ known = {d \in rows : VersionOf(d) < v}
  BY <1>1, <1>2, <1>3 DEF JobReplays, TypeOK, TablesTypeOK
<1>5. \A d \in own : VersionOf(d) = v
  BY <1>1, <1>2 DEF StagedInv, JobStaged
<1>6. v \in Nat /\ shown' = ChunksOfVersion(v) /\ ChunksOfVersion(v) \subseteq rows
  BY <1>1, <1>2, <1>4, FlipIsNewest DEF Versions
<1>7. \A p \in Pointers : active'[p] = v
  BY <1>2, <1>4
<1>8. ActiveDocs' = own
  <2>1. \A d \in rows : d \in own <=> VersionOf(d) = v
    BY <1>4, <1>5, <1>6, DocVersions
  <2>2. \A d \in rows : d \in ChunkDocs \/ d \in SummaryDocs
    BY <1>4 DEF Docs
  <2> QED BY <1>2, <1>4, <1>7, <2>1, <2>2 DEF ActiveDocs, Pointers
<1>9. Served' \subseteq own
  <2>1. \A d \in rows : VersionOf(d) = v => d \in own
    BY <1>4, <1>6
  <2>2. shown' \subseteq rows
    BY <1>6
  <2> QED BY <1>2, <1>7, <2>1, <2>2 DEF Served, Pointers
<1>10. /\ \A d \in rows : Known(d)
       /\ \A d : Known(d)' <=> Known(d)
  BY <1>2, <1>3, <1>4 DEF AgreementInv, Known
<1>11. \A e \in outbox' : /\ e.type = "set_available"
                          /\ \/ e.docs = own /\ e.available = 1
                             \/ e.docs = known /\ e.available = 0
  BY <1>2, <1>4 DEF SetEvent, IfAny
<1>12. \A d \in own \cup known : \E e \in outbox' : d \in e.docs
  <2>1. \A d \in own : \E e \in outbox' : d \in e.docs
    <3>1. SetEvent(t, own, 1) \in outbox' /\ SetEvent(t, own, 1).docs = own
      BY <1>2 DEF SetEvent
    <3> QED BY <3>1
  <2>2. ASSUME NEW d \in known PROVE \E e \in outbox' : d \in e.docs
    <3>1. SetEvent(t, known, 0) \in outbox' /\ SetEvent(t, known, 0).docs = known
      BY <1>2, <2>2 DEF SetEvent, IfAny
    <3> QED BY <3>1
  <2> QED BY <2>1, <2>2
<1>a. AgreementInv'
  <2>1. ASSUME NEW e \in outbox', NEW d \in e.docs PROVE Fits(e, d)'
    <3>1. CASE d \in own
      <4>1. e.docs = known => FALSE
        BY <1>4, <1>5, <1>6, <2>1, <3>1
      <4>2. e.type = "set_available" /\ e.available = 1
        BY <1>11, <2>1, <4>1
      <4> QED BY <1>2, <1>4, <1>8, <1>10, <3>1, <4>2 DEF Fits
    <3>2. CASE d \notin own
      <4>1. e.type = "set_available" /\ e.available = 0 /\ d \in known
        BY <1>11, <2>1, <3>2
      <4> QED BY <1>2, <1>4, <1>9, <1>10, <3>2, <4>1 DEF Fits
    <3> QED BY <3>1, <3>2
  <2>2. ASSUME NEW d \in Docs, Owed(d)' = {} PROVE Agrees(d, es[d])'
    <3>1. d \notin own /\ d \notin known
      BY <1>12, <2>2 DEF Owed
    <3>2. d \notin rows
      BY <1>4, <3>1
    <3>3. d \notin ActiveDocs
      BY <3>2 DEF ActiveDocs
    <3>4. es[d] # "visible"
      BY <1>3, <1>4, <3>3 DEF AgreementInv, Owed, Agrees
    <3> QED BY <1>2, <1>9, <3>1, <3>4 DEF Agrees
  <2> QED BY <1>2, <1>10, <2>1, <2>2 DEF AgreementInv
<1>b. PresenceInv'
  <2> SUFFICES ASSUME NoLossYet
               PROVE  /\ \A d \in Docs : es[d] = "absent" \/ Stored(es[d])
                      /\ \A e \in outbox' : \A d \in e.docs : Stored(es[d])
                      /\ \A d \in rows : Stored(es[d])
    BY <1>2 DEF PresenceInv, NoLossYet
  <2>1. \A d \in rows : Stored(es[d])
    BY <1>3, <1>4 DEF PresenceInv, Owed
  <2> QED BY <1>3, <1>4, <1>11, <2>1 DEF PresenceInv
<1>c. RemovalInv'
  <2>1. \A d \in Docs : es[d] # "absent" => d \in rows
    BY <1>3, <1>4 DEF RemovalInv, Owed
  <2> QED BY <1>2, <1>4, <1>11, <2>1 DEF RemovalInv
<1> QED BY <1>2, <1>a, <1>b, <1>c, QueueReplays

LEMMA CollectReplays ==
    ASSUME TypeOK, StagedInv, PublicationInv, SerialInv, OneRequest, NEW w \in Workers, GcDelete(w)
    PROVE  SerialInv'
<1>1. PICK t : t = job[w].at
  OBVIOUS
<1>2. /\ pc[w] = "gcDelete" /\ exists /\ active["chunk"] > Retain
      /\ rows' = rows \ Doomed /\ versions' = VersionsKept
      /\ outbox' = outbox \cup IfAny(Doomed, DeleteEvent(t, Doomed))
      /\ UNCHANGED <<exists, active, es, activated, faults>> /\ CallDrain(w, "idle", NoJob)
  BY <1>1 DEF GcDelete, GcApplies, histVars
<1>3. /\ JobReplays(w) /\ AgreementInv /\ PresenceInv /\ RemovalInv
  BY DEF SerialInv
<1>4. outbox = {} /\ shown' = shown
  BY <1>2, <1>3, CollectKeeps DEF JobReplays
<1>5. /\ Served \subseteq ActiveDocs /\ ActiveDocs \subseteq rows /\ rows \subseteq Docs
      /\ \A d \in ActiveDocs : VersionOf(d) = active["doc"]
      /\ active["doc"] \in Nat /\ active["chunk"] = active["doc"] /\ active["summary"] = active["doc"]
  BY <1>2, ServedActive DEF PublicationInv, Pointers
<1>6. /\ Doomed = {d \in rows : VersionOf(d) + Retain <= active["doc"]}
      /\ \A d \in Doomed : VersionOf(d) < active["doc"]
  <2>1. Doomed = {d \in rows : VersionOf(d) + Retain <= active["doc"]}
    BY <1>5 DEF Doomed
  <2> QED BY <1>5, <2>1, DocVersions, RetainAssumption
<1>7. Doomed \cap ActiveDocs = {}
  BY <1>5, <1>6
<1>8. ActiveDocs' = ActiveDocs /\ Served' = Served
  <2>1. ActiveDocs' = ActiveDocs
    BY <1>2, <1>7 DEF ActiveDocs
  <2>2. \A d \in rows \cap SummaryDocs : VersionOf(d) = active["summary"] => d \notin Doomed
    BY <1>5, <1>6
  <2> QED BY <1>2, <1>4, <2>1, <2>2 DEF Served
<1>9. active["doc"] \in versions'
  <2>1. PublishedOk /\ activated # {}
    BY <1>2, <1>5, RetainAssumption DEF PublicationInv, PublishedOk, DefaultVersion
  <2>2. active["doc"] \in versions /\ active["doc"] + Retain > active["chunk"]
    BY <1>5, <2>1, RetainAssumption DEF PublishedOk
  <2> QED BY <1>2, <2>2 DEF VersionsKept
<1>10. \A d \in rows : Known(d)'
  <2> SUFFICES ASSUME NEW d \in rows PROVE \E u \in versions' : VersionOf(d) <= u
    BY DEF Known
  <2>1. PICK u \in versions : VersionOf(d) <= u
    BY <1>2, <1>3 DEF AgreementInv, Known
  <2>2. u \in Nat /\ VersionOf(d) \in Nat
    BY <1>5, DocVersions DEF TypeOK, TablesTypeOK
  <2>3. CASE u \in versions'
    BY <2>1, <2>3
  <2>4. CASE u \notin versions'
    <3>1. ~(u + Retain > active["doc"])
      BY <1>2, <1>5, <2>4 DEF VersionsKept
    <3>2. u <= active["doc"]
      BY <1>5, <2>2, <3>1, RetainAssumption
    <3> QED BY <1>5, <1>9, <2>1, <2>2, <3>2
  <2> QED BY <2>3, <2>4
<1>11. /\ \A e \in outbox' : e.type = "delete" /\ e.docs = Doomed /\ e.available = 0
       /\ \A d \in Doomed : \E e \in outbox' : d \in e.docs /\ e.type = "delete"
  <2>1. outbox' = IfAny(Doomed, DeleteEvent(t, Doomed))
    BY <1>2, <1>4
  <2>2. /\ DeleteEvent(t, Doomed).type = "delete" /\ DeleteEvent(t, Doomed).docs = Doomed
        /\ DeleteEvent(t, Doomed).available = 0
    BY DEF DeleteEvent
  <2>3. outbox' \subseteq {DeleteEvent(t, Doomed)} /\ (Doomed # {} => DeleteEvent(t, Doomed) \in outbox')
    BY <2>1 DEF IfAny
  <2> QED BY <2>2, <2>3
<1>a. AgreementInv'
  <2>1. ASSUME NEW e \in outbox', NEW d \in e.docs PROVE Fits(e, d)'
    <3>1. d \in Doomed /\ e.type = "delete" /\ e.available = 0 /\ d \in rows
      BY <1>6, <1>11, <2>1
    <3> QED BY <1>2, <1>5, <1>7, <1>8, <1>10, <3>1 DEF Fits
  <2>2. \A d \in Docs : Agrees(d, es[d])'
    <3>1. \A d \in Docs : Agrees(d, es[d])
      BY <1>2, <1>3, <1>4 DEF AgreementInv, Owed
    <3> QED BY <1>2, <1>8, <3>1 DEF Agrees, NoLossYet
  <2>3. \A d \in rows' : Known(d)'
    BY <1>2, <1>10
  <2> QED BY <2>1, <2>2, <2>3 DEF AgreementInv
<1>b. PresenceInv'
  <2>1. NoLossYet => /\ \A d \in Docs : es[d] = "absent" \/ Stored(es[d])
                     /\ \A d \in rows : Stored(es[d])
    BY <1>2, <1>3, <1>4 DEF PresenceInv, Owed
  <2> QED BY <1>2, <1>11, <2>1 DEF PresenceInv, NoLossYet
<1>c. RemovalInv'
  <2>1. \A d \in Docs : es[d] # "absent" => d \in rows
    BY <1>3, <1>4 DEF RemovalInv, Owed
  <2>2. \A d \in Docs : es[d] # "absent" => d \in rows' \/ \E e \in outbox' : d \in e.docs /\ e.type = "delete"
    BY <1>2, <1>11, <2>1
  <2> QED BY <1>2, <1>11, <2>2 DEF RemovalInv, Owed
<1> QED BY <1>2, <1>a, <1>b, <1>c, QueueReplays

LEMMA RepairReplays ==
    ASSUME TypeOK, StagedInv, PublicationInv, SerialInv, OneRequest, NEW w \in Workers, Repair(w)
    PROVE  SerialInv'
<1>1. PICK t, plan : t = job[w].at /\ plan = job[w].plan
  OBVIOUS
<1>2. PICK added : added = {[e EXCEPT !.at = t] : e \in plan}
  OBVIOUS
<1>3. /\ pc[w] = "repair" /\ outbox' = outbox \cup added
      /\ UNCHANGED <<exists, active, rows, shown, versions, es, activated, faults>>
      /\ CallDrain(w, "idle", NoJob)
  BY <1>1, <1>2 DEF Repair, pgVars, histVars
<1>4. /\ JobReplays(w) /\ AgreementInv /\ PresenceInv /\ RemovalInv /\ plan \subseteq Event
  BY <1>1, Functions DEF SerialInv, Job
<1>5. ActiveDocs' = ActiveDocs /\ Served' = Served /\ NoLossYet' = NoLossYet
  BY <1>3, Tables DEF NoLossYet
<1>6. exists
  BY <1>3, <1>4 DEF JobReplays, PCs
<1>7. ASSUME NEW e \in added, NEW d \in e.docs
      PROVE  Fits(e, d) /\ (NoLossYet /\ e.type = "set_available" => Stored(es[d]))
  <2>1. PICK f \in plan : e = [f EXCEPT !.at = t]
    BY <1>2
  <2>2. e.type = f.type /\ e.docs = f.docs /\ e.available = f.available
    BY <1>4, <2>1 DEF Event
  <2>3. Fits(f, d) /\ (NoLossYet /\ f.type = "set_available" => Stored(es[d]))
    BY <1>1, <1>3, <1>4, <1>7, <2>2 DEF JobReplays
  <2> QED BY <2>2, <2>3 DEF Fits
<1>8. \A e \in outbox' : \A d \in e.docs : Fits(e, d)
  BY <1>3, <1>4, <1>6, <1>7 DEF AgreementInv
<1>9. \A e, d : Fits(e, d)' <=> Fits(e, d)
  BY <1>3, <1>5 DEF Fits, Known
<1>a. AgreementInv'
  <2>1. ASSUME NEW d \in Docs, Owed(d)' = {} PROVE Agrees(d, es[d])'
    <3>1. Owed(d) = {}
      BY <1>3, <2>1 DEF Owed
    <3>2. Agrees(d, es[d])
      BY <1>4, <1>6, <3>1 DEF AgreementInv
    <3> QED BY <1>3, <1>5, <3>2 DEF Agrees
  <2>2. \A d \in rows' : Known(d)'
    BY <1>3, <1>4, <1>6 DEF AgreementInv, Known
  <2> QED BY <1>8, <1>9, <2>1, <2>2 DEF AgreementInv
<1>b. PresenceInv'
  <2> SUFFICES ASSUME NoLossYet
               PROVE  /\ \A d \in Docs : es[d] = "absent" \/ Stored(es[d])
                      /\ \A e \in outbox' : e.type = "set_available" =>
                            \A d \in e.docs : Stored(es[d])
                      /\ \A d \in rows : Stored(es[d]) \/ \E e \in outbox' : d \in e.docs /\ e.type = "index"
    BY <1>3, <1>5 DEF PresenceInv, Owed
  <2>1. \A d \in rows : Stored(es[d]) \/ \E e \in outbox : d \in e.docs /\ e.type = "index"
    BY <1>4, <1>6 DEF PresenceInv, Owed
  <2> QED BY <1>3, <1>4, <1>6, <1>7, <2>1 DEF PresenceInv
<1>c. RemovalInv'
  <2>1. \A d \in Docs : es[d] # "absent" => d \in rows \/ \E e \in outbox' : d \in e.docs /\ e.type = "delete"
    <3>1. \A d \in Docs : es[d] # "absent" => d \in rows \/ \E e \in outbox : d \in e.docs /\ e.type = "delete"
      BY <1>4 DEF RemovalInv, Owed
    <3> QED BY <1>3, <3>1
  <2>2. \A e, f \in outbox' : \A d \in e.docs \cap f.docs : ~(e.type = "delete" /\ f.type # "delete")
    BY <1>8 DEF Fits
  <2> QED BY <1>3, <1>6, <2>1, <2>2 DEF RemovalInv, Owed
<1> QED BY <1>3, <1>a, <1>b, <1>c, QueueReplays

LEMMA DeletionReplays ==
    ASSUME TypeOK, StagedInv, SerialInv, OneRequest, NEW w \in Workers, PurgeCommit(w)
    PROVE  SerialInv'
<1>1. PICK t, known : t = job[w].at /\ known = job[w].known
  OBVIOUS
<1>2. /\ pc[w] = "purge" /\ ~exists' /\ rows' = {} /\ es' = es
      /\ outbox' = outbox \cup IfAny(known, DeleteEvent(t, known))
      /\ CallDrain(w, "idle", NoJob)
  BY <1>1 DEF PurgeCommit
<1>3. JobReplays(w) /\ AgreementInv /\ RemovalInv
  BY DEF SerialInv
<1>4. exists /\ known = rows /\ \A e \in outbox : e.at < t
  BY <1>1, <1>2, <1>3 DEF JobReplays, PCs
<1>5. PICK p : p = DeleteEvent(t, known)
  OBVIOUS
<1>6. /\ p.type = "delete" /\ p.docs = known /\ p.at = t
      /\ outbox' \subseteq outbox \cup {p} /\ outbox \subseteq outbox'
      /\ known # {} => p \in outbox'
  BY <1>2, <1>5 DEF DeleteEvent, IfAny
<1>7. \A e \in outbox : \A d \in e.docs : e.type = "delete" <=> d \notin rows
  BY <1>3, <1>4 DEF AgreementInv, Fits
<1>8. \A d \in rows : p \in outbox' /\ d \in p.docs
  BY <1>4, <1>6
<1>9. \A d \in Docs : es[d] # "absent" => \E e \in outbox' : d \in e.docs /\ e.type = "delete"
  <2>1. \A d \in Docs : es[d] # "absent" => d \in rows \/ \E e \in outbox : d \in e.docs /\ e.type = "delete"
    BY <1>3 DEF RemovalInv, Owed
  <2> QED BY <1>6, <1>8, <2>1
<1>10. ASSUME NEW e \in outbox', NEW f \in outbox', NEW d \in e.docs \cap f.docs,
              e.type = "delete", f.type # "delete"
       PROVE  f.at < e.at
  <2>1. f \in outbox /\ d \in rows
    BY <1>6, <1>7, <1>10
  <2>2. e = p
    BY <1>6, <1>7, <1>10, <2>1
  <2> QED BY <1>4, <1>6, <2>1, <2>2
<1>11. \A e \in outbox' : \A d \in e.docs : \E f \in outbox' : d \in f.docs /\ f.type = "delete"
  <2> SUFFICES ASSUME NEW e \in outbox', NEW d \in e.docs
               PROVE  \E f \in outbox' : d \in f.docs /\ f.type = "delete"
    OBVIOUS
  <2>1. CASE d \in rows
    BY <1>6, <1>8, <2>1
  <2>2. CASE d \notin rows
    BY <1>4, <1>6, <1>7, <2>2
  <2> QED BY <2>1, <2>2
<1>12. RemovalInv'
  BY <1>2, <1>9, <1>10, <1>11 DEF RemovalInv, Owed
<1>13. AgreementInv' /\ PresenceInv'
  BY <1>2 DEF AgreementInv, PresenceInv
<1> QED BY <1>2, <1>12, <1>13, QueueReplays

LEMMA SerialInit == Init => SerialInv
<1> SUFFICES ASSUME Init PROVE SerialInv
  OBVIOUS
<1>1. /\ exists /\ rows = {} /\ shown = {} /\ outbox = {}
      /\ \A d \in Docs : es[d] = "absent"
      /\ \A w \in Workers : pc[w] = "idle" /\ dr[w] = NoDrain
  BY DEF Init
<1>2. ActiveDocs = {} /\ Served = {}
  BY <1>1 DEF ActiveDocs, Served
<1>3. AgreementInv
  BY <1>1, <1>2 DEF AgreementInv, Agrees
<1>4. PresenceInv /\ RemovalInv
  BY <1>1 DEF PresenceInv, RemovalInv
<1>5. \A w \in Workers : DrainReplays(w) /\ JobReplays(w)
  BY <1>1 DEF DrainReplays, JobReplays, NoDrain, Making
<1> QED BY <1>3, <1>4, <1>5 DEF SerialInv

LEMMA SerialNext ==
    ASSUME IsFiniteSet(Chunks), IsFiniteSet(Summaries), OneRequest,
           TypeOK, StagedInv, PublicationInv, SerialInv, [Next]_vars
    PROVE  SerialInv'
<1>1. ASSUME NEW w \in Workers, Arrive(w) \/ Work(w) PROVE SerialInv'
  <2>1. CASE \/ IngestStart(w) \/ StageFails(w) \/ BarrierPass(w) \/ BarrierFail(w) \/ FlipBegin(w)
             \/ GcBegin(w) \/ GcNothing(w) \/ PurgeBegin(w) \/ ReconcileLoad(w) \/ RepairBegin(w)
    BY <2>1, StepsReplay
  <2>2. CASE Stage(w)
    BY <2>2, StageReplays
  <2>3. CASE Flip(w)
    BY <2>3, FlipReplays
  <2>4. CASE GcDelete(w)
    BY <2>4, CollectReplays
  <2>5. CASE Classify(w)
    BY <2>5, ClassifyReplays
  <2>6. CASE Repair(w)
    BY <2>6, RepairReplays
  <2>7. CASE PurgeCommit(w)
    BY <2>7, DeletionReplays
  <2>8. CASE DrainStep(w)
    <3>1. CASE DrainSelect(w)
      BY <3>1, SelectReplays
    <3>2. CASE DrainMark(w)
      BY <3>2, MarkReplays
    <3>3. CASE DrainCommit(w)
      BY <3>3, CommitReplays
    <3>4. CASE DrainDeadlock(w)
      BY <3>4, EndReplays DEF DrainDeadlock, histVars
    <3>5. CASE \/ PublishIndex(w) \/ PublishGet(w) \/ PublishPut(w)
               \/ PublishDelete(w) \/ PublishMissing(w)
      BY <3>5, PublishReplays
    <3> QED BY <2>8, <3>1, <3>2, <3>3, <3>4, <3>5 DEF DrainStep
  <2> QED
    BY <1>1, <2>1, <2>2, <2>3, <2>4, <2>5, <2>6, <2>7, <2>8
    DEF Arrive, Work, IngestStep, GcStep, ReconcileStep
<1>2. ASSUME NEW w \in Workers, PublishError(w) PROVE SerialInv'
  BY <1>2, PublishReplays
<1>3. ASSUME NEW w \in Workers, Abort(w) PROVE SerialInv'
  <2>1. EndRequest(w) /\ UNCHANGED <<pgVars, outbox, es, activated, faults["loss"]>>
    BY <1>3 DEF Abort, histVars, Fault, FaultKinds, TypeOK, CountersTypeOK
  <2> QED BY <2>1, EndReplays
<1>4. ASSUME NEW d \in Docs, EsLose(d) PROVE SerialInv'
  BY <1>4, LoseReplays
<1>5. CASE UNCHANGED vars
  <2>1. /\ UNCHANGED <<exists, active, rows, shown, versions, outbox, es, pc, job, dr, activated, faults>>
        /\ UNCHANGED <<pgVars, outbox, es, activated, faults["loss"]>>
    BY <1>5 DEF vars, pgVars, reqVars, histVars
  <2>2. AgreementInv' /\ PresenceInv' /\ RemovalInv'
    BY <2>1, QuietReplays DEF SerialInv
  <2>3. ActiveDocs' = ActiveDocs /\ Served' = Served /\ NoLossYet' = NoLossYet
    BY <2>1, Tables DEF NoLossYet
  <2>4. ASSUME NEW w \in Workers PROVE DrainReplays(w)' /\ JobReplays(w)'
    <3>1. DrainReplays(w) /\ JobReplays(w)
      BY DEF SerialInv
    <3>2. DrainReplays(w)'
      BY <2>1, <2>3, <3>1 DEF DrainReplays, Takes, Agrees
    <3>3. JobReplays(w)'
      BY <2>1, <2>3, <3>1 DEF JobReplays, Making, Fits, Known
    <3> QED BY <3>2, <3>3
  <2> QED BY <2>2, <2>4 DEF SerialInv
<1> QED BY <1>1, <1>2, <1>3, <1>4, <1>5 DEF Next

(* With one request at a time, whatever fails, dies, is retried or is lost *)
(* in between, the outbox always replays to what the tables say.           *)
THEOREM SerialInvariant ==
    ASSUME OneRequest, IsFiniteSet(Chunks), IsFiniteSet(Summaries)
    PROVE  Spec => []SerialInv
<1>1. TypeOK /\ StagedInv /\ PublicationInv /\ SerialInv /\ [Next]_vars => SerialInv'
  BY SerialNext
<1>2. OneIngester
  BY IngestersAssumption DEF OneRequest, OneIngester
<1> QED BY <1>1, <1>2, SerialInit, TypeCorrect, StagedInvariant, PublicationAlways, PTL DEF Spec

(* Numbers have a least one, and rows a last one.                          *)
LEMMA LeastNumber ==
    ASSUME NEW T, T \subseteq Nat, T # {}
    PROVE  \E x \in T : \A y \in T : x <= y
<1>1. PICK R : R = OpToRel(<, Nat)
  OBVIOUS
<1>2. IsWellFoundedOn(R, Nat)
  BY <1>1, NatLessThanWellFounded
<1>3. \A x, y \in Nat : x < y => <<x, y>> \in R
  BY <1>1 DEF OpToRel
<1>4. PICK x \in T : \A y \in T : ~(<<y, x>> \in R)
  BY <1>2, WFMin
<1>5. \A y \in T : x \in Nat /\ y \in Nat /\ ~(y < x)
  BY <1>3, <1>4
<1>6. \A y \in T : x <= y
  BY <1>5
<1> QED BY <1>6

LEMMA LastRow ==
    ASSUME NEW S, NEW N \in Nat, S # {}, \A e \in S : e.at \in 0 .. N
    PROVE  \E e \in S : \A f \in S : f.at <= e.at
<1> DEFINE T == {N - e.at : e \in S}
<1>1. T \subseteq Nat /\ T # {}
  OBVIOUS
<1>2. PICK x \in T : \A y \in T : x <= y
  BY <1>1, LeastNumber
<1>3. PICK e \in S : x = N - e.at
  BY <1>2
<1>4. \A f \in S : N - e.at <= N - f.at /\ e.at \in 0 .. N /\ f.at \in 0 .. N
  BY <1>2, <1>3
<1>5. \A f \in S : f.at <= e.at
  BY <1>4
<1> QED BY <1>5

(* What is to become of a document with rows in the outbox is what one of  *)
(* them asks for.                                                          *)
LEMMA EventualRow ==
    ASSUME TypeOK, NEW d \in Docs, Owed(d) # {}
    PROVE  \E e \in Owed(d) :
              /\ e \in Event
              /\ \A f \in Owed(d) : f.at <= e.at
              /\ e.type = "index" => Eventual(d) = IndexedAs(e.available)
              /\ e.type = "delete" => Eventual(d) = "absent"
              /\ e.type = "set_available" =>
                    Eventual(d) = IF es[d] = "absent" THEN "absent"
                                  ELSE WithAvailable(es[d], e.available)
<1>1. PICK e : e = CHOOSE g \in Owed(d) : \A f \in Owed(d) : f.at <= g.at
  OBVIOUS
<1>2. \E g \in Owed(d) : \A f \in Owed(d) : f.at <= g.at
  <2>1. \A f \in Owed(d) : f.at \in 0 .. (2 * MaxIngests + MaxUpkeep)
    <3>1. \A f \in Owed(d) : f.at \in Ticks \cup {0}
      BY DEF Owed, TypeOK, Event
    <3> QED BY <3>1, BoundsAssumption DEF Ticks
  <2>2. 2 * MaxIngests + MaxUpkeep \in Nat
    BY BoundsAssumption
  <2> QED BY <2>1, <2>2, LastRow
<1>3. e \in Owed(d) /\ \A f \in Owed(d) : f.at <= e.at
  BY <1>1, <1>2
<1>4. e \in Event
  BY <1>3 DEF Owed, TypeOK
<1> DEFINE Of(f) == CASE f.type = "index" -> IndexedAs(f.available)
                      [] f.type = "delete" -> "absent"
                      [] f.type = "set_available" ->
                           IF es[d] = "absent" THEN "absent" ELSE WithAvailable(es[d], f.available)
<1>5. Eventual(d) = Of(e)
  <2>1. Eventual(d) = Of(CHOOSE f \in Owed(d) : \A g \in Owed(d) : g.at <= f.at)
    BY DEF Eventual
  <2> HIDE DEF Of
  <2> QED BY <1>1, <2>1
<1> QED BY <1>3, <1>4, <1>5

LEMMA SerialCompletes ==
    ASSUME TypeOK, PublicationInv, SerialInv
    PROVE  OutboxCompletes
<1>1. AgreementInv /\ PresenceInv /\ RemovalInv
  BY DEF SerialInv
<1>2. CASE ~exists
  <2>1. rows = {}
    BY <1>2 DEF PublicationInv
  <2> QED BY <1>1, <1>2, <2>1 DEF OutboxCompletes, RemovalInv
<1>3. ASSUME exists, NEW d \in Docs
      PROVE  /\ Eventual(d) = "visible" => d \in ActiveDocs
             /\ d \in Served => \/ Eventual(d) = "visible"
                                \/ faults["loss"] > 0 /\ Eventual(d) # "hidden"
  <2>a. faults["loss"] \in Nat
    BY DEF TypeOK, CountersTypeOK, FaultKinds
  <2>1. CASE Owed(d) = {}
    <3>1. Eventual(d) = es[d]
      BY <2>1 DEF Eventual
    <3>2. Agrees(d, es[d])
      BY <1>1, <1>3, <2>1 DEF AgreementInv
    <3> QED BY <2>a, <3>1, <3>2 DEF Agrees, NoLossYet
  <2>2. CASE Owed(d) # {}
    <3>1. PICK e \in Owed(d) :
             /\ e \in Event
             /\ e.type = "index" => Eventual(d) = IndexedAs(e.available)
             /\ e.type = "delete" => Eventual(d) = "absent"
             /\ e.type = "set_available" =>
                   Eventual(d) = IF es[d] = "absent" THEN "absent"
                                 ELSE WithAvailable(es[d], e.available)
      BY <2>2, EventualRow
    <3>2. Fits(e, d)
      BY <1>1, <1>3, <3>1 DEF AgreementInv, Owed
    <3>3. d \in Served => d \in rows
      BY <1>3, ServedActive
    <3>4. CASE e.type = "index"
      BY <3>1, <3>2, <3>4 DEF Fits, IndexedAs
    <3>5. CASE e.type = "delete"
      BY <3>1, <3>2, <3>3, <3>5 DEF Fits
    <3>6. CASE e.type = "set_available"
      <4>1. NoLossYet => Stored(es[d])
        BY <1>1, <1>3, <3>1, <3>6 DEF PresenceInv, Owed
      <4>2. d \notin ActiveDocs => Eventual(d) # "visible"
        BY <3>1, <3>2, <3>6 DEF Fits, WithAvailable, IndexedAs
      <4>3. d \in Served => Eventual(d) \in {"absent", "visible", "ghostVisible"}
        BY <3>1, <3>2, <3>6 DEF Fits, WithAvailable, IndexedAs
      <4>4. d \in Served /\ NoLossYet => Eventual(d) = "visible"
        BY <3>1, <3>2, <3>6, <4>1 DEF Fits, WithAvailable, IndexedAs, Stored
      <4> QED BY <2>a, <4>2, <4>3, <4>4 DEF NoLossYet
    <3> QED BY <3>1, <3>4, <3>5, <3>6, EventFields
  <2> QED BY <2>1, <2>2
<1> QED BY <1>2, <1>3 DEF OutboxCompletes

(* So a drain that runs to its end leaves exactly the active version on    *)
(* offer (relay.py:32-72): no failed ingest, repair or collection leaves   *)
(* rows behind which hide it or show another one.                          *)
THEOREM Completes ==
    ASSUME OneRequest, IsFiniteSet(Chunks), IsFiniteSet(Summaries)
    PROVE  Spec => []OutboxCompletes
<1>1. TypeOK /\ PublicationInv /\ SerialInv => OutboxCompletes
  BY SerialCompletes
<1>2. OneIngester
  BY IngestersAssumption DEF OneRequest, OneIngester
<1> QED BY <1>1, <1>2, SerialInvariant, TypeCorrect, PublicationAlways, PTL

(* And no pending delete names a document that has a row: what the         *)
(* collection (gc.py:129) and the repair (reconcile.py:240) give up is not *)
(* taken up again under the same id.                                       *)
THEOREM DeletesSafe ==
    ASSUME OneRequest, IsFiniteSet(Chunks), IsFiniteSet(Summaries)
    PROVE  Spec => []DeletesNameNoRow
<1>1. PublicationInv /\ SerialInv => DeletesNameNoRow
  BY DEF PublicationInv, SerialInv, AgreementInv, Fits, DeletesNameNoRow
<1>2. OneIngester
  BY IngestersAssumption DEF OneRequest, OneIngester
<1> QED BY <1>1, <1>2, SerialInvariant, PublicationAlways, PTL
=============================================================================
