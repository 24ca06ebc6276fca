------------------------------ MODULE Indexing ------------------------------
(***************************************************************************)
(* The indexing subsystem: ingests, garbage collections, reconciliations   *)
(* and deletions of one file, in any number at a time, over PostgreSQL and *)
(* an index that may fail a call or lose a document; a request may die     *)
(* between any two of its steps.                                           *)
(***************************************************************************)
EXTENDS Ingest, Gc, Reconcile, FileStore

(* The row upload has inserted: the active_* columns default to 1 though   *)
(* there is no version yet.                                                *)
DefaultVersion == 1

Init ==
    /\ exists = TRUE
    /\ active = [p \in Pointers |-> DefaultVersion]
    /\ rows = {} /\ shown = {} /\ versions = {}
    /\ outbox = {}
    /\ es = [d \in Docs |-> "absent"]
    /\ pc = [w \in Workers |-> "idle"]
    /\ job = [w \in Workers |-> NoJob]
    /\ dr = [w \in Workers |-> NoDrain]
    /\ ingests = 0 /\ upkeep = 0
    /\ activated = {}
    /\ faults = [k \in FaultKinds |-> 0]

---------------------------------------------------------------------------
(* The request raises, or its process dies: PostgreSQL rolls back the open *)
(* transaction, what the index was told stays.                             *)
Abort(w) ==
    /\ pc[w] # "idle"
    /\ Fault("abort")
    /\ EndRequest(w)
    /\ UNCHANGED <<pgVars, outbox, es, histVars>>

(* What reconcile exists for: a document is gone from the index.           *)
EsLose(d) ==
    /\ es[d] # "absent"
    /\ Fault("loss")
    /\ es' = [es EXCEPT ![d] = "absent"]
    /\ UNCHANGED <<pgVars, outbox, reqVars, histVars>>

(* What clients ask for, and what a request then does by itself.           *)
Arrive(w) == IngestStart(w) \/ GcBegin(w) \/ ReconcileLoad(w) \/ PurgeBegin(w)
Work(w) == IngestStep(w) \/ GcStep(w) \/ ReconcileStep(w) \/ PurgeCommit(w) \/ DrainStep(w)

Next ==
    \/ \E w \in Workers : Arrive(w) \/ Work(w) \/ PublishError(w) \/ Abort(w)
    \/ \E d \in Docs : EsLose(d)

Spec == Init /\ [][Next]_vars

(* A thread of the pool that has a request keeps running it.               *)
FairSpec == Spec /\ \A w \in Workers : WF_vars(Work(w))

---------------------------------------------------------------------------
(***************************************************************************)
(* Properties.                                                             *)
(***************************************************************************)
PCs == {"idle", "parse", "barrier", "flip", "flipping", "drain", "publish",
        "gcDelete", "classify", "embed", "repair", "purge"}

(* The versions in the tables have been ingested, and so has the one a     *)
(* request works for; a request that is making a version has its number.   *)
Making(w) ==
    \/ pc[w] \in {"parse", "barrier", "flip", "flipping"}
    \/ pc[w] \in {"drain", "publish"} /\ dr[w].then = "barrier"

TablesTypeOK ==
    /\ exists \in BOOLEAN
    /\ active \in [Pointers -> Versions]
    /\ rows \subseteq Docs
    /\ shown \subseteq rows \cap ChunkDocs
    /\ versions \subseteq 1 .. ingests

RequestsTypeOK ==
    /\ pc \in [Workers -> PCs]
    /\ job \in [Workers -> Job]
    /\ dr \in [Workers -> Drain]
    /\ \A w \in Workers : job[w].ver <= ingests /\ (Making(w) => job[w].ver >= 1)

CountersTypeOK ==
    /\ ingests \in 0 .. MaxIngests /\ upkeep \in 0 .. MaxUpkeep
    /\ activated \subseteq Versions
    /\ faults \in [FaultKinds -> Nat]

(* Every variable has its type, and a version number is never above the    *)
(* number of ingests that have been started (pipeline.py:193).             *)
TypeOK ==
    /\ TablesTypeOK
    /\ outbox \subseteq Event
    /\ es \in [Docs -> EsState]
    /\ RequestsTypeOK
    /\ CountersTypeOK

(* A version that is only staged cannot be found: what the index shows     *)
(* belongs to a version some flip has published, or to version 1, where    *)
(* the columns point before anything is published.  Whatever the           *)
(* interleaving, the failed calls, the deaths and the losses.              *)
StagedNeverSearchable ==
    \A d \in Docs :
        es[d] = "visible" => VersionOf(d) \in activated \cup {DefaultVersion}

(* Why it holds: everything that could make a document visible, wherever   *)
(* it waits - a row of the outbox, a row a drain holds, a repair about to  *)
(* be queued, the rows a reconciliation took for active - already names    *)
(* published versions only, and what an ingest will ask to show when it    *)
(* flips is of the version that very step publishes.                       *)
Published(ds) == \A d \in ds : VersionOf(d) \in activated \cup {DefaultVersion}
ShowsPublished(events) == \A e \in events : e.available = 1 => Published(e.docs)

DrainStaged(d) ==
    /\ ShowsPublished(d.todo \cup d.cur \cup d.failed)
    /\ \A r \in d.cur, g \in d.got : g[1] \in r.docs
    /\ \A r \in d.cur : d.left \subseteq r.docs

JobStaged(at, j) ==
    /\ ShowsPublished(j.plan)
    /\ IF at \in {"classify", "embed", "repair"}
         THEN Published(j.own)
         ELSE \A d \in j.own : VersionOf(d) = j.ver

StagedInv ==
    /\ StagedNeverSearchable
    /\ \A p \in Pointers : active[p] \in activated \cup {DefaultVersion}
    /\ ShowsPublished(outbox)
    /\ \A w \in Workers : DrainStaged(dr[w]) /\ JobStaged(pc[w], job[w])

(* What the unpublished rows will make of document d, taken in order.      *)
Owed(d) == {e \in outbox : d \in e.docs}
Eventual(d) ==
    IF Owed(d) = {} THEN es[d]
    ELSE LET e == CHOOSE e \in Owed(d) : \A f \in Owed(d) : f.at <= e.at
         IN  CASE e.type = "index" -> IndexedAs(e.available)
               [] e.type = "delete" -> "absent"
               [] e.type = "set_available" ->
                    IF es[d] = "absent" THEN "absent" ELSE WithAvailable(es[d], e.available)

(* The documents PostgreSQL says are published.                            *)
Served ==
    {d \in shown : VersionOf(d) = active["chunk"]}
      \cup {d \in rows \cap SummaryDocs : /\ VersionOf(d) = active["summary"]
                                          /\ VersionOf(d) \in activated}

(* The outbox always holds what it takes to bring the index up to the      *)
(* tables, in the middle of a drain and after a death too: nothing but     *)
(* the active version ends up visible, and all that is published does,     *)
(* short of a document the index has lost.  After a deletion, whose drain  *)
(* is tried once, whatever the index still has is in a delete that is not  *)
(* published yet.  One request at a time.                                  *)
OutboxCompletes ==
    /\ exists =>
         \A d \in Docs :
           /\ Eventual(d) = "visible" => d \in ActiveDocs
           /\ d \in Served => \/ Eventual(d) = "visible"
                              \/ faults["loss"] > 0 /\ Eventual(d) # "hidden"
    /\ ~exists =>
         \A d \in Docs : es[d] # "absent" => \E e \in Owed(d) : e.type = "delete"

(* A delete queued by the collector, the reconciliation or a deletion      *)
(* never names a document whose row PostgreSQL still has.                  *)
DeletesNameNoRow ==
    \A e \in outbox : e.type = "delete" => e.docs \cap rows = {}

(* The collector keeps what its window promises: the chunks of a version   *)
(* that was published and is among the Retain latest are all there.        *)
RetainedRowsPresent ==
    exists => \A v \in activated :
                v + Retain > active["doc"] => {v} \X Chunks \X {0} \subseteq rows

(* PostgreSQL offers the chunks of one version at a time, the active one.  *)
OneVersionShown == \A d \in shown : VersionOf(d) = active["chunk"]

(* The drain barrier: when a file is pointed to a version, every document  *)
(* of the version is in the index.                                         *)
FlipOnlyIndexed ==
    [][active' # active =>
          \A d \in rows : VersionOf(d) = active'["doc"] => es[d] \in {"hidden", "visible"}
      ]_active

(* The active version only grows.                                          *)
ActiveNeverRegresses == [][\A p \in Pointers : active'[p] >= active[p]]_active

(* With one ingesting worker there is at most one version in the making.   *)
(* It is above all that were published, and past staging its rows stay.    *)
OneIngester == \A v, w \in Ingesters : v = w

ChunksOfVersion(v) == {v} \X Chunks \X {0}

MadeOk(w) ==
    /\ w \in Ingesters
    /\ exists =>
          /\ \A u \in activated : u < job[w].ver
          /\ IF pc[w] = "parse" THEN ChunksOfVersion(job[w].ver) \subseteq job[w].own
             ELSE /\ job[w].ver \in versions
                  /\ ChunksOfVersion(job[w].ver) \subseteq rows

(* The pointers agree, and name the newest version that was published; its *)
(* chunks are what PostgreSQL offers.  A deletion leaves nothing.          *)
PublishedOk ==
    /\ \A u \in activated : u <= active["doc"]
    /\ IF activated = {} THEN active["doc"] = DefaultVersion /\ shown = {}
       ELSE /\ active["doc"] \in activated \cap versions
            /\ shown = ChunksOfVersion(active["doc"])

PublicationInv ==
    /\ \A w \in Workers : Making(w) => MadeOk(w)
    /\ \A p \in Pointers : active[p] = active["doc"]
    /\ IF exists THEN PublishedOk ELSE rows = {} /\ shown = {} /\ versions = {}
    /\ RetainedRowsPresent
    /\ \A w \in Workers : pc[w] = "purge" => w \in Purgers
    /\ Purgers = {} => exists

(* Above the active version a document is only ever staged, so once there  *)
(* it is there to stay: short of a loss, a document whose row is in is in  *)
(* the index, or the row that will put it there is in the outbox.          *)
Arrived(d) == VersionOf(d) > active["doc"] => es[d] = "hidden"
Below(ds) == \A d \in ds : VersionOf(d) <= active["doc"]
OnlyStages(e) == (e.type = "index" /\ e.available = 0) \/ Below(e.docs)

DrainArrives(d) ==
    /\ \A e \in d.todo \cup d.cur \cup d.done \cup d.failed : OnlyStages(e)
    /\ d.got # {} => \A r \in d.cur : r.type = "set_available"
    /\ d.ok => \A r \in d.cur : r.type = "index" => \A i \in r.docs \ d.left : Arrived(i)
    /\ \A r \in d.done : r.type = "index" => \A i \in r.docs : Arrived(i)

JobArrives(at, j) ==
    /\ \A e \in j.plan : Below(e.docs)
    /\ at \in {"flip", "flipping"} => \A d \in rows : Arrived(d)
    /\ at = "flipping" => \A d \in j.known : VersionOf(d) <= j.ver

BarrierInv ==
    exists =>
        /\ \A e \in outbox : OnlyStages(e)
        /\ \A w \in Workers : DrainArrives(dr[w]) /\ JobArrives(pc[w], job[w])
        /\ \A d \in rows : Arrived(d) \/ \E e \in outbox : e.type = "index" /\ d \in e.docs

(* The abstract specification, read off the history, the tables and the    *)
(* index: pipeline.py:280-314 publishes a version in one transaction, and  *)
(* drains only ever show what has been published.                          *)
Reader == INSTANCE Publication
    WITH published <- activated, offered <- shown,
         searchable <- {d \in Docs : es[d] = "visible"}
PublishesAtomically == Reader!Spec

(* Every request ends, the ones that wait for the row locks of another     *)
(* drain included.                                                         *)
RequestsEnd == \A w \in Workers : pc[w] # "idle" ~> pc[w] = "idle"
=============================================================================
