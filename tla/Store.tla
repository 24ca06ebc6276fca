------------------------------- MODULE Store -------------------------------
(***************************************************************************)
(* The shared state of the indexing subsystem, for one file: the           *)
(* PostgreSQL tables that are authoritative, the outbox, the Elasticsearch *)
(* index derived from them, and what each request in flight remembers.     *)
(*                                                                         *)
(* PostgreSQL transactions are atomic and run at READ COMMITTED.  A row of *)
(* the outbox carries created_at = now(), which PostgreSQL fixes when the  *)
(* transaction begins: a transaction whose beginning and commit are        *)
(* different steps of the model reserves its tick when it begins.          *)
(***************************************************************************)
EXTENDS Naturals, FiniteSets

CONSTANTS
    Workers,        \* threads of the server's pool, one request at a time each
    Chunks,         \* the chunks the parser cuts the file into
    Summaries,      \* its section summaries; {} when summary_enabled is off
    MissingRaises,  \* TRUE: Elasticsearch; FALSE: the in-memory index
    Retain,         \* settings.gc_retain_versions
    MaxAttempts,    \* settings.outbox_max_attempts
    MaxIngests,     \* bound: ingests started, so also the versions they make
    MaxUpkeep,      \* bound: collections, reconciliations and deletions started
    MaxErrors,      \* bound: calls to Elasticsearch that fail
    MaxAborts,      \* bound: requests that die half way
    MaxLosses       \* bound: documents Elasticsearch loses

ASSUME ChunksAssumption == Chunks # {} /\ Chunks \cap Summaries = {}
ASSUME MissingRaisesAssumption == MissingRaises \in BOOLEAN
ASSUME RetainAssumption == Retain \in Nat \ {0}
ASSUME MaxAttemptsAssumption == MaxAttempts \in Nat \ {0}
ASSUME BoundsAssumption ==
    /\ MaxIngests \in Nat \ {0} /\ MaxUpkeep \in Nat
    /\ MaxErrors \in Nat /\ MaxAborts \in Nat /\ MaxLosses \in Nat

VARIABLES
    exists,     \* the kb_file row is there
    active,     \* its four active_*_version columns
    rows,       \* ids of the kb_chunk and kb_summary_doc rows, every version
    shown,      \* the kb_chunk rows with available = 1
    versions,   \* doc_version of the kb_version rows
    outbox,     \* the kb_outbox rows with published_at IS NULL
    es,         \* the index: what it holds under each document id
    pc,         \* where each worker's request is
    job,        \* the local variables of that request
    dr,         \* the local variables of the drain it is in
    ingests,    \* ingests started so far
    upkeep,     \* collections, reconciliations and deletions started so far
    faults,     \* faults so far, of each kind
    activated   \* history: the versions whose flip has committed

pgVars == <<exists, active, rows, shown, versions>>
reqVars == <<pc, job, dr>>
histVars == <<ingests, upkeep, activated>>
vars == <<pgVars, outbox, es, reqVars, histVars, faults>>

---------------------------------------------------------------------------
Versions == 1 .. MaxIngests

(* Enough for two transactions of each ingest and one of each other.      *)
Ticks == 1 .. 2 * MaxIngests + MaxUpkeep
Pointers == {"doc", "chunk", "summary", "anchor"}

(* A chunk's id is a function of the file, the version and its order, so   *)
(* an ingest that reuses a version number produces it again.  A summary's  *)
(* id is drawn afresh by each ingest: the third component is the number of *)
(* the ingest that drew it.                                                *)
ChunkDocs == Versions \X Chunks \X {0}
SummaryDocs == Versions \X Summaries \X Versions
Docs == ChunkDocs \cup SummaryDocs

VersionOf(d) == d[1]
NewDocs(v, n) == ({v} \X Chunks \X {0}) \cup ({v} \X Summaries \X {n})

(* What the index can hold under an id.  The in-memory index answers a get *)
(* of a missing id with an empty source, and writing that back leaves a    *)
(* document with nothing but available_int: a ghost.                       *)
EsState == {"absent", "hidden", "visible", "ghostHidden", "ghostVisible"}

IndexedAs(available) == IF available = 1 THEN "visible" ELSE "hidden"

(* The source read as s, written back with available_int changed.          *)
WithAvailable(s, available) ==
    IF s \in {"hidden", "visible"}
      THEN IndexedAs(available)
      ELSE IF available = 1 THEN "ghostVisible" ELSE "ghostHidden"

(* An outbox row.  An index row names one document, whose source carries   *)
(* available_int; a set_available row carries the value to set; a delete   *)
(* row has no such value (0).                                              *)
Event == [at: Ticks \cup {0}, type: {"index", "set_available", "delete"},
          docs: SUBSET Docs, available: {0, 1}, attempts: 0 .. MaxAttempts]

IndexEvent(t, d, a) == [at |-> t, type |-> "index", docs |-> {d},
                        available |-> a, attempts |-> 0]
SetEvent(t, ds, a) == [at |-> t, type |-> "set_available", docs |-> ds,
                       available |-> a, attempts |-> 0]
DeleteEvent(t, ds) == [at |-> t, type |-> "delete", docs |-> ds,
                       available |-> 0, attempts |-> 0]

(* The code guards every multi-document insert with "if ids:".             *)
IfAny(ds, e) == IF ds = {} THEN {} ELSE {e}

(* One table row, whatever the attempts a reader saw in it.                *)
SameRow(e, f) == [e EXCEPT !.attempts = 0] = [f EXCEPT !.attempts = 0]

---------------------------------------------------------------------------
(* Locals of a request: the version it works for, the ids it acts for, the *)
(* ids it has read from PostgreSQL, the tick its transaction began at (0:  *)
(* none), and for a reconcile the outbox rows it is about to write.        *)
Job == [ver: 0 .. MaxIngests, own: SUBSET Docs, known: SUBSET Docs,
        at: Ticks \cup {0}, plan: SUBSET Event]
NoJob == [ver |-> 0, own |-> {}, known |-> {}, at |-> 0, plan |-> {}]

(* Locals of a drain: the rows still to publish, the one being published   *)
(* with the ids of it still to do, the source read for the id being        *)
(* modified, whether the row is going well, the uncommitted UPDATEs, and   *)
(* where the request goes on after the drain.                              *)
Drain == [todo: SUBSET Event, cur: SUBSET Event, left: SUBSET Docs,
          got: SUBSET (Docs \X EsState), ok: BOOLEAN,
          done: SUBSET Event, failed: SUBSET Event,
          then: {"barrier", "idle"}]
NoDrain == [todo |-> {}, cur |-> {}, left |-> {}, got |-> {}, ok |-> TRUE,
            done |-> {}, failed |-> {}, then |-> "idle"]

(* created_at values nobody may take any more: rows of the table, rows a   *)
(* drain still holds, open transactions.  Fresh is the next one.           *)
TicksInUse ==
    {e.at : e \in outbox}
      \cup UNION {{e.at : e \in dr[w].todo \cup dr[w].cur
                                  \cup dr[w].done \cup dr[w].failed} : w \in Workers}
      \cup {job[w].at : w \in Workers}
IsNow(t) ==
    /\ \A u \in TicksInUse : u < t
    /\ \A s \in Ticks : (\A u \in TicksInUse : u < s) => t <= s

(* relay.pending_count: rows not yet published, failed ones included.      *)
PendingCount == Cardinality(outbox)

FaultKinds == {"error", "abort", "loss"}
FaultBound(k) == CASE k = "error" -> MaxErrors
                   [] k = "abort" -> MaxAborts
                   [] k = "loss"  -> MaxLosses
Fault(k) ==
    /\ faults[k] < FaultBound(k)
    /\ faults' = [faults EXCEPT ![k] = @ + 1]

StartRequest(w, next, j) ==
    /\ pc[w] = "idle"
    /\ pc' = [pc EXCEPT ![w] = next]
    /\ job' = [job EXCEPT ![w] = j]
    /\ UNCHANGED dr

(* The request returns or raises: its thread goes back to the pool.        *)
EndRequest(w) ==
    /\ pc' = [pc EXCEPT ![w] = "idle"]
    /\ job' = [job EXCEPT ![w] = NoJob]
    /\ dr' = [dr EXCEPT ![w] = NoDrain]

StartUpkeep(w, next, j) ==
    /\ upkeep < MaxUpkeep
    /\ upkeep' = upkeep + 1
    /\ StartRequest(w, next, j)
    /\ UNCHANGED <<ingests, activated>>

GoTo(w, next, j) ==
    /\ pc' = [pc EXCEPT ![w] = next]
    /\ job' = [job EXCEPT ![w] = j]
    /\ UNCHANGED dr

(* The request calls relay.drain and goes on with "then".                  *)
CallDrain(w, then, j) ==
    /\ pc' = [pc EXCEPT ![w] = "drain"]
    /\ job' = [job EXCEPT ![w] = j]
    /\ dr' = [dr EXCEPT ![w] = [NoDrain EXCEPT !.then = then]]
=============================================================================
