------------------------------- MODULE Ingest -------------------------------
(***************************************************************************)
(* ingest/pipeline.py, ingest_file: stage a new version of the file, drain *)
(* the outbox, check the barrier, flip the file to the version, drain      *)
(* again.  It takes no lock over the whole: several ingests of one file    *)
(* may run at a time, and maintenance may run between any two steps.       *)
(***************************************************************************)
EXTENDS Relay

CONSTANT Ingesters   \* the workers that serve uploads and re-parses
ASSUME IngestersAssumption == Ingesters \subseteq Workers

(* Mutant: the number is one too high.                                     *)
IsNextVersionSkips(v) ==
    /\ \A u \in versions : u < v
    /\ v = 2 \/ v - 2 \in versions

(* coalesce(max(doc_version), 0) + 1                                       *)
IsNextVersion(v) ==
    /\ \A u \in versions : u < v
    /\ v = 1 \/ v - 1 \in versions

(* Mutant: the sources start with available_int = 1.                       *)
StagedEventsVisible(t, docs) == {IndexEvent(t, d, 1) : d \in docs}

(* One outbox row per new document; the sources of chunks and summaries    *)
(* both start with available_int = 0.                                      *)
StagedEvents(t, docs) == {IndexEvent(t, d, 0) : d \in docs}

(* A request for a file that is gone raises at once and changes nothing.   *)
IngestStart(w) ==
    /\ w \in Ingesters
    /\ ingests < MaxIngests
    /\ exists
    /\ ingests' = ingests + 1
    /\ \E v \in Versions :
          /\ IsNextVersion(v)
          /\ StartRequest(w, "parse",
                [NoJob EXCEPT !.ver = v, !.own = NewDocs(v, ingests + 1)])
    /\ UNCHANGED <<pgVars, outbox, es, upkeep, activated, faults>>

(* Transaction A, after minutes of parsing and embedding: the rows, hidden,*)
(* the version, and one outbox row per document.  A primary key that is    *)
(* taken, or a file deleted meanwhile, makes it fail as a whole.           *)
Stage(w) ==
    /\ pc[w] = "parse"
    /\ exists
    /\ job[w].own \cap rows = {}
    /\ \E t \in Ticks :
          /\ IsNow(t)
          /\ outbox' = outbox \cup StagedEvents(t, job[w].own)
    /\ rows' = rows \cup job[w].own
    /\ versions' = versions \cup {job[w].ver}
    /\ CallDrain(w, "barrier", job[w])
    /\ UNCHANGED <<exists, active, shown, es, histVars, faults>>

StageFails(w) ==
    /\ pc[w] = "parse"
    /\ ~exists \/ job[w].own \cap rows # {}
    /\ EndRequest(w)
    /\ UNCHANGED <<pgVars, outbox, es, histVars, faults>>

(* Mutant: the flip goes ahead whatever is left to publish.                *)
BarrierPassAlways(w) ==
    /\ pc[w] = "barrier"
    /\ GoTo(w, "flip", job[w])
    /\ UNCHANGED <<pgVars, outbox, es, histVars, faults>>

(* The drain barrier.                                                      *)
BarrierPass(w) ==
    /\ pc[w] = "barrier"
    /\ PendingCount = 0
    /\ GoTo(w, "flip", job[w])
    /\ UNCHANGED <<pgVars, outbox, es, histVars, faults>>

(* Mutant: the barrier waits for the outbox to empty instead of raising.   *)
BarrierFailWaits(w) == FALSE

BarrierFail(w) ==
    /\ pc[w] = "barrier"
    /\ PendingCount > 0
    /\ EndRequest(w)
    /\ UNCHANGED <<pgVars, outbox, es, histVars, faults>>

(* Transaction B begins by reading the ids of the older versions.          *)
FlipBegin(w) ==
    /\ pc[w] = "flip"
    /\ \E t \in Ticks :
          /\ IsNow(t)
          /\ GoTo(w, "flipping",
                [job[w] EXCEPT !.at = t,
                               !.known = {d \in rows : VersionOf(d) < job[w].ver}])
    /\ UNCHANGED <<pgVars, outbox, es, histVars, faults>>

(* Mutant: the older versions are not turned off.                          *)
ShownAfterFlipOldKept(v) == {d \in rows \cap ChunkDocs : VersionOf(d) = v} \cup shown

(* The rows with available = 1 after the two UPDATEs of kb_chunk: those of *)
(* version v on, those below it off, those above it as they were.          *)
ShownAfterFlip(v) ==
    {d \in rows \cap ChunkDocs : VersionOf(d) = v} \cup {d \in shown : VersionOf(d) > v}

(* It goes on to repoint the file, if there still is one, and to queue the *)
(* change of available_int of the new documents and of the old ones.       *)
Flip(w) ==
    /\ pc[w] = "flipping"
    /\ LET v == job[w].ver IN
          /\ active' = IF exists THEN [p \in Pointers |-> v] ELSE active
          /\ shown' = ShownAfterFlip(v)
          /\ activated' = activated \cup {v}
          /\ outbox' = outbox \cup {SetEvent(job[w].at, job[w].own, 1)}
                              \cup IfAny(job[w].known, SetEvent(job[w].at, job[w].known, 0))
    /\ CallDrain(w, "idle", NoJob)
    /\ UNCHANGED <<exists, rows, versions, es, ingests, upkeep, faults>>

IngestStep(w) ==
    \/ Stage(w) \/ StageFails(w)
    \/ BarrierPass(w) \/ BarrierFail(w)
    \/ FlipBegin(w) \/ Flip(w)
=============================================================================
