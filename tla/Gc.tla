--------------------------------- MODULE Gc ---------------------------------
(***************************************************************************)
(* indexing/gc.py, purge_versions with dryRun = false, for the file: under *)
(* an advisory lock that only this function takes, and with an outbox that *)
(* is empty when looked at, delete the versions below the retention window *)
(* and queue the deletion of their documents.                              *)
(***************************************************************************)
EXTENDS Relay

CONSTANT Collectors   \* the workers that serve POST /v1/admin/gc
ASSUME CollectorsAssumption == Collectors \subseteq Workers

(* pg_try_advisory_xact_lock: held to the end of the transaction.  A       *)
(* request that finds it taken, or rows unpublished, skips the file.       *)
AdvisoryLockFree == \A v \in Workers : pc[v] # "gcDelete"

(* pending_count has a connection of its own: what it sees may change      *)
(* before the row of the file is locked.                                   *)
GcBegin(w) ==
    /\ w \in Collectors
    /\ exists
    /\ AdvisoryLockFree
    /\ PendingCount = 0
    /\ \E t \in Ticks :
          /\ IsNow(t)
          /\ StartUpkeep(w, "gcDelete", [NoJob EXCEPT !.at = t])
    /\ UNCHANGED <<pgVars, outbox, es, faults>>

LockstepOk == \A p \in Pointers : active[p] = active["doc"]

(* Mutant: the window is one version too narrow.                           *)
DoomedOffByOne == {d \in rows : VersionOf(d) + Retain <= active["chunk"] + 1}
Doomed == {d \in rows : VersionOf(d) + Retain <= active["chunk"]}

(* Mutant: the row of the active version goes with the older ones.         *)
VersionsKeptOffByOne == {v \in versions : v + Retain > active["chunk"] + 1}
VersionsKept == {v \in versions : v + Retain > active["chunk"]}

(* threshold = active - retain + 1 is above 1.                             *)
GcApplies == exists /\ LockstepOk /\ active["chunk"] > Retain

(* SELECT ... FOR UPDATE, the deletes and the outbox row, committed.       *)
GcDelete(w) ==
    /\ pc[w] = "gcDelete"
    /\ GcApplies
    /\ rows' = rows \ Doomed
    /\ shown' = shown \ Doomed
    /\ versions' = VersionsKept
    /\ outbox' = outbox \cup IfAny(Doomed, DeleteEvent(job[w].at, Doomed))
    /\ CallDrain(w, "idle", NoJob)
    /\ UNCHANGED <<exists, active, es, histVars, faults>>

GcNothing(w) ==
    /\ pc[w] = "gcDelete"
    /\ ~GcApplies
    /\ EndRequest(w)
    /\ UNCHANGED <<pgVars, outbox, es, histVars, faults>>

GcStep(w) == GcDelete(w) \/ GcNothing(w)
=============================================================================
