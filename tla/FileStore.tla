----------------------------- MODULE FileStore ------------------------------
(***************************************************************************)
(* indexing/file_store.py, purge_file: delete the file with everything     *)
(* that hangs on it, queue the deletion of its documents, drain once.      *)
(***************************************************************************)
EXTENDS Relay

CONSTANT Purgers   \* the workers that serve deletions of the file
ASSUME PurgersAssumption == Purgers \subseteq Workers

(* The transaction begins and collects the ids of the rows there are.      *)
PurgeBegin(w) ==
    /\ w \in Purgers
    /\ exists
    /\ \E t \in Ticks :
          /\ IsNow(t)
          /\ StartUpkeep(w, "purge", [NoJob EXCEPT !.at = t, !.known = rows])
    /\ UNCHANGED <<pgVars, outbox, es, faults>>

(* DELETE FROM kb_file cascades to the rows there are by now; it is no     *)
(* error when another request has deleted the file.                        *)
PurgeCommit(w) ==
    /\ pc[w] = "purge"
    /\ exists' = FALSE
    /\ rows' = {} /\ shown' = {} /\ versions' = {}
    /\ outbox' = outbox \cup IfAny(job[w].known, DeleteEvent(job[w].at, job[w].known))
    /\ CallDrain(w, "idle", NoJob)
    /\ UNCHANGED <<active, es, histVars, faults>>
=============================================================================
