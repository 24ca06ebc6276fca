----------------------------- MODULE Reconcile ------------------------------
(***************************************************************************)
(* indexing/reconcile.py, reconcile with dryRun = false, for the file:     *)
(* load its rows, compare them with the index, queue the repairs.  No lock *)
(* and no look at the outbox: the comparison is with an index that drains  *)
(* are changing, the repairs are of what it found then.                    *)
(***************************************************************************)
EXTENDS Relay

CONSTANT Reconcilers   \* the workers that serve POST /v1/admin/reconcile
ASSUME ReconcilersAssumption == Reconcilers \subseteq Workers

(* Mutant: a version newer than the active one counts as active.           *)
ActiveDocsAndNewer == {d \in rows : VersionOf(d) >= active["chunk"]}

ActiveDocs ==
    {d \in rows \cap ChunkDocs : VersionOf(d) = active["chunk"]}
      \cup {d \in rows \cap SummaryDocs : VersionOf(d) = active["summary"]}

ReconcileLoad(w) ==
    /\ w \in Reconcilers
    /\ exists
    /\ StartUpkeep(w, "classify", [NoJob EXCEPT !.own = ActiveDocs, !.known = rows])
    /\ UNCHANGED <<pgVars, outbox, es, faults>>

(* What _es_get makes of the answer for d: any failure counts as missing,  *)
(* and a chunk without its version counts as drifted.                      *)
Seen(d, unread) == IF d \in unread THEN "absent" ELSE es[d]
Republish(own, unread) ==
    {d \in own : \/ Seen(d, unread) = "absent"
                 \/ d \in ChunkDocs /\ Seen(d, unread) \in {"ghostHidden", "ghostVisible"}}
AvailDrift(own, unread) ==
    {d \in own \ Republish(own, unread) : Seen(d, unread) \in {"hidden", "ghostHidden"}}

(* The scan: visible documents of this file that are not active.  A ghost  *)
(* has no file_id and is passed over.                                      *)
Leaked(own) == {d \in Docs \ own : es[d] = "visible"}

(* Mutant: a retired document that leaks is deleted like an orphan.        *)
RepairsDeleteRetired(own, known, unread) ==
    {IndexEvent(0, d, 1) : d \in Republish(own, unread)}
      \cup IfAny(AvailDrift(own, unread), SetEvent(0, AvailDrift(own, unread), 1))
      \cup IfAny(Leaked(own), DeleteEvent(0, Leaked(own)))

Repairs(own, known, unread) ==
    {IndexEvent(0, d, 1) : d \in Republish(own, unread)}
      \cup IfAny(AvailDrift(own, unread), SetEvent(0, AvailDrift(own, unread), 1))
      \cup IfAny(Leaked(own) \cap known, SetEvent(0, Leaked(own) \cap known, 0))
      \cup IfAny(Leaked(own) \ known, DeleteEvent(0, Leaked(own) \ known))

(* The reads of the index, as one step.                                    *)
Classify(w) ==
    /\ pc[w] = "classify"
    /\ \E unread \in SUBSET job[w].own :
          /\ IF unread = {} THEN UNCHANGED faults ELSE Fault("error")
          /\ GoTo(w, "embed",
                [job[w] EXCEPT !.plan = Repairs(job[w].own, job[w].known, unread)])
    /\ UNCHANGED <<pgVars, outbox, es, histVars>>

(* The texts to republish are embedded; then the transaction begins.       *)
RepairBegin(w) ==
    /\ pc[w] = "embed"
    /\ \E t \in Ticks :
          /\ IsNow(t)
          /\ GoTo(w, "repair", [job[w] EXCEPT !.at = t])
    /\ UNCHANGED <<pgVars, outbox, es, histVars, faults>>

Repair(w) ==
    /\ pc[w] = "repair"
    /\ outbox' = outbox \cup {[e EXCEPT !.at = job[w].at] : e \in job[w].plan}
    /\ CallDrain(w, "idle", NoJob)
    /\ UNCHANGED <<pgVars, es, histVars, faults>>

ReconcileStep(w) == Classify(w) \/ RepairBegin(w) \/ Repair(w)
=============================================================================
