------------------------------- MODULE Relay -------------------------------
(***************************************************************************)
(* indexing/relay.py: drain publishes the unpublished outbox rows of the   *)
(* file to the index, in created_at order, one call to the index at a      *)
(* time.  One transaction spans the whole drain, so that the UPDATEs of    *)
(* the rows become visible together at its end, while each call to the     *)
(* index takes effect at once.                                             *)
(***************************************************************************)
EXTENDS Store

Draining(w) == pc[w] = "publish"

(* SELECT ... WHERE published_at IS NULL: a snapshot that takes no lock.   *)
DrainSelect(w) ==
    /\ pc[w] = "drain"
    /\ pc' = [pc EXCEPT ![w] = "publish"]
    /\ dr' = [dr EXCEPT ![w].todo = outbox]
    /\ UNCHANGED <<pgVars, outbox, es, job, histVars, faults>>

(* The row being published, or those that may come next: ORDER BY          *)
(* created_at says nothing of rows with equal values.                      *)
Turn(w) ==
    IF dr[w].cur # {} THEN dr[w].cur
    ELSE {r \in dr[w].todo : \A s \in dr[w].todo : r.at <= s.at}
Left(w, r) == IF dr[w].cur # {} THEN dr[w].left ELSE r.docs

(* One id of row r is done; g is the source in hand after that.            *)
Advance(w, r, left, g) ==
    dr' = [dr EXCEPT ![w].cur = {r}, ![w].left = left, ![w].got = g]

(* The call raised: _publish gives the row up.                             *)
GiveUp(w, r) ==
    dr' = [dr EXCEPT ![w].cur = {r}, ![w].left = {}, ![w].got = {}, ![w].ok = FALSE]

PublishIndex(w) ==
    /\ Draining(w)
    /\ \E r \in Turn(w) : \E d \in Left(w, r) :
          /\ r.type = "index"
          /\ es' = [es EXCEPT ![d] = IndexedAs(r.available)]
          /\ Advance(w, r, Left(w, r) \ {d}, {})
    /\ UNCHANGED <<pgVars, outbox, pc, job, histVars, faults>>

(* set_available reads the source of an id ...                             *)
PublishGet(w) ==
    /\ Draining(w)
    /\ dr[w].got = {}
    /\ \E r \in Turn(w) : \E d \in Left(w, r) :
          /\ r.type = "set_available"
          /\ es[d] # "absent" \/ ~MissingRaises
          /\ Advance(w, r, Left(w, r), {<<d, es[d]>>})
    /\ UNCHANGED <<pgVars, outbox, es, pc, job, histVars, faults>>

(* ... and in another call writes it back, whatever happened in between.   *)
PublishPut(w) ==
    /\ Draining(w)
    /\ \E r \in dr[w].cur, g \in dr[w].got :
          /\ es' = [es EXCEPT ![g[1]] = WithAvailable(g[2], r.available)]
          /\ Advance(w, r, dr[w].left \ {g[1]}, {})
    /\ UNCHANGED <<pgVars, outbox, pc, job, histVars, faults>>

PublishDelete(w) ==
    /\ Draining(w)
    /\ \E r \in Turn(w) : \E d \in Left(w, r) :
          /\ r.type = "delete"
          /\ es[d] # "absent" \/ ~MissingRaises
          /\ es' = [es EXCEPT ![d] = "absent"]
          /\ Advance(w, r, Left(w, r) \ {d}, {})
    /\ UNCHANGED <<pgVars, outbox, pc, job, histVars, faults>>

(* Elasticsearch answers a get or a delete of a missing id with 404, which *)
(* its client raises as NotFoundError.                                     *)
PublishMissing(w) ==
    /\ Draining(w)
    /\ MissingRaises
    /\ dr[w].got = {}
    /\ \E r \in Turn(w) : \E d \in Left(w, r) :
          /\ r.type \in {"set_available", "delete"}
          /\ es[d] = "absent"
          /\ GiveUp(w, r)
    /\ UNCHANGED <<pgVars, outbox, es, pc, job, histVars, faults>>

(* What a call that reports an error may have done all the same: a write   *)
(* whose answer was lost has taken effect.                                 *)
Applied(w, r, d) ==
    CASE r.type = "index" -> IndexedAs(r.available)
      [] r.type = "delete" -> "absent"
      [] r.type = "set_available" ->
            IF dr[w].got = {} THEN es[d]
            ELSE LET g == CHOOSE g \in dr[w].got : TRUE
                 IN  IF g[1] = d THEN WithAvailable(g[2], r.available) ELSE es[d]

PublishError(w) ==
    /\ Draining(w)
    /\ Fault("error")
    /\ \E r \in Turn(w) : \E d \in Left(w, r) :
          /\ es' \in {es, [es EXCEPT ![d] = Applied(w, r, d)]}
          /\ GiveUp(w, r)
    /\ UNCHANGED <<pgVars, outbox, pc, job, histVars>>

(* Drain v has updated row r and not committed: it holds the row's lock.   *)
Holds(v, r) == \E f \in dr[v].done \cup dr[v].failed : SameRow(f, r)

(* Drain w is at the UPDATE of row r.                                      *)
AtUpdate(w, r) == Draining(w) /\ r \in dr[w].cur /\ dr[w].left = {}

(* The UPDATE of the row just published or given up.                       *)
DrainMark(w) ==
    /\ \E r \in dr[w].cur :
          /\ AtUpdate(w, r)
          /\ \A v \in Workers \ {w} : ~Holds(v, r)
          /\ dr' = [dr EXCEPT ![w].todo = @ \ {r}, ![w].cur = {}, ![w].ok = TRUE,
                              ![w].done = IF dr[w].ok THEN @ \cup {r} ELSE @,
                              ![w].failed = IF dr[w].ok THEN @ ELSE @ \cup {r}]
    /\ UNCHANGED <<pgVars, outbox, es, pc, job, histVars, faults>>

(* Two drains each at the UPDATE of a row the other holds: PostgreSQL      *)
(* aborts one, whose request raises.                                       *)
DrainDeadlock(w) ==
    /\ \E v \in Workers \ {w} : \E r \in dr[w].cur, s \in dr[v].cur :
          /\ AtUpdate(w, r) /\ Holds(v, r)
          /\ AtUpdate(v, s) /\ Holds(w, s)
    /\ EndRequest(w)
    /\ UNCHANGED <<pgVars, outbox, es, histVars, faults>>

(* attempts + 1, from the value the drain selected; the status it gives    *)
(* only distinguishes counts below max_attempts from the others.           *)
Retried(r) == [r EXCEPT !.attempts = IF @ < MaxAttempts THEN @ + 1 ELSE @]

(* Mutant: a row that failed is dropped instead of counted.                *)
OutboxAfterDropped(w) == {r \in outbox : ~Holds(w, r)}

(* The table after the UPDATEs of drain w: published rows are no longer    *)
(* unpublished, failed ones have their attempts counted.                   *)
OutboxAfter(w) ==
    {r \in outbox : ~Holds(w, r)}
      \cup {Retried(f) : f \in {f \in dr[w].failed : \E r \in outbox : SameRow(f, r)}}

DrainCommit(w) ==
    /\ Draining(w)
    /\ dr[w].todo = {} /\ dr[w].cur = {}
    /\ outbox' = OutboxAfter(w)
    /\ IF dr[w].then = "idle" THEN EndRequest(w)
       ELSE /\ pc' = [pc EXCEPT ![w] = dr[w].then]
            /\ dr' = [dr EXCEPT ![w] = NoDrain]
            /\ UNCHANGED job
    /\ UNCHANGED <<pgVars, es, histVars, faults>>

DrainStep(w) ==
    \/ DrainSelect(w)
    \/ PublishIndex(w) \/ PublishGet(w) \/ PublishPut(w)
    \/ PublishDelete(w) \/ PublishMissing(w)
    \/ DrainMark(w) \/ DrainDeadlock(w) \/ DrainCommit(w)
=============================================================================
