-------------------------------- MODULE Audit --------------------------------
(***************************************************************************)
(* The audit log and its hash chain (audit.py): requests append rows in    *)
(* transactions of their own or of their caller (gc.py, reconcile.py) and  *)
(* never wait for one another, a verification reads the chain back, and an *)
(* anchor records its tail.                                                *)
(*                                                                         *)
(* An append is three statements of one READ COMMITTED transaction: try    *)
(* the tenant's advisory lock, read the tail if it was free, insert.  The  *)
(* row becomes visible, and the lock free, when the transaction ends.      *)
(*                                                                         *)
(* A hash is the sequence of the payloads it commits to, newest first:     *)
(* SHA-256 over the previous hash and the payload, taken without           *)
(* collisions.  The empty sequence is SQL's NULL.                          *)
(***************************************************************************)
EXTENDS Integers, FiniteSets, FiniteSetsExt, Sequences

CONSTANTS
    Writers,     \* requests and jobs that append rows
    Tenants,     \* the chains: a tenant's, or that of the rows without a tenant
    Payloads,    \* what rows say, without id and created_at
    MaxAppends   \* bound: appends started

ASSUME AuditAssumption == Tenants # {} /\ Payloads # {} /\ MaxAppends \in Nat

VARIABLES
    log,         \* kb_audit_log: the committed rows
    lastId,      \* the sequence behind kb_audit_log.id
    txn,         \* the transaction of each writer
    appends,     \* appends started so far
    anchors      \* kb_audit_anchor

auditVars == <<log, lastId, txn, appends, anchors>>

---------------------------------------------------------------------------
Null == <<>>
RowHash(prev, payload) == <<payload>> \o prev

(* after is not a column: the id of the row whose hash prev is, 0 if none. *)
Row(id, t, payload, prev, after, hash) ==
    [id |-> id, tenant |-> t, payload |-> payload, prev |-> prev, after |-> after, hash |-> hash]

(* A row from before the columns prev_hash and row_hash were added.        *)
OldRow(t, payload) == Row(0, t, payload, Null, 0, Null)

Chain(t) == {r \in log : r.tenant = t}
Hashed(t) == {r \in Chain(t) : r.hash # Null}
Newest(S) == CHOOSE r \in S : \A q \in S : q.id <= r.id

(* at: "idle", "locked" and "missed" (the lock was free or not), "read"    *)
(* (the tail is known), "inserted" (row is in, not committed).             *)
Begun(at, t, payload) == [at |-> at, tenant |-> t, payload |-> payload, prev |-> Null,
                          after |-> 0, id |-> 0, holds |-> at = "locked"]
Idle == Begun("idle", CHOOSE t \in Tenants : TRUE, CHOOSE p \in Payloads : TRUE)

Init ==
    /\ \E t \in Tenants, p \in Payloads : log \in {{}, {OldRow(t, p)}}
    /\ lastId = 0
    /\ txn = [w \in Writers |-> Idle]
    /\ appends = 0
    /\ anchors = {}

---------------------------------------------------------------------------
(* append_audit                                                            *)

LockFree(t) == \A v \in Writers : ~(txn[v].holds /\ txn[v].tenant = t)

(* Mutant: the lock is taken whoever holds it.                             *)
TryLockAlways(w, t, p) ==
    /\ txn[w].at = "idle" /\ appends < MaxAppends
    /\ txn' = [txn EXCEPT ![w] = Begun("locked", t, p)]
    /\ appends' = appends + 1
    /\ UNCHANGED <<log, lastId, anchors>>

TryLock(w, t, p) ==
    /\ txn[w].at = "idle" /\ appends < MaxAppends
    /\ txn' = [txn EXCEPT ![w] = Begun(IF LockFree(t) THEN "locked" ELSE "missed", t, p)]
    /\ appends' = appends + 1
    /\ UNCHANGED <<log, lastId, anchors>>

(* Mutant: the tail of the log, whoever the tenant is.                     *)
ReadTailOfAll(w) ==
    /\ txn[w].at = "locked"
    /\ LET rows == UNION {Hashed(t) : t \in Tenants}
       IN txn' = IF rows = {}
                 THEN [txn EXCEPT ![w].at = "read"]
                 ELSE [txn EXCEPT ![w].at = "read", ![w].prev = Newest(rows).hash, ![w].after = Newest(rows).id]
    /\ UNCHANGED <<log, lastId, appends, anchors>>

ReadTail(w) ==
    /\ txn[w].at = "locked"
    /\ LET rows == Hashed(txn[w].tenant)
       IN txn' = IF rows = {}
                 THEN [txn EXCEPT ![w].at = "read"]
                 ELSE [txn EXCEPT ![w].at = "read", ![w].prev = Newest(rows).hash, ![w].after = Newest(rows).id]
    /\ UNCHANGED <<log, lastId, appends, anchors>>

(* nextval is not rolled back: ids are drawn in order, not committed so.   *)
Insert(w) ==
    /\ txn[w].at \in {"read", "missed"}
    /\ lastId' = lastId + 1
    /\ txn' = [txn EXCEPT ![w].at = "inserted", ![w].id = lastId + 1]
    /\ UNCHANGED <<log, appends, anchors>>

Commit(w) ==
    LET x == txn[w] IN
    /\ x.at = "inserted"
    /\ log' = log \cup {Row(x.id, x.tenant, x.payload, x.prev, x.after, RowHash(x.prev, x.payload))}
    /\ txn' = [txn EXCEPT ![w] = Idle]
    /\ UNCHANGED <<lastId, appends, anchors>>

(* An exception of the caller, a lost connection or the end of the         *)
(* process: the transaction is gone, and its lock with it.                 *)
Rollback(w) ==
    /\ txn[w].at # "idle"
    /\ txn' = [txn EXCEPT ![w] = Idle]
    /\ UNCHANGED <<log, lastId, appends, anchors>>

---------------------------------------------------------------------------
(* verify_audit_chain: one SELECT, then a pass over the rows by id         *)

Before(r, S) == {q \in S : q.id < r.id}

(* A row whose previous hash is not the hash of the row before it; nothing *)
(* is said after a row that has no hash.                                   *)
Breaks(S) == {r \in S : /\ r.hash # Null /\ r.prev # Null
                        /\ Before(r, S) # {}
                        /\ Newest(Before(r, S)).hash \notin {Null, r.prev}}

(* Mutant: a row that starts the chain again is no gap.                    *)
GapsUnhashedOnly(S) == {r \in S : r.hash = Null}

(* Rows without a hash, and rows that start the chain again.               *)
Gaps(S) == {r \in S : \/ r.hash = Null
                      \/ r.prev = Null /\ \E q \in Before(r, S) : q.hash # Null}

Mismatches(S) == {r \in S : r.hash # Null /\ r.hash # RowHash(r.prev, r.payload)}
Verified(S) == Mismatches(S) = {} /\ Breaks(S) = {}

---------------------------------------------------------------------------
(* anchor_audit                                                            *)

(* Mutant: rows without a hash are counted as well.                        *)
SnapshotOfAll(t) == [tenant |-> t, count |-> Cardinality(Chain(t)),
                     tail |-> Newest(Hashed(t)).id, root |-> Newest(Hashed(t)).hash]

Snapshot(t) == [tenant |-> t, count |-> Cardinality(Hashed(t)),
                tail |-> Newest(Hashed(t)).id, root |-> Newest(Hashed(t)).hash]

Anchor(t) ==
    /\ Hashed(t) # {}
    /\ anchors' = anchors \cup {Snapshot(t)}
    /\ UNCHANGED <<log, lastId, txn, appends>>

---------------------------------------------------------------------------
Next ==
    \/ \E w \in Writers :
          \/ \E t \in Tenants, p \in Payloads : TryLock(w, t, p)
          \/ ReadTail(w) \/ Insert(w) \/ Commit(w) \/ Rollback(w)
    \/ \E t \in Tenants : Anchor(t)

Spec == Init /\ [][Next]_auditVars

---------------------------------------------------------------------------
(* Types: rows, transactions and anchors are records of the tables'        *)
(* columns, and no row has an id that has not been drawn.                  *)
Ids == 0 .. lastId
Hashes == Seq(Payloads)

LogTypeOK ==
    /\ IsFiniteSet(log)
    /\ log \subseteq [id : Ids, tenant : Tenants, payload : Payloads,
                       prev : Hashes, after : Ids, hash : Hashes]
TxnTypeOK == txn \in [Writers -> [at : {"idle", "locked", "missed", "read", "inserted"},
                                  tenant : Tenants, payload : Payloads,
                                  prev : Hashes, after : Ids, id : Ids, holds : BOOLEAN]]
TypeOK ==
    /\ lastId \in Nat /\ appends \in 0 .. MaxAppends
    /\ LogTypeOK /\ TxnTypeOK
    /\ anchors \subseteq [tenant : Tenants, count : Nat, tail : Ids, root : Hashes]

(* Rows are linked to committed rows of their own tenant that were there   *)
(* before them: nobody continues a row that is later rolled back.          *)
LinksHold ==
    \A r \in log : r.after # 0 =>
        \E q \in log : /\ q.id = r.after /\ q.id < r.id
                       /\ q.tenant = r.tenant /\ q.hash = r.prev

(* The chain never forks: no two rows of a tenant continue the same row,   *)
(* however the transactions overlap (what the advisory lock is for).       *)
NoFork == \A r, q \in log : r.after # 0 /\ r.after = q.after => r = q

(* What a row jumps over, between the row it continues and itself, are     *)
(* rows written without the lock: they continue nothing.                   *)
SkippedAreRestarts ==
    \A r, q \in log :
        /\ r.tenant = q.tenant /\ r.after # 0
        /\ r.after < q.id /\ q.id < r.id
        => q.prev = Null

(* A verification of rows nobody has touched may fail (a row that missed   *)
(* the lock comes between a row and the one it continues), but never       *)
(* without a gap: a failure and no gap is a change from outside.           *)
FailuresComeWithGaps == \A t \in Tenants : ~Verified(Chain(t)) => Gaps(Chain(t)) # {}

(* While a chain has no gap, its anchors commit to all the rows they       *)
(* count, and no row has come in below them since.                         *)
GapFreeAnchorsCommit ==
    \A a \in anchors :
        Gaps(Hashed(a.tenant)) = {} =>
            /\ Len(a.root) = a.count
            /\ Cardinality({r \in Hashed(a.tenant) : r.id <= a.tail}) = a.count

---------------------------------------------------------------------------
(* What the proofs need besides.                                           *)

(* An id belongs to one row, or to one transaction that may still commit.  *)
IdsAreOwn ==
    /\ \A r, q \in log : r.id = q.id => r = q
    /\ \A w \in Writers : txn[w].at = "inserted" =>
          /\ \A r \in log : r.id # txn[w].id
          /\ \A v \in Writers : txn[v].at = "inserted" /\ txn[v].id = txn[w].id => v = w

LockIsExclusive ==
    \A v, w \in Writers :
        txn[v].holds /\ txn[w].holds /\ txn[v].tenant = txn[w].tenant => v = w

(* Rows continue a row or start the chain again, and have their hash.      *)
RowsWellFormed ==
    \A r \in log : /\ r.after = 0 => r.prev = Null
                   /\ r.hash # Null => r.hash = RowHash(r.prev, r.payload)
                   /\ IF r.id = 0 THEN r.hash = Null /\ r.after = 0 ELSE r.hash # Null

(* Only who holds the lock continues a row.                                *)
TxnsWellFormed ==
    \A w \in Writers :
        /\ txn[w].holds => txn[w].at \in {"locked", "read", "inserted"}
        /\ txn[w].at \in {"locked", "read"} => txn[w].holds
        /\ ~txn[w].holds \/ txn[w].at = "locked" => txn[w].after = 0
        /\ txn[w].after = 0 => txn[w].prev = Null
        /\ txn[w].at = "inserted" => txn[w].after < txn[w].id

(* Until its holder ends, what comes in above the tail starts again.       *)
TailIsKnown ==
    \A w \in Writers :
        txn[w].holds /\ txn[w].at \in {"read", "inserted"} =>
            /\ \A r \in log : r.tenant = txn[w].tenant /\ txn[w].after < r.id => r.after = 0
            /\ txn[w].after # 0 =>
                  \E q \in log : /\ q.id = txn[w].after /\ q.tenant = txn[w].tenant
                                 /\ q.hash = txn[w].prev

AuditInv == /\ TypeOK /\ IdsAreOwn /\ LockIsExclusive /\ RowsWellFormed /\ TxnsWellFormed
            /\ TailIsKnown /\ LinksHold /\ NoFork /\ SkippedAreRestarts
=============================================================================
