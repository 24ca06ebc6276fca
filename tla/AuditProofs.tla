----------------------------- MODULE AuditProofs -----------------------------
(***************************************************************************)
(* The audit chain's invariants hold for any number of writers, tenants,   *)
(* payloads and appends.                                                   *)
(***************************************************************************)
EXTENDS Audit, FiniteSetTheorems, SequenceTheorems, WellFoundedInduction, TLAPS

TxnRecords == [at : {"idle", "locked", "missed", "read", "inserted"},
               tenant : Tenants, payload : Payloads,
               prev : Hashes, after : Ids, id : Ids, holds : BOOLEAN]
RowRecords == [id : Ids, tenant : Tenants, payload : Payloads,
               prev : Hashes, after : Ids, hash : Hashes]

(* A set of numbers with an upper bound has a greatest element.            *)
LEMMA NumbersDescendFinitely ==
    \E R : IsWellFoundedOn(R, Nat) /\ \A a, b \in Nat : <<a, b>> \in R <=> a < b
BY NatLessThanWellFounded DEF OpToRel

LEMMA GreatestExists ==
    ASSUME NEW n \in Nat, NEW T \in SUBSET (0 .. n), T # {}
    PROVE  \E m \in T : \A k \in T : k <= m
<1> DEFINE D == {n - k : k \in T}
<1>1. \A k \in T : k \in Nat /\ n - k \in Nat /\ n - k \in D
      OBVIOUS
<1>2. D \subseteq Nat
      BY <1>1
<1>3. D # {}
      BY <1>1
<1>4. PICK R : IsWellFoundedOn(R, Nat) /\ \A a, b \in Nat : <<a, b>> \in R <=> a < b
      BY NumbersDescendFinitely
<1> HIDE DEF D
<1>5. PICK d \in D : \A e \in D : ~(<<e, d>> \in R)
  <2>1. IsWellFoundedOn(R, Nat)
        BY <1>4
  <2> QED BY ONLY <1>2, <1>3, <2>1, WFMin, Zenon
<1>6. PICK m \in T : d = n - m
      BY <1>5 DEF D
<1>7. ASSUME NEW k \in T PROVE k <= m
  <2>1. ~(n - k < n - m)
        BY <1>1, <1>4, <1>5, <1>6
  <2> QED BY <1>1, <2>1
<1> QED BY <1>7

LEMMA NewestIsGreatest ==
    ASSUME TypeOK, NEW S \in SUBSET log, S # {}
    PROVE  Newest(S) \in S /\ \A q \in S : q.id <= Newest(S).id
<1>1. {q.id : q \in S} \in SUBSET (0 .. lastId) /\ {q.id : q \in S} # {}
      BY DEF TypeOK, LogTypeOK, Ids
<1>2. PICK m \in {q.id : q \in S} : \A k \in {q.id : q \in S} : k <= m
      BY <1>1, GreatestExists DEF TypeOK
<1>3. \E r \in S : \A q \in S : q.id <= r.id
      BY <1>2
<1> QED BY <1>3 DEF Newest

LEMMA RowHashTyped ==
    ASSUME NEW prev \in Hashes, NEW p \in Payloads
    PROVE  RowHash(prev, p) \in Hashes /\ RowHash(prev, p) # Null
<1>1. <<p>> \in Seq(Payloads)
      OBVIOUS
<1>2. /\ <<p>> \o prev \in Seq(Payloads)
      /\ Len(<<p>> \o prev) = Len(<<p>>) + Len(prev)
      BY <1>1, ConcatProperties DEF Hashes
<1>3. Len(<<p>>) = 1 /\ Len(prev) \in Nat /\ Len(<<>>) = 0
      BY DEF Hashes
<1> QED BY <1>2, <1>3 DEF RowHash, Hashes, Null

LEMMA BegunTyped ==
    ASSUME TypeOK, NEW t \in Tenants, NEW p \in Payloads, NEW at \in {"idle", "locked", "missed"}
    PROVE  Begun(at, t, p) \in TxnRecords
BY DEF Begun, TxnRecords, Null, Hashes, Ids, TypeOK

LEMMA IdleTyped ==
    ASSUME TypeOK
    PROVE  Idle \in TxnRecords
BY BegunTyped, AuditAssumption DEF Idle

(* lastId only grows, so what was typed stays typed.                       *)
LEMMA TypesKept ==
    ASSUME TypeOK, lastId' \in Nat, lastId <= lastId'
    PROVE  /\ TxnRecords \subseteq TxnRecords' /\ RowRecords \subseteq RowRecords'
           /\ txn \in [Writers -> TxnRecords'] /\ log \subseteq RowRecords'
           /\ anchors \subseteq [tenant : Tenants, count : Nat, tail : Ids', root : Hashes]
<1>1. Ids \subseteq Ids'
      BY DEF Ids, TypeOK
<1>2. TxnRecords \subseteq TxnRecords' /\ RowRecords \subseteq RowRecords'
      BY <1>1 DEF TxnRecords, RowRecords, Hashes
<1>3. /\ txn \in [Writers -> TxnRecords] /\ log \subseteq RowRecords
      /\ anchors \subseteq [tenant : Tenants, count : Nat, tail : Ids, root : Hashes]
      BY DEF TypeOK, TxnTypeOK, LogTypeOK, TxnRecords, RowRecords
<1> QED BY <1>1, <1>2, <1>3

LEMMA TypeInit == Init => TypeOK
<1> SUFFICES ASSUME Init PROVE TypeOK
      OBVIOUS
<1>1. IsFiniteSet(log)
  <2>1. PICK t \in Tenants, p \in Payloads : log \in {{}, {OldRow(t, p)}}
        BY DEF Init
  <2>2. log \subseteq {} \cup {OldRow(t, p)}
        BY <2>1
  <2> QED BY <2>2, FS_EmptySet, FS_AddElement, FS_Subset
<1>2. log \subseteq RowRecords
  <2>1. PICK t \in Tenants, p \in Payloads : log \in {{}, {OldRow(t, p)}}
        BY DEF Init
  <2>2. OldRow(t, p) \in RowRecords
        BY DEF Init, OldRow, Row, RowRecords, Ids, Hashes, Null
  <2> QED BY <2>1, <2>2
<1>3. Idle \in TxnRecords
      BY AuditAssumption DEF Init, Idle, Begun, TxnRecords, Null, Hashes, Ids
<1> QED BY <1>1, <1>2, <1>3, AuditAssumption
        DEF Init, TypeOK, LogTypeOK, TxnTypeOK, RowRecords, TxnRecords

LEMMA TypeNext ==
    ASSUME TypeOK, [Next]_auditVars
    PROVE  TypeOK'
<1>1. ASSUME NEW w \in Writers, NEW t \in Tenants, NEW p \in Payloads, TryLock(w, t, p) PROVE TypeOK'
  <2>1. Begun(IF LockFree(t) THEN "locked" ELSE "missed", t, p) \in TxnRecords
        BY BegunTyped
  <2>2. appends' \in 0 .. MaxAppends
        BY <1>1, AuditAssumption DEF TryLock, TypeOK
  <2> QED BY <1>1, <2>1, <2>2 DEF TryLock, TypeOK, LogTypeOK, TxnTypeOK, TxnRecords, Ids
<1>2. ASSUME NEW w \in Writers, ReadTail(w) PROVE TypeOK'
  <2> DEFINE rows == Hashed(txn[w].tenant)
  <2>1. rows # {} => Newest(rows) \in RowRecords
        BY NewestIsGreatest DEF Hashed, Chain, TypeOK, LogTypeOK, RowRecords
  <2>2. txn' \in [Writers -> TxnRecords]
    <3>1. CASE rows = {}
      <4>1. txn' = [txn EXCEPT ![w] = [txn[w] EXCEPT !.at = "read"]]
            BY <1>2, <3>1 DEF ReadTail, TypeOK, TxnTypeOK
      <4> QED BY <4>1 DEF TypeOK, TxnTypeOK, TxnRecords
    <3>2. CASE rows # {}
      <4>1. txn' = [txn EXCEPT ![w] = [txn[w] EXCEPT !.at = "read", !.prev = Newest(rows).hash,
                                                     !.after = Newest(rows).id]]
            BY <1>2, <3>2 DEF ReadTail, TypeOK, TxnTypeOK
      <4>2. Newest(rows).hash \in Hashes /\ Newest(rows).id \in Ids
            BY <2>1, <3>2 DEF RowRecords
      <4> QED BY <4>1, <4>2 DEF TypeOK, TxnTypeOK, TxnRecords
    <3> QED BY <3>1, <3>2
  <2> QED BY <1>2, <2>2 DEF ReadTail, TypeOK, LogTypeOK, TxnTypeOK, TxnRecords, Ids
<1>3. ASSUME NEW w \in Writers, Insert(w) PROVE TypeOK'
  <2>1. lastId' \in Nat /\ lastId <= lastId' /\ lastId + 1 \in Ids'
        BY <1>3 DEF Insert, TypeOK, Ids
  <2>2. txn' \in [Writers -> TxnRecords']
    <3>1. txn \in [Writers -> TxnRecords']
          BY <2>1, TypesKept
    <3>2. [txn[w] EXCEPT !.at = "inserted", !.id = lastId + 1] \in TxnRecords'
          BY <2>1, <3>1 DEF TxnRecords
    <3>3. txn' = [txn EXCEPT ![w] = [txn[w] EXCEPT !.at = "inserted", !.id = lastId + 1]]
          BY <1>3, <3>1 DEF Insert
    <3> QED BY <3>1, <3>2, <3>3
  <2> QED BY <1>3, <2>1, <2>2, TypesKept
          DEF Insert, TypeOK, LogTypeOK, TxnTypeOK, TxnRecords, RowRecords
<1>4. ASSUME NEW w \in Writers, Commit(w) PROVE TypeOK'
  <2> DEFINE x == txn[w]
             r == Row(x.id, x.tenant, x.payload, x.prev, x.after, RowHash(x.prev, x.payload))
  <2>1. r \in RowRecords
        BY RowHashTyped DEF TypeOK, TxnTypeOK, Row, RowRecords
  <2>2. IsFiniteSet(log')
        BY <1>4, FS_AddElement DEF Commit, TypeOK, LogTypeOK
  <2> QED BY <1>4, <2>1, <2>2, IdleTyped
          DEF Commit, TypeOK, LogTypeOK, TxnTypeOK, TxnRecords, RowRecords, Ids
<1>5. ASSUME NEW w \in Writers, Rollback(w) PROVE TypeOK'
      BY <1>5, IdleTyped DEF Rollback, TypeOK, LogTypeOK, TxnTypeOK, TxnRecords, Ids
<1>6. ASSUME NEW t \in Tenants, Anchor(t) PROVE TypeOK'
  <2>1. Newest(Hashed(t)) \in RowRecords
        BY <1>6, NewestIsGreatest DEF Anchor, Hashed, Chain, TypeOK, LogTypeOK, RowRecords
  <2>2. Cardinality(Hashed(t)) \in Nat
        BY FS_Subset, FS_CardinalityType DEF Hashed, Chain, TypeOK, LogTypeOK
  <2>3. Snapshot(t) \in [tenant : Tenants, count : Nat, tail : Ids, root : Hashes]
        BY <2>1, <2>2 DEF Snapshot, RowRecords
  <2> QED BY <1>6, <2>3 DEF Anchor, TypeOK, LogTypeOK, TxnTypeOK, Ids
<1>7. CASE UNCHANGED auditVars
      BY <1>7 DEF auditVars, TypeOK, LogTypeOK, TxnTypeOK, Ids
<1> QED BY <1>1, <1>2, <1>3, <1>4, <1>5, <1>6, <1>7 DEF Next

(* Every reachable state is well typed: in particular no row and no anchor *)
(* has an id that the sequence has not handed out (audit.py:99).           *)
THEOREM AuditTypeCorrect == Spec => []TypeOK
BY TypeInit, TypeNext, PTL DEF Spec

---------------------------------------------------------------------------
(* The chain.                                                              *)
TxnInv == LockIsExclusive /\ TxnsWellFormed
RowInv == RowsWellFormed /\ LinksHold /\ NoFork /\ SkippedAreRestarts

LEMMA RowsKept ==
    ASSUME RowInv, UNCHANGED log
    PROVE  RowInv'
BY DEF RowInv, RowsWellFormed, LinksHold, NoFork, SkippedAreRestarts

(* A transaction that starts or ends knows no tail and has no id.          *)
LEMMA BegunKeeps ==
    ASSUME TypeOK, IdsAreOwn, TxnInv, TailIsKnown, UNCHANGED log,
           NEW w \in Writers, NEW t \in Tenants, NEW p \in Payloads,
           NEW at \in {"idle", "locked", "missed"}, at = "locked" => LockFree(t),
           txn' = [txn EXCEPT ![w] = Begun(at, t, p)]
    PROVE  IdsAreOwn' /\ TxnInv' /\ TailIsKnown'
<1>1. /\ txn'[w].at = at /\ txn'[w].tenant = t /\ txn'[w].after = 0 /\ txn'[w].prev = Null
      /\ txn'[w].holds = (at = "locked")
      /\ \A v \in Writers : v # w => txn'[v] = txn[v]
      BY DEF TypeOK, TxnTypeOK, Begun
<1>2. IdsAreOwn'
      BY <1>1 DEF IdsAreOwn
<1>3. LockIsExclusive'
  <2>1. SUFFICES ASSUME NEW u \in Writers, NEW v \in Writers,
                        txn'[u].holds, txn'[v].holds, txn'[u].tenant = txn'[v].tenant, u # v
                 PROVE  FALSE
        BY DEF LockIsExclusive
  <2>2. CASE u = w
    <3>1. at = "locked"
          BY <1>1, <2>1, <2>2
    <3>2. txn[v] = txn'[v] /\ txn'[v].tenant = t
          BY <1>1, <2>1, <2>2
    <3> QED BY <2>1, <3>1, <3>2 DEF LockFree
  <2>3. CASE v = w
    <3>1. at = "locked"
          BY <1>1, <2>1, <2>3
    <3>2. txn[u] = txn'[u] /\ txn'[u].tenant = t
          BY <1>1, <2>1, <2>3
    <3> QED BY <2>1, <3>1, <3>2 DEF LockFree
  <2>4. CASE u # w /\ v # w
        BY <1>1, <2>1, <2>4 DEF TxnInv, LockIsExclusive
  <2> QED BY <2>2, <2>3, <2>4
<1>4. TxnsWellFormed'
  <2>1. SUFFICES ASSUME NEW v \in Writers
                 PROVE  /\ txn'[v].holds => txn'[v].at \in {"locked", "read", "inserted"}
                        /\ txn'[v].at \in {"locked", "read"} => txn'[v].holds
                        /\ ~txn'[v].holds \/ txn'[v].at = "locked" => txn'[v].after = 0
                        /\ txn'[v].after = 0 => txn'[v].prev = Null
                        /\ txn'[v].at = "inserted" => txn'[v].after < txn'[v].id
        BY DEF TxnsWellFormed
  <2>2. CASE v = w
        BY <1>1, <2>2
  <2>3. CASE v # w
        BY <1>1, <2>3 DEF TxnInv, TxnsWellFormed
  <2> QED BY <2>2, <2>3
<1>5. TailIsKnown'
  <2>1. SUFFICES ASSUME NEW v \in Writers, txn'[v].holds, txn'[v].at \in {"read", "inserted"}
                 PROVE  /\ \A r \in log : r.tenant = txn[v].tenant /\ txn[v].after < r.id => r.after = 0
                        /\ txn[v].after # 0 =>
                              \E q \in log : /\ q.id = txn[v].after /\ q.tenant = txn[v].tenant
                                             /\ q.hash = txn[v].prev
                        /\ txn'[v] = txn[v]
        BY DEF TailIsKnown
  <2>2. v # w
        BY <1>1, <2>1
  <2> QED BY <1>1, <2>1, <2>2 DEF TailIsKnown
<1> QED BY <1>2, <1>3, <1>4, <1>5 DEF TxnInv

LEMMA ReadTailKeeps ==
    ASSUME TypeOK, IdsAreOwn, TxnInv, TailIsKnown, RowsWellFormed,
           NEW w \in Writers, ReadTail(w)
    PROVE  IdsAreOwn' /\ TxnInv' /\ TailIsKnown'
<1> DEFINE t == txn[w].tenant
           tail == IF Hashed(t) = {} THEN 0 ELSE Newest(Hashed(t)).id
<1>1. /\ UNCHANGED log /\ txn[w].at = "locked" /\ txn[w].holds
      /\ txn[w].after = 0 => txn[w].prev = Null
      BY DEF ReadTail, TxnInv, TxnsWellFormed
<1>2. \A r \in log : r.tenant = t /\ r.id # 0 => r \in Hashed(t) /\ r.id <= tail
  <2>1. SUFFICES ASSUME NEW r \in log, r.tenant = t, r.id # 0
                 PROVE  r \in Hashed(t) /\ r.id <= tail
        OBVIOUS
  <2>2. r \in Hashed(t)
        BY <2>1 DEF RowsWellFormed, Hashed, Chain
  <2> QED BY <2>2, NewestIsGreatest DEF Hashed, Chain
<1>3. \A v \in Writers : v # w => txn'[v] = txn[v]
      BY DEF ReadTail, TypeOK, TxnTypeOK
<1>4. /\ txn'[w].at = "read" /\ txn'[w].tenant = t /\ txn'[w].holds = txn[w].holds
      /\ txn'[w].id = txn[w].id
      /\ \/ /\ Hashed(t) = {}
            /\ txn'[w].after = txn[w].after /\ txn'[w].prev = txn[w].prev
         \/ /\ Hashed(t) # {}
            /\ txn'[w].after = tail /\ txn'[w].prev = Newest(Hashed(t)).hash
      BY DEF ReadTail, TypeOK, TxnTypeOK
<1>5. Hashed(t) # {} => /\ Newest(Hashed(t)) \in log /\ Newest(Hashed(t)).tenant = t
                        /\ Newest(Hashed(t)).hash # Null /\ tail # 0
      BY NewestIsGreatest DEF Hashed, Chain, RowsWellFormed
<1>6. txn[w].after = 0 /\ txn[w].prev = Null
      BY <1>1 DEF TxnInv, TxnsWellFormed
<1>7. IdsAreOwn'
      BY <1>1, <1>3, <1>4 DEF IdsAreOwn
<1>8. LockIsExclusive'
  <2>1. \A v \in Writers : txn'[v].holds = txn[v].holds /\ txn'[v].tenant = txn[v].tenant
        BY <1>3, <1>4
  <2> QED BY <2>1 DEF TxnInv, LockIsExclusive
<1>9. TxnsWellFormed'
  <2>1. SUFFICES ASSUME NEW v \in Writers
                 PROVE  /\ txn'[v].holds => txn'[v].at \in {"locked", "read", "inserted"}
                        /\ txn'[v].at \in {"locked", "read"} => txn'[v].holds
                        /\ ~txn'[v].holds \/ txn'[v].at = "locked" => txn'[v].after = 0
                        /\ txn'[v].after = 0 => txn'[v].prev = Null
                        /\ txn'[v].at = "inserted" => txn'[v].after < txn'[v].id
        BY DEF TxnsWellFormed
  <2>2. CASE v = w
    <3>1. txn'[w].holds
          BY <1>1, <1>4
    <3> QED BY <1>4, <1>5, <1>6, <2>2, <3>1
  <2>3. CASE v # w
        BY <1>3, <2>3 DEF TxnInv, TxnsWellFormed
  <2> QED BY <2>2, <2>3
<1>10. TailIsKnown'
  <2>1. SUFFICES ASSUME NEW v \in Writers, txn'[v].holds, txn'[v].at \in {"read", "inserted"}
                 PROVE  /\ \A r \in log : r.tenant = txn'[v].tenant /\ txn'[v].after < r.id => r.after = 0
                        /\ txn'[v].after # 0 =>
                              \E q \in log : /\ q.id = txn'[v].after /\ q.tenant = txn'[v].tenant
                                             /\ q.hash = txn'[v].prev
        BY <1>1 DEF TailIsKnown
  <2>2. CASE v # w
        BY <1>3, <2>1, <2>2 DEF TailIsKnown
  <2>3. CASE v = w
    <3>1. txn'[w].after = tail
          BY <1>4, <1>6
    <3>2. ASSUME NEW r \in log, r.tenant = t, tail < r.id PROVE FALSE
      <4>1. r.id \in Nat /\ tail \in Nat
            BY <1>5 DEF TypeOK, LogTypeOK, Ids
      <4> QED BY <1>2, <3>2, <4>1
    <3> QED BY <1>4, <1>5, <2>3, <3>1, <3>2
  <2> QED BY <2>2, <2>3
<1> QED BY <1>7, <1>8, <1>9, <1>10 DEF TxnInv

LEMMA InsertKeeps ==
    ASSUME TypeOK, IdsAreOwn, TxnInv, TailIsKnown,
           NEW w \in Writers, Insert(w)
    PROVE  IdsAreOwn' /\ TxnInv' /\ TailIsKnown'
<1>1. /\ UNCHANGED log /\ txn[w].at \in {"read", "missed"}
      /\ txn'[w] = [txn[w] EXCEPT !.at = "inserted", !.id = lastId + 1]
      /\ \A v \in Writers : v # w => txn'[v] = txn[v]
      BY DEF Insert, TypeOK, TxnTypeOK
<1>2. /\ txn'[w].at = "inserted" /\ txn'[w].id = lastId + 1
      /\ txn'[w].holds = txn[w].holds /\ txn'[w].tenant = txn[w].tenant
      /\ txn'[w].after = txn[w].after /\ txn'[w].prev = txn[w].prev
      BY <1>1 DEF TypeOK, TxnTypeOK
<1>3. /\ lastId \in Nat /\ \A r \in log : r.id \in 0 .. lastId
      /\ \A v \in Writers : txn[v].id \in 0 .. lastId /\ txn[v].after \in 0 .. lastId
      BY DEF TypeOK, LogTypeOK, TxnTypeOK, Ids
<1>4. IdsAreOwn'
  <2>1. ASSUME NEW u \in Writers, txn'[u].at = "inserted", NEW r \in log
        PROVE  r.id # txn'[u].id
    <3>1. r.id # lastId + 1
          BY <1>3
    <3>2. u = w \/ txn'[u] = txn[u]
          BY <1>1
    <3> QED BY <1>2, <2>1, <3>1, <3>2 DEF IdsAreOwn
  <2>2. ASSUME NEW u \in Writers, NEW v \in Writers, u # v,
               txn'[u].at = "inserted", txn'[v].at = "inserted"
        PROVE  txn'[u].id # txn'[v].id
    <3>1. txn[u].id # lastId + 1 /\ txn[v].id # lastId + 1
          BY <1>3
    <3>2. u = w \/ txn'[u] = txn[u]
          BY <1>1
    <3>3. v = w \/ txn'[v] = txn[v]
          BY <1>1
    <3> QED BY <1>2, <2>2, <3>1, <3>2, <3>3 DEF IdsAreOwn
  <2> QED BY <1>1, <2>1, <2>2 DEF IdsAreOwn
<1>5. LockIsExclusive'
  <2>1. \A v \in Writers : txn'[v].holds = txn[v].holds /\ txn'[v].tenant = txn[v].tenant
        BY <1>1, <1>2
  <2> QED BY <2>1 DEF TxnInv, LockIsExclusive
<1>6. TxnsWellFormed'
  <2>1. SUFFICES ASSUME NEW v \in Writers
                 PROVE  /\ txn'[v].holds => txn'[v].at \in {"locked", "read", "inserted"}
                        /\ txn'[v].at \in {"locked", "read"} => txn'[v].holds
                        /\ ~txn'[v].holds \/ txn'[v].at = "locked" => txn'[v].after = 0
                        /\ txn'[v].after = 0 => txn'[v].prev = Null
                        /\ txn'[v].at = "inserted" => txn'[v].after < txn'[v].id
        BY DEF TxnsWellFormed
  <2>2. CASE v = w
    <3>1. txn[w].after < lastId + 1
          BY <1>3
    <3>2. ~txn[w].holds => txn[w].after = 0
          BY DEF TxnInv, TxnsWellFormed
    <3>3. txn[w].after = 0 => txn[w].prev = Null
          BY DEF TxnInv, TxnsWellFormed
    <3> QED BY <1>2, <2>2, <3>1, <3>2, <3>3
  <2>3. CASE v # w
        BY <1>1, <2>3 DEF TxnInv, TxnsWellFormed
  <2> QED BY <2>2, <2>3
<1>7. TailIsKnown'
  <2>1. SUFFICES ASSUME NEW v \in Writers, txn'[v].holds, txn'[v].at \in {"read", "inserted"}
                 PROVE  /\ \A r \in log : r.tenant = txn'[v].tenant /\ txn'[v].after < r.id => r.after = 0
                        /\ txn'[v].after # 0 =>
                              \E q \in log : /\ q.id = txn'[v].after /\ q.tenant = txn'[v].tenant
                                             /\ q.hash = txn'[v].prev
        BY <1>1 DEF TailIsKnown
  <2>2. CASE v # w
        BY <1>1, <2>1, <2>2 DEF TailIsKnown
  <2>3. CASE v = w
    <3>1. txn[w].holds
          BY <1>2, <2>1, <2>3
    <3>2. txn[w].at = "read"
          BY <1>1, <3>1 DEF TxnInv, TxnsWellFormed
    <3> QED BY <1>2, <2>3, <3>1, <3>2 DEF TailIsKnown
  <2> QED BY <2>2, <2>3
<1> QED BY <1>4, <1>5, <1>6, <1>7 DEF TxnInv

(* A commit is the step that adds a row.                                   *)
LEMMA CommitKeeps ==
    ASSUME TypeOK, IdsAreOwn, TxnInv, TailIsKnown, RowInv,
           NEW w \in Writers, Commit(w)
    PROVE  IdsAreOwn' /\ TxnInv' /\ TailIsKnown' /\ RowInv'
<1> DEFINE x == txn[w]
<1>1. PICK n : n = Row(x.id, x.tenant, x.payload, x.prev, x.after, RowHash(x.prev, x.payload))
      OBVIOUS
<1>2. /\ n.id = x.id /\ n.tenant = x.tenant /\ n.prev = x.prev /\ n.after = x.after
      /\ n.hash = RowHash(x.prev, x.payload)
      BY <1>1 DEF Row
<1>3. x.at = "inserted" /\ log' = log \cup {n}
      BY <1>1 DEF Commit
<1>4. /\ txn'[w] = Idle /\ Idle.at = "idle" /\ Idle.holds = FALSE /\ Idle.after = 0
      /\ Idle.prev = Null
      /\ \A v \in Writers : v # w => txn'[v] = txn[v]
      BY DEF Commit, TypeOK, TxnTypeOK, Idle, Begun
<1>5. /\ \A r \in log : r.id \in Nat /\ r.after \in Nat
      /\ x.id \in Nat /\ x.after \in Nat /\ x.after < x.id
      BY <1>3 DEF TypeOK, LogTypeOK, TxnTypeOK, Ids, TxnInv, TxnsWellFormed
<1>6. \A r \in log : r.id # x.id
      BY <1>3 DEF IdsAreOwn
<1>7. n.after # 0 => x.holds
      BY <1>2 DEF TxnInv, TxnsWellFormed
<1>8. n.after = 0 => n.prev = Null
      BY <1>2 DEF TxnInv, TxnsWellFormed
<1>9. x.holds => /\ \A r \in log : r.tenant = x.tenant /\ x.after < r.id => r.after = 0
                 /\ x.after # 0 => \E q \in log : /\ q.id = x.after /\ q.tenant = x.tenant
                                                 /\ q.hash = x.prev
      BY <1>3 DEF TailIsKnown
<1>10. IdsAreOwn'
  <2>1. \A r, q \in log' : r.id = q.id => r = q
        BY <1>2, <1>3, <1>6 DEF IdsAreOwn
  <2>2. ASSUME NEW u \in Writers, txn'[u].at = "inserted"
        PROVE  /\ u # w /\ txn'[u] = txn[u]
               /\ \A r \in log' : r.id # txn'[u].id
    <3>1. u # w
          BY <1>4, <2>2
    <3>2. txn'[u] = txn[u]
          BY <1>4, <3>1
    <3>3. txn[u].id # x.id
          BY <1>3, <2>2, <3>1, <3>2 DEF IdsAreOwn
    <3> QED BY <1>2, <1>3, <2>2, <3>1, <3>2, <3>3 DEF IdsAreOwn
  <2>3. ASSUME NEW u \in Writers, NEW v \in Writers, txn'[u].at = "inserted",
               txn'[v].at = "inserted", txn'[v].id = txn'[u].id
        PROVE  v = u
        BY <2>2, <2>3 DEF IdsAreOwn
  <2> QED BY <2>1, <2>2, <2>3 DEF IdsAreOwn
<1>11. TxnInv'
  <2>1. \A v \in Writers : v # w => txn'[v] = txn[v]
        BY <1>4
  <2>2. ~txn'[w].holds /\ txn'[w].at = "idle" /\ txn'[w].after = 0 /\ txn'[w].prev = Null
        BY <1>4
  <2>3. LockIsExclusive'
        BY <2>1, <2>2 DEF TxnInv, LockIsExclusive
  <2>4. TxnsWellFormed'
        BY <2>1, <2>2 DEF TxnInv, TxnsWellFormed
  <2> QED BY <2>3, <2>4 DEF TxnInv
<1>12. TailIsKnown'
  <2>1. SUFFICES ASSUME NEW v \in Writers, txn'[v].holds, txn'[v].at \in {"read", "inserted"}
                 PROVE  /\ \A r \in log' : r.tenant = txn'[v].tenant /\ txn'[v].after < r.id => r.after = 0
                        /\ txn'[v].after # 0 =>
                              \E q \in log' : /\ q.id = txn'[v].after /\ q.tenant = txn'[v].tenant
                                              /\ q.hash = txn'[v].prev
        BY DEF TailIsKnown
  <2>2. v # w /\ txn'[v] = txn[v]
        BY <1>4, <2>1
  <2>3. x.holds => txn[v].tenant # x.tenant
        BY <2>1, <2>2 DEF TxnInv, LockIsExclusive
  <2>4. n.tenant = txn[v].tenant => n.after = 0
        BY <1>2, <1>7, <2>3
  <2> QED BY <1>3, <2>1, <2>2, <2>4 DEF TailIsKnown
<1>13. RowsWellFormed'
  <2>1. n.id # 0 /\ n.hash # Null /\ n.hash = RowHash(n.prev, n.payload)
        BY <1>1, <1>2, <1>5, RowHashTyped DEF TypeOK, TxnTypeOK, Row
  <2> QED BY <1>3, <1>8, <2>1 DEF RowInv, RowsWellFormed
<1>14. LinksHold'
  <2>1. ASSUME NEW r \in log', r.after # 0
        PROVE  \E q \in log' : q.id = r.after /\ q.id < r.id /\ q.tenant = r.tenant /\ q.hash = r.prev
    <3>1. CASE r = n
          BY <1>2, <1>3, <1>5, <1>7, <1>9, <2>1, <3>1
    <3>2. CASE r \in log
          BY <1>3, <2>1, <3>2 DEF RowInv, LinksHold
    <3> QED BY <1>3, <3>1, <3>2
  <2> QED BY <2>1 DEF LinksHold
<1>15. \A r \in log : r.after # 0 /\ r.tenant = n.tenant /\ n.after # 0 => r.id <= n.after
  <2>1. SUFFICES ASSUME NEW r \in log, r.after # 0, r.tenant = n.tenant, n.after # 0
                 PROVE  ~(n.after < r.id)
        BY <1>2, <1>5
  <2> QED BY <1>2, <1>7, <1>9, <2>1
<1>16. NoFork'
  <2>1. ASSUME NEW r \in log, r.after # 0, r.after = n.after PROVE FALSE
    <3>1. PICK q \in log : q.id = r.after /\ q.id < r.id /\ q.tenant = r.tenant
          BY <2>1 DEF RowInv, LinksHold
    <3>2. PICK p \in log : p.id = x.after /\ p.tenant = x.tenant
          BY <1>2, <1>7, <1>9, <2>1
    <3>3. p = q
          BY <1>2, <2>1, <3>1, <3>2 DEF IdsAreOwn
    <3>4. r.id <= n.after
          BY <1>2, <1>15, <2>1, <3>1, <3>2, <3>3
    <3> QED BY <1>5, <2>1, <3>1, <3>4
  <2> QED BY <1>3, <2>1 DEF RowInv, NoFork
<1>17. SkippedAreRestarts'
  <2>1. ASSUME NEW q \in log, q.tenant = n.tenant, n.after # 0, n.after < q.id
        PROVE  q.prev = Null
        BY <1>2, <1>7, <1>9, <2>1 DEF RowInv, RowsWellFormed
  <2>2. ASSUME NEW r \in log, r.tenant = n.tenant, r.after # 0, n.id < r.id
        PROVE  n.prev = Null
    <3>1. n.after = 0
          BY <1>2, <1>5, <1>15, <2>2
    <3> QED BY <1>8, <3>1
  <2>3. ~(n.id < n.id)
        BY <1>2, <1>5
  <2> QED BY <1>3, <2>1, <2>2, <2>3 DEF RowInv, SkippedAreRestarts
<1> QED BY <1>10, <1>11, <1>12, <1>13, <1>14, <1>16, <1>17 DEF RowInv

LEMMA InvInit == Init => AuditInv
<1> SUFFICES ASSUME Init PROVE AuditInv
      OBVIOUS
<1>1. PICK t \in Tenants, p \in Payloads : log \in {{}, {OldRow(t, p)}}
      BY DEF Init
<1>2. /\ \A r \in log : r.id = 0 /\ r.after = 0 /\ r.prev = Null /\ r.hash = Null
      /\ \A r, q \in log : r = q
      BY <1>1 DEF OldRow, Row
<1>3. \A w \in Writers : /\ txn[w].at = "idle" /\ txn[w].holds = FALSE
                         /\ txn[w].after = 0 /\ txn[w].prev = Null
      BY DEF Init, Idle, Begun
<1>4. IdsAreOwn /\ TailIsKnown
      BY <1>2, <1>3 DEF IdsAreOwn, TailIsKnown
<1>5. LockIsExclusive /\ TxnsWellFormed
      BY <1>3 DEF LockIsExclusive, TxnsWellFormed
<1>6. RowsWellFormed /\ LinksHold /\ NoFork /\ SkippedAreRestarts
      BY <1>2 DEF RowsWellFormed, LinksHold, NoFork, SkippedAreRestarts
<1> QED BY <1>4, <1>5, <1>6, TypeInit DEF AuditInv

LEMMA InvNext ==
    ASSUME AuditInv, [Next]_auditVars
    PROVE  AuditInv'
<1>1. TypeOK /\ IdsAreOwn /\ TxnInv /\ TailIsKnown /\ RowInv /\ RowsWellFormed
      BY DEF AuditInv, TxnInv, RowInv
<1>2. ASSUME NEW w \in Writers, NEW t \in Tenants, NEW p \in Payloads, TryLock(w, t, p)
      PROVE  IdsAreOwn' /\ TxnInv' /\ TailIsKnown' /\ RowInv'
  <2>1. PICK at \in {"locked", "missed"} :
            /\ at = "locked" => LockFree(t)
            /\ txn' = [txn EXCEPT ![w] = Begun(at, t, p)]
        BY <1>2 DEF TryLock
  <2>2. UNCHANGED log
        BY <1>2 DEF TryLock
  <2> QED BY <1>1, <2>1, <2>2, BegunKeeps, RowsKept
<1>3. ASSUME NEW w \in Writers, ReadTail(w)
      PROVE  IdsAreOwn' /\ TxnInv' /\ TailIsKnown' /\ RowInv'
      BY <1>1, <1>3, ReadTailKeeps, RowsKept DEF ReadTail
<1>4. ASSUME NEW w \in Writers, Insert(w)
      PROVE  IdsAreOwn' /\ TxnInv' /\ TailIsKnown' /\ RowInv'
      BY <1>1, <1>4, InsertKeeps, RowsKept DEF Insert
<1>5. ASSUME NEW w \in Writers, Commit(w)
      PROVE  IdsAreOwn' /\ TxnInv' /\ TailIsKnown' /\ RowInv'
      BY <1>1, <1>5, CommitKeeps
<1>6. ASSUME NEW w \in Writers, Rollback(w)
      PROVE  IdsAreOwn' /\ TxnInv' /\ TailIsKnown' /\ RowInv'
  <2>1. /\ UNCHANGED log
        /\ txn' = [txn EXCEPT ![w] = Begun("idle", CHOOSE t \in Tenants : TRUE, CHOOSE p \in Payloads : TRUE)]
        BY <1>6 DEF Rollback, Idle
  <2>2. (CHOOSE t \in Tenants : TRUE) \in Tenants /\ (CHOOSE p \in Payloads : TRUE) \in Payloads
        BY AuditAssumption
  <2> QED BY <1>1, <2>1, <2>2, BegunKeeps, RowsKept
<1>7. ASSUME UNCHANGED <<log, txn>>
      PROVE  IdsAreOwn' /\ TxnInv' /\ TailIsKnown' /\ RowInv'
  <2>1. RowInv'
        BY <1>1, <1>7, RowsKept
  <2>2. IdsAreOwn' /\ TxnInv' /\ TailIsKnown'
        BY <1>1, <1>7 DEF IdsAreOwn, TxnInv, LockIsExclusive, TxnsWellFormed, TailIsKnown
  <2> QED BY <2>1, <2>2
<1>8. IdsAreOwn' /\ TxnInv' /\ TailIsKnown' /\ RowInv'
  <2>1. ASSUME NEW t \in Tenants, Anchor(t) PROVE UNCHANGED <<log, txn>>
        BY <2>1 DEF Anchor
  <2>2. UNCHANGED auditVars => UNCHANGED <<log, txn>>
        BY DEF auditVars
  <2> QED BY <1>2, <1>3, <1>4, <1>5, <1>6, <1>7, <2>1, <2>2 DEF Next
<1>9. TypeOK'
      BY <1>1, TypeNext
<1> QED BY <1>8, <1>9 DEF AuditInv, TxnInv, RowInv

LEMMA InvAlways == Spec => []AuditInv
BY InvInit, InvNext, PTL DEF Spec

(* No two rows of a chain continue the same row, however the transactions  *)
(* overlap and whichever of them are rolled back (audit.py:80).            *)
THEOREM ChainNeverForks == Spec => []NoFork
<1>1. AuditInv => NoFork
      BY DEF AuditInv
<1> QED BY <1>1, InvAlways, PTL

(* A row continues a committed row of its own tenant, with a lower id and  *)
(* the hash it names (audit.py:84).                                        *)
THEOREM LinksAreToCommittedRows == Spec => []LinksHold
<1>1. AuditInv => LinksHold
      BY DEF AuditInv
<1> QED BY <1>1, InvAlways, PTL

(* A verification fails only next to a gap: the row a continuing row jumps *)
(* over was written without the lock and starts the chain again, after the *)
(* row that is continued (audit.py:152, audit.py:155).                     *)
THEOREM FailuresShowGaps == Spec => []FailuresComeWithGaps
<1>1. ASSUME AuditInv, NEW t \in Tenants, NEW r \in Breaks(Chain(t))
      PROVE  Gaps(Chain(t)) # {}
  <2> DEFINE p == Newest(Before(r, Chain(t)))
  <2>1. /\ r \in log /\ r.tenant = t /\ r.prev # Null
        /\ p.hash # Null /\ p.hash # r.prev
        BY DEF Breaks, Chain
  <2>2. /\ p \in log /\ p.tenant = t /\ p.id < r.id
        /\ \A q \in log : q.tenant = t /\ q.id < r.id => q.id <= p.id
    <3>1. Before(r, Chain(t)) \in SUBSET log /\ Before(r, Chain(t)) # {}
          BY DEF Breaks, Before, Chain
    <3>2. p \in Before(r, Chain(t)) /\ \A q \in Before(r, Chain(t)) : q.id <= p.id
          BY <1>1, <3>1, NewestIsGreatest DEF AuditInv
    <3> QED BY <3>2 DEF Before, Chain
  <2>3. r.after # 0
        BY <1>1, <2>1 DEF AuditInv, RowsWellFormed
  <2>4. PICK q \in log : q.id = r.after /\ q.id < r.id /\ q.tenant = t /\ q.hash = r.prev
        BY <1>1, <2>1, <2>3 DEF AuditInv, LinksHold
  <2>5. q.id < p.id
    <3>1. q.id <= p.id
          BY <2>2, <2>4
    <3>4. q # p
          BY <2>1, <2>4
    <3>2. q.id # p.id
          BY <1>1, <2>2, <3>4 DEF AuditInv, IdsAreOwn
    <3>3. q.id \in Nat /\ p.id \in Nat
          BY <1>1, <2>2 DEF AuditInv, TypeOK, LogTypeOK, Ids
    <3> QED BY <3>1, <3>2, <3>3
  <2>6. p.prev = Null
        BY <1>1, <2>1, <2>2, <2>3, <2>4, <2>5 DEF AuditInv, SkippedAreRestarts
  <2>7. q \in Before(p, Chain(t)) /\ q.hash # Null
        BY <2>1, <2>4, <2>5 DEF Before, Chain
  <2>8. p \in Gaps(Chain(t))
        BY <2>2, <2>6, <2>7 DEF Gaps, Chain
  <2> QED BY <2>8
<1>2. ASSUME AuditInv, NEW t \in Tenants PROVE Mismatches(Chain(t)) = {}
      BY <1>2 DEF AuditInv, RowsWellFormed, Mismatches, Chain
<1>3. AuditInv => FailuresComeWithGaps
      BY <1>1, <1>2 DEF FailuresComeWithGaps, Verified
<1> QED BY <1>3, InvAlways, PTL

GapFree(t) == Gaps(Hashed(t)) = {}
UpTo(t, i) == {r \in Hashed(t) : r.id <= i}

(* Below what continues a row there is one that starts the chain.          *)
ChainsHaveStarts ==
    \A r \in log : r.after # 0 => \E q \in Hashed(r.tenant) : q.prev = Null /\ q.id < r.id

(* Without a gap, a hash commits to the rows up to its own.                *)
HashesCommit ==
    \A t \in Tenants : GapFree(t) =>
        \A r \in Hashed(t) : Len(r.hash) = Cardinality(UpTo(t, r.id))

AnchorsHaveRows ==
    \A a \in anchors :
        /\ \E r \in Hashed(a.tenant) : r.id = a.tail /\ r.hash = a.root
        /\ GapFree(a.tenant) => Cardinality(UpTo(a.tenant, a.tail)) = a.count

AnchorInv == ChainsHaveStarts /\ HashesCommit /\ AnchorsHaveRows

---------------------------------------------------------------------------
LEMMA AnchorInvSuffices == AuditInv /\ AnchorInv => GapFreeAnchorsCommit
<1> SUFFICES ASSUME AuditInv, AnchorInv, NEW a \in anchors, GapFree(a.tenant)
    PROVE  Len(a.root) = a.count /\ Cardinality(UpTo(a.tenant, a.tail)) = a.count
    BY DEF GapFreeAnchorsCommit, GapFree, UpTo
<1>1. a.tenant \in Tenants
      BY DEF AuditInv, TypeOK
<1>2. PICK r \in Hashed(a.tenant) : r.id = a.tail /\ r.hash = a.root
      BY DEF AnchorInv, AnchorsHaveRows
<1>3. Len(r.hash) = Cardinality(UpTo(a.tenant, r.id))
      BY <1>1 DEF AnchorInv, HashesCommit
<1>4. Cardinality(UpTo(a.tenant, a.tail)) = a.count
      BY DEF AnchorInv, AnchorsHaveRows
<1> QED BY <1>2, <1>3, <1>4

LEMMA AnchorInit == Init => AnchorInv
<1> SUFFICES ASSUME Init PROVE AnchorInv
    OBVIOUS
<1>1. anchors = {} /\ \A r \in log : r.hash = Null /\ r.after = 0
      BY DEF Init, OldRow, Row
<1>2. \A t \in Tenants : Hashed(t) = {}
      BY <1>1 DEF Hashed, Chain
<1> QED BY <1>1, <1>2 DEF AnchorInv, ChainsHaveStarts, HashesCommit, AnchorsHaveRows

(* The row that is committed is the newest of a chain without a gap, and   *)
(* its hash is one longer than the one it continues.                       *)
LEMMA CommitIsNewest ==
    ASSUME AuditInv, ChainsHaveStarts, NEW w \in Writers, Commit(w),
           NEW x, x = txn[w], GapFree(x.tenant)'
    PROVE  /\ \A r \in Hashed(x.tenant) : r.id < x.id
           /\ \/ x.prev = Null /\ Hashed(x.tenant) = {}
              \/ \E q \in Hashed(x.tenant) :
                    q.hash = x.prev /\ \A r \in Hashed(x.tenant) : r.id <= q.id
<1> DEFINE H == Hashed(x.tenant)
<1> PICK t : t = x.tenant
    OBVIOUS
<1>0. PICK n : n = Row(x.id, t, x.payload, x.prev, x.after, RowHash(x.prev, x.payload))
      OBVIOUS
<1>1. /\ x.at = "inserted" /\ log' = log \cup {n}
      /\ n.id = x.id /\ n.tenant = t /\ n.prev = x.prev /\ n.hash = RowHash(x.prev, x.payload)
      BY <1>0 DEF Commit, Row
<1>2. /\ x.id \in Nat /\ x.after \in Nat /\ x.after < x.id /\ x.prev \in Hashes /\ x.payload \in Payloads
      /\ x.after = 0 => x.prev = Null
      /\ x.after # 0 => x.holds
      BY <1>1 DEF AuditInv, TypeOK, TxnTypeOK, Ids, TxnsWellFormed
<1>3. n.hash # Null
      BY <1>1, <1>2, RowHashTyped
<1>4. Hashed(t)' = H \cup {n}
      BY <1>1, <1>3 DEF Hashed, Chain
<1>5. /\ \A r \in H : r \in log /\ r.tenant = t /\ r.hash # Null
      /\ \A r \in log : r.id \in Nat /\ r.after \in Nat /\ r.id # x.id /\ (r.after = 0 => r.prev = Null)
      BY <1>1 DEF Hashed, Chain, AuditInv, TypeOK, LogTypeOK, Ids, IdsAreOwn, RowsWellFormed
(* A row that starts the chain has no row before it.                       *)
<1>6. ASSUME NEW r \in H \cup {n}, r.prev = Null, NEW q \in H \cup {n}
      PROVE  ~(q.id < r.id)
  <2>1. q.hash # Null
        BY <1>3, <1>5
  <2>2. r \in (Hashed(t))' /\ q \in (Hashed(t))'
        BY <1>4
  <2> QED BY <1>6, <2>1, <2>2 DEF GapFree, Gaps, Before
<1>7. CASE x.after = 0
  <2>1. x.prev = Null
        BY <1>2, <1>7
  <2>2. ASSUME NEW r \in H PROVE FALSE
    <3>1. x.id < r.id
          BY <1>1, <1>2, <1>5, <1>6, <2>1
    <3>2. r.prev # Null
          BY <1>1, <1>6, <3>1
    <3>3. PICK q \in H : q.prev = Null /\ q.id < r.id
          BY <1>5, <3>2 DEF ChainsHaveStarts
    <3>4. x.id < q.id
          BY <1>1, <1>2, <1>5, <1>6, <2>1
    <3> QED BY <1>1, <1>6, <3>3, <3>4
  <2> QED BY <2>1, <2>2
<1>8. CASE x.after # 0
  <2>1. /\ \A r \in log : r.tenant = t /\ x.after < r.id => r.after = 0
        /\ \E q \in log : q.id = x.after /\ q.tenant = t /\ q.hash = x.prev
        BY <1>1, <1>2, <1>8 DEF AuditInv, TailIsKnown
  <2>2. PICK q \in log : q.id = x.after /\ q.tenant = t /\ q.hash = x.prev
        BY <2>1
  <2>3. q \in H
    <3>1. q.hash # Null
          BY <1>8, <2>2 DEF AuditInv, RowsWellFormed
    <3> QED BY <2>2, <3>1 DEF Hashed, Chain
  <2>4. ASSUME NEW r \in H PROVE r.id <= q.id
    <3>1. CASE x.after < r.id
      <4>1. r.prev = Null
            BY <1>5, <2>1, <3>1
      <4> QED BY <1>6, <2>2, <2>3, <3>1, <4>1
    <3>2. CASE ~(x.after < r.id)
          BY <1>2, <1>5, <2>2, <3>2
    <3> QED BY <3>1, <3>2
  <2>5. \A r \in H : r.id < x.id
        BY <1>2, <1>5, <2>2, <2>4
  <2> QED BY <2>2, <2>3, <2>4, <2>5
<1> QED BY <1>7, <1>8

LEMMA HashesFinite ==
    ASSUME TypeOK, NEW t PROVE IsFiniteSet(Hashed(t)) /\ \A i : IsFiniteSet(UpTo(t, i))
<1>1. IsFiniteSet(log) /\ Hashed(t) \subseteq log
      BY DEF TypeOK, LogTypeOK, Hashed, Chain
<1>2. \A i : UpTo(t, i) \subseteq log
      BY <1>1 DEF UpTo
<1> QED BY <1>1, <1>2, FS_Subset

LEMMA AnchorCommit ==
    ASSUME AuditInv, AnchorInv, NEW w \in Writers, Commit(w)
    PROVE  AnchorInv'
<1> PICK x : x = txn[w]
    OBVIOUS
<1>0. PICK n : n = Row(x.id, x.tenant, x.payload, x.prev, x.after, RowHash(x.prev, x.payload))
      OBVIOUS
<1>1. /\ log' = log \cup {n} /\ anchors' = anchors
      /\ n.id = x.id /\ n.tenant = x.tenant /\ n.prev = x.prev /\ n.after = x.after
      /\ n.hash = RowHash(x.prev, x.payload)
      BY <1>0 DEF Commit, Row
<1>2. /\ x.id \in Nat /\ x.after \in Nat /\ x.prev \in Hashes /\ x.payload \in Payloads
      /\ x.tenant \in Tenants /\ x.at = "inserted"
      BY DEF Commit, AuditInv, TypeOK, TxnTypeOK, Ids
<1>3. n.hash # Null
      BY <1>1, <1>2, RowHashTyped
<1>4. /\ Hashed(x.tenant)' = Hashed(x.tenant) \cup {n}
      /\ \A t : t # x.tenant => Hashed(t)' = Hashed(t)
      /\ \A t : Hashed(t) \subseteq Hashed(t)'
      BY <1>1, <1>3 DEF Hashed, Chain
<1>5. ASSUME NEW t, GapFree(t)' PROVE GapFree(t)
      BY <1>4, <1>5 DEF GapFree, Gaps, Before
<1>6. ChainsHaveStarts'
  <2>1. ASSUME NEW r \in log, r.after # 0
        PROVE  \E q \in Hashed(r.tenant)' : q.prev = Null /\ q.id < r.id
        BY <1>4, <2>1 DEF AnchorInv, ChainsHaveStarts
  <2>2. ASSUME x.after # 0
        PROVE  \E q \in Hashed(x.tenant)' : q.prev = Null /\ q.id < x.id
    <3>1. PICK q \in log : q.id = x.after /\ q.tenant = x.tenant
          BY <1>2, <2>2 DEF AuditInv, TailIsKnown, TxnsWellFormed
    <3>2. q.hash # Null /\ q.id < x.id /\ (q.after = 0 => q.prev = Null)
          BY <1>2, <2>2, <3>1 DEF AuditInv, RowsWellFormed, TxnsWellFormed
    <3>3. q \in Hashed(x.tenant)'
          BY <1>4, <3>1, <3>2 DEF Hashed, Chain
    <3>4. CASE q.prev = Null
          BY <3>2, <3>3, <3>4
    <3>5. CASE q.prev # Null
      <4>1. PICK p \in Hashed(x.tenant) : p.prev = Null /\ p.id < q.id
            BY <3>1, <3>2, <3>5 DEF AnchorInv, ChainsHaveStarts
      <4>2. p.id \in Nat /\ q.id \in Nat
            BY <3>1, <4>1 DEF AuditInv, TypeOK, LogTypeOK, Ids, Hashed, Chain
      <4> QED BY <1>2, <1>4, <3>2, <4>1, <4>2
    <3> QED BY <3>4, <3>5
  <2> QED BY <1>1, <2>1, <2>2 DEF ChainsHaveStarts
<1>7. \A r \in log : r.id \in Nat
      BY DEF AuditInv, TypeOK, LogTypeOK, Ids
(* Below what was there before nothing has come in.                        *)
<1>8. ASSUME NEW t, GapFree(t)', NEW i \in Nat, \E r \in Hashed(t) : i <= r.id
      PROVE  UpTo(t, i)' = UpTo(t, i)
  <2>1. CASE t # x.tenant
        BY <1>4, <2>1 DEF UpTo
  <2>2. CASE t = x.tenant
    <3>1. \A r \in Hashed(t) : r.id < x.id /\ r.id \in Nat
          BY <1>7, <1>8, <2>2, CommitIsNewest DEF AnchorInv, Hashed, Chain
    <3>2. ~(n.id <= i)
          BY <1>1, <1>2, <1>8, <3>1
    <3> QED BY <1>4, <2>2, <3>2 DEF UpTo
  <2> QED BY <2>1, <2>2
<1>9. AnchorsHaveRows'
  <2> SUFFICES ASSUME NEW a \in anchors
      PROVE  /\ \E r \in Hashed(a.tenant)' : r.id = a.tail /\ r.hash = a.root
             /\ GapFree(a.tenant)' => Cardinality(UpTo(a.tenant, a.tail)') = a.count
      BY <1>1 DEF AnchorsHaveRows
  <2>1. PICK r \in Hashed(a.tenant) : r.id = a.tail /\ r.hash = a.root
        BY DEF AnchorInv, AnchorsHaveRows
  <2>2. r.id \in Nat
        BY <1>7 DEF Hashed, Chain
  <2>3. ASSUME GapFree(a.tenant)' PROVE Cardinality(UpTo(a.tenant, a.tail)') = a.count
    <3>1. UpTo(a.tenant, a.tail)' = UpTo(a.tenant, a.tail)
          BY <1>8, <2>1, <2>2, <2>3
    <3>2. GapFree(a.tenant)
          BY <1>5, <2>3
    <3> QED BY <3>1, <3>2 DEF AnchorInv, AnchorsHaveRows
  <2> QED BY <1>4, <2>1, <2>3
<1>10. HashesCommit'
  <2> SUFFICES ASSUME NEW t \in Tenants, GapFree(t)', NEW r \in Hashed(t)'
      PROVE  Len(r.hash) = Cardinality(UpTo(t, r.id)')
      BY DEF HashesCommit
  <2>1. CASE r \in Hashed(t)
    <3>1. r.id \in Nat
          BY <1>7, <2>1 DEF Hashed, Chain
    <3>2. UpTo(t, r.id)' = UpTo(t, r.id)
          BY <1>8, <2>1, <3>1
    <3>3. GapFree(t)
          BY <1>5
    <3> QED BY <2>1, <3>2, <3>3 DEF AnchorInv, HashesCommit
  <2>2. CASE r \notin Hashed(t)
    <3>1. t = x.tenant /\ r = n
          BY <1>4, <2>2
    <3>2. \A q \in Hashed(t) : q.id < x.id /\ q.id \in Nat
          BY <1>7, <3>1, CommitIsNewest DEF AnchorInv, Hashed, Chain
    <3>3. UpTo(t, r.id)' = Hashed(t) \cup {n} /\ n \notin Hashed(t)
          BY <1>1, <1>2, <1>4, <3>1, <3>2 DEF UpTo
    <3>4. Cardinality(UpTo(t, r.id)') = Cardinality(Hashed(t)) + 1
          BY <3>3, HashesFinite, FS_AddElement DEF AuditInv
    <3>5. Len(n.hash) = Len(x.prev) + 1
          BY <1>1, <1>2 DEF RowHash, Hashes
    <3>6. Len(x.prev) = Cardinality(Hashed(t))
      <4>1. CASE x.prev = Null /\ Hashed(t) = {}
            BY <4>1, FS_EmptySet DEF Null
      <4>2. CASE \E q \in Hashed(t) : q.hash = x.prev /\ \A p \in Hashed(t) : p.id <= q.id
        <5>1. PICK q \in Hashed(t) : q.hash = x.prev /\ \A p \in Hashed(t) : p.id <= q.id
              BY <4>2
        <5>2. UpTo(t, q.id) = Hashed(t)
              BY <5>1 DEF UpTo
        <5>3. Len(q.hash) = Cardinality(UpTo(t, q.id))
              BY <1>5 DEF AnchorInv, HashesCommit
        <5> QED BY <5>1, <5>2, <5>3
      <4> QED BY <3>1, <4>1, <4>2, CommitIsNewest DEF AnchorInv
    <3> QED BY <3>1, <3>4, <3>5, <3>6
  <2> QED BY <2>1, <2>2
<1> QED BY <1>6, <1>9, <1>10 DEF AnchorInv

LEMMA AnchorTaken ==
    ASSUME AuditInv, AnchorInv, NEW t \in Tenants, Anchor(t)
    PROVE  AnchorInv'
<1> DEFINE a == Snapshot(t)
<1>1. /\ log' = log /\ anchors' = anchors \cup {a} /\ Hashed(t) # {}
      BY DEF Anchor
<1>2. /\ \A u : Hashed(u)' = Hashed(u) /\ (GapFree(u)' <=> GapFree(u))
      /\ \A u, i : UpTo(u, i)' = UpTo(u, i)
      BY <1>1 DEF Hashed, Chain, GapFree, UpTo
<1>3. Newest(Hashed(t)) \in Hashed(t) /\ \A q \in Hashed(t) : q.id <= Newest(Hashed(t)).id
  <2>1. Hashed(t) \in SUBSET log
        BY DEF Hashed, Chain
  <2> QED BY <1>1, <2>1, NewestIsGreatest DEF AuditInv
<1>4. UpTo(t, Newest(Hashed(t)).id) = Hashed(t)
      BY <1>3 DEF UpTo
<1>5. AnchorsHaveRows'
      BY <1>1, <1>2, <1>3, <1>4 DEF AnchorInv, AnchorsHaveRows, Snapshot
<1>6. ChainsHaveStarts' /\ HashesCommit'
      BY <1>1, <1>2 DEF AnchorInv, ChainsHaveStarts, HashesCommit
<1> QED BY <1>5, <1>6 DEF AnchorInv

LEMMA AnchorNext ==
    ASSUME AuditInv, AnchorInv, [Next]_auditVars
    PROVE  AnchorInv'
<1>1. ASSUME log' = log, anchors' = anchors PROVE AnchorInv'
  <2>1. /\ \A u : Hashed(u)' = Hashed(u) /\ (GapFree(u)' <=> GapFree(u))
        /\ \A u, i : UpTo(u, i)' = UpTo(u, i)
        BY <1>1 DEF Hashed, Chain, GapFree, UpTo
  <2> QED BY <1>1, <2>1 DEF AnchorInv, ChainsHaveStarts, HashesCommit, AnchorsHaveRows
<1>2. CASE Next
      BY <1>1, <1>2, AnchorCommit, AnchorTaken DEF Next, TryLock, ReadTail, Insert, Rollback
<1>3. CASE UNCHANGED auditVars
      BY <1>1, <1>3 DEF auditVars
<1> QED BY <1>2, <1>3

(* Rows between a row and the one it continues were written without the    *)
(* lock and start the chain again (audit.py:80-92).                        *)
THEOREM SkippedRowsRestart == Spec => []SkippedAreRestarts
<1>1. AuditInv => SkippedAreRestarts
      BY DEF AuditInv
<1> QED BY <1>1, InvAlways, PTL

(* While a chain has no gap, the root of an anchor is a hash over exactly  *)
(* the rows it counts, and none has come in below its tail (audit.py:175). *)
THEOREM AnchorsCommit == Spec => []GapFreeAnchorsCommit
BY AnchorInit, AnchorNext, AnchorInvSuffices, InvAlways, PTL DEF Spec
=============================================================================
