--------------------------- MODULE RegistryProofs ---------------------------
(***************************************************************************)
(* How many defaults a tenant can get, and how it can lose one, for any    *)
(* number of models, tenants, kinds, sessions and requests.                *)
(***************************************************************************)
EXTENDS Registry, FiniteSetTheorems, TLAPS

States == {"idle", "select", "clear", "write", "delete"}

LEMMA JobsTyped ==
    ASSUME NEW m \in Models, NEW t \in Tenants, NEW flag \in Flags, NEW creates \in BOOLEAN
    PROVE  [model |-> m, tenant |-> t, flag |-> flag, creates |-> creates] \in Jobs
BY DEF Jobs

LEMMA SlotTyped ==
    ASSUME NEW m \in Models
    PROVE  SlotOf(m) \in (Tenants \cup {System}) \X Kinds
BY RegistryAssumption DEF SlotOf

(* A session without a request needs no job; it has one all the same.      *)
LEMMA IdleTyped ==
    ASSUME NEW j \in Jobs
    PROVE  Idle \in Jobs
BY DEF Idle

LEMMA FinishTyped ==
    ASSUME TypeOK, NEW s \in Sessions, Finish(s)
    PROVE  /\ pc' \in [Sessions -> States] /\ job' \in [Sessions -> Jobs]
           /\ pc'[s] = "idle"
           /\ \A x \in Sessions \ {s} : pc'[x] = pc[x] /\ job'[x] = job[x]
<1>1. Idle \in Jobs
      BY IdleTyped DEF TypeOK
<1> QED BY <1>1 DEF Finish, Goto, TypeOK, States

LEMMA ServeTyped ==
    ASSUME TypeOK, NEW s \in Sessions, NEW j \in Jobs, NEW at \in States, Serve(s, j, at)
    PROVE  /\ pc' \in [Sessions -> States] /\ job' \in [Sessions -> Jobs]
           /\ requests' \in 0 .. MaxRequests
           /\ pc'[s] = at /\ job'[s] = j /\ pc[s] = "idle"
           /\ \A x \in Sessions \ {s} : pc'[x] = pc[x] /\ job'[x] = job[x]
BY RegistryAssumption DEF Serve, Goto, TypeOK, States

LEMMA TypeNext ==
    ASSUME TypeOK, [Next]_registryVars
    PROVE  TypeOK'
<1>1. ASSUME NEW s \in Sessions, NEW m \in Models, NEW flag \in Flags, CreateModel(s, m, flag)
      PROVE  TypeOK'
  <2> DEFINE j == [model |-> m, tenant |-> Owner[m], flag |-> flag, creates |-> TRUE]
  <2>1. j \in Jobs /\ FirstStep(flag) \in States
        BY <1>1, JobsTyped DEF CreateModel, FirstStep, States
  <2>2. FirstStep(flag) = "clear" => flag = "default"
        BY DEF FirstStep
  <2>3. Serve(s, j, FirstStep(flag)) /\ drawn' = drawn \cup {m}
        BY <1>1 DEF CreateModel
  <2> HIDE DEF j
  <2>4. /\ pc' \in [Sessions -> States] /\ job' \in [Sessions -> Jobs] /\ requests' \in 0 .. MaxRequests
        /\ pc'[s] = FirstStep(flag) /\ job'[s] = j
        /\ \A x \in Sessions \ {s} : pc'[x] = pc[x] /\ job'[x] = job[x]
        BY <2>1, <2>3, ServeTyped
  <2>5. j.model = m /\ j.tenant = Owner[m] /\ j.flag = flag
        BY DEF j
  <2> QED BY <2>2, <2>3, <2>4, <2>5 DEF Serve, TypeOK, States
<1>2. ASSUME NEW s \in Sessions, NEW t \in Tenants, NEW m \in Models,
             (\E flag \in Flags : UpdateModel(s, t, m, flag)) \/ DeleteModel(s, t, m)
      PROVE  TypeOK'
  <2>1. PICK j \in Jobs, at \in {"select", "delete"} : Serve(s, j, at) /\ drawn' = drawn
        BY <1>2, JobsTyped DEF UpdateModel, DeleteModel, Flags
  <2>2. /\ pc' \in [Sessions -> States] /\ job' \in [Sessions -> Jobs] /\ requests' \in 0 .. MaxRequests
        /\ pc'[s] = at
        /\ \A x \in Sessions \ {s} : pc'[x] = pc[x] /\ job'[x] = job[x]
        BY <2>1, ServeTyped DEF States
  <2> QED BY <2>1, <2>2 DEF Serve, TypeOK, States
<1>3. ASSUME NEW s \in Sessions, Select(s) PROVE TypeOK'
  <2>1. CASE Finish(s)
        BY <1>3, <2>1, FinishTyped DEF Select, TypeOK, States
  <2>2. CASE ~Finish(s)
    <3>1. /\ Goto(s, FirstStep(job[s].flag)) /\ job' = job
          /\ Owner[job[s].model] = job[s].tenant
          BY <1>3, <2>2 DEF Select
    <3>2. FirstStep(job[s].flag) \in {"clear", "write"}
          /\ (FirstStep(job[s].flag) = "clear" => job[s].flag = "default")
          BY DEF FirstStep
    <3>3. job[s].model \in rows /\ UNCHANGED <<rows, drawn, defaults, requests, settled>>
          BY <1>3, <2>2 DEF Select
    <3>4. pc' = [pc EXCEPT ![s] = FirstStep(job[s].flag)]
          BY <3>1 DEF Goto
    <3>5. pc' \in [Sessions -> States]
          BY <3>2, <3>4 DEF TypeOK, States
    <3>6. \A x \in Sessions : pc'[x] = IF x = s THEN FirstStep(job[s].flag) ELSE pc[x]
          BY <3>4 DEF TypeOK
    <3> QED BY <3>1, <3>2, <3>3, <3>5, <3>6 DEF TypeOK, States
  <2> QED BY <2>1, <2>2
<1>4. ASSUME NEW s \in Sessions, Clear(s) PROVE TypeOK'
      BY <1>4 DEF Clear, Goto, TypeOK
<1>5. ASSUME NEW s \in Sessions, Write(s) PROVE TypeOK'
  <2>1. job[s] \in Jobs /\ job[s].model \in Models
        BY DEF TypeOK, Jobs
  <2>2. settled' \subseteq (Tenants \cup {System}) \X Kinds
        BY <1>5, <2>1, SlotTyped DEF Write, Settled, TypeOK
  <2>3. pc[s] = "write" /\ job[s].model \in drawn
        BY <1>5 DEF Write, TypeOK
  <2>4. defaults' \subseteq rows' /\ rows' \subseteq rows \cup {job[s].model}
        BY <1>5 DEF Write, Sets, TypeOK
  <2>5. Finish(s) /\ UNCHANGED <<drawn, requests>>
        BY <1>5 DEF Write
  <2> QED BY <2>2, <2>3, <2>4, <2>5, FinishTyped DEF TypeOK, States
<1>6. ASSUME NEW s \in Sessions, Delete(s) PROVE TypeOK'
  <2>1. Finish(s) /\ UNCHANGED <<drawn, requests>>
        BY <1>6 DEF Delete
  <2>2. defaults' \subseteq rows' /\ rows' \subseteq rows /\ settled' \subseteq settled
        BY <1>6 DEF Delete, TypeOK
  <2> QED BY <2>1, <2>2, FinishTyped DEF TypeOK, States
<1>7. ASSUME NEW s \in Sessions, Abort(s) PROVE TypeOK'
  <2>1. Finish(s) /\ UNCHANGED <<rows, drawn, defaults, requests>> /\ settled' \subseteq settled
        BY <1>7 DEF Abort
  <2> QED BY <2>1, FinishTyped DEF TypeOK, States
<1>8. CASE UNCHANGED registryVars
      BY <1>8 DEF registryVars, TypeOK
<1> QED BY <1>1, <1>2, <1>3, <1>4, <1>5, <1>6, <1>7, <1>8 DEF Next, Ask

LEMMA TypeInit == Init /\ Jobs # {} => TypeOK
<1> SUFFICES ASSUME Init, Jobs # {} PROVE TypeOK
      OBVIOUS
<1>1. PICK j \in Jobs : TRUE
      OBVIOUS
<1>2. Idle \in Jobs
      BY <1>1, IdleTyped
<1>3. settled \subseteq (Tenants \cup {System}) \X Kinds
      BY SlotTyped DEF Init
<1> QED BY <1>2, <1>3, RegistryAssumption DEF Init, TypeOK

(* Tables and requests have their types.                                   *)
THEOREM RegistryTypeCorrect == Spec => []TypeOK
<1>1. Jobs # {}
  <2>1. PICK m \in Models, t \in Tenants : TRUE
        BY RegistryAssumption
  <2> QED BY <2>1, JobsTyped DEF Flags
<1>2. TypeOK /\ [Next]_registryVars => TypeOK'
      BY TypeNext
<1>3. Init => TypeOK
      BY <1>1, TypeInit
<1> QED BY <1>2, <1>3, PTL DEF Spec

---------------------------------------------------------------------------
(* How many defaults there can be.                                         *)

LEMMA Finite ==
    ASSUME TypeOK, NEW slot
    PROVE  /\ IsFiniteSet(DefaultsOf(slot)) /\ IsFiniteSet(Pending(slot))
           /\ Cardinality(DefaultsOf(slot)) \in Nat /\ Cardinality(Pending(slot)) \in Nat
           /\ Cardinality(Pending(slot)) <= Cardinality(Sessions) /\ Cardinality(Sessions) \in Nat
<1>1. DefaultsOf(slot) \in SUBSET Models /\ Pending(slot) \in SUBSET Sessions
      BY DEF DefaultsOf, In, Pending
<1>2. IsFiniteSet(DefaultsOf(slot)) /\ IsFiniteSet(Pending(slot))
      /\ Cardinality(Pending(slot)) <= Cardinality(Sessions)
      BY <1>1, RegistryAssumption, FS_Subset
<1> QED BY <1>2, RegistryAssumption, FS_CardinalityType

(* A step that adds neither a default nor a session about to set one.      *)
LEMMA FewerBounded ==
    ASSUME TypeOK, NEW slot,
           Cardinality(DefaultsOf(slot)) + Cardinality(Pending(slot)) <= Cardinality(Sessions),
           DefaultsOf(slot)' \subseteq DefaultsOf(slot), Pending(slot)' \subseteq Pending(slot)
    PROVE  Cardinality(DefaultsOf(slot)') + Cardinality(Pending(slot)') <= Cardinality(Sessions)
<1> DEFINE D == DefaultsOf(slot)
           P == Pending(slot)
           E == DefaultsOf(slot)'
           Q == Pending(slot)'
<1>1. IsFiniteSet(D) /\ IsFiniteSet(P) /\ Cardinality(D) \in Nat /\ Cardinality(P) \in Nat
      /\ Cardinality(Sessions) \in Nat
      BY Finite
<1>2. E \in SUBSET D /\ Q \in SUBSET P
      OBVIOUS
<1>3. Cardinality(D) + Cardinality(P) <= Cardinality(Sessions)
      OBVIOUS
<1> HIDE DEF D, P, E, Q
<1>4. /\ Cardinality(E) <= Cardinality(D) /\ Cardinality(Q) <= Cardinality(P)
      /\ IsFiniteSet(E) /\ IsFiniteSet(Q)
      BY <1>1, <1>2, FS_Subset
<1>5. Cardinality(E) \in Nat /\ Cardinality(Q) \in Nat
      BY <1>4, FS_CardinalityType
<1>6. Cardinality(E) + Cardinality(Q) <= Cardinality(Sessions)
      BY <1>1, <1>3, <1>4, <1>5
<1> QED BY <1>6 DEF E, Q

(* What a step does to the defaults and the pending sessions of a kind.    *)
Unaffected(slot) == DefaultsOf(slot)' \subseteq DefaultsOf(slot) /\ Pending(slot)' \subseteq Pending(slot)

LEMMA ServesOnly ==
    ASSUME TypeOK, NEW s \in Sessions, Ask(s) \/ Select(s) \/ Delete(s) \/ Abort(s),
           NEW slot \in Slots
    PROVE  Unaffected(slot)
<1>1. \A x \in Sessions \ {s} : pc'[x] = pc[x] /\ job'[x] = job[x]
      BY DEF Ask, CreateModel, UpdateModel, DeleteModel, Serve, Select, Delete, Abort, Finish, Goto, TypeOK
<1>2. defaults' \subseteq defaults
      BY DEF Ask, CreateModel, UpdateModel, DeleteModel, Serve, Select, Delete, Abort
<1>3. pc'[s] = "write" /\ job'[s].flag = "default" => pc[s] = "write" /\ job'[s] = job[s]
      BY JobsTyped DEF Ask, CreateModel, UpdateModel, DeleteModel, Serve, Select, Delete, Abort,
                       Finish, Goto, TypeOK, FirstStep
<1> QED BY <1>1, <1>2, <1>3 DEF Unaffected, DefaultsOf, Pending, In

LEMMA ClearsOnly ==
    ASSUME TypeOK, NEW s \in Sessions, Clear(s), NEW slot \in Slots
    PROVE  \/ slot = SlotOf(job[s].model) /\ DefaultsOf(slot)' = {} /\ s \in Pending(slot)'
           \/ slot # SlotOf(job[s].model) /\ DefaultsOf(slot)' = DefaultsOf(slot) /\ Pending(slot)' = Pending(slot)
<1>1. /\ pc[s] = "clear" /\ pc'[s] = "write" /\ job' = job /\ job[s].flag = "default"
      /\ \A x \in Sessions \ {s} : pc'[x] = pc[x]
      /\ defaults' = defaults \ In(SlotOf(job[s].model))
      BY DEF Clear, Goto, TypeOK
<1>2. CASE slot = SlotOf(job[s].model)
      BY <1>1, <1>2 DEF DefaultsOf, Pending
<1>3. CASE slot # SlotOf(job[s].model)
  <2>1. In(slot) \cap In(SlotOf(job[s].model)) = {}
        BY <1>3 DEF In
  <2>2. DefaultsOf(slot)' = DefaultsOf(slot)
        BY <1>1, <2>1 DEF DefaultsOf, In
  <2>3. Pending(slot)' = Pending(slot)
        BY <1>1, <1>3 DEF Pending
  <2> QED BY <1>3, <2>2, <2>3
<1> QED BY <1>2, <1>3

LEMMA WritesOnly ==
    ASSUME TypeOK, NEW s \in Sessions, Write(s), NEW slot \in Slots
    PROVE  \/ Unaffected(slot)
           \/ /\ Sets(job[s]) /\ slot = SlotOf(job[s].model) /\ s \in Pending(slot)
              /\ DefaultsOf(slot)' = DefaultsOf(slot) \cup {job[s].model}
              /\ Pending(slot)' = Pending(slot) \ {s}
<1>1. /\ pc[s] = "write" /\ pc'[s] = "idle"
      /\ \A x \in Sessions \ {s} : pc'[x] = pc[x] /\ job'[x] = job[x]
      BY DEF Write, Finish, Goto, TypeOK
<1>2. Pending(slot)' = Pending(slot) \ {s}
      BY <1>1 DEF Pending
<1>3. job[s].model \in Models
      BY DEF TypeOK, Jobs
<1>4. CASE Sets(job[s]) /\ slot = SlotOf(job[s].model)
  <2>1. defaults' = defaults \cup {job[s].model}
        BY <1>4 DEF Write
  <2>2. s \in Pending(slot)
        BY <1>1, <1>4 DEF Pending, Sets
  <2> QED BY <1>2, <1>3, <1>4, <2>1, <2>2 DEF DefaultsOf, In
<1>5. CASE ~(Sets(job[s]) /\ slot = SlotOf(job[s].model))
  <2>1. DefaultsOf(slot)' \subseteq DefaultsOf(slot)
        BY <1>5 DEF Write, DefaultsOf, In
  <2> QED BY <1>2, <2>1 DEF Unaffected
<1> QED BY <1>4, <1>5

LEMMA BoundedNext ==
    ASSUME TypeOK, TypeOK', DefaultsBounded, Next
    PROVE  DefaultsBounded'
<1> SUFFICES ASSUME NEW slot \in Slots
             PROVE  Cardinality(DefaultsOf(slot)') + Cardinality(Pending(slot)') <= Cardinality(Sessions)
      BY DEF DefaultsBounded
<1>1. Cardinality(DefaultsOf(slot)) + Cardinality(Pending(slot)) <= Cardinality(Sessions)
      BY DEF DefaultsBounded
<1>2. CASE Unaffected(slot)
      BY <1>1, <1>2, FewerBounded DEF Unaffected
<1>3. ASSUME NEW s \in Sessions, Clear(s)
      PROVE  Cardinality(DefaultsOf(slot)') + Cardinality(Pending(slot)') <= Cardinality(Sessions)
  <2>1. CASE DefaultsOf(slot)' = {}
    <3> DEFINE Q == Pending(slot)'
    <3>1. Q \in SUBSET Sessions
          BY DEF Pending
    <3> HIDE DEF Q
    <3>2. Cardinality(Q) <= Cardinality(Sessions) /\ Cardinality(Q) \in Nat /\ Cardinality({}) = 0
          BY <3>1, RegistryAssumption, FS_Subset, FS_CardinalityType, FS_EmptySet
    <3>3. Cardinality({}) + Cardinality(Q) <= Cardinality(Sessions)
          BY <3>2
    <3> QED BY <2>1, <3>3 DEF Q
  <2>2. CASE DefaultsOf(slot)' = DefaultsOf(slot) /\ Pending(slot)' = Pending(slot)
        BY <1>1, <2>2
  <2> QED BY <1>3, <2>1, <2>2, ClearsOnly
<1>4. ASSUME NEW s \in Sessions, NEW m, s \in Pending(slot),
             DefaultsOf(slot)' = DefaultsOf(slot) \cup {m}, Pending(slot)' = Pending(slot) \ {s}
      PROVE  Cardinality(DefaultsOf(slot)') + Cardinality(Pending(slot)') <= Cardinality(Sessions)
  <2> DEFINE D == DefaultsOf(slot)
             P == Pending(slot)
  <2>1. IsFiniteSet(D) /\ IsFiniteSet(P) /\ Cardinality(D) \in Nat /\ Cardinality(P) \in Nat
        /\ Cardinality(Sessions) \in Nat
        BY Finite
  <2>2. s \in P /\ Cardinality(D) + Cardinality(P) <= Cardinality(Sessions)
        BY <1>1, <1>4
  <2>3. DefaultsOf(slot)' = D \cup {m} /\ Pending(slot)' = P \ {s}
        BY <1>4
  <2> HIDE DEF D, P
  <2>4. /\ Cardinality(D \cup {m}) = IF m \in D THEN Cardinality(D) ELSE Cardinality(D) + 1
        /\ Cardinality(P \ {s}) = Cardinality(P) - 1
        BY <2>1, <2>2, FS_AddElement, FS_RemoveElement
  <2>5. Cardinality(D \cup {m}) + Cardinality(P \ {s}) <= Cardinality(Sessions)
        BY <2>1, <2>2, <2>4
  <2> QED BY <2>3, <2>5
<1>5. ASSUME NEW s \in Sessions, Write(s)
      PROVE  Cardinality(DefaultsOf(slot)') + Cardinality(Pending(slot)') <= Cardinality(Sessions)
      BY <1>2, <1>4, <1>5, WritesOnly
<1>6. ASSUME NEW s \in Sessions, Ask(s) \/ Select(s) \/ Delete(s) \/ Abort(s)
      PROVE  Cardinality(DefaultsOf(slot)') + Cardinality(Pending(slot)') <= Cardinality(Sessions)
      BY <1>2, <1>6, ServesOnly
<1> QED BY <1>3, <1>5, <1>6 DEF Next

LEMMA BoundedInit ==
    ASSUME Init
    PROVE  DefaultsBounded
<1> SUFFICES ASSUME NEW slot \in Slots
             PROVE  Cardinality(DefaultsOf(slot)) + Cardinality(Pending(slot)) <= Cardinality(Sessions)
      BY DEF DefaultsBounded
<1> DEFINE D == DefaultsOf(slot)
<1>1. Pending(slot) = {}
      BY DEF Init, Pending
<1>2. PICK s \in Sessions : TRUE
      BY RegistryAssumption
<1>3. Cardinality({s}) = 1 /\ Cardinality({s}) <= Cardinality(Sessions) /\ Cardinality({}) = 0
      /\ Cardinality(Sessions) \in Nat
  <2>1. {} \cup {s} = {s} /\ s \notin {}
        OBVIOUS
  <2>2. Cardinality({}) = 0 /\ IsFiniteSet({})
        BY FS_EmptySet
  <2>3. Cardinality({s}) = 1
        BY <2>1, <2>2, FS_AddElement
  <2> QED BY <1>2, <2>2, <2>3, RegistryAssumption, FS_Subset, FS_CardinalityType
<1>4. \A m1, m2 \in D : m1 = m2
      BY DEF Init, DefaultsOf, In
<1> HIDE DEF D
<1>5. D = {} \/ \E m : D = {m}
      BY <1>4
<1>6. Cardinality(D) \in {0, 1}
  <2>1. CASE D = {}
        BY <1>3, <2>1
  <2>2. ASSUME NEW m, D = {m} PROVE Cardinality(D) = 1
    <3>1. {} \cup {m} = {m} /\ m \notin {}
          OBVIOUS
    <3>2. IsFiniteSet({}) /\ Cardinality({}) = 0
          BY FS_EmptySet
    <3>3. Cardinality({} \cup {m}) = Cardinality({}) + 1
          BY <3>1, <3>2, FS_AddElement
    <3> QED BY <2>2, <3>1, <3>2, <3>3
  <2> QED BY <1>5, <2>1, <2>2
<1>7. Cardinality(D) + Cardinality({}) <= Cardinality(Sessions)
      BY <1>3, <1>6
<1> QED BY <1>1, <1>7 DEF D

(* At most as many defaults of a kind as requests that overlap: one when   *)
(* they come one at a time, and overlapping requests never pile up more.   *)
THEOREM DefaultsAreBounded == Spec => []DefaultsBounded
<1>1. TypeOK /\ TypeOK' /\ DefaultsBounded /\ [Next]_registryVars => DefaultsBounded'
  <2>1. ASSUME DefaultsBounded, UNCHANGED registryVars PROVE DefaultsBounded'
        BY <2>1 DEF DefaultsBounded, registryVars, DefaultsOf, Pending
  <2> QED BY <2>1, BoundedNext
<1> QED BY <1>1, BoundedInit, RegistryTypeCorrect, PTL DEF Spec

---------------------------------------------------------------------------

---------------------------------------------------------------------------
(* How a default is lost.                                                  *)

LEMMA LostNext ==
    ASSUME TypeOK, DefaultsAreNotLost, NEW s \in Sessions, NEW slot \in settled',
           Ask(s) \/ Select(s) \/ Clear(s) \/ Write(s) \/ Delete(s) \/ Abort(s)
    PROVE  DefaultsOf(slot)' # {} \/ Pending(slot)' # {}
<1>1. slot \in settled => DefaultsOf(slot) # {} \/ Pending(slot) # {}
      BY DEF DefaultsAreNotLost
<1>2. job[s].model \in Models
      BY DEF TypeOK, Jobs
<1>3. CASE Ask(s) \/ Select(s)
  <2>1. defaults' = defaults /\ settled' = settled
        BY <1>3 DEF Ask, CreateModel, UpdateModel, DeleteModel, Serve, Select
  <2>2. \A x \in Sessions : pc[x] = "write" /\ job[x].flag = "default" =>
            pc'[x] = "write" /\ job'[x] = job[x]
        BY <1>3 DEF Ask, CreateModel, UpdateModel, DeleteModel, Serve, Select, Finish, Goto, TypeOK
  <2> QED BY <1>1, <2>1, <2>2 DEF DefaultsOf, Pending
<1>4. CASE Clear(s)
  <2>1. /\ pc[s] = "clear" /\ job[s].flag = "default" /\ job' = job /\ settled' = settled
        /\ pc' = [pc EXCEPT ![s] = "write"]
        /\ defaults' = defaults \ In(SlotOf(job[s].model))
        BY <1>4 DEF Clear, Goto, TypeOK
  <2>2. CASE slot = SlotOf(job[s].model)
        BY <2>1, <2>2 DEF Pending, TypeOK
  <2>3. CASE slot # SlotOf(job[s].model)
    <3>1. DefaultsOf(slot)' = DefaultsOf(slot)
          BY <2>1, <2>3 DEF DefaultsOf, In
    <3>2. Pending(slot) \subseteq Pending(slot)'
          BY <2>1 DEF Pending, TypeOK
    <3> QED BY <1>1, <2>1, <3>1, <3>2
  <2> QED BY <2>2, <2>3
<1>5. CASE Write(s)
  <2> DEFINE j == job[s]
  <2>1. /\ pc[s] = "write" /\ Settled(j)
        /\ defaults' = IF Sets(j) THEN defaults \cup {j.model}
                       ELSE IF j.flag = "plain" THEN defaults \ {j.model} ELSE defaults
        BY <1>5 DEF Write
  <2>2. \A x \in Sessions \ {s} : pc'[x] = pc[x] /\ job'[x] = job[x]
        BY <1>5 DEF Write, Finish, Goto, TypeOK
  <2>3. CASE slot = SlotOf(j.model) /\ Sets(j)
        BY <1>2, <2>1, <2>3 DEF DefaultsOf, In
  <2>4. CASE slot # SlotOf(j.model)
    <3>1. slot \in settled /\ s \notin Pending(slot)
          BY <2>1, <2>4 DEF Settled, Pending
    <3>2. DefaultsOf(slot) \subseteq DefaultsOf(slot)'
          BY <2>1, <2>4 DEF DefaultsOf, In
    <3>3. Pending(slot) \subseteq Pending(slot)'
          BY <2>2, <3>1 DEF Pending
    <3> QED BY <1>1, <3>1, <3>2, <3>3
  <2>5. CASE slot = SlotOf(j.model) /\ ~Sets(j)
    <3>1. slot \in settled /\ ~GivesUp(j)
          BY <2>1, <2>5 DEF Settled
    <3>2. j.flag # "default" /\ (j.flag = "plain" => j.model \notin defaults)
          BY <2>5, <3>1 DEF GivesUp
    <3>3. defaults' = defaults
          BY <2>1, <2>5, <3>2
    <3>4. Pending(slot) \subseteq Pending(slot)'
          BY <2>2, <3>2 DEF Pending
    <3> QED BY <1>1, <3>1, <3>3, <3>4 DEF DefaultsOf
  <2> QED BY <2>3, <2>4, <2>5
<1>6. CASE Delete(s) \/ Abort(s)
  <2>1. \A x \in Sessions \ {s} : pc'[x] = pc[x] /\ job'[x] = job[x]
        BY <1>6 DEF Delete, Abort, Finish, Goto, TypeOK
  <2>2. slot \in settled
        BY <1>6 DEF Delete, Abort
  <2>3. DefaultsOf(slot) \subseteq DefaultsOf(slot)'
        BY <1>2, <1>6 DEF Delete, Abort, DefaultsOf, In
  <2>4. s \notin Pending(slot)
        BY <1>6 DEF Delete, Abort, Pending
  <2> QED BY <1>1, <2>1, <2>2, <2>3, <2>4 DEF Pending
<1> QED BY <1>3, <1>4, <1>5, <1>6

(* A default is lost by being named, or by a request that had cleared it   *)
(* and came to nothing; not by requests about other rows that overlap.     *)
THEOREM DefaultsAreKept == Spec => []DefaultsAreNotLost
<1>1. TypeOK /\ DefaultsAreNotLost /\ [Next]_registryVars => DefaultsAreNotLost'
  <2>1. ASSUME TypeOK, DefaultsAreNotLost, Next PROVE DefaultsAreNotLost'
        BY <2>1, LostNext DEF Next, DefaultsAreNotLost
  <2>2. ASSUME DefaultsAreNotLost, UNCHANGED registryVars PROVE DefaultsAreNotLost'
        BY <2>2 DEF DefaultsAreNotLost, registryVars, DefaultsOf, Pending
  <2> QED BY <2>1, <2>2
<1>2. Init => DefaultsAreNotLost
  <2> SUFFICES ASSUME Init, NEW m \in defaults PROVE m \in DefaultsOf(SlotOf(m))
        BY DEF Init, DefaultsAreNotLost
  <2> QED BY DEF Init, DefaultsOf, In
<1> QED BY <1>1, <1>2, RegistryTypeCorrect, PTL DEF Spec

(* A step changes rows of the tenant that asked for it, and no others.     *)
THEOREM TenantsKeepApart == Spec => TenantsApart
<1>1. ASSUME TypeOK, [Next]_registryVars
      PROVE  [\A m \in Touched : \E s \in Sessions : pc[s] # pc'[s] /\ job[s].tenant = Owner[m]]_registryVars
  <2>1. CASE UNCHANGED registryVars
        BY <2>1
  <2>2. ASSUME NEW s \in Sessions, NEW m \in Touched,
               Ask(s) \/ Select(s) \/ Clear(s) \/ Write(s) \/ Delete(s) \/ Abort(s)
        PROVE  pc[s] # pc'[s] /\ job[s].tenant = Owner[m]
    <3>1. CASE Ask(s) \/ Select(s) \/ Abort(s)
          BY <3>1 DEF Ask, CreateModel, UpdateModel, DeleteModel, Serve, Select, Abort, Touched
    <3>2. CASE Clear(s)
      <4>1. m \in In(SlotOf(job[s].model))
            BY <3>2 DEF Clear, Touched
      <4>2. pc[s] = "clear" /\ pc'[s] = "write"
            BY <1>1, <3>2 DEF Clear, Goto, TypeOK
      <4>3. Owner[m] = Owner[job[s].model]
            BY <4>1 DEF In, SlotOf
      <4> QED BY <1>1, <4>2, <4>3 DEF TypeOK
    <3>3. CASE Write(s)
      <4>1. m = job[s].model
            BY <3>3 DEF Write, Touched
      <4>2. pc[s] = "write" /\ pc'[s] = "idle"
            BY <1>1, <3>3 DEF Write, Finish, Goto, TypeOK
      <4> QED BY <1>1, <4>1, <4>2 DEF TypeOK
    <3>4. CASE Delete(s)
      <4>1. m = job[s].model /\ Owner[m] = job[s].tenant
            BY <3>4 DEF Delete, Touched
      <4>2. pc[s] = "delete" /\ pc'[s] = "idle"
            BY <1>1, <3>4 DEF Delete, Finish, Goto, TypeOK
      <4> QED BY <4>1, <4>2
    <3> QED BY <2>2, <3>1, <3>2, <3>3, <3>4
  <2>3. CASE Next
        BY <2>2, <2>3 DEF Next
  <2> QED BY <1>1, <2>1, <2>3
<1> QED BY <1>1, RegistryTypeCorrect, PTL DEF Spec, TenantsApart
=============================================================================
