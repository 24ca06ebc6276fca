------------------------------ MODULE Registry ------------------------------
(***************************************************************************)
(* The registry of models. A tenant should have one default for each kind  *)
(* of model; no constraint says so, the code keeps it in two transactions: *)
(* one clears the other defaults, a second, on another connection, writes  *)
(* the row. What reads the defaults, resolve_model, changes nothing.       *)
(***************************************************************************)
EXTENDS Naturals, FiniteSets

CONSTANTS
    Models,          \* ids of rows, drawn at creation
    Tenants, System, \* System: tenant_id IS NULL
    Kinds,
    Owner, Kind,     \* what is written in a row when it is created
    Sessions,
    MaxRequests      \* bound

ASSUME RegistryAssumption ==
    /\ Models # {} /\ Tenants # {} /\ System \notin Tenants
    /\ Owner \in [Models -> Tenants \cup {System}] /\ Kind \in [Models -> Kinds]
    /\ IsFiniteSet(Models) /\ IsFiniteSet(Sessions) /\ Sessions # {}
    /\ MaxRequests \in Nat

VARIABLES
    rows,        \* kb_model_config
    drawn,       \* ids there are or were
    defaults,    \* rows with is_default = 1
    requests, pc, job,
    settled      \* history: the kinds that have a default nobody has given up

registryVars == <<rows, drawn, defaults, requests, pc, job, settled>>

Slots == Tenants \X Kinds
SlotOf(m) == <<Owner[m], Kind[m]>>
In(slot) == {m \in Models : SlotOf(m) = slot}
DefaultsOf(slot) == defaults \cap In(slot)

(* isDefault in the body: set, not set, or not there.                      *)
Flags == {"default", "plain", "kept"}
Jobs == [model : Models, tenant : Tenants, flag : Flags, creates : BOOLEAN]

Idle == CHOOSE j \in Jobs : TRUE

Goto(s, at) == pc' = [pc EXCEPT ![s] = at]
Finish(s) == Goto(s, "idle") /\ job' = [job EXCEPT ![s] = Idle]

FirstStep(flag) == IF flag = "default" THEN "clear" ELSE "write"

Serve(s, j, at) ==
    /\ pc[s] = "idle" /\ requests < MaxRequests
    /\ requests' = requests + 1
    /\ job' = [job EXCEPT ![s] = j]
    /\ Goto(s, at)
    /\ UNCHANGED <<rows, defaults, settled>>

CreateModel(s, m, flag) ==
    /\ m \notin drawn /\ Owner[m] \in Tenants /\ flag \in {"default", "plain"}
    /\ drawn' = drawn \cup {m}
    /\ Serve(s, [model |-> m, tenant |-> Owner[m], flag |-> flag, creates |-> TRUE],
             FirstStep(flag))

UpdateModel(s, t, m, flag) ==
    /\ m \in drawn
    /\ Serve(s, [model |-> m, tenant |-> t, flag |-> flag, creates |-> FALSE], "select")
    /\ UNCHANGED drawn

(* Mutant: the row is looked for in all tenants.                           *)
SelectOfAll(s) ==
    /\ pc[s] = "select"
    /\ \/ job[s].model \notin rows /\ Finish(s)
       \/ job[s].model \in rows /\ Goto(s, FirstStep(job[s].flag)) /\ UNCHANGED job
    /\ UNCHANGED <<rows, drawn, defaults, requests, settled>>

Select(s) ==
    /\ pc[s] = "select"
    /\ LET found == job[s].model \in rows /\ Owner[job[s].model] = job[s].tenant IN
       \/ ~found /\ Finish(s)
       \/ found /\ Goto(s, FirstStep(job[s].flag)) /\ UNCHANGED job
    /\ UNCHANGED <<rows, drawn, defaults, requests, settled>>

(* Mutants: nothing is cleared, or every kind.                             *)
ClearNone(s) ==
    /\ pc[s] = "clear"
    /\ Goto(s, "write")
    /\ UNCHANGED <<rows, drawn, defaults, requests, job, settled>>
ClearKinds(s) ==
    /\ pc[s] = "clear"
    /\ defaults' = {m \in defaults : Owner[m] # Owner[job[s].model]}
    /\ Goto(s, "write")
    /\ UNCHANGED <<rows, drawn, requests, job, settled>>

(* _clear_default, committed before the row is written.                    *)
Clear(s) ==
    /\ pc[s] = "clear"
    /\ defaults' = defaults \ In(SlotOf(job[s].model))
    /\ Goto(s, "write")
    /\ UNCHANGED <<rows, drawn, requests, job, settled>>

(* What a write of the row makes of the defaults of its kind.              *)
Sets(j) == j.flag = "default" /\ (j.creates \/ j.model \in rows)
GivesUp(j) ==
    \/ j.flag = "default" /\ ~Sets(j)
    \/ j.flag = "plain" /\ j.model \in defaults

Settled(j) ==
    settled' = IF Sets(j) THEN settled \cup {SlotOf(j.model)}
               ELSE IF GivesUp(j) THEN settled \ {SlotOf(j.model)}
               ELSE settled

(* The INSERT, or the UPDATE by id: of a row that has been deleted since,  *)
(* it changes nothing, and the defaults cleared for it stay cleared.       *)
Write(s) ==
    /\ pc[s] = "write"
    /\ LET j == job[s] IN
       /\ rows' = IF j.creates THEN rows \cup {j.model} ELSE rows
       /\ defaults' = IF Sets(j) THEN defaults \cup {j.model}
                      ELSE IF j.flag = "plain" THEN defaults \ {j.model}
                      ELSE defaults
       /\ Settled(j)
    /\ Finish(s)
    /\ UNCHANGED <<drawn, requests>>

DeleteModel(s, t, m) ==
    /\ m \in drawn
    /\ Serve(s, [model |-> m, tenant |-> t, flag |-> "kept", creates |-> FALSE], "delete")
    /\ UNCHANGED drawn

Delete(s) ==
    /\ pc[s] = "delete"
    /\ LET m == job[s].model IN
       IF Owner[m] = job[s].tenant
       THEN /\ rows' = rows \ {m} /\ defaults' = defaults \ {m}
            /\ settled' = IF m \in defaults THEN settled \ {SlotOf(m)} ELSE settled
       ELSE UNCHANGED <<rows, defaults, settled>>
    /\ Finish(s)
    /\ UNCHANGED <<drawn, requests>>

(* An exception or a death: the transaction is rolled back, not the one    *)
(* that has cleared the defaults.                                          *)
Abort(s) ==
    /\ pc[s] # "idle"
    /\ settled' = IF pc[s] = "write" /\ job[s].flag = "default"
                  THEN settled \ {SlotOf(job[s].model)} ELSE settled
    /\ Finish(s)
    /\ UNCHANGED <<rows, drawn, defaults, requests>>

---------------------------------------------------------------------------
(* bootstrap_models seeds a default of the system for each kind it has the *)
(* settings of, or for none. Tenants may have models already.              *)
Init ==
    /\ rows \in SUBSET Models /\ drawn = rows
    /\ defaults \in SUBSET rows
    /\ \A m1, m2 \in defaults : SlotOf(m1) = SlotOf(m2) => m1 = m2
    /\ requests = 0
    /\ pc = [s \in Sessions |-> "idle"]
    /\ job = [s \in Sessions |-> Idle]
    /\ settled = {SlotOf(m) : m \in defaults}

Ask(s) ==
    \E m \in Models :
        \/ \E flag \in Flags : CreateModel(s, m, flag)
        \/ \E t \in Tenants, flag \in Flags : UpdateModel(s, t, m, flag)
        \/ \E t \in Tenants : DeleteModel(s, t, m)

Next == \E s \in Sessions : Ask(s) \/ Select(s) \/ Clear(s) \/ Write(s) \/ Delete(s) \/ Abort(s)

Spec == Init /\ [][Next]_registryVars

---------------------------------------------------------------------------
(* A session that has cleared the defaults of a kind, to set one.          *)
Pending(slot) == {s \in Sessions : pc[s] = "write" /\ job[s].flag = "default" /\ SlotOf(job[s].model) = slot}

(* Types; a request that clears or writes is about a row of its tenant.    *)
TypeOK ==
    /\ defaults \subseteq rows /\ rows \subseteq drawn /\ drawn \subseteq Models
    /\ requests \in 0 .. MaxRequests
    /\ pc \in [Sessions -> {"idle", "select", "clear", "write", "delete"}]
    /\ job \in [Sessions -> Jobs]
    /\ settled \subseteq (Tenants \cup {System}) \X Kinds
    /\ \A s \in Sessions : pc[s] \in {"clear", "write"} =>
          job[s].model \in drawn /\ Owner[job[s].model] = job[s].tenant
    /\ \A s \in Sessions : pc[s] = "clear" => job[s].flag = "default"

(* One default for each kind is kept by requests that come one at a time;  *)
(* when n overlap there may be n, and no more, however often it happens.   *)
DefaultsBounded ==
    \A slot \in Slots :
        Cardinality(DefaultsOf(slot)) + Cardinality(Pending(slot)) <= Cardinality(Sessions)

(* A tenant's default for a kind goes away while another is being set, or  *)
(* because the default itself was deleted or unset, or because a request   *)
(* that had cleared it failed or found its own row deleted; never because  *)
(* of the other rows, kinds and tenants.                                   *)
DefaultsAreNotLost ==
    \A slot \in settled : DefaultsOf(slot) # {} \/ Pending(slot) # {}

Touched == (rows \ rows') \cup (rows' \ rows) \cup (defaults \ defaults') \cup (defaults' \ defaults)

(* A request changes rows of its own tenant only, and never the system's.  *)
TenantsApart ==
    [][\A m \in Touched : \E s \in Sessions : pc[s] # pc'[s] /\ job[s].tenant = Owner[m]]_registryVars

=============================================================================
