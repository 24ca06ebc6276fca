------------------------------- MODULE Access -------------------------------
(***************************************************************************)
(* Who may do what: memberships, API keys and grants, the requests that    *)
(* change them, and authz.resolve, which every other route asks.           *)
(*                                                                         *)
(* A request authenticates, checks, and writes in separate transactions;   *)
(* resolve is one READ COMMITTED transaction of three SELECTs.  So what a  *)
(* request is allowed is put together from different moments, and what it  *)
(* was allowed may be gone when it writes.                                 *)
(***************************************************************************)
EXTENDS Integers, FiniteSets

CONSTANTS
    Users, Tenants,
    Kbs,             \* ids of knowledge bases, drawn at creation
    Home,            \* the tenant in which each is created
    Founder,         \* the owner each tenant is set up with
    MemberRoles,     \* roles a member is given
    GrantRoles,      \* roles a grant is given
    Expiries,        \* values of expires_at, Never among them
    Sessions,
    MaxRequests,     \* bound
    MaxTime          \* bound on the clock

Viewer == 1
Editor == 2
Admin == 3
Owner == 4
Never == MaxTime + 1      \* expires_at IS NULL

ASSUME AccessAssumption ==
    /\ Users # {} /\ Tenants # {} /\ Kbs # {}
    /\ Home \in [Kbs -> Tenants] /\ Founder \in [Tenants -> Users]
    /\ MemberRoles \subseteq Viewer .. Owner /\ GrantRoles \subseteq Viewer .. Admin
    /\ Expiries \subseteq 0 .. Never
    /\ MaxRequests \in Nat /\ MaxTime \in Nat

VARIABLES
    role,        \* kb_user_tenant: the role of a user in a tenant, 0 for no member
    keys,        \* kb_api_key rows that are not revoked: <<tenant, user, id>>
    issued,      \* ids drawn for keys
    kbs,         \* kb_kb
    drawn,       \* ids of knowledge bases there are or were
    shared,      \* those with visibility team or tenant
    grant,       \* kb_grant, role 0 for no row
    clock, requests,
    pc, job,     \* the request each session serves, and how far it is
    held         \* history: the best standing its user has had since it began

tables == <<role, keys, issued, kbs, drawn, shared, grant>>
accessVars == <<tables, clock, requests, pc, job, held>>

Kept == -1                \* in an upsert: expires_at as it was
NoGrant == [role |-> 0, until |-> 0, revoked |-> FALSE]
InForce(g, now) == g.role # 0 /\ ~g.revoked /\ g.until > now

AdminRoutes == {"create_user", "update_user", "delete_user", "bulk_grant", "grant_bulk", "delete_kb"}
AclRoutes == {"grant", "revoke"}
KbRoutes == {"create_kb", "update_kb"}

(* The fields a route does not read are left at the first value.  A bulk   *)
(* grant of nothing changes nothing and is left out.                       *)
Requests ==
    LET Any(S) == {CHOOSE x \in S : TRUE}
        Request(ops, ks, sets, us, rs, untils, shares) ==
            [op : ops, kb : ks, kbs : sets, member : us, role : rs, until : untils, share : shares]
        Member == Request({"create_user", "update_user"}, Any(Kbs), {{}}, Users, MemberRoles, {0}, {FALSE})
        Leave == Request({"delete_user"}, Any(Kbs), {{}}, Users, {0}, {0}, {FALSE})
        Grant == Request({"grant"}, Kbs, {{}}, Users, GrantRoles, Expiries, {FALSE})
        Revoke == Request({"revoke"}, Kbs, {{}}, Users, {0}, {0}, {FALSE})
        Bulk == Request({"bulk_grant"}, Any(Kbs), SUBSET Kbs \ {{}}, Users, GrantRoles, {0}, {FALSE})
        Group == Request({"grant_bulk"}, Any(Kbs), SUBSET Kbs \ {{}}, Any(Users), GrantRoles, {0}, {FALSE})
        Kb == Request(KbRoutes, Kbs, {{}}, Any(Users), {0}, {0}, BOOLEAN)
        Drop == Request({"delete_kb"}, Kbs, {{}}, Any(Users), {0}, {0}, {FALSE})
    IN  Member \cup Leave \cup Grant \cup Revoke \cup Bulk \cup Group \cup Kb \cup Drop

(* tenant, user: the principal; as, granted, at: what resolve has read;    *)
(* targets: grants, and cut: keys, that a commit is going to change.       *)
Asked(t, u, r) ==
    [request |-> r, tenant |-> t, user |-> u, as |-> 0, granted |-> 0, at |-> 0,
     targets |-> {}, cut |-> {}]
Idle == Asked(CHOOSE t \in Tenants : TRUE, CHOOSE u \in Users : TRUE, CHOOSE r \in Requests : TRUE)

---------------------------------------------------------------------------
(* authz.resolve                                                           *)

(* Unknown users count as viewers.                                         *)
Effective(r) == IF r = 0 THEN Viewer ELSE r

(* What a tenant role, and a grant (0 for none), give in a knowledge base. *)
ByRole(t, r, k) ==
    IF k \notin kbs \/ Home[k] # t THEN 0
    ELSE IF r \in {Admin, Owner} THEN r
    ELSE IF r = Editor /\ k \in shared THEN Viewer
    ELSE 0
Higher(r1, r2) == IF r1 >= r2 THEN r1 ELSE r2
KbRole(t, r, g, k) == Higher(ByRole(t, r, k), g)

GrantedRole(u, k, now) == IF InForce(grant[<<k, u>>], now) THEN grant[<<k, u>>].role ELSE 0

(* What resolve would answer if it read everything at once.                *)
RoleIn(t, u, k, now) == KbRole(t, Effective(role[u][t]), GrantedRole(u, k, now), k)

---------------------------------------------------------------------------
(* The standing a route asks for, and what the tables say of it now.  A    *)
(* grant is in force by the clock of the transaction that reads it.        *)

Needed(op) == IF op = "update_kb" THEN Editor ELSE Admin

Standing(s) ==
    LET j == job[s]
    IN  IF j.request.op \in AdminRoutes THEN role[j.user][j.tenant]
        ELSE RoleIn(j.tenant, j.user, j.request.kb, IF pc[s] \in {"grants", "kbs"} THEN j.at ELSE clock)

(* Every step ends by keeping the history.                                 *)
Held == held' = [s \in Sessions |-> IF pc'[s] = "idle" THEN 0 ELSE Higher(held[s], Standing(s)')]

Goto(s, at) == pc' = [pc EXCEPT ![s] = at]
Finish(s) == Goto(s, "idle") /\ job' = [job EXCEPT ![s] = Idle]
Pass(s, condition, at) ==
    IF condition THEN Goto(s, at) /\ UNCHANGED job ELSE Finish(s)
OnlyReads == UNCHANGED <<tables, clock, requests>> /\ Held

(* verify_api_key, then the route.                                         *)
FirstCheck(op) ==
    IF op \in AdminRoutes THEN "admin"
    ELSE IF op \in AclRoutes THEN "tenant"
    ELSE IF op = "update_kb" THEN "role" ELSE "write"

(* An id can be named once it has been answered to its creation.           *)
NamesDrawn(r) ==
    /\ r.kbs \subseteq drawn
    /\ r.op \in AclRoutes \cup {"update_kb", "delete_kb"} => r.kb \in drawn
    /\ r.op = "create_kb" => r.kb \notin drawn

Ask(s, t, u, r) ==
    /\ pc[s] = "idle" /\ requests < MaxRequests
    /\ \E key \in keys : key[1] = t /\ key[2] = u
    /\ NamesDrawn(r)
    /\ requests' = requests + 1
    /\ job' = [job EXCEPT ![s] = Asked(t, u, r)]
    /\ Goto(s, FirstCheck(r.op))
    /\ UNCHANGED <<tables, clock>> /\ Held

(* is_tenant_admin; nobody removes himself.                                *)
CheckAdmin(s) ==
    /\ pc[s] = "admin"
    /\ LET j == job[s]
       IN  Pass(s, /\ role[j.user][j.tenant] \in {Admin, Owner}
                   /\ ~(j.request.op = "delete_user" /\ j.request.member = j.user), "write")
    /\ OnlyReads

(* _kb_tenant.                                                             *)
CheckTenant(s) ==
    /\ pc[s] = "tenant"
    /\ Pass(s, job[s].request.kb \in kbs /\ Home[job[s].request.kb] = job[s].tenant, "role")
    /\ OnlyReads

(* The transaction begins: now() is fixed.                                 *)
ResolveRole(s) ==
    /\ pc[s] = "role"
    /\ job' = [job EXCEPT ![s] = [@ EXCEPT !.as = Effective(role[job[s].user][job[s].tenant]), !.at = clock]]
    /\ Goto(s, "grants")
    /\ OnlyReads

ResolveGrants(s) ==
    /\ pc[s] = "grants"
    /\ job' = [job EXCEPT ![s].granted = GrantedRole(job[s].user, job[s].request.kb, job[s].at)]
    /\ Goto(s, "kbs")
    /\ OnlyReads

(* Mutant: clearance is taken for a role in the knowledge base.            *)
ResolveKbsByClearance(s) ==
    /\ pc[s] = "kbs"
    /\ LET j == job[s]
       IN  Pass(s, j.request.kb \in kbs /\ Higher(j.as, j.granted) >= Needed(j.request.op), "write")
    /\ OnlyReads

(* The knowledge bases, then is_kb_admin or can_write.                     *)
ResolveKbs(s) ==
    /\ pc[s] = "kbs"
    /\ LET j == job[s]
       IN  Pass(s, KbRole(j.tenant, j.as, j.granted, j.request.kb) >= Needed(j.request.op), "write")
    /\ OnlyReads

---------------------------------------------------------------------------
(* Writes. One statement or one short transaction each, but for adding     *)
(* and removing members, whose statements other requests can get between.  *)

Writes(s, op) == pc[s] = "write" /\ job[s].request.op = op
Leaves(untouched) == UNCHANGED <<untouched, clock, requests>> /\ Held

(* Mutant: nobody waits.                                                   *)
MemberFreeAlways(u, t) == TRUE

(* The row of a membership is locked from a request's first write to it    *)
(* until the request commits.                                              *)
Locking == {"joining", "leaving", "ungranted", "unkeyed"}
MemberFree(u, t) ==
    \A s \in Sessions : pc[s] \in Locking => ~(job[s].request.member = u /\ job[s].tenant = t)

(* create_user: upsert the membership; then insert a key and commit.       *)
CreateUser(s) ==
    /\ Writes(s, "create_user")
    /\ MemberFree(job[s].request.member, job[s].tenant)
    /\ Goto(s, "joining")
    /\ UNCHANGED job
    /\ OnlyReads
CreateKey(s) ==
    /\ pc[s] = "joining"
    /\ LET j == job[s] IN
       /\ role' = [role EXCEPT ![j.request.member][j.tenant] = j.request.role]
       /\ keys' = keys \cup {<<j.tenant, j.request.member, issued + 1>>}
       /\ issued' = issued + 1
    /\ Finish(s)
    /\ Leaves(<<kbs, drawn, shared, grant>>)

(* A DELETE or UPDATE of a row waits for its lock and then finds it or not.*)
Missing(s) ==
    /\ pc[s] = "write" /\ job[s].request.op \in {"update_user", "delete_user"}
    /\ role[job[s].request.member][job[s].tenant] = 0
    /\ Finish(s)
    /\ OnlyReads

UpdateUser(s) ==
    /\ Writes(s, "update_user")
    /\ LET j == job[s] IN
       /\ role[j.request.member][j.tenant] # 0 /\ MemberFree(j.request.member, j.tenant)
       /\ role' = [role EXCEPT ![j.request.member][j.tenant] = j.request.role]
    /\ Finish(s)
    /\ Leaves(<<keys, issued, kbs, drawn, shared, grant>>)

(* delete_user: the membership in this tenant, then all grants and all     *)
(* keys of the user, of every tenant.                                      *)
DeleteUser(s) ==
    /\ Writes(s, "delete_user")
    /\ LET j == job[s] IN
       /\ role[j.request.member][j.tenant] # 0 /\ MemberFree(j.request.member, j.tenant)
    /\ Goto(s, "leaving")
    /\ UNCHANGED job
    /\ OnlyReads

GrantsOf(u) == {g \in Kbs \X Users : g[2] = u /\ grant[g].role # 0 /\ ~grant[g].revoked}
KeysOf(u) == {key \in keys : key[2] = u}

(* The rows each UPDATE finds are locked and change at the commit.         *)
GrantsFree(targets) == \A s \in Sessions : pc[s] \in {"ungranted", "unkeyed"} => job[s].targets \cap targets = {}
RevokeGrants(s) ==
    /\ pc[s] = "leaving"
    /\ GrantsFree(GrantsOf(job[s].request.member))
    /\ job' = [job EXCEPT ![s].targets = GrantsOf(job[s].request.member)]
    /\ Goto(s, "ungranted")
    /\ OnlyReads
RevokeKeys(s) ==
    /\ pc[s] = "ungranted"
    /\ job' = [job EXCEPT ![s].cut = KeysOf(job[s].request.member)]
    /\ Goto(s, "unkeyed")
    /\ OnlyReads
DeleteCommit(s) ==
    /\ pc[s] = "unkeyed"
    /\ LET j == job[s] IN
       /\ role' = [role EXCEPT ![j.request.member][j.tenant] = 0]
       /\ grant' = [g \in DOMAIN grant |->
                       IF g \in j.targets THEN [grant[g] EXCEPT !.revoked = TRUE] ELSE grant[g]]
       /\ keys' = keys \ j.cut
    /\ Finish(s)
    /\ Leaves(<<issued, kbs, drawn, shared>>)

(* kb_grant: one row for a knowledge base and a user.                      *)
Upsert(targets, r) ==
    /\ GrantsFree(targets)
    /\ \A g \in targets : g[1] \in kbs
    /\ grant' = [g \in DOMAIN grant |->
                   IF g \in targets THEN [r EXCEPT !.until = IF r.until # Kept THEN r.until
                                                             ELSE IF grant[g].role = 0 THEN Never
                                                             ELSE grant[g].until]
                   ELSE grant[g]]

Grant(s) ==
    /\ Writes(s, "grant")
    /\ LET r == job[s].request
       IN  Upsert({<<r.kb, r.member>>}, [role |-> r.role, until |-> r.until, revoked |-> FALSE])
    /\ Finish(s)
    /\ Leaves(<<role, keys, issued, kbs, drawn, shared>>)

Revoke(s) ==
    /\ Writes(s, "revoke")
    /\ LET g == <<job[s].request.kb, job[s].request.member>> IN
       /\ GrantsFree({g})
       /\ grant' = [grant EXCEPT ![g].revoked = grant[g].role # 0]
    /\ Finish(s)
    /\ Leaves(<<role, keys, issued, kbs, drawn, shared>>)

(* bulk_grant and grant_bulk leave the expiry of a grant as it was.        *)
BulkGrant(s) ==
    /\ Writes(s, "bulk_grant")
    /\ LET r == job[s].request
       IN  Upsert(r.kbs \X {r.member}, [role |-> r.role, until |-> Kept, revoked |-> FALSE])
    /\ Finish(s)
    /\ Leaves(<<role, keys, issued, kbs, drawn, shared>>)

(* _resolve_targets: some of the members, by department, group or name.    *)
ResolveTargets(s) ==
    /\ Writes(s, "grant_bulk")
    /\ \E members \in SUBSET {u \in Users : role[u][job[s].tenant] # 0} :
          /\ job' = [job EXCEPT ![s].targets = job[s].request.kbs \X members]
          /\ Goto(s, "granting")
    /\ OnlyReads
GrantBulk(s) ==
    /\ pc[s] = "granting"
    /\ Upsert(job[s].targets, [role |-> job[s].request.role, until |-> Kept, revoked |-> FALSE])
    /\ Finish(s)
    /\ Leaves(<<role, keys, issued, kbs, drawn, shared>>)

CreateKb(s) ==
    /\ Writes(s, "create_kb")
    /\ LET r == job[s].request IN
       /\ r.kb \notin drawn /\ Home[r.kb] = job[s].tenant
       /\ kbs' = kbs \cup {r.kb} /\ drawn' = drawn \cup {r.kb}
       /\ shared' = IF r.share THEN shared \cup {r.kb} ELSE shared
    /\ Finish(s)
    /\ Leaves(<<role, keys, issued, grant>>)

(* The visibility; a name or a description changes nothing here.           *)
UpdateKb(s) ==
    /\ Writes(s, "update_kb")
    /\ LET r == job[s].request IN
       /\ r.kb \in kbs /\ Home[r.kb] = job[s].tenant
       /\ shared' = IF r.share THEN shared \cup {r.kb} ELSE shared \ {r.kb}
    /\ Finish(s)
    /\ Leaves(<<role, keys, issued, kbs, drawn, grant>>)

(* ON DELETE CASCADE takes the grants along.                               *)
DeleteKb(s) ==
    /\ Writes(s, "delete_kb")
    /\ LET r == job[s].request IN
       /\ r.kb \in kbs /\ Home[r.kb] = job[s].tenant
       /\ GrantsFree({r.kb} \X Users)
       /\ kbs' = kbs \ {r.kb} /\ shared' = shared \ {r.kb}
       /\ grant' = [g \in DOMAIN grant |-> IF g[1] = r.kb THEN NoGrant ELSE grant[g]]
    /\ Finish(s)
    /\ Leaves(<<role, keys, issued, drawn>>)

(* A row that is not there, a foreign key, an exception or a death: the    *)
(* transaction is rolled back.                                             *)
Abort(s) ==
    /\ pc[s] # "idle"
    /\ Finish(s)
    /\ OnlyReads

Tick ==
    /\ clock < MaxTime
    /\ clock' = clock + 1
    /\ UNCHANGED <<tables, requests, pc, job>> /\ Held

---------------------------------------------------------------------------
(* Tenants as they are set up; there may be knowledge bases already.       *)
Init ==
    /\ role = [u \in Users |-> [t \in Tenants |-> IF Founder[t] = u THEN Owner ELSE 0]]
    /\ keys = {<<t, Founder[t], 0>> : t \in Tenants} /\ issued = 0
    /\ drawn \in SUBSET Kbs /\ kbs = drawn /\ shared \in SUBSET kbs
    /\ grant = [g \in Kbs \X Users |-> NoGrant]
    /\ clock = 0 /\ requests = 0
    /\ pc = [s \in Sessions |-> "idle"]
    /\ job = [s \in Sessions |-> Idle]
    /\ held = [s \in Sessions |-> 0]

Check(s) == CheckAdmin(s) \/ CheckTenant(s) \/ ResolveRole(s) \/ ResolveGrants(s) \/ ResolveKbs(s)
Write(s) ==
    \/ CreateUser(s) \/ CreateKey(s) \/ Missing(s) \/ UpdateUser(s)
    \/ DeleteUser(s) \/ RevokeGrants(s) \/ RevokeKeys(s) \/ DeleteCommit(s)
    \/ Grant(s) \/ Revoke(s) \/ BulkGrant(s) \/ ResolveTargets(s) \/ GrantBulk(s)
    \/ CreateKb(s) \/ UpdateKb(s) \/ DeleteKb(s)

Next ==
    \/ \E s \in Sessions :
          \/ \E t \in Tenants, u \in Users, r \in Requests : Ask(s, t, u, r)
          \/ Check(s) \/ Write(s) \/ Abort(s)
    \/ Tick

Spec == Init /\ [][Next]_accessVars

---------------------------------------------------------------------------
Keys == Tenants \X Users \X Nat
Job == [request : Requests, tenant : Tenants, user : Users, as : 0 .. Owner, granted : 0 .. Admin,
        at : 0 .. MaxTime, targets : SUBSET (Kbs \X Users), cut : SUBSET Keys]
GrantRow == [role : 0 .. Admin, until : 0 .. Never, revoked : BOOLEAN]

TablesOK ==
    /\ role \in [Users -> [Tenants -> 0 .. Owner]]
    /\ keys \subseteq Keys /\ issued \in Nat
    /\ kbs \subseteq drawn /\ drawn \subseteq Kbs /\ shared \subseteq kbs
    /\ grant \in [Kbs \X Users -> GrantRow]
    /\ \A g \in Kbs \X Users : grant[g].role # 0 => g[1] \in kbs
SessionsOK ==
    /\ clock \in 0 .. MaxTime /\ requests \in 0 .. MaxRequests
    /\ pc \in [Sessions -> {"idle", "admin", "tenant", "role", "grants", "kbs", "write",
                            "granting"} \cup Locking]
    /\ job \in [Sessions -> Job]
    /\ \A s \in Sessions :
          /\ pc[s] = "joining" => job[s].request.op = "create_user"
          /\ pc[s] = "granting" => job[s].request.op = "grant_bulk"

(* Types: grants are for knowledge bases that exist.                       *)
TypeOK ==
    /\ TablesOK /\ SessionsOK
    /\ held \in [Sessions -> 0 .. Owner]

(* A key that is not revoked belongs to a member: adding a member and      *)
(* removing him are several statements each, and may overlap.              *)
KeysBelongToMembers == \A key \in keys : role[key[2]][key[1]] # 0

(* A route that passed its check was entitled to at some moment since the  *)
(* request began, though the check reads at three.                         *)
PermissionHeld ==
    \A s \in Sessions :
        pc[s] \in {"write", "granting"} \cup Locking =>
            \/ job[s].request.op = "create_kb"
            \/ held[s] >= Needed(job[s].request.op)

(* _user_effective_kbs. Mutant: an editor sees all.                        *)
ListedAnyVisibility(t, u) ==
    {k \in {k \in kbs : Home[k] = t} :
        role[u][t] # 0 /\ (role[u][t] \in {Admin, Owner, Editor} \/ GrantedRole(u, k, clock) # 0)}
Listed(t, u) ==
    {k \in {k \in kbs : Home[k] = t} :
        /\ role[u][t] # 0
        /\ \/ role[u][t] \in {Admin, Owner}
           \/ role[u][t] = Editor /\ k \in shared
           \/ GrantedRole(u, k, clock) # 0}

(* The two derivations agree: what a member is listed to see is what       *)
(* resolve lets him see of his tenant.                                     *)
ListedAsResolved ==
    \A t \in Tenants, u \in Users :
        role[u][t] # 0 => Listed(t, u) = {k \in kbs : Home[k] = t /\ RoleIn(t, u, k, clock) # 0}
---------------------------------------------------------------------------
(* What the proofs need besides.                                           *)

(* One session at a time has the row of a membership.                      *)
LockExclusive ==
    \A s1, s2 \in Sessions :
        /\ pc[s1] \in Locking /\ pc[s2] \in Locking
        /\ job[s1].request.member = job[s2].request.member /\ job[s1].tenant = job[s2].tenant
        => s1 = s2

(* A removal has found every key it must revoke before it commits.         *)
CutCovers ==
    \A s \in Sessions : pc[s] = "unkeyed" =>
        \A key \in keys : key[1] = job[s].tenant /\ key[2] = job[s].request.member => key \in job[s].cut

KeysInv == TypeOK /\ LockExclusive /\ CutCovers /\ KeysBelongToMembers

(* The history covers the present, and what resolve has read so far.       *)
HeldCovers == \A s \in Sessions : pc[s] # "idle" => held[s] >= Standing(s)
KbDrawn ==
    \A s \in Sessions :
        /\ pc[s] = "admin" => job[s].request.op \in AdminRoutes
        /\ pc[s] \in {"tenant", "role", "grants", "kbs"} =>
              job[s].request.kb \in drawn /\ job[s].request.op \in AclRoutes \cup {"update_kb"}
RoleCovered ==
    \A s \in Sessions :
        /\ pc[s] \in {"grants", "kbs"} /\ job[s].as \in {Admin, Owner}
        /\ job[s].request.kb \in kbs /\ Home[job[s].request.kb] = job[s].tenant
        => held[s] >= job[s].as
GrantCovered == \A s \in Sessions : pc[s] = "kbs" => held[s] >= job[s].granted

PermissionInv == TypeOK /\ HeldCovers /\ KbDrawn /\ RoleCovered /\ GrantCovered /\ PermissionHeld
=============================================================================
