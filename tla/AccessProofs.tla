---------------------------- MODULE AccessProofs ----------------------------
(***************************************************************************)
(* Who holds keys, and who passes the checks, for any number of users,     *)
(* tenants, knowledge bases and requests.                                  *)
(***************************************************************************)
EXTENDS Access, TLAPS

States == {"idle", "admin", "tenant", "role", "grants", "kbs", "write", "granting"} \cup Locking
Routes == AdminRoutes \cup AclRoutes \cup KbRoutes

---------------------------------------------------------------------------
(* What a request's fields hold.                                           *)

LEMMA RequestTyped ==
    ASSUME NEW r \in Requests
    PROVE  /\ r.op \in Routes /\ r.kb \in Kbs /\ r.kbs \subseteq Kbs /\ r.member \in Users
           /\ r.role \in 0 .. Owner
           /\ r.op \in {"create_user", "update_user"} => r.role \in Viewer .. Owner
           /\ r.op \in {"grant", "bulk_grant", "grant_bulk"} => r.role \in Viewer .. Admin
           /\ r.op = "grant" => r.until \in 0 .. Never
<1>1. (CHOOSE k \in Kbs : TRUE) \in Kbs /\ (CHOOSE u \in Users : TRUE) \in Users
      BY AccessAssumption
<1> DEFINE K == CHOOSE k \in Kbs : TRUE
           U == CHOOSE u \in Users : TRUE
<1>2. /\ r.op \in Routes /\ r.kb \in Kbs \cup {K} /\ r.kbs \subseteq Kbs /\ r.member \in Users \cup {U}
      /\ r.role \in MemberRoles \cup GrantRoles \cup {0}
      /\ r.op \in {"create_user", "update_user"} => r.role \in MemberRoles
      /\ r.op \in {"grant", "bulk_grant", "grant_bulk"} => r.role \in GrantRoles
      /\ r.op = "grant" => r.until \in Expiries
  <2> HIDE DEF K, U
  <2> QED BY DEF Requests, Routes, AdminRoutes, AclRoutes, KbRoutes, K, U
<1>3. MemberRoles \subseteq 1 .. 4 /\ GrantRoles \subseteq 1 .. 3 /\ Expiries \subseteq 0 .. Never
      BY AccessAssumption DEF Viewer, Admin, Owner
<1>4. r.op \in Routes /\ r.kb \in Kbs /\ r.kbs \subseteq Kbs /\ r.member \in Users
      BY <1>1, <1>2
<1> HIDE DEF K, U
<1>5. r.role \in 0 .. 4
  <2>1. MemberRoles \cup GrantRoles \cup {0} \subseteq 0 .. 4
        BY <1>3
  <2> QED BY <1>2, <2>1
<1>6. r.op \in {"create_user", "update_user"} => r.role \in 1 .. 4
      BY <1>2, <1>3
<1>7. r.op \in {"grant", "bulk_grant", "grant_bulk"} => r.role \in 1 .. 3
      BY <1>2, <1>3
<1>8. r.op = "grant" => r.until \in 0 .. Never
      BY <1>2, <1>3
<1> QED BY ONLY <1>4, <1>5, <1>6, <1>7, <1>8 DEF Viewer, Admin, Owner

LEMMA RequestsExist == Requests # {}
<1>1. PICK k \in Kbs : TRUE
      BY AccessAssumption
<1> DEFINE drop == [op |-> "delete_kb", kb |-> k, kbs |-> {}, member |-> CHOOSE u \in Users : TRUE,
                    role |-> 0, until |-> 0, share |-> FALSE]
<1>2. drop \in Requests
      BY DEF Requests
<1> QED BY <1>2

LEMMA AskedTyped ==
    ASSUME NEW t \in Tenants, NEW u \in Users, NEW r \in Requests
    PROVE  Asked(t, u, r) \in Job
BY AccessAssumption DEF Asked, Job, Owner, Admin

LEMMA IdleTyped == Idle \in Job
<1>1. /\ (CHOOSE t \in Tenants : TRUE) \in Tenants
      /\ (CHOOSE u \in Users : TRUE) \in Users
      /\ (CHOOSE r \in Requests : TRUE) \in Requests
      BY AccessAssumption, RequestsExist
<1> QED BY <1>1, AskedTyped DEF Idle

---------------------------------------------------------------------------
(* What authz.resolve works out.                                           *)

LEMMA GrantedTyped ==
    ASSUME TablesOK, NEW u \in Users, NEW k \in Kbs, NEW now
    PROVE  GrantedRole(u, k, now) \in 0 .. Admin
BY DEF TablesOK, GrantRow, GrantedRole, Admin

LEMMA RoleTyped ==
    ASSUME NEW t, NEW r \in 0 .. Owner, NEW g \in 0 .. Admin, NEW k
    PROVE  KbRole(t, r, g, k) \in 0 .. Owner /\ ByRole(t, r, k) \in 0 .. Owner
BY DEF KbRole, ByRole, Higher, Viewer, Editor, Admin, Owner

LEMMA RoleInTyped ==
    ASSUME TablesOK, NEW t \in Tenants, NEW u \in Users, NEW k \in Kbs, NEW now
    PROVE  RoleIn(t, u, k, now) \in 0 .. Owner
<1>1. Effective(role[u][t]) \in 0 .. Owner
      BY DEF TablesOK, Effective, Viewer, Owner
<1> QED BY <1>1, GrantedTyped, RoleTyped DEF RoleIn

LEMMA StandingTyped ==
    TablesOK /\ SessionsOK => \A s \in Sessions : Standing(s) \in 0 .. Owner
<1> SUFFICES ASSUME TablesOK, SessionsOK, NEW s \in Sessions PROVE Standing(s) \in 0 .. Owner
      OBVIOUS
<1>1. job[s].request \in Requests /\ job[s].tenant \in Tenants /\ job[s].user \in Users
      BY DEF SessionsOK, Job
<1>2. job[s].request.kb \in Kbs
      BY <1>1, RequestTyped
<1>3. role[job[s].user][job[s].tenant] \in 0 .. Owner
      BY <1>1 DEF TablesOK
<1> QED BY <1>1, <1>2, <1>3, RoleInTyped DEF Standing

(* The history is typed when the rest is.                                  *)
LEMMA HeldTyped ==
    ASSUME TypeOK, Held, TablesOK', SessionsOK'
    PROVE  TypeOK'
<1>1. (TablesOK /\ SessionsOK => \A s \in Sessions : Standing(s) \in 0 .. Owner)'
      BY StandingTyped, PTL
<1>2. \A s \in Sessions : Standing(s)' \in 0 .. Owner
      BY <1>1
<1>3. held' \in [Sessions -> 0 .. Owner]
      BY <1>2 DEF Held, Higher, TypeOK, Owner
<1> QED BY <1>3 DEF TypeOK

---------------------------------------------------------------------------
(* Where a session may go.                                                 *)

LEMMA GotoTyped ==
    ASSUME SessionsOK, NEW s \in Sessions, NEW at \in States, Goto(s, at),
           job' \in [Sessions -> Job], clock' \in 0 .. MaxTime, requests' \in 0 .. MaxRequests,
           \A x \in Sessions \ {s} : job'[x] = job[x],
           at = "joining" => job'[s].request.op = "create_user",
           at = "granting" => job'[s].request.op = "grant_bulk"
    PROVE  SessionsOK'
<1>1. pc' \in [Sessions -> States]
      BY DEF SessionsOK, Goto, States
<1>2. \A x \in Sessions : pc'[x] = IF x = s THEN at ELSE pc[x]
      BY DEF SessionsOK, Goto
<1> QED BY <1>1, <1>2 DEF SessionsOK, States

LEMMA FinishTyped ==
    ASSUME SessionsOK, NEW s \in Sessions, Finish(s), UNCHANGED <<clock, requests>>
    PROVE  SessionsOK'
<1>1. job' \in [Sessions -> Job]
      BY IdleTyped DEF Finish, SessionsOK
<1>2. \A x \in Sessions \ {s} : job'[x] = job[x]
      BY DEF Finish, SessionsOK
<1> QED BY <1>1, <1>2, GotoTyped DEF Finish, States, SessionsOK

LEMMA PassTyped ==
    ASSUME SessionsOK, NEW s \in Sessions, NEW condition, NEW at \in States \ {"joining", "granting"},
           Pass(s, condition, at), UNCHANGED <<clock, requests>>
    PROVE  SessionsOK'
<1>1. CASE condition
      BY <1>1, GotoTyped DEF Pass, SessionsOK
<1>2. CASE ~condition
      BY <1>2, FinishTyped DEF Pass
<1> QED BY <1>1, <1>2

LEMMA TablesKept ==
    ASSUME TablesOK, UNCHANGED tables
    PROVE  TablesOK'
BY DEF TablesOK, tables

(* The fields of a session's local variables.                              *)
LEMMA JobTyped ==
    ASSUME SessionsOK, NEW s \in Sessions
    PROVE  /\ job[s] \in Job
           /\ job[s].request \in Requests /\ job[s].tenant \in Tenants /\ job[s].user \in Users
           /\ job[s].targets \subseteq Kbs \X Users /\ job[s].cut \subseteq Keys
           /\ job[s].at \in 0 .. MaxTime
BY DEF SessionsOK, Job

LEMMA CheckTyped ==
    ASSUME TypeOK, NEW s \in Sessions, Check(s)
    PROVE  TypeOK'
<1> USE DEF TypeOK
<1>1. UNCHANGED tables /\ UNCHANGED <<clock, requests>> /\ Held
      BY DEF Check, CheckAdmin, CheckTenant, ResolveRole, ResolveGrants, ResolveKbs, OnlyReads
<1>2. TablesOK'
      BY <1>1, TablesKept
<1>3. {"write", "role", "grants", "kbs"} \subseteq States \ {"joining", "granting"}
      BY DEF States
<1>4. ASSUME CheckAdmin(s) PROVE SessionsOK'
      BY <1>1, <1>3, <1>4, PassTyped DEF CheckAdmin
<1>5. ASSUME CheckTenant(s) PROVE SessionsOK'
      BY <1>1, <1>3, <1>5, PassTyped DEF CheckTenant
<1>6. ASSUME ResolveRole(s) PROVE SessionsOK'
  <2>1. Effective(role[job[s].user][job[s].tenant]) \in 0 .. Owner
        BY JobTyped DEF TablesOK, Effective, Viewer, Owner
  <2> DEFINE read == [job[s] EXCEPT !.as = Effective(role[job[s].user][job[s].tenant]), !.at = clock]
  <2>2. read \in Job
        BY <2>1, JobTyped DEF SessionsOK, Job
  <2>3. job' = [job EXCEPT ![s] = read]
        BY <1>6 DEF ResolveRole
  <2> HIDE DEF read
  <2>4. job' \in [Sessions -> Job] /\ \A x \in Sessions \ {s} : job'[x] = job[x]
        BY <2>2, <2>3 DEF SessionsOK
  <2> QED BY <1>1, <1>3, <1>6, <2>4, GotoTyped DEF ResolveRole, SessionsOK
<1>7. ASSUME ResolveGrants(s) PROVE SessionsOK'
  <2>1. GrantedRole(job[s].user, job[s].request.kb, job[s].at) \in 0 .. Admin
        BY JobTyped, RequestTyped, GrantedTyped
  <2>2. job' \in [Sessions -> Job]
        BY <1>7, <2>1 DEF ResolveGrants, SessionsOK, Job
  <2> QED BY <1>1, <1>3, <1>7, <2>2, GotoTyped DEF ResolveGrants, SessionsOK
<1>8. ASSUME ResolveKbs(s) PROVE SessionsOK'
      BY <1>1, <1>3, <1>8, PassTyped DEF ResolveKbs
<1> QED BY <1>1, <1>2, <1>4, <1>5, <1>6, <1>7, <1>8, HeldTyped DEF Check

LEMMA UpsertTyped ==
    ASSUME TablesOK, NEW targets \in SUBSET (Kbs \X Users),
           NEW r \in [role : 0 .. Admin, until : {Kept} \cup 0 .. Never, revoked : BOOLEAN],
           Upsert(targets, r)
    PROVE  /\ grant' \in [Kbs \X Users -> GrantRow]
           /\ \A g \in Kbs \X Users : grant'[g].role # 0 => g[1] \in kbs
<1>1. DOMAIN grant = Kbs \X Users
      BY DEF TablesOK
<1>2. Never \in 0 .. Never
      BY AccessAssumption DEF Never
<1> DEFINE new(g) == [r EXCEPT !.until = IF r.until # Kept THEN r.until
                                         ELSE IF grant[g].role = 0 THEN Never
                                         ELSE grant[g].until]
<1>3. grant' = [g \in Kbs \X Users |-> IF g \in targets THEN new(g) ELSE grant[g]]
      BY <1>1 DEF Upsert
<1>4. ASSUME NEW g \in Kbs \X Users PROVE new(g) \in GrantRow /\ grant[g] \in GrantRow
      BY <1>2 DEF TablesOK, GrantRow
<1> HIDE DEF new
<1>5. grant' \in [Kbs \X Users -> GrantRow]
      BY <1>3, <1>4
<1>6. ASSUME NEW g \in Kbs \X Users, grant'[g].role # 0 PROVE g[1] \in kbs
  <2>1. CASE g \in targets
        BY <2>1 DEF Upsert
  <2>2. CASE g \notin targets
        BY <1>3, <1>6, <2>2 DEF TablesOK
  <2> QED BY <2>1, <2>2
<1> QED BY <1>5, <1>6

(* The actions that only move on.                                          *)
LEMMA MoveTyped ==
    ASSUME TypeOK, NEW s \in Sessions,
           \/ CreateUser(s) \/ Missing(s) \/ DeleteUser(s) \/ RevokeGrants(s)
           \/ RevokeKeys(s) \/ ResolveTargets(s) \/ Abort(s)
    PROVE  TypeOK'
<1> USE DEF TypeOK
<1>1. UNCHANGED tables /\ UNCHANGED <<clock, requests>> /\ Held
      BY DEF CreateUser, Missing, DeleteUser, RevokeGrants, RevokeKeys, ResolveTargets, Abort, OnlyReads
<1>2. TablesOK'
      BY <1>1, TablesKept
<1>3. clock' \in 0 .. MaxTime /\ requests' \in 0 .. MaxRequests
      BY <1>1 DEF SessionsOK
<1>4. {"joining", "leaving", "ungranted", "unkeyed", "granting"} \subseteq States
      BY DEF States, Locking
<1>5. CASE CreateUser(s) \/ DeleteUser(s)
  <2>1. job' \in [Sessions -> Job]
        BY <1>5 DEF CreateUser, DeleteUser, SessionsOK
  <2>2. SessionsOK'
        BY <1>3, <1>4, <1>5, <2>1, GotoTyped DEF CreateUser, DeleteUser, Writes
  <2> QED BY <1>1, <1>2, <2>2, HeldTyped
<1>6. CASE Missing(s) \/ Abort(s)
  <2>1. SessionsOK'
        BY <1>1, <1>6, FinishTyped DEF Missing, Abort
  <2> QED BY <1>1, <1>2, <2>1, HeldTyped
<1>7. CASE RevokeGrants(s)
  <2>2. GrantsOf(job[s].request.member) \subseteq Kbs \X Users
        BY DEF GrantsOf
  <2>3. job' \in [Sessions -> Job]
        BY <1>7, <2>2 DEF RevokeGrants, SessionsOK, Job
  <2>4. SessionsOK'
        BY <1>3, <1>4, <1>7, <2>3, GotoTyped DEF RevokeGrants
  <2> QED BY <1>1, <1>2, <2>4, HeldTyped
<1>8. CASE RevokeKeys(s)
  <2>1. KeysOf(job[s].request.member) \subseteq Keys
        BY DEF KeysOf, TablesOK
  <2>2. job' \in [Sessions -> Job]
        BY <1>8, <2>1 DEF RevokeKeys, SessionsOK, Job
  <2>3. SessionsOK'
        BY <1>3, <1>4, <1>8, <2>2, GotoTyped DEF RevokeKeys
  <2> QED BY <1>1, <1>2, <2>3, HeldTyped
<1>9. CASE ResolveTargets(s)
  <2>1. PICK members \in SUBSET {u \in Users : role[u][job[s].tenant] # 0} :
            job' = [job EXCEPT ![s].targets = job[s].request.kbs \X members] /\ Goto(s, "granting")
        BY <1>9 DEF ResolveTargets
  <2>2. job[s].request.kbs \X members \subseteq Kbs \X Users
        BY JobTyped, RequestTyped, <2>1
  <2>3. job' \in [Sessions -> Job]
        BY <2>1, <2>2 DEF SessionsOK, Job
  <2>4. /\ \A x \in Sessions \ {s} : job'[x] = job[x]
        /\ job'[s].request.op = "grant_bulk"
        BY <1>9, <2>1 DEF ResolveTargets, Writes, SessionsOK, Job
  <2>5. SessionsOK'
        BY <1>3, <1>4, <2>1, <2>3, <2>4, GotoTyped
  <2> QED BY <1>1, <1>2, <2>5, HeldTyped
<1> QED BY <1>5, <1>6, <1>7, <1>8, <1>9

(* The actions that commit.                                                *)
Commits(s) ==
    \/ CreateKey(s) \/ UpdateUser(s) \/ DeleteCommit(s) \/ Grant(s) \/ Revoke(s)
    \/ BulkGrant(s) \/ GrantBulk(s) \/ CreateKb(s) \/ UpdateKb(s) \/ DeleteKb(s)

LEMMA CommitEnds ==
    ASSUME NEW s \in Sessions, Commits(s)
    PROVE  Finish(s) /\ UNCHANGED <<clock, requests>> /\ Held
BY DEF Commits, CreateKey, UpdateUser, DeleteCommit, Grant, Revoke, BulkGrant, GrantBulk,
       CreateKb, UpdateKb, DeleteKb, Leaves

LEMMA CommitTyped ==
    ASSUME TypeOK, NEW s \in Sessions, Commits(s)
    PROVE  TypeOK'
<1> USE DEF TypeOK
<1> DEFINE r == job[s].request
<1>1. r \in Requests /\ job[s] \in Job /\ job[s].tenant \in Tenants
      BY JobTyped
<1>2. r.kb \in Kbs /\ r.kbs \subseteq Kbs /\ r.member \in Users /\ r.role \in 0 .. Owner
      BY <1>1, RequestTyped
<1>3. ASSUME CreateKey(s) PROVE TablesOK'
  <2>1. <<job[s].tenant, r.member, issued + 1>> \in Keys /\ issued + 1 \in Nat
        BY <1>1, <1>2 DEF TablesOK, Keys
  <2>2. keys' \subseteq Keys /\ issued' \in Nat
        BY <1>3, <2>1 DEF CreateKey, TablesOK
  <2>3. role' \in [Users -> [Tenants -> 0 .. Owner]]
        BY <1>1, <1>2, <1>3 DEF CreateKey, TablesOK
  <2> QED BY <1>3, <2>2, <2>3 DEF CreateKey, Leaves, TablesOK
<1>4. ASSUME UpdateUser(s) PROVE TablesOK'
  <2>1. role' \in [Users -> [Tenants -> 0 .. Owner]]
        BY <1>1, <1>2, <1>4 DEF UpdateUser, TablesOK
  <2> QED BY <1>4, <2>1 DEF UpdateUser, Leaves, TablesOK
<1>5. ASSUME DeleteCommit(s) PROVE TablesOK'
  <2>1. role' \in [Users -> [Tenants -> 0 .. Owner]]
    <3>1. 0 \in 0 .. Owner
          BY DEF Owner
    <3> QED BY <1>1, <1>2, <1>5, <3>1 DEF DeleteCommit, TablesOK
  <2>2. ASSUME NEW g \in Kbs \X Users
        PROVE  grant'[g] \in GrantRow /\ grant'[g].role = grant[g].role
        BY <1>5, <2>2 DEF DeleteCommit, TablesOK, GrantRow
  <2>3. grant' \in [Kbs \X Users -> GrantRow]
        BY <1>5, <2>2 DEF DeleteCommit, TablesOK
  <2> QED BY <1>5, <2>1, <2>2, <2>3 DEF DeleteCommit, Leaves, TablesOK
<1>6. ASSUME Grant(s) PROVE TablesOK'
  <2>1. {<<r.kb, r.member>>} \in SUBSET (Kbs \X Users)
        BY <1>2
  <2>2. r.role \in 1 .. 3 /\ r.until \in 0 .. Never
        BY <1>1, <1>6, RequestTyped DEF Grant, Writes, Viewer, Admin
  <2>3. [role |-> r.role, until |-> r.until, revoked |-> FALSE]
            \in [role : 0 .. Admin, until : {Kept} \cup 0 .. Never, revoked : BOOLEAN]
        BY <2>2 DEF Admin
  <2> QED BY <1>6, <2>1, <2>3, UpsertTyped DEF Grant, Leaves, TablesOK
<1>7. ASSUME Revoke(s) PROVE TablesOK'
  <2> DEFINE h == <<r.kb, r.member>>
  <2>1. h \in Kbs \X Users
        BY <1>2
  <2>2. grant' = [grant EXCEPT ![h].revoked = grant[h].role # 0]
        BY <1>7 DEF Revoke
  <2>3. ASSUME NEW g \in Kbs \X Users
        PROVE  grant'[g] \in GrantRow /\ grant'[g].role = grant[g].role
        BY <2>1, <2>2 DEF TablesOK, GrantRow
  <2>4. grant' \in [Kbs \X Users -> GrantRow]
        BY <2>2, <2>3 DEF TablesOK
  <2> QED BY <1>7, <2>3, <2>4 DEF Revoke, Leaves, TablesOK
<1>8. ASSUME BulkGrant(s) \/ GrantBulk(s) PROVE TablesOK'
  <2>1. PICK targets \in SUBSET (Kbs \X Users) :
            Upsert(targets, [role |-> r.role, until |-> Kept, revoked |-> FALSE])
        BY <1>2, <1>8, JobTyped DEF BulkGrant, GrantBulk
  <2>2. r.op \in {"bulk_grant", "grant_bulk"}
        BY <1>8 DEF BulkGrant, Writes, GrantBulk, SessionsOK
  <2>3. r.role \in 1 .. 3
        BY <1>1, <2>2, RequestTyped DEF Viewer, Admin
  <2>4. [role |-> r.role, until |-> Kept, revoked |-> FALSE]
            \in [role : 0 .. Admin, until : {Kept} \cup 0 .. Never, revoked : BOOLEAN]
        BY <2>3 DEF Admin
  <2> QED BY <1>8, <2>1, <2>4, UpsertTyped DEF BulkGrant, GrantBulk, Leaves, TablesOK
<1>9. ASSUME CreateKb(s) PROVE TablesOK'
      BY <1>2, <1>9 DEF CreateKb, Leaves, TablesOK
<1>10. ASSUME UpdateKb(s) PROVE TablesOK'
      BY <1>2, <1>10 DEF UpdateKb, Leaves, TablesOK
<1>11. ASSUME DeleteKb(s) PROVE TablesOK'
  <2>1. NoGrant \in GrantRow
        BY AccessAssumption DEF NoGrant, GrantRow, Never, Admin
  <2>2. grant' = [g \in Kbs \X Users |-> IF g[1] = r.kb THEN NoGrant ELSE grant[g]]
        BY <1>11 DEF DeleteKb, TablesOK
  <2>3. grant' \in [Kbs \X Users -> GrantRow]
        BY <2>1, <2>2 DEF TablesOK
  <2>4. ASSUME NEW g \in Kbs \X Users, grant'[g].role # 0 PROVE g[1] \in kbs'
        BY <1>11, <2>2, <2>4 DEF DeleteKb, TablesOK, NoGrant
  <2> QED BY <1>11, <2>3, <2>4 DEF DeleteKb, Leaves, TablesOK
<1>12. TablesOK'
      BY <1>3, <1>4, <1>5, <1>6, <1>7, <1>8, <1>9, <1>10, <1>11 DEF Commits
<1>13. SessionsOK' /\ Held
      BY CommitEnds, FinishTyped
<1> QED BY <1>12, <1>13, HeldTyped

LEMMA TypeInit == Init => TypeOK
<1> SUFFICES ASSUME Init PROVE TypeOK
      OBVIOUS
<1>1. role \in [Users -> [Tenants -> 0 .. Owner]]
      BY DEF Init, Owner
<1>2. keys \subseteq Keys /\ issued \in Nat
      BY AccessAssumption DEF Init, Keys
<1>3. NoGrant \in GrantRow /\ NoGrant.role = 0
      BY AccessAssumption DEF NoGrant, GrantRow, Never, Admin
<1>4. TablesOK
      BY <1>1, <1>2, <1>3 DEF Init, TablesOK
<1>5. SessionsOK
      BY IdleTyped, AccessAssumption DEF Init, SessionsOK
<1> QED BY <1>4, <1>5 DEF Init, TypeOK, Owner

LEMMA TypeNext ==
    ASSUME TypeOK, [Next]_accessVars
    PROVE  TypeOK'
<1>1. ASSUME NEW s \in Sessions, NEW t \in Tenants, NEW u \in Users, NEW r \in Requests, Ask(s, t, u, r)
      PROVE  TypeOK'
  <2>1. TablesOK' /\ Held
        BY <1>1, TablesKept DEF Ask, TypeOK
  <2>2. requests' \in 0 .. MaxRequests /\ clock' \in 0 .. MaxTime
        BY <1>1, AccessAssumption DEF Ask, TypeOK, SessionsOK
  <2>3. Asked(t, u, r) \in Job
        BY AskedTyped
  <2>4. job' \in [Sessions -> Job] /\ \A x \in Sessions \ {s} : job'[x] = job[x]
        BY <1>1, <2>3 DEF Ask, TypeOK, SessionsOK
  <2>5. FirstCheck(r.op) \in States \ {"joining", "granting"}
        BY DEF FirstCheck, States
  <2>6. SessionsOK'
        BY <1>1, <2>2, <2>4, <2>5, GotoTyped DEF Ask, TypeOK
  <2> QED BY <2>1, <2>6, HeldTyped
<1>2. ASSUME NEW s \in Sessions, Write(s) \/ Abort(s) PROVE TypeOK'
      BY <1>2, MoveTyped, CommitTyped DEF Write, Commits
<1>3. CASE Tick
  <2>1. TablesOK' /\ SessionsOK' /\ Held
        BY <1>3, TablesKept, AccessAssumption DEF Tick, TypeOK, SessionsOK
  <2> QED BY <2>1, HeldTyped
<1>4. CASE UNCHANGED accessVars
      BY <1>4 DEF accessVars, tables, TypeOK, TablesOK, SessionsOK
<1> QED BY <1>1, <1>2, <1>3, <1>4, CheckTyped DEF Next

(* Requests, tables and histories have their types.                        *)
THEOREM AccessTypeCorrect == Spec => []TypeOK
<1>1. TypeOK /\ [Next]_accessVars => TypeOK'
      BY TypeNext
<1> QED BY <1>1, TypeInit, PTL DEF Spec

---------------------------------------------------------------------------
(* A key belongs to a member.                                              *)

Acts(s) ==
    \/ \E t \in Tenants, u \in Users, r \in Requests : Ask(s, t, u, r)
    \/ Check(s) \/ Write(s) \/ Abort(s)

LEMMA OthersWait ==
    ASSUME TypeOK, NEW s \in Sessions, Acts(s)
    PROVE  \A x \in Sessions \ {s} : pc'[x] = pc[x] /\ job'[x] = job[x]
<1> USE DEF TypeOK, SessionsOK, Goto, Finish, Pass
<1>1. ASSUME NEW t \in Tenants, NEW u \in Users, NEW r \in Requests, Ask(s, t, u, r)
      PROVE  \A x \in Sessions \ {s} : pc'[x] = pc[x] /\ job'[x] = job[x]
      BY <1>1 DEF Ask
<1>2. CASE Check(s)
      BY <1>2 DEF Check, CheckAdmin, CheckTenant, ResolveRole, ResolveGrants, ResolveKbs
<1>3. CASE Commits(s) \/ Abort(s)
      BY <1>3, CommitEnds DEF Abort
<1>4. CASE CreateUser(s) \/ Missing(s) \/ DeleteUser(s) \/ RevokeGrants(s) \/ RevokeKeys(s)
           \/ ResolveTargets(s)
      BY <1>4 DEF CreateUser, Missing, DeleteUser, RevokeGrants, RevokeKeys, ResolveTargets
<1> QED BY <1>1, <1>2, <1>3, <1>4 DEF Acts, Write, Commits

(* Who holds a lock after a step held it before, or found it free.         *)
LEMMA LocksTaken ==
    ASSUME TypeOK, NEW s \in Sessions, Acts(s), pc'[s] \in Locking
    PROVE  /\ job'[s].request = job[s].request /\ job'[s].tenant = job[s].tenant
           /\ pc[s] \in Locking \/ MemberFree(job[s].request.member, job[s].tenant)
<1> USE DEF TypeOK, SessionsOK, Goto, Finish, Pass, Locking
<1>1. ASSUME NEW t \in Tenants, NEW u \in Users, NEW r \in Requests, Ask(s, t, u, r) PROVE FALSE
      BY <1>1 DEF Ask, FirstCheck
<1>2. ASSUME Check(s) PROVE FALSE
      BY <1>2 DEF Check, CheckAdmin, CheckTenant, ResolveRole, ResolveGrants, ResolveKbs
<1>3. ASSUME Commits(s) \/ Abort(s) \/ Missing(s) \/ ResolveTargets(s) PROVE FALSE
      BY <1>3, CommitEnds DEF Abort, Missing, ResolveTargets
<1>4. CASE CreateUser(s) \/ DeleteUser(s)
      BY <1>4 DEF CreateUser, DeleteUser
<1>5. CASE RevokeGrants(s) \/ RevokeKeys(s)
      BY <1>5, JobTyped DEF RevokeGrants, RevokeKeys, Job
<1> QED BY <1>1, <1>2, <1>3, <1>4, <1>5 DEF Acts, Write, Commits

(* What keys and memberships a step leaves.                                *)
LEMMA KeysLeft ==
    ASSUME TypeOK, NEW s \in Sessions, Acts(s)
    PROVE  \/ role' = role /\ keys' = keys
           \/ CreateKey(s) \/ UpdateUser(s) \/ DeleteCommit(s)
<1>1. ASSUME NEW t \in Tenants, NEW u \in Users, NEW r \in Requests, Ask(s, t, u, r)
      PROVE  role' = role /\ keys' = keys
      BY <1>1 DEF Ask, tables
<1>2. CASE Check(s)
      BY <1>2 DEF Check, CheckAdmin, CheckTenant, ResolveRole, ResolveGrants, ResolveKbs, OnlyReads, tables
<1>3. CASE CreateUser(s) \/ Missing(s) \/ DeleteUser(s) \/ RevokeGrants(s) \/ RevokeKeys(s)
           \/ ResolveTargets(s) \/ Abort(s)
      BY <1>3 DEF CreateUser, Missing, DeleteUser, RevokeGrants, RevokeKeys, ResolveTargets, Abort,
                  OnlyReads, tables
<1>4. CASE Grant(s) \/ Revoke(s) \/ BulkGrant(s) \/ GrantBulk(s) \/ CreateKb(s) \/ UpdateKb(s) \/ DeleteKb(s)
      BY <1>4 DEF Grant, Revoke, BulkGrant, GrantBulk, CreateKb, UpdateKb, DeleteKb, Leaves
<1> QED BY <1>1, <1>2, <1>3, <1>4 DEF Acts, Write

LEMMA LocksKept ==
    ASSUME TypeOK, LockExclusive, NEW s \in Sessions, Acts(s)
    PROVE  LockExclusive'
<1>1. \A x \in Sessions \ {s} : pc'[x] = pc[x] /\ job'[x] = job[x]
      BY OthersWait
<1>2. pc'[s] \in Locking =>
          /\ job'[s].request = job[s].request /\ job'[s].tenant = job[s].tenant
          /\ pc[s] \in Locking \/ MemberFree(job[s].request.member, job[s].tenant)
      BY LocksTaken
<1>3. ASSUME NEW x \in Sessions \ {s}, pc'[s] \in Locking, pc'[x] \in Locking,
             job'[s].request.member = job'[x].request.member, job'[s].tenant = job'[x].tenant
      PROVE  FALSE
      BY <1>1, <1>2, <1>3 DEF LockExclusive, MemberFree
<1>4. ASSUME NEW x \in Sessions \ {s}, NEW y \in Sessions \ {s}, pc'[x] \in Locking, pc'[y] \in Locking,
             job'[x].request.member = job'[y].request.member, job'[x].tenant = job'[y].tenant
      PROVE  x = y
      BY <1>1, <1>4 DEF LockExclusive
<1> QED BY <1>3, <1>4 DEF LockExclusive

LEMMA CutKept ==
    ASSUME TypeOK, LockExclusive, CutCovers, NEW s \in Sessions, Acts(s)
    PROVE  CutCovers'
<1> SUFFICES ASSUME NEW x \in Sessions, pc'[x] = "unkeyed",
                    NEW key \in keys', key[1] = job'[x].tenant, key[2] = job'[x].request.member
             PROVE  key \in job'[x].cut
      BY DEF CutCovers
<1>1. \A y \in Sessions \ {s} : pc'[y] = pc[y] /\ job'[y] = job[y]
      BY OthersWait
<1>2. CASE x = s
  <2>1. RevokeKeys(s)
        BY <1>2, CommitEnds
           DEF Acts, Ask, FirstCheck, Check, CheckAdmin, CheckTenant, ResolveRole, ResolveGrants, ResolveKbs,
               Write, Commits, Abort, CreateUser, Missing, DeleteUser, RevokeGrants, ResolveTargets,
               Goto, Finish, Pass, TypeOK, SessionsOK
  <2>2. keys' = keys
        BY <2>1 DEF RevokeKeys, OnlyReads, tables
  <2>3. job'[s] = [job[s] EXCEPT !.cut = KeysOf(job[s].request.member)]
        BY <2>1 DEF RevokeKeys, TypeOK, SessionsOK
  <2>4. job'[s].cut = KeysOf(job[s].request.member) /\ job'[s].request = job[s].request
        BY <2>3, JobTyped DEF Job, TypeOK
  <2> QED BY <1>2, <2>2, <2>4 DEF KeysOf
<1>3. CASE x # s
  <2>1. pc[x] = "unkeyed" /\ job'[x] = job[x]
        BY <1>1, <1>3
  <2>2. CASE key \in keys
        BY <2>1, <2>2 DEF CutCovers
  <2>3. CASE key \notin keys
    <3>1. CreateKey(s)
          BY <2>3, KeysLeft DEF UpdateUser, DeleteCommit, Leaves
    <3>2. key[1] = job[s].tenant /\ key[2] = job[s].request.member
          BY <2>3, <3>1 DEF CreateKey
    <3>3. pc[s] = "joining"
          BY <3>1 DEF CreateKey
    <3> QED BY <1>3, <2>1, <3>2, <3>3 DEF LockExclusive, Locking
  <2> QED BY <2>2, <2>3
<1> QED BY <1>2, <1>3

LEMMA BelongingKept ==
    ASSUME TypeOK, CutCovers, KeysBelongToMembers, NEW s \in Sessions, Acts(s)
    PROVE  KeysBelongToMembers'
<1> DEFINE t == job[s].tenant
           m == job[s].request.member
<1>1. t \in Tenants /\ m \in Users /\ job[s].request \in Requests
      BY JobTyped, RequestTyped DEF TypeOK
<1>2. \A key \in keys : key[1] \in Tenants /\ key[2] \in Users
      BY DEF TypeOK, TablesOK, Keys
<1>3. CASE role' = role /\ keys' = keys
      BY <1>3 DEF KeysBelongToMembers
<1>4. ASSUME CreateKey(s) \/ UpdateUser(s) PROVE KeysBelongToMembers'
  <2>1. job[s].request.op \in {"create_user", "update_user"}
        BY <1>4 DEF CreateKey, UpdateUser, Writes, TypeOK, SessionsOK
  <2>2. job[s].request.role # 0
        BY <1>1, <2>1, RequestTyped DEF Viewer
  <2>3. role' = [role EXCEPT ![m][t] = job[s].request.role]
        BY <1>4 DEF CreateKey, UpdateUser
  <2>4. keys' \subseteq keys \cup {<<t, m, issued + 1>>}
        BY <1>4 DEF CreateKey, UpdateUser, Leaves
  <2>5. ASSUME NEW u \in Users, NEW v \in Tenants
        PROVE  role'[u][v] = IF u = m /\ v = t THEN job[s].request.role ELSE role[u][v]
        BY <1>1, <2>3 DEF TypeOK, TablesOK
  <2> QED BY <1>1, <1>2, <2>2, <2>4, <2>5 DEF KeysBelongToMembers
<1>5. ASSUME DeleteCommit(s) PROVE KeysBelongToMembers'
  <2>1. role' = [role EXCEPT ![m][t] = 0] /\ keys' = keys \ job[s].cut /\ pc[s] = "unkeyed"
        BY <1>5 DEF DeleteCommit
  <2>2. ASSUME NEW u \in Users, NEW v \in Tenants
        PROVE  role'[u][v] = IF u = m /\ v = t THEN 0 ELSE role[u][v]
        BY <1>1, <2>1 DEF TypeOK, TablesOK
  <2>3. ASSUME NEW key \in keys' PROVE key \in keys /\ ~(key[1] = t /\ key[2] = m)
        BY <2>1 DEF CutCovers
  <2> QED BY <1>2, <2>2, <2>3 DEF KeysBelongToMembers
<1> QED BY <1>3, <1>4, <1>5, KeysLeft

(* The inductive invariant: locks are exclusive, a removal cuts all keys.  *)
THEOREM KeysInvariant == Spec => []KeysInv
<1>1. Init => KeysInv
  <2> SUFFICES ASSUME Init PROVE LockExclusive /\ CutCovers /\ KeysBelongToMembers
        BY TypeInit DEF KeysInv
  <2>1. \A s \in Sessions : pc[s] = "idle"
        BY DEF Init
  <2>2. LockExclusive /\ CutCovers
        BY <2>1 DEF LockExclusive, CutCovers, Locking
  <2>3. ASSUME NEW t \in Tenants PROVE role[Founder[t]][t] # 0
        BY AccessAssumption DEF Init, Owner
  <2>4. ASSUME NEW key \in keys PROVE role[key[2]][key[1]] # 0
    <3>1. PICK t \in Tenants : key = <<t, Founder[t], 0>>
          BY DEF Init
    <3> QED BY <2>3, <3>1
  <2> QED BY <2>2, <2>4 DEF KeysBelongToMembers
<1>2. KeysInv /\ [Next]_accessVars => KeysInv'
  <2> SUFFICES ASSUME KeysInv, [Next]_accessVars PROVE KeysInv'
        OBVIOUS
  <2> USE DEF KeysInv
  <2>1. TypeOK'
        BY TypeNext
  <2>2. ASSUME NEW s \in Sessions, Acts(s) PROVE KeysInv'
        BY <2>1, <2>2, LocksKept, CutKept, BelongingKept
  <2>3. CASE Tick
        BY <2>1, <2>3 DEF Tick, tables, LockExclusive, CutCovers, KeysBelongToMembers
  <2>4. CASE UNCHANGED accessVars
        BY <2>1, <2>4 DEF accessVars, tables, LockExclusive, CutCovers, KeysBelongToMembers
  <2> QED BY <2>2, <2>3, <2>4 DEF Next, Acts
<1> QED BY <1>1, <1>2, PTL DEF Spec

(* Whoever holds a key that is not revoked is a member of its tenant, in   *)
(* whatever order members are added and removed.                           *)
THEOREM KeysAreMembers == Spec => []KeysBelongToMembers
<1>1. KeysInv => KeysBelongToMembers
      BY DEF KeysInv
<1> QED BY <1>1, KeysInvariant, PTL

---------------------------------------------------------------------------
(* A passed check was deserved.                                            *)

LEMMA EveryStepKeepsHistory ==
    ASSUME NEW s \in Sessions, Acts(s)
    PROVE  Held
<1>1. CASE \E t \in Tenants, u \in Users, r \in Requests : Ask(s, t, u, r)
      BY <1>1 DEF Ask
<1>2. CASE Check(s)
      BY <1>2 DEF Check, CheckAdmin, CheckTenant, ResolveRole, ResolveGrants, ResolveKbs, OnlyReads
<1>3. CASE CreateUser(s) \/ Missing(s) \/ DeleteUser(s) \/ RevokeGrants(s) \/ RevokeKeys(s)
           \/ ResolveTargets(s) \/ Abort(s)
      BY <1>3 DEF CreateUser, Missing, DeleteUser, RevokeGrants, RevokeKeys, ResolveTargets, Abort, OnlyReads
<1>4. CASE Commits(s)
      BY <1>4, CommitEnds
<1> QED BY <1>1, <1>2, <1>3, <1>4 DEF Acts, Write, Commits

LEMMA HeldGrows ==
    ASSUME TypeOK, TypeOK', Held, NEW x \in Sessions, pc'[x] # "idle"
    PROVE  held[x] \in Nat /\ held'[x] \in Nat /\ held'[x] >= held[x] /\ held'[x] >= Standing(x)'
<1>1. (TablesOK /\ SessionsOK => \A s \in Sessions : Standing(s) \in 0 .. Owner)'
      BY StandingTyped, PTL
<1>2. Standing(x)' \in 0 .. Owner
      BY <1>1 DEF TypeOK
<1>3. held'[x] = Higher(held[x], Standing(x)')
      BY DEF Held
<1>4. held[x] \in 0 .. Owner
      BY DEF TypeOK
<1> QED BY <1>2, <1>3, <1>4 DEF Higher, Owner

(* A request stays the same until it ends.                                 *)
LEMMA Continues ==
    ASSUME TypeOK, NEW s \in Sessions, Check(s) \/ Write(s) \/ Abort(s), pc'[s] # "idle"
    PROVE  /\ job'[s].request = job[s].request /\ job'[s].tenant = job[s].tenant
           /\ job'[s].user = job[s].user
<1> USE DEF TypeOK, SessionsOK, Goto, Finish, Pass
<1>1. job[s] \in Job
      BY JobTyped
<1>2. CASE CheckAdmin(s) \/ CheckTenant(s) \/ ResolveKbs(s)
      BY <1>2 DEF CheckAdmin, CheckTenant, ResolveKbs
<1>3. CASE ResolveRole(s)
      BY <1>1, <1>3 DEF ResolveRole, Job
<1>4. CASE ResolveGrants(s)
      BY <1>1, <1>4 DEF ResolveGrants, Job
<1>5. ASSUME Commits(s) \/ Abort(s) \/ Missing(s) PROVE FALSE
      BY <1>5, CommitEnds DEF Abort, Missing
<1>6. CASE CreateUser(s) \/ DeleteUser(s)
      BY <1>6 DEF CreateUser, DeleteUser
<1>7. CASE RevokeGrants(s) \/ RevokeKeys(s) \/ ResolveTargets(s)
      BY <1>1, <1>7 DEF RevokeGrants, RevokeKeys, ResolveTargets, Job
<1> QED BY <1>2, <1>3, <1>4, <1>5, <1>6, <1>7 DEF Check, Write, Commits

(* An id is drawn once.                                                    *)
LEMMA DrawnKept ==
    ASSUME TypeOK, NEW s \in Sessions, Acts(s)
    PROVE  drawn \subseteq drawn' /\ drawn \cap kbs' \subseteq kbs
<1>1. CASE \E t \in Tenants, u \in Users, r \in Requests : Ask(s, t, u, r)
      BY <1>1 DEF Ask, tables
<1>2. CASE Check(s)
      BY <1>2 DEF Check, CheckAdmin, CheckTenant, ResolveRole, ResolveGrants, ResolveKbs, OnlyReads, tables
<1>3. CASE CreateUser(s) \/ Missing(s) \/ DeleteUser(s) \/ RevokeGrants(s) \/ RevokeKeys(s)
           \/ ResolveTargets(s) \/ Abort(s)
      BY <1>3 DEF CreateUser, Missing, DeleteUser, RevokeGrants, RevokeKeys, ResolveTargets, Abort,
                  OnlyReads, tables
<1>4. CASE CreateKey(s) \/ UpdateUser(s) \/ DeleteCommit(s)
      BY <1>4 DEF CreateKey, UpdateUser, DeleteCommit, Leaves
<1>5. CASE Grant(s) \/ Revoke(s) \/ BulkGrant(s) \/ GrantBulk(s) \/ UpdateKb(s)
      BY <1>5 DEF Grant, Revoke, BulkGrant, GrantBulk, UpdateKb, Leaves
<1>6. CASE CreateKb(s) \/ DeleteKb(s)
      BY <1>6 DEF CreateKb, DeleteKb, Leaves
<1> QED BY <1>1, <1>2, <1>3, <1>4, <1>5, <1>6 DEF Acts, Write

Passed == {"write", "granting"} \cup Locking
Deserved(s) == job[s].request.op = "create_kb" \/ held[s] >= Needed(job[s].request.op)

(* The parts of the invariant for one session.                             *)
Covered(s) ==
    /\ pc[s] = "admin" => job[s].request.op \in AdminRoutes
    /\ pc[s] \in {"tenant", "role", "grants", "kbs"} =>
          job[s].request.kb \in drawn /\ job[s].request.op \in AclRoutes \cup {"update_kb"}
    /\ /\ pc[s] \in {"grants", "kbs"} /\ job[s].as \in {Admin, Owner}
       /\ job[s].request.kb \in kbs /\ Home[job[s].request.kb] = job[s].tenant
       => held[s] >= job[s].as
    /\ pc[s] = "kbs" => held[s] >= job[s].granted
    /\ pc[s] \in Passed => Deserved(s)

LEMMA CoveredAll ==
    PermissionInv <=> TypeOK /\ HeldCovers /\ \A s \in Sessions : Covered(s)
BY Zenon DEF PermissionInv, KbDrawn, RoleCovered, GrantCovered, PermissionHeld, Covered, Passed, Deserved

LEMMA NeededTyped == \A op : Needed(op) \in {2, 3}
BY DEF Needed, Editor, Admin

(* A session that does nothing stays covered while others act.             *)
LEMMA WaitingCovered ==
    ASSUME TypeOK, TypeOK', Held, NEW x \in Sessions, Covered(x),
           pc'[x] = pc[x], job'[x] = job[x], drawn \subseteq drawn', drawn \cap kbs' \subseteq kbs
    PROVE  Covered(x)'
<1>1. CASE pc[x] = "idle"
      BY <1>1 DEF Covered, Passed, Locking
<1>2. CASE pc[x] # "idle"
  <2>1. held[x] \in Nat /\ held'[x] \in Nat /\ held'[x] >= held[x]
        BY <1>2, HeldGrows
  <2>2. job[x].as \in 0 .. Owner /\ job[x].granted \in 0 .. Admin /\ Needed(job[x].request.op) \in {2, 3}
        BY NeededTyped DEF TypeOK, SessionsOK, Job
  <2>3. /\ pc[x] \in {"grants", "kbs"} /\ job[x].as \in {Admin, Owner}
        /\ job[x].request.kb \in kbs' /\ Home[job[x].request.kb] = job[x].tenant
        => held'[x] >= job[x].as
        BY <2>1, <2>2 DEF Covered, Owner
  <2>4. pc[x] = "kbs" => held'[x] >= job[x].granted
        BY <2>1, <2>2 DEF Covered, Admin
  <2>5. pc[x] \in Passed => job[x].request.op = "create_kb" \/ held'[x] >= Needed(job[x].request.op)
        BY <2>1, <2>2 DEF Covered, Deserved
  <2> QED BY <2>3, <2>4, <2>5 DEF Covered, Deserved, Passed, Locking
<1> QED BY <1>1, <1>2

LEMMA RoleInAbove ==
    ASSUME TablesOK, NEW t \in Tenants, NEW u \in Users, NEW k \in Kbs, NEW now
    PROVE  /\ RoleIn(t, u, k, now) >= GrantedRole(u, k, now)
           /\ RoleIn(t, u, k, now) >= ByRole(t, Effective(role[u][t]), k)
<1> DEFINE e == Effective(role[u][t])
<1>1. e \in 0 .. Owner
      BY DEF TablesOK, Effective, Viewer, Owner
<1>2. GrantedRole(u, k, now) \in 0 .. Admin
      BY GrantedTyped
<1> HIDE DEF e
<1>3. ByRole(t, e, k) \in 0 .. Owner
      BY <1>1, <1>2, RoleTyped
<1>4. RoleIn(t, u, k, now) = Higher(ByRole(t, e, k), GrantedRole(u, k, now))
      BY DEF RoleIn, KbRole, e
<1>5. RoleIn(t, u, k, now) >= GrantedRole(u, k, now) /\ RoleIn(t, u, k, now) >= ByRole(t, e, k)
      BY <1>2, <1>3, <1>4 DEF Higher, Owner, Admin
<1> QED BY <1>5 DEF e

(* The standing after a read is what the tables read from say.             *)
LEMMA StandingRead ==
    ASSUME TypeOK, NEW s \in Sessions, UNCHANGED tables, pc'[s] \in {"grants", "kbs"},
           job'[s].request.op \in AclRoutes \cup {"update_kb"}
    PROVE  Standing(s)' = RoleIn(job'[s].tenant, job'[s].user, job'[s].request.kb, job'[s].at)
<1>1. job'[s].request.op \notin AdminRoutes
      BY DEF AclRoutes, AdminRoutes
<1> QED BY <1>1 DEF Standing, RoleIn, KbRole, ByRole, GrantedRole, InForce, tables

LEMMA ActorCovered ==
    ASSUME PermissionInv, TypeOK', NEW s \in Sessions, Acts(s)
    PROVE  Covered(s)'
<1>1. TypeOK /\ HeldCovers /\ Covered(s) /\ SessionsOK /\ TablesOK
      BY CoveredAll DEF TypeOK
<1>2. Held
      BY EveryStepKeepsHistory
<1>3. pc'[s] # "idle" => /\ held[s] \in Nat /\ held'[s] \in Nat /\ held'[s] >= held[s]
                         /\ held'[s] >= Standing(s)'
      BY <1>1, <1>2, HeldGrows
<1>4. CASE pc'[s] = "idle"
      BY <1>4 DEF Covered, Passed, Locking
<1>5. ASSUME NEW t \in Tenants, NEW u \in Users, NEW r \in Requests, Ask(s, t, u, r) PROVE Covered(s)'
  <2>1. pc'[s] = FirstCheck(r.op) /\ job'[s].request = r /\ drawn' = drawn
        BY <1>1, <1>5 DEF Ask, Goto, Asked, SessionsOK, tables
  <2>2. r.op \in AclRoutes \cup {"update_kb"} => r.kb \in drawn
        BY <1>5 DEF Ask, NamesDrawn
  <2>3. r.op \in Routes
        BY RequestTyped
  <2> QED BY <2>1, <2>2, <2>3
          DEF Covered, Passed, Locking, Deserved, FirstCheck, Routes, AdminRoutes, AclRoutes, KbRoutes
<1>6. ASSUME Check(s) \/ Write(s) \/ Abort(s), pc'[s] # "idle" PROVE Covered(s)'
  <2> DEFINE r == job[s].request
  <2>1. job'[s].request = r /\ job'[s].tenant = job[s].tenant /\ job'[s].user = job[s].user
        BY <1>1, <1>6, Continues
  <2>2. drawn \subseteq drawn' /\ drawn \cap kbs' \subseteq kbs
        BY <1>1, DrawnKept
  <2>3. /\ job[s].tenant \in Tenants /\ job[s].user \in Users /\ r.kb \in Kbs
        /\ job[s].as \in 0 .. Owner /\ job[s].granted \in 0 .. Admin
        BY <1>1, JobTyped, RequestTyped DEF Job
  <2>4. Needed(r.op) \in {2, 3}
        BY NeededTyped
  <2>5. CASE CheckAdmin(s)
    <3>1. pc[s] = "admin" /\ pc'[s] = "write" /\ role[job[s].user][job[s].tenant] \in {Admin, Owner}
          BY <1>1, <1>6, <2>5 DEF CheckAdmin, Pass, Goto, Finish, SessionsOK
    <3>2. r.op \in AdminRoutes
          BY <1>1, <3>1 DEF Covered
    <3>3. held[s] >= Standing(s) /\ Standing(s) \in {3, 4} /\ Needed(r.op) = 3
          BY <1>1, <3>1, <3>2 DEF HeldCovers, Standing, Needed, Admin, Owner, AdminRoutes
    <3>4. held'[s] >= Needed(r.op)
          BY <1>3, <1>6, <3>3
    <3> QED BY <2>1, <3>1, <3>4 DEF Covered, Deserved
  <2>6. CASE CheckTenant(s)
    <3>1. pc[s] = "tenant" /\ pc'[s] = "role"
          BY <1>1, <1>6, <2>6 DEF CheckTenant, Pass, Goto, Finish, SessionsOK
    <3> QED BY <1>1, <2>1, <2>2, <3>1 DEF Covered, Passed, Locking
  <2>7. CASE ResolveRole(s)
    <3>1. /\ pc[s] = "role" /\ pc'[s] = "grants" /\ UNCHANGED tables
          /\ job'[s].as = Effective(role[job[s].user][job[s].tenant])
          BY <1>1, <2>7, JobTyped DEF ResolveRole, Goto, OnlyReads, SessionsOK, Job
    <3>2. r.kb \in drawn /\ r.op \in AclRoutes \cup {"update_kb"}
          BY <1>1, <3>1 DEF Covered
    <3>3. Standing(s)' = RoleIn(job[s].tenant, job[s].user, r.kb, job'[s].at)
          BY <1>1, <2>1, <3>1, <3>2, StandingRead
    <3>4. Standing(s)' >= ByRole(job[s].tenant, job'[s].as, r.kb)
          BY <1>1, <2>3, <3>1, <3>3, RoleInAbove
    <3>5. job'[s].as \in {Admin, Owner} /\ r.kb \in kbs /\ Home[r.kb] = job[s].tenant
          => held'[s] >= job'[s].as
      <4> SUFFICES ASSUME job'[s].as \in {Admin, Owner}, r.kb \in kbs, Home[r.kb] = job[s].tenant
                   PROVE  held'[s] >= job'[s].as
            OBVIOUS
      <4>1. ByRole(job[s].tenant, job'[s].as, r.kb) = job'[s].as
            BY DEF ByRole
      <4>2. Standing(s)' \in 0 .. Owner
            BY <1>1, <2>3, <3>3, RoleInTyped
      <4>3. job'[s].as \in {3, 4}
            BY DEF Admin, Owner
      <4> QED BY <1>3, <1>6, <3>4, <4>1, <4>2, <4>3 DEF Owner
    <3> QED BY <2>1, <3>1, <3>2, <3>5 DEF Covered, Passed, Locking, tables
  <2>8. CASE ResolveGrants(s)
    <3>1. /\ pc[s] = "grants" /\ pc'[s] = "kbs" /\ UNCHANGED tables
          /\ job'[s].granted = GrantedRole(job[s].user, r.kb, job[s].at)
          /\ job'[s].as = job[s].as /\ job'[s].at = job[s].at
          BY <1>1, <2>8, JobTyped DEF ResolveGrants, Goto, OnlyReads, SessionsOK, Job
    <3>2. r.kb \in drawn /\ r.op \in AclRoutes \cup {"update_kb"}
          BY <1>1, <3>1 DEF Covered
    <3>3. Standing(s)' = RoleIn(job[s].tenant, job[s].user, r.kb, job[s].at)
          BY <1>1, <2>1, <3>1, <3>2, StandingRead
    <3>4. Standing(s)' >= job'[s].granted /\ job'[s].granted \in 0 .. Admin /\ Standing(s)' \in 0 .. Owner
          BY <1>1, <2>3, <3>1, <3>3, RoleInAbove, GrantedTyped, RoleInTyped
    <3>5. held'[s] >= job'[s].granted
          BY <1>3, <1>6, <3>4 DEF Owner, Admin
    <3>6. job[s].as \in {Admin, Owner} /\ r.kb \in kbs /\ Home[r.kb] = job[s].tenant
          => held'[s] >= job[s].as
          BY <1>1, <1>3, <1>6, <3>1 DEF Covered, Admin, Owner
    <3> QED BY <2>1, <3>1, <3>2, <3>5, <3>6 DEF Covered, Passed, Locking, tables
  <2>9. CASE ResolveKbs(s)
    <3>1. /\ pc[s] = "kbs" /\ pc'[s] = "write"
          /\ KbRole(job[s].tenant, job[s].as, job[s].granted, r.kb) >= Needed(r.op)
          BY <1>1, <1>6, <2>9 DEF ResolveKbs, Pass, Goto, Finish, SessionsOK
    <3>2. CASE job[s].granted >= Needed(r.op)
          BY <1>1, <1>3, <1>6, <2>1, <2>3, <2>4, <3>1, <3>2 DEF Covered, Deserved, Admin
    <3>3. CASE ~(job[s].granted >= Needed(r.op))
      <4>1. ByRole(job[s].tenant, job[s].as, r.kb) >= Needed(r.op)
            BY <3>1, <3>3 DEF KbRole, Higher
      <4>2. /\ job[s].as \in {Admin, Owner} /\ r.kb \in kbs /\ Home[r.kb] = job[s].tenant
            /\ job[s].as >= Needed(r.op)
            BY <2>4, <4>1 DEF ByRole, Viewer
      <4>3. held[s] >= job[s].as
            BY <1>1, <3>1, <4>2 DEF Covered
      <4>4. held'[s] >= Needed(r.op)
            BY <1>3, <1>6, <2>3, <2>4, <4>2, <4>3 DEF Owner
      <4> QED BY <2>1, <3>1, <4>4 DEF Covered, Deserved
    <3> QED BY <3>2, <3>3
  <2>10. CASE CreateUser(s) \/ DeleteUser(s) \/ RevokeGrants(s) \/ RevokeKeys(s) \/ ResolveTargets(s)
    <3>1. pc[s] \in Passed /\ pc'[s] \in Passed \ {"kbs", "grants", "role", "tenant", "admin"}
          BY <1>1, <2>10
             DEF CreateUser, DeleteUser, RevokeGrants, RevokeKeys, ResolveTargets, Writes, Goto,
                 SessionsOK, Passed, Locking
    <3>2. Deserved(s)
          BY <1>1, <3>1 DEF Covered
    <3>3. Deserved(s)'
          BY <1>3, <1>6, <2>1, <2>4, <3>2 DEF Deserved
    <3> QED BY <3>1, <3>3 DEF Covered
  <2>11. ASSUME Missing(s) \/ Commits(s) \/ Abort(s) PROVE FALSE
        BY <1>1, <1>6, <2>11, CommitEnds DEF Missing, Abort, Finish, Goto, SessionsOK
  <2> QED BY <1>6, <2>5, <2>6, <2>7, <2>8, <2>9, <2>10, <2>11 DEF Check, Write, Commits
<1> QED BY <1>4, <1>5, <1>6 DEF Acts

(* The inductive invariant: what resolve has read so far, the history has. *)
THEOREM PermissionInvariant == Spec => []PermissionInv
<1>1. Init => PermissionInv
  <2> SUFFICES ASSUME Init PROVE HeldCovers /\ \A s \in Sessions : Covered(s)
        BY TypeInit, CoveredAll
  <2>1. \A s \in Sessions : pc[s] = "idle"
        BY DEF Init
  <2> QED BY <2>1 DEF HeldCovers, Covered, Passed, Locking
<1>2. PermissionInv /\ [Next]_accessVars => PermissionInv'
  <2> SUFFICES ASSUME PermissionInv, [Next]_accessVars PROVE PermissionInv'
        OBVIOUS
  <2>1. TypeOK /\ HeldCovers /\ \A s \in Sessions : Covered(s)
        BY CoveredAll
  <2>2. TypeOK'
        BY <2>1, TypeNext
  <2>3. (PermissionInv <=> TypeOK /\ HeldCovers /\ \A s \in Sessions : Covered(s))'
        BY CoveredAll, PTL
  <2>4. ASSUME Held PROVE HeldCovers'
        BY <2>1, <2>2, <2>4, HeldGrows DEF HeldCovers
  <2>5. ASSUME NEW s \in Sessions, Acts(s) PROVE PermissionInv'
    <3>1. Held
          BY <2>5, EveryStepKeepsHistory
    <3>2. ASSUME NEW x \in Sessions \ {s} PROVE Covered(x)'
          BY <2>1, <2>2, <2>5, <3>1, OthersWait, DrawnKept, WaitingCovered
    <3>3. Covered(s)'
          BY <2>2, <2>5, ActorCovered
    <3> QED BY <2>2, <2>3, <2>4, <3>1, <3>2, <3>3
  <2>6. CASE Tick
    <3>1. ASSUME NEW x \in Sessions PROVE Covered(x)'
          BY <2>1, <2>2, <2>6, WaitingCovered DEF Tick, tables
    <3> QED BY <2>2, <2>3, <2>4, <2>6, <3>1 DEF Tick
  <2>7. CASE UNCHANGED accessVars
        BY <2>2, <2>7 DEF PermissionInv, HeldCovers, KbDrawn, RoleCovered, GrantCovered, PermissionHeld,
                          accessVars, tables, Standing, RoleIn, KbRole, ByRole, GrantedRole, InForce
  <2> QED BY <2>5, <2>6, <2>7 DEF Next, Acts
<1> QED BY <1>1, <1>2, PTL DEF Spec

(* Whoever passed a check was entitled to it at some moment since he       *)
(* asked, though authz.resolve puts its answer together from three.        *)
THEOREM PassedWasEntitled == Spec => []PermissionHeld
<1>1. PermissionInv => PermissionHeld
      BY DEF PermissionInv
<1> QED BY <1>1, PermissionInvariant, PTL

(* A member is listed to have what authz.resolve lets him have             *)
(* (members.py:187, authz.py:39), whatever roles, grants and expiries.     *)
THEOREM ListsAgree == Spec => []ListedAsResolved
<1>1. ASSUME TypeOK, NEW t \in Tenants, NEW u \in Users, role[u][t] # 0,
             NEW k \in kbs, Home[k] = t
      PROVE  k \in Listed(t, u) <=> RoleIn(t, u, k, clock) # 0
  <2>1. role[u][t] \in 1 .. 4 /\ Effective(role[u][t]) = role[u][t]
        BY <1>1 DEF TypeOK, TablesOK, Owner, Effective
  <2>2. GrantedRole(u, k, clock) \in Nat
    <3>1. grant[<<k, u>>] \in GrantRow
          BY <1>1 DEF TypeOK, TablesOK
    <3> QED BY <3>1 DEF GrantRow, GrantedRole, Admin
  <2> DEFINE r == role[u][t]
             g == GrantedRole(u, k, clock)
             own == ByRole(t, r, k)
  <2>3. own = IF r \in {3, 4} THEN r ELSE IF r = 2 /\ k \in shared THEN 1 ELSE 0
        BY <1>1 DEF ByRole, Viewer, Editor, Admin, Owner
  <2>4. k \in Listed(t, u) <=> r \in {3, 4} \/ (r = 2 /\ k \in shared) \/ g # 0
        BY <1>1 DEF Listed, Editor, Admin, Owner
  <2>5. RoleIn(t, u, k, clock) = IF own >= g THEN own ELSE g
        BY <2>1 DEF RoleIn, KbRole, Higher
  <2> HIDE DEF r, g, own
  <2>6. r \in 1 .. 4 /\ g \in Nat
        BY <2>1, <2>2 DEF r, g
  <2> QED BY <2>3, <2>4, <2>5, <2>6
<1>2. TypeOK => ListedAsResolved
  <2> SUFFICES ASSUME TypeOK, NEW t \in Tenants, NEW u \in Users, role[u][t] # 0
      PROVE  Listed(t, u) = {k \in kbs : Home[k] = t /\ RoleIn(t, u, k, clock) # 0}
      BY DEF ListedAsResolved
  <2>1. Listed(t, u) \subseteq {k \in kbs : Home[k] = t}
        BY DEF Listed
  <2> QED BY <1>1, <2>1
<1> QED BY <1>2, AccessTypeCorrect, PTL
=============================================================================
