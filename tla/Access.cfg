CONSTANTS
    t1 = t1
    t2 = t2
    u1 = u1
    u2 = u2
    Users = {u1, u2}
    Tenants = {t1, t2}
    Kbs = {k1}
    Home <- MCHome
    Founder <- MCFounder
    MemberRoles = {2, 3}
    GrantRoles = {3}
    Expiries = {1, 2}
    Sessions = {s1, s2}
    MaxRequests = 3
    MaxTime = 1
SPECIFICATION Spec
INVARIANTS KeysBelongToMembers PermissionHeld ListedAsResolved
SYMMETRY Symmetry
CHECK_DEADLOCK FALSE
