CONSTANTS
    viewer = viewer
    editor = editor
    k = k
    d = d
    NoRole = NoRole
    Names <- MCNames
    Contents <- MCContents
    Roles <- MCRoles
    MaxRetries = 1
    MaxCalls = 3
SPECIFICATION Spec
INVARIANTS TakesEffectOnce RefusedDidNothing GrantAccounted
PROPERTY CallsEnd
CHECK_DEADLOCK FALSE
