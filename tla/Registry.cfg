CONSTANTS
    t1 = t1
    t2 = t2
    m1 = m1
    m2 = m2
    m3 = m3
    m4 = m4
    llm = llm
    embedding = embedding
    Models = {m1, m2, m3, m4}
    Tenants = {t1, t2}
    System = system
    Kinds = {llm, embedding}
    Owner <- MCOwner
    Kind <- MCKind
    Sessions = {s1, s2}
    MaxRequests = 3
SPECIFICATION Spec
INVARIANTS DefaultsBounded DefaultsAreNotLost
PROPERTY TenantsApart
CHECK_DEADLOCK FALSE
