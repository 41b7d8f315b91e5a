SPECIFICATION Spec
CONSTANTS
    r1 = r1
    r2 = r2
    r3 = r3
    t1 = t1
    t2 = t2
    rdA = rdA
    rdB = rdB
    NoRequest = NoRequest
    Requests = {r1, r2, r3}
    Tenants = {t1, t2}
    Rounds = {rdA, rdB}
    Payloads = {p1}
    TenantOf <- TwoTenants
    RoundOf <- RoundsABA
    Items <- Singles
    Clients = 3
    StoreCanFail = FALSE
INVARIANT DivergenceMeansTampering
