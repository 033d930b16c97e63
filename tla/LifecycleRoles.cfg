\* A tenant, a manager and a worker take one order from the composer to its completion.
SPECIFICATION Spec
CONSTANTS
    o1 = o1
    o2 = o2
    t1 = t1
    m1 = m1
    w1 = w1
    w2 = w2
    a1 = a1
    a2 = a2
    None = None
    Orders = {o1}
    Existing = {}
    Tenants = {t1}
    Managers = {m1}
    Workers = {w1}
    Addresses = {a1, a2}
    AddressOf <- MCAddressOf
    MayRelaunch = {t1}
    MayLoseAnswers = {t1}
    MaxTaps <- RolesTaps
    MaxParses <- RolesParses
    MaxScreens <- RolesScreens
    MaxBatches <- RolesBatches
INVARIANTS
    IndInv
    KeptInv
    CompletedWasReviewed
    ReviewedHasStaff
    CompleterWasAssigned
    NeverUndercounts
PROPERTIES
    ImplementsLedger
