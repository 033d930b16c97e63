\* A tenant whose order is reviewed before the answer to its write arrives.
SPECIFICATION Spec
CONSTANTS
    o1 = o1
    o2 = o2
    t1 = t1
    m1 = m1
    w1 = w1
    w2 = w2
    a1 = a1
    a2 = a2
    None = None
    Orders = {o1}
    Existing = {}
    Tenants = {t1}
    Managers = {m1}
    Workers = {w1}
    Addresses = {a1, a2}
    AddressOf <- MCAddressOf
    MayRelaunch = {}
    MayLoseAnswers = {t1}
    MaxTaps <- RolesTaps
    MaxParses <- RolesParses
    MaxScreens <- RolesScreens
    MaxBatches <- RolesBatches
PROPERTIES
    AddingKeepsReviews
CHECK_DEADLOCK FALSE
