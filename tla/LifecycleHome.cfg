\* A tenant alone, who may send two orders or one order twice.
SPECIFICATION LiveSpec
CONSTANTS
    o1 = o1
    o2 = o2
    t1 = t1
    m1 = m1
    w1 = w1
    w2 = w2
    a1 = a1
    a2 = a2
    None = None
    Orders = {o1, o2}
    Existing = {}
    Tenants = {t1}
    Managers = {}
    Workers = {}
    Addresses = {a1, a2}
    AddressOf <- MCAddressOf
    MayRelaunch = {t1}
    MayLoseAnswers = {t1}
    MaxTaps <- HomeTaps
    MaxParses <- HomeParses
    MaxScreens <- HomeScreens
    MaxBatches <- HomeBatches
INVARIANTS
    TypeOK
    NeverUndercounts
PROPERTIES
    WritesAreAnswered
