\* A manager changes the staff of an order while one of the workers completes it.
SPECIFICATION Spec
CONSTANTS
    o1 = o1
    o2 = o2
    t1 = t1
    m1 = m1
    w1 = w1
    w2 = w2
    a1 = a1
    a2 = a2
    None = None
    Orders = {o1}
    Existing = {o1}
    Tenants = {}
    Managers = {m1}
    Workers = {w1, w2}
    Addresses = {a1}
    AddressOf <- MCAddressOf
    MayRelaunch = {}
    MayLoseAnswers = {m1}
    MaxTaps <- StaffTaps
    MaxParses <- StaffParses
    MaxScreens <- StaffScreens
    MaxBatches <- StaffBatches
INVARIANTS
    CompleterWasAssigned
PROPERTIES
    ImplementsLedger
CHECK_DEADLOCK FALSE
