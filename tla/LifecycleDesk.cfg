\* One manager, one request behind two listeners, up to four screens and two reviews.
SPECIFICATION Spec
CONSTANTS
    o1 = o1
    o2 = o2
    t1 = t1
    m1 = m1
    w1 = w1
    w2 = w2
    a1 = a1
    a2 = a2
    None = None
    Orders = {o1}
    Existing = {o1}
    Tenants = {}
    Managers = {m1}
    Workers = {w1}
    Addresses = {a1}
    AddressOf <- MCAddressOf
    MayRelaunch = {m1}
    MayLoseAnswers = {}
    MaxTaps <- DeskTaps
    MaxParses <- DeskParses
    MaxScreens <- DeskScreens
    MaxBatches <- DeskBatches
INVARIANTS
    DecrementsBacked
    AcceptedScreenIsGone
