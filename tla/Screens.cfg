\* Two snapshots of up to three orders, one unreadable; two orders with updates.
SPECIFICATION ScreensSpec
CONSTANTS
    Orders = {o1, o2, o3}
    Unreadable = {o3}
    MaxParses = 2
    MaxCalls = 2
    Listed = {o1, o2}
    Earlier = 1
    MaxUpdates = 2
    MaxTaps = 2
INVARIANTS
    TypeOK
    OneListPerParse
    QuietListIsItsSnapshot
    ThreadTypeOK
    QuietDetailShowsThread
PROPERTIES
    EveryReadableParseIsShown
    EventOpensOne
    TapOpens
CHECK_DEADLOCK FALSE
