\* Two snapshots whose parses overlap.
SPECIFICATION Spec
CONSTANTS
    Orders = {o1, o2}
    Unreadable = {}
    MaxParses = 2
    MaxCalls = 1
INVARIANTS
    ListIsItsSnapshot
CHECK_DEADLOCK FALSE
