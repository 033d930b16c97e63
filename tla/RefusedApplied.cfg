\* One account, four writes, the third one refused; no faults.
SPECIFICATION PipelineSpec
CONSTANTS
    User = {a}
    NoToken = none
    Bad = {3}
    MaxPendingWrites = 4
    MaxBatches = 4
    MaxChanges = 0
    MaxFaults = 0
INVARIANT RefusedWasNotApplied
CHECK_DEADLOCK FALSE
