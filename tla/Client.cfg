\* Three writes of two accounts, the second one refused, through a pipeline of two
\* places; two listeners of two queries.
SPECIFICATION ClientSpec
CONSTANTS
    User = {a, b}
    NoToken = none
    Bad = {2}
    MaxPendingWrites = 2
    MaxBatches = 3
    MaxChanges = 1
    MaxFaults = 1
    Query = {q1, q2}
    MaxListens = 2
    MaxDrops = 2
INVARIANTS
    PipelineTypeOK
    PipelineIsFull
    AnswersMatchPipeline
    OwnCredentials
    NoAssertionFails
    EveryWriteHasOneFate
    ReportsInOrder
    NoWriteOvertakes
    WatchTypeOK
    WatchIsConsistent
    WaitsAreTimed
PROPERTIES
    QueueIsImplemented
    EveryWriteSettles
    FirstEventComes
CHECK_DEADLOCK FALSE
