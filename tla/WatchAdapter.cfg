\* Overflow of both channels, trimming of the log, stops at any point.
CONSTANTS
    Kinds = {widget}
    Keys = {k1}
    Specs = {zero}
    Statuses = {zero}
    Labels = {l1}
    Zero = zero
    OmitEmpty = FALSE
    NoObject = NoObject
    Watchers = {w1}
    EventLogMax = 2
    BufSize = 1
    CallerUIDs = {0}
    MaxRevision = 4
    AdapterKind = widget
    Watcher = w1
    OutSize = 1
    MaxStops = 1
SPECIFICATION AdapterSpec
INVARIANTS FollowsStore RelayNoGap
PROPERTIES StopEndsRelay ReflectorConverges
CHECK_DEADLOCK FALSE
