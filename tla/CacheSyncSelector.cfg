CONSTANTS
    Kinds = {widget}
    Keys = {k1}
    Specs = {zero}
    Statuses = {zero}
    Labels = {l1}
    Zero = zero
    OmitEmpty = FALSE
    NoObject = NoObject
    Watchers = {w1}
    EventLogMax = 2
    BufSize = 1
    CallerUIDs = {0}
    MaxRevision = 4
    Selector = {l1}
    AllowedKeys = {k1}
    Rejected = {}
    InformerKind = widget
    Watcher = w1
SPECIFICATION SyncSpec
INVARIANT CaughtUpCacheIsStore
CHECK_DEADLOCK FALSE
