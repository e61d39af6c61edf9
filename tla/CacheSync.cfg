CONSTANTS
    Kinds = {widget, gadget}
    Keys = {k1}
    Specs = {zero, s1}
    Statuses = {zero}
    Labels = {}
    Zero = zero
    OmitEmpty = FALSE
    NoObject = NoObject
    Watchers = {w1}
    EventLogMax = 2
    BufSize = 1
    CallerUIDs = {0}
    MaxRevision = 6
    Selector = {}
    AllowedKeys = {k1}
    Rejected = {}
    InformerKind = widget
    Watcher = w1
SPECIFICATION SyncSpec
INVARIANT CacheAtLastRV
PROPERTY CacheConverges
CHECK_DEADLOCK FALSE
