\* The writes of objects, all of their data; clients; and watchers.
CONSTANTS
    Kinds = {widget, gadget}
    Keys = {k1, k2}
    Specs = {zero, s1}
    Statuses = {zero, s1}
    Labels = {l1}
    Zero = zero
    OmitEmpty = FALSE
    NoObject = NoObject
    Watchers = {w1}
    EventLogMax = 2
    BufSize = 1
    CallerUIDs = {0, 1}
    MaxRevision = 4
    Clients = {c1}
    Keep = Keep
    NoRequest = NoRequest
    widget = widget
    gadget = gadget
    k1 = k1
    k2 = k2
    l1 = l1
    zero = zero
    s1 = s1
    Loads <- MCLoads
SPECIFICATION ClientSpec
INVARIANTS
    StoreIsHistory NoLostUpdate GenerationTracksSpec SplitWrites NoopSuppressed
    DeletesWhatItListed
    LogIsRecentHistory EventsSinceExact WatchOrdered WatchNoGap NeverBlocksOnPreload RegistryMatches
PROPERTIES PatchAppliesDiff ImplementsContract
CHECK_DEADLOCK FALSE
