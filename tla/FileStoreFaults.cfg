\* Every fault between the writes of a mutation, and a watcher.
CONSTANTS
    Kinds = {widget}
    Keys = {k1}
    Specs = {zero, s1}
    Statuses = {zero, s1}
    Labels = {}
    Zero = zero
    OmitEmpty = FALSE
    NoObject = NoObject
    Watchers = {w1}
    EventLogMax = 2
    BufSize = 1
    Outcomes = {"ok", "writeError", "persistError", "crash"}
    MaxChanges = 3
    MaxFaults = 2
SPECIFICATION Spec
INVARIANTS RevisionsIncreaseInRun UIDsUnique RevisionLagBounded SplitWrites WatchSeesStore
CHECK_DEADLOCK FALSE
