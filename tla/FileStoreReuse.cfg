CONSTANTS
    Kinds = {widget}
    Keys = {k1}
    Specs = {zero, s1}
    Statuses = {zero}
    Labels = {}
    Zero = zero
    OmitEmpty = FALSE
    NoObject = NoObject
    Watchers = {}
    EventLogMax = 2
    BufSize = 1
    Outcomes = {"ok", "crash"}
    MaxChanges = 4
    MaxFaults = 2
SPECIFICATION Spec
INVARIANT RevisionsIncrease
CHECK_DEADLOCK FALSE
