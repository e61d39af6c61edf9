\* Status writes that bring labels of their own.
CONSTANTS
    Kinds = {widget}
    Keys = {k1}
    Specs = {zero}
    Statuses = {zero, s1}
    Labels = {l1}
    Zero = zero
    OmitEmpty = FALSE
    NoObject = NoObject
    Watchers = {}
    EventLogMax = 2
    BufSize = 1
    CallerUIDs = {0}
    MaxRevision = 3
SPECIFICATION Spec
INVARIANT StatusWritesStatusOnly
CHECK_DEADLOCK FALSE
