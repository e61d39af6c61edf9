CONSTANTS
    Kinds = {widget}
    Keys = {k1, k2}
    Specs = {s1}
    Statuses = {t1, t2}
    Labels = {}
    Zero = zero
    OmitEmpty = FALSE
    NoObject = NoObject
    Selector = {}
    AllowedKeys = {k1, k2}
    Rejected = {}
    Instances = {a, b}
    NoLease = NoLease
    NoCall = NoCall
    TTL = 1
    a = a
    b = b
    k1 = k1
    k2 = k2
    Deployments <- NoFaults
SPECIFICATION Spec
PROPERTIES RelistEnds
CHECK_DEADLOCK FALSE
