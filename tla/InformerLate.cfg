CONSTANTS
    Kinds = {widget}
    Keys = {k1, k2}
    Specs = {s1, s2, s3}
    Statuses = {zero}
    Labels = {l1}
    Zero = zero
    OmitEmpty = FALSE
    NoObject = NoObject
    Selector = {l1}
    AllowedKeys = {k1, k2}
    Rejected = {s3}
    Handlers = {h1, h2}
    h1 = h1
    h2 = h2
    k1 = k1
    k2 = k2
    l1 = l1
    s1 = s1
    s2 = s2
    s3 = s3
    Loads <- LateLoad
SPECIFICATION Spec
INVARIANT GoneObjectsRetracted
