CONSTANTS
    Gvks = {widget, gadget}
    Informers = {i1, i2}
    Threads = {t1, t2, t3}
    Starters = {t1, t3}
    Creators = {t2, t3}
    Removers = {t2}
    Waiters = {t3}
    NoInformer = NoInformer
    NoKind = NoKind
    MaxFailures = 1
SPECIFICATION LifecycleSpec
INVARIANTS StartedOnce SyncedMeansFilled
PROPERTIES WaitReturns CancelEndsWatches
CHECK_DEADLOCK FALSE
