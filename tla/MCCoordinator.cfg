SPECIFICATION Spec
CONSTANTS
    t1 = t1
    t2 = t2
    Tabs = {t1, t2}
    Workloads <- SafetyWorkloads
INVARIANTS RunsAtMostOnce RunsUnderItsOwner PagesAreCurrent FileWithinLock
PROPERTIES NeverGoesBack
CHECK_DEADLOCK FALSE
