SPECIFICATION Spec
CONSTANTS
    t1 = t1
    t2 = t2
    Tabs = {t1, t2}
    Workloads <- RetiredWorkloads
INVARIANTS OwnerIsReady
CHECK_DEADLOCK FALSE
