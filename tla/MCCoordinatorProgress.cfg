SPECIFICATION FairSpec
CONSTANTS
    t1 = t1
    t2 = t2
    Tabs = {t1, t2}
    Workloads <- ProgressWorkloads
PROPERTIES EveryRequestIsAnswered
CHECK_DEADLOCK FALSE
