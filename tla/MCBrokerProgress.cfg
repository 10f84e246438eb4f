SPECIFICATION FairSpec
CONSTANTS
    c1 = c1
    c2 = c2
    c3 = c3
    Writes <- MCWrites
    Clients = {c1, c2, c3}
    LocalClient = c1
    Workloads <- ProgressWorkloads
PROPERTIES EverythingSettles
CHECK_DEADLOCK FALSE
