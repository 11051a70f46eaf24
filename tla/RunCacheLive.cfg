SPECIFICATION FairSpec
CONSTANTS
    p1 = p1
    p2 = p2
    p3 = p3
    r1 = r1
    r2 = r2
    l1 = l1
    Nobody = Nobody
    NoRoot = NoRoot
    Proc = {p1, p2}
    Remote = {r1}
    Local = {l1}
    Forces = {FALSE}
    MaxRev = 1
    MaxJobs = 3
    MaxAborts = 2
INVARIANTS
    MarkedSynced
PROPERTIES
    JobsEnd
    RunsReachExec
CHECK_DEADLOCK FALSE
