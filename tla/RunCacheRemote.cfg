SPECIFICATION Spec
CONSTANTS
    p1 = p1
    p2 = p2
    p3 = p3
    r1 = r1
    r2 = r2
    l1 = l1
    Nobody = Nobody
    NoRoot = NoRoot
    Proc = {p1, p2}
    Remote = {r1, r2}
    Local = {}
    Forces = {TRUE, FALSE}
    MaxRev = 0
    MaxJobs = 4
    MaxAborts = 2
SYMMETRY Symmetry
INVARIANTS
    TypeOK
    OneAtATime
    WholeIsRegistered
PROPERTIES
    KeepsWarmRoots
CHECK_DEADLOCK FALSE
