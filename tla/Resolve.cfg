SPECIFICATION Spec
CONSTANTS
    lib = lib
    tool = tool
    p1 = p1
    p2 = p2
    flaw = flaw
    leak = leak
    Process = {p1, p2}
    Entry = {lib, tool}
    Tool = {tool}
    Names <- MCNames
    Ranks <- MCRanks
    Records <- MCRecords
    Starts <- MCStarts
    Specs <- MCSpecs
    Grace = 1
    Heads = {TRUE, FALSE}
    MaxTime = 2
    MaxSyncs = 3
    MaxChanges = 1
INVARIANTS
    TypeOK
    MissIsAsked
    FewRequests
    ReportSettles
PROPERTIES
    GateHolds
    PinnedIsStable
    FollowsHighest
SYMMETRY Symmetry
CHECK_DEADLOCK FALSE
