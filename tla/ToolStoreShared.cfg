SPECIFICATION Spec
CONSTANTS
    p1 = p1
    p2 = p2
    w1 = w1
    w2 = w2
    v1 = v1
    v2 = v2
    forge = forge
    ci = ci
    d1 = d1
    d2 = d2
    d3 = d3
    mockery = mockery
    Nobody = Nobody
    Nowhere = Nowhere
    NoRevision = NoRevision
    NoDigest = NoDigest
    NoName = NoName
    Proc = {p1, p2}
    Workspace = {w1, w2}
    Revision = {v1, v2}
    Tool = {forge, ci}
    Digest = {d1, d2, d3}
    Index <- TwoIndex
    Entry = {mockery}
    Builds <- TwoBuilds
    MaxJobs = 3
    MaxAborts = 1
SYMMETRY Symmetry
INVARIANTS
    TypeOK
    UserBlobsWhole
    LinksLeadToBlobs
    GapsAreClosed
PROPERTY
    EntriesBuiltOnce
CHECK_DEADLOCK FALSE
