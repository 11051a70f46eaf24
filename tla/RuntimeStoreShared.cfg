SPECIFICATION FairSpec
CONSTANTS
    p1 = p1
    p2 = p2
    w1 = w1
    w2 = w2
    jre = jre
    openapi = openapi
    uv = uv
    uvOld = uvOld
    uvArm = uvArm
    Nobody = Nobody
    Nowhere = Nowhere
    NoEntry = NoEntry
    NoArtifact = NoArtifact
    NoDesc = NoDesc
    Proc = {p1, p2}
    Workspace = {w1, w2}
    Entry = {"jre", "openapi", "uv"}
    Desc = {jre, openapi, uv, uvOld}
    File <- MCFile
    Artifact <- MCArtifact
    Capability = {"jre", "c-compiler"}
    Plans <- MCPlans
    EntryOf <- MCEntryOf
    Rank <- MCRank
    Artifacts <- MCArtifacts
    Bins <- MCBins
    Env <- MCEnv
    Needs <- MCNeeds
    Provides <- MCProvides
    Host = {}
    Satisfy <- MCSatisfy
    Lays <- MCLays
    Served <- MCServed
    Pid <- SamePid
    MaxJobs = 3
    MaxAborts = 1
INVARIANTS
    TypeOK
    EntriesOfOneBuild
    PartialOnlyByRemoval
    LinksLeadToFiles
    NeedsAreMet
PROPERTIES
    FullEntriesStay
    ProvisionsEnd
CHECK_DEADLOCK FALSE
