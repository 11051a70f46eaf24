SPECIFICATION Spec
CONSTANTS
    svc = svc
    web = web
    Member = {svc, web}
    Language <- MCOtherLanguage
    Manifest <- MCManifest
    Ignores <- MCIgnores
    MaxCommit = 2
    Revision = {"old", "new"}
    Proven <- MCProven
    Closures <- MCClosures
    Files <- MCFiles
    Foreign = "foreign"
    MaxEdits = 0
    MaxVerbs = 2
    MaxKills = 0
INVARIANTS
    CloneFetches
CHECK_DEADLOCK FALSE
