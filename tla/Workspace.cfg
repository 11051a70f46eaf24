SPECIFICATION Spec
CONSTANTS
    svc = svc
    web = web
    Member = {svc, web}
    Language <- MCLanguage
    Manifest <- MCManifest
    Ignores <- MCIgnores
    MaxCommit = 2
    Revision = {"old", "new"}
    Proven <- MCProven
    Closures <- MCClosures
    Files <- MCFiles
    Foreign = "foreign"
    MaxEdits = 1
    MaxVerbs = 2
    MaxKills = 1
INVARIANTS
    TypeOK
    CheckedOut
    SyncedAsDeclared
    CheckoutAgrees
PROPERTIES
    WorkStays
    EditsOne
CHECK_DEADLOCK FALSE
