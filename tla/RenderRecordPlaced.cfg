SPECIFICATION Spec
CONSTANTS
    p1 = p1
    p2 = p2
    NoFile = NoFile
    pyproject = pyproject
    cargo = cargo
    cargolock = cargolock
    followup = followup
    python = python
    rust = rust
    uvlock = uvlock
    cargoupdate = cargoupdate
    Proc = {p1}
    Lang = {rust}
    File = {cargo, followup}
    Cmd = {cargoupdate}
    FilesOf <- OneFilesOf
    LockfilesOf <- OneLockfilesOf
    CmdsOf <- OneCmdsOf
    Factories <- OneFactories
    Under <- OneUnder
    Placed = {followup}
    MaxRev = 0
    MaxEdits = 1
    MaxJobs = 3
INVARIANT
    PlacedEditsSurvive
CHECK_DEADLOCK FALSE
