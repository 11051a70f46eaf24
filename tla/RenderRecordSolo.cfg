SPECIFICATION Spec
CONSTANTS
    p1 = p1
    p2 = p2
    NoFile = NoFile
    pyproject = pyproject
    cargo = cargo
    cargolock = cargolock
    followup = followup
    python = python
    rust = rust
    uvlock = uvlock
    cargoupdate = cargoupdate
    Proc = {p1}
    Lang = {python, rust}
    File = {pyproject, cargo, cargolock}
    Cmd = {uvlock, cargoupdate}
    FilesOf <- SoloFilesOf
    LockfilesOf <- SoloLockfilesOf
    CmdsOf <- SoloCmdsOf
    Factories <- SoloFactories
    Under <- SoloUnder
    Placed = {}
    MaxRev = 1
    MaxEdits = 1
    MaxJobs = 3
INVARIANTS
    TypeOK
PROPERTIES
    RecordAgreesWithDisk
    ForgetsOnlyTakenOrDropped
CHECK_DEADLOCK FALSE
