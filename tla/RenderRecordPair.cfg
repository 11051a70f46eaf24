SPECIFICATION Spec
CONSTANTS
    p1 = p1
    p2 = p2
    NoFile = NoFile
    pyproject = pyproject
    cargo = cargo
    cargolock = cargolock
    followup = followup
    python = python
    rust = rust
    uvlock = uvlock
    cargoupdate = cargoupdate
    Proc = {p1, p2}
    Lang = {rust}
    File = {cargo}
    Cmd = {cargoupdate}
    FilesOf <- OneFilesOf
    LockfilesOf <- OneLockfilesOf
    CmdsOf <- OneCmdsOf
    Factories <- PairFactories
    Under <- OneUnder
    Placed = {}
    MaxRev = 2
    MaxEdits = 1
    MaxJobs = 3
SYMMETRY Symmetry
INVARIANTS
    RecordedEditsSurvive
    EditsHoldBackCommands
CHECK_DEADLOCK FALSE
