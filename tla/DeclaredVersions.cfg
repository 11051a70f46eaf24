SPECIFICATION Spec
CONSTANTS
    a = a
    b = b
    peer = peer
    NoFile = NoFile
    Root = Root
    File = {a, b}
    Module = {peer}
    Internal = {peer}
    Version = {1, 2, 3}
    MaxEdits = 3
    MaxAborts = 1
INVARIANTS
    TypeOK
    EditsKept
    RecordTellsDisk
SYMMETRY Symmetry
CHECK_DEADLOCK FALSE
