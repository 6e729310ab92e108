SPECIFICATION Spec
CONSTANTS
    Calls = {c1, c2, c3}
    Keys = {k1, k2}
    Commands <- TwoCommands
    MaxConnections = 2
    None = None
SYMMETRY CallSymmetry
INVARIANTS
    OneEventPerRequest
    OkIsRecorded
    ConflictIsReal
    OnlyDatabaseErrorIsAmbiguous
PROPERTIES
    BindingsArePermanent
CHECK_DEADLOCK FALSE
