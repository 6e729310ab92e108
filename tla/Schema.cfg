SPECIFICATION MCSpec
CONSTANTS
    Node <- MC_Node
    Root = 1
    Heaps <- MC_Heaps
    MaxDepth = 2
    MaxNodes = 7
    MaxArray = 2
    MaxModels = 2
    MaxFields = 2
    MaxKeys = 2
    MaxLength = 3
    MaxDiagnostics = 2
    PublicSchema = 0
    SystemSchemas = {9}
    SystemColumns = {9}
    HashBase = 10
    HashBuckets = 5
    Seeds <- ModelSeeds
    MaxEdits = 2
    SomeNames <- DocumentNames
    SomeSchemas = {0, 1, 9}
    SomeTables = {1, 2, 16, 18}
    SomeColumns = {1, 2, 9}
    SomeKeys <- ModelKeys
    SomeForeign <- ModelForeigns
    MaxEntities = 2
    MaxEntityFields = 2
    MaxEntityKeys = 2
    MaxTuple = 2
    MaxTextLength = 2
    MinInt <- Least
    MaxInt = 2
    ReservedFields = {8}
    ReservedModels = {8}
    IrSeeds <- PilotSeeds
    MaxIrEdits = 2
    SomeEntityNames <- PilotNames
    SomeEntityTables = {1, 2, 16, 19}
    SomeEntityColumns = {1, 2, 9}
    SomeBounds <- PilotBounds
    SomeTuples <- PilotTuples
    SomeEntityForeign <- PilotForeigns
INVARIANTS
    WorkBounded AncestorsAreOpen VerdictExact
     ArtifactsAgree SetNullCannotFail DeclarationsKept PilotArtifactsSound
 
\* A walk ends.
CHECK_DEADLOCK FALSE
