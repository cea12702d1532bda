SPECIFICATION StoresSpec
CONSTANTS
    sql = sql
    VTxns = {t1, t2, t3}
    Root = root
    Mounted = {sql}
    MountLists <- StoreMounts
    VPaths <- StorePaths
    NoStore = NoStore
    VFaults = 1
    GSlots = {c1, c2}
    GRequests <- CallRequests
    GIds = {"i", "j"}
    GPaths <- CallPaths
    GText <- CallTexts
    GBundles <- CallBundles
    PqMaxCacheSize = 1
    MaxCommits = 2
    GFaults = 1
    GNone = "none"
    BNames = {"n1", "n2"}
    BundleSets <- Downloads
    ClientLeaves <- WrittenLeaves
    ClientModules <- WrittenModules
    NameStarts <- PrefixNames
    NoBundle = NoBundle
    Names = {1, 2, 3, 4}
    Contents <- DecodedObjects
    StringValues = {s1}
    OtherValues = {n1}
    Handles = {h1, h2}
    CompactLimit = 2
    CloneGrown = FALSE
    MaxArrays = 2
    Buckets = 2
    Sizes <- TableSizes
    TableKeys <- PolicyKeys
    PlainValues <- PolicyValues
    InputNames = {1}
    MaxEntries = 3
    IntStrings = {3}
    DeltaDocs <- DiffDocs
    PatchDocs <- PatchedDocs
    PatchOps <- OpsOnDocs
    MaxOps = 2
    WordBits = 15
    LenBits = 9
    Requests <- PolicyRequests
    ProgramData <- DataDocument
    BuiltinValues <- FailingBuiltin
    RegistersSize = 3
    InstrBatch = 2
    Unlimited = 1000
    Queriers = {1, 2}
    CallScripts <- ScriptsOfCalls
    MaxClock = 1
    CallFaults = 1
    MaxPrepared = 1
    SQLConfigs <- SQLSettings
    SQLCalls <- WritesOfClients
    SQLKeys = {"x", "y"}
    SQLMembers <- MemberPaths
    MaxSQLWrites = 2
    EditDocs <- EditedTerms
    EditOps <- EditsOfTerms
    RefSets <- ReferenceSets
    MaxEdits = 3
    ByteBits = 2
    Previews = {w1, w2}
    PreviewRequests <- RequestsForPreview
    PrimaryContents <- ContentsOfPrimary
    VaultContents <- SecretsOverTime
    EkmConfigs <- ConfigsOfKeys
    EkmEnv = {"addr"}
    HTTPCalls <- CallsOfPolicies
    Callers = {1}
    Paths <- FlatArrayPaths
    Inputs <- MCInputs
    InitHeap <- FlatArrayHeap
    InitRoot = 1
    MaxWrites = 3
INVARIANTS StoresTypeOK  CommittedDataIntact    BundleSafety  TablesHoldWhatWasInserted    SQLSafety   
PROPERTIES OwnedPathsUntouched 
CHECK_DEADLOCK FALSE
SYMMETRY StoresSymmetry
