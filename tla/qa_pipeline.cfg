SPECIFICATION Spec
CONSTANTS
    None = None
    Methods <- MCMethods
    Versions <- MCVersions
    Classes = {"A", "B"}
    Endpoints = {"/b"}
    Exposed <- MCExposed
    Priority <- MCPriority
    Mentioned <- MCMentioned
    NamedAccessors = {"setup", "setup1", "getA", "getA1"}
    MAX_FLOW_NODES = 3
    Commits = {"first", "later", "last"}
    CommitOrder <- MCCommitOrder
    CodeChars <- MCCodeChars
    DIFF_LINES = 2
    LINE_CHARS = 2
    ITEM_CHARS = 3
    CUT_SLACK = 2
    FALLBACK_MAX_CONTEXT_CHARS = 7
    MIN_FALLBACK_CONTEXT_CHARS = 5
    MethodOf <- MCMethodOf
    ClassOf <- MCClassOf
    IntroducedIn <- MCIntroducedIn
    DeletedIn <- MCDeletedIn
    Accessors = {"getA"}
    SimpleBodies = {"setup1"}
    CallGraphs <- MCCallGraphs
    Questions <- MCQuestions
    Analyses <- MCAnalyses
    Orders <- MCOrders
    Rankings <- MCRankings
    MaxImports = 2
    TOP_K = 2
    MAX_SELECTION_CANDIDATES = 2
    MAX_CALL_DEPTH = 2
    MAX_ENRICHED_CODE_CONTEXTS = 2
    MAX_RETRIES = 2
    MaxEvidence <- MCMaxEvidence
INVARIANTS
    QATypeOK
    NamedSymbolAnswered
    NoEvidenceMeansNoChunk
    EvidenceIsConnected
    PictureHolds
    LatestChangeTold
PROPERTIES
    FlowFindsCalledCode
    ImpactFindsCallers
    SearchingEnds
    FallbackFits
