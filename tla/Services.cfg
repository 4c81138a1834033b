SPECIFICATION SvcSpec
CONSTANTS
    a = a
    b = b
    w0 = w0
    w1 = w1
    w2 = w2
    p1 = p1
    p2 = p2
    k1 = k1
    k2 = k2
    c1 = c1
    c2 = c2
    T1 = T1
    T2 = T2
    g1 = g1
    g2 = g2
    r0 = r0
    r1 = r1
    i = i
    j = j
    t1 = t1
    t2 = t2
    t3 = t3
    s1 = s1
    s2 = s2
    s3 = s3
    n1 = n1
    n2 = n2
    u1 = u1
    h1 = h1
    h2 = h2
    h3 = h3
    e1 = e1
    o1 = o1
    o2 = o2
    NoThread = NoThread
    NoWorkspace = NoWorkspace
    Component = {"exports", "migration", "requests", "translation", "review",
                 "sqlite", "updates", "native", "admission"}
    Export = {a, b}
    EXPORT_LIMIT = 1
    MaxLeases = 1
    MaxExportFaults = 1
    MaxExportStops = 1
    Workspace = {w1, w2}
    Old = {w1, w2}
    Legacy = {w1}
    MigProject = {p1, p2}
    MigProjects <- ProjectsOfWorkspaces
    OldJobs <- TwoNumbers
    OldExports <- OneNumber
    JobHigh = 2
    ExportHigh = 2
    MaxMigCreated = 1
    MaxMigFaults = 1
    MaxMigLosses = 1
    Call = {k1, k2}
    Connection = {c1, c2}
    Routes <- RoutesInOrder
    Permits <- OnePermitEach
    MaxRetries = 1
    Minute = 2
    RPM = 2
    TPM = 4
    MaxRequests = 6
    MaxTokens = 7
    Estimate = 2
    Actual <- ActualTokens
    Chapters = 2
    Length <- TwoThenOne
    Settings <- InvocationSettings
    DraftIds = {T1, T2}
    MaxBookFailures = 2
    MaxBookEdits = 1
    Paragraphs = {g1, g2}
    Wordings = {r0, r1}
    Formal = r0
    Issues = {i, j}
    Where <- IssueAt
    Editions <- TwoFixesOrNone
    MaxReviews = 2
    MaxRevEdits = 1
    MaxRevFailures = 1
    SqlThreads = {t1, t2, t3}
    MaxOperations = 4
    Savers = {s3}
    MaxEngines = 3
    MaxReleases = 1
    MaxUpdFaults = 2
    SaveThreads = {s1, s2}
    FilePaths = {n1, n2}
    UserFiles = {u1}
    MAX_GRANTS = 1
    MAX_SOURCE_IDENTITIES = 1
    MAX_SOURCE_ALIASES = 1
    MaxFileChanges = 1
    Hosts = {h1, h2, h3}
    Lone = {e1}
    Places = {w1, w2}
    Home <- WorkspaceOf
    Ports = {o1, o2}
    MaxHostCrashes = 1
SYMMETRY Exchange
INVARIANTS
    SvcTypeOK
    CatalogIsSound
    TranslationIsSound
    ReviewsAreSound
    ConnectionsAreSound
    HostIsSafe
PROPERTIES
    PublicationsLast
    ReservedNumbersAreTheSources
    FormalTextIsKept
    OnlyConfirmedFilesAreReplaced
    ClosingStopsSaves
CHECK_DEADLOCK FALSE
