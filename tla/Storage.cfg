SPECIFICATION StorageSpec
CONSTANTS
    c1 = c1
    c2 = c2
    e1 = e1
    k1 = k1
    k2 = k2
    p1 = p1
    f1 = f1
    f2 = f2
    t1 = t1
    t2 = t2
    t3 = t3
    u = u
    v = v
    g1 = g1
    g2 = g2
    r0 = r0
    r1 = r1
    NoSource = NoSource
    Component = {"usage", "archive", "initialization", "library", "autofix"}
    Client <- TwoClients
    Thread <- ThreeThreads
    ClientOf <- SharedCoordinator
    Review <- OneReview
    Call <- TwoCalls
    Transactional = FALSE
    LostReplies = FALSE
    MaxFaults = 1
    MaxDeaths = 1
    ArchivedGlossaries <- GlossariesOfTwo
    MaxEdges = 2
    MaxCaptures = 5
    MaxArchiveFailures = 1
    BookSources = {f1, f2}
    PdfSources = {f2}
    MaxInitFailures = 3
    LibThreads = {t1, t2}
    LibProjects = {p1}
    LibOps = {"create", "upload", "import", "remove"}
    MaxLibCrashes = 1
    MaxLibFaults = 1
    Passages = {g1, g2}
    ChapterOf <- ChapterPerPassage
    Renderings = {r0, r1}
    FirstRendering = r0
    MaxAfReviews = 2
    MaxAfEdits = 1
    MaxAfFailures = 1
SYMMETRY ThreadSymmetry
INVARIANTS
    StorageTypeOK
    StorageIsSound
    BilledOnce
    JournalApplies
    ReviewWithinBook
PROPERTIES
    ImplementsUsageBook
    BillsAreKept
    OnlyReviewedTextIsReplaced
CHECK_DEADLOCK FALSE
