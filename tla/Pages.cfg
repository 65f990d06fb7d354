SPECIFICATION PagesSpec
CONSTANTS
    FilePaths = {index, extra}
    Texts = {t0, t1}
    StarterPath = index
    StarterText = t0
    Versions = {v1, v2}
    PubOps = {o1, o2}
    MaxEdits = 2
    Items = {x}
    Saves = {s1, s2}
    MaxOthers = 1
    Submissions = {s1, s2}
    MaxFills = 2
    DepVersions = {v1, v2}
    DepOps = {o1, o2}
    Cached = {v1, v2, v3}
    Windows = {w1, w2}
    RecentLimit = 2
    Keys = {"report", "other", "/bad"}
    BadKeys = {"/bad"}
    Files = {"report.txt", "notes.txt"}
    NameOf <- MCNameOf
    MaxTyped = 2
    MaxUploads = 2
    ObjectKeys <- MCObjectKeys
    KeyPrefixes = {"report"}
    Under <- MCUnder
    Addressed <- MCAddressed
    PayFields = {"amount"}
    JsonFilters <- MCJsonFilters
    MaxClauses = 2
    MaxLayers = 2
    PageSize = 2
    MaxRows = 4
    MaxPages = 2
    Matching <- MCMatching
    MaxWrites = 2
INVARIANTS PagesTypeOK PublishedIsItsSource StaleDraftsWereReopened DuplicatesHaveReasons LiveIsLast RecentsAreNewest UploadsGoWhereSigned StaleForAReason
PROPERTIES EditsSurvive OverwritesHaveReasons OtherClausesKept
CHECK_DEADLOCK FALSE
