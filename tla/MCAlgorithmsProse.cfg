\* A text with a character that holds the byte 0x85 or 0xA0.
SPECIFICATION AlgorithmsSpec
CONSTANTS
    Missing = Missing
    Corpus <- SmallCorpus
    StoredLinks <- SomeLinks
    StoredVectors <- SomeVectors
    Asks <- SomeAsks
    Scores <- AllScores
    Candidates = 4
    SeedCount = 2
    MaxHits = 0
    AgreementDepth = 1
    Character <- AllCharacters
    Line <- AllLines
    Options <- SmallOptions
    MaxBytes = 7
    MaxLines = 4
    Document = {"one", "two"}
    Source <- SmallSources
    Texts <- SmallTexts
    Settings <- SmallSettings
    MaxSequence = 2
    PauseBelow = 2
    ResumeAbove = 3
    Memory <- SomeMemory
    Unmeasured = Unmeasured
    s1 = s1  s2 = s2  p1 = p1  p2 = p2  l1 = l1  l2 = l2
    Loader = {l1, l2}
    Repositories <- SomeRepositories
    MaxVersions = 2
    MaxLoads = 2
    None = None
    Search = {s1, s2}
    Publisher = {p1, p2}
    MaxCommits = 3
SYMMETRY Symmetry
CHECK_DEADLOCK FALSE
INVARIANTS
    ChunksCanBeSliced
