\* Takeovers, one invocation that trusts revisions, edits they do not show, two
\* configurations, one edit, one accident.
CONSTANTS
    t1 = t1
    t2 = t2
    p = p
    q = q
    d = d
    e = e
    c1 = c1
    c2 = c2
    None = None
    ReadError = 0
    NoHash = 3
    Token = {t1, t2}
    Project = {p}
    Doc = {d}
    Path = {d}
    Hash = {0, 1, 2, 3}
    Rev = {1, 2}
    Config = {c1, c2}
    SettingsOf <- EachItsSetting
    LocatorOf <- OneLocator
    Manifests <- AnyManifest
    Payloads <- AnyPayload
    MaxRunId = 2
    ScopeOf <- AllProjects
    ConfigOf <- AnyConfig
    Trusting = {t2}
    PauseOnChange = {t2}
    MaxAttempts = 2
    Contents <- Hidden
    InitialSource <- Filled
    Mortal = {t1, t2}
    Cancellable = {t1}
    Overrulable = TRUE
    MaxEdits = 1
    MaxFaults = 1
CHECK_DEADLOCK FALSE
SPECIFICATION RunnerSafety
INVARIANT OneConfiguration
INVARIANT ReadyIsPublishable
PROPERTY PublishedWasTrue
PROPERTY StagedWorkKept
PROPERTY FailsOnlyByConfiguration
