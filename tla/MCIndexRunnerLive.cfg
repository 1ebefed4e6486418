CONSTANTS
    t1 = t1
    t2 = t2
    p = p
    q = q
    d = d
    e = e
    c1 = c1
    c2 = c2
    None = None
    ReadError = 0
    NoHash = 3
    Token = {t1, t2}
    Project = {p}
    Doc = {d}
    Path = {d}
    Hash = {0, 1, 2, 3}
    Rev = {1, 2}
    Config = {c1}
    SettingsOf <- OneSetting
    LocatorOf <- OneLocator
    Manifests <- AnyManifest
    Payloads <- AnyPayload
    MaxRunId = 2
    ScopeOf <- AllProjects
    ConfigOf <- SameConfig
    Trusting = {}
    PauseOnChange = {}
    MaxAttempts = 2
    Contents <- Authoritative
    InitialSource <- Filled
    Mortal = {}
    Cancellable = {}
    Overrulable = FALSE
    MaxEdits = 1
    MaxFaults = 1
CHECK_DEADLOCK FALSE
SPECIFICATION RunnerSpec
PROPERTY Terminates
