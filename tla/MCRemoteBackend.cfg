CONSTANTS
    w1 = w1
    w2 = w2
    w3 = w3
    None = None
    Error = Error
    Worker = {w1, w2}
    Ceiling = 2
    Adaptive = TRUE
    Delays = {0, 2, 3}
    Length <- Lengths
    MaxItems = 2
    MaxChars = 4
    MaxRetries = 1
    MaxWait = 3
SPECIFICATION RemoteSpec
INVARIANT PermitsBalance
INVARIANT ParkedForAReason
INVARIANT CompleteOrError
PROPERTY PausesAreKept
PROPERTY BatchEnds
