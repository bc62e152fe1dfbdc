SPECIFICATION Spec
CONSTANTS
    a = a
    b = b
    Targets = {a, b}
    Gated = {b}
    Bodies <- MCBodies
    Arrays = {1, 2, 3, 4, 5}
    MaxFires = 2
    Period = 2
    Grace = 0
    Window = 1
    Retry = 1
    Cap = 1
    MaxTime = 4
    MaxEdits = 1
    MaxRemovals = 1
    MaxCrashes = 1
    Hosts = {h1, h2}
    Dialed = {h2}
    Workers = {1, 2}
    MaxSerials = 3
    MaxBegun = 3
    MaxReboots = 1
    DialedHosts = {h1}
    Addrs = {x, y}
    Syncers = {1, 2, 3}
    MaxLoops = 3
    MaxChanges = 3
    Reads = {r1, r2}
    ChanCap = 1
    QueueCap = 2
    MaxLines = 2
    MaxBreaks = 1
    Files = {compose, env}
    EnvFiles = {env}
    Editors = {e1}
    Contents = {good, bad}
    Invalid = {bad}
    Missing = Missing
    MaxSaves = 2
    MaxCuts = 1
    Images = {i1}
    Checks = {k1, k2}
    MaxDigest = 2
    MaxBadCommands = 1
    Passwords = {p, q}
    Tokens = {t}
    Requests = {r1, r2}
    MaxHashes = 3
    MaxSessions = 2
    MaxBadSaves = 2
    Keep = 2
    MaxEntries = 7
    MaxBadAppends = 4
    MaxKeys = 7
    MaxStops = 5
    None = None
    Torn = Torn
    Unset = Unset
INVARIANTS
    TypeOK
    RevokedIsRemoved
    DialsTheListed
    LogInOrder
    SavesKeepEdits
    FlagIsNews
    SignedOut
    ChainHolds
    IdentityHolds
PROPERTIES
    ImplementsAlarm
    FailureStands
CHECK_DEADLOCK FALSE
