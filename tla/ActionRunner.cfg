\* Every request is used once: the run ends when they are used up.
SPECIFICATION Spec
CHECK_DEADLOCK FALSE
SYMMETRY Symmetry
CONSTANTS
    Hosts = {h1}
    Actions = {upgrade}
    Destructive = {upgrade}
    Elevated = {upgrade}
    ReadOnly = {}
    Requests = {r1, r2, r3}
    Scheduled = {}
    NoCall = NoCall
    NoJob = NoJob
    BufferCap = 1
    MaxBreaks = 1
    MaxRestarts = 1
INVARIANTS
    TypeOK
    ResolvedOnce
    DestructiveIsSanctioned
    FinishedIsOver
    PausedHasPrompt
PROPERTIES
    ImplementsJobLife
