\* Every request is used once: the run ends when they are used up.
SPECIFICATION Spec
CHECK_DEADLOCK FALSE
CONSTANTS
    Hosts = {h1}
    Actions = {upgrade, list}
    Destructive = {upgrade}
    Elevated = {upgrade}
    ReadOnly = {list}
    Requests = {r1, t1}
    Scheduled = {t1}
    NoCall = NoCall
    NoJob = NoJob
    BufferCap = 1
    MaxBreaks = 1
    MaxRestarts = 0
INVARIANT
    DestructiveNeedsConfirmation
