\* Once every request and session is used up only the poller goes on.
SPECIFICATION Spec
CHECK_DEADLOCK FALSE
CONSTANTS
    Poller = poller
    Initial = initial
    Requests = {q1}
    PipeCap = 1
    MaxChanges = 2
    MaxSessions = 1
PROPERTY
    Settles
