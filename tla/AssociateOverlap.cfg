\* Every session and every job is used up in the end.
SPECIFICATION Spec
CHECK_DEADLOCK FALSE
CONSTANTS
    Sessions = {s1, s2}
    Jobs = {1, 2}
    ReadOnly = {}
    Resendable = {}
    DialsHome = TRUE
    NoJob = 0
    CmdCap = 1
    OutCap = 1
INVARIANT
    OneMutationPerHost
