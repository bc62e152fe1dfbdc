\* Every session and every job is used up in the end.
SPECIFICATION Spec
CHECK_DEADLOCK FALSE
CONSTANTS
    Sessions = {s1}
    Jobs = {1, 2, 3, 4}
    ReadOnly = {4}
    Resendable = {3}
    DialsHome = TRUE
    NoJob = 0
    CmdCap = 1
    OutCap = 1
INVARIANTS
    TypeOK
    AnswersInTurn
    ActiveIsInProgress
PROPERTIES
    WindsDown
    AcceptedIsAnswered
