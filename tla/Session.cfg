SPECIFICATION FairSpec
CONSTANTS
    Types = {"ping", "quit", "step", "observation"}
    MaxRequests = 3
    KillAttempts = 2
    ConnectAttempts = 2
    AnswerStatuses = {"in_game", "ended"}
    Hosts <- MCHosts
INVARIANTS
    NoMismatch
    AppStateTruthful
    NoSilentLoss
    PendingIsExpected
    PollIsTruthful
PROPERTIES
    CallSummaries
    WaitReturns
CHECK_DEADLOCK FALSE
