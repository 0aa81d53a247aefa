SPECIFICATION FairSpec
CONSTANTS
    Types = {"ping", "quit", "create_game", "join_game", "leave_game",
             "observation", "action", "step", "query"}
    MaxAgents = 2
    MaxGames = 3
    Settings <- MCSettings
INVARIANTS
    SteppedEndIsReported
    EndIsReportedOnce
    NothingRefused
    NoWaitAfterFailure
    NoProtocolErrors
PROPERTIES
    CallsReturn
    LoopEnds
