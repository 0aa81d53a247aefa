SPECIFICATION FairSpec
CONSTANTS
    Types = {"ping", "quit", "replay_info", "start_replay", "step",
             "observation", "query", "obs_action"}
    MaxObservers = 2
    Versions = {"v1", "v2", "v3"}
    Installed = {"v1", "v2"}
    Settings <- MCSettings
INVARIANTS
    IgnoredAreShort
    RecoveredReplaysStart
    EndsAreReported
    NothingRefused
    RunsInItsVersion
    GoesOnWithEveryObserver
PROPERTIES
    LoopEnds
