SPECIFICATION Spec
CONSTANTS
    Agents = {a1, a2}
    o1 = o1
    o2 = o2
    Observers <- MCObservers
    PortStart = 8
    MaxStarts = 5
    MaxLaunches = 2
INVARIANTS
    NoPortTwice
    OwnProcess
    NothingIsLeft
CHECK_DEADLOCK FALSE
