SPECIFICATION FairSpec
CONSTANTS
    Workers = {w1, w2}
    MaxSockets = 3
    MaxRequests = 2
INVARIANTS
    AnswersInOrder
PROPERTIES
    LoneBotIsServed
    RequestsAreAnswered
CHECK_DEADLOCK FALSE
