SPECIFICATION Spec
CONSTANTS
    OwnTags = {o1}
    EnemyTags = {e1}
    Upgrades = {u1}
    MaxLoop = 3
    Modes = {TRUE, FALSE}
PROPERTIES
    ImplementsStream
    FailedOrdersAreReissuedWhenStepped
CHECK_DEADLOCK FALSE
