SPECIFICATION FairSpec
CONSTANTS
    Workers = {w1, w2}
    StepSizes = {1}
    MaxLag = 2
    BaseFood = 2
    DepotFood = 1
    Margin = 1
    SlowFood = 2
    Foods = {1, 2}
    MaxBuilt <- SupplyMaxBuilt
    MaxLost = 0
PROPERTIES
    SupplyBlockEnds
CHECK_DEADLOCK FALSE
