CONSTANTS
    MaxDoublings = 1
    MaxSwitches = 1
    MaxLost = 1
SPECIFICATION SessionSpec
CHECK_DEADLOCK FALSE
INVARIANTS
    ConnectedIsSubscribed
    AtMostOneForeignFrame
PROPERTIES
    Resubscribes
    OutageIsTold
    StopEnds
