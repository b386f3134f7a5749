\* A card found by probing or named by the environment, and played.
SPECIFICATION Spec
CONSTANTS
    Lines <- TwoLines
    Environments <- SomeEnvironments
    Machines <- SomeMachines
    TickRates = {16, 3495}
    FastPeriod = 1
    SlowPeriod = 4
    LostTicks = 1
    Threshold = 3
    Limit = 7
INVARIANTS
    TypeOK
    SensesTheCard
    ClockFound
    GivesBack
    TempoKept
    LeavesAsFound
PROPERTIES
    DetectionEnds
    EscapeStops
    ReturnsToDos
CHECK_DEADLOCK FALSE
