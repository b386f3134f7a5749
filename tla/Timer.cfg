\* The rates: the fastest that leaves the PIT alone, the slowest that does not,
\* and one near the usual 60 Hz on which the counter has fewer values.
SPECIFICATION Spec
CONSTANTS
    IrqNumbers <- AnyIrq
    SharedIrqs <- OneShared
    Rates <- SomeRates
    Word = 2048
    MaxGiven = 32
    WaitSpins = 2
INVARIANTS
    TypeOK
    EndsOfInterrupt
    ClockKept
    QuietAfterStop
PROPERTIES
    PairsStayWhole
    KeepsTicking
    StopReturns
CHECK_DEADLOCK FALSE
