\* The whole table of the 7.15909 MHz clock.
SPECIFICATION Spec
CONSTANTS
    ClockRatio = 147
    MinWord = 74
    MaxWord = 18767
INVARIANTS
    CountsLeadingZeros
    InTune
PROPERTY
    Ascending
CHECK_DEADLOCK FALSE
