\* The table of the 8 MHz clock.
SPECIFICATION Spec
CONSTANTS
    ClockRatio = 164
    MinWord = 82
    MaxWord = 20971
INVARIANT
    InTune
CHECK_DEADLOCK FALSE
