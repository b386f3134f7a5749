\* A tune without a delay, an update between the stores of zsm_start: the
\* stream ends before the repeat count is stored.
SPECIFICATION Spec
CONSTANTS
    Tunes <- Breathing
    RepeatArgs = {1}
    HeaderSize = 2
    ForeverCount = 255
    Banked = TRUE
    BankSize = 8
    NumBanks = 2
    MaxTicks = 4
INVARIANT
    EndsComplete
CHECK_DEADLOCK FALSE
