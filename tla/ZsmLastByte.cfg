\* The 32-bit build, a file that ends with its end-of-file command.
SPECIFICATION Spec
CONSTANTS
    Tunes <- OneShotTunes
    RepeatArgs = {0}
    HeaderSize = 2
    ForeverCount = 255
    Banked = FALSE
    BankSize = 16
    NumBanks = 1
    MaxTicks = 20
INVARIANT
    NextBankExists
CHECK_DEADLOCK FALSE
