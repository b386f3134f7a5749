\* The 16-bit build with all 16 banks in use.
SPECIFICATION Spec
CONSTANTS
    Banked = TRUE
    BankSize = 5
    NumBanks = 16
    MaxSkip = 12
    JumpTargets = {2, 23, 64, 79}
INVARIANT
    TypeOK
PROPERTY
    ReadsLinearly
