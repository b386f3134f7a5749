\* The 16-bit build, files of more banks than a byte can count.
SPECIFICATION Spec
CONSTANTS
    FileSizes <- AnySize
    Banked = TRUE
    BankSize = 2
    MaxBanks = 3
    ByteRange = 8
INVARIANT
    LimitedSize
CHECK_DEADLOCK FALSE
