\* The 16-bit build, files of any number of banks.
SPECIFICATION Spec
CONSTANTS
    FileSizes <- AnySize
    Banked = TRUE
    BankSize = 2
    MaxBanks = 3
    ByteRange = 8
INVARIANTS
    TypeOK
    PlaysWhatWasLoaded
    NoWildFree
    OnlyTablesLost
CHECK_DEADLOCK FALSE
