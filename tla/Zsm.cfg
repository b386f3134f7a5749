\* The 16-bit build with banks shorter than a command: every kind of command
\* crosses a bank, and so does the data of the extension.  Repeated forever,
\* the count is restored every second time round instead of every 255th.
SPECIFICATION Spec
CONSTANTS
    Tunes <- AllTunes
    RepeatArgs = {0, 1, 2, 32768}
    HeaderSize = 2
    ForeverCount = 2
    Banked = TRUE
    BankSize = 3
    NumBanks = 10
    MaxTicks = 20
INVARIANTS
    TypeOK
    EndsComplete
    StaysAligned
PROPERTIES
    PlaysScore
    LoopsForever
    UpdateReturns
    PlaybackEnds
CHECK_DEADLOCK FALSE
