\* A card at another address than 0x210, with no clock given for its SAA1099s
\* or no memory for the table.
SPECIFICATION Spec
CONSTANTS
    ChannelCount = 1
    PsgChannels = 1
    ByteSize = 2
    MinWord = 1
    MaxWord = 2
    Table <- TwoPitches
    Amplitudes = {0, 15}
    Waveforms = {0, 2, 3}
    MayFail = TRUE
    CardAtDefault = FALSE
INVARIANT
    StaysOnCard
CHECK_DEADLOCK FALSE
