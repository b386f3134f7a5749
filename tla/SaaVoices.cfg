\* A card with a clock and memory for the table.
SPECIFICATION Spec
CONSTANTS
    ChannelCount = 2
    PsgChannels = 3
    ByteSize = 2
    MinWord = 1
    MaxWord = 2
    Table <- TwoPitches
    Amplitudes = {0, 15}
    Waveforms = {0, 2, 3}
    MayFail = FALSE
    CardAtDefault = FALSE
INVARIANTS
    TypeOK
    OneGenerator
PROPERTY
    PlaysVoices
CHECK_DEADLOCK FALSE
