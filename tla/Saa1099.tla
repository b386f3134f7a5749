------------------------------ MODULE Saa1099 ------------------------------
(***************************************************************************)
(* source/saa1099.c: PSG writes become register writes of two SAA1099s.    *)
(* The chips cannot be read, so g_cache repeats what was written to them;  *)
(* two channels share a register for their octaves, all channels of a chip *)
(* one for tone and one for noise.                                         *)
(*                                                                         *)
(* A register is <<name, number>>.  The two enable registers hold the set  *)
(* of their channels, an octave register the nibbles of a channel pair as  *)
(* a number.  The interrupt handler makes all PSG writes, so a write is    *)
(* one step.                                                               *)
(***************************************************************************)
EXTENDS Integers

CONSTANTS
    ChannelCount,       \* SAA1099_CHANNEL_COUNT: 6
    PsgChannels,        \* SAA1099_VERA_PSG_CHANNELS: 12
    ByteSize,           \* 256
    MinWord, MaxWord,   \* g_p_saa1099_vera_psg_range
    Table,              \* the frequency table, unpacked: see SaaTable
    Amplitudes,         \* amplitudes that volumes translate to
    Waveforms,          \* waveforms that are asked for, of 0 .. 3
    MayFail,            \* the clock may be invalid, malloc may return NULL
    CardAtDefault       \* the card is at 0x210

MaxChips == 2       \* SAA1099_MAX_CHIPS

ASSUME SaaAssumption ==
    /\ ChannelCount \in Nat \ {0}
    /\ PsgChannels \in 1 .. MaxChips * ChannelCount
    /\ MinWord \in Nat /\ MaxWord \in Nat /\ MinWord <= MaxWord
    /\ MaxWord < ByteSize * ByteSize
    /\ Table \in [MinWord .. MaxWord -> [octave : 0 .. 7, frequency : 0 .. 255]]
    /\ ByteSize \in Nat \ {0}
    /\ Amplitudes \subseteq 0 .. 255 /\ Waveforms \subseteq 0 .. 3
    /\ MayFail \in BOOLEAN /\ CardAtDefault \in BOOLEAN

VARIABLES
    phase,          \* of play_zsm: "boot", "playing" or "done"
    clock_valid,    \* saaym_config_t.saa1099_clock is not SAA1099_CLOCK_INVALID
    g_p_vera_psg_to_frequency_table,    \* it is not NULL
    g_port_base_address,                \* "0x210" or the port of the card
    g_cache,
    g_vera_psg_channel_frequency,
    g_vera_psg_channel_waveform,
    registers,      \* those of the chips on the card
    stray           \* history: a byte was sent where the card is not

words == <<g_vera_psg_channel_frequency, g_vera_psg_channel_waveform>>
vars  == <<phase, clock_valid, g_p_vera_psg_to_frequency_table, g_port_base_address,
           g_cache, words, registers, stray>>

Chips    == 0 .. MaxChips - 1
Channels == 0 .. ChannelCount - 1
Pairs    == 0 .. (ChannelCount - 1) \div 2

Enables   == {<<"frequency_enable", 0>>, <<"noise_enable", 0>>}
Addresses ==
    Enables \cup {<<"sound_enable", 0>>} \cup ({"octave"} \X Pairs)
            \cup ({"amplitude", "frequency"} \X Channels)

Filled(data, channels) ==
    [a \in Addresses |-> IF a \in Enables THEN channels ELSE data]
Cleared == [chip \in Chips |-> Filled(0, {})]

\* What play leaves in the registers of an initialized chip.
Prepared ==
    [chip \in Chips |->
        [Filled(0, {}) EXCEPT ![<<"sound_enable", 0>>] = 1,
                              ![<<"frequency_enable", 0>>] = Channels]]

Init ==
    /\ phase = "boot"
    /\ clock_valid \in (IF MayFail THEN BOOLEAN ELSE {TRUE})
    /\ g_p_vera_psg_to_frequency_table = FALSE
    /\ g_port_base_address = "0x210"
    /\ g_cache = Cleared
    /\ g_vera_psg_channel_frequency = [c \in 0 .. PsgChannels - 1 |-> 0]
    /\ g_vera_psg_channel_waveform = [c \in 0 .. PsgChannels - 1 |-> 0]
    /\ registers \in {Cleared, [chip \in Chips |-> Filled(0, Channels)]}
    /\ stray = FALSE

\* saa1099_write, for all registers, at the port base address that holds then.
OnCard == CardAtDefault \/ g_port_base_address' = "card"

WriteAll(contents) ==
    /\ g_cache' = contents
    /\ registers' = IF OnCard THEN contents ELSE registers
    /\ stray' = (stray \/ ~OnCard)

\* saa1099_write, for each register of the chip that there is data for.
Written(regs, chip, data) ==
    [regs EXCEPT ![chip] =
        [a \in Addresses |-> IF a \in DOMAIN data THEN data[a] ELSE @[a]]]

Write(chip, data) ==
    /\ g_cache' = Written(g_cache, chip, data)
    /\ registers' = IF OnCard THEN Written(registers, chip, data) ELSE registers
    /\ stray' = (stray \/ ~OnCard)

\* saa1099_vera_psg_initialize; without a clock or a table it does no more.
Initialize ==
    /\ phase = "boot" /\ phase' = "playing"
    /\ \E fits \in (IF MayFail THEN BOOLEAN ELSE {TRUE}) :
           g_p_vera_psg_to_frequency_table' = (clock_valid /\ fits)
    /\ IF g_p_vera_psg_to_frequency_table'
       THEN /\ g_port_base_address' = "card"
            /\ WriteAll(Prepared)
            /\ g_vera_psg_channel_frequency' = [c \in 0 .. PsgChannels - 1 |-> 0]
            /\ g_vera_psg_channel_waveform' = [c \in 0 .. PsgChannels - 1 |-> 0]
       ELSE UNCHANGED <<g_port_base_address, g_cache, words, registers, stray>>
    /\ UNCHANGED clock_valid

\* saa1099_vera_psg_terminate: saa1099_clear, free.
Terminate ==
    /\ phase = "playing" /\ phase' = "done"
    /\ g_p_vera_psg_to_frequency_table' = FALSE
    /\ UNCHANGED <<clock_valid, g_port_base_address, words>>
    /\ WriteAll(Cleared)

(***************************************************************************)
(* saa1099_vera_psg_write, by the register of the PSG that is written.     *)
(* Main hands it to zsm.c when the clock is valid only.  Channels from     *)
(* PsgChannels on are ignored.                                             *)
(***************************************************************************)
Playing ==
    /\ phase = "playing" /\ clock_valid
    /\ UNCHANGED <<phase, clock_valid, g_p_vera_psg_to_frequency_table, g_port_base_address>>

Chip(channel)  == channel \div ChannelCount
Voice(channel) == channel % ChannelCount

Clamp(word) == IF word < MinWord THEN MinWord ELSE IF word > MaxWord THEN MaxWord ELSE word

\* Without a table the entry is read through a NULL pointer: anything.
Lookup(word) ==
    IF g_p_vera_psg_to_frequency_table
    THEN {Table[Clamp(word)]}
    ELSE [octave : 0 .. 7, frequency : 0 .. 255]

\* Mutants of OctaveData: a shift without its mask, the other nibble lost.
OctaveDataUnmasked(cached, voice, octave) ==
    IF voice % 2 = 0 THEN cached * 16 + octave ELSE octave * 16 + (cached % 8)

OctaveDataAlone(cached, voice, octave) ==
    IF voice % 2 = 0 THEN octave ELSE octave * 16

\* The nibble of one channel replaced, bit 3 of both dropped.
OctaveData(cached, voice, octave) ==
    IF voice % 2 = 0
    THEN ((cached \div 16) % 8) * 16 + octave
    ELSE octave * 16 + (cached % 8)

\* saa1099_set_frequency
SetFrequency(channel, word) ==
    LET chip == Chip(channel)
        voice == Voice(channel)
        divider == <<"frequency", voice>>
        octaves == <<"octave", voice \div 2>>
    IN  /\ \E pitch \in Lookup(word) :
               Write(chip, [a \in {divider, octaves} |->
                   IF a = divider THEN pitch.frequency
                   ELSE OctaveData(g_cache[chip][octaves], voice, pitch.octave)])
        /\ g_vera_psg_channel_frequency' = [g_vera_psg_channel_frequency EXCEPT ![channel] = word]
        /\ UNCHANGED g_vera_psg_channel_waveform

\* VERA_PSG_OFFSET_FREQ_LO
WriteLow(channel, data) ==
    LET word == g_vera_psg_channel_frequency[channel]
    IN  Playing /\ SetFrequency(channel, (word - (word % ByteSize)) + data)

\* VERA_PSG_OFFSET_FREQ_HI
WriteHigh(channel, data) ==
    LET word == g_vera_psg_channel_frequency[channel]
    IN  Playing /\ SetFrequency(channel, data * ByteSize + (word % ByteSize))

\* VERA_PSG_OFFSET_RL_VOLUME
WriteVolume(channel, amplitude) ==
    /\ Playing
    /\ Write(Chip(channel), [a \in {<<"amplitude", Voice(channel)>>} |-> amplitude])
    /\ UNCHANGED words

\* Mutant of WriteWaveform: the channel does not leave the other register.
WriteWaveformBoth(channel, waveform) ==
    LET chip == Chip(channel)
        enable == <<IF waveform = 3 THEN "noise_enable" ELSE "frequency_enable", 0>>
    IN  /\ Playing
        /\ waveform # g_vera_psg_channel_waveform[channel]
        /\ Write(chip, [a \in {enable} |-> g_cache[chip][a] \cup {Voice(channel)}])
        /\ g_vera_psg_channel_waveform' = [g_vera_psg_channel_waveform EXCEPT ![channel] = waveform]
        /\ UNCHANGED g_vera_psg_channel_frequency

\* VERA_PSG_OFFSET_WAVEFORM_PULSE_WIDTH: on a change of waveform the channel
\* joins one enable register and leaves the other.
WriteWaveform(channel, waveform) ==
    LET chip == Chip(channel)
        noise == waveform = 3       \* bit 0 of (waveform >> 1) & waveform
        enable == <<IF noise THEN "noise_enable" ELSE "frequency_enable", 0>>
    IN  /\ Playing
        /\ waveform # g_vera_psg_channel_waveform[channel]
        /\ Write(chip, [a \in Enables |->
               IF a = enable THEN g_cache[chip][a] \cup {Voice(channel)}
               ELSE g_cache[chip][a] \ {Voice(channel)}])
        /\ g_vera_psg_channel_waveform' = [g_vera_psg_channel_waveform EXCEPT ![channel] = waveform]
        /\ UNCHANGED g_vera_psg_channel_frequency

Next ==
    \/ Initialize
    \/ Terminate
    \/ \E channel \in 0 .. PsgChannels - 1 :
           \/ \E data \in 0 .. ByteSize - 1 : WriteLow(channel, data) \/ WriteHigh(channel, data)
           \/ \E amplitude \in Amplitudes : WriteVolume(channel, amplitude)
           \/ \E waveform \in Waveforms : WriteWaveform(channel, waveform)

Spec == Init /\ [][Next]_vars

-----------------------------------------------------------------------------
(***************************************************************************)
(* Properties.                                                             *)
(***************************************************************************)

\* What a voice plays, out of the registers of its chip.
Heard(regs, v) ==
    LET octaves == regs[<<"octave", v \div 2>>]
    IN  [pitch |-> [octave |-> IF v % 2 = 0 THEN octaves % 8 ELSE octaves \div 16,
                    frequency |-> regs[<<"frequency", v>>]],
         amplitude |-> regs[<<"amplitude", v>>],
         generator |-> IF v \in regs[<<"noise_enable", 0>>] THEN "noise"
                       ELSE IF v \in regs[<<"frequency_enable", 0>>] THEN "tone"
                       ELSE "none"]

Sounding(channel) == Heard(registers[Chip(channel)], Voice(channel))

Psg == INSTANCE PsgVoices WITH
    Channels <- 0 .. PsgChannels - 1,
    word <- g_vera_psg_channel_frequency,
    voice <- [c \in 0 .. PsgChannels - 1 |-> Sounding(c)]

\* The registers play the voices of the PSG (all of saa1099.c): through the
\* shared octave and enable registers no write to a channel is heard on
\* another, a pitch is the one of the whole 16-bit word, after initialization
\* nothing is left of earlier music and after termination nothing at all.
PlaysVoices == Psg!Spec

\* No channel ever sounds tone and noise together, whatever waveforms follow
\* each other (the enable_index trick of saa1099_vera_psg_write).
OneGenerator ==
    phase # "boot" =>
        \A chip \in Chips :
            /\ registers[chip][<<"frequency_enable", 0>>]
                   \cap registers[chip][<<"noise_enable", 0>>] = {}
            /\ phase = "playing" =>
                   registers[chip][<<"frequency_enable", 0>>]
                       \cup registers[chip][<<"noise_enable", 0>>] = Channels

\* Nothing is ever sent to ports that are not the card's: "port_base_address
\* Base port address for SAA1099 chips" (source/saa1099.c:287).
StaysOnCard == ~stray

RegistersTyped(regs) ==
    \A chip \in Chips : \A a \in Addresses :
        regs[chip][a] \in IF a \in Enables THEN SUBSET Channels ELSE 0 .. 255

TypeOK ==
    /\ phase \in {"boot", "playing", "done"}
    /\ clock_valid \in BOOLEAN /\ g_p_vera_psg_to_frequency_table \in BOOLEAN
    /\ g_port_base_address \in {"0x210", "card"} /\ stray \in BOOLEAN
    /\ g_vera_psg_channel_frequency \in [0 .. PsgChannels - 1 -> 0 .. (ByteSize * ByteSize) - 1]
    /\ g_vera_psg_channel_waveform \in [0 .. PsgChannels - 1 -> 0 .. 3]
    /\ RegistersTyped(g_cache) /\ RegistersTyped(registers)

(***************************************************************************)
(* The inductive invariants that the proofs about this module need: what   *)
(* holds of every card, and what more of one whose clock is known when     *)
(* there is memory for the table.                                          *)
(***************************************************************************)

\* Both octaves of a register keep to three bits.
OctaveBytes == {16 * high + low : high \in 0 .. 7, low \in 0 .. 7}

RegistersOK(regs) ==
    /\ RegistersTyped(regs)
    /\ DOMAIN regs = Chips
    /\ \A chip \in Chips :
           /\ DOMAIN regs[chip] = Addresses
           /\ \A pair \in Pairs : regs[chip][<<"octave", pair>>] \in OctaveBytes

SaaInv == TypeOK /\ RegistersOK(g_cache) /\ RegistersOK(registers)

\* What the program takes the chips to hold is what they hold.
CacheTrue == phase # "boot" => g_port_base_address = "card" /\ registers = g_cache

ReadyInv ==
    /\ clock_valid
    /\ phase = "playing" => g_p_vera_psg_to_frequency_table
    /\ CacheTrue /\ StaysOnCard /\ OneGenerator

=============================================================================
