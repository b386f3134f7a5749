--------------------------- MODULE Saa1099Proofs ---------------------------
(***************************************************************************)
(* Proofs about Saa1099 for every number of channels, every frequency      *)
(* table and all bytes: the chips, through a cache and shared registers,   *)
(* play the independent voices of a PSG.                                   *)
(***************************************************************************)
EXTENDS Saa1099, TLAPS

-----------------------------------------------------------------------------
(***************************************************************************)
(* Channels, chips and registers.                                          *)
(***************************************************************************)

PsgIds == 0 .. PsgChannels - 1

\* A channel of the PSG is a voice of a chip that there is.
LEMMA VoiceOnChip ==
    ASSUME NEW c \in PsgIds
    PROVE  Chip(c) \in Chips /\ Voice(c) \in Channels /\ c = Chip(c) * ChannelCount + Voice(c)
  <1> DEFINE q == c \div ChannelCount
             r == c % ChannelCount
  <1>1. ChannelCount \in Nat \ {0} /\ c \in Nat /\ c < 2 * ChannelCount
    BY SaaAssumption DEF PsgIds, MaxChips
  <1>2. q \in Nat /\ r \in 0 .. ChannelCount - 1 /\ c = q * ChannelCount + r
    BY <1>1
  <1> HIDE DEF q, r
  <1>3. q <= 1
    <2>1. SUFFICES ASSUME q >= 2 PROVE FALSE
      BY <1>2
    <2>2. PICK k \in Nat : q = 2 + k
      <3>1. q - 2 \in Nat /\ q = 2 + (q - 2)
        BY <1>2, <2>1
      <3>2. QED BY <3>1
    <2>3. q * ChannelCount = 2 * ChannelCount + k * ChannelCount /\ k * ChannelCount \in Nat
      BY <1>1, <2>2
    <2>4. QED BY <1>1, <1>2, <2>3
  <1>4. QED
    BY <1>2, <1>3 DEF q, r, Chip, Voice, Chips, Channels, MaxChips

\* No two channels are the same voice of the same chip.
LEMMA OneVoiceEach ==
    ASSUME NEW c \in PsgIds, NEW d \in PsgIds, Chip(c) = Chip(d), Voice(c) = Voice(d)
    PROVE  c = d
BY VoiceOnChip

\* The registers of a voice are registers of the chip.
LEMMA RegistersOfVoice ==
    ASSUME NEW v \in Channels
    PROVE  /\ v \div 2 \in Pairs
           /\ <<"octave", v \div 2>> \in Addresses \ Enables
           /\ <<"frequency", v>> \in Addresses \ Enables
           /\ <<"amplitude", v>> \in Addresses \ Enables
  <1>1. v \in Nat /\ ChannelCount \in Nat /\ v <= ChannelCount - 1
    BY SaaAssumption DEF Channels
  <1>2. v \div 2 \in 0 .. (ChannelCount - 1) \div 2
    BY <1>1
  <1>3. QED BY <1>2 DEF Pairs, Addresses, Enables

LEMMA EnablesThere == Enables \subseteq Addresses
BY DEF Addresses

\* Registers of different names or numbers are different.
LEMMA NamesDiffer ==
    ASSUME NEW m, NEW n
    PROVE  /\ <<"octave", m>> # <<"frequency", n>> /\ <<"octave", m>> # <<"amplitude", n>>
           /\ <<"frequency", m>> # <<"amplitude", n>>
           /\ <<"octave", m>> \notin Enables /\ <<"frequency", m>> \notin Enables
           /\ <<"amplitude", m>> \notin Enables
           /\ <<"sound_enable", 0>> # <<"octave", m>> /\ <<"sound_enable", 0>> # <<"frequency", m>>
           /\ <<"sound_enable", 0>> # <<"amplitude", m>> /\ <<"sound_enable", 0>> \notin Enables
           /\ <<"noise_enable", 0>> # <<"frequency_enable", 0>>
           /\ m # n => <<"octave", m>> # <<"octave", n>> /\ <<"frequency", m>> # <<"frequency", n>>
                       /\ <<"amplitude", m>> # <<"amplitude", n>>
BY DEF Enables

-----------------------------------------------------------------------------
(***************************************************************************)
(* Octaves that share a register.                                          *)
(***************************************************************************)

\* The nibbles of an octave register are independent.
LEMMA OctaveWritten ==
    ASSUME NEW cached \in OctaveBytes, NEW voice \in Nat, NEW octave \in 0 .. 7
    PROVE  LET data == OctaveData(cached, voice, octave)
           IN  /\ data \in OctaveBytes
               /\ voice % 2 = 0 => data % 8 = octave /\ data \div 16 = cached \div 16
               /\ voice % 2 # 0 => data \div 16 = octave /\ data % 8 = cached % 8
  <1>1. PICK high \in 0 .. 7, low \in 0 .. 7 : cached = 16 * high + low
    BY DEF OctaveBytes
  <1>2. cached \div 16 = high /\ cached % 8 = low /\ (cached \div 16) % 8 = high
    BY <1>1
  <1>3. CASE voice % 2 = 0
    <2>1. OctaveData(cached, voice, octave) = 16 * high + octave
      BY <1>2, <1>3 DEF OctaveData
    <2>2. (16 * high + octave) % 8 = octave /\ (16 * high + octave) \div 16 = high
      OBVIOUS
    <2>3. QED BY <1>2, <1>3, <2>1, <2>2 DEF OctaveBytes
  <1>4. CASE voice % 2 # 0
    <2>1. OctaveData(cached, voice, octave) = 16 * octave + low
      BY <1>2, <1>4 DEF OctaveData
    <2>2. (16 * octave + low) % 8 = low /\ (16 * octave + low) \div 16 = octave
      OBVIOUS
    <2>3. QED BY <1>2, <1>4, <2>1, <2>2 DEF OctaveBytes
  <1>5. QED BY <1>3, <1>4

\* An octave register is a byte.
LEMMA OctaveBytesAreBytes == OctaveBytes \subseteq 0 .. 255
BY DEF OctaveBytes

-----------------------------------------------------------------------------
(***************************************************************************)
(* Register writes.                                                        *)
(***************************************************************************)

\* Data that may be written to a register.
DataOK(data) ==
    /\ DOMAIN data \subseteq Addresses
    /\ \A a \in DOMAIN data :
           /\ data[a] \in IF a \in Enables THEN SUBSET Channels ELSE 0 .. 255
           /\ \A pair \in Pairs : a = <<"octave", pair>> => data[a] \in OctaveBytes

\* What registers hold after a write.
LEMMA AfterWrite ==
    ASSUME NEW regs, DOMAIN regs = Chips, NEW chip \in Chips, NEW data
    PROVE  LET after == Written(regs, chip, data)
           IN  /\ DOMAIN after = Chips /\ DOMAIN after[chip] = Addresses
               /\ \A other \in Chips \ {chip} : after[other] = regs[other]
               /\ \A a \in Addresses :
                      after[chip][a] = IF a \in DOMAIN data THEN data[a] ELSE regs[chip][a]
BY DEF Written

\* A write leaves registers that are in order in order.
LEMMA WrittenOK ==
    ASSUME NEW regs, RegistersOK(regs), NEW chip \in Chips, NEW data, DataOK(data)
    PROVE  RegistersOK(Written(regs, chip, data))
  <1> DEFINE after == Written(regs, chip, data)
  <1>1. DOMAIN regs = Chips
    BY DEF RegistersOK
  <1>2. /\ DOMAIN after = Chips /\ DOMAIN after[chip] = Addresses
        /\ \A other \in Chips \ {chip} : after[other] = regs[other]
        /\ \A a \in Addresses :
               after[chip][a] = IF a \in DOMAIN data THEN data[a] ELSE regs[chip][a]
    BY <1>1, AfterWrite
  <1> HIDE DEF after
  <1>3. RegistersTyped(after)
    BY <1>2 DEF RegistersTyped, RegistersOK, DataOK
  <1>4. \A c \in Chips : DOMAIN after[c] = Addresses
    BY <1>2 DEF RegistersOK
  <1>5. ASSUME NEW c \in Chips, NEW pair \in Pairs
        PROVE  after[c][<<"octave", pair>>] \in OctaveBytes
    <2>1. <<"octave", pair>> \in Addresses
      BY DEF Addresses
    <2>2. QED BY <1>2, <2>1 DEF RegistersOK, DataOK
  <1>6. RegistersOK(after)
    BY <1>2, <1>3, <1>4, <1>5 DEF RegistersOK
  <1>7. QED BY <1>6 DEF after

\* So a write of the program leaves cache and card in order.
LEMMA WriteOK ==
    ASSUME RegistersOK(g_cache), RegistersOK(registers), stray \in BOOLEAN,
           NEW chip \in Chips, NEW data, DataOK(data), Write(chip, data)
    PROVE  RegistersOK(g_cache)' /\ RegistersOK(registers)' /\ stray' \in BOOLEAN
  <1>1. RegistersOK(g_cache')
    BY WrittenOK DEF Write
  <1>2. registers' = Written(registers, chip, data) \/ registers' = registers
    BY DEF Write
  <1>3. RegistersOK(registers')
    BY <1>2, WrittenOK
  <1>4. stray' \in BOOLEAN
    BY DEF Write
  <1>5. QED BY <1>1, <1>3, <1>4 DEF RegistersOK, RegistersTyped

\* Registers that are cleared or prepared are in order.
LEMMA ClearedOK ==
    /\ RegistersOK(Cleared) /\ RegistersOK(Prepared)
    /\ RegistersOK([chip \in Chips |-> Filled(0, Channels)])
  <1>1. 0 \in OctaveBytes
    BY DEF OctaveBytes
  <1>2. \A pair \in Pairs : <<"octave", pair>> \in Addresses \ Enables
    BY NamesDiffer DEF Addresses
  <1>3. ASSUME NEW channels \in SUBSET Channels
        PROVE  RegistersOK([chip \in Chips |-> Filled(0, channels)])
    BY <1>1, <1>2 DEF RegistersOK, RegistersTyped, Filled
  <1>4. RegistersOK(Cleared)
    BY <1>3 DEF Cleared
  <1>5. RegistersOK(Prepared)
    <2> DEFINE one == [Filled(0, {}) EXCEPT ![<<"sound_enable", 0>>] = 1,
                                            ![<<"frequency_enable", 0>>] = Channels]
    <2>1. DOMAIN one = Addresses
      BY DEF Filled
    <2>2. \A a \in Addresses : one[a] = IF a = <<"frequency_enable", 0>> THEN Channels
                                        ELSE IF a = <<"sound_enable", 0>> THEN 1
                                        ELSE IF a \in Enables THEN {} ELSE 0
      BY DEF Filled
    <2> HIDE DEF one
    <2>3. \A a \in Addresses : one[a] \in IF a \in Enables THEN SUBSET Channels ELSE 0 .. 255
      BY <2>2, NamesDiffer DEF Enables
    <2>4. \A pair \in Pairs : one[<<"octave", pair>>] \in OctaveBytes
      BY <1>1, <1>2, <2>2, NamesDiffer DEF Enables
    <2>5. RegistersOK([chip \in Chips |-> one])
      BY <2>1, <2>3, <2>4 DEF RegistersOK, RegistersTyped
    <2>6. QED BY <2>5 DEF one, Prepared
  <1>6. QED BY <1>3, <1>4, <1>5

-----------------------------------------------------------------------------
(***************************************************************************)
(* Frequency words.                                                        *)
(***************************************************************************)

Words == 0 .. (ByteSize * ByteSize) - 1

\* A multiple of a byte and a byte are a word.
LEMMA TwoBytes ==
    ASSUME NEW high \in 0 .. ByteSize - 1, NEW low \in 0 .. ByteSize - 1
    PROVE  high * ByteSize + low \in Words
  <1>1. ByteSize \in Nat \ {0} /\ high \in Nat /\ low \in Nat
    BY SaaAssumption
  <1>2. PICK k \in Nat : ByteSize = high + 1 + k
    <2>1. ByteSize - (high + 1) \in Nat /\ ByteSize = high + 1 + (ByteSize - (high + 1))
      BY <1>1
    <2>2. QED BY <2>1
  <1>3. ByteSize * ByteSize = high * ByteSize + ByteSize + k * ByteSize
    BY <1>1, <1>2
  <1>4. k * ByteSize \in Nat /\ high * ByteSize \in Nat
    BY <1>1, <1>2
  <1> DEFINE whole == high * ByteSize
             rest == k * ByteSize
             square == ByteSize * ByteSize
  <1>5. whole \in Nat /\ rest \in Nat /\ square = whole + ByteSize + rest
    BY <1>3, <1>4
  <1> HIDE DEF whole, rest, square
  <1>6. whole + low \in 0 .. square - 1
    BY <1>1, <1>5
  <1>7. QED BY <1>6 DEF Words, whole, square

\* The word of a channel that plays nothing.
LEMMA NoFrequency == 0 \in Words
  <1>1. 0 \in 0 .. ByteSize - 1 /\ 0 * ByteSize + 0 = 0
    BY SaaAssumption
  <1>2. 0 * ByteSize + 0 \in Words
    BY <1>1, TwoBytes
  <1>3. QED BY <1>1, <1>2

\* A new low or high byte gives a word.
LEMMA NewByte ==
    ASSUME NEW word \in Words, NEW data \in 0 .. ByteSize - 1
    PROVE  /\ (word - (word % ByteSize)) + data \in Words
           /\ data * ByteSize + (word % ByteSize) \in Words
  <1> DEFINE q == word \div ByteSize
             r == word % ByteSize
  <1>1. ByteSize \in Nat \ {0} /\ ByteSize * ByteSize \in Nat
    BY SaaAssumption
  <1>2. word \in Nat /\ word < ByteSize * ByteSize
    BY <1>1 DEF Words
  <1>3. q \in Nat /\ r \in 0 .. ByteSize - 1 /\ word = q * ByteSize + r
    BY <1>1, <1>2
  <1> HIDE DEF q, r
  <1>4. q <= ByteSize - 1
    <2>1. SUFFICES ASSUME q >= ByteSize PROVE FALSE
      BY <1>1, <1>3
    <2>2. PICK k \in Nat : q = ByteSize + k
      <3>1. q - ByteSize \in Nat /\ q = ByteSize + (q - ByteSize)
        BY <1>1, <1>3, <2>1
      <3>2. QED BY <3>1
    <2>3. q * ByteSize = ByteSize * ByteSize + k * ByteSize /\ k * ByteSize \in Nat
      BY <1>1, <2>2
    <2>4. QED BY <1>1, <1>2, <1>3, <2>3
  <1>5. data * ByteSize + r \in Words /\ q * ByteSize + data \in Words
    <2>1. q \in 0 .. ByteSize - 1
      BY <1>1, <1>3, <1>4
    <2>2. QED BY <1>3, <2>1, TwoBytes
  <1>6. q * ByteSize \in Nat /\ data \in Nat
    BY <1>1, <1>3
  <1>7. (word - r) + data = q * ByteSize + data
    BY <1>3, <1>6
  <1>8. QED BY <1>5, <1>7 DEF r

-----------------------------------------------------------------------------
(***************************************************************************)
(* What holds of every card.                                               *)
(***************************************************************************)

\* The pitch that is looked up is one that the registers can hold.
LEMMA LookupTyped ==
    ASSUME NEW word \in Nat, NEW pitch \in Lookup(word)
    PROVE  pitch.octave \in 0 .. 7 /\ pitch.frequency \in 0 .. 255
  <1>1. Clamp(word) \in MinWord .. MaxWord
    BY SaaAssumption DEF Clamp
  <1>2. Table[Clamp(word)] \in [octave : 0 .. 7, frequency : 0 .. 255]
    BY <1>1, SaaAssumption
  <1>3. CASE g_p_vera_psg_to_frequency_table
    BY <1>2, <1>3 DEF Lookup
  <1>4. CASE ~g_p_vera_psg_to_frequency_table
    BY <1>4 DEF Lookup
  <1>5. QED BY <1>3, <1>4

\* The data of a pitch for the registers of its voice.
PitchData(chip, v, pitch) ==
    [a \in {<<"frequency", v>>, <<"octave", v \div 2>>} |->
        IF a = <<"frequency", v>> THEN pitch.frequency
        ELSE OctaveData(g_cache[chip][<<"octave", v \div 2>>], v, pitch.octave)]

\* That data may be written.
LEMMA PitchDataOK ==
    ASSUME RegistersOK(g_cache), NEW chip \in Chips, NEW v \in Channels, NEW pitch,
           pitch.octave \in 0 .. 7, pitch.frequency \in 0 .. 255
    PROVE  DataOK(PitchData(chip, v, pitch))
  <1> DEFINE octave == OctaveData(g_cache[chip][<<"octave", v \div 2>>], v, pitch.octave)
  <1>1. v \in Nat
    BY SaaAssumption DEF Channels
  <1>2. octave \in OctaveBytes
    <2>1. g_cache[chip][<<"octave", v \div 2>>] \in OctaveBytes
      BY RegistersOfVoice DEF RegistersOK
    <2>2. QED BY <1>1, <2>1, OctaveWritten
  <1>3. octave \in 0 .. 255
    BY <1>2, OctaveBytesAreBytes
  <1> HIDE DEF octave
  <1>4. PitchData(chip, v, pitch) =
            [a \in {<<"frequency", v>>, <<"octave", v \div 2>>} |->
                IF a = <<"frequency", v>> THEN pitch.frequency ELSE octave]
    BY DEF PitchData, octave
  <1>5. <<"frequency", v>> \in Addresses \ Enables /\ <<"octave", v \div 2>> \in Addresses \ Enables
    BY RegistersOfVoice
  <1>6. \A pair \in Pairs : <<"frequency", v>> # <<"octave", pair>>
    BY NamesDiffer
  <1>7. QED BY <1>2, <1>3, <1>4, <1>5, <1>6 DEF DataOK

\* An amplitude may be written.
LEMMA AmplitudeDataOK ==
    ASSUME NEW v \in Channels, NEW amplitude \in Amplitudes
    PROVE  DataOK([a \in {<<"amplitude", v>>} |-> amplitude])
  <1>1. <<"amplitude", v>> \in Addresses \ Enables /\ amplitude \in 0 .. 255
    BY RegistersOfVoice, SaaAssumption
  <1>2. \A pair \in Pairs : <<"amplitude", v>> # <<"octave", pair>>
    BY NamesDiffer
  <1>3. QED BY <1>1, <1>2 DEF DataOK

\* The data of a waveform for the enable registers.
WaveformData(chip, v, waveform) ==
    [a \in Enables |->
        IF a = <<IF waveform = 3 THEN "noise_enable" ELSE "frequency_enable", 0>>
        THEN g_cache[chip][a] \cup {v}
        ELSE g_cache[chip][a] \ {v}]

\* That data may be written.
LEMMA WaveformDataOK ==
    ASSUME RegistersOK(g_cache), NEW chip \in Chips, NEW v \in Channels, NEW waveform
    PROVE  DataOK(WaveformData(chip, v, waveform))
  <1>1. \A a \in Enables : g_cache[chip][a] \in SUBSET Channels
    BY EnablesThere DEF RegistersOK, RegistersTyped
  <1>2. \A pair \in Pairs : <<"octave", pair>> \notin Enables
    BY NamesDiffer
  <1>3. QED BY <1>1, <1>2, EnablesThere DEF WaveformData, DataOK

\* A pitch is written for the word that is remembered.
LEMMA PitchWritten ==
    ASSUME NEW channel, NEW word, SetFrequency(channel, word)
    PROVE  \E pitch \in Lookup(word) :
               Write(Chip(channel), PitchData(Chip(channel), Voice(channel), pitch))
BY DEF SetFrequency, PitchData

\* Writes of frequencies keep what holds of every card.
LEMMA SetFrequencyOK ==
    ASSUME SaaInv, NEW channel \in PsgIds, NEW word \in Words, SetFrequency(channel, word), Playing
    PROVE  SaaInv'
  <1>1. Chip(channel) \in Chips /\ Voice(channel) \in Channels /\ word \in Nat
    BY VoiceOnChip, SaaAssumption DEF Words
  <1>2. PICK pitch \in Lookup(word) :
            Write(Chip(channel), PitchData(Chip(channel), Voice(channel), pitch))
    BY PitchWritten
  <1>3. pitch.octave \in 0 .. 7 /\ pitch.frequency \in 0 .. 255
    BY <1>1, LookupTyped
  <1>4. DataOK(PitchData(Chip(channel), Voice(channel), pitch))
    BY <1>1, <1>3, PitchDataOK DEF SaaInv
  <1>5. RegistersOK(g_cache)' /\ RegistersOK(registers)' /\ stray' \in BOOLEAN
    BY <1>1, <1>2, <1>4, WriteOK DEF SaaInv, TypeOK
  <1>6. /\ g_vera_psg_channel_frequency' \in [0 .. PsgChannels - 1 -> Words]
        /\ UNCHANGED g_vera_psg_channel_waveform
    BY DEF SetFrequency, SaaInv, TypeOK, PsgIds, Words
  <1>7. QED
    BY <1>5, <1>6 DEF SaaInv, TypeOK, RegistersOK, Playing, Words

\* What holds of every card holds at first.
LEMMA SaaStarts == Init => SaaInv
  <1> SUFFICES ASSUME Init PROVE SaaInv
    OBVIOUS
  <1>1. RegistersOK(g_cache) /\ RegistersOK(registers)
    BY ClearedOK DEF Init
  <1>2. /\ phase \in {"boot", "playing", "done"} /\ clock_valid \in BOOLEAN
        /\ g_p_vera_psg_to_frequency_table \in BOOLEAN
        /\ g_port_base_address \in {"0x210", "card"} /\ stray \in BOOLEAN
    BY DEF Init
  <1>3. 0 \in Words
    BY NoFrequency
  <1>4. /\ g_vera_psg_channel_frequency \in [0 .. PsgChannels - 1 -> Words]
        /\ g_vera_psg_channel_waveform \in [0 .. PsgChannels - 1 -> 0 .. 3]
    BY <1>3 DEF Init
  <1>5. QED BY <1>1, <1>2, <1>4 DEF SaaInv, TypeOK, RegistersOK, Words

\* Every step keeps it.
LEMMA SaaStep == SaaInv /\ [Next]_vars => SaaInv'
  <1> SUFFICES ASSUME SaaInv, [Next]_vars PROVE SaaInv'
    OBVIOUS
  <1>1. CASE Initialize
    <2>1. /\ phase' \in {"boot", "playing", "done"} /\ clock_valid' \in BOOLEAN
          /\ g_p_vera_psg_to_frequency_table' \in BOOLEAN
      BY <1>1 DEF Initialize, SaaInv, TypeOK
    <2>2. CASE g_p_vera_psg_to_frequency_table'
      <3>1. g_cache' = Prepared /\ (registers' = Prepared \/ registers' = registers)
        BY <1>1, <2>2 DEF Initialize, WriteAll
      <3>2. RegistersOK(g_cache') /\ RegistersOK(registers')
        BY <3>1, ClearedOK DEF SaaInv
      <3>3. g_port_base_address' \in {"0x210", "card"} /\ stray' \in BOOLEAN
        BY <1>1, <2>2 DEF Initialize, WriteAll
      <3>4. 0 \in Words
        BY NoFrequency
      <3>5. /\ g_vera_psg_channel_frequency' \in [0 .. PsgChannels - 1 -> Words]
            /\ g_vera_psg_channel_waveform' \in [0 .. PsgChannels - 1 -> 0 .. 3]
        BY <1>1, <2>2, <3>4 DEF Initialize
      <3>6. QED
        BY <2>1, <3>2, <3>3, <3>5 DEF SaaInv, TypeOK, RegistersOK, RegistersTyped, Words
    <2>3. CASE ~g_p_vera_psg_to_frequency_table'
      BY <1>1, <2>1, <2>3
         DEF Initialize, SaaInv, TypeOK, RegistersOK, RegistersTyped, words
    <2>4. QED BY <2>2, <2>3
  <1>2. CASE Terminate
    <2>1. g_cache' = Cleared /\ (registers' = Cleared \/ registers' = registers)
      BY <1>2 DEF Terminate, WriteAll
    <2>2. RegistersOK(g_cache') /\ RegistersOK(registers')
      BY <2>1, ClearedOK DEF SaaInv
    <2>3. stray' \in BOOLEAN
      BY <1>2 DEF Terminate, WriteAll
    <2>4. QED
      BY <1>2, <2>2, <2>3 DEF Terminate, SaaInv, TypeOK, RegistersOK, RegistersTyped, words
  <1>3. ASSUME NEW channel \in PsgIds, NEW data \in 0 .. ByteSize - 1, WriteLow(channel, data)
        PROVE  SaaInv'
    <2>1. g_vera_psg_channel_frequency[channel] \in Words
      BY DEF SaaInv, TypeOK, PsgIds, Words
    <2>2. QED BY <1>3, <2>1, NewByte, SetFrequencyOK DEF WriteLow
  <1>4. ASSUME NEW channel \in PsgIds, NEW data \in 0 .. ByteSize - 1, WriteHigh(channel, data)
        PROVE  SaaInv'
    <2>1. g_vera_psg_channel_frequency[channel] \in Words
      BY DEF SaaInv, TypeOK, PsgIds, Words
    <2>2. QED BY <1>4, <2>1, NewByte, SetFrequencyOK DEF WriteHigh
  <1>5. ASSUME NEW channel \in PsgIds, NEW amplitude \in Amplitudes, WriteVolume(channel, amplitude)
        PROVE  SaaInv'
    <2>1. Chip(channel) \in Chips /\ Voice(channel) \in Channels
      BY VoiceOnChip
    <2>2. RegistersOK(g_cache)' /\ RegistersOK(registers)' /\ stray' \in BOOLEAN
      BY <1>5, <2>1, AmplitudeDataOK, WriteOK DEF WriteVolume, SaaInv, TypeOK
    <2>3. QED
      BY <1>5, <2>2 DEF WriteVolume, Playing, SaaInv, TypeOK, RegistersOK, words
  <1>6. ASSUME NEW channel \in PsgIds, NEW waveform \in Waveforms, WriteWaveform(channel, waveform)
        PROVE  SaaInv'
    <2>1. Chip(channel) \in Chips /\ Voice(channel) \in Channels /\ waveform \in 0 .. 3
      BY VoiceOnChip, SaaAssumption
    <2>2. Write(Chip(channel), WaveformData(Chip(channel), Voice(channel), waveform))
      BY <1>6 DEF WriteWaveform, WaveformData
    <2>3. RegistersOK(g_cache)' /\ RegistersOK(registers)' /\ stray' \in BOOLEAN
      BY <2>1, <2>2, WaveformDataOK, WriteOK DEF SaaInv, TypeOK
    <2>4. g_vera_psg_channel_waveform' \in [0 .. PsgChannels - 1 -> 0 .. 3]
      BY <1>6, <2>1 DEF WriteWaveform, SaaInv, TypeOK, PsgIds
    <2>5. QED
      BY <1>6, <2>3, <2>4 DEF WriteWaveform, Playing, SaaInv, TypeOK, RegistersOK
  <1>7. CASE UNCHANGED vars
    BY <1>7, ZenonT(30) DEF vars, words, SaaInv, TypeOK, RegistersOK, RegistersTyped
  <1>8. QED
    BY <1>1, <1>2, <1>3, <1>4, <1>5, <1>6, <1>7 DEF Next, PsgIds

\* Every variable keeps its type on every card: frequency words stay words though
\* they are set by bytes, and octaves that share a register never leave it.
THEOREM SaaTyped == Spec => []TypeOK
  <1>1. SaaInv => TypeOK
    BY DEF SaaInv
  <1>2. QED BY <1>1, SaaStarts, SaaStep, PTL DEF Spec

-----------------------------------------------------------------------------
(***************************************************************************)
(* What holds when the clock is known and there is memory for the table.   *)
(***************************************************************************)

\* A write of such a card changes card and cache alike.
LEMMA WriteTrue ==
    ASSUME ReadyInv, Playing, NEW chip, NEW data, Write(chip, data)
    PROVE  /\ registers = g_cache
           /\ registers' = Written(registers, chip, data) /\ g_cache' = registers'
           /\ CacheTrue' /\ StaysOnCard'
  <1>1. g_port_base_address = "card" /\ registers = g_cache /\ ~stray
    BY DEF ReadyInv, CacheTrue, StaysOnCard, Playing
  <1>2. OnCard
    BY <1>1 DEF Playing, OnCard
  <1>3. /\ registers' = Written(registers, chip, data) /\ g_cache' = registers'
        /\ stray' = FALSE
    BY <1>1, <1>2 DEF Write
  <1>4. QED BY <1>1, <1>3 DEF CacheTrue, StaysOnCard, Playing

\* A write that leaves the enable registers alone turns no generator on or off.
LEMMA GeneratorsKept ==
    ASSUME SaaInv, ReadyInv, Playing, NEW chip \in Chips, NEW data, Write(chip, data),
           DOMAIN data \cap Enables = {}
    PROVE  ReadyInv'
  <1>1. registers' = Written(registers, chip, data) /\ CacheTrue' /\ StaysOnCard'
    BY WriteTrue
  <1>2. \A c \in Chips : \A a \in Enables : registers'[c][a] = registers[c][a]
    BY <1>1, AfterWrite, EnablesThere DEF SaaInv, RegistersOK
  <1>3. OneGenerator'
    BY <1>2 DEF ReadyInv, OneGenerator, Playing, Enables
  <1>4. QED BY <1>1, <1>3 DEF ReadyInv, Playing

\* It holds at first, and every step keeps it.
LEMMA ReadyStarts == ~MayFail /\ Init => ReadyInv
BY DEF Init, ReadyInv, CacheTrue, StaysOnCard, OneGenerator

LEMMA ReadyStep == ~MayFail /\ SaaInv /\ ReadyInv /\ [Next]_vars => ReadyInv'
  <1> SUFFICES ASSUME ~MayFail, SaaInv, ReadyInv, [Next]_vars PROVE ReadyInv'
    OBVIOUS
  <1>1. CASE Initialize
    <2>1. phase' = "playing" /\ clock_valid' /\ g_p_vera_psg_to_frequency_table'
      BY <1>1 DEF Initialize, ReadyInv
    <2>2. /\ g_port_base_address' = "card" /\ registers' = Prepared /\ g_cache' = Prepared
          /\ ~stray'
      BY <1>1, <2>1 DEF Initialize, WriteAll, OnCard, ReadyInv, StaysOnCard
    <2>3. \A chip \in Chips : /\ Prepared[chip][<<"frequency_enable", 0>>] = Channels
                              /\ Prepared[chip][<<"noise_enable", 0>>] = {}
      BY EnablesThere, NamesDiffer DEF Prepared, Filled, Enables
    <2>4. QED
      BY <2>1, <2>2, <2>3 DEF ReadyInv, CacheTrue, StaysOnCard, OneGenerator
  <1>2. CASE Terminate
    <2>1. phase' = "done" /\ clock_valid' /\ g_port_base_address' = "card"
      BY <1>2 DEF Terminate, ReadyInv, CacheTrue
    <2>2. registers' = Cleared /\ g_cache' = Cleared /\ ~stray'
      BY <1>2, <2>1 DEF Terminate, WriteAll, OnCard, ReadyInv, StaysOnCard
    <2>3. \A chip \in Chips : \A a \in Enables : Cleared[chip][a] = {}
      BY EnablesThere DEF Cleared, Filled
    <2>4. OneGenerator'
      BY <2>1, <2>2, <2>3 DEF OneGenerator, Enables
    <2>5. QED BY <2>1, <2>2, <2>4 DEF ReadyInv, CacheTrue, StaysOnCard
  <1>3. ASSUME NEW channel \in PsgIds, NEW word, SetFrequency(channel, word), Playing
        PROVE  ReadyInv'
    <2>1. PICK pitch \in Lookup(word) :
              Write(Chip(channel), PitchData(Chip(channel), Voice(channel), pitch))
      BY <1>3, PitchWritten
    <2>2. DOMAIN PitchData(Chip(channel), Voice(channel), pitch) \cap Enables = {}
      BY NamesDiffer DEF PitchData
    <2>3. QED BY <1>3, <2>1, <2>2, VoiceOnChip, GeneratorsKept
  <1>4. ASSUME NEW channel \in PsgIds, NEW amplitude \in Amplitudes, WriteVolume(channel, amplitude)
        PROVE  ReadyInv'
    <2> DEFINE data == [a \in {<<"amplitude", Voice(channel)>>} |-> amplitude]
    <2>1. DOMAIN data \cap Enables = {}
      BY NamesDiffer
    <2>2. Playing /\ Write(Chip(channel), data)
      BY <1>4 DEF WriteVolume
    <2>3. QED BY <2>1, <2>2, VoiceOnChip, GeneratorsKept
  <1>5. ASSUME NEW channel \in PsgIds, NEW waveform \in Waveforms, WriteWaveform(channel, waveform)
        PROVE  ReadyInv'
    <2> DEFINE chip == Chip(channel)
               v == Voice(channel)
               data == WaveformData(chip, v, waveform)
    <2>1. chip \in Chips /\ v \in Channels
      BY VoiceOnChip
    <2>2. Playing /\ Write(chip, data)
      BY <1>5 DEF WriteWaveform, WaveformData
    <2>3. /\ registers = g_cache /\ registers' = Written(registers, chip, data)
          /\ CacheTrue' /\ StaysOnCard'
      BY <2>2, WriteTrue
    <2>4. /\ \A c \in Chips \ {chip} : registers'[c] = registers[c]
          /\ \A a \in Enables : registers'[chip][a] = data[a]
      <3>1. DOMAIN registers = Chips /\ DOMAIN data = Enables
        BY DEF SaaInv, RegistersOK, WaveformData
      <3> HIDE DEF chip, data
      <3>2. QED BY <2>1, <2>3, <3>1, AfterWrite, EnablesThere
    <2>5. \/ /\ data[<<"noise_enable", 0>>] = registers[chip][<<"noise_enable", 0>>] \cup {v}
             /\ data[<<"frequency_enable", 0>>] = registers[chip][<<"frequency_enable", 0>>] \ {v}
          \/ /\ data[<<"noise_enable", 0>>] = registers[chip][<<"noise_enable", 0>>] \ {v}
             /\ data[<<"frequency_enable", 0>>] = registers[chip][<<"frequency_enable", 0>>] \cup {v}
      BY <2>3, NamesDiffer DEF WaveformData, Enables
    <2> HIDE DEF chip, v, data
    <2>6. OneGenerator'
      BY <2>1, <2>2, <2>4, <2>5 DEF ReadyInv, OneGenerator, Playing, Enables
    <2>7. QED BY <2>2, <2>3, <2>6 DEF ReadyInv, Playing
  <1>6. CASE UNCHANGED vars
    BY <1>6 DEF vars, ReadyInv, CacheTrue, StaysOnCard, OneGenerator
  <1>7. QED
    BY <1>1, <1>2, <1>3, <1>4, <1>5, <1>6 DEF Next, PsgIds, WriteLow, WriteHigh

\* Both invariants, of a card whose clock is known and with memory for the table.
LEMMA SaaReady == ASSUME ~MayFail PROVE Spec => [](SaaInv /\ ReadyInv)
  <1>1. Init => SaaInv /\ ReadyInv
    BY SaaStarts, ReadyStarts
  <1>2. (SaaInv /\ ReadyInv) /\ [Next]_vars => (SaaInv /\ ReadyInv)'
    BY SaaStep, ReadyStep
  <1>3. QED BY <1>1, <1>2, PTL DEF Spec

\* Whatever waveforms follow each other on whatever channels, each voice of both
\* chips has exactly one generator while the tune plays, and none afterwards sounds
\* both: if the clock is known and there is memory for the table.
THEOREM SaaOneGenerator == ASSUME ~MayFail PROVE Spec => []OneGenerator
  <1>1. SaaInv /\ ReadyInv => OneGenerator
    BY DEF ReadyInv
  <1>2. QED BY <1>1, SaaReady, PTL

\* With a known clock and memory for the table nothing is sent elsewhere: that
\* bytes go astray takes one of these two to be missing.
THEOREM SaaStaysOnCard == ASSUME ~MayFail PROVE Spec => []StaysOnCard
  <1>1. SaaInv /\ ReadyInv => StaysOnCard
    BY DEF ReadyInv
  <1>2. QED BY <1>1, SaaReady, PTL

-----------------------------------------------------------------------------
(***************************************************************************)
(* The registers play the voices of the PSG.                               *)
(***************************************************************************)

\* A pitch that is written is heard on its voice, and on no other of the chip.
LEMMA PitchHeard ==
    ASSUME NEW chip \in Chips, NEW v \in Channels, NEW w \in Channels, RegistersOK(g_cache),
           NEW pitch \in [octave : 0 .. 7, frequency : 0 .. 255],
           NEW new,
           LET data == PitchData(chip, v, pitch)
           IN  \A a \in Addresses :
                   new[a] = IF a \in DOMAIN data THEN data[a] ELSE g_cache[chip][a]
    PROVE  Heard(new, w) = IF w = v THEN [Heard(g_cache[chip], w) EXCEPT !.pitch = pitch]
                           ELSE Heard(g_cache[chip], w)
  <1> DEFINE old == g_cache[chip]
             shared == old[<<"octave", v \div 2>>]
             octave == OctaveData(shared, v, pitch.octave)
  <1>1. v \in Nat /\ w \in Nat /\ pitch.octave \in 0 .. 7 /\ shared \in OctaveBytes
    <2>1. v \in Nat /\ w \in Nat
      BY SaaAssumption DEF Channels
    <2>2. shared \in OctaveBytes
      BY RegistersOfVoice DEF RegistersOK
    <2>3. QED BY <2>1, <2>2
  <1>2. /\ v % 2 = 0 => octave % 8 = pitch.octave /\ octave \div 16 = shared \div 16
        /\ v % 2 # 0 => octave \div 16 = pitch.octave /\ octave % 8 = shared % 8
    <2> HIDE DEF shared
    <2> DEFINE new_octave == pitch.octave
    <2>1. new_octave \in 0 .. 7
      BY <1>1
    <2> HIDE DEF new_octave
    <2>2. LET data == OctaveData(shared, v, new_octave)
          IN  /\ data \in OctaveBytes
              /\ v % 2 = 0 => data % 8 = new_octave /\ data \div 16 = shared \div 16
              /\ v % 2 # 0 => data \div 16 = new_octave /\ data % 8 = shared % 8
      BY <1>1, <2>1, OctaveWritten, ZenonT(30)
    <2>3. QED BY <2>2 DEF new_octave
  <1>3. /\ new[<<"octave", v \div 2>>] = octave
        /\ new[<<"frequency", v>>] = pitch.frequency
    BY RegistersOfVoice, NamesDiffer DEF PitchData
  <1>4. /\ w \div 2 # v \div 2 => new[<<"octave", w \div 2>>] = old[<<"octave", w \div 2>>]
        /\ w # v => new[<<"frequency", w>>] = old[<<"frequency", w>>]
        /\ new[<<"amplitude", w>>] = old[<<"amplitude", w>>]
        /\ \A a \in Enables : new[a] = old[a]
    BY RegistersOfVoice, NamesDiffer, EnablesThere, ZenonT(30) DEF PitchData
  <1>5. <<"noise_enable", 0>> \in Enables /\ <<"frequency_enable", 0>> \in Enables
    BY DEF Enables
  <1> HIDE DEF old, shared, octave
  <1>6. Heard(new, w).amplitude = Heard(old, w).amplitude
        /\ Heard(new, w).generator = Heard(old, w).generator
    BY <1>4, <1>5 DEF Heard
  <1>7. CASE w = v
    <2>1. Heard(new, w).pitch = [octave |-> pitch.octave, frequency |-> pitch.frequency]
      BY <1>2, <1>3, <1>7 DEF Heard
    <2>2. pitch = [octave |-> pitch.octave, frequency |-> pitch.frequency]
      OBVIOUS
    <2>3. QED BY <1>6, <1>7, <2>1, <2>2 DEF Heard, old
  <1>8. CASE w # v
    <2>1. new[<<"frequency", w>>] = old[<<"frequency", w>>]
      BY <1>4, <1>8
    <2>2. IF w % 2 = 0 THEN new[<<"octave", w \div 2>>] % 8 = old[<<"octave", w \div 2>>] % 8
          ELSE new[<<"octave", w \div 2>>] \div 16 = old[<<"octave", w \div 2>>] \div 16
      <3>1. CASE w \div 2 = v \div 2
        <4>1. w % 2 # v % 2
          BY <1>1, <1>8, <3>1
        <4>2. w % 2 = 0 \/ v % 2 = 0
          BY <1>1, <4>1
        <4>3. QED BY <1>2, <1>3, <3>1, <4>1, <4>2 DEF shared
      <3>2. CASE w \div 2 # v \div 2
        BY <1>4, <3>2
      <3>3. QED BY <3>1, <3>2
    <2>3. Heard(new, w).pitch = Heard(old, w).pitch
      BY <2>1, <2>2 DEF Heard
    <2>4. QED BY <1>6, <1>8, <2>3 DEF Heard, old
  <1>9. QED BY <1>7, <1>8

\* An amplitude that is written is heard on its voice only.
LEMMA AmplitudeHeard ==
    ASSUME NEW v \in Channels, NEW w \in Channels, NEW amplitude, NEW old, NEW new,
           \A a \in Addresses : new[a] = IF a = <<"amplitude", v>> THEN amplitude ELSE old[a]
    PROVE  Heard(new, w) = IF w = v THEN [Heard(old, w) EXCEPT !.amplitude = amplitude]
                           ELSE Heard(old, w)
  <1>1. /\ new[<<"octave", w \div 2>>] = old[<<"octave", w \div 2>>]
        /\ new[<<"frequency", w>>] = old[<<"frequency", w>>]
        /\ new[<<"amplitude", w>>] = IF w = v THEN amplitude ELSE old[<<"amplitude", w>>]
        /\ new[<<"noise_enable", 0>>] = old[<<"noise_enable", 0>>]
        /\ new[<<"frequency_enable", 0>>] = old[<<"frequency_enable", 0>>]
    BY RegistersOfVoice, NamesDiffer, EnablesThere DEF Enables
  <1>2. QED BY <1>1 DEF Heard

\* A waveform that is written is heard on its voice only.
LEMMA WaveformHeard ==
    ASSUME NEW chip, NEW v \in Channels, NEW w \in Channels, NEW waveform, NEW new,
           LET data == WaveformData(chip, v, waveform)
           IN  \A a \in Addresses :
                   new[a] = IF a \in DOMAIN data THEN data[a] ELSE g_cache[chip][a]
    PROVE  Heard(new, w) =
               IF w = v THEN [Heard(g_cache[chip], w) EXCEPT
                                 !.generator = IF waveform = 3 THEN "noise" ELSE "tone"]
               ELSE Heard(g_cache[chip], w)
  <1> DEFINE old == g_cache[chip]
             noise == <<"noise_enable", 0>>
             tone == <<"frequency_enable", 0>>
  <1>1. /\ new[<<"octave", w \div 2>>] = old[<<"octave", w \div 2>>]
        /\ new[<<"frequency", w>>] = old[<<"frequency", w>>]
        /\ new[<<"amplitude", w>>] = old[<<"amplitude", w>>]
    BY RegistersOfVoice, NamesDiffer DEF WaveformData
  <1>2. noise \in Enables /\ tone \in Enables /\ noise # tone
    BY NamesDiffer DEF Enables
  <1>3. /\ new[noise] = IF waveform = 3 THEN old[noise] \cup {v} ELSE old[noise] \ {v}
        /\ new[tone] = IF waveform = 3 THEN old[tone] \ {v} ELSE old[tone] \cup {v}
    BY <1>2, EnablesThere DEF WaveformData
  <1> HIDE DEF old
  <1>4. Heard(new, w).generator =
            IF w = v THEN (IF waveform = 3 THEN "noise" ELSE "tone") ELSE Heard(old, w).generator
    BY <1>3 DEF Heard
  <1>5. Heard(new, w).pitch = Heard(old, w).pitch
        /\ Heard(new, w).amplitude = Heard(old, w).amplitude
    BY <1>1 DEF Heard
  <1>6. QED BY <1>4, <1>5 DEF Heard, old

\* The voices that the registers play.
Played == [c \in PsgIds |-> Sounding(c)]

\* A write of the program, heard through the registers of one chip, is heard on
\* the channels of that chip only.
LEMMA HeardOnChip ==
    ASSUME SaaInv, ReadyInv, Playing, NEW channel \in PsgIds, NEW data,
           Write(Chip(channel), data), NEW d \in PsgIds
    PROVE  /\ Sounding(d)' = Heard(registers'[Chip(d)], Voice(d))
           /\ Sounding(d) = Heard(g_cache[Chip(d)], Voice(d))
           /\ Chip(d) # Chip(channel) => Sounding(d)' = Sounding(d)
           /\ \A a \in Addresses : registers'[Chip(channel)][a] =
                  IF a \in DOMAIN data THEN data[a] ELSE g_cache[Chip(channel)][a]
  <1>1. registers = g_cache /\ registers' = Written(g_cache, Chip(channel), data)
    BY WriteTrue
  <1>2. DOMAIN g_cache = Chips /\ Chip(channel) \in Chips /\ Chip(d) \in Chips
    BY VoiceOnChip DEF SaaInv, RegistersOK
  <1>3. /\ \A a \in Addresses : registers'[Chip(channel)][a] =
               IF a \in DOMAIN data THEN data[a] ELSE g_cache[Chip(channel)][a]
        /\ Chip(d) # Chip(channel) => registers'[Chip(d)] = registers[Chip(d)]
    BY <1>1, <1>2, AfterWrite
  <1>4. Sounding(d)' = Heard(registers'[Chip(d)], Voice(d))
        /\ Sounding(d) = Heard(registers[Chip(d)], Voice(d))
    BY DEF Sounding, Heard, Chip, Voice
  <1>5. QED BY <1>1, <1>3, <1>4

\* A byte of a frequency word makes the channel play the pitch of the whole word.
LEMMA FrequencyPlayed ==
    ASSUME SaaInv, ReadyInv, Playing, NEW channel \in PsgIds, NEW word \in Words,
           SetFrequency(channel, word)
    PROVE  Psg!SetWord(channel, word)
  <1> DEFINE chip == Chip(channel)
             v == Voice(channel)
  <1>1. chip \in Chips /\ v \in Channels /\ word \in Nat
    BY VoiceOnChip, SaaAssumption DEF Words
  <1>2. Clamp(word) \in MinWord .. MaxWord
    BY <1>1, SaaAssumption DEF Clamp
  <1>3. PICK pitch \in Lookup(word) : Write(chip, PitchData(chip, v, pitch))
    BY PitchWritten
  <1>4. pitch = Table[Clamp(word)] /\ pitch \in [octave : 0 .. 7, frequency : 0 .. 255]
    BY <1>2, <1>3, SaaAssumption DEF Lookup, ReadyInv, Playing
  <1>5. ASSUME NEW d \in PsgIds
        PROVE  Sounding(d)' = IF d = channel THEN [Sounding(d) EXCEPT !.pitch = pitch]
                              ELSE Sounding(d)
    <2>1. CASE Chip(d) # chip
      BY <1>3, <2>1, HeardOnChip
    <2>2. CASE Chip(d) = chip
      <3>1. Voice(d) = v <=> d = channel
        BY <2>2, OneVoiceEach
      <3>2. Voice(d) \in Channels
        BY VoiceOnChip
      <3>3. \A a \in Addresses : registers'[chip][a] =
                IF a \in DOMAIN PitchData(chip, v, pitch) THEN PitchData(chip, v, pitch)[a]
                ELSE g_cache[chip][a]
        BY <1>3, HeardOnChip
      <3>4. Heard(registers'[chip], Voice(d)) =
                IF Voice(d) = v THEN [Heard(g_cache[chip], Voice(d)) EXCEPT !.pitch = pitch]
                ELSE Heard(g_cache[chip], Voice(d))
        BY <1>1, <1>4, <3>2, <3>3, PitchHeard DEF SaaInv
      <3>5. Sounding(d)' = Heard(registers'[chip], Voice(d))
            /\ Sounding(d) = Heard(g_cache[chip], Voice(d))
        BY <1>3, <2>2, HeardOnChip
      <3> HIDE DEF chip, v
      <3>6. QED BY <3>1, <3>4, <3>5
    <2>3. QED BY <2>1, <2>2
  <1>6. Played' = [Played EXCEPT ![channel].pitch = pitch]
    BY <1>5 DEF Played
  <1>7. g_vera_psg_channel_frequency' = [g_vera_psg_channel_frequency EXCEPT ![channel] = word]
    BY DEF SetFrequency
  <1>8. Psg!Clamp(word) = Clamp(word)
    BY DEF Psg!Clamp, Clamp
  <1>9. QED BY <1>4, <1>6, <1>7, <1>8 DEF Psg!SetWord, Played, PsgIds

\* An amplitude is that of the channel alone.
LEMMA VolumePlayed ==
    ASSUME SaaInv, ReadyInv, NEW channel \in PsgIds, NEW amplitude \in Amplitudes,
           WriteVolume(channel, amplitude)
    PROVE  Psg!SetVolume(channel, amplitude)
  <1> DEFINE chip == Chip(channel)
             v == Voice(channel)
             data == [a \in {<<"amplitude", v>>} |-> amplitude]
  <1>1. Playing /\ Write(chip, data) /\ UNCHANGED words
    BY DEF WriteVolume
  <1>2. chip \in Chips /\ v \in Channels
    BY VoiceOnChip
  <1>3. ASSUME NEW d \in PsgIds
        PROVE  Sounding(d)' = IF d = channel THEN [Sounding(d) EXCEPT !.amplitude = amplitude]
                              ELSE Sounding(d)
    <2>1. CASE Chip(d) # chip
      BY <1>1, <2>1, HeardOnChip
    <2>2. CASE Chip(d) = chip
      <3>1. Voice(d) = v <=> d = channel
        BY <2>2, OneVoiceEach
      <3>2. Voice(d) \in Channels
        BY VoiceOnChip
      <3>3. \A a \in Addresses : registers'[chip][a] =
                IF a \in DOMAIN data THEN data[a] ELSE g_cache[chip][a]
        BY <1>1, HeardOnChip
      <3>4. \A a \in Addresses : registers'[chip][a] =
                IF a = <<"amplitude", v>> THEN amplitude ELSE g_cache[chip][a]
        BY <3>3
      <3>5. Heard(registers'[chip], Voice(d)) =
                IF Voice(d) = v THEN [Heard(g_cache[chip], Voice(d)) EXCEPT !.amplitude = amplitude]
                ELSE Heard(g_cache[chip], Voice(d))
        <4> HIDE DEF chip, v
        <4>1. QED BY <1>2, <3>2, <3>4, AmplitudeHeard
      <3>6. Sounding(d)' = Heard(registers'[chip], Voice(d))
            /\ Sounding(d) = Heard(g_cache[chip], Voice(d))
        BY <1>1, <2>2, HeardOnChip
      <3> HIDE DEF chip, v, data
      <3>7. QED BY <3>1, <3>5, <3>6
    <2>3. QED BY <2>1, <2>2
  <1>4. Played' = [Played EXCEPT ![channel].amplitude = amplitude]
    BY <1>3 DEF Played
  <1>5. QED BY <1>1, <1>4 DEF Psg!SetVolume, Played, PsgIds, words

\* A waveform turns one generator of the channel on and the other off.
LEMMA WaveformPlayed ==
    ASSUME SaaInv, ReadyInv, NEW channel \in PsgIds, NEW waveform \in Waveforms,
           WriteWaveform(channel, waveform)
    PROVE  Psg!SetWaveform(channel, waveform)
  <1> DEFINE chip == Chip(channel)
             v == Voice(channel)
             generator == IF waveform = 3 THEN "noise" ELSE "tone"
  <1>1. Playing /\ Write(chip, WaveformData(chip, v, waveform))
        /\ UNCHANGED g_vera_psg_channel_frequency
    BY DEF WriteWaveform, WaveformData
  <1>2. chip \in Chips /\ v \in Channels
    BY VoiceOnChip
  <1>3. ASSUME NEW d \in PsgIds
        PROVE  Sounding(d)' = IF d = channel THEN [Sounding(d) EXCEPT !.generator = generator]
                              ELSE Sounding(d)
    <2>1. CASE Chip(d) # chip
      BY <1>1, <2>1, HeardOnChip
    <2>2. CASE Chip(d) = chip
      <3>1. Voice(d) = v <=> d = channel
        BY <2>2, OneVoiceEach
      <3>2. Voice(d) \in Channels
        BY VoiceOnChip
      <3>3. \A a \in Addresses : registers'[chip][a] =
                IF a \in DOMAIN WaveformData(chip, v, waveform)
                THEN WaveformData(chip, v, waveform)[a]
                ELSE g_cache[chip][a]
        BY <1>1, HeardOnChip
      <3>4. Heard(registers'[chip], Voice(d)) =
                IF Voice(d) = v THEN [Heard(g_cache[chip], Voice(d)) EXCEPT !.generator = generator]
                ELSE Heard(g_cache[chip], Voice(d))
        <4> HIDE DEF chip, v
        <4>1. QED BY <1>2, <3>2, <3>3, WaveformHeard
      <3>5. Sounding(d)' = Heard(registers'[chip], Voice(d))
            /\ Sounding(d) = Heard(g_cache[chip], Voice(d))
        BY <1>1, <2>2, HeardOnChip
      <3> HIDE DEF chip, v, generator
      <3>6. QED BY <3>1, <3>4, <3>5
    <2>3. QED BY <2>1, <2>2
  <1>4. Played' = [Played EXCEPT ![channel].generator = generator]
    BY <1>3 DEF Played
  <1>5. QED BY <1>1, <1>4 DEF Psg!SetWaveform, Played, PsgIds

\* Registers that are cleared play nothing, prepared ones a tone on every voice.
LEMMA StillHeard ==
    ASSUME NEW v \in Channels, NEW chip \in Chips
    PROVE  /\ Heard(Cleared[chip], v) =
                  [pitch |-> Psg!NoPitch, amplitude |-> 0, generator |-> "none"]
           /\ Heard(Prepared[chip], v) =
                  [pitch |-> Psg!NoPitch, amplitude |-> 0, generator |-> "tone"]
           /\ Heard(Filled(0, Channels), v) =
                  [pitch |-> Psg!NoPitch, amplitude |-> 0, generator |-> "noise"]
  <1>1. <<"noise_enable", 0>> \in Enables /\ <<"frequency_enable", 0>> \in Enables
    BY DEF Enables
  <1>2. ASSUME NEW regs, regs[<<"octave", v \div 2>>] = 0, regs[<<"frequency", v>>] = 0,
               regs[<<"amplitude", v>>] = 0
        PROVE  /\ Heard(regs, v).pitch = Psg!NoPitch /\ Heard(regs, v).amplitude = 0
               /\ Heard(regs, v) = [pitch |-> Heard(regs, v).pitch,
                                    amplitude |-> Heard(regs, v).amplitude,
                                    generator |-> Heard(regs, v).generator]
    BY <1>2 DEF Heard, Psg!NoPitch
  <1>3. ASSUME NEW channels
        PROVE  /\ Filled(0, channels)[<<"octave", v \div 2>>] = 0
               /\ Filled(0, channels)[<<"frequency", v>>] = 0
               /\ Filled(0, channels)[<<"amplitude", v>>] = 0
               /\ \A a \in Enables : Filled(0, channels)[a] = channels
    BY RegistersOfVoice, EnablesThere DEF Filled
  <1>4. /\ Cleared[chip] = Filled(0, {})
        /\ Prepared[chip][<<"frequency_enable", 0>>] = Channels
        /\ \A a \in Addresses :
               a # <<"sound_enable", 0>> /\ a # <<"frequency_enable", 0>> =>
                   Prepared[chip][a] = Filled(0, {})[a]
    BY <1>1, EnablesThere, NamesDiffer DEF Cleared, Prepared, Filled
  <1>5. /\ Prepared[chip][<<"octave", v \div 2>>] = 0
        /\ Prepared[chip][<<"frequency", v>>] = 0
        /\ Prepared[chip][<<"amplitude", v>>] = 0
        /\ Prepared[chip][<<"noise_enable", 0>>] = {}
    BY <1>1, <1>3, <1>4, RegistersOfVoice, NamesDiffer, EnablesThere
  <1>6. /\ Heard(Cleared[chip], v).generator = "none"
        /\ Heard(Prepared[chip], v).generator = "tone"
        /\ Heard(Filled(0, Channels), v).generator = "noise"
    BY <1>1, <1>3, <1>4, <1>5 DEF Heard
  <1>7. QED BY <1>2, <1>3, <1>4, <1>5, <1>6

\* Every step of the program is a step of the PSG or none.
LEMMA StepPlaysVoices ==
    ~MayFail /\ SaaInv /\ ReadyInv /\ [Next]_vars =>
        [Psg!Next]_<<g_vera_psg_channel_frequency, Played>>
  <1> SUFFICES ASSUME ~MayFail, SaaInv, ReadyInv, [Next]_vars
               PROVE  Psg!Next \/ UNCHANGED <<g_vera_psg_channel_frequency, Played>>
    OBVIOUS
  <1>1. CASE Initialize
    <2>1. g_p_vera_psg_to_frequency_table'
      BY <1>1 DEF Initialize, ReadyInv
    <2>2. /\ registers' = Prepared
          /\ g_vera_psg_channel_frequency' = [c \in 0 .. PsgChannels - 1 |-> 0]
      BY <1>1, <2>1 DEF Initialize, WriteAll, OnCard
    <2>3. \A d \in PsgIds : Sounding(d)' = Heard(Prepared[Chip(d)], Voice(d))
      BY <2>2 DEF Sounding, Heard, Chip, Voice
    <2>4. Played' = Psg!Still("tone")
      BY <2>3, VoiceOnChip, StillHeard DEF Played, Psg!Still, PsgIds
    <2>5. Psg!Start
      BY <2>2, <2>4 DEF Psg!Start, Played, PsgIds
    <2>6. QED BY <2>5 DEF Psg!Next
  <1>2. CASE Terminate
    <2>1. registers' = Cleared /\ UNCHANGED g_vera_psg_channel_frequency
      BY <1>2 DEF Terminate, WriteAll, OnCard, ReadyInv, CacheTrue, words
    <2>2. \A d \in PsgIds : Sounding(d)' = Heard(Cleared[Chip(d)], Voice(d))
      BY <2>1 DEF Sounding, Heard, Chip, Voice
    <2>3. Played' = Psg!Still("none")
      BY <2>2, VoiceOnChip, StillHeard DEF Played, Psg!Still, PsgIds
    <2>4. Psg!Stop
      BY <2>1, <2>3 DEF Psg!Stop, Played, PsgIds
    <2>5. QED BY <2>4 DEF Psg!Next
  <1>3. ASSUME NEW channel \in PsgIds, NEW data \in 0 .. ByteSize - 1, WriteLow(channel, data)
        PROVE  Psg!Next
    <2>1. g_vera_psg_channel_frequency[channel] \in Words
      BY DEF SaaInv, TypeOK, PsgIds, Words
    <2>2. Psg!SetLow(channel, data)
      BY <1>3, <2>1, NewByte, FrequencyPlayed DEF WriteLow, Psg!SetLow
    <2>3. QED BY <2>2 DEF Psg!Next, PsgIds
  <1>4. ASSUME NEW channel \in PsgIds, NEW data \in 0 .. ByteSize - 1, WriteHigh(channel, data)
        PROVE  Psg!Next
    <2>1. g_vera_psg_channel_frequency[channel] \in Words
      BY DEF SaaInv, TypeOK, PsgIds, Words
    <2>2. Psg!SetHigh(channel, data)
      BY <1>4, <2>1, NewByte, FrequencyPlayed DEF WriteHigh, Psg!SetHigh
    <2>3. QED BY <2>2 DEF Psg!Next, PsgIds
  <1>5. ASSUME NEW channel \in PsgIds, NEW amplitude \in Amplitudes, WriteVolume(channel, amplitude)
        PROVE  Psg!Next
    BY <1>5, VolumePlayed DEF Psg!Next, PsgIds
  <1>6. ASSUME NEW channel \in PsgIds, NEW waveform \in Waveforms, WriteWaveform(channel, waveform)
        PROVE  Psg!Next
    <2>1. waveform \in 0 .. 3
      BY SaaAssumption
    <2>2. QED BY <1>6, <2>1, WaveformPlayed DEF Psg!Next, PsgIds
  <1>7. CASE UNCHANGED vars
    BY <1>7 DEF vars, words, Played, Sounding, Heard, Chip, Voice
  <1>8. QED
    BY <1>1, <1>2, <1>3, <1>4, <1>5, <1>6, <1>7 DEF Next, PsgIds

\* At first the chips play one of the voices there are, left by what ran before.
LEMMA StartsWithVoices == Init => Psg!Init
  <1> SUFFICES ASSUME Init PROVE Psg!Init
    OBVIOUS
  <1>1. \A c \in PsgIds : Sounding(c) = Heard(registers[Chip(c)], Voice(c))
    BY DEF Sounding
  <1>2. \A c \in PsgIds : registers[Chip(c)] \in {Cleared[Chip(c)], Filled(0, Channels)}
    BY VoiceOnChip DEF Init
  <1>3. \A c \in PsgIds : Sounding(c) \in Psg!Voices
    BY <1>1, <1>2, VoiceOnChip, StillHeard DEF Psg!Voices
  <1>4. QED BY <1>3 DEF Psg!Init, Init, PsgIds

\* saa1099.c implements the PSG: if the clock is known and there is memory for the
\* table, every write to a channel of the PSG changes what that channel plays, and
\* nothing else, through whatever registers and chips.
THEOREM SaaPlaysVoices == ASSUME ~MayFail PROVE Spec => PlaysVoices
  <1>1. Init => Psg!Init
    BY StartsWithVoices
  <1>2. (SaaInv /\ ReadyInv) /\ [Next]_vars => [Psg!Next]_Psg!vars
    BY StepPlaysVoices DEF Psg!vars, Played, PsgIds
  <1>3. QED
    BY <1>1, <1>2, SaaReady, PTL DEF Spec, PlaysVoices, Psg!Spec

=============================================================================
