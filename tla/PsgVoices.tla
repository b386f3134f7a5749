----------------------------- MODULE PsgVoices -----------------------------
(***************************************************************************)
(* What saa1099.c promises: the channels of a VERA PSG are independent     *)
(* voices.  Nothing here knows of chips, shared registers or a cache.      *)
(***************************************************************************)
EXTENDS Integers

CONSTANTS
    Channels,           \* the channels that are played
    ByteSize,           \* values of a byte
    MinWord, MaxWord,   \* the frequency words that can be played
    Table,              \* the pitch of such a word
    Amplitudes

VARIABLES
    word,   \* the frequency word of each channel
    voice   \* what each channel plays

vars == <<word, voice>>

NoPitch == [octave |-> 0, frequency |-> 0]

Voices == [pitch : {NoPitch} \cup {Table[w] : w \in MinWord .. MaxWord},
           amplitude : Amplitudes \cup {0},
           generator : {"none", "tone", "noise"}]

Still(generator) ==
    [c \in Channels |-> [pitch |-> NoPitch, amplitude |-> 0, generator |-> generator]]

\* The nearest word that can be played.
Clamp(w) == IF w < MinWord THEN MinWord ELSE IF w > MaxWord THEN MaxWord ELSE w

\* The chips may still hold the music of another program.
Init ==
    /\ word = [c \in Channels |-> 0]
    /\ voice \in [Channels -> Voices]

Start ==
    /\ word' = [c \in Channels |-> 0]
    /\ voice' = Still("tone")

SetWord(c, w) ==
    /\ word' = [word EXCEPT ![c] = w]
    /\ voice' = [voice EXCEPT ![c].pitch = Table[Clamp(w)]]

SetLow(c, data)  == SetWord(c, word[c] - (word[c] % ByteSize) + data)
SetHigh(c, data) == SetWord(c, data * ByteSize + (word[c] % ByteSize))

SetVolume(c, amplitude) ==
    /\ voice' = [voice EXCEPT ![c].amplitude = amplitude]
    /\ UNCHANGED word

SetWaveform(c, waveform) ==
    /\ voice' = [voice EXCEPT ![c].generator = IF waveform = 3 THEN "noise" ELSE "tone"]
    /\ UNCHANGED word

Stop ==
    /\ voice' = Still("none")
    /\ UNCHANGED word

Next ==
    \/ Start
    \/ Stop
    \/ \E c \in Channels :
           \/ \E data \in 0 .. ByteSize - 1 : SetLow(c, data) \/ SetHigh(c, data)
           \/ \E amplitude \in Amplitudes : SetVolume(c, amplitude)
           \/ \E waveform \in 0 .. 3 : SetWaveform(c, waveform)

Spec == Init /\ [][Next]_vars

=============================================================================
