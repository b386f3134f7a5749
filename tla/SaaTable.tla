------------------------------ MODULE SaaTable ------------------------------
(***************************************************************************)
(* source/saa1099.c: the loop that fills the table from VERA frequency     *)
(* words to SAA1099 octaves and frequencies, one entry a step.             *)
(*                                                                         *)
(* A word w sounds at w * 25 MHz / 2^26, an octave o and divider v at      *)
(* clock * 2^o / (512 * v).  In the units of the code the word asks for    *)
(* the ratio ClockRatio * 2^(8 + o) of v * w.                              *)
(***************************************************************************)
EXTENDS Integers, Bitwise

CONSTANTS
    ClockRatio,         \* p_range->clock_ratio
    MinWord, MaxWord    \* p_range->min_r, p_range->max_r

ASSUME TableAssumption ==
    /\ ClockRatio \in Nat \ {0}
    /\ MinWord \in 1 .. MaxWord
    /\ MaxWord \in 1 .. 65535

VARIABLES index, packed     \* the loop's index, the entry at it

vars == <<index, packed>>

\* Mutant of Smear: the last shift is missing, as in the 8-bit version.
SmearByte(x) ==
    LET a == x | shiftR(x, 1)
        b == a | shiftR(a, 2)
    IN  b | shiftR(b, 4)

\* nlz5_16: smear the highest bit downwards, complement, count the ones.
Smear(x) ==
    LET a == x | shiftR(x, 1)
        b == a | shiftR(a, 2)
        c == b | shiftR(b, 4)
    IN  c | shiftR(c, 8)

Pop(x) ==
    LET a == x - (shiftR(x, 1) & 21845)                         \* 0x5555
        b == (a & 13107) + (shiftR(a, 2) & 13107)               \* 0x3333
        c == (b + shiftR(b, 4)) & 3855                          \* 0x0F0F
    IN  shiftR((c + 256 * c) % 65536, 8)

nlz5_16(x) == Pop(65535 - Smear(x))

\* Mutant of Entry: a value that is too large is halved in the same octave.
EntryHalved(word) ==
    LET over == 16 - 7 - nlz5_16(word)
        octave == IF over % 256 > 7 THEN 7 ELSE over
        value == ((ClockRatio * 2^(8 + octave)) \div word) % 65536
    IN  IF value > 511
        THEN octave * 256 + (511 - (value \div 2))
        ELSE octave * 256 + (511 - (IF value < 256 THEN 256 ELSE value))

\* An entry of the table.  The code divides the 23.9 fixed-point ratio by the
\* word and drops the nine fraction bits, which is one division of the ratio
\* without them.  The octave is a uint8_t, the entry a uint16_t.
Entry(word) ==
    LET over == 16 - 7 - nlz5_16(word)
        octave == IF over % 256 > 7 THEN 7 ELSE over
        value == ((ClockRatio * 2^(8 + octave)) \div word) % 65536
    IN  IF value > 511
        THEN ((octave - 1) % 256) * 256 + (511 - (value \div 2))
        ELSE octave * 256 + (511 - (IF value < 256 THEN 256 ELSE value))

\* The two parts of an entry, as saa1099_set_frequency takes it apart.
Octave(entry)    == (entry \div 256) % 8
Frequency(entry) == entry % 256

Init == index = 0 /\ packed = Entry(MinWord)

Next ==
    /\ index < MaxWord - MinWord
    /\ index' = index + 1
    /\ packed' = Entry(MinWord + index + 1)

Spec == Init /\ [][Next]_vars

-----------------------------------------------------------------------------
Divider(entry) == 511 - Frequency(entry)

\* The bit tricks of nlz5_16 count the leading zeros of a 16-bit word.
CountsLeadingZeros ==
    LET word == MinWord + index
        zeros == nlz5_16(word)
    IN  zeros \in 0 .. 15 /\ word \div 2^(15 - zeros) = 1

\* Every word sounds within 1/256, less than seven cents, of what it asks for:
\* "Handles VERA PSG to SAA1099 playback (for both 7.15909 MHz and 8 MHz
\* settings)" (source/saa1099.c:6).
InTune ==
    LET wanted == ClockRatio * 2^(8 + Octave(packed))
        played == Divider(packed) * (MinWord + index)
    IN  256 * (IF played > wanted THEN played - wanted ELSE wanted - played) <= wanted

\* A higher word never sounds lower than the one before it, across octaves too.
Ascending ==
    [][ 2^Octave(packed) * Divider(packed') <= 2^Octave(packed') * Divider(packed) ]_vars

=============================================================================
