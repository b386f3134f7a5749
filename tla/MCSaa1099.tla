----------------------------- MODULE MCSaa1099 -----------------------------
(***************************************************************************)
(* Saa1099 with three channels, two of them on one chip, and bytes of one  *)
(* bit.  Of the four frequency words two can be played, in two octaves.    *)
(***************************************************************************)
EXTENDS Saa1099

TwoPitches == [w \in 1 .. 2 |-> [octave |-> 3 * w, frequency |-> 100 + w]]

=============================================================================
