------------------------------- MODULE MCZsm -------------------------------
(***************************************************************************)
(* Small files for Zsm.  Addresses and data are chosen so that every write *)
(* of a tune differs from the others; operands that look like commands (64 *)
(* and 128 are ZSM_CMD_EXT and ZSM_CMD_EOF) check that they are not taken  *)
(* for any.                                                                *)
(***************************************************************************)
EXTENDS Zsm

\* Both chips, a loop in the middle, an extension to skip, PCM data behind.
Looping ==
    [version |-> 1, loop |-> 3, chips |-> {"ym", "psg"}, tail |-> <<64, 1>>,
     tokens  |-> <<PsgWrite(3, 128), Delay(1),
                   FmWrites(<<<<8, 64>>, <<20, 129>>>>), Delay(2),
                   Extension(<<128, 65, 200>>), PsgWrite(63, 0), Delay(1)>>]

\* No loop point: played once whatever -r says.
OneShot ==
    [version |-> 1, loop |-> 0, chips |-> {"psg"}, tail |-> <<>>,
     tokens  |-> <<Delay(1), PsgWrite(0, 1), FmWrites(<<<<40, 7>>>>),
                   PsgWrite(5, 64), Extension(<<>>), Delay(3), PsgWrite(7, 7)>>]

\* A version zsm_initialize refuses.
Version2 == [OneShot EXCEPT !.version = 2]

\* Loops over all of itself, without any delay.
Breathless ==
    [version |-> 1, loop |-> 1, chips |-> {"psg"}, tail |-> <<>>,
     tokens  |-> <<PsgWrite(0, 1), PsgWrite(1, 2)>>]

AllTunes     == {Looping, OneShot, Version2}
OneShotTunes == {OneShot}
Breathing    == {Breathless}

ASSUME TunesWait == \A t \in AllTunes : Waits(t)

=============================================================================
