------------------------------ MODULE MCTimer ------------------------------
(***************************************************************************)
(* Timer for every kind of IRQ number: the PIT, a line of the YM2151 on    *)
(* either PIC, one that timer_start refuses, and a line of the YM2151 on   *)
(* which another device interrupts; and for rates on either side of the    *)
(* one from which the PIT is programmed, and one near the usual 60 Hz.     *)
(***************************************************************************)
EXTENDS Timer

AnyIrq    == {0, 2, 4, 5, 7}
OneShared == {7}
SomeRates == {18, 19, 64}

=============================================================================
