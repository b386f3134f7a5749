------------------------------ MODULE MCPlayer ------------------------------
(***************************************************************************)
(* Player with two of the four lines.  The periods of Timer B, 65 and 73   *)
(* ticks, the threshold of 68, the limit of 1000 and the margin for lost   *)
(* ticks are scaled, in their order.                                       *)
(***************************************************************************)
EXTENDS Player

TwoLines == {2, 5}

On(base, line, fast, mask) ==
    [base |-> base, line |-> line, fast |-> fast, timer_b |-> FALSE, flag_b |-> FALSE,
     blasters |-> {}, floating |-> FALSE, noisy |-> {}, masked |-> mask,
     keys |-> 0]

\* Cards at the last base, jumpered or not, with either clock, found in any
\* state; cards at the first base with another device on a line that is masked
\* or not; a Game Blaster before the card, and alone.  Keys are pressed on two
\* of the first: the others are for the ticks and interrupts that race.
Quiet ==
    {[On(624, line, fast, {2}) EXCEPT !.keys = IF fast \/ line = 2 THEN 0 ELSE 2] :
        line \in {0, 2, 5}, fast \in BOOLEAN}
    \cup {[On(624, 5, FALSE, mask) EXCEPT !.timer_b = runs, !.flag_b = over] :
              mask \in {{}, {5}}, runs \in BOOLEAN, over \in BOOLEAN}

With(device, card) == [card EXCEPT !.noisy = {device}]

Noisy ==
    {With(2, On(512, 5, TRUE, {2})), With(5, On(512, 5, FALSE, {2, 5})),
     With(2, On(512, 0, TRUE, {}))}

Blasters ==
    {[On(528, 5, TRUE, {}) EXCEPT !.blasters = {512}, !.floating = floating] :
        floating \in BOOLEAN}
    \cup {[On(0, 0, FALSE, {}) EXCEPT !.blasters = {624}]}

SomeMachines == Quiet \cup Noisy \cup Blasters

\* The variable is not set, is complete, names an IRQ of no use and clocks to
\* be clamped, has no base address, or names another base.
SomeEnvironments ==
    {<<>>,
     <<<<"a", 512>>, <<"i", 5>>, <<"y", 1>>, <<"s", 0>>>>,
     <<<<"a", 624>>, <<"i", 260>>, <<"y", -1>>, <<"s", 7>>>>,
     <<<<"i", 5>>, <<"y", 1>>>>,
     <<<<"a", 544>>, <<"i", 2>>, <<"y", 0>>, <<"s", 0>>>>}

=============================================================================
