------------------------------ MODULE ZsmScore ------------------------------
(***************************************************************************)
(* The promise to the listener: every write of a tune reaches its chip on  *)
(* the tick on which the performance of the tune has it, none is early,    *)
(* late, lost, repeated or out of order.                                   *)
(***************************************************************************)
EXTENDS ZsmTune

CONSTANTS
    Tunes,          \* the files that can be played
    MaxTicks        \* bound on the ticks of a behaviour

VARIABLES
    tune,   \* what is played
    loops,  \* how often its loop is taken
    chips,  \* the chips it is played on
    clock,  \* ticks since the start
    out     \* the writes that have reached the chips, in order

vars == <<tune, loops, chips, clock, out>>

Due == Performance(tune, loops, chips)

Init ==
    /\ tune \in Tunes
    /\ loops \in Nat
    /\ chips \in SUBSET Chips
    /\ clock = 0
    /\ out = <<>>

\* Before the music starts it is settled what it is played on.
Settle ==
    /\ clock = 0
    /\ out = <<>>
    /\ chips' \in SUBSET tune.chips
    /\ UNCHANGED <<tune, loops, clock, out>>

\* The next write is due now.
Emit ==
    /\ Len(out) < Len(Due)
    /\ Due[Len(out) + 1].tick = clock
    /\ out' = Append(out, Due[Len(out) + 1])
    /\ UNCHANGED <<tune, loops, chips, clock>>

\* Time passes only when no write is due any more.
Advance ==
    /\ clock < MaxTicks
    /\ Len(out) < Len(Due) => Due[Len(out) + 1].tick > clock
    /\ clock' = clock + 1
    /\ UNCHANGED <<tune, loops, chips, out>>

Next == Settle \/ Emit \/ Advance

Spec == Init /\ [][Next]_vars

=============================================================================
