------------------------------ MODULE ZsmTune ------------------------------
(***************************************************************************)
(* What is in a ZSM file, told without banks or counters: a sequence of    *)
(* tokens, the bytes that stand for them, and what performing them means.  *)
(* Performing puts every chip write on the tick that the delays before it  *)
(* add up to, and a loop performs the tokens from the loop point again.    *)
(***************************************************************************)
EXTENDS Naturals, Sequences

(***************************************************************************)
(* Tokens.  Their byte form is the file format as zsm_update decodes it.   *)
(***************************************************************************)
PsgWrite(address, data) == [op |-> "psg", address |-> address, data |-> data]
FmWrites(pairs)         == [op |-> "fm", pairs |-> pairs]
Delay(ticks)            == [op |-> "delay", ticks |-> ticks]
Extension(payload)      == [op |-> "ext", payload |-> payload]

Octets == 0 .. 255
Tokens ==
    [op : {"psg"}, address : 0 .. 63, data : Octets]
    \cup [op : {"fm"}, pairs : {pairs \in Seq(Octets \X Octets) : Len(pairs) \in 1 .. 63}]
    \cup [op : {"delay"}, ticks : 1 .. 127]
    \cup [op : {"ext"}, payload : {payload \in Seq(Octets) : Len(payload) \in 0 .. 63}]

Bytes(token) ==
    CASE token.op = "psg"   -> <<token.address, token.data>>
      [] token.op = "fm"    -> <<64 + Len(token.pairs)>> \o
                               [i \in 1 .. 2 * Len(token.pairs) |->
                                   token.pairs[(i + 1) \div 2][2 - (i % 2)]]
      [] token.op = "delay" -> <<128 + token.ticks>>
      [] token.op = "ext"   -> <<64, 64 + Len(token.payload)>> \o token.payload

\* The bytes of the first i tokens, for every i.
Encoded(tokens) ==
    LET first[i \in 0 .. Len(tokens)] ==
            IF i = 0 THEN <<>> ELSE first[i - 1] \o Bytes(tokens[i])
    IN  first

Encoding(tokens) == Encoded(tokens)[Len(tokens)]

(***************************************************************************)
(* A tune: its version, its tokens, the token it loops to (0: none), the   *)
(* chips its header masks ask for, and the bytes the file has after the    *)
(* end-of-file command (PCM data).                                         *)
(***************************************************************************)
Chips == {"ym", "psg"}

IsTune(t) ==
    /\ t \in [version : Nat, tokens : Seq(Tokens), loop : Nat, chips : SUBSET Chips,
              tail : Seq(Octets)]
    /\ t.loop <= Len(t.tokens)

\* Between its loop point and its end a tune waits at least one tick: repeated
\* forever it would never leave zsm_update otherwise.
Waits(t) == t.loop # 0 => \E i \in t.loop .. Len(t.tokens) : t.tokens[i].op = "delay"

(***************************************************************************)
(* Performing a tune on the chips that are there.                          *)
(***************************************************************************)

\* How long a token takes, and the writes of one that is performed on a tick.
Ticks(token) == IF token.op = "delay" THEN token.ticks ELSE 0

WritesOf(token, tick, present) ==
    CASE token.op = "psg" /\ "psg" \in present ->
            <<[tick |-> tick, chip |-> "psg", address |-> token.address, data |-> token.data]>>
      [] token.op = "fm" /\ "ym" \in present ->
            [i \in 1 .. Len(token.pairs) |->
                [tick |-> tick, chip |-> "ym",
                 address |-> token.pairs[i][1], data |-> token.pairs[i][2]]]
      [] OTHER -> <<>>

\* How long the first i tokens take, for every i.
Elapsed(tokens) ==
    LET ticks[i \in 0 .. Len(tokens)] ==
            IF i = 0 THEN 0 ELSE ticks[i - 1] + Ticks(tokens[i])
    IN  ticks

\* Round 0 is the whole tune, each later one its loop: the tokens a round leaves
\* out, the ticks the loop takes, and the tick on which the token after the first
\* i is due in a round.  The first token of all is due on tick 1.
Skipped(t, round) == IF round = 0 THEN 0 ELSE t.loop - 1

LoopTicks(t) == Elapsed(t.tokens)[Len(t.tokens)] - Elapsed(t.tokens)[t.loop - 1]

DueTick(t, round, i) ==
    1 + Elapsed(t.tokens)[i] + (IF round = 0 THEN 0 ELSE round * LoopTicks(t))

\* The writes of a round up to the first i tokens of the tune, for every i.
RoundWrites(t, round, present) ==
    LET writes[i \in Skipped(t, round) .. Len(t.tokens)] ==
            IF i = Skipped(t, round)
            THEN <<>>
            ELSE writes[i - 1] \o WritesOf(t.tokens[i], DueTick(t, round, i - 1), present)
    IN  writes

\* The writes of the rounds up to r, for every r.
Rounds(t, again, present) ==
    LET writes[r \in 0 .. again] ==
            IF r = 0
            THEN RoundWrites(t, 0, present)[Len(t.tokens)]
            ELSE writes[r - 1] \o RoundWrites(t, r, present)[Len(t.tokens)]
    IN  writes

\* Every write of a tune whose loop, if it has one, is taken `again' times.
Performance(t, again, present) ==
    IF t.loop = 0 THEN Rounds(t, 0, present)[0] ELSE Rounds(t, again, present)[again]

(***************************************************************************)
(* Places in a performance: a round, and the tokens of the tune that are   *)
(* behind in it; the writes up to there.                                   *)
(***************************************************************************)
IsPlace(t, again, round, i) ==
    /\ round \in 0 .. (IF t.loop = 0 THEN 0 ELSE again)
    /\ i \in Skipped(t, round) .. Len(t.tokens)

PlayedTo(t, again, present, round, i) ==
    (IF round = 0 THEN <<>> ELSE Rounds(t, again, present)[round - 1])
        \o RoundWrites(t, round, present)[i]

=============================================================================
