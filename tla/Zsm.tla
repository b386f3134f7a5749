-------------------------------- MODULE Zsm --------------------------------
(***************************************************************************)
(* source/zsm.c: the decoder that turns the bytes of a ZSM file into chip  *)
(* writes.  Two actors share its statics: the main program initializes,    *)
(* starts, polls and stops it, and the timer interrupt calls zsm_update.   *)
(* The handler runs with interrupts disabled, so the main program stands   *)
(* still from the start of an update to its end; an interrupt can come     *)
(* between any two statements of the main program, and so between the four *)
(* stores of zsm_start.  An update handles one command of the stream per   *)
(* step, and one register/value pair of an FM command per step.            *)
(*                                                                         *)
(* The stores of zsm_start take effect in source order: the compiler is    *)
(* taken not to exchange stores to different statics.                      *)
(***************************************************************************)
EXTENDS Integers, ZsmTune

CONSTANTS
    Tunes,          \* the files that can be loaded, as ZsmTune has them
    RepeatArgs,     \* the values of zsm_repeat
    HeaderSize,     \* sizeof(zsm_header_t): 16
    ForeverCount,   \* ZSM_REPEAT_FOREVER_COUNT: 255
    Banked,         \* build and banks of the loaded file, as in RamBank
    BankSize,
    NumBanks,
    MaxTicks        \* bound on the updates of a behaviour

ZSM_REPEAT_FOREVER == 32768

ASSUME ZsmAssumption ==
    /\ RepeatArgs \subseteq (0 .. 255) \cup {ZSM_REPEAT_FOREVER}
    /\ HeaderSize \in 1 .. BankSize
    /\ ForeverCount \in 1 .. 255
    /\ MaxTicks \in Nat \ {0}
    /\ Banked \in BOOLEAN /\ BankSize \in Nat \ {0} /\ NumBanks \in 1 .. 16
    /\ ~Banked => NumBanks = 1

VARIABLES
    tune,               \* the loaded file
    repeat_arg,         \* what main will pass to zsm_start
    pc,                 \* where the main program is
    update,             \* where zsm_update is: "idle", "command" or "pairs"
    pairs,              \* register/value pairs left of the FM command
    g_play_stream,
    g_zsm_repeat,
    g_delay_ticks,
    g_repeat_count,
    g_ram_bank,
    real_write_funcs,   \* the chips whose write function is not the null one
    tick,               \* history: updates since g_play_stream was set
    log,                \* history: the writes that reached a chip
    escaped             \* history: zsm_stop was called

decoder == <<g_play_stream, g_delay_ticks, g_repeat_count, g_ram_bank>>
setup   == <<tune, repeat_arg, real_write_funcs>>
vars    == <<setup, pc, update, pairs, decoder, g_zsm_repeat, tick, log, escaped>>

\* ram_read_uint8 is never called: the handle's own position stays zero.
Ram == INSTANCE RamBank WITH
    MaxSkip <- 63,
    JumpTargets <- {},
    absolute_position <- 0,
    file_bank <- [bank |-> 0, at |-> 0]

\* How often the loop is to be taken: forever is beyond the bound, as every round
\* takes a tick.
Loops == IF repeat_arg >= ZSM_REPEAT_FOREVER THEN MaxTicks ELSE repeat_arg

Score == INSTANCE ZsmScore WITH
    loops <- Loops,
    chips <- real_write_funcs,
    clock <- tick,
    out   <- log

(***************************************************************************)
(* The file: header, commands, end-of-file command, PCM data.              *)
(***************************************************************************)
File(t) == [i \in 1 .. HeaderSize |-> 0] \o Encoding(t.tokens) \o <<128>> \o t.tail

\* Where the command behind the first i tokens is.
Offset(t, i) == HeaderSize + Len(Encoded(t.tokens)[i])

\* header.loop_point, an offset into the file, 0 for none.
LoopPoint(t) == IF t.loop = 0 THEN 0 ELSE Offset(t, t.loop - 1)

\* Offsets of the commands of the file, the end-of-file command included.
CommandOffsets(t) == {Offset(t, i) : i \in 0 .. Len(t.tokens)}

\* The file was loaded whole.
ASSUME FilesAssumption == \A t \in Tunes : IsTune(t) /\ Len(File(t)) <= Ram!Size

\* The byte at an offset; anything at all outside the file.
Byte(t, offset) == IF offset < Len(File(t)) THEN File(t)[offset + 1] ELSE 0

\* *p: the byte a pointer points at.
ByteAt(p) == Byte(tune, Ram!Position(p))

(***************************************************************************)
(* The main program.                                                       *)
(***************************************************************************)
Init ==
    /\ tune \in Tunes
    /\ repeat_arg \in RepeatArgs
    /\ pc = "boot"
    /\ update = "idle"
    /\ pairs = 0
    /\ g_play_stream = FALSE
    /\ g_zsm_repeat = 0
    /\ g_delay_ticks = 0
    /\ g_repeat_count = 0
    /\ g_ram_bank = Ram!SeekSet(0)
    /\ real_write_funcs = {}
    /\ tick = 0
    /\ log = <<>>
    /\ escaped = FALSE

\* zsm_initialize, given the write functions of the hardware that was found.
\* The handle is never NULL: main calls it after a successful load only.
Initialize(write_funcs) ==
    /\ pc = "boot"
    /\ IF tune.version # 1                          \* ZSM_UNSUPPORTED_VERSION
       THEN pc' = "refused" /\ UNCHANGED <<g_play_stream, real_write_funcs, g_ram_bank>>
       ELSE /\ g_play_stream' = FALSE
            /\ real_write_funcs' = real_write_funcs \cup (tune.chips \cap write_funcs)
            /\ IF real_write_funcs' # {}
               THEN pc' = "ready" /\ g_ram_bank' = Ram!SeekSet(HeaderSize)
               ELSE pc' = "refused" /\ UNCHANGED g_ram_bank  \* ZSM_NOTHING_TO_PLAY
    /\ UNCHANGED <<tune, repeat_arg, update, pairs, g_zsm_repeat, g_delay_ticks,
                   g_repeat_count, tick, log, escaped>>

\* zsm_start: g_delay_ticks = 1
StartDelay ==
    /\ pc = "ready" /\ update = "idle"
    /\ pc' = "delay_set"
    /\ g_delay_ticks' = 1
    /\ UNCHANGED <<setup, update, pairs, g_play_stream, g_repeat_count, g_ram_bank,
                   g_zsm_repeat, tick, log, escaped>>

\* zsm_start: g_play_stream = true
StartStream ==
    /\ pc = "delay_set" /\ update = "idle"
    /\ pc' = "stream_on"
    /\ g_play_stream' = TRUE
    /\ UNCHANGED <<setup, update, pairs, g_delay_ticks, g_repeat_count, g_ram_bank,
                   g_zsm_repeat, tick, log, escaped>>

\* zsm_start: g_zsm_repeat = zsm_repeat
StartRepeat ==
    /\ pc = "stream_on" /\ update = "idle"
    /\ pc' = "repeat_set"
    /\ g_zsm_repeat' = repeat_arg
    /\ UNCHANGED <<setup, update, pairs, decoder, tick, log, escaped>>

\* Mutant of StartCount: the first playing counts as a repeat.
StartCountShort ==
    /\ pc = "repeat_set" /\ update = "idle"
    /\ pc' = "playing"
    /\ g_repeat_count' = IF repeat_arg > 0 THEN repeat_arg - 1 ELSE 0
    /\ UNCHANGED <<setup, update, pairs, g_play_stream, g_delay_ticks, g_ram_bank,
                   g_zsm_repeat, tick, log, escaped>>

\* zsm_start: g_repeat_count = ..., the last statement
StartCount ==
    /\ pc = "repeat_set" /\ update = "idle"
    /\ pc' = "playing"
    /\ g_repeat_count' = IF repeat_arg >= ZSM_REPEAT_FOREVER THEN ForeverCount ELSE repeat_arg % 256
    /\ UNCHANGED <<setup, update, pairs, g_play_stream, g_delay_ticks, g_ram_bank,
                   g_zsm_repeat, tick, log, escaped>>

\* play_zsm's loop: ESC was pressed, zsm_stop.
Stop ==
    /\ pc = "playing" /\ update = "idle"
    /\ g_play_stream
    /\ g_play_stream' = FALSE
    /\ escaped' = TRUE
    /\ UNCHANGED <<setup, pc, update, pairs, g_delay_ticks, g_repeat_count, g_ram_bank,
                   g_zsm_repeat, tick, log>>

\* play_zsm's loop: zsm_is_playing returned false.
LeaveLoop ==
    /\ pc = "playing" /\ update = "idle"
    /\ ~g_play_stream
    /\ pc' = "stopped"
    /\ UNCHANGED <<setup, update, pairs, decoder, g_zsm_repeat, tick, log, escaped>>

(***************************************************************************)
(* The interrupt: zsm_update.                                              *)
(***************************************************************************)

\* The condition of the while loop of zsm_update, after a command.
Resume(then) ==
    update' = IF g_play_stream' /\ g_delay_ticks' = 0 THEN then ELSE "idle"

\* The entry of zsm_update.  With g_play_stream false the call changes nothing.
\* The four stores of zsm_start take less than a period of the timer: at most
\* one update comes between them.
Tick ==
    /\ pc # "boot" /\ update = "idle"
    /\ g_play_stream
    /\ tick < (IF pc \in {"stream_on", "repeat_set"} THEN 1 ELSE MaxTicks)
    /\ tick' = tick + 1
    /\ g_delay_ticks' = IF g_delay_ticks > 0 THEN g_delay_ticks - 1 ELSE g_delay_ticks
    /\ UNCHANGED g_play_stream
    /\ Resume("command")
    /\ UNCHANGED <<setup, pc, pairs, g_repeat_count, g_ram_bank, g_zsm_repeat, log, escaped>>

Command  == ByteAt(g_ram_bank)
Operand  == Ram!UpdatePos(g_ram_bank)      \* the pointer after the command byte
Record(chip, address, data) ==
    log' = IF chip \in real_write_funcs
           THEN Append(log, [tick |-> tick, chip |-> chip, address |-> address, data |-> data])
           ELSE log

\* Mutant of SkipExtension: the byte with the length counts as data.
SkipExtensionShort ==
    /\ update = "command" /\ Command = 64
    /\ g_ram_bank' = Ram!SeekCurrent(Operand, ByteAt(Operand) % 64)
    /\ UNCHANGED <<g_play_stream, g_delay_ticks>>
    /\ Resume("command")
    /\ UNCHANGED <<setup, pc, pairs, g_repeat_count, g_zsm_repeat, tick, log, escaped>>

\* ZSM_CMD_EXT: the extension's data is skipped.
SkipExtension ==
    /\ update = "command" /\ Command = 64
    /\ g_ram_bank' = Ram!SeekCurrent(Ram!UpdatePos(Operand), ByteAt(Operand) % 64)
    /\ UNCHANGED <<g_play_stream, g_delay_ticks>>
    /\ Resume("command")
    /\ UNCHANGED <<setup, pc, pairs, g_repeat_count, g_zsm_repeat, tick, log, escaped>>

\* Mutants of TakeLoop: the count stays, or runs out when it should be restored.
LoopAgain(count) ==
    /\ update = "command" /\ Command = 128
    /\ g_repeat_count > 0 /\ LoopPoint(tune) # 0
    /\ g_ram_bank' = Ram!SeekSet(LoopPoint(tune))
    /\ g_repeat_count' = count
    /\ UNCHANGED <<g_play_stream, g_delay_ticks>>
    /\ Resume("command")
    /\ UNCHANGED <<setup, pc, pairs, g_zsm_repeat, tick, log, escaped>>

TakeLoopUncounted  == LoopAgain(g_repeat_count)
TakeLoopUnrestored == LoopAgain(g_repeat_count - 1)

\* ZSM_CMD_EOF: take the loop once more ...
TakeLoop ==
    /\ update = "command" /\ Command = 128
    /\ g_repeat_count > 0 /\ LoopPoint(tune) # 0
    /\ g_ram_bank' = Ram!SeekSet(LoopPoint(tune))
    /\ g_repeat_count' =
           IF g_zsm_repeat >= ZSM_REPEAT_FOREVER /\ g_repeat_count = 1
           THEN ForeverCount
           ELSE g_repeat_count - 1
    /\ UNCHANGED <<g_play_stream, g_delay_ticks>>
    /\ Resume("command")
    /\ UNCHANGED <<setup, pc, pairs, g_zsm_repeat, tick, log, escaped>>

\* Mutant of EndStream: a file without a loop point is not ended early.
EndStreamCounted ==
    /\ update = "command" /\ Command = 128
    /\ g_repeat_count = 0
    /\ g_ram_bank' = Operand
    /\ g_play_stream' = FALSE
    /\ g_delay_ticks' = 0
    /\ Resume("command")
    /\ UNCHANGED <<setup, pc, pairs, g_repeat_count, g_zsm_repeat, tick, log, escaped>>

\* ... or end the stream.
EndStream ==
    /\ update = "command" /\ Command = 128
    /\ g_repeat_count = 0 \/ LoopPoint(tune) = 0
    /\ g_ram_bank' = Operand
    /\ g_play_stream' = FALSE
    /\ g_delay_ticks' = 0
    /\ Resume("command")
    /\ UNCHANGED <<setup, pc, pairs, g_repeat_count, g_zsm_repeat, tick, log, escaped>>

\* A command below ZSM_CMD_EXT is the PSG address, its operand the data.
WritePsg ==
    /\ update = "command" /\ Command < 64
    /\ Record("psg", Command, ByteAt(Operand))
    /\ g_ram_bank' = Ram!UpdatePos(Operand)
    /\ UNCHANGED <<g_play_stream, g_delay_ticks>>
    /\ Resume("command")
    /\ UNCHANGED <<setup, pc, pairs, g_repeat_count, g_zsm_repeat, tick, escaped>>

\* An FM command says how many register/value pairs follow ...
StartFm ==
    /\ update = "command" /\ Command \in 65 .. 127
    /\ pairs' = Command % 64
    /\ g_ram_bank' = Operand
    /\ update' = "pairs"
    /\ UNCHANGED <<setup, pc, g_play_stream, g_delay_ticks, g_repeat_count, g_zsm_repeat,
                   tick, log, escaped>>

\* ... and each pair is a write to the YM2151.
WriteFmPair ==
    /\ update = "pairs"
    /\ Record("ym", ByteAt(g_ram_bank), ByteAt(Operand))
    /\ g_ram_bank' = Ram!UpdatePos(Operand)
    /\ pairs' = pairs - 1
    /\ UNCHANGED <<g_play_stream, g_delay_ticks>>
    /\ Resume(IF pairs' = 0 THEN "command" ELSE "pairs")
    /\ UNCHANGED <<setup, pc, g_repeat_count, g_zsm_repeat, tick, escaped>>

\* Mutants of WaitTicks: the command bit stays in the count, or the tick that
\* decodes the delay is counted as one of it.
Delayed(ticks) ==
    /\ update = "command" /\ Command > 128
    /\ g_delay_ticks' = ticks
    /\ g_ram_bank' = Operand
    /\ UNCHANGED g_play_stream
    /\ Resume("command")
    /\ UNCHANGED <<setup, pc, pairs, g_repeat_count, g_zsm_repeat, tick, log, escaped>>

WaitTicksUnmasked == Delayed(Command)
WaitTicksShort    == Delayed((Command % 128) - 1)

\* A command above ZSM_CMD_EOF is a delay.
WaitTicks ==
    /\ update = "command" /\ Command > 128
    /\ g_delay_ticks' = Command % 128
    /\ g_ram_bank' = Operand
    /\ UNCHANGED g_play_stream
    /\ Resume("command")
    /\ UNCHANGED <<setup, pc, pairs, g_repeat_count, g_zsm_repeat, tick, log, escaped>>

Start   == StartDelay \/ StartStream \/ StartRepeat \/ StartCount
Execute == \/ SkipExtension \/ TakeLoop \/ EndStream \/ WritePsg
           \/ StartFm \/ WriteFmPair \/ WaitTicks

Next ==
    \/ \E write_funcs \in SUBSET {"ym", "psg"} : Initialize(write_funcs)
    \/ Start
    \/ Stop
    \/ LeaveLoop
    \/ Tick
    \/ Execute

\* The main program and the handler run on; the timer keeps ticking.  Nobody
\* has to press ESC.
Fairness ==
    /\ WF_vars(\E write_funcs \in SUBSET {"ym", "psg"} : Initialize(write_funcs))
    /\ WF_vars(Start)
    /\ WF_vars(LeaveLoop)
    /\ WF_vars(Tick)
    /\ WF_vars(Execute)

Spec == Init /\ [][Next]_vars /\ Fairness

-----------------------------------------------------------------------------
(***************************************************************************)
(* Properties.                                                             *)
(***************************************************************************)

TypeOK ==
    /\ tune \in Tunes /\ repeat_arg \in RepeatArgs
    /\ pc \in {"boot", "refused", "ready", "delay_set", "stream_on", "repeat_set",
               "playing", "stopped"}
    /\ update \in {"idle", "command", "pairs"} /\ pairs \in 0 .. 63
    /\ g_play_stream \in BOOLEAN /\ escaped \in BOOLEAN
    /\ g_zsm_repeat \in RepeatArgs \cup {0}
    /\ g_delay_ticks \in 0 .. 127 /\ g_repeat_count \in 0 .. 255
    /\ g_ram_bank \in [bank : 0 .. NumBanks, at : 0 .. BankSize - 1]
    /\ real_write_funcs \subseteq {"ym", "psg"} /\ tick \in 0 .. MaxTicks

\* Every write reaches its chip on the tick the score puts it, in the score's
\* order, and no tick passes over a write that is due: the decoder as a whole
\* (zsm_update, the banks under it, zsm_start's delay) implements ZsmScore.
PlaysScore == Score!Spec

\* A stream that ended by itself has been played to its last write, the loop
\* taken as often as the -r option says: "-rN Repeat N times (if the ZSM
\* repeats)" (README.md:44).
EndsComplete ==
    pc = "stopped" /\ ~escaped /\ repeat_arg < ZSM_REPEAT_FOREVER =>
        log = Performance(tune, Loops, real_write_funcs)

\* The decoder never takes an operand, a pair or skipped data for a command,
\* wherever banks end and loops begin (all of zsm_update's pointer moves).
StaysAligned ==
    /\ update = "command" => Ram!Position(g_ram_bank) \in CommandOffsets(tune)
    /\ update = "pairs" => Ram!Position(g_ram_bank) + 2 * pairs \in CommandOffsets(tune)

\* While the stream plays, its pointer is in a bank the loader allocated:
\* RAM_UPDATE_POS hands ram_get_bank a number of which ram_get_bank says that
\* it "should already have next desired bank" (source/ram.c:335).
NextBankExists == g_ram_bank.bank < NumBanks

\* Told to repeat forever, the decoder never ends a looping stream by itself:
\* the 8-bit count of zsm_start is restored whenever it runs out.
LoopsForever ==
    [][ /\ repeat_arg >= ZSM_REPEAT_FOREVER /\ tune.loop # 0
        /\ pc = "playing" /\ g_play_stream
        => g_play_stream' \/ escaped' ]_vars

\* The interrupt handler comes back: zsm_update never spins in its loop.
UpdateReturns == update # "idle" ~> update = "idle"

\* Without a request to repeat forever, play_zsm's loop is left at last.
PlaybackEnds ==
    repeat_arg < ZSM_REPEAT_FOREVER => <>(pc \in {"stopped", "refused"})

\* The strengthening that makes StaysAligned and LoopsForever inductive: between
\* updates too the pointer is at a command, while the stream plays and before;
\* zsm_update only runs on while no delay is due; and a count that is restored
\* never was zero.
PointerInv ==
    /\ pc \in {"ready", "delay_set"} \/ (g_play_stream /\ update # "pairs") =>
           Ram!Position(g_ram_bank) \in CommandOffsets(tune)
    /\ update = "pairs" =>
           pairs >= 1 /\ Ram!Position(g_ram_bank) + 2 * pairs \in CommandOffsets(tune)
    /\ update # "idle" => g_play_stream /\ g_delay_ticks = 0
    /\ g_play_stream => pc \in {"stream_on", "repeat_set", "playing"}

RepeatInv ==
    /\ pc \in {"repeat_set", "playing"} => g_zsm_repeat = repeat_arg
    /\ pc = "playing" /\ repeat_arg >= ZSM_REPEAT_FOREVER => g_repeat_count >= 1

ZsmInv == TypeOK /\ PointerInv /\ RepeatInv

(***************************************************************************)
(* The invariant behind PlaysScore and EndsComplete: how far the decoder   *)
(* is in the performance of the tune.                                      *)
(***************************************************************************)

\* Between the commands of the stream: all is written that comes before the place,
\* and the delay ends on the tick on which the next token is due.
BetweenTokens(round, k) ==
    /\ log = PlayedTo(tune, Loops, real_write_funcs, round, k)
    /\ pc \in {"ready", "delay_set"} \/ g_play_stream =>
           Ram!Position(g_ram_bank) = Offset(tune, k)
    /\ pc = "ready" => DueTick(tune, round, k) = tick + 1
    /\ pc = "delay_set" \/ g_play_stream =>
           DueTick(tune, round, k) = tick + g_delay_ticks

\* Amid the register/value pairs of an FM command.
AmidPairs(round, k) ==
    LET token == tune.tokens[k + 1]
        done  == Len(token.pairs) - pairs
    IN  /\ k < Len(tune.tokens) /\ token.op = "fm" /\ pairs \in 1 .. Len(token.pairs)
        /\ Ram!Position(g_ram_bank) = Offset(tune, k) + 1 + 2 * done
        /\ DueTick(tune, round, k) = tick
        /\ log = PlayedTo(tune, Loops, real_write_funcs, round, k) \o
                 (IF "ym" \in real_write_funcs
                  THEN SubSeq(WritesOf(token, tick, real_write_funcs), 1, done)
                  ELSE <<>>)

\* The count is that of the rounds that are left; it is stored on the first tick at
\* the latest, before any loop is taken.
RoundsCounted(round) ==
    /\ pc \notin {"playing", "stopped"} => round = 0 /\ g_repeat_count = 0 /\ tick <= 1
    /\ pc = "playing" /\ repeat_arg < ZSM_REPEAT_FOREVER => round + g_repeat_count = repeat_arg

\* A stream that has ended by itself is at the end of the last round.
Ended(round, k) ==
    /\ pc \in {"stream_on", "repeat_set", "playing", "stopped"}
    /\ ~g_play_stream /\ ~escaped /\ repeat_arg < ZSM_REPEAT_FOREVER
    => k = Len(tune.tokens) /\ (tune.loop # 0 => round = repeat_arg)

At(round, k) ==
    /\ IsPlace(tune, Loops, round, k)
    /\ IF update = "pairs" THEN AmidPairs(round, k) ELSE BetweenTokens(round, k)
    /\ RoundsCounted(round) /\ Ended(round, k)

StartInv ==
    /\ pc = "boot" => tick = 0 /\ log = <<>> /\ real_write_funcs = {}
    /\ pc = "delay_set" => g_delay_ticks = 1
    /\ pc \in {"boot", "ready", "delay_set", "refused", "stopped"} => ~g_play_stream
    /\ g_play_stream /\ update = "idle" => g_delay_ticks >= 1

PlaceInv == StartInv /\ \E round \in 0 .. Loops : \E k \in 0 .. Len(tune.tokens) : At(round, k)

=============================================================================
