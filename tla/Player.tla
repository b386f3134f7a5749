------------------------------- MODULE Player -------------------------------
(***************************************************************************)
(* source/main.c on top of Saaym: the card is detected, the file loaded,   *)
(* the decoder and the chips initialized, the timer started and, when the  *)
(* stream has ended, all is put back.  RamLoad, Zsm, Timer and Saa1099     *)
(* model the calls in detail; here a call is a step or, for timer_start    *)
(* and timer_stop on the YM2151, a step for each thing it touches.         *)
(*                                                                         *)
(* Of the stream there is left that an update makes chips sound and that   *)
(* it may end.  Handlers are one step each.                                *)
(***************************************************************************)
EXTENDS Saaym

CONSTANT TickRates      \* header.tick_rate of the files

Rates == 1 .. 65535     \* 16 bits, and not 0

ASSUME PlayerAssumption == TickRates \subseteq Rates

VARIABLES
    loaded,             \* ram.c: the file is in memory
    tick_rate,          \* header.tick_rate
    g_play_stream,
    g_p_timer_callback, \* it is not NULL, and zsm_update
    g_timer_b_stop_requested,
    g_timer_b_stop_acknowledged,
    sounding,           \* the stream has made a chip sound
    keys, pressed       \* the BIOS key buffer; how many keys have been pressed

file     == <<loaded, tick_rate>>
stopping == <<g_timer_b_stop_requested, g_timer_b_stop_acknowledged>>
keyboard == <<keys, pressed>>
player   == <<file, g_play_stream, g_p_timer_callback, stopping, sounding, keyboard>>
vars     == <<saaym, player>>

PlayerInit ==
    /\ Init
    /\ loaded = FALSE /\ tick_rate = 0
    /\ g_play_stream = FALSE /\ g_p_timer_callback = FALSE
    /\ g_timer_b_stop_requested = FALSE /\ g_timer_b_stop_acknowledged = FALSE
    /\ sounding = FALSE /\ keys = <<>> /\ pressed = 0

Irq        == config.irq_number
UsesTimerB == Irq \in Lines

-----------------------------------------------------------------------------
\* What main leaves alone while it plays: all of the detection's own state.
Step(from, to) ==
    /\ Goto(from, to)
    /\ UNCHANGED <<world, index, config, detector, stopwatch, request, in_service, flag_a,
                   time, history>>

HardwareStays == UNCHANGED <<vector, masked, pit, timer_a, timer_b, flag_b, clkb>>

\* zsm_main: without a base address there is nothing to do.
CardFound ==
    /\ Step("detected", IF config.base_io_port > 0 THEN "load" ELSE "exit")
    /\ HardwareStays /\ UNCHANGED player

\* ram_load_file succeeds or not.
Load ==
    /\ \E success \in BOOLEAN :
           /\ Step("load", IF success THEN "zsm_initialize" ELSE "free")
           /\ loaded' = success
    /\ HardwareStays
    /\ UNCHANGED <<tick_rate, g_play_stream, g_p_timer_callback, stopping, sounding, keyboard>>

\* zsm_initialize with the chips whose clock is known, given a file for some
\* chips; one of another version is as good as one for none.
InitializeZsm ==
    /\ \E chips \in SUBSET {"ym", "psg"} :
           LET playable == \/ "ym" \in chips /\ config.ym2151_clock # Invalid
                           \/ "psg" \in chips /\ config.saa1099_clock # Invalid
           IN  Step("zsm_initialize", IF playable THEN "chips" ELSE "free")
    /\ tick_rate' \in TickRates
    /\ HardwareStays
    /\ UNCHANGED <<loaded, g_play_stream, g_p_timer_callback, stopping, sounding, keyboard>>

\* ym2151_initialize and saa1099_vera_psg_initialize
InitializeChips ==
    /\ Step("chips", "timer_start")
    /\ Ready(config.base_io_port) /\ Cleared(config.base_io_port)
    /\ UNCHANGED <<player, vector, masked, pit, flag_b>>

\* timer_start, up to the rate: the callback and the vector, and on IRQ 0 the
\* PIT.  Another IRQ number is refused; the result is not looked at.
StartTimer ==
    /\ Step("timer_start", IF UsesTimerB THEN "timer_unmask" ELSE "zsm_start")
    /\ g_p_timer_callback' = (UsesTimerB \/ Irq = 0)
    /\ vector' = [l \in Lines |-> IF l = Irq THEN "timer" ELSE vector[l]]
    /\ pit' = IF Irq = 0 THEN "player" ELSE pit
    /\ UNCHANGED <<masked, timer_a, timer_b, flag_b, clkb>>
    /\ UNCHANGED <<file, g_play_stream, stopping, sounding, keyboard>>

UnmaskTimer ==
    /\ Step("timer_unmask", "timer_rate")
    /\ masked' = masked \ {Irq}
    /\ UNCHANGED <<player, vector, pit, timer_a, timer_b, flag_b, clkb>>

\* YM_CLOCK_RATIO_...: Timer B overflows so often a second at its shortest period.
Ratio(fast) == IF fast THEN 3906 ELSE 3495

\* Mutant of RateValue: the clocks are exchanged.
RateValueSwapped(rate) == (256 - ((Ratio(config.ym2151_clock # 1) \div rate) % 256)) % 256

\* ym2151_set_timer_b_hz, both values cut to eight bits.
RateValue(rate) == (256 - ((Ratio(config.ym2151_clock = 1) \div rate) % 256)) % 256

\* Is the card where the settings say it is?
OnCard == config.base_io_port = machine.base

SetRate ==
    /\ Step("timer_rate", "timer_enable")
    /\ clkb' = IF OnCard THEN RateValue(tick_rate) ELSE clkb
    /\ UNCHANGED <<player, vector, masked, pit, timer_a, timer_b, flag_b>>

\* ym2151_enable_timer_b(on), on the card if that is where the settings point.
Switched(on) ==
    IF OnCard THEN timer_b' = on /\ flag_b' = FALSE ELSE UNCHANGED <<timer_b, flag_b>>

LineAfter(lines) == IF OnCard THEN lines \ Lowered ELSE lines

StartTimerB ==
    /\ Goto("timer_enable", "zsm_start")
    /\ Switched(TRUE) /\ request' = LineAfter(request)
    /\ UNCHANGED <<world, index, config, detector, stopwatch, in_service, flag_a, time, history>>
    /\ UNCHANGED <<player, vector, masked, pit, timer_a, clkb>>

StartStream ==
    /\ Step("zsm_start", "playing")
    /\ g_play_stream' = TRUE
    /\ HardwareStays /\ UNCHANGED <<file, g_p_timer_callback, stopping, sounding, keyboard>>

\* Mutant of PollKey: the key is looked at but not taken.
PeekKey ==
    /\ Step("playing", "playing")
    /\ keys # <<>>
    /\ g_play_stream' = (g_play_stream /\ Head(keys) # "esc")
    /\ HardwareStays
    /\ UNCHANGED <<file, g_p_timer_callback, stopping, sounding, keyboard>>

\* keyboard_get_state_pcxt_bios takes one key, whichever it is; ESC calls
\* zsm_stop.  The stream may have ended since main looked.
PollKey ==
    /\ Step("playing", "playing")
    /\ keys # <<>> /\ keys' = Tail(keys)
    /\ g_play_stream' = (g_play_stream /\ Head(keys) # "esc")
    /\ HardwareStays
    /\ UNCHANGED <<file, g_p_timer_callback, stopping, sounding, pressed>>

\* Mutants of LeaveLoop: timer_stop is left out, or does not ask Timer B to stop.
LeaveLoopRunning ==
    /\ ~g_play_stream /\ Step("playing", "terminate")
    /\ HardwareStays /\ UNCHANGED player

LeaveLoopUnasked ==
    /\ ~g_play_stream
    /\ Step("playing", IF g_p_timer_callback /\ UsesTimerB THEN "timer_wait" ELSE "terminate")
    /\ pit' = "bios" /\ g_p_timer_callback' = (g_p_timer_callback /\ UsesTimerB)
    /\ UNCHANGED <<vector, masked, timer_a, timer_b, flag_b, clkb>>
    /\ UNCHANGED <<file, g_play_stream, stopping, sounding, keyboard>>

\* The stream has stopped.  timer_stop: on IRQ 0 the PIT, else the request.
LeaveLoop ==
    /\ ~g_play_stream
    /\ Step("playing", IF g_p_timer_callback /\ UsesTimerB THEN "timer_wait" ELSE "terminate")
    /\ pit' = "bios" /\ g_p_timer_callback' = (g_p_timer_callback /\ UsesTimerB)
    /\ g_timer_b_stop_requested' = g_p_timer_callback'
    /\ UNCHANGED <<vector, masked, timer_a, timer_b, flag_b, clkb>>
    /\ UNCHANGED <<file, g_play_stream, g_timer_b_stop_acknowledged, sounding, keyboard>>

\* The answer has come: irq_set_mask, also when the line was found unmasked.
MaskTimer ==
    /\ g_timer_b_stop_acknowledged /\ Step("timer_wait", "timer_vector")
    /\ masked' = masked \cup {Irq}
    /\ UNCHANGED <<player, vector, pit, timer_a, timer_b, flag_b, clkb>>

RestoreVector ==
    /\ Step("timer_vector", "terminate")
    /\ vector' = [vector EXCEPT ![Irq] = "old"]
    /\ g_p_timer_callback' = FALSE
    /\ UNCHANGED <<masked, pit, timer_a, timer_b, flag_b, clkb>>
    /\ UNCHANGED <<file, g_play_stream, stopping, sounding, keyboard>>

\* saa1099_vera_psg_terminate and ym2151_terminate
Terminate ==
    /\ Step("terminate", "free")
    /\ sounding' = FALSE
    /\ HardwareStays
    /\ UNCHANGED <<file, g_play_stream, g_p_timer_callback, stopping, keyboard>>

\* ram_free
Free ==
    /\ Step("free", "exit")
    /\ loaded' = FALSE
    /\ HardwareStays
    /\ UNCHANGED <<tick_rate, g_play_stream, g_p_timer_callback, stopping, sounding, keyboard>>

Play ==
    \/ CardFound \/ Load \/ InitializeZsm \/ InitializeChips \/ StartTimer \/ UnmaskTimer \/ SetRate
    \/ StartTimerB \/ StartStream \/ PollKey \/ LeaveLoop \/ MaskTimer \/ RestoreVector \/ Terminate \/ Free

-----------------------------------------------------------------------------
\* zsm_update: the stream goes on, with a chip sounding or not, or ends.
Update ==
    /\ g_play_stream' \in {FALSE, g_play_stream}
    /\ sounding' \in {sounding, sounding \/ g_play_stream}

\* timer_irq_0_handler
PlayerTick ==
    /\ pit = "player" /\ Update
    /\ UNCHANGED <<saaym, file, g_p_timer_callback, stopping, keyboard>>

\* timer_irq_2_handler and timer_irq_357_handler.  Without an overflow, or with
\* no YM2151 to read it from, they leave the line in service.
TimerHandler(l) ==
    /\ Due(l) /\ vector[l] = "timer"
    /\ IF OnCard /\ flag_b /\ g_p_timer_callback
       THEN /\ Update
            /\ Switched(~g_timer_b_stop_requested)
            /\ request' = LineAfter(request \ {l})
            /\ g_timer_b_stop_acknowledged' = g_timer_b_stop_requested
            /\ UNCHANGED in_service
       ELSE /\ request' = request \ {l} /\ in_service' = in_service \cup {l}
            /\ UNCHANGED <<g_play_stream, sounding, timer_b, flag_b, g_timer_b_stop_acknowledged>>
    /\ UNCHANGED <<control, detector, stopwatch, vector, masked, pit, timer_a, flag_a, clkb,
                   time, history>>
    /\ UNCHANGED <<file, g_p_timer_callback, g_timer_b_stop_requested, keyboard>>

Handlers ==
    \/ (Interrupts \/ Tick) /\ UNCHANGED player
    \/ PlayerTick
    \/ \E l \in Lines : TimerHandler(l)

Main == (Detect /\ UNCHANGED player) \/ Play

\* The keyboard interrupt of the BIOS.  Keys matter while the stream plays.
PressKey ==
    /\ pc = "playing" /\ g_play_stream
    /\ pressed < machine.keys /\ pressed' = pressed + 1
    /\ \E key \in {"esc", "other"} : keys' = Append(keys, key)
    /\ UNCHANGED <<saaym, file, g_play_stream, g_p_timer_callback, stopping, sounding>>

Next == Main \/ Handlers \/ PressKey \/ (Hardware /\ UNCHANGED player)

\* Timers that run go on, handlers are called, and main gets the processor
\* between two of them.
Fairness ==
    /\ SF_vars(Main)
    /\ \A l \in Lines :
           WF_vars(\/ (OldHandler(l) \/ DetectHandler(l) \/ ClockHandler(l)) /\ UNCHANGED player
                   \/ TimerHandler(l))
    /\ WF_vars((Tick /\ UNCHANGED player) \/ PlayerTick)
    /\ WF_vars((TimerAOverflows \/ TimerBOverflows) /\ UNCHANGED player)

Spec == PlayerInit /\ [][Next]_vars /\ Fairness

-----------------------------------------------------------------------------
(***************************************************************************)
(* Properties.                                                             *)
(***************************************************************************)
TypeOK ==
    /\ machine \in Machines /\ environment \in Environments /\ config \in Configs
    /\ pc \in {"environment", "probe", "initialize", "identify", "status", "accept", "install",
               "unmask", "sample", "clear", "trigger", "await", "sense", "take", "start_watch",
               "watch", "uninstall", "remask", "decide", "detected", "load", "zsm_initialize",
               "chips", "timer_start", "timer_unmask", "timer_rate", "timer_enable",
               "zsm_start", "playing", "timer_wait", "timer_vector", "terminate", "free", "exit"}
    /\ index \in Lines \cup (1 .. Len(environment) + 1) \cup (BaseStart .. BaseEnd + 16)
    /\ triggered \cup spurious \cup g_pic_old_mask \subseteq Lines
    /\ stopwatch.state \in {"start", "wait", "overflowed"}
    /\ stopwatch.interrupt_number \in Lines \cup {0}
    /\ stopwatch.counter <= stopwatch.ticks /\ stopwatch.ticks <= Limit + 1
    /\ vector \in [Lines -> {"old", "detect", "clock", "timer"}]
    /\ request \cup in_service \cup masked \cup early \cup noise \subseteq Lines
    /\ pit \in {"bios", "stopwatch", "player"} /\ clkb \in Bytes
    /\ {timer_a, flag_a, timer_b, flag_b, loaded, g_play_stream, g_p_timer_callback,
        g_timer_b_stop_requested, g_timer_b_stop_acknowledged, sounding} \subseteq BOOLEAN
    /\ elapsed \in 0 .. SlowPeriod + 1 /\ lost \in 0 .. LostTicks
    /\ tick_rate \in TickRates \cup {0}
    /\ pressed \in 0 .. machine.keys /\ Len(keys) <= pressed
    /\ \A i \in DOMAIN keys : keys[i] \in {"esc", "other"}

\* irq_sense names the line of the card, or one on which another device kept
\* still until the sampling and interrupted after it; and it names the card's if
\* that was quiet before and all lines after the sampling (irq.c).
SensesTheCard ==
    LET sensed == stopwatch.interrupt_number
    IN  /\ sensed # 0 => sensed = Card \/ sensed \in noise \ early
        /\ pc \in {"remask", "decide"} /\ noise = {} /\ Card \notin early => sensed = Card

\* On a sensed line that stays quiet the clock that is found is the card's,
\* however the ticks of the PIT fall and though some are lost: 68 counted
\* ticks divide the two (saaym_detect_irq).
ClockFound ==
    LET sensed == stopwatch.interrupt_number
    IN  sensed # 0 /\ sensed \notin noise /\ pc = "detected" =>
            config.ym2151_clock = IF machine.fast THEN 1 ELSE 0

\* Detection returns with the vectors, the mask and the PIT as it found them,
\* and with Timer B stopped and no overflow left if the card was sensed
\* (saaym_detect_irq, irq_uninstall_detect_handlers).
GivesBack ==
    pc = "detected" =>
        /\ \A l \in Lines : vector[l] = "old"
        /\ masked = Found /\ pit = "bios"
        /\ stopwatch.interrupt_number # 0 /\ noise = {} => ~timer_b /\ ~flag_b

\* An update comes as often as the header of the file asks, to within one step
\* of Timer B, when the line was sensed and stayed quiet and the rate is one
\* Timer B can have: the clock that was found, the rate computed from it and
\* the chip that runs at it belong together (ym2151_set_timer_b_hz).
TempoKept ==
    LET sensed == stopwatch.interrupt_number
        played == Ratio(machine.fast)
    IN  pc \in {"zsm_start", "playing"} /\ sensed # 0 /\ sensed \notin noise
            /\ played \div tick_rate \in 1 .. 255 =>
        tick_rate * (256 - clkb) <= played /\ played < tick_rate * (257 - clkb)

\* When the program ends, no chip sounds and nothing can make one sound: the
\* vectors are the old ones and the BIOS has the PIT.  The mask is the one that
\* was found, but that the line of Timer B is masked; on the card's own line
\* Timer B is stopped (play_zsm, timer_stop).
LeavesAsFound ==
    pc = "exit" =>
        /\ ~sounding /\ pit = "bios"
        /\ \A l \in Lines : vector[l] = "old"
        /\ masked = Found \cup (IF g_timer_b_stop_requested THEN {Irq} ELSE {})
        /\ g_timer_b_stop_requested => ~timer_b

\* Detection ends, whatever other devices do, unless a Game Blaster without a
\* YM2151 answers and its port reads as busy (saaym_detect).
DetectionEnds ==
    <>(pc = "detected") \/ (machine.blasters # {} /\ machine.floating)

\* ESC stops the stream, also behind other keys, if no other device interrupts
\* (play_zsm, keyboard_get_state_pcxt_bios).
EscapeStops ==
    (pc = "playing" /\ (\E i \in DOMAIN keys : keys[i] = "esc") /\ machine.noisy = {})
    ~> ~g_play_stream

\* Playing ends once the stream has, if the IRQ is the PIT's or unknown, or that
\* of the card and no other device interrupts (timer_stop).
ReturnsToDos ==
    (pc = "playing" /\ ~g_play_stream
        /\ (UsesTimerB => OnCard /\ Irq = Card /\ machine.noisy = {}))
    ~> pc = "exit"

=============================================================================
