------------------------------- MODULE Saaym -------------------------------
(***************************************************************************)
(* source/saaym.c with the detection part of source/irq.c: the settings of *)
(* the environment or, without a base address there, the search for the    *)
(* card: its base, by probing; its IRQ, by letting Timer B overflow under  *)
(* handlers on all four lines; and the clock of its YM2151, by counting    *)
(* PIT ticks until Timer B overflows.                                      *)
(*                                                                         *)
(* Main, the interrupt handlers and the hardware interleave.  Handlers run *)
(* with interrupts disabled and are one step each; timer_start and         *)
(* timer_stop on the PIT are one step too, Timer has their statements.     *)
(*                                                                         *)
(* External, modelled from their use: the PIC, the PIT, the timers of the  *)
(* YM2151, Game Blasters, other devices on the lines, and old handlers,    *)
(* which acknowledge their interrupt and leave the YM2151 alone.           *)
(***************************************************************************)
EXTENDS Integers, Sequences

CONSTANTS
    Lines,          \* the lines of g_detect_handler_states
    Environments,   \* the SAAYM variable: sequences of <<letter, value>>
    Machines,       \* what the program may run on: see MachineType
    FastPeriod,     \* 65, 73: PIT ticks of Timer B's longest period at 4 MHz
    SlowPeriod,     \*   and at 3.579545 MHz
    LostTicks,      \* bound on the PIT ticks that go unserved meanwhile
    Threshold,      \* 68: fewer counted ticks mean 4 MHz
    Limit           \* 1000: ticks until the stopwatch gives up

\* The card (base 0: none), the line it is jumpered to (0: none), whether its
\* YM2151 runs at 4 MHz, and Timer B as an earlier program has left it; the
\* bases of Game Blasters without a YM2151; whether ports nobody drives read as
\* busy; the lines of other devices; the lines that are masked; and how many
\* keys are pressed.
MachineType ==
    [base : Nat, line : Lines \cup {0}, fast : BOOLEAN, timer_b : BOOLEAN, flag_b : BOOLEAN,
     blasters : SUBSET Nat, floating : BOOLEAN, noisy : SUBSET Lines, masked : SUBSET Lines,
     keys : Nat]

ASSUME SaaymAssumption ==
    /\ Lines \subseteq {2, 3, 5, 7} /\ Lines # {}
    /\ Environments \subseteq Seq(STRING \X Int)
    /\ Machines \subseteq MachineType
    /\ FastPeriod \in Nat /\ SlowPeriod \in Nat /\ LostTicks \in Nat
    /\ Threshold \in Nat /\ Limit \in Nat
    /\ FastPeriod + 1 < Threshold /\ Threshold <= SlowPeriod - LostTicks
    /\ SlowPeriod + 2 < Limit

VARIABLES
    machine, environment,
    pc, index,          \* the statement of main; its parameter, base address or line
    config,             \* saaym_config_t
    triggered, spurious,    \* irq.c: the lines whose handler state says so
    g_pic_old_mask,
    stopwatch,          \* g_saaym_detect_ym2151_clock
    vector,             \* whose handler a line has: "old", "detect", "clock" ...
    request, in_service, masked,    \* PIC: sets of lines
    pit,                \* whose handler IRQ 0 has: "bios", "stopwatch" ...
    timer_a, flag_a,    \* YM2151: the timers that run, those that have overflowed
    timer_b, flag_b,
    clkb,               \* YM2151: register 0x12, the rate of Timer B
    elapsed, lost,      \* PIT ticks since Timer B was started; those unserved
    early, noise        \* history: lines on which another device interrupted the
                        \*   detection handler before the sampling, and after it

world    == <<machine, environment>>
detector == <<triggered, spurious, g_pic_old_mask>>
pic      == <<request, in_service, masked>>
ym       == <<timer_a, flag_a, timer_b, flag_b, clkb>>
time     == <<elapsed, lost>>
history  == <<early, noise>>
control  == <<world, pc, index, config>>
saaym    == <<control, detector, stopwatch, vector, pic, pit, ym, time, history>>

Card  == machine.line
Found == machine.masked

-----------------------------------------------------------------------------
\* e_ym2151_clock_t and e_saa1099_clock_t: 0 is the slow clock, 1 the fast one.
Invalid == -1
Clocks  == {Invalid, 0, 1}
Bytes   == 0 .. 255
Words   == 0 .. 65535
Configs ==
    [ym2151_clock : Clocks, saa1099_clock : Clocks, base_io_port : Words, irq_number : Bytes]

Clamp(value) == IF value < 0 THEN 0 ELSE IF value > 1 THEN 1 ELSE value

NoConfig == [ym2151_clock |-> Invalid, saa1099_clock |-> Invalid,
             base_io_port |-> 0, irq_number |-> 0]

\* One letter of the variable.  Unknown ones, the digits of values among them,
\* are skipped; addresses and IRQ numbers are cut to their width.
Setting(settings, parameter) ==
    LET value == parameter[2]
    IN  CASE parameter[1] = "a" -> [settings EXCEPT !.base_io_port = value % 65536]
          [] parameter[1] = "i" -> [settings EXCEPT !.irq_number = value % 256]
          [] parameter[1] = "y" -> [settings EXCEPT !.ym2151_clock = Clamp(value)]
          [] parameter[1] = "s" -> [settings EXCEPT !.saa1099_clock = Clamp(value)]
          [] OTHER -> settings

BaseStart == 512    \* 0x200
BaseEnd   == 624    \* 0x270

\* An old overflow of Timer B may still wait in the PIC.
Init ==
    /\ machine \in Machines /\ environment \in Environments
    /\ pc = "environment" /\ index = 1 /\ config = NoConfig
    /\ triggered = {} /\ spurious = {} /\ g_pic_old_mask = {}
    /\ stopwatch = [state |-> "start", counter |-> 0, ticks |-> 0,
                    count_at_overflow |-> 0, interrupt_number |-> 0]
    /\ vector = [l \in Lines |-> "old"] /\ pit = "bios"
    /\ masked = machine.masked /\ in_service = {}
    /\ timer_a = FALSE /\ flag_a = FALSE /\ clkb = 0
    /\ timer_b = machine.timer_b /\ flag_b = machine.flag_b
    /\ request \in {{}, {Card} \cap Lines} /\ (request # {} => flag_b)
    /\ elapsed = 0 /\ lost = 0
    /\ early = {} /\ noise = {}

-----------------------------------------------------------------------------
\* The PIC interrupts the processor on a line that no line in service blocks.
Due(l) == l \in request \ masked /\ \A m \in in_service : l < m

\* Main moves on when no interrupt is due.
Goto(from, to) ==
    /\ \A l \in Lines : ~Due(l)
    /\ pc = from /\ pc' = to

\* Lines in the order of g_detect_handler_states.
First     == CHOOSE l \in Lines : \A m \in Lines : l <= m
Later     == {l \in Lines : l > index}
NextLine  == IF Later = {} THEN index ELSE CHOOSE l \in Later : \A m \in Later : l <= m

\* Main loops over the lines at a statement.
Loop(from, to) ==
    /\ Goto(from, IF Later = {} THEN to ELSE IF from = "clear" THEN "sample" ELSE from)
    /\ index' = IF Later = {} THEN First ELSE NextLine

\* Mutant of NextBase: one base too many.
NextBaseBeyond(from) ==
    /\ Goto(from, IF index > BaseEnd THEN "detected" ELSE "probe")
    /\ index' = index + 16

\* ... and over the bases.
NextBase(from) ==
    /\ Goto(from, IF index + 16 > BaseEnd THEN "detected" ELSE "probe")
    /\ index' = index + 16

\* saaym_get_config_from_environment: the loop over the variable ...
ReadParameter ==
    /\ index <= Len(environment) /\ Goto("environment", "environment")
    /\ config' = Setting(config, environment[index]) /\ index' = index + 1
    /\ UNCHANGED <<world, detector, stopwatch, vector, pic, pit, ym, time, history>>

\* ... and its end.  saaym_detect: with a base address nothing is searched for.
ReadEnvironment ==
    /\ index > Len(environment) /\ index' = BaseStart
    /\ Goto("environment", IF config.base_io_port = 0 THEN "probe" ELSE "detected")
    /\ UNCHANGED <<world, config, detector, stopwatch, vector, pic, pit, ym, time, history>>

\* saaym_detect_game_blaster_generic
Probe ==
    /\ IF index = machine.base \/ index \in machine.blasters
       THEN Goto("probe", "initialize") /\ UNCHANGED index
       ELSE NextBase("probe")
    /\ UNCHANGED <<world, config, detector, stopwatch, vector, pic, pit, ym, time, history>>

\* ym2151_write finds the chip ready, or nothing there and a port that reads so.
Ready(base) == base = machine.base \/ ~machine.floating

\* ym2151_initialize: all registers zero.  The timers stop, their flags stay.
Cleared(base) ==
    IF base = machine.base
    THEN timer_a' = FALSE /\ timer_b' = FALSE /\ clkb' = 0
    ELSE UNCHANGED <<timer_a, timer_b, clkb>>

Initialize ==
    /\ Goto("initialize", "identify")
    /\ Ready(index) /\ Cleared(index)
    /\ UNCHANGED <<world, index, config, detector, stopwatch, vector, pic, pit, flag_a, flag_b,
                   time, history>>

\* saaym_detect_ym2151: the flags are reset and Timer A is started, if there is
\* a YM2151; a status that never changes is no YM2151.
Identify ==
    /\ IF index = machine.base
       THEN /\ Goto("identify", "status") /\ UNCHANGED index
            /\ flag_a' = FALSE /\ flag_b' = FALSE /\ timer_a' = TRUE
            /\ request' = request \ {Card}
       ELSE NextBase("identify") /\ UNCHANGED <<timer_a, flag_a, flag_b, request>>
    /\ UNCHANGED <<world, config, detector, stopwatch, vector, in_service, masked, pit,
                   timer_b, clkb, time, history>>

\* Its second half, after the overflow of Timer A.
Identified ==
    /\ flag_a
    /\ IF flag_b THEN NextBase("status") ELSE Goto("status", "accept") /\ UNCHANGED index
    /\ timer_a' = FALSE /\ flag_a' = FALSE /\ flag_b' = FALSE
    /\ request' = request \ {Card}
    /\ UNCHANGED <<world, config, detector, stopwatch, vector, in_service, masked, pit,
                   timer_b, clkb, time, history>>

\* saaym_detect: the base is found; the settings take the usual clocks, those
\* of the environment too.  irq_install_detect_handlers: the mask is saved.
Accept ==
    /\ Goto("accept", "install")
    /\ config' = [config EXCEPT !.base_io_port = index, !.ym2151_clock = 0, !.saa1099_clock = 0]
    /\ g_pic_old_mask' = masked
    /\ UNCHANGED <<world, index, triggered, spurious, stopwatch, vector, pic, pit, ym, time,
                   history>>

Install ==
    /\ Goto("install", "unmask")
    /\ vector' = [l \in Lines |-> "detect"]
    /\ UNCHANGED <<world, index, config, detector, stopwatch, pic, pit, ym, time, history>>

SetMask(from, to, mask) ==
    /\ Goto(from, to)
    /\ masked' = mask
    /\ UNCHANGED <<world, config, detector, stopwatch, vector, request, in_service, pit, ym,
                   time, history>>

\* The mask of IRQ_START_MASK; main listens for 100 ms before it samples.
Unmask == SetMask("unmask", "sample", g_pic_old_mask \ Lines) /\ index' = First

\* spurious = triggered ...
Sample ==
    /\ Goto("sample", "clear")
    /\ spurious' = IF index \in triggered THEN spurious \cup {index} ELSE spurious \ {index}
    /\ UNCHANGED <<world, index, config, triggered, g_pic_old_mask, stopwatch, vector, pic, pit,
                   ym, time, history>>

\* ... triggered = false, line by line.
ClearTriggered ==
    /\ Loop("clear", "trigger")
    /\ triggered' = triggered \ {index}
    /\ UNCHANGED <<world, config, spurious, g_pic_old_mask, stopwatch, vector, pic, pit,
                   ym, time, history>>

\* ym2151_enable_timer_b: either way the flag is reset and the line falls.
EnableTimerB(on) ==
    /\ timer_b' = on /\ flag_b' = FALSE
    /\ UNCHANGED <<timer_a, flag_a>>

Lowered == IF flag_a THEN {} ELSE {Card}

\* saaym_detect_irq: Timer B is triggered with its shortest period ...
Trigger ==
    /\ Goto("trigger", "await")
    /\ clkb' = 255 /\ EnableTimerB(TRUE) /\ request' = request \ Lowered
    /\ UNCHANGED <<world, index, config, detector, stopwatch, vector, in_service, masked, pit,
                   time, history>>

\* ... and stopped 100 ms later, when it has overflowed.
Await ==
    /\ Goto("await", "sense")
    /\ flag_b
    /\ EnableTimerB(FALSE) /\ request' = request \ Lowered
    /\ UNCHANGED <<world, index, config, detector, stopwatch, vector, in_service, masked, pit,
                   clkb, time, history>>

\* Mutant of Sense: lines that had triggered before are taken too.
SenseAll ==
    /\ IF index \in triggered
       THEN /\ Goto("sense", "take") /\ UNCHANGED index
            /\ stopwatch' = [stopwatch EXCEPT !.interrupt_number = index]
       ELSE Loop("sense", "uninstall") /\ UNCHANGED stopwatch
    /\ UNCHANGED <<world, config, detector, vector, pic, pit, ym, time, history>>

\* irq_sense
Sense ==
    /\ IF index \in triggered \ spurious
       THEN /\ Goto("sense", "take") /\ UNCHANGED index
            /\ stopwatch' = [stopwatch EXCEPT !.interrupt_number = index]
       ELSE Loop("sense", "uninstall") /\ UNCHANGED stopwatch
    /\ UNCHANGED <<world, config, detector, vector, pic, pit, ym, time, history>>

TakeVector ==
    /\ Goto("take", "start_watch")
    /\ vector' = [vector EXCEPT ![stopwatch.interrupt_number] = "clock"]
    /\ UNCHANGED <<world, index, config, detector, stopwatch, pic, pit, ym, time, history>>

\* The longest period, and timer_start(0, 1000U, &saaym_stopwatch_handler).
StartWatch ==
    /\ Goto("start_watch", "watch")
    /\ clkb' = 0 /\ pit' = "stopwatch"
    /\ UNCHANGED <<world, index, config, detector, stopwatch, vector, pic, timer_a, flag_a,
                   timer_b, flag_b, time, history>>

\* Mutant of StopWatch: without the limit.
WatchOn ==
    /\ stopwatch.state = "overflowed"
    /\ Goto("watch", "uninstall") /\ pit' = "bios"
    /\ elapsed' = 0 /\ lost' = 0
    /\ UNCHANGED <<world, index, config, detector, stopwatch, vector, pic, ym, history>>

\* The end of the loop and timer_stop.
StopWatch ==
    /\ stopwatch.ticks >= Limit \/ stopwatch.state = "overflowed"
    /\ Goto("watch", "uninstall") /\ pit' = "bios"
    /\ elapsed' = 0 /\ lost' = 0
    /\ UNCHANGED <<world, index, config, detector, stopwatch, vector, pic, ym, history>>

\* irq_uninstall_detect_handlers
Uninstall ==
    /\ Goto("uninstall", "remask")
    /\ vector' = [l \in Lines |-> "old"]
    /\ UNCHANGED <<world, index, config, detector, stopwatch, pic, pit, ym, time, history>>

\* Mutant of Remask: the mask that was saved is forgotten.
RemaskNothing == SetMask("remask", "decide", masked) /\ UNCHANGED index

Remask == SetMask("remask", "decide", g_pic_old_mask) /\ UNCHANGED index

\* Mutant of MeasuredClock: the boundary is off by one.
MeasuredClockLate == IF stopwatch.count_at_overflow <= Threshold THEN 1 ELSE 0

MeasuredClock == IF stopwatch.count_at_overflow < Threshold THEN 1 ELSE 0

\* saaym_detect: IRQ and clock are taken when a line was sensed; else an IRQ of
\* the environment stays.
Decide ==
    /\ Goto("decide", "detected")
    /\ config' = IF stopwatch.interrupt_number = 0 THEN config
                 ELSE [config EXCEPT !.irq_number = stopwatch.interrupt_number,
                                     !.ym2151_clock = MeasuredClock]
    /\ UNCHANGED <<world, index, detector, stopwatch, vector, pic, pit, ym, time, history>>

Detect ==
    \/ ReadParameter \/ ReadEnvironment \/ Probe \/ Initialize \/ Identify \/ Identified
    \/ Accept \/ Install \/ Unmask \/ Sample \/ ClearTriggered \/ Trigger \/ Await \/ Sense \/ TakeVector
    \/ StartWatch \/ StopWatch \/ Uninstall \/ Remask \/ Decide

-----------------------------------------------------------------------------
\* Entry of the handler a line has.  Its end of interrupt is its last act.
Enter(l, handler) ==
    /\ Due(l) /\ vector[l] = handler
    /\ UNCHANGED <<control, vector, in_service, masked, pit, time, history>>

OldHandler(l) ==
    /\ Enter(l, "old") /\ request' = request \ {l}
    /\ UNCHANGED <<detector, stopwatch, ym>>

\* irq_2_detect_handler and its like
DetectHandler(l) ==
    /\ Enter(l, "detect") /\ request' = request \ {l}
    /\ triggered' = triggered \cup {l}
    /\ UNCHANGED <<spurious, g_pic_old_mask, stopwatch, ym>>

\* saaym_ym2151_timer_handler; it does not ask whether Timer B has overflowed.
ClockHandler(l) ==
    /\ Enter(l, "clock")
    /\ IF stopwatch.state = "wait"
       THEN /\ stopwatch' = [stopwatch EXCEPT !.state = "overflowed",
                                              !.count_at_overflow = stopwatch.counter]
            /\ EnableTimerB(FALSE) /\ request' = (request \ {l}) \ Lowered
       ELSE request' = request \ {l} /\ UNCHANGED <<stopwatch, timer_a, flag_a, timer_b, flag_b>>
    /\ UNCHANGED <<detector, clkb>>

\* The time Timer B takes, when the stopwatch measures it.
Period ==
    IF pit # "stopwatch" \/ clkb # 0 THEN 0
    ELSE IF machine.fast THEN FastPeriod ELSE SlowPeriod

\* A tick of the PIT comes before the overflow or after it; at most one comes
\* between the overflow and its handler.
TickPasses ==
    /\ pit = "stopwatch"
    /\ timer_b /\ ~flag_b => elapsed < Period
    /\ timer_b /\ flag_b /\ Card \in request => elapsed <= Period
    /\ elapsed' = IF timer_b /\ elapsed <= Period THEN elapsed + 1 ELSE elapsed

\* saaym_stopwatch_handler, called by the handler of IRQ 0.  Ticks after the
\* limit change nothing and are cut.
Tick ==
    /\ pit = "stopwatch" /\ stopwatch.ticks <= Limit
    /\ IF stopwatch.state = "start"
       THEN /\ stopwatch' = [stopwatch EXCEPT !.state = "wait", !.counter = 0, !.ticks = @ + 1]
            /\ EnableTimerB(TRUE) /\ request' = request \ Lowered /\ elapsed' = 0
       ELSE /\ stopwatch' = [stopwatch EXCEPT !.ticks = @ + 1,
                                 !.counter = @ + (IF stopwatch.state = "wait" THEN 1 ELSE 0)]
            /\ TickPasses
            /\ UNCHANGED <<request, timer_a, flag_a, timer_b, flag_b>>
    /\ UNCHANGED <<control, detector, vector, in_service, masked, pit, clkb, lost, history>>

-----------------------------------------------------------------------------
Device == UNCHANGED <<control, detector, stopwatch, vector, in_service, masked, pit, timer_a,
                      timer_b, clkb>>

\* Someone keeps interrupts disabled for longer than a tick.
TickIsLost ==
    /\ lost < LostTicks /\ lost' = lost + 1
    /\ stopwatch.state = "wait" /\ TickPasses
    /\ Device /\ UNCHANGED <<request, flag_a, flag_b, history>>

\* The line rises, and the PIC sees its edge, with the first flag.
Raised == IF flag_a \/ flag_b THEN {} ELSE {Card} \cap Lines

TimerAOverflows ==
    /\ timer_a /\ ~flag_a /\ flag_a' = TRUE
    /\ request' = request \cup Raised
    /\ Device /\ UNCHANGED <<flag_b, time, history>>

TimerBOverflows ==
    /\ timer_b /\ ~flag_b /\ flag_b' = TRUE
    /\ elapsed >= Period
    /\ request' = request \cup Raised
    /\ Device /\ UNCHANGED <<flag_a, time, history>>

\* The lines whose spurious flag is set for good.
Sampled == {l \in Lines :
    CASE pc \in {"environment", "probe", "initialize", "identify", "status", "accept",
                 "install", "unmask"} -> FALSE
      [] pc = "sample" -> l < index
      [] pc = "clear" -> l <= index
      [] OTHER -> TRUE}

ForeignInterrupt(l) ==
    /\ l \in machine.noisy \ request /\ request' = request \cup {l}
    /\ noise' = IF l \in Sampled THEN noise \cup {l} ELSE noise
    /\ early' = IF l \notin Sampled /\ (l \in masked \/ vector[l] = "detect")
                THEN early \cup {l} ELSE early
    /\ Device /\ UNCHANGED <<flag_a, flag_b, time>>

Interrupts == \E l \in Lines : OldHandler(l) \/ DetectHandler(l) \/ ClockHandler(l)

Hardware ==
    \/ TickIsLost \/ TimerAOverflows \/ TimerBOverflows
    \/ \E l \in Lines : ForeignInterrupt(l)

=============================================================================
