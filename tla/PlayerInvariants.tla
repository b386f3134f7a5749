-------------------------- MODULE PlayerInvariants --------------------------
(***************************************************************************)
(* The inductive invariant behind the safety properties of Player, in      *)
(* parts that are named for what they are about: the places where main     *)
(* stands decide which handlers and masks there are, what the detection    *)
(* has seen on the lines, what Timer B and the stopwatch are doing, and    *)
(* what the settings have to do with the card.                             *)
(***************************************************************************)
EXTENDS Player

-----------------------------------------------------------------------------
(***************************************************************************)
(* Places of main.                                                         *)
(***************************************************************************)

\* The search for the base; the detection handlers are there; all lines are
\* unmasked; the line that was sensed has the clock handler.
Searching == {"environment", "probe", "initialize", "identify", "status", "accept"}
Hooked    == {"unmask", "sample", "clear", "trigger", "await", "sense", "take",
              "start_watch", "watch", "uninstall"}
Unmasked  == (Hooked \ {"unmask"}) \cup {"remask"}
Clocked   == {"start_watch", "watch", "uninstall"}
Detecting == Searching \cup Hooked \cup {"install", "remask", "decide"}

\* Before timer_start; timer_start and timer_stop on Timer B; the playing; the end.
Preparing == {"detected", "load", "zsm_initialize", "chips", "timer_start"}
Starting  == {"timer_unmask", "timer_rate", "timer_enable"}
Playback  == {"zsm_start", "playing"}
Stopping  == {"timer_wait", "timer_vector"}
Ending    == {"terminate", "free", "exit"}
Timed     == Starting \cup Playback \cup Stopping

sensed == stopwatch.interrupt_number

-----------------------------------------------------------------------------
(***************************************************************************)
(* Types, by what a step changes together.                                 *)
(***************************************************************************)
Senses == Lines \cup {0}
States == {"start", "wait", "overflowed"}
Counts == 0 .. Limit + 1
Stopwatches ==
    [state : States, counter : Counts, ticks : Counts, count_at_overflow : Counts,
     interrupt_number : Senses]

ControlTyped ==
    /\ machine \in Machines /\ environment \in Environments /\ config \in Configs
    /\ pc \in Detecting \cup Preparing \cup Timed \cup Ending
    /\ pc \in Starting \cup Stopping => UsesTimerB

IndexTyped ==
    /\ pc = "environment" => index \in 1 .. Len(environment) + 1
    /\ pc \in Searching \ {"environment"} => index \in BaseStart .. BaseEnd
    /\ pc \in {"sample", "clear", "trigger", "await", "sense"} => index \in Lines
    /\ index \in Lines \cup (1 .. Len(environment) + 1) \cup (BaseStart .. BaseEnd + 16)

DetectorTyped ==
    /\ triggered \subseteq Lines /\ spurious \subseteq Lines /\ g_pic_old_mask \subseteq Lines
    /\ stopwatch \in Stopwatches
    /\ stopwatch.counter <= stopwatch.ticks
    /\ early \subseteq Lines /\ noise \subseteq Lines

HandlersTyped ==
    /\ vector \in [Lines -> {"old", "detect", "clock", "timer"}]
    /\ request \subseteq Lines /\ in_service \subseteq Lines /\ masked \subseteq Lines
    /\ pit \in {"bios", "stopwatch", "player"}

TimersTyped ==
    /\ clkb \in Bytes
    /\ timer_a \in BOOLEAN /\ flag_a \in BOOLEAN /\ timer_b \in BOOLEAN /\ flag_b \in BOOLEAN
    /\ elapsed \in 0 .. SlowPeriod + 1 /\ lost \in 0 .. LostTicks

FileTyped ==
    /\ loaded \in BOOLEAN /\ tick_rate \in TickRates \cup {0}
    /\ pc \in {"chips", "timer_start"} \cup Timed => tick_rate \in TickRates

PlayingTyped ==
    /\ g_play_stream \in BOOLEAN /\ g_p_timer_callback \in BOOLEAN /\ sounding \in BOOLEAN
    /\ g_timer_b_stop_requested \in BOOLEAN /\ g_timer_b_stop_acknowledged \in BOOLEAN
    /\ pressed \in 0 .. machine.keys /\ keys \in Seq({"esc", "other"}) /\ Len(keys) <= pressed

TypeInv ==
    /\ ControlTyped /\ IndexTyped /\ DetectorTyped
    /\ HandlersTyped /\ TimersTyped /\ FileTyped /\ PlayingTyped

-----------------------------------------------------------------------------
(***************************************************************************)
(* Vectors, masks and the PIT are what the place of main says.             *)
(***************************************************************************)
HandlerOf(l) ==
    IF pc \in Clocked /\ l = sensed THEN "clock"
    ELSE IF pc \in Hooked THEN "detect"
    ELSE IF pc \in Timed /\ l = Irq THEN "timer"
    ELSE "old"

MaskThere ==
    IF pc \in Unmasked THEN {}
    ELSE IF pc \in (Timed \ {"timer_unmask", "timer_vector"}) THEN Found \ {Irq}
    ELSE IF pc = "timer_vector" \/ (pc \in Ending /\ g_timer_b_stop_requested) THEN Found \cup {Irq}
    ELSE Found

PitOwner ==
    IF pc = "watch" THEN "stopwatch"
    ELSE IF pc \in Playback /\ Irq = 0 THEN "player"
    ELSE "bios"

\* The mask is saved; no line waits for its end of interrupt; none was sensed yet.
MaskSaved     == pc \in Detecting \ Searching => g_pic_old_mask = Found
NothingServed == pc \in Detecting \cup Preparing => in_service = {}
NothingSensed ==
    pc \in Searching \cup {"install", "unmask", "sample", "clear", "trigger", "await", "sense"}
        => sensed = 0

HardwareInv ==
    /\ \A l \in Lines : vector[l] = HandlerOf(l)
    /\ masked = MaskThere
    /\ pit = PitOwner
    /\ MaskSaved /\ NothingServed /\ NothingSensed

(***************************************************************************)
(* The timer while and after a file is played.                             *)
(***************************************************************************)
TimerInv ==
    /\ g_p_timer_callback <=>
           pc \in Starting \cup Stopping \/ (pc \in Playback /\ (UsesTimerB \/ Irq = 0))
    /\ g_timer_b_stop_requested => UsesTimerB /\ pc \in Stopping \cup Ending
    /\ pc \in Stopping => g_timer_b_stop_requested
    /\ g_timer_b_stop_acknowledged => g_timer_b_stop_requested /\ ~timer_b
    /\ pc \in {"timer_vector"} \cup Ending /\ g_timer_b_stop_requested =>
           g_timer_b_stop_acknowledged
    /\ pc \in Detecting \cup Preparing \cup {"free", "exit"} => ~sounding

-----------------------------------------------------------------------------
(***************************************************************************)
(* The card that is found, and its YM2151.                                 *)
(***************************************************************************)
CardInv ==
    /\ pc \in {"status", "accept"} => index = machine.base
    /\ pc \in Detecting \ Searching => config.base_io_port = machine.base
    /\ pc \in {"take", "start_watch", "watch"} => sensed \in Lines
    /\ sensed # 0 => pc \notin Searching /\ config.base_io_port = machine.base

\* Timer A only runs while the YM2151 is identified, Timer B while the IRQ or the
\* clock is sought.
YmInv ==
    /\ pc = "identify" /\ index = machine.base => ~timer_b
    /\ pc = "status" => ~timer_b /\ ~flag_b
    /\ pc \in {"accept"} \cup (Detecting \ Searching) => ~timer_a /\ ~flag_a
    /\ pc \in {"accept", "install", "unmask", "sample", "clear", "trigger", "sense", "take",
               "start_watch"} => ~timer_b /\ ~flag_b
    /\ pc = "await" => timer_b

-----------------------------------------------------------------------------
(***************************************************************************)
(* What was seen on the lines, before they were sampled and after it.      *)
(***************************************************************************)

\* Another device's interrupt of before the sampling is still there to be sampled
\* or has been; what triggers after it is noise.
OtherInv(l) ==
    /\ l \in early /\ pc \in Searching \cup {"install"} => l \in request /\ l \in masked
    /\ l \in early /\ l \notin Sampled => l \in request \cup triggered
    /\ l \in early /\ l \in Sampled /\ pc \in Detecting => l \in spurious
    /\ l \in request /\ l \in Sampled /\ pc \in Detecting => l \in noise
    /\ l \in triggered /\ l \in Sampled /\ pc \in Detecting /\ ~(pc = "clear" /\ l = index) =>
           l \in noise

OthersInv == \A l \in Lines \ {Card} : OtherInv(l)

\* The card's own line is quiet until Timer B is triggered: it is only taken for
\* spurious if another device was on it before.
OwnLineInv ==
    /\ pc \in Searching \cup {"install"} => triggered = {}
    /\ Card \in early /\ pc \in Searching \cup {"install"} => Card \in masked
    /\ Card \in request /\ pc \in {"accept", "install"} => Card \in early \/ Card \notin masked
    /\ Card \in request \cup triggered /\ pc \in {"unmask", "sample", "clear"}
           /\ Card \notin Sampled => Card \in early
    /\ Card \in spurious /\ Card \in Sampled /\ pc \in Detecting => Card \in early

\* Then it triggers, and irq_sense does not pass it by.
OwnTriggerInv ==
    /\ pc \in {"trigger", "await"} => index = First
    /\ pc = "await" /\ Card \in Lines /\ flag_b => Card \in request \cup triggered
    /\ pc = "sense" /\ Card \in Lines => Card \in triggered
    /\ pc = "sense" /\ noise = {} /\ Card \in Lines /\ Card \notin early => index <= Card

\* What irq_sense has made of it.
SensedInv ==
    /\ sensed # 0 => sensed = Card \/ sensed \in noise \ early
    /\ pc \in {"take", "start_watch", "watch", "uninstall", "remask", "decide"}
           /\ noise = {} /\ Card \notin early => sensed = Card

-----------------------------------------------------------------------------
(***************************************************************************)
(* The stopwatch and Timer B.                                              *)
(***************************************************************************)
Longest == IF machine.fast THEN FastPeriod ELSE SlowPeriod

\* Before Timer B is started nothing has been counted.
WatchIdle ==
    stopwatch.counter = 0 /\ stopwatch.ticks = 0 /\ lost = 0 /\ ~timer_b /\ ~flag_b

\* While it runs the ticks that were counted and those that were lost are the time
\* that has passed; the line of the card is up as soon as it has overflowed.
WatchRuns ==
    /\ timer_b /\ (flag_b <=> Card \in request)
    /\ flag_b => Longest <= elapsed
    /\ elapsed <= Longest + 1
    /\ elapsed = stopwatch.counter + lost /\ stopwatch.ticks = stopwatch.counter + 1

\* When it has overflowed the count is that of its period.
WatchOver ==
    /\ ~timer_b /\ ~flag_b
    /\ Longest - LostTicks <= stopwatch.count_at_overflow
    /\ stopwatch.count_at_overflow <= Longest + 1

WatchInv ==
    /\ pc \in (Detecting \ {"watch", "uninstall", "remask", "decide"}) =>
           stopwatch.state = "start" /\ stopwatch.counter = 0 /\ stopwatch.ticks = 0 /\ lost = 0
    /\ pc = "watch" => clkb = 0
    /\ pc = "watch" /\ stopwatch.state = "start" => WatchIdle
    /\ pc = "watch" /\ stopwatch.state = "wait" /\ sensed \notin noise => WatchRuns
    /\ pc = "watch" /\ stopwatch.state = "overflowed" /\ sensed \notin noise => WatchOver
    /\ pc \in {"uninstall", "remask", "decide", "detected"} /\ sensed # 0 /\ sensed \notin noise =>
           stopwatch.state = "overflowed" /\ WatchOver

-----------------------------------------------------------------------------
(***************************************************************************)
(* The settings that are played with.                                      *)
(***************************************************************************)
SettingsInv ==
    /\ pc \notin Detecting /\ sensed # 0 => config.irq_number = sensed
    /\ pc \notin Detecting /\ sensed # 0 /\ sensed \notin noise =>
           config.ym2151_clock = IF machine.fast THEN 1 ELSE 0
    /\ pc \in {"timer_enable"} \cup Playback /\ UsesTimerB /\ OnCard => clkb = RateValue(tick_rate)

PlayerInv ==
    /\ TypeInv /\ HardwareInv /\ TimerInv /\ CardInv /\ YmInv
    /\ OthersInv /\ OwnLineInv /\ OwnTriggerInv /\ SensedInv /\ WatchInv /\ SettingsInv

=============================================================================
