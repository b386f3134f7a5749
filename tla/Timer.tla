------------------------------- MODULE Timer -------------------------------
(***************************************************************************)
(* source/timer.c with the part of play_zsm (source/main.c) that drives it *)
(* and the hardware under it.  The main program starts the timer, waits    *)
(* for the end of the stream and stops the timer; the interrupt handler    *)
(* calls zsm_update, acknowledges the interrupt and, when the YM2151 is    *)
(* the timer, starts Timer B again; the two timers run all the while.      *)
(*                                                                         *)
(* A handler runs with interrupts disabled, so it is never interrupted and *)
(* main stands still under it; the hardware does not.  The IRQ of play_zsm *)
(* is the only line looked at.  Of zsm_update there is left that it writes *)
(* to the YM2151 while the stream plays and that it ends the stream.       *)
(*                                                                         *)
(* External, modelled from its use: the PIC (one request, in-service and   *)
(* mask bit), PIT channel 0, Timer B of the YM2151, and the old handler,   *)
(* which acknowledges its interrupt and returns with interrupts disabled.  *)
(***************************************************************************)
EXTENDS Integers

CONSTANTS
    IrqNumbers,     \* values of saaym_config_t.irq_number
    Rates,          \* tick rates of the file, in Hz
    Word,           \* 2^32: the range of the counters
    WaitSpins,      \* 255: how long timer_stop waits after the acknowledgement
    SharedIrqs,     \* the lines on which another device interrupts too
    MaxGiven        \* bound: how many BIOS ticks the history of the clock sees

TimerBIrqs      == {2, 3, 5, 7}
FIXED_POINT_ONE == 256

\* What timer_setup_pit_channel_0 makes of a rate: the count of the PIT, and
\* the IRQ0s per BIOS tick in units of 1 / FIXED_POINT_ONE.  Both are cut.
PitCounter(rate)     == (1193181 \div rate) % 65536
InterruptTotal(rate) == (rate * 14065) \div 1000

\* The count 0 of timer_restore_pit_channel_0, the BIOS's own: a tick's length.
BiosPeriod == 65536

ASSUME TimerAssumption ==
    /\ IrqNumbers \subseteq Nat
    /\ SharedIrqs \subseteq IrqNumbers
    /\ Word \in Nat \ {0}
    /\ WaitSpins \in Nat
    /\ MaxGiven \in Nat \ {0}

\* A uint16_t, whose counts fit in the counters with an IRQ0 more.
ASSUME RatesAssumption ==
    \A r \in Rates :
        /\ r \in Nat /\ r <= 65535
        /\ InterruptTotal(r) + FIXED_POINT_ONE < Word

VARIABLES
    irq_number, rate_in_hertz,      \* config: the IRQ; the rate of the file
    pc,                             \* the statement main executes next
    wait_delay,
    g_play_stream,                  \* zsm.c: the stream is playing
    g_p_timer_callback,             \* it is not NULL
    g_interrupt_counter,
    g_interrupt_total,
    g_timer_b_stop_requested,
    g_timer_b_stop_acknowledged,
    handler,                        \* where the interrupt handler is
    vector,                         \* whose handler the vector names
    request, in_service, masked,    \* PIC: the bits of the line
    pit,                            \* PIT: "bios" is 18.2 Hz, "fast" the tick rate
    timer_b,                        \* YM2151: Timer B runs with its IRQ enabled
    flag,                           \* YM2151: Timer B has overflowed
    latch,                          \* YM2151: who has sent an address, not yet its data
    owed,                           \* history: PIT clocks passed less those of the ticks
                                    \*   the BIOS was given
    given,                          \* history: BIOS ticks given while the PIT was fast
    late                            \* history: the last overflow came in a Tight moment

config   == <<irq_number, rate_in_hertz>>
main     == <<pc, wait_delay>>
counters == <<g_interrupt_counter, g_interrupt_total>>
stopping == <<g_timer_b_stop_requested, g_timer_b_stop_acknowledged>>
statics  == <<g_p_timer_callback, counters, stopping>>
pic      == <<request, in_service, masked>>
ym       == <<timer_b, flag, latch>>
clock    == <<pit, owed, given, late>>
machine  == <<vector, pic, ym, clock>>
vars     == <<config, main, g_play_stream, statics, handler, machine>>

UsesTimerB == irq_number \in TimerBIrqs
Supported  == irq_number = 0 \/ UsesTimerB
SharedLine == irq_number \in SharedIrqs
Fast       == rate_in_hertz > 18

\* The mask is as it was found, and Timer B as an earlier program has left it:
\* running, or with an overflow that may wait in the PIC.
Init ==
    /\ irq_number \in IrqNumbers /\ rate_in_hertz \in Rates
    /\ pc = "clear_address" /\ wait_delay = 0
    /\ g_play_stream = FALSE
    /\ g_p_timer_callback = FALSE
    /\ g_interrupt_counter = 0 /\ g_interrupt_total = 0
    /\ g_timer_b_stop_requested = FALSE /\ g_timer_b_stop_acknowledged = FALSE
    /\ handler = "none" /\ vector = "old"
    /\ pit = "bios" /\ owed = 0 /\ given = 0 /\ late = FALSE
    /\ masked \in BOOLEAN /\ (irq_number = 0 => ~masked)
    /\ timer_b \in BOOLEAN /\ flag \in BOOLEAN /\ (timer_b => UsesTimerB)
    /\ request \in BOOLEAN /\ (request => UsesTimerB /\ flag)
    /\ in_service = FALSE /\ latch = "none"

\* The PIC interrupts the processor.
Pending == request /\ ~masked /\ ~in_service

\* PIT clocks from one IRQ0 to the next; the clock is looked at on IRQ0 only.
Period ==
    IF irq_number # 0 THEN 0
    ELSE IF pit = "fast" THEN PitCounter(rate_in_hertz) ELSE BiosPeriod

\* The history of the clock: PIT clocks have passed, and the BIOS gets ticks.
Keep(passed, ticks) ==
    IF given < MaxGiven
    THEN /\ owed' = owed + passed - (BiosPeriod * ticks)
         /\ given' = given + (IF pit = "fast" THEN ticks ELSE 0)
    ELSE UNCHANGED <<owed, given>>

(***************************************************************************)
(* The main program.  It moves from one statement to the next when no      *)
(* handler runs and none is due; a _disable() ... _enable() section is one *)
(* statement.                                                              *)
(***************************************************************************)
Goto(from, to) ==
    /\ handler = "none" /\ ~Pending
    /\ pc = from /\ pc' = to
    /\ UNCHANGED <<config, handler>>

\* ym2151_write(): the address, then the data.
Address(from, to) ==
    /\ Goto(from, to)
    /\ latch' = "main"
    /\ UNCHANGED <<wait_delay, g_play_stream, statics, vector, pic, timer_b, flag, clock>>

Data(from, to, timer_b_after, flag_after) ==
    /\ Goto(from, to)
    /\ latch' = "none" /\ timer_b' = timer_b_after /\ flag' = flag_after
    /\ UNCHANGED <<wait_delay, g_play_stream, statics, vector, pic, clock>>

\* ym2151_initialize: the zero for register 0x14 stops Timer B, its flag stays.
ClearYm ==
    \/ Address("clear_address", "clear_data")
    \/ Data("clear_data", "callback", FALSE, flag)

\* timer_start, the assignments.  An unknown IRQ number is refused, and main
\* does not look at the result.
SetCallback ==
    /\ Goto("callback", IF Supported THEN "vector" ELSE "start")
    /\ g_p_timer_callback' = Supported
    /\ UNCHANGED <<wait_delay, g_play_stream, counters, stopping, machine>>

\* timer_start: _dos_setvect
TakeVector ==
    /\ Goto("vector", IF UsesTimerB THEN "unmask" ELSE IF Fast THEN "total" ELSE "program")
    /\ vector' = "timer"
    /\ UNCHANGED <<wait_delay, g_play_stream, statics, pic, ym, clock>>

\* timer_setup_pit_channel_0: g_interrupt_total = ...
SetTotal ==
    /\ Goto("total", "counter")
    /\ g_interrupt_total' = InterruptTotal(rate_in_hertz)
    /\ UNCHANGED <<wait_delay, g_play_stream, g_p_timer_callback, g_interrupt_counter,
                   stopping, machine>>

\* timer_setup_pit_channel_0: g_interrupt_counter = g_interrupt_total
SetCounter ==
    /\ Goto("counter", "program")
    /\ g_interrupt_counter' = g_interrupt_total
    /\ UNCHANGED <<wait_delay, g_play_stream, g_p_timer_callback, g_interrupt_total,
                   stopping, machine>>

\* timer_setup_pit_channel_0 or timer_restore_pit_channel_0: the ports.  The
\* PIT starts a new period; what had run of the old one, at least nothing and
\* at most all but one clock, brings no IRQ0.
SetPit(from, to, speed) ==
    /\ Goto(from, to)
    /\ pit' = speed
    /\ \E lost \in {0, Period - 1} : Keep(lost, 0)
    /\ UNCHANGED <<wait_delay, g_play_stream, statics, vector, pic, ym, late>>

ProgramPit == SetPit("program", "start", IF Fast THEN "fast" ELSE "bios")

\* irq_clear_mask and irq_set_mask
SetMask(from, to, mask) ==
    /\ Goto(from, to)
    /\ masked' = mask
    /\ UNCHANGED <<wait_delay, g_play_stream, statics, vector, request, in_service, ym, clock>>

Unmask == SetMask("unmask", "rate_address", FALSE)

\* ym2151_set_timer_b_hz, then ym2151_enable_timer_b(true).
StartTimerB ==
    \/ Address("rate_address", "rate_data")
    \/ Data("rate_data", "enable_address", timer_b, flag)
    \/ Address("enable_address", "enable_data")
    \/ Data("enable_data", "start", TRUE, FALSE)

\* zsm_start
StartStream ==
    /\ Goto("start", "playing")
    /\ g_play_stream' = TRUE
    /\ UNCHANGED <<wait_delay, statics, machine>>

\* The loop of play_zsm: ESC stops the stream ...
Escape ==
    /\ Goto("playing", "playing")
    /\ g_play_stream /\ g_play_stream' = FALSE
    /\ UNCHANGED <<wait_delay, statics, machine>>

\* Mutant of LeaveLoop: timer_stop is left out.
LeaveLoopRunning ==
    /\ ~g_play_stream /\ Goto("playing", "silence_address")
    /\ UNCHANGED <<wait_delay, g_play_stream, statics, machine>>

\* ... and the loop is left when the stream has stopped.  timer_stop does
\* nothing without a callback.
LeaveLoop ==
    /\ ~g_play_stream
    /\ Goto("playing", IF ~g_p_timer_callback THEN "silence_address"
                       ELSE IF UsesTimerB THEN "request" ELSE "restore_pit")
    /\ UNCHANGED <<wait_delay, g_play_stream, statics, machine>>

RestorePit == SetPit("restore_pit", "restore_vector", "bios")

\* timer_stop: g_timer_b_stop_requested = true
RequestStop ==
    /\ Goto("request", "wait")
    /\ g_timer_b_stop_requested' = TRUE
    /\ UNCHANGED <<wait_delay, g_play_stream, g_p_timer_callback, counters,
                   g_timer_b_stop_acknowledged, machine>>

\* Mutant of Wait: one round too many.
WaitLonger ==
    /\ g_timer_b_stop_acknowledged
    /\ Goto("wait", IF wait_delay <= WaitSpins THEN "wait" ELSE "mask")
    /\ wait_delay' = wait_delay + 1
    /\ UNCHANGED <<g_play_stream, statics, machine>>

\* timer_stop's loop; before the acknowledgement it goes round unchanged.
Wait ==
    /\ g_timer_b_stop_acknowledged
    /\ Goto("wait", IF wait_delay < WaitSpins THEN "wait" ELSE "mask")
    /\ wait_delay' = wait_delay + 1
    /\ UNCHANGED <<g_play_stream, statics, machine>>

Mask == SetMask("mask", "restore_vector", TRUE)

\* timer_stop: _dos_setvect
RestoreVector ==
    /\ Goto("restore_vector", "forget")
    /\ vector' = "old"
    /\ UNCHANGED <<wait_delay, g_play_stream, statics, pic, ym, clock>>

\* timer_stop: g_p_timer_callback = NULL
ForgetCallback ==
    /\ Goto("forget", "silence_address")
    /\ g_p_timer_callback' = FALSE
    /\ UNCHANGED <<wait_delay, g_play_stream, counters, stopping, machine>>

\* ym2151_terminate, one of its writes.
Silence ==
    \/ Address("silence_address", "silence_data")
    \/ Data("silence_data", "done", timer_b, flag)

Main ==
    \/ ClearYm \/ SetCallback \/ TakeVector \/ SetTotal \/ SetCounter \/ ProgramPit
    \/ Unmask \/ StartTimerB \/ StartStream \/ LeaveLoop \/ RestorePit \/ RequestStop
    \/ Wait \/ Mask \/ RestoreVector \/ ForgetCallback \/ Silence

(***************************************************************************)
(* The interrupt handlers: timer_irq_0_handler, and timer_irq_2_handler    *)
(* and timer_irq_357_handler, which differ in the second PIC only.         *)
(***************************************************************************)
Inside(from, to) ==
    /\ handler = from /\ handler' = to
    /\ UNCHANGED <<config, main>>

\* The vector still names, or names again, the old handler.
OldHandler ==
    /\ Inside("none", "none")
    /\ Pending /\ request' = FALSE /\ vector = "old"
    /\ Keep(Period, IF irq_number = 0 THEN 1 ELSE 0)
    /\ UNCHANGED <<g_play_stream, statics, vector, in_service, masked, ym, pit, late>>

\* Entry.  The YM2151 handler returns at once, without an end of interrupt,
\* when it finds no overflow of Timer B.
Enter ==
    /\ Inside("none", IF g_p_timer_callback /\ (UsesTimerB => flag) THEN "callback"
                      ELSE IF UsesTimerB THEN "none" ELSE "account")
    /\ Pending /\ request' = FALSE /\ vector = "timer"
    /\ in_service' = TRUE
    /\ Keep(Period, 0)
    /\ UNCHANGED <<g_play_stream, statics, vector, masked, ym, pit, late>>

\* An address or a datum for the YM2151.
Sends(from, to, latch_after, timer_b_after, flag_after) ==
    /\ Inside(from, to)
    /\ latch' = latch_after /\ timer_b' = timer_b_after /\ flag' = flag_after
    /\ UNCHANGED <<g_play_stream, statics, vector, pic, clock>>

\* zsm_update writes to the YM2151 ...
CallbackWrites ==
    \/ g_play_stream /\ Sends("callback", "callback_data", "handler", timer_b, flag)
    \/ Sends("callback_data", "callback_end", "none", timer_b, flag)

\* ... and returns, with the stream going on or at its end.
CallbackReturns ==
    /\ \E from \in {"callback", "callback_end"} :
           Inside(from, IF UsesTimerB THEN "eoi" ELSE "account")
    /\ g_play_stream' \in {FALSE, g_play_stream}
    /\ UNCHANGED <<statics, machine>>

\* Mutants of Account: the counter starts again from zero, or the end of
\* interrupt is left to the old handler alone.
AccountLosing ==
    /\ Inside("account", "none")
    /\ in_service' = FALSE
    /\ LET chain == g_interrupt_counter >= g_interrupt_total
       IN  /\ g_interrupt_counter' =
                  ((IF chain THEN 0 ELSE g_interrupt_counter) + FIXED_POINT_ONE) % Word
           /\ Keep(0, IF chain THEN 1 ELSE 0)
    /\ UNCHANGED <<g_play_stream, g_p_timer_callback, g_interrupt_total, stopping,
                   vector, request, masked, ym, pit, late>>

AccountMute ==
    /\ Inside("account", "none")
    /\ in_service' = (g_interrupt_counter < g_interrupt_total)
    /\ LET chain == g_interrupt_counter >= g_interrupt_total
       IN  /\ g_interrupt_counter' =
                  (g_interrupt_counter - (IF chain THEN g_interrupt_total ELSE 0)
                      + FIXED_POINT_ONE) % Word
           /\ Keep(0, IF chain THEN 1 ELSE 0)
    /\ UNCHANGED <<g_play_stream, g_p_timer_callback, g_interrupt_total, stopping,
                   vector, request, masked, ym, pit, late>>

\* timer_irq_0_handler: a BIOS tick through the old handler, which sends the
\* end of interrupt, or an end of interrupt; then the tick is counted.
Account ==
    /\ Inside("account", "none")
    /\ in_service' = FALSE
    /\ LET chain == g_interrupt_counter >= g_interrupt_total
       IN  /\ g_interrupt_counter' =
                  (g_interrupt_counter - (IF chain THEN g_interrupt_total ELSE 0)
                      + FIXED_POINT_ONE) % Word
           /\ Keep(0, IF chain THEN 1 ELSE 0)
    /\ UNCHANGED <<g_play_stream, g_p_timer_callback, g_interrupt_total, stopping,
                   vector, request, masked, ym, pit, late>>

\* The YM2151 handlers: the end of interrupt ...
SendEoi ==
    /\ Inside("eoi", "reload_address")
    /\ in_service' = FALSE
    /\ UNCHANGED <<g_play_stream, statics, vector, request, masked, ym, clock>>

\* Mutants of Reload: the overflow is not cleared, or the stop is not looked at.
ReloadUncleared ==
    \/ Sends("reload_address", "reload_data", "handler", timer_b, flag)
    \/ Sends("reload_data", "acknowledge", "none", ~g_timer_b_stop_requested, flag)

ReloadAlways ==
    \/ Sends("reload_address", "reload_data", "handler", timer_b, flag)
    \/ Sends("reload_data", "acknowledge", "none", TRUE, FALSE)

\* ... ym2151_enable_timer_b(!g_timer_b_stop_requested) ...
Reload ==
    \/ Sends("reload_address", "reload_data", "handler", timer_b, flag)
    \/ Sends("reload_data", "acknowledge", "none", ~g_timer_b_stop_requested, FALSE)

\* Mutant of Acknowledge: the answer never comes.
AcknowledgeNever ==
    /\ Inside("acknowledge", "none")
    /\ UNCHANGED <<g_play_stream, statics, machine>>

\* ... and the answer to timer_stop.
Acknowledge ==
    /\ Inside("acknowledge", "none")
    /\ g_timer_b_stop_acknowledged' = g_timer_b_stop_requested
    /\ UNCHANGED <<g_play_stream, g_p_timer_callback, counters, g_timer_b_stop_requested,
                   machine>>

Handler ==
    \/ OldHandler \/ Enter \/ CallbackWrites \/ CallbackReturns \/ Account
    \/ SendEoi \/ Reload \/ Acknowledge

(***************************************************************************)
(* The hardware.                                                           *)
(***************************************************************************)
Device == UNCHANGED <<config, main, g_play_stream, statics, handler, vector, in_service,
                      masked, timer_b, latch, pit, owed, given>>

\* Handlers, and main's statements between the vector and the rate of the PIT,
\* take less than a period of the timer: at most one overflow in a row comes
\* while they run, and no tick of the PIT finds the last one waiting.
Tight ==
    \/ handler # "none" \/ Pending
    \/ pc \in {"total", "counter", "program", "restore_vector"}

InTime ==
    /\ Tight => ~late
    /\ late' = Tight

PitTick ==
    /\ irq_number = 0 /\ ~request
    /\ request' = TRUE
    /\ InTime
    /\ Device /\ UNCHANGED flag

\* Between the unmasking and the end of timer_start Timer B runs only if an old
\* overflow has called the handler, which starts it with the longest period.
TooEarly == pc \in {"rate_address", "rate_data", "enable_address", "enable_data"}

\* The line goes up, and the PIC sees its edge, when the flag is first set.
TimerBOverflows ==
    /\ timer_b /\ ~TooEarly
    /\ flag' = TRUE
    /\ request' = (request \/ ~flag)
    /\ InTime
    /\ Device

OtherDevice ==
    /\ SharedLine /\ UsesTimerB
    /\ request' = TRUE
    /\ Device /\ UNCHANGED <<flag, late>>

Next == Main \/ Escape \/ Handler \/ PitTick \/ TimerBOverflows \/ OtherDevice

\* The handlers run on, a timer that runs overflows again, and main gets the
\* processor between two handlers.
Fairness ==
    /\ SF_vars(Main) /\ WF_vars(Handler)
    /\ WF_vars(PitTick) /\ WF_vars(TimerBOverflows)

Spec == Init /\ [][Next]_vars /\ Fairness

-----------------------------------------------------------------------------
(***************************************************************************)
(* Properties.                                                             *)
(***************************************************************************)

MainTypeOK ==
    /\ irq_number \in IrqNumbers /\ rate_in_hertz \in Rates
    /\ pc \in {"clear_address", "clear_data", "callback", "vector", "total", "counter",
               "program", "unmask", "rate_address", "rate_data", "enable_address",
               "enable_data", "start", "playing", "restore_pit", "request", "wait", "mask",
               "restore_vector", "forget", "silence_address", "silence_data", "done"}
    /\ wait_delay \in 0 .. WaitSpins + 1

StaticsTypeOK ==
    /\ g_play_stream \in BOOLEAN /\ g_p_timer_callback \in BOOLEAN
    /\ g_interrupt_counter \in 0 .. Word - 1
    /\ g_interrupt_total \in {0, InterruptTotal(rate_in_hertz)}
    /\ g_timer_b_stop_requested \in BOOLEAN /\ g_timer_b_stop_acknowledged \in BOOLEAN
    /\ handler \in {"none", "callback", "callback_data", "callback_end", "account", "eoi",
                    "reload_address", "reload_data", "acknowledge"}

MachineTypeOK ==
    /\ vector \in {"old", "timer"}
    /\ request \in BOOLEAN /\ in_service \in BOOLEAN /\ masked \in BOOLEAN
    /\ timer_b \in BOOLEAN /\ flag \in BOOLEAN /\ latch \in {"none", "main", "handler"}
    /\ pit \in {"bios", "fast"} /\ owed \in Int /\ given \in 0 .. MaxGiven
    /\ late \in BOOLEAN

TypeOK == MainTypeOK /\ StaticsTypeOK /\ MachineTypeOK

\* Main and the handler write to the YM2151 without a lock, each write an
\* address and a datum.  No write of one falls between the two halves of a
\* write of the other: timer_start touches the YM2151 before its timer runs,
\* and play_zsm after timer_stop has silenced it (ym2151_write and its callers).
PairsStayWhole ==
    [][ ~SharedLine =>
            /\ latch = "main" => latch' # "handler"
            /\ latch = "handler" => latch' # "main" ]_vars

\* Once timer_stop has returned, the callback is never called again, the
\* vector is the one that was found, the BIOS has its clock rate back, and a
\* line of the YM2151 is masked with Timer B stopped.
Stopped == pc \in {"silence_address", "silence_data", "done"}

QuietAfterStop ==
    Stopped /\ Supported =>
        /\ handler = "none" /\ vector = "old" /\ ~g_p_timer_callback
        /\ pit = "bios"
        /\ UsesTimerB => masked /\ ~timer_b

\* An end of interrupt is sent only while the line's own interrupt is in
\* service, so it never ends another one's; and on a line of its own no handler
\* returns without it, which would block the line and all those below it.  On
\* a shared line the handlers of the YM2151 do return so, when Timer B has not
\* overflowed (timer_irq_2_handler, timer_irq_357_handler).
EndsOfInterrupt ==
    /\ handler \in {"account", "eoi"} => in_service
    /\ handler = "none" /\ in_service => SharedLine

\* The clock of the BIOS, driven by the calls of the old handler, is less than
\* five of its ticks away from real time, but for one tick in 256, 0.4 %: the
\* cut PitCounter and InterruptTotal make its ticks too short or too long, and
\* this adds up as the music plays.  Above 4900 Hz, where the PIT counts to
\* less than 244, it may be one tick in 16.  For the rest g_interrupt_counter
\* spreads the calls; starting and stopping the timer may cost a tick each.
Drift == IF rate_in_hertz <= 4900 THEN 1 ELSE 16

Allowed == BiosPeriod * ((5 * FIXED_POINT_ONE) + (Drift * given))

ClockKept == -Allowed <= FIXED_POINT_ONE * owed /\ FIXED_POINT_ONE * owed < Allowed

\* While the stream plays, updates keep coming: no order of overflow, end of
\* interrupt and restart stops Timer B or loses the edge on its line.
KeepsTicking == []<>(handler = "callback" \/ ~g_play_stream \/ ~Supported \/ SharedLine)

\* timer_stop comes back: the YM2151 handler answers the request to stop.
StopReturns == (pc \in {"request", "restore_pit"} /\ ~SharedLine) ~> pc = "done"

(***************************************************************************)
(* The strengthening that makes the safety properties inductive.           *)
(***************************************************************************)
SystemPcs == {"total", "counter", "program", "restore_pit"}
LinePcs   == {"unmask", "rate_address", "rate_data", "enable_address", "enable_data",
              "request", "wait", "mask"}
Installed == SystemPcs \cup LinePcs \cup {"start", "playing", "restore_vector"}
Ticking   == {"start", "playing", "request", "wait"}
BeforeEoi == {"callback", "callback_data", "callback_end", "account", "eoi"}

\* Which statements are reached, and what is installed there.
InstallInv ==
    /\ pc \in SystemPcs => irq_number = 0
    /\ pc \in LinePcs => UsesTimerB
    /\ pc \in {"vector", "restore_vector", "forget"} => Supported
    /\ (vector = "timer") <=> (Supported /\ pc \in Installed)
    /\ g_p_timer_callback <=> (Supported /\ pc \in Installed \cup {"vector", "forget"})
    /\ pit = "fast" => Fast /\ irq_number = 0 /\ pc \in {"start", "playing", "restore_pit"}
    /\ UsesTimerB /\ (pc \in {"restore_vector", "forget"} \/ Stopped) => masked

\* Which handler runs, and the stopping of Timer B.
HandlerInv ==
    /\ handler # "none" => vector = "timer"
    /\ handler \in {"eoi", "reload_address", "reload_data", "acknowledge"} => UsesTimerB
    /\ handler = "account" => irq_number = 0
    /\ handler \in BeforeEoi => in_service
    /\ handler = "acknowledge" => (timer_b <=> ~g_timer_b_stop_requested) /\ (flag => timer_b)
    /\ timer_b => UsesTimerB
    /\ g_timer_b_stop_requested =>
           UsesTimerB /\ (pc \in {"wait", "mask", "restore_vector", "forget"} \/ Stopped)
    /\ g_timer_b_stop_acknowledged =>
           handler = "none" /\ g_timer_b_stop_requested /\ ~timer_b /\ ~flag
    /\ UsesTimerB /\ (pc \in {"mask", "restore_vector", "forget"} \/ Stopped) =>
           g_timer_b_stop_acknowledged
    /\ wait_delay # 0 => g_timer_b_stop_acknowledged
    /\ pc = "wait" => wait_delay <= WaitSpins

\* The line of a YM2151 that does not share it: a request means an overflow
\* that no handler has seen.
LineInv ==
    ~SharedLine =>
        /\ timer_b => pc \in Ticking \cup {"clear_address", "clear_data"} \/ TooEarly
        /\ TooEarly => ~masked
        /\ in_service => handler \in BeforeEoi
        /\ request => irq_number = 0 \/ (UsesTimerB /\ flag)
        /\ UsesTimerB /\ request /\ pc \in {"callback", "vector", "unmask"} => masked
        /\ UsesTimerB /\ pc \in {"rate_data", "enable_address", "enable_data"} => ~request
        /\ UsesTimerB /\ handler \notin {"none", "acknowledge"} => flag /\ ~request
        /\ UsesTimerB /\ handler # "none" => pc \in Ticking \cup {"rate_address"}
        /\ latch = IF pc \in {"clear_data", "rate_data", "enable_data", "silence_data"}
                   THEN "main"
                   ELSE IF handler \in {"callback_data", "reload_data"} THEN "handler" ELSE "none"

\* PIT clocks not yet given to the BIOS, but for the tick whose handler runs.
Debt == owed - (IF handler = "none" THEN 0 ELSE Period)

\* Nothing can change any more before main moves on.
Served == late /\ ~request /\ handler = "none"

\* How much of a BIOS tick's FIXED_POINT_ONE periods the counts fall short of.
Error == (PitCounter(rate_in_hertz) * InterruptTotal(rate_in_hertz))
             - (BiosPeriod * FIXED_POINT_ONE)

\* What starting the timer left over.  While the PIT is fast and the history is
\* kept, nothing changes it: what the BIOS is owed is in g_interrupt_counter,
\* but for the error of each tick.
Skew ==
    (FIXED_POINT_ONE * Debt) - (Error * given)
        + (PitCounter(rate_in_hertz) * (InterruptTotal(rate_in_hertz) - g_interrupt_counter))

SkewIn(ticks) == 0 <= Skew /\ Skew <= ((ticks * FIXED_POINT_ONE) + 1) * BiosPeriod

Balanced ==
    /\ g_interrupt_total = InterruptTotal(rate_in_hertz)
    /\ g_interrupt_counter \in 0 .. InterruptTotal(rate_in_hertz) + FIXED_POINT_ONE - 1

\* What main has the PIT and its line do.
SystemInv ==
    IF irq_number = 0
    THEN /\ ~masked /\ (in_service => handler # "none")
         /\ pc \in {"total", "counter", "program", "restore_vector"} =>
                /\ request \/ handler # "none" => late
                /\ request => handler = "none"
         /\ pc \in {"total", "counter"} => Fast
    ELSE owed = 0 /\ given = 0

\* The counter: at a rate that leaves the PIT alone every IRQ0 is a BIOS tick.
CounterInv ==
    irq_number = 0 =>
        /\ ~Fast => g_interrupt_total = 0 /\ given = 0
        /\ Fast =>
            /\ pc \in {"clear_address", "clear_data", "callback", "vector", "total"} =>
                   g_interrupt_total = 0 /\ given = 0
            /\ pc = "counter" =>
                   g_interrupt_total = InterruptTotal(rate_in_hertz) /\ given = 0
            /\ pc = "program" =>
                /\ Balanced /\ given = 0
                /\ \/ g_interrupt_counter = InterruptTotal(rate_in_hertz)
                   \/ Served /\ g_interrupt_counter = FIXED_POINT_ONE
            /\ pc \in {"start", "playing", "restore_pit"} => Balanced /\ pit = "fast"
            /\ pc = "restore_vector" => Served \/ Balanced

\* What the BIOS is owed, as long as the history is kept.
SlowDebt ==
    IF pc \in {"start", "playing", "restore_pit"} THEN Debt \in 0 .. BiosPeriod
    ELSE IF pc \in {"restore_vector", "forget"} \/ Stopped THEN Debt \in 0 .. 2 * BiosPeriod
    ELSE Debt = 0

FastDebt ==
    /\ pc \in {"clear_address", "clear_data", "callback", "vector", "total"} => Debt = 0
    /\ pc = "counter" => Debt = 0 \/ (Debt = BiosPeriod /\ Served)
    /\ pc = "program" =>
           Debt = 0 \/ (Debt = BiosPeriod /\ Served
                            /\ g_interrupt_counter = InterruptTotal(rate_in_hertz))
    /\ pc \in {"start", "playing", "restore_pit"} => SkewIn(2)
    /\ pc = "restore_vector" => Served \/ SkewIn(3)

DebtInv ==
    irq_number = 0 /\ given < MaxGiven => IF Fast THEN FastDebt ELSE SlowDebt

ClockInv == SystemInv /\ CounterInv /\ DebtInv /\ ClockKept

TimerInv == TypeOK /\ InstallInv /\ HandlerInv /\ LineInv /\ ClockInv

=============================================================================
