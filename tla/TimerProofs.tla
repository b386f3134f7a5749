---------------------------- MODULE TimerProofs ----------------------------
(***************************************************************************)
(* Proofs about Timer.  TimerInv is inductive: its parts are preserved one *)
(* by one, each by the steps of main, of the handlers and of the hardware. *)
(***************************************************************************)
EXTENDS Timer, TLAPS

-----------------------------------------------------------------------------
(***************************************************************************)
(* The counts of a rate: D clocks of the PIT a period and T counts of the  *)
(* FIXED_POINT_ONE = 256 ones a BIOS tick of 65536 clocks.                 *)
(***************************************************************************)

\* A quotient lies less than one below the fraction.
LEMMA Quotient ==
    ASSUME NEW a \in Nat, NEW n \in Nat \ {0}
    PROVE  a \div n \in Nat /\ n * (a \div n) <= a /\ a < (n * (a \div n)) + n
<1> DEFINE q == a \div n
<1>1. q \in Nat
  OBVIOUS
<1>2. a = n * q + (a % n) /\ a % n \in 0 .. n - 1
  OBVIOUS
<1> QED
  BY <1>1, <1>2

\* A smaller number stays the smaller one when both are multiplied.
LEMMA Scale ==
    ASSUME NEW a \in Int, NEW b \in Int, NEW c \in Nat, a <= b
    PROVE  c * a \in Int /\ c * b \in Int /\ c * a <= c * b
BY SMT

\* 1193181 clocks a second in periods of q clocks, x of them in all.
LEMMA PeriodRange ==
    ASSUME NEW rate \in Nat, rate <= 65535, NEW q \in Nat, NEW x \in Int,
           19 * q <= x, x <= 65535 * q, x <= 1193181, 1193181 < x + rate
    PROVE  18 <= q /\ q <= 62799
<1>1. q <= 62799
  BY SMT
<1>2. 18 <= q
  BY SMT
<1> QED
  BY <1>1, <1>2

\* The count fits in the 16 bits of the PIT: the cast cuts nothing off.
LEMMA PeriodOfRate ==
    ASSUME NEW rate \in Nat, 19 <= rate, rate <= 65535
    PROVE  /\ PitCounter(rate) \in Nat
           /\ 18 <= PitCounter(rate) /\ PitCounter(rate) <= 62799
           /\ rate * PitCounter(rate) <= 1193181
           /\ 1193181 < (rate * PitCounter(rate)) + rate
<1> DEFINE q == 1193181 \div rate
<1>1. q \in Nat /\ rate * q <= 1193181 /\ 1193181 < (rate * q) + rate
  BY Quotient, SMT
<1>2. q * 19 <= q * rate /\ q * rate <= q * 65535 
  BY <1>1, Scale, SMT
<1> HIDE DEF q
<1>3. 18 <= q /\ q <= 62799
  BY <1>1, <1>2, PeriodRange, SMT
<1>4. PitCounter(rate) = q
  BY <1>1, <1>3, SMT DEF PitCounter, q
<1> QED
  BY <1>1, <1>3, <1>4, SMT

\* A BIOS tick holds at least one whole IRQ0.
LEMMA TotalOfRate ==
    ASSUME NEW rate \in Nat, 19 <= rate, rate <= 65535
    PROVE  /\ InterruptTotal(rate) \in Nat
           /\ FIXED_POINT_ONE <= InterruptTotal(rate)
           /\ 1000 * InterruptTotal(rate) <= 14065 * rate
           /\ 14065 * rate < (1000 * InterruptTotal(rate)) + 1000
<1> DEFINE t == (rate * 14065) \div 1000
<1>1. t \in Nat /\ 1000 * t <= rate * 14065 /\ rate * 14065 < (1000 * t) + 1000
  BY Quotient, SMT
<1> HIDE DEF t
<1>2. 256 <= t
  BY <1>1, SMT
<1>3. InterruptTotal(rate) = t
  BY DEF InterruptTotal, t
<1> QED
  BY <1>1, <1>2, <1>3, SMT DEF FIXED_POINT_ONE

\* The sums behind ErrorOfRate: d clocks a period, x a second, product a tick.
LEMMA ErrorRange ==
    ASSUME NEW rate \in Nat, 19 <= rate, rate <= 65535,
           NEW d \in Nat, d <= 62799, NEW x \in Int, NEW product \in Int,
           x <= 1193181, 1193181 < x + rate,
           1000 * product <= 14065 * x, 14065 * x <= (1000 * product) + (1000 * d),
           99 < rate => 100 * d <= x,
           1000 < rate => 1001 * d <= x,
           4900 < rate => 4901 * d <= x
    PROVE  /\ product - 16777216 <= 4875
           /\ rate <= 4900 => -65536 <= product - 16777216
           /\ -1048576 <= product - 16777216
<1>1. product - 16777216 <= 4875
  BY SMT
<1>2. rate <= 4900 => (14065 * rate) + (1000 * d) <= 70424830
  <2>1. CASE rate <= 99
    BY <2>1, SMT
  <2>2. CASE 99 < rate /\ rate <= 1000
    <3>1. d <= 11931
      BY <2>2, SMT
    <3> QED
      BY <2>2, <3>1, SMT
  <2>3. CASE 1000 < rate
    <3>1. d <= 1191
      BY <2>3, SMT
    <3> QED
      BY <2>3, <3>1, SMT
  <2> QED
    BY <2>1, <2>2, <2>3, SMT
<1>3. rate <= 4900 => -65536 <= product - 16777216
  BY <1>2, SMT
<1>4. 4900 < rate => -1048576 <= product - 16777216
  <2>1. 4900 < rate => d <= 243
    BY SMT
  <2> QED
    BY <2>1, SMT
<1> QED
  BY <1>1, <1>3, <1>4, SMT

\* The truncations of timer.c:91 and timer.c:95 make a BIOS tick too long by
\* hardly a period, and too short by one part in 256 at most, or in 16 above
\* 4900 Hz.
LEMMA ErrorOfRate ==
    ASSUME NEW rate \in Nat, 19 <= rate, rate <= 65535
    PROVE  LET product == PitCounter(rate) * InterruptTotal(rate)
           IN  /\ product \in Int
               /\ product - (BiosPeriod * FIXED_POINT_ONE) <= 4875
               /\ rate <= 4900 => -BiosPeriod <= product - (BiosPeriod * FIXED_POINT_ONE)
               /\ -(16 * BiosPeriod) <= product - (BiosPeriod * FIXED_POINT_ONE)
<1> DEFINE d == PitCounter(rate)
           t == InterruptTotal(rate)
           x == d * rate
           product == d * t
<1>1. d \in Nat /\ d <= 62799 /\ x <= 1193181 /\ 1193181 < x + rate
  BY PeriodOfRate, SMT
<1>2. t \in Nat /\ 1000 * t <= 14065 * rate /\ 14065 * rate <= (1000 * t) + 1000
  BY TotalOfRate, SMT
<1> HIDE DEF d, t
<1>3. x \in Int /\ product \in Int
  BY <1>1, <1>2, SMT
<1>4. d * (1000 * t) <= d * (14065 * rate) /\ d * (14065 * rate) <= d * ((1000 * t) + 1000)
  BY <1>1, <1>2, Scale, SMT
<1>5. /\ d * (1000 * t) = 1000 * product
      /\ d * (14065 * rate) = 14065 * x
      /\ d * ((1000 * t) + 1000) = (1000 * product) + (1000 * d)
  BY <1>1, <1>2, SMT
<1>6. /\ 99 < rate => d * 100 <= x
      /\ 1000 < rate => d * 1001 <= x
      /\ 4900 < rate => d * 4901 <= x
  BY <1>1, Scale, SMT
<1> HIDE DEF x, product
<1>7. /\ product - 16777216 <= 4875
      /\ rate <= 4900 => -65536 <= product - 16777216
      /\ -1048576 <= product - 16777216
  BY <1>1, <1>3, <1>4, <1>5, <1>6, ErrorRange, SMT
<1>8. BiosPeriod * FIXED_POINT_ONE = 16777216
  BY SMT DEF BiosPeriod, FIXED_POINT_ONE
<1>9. /\ product - (BiosPeriod * FIXED_POINT_ONE) <= 4875
      /\ rate <= 4900 => -BiosPeriod <= product - (BiosPeriod * FIXED_POINT_ONE)
      /\ -(16 * BiosPeriod) <= product - (BiosPeriod * FIXED_POINT_ONE)
  BY <1>3, <1>7, <1>8, SMT DEF BiosPeriod
<1> QED
  BY <1>3, <1>9, SMT DEF product, d, t

\* A period, and a tick or none, leave the skew as it was.
LEMMA SkewStep ==
    ASSUME NEW d \in Nat, NEW t \in Nat, NEW c \in Int, NEW g \in Nat, NEW debt \in Int,
           NEW k \in {0, 1}
    PROVE  LET error == (d * t) - (65536 * 256)
           IN  (256 * (debt + d - (65536 * k))) - (error * (g + k)) + (d * (t - (c + 256 - (t * k))))
                   = (256 * debt) - (error * g) + (d * (t - c))
<1>1. CASE k = 0
  BY <1>1, SMT
<1>2. CASE k = 1
  BY <1>2, SMT
<1> QED
  BY <1>1, <1>2

\* How far a skew, the error of g ticks and a counter let the debt be off.
LEMMA SkewBounds ==
    ASSUME NEW d \in Nat, NEW t \in Nat, NEW c \in Nat, c < t + 256,
           NEW e \in Int, e = (d * t) - 16777216, e <= 4875,
           NEW f \in Nat, f >= 1, -(65536 * f) <= e,
           NEW g \in Nat, NEW debt \in Int, NEW s \in Int,
           s = (256 * debt) - (e * g) + (d * (t - c))
    PROVE  /\ 256 * debt <= s + (65536 * (f * g)) + (256 * d)
           /\ s - (65536 * (f * g)) - 16782091 <= 256 * debt
<1> DEFINE eg == e * g
           fg == f * g
           dc == d * (t - c)
           dt == d * t
<1>1. eg \in Int /\ fg \in Nat /\ dc \in Int /\ dt \in Int
  BY SMT
<1>2. eg <= 65536 * fg
  <2>1. g * e <= g * (65536 * f)
    BY Scale, SMT
  <2> QED
    BY <2>1, SMT
<1>3. -(65536 * fg) <= eg
  <2>1. g * (-(65536 * f)) <= g * e
    BY Scale, SMT
  <2> QED
    BY <2>1, SMT
<1>4. dc <= dt
  BY Scale, SMT
<1>5. -(256 * d) <= dc
  <2>1. d * (-256) <= d * (t - c)
    BY Scale, SMT
  <2> QED
    BY <2>1, SMT
<1>6. dt <= 16782091
  BY SMT
<1>7. s = (256 * debt) - eg + dc
  OBVIOUS
<1> HIDE DEF eg, fg, dc, dt
<1>8. /\ 256 * debt <= s + (65536 * fg) + (256 * d)
      /\ s - (65536 * fg) - 16782091 <= 256 * debt
  BY <1>1, <1>2, <1>3, <1>4, <1>5, <1>6, <1>7, SMT
<1> QED
  BY <1>8, SMT DEF fg

-----------------------------------------------------------------------------

USE DEF vars, config, main, counters, statics, stopping, pic, ym, clock, machine

\* A rate fits in 16 bits, and its total with an IRQ0 in the word of the counters.
LEMMA RateTyped ==
    ASSUME TypeOK
    PROVE  /\ rate_in_hertz \in Nat /\ rate_in_hertz <= 65535
           /\ InterruptTotal(rate_in_hertz) \in Nat
           /\ InterruptTotal(rate_in_hertz) + 256 < Word
<1>1. rate_in_hertz \in Rates
  BY DEF TypeOK, MainTypeOK
<1>2. rate_in_hertz \in Nat /\ rate_in_hertz <= 65535
  BY <1>1, RatesAssumption
<1>3. InterruptTotal(rate_in_hertz) \in Nat
  BY <1>2, Quotient, SMT DEF InterruptTotal
<1> QED
  BY <1>1, <1>2, <1>3, RatesAssumption DEF FIXED_POINT_ONE

LEMMA PeriodTyped ==
    ASSUME TypeOK, InstallInv
    PROVE  Period \in Nat /\ Period <= 65536
<1>1. CASE irq_number = 0 /\ pit = "fast"
  <2>1. rate_in_hertz \in Nat /\ 19 <= rate_in_hertz /\ rate_in_hertz <= 65535
    BY <1>1, RateTyped, SMT DEF InstallInv, Fast
  <2>2. PitCounter(rate_in_hertz) \in Nat /\ PitCounter(rate_in_hertz) <= 62799
    BY <2>1, PeriodOfRate, SMT
  <2> QED
    BY <1>1, <2>2, SMT DEF Period
<1>2. CASE ~(irq_number = 0 /\ pit = "fast")
  BY <1>2, SMT DEF Period, BiosPeriod
<1> QED
  BY <1>1, <1>2

\* The history stays within its bound.
LEMMA KeepTyped ==
    ASSUME TypeOK, NEW passed \in Int, NEW ticks \in {0, 1}, Keep(passed, ticks)
    PROVE  owed' \in Int /\ given' \in 0 .. MaxGiven
<1>1. owed \in Int /\ given \in 0 .. MaxGiven
  BY DEF TypeOK, MachineTypeOK
<1> QED
  BY <1>1, TimerAssumption, SMT DEF Keep, BiosPeriod

LEMMA TypeMain ==
    ASSUME TypeOK, InstallInv, HandlerInv, Main \/ Escape
    PROVE  TypeOK'
<1> USE DEF Main, Goto, ClearYm, Address, Data, SetCallback, TakeVector, SetTotal,
       SetCounter, ProgramPit, SetPit, Unmask, SetMask, StartTimerB, StartStream, Escape,
       LeaveLoop, RestorePit, RequestStop, Wait, Mask, RestoreVector, ForgetCallback, Silence
<1>1. MainTypeOK'
  BY TimerAssumption DEF TypeOK, MainTypeOK, HandlerInv
<1> USE DEF TypeOK, StaticsTypeOK, MachineTypeOK
<1>2. StaticsTypeOK'
  <2>1. /\ g_interrupt_counter' \in 0 .. Word - 1
        /\ g_interrupt_total' \in {0, InterruptTotal(rate_in_hertz')}
    BY RateTyped, TimerAssumption
  <2>2. (g_play_stream \in BOOLEAN /\ g_p_timer_callback \in BOOLEAN)'
    BY DEF Supported
  <2>3. (g_timer_b_stop_requested \in BOOLEAN /\ g_timer_b_stop_acknowledged \in BOOLEAN)'
    OBVIOUS
  <2>4. handler' = handler
    OBVIOUS
  <2> QED
    BY <2>1, <2>2, <2>3, <2>4
<1>3. MachineTypeOK'
  <2>1. (vector \in {"old", "timer"} /\ pit \in {"bios", "fast"})'
    OBVIOUS
  <2>2. (request \in BOOLEAN /\ in_service \in BOOLEAN /\ masked \in BOOLEAN)'
    OBVIOUS
  <2>3. (timer_b \in BOOLEAN /\ flag \in BOOLEAN /\ latch \in {"none", "main", "handler"})'
    OBVIOUS
  <2>4. owed' \in Int /\ given' \in 0 .. MaxGiven
    <3>1. CASE ProgramPit \/ RestorePit
      <4>1. PICK lost \in {0, Period - 1} : Keep(lost, 0)
        BY <3>1
      <4> QED
        BY <4>1, PeriodTyped, KeepTyped
    <3>2. CASE ~(ProgramPit \/ RestorePit)
      BY <3>2
    <3> QED
      BY <3>1, <3>2
  <2>5. late' = late
    OBVIOUS
  <2> QED
    BY <2>1, <2>2, <2>3, <2>4, <2>5
<1> QED
  BY <1>1, <1>2, <1>3 DEF TypeOK

\* What the width of g_interrupt_counter leaves of a sum.
LEMMA InWord ==
    ASSUME NEW n \in Int
    PROVE  n % Word \in 0 .. Word - 1
BY TimerAssumption

LEMMA TypeHandler ==
    ASSUME TypeOK, InstallInv, Handler
    PROVE  TypeOK'
<1> USE DEF Handler, Inside, Sends, OldHandler, Enter, CallbackWrites, CallbackReturns,
       Account, SendEoi, Reload, Acknowledge
<1>1. MainTypeOK'
  BY DEF TypeOK, MainTypeOK
<1> USE DEF TypeOK, StaticsTypeOK, MachineTypeOK
<1>2. StaticsTypeOK'
  <2>1. /\ g_interrupt_counter' \in 0 .. Word - 1
        /\ g_interrupt_total' \in {0, InterruptTotal(rate_in_hertz')}
    <3>1. CASE Account
      <4>1. PICK n \in Int : g_interrupt_counter' = n % Word
        BY <3>1, RateTyped DEF FIXED_POINT_ONE
      <4> QED
        BY <3>1, <4>1, InWord
    <3>2. CASE ~Account
      <4>1. UNCHANGED counters
        BY <3>2
      <4> QED
        BY <4>1
    <3> QED
      BY <3>1, <3>2
  <2>2. (g_play_stream \in BOOLEAN /\ g_p_timer_callback \in BOOLEAN)'
    OBVIOUS
  <2>3. (g_timer_b_stop_requested \in BOOLEAN /\ g_timer_b_stop_acknowledged \in BOOLEAN)'
    OBVIOUS
  <2>4. (handler \in {"none", "callback", "callback_data", "callback_end", "account", "eoi",
                      "reload_address", "reload_data", "acknowledge"})'
    OBVIOUS
  <2> QED
    BY <2>1, <2>2, <2>3, <2>4
<1>3. MachineTypeOK'
  <2>1. (vector \in {"old", "timer"} /\ pit \in {"bios", "fast"})'
    OBVIOUS
  <2>2. (request \in BOOLEAN /\ in_service \in BOOLEAN /\ masked \in BOOLEAN)'
    OBVIOUS
  <2>3. (timer_b \in BOOLEAN /\ flag \in BOOLEAN /\ latch \in {"none", "main", "handler"})'
    OBVIOUS
  <2>4. owed' \in Int /\ given' \in 0 .. MaxGiven
    <3>1. CASE UNCHANGED <<owed, given>>
      BY <3>1
    <3>2. CASE ~UNCHANGED <<owed, given>>
      <4>1. PICK passed \in {0, Period}, ticks \in {0, 1} : Keep(passed, ticks)
        BY <3>2
      <4> QED
        BY <4>1, PeriodTyped, KeepTyped
    <3> QED
      BY <3>1, <3>2
  <2>5. late' = late
    OBVIOUS
  <2> QED
    BY <2>1, <2>2, <2>3, <2>4, <2>5
<1> QED
  BY <1>1, <1>2, <1>3 DEF TypeOK

LEMMA TypeMachine ==
    ASSUME TypeOK, PitTick \/ TimerBOverflows \/ OtherDevice
    PROVE  TypeOK'
<1> USE DEF PitTick, TimerBOverflows, OtherDevice, Device
<1>1. MainTypeOK' /\ StaticsTypeOK'
  BY DEF TypeOK, MainTypeOK, StaticsTypeOK
<1>2. late' \in BOOLEAN
  BY DEF TypeOK, MachineTypeOK, InTime, Tight
<1>3. request' \in BOOLEAN /\ flag' \in BOOLEAN
  BY DEF TypeOK, MachineTypeOK
<1>4. MachineTypeOK'
  BY <1>2, <1>3 DEF TypeOK, MachineTypeOK
<1> QED
  BY <1>1, <1>4 DEF TypeOK

-----------------------------------------------------------------------------

USE DEF UsesTimerB, TimerBIrqs, Supported, SharedLine, Fast, TooEarly, SystemPcs, LinePcs, Installed, Ticking,
        BeforeEoi, Stopped

LEMMA InstallMachine ==
    ASSUME InstallInv, PitTick \/ TimerBOverflows \/ OtherDevice
    PROVE  InstallInv'
BY DEF PitTick, TimerBOverflows, OtherDevice, Device, InstallInv

-----------------------------------------------------------------------------

LEMMA InstallMain ==
    ASSUME TypeOK, InstallInv, HandlerInv, Main \/ Escape
    PROVE  InstallInv'
<1> USE DEF Goto, InstallInv, TypeOK, MainTypeOK, StaticsTypeOK, MachineTypeOK
<1>1. CASE ClearYm
  BY <1>1 DEF ClearYm, Address, Data
<1>2. CASE SetCallback
  BY <1>2 DEF SetCallback
<1>3. CASE TakeVector
  BY <1>3 DEF TakeVector
<1>4. CASE SetTotal \/ SetCounter \/ ProgramPit
  BY <1>4 DEF SetTotal, SetCounter, ProgramPit, SetPit
<1>5. CASE Unmask \/ Mask
  BY <1>5 DEF Unmask, Mask, SetMask
<1>6. CASE StartTimerB
  BY <1>6 DEF StartTimerB, Address, Data
<1>7. CASE StartStream \/ Escape
  BY <1>7 DEF StartStream, Escape
<1>8. CASE LeaveLoop
  BY <1>8 DEF LeaveLoop
<1>9. CASE RestorePit \/ RestoreVector
  BY <1>9 DEF RestorePit, SetPit, RestoreVector
<1>10. CASE RequestStop \/ Wait
  BY <1>10 DEF RequestStop, Wait
<1>11. CASE ForgetCallback
  BY <1>11 DEF ForgetCallback
<1>12. CASE Silence
  BY <1>12 DEF Silence, Address, Data
<1> QED
  BY <1>1, <1>2, <1>3, <1>4, <1>5, <1>6, <1>7, <1>8, <1>9, <1>10, <1>11, <1>12 DEF Main

LEMMA InstallHandler ==
    ASSUME TypeOK, InstallInv, Handler
    PROVE  InstallInv'
<1> USE DEF Inside, Sends, InstallInv
<1>1. CASE OldHandler \/ Enter
  BY <1>1 DEF OldHandler, Enter
<1>2. CASE CallbackWrites \/ CallbackReturns
  <2>1. \/ UNCHANGED <<config, main, statics, machine>>
        \/ UNCHANGED <<config, main, statics, vector, pic, clock>>
    BY <1>2 DEF CallbackWrites, CallbackReturns
  <2> QED
    BY <2>1
<1>3. CASE Account \/ SendEoi \/ Reload \/ Acknowledge
  BY <1>3 DEF Account, SendEoi, Reload, Acknowledge
<1> QED
  BY <1>1, <1>2, <1>3 DEF Handler

-----------------------------------------------------------------------------

LEMMA HandlerMain ==
    ASSUME TypeOK, InstallInv, HandlerInv, LineInv, Main \/ Escape
    PROVE  HandlerInv'
<1> USE DEF Goto, InstallInv, HandlerInv, TypeOK, MainTypeOK, StaticsTypeOK,
       MachineTypeOK
<1>1. CASE ClearYm
  BY <1>1 DEF ClearYm, Address, Data
<1>2. CASE SetCallback \/ TakeVector
  BY <1>2 DEF SetCallback, TakeVector
<1>3. CASE SetTotal \/ SetCounter \/ ProgramPit
  BY <1>3 DEF SetTotal, SetCounter, ProgramPit, SetPit
<1>4. CASE Unmask \/ Mask
  BY <1>4 DEF Unmask, Mask, SetMask
<1>5. CASE StartTimerB
  BY <1>5 DEF StartTimerB, Address, Data
<1>6. CASE StartStream \/ Escape \/ LeaveLoop
  BY <1>6 DEF StartStream, Escape, LeaveLoop
<1>7. CASE RestorePit \/ RestoreVector
  BY <1>7 DEF RestorePit, SetPit, RestoreVector
<1>8. CASE RequestStop \/ Wait
  BY <1>8, TimerAssumption DEF RequestStop, Wait
<1>9. CASE ForgetCallback
  BY <1>9 DEF ForgetCallback
<1>10. CASE Silence
  BY <1>10 DEF Silence, Address, Data
<1> QED
  BY <1>1, <1>2, <1>3, <1>4, <1>5, <1>6, <1>7, <1>8, <1>9, <1>10 DEF Main

LEMMA HandlerHandler ==
    ASSUME TypeOK, InstallInv, HandlerInv, Handler
    PROVE  HandlerInv'
<1> USE DEF Inside, Sends, Pending, InstallInv, HandlerInv, TypeOK, MainTypeOK,
       StaticsTypeOK, MachineTypeOK
<1>1. CASE OldHandler
  BY <1>1 DEF OldHandler
<1>2. CASE Enter
  BY <1>2 DEF Enter
<1>3. CASE CallbackWrites
  BY <1>3 DEF CallbackWrites
<1>4. CASE CallbackReturns
  BY <1>4 DEF CallbackReturns
<1>5. CASE Account \/ SendEoi
  BY <1>5 DEF Account, SendEoi
<1>6. CASE Reload
  BY <1>6 DEF Reload
<1>7. CASE Acknowledge
  BY <1>7 DEF Acknowledge
<1> QED
  BY <1>1, <1>2, <1>3, <1>4, <1>5, <1>6, <1>7 DEF Handler

LEMMA HandlerMachine ==
    ASSUME TypeOK, HandlerInv, PitTick \/ TimerBOverflows \/ OtherDevice
    PROVE  HandlerInv'
BY DEF PitTick, TimerBOverflows, OtherDevice, Device, HandlerInv

-----------------------------------------------------------------------------

LEMMA LineMain ==
    ASSUME TypeOK, InstallInv, HandlerInv, LineInv, Main \/ Escape
    PROVE  LineInv'
<1> USE DEF Goto, Pending, InstallInv, HandlerInv, LineInv, TypeOK, MainTypeOK,
       StaticsTypeOK, MachineTypeOK
<1>1. CASE ClearYm
  BY <1>1 DEF ClearYm, Address, Data
<1>2. CASE SetCallback \/ TakeVector
  BY <1>2 DEF SetCallback, TakeVector
<1>3. CASE SetTotal \/ SetCounter \/ ProgramPit
  BY <1>3 DEF SetTotal, SetCounter, ProgramPit, SetPit
<1>4. CASE Unmask \/ Mask
  BY <1>4 DEF Unmask, Mask, SetMask
<1>5. CASE StartTimerB
  BY <1>5 DEF StartTimerB, Address, Data
<1>6. CASE StartStream \/ Escape \/ LeaveLoop
  BY <1>6 DEF StartStream, Escape, LeaveLoop
<1>7. CASE RestorePit \/ RestoreVector
  BY <1>7 DEF RestorePit, SetPit, RestoreVector
<1>8. CASE RequestStop \/ Wait
  BY <1>8, TimerAssumption DEF RequestStop, Wait
<1>9. CASE ForgetCallback
  BY <1>9 DEF ForgetCallback
<1>10. CASE Silence
  BY <1>10 DEF Silence, Address, Data
<1> QED
  BY <1>1, <1>2, <1>3, <1>4, <1>5, <1>6, <1>7, <1>8, <1>9, <1>10 DEF Main

LEMMA LineHandler ==
    ASSUME TypeOK, InstallInv, HandlerInv, LineInv, Handler
    PROVE  LineInv'
<1> USE DEF Inside, Sends, Pending, InstallInv, HandlerInv, LineInv, TypeOK,
       MainTypeOK, StaticsTypeOK, MachineTypeOK
<1>1. CASE OldHandler
  BY <1>1 DEF OldHandler
<1>2. CASE Enter
  BY <1>2 DEF Enter
<1>3. CASE CallbackWrites
  BY <1>3 DEF CallbackWrites
<1>4. CASE CallbackReturns
  BY <1>4 DEF CallbackReturns
<1>5. CASE Account \/ SendEoi
  BY <1>5 DEF Account, SendEoi
<1>6. CASE Reload
  BY <1>6 DEF Reload
<1>7. CASE Acknowledge
  BY <1>7 DEF Acknowledge
<1> QED
  BY <1>1, <1>2, <1>3, <1>4, <1>5, <1>6, <1>7 DEF Handler

LEMMA LineMachine ==
    ASSUME TypeOK, HandlerInv, LineInv, PitTick \/ TimerBOverflows \/ OtherDevice
    PROVE  LineInv'
<1> USE DEF Device, HandlerInv, LineInv, TypeOK, MainTypeOK, StaticsTypeOK, MachineTypeOK
<1>1. CASE PitTick
  BY <1>1 DEF PitTick
<1>2. CASE TimerBOverflows
  BY <1>2 DEF TimerBOverflows
<1>3. CASE OtherDevice
  BY <1>3 DEF OtherDevice
<1> QED
  BY <1>1, <1>2, <1>3

-----------------------------------------------------------------------------

\* The history in terms of Debt, which is what stays while a handler runs.
LEMMA DebtTyped ==
    ASSUME TypeOK, InstallInv
    PROVE  /\ Period \in Nat /\ Period <= 65536 /\ Debt \in Int
           /\ owed = Debt + (IF handler = "none" THEN 0 ELSE Period)
<1>1. Period \in Nat /\ Period <= 65536
  BY PeriodTyped
<1> QED
  BY <1>1 DEF TypeOK, MachineTypeOK, Debt

\* The counts of a rate that makes the PIT fast.
LEMMA FastRate ==
    ASSUME TypeOK, Fast
    PROVE  LET d == PitCounter(rate_in_hertz)
               t == InterruptTotal(rate_in_hertz)
           IN  /\ d \in Nat /\ d <= 62799 /\ 18 <= d
               /\ t \in Nat /\ 256 <= t
               /\ Error = (d * t) - 16777216
               /\ Error \in Int /\ Error <= 4875 /\ -(65536 * Drift) <= Error
<1>1. rate_in_hertz \in Nat /\ 19 <= rate_in_hertz /\ rate_in_hertz <= 65535
  BY RateTyped, SMT DEF Fast
<1>2. LET d == PitCounter(rate_in_hertz) IN d \in Nat /\ d <= 62799 /\ 18 <= d
  BY <1>1, PeriodOfRate, SMT
<1>3. LET t == InterruptTotal(rate_in_hertz) IN t \in Nat /\ 256 <= t
  BY <1>1, TotalOfRate, SMT DEF FIXED_POINT_ONE
<1>4. Error = (PitCounter(rate_in_hertz) * InterruptTotal(rate_in_hertz)) - 16777216
  BY SMT DEF Error, BiosPeriod, FIXED_POINT_ONE
<1>5. Error \in Int /\ Error <= 4875 /\ -(65536 * Drift) <= Error
  <2>1. Error \in Int /\ Error <= 4875
    BY <1>1, ErrorOfRate, SMT DEF Error, BiosPeriod, FIXED_POINT_ONE
  <2>2. CASE rate_in_hertz <= 4900
    BY <1>1, <2>1, <2>2, ErrorOfRate, SMT DEF Error, Drift, BiosPeriod, FIXED_POINT_ONE
  <2>3. CASE ~(rate_in_hertz <= 4900)
    BY <1>1, <2>1, <2>3, ErrorOfRate, SMT DEF Error, Drift, BiosPeriod, FIXED_POINT_ONE
  <2> QED
    BY <2>1, <2>2, <2>3
<1> QED
  BY <1>2, <1>3, <1>4, <1>5, SMT

\* A balanced clock with little skew is a little behind or ahead.
LEMMA DebtBounds ==
    ASSUME TypeOK, InstallInv, Fast, Balanced, SkewIn(3)
    PROVE  /\ Drift * given \in Nat
           /\ 256 * Debt < 65536 * (1024 + (Drift * given))
           /\ -(65536 * (257 + (Drift * given))) <= 256 * Debt
<1> DEFINE d == PitCounter(rate_in_hertz)
           t == InterruptTotal(rate_in_hertz)
           c == g_interrupt_counter
<1>1. d \in Nat /\ d <= 62799 /\ t \in Nat /\ 256 <= t
  BY FastRate
<1>2. Error = (d * t) - 16777216 /\ Error \in Int /\ Error <= 4875 /\ -(65536 * Drift) <= Error
  BY FastRate
<1>3. c \in Nat /\ c < t + 256
  BY <1>1 DEF Balanced, FIXED_POINT_ONE
<1>4. Drift \in Nat /\ Drift >= 1 /\ given \in Nat /\ Debt \in Int
  BY DebtTyped DEF Drift, TypeOK, MachineTypeOK
<1>5. Skew = (256 * Debt) - (Error * given) + (d * (t - c))
  BY DEF Skew, FIXED_POINT_ONE
<1>6. Skew \in Int /\ 0 <= Skew /\ Skew <= 769 * 65536
  <2>1. Skew \in Int
    BY <1>1, <1>2, <1>3, <1>4, <1>5, SMT
  <2> QED
    BY <2>1, SMT DEF SkewIn, BiosPeriod, FIXED_POINT_ONE
<1> HIDE DEF d, t, c
<1>7. /\ 256 * Debt <= Skew + (65536 * (Drift * given)) + (256 * d)
      /\ Skew - (65536 * (Drift * given)) - 16782091 <= 256 * Debt
  BY <1>1, <1>2, <1>3, <1>4, <1>5, <1>6, SkewBounds, SMT
<1> DEFINE fg == Drift * given
<1>8. fg \in Nat
  BY <1>4, SMT
<1>9. /\ 256 * Debt <= Skew + (65536 * fg) + (256 * d)
      /\ Skew - (65536 * fg) - 16782091 <= 256 * Debt
  BY <1>7, SMT DEF fg
<1> HIDE DEF fg
<1>10. 256 * Debt < 65536 * (1024 + fg) /\ -(65536 * (257 + fg)) <= 256 * Debt
  BY <1>1, <1>4, <1>6, <1>8, <1>9, SMT
<1> QED
  BY <1>8, <1>10, SMT DEF fg

-----------------------------------------------------------------------------

LEMMA SystemMain ==
    ASSUME TypeOK, InstallInv, HandlerInv, SystemInv, Main \/ Escape
    PROVE  SystemInv'
<1> USE DEF Goto, Pending, InstallInv, SystemInv, TypeOK, MainTypeOK, StaticsTypeOK,
       MachineTypeOK
<1>1. CASE ClearYm \/ StartTimerB \/ Silence
  BY <1>1 DEF ClearYm, StartTimerB, Silence, Address, Data
<1>2. CASE SetCallback \/ TakeVector \/ SetTotal \/ SetCounter
  BY <1>2 DEF SetCallback, TakeVector, SetTotal, SetCounter
<1>3. CASE ProgramPit \/ RestorePit
  BY <1>3 DEF ProgramPit, RestorePit, SetPit
<1>4. CASE Unmask \/ Mask
  BY <1>4 DEF Unmask, Mask, SetMask
<1>5. CASE StartStream \/ Escape \/ LeaveLoop
  BY <1>5 DEF StartStream, Escape, LeaveLoop
<1>6. CASE RequestStop \/ Wait \/ RestoreVector \/ ForgetCallback
  BY <1>6 DEF RequestStop, Wait, RestoreVector, ForgetCallback
<1> QED
  BY <1>1, <1>2, <1>3, <1>4, <1>5, <1>6 DEF Main

LEMMA SystemHandler ==
    ASSUME TypeOK, InstallInv, HandlerInv, SystemInv, Handler
    PROVE  SystemInv'
<1> USE DEF Inside, Sends, Pending, InstallInv, HandlerInv, SystemInv, Served,
       TypeOK, MainTypeOK, StaticsTypeOK, MachineTypeOK
<1>1. CASE OldHandler \/ Enter
  <2>1. CASE irq_number = 0
    <3>1. /\ UNCHANGED <<irq_number, pc, rate_in_hertz, masked, late>>
          /\ handler' # "none" \/ (OldHandler /\ in_service' = in_service)
          /\ handler = "none" /\ request /\ ~request'
      BY <1>1, <2>1 DEF OldHandler, Enter
    <3> QED
      BY <2>1, <3>1 DEF OldHandler
  <2>2. CASE irq_number # 0
    <3>1. Keep(0, 0) /\ UNCHANGED irq_number
      BY <1>1, <2>2 DEF OldHandler, Enter, Period
    <3>2. owed' = owed + 0 - (BiosPeriod * 0) \/ owed' = owed
      BY <3>1 DEF Keep
    <3>3. owed' = 0 /\ given' = 0
      BY <2>2, <3>1, <3>2, SMT DEF Keep, BiosPeriod
    <3> QED
      BY <2>2, <3>1, <3>3
  <2> QED
    BY <2>1, <2>2
<1>2. CASE CallbackWrites \/ CallbackReturns
  <2>1. UNCHANGED <<config, main, pic, clock>> /\ handler # "none" /\ handler' # "none"
    BY <1>2 DEF CallbackWrites, CallbackReturns
  <2> QED
    BY <2>1
<1>3. CASE Account
  BY <1>3 DEF Account
<1>4. CASE SendEoi \/ Reload \/ Acknowledge
  BY <1>4 DEF SendEoi, Reload, Acknowledge
<1> QED
  BY <1>1, <1>2, <1>3, <1>4 DEF Handler

LEMMA SystemMachine ==
    ASSUME TypeOK, HandlerInv, SystemInv, PitTick \/ TimerBOverflows \/ OtherDevice
    PROVE  SystemInv'
<1> USE DEF Device, HandlerInv, SystemInv
<1>1. CASE PitTick
  <2>1. pc \in {"total", "counter", "program", "restore_vector"} \/ handler # "none" =>
           ~late /\ late'
    BY <1>1 DEF PitTick, InTime, Tight
  <2> QED
    BY <1>1, <2>1 DEF PitTick
<1>2. CASE TimerBOverflows \/ OtherDevice
  BY <1>2 DEF TimerBOverflows, OtherDevice
<1> QED
  BY <1>1, <1>2

-----------------------------------------------------------------------------

\* The counter of a balanced clock does not wrap.
LEMMA CounterStep ==
    ASSUME TypeOK, Fast, Balanced, Account
    PROVE  LET chain == g_interrupt_counter >= InterruptTotal(rate_in_hertz)
           IN  /\ Balanced'
               /\ chain => g_interrupt_counter' =
                               g_interrupt_counter + 256 - InterruptTotal(rate_in_hertz)
               /\ ~chain => g_interrupt_counter' = g_interrupt_counter + 256
<1> DEFINE t == InterruptTotal(rate_in_hertz)
           c == g_interrupt_counter
<1>1. t \in Nat /\ 256 <= t /\ t + 256 < Word
  BY FastRate, RateTyped
<1>2. g_interrupt_total = t /\ c \in Nat /\ c < t + 256
  BY <1>1 DEF Balanced, FIXED_POINT_ONE
<1>3. /\ UNCHANGED <<g_interrupt_total, rate_in_hertz>>
      /\ c' = (c - (IF c >= t THEN t ELSE 0) + 256) % Word
  BY <1>2 DEF Account, Inside, FIXED_POINT_ONE
<1> HIDE DEF t, c
<1>4. CASE c >= t
  <2>1. c' = (c - t + 256) % Word
    BY <1>3, <1>4
  <2>2. c - t + 256 \in 0 .. Word - 1
    BY <1>1, <1>2, <1>4, TimerAssumption, SMT
  <2>3. c' = c - t + 256
    BY <2>1, <2>2, TimerAssumption, SMT
  <2> QED
    BY <1>1, <1>2, <1>3, <1>4, <2>3, SMT DEF Balanced, FIXED_POINT_ONE, t, c
<1>5. CASE ~(c >= t)
  <2>1. c' = (c - 0 + 256) % Word
    BY <1>3, <1>5
  <2>2. c - 0 + 256 \in 0 .. Word - 1
    BY <1>1, <1>2, <1>5, TimerAssumption, SMT
  <2>3. c' = c + 256
    BY <1>2, <2>1, <2>2, TimerAssumption, SMT
  <2> QED
    BY <1>1, <1>2, <1>3, <1>5, <2>3, SMT DEF Balanced, FIXED_POINT_ONE, t, c
<1> QED
  BY <1>4, <1>5

LEMMA CounterMain ==
    ASSUME TypeOK, InstallInv, HandlerInv, SystemInv, CounterInv, Main \/ Escape
    PROVE  CounterInv'
<1> USE DEF Goto, InstallInv, SystemInv, CounterInv, Served, Balanced, TypeOK, MainTypeOK,
       StaticsTypeOK, MachineTypeOK
<1>1. CASE ClearYm \/ StartTimerB \/ Silence
  BY <1>1 DEF ClearYm, StartTimerB, Silence, Address, Data
<1>2. CASE SetCallback
  BY <1>2 DEF SetCallback
<1>3. CASE TakeVector
  BY <1>3 DEF TakeVector
<1>4. CASE SetTotal
  BY <1>4 DEF SetTotal
<1>5. CASE SetCounter
  BY <1>5, RateTyped DEF SetCounter, FIXED_POINT_ONE
<1>6. CASE ProgramPit
  BY <1>6 DEF ProgramPit, SetPit, Keep
<1>7. CASE RestorePit
  BY <1>7 DEF RestorePit, SetPit, Keep
<1>8. CASE Unmask \/ Mask
  BY <1>8 DEF Unmask, Mask, SetMask
<1>9. CASE StartStream \/ Escape \/ LeaveLoop
  BY <1>9 DEF StartStream, Escape, LeaveLoop
<1>10. CASE RequestStop \/ Wait \/ RestoreVector \/ ForgetCallback
  BY <1>10 DEF RequestStop, Wait, RestoreVector, ForgetCallback
<1> QED
  BY <1>1, <1>2, <1>3, <1>4, <1>5, <1>6, <1>7, <1>8, <1>9, <1>10 DEF Main

LEMMA CounterHandler ==
    ASSUME TypeOK, InstallInv, HandlerInv, SystemInv, CounterInv, Handler
    PROVE  CounterInv'
<1> USE DEF Inside, Sends, Pending, InstallInv, HandlerInv, SystemInv, CounterInv, Served
<1>1. CASE OldHandler \/ Enter
  <2>1. UNCHANGED <<config, main, statics, pit, late>> /\ request /\ (pit = "fast" \/ given' = given)
    BY <1>1 DEF OldHandler, Enter, Keep, TypeOK, MachineTypeOK
  <2> QED
    BY <2>1 DEF Balanced
<1>2. CASE CallbackWrites \/ CallbackReturns
  <2>1. UNCHANGED <<config, main, statics, pic, clock>> /\ handler # "none" /\ handler' # "none"
    BY <1>2 DEF CallbackWrites, CallbackReturns
  <2> QED
    BY <2>1 DEF Balanced
<1>3. CASE Account
  <2>1. /\ UNCHANGED <<config, main, g_interrupt_total, pit, request, late>>
        /\ handler # "none" /\ handler' = "none" /\ (pit = "fast" \/ given' = given)
    BY <1>3 DEF Account, Keep, TypeOK, MachineTypeOK
  <2>2. CASE Fast /\ Balanced
    <3>1. Balanced' /\ (g_interrupt_counter = InterruptTotal(rate_in_hertz) =>
                            g_interrupt_counter' = FIXED_POINT_ONE)
      BY <1>3, <2>2, CounterStep, RateTyped DEF FIXED_POINT_ONE
    <3> QED
      BY <2>1, <2>2, <3>1
  <2>3. CASE ~(Fast /\ Balanced)
    BY <2>1, <2>3
  <2> QED
    BY <2>2, <2>3
<1>4. CASE SendEoi \/ Reload \/ Acknowledge
  BY <1>4 DEF SendEoi, Reload, Acknowledge
<1> QED
  BY <1>1, <1>2, <1>3, <1>4 DEF Handler

LEMMA CounterMachine ==
    ASSUME TypeOK, HandlerInv, SystemInv, CounterInv, PitTick \/ TimerBOverflows \/ OtherDevice
    PROVE  CounterInv'
<1> USE DEF Device, CounterInv, Served, Balanced
<1>1. CASE PitTick
  <2>1. pc \in {"program", "restore_vector"} => ~late
    BY <1>1 DEF PitTick, InTime, Tight
  <2> QED
    BY <1>1, <2>1 DEF PitTick
<1>2. CASE TimerBOverflows \/ OtherDevice
  BY <1>2 DEF TimerBOverflows, OtherDevice, HandlerInv
<1> QED
  BY <1>1, <1>2

-----------------------------------------------------------------------------

LEMMA KeptSame ==
    ASSUME ClockKept, UNCHANGED <<rate_in_hertz, owed, given>>
    PROVE  ClockKept'
BY DEF ClockKept, Allowed, Drift

LEMMA DebtSame ==
    ASSUME UNCHANGED <<irq_number, rate_in_hertz, pit, owed, handler>>
    PROVE  Debt' = Debt
BY DEF Debt, Period

LEMMA SkewSame ==
    ASSUME Debt' = Debt, UNCHANGED <<rate_in_hertz, given, g_interrupt_counter>>
    PROVE  Skew' = Skew
BY DEF Skew, Error

\* What is lost of a period adds to the debt, and so to the skew.
LEMMA SkewLost ==
    ASSUME TypeOK, InstallInv, Fast, g_interrupt_counter \in Int, NEW lost \in Int,
           Debt' = Debt + lost, UNCHANGED <<rate_in_hertz, given, g_interrupt_counter>>
    PROVE  Skew \in Int /\ Skew' = Skew + (256 * lost)
<1> DEFINE eg == Error * given
           dc == PitCounter(rate_in_hertz) * (InterruptTotal(rate_in_hertz) - g_interrupt_counter)
<1>1. Debt \in Int /\ eg \in Int /\ dc \in Int
  <2>1. Error \in Int /\ PitCounter(rate_in_hertz) \in Nat /\ InterruptTotal(rate_in_hertz) \in Nat
    BY FastRate
  <2>2. given \in Int /\ Debt \in Int
    BY DebtTyped DEF TypeOK, MachineTypeOK
  <2> QED
    BY <2>1, <2>2, SMT
<1>2. Skew = (256 * Debt) - eg + dc
  BY DEF Skew, FIXED_POINT_ONE
<1>3. Skew' = (256 * Debt') - eg + dc
  BY DEF Skew, Error, FIXED_POINT_ONE
<1> HIDE DEF eg, dc
<1> QED
  BY <1>1, <1>2, <1>3, SMT

\* An IRQ0 and its tick for the BIOS, or none, leave the skew as it was.
LEMMA SkewKept ==
    ASSUME TypeOK, InstallInv, HandlerInv, Fast, Balanced, pit = "fast", given < MaxGiven, Account
    PROVE  Skew' = Skew
<1> DEFINE d == PitCounter(rate_in_hertz)
           t == InterruptTotal(rate_in_hertz)
           c == g_interrupt_counter
           k == IF c >= t THEN 1 ELSE 0
<1>1. d \in Nat /\ t \in Nat
  BY FastRate
<1>2. c \in Nat /\ g_interrupt_total = t /\ given \in Nat /\ Debt \in Int
  BY <1>1, DebtTyped DEF Balanced, TypeOK, StaticsTypeOK, MachineTypeOK, FIXED_POINT_ONE
<1>3. k \in {0, 1}
  OBVIOUS
<1>4. c' = c + 256 - (t * k)
  BY <1>1, <1>2, CounterStep
<1>5. irq_number = 0 /\ handler # "none" /\ handler' = "none" /\ owed = Debt + d
  BY DebtTyped DEF Account, Inside, HandlerInv, Period
<1>6. UNCHANGED <<rate_in_hertz, pit>>
  BY DEF Account, Inside
<1>7. Keep(0, k)
  BY <1>2 DEF Account
<1> HIDE DEF k
<1>8. owed' = Debt + d - (65536 * k) /\ given' = given + k
  BY <1>1, <1>2, <1>3, <1>5, <1>7, SMT DEF Keep, BiosPeriod
<1>9. Debt' = Debt + d - (65536 * k)
  BY <1>1, <1>2, <1>3, <1>5, <1>8, SMT DEF Debt
<1>10. Skew = (256 * Debt) - (((d * t) - (65536 * 256)) * given) + (d * (t - c))
  BY DEF Skew, Error, BiosPeriod, FIXED_POINT_ONE
<1>11. Skew' = (256 * Debt') - (((d * t) - (65536 * 256)) * given') + (d * (t - c'))
  BY <1>6 DEF Skew, Error, BiosPeriod, FIXED_POINT_ONE
<1> HIDE DEF d, t, c
<1>12. Skew' = (256 * (Debt + d - (65536 * k))) - (((d * t) - (65536 * 256)) * (given + k))
                   + (d * (t - (c + 256 - (t * k))))
  BY <1>4, <1>8, <1>9, <1>11
<1> QED
  BY <1>1, <1>2, <1>3, <1>10, <1>12, SkewStep

\* The limits of SkewIn.
LEMMA SkewLimits ==
    /\ SkewIn(2) <=> 0 <= Skew /\ Skew <= 33619968
    /\ SkewIn(3) <=> 0 <= Skew /\ Skew <= 50397184
    /\ SkewIn(2)' <=> 0 <= Skew' /\ Skew' <= 33619968
    /\ SkewIn(3)' <=> 0 <= Skew' /\ Skew' <= 50397184
BY SMT DEF SkewIn, BiosPeriod, FIXED_POINT_ONE

\* A step of SetPit as long as the history is kept.
LEMMA PitSet ==
    ASSUME TypeOK, InstallInv, ProgramPit \/ RestorePit, given < MaxGiven
    PROVE  /\ irq_number = 0 /\ Period \in Nat /\ 18 <= Period /\ Period <= 65536
           /\ Debt \in Int /\ Debt = owed
           /\ UNCHANGED <<irq_number, rate_in_hertz, given, counters>>
           /\ owed' \in {owed, owed + Period - 1} /\ Debt' = owed'
           /\ Debt' \in {Debt, Debt + Period - 1}
<1>1. irq_number = 0
  BY DEF ProgramPit, RestorePit, SetPit, Goto, InstallInv
<1>2. Period \in Nat /\ Period <= 65536 /\ Debt \in Int /\ owed \in Int
  BY DebtTyped DEF TypeOK, MachineTypeOK
<1>3. 18 <= Period
  <2>1. CASE pit = "fast"
    <3>1. Fast /\ Period = PitCounter(rate_in_hertz)
      BY <1>1, <2>1 DEF InstallInv, Period
    <3> QED
      BY <3>1, FastRate, SMT
  <2>2. CASE pit # "fast"
    BY <1>1, <2>2, SMT DEF Period, BiosPeriod
  <2> QED
    BY <2>1, <2>2
<1>4. UNCHANGED <<irq_number, rate_in_hertz, handler, counters>> /\ handler = "none"
  BY DEF ProgramPit, RestorePit, SetPit, Goto
<1>5. PICK lost \in {0, Period - 1} : Keep(lost, 0)
  BY DEF ProgramPit, RestorePit, SetPit
<1>6. owed' = owed + lost - (65536 * 0) /\ given' = given + (IF pit = "fast" THEN 0 ELSE 0)
  BY <1>5, SMT DEF Keep, BiosPeriod
<1>7. owed' \in {owed, owed + Period - 1} /\ given' = given /\ owed' \in Int
  BY <1>2, <1>5, <1>6 DEF TypeOK, MachineTypeOK
<1>8. Debt = owed
  BY <1>2, <1>4, DebtTyped, SMT
<1>9. Debt' = owed'
  <2>1. Debt' = owed' - 0
    BY <1>4 DEF Debt
  <2>2. owed' \in Int
    BY <1>7
  <2>3. \A n \in Int : n - 0 = n
    OBVIOUS
  <2> QED
    BY <2>1, <2>2, <2>3, Zenon
<1> QED
  BY <1>1, <1>2, <1>3, <1>4, <1>7, <1>8, <1>9

\* What starting the timer leaves over.
LEMMA ProgramSkew ==
    ASSUME TypeOK, InstallInv, CounterInv, DebtInv, ProgramPit, Fast, given < MaxGiven
    PROVE  SkewIn(2)'
<1> DEFINE d == PitCounter(rate_in_hertz)
           t == InterruptTotal(rate_in_hertz)
           c == g_interrupt_counter
<1>1. irq_number = 0 /\ pc = "program" /\ pit # "fast"
  BY PitSet DEF ProgramPit, SetPit, Goto, InstallInv
<1>2. Period = 65536 /\ Debt \in Int /\ Debt' \in {Debt, Debt + 65535}
      /\ UNCHANGED <<rate_in_hertz, given, g_interrupt_counter>>
  <2>1. Period = 65536
    BY <1>1 DEF Period, BiosPeriod
  <2> QED
    BY <2>1, PitSet, SMT
<1>3. given = 0 /\ c \in Int /\ ((c = t /\ Debt \in {0, 65536}) \/ (c = 256 /\ Debt = 0))
  BY <1>1 DEF CounterInv, DebtInv, FastDebt, Balanced, BiosPeriod, FIXED_POINT_ONE
<1>4. /\ d \in Nat /\ d <= 62799 /\ 18 <= d /\ t \in Nat /\ 256 <= t
      /\ Error = (d * t) - 16777216 /\ Error \in Int /\ Error <= 4875
  BY FastRate
<1>5. Skew = (256 * Debt) - (Error * given) + (d * (t - c))
  BY DEF Skew, FIXED_POINT_ONE
<1> HIDE DEF d, t, c
<1>6. Skew \in Int /\ 0 <= Skew /\ Skew <= 16777483
  <2>1. Skew = (256 * Debt) + (d * (t - c))
    BY <1>2, <1>3, <1>4, <1>5, SMT
  <2>2. CASE c = t /\ Debt \in {0, 65536}
    BY <1>4, <2>1, <2>2, SMT
  <2>3. CASE c = 256 /\ Debt = 0
    <3>1. Skew = (d * t) - (256 * d)
      BY <1>4, <2>1, <2>3, SMT
    <3>2. d * 256 <= d * t
      BY <1>4, Scale, SMT
    <3> QED
      BY <1>4, <3>1, <3>2, SMT
  <2> QED
    BY <1>3, <2>2, <2>3
<1>7. PICK lost \in {0, 65535} : Debt' = Debt + lost
  BY <1>2, SMT
<1>8. Skew' = Skew + (256 * lost)
  BY <1>2, <1>3, <1>7, SkewLost DEF c
<1>9. 0 <= Skew' /\ Skew' <= 33619968
  BY <1>6, <1>7, <1>8, SMT
<1> QED
  BY <1>9, SkewLimits

\* What stopping it adds.
LEMMA RestoreSkew ==
    ASSUME TypeOK, InstallInv, CounterInv, DebtInv, RestorePit, Fast, given < MaxGiven
    PROVE  SkewIn(3)'
<1>1. irq_number = 0 /\ pc = "restore_pit"
  BY PitSet DEF RestorePit, SetPit, Goto
<1>2. SkewIn(2) /\ pit = "fast" /\ g_interrupt_counter \in Int
  BY <1>1 DEF CounterInv, DebtInv, FastDebt, Balanced
<1>3. Period \in Nat /\ 18 <= Period /\ Period <= 62799
  <2>1. Period = PitCounter(rate_in_hertz)
    BY <1>1, <1>2 DEF Period
  <2> QED
    BY <2>1, FastRate
<1>4. Debt \in Int /\ Debt' \in {Debt, Debt + Period - 1}
      /\ UNCHANGED <<rate_in_hertz, given, g_interrupt_counter>>
  BY PitSet
<1>5. PICK lost \in {0, Period - 1} : Debt' = Debt + lost
  BY <1>3, <1>4, SMT
<1>6. Skew \in Int /\ Skew' = Skew + (256 * lost)
  BY <1>2, <1>3, <1>4, <1>5, SkewLost
<1>7. 0 <= Skew' /\ Skew' <= 50397184
  BY <1>2, <1>3, <1>5, <1>6, SkewLimits, SMT
<1> QED
  BY <1>7, SkewLimits

-----------------------------------------------------------------------------

LEMMA DebtMain ==
    ASSUME TypeOK, InstallInv, HandlerInv, SystemInv, CounterInv, DebtInv, Main \/ Escape
    PROVE  DebtInv'
<1> SUFFICES ASSUME irq_number' = 0, given' < MaxGiven
             PROVE  (IF Fast THEN FastDebt ELSE SlowDebt)'
  BY DEF DebtInv
<1>1. CASE ProgramPit \/ RestorePit
  <2>1. given < MaxGiven /\ irq_number = 0 /\ Fast' = Fast
    BY <1>1 DEF ProgramPit, RestorePit, SetPit, Goto, Keep, TypeOK, MachineTypeOK
  <2>2. CASE Fast
    <3>1. CASE ProgramPit
      BY <2>1, <2>2, <3>1, ProgramSkew DEF ProgramPit, SetPit, Goto, FastDebt
    <3>2. CASE RestorePit
      BY <2>1, <2>2, <3>2, RestoreSkew DEF RestorePit, SetPit, Goto, FastDebt
    <3> QED
      BY <1>1, <3>1, <3>2
  <2>3. CASE ~Fast
    <3>1. Period = 65536
      BY <2>1, <2>3 DEF InstallInv, Period, BiosPeriod
    <3>2. Debt' \in {Debt, Debt + 65535} /\ Debt \in Int
      BY <1>1, <2>1, <3>1, PitSet, SMT
    <3>3. SlowDebt
      BY <2>1, <2>3 DEF DebtInv
    <3>4. CASE ProgramPit
      <4>1. pc = "program" /\ pc' = "start"
        BY <3>4 DEF ProgramPit, SetPit, Goto
      <4>2. Debt = 0
        BY <3>3, <4>1 DEF SlowDebt, Stopped
      <4>3. Debt' \in 0 .. BiosPeriod
        BY <3>2, <4>2, SMT DEF BiosPeriod
      <4> QED
        BY <2>1, <2>3, <4>1, <4>3, Zenon DEF SlowDebt
    <3>5. CASE RestorePit
      <4>1. pc = "restore_pit" /\ pc' = "restore_vector"
        BY <3>5 DEF RestorePit, SetPit, Goto
      <4>2. Debt \in 0 .. BiosPeriod
        BY <3>3, <4>1, Zenon DEF SlowDebt
      <4>3. Debt' \in 0 .. 2 * BiosPeriod
        <5>1. 0 <= Debt /\ Debt <= 65536
          BY <3>2, <4>2, SMT DEF BiosPeriod
        <5>2. 0 <= Debt' /\ Debt' <= 131072 /\ Debt' \in Int
          BY <3>2, <5>1, SMT
        <5>3. 2 * BiosPeriod = 131072
          BY SMT DEF BiosPeriod
        <5> QED
          BY <5>2, <5>3, SMT
      <4>4. pc' \notin {"start", "playing", "restore_pit"}
        BY <4>1
      <4> QED
        BY <2>1, <2>3, <4>1, <4>3, <4>4, Zenon DEF SlowDebt
    <3> QED
      BY <1>1, <3>4, <3>5
  <2> QED
    BY <2>2, <2>3
<1>2. CASE ~(ProgramPit \/ RestorePit)
  <2>1. UNCHANGED <<irq_number, rate_in_hertz, pit, owed, given, handler, late, request>>
    BY <1>2 DEF Main, Goto, ClearYm, Address, Data, SetCallback, TakeVector, SetTotal,
           SetCounter, Unmask, SetMask, StartTimerB, StartStream, Escape, LeaveLoop,
           RequestStop, Wait, Mask, RestoreVector, ForgetCallback, Silence
  <2>2. irq_number = 0 /\ given < MaxGiven /\ Debt' = Debt /\ Fast' = Fast
    BY <2>1, DebtSame
  <2>3. IF Fast THEN FastDebt ELSE SlowDebt
    BY <2>2 DEF DebtInv
  <2>4. UNCHANGED g_interrupt_counter => (SkewIn(2)' <=> SkewIn(2)) /\ (SkewIn(3)' <=> SkewIn(3))
    BY <2>1, <2>2, SkewSame DEF SkewIn
  <2>5. Served' = Served
    BY <2>1 DEF Served
  <2>6. CASE SetCallback \/ TakeVector \/ SetTotal
    BY <2>1, <2>2, <2>3, <2>6 DEF SetCallback, TakeVector, SetTotal, Goto, FastDebt, SlowDebt,
           InstallInv, SystemInv
  <2>7. CASE SetCounter
    BY <2>1, <2>2, <2>3, <2>5, <2>7 DEF SetCounter, Goto, FastDebt, SlowDebt, SystemInv, CounterInv
  <2>8. CASE ClearYm \/ Silence
    BY <2>1, <2>2, <2>3, <2>8 DEF ClearYm, Silence, Address, Data, Goto, FastDebt, SlowDebt
  <2>9. CASE StartStream \/ Escape \/ LeaveLoop
    <3>1. /\ pc \in {"start", "playing"} /\ pc' \in {"playing", "silence_address", "restore_pit"}
          /\ UNCHANGED g_interrupt_counter
          /\ pc' = "silence_address" => ~g_p_timer_callback /\ pc = "playing"
      BY <2>2, <2>9 DEF StartStream, Escape, LeaveLoop, Goto
    <3>2. pc' \in {"playing", "restore_pit"}
      BY <2>2, <3>1 DEF InstallInv
    <3> QED
      BY <2>2, <2>3, <2>4, <3>1, <3>2 DEF FastDebt, SlowDebt
  <2>10. CASE RestoreVector \/ ForgetCallback
    BY <2>1, <2>2, <2>3, <2>10 DEF RestoreVector, ForgetCallback, Goto, FastDebt, SlowDebt
  <2>11. CASE Unmask \/ StartTimerB \/ RequestStop \/ Wait \/ Mask
    BY <2>2, <2>11 DEF Unmask, StartTimerB, RequestStop, Wait, Mask, SetMask, Address, Data, Goto,
           InstallInv
  <2> QED
    BY <1>2, <2>6, <2>7, <2>8, <2>9, <2>10, <2>11 DEF Main
<1> QED
  BY <1>1, <1>2

LEMMA DebtHandler ==
    ASSUME TypeOK, InstallInv, HandlerInv, SystemInv, CounterInv, DebtInv, Handler
    PROVE  DebtInv'
<1> SUFFICES ASSUME irq_number' = 0, given' < MaxGiven
             PROVE  (IF Fast THEN FastDebt ELSE SlowDebt)'
  BY DEF DebtInv
<1>1. UNCHANGED <<irq_number, rate_in_hertz, pc, pit, late>> /\ irq_number = 0 /\ Fast' = Fast
  BY DEF Handler, Inside, Sends, OldHandler, Enter, CallbackWrites, CallbackReturns, Account,
         SendEoi, Reload, Acknowledge
<1>2. given < MaxGiven
  BY DEF Handler, Inside, Sends, OldHandler, Enter, CallbackWrites, CallbackReturns, Account,
         SendEoi, Reload, Acknowledge, Keep, TypeOK, MachineTypeOK
<1>3. IF Fast THEN FastDebt ELSE SlowDebt
  BY <1>1, <1>2 DEF DebtInv
<1>4. Period' = Period /\ Period \in Nat /\ Debt \in Int
      /\ owed = Debt + (IF handler = "none" THEN 0 ELSE Period)
  BY <1>1, DebtTyped DEF Period
<1>5. CASE OldHandler
  <2>1. vector = "old" /\ handler = "none" /\ handler' = "none"
        /\ UNCHANGED <<g_interrupt_counter, pc>> /\ pit = "bios"
    BY <1>5, <1>1 DEF OldHandler, Inside, InstallInv, TypeOK, MachineTypeOK
  <2>2. Period = 65536
    BY <1>1, <2>1 DEF Period, BiosPeriod
  <2>3. Keep(65536, 1)
    BY <1>1, <1>5, <2>2 DEF OldHandler
  <2>4. owed' = Debt
    BY <1>2, <1>4, <2>1, <2>3, SMT DEF Keep, BiosPeriod
  <2>5. Debt' = Debt
    <3>1. Debt' = owed' - 0
      BY <2>1 DEF Debt
    <3> QED
      BY <1>4, <2>4, <3>1, SMT
  <2>6. pc \notin {"counter", "program", "start", "playing", "restore_pit", "restore_vector"}
    BY <1>1, <2>1 DEF InstallInv
  <2> QED
    BY <1>1, <1>3, <2>1, <2>5, <2>6 DEF FastDebt, SlowDebt
<1>6. CASE Enter
  <2>1. handler = "none" /\ handler' # "none" /\ UNCHANGED <<g_interrupt_counter, given>>
        /\ request /\ Keep(Period, 0)
    BY <1>1, <1>2, <1>6 DEF Enter, Inside, Pending, Keep, TypeOK, MachineTypeOK
  <2>2. owed' = Debt + Period
    BY <1>2, <1>4, <2>1, SMT DEF Keep, BiosPeriod
  <2>3. Debt' = Debt
    <3>1. Debt' = owed' - Period
      BY <1>4, <2>1 DEF Debt
    <3> QED
      BY <1>4, <2>2, <3>1, SMT
  <2>4. Skew' = Skew
    BY <1>1, <2>1, <2>3, SkewSame
  <2>5. ~Served
    BY <2>1 DEF Served
  <2> QED
    BY <1>1, <1>3, <2>3, <2>4, <2>5 DEF FastDebt, SlowDebt, SkewIn
<1>7. CASE CallbackWrites \/ CallbackReturns
  <2>1. UNCHANGED <<owed, given, g_interrupt_counter>> /\ handler # "none" /\ handler' # "none"
    BY <1>7 DEF CallbackWrites, CallbackReturns, Inside, Sends
  <2>2. Debt' = Debt
    BY <1>4, <2>1 DEF Debt
  <2>3. Skew' = Skew
    BY <1>1, <2>1, <2>2, SkewSame
  <2>4. ~Served
    BY <2>1 DEF Served
  <2> QED
    BY <1>1, <1>3, <2>2, <2>3, <2>4 DEF FastDebt, SlowDebt, SkewIn
<1>8. CASE Account
  <2> DEFINE k == IF g_interrupt_counter >= g_interrupt_total THEN 1 ELSE 0
  <2>1. handler # "none" /\ handler' = "none" /\ UNCHANGED request /\ Keep(0, k)
    BY <1>8 DEF Account, Inside
  <2>2. k \in {0, 1}
    OBVIOUS
  <2>3. ~Served
    BY <2>1 DEF Served
  <2>4. vector = "timer" /\ pc \in Installed
    BY <1>1, <2>1 DEF HandlerInv, InstallInv
  <2>5. owed' = Debt + Period - (65536 * k)
    <3> HIDE DEF k
    <3> QED
      BY <1>2, <1>4, <2>1, <2>2, SMT DEF Keep, BiosPeriod
  <2>6. Debt' = Debt + Period - (65536 * k)
    <3>1. Debt' = owed' - 0
      BY <2>1 DEF Debt
    <3> HIDE DEF k
    <3> QED
      BY <1>4, <2>2, <2>5, <3>1, SMT
  <2>7. pit = "bios" => Debt' = Debt + 65536 - (65536 * k)
    BY <1>1, <2>6 DEF Period, BiosPeriod
  <2>8. CASE ~Fast
    <3>1. pit = "bios" /\ g_interrupt_total = 0 /\ g_interrupt_counter \in Nat
      BY <1>1, <2>8 DEF InstallInv, CounterInv, TypeOK, StaticsTypeOK, MachineTypeOK
    <3>2. k = 1
      BY <3>1
    <3>3. Debt' = Debt
      BY <1>4, <2>7, <3>1, <3>2, SMT
    <3> QED
      BY <1>1, <1>3, <2>8, <3>3 DEF SlowDebt
  <2>9. CASE Fast /\ pc \in {"start", "playing", "restore_pit"}
    <3>1. Balanced /\ pit = "fast"
      BY <1>1, <2>9 DEF CounterInv
    <3>2. Skew' = Skew
      BY <1>2, <1>8, <2>9, <3>1, SkewKept
    <3> QED
      BY <1>1, <1>3, <2>9, <3>2 DEF FastDebt, SkewIn
  <2>10. CASE Fast /\ pc \in {"total", "counter", "program", "restore_vector"}
    <3>1. pit = "bios" /\ Served'
      BY <1>1, <2>1, <2>10 DEF Served, SystemInv, InstallInv, TypeOK, MachineTypeOK
    <3>2. pc \in {"total", "counter", "program"} => Debt = 0
      BY <1>3, <2>3, <2>10 DEF FastDebt
    <3>3. pc \in {"total", "counter", "program"} => Debt' \in {0, 65536}
      BY <2>2, <2>7, <3>1, <3>2, SMT
    <3>4. pc \in {"total", "program"} => Debt' = 0
      <4>1. pc = "total" => g_interrupt_total = 0
        BY <1>1, <2>10 DEF CounterInv
      <4>2. pc = "program" => g_interrupt_counter = g_interrupt_total
        BY <1>1, <2>3, <2>10 DEF CounterInv, Balanced
      <4>3. pc \in {"total", "program"} => k = 1
        BY <4>1, <4>2 DEF TypeOK, StaticsTypeOK
      <4> QED
        BY <2>7, <3>1, <3>2, <4>3, SMT
    <3> QED
      BY <1>1, <2>10, <3>1, <3>3, <3>4 DEF FastDebt, BiosPeriod
  <2> QED
    BY <1>1, <2>4, <2>8, <2>9, <2>10 DEF InstallInv
<1>9. CASE SendEoi \/ Reload \/ Acknowledge
  BY <1>1, <1>9 DEF SendEoi, Reload, Acknowledge, Inside, Sends, HandlerInv
<1> QED
  BY <1>5, <1>6, <1>7, <1>8, <1>9 DEF Handler

LEMMA DebtMachine ==
    ASSUME TypeOK, HandlerInv, SystemInv, DebtInv, PitTick \/ TimerBOverflows \/ OtherDevice
    PROVE  DebtInv'
<1>1. UNCHANGED <<irq_number, rate_in_hertz, pc, pit, owed, given, handler, g_interrupt_counter>>
  BY DEF PitTick, TimerBOverflows, OtherDevice, Device
<1>2. Debt' = Debt /\ Skew' = Skew /\ Fast' = Fast
  BY <1>1, DebtSame, SkewSame
<1>3. CASE PitTick
  <2>1. pc \in {"counter", "program", "restore_vector"} => ~Served
    BY <1>3 DEF PitTick, InTime, Tight, Served
  <2> QED
    BY <1>1, <1>2, <2>1 DEF DebtInv, FastDebt, SlowDebt, SkewIn
<1>4. CASE TimerBOverflows \/ OtherDevice
  BY <1>1, <1>4 DEF TimerBOverflows, OtherDevice, HandlerInv, DebtInv
<1> QED
  BY <1>3, <1>4

-----------------------------------------------------------------------------

\* ClockKept in numbers, and what the timer keeps the debt near to.
Kept(clocks, fg) ==
    -(65536 * (1280 + fg)) <= 256 * clocks /\ 256 * clocks < 65536 * (1280 + fg)

Near(debt, fg) ==
    -(65536 * (257 + fg)) <= 256 * debt /\ 256 * debt < 65536 * (1024 + fg)

LEMMA KeptLimits ==
    ASSUME TypeOK
    PROVE  Drift * given \in Nat /\ (ClockKept <=> Kept(owed, Drift * given))
<1>1. Drift \in Nat /\ given \in Nat
  BY DEF Drift, TypeOK, MachineTypeOK
<1>2. Drift * given \in Nat
  BY <1>1, SMT
<1>3. Allowed = 65536 * (1280 + (Drift * given))
  BY SMT DEF Allowed, BiosPeriod, FIXED_POINT_ONE
<1> QED
  BY <1>2, <1>3 DEF ClockKept, Kept, FIXED_POINT_ONE

\* Where the timer's handler may run, or main is about to stop it, the debt is
\* far enough from what is allowed.
LEMMA DebtNear ==
    ASSUME TypeOK, InstallInv, CounterInv, DebtInv, irq_number = 0, given < MaxGiven,
           vector = "timer", pc = "restore_vector" => ~Served
    PROVE  Near(Debt, Drift * given)
<1>1. Drift * given \in Nat /\ Debt \in Int
  BY KeptLimits, DebtTyped
<1>2. pc \in {"total", "counter", "program", "start", "playing", "restore_pit", "restore_vector"}
  BY DEF InstallInv
<1>3. CASE ~Fast
  <2>1. 0 <= Debt /\ Debt <= 131072
    <3>1. SlowDebt
      BY <1>3 DEF DebtInv
    <3>2. Debt = 0 \/ Debt \in 0 .. BiosPeriod \/ Debt \in 0 .. 2 * BiosPeriod
      BY <3>1, Zenon DEF SlowDebt
    <3>3. BiosPeriod \in Nat
      BY DEF BiosPeriod
    <3>4. 0 <= Debt /\ Debt <= 2 * BiosPeriod
      BY <1>1, <3>2, <3>3, SMT
    <3> QED
      BY <1>1, <3>4, SMT DEF BiosPeriod
  <2> DEFINE fg == Drift * given
  <2>2. fg \in Nat
    BY <1>1
  <2> HIDE DEF fg
  <2>3. Near(Debt, fg)
    BY <1>1, <2>1, <2>2, SMT DEF Near
  <2> QED
    BY <2>3 DEF fg
<1>4. CASE Fast /\ pc \in {"total", "counter", "program"}
  <2>1. Debt \in {0, 65536}
    BY <1>4 DEF DebtInv, FastDebt, BiosPeriod
  <2> DEFINE fg == Drift * given
  <2>2. fg \in Nat
    BY <1>1
  <2> HIDE DEF fg
  <2>3. Near(Debt, fg)
    BY <1>1, <2>1, <2>2, SMT DEF Near
  <2> QED
    BY <2>3 DEF fg
<1>5. CASE Fast /\ pc \in {"start", "playing", "restore_pit", "restore_vector"}
  <2>1. Balanced /\ (SkewIn(2) \/ SkewIn(3))
    BY <1>5 DEF CounterInv, DebtInv, FastDebt
  <2>2. SkewIn(3)
    <3>1. Skew \in Int
      <4>1. Error \in Int /\ PitCounter(rate_in_hertz) \in Nat /\ InterruptTotal(rate_in_hertz) \in Nat
        BY <1>5, FastRate
      <4>2. g_interrupt_counter \in Int /\ given \in Int
        BY <2>1 DEF Balanced, TypeOK, MachineTypeOK
      <4> QED
        BY <1>1, <4>1, <4>2, SMT DEF Skew, FIXED_POINT_ONE
    <3> QED
      BY <2>1, <3>1, SkewLimits, SMT
  <2> QED
    BY <1>5, <2>1, <2>2, DebtBounds DEF Near
<1> QED
  BY <1>2, <1>3, <1>4, <1>5

\* From there an IRQ0, a tick of the BIOS or a lost period does no harm.
LEMMA NearIsKept ==
    ASSUME NEW debt \in Int, NEW after \in Int, NEW fg \in Nat, NEW fg2 \in Nat, fg <= fg2,
           Near(debt, fg), debt - BiosPeriod <= after, after <= debt + BiosPeriod
    PROVE  Kept(after, fg2)
<1>1. 256 * after < 65536 * (1280 + fg)
  BY SMT DEF Near, BiosPeriod
<1>2. -(65536 * (1280 + fg)) <= 256 * after
  BY SMT DEF Near, BiosPeriod
<1>3. fg \in Int /\ fg2 \in Int
  OBVIOUS
<1> QED
  BY <1>1, <1>2, <1>3, SMT DEF Kept

\* More ticks allow for more.
LEMMA DriftGrows ==
    ASSUME NEW d \in {1, 16}, NEW a \in Nat, NEW b \in Nat, a <= b
    PROVE  d * a \in Nat /\ d * b \in Nat /\ d * a <= d * b
BY SMT

LEMMA KeptMain ==
    ASSUME TypeOK, InstallInv, CounterInv, DebtInv, ClockKept, Main \/ Escape
    PROVE  ClockKept'
<1>1. CASE ~(ProgramPit \/ RestorePit)
  <2>1. UNCHANGED <<rate_in_hertz, owed, given>>
    BY <1>1 DEF Main, Goto, ClearYm, Address, Data, SetCallback, TakeVector, SetTotal,
           SetCounter, Unmask, SetMask, StartTimerB, StartStream, Escape, LeaveLoop,
           RequestStop, Wait, Mask, RestoreVector, ForgetCallback, Silence
  <2> QED
    BY <2>1, KeptSame
<1>2. CASE (ProgramPit \/ RestorePit) /\ ~(given < MaxGiven)
  <2>1. UNCHANGED <<rate_in_hertz, owed, given>>
    BY <1>2 DEF ProgramPit, RestorePit, SetPit, Goto, Keep
  <2> QED
    BY <2>1, KeptSame
<1>3. CASE (ProgramPit \/ RestorePit) /\ given < MaxGiven
  <2> DEFINE fg == Drift * given
  <2>1. /\ irq_number = 0 /\ Period \in Nat /\ 18 <= Period /\ Period <= 65536
        /\ Debt \in Int /\ Debt = owed
        /\ UNCHANGED <<rate_in_hertz, given>>
        /\ owed' \in {owed, owed + Period - 1}
    BY <1>3, PitSet
  <2>2. pc \in {"program", "restore_pit"} /\ vector = "timer"
    BY <1>3, <2>1 DEF ProgramPit, RestorePit, SetPit, Goto, InstallInv
  <2>3. Near(Debt, fg)
    BY <1>3, <2>1, <2>2, DebtNear
  <2>4. fg \in Nat
    BY KeptLimits
  <2> HIDE DEF fg
  <2>5. owed' \in Int /\ owed <= owed' /\ owed' <= owed + 65535
    BY <2>1, SMT
  <2>6. Kept(owed', fg)
    <3>1. Debt - BiosPeriod <= owed' /\ owed' <= Debt + BiosPeriod
      BY <2>1, <2>5, SMT DEF BiosPeriod
    <3>2. Debt \in Int /\ owed' \in Int /\ fg <= fg
      BY <2>1, <2>4, <2>5, SMT
    <3> QED
      BY <2>3, <2>4, <3>1, <3>2, NearIsKept, Zenon
  <2>7. Allowed' = 65536 * (1280 + fg)
    BY <2>1, SMT DEF Allowed, Drift, BiosPeriod, FIXED_POINT_ONE, fg
  <2> QED
    BY <2>6, <2>7 DEF ClockKept, Kept, FIXED_POINT_ONE
<1> QED
  BY <1>1, <1>2, <1>3

LEMMA KeptHandler ==
    ASSUME TypeOK, TypeOK', InstallInv, HandlerInv, SystemInv, SystemInv', CounterInv, DebtInv,
           ClockKept, Handler
    PROVE  ClockKept'
<1>1. CASE UNCHANGED <<owed, given>>
  <2>1. UNCHANGED rate_in_hertz
    BY DEF Handler, Inside, Sends, OldHandler, Enter, CallbackWrites, CallbackReturns, Account,
           SendEoi, Reload, Acknowledge
  <2> QED
    BY <1>1, <2>1, KeptSame
<1>2. CASE irq_number # 0
  <2>1. owed = 0 /\ given = 0
    BY <1>2 DEF SystemInv
  <2>2. irq_number' = irq_number
    BY DEF Handler, Inside, Sends, OldHandler, Enter, CallbackWrites, CallbackReturns, Account,
           SendEoi, Reload, Acknowledge
  <2>3. owed' = 0 /\ given' = 0
    BY <1>2, <2>2 DEF SystemInv
  <2> QED
    BY <1>1, <2>1, <2>3
<1>3. CASE irq_number = 0 /\ ~UNCHANGED <<owed, given>>
  <2>1. /\ OldHandler \/ Enter \/ Account
        /\ UNCHANGED <<rate_in_hertz, pc, vector>>
    BY <1>3 DEF Handler, Inside, Sends, OldHandler, Enter, CallbackWrites, CallbackReturns,
           Account, SendEoi, Reload, Acknowledge
  <2>2. given < MaxGiven
    BY <1>3, <2>1 DEF OldHandler, Enter, Account, Keep
  <2>3. Period \in Nat /\ Period <= 65536 /\ Debt \in Int
        /\ owed = Debt + (IF handler = "none" THEN 0 ELSE Period)
    BY DebtTyped
  <2>4. ~OldHandler
    <3> SUFFICES ASSUME OldHandler
                 PROVE  FALSE
      OBVIOUS
    <3>1. pit = "bios"
      BY <1>3 DEF OldHandler, Inside, InstallInv, TypeOK, MachineTypeOK
    <3>2. Keep(65536, 1)
      BY <1>3, <3>1 DEF OldHandler, Period, BiosPeriod
    <3>3. owed' = owed /\ given' = given
      BY <2>2, <3>1, <3>2, SMT DEF Keep, BiosPeriod, TypeOK, MachineTypeOK
    <3> QED
      BY <1>3, <3>3
  <2>5. vector = "timer" /\ ~Served
    BY <2>1, <2>4 DEF Enter, Account, Inside, Pending, Served, HandlerInv
  <2> DEFINE fg == Drift * given
             fg2 == Drift' * given'
  <2>6. Near(Debt, fg)
    BY <1>3, <2>2, <2>5, DebtNear
  <2>7. /\ owed' \in Int
        /\ Debt - 65536 <= owed' /\ owed' <= Debt + 65536
        /\ given' >= given /\ given' \in Nat
    <3>1. CASE Enter
      <4>1. handler = "none" /\ Keep(Period, 0)
        BY <3>1 DEF Enter, Inside
      <4> QED
        BY <2>2, <2>3, <4>1, SMT DEF Keep, BiosPeriod, TypeOK, MachineTypeOK
    <3>2. CASE Account
      <4>1. handler # "none"
        BY <3>2 DEF Account, Inside
      <4>2. PICK k \in {0, 1} : Keep(0, k)
        BY <3>2 DEF Account
      <4>3. owed' = Debt + Period - (65536 * k)
        BY <2>2, <2>3, <4>1, <4>2, SMT DEF Keep, BiosPeriod
      <4>4. given' \in {given, given + k} /\ given \in Nat
        BY <2>2, <4>2 DEF Keep, TypeOK, MachineTypeOK
      <4> QED
        BY <2>3, <4>2, <4>3, <4>4, SMT
    <3> QED
      BY <2>1, <2>4, <3>1, <3>2
  <2>8. Drift \in Nat /\ Drift' = Drift /\ given \in Nat
    BY <2>1 DEF Drift, TypeOK, MachineTypeOK
  <2>9. fg \in Nat /\ fg2 \in Nat /\ fg <= fg2
    <3>1. Drift \in {1, 16} /\ given <= given' /\ given \in Nat /\ given' \in Nat
      BY <2>7, <2>8 DEF Drift
    <3> QED
      BY <2>8, <3>1, DriftGrows, Zenon
  <2>10. Allowed' = 65536 * (1280 + fg2)
    BY SMT DEF Allowed, BiosPeriod, FIXED_POINT_ONE
  <2> HIDE DEF fg, fg2
  <2>11. Kept(owed', fg2)
    <3>1. /\ Debt \in Int /\ owed' \in Int
          /\ Debt - BiosPeriod <= owed' /\ owed' <= Debt + BiosPeriod
      BY <2>3, <2>7 DEF BiosPeriod
    <3>2. fg \in Nat /\ fg2 \in Nat /\ fg <= fg2
      BY <2>9
    <3> QED
      BY <2>6, <3>1, <3>2, NearIsKept, Zenon
  <2> QED
    BY <2>10, <2>11 DEF ClockKept, Kept, FIXED_POINT_ONE
<1> QED
  BY <1>1, <1>2, <1>3

LEMMA KeptMachine ==
    ASSUME ClockKept, PitTick \/ TimerBOverflows \/ OtherDevice
    PROVE  ClockKept'
<1>1. UNCHANGED <<rate_in_hertz, owed, given>>
  BY DEF PitTick, TimerBOverflows, OtherDevice, Device
<1> QED
  BY <1>1, KeptSame


-----------------------------------------------------------------------------

LEMMA TimerStarts == Init => TimerInv
<1> SUFFICES ASSUME Init
             PROVE  TimerInv
  OBVIOUS
<1>1. TypeOK
  <2>1. MainTypeOK
    BY TimerAssumption DEF Init, MainTypeOK
  <2>2. StaticsTypeOK
    <3>1. g_interrupt_counter \in 0 .. Word - 1
      BY TimerAssumption DEF Init
    <3> QED
      BY <3>1, Zenon DEF Init, StaticsTypeOK
  <2>3. MachineTypeOK
    <3>1. masked \in BOOLEAN
      BY Zenon DEF Init
    <3>2. owed \in Int /\ given \in 0 .. MaxGiven
      BY TimerAssumption DEF Init
    <3> QED
      BY <3>1, <3>2, Zenon DEF Init, MachineTypeOK
  <2> QED
    BY <2>1, <2>2, <2>3 DEF TypeOK
<1>2. InstallInv /\ HandlerInv /\ LineInv
  BY DEF Init, InstallInv, HandlerInv, LineInv
<1>3. SystemInv /\ CounterInv
  BY DEF Init, SystemInv, CounterInv
<1>4. DebtInv
  <2>1. Debt = 0
    BY DEF Init, Debt
  <2> QED
    BY <2>1 DEF Init, DebtInv, FastDebt, SlowDebt
<1>5. ClockKept
  <2>1. Drift * given = 0
    BY DEF Init, Drift
  <2>2. Kept(owed, 0)
    BY SMT DEF Init, Kept
  <2> QED
    BY <1>1, <2>1, <2>2, KeptLimits
<1> QED
  BY <1>1, <1>2, <1>3, <1>4, <1>5 DEF TimerInv, ClockInv

LEMMA TimerStep == TimerInv /\ [Next]_vars => TimerInv'
<1> SUFFICES ASSUME TimerInv, [Next]_vars
             PROVE  TimerInv'
  OBVIOUS
<1> USE DEF TimerInv, ClockInv
<1>1. CASE Main \/ Escape
  BY <1>1, TypeMain, InstallMain, HandlerMain, LineMain, SystemMain, CounterMain, DebtMain,
     KeptMain
<1>2. CASE Handler
  <2>1. TypeOK' /\ SystemInv'
    BY <1>2, TypeHandler, SystemHandler
  <2> QED
    BY <1>2, <2>1, InstallHandler, HandlerHandler, LineHandler, CounterHandler, DebtHandler,
       KeptHandler
<1>3. CASE PitTick \/ TimerBOverflows \/ OtherDevice
  BY <1>3, TypeMachine, InstallMachine, HandlerMachine, LineMachine, SystemMachine,
     CounterMachine, DebtMachine, KeptMachine
<1>4. CASE UNCHANGED vars
  <2>1. TypeOK' /\ InstallInv' /\ HandlerInv' /\ LineInv'
    BY <1>4 DEF TypeOK, MainTypeOK, StaticsTypeOK, MachineTypeOK, InstallInv, HandlerInv, LineInv
  <2>2. SystemInv' /\ CounterInv'
    BY <1>4 DEF SystemInv, CounterInv, Served, Balanced
  <2>3. Debt' = Debt /\ Skew' = Skew
    BY <1>4, DebtSame, SkewSame
  <2>4. DebtInv'
    BY <1>4, <2>3 DEF DebtInv, FastDebt, SlowDebt, SkewIn, Served
  <2>5. ClockKept'
    BY <1>4, KeptSame
  <2> QED
    BY <2>1, <2>2, <2>4, <2>5
<1> QED
  BY <1>1, <1>2, <1>3, <1>4 DEF Next

\* The program and the hardware stay within TimerInv, the inductive invariant.
THEOREM TimerSafe == Spec => []TimerInv
BY TimerStarts, TimerStep, PTL DEF Spec

\* Every variable keeps its type; g_interrupt_counter stays within its word
\* (timer.c).
THEOREM TimerTyped == Spec => []TypeOK
<1>1. TimerInv => TypeOK
  BY DEF TimerInv
<1> QED
  BY <1>1, TimerSafe, PTL

\* After timer_stop nothing of the player is left to be called and nothing is
\* left to call it, whatever else interrupts on the line (timer_stop).
THEOREM StopIsQuiet == Spec => []QuietAfterStop
<1>1. TimerInv => QuietAfterStop
  BY DEF TimerInv, TypeOK, MainTypeOK, StaticsTypeOK, MachineTypeOK, InstallInv, HandlerInv,
         QuietAfterStop
<1> QED
  BY <1>1, TimerSafe, PTL

\* For every tick rate, and every word the counters fit in, the BIOS clock is
\* never further from real time than five ticks and what the cut counts cost:
\* one tick in 256 that it was given, one in 16 above 4900 Hz
\* (timer_irq_0_handler, timer_setup_pit_channel_0).
THEOREM ClockStaysKept == Spec => []ClockKept
<1>1. TimerInv => ClockKept
  BY DEF TimerInv, ClockInv
<1> QED
  BY <1>1, TimerSafe, PTL

\* No end of interrupt is sent without an interrupt in service, and on a line
\* of its own none is left without (timer_irq_0_handler, timer_irq_2_handler,
\* timer_irq_357_handler).
THEOREM InterruptsEnd == Spec => []EndsOfInterrupt
<1>1. TimerInv => EndsOfInterrupt
  BY DEF TimerInv, HandlerInv, LineInv, EndsOfInterrupt
<1> QED
  BY <1>1, TimerSafe, PTL

\* On a line of its own no write to the YM2151 is torn by the other writer
\* (ym2151_write).
THEOREM WritesStayWhole == Spec => PairsStayWhole
<1>1. TimerInv /\ [Next]_vars =>
         [ ~SharedLine =>
             /\ latch = "main" => latch' # "handler"
             /\ latch = "handler" => latch' # "main" ]_vars
  <2> SUFFICES ASSUME TimerInv, Next, ~SharedLine
               PROVE  /\ latch = "main" => latch' # "handler"
                      /\ latch = "handler" => latch' # "main"
    OBVIOUS
  <2>1. latch' = latch \/ latch' = "none" \/ (latch' = "main" /\ handler = "none")
           \/ (latch' = "handler" /\ handler \in {"callback", "reload_address"})
    <3>1. CASE Main \/ Escape
      BY <3>1 DEF Main, Goto, ClearYm, Address, Data, SetCallback, TakeVector, SetTotal,
             SetCounter, ProgramPit, SetPit, Unmask, SetMask, StartTimerB, StartStream, Escape,
             LeaveLoop, RestorePit, RequestStop, Wait, Mask, RestoreVector, ForgetCallback, Silence
    <3>2. CASE Handler
      BY <3>2 DEF Handler, Inside, Sends, OldHandler, Enter, CallbackWrites, CallbackReturns,
             Account, SendEoi, Reload, Acknowledge
    <3>3. CASE PitTick \/ TimerBOverflows \/ OtherDevice
      BY <3>3 DEF PitTick, TimerBOverflows, OtherDevice, Device
    <3> QED
      BY <3>1, <3>2, <3>3 DEF Next
  <2> QED
    BY <2>1 DEF TimerInv, TypeOK, MainTypeOK, InstallInv, HandlerInv, LineInv
<1> QED
  BY <1>1, TimerSafe, PTL DEF Spec, PairsStayWhole

=============================================================================
