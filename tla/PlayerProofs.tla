---------------------------- MODULE PlayerProofs ----------------------------
(***************************************************************************)
(* Type correctness of Player, and the lemmas on its operators that the    *)
(* proofs of its safety properties use too: TypeInv is inductive on its    *)
(* own, part by part.  Vectors, mask and PIT follow from the place where   *)
(* main stands, and from that: when the program ends, the machine is as it *)
(* was found.                                                              *)
(***************************************************************************)
EXTENDS PlayerInvariants, TLAPS

USE DEF world, detector, pic, ym, time, history, control, saaym,
        file, stopping, keyboard, player

-----------------------------------------------------------------------------
(***************************************************************************)
(* Lines in their order.                                                   *)
(***************************************************************************)

\* Any set of lines that is not empty has a lowest one.
LEMMA LowestExists ==
    ASSUME NEW S \in SUBSET Lines, S # {}
    PROVE  \E l \in S : \A m \in S : l <= m
<1>1. S \subseteq {2, 3, 5, 7}
  BY SaaymAssumption
<1>2. CASE 2 \in S
  BY <1>1, <1>2
<1>3. CASE 2 \notin S /\ 3 \in S
  BY <1>1, <1>3
<1>4. CASE 2 \notin S /\ 3 \notin S /\ 5 \in S
  BY <1>1, <1>4
<1>5. CASE 2 \notin S /\ 3 \notin S /\ 5 \notin S /\ 7 \in S
  BY <1>1, <1>5
<1>6. QED
  BY <1>1, <1>2, <1>3, <1>4, <1>5

\* The loops over the lines start at the lowest ...
LEMMA FirstLowest == First \in Lines /\ \A l \in Lines : First <= l
<1>1. \E l \in Lines : \A m \in Lines : l <= m
  BY LowestExists, SaaymAssumption
<1>2. QED
  BY <1>1 DEF First

\* ... and go on to the lowest that is left.
LEMMA NextLowest ==
    ASSUME Later # {}
    PROVE  NextLine \in Later /\ \A l \in Later : NextLine <= l
<1>1. Later \in SUBSET Lines
  BY DEF Later
<1>2. \E l \in Later : \A m \in Later : l <= m
  BY <1>1, LowestExists
<1>3. QED
  BY <1>2 DEF NextLine

-----------------------------------------------------------------------------
(***************************************************************************)
(* The value of register 0x12.                                             *)
(***************************************************************************)

\* No file asks for no updates.
LEMMA RatePositive == ASSUME NEW rate \in TickRates PROVE rate \in Nat \ {0}
<1>1. rate \in Rates
  BY PlayerAssumption
<1>2. QED
  BY <1>1, SMTT(30) DEF Rates

\* Eight bits hold it, whatever the rate of the file is.
LEMMA RateFits ==
    ASSUME NEW rate \in Nat \ {0}
    PROVE  RateValue(rate) \in 0 .. 255
<1> DEFINE ratio == Ratio(config.ym2151_clock = 1)
           steps == ratio \div rate
<1>1. ratio \in Nat
  BY DEF Ratio
<1> HIDE DEF ratio
<1>2. steps \in Int
  BY <1>1
<1> HIDE DEF steps
<1>3. steps % 256 \in 0 .. 255
  BY <1>2
<1>4. (256 - (steps % 256)) % 256 \in 0 .. 255
  BY <1>3
<1>5. QED
  BY <1>4 DEF RateValue, ratio, steps

\* Timer B's period while it is measured is never longer than the slow one.
LEMMA PeriodBound == Period \in 0 .. SlowPeriod
BY SaaymAssumption DEF Period

-----------------------------------------------------------------------------
(***************************************************************************)
(* Settings.                                                               *)
(***************************************************************************)

\* Values are cut to the width of their setting.
LEMMA CutToWidth ==
    ASSUME NEW value \in Int
    PROVE  value % 65536 \in Words /\ value % 256 \in Bytes /\ Clamp(value) \in Clocks
<1>1. value % 65536 \in Words
  BY SMTT(30) DEF Words
<1>2. value % 256 \in Bytes
  BY DEF Bytes
<1>3. Clamp(value) \in Clocks
  BY DEF Clamp, Clocks
<1>4. QED
  BY <1>1, <1>2, <1>3

\* A letter of the variable leaves the settings with a clock or none, a port
\* of 16 bits and an IRQ number of 8.
LEMMA SettingTyped ==
    ASSUME NEW settings \in Configs, NEW parameter \in STRING \X Int
    PROVE  Setting(settings, parameter) \in Configs
<1> DEFINE value == parameter[2]
<1>1. value \in Int
  OBVIOUS
<1>2. value % 65536 \in Words /\ value % 256 \in Bytes /\ Clamp(value) \in Clocks
  BY <1>1, CutToWidth
<1>3. CASE parameter[1] = "a"
  BY <1>2, <1>3 DEF Setting, Configs
<1>4. CASE parameter[1] = "i"
  BY <1>2, <1>4 DEF Setting, Configs
<1>5. CASE parameter[1] = "y"
  BY <1>2, <1>5 DEF Setting, Configs
<1>6. CASE parameter[1] = "s"
  BY <1>2, <1>6 DEF Setting, Configs
<1>7. CASE parameter[1] \notin {"a", "i", "y", "s"}
  BY <1>7 DEF Setting
<1>8. QED
  BY <1>3, <1>4, <1>5, <1>6, <1>7

-----------------------------------------------------------------------------
(***************************************************************************)
(* The parts of TypeInv, one after the other.  In every proof the first    *)
(* cases are the actions that touch the part, the last ones all others.    *)
(***************************************************************************)

\* Where main stands, and its settings.
LEMMA ControlStep ==
    ASSUME ControlTyped, IndexTyped, DetectorTyped, [Next]_vars
    PROVE  ControlTyped'
<1> USE DEF Goto, Step, UsesTimerB, Irq, Detecting, Searching, Hooked, Preparing, Timed, Starting,
            Stopping, Playback, Ending
<1>1. ASSUME ReadParameter, UNCHANGED player PROVE ControlTyped'
  <2>1. environment \in Seq(STRING \X Int) /\ index \in 1 .. Len(environment)
    BY <1>1, SaaymAssumption DEF ReadParameter, IndexTyped, ControlTyped
  <2>2. environment[index] \in STRING \X Int
    BY <2>1
  <2>3. config' \in Configs
    BY <1>1, <2>2, SettingTyped DEF ReadParameter, ControlTyped
  <2>4. QED
    BY <1>1, <2>3 DEF ReadParameter, ControlTyped
<1>2. ASSUME Accept, UNCHANGED player PROVE ControlTyped'
  <2>1. index \in 512 .. 624
    BY <1>2 DEF Accept, IndexTyped, BaseStart, BaseEnd
  <2>2. index \in Words /\ 0 \in Clocks
    BY <2>1, SMT DEF Words, Clocks
  <2>3. config' \in Configs
    BY <1>2, <2>2 DEF Accept, Configs, ControlTyped
  <2>4. QED
    BY <1>2, <2>3 DEF Accept, ControlTyped
<1>3. ASSUME Decide, UNCHANGED player PROVE ControlTyped'
  <2>1. sensed \in Senses
    BY DEF DetectorTyped, Stopwatches, sensed
  <2>2. sensed \in Bytes
    BY <2>1, SaaymAssumption DEF Senses, Bytes
  <2>3. MeasuredClock \in Clocks
    BY DEF MeasuredClock, Clocks
  <2>4. config' \in Configs
    BY <1>3, <2>2, <2>3 DEF Decide, Configs, sensed, ControlTyped
  <2>5. QED
    BY <1>3, <2>4 DEF Decide, ControlTyped
<1>4. ASSUME Detect, UNCHANGED player, ~ReadParameter, ~Accept, ~Decide
      PROVE  ControlTyped'
  <2>1. UNCHANGED <<world, config>> /\ pc' \in Detecting \cup {"detected"}
    BY <1>4 DEF Detect, NextBase, Loop, SetMask, ReadEnvironment, Probe, Initialize, Identify,
                Identified, Install, Unmask, Sample, ClearTriggered, Trigger, Await, Sense,
                TakeVector, StartWatch, StopWatch, Uninstall, Remask
  <2>2. QED
    BY <2>1 DEF ControlTyped
<1>5. ASSUME Play PROVE ControlTyped'
  BY <1>5 DEF ControlTyped, Play, CardFound, Load, InitializeZsm, InitializeChips, StartTimer, UnmaskTimer,
              SetRate, StartTimerB, StartStream, PollKey, LeaveLoop, MaskTimer, RestoreVector,
              Terminate, Free
<1>6. ASSUME Handlers \/ PressKey \/ (Hardware /\ UNCHANGED player) PROVE ControlTyped'
  <2>1. UNCHANGED control
    BY <1>6 DEF Handlers, Interrupts, Enter, OldHandler, DetectHandler, ClockHandler, Tick,
                PlayerTick, TimerHandler, PressKey, Hardware, Device, TickIsLost,
                TimerAOverflows, TimerBOverflows, ForeignInterrupt
  <2>2. QED
    BY <2>1 DEF ControlTyped
<1>7. CASE UNCHANGED vars
  BY <1>7 DEF vars, ControlTyped
<1>8. QED
  BY <1>1, <1>2, <1>3, <1>4, <1>5, <1>6, <1>7 DEF Next, Main

\* The parameter, base or line main is at.
LEMMA IndexStep ==
    ASSUME ControlTyped, IndexTyped, DetectorTyped, [Next]_vars
    PROVE  IndexTyped'
<1> USE DEF Goto, Step, Searching
<1>1. Lines \subseteq Int
  BY SaaymAssumption
<1>2. First \in Lines
  BY FirstLowest
<1>3. Later # {} => NextLine \in Lines
  BY NextLowest DEF Later
<1>4. ASSUME ReadParameter, UNCHANGED player PROVE IndexTyped'
  BY <1>4, SaaymAssumption DEF IndexTyped, ReadParameter, ControlTyped
<1>5. ASSUME ReadEnvironment, UNCHANGED player PROVE IndexTyped'
  BY <1>5 DEF IndexTyped, ReadEnvironment, BaseStart, BaseEnd
<1>6. ASSUME UNCHANGED <<world, player>>, NEW from \in {"probe", "identify", "status"}, NextBase(from)
      PROVE IndexTyped'
  <2>1. index \in BaseStart .. BaseEnd
    BY <1>6 DEF IndexTyped, NextBase
  <2>2. index' \in BaseStart .. BaseEnd + 16 /\ (pc' = "probe" => index' \in BaseStart .. BaseEnd)
    BY <1>6, <2>1 DEF IndexTyped, NextBase, BaseStart, BaseEnd
  <2>3. pc' \in {"probe", "detected"}
    BY <1>6 DEF IndexTyped, NextBase
  <2>4. QED
    BY <1>6, <2>2, <2>3 DEF IndexTyped
<1>7. ASSUME Probe \/ Identify \/ Identified, UNCHANGED player PROVE IndexTyped'
  BY <1>6, <1>7 DEF IndexTyped, Probe, Identify, Identified
<1>8. ASSUME Loop("clear", "trigger") \/ Loop("sense", "uninstall"), UNCHANGED <<world, player>>
      PROVE IndexTyped'
  BY <1>2, <1>3, <1>8 DEF IndexTyped, Loop
<1>9. ASSUME Unmask \/ ClearTriggered \/ Sense, UNCHANGED player PROVE IndexTyped'
  BY <1>2, <1>8, <1>9 DEF IndexTyped, Unmask, SetMask, ClearTriggered, Sense
<1>10. ASSUME Detect, UNCHANGED player, ~ReadParameter, ~ReadEnvironment, ~Probe, ~Identify,
              ~Identified, ~Unmask, ~ClearTriggered, ~Sense
       PROVE IndexTyped'
  BY <1>10 DEF IndexTyped, Detect, SetMask, Initialize, Accept, Install, Sample, Trigger, Await, TakeVector,
              StartWatch, StopWatch, Uninstall, Remask, Decide
<1>11. ASSUME Play PROVE IndexTyped'
  BY <1>11 DEF IndexTyped, Play, CardFound, Load, InitializeZsm, InitializeChips, StartTimer, UnmaskTimer,
              SetRate, StartTimerB, StartStream, PollKey, LeaveLoop, MaskTimer, RestoreVector,
              Terminate, Free
<1>12. ASSUME Handlers \/ PressKey \/ (Hardware /\ UNCHANGED player) PROVE IndexTyped'
  BY <1>12 DEF IndexTyped, Handlers, Interrupts, Enter, OldHandler, DetectHandler, ClockHandler, Tick,
              PlayerTick, TimerHandler, PressKey, Hardware, Device, TickIsLost, TimerAOverflows,
              TimerBOverflows, ForeignInterrupt
<1>13. CASE UNCHANGED vars
  BY <1>13 DEF IndexTyped, vars
<1>14. QED
  BY <1>4, <1>5, <1>7, <1>9, <1>10, <1>11, <1>12, <1>13 DEF Next, Main

\* What the detection handlers and irq_sense have seen.
LEMMA DetectorStep ==
    ASSUME IndexTyped, DetectorTyped, HandlersTyped, [Next]_vars
    PROVE  DetectorTyped'
<1> USE DEF Goto, Step
<1>1. ASSUME Sense, UNCHANGED player PROVE DetectorTyped'
  <2>1. CASE index \in triggered \ spurious
    <3>1. index \in Senses
      BY <1>1, <2>1 DEF DetectorTyped, Senses
    <3>2. stopwatch' \in Stopwatches /\ stopwatch'.counter = stopwatch.counter
            /\ stopwatch'.ticks = stopwatch.ticks
      BY <1>1, <2>1, <3>1 DEF Sense, DetectorTyped, Stopwatches
    <3>3. QED
      BY <1>1, <3>2 DEF Sense, DetectorTyped
  <2>2. CASE index \notin triggered \ spurious
    BY <1>1, <2>2 DEF Sense, DetectorTyped
  <2>3. QED
    BY <2>1, <2>2
<1>2. ASSUME Detect, UNCHANGED player, ~Sense PROVE DetectorTyped'
  BY <1>2 DEF DetectorTyped, HandlersTyped, Detect, NextBase, Loop, SetMask, ReadParameter,
              ReadEnvironment, Probe, Initialize, Identify, Identified, Accept, Install, Unmask,
              Sample, ClearTriggered, Trigger, Await, TakeVector, StartWatch, StopWatch, Uninstall,
              Remask, Decide
<1>3. ASSUME Play PROVE DetectorTyped'
  BY <1>3 DEF DetectorTyped, Play, CardFound, Load, InitializeZsm, InitializeChips, StartTimer,
              UnmaskTimer, SetRate, StartTimerB, StartStream, PollKey, LeaveLoop, MaskTimer,
              RestoreVector, Terminate, Free
<1>4. ASSUME NEW l \in Lines, ClockHandler(l) PROVE DetectorTyped'
  <2>1. CASE stopwatch.state = "wait"
    <3>1. stopwatch.counter \in Counts /\ "overflowed" \in States
      BY DEF DetectorTyped, Stopwatches, States
    <3>2. stopwatch' \in Stopwatches /\ stopwatch'.counter = stopwatch.counter
            /\ stopwatch'.ticks = stopwatch.ticks
      BY <1>4, <2>1, <3>1 DEF ClockHandler, DetectorTyped, Stopwatches
    <3>3. QED
      BY <1>4, <3>2 DEF ClockHandler, Enter, DetectorTyped
  <2>2. CASE stopwatch.state # "wait"
    BY <1>4, <2>2 DEF ClockHandler, Enter, DetectorTyped
  <2>3. QED
    BY <2>1, <2>2
<1>5. ASSUME Tick PROVE DetectorTyped'
  <2> DEFINE next == stopwatch.ticks + 1
             count == IF stopwatch.state = "start" THEN 0
                      ELSE stopwatch.counter + (IF stopwatch.state = "wait" THEN 1 ELSE 0)
             state == IF stopwatch.state = "start" THEN "wait" ELSE stopwatch.state
  <2>1. stopwatch.ticks \in Counts /\ stopwatch.counter \in Counts /\ stopwatch.state \in States
    BY DEF DetectorTyped, Stopwatches
  <2>2. next \in Counts /\ count \in Counts /\ count <= next
    <3>1. Limit \in Nat /\ stopwatch.ticks <= Limit /\ stopwatch.counter <= stopwatch.ticks
      BY <1>5, SaaymAssumption DEF Tick, DetectorTyped
    <3>2. stopwatch.ticks \in Nat /\ stopwatch.counter \in Nat
      BY <2>1, <3>1 DEF Counts
    <3>3. count \in {0, stopwatch.counter, stopwatch.counter + 1}
      BY <3>2
    <3> HIDE DEF count
    <3>4. QED
      BY <3>1, <3>2, <3>3 DEF Counts
  <2>3. state \in States
    BY <2>1 DEF States
  <2>4. stopwatch' = [stopwatch EXCEPT !.state = state, !.counter = count, !.ticks = next]
    BY <1>5 DEF Tick, DetectorTyped, Stopwatches
  <2> HIDE DEF next, count, state
  <2>5. stopwatch' \in Stopwatches /\ stopwatch'.counter = count /\ stopwatch'.ticks = next
    BY <2>2, <2>3, <2>4 DEF DetectorTyped, Stopwatches
  <2>6. QED
    BY <1>5, <2>2, <2>5 DEF Tick, DetectorTyped
<1>6. ASSUME \E l \in Lines : OldHandler(l) \/ DetectHandler(l) PROVE DetectorTyped'
  BY <1>6 DEF Enter, OldHandler, DetectHandler, DetectorTyped
<1>7. ASSUME PlayerTick \/ (\E l \in Lines : TimerHandler(l)) \/ PressKey \/ Hardware
      PROVE  DetectorTyped'
  BY <1>7 DEF DetectorTyped, PlayerTick, TimerHandler, PressKey, Hardware, Device, TickIsLost,
              TimerAOverflows, TimerBOverflows, ForeignInterrupt
<1>8. CASE UNCHANGED vars
  BY <1>8 DEF vars, DetectorTyped
<1>9. QED
  BY <1>1, <1>2, <1>3, <1>4, <1>5, <1>6, <1>7, <1>8 DEF Next, Main, Handlers, Interrupts

\* The vectors, the PIC's registers and the PIT.
LEMMA HandlersStep ==
    ASSUME ControlTyped, DetectorTyped, HandlersTyped, [Next]_vars
    PROVE  HandlersTyped'
<1> USE DEF Goto, Step
<1>1. ASSUME Detect, UNCHANGED player PROVE HandlersTyped'
  BY <1>1 DEF HandlersTyped, DetectorTyped, Detect, NextBase, Loop, SetMask, EnableTimerB, Lowered,
              Cleared, ReadParameter, ReadEnvironment, Probe, Initialize, Identify, Identified,
              Accept, Install, Unmask, Sample, ClearTriggered, Trigger, Await, Sense, TakeVector,
              StartWatch, StopWatch, Uninstall, Remask, Decide
<1>2. ASSUME StartTimer PROVE HandlersTyped'
  BY <1>2 DEF StartTimer, HandlersTyped
<1>3. ASSUME UnmaskTimer \/ MaskTimer PROVE HandlersTyped'
  <2>1. UsesTimerB
    BY <1>3 DEF UnmaskTimer, MaskTimer, ControlTyped, Starting, Stopping
  <2>2. QED
    BY <1>3, <2>1 DEF UnmaskTimer, MaskTimer, HandlersTyped, UsesTimerB
<1>4. ASSUME StartTimerB PROVE HandlersTyped'
  BY <1>4 DEF StartTimerB, Switched, LineAfter, HandlersTyped
<1>5. ASSUME LeaveLoop \/ RestoreVector PROVE HandlersTyped'
  BY <1>5 DEF LeaveLoop, RestoreVector, HandlersTyped
<1>6. ASSUME CardFound \/ Load \/ InitializeZsm \/ InitializeChips \/ SetRate \/ StartStream
               \/ PollKey \/ Terminate \/ Free
      PROVE  HandlersTyped'
  BY <1>6 DEF HandlersTyped, HardwareStays, CardFound, Load, InitializeZsm, InitializeChips, SetRate,
              StartStream, PollKey, Terminate, Free
<1>7. ASSUME Handlers \/ PressKey \/ (Hardware /\ UNCHANGED player) PROVE HandlersTyped'
  BY <1>7 DEF HandlersTyped, Handlers, Interrupts, Enter, OldHandler, DetectHandler, ClockHandler,
              EnableTimerB, Lowered, Tick, PlayerTick, TimerHandler, Switched, LineAfter, PressKey,
              Hardware, Device, TickIsLost, Raised, TimerAOverflows, TimerBOverflows,
              ForeignInterrupt
<1>8. CASE UNCHANGED vars
  BY <1>8 DEF vars, HandlersTyped
<1>9. QED
  BY <1>1, <1>2, <1>3, <1>4, <1>5, <1>6, <1>7, <1>8 DEF Next, Main, Play

\* The YM2151's timers and the time that passes.
LEMMA TimersStep ==
    ASSUME FileTyped, TimersTyped, [Next]_vars
    PROVE  TimersTyped'
<1> USE DEF Goto, Step
<1>0. 0 \in Bytes /\ 255 \in Bytes /\ 0 \in 0 .. SlowPeriod + 1 /\ 0 \in 0 .. LostTicks
  BY SaaymAssumption DEF Bytes
<1>1. ASSUME Initialize \/ InitializeChips PROVE TimersTyped'
  BY <1>0, <1>1 DEF TimersTyped, Initialize, InitializeChips, Cleared
<1>2. ASSUME Identify \/ Identified PROVE TimersTyped'
  BY <1>2 DEF TimersTyped, Identify, Identified
<1>3. ASSUME Trigger \/ Await PROVE TimersTyped'
  BY <1>0, <1>3 DEF TimersTyped, Trigger, Await, EnableTimerB
<1>4. ASSUME StartWatch \/ StopWatch PROVE TimersTyped'
  BY <1>0, <1>4 DEF TimersTyped, StartWatch, StopWatch
<1>5. ASSUME ReadParameter \/ ReadEnvironment \/ Probe \/ Accept \/ Install \/ Unmask \/ Sample
               \/ ClearTriggered \/ Sense \/ TakeVector \/ Uninstall \/ Remask \/ Decide
      PROVE TimersTyped'
  BY <1>5 DEF TimersTyped, ReadParameter, ReadEnvironment, Probe, Accept, Install, Unmask, Sample,
              ClearTriggered, Sense, TakeVector, Uninstall, Remask, Decide, SetMask
<1>6. ASSUME SetRate PROVE TimersTyped'
  <2>1. tick_rate \in TickRates
    BY <1>6 DEF SetRate, FileTyped, Timed, Starting
  <2>2. tick_rate \in Nat \ {0}
    BY <2>1, RatePositive
  <2>3. RateValue(tick_rate) \in Bytes
    BY <2>2, RateFits DEF Bytes
  <2>4. QED
    BY <1>6, <2>3 DEF SetRate, TimersTyped
<1>7. ASSUME StartTimerB PROVE TimersTyped'
  BY <1>7 DEF TimersTyped, StartTimerB, Switched
<1>8. ASSUME CardFound \/ Load \/ InitializeZsm \/ StartTimer \/ UnmaskTimer \/ StartStream
               \/ PollKey \/ LeaveLoop \/ MaskTimer \/ RestoreVector \/ Terminate \/ Free
      PROVE TimersTyped'
  BY <1>8 DEF TimersTyped, HardwareStays, CardFound, Load, InitializeZsm, StartTimer, UnmaskTimer,
              StartStream, PollKey, LeaveLoop, MaskTimer, RestoreVector, Terminate, Free
<1>9. ASSUME NEW l \in Lines, OldHandler(l) \/ DetectHandler(l) \/ ClockHandler(l)
      PROVE  TimersTyped'
  BY <1>9 DEF TimersTyped, Enter, OldHandler, DetectHandler, ClockHandler, EnableTimerB
<1>10. ASSUME TickPasses PROVE elapsed' \in 0 .. SlowPeriod + 1
  BY <1>10, PeriodBound, SaaymAssumption DEF TimersTyped, TickPasses
<1>11. ASSUME Tick PROVE TimersTyped'
  <2>1. CASE stopwatch.state = "start"
    BY <1>0, <1>11, <2>1 DEF Tick, TimersTyped, EnableTimerB
  <2>2. CASE stopwatch.state # "start"
    BY <1>10, <1>11, <2>2 DEF Tick, TimersTyped
  <2>3. QED
    BY <2>1, <2>2
<1>12. ASSUME TickIsLost PROVE TimersTyped'
  BY <1>10, <1>12, SaaymAssumption DEF TickIsLost, Device, TimersTyped
<1>13. ASSUME NEW l \in Lines, TimerHandler(l) PROVE TimersTyped'
  <2>1. (~g_timer_b_stop_requested) \in BOOLEAN
    OBVIOUS
  <2>2. QED
    BY <1>13, <2>1 DEF TimersTyped, TimerHandler, Switched
<1>14. ASSUME PlayerTick \/ PressKey \/ TimerAOverflows \/ TimerBOverflows
                \/ (\E l \in Lines : ForeignInterrupt(l))
       PROVE  TimersTyped'
  BY <1>14 DEF TimersTyped, PlayerTick, PressKey, Device, TimerAOverflows, TimerBOverflows,
               ForeignInterrupt
<1>15. CASE UNCHANGED vars
  BY <1>15 DEF vars, TimersTyped
<1>16. QED
  BY <1>1, <1>2, <1>3, <1>4, <1>5, <1>6, <1>7, <1>8, <1>9, <1>11, <1>12, <1>13, <1>14, <1>15
     DEF Next, Main, Detect, Play, Handlers, Interrupts, Hardware

\* The file; the rate it asks for is known before anything uses it.
LEMMA FileStep ==
    ASSUME FileTyped, [Next]_vars
    PROVE  FileTyped'
<1> USE DEF Goto, Step, Timed, Starting, Playback, Stopping
<1>1. ASSUME Detect, UNCHANGED player PROVE FileTyped'
  BY <1>1 DEF FileTyped, Detect, NextBase, Loop, SetMask, ReadParameter, ReadEnvironment, Probe,
              Initialize, Identify, Identified, Accept, Install, Unmask, Sample, ClearTriggered,
              Trigger, Await, Sense, TakeVector, StartWatch, StopWatch, Uninstall, Remask, Decide
<1>2. ASSUME Play PROVE FileTyped'
  BY <1>2 DEF FileTyped, Play, CardFound, Load, InitializeZsm, InitializeChips, StartTimer,
              UnmaskTimer, SetRate, StartTimerB, StartStream, PollKey, LeaveLoop, MaskTimer,
              RestoreVector, Terminate, Free
<1>3. ASSUME Handlers \/ PressKey \/ (Hardware /\ UNCHANGED player) PROVE FileTyped'
  BY <1>3 DEF FileTyped, Handlers, Interrupts, Enter, OldHandler, DetectHandler, ClockHandler, Tick,
              PlayerTick, TimerHandler, PressKey, Hardware, Device, TickIsLost, TimerAOverflows,
              TimerBOverflows, ForeignInterrupt
<1>4. CASE UNCHANGED vars
  BY <1>4 DEF vars, FileTyped
<1>5. QED
  BY <1>1, <1>2, <1>3, <1>4 DEF Next, Main

\* The stream, the request to stop and the keys.
LEMMA PlayingStep ==
    ASSUME ControlTyped, PlayingTyped, [Next]_vars
    PROVE  PlayingTyped'
<1>1. ASSUME UNCHANGED <<world, player>> PROVE PlayingTyped'
  BY <1>1 DEF PlayingTyped
<1>2. ASSUME StartTimer \/ StartStream PROVE PlayingTyped'
  BY <1>2 DEF StartTimer, StartStream, Step, PlayingTyped
<1>3. ASSUME PollKey PROVE PlayingTyped'
  <2>1. keys' \in Seq({"esc", "other"}) /\ Len(keys') = Len(keys) - 1
    BY <1>3 DEF PollKey, PlayingTyped
  <2>2. Len(keys') <= pressed /\ pressed' = pressed /\ machine' = machine
    BY <1>3, <2>1 DEF PollKey, Step, PlayingTyped
  <2>3. QED
    BY <1>3, <2>1, <2>2 DEF PollKey, PlayingTyped
<1>4. ASSUME LeaveLoop \/ RestoreVector \/ Load \/ InitializeZsm \/ Terminate \/ Free PROVE PlayingTyped'
  BY <1>4 DEF LeaveLoop, RestoreVector, Load, InitializeZsm, Terminate, Free, Step, PlayingTyped
<1>5. ASSUME CardFound \/ InitializeChips \/ UnmaskTimer \/ SetRate \/ StartTimerB \/ MaskTimer
      PROVE  PlayingTyped'
  BY <1>1, <1>5 DEF CardFound, InitializeChips, UnmaskTimer, SetRate, StartTimerB, MaskTimer, Step
<1>6. ASSUME Update PROVE g_play_stream' \in BOOLEAN /\ sounding' \in BOOLEAN
  BY <1>6 DEF Update, PlayingTyped
<1>7. ASSUME PlayerTick PROVE PlayingTyped'
  BY <1>6, <1>7 DEF PlayerTick, PlayingTyped
<1>8. ASSUME NEW l \in Lines, TimerHandler(l) PROVE PlayingTyped'
  BY <1>6, <1>8 DEF TimerHandler, PlayingTyped
<1>9. ASSUME PressKey PROVE PlayingTyped'
  <2>1. PICK key \in {"esc", "other"} : keys' = Append(keys, key)
    BY <1>9 DEF PressKey
  <2>2. keys' \in Seq({"esc", "other"}) /\ Len(keys') = Len(keys) + 1
    BY <2>1 DEF PlayingTyped
  <2>3. machine.keys \in Nat
    BY SaaymAssumption DEF ControlTyped, MachineType
  <2>4. pressed' \in 0 .. machine.keys /\ Len(keys') <= pressed'
    BY <1>9, <2>2, <2>3 DEF PressKey, PlayingTyped
  <2>5. QED
    BY <1>9, <2>2, <2>4 DEF PressKey, PlayingTyped
<1>10. ASSUME Detect, UNCHANGED player PROVE PlayingTyped'
  BY <1>1, <1>10 DEF Detect, NextBase, Loop, SetMask, ReadParameter, ReadEnvironment, Probe,
              Initialize, Identify, Identified, Accept, Install, Unmask, Sample, ClearTriggered,
              Trigger, Await, Sense, TakeVector, StartWatch, StopWatch, Uninstall, Remask, Decide
<1>11. ASSUME Interrupts \/ Tick \/ Hardware, UNCHANGED player PROVE PlayingTyped'
  BY <1>1, <1>11 DEF Interrupts, Enter, OldHandler, DetectHandler, ClockHandler, Tick, Hardware,
              Device, TickIsLost, TimerAOverflows, TimerBOverflows, ForeignInterrupt
<1>12. CASE UNCHANGED vars
  BY <1>1, <1>12 DEF vars
<1>13. QED
  BY <1>2, <1>3, <1>4, <1>5, <1>7, <1>8, <1>9, <1>10, <1>11, <1>12 DEF Next, Main, Play, Handlers

-----------------------------------------------------------------------------
\* All parts hold when the program starts ...
LEMMA TypesInitially == PlayerInit => TypeInv
<1> SUFFICES ASSUME PlayerInit PROVE TypeInv
  OBVIOUS
<1> USE DEF PlayerInit, Init
<1>1. machine \in MachineType /\ Len(environment) \in Nat
  BY SaaymAssumption
<1>2. ControlTyped
  <2>1. Invalid \in Clocks /\ 0 \in Bytes
    BY DEF Clocks, Bytes
  <2>2. 0 \in Words
    BY SMT DEF Words
  <2>3. config \in Configs
    BY <2>1, <2>2 DEF NoConfig, Configs
  <2>4. QED
    BY <2>3 DEF ControlTyped, Detecting, Searching, Starting, Stopping
<1>3. IndexTyped
  BY <1>1 DEF IndexTyped, Searching
<1>4. DetectorTyped
  <2>1. 0 \in Counts /\ 0 \in Senses /\ "start" \in States
    BY SaaymAssumption DEF Counts, Senses, States
  <2>2. QED
    BY <2>1 DEF DetectorTyped, Stopwatches
<1>5. HandlersTyped
  BY <1>1 DEF HandlersTyped, MachineType
<1>6. TimersTyped
  <2>1. timer_a \in BOOLEAN /\ flag_a \in BOOLEAN /\ timer_b \in BOOLEAN /\ flag_b \in BOOLEAN
    BY <1>1 DEF MachineType
  <2>2. clkb \in Bytes /\ elapsed \in 0 .. SlowPeriod + 1 /\ lost \in 0 .. LostTicks
    BY SaaymAssumption DEF Bytes
  <2>3. QED
    BY <2>1, <2>2 DEF TimersTyped
<1>7. FileTyped
  BY DEF FileTyped, Timed, Starting, Playback, Stopping
<1>8. PlayingTyped
  <2>1. machine.keys \in Nat
    BY <1>1 DEF MachineType
  <2>2. keys \in Seq({"esc", "other"}) /\ Len(keys) = 0 /\ pressed = 0
    OBVIOUS
  <2>3. pressed \in 0 .. machine.keys /\ Len(keys) <= pressed
    BY <2>1, <2>2
  <2>4. QED
    BY <2>2, <2>3 DEF PlayingTyped
<1>9. QED
  BY <1>2, <1>3, <1>4, <1>5, <1>6, <1>7, <1>8 DEF TypeInv

\* ... and after every step.
LEMMA TypesStep == TypeInv /\ [Next]_vars => TypeInv'
BY ControlStep, IndexStep, DetectorStep, HandlersStep, TimersStep, FileStep, PlayingStep DEF TypeInv

\* The parts are TypeOK and more.
LEMMA TypesSuffice == TypeInv => TypeOK
<1> SUFFICES ASSUME TypeInv PROVE TypeOK
  OBVIOUS
<1>1. ControlTyped /\ IndexTyped /\ DetectorTyped /\ HandlersTyped /\ TimersTyped /\ FileTyped /\ PlayingTyped
  BY DEF TypeInv
<1>2. stopwatch.state \in States /\ stopwatch.ticks \in Counts /\ sensed \in Senses
  BY <1>1 DEF DetectorTyped, Stopwatches, sensed
<1>3. machine \in Machines /\ environment \in Environments /\ config \in Configs
  BY <1>1 DEF ControlTyped
<1>4. pc \in {"environment", "probe", "initialize", "identify", "status", "accept", "install",
               "unmask", "sample", "clear", "trigger", "await", "sense", "take", "start_watch",
               "watch", "uninstall", "remask", "decide", "detected", "load", "zsm_initialize",
               "chips", "timer_start", "timer_unmask", "timer_rate", "timer_enable",
               "zsm_start", "playing", "timer_wait", "timer_vector", "terminate", "free", "exit"}
  BY <1>1 DEF ControlTyped, Detecting, Searching, Hooked, Preparing, Timed, Starting, Playback,
              Stopping, Ending
<1>5. index \in Lines \cup (1 .. Len(environment) + 1) \cup (BaseStart .. BaseEnd + 16)
  BY <1>1 DEF IndexTyped
<1>6. triggered \cup spurious \cup g_pic_old_mask \subseteq Lines
        /\ request \cup in_service \cup masked \cup early \cup noise \subseteq Lines
        /\ vector \in [Lines -> {"old", "detect", "clock", "timer"}]
        /\ pit \in {"bios", "stopwatch", "player"}
  BY <1>1 DEF DetectorTyped, HandlersTyped
<1>7. stopwatch.state \in {"start", "wait", "overflowed"}
        /\ stopwatch.interrupt_number \in Lines \cup {0}
        /\ stopwatch.counter <= stopwatch.ticks
  BY <1>1, <1>2 DEF DetectorTyped, States, Senses, sensed
<1>8. stopwatch.ticks <= Limit + 1
  BY <1>2, SaaymAssumption DEF Counts
<1>9. clkb \in Bytes /\ elapsed \in 0 .. SlowPeriod + 1 /\ lost \in 0 .. LostTicks
         /\ tick_rate \in TickRates \cup {0}
  BY <1>1 DEF TimersTyped, FileTyped
<1>10. {timer_a, flag_a, timer_b, flag_b, loaded, g_play_stream, g_p_timer_callback,
        g_timer_b_stop_requested, g_timer_b_stop_acknowledged, sounding} \subseteq BOOLEAN
  BY <1>1 DEF TimersTyped, FileTyped, PlayingTyped
<1>11. pressed \in 0 .. machine.keys /\ Len(keys) <= pressed
         /\ \A i \in DOMAIN keys : keys[i] \in {"esc", "other"}
  BY <1>1 DEF PlayingTyped
<1>12. QED
  BY <1>3, <1>4, <1>5, <1>6, <1>7, <1>8, <1>9, <1>10, <1>11 DEF TypeOK

\* Everything main, the handlers and the devices touch keeps its type: the
\* settings their width, whatever the SAAYM variable says, the lines that are
\* kept, masked and sensed are lines there are, and register 0x12 holds a byte
\* (saaym_get_config_from_environment, irq.c, ym2151_set_timer_b_hz).
THEOREM PlayerTyped == Spec => []TypeOK
<1>1. Spec => []TypeInv
  <2>1. TypeInv /\ [Next]_vars => TypeInv'
    BY TypesStep
  <2>2. QED
    BY <2>1, TypesInitially, PTL DEF Spec
<1>2. QED
  BY <1>1, TypesSuffice, PTL

-----------------------------------------------------------------------------
(***************************************************************************)
(* What handlers, keys and devices leave alone.                            *)
(***************************************************************************)

\* Only irq_sense names a line: the stopwatch's handlers keep it.
LEMMA SensedKept ==
    ASSUME DetectorTyped, Tick \/ \E l \in Lines : ClockHandler(l)
    PROVE  sensed' = sensed
<1>1. ASSUME NEW l \in Lines, ClockHandler(l) PROVE sensed' = sensed
  BY <1>1 DEF DetectorTyped, Stopwatches, ClockHandler, sensed
<1>2. ASSUME Tick PROVE sensed' = sensed
  BY <1>2 DEF DetectorTyped, Stopwatches, Tick, sensed
<1>3. QED
  BY <1>1, <1>2

\* Main alone moves on, changes settings, vectors, the mask and the PIT, and
\* starts and asks to stop.
LEMMA OutsideMain ==
    ASSUME DetectorTyped, Handlers \/ PressKey \/ (Hardware /\ UNCHANGED player)
    PROVE  UNCHANGED <<control, vector, masked, pit, clkb, spurious, g_pic_old_mask,
                       g_p_timer_callback, g_timer_b_stop_requested, sensed>>
<1>1. UNCHANGED <<control, vector, masked, pit, clkb, spurious, g_pic_old_mask,
                  g_p_timer_callback, g_timer_b_stop_requested>>
  BY DEF Handlers, Interrupts, Enter, OldHandler, DetectHandler, ClockHandler, Tick, PlayerTick,
         TimerHandler, PressKey, Hardware, Device, TickIsLost, TimerAOverflows, TimerBOverflows,
         ForeignInterrupt
<1>2. UNCHANGED stopwatch \/ Tick \/ \E l \in Lines : ClockHandler(l)
  BY DEF Handlers, Interrupts, Enter, OldHandler, DetectHandler, PlayerTick, TimerHandler, PressKey,
         Hardware, Device, TickIsLost, TimerAOverflows, TimerBOverflows, ForeignInterrupt
<1>3. QED
  BY <1>1, <1>2, SensedKept DEF sensed

-----------------------------------------------------------------------------
(***************************************************************************)
(* The timer's own state.                                                  *)
(***************************************************************************)

\* timer_start installs the callback, timer_stop takes it away; a stop that is
\* asked for is on its way from timer_stop on, and answered with Timer B stopped.
LEMMA TimerStep ==
    ASSUME TypeInv, HardwareInv, TimerInv, [Next]_vars
    PROVE  TimerInv'
<1> USE DEF Goto, Step, Detecting, Searching, Hooked, Preparing, Starting, Playback, Stopping,
            Ending, UsesTimerB, Irq
<1>1. ASSUME Detect, UNCHANGED player PROVE TimerInv'
  BY <1>1 DEF TimerInv, Detect, NextBase, Loop, SetMask, Cleared, EnableTimerB, ReadParameter,
              ReadEnvironment, Probe, Initialize, Identify, Identified, Accept, Install, Unmask,
              Sample, ClearTriggered, Trigger, Await, Sense, TakeVector, StartWatch, StopWatch,
              Uninstall, Remask, Decide
<1>2. ASSUME StartTimer PROVE TimerInv'
  <2>1. CASE UsesTimerB
    BY <1>2, <2>1 DEF TimerInv, StartTimer
  <2>2. CASE ~UsesTimerB
    BY <1>2, <2>2 DEF TimerInv, StartTimer
  <2>3. QED
    BY <2>1, <2>2
<1>12. ASSUME UnmaskTimer \/ SetRate PROVE TimerInv'
  BY <1>12 DEF TimerInv, UnmaskTimer, SetRate
<1>13. ASSUME StartTimerB PROVE TimerInv'
  BY <1>13 DEF TimerInv, TypeInv, ControlTyped, Switched, StartTimerB
<1>9. ASSUME LeaveLoop PROVE TimerInv'
  BY <1>9 DEF TimerInv, TypeInv, PlayingTyped, LeaveLoop
<1>10. ASSUME MaskTimer \/ RestoreVector PROVE TimerInv'
  BY <1>10 DEF TimerInv, TypeInv, PlayingTyped, MaskTimer, RestoreVector
<1>11. ASSUME CardFound \/ Load \/ InitializeZsm \/ InitializeChips \/ StartStream \/ PollKey
               \/ Terminate \/ Free
      PROVE  TimerInv'
  BY <1>11 DEF TimerInv, TypeInv, PlayingTyped, HardwareStays, Cleared, CardFound, Load,
              InitializeZsm, InitializeChips, StartStream, PollKey, Terminate, Free
<1>3. ASSUME Tick, UNCHANGED player PROVE TimerInv'
  BY <1>3 DEF TimerInv, HardwareInv, PitOwner, Tick
<1>4. ASSUME Interrupts \/ Hardware, UNCHANGED player PROVE TimerInv'
  BY <1>4 DEF TimerInv, Interrupts, Enter, OldHandler, DetectHandler, ClockHandler, EnableTimerB,
              Hardware, Device, TickIsLost, TimerAOverflows, TimerBOverflows, ForeignInterrupt
<1>5. ASSUME PlayerTick \/ PressKey PROVE TimerInv'
  BY <1>5 DEF TimerInv, HardwareInv, PitOwner, PlayerTick, PressKey
<1>6. ASSUME NEW l \in Lines, TimerHandler(l) PROVE TimerInv'
  BY <1>6 DEF TimerInv, HardwareInv, HandlerOf, Timed, TimerHandler, Switched
<1>7. CASE UNCHANGED vars
  BY <1>7 DEF vars, TimerInv
<1>8. QED
  BY <1>1, <1>2, <1>3, <1>4, <1>5, <1>6, <1>7, <1>9, <1>10, <1>11, <1>12, <1>13
     DEF Next, Main, Play, Handlers

-----------------------------------------------------------------------------
(***************************************************************************)
(* Vectors, mask and PIT.                                                  *)
(***************************************************************************)

LEMMA VectorsStep ==
    ASSUME TypeInv, HardwareInv, TimerInv, [Next]_vars, NEW l \in Lines
    PROVE  vector'[l] = HandlerOf(l)'
<1> USE DEF Goto, Step, HandlerOf, Clocked, Hooked, Timed, Starting, Playback, Stopping, sensed, Irq
<1>0. vector[l] = HandlerOf(l) /\ HandlersTyped /\ DetectorTyped
  BY DEF HardwareInv, TypeInv
<1>1. ASSUME UNCHANGED <<control, vector, sensed>> PROVE vector'[l] = HandlerOf(l)'
  BY <1>0, <1>1
<1>2. ASSUME Detect, ~Sense PROVE vector'[l] = HandlerOf(l)'
  BY <1>0, <1>2 DEF HandlersTyped, Detect, NextBase, Loop, SetMask, ReadParameter, ReadEnvironment,
       Probe, Initialize, Identify, Identified, Accept, Install, Unmask, Sample, ClearTriggered,
       Trigger, Await, TakeVector, StartWatch, StopWatch, Uninstall, Remask, Decide
<1>3. ASSUME Sense PROVE vector'[l] = HandlerOf(l)'
  <2>1. CASE index \in triggered \ spurious
    BY <1>0, <1>3, <2>1 DEF Sense
  <2>2. CASE index \notin triggered \ spurious
    <3>1. sensed = 0 /\ 0 \notin Lines
      BY <1>3, <2>2, SaaymAssumption DEF HardwareInv, NothingSensed, Sense, Loop
    <3>2. QED
      BY <1>0, <1>3, <2>2, <3>1 DEF Sense, Loop
  <2>3. QED
    BY <2>1, <2>2
<1>4. ASSUME Play, ~LeaveLoop PROVE vector'[l] = HandlerOf(l)'
  BY <1>0, <1>4 DEF HandlersTyped, HardwareStays, Play, CardFound, Load, InitializeZsm, UsesTimerB,
       InitializeChips, StartTimer, UnmaskTimer, SetRate, StartTimerB, StartStream, PollKey,
       MaskTimer, RestoreVector, Terminate, Free
<1>5. ASSUME LeaveLoop PROVE vector'[l] = HandlerOf(l)'
  BY <1>0, <1>5 DEF LeaveLoop, TimerInv, UsesTimerB
<1>6. CASE Handlers \/ PressKey \/ (Hardware /\ UNCHANGED player)
  BY <1>0, <1>1, <1>6, OutsideMain
<1>7. CASE UNCHANGED vars
  BY <1>1, <1>7 DEF vars
<1>8. QED
  BY <1>2, <1>3, <1>4, <1>5, <1>6, <1>7 DEF Next, Main

LEMMA MaskStep ==
    ASSUME TypeInv, HardwareInv, TimerInv, [Next]_vars
    PROVE  masked' = MaskThere'
<1> USE DEF Goto, Step, MaskThere, Found, Unmasked, Hooked, Timed, Starting, Playback, Stopping,
            Ending, Irq
<1>0. masked = MaskThere /\ HandlersTyped /\ DetectorTyped
  BY DEF HardwareInv, TypeInv
<1>1. ASSUME UNCHANGED <<control, masked, g_timer_b_stop_requested>> PROVE masked' = MaskThere'
  BY <1>0, <1>1
<1>2. ASSUME Unmask \/ Remask, UNCHANGED player PROVE masked' = MaskThere'
  BY <1>0, <1>2 DEF DetectorTyped, HardwareInv, MaskSaved, Detecting, Searching, Unmask, Remask, SetMask
<1>3. ASSUME Detect, UNCHANGED player, ~Unmask, ~Remask PROVE masked' = MaskThere'
  BY <1>0, <1>3 DEF Detect, NextBase, Loop, ReadParameter, ReadEnvironment,
       Probe, Initialize, Identify, Identified, Accept, Install, Sample, ClearTriggered,
       Trigger, Await, Sense, TakeVector, StartWatch, StopWatch, Uninstall, Decide
<1>4. Found \subseteq Lines
  BY SaaymAssumption DEF TypeInv, ControlTyped, MachineType
<1>5. ASSUME UnmaskTimer \/ StartTimer PROVE masked' = MaskThere'
  BY <1>0, <1>4, <1>5 DEF UnmaskTimer, StartTimer, UsesTimerB
<1>6. ASSUME LeaveLoop PROVE masked' = MaskThere'
  BY <1>0, <1>4, <1>6 DEF LeaveLoop, TimerInv, UsesTimerB
<1>7. ASSUME MaskTimer \/ RestoreVector PROVE masked' = MaskThere'
  BY <1>0, <1>7 DEF MaskTimer, RestoreVector, TimerInv
<1>8. ASSUME SetRate \/ StartTimerB \/ StartStream \/ PollKey PROVE masked' = MaskThere'
  BY <1>0, <1>8 DEF HardwareStays, SetRate, StartTimerB, StartStream, PollKey
<1>12. ASSUME Terminate \/ Free PROVE masked' = MaskThere'
  BY <1>0, <1>12 DEF HardwareStays, Terminate, Free
<1>13. ASSUME CardFound \/ Load \/ InitializeZsm \/ InitializeChips PROVE masked' = MaskThere'
  BY <1>0, <1>13 DEF TimerInv, Preparing, HardwareStays, CardFound, Load, InitializeZsm, InitializeChips
<1>9. CASE Handlers \/ PressKey \/ (Hardware /\ UNCHANGED player)
  BY <1>0, <1>1, <1>9, OutsideMain
<1>10. CASE UNCHANGED vars
  BY <1>1, <1>10 DEF vars
<1>11. QED
  BY <1>2, <1>3, <1>5, <1>6, <1>7, <1>8, <1>9, <1>10, <1>12, <1>13 DEF Next, Main, Play

LEMMA PitStep ==
    ASSUME TypeInv, HardwareInv, TimerInv, [Next]_vars
    PROVE  pit' = PitOwner'
<1> USE DEF Goto, Step, PitOwner, Playback, Irq
<1>0. pit = PitOwner /\ DetectorTyped
  BY DEF HardwareInv, TypeInv
<1>1. ASSUME UNCHANGED <<control, pit>> PROVE pit' = PitOwner'
  BY <1>0, <1>1
<1>2. ASSUME Detect PROVE pit' = PitOwner'
  BY <1>0, <1>2 DEF Detect, NextBase, Loop, SetMask, ReadParameter, ReadEnvironment,
       Probe, Initialize, Identify, Identified, Accept, Install, Unmask, Sample, ClearTriggered,
       Trigger, Await, Sense, TakeVector, StartWatch, StopWatch, Uninstall, Remask, Decide
<1>3. 0 \notin Lines
  BY SaaymAssumption
<1>4. ASSUME StartTimer \/ StartTimerB PROVE pit' = PitOwner'
  BY <1>0, <1>3, <1>4 DEF StartTimer, StartTimerB, UsesTimerB, TypeInv, ControlTyped, Starting
<1>5. ASSUME Play, ~StartTimer, ~StartTimerB PROVE pit' = PitOwner'
  BY <1>0, <1>5 DEF HardwareStays, Play, CardFound, Load, InitializeZsm, InitializeChips,
       UnmaskTimer, SetRate, StartStream, PollKey, LeaveLoop, MaskTimer, RestoreVector,
       Terminate, Free
<1>6. CASE Handlers \/ PressKey \/ (Hardware /\ UNCHANGED player)
  BY <1>0, <1>1, <1>6, OutsideMain
<1>7. CASE UNCHANGED vars
  BY <1>1, <1>7 DEF vars
<1>8. QED
  BY <1>2, <1>4, <1>5, <1>6, <1>7 DEF Next, Main

LEMMA SavedStep ==
    ASSUME TypeInv, HardwareInv, TimerInv, [Next]_vars
    PROVE  MaskSaved' /\ NothingServed' /\ NothingSensed'
<1> USE DEF Goto, Step, Detecting, Searching, Hooked, Preparing
<1>0. HandlersTyped /\ DetectorTyped
  BY DEF TypeInv
<1>3. MaskSaved /\ NothingServed /\ NothingSensed
  BY DEF HardwareInv
<1> USE DEF MaskSaved, NothingServed, NothingSensed, Found
<1>4. ASSUME UNCHANGED <<control, g_pic_old_mask, in_service, sensed>>
      PROVE  MaskSaved' /\ NothingServed' /\ NothingSensed'
  BY <1>3, <1>4
<1>5. CASE Accept /\ UNCHANGED player
  BY <1>3, <1>5 DEF Accept, sensed, HardwareInv, MaskThere, Unmasked, Timed, Starting, Playback,
                    Stopping, Ending, Found
<1>6. CASE Sense /\ UNCHANGED player
  <2>1. CASE index \in triggered \ spurious
    BY <1>3, <1>6, <2>1 DEF Sense, Found
  <2>2. CASE index \notin triggered \ spurious
    BY <1>3, <1>6, <2>2 DEF Sense, Loop, Found, sensed
  <2>3. QED
    BY <2>1, <2>2
<1>7. CASE Detect /\ UNCHANGED player /\ ~Accept /\ ~Sense
  BY <1>3, <1>7 DEF sensed, Found, Detect, NextBase, Loop, SetMask, ReadParameter, ReadEnvironment,
       Probe, Initialize, Identify, Identified, Install, Unmask, Sample, ClearTriggered,
       Trigger, Await, TakeVector, StartWatch, StopWatch, Uninstall, Remask, Decide
<1>8. CASE Play
  BY <1>3, <1>8 DEF sensed, Found, Play, CardFound, Load, InitializeZsm, InitializeChips, StartTimer,
       UnmaskTimer, SetRate, StartTimerB, StartStream, PollKey, LeaveLoop, MaskTimer,
       RestoreVector, Terminate, Free
<1>9. CASE \E l \in Lines : TimerHandler(l)
  <2>1. pc \in Timed
    BY <1>9 DEF TimerHandler, HardwareInv, HandlerOf
  <2>2. QED
    BY <1>9, <2>1 DEF TimerHandler, Timed, Starting, Playback, Stopping
<1>10. CASE PressKey \/ PlayerTick \/ ((Interrupts \/ Tick \/ Hardware) /\ UNCHANGED player)
  <2>1. UNCHANGED <<control, g_pic_old_mask, sensed>>
    BY <1>0, <1>10, OutsideMain DEF Handlers
  <2>2. UNCHANGED in_service
    BY <1>10 DEF PressKey, PlayerTick, Interrupts, Enter, OldHandler, DetectHandler, ClockHandler,
         Tick, Hardware, Device, TickIsLost, TimerAOverflows, TimerBOverflows, ForeignInterrupt
  <2>3. QED
    BY <1>4, <2>1, <2>2
<1>11. CASE UNCHANGED vars
  BY <1>4, <1>11 DEF vars, sensed
<1>12. QED
  BY <1>5, <1>6, <1>7, <1>8, <1>9, <1>10, <1>11 DEF Next, Main, Handlers

LEMMA HardwareStep ==
    ASSUME TypeInv, HardwareInv, TimerInv, [Next]_vars
    PROVE  HardwareInv'
<1>1. \A l \in Lines : vector'[l] = HandlerOf(l)'
  BY VectorsStep
<1>2. QED
  BY <1>1, MaskStep, PitStep, SavedStep DEF HardwareInv

-----------------------------------------------------------------------------
(***************************************************************************)
(* The theorem.                                                            *)
(***************************************************************************)

LEMMA RestoreInitially == PlayerInit => HardwareInv /\ TimerInv
<1> SUFFICES ASSUME PlayerInit PROVE HardwareInv /\ TimerInv
  OBVIOUS
<1> USE DEF PlayerInit, Init, Detecting, Searching, Hooked, Preparing, Timed, Starting, Playback,
            Stopping, Ending, Clocked, Unmasked
<1>1. HardwareInv
  BY DEF HardwareInv, HandlerOf, MaskThere, Found, PitOwner, sensed, MaskSaved, NothingServed, NothingSensed
<1>2. TimerInv
  BY DEF TimerInv
<1>3. QED
  BY <1>1, <1>2

LEMMA RestoreAlways == Spec => [](TypeInv /\ HardwareInv /\ TimerInv)
<1>1. TypeInv /\ HardwareInv /\ TimerInv /\ [Next]_vars => (TypeInv /\ HardwareInv /\ TimerInv)'
  BY TypesStep, HardwareStep, TimerStep
<1>2. QED
  BY <1>1, TypesInitially, RestoreInitially, PTL DEF Spec

\* However detection, playing, handlers and devices interleave, a program that
\* ends leaves the old vectors, the BIOS's PIT and no sound; the mask is the one
\* that was found and the line of Timer B; and the Timer B it used is stopped
\* (saaym_detect_irq, irq_uninstall_detect_handlers, timer_stop, play_zsm).
THEOREM ProgramLeavesAsFound == Spec => []LeavesAsFound
<1>1. TypeInv /\ HardwareInv /\ TimerInv => LeavesAsFound
  <2> SUFFICES ASSUME TypeInv, HardwareInv, TimerInv, pc = "exit"
               PROVE  /\ ~sounding /\ pit = "bios"
                      /\ \A l \in Lines : vector[l] = "old"
                      /\ masked = Found \cup (IF g_timer_b_stop_requested THEN {Irq} ELSE {})
                      /\ g_timer_b_stop_requested => ~timer_b
    BY DEF LeavesAsFound
  <2> USE DEF Hooked, Clocked, Unmasked, Timed, Starting, Playback, Stopping, Ending
  <2>1. ~sounding /\ (g_timer_b_stop_requested => ~timer_b)
    BY DEF TimerInv
  <2>2. pit = "bios"
    BY DEF HardwareInv, PitOwner
  <2>3. \A l \in Lines : vector[l] = "old"
    BY DEF HardwareInv, HandlerOf
  <2>4. masked = Found \cup (IF g_timer_b_stop_requested THEN {Irq} ELSE {})
    BY DEF HardwareInv, MaskThere
  <2>5. QED
    BY <2>1, <2>2, <2>3, <2>4
<1>2. QED
  BY <1>1, RestoreAlways, PTL

=============================================================================
