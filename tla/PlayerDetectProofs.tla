------------------------- MODULE PlayerDetectProofs -------------------------
(***************************************************************************)
(* irq_sense names the card's line, or one on which another device played  *)
(* the card: the steps of the search, the interrupts that Timer B raises   *)
(* on purpose and those of other devices, in any order.                    *)
(* The clock that is then measured is the card's, and the rate that is     *)
(* played with follows from it: the stopwatch's count against Timer B,     *)
(* from the tick that starts it to the handler that stops it, and what the *)
(* settings make of the count.                                             *)
(***************************************************************************)
EXTENDS PlayerProofs

USE DEF world, detector, pic, ym, time, history, control, saaym,
        file, stopping, keyboard, player

-----------------------------------------------------------------------------
(***************************************************************************)
(* The card that is found.                                                 *)
(***************************************************************************)

\* The base that is accepted is the card's: nothing else has a YM2151 that
\* overflows.  A line is only named once the card is found.
LEMMA CardStep ==
    ASSUME TypeInv, HardwareInv, CardInv, [Next]_vars
    PROVE  CardInv'
<1> USE DEF Goto, Step, Detecting, Searching, Hooked, CardInv
<1>0. DetectorTyped
  BY DEF TypeInv
<1>1. ASSUME UNCHANGED <<control, sensed>> PROVE CardInv'
  BY <1>1
<1>2. ASSUME Sense, UNCHANGED player PROVE CardInv'
  <2>1. CASE index \in triggered \ spurious
    <3>1. sensed' = index
      BY <1>0, <1>2, <2>1 DEF Sense, DetectorTyped, Stopwatches, sensed
    <3>2. QED
      BY <1>0, <1>2, <2>1, <3>1 DEF Sense, DetectorTyped
  <2>2. CASE index \notin triggered \ spurious
    BY <1>2, <2>2 DEF Sense, Loop, sensed
  <2>3. QED
    BY <2>1, <2>2
<1>3. ASSUME Accept, UNCHANGED player PROVE CardInv'
  <2>1. config'.base_io_port = index /\ sensed' = sensed
    BY <1>3 DEF Accept, TypeInv, ControlTyped, Configs, sensed
  <2>2. QED
    BY <1>3, <2>1 DEF Accept
<1>4. ASSUME ReadParameter \/ Decide, UNCHANGED player PROVE CardInv'
  <2>1. sensed' = sensed /\ (Decide => config'.base_io_port = config.base_io_port)
    BY <1>4 DEF ReadParameter, Decide, TypeInv, ControlTyped, Configs, sensed
  <2>2. QED
    BY <1>4, <2>1 DEF ReadParameter, Decide, sensed
<1>5. ASSUME Detect, UNCHANGED player, ~Sense, ~Accept, ~ReadParameter, ~Decide PROVE CardInv'
  BY <1>5 DEF sensed, Detect, NextBase, Loop, SetMask, ReadEnvironment,
       Probe, Initialize, Identify, Identified, Install, Unmask, Sample, ClearTriggered,
       Trigger, Await, TakeVector, StartWatch, StopWatch, Uninstall, Remask
<1>6. ASSUME Play PROVE CardInv'
  BY <1>6 DEF sensed, Play, CardFound, Load, InitializeZsm, InitializeChips, StartTimer,
       UnmaskTimer, SetRate, StartTimerB, StartStream, PollKey, LeaveLoop, MaskTimer,
       RestoreVector, Terminate, Free
<1>7. CASE Handlers \/ PressKey \/ (Hardware /\ UNCHANGED player)
  BY <1>0, <1>1, <1>7, OutsideMain
<1>8. CASE UNCHANGED vars
  BY <1>1, <1>8 DEF vars, sensed
<1>9. QED
  BY <1>2, <1>3, <1>4, <1>5, <1>6, <1>7, <1>8 DEF Next, Main

-----------------------------------------------------------------------------
(***************************************************************************)
(* The timers of its YM2151.                                               *)
(***************************************************************************)

\* Timer A only runs, and only overflows, while the chip is identified; Timer B
\* while the line or the clock is sought.
LEMMA YmStep ==
    ASSUME TypeInv, HardwareInv, TimerInv, CardInv, YmInv, [Next]_vars
    PROVE  YmInv'
<1> USE DEF Goto, Step, Detecting, Searching, Hooked, YmInv
<1>1. ASSUME Initialize \/ Identify \/ Identified, UNCHANGED player PROVE YmInv'
  BY <1>1 DEF Initialize, Cleared, Identify, Identified, NextBase, CardInv
<1>2. ASSUME Trigger \/ Await, UNCHANGED player PROVE YmInv'
  BY <1>2 DEF Trigger, Await, EnableTimerB
<1>3. ASSUME Detect, UNCHANGED player, ~Initialize, ~Identify, ~Identified, ~Trigger, ~Await PROVE YmInv'
  BY <1>3 DEF Detect, NextBase, Loop, SetMask, ReadParameter, ReadEnvironment, Probe, Accept,
       Install, Unmask, Sample, ClearTriggered, Sense, TakeVector, StartWatch, StopWatch,
       Uninstall, Remask, Decide
<1>4. ASSUME Play PROVE YmInv'
  BY <1>4 DEF Play, CardFound, Load, InitializeZsm, InitializeChips, StartTimer,
       UnmaskTimer, SetRate, StartTimerB, StartStream, PollKey, LeaveLoop, MaskTimer,
       RestoreVector, Terminate, Free
<1>5. ASSUME Tick \/ \E l \in Lines : ClockHandler(l) PROVE YmInv'
  BY <1>5 DEF HardwareInv, HandlerOf, Clocked, PitOwner, ClockHandler, Enter, Tick, EnableTimerB
<1>6. ASSUME NEW l \in Lines, TimerHandler(l) PROVE YmInv'
  BY <1>6 DEF HardwareInv, HandlerOf, Timed, Starting, Stopping, Playback, TimerHandler
<1>7. ASSUME Hardware, UNCHANGED player PROVE YmInv'
  BY <1>7 DEF Hardware, Device, TickIsLost, TimerAOverflows, TimerBOverflows, ForeignInterrupt
<1>8. ASSUME PlayerTick \/ PressKey \/ (\E l \in Lines : OldHandler(l) \/ DetectHandler(l))
      PROVE YmInv'
  BY <1>8 DEF PlayerTick, PressKey, Enter, OldHandler, DetectHandler
<1>9. CASE UNCHANGED vars
  BY <1>9 DEF vars
<1>10. QED
  BY <1>1, <1>2, <1>3, <1>4, <1>5, <1>6, <1>7, <1>8, <1>9 DEF Next, Main, Handlers, Interrupts

-----------------------------------------------------------------------------
(***************************************************************************)
(* Sampling.                                                               *)
(***************************************************************************)

\* While all lines are unmasked nothing waits when main moves: the handlers run
\* first.  Before that, only what is masked waits.
LEMMA NothingDue ==
    ASSUME TypeInv, HardwareInv, pc \in Detecting, \A l \in Lines : ~Due(l)
    PROVE  request \subseteq masked /\ (pc \in Unmasked => request = {})
<1>1. in_service = {}
  BY DEF HardwareInv, NothingServed
<1>2. request \subseteq masked
  BY <1>1 DEF Due, TypeInv, HandlersTyped
<1>3. pc \in Unmasked => masked = {}
  BY DEF HardwareInv, MaskThere
<1>4. QED
  BY <1>2, <1>3

\* Lines become sampled one by one, by irq_sense_prepare's loop.
LEMMA SampledStep ==
    ASSUME TypeInv, [Next]_vars, pc \in Detecting, pc' \in Detecting
    PROVE  IF Sample THEN index \in Lines \ Sampled /\ Sampled' = Sampled \cup {index}
           ELSE Sampled' = Sampled
<1> USE DEF Goto, Step, Detecting, Searching, Hooked
<1>0. Lines \subseteq Int /\ IndexTyped /\ DetectorTyped
  BY SaaymAssumption DEF TypeInv
<1>1. CASE Sample
  BY <1>0, <1>1 DEF Sample, Sampled, IndexTyped
<1>2. ASSUME ~Sample, Unmask PROVE Sampled' = Sampled
  BY <1>0, <1>2, FirstLowest DEF Unmask, SetMask, Sampled
<1>3. ASSUME ~Sample, ClearTriggered PROVE Sampled' = Sampled
  <2>1. CASE Later = {}
    BY <1>0, <1>3, <2>1 DEF ClearTriggered, Loop, Sampled, Later, IndexTyped
  <2>2. CASE Later # {}
    <3>1. NextLine \in Lines /\ index < NextLine /\ \A l \in Lines : l > index => NextLine <= l
      BY <2>2, NextLowest DEF Later
    <3>2. pc = "clear" /\ pc' = "sample" /\ index' = NextLine /\ index \in Lines
      BY <1>0, <1>3, <2>2 DEF ClearTriggered, Loop, IndexTyped
    <3>3. QED
      BY <1>0, <3>1, <3>2 DEF Sampled
  <2>3. QED
    BY <2>1, <2>2
<1>4. ASSUME Detect, ~Sample, ~Unmask, ~ClearTriggered PROVE Sampled' = Sampled
  BY <1>4 DEF Sampled, Detect, NextBase, Loop, SetMask, ReadParameter, ReadEnvironment, Probe,
       Initialize, Identify, Identified, Accept, Install, Trigger, Await, Sense, TakeVector,
       StartWatch, StopWatch, Uninstall, Remask, Decide
<1>5. ASSUME Play PROVE FALSE
  BY <1>5 DEF Play, CardFound, Load, InitializeZsm, InitializeChips, StartTimer,
       UnmaskTimer, SetRate, StartTimerB, StartStream, PollKey, LeaveLoop, MaskTimer,
       RestoreVector, Terminate, Free
<1>6. ASSUME UNCHANGED control PROVE ~Sample /\ Sampled' = Sampled
  BY <1>6 DEF Sample, Sampled
<1>7. CASE Handlers \/ PressKey \/ (Hardware /\ UNCHANGED player)
  BY <1>0, <1>6, <1>7, OutsideMain
<1>8. CASE UNCHANGED vars
  BY <1>6, <1>8 DEF vars
<1>9. CASE Detect
  BY <1>1, <1>2, <1>3, <1>4, <1>9
<1>10. QED
  BY <1>5, <1>7, <1>8, <1>9 DEF Next, Main

-----------------------------------------------------------------------------
(***************************************************************************)
(* Lines of other devices.                                                 *)
(***************************************************************************)

\* The machine is what it is.
LEMMA WorldStays == ASSUME [Next]_vars PROVE UNCHANGED world
<1>1. CASE Detect
  BY <1>1 DEF Detect, NextBase, Loop, SetMask, ReadParameter, ReadEnvironment, Probe,
       Initialize, Identify, Identified, Accept, Install, Unmask, Sample, ClearTriggered, Trigger,
       Await, Sense, TakeVector, StartWatch, StopWatch, Uninstall, Remask, Decide
<1>2. CASE Play
  BY <1>2 DEF Step, Play, CardFound, Load, InitializeZsm, InitializeChips, StartTimer,
       UnmaskTimer, SetRate, StartTimerB, StartStream, PollKey, LeaveLoop, MaskTimer,
       RestoreVector, Terminate, Free
<1>3. CASE Handlers \/ PressKey \/ (Hardware /\ UNCHANGED player)
  BY <1>3 DEF Handlers, Interrupts, Enter, OldHandler, DetectHandler, ClockHandler, Tick,
       PlayerTick, TimerHandler, PressKey, Hardware, Device, TickIsLost, TimerAOverflows,
       TimerBOverflows, ForeignInterrupt
<1>4. CASE UNCHANGED vars
  BY <1>4 DEF vars
<1>5. QED
  BY <1>1, <1>2, <1>3, <1>4 DEF Next, Main

\* Main moves when no interrupt is due.
LEMMA MainUninterrupted == ASSUME Detect PROVE \A l \in Lines : ~Due(l)
BY DEF Goto, Detect, NextBase, Loop, SetMask, ReadParameter, ReadEnvironment, Probe,
       Initialize, Identify, Identified, Accept, Install, Unmask, Sample, ClearTriggered, Trigger,
       Await, Sense, TakeVector, StartWatch, StopWatch, Uninstall, Remask, Decide

\* Detection is not entered again.
LEMMA DetectingBefore ==
    ASSUME DetectorTyped, [Next]_vars, pc' \in Detecting
    PROVE  pc \in Detecting /\ ~Play
<1> USE DEF Goto, Step, Detecting, Searching, Hooked
<1>1. ASSUME Detect PROVE pc \in Detecting
  BY <1>1 DEF Detect, NextBase, Loop, SetMask, ReadParameter, ReadEnvironment, Probe,
       Initialize, Identify, Identified, Accept, Install, Unmask, Sample, ClearTriggered, Trigger,
       Await, Sense, TakeVector, StartWatch, StopWatch, Uninstall, Remask, Decide
<1>2. ~Play
  BY DEF Play, CardFound, Load, InitializeZsm, InitializeChips, StartTimer,
       UnmaskTimer, SetRate, StartTimerB, StartStream, PollKey, LeaveLoop, MaskTimer,
       RestoreVector, Terminate, Free
<1>3. CASE Handlers \/ PressKey \/ (Hardware /\ UNCHANGED player)
  BY <1>2, <1>3, OutsideMain
<1>4. CASE UNCHANGED vars
  BY <1>2, <1>4 DEF vars
<1>5. QED
  BY <1>1, <1>2, <1>3, <1>4 DEF Next, Main

\* What the search and the calibration do to a line that is not the card's:
\* nothing, but when it is sampled.
LEMMA OtherMain ==
    ASSUME TypeInv, HardwareInv, NEW l \in Lines \ {Card}, OtherInv(l), [Next]_vars,
           pc \in Detecting, pc' \in Detecting, Detect, UNCHANGED player
    PROVE  OtherInv(l)'
<1> USE DEF Goto, OtherInv, Detecting, Searching, Hooked
<1>1. request \subseteq masked /\ (pc \in Unmasked => request = {})
  <2>1. \A m \in Lines : ~Due(m)
    BY MainUninterrupted
  <2>2. QED
    BY <2>1, NothingDue
<1>2. CASE Sample
  <2>1. index \in Lines \ Sampled /\ Sampled' = Sampled \cup {index}
    BY <1>2, SampledStep
  <2>2. request = {}
    BY <1>1, <1>2 DEF Sample, Unmasked
  <2>3. QED
    BY <1>2, <2>1, <2>2 DEF Sample
<1>3. ASSUME ~Sample PROVE Sampled' = Sampled
  BY <1>3, SampledStep
<1>4. CASE ClearTriggered
  <2>1. Sampled' = Sampled
    BY <1>3, <1>4 DEF ClearTriggered, Loop, Sample
  <2>2. l = index => l \in Sampled /\ l \notin triggered'
    BY <1>4, SaaymAssumption DEF ClearTriggered, Loop, Sampled
  <2>3. QED
    BY <1>4, <2>1, <2>2 DEF ClearTriggered, Loop
<1>5. CASE Unmask \/ Remask
  <2>1. Sampled' = Sampled
    BY <1>3, <1>5 DEF Unmask, Remask, SetMask, Sample
  <2>2. QED
    BY <1>5, <2>1 DEF Unmask, Remask, SetMask
<1>6. CASE Identify \/ Identified \/ Trigger \/ Await
  <2>0. l \in Lines /\ l # Card /\ pc' \in Detecting
    OBVIOUS
  <2>1. Sampled' = Sampled
    BY <1>3, <1>6 DEF Identify, Identified, NextBase, Trigger, Await, Sample
  <2>2. UNCHANGED <<triggered, spurious, early, noise, masked>> /\ (l \in request' <=> l \in request)
          /\ pc # "clear" /\ pc \notin {"install"} /\ (pc' \in Searching <=> pc \in Searching)
          /\ pc' \notin {"clear", "install"}
    <3>1. CASE Identify \/ Identified
      BY ONLY <3>1, <2>0 DEF Identify, Identified, NextBase, Goto, Searching, Detecting, Hooked
    <3>2. CASE Trigger
      BY ONLY <3>2, <2>0 DEF Trigger, Lowered, Goto, Searching, Detecting, Hooked
    <3>3. CASE Await
      BY ONLY <3>3, <2>0 DEF Await, Lowered, Goto, Searching, Detecting, Hooked
    <3>4. QED
      BY ONLY <1>6, <3>1, <3>2, <3>3
  <2>3. QED
    BY <2>1, <2>2
<1>7. CASE ReadParameter \/ ReadEnvironment \/ Probe \/ Initialize \/ Accept \/ Install \/ Sense
             \/ TakeVector \/ StartWatch \/ StopWatch \/ Uninstall \/ Decide
  <2> USE <1>7 DEF ReadParameter, ReadEnvironment, Probe, Initialize, Accept, Install, Sense,
       TakeVector, StartWatch, StopWatch, Uninstall, Decide, NextBase, Loop
  <2>1. Sampled' = Sampled
    BY <1>3 DEF Sample
  <2>2. QED
    BY <2>1
<1>8. QED
  BY <1>2, <1>4, <1>5, <1>6, <1>7 DEF Detect

\* What handlers and devices do to it, and when it counts as noise.
LEMMA OtherOutside ==
    ASSUME TypeInv, HardwareInv, NEW l \in Lines \ {Card}, OtherInv(l), [Next]_vars,
           pc \in Detecting, Handlers \/ PressKey \/ (Hardware /\ UNCHANGED player)
    PROVE  OtherInv(l)'
<1> USE DEF OtherInv
<1>0. UNCHANGED <<control, vector, masked, spurious>>
  BY OutsideMain DEF TypeInv
<1>1. Sampled' = Sampled
  BY <1>0 DEF Sampled
<1>2. l # Card /\ pc' = pc /\ index' = index
  BY <1>0
<1>3. CASE \E m \in Lines : OldHandler(m)
  BY <1>0, <1>1, <1>2, <1>3 DEF OldHandler, Enter, Due, HardwareInv, HandlerOf, Hooked, Searching,
     Clocked, Detecting, Timed, Starting, Stopping, Playback, Sampled
<1>4. CASE \E m \in Lines : DetectHandler(m)
  BY <1>0, <1>1, <1>2, <1>4 DEF DetectHandler, Enter, Due, HardwareInv, HandlerOf, Hooked, Searching, Clocked
<1>5. CASE \E m \in Lines : ClockHandler(m)
  <2>1. pc \in Clocked
    BY <1>5 DEF ClockHandler, Enter, HardwareInv, HandlerOf
  <2>2. l \in Sampled /\ pc \notin Searching \cup {"install", "clear"}
    BY <2>1 DEF Sampled, Clocked, Searching
  <2>3. triggered' = triggered /\ early' = early /\ noise' = noise /\ request' \subseteq request
    BY <1>5 DEF ClockHandler, Enter
  <2>4. QED
    BY <1>0, <1>1, <1>2, <2>2, <2>3
<1>6. CASE Tick
  BY <1>0, <1>1, <1>2, <1>6 DEF Tick, Lowered
<1>7. CASE \E m \in Lines : ForeignInterrupt(m)
  BY <1>0, <1>1, <1>2, <1>7 DEF ForeignInterrupt, Device, HardwareInv, HandlerOf, Hooked, Searching, Clocked, Timed, Starting, Stopping, Playback
<1>8. CASE TickIsLost \/ TimerAOverflows \/ TimerBOverflows
  BY <1>0, <1>1, <1>2, <1>8 DEF TickIsLost, TimerAOverflows, TimerBOverflows, Raised, Device
<1>9. CASE PlayerTick \/ PressKey
  BY <1>0, <1>1, <1>2, <1>9 DEF PlayerTick, PressKey
<1>10. CASE \E m \in Lines : TimerHandler(m)
  BY <1>10 DEF TimerHandler, HardwareInv, HandlerOf, Detecting, Searching, Hooked, Timed, Starting, Stopping, Playback
<1>11. QED
  BY <1>3, <1>4, <1>5, <1>6, <1>7, <1>8, <1>9, <1>10 DEF Handlers, Interrupts, Hardware

\* All of them, at every step.
LEMMA OthersStep ==
    ASSUME TypeInv, HardwareInv, OthersInv, [Next]_vars
    PROVE  OthersInv'
<1>0. DetectorTyped
  BY DEF TypeInv
<1>1. Card' = Card
  <2>1. UNCHANGED world
    BY WorldStays
  <2>2. QED
    BY <2>1 DEF Card
<1> SUFFICES ASSUME NEW l \in Lines \ {Card} PROVE OtherInv(l)'
  BY <1>1 DEF OthersInv
<1>2. OtherInv(l)
  BY DEF OthersInv
<1>3. CASE pc' \notin Detecting
  BY <1>3 DEF OtherInv, Sampled, Detecting, Searching, Hooked
<1>4. CASE pc' \in Detecting
  <2>1. pc \in Detecting /\ ~Play
    BY <1>0, <1>4, DetectingBefore
  <2>2. CASE Detect /\ UNCHANGED player
    BY <1>2, <1>4, <2>1, <2>2, OtherMain
  <2>3. CASE Handlers \/ PressKey \/ (Hardware /\ UNCHANGED player)
    BY <1>2, <2>1, <2>3, OtherOutside
  <2>4. CASE UNCHANGED vars
    BY <1>2, <2>4 DEF vars, OtherInv, Sampled
  <2>5. QED
    BY <2>1, <2>2, <2>3, <2>4 DEF Next, Main
<1>5. QED
  BY <1>3, <1>4

-----------------------------------------------------------------------------
(***************************************************************************)
(* The card's own line.                                                    *)
(***************************************************************************)

LEMMA OwnLineMain ==
    ASSUME TypeInv, HardwareInv, OwnLineInv, [Next]_vars,
           pc \in Detecting, pc' \in Detecting, Detect, UNCHANGED player
    PROVE  OwnLineInv'
<1> USE DEF Goto, OwnLineInv, Detecting, Searching, Hooked
<1>1. request \subseteq masked /\ (pc \in Unmasked => request = {})
  <2>1. \A m \in Lines : ~Due(m)
    BY MainUninterrupted
  <2>2. QED
    BY <2>1, NothingDue
<1>2. Card' = Card
  BY WorldStays DEF Card
<1>3. CASE Sample
  <2>1. index \in Lines \ Sampled /\ Sampled' = Sampled \cup {index}
    BY <1>3, SampledStep
  <2>2. request = {}
    BY <1>1, <1>3 DEF Sample, Unmasked
  <2>3. QED
    BY <1>2, <1>3, <2>1, <2>2 DEF Sample
<1>4. ASSUME ~Sample PROVE Sampled' = Sampled
  BY <1>4, SampledStep
<1>5. CASE ClearTriggered
  <2>1. Sampled' = Sampled
    BY <1>4, <1>5 DEF ClearTriggered, Loop, Sample
  <2>2. QED
    BY <1>2, <1>5, <2>1 DEF ClearTriggered, Loop
<1>6. CASE Install \/ Unmask \/ Accept
  <2>1. Sampled' = Sampled
    BY <1>4, <1>6 DEF Install, Unmask, SetMask, Accept, Sample
  <2>2. QED
    BY <1>1, <1>2, <1>6, <2>1 DEF Install, Unmask, SetMask, Accept
<1>7. CASE Identify \/ Identified
  <2>1. Sampled' = Sampled
    BY <1>4, <1>7 DEF Identify, Identified, NextBase, Sample
  <2>2. QED
    BY <1>2, <1>7, <2>1 DEF Identify, Identified, NextBase
<1>8. CASE Trigger \/ Await \/ Sense \/ TakeVector \/ StartWatch \/ StopWatch \/ Uninstall \/ Remask \/ Decide
  <2>1. UNCHANGED <<spurious, early>>
          /\ pc' \in {"await", "sense", "take", "start_watch", "watch", "uninstall", "remask", "decide", "detected"}
    BY <1>8, ZenonT(30) DEF Trigger, Await, Sense, TakeVector, StartWatch, StopWatch, Uninstall, Remask,
                SetMask, Decide, Loop
  <2>2. Sampled' = Sampled
    BY <1>4, <1>8 DEF Sample, Trigger, Await, Sense, TakeVector, StartWatch, StopWatch, Uninstall,
                      Remask, SetMask, Decide, Loop
  <2>3. QED
    BY <1>2, <2>1, <2>2
<1>9. CASE ReadParameter \/ ReadEnvironment \/ Probe \/ Initialize
  <2> USE <1>9 DEF ReadParameter, ReadEnvironment, Probe, Initialize, NextBase
  <2>1. Sampled' = Sampled
    BY <1>4 DEF Sample
  <2>2. QED
    BY <1>2, <2>1
<1>10. QED
  BY <1>3, <1>5, <1>6, <1>7, <1>8, <1>9 DEF Detect

LEMMA OwnLineOutside ==
    ASSUME TypeInv, HardwareInv, YmInv, OwnLineInv, [Next]_vars,
           pc \in Detecting, Handlers \/ PressKey \/ (Hardware /\ UNCHANGED player)
    PROVE  OwnLineInv'
<1> USE DEF OwnLineInv
<1>0. UNCHANGED <<control, vector, masked, spurious>>
  BY OutsideMain DEF TypeInv
<1>1. Sampled' = Sampled
  BY <1>0 DEF Sampled
<1>2. Card' = Card /\ pc' = pc
  BY <1>0 DEF Card
<1>3. CASE \E m \in Lines : OldHandler(m)
  BY <1>0, <1>1, <1>2, <1>3 DEF OldHandler, Enter
<1>4. CASE \E m \in Lines : DetectHandler(m)
  <2>1. PICK m \in Lines : DetectHandler(m)
    BY <1>4
  <2>2. pc \in Hooked
    BY <2>1 DEF DetectHandler, Enter, HardwareInv, HandlerOf
  <2>3. request' = request \ {m} /\ triggered' = triggered \cup {m} /\ m \in request /\ UNCHANGED <<early, noise>>
    BY <2>1 DEF DetectHandler, Enter, Due
  <2>4. QED
    BY <1>0, <1>1, <1>2, <2>2, <2>3 DEF Hooked, Searching
<1>5. CASE \E m \in Lines : ClockHandler(m)
  BY <1>0, <1>1, <1>2, <1>5 DEF ClockHandler, Enter
<1>6. CASE Tick
  BY <1>0, <1>1, <1>2, <1>6 DEF Tick
<1>7. CASE \E m \in Lines : ForeignInterrupt(m)
  <2>1. PICK m \in Lines : ForeignInterrupt(m)
    BY <1>7
  <2>2. pc \in Searching \cup {"install"} => vector[m] # "detect"
    BY DEF HardwareInv, HandlerOf, Searching, Hooked, Clocked, Timed, Starting, Stopping, Playback
  <2>3. pc \in {"unmask", "sample", "clear"} => vector[m] = "detect"
    BY DEF HardwareInv, HandlerOf, Hooked, Clocked
  <2>4. request' = request \cup {m} /\ UNCHANGED triggered
          /\ early' = IF m \notin Sampled /\ (m \in masked \/ vector[m] = "detect")
                      THEN early \cup {m} ELSE early
    BY <2>1 DEF ForeignInterrupt, Device
  <2>5. pc \in Searching \cup {"install"} => m \notin Sampled
    BY DEF Sampled, Searching
  <2>6. CASE m # Card
    BY <1>0, <1>1, <1>2, <2>4, <2>6
  <2>7. CASE m = Card
    <3>1. pc \in Searching \cup {"install"} => (Card \in early' <=> Card \in early \/ Card \in masked)
      BY <2>2, <2>4, <2>5, <2>7
    <3>2. pc \in {"unmask", "sample", "clear"} /\ Card \notin Sampled => Card \in early'
      BY <2>3, <2>4, <2>7
    <3>3. "accept" \in Searching
      BY DEF Searching
    <3>4. early \subseteq early' /\ triggered' = triggered
      BY <2>4
    <3> HIDE DEF OwnLineInv
    <3>5. (pc \in Searching \cup {"install"} => triggered = {})'
            /\ (Card \in early /\ pc \in Searching \cup {"install"} => Card \in masked)'
            /\ (Card \in request /\ pc \in {"accept", "install"} => Card \in early \/ Card \notin masked)'
      BY <1>0, <1>2, <3>1, <3>3, <3>4 DEF OwnLineInv
    <3>6. (Card \in request \cup triggered /\ pc \in {"unmask", "sample", "clear"}
             /\ Card \notin Sampled => Card \in early)'
            /\ (Card \in spurious /\ Card \in Sampled /\ pc \in Detecting => Card \in early)'
      BY <1>0, <1>1, <1>2, <3>2, <3>4 DEF OwnLineInv
    <3>7. QED
      BY <3>5, <3>6 DEF OwnLineInv
  <2>8. QED
    BY <2>6, <2>7
<1>8. CASE TimerAOverflows \/ TimerBOverflows
  <2>1. pc \notin {"accept", "install", "unmask", "sample", "clear"}
    BY <1>8 DEF YmInv, TimerAOverflows, TimerBOverflows, Detecting, Searching, Hooked
  <2>2. QED
    BY <1>0, <1>1, <1>2, <1>8, <2>1 DEF TimerAOverflows, TimerBOverflows, Device
<1>9. CASE PlayerTick \/ PressKey \/ TickIsLost
  BY <1>0, <1>1, <1>2, <1>9 DEF PlayerTick, PressKey, TickIsLost, Device
<1>10. CASE \E m \in Lines : TimerHandler(m)
  BY <1>10 DEF TimerHandler, HardwareInv, HandlerOf, Detecting, Searching, Hooked, Timed, Starting, Stopping, Playback
<1>11. QED
  BY <1>3, <1>4, <1>5, <1>6, <1>7, <1>8, <1>9, <1>10 DEF Handlers, Interrupts, Hardware

LEMMA OwnLineStep ==
    ASSUME TypeInv, HardwareInv, YmInv, OwnLineInv, [Next]_vars
    PROVE  OwnLineInv'
<1>0. DetectorTyped
  BY DEF TypeInv
<1>1. CASE pc' \notin Detecting
  BY <1>1 DEF OwnLineInv, Detecting, Searching, Hooked
<1>2. CASE pc' \in Detecting
  <2>1. pc \in Detecting /\ ~Play
    BY <1>0, <1>2, DetectingBefore
  <2>2. CASE Detect /\ UNCHANGED player
    BY <1>2, <2>1, <2>2, OwnLineMain
  <2>3. CASE Handlers \/ PressKey \/ (Hardware /\ UNCHANGED player)
    BY <2>1, <2>3, OwnLineOutside
  <2>4. CASE UNCHANGED vars
    BY <2>4 DEF vars, OwnLineInv, Sampled, Card
  <2>5. QED
    BY <2>1, <2>2, <2>3, <2>4 DEF Next, Main
<1>3. QED
  BY <1>1, <1>2

\* Timer B's overflow has triggered the card's line by the time irq_sense looks,
\* and irq_sense comes to that line before it passes it.
LEMMA OwnTriggerStep ==
    ASSUME TypeInv, HardwareInv, YmInv, OwnLineInv, OwnTriggerInv, [Next]_vars
    PROVE  OwnTriggerInv'
<1> USE DEF Goto, Step
<1>0. DetectorTyped /\ IndexTyped /\ Lines \subseteq Int
  BY SaaymAssumption DEF TypeInv
<1>1. Card' = Card
  BY WorldStays DEF Card
<1>2. CASE ClearTriggered
  <2>1. pc' = "trigger" => index' = First
    BY <1>2 DEF ClearTriggered, Loop
  <2>2. pc' \in {"trigger", "sample"}
    BY <1>2 DEF ClearTriggered, Loop
  <2>3. QED
    BY <2>1, <2>2 DEF OwnTriggerInv
<1>3. CASE Trigger
  BY <1>3 DEF Trigger, EnableTimerB, OwnTriggerInv
<1>4. CASE Await
  <2>1. request = {}
    BY <1>4, MainUninterrupted, NothingDue DEF Await, Unmasked, Hooked, Detecting, Detect
  <2>2. Card \in Lines => Card \in triggered /\ index <= Card
    BY <1>4, <2>1, FirstLowest DEF Await, OwnTriggerInv
  <2>3. QED
    BY <1>1, <1>4, <2>2 DEF Await, OwnTriggerInv
<1>5. CASE Sense
  <2>1. CASE index \in triggered \ spurious
    BY <1>5, <2>1 DEF Sense, OwnTriggerInv
  <2>2. CASE index \notin triggered \ spurious /\ Later = {}
    BY <1>5, <2>2 DEF Sense, Loop, OwnTriggerInv
  <2>3. CASE index \notin triggered \ spurious /\ Later # {}
    <3>1. pc = "sense" /\ pc' = "sense" /\ index' = NextLine /\ UNCHANGED <<triggered, noise, early>>
      BY <1>5, <2>3 DEF Sense, Loop
    <3>2. index \in Lines /\ (Card \in Sampled \/ Card \notin Lines)
      BY <1>0, <3>1 DEF IndexTyped, Sampled
    <3>3. ASSUME noise = {}, Card \in Lines, Card \notin early PROVE NextLine <= Card
      <4>1. Card \in triggered /\ Card \notin spurious /\ index <= Card
        BY <3>1, <3>2, <3>3 DEF OwnTriggerInv, OwnLineInv, Detecting, Hooked
      <4>2. index # Card /\ index \in Int
        BY <1>0, <2>3, <3>1, <4>1 DEF IndexTyped
      <4>3. Card \in Later
        BY <1>0, <3>3, <4>1, <4>2 DEF Later
      <4>4. QED
        BY <4>3, NextLowest
    <3>4. QED
      BY <1>1, <3>1, <3>3 DEF OwnTriggerInv
  <2>4. QED
    BY <2>1, <2>2, <2>3
<1>6. CASE Detect /\ UNCHANGED player /\ ~ClearTriggered /\ ~Trigger /\ ~Await /\ ~Sense
  <2>1. pc' \notin {"trigger", "await", "sense"}
    BY <1>6 DEF Detect, NextBase, Loop, SetMask, ReadParameter, ReadEnvironment, Probe,
       Initialize, Identify, Identified, Accept, Install, Unmask, Sample, TakeVector, StartWatch,
       StopWatch, Uninstall, Remask, Decide
  <2>2. QED
    BY <2>1 DEF OwnTriggerInv
<1>7. CASE Play
  <2>1. pc' \notin {"trigger", "await", "sense"}
    BY <1>7, DetectingBefore DEF Detecting, Hooked, Play, CardFound, Load, InitializeZsm, InitializeChips,
       StartTimer, UnmaskTimer, SetRate, StartTimerB, StartStream, PollKey, LeaveLoop, MaskTimer,
       RestoreVector, Terminate, Free
  <2>2. QED
    BY <2>1 DEF OwnTriggerInv
<1>8. ASSUME UNCHANGED control, noise' = {} => noise = {}, early \subseteq early', triggered \subseteq triggered',
             pc = "await" /\ Card \in Lines /\ flag_b' => Card \in (request \cup triggered)'
      PROVE  OwnTriggerInv'
  BY <1>1, <1>8 DEF OwnTriggerInv
<1>9. CASE Handlers \/ PressKey \/ (Hardware /\ UNCHANGED player)
  <2>1. UNCHANGED control
    BY <1>0, <1>9, OutsideMain
  <2>2. (noise' = {} => noise = {}) /\ early \subseteq early' /\ triggered \subseteq triggered'
    BY <1>9 DEF Handlers, Interrupts, Enter, OldHandler, DetectHandler, ClockHandler, Tick,
       PlayerTick, TimerHandler, PressKey, Hardware, Device, TickIsLost, TimerAOverflows,
       TimerBOverflows, ForeignInterrupt
  <2>3. ASSUME pc = "await", Card \in Lines, flag_b' PROVE Card \in (request \cup triggered)'
    <3>1. flag_b => Card \in request \cup triggered
      BY <2>3 DEF OwnTriggerInv
    <3>2. ~flag_a /\ ~timer_a
      BY <2>3 DEF YmInv, Detecting, Searching, Hooked
    <3>3. pit # "stopwatch" /\ \A l \in Lines : vector[l] = "detect"
      BY <2>3 DEF HardwareInv, PitOwner, HandlerOf, Hooked, Clocked, Playback
    <3>4. CASE \E l \in Lines : OldHandler(l) \/ ClockHandler(l) \/ TimerHandler(l)
      BY <3>3, <3>4 DEF OldHandler, ClockHandler, TimerHandler, Enter
    <3>5. CASE \E l \in Lines : DetectHandler(l)
      BY <1>1, <2>3, <3>1, <3>5 DEF DetectHandler, Enter
    <3>6. CASE Tick \/ PlayerTick \/ PressKey \/ TickIsLost
      BY <1>1, <2>3, <3>1, <3>3, <3>6 DEF Tick, PlayerTick, PressKey, TickIsLost, Device
    <3>7. CASE TimerAOverflows \/ TimerBOverflows
      BY <1>1, <2>3, <3>1, <3>2, <3>7 DEF TimerAOverflows, TimerBOverflows, Raised, Device
    <3>8. CASE \E l \in Lines : ForeignInterrupt(l)
      BY <1>1, <2>3, <3>1, <3>8 DEF ForeignInterrupt, Device
    <3>9. QED
      BY <1>9, <3>4, <3>5, <3>6, <3>7, <3>8 DEF Handlers, Interrupts, Hardware
  <2>4. QED
    BY <1>8, <2>1, <2>2, <2>3
<1>10. CASE UNCHANGED vars
  BY <1>8, <1>10 DEF vars, OwnTriggerInv, Card
<1>11. QED
  BY <1>2, <1>3, <1>4, <1>5, <1>6, <1>7, <1>9, <1>10 DEF Next, Main

-----------------------------------------------------------------------------
(***************************************************************************)
(* What irq_sense makes of it.                                             *)
(***************************************************************************)

LEMMA SensedStep ==
    ASSUME TypeInv, HardwareInv, CardInv, OthersInv, OwnLineInv, OwnTriggerInv, SensedInv, [Next]_vars
    PROVE  SensedInv'
<1> USE DEF Goto, Step
<1>0. DetectorTyped /\ IndexTyped /\ Lines \subseteq Int /\ 0 \notin Lines
  BY SaaymAssumption DEF TypeInv
<1>1. Card' = Card /\ Card \in Lines \cup {0}
  BY WorldStays, SaaymAssumption DEF Card, TypeInv, ControlTyped, MachineType
<1>2. CASE Sense
  <2>0. pc = "sense" /\ index \in Lines /\ Sampled = Lines /\ pc \in Detecting /\ UNCHANGED <<noise, early>>
    BY <1>0, <1>2 DEF Sense, Loop, IndexTyped, Sampled, Detecting, Hooked
  <2>1. CASE index \in triggered \ spurious
    <3>1. sensed' = index /\ pc' = "take"
      BY <1>0, <1>2, <2>1 DEF Sense, DetectorTyped, Stopwatches, sensed
    <3>2. index = Card \/ index \in noise \ early
      BY <2>0, <2>1 DEF OthersInv, OtherInv
    <3>3. QED
      BY <1>1, <2>0, <3>1, <3>2 DEF SensedInv
  <2>2. CASE index \notin triggered \ spurious /\ Later # {}
    BY <1>1, <1>2, <2>0, <2>2 DEF Sense, Loop, SensedInv, sensed
  <2>3. CASE index \notin triggered \ spurious /\ Later = {}
    <3>1. pc' = "uninstall" /\ sensed' = 0
      BY <1>2, <2>0, <2>3 DEF Sense, Loop, HardwareInv, NothingSensed, sensed
    <3>2. ASSUME noise = {}, Card \notin early PROVE Card = 0
      <4> SUFFICES ASSUME Card \in Lines PROVE FALSE
        BY <1>1
      <4>1. Card \in triggered /\ Card \notin spurious /\ index <= Card
        BY <2>0, <3>2 DEF OwnTriggerInv, OwnLineInv
      <4>2. index < Card
        BY <1>0, <2>0, <2>3, <4>1
      <4>3. QED
        BY <2>3, <4>2 DEF Later
    <3>3. QED
      BY <1>1, <2>0, <3>1, <3>2 DEF SensedInv
  <2>4. QED
    BY <2>1, <2>2, <2>3
<1>3. ASSUME UNCHANGED <<sensed, noise, early>>,
             pc' \in {"take", "start_watch", "watch", "uninstall", "remask", "decide"} =>
                 pc \in {"take", "start_watch", "watch", "uninstall", "remask", "decide"}
      PROVE  SensedInv'
  BY <1>1, <1>3 DEF SensedInv
<1>4. CASE Detect /\ UNCHANGED player /\ ~Sense
  <2>1. UNCHANGED <<sensed, noise, early>>
    BY <1>4 DEF sensed, Detect, NextBase, Loop, SetMask, ReadParameter, ReadEnvironment, Probe,
       Initialize, Identify, Identified, Accept, Install, Unmask, Sample, ClearTriggered, Trigger,
       Await, TakeVector, StartWatch, StopWatch, Uninstall, Remask, Decide
  <2>2. pc' \in {"take", "start_watch", "watch", "uninstall", "remask", "decide"} =>
            pc \in {"take", "start_watch", "watch", "uninstall", "remask", "decide"}
    BY <1>4 DEF Detect, NextBase, Loop, SetMask, ReadParameter, ReadEnvironment, Probe,
       Initialize, Identify, Identified, Accept, Install, Unmask, Sample, ClearTriggered, Trigger,
       Await, TakeVector, StartWatch, StopWatch, Uninstall, Remask, Decide
  <2>3. QED
    BY <1>3, <2>1, <2>2
<1>5. CASE Play
  <2>1. UNCHANGED <<sensed, noise, early>>
    BY <1>5 DEF sensed, Play, CardFound, Load, InitializeZsm, InitializeChips,
       StartTimer, UnmaskTimer, SetRate, StartTimerB, StartStream, PollKey, LeaveLoop, MaskTimer,
       RestoreVector, Terminate, Free
  <2>2. pc' \notin {"take", "start_watch", "watch", "uninstall", "remask", "decide"}
    BY <1>5 DEF Play, CardFound, Load, InitializeZsm, InitializeChips,
       StartTimer, UnmaskTimer, SetRate, StartTimerB, StartStream, PollKey, LeaveLoop, MaskTimer,
       RestoreVector, Terminate, Free
  <2>3. QED
    BY <1>3, <2>1, <2>2
<1>6. CASE Handlers \/ PressKey \/ (Hardware /\ UNCHANGED player)
  <2>1. UNCHANGED <<control, sensed>>
    BY <1>0, <1>6, OutsideMain
  <2>2. noise \subseteq noise' /\ early \subseteq early' /\ early' \subseteq early \cup (Lines \ Sampled)
    BY <1>6 DEF Handlers, Interrupts, Enter, OldHandler, DetectHandler, ClockHandler, Tick,
       PlayerTick, TimerHandler, PressKey, Hardware, Device, TickIsLost, TimerAOverflows,
       TimerBOverflows, ForeignInterrupt
  <2>3. sensed # 0 => Sampled = Lines
    BY DEF CardInv, HardwareInv, NothingSensed, Sampled, Searching
  <2>4. QED
    BY <1>1, <2>1, <2>2, <2>3 DEF SensedInv
<1>7. CASE UNCHANGED vars
  BY <1>3, <1>7 DEF vars, sensed
<1>8. QED
  BY <1>2, <1>4, <1>5, <1>6, <1>7 DEF Next, Main

-----------------------------------------------------------------------------
(***************************************************************************)
(* The theorem.                                                            *)
(***************************************************************************)
SensingInv ==
    /\ TypeInv /\ HardwareInv /\ TimerInv /\ CardInv /\ YmInv
    /\ OthersInv /\ OwnLineInv /\ OwnTriggerInv /\ SensedInv

LEMMA SensingInitially == PlayerInit => SensingInv
<1> SUFFICES ASSUME PlayerInit PROVE SensingInv
  OBVIOUS
<1>1. pc = "environment" /\ triggered = {} /\ early = {} /\ spurious = {} /\ sensed = 0
  BY DEF PlayerInit, Init, sensed
<1>2. Sampled = {}
  BY <1>1 DEF Sampled
<1> USE DEF Detecting, Searching, Hooked
<1>3. CardInv /\ YmInv /\ OwnLineInv /\ OwnTriggerInv /\ SensedInv
  BY <1>1, <1>2 DEF CardInv, YmInv, OwnLineInv, OwnTriggerInv, SensedInv
<1>4. OthersInv
  BY <1>1, <1>2 DEF OthersInv, OtherInv
<1>5. QED
  BY <1>3, <1>4, TypesInitially, RestoreInitially DEF SensingInv

LEMMA SensingAlways == Spec => []SensingInv
<1>1. SensingInv /\ [Next]_vars => SensingInv'
  BY TypesStep, HardwareStep, TimerStep, CardStep, YmStep, OthersStep, OwnLineStep, OwnTriggerStep,
     SensedStep DEF SensingInv
<1>2. QED
  BY <1>1, SensingInitially, PTL DEF Spec

\* Whatever the order in which Timer B, other devices, handlers and main come,
\* irq_sense names the card's line or one on which another device kept still
\* until the sampling and interrupted after it, and the card's if all lines were
\* quiet (irq_sense_prepare, irq_sense, saaym_detect_irq).
THEOREM LineSensed == Spec => []SensesTheCard
<1>1. SensingInv => SensesTheCard
  <2> SUFFICES ASSUME SensedInv PROVE SensesTheCard
    BY DEF SensingInv
  <2>1. QED
    BY DEF SensedInv, SensesTheCard, sensed
<1>2. QED
  BY <1>1, SensingAlways, PTL

-----------------------------------------------------------------------------
(***************************************************************************)
(* The stopwatch, handler by handler.                                      *)
(***************************************************************************)

\* On a sensed line that stays quiet it is the card that interrupts.
LEMMA SensedIsCard ==
    ASSUME SensingInv, pc = "watch", sensed \notin noise
    PROVE  sensed = Card /\ Card \in Lines
BY SaaymAssumption DEF SensingInv, CardInv, SensedInv

\* The numbers that are compared: Timer B's longest period and the bounds.
LEMMA PeriodsInOrder ==
    /\ Longest \in Nat /\ Longest <= SlowPeriod /\ SlowPeriod + 2 < Limit
    /\ machine.fast => Longest + 1 < Threshold
    /\ ~machine.fast => Threshold <= Longest - LostTicks
    /\ LostTicks \in Nat /\ Limit \in Nat /\ Threshold \in Nat /\ SlowPeriod \in Nat
BY SaaymAssumption DEF Longest

LEMMA WatchPeriod == ASSUME pit = "stopwatch", clkb = 0 PROVE Period = Longest
BY DEF Period, Longest

\* The fields of the stopwatch after its handlers.
LEMMA StopwatchFields ==
    ASSUME DetectorTyped
    PROVE  /\ stopwatch.ticks \in Nat /\ stopwatch.counter \in Nat
           /\ stopwatch.count_at_overflow \in Nat /\ stopwatch.state \in States
           /\ Tick /\ stopwatch.state = "start" =>
                  stopwatch'.state = "wait" /\ stopwatch'.counter = 0
                  /\ stopwatch'.ticks = stopwatch.ticks + 1
           /\ Tick /\ stopwatch.state = "wait" =>
                  stopwatch'.state = "wait" /\ stopwatch'.counter = stopwatch.counter + 1
                  /\ stopwatch'.ticks = stopwatch.ticks + 1
           /\ Tick /\ stopwatch.state = "overflowed" =>
                  stopwatch'.state = "overflowed"
                  /\ stopwatch'.count_at_overflow = stopwatch.count_at_overflow
<1>1. stopwatch.ticks \in Counts /\ stopwatch.counter \in Counts /\ stopwatch.state \in States
        /\ stopwatch.count_at_overflow \in Counts
  BY DEF DetectorTyped, Stopwatches
<1>2. stopwatch.ticks \in Nat /\ stopwatch.counter \in Nat /\ stopwatch.count_at_overflow \in Nat
  BY <1>1, SaaymAssumption DEF Counts
<1>3. CASE Tick /\ stopwatch.state = "start"
  BY <1>1, <1>2, <1>3 DEF Tick, DetectorTyped, Stopwatches
<1>4. CASE Tick /\ stopwatch.state = "wait"
  BY <1>1, <1>2, <1>4 DEF Tick, DetectorTyped, Stopwatches
<1>5. CASE Tick /\ stopwatch.state = "overflowed"
  BY <1>1, <1>2, <1>5 DEF Tick, DetectorTyped, Stopwatches
<1>6. QED
  BY <1>1, <1>2, <1>3, <1>4, <1>5

\* A tick of the PIT: it starts Timer B, counts, or comes too late.
LEMMA WatchTick ==
    ASSUME SensingInv, WatchInv, [Next]_vars, pc = "watch", Tick, UNCHANGED player
    PROVE  WatchInv'
<1>0. DetectorTyped /\ TimersTyped /\ HandlersTyped /\ pit = "stopwatch" /\ clkb = 0
  BY DEF SensingInv, TypeInv, HardwareInv, PitOwner, WatchInv
<1>1. UNCHANGED <<control, clkb, noise, lost>> /\ sensed' = sensed
  BY <1>0, SensedKept DEF Tick
<1>2. Card' = Card /\ Longest' = Longest
  BY <1>1 DEF Card, Longest
<1>3. Period = Longest /\ Longest \in Nat
  BY <1>0, WatchPeriod, PeriodsInOrder
<1>4. flag_a = FALSE
  BY DEF SensingInv, YmInv, Detecting, Searching, Hooked
<1>5. elapsed \in Nat /\ lost \in Nat
  BY <1>0, SaaymAssumption DEF TimersTyped
<1>6. CASE stopwatch.state = "start"
  <2>1. stopwatch'.state = "wait" /\ stopwatch'.counter = 0 /\ stopwatch'.ticks = 1 /\ lost = 0
    BY <1>0, <1>6, StopwatchFields DEF WatchInv, WatchIdle
  <2>2. timer_b' /\ ~flag_b' /\ request' = request \ {Card} /\ elapsed' = 0
    BY <1>4, <1>6 DEF Tick, EnableTimerB, Lowered
  <2>3. WatchRuns'
    BY <1>1, <1>2, <1>3, <2>1, <2>2 DEF WatchRuns
  <2>4. QED
    BY <1>0, <1>1, <2>1, <2>3 DEF WatchInv
<1>7. CASE stopwatch.state = "wait"
  <2>1. stopwatch'.state = "wait" /\ stopwatch'.counter = stopwatch.counter + 1
          /\ stopwatch'.ticks = stopwatch.ticks + 1 /\ stopwatch.counter \in Nat
    BY <1>0, <1>7, StopwatchFields
  <2>2. UNCHANGED <<timer_b, flag_b, request>> /\ TickPasses
    BY <1>7 DEF Tick
  <2>3. ASSUME WatchRuns PROVE WatchRuns'
    BY <1>1, <1>2, <1>3, <1>5, <2>1, <2>2, <2>3 DEF WatchRuns, TickPasses
  <2>4. QED
    BY <1>0, <1>1, <1>7, <2>1, <2>3 DEF WatchInv
<1>8. CASE stopwatch.state = "overflowed"
  <2>1. stopwatch'.state = "overflowed" /\ stopwatch'.count_at_overflow = stopwatch.count_at_overflow
    BY <1>0, <1>8, StopwatchFields
  <2>2. UNCHANGED <<timer_b, flag_b>>
    BY <1>8 DEF Tick
  <2>3. QED
    BY <1>0, <1>1, <1>2, <1>8, <2>1, <2>2 DEF WatchInv, WatchOver
<1>9. QED
  BY <1>0, <1>6, <1>7, <1>8, StopwatchFields DEF States

\* The handler of the sensed line: if it is the card that interrupts, Timer B
\* has overflowed and the count is within the lost ticks of its period.
LEMMA WatchOverflow ==
    ASSUME SensingInv, WatchInv, [Next]_vars, pc = "watch", UNCHANGED player,
           NEW l \in Lines, ClockHandler(l)
    PROVE  WatchInv'
<1>0. DetectorTyped /\ TimersTyped /\ HandlersTyped
  BY DEF SensingInv, TypeInv
<1>1. UNCHANGED <<control, clkb, noise, time>> /\ sensed' = sensed
  BY <1>0, SensedKept DEF ClockHandler, Enter
<1>2. Card' = Card /\ Longest' = Longest
  BY <1>1 DEF Card, Longest
<1>3. l = sensed /\ l \in request
  BY DEF ClockHandler, Enter, Due, SensingInv, HardwareInv, HandlerOf, Hooked
<1>4. elapsed \in Nat /\ lost \in 0 .. LostTicks /\ LostTicks \in Nat /\ Longest \in Nat
  BY <1>0, PeriodsInOrder, SaaymAssumption DEF TimersTyped
<1>5. CASE stopwatch.state = "wait"
  <2>1. stopwatch'.state = "overflowed" /\ stopwatch'.count_at_overflow = stopwatch.counter
          /\ stopwatch.counter \in Nat
    BY <1>0, <1>5, StopwatchFields DEF ClockHandler, DetectorTyped, Stopwatches
  <2>2. ~timer_b' /\ ~flag_b'
    BY <1>5 DEF ClockHandler, EnableTimerB
  <2>3. ASSUME sensed \notin noise PROVE WatchOver'
    <3>1. sensed = Card /\ WatchRuns
      BY <1>5, <2>3, SensedIsCard DEF WatchInv
    <3>2. flag_b /\ Longest <= elapsed /\ elapsed <= Longest + 1 /\ elapsed = stopwatch.counter + lost
      BY <1>3, <3>1 DEF WatchRuns
    <3>3. Longest - LostTicks <= stopwatch.counter /\ stopwatch.counter <= Longest + 1
      BY <1>4, <2>1, <3>2
    <3>4. QED
      BY <1>2, <2>1, <2>2, <3>3 DEF WatchOver
  <2>4. QED
    BY <1>1, <2>1, <2>3 DEF WatchInv
<1>6. CASE stopwatch.state # "wait"
  <2>1. UNCHANGED <<stopwatch, timer_b, flag_b>>
    BY <1>6 DEF ClockHandler
  <2>2. QED
    BY <1>1, <1>2, <1>6, <2>1 DEF WatchInv, WatchIdle, WatchOver
<1>7. QED
  BY <1>5, <1>6

\* Devices and the other handlers while it runs: the flag of Timer B and the
\* card's line rise together, and a lost tick is time that passes too.
LEMMA WatchDevices ==
    ASSUME SensingInv, WatchInv, [Next]_vars, pc = "watch", Hardware, UNCHANGED player
    PROVE  WatchInv'
<1>0. DetectorTyped /\ TimersTyped /\ HandlersTyped /\ pit = "stopwatch" /\ clkb = 0
  BY DEF SensingInv, TypeInv, HardwareInv, PitOwner, WatchInv
<1>1. UNCHANGED <<control, clkb, stopwatch, timer_b>> /\ sensed' = sensed
  BY DEF Hardware, Device, TickIsLost, TimerAOverflows, TimerBOverflows, ForeignInterrupt, sensed
<1>2. Card' = Card /\ Longest' = Longest
  BY <1>1 DEF Card, Longest
<1>3. Period = Longest /\ Longest \in Nat
  BY <1>0, WatchPeriod, PeriodsInOrder
<1>4. flag_a = FALSE /\ timer_a = FALSE
  BY <1>0 DEF SensingInv, YmInv, Detecting, Searching, Hooked, TimersTyped
<1>5. elapsed \in Nat /\ lost \in Nat /\ stopwatch.counter \in Nat
  BY <1>0, StopwatchFields, SaaymAssumption DEF TimersTyped
<1>6. CASE TickIsLost
  <2>1. stopwatch.state = "wait" /\ lost' = lost + 1 /\ TickPasses /\ UNCHANGED <<flag_b, request, noise>>
    BY <1>6 DEF TickIsLost
  <2>2. ASSUME WatchRuns PROVE WatchRuns'
    BY <1>1, <1>2, <1>3, <1>5, <2>1, <2>2 DEF WatchRuns, TickPasses
  <2>3. QED
    BY <1>0, <1>1, <2>1, <2>2 DEF WatchInv
<1>7. CASE TimerBOverflows
  <2>1. timer_b /\ ~flag_b /\ flag_b' /\ elapsed >= Longest /\ UNCHANGED <<noise, time>>
          /\ request' = request \cup ({Card} \cap Lines)
    BY <1>3, <1>4, <1>7 DEF TimerBOverflows, Raised
  <2>2. ASSUME WatchRuns, sensed \notin noise PROVE WatchRuns'
    BY <1>1, <1>2, <2>1, <2>2, SensedIsCard DEF WatchRuns
  <2>3. stopwatch.state \in {"start", "overflowed"} => sensed \in noise
    BY <2>1 DEF WatchInv, WatchIdle, WatchOver
  <2>4. stopwatch.state # "start"
    BY <2>1 DEF WatchInv, WatchIdle
  <2>5. QED
    BY <1>0, <1>1, <2>1, <2>2, <2>3, <2>4 DEF WatchInv
<1>8. CASE \E l \in Lines : ForeignInterrupt(l)
  <2>1. PICK l \in Lines : ForeignInterrupt(l)
    BY <1>8
  <2>2. UNCHANGED <<flag_b, time>> /\ request' = request \cup {l} /\ noise' = noise \cup {l}
    BY <2>1 DEF ForeignInterrupt, Sampled
  <2>3. ASSUME sensed \notin noise' PROVE Card # l
    BY <2>2, <2>3, SensedIsCard
  <2>4. QED
    BY <1>0, <1>1, <1>2, <2>2, <2>3 DEF WatchInv, WatchIdle, WatchRuns, WatchOver
<1>9. CASE TimerAOverflows
  BY <1>4, <1>9 DEF TimerAOverflows
<1>10. QED
  BY <1>6, <1>7, <1>8, <1>9 DEF Hardware

LEMMA WatchHandlers ==
    ASSUME SensingInv, WatchInv, [Next]_vars, pc = "watch",
           Handlers \/ PressKey \/ (Hardware /\ UNCHANGED player)
    PROVE  WatchInv'
<1>0. DetectorTyped /\ pit = "stopwatch" /\ \A l \in Lines : vector[l] \in {"clock", "detect"}
  BY DEF SensingInv, TypeInv, HardwareInv, PitOwner, HandlerOf, Hooked
<1>1. CASE Tick /\ UNCHANGED player
  BY <1>1, WatchTick
<1>2. CASE Hardware /\ UNCHANGED player
  BY <1>2, WatchDevices
<1>3. CASE (\E l \in Lines : ClockHandler(l)) /\ UNCHANGED player
  BY <1>3, WatchOverflow
<1>4. CASE \E l \in Lines : DetectHandler(l)
  <2>1. PICK l \in Lines : DetectHandler(l)
    BY <1>4
  <2>2. UNCHANGED <<control, stopwatch, ym, time, noise>> /\ request' = request \ {l}
    BY <2>1 DEF DetectHandler, Enter
  <2>3. l # sensed
    BY <2>1 DEF DetectHandler, Enter, SensingInv, HardwareInv, HandlerOf, Clocked
  <2>4. sensed' = sensed /\ Card' = Card /\ Longest' = Longest
    BY <2>2 DEF sensed, Card, Longest
  <2>5. sensed \notin noise => Card # l
    BY <2>3, SensedIsCard
  <2>6. QED
    BY <2>2, <2>4, <2>5 DEF WatchInv, WatchIdle, WatchRuns, WatchOver
<1>5. CASE \E l \in Lines : OldHandler(l) \/ TimerHandler(l)
  BY <1>0, <1>5 DEF OldHandler, TimerHandler, Enter
<1>6. CASE PlayerTick \/ PressKey
  BY <1>0, <1>6 DEF PlayerTick, PressKey
<1>7. QED
  BY <1>1, <1>2, <1>3, <1>4, <1>5, <1>6 DEF Handlers, Interrupts

\* Before the watch nothing has been counted; after it nothing changes the count.
LEMMA WatchElsewhere ==
    ASSUME SensingInv, WatchInv, [Next]_vars, pc # "watch",
           Handlers \/ PressKey \/ (Hardware /\ UNCHANGED player)
    PROVE  WatchInv'
<1>0. DetectorTyped
  BY DEF SensingInv, TypeInv
<1>1. UNCHANGED control /\ sensed' = sensed /\ Card' = Card /\ Longest' = Longest
  BY <1>0, OutsideMain DEF Card, Longest
<1> DEFINE After == {"uninstall", "remask", "decide", "detected"}
<1>2. CASE pc \notin Detecting \cup After
  BY <1>1, <1>2 DEF WatchInv, Detecting, Searching, Hooked
<1>3. CASE pc \in Detecting \cup After
  <2>1. pit = "bios"
    BY <1>3 DEF SensingInv, HardwareInv, PitOwner, Detecting, Searching, Hooked, Playback
  <2>2. ~Tick /\ ~PlayerTick
    BY <2>1 DEF Tick, PlayerTick
  <2>3. \A l \in Lines : vector[l] # "timer"
    BY <1>3 DEF SensingInv, HardwareInv, HandlerOf, Detecting, Searching, Hooked, Timed, Starting,
                Stopping, Playback
  <2>4. ~(\E l \in Lines : TimerHandler(l))
    BY <2>3 DEF TimerHandler
  <2>5. noise \subseteq noise'
    BY <2>2, <2>4 DEF Handlers, Interrupts, Enter, OldHandler, DetectHandler, ClockHandler, PressKey,
       Hardware, Device, TickIsLost, TimerAOverflows, TimerBOverflows, ForeignInterrupt
  <2>6. CASE pc \in After
    <3> SUFFICES ASSUME sensed # 0, sensed \notin noise'
                 PROVE  stopwatch'.state = "overflowed" /\ WatchOver'
      BY <1>1, <2>6 DEF WatchInv, Detecting, Searching, Hooked
    <3>1. stopwatch.state = "overflowed" /\ WatchOver
      BY <2>5, <2>6 DEF WatchInv
    <3>2. UNCHANGED <<stopwatch, timer_b, flag_b>>
      BY <2>2, <2>4, <3>1 DEF WatchOver, Handlers, Interrupts, Enter, OldHandler, DetectHandler,
         ClockHandler, PressKey, Hardware, Device, TickIsLost, TimerAOverflows, TimerBOverflows,
         ForeignInterrupt
    <3>3. QED
      BY <1>1, <3>1, <3>2 DEF WatchOver
  <2>7. CASE pc \notin After
    <3>1. stopwatch.state = "start"
      BY <1>3, <2>7 DEF WatchInv
    <3>2. UNCHANGED <<stopwatch, lost>>
      BY <2>2, <2>4, <3>1 DEF Handlers, Interrupts, Enter, OldHandler, DetectHandler,
         ClockHandler, PressKey, Hardware, Device, TickIsLost, TimerAOverflows, TimerBOverflows,
         ForeignInterrupt
    <3>3. QED
      BY <1>1, <2>7, <3>2 DEF WatchInv
  <2>8. QED
    BY <2>6, <2>7
<1>4. QED
  BY <1>2, <1>3

\* Main: the watch begins with Timer B stopped and ends in time, with the
\* overflow seen; the limit is beyond the slowest period.
LEMMA WatchMain ==
    ASSUME SensingInv, WatchInv, [Next]_vars, Detect, UNCHANGED player
    PROVE  WatchInv'
<1> USE DEF Goto
<1>0. DetectorTyped /\ TimersTyped
  BY DEF SensingInv, TypeInv
<1>1. Card' = Card /\ Longest' = Longest
  BY WorldStays DEF Card, Longest
<1>2. CASE StartWatch
  <2>1. stopwatch.state = "start" /\ stopwatch.counter = 0 /\ stopwatch.ticks = 0 /\ lost = 0
          /\ ~timer_b /\ ~flag_b
    BY <1>2 DEF StartWatch, WatchInv, Detecting, Hooked, SensingInv, YmInv
  <2>2. UNCHANGED <<stopwatch, timer_b, flag_b, lost>> /\ pc' = "watch" /\ clkb' = 0
    BY <1>2 DEF StartWatch
  <2>3. QED
    BY <2>1, <2>2 DEF WatchInv, WatchIdle
<1>3. CASE StopWatch
  <2>1. UNCHANGED <<stopwatch, timer_b, flag_b, noise>> /\ pc = "watch" /\ pc' = "uninstall"
          /\ (stopwatch.ticks >= Limit \/ stopwatch.state = "overflowed") /\ sensed' = sensed
    BY <1>3 DEF StopWatch, sensed
  <2>2. stopwatch.ticks \in Nat /\ stopwatch.counter \in Nat /\ stopwatch.state \in States
    BY <1>0, StopwatchFields
  <2>3. elapsed \in Nat /\ lost \in Nat
    BY <1>0, SaaymAssumption DEF TimersTyped
  <2>4. ASSUME sensed \notin noise PROVE stopwatch.state = "overflowed"
    <3>1. CASE stopwatch.state = "start"
      BY <2>1, <3>1, PeriodsInOrder DEF WatchInv, WatchIdle
    <3>2. CASE stopwatch.state = "wait"
      <4>1. WatchRuns
        BY <2>1, <2>4, <3>2 DEF WatchInv
      <4>2. stopwatch.ticks <= Longest + 2
        BY <2>2, <2>3, <4>1, PeriodsInOrder DEF WatchRuns
      <4>3. QED
        BY <2>1, <2>2, <4>2, PeriodsInOrder
    <3>3. QED
      BY <2>2, <3>1, <3>2 DEF States
  <2>5. QED
    BY <1>1, <2>1, <2>4 DEF WatchInv, WatchOver
<1>4. CASE Uninstall \/ Remask \/ Decide
  <2>1. UNCHANGED <<stopwatch, timer_b, flag_b, noise>> /\ pc \in {"uninstall", "remask", "decide"}
          /\ pc' \in {"remask", "decide", "detected"} /\ sensed' = sensed
    BY <1>4 DEF Uninstall, Remask, SetMask, Decide, sensed
  <2>2. pc' # "watch" /\ ~(pc' \in Detecting \ {"watch", "uninstall", "remask", "decide"})
    BY <2>1 DEF Detecting, Searching, Hooked
  <2>3. QED
    BY <1>1, <2>1, <2>2 DEF WatchInv, WatchOver
<1>5. CASE Sense
  <2>1. CASE index \in triggered \ spurious
    <3>1. pc = "sense" /\ pc' = "take" /\ lost' = lost /\ stopwatch'.state = stopwatch.state
            /\ stopwatch'.counter = stopwatch.counter /\ stopwatch'.ticks = stopwatch.ticks
      BY <1>0, <1>5, <2>1 DEF Sense, DetectorTyped, Stopwatches
    <3>2. QED
      BY <3>1 DEF WatchInv, Detecting, Hooked
  <2>2. CASE index \notin triggered \ spurious
    <3>1. pc = "sense" /\ pc' \in {"sense", "uninstall"} /\ UNCHANGED <<stopwatch, lost>>
            /\ sensed' = 0
      BY <1>5, <2>2 DEF Sense, Loop, sensed, SensingInv, HardwareInv, NothingSensed
    <3>2. QED
      BY <3>1 DEF WatchInv, Detecting, Hooked
  <2>3. QED
    BY <2>1, <2>2
<1>6. CASE ~StartWatch /\ ~StopWatch /\ ~Uninstall /\ ~Remask /\ ~Decide /\ ~Sense
  <2>1. UNCHANGED <<stopwatch, lost>>
          /\ pc \in Detecting \ {"watch", "uninstall", "remask", "decide"}
          /\ pc' \in (Detecting \cup {"detected"}) \ {"watch", "uninstall", "remask", "decide"}
    BY <1>6 DEF Detecting, Searching, Hooked, Detect, NextBase, Loop, SetMask, ReadParameter,
       ReadEnvironment, Probe, Initialize, Identify, Identified, Accept, Install, Unmask, Sample,
       ClearTriggered, Trigger, Await, TakeVector
  <2>2. pc' = "detected" => pc \in Searching
    BY <1>6 DEF Searching, Detect, NextBase, Loop, SetMask, ReadParameter,
       ReadEnvironment, Probe, Initialize, Identify, Identified, Accept, Install, Unmask, Sample,
       ClearTriggered, Trigger, Await, TakeVector
  <2>3. pc' = "detected" => sensed' = 0
    BY <2>1, <2>2 DEF sensed, SensingInv, HardwareInv, NothingSensed
  <2>4. QED
    BY <2>1, <2>3 DEF WatchInv
<1>7. QED
  BY <1>2, <1>3, <1>4, <1>5, <1>6

LEMMA WatchStep ==
    ASSUME SensingInv, WatchInv, [Next]_vars
    PROVE  WatchInv'
<1>1. CASE Play
  <2>1. pc' \notin Detecting \cup {"detected"}
    BY <1>1 DEF Goto, Step, Detecting, Searching, Hooked, Play, CardFound, Load, InitializeZsm,
       InitializeChips, StartTimer, UnmaskTimer, SetRate, StartTimerB, StartStream, PollKey,
       LeaveLoop, MaskTimer, RestoreVector, Terminate, Free
  <2>2. QED
    BY <2>1 DEF WatchInv, Detecting, Searching, Hooked
<1>2. CASE UNCHANGED vars
  BY <1>2 DEF vars, WatchInv, WatchIdle, WatchRuns, WatchOver, Longest, sensed, Card
<1>3. QED
  BY <1>1, <1>2, WatchMain, WatchHandlers, WatchElsewhere DEF Next, Main

-----------------------------------------------------------------------------
(***************************************************************************)
(* What the settings make of it.                                           *)
(***************************************************************************)

\* The count is on the card's side of the threshold.
LEMMA MeasuredRight ==
    ASSUME WatchOver, DetectorTyped
    PROVE  MeasuredClock = IF machine.fast THEN 1 ELSE 0
<1>1. stopwatch.count_at_overflow \in Nat
  BY StopwatchFields
<1>2. CASE machine.fast
  BY <1>1, <1>2, PeriodsInOrder DEF WatchOver, MeasuredClock
<1>3. CASE ~machine.fast
  BY <1>1, <1>3, PeriodsInOrder DEF WatchOver, MeasuredClock
<1>4. QED
  BY <1>2, <1>3

\* saaym_detect takes the line and the clock; without a line it takes neither.
LEMMA SettingsDecided ==
    ASSUME SensingInv, WatchInv, Detect, UNCHANGED player
    PROVE  SettingsInv'
<1> USE DEF Goto, Detecting, Searching, Hooked
<1>0. DetectorTyped /\ ControlTyped
  BY DEF SensingInv, TypeInv
<1>1. CASE Decide
  <2>1. pc = "decide" /\ pc' = "detected" /\ UNCHANGED <<world, stopwatch, noise>>
          /\ sensed' = sensed
    BY <1>1 DEF Decide, sensed
  <2>2. CASE sensed # 0
    <3>1. config'.irq_number = sensed /\ config'.ym2151_clock = MeasuredClock
      BY <1>0, <1>1, <2>2 DEF Decide, ControlTyped, Configs, sensed
    <3>2. sensed \notin noise => MeasuredClock = IF machine.fast THEN 1 ELSE 0
      BY <1>0, <2>1, <2>2, MeasuredRight DEF WatchInv
    <3>3. QED
      BY <2>1, <3>1, <3>2 DEF SettingsInv, Playback
  <2>3. CASE sensed = 0
    BY <2>1, <2>3 DEF SettingsInv, Playback
  <2>4. QED
    BY <2>2, <2>3
<1>2. CASE ~Decide
  <2>1. pc' \in Detecting \/ (pc \in Searching /\ pc' = "detected" /\ ~Sense /\ UNCHANGED stopwatch)
    BY <1>2 DEF Detect, NextBase, Loop, SetMask, ReadParameter, ReadEnvironment, Probe,
       Initialize, Identify, Identified, Accept, Install, Unmask, Sample, ClearTriggered, Trigger,
       Await, Sense, TakeVector, StartWatch, StopWatch, Uninstall, Remask
  <2>2. pc' = "detected" => sensed' = 0
    BY <2>1 DEF sensed, SensingInv, HardwareInv, NothingSensed
  <2>3. QED
    BY <2>1, <2>2 DEF SettingsInv, Playback
<1>3. QED
  BY <1>1, <1>2

\* While the file is played the settings stay; the rate is set before Timer B is
\* started, and not after it.
LEMMA SettingsPlayed ==
    ASSUME SensingInv, SettingsInv, Play
    PROVE  SettingsInv'
<1> USE DEF Goto, Step
<1>1. UNCHANGED <<world, config, stopwatch, noise>> /\ pc \notin Detecting /\ sensed' = sensed
  BY DEF sensed, Detecting, Searching, Hooked, Play, CardFound, Load, InitializeZsm,
       InitializeChips, StartTimer, UnmaskTimer, SetRate, StartTimerB, StartStream, PollKey,
       LeaveLoop, MaskTimer, RestoreVector, Terminate, Free
<1>2. UsesTimerB' = UsesTimerB /\ OnCard' = OnCard
  BY <1>1 DEF UsesTimerB, Irq, OnCard
<1>3. ASSUME pc' \in {"timer_enable"} \cup Playback, UsesTimerB, OnCard
      PROVE  clkb' = RateValue(tick_rate)'
  <2>1. CASE SetRate
    BY <1>1, <1>3, <2>1 DEF SetRate, RateValue, Ratio
  <2>2. CASE StartTimerB \/ StartStream \/ PollKey
    <3>1. UNCHANGED <<clkb, tick_rate>> /\ pc \in {"timer_enable"} \cup Playback
      BY <2>2 DEF StartTimerB, StartStream, PollKey, HardwareStays, Playback
    <3>2. QED
      BY <1>1, <1>3, <3>1 DEF SettingsInv, RateValue, Ratio
  <2>3. CASE ~SetRate /\ ~StartTimerB /\ ~StartStream /\ ~PollKey
    BY <1>3, <2>3 DEF Playback, Play, CardFound, Load, InitializeZsm, InitializeChips, StartTimer,
       UnmaskTimer, LeaveLoop, MaskTimer, RestoreVector, Terminate, Free
  <2>4. QED
    BY <2>1, <2>2, <2>3
<1>4. QED
  BY <1>1, <1>2, <1>3 DEF SettingsInv

LEMMA SettingsStep ==
    ASSUME SensingInv, WatchInv, SettingsInv, [Next]_vars
    PROVE  SettingsInv'
<1>0. DetectorTyped
  BY DEF SensingInv, TypeInv
<1>1. ASSUME UNCHANGED <<control, sensed, clkb, tick_rate>>, noise \subseteq noise'
      PROVE  SettingsInv'
  BY <1>1 DEF SettingsInv, UsesTimerB, Irq, OnCard, RateValue, Ratio
<1>2. CASE Handlers \/ PressKey \/ (Hardware /\ UNCHANGED player)
  <2>1. noise \subseteq noise' /\ tick_rate' = tick_rate
    BY <1>2 DEF Handlers, Interrupts, Enter, OldHandler, DetectHandler, ClockHandler, Tick,
       PlayerTick, TimerHandler, PressKey, Hardware, Device, TickIsLost, TimerAOverflows,
       TimerBOverflows, ForeignInterrupt
  <2>2. QED
    BY <1>0, <1>1, <1>2, <2>1, OutsideMain
<1>3. CASE UNCHANGED vars
  BY <1>1, <1>3 DEF vars, sensed
<1>4. QED
  BY <1>2, <1>3, SettingsDecided, SettingsPlayed DEF Next, Main

-----------------------------------------------------------------------------
(***************************************************************************)
(* The theorems.                                                           *)
(***************************************************************************)
LEMMA ClockInitially == PlayerInit => SensingInv /\ WatchInv /\ SettingsInv
<1> SUFFICES ASSUME PlayerInit PROVE SensingInv /\ WatchInv /\ SettingsInv
  OBVIOUS
<1>1. WatchInv
  BY DEF PlayerInit, Init, WatchInv
<1>2. SettingsInv
  BY DEF PlayerInit, Init, SettingsInv, Detecting, Searching, Playback
<1>3. QED
  BY <1>1, <1>2, SensingInitially

LEMMA ClockAlways == Spec => [](SensingInv /\ WatchInv /\ SettingsInv)
<1>1. SensingInv /\ WatchInv /\ SettingsInv /\ [Next]_vars => WatchInv' /\ SettingsInv'
  BY WatchStep, SettingsStep
<1>2. QED
  BY <1>1, ClockInitially, SensingAlways, PTL DEF Spec

\* Every part of the invariant holds of every state.
THEOREM PlayerAlways == Spec => []PlayerInv
<1>1. SensingInv /\ WatchInv /\ SettingsInv => PlayerInv
  BY DEF SensingInv, PlayerInv
<1>2. QED
  BY <1>1, ClockAlways, PTL

\* If no other device interrupts on the line that was sensed, the clock that is
\* found is the card's: with any periods whose counts the threshold divides, the
\* lost ticks and the one before the handler taken into account
\* (saaym_stopwatch_handler, saaym_ym2151_timer_handler, saaym_detect_irq).
THEOREM ClockMeasured == Spec => []ClockFound
<1>1. SettingsInv => ClockFound
  BY DEF SettingsInv, ClockFound, sensed, Detecting, Searching, Hooked
<1>2. QED
  BY <1>1, ClockAlways, PTL

\* Detection hands on the vectors, the mask and the PIT that it found, and a
\* Timer B that is stopped, without an overflow, if the card was sensed
\* (irq_uninstall_detect_handlers, timer_stop, saaym_ym2151_timer_handler).
THEOREM DetectionGivesBack == Spec => []GivesBack
<1>1. SensingInv /\ WatchInv => GivesBack
  <2> SUFFICES ASSUME SensingInv, WatchInv, pc = "detected"
               PROVE  /\ \A l \in Lines : vector[l] = "old"
                      /\ masked = Found /\ pit = "bios"
                      /\ sensed # 0 /\ noise = {} => ~timer_b /\ ~flag_b
    BY DEF GivesBack, sensed
  <2>1. HardwareInv
    BY DEF SensingInv
  <2>2. \A l \in Lines : vector[l] = "old"
    BY <2>1 DEF HardwareInv, HandlerOf, Clocked, Hooked, Timed, Starting, Playback, Stopping
  <2>3. masked = Found
    BY <2>1 DEF HardwareInv, MaskThere, Unmasked, Hooked, Timed, Starting, Playback, Stopping, Ending
  <2>4. pit = "bios"
    BY <2>1 DEF HardwareInv, PitOwner, Playback
  <2>5. sensed # 0 /\ noise = {} => ~timer_b /\ ~flag_b
    BY DEF WatchInv, WatchOver
  <2>6. QED
    BY <2>2, <2>3, <2>4, <2>5
<1>2. QED
  BY <1>1, ClockAlways, PTL

\* Of a quotient that Timer B can have, the cuts to eight bits leave all.
LEMMA RateUncut ==
    ASSUME NEW quotient \in 1 .. 255
    PROVE  (256 - (quotient % 256)) % 256 = 256 - quotient
OBVIOUS

LEMMA QuotientBounds ==
    ASSUME NEW played \in Nat, NEW rate \in Nat \ {0}
    PROVE  rate * (played \div rate) <= played /\ played < rate * ((played \div rate) + 1)
<1>1. played = rate * (played \div rate) + (played % rate)
  OBVIOUS
<1>2. played % rate \in 0 .. rate - 1 /\ played \div rate \in Int
  OBVIOUS
<1>3. rate * ((played \div rate) + 1) = rate * (played \div rate) + rate
  BY <1>2
<1>4. rate * (played \div rate) \in Int
  BY <1>2
<1>5. QED
  BY <1>1, <1>2, <1>3, <1>4

\* With any rate that Timer B can have, updates come as often as the file asks,
\* to within one step of it, if the line that was sensed stayed quiet: the clock
\* that was found, the rate and the card belong together (ym2151_set_timer_b_hz,
\* saaym_detect, timer_start).
THEOREM TempoFollows == Spec => []TempoKept
<1>1. SensingInv /\ SettingsInv => TempoKept
  <2> DEFINE played == Ratio(machine.fast)
             quotient == played \div tick_rate
  <2> SUFFICES ASSUME SensingInv, SettingsInv, pc \in Playback, sensed # 0, sensed \notin noise,
                      quotient \in 1 .. 255
               PROVE  tick_rate * (256 - clkb) <= played /\ played < tick_rate * (257 - clkb)
    BY DEF TempoKept, sensed, Playback
  <2>1. TypeInv /\ CardInv
    BY DEF SensingInv
  <2>2. pc \notin Detecting /\ pc \in Timed
    BY DEF Detecting, Searching, Hooked, Playback, Timed
  <2>3. Irq = sensed /\ sensed \in Lines
    BY <2>1, <2>2 DEF SettingsInv, Irq, TypeInv, DetectorTyped, Stopwatches, Senses, sensed
  <2>4. UsesTimerB /\ OnCard
    BY <2>1, <2>3 DEF UsesTimerB, OnCard, CardInv
  <2>5. machine.fast \in BOOLEAN
    BY <2>1, SaaymAssumption DEF TypeInv, ControlTyped, MachineType
  <2>6. (config.ym2151_clock = 1) <=> machine.fast
    BY <2>2 DEF SettingsInv
  <2>7. Ratio(config.ym2151_clock = 1) = played
    BY <2>5, <2>6 DEF Ratio
  <2>8. clkb = (256 - (quotient % 256)) % 256
    BY <2>4, <2>7 DEF SettingsInv, RateValue
  <2>9. tick_rate \in Nat \ {0}
    <3>1. tick_rate \in Rates
      BY <2>1, <2>2, PlayerAssumption DEF TypeInv, FileTyped
    <3>2. QED
      BY <3>1, SMTT(30) DEF Rates
  <2>10. played \in Nat
    BY DEF Ratio
  <2> HIDE DEF played
  <2>11. tick_rate * quotient <= played /\ played < tick_rate * (quotient + 1)
    BY <2>9, <2>10, QuotientBounds
  <2>12. clkb = 256 - quotient
    BY <2>8, RateUncut
  <2> HIDE DEF quotient
  <2>13. 256 - clkb = quotient /\ 257 - clkb = quotient + 1
    BY <2>12
  <2>14. QED
    BY <2>11, <2>13
<1>2. QED
  BY <1>1, ClockAlways, PTL

=============================================================================
