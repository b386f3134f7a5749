# A TLA+ model of PCZSM

PCZSM plays ZSM music files on a DOS machine with a TexElec SAAYM card (a
YM2151 and two SAA1099). It is about 2500 lines of C in `src/source`. This
directory models its control in TLA+, checks the models with TLC on small
instances and proves their safety properties with TLAPS for all values of
their constants, but for those of the SAA1099's frequency table.

## 1. Inventory

| Component | Source | State | Operations |
|---|---|---|---|
| Player | `main.c` | repeat argument, found hardware | `main`, `zsm_main`, `play_zsm` |
| RAM banks | `ram.c` | banks and their table, the handle's position; the caller's `ram_bank_t` | load, free, seek, read, get bank or address |
| ZSM decoder | `zsm.c` | `g_play_stream`, `g_delay_ticks`, repeat flag and count, pointer, the two write functions | initialize, start, stop, is playing, update |
| Timer | `timer.c` | callback, old handler, tick accounting, stop handshake | start, stop, three interrupt handlers |
| YM2151 | `ym2151.c` | ports, clock; in the chip: registers, both timers and their flags | initialize, terminate, write, Timer B operations, status |
| SAA1099 | `saa1099.c` | frequency table, register cache, frequency word and waveform of each channel | initialize, terminate, PSG write |
| IRQ | `irq.c` | detection handlers, old mask | install, uninstall, sense, set and clear mask |
| SAAYM | `saaym.c` | what was found; stopwatch and counters of the detection | detect by environment, ports and IRQ |
| Keyboard | `keyboard.c` | the key buffer of the BIOS | take a key: is it ESC |

**How they interact.** `main` calls everything in sequence: `saaym_detect` finds the
card, the rest plays the file on it. While it plays the one other actor is the
timer interrupt: IRQ0 from the PIT or IRQ 2, 3, 5, 7 from Timer B of the
YM2151. Its handler in `timer.c` calls `zsm_update`, which reads the banks and
writes the chips, and then acknowledges the interrupt and restarts Timer B. The
handler runs with interrupts disabled. Main and the handler share the statics of
`zsm.c` and `timer.c` and the address and data ports of the YM2151, without locks
but for some `_disable()`/`_enable()` sections. While the card is detected there are
more: a handler on each of the lines 2, 3, 5 and 7, the stopwatch on IRQ0 and, on
the line that was sensed, a handler for Timer B; they share the states of `irq.c` and
the stopwatch of `saaym.c` with main. Other devices may interrupt on all of these
lines, and the hardware runs all the while.

**What is hard to test.** The order of main's stores and ports against interrupts
(`zsm_start`, `timer_start`, `timer_stop`); the handshake that stops Timer B; edges
of the interrupt line lost between end of interrupt and restart; the BIOS clock
kept through fractions of ticks; commands that lie across banks; the last byte of
the file; counts in 8 bits; allocations that fail half-way; chip registers that
channels share and that cannot be read; a card told from other devices by when they
interrupt, and its clock by counting ticks that may be lost; masks, vectors, timers
and flags as an earlier program left them. `PROJECT.json` lists each at its line.

**What makes each part correct.**

* RAM: the banks are one linear sequence of bytes; a load either has all of its
  memory or fails, and gives it back.
* Decoder: every write on its tick, in order, once; an update returns; a stream
  ends when it is complete and goes on for ever when told to.
* Timer: updates keep coming; the BIOS clock is kept as well as the counts of PIT
  and counter allow; interrupts end; writes to the
  YM2151 are whole; stopping comes to an end and leaves nothing behind.
* SAA1099: PSG channels are independent voices, in tune, silent before and after.
* Detection: finds the card's port, IRQ and clock, and puts back what it changed.
* Player: the tempo of the file on the card that was found; every way out leaves the
  chips silent and the machine as it was.

## 2. Modules

| Module | Models | Correspondence |
|---|---|---|
| `LinearReader` | abstract: what `ram.c` promises | a cursor in a file |
| `RamBank` | `ram.c` after a load, `RAM_UPDATE_POS` | a pointer is `[bank, at]`; operators `Split`, `GetBank`, `UpdatePos`, `SeekSet`, `SeekCurrent` are the functions; the actions are a caller that reads, skips and jumps |
| `RamBankProofs` | | proofs about `RamBank` |
| `RamLoad` | `ram_load_file` to `ram_free` | one action per allocation, the heap as a set of blocks |
| `RamLoadProofs` | | proofs about `RamLoad` |
| `ZsmTune` | what is in a ZSM file, as `zsm_update` decodes it | a tune is a sequence of tokens; `Bytes` are those of a token in the file; `DueTick` is the tick of a token in a round, `Performance` every write with its tick |
| `ZsmTuneProofs` | | what the recursive functions of `ZsmTune` compute |
| `ZsmScore` | abstract: what playing a tune promises | a clock and the writes that are out |
| `Zsm` | `zsm.c` | `RamBank`'s operators for the pointer; one action per store of `zsm_start`, per command of `zsm_update` and per FM pair |
| `ZsmProofs` | | proofs about `Zsm`, on the lemmas of `RamBankProofs` and `ZsmTuneProofs`: alignment, the place in the music and the refinement of `ZsmScore`, the end of an update |
| `Timer` | `timer.c` and what `play_zsm` does around it, with PIC, PIT and Timer B | `pc` is main's next statement, `handler` the handler's; a YM2151 write is two steps |
| `TimerProofs` | | proofs about `Timer` |
| `Saaym` | `saaym.c`, the detection of `irq.c`, Timer A and the busy wait of `ym2151.c` | `pc` is main's next statement; each handler is one step; the lines are sets, the SAAYM variable is read setting by setting; a loop over `g_detect_handler_states` goes line by line; what the program runs on is a constant of the behaviour, `machine` |
| `Player` | `zsm_main` and `play_zsm` of `main.c`, `keyboard.c`, the rate of Timer B | extends `Saaym`: after `saaym_detect` returns, main loads, initializes, starts the timer, plays, stops and frees; the calls other modules detail are one step, those on shared hardware one step for each thing they touch |
| `PlayerInvariants` | | the parts of the inductive invariant of `Player`, named for what they are about |
| `PlayerProofs` | | types; vectors, mask and PIT, and that a program that ends leaves them as found |
| `PlayerDetectProofs` | | the lines: what `irq_sense` can take for the card's; the stopwatch, the clock and the tempo that follows from it |
| `SaaTable` | the frequency table of `saa1099.c` | one entry a step, `nlz5_16` bit by bit |
| `PsgVoices` | abstract: independent voices | |
| `Saa1099` | `saa1099.c` without the table's values | registers of both chips, the cache, the port |
| `Saa1099Proofs` | | proofs about `Saa1099` |
| `MC...` | small instances for TLC | |

`Zsm` composes with `RamBank` (its pointer is a `RamBank` pointer and its files
are laid out in banks) and implements `ZsmScore`; `Saa1099` implements
`PsgVoices`; `RamBank` implements `LinearReader`. `Player` composes `Saaym` with the
outlines of `RamLoad`, `Zsm` and `Timer`: its `Update` is `zsm_update` with nothing
left but that it may make a sound or end the stream, its timer handlers are `Timer`'s
in one step. What detection decides, the settings, the mask, the vectors and the state of
the chip, is what playing then runs on. Modules that TLC alone uses may
hold operators on bits (`SaaTable`); those with theorems do not.

Definitions called a *mutant* in their comments are plausible bugs in the
definition that follows. No specification uses them: they stand in for the
definition to show that a property notices.

Variables marked *history* exist for the properties only.

## 3. Runs

| Run | Configuration | Shows |
|---|---|---|
| `ram_bank` | 16 banks of 5 bytes, skips up to 12, four offsets to jump to | refines `LinearReader` across two banks and more |
| `ram_load` | banks of 2, limit 3, bytes of 8 values, files of 0 to 20 bytes: more banks than the limit from 7 bytes on, more than a byte counts from 15 | all failures of all allocations: what counts as loaded is there, nothing is freed twice, and nothing is lost but the tables of a load that failed |
| `ram_load_limit` | files up to 20 bytes | finding below |
| `zsm_play` | a looping tune, one without a loop, a refused version; repeats 0, 1, 2 and for ever, the count restored every second round; all hardware; banks of 3 bytes; 20 ticks | refinement of `ZsmScore`, complete endings, no end when told so, liveness |
| `zsm_start_race`, `zsm_last_byte` | one tune each | findings below |
| `timer` | IRQ 0, 2, 5, the unknown 4, and 7 with another device on it; tick rates 18, 19 and 64 with the program's own counts; counters of 11 bits; the line masked or not, Timer B and its flag as left behind | safety and liveness of start, play and stop, the latter on lines that are not shared; the BIOS clock over its first 32 ticks, with the drift of the cut counts |
| `saa_table_7`, `saa_table_8` | the true numbers of both clocks | all 18694 entries; a finding |
| `saa_voices` | 3 channels on 2 chips, bytes of two values, 2 pitches in 2 octaves | refinement of `PsgVoices` |
| `saa_no_clock` | one channel | finding below |
| `player` | two lines, 20 machines, five SAAYM variables, tick rates 16 and 3495, at most two keys | detection finds the card's line and clock and gives everything back; the tempo; ESC; every way out; detection ends |

**Bounds and why they are enough.**
The banks of `RamBank` matter by their boundary only; 5 and 3 bytes put one in every
position of a command, and RAM_BANK_MAX_BANKS is the true 16 in `ram_bank`.
The tunes have every kind of command, an operand that looks like each special
command, and PCM data behind the end; `MaxTicks` is beyond the end of every finite
playback, so that `PlaybackEnds` is not held up by it. `ForeverCount` is 2,
so that the restoring happens within the bound; what matters is the step from 1,
whatever the number. `WaitSpins` is 2 for 255: a loop without
effect. In `timer` the rate 18 is the fastest that leaves the PIT alone and 19 the slowest
that does not, where the counts are longest and the total is barely above one tick; at 64
the total, 900, has a divisor in common with 256, so that the counter comes round within 64
ticks, at 60 it would take 256. The history of the BIOS clock is kept for `MaxGiven` ticks
only: an error that is the same at each tick shows within 32, and the theorem is for any number.
`Word` is beyond the largest count, as 2^32 is.
In `player` the lines 2 and 5 stand for four: one line is before the card's in the
order of `g_detect_handler_states` or behind it. 0x200 and 0x270 are the true first
and last base. Timer B takes 1 tick at 4 MHz and 4 at 3.58 MHz, for 65 and 73, the
threshold between them is 3, for 68, the stopwatch gives up at 7 ticks, for 1000: what
matters is their order and that one tick may be lost and one may come late, which
`SaaymAssumption` states for any numbers (65 + 1 < 68 <= 73 - `LostTicks`: up to five lost
ticks with the true ones). The rates 16 and 3495 are the lowest and highest that both
clocks can be divided to. The machines are cards with every jumper, clock and initial
Timer B, on lines found masked or not, with a noisy device on the card's line, on the
other one, or with no line of its own; a Game Blaster before the card, and alone, with
ports that read busy or idle. The variables are none, a complete one that
names a card and one that names a base where there is none, one with an unknown IRQ and
clocks out of range, and one without a base.
`saa_voices` has two channels in an octave register and a third on another chip;
`Waveforms` leaves out one of the three tone waveforms, which differ in nothing.

Deadlock is not checked where the program really stops (all but the reader).

**Fairness.** Main gets the processor between two handlers (`SF(Main)`: it is
interrupted again and again, and each time continues), a handler that was entered
runs on or, where it is one step, is entered in the end, and a timer that runs
overflows again (weak fairness). No fairness for keys, for another device, for a tick
that is lost, or for a caller of `RamBank`. `DetectionEnds` holds however noisy the
lines are, because main is only held up by interrupts that are due and the handlers of
those take them; after that a device that never stops may keep `timer_stop`
waiting, so `EscapeStops` and `ReturnsToDos` are about quiet lines. In `Zsm` a tick is fair
because `Timer` shows that updates keep coming (`KeepsTicking`).

**Assumptions about time** (`Tight` and `InTime` in `Timer`): a handler, and main's
few statements between installing the IRQ0 handler and programming the PIT, take
less than a timer period, so no two overflows come within one of these. Without it
ticks are lost whatever the code does. `TooEarly`: a stale interrupt may run the handler
before `timer_start` has set up Timer B, and starts it then with the longest period, which
does not elapse in the statements left. In the same way at most one update comes
between the stores of `zsm_start`.

**Further assumptions.** The old handlers acknowledge their interrupt, return with
interrupts disabled and leave the YM2151 alone; the delays of 100 ms are
longer than the shortest period of Timer B, and the 200 reads of `saaym_detect_ym2151` than
that of Timer A, so that main finds the overflow it waited for; a value in the SAAYM
variable has no letter in it (an A among the digits of an address would be read as a
setting; the addresses of the card have none); a tick rate is not 0; a tune does not write
the Timer B registers; the compiler keeps the order of the stores of `zsm_start`; a file is a header and the
encoding of a tune, with data behind it, and fits into its banks (`FilesAssumption`); a loop
contains a delay (`TunesWait`).

## 4. Findings

| Run | Code | What |
|---|---|---|
| `zsm_last_byte` | `zsm.c:40` | after the last byte of the file `RAM_UPDATE_POS` takes a bank that was never allocated |
| `zsm_start_race` | `zsm.c:221` | an interrupt between the stores of `zsm_start` can end a tune before its repeat count is stored |
| `saa_table_8` | `saa1099.c:196` | at 8 MHz the lowest word underflows its octave and sounds eight octaves too high; `README.md:28` lists the conversion for 8 MHz as missing, the code makes the table all the same |
| `saa_no_clock` | `saa1099.c:336` | termination without initialization writes to port 0x210 |
| `ram_load_limit` | `ram.c:77` | a file of 256 banks or more passes the check against 16 |

Each run quotes in its property what the code or its documentation says.

## 5. Proofs

**`RamBankProofs`** assumes `RamAssumption` (positive bank size, 1 to 16 banks, one in
the 32-bit build) and `JumpAssumption` (seeks go to offsets of the file). Lemmas state
what `Split`, `UpdatePos` and `SeekCurrent` do to a position of the file, and that a
pointer inside the file is in a bank that exists. With these `TypeOK` is inductive
(`RamTyped`), and `RamReadsLinearly` follows by step simulation. TLC checks the 16-bit build only; for the 32-bit build the theorems stand alone.

**`RamLoadProofs`** assumes `LoadAssumption`: any sizes of files and banks, either
build, and a limit that a byte can count. The properties say nothing of the statements
in between, where an allocation fails, so the inductive invariant `LoadInv` adds
`CountInv`: the banks that were counted hold the file; `HeapInv`: a pointer that is not
NULL, a table that is being filled and every bank counted in `number_of_banks` are
allocated; `OwnedInv`, the other direction: nothing else is, but the two tables, which
`ram_data_free_banks` does not free when no bank was counted; `ResultInv`: the result is
the one of the allocations. It is `HeapInv` that
shows that undoing a failed load frees blocks that are there. `LoadTyped`,
`LoadedIsThere`, `NothingFreedWild` and `LittleIsLost` follow. `PlaysWhatWasLoaded` says that the banks
hold the file for files whose banks a byte can count (`Countable`): `ram_load_limit`
shows what happens beyond.

**`ZsmTuneProofs`** has no assumption. The functions of `ZsmTune` recur over the tokens
of a tune and over its rounds: the bytes of the first i tokens, the ticks they take, the
writes up to a place. Induction is done without the library's induction theorems, whose
operator parameters the provers cannot instantiate: a set of numbers that holds 0 and with n
also n + 1 is all of `Nat` (`SetInduction`), since the numbers outside of it would have a
least one. From that follows once that a function which recurs over an interval exists and
satisfies its equation (`Recursion`), and so that each function of `ZsmTune` does. The rest
builds on those equations. All of these are lemmas about the abstract tune, for
`ZsmProofs` to use, and say nothing of the code by themselves. `EncodingHasToken`: a token stands whole in the file behind the
bytes of those before it. `PlayedOneMore`, `PlayedRoundOver`, `PlayedAll`: what the next
token, the next round and the end add to the writes so far. `PlayedIsPrefix`: what follows
a place in the performance is not due before it. `LoopTakesTime`: a round of a tune that
waits takes a tick.

**`ZsmProofs`** assumes `ZsmAssumption` (1 to 16 banks of any size, one in the 32-bit
build, a header that fits into the first) and `FilesAssumption`: the files are those of
tunes and fit into the banks. That the commands of such a file lead from one to the next, by
the length that the byte of each tells, and end with the end-of-file command, is proved.

The invariant `ZsmInv` is `TypeOK`; `PointerInv`: not only inside of an update but before
the stream starts and between updates the pointer is at a command, an update only runs on
while the stream plays and no delay is due; `RepeatInv`: the count of a tune that repeats
forever is never zero, so that the test that ends a stream never succeeds. What
`RAM_UPDATE_POS` and `ram_seek_bank` do to a pointer are the lemmas of `RamBankProofs`,
instantiated. `ZsmTyped`, `ZsmAligned` and the action property `ZsmLoopsForever` follow, the
last whatever the value is that the count is restored to. `ZsmNextBank` says where the
finding of `zsm_last_byte` ends: with one more byte in the banks behind the end-of-file
command the pointer never leaves them.

The invariant behind the music is `PlaceInv`. There is a place in the performance, a round and
a number of tokens of it that are behind, to which everything belongs that `zsm.c` keeps:
the writes so far are those up to the place, the pointer is at the next command, its tick
is the present one and the delay that is left (`BetweenTokens`; `AmidPairs` says the same of
the middle of an FM command), the rounds that are behind and the repeat count
make up the number that was asked for (`RoundsCounted`), and a stream that has ended by
itself is at the last place (`Ended`). TLC checked it on the instance of `zsm_play` before
it was proved. Neither of the properties below is inductive: that the writes are complete
at the end needs to know at which round and token the stream is when the count reaches
zero, and that none is late needs the sum of all delays so far.

`ZsmPlaceAlways`, `ZsmEndsComplete` and `ZsmPlaysScore` are about tunes that wait in their
loops (`\A t \in Tunes : Waits(t)`). This is not for the proof's sake: a loop without a delay
can come to its end on the first tick, between the stores of `zsm_start`, while the count is
still zero. `zsm_start_race` shows `EndsComplete` violated by just such a tune. With a delay in
the loop the first end of file comes on the second tick at the earliest. `ZsmPlaysScore` is a
step simulation: `zsm_initialize` is `Settle`, the entry of an update is `Advance`, which
is allowed because by `PlayedIsPrefix` nothing that is still to come is due yet; a PSG write
and each FM pair is `Emit`, or a stutter when the chip is not there; all else stutters. For a tune
that repeats forever the score has `MaxTicks` rounds, as many as there can be: a round takes
a tick.

`ZsmUpdateEnds` is the safety half of `UpdateReturns`, that an interrupt handler which plays
a tune comes back. What is left to decode, `Left`, is the bytes from the pointer to the end
of the banks, and as many as the banks have once more if no delay is ahead of the pointer.
Every step of an update leaves less of it, or ends the update; taking the loop, the only
step that moves the pointer back, is paid for with the banks, since at the end of the file
no delay is ahead and behind the loop there is one. It is for the same tunes: for a loop without a delay it is
false.

**`TimerProofs`** assumes `TimerAssumption` and `RatesAssumption`: any tick rates of 16
bits whose total, with one IRQ0 more, fits in the counters, as it does in 32 bits.
`TimerInv` is the conjunction of `TypeOK`; `InstallInv`: what is installed at each
statement of main; `HandlerInv`: which handler runs, and the state of the stop
handshake; `LineInv`: on a line of its own, a request means an overflow not yet seen,
and who holds the address latch of the YM2151; `ClockInv`: `SystemInv` and `CounterInv`,
what the PIT and the counter are at each statement, and `DebtInv`: what the BIOS is owed is
in `g_interrupt_counter` but for what starting the timer left over and for `Error`, the
same at each tick. The properties are not
inductive by themselves: that the callback is silent after `timer_stop` needs to know
that an acknowledgement means a stopped Timer B with its flag cleared and that no
handler runs then; the bound on the clock needs the exact relation of debt and counter.

`ClockKept` counts in clocks of the PIT, 65536 to a BIOS tick. Each tick that the BIOS gets is
`PitCounter * InterruptTotal / 256` clocks long on average, and both factors are cut: at
60 Hz that is 65484, so the clock gains a tick in 1260, at 64 Hz it loses one in 11305. Lemmas
about the two quotients (`PeriodOfRate`, `TotalOfRate`, `ErrorOfRate`) bound the error of a tick
for every rate by a 256th up to 4900 Hz and by a 16th above, where the period is so short
that its cut counts for more. So the drift is in the property, as `Drift`: no bound on the
clock holds of this code however long it plays. What the theorem adds to the drift is at most
five ticks, which starting and stopping, an IRQ0 between the two stores of
`timer_setup_pit_channel_0` (`SetTotal`, `SetCounter`) and the fraction in the counter
take together. `Skew`, the debt with the counter and the drift taken out, does not change at all
while the PIT is fast; that is the heart of the proof. The periods themselves are taken to
be exact: no IRQ0 is lost (`Tight`).

Each part is preserved by the steps of main, of the handlers and of the hardware, one
lemma each; `TimerSafe` combines them, and `TimerTyped`, `StopIsQuiet`,
`ClockStaysKept`, `InterruptsEnd` and `WritesStayWhole` are consequences. The properties
of the last two are about lines that are not shared, but for the half of
`EndsOfInterrupt` that says that no end of interrupt is sent for another's interrupt. On a
shared line `timer_irq_2_handler` and `timer_irq_357_handler` do return without it, and the line is
blocked: the code has this failure, no property covers it up and none can catch it, as no
document promises to share a line. All hold from any mask, Timer B,
flag and request that an earlier program may leave.

**`Saa1099Proofs`** assumes `SaaAssumption`: any number of channels on two chips, any
range of words and any table of octaves and frequencies. `SaaTyped` holds with failures
and without. The others, `SaaOneGenerator`, `SaaStaysOnCard` and `SaaPlaysVoices`, are
about a program whose clock is valid and whose table could be allocated (`~MayFail`):
without them the code writes to a port that is not the card's, which `saa_no_clock`
shows. `SaaInv` adds to the types what values each shared register can have, `ReadyInv`
that the cache is what the chips hold, from `saa1099_initialize` on. The refinement goes
by step simulation: two channels share the byte of an octave register and all of a chip
share the two enable registers, so the lemma under it is that writing one channel's part
of a register leaves the parts of the others as they were, and the writes to one chip
those of the other chip.

**`PlayerProofs`, `PlayerDetectProofs`** assume `SaaymAssumption`
(any subset of the lines 2, 3, 5 and 7, any machines and SAAYM variables, periods,
threshold and limit in the order that `ClockFound` needs, with the margin for lost
ticks) and `PlayerAssumption` (tick rates Timer B can be set to). The invariant
`PlayerInv` is in `PlayerInvariants`, in parts that were checked by TLC on the instance
of `player` before they were proved:

* `TypeInv`, inductive by itself, gives `PlayerTyped`.
* `HardwareInv` says what vectors, mask and PIT are at each statement of main, as
  functions of `pc`; `TimerInv` does so for the callback and the handshake of
  `timer_stop`. At the statements where the program or the detection ends these are what
  was found, but that `timer_stop` leaves the line of Timer B masked:
  `ProgramLeavesAsFound` and, with what `YmInv` and `WatchInv` say of Timer B,
  `DetectionGivesBack`.
* `CardInv`, `YmInv`, `OthersInv`, `OwnLineInv`, `OwnTriggerInv` and `SensedInv` follow
  an interrupt from its line over the detection handler to `irq_sense`, separately for
  the card's line and the others, because main goes through the lines one by one and a
  line's interrupt means something else before its sample was taken than after.
  `SensesTheCard` only speaks of the end; it is not inductive without what was on each
  line before. `LineSensed` follows.
* `WatchInv` is the stopwatch: while it runs, the ticks it counted and those that were
  lost are the time Timer B has been running, and the card's line is up exactly when it
  has overflowed. `SettingsInv` carries the result over to what the file is played with:
  `ClockMeasured` and `TempoFollows`. The invariant leaves the count open on a sensed
  line on which another device interrupts, as `ClockFound` does.

**Model-checked only.** Liveness (`KeepsTicking`, `StopReturns`, `UpdateReturns`,
`PlaybackEnds`, `DetectionEnds`, `EscapeStops`, `ReturnsToDos`), which needs fairness
and `ENABLED`; of `UpdateReturns` the variant is proved (`ZsmUpdateEnds`). The frequency table (`CountsLeadingZeros`, `InTune`, `Ascending`): a computation on
bits, which TLC does with the true numbers for every entry, so that there is no larger
instance to prove it for.

## 6. Not modelled

The parsing of arguments in `main` (where the count of `-rN` is cut to 8 bits) and all
printing; the spelling of the SAAYM variable; the content of files beyond their
commands, and short reads; the volume tables and pulse widths; a tune that writes the
Timer B registers; an old handler that enables interrupts. `i8253.h`, `i8259a.h` and
`vera.h` are constants. The assembler `nlz5_16_inline` is unused.

Seen while modelling, and of no effect on a property: `saaym.h:28` gives the first base
as 0x210, the code probes from 0x200; the comment at `saaym.c:195` gives the period of
Timer B for 0xFF as 16.667 ms, it is 0.286 ms; with a SAAYM variable that has no A the
clocks it names are overwritten by detection (`saaym.c:307`); quotients beyond 255 in
`ym2151_set_timer_b_hz`, tick rates up to 15 Hz at 4 MHz and 13 Hz at 3.58 MHz, are cut.

## 7. Plan

Done: `RamBank`, `Zsm`, `Timer`, `SaaTable`, `Saa1099`, `RamLoad`, `Saaym` and `Player`, with
proofs of all of their safety properties, the three refinements included, but those of
`SaaTable`.

1. Proofs: the safety half of the other liveness properties as well, such as a variant for
   the stop handshake of the timer.
2. The arguments of `main`, and a tune that writes the Timer B registers.
