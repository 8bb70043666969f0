# A TLA+ model of the EPL wire-EDM power supply

The repository holds the hardware, the firmware (`src/firmware`) and a serial
monitor (`src/tools/wps-monitor.py`) of a power supply for wire electrical
discharge machining. This directory models the firmware: a sequential main loop
on a microcontroller, preempted by three pin interrupts, driving three power
switches through PWM slices, a high-voltage boost converter through an I2C
potentiometer, and a motion controller through a feedback line. It also models
the monitor's threads against the device they talk to.

Source paths below are relative to `src/firmware` unless they start with
`tools/`.

## 1. Inventory

| Component | Code | State | Operations | Model |
|---|---|---|---|---|
| Boot and main loop | `main.c` | `ctx.state`, `last_periph_tick_ms`, pads left by the boot | boot steps 1-19; loop: fault, poll, periph tick, dispatch, telemetry | `WpsFirmware` |
| Fault handling | `src/fault.c` | `g_pending`, `g_active` | `fault_trip` (interrupts and loop), `fault_handle`, `fault_spin_until` | `WpsFirmware`, `OutputStage` |
| Mode bodies, overcurrent interrupt | `src/output.c` | counters, latches, averages in `ctx` | `output_setup_*`, `output_run_*`, `output_overcurrent_isr`, re-arm | `WpsFirmware` |
| Pads and slices | `src/output.c` | pad functions, polarity, levels, counters, enables | `output_stage_setup`, `output_stage_disable` | `OutputStage` |
| Feedback line | `src/output.c` | slice enabled, frequency | `output_feedback_set_ratio`, `output_feedback_disable` | `WpsFirmware` (off, or which ratio) |
| Runtime context | `src/ctx.c`, `src/types.h` | `main_ctx_t` | `ctx_init`, `ctx_set_mode`, `ctx_reset_discharge_stats` | `WpsFirmware` |
| Operator commands | `src/cmd.c` | none of its own | twelve handlers, `apply_parameters` | `WpsFirmware`, `BoostConverter`, `CommandLine` |
| Command line, periodic telemetry | `src/cmd.c` | `g_line`, `g_line_idx`, `g_line_overflow`, `last_telemetry_tick_ms` | `cmd_poll`, `cmd_dispatch`, `cmd_tick` | `CommandLine` |
| Boost converter | `src/boost.c`, `main.c` | wiper, `dpot.position`, calibration table | sweep, verification, lookup, ramp, wiper by hand | `BoostConverter` |
| Sensors | `src/sensors.c` | multiplexer, ring buffer, zero offsets | readings of main thread and interrupt, calibration, averages | `Sensors` |
| Power management module | `src/pmm.c` | enable pin, fault pin | enable and wait | fault pin and pause in `WpsFirmware` |
| Parameter validation | `src/cmd.c`, `config.h` | none | `apply_parameters` | `Parameters`, used by `OutputStage` |
| Serial monitor | `tools/wps-monitor.py` | worker threads, queue, live flag, readouts | connect, disconnect, send, parse | `HostLink` |
| Bench tests | `feedback_test/`, `tpl0401b_test/` | | | not modelled |
| Hardware, CAD, simulation | `src/hardware`, `src/docs` | | | not modelled |

How they interact. There are no queues between the parts of the firmware:
everything is a function call from the loop, an interrupt, or a shared variable. `fault_trip`
cuts the output and raises `g_pending`, which only the top of the loop (and the
latch of a preparation) looks at. The overcurrent interrupt and the loop share
`ctx`'s counters, the edge latch, the two samples with their flag, and the
analogue multiplexer. Both fault interrupts, the edge interrupt and the loop
write the pads. Commands are executed from `cmd_poll`, in the loop and, while a
fault is being waited for, from inside `fault_handle`. The monitor's interface
thread owns the buttons and readouts; each connect starts a worker thread that
owns a port, posts what it reads to one queue and is told to stop by an event.

What is hard. (1) Interrupts between the steps of a set-up and during the
pauses, after which the loop hands the pads back to the slices without a look at
the flag. (2) Flags and counters that are reset in some places and not in
others (`mode_prep_done`, `edge_detected`, `requested_discharges_reached`,
the two discharge counters). (3) Commands at any time, among them during a
recovery and over a live output. (4) A wiper that the firmware cannot see,
behind a bus whose errors it ignores. (5) One converter for two threads.
(6) Times and counters that wrap. (7) Slices that keep their counters and go on
comparing while they are stopped, reprogrammed under live pads. (8) In the
monitor, messages that do not say which worker they are from. `PROJECT.json` lists the hazards line by line
with the properties aimed at them.

## 2. Modules

    PowerSupervisor            what the device promises: when it may pulse
        ^ implemented by
    WpsFirmware                main loop, faults, modes, commands, interrupts
      <- WpsRequirements       its properties, the refinement, the invariant
           <- MCWpsFirmware    for TLC
           <- WpsFirmwareProofs
    Parameters                 what SET_ALL_PARAMETERS accepts, as registers
      <- OutputStage           one set-up and one cut, write by write
           <- MCOutputStage, OutputStageProofs
    BoostConverter             <- MCBoostConverter, BoostConverterProofs
    Sensors                    <- MCSensors, SensorsProofs
    CommandLine                <- MCCommandLine, CommandLineProofs
    HostLink                   <- MCHostLink, HostLinkProofs
    LeastNumber                induction over numbers, for the proofs
      <- BoostConverterProofs, HostLinkProofs
      <- Folding               what a fold over a sequence computes
           instantiated by CommandLineProofs (three folds) and HostLinkProofs (one)

`OutputStage`, `BoostConverter`, `Sensors` and `CommandLine` open up what
`WpsFirmware` takes as one step; each has the loop around it only as far as it
decides in which order its component is used.

Conventions. A definition introduced as a *wrong variant* is not used by any
specification: it has the form a plausible mistake in the code would give the
definition after it, and putting it in its place must make a property fail
(`PROJECT.json`, `mutants`). Constants have named assumptions.

### WpsFirmware

`pc` is the place of the main thread. A step is the code between two places at
which an interrupt could make a difference; every wait has a place of its own.

| `pc` | Code |
|---|---|
| `boot`, `boot_hold`, `boot_sweep`, `boot_drop` | `main.c:155-244`: up to the arming of the interrupts, the hold of the high-voltage phase, the sweep with its verification, the drop |
| `top`, `cmd`, `periph`, `dispatch` | the head of the loop, `cmd_poll`, the periph tick, the state dispatch |
| `setup`, `latch` | after the voltage ramp of a preparation; before `mode_prep_done` is set |
| `body` | `output_run_isofreq` or `output_run_edge` |
| `rate_pause`, `power_check`, `power_pause`, `close` | the two pulse-skip pauses and the end of the window |
| `edge_tone`, `edge_quiet` | the two seconds of an edge report |
| `pmm_pause`, `pgood_wait`, `halted`, `clear` | inside `fault_handle` |

`live` says that the switch pads belong to the slices, `config` what the slices
were last programmed with, `feedback` what is on the line to the motion
controller: nothing, a ratio between 0 and 1, 0, 1, or one set by hand. `masked`
is a history variable: something has hidden that PGOOD is low. The averaged
input current is one of three ranges (up to 75 W, above, above 7.3 A), the
parameters are one of a set of accepted sets with a target each, the two
discharge counters saturate at `MaxCount` (they are only compared with the
window, the skip threshold and the target).
The operator, the pins and the comparator may act at any moment.
`SpuriousEdges` lets the comparator fall with the switches off.

### Parameters

`apply_parameters` in whole numbers: duty cycles in thousandths, frequencies in
Hz, and limits on the pulse and the pause in microseconds, compared without
division. `NaN` is a value of its own with which every comparison is false;
`strtof` yields it, and the conversion of it into a register leaves anything
(`Undefined`). `Half` and `Widths` are the registers `output_stage_setup`
computes. The code's single precision may differ by one tick of 1/133 us.

### OutputStage

The writes of `output_stage_setup` and `output_stage_disable` are single steps,
with any interrupt between two of them. `pad` is who owns each pad, `inverted`
the polarity, `level` each compare register, `running` which slices count and
`program` the last set-up written to its end. A phase-correct slice counts up and
down, so its position is a point on a circle and its counter the distance from
0; `at` is where each stands when it is stopped. A stopped slice goes on
comparing and takes a new level at once. From these follow which switches pulse,
which are held closed (`HeldClosed`), and whether the enable switch and the
high-voltage switch are ever closed together (`ClosedTogether`), also while one
slice counts and the other does not. `lag` is how much later than the first the
second slice was started, `wait` how long it has outlived the first while both
are being stopped. Times are ticks of the 133 MHz clock.

### BoostConverter

`rail` is the hardware's curve from wiper position to voltage, any increasing
one; `wiper` is where the potentiometer is and `position` where the firmware
believes it to be. A write always sets `position` and may fail to set `wiper`.
A reading of the output shows the rail only while the high-voltage phase is
held. Ramps and sweeps go position by position; pin faults come at any moment.

### Sensors

A sample is known by the channel it was converted from. A reading is three
steps (select, start, take the result), each of which the discharge interrupt
may precede; it leaves the multiplexer on the output voltage. An interrupt in
the middle of a conversion may take the main thread's result for its own first
one. `recent` and `averaged` are history variables: what was pushed, and which
discharge each average has last taken.

### CommandLine

Bytes arrive as words, blanks, carriage returns and newlines; a word has a
length, and the buffer a limit. `typed` (history) is what was typed since the
last newline. An iteration of the loop lasts up to `MaxIteration` and ends in
`cmd_tick`, unless a fault is pending; the clock counts modulo `Wrap`. `Arity` is
the whole command table; of what the commands do, the telemetry switch and
the restart are kept.

### HostLink

`app` is the interface: its worker, the text of the connect button, whether the
command buttons are enabled, the live flag and the FAULT readout. A worker thread
is `opening`, `reading`, `broken` (its device is gone, the exception not yet
raised), `closing` or `dead`; `stop` is its event. `queue` holds what workers have
posted, an error and an end being one message, and the interface empties it in
one step. A port that cannot be opened ends the thread with a message if the
exception is a `SerialException` (`OpenFails`); any other, such as the `ValueError` for
a baud rate the port cannot have (the entry takes any number, `tools/wps-monitor.py:237`),
escapes `run` and ends it without one (`OpenDies`). Of the device there is what the monitor asks for and shows:
`telemetry`, `fault`, and `stray`, the beginning of a command cut short that
still lies in its line buffer (where that is `SET_TELEMETRY` without its argument,
the next command's word becomes the argument, which turns telemetry off at most). The cable may be pulled and plugged at any
moment, which loses the commands under way (`down`); a reset does the same.
`hasty`, `clicked` and `wordless` are history variables: the last connect did not
wait for the worker before it; the live button was used since; the last thread
to end since did so without a message.

## 3. Runs

| Run | Question | Bounds, and why they are enough |
|---|---|---|
| `wps_safety` | Do the safety properties hold, and is the supervisor implemented, under every interleaving? | Two parameter sets, one with a target; window, skip threshold and counters at 2, so that counters are below, at and above each limit; spurious edges allowed. 1.97 million states. |
| `wps_liveness` | Are faults served, the output stopped, contacts reported, pulses resumed? | One parameter set and counters at 1: the questions are about flags and places, and every place is still reached. |
| `rearm_over_fault` | Is the hardware safe while a fault is pending? (README) | as `wps_safety`, without spurious edges; refuted |
| `fault_overwritten` | Does a non-recoverable fault need a reset? (README) | refuted |
| `target_ignored` | Is a met target honoured? (`output.h`) | refuted |
| `live_while_reporting` | Is the output off while a contact is reported? (`output.c`) | refuted |
| `output_stage` | What do interrupts inside a set-up or a cut, and the odd accepted parameters, leave behind? | The extremes of frequency and duty cycle, NaN for each, requests to be refused. Slices stopped in the middle, at the edge and just outside of each pulse, at either end of the count and where the second slice stands in its own pulse; interrupts of 4 and 8 us, up to 12 us in all (`MaxLag`). 359 thousand states. The proofs cover every value in between. |
| `boost` | Are lookups nearest, ramps gradual and finite, the ceiling kept, the voltage the one asked for? | Four positions and every increasing curve of 1..5 V around limits 2..4: curves below, across and above the range, tables with holes from faults and lost writes. |
| `verify_refuses_unsafe` | Does the verification refuse every converter above the ceiling? (`main.c`) | the same, with a perfect bus; refuted |
| `sensors` | What do interrupts inside a reading do to the samples? | A buffer of three (empty, filling, full, wrapped), discharges modulo three. |
| `command_line` | Is each line executed as typed; does telemetry keep its interval? | Three words, a buffer of five bytes, two tokens, five units per line: too long, too many and exactly fitting lines; a clock of five counts that wraps within an interval and a half; faults at any moment. |
| `host_link` | Do interface, threads and device agree? | Two workers alive at a time (an old one that ends and a new one), one message queued before nothing new is begun (`QueueMax`; ends may still be added, up to three per worker) and one command under way (`WireMax`), which is enough for a lost, a spoilt and an overtaken command. 617 thousand states. The proofs hold for every `WireMax`. |


### What the passing runs show

*Main loop.* A pending fault meets a live output only between a re-arm and the
top of the loop (`FaultCutBeforePoll`): never while a command is read or the
periodic tick runs, never when a mode body starts, never while a recovery waits.
What is left is the latch of a preparation and the end of a mode body, after a
pause has switched the pulses on again (`RearmWindow`). The pulses are those of the selected
mode (`PulsesMatchMode`), and a latched preparation those of the current
parameters (`PreparationIsCurrent`). The counters agree
(`RateCountsThisOperation`, `TotalNeverFallsWhileLive`).
`ImplementsSupervisor`: outside the calibration at boot the output is on only
while operating and is cut on every way out of it.

`SilentUnlessOperating`: outside operation the feedback line is silent unless the
operator has set a ratio, which `SET_FEEDBACK_RATIO` does in every state.
`LowPgoodIsPendingOrMasked` says exactly when a low PGOOD goes unnoticed, since
only falling edges trip and the handler lowers the flag whatever has happened:
if the pin was low when the interrupts were armed, if it fell during the PMM
pause or between a recovery and the lowering of the flag, or if another fault
replaced its own. Every other order of edges, trips and recoveries leaves it
pending. (`README.md:149-150` says that PMM and PGOOD faults clear once the
condition resolves; PMM's clears with time, its pin unread.)

*Liveness.* `FaultServed`, `DisableStopsOutput`, `ContactReported`,
`PulsesComeBack`. Fairness is weak fairness of the main thread as a whole and of
the clock: interrupts are short and every wait of the code is either bounded by
time or listed in the property (PGOOD, the non-recoverable halt). Nothing is
assumed of the operator, the pins or the discharges.

*Output stage.* `NoSwitchHeldClosed`, `WholeBridge`, `PulsesAreWatched`,
`PulseAsAccepted`, `SwitchesApart`. The last is about every moment, also in the
middle of a set-up, and names its three exceptions:

- an interrupt came between the two writes that start the slices
  (`output.c:188-189`); the discharge interrupt, which the first pulse may raise,
  performs two conversions and delays the high-voltage pulse towards the
  machining pulse for as long as the set-up lasts;
- the first counter is set to 0, the middle of its pulse, while the second slice
  still stands in its own pulse (`output.c:185-186`, between two writes);
- the stage was only held for the calibration before, so that the second slice
  stands anywhere when the first gets its level (boot only).

A `NaN` for the duty cycle or the frequency is accepted (`cmd.c:314-343`), and
then nothing is claimed of the pulse: `sane` excludes it from three properties.

*Boost converter.* `LookupIsNearest`, `GradualRamp`, `RampEnds`,
`PulsesAtVoltageAsked`, `CeilingAfterSmoothBoot`. `RampEnds` needs weak fairness
of the main thread only.

*Sensors.* `BufferHoldsTheLast`, `ReadingsAreTheirOwn` (zero offsets and voltage
readings), `StraySamplesAreVoltage`, `LatestIsAveraged`. The comment in `sensors.h:50-51` that
each call reselects the multiplexer does not make a reading of the input current
safe: an interrupt between selection and conversion gives it a sample of the
output voltage. That such a sample reads below the overcurrent limit is what
keeps it harmless. There is one pair of samples, which every discharge overwrites:
of several discharges between two passes of a mode body only the last is averaged.
What `LatestIsAveraged` says is that this last one is, in the next pass, also
when it comes while the pair is being taken; current and voltage of one average
may then be of two discharges.

*Command line.* `LineReadAsTyped`, `TelemetrySpaced`, `TelemetryComes` (weak
fairness of the loop).

*Monitor.* `NoOrphanWithoutHaste`: `_handle_rx` takes the end of any worker for
that of the present one, so that a connect before the last worker's end has been
read can leave a thread reading that no button stops; a connect that waits for
it cannot. `QuietIsDisconnected`: however its threads ended, no command button is
left enabled; worker and connect button show a disconnect too, except after a
thread that died in opening its port without a message. Then the button goes on
saying "Disconnect" for a worker that is not there, and a click on it gives that
worker up but leaves the text, since the message that changes it never comes; the
next click connects. `DisconnectCompletes` makes the same exception.
`LiveButtonTellsTheTruth`, `ReadoutRecovers`. Fairness: each worker thread is
scheduled (`readline` returns within 100 ms), the interface polls its queue (every
100 ms), the device's loop goes round. Nothing is assumed of the operator,
the cable or the faults.

### What the refuted statements show

1. `SafeWhilePending`: `output_stage_setup` does not look at the pending flag. A
   fault during the ramp or during a pulse-skip pause cuts the output, and the
   set-up that follows switches it on again, until the top of the loop.
2. `NonRecoverableNeedsReset`: a later PMM or PGOOD edge overwrites the type of
   a latched set-up or power fault, which then clears by itself.
3. `TargetHonoured`: with the target met once, new parameters or a mode command
   bring the pulses back, and nothing cuts them.
4. `DarkWhileReporting`: the edge latch survives a re-preparation; a report then
   runs with the probing pulses on.
5. `VerifyRefusesUnsafe`: a pin fault during the boot sweep leaves zeros in the
   table, which hide the voltages above the ceiling.

## 4. Proofs

TLAPS checks, for every value of the constants that satisfies the named
assumptions:

*WpsFirmwareProofs* (`ConstantsAssumption`): `Invariance`
(`Spec => []IInv`), and from it `TypeCorrect`, `FaultIsCut`, `PulsesAreOfMode`,
`PreparationCurrent`, `RateIsOfThisOperation`, `PgoodNotLost`, `FeedbackSilent`,
`TotalKept` and `Implementation` (the refinement of `PowerSupervisor`). The properties alone are not inductive.
`IInv` adds where the thread may be in which state (`PointMatchesState`), that a
live output means operating, boot, or the one step before a dispatch
(`OnlyOperatingIsLive`), that pauses happen in iso-frequency mode only and
preparation only when there is none (`PausesAndPreparation`), that what was
set up is what will be latched unless a fault is pending (`SetUpIsCurrent`), and
that a low PGOOD nothing has hidden is the active fault or what the handler is
waiting for (`UnmaskedIsAwaited`).

*OutputStageProofs* (`TimingAssumption`, and those of `Parameters`): `Invariance`,
`TypeCorrect`, `NothingHeldClosed`, `BridgeIsWhole`, `AllPulsesWatched`,
`AcceptedPulses`, `KeptApart`. Here `IInv` says how far the writes have got: what
is on the pads (`SetupProgress`, `BridgeProgress`, `CutProgress`), which slices
count (`SlicesProgress`), which levels are of the old job and which of the new
(`LevelsProgress`), that machining has both slices (`MachiningHasBoth`), and that a
pair of slices that was live stands apart once stopped (`StoppedApart`): if the
first stands in the longest of pulses, the second is past its own. That is what
makes it harmless to write new levels one after the other under live pads. The
arithmetic lemmas (`HalfRange`, `WidthRange`, `OffsetRange`, `TurnRange`) bound the
registers for every accepted frequency and duty cycle, and `KeptApart` needs an
interrupt to last less than 9000 ticks (68 us).

*SensorsProofs* (`SizesAssumption`): `TypeCorrect`, `BufferKept`, `ChannelsKept`,
`StraysHarmless`, `LatestTaken`, for every size of the buffer. `IInv` adds which
channel a reading can get before the interrupt is armed (`Undisturbed`) and
after (`Disturbed`), and what the averages have taken while a newer discharge
may come (`TakingLatest`).

*CommandLineProofs* (`LineAssumption`, `ClockAssumption`): `TypeCorrect`, `Spaced`
and `ReadAsTyped`. Two parts of `IInv` are about the two halves of the component.
`LineHoldsTyped` relates the buffer to what was typed: unspoilt, it holds the line
without its carriage returns, and `index` is its length; spoilt, more was typed
than fits. It also says that an index of 0, on which `cmd_poll` takes the line for
an empty one, means nothing but returns came before. `ReadAsTyped` follows for every
length of line and buffer. `ClockTells` says that until an interval has gone by, the
difference modulo the wrap is the time since the last block; it needs an
iteration to be shorter than what the clock has left after an interval.

*BoostConverterProofs* (`ConverterAssumption`): `TypeCorrect`, `NearestFound`,
`VoltageReached`, `CeilingKept` and `RampIsGradual`, for every number of positions
and every increasing rail. `IInv` adds where a sweep returns to (`SweepsReturn`),
that the table of an undisturbed boot is the rail (`BootSeesRail`), that afterwards
the rail is safe or the device stays halted (`SafeOrHalted`), and that the voltage
last asked for is where the last ramp went or goes (`AskedIsReached`: every command
that moves the wiper or rewrites the table forgets the voltage asked for). The lookup is a
recursive function, of which the definition alone says little: that a function
which satisfies the recursion exists has to be shown first (`SearchExists`, by the
length of what is still searched, which `Halves` shows to shrink), and then that
it ends at the first entry not below the target (`FoundIsFirst`). `Nearest` is the
look at the entry below. The table may have holes: `LookupInTable` holds in any table.

*HostLinkProofs* (`LinkAssumption`): `TypeCorrect`, `NoOrphans`, `QuietDisconnects` and
`LiveButtonIsTrue`, for any finite number of workers and any bounds on queue and
wire. `IInv` adds that the queue has room for all that the workers still owe it
(`QueueBounded`; a step of a worker pays for what it posts), that only living workers
are told to stop and never the interface's own (`ToldToStop`), that with no
port open the queue ends in an end or says nothing to an interface with its command
buttons disabled (`NoPortNoButtons`), that with no worker left, and the last not gone
without a message, it ends in an end or says nothing to a disconnected interface
(`LastWordIsAnEnd`), that connecting in good order there is one worker, and it is the
interface's unless told to stop or at its end (`InGoodOrder`), and that the last order
on the wire, or else the device, is as the live flag says (`LiveIsObeyed`).
`ReadToTheEnd` says what one emptying of the queue makes of the interface.

*LeastNumber* and *Folding* hold no part of the model. The library states induction
with an operator as a parameter, which the installed provers cannot instantiate;
`LeastNatural` (a set of numbers that is not empty has a least one), proved from the
library's well-foundedness of inclusion on finite sets, does its work in first-order
form: the least number without a property has a predecessor with it. `Folding` uses it to show
that `FoldLeft` goes through a sequence position by position (`FoldSteps`), and what it
does to a sequence one longer (`FoldAppend`).

Every safety and action property of a passing run is a theorem. Only
model-checked are the liveness properties, which are beyond the prover:
`FaultServed`, `DisableStopsOutput`, `ContactReported`, `PulsesComeBack`, `RampEnds`,
`TelemetryComes`, `DisconnectCompletes` and `ReadoutRecovers`.

## 5. Left out, and why

Not modelled:

- The real-valued arithmetic: scaling, clamping, averages, the linear formula of
  the feedback frequency, the rounding of single precision. It keeps no state;
  the control flow sees it through ranges, and `Parameters` in whole numbers.
- What is printed, except the order of the telemetry blocks and the lines the
  monitor's FAULT readout depends on.
- The level of the comparator's threshold (that it is generated is modelled).
- The chip before the interrupts are armed; `pmm_init` and the pins of the PMM but
  for its fault; `pmm.c`'s and `boost.c`'s functions that nothing calls.
- In the recovery from a fault, that `ctx_reset_discharge_stats` starts the averages
  over (`Sensors` has no faults).
- The monitor's log pane, window and other readouts, a serial line broken in two
  by its timeout, and a second program on the same port.
- The bench tests, which are programs of their own for one peripheral; the
  hardware, CAD and simulation data.

## 6. Plan

Done, in this order: `WpsFirmware` with its supervisor and proofs; `OutputStage`
with proofs; `BoostConverter`; `Sensors`; `CommandLine`; the feedback line and the
account of PGOOD in `WpsFirmware`; `Parameters` under a finer `OutputStage`;
`HostLink`; the proofs of `Sensors`, `CommandLine` and `BoostConverter`; induction in
first-order form (`LeastNumber`, `Folding`) and with it the proofs about the
lookup, the line as typed and `HostLink`.

Next: that a set-up of `OutputStage`, seen between set-ups, implements the one step
`WpsFirmware` takes for it, as a refinement.
