---------------------------- MODULE OutputStage ----------------------------
(***************************************************************************)
(* The output stage of output.c register by register: output_stage_setup   *)
(* and output_stage_disable as the sequences of writes they are, cut into  *)
(* by the pin interrupts between any two of them.  The callers (main.c,    *)
(* fault.c, the mode commands) appear only as the order in which they may  *)
(* ask for a set-up or a cut; WpsFirmware has them in full and takes each  *)
(* set-up as one step.                                                     *)
(*                                                                         *)
(* Slice "main" drives SW_ENABLE and SW_HIGH_CURRENT_PHASE, slice "hv"     *)
(* SW_HIGH_VOLTAGE_PHASE and the comparator's threshold.  Time is in ticks *)
(* of the base clock.  A slice counts up and down, so its position is a    *)
(* point on a circle, from -half to half, its counter the distance from 0, *)
(* and a pulse is centred on 0.  A stopped slice goes on comparing its     *)
(* counter with its levels, and takes a new level at once.                 *)
(*                                                                         *)
(* Left out: the reset of the chip, and the time a write takes when no     *)
(* interrupt cuts in.                                                      *)
(***************************************************************************)
EXTENDS Parameters

CONSTANTS
    StopTimes,  \* positions at which slice "main" may be stopped
    IsrTimes,   \* how long a pin interrupt may keep the main thread
    MaxLag      \* bound on the delay that interrupts can add up to

\* Interrupts keep the main thread for less than 9000 ticks (68 us) at a place.
ASSUME TimingAssumption ==
    /\ 0 \in StopTimes /\ StopTimes \subseteq Int
    /\ IsrTimes \subseteq Nat \ {0}
    /\ MaxLag \in Nat /\ MaxLag <= 9000

VARIABLES
    pc,        \* where the main thread is
    back,      \* where it goes on after the set-up or the cut under way
    job,       \* the arguments of the set-up under way
    mode,      \* ctx.mode
    pending,   \* g_pending
    latched,   \* ctx.edge_detected
    pad,       \* which peripheral owns each pad
    inverted,  \* the P-channel outputs have been given their polarity
    program,   \* the last set-up that was written to its end
    running,   \* which slices count
    level,     \* the compare register of each switch
    at,        \* the position of each slice when it was stopped, or set
    lag,       \* how much later than "main" slice "hv" was started
    wait       \* for how long it has outlived "main" when both are stopped

vars == <<pc, back, job, mode, pending, latched,
          pad, inverted, program, running, level, at, lag, wait>>
software == <<mode, pending, latched>>
slices   == <<program, running, level, at, lag, wait>>
hardware == <<pad, inverted, slices>>

Switches == {"EN", "HC", "HV"}
Pads     == Switches \cup {"OC"}
Slices   == {"main", "hv"}
SliceOf  == [p \in Pads |-> IF p \in {"EN", "HC"} THEN "main" ELSE "hv"]
Modes    == {"ISO", "EDGE"}

\* The arguments of output_stage_setup, as registers: at boot, for probing, for
\* machining.
Job(h, w, main, hv, sane) ==
    [half |-> h, width |-> w, main |-> main, hv |-> hv, sane |-> sane]

\* Wrong variant: the calibration holds the stage with the probing duty cycle.
HvJobProbing == Job(6650, 332, FALSE, TRUE, TRUE)

NoJob == Job(6650, 0, FALSE, FALSE, TRUE)
HvJob == Job(6650, 0, FALSE, TRUE, TRUE)
EdgeJob == Job(6650, 332, TRUE, FALSE, TRUE)
IsoJob(p) ==
    UNION {{Job(h, w, TRUE, TRUE, Sane(p)) : w \in Widths(h, p.duty)} : h \in Halves(p.freq)}
IsoJobs == UNION {IsoJob(p) : p \in {q \in Requests : Accepted(q)}}
Jobs == IsoJobs \cup {NoJob, HvJob, EdgeJob}

ModeJobs(m) == IF m = "ISO" THEN IsoJobs ELSE {EdgeJob}
----------------------------------------------------------------------------
(***************************************************************************)
(* What the registers make of the pads.                                    *)
(***************************************************************************)

\* Wrong variants: an eighth of the period for the offset of a quarter; the
\* offset in percent.
OffsetHalved(j)  == j.half \div 8
OffsetPercent(j) == 25 * j.half

\* The counter that slice "hv" is started with: its pulse comes that much
\* before the pulse of "main".
Offset(j) == j.half \div 4

HvLevel(j) == IF j.hv THEN 66 ELSE 0

Abs(x) == IF x < 0 THEN -x ELSE x

\* The position u ticks after position 0.
Turn(h, u) ==
    LET d == u % (2 * h)
    IN  IF d <= h THEN d ELSE d - 2 * h

\* SW_ENABLE (N-channel) is closed by a high output, the other two (P-channel)
\* by a low one, which is what a pulse is on an output with its polarity.
ClosedAt(p, c) == (c < level[p]) <=> (p = "EN" \/ inverted)

Counting(p) == running[SliceOf[p]]

\* A switch driven by a slice that counts, closed in the middle of its pulse.
Pulses(p) == pad[p] = "pwm" /\ Counting(p) /\ ClosedAt(p, 0)

\* A switch held closed: closed from one end of the count to the other, or at
\* the counter of a slice that does not count.
HeldClosed(p) ==
    /\ pad[p] = "pwm"
    /\ \A c \in IF Counting(p) THEN {0, program.half} ELSE {Abs(at[SliceOf[p]])} :
          ClosedAt(p, c)

\* The high-voltage pulse came by since "main" was stopped.
PulseCameBy ==
    \E u \in at["hv"] .. at["hv"] + wait :
        Abs(Turn(program.half, u)) < level["HV"]

\* Both the enable switch and the high-voltage switch are closed at some time.
ClosedTogether ==
    /\ pad["EN"] = "pwm" /\ pad["HV"] = "pwm"
    /\ \/ /\ Counting("EN") /\ Counting("HV")
          /\ Abs(Turn(program.half, Offset(program) - lag)) < level["EN"] + level["HV"]
       \/ /\ Counting("EN") /\ ~Counting("HV")
          /\ ClosedAt("EN", 0) /\ ClosedAt("HV", Abs(at["hv"]))
       \/ /\ ~Counting("EN") /\ Counting("HV")
          /\ ClosedAt("EN", Abs(at["main"])) /\ PulseCameBy
       \/ /\ ~Counting("EN") /\ ~Counting("HV")
          /\ ClosedAt("EN", Abs(at["main"])) /\ ClosedAt("HV", Abs(at["hv"]))
----------------------------------------------------------------------------
SetupPoints == {"hv_pad", "en_pad", "hc_pad", "oc_pad", "polarity", "stop_main",
                "stop_hv", "level_en", "level_hc", "level_hv", "counter_main",
                "counter_hv", "start_main", "start_hv"}
CutPoints   == {"off_en", "off_hc", "off_hv"}
RestPoints  == {"calibrate", "head", "body", "raise", "set_mode", "recovery"}

AtRest == pc \in RestPoints

FlagsOK == pending \in BOOLEAN /\ latched \in BOOLEAN /\ inverted \in BOOLEAN

ValuesOK ==
    /\ pc \in SetupPoints \cup CutPoints \cup RestPoints
    /\ back \in RestPoints
    /\ job \in Jobs /\ program \in Jobs
    /\ mode \in Modes
    /\ pad \in [Pads -> {"sio", "pwm"}]
    /\ running \in [Slices -> BOOLEAN]
    /\ level \in [Switches -> 0..MaxCount]
    /\ at \in [Slices -> Int]
    /\ lag \in 0..MaxLag /\ wait \in 0..MaxLag

\* No slice stands where its counter cannot be.
OnCircle == \A s \in Slices : Abs(at[s]) <= program.half

TypeOK == FlagsOK /\ ValuesOK /\ OnCircle

\* After output_init and with the interrupts armed: main.c is about to hold the
\* high-voltage phase active for the calibration.
Init ==
    /\ pc = "hv_pad" /\ back = "calibrate" /\ job = HvJob
    /\ mode = "ISO" /\ pending = FALSE /\ latched = FALSE
    /\ pad = [p \in Pads |-> "sio"]
    /\ inverted = FALSE
    /\ program = NoJob
    /\ running = [s \in Slices |-> FALSE]
    /\ level = [p \in Switches |-> 0]
    /\ at = [s \in Slices |-> 0]
    /\ lag = 0 /\ wait = 0
----------------------------------------------------------------------------
(***************************************************************************)
(* output_stage_setup(job), then output_stage_disable, write by write.     *)
(***************************************************************************)

\* gpio_set_function(p, GPIO_FUNC_PWM), or output_safe_gpio(p).
GivePad(here, p, owner, next) ==
    /\ pc = here /\ pc' = next
    /\ pad' = [pad EXCEPT ![p] = owner]
    /\ UNCHANGED <<back, job, software, inverted, slices>>

Polarity ==
    /\ pc = "polarity" /\ pc' = "stop_main"
    /\ inverted' = TRUE
    /\ UNCHANGED <<back, job, software, pad, slices>>

\* The first slice is stopped anywhere on its circle, with the second ahead of
\* it by the offset it was started with less the delay of its start.
StopMain ==
    /\ pc = "stop_main" /\ pc' = "stop_hv"
    /\ running' = [running EXCEPT !["main"] = FALSE]
    /\ \E t \in {u \in StopTimes : Abs(u) <= program.half} :
          at' = [s \in Slices |->
                   CASE ~running[s]               -> at[s]
                     [] running[s] /\ s = "main" -> t
                     [] OTHER -> Turn(program.half, t + Offset(program) - lag)]
    /\ UNCHANGED <<back, job, software, pad, inverted, program, level, lag, wait>>

StopHv ==
    /\ pc = "stop_hv" /\ pc' = "level_en"
    /\ running' = [running EXCEPT !["hv"] = FALSE]
    /\ at' = [at EXCEPT !["hv"] = Turn(program.half, @ + wait)]
    /\ wait' = 0
    /\ UNCHANGED <<back, job, software, pad, inverted, program, level, lag>>

\* pwm_set_chan_level(p, n).
SetLevel(here, p, n, next) ==
    /\ pc = here /\ pc' = next
    /\ level' = [level EXCEPT ![p] = n]
    /\ UNCHANGED <<back, job, software, pad, inverted, program, running, at, lag, wait>>

CounterMain ==
    /\ pc = "counter_main" /\ pc' = "counter_hv"
    /\ at' = [at EXCEPT !["main"] = 0]
    /\ UNCHANGED <<back, job, software, pad, inverted, program, running, level, lag, wait>>

\* With this write the two slices are programmed as asked.
CounterHv ==
    /\ pc = "counter_hv" /\ pc' = "start_main"
    /\ at' = [at EXCEPT !["hv"] = Offset(job)]
    /\ program' = job
    /\ lag' = 0
    /\ UNCHANGED <<back, job, software, pad, inverted, running, level, wait>>

\* pwm_set_enabled(s, on).
Start(here, s, on, next) ==
    /\ pc = here /\ pc' = next
    /\ running' = [running EXCEPT ![s] = on]
    /\ UNCHANGED <<back, job, software, pad, inverted, program, level, at, lag, wait>>

SetupStep ==
    \/ GivePad("hv_pad", "HV", "pwm", "en_pad")
    \/ GivePad("en_pad", "EN", "pwm", "hc_pad")
    \/ GivePad("hc_pad", "HC", "pwm", "oc_pad")
    \/ GivePad("oc_pad", "OC", "pwm", "polarity")
    \/ Polarity \/ StopMain \/ StopHv
    \/ SetLevel("level_en", "EN", job.width, "level_hc")
    \/ SetLevel("level_hc", "HC", job.width, "level_hv")
    \/ SetLevel("level_hv", "HV", HvLevel(job), "counter_main")
    \/ CounterMain \/ CounterHv
    \/ Start("start_main", "main", job.main, "start_hv")
    \/ Start("start_hv", "hv", job.hv, back)

CutStep ==
    \/ GivePad("off_en", "EN", "sio", "off_hc")
    \/ GivePad("off_hc", "HC", "sio", "off_hv")
    \/ GivePad("off_hv", "HV", "sio", back)
----------------------------------------------------------------------------
(***************************************************************************)
(* The callers.                                                            *)
(***************************************************************************)

BeginSetup(j, next) ==
    /\ pc' = "hv_pad" /\ job' = j /\ back' = next
    /\ UNCHANGED <<software, hardware>>

BeginCut(next) ==
    /\ pc' = "off_en" /\ back' = next
    /\ UNCHANGED <<job, software, hardware>>

\* The calibration is over; its verification may have tripped.
Calibrated ==
    /\ pc = "calibrate"
    /\ pc' = "off_en" /\ back' = "head"
    /\ pending' \in {pending, TRUE}
    /\ UNCHANGED <<job, mode, latched, hardware>>

\* Wrong variant: the handler trusts the trip to have cut the output.
HandleFaultNoCut ==
    /\ pc = "head" /\ pending
    /\ pc' = "recovery"
    /\ UNCHANGED <<back, job, software, hardware>>

\* The loop finds the flag: fault_handle cuts before it waits.
HandleFault == pc = "head" /\ pending /\ BeginCut("recovery")

BeginIteration ==
    /\ pc = "head" /\ ~pending
    /\ pc' = "body"
    /\ UNCHANGED <<back, job, software, hardware>>

\* A preparation, or a re-arm after a pause, at any place of the iteration.
Prepare == pc = "body" /\ \E j \in ModeJobs(mode) : BeginSetup(j, "body")

\* Idling, a pause, a target met.
Cut == pc = "body" /\ BeginCut("body")

\* fault_trip from the main thread: the flag is raised after the cut.
TripInLoop == pc = "body" /\ BeginCut("raise")

RaiseFlag ==
    /\ pc = "raise" /\ pc' = "body"
    /\ pending' = TRUE
    /\ UNCHANGED <<back, job, mode, latched, hardware>>

EndIteration ==
    /\ pc = "body"
    /\ pc' = "head"
    /\ UNCHANGED <<back, job, software, hardware>>

\* Wrong variant: the mode is set without a cut before.
ModeCommandLive ==
    /\ pc = "body"
    /\ pc' = "set_mode"
    /\ UNCHANGED <<back, job, software, hardware>>

\* EDGE_DETECTION_MODE and EDM_ISOFREQUENCY_MODE cut, then set the mode.
ModeCommand == pc = "body" /\ BeginCut("set_mode")

SetMode ==
    /\ pc = "set_mode" /\ pc' = "body"
    /\ mode' \in Modes
    /\ UNCHANGED <<back, job, pending, latched, hardware>>

\* The same command during a recovery, where there is nothing left to cut.
RecoveryMode ==
    /\ pc = "recovery"
    /\ mode' \in Modes
    /\ UNCHANGED <<pc, back, job, pending, latched, hardware>>

\* output_run_edge has signalled the contact.
Reported ==
    /\ pc = "body" /\ mode = "EDGE" /\ latched
    /\ latched' = FALSE
    /\ UNCHANGED <<pc, back, job, mode, pending, hardware>>

Recovered ==
    /\ pc = "recovery" /\ pc' = "head"
    /\ pending' = FALSE
    /\ UNCHANGED <<back, job, mode, latched, hardware>>
----------------------------------------------------------------------------
(***************************************************************************)
(* The interrupts.  One that arrives between the stops, or the starts, of  *)
(* the two slices leaves the second that much later than the first.        *)
(***************************************************************************)

Delay ==
    \E d \in IsrTimes :
       \/ /\ pc = "stop_hv" /\ running["hv"] /\ wait + d <= MaxLag
          /\ wait' = wait + d /\ lag' = lag
       \/ /\ pc = "start_hv" /\ job.main /\ job.hv /\ lag + d <= MaxLag
          /\ lag' = lag + d /\ wait' = wait
       \/ /\ pc \notin {"stop_hv", "start_hv"}
          /\ UNCHANGED <<lag, wait>>

SafeOff == pad' = [p \in Pads |-> IF p \in Switches THEN "sio" ELSE pad[p]]

\* fault_trip from either fault pin.
Trip ==
    /\ SafeOff /\ Delay
    /\ pending' = TRUE
    /\ UNCHANGED <<pc, back, job, mode, latched, inverted, program, running, level, at>>

\* The comparator falls when current flows.
CurrentFlows == \E p \in Switches : Pulses(p) \/ HeldClosed(p)

\* output_overcurrent_isr in edge mode ...
Contact ==
    /\ mode = "EDGE" /\ ~latched /\ CurrentFlows
    /\ SafeOff /\ Delay
    /\ latched' = TRUE
    /\ UNCHANGED <<pc, back, job, mode, pending, inverted, program, running, level, at>>

\* ... and otherwise: it counts, and takes its time.
Discharge ==
    /\ mode = "ISO" \/ latched
    /\ CurrentFlows
    /\ Delay
    /\ UNCHANGED <<pc, back, job, software, pad, inverted, program, running, level, at>>
----------------------------------------------------------------------------
Caller ==
    \/ Calibrated \/ HandleFault \/ BeginIteration \/ Prepare \/ Cut
    \/ TripInLoop \/ RaiseFlag \/ EndIteration \/ ModeCommand \/ SetMode
    \/ RecoveryMode \/ Reported \/ Recovered

Interrupt == Trip \/ Contact \/ Discharge

Next == SetupStep \/ CutStep \/ Caller \/ Interrupt

Spec == Init /\ [][Next]_vars
----------------------------------------------------------------------------
(***************************************************************************)
(* Properties.                                                             *)
(***************************************************************************)

\* Between set-ups no switch is held closed: whatever was cut into or restarted,
\* a pad that belongs to a stopped slice shows the open level, polarity is in
\* place before a slice runs, and a pulse is shorter than its period (levels
\* and enables of output_stage_setup) - unless the pulse was asked for as NaN.
NoSwitchHeldClosed ==
    AtRest /\ program.sane => \A p \in Switches : ~HeldClosed(p)

\* The bridge is never left half connected: an interrupt that cuts into a
\* set-up leaves some pads with the slices and some safe, and in machining mode
\* that is never met between set-ups but with the fault still to be handled.
WholeBridge ==
    AtRest /\ mode = "ISO" /\ ~pending =>
        \A p, q \in Switches : pad[p] = pad[q]

\* Machining pulses run only under a comparator whose threshold is generated:
\* its pad is with its slice and the slice counts (output_stage_setup gives the
\* threshold the slice of the high-voltage phase).
PulsesAreWatched ==
    AtRest /\ mode = "ISO" /\ Pulses("EN") => pad["OC"] = "pwm" /\ running["hv"]

\* What apply_parameters accepts reaches the electrode: with the rounding of the
\* registers, pulses last between 1 and 25 microseconds and pauses at least 88,
\* the limits of config.h - unless a NaN went past their comparisons.
PulseAsAccepted ==
    AtRest /\ Pulses("EN") /\ program.sane =>
        /\ 2 * level["EN"] >= MinOnMicros * Micro - 2
        /\ 2 * level["EN"] <= MaxOnMicros * Micro
        /\ 2 * (program.half - level["EN"]) >= MinOffMicros * Micro

\* At every moment, inside a set-up too: the enable switch and the high-voltage
\* switch are kept apart by the counter offset of output_stage_setup, for every
\* accepted frequency and duty cycle and for every pair of jobs of which one
\* replaces the other while live, wherever the slices are stopped.  There are
\* three exceptions: an interrupt came between the starts of the two slices;
\* the first counter is set to its pulse while the second was stopped in its
\* own; and the same from the first level on when the stage has only been held
\* for the calibration before.
SwitchesApart ==
    ClosedTogether /\ program.sane /\ job.sane =>
        \/ lag > 0
        \/ pc = "counter_hv"
        \/ ~program.main /\ pc \in {"level_hc", "level_hv", "counter_main"}
----------------------------------------------------------------------------
(***************************************************************************)
(* What makes them inductive.                                              *)
(***************************************************************************)

PadPoints   == {"hv_pad", "en_pad", "hc_pad", "oc_pad"}
LevelPoints == {"level_en", "level_hc", "level_hv", "counter_main"}
Written(p)  == CASE p = "EN" -> (LevelPoints \cup {"counter_hv"}) \ {"level_en"}
                 [] p = "HC" -> {"level_hv", "counter_main", "counter_hv"}
                 [] p = "HV" -> {"counter_main", "counter_hv"}

\* How far the set-up has come tells what has been written.
SetupProgress ==
    /\ pc \in SetupPoints => back \in {"calibrate", "body"}
    /\ pc \notin PadPoints => pad["OC"] = "pwm"
    /\ program.main \/ pc \notin PadPoints \cup {"polarity"} => inverted
    /\ pc \notin SetupPoints \/ pc \in {"start_main", "start_hv"} => program = job
    /\ pc # "stop_hv" => wait = 0

SlicesProgress ==
    /\ running["main"] <=>
         /\ program.main
         /\ pc \notin LevelPoints \cup {"stop_hv", "counter_hv", "start_main"}
    /\ running["hv"] <=>
         /\ program.hv
         /\ pc \notin LevelPoints \cup {"counter_hv", "start_main", "start_hv"}

LevelsProgress ==
    /\ level["EN"] = (IF pc \in Written("EN") THEN job ELSE program).width
    /\ level["HC"] = (IF pc \in Written("HC") THEN job ELSE program).width
    /\ level["HV"] = HvLevel(IF pc \in Written("HV") THEN job ELSE program)

\* A pair of slices that was live and is stopped stands apart: if the first one
\* stands in the longest of pulses, the second is past its own and has not come
\* by it again.
MaxWidth == 1596

StoppedApart ==
    /\ pc = "counter_hv" => at["main"] = 0
    /\ program.main /\ pc \notin LevelPoints \cup {"stop_hv", "counter_hv"} =>
         at["hv"] = Offset(program)
    /\ program.main /\ program.sane /\ lag = 0 /\ Abs(at["main"]) < MaxWidth =>
         /\ pc = "stop_hv" =>
               at["hv"] = Offset(program) + IF program.hv THEN at["main"] ELSE 0
         /\ pc \in LevelPoints => Abs(at["hv"]) >= 66

\* Without interruption by a cut, the pads are handed out in order.
BridgeProgress ==
    mode = "ISO" /\ ~pending =>
        /\ pc \in SetupPoints \ {"hv_pad"} => pad["HV"] = "pwm"
        /\ pc \in SetupPoints \ {"hv_pad", "en_pad"} => pad["EN"] = "pwm"
        /\ pc \in SetupPoints \ {"hv_pad", "en_pad", "hc_pad"} => pad["HC"] = "pwm"

\* Interrupts only help a cut along.
CutProgress ==
    /\ pc \in {"off_hc", "off_hv", "raise", "set_mode", "recovery"} => pad["EN"] = "sio"
    /\ pc \in {"off_hv", "raise", "set_mode", "recovery"} => pad["HC"] = "sio"
    /\ pc \in {"raise", "set_mode", "recovery"} => pad["HV"] = "sio"

\* In machining mode, what is or will be on the switches has the second slice.
MachiningHasBoth ==
    mode = "ISO" /\ (pc \in SetupPoints \/ pad["EN"] = "pwm") => job.hv

IInv ==
    /\ TypeOK
    /\ SetupProgress /\ SlicesProgress /\ LevelsProgress /\ StoppedApart
    /\ BridgeProgress /\ CutProgress /\ MachiningHasBoth /\ WholeBridge
============================================================================
