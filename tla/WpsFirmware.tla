---------------------------- MODULE WpsFirmware ----------------------------
(***************************************************************************)
(* The control program of the wire-EDM power supply: the boot sequence and *)
(* the super-loop of main.c with everything it calls that decides when the *)
(* output switches pulse (fault.c, output.c, ctx.c, the operator commands  *)
(* of cmd.c), preempted at any point by the three pin interrupts.          *)
(*                                                                         *)
(* The main thread is sequential: pc says where it is.  A step is the code *)
(* between two points at which an interrupt finds a different situation,   *)
(* so that every blocking wait (a voltage ramp, a pulse-skip pause, the    *)
(* PMM pause, the wait for PGOOD, the edge tone) is a point of its own.    *)
(* The interrupts run to completion and do not nest; an interrupt that     *)
(* arrives within a step has the effect of one before or after it.         *)
(*                                                                         *)
(* A definition introduced as a wrong variant belongs to no specification: *)
(* it replaces the definition after it to see a property fail.             *)
(*                                                                         *)
(* Left out: what is printed, the averages shown by telemetry, and the     *)
(* order in which output_stage_setup touches pads and slices.              *)
(***************************************************************************)
EXTENDS Naturals

CONSTANTS
    ParamSets,       \* the parameter sets SET_ALL_PARAMETERS accepts
    DefaultParams,   \* the one ctx_init installs
    Target,          \* Target[p]: discharge_count_target of p, 0 = no target
    Interval,        \* DISCHARGES_PER_CALC_INTERVAL
    SkipCount,       \* least count whose success rate makes the output pause
    MaxCount,        \* bound at which the two discharge counters saturate
    SpuriousEdges    \* may the comparator fall while the switches are off?

\* The counters are only compared with Interval, SkipCount and the targets, so
\* saturating them at a bound no smaller than these changes no branch.
ASSUME ConstantsAssumption ==
    /\ DefaultParams \in ParamSets
    /\ Target \in [ParamSets -> 0..MaxCount]
    /\ Target[DefaultParams] = 0
    /\ MaxCount \in Nat
    /\ Interval \in 1..MaxCount
    /\ SkipCount \in 1..Interval
    /\ SpuriousEdges \in BOOLEAN

VARIABLES
    pc,          \* where the main thread is
    state,       \* ctx.state
    mode,        \* ctx.mode
    prepDone,    \* ctx.mode_prep_done
    params,      \* ctx.params
    count,       \* ctx.current_discharge_count
    total,       \* ctx.discharges_since_op_start
    reached,     \* ctx.requested_discharges_reached
    edge,        \* ctx.edge_detected
    live,        \* the switch pads belong to the PWM slices, not to SIO
    config,      \* what the slices were last programmed with
    feedback,    \* what the EDM_FEEDBACK slice gives out
    pending,     \* g_pending
    active,      \* g_active
    masked,      \* history: something has hidden that PGOOD is low
    calibrated,  \* the calibration table is built
    amps,        \* the averaged input current
    due,         \* a periph tick interval has elapsed
    pgood,       \* BOOST_PGOOD_PIN is high
    pmm,         \* PMM_FAULT_PIN is high: no fault
    edm          \* EDM_ENABLE_PIN is high

ctxVars   == <<state, mode, prepDone, params, count, total, reached, edge>>
stageVars == <<live, config>>
faultVars == <<pending, active, masked>>
measured  == <<calibrated, amps, due>>
pins      == <<pgood, pmm, edm>>
aside     == <<feedback, faultVars, measured, pins>>
vars == <<pc, ctxVars, stageVars, aside>>

States == {"STARTUP", "IDLE", "OPERATING", "FAULT"}
Modes  == {"ISO", "EDGE"}

Recoverable    == {"PMM_FAULT", "PGOOD_FAULT"}
NonRecoverable == {"POWER_OUT_OF_RANGE", "HV_SETUP"}
FaultTypes     == Recoverable \cup NonRecoverable

BootPoints    == {"boot", "boot_hold", "boot_sweep", "boot_drop"}
HandlerPoints == {"pmm_pause", "pgood_wait", "halted", "clear"}
LoopPoints    == {"top", "cmd", "periph", "dispatch", "setup", "latch", "body",
                  "rate_pause", "power_check", "power_pause", "close",
                  "edge_tone", "edge_quiet"}

\* At most 75 W; more than that; more than MAX_SAFE_INPUT_CURRENT.
Currents == {"low", "high", "over"}

\* Nothing; the frequency of a ratio below 1, of 0, of 1; one an operator chose.
Feedbacks == {"off", "ratio", "zero", "max", "manual"}

\* What the slices can hold: nothing yet, the high-voltage phase alone (boot),
\* the fixed probing pulses, or iso-frequency pulses of one parameter set.
NoConfig     == [kind |-> "none", params |-> DefaultParams]
HvConfig     == [kind |-> "hv",   params |-> DefaultParams]
EdgeConfig   == [kind |-> "edge", params |-> DefaultParams]
IsoConfig(p) == [kind |-> "iso",  params |-> p]
Configs      == {NoConfig, HvConfig, EdgeConfig} \cup {IsoConfig(p) : p \in ParamSets}

\* Wrong variant: the probing pulses are made of the operator's parameters too.
ModeConfigOfParams(m, p) == [kind |-> IF m = "ISO" THEN "iso" ELSE "edge", params |-> p]

\* The configuration that operating in mode m with parameters p calls for.
ModeConfig(m, p) == IF m = "ISO" THEN IsoConfig(p) ELSE EdgeConfig

FlagsOK ==
    /\ prepDone \in BOOLEAN
    /\ reached \in BOOLEAN
    /\ edge \in BOOLEAN
    /\ live \in BOOLEAN
    /\ pending \in BOOLEAN
    /\ masked \in BOOLEAN
    /\ calibrated \in BOOLEAN
    /\ due \in BOOLEAN
    /\ pgood \in BOOLEAN
    /\ pmm \in BOOLEAN
    /\ edm \in BOOLEAN

ValuesOK ==
    /\ pc \in BootPoints \cup HandlerPoints \cup LoopPoints
    /\ state \in States
    /\ mode \in Modes
    /\ params \in ParamSets
    /\ count \in 0..MaxCount
    /\ total \in 0..MaxCount
    /\ config \in Configs
    /\ active \in FaultTypes
    /\ feedback \in Feedbacks
    /\ amps \in Currents

TypeOK == FlagsOK /\ ValuesOK
----------------------------------------------------------------------------
(***************************************************************************)
(* Shared pieces of the code.                                              *)
(***************************************************************************)

\* One more discharge on a counter.
Counted(n) == IF n < MaxCount THEN n + 1 ELSE n

\* output_stage_disable: the pads go back to SIO; the slices keep their program.
StageDisable ==
    /\ live' = FALSE
    /\ UNCHANGED config

\* output_stage_setup: program the slices with c and hand them the pads.
StageSetup(c) ==
    /\ live' = TRUE
    /\ config' = c

\* A trip hides that PGOOD is low by taking the place of its fault, or, if it
\* is PGOOD's own, by coming while the handler waits for something else; not
\* while the handler waits for PGOOD.
Hidden(type) ==
    /\ pc # "pgood_wait"
    /\ IF type = "PGOOD_FAULT" THEN pc \in HandlerPoints ELSE masked \/ ~pgood

FaultTrip(type) ==
    /\ StageDisable
    /\ active' = type
    /\ pending' = TRUE
    /\ masked' = Hidden(type)

\* mode_prep_done; wrong variant: it is not forgotten.
KeepPreparation   == UNCHANGED prepDone
ForgetPreparation == prepDone' = FALSE

\* ctx_reset_discharge_stats: edge_detected is not among them.
ResetStats ==
    /\ count' = 0
    /\ total' = 0
    /\ reached' = FALSE
    /\ ForgetPreparation
----------------------------------------------------------------------------
(***************************************************************************)
(* Reset and boot.  The pins are not the firmware's, so they start and     *)
(* stay as they are.  No interrupt is armed before BootArm has run.        *)
(***************************************************************************)

Init ==
    /\ pc = "boot"
    /\ state = "STARTUP" /\ mode = "ISO" /\ prepDone = FALSE
    /\ params = DefaultParams
    /\ count = 0 /\ total = 0 /\ reached = FALSE /\ edge = FALSE
    /\ live = FALSE /\ config = NoConfig
    /\ feedback = "off"
    /\ pending = FALSE /\ active = "PMM_FAULT" /\ masked = FALSE
    /\ calibrated = FALSE /\ amps = "low" /\ due = FALSE
    /\ pgood \in BOOLEAN /\ pmm \in BOOLEAN /\ edm \in BOOLEAN

\* RESET_DEVICE disables the output and restarts the chip through the watchdog.
Reboot ==
    /\ pc' = "boot"
    /\ state' = "STARTUP" /\ mode' = "ISO" /\ prepDone' = FALSE
    /\ params' = DefaultParams
    /\ count' = 0 /\ total' = 0 /\ reached' = FALSE /\ edge' = FALSE
    /\ live' = FALSE /\ config' = NoConfig
    /\ feedback' = "off"
    /\ pending' = FALSE /\ active' = "PMM_FAULT" /\ masked' = FALSE
    /\ calibrated' = FALSE /\ amps' = "low" /\ due' = FALSE
    /\ UNCHANGED pins

\* Everything up to and including output_attach_isr: the edge interrupts are
\* armed.  A pin that is already low has no edge left to give.
BootArm ==
    /\ pc = "boot"
    /\ masked' = ~pgood
    /\ pc' = "boot_hold"
    /\ UNCHANGED <<ctxVars, stageVars, feedback, pending, active, measured, pins>>

\* The high-voltage phase alone is held active for the calibration.
BootHold ==
    /\ pc = "boot_hold"
    /\ StageSetup(HvConfig)
    /\ pc' = "boot_sweep"
    /\ UNCHANGED <<ctxVars, aside>>

\* boost_cal_build, which always ends with a table, and verify_boost_cal_safe:
\* a table whose top lies outside the safe range trips the set-up fault.
BootSweep ==
    /\ pc = "boot_sweep"
    /\ calibrated' = TRUE
    /\ \/ UNCHANGED <<stageVars, faultVars>>
       \/ FaultTrip("HV_SETUP")
    /\ pc' = "boot_drop"
    /\ UNCHANGED <<ctxVars, feedback, amps, due, pins>>

BootDrop ==
    /\ pc = "boot_drop"
    /\ StageDisable
    /\ state' = IF pending THEN state ELSE "IDLE"
    /\ pc' = "top"
    /\ UNCHANGED <<mode, prepDone, params, count, total, reached, edge,
                   aside>>
----------------------------------------------------------------------------
(***************************************************************************)
(* The fault handler.  fault_handle looks at g_active once, on entry.      *)
(***************************************************************************)

\* Where fault_handle waits for a fault of this type.  Wrong variant: whatever
\* recovers, recovers with time.
RecoveryPointPause(type) == IF type \in Recoverable THEN "pmm_pause" ELSE "halted"
RecoveryPoint(type) ==
    CASE type = "PMM_FAULT"        -> "pmm_pause"
      [] type = "PGOOD_FAULT"      -> "pgood_wait"
      [] type \in NonRecoverable   -> "halted"

\* The re-disable; wrong variant: the handler trusts the trip to have cut.
TrustTrip  == UNCHANGED stageVars
CutInHandler == StageDisable

EnterHandler ==
    /\ pc = "top" /\ pending
    /\ state' = "FAULT"
    /\ CutInHandler
    /\ feedback' = "off"
    /\ pc' = RecoveryPoint(active)
    /\ UNCHANGED <<mode, prepDone, params, count, total, reached, edge,
                   faultVars, measured, pins>>

\* The 500 ms for the PMM's latch-off; PMM_FAULT_PIN is not read again.
PmmPauseOver ==
    /\ pc = "pmm_pause"
    /\ pc' = "clear"
    /\ UNCHANGED <<ctxVars, stageVars, aside>>

\* fault_spin_until(fault_boost_recovered).
PgoodBack ==
    /\ pc = "pgood_wait" /\ pgood
    /\ pc' = "clear"
    /\ UNCHANGED <<ctxVars, stageVars, aside>>

\* The flag is lowered whatever the interrupts raised it for in the meantime;
\* wrong variant: it is not.
LeaveFlag == UNCHANGED pending
LowerFlag == pending' = FALSE

\* The end of fault_handle and what the main loop does after it.
ClearFault ==
    /\ pc = "clear"
    /\ LowerFlag
    /\ ResetStats
    /\ state' = "IDLE"
    /\ pc' = "top"
    /\ UNCHANGED <<mode, params, edge, stageVars, feedback, active, masked,
                   measured, pins>>
----------------------------------------------------------------------------
(***************************************************************************)
(* The other iterations of the loop: commands, periph tick, dispatch.      *)
(***************************************************************************)

EnterPoll ==
    /\ pc = "top" /\ ~pending
    /\ pc' = "cmd"
    /\ UNCHANGED <<ctxVars, stageVars, aside>>

\* cmd_poll returns when the receive buffer is empty.
PollDone ==
    /\ pc = "cmd"
    /\ pc' = "periph"
    /\ UNCHANGED <<ctxVars, stageVars, aside>>

PeriphSkip ==
    /\ pc = "periph" /\ ~due
    /\ pc' = "dispatch"
    /\ UNCHANGED <<ctxVars, stageVars, aside>>

\* The average starts from the first samples alone, so a single one may carry it
\* past both limits; but a fall from above the higher limit past the lower one
\* would take more than one sample, however few there are.
OneSampleLater(a) == IF a = "over" THEN Currents \ {"low"} ELSE Currents

\* Wrong variant: once operating, the enable pin is not looked at again.
StateFromPinLatched ==
    IF edm \/ state = "OPERATING" THEN "OPERATING" ELSE "IDLE"

\* The operating state that EDM_ENABLE_PIN asks for.
StateFromPin == IF edm THEN "OPERATING" ELSE "IDLE"

\* The power ratio, held to 1 above 75 W; wrong variant: leaving the operating
\* state leaves the frequency on the line.
TickFeedbackStays ==
    IF state' # "OPERATING" THEN feedback ELSE IF amps' = "low" THEN "ratio" ELSE "max"

TickFeedback ==
    IF state' # "OPERATING" THEN "off" ELSE IF amps' = "low" THEN "ratio" ELSE "max"

\* periph_tick.  On overcurrent it returns before it touches the state, and
\* the loop goes on to the dispatch of the old state.
PeriphTick ==
    /\ pc = "periph" /\ due
    /\ due' = FALSE
    /\ amps' \in OneSampleLater(amps)
    /\ IF amps' = "over"
         THEN /\ FaultTrip("POWER_OUT_OF_RANGE")
              /\ UNCHANGED <<state, feedback>>
         ELSE /\ state' = StateFromPin
              /\ feedback' = TickFeedback
              /\ UNCHANGED <<stageVars, faultVars>>
    /\ pc' = "dispatch"
    /\ UNCHANGED <<mode, prepDone, params, count, total, reached, edge,
                   calibrated, pins>>

\* Wrong variant: going idle only forgets the preparation.
StayOn    == UNCHANGED stageVars
CutInIdle == StageDisable

DispatchIdle ==
    /\ pc = "dispatch" /\ state = "IDLE"
    /\ CutInIdle
    /\ prepDone' = FALSE
    /\ total' = 0
    /\ pc' = "top"
    /\ UNCHANGED <<state, mode, params, count, reached, edge, aside>>

\* The mode is prepared first, which begins with the ramp of the boost voltage.
DispatchOperating ==
    /\ pc = "dispatch" /\ state = "OPERATING"
    /\ pc' = IF prepDone THEN "body" ELSE "setup"
    /\ UNCHANGED <<ctxVars, stageVars, aside>>

\* Wrong variant: the window keeps the discharges counted before it.
OldWindow   == count
FreshWindow == IF mode = "ISO" THEN 0 ELSE count

\* output_setup_isofreq and output_setup_edge, after the ramp.  Neither looks
\* at the pending flag.  They fail, and trip, without a calibration table.
Setup ==
    /\ pc = "setup"
    /\ IF ~calibrated
         THEN /\ FaultTrip("HV_SETUP")
              /\ UNCHANGED count
         ELSE /\ StageSetup(ModeConfig(mode, params))
              /\ count' = FreshWindow
              /\ UNCHANGED faultVars
    /\ pc' = "latch"
    /\ UNCHANGED <<state, mode, prepDone, params, total, reached, edge,
                   feedback, measured, pins>>

\* mode_prep_done is latched only if no fault is pending.
Latch ==
    /\ pc = "latch"
    /\ prepDone' = ~pending
    /\ pc' = IF pending THEN "top" ELSE "body"
    /\ UNCHANGED <<state, mode, params, count, total, reached, edge,
                   stageVars, aside>>
----------------------------------------------------------------------------
(***************************************************************************)
(* output_run_isofreq.                                                     *)
(***************************************************************************)

TargetMet == Target[params] # 0 /\ total >= Target[params]

\* The output is cut only on the first pass that finds the target met.
IsoTarget ==
    /\ pc = "body" /\ mode = "ISO" /\ TargetMet
    /\ live' = (live /\ reached)
    /\ feedback' = "zero"
    /\ reached' = TRUE
    /\ pc' = "top"
    /\ UNCHANGED <<state, mode, prepDone, params, count, total, edge, config,
                   faultVars, measured, pins>>

\* The window is neither full nor over.
IsoContinue ==
    /\ pc = "body" /\ mode = "ISO" /\ ~TargetMet
    /\ count < Interval
    /\ reached' = FALSE
    /\ pc' = "top"
    /\ UNCHANGED <<state, mode, prepDone, params, count, total, edge,
                   stageVars, aside>>

\* The window is full, or its time is over: too high a success rate pauses
\* the output for 250 ms.
IsoWindow ==
    /\ pc = "body" /\ mode = "ISO" /\ ~TargetMet
    /\ reached' = FALSE
    /\ IF count >= SkipCount
         THEN /\ StageDisable
              /\ pc' = "rate_pause"
         ELSE /\ UNCHANGED stageVars
              /\ pc' = "power_check"
    /\ UNCHANGED <<state, mode, prepDone, params, count, total, edge,
                   aside>>

\* output_isofreq_rearm, which does not look at the pending flag either.
Rearm == StageSetup(IsoConfig(params))

RatePauseOver ==
    /\ pc = "rate_pause"
    /\ Rearm
    /\ pc' = "power_check"
    /\ UNCHANGED <<ctxVars, aside>>

\* More than 75 W: another pause.
PowerCheck ==
    /\ pc = "power_check"
    /\ IF amps = "low"
         THEN /\ UNCHANGED stageVars
              /\ pc' = "close"
         ELSE /\ StageDisable
              /\ pc' = "power_pause"
    /\ UNCHANGED <<ctxVars, aside>>

PowerPauseOver ==
    /\ pc = "power_pause"
    /\ Rearm
    /\ pc' = "close"
    /\ UNCHANGED <<ctxVars, aside>>

\* Wrong variant: the running total is reset in place of the window's count.
ResetTotal  == total' = 0 /\ UNCHANGED count
ResetWindow == count' = 0 /\ UNCHANGED total

\* Discharges counted since the rate was computed go with the old window.
WindowClose ==
    /\ pc = "close"
    /\ ResetWindow
    /\ pc' = "top"
    /\ UNCHANGED <<state, mode, prepDone, params, reached, edge,
                   stageVars, aside>>
----------------------------------------------------------------------------
(***************************************************************************)
(* output_run_edge.                                                        *)
(***************************************************************************)

EdgeWait ==
    /\ pc = "body" /\ mode = "EDGE" /\ ~edge
    /\ pc' = "top"
    /\ UNCHANGED <<ctxVars, stageVars, aside>>

\* Wrong variant: the tone of an idle gap.
ContactToneLow == "zero"
ContactTone == "max"

\* The tone to the motion controller, 1 s ...
EdgeReport ==
    /\ pc = "body" /\ mode = "EDGE" /\ edge
    /\ feedback' = ContactTone
    /\ pc' = "edge_tone"
    /\ UNCHANGED <<ctxVars, stageVars, faultVars, measured, pins>>

\* ... then silence for 1 s ...
EdgeToneOver ==
    /\ pc = "edge_tone"
    /\ feedback' = "off"
    /\ pc' = "edge_quiet"
    /\ UNCHANGED <<ctxVars, stageVars, faultVars, measured, pins>>

\* ... then the latch is taken down.
EdgeQuietOver ==
    /\ pc = "edge_quiet"
    /\ edge' = FALSE
    /\ pc' = "top"
    /\ UNCHANGED <<state, mode, prepDone, params, count, total, reached,
                   stageVars, aside>>
----------------------------------------------------------------------------
(***************************************************************************)
(* The operator's commands, served by cmd_poll once per iteration and over *)
(* and over while the handler waits.  Those that change none of this       *)
(* module's state (telemetry, HELP, READ_HVP_VOLTAGE, and those of the     *)
(* boost converter's wiper and table, whose contents are not state here)   *)
(* are left out.                                                           *)
(***************************************************************************)

Polling == pc \in {"cmd", "pgood_wait", "halted"}

CmdReset ==
    /\ Polling
    /\ Reboot

\* SET_ALL_PARAMETERS with values that pass the checks; the output stays on.
CmdSetParameters(p) ==
    /\ Polling
    /\ params' = p
    /\ ForgetPreparation
    /\ UNCHANGED <<pc, state, mode, count, total, reached, edge,
                   stageVars, aside>>

\* Wrong variant: the mode changes under a live output.
LeaveOn  == UNCHANGED stageVars
CutFirst == StageDisable

\* EDGE_DETECTION_MODE and EDM_ISOFREQUENCY_MODE.
CmdMode(m) ==
    /\ Polling
    /\ CutFirst
    /\ mode' = m
    /\ prepDone' = FALSE
    /\ UNCHANGED <<pc, state, params, count, total, reached, edge,
                   aside>>

\* SET_FEEDBACK_RATIO, in every state.
CmdFeedbackRatio ==
    /\ Polling
    /\ feedback' = "manual"
    /\ UNCHANGED <<pc, ctxVars, stageVars, faultVars, measured, pins>>
----------------------------------------------------------------------------
(***************************************************************************)
(* Interrupts, the pins behind them, and the clock.                        *)
(***************************************************************************)

Armed == pc # "boot"

\* PMM_FAULT_PIN falls.
PmmFalls ==
    /\ pmm
    /\ pmm' = FALSE
    /\ IF Armed THEN FaultTrip("PMM_FAULT") ELSE UNCHANGED <<stageVars, faultVars>>
    /\ UNCHANGED <<pc, ctxVars, feedback, measured, pgood, edm>>

\* BOOST_PGOOD_PIN falls.
PgoodFalls ==
    /\ pgood
    /\ pgood' = FALSE
    /\ IF Armed THEN FaultTrip("PGOOD_FAULT") ELSE UNCHANGED <<stageVars, faultVars>>
    /\ UNCHANGED <<pc, ctxVars, feedback, measured, pmm, edm>>

\* A rising edge raises no interrupt.
FaultPinRises ==
    /\ \/ ~pmm /\ pmm' = TRUE /\ UNCHANGED <<pgood, masked>>
       \/ ~pgood /\ pgood' = TRUE /\ masked' = FALSE /\ UNCHANGED pmm
    /\ UNCHANGED <<pc, ctxVars, stageVars, feedback, pending, active, measured, edm>>

EnablePinMoves ==
    /\ edm' = ~edm
    /\ UNCHANGED <<pc, ctxVars, stageVars, feedback, faultVars, measured, pgood, pmm>>

\* A pulse that strikes a discharge trips the comparator.
ComparatorFalls == Armed /\ (live \/ SpuriousEdges)

IsoDischarge ==
    /\ ComparatorFalls /\ mode = "ISO"
    /\ count' = Counted(count)
    /\ total' = Counted(total)
    /\ UNCHANGED <<pc, state, mode, prepDone, params, reached, edge,
                   stageVars, aside>>

\* A second edge finds the latch set and does nothing.
EdgeContact ==
    /\ ComparatorFalls /\ mode = "EDGE" /\ ~edge
    /\ edge' = TRUE
    /\ StageDisable
    /\ UNCHANGED <<pc, state, mode, prepDone, params, count, total, reached,
                   aside>>

ClockTick ==
    /\ ~due
    /\ due' = TRUE
    /\ UNCHANGED <<pc, ctxVars, stageVars, feedback, faultVars, calibrated,
                   amps, pins>>
----------------------------------------------------------------------------
Boot == BootArm \/ BootHold \/ BootSweep \/ BootDrop

Handler == EnterHandler \/ PmmPauseOver \/ PgoodBack \/ ClearFault

LoopHead == EnterPoll \/ PollDone \/ PeriphSkip \/ PeriphTick

Prepare == DispatchIdle \/ DispatchOperating \/ Setup \/ Latch

RunIsofreq ==
    \/ IsoTarget \/ IsoContinue \/ IsoWindow
    \/ RatePauseOver \/ PowerCheck \/ PowerPauseOver \/ WindowClose

RunEdge == EdgeWait \/ EdgeReport \/ EdgeToneOver \/ EdgeQuietOver

MainThread == Boot \/ Handler \/ LoopHead \/ Prepare \/ RunIsofreq \/ RunEdge

Operator ==
    \/ CmdReset
    \/ \E p \in ParamSets : CmdSetParameters(p)
    \/ \E m \in Modes : CmdMode(m)
    \/ CmdFeedbackRatio

Interrupts == PmmFalls \/ PgoodFalls \/ IsoDischarge \/ EdgeContact

Environment == FaultPinRises \/ EnablePinMoves \/ ClockTick

Next == MainThread \/ Operator \/ Interrupts \/ Environment

Spec == Init /\ [][Next]_vars

\* The main thread always gets on (interrupts are short, and the operator
\* types more slowly than the loop polls) and time passes.  Nothing is assumed
\* of the operator, the pins or the discharges.
FairSpec == Spec /\ WF_vars(MainThread) /\ WF_vars(ClockTick)
============================================================================
