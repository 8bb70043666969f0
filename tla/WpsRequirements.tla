-------------------------- MODULE WpsRequirements --------------------------
(***************************************************************************)
(* What is asked of the control program modelled by WpsFirmware: the       *)
(* safety properties it keeps, the liveness properties it keeps under      *)
(* FairSpec, the abstract supervisor it implements, and the statements of  *)
(* its documentation that it does not keep.                                *)
(***************************************************************************)
EXTENDS WpsFirmware

----------------------------------------------------------------------------
(***************************************************************************)
(* Safety.                                                                 *)
(***************************************************************************)

\* Where a pending fault may meet a live output: after one of the steps of the
\* main thread that hand the pads to the slices without a look at the flag,
\* until the thread is back at the top of its loop.
RearmWindow == {"boot_sweep", "boot_drop", "latch", "power_check", "close", "top"}

\* A fault never outlives one pass of the loop with the output on: whatever
\* re-arms the output over a pending fault, it is cut again before the next
\* command is read, before the next periph tick, before any mode body starts and
\* throughout the recovery (the re-disable at the head of fault_handle).
FaultCutBeforePoll == pending /\ live => pc \in RearmWindow

\* The pulses on the switches are those of the selected mode: EDM pulses never
\* run in edge-detection mode nor probing pulses in EDM mode (the mode commands
\* cut the output first, and the pauses re-arm without looking at the mode).
PulsesMatchMode ==
    live /\ pc \notin BootPoints => config.kind = ModeConfig(mode, params).kind

\* mode_prep_done is never stale: while it is set, the slices hold exactly what
\* the current mode and the last accepted parameters call for, however commands,
\* faults, pauses and idling followed one another.
PreparationIsCurrent == prepDone => config = ModeConfig(mode, params)

\* The success rate is computed from discharges of this operation only: the
\* window's count, reset in one place, never exceeds the running total, which
\* is reset in two others (set-up, idling and recovery).
RateCountsThisOperation == prepDone /\ mode = "ISO" => count <= total

\* PGOOD is low with no fault pending only if it was so when the interrupts were
\* armed, or another fault has hidden it: fell in the PMM pause or between a
\* recovery and the lowering of the flag, or had its fault overwritten.  No
\* other order of edges, trips and recoveries loses it (fault_trip, fault_handle).
LowPgoodIsPendingOrMasked == Armed /\ ~pgood => pending \/ masked

\* docs/freq-encoding.md: idle, in a fault and at boot the feedback line is
\* silent; so it is, but for a frequency the operator put on it himself
\* (whatever mode bodies, tones and ticks had left there before).
SilentUnlessOperating == state # "OPERATING" => feedback \in {"off", "manual"}

\* discharges_since_op_start never goes back while the output stays on, so that
\* no discharge of a job escapes its target (interrupt against main thread).
TotalNeverFallsWhileLive == [][live /\ live' => total' >= total]_vars

----------------------------------------------------------------------------
(***************************************************************************)
(* What makes the safety properties inductive.                             *)
(***************************************************************************)

\* Where the main thread is tells the state it is in.
PointMatchesState ==
    /\ pc \in BootPoints => state = "STARTUP" /\ ~prepDone
    /\ pc \in HandlerPoints => state = "FAULT" /\ ~live
    /\ pc = "top" => state \in {"IDLE", "OPERATING"} \/ (state = "STARTUP" /\ pending)
    /\ pc \in {"cmd", "periph", "dispatch"} => state \in {"IDLE", "OPERATING"}
    /\ pc \in LoopPoints \ {"top", "cmd", "periph", "dispatch"} => state = "OPERATING"

\* The output is on only while operating, but for the calibration at boot and
\* the step between a tick that finds the enable pin low and its dispatch.
OnlyOperatingIsLive ==
    live => pc \in BootPoints \/ state = "OPERATING" \/ pc = "dispatch"

\* The pauses re-arm iso-frequency pulses in their own mode only, and a mode is
\* prepared only when it is not.
PausesAndPreparation ==
    /\ pc \in {"rate_pause", "power_check", "power_pause", "close"} => mode = "ISO"
    /\ pc \in {"setup", "latch"} => ~prepDone

\* What has been set up is what will be latched, unless the latch is refused.
SetUpIsCurrent ==
    pc = "latch" =>
        \/ pending
        \/ /\ config = ModeConfig(mode, params)
           /\ mode = "ISO" => count <= total

\* A low PGOOD that nothing has masked is the pending fault or what the handler
\* waits for.
UnmaskedIsAwaited ==
    Armed /\ ~pgood /\ pending /\ ~masked =>
        pc = "pgood_wait" \/ (pc \notin HandlerPoints /\ active = "PGOOD_FAULT")

Strengthening ==
    /\ PointMatchesState
    /\ OnlyOperatingIsLive
    /\ PausesAndPreparation
    /\ SetUpIsCurrent

IInv ==
    /\ TypeOK
    /\ Strengthening
    /\ FaultCutBeforePoll
    /\ PulsesMatchMode
    /\ PreparationIsCurrent
    /\ RateCountsThisOperation
    /\ UnmaskedIsAwaited
    /\ LowPgoodIsPendingOrMasked
    /\ SilentUnlessOperating

----------------------------------------------------------------------------
(***************************************************************************)
(* The abstract supervisor.                                                *)
(***************************************************************************)

\* The phase the device is in, read off the program counter and ctx.state.
Phase ==
    CASE pc \in BootPoints    -> "boot"
      [] pc \in HandlerPoints -> "recovery"
      [] pc \in LoopPoints /\ state = "OPERATING" -> "operating"
      [] pc = "dispatch" /\ state # "OPERATING"   -> "stopping"
      [] OTHER -> "idle"

Supervisor == INSTANCE PowerSupervisor WITH phase <- Phase, out <- live

\* The program implements the supervisor: outside the calibration at boot the
\* output is on only while operating, is cut on the way to idle and into a
\* recovery, and neither an idle nor a recovering device ever switches it on
\* (main.c's state dispatch, fault_handle, the command handlers).
ImplementsSupervisor == Supervisor!SupervisorSpec

----------------------------------------------------------------------------
(***************************************************************************)
(* Liveness, under FairSpec.                                               *)
(***************************************************************************)

\* A latched fault is served: the flag comes down again unless the recovery is
\* one that only RESET_DEVICE ends or PGOOD is (or goes) low once more.
FaultServed == pending ~> (~pending \/ pc = "halted" \/ ~pgood)

\* Taking EDM_ENABLE away stops the pulses, whatever the loop was doing, unless
\* it is given back in between.
DisableStopsOutput == ~edm ~> (edm \/ ~live)

\* A contact latched by the interrupt is reported with the feedback tone, unless
\* the controller stops asking, a fault comes first, or the operator changes the
\* mode or resets the device.  (In the silence after the tone it has been.)
ContactReported ==
    (edge /\ mode = "EDGE" /\ pc # "edge_quiet") ~>
        \/ pc = "edge_tone" /\ feedback = "max"
        \/ ~edm \/ pending \/ mode # "EDGE" \/ pc = "boot"

\* Nothing leaves the device prepared but dark: if from some time on it is
\* enabled in EDM mode, without target and without faults, then the pulses keep
\* coming (every path that cuts the output must also forget the preparation,
\* or re-arm).
PulsesComeBack ==
    <>[](edm /\ ~pending /\ mode = "ISO" /\ Target[params] = 0) => []<>live

----------------------------------------------------------------------------
(***************************************************************************)
(* Statements of the documentation that the program does not keep.  Each   *)
(* is refuted by a run of its own.                                         *)
(***************************************************************************)

\* firmware/README.md, "Fault model": with a fault pending the hardware is safe
\* regardless of when the main loop gets around to handling it.
SafeWhilePending == pending => ~live

\* firmware/README.md, "Fault model": HV-setup and input-power faults are
\* non-recoverable and require RESET_DEVICE.
NonRecoverableNeedsReset ==
    [][pending /\ active \in NonRecoverable =>
          \/ pending' /\ active' \in NonRecoverable
          \/ pc' = "boot"]_vars

\* firmware/src/output.c, output_run_edge: the interrupt has already disabled
\* the output stage when the contact is being reported.
DarkWhileReporting == pc \in {"edge_tone", "edge_quiet"} => ~live

\* firmware/src/output.h: output_run_isofreq honours discharge_count_target;
\* once a pass has found it met, the output is off.
TargetHonoured == [][pc = "body" /\ mode = "ISO" /\ TargetMet /\ pc' = "top" => ~live']_vars
============================================================================
