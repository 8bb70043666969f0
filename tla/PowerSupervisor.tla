-------------------------- MODULE PowerSupervisor --------------------------
(***************************************************************************)
(* What the power supply promises whoever stands next to the machine, with *)
(* nothing said of modes, counters, pins or interrupts: when the output    *)
(* switches may pulse, and when they must not.                             *)
(*                                                                         *)
(* The module WpsFirmware is shown to implement it.                        *)
(***************************************************************************)

VARIABLES
    phase,   \* what the device is doing
    out      \* TRUE iff the output switches may pulse

supervisorVars == <<phase, out>>

Phases == {"boot", "idle", "operating", "stopping", "recovery"}

\* The phases in which the switches may be handed to the pulse generator.
\* During boot that is the hold that the voltage calibration needs.
MayPulse == {"boot", "operating"}

SupervisorTypeOK == phase \in Phases /\ out \in BOOLEAN

SupervisorInit == phase = "boot" /\ out = FALSE

Energise ==
    /\ phase \in MayPulse
    /\ out' = TRUE
    /\ UNCHANGED phase

\* Any trip, pause, command or interrupt may cut the output at any time.
Cut ==
    /\ out' = FALSE
    /\ UNCHANGED phase

BootDone ==
    /\ phase = "boot"
    /\ phase' = "idle"
    /\ out' = FALSE

\* The motion controller asks for machining.
Enter ==
    /\ phase = "idle"
    /\ phase' = "operating"
    /\ UNCHANGED out

\* It no longer does; the output is cut one step later.
Leave ==
    /\ phase \in {"idle", "operating"}
    /\ phase' = "stopping"
    /\ UNCHANGED out

Stopped ==
    /\ phase = "stopping"
    /\ phase' = "idle"
    /\ out' = FALSE

\* Fault recovery starts by cutting the output and ends with it cut.
Recover ==
    /\ phase \in {"idle", "operating"}
    /\ phase' = "recovery"
    /\ out' = FALSE

Resume ==
    /\ phase = "recovery"
    /\ phase' = "idle"
    /\ UNCHANGED out

Reboot ==
    /\ phase \in {"idle", "operating", "recovery"}
    /\ phase' = "boot"
    /\ out' = FALSE

SupervisorNext ==
    \/ Energise
    \/ Cut
    \/ BootDone
    \/ Enter
    \/ Leave
    \/ Stopped
    \/ Recover
    \/ Resume
    \/ Reboot

SupervisorSpec == SupervisorInit /\ [][SupervisorNext]_supervisorVars
============================================================================
