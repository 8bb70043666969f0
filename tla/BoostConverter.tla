--------------------------- MODULE BoostConverter ---------------------------
(***************************************************************************)
(* The high-voltage rail and what boost.c and its callers do to it: the    *)
(* calibration sweep at boot and its verification, the sweep on command,   *)
(* ramps through the table, and the wiper set by hand.  The wiper sits in  *)
(* a digital potentiometer behind an I2C bus whose writes may be lost, and *)
(* keeps its position through a reset of the firmware.  A pin fault can    *)
(* cut the output at any moment, also under a sweep.                       *)
(*                                                                         *)
(* Voltages are whole numbers.  The rail is read through the output, so    *)
(* that a reading tells the rail's voltage only while the high-voltage     *)
(* phase is held; otherwise it may as well be zero.  An averaged reading   *)
(* that a fault cuts into counts as one of the two.                        *)
(*                                                                         *)
(* Left out: settling and ramp delays, the exact moment at which the loop  *)
(* finds a fault (WpsFirmware), and the reading back of the wiper, which   *)
(* nothing calls.                                                          *)
(***************************************************************************)
EXTENDS Integers

CONSTANTS
    PosMax,    \* BOOST_DPOT_POSITION_MAX; BOOST_DPOT_POSITION_MIN is 0
    MinVolts,  \* MIN_HIGH_VOLTAGE_PHASE_VOLTS
    MaxVolts,  \* MAX_HIGH_VOLTAGE_PHASE_VOLTS
    RailMax,   \* the highest voltage that any converter may produce
    LossyBus   \* may an I2C write be lost?

ASSUME ConverterAssumption ==
    /\ PosMax \in Nat \ {0}
    /\ MinVolts \in Nat \ {0} /\ MaxVolts \in Nat /\ RailMax \in Nat
    /\ MinVolts <= MaxVolts /\ MaxVolts <= RailMax
    /\ LossyBus \in BOOLEAN

VARIABLES
    pc,          \* where the main thread is
    back,        \* where it goes on after the sweep or the ramp under way
    rail,        \* the voltage each wiper position gives; fixed by the hardware
    wiper,       \* where the wiper is
    position,    \* dpot.position: where the firmware takes it to be
    table,       \* the calibration table's voltages
    count,       \* its number of entries
    calibrated,  \* whether it is complete
    goal,        \* the wiper position a ramp is on its way to
    stage,       \* the high-voltage phase: "held" for calibration, "pulsing", "off"
    fault,       \* the fault pending: "none", "pin" (recoverable) or "setup"
    asked,       \* the voltage last asked of the ramp and not overridden, or 0
    smooth       \* since reset, no fault and no lost write up to the end of boot

vars == <<pc, back, rail, wiper, position, table, count, calibrated, goal, stage,
          fault, asked, smooth>>
wiperVars == <<wiper, position>>
tableVars == <<table, count, calibrated>>

Positions == 0..PosMax
Volts     == 0..RailMax
Targets   == MinVolts..MaxVolts

\* A converter gives more voltage at a higher position.
Rails == {r \in [Positions -> 1..RailMax] :
             \A p \in Positions \ {0} : r[p - 1] < r[p]}

\* Until the table has been verified.
Booting == back = "verify" /\ pc \in {"sweep", "park", "verify"}

TypeOK ==
    /\ pc \in {"sweep", "park", "verify", "ready", "halted", "ramp", "enable"}
    /\ back \in {"verify", "ready", "halted", "enable"}
    /\ rail \in Rails
    /\ wiper \in Positions /\ position \in Positions
    /\ table \in [Positions -> Volts]
    /\ count \in 0..PosMax + 1
    /\ calibrated \in BOOLEAN /\ smooth \in BOOLEAN
    /\ stage \in {"held", "pulsing", "off"}
    /\ fault \in {"none", "pin", "setup"}
    /\ asked \in Targets \cup {0}
    /\ goal \in Positions

\* main.c is about to sweep: position 1 is what boost_dpot_create assumes.
Init ==
    /\ pc = "sweep" /\ back = "verify"
    /\ rail \in Rails
    /\ wiper \in Positions /\ position = 1
    /\ table = [p \in Positions |-> 0] /\ count = 0 /\ calibrated = FALSE
    /\ goal = 0
    /\ stage = "held" /\ fault = "none"
    /\ asked = 0 /\ smooth = TRUE
----------------------------------------------------------------------------
(***************************************************************************)
(* The wiper and the table.                                                *)
(***************************************************************************)

\* Wrong variant: the search ends without a look at the entry below.
NoCloserBelow(p, target) == FALSE

\* The entry below p is nearer to the target.
CloserBelow(p, target) == p > 0 /\ target - table[p - 1] < table[p] - target

\* The part of the table that the search still looks at.
Spans == [lo : Positions, hi : Positions]

\* boost_cal_lookup_wiper: the first entry not below the target, or the one
\* before it when that is nearer.
Lookup(target) ==
    LET Search[s \in Spans] ==
            LET mid == (s.lo + s.hi) \div 2
            IN  IF s.lo >= s.hi THEN s.lo
                ELSE IF table[mid] < target THEN Search[[s EXCEPT !.lo = mid + 1]]
                ELSE Search[[s EXCEPT !.hi = mid]]
        p == Search[[lo |-> 0, hi |-> count - 1]]
    IN  IF ~calibrated \/ count = 0 THEN 0
        ELSE IF CloserBelow(p, target) THEN p - 1 ELSE p

\* boost_dpot_clamp_position.
Clamp(p) == IF p < 0 THEN 0 ELSE IF p > PosMax THEN PosMax ELSE p

\* boost_dpot_write_position(p): the firmware believes it whatever the bus did.
Write(p) ==
    /\ position' = Clamp(p)
    /\ wiper' \in IF LossyBus THEN {Clamp(p), wiper} ELSE {Clamp(p)}

\* During boot, a lost write spoils what the sweep can tell.
StillSmooth == smooth' = (smooth /\ (Booting => wiper' = position'))

\* sensors_read_output_voltage_averaged.
Readings == IF stage = "held" THEN {rail[wiper']} ELSE {0, rail[wiper']}

\* One round of boost_cal_build's loop.
SweepStep ==
    /\ pc = "sweep"
    /\ Write(count)
    /\ \E v \in Readings : table' = [table EXCEPT ![count] = v]
    /\ count' = count + 1
    /\ StillSmooth
    /\ pc' = IF count = PosMax THEN "park" ELSE "sweep"
    /\ UNCHANGED <<back, rail, calibrated, goal, stage, fault, asked>>

\* Its end: the wiper goes back to the lowest position.
Park ==
    /\ pc = "park"
    /\ Write(0)
    /\ calibrated' = TRUE
    /\ StillSmooth
    /\ pc' = back
    /\ UNCHANGED <<back, rail, table, count, goal, stage, fault, asked>>

\* Wrong variant: only a table that does not reach far enough is refused.
ReachesFar == \E p \in Positions : table[p] >= MinVolts

\* No entry is above the ceiling, and some entry is usable.
SafeTable ==
    /\ \A p \in Positions : table[p] <= MaxVolts
    /\ \E p \in Positions : table[p] >= MinVolts

\* verify_boost_cal_safe, after which main.c drops the output stage.
Verify ==
    /\ pc = "verify"
    /\ fault' = IF SafeTable THEN fault ELSE "setup"
    /\ stage' = "off"
    /\ pc' = "ready"
    /\ UNCHANGED <<back, rail, wiperVars, tableVars, goal, asked, smooth>>

\* Wrong variants: the ramp only knows the way up; the wiper is sent to the goal
\* at once.
OneUp == position + 1
AtOnce == goal

\* The next position on the way to the goal.
OneOn == IF position < goal THEN position + 1 ELSE position - 1

\* Wrong variant: on the way up the loop ends a position early.
OneShort == position = goal \/ position + 1 = goal

\* The condition that ends the loop.
AtGoal == position = goal

\* One round of boost_set_voltage's loop ...
RampStep ==
    /\ pc = "ramp" /\ ~AtGoal
    /\ Write(OneOn)
    /\ UNCHANGED <<pc, back, rail, tableVars, goal, stage, fault, asked, smooth>>

\* ... and its end.
RampDone ==
    /\ pc = "ramp" /\ AtGoal
    /\ pc' = back
    /\ UNCHANGED <<back, rail, wiperVars, tableVars, goal, stage, fault, asked, smooth>>

\* boost_set_voltage(v), which does nothing without a table.
BeginRamp(v, next) ==
    /\ back' = next
    /\ IF calibrated
         THEN pc' = "ramp" /\ goal' = Lookup(v) /\ asked' = v
         ELSE pc' = next /\ UNCHANGED <<goal, asked>>
    /\ UNCHANGED <<rail, wiperVars, tableVars, stage, fault, smooth>>
----------------------------------------------------------------------------
(***************************************************************************)
(* The main loop: faults, and the preparation of a mode.                   *)
(***************************************************************************)

\* fault_handle and the return to idle.
HandleFault ==
    /\ pc = "ready" /\ fault # "none"
    /\ stage' = "off"
    /\ IF fault = "pin"
         THEN fault' = "none" /\ UNCHANGED pc
         ELSE pc' = "halted" /\ UNCHANGED fault
    /\ UNCHANGED <<back, rail, wiperVars, tableVars, goal, asked, smooth>>

Serving == (pc = "ready" /\ fault = "none") \/ pc = "halted"

\* Preparation of the machining mode for initiation voltage v, or of edge
\* detection for the lowest one: the ramp ...
Prepare(v) == pc = "ready" /\ fault = "none" /\ BeginRamp(v, "enable")

\* ... and then the output, whatever has become pending in between.
Enable ==
    /\ pc = "enable" /\ pc' = "ready"
    /\ stage' = "pulsing"
    /\ UNCHANGED <<back, rail, wiperVars, tableVars, goal, fault, asked, smooth>>

\* Idling, pauses, and the commands that cut.
Cut ==
    /\ Serving /\ stage' = "off"
    /\ UNCHANGED <<pc, back, rail, wiperVars, tableVars, goal, fault, asked, smooth>>
----------------------------------------------------------------------------
(***************************************************************************)
(* The operator's commands; none looks at the state of the device.         *)
(***************************************************************************)

\* A position by hand; no voltage is asked for any more.
SetDpot(p) ==
    /\ Serving
    /\ Write(p)
    /\ asked' = 0
    /\ UNCHANGED <<pc, back, rail, tableVars, goal, stage, fault, smooth>>

SetDpotFromVtable(v) == Serving /\ calibrated /\ BeginRamp(v, pc)

\* Wrong variant: the table is filled on from where it ended.
FromTheEnd == count

\* The sweep fills the table from its start.
FromTheStart == 0

\* UPDATE_DPOT_VOLTAGE_TABLE: the sweep of the boot, without its hold of the
\* high-voltage phase and without the verification.
UpdateTable ==
    /\ Serving
    /\ pc' = "sweep" /\ back' = pc
    /\ count' = FromTheStart /\ calibrated' = FALSE
    /\ asked' = 0
    /\ UNCHANGED <<rail, wiperVars, table, goal, stage, fault, smooth>>

\* RESET_DEVICE: everything starts over but the wiper.
Reset ==
    /\ Serving
    /\ pc' = "sweep" /\ back' = "verify"
    /\ position' = 1
    /\ table' = [p \in Positions |-> 0] /\ count' = 0 /\ calibrated' = FALSE
    /\ goal' = 0 /\ stage' = "held" /\ fault' = "none"
    /\ asked' = 0 /\ smooth' = TRUE
    /\ UNCHANGED <<rail, wiper>>

\* A pin interrupt.  Until the boot has been verified and its outcome handled,
\* it may hide what the verification would have found.
PinFault ==
    /\ stage' = "off" /\ fault' = "pin"
    /\ smooth' = (smooth /\ ~Booting /\ fault # "setup")
    /\ UNCHANGED <<pc, back, rail, wiperVars, tableVars, goal, asked>>
----------------------------------------------------------------------------
MainThread == SweepStep \/ Park \/ Verify \/ RampStep \/ RampDone \/ Enable \/ HandleFault

Operator ==
    \/ \E v \in Targets : Prepare(v) \/ SetDpotFromVtable(v)
    \/ \E p \in Positions : SetDpot(p)
    \/ UpdateTable \/ Cut \/ Reset

Next == MainThread \/ Operator \/ PinFault

Spec == Init /\ [][Next]_vars

\* The main thread goes on with a sweep or a ramp it has begun.
FairSpec == Spec /\ WF_vars(MainThread)
----------------------------------------------------------------------------
(***************************************************************************)
(* Properties.                                                             *)
(***************************************************************************)

AbsDiff(a, b) == IF a < b THEN b - a ELSE a - b

Increasing(f) == \A p \in Positions \ {0} : f[p - 1] < f[p]

\* boost_cal_lookup_wiper, a binary search with a correction at its end, finds
\* the position with the voltage closest to the target in every table that
\* increases, at both ends and between two entries.
LookupIsNearest ==
    calibrated /\ Increasing(table) =>
        \A v \in Targets, p \in Positions :
            AbsDiff(table[Lookup(v)], v) <= AbsDiff(table[p], v)

\* Pulses come at the voltage asked for, or the nearest the rail can give, as
\* long as the table tells the truth and the last write arrived: nothing but
\* the commands that say so moves the wiper away (boost_set_voltage before
\* output_setup_isofreq; SET_DPOT; UPDATE_DPOT_VOLTAGE_TABLE).
PulsesAtVoltageAsked ==
    pc = "ready" /\ stage = "pulsing" /\ asked # 0 /\ table = rail /\ wiper = position =>
        \A p \in Positions : AbsDiff(rail[wiper], asked) <= AbsDiff(rail[p], asked)

\* A ramp never moves the rail by more than one position, when the firmware
\* knows where the wiper is (boost_set_voltage).
GradualRamp ==
    [][pc = "ramp" /\ wiper = position => AbsDiff(wiper', wiper) <= 1]_vars

\* After a boot without disturbance the device never pulses above the ceiling:
\* whatever positions and tables come later, the verification has seen the
\* highest voltage that the converter can give.
CeilingAfterSmoothBoot == smooth /\ stage = "pulsing" => rail[wiper] <= MaxVolts

\* A ramp comes to its end (its loop stops only on the exact position).
RampEnds == pc = "ramp" ~> pc # "ramp"

\* main.c: trip if the boost can produce voltages above the safe ceiling.
VerifyRefusesUnsafe ==
    [][pc = "verify" /\ pc' = "ready" /\ fault' # "setup" =>
          \A p \in Positions : rail[p] <= MaxVolts]_vars
----------------------------------------------------------------------------
(***************************************************************************)
(* The inductive invariant.                                                *)
(***************************************************************************)

\* A sweep goes back to where it was called from, and its count goes with it;
\* until its end there is no table.
SweepsReturn ==
    /\ pc \in {"sweep", "park"} => back \in {"verify", "ready", "halted"} /\ ~calibrated
    /\ pc = "verify" => back = "verify"
    /\ pc = "ramp" => back \in {"ready", "halted", "enable"}
    /\ pc = "sweep" => count \in Positions
    /\ pc \in {"park", "verify"} \/ calibrated => count = PosMax + 1

\* Up to its verification, the table of a smooth boot tells the truth.
BootSeesRail ==
    smooth /\ Booting =>
        /\ stage = "held"
        /\ \A p \in Positions : p < count => table[p] = rail[p]

\* From then on the rail is known to be safe, or the device stays halted.
SafeOrHalted ==
    smooth /\ ~Booting =>
        \/ \A p \in Positions : rail[p] <= MaxVolts
        \/ /\ fault = "setup" /\ stage = "off"
           /\ pc \in {"ready", "halted"} \/ (pc # "enable" /\ back = "halted")

\* The voltage last asked for is where the last ramp went or is going.
AskedIsReached ==
    asked # 0 =>
        /\ calibrated /\ goal = Lookup(asked)
        /\ pc = "ramp" \/ position = goal

IInv == TypeOK /\ SweepsReturn /\ BootSeesRail /\ SafeOrHalted /\ AskedIsReached
============================================================================
