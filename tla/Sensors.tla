------------------------------ MODULE Sensors ------------------------------
(***************************************************************************)
(* sensors.c: one converter behind one multiplexer, read by the main       *)
(* thread and, at any moment once it is armed, by the discharge interrupt; *)
(* the ring buffer of input-current samples; and the hand-over of a        *)
(* discharge's two samples from the interrupt to output_run_isofreq.       *)
(*                                                                         *)
(* A sample is known by the channel it was converted from: scaling,        *)
(* offsets, clamping and averaging are left out, and one sample stands for *)
(* the many of a calibration or an averaged reading; so is the recovery    *)
(* from a fault, which lowers the flag and starts the averages over.       *)
(***************************************************************************)
EXTENDS Naturals, Sequences

CONSTANTS
    Size,   \* DEVICE_CURRENT_BUFFER_SIZE
    Cycle   \* discharges are numbered modulo Cycle

ASSUME SizesAssumption ==
    /\ Size \in Nat \ {0}
    /\ Cycle \in Nat \ {0, 1}

VARIABLES
    pc,        \* where the main thread is
    purpose,   \* what the reading under way is for
    mux,       \* the channel selected
    result,    \* the channel the converter's result is from
    armed,     \* the discharge interrupt is enabled
    offsets,   \* the channel each zero offset was taken from
    shown,     \* the channel the last voltage reading came from
    buffer,    \* s_input_current_buf
    head,      \* s_input_current_head
    count,     \* s_input_current_count
    recent,    \* the last Size samples pushed, newest first
    fresh,     \* ctx.new_discharge_detected
    latest,    \* the discharge that ctx's two samples are of
    sampled,   \* the channels these two samples were converted from
    averaged   \* the discharges that the averages last took current, voltage from

readVars  == <<purpose, offsets, shown>>
adcVars   == <<mux, result>>
ringVars  == <<buffer, head, count, recent>>
eventVars == <<fresh, latest, sampled>>
vars == <<pc, armed, averaged, readVars, adcVars, ringVars, eventVars>>

\* PMM_ISENSE_PIN, OUTPUT_VSENSE_PIN, OUTPUT_ISENSE_PIN.
Channels == {"input", "voltage", "current"}

\* The readings of the main thread, and the channel each is meant to take.
Purposes  == {"zero_input", "zero_current", "push", "show"}
Channel   == [p \in Purposes |->
                 CASE p \in {"zero_input", "push"} -> "input"
                   [] p = "zero_current"           -> "current"
                   [] p = "show"                   -> "voltage"]

TypeOK ==
    /\ pc \in {"select", "start", "convert", "arm", "rest", "take_current", "take_voltage"}
    /\ purpose \in Purposes
    /\ mux \in Channels /\ result \in Channels /\ shown \in Channels
    /\ armed \in BOOLEAN /\ fresh \in BOOLEAN
    /\ offsets \in [{"zero_input", "zero_current"} -> Channels \cup {"none"}]
    /\ buffer \in [0..Size - 1 -> Channels \cup {"none"}]
    /\ head \in 0..Size - 1 /\ count \in 0..Size
    /\ recent \in Seq(Channels)
    /\ latest \in 0..Cycle - 1
    /\ sampled \in [{"current", "voltage"} -> Channels]
    /\ averaged \in [{"current", "voltage"} -> 0..Cycle - 1]

\* Wrong variant: the interrupt is armed before the calibration.
ArmedEarly == TRUE

\* main.c arms the interrupt only when both zero offsets are known.
ArmedAtBoot == FALSE

\* main.c after sensors_init: the input current is calibrated first.
Init ==
    /\ pc = "select" /\ purpose = "zero_input"
    /\ mux = "input" /\ result = "input" /\ shown = "voltage"
    /\ armed = ArmedAtBoot /\ fresh = FALSE
    /\ offsets = [p \in {"zero_input", "zero_current"} |-> "none"]
    /\ buffer = [i \in 0..Size - 1 |-> "none"] /\ head = 0 /\ count = 0
    /\ recent = << >>
    /\ latest = 0
    /\ sampled = [c \in {"current", "voltage"} |-> c]
    /\ averaged = [c \in {"current", "voltage"} |-> 0]
----------------------------------------------------------------------------
(***************************************************************************)
(* sensors_read_pin_adc in the main thread: adc_select_input, then         *)
(* adc_read, which starts a conversion and waits for it.                   *)
(***************************************************************************)

SelectInput ==
    /\ pc = "select" /\ pc' = "start"
    /\ mux' = Channel[purpose]
    /\ UNCHANGED <<result, armed, averaged, readVars, ringVars, eventVars>>

StartConversion ==
    /\ pc = "start" /\ pc' = "convert"
    /\ result' = mux
    /\ UNCHANGED <<mux, armed, averaged, readVars, ringVars, eventVars>>

\* sensors_calibrate_input_current, then sensors_calibrate_output_current.
ZeroInput ==
    /\ pc = "convert" /\ purpose = "zero_input"
    /\ offsets' = [offsets EXCEPT !["zero_input"] = result]
    /\ pc' = "select" /\ purpose' = "zero_current"
    /\ UNCHANGED <<shown, armed, averaged, adcVars, ringVars, eventVars>>

ZeroCurrent ==
    /\ pc = "convert" /\ purpose = "zero_current"
    /\ offsets' = [offsets EXCEPT !["zero_current"] = result]
    /\ pc' = "arm"
    /\ UNCHANGED <<purpose, shown, armed, averaged, adcVars, ringVars, eventVars>>

\* output_attach_isr.
Arm ==
    /\ pc = "arm" /\ pc' = "rest"
    /\ armed' = TRUE
    /\ UNCHANGED <<averaged, readVars, adcVars, ringVars, eventVars>>

\* Wrong variants: the head runs past the end, the count stays one short.
AdvancePastEnd(h) == h + 1
FilledShort(n) == IF n < Size - 1 THEN n + 1 ELSE n

\* The head goes round the buffer, the count fills it.
Advance(h) == (h + 1) % Size
Filled(n) == IF n < Size THEN n + 1 ELSE n

\* sensors_sample_input_current.
Push ==
    /\ pc = "convert" /\ purpose = "push" /\ pc' = "rest"
    /\ buffer' = [buffer EXCEPT ![head] = result]
    /\ head' = Advance(head) /\ count' = Filled(count)
    /\ LET n == IF Len(recent) < Size THEN Len(recent) + 1 ELSE Size
       IN  recent' = [i \in 1..n |-> IF i = 1 THEN result ELSE recent[i - 1]]
    /\ UNCHANGED <<armed, averaged, readVars, adcVars, eventVars>>

\* sensors_read_output_voltage_averaged.
Show ==
    /\ pc = "convert" /\ purpose = "show" /\ pc' = "rest"
    /\ shown' = result
    /\ UNCHANGED <<purpose, offsets, armed, averaged, adcVars, ringVars, eventVars>>

\* The periph tick samples the input current; a sweep or READ_HVP_VOLTAGE reads
\* the output voltage.
Read(p) ==
    /\ pc = "rest" /\ pc' = "select"
    /\ purpose' = p
    /\ UNCHANGED <<offsets, shown, armed, averaged, adcVars, ringVars, eventVars>>
----------------------------------------------------------------------------
(***************************************************************************)
(* The head of output_run_isofreq: the flag, then the current's sample,    *)
(* then the voltage's.                                                     *)
(***************************************************************************)

TakeFlag ==
    /\ pc = "rest" /\ fresh
    /\ fresh' = FALSE /\ pc' = "take_current"
    /\ UNCHANGED <<latest, sampled, armed, averaged, readVars, adcVars, ringVars>>

TakeCurrent ==
    /\ pc = "take_current" /\ pc' = "take_voltage"
    /\ averaged' = [averaged EXCEPT !["current"] = latest]
    /\ UNCHANGED <<armed, readVars, adcVars, ringVars, eventVars>>

\* Wrong variant: the flag is lowered here, over one that may be newer.
TakeVoltageAndFlag ==
    /\ pc = "take_voltage" /\ pc' = "rest"
    /\ averaged' = [averaged EXCEPT !["voltage"] = latest] /\ fresh' = FALSE
    /\ UNCHANGED <<armed, readVars, adcVars, ringVars, latest, sampled>>

TakeVoltage ==
    /\ pc = "take_voltage" /\ pc' = "rest"
    /\ averaged' = [averaged EXCEPT !["voltage"] = latest]
    /\ UNCHANGED <<armed, readVars, adcVars, ringVars, eventVars>>
----------------------------------------------------------------------------
(***************************************************************************)
(* output_overcurrent_isr in machining mode.  It selects and reads the     *)
(* current, then the voltage.  Cut into a running conversion, its first    *)
(* read may return the main thread's result in place of its own.           *)
(***************************************************************************)

FirstSample == {"current"} \cup (IF pc = "convert" THEN {result} ELSE {})

\* Wrong variant: it reads the voltage first.
LeftAtCurrent == "current"

\* The channel that the interrupt reads last.
LeftAt == "voltage"

Discharge ==
    /\ armed
    /\ latest' = (latest + 1) % Cycle
    /\ \E c \in FirstSample :
          sampled' = [sampled EXCEPT !["current"] = c, !["voltage"] = "voltage"]
    /\ fresh' = TRUE
    /\ mux' = LeftAt /\ result' = LeftAt
    /\ UNCHANGED <<pc, armed, averaged, readVars, ringVars>>
----------------------------------------------------------------------------
Reading ==
    \/ SelectInput \/ StartConversion
    \/ ZeroInput \/ ZeroCurrent \/ Arm \/ Push \/ Show
    \/ \E p \in {"push", "show"} : Read(p)

Drain == TakeFlag \/ TakeCurrent \/ TakeVoltage

Next == Reading \/ Drain \/ Discharge

Spec == Init /\ [][Next]_vars
----------------------------------------------------------------------------
(***************************************************************************)
(* Properties.                                                             *)
(***************************************************************************)

\* The average of the input current is over the last samples pushed, no more
\* and no less: behind the head lie the newest, in order, as many as counted
\* (sensors_sample_input_current, sensors_avg_input_current_amps).
BufferHoldsTheLast ==
    /\ count = Len(recent)
    /\ \A i \in 1..count : buffer[(head + Size - i) % Size] = recent[i]

\* Each zero offset is taken from its own channel, before any interrupt can cut
\* into it, and the output voltage is never read off another channel, although
\* an interrupt may move the multiplexer under the reading: it leaves it where
\* this reading wants it (boost_cal_build and READ_HVP_VOLTAGE rely on it).
ReadingsAreTheirOwn ==
    /\ \A p \in {"zero_input", "zero_current"} : offsets[p] \in {"none", Channel[p]}
    /\ shown = "voltage"

\* A sample of the input current that an interrupt cut into is one of the
\* output voltage, which reads as less than 5 A and cannot trip the overcurrent
\* fault; it is never one of the output current, which could.
StraySamplesAreVoltage ==
    \A i \in 0..Size - 1 : buffer[i] \in {"none", "input", "voltage"}

\* The latest discharge is averaged: when nothing new is flagged, the averages
\* have taken both of its samples (the flag is lowered before the samples are
\* read, so one that comes in between raises it again).  There is one pair of
\* samples: of several discharges before it is taken, only the last counts.
LatestIsAveraged ==
    pc \notin {"take_current", "take_voltage"} /\ ~fresh =>
        averaged["current"] = latest /\ averaged["voltage"] = latest
----------------------------------------------------------------------------
(***************************************************************************)
(* The inductive invariant.                                                *)
(***************************************************************************)

\* Until the interrupt is armed, a reading gets the channel it has selected.
Undisturbed ==
    ~armed =>
        /\ pc \in {"select", "start", "convert", "arm"}
        /\ purpose \in {"zero_input", "zero_current"}
        /\ pc \in {"start", "convert"} => mux = Channel[purpose]
        /\ pc = "convert" => result = Channel[purpose]

\* Afterwards, the only other channel it can get is the voltage's.
Disturbed ==
    armed =>
        /\ pc \in {"select", "start", "convert"} => purpose \in {"push", "show"}
        /\ pc \in {"start", "convert"} => mux \in {Channel[purpose], "voltage"}
        /\ pc = "convert" => result \in {Channel[purpose], "voltage"}

\* While the samples of a discharge are taken, a newer one raises the flag.
TakingLatest ==
    /\ pc = "take_voltage" /\ ~fresh => averaged["current"] = latest
    /\ pc \notin {"take_current", "take_voltage"} /\ ~fresh =>
          averaged["current"] = latest /\ averaged["voltage"] = latest

IInv ==
    /\ TypeOK /\ Undisturbed /\ Disturbed /\ TakingLatest
    /\ BufferHoldsTheLast /\ ReadingsAreTheirOwn /\ StraySamplesAreVoltage
============================================================================
