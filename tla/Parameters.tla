----------------------------- MODULE Parameters -----------------------------
(***************************************************************************)
(* apply_parameters of cmd.c: which operating parameters the device        *)
(* accepts, and what output_stage_setup makes of them.                     *)
(*                                                                         *)
(* Duty cycles are in thousandths, frequencies in Hz, and a register       *)
(* counts ticks of the base clock.  Exact arithmetic stands for the single *)
(* precision of the code, which may be one tick off.  The command reads    *)
(* its numbers with strtof, which takes "nan" for a number.                *)
(***************************************************************************)
EXTENDS Integers

CONSTANTS
    NaN,       \* not a number
    Requests,  \* parameters that SET_ALL_PARAMETERS may carry
    Undefined  \* what the conversion of NaN into a register may leave there

ASSUME NaNAssumption == NaN \notin Int

ASSUME RequestsAssumption ==
    Requests \subseteq [target : Int, duty : Int \cup {NaN},
                        freq : Int \cup {NaN}, volts : Int \cup {NaN}]

ClockHz  == 133000000  \* PWM_BASE_CLOCK_FREQ
Micro    == 133        \* ticks in a microsecond
MaxCount == 65535      \* the registers of a slice have 16 bits

\* The safe operating limits of config.h.
MinDuty == 10
MaxDuty == 120
MinFreq == 5000
MaxFreq == 10000
MinVolts == 64
MaxVolts == 100
MinOnMicros == 1
MaxOnMicros == 25
MinOffMicros == 88

ASSUME UndefinedAssumption == Undefined \subseteq 0..MaxCount

\* A comparison with NaN is false, whichever way it goes.
Below(x, bound) == x # NaN /\ x < bound
Above(x, bound) == x # NaN /\ x > bound

\* The duration of the pulse and of the pause, refused when out of bounds: with
\* d thousandths at f Hz the pulse lasts 1000 d / f microseconds.
TimesRefused(d, f) ==
    /\ d # NaN /\ f # NaN
    /\ \/ 1000 * d < MinOnMicros * f
       \/ 1000 * d > MaxOnMicros * f
       \/ 1000 * (1000 - d) < MinOffMicros * f

Accepted(p) ==
    /\ p.target >= 0
    /\ ~Below(p.duty, MinDuty) /\ ~Above(p.duty, MaxDuty)
    /\ ~Below(p.freq, MinFreq) /\ ~Above(p.freq, MaxFreq)
    /\ ~Below(p.volts, MinVolts) /\ ~Above(p.volts, MaxVolts)
    /\ ~TimesRefused(p.duty, p.freq)

\* The pulse that was asked for can be told at all.
Sane(p) == p.duty # NaN /\ p.freq # NaN

\* Wrong variant: a counter that goes up and down is programmed like one that
\* only goes up.
HalfOneWay(f) == (ClockHz \div f) % (MaxCount + 1)

\* The wrap register, half a period; a counter cannot wrap at zero.
Half(f) == (ClockHz \div (2 * f)) % (MaxCount + 1)

Halves(f)    == IF f = NaN THEN Undefined \ {0} ELSE {Half(f)}
Widths(h, d) == IF d = NaN THEN Undefined ELSE {(h * d) \div 1000}
=============================================================================
