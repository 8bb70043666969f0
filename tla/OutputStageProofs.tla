------------------------- MODULE OutputStageProofs -------------------------
(***************************************************************************)
(* Proofs about the output stage, for all requests, all positions at which *)
(* slices may be stopped and interrupts of any length up to 68 us.         *)
(***************************************************************************)
EXTENDS OutputStage, TLAPS

(***************************************************************************)
(* The numbers: what a job can ask for.                                    *)
(***************************************************************************)

\* The quotient is how often the divisor fits.
LEMMA Quotient ==
    ASSUME NEW n \in Nat, NEW g \in Nat \ {0}
    PROVE  /\ n \div g \in Nat
           /\ g * (n \div g) \in Nat
           /\ g * (n \div g) <= n
           /\ n < g * ((n \div g) + 1)
<1> DEFINE q == n \div g
<1>1. n = g * q + (n % g) /\ n % g \in 0..(g - 1)
  BY SMT
<1>2. q \in Int
  BY SMT
<1>3. q >= 0
  BY SMT
<1> HIDE DEF q
<1>4. g * (q + 1) = g * q + g
  BY SMT, <1>2
<1>5. g * q \in Int /\ g * q >= 0
  BY SMT, <1>2, <1>3
<1> QED BY SMT, <1>1, <1>2, <1>3, <1>4, <1>5 DEF q

\* Its bounds are read off the products.
LEMMA QuotientRange ==
    ASSUME NEW n \in Nat, NEW g \in Nat \ {0}, NEW lo \in Nat, NEW hi \in Nat,
           g * lo <= n, n < g * (hi + 1)
    PROVE  n \div g \in lo..hi
<1> DEFINE q == n \div g
<1>1. q \in Nat /\ g * q <= n /\ n < g * (q + 1)
  BY Quotient
<1> HIDE DEF q
<1>2. ASSUME q < lo PROVE FALSE
  <2>1. g * (q + 1) <= g * lo
    BY SMT, <1>1, <1>2
  <2> QED BY SMT, <1>1, <2>1
<1>3. ASSUME q > hi PROVE FALSE
  <2>1. g * (hi + 1) <= g * q
    BY SMT, <1>1, <1>3
  <2> QED BY SMT, <1>1, <2>1
<1> QED BY SMT, <1>1, <1>2, <1>3 DEF q

\* Numbers below the divisor are their own remainder.
LEMMA Remainder ==
    ASSUME NEW k \in Nat \ {0}, NEW q \in 0..(k - 1)
    PROVE  q % k = q
  BY SMT

\* The limits as far as their values matter.
LEMMA Limits ==
    /\ MaxCount \in Nat /\ MaxCount >= 13300
    /\ MinFreq \in Nat /\ MaxFreq \in Nat /\ MinDuty \in Nat /\ MaxDuty \in Nat
    /\ MinFreq >= 5000 /\ MaxFreq <= 10000 /\ MinDuty >= 10 /\ MaxDuty <= 120
  BY SMT DEF MaxCount, MinFreq, MaxFreq, MinDuty, MaxDuty

\* 5 to 10 kHz are 6650 to 13300 ticks in half a period.
LEMMA HalfRange ==
    ASSUME NEW f \in MinFreq..MaxFreq
    PROVE  Half(f) \in Nat /\ Half(f) >= 6650 /\ Half(f) <= 13300
<1> DEFINE g == 2 * f
           q == ClockHz \div g
<1>1. g \in Nat \ {0} /\ g >= 10000 /\ g <= 20000
  BY SMT, Limits
<1>2. g * 6650 <= ClockHz /\ ClockHz < g * (13300 + 1) /\ ClockHz \in Nat
  <2> HIDE DEF g
  <2> QED BY SMT, <1>1 DEF ClockHz
<1>3. q \in Nat /\ q >= 6650 /\ q <= 13300
  <2> DEFINE lo == 6650
             hi == 13300
  <2>1. lo \in Nat /\ hi \in Nat /\ g * lo <= ClockHz /\ ClockHz < g * (hi + 1)
    BY SMT, <1>2
  <2> HIDE DEF g, lo, hi
  <2>2. ClockHz \div g \in lo..hi
    BY SMT, <1>1, <1>2, <2>1, QuotientRange
  <2>3. q \in Nat /\ q >= lo /\ q <= hi
    BY SMT, <2>1, <2>2
  <2> QED BY SMT, <2>3 DEF lo, hi
<1> HIDE DEF q
<1> DEFINE k == MaxCount + 1
<1>4. k \in Nat \ {0} /\ q \in 0..(k - 1)
  BY SMT, <1>3, Limits
<1> HIDE DEF k
<1>5. q % k = q
  BY SMT, <1>4, Remainder
<1>6. Half(f) = q % k
  BY DEF Half, q, k, g
<1> QED BY SMT, <1>3, <1>4, <1>5, <1>6

\* One to twelve percent of them are at least 66 and at most 1596 ticks.
LEMMA WidthRange ==
    ASSUME NEW h \in 1..MaxCount, NEW d \in MinDuty..MaxDuty
    PROVE  /\ (h * d) \div 1000 \in 0..MaxCount
           /\ 100 * ((h * d) \div 1000) <= 12 * h
           /\ h >= 6650 => (h * d) \div 1000 >= 66
<1> DEFINE m == h * d
           w == m \div 1000
<1>0. h \in Nat /\ MaxCount \in Nat /\ h <= MaxCount /\ d \in Nat /\ d >= 10 /\ d <= 120
  BY SMT, Limits
<1>1. m \in Nat
  BY SMT, <1>0
<1>2. m <= h * 120
  BY SMT, <1>0
<1>3. h >= 6650 => m >= 66500
  BY SMT, <1>0
<1> HIDE DEF m
<1>4. w \in Nat /\ 1000 * w <= m /\ m < 1000 * w + 1000
  BY SMT, <1>1
<1> HIDE DEF w
<1>5. w \in 0..MaxCount /\ 100 * w <= 12 * h
  BY SMT, <1>0, <1>1, <1>2, <1>4
<1>6. h >= 6650 => w >= 66
  BY SMT, <1>0, <1>1, <1>3, <1>4
<1> QED BY SMT, <1>5, <1>6 DEF m, w

\* Where a machining job comes from: a request that was accepted, each number of
\* it in range if it is one.
LEMMA IsoJobOrigin ==
    ASSUME NEW j \in IsoJobs
    PROVE  \E p \in Requests : \E h \in Halves(p.freq) : \E w \in Widths(h, p.duty) :
              /\ j = Job(h, w, TRUE, TRUE, Sane(p))
              /\ p.freq = NaN \/ p.freq \in MinFreq..MaxFreq
              /\ p.duty = NaN \/ p.duty \in MinDuty..MaxDuty
<1>1. PICK p \in Requests : Accepted(p) /\ j \in IsoJob(p)
  BY Zenon DEF IsoJobs
<1>2. \E h \in Halves(p.freq) : \E w \in Widths(h, p.duty) :
         j = Job(h, w, TRUE, TRUE, Sane(p))
  BY Zenon, <1>1 DEF IsoJob
<1>3. p.freq \in Int \cup {NaN} /\ p.duty \in Int \cup {NaN}
  BY Zenon, RequestsAssumption
<1>4. /\ p.freq # NaN => ~(p.freq < MinFreq) /\ ~(p.freq > MaxFreq)
      /\ p.duty # NaN => ~(p.duty < MinDuty) /\ ~(p.duty > MaxDuty)
  BY Zenon, <1>1 DEF Accepted, Below, Above
<1>5. p.freq = NaN \/ p.freq \in MinFreq..MaxFreq
  BY SMT, <1>3, <1>4, Limits
<1>6. p.duty = NaN \/ p.duty \in MinDuty..MaxDuty
  BY SMT, <1>3, <1>4, Limits
<1> QED BY Zenon, <1>2, <1>5, <1>6

\* The registers of a job, whatever was requested.
LEMMA JobNumbers ==
    ASSUME NEW j \in Jobs
    PROVE  j.half \in 1..MaxCount /\ j.width \in 0..MaxCount
<1>1. CASE j \in IsoJobs
  <2>1. PICK p \in Requests : \E h \in Halves(p.freq) : \E w \in Widths(h, p.duty) :
            /\ j = Job(h, w, TRUE, TRUE, Sane(p))
            /\ p.freq = NaN \/ p.freq \in MinFreq..MaxFreq
            /\ p.duty = NaN \/ p.duty \in MinDuty..MaxDuty
    BY Zenon, <1>1, IsoJobOrigin
  <2>2. PICK h \in Halves(p.freq) : \E w \in Widths(h, p.duty) :
            j = Job(h, w, TRUE, TRUE, Sane(p))
    BY Zenon, <2>1
  <2>3. PICK w \in Widths(h, p.duty) : j = Job(h, w, TRUE, TRUE, Sane(p))
    BY Zenon, <2>2
  <2>4. h \in 1..MaxCount
    <3>1. CASE p.freq = NaN
      <4>1. h \in Undefined /\ h # 0
        BY Zenon, <3>1 DEF Halves
      <4>2. h \in 0..MaxCount
        BY Zenon, <4>1, UndefinedAssumption
      <4> QED BY SMT, <4>1, <4>2, Limits
    <3>2. CASE p.freq # NaN
      <4>1. h = Half(p.freq) /\ p.freq \in MinFreq..MaxFreq
        BY Zenon, <2>1, <3>2 DEF Halves
      <4>2. Half(p.freq) \in Nat /\ Half(p.freq) >= 6650 /\ Half(p.freq) <= 13300
        BY SMT, <4>1, HalfRange
      <4> QED BY SMT, <4>1, <4>2, Limits
    <3> QED BY Zenon, <3>1, <3>2
  <2>5. w \in 0..MaxCount
    <3>1. CASE p.duty = NaN
      BY Zenon, <3>1, UndefinedAssumption DEF Widths
    <3>2. CASE p.duty # NaN
      <4>1. w = (h * p.duty) \div 1000 /\ p.duty \in MinDuty..MaxDuty
        BY SMT, <2>1, <3>2 DEF Widths
      <4> QED BY SMT, <4>1, <2>4, WidthRange
    <3> QED BY Zenon, <3>1, <3>2
  <2>6. j.half = h /\ j.width = w
    BY Zenon, <2>3 DEF Job
  <2> QED BY Zenon, <2>4, <2>5, <2>6
<1>2. CASE j \in {NoJob, HvJob, EdgeJob}
  <2>1. j.half = 6650 /\ (j.width = 0 \/ j.width = 332)
    BY SMT, <1>2 DEF NoJob, HvJob, EdgeJob, Job
  <2> QED BY SMT, <2>1, Limits
<1> QED BY Zenon, <1>1, <1>2 DEF Jobs

\* Its flags; and a machining slice that is not to run has no pulse.
LEMMA JobFlags ==
    ASSUME NEW j \in Jobs
    PROVE  /\ j.main \in BOOLEAN /\ j.hv \in BOOLEAN /\ j.sane \in BOOLEAN
           /\ ~j.main => j.width = 0
<1>1. CASE j \in IsoJobs
  <2>1. PICK p \in Requests : \E h \in Halves(p.freq) : \E w \in Widths(h, p.duty) :
            j = Job(h, w, TRUE, TRUE, Sane(p))
    BY Zenon, <1>1, IsoJobOrigin
  <2>2. PICK h \in Halves(p.freq) : \E w \in Widths(h, p.duty) :
            j = Job(h, w, TRUE, TRUE, Sane(p))
    BY Zenon, <2>1
  <2>3. PICK w \in Widths(h, p.duty) : j = Job(h, w, TRUE, TRUE, Sane(p))
    BY Zenon, <2>2
  <2>4. j.sane = Sane(p) /\ j.main = TRUE /\ j.hv = TRUE
    BY Zenon, <2>3 DEF Job
  <2> QED BY Zenon, <2>4 DEF Sane
<1>2. CASE j = NoJob
  <2>1. j.main = FALSE /\ j.hv = FALSE /\ j.sane = TRUE /\ j.width = 0
    BY SMT, <1>2 DEF NoJob, Job
  <2> QED BY Zenon, <2>1
<1>3. CASE j = HvJob
  <2>1. j.main = FALSE /\ j.hv = TRUE /\ j.sane = TRUE /\ j.width = 0
    BY SMT, <1>3 DEF HvJob, Job
  <2> QED BY Zenon, <2>1
<1>4. CASE j = EdgeJob
  <2>1. j.main = TRUE /\ j.hv = FALSE /\ j.sane = TRUE
    BY SMT, <1>4 DEF EdgeJob, Job
  <2> QED BY Zenon, <2>1
<1> QED BY Zenon, <1>1, <1>2, <1>3, <1>4 DEF Jobs

\* The registers of a job whose pulse was told in numbers.
InRange(j) ==
    /\ j.half \in Nat /\ j.half >= 6650 /\ j.half <= 13300
    /\ j.width \in Nat /\ 100 * j.width <= 12 * j.half

LEMMA JobRange ==
    ASSUME NEW j \in Jobs, j.sane
    PROVE  InRange(j) /\ (j.main => j.width >= 66)
<1>1. CASE j \in IsoJobs
  <2>1. PICK p \in Requests : \E h \in Halves(p.freq) : \E w \in Widths(h, p.duty) :
            /\ j = Job(h, w, TRUE, TRUE, Sane(p))
            /\ p.freq = NaN \/ p.freq \in MinFreq..MaxFreq
            /\ p.duty = NaN \/ p.duty \in MinDuty..MaxDuty
    BY Zenon, <1>1, IsoJobOrigin
  <2>2. PICK h \in Halves(p.freq) : \E w \in Widths(h, p.duty) :
            j = Job(h, w, TRUE, TRUE, Sane(p))
    BY Zenon, <2>1
  <2>3. PICK w \in Widths(h, p.duty) : j = Job(h, w, TRUE, TRUE, Sane(p))
    BY Zenon, <2>2
  <2>4. Sane(p) /\ j.half = h /\ j.width = w
    BY Zenon, <2>3 DEF Job
  <2>5. p.freq # NaN /\ p.duty # NaN
    BY Zenon, <2>4 DEF Sane
  <2>6. p.freq \in MinFreq..MaxFreq /\ p.duty \in MinDuty..MaxDuty
    BY Zenon, <2>1, <2>5
  <2>7. h = Half(p.freq) /\ w = (h * p.duty) \div 1000
    BY SMT, <2>5 DEF Halves, Widths
  <2>8. Half(p.freq) \in Nat /\ Half(p.freq) >= 6650 /\ Half(p.freq) <= 13300
    BY SMT, <2>6, HalfRange
  <2>9. h \in Nat /\ h >= 6650 /\ h <= 13300 /\ h \in 1..MaxCount
    BY SMT, <2>7, <2>8, Limits
  <2>10. w \in Nat /\ 100 * w <= 12 * h /\ w >= 66
    BY SMT, <2>6, <2>7, <2>9, WidthRange, Limits
  <2> QED BY SMT, <2>4, <2>9, <2>10 DEF InRange
<1>2. CASE j \in {NoJob, HvJob, EdgeJob}
  <2>1. j.half = 6650 /\ (j.width = 0 \/ j.width = 332)
    BY SMT, <1>2 DEF NoJob, HvJob, EdgeJob, Job
  <2>2. InRange(j)
    BY SMT, <2>1 DEF InRange
  <2>3. j.width >= 66 \/ j.main = FALSE
    BY SMT, <1>2 DEF NoJob, HvJob, EdgeJob, Job
  <2> QED BY Zenon, <2>2, <2>3
<1> QED BY Zenon, <1>1, <1>2 DEF Jobs

\* The offset is a quarter of the half period, rounded down.
LEMMA OffsetRange ==
    ASSUME NEW j \in Jobs
    PROVE  /\ Offset(j) \in Nat /\ 4 * Offset(j) <= j.half /\ j.half < 4 * Offset(j) + 4
           /\ HvLevel(j) = 0 \/ (j.hv /\ HvLevel(j) = 66)
<1>1. j.half \in Nat
  BY SMT, JobNumbers, Limits
<1>2. HvLevel(j) = 0 \/ (j.hv /\ HvLevel(j) = 66)
  BY SMT, JobFlags DEF HvLevel
<1> QED BY SMT, <1>1, <1>2 DEF Offset

\* Turning leads to a position on the circle; less than a whole turn either
\* leaves the position alone or takes one turn off.
LEMMA TurnRange ==
    ASSUME NEW h \in Nat \ {0}, NEW u \in Int
    PROVE  /\ Turn(h, u) \in Int /\ Abs(Turn(h, u)) <= h
           /\ 0 <= u /\ u <= h => Turn(h, u) = u
           /\ h < u /\ u < 2 * h => Turn(h, u) = u - 2 * h
           /\ 0 - h < u /\ u < 0 => Turn(h, u) = u
<1> DEFINE d == u % (2 * h)
<1>1. d \in 0..(2 * h - 1)
  BY SMT
<1>2. 0 <= u /\ u < 2 * h => d = u
  BY SMT
<1>3. 0 - h < u /\ u < 0 => d = u + 2 * h
  <2> SUFFICES ASSUME 0 - h < u, u < 0 PROVE d = u + 2 * h
    BY SMT
  <2>1. (u + 2 * h) % (2 * h) = u + 2 * h
    BY SMT
  <2>2. u = (2 * h) * (0 - 1) + (u + 2 * h)
    BY SMT
  <2> QED BY SMT, <2>1, <2>2
<1>4. Turn(h, u) = IF d <= h THEN d ELSE d - 2 * h
  BY SMT DEF Turn
<1> HIDE DEF d
<1> QED BY SMT, <1>1, <1>2, <1>3, <1>4 DEF Abs

(***************************************************************************)
(* The inductive invariant, one conjunct at a time.  The Boolean variables *)
(* go to Zenon, the rest to SMT.                                           *)
(***************************************************************************)

\* No write turns one of the flags into something else.
LEMMA FlagsStep == ASSUME FlagsOK, [Next]_vars PROVE FlagsOK'
<1> USE DEF FlagsOK, software, slices, hardware
<1>1. CASE GivePad("hv_pad", "HV", "pwm", "en_pad")
  BY Zenon, <1>1 DEF GivePad
<1>2. CASE GivePad("en_pad", "EN", "pwm", "hc_pad")
  BY Zenon, <1>2 DEF GivePad
<1>3. CASE GivePad("hc_pad", "HC", "pwm", "oc_pad")
  BY Zenon, <1>3 DEF GivePad
<1>4. CASE GivePad("oc_pad", "OC", "pwm", "polarity")
  BY Zenon, <1>4 DEF GivePad
<1>5. CASE Polarity
  BY Zenon, <1>5 DEF Polarity
<1>6. CASE StopMain
  BY Zenon, <1>6 DEF StopMain
<1>7. CASE StopHv
  BY Zenon, <1>7 DEF StopHv
<1>8. CASE SetLevel("level_en", "EN", job.width, "level_hc")
  BY Zenon, <1>8 DEF SetLevel
<1>9. CASE SetLevel("level_hc", "HC", job.width, "level_hv")
  BY Zenon, <1>9 DEF SetLevel
<1>10. CASE SetLevel("level_hv", "HV", HvLevel(job), "counter_main")
  BY Zenon, <1>10 DEF SetLevel
<1>11. CASE CounterMain
  BY Zenon, <1>11 DEF CounterMain
<1>12. CASE CounterHv
  BY Zenon, <1>12 DEF CounterHv
<1>13. CASE Start("start_main", "main", job.main, "start_hv")
  BY Zenon, <1>13 DEF Start
<1>14. CASE Start("start_hv", "hv", job.hv, back)
  BY Zenon, <1>14 DEF Start
<1>15. CASE CutStep
  BY Zenon, <1>15 DEF CutStep, GivePad
<1>16. CASE Calibrated
  BY Zenon, <1>16 DEF Calibrated
<1>17. CASE HandleFault
  BY Zenon, <1>17 DEF HandleFault, BeginCut
<1>18. CASE BeginIteration
  BY Zenon, <1>18 DEF BeginIteration
<1>19. CASE Prepare
  BY Zenon, <1>19 DEF Prepare, BeginSetup, ModeJobs, Jobs
<1>20. CASE Cut
  BY Zenon, <1>20 DEF Cut, BeginCut
<1>21. CASE TripInLoop
  BY Zenon, <1>21 DEF TripInLoop, BeginCut
<1>22. CASE RaiseFlag
  BY Zenon, <1>22 DEF RaiseFlag
<1>23. CASE EndIteration
  BY Zenon, <1>23 DEF EndIteration
<1>24. CASE ModeCommand
  BY Zenon, <1>24 DEF ModeCommand, BeginCut
<1>25. CASE SetMode
  BY Zenon, <1>25 DEF SetMode
<1>26. CASE RecoveryMode
  BY Zenon, <1>26 DEF RecoveryMode
<1>27. CASE Reported
  BY Zenon, <1>27 DEF Reported
<1>28. CASE Recovered
  BY Zenon, <1>28 DEF Recovered
<1>29. CASE Trip
  BY Zenon, <1>29 DEF Trip, SafeOff, Delay
<1>30. CASE Contact
  BY Zenon, <1>30 DEF Contact, SafeOff, Delay
<1>31. CASE Discharge
  BY Zenon, <1>31 DEF Discharge, Delay
<1>32. CASE UNCHANGED vars
  BY Zenon, <1>32 DEF vars
<1> QED BY <1>1, <1>2, <1>3, <1>4, <1>5, <1>6, <1>7, <1>8, <1>9, <1>10, <1>11,
   <1>12, <1>13, <1>14, <1>15, <1>16, <1>17, <1>18, <1>19, <1>20, <1>21,
   <1>22, <1>23, <1>24, <1>25, <1>26, <1>27, <1>28, <1>29, <1>30, <1>31, <1>32
   DEF Next, SetupStep, Caller, Interrupt

\* Nor any other variable.
LEMMA ValuesStep == ASSUME ValuesOK, [Next]_vars PROVE ValuesOK'
<1> USE DEF ValuesOK, Pads, Switches, Slices, Modes, SetupPoints, CutPoints,
   RestPoints, software, slices, hardware
<1>1. CASE GivePad("hv_pad", "HV", "pwm", "en_pad")
  BY SMT, <1>1 DEF GivePad
<1>2. CASE GivePad("en_pad", "EN", "pwm", "hc_pad")
  BY SMT, <1>2 DEF GivePad
<1>3. CASE GivePad("hc_pad", "HC", "pwm", "oc_pad")
  BY SMT, <1>3 DEF GivePad
<1>4. CASE GivePad("oc_pad", "OC", "pwm", "polarity")
  BY SMT, <1>4 DEF GivePad
<1>5. CASE Polarity
  BY SMT, <1>5 DEF Polarity
<1>6. CASE StopMain
  <2>1. running' \in [Slices -> BOOLEAN]
    BY Zenon, <1>6 DEF StopMain
  <2>2. program.half \in Nat \ {0}
    BY SMT, JobNumbers, Limits
  <2>3. PICK t \in StopTimes :
          at' = [s \in Slices |->
                   CASE ~running[s]               -> at[s]
                     [] running[s] /\ s = "main" -> t
                     [] OTHER -> Turn(program.half, t + Offset(program) - lag)]
    BY Zenon, <1>6 DEF StopMain
  <2>4. t \in Int /\ lag \in Int
    BY SMT, TimingAssumption
  <2>5. t + Offset(program) - lag \in Int
    BY SMT, <2>4, OffsetRange
  <2>6. Turn(program.half, t + Offset(program) - lag) \in Int
    BY Zenon, <2>2, <2>5, TurnRange
  <2>7. at' \in [Slices -> Int]
    BY SMT, <2>3, <2>4, <2>6
  <2> QED BY SMT, <1>6, <2>1, <2>7 DEF StopMain
<1>7. CASE StopHv
  <2>1. running' \in [Slices -> BOOLEAN]
    BY Zenon, <1>7 DEF StopHv
  <2>2. program.half \in Nat \ {0}
    BY SMT, JobNumbers, Limits
  <2>3. at["hv"] + wait \in Int
    BY SMT, TimingAssumption
  <2>4. Turn(program.half, at["hv"] + wait) \in Int
    BY Zenon, <2>2, <2>3, TurnRange
  <2> QED BY SMT, <1>7, <2>1, <2>4, TimingAssumption DEF StopHv
<1>8. CASE SetLevel("level_en", "EN", job.width, "level_hc")
  <2>1. job.width \in 0..MaxCount
    BY SMT, JobNumbers
  <2> QED BY SMT, <1>8, <2>1 DEF SetLevel
<1>9. CASE SetLevel("level_hc", "HC", job.width, "level_hv")
  <2>1. job.width \in 0..MaxCount
    BY SMT, JobNumbers
  <2> QED BY SMT, <1>9, <2>1 DEF SetLevel
<1>10. CASE SetLevel("level_hv", "HV", HvLevel(job), "counter_main")
  <2>1. HvLevel(job) \in 0..MaxCount
    BY SMT, OffsetRange, Limits
  <2> QED BY SMT, <1>10, <2>1 DEF SetLevel
<1>11. CASE CounterMain
  BY SMT, <1>11 DEF CounterMain
<1>12. CASE CounterHv
  <2>1. Offset(job) \in Int
    BY SMT, OffsetRange
  <2> QED BY SMT, <1>12, <2>1, TimingAssumption DEF CounterHv
<1>13. CASE Start("start_main", "main", job.main, "start_hv")
  <2>1. running' \in [Slices -> BOOLEAN]
    BY Zenon, <1>13, JobFlags DEF Start
  <2> QED BY <1>13, <2>1 DEF Start
<1>14. CASE Start("start_hv", "hv", job.hv, back)
  <2>1. running' \in [Slices -> BOOLEAN]
    BY Zenon, <1>14, JobFlags DEF Start
  <2> QED BY <1>14, <2>1 DEF Start
<1>15. CASE CutStep
  BY SMT, <1>15 DEF CutStep, GivePad
<1>16. CASE Calibrated
  BY SMT, <1>16 DEF Calibrated
<1>17. CASE HandleFault
  BY SMT, <1>17 DEF HandleFault, BeginCut
<1>18. CASE BeginIteration
  BY SMT, <1>18 DEF BeginIteration
<1>19. CASE Prepare
  <2>1. job' \in Jobs
    BY Zenon, <1>19 DEF Prepare, BeginSetup, ModeJobs, Jobs
  <2> QED BY SMT, <1>19, <2>1 DEF Prepare, BeginSetup
<1>20. CASE Cut
  BY SMT, <1>20 DEF Cut, BeginCut
<1>21. CASE TripInLoop
  BY SMT, <1>21 DEF TripInLoop, BeginCut
<1>22. CASE RaiseFlag
  BY SMT, <1>22 DEF RaiseFlag
<1>23. CASE EndIteration
  BY SMT, <1>23 DEF EndIteration
<1>24. CASE ModeCommand
  BY SMT, <1>24 DEF ModeCommand, BeginCut
<1>25. CASE SetMode
  BY SMT, <1>25 DEF SetMode
<1>26. CASE RecoveryMode
  BY SMT, <1>26 DEF RecoveryMode
<1>27. CASE Reported
  BY SMT, <1>27 DEF Reported
<1>28. CASE Recovered
  BY SMT, <1>28 DEF Recovered
<1>29. CASE Trip
  <2>1. lag' \in 0..MaxLag /\ wait' \in 0..MaxLag
    BY SMT, <1>29, TimingAssumption DEF Trip, Delay
  <2> QED BY SMT, <1>29, <2>1 DEF Trip, SafeOff
<1>30. CASE Contact
  <2>1. lag' \in 0..MaxLag /\ wait' \in 0..MaxLag
    BY SMT, <1>30, TimingAssumption DEF Contact, Delay
  <2> QED BY SMT, <1>30, <2>1 DEF Contact, SafeOff
<1>31. CASE Discharge
  <2>1. lag' \in 0..MaxLag /\ wait' \in 0..MaxLag
    BY SMT, <1>31, TimingAssumption DEF Discharge, Delay
  <2> QED BY SMT, <1>31, <2>1 DEF Discharge
<1>32. CASE UNCHANGED vars
  BY SMT, <1>32 DEF vars
<1> QED BY <1>1, <1>2, <1>3, <1>4, <1>5, <1>6, <1>7, <1>8, <1>9, <1>10, <1>11,
   <1>12, <1>13, <1>14, <1>15, <1>16, <1>17, <1>18, <1>19, <1>20, <1>21,
   <1>22, <1>23, <1>24, <1>25, <1>26, <1>27, <1>28, <1>29, <1>30, <1>31, <1>32
   DEF Next, SetupStep, Caller, Interrupt

\* From here on the steps that leave the slices alone are of two kinds: those
\* outside the part of a set-up that writes them, and the interrupts.
Writing == LevelPoints \cup {"stop_hv", "counter_hv", "start_main", "start_hv"}

Quiet ==
    /\ UNCHANGED slices
    /\ (pc \notin Writing /\ pc' \notin Writing) \/ UNCHANGED <<pc, job>>

Interrupted ==
    /\ UNCHANGED <<pc, job, program, running, level, at>>
    /\ lag' >= lag /\ wait' >= wait
    /\ lag' # lag => pc = "start_hv"
    /\ wait' # wait => pc = "stop_hv"

WritingStep ==
    \/ StopMain \/ StopHv \/ CounterMain \/ CounterHv
    \/ SetLevel("level_en", "EN", job.width, "level_hc")
    \/ SetLevel("level_hc", "HC", job.width, "level_hv")
    \/ SetLevel("level_hv", "HV", HvLevel(job), "counter_main")
    \/ Start("start_main", "main", job.main, "start_hv")
    \/ Start("start_hv", "hv", job.hv, back)

\* Every step is of one of the kinds.
LEMMA Kinds == ASSUME IInv, [Next]_vars PROVE Quiet \/ Interrupted \/ WritingStep
<1> USE DEF IInv, TypeOK, ValuesOK, SetupPoints, CutPoints, RestPoints, LevelPoints,
   Writing, Quiet, software, slices, hardware
<1>1. CASE GivePad("hv_pad", "HV", "pwm", "en_pad")
  BY SMT, <1>1 DEF GivePad
<1>2. CASE GivePad("en_pad", "EN", "pwm", "hc_pad")
  BY SMT, <1>2 DEF GivePad
<1>3. CASE GivePad("hc_pad", "HC", "pwm", "oc_pad")
  BY SMT, <1>3 DEF GivePad
<1>4. CASE GivePad("oc_pad", "OC", "pwm", "polarity")
  BY SMT, <1>4 DEF GivePad
<1>5. CASE Polarity
  BY SMT, <1>5 DEF Polarity
<1>6. CASE CutStep
  BY SMT, <1>6 DEF CutStep, GivePad
<1>7. CASE Calibrated
  BY SMT, <1>7 DEF Calibrated
<1>8. CASE HandleFault
  BY SMT, <1>8 DEF HandleFault, BeginCut
<1>9. CASE BeginIteration
  BY SMT, <1>9 DEF BeginIteration
<1>10. CASE Prepare
  BY SMT, <1>10 DEF Prepare, BeginSetup, ModeJobs, Jobs
<1>11. CASE Cut
  BY SMT, <1>11 DEF Cut, BeginCut
<1>12. CASE TripInLoop
  BY SMT, <1>12 DEF TripInLoop, BeginCut
<1>13. CASE RaiseFlag
  BY SMT, <1>13 DEF RaiseFlag
<1>14. CASE EndIteration
  BY SMT, <1>14 DEF EndIteration
<1>15. CASE ModeCommand
  BY SMT, <1>15 DEF ModeCommand, BeginCut
<1>16. CASE SetMode
  BY SMT, <1>16 DEF SetMode
<1>17. CASE RecoveryMode
  BY SMT, <1>17 DEF RecoveryMode
<1>18. CASE Reported
  BY SMT, <1>18 DEF Reported
<1>19. CASE Recovered
  BY SMT, <1>19 DEF Recovered
<1>20. CASE Trip
  BY SMT, <1>20, TimingAssumption DEF Trip, Delay, Interrupted
<1>21. CASE Contact
  BY SMT, <1>21, TimingAssumption DEF Contact, Delay, Interrupted
<1>22. CASE Discharge
  BY SMT, <1>22, TimingAssumption DEF Discharge, Delay, Interrupted
<1>23. CASE UNCHANGED vars
  BY SMT, <1>23 DEF vars
<1> QED BY Zenon, <1>1, <1>2, <1>3, <1>4, <1>5, <1>6, <1>7, <1>8, <1>9, <1>10,
   <1>11, <1>12, <1>13, <1>14, <1>15, <1>16, <1>17, <1>18, <1>19, <1>20,
   <1>21, <1>22, <1>23 DEF Next, SetupStep, Caller, Interrupt, WritingStep

\* A slice stops on its circle, and is set on it.
LEMMA CircleStep == ASSUME IInv, [Next]_vars PROVE OnCircle'
<1> USE DEF IInv, TypeOK, ValuesOK, Switches, Slices, LevelPoints, Writing,
   OnCircle
<1>1. CASE Quiet
  BY SMT, <1>1 DEF Quiet, slices
<1>2. CASE Interrupted
  BY SMT, <1>2 DEF Interrupted
<1>3. CASE StopMain
  <2>1. program.half \in Nat \ {0}
    BY SMT, JobNumbers, Limits
  <2>2. PICK t \in StopTimes : Abs(t) <= program.half /\
          at' = [s \in Slices |->
                   CASE ~running[s]               -> at[s]
                     [] running[s] /\ s = "main" -> t
                     [] OTHER -> Turn(program.half, t + Offset(program) - lag)]
    BY Zenon, <1>3 DEF StopMain
  <2>3. t \in Int /\ lag \in Int /\ Offset(program) \in Int
    BY SMT, TimingAssumption, OffsetRange
  <2>4. t + Offset(program) - lag \in Int
    BY SMT, <2>3
  <2>5. Abs(Turn(program.half, t + Offset(program) - lag)) <= program.half
    BY Zenon, <2>1, <2>4, TurnRange
  <2> QED BY SMT, <1>3, <2>2, <2>5 DEF StopMain
<1>4. CASE StopHv
  <2>1. program.half \in Nat \ {0}
    BY SMT, JobNumbers, Limits
  <2>2. at["hv"] + wait \in Int
    BY SMT, TimingAssumption
  <2>3. Abs(Turn(program.half, at["hv"] + wait)) <= program.half
    BY Zenon, <2>1, <2>2, TurnRange
  <2> QED BY SMT, <1>4, <2>3 DEF StopHv
<1>5. CASE SetLevel("level_en", "EN", job.width, "level_hc")
  BY SMT, <1>5 DEF SetLevel
<1>6. CASE SetLevel("level_hc", "HC", job.width, "level_hv")
  BY SMT, <1>6 DEF SetLevel
<1>7. CASE SetLevel("level_hv", "HV", HvLevel(job), "counter_main")
  BY SMT, <1>7 DEF SetLevel
<1>8. CASE CounterMain
  <2>1. Abs(0) <= program.half
    BY SMT, JobNumbers, Limits DEF Abs
  <2> QED BY SMT, <1>8, <2>1 DEF CounterMain
<1>9. CASE CounterHv
  <2>1. at["main"] = 0
    BY <1>9 DEF CounterHv, StoppedApart
  <2>2. Abs(0) <= job.half /\ Abs(Offset(job)) <= job.half
    BY SMT, JobNumbers, OffsetRange, Limits DEF Abs
  <2> QED BY SMT, <1>9, <2>1, <2>2 DEF CounterHv
<1>10. CASE Start("start_main", "main", job.main, "start_hv")
  BY SMT, <1>10 DEF Start
<1>11. CASE Start("start_hv", "hv", job.hv, back)
  BY SMT, <1>11 DEF Start
<1> QED BY Kinds, <1>1, <1>2, <1>3, <1>4, <1>5, <1>6, <1>7, <1>8, <1>9, <1>10,
   <1>11 DEF WritingStep

\* The set-up writes in order, and interrupts undo none of what it needs.
LEMMA SetupProgressStep == ASSUME IInv, [Next]_vars PROVE SetupProgress'
<1> USE DEF IInv, TypeOK, ValuesOK, SetupProgress, PadPoints, Pads, Switches,
   Slices, SetupPoints, CutPoints, RestPoints, software, slices, hardware
<1>1. CASE GivePad("hv_pad", "HV", "pwm", "en_pad")
  BY SMT, <1>1 DEF GivePad
<1>2. CASE GivePad("en_pad", "EN", "pwm", "hc_pad")
  BY SMT, <1>2 DEF GivePad
<1>3. CASE GivePad("hc_pad", "HC", "pwm", "oc_pad")
  BY SMT, <1>3 DEF GivePad
<1>4. CASE GivePad("oc_pad", "OC", "pwm", "polarity")
  BY SMT, <1>4 DEF GivePad
<1>5. CASE Polarity
  BY SMT, <1>5 DEF Polarity
<1>6. CASE StopMain
  BY SMT, <1>6 DEF StopMain
<1>7. CASE StopHv
  BY SMT, <1>7 DEF StopHv
<1>8. CASE SetLevel("level_en", "EN", job.width, "level_hc")
  BY SMT, <1>8 DEF SetLevel
<1>9. CASE SetLevel("level_hc", "HC", job.width, "level_hv")
  BY SMT, <1>9 DEF SetLevel
<1>10. CASE SetLevel("level_hv", "HV", HvLevel(job), "counter_main")
  BY SMT, <1>10 DEF SetLevel
<1>11. CASE CounterMain
  BY SMT, <1>11 DEF CounterMain
<1>12. CASE CounterHv
  BY SMT, <1>12 DEF CounterHv
<1>13. CASE Start("start_main", "main", job.main, "start_hv")
  BY SMT, <1>13 DEF Start
<1>14. CASE Start("start_hv", "hv", job.hv, back)
  BY SMT, <1>14 DEF Start
<1>15. CASE CutStep
  BY SMT, <1>15 DEF CutStep, GivePad
<1>16. CASE Calibrated
  BY SMT, <1>16 DEF Calibrated
<1>17. CASE HandleFault
  BY SMT, <1>17 DEF HandleFault, BeginCut
<1>18. CASE BeginIteration
  BY SMT, <1>18 DEF BeginIteration
<1>19. CASE Prepare
  BY SMT, <1>19 DEF Prepare, BeginSetup, ModeJobs, Jobs
<1>20. CASE Cut
  BY SMT, <1>20 DEF Cut, BeginCut
<1>21. CASE TripInLoop
  BY SMT, <1>21 DEF TripInLoop, BeginCut
<1>22. CASE RaiseFlag
  BY SMT, <1>22 DEF RaiseFlag
<1>23. CASE EndIteration
  BY SMT, <1>23 DEF EndIteration
<1>24. CASE ModeCommand
  BY SMT, <1>24 DEF ModeCommand, BeginCut
<1>25. CASE SetMode
  BY SMT, <1>25 DEF SetMode
<1>26. CASE RecoveryMode
  BY SMT, <1>26 DEF RecoveryMode
<1>27. CASE Reported
  BY SMT, <1>27 DEF Reported
<1>28. CASE Recovered
  BY SMT, <1>28 DEF Recovered
<1>29. CASE Trip
  BY SMT, <1>29, TimingAssumption DEF Trip, SafeOff, Delay
<1>30. CASE Contact
  BY SMT, <1>30, TimingAssumption DEF Contact, SafeOff, Delay
<1>31. CASE Discharge
  BY SMT, <1>31, TimingAssumption DEF Discharge, Delay
<1>32. CASE UNCHANGED vars
  BY SMT, <1>32 DEF vars
<1> QED BY <1>1, <1>2, <1>3, <1>4, <1>5, <1>6, <1>7, <1>8, <1>9, <1>10, <1>11,
   <1>12, <1>13, <1>14, <1>15, <1>16, <1>17, <1>18, <1>19, <1>20, <1>21,
   <1>22, <1>23, <1>24, <1>25, <1>26, <1>27, <1>28, <1>29, <1>30, <1>31, <1>32
   DEF Next, SetupStep, Caller, Interrupt

\* The slices are stopped and started in order.
LEMMA SlicesProgressStep == ASSUME IInv, [Next]_vars PROVE SlicesProgress'
<1> USE DEF IInv, TypeOK, ValuesOK, Switches, Slices, LevelPoints, Writing,
   SlicesProgress
<1>1. CASE Quiet
  BY SMT, <1>1 DEF Quiet, slices
<1>2. CASE Interrupted
  BY SMT, <1>2 DEF Interrupted
<1>3. CASE StopMain
  BY SMT, <1>3 DEF StopMain
<1>4. CASE StopHv
  BY SMT, <1>4 DEF StopHv
<1>5. CASE SetLevel("level_en", "EN", job.width, "level_hc")
  BY SMT, <1>5 DEF SetLevel
<1>6. CASE SetLevel("level_hc", "HC", job.width, "level_hv")
  BY SMT, <1>6 DEF SetLevel
<1>7. CASE SetLevel("level_hv", "HV", HvLevel(job), "counter_main")
  BY SMT, <1>7 DEF SetLevel
<1>8. CASE CounterMain
  BY SMT, <1>8 DEF CounterMain
<1>9. CASE CounterHv
  BY SMT, <1>9 DEF CounterHv
<1>10. CASE Start("start_main", "main", job.main, "start_hv")
  <2>1. program = job /\ pc = "start_main" /\ pc' = "start_hv"
    BY SMT, <1>10 DEF Start, SetupProgress
  <2>2. running'["main"] = job.main /\ running'["hv"] = running["hv"] /\ program' = program
    BY Zenon, <1>10 DEF Start
  <2>3. ~running["hv"]
    BY SMT, <2>1
  <2>4. pc' \notin LevelPoints \cup {"stop_hv", "counter_hv", "start_main"}
    BY SMT, <2>1
  <2> QED BY Zenon, <2>1, <2>2, <2>3, <2>4
<1>11. CASE Start("start_hv", "hv", job.hv, back)
  <2>1. program = job /\ pc = "start_hv" /\ pc' \notin SetupPoints
    BY SMT, <1>11 DEF Start, SetupProgress, SetupPoints, RestPoints
  <2>2. running'["hv"] = job.hv /\ running'["main"] = running["main"] /\ program' = program
    BY Zenon, <1>11 DEF Start
  <2>3. running["main"] <=> program.main
    BY SMT, <2>1
  <2>4. pc' \notin LevelPoints \cup {"stop_hv", "counter_hv", "start_main", "start_hv"}
    BY SMT, <2>1 DEF SetupPoints
  <2> QED BY Zenon, <2>1, <2>2, <2>3, <2>4
<1> QED BY Kinds, <1>1, <1>2, <1>3, <1>4, <1>5, <1>6, <1>7, <1>8, <1>9, <1>10,
   <1>11 DEF WritingStep

\* The levels are those of the new job as soon as they are written.
LEMMA LevelsProgressStep == ASSUME IInv, [Next]_vars PROVE LevelsProgress'
<1> USE DEF IInv, TypeOK, ValuesOK, Switches, Slices, LevelPoints, Writing,
   LevelsProgress, Written
<1>1. CASE Quiet
  BY SMT, <1>1 DEF Quiet, slices
<1>2. CASE Interrupted
  BY SMT, <1>2 DEF Interrupted
<1>3. CASE StopMain
  BY SMT, <1>3 DEF StopMain
<1>4. CASE StopHv
  BY SMT, <1>4 DEF StopHv
<1>5. CASE SetLevel("level_en", "EN", job.width, "level_hc")
  BY SMT, <1>5 DEF SetLevel
<1>6. CASE SetLevel("level_hc", "HC", job.width, "level_hv")
  BY SMT, <1>6 DEF SetLevel
<1>7. CASE SetLevel("level_hv", "HV", HvLevel(job), "counter_main")
  BY SMT, <1>7 DEF SetLevel
<1>8. CASE CounterMain
  BY SMT, <1>8 DEF CounterMain
<1>9. CASE CounterHv
  <2>1. program' = job /\ UNCHANGED <<level, job>> /\ pc = "counter_hv" /\ pc' = "start_main"
    BY SMT, <1>9 DEF CounterHv
  <2>2. level["EN"] = job.width /\ level["HC"] = job.width /\ level["HV"] = HvLevel(job)
    BY SMT, <2>1
  <2> QED BY SMT, <2>1, <2>2
<1>10. CASE Start("start_main", "main", job.main, "start_hv")
  BY SMT, <1>10 DEF Start
<1>11. CASE Start("start_hv", "hv", job.hv, back)
  <2>1. back \in {"calibrate", "body"} /\ pc = "start_hv" /\ pc' = back
    BY SMT, <1>11 DEF Start, SetupProgress, SetupPoints
  <2> QED BY SMT, <1>11, <2>1 DEF Start
<1> QED BY Kinds, <1>1, <1>2, <1>3, <1>4, <1>5, <1>6, <1>7, <1>8, <1>9, <1>10,
   <1>11 DEF WritingStep

\* The offset keeps a stopped pair apart at the widest pulse and the smallest
\* offset, 1596 and 66 ticks against 1662, and no interrupt between the stops
\* is long enough for the second slice to come round.
LEMMA StoppedApartStep == ASSUME IInv, [Next]_vars PROVE StoppedApart'
<1> USE DEF IInv, TypeOK, ValuesOK, Switches, Slices, LevelPoints, Writing,
   StoppedApart
<1>1. CASE Quiet
  BY SMT, <1>1 DEF Quiet, slices
<1>2. CASE Interrupted
  BY SMT, <1>2 DEF Interrupted
<1>3. CASE StopMain
  <2>1. PICK t \in StopTimes :
          at' = [s \in Slices |->
                   CASE ~running[s]               -> at[s]
                     [] running[s] /\ s = "main" -> t
                     [] OTHER -> Turn(program.half, t + Offset(program) - lag)]
    BY Zenon, <1>3 DEF StopMain
  <2>2. pc = "stop_main" /\ pc' = "stop_hv" /\ UNCHANGED <<program, lag>>
    BY SMT, <1>3 DEF StopMain
  <2>3. SUFFICES ASSUME program.main, program.sane, lag = 0, Abs(at'["main"]) < MaxWidth
                 PROVE  at'["hv"] = Offset(program) + IF program.hv THEN at'["main"] ELSE 0
    BY SMT, <2>2
  <2>4. running["main"] /\ (running["hv"] <=> program.hv)
    BY SMT, <2>2, <2>3 DEF SlicesProgress
  <2>5. at'["main"] = t
    BY SMT, <2>1, <2>4
  <2>6. CASE ~program.hv
    BY SMT, <2>1, <2>2, <2>3, <2>4, <2>6
  <2>7. CASE program.hv
    <3>1. at'["hv"] = Turn(program.half, t + Offset(program) - lag)
      BY SMT, <2>1, <2>4, <2>7
    <3>2. t \in Int /\ t < 1596 /\ t > 0 - 1596
      BY SMT, <2>3, <2>5, TimingAssumption DEF Abs, MaxWidth
    <3>3. /\ program.half \in Nat \ {0}
          /\ t + Offset(program) - lag = t + Offset(program)
          /\ 0 <= t + Offset(program) /\ t + Offset(program) <= program.half
      BY SMT, <2>3, <3>2, JobRange, OffsetRange DEF InRange
    <3>4. Turn(program.half, t + Offset(program)) = t + Offset(program)
      <4> DEFINE u == t + Offset(program)
      <4>1. u \in Int /\ 0 <= u /\ u <= program.half
        BY SMT, <3>2, <3>3, OffsetRange
      <4> HIDE DEF u
      <4>2. Turn(program.half, u) = u
        BY SMT, <3>3, <4>1, TurnRange
      <4> QED BY Zenon, <4>2 DEF u
    <3> QED BY SMT, <2>5, <2>7, <3>1, <3>2, <3>3, <3>4, OffsetRange
  <2> QED BY Zenon, <2>6, <2>7
<1>4. CASE StopHv
  <2>1. pc = "stop_hv" /\ pc' = "level_en" /\ UNCHANGED <<program, lag>>
    BY SMT, <1>4 DEF StopHv
  <2>2. at'["main"] = at["main"] /\ at'["hv"] = Turn(program.half, at["hv"] + wait)
    BY SMT, <1>4 DEF StopHv
  <2>3. SUFFICES ASSUME program.main, program.sane, lag = 0, Abs(at["main"]) < MaxWidth
                 PROVE  Abs(Turn(program.half, at["hv"] + wait)) >= 66
    BY SMT, <2>1, <2>2
  <2> DEFINE t == IF program.hv THEN at["main"] ELSE 0
             u == at["hv"] + wait
             h == program.half
  <2>4. t \in Int /\ t < 1596 /\ t > 0 - 1596
    BY SMT, <2>3 DEF Abs, MaxWidth
  <2>5. at["hv"] = Offset(program) + t
    BY SMT, <2>1, <2>3
  <2> HIDE DEF t
  <2>6. /\ h \in Nat \ {0} /\ h >= 6650
        /\ u \in Int /\ u >= 66 /\ u <= 2 * h - 66
    BY SMT, <2>3, <2>4, <2>5, JobRange, OffsetRange, TimingAssumption DEF InRange
  <2> HIDE DEF u, h
  <2>7. CASE u <= h
    <3>1. Turn(h, u) = u
      BY SMT, <2>6, <2>7, TurnRange
    <3> QED BY SMT, <2>6, <3>1 DEF Abs, u, h
  <2>8. CASE u > h
    <3>1. Turn(h, u) = u - 2 * h
      BY SMT, <2>6, <2>8, TurnRange
    <3> QED BY SMT, <2>6, <3>1 DEF Abs, u, h
  <2> QED BY SMT, <2>6, <2>7, <2>8
<1>5. CASE SetLevel("level_en", "EN", job.width, "level_hc")
  BY SMT, <1>5 DEF SetLevel
<1>6. CASE SetLevel("level_hc", "HC", job.width, "level_hv")
  BY SMT, <1>6 DEF SetLevel
<1>7. CASE SetLevel("level_hv", "HV", HvLevel(job), "counter_main")
  BY SMT, <1>7 DEF SetLevel
<1>8. CASE CounterMain
  BY SMT, <1>8 DEF CounterMain
<1>9. CASE CounterHv
  BY SMT, <1>9 DEF CounterHv
<1>10. CASE Start("start_main", "main", job.main, "start_hv")
  BY SMT, <1>10 DEF Start
<1>11. CASE Start("start_hv", "hv", job.hv, back)
  <2>1. back \in {"calibrate", "body"} /\ pc = "start_hv" /\ pc' = back
    BY SMT, <1>11 DEF Start, SetupProgress, SetupPoints
  <2> QED BY SMT, <1>11, <2>1 DEF Start
<1> QED BY Kinds, <1>1, <1>2, <1>3, <1>4, <1>5, <1>6, <1>7, <1>8, <1>9, <1>10,
   <1>11 DEF WritingStep

\* Only a trip takes a pad back during a set-up in machining mode.
LEMMA BridgeProgressStep == ASSUME IInv, [Next]_vars PROVE BridgeProgress'
<1> USE DEF IInv, TypeOK, FlagsOK, ValuesOK, BridgeProgress, WholeBridge,
   AtRest, SetupProgress, CutProgress, Pads, Switches, Modes, SetupPoints,
   CutPoints, RestPoints, software, slices, hardware
<1>1. CASE GivePad("hv_pad", "HV", "pwm", "en_pad")
  BY <1>1 DEF GivePad
<1>2. CASE GivePad("en_pad", "EN", "pwm", "hc_pad")
  BY <1>2 DEF GivePad
<1>3. CASE GivePad("hc_pad", "HC", "pwm", "oc_pad")
  BY <1>3 DEF GivePad
<1>4. CASE GivePad("oc_pad", "OC", "pwm", "polarity")
  BY <1>4 DEF GivePad
<1>5. CASE Polarity
  BY <1>5 DEF Polarity
<1>6. CASE StopMain
  BY <1>6 DEF StopMain
<1>7. CASE StopHv
  BY <1>7 DEF StopHv
<1>8. CASE SetLevel("level_en", "EN", job.width, "level_hc")
  BY <1>8 DEF SetLevel
<1>9. CASE SetLevel("level_hc", "HC", job.width, "level_hv")
  BY <1>9 DEF SetLevel
<1>10. CASE SetLevel("level_hv", "HV", HvLevel(job), "counter_main")
  BY <1>10 DEF SetLevel
<1>11. CASE CounterMain
  BY <1>11 DEF CounterMain
<1>12. CASE CounterHv
  BY <1>12 DEF CounterHv
<1>13. CASE Start("start_main", "main", job.main, "start_hv")
  BY <1>13 DEF Start
<1>14. CASE Start("start_hv", "hv", job.hv, back)
  BY <1>14 DEF Start
<1>15. CASE CutStep
  BY <1>15 DEF CutStep, GivePad
<1>16. CASE Calibrated
  BY <1>16 DEF Calibrated
<1>17. CASE HandleFault
  BY <1>17 DEF HandleFault, BeginCut
<1>18. CASE BeginIteration
  BY <1>18 DEF BeginIteration
<1>19. CASE Prepare
  BY <1>19 DEF Prepare, BeginSetup, ModeJobs, Jobs
<1>20. CASE Cut
  BY <1>20 DEF Cut, BeginCut
<1>21. CASE TripInLoop
  BY <1>21 DEF TripInLoop, BeginCut
<1>22. CASE RaiseFlag
  BY <1>22 DEF RaiseFlag
<1>23. CASE EndIteration
  BY <1>23 DEF EndIteration
<1>24. CASE ModeCommand
  BY <1>24 DEF ModeCommand, BeginCut
<1>25. CASE SetMode
  BY <1>25 DEF SetMode
<1>26. CASE RecoveryMode
  BY <1>26 DEF RecoveryMode
<1>27. CASE Reported
  BY <1>27 DEF Reported
<1>28. CASE Recovered
  BY <1>28 DEF Recovered
<1>29. CASE Trip
  BY <1>29 DEF Trip, SafeOff, Delay
<1>30. CASE Contact
  BY <1>30 DEF Contact, SafeOff, Delay
<1>31. CASE Discharge
  BY <1>31 DEF Discharge, Delay
<1>32. CASE UNCHANGED vars
  BY <1>32 DEF vars
<1> QED BY <1>1, <1>2, <1>3, <1>4, <1>5, <1>6, <1>7, <1>8, <1>9, <1>10, <1>11,
   <1>12, <1>13, <1>14, <1>15, <1>16, <1>17, <1>18, <1>19, <1>20, <1>21,
   <1>22, <1>23, <1>24, <1>25, <1>26, <1>27, <1>28, <1>29, <1>30, <1>31, <1>32
   DEF Next, SetupStep, Caller, Interrupt

\* A cut stays made until the next set-up.
LEMMA CutProgressStep == ASSUME IInv, [Next]_vars PROVE CutProgress'
<1> USE DEF IInv, TypeOK, ValuesOK, CutProgress, SetupProgress, Pads,
   Switches, SetupPoints, CutPoints, RestPoints, software, slices, hardware
<1>1. CASE GivePad("hv_pad", "HV", "pwm", "en_pad")
  BY <1>1 DEF GivePad
<1>2. CASE GivePad("en_pad", "EN", "pwm", "hc_pad")
  BY <1>2 DEF GivePad
<1>3. CASE GivePad("hc_pad", "HC", "pwm", "oc_pad")
  BY <1>3 DEF GivePad
<1>4. CASE GivePad("oc_pad", "OC", "pwm", "polarity")
  BY <1>4 DEF GivePad
<1>5. CASE Polarity
  BY <1>5 DEF Polarity
<1>6. CASE StopMain
  BY <1>6 DEF StopMain
<1>7. CASE StopHv
  BY <1>7 DEF StopHv
<1>8. CASE SetLevel("level_en", "EN", job.width, "level_hc")
  BY <1>8 DEF SetLevel
<1>9. CASE SetLevel("level_hc", "HC", job.width, "level_hv")
  BY <1>9 DEF SetLevel
<1>10. CASE SetLevel("level_hv", "HV", HvLevel(job), "counter_main")
  BY <1>10 DEF SetLevel
<1>11. CASE CounterMain
  BY <1>11 DEF CounterMain
<1>12. CASE CounterHv
  BY <1>12 DEF CounterHv
<1>13. CASE Start("start_main", "main", job.main, "start_hv")
  BY <1>13 DEF Start
<1>14. CASE Start("start_hv", "hv", job.hv, back)
  BY <1>14 DEF Start
<1>15. CASE CutStep
  BY <1>15 DEF CutStep, GivePad
<1>16. CASE Calibrated
  BY <1>16 DEF Calibrated
<1>17. CASE HandleFault
  BY <1>17 DEF HandleFault, BeginCut
<1>18. CASE BeginIteration
  BY <1>18 DEF BeginIteration
<1>19. CASE Prepare
  BY <1>19 DEF Prepare, BeginSetup, ModeJobs, Jobs
<1>20. CASE Cut
  BY <1>20 DEF Cut, BeginCut
<1>21. CASE TripInLoop
  BY <1>21 DEF TripInLoop, BeginCut
<1>22. CASE RaiseFlag
  BY <1>22 DEF RaiseFlag
<1>23. CASE EndIteration
  BY <1>23 DEF EndIteration
<1>24. CASE ModeCommand
  BY <1>24 DEF ModeCommand, BeginCut
<1>25. CASE SetMode
  BY <1>25 DEF SetMode
<1>26. CASE RecoveryMode
  BY <1>26 DEF RecoveryMode
<1>27. CASE Reported
  BY <1>27 DEF Reported
<1>28. CASE Recovered
  BY <1>28 DEF Recovered
<1>29. CASE Trip
  BY <1>29 DEF Trip, SafeOff, Delay
<1>30. CASE Contact
  BY <1>30 DEF Contact, SafeOff, Delay
<1>31. CASE Discharge
  BY <1>31 DEF Discharge, Delay
<1>32. CASE UNCHANGED vars
  BY <1>32 DEF vars
<1> QED BY <1>1, <1>2, <1>3, <1>4, <1>5, <1>6, <1>7, <1>8, <1>9, <1>10, <1>11,
   <1>12, <1>13, <1>14, <1>15, <1>16, <1>17, <1>18, <1>19, <1>20, <1>21,
   <1>22, <1>23, <1>24, <1>25, <1>26, <1>27, <1>28, <1>29, <1>30, <1>31, <1>32
   DEF Next, SetupStep, Caller, Interrupt

\* A machining job starts both slices.
LEMMA IsoJobBoth == ASSUME NEW j \in IsoJobs PROVE j.main = TRUE /\ j.hv = TRUE
<1>1. PICK p \in Requests : \E h \in Halves(p.freq) : \E w \in Widths(h, p.duty) :
         j = Job(h, w, TRUE, TRUE, Sane(p))
  BY Zenon, IsoJobOrigin
<1>2. PICK h \in Halves(p.freq) : \E w \in Widths(h, p.duty) :
         j = Job(h, w, TRUE, TRUE, Sane(p))
  BY Zenon, <1>1
<1>3. PICK w \in Widths(h, p.duty) : j = Job(h, w, TRUE, TRUE, Sane(p))
  BY Zenon, <1>2
<1> QED BY Zenon, <1>3 DEF Job

\* Pads and job of another mode do not survive the change of mode.
LEMMA MachiningHasBothStep == ASSUME IInv, [Next]_vars PROVE MachiningHasBoth'
<1> USE DEF IInv, TypeOK, ValuesOK, MachiningHasBoth, CutProgress, Pads,
   Switches, Modes, SetupPoints, CutPoints, RestPoints, software, slices,
   hardware
<1>1. CASE GivePad("hv_pad", "HV", "pwm", "en_pad")
  BY <1>1 DEF GivePad
<1>2. CASE GivePad("en_pad", "EN", "pwm", "hc_pad")
  BY <1>2 DEF GivePad
<1>3. CASE GivePad("hc_pad", "HC", "pwm", "oc_pad")
  BY <1>3 DEF GivePad
<1>4. CASE GivePad("oc_pad", "OC", "pwm", "polarity")
  BY <1>4 DEF GivePad
<1>5. CASE Polarity
  BY <1>5 DEF Polarity
<1>6. CASE StopMain
  BY <1>6 DEF StopMain
<1>7. CASE StopHv
  BY <1>7 DEF StopHv
<1>8. CASE SetLevel("level_en", "EN", job.width, "level_hc")
  BY <1>8 DEF SetLevel
<1>9. CASE SetLevel("level_hc", "HC", job.width, "level_hv")
  BY <1>9 DEF SetLevel
<1>10. CASE SetLevel("level_hv", "HV", HvLevel(job), "counter_main")
  BY <1>10 DEF SetLevel
<1>11. CASE CounterMain
  BY <1>11 DEF CounterMain
<1>12. CASE CounterHv
  BY <1>12 DEF CounterHv
<1>13. CASE Start("start_main", "main", job.main, "start_hv")
  BY <1>13 DEF Start
<1>14. CASE Start("start_hv", "hv", job.hv, back)
  BY <1>14 DEF Start
<1>15. CASE CutStep
  BY <1>15 DEF CutStep, GivePad
<1>16. CASE Calibrated
  BY <1>16 DEF Calibrated
<1>17. CASE HandleFault
  BY <1>17 DEF HandleFault, BeginCut
<1>18. CASE BeginIteration
  BY <1>18 DEF BeginIteration
<1>19. CASE Prepare
  BY <1>19, IsoJobBoth DEF Prepare, BeginSetup, ModeJobs, Jobs
<1>20. CASE Cut
  BY <1>20 DEF Cut, BeginCut
<1>21. CASE TripInLoop
  BY <1>21 DEF TripInLoop, BeginCut
<1>22. CASE RaiseFlag
  BY <1>22 DEF RaiseFlag
<1>23. CASE EndIteration
  BY <1>23 DEF EndIteration
<1>24. CASE ModeCommand
  BY <1>24 DEF ModeCommand, BeginCut
<1>25. CASE SetMode
  BY <1>25 DEF SetMode
<1>26. CASE RecoveryMode
  BY <1>26 DEF RecoveryMode
<1>27. CASE Reported
  BY <1>27 DEF Reported
<1>28. CASE Recovered
  BY <1>28 DEF Recovered
<1>29. CASE Trip
  BY <1>29 DEF Trip, SafeOff, Delay
<1>30. CASE Contact
  BY <1>30 DEF Contact, SafeOff, Delay
<1>31. CASE Discharge
  BY <1>31 DEF Discharge, Delay
<1>32. CASE UNCHANGED vars
  BY <1>32 DEF vars
<1> QED BY <1>1, <1>2, <1>3, <1>4, <1>5, <1>6, <1>7, <1>8, <1>9, <1>10, <1>11,
   <1>12, <1>13, <1>14, <1>15, <1>16, <1>17, <1>18, <1>19, <1>20, <1>21,
   <1>22, <1>23, <1>24, <1>25, <1>26, <1>27, <1>28, <1>29, <1>30, <1>31, <1>32
   DEF Next, SetupStep, Caller, Interrupt

\* A set-up or a cut that ends without a fault is whole.
LEMMA WholeBridgeStep == ASSUME IInv, [Next]_vars PROVE WholeBridge'
<1> USE DEF IInv, TypeOK, FlagsOK, ValuesOK, WholeBridge, AtRest,
   BridgeProgress, CutProgress, SetupProgress, Pads, Switches, Modes,
   SetupPoints, CutPoints, RestPoints, software, slices, hardware
<1>1. CASE GivePad("hv_pad", "HV", "pwm", "en_pad")
  BY <1>1 DEF GivePad
<1>2. CASE GivePad("en_pad", "EN", "pwm", "hc_pad")
  BY <1>2 DEF GivePad
<1>3. CASE GivePad("hc_pad", "HC", "pwm", "oc_pad")
  BY <1>3 DEF GivePad
<1>4. CASE GivePad("oc_pad", "OC", "pwm", "polarity")
  BY <1>4 DEF GivePad
<1>5. CASE Polarity
  BY <1>5 DEF Polarity
<1>6. CASE StopMain
  BY <1>6 DEF StopMain
<1>7. CASE StopHv
  BY <1>7 DEF StopHv
<1>8. CASE SetLevel("level_en", "EN", job.width, "level_hc")
  BY <1>8 DEF SetLevel
<1>9. CASE SetLevel("level_hc", "HC", job.width, "level_hv")
  BY <1>9 DEF SetLevel
<1>10. CASE SetLevel("level_hv", "HV", HvLevel(job), "counter_main")
  BY <1>10 DEF SetLevel
<1>11. CASE CounterMain
  BY <1>11 DEF CounterMain
<1>12. CASE CounterHv
  BY <1>12 DEF CounterHv
<1>13. CASE Start("start_main", "main", job.main, "start_hv")
  BY <1>13 DEF Start
<1>14. CASE Start("start_hv", "hv", job.hv, back)
  BY <1>14 DEF Start
<1>15. CASE CutStep
  BY <1>15 DEF CutStep, GivePad
<1>16. CASE Calibrated
  BY <1>16 DEF Calibrated
<1>17. CASE HandleFault
  BY <1>17 DEF HandleFault, BeginCut
<1>18. CASE BeginIteration
  BY <1>18 DEF BeginIteration
<1>19. CASE Prepare
  BY <1>19 DEF Prepare, BeginSetup, ModeJobs, Jobs
<1>20. CASE Cut
  BY <1>20 DEF Cut, BeginCut
<1>21. CASE TripInLoop
  BY <1>21 DEF TripInLoop, BeginCut
<1>22. CASE RaiseFlag
  BY <1>22 DEF RaiseFlag
<1>23. CASE EndIteration
  BY <1>23 DEF EndIteration
<1>24. CASE ModeCommand
  BY <1>24 DEF ModeCommand, BeginCut
<1>25. CASE SetMode
  BY <1>25 DEF SetMode
<1>26. CASE RecoveryMode
  BY <1>26 DEF RecoveryMode
<1>27. CASE Reported
  BY <1>27 DEF Reported
<1>28. CASE Recovered
  BY <1>28 DEF Recovered
<1>29. CASE Trip
  BY <1>29 DEF Trip, SafeOff, Delay
<1>30. CASE Contact
  BY <1>30 DEF Contact, SafeOff, Delay
<1>31. CASE Discharge
  BY <1>31 DEF Discharge, Delay
<1>32. CASE UNCHANGED vars
  BY <1>32 DEF vars
<1> QED BY <1>1, <1>2, <1>3, <1>4, <1>5, <1>6, <1>7, <1>8, <1>9, <1>10, <1>11,
   <1>12, <1>13, <1>14, <1>15, <1>16, <1>17, <1>18, <1>19, <1>20, <1>21,
   <1>22, <1>23, <1>24, <1>25, <1>26, <1>27, <1>28, <1>29, <1>30, <1>31, <1>32
   DEF Next, SetupStep, Caller, Interrupt

\* The invariant holds when the interrupts are armed.
LEMMA InitIInv == ASSUME Init PROVE IInv
<1> USE DEF Init
<1>1. FlagsOK
  BY Zenon DEF FlagsOK
<1>2. job \in Jobs /\ program \in Jobs
  BY Zenon DEF Jobs
<1>3. ValuesOK
  <2>1. level \in [Switches -> 0..MaxCount] /\ at \in [Slices -> Int]
    BY SMT, Limits
  <2>2. lag \in 0..MaxLag /\ wait \in 0..MaxLag
    BY SMT, TimingAssumption
  <2>3. running \in [Slices -> BOOLEAN]
    BY Zenon
  <2>4. pad \in [Pads -> {"sio", "pwm"}]
    BY SMT
  <2>5. pc \in SetupPoints /\ back \in RestPoints /\ mode \in Modes
    BY SMT DEF SetupPoints, RestPoints, Modes
  <2> QED BY Zenon, <1>2, <2>1, <2>2, <2>3, <2>4, <2>5 DEF ValuesOK
<1>4. OnCircle
  <2>1. \A s \in Slices : at[s] = 0
    BY SMT
  <2>2. program.half \in Nat
    BY SMT, <1>2, JobNumbers, Limits
  <2> QED BY SMT, <2>1, <2>2 DEF OnCircle, Abs
<1>5. program.main = FALSE /\ program.hv = FALSE /\ program.width = 0 /\ HvLevel(program) = 0
  BY SMT DEF NoJob, Job, HvLevel
<1>6. SlicesProgress
  <2>1. running["main"] = FALSE /\ running["hv"] = FALSE
    BY Zenon DEF Slices
  <2> QED BY Zenon, <1>5, <2>1 DEF SlicesProgress
<1>7. LevelsProgress
  BY SMT, <1>5 DEF LevelsProgress, LevelPoints, Written, Switches
<1>8. StoppedApart
  BY Zenon, <1>5 DEF StoppedApart
<1>9. SetupProgress /\ BridgeProgress /\ CutProgress /\ WholeBridge
  BY SMT, <1>5 DEF SetupProgress, BridgeProgress, CutProgress, WholeBridge, AtRest,
     PadPoints, SetupPoints, RestPoints, Pads, Switches
<1>10. MachiningHasBoth
  <2>1. job.hv = TRUE
    BY SMT DEF HvJob, Job
  <2> QED BY Zenon, <2>1 DEF MachiningHasBoth
<1> QED BY Zenon, <1>1, <1>3, <1>4, <1>6, <1>7, <1>8, <1>9, <1>10 DEF IInv, TypeOK

\* How far the set-up or the cut has come tells what the pads and the slices
\* are, at every moment and whatever interrupts it.
THEOREM Invariance == Spec => []IInv
<1>1. IInv /\ [Next]_vars => IInv'
  <2> SUFFICES ASSUME IInv, [Next]_vars PROVE IInv'
    OBVIOUS
  <2>1. TypeOK'
    BY FlagsStep, ValuesStep, CircleStep DEF IInv, TypeOK
  <2> QED
    BY <2>1, SetupProgressStep, SlicesProgressStep, LevelsProgressStep,
       StoppedApartStep, BridgeProgressStep, CutProgressStep,
       MachiningHasBothStep, WholeBridgeStep DEF IInv
<1> QED BY InitIInv, <1>1, PTL DEF Spec

(***************************************************************************)
(* What follows from it.                                                   *)
(***************************************************************************)

\* Every variable of the output stage keeps to its range, and every slice to
\* its circle.
THEOREM TypeCorrect == Spec => []TypeOK
<1>1. IInv => TypeOK
  BY DEF IInv
<1> QED BY Invariance, <1>1, PTL

\* What holds between set-ups: everything is as programmed.
LEMMA Rested ==
    ASSUME IInv, AtRest
    PROVE  /\ inverted /\ program \in Jobs
           /\ running["main"] <=> program.main
           /\ running["hv"] <=> program.hv
           /\ level["EN"] = program.width /\ level["HC"] = program.width
           /\ level["HV"] = HvLevel(program)
<1> USE DEF IInv, AtRest, RestPoints
<1>1. pc \notin LevelPoints \cup {"stop_hv", "counter_hv", "start_main", "start_hv"}
      /\ pc \notin PadPoints \cup {"polarity"}
  BY SMT DEF LevelPoints, PadPoints
<1>2. inverted
  BY Zenon, <1>1 DEF SetupProgress
<1>3. (running["main"] <=> program.main) /\ (running["hv"] <=> program.hv)
  BY Zenon, <1>1 DEF SlicesProgress
<1>4. /\ level["EN"] = program.width /\ level["HC"] = program.width
      /\ level["HV"] = HvLevel(program)
  BY SMT, <1>1 DEF LevelsProgress, Written, LevelPoints
<1>5. program \in Jobs
  BY Zenon DEF TypeOK, ValuesOK
<1> QED BY Zenon, <1>2, <1>3, <1>4, <1>5

\* Between set-ups no switch is held closed by a stopped slice, by a missing
\* polarity or by a pulse as long as its period.
THEOREM NothingHeldClosed == Spec => []NoSwitchHeldClosed
<1>1. IInv => NoSwitchHeldClosed
  <2> SUFFICES ASSUME IInv, AtRest, program.sane, NEW p \in Switches, HeldClosed(p)
               PROVE  FALSE
    BY DEF NoSwitchHeldClosed
  <2>1. \A c \in Int : ClosedAt(p, c) => c < level[p]
    BY Zenon, Rested DEF ClosedAt
  <2>2. program.half \in Int /\ level[p] < program.half
    BY SMT, Rested, JobRange, OffsetRange DEF InRange, Switches
  <2>3. CASE Counting(p)
    <3>1. ClosedAt(p, program.half)
      BY Zenon, <2>3 DEF HeldClosed
    <3> QED BY SMT, <2>1, <2>2, <3>1, Rested, JobRange, OffsetRange DEF InRange, Switches
  <2>4. CASE ~Counting(p)
    <3> DEFINE s == SliceOf[p]
    <3>1. s \in Slices /\ (p = "HV" => s = "hv") /\ (p # "HV" => s = "main")
      BY SMT DEF SliceOf, Switches, Pads, Slices
    <3>2. ClosedAt(p, Abs(at[s]))
      BY Zenon, <2>4 DEF HeldClosed
    <3>3. ~running[s]
      BY Zenon, <2>4 DEF Counting
    <3> HIDE DEF s
    <3>4. at[s] \in Int
      BY SMT, <3>1 DEF IInv, TypeOK, ValuesOK
    <3>5. Abs(at[s]) \in Int /\ Abs(at[s]) >= 0
      BY SMT, <3>4 DEF Abs
    <3>6. CASE p = "HV"
      <4>1. ~program.hv /\ level[p] = HvLevel(program) /\ program \in Jobs
        BY Zenon, <3>1, <3>3, <3>6, Rested
      <4>2. level[p] = 0
        BY Zenon, <4>1, OffsetRange
      <4> QED BY SMT, <2>1, <3>2, <3>5, <4>2
    <3>7. CASE p # "HV"
      <4>1. ~program.main /\ level[p] = program.width /\ program \in Jobs
        BY Zenon, <3>1, <3>3, <3>7, Rested DEF Switches
      <4>2. level[p] = 0
        BY Zenon, <4>1, JobFlags
      <4> QED BY SMT, <2>1, <3>2, <3>5, <4>2
    <3> QED BY Zenon, <3>6, <3>7
  <2> QED BY Zenon, <2>3, <2>4
<1> QED BY Invariance, <1>1, PTL

\* In machining mode a half connected bridge is only ever met with its fault
\* still to be handled.
THEOREM BridgeIsWhole == Spec => []WholeBridge
<1>1. IInv => WholeBridge
  BY DEF IInv
<1> QED BY Invariance, <1>1, PTL

\* Machining pulses run only with the comparator's threshold being generated.
THEOREM AllPulsesWatched == Spec => []PulsesAreWatched
<1>1. IInv => PulsesAreWatched
  <2> SUFFICES ASSUME IInv, AtRest, mode = "ISO", Pulses("EN")
               PROVE  pad["OC"] = "pwm" /\ running["hv"]
    BY DEF PulsesAreWatched
  <2>1. pc \notin SetupPoints /\ pc \notin PadPoints
    BY SMT DEF AtRest, RestPoints, SetupPoints, PadPoints
  <2>2. pad["OC"] = "pwm" /\ program = job
    BY Zenon, <2>1 DEF IInv, SetupProgress
  <2>3. job.hv
    BY Zenon DEF IInv, MachiningHasBoth, Pulses
  <2> QED BY Zenon, <2>2, <2>3, Rested
<1> QED BY Invariance, <1>1, PTL

\* Machining pulses and their pauses keep to the limits of config.h, for
\* every request that is accepted and told in numbers.
THEOREM AcceptedPulses == Spec => []PulseAsAccepted
<1>1. IInv => PulseAsAccepted
  <2> SUFFICES ASSUME IInv, AtRest, Pulses("EN"), program.sane
               PROVE  /\ 2 * level["EN"] >= MinOnMicros * Micro - 2
                      /\ 2 * level["EN"] <= MaxOnMicros * Micro
                      /\ 2 * (program.half - level["EN"]) >= MinOffMicros * Micro
    BY DEF PulseAsAccepted
  <2>1. running["main"]
    BY SMT DEF Pulses, Counting, SliceOf, Pads, Switches
  <2>2. program.main /\ program \in Jobs /\ level["EN"] = program.width
    BY Zenon, <2>1, Rested
  <2>3. InRange(program) /\ program.width >= 66
    BY Zenon, <2>2, JobRange
  <2> QED BY SMT, <2>2, <2>3 DEF InRange, MinOnMicros, MaxOnMicros, MinOffMicros, Micro
<1> QED BY Invariance, <1>1, PTL

\* From 66 ticks after its pulse to 66 ticks before the next one a slice is not
\* in its pulse.
LEMMA NotInPulse ==
    ASSUME NEW h \in Nat \ {0}, NEW u \in Int, u >= 66, u <= 2 * h - 66
    PROVE  Abs(Turn(h, u)) >= 66
<1>1. CASE u <= h
  <2>1. Turn(h, u) = u
    BY SMT, <1>1, TurnRange
  <2> QED BY SMT, <2>1 DEF Abs
<1>2. CASE u > h
  <2>1. Turn(h, u) = u - 2 * h
    BY SMT, <1>2, TurnRange
  <2> QED BY SMT, <2>1 DEF Abs
<1> QED BY SMT, <1>1, <1>2

\* For all accepted frequencies and duty cycles, for all pairs of jobs that follow
\* each other and wherever the slices are stopped, only an interrupt between
\* the two starts, or a counter reset while the other slice stands in its
\* pulse, closes the enable switch and the high-voltage switch together.
THEOREM KeptApart == Spec => []SwitchesApart
<1>1. IInv => SwitchesApart
  <2> SUFFICES ASSUME IInv, ClosedTogether, program.sane, job.sane,
                      ~(lag > 0), pc # "counter_hv",
                      program.main \/ pc \notin {"level_hc", "level_hv", "counter_main"}
               PROVE  FALSE
    BY DEF SwitchesApart
  <2> DEFINE h == program.half
             q == Offset(program)
  <2>1. /\ program \in Jobs /\ job \in Jobs /\ lag = 0 /\ wait \in Nat /\ wait <= 9000
        /\ at["main"] \in Int /\ at["hv"] \in Int
    BY SMT, TimingAssumption DEF IInv, TypeOK, ValuesOK, Slices
  <2>2. /\ h \in Nat \ {0} /\ h >= 6650 /\ h <= 13300
        /\ q \in Nat /\ 4 * q <= h /\ h < 4 * q + 4
        /\ program.width \in Nat /\ 100 * program.width <= 12 * h
        /\ job.width \in Nat /\ job.width <= 1596
    BY SMT, <2>1, JobRange, OffsetRange DEF InRange
  <2>3. /\ level["EN"] = program.width \/ level["EN"] = job.width
        /\ level["HV"] = 0 \/ level["HV"] = 66
    BY SMT, <2>1, OffsetRange DEF IInv, LevelsProgress
  <2>4. /\ program.main \in BOOLEAN /\ program.hv \in BOOLEAN
        /\ ~program.main => program.width = 0
        /\ ~program.hv => HvLevel(program) = 0
    <3>1. program.main \in BOOLEAN /\ program.hv \in BOOLEAN /\ (~program.main => program.width = 0)
      <4>1. program \in Jobs
        BY SMT, <2>1
      <4> QED BY Zenon, <4>1, JobFlags
    <3>2. ~program.hv => HvLevel(program) = 0
      BY SMT, <2>1, OffsetRange
    <3> QED BY Zenon, <3>1, <3>2
  <2>5. Abs(at["main"]) \in Nat /\ Abs(at["hv"]) \in Nat
    BY SMT, <2>1 DEF Abs
  <2>6. /\ Counting("EN") <=> running["main"]
        /\ Counting("HV") <=> running["hv"]
    BY SMT DEF Counting, SliceOf, Pads, Switches
  <2>7. program.main \/ pc \in LevelPoints \cup {"stop_hv", "start_main"} => inverted
    BY SMT DEF IInv, SetupProgress, PadPoints, LevelPoints
  <2>8. \A c \in Nat : ClosedAt("EN", c) => c < level["EN"]
    BY Zenon DEF ClosedAt
  <2>9. \A c \in Nat : ClosedAt("HV", c) /\ inverted => c < level["HV"]
    BY SMT DEF ClosedAt
  <2> HIDE DEF h, q
  <2>10. CASE Counting("EN") /\ Counting("HV") /\
              Abs(Turn(program.half, Offset(program) - lag)) < level["EN"] + level["HV"]
    <3>1. level["EN"] = program.width
      BY SMT, <2>6, <2>10 DEF IInv, SlicesProgress, LevelsProgress, Written, LevelPoints
    <3>2. Offset(program) - lag = q /\ 0 <= q /\ q <= h
      BY SMT, <2>1, <2>2 DEF q
    <3>3. Turn(h, q) = q
      BY SMT, <2>2, <3>2, TurnRange
    <3>4. Abs(q) < level["EN"] + level["HV"]
      BY Zenon, <2>10, <3>2, <3>3 DEF h
    <3> QED BY SMT, <2>2, <2>3, <3>1, <3>4 DEF Abs
  <2>11. CASE Counting("EN") /\ ~Counting("HV") /\ ClosedAt("HV", Abs(at["hv"]))
    <3>1. program.main /\ pc \notin LevelPoints \cup {"stop_hv", "counter_hv"}
      BY SMT, <2>6, <2>11 DEF IInv, SlicesProgress
    <3>2. at["hv"] = q
      BY Zenon, <3>1 DEF IInv, StoppedApart, q
    <3>3. Abs(at["hv"]) < level["HV"]
      BY Zenon, <2>5, <2>7, <2>9, <2>11, <3>1
    <3> QED BY SMT, <2>2, <2>3, <3>2, <3>3 DEF Abs
  <2>12. ASSUME ~Counting("EN"), ClosedAt("EN", Abs(at["main"]))
         PROVE  /\ program.main /\ pc \in LevelPoints \cup {"stop_hv", "start_main"}
                /\ Abs(at["main"]) < MaxWidth
    <3>1. Abs(at["main"]) < level["EN"]
      BY Zenon, <2>5, <2>8, <2>12
    <3>2. Abs(at["main"]) < MaxWidth
      BY SMT, <2>2, <2>3, <2>5, <3>1 DEF MaxWidth
    <3>3. program.main
      <4> SUFFICES ASSUME ~program.main PROVE FALSE
        OBVIOUS
      <4>1. program.width = 0 /\ pc \notin {"level_hc", "level_hv", "counter_main", "counter_hv"}
        BY SMT, <2>4
      <4>2. level["EN"] = program.width
        BY SMT, <4>1 DEF IInv, LevelsProgress, Written, LevelPoints
      <4> QED BY SMT, <2>5, <3>1, <4>1, <4>2
    <3>4. pc \in LevelPoints \cup {"stop_hv", "start_main"}
      BY SMT, <2>6, <2>12, <3>3 DEF IInv, SlicesProgress
    <3> QED BY Zenon, <3>2, <3>3, <3>4
  <2>13. CASE ~Counting("EN") /\ Counting("HV") /\ ClosedAt("EN", Abs(at["main"])) /\ PulseCameBy
    <3>1. program.main /\ program.hv /\ pc = "stop_hv" /\ Abs(at["main"]) < MaxWidth
      BY SMT, <2>6, <2>12, <2>13 DEF IInv, SlicesProgress
    <3>2. at["hv"] = q + at["main"]
      BY SMT, <2>1, <3>1 DEF IInv, StoppedApart, q
    <3>3. PICK u \in at["hv"] .. at["hv"] + wait : Abs(Turn(program.half, u)) < level["HV"]
      BY Zenon, <2>13 DEF PulseCameBy
    <3>4. u \in Int /\ u >= 66 /\ u <= 2 * h - 66
      BY SMT, <2>1, <2>2, <3>1, <3>2 DEF Abs, MaxWidth
    <3>5. Abs(Turn(h, u)) >= 66
      BY SMT, <2>2, <3>4, NotInPulse
    <3>6. Turn(h, u) \in Int /\ Abs(Turn(h, u)) < level["HV"]
      BY SMT, <2>2, <3>3, <3>4, TurnRange DEF h
    <3> QED BY SMT, <2>3, <3>5, <3>6 DEF Abs
  <2>14. CASE /\ ~Counting("EN") /\ ~Counting("HV")
              /\ ClosedAt("EN", Abs(at["main"])) /\ ClosedAt("HV", Abs(at["hv"]))
    <3>1. /\ program.main /\ pc \in LevelPoints \cup {"stop_hv", "start_main"}
          /\ Abs(at["main"]) < MaxWidth
      BY Zenon, <2>12, <2>14
    <3>2. Abs(at["hv"]) < level["HV"]
      BY Zenon, <2>5, <2>7, <2>9, <2>14, <3>1
    <3>3. CASE pc \in LevelPoints
      <4>1. Abs(at["hv"]) >= 66
        BY SMT, <2>1, <3>1, <3>3 DEF IInv, StoppedApart
      <4> QED BY SMT, <2>3, <2>5, <3>2, <4>1
    <3>4. CASE pc = "stop_hv"
      <4>1. ~program.hv /\ level["HV"] = HvLevel(program)
        BY SMT, <2>6, <2>14, <3>4
        DEF IInv, SlicesProgress, LevelsProgress, Written, LevelPoints
      <4> QED BY SMT, <2>4, <2>5, <3>2, <4>1
    <3>5. CASE pc = "start_main"
      <4>1. at["hv"] = q
        BY SMT, <3>1, <3>5 DEF IInv, StoppedApart, LevelPoints, q
      <4> QED BY SMT, <2>2, <2>3, <3>2, <4>1 DEF Abs
    <3> QED BY Zenon, <3>1, <3>3, <3>4, <3>5
  <2> QED BY Zenon, <2>10, <2>11, <2>13, <2>14 DEF ClosedTogether
<1> QED BY Invariance, <1>1, PTL
============================================================================
