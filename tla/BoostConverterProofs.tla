------------------------ MODULE BoostConverterProofs ------------------------
(***************************************************************************)
(* Proofs about BoostConverter, for every number of wiper positions, every *)
(* curve of the rail and every pair of limits: what the lookup finds, that *)
(* the rail is where it was asked to be, and that it stays below the       *)
(* ceiling.                                                                *)
(***************************************************************************)
EXTENDS BoostConverter, LeastNumber

LEMMA Numbers ==
    /\ PosMax \in Nat /\ 0 < PosMax /\ MinVolts \in Nat /\ 0 < MinVolts /\ MaxVolts \in Nat
    /\ RailMax \in Nat /\ MaxVolts <= RailMax /\ MinVolts <= MaxVolts
BY SMT, ConverterAssumption

\* A write leaves the wiper where it was or takes it to the position asked for.
LEMMA Writes ==
    ASSUME TypeOK, NEW p \in Int, Write(p)
    PROVE  /\ position' \in Positions /\ wiper' \in Positions
           /\ position' = Clamp(p) /\ (wiper' = position' \/ wiper' = wiper)
           /\ p \in Positions => position' = p
<1>1. Clamp(p) \in Positions /\ (p \in Positions => Clamp(p) = p)
  BY SMT, Numbers DEF Clamp, Positions
<1>2. position' = Clamp(p) /\ (wiper' = Clamp(p) \/ wiper' = wiper)
  BY Zenon DEF Write
<1>3. wiper \in Positions
  BY Zenon DEF TypeOK
<1> QED BY Zenon, <1>1, <1>2, <1>3

(***************************************************************************)
(* The lookup.  Its recursive function exists, since every call is for a   *)
(* shorter span; and the position it finds is the first that is not below  *)
(* the target, or the last one.                                            *)
(***************************************************************************)

\* One call of the search.
Round(g, tab, target, s) ==
    LET mid == (s.lo + s.hi) \div 2
    IN  IF s.lo >= s.hi THEN s.lo
        ELSE IF tab[mid] < target THEN g[[s EXCEPT !.lo = mid + 1]]
        ELSE g[[s EXCEPT !.hi = mid]]

Search(tab, target) == CHOOSE g : g = [s \in Spans |-> Round(g, tab, target, s)]

Found(tab, n, target) == Search(tab, target)[[lo |-> 0, hi |-> n - 1]]

\* The lookup in any table, complete or not.
LookupIn(tab, n, complete, target) ==
    LET p == Found(tab, n, target)
    IN  IF ~complete \/ n = 0 THEN 0
        ELSE IF p > 0 /\ target - tab[p - 1] < tab[p] - target THEN p - 1 ELSE p

LEMMA LookupFinds ==
    ASSUME NEW target
    PROVE  Lookup(target) = LookupIn(table, count, calibrated, target)
BY Zenon DEF Lookup, LookupIn, Search, Round, Found, CloserBelow

\* A call looks at nothing, or goes on with a span that is shorter.
Shorter(t, s) == t \in Spans /\ t.lo <= t.hi /\ t.hi - t.lo < s.hi - s.lo

LEMMA Halves ==
    ASSUME NEW s \in Spans, s.lo < s.hi
    PROVE  LET mid == (s.lo + s.hi) \div 2
           IN  /\ mid \in Positions /\ s.lo <= mid /\ mid < s.hi
               /\ Shorter([s EXCEPT !.lo = mid + 1], s)
               /\ Shorter([s EXCEPT !.hi = mid], s)
<1> DEFINE mid == (s.lo + s.hi) \div 2
<1>1. /\ s = [lo |-> s.lo, hi |-> s.hi] /\ s.lo \in Int /\ s.hi \in Int
      /\ 0 <= s.lo /\ s.hi <= PosMax
  BY SMT, Numbers DEF Spans, Positions
<1>2. mid \in Int /\ s.lo <= mid /\ mid < s.hi
  BY SMT, <1>1
<1> HIDE DEF mid
<1>3. /\ mid \in Positions /\ mid + 1 \in Positions
      /\ s.hi - (mid + 1) < s.hi - s.lo /\ mid - s.lo < s.hi - s.lo
      /\ mid + 1 <= s.hi
  BY SMT, <1>1, <1>2, Numbers DEF Positions
<1>4. Shorter([s EXCEPT !.lo = mid + 1], s)
  BY SMT, <1>3 DEF Shorter, Spans
<1>5. Shorter([s EXCEPT !.hi = mid], s)
  BY SMT, <1>2, <1>3 DEF Shorter, Spans
<1> QED BY Zenon, <1>2, <1>3, <1>4, <1>5 DEF mid

LEMMA SearchExists ==
    ASSUME NEW tab, NEW target
    PROVE  \E g : g = [s \in Spans |-> Round(g, tab, target, s)]
<1> DEFINE Upto(g, n) == \A s \in Spans : s.hi - s.lo <= n => g[s] = Round(g, tab, target, s)
           Good(n) == \E f : Upto([s \in Spans |-> f[s]], n)
           Bad     == {n \in Nat : ~Good(n)}
<1>1. Good(0)
  <2> DEFINE f == [s \in Spans |-> s.lo]
             g == [s \in Spans |-> f[s]]
  <2>1. ASSUME NEW s \in Spans, s.hi - s.lo <= 0
        PROVE  g[s] = Round(g, tab, target, s)
    <3>1. s.lo >= s.hi
      BY SMT, <2>1, Numbers DEF Spans, Positions
    <3> QED BY Zenon, <3>1 DEF Round
  <2> QED BY Zenon, <2>1
<1>2. ASSUME NEW n \in Nat, Good(n)
      PROVE  Good(n + 1)
  <2>1. PICK f : Upto([s \in Spans |-> f[s]], n)
    BY Zenon, <1>2
  <2> DEFINE g == [s \in Spans |-> f[s]]
             k == [s \in Spans |-> IF s.hi - s.lo <= n THEN g[s] ELSE Round(g, tab, target, s)]
             h == [s \in Spans |-> k[s]]
  <2>2. ASSUME NEW s \in Spans, s.hi - s.lo <= n + 1
        PROVE  h[s] = Round(g, tab, target, s)
    BY Zenon, <2>1, <2>2
  <2>3. ASSUME NEW s \in Spans, s.hi - s.lo <= n + 1
        PROVE  Round(h, tab, target, s) = Round(g, tab, target, s)
    <3>1. ASSUME NEW t, Shorter(t, s) PROVE h[t] = g[t]
      <4>1. t \in Spans /\ t.hi - t.lo <= n
        BY SMT, <2>3, <3>1, Numbers DEF Shorter, Spans, Positions
      <4> QED BY Zenon, <4>1
    <3>2. CASE s.lo >= s.hi
      BY Zenon, <3>2 DEF Round
    <3>3. CASE ~(s.lo >= s.hi)
      <4>1. s.lo < s.hi
        BY SMT, <3>3, Numbers DEF Spans, Positions
      <4> DEFINE mid  == (s.lo + s.hi) \div 2
                 up   == [s EXCEPT !.lo = mid + 1]
                 down == [s EXCEPT !.hi = mid]
      <4>2. Shorter(up, s) /\ Shorter(down, s)
        BY Zenon, <4>1, Halves
      <4> HIDE DEF h, g, mid, up, down
      <4>3. h[up] = g[up] /\ h[down] = g[down]
        BY Zenon, <3>1, <4>2
      <4> QED BY Zenon, <4>3 DEF Round, mid, up, down
    <3> QED BY Zenon, <3>2, <3>3
  <2> HIDE DEF g
  <2>4. Upto(h, n + 1)
    BY Zenon, <2>2, <2>3
  <2> QED BY Zenon, <2>4
<1> HIDE DEF Good
<1>3. Bad = {}
  <2> SUFFICES ASSUME Bad # {} PROVE FALSE
    BY Zenon
  <2>1. PICK m \in Bad : \A n \in Bad : m <= n
    BY Zenon, LeastNatural
  <2>2. CASE m = 0
    BY Zenon, <1>1, <2>2
  <2>3. CASE m # 0
    <3>1. m - 1 \in Nat /\ (m - 1) + 1 = m /\ ~(m <= m - 1)
      BY SMT, <2>3
    <3>2. Good(m - 1)
      BY Zenon, <2>1, <3>1
    <3> QED BY Zenon, <1>2, <3>1, <3>2
  <2> QED BY Zenon, <2>2, <2>3
<1>4. Good(PosMax)
  BY Zenon, <1>3, Numbers
<1>5. PICK f : Upto([s \in Spans |-> f[s]], PosMax)
  BY Zenon, <1>4 DEF Good
<1> DEFINE g == [s \in Spans |-> f[s]]
<1>6. \A s \in Spans : s.hi - s.lo <= PosMax
  BY SMT, Numbers DEF Spans, Positions
<1>7. \A s \in Spans : g[s] = Round(g, tab, target, s)
  BY Zenon, <1>5, <1>6
<1>8. g = [s \in Spans |-> Round(g, tab, target, s)]
  BY Zenon, <1>7
<1> QED BY Zenon, <1>8

\* A table that grows from each entry to the next grows throughout.
LEMMA Ordered ==
    ASSUME NEW f \in [Positions -> Volts], Increasing(f)
    PROVE  \A p, q \in Positions : p < q => f[p] < f[q]
<1> DEFINE Bad == {n \in Nat : \E p, q \in Positions : q = p + n + 1 /\ ~(f[p] < f[q])}
<1>1. Bad = {}
  <2> SUFFICES ASSUME Bad # {} PROVE FALSE
    BY Zenon
  <2>1. PICK m \in Bad : \A n \in Bad : m <= n
    BY Zenon, LeastNatural
  <2>2. PICK p \in Positions, q \in Positions : q = p + m + 1 /\ ~(f[p] < f[q])
    BY Zenon, <2>1
  <2>3. m \in Nat /\ (m # 0 => m - 1 \notin Bad)
    <3>1. m # 0 => ~(m <= m - 1)
      BY SMT
    <3> QED BY Zenon, <2>1, <3>1
  <2> HIDE DEF Bad
  <2>4. q \in Positions \ {0} /\ q - 1 \in Positions
    BY SMT, <2>2, <2>3, Numbers DEF Positions
  <2>5. f[q - 1] < f[q]
    BY Zenon, <2>4 DEF Increasing
  <2>6. CASE m = 0
    BY SMT, <2>2, <2>5, <2>6 DEF Positions
  <2>7. CASE m # 0
    <3>1. m - 1 \in Nat /\ q - 1 = p + (m - 1) + 1
      BY SMT, <2>2, <2>3, <2>7 DEF Positions
    <3>2. f[p] < f[q - 1]
      BY Zenon, <2>3, <2>4, <2>7, <3>1 DEF Bad
    <3>3. f[p] \in Int /\ f[q - 1] \in Int /\ f[q] \in Int
      BY SMT, <2>4, Numbers DEF Volts
    <3> QED BY SMT, <2>2, <2>5, <3>2, <3>3
  <2> QED BY Zenon, <2>6, <2>7
<1>2. ASSUME NEW p \in Positions, NEW q \in Positions, p < q
      PROVE  f[p] < f[q]
  <2>1. q - p - 1 \in Nat /\ q = p + (q - p - 1) + 1
    BY SMT, <1>2, Numbers DEF Positions
  <2> QED BY Zenon, <1>1, <2>1
<1> QED BY Zenon, <1>2

\* The first entry not below the target, or the last entry.
IsFirst(p, target) ==
    /\ \A q \in Positions : q < p => table[q] < target
    /\ p = PosMax \/ ~(table[p] < target)

\* The search finds an entry of any table, and the first of one that grows.
LEMMA FoundIsFirst ==
    ASSUME TypeOK, count = PosMax + 1, NEW target \in Int
    PROVE  Found(table, count, target) \in Positions /\ (Increasing(table) => IsFirst(Found(table, count, target), target))
<1> DEFINE S == Search(table, target)
           Around(s) == /\ \A q \in Positions : q < s.lo => table[q] < target
                        /\ s.hi = PosMax \/ ~(table[s.hi] < target)
           Finds(s) == S[s] \in Positions /\ (Increasing(table) /\ Around(s) => IsFirst(S[s], target))
           Bad == {n \in Nat : \E s \in Spans : s.lo <= s.hi /\ s.hi - s.lo = n /\ ~Finds(s)}
<1>1. \A s \in Spans : S[s] = Round(S, table, target, s)
  <2>1. \E g : g = [s \in Spans |-> Round(g, table, target, s)]
    BY Zenon, SearchExists
  <2>2. S = [s \in Spans |-> Round(S, table, target, s)]
    BY Zenon, <2>1 DEF Search
  <2> HIDE DEF S
  <2> QED BY Zenon, <2>2
<1> HIDE DEF S
<1>2. table \in [Positions -> Volts] /\ \A p \in Positions : table[p] \in Int
  BY SMT, Numbers DEF TypeOK, Volts
<1>3. Bad = {}
  <2> SUFFICES ASSUME Bad # {} PROVE FALSE
    BY Zenon
  <2>1. PICK m \in Bad : \A n \in Bad : m <= n
    BY Zenon, LeastNatural
  <2>2. PICK s \in Spans : s.lo <= s.hi /\ s.hi - s.lo = m /\ ~Finds(s)
    BY Zenon, <2>1
  <2>3. /\ s.lo \in Positions /\ s.hi \in Positions /\ m \in Nat
        /\ s.lo = s.hi \/ s.lo < s.hi
    BY SMT, <2>1, <2>2, Numbers DEF Spans, Positions
  <2>4. ASSUME NEW t, Shorter(t, s) PROVE Finds(t)
    <3>1. t \in Spans /\ t.lo <= t.hi /\ t.hi - t.lo \in Nat /\ ~(m <= t.hi - t.lo)
      BY SMT, <2>2, <2>3, <2>4, Numbers DEF Shorter, Spans, Positions
    <3>2. t.hi - t.lo \notin Bad
      BY Zenon, <2>1, <3>1
    <3> QED BY Zenon, <3>1, <3>2
  <2> HIDE DEF Bad
  <2>5. CASE s.lo = s.hi
    <3>1. s.lo >= s.hi
      BY SMT, <2>3, <2>5 DEF Positions
    <3>2. S[s] = s.lo
      BY Zenon, <1>1, <3>1 DEF Round
    <3> QED BY Zenon, <2>2, <2>3, <2>5, <3>2 DEF IsFirst
  <2>6. CASE s.lo < s.hi
    <3> DEFINE mid  == (s.lo + s.hi) \div 2
               up   == [s EXCEPT !.lo = mid + 1]
               down == [s EXCEPT !.hi = mid]
    <3>1. Shorter(up, s) /\ Shorter(down, s) /\ mid \in Positions
      BY Zenon, <2>6, Halves
    <3>2. up.lo = mid + 1 /\ up.hi = s.hi /\ down.lo = s.lo /\ down.hi = mid
      BY SMT DEF Spans
    <3>3. ~(s.lo >= s.hi)
      BY SMT, <2>3, <2>6 DEF Positions
    <3>4. S[s] = IF table[mid] < target THEN S[up] ELSE S[down]
      BY Zenon, <1>1, <3>3 DEF Round
    <3> HIDE DEF mid, up, down
    <3>5. CASE table[mid] < target
      <4>1. ASSUME Increasing(table), NEW q \in Positions, q < mid + 1
            PROVE  table[q] < target
        <5>1. q = mid \/ q < mid
          BY SMT, <3>1, <4>1, Numbers DEF Positions
        <5>2. q = mid \/ table[q] < table[mid]
          BY Zenon, <1>2, <3>1, <4>1, <5>1, Ordered
        <5> QED BY SMT, <1>2, <3>1, <3>5, <5>2
      <4>2. Increasing(table) /\ Around(s) => Around(up)
        BY Zenon, <3>2, <4>1
      <4>3. S[s] = S[up] /\ Finds(up)
        BY Zenon, <2>4, <3>1, <3>4, <3>5
      <4> QED BY Zenon, <2>2, <4>2, <4>3
    <3>6. CASE ~(table[mid] < target)
      <4>1. Around(s) => Around(down)
        BY Zenon, <3>2, <3>6
      <4>2. S[s] = S[down] /\ Finds(down)
        BY Zenon, <2>4, <3>1, <3>4, <3>6
      <4> QED BY Zenon, <2>2, <4>1, <4>2
    <3> QED BY Zenon, <3>5, <3>6
  <2> QED BY Zenon, <2>3, <2>5, <2>6
<1> DEFINE all == [lo |-> 0, hi |-> count - 1]
<1>4. /\ all \in Spans /\ all.lo = 0 /\ all.hi = PosMax /\ all.lo <= all.hi
      /\ all.hi - all.lo \in Nat
  BY SMT, Numbers DEF Spans, Positions
<1>5. ~(\E q \in Positions : q < 0)
  BY SMT DEF Positions
<1>6. Found(table, count, target) = S[all]
  BY Zenon DEF Found, S
<1> HIDE DEF all
<1>7. Finds(all)
  BY Zenon, <1>3, <1>4
<1>8. Around(all)
  BY Zenon, <1>4, <1>5
<1> QED BY Zenon, <1>6, <1>7, <1>8

\* So every lookup leads to a position of the wiper.
LEMMA LookupInTable ==
    ASSUME TypeOK, SweepsReturn, NEW target \in Int
    PROVE  Lookup(target) \in Positions
<1>1. CASE ~calibrated
  <2>1. 0 \in Positions
    BY SMT, Numbers DEF Positions
  <2> QED BY Zenon, <1>1, <2>1, LookupFinds DEF LookupIn
<1>2. CASE calibrated
  <2> DEFINE p == Found(table, count, target)
  <2>1. p \in Positions
    BY Zenon, <1>2, FoundIsFirst DEF SweepsReturn
  <2>2. Lookup(target) \in {0, p} \/ (p > 0 /\ Lookup(target) = p - 1)
    BY Zenon, LookupFinds DEF LookupIn
  <2> HIDE DEF p
  <2> QED BY SMT, <2>1, <2>2, Numbers DEF Positions
<1> QED BY Zenon, <1>1, <1>2

LEMMA TargetsAreNumbers == \A v \in Targets : v \in Int /\ v # 0
BY SMT, Numbers DEF Targets

LEMMA InitHolds == Init => IInv
<1> SUFFICES ASSUME Init PROVE IInv
  OBVIOUS
<1>1. /\ 1 \in Positions /\ 0 \in Positions /\ 0 \in 0..PosMax + 1 /\ 0 \in Volts
  BY SMT, Numbers DEF Positions, Volts
<1>2. table \in [Positions -> Volts]
  BY Zenon, <1>1 DEF Init
<1>3. TypeOK
  BY Zenon, <1>1, <1>2 DEF Init, TypeOK
<1>4. SweepsReturn
  BY Zenon, <1>1 DEF Init, SweepsReturn
<1>5. ~(\E p \in Positions : p < 0)
  BY SMT DEF Positions
<1>6. BootSeesRail
  BY Zenon, <1>5 DEF Init, BootSeesRail
<1>7. SafeOrHalted
  BY Zenon DEF Init, SafeOrHalted, Booting
<1>8. AskedIsReached
  BY Zenon DEF Init, AskedIsReached
<1> QED BY Zenon, <1>3, <1>4, <1>6, <1>7, <1>8 DEF IInv

\* Every step keeps the variables in their types.
LEMMA TypesStep ==
    ASSUME IInv, [Next]_vars
    PROVE  TypeOK'
<1> USE DEF IInv
<1>1. CASE SweepStep
  <2>1. count \in Positions /\ count \in Int /\ count + 1 \in 0..PosMax + 1
    BY SMT, <1>1, Numbers DEF SweepsReturn, SweepStep, Positions
  <2>2. wiper' \in Positions /\ position' \in Positions
    BY Zenon, <1>1, <2>1, Writes DEF SweepStep
  <2>3. \A v \in Readings : v \in Volts
    <3>1. rail[wiper'] \in Volts /\ 0 \in Volts
      BY SMT, <2>2, Numbers DEF TypeOK, Rails, Volts
    <3> QED BY Zenon, <3>1 DEF Readings
  <2>4. table' \in [Positions -> Volts]
    BY SMT, <1>1, <2>1, <2>3 DEF TypeOK, SweepStep
  <2>5. smooth' \in BOOLEAN
    BY Zenon, <1>1 DEF SweepStep, StillSmooth
  <2> QED BY Zenon, <1>1, <2>1, <2>2, <2>4, <2>5 DEF TypeOK, SweepStep
<1>2. CASE Park
  <2>1. 0 \in Int
    BY SMT, Numbers DEF TypeOK, Positions, OneOn
  <2>2. wiper' \in Positions /\ position' \in Positions
    BY Zenon, <1>2, <2>1, Writes DEF Park
  <2>3. smooth' \in BOOLEAN
    BY Zenon, <1>2 DEF Park, StillSmooth
  <2> QED BY Zenon, <1>2, <2>2, <2>3 DEF TypeOK, Park, SweepsReturn
<1>3. CASE Verify
  BY Zenon, <1>3 DEF TypeOK, Verify, wiperVars, tableVars
<1>4. CASE RampStep
  <2>1. OneOn \in Int
    BY SMT, Numbers DEF TypeOK, Positions, OneOn
  <2>2. wiper' \in Positions /\ position' \in Positions
    BY Zenon, <1>4, <2>1, Writes DEF RampStep
  <2> QED BY Zenon, <1>4, <2>2 DEF TypeOK, RampStep, tableVars
<1>5. CASE RampDone
  BY Zenon, <1>5 DEF TypeOK, RampDone, wiperVars, tableVars, SweepsReturn
<1>6. CASE Enable
  BY Zenon, <1>6 DEF TypeOK, Enable, wiperVars, tableVars
<1>7. CASE HandleFault
  BY Zenon, <1>7 DEF TypeOK, HandleFault, wiperVars, tableVars
<1>8. CASE \E v \in Targets : Prepare(v)
  <2> PICK v \in Targets : Prepare(v)
    BY <1>8
  <2>1. \E n \in {"ready", "halted", "enable"} : BeginRamp(v, n)
    BY Zenon DEF Prepare, Serving
  <2>2. Lookup(v) \in Positions
    BY Zenon, LookupInTable, TargetsAreNumbers
  <2> QED BY Zenon, <2>1, <2>2 DEF TypeOK, BeginRamp, wiperVars, tableVars
<1>9. CASE \E v \in Targets : SetDpotFromVtable(v)
  <2> PICK v \in Targets : SetDpotFromVtable(v)
    BY <1>9
  <2>1. \E n \in {"ready", "halted", "enable"} : BeginRamp(v, n)
    BY Zenon DEF SetDpotFromVtable, Serving
  <2>2. Lookup(v) \in Positions
    BY Zenon, LookupInTable, TargetsAreNumbers
  <2> QED BY Zenon, <2>1, <2>2 DEF TypeOK, BeginRamp, wiperVars, tableVars
<1>10. CASE \E p \in Positions : SetDpot(p)
  <2> PICK p \in Positions : SetDpot(p)
    BY <1>10
  <2>1. p \in Int
    BY SMT, Numbers DEF Positions
  <2>2. wiper' \in Positions /\ position' \in Positions
    BY Zenon, <2>1, Writes DEF SetDpot
  <2> QED BY Zenon, <2>2 DEF TypeOK, SetDpot, tableVars
<1>11. CASE UpdateTable
  <2>1. 0 \in Positions /\ 1 \in Positions /\ 0 \in 0..PosMax + 1 /\ 0 \in Volts
    BY SMT, Numbers DEF Positions, Volts
  <2> QED BY Zenon, <1>11, <2>1 DEF TypeOK, UpdateTable, Serving, FromTheStart, wiperVars, tableVars
<1>12. CASE Cut
  BY Zenon, <1>12 DEF TypeOK, Cut, Serving, wiperVars, tableVars
<1>13. CASE Reset
  <2>1. 0 \in Positions /\ 1 \in Positions /\ 0 \in 0..PosMax + 1 /\ 0 \in Volts
    BY SMT, Numbers DEF Positions, Volts
  <2> QED BY Zenon, <1>13, <2>1 DEF TypeOK, Reset, wiperVars, tableVars
<1>14. CASE PinFault
  <2>1. smooth' \in BOOLEAN
    BY Zenon, <1>14 DEF PinFault
  <2> QED BY Zenon, <1>14, <2>1 DEF TypeOK, PinFault, wiperVars, tableVars
<1>15. CASE UNCHANGED vars
  BY Zenon, <1>15 DEF vars, wiperVars, tableVars, TypeOK
<1> QED
  BY Zenon, <1>1, <1>2, <1>3, <1>4, <1>5, <1>6, <1>7, <1>8, <1>9, <1>10, <1>11, <1>12, <1>13, <1>14, <1>15
  DEF Next, MainThread, Operator

\* Every step keeps sweeps and ramps on their way back.
LEMMA ReturnStep ==
    ASSUME IInv, [Next]_vars
    PROVE  SweepsReturn'
<1> USE DEF IInv
<1>1. CASE SweepStep
  <2>1. /\ count = PosMax => count + 1 = PosMax + 1
        /\ count # PosMax => count + 1 \in Positions
    BY SMT, <1>1, Numbers DEF SweepsReturn, SweepStep, Positions
  <2> QED BY Zenon, <1>1, <2>1 DEF SweepsReturn, SweepStep
<1>2. CASE Park
  BY Zenon, <1>2 DEF SweepsReturn, Park, wiperVars, tableVars
<1>3. CASE Verify
  BY Zenon, <1>3 DEF SweepsReturn, Verify, wiperVars, tableVars
<1>4. CASE RampStep
  BY Zenon, <1>4 DEF SweepsReturn, RampStep, wiperVars, tableVars
<1>5. CASE RampDone
  BY Zenon, <1>5 DEF SweepsReturn, RampDone, wiperVars, tableVars
<1>6. CASE Enable
  BY Zenon, <1>6 DEF SweepsReturn, Enable, wiperVars, tableVars
<1>7. CASE HandleFault
  BY Zenon, <1>7 DEF SweepsReturn, HandleFault, wiperVars, tableVars
<1>8. CASE \E v \in Targets : Prepare(v)
  <2> PICK v \in Targets : Prepare(v)
    BY <1>8
  <2>1. PICK n \in {"ready", "halted", "enable"} : BeginRamp(v, n)
    BY Zenon DEF Prepare, Serving
  <2> QED BY Zenon, <2>1 DEF SweepsReturn, BeginRamp, wiperVars, tableVars
<1>9. CASE \E v \in Targets : SetDpotFromVtable(v)
  <2> PICK v \in Targets : SetDpotFromVtable(v)
    BY <1>9
  <2>1. PICK n \in {"ready", "halted", "enable"} : BeginRamp(v, n)
    BY Zenon DEF SetDpotFromVtable, Serving
  <2> QED BY Zenon, <2>1 DEF SweepsReturn, BeginRamp, wiperVars, tableVars
<1>10. CASE \E p \in Positions : SetDpot(p)
  <2>1. UNCHANGED <<pc, back, count, calibrated>>
    BY Zenon, <1>10 DEF SetDpot, tableVars
  <2> QED BY Zenon, <2>1 DEF SweepsReturn
<1>11. CASE UpdateTable
  <2>1. 0 \in Positions
    BY SMT, Numbers DEF Positions
  <2> QED BY Zenon, <1>11, <2>1 DEF SweepsReturn, UpdateTable, Serving, FromTheStart, wiperVars, tableVars
<1>12. CASE Cut
  BY Zenon, <1>12 DEF SweepsReturn, Cut, Serving, wiperVars, tableVars
<1>13. CASE Reset
  <2>1. 0 \in Positions
    BY SMT, Numbers DEF Positions
  <2> QED BY Zenon, <1>13, <2>1 DEF SweepsReturn, Reset, wiperVars, tableVars
<1>14. CASE PinFault
  BY Zenon, <1>14 DEF SweepsReturn, PinFault, wiperVars, tableVars
<1>15. CASE UNCHANGED vars
  BY Zenon, <1>15 DEF vars, wiperVars, tableVars, SweepsReturn
<1> QED
  BY Zenon, <1>1, <1>2, <1>3, <1>4, <1>5, <1>6, <1>7, <1>8, <1>9, <1>10, <1>11, <1>12, <1>13, <1>14, <1>15
  DEF Next, MainThread, Operator

\* Every step keeps the table of a smooth boot true.
LEMMA BootStep ==
    ASSUME IInv, [Next]_vars
    PROVE  BootSeesRail'
<1> USE DEF IInv
<1>1. CASE SweepStep
  <2> SUFFICES ASSUME smooth', Booting'
               PROVE  stage' = "held" /\ \A p \in Positions : p < count' => table'[p] = rail'[p]
    BY Zenon DEF BootSeesRail
  <2>1. smooth /\ Booting
    BY Zenon, <1>1 DEF SweepStep, StillSmooth, Booting
  <2>2. stage = "held" /\ \A p \in Positions : p < count => table[p] = rail[p]
    BY Zenon, <2>1 DEF BootSeesRail
  <2>3. count \in Positions /\ count \in Int
    BY SMT, <1>1, Numbers DEF SweepsReturn, SweepStep, Positions
  <2>4. position' = count /\ wiper' = position'
    BY Zenon, <1>1, <2>1, <2>3, Writes DEF SweepStep, StillSmooth
  <2>5. table' = [table EXCEPT ![count] = rail[count]]
    BY Zenon, <1>1, <2>2, <2>4 DEF SweepStep, Readings
  <2>6. ASSUME NEW p \in Positions, p < count'
        PROVE  table'[p] = rail'[p]
    <3>1. p = count \/ p < count
      BY SMT, <1>1, <2>3, <2>6, Numbers DEF SweepStep, Positions
    <3>2. table \in [Positions -> Volts] /\ rail' = rail
      BY Zenon, <1>1 DEF TypeOK, SweepStep
    <3> QED BY Zenon, <2>2, <2>3, <2>5, <3>1, <3>2
  <2> QED BY Zenon, <1>1, <2>2, <2>6 DEF SweepStep
<1>2. CASE Park
  BY Zenon, <1>2 DEF BootSeesRail, Booting, SweepsReturn, Park, StillSmooth
<1>3. CASE Verify
  BY Zenon, <1>3 DEF BootSeesRail, Booting, SweepsReturn, Verify, wiperVars, tableVars
<1>4. CASE RampStep
  BY Zenon, <1>4 DEF BootSeesRail, Booting, SweepsReturn, RampStep, wiperVars, tableVars
<1>5. CASE RampDone
  BY Zenon, <1>5 DEF BootSeesRail, Booting, SweepsReturn, RampDone, wiperVars, tableVars
<1>6. CASE Enable
  BY Zenon, <1>6 DEF BootSeesRail, Booting, SweepsReturn, Enable, wiperVars, tableVars
<1>7. CASE HandleFault
  BY Zenon, <1>7 DEF BootSeesRail, Booting, SweepsReturn, HandleFault, wiperVars, tableVars
<1>8. CASE \E v \in Targets : Prepare(v)
  <2> PICK v \in Targets : Prepare(v)
    BY <1>8
  <2>1. PICK n \in {"ready", "halted", "enable"} : BeginRamp(v, n)
    BY Zenon DEF Prepare, Serving
  <2> QED BY Zenon, <2>1 DEF BootSeesRail, Booting, BeginRamp
<1>9. CASE \E v \in Targets : SetDpotFromVtable(v)
  <2> PICK v \in Targets : SetDpotFromVtable(v)
    BY <1>9
  <2>1. PICK n \in {"ready", "halted", "enable"} : BeginRamp(v, n)
    BY Zenon DEF SetDpotFromVtable, Serving
  <2> QED BY Zenon, <2>1 DEF BootSeesRail, Booting, BeginRamp
<1>10. CASE \E p \in Positions : SetDpot(p)
  BY Zenon, <1>10 DEF BootSeesRail, Booting, SweepsReturn, SetDpot, Serving, wiperVars, tableVars
<1>11. CASE UpdateTable
  BY Zenon, <1>11 DEF BootSeesRail, Booting, SweepsReturn, UpdateTable, Serving, FromTheStart, wiperVars, tableVars
<1>12. CASE Cut
  BY Zenon, <1>12 DEF BootSeesRail, Booting, SweepsReturn, Cut, Serving, wiperVars, tableVars
<1>13. CASE Reset
  <2>1. ~(\E p \in Positions : p < 0)
    BY SMT DEF Positions
  <2> QED BY Zenon, <1>13, <2>1 DEF BootSeesRail, Reset
<1>14. CASE PinFault
  BY Zenon, <1>14 DEF BootSeesRail, Booting, SweepsReturn, PinFault, wiperVars, tableVars
<1>15. CASE UNCHANGED vars
  BY Zenon, <1>15 DEF vars, wiperVars, tableVars, BootSeesRail, Booting
<1> QED
  BY Zenon, <1>1, <1>2, <1>3, <1>4, <1>5, <1>6, <1>7, <1>8, <1>9, <1>10, <1>11, <1>12, <1>13, <1>14, <1>15
  DEF Next, MainThread, Operator

\* Every step keeps a device halted whose rail was found unsafe.
LEMMA SafeStep ==
    ASSUME IInv, [Next]_vars
    PROVE  SafeOrHalted'
<1> USE DEF IInv
<1>1. CASE SweepStep
  <2>1. smooth' => smooth
    BY Zenon, <1>1 DEF SweepStep, StillSmooth
  <2> QED BY Zenon, <1>1, <2>1 DEF SafeOrHalted, Booting, SweepsReturn, SweepStep
<1>2. CASE Park
  <2>1. smooth' => smooth
    BY Zenon, <1>2 DEF Park, StillSmooth
  <2> QED BY Zenon, <1>2, <2>1 DEF SafeOrHalted, Booting, SweepsReturn, Park
<1>3. CASE Verify
  <2> SUFFICES ASSUME smooth', ~\A p \in Positions : rail'[p] <= MaxVolts
               PROVE  fault' = "setup" /\ stage' = "off" /\ pc' = "ready"
    BY Zenon DEF SafeOrHalted
  <2>1. smooth /\ Booting /\ count = PosMax + 1
    BY Zenon, <1>3 DEF Verify, Booting, SweepsReturn
  <2>2. \A p \in Positions : p < count
    BY SMT, <2>1, Numbers DEF Positions
  <2>3. \A p \in Positions : table[p] = rail[p]
    BY Zenon, <2>1, <2>2 DEF BootSeesRail
  <2>4. ~SafeTable
    BY Zenon, <1>3, <2>3 DEF SafeTable, Verify
  <2> QED BY Zenon, <1>3, <2>4 DEF Verify
<1>4. CASE RampStep
  BY Zenon, <1>4 DEF SafeOrHalted, Booting, SweepsReturn, RampStep, wiperVars, tableVars
<1>5. CASE RampDone
  BY Zenon, <1>5 DEF SafeOrHalted, Booting, SweepsReturn, RampDone, wiperVars, tableVars
<1>6. CASE Enable
  BY Zenon, <1>6 DEF SafeOrHalted, Booting, SweepsReturn, Enable, wiperVars, tableVars
<1>7. CASE HandleFault
  BY Zenon, <1>7 DEF SafeOrHalted, Booting, SweepsReturn, HandleFault, wiperVars, tableVars
<1>8. CASE \E v \in Targets : Prepare(v)
  <2> PICK v \in Targets : Prepare(v)
    BY <1>8
  <2>1. pc = "ready" /\ fault # "setup" /\ rail' = rail /\ smooth' = smooth
    BY Zenon DEF Prepare, BeginRamp
  <2> QED BY Zenon, <2>1 DEF SafeOrHalted, Booting
<1>9. CASE \E v \in Targets : SetDpotFromVtable(v)
  <2> PICK v \in Targets : SetDpotFromVtable(v)
    BY <1>9
  <2>1. /\ pc = "halted" \/ (pc = "ready" /\ fault # "setup")
        /\ BeginRamp(v, pc)
    BY Zenon DEF SetDpotFromVtable, Serving
  <2>2. UNCHANGED <<rail, stage, fault, smooth>> /\ back' = pc /\ pc' \in {"ramp", pc}
    BY Zenon, <2>1 DEF BeginRamp
  <2> QED BY Zenon, <2>1, <2>2 DEF SafeOrHalted, Booting
<1>10. CASE \E p \in Positions : SetDpot(p)
  <2>1. UNCHANGED <<pc, back, rail, stage, fault, smooth>>
    BY Zenon, <1>10 DEF SetDpot
  <2> QED BY Zenon, <2>1 DEF SafeOrHalted, Booting
<1>11. CASE UpdateTable
  BY Zenon, <1>11 DEF SafeOrHalted, Booting, SweepsReturn, UpdateTable, Serving, FromTheStart, wiperVars, tableVars
<1>12. CASE Cut
  BY Zenon, <1>12 DEF SafeOrHalted, Booting, SweepsReturn, Cut, Serving, wiperVars, tableVars
<1>13. CASE Reset
  BY Zenon, <1>13 DEF SafeOrHalted, Booting, SweepsReturn, Reset, wiperVars, tableVars
<1>14. CASE PinFault
  BY Zenon, <1>14 DEF SafeOrHalted, Booting, SweepsReturn, PinFault, wiperVars, tableVars
<1>15. CASE UNCHANGED vars
  BY Zenon, <1>15 DEF vars, wiperVars, tableVars, SafeOrHalted, Booting
<1> QED
  BY Zenon, <1>1, <1>2, <1>3, <1>4, <1>5, <1>6, <1>7, <1>8, <1>9, <1>10, <1>11, <1>12, <1>13, <1>14, <1>15
  DEF Next, MainThread, Operator

\* While neither the table nor the voltage changes, neither does the position.
LEMMA LookupStays ==
    ASSUME UNCHANGED tableVars, UNCHANGED asked
    PROVE  Lookup(asked)' = Lookup(asked)
<1>1. Lookup(asked)' = LookupIn(table', count', calibrated', asked')
  BY Zenon DEF Lookup, LookupIn, Search, Round, Found, CloserBelow
<1>2. Lookup(asked) = LookupIn(table, count, calibrated, asked)
  BY Zenon, LookupFinds
<1> QED BY Zenon, <1>1, <1>2 DEF tableVars

\* A ramp begins under way to the position of the voltage it is asked for.
LEMMA RampBegins ==
    ASSUME IInv, NEW v \in Targets, NEW next, BeginRamp(v, next)
    PROVE  AskedIsReached'
<1>1. UNCHANGED tableVars /\ UNCHANGED position
  BY Zenon DEF BeginRamp, wiperVars
<1>2. CASE calibrated
  <2>1. pc' = "ramp" /\ goal' = Lookup(v) /\ asked' = v
    BY Zenon, <1>2 DEF BeginRamp
  <2>2. Lookup(asked)' = LookupIn(table', count', calibrated', asked')
    BY Zenon DEF Lookup, LookupIn, Search, Round, Found, CloserBelow
  <2>3. goal' = Lookup(asked)'
    BY Zenon, <1>1, <2>1, <2>2, LookupFinds DEF tableVars
  <2> QED BY Zenon, <1>1, <1>2, <2>1, <2>3 DEF AskedIsReached, tableVars
<1>3. CASE ~calibrated
  <2>1. asked' = 0
    BY Zenon, <1>3 DEF BeginRamp, IInv, AskedIsReached
  <2> QED BY Zenon, <2>1 DEF AskedIsReached
<1> QED BY Zenon, <1>2, <1>3

\* Every step keeps the wiper at, or the ramp on its way to, the voltage asked.
LEMMA AskedStep ==
    ASSUME IInv, [Next]_vars
    PROVE  AskedIsReached'
<1>1. ASSUME UNCHANGED <<tableVars, goal, asked>>,
             pc' = "ramp" \/ (pc # "ramp" /\ position' = position) \/ position' = goal
      PROVE  AskedIsReached'
  BY Zenon, <1>1, LookupStays DEF IInv, AskedIsReached, tableVars
<1>2. CASE SweepStep \/ Park
  <2>1. asked = 0 /\ asked' = asked
    BY Zenon, <1>2 DEF SweepStep, Park, IInv, SweepsReturn, AskedIsReached
  <2> QED BY Zenon, <2>1 DEF AskedIsReached
<1>3. CASE Verify \/ Enable \/ HandleFault \/ Cut
  BY Zenon, <1>1, <1>3 DEF Verify, Enable, HandleFault, Cut, Serving, wiperVars
<1>4. CASE RampStep
  BY Zenon, <1>1, <1>4 DEF RampStep
<1>5. CASE RampDone
  BY Zenon, <1>1, <1>5 DEF RampDone, AtGoal, wiperVars
<1>6. CASE \E v \in Targets : Prepare(v) \/ SetDpotFromVtable(v)
  BY Zenon, <1>6, RampBegins DEF Prepare, SetDpotFromVtable
<1>7. CASE (\E p \in Positions : SetDpot(p)) \/ UpdateTable \/ Reset
  <2>1. asked' = 0
    BY Zenon, <1>7 DEF SetDpot, UpdateTable, Reset
  <2> QED BY Zenon, <2>1 DEF AskedIsReached
<1>8. CASE PinFault \/ UNCHANGED vars
  BY Zenon, <1>1, <1>8 DEF PinFault, vars, wiperVars, tableVars, IInv, AskedIsReached
<1> QED
  BY Zenon, <1>2, <1>3, <1>4, <1>5, <1>6, <1>7, <1>8 DEF Next, MainThread, Operator

LEMMA Invariance == Spec => []IInv
<1>1. IInv /\ [Next]_vars => IInv'
  BY Zenon, TypesStep, ReturnStep, BootStep, SafeStep, AskedStep DEF IInv
<1> QED BY InitHolds, <1>1, PTL DEF Spec

\* The variables keep their types, the ramp's goal among them.
THEOREM TypeCorrect == Spec => []TypeOK
BY Invariance, PTL DEF IInv

\* In a table that increases, what the lookup returns is nearest: the first
\* entry not below the target and the one before it enclose it.
LEMMA Nearest ==
    ASSUME TypeOK, SweepsReturn, calibrated, Increasing(table),
           NEW v \in Targets, NEW p \in Positions
    PROVE  AbsDiff(table[Lookup(v)], v) <= AbsDiff(table[p], v)
<1> DEFINE q == Found(table, count, v)
<1>1. v \in Int
  BY Zenon, TargetsAreNumbers
<1>2. count = PosMax + 1 /\ count # 0
  <2>1. count = PosMax + 1
    BY Zenon DEF SweepsReturn
  <2> QED BY SMT, <2>1, Numbers
<1>3. q \in Positions /\ IsFirst(q, v)
  BY Zenon, <1>1, <1>2, FoundIsFirst
<1>4. /\ q > 0 /\ v - table[q - 1] < table[q] - v => Lookup(v) = q - 1
      /\ ~(q > 0 /\ v - table[q - 1] < table[q] - v) => Lookup(v) = q
  BY Zenon, <1>2, LookupFinds DEF LookupIn
<1> HIDE DEF q
<1>5. \A r \in Positions : table[r] \in Int
  BY SMT, Numbers DEF TypeOK, Volts
<1>6. \A r, t \in Positions : r < t => table[r] < table[t]
  BY Zenon, Ordered DEF TypeOK
<1>7. q > 0 => /\ q - 1 \in Positions /\ q - 1 < q
               /\ table[q - 1] < v /\ table[q - 1] < table[q]
  <2>1. q > 0 => q - 1 \in Positions /\ q - 1 < q
    BY SMT, <1>3, Numbers DEF Positions
  <2> QED BY Zenon, <1>3, <1>6, <2>1 DEF IsFirst
<1>8. CASE p = q
  BY SMT, <1>1, <1>3, <1>4, <1>5, <1>7, <1>8 DEF AbsDiff
<1>9. CASE p < q
  <2>1. q > 0 /\ (p = q - 1 \/ p < q - 1)
    BY SMT, <1>3, <1>9, Numbers DEF Positions
  <2>2. table[p] = table[q - 1] \/ table[p] < table[q - 1]
    BY Zenon, <1>6, <1>7, <2>1
  <2>3. q = PosMax \/ ~(table[q] < v)
    BY Zenon, <1>3 DEF IsFirst
  <2> QED BY SMT, <1>1, <1>3, <1>4, <1>5, <1>7, <2>1, <2>2, <2>3 DEF AbsDiff
<1>10. CASE q < p
  <2>1. q # PosMax
    BY SMT, <1>3, <1>10, Numbers DEF Positions
  <2>2. ~(table[q] < v) /\ table[q] < table[p]
    BY Zenon, <1>3, <1>6, <1>10, <2>1 DEF IsFirst
  <2> QED BY SMT, <1>1, <1>3, <1>4, <1>5, <1>7, <2>2 DEF AbsDiff
<1> QED BY SMT, <1>3, <1>8, <1>9, <1>10, Numbers DEF Positions

\* boost_cal_lookup_wiper returns the position nearest to the target, for any
\* number of positions and any increasing table.
THEOREM NearestFound == Spec => []LookupIsNearest
<1>1. IInv => LookupIsNearest
  BY Zenon, Nearest DEF IInv, LookupIsNearest
<1> QED BY Invariance, <1>1, PTL

\* The device pulses at the voltage asked for, or the nearest the rail can
\* give, on any rail that its table describes truly.
THEOREM VoltageReached == Spec => []PulsesAtVoltageAsked
<1>1. IInv => PulsesAtVoltageAsked
  <2> SUFFICES ASSUME IInv, pc = "ready", asked # 0, table = rail, wiper = position,
                      NEW p \in Positions
               PROVE  AbsDiff(rail[wiper], asked) <= AbsDiff(rail[p], asked)
    BY Zenon DEF PulsesAtVoltageAsked
  <2>1. calibrated /\ wiper = Lookup(asked)
    BY Zenon DEF IInv, AskedIsReached
  <2>2. asked \in Targets /\ Increasing(table)
    BY Zenon DEF IInv, TypeOK, Rails, Increasing
  <2>3. AbsDiff(table[Lookup(asked)], asked) <= AbsDiff(table[p], asked)
    BY Zenon, <2>1, <2>2, Nearest DEF IInv
  <2> QED BY Zenon, <2>1, <2>3
<1> QED BY Invariance, <1>1, PTL

\* After a boot without disturbance the device never pulses above the ceiling
\* (verify_boost_cal_safe), whatever curve the converter has.
THEOREM CeilingKept == Spec => []CeilingAfterSmoothBoot
<1>1. IInv => CeilingAfterSmoothBoot
  <2> SUFFICES ASSUME IInv, smooth, stage = "pulsing"
               PROVE  rail[wiper] <= MaxVolts
    BY DEF CeilingAfterSmoothBoot
  <2>1. ~Booting
    BY Zenon DEF IInv, BootSeesRail
  <2>2. \A p \in Positions : rail[p] <= MaxVolts
    BY Zenon, <2>1 DEF IInv, SafeOrHalted
  <2> QED BY Zenon, <2>2 DEF IInv, TypeOK
<1> QED BY Invariance, <1>1, PTL

\* A ramp moves the rail position by position (boost_set_voltage), wherever the
\* lookup sends it.
THEOREM RampIsGradual == Spec => GradualRamp
<1> DEFINE Step == pc = "ramp" /\ wiper = position => AbsDiff(wiper', wiper) <= 1
<1>1. ASSUME IInv, [Next]_vars
      PROVE  Step
  <2> SUFFICES ASSUME pc = "ramp", wiper = position
               PROVE  AbsDiff(wiper', wiper) <= 1
    OBVIOUS
  <2>1. wiper \in Nat /\ AbsDiff(wiper, wiper) <= 1
    BY SMT, <1>1, Numbers DEF IInv, TypeOK, Positions, AbsDiff
  <2>2. CASE RampStep
    <3>1. OneOn \in Int /\ OneOn \in {position + 1, position - 1}
      BY SMT, <2>1 DEF OneOn
    <3>2. position' = Clamp(OneOn) /\ (wiper' = position' \/ wiper' = wiper)
      <4>1. TypeOK /\ Write(OneOn)
        BY Zenon, <1>1, <2>2 DEF RampStep, AtGoal, IInv
      <4> QED BY Zenon, <3>1, <4>1, Writes
    <3>3. AbsDiff(Clamp(OneOn), wiper) <= 1
      BY SMT, <1>1, <3>1, Numbers DEF IInv, TypeOK, Positions, Clamp, AbsDiff
    <3> QED BY Zenon, <2>1, <3>2, <3>3
  <2>3. CASE RampDone \/ PinFault \/ UNCHANGED vars
    <3>1. wiper' = wiper
      BY Zenon, <2>3 DEF RampDone, PinFault, vars, wiperVars
    <3> QED BY Zenon, <2>1, <3>1
  <2> QED BY Zenon, <1>1, <2>2, <2>3
      DEF Next, MainThread, Operator, SweepStep, Park, Verify, Enable, HandleFault,
          Prepare, SetDpotFromVtable, SetDpot, UpdateTable, Cut, Reset, Serving
<1>2. IInv /\ [Next]_vars => [Step]_vars
  BY <1>1
<1> QED BY Invariance, <1>2, PTL DEF Spec, GradualRamp
=============================================================================
