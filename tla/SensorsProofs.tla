--------------------------- MODULE SensorsProofs ---------------------------
(***************************************************************************)
(* Proofs about Sensors, for buffers and cycles of every size.  IInv is    *)
(* inductive: before the interrupt is armed nothing disturbs a reading;    *)
(* afterwards the interrupt can only move the multiplexer, and a result    *)
(* under way, to the output voltage.                                       *)
(***************************************************************************)
EXTENDS Sensors, TLAPS

\* What % does in the two places it is used.
LEMMA Around ==
    ASSUME NEW n \in Nat \ {0}, NEW x \in Nat, x < n + n
    PROVE  x % n = IF x < n THEN x ELSE x - n
BY SMT

\* The head and the number of a discharge stay in their ranges.
LEMMA Ranges ==
    /\ \A h \in 0..Size - 1 : Advance(h) = IF h + 1 < Size THEN h + 1 ELSE 0
    /\ \A d \in 0..Cycle - 1 : (d + 1) % Cycle \in 0..Cycle - 1
<1>1. ASSUME NEW h \in 0..Size - 1
      PROVE  Advance(h) = IF h + 1 < Size THEN h + 1 ELSE 0
  <2> DEFINE x == h + 1
  <2>1. x \in Nat /\ x < Size + Size /\ Size \in Nat \ {0}
    BY SMT, SizesAssumption
  <2> HIDE DEF x
  <2>2. x % Size = IF x < Size THEN x ELSE x - Size
    BY Zenon, <2>1, Around
  <2> QED BY SMT, <2>1, <2>2 DEF Advance, x
<1>2. ASSUME NEW d \in 0..Cycle - 1
      PROVE  (d + 1) % Cycle \in 0..Cycle - 1
  <2> DEFINE x == d + 1
  <2>1. x \in Nat /\ x < Cycle + Cycle /\ Cycle \in Nat \ {0}
    BY SMT, SizesAssumption
  <2> HIDE DEF x
  <2>2. x % Cycle = IF x < Cycle THEN x ELSE x - Cycle
    BY Zenon, <2>1, Around
  <2> QED BY SMT, <2>1, <2>2 DEF x
<1> QED BY <1>1, <1>2

LEMMA InitHolds == Init => IInv
<1> SUFFICES ASSUME Init PROVE IInv
  OBVIOUS
<1>1. TypeOK
  <2>1. /\ armed \in BOOLEAN /\ fresh \in BOOLEAN
        /\ offsets \in [{"zero_input", "zero_current"} -> Channels \cup {"none"}]
        /\ sampled \in [{"current", "voltage"} -> Channels]
    BY Zenon DEF Init, ArmedAtBoot, Channels
  <2>2. /\ head \in 0..Size - 1 /\ count \in 0..Size /\ latest \in 0..Cycle - 1
        /\ buffer \in [0..Size - 1 -> Channels \cup {"none"}]
        /\ averaged \in [{"current", "voltage"} -> 0..Cycle - 1]
    BY SMT, SizesAssumption DEF Init
  <2>3. recent \in Seq(Channels)
    BY SMT DEF Init
  <2> QED BY Zenon, <2>1, <2>2, <2>3 DEF Init, TypeOK, Channels, Purposes
<1>2. Undisturbed /\ Disturbed
  BY Zenon DEF Init, Undisturbed, Disturbed, ArmedAtBoot
<1>3. TakingLatest
  BY Zenon DEF Init, TakingLatest
<1>4. BufferHoldsTheLast
  BY SMT DEF Init, BufferHoldsTheLast
<1>5. ReadingsAreTheirOwn
  BY Zenon DEF Init, ReadingsAreTheirOwn
<1>6. StraySamplesAreVoltage
  BY SMT, SizesAssumption DEF Init, StraySamplesAreVoltage
<1> QED BY Zenon, <1>1, <1>2, <1>3, <1>4, <1>5, <1>6 DEF IInv

\* Every step keeps the variables in their types.
LEMMA TypesStep ==
    ASSUME TypeOK, [Next]_vars
    PROVE  TypeOK'
<1>1. CASE SelectInput
  BY Zenon, <1>1 DEF TypeOK, SelectInput, Channel, Channels, Purposes, readVars, adcVars, ringVars, eventVars
<1>2. CASE StartConversion
  BY Zenon, <1>2 DEF TypeOK, StartConversion, readVars, adcVars, ringVars, eventVars
<1>3. CASE ZeroInput
  BY Zenon, <1>3 DEF TypeOK, ZeroInput, Purposes, readVars, adcVars, ringVars, eventVars
<1>4. CASE ZeroCurrent
  BY Zenon, <1>4 DEF TypeOK, ZeroCurrent, readVars, adcVars, ringVars, eventVars
<1>5. CASE Arm
  BY Zenon, <1>5 DEF TypeOK, Arm, readVars, adcVars, ringVars, eventVars
<1>6. CASE Push
  <2>1. /\ buffer' \in [0..Size - 1 -> Channels \cup {"none"}]
        /\ head' \in 0..Size - 1 /\ count' \in 0..Size
    BY SMT, <1>6, SizesAssumption, Ranges DEF TypeOK, Push, Filled
  <2>2. recent' \in Seq(Channels)
    BY SMT, <1>6, SizesAssumption DEF TypeOK, Push
  <2> QED BY Zenon, <1>6, <2>1, <2>2 DEF TypeOK, Push, readVars, adcVars, ringVars, eventVars
<1>7. CASE Show
  BY Zenon, <1>7 DEF TypeOK, Show, readVars, adcVars, ringVars, eventVars
<1>8. CASE \E p \in {"push", "show"} : Read(p)
  BY Zenon, <1>8 DEF TypeOK, Read, Purposes, readVars, adcVars, ringVars, eventVars
<1>9. CASE TakeFlag
  BY Zenon, <1>9 DEF TypeOK, TakeFlag, readVars, adcVars, ringVars, eventVars
<1>10. CASE TakeCurrent
  BY Zenon, <1>10 DEF TypeOK, TakeCurrent, readVars, adcVars, ringVars, eventVars
<1>11. CASE TakeVoltage
  BY Zenon, <1>11 DEF TypeOK, TakeVoltage, readVars, adcVars, ringVars, eventVars
<1>12. CASE Discharge
  <2>1. latest' \in 0..Cycle - 1
    BY Zenon, <1>12, Ranges DEF TypeOK, Discharge
  <2>2. sampled' \in [{"current", "voltage"} -> Channels]
    BY SMT, <1>12 DEF TypeOK, Discharge, FirstSample, Channels
  <2> QED BY Zenon, <1>12, <2>1, <2>2 DEF TypeOK, Discharge, LeftAt, Channels, readVars, adcVars, ringVars, eventVars
<1>13. CASE UNCHANGED vars
  BY Zenon, <1>13 DEF TypeOK, vars, readVars, adcVars, ringVars, eventVars
<1> QED
  BY Zenon, <1>1, <1>2, <1>3, <1>4, <1>5, <1>6, <1>7, <1>8, <1>9, <1>10, <1>11, <1>12, <1>13 DEF Next, Reading, Drain

\* Every step keeps what a reading under way can get.
LEMMA ReadingStep ==
    ASSUME TypeOK, Undisturbed, Disturbed, [Next]_vars
    PROVE  Undisturbed' /\ Disturbed'
<1>1. CASE SelectInput
  BY Zenon, <1>1 DEF TypeOK, Undisturbed, Disturbed, Purposes, SelectInput, readVars, adcVars, ringVars, eventVars
<1>2. CASE StartConversion
  BY Zenon, <1>2 DEF TypeOK, Undisturbed, Disturbed, Purposes, StartConversion, readVars, adcVars, ringVars, eventVars
<1>3. CASE ZeroInput
  BY Zenon, <1>3 DEF TypeOK, Undisturbed, Disturbed, Purposes, ZeroInput, readVars, adcVars, ringVars, eventVars
<1>4. CASE ZeroCurrent
  BY Zenon, <1>4 DEF TypeOK, Undisturbed, Disturbed, Purposes, ZeroCurrent, readVars, adcVars, ringVars, eventVars
<1>5. CASE Arm
  BY Zenon, <1>5 DEF TypeOK, Undisturbed, Disturbed, Purposes, Arm, readVars, adcVars, ringVars, eventVars
<1>6. CASE Push
  BY Zenon, <1>6 DEF TypeOK, Undisturbed, Disturbed, Purposes, Push, readVars, adcVars, ringVars, eventVars
<1>7. CASE Show
  BY Zenon, <1>7 DEF TypeOK, Undisturbed, Disturbed, Purposes, Show, readVars, adcVars, ringVars, eventVars
<1>8. CASE \E p \in {"push", "show"} : Read(p)
  <2> PICK p \in {"push", "show"} : Read(p)
    BY <1>8
  <2>1. /\ pc = "rest" /\ pc' = "select" /\ purpose' \in {"push", "show"}
        /\ armed' = armed
    BY Zenon DEF Read
  <2>2. armed
    BY Zenon, <2>1 DEF Undisturbed
  <2> QED BY Zenon, <2>1, <2>2 DEF Undisturbed, Disturbed
<1>9. CASE TakeFlag
  BY Zenon, <1>9 DEF TypeOK, Undisturbed, Disturbed, Purposes, TakeFlag, readVars, adcVars, ringVars, eventVars
<1>10. CASE TakeCurrent
  BY Zenon, <1>10 DEF TypeOK, Undisturbed, Disturbed, Purposes, TakeCurrent, readVars, adcVars, ringVars, eventVars
<1>11. CASE TakeVoltage
  BY Zenon, <1>11 DEF TypeOK, Undisturbed, Disturbed, Purposes, TakeVoltage, readVars, adcVars, ringVars, eventVars
<1>12. CASE Discharge
  BY Zenon, <1>12 DEF TypeOK, Undisturbed, Disturbed, Purposes, Discharge, LeftAt, readVars, adcVars, ringVars, eventVars
<1>13. CASE UNCHANGED vars
  BY Zenon, <1>13 DEF Undisturbed, Disturbed, vars, readVars, adcVars, ringVars, eventVars
<1> QED
  BY Zenon, <1>1, <1>2, <1>3, <1>4, <1>5, <1>6, <1>7, <1>8, <1>9, <1>10, <1>11, <1>12, <1>13 DEF Next, Reading, Drain

\* Every step keeps the flag in front of what has not been averaged.
LEMMA TakingStep ==
    ASSUME TypeOK, TakingLatest, [Next]_vars
    PROVE  TakingLatest'
<1>1. CASE SelectInput
  BY Zenon, <1>1 DEF TakingLatest, SelectInput, readVars, adcVars, ringVars, eventVars
<1>2. CASE StartConversion
  BY Zenon, <1>2 DEF TakingLatest, StartConversion, readVars, adcVars, ringVars, eventVars
<1>3. CASE ZeroInput
  BY Zenon, <1>3 DEF TakingLatest, ZeroInput, readVars, adcVars, ringVars, eventVars
<1>4. CASE ZeroCurrent
  BY Zenon, <1>4 DEF TakingLatest, ZeroCurrent, readVars, adcVars, ringVars, eventVars
<1>5. CASE Arm
  BY Zenon, <1>5 DEF TakingLatest, Arm, readVars, adcVars, ringVars, eventVars
<1>6. CASE Push
  BY Zenon, <1>6 DEF TakingLatest, Push, readVars, adcVars, ringVars, eventVars
<1>7. CASE Show
  BY Zenon, <1>7 DEF TakingLatest, Show, readVars, adcVars, ringVars, eventVars
<1>8. CASE \E p \in {"push", "show"} : Read(p)
  <2>1. /\ pc = "rest" /\ pc' = "select" /\ fresh' = fresh
        /\ averaged' = averaged /\ latest' = latest
    BY Zenon, <1>8 DEF Read, eventVars
  <2> QED BY Zenon, <2>1 DEF TakingLatest
<1>9. CASE TakeFlag
  BY Zenon, <1>9 DEF TakingLatest, TakeFlag, TypeOK, readVars, adcVars, ringVars, eventVars
<1>10. CASE TakeCurrent
  BY Zenon, <1>10 DEF TakingLatest, TakeCurrent, TypeOK, readVars, adcVars, ringVars, eventVars
<1>11. CASE TakeVoltage
  BY Zenon, <1>11 DEF TakingLatest, TakeVoltage, TypeOK, readVars, adcVars, ringVars, eventVars
<1>12. CASE Discharge
  BY Zenon, <1>12 DEF TakingLatest, Discharge, readVars, adcVars, ringVars, eventVars
<1>13. CASE UNCHANGED vars
  BY Zenon, <1>13 DEF TakingLatest, vars, readVars, adcVars, ringVars, eventVars
<1> QED
  BY Zenon, <1>1, <1>2, <1>3, <1>4, <1>5, <1>6, <1>7, <1>8, <1>9, <1>10, <1>11, <1>12, <1>13 DEF Next, Reading, Drain

\* Every step keeps the offsets and the voltage to their channels.
LEMMA OwnStep ==
    ASSUME TypeOK, Undisturbed, Disturbed, ReadingsAreTheirOwn, [Next]_vars
    PROVE  ReadingsAreTheirOwn'
<1>1. CASE SelectInput
  BY Zenon, <1>1 DEF ReadingsAreTheirOwn, SelectInput, readVars, adcVars, ringVars, eventVars
<1>2. CASE StartConversion
  BY Zenon, <1>2 DEF ReadingsAreTheirOwn, StartConversion, readVars, adcVars, ringVars, eventVars
<1>3. CASE ZeroInput
  BY Zenon, <1>3 DEF ReadingsAreTheirOwn, ZeroInput, TypeOK, Undisturbed, Disturbed, Channel, Purposes, readVars, adcVars, ringVars, eventVars
<1>4. CASE ZeroCurrent
  BY Zenon, <1>4 DEF ReadingsAreTheirOwn, ZeroCurrent, TypeOK, Undisturbed, Disturbed, Channel, Purposes, readVars, adcVars, ringVars, eventVars
<1>5. CASE Arm
  BY Zenon, <1>5 DEF ReadingsAreTheirOwn, Arm, readVars, adcVars, ringVars, eventVars
<1>6. CASE Push
  BY Zenon, <1>6 DEF ReadingsAreTheirOwn, Push, readVars, adcVars, ringVars, eventVars
<1>7. CASE Show
  BY Zenon, <1>7 DEF ReadingsAreTheirOwn, Show, TypeOK, Undisturbed, Disturbed, Channel, Purposes, readVars, adcVars, ringVars, eventVars
<1>8. CASE \E p \in {"push", "show"} : Read(p)
  BY Zenon, <1>8 DEF ReadingsAreTheirOwn, Read, readVars, adcVars, ringVars, eventVars
<1>9. CASE TakeFlag
  BY Zenon, <1>9 DEF ReadingsAreTheirOwn, TakeFlag, readVars, adcVars, ringVars, eventVars
<1>10. CASE TakeCurrent
  BY Zenon, <1>10 DEF ReadingsAreTheirOwn, TakeCurrent, readVars, adcVars, ringVars, eventVars
<1>11. CASE TakeVoltage
  BY Zenon, <1>11 DEF ReadingsAreTheirOwn, TakeVoltage, readVars, adcVars, ringVars, eventVars
<1>12. CASE Discharge
  BY Zenon, <1>12 DEF ReadingsAreTheirOwn, Discharge, readVars, adcVars, ringVars, eventVars
<1>13. CASE UNCHANGED vars
  BY Zenon, <1>13 DEF ReadingsAreTheirOwn, vars, readVars, adcVars, ringVars, eventVars
<1> QED
  BY Zenon, <1>1, <1>2, <1>3, <1>4, <1>5, <1>6, <1>7, <1>8, <1>9, <1>10, <1>11, <1>12, <1>13 DEF Next, Reading, Drain

\* Every step keeps the buffer to the input's samples and the voltage's.
LEMMA StrayStep ==
    ASSUME TypeOK, Undisturbed, Disturbed, StraySamplesAreVoltage, [Next]_vars
    PROVE  StraySamplesAreVoltage'
<1>1. CASE SelectInput
  BY Zenon, <1>1 DEF StraySamplesAreVoltage, SelectInput, readVars, adcVars, ringVars, eventVars
<1>2. CASE StartConversion
  BY Zenon, <1>2 DEF StraySamplesAreVoltage, StartConversion, readVars, adcVars, ringVars, eventVars
<1>3. CASE ZeroInput
  BY Zenon, <1>3 DEF StraySamplesAreVoltage, ZeroInput, readVars, adcVars, ringVars, eventVars
<1>4. CASE ZeroCurrent
  BY Zenon, <1>4 DEF StraySamplesAreVoltage, ZeroCurrent, readVars, adcVars, ringVars, eventVars
<1>5. CASE Arm
  BY Zenon, <1>5 DEF StraySamplesAreVoltage, Arm, readVars, adcVars, ringVars, eventVars
<1>6. CASE Push
  <2>1. result \in {"input", "voltage"}
    BY Zenon, <1>6 DEF Push, Undisturbed, Disturbed, TypeOK, Channel, Purposes
  <2> QED BY Zenon, <1>6, <2>1 DEF StraySamplesAreVoltage, Push, TypeOK
<1>7. CASE Show
  BY Zenon, <1>7 DEF StraySamplesAreVoltage, Show, readVars, adcVars, ringVars, eventVars
<1>8. CASE \E p \in {"push", "show"} : Read(p)
  BY Zenon, <1>8 DEF StraySamplesAreVoltage, Read, readVars, adcVars, ringVars, eventVars
<1>9. CASE TakeFlag
  BY Zenon, <1>9 DEF StraySamplesAreVoltage, TakeFlag, readVars, adcVars, ringVars, eventVars
<1>10. CASE TakeCurrent
  BY Zenon, <1>10 DEF StraySamplesAreVoltage, TakeCurrent, readVars, adcVars, ringVars, eventVars
<1>11. CASE TakeVoltage
  BY Zenon, <1>11 DEF StraySamplesAreVoltage, TakeVoltage, readVars, adcVars, ringVars, eventVars
<1>12. CASE Discharge
  BY Zenon, <1>12 DEF StraySamplesAreVoltage, Discharge, readVars, adcVars, ringVars, eventVars
<1>13. CASE UNCHANGED vars
  BY Zenon, <1>13 DEF StraySamplesAreVoltage, vars, readVars, adcVars, ringVars, eventVars
<1> QED
  BY Zenon, <1>1, <1>2, <1>3, <1>4, <1>5, <1>6, <1>7, <1>8, <1>9, <1>10, <1>11, <1>12, <1>13 DEF Next, Reading, Drain

\* A push moves every sample one place back from the head.
LEMMA BufferStep ==
    ASSUME TypeOK, BufferHoldsTheLast, [Next]_vars
    PROVE  BufferHoldsTheLast'
<1>1. CASE SelectInput
  BY Zenon, <1>1 DEF BufferHoldsTheLast, SelectInput, readVars, adcVars, ringVars, eventVars
<1>2. CASE StartConversion
  BY Zenon, <1>2 DEF BufferHoldsTheLast, StartConversion, readVars, adcVars, ringVars, eventVars
<1>3. CASE ZeroInput
  BY Zenon, <1>3 DEF BufferHoldsTheLast, ZeroInput, readVars, adcVars, ringVars, eventVars
<1>4. CASE ZeroCurrent
  BY Zenon, <1>4 DEF BufferHoldsTheLast, ZeroCurrent, readVars, adcVars, ringVars, eventVars
<1>5. CASE Arm
  BY Zenon, <1>5 DEF BufferHoldsTheLast, Arm, readVars, adcVars, ringVars, eventVars
<1>6. CASE Push
  <2> DEFINE n == IF Len(recent) < Size THEN Len(recent) + 1 ELSE Size
  <2>1. /\ count = Len(recent) /\ count \in 0..Size /\ head \in 0..Size - 1
        /\ Size \in Nat \ {0} /\ recent \in Seq(Channels)
        /\ buffer \in [0..Size - 1 -> Channels \cup {"none"}]
    BY Zenon, SizesAssumption DEF TypeOK, BufferHoldsTheLast
  <2>2. /\ recent' = [i \in 1..n |-> IF i = 1 THEN result ELSE recent[i - 1]]
        /\ n \in Nat /\ n <= Size /\ n <= count + 1
    BY SMT, <1>6, <2>1 DEF Push
  <2>3. Len(recent') = n /\ count' = n
    BY SMT, <1>6, <2>1, <2>2 DEF Push, Filled
  <2>4. head' = IF head + 1 < Size THEN head + 1 ELSE 0
    BY Zenon, <1>6, <2>1, Ranges DEF Push
  <2>5. ASSUME NEW i \in 1..n
        PROVE  buffer'[(head' + Size - i) % Size] = recent'[i]
    <3> DEFINE x == head' + Size - i
               y == head + Size - (i - 1)
    <3>1. i \in Nat /\ 1 <= i /\ i <= Size /\ i <= count + 1
      BY SMT, <2>1, <2>2, <2>5
    <3>2. /\ x \in Nat /\ x < Size + Size
          /\ y \in Nat /\ y < Size + Size + Size
      BY SMT, <2>1, <2>4, <3>1
    <3> HIDE DEF n
    <3>3. CASE i = 1
      <4>1. x % Size = head
        <5> HIDE DEF x
        <5>1. x % Size = IF x < Size THEN x ELSE x - Size
          BY Zenon, <2>1, <3>2, Around
        <5> QED BY SMT, <2>1, <2>4, <3>3, <5>1 DEF x
      <4>2. recent'[i] = result
        BY Zenon, <2>2, <2>5, <3>3
      <4>3. buffer'[head] = result
        BY Zenon, <1>6, <2>1 DEF Push
      <4> QED BY Zenon, <4>1, <4>2, <4>3 DEF x
    <3>4. CASE i # 1
      <4>1. i - 1 \in 1..count /\ y < Size + Size
        BY SMT, <2>1, <3>1, <3>4
      <4>2. x % Size = y % Size /\ x % Size # head /\ x % Size \in 0..Size - 1
        <5> HIDE DEF x, y
        <5>1. /\ x % Size = IF x < Size THEN x ELSE x - Size
              /\ y % Size = IF y < Size THEN y ELSE y - Size
          BY Zenon, <2>1, <3>2, <4>1, Around
        <5> QED BY SMT, <2>1, <2>4, <3>1, <3>4, <5>1 DEF x, y
      <4>3. recent'[i] = recent[i - 1]
        BY Zenon, <2>2, <2>5, <3>4
      <4>4. buffer[y % Size] = recent[i - 1]
        BY Zenon, <4>1 DEF BufferHoldsTheLast, y
      <4>5. buffer'[x % Size] = buffer[x % Size]
        BY Zenon, <1>6, <2>1, <4>2 DEF Push
      <4> QED BY Zenon, <4>2, <4>3, <4>4, <4>5 DEF x
    <3> QED BY Zenon, <3>3, <3>4
  <2> HIDE DEF n
  <2> QED BY Zenon, <2>3, <2>5 DEF BufferHoldsTheLast
<1>7. CASE Show
  BY Zenon, <1>7 DEF BufferHoldsTheLast, Show, readVars, adcVars, ringVars, eventVars
<1>8. CASE \E p \in {"push", "show"} : Read(p)
  BY Zenon, <1>8 DEF BufferHoldsTheLast, Read, readVars, adcVars, ringVars, eventVars
<1>9. CASE TakeFlag
  BY Zenon, <1>9 DEF BufferHoldsTheLast, TakeFlag, readVars, adcVars, ringVars, eventVars
<1>10. CASE TakeCurrent
  BY Zenon, <1>10 DEF BufferHoldsTheLast, TakeCurrent, readVars, adcVars, ringVars, eventVars
<1>11. CASE TakeVoltage
  BY Zenon, <1>11 DEF BufferHoldsTheLast, TakeVoltage, readVars, adcVars, ringVars, eventVars
<1>12. CASE Discharge
  BY Zenon, <1>12 DEF BufferHoldsTheLast, Discharge, readVars, adcVars, ringVars, eventVars
<1>13. CASE UNCHANGED vars
  BY Zenon, <1>13 DEF BufferHoldsTheLast, vars, readVars, adcVars, ringVars, eventVars
<1> QED
  BY Zenon, <1>1, <1>2, <1>3, <1>4, <1>5, <1>6, <1>7, <1>8, <1>9, <1>10, <1>11, <1>12, <1>13 DEF Next, Reading, Drain

LEMMA Invariance == Spec => []IInv
<1>1. IInv /\ [Next]_vars => IInv'
  BY Zenon, TypesStep, ReadingStep, TakingStep, OwnStep, StrayStep, BufferStep DEF IInv
<1> QED BY InitHolds, <1>1, PTL DEF Spec

\* The type invariant, for every size of the buffer.
THEOREM TypeCorrect == Spec => []TypeOK
<1>1. IInv => TypeOK
  BY Zenon DEF IInv
<1> QED BY Invariance, <1>1, PTL

\* The average of the input current is over the last samples
\* (sensors_sample_input_current), for every size of the buffer.
THEOREM BufferKept == Spec => []BufferHoldsTheLast
<1>1. IInv => BufferHoldsTheLast
  BY Zenon DEF IInv
<1> QED BY Invariance, <1>1, PTL

\* Offsets and voltages are read off their own channels, although the discharge
\* interrupt shares the multiplexer (output_overcurrent_isr).
THEOREM ChannelsKept == Spec => []ReadingsAreTheirOwn
<1>1. IInv => ReadingsAreTheirOwn
  BY Zenon DEF IInv
<1> QED BY Invariance, <1>1, PTL

\* No sample of the output current ever gets among the input current's.
THEOREM StraysHarmless == Spec => []StraySamplesAreVoltage
<1>1. IInv => StraySamplesAreVoltage
  BY Zenon DEF IInv
<1> QED BY Invariance, <1>1, PTL

\* The averages never rest on an older discharge than the latest, wherever the
\* interrupt comes in output_run_isofreq; the ones it overwrites are lost.
THEOREM LatestTaken == Spec => []LatestIsAveraged
<1>1. IInv => LatestIsAveraged
  BY Zenon DEF IInv, TakingLatest, LatestIsAveraged
<1> QED BY Invariance, <1>1, PTL
============================================================================
