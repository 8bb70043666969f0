------------------------- MODULE CommandLineProofs -------------------------
(***************************************************************************)
(* Proofs about CommandLine, for lines, intervals and clocks of every      *)
(* size.  A line is read as it was typed because what is stored goes along *)
(* with what is typed unit by unit, for as long as it fits.  What makes    *)
(* the spacing of the telemetry inductive is ClockTells: the difference of *)
(* two readings of the clock is the time between them as long as that time *)
(* is shorter than one turn of the clock; when it is not, an interval has  *)
(* gone by long since.                                                     *)
(***************************************************************************)
EXTENDS CommandLine, TLAPS

Adding    == INSTANCE Folding WITH op <- Add
Keeping   == INSTANCE Folding WITH op <- Keep
Splitting == INSTANCE Folding WITH op <- Split

\* What % does in the places it is used.
LEMMA Around ==
    ASSUME NEW n \in Nat \ {0}, NEW x \in Int, -n < x, x < n + n
    PROVE  x % n = IF x < 0 THEN x + n ELSE IF x < n THEN x ELSE x - n
BY SMT

\* A clock that goes on by less than a turn.
LEMMA Clock ==
    ASSUME NEW t \in 0..Wrap - 1, NEW s \in 0..Wrap - 1, NEW d \in 1..MaxIteration
    PROVE  LET u == (t + d) % Wrap
           IN  /\ u \in 0..Wrap - 1
               /\ (u - t) % Wrap = d
               /\ (t - s) % Wrap \in 0..Wrap - 1
               /\ ((t - s) % Wrap) + d < Wrap => (u - s) % Wrap = ((t - s) % Wrap) + d
<1> DEFINE a == t + d
           u == a % Wrap
           b == u - t
           c == t - s
           e == u - s
<1>1. /\ Wrap \in Nat \ {0} /\ d \in Nat /\ 0 < d /\ d < Wrap
      /\ t \in Int /\ 0 <= t /\ t < Wrap /\ s \in Int /\ 0 <= s /\ s < Wrap
  BY SMT, ClockAssumption
<1>2. /\ a \in Int /\ -Wrap < a /\ a < Wrap + Wrap
      /\ c \in Int /\ -Wrap < c /\ c < Wrap + Wrap
  BY SMT, <1>1
<1>3. u = IF a < Wrap THEN a ELSE a - Wrap
  <2> HIDE DEF a
  <2>1. a % Wrap = IF a < 0 THEN a + Wrap ELSE IF a < Wrap THEN a ELSE a - Wrap
    BY Zenon, <1>1, <1>2, Around
  <2> QED BY SMT, <1>1, <2>1 DEF a
<1>4. u \in Int /\ 0 <= u /\ u < Wrap
  BY SMT, <1>1, <1>3
<1> HIDE DEF u
<1>5. /\ b \in Int /\ -Wrap < b /\ b < Wrap + Wrap
      /\ e \in Int /\ -Wrap < e /\ e < Wrap + Wrap
  BY SMT, <1>1, <1>4
<1> HIDE DEF b, c, e
<1>6. b % Wrap = IF b < 0 THEN b + Wrap ELSE IF b < Wrap THEN b ELSE b - Wrap
  BY Zenon, <1>1, <1>5, Around
<1>7. c % Wrap = IF c < 0 THEN c + Wrap ELSE IF c < Wrap THEN c ELSE c - Wrap
  BY Zenon, <1>1, <1>2, Around
<1>8. e % Wrap = IF e < 0 THEN e + Wrap ELSE IF e < Wrap THEN e ELSE e - Wrap
  BY Zenon, <1>1, <1>5, Around
<1>9. b % Wrap = d
  BY SMT, <1>1, <1>3, <1>6 DEF b
<1>10. c % Wrap \in 0..Wrap - 1
  BY SMT, <1>1, <1>7 DEF c
<1>11. (c % Wrap) + d < Wrap => e % Wrap = (c % Wrap) + d
  BY SMT, <1>1, <1>3, <1>7, <1>8 DEF c, e
<1>12. u \in 0..Wrap - 1
  BY SMT, <1>1, <1>4
<1> QED BY Zenon, <1>9, <1>10, <1>11, <1>12 DEF u, b, c, e

\* Every unit has a length, but for a return, which counts for nothing.
LEMMA UnitLengths ==
    ASSUME NEW u \in Units
    PROVE  IF u = "cr" THEN Length(u) = 0 ELSE Length(u) \in Nat \ {0}
<1>1. CASE u \in Words
  <2>1. u # "cr" /\ WordLen[u] \in Nat \ {0}
    BY SMT, <1>1, LineAssumption
  <2> QED BY Zenon, <1>1, <2>1 DEF Length
<1>2. CASE u = "blank"
  BY SMT, <1>2, LineAssumption DEF Length
<1>3. CASE u = "cr"
  <2>1. u \notin Words /\ u # "blank"
    BY SMT, <1>3, LineAssumption
  <2> QED BY Zenon, <1>3, <2>1 DEF Length
<1> QED BY Zenon, <1>1, <1>2, <1>3 DEF Units

(***************************************************************************)
(* What the folds over a line give for an empty one and for one unit more. *)
(***************************************************************************)

LEMMA Sums ==
    /\ Sum(<< >>) = 0
    /\ \A s \in Seq(Units), u \in Units : Sum(Append(s, u)) = Sum(s) + Length(u)
<1>1. \A s : Sum(s) = Adding!Folded(0, s)
  BY Zenon DEF Sum, FoldLeft, MapThenFoldSet, Adding!FoldLeft, Adding!MapThenFoldSet,
     Adding!Folded, Max, Adding!Max
<1>2. ASSUME NEW s \in Seq(Units), NEW u \in Units
      PROVE  Sum(Append(s, u)) = Add(Sum(s), u)
  BY Zenon, <1>1, Adding!FoldAppend
<1> QED BY Zenon, <1>1, <1>2, Adding!FoldEmpty DEF Add

LEMMA Returns ==
    /\ WithoutReturns(<< >>) = << >>
    /\ \A s \in Seq(Units), u \in Units :
          WithoutReturns(Append(s, u)) =
              IF u = "cr" THEN WithoutReturns(s) ELSE Append(WithoutReturns(s), u)
<1>1. \A s : WithoutReturns(s) = Keeping!Folded(<< >>, s)
  BY Zenon DEF WithoutReturns, FoldLeft, MapThenFoldSet, Keeping!FoldLeft,
     Keeping!MapThenFoldSet, Keeping!Folded, Max, Keeping!Max
<1>2. ASSUME NEW s \in Seq(Units), NEW u \in Units
      PROVE  WithoutReturns(Append(s, u)) = Keep(WithoutReturns(s), u)
  BY Zenon, <1>1, Keeping!FoldAppend
<1> QED BY Zenon, <1>1, <1>2, Keeping!FoldEmpty DEF Keep

LEMMA NoTokens == Tokens(<< >>) = << >>
<1> DEFINE start == [begun |-> FALSE, tokens |-> << >>]
<1>1. FoldLeft(Split, start, << >>) = Splitting!Folded(start, << >>)
  BY Zenon DEF FoldLeft, MapThenFoldSet, Splitting!FoldLeft, Splitting!MapThenFoldSet,
     Splitting!Folded, Max, Splitting!Max
<1>2. FoldLeft(Split, start, << >>) = start
  BY Zenon, <1>1, Splitting!FoldEmpty
<1>3. start.tokens = << >>
  BY Zenon
<1> HIDE DEF start
<1>4. FoldLeft(Split, start, << >>).tokens = << >>
  BY Zenon, <1>2, <1>3
<1> QED BY Zenon, <1>4 DEF Tokens, start

LEMMA LineStays ==
    ASSUME LineHoldsTyped, UNCHANGED <<line, index, overflow, typed>>
    PROVE  LineHoldsTyped'
BY Zenon DEF LineHoldsTyped

\* Whatever is typed, a line has one of the answers.
LEMMA Outcomes ==
    ASSUME NEW tokens, on \in BOOLEAN
    PROVE  Execute(tokens).reply \in Replies /\ Execute(tokens).on \in BOOLEAN
<1>1. ASSUME NEW rr \in Replies, NEW o \in BOOLEAN
      PROVE  Outcome(rr, o).reply \in Replies /\ Outcome(rr, o).on \in BOOLEAN
  BY Zenon, <1>1 DEF Outcome
<1>2. Dispatch(tokens).reply \in Replies /\ Dispatch(tokens).on \in BOOLEAN
  <2> DEFINE name == tokens[1][1]
             bad == tokens[1] # <<name>> \/ name \notin DOMAIN Arity
             o == IF name = "SET_TELEMETRY" THEN tokens[2] \in {<<"on">>, <<"ON">>}
                  ELSE name = "RESET_DEVICE" \/ on
  <2>1. o \in BOOLEAN
    <3>1. (tokens[2] \in {<<"on">>, <<"ON">>}) \in BOOLEAN
      OBVIOUS
    <3>2. (name = "RESET_DEVICE" \/ on) \in BOOLEAN
      OBVIOUS
    <3> QED BY <3>1, <3>2
  <2>2. \/ Dispatch(tokens) = Outcome("unknown command", on)
        \/ Dispatch(tokens) = Outcome("wrong arguments", on)
        \/ Dispatch(tokens) = Outcome("handled", o)
    BY Zenon DEF Dispatch
  <2> HIDE DEF o
  <2>3. {"unknown command", "wrong arguments", "handled"} \subseteq Replies
    BY Zenon DEF Replies
  <2> QED BY Zenon, <1>1, <2>1, <2>2, <2>3
<1>3. \/ Execute(tokens) = Outcome("none", on)
      \/ Execute(tokens) = Outcome("too many arguments", on)
      \/ Execute(tokens) = Dispatch(tokens)
  BY Zenon DEF Execute
<1>4. {"none", "too many arguments"} \subseteq Replies
  BY Zenon DEF Replies
<1> QED BY Zenon, <1>1, <1>2, <1>3, <1>4

LEMMA InitHolds == Init => IInv
<1> SUFFICES ASSUME Init PROVE IInv
  OBVIOUS
<1>1. index \in 0..LineMax /\ since \in 0..Interval /\ now \in 0..Wrap - 1 /\ last \in 0..Wrap - 1
  BY SMT, LineAssumption, ClockAssumption DEF Init
<1>2. line \in Seq(Units \ {"cr"}) /\ typed \in Seq(Units)
  BY SMT DEF Init
<1>3. since = (now - last) % Wrap
  BY SMT, ClockAssumption, Around DEF Init
<1>4. LineHoldsTyped
  BY Zenon, Sums, Returns DEF Init, LineHoldsTyped
<1> QED BY Zenon, <1>1, <1>2, <1>3, <1>4 DEF Init, IInv, TypeOK, Replies, ClockTells

\* A typed unit leaves the clock alone and the line within its buffer.
LEMMA UnitStep ==
    ASSUME IInv, NEW u \in Units, Receive(u),
           (u = "cr" /\ UNCHANGED <<line, index, overflow>>) \/ Store(u) \/ Spill(u)
    PROVE  IInv'
<1>1. typed' \in Seq(Units) /\ typed' # << >>
  BY SMT DEF IInv, TypeOK, Receive
<1>2. /\ line' \in Seq(Units \ {"cr"}) /\ index' \in 0..LineMax /\ overflow' \in BOOLEAN
  <2>1. CASE UNCHANGED <<line, index, overflow>>
    BY Zenon, <2>1 DEF IInv, TypeOK
  <2>2. CASE Store(u)
    <3>1. line' \in Seq(Units \ {"cr"})
      BY SMT, <2>2 DEF IInv, TypeOK, Store
    <3>2. index' \in 0..LineMax
      BY SMT, <2>2, UnitLengths, LineAssumption DEF IInv, TypeOK, Store, Fits
    <3> QED BY Zenon, <2>2, <3>1, <3>2 DEF IInv, TypeOK, Store
  <2>3. CASE Spill(u)
    <3>1. index' \in 0..LineMax
      BY SMT, <2>3, LineAssumption DEF Spill
    <3> QED BY Zenon, <2>3, <3>1 DEF IInv, TypeOK, Spill
  <2> QED BY <2>1, <2>2, <2>3
<1>3. /\ typed \in Seq(Units) /\ typed' = Append(typed, u) /\ LineMax \in Nat /\ index \in 0..LineMax
      /\ LineHoldsTyped
  BY Zenon, LineAssumption DEF IInv, TypeOK, Receive
<1>4. Sum(typed') = Sum(typed) + Length(u)
  BY Zenon, <1>3, Sums
<1>5. WithoutReturns(typed') = IF u = "cr" THEN WithoutReturns(typed) ELSE Append(WithoutReturns(typed), u)
  BY Zenon, <1>3, Returns
<1>6. LineHoldsTyped'
  <2>1. CASE u = "cr" /\ UNCHANGED <<line, index, overflow>>
    <3>1. Sum(typed') = Sum(typed)
      <4>1. Length(u) = 0
        BY Zenon, <2>1, UnitLengths
      <4>2. Sum(typed) \in Int
        BY SMT, <1>3 DEF LineHoldsTyped
      <4> QED BY SMT, <1>4, <4>1, <4>2
    <3> QED BY Zenon, <1>1, <1>3, <1>5, <2>1, <3>1 DEF LineHoldsTyped
  <2>2. CASE Store(u)
    <3>1. /\ u # "cr" /\ index + Length(u) <= LineMax /\ line' = Append(line, u)
          /\ index' = index + Length(u) /\ overflow' = overflow
      BY Zenon, <2>2 DEF Store, Fits
    <3>2. Length(u) \in Nat \ {0}
      BY Zenon, <3>1, UnitLengths
    <3>3. index' # 0
      BY SMT, <1>3, <3>1, <3>2
    <3>4. overflow => Sum(typed') \in Nat \ 0..LineMax
      <4>1. overflow => Sum(typed) \in Nat \ 0..LineMax
        BY Zenon, <1>3 DEF LineHoldsTyped
      <4> QED BY SMT, <1>3, <1>4, <3>2, <4>1
    <3>5. ~overflow => line' = WithoutReturns(typed') /\ index' = Sum(typed')
      BY Zenon, <1>3, <1>4, <1>5, <3>1 DEF LineHoldsTyped
    <3> QED BY Zenon, <1>1, <3>1, <3>3, <3>4, <3>5 DEF LineHoldsTyped
  <2>3. CASE Spill(u)
    <3>1. u # "cr" /\ ~(index + Length(u) <= LineMax) /\ index' = LineMax /\ overflow' = TRUE
      BY Zenon, <2>3 DEF Spill, Fits
    <3>2. Length(u) \in Nat \ {0}
      BY Zenon, <3>1, UnitLengths
    <3>3. Sum(typed) \in Nat \ 0..LineMax \/ Sum(typed) = index
      BY Zenon, <1>3 DEF LineHoldsTyped
    <3>4. Sum(typed') \in Nat \ 0..LineMax
      BY SMT, <1>3, <1>4, <3>1, <3>2, <3>3
    <3>5. index' # 0
      BY SMT, <3>1, LineAssumption
    <3> QED BY Zenon, <1>1, <3>1, <3>4, <3>5 DEF LineHoldsTyped
  <2> QED BY Zenon, <2>1, <2>2, <2>3
<1> QED BY Zenon, <1>1, <1>2, <1>6 DEF IInv, TypeOK, Receive, Replies, ClockTells, clockVars

\* A whole line.
LEMMA LineStep ==
    ASSUME IInv, EndOfLine
    PROVE  IInv'
<1>1. on \in BOOLEAN /\ fault \in BOOLEAN
  BY Zenon DEF IInv, TypeOK
<1>2. reply' \in Replies /\ on' \in BOOLEAN
  <2> DEFINE x == Execute(Tokens(line))
  <2>1. x.reply \in Replies /\ x.on \in BOOLEAN
    BY <1>1, Outcomes
  <2> HIDE DEF x
  <2>2. \/ reply' = x.reply /\ on' = x.on
        \/ reply' \in {"line too long", "none"} /\ on' = on
    BY Zenon DEF EndOfLine, Outcome, x
  <2> QED BY Zenon, <1>1, <2>1, <2>2 DEF Replies
<1>3. line' = << >> /\ typed' = << >> /\ index' = 0 /\ overflow' = FALSE
  BY Zenon DEF EndOfLine, Unspoilt
<1>4. line' \in Seq(Units \ {"cr"}) /\ typed' \in Seq(Units) /\ index' \in 0..LineMax
  BY SMT, <1>3, LineAssumption
<1>5. \/ UNCHANGED <<fault, now, last, since>>
      \/ fault' = FALSE /\ now' = 0 /\ last' = 0 /\ since' = 0
  BY Zenon DEF EndOfLine, Restart, clockVars
<1>6. LineHoldsTyped'
  <2>1. 0 \notin Nat \ 0..LineMax
    BY SMT, LineAssumption
  <2> QED BY Zenon, <1>3, <2>1, Sums, Returns DEF LineHoldsTyped
<1>7. CASE UNCHANGED <<fault, now, last, since>>
  BY Zenon, <1>1, <1>2, <1>3, <1>4, <1>7, <1>6 DEF IInv, TypeOK, ClockTells
<1>8. CASE fault' = FALSE /\ now' = 0 /\ last' = 0 /\ since' = 0
  <2>1. /\ now' \in 0..Wrap - 1 /\ last' \in 0..Wrap - 1 /\ since' \in 0..Interval
        /\ since' = (now' - last') % Wrap
    BY SMT, <1>8, ClockAssumption, Around
  <2> QED BY Zenon, <1>2, <1>3, <1>4, <1>8, <1>6, <2>1 DEF IInv, TypeOK, ClockTells
<1> QED BY <1>5, <1>7, <1>8

\* An iteration of the loop: no block less than an interval after the last one.
LEMMA LoopStep ==
    ASSUME IInv, NEW d \in 1..MaxIteration, Iteration(d)
    PROVE  /\ IInv'
           /\ since' = 0 => since + ((now' - now) % Wrap) >= Interval
<1> DEFINE sent == on /\ ~fault /\ Due
           ago == (now - last) % Wrap
           after == (now' - last) % Wrap
<1>1. /\ now \in 0..Wrap - 1 /\ last \in 0..Wrap - 1 /\ since \in 0..Interval
      /\ on \in BOOLEAN /\ fault \in BOOLEAN
      /\ since < Interval => since = ago
  BY Zenon DEF IInv, TypeOK, ClockTells
<1>2. /\ now' \in 0..Wrap - 1 /\ (now' - now) % Wrap = d
      /\ ago \in 0..Wrap - 1
      /\ ago + d < Wrap => after = ago + d
  BY Zenon, <1>1, Clock DEF Iteration
<1>3. /\ last' = (IF sent THEN now' ELSE last)
      /\ since' = (IF sent THEN 0 ELSE Later(d))
      /\ sent => after >= Interval
      /\ UNCHANGED <<line, index, overflow, typed, reply, on, fault>>
  BY Zenon DEF Iteration, LastSent, Due, lineVars
<1> HIDE DEF sent, ago, after
<1>4. /\ Interval \in Nat \ {0} /\ MaxIteration \in Nat \ {0} /\ Wrap \in Nat
      /\ Interval + MaxIteration <= Wrap /\ d \in Nat /\ 0 < d /\ d <= MaxIteration
  BY SMT, ClockAssumption
<1>5. CASE sent
  <2>1. last' = now' /\ since' = 0 /\ after >= Interval
    BY Zenon, <1>3, <1>5
  <2>2. since + d >= Interval
    BY SMT, <1>1, <1>2, <1>4, <2>1
  <2>3. since' \in 0..Interval /\ last' \in 0..Wrap - 1
    BY SMT, <1>2, <1>4, <2>1
  <2>4. (now' - last') % Wrap = 0
    <3> DEFINE z == now' - last'
    <3>1. z = 0
      <4>1. now' \in 0..Wrap - 1 /\ last' = now'
        BY Zenon, <1>2, <2>1
      <4>2. \A v \in 0..Wrap - 1 : v - v = 0
        BY SMT, <1>4
      <4> QED BY Zenon, <4>1, <4>2
    <3> QED BY SMT, <1>4, <3>1, Around
  <2>5. ClockTells'
    BY Zenon, <2>1, <2>4 DEF ClockTells
  <2>6. IInv'
    BY Zenon, <1>2, <1>3, <2>3, <2>5, LineStays DEF IInv, TypeOK
  <2>7. since + ((now' - now) % Wrap) >= Interval
    BY Zenon, <1>2, <2>2
  <2> QED BY <2>6, <2>7
<1>6. CASE ~sent
  <2>1. last' = last /\ since' = Later(d)
    BY Zenon, <1>3, <1>6
  <2>2. since' \in 0..Interval /\ since' # 0
    BY SMT, <1>1, <1>4, <2>1 DEF Later
  <2>3. since' < Interval => since' = after
    BY SMT, <1>1, <1>2, <1>4, <2>1 DEF Later
  <2>4. ClockTells'
    BY Zenon, <2>1, <2>3 DEF ClockTells, after
  <2>5. IInv'
    BY Zenon, <1>1, <1>2, <1>3, <2>1, <2>2, <2>4, LineStays DEF IInv, TypeOK
  <2> QED BY <2>2, <2>5
<1> QED BY <1>5, <1>6

LEMMA Invariance == Spec => []IInv
<1>1. ASSUME IInv, [Next]_vars
      PROVE  IInv'
  <2>1. CASE SkipReturn
    <3>1. "cr" \in Units /\ Receive("cr") /\ UNCHANGED <<line, index, overflow>>
      BY Zenon, <2>1 DEF SkipReturn, Units
    <3> QED BY Zenon, <1>1, <3>1, UnitStep
  <2>2. CASE \E u \in Units : Store(u) \/ Spill(u)
    <3>1. PICK u \in Units : Store(u) \/ Spill(u)
      BY <2>2
    <3>2. Receive(u)
      BY Zenon, <3>1 DEF Store, Spill
    <3> QED BY Zenon, <1>1, <3>1, <3>2, UnitStep
  <2>3. CASE EndOfLine
    BY <1>1, <2>3, LineStep
  <2>4. CASE Loop
    BY Zenon, <1>1, <2>4, LoopStep DEF Loop
  <2>5. CASE FaultComesOrGoes
    <3>1. fault' \in BOOLEAN
      BY Zenon, <2>5 DEF FaultComesOrGoes
    <3> QED BY Zenon, <1>1, <2>5, <3>1, LineStays
        DEF FaultComesOrGoes, IInv, TypeOK, ClockTells, lineVars, clockVars
  <2>6. CASE UNCHANGED vars
    BY Zenon, <1>1, <2>6, LineStays DEF vars, IInv, TypeOK, ClockTells
  <2> QED BY Zenon, <1>1, <2>1, <2>2, <2>3, <2>4, <2>5, <2>6 DEF Next, Poll
<1> QED BY InitHolds, <1>1, PTL DEF Spec

\* The type invariant; with it, the line never leaves its buffer (cmd_poll).
THEOREM TypeCorrect == Spec => []TypeOK
<1>1. IInv => TypeOK
  BY Zenon DEF IInv
<1> QED BY Invariance, <1>1, PTL

\* Every line is answered for what was typed in it, however long the buffer and
\* whatever lines came before (cmd_poll).
THEOREM ReadAsTyped == Spec => LineReadAsTyped
<1> DEFINE Step == typed # << >> /\ typed' = << >> =>
                       [reply |-> reply', on |-> on'] = Meaning(typed)
<1>1. ASSUME IInv, [Next]_vars
      PROVE  Step
  <2> SUFFICES ASSUME typed # << >>, typed' = << >>
               PROVE  [reply |-> reply', on |-> on'] = Meaning(typed)
    OBVIOUS
  <2>1. EndOfLine
    <3>1. ~(\E u \in Units : Receive(u))
      BY SMT, <1>1 DEF IInv, TypeOK, Receive
    <3>2. typed' # typed
      OBVIOUS
    <3> QED BY Zenon, <1>1, <3>1, <3>2
        DEF Next, Poll, SkipReturn, Store, Spill, Units, Loop, Iteration, FaultComesOrGoes,
            lineVars, vars
  <2>2. /\ IF overflow THEN Sum(typed) \in Nat \ 0..LineMax
           ELSE line = WithoutReturns(typed) /\ index = Sum(typed)
        /\ index = 0 => ~overflow /\ line = << >>
        /\ index \in 0..LineMax /\ LineMax \in Nat
    BY Zenon, <1>1, LineAssumption DEF IInv, TypeOK, LineHoldsTyped
  <2>3. CASE overflow
    <3>1. Sum(typed) > LineMax
      BY SMT, <2>2, <2>3
    <3>2. reply' = Outcome("line too long", on).reply /\ on' = Outcome("line too long", on).on
      BY Zenon, <2>1, <2>3 DEF EndOfLine
    <3> QED BY Zenon, <3>1, <3>2 DEF Meaning, Outcome
  <2>4. CASE ~overflow
    <3> DEFINE x == Execute(Tokens(line))
    <3>1. ~(Sum(typed) > LineMax) /\ Meaning(typed) = x
      <4>1. ~(Sum(typed) > LineMax)
        BY SMT, <2>2, <2>4
      <4> QED BY Zenon, <2>2, <2>4, <4>1 DEF Meaning
    <3>2. x = [reply |-> x.reply, on |-> x.on]
      BY Zenon DEF Execute, Dispatch, Outcome
    <3>3. reply' = x.reply /\ on' = x.on
      <4>1. CASE index > 0
        BY Zenon, <2>1, <2>4, <4>1 DEF EndOfLine
      <4>2. CASE ~(index > 0)
        <5>1. index = 0
          BY SMT, <2>2, <4>2
        <5>2. x = Outcome("none", on)
          BY Zenon, <2>2, <5>1, NoTokens DEF Execute
        <5> QED BY Zenon, <2>1, <2>4, <4>2, <5>2 DEF EndOfLine
      <4> QED BY Zenon, <4>1, <4>2
    <3> QED BY Zenon, <3>1, <3>2, <3>3
  <2> QED BY Zenon, <2>3, <2>4
<1>2. IInv /\ [Next]_vars => [Step]_vars
  BY <1>1
<1> QED BY Invariance, <1>2, PTL DEF Spec, LineReadAsTyped

\* Any two periodic blocks are an interval apart, one right after the other
\* included, for every interval and every width of the clock, whatever was typed
\* and however long telemetry was off (cmd_tick).
THEOREM Spaced == Spec => TelemetrySpaced
<1> DEFINE Step == since' = 0 /\ now' # now /\ typed' = typed =>
                       since + ((now' - now) % Wrap) >= Interval
<1>1. ASSUME IInv, [Next]_vars
      PROVE  Step
  <2> SUFFICES ASSUME since' = 0, now' # now, typed' = typed
               PROVE  since + ((now' - now) % Wrap) >= Interval
    OBVIOUS
  <2>1. CASE Loop
    BY Zenon, <1>1, <2>1, LoopStep DEF Loop
  <2>2. CASE EndOfLine
    <3>1. index = 0
      BY Zenon, <1>1, <2>2 DEF EndOfLine, IInv, LineHoldsTyped
    <3>2. ~(index > 0)
      BY SMT, <3>1
    <3>3. now' = now
      BY Zenon, <2>2, <3>2 DEF EndOfLine, clockVars
    <3> QED BY Zenon, <3>3
  <2>3. CASE \/ SkipReturn \/ FaultComesOrGoes \/ UNCHANGED vars
             \/ \E u \in Units : Store(u) \/ Spill(u)
    <3>1. now' = now
      BY Zenon, <2>3
      DEF SkipReturn, FaultComesOrGoes, Store, Spill, Receive, vars, clockVars
    <3> QED BY Zenon, <3>1
  <2> QED BY Zenon, <1>1, <2>1, <2>2, <2>3 DEF Next, Poll
<1>2. IInv /\ [Next]_vars => [Step]_vars
  BY <1>1
<1> QED BY Invariance, <1>2, PTL DEF Spec, TelemetrySpaced
============================================================================
