--------------------------- MODULE HostLinkProofs ---------------------------
(***************************************************************************)
(* Proofs about HostLink, for any number of workers and queues of any      *)
(* length.  What the interface is left with when it has read its queue     *)
(* comes from Folding; the rest is one inductive invariant.                *)
(***************************************************************************)
EXTENDS HostLink, LeastNumber

Reading == INSTANCE Folding WITH op <- Handle

LEMMA ReadingFolds ==
    ASSUME NEW a, NEW q
    PROVE  FoldLeft(Handle, a, q) = Reading!Folded(a, q)
BY Zenon DEF FoldLeft, MapThenFoldSet, Reading!FoldLeft, Reading!MapThenFoldSet,
   Reading!Folded, Max, Reading!Max

(***************************************************************************)
(* What the interface makes of its queue.                                  *)
(***************************************************************************)

\* One message.
LEMMA HandleOne ==
    ASSUME NEW a \in Interfaces, NEW m \in Messages
    PROVE  /\ Handle(a, m) \in Interfaces /\ Handle(a, m).live = a.live
           /\ m = "connected" => Handle(a, m).worker = a.worker
           /\ m = "ended" => Disconnected(Handle(a, m))
           /\ m \in Faults => /\ Handle(a, m).worker = a.worker
                              /\ Handle(a, m).enabled = a.enabled
                              /\ Handle(a, m).button = a.button
<1>1. /\ m = "connected" => m # "ended" /\ m \notin Faults
      /\ m = "ended" => m # "connected" /\ m \notin Faults
      /\ m \in Faults => m # "connected" /\ m # "ended"
  BY SMT DEF Faults
<1>2. CASE m = "connected"
  <2>1. Handle(a, m) = [a EXCEPT !.enabled = TRUE]
    BY Zenon, <1>1, <1>2 DEF Handle
  <2>2. [a EXCEPT !.enabled = TRUE] \in Interfaces
    BY Zenon DEF Interfaces
  <2> QED BY Zenon, <1>1, <1>2, <2>1, <2>2 DEF Interfaces
<1>3. CASE m = "ended"
  <2> DEFINE b == [a EXCEPT !.worker = NoWorker, !.enabled = FALSE, !.button = "Connect"]
  <2>1. Handle(a, m) = b
    BY Zenon, <1>1, <1>3 DEF Handle
  <2>2. b \in Interfaces
    BY Zenon DEF Interfaces
  <2>3. b.worker = NoWorker /\ ~b.enabled /\ b.button = "Connect" /\ b.live = a.live
    BY Zenon DEF Interfaces
  <2> QED BY Zenon, <1>1, <1>3, <2>1, <2>2, <2>3 DEF Disconnected
<1>4. CASE m \in Faults
  <2>1. Handle(a, m) = [a EXCEPT !.readout = m]
    BY Zenon, <1>1, <1>4 DEF Handle, ShowFault
  <2>2. [a EXCEPT !.readout = m] \in Interfaces
    BY SMT, <1>4 DEF Interfaces
  <2> QED BY Zenon, <1>1, <1>4, <2>1, <2>2 DEF Interfaces
<1> QED BY Zenon, <1>2, <1>3, <1>4 DEF Messages

\* All of them: an end that no new beginning follows disconnects the interface,
\* and without an end it keeps its worker.
LEMMA ReadToTheEnd ==
    ASSUME NEW a \in Interfaces, NEW q \in Seq(Messages)
    PROVE  LET b == FoldLeft(Handle, a, q)
           IN  /\ b \in Interfaces /\ b.live = a.live /\ b.worker \in {a.worker, NoWorker}
               /\ ~Contains(q, "ended") => b.worker = a.worker
               /\ Silent(q) /\ ~a.enabled => ~b.enabled
               /\ Silent(q) /\ Disconnected(a) => Disconnected(b)
               /\ Closes(q) => Disconnected(b)
<1>1. PICK h : /\ Reading!Steps(h, a, q)
               /\ Reading!Folded(a, q) = h[Len(q)]
  BY Zenon, Reading!FoldSteps
<1>2. Len(q) \in Nat
  BY SMT
<1> DEFINE Shown(k) ==
             /\ h[k] \in Interfaces /\ h[k].live = a.live /\ h[k].worker \in {a.worker, NoWorker}
             /\ (\A i \in 1..k : q[i] # "ended") => h[k].worker = a.worker
             /\ (\A i \in 1..k : q[i] \in Faults) /\ ~a.enabled => ~h[k].enabled
             /\ (\A i \in 1..k : q[i] \in Faults) /\ Disconnected(a) => Disconnected(h[k])
             /\ \A i \in 1..k :
                  q[i] = "ended" /\ (\A j \in 1..k : i < j => q[j] # "connected") =>
                      Disconnected(h[k])
           Bad == {k \in Nat : k <= Len(q) /\ ~Shown(k)}
<1>3. Shown(0)
  <2>1. 1..0 = {}
    BY SMT
  <2> QED BY Zenon, <1>1, <2>1 DEF Reading!Steps
<1>4. ASSUME NEW k \in Nat, k # 0, k <= Len(q), Shown(k - 1)
      PROVE  Shown(k)
  <2>1. /\ k \in 1..Len(q) /\ k \in 1..k /\ q[k] \in Messages
        /\ \A i \in 1..k : i = k \/ (i \in 1..k - 1 /\ i < k)
        /\ \A i \in 1..k - 1 : i \in 1..k
    BY SMT, <1>2, <1>4
  <2>2. h[k] = Handle(h[k - 1], q[k])
    BY Zenon, <1>1, <2>1 DEF Reading!Steps
  <2>3. h[k - 1] \in Interfaces
    BY Zenon, <1>4
  <2>4. /\ h[k] \in Interfaces /\ h[k].live = h[k - 1].live
        /\ q[k] = "connected" => h[k].worker = h[k - 1].worker
        /\ q[k] = "ended" => Disconnected(h[k])
        /\ q[k] \in Faults => /\ h[k].worker = h[k - 1].worker
                              /\ h[k].enabled = h[k - 1].enabled
                              /\ h[k].button = h[k - 1].button
    <3> DEFINE e == h[k - 1]
    <3>1. e \in Interfaces
      BY Zenon, <2>3
    <3>2. h[k] = Handle(e, q[k])
      BY Zenon, <2>2
    <3> HIDE DEF e
    <3>3. /\ Handle(e, q[k]) \in Interfaces /\ Handle(e, q[k]).live = e.live
          /\ q[k] = "connected" => Handle(e, q[k]).worker = e.worker
          /\ q[k] = "ended" => Disconnected(Handle(e, q[k]))
          /\ q[k] \in Faults => /\ Handle(e, q[k]).worker = e.worker
                                /\ Handle(e, q[k]).enabled = e.enabled
                                /\ Handle(e, q[k]).button = e.button
      BY Zenon, <2>1, <3>1, HandleOne
    <3> QED BY Zenon, <3>2, <3>3 DEF e
  <2>5. q[k] # "ended" => h[k].worker = h[k - 1].worker
    BY Zenon, <2>1, <2>4 DEF Messages
  <2>6. q[k] \in Faults /\ Disconnected(h[k - 1]) => Disconnected(h[k])
    BY Zenon, <2>4 DEF Disconnected
  <2>7. h[k].live = a.live /\ h[k].worker \in {a.worker, NoWorker}
    BY Zenon, <1>4, <2>4, <2>5 DEF Disconnected
  <2>8. (\A i \in 1..k : q[i] # "ended") => h[k].worker = a.worker
    BY Zenon, <1>4, <2>1, <2>5
  <2>9. (\A i \in 1..k : q[i] \in Faults) /\ Disconnected(a) => Disconnected(h[k])
    BY Zenon, <1>4, <2>1, <2>6
  <2>11. (\A i \in 1..k : q[i] \in Faults) /\ ~a.enabled => ~h[k].enabled
    BY Zenon, <1>4, <2>1, <2>4
  <2>10. ASSUME NEW i \in 1..k, q[i] = "ended", \A j \in 1..k : i < j => q[j] # "connected"
         PROVE  Disconnected(h[k])
    <3>1. CASE i = k
      BY Zenon, <2>4, <2>10, <3>1
    <3>2. CASE i \in 1..k - 1 /\ i < k
      <4>1. Disconnected(h[k - 1])
        BY Zenon, <1>4, <2>1, <2>10, <3>2
      <4>2. q[k] = "ended" \/ q[k] \in Faults
        BY Zenon, <2>1, <2>10, <3>2 DEF Messages
      <4> QED BY Zenon, <2>4, <2>6, <4>1, <4>2
    <3> QED BY Zenon, <2>1, <3>1, <3>2
  <2> QED BY Zenon, <2>4, <2>7, <2>8, <2>9, <2>10, <2>11
<1> HIDE DEF Shown
<1>5. Bad = {}
  <2> SUFFICES ASSUME Bad # {} PROVE FALSE
    BY Zenon
  <2>1. PICK m \in Bad : \A k \in Bad : m <= k
    BY Zenon, LeastNatural
  <2>2. m # 0
    BY Zenon, <1>3
  <2>3. m - 1 \in Nat /\ m - 1 <= Len(q) /\ ~(m <= m - 1)
    BY SMT, <1>2, <2>2
  <2>4. Shown(m - 1)
    BY Zenon, <2>1, <2>3
  <2> QED BY Zenon, <1>4, <2>2, <2>4
<1>6. Shown(Len(q))
  <2>1. Len(q) <= Len(q)
    BY SMT, <1>2
  <2> QED BY Zenon, <1>2, <1>5, <2>1
<1>7. FoldLeft(Handle, a, q) = h[Len(q)]
  BY Zenon, <1>1, ReadingFolds
<1> QED BY Zenon, <1>6, <1>7 DEF Shown, Contains, Silent, Closes

(***************************************************************************)
(* The queue and the wire.                                                 *)
(***************************************************************************)

LEMMA Appended ==
    ASSUME NEW T, NEW s \in Seq(T), NEW x \in T
    PROVE  LET t == Append(s, x)
           IN  /\ t \in Seq(T) /\ Len(s) \in Nat /\ Len(t) = Len(s) + 1
               /\ \A i \in 1..Len(s) : i \in 1..Len(t) /\ i < Len(t) /\ t[i] = s[i]
               /\ t[Len(t)] = x /\ Len(t) \in 1..Len(t)
               /\ \A i \in 1..Len(t) : (i \in 1..Len(s) \/ i = Len(t)) /\ ~(Len(t) < i)
BY SMT

LEMMA Shifted ==
    ASSUME NEW T, NEW s \in Seq(T), s # << >>
    PROVE  /\ Tail(s) \in Seq(T)
           /\ Len(s) \in Nat /\ Len(Tail(s)) = Len(s) - 1
           /\ Head(s) = s[1] /\ 1 \in 1..Len(s)
           /\ \A i \in 1..Len(s) - 1 : i + 1 \in 1..Len(s) /\ Tail(s)[i] = s[i + 1]
           /\ \A i \in 1..Len(s) : i = 1 \/ i - 1 \in 1..Len(s) - 1
BY SMT

\* After an end the queue closes, and a line changes nothing about that.
LEMMA Posted ==
    ASSUME NEW q \in Seq(Messages), NEW m \in Messages
    PROVE  /\ m = "ended" => Closes(Append(q, m))
           /\ m # "connected" /\ Closes(q) => Closes(Append(q, m))
           /\ m \in Faults /\ Silent(q) => Silent(Append(q, m))
           /\ m # "ended" /\ ~Contains(q, "ended") => ~Contains(Append(q, m), "ended")
<1> DEFINE a == Append(q, m)
<1>1. /\ Len(a) = Len(q) + 1
      /\ \A i \in 1..Len(q) : i \in 1..Len(a) /\ i < Len(a) /\ a[i] = q[i]
      /\ a[Len(a)] = m /\ Len(a) \in 1..Len(a)
      /\ \A i \in 1..Len(a) : (i \in 1..Len(q) \/ i = Len(a)) /\ ~(Len(a) < i)
  BY Zenon, Appended
<1> HIDE DEF a
<1>2. m = "ended" => Closes(a)
  BY Zenon, <1>1 DEF Closes
<1>3. ASSUME m # "connected", Closes(q) PROVE Closes(a)
  <2>1. PICK i \in 1..Len(q) : /\ q[i] = "ended"
                               /\ \A j \in 1..Len(q) : i < j => q[j] # "connected"
    BY Zenon, <1>3 DEF Closes
  <2>2. i \in 1..Len(a) /\ a[i] = "ended"
    BY Zenon, <1>1, <2>1
  <2>3. \A j \in 1..Len(a) : i < j => a[j] # "connected"
    BY Zenon, <1>1, <1>3, <2>1
  <2> QED BY Zenon, <2>2, <2>3 DEF Closes
<1>4. m \in Faults /\ Silent(q) => Silent(a)
  BY Zenon, <1>1 DEF Silent
<1>5. m # "ended" /\ ~Contains(q, "ended") => ~Contains(a, "ended")
  BY Zenon, <1>1 DEF Contains
<1> QED BY Zenon, <1>2, <1>3, <1>4, <1>5 DEF a

LEMMA FaultsAreLines == \A f \in Faults : f \in Messages /\ f # "connected" /\ f # "ended"
BY SMT DEF Faults, Messages

\* What the device prints reaches the queue, or is lost.
LEMMA Said ==
    ASSUME TypeOK, NEW f \in Faults, Say(f)
    PROVE  /\ queue' \in Seq(Messages) /\ Len(queue') <= QueueMax
           /\ Closes(queue) => Closes(queue')
           /\ Silent(queue) => Silent(queue')
           /\ ~Contains(queue, "ended") => ~Contains(queue', "ended")
<1>1. queue \in Seq(Messages) /\ Len(queue) < QueueMax
  BY Zenon DEF TypeOK, Say
<1>2. f \in Messages /\ f # "connected" /\ f # "ended"
  BY Zenon, FaultsAreLines
<1>3. CASE queue' = queue
  BY SMT, <1>1, <1>3, LinkAssumption
<1>4. CASE queue' = Append(queue, f)
  <2>1. queue' \in Seq(Messages) /\ Len(queue) \in Nat /\ Len(queue') = Len(queue) + 1
    BY Zenon, <1>1, <1>2, <1>4, Appended
  <2>2. Len(queue') <= QueueMax
    BY SMT, <1>1, <2>1, LinkAssumption
  <2> QED BY Zenon, <1>1, <1>2, <1>4, <2>1, <2>2, Posted
<1> QED BY Zenon, <1>3, <1>4 DEF Say

(***************************************************************************)
(* The workers.                                                            *)
(***************************************************************************)

Phases == {"dead", "opening", "reading", "broken", "closing"}

\* The workers in one of some phases.
In(f, ps) == {w \in Workers : f[w] \in ps}

LEMMA Sizes ==
    /\ Cardinality(Workers) \in Nat
    /\ \A S \in SUBSET Workers : /\ IsFiniteSet(S) /\ Cardinality(S) \in Nat
                                 /\ Cardinality(S) <= Cardinality(Workers)
<1>1. IsFiniteSet(Workers)
  BY Zenon, LinkAssumption
<1>2. \A S \in SUBSET Workers : IsFiniteSet(S) /\ Cardinality(S) <= Cardinality(Workers)
  BY Zenon, <1>1, FS_Subset
<1> QED BY Zenon, <1>1, <1>2, FS_CardinalityType

Moved(g, f, w, p) == f \in [Workers -> Phases] /\ w \in Workers /\ g = [f EXCEPT ![w] = p]

\* A worker that leaves these phases is one less in them.
LEMMA OneLess ==
    ASSUME NEW f, NEW g, NEW w, NEW p, Moved(g, f, w, p), NEW ps, p \notin ps
    PROVE  Cardinality(In(g, ps)) =
             IF f[w] \in ps THEN Cardinality(In(f, ps)) - 1 ELSE Cardinality(In(f, ps))
<1>1. In(g, ps) = In(f, ps) \ {w}
  BY Zenon DEF In, Moved
<1>2. IsFiniteSet(In(f, ps))
  BY Zenon, Sizes DEF In
<1>3. w \in In(f, ps) <=> f[w] \in ps
  BY Zenon DEF In, Moved
<1> HIDE DEF In
<1> QED BY Zenon, <1>1, <1>2, <1>3, FS_RemoveElement

LEMMA AsMany ==
    ASSUME NEW f, NEW g, NEW w, NEW p, Moved(g, f, w, p), NEW ps, p \in ps, f[w] \in ps
    PROVE  In(g, ps) = In(f, ps)
BY Zenon DEF In, Moved

Early == {"opening", "reading", "broken"}
Lively == {"opening", "reading", "broken", "closing"}

\* What the workers may still post.
Owed(f) ==
    Cardinality(In(f, {"opening"})) + Cardinality(In(f, Early)) + Cardinality(In(f, Lively))

LEMMA OwedIsNat ==
    ASSUME NEW f
    PROVE  Owed(f) \in Nat /\ Owed(f) <= 3 * Cardinality(Workers)
<1>1. \A ps : In(f, ps) \in SUBSET Workers
  BY Zenon DEF In
<1>2. \A ps : Cardinality(In(f, ps)) \in Nat /\ Cardinality(In(f, ps)) <= Cardinality(Workers)
  BY Zenon, <1>1, Sizes
<1> HIDE DEF In
<1> QED BY SMT, <1>2, Sizes DEF Owed

\* A worker's step: what it may post as it takes it is paid for.
LEMMA StepPaysForPost ==
    ASSUME NEW f, NEW g, NEW w, NEW p \in Phases, Moved(g, f, w, p)
    PROVE  /\ f[w] = "opening" /\ p # "opening" => Owed(g) <= Owed(f) - 1
           /\ f[w] \in Early /\ p \notin Early => Owed(g) <= Owed(f) - 1
           /\ f[w] = "closing" /\ p = "dead" => Owed(g) <= Owed(f) - 1
<1>1. ASSUME NEW ps, p \notin ps
      PROVE  Cardinality(In(g, ps)) =
               IF f[w] \in ps THEN Cardinality(In(f, ps)) - 1 ELSE Cardinality(In(f, ps))
  BY SMT, <1>1, OneLess
<1>2. ASSUME NEW ps, p \in ps, f[w] \in ps
      PROVE  In(g, ps) = In(f, ps)
  BY SMT, <1>2, AsMany
<1>3. \A ps, h : Cardinality(In(h, ps)) \in Nat
  <2>1. \A ps, h : In(h, ps) \in SUBSET Workers
    BY Zenon DEF In
  <2> QED BY Zenon, <2>1, Sizes
<1>4. f[w] \in Phases
  BY Zenon DEF Moved
<1> DEFINE o(h) == Cardinality(In(h, {"opening"}))
           e(h) == Cardinality(In(h, Early))
           l(h) == Cardinality(In(h, Lively))
<1>5. /\ p # "opening" => o(g) = IF f[w] = "opening" THEN o(f) - 1 ELSE o(f)
      /\ p \notin Early => e(g) = IF f[w] \in Early THEN e(f) - 1 ELSE e(f)
      /\ p \in Early /\ f[w] \in Early => e(g) = e(f)
      /\ p \notin Lively => l(g) = IF f[w] \in Lively THEN l(f) - 1 ELSE l(f)
      /\ p \in Lively /\ f[w] \in Lively => l(g) = l(f)
  <2>1. \A x, y : x \in {y} <=> x = y
    OBVIOUS
  <2> QED BY Zenon, <1>1, <1>2, <2>1
<1>6. /\ o(f) \in Nat /\ e(f) \in Nat /\ l(f) \in Nat /\ o(g) \in Nat /\ e(g) \in Nat /\ l(g) \in Nat
      /\ Owed(f) = o(f) + e(f) + l(f) /\ Owed(g) = o(g) + e(g) + l(g)
  BY Zenon, <1>3 DEF Owed
<1> HIDE DEF o, e, l
<1> QED
  BY SMT, <1>4, <1>5, <1>6 DEF Early, Lively, Phases

\* Every step keeps the workers' variables in their types.
LEMMA WorkersStep ==
    ASSUME TypeOK, [Next]_vars
    PROVE  phase' \in [Workers -> Phases] /\ stop' \in [Workers -> BOOLEAN]
<1>1. /\ phase \in [Workers -> Phases] /\ stop \in [Workers -> BOOLEAN]
      /\ app.worker # NoWorker => app.worker \in Workers
  BY Zenon DEF TypeOK, Phases, Interfaces
<1>2. CASE \E w \in Workers : Thread(w)
  <2>1. /\ phase' = phase \/ \E w \in Workers, p \in Phases : phase' = [phase EXCEPT ![w] = p]
        /\ stop' = stop \/ \E w \in Workers : stop' = [stop EXCEPT ![w] = FALSE]
    BY Zenon, <1>2 DEF Thread, Opened, OpenFails, OpenDies, ReadFails, Quit, Close, Die, Move,
       LeaveLoop, Phases
  <2> QED BY Zenon, <1>1, <2>1
<1>3. CASE User
  <2>1. CASE \E w \in Workers : Connect(w)
    <3>1. \E w \in Workers : phase' = [phase EXCEPT ![w] = "opening"] /\ stop' = stop
      BY Zenon, <2>1 DEF Connect
    <3>2. "opening" \in Phases
      BY Zenon DEF Phases
    <3> QED BY Zenon, <1>1, <3>1, <3>2
  <2>2. CASE Disconnect
    <3>1. app.worker \in Workers /\ phase' = phase
      BY Zenon, <1>1, <2>2 DEF Disconnect
    <3>2. stop' = [stop EXCEPT ![app.worker] = Alive(app.worker)]
      BY Zenon, <2>2 DEF Disconnect, TellWorker
    <3>3. Alive(app.worker) \in BOOLEAN
      BY Zenon DEF Alive
    <3> QED BY Zenon, <1>1, <3>1, <3>2, <3>3
  <2>3. CASE ClickLive \/ \E command \in {"once", "reset"} : ClickSend(command)
    BY Zenon, <1>1, <2>3 DEF ClickLive, ClickSend, thread
  <2> QED BY Zenon, <1>3, <2>1, <2>2, <2>3 DEF User
<1>4. CASE ExecuteReset \/ Unplug
  <2>1. /\ stop' = stop
        /\ phase' = [w \in Workers |-> IF phase[w] = "reading" THEN "broken" ELSE phase[w]]
    BY Zenon, <1>4 DEF ExecuteReset, Unplug, LinkBreaks
  <2>2. "broken" \in Phases
    BY Zenon DEF Phases
  <2> QED BY Zenon, <1>1, <2>1, <2>2
<1>5. CASE \/ Poll \/ PeriodicBlock \/ ExecuteSendTelemetry \/ Spoilt
           \/ \E on \in BOOLEAN : ExecuteSetTelemetry(on)
           \/ DeviceFaults \/ DeviceRecovers \/ Plug \/ UNCHANGED vars
  BY Zenon, <1>1, <1>5 DEF Poll, PeriodicBlock, ExecuteSendTelemetry, Spoilt, ExecuteSetTelemetry,
     DeviceFaults, DeviceRecovers, Plug, vars, thread
<1> QED BY Zenon, <1>2, <1>3, <1>4, <1>5 DEF Next, Execute, World

\* Every step keeps the queue within its bound.
LEMMA BoundStep ==
    ASSUME TypeOK, QueueBounded, [Next]_vars
    PROVE  QueueBounded' /\ Len(queue') <= QueueMax + 3 * Cardinality(Workers)
<1> DEFINE Within(q, f) == Len(q) + Owed(f) <= QueueMax + 3 * Cardinality(Workers)
<1>1. phase \in [Workers -> Phases] /\ phase' \in [Workers -> Phases] /\ queue \in Seq(Messages)
  BY Zenon, WorkersStep DEF TypeOK, Phases
<1>2. ASSUME NEW f \in [Workers -> Phases]
      PROVE  {w \in Workers : f[w] # "dead"} = In(f, Lively)
  <2>1. \A p \in Phases : p # "dead" <=> p \in Lively
    BY SMT DEF Phases, Lively
  <2> QED BY Zenon, <2>1 DEF In
<1>3. \A f : {w \in Workers : f[w] = "opening"} = In(f, {"opening"})
  BY Zenon DEF In
<1>4. Within(queue, phase)
  <2>1. Opening = In(phase, {"opening"}) /\ Unclosed = In(phase, Early) /\ Living = In(phase, Lively)
    BY Zenon, <1>1, <1>2, <1>3 DEF Opening, Unclosed, Living, Alive, In, Early
  <2> HIDE DEF In
  <2>2. Cardinality(In(phase, {"opening"})) \in Nat /\ Cardinality(In(phase, Early)) \in Nat
        /\ Cardinality(In(phase, Lively)) \in Nat /\ Len(queue) \in Nat
    <3>1. \A ps : In(phase, ps) \in SUBSET Workers
      BY Zenon DEF In
    <3>2. Len(queue) \in Nat
      BY SMT, <1>1
    <3> QED BY Zenon, <3>1, <3>2, Sizes
  <2>3. Len(queue) + Cardinality(In(phase, {"opening"})) + Cardinality(In(phase, Early))
          + Cardinality(In(phase, Lively)) <= QueueMax + 3 * Cardinality(Workers)
    BY Zenon, <2>1 DEF QueueBounded
  <2> QED BY SMT, <2>2, <2>3, Sizes, LinkAssumption DEF Owed
<1>5. SUFFICES Within(queue', phase') /\ Len(queue') \in Nat
  <2>1. Opening' = In(phase', {"opening"}) /\ Unclosed' = In(phase', Early)
        /\ Living' = In(phase', Lively)
    BY Zenon, <1>1, <1>2, <1>3 DEF Opening, Unclosed, Living, Alive, In, Early
  <2> HIDE DEF In
  <2>2. Cardinality(In(phase', {"opening"})) \in Nat /\ Cardinality(In(phase', Early)) \in Nat
        /\ Cardinality(In(phase', Lively)) \in Nat
    <3>1. \A ps : In(phase', ps) \in SUBSET Workers
      BY Zenon DEF In
    <3> QED BY Zenon, <3>1, Sizes
  <2>3. ASSUME Within(queue', phase'), Len(queue') \in Nat
        PROVE  /\ Len(queue') + Cardinality(In(phase', {"opening"})) + Cardinality(In(phase', Early))
                    + Cardinality(In(phase', Lively)) <= QueueMax + 3 * Cardinality(Workers)
               /\ Len(queue') <= QueueMax + 3 * Cardinality(Workers)
    BY SMT, <2>2, <2>3, Sizes, LinkAssumption DEF Owed
  <2> QED BY Zenon, <2>1, <2>3 DEF QueueBounded
<1>6. Len(queue) \in Nat /\ QueueMax \in Nat
  BY SMT, <1>1, LinkAssumption
<1> HIDE DEF Within
\* What a worker posts it no longer owes.
<1>7. ASSUME NEW w \in Workers, NEW p \in Phases, NEW m \in Messages,
             phase' = [phase EXCEPT ![w] = p], queue' \in {queue, Append(queue, m)},
             \/ phase[w] = "opening" /\ p # "opening"
             \/ phase[w] \in Early /\ p \notin Early
             \/ phase[w] = "closing" /\ p = "dead"
      PROVE  Within(queue', phase') /\ Len(queue') \in Nat
  <2>1. Moved(phase', phase, w, p)
    BY Zenon, <1>1, <1>7 DEF Moved
  <2>2. Owed(phase') <= Owed(phase) - 1
    BY SMT, <1>7, <2>1, StepPaysForPost
  <2>3. Len(queue') = Len(queue) \/ Len(queue') = Len(queue) + 1
    BY SMT, <1>1, <1>7
  <2>4. Owed(phase) \in Nat /\ Owed(phase') \in Nat
    BY Zenon, OwedIsNat
  <2> QED BY SMT, <1>4, <1>6, <2>2, <2>3, <2>4, Sizes DEF Within
<1>8. CASE \E w \in Workers : Thread(w)
  <2> PICK w \in Workers : Thread(w)
    BY <1>8
  <2>1. "ended" \in Messages /\ "connected" \in Messages
    BY Zenon DEF Messages
  <2>2. \E p \in Phases, m \in Messages :
          /\ phase' = [phase EXCEPT ![w] = p] /\ queue' \in {queue, Append(queue, m)}
          /\ \/ phase[w] = "opening" /\ p # "opening"
             \/ phase[w] \in Early /\ p \notin Early
             \/ phase[w] = "closing" /\ p = "dead"
    <3>1. CASE Opened(w)
      BY SMT, <2>1, <3>1 DEF Opened, Move, Post, Phases
    <3>2. CASE OpenFails(w)
      BY SMT, <2>1, <3>2 DEF OpenFails, Die, Move, Post, Phases
    <3>6. CASE OpenDies(w)
      BY SMT, <2>1, <3>6 DEF OpenDies, Die, Move, Phases
    <3>3. CASE ReadFails(w)
      BY SMT, <2>1, <3>3 DEF ReadFails, Move, LeaveLoop, Post, Phases, Early
    <3>4. CASE Quit(w)
      BY SMT, <2>1, <3>4 DEF Quit, Move, Phases, Early
    <3>5. CASE Close(w)
      BY SMT, <2>1, <3>5 DEF Close, Die, Move, Farewell, Post, Phases
    <3> QED BY Zenon, <3>1, <3>2, <3>3, <3>4, <3>5, <3>6 DEF Thread
  <2> QED BY Zenon, <1>7, <2>2
\* Nothing else is begun or printed beyond the bound.
<1>9. ASSUME Len(queue') \in Nat, Len(queue') <= QueueMax
      PROVE  Within(queue', phase') /\ Len(queue') \in Nat
  BY SMT, <1>6, <1>9, OwedIsNat, Sizes DEF Within
<1>10. CASE Poll
  BY SMT, <1>6, <1>9, <1>10 DEF Poll
<1>11. CASE \E w \in Workers : Connect(w)
  <2>1. Len(queue) <= QueueMax /\ queue' = queue
    BY Zenon, <1>11 DEF Connect
  <2> QED BY Zenon, <1>6, <1>9, <2>1
<1>12. CASE PeriodicBlock \/ ExecuteSendTelemetry \/ DeviceFaults
  <2>1. \E f \in Faults : Say(f)
    BY Zenon, <1>12 DEF PeriodicBlock, ExecuteSendTelemetry, DeviceFaults, TypeOK, Faults
  <2>2. queue' \in Seq(Messages) /\ Len(queue') <= QueueMax
    BY Zenon, <2>1, Said
  <2>3. Len(queue') \in Nat
    BY SMT, <2>2
  <2> QED BY Zenon, <1>9, <2>2, <2>3
<1>13. CASE ExecuteReset \/ Unplug
  <2>1. /\ queue' = queue
        /\ phase' = [w \in Workers |-> IF phase[w] = "reading" THEN "broken" ELSE phase[w]]
    BY Zenon, <1>13 DEF ExecuteReset, Unplug, LinkBreaks
  <2>2. \A w \in Workers : phase'[w] = phase[w] \/ (phase[w] = "reading" /\ phase'[w] = "broken")
    BY Zenon, <2>1
  <2>3. /\ In(phase', {"opening"}) = In(phase, {"opening"})
        /\ In(phase', Early) = In(phase, Early) /\ In(phase', Lively) = In(phase, Lively)
    BY SMT, <2>2 DEF In, Early, Lively
  <2>4. Owed(phase') = Owed(phase)
    BY Zenon, <2>3 DEF Owed
  <2> QED BY Zenon, <1>4, <1>6, <2>1, <2>4 DEF Within
<1>14. CASE \/ Disconnect \/ ClickLive \/ (\E command \in {"once", "reset"} : ClickSend(command))
            \/ Spoilt \/ (\E on \in BOOLEAN : ExecuteSetTelemetry(on))
            \/ DeviceRecovers \/ Plug \/ UNCHANGED vars
  <2>1. queue' = queue /\ phase' = phase
    BY Zenon, <1>14 DEF Disconnect, ClickLive, ClickSend, Spoilt, ExecuteSetTelemetry,
       DeviceRecovers, Plug, vars, thread
  <2> QED BY Zenon, <1>4, <1>6, <2>1
<1> QED
  BY Zenon, <1>8, <1>10, <1>11, <1>12, <1>13, <1>14 DEF Next, User, Execute, World

\* Every step keeps the variables in their types.
LEMMA TypesStep ==
    ASSUME IInv, [Next]_vars
    PROVE  TypeOK'
<1>1. TypeOK /\ QueueBounded
  BY Zenon DEF IInv
<1>2. /\ phase' \in [Workers -> Phases] /\ stop' \in [Workers -> BOOLEAN]
      /\ Len(queue') <= QueueMax + 3 * Cardinality(Workers)
  BY Zenon, <1>1, WorkersStep, BoundStep
<1> DEFINE Rest == /\ app' \in Interfaces /\ queue' \in Seq(Messages)
                   /\ plugged' \in BOOLEAN
                   /\ down' \in Seq(Commands) /\ Len(down') <= WireMax
                   /\ telemetry' \in BOOLEAN /\ stray' \in BOOLEAN /\ fault' \in Faults
                   /\ hasty' \in BOOLEAN /\ clicked' \in BOOLEAN /\ wordless' \in BOOLEAN
<1>3. SUFFICES Rest
  BY Zenon, <1>2 DEF TypeOK, Phases
<1>4. /\ app \in Interfaces /\ queue \in Seq(Messages)
      /\ plugged \in BOOLEAN
      /\ down \in Seq(Commands) /\ Len(down) <= WireMax
      /\ telemetry \in BOOLEAN /\ stray \in BOOLEAN /\ fault \in Faults
      /\ hasty \in BOOLEAN /\ clicked \in BOOLEAN /\ wordless \in BOOLEAN
  BY Zenon, <1>1 DEF TypeOK
<1>5. << >> \in Seq(Messages) /\ << >> \in Seq(Commands) /\ Len(<< >>) <= WireMax
  BY SMT, LinkAssumption
\* A command that has arrived leaves the wire.
<1>6. ASSUME NEW c, Arrived(c) \/ (down # << >>), down' = Tail(down)
      PROVE  down' \in Seq(Commands) /\ Len(down') <= WireMax
  <2>1. down # << >>
    BY Zenon, <1>6 DEF Arrived
  <2> QED BY SMT, <1>4, <1>6, <2>1, LinkAssumption
<1>7. CASE \E w \in Workers : Thread(w)
  <2>1. \E m \in {"connected", "ended"} : queue' = queue \/ queue' = Append(queue, m)
    BY Zenon, <1>7
    DEF Thread, Opened, OpenFails, OpenDies, ReadFails, Quit, Close, Post, Farewell
  <2>2. queue' \in Seq(Messages)
    BY SMT, <1>4, <2>1 DEF Messages
  <2>3. UNCHANGED <<app, plugged, down, telemetry, stray, fault, hasty, clicked>>
    BY Zenon, <1>7
    DEF Thread, Opened, OpenFails, OpenDies, ReadFails, Quit, Close, wires, device, history
  <2>4. wordless' \in {wordless, TRUE, FALSE}
    BY Zenon, <1>7 DEF Thread, Opened, OpenFails, OpenDies, ReadFails, Quit, Close, history
  <2> QED BY Zenon, <1>4, <2>2, <2>3, <2>4
<1>8. CASE Poll
  <2>1. app' \in Interfaces /\ queue' = << >>
    BY Zenon, <1>4, <1>8, ReadToTheEnd DEF Poll
  <2> QED BY Zenon, <1>4, <1>5, <1>8, <2>1 DEF Poll, wires, device, history
<1>9. CASE \E w \in Workers : Connect(w)
  <2>1. app' \in Interfaces
    BY Zenon, <1>4, <1>9 DEF Connect, Interfaces
  <2>2. hasty' \in BOOLEAN /\ clicked' \in BOOLEAN /\ wordless' \in BOOLEAN
    BY Zenon, <1>9 DEF Connect
  <2> QED BY Zenon, <1>4, <1>9, <2>1, <2>2 DEF Connect, wires, device
<1>10. CASE Disconnect
  <2>1. app' \in Interfaces
    BY Zenon, <1>4, <1>10 DEF Disconnect, Interfaces
  <2> QED BY Zenon, <1>4, <1>10, <2>1 DEF Disconnect, wires, device
<1>11. ASSUME NEW command \in Commands, Send(command)
       PROVE  down' \in Seq(Commands) /\ Len(down') <= WireMax
  <2>1. down' = down \/ down' = Append(down, command)
    BY Zenon, <1>11 DEF Send
  <2>2. Len(down) < WireMax
    BY Zenon, <1>11 DEF Send
  <2> QED BY SMT, <1>4, <1>11, <2>1, <2>2, LinkAssumption
<1>12. \A on : Order(on) \in Commands
  BY SMT DEF Order, Commands
<1>13. CASE ClickLive
  <2>1. down' \in Seq(Commands) /\ Len(down') <= WireMax
    BY Zenon, <1>11, <1>12, <1>13 DEF ClickLive, LiveCommand
  <2>2. app' \in Interfaces
    BY Zenon, <1>4, <1>13 DEF ClickLive, Interfaces
  <2>3. clicked' \in BOOLEAN
    BY Zenon, <1>13 DEF ClickLive
  <2> QED BY Zenon, <1>4, <1>13, <2>1, <2>2, <2>3 DEF ClickLive, device
<1>14. CASE \E command \in {"once", "reset"} : ClickSend(command)
  <2>1. \A command \in {"once", "reset"} : command \in Commands
    BY Zenon DEF Commands
  <2>2. down' \in Seq(Commands) /\ Len(down') <= WireMax
    BY Zenon, <1>11, <1>14, <2>1 DEF ClickSend
  <2> QED BY Zenon, <1>4, <1>14, <2>2 DEF ClickSend, device, history
<1>15. CASE PeriodicBlock
  <2>1. queue' \in Seq(Messages)
    BY Zenon, <1>1, <1>15, Said DEF PeriodicBlock, Faults
  <2> QED BY Zenon, <1>4, <1>15, <2>1 DEF PeriodicBlock, wires, device, history
<1>16. CASE DeviceFaults
  <2>1. queue' \in Seq(Messages) /\ "FAULT" \in Faults
    BY Zenon, <1>1, <1>16, Said DEF DeviceFaults, Faults
  <2> QED BY Zenon, <1>4, <1>16, <2>1 DEF DeviceFaults, wires, history
<1>17. CASE ExecuteSendTelemetry
  <2>1. queue' \in Seq(Messages)
    BY Zenon, <1>1, <1>4, <1>17, Said DEF ExecuteSendTelemetry
  <2>2. down' \in Seq(Commands) /\ Len(down') <= WireMax
    BY Zenon, <1>6, <1>17 DEF ExecuteSendTelemetry
  <2> QED BY Zenon, <1>4, <1>17, <2>1, <2>2 DEF ExecuteSendTelemetry, device, history
<1>18. CASE ExecuteReset \/ Unplug
  <2>1. app' = app /\ queue' = queue /\ hasty' = hasty /\ wordless' = wordless
    BY Zenon, <1>18 DEF ExecuteReset, Unplug
  <2>2. plugged' = FALSE /\ down' = << >> /\ clicked' = FALSE
    BY Zenon, <1>18 DEF ExecuteReset, Unplug, LinkBreaks
  <2>3. telemetry' \in BOOLEAN /\ stray' \in BOOLEAN /\ fault' \in Faults
    BY Zenon, <1>4, <1>18 DEF ExecuteReset, Unplug, Faults
  <2> QED BY Zenon, <1>4, <1>5, <2>1, <2>2, <2>3
<1>19. CASE \E on \in BOOLEAN : ExecuteSetTelemetry(on)
  <2>1. down' \in Seq(Commands) /\ Len(down') <= WireMax
    BY Zenon, <1>6, <1>19 DEF ExecuteSetTelemetry
  <2> QED BY Zenon, <1>4, <1>19, <2>1 DEF ExecuteSetTelemetry, history
<1>20. CASE Spoilt
  <2>1. down' \in Seq(Commands) /\ Len(down') <= WireMax
    BY Zenon, <1>6, <1>20 DEF Spoilt
  <2>2. telemetry' \in BOOLEAN
    BY Zenon, <1>4, <1>20 DEF Spoilt
  <2> QED BY Zenon, <1>4, <1>20, <2>1, <2>2 DEF Spoilt, history
<1>21. CASE DeviceRecovers \/ Plug \/ UNCHANGED vars
  <2>1. fault' \in Faults /\ plugged' \in BOOLEAN
    BY Zenon, <1>4, <1>21 DEF DeviceRecovers, Plug, vars, device, wires, Faults
  <2> QED BY Zenon, <1>4, <1>21, <2>1 DEF DeviceRecovers, Plug, vars, wires, device, history
<1> QED
  BY Zenon, <1>7, <1>8, <1>9, <1>10, <1>13, <1>14, <1>15, <1>16, <1>17, <1>18, <1>19, <1>20, <1>21
  DEF Next, User, Execute, World

(***************************************************************************)
(* The conjuncts of the invariant.                                         *)
(***************************************************************************)

\* What a step of one worker leaves alone, and what it posts.
LEMMA ThreadEffect ==
    ASSUME TypeOK, NEW w \in Workers, Thread(w)
    PROVE  /\ UNCHANGED <<app, down, telemetry, stray, hasty, clicked>>
           /\ \A v \in Workers : v # w => phase'[v] = phase[v] /\ stop'[v] = stop[v]
           /\ Alive(w) /\ (stop'[w] => stop[w] /\ phase'[w] # "dead")
           /\ phase'[w] \in Early => /\ phase[w] = "opening" /\ stop'[w] = stop[w]
                                    /\ queue' = Append(queue, "connected")
           /\ phase[w] = "reading" => stop[w]
           /\ phase'[w] # "opening"
           /\ phase'[w] = "dead" =>
                 \/ queue' = Append(queue, "ended")
                 \/ phase[w] = "opening" /\ wordless' /\ queue' = queue
<1>1. phase \in [Workers -> Phases] /\ stop \in [Workers -> BOOLEAN]
  BY Zenon DEF TypeOK, Phases
<1>2. CASE Opened(w)
  <2>1. phase[w] = "opening" /\ phase' = [phase EXCEPT ![w] = "reading"] /\ stop' = stop
    BY Zenon, <1>2 DEF Opened, Move
  <2> QED BY Zenon, <1>1, <1>2, <2>1 DEF Opened, Post, Alive, wires, device, history
<1>3. CASE OpenFails(w)
  <2>1. /\ phase[w] = "opening" /\ phase' = [phase EXCEPT ![w] = "dead"]
        /\ stop' = [stop EXCEPT ![w] = FALSE]
    BY Zenon, <1>3 DEF OpenFails, Die, Move
  <2> QED BY Zenon, <1>1, <1>3, <2>1 DEF OpenFails, Post, Alive, Early, wires, device, history
<1>7. CASE OpenDies(w)
  <2>1. /\ phase[w] = "opening" /\ phase' = [phase EXCEPT ![w] = "dead"]
        /\ stop' = [stop EXCEPT ![w] = FALSE]
    BY Zenon, <1>7 DEF OpenDies, Die, Move
  <2> QED BY Zenon, <1>1, <1>7, <2>1 DEF OpenDies, Alive, Early, wires, device, history
<1>4. CASE ReadFails(w)
  <2>1. phase[w] = "broken" /\ phase' = [phase EXCEPT ![w] = "closing"] /\ stop' = stop
    BY Zenon, <1>4 DEF ReadFails, Move, LeaveLoop
  <2> QED BY Zenon, <1>1, <1>4, <2>1 DEF ReadFails, Alive, Early, wires, device, history
<1>5. CASE Quit(w)
  <2>1. /\ stop[w] /\ phase[w] \in {"reading", "broken"}
        /\ phase' = [phase EXCEPT ![w] = "closing"] /\ stop' = stop
    BY Zenon, <1>5 DEF Quit, Move
  <2> QED BY Zenon, <1>1, <1>5, <2>1 DEF Quit, Alive, Early, wires, device, history
<1>6. CASE Close(w)
  <2>1. /\ phase[w] = "closing" /\ phase' = [phase EXCEPT ![w] = "dead"]
        /\ stop' = [stop EXCEPT ![w] = FALSE]
    BY Zenon, <1>6 DEF Close, Die, Move
  <2> QED BY Zenon, <1>1, <1>6, <2>1 DEF Close, Farewell, Post, Alive, Early, wires, device, history
<1> QED BY Zenon, <1>2, <1>3, <1>4, <1>5, <1>6, <1>7 DEF Thread

\* What breaking the link does to the workers.
LEMMA BreakEffect ==
    ASSUME LinkBreaks
    PROVE  \A w \in Workers : phase'[w] = phase[w] \/ (phase[w] = "reading" /\ phase'[w] = "broken")
BY Zenon DEF LinkBreaks

\* Every step tells only the living to stop, and not the present worker.
LEMMA ToldStep ==
    ASSUME IInv, [Next]_vars
    PROVE  ToldToStop'
<1>1. /\ TypeOK /\ stop \in [Workers -> BOOLEAN]
      /\ app.worker # NoWorker => app.worker \in Workers
      /\ \A w \in Workers : stop[w] => phase[w] # "dead"
      /\ app.worker # NoWorker => ~stop[app.worker]
  BY Zenon DEF IInv, ToldToStop, TypeOK, Alive, Interfaces
<1>2. CASE \E w \in Workers : Thread(w)
  <2> PICK w \in Workers : Thread(w)
    BY <1>2
  <2>1. /\ app' = app
        /\ \A v \in Workers : v # w => phase'[v] = phase[v] /\ stop'[v] = stop[v]
        /\ stop'[w] => stop[w] /\ phase'[w] # "dead"
    BY Zenon, <1>1, ThreadEffect
  <2> QED BY Zenon, <1>1, <2>1 DEF ToldToStop, Alive
<1>3. CASE Poll
  <2>1. app'.worker \in {app.worker, NoWorker}
    BY Zenon, <1>1, <1>3, ReadToTheEnd DEF Poll, TypeOK
  <2> QED BY Zenon, <1>1, <1>3, <2>1 DEF Poll, ToldToStop, Alive, thread
<1>4. CASE \E w \in Workers : Connect(w)
  <2> PICK w \in Workers : Connect(w)
    BY <1>4
  <2>1. phase' = [phase EXCEPT ![w] = "opening"] /\ stop' = stop /\ phase[w] = "dead"
    BY Zenon DEF Connect, Alive
  <2>2. app'.worker = w
    BY Zenon, <1>1 DEF Connect, TypeOK, Interfaces
  <2> QED BY Zenon, <1>1, <2>1, <2>2 DEF ToldToStop, Alive, TypeOK
<1>5. CASE Disconnect
  <2>1. phase' = phase /\ stop' = [stop EXCEPT ![app.worker] = Alive(app.worker)]
    BY Zenon, <1>5 DEF Disconnect, TellWorker
  <2>2. app'.worker = NoWorker
    BY Zenon, <1>1, <1>5 DEF Disconnect, TypeOK, Interfaces
  <2>3. \A v \in Workers : stop'[v] = IF v = app.worker THEN Alive(v) ELSE stop[v]
    BY Zenon, <1>1, <2>1
  <2> QED BY Zenon, <1>1, <2>1, <2>2, <2>3 DEF ToldToStop, Alive
<1>6. CASE ClickLive
  <2>1. app'.worker = app.worker
    BY Zenon, <1>1, <1>6 DEF ClickLive, TypeOK, Interfaces
  <2> QED BY Zenon, <1>1, <1>6, <2>1 DEF ClickLive, ToldToStop, Alive, thread
<1>7. CASE ExecuteReset \/ Unplug
  <2>1. UNCHANGED <<app, stop>> /\ LinkBreaks
    BY Zenon, <1>7 DEF ExecuteReset, Unplug
  <2> QED BY Zenon, <1>1, <2>1, BreakEffect DEF ToldToStop, Alive
<1>8. CASE \/ (\E command \in {"once", "reset"} : ClickSend(command))
           \/ PeriodicBlock \/ ExecuteSendTelemetry \/ Spoilt
           \/ (\E on \in BOOLEAN : ExecuteSetTelemetry(on))
           \/ DeviceFaults \/ DeviceRecovers \/ Plug \/ UNCHANGED vars
  <2>1. UNCHANGED <<app, phase, stop>>
    BY Zenon, <1>8 DEF ClickSend, PeriodicBlock, ExecuteSendTelemetry, Spoilt,
       ExecuteSetTelemetry, DeviceFaults, DeviceRecovers, Plug, vars, thread
  <2> QED BY Zenon, <1>1, <2>1 DEF ToldToStop, Alive
<1> QED
  BY Zenon, <1>2, <1>3, <1>4, <1>5, <1>6, <1>7, <1>8 DEF Next, User, Execute, World

\* Every step leaves no command button enabled without a port.
LEMMA NoPortStep ==
    ASSUME IInv, [Next]_vars
    PROVE  NoPortNoButtons'
<1> DEFINE Portless == {"dead", "opening"}
<1>1. /\ TypeOK /\ app \in Interfaces /\ queue \in Seq(Messages) /\ phase \in [Workers -> Phases]
      /\ (\A w \in Workers : phase[w] \in Portless) =>
            Closes(queue) \/ (Silent(queue) /\ ~app.enabled)
  BY Zenon DEF IInv, NoPortNoButtons, TypeOK, Phases
<1>2. SUFFICES ASSUME \A w \in Workers : phase'[w] \in Portless
               PROVE  Closes(queue') \/ (Silent(queue') /\ ~app'.enabled)
  BY Zenon DEF NoPortNoButtons
\* Where no port is closed, none was open before.
<1>3. ASSUME \A w \in Workers : \/ phase'[w] = phase[w] \/ phase[w] \in Portless
                                \/ phase'[w] \notin Portless
      PROVE  Closes(queue) \/ (Silent(queue) /\ ~app.enabled)
  BY Zenon, <1>1, <1>2, <1>3
<1>4. CASE \E w \in Workers : Thread(w)
  <2> PICK w \in Workers : Thread(w)
    BY <1>4
  <2>1. /\ app' = app /\ \A v \in Workers : v # w => phase'[v] = phase[v]
        /\ \/ queue' = Append(queue, "ended")
           \/ phase[w] = "opening" /\ queue' = queue
    BY Zenon, <1>1, <1>2, ThreadEffect
  <2>2. "ended" \in Messages
    BY Zenon DEF Messages
  <2> QED BY Zenon, <1>1, <1>3, <2>1, <2>2, Posted
<1>5. CASE Poll
  <2>1. Closes(queue) \/ (Silent(queue) /\ ~app.enabled)
    BY Zenon, <1>3, <1>5 DEF Poll, thread
  <2>2. ~app'.enabled
    BY Zenon, <1>1, <1>5, <2>1, ReadToTheEnd DEF Poll, Disconnected
  <2>3. Silent(queue')
    <3>1. queue' = << >> /\ 1..Len(<< >>) = {}
      BY SMT, <1>5 DEF Poll
    <3> QED BY Zenon, <3>1 DEF Silent
  <2> QED BY Zenon, <2>2, <2>3
<1>6. CASE (\E w \in Workers : Connect(w)) \/ Disconnect \/ ClickLive
  <2>1. /\ queue' = queue
        /\ \A w \in Workers : phase'[w] = phase[w] \/ phase[w] = "dead"
    BY Zenon, <1>1, <1>6 DEF Connect, Disconnect, ClickLive, thread, Alive
  <2>2. app'.enabled = app.enabled
    BY Zenon, <1>1, <1>6 DEF Connect, Disconnect, ClickLive, Interfaces
  <2> QED BY Zenon, <1>3, <2>1, <2>2
<1>7. CASE PeriodicBlock \/ ExecuteSendTelemetry \/ DeviceFaults
  <2>1. phase' = phase /\ app' = app
    BY Zenon, <1>7 DEF PeriodicBlock, ExecuteSendTelemetry, DeviceFaults, thread
  <2>2. \E f \in Faults : Say(f)
    BY Zenon, <1>1, <1>7 DEF PeriodicBlock, ExecuteSendTelemetry, DeviceFaults, TypeOK, Faults
  <2> QED BY Zenon, <1>1, <1>3, <2>1, <2>2, Said
<1>8. CASE ExecuteReset \/ Unplug
  <2>1. UNCHANGED <<app, queue>> /\ LinkBreaks
    BY Zenon, <1>8 DEF ExecuteReset, Unplug
  <2>2. \A w \in Workers : phase'[w] = phase[w] \/ phase'[w] \notin Portless
    BY Zenon, <2>1, BreakEffect
  <2> QED BY Zenon, <1>3, <2>1, <2>2
<1>9. CASE \/ (\E command \in {"once", "reset"} : ClickSend(command)) \/ Spoilt
           \/ (\E on \in BOOLEAN : ExecuteSetTelemetry(on))
           \/ DeviceRecovers \/ Plug \/ UNCHANGED vars
  <2>1. UNCHANGED <<app, queue, phase>>
    BY Zenon, <1>9 DEF ClickSend, Spoilt, ExecuteSetTelemetry, DeviceRecovers, Plug, vars, thread
  <2> QED BY Zenon, <1>3, <2>1
<1> QED
  BY Zenon, <1>4, <1>5, <1>6, <1>7, <1>8, <1>9 DEF Next, User, Execute, World

\* Every step lets the last worker have the last word.
LEMMA LastWordStep ==
    ASSUME IInv, [Next]_vars
    PROVE  LastWordIsAnEnd'
<1>1. /\ TypeOK /\ app \in Interfaces /\ queue \in Seq(Messages) /\ phase \in [Workers -> Phases]
      /\ Living = {} /\ ~wordless => Closes(queue) \/ (Silent(queue) /\ Disconnected(app))
  BY Zenon DEF IInv, LastWordIsAnEnd, TypeOK, Phases
<1>2. SUFFICES ASSUME \A w \in Workers : phase'[w] = "dead", ~wordless'
               PROVE  Closes(queue') \/ (Silent(queue') /\ Disconnected(app'))
  BY Zenon DEF LastWordIsAnEnd, Living, Alive
\* Where nobody dies, nobody was there before.
<1>3. ASSUME \A w \in Workers : phase'[w] = phase[w] \/ phase[w] = "dead" \/ phase'[w] # "dead",
             wordless' = wordless
      PROVE  Closes(queue) \/ (Silent(queue) /\ Disconnected(app))
  BY Zenon, <1>1, <1>2, <1>3 DEF Living, Alive
<1>4. CASE \E w \in Workers : Thread(w)
  <2>1. queue' = Append(queue, "ended") /\ "ended" \in Messages
    BY Zenon, <1>1, <1>2, <1>4, ThreadEffect DEF Messages
  <2> QED BY Zenon, <1>1, <2>1, Posted
<1>5. CASE Poll
  <2>1. Closes(queue) \/ (Silent(queue) /\ Disconnected(app))
    BY Zenon, <1>3, <1>5 DEF Poll, thread, history
  <2>2. Disconnected(app')
    BY Zenon, <1>1, <1>5, <2>1, ReadToTheEnd DEF Poll
  <2>3. Silent(queue')
    <3>1. queue' = << >> /\ 1..Len(<< >>) = {}
      BY SMT, <1>5 DEF Poll
    <3> QED BY Zenon, <3>1 DEF Silent
  <2> QED BY Zenon, <2>2, <2>3
<1>6. CASE \E w \in Workers : Connect(w)
  <2>1. \E w \in Workers : phase'[w] = "opening"
    BY Zenon, <1>1, <1>6 DEF Connect
  <2> QED BY Zenon, <1>2, <2>1
<1>7. CASE Disconnect \/ ClickLive
  <2>1. queue' = queue /\ phase' = phase /\ wordless' = wordless
    BY Zenon, <1>7 DEF Disconnect, ClickLive, thread
  <2>2. Disconnected(app) => ClickLive /\ Disconnected(app')
    BY Zenon, <1>1, <1>7 DEF Disconnect, ClickLive, Disconnected, Interfaces
  <2> QED BY Zenon, <1>3, <2>1, <2>2
<1>8. CASE PeriodicBlock \/ ExecuteSendTelemetry \/ DeviceFaults
  <2>1. UNCHANGED <<phase, app, wordless>>
    BY Zenon, <1>8 DEF PeriodicBlock, ExecuteSendTelemetry, DeviceFaults, thread, history
  <2>2. \E f \in Faults : Say(f)
    BY Zenon, <1>1, <1>8 DEF PeriodicBlock, ExecuteSendTelemetry, DeviceFaults, TypeOK, Faults
  <2> QED BY Zenon, <1>1, <1>3, <2>1, <2>2, Said
<1>9. CASE ExecuteReset \/ Unplug
  <2>1. UNCHANGED <<app, queue, wordless>> /\ LinkBreaks
    BY Zenon, <1>9 DEF ExecuteReset, Unplug
  <2>2. \A w \in Workers : phase'[w] = phase[w] \/ phase'[w] # "dead"
    BY Zenon, <2>1, BreakEffect
  <2> QED BY Zenon, <1>3, <2>1, <2>2
<1>10. CASE \/ (\E command \in {"once", "reset"} : ClickSend(command)) \/ Spoilt
            \/ (\E on \in BOOLEAN : ExecuteSetTelemetry(on))
            \/ DeviceRecovers \/ Plug \/ UNCHANGED vars
  <2>1. UNCHANGED <<app, queue, phase, wordless>>
    BY Zenon, <1>10
    DEF ClickSend, Spoilt, ExecuteSetTelemetry, DeviceRecovers, Plug, vars, thread, history
  <2> QED BY Zenon, <1>3, <2>1
<1> QED
  BY Zenon, <1>4, <1>5, <1>6, <1>7, <1>8, <1>9, <1>10 DEF Next, User, Execute, World

\* Every step keeps a monitor that connects in good order to one worker.
LEMMA OrderStep ==
    ASSUME IInv, [Next]_vars
    PROVE  InGoodOrder'
<1>1. /\ TypeOK /\ app \in Interfaces /\ queue \in Seq(Messages)
      /\ phase \in [Workers -> Phases] /\ stop \in [Workers -> BOOLEAN]
  BY Zenon DEF IInv, TypeOK, Phases
<1> DEFINE One == \A v, w \in Workers : Alive(v) /\ Alive(w) => v = w
           Kept == \A w \in Workers : phase[w] \in Early /\ ~stop[w] =>
                       app.worker = w /\ ~Contains(queue, "ended")
<1>2. ~hasty => One /\ Kept
  BY Zenon DEF IInv, InGoodOrder, Early
<1>3. SUFFICES ASSUME ~hasty' PROVE One' /\ Kept'
  BY Zenon DEF InGoodOrder, Early
<1>4. CASE \E w \in Workers : Thread(w)
  <2> PICK w \in Workers : Thread(w)
    BY <1>4
  <2>1. /\ UNCHANGED <<app, hasty>>
        /\ \A v \in Workers : v # w => phase'[v] = phase[v]
        /\ Alive(w)
        /\ phase'[w] \in Early => /\ phase[w] = "opening" /\ stop'[w] = stop[w]
                                  /\ queue' = Append(queue, "connected")
    BY Zenon, <1>1, ThreadEffect
  <2>2. One /\ Kept
    BY Zenon, <1>2, <1>3, <2>1
  <2>3. \A v \in Workers : phase'[v] # "dead" => v = w
    BY Zenon, <2>1, <2>2 DEF Alive
  <2>4. "connected" \in Messages /\ "connected" # "ended" /\ "opening" \in Early /\ "dead" \notin Early
    BY SMT DEF Messages, Early
  <2>5. ~Contains(queue, "ended") => ~Contains(Append(queue, "connected"), "ended")
    BY Zenon, <1>1, <2>4, Posted
  <2>6. One'
    BY Zenon, <2>3 DEF Alive
  <2>7. ASSUME NEW v \in Workers, phase'[v] \in Early, ~stop'[v]
        PROVE  app'.worker = v /\ ~Contains(queue', "ended")
    <3>1. v = w
      BY Zenon, <2>3, <2>4, <2>7
    <3>2. phase[w] \in Early /\ ~stop[w] /\ queue' = Append(queue, "connected")
      BY Zenon, <2>1, <2>4, <2>7, <3>1
    <3> QED BY Zenon, <2>1, <2>2, <2>5, <3>1, <3>2
  <2> QED BY Zenon, <2>6, <2>7
<1>5. CASE Poll
  <2>1. One /\ Kept /\ UNCHANGED <<phase, stop>> /\ queue' = << >>
    BY Zenon, <1>2, <1>3, <1>5 DEF Poll, history, thread
  <2>2. ~Contains(queue, "ended") => app'.worker = app.worker
    BY Zenon, <1>1, <1>5, ReadToTheEnd DEF Poll
  <2>3. ~Contains(queue', "ended")
    <3>1. 1..Len(<< >>) = {}
      BY SMT
    <3> QED BY Zenon, <2>1, <3>1 DEF Contains
  <2> QED BY Zenon, <2>1, <2>2, <2>3 DEF Alive
<1>6. CASE \E w \in Workers : Connect(w)
  <2> PICK w \in Workers : Connect(w)
    BY <1>6
  <2>1. Quiet /\ queue' = queue
    BY Zenon, <1>3 DEF Connect
  <2>2. \A v \in Workers : v # w => phase'[v] = "dead"
    BY Zenon, <1>1, <2>1 DEF Connect, Quiet, Alive
  <2>3. app'.worker = w /\ "dead" \notin Early
    BY Zenon, <1>1 DEF Connect, Interfaces, Early
  <2>4. ~Contains(queue', "ended")
    BY Zenon, <2>1 DEF Quiet
  <2> QED BY Zenon, <2>2, <2>3, <2>4 DEF Alive
<1>7. CASE Disconnect
  <2>1. /\ One /\ Kept /\ UNCHANGED <<phase, queue>> /\ app.worker # NoWorker
        /\ stop' = [stop EXCEPT ![app.worker] = Alive(app.worker)]
    BY Zenon, <1>2, <1>3, <1>7 DEF Disconnect, TellWorker
  <2>2. \A v \in Workers : stop'[v] = IF v = app.worker THEN Alive(v) ELSE stop[v]
    BY Zenon, <1>1, <2>1
  <2>3. \A v \in Workers : phase[v] \in Early => Alive(v)
    BY SMT DEF Early, Alive
  <2>4. \A v \in Workers : ~(phase'[v] \in Early /\ ~stop'[v])
    BY Zenon, <2>1, <2>2, <2>3
  <2> QED BY Zenon, <2>1, <2>4 DEF Alive
<1>8. CASE ClickLive
  <2>1. One /\ Kept /\ UNCHANGED <<phase, stop, queue>>
    BY Zenon, <1>2, <1>3, <1>8 DEF ClickLive, thread
  <2>2. app'.worker = app.worker
    BY Zenon, <1>1, <1>8 DEF ClickLive, Interfaces
  <2> QED BY Zenon, <2>1, <2>2 DEF Alive
<1>9. CASE PeriodicBlock \/ ExecuteSendTelemetry \/ DeviceFaults
  <2>1. One /\ Kept /\ UNCHANGED <<app, phase, stop>>
    BY Zenon, <1>2, <1>3, <1>9 DEF PeriodicBlock, ExecuteSendTelemetry, DeviceFaults, thread, history
  <2>2. \E f \in Faults : Say(f)
    BY Zenon, <1>1, <1>9 DEF PeriodicBlock, ExecuteSendTelemetry, DeviceFaults, TypeOK, Faults
  <2>3. ~Contains(queue, "ended") => ~Contains(queue', "ended")
    BY Zenon, <1>1, <2>2, Said
  <2> QED BY Zenon, <2>1, <2>3 DEF Alive
<1>10. CASE ExecuteReset \/ Unplug
  <2>1. One /\ Kept /\ UNCHANGED <<app, queue, stop>> /\ LinkBreaks
    BY Zenon, <1>2, <1>3, <1>10 DEF ExecuteReset, Unplug
  <2>2. \A v \in Workers : /\ phase'[v] # "dead" => phase[v] # "dead"
                           /\ phase'[v] \in Early => phase[v] \in Early
    BY SMT, <2>1, BreakEffect DEF Early
  <2> QED BY Zenon, <2>1, <2>2 DEF Alive
<1>11. CASE \/ (\E command \in {"once", "reset"} : ClickSend(command)) \/ Spoilt
            \/ (\E on \in BOOLEAN : ExecuteSetTelemetry(on))
            \/ DeviceRecovers \/ Plug \/ UNCHANGED vars
  <2>1. UNCHANGED <<app, queue, phase, stop, hasty>>
    BY Zenon, <1>11
    DEF ClickSend, Spoilt, ExecuteSetTelemetry, DeviceRecovers, Plug, vars, thread, history
  <2>2. One /\ Kept
    BY Zenon, <1>2, <1>3, <2>1
  <2> QED BY Zenon, <2>1, <2>2 DEF Alive
<1> QED
  BY Zenon, <1>4, <1>5, <1>6, <1>7, <1>8, <1>9, <1>10, <1>11 DEF Next, User, Execute, World

(***************************************************************************)
(* The orders on the wire.                                                 *)
(***************************************************************************)

Orders == {"on", "off"}

\* An order sent is the last on the wire; other commands do not count.
LEMMA Sent ==
    ASSUME NEW d \in Seq(Commands), NEW c \in Commands, NEW reports, NEW live
    PROVE  /\ c = Order(live) => Obeyed(Append(d, c), reports, live)
           /\ c \notin Orders /\ Obeyed(d, reports, live) => Obeyed(Append(d, c), reports, live)
<1> DEFINE a == Append(d, c)
<1>1. /\ Len(a) = Len(d) + 1
      /\ \A i \in 1..Len(d) : i \in 1..Len(a) /\ i < Len(a) /\ a[i] = d[i]
      /\ a[Len(a)] = c /\ Len(a) \in 1..Len(a)
      /\ \A i \in 1..Len(a) : (i \in 1..Len(d) \/ i = Len(a)) /\ ~(Len(a) < i)
  BY Zenon, Appended
<1> HIDE DEF a
<1>2. c = Order(live) => Obeyed(a, reports, live)
  BY Zenon, <1>1 DEF Obeyed
<1>3. ASSUME c \notin Orders, Obeyed(d, reports, live)
      PROVE  Obeyed(a, reports, live)
  <2>1. CASE \E i \in 1..Len(d) : /\ d[i] = Order(live)
                                  /\ \A j \in 1..Len(d) : i < j => d[j] \notin Orders
    <3> PICK i \in 1..Len(d) : /\ d[i] = Order(live)
                               /\ \A j \in 1..Len(d) : i < j => d[j] \notin Orders
      BY <2>1
    <3>1. i \in 1..Len(a) /\ a[i] = Order(live)
      BY Zenon, <1>1
    <3>2. \A j \in 1..Len(a) : i < j => a[j] \notin Orders
      BY Zenon, <1>1, <1>3
    <3> QED BY Zenon, <3>1, <3>2 DEF Obeyed, Orders
  <2>2. CASE (\A i \in 1..Len(d) : d[i] \notin Orders) /\ reports = live
    <3>1. \A i \in 1..Len(a) : a[i] \notin Orders
      BY Zenon, <1>1, <1>3, <2>2
    <3> QED BY Zenon, <2>2, <3>1 DEF Obeyed, Orders
  <2> QED BY Zenon, <1>3, <2>1, <2>2 DEF Obeyed, Orders
<1> QED BY Zenon, <1>2, <1>3 DEF a

LEMMA OrdersDiffer ==
    /\ \A on : Order(on) \in Orders /\ Order(on) \in Commands
    /\ \A on, live \in BOOLEAN : Order(on) = Order(live) => on = live
<1>1. \A on : Order(on) \in Orders /\ Order(on) \in Commands
  BY SMT DEF Order, Orders, Commands
<1>2. \A on, live \in BOOLEAN : Order(on) = Order(live) => on = live
  BY SMT DEF Order
<1> QED BY Zenon, <1>1, <1>2

\* A command executed leaves the wire; an order is what the device reports by.
LEMMA Taken ==
    ASSUME NEW d \in Seq(Commands), d # << >>, NEW reports \in BOOLEAN, NEW live \in BOOLEAN,
           Obeyed(d, reports, live)
    PROVE  /\ Head(d) \notin Orders => Obeyed(Tail(d), reports, live)
           /\ \A on \in BOOLEAN : Head(d) = Order(on) => Obeyed(Tail(d), on, live)
<1> DEFINE t == Tail(d)
<1>1. /\ Len(d) \in Nat /\ Len(t) = Len(d) - 1 /\ Head(d) = d[1] /\ 1 \in 1..Len(d)
      /\ \A i \in 1..Len(t) : i + 1 \in 1..Len(d) /\ t[i] = d[i + 1]
      /\ \A i \in 1..Len(d) : i = 1 \/ (i - 1 \in 1..Len(t) /\ i = (i - 1) + 1)
      /\ \A i \in 1..Len(t) : 1 < i + 1
      /\ \A i \in 1..Len(d), j \in 1..Len(t) : i - 1 < j => i < j + 1
  BY SMT
<1> HIDE DEF t
<1>2. CASE \E i \in 1..Len(d) : /\ d[i] = Order(live)
                                /\ \A j \in 1..Len(d) : i < j => d[j] \notin Orders
  <2> PICK i \in 1..Len(d) : /\ d[i] = Order(live)
                             /\ \A j \in 1..Len(d) : i < j => d[j] \notin Orders
    BY <1>2
  <2>1. CASE i = 1
    <3>1. \A j \in 1..Len(t) : t[j] \notin Orders
      BY Zenon, <1>1, <2>1
    <3>2. Head(d) = Order(live)
      BY Zenon, <1>1, <2>1
    <3>3. \A on \in BOOLEAN : Head(d) = Order(on) => on = live
      BY Zenon, <3>2, OrdersDiffer
    <3>4. Head(d) \in Orders
      BY Zenon, <3>2, OrdersDiffer
    <3> QED BY Zenon, <3>1, <3>3, <3>4 DEF Obeyed, Orders, t
  <2>2. CASE i # 1
    <3>1. i - 1 \in 1..Len(t) /\ t[i - 1] = Order(live)
      BY Zenon, <1>1, <2>2
    <3>2. \A j \in 1..Len(t) : i - 1 < j => t[j] \notin Orders
      BY Zenon, <1>1
    <3> QED BY Zenon, <3>1, <3>2 DEF Obeyed, Orders, t
  <2> QED BY Zenon, <2>1, <2>2
<1>3. CASE (\A i \in 1..Len(d) : d[i] \notin Orders) /\ reports = live
  <2>1. \A j \in 1..Len(t) : t[j] \notin Orders
    BY Zenon, <1>1, <1>3
  <2>2. \A on : Head(d) # Order(on)
    <3>1. Head(d) \notin Orders
      BY Zenon, <1>1, <1>3
    <3> QED BY Zenon, <3>1, OrdersDiffer
  <2> QED BY Zenon, <1>3, <2>1, <2>2 DEF Obeyed, Orders, t
<1> QED BY Zenon, <1>2, <1>3 DEF Obeyed, Orders

\* Every step keeps the live button's orders to a device that obeys them.
LEMMA LiveStep ==
    ASSUME IInv, [Next]_vars
    PROVE  LiveIsObeyed'
<1>1. /\ TypeOK /\ app \in Interfaces /\ queue \in Seq(Messages) /\ down \in Seq(Commands)
      /\ telemetry \in BOOLEAN /\ app.live \in BOOLEAN
      /\ app.worker # NoWorker => app.worker \in Workers /\ ~stop[app.worker]
      /\ phase \in [Workers -> Phases]
  BY Zenon DEF IInv, TypeOK, ToldToStop, Interfaces, Phases
<1> DEFINE Good == Linked /\ ~stray /\ Obeyed(down, telemetry, app.live)
<1>2. clicked /\ ~hasty => Good
  BY Zenon DEF IInv, LiveIsObeyed
<1>3. SUFFICES ASSUME clicked', ~hasty' PROVE Good'
  BY Zenon DEF LiveIsObeyed
<1>4. CASE \E w \in Workers : Thread(w)
  <2> PICK w \in Workers : Thread(w)
    BY <1>4
  <2>1. /\ UNCHANGED <<app, down, telemetry, stray, hasty, clicked>>
        /\ \A v \in Workers : v # w => phase'[v] = phase[v]
        /\ phase[w] = "reading" => stop[w]
    BY Zenon, <1>1, ThreadEffect
  <2>2. Good
    BY Zenon, <1>2, <1>3, <2>1
  <2>3. app.worker # w
    BY Zenon, <1>1, <2>1, <2>2 DEF Linked
  <2>4. Linked'
    BY Zenon, <1>1, <2>1, <2>2, <2>3 DEF Linked
  <2> QED BY Zenon, <2>1, <2>2, <2>4
<1>5. CASE Poll
  <2>1. Good /\ ~hasty /\ UNCHANGED <<phase, down, telemetry, stray>>
    BY Zenon, <1>2, <1>3, <1>5 DEF Poll, thread, wires, device, history
  <2>2. ~Contains(queue, "ended")
    BY Zenon, <1>1, <2>1 DEF IInv, InGoodOrder, Linked
  <2>3. app'.worker = app.worker /\ app'.live = app.live
    BY Zenon, <1>1, <1>5, <2>2, ReadToTheEnd DEF Poll
  <2> QED BY Zenon, <2>1, <2>3 DEF Linked
<1>6. CASE \/ (\E w \in Workers : Connect(w)) \/ Disconnect \/ ExecuteReset \/ Unplug
  BY Zenon, <1>3, <1>6 DEF Connect, Disconnect, ExecuteReset, Unplug, LinkBreaks
<1>7. CASE ClickLive
  <2>1. UNCHANGED <<phase, telemetry, stray, hasty>>
    BY Zenon, <1>7 DEF ClickLive, thread, device
  <2>2. app'.worker = app.worker
    BY Zenon, <1>1, <1>7 DEF ClickLive, Interfaces
  <2>3. Linked /\ ~stray
    <3>1. clicked \/ (Linked /\ ~stray)
      BY Zenon, <1>3, <1>7 DEF ClickLive
    <3> QED BY Zenon, <1>2, <1>3, <2>1, <3>1
  <2>4. down' = Append(down, Order(app'.live))
    BY Zenon, <1>7, <2>3 DEF ClickLive, Send, LiveCommand
  <2>5. Obeyed(down', telemetry', app'.live)
    BY Zenon, <1>1, <2>4, Sent, OrdersDiffer
  <2> QED BY Zenon, <2>1, <2>2, <2>3, <2>5 DEF Linked
<1>8. CASE \E command \in {"once", "reset"} : ClickSend(command)
  <2>1. UNCHANGED <<app, phase, telemetry, stray, hasty, clicked>>
    BY Zenon, <1>8 DEF ClickSend, thread, device, history
  <2>2. Good
    BY Zenon, <1>2, <1>3, <2>1
  <2>3. \E c \in {"once", "reset"} : down' = Append(down, c)
    BY Zenon, <1>8, <2>2 DEF ClickSend, Send
  <2>4. \A c \in {"once", "reset"} : c \in Commands /\ c \notin Orders
    BY SMT DEF Commands, Orders
  <2>5. Obeyed(down', telemetry', app'.live)
    BY Zenon, <1>1, <2>1, <2>2, <2>3, <2>4, Sent
  <2> QED BY Zenon, <2>1, <2>2, <2>5 DEF Linked
<1>9. CASE \E on \in BOOLEAN : ExecuteSetTelemetry(on)
  <2> PICK on \in BOOLEAN : ExecuteSetTelemetry(on)
    BY <1>9
  <2>1. Good /\ UNCHANGED <<app, phase, stray>>
    BY Zenon, <1>2, <1>3 DEF ExecuteSetTelemetry, thread, history
  <2>2. down # << >> /\ Head(down) = Order(on) /\ down' = Tail(down) /\ telemetry' = on
    BY Zenon DEF ExecuteSetTelemetry, Arrived
  <2>3. Obeyed(down', telemetry', app'.live)
    BY Zenon, <1>1, <2>1, <2>2, Taken
  <2> QED BY Zenon, <2>1, <2>3 DEF Linked
<1>10. CASE ExecuteSendTelemetry
  <2>1. Good /\ UNCHANGED <<app, phase, telemetry, stray>>
    BY Zenon, <1>2, <1>3, <1>10 DEF ExecuteSendTelemetry, thread, device, history
  <2>2. down # << >> /\ Head(down) = "once" /\ down' = Tail(down)
    BY Zenon, <1>10 DEF ExecuteSendTelemetry, Arrived
  <2>3. "once" \notin Orders
    BY SMT DEF Orders
  <2>4. Obeyed(down', telemetry', app'.live)
    BY Zenon, <1>1, <2>1, <2>2, <2>3, Taken
  <2> QED BY Zenon, <2>1, <2>4 DEF Linked
<1>11. CASE Spoilt
  BY Zenon, <1>2, <1>3, <1>11 DEF Spoilt, history
<1>12. CASE PeriodicBlock \/ DeviceFaults \/ DeviceRecovers \/ Plug \/ UNCHANGED vars
  <2>1. UNCHANGED <<app, phase, down, telemetry, stray, hasty, clicked>>
    BY Zenon, <1>12
    DEF PeriodicBlock, DeviceFaults, DeviceRecovers, Plug, vars, thread, wires, device, history
  <2>2. Good
    BY Zenon, <1>2, <1>3, <2>1
  <2> QED BY Zenon, <2>1, <2>2 DEF Linked
<1> QED
  BY Zenon, <1>4, <1>5, <1>6, <1>7, <1>8, <1>9, <1>10, <1>11, <1>12 DEF Next, User, Execute, World

(***************************************************************************)
(* The theorems.                                                           *)
(***************************************************************************)

LEMMA InitHolds == Init => IInv
<1> SUFFICES ASSUME Init PROVE IInv
  OBVIOUS
<1>1. /\ phase \in [Workers -> Phases] /\ phase = [w \in Workers |-> "dead"]
      /\ stop \in [Workers -> BOOLEAN] /\ stop = [w \in Workers |-> FALSE]
  BY Zenon DEF Init, Phases
<1>2. /\ queue \in Seq(Messages) /\ down \in Seq(Commands) /\ Len(queue) = 0 /\ Len(down) = 0
      /\ 1..Len(queue) = {}
  BY SMT DEF Init
<1>3. Len(queue) <= QueueMax + 3 * Cardinality(Workers) /\ Len(down) <= WireMax
  BY SMT, <1>2, Sizes, LinkAssumption
<1>4. app \in Interfaces
  BY Zenon DEF Init, Interfaces
<1>5. TypeOK
  BY Zenon, <1>1, <1>2, <1>3, <1>4 DEF Init, TypeOK, Phases
<1>6. QueueBounded
  <2>1. Opening = {} /\ Unclosed = {} /\ Living = {}
    BY Zenon, <1>1 DEF Opening, Unclosed, Living, Alive
  <2>2. Cardinality({}) = 0
    BY Zenon, FS_EmptySet
  <2> QED BY SMT, <1>2, <2>1, <2>2, Sizes, LinkAssumption DEF QueueBounded
<1>7. app.worker = NoWorker /\ ~app.enabled /\ app.button = "Connect"
  BY Zenon DEF Init
<1>8. ToldToStop
  BY Zenon, <1>1, <1>7 DEF ToldToStop
<1>9. NoPortNoButtons /\ LastWordIsAnEnd
  BY Zenon, <1>2, <1>7 DEF NoPortNoButtons, LastWordIsAnEnd, Silent, Disconnected
<1>10. InGoodOrder
  BY Zenon, <1>1 DEF InGoodOrder, Alive
<1>11. LiveIsObeyed
  BY Zenon DEF Init, LiveIsObeyed
<1> QED BY Zenon, <1>5, <1>6, <1>8, <1>9, <1>10, <1>11 DEF IInv

LEMMA Invariance == Spec => []IInv
<1>1. IInv /\ [Next]_vars => IInv'
  BY Zenon, BoundStep, TypesStep, ToldStep, NoPortStep, LastWordStep, OrderStep,
     LiveStep DEF IInv
<1> QED BY InitHolds, <1>1, PTL DEF Spec

\* The monitor's queue stays within what its workers may post besides the lines
\* they read, however many there are (SerialWorker.run leaves its loop at the
\* first failed read).
THEOREM TypeCorrect == Spec => []TypeOK
BY Invariance, PTL DEF IInv

\* A monitor that waits for the end of one worker before it connects the next
\* never has a reader that no button can stop.
THEOREM NoOrphans == Spec => []NoOrphanWithoutHaste
<1>1. IInv => NoOrphanWithoutHaste
  BY Zenon DEF IInv, InGoodOrder, NoOrphanWithoutHaste
<1> QED BY Invariance, <1>1, PTL

\* Once every worker has ended and the queue is read, no command button of the
\* monitor is enabled, whatever way the workers went; and it is disconnected
\* throughout unless the last went without a message.
THEOREM QuietDisconnects == Spec => []QuietIsDisconnected
<1>1. IInv => QuietIsDisconnected
  <2> SUFFICES ASSUME IInv, Quiet
               PROVE  ~app.enabled /\ (wordless \/ Disconnected(app))
    BY Zenon DEF QuietIsDisconnected, Disconnected
  <2>1. Living = {} /\ ~Closes(queue) /\ \A w \in Workers : phase[w] = "dead"
    BY Zenon DEF Quiet, Living, Alive, Contains, Closes
  <2>2. ~app.enabled
    BY Zenon, <2>1 DEF IInv, NoPortNoButtons
  <2> QED BY Zenon, <2>1, <2>2 DEF IInv, LastWordIsAnEnd
<1> QED BY Invariance, <1>1, PTL

\* The live button tells what the device does once its commands have arrived,
\* however many are under way at a time.
THEOREM LiveButtonIsTrue == Spec => []LiveButtonTellsTheTruth
<1>1. IInv => LiveButtonTellsTheTruth
  <2> SUFFICES ASSUME IInv, clicked, ~hasty, ~Contains(down, "on"), ~Contains(down, "off")
               PROVE  app.live = telemetry
    BY Zenon DEF LiveButtonTellsTheTruth
  <2>1. Obeyed(down, telemetry, app.live)
    BY Zenon DEF IInv, LiveIsObeyed
  <2>2. \A i \in 1..Len(down) : down[i] \notin Orders
    BY Zenon DEF Contains, Orders
  <2> QED BY Zenon, <2>1, <2>2, OrdersDiffer DEF Obeyed
<1> QED BY Invariance, <1>1, PTL
=============================================================================
