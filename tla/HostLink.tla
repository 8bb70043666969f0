------------------------------ MODULE HostLink ------------------------------
(***************************************************************************)
(* The serial monitor of tools/wps-monitor.py over a USB serial line to    *)
(* the device: the interface thread (App), the worker threads that each    *)
(* own a port (SerialWorker), the queue from these to that, and of the     *)
(* device (cmd.c, fault.c) what answers the monitor's commands and is      *)
(* shown by it.                                                            *)
(*                                                                         *)
(* A message of a worker does not say which worker it is from.  An error   *)
(* and the end of a worker are handled alike and are one message here.     *)
(* The cable may be pulled at any moment; a command cut short stays in the *)
(* device's line buffer and spoils the next one.                           *)
(*                                                                         *)
(* Left out: the log pane, the readouts other than FAULT, the commands for *)
(* the wiper (sent as SEND_TELEMETRY is), lines that a slow device breaks  *)
(* in two, and a second program on the same port.                          *)
(***************************************************************************)
EXTENDS Naturals, FiniteSets, Sequences, SequencesExt

CONSTANTS
    Workers,   \* the worker threads that may be alive at a time
    NoWorker,  \* App._worker is None
    QueueMax,  \* bound on the queue beyond which nothing new is begun
    WireMax    \* bound on the commands under way

ASSUME LinkAssumption ==
    /\ NoWorker \notin Workers /\ IsFiniteSet(Workers)
    /\ QueueMax \in Nat \ {0} /\ WireMax \in Nat \ {0}

VARIABLES
    app,        \* the interface: its worker, buttons, live flag and FAULT readout
    queue,      \* App._rx_queue
    phase,      \* where each worker is
    stop,       \* which workers have been told to stop
    plugged,    \* the device is on the bus
    down,       \* commands on their way to the device
    telemetry,  \* ctx.periodic_telemetry_enabled
    fault,      \* whether the device is in a fault
    stray,      \* g_line holds the beginning of a command cut short
    hasty,      \* the last connect did not wait for the worker before it
    clicked,    \* since it, the live button was used, and nothing came in between
    wordless    \* since it, the last thread to end did so without a message

thread  == <<phase, stop>>
wires   == <<plugged, down>>
device  == <<telemetry, fault, stray>>
history == <<hasty, clicked, wordless>>
vars == <<app, queue, thread, wires, device, history>>

Faults   == {"NONE", "FAULT"}
Messages == {"connected", "ended"} \cup Faults
Commands == {"on", "off", "once", "reset"}

\* enabled: the command buttons are; button: the text of the connect button.
Interfaces ==
    [worker : Workers \cup {NoWorker}, button : {"Connect", "Disconnect"},
     enabled : BOOLEAN, live : BOOLEAN, readout : Faults \cup {"unknown"}]

\* A worker posts at most three messages besides the lines it reads.
TypeOK ==
    /\ app \in Interfaces
    /\ queue \in Seq(Messages) /\ Len(queue) <= QueueMax + 3 * Cardinality(Workers)
    /\ phase \in [Workers -> {"dead", "opening", "reading", "broken", "closing"}]
    /\ stop \in [Workers -> BOOLEAN]
    /\ plugged \in BOOLEAN
    /\ down \in Seq(Commands) /\ Len(down) <= WireMax
    /\ telemetry \in BOOLEAN /\ stray \in BOOLEAN /\ fault \in Faults
    /\ hasty \in BOOLEAN /\ clicked \in BOOLEAN /\ wordless \in BOOLEAN

\* App.__init__, with the device in any state.
Init ==
    /\ app = [worker |-> NoWorker, button |-> "Connect", enabled |-> FALSE,
              live |-> FALSE, readout |-> "unknown"]
    /\ queue = << >>
    /\ phase = [w \in Workers |-> "dead"] /\ stop = [w \in Workers |-> FALSE]
    /\ plugged = TRUE /\ down = << >>
    /\ telemetry \in BOOLEAN /\ fault \in Faults /\ stray \in BOOLEAN
    /\ hasty = FALSE /\ clicked = FALSE /\ wordless = FALSE
----------------------------------------------------------------------------
(***************************************************************************)
(* SerialWorker.run.                                                       *)
(***************************************************************************)

Alive(w) == phase[w] # "dead"

Move(w, from, to) == phase[w] \in from /\ phase' = [phase EXCEPT ![w] = to]

\* Nobody looks at the stop event of a dead worker; it counts as clear.
Die(w, from) == Move(w, from, "dead") /\ stop' = [stop EXCEPT ![w] = FALSE]

Post(message) == queue' = Append(queue, message)

Opened(w) ==
    /\ plugged /\ Move(w, {"opening"}, "reading")
    /\ Post("connected")
    /\ UNCHANGED <<app, stop, wires, device, history>>

\* No device, or another handle on the port: a SerialException.
OpenFails(w) ==
    /\ Die(w, {"opening"})
    /\ Post("ended") /\ wordless' = FALSE
    /\ UNCHANGED <<app, wires, device, hasty, clicked>>

\* Any other exception, such as the ValueError for a baud rate that the port
\* cannot have, escapes run and ends the thread without a message.
OpenDies(w) ==
    /\ Die(w, {"opening"})
    /\ wordless' = TRUE
    /\ UNCHANGED <<app, queue, wires, device, hasty, clicked>>

\* A SerialException out of readline is posted, and ends the loop.
StaysInLoop == "broken"
LeaveLoop == "closing"

ReadFails(w) ==
    /\ ~stop[w] /\ Move(w, {"broken"}, LeaveLoop)
    /\ Post("ended")
    /\ UNCHANGED <<app, stop, wires, device, history>>

\* The loop finds the stop event set.
Quit(w) ==
    /\ stop[w] /\ Move(w, {"reading", "broken"}, "closing")
    /\ UNCHANGED <<app, queue, stop, wires, device, history>>

\* The end is posted.
NoFarewell == UNCHANGED queue
Farewell == Post("ended")

Close(w) ==
    /\ Die(w, {"closing"})
    /\ Farewell /\ wordless' = FALSE
    /\ UNCHANGED <<app, wires, device, hasty, clicked>>

Thread(w) ==
    Opened(w) \/ OpenFails(w) \/ OpenDies(w) \/ ReadFails(w) \/ Quit(w) \/ Close(w)
----------------------------------------------------------------------------
(***************************************************************************)
(* App: the queue, emptied in one go before any click is served.           *)
(***************************************************************************)

\* _update_fault.
ShowFaultOnly(a, f) == IF f = "NONE" THEN a ELSE [a EXCEPT !.readout = f]
ShowFault(a, f) == [a EXCEPT !.readout = f]

\* _handle_rx: an end is taken for that of the present worker.  Lines are the
\* announcement of a fault and FAULT in a telemetry block.
Handle(a, message) ==
    CASE message = "connected" -> [a EXCEPT !.enabled = TRUE]
      [] message = "ended"     -> [a EXCEPT !.worker = NoWorker, !.enabled = FALSE,
                                            !.button = "Connect"]
      [] message \in Faults    -> ShowFault(a, message)

Poll ==
    /\ queue # << >> /\ queue' = << >>
    /\ app' = FoldLeft(Handle, app, queue)
    /\ UNCHANGED <<thread, wires, device, history>>
----------------------------------------------------------------------------
(***************************************************************************)
(* App: the buttons.                                                       *)
(***************************************************************************)

\* No worker is left, and nothing of it in the queue.
Quiet == (\A w \in Workers : ~Alive(w)) /\ ~Contains(queue, "ended")

Connect(w) ==
    /\ app.worker = NoWorker
    /\ ~Alive(w) /\ Len(queue) <= QueueMax
    /\ app' = [app EXCEPT !.worker = w, !.button = "Disconnect"]
    /\ phase' = [phase EXCEPT ![w] = "opening"]
    /\ hasty' = ~Quiet /\ clicked' = FALSE /\ wordless' = FALSE
    /\ UNCHANGED <<queue, stop, wires, device>>

TellNobody == UNCHANGED stop
TellWorker == stop' = [stop EXCEPT ![app.worker] = Alive(app.worker)]

\* The button's text and the other buttons wait for the worker's end.
Disconnect ==
    /\ app.worker # NoWorker
    /\ TellWorker
    /\ app' = [app EXCEPT !.worker = NoWorker, !.live = FALSE]
    /\ clicked' = FALSE
    /\ UNCHANGED <<queue, phase, wires, device, hasty, wordless>>

\* There is a worker, and its port is open.
Linked == app.worker # NoWorker /\ phase[app.worker] = "reading"

\* _send and SerialWorker.send: without a worker or an open port, nothing.
Send(command) ==
    /\ Len(down) < WireMax
    /\ down' = IF Linked THEN Append(down, command) ELSE down

Order(on) == IF on THEN "on" ELSE "off"

LiveCommandEarly == Order(app.live)
LiveCommand == Order(app'.live)

ClickLive ==
    /\ app.enabled
    /\ app' = [app EXCEPT !.live = ~@]
    /\ Send(LiveCommand)
    /\ clicked' = (clicked \/ (Linked /\ ~stray))
    /\ UNCHANGED <<queue, thread, plugged, device, hasty, wordless>>

\* SEND_TELEMETRY: one-shot, whose button is never disabled.  RESET_DEVICE is
\* sent once its question has been answered, and by then the buttons may be.
ClickSend(command) ==
    /\ Send(command)
    /\ UNCHANGED <<app, queue, thread, plugged, device, history>>

User ==
    \/ \E w \in Workers : Connect(w)
    \/ Disconnect
    \/ ClickLive
    \/ \E command \in {"once", "reset"} : ClickSend(command)
----------------------------------------------------------------------------
(***************************************************************************)
(* The device, and readline in the worker that reads what it prints.       *)
(***************************************************************************)

\* What is printed while nobody reads is lost, and so is what a worker that
\* has been told to stop finds too late: that one has left its loop before.
Heard == \E w \in Workers : phase[w] = "reading"

Say(f) ==
    /\ Len(queue) < QueueMax
    /\ queue' = IF Heard THEN Append(queue, f) ELSE queue

\* fault_handle announces the fault ...
DeviceFaults ==
    /\ fault = "NONE" /\ fault' = "FAULT"
    /\ Say("FAULT")
    /\ UNCHANGED <<app, thread, wires, telemetry, stray, history>>

\* ... and its end in words that the monitor does not know.
DeviceRecovers ==
    /\ fault = "FAULT" /\ fault' = "NONE"
    /\ UNCHANGED <<app, queue, thread, wires, telemetry, stray, history>>

\* cmd_tick, which a pending fault keeps the main loop from.
PeriodicBlock ==
    /\ telemetry /\ fault = "NONE" /\ Heard
    /\ Say("NONE")
    /\ UNCHANGED <<app, thread, wires, device, history>>

\* The device leaves the bus; every handle on its port is dead, and commands
\* under way are lost.
LinkBreaks ==
    /\ plugged' = FALSE /\ down' = << >>
    /\ phase' = [w \in Workers |-> IF phase[w] = "reading" THEN "broken" ELSE phase[w]]
    /\ clicked' = FALSE

Arrived(command) == plugged /\ down # << >> /\ Head(down) = command

ExecuteReset ==
    /\ Arrived("reset") /\ ~stray
    /\ LinkBreaks
    /\ telemetry' = TRUE /\ fault' = "NONE"
    /\ UNCHANGED <<app, queue, stop, stray, hasty, wordless>>

ExecuteSetTelemetry(on) ==
    /\ Arrived(Order(on)) /\ ~stray
    /\ down' = Tail(down)
    /\ telemetry' = on
    /\ UNCHANGED <<app, queue, thread, plugged, fault, stray, history>>

ExecuteSendTelemetry ==
    /\ Arrived("once") /\ ~stray
    /\ down' = Tail(down)
    /\ Say(fault)
    /\ UNCHANGED <<app, thread, plugged, device, history>>

\* A command that ends a line cut short is unknown to the device; but where
\* SET_TELEMETRY was cut after its name, a command of one word becomes its
\* argument, or part of it, and is not "on".
Spoilt ==
    /\ stray /\ plugged /\ down # << >>
    /\ down' = Tail(down)
    /\ telemetry' \in {telemetry, telemetry /\ Head(down) \in {"on", "off"}}
    /\ stray' = FALSE
    /\ UNCHANGED <<app, queue, thread, plugged, fault, history>>

Execute ==
    \/ ExecuteReset \/ ExecuteSendTelemetry \/ Spoilt
    \/ \E on \in BOOLEAN : ExecuteSetTelemetry(on)

\* A command under way may be cut in its middle.
Unplug ==
    /\ plugged /\ LinkBreaks
    /\ stray' \in {stray, stray \/ down # << >>}
    /\ UNCHANGED <<app, queue, stop, telemetry, fault, hasty, wordless>>

Plug ==
    /\ ~plugged /\ plugged' = TRUE
    /\ UNCHANGED <<app, queue, thread, down, device, history>>

World == DeviceFaults \/ DeviceRecovers \/ Unplug \/ Plug
----------------------------------------------------------------------------
Next == (\E w \in Workers : Thread(w)) \/ Poll \/ User \/ PeriodicBlock \/ Execute \/ World

\* Threads are scheduled, the interface polls, and the device's loop goes round.
\* Nothing is assumed of the operator, the cable or the faults.
Spec ==
    /\ Init /\ [][Next]_vars
    /\ \A w \in Workers : WF_vars(Thread(w))
    /\ WF_vars(Poll) /\ WF_vars(PeriodicBlock) /\ WF_vars(Execute)
----------------------------------------------------------------------------
(***************************************************************************)
(* Properties.                                                             *)
(***************************************************************************)

\* A thread that reads the port without belonging to the interface, so that no
\* button can stop it, is only there after a connect that did not wait for the
\* end of the worker before (_handle_rx takes any worker's end for that of the
\* present one).
NoOrphanWithoutHaste ==
    (\E w \in Workers : w # app.worker /\ phase[w] \in {"opening", "reading"} /\ ~stop[w])
        => hasty

\* Whatever way its workers ended, alone or one after the other, once all have
\* and their messages are read no command button is left enabled, and worker and
\* text say so too, unless the last of them died in opening its port without a
\* message (run posts an end on every other path, _handle_rx sets all three).
QuietIsDisconnected ==
    Quiet => /\ ~app.enabled
             /\ wordless \/ (app.worker = NoWorker /\ app.button = "Connect")

\* Used since connecting in good order, the live button tells what the device
\* does as soon as its commands have arrived, however often it was clicked and
\* whatever else was sent (_on_live_toggle, _on_disconnect; a reset, a pulled
\* cable or a spoilt line end it).
LiveButtonTellsTheTruth ==
    clicked /\ ~hasty /\ ~Contains(down, "on") /\ ~Contains(down, "off") =>
        app.live = telemetry

\* A disconnect comes to its end, the button saying so, whatever the worker was
\* at and whether or not the device is still there, unless the operator connects
\* again first or a port was opened in vain without a message since the last
\* connect (stop, run and _handle_rx).
DisconnectCompletes ==
    (app.worker = NoWorker /\ app.button = "Disconnect") ~>
        (app.button = "Connect" \/ app.worker # NoWorker \/ wordless)

\* On a link that lasts, with telemetry on, a fault that is over leaves the
\* readout (only a telemetry block takes it away).
ReadoutRecovers ==
    <>[](Linked /\ telemetry /\ fault = "NONE") => <>[](app.readout = "NONE")
----------------------------------------------------------------------------
(***************************************************************************)
(* The inductive invariant.                                                *)
(***************************************************************************)

\* The workers that still owe the queue their first message, the message of a
\* failed read, and their last.
Opening  == {w \in Workers : phase[w] = "opening"}
Unclosed == {w \in Workers : phase[w] \in {"opening", "reading", "broken"}}
Living   == {w \in Workers : Alive(w)}

QueueBounded ==
    Len(queue) + Cardinality(Opening) + Cardinality(Unclosed) + Cardinality(Living)
        <= QueueMax + 3 * Cardinality(Workers)

\* Only the living are told to stop, and the present worker is not.
ToldToStop ==
    /\ \A w \in Workers : stop[w] => Alive(w)
    /\ app.worker # NoWorker => ~stop[app.worker]

Disconnected(a) == a.worker = NoWorker /\ ~a.enabled /\ a.button = "Connect"

\* Read to its end, the queue leaves the interface disconnected, or, but for
\* the readout, as it is.
Closes(q) == \E i \in 1..Len(q) : /\ q[i] = "ended"
                                  /\ \A j \in 1..Len(q) : i < j => q[j] # "connected"
Silent(q) == \A i \in 1..Len(q) : q[i] \in Faults

\* With no port open, the command buttons are disabled or will be ...
NoPortNoButtons ==
    (\A w \in Workers : phase[w] \in {"dead", "opening"}) =>
        Closes(queue) \/ (Silent(queue) /\ ~app.enabled)

\* ... and with no thread left, and the last not gone without a message, all
\* shows a disconnect or will.
LastWordIsAnEnd ==
    Living = {} /\ ~wordless => Closes(queue) \/ (Silent(queue) /\ Disconnected(app))

\* Connecting in good order, there is one worker at a time, and one that has
\* neither been told to stop nor come to an end is the interface's.
InGoodOrder ==
    ~hasty =>
        /\ \A v, w \in Workers : Alive(v) /\ Alive(w) => v = w
        /\ \A w \in Workers :
              phase[w] \in {"opening", "reading", "broken"} /\ ~stop[w] =>
                  app.worker = w /\ ~Contains(queue, "ended")

\* The last order on the wire, or else the device, is as the live flag says.
Obeyed(d, reports, live) ==
    \/ \E i \in 1..Len(d) : /\ d[i] = Order(live)
                            /\ \A j \in 1..Len(d) : i < j => d[j] \notin {"on", "off"}
    \/ /\ \A i \in 1..Len(d) : d[i] \notin {"on", "off"}
       /\ reports = live

LiveIsObeyed ==
    clicked /\ ~hasty => Linked /\ ~stray /\ Obeyed(down, telemetry, app.live)

IInv ==
    /\ TypeOK /\ QueueBounded /\ ToldToStop
    /\ NoPortNoButtons /\ LastWordIsAnEnd /\ InGoodOrder /\ LiveIsObeyed
============================================================================
