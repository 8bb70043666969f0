---------------------------- MODULE CommandLine ----------------------------
(***************************************************************************)
(* The operator's line to the device: cmd_poll gathers bytes into a line,  *)
(* splits it into tokens and dispatches it through the command table;      *)
(* cmd_tick sends the periodic telemetry.  Bytes arrive in units: a word   *)
(* of some length, a blank, a carriage return; the newline is an action of *)
(* its own.  Words that follow each other without a blank are one token.   *)
(*                                                                         *)
(* Of what the commands do, the switch of the telemetry and RESET_DEVICE   *)
(* are kept here; the rest is in WpsFirmware and BoostConverter.  While a  *)
(* fault is pending the device answers commands and sends no telemetry; a  *)
(* fault comes and goes at any moment.                                     *)
(***************************************************************************)
EXTENDS Integers, Sequences, SequencesExt

CONSTANTS
    Words,         \* the words an operator may type
    WordLen,       \* their lengths in bytes
    LineMax,       \* CMD_LINE_BUFFER_SZ - 1
    MaxTokens,     \* CMD_MAX_TOKENS
    Interval,      \* TELEMETRY_INTERVAL_MS
    MaxIteration,  \* the longest iteration of the main loop
    Wrap,          \* the millisecond clock counts modulo Wrap
    MaxUnits       \* bound on the units of a line

ASSUME LineAssumption ==
    /\ {"SET_TELEMETRY", "on", "RESET_DEVICE"} \subseteq Words
    /\ Words \cap {"blank", "cr"} = {}
    /\ WordLen \in [Words -> Nat \ {0}]
    /\ LineMax \in Nat \ {0} /\ MaxTokens \in Nat \ {0} /\ MaxUnits \in Nat

\* An iteration is shorter than what the clock has left after an interval.
ASSUME ClockAssumption ==
    /\ Interval \in Nat \ {0} /\ MaxIteration \in Nat \ {0} /\ Wrap \in Nat
    /\ Interval + MaxIteration <= Wrap

VARIABLES
    line,      \* g_line
    index,     \* g_line_idx
    overflow,  \* g_line_overflow
    typed,     \* all units since the last newline
    reply,     \* the answer to the last line, until more is typed
    fault,     \* fault_pending()
    on,        \* ctx.periodic_telemetry_enabled
    now,       \* to_ms_since_boot
    last,      \* ctx.last_telemetry_tick_ms
    since      \* time since the last block or restart, counted up to Interval

vars == <<line, index, overflow, typed, reply, fault, on, now, last, since>>
lineVars  == <<line, index, overflow, typed, reply>>
clockVars == <<now, last, since>>

Units   == Words \cup {"blank", "cr"}
Replies == {"none", "line too long", "too many arguments", "unknown command",
            "wrong arguments", "handled"}

Length(u) == IF u \in Words THEN WordLen[u] ELSE IF u = "blank" THEN 1 ELSE 0

TypeOK ==
    /\ line \in Seq(Units \ {"cr"}) /\ typed \in Seq(Units)
    /\ index \in 0..LineMax
    /\ overflow \in BOOLEAN /\ on \in BOOLEAN /\ fault \in BOOLEAN
    /\ reply \in Replies
    /\ now \in 0..Wrap - 1 /\ last \in 0..Wrap - 1 /\ since \in 0..Interval

Init ==
    /\ line = << >> /\ index = 0 /\ overflow = FALSE
    /\ typed = << >> /\ reply = "none"
    /\ on = TRUE /\ fault = FALSE
    /\ now = 0 /\ last = 0 /\ since = 0
----------------------------------------------------------------------------
(***************************************************************************)
(* The command table.                                                      *)
(***************************************************************************)

\* strtok_r over blanks: a blank ends the token at hand, another unit goes on
\* with it or begins the next.
Split(t, u) ==
    IF u = "blank" THEN [t EXCEPT !.begun = FALSE]
    ELSE [begun |-> TRUE,
          tokens |-> IF t.begun THEN [t.tokens EXCEPT ![Len(t.tokens)] = Append(@, u)]
                     ELSE Append(t.tokens, <<u>>)]

Tokens(units) == FoldLeft(Split, [begun |-> FALSE, tokens |-> << >>], units).tokens

\* g_cmd_table: the commands, and how many arguments each takes.
Arity == [
    SEND_TELEMETRY            |-> {0},
    SET_TELEMETRY             |-> {1},
    SET_ALL_PARAMETERS        |-> {4},
    EDGE_DETECTION_MODE       |-> {0},
    EDM_ISOFREQUENCY_MODE     |-> {0},
    RESET_DEVICE              |-> {0},
    SET_DPOT                  |-> {1},
    READ_HVP_VOLTAGE          |-> {0},
    UPDATE_DPOT_VOLTAGE_TABLE |-> {0},
    SET_DPOT_FROM_VTABLE      |-> {1},
    SET_FEEDBACK_RATIO        |-> {1},
    HELP                      |-> {0, 1}]

Outcome(r, o) == [reply |-> r, on |-> o]

\* cmd_lookup and cmd_dispatch: a token that is one word may name a command.
Dispatch(tokens) ==
    LET name == tokens[1][1]
    IN  IF tokens[1] # <<name>> \/ name \notin DOMAIN Arity
          THEN Outcome("unknown command", on)
        ELSE IF Len(tokens) - 1 \notin Arity[name]
          THEN Outcome("wrong arguments", on)
        ELSE Outcome("handled",
                     IF name = "SET_TELEMETRY" THEN tokens[2] \in {<<"on">>, <<"ON">>}
                     ELSE name = "RESET_DEVICE" \/ on)

\* What a line that holds something amounts to.
Execute(tokens) ==
    IF tokens = << >> THEN Outcome("none", on)
    ELSE IF Len(tokens) > MaxTokens THEN Outcome("too many arguments", on)
    ELSE Dispatch(tokens)
----------------------------------------------------------------------------
(***************************************************************************)
(* cmd_poll.                                                               *)
(***************************************************************************)

Receive(u) ==
    /\ Len(typed) < MaxUnits
    /\ typed' = Append(typed, u)
    /\ reply' = "none"
    /\ UNCHANGED <<on, fault, clockVars>>

\* Wrong variant: the room for the terminating zero is forgotten.
FitsWithoutZero(u) == index + Length(u) <= LineMax + 1

Fits(u) == index + Length(u) <= LineMax

SkipReturn == Receive("cr") /\ UNCHANGED <<line, index, overflow>>

Store(u) ==
    /\ u # "cr" /\ Fits(u)
    /\ Receive(u)
    /\ line' = Append(line, u) /\ index' = index + Length(u)
    /\ UNCHANGED overflow

\* A unit that does not fit fills the line up, and spoils it.
Spill(u) ==
    /\ u # "cr" /\ ~Fits(u)
    /\ Receive(u)
    /\ index' = LineMax /\ overflow' = TRUE
    /\ UNCHANGED line

\* RESET_DEVICE: everything starts over.
Restart == fault' = FALSE /\ now' = 0 /\ last' = 0 /\ since' = 0

\* Wrong variant: the rest of a spoilt line spoils the next one as well.
StillSpoilt == overflow

\* A new line begins unspoilt.
Unspoilt == FALSE

EndOfLine ==
    LET tokens  == Tokens(line)
        outcome == IF overflow THEN Outcome("line too long", on)
                   ELSE IF index > 0 THEN Execute(tokens) ELSE Outcome("none", on)
    IN  /\ reply' = outcome.reply /\ on' = outcome.on
        /\ IF ~overflow /\ index > 0 /\ tokens = << <<"RESET_DEVICE">> >>
             THEN Restart ELSE UNCHANGED <<fault, clockVars>>
        /\ line' = << >> /\ index' = 0 /\ overflow' = Unspoilt
        /\ typed' = << >>
----------------------------------------------------------------------------
(***************************************************************************)
(* An iteration of the main loop takes d and, without a fault, ends in     *)
(* cmd_tick.                                                               *)
(***************************************************************************)

Due == (now' - last) % Wrap >= Interval

\* Wrong variant: every look at the clock is remembered but that of a block.
LastLooked(sent) == IF sent THEN last ELSE now'

\* Wrong variant: a block is not remembered either.
LastKept(sent) == last

\* A block is remembered.
LastSent(sent) == IF sent THEN now' ELSE last

Later(d) == IF since + d < Interval THEN since + d ELSE Interval

Iteration(d) ==
    LET sent == on /\ ~fault /\ Due
    IN  /\ now' = (now + d) % Wrap
        /\ last' = LastSent(sent)
        /\ since' = IF sent THEN 0 ELSE Later(d)
        /\ UNCHANGED <<lineVars, fault, on>>

FaultComesOrGoes == fault' = ~fault /\ UNCHANGED <<lineVars, on, clockVars>>
----------------------------------------------------------------------------
Poll == SkipReturn \/ (\E u \in Units : Store(u) \/ Spill(u)) \/ EndOfLine

Loop == \E d \in 1..MaxIteration : Iteration(d)

Next == Poll \/ Loop \/ FaultComesOrGoes

\* The main loop goes round; nobody has to type.
Spec == Init /\ [][Next]_vars /\ WF_vars(Loop)
----------------------------------------------------------------------------
(***************************************************************************)
(* Properties.                                                             *)
(***************************************************************************)

Add(n, u) == n + Length(u)
Sum(units) == FoldLeft(Add, 0, units)

Keep(kept, u) == IF u = "cr" THEN kept ELSE Append(kept, u)
WithoutReturns(units) == FoldLeft(Keep, << >>, units)

\* What a line that was typed should amount to, whatever came before it.
Meaning(units) ==
    IF Sum(units) > LineMax THEN [reply |-> "line too long", on |-> on]
    ELSE Execute(Tokens(WithoutReturns(units)))

\* Each line is answered for what was typed in it, as a whole: what was left
\* over from a line before, a line that was too long and returns inside words
\* change nothing (cmd_poll's reset of g_line_idx and g_line_overflow).
LineReadAsTyped ==
    [][typed # << >> /\ typed' = << >> =>
          [reply |-> reply', on |-> on'] = Meaning(typed)]_vars

\* Periodic blocks are never less than an interval apart, one right after the
\* other included, also across the wrap of the millisecond clock and after
\* telemetry was off, or a fault, for long (cmd_tick).  It is only in cmd_tick
\* that the clock is read, and only with a block that since becomes 0.
TelemetrySpaced ==
    [][since' = 0 /\ now' # now /\ typed' = typed =>
          since + ((now' - now) % Wrap) >= Interval]_vars

\* While telemetry stays on and no fault comes, the next block comes, however
\* the clock stood when it was switched on (cmd_tick's subtraction).
TelemetryComes == on /\ ~fault /\ since > 0 ~> since = 0 \/ ~on \/ fault
----------------------------------------------------------------------------
(***************************************************************************)
(* The inductive invariant: the line holds what was typed, or is known to  *)
(* be too long; and while less than an interval has gone by since the last *)
(* block the clock tells exactly how long ago it was.                      *)
(***************************************************************************)

LineHoldsTyped ==
    /\ IF overflow THEN Sum(typed) \in Nat \ 0..LineMax
       ELSE line = WithoutReturns(typed) /\ index = Sum(typed)
    /\ index = 0 => ~overflow /\ line = << >>
    /\ typed = << >> => index = 0

ClockTells == since < Interval => since = (now - last) % Wrap

IInv == TypeOK /\ LineHoldsTyped /\ ClockTells
============================================================================
