--------------------------- MODULE MCCommandLine ---------------------------
\* A line of five bytes and two tokens; a clock of five counts.
EXTENDS CommandLine

MCWords   == {"SET_TELEMETRY", "on", "RESET_DEVICE"}
MCWordLen == [w \in MCWords |-> IF w = "on" THEN 1 ELSE 2]
============================================================================
