--------------------------- MODULE MCOutputStage ---------------------------
(***************************************************************************)
(* OutputStage for TLC: the extremes of frequency and duty cycle, NaN for  *)
(* each, and parameters to be refused; slices stopped in and next to their *)
(* pulses; interrupts of 4 and 8 us.                                       *)
(***************************************************************************)
EXTENDS OutputStage

Request(d, f) == [target |-> 0, duty |-> d, freq |-> f, volts |-> 64]

MCRequests ==
    {Request(10, 5000), Request(120, 5000), Request(120, 10000),
     Request(NaN, 10000), Request(50, NaN),
     Request(5, 5000), Request(130, 5000), Request(120, 11000), Request(20, 900)}
    \cup {[Request(10, 7000) EXCEPT !.target = -1],
          [Request(10, 7000) EXCEPT !.volts = 101]}

MCStopTimes ==
    {0, 797, 1595, -1595, -1597, -1662, -1728, -3259, -3325, 6650}
MCUndefined == {0, 65535}
MCIsrTimes  == {532, 1064}
============================================================================
