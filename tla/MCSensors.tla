----------------------------- MODULE MCSensors -----------------------------
(***************************************************************************)
(* Sensors for TLC: a buffer of three, and three discharges told apart.    *)
(***************************************************************************)
EXTENDS Sensors
============================================================================
