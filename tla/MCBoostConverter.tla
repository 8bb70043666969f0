-------------------------- MODULE MCBoostConverter --------------------------
(***************************************************************************)
(* BoostConverter for TLC: four wiper positions over every increasing      *)
(* curve of a rail between 1 and RailMax.                                  *)
(***************************************************************************)
EXTENDS BoostConverter
============================================================================
