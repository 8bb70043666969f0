--------------------------- MODULE MCWpsFirmware ---------------------------
(***************************************************************************)
(* WpsFirmware for TLC: two parameter sets, the boot-time one without a    *)
(* target and an operator's one with a target as high as the counters go.  *)
(***************************************************************************)
EXTENDS WpsRequirements

CONSTANTS boot, job

MCParamSets == {boot, job}

MCTarget == [p \in MCParamSets |-> IF p = job THEN MaxCount ELSE 0]

MCNoTarget == [p \in {boot} |-> 0]
============================================================================
