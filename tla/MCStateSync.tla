---------------------------- MODULE MCStateSync ----------------------------
(***************************************************************************)
(* StateSync for TLC.  The colours are white balance and one other.  At    *)
(* the start everything is off, everything is on, or, in a camera of three *)
(* levels, the spotlight is dimmed and the wallwasher off; the data points *)
(* show any of the instance's starts, or their defaults.                   *)
(***************************************************************************)
EXTENDS StateSync

MCColors == {"", "red"}
MCLights == {"front", "brightness"}
MCLightFields == {"front"}
MCStarts == {[privacy |-> on, siren |-> on, front |-> IF on THEN 1 ELSE 0,
              wall |-> IF on THEN 1 ELSE 0, color |-> IF on THEN "red" ELSE ""]
               : on \in BOOLEAN}
MCDimmed == {[privacy |-> TRUE, siren |-> FALSE, front |-> 1, wall |-> 0,
              color |-> "red"]}

=============================================================================
