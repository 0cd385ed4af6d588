------------------------- MODULE MCPatroniSwitchover -------------------------
(* Model values for the runs of PatroniSwitchover. *)
EXTENDS PatroniSwitchover, TLC

CONSTANTS m1, m2, m3
=============================================================================
