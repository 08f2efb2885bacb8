---------------------------- MODULE MCNodeFleet ----------------------------
(* NodeFleet alone, for the rule the design states of every slot.          *)
EXTENDS NodeFleet
=============================================================================
