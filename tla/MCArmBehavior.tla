--------------------------- MODULE MCArmBehavior ---------------------------
(* ArmBehavior with a few goals, the later ones meeting what the earlier   *)
(* ones have left behind.                                                  *)
EXTENDS ArmBehavior
=============================================================================
