--------------------------- MODULE MCPhysicsSync ----------------------------
(* PhysicsSync with periods of two steps.                                  *)
EXTENDS PhysicsSync
=============================================================================
