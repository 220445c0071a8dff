-------------------------- MODULE MCRobotBehavior --------------------------
(* RobotBehavior with the four parkings of the code, and with request      *)
(* numbers on both sides of the range it accepts.                          *)
EXTENDS RobotBehavior

MCRequestNumbers == 0 .. 5
=============================================================================
