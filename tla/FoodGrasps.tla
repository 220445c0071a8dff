----------------------------- MODULE FoodGrasps -----------------------------
(***************************************************************************)
(* What the client of the grasp_pose_provider node is promised, without    *)
(* clouds and indices: a goal ends without food, with a failure, or with a *)
(* grasp at a point of the food that the cameras saw for this very goal,   *)
(* judged from the camera that saw it.                                     *)
(*                                                                         *)
(* GraspCandidates implements this specification.                          *)
(***************************************************************************)
CONSTANTS Points, Cameras, SeenBy

VARIABLES
  phase,    \* "idle", "looking" or "found"
  food,     \* the points of the food that was found
  outcome,  \* how the last goal ended
  grasp     \* its grasp: none, or one << point, camera >>

vars == << phase, food, outcome, grasp >>

Init == phase = "idle" /\ food = {} /\ outcome = "none" /\ grasp = {}

Begin ==
  /\ phase = "idle" /\ phase' = "looking"
  /\ food' = {} /\ outcome' = "none" /\ grasp' = {}

Find ==
  /\ phase = "looking" /\ phase' = "found"
  /\ food' \in SUBSET Points /\ food' # {}
  /\ UNCHANGED << outcome, grasp >>

\* The goal ends: with one grasp when it ends with a grasp, and else with none.
End(how) ==
  /\ phase' = "idle" /\ food' = {}
  /\ outcome' = how

FindNothing == phase = "looking" /\ End("no_food") /\ UNCHANGED grasp

Fail == phase # "idle" /\ End("failed") /\ UNCHANGED grasp

Grasp ==
  /\ phase = "found" /\ End("grasp")
  /\ \E p \in food : grasp' = {<< p, SeenBy[p] >>}

Next == Begin \/ Find \/ FindNothing \/ Fail \/ Grasp

Spec == Init /\ [][Next]_vars
=============================================================================
