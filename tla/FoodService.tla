---------------------------- MODULE FoodService ----------------------------
(***************************************************************************)
(* What the robot promises to whoever requests food: at most one order is  *)
(* open; food is collected only for the open order and only from the       *)
(* parking it names; the order is closed only after its food was thrown;   *)
(* and an order that is not served leaves the robot halted, for good.      *)
(*                                                                         *)
(* RobotBehavior implements this specification.                            *)
(***************************************************************************)
CONSTANTS
  Parkings,   \* the parkings food can be requested from
  NoParking   \* no order, no food

VARIABLES
  order,      \* the parking of the open order
  stage,      \* what the robot is doing about it
  cargo       \* the parking whose food the robot holds

vars == << order, stage, cargo >>

Init ==
  /\ order = NoParking
  /\ stage = "idle"
  /\ cargo = NoParking

\* An order is taken whenever none is open, even by a robot that has halted.
Accept(p) ==
  /\ order = NoParking
  /\ order' = p
  /\ UNCHANGED << stage, cargo >>

Start ==
  /\ stage = "idle"
  /\ order # NoParking
  /\ stage' = "fetching"
  /\ UNCHANGED << order, cargo >>

Collect ==
  /\ stage = "fetching"
  /\ stage' = "carrying"
  /\ cargo' = order
  /\ UNCHANGED order

Throw ==
  /\ stage = "carrying"
  /\ stage' = "thrown"
  /\ cargo' = NoParking
  /\ UNCHANGED order

Complete ==
  /\ stage = "thrown"
  /\ stage' = "idle"
  /\ order' = NoParking
  /\ UNCHANGED cargo

Halt ==
  /\ stage # "halted"
  /\ stage' = "halted"
  /\ UNCHANGED << order, cargo >>

\* The fingers of a halted robot may still finish the motion under way.
Aftermath ==
  /\ stage = "halted"
  /\ cargo' \in {order, NoParking}
  /\ UNCHANGED << order, stage >>

Serve ==
  \/ Start
  \/ Collect
  \/ Throw
  \/ Complete
  \/ stage # "idle" /\ Halt

Next ==
  \/ \E p \in Parkings : Accept(p)
  \/ Serve
  \/ Halt
  \/ Aftermath

Spec == Init /\ [][Next]_vars

\* An order that is open is worked on until it is served or the robot halts.
FairSpec == Spec /\ WF_vars(Serve)
=============================================================================
