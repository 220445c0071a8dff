------------------------------ MODULE LockBase ------------------------------
(***************************************************************************)
(* The lock_robot_base plugin of the simulation (LockRobotBasePlugin): the *)
(* services lock_base and unlock_base, the update that the control loop    *)
(* calls in each of its cycles, and the steps of physics between two       *)
(* cycles.  Physics, update and the snapshot of a lock hold sim_mutex;     *)
(* locked_ is an atomic flag that is read and written without it.  The end *)
(* of the process may come in between.                                     *)
(*                                                                         *)
(* The base drives along a line, forward.  The free joint has a position   *)
(* and a velocity there, which a step changes by at most one unit of       *)
(* acceleration: the velocity first, then, by the new velocity, the        *)
(* position, as the integrator of MuJoCo does.                             *)
(*                                                                         *)
(* Left out: the control copy of the state, which update pins too, and     *)
(* which physics writes again after each step; the lookup of body and      *)
(* joint in init; the reset of a simulation that diverged.                 *)
(***************************************************************************)
EXTENDS Integers

CONSTANTS
  MaxBetween,  \* steps of physics between two cycles, see PhysicsSync!LeashHolds
  MaxSpeed,    \* the top speed of the base
  MaxSteps     \* bound: physics stops stepping here

ASSUME LockAssumption ==
  MaxBetween \in Nat /\ MaxSpeed \in Nat /\ MaxSteps \in Nat

VARIABLES
  base,         \* qpos of the free joint in physics_data_
  speed,        \* its qvel
  steps,        \* steps of physics
  since,        \* those since the last cycle of the control loop began
  locked,       \* locked_
  locked_pose,
  control,      \* where update is
  handler,      \* where the handler of a service is
  gone,         \* physics_data_ is null
  ok,           \* rclcpp::ok()
  answer,       \* what a client was told last (history)
  pinned,       \* update has written the pose since it was locked (history)
  loose,        \* steps since update last wrote it (history)
  late          \* how often it wrote after an unlock was answered (history)

physics == << base, speed, steps, since >>
history == << answer, pinned, loose, late >>
vars == << physics, locked, locked_pose, control, handler, gone, ok, history >>

TypeOK ==
  /\ base \in Nat /\ speed \in 0 .. MaxSpeed
  /\ steps \in 0 .. MaxSteps /\ since \in 0 .. MaxBetween
  /\ locked \in BOOLEAN /\ locked_pose \in Nat
  /\ control \in {"idle", "apply"}
  /\ handler \in {"idle", "snapshot", "store"}
  /\ gone \in BOOLEAN /\ ok \in BOOLEAN
  /\ answer \in {"none", "locked", "unlocked"}
  /\ pinned \in BOOLEAN /\ loose \in Nat /\ late \in Nat

Init ==
  /\ base = 0 /\ speed = 0 /\ steps = 0 /\ since = 0
  /\ locked = FALSE /\ locked_pose = 0
  /\ control = "idle" /\ handler = "idle"
  /\ gone = FALSE /\ ok = TRUE
  /\ answer = "none" /\ pinned = FALSE /\ loose = 0 /\ late = 0

-----------------------------------------------------------------------------
(* Physics, which never is farther ahead of the last write than its leash:  *)
(* between the beginnings of two cycles, no more than twice that.          *)

Step ==
  /\ steps < MaxSteps /\ since < MaxBetween
  /\ steps' = steps + 1 /\ since' = since + 1 /\ loose' = loose + 1
  /\ \E v \in {speed - 1, speed, speed + 1} \cap 0 .. MaxSpeed :
       speed' = v /\ base' = base + v
  /\ UNCHANGED << locked, locked_pose, control, handler, gone, ok, answer,
                  pinned, late >>

-----------------------------------------------------------------------------
(* update.                                                                 *)

\* A cycle of the control loop begins; update looks at the flag.
Check ==
  /\ control = "idle" /\ ok
  /\ since' = 0
  /\ control' = IF locked THEN "apply" ELSE "idle"
  /\ UNCHANGED << base, speed, steps, locked, locked_pose, handler, gone, ok,
                  history >>

\* Mutant: the velocity is left to the integrator.
ApplyPosition ==
  /\ control = "apply" /\ control' = "idle"
  /\ base' = locked_pose /\ UNCHANGED speed
  /\ pinned' = (answer = "locked") /\ loose' = 0
  /\ late' = IF answer = "unlocked" THEN late + 1 ELSE late
  /\ UNCHANGED << steps, since, locked, locked_pose, handler, gone, ok, answer >>

\* The pose is written back, whatever the flag is by now.
Apply ==
  /\ control = "apply" /\ control' = "idle"
  /\ base' = locked_pose /\ speed' = 0
  /\ pinned' = (answer = "locked") /\ loose' = 0
  /\ late' = IF answer = "unlocked" THEN late + 1 ELSE late
  /\ UNCHANGED << steps, since, locked, locked_pose, handler, gone, ok, answer >>

-----------------------------------------------------------------------------
(* The services, whose handlers run one at a time.                         *)

\* handle_lock_base finds the data, or answers that the simulation is not
\* available.
BeginLock ==
  /\ handler = "idle" /\ ok
  /\ handler' = IF gone THEN "idle" ELSE "snapshot"
  /\ UNCHANGED << physics, locked, locked_pose, control, gone, ok, history >>

\* snapshot_pose.  Without the data the process ends here.
Snapshot ==
  /\ handler = "snapshot" /\ ~gone /\ handler' = "store"
  /\ locked_pose' = base
  /\ UNCHANGED << physics, locked, control, gone, ok, history >>

\* The flag is set, and the call answered.
Store ==
  /\ handler = "store" /\ handler' = "idle" /\ answer' = "locked"
  /\ locked' = TRUE
  /\ UNCHANGED << physics, locked_pose, control, gone, ok, pinned, loose, late >>

\* Mutant: the call is answered, the flag is not reset.
UnlockAnswered ==
  /\ handler = "idle" /\ ok /\ answer' = "unlocked"
  /\ pinned' = FALSE /\ late' = 0
  /\ UNCHANGED << physics, locked, locked_pose, control, handler, gone, ok, loose >>

\* handle_unlock_base.
Unlock ==
  /\ handler = "idle" /\ ok /\ answer' = "unlocked"
  /\ locked' = FALSE
  /\ pinned' = FALSE /\ late' = 0
  /\ UNCHANGED << physics, locked_pose, control, handler, gone, ok, loose >>

-----------------------------------------------------------------------------
(* The end of the process: rclcpp is shut down, the control loop ends      *)
(* between two cycles, and the hardware cleans its plugins up.             *)

Shutdown ==
  /\ ok /\ ok' = FALSE
  /\ UNCHANGED << physics, locked, locked_pose, control, handler, gone, history >>

Cleanup ==
  /\ ~ok /\ ~gone /\ control = "idle"
  /\ gone' = TRUE /\ locked' = FALSE
  /\ UNCHANGED << physics, locked_pose, control, handler, ok, history >>

Next ==
  \/ Step \/ Check \/ Apply
  \/ BeginLock \/ Snapshot \/ Store \/ Unlock
  \/ Shutdown \/ Cleanup

Spec == Init /\ [][Next]_vars

-----------------------------------------------------------------------------
(* Properties.                                                             *)

\* How far the base gets from a standstill, two cycles of steps long.
Reach == MaxBetween * (2 * MaxBetween + 1)

\* Once update has pinned the base, and until it is unlocked, the base is never
\* farther from its pose than it gets between two updates, however the steps
\* fall between them, and however often it is locked again.
StaysPut == pinned => base \in locked_pose .. locked_pose + Reach

\* After an unlock was answered update writes the pose once more, at most: in
\* the cycle that had looked at the flag before.
OneLateWrite == late <= 1

\* "Unlocking stops the rewriting" (lock_robot_base_plugin.hpp).
UnlockStops == late = 0

\* "The MuJoCo simulation is unavailable." (handle_lock_base) is what a call is
\* told that comes too late: none that goes on uses data that are gone.
HandlerFindsData == handler = "snapshot" => ~gone
=============================================================================
