---------------------------- MODULE PhysicsSync ----------------------------
(***************************************************************************)
(* The threads of the simulated hardware (mujoco_ros2_control) that pace   *)
(* one another: the physics thread with its PhysicsLoopSynchronizer, the   *)
(* updater thread that tells it when the next write is due, the control    *)
(* loop, the camera thread, and the services that pause and resume.        *)
(*                                                                         *)
(* Time counts physics steps (MuJoCo time steps).  A step of a thread is   *)
(* what it does between two points at which another thread can see or      *)
(* change what it uses; a thread that holds sim_mutex keeps the others     *)
(* from reading the simulation time and from taking a snapshot.            *)
(*                                                                         *)
(* Not modelled: MuJoCo resets a diverged simulation to time zero by       *)
(* itself unless the scene disables it; here a divergence stops physics,   *)
(* as the code does for such a scene.                                      *)
(***************************************************************************)
EXTENDS Integers

CONSTANTS
  WritePeriod,   \* 1 / write_frequency
  Safety,        \* physics_sync_safety_interval
  CameraPeriod,  \* 1 / camera_publish_rate
  MaxCameraLag,  \* max_camera_lag
  MaxTime        \* bound: the model stops stepping here

ASSUME PeriodAssumption ==
  /\ WritePeriod \in Nat \ {0}
  /\ Safety \in Nat
  /\ CameraPeriod \in Nat \ {0}
  /\ MaxTime \in Nat \ {0}

\* mujoco_config.xacro: "Must be at least 1 / camera_publish_rate".
ASSUME CameraLagAssumption == MaxCameraLag \in Nat /\ MaxCameraLag >= CameraPeriod

VARIABLES
  physics,        \* where the physics thread is
  time,           \* mj_data_->time, as sim_mutex lets it be seen
  run,            \* sim_->run
  step_current,   \* mj_data_ holds the command written last
  ctrl_current,   \* mj_data_control_ holds the command written last
  paused,         \* simulation_paused_
  steps_paused,   \* steps taken since the pause was acknowledged (history)
  initial_sync,   \* initial_sync_completed_
  controllers_active,  \* controllers_active_: the required controllers are
  last_write,     \* last_ros_write_time_
  next_expected,  \* next_expected_write_time_
  control,        \* where the control loop is
  clock,          \* the /clock the controller manager has received
  camera,         \* where the camera thread is
  snapshot,       \* the simulation time of the scene being rendered
  last_camera,    \* last_camera_update_time_
  teardown        \* how far the destruction of the hardware has come

simulation == << time, run, step_current, ctrl_current, steps_paused >>
sync       == << paused, initial_sync, controllers_active >>
leash      == << last_write, next_expected >>
loop       == << control, clock >>
rendering  == << camera, snapshot, last_camera >>
vars == << physics, simulation, sync, leash, loop, rendering, teardown >>

Times  == 0 .. MaxTime
NoTime == -1      \* std::nullopt: the cameras have not finished an update

TypeOK ==
  /\ physics \in {"top", "paused", "controllers", "cameras", "leash",
                  "step", "stepping", "done"}
  /\ time \in Times
  /\ run \in BOOLEAN
  /\ step_current \in BOOLEAN
  /\ ctrl_current \in BOOLEAN
  /\ paused \in BOOLEAN
  /\ steps_paused \in Times
  /\ initial_sync \in BOOLEAN
  /\ controllers_active \in BOOLEAN
  /\ last_write \in Times
  /\ next_expected \in 0 .. MaxTime + WritePeriod
  /\ control \in {"start", "wait", "update", "write", "done"}
  /\ clock \in {"none", "current", "behind"}
  /\ camera \in {"start", "snapshot", "render", "sleep", "done"}
  /\ snapshot \in Times
  /\ last_camera \in Times \cup {NoTime}
  /\ teardown \in {"no", "control", "cameras", "simulation", "done"}

exit_requested == teardown \in {"simulation", "done"}
sim_mutex_free == physics # "stepping"

-----------------------------------------------------------------------------
(* The physics thread.                                                     *)

\* The head of physics_loop: a simulation that diverged never gets past it.
LoopHead ==
  /\ physics = "top"
  /\ run
  /\ physics' = "paused"
  /\ UNCHANGED << simulation, sync, leash, loop, rendering, teardown >>

\* Mutant: the first call is never marked as made.
StartSyncForgets ==
  /\ physics = "paused"
  /\ ~paused
  /\ physics' = IF initial_sync THEN "controllers" ELSE "step"
  /\ UNCHANGED << simulation, sync, leash, loop, rendering, teardown >>

\* sync_physics_loop, up to the exchange of initial_sync_completed_: the first
\* call lets one step pass, the step that starts /clock.
StartSync ==
  /\ physics = "paused"
  /\ ~paused
  /\ physics' = IF initial_sync THEN "controllers" ELSE "step"
  /\ initial_sync' = TRUE
  /\ UNCHANGED << simulation, paused, controllers_active, leash, loop,
                  rendering, teardown >>

ControllersChecked ==
  /\ physics = "controllers"
  /\ controllers_active
  /\ physics' = "cameras"
  /\ UNCHANGED << simulation, sync, leash, loop, rendering, teardown >>

\* wait_for_cameras_to_catch_up.
CamerasCaughtUp ==
  /\ physics = "cameras"
  /\ last_camera = NoTime \/ time - last_camera <= MaxCameraLag
  /\ physics' = "leash"
  /\ UNCHANGED << simulation, sync, leash, loop, rendering, teardown >>

\* The loop on next_expected_write_time_.
PassLeash(limit) ==
  /\ physics = "leash"
  /\ ~paused
  /\ time <= limit
  /\ physics' = "step"
  /\ UNCHANGED << simulation, sync, leash, loop, rendering, teardown >>

\* The simulation time is a sum of time steps in floating point, the limit was
\* cut to nanoseconds: a time equal to the limit may be found above it or not.
BelowLimit == PassLeash(next_expected + Safety - 1)
AtLimit    == PassLeash(next_expected + Safety)

\* copy_control_inputs, with sim_mutex held until the step is committed.
BeginStep ==
  /\ physics = "step"
  /\ ~exit_requested
  /\ time < MaxTime
  /\ physics' = "stepping"
  /\ step_current' = ctrl_current
  /\ UNCHANGED << time, run, ctrl_current, steps_paused, sync, leash,
                  loop, rendering, teardown >>

\* Mutant: steps are taken in a batch up to the next expected write.
CommitStepInBatch ==
  /\ physics = "stepping"
  /\ time' = time + 1
  /\ physics' = IF time' < next_expected + Safety THEN "step" ELSE "top"
  /\ ctrl_current' = step_current
  /\ step_current' = TRUE
  /\ steps_paused' = IF paused THEN steps_paused + 1 ELSE 0
  /\ run' \in {TRUE, FALSE}
  /\ clock' \in {IF clock = "none" THEN "none" ELSE "behind", "current"}
  /\ UNCHANGED << sync, leash, control, rendering, teardown >>

\* mj_step, mj_copyData and the publication of /clock.  The copy overwrites
\* the commands of mj_data_control_ with those the step was made with.  The
\* message may be dropped rather than block.
CommitStep ==
  /\ physics = "stepping"
  /\ time' = time + 1
  /\ physics' = "top"
  /\ ctrl_current' = step_current
  /\ step_current' = TRUE
  /\ steps_paused' = IF paused THEN steps_paused + 1 ELSE 0
  /\ run' \in {TRUE, FALSE}
  /\ clock' \in {IF clock = "none" THEN "none" ELSE "behind", "current"}
  /\ UNCHANGED << sync, leash, control, rendering, teardown >>

\* Mutant: wait_for_cameras_to_catch_up does not look at exit_requested.
PhysicsExitsLate ==
  /\ exit_requested
  /\ physics \in {"top", "paused", "controllers", "leash", "step"}
  /\ physics' = "done"
  /\ UNCHANGED << simulation, sync, leash, loop, rendering, teardown >>

\* Every loop of the thread looks at exit_requested.
PhysicsExits ==
  /\ exit_requested
  /\ physics \notin {"stepping", "done"}
  /\ physics' = "done"
  /\ UNCHANGED << simulation, sync, leash, loop, rendering, teardown >>

Physics ==
  \/ LoopHead \/ StartSync \/ ControllersChecked \/ CamerasCaughtUp
  \/ BelowLimit \/ BeginStep \/ CommitStep \/ PhysicsExits

-----------------------------------------------------------------------------
(* The updater thread.                                                     *)

\* update_expected_write_time_loop.  It copies the time of the last write under
\* one mutex and stores the expectation under another.  Seen from physics, to
\* store it late is to have physics poll it late.
UpdateExpectedTime ==
  /\ teardown # "done"
  /\ next_expected # last_write + WritePeriod
  /\ next_expected' = last_write + WritePeriod
  /\ UNCHANGED << physics, simulation, sync, last_write, loop, rendering,
                  teardown >>

\* request_controller_states, the manager's answer and the callback.  The
\* controllers are activated, and deactivated, by cycles of the control loop.
ControllerStates ==
  /\ teardown = "no"
  /\ control # "start"
  /\ controllers_active' = ~controllers_active
  /\ UNCHANGED << physics, simulation, paused, initial_sync, leash, loop,
                  rendering, teardown >>

\* The services of physics_sync_node.
PauseSimulation ==
  /\ teardown = "no"
  /\ paused' = TRUE
  /\ steps_paused' = IF paused THEN steps_paused ELSE 0
  /\ UNCHANGED << physics, time, run, step_current, ctrl_current, initial_sync,
                  controllers_active, leash, loop, rendering, teardown >>

ResumeSimulation ==
  /\ teardown = "no"
  /\ paused' = FALSE
  /\ steps_paused' = 0
  /\ UNCHANGED << physics, time, run, step_current, ctrl_current, initial_sync,
                  controllers_active, leash, loop, rendering, teardown >>

-----------------------------------------------------------------------------
(* The control loop.                                                       *)

\* wait_until_started returns.
StartControl ==
  /\ teardown = "no"
  /\ control = "start"
  /\ clock # "none"
  /\ control' = "update"
  /\ UNCHANGED << physics, simulation, sync, leash, clock, rendering, teardown >>

\* Mutant: the wait has no watchdog.
NextCycleNoWatchdog ==
  /\ teardown = "no"
  /\ control = "wait"
  /\ clock = "current"
  /\ time >= last_write + WritePeriod
  /\ control' = "update"
  /\ UNCHANGED << physics, simulation, sync, leash, clock, rendering, teardown >>

\* The wait for the next cycle ends when /clock has reached the deadline or,
\* the watchdog, when the wall clock has: at any time.
NextCycle ==
  /\ teardown = "no"
  /\ control = "wait"
  /\ control' = "update"
  /\ UNCHANGED << physics, simulation, sync, leash, clock, rendering, teardown >>

\* write() stores the commands; it does not hold sim_mutex.
WriteCommands ==
  /\ control = "update"
  /\ ctrl_current' = TRUE
  /\ step_current' = (physics # "stepping")
  /\ control' = "write"
  /\ UNCHANGED << physics, time, run, steps_paused, sync, leash, clock,
                  rendering, teardown >>

\* write() reads the simulation time, under sim_mutex, and records it.
RecordWriteTime ==
  /\ control = "write"
  /\ sim_mutex_free
  /\ last_write' = time
  /\ control' = "wait"
  /\ UNCHANGED << physics, simulation, sync, next_expected, clock, rendering,
                  teardown >>

\* rclcpp::ok() no longer holds, and main joins the control thread.
ControlStops ==
  /\ teardown = "control"
  /\ control \in {"start", "wait"}
  /\ control' = "done"
  /\ teardown' = "cameras"
  /\ UNCHANGED << physics, simulation, sync, leash, clock, rendering >>

Control ==
  \/ StartControl \/ NextCycle \/ WriteCommands \/ RecordWriteTime
  \/ ControlStops

-----------------------------------------------------------------------------
(* The camera thread.                                                      *)

\* The offscreen window is created, or cannot be and the thread ends.
StartCameras ==
  /\ camera = "start"
  /\ camera' \in {"snapshot", "done"}
  /\ UNCHANGED << physics, simulation, sync, leash, loop,
                  snapshot, last_camera, teardown >>

TakeSnapshot ==
  /\ camera = "snapshot"
  /\ sim_mutex_free
  /\ snapshot' = time
  /\ camera' = "render"
  /\ UNCHANGED << physics, simulation, sync, leash, loop,
                  last_camera, teardown >>

\* Mutant: the cameras report the time they finished instead of the time of
\* the scene they rendered.
PublishCloudsLate ==
  /\ camera = "render"
  /\ last_camera' = time
  /\ camera' = "sleep"
  /\ UNCHANGED << physics, simulation, sync, leash, loop,
                  snapshot, teardown >>

\* The clouds are published and set_last_camera_update_time is called.
PublishClouds ==
  /\ camera = "render"
  /\ last_camera' = snapshot
  /\ camera' = "sleep"
  /\ UNCHANGED << physics, simulation, sync, leash, loop,
                  snapshot, teardown >>

\* sleep_until returns.
CamerasWake ==
  /\ camera = "sleep"
  /\ sim_mutex_free
  /\ time >= snapshot + CameraPeriod
  /\ camera' = "snapshot"
  /\ UNCHANGED << physics, simulation, sync, leash, loop,
                  snapshot, last_camera, teardown >>

\* Between two updates the thread looks at rclcpp::ok() and at publish_images_,
\* which close() clears; sleep_until looks at the latter only.
CamerasStop ==
  /\ \/ camera \in {"start", "snapshot"} /\ teardown # "no"
     \/ camera = "sleep" /\ teardown \notin {"no", "control"}
  /\ camera' = "done"
  /\ UNCHANGED << physics, simulation, sync, leash, loop,
                  snapshot, last_camera, teardown >>

Cameras ==
  \/ StartCameras \/ TakeSnapshot \/ PublishClouds \/ CamerasWake \/ CamerasStop

-----------------------------------------------------------------------------
(* The process ends: main joins the control thread, then the destructor of *)
(* MujocoSystemInterface stops the cameras, physics and the updater.       *)

Shutdown ==
  /\ teardown = "no"
  /\ teardown' = "control"
  /\ UNCHANGED << physics, simulation, sync, leash, loop, rendering >>

\* cameras_->close() has joined, simulation_.reset() asks physics to exit.
CamerasClosed ==
  /\ teardown = "cameras"
  /\ camera = "done"
  /\ teardown' = "simulation"
  /\ UNCHANGED << physics, simulation, sync, leash, loop, rendering >>

SimulationStopped ==
  /\ teardown = "simulation"
  /\ physics = "done"
  /\ teardown' = "done"
  /\ UNCHANGED << physics, simulation, sync, leash, loop, rendering >>

Destructor == CamerasClosed \/ SimulationStopped

Init ==
  /\ physics = "top"
  /\ time = 0
  /\ run = TRUE
  /\ step_current = TRUE
  /\ ctrl_current = TRUE
  /\ paused = FALSE
  /\ steps_paused = 0
  /\ initial_sync = FALSE
  /\ controllers_active = FALSE
  /\ last_write = 0
  /\ next_expected = WritePeriod
  /\ control = "start"
  /\ clock = "none"
  /\ camera = "start"
  /\ snapshot = 0
  /\ last_camera = NoTime
  /\ teardown = "no"

Next ==
  \/ Physics \/ AtLimit
  \/ UpdateExpectedTime \/ ControllerStates
  \/ PauseSimulation \/ ResumeSimulation
  \/ Control
  \/ Cameras
  \/ Shutdown \/ Destructor

Spec == Init /\ [][Next]_vars

\* Every thread keeps running.  sim_mutex is free between any two steps,
\* and for good while physics waits.
Fairness ==
  /\ WF_vars(Physics)
  /\ WF_vars(Control)
  /\ WF_vars(Cameras)
  /\ WF_vars(Destructor)
  /\ WF_vars(UpdateExpectedTime)

FairSpec == Spec /\ Fairness

-----------------------------------------------------------------------------
(* Properties.                                                             *)

\* However late the updater is, physics is never further ahead of the last
\* write than one write period, the safety interval and the step under way.
\* The age of the commands it uses is not bounded by this: a write may be lost
\* (CommandsAvailable).
LeashHolds == time <= last_write + WritePeriod + Safety + 1

\* Once a pause was acknowledged at most one more step is taken, the one that
\* had passed the check when the flag was set.
PauseHolds == paused => steps_paused <= 1

\* While the clouds of a scene are rendered, the scene changes by no more than
\* what MaxCameraLag leaves of a camera period, and one step: at their equal,
\* as configured, a cloud is published at most one step after its scene.  Not
\* so the first clouds, for which physics does not wait.
CloudsAreFresh ==
  camera = "render" /\ last_camera # NoTime
    => time <= snapshot + MaxCameraLag - CameraPeriod + 1

\* Physics, control loop and cameras wait for one another, but as long as the
\* controllers stay active and no pause lasts, they do not all wait for ever:
\* time goes on until a step diverges.
TimePasses ==
  <>[](controllers_active /\ ~paused /\ teardown = "no")
  => <>(time = MaxTime \/ ~run)

\* Whatever the threads are waiting for, also in a pause, the process ends.
ProcessEnds == teardown # "no" ~> teardown = "done"

\* "Do not advance MuJoCo until every command expected at this simulation time
\* is available" (physics_loop): when physics goes on, the commands of the last
\* write that has finished are there.
CommandsAvailable == physics = "step" /\ control = "wait" => ctrl_current

\* "Let the first physics step publish a non-zero /clock value.  The controller
\* manager needs that initial tick" (sync_physics_loop).
ClockStarts == <>(clock # "none" \/ paused \/ ~run \/ teardown # "no")
=============================================================================
