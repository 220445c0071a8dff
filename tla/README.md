# TLA+ models of the food-fetching robot

This directory holds the formal models of the workspace in `src/workspace`: a
simulated mobile manipulator that takes requests for food, drives to a parking,
grasps food from its shelf, carries it to the hole of that parking and throws it
in. It is written for somebody who has the repository open beside it. Paths
below are relative to `src/workspace/src/` of the repository unless they start
with `src/`.

## 1. Inventory

### 1.1 The parts and how they meet

| Part | State it keeps | What it does |
|---|---|---|
| `robot_behavior` (Python node) | current state, shared data (order, grasp pose, gripped), handler slots, futures | takes a request, walks a state machine, one asynchronous call at a time |
| `arm_behavior` (C++ node) | reservation `motion_active_`, `moveit_mutex_`, planning budget, worker threads | four actions (pose, home, lift, check) and two payload services on top of MoveIt |
| `grasp_pose_provider` (Python node) | point-cloud snapshots, pause flag, per-request state | takes clouds of the shelf with physics paused, asks GPD for grasps, tries their reachability with the arm |
| `mujoco_ros2_control` (C++ process) | MuJoCo data, its copy for control, leash and camera times, pause flag | the simulated hardware: physics, control, camera and updater threads |
| `mujoco_ros2_control_plugins` | pinned base, capture ring buffer, food and obstacle positions | services on the simulation, run in the control loop; a thread that writes the capture |
| `src/workspace/capture` (scripts) | none between runs | make a film of a capture, or replay it |
| `grasp_pose_provider`, candidate generation | arrays of points, cameras and indices; the topics with the food cloud and the candidates | turns the clouds of several cameras into a request to GPD, and its answer into candidates |
| `simulation_interface_gui` | scene, futures between a Qt and a ROS thread, position of the box on the panel | polls the scene, sends requests, throws food, moves a box |
| `gpd_ros2` | none between requests | serves grasp detection, for minutes |
| launch and configuration packages | none | start and parameterise the processes |
| Nav2, MoveIt, ros2_control, MuJoCo | - | external |

```
GUI --RequestFood--> robot_behavior --navigate--> Nav2
                          |---move_arm_*, attach/detach--> arm_behavior --> MoveIt
                          |---provide_grasp_pose--> grasp_pose_provider --> GPD
                          |                              |---check pose--> arm_behavior
                          |---lock/unlock base--> plugins
   arm_behavior, grasp_pose_provider --pause/resume--> mujoco_ros2_control
```

Everything is a ROS 2 action or service: a request may find no server, be
refused, be answered late, or have its answer dropped by a caller that gave up.
The two nodes that pause physics share one Boolean flag, which is not counted.

### 1.2 What is hard, and what makes each part correct

* `robot_behavior`: one executor thread, so callbacks do not overlap, but they
  arrive in any order, and handlers are looked up when the answer arrives. It is
  right if an answer only ever reaches the state that asked, the grasp pose is
  still true when the fingers close, the planning scene agrees with the fingers
  whenever the arm moves, and an accepted order is either delivered or the robot
  is known to have stopped.
* `arm_behavior`: one executor thread, one worker thread per goal, a mutex both
  wait for, calls with time limits whose requests outlive them. It is right if
  one goal runs at a time, every goal gets its result, and whatever a motion
  changed for its own purposes (pause, collision matrix, budget) is put back
  however it ends.
* `mujoco_ros2_control`: four threads that wait for each other in a ring. It is
  right if physics stays on its leash behind the control loop, a pause holds,
  clouds show a recent scene, the ring never stops by itself, and the process can
  always be ended.
* `grasp_pose_provider`: reentrant callbacks on many threads; right if physics
  runs again after a request however it ends, a cloud is of the moment asked for, which
  is so within limits (finding 3, 4.1), and the arm is free for the next candidate.
* `state_capture` plugin: a single-producer, single-consumer ring; right if what
  is written is what was sampled, in order, stop loses nothing accepted, the schedule
  survives jumps of the simulation time, and a failing file holds nobody up.
* `lock_robot_base` plugin: `update` against its services, physics between two
  updates; right if a pinned base stays near its pose, and an
  acknowledged unlock is final, which it is but for one write (4.1).
* `render_capture.py`: sequential, but its file may be written meanwhile, and is read
  twice. It is right if each frame shows the state of its time, the film covers the
  interval, a good file is not refused, and no process and no copy of the model is left
  behind, which is so but for two ways out (4.1).
* candidate generation: points are dropped, merged, clustered and cropped, and at each
  of these the indices, sources and food are renumbered by a statement of their own;
  GPD answers late. It is right if the arrays of a request agree, a grasp is on food
  that was seen for its own goal, and its food was published before GPD was asked and
  before a candidate is shown or checked.
* GUI: a Qt and a ROS thread, futures that may be done before anybody has
  subscribed, servers that go down, an executor that ends by itself. It is right if
  one scene update is under way and somebody will finish it, reports are true and
  given, the panel comes to agree with the simulation, a closed window is not told
  anything, and closing ends.

`PROJECT.json` lists the hazards one by one at their lines, with the properties
that would catch each, and a note on those that no property covers yet.

## 2. Modules

| Module | Models | Used by |
|---|---|---|
| `FoodService` | what a client of the robot is promised (abstract) | `RobotBehavior` |
| `RobotBehavior` | `robot_behavior`, and what its calls do to the robot | `MCRobotBehavior` |
| `RobotBehavior_proofs` | theorems | |
| `PhysicsSync` | the threads of the simulated hardware | `MCPhysicsSync` |
| `PhysicsSync_proofs` | theorems | |
| `ArmService` | what a client of the arm is promised (abstract) | `ArmBehavior` |
| `ArmBehavior` | `arm_behavior`, with the flag and the matrix it changes elsewhere | `MCArmBehavior` |
| `ArmBehavior_proofs` | theorems | |
| `GraspPoseProvider` | `grasp_pose_provider`, with the arm's checks, the flag they share and the cameras | `MCGraspPoseProvider` |
| `GraspPoseProvider_proofs` | theorems | |
| `CommandService` | what the operator of the GUI is promised (abstract) | `SimulationGui` |
| `SimulationGui` | `simulation_interface_gui`, with the services it calls | `MCSimulationGui` |
| `SimulationGui_proofs` | theorems | |
| `FoodGrasps` | what a client of the provider is promised (abstract) | `GraspCandidates` |
| `GraspCandidates` | the provider's pipeline from clouds to the grasp, and GPD | `MCGraspCandidates` |
| `GraspCandidates_proofs` | theorems | |
| `CaptureLog` | what a capture promises (abstract) | `StateCapture` |
| `StateCapture` | the `state_capture` plugin, its thread, and physics beside it | `MCStateCapture` |
| `LockBase` | the `lock_robot_base` plugin, and physics beside it | `MCLockBase` |
| `LockBase_proofs` | theorems | |
| `RenderCapture` | `render_capture.py`, with a capture that goes on | `MCRenderCapture` |
| `Capture_proofs` | theorems about `StateCapture`, `RenderCapture`, and the two together | |

Operators commented "Mutant:", or, in `SimulationGui` and `GraspCandidates`, as the
next one "that" or "without" what the code does, are plausible wrong versions of the
definition that follows them; no specification uses them. Each property is shown to be
violated when one of them takes the place of the code's version.

### 2.1 `RobotBehavior` and `FoodService`

One action per callback of the node. `current_state` and `shared` are the fields
of `StateMachine`; `calls[name]` is the invocation the behavior client has under
way under that name, from waiting for its server over the goal response to the
result; `handler[name]` is the handler slot, which is set when a call is made and
read when the answer arrives. `ChangeState` is `change_state` with the `on_entry`
of the next state, whose call goes out in the same callback. `FutureFails` is a
future that completes with an exception: the client logs it and nobody hears of
the call again; the name joins `unheard`. The servers' side (`Serve...`) is the
environment: each answers one call and changes what that call changes on the
robot.

`FoodService` has three variables, the order, the stage and the cargo, and says
that food comes only from the parking ordered, that an order is closed only after
its food was thrown, that work on an open order goes on, and that giving up is
for good. `Courier` in `RobotBehavior` is the refinement mapping.

Assumed of the environment: the gripper stalls only on food that is where it was
seen; the poses above a hole, which are in the map frame, cannot be reached from
a base that stands at another known place; a chassis that is not pinned may
drift at any time; a refusal changes nothing, a reported failure of a scene
change or a motion may have changed something.

### 2.2 `PhysicsSync`

One variable per thread says where the thread is (`physics`, `control`,
`camera`, `teardown` for the main thread's destructors); the others are the
shared fields, with the names of the code. Time counts MuJoCo steps. An action is what a thread does between two points at
which another can interfere; `sim_mutex` is held exactly while physics is
`"stepping"`, the other holders read one value under it. Commands are abstracted
to one bit per buffer: whether it holds the command written last. `clock` is what
the controller manager has of `/clock`: nothing, the present time or an older
one, because `try_publish` may drop a message.

`BelowLimit` and `AtLimit` are the same test of the leash. The simulation time is
a floating-point sum and the limit is cut to nanoseconds, so at equality the test
may go either way: safety has both, liveness counts on `BelowLimit` alone.

### 2.3 `ArmBehavior` and `ArmService`

`pc[g]` is where the worker of goal `g` is: it waits for `moveit_mutex_`,
prepares, reads and relaxes the collision matrix (home and lift only), pauses,
plans, resumes, executes (a check does not), restores, unlocks, releases the
reservation, publishes. A call to another node is `Send`, `Serve` and `Received`,
or at any moment `Failed`; a request stays in `requests` when its caller gives
up, and may be served then, or never. `Leave` is every way out of a motion, by
return or exception, with the destructor of `CollisionScope`. `executor` is the
payload callback the only executor thread is blocked in: no response is
delivered meanwhile. `failed` is a history variable, read by no action: what has
failed so far, for properties that hold as long as nothing has.

The octomap, poses and trajectories are left out. `acm` has two values, strict
and relaxed: the code relaxes one set of pairs and puts the old matrix back.

`ArmService` has no workers, calls and locks: a goal is accepted only while none has
the arm and moves alone, the payload changes only while none moves, and a goal stops
moving only with physics running and every collision checked, unless a call failed;
outside a motion, physics and collisions change only as the late effect of one. The
arm is given back before the result is reported. `Service` is the refinement mapping,
in which a goal moves while its worker holds `moveit_mutex_`.

### 2.4 `GraspPoseProvider`

`pc[g]` is where the callback of goal `g` is: it waits for clouds, pauses, generates
candidates, resumes, then sends candidate after candidate to the arm and waits
for the answer and the result of each; `EndGoal` is every return and exception,
with the `finally` clause (`"cleanup"`). The node has no goal callback, so every
goal is accepted, and its group is reentrant: goals overlap. Calls are as in
`ArmBehavior`, and a check goes on in the arm when the provider has given it up.
The arm is the part of `ArmBehavior` a check goes through, from the reservation to the
result, with the same names; other clients of the arm are left out, as the only one,
`robot_behavior`, waits for the provider meanwhile.

A scene is numbered. The cameras take one, render it, and publish a
cloud of it per topic; a reader keeps the newest (`transit`) until the executor takes
it. Clouds are published in order and may be late or lost. The subscriptions are
reentrant and the executor has several threads, so that a callback which has taken a
cloud (`Take`) may be overtaken by the next one before it stores it (`Receive`): `taken`
has the clouds in the hands of callbacks, which are stored in any order. The cameras may
go on in a pause: one woken before it may still take a scene.
`marked` is a history variable: what the cameras, the node and its callbacks had at the
mark.
What transforms, food detection and GPD find is one choice in `Generate`; poses of
candidates are well formed, so that the arm rejects none for its pose.
`RobotBehavior` has of all this what it needs (`CaptureShelf`, `ServeGraspPose`),
and there takes the clouds to be of a scene after the goal was sent; finding 3 is
where the code does not ensure that.

### 2.5 `SimulationGui` and `CommandService`

An operation is a command of the operator (throw, order, move of the box) or one of
the three reads of a scene update; `phase` is the state of its future: queued for the
executor, called, served or refused by its server, lost, or done. `qt` and `ros` say
what the two threads are doing, up to the next access to what both share. A callback
is run by the thread that completes the future, or by the subscriber if the future
is done already: hence the steps `Watch`, `Compose`, `Refresh` and `Register`,
each a subscription of the Qt thread between any two steps of the ROS thread, and
`Complete`, `FinishState`, `FinishSceneUpdate`, `FinishCommand`, the chain of
callbacks on the other side. `pending` is the completion counter of the state provider.
`events` are the queued slots of the window; of what they carry only the position of
the box is kept. Closing is `Quit` (stop, and the client's `close` submitted),
`Shutdown` (after at most two seconds the executor), `Join` (at most five seconds for
the thread), then the end of `main`, and with it of the daemon thread. `ExecutorFails`
is `spin` raising, which is logged and nothing else.

The simulation's services run under its mutex and are one step each (`Serve`); the
obstacle plugin stores a position and puts the box there in its next `update`
(`ApplyStoredPose`). A server that goes down loses what it was asked; a simulation
that comes back has the box at its beginning. `performed` and `told` are history.

`CommandService` has for each command whether it was given, performed and reported:
it is performed at most once, success is reported only of what was performed, failure
only of what was not and never will be, and one report is given at most.

### 2.6 `GraspCandidates` and `FoodGrasps`

One goal after another, each the callback of the provider with the whole of candidate
generation. A point is a row of the camera messages; `cloud`, `source` and `food` are
the arrays of the code: a point per index, a camera per index, the indices of the
food. `Merge`, `Subtract`, `Cluster` and `Crop` choose which points stay, as geometry
would, and then build the new arrays exactly as the code does: `Increasing` is
`np.nonzero` of a mask, the rest are lookups. `Ask` adds a request to `asked`,
which stays there after `GiveUp`; `Serve` may answer it at any time, and the answer is
heard only by the client that still waits for it, since every call makes a client of
its own. `octomap` is the last message published on the topic of the food cloud, which is
volatile and may be lost on its way: what the planning scene makes of it is not in the
model. `shown` is the last message on the topic of the candidates. `GraspPoseProvider` has the
other side of the same callback: the wait for the clouds, the pause, the checks of
the arm.

`FoodGrasps` has no clouds and no indices: a goal ends without food, with a failure,
or with a grasp at a point of the food found for it, judged from the camera that saw
that point. `Promise` is the refinement mapping.

### 2.7 `StateCapture` and `CaptureLog`

`control` is where the control loop is in `update` and in the two calls it makes of the
consumer (`Acquire`, `Publish`); `consumer` is where the writing thread is in
`drain_buffer`. Each access to something another thread uses is a step: the flag, the
two sequence numbers, each of the two fields of a slot. The numbers are read with
acquire and stored with release, so steps in some order are all there is. A moment of
the simulation is its step and the steps since time zero, which MuJoCo's reset of a
diverged simulation puts back (`Step`). `copying` is the part of `mj_copyData` still to
come: the control loop takes no mutex and may read in the middle. The end of the process
goes from `Shutdown` over the end of the control loop to the two halves of `stop` and
the join. `captured` is history: the samples published, as they were in the slot.

`CaptureLog` has two sequences and two flags: samples are taken, no more than
`Capacity` ahead of the rows, and written in their order; the file is closed with all
of them unless it has failed. `Log` is the refinement mapping.

### 2.8 `LockBase`

`Check` and `Apply` are the two halves of `update`, before and behind the mutex;
`BeginLock`, `Snapshot` and `Store` the three accesses of `handle_lock_base`; `Unlock`
is one store and the answer. `Step` is a step of physics, of which at most `MaxBetween`
fit between the beginnings of two cycles: the write of the first comes at most a leash
after it, and physics gets at most a leash ahead of that (*LeashHeld* in
`PhysicsSync_proofs`). `answer`, `pinned`,
`loose` and `late` are history. `RobotBehavior` has of this plugin a base that is pinned
from the answer of the lock to that of the unlock; `StaysPut` and
`OneLateWrite` say how far that is true.

### 2.9 `RenderCapture`

`phase` is where the program is. `InspectRow` and `InspectEnd` are the first reading,
with the number of frames that follows from it; `OpenSamples`, `Advance` and `Draw` the
loop over frames and samples of the second; `Finally` the clause of that name. The pipe
to FFmpeg is buffered (`buffered`): a frame written to it may stay there, all of it or
its rest, and only what has to be sent tells the program that FFmpeg is dead. Closing the
pipe is sending the rest, which raises then (`CloseRaises`): in `Encode` that leads to
`Finally`, which finds it closed; in `Finally` itself it skips all that follows. A row is
its time, and a frame the number of the row it shows. `WriteRow`, `WritePart` and
`WriteRest` are the file of a capture that goes on, whose last row may be there in part,
and then reads as a smaller time, or as no row of positions. `cause` is history: what
went wrong that is not the program's doing. Specification and invariants have names of
their own (`RenderSpec`, `RenderTypeOK`), because `Capture_proofs` extends both modules.

## 3. Runs

| Run | Configuration | Shows |
|---|---|---|
| `robot_behavior` | `MCRobotBehavior.cfg` | the properties of 2.1, and the refinement of `FoodService` with its fairness |
| `physics_sync` | `MCPhysicsSync.cfg` | the properties of 2.2 |
| `commands_available` | `CommandsAvailable.cfg` | finding 1 |
| `clock_starts` | `ClockStarts.cfg` | finding 2 |
| `arm_behavior` | `MCArmBehavior.cfg` | the properties of 2.3, and the refinement of `ArmService` |
| `grasp_pose_provider` | `MCGraspPoseProvider.cfg` | the properties of 2.4 |
| `clouds_taken_after_mark` | `CloudsTakenAfterMark.cfg` | finding 3 |
| `simulation_gui` | `MCSimulationGui.cfg` | the properties of 2.5, and the refinement of `CommandService` |
| `grasp_candidates` | `MCGraspCandidates.cfg` | the properties of 2.6, and the refinement of `FoodGrasps` |
| `state_capture` | `MCStateCapture.cfg` | the schedule and the end of 2.7, and the refinement of `CaptureLog` |
| `lock_base` | `MCLockBase.cfg` | the properties of 2.8 |
| `render_capture` | `MCRenderCapture.cfg` | the properties of 2.9 |

### 3.1 The properties

Of the properties of a module the runs check those that say most. Its type invariant,
and what follows from a refinement that is checked, are proved (section 5) and not
checked again; only `RenderCapture`, whose cursors into a growing file are what its
type invariant is about, has it in the run.

`robot_behavior`. *AnswersReachTheirState*: one call is under way and its
handlers are those of the current state. *GraspPoseStaysValid*: between capture
and grasp the base is pinned and has not moved. *DrivesUnpinned*: no drive is
asked for with the base pinned. *ArmMovesInTrueScene*: the payload box and the octomap agree
with the fingers when the arm is to move. *ReleasedAboveItsHole*:
food is released only above its own hole, although the result of the drive there
is ignored. *ImplementsFoodService*: the refinement, and
with it that requests which arrive meanwhile do not change whose food is carried
(*HeldFoodIsTheOrder*), that an order is dropped only after delivery
(*OrderKeptUntilDelivered*), and that it is delivered unless the robot has stopped.

`physics_sync`. *LeashHolds*: physics is at most a write period, the safety
interval and a step ahead of the last write. *PauseHolds*: at most one step after
an acknowledged pause. *CloudsAreFresh*: a bound on the age of the scene in a
cloud. *TimePasses*: the threads do not all wait for each other.
*ProcessEnds*: nothing a thread waits for can hold up the end of the process.

`arm_behavior`. *ImplementsArmService*: the refinement, and with it that one goal at a
time is worked on, exactly while the servers are reserved (*OneMotionAtATime*), and that
the reservation is back before the client can know. *SimulationResumes*: physics stands still only
during planning, unless a call to the synchronizer failed. *ScopesRestored*: a
relaxed matrix is always owed back. *FullBudget*: motions are planned with the
full budget unless a check threw. *PayloadFixedInMotion*: the payload box never
changes between planning and execution. *EveryGoalEnds*: the
executor, blocked in a payload callback, and the worker, waiting for an answer
the executor delivers, do not block each other for ever.

`grasp_pose_provider`. *PhysicsRunsAgain*: goals and the arm pause by one
flag that is not counted, and physics still runs in the end; nobody may stop before
he has resumed it. That physics stands still *while* a goal generates is not
true and not claimed by the code: another goal, or the arm, may resume it.
*CloudsAreNew*: every cloud of a snapshot is of a later scene than the one the node
had from that camera when the goal arrived, or was then in the hands of a callback; it
may be an older one in that case, since `_receive` does not compare times (4.1).
*ChecksMakeWay*: the next candidate finds the
arm free, because the reservation is given back before the result is sent; it
is refused only for the check of another goal, which may be one that was given up: that
such a check holds up the next goal is what the code does. *EveryGoalEnds*: every wait ends.

`simulation_gui`. *OneUpdateInFlight*: the flag of the refresher is set exactly as long
as one update is under way, and somebody will finish it, unless an answer is
lost or the ROS thread is gone. That a lost answer ends the refreshing for good, since
no read has a time limit, is what the code does; the property says that nothing
else can. *QuietAfterStop*: after the stop the ROS thread tells the window nothing, but
for one callback that had looked at `_running` before. *CommandsHonest*: the
refinement. *PanelConverges*: the panel, which steps ahead of the simulation and is
overwritten by answers older than its step, comes to show where the box is.
*CommandsReported*: each command is reported, however the completion of its future
and the subscription interleave. *ClosingEnds*: closing ends, with an exception or
with everything destroyed in order.

`grasp_candidates`. *RequestsAgree*: no array of a request is out of step with the
others, no index is out of range, the samples are the food. *FoodPublishedFirst*: by
the time GPD is asked, a candidate shown or one returned, the food of that goal has been
published, the same points; whether anybody received it is not claimed. *GraspsHonest*: the
refinement, with answers of GPD that come one goal too late.

`state_capture`. *ScheduleNear*: the next sample
is due within a period of the time seen last, after a jump and after a reset, too.
*ImplementsCaptureLog*: the refinement, and with it that no row is made of two samples
and none is written twice, although producer and consumer share the slots without a
lock (*RowsAreTheSamples*), and that a file closed without an error has the samples of
the last cycle too, because the consumer looks whether it is to stop before it drains
(*NothingLost*). It fails if the consumer can be joined while the control loop still
publishes. *CleanupEnds*: neither a file that has failed nor samples that are left hold
up the end of the process.

`lock_base`. *StaysPut*: between two updates physics moves a pinned base. It gets no
farther than `Reach`, and that again and again, because `Apply` takes its speed as well
as its way, and because no cycle that begins while it is locked passes it by.
*OneLateWrite*: what can be said of the order of the answer of an unlock and the writes.

`render_capture`. *FramesLatest*: the frames, drawn from a file that has grown, show
what was there when they were counted. *IntervalCovered*: no frame is missing at the
end, and none is too many. *RefusedForCause*: a finished file of one run is rendered,
one of a single row too. *CleanedUp*: no way out leaves FFmpeg running, and two leave the
directory with the copy of the model: a model without a place for a camera, and an
FFmpeg that died before all that was written to its pipe was sent. A film that was
created leaves nothing.

### 3.2 Bounds

* `RobotBehavior`: the four parkings of the code and the request numbers 0 to 5,
  that is every valid one and the nearest invalid ones. Nothing else is bounded:
  the state space (3,644 states) is complete.
* `PhysicsSync`: `WritePeriod` = `CameraPeriod` = `MaxCameraLag` = 2, `Safety` =
  0, `MaxTime` = 4 (413,260 states). In four steps physics meets the leash twice,
  is held by the cameras, and can be paused, diverge and be torn down at each
  point. At `MaxTime` the model takes no more steps. The two violation
  runs need only 3 steps.
  Deadlock is not checked because the process ends.
* `ArmBehavior`: two goals, each sent once (216,528 states). The second meets
  everything the first can leave behind, late requests included, and contends
  with it for the reservation and the lock. Of the four kinds, `home` is left to
  the proofs: a home motion is a lift that is never rejected for its
  target. Payload requests are not bounded. The theorems say that more goals
  change nothing for the safety properties.

* `GraspPoseProvider`: two goals, each sent once, a camera, two candidates, two
  scenes (208,580 states). Two scenes are one from before a goal and one from after
  it, or two clouds that are stored in the wrong order; two candidates are one that
  follows another. The cameras have nothing to do with each other but that a snapshot
  waits for all of them: the theorems have any number. Deadlock is not checked
  because goals and scenes run out.

* `SimulationGui`: a move of the box or a throw, and after it an order; two numbers
  of updates, one step, one fault (a server or the executor), no input while an event
  waits (212,019 states). An update and a command, or two commands, are then under way
  together in every phase, a move can be overtaken by an older answer, and every fault
  can strike in each phase. A second number shows that there is never a second update.
  Deadlock is not checked because `main` ends.
* `GraspCandidates`: four points, two of one camera and one each of two others, two
  labels, at least two points of food, one candidate shown, two checked, two grasps of
  GPD, two goals (47,596 states). Four points let finite points, food, largest cluster
  and crop all differ, each with a gap that renumbers what follows; two goals are a
  late answer and the goal that must not hear it. Deadlock is not checked because
  goals run out. The theorems have any numbers.

* `StateCapture`: a ring of two slots, a step of 2 and a period of 3, three steps, one
  reset (324,119 states). The ring fills up and wraps around; a step is now shorter and
  now longer than what is left of the period; the sample that is dropped, the end in
  the middle of a sample and the failure of the file are all reached. Deadlock is not checked
  because the process ends. The theorems have any numbers.
* `LockBase`: two steps between two cycles, a base that can gain speed in each of four
  steps, six steps (319,230 states): what it takes to get as far as `Reach` from a base
  that was driving before. Calls are not bounded. Deadlock is not checked because the
  process ends.
* `RenderCapture`: up to three rows, times 0 to 4, a frame in two ticks, all of the file
  or its last two ticks, all frames or one (428,248 states). Several samples in one
  frame, several frames of one sample, a sample at the time of a frame, an interval
  that is no multiple, one without a length, and a window that begins between two
  samples are among them. The file is of no interest once the program has ended, when
  deadlock is not an error.

### 3.3 Fairness

* `RobotBehavior`: `WF(Node)`, because the executor runs what stays ready.
  `WF(Server)` is an assumption: a server that has a call answers it. The case in
  which it does not is `FutureFails`, and the properties name it (`Lost`).
* `PhysicsSync`: weak fairness of each thread. `sim_mutex` is released between
  steps, while physics sleeps for its extra wait, so a thread that wants it gets
  it; while physics waits it is free for good. No fairness for the services, the
  controllers' states, the shutdown or `AtLimit`. Liveness is stated for runs in which controllers
  stay active and no pause lasts.
* `ArmBehavior`: weak fairness of each worker, since each of its waits has a time
  limit (calls, planning), but that for a trajectory, which needs
  running physics: hence the premise `[]<>~paused`. Fairness of
  `ChangePayload`, a thread that waits for a mutex. None for servers, clients or
  an aborted execution.
* `GraspPoseProvider`: weak fairness of each goal's callback, which has a thread
  and a time limit for each wait. None for cameras, arm or synchronizer.
* `SimulationGui`: weak fairness of the Qt thread, of the ROS thread and of the servers
  that are up; all but the first end when `main` does (`MainRuns`), because the
  ROS thread is a daemon. `SF` of `TakeResponse` for commands: the executor
  hands out every answer that is ready in one round before it looks for tasks again,
  so the polling, which always has something ready, does not keep a command waiting
  for ever; the model does not have the rounds. None for the operator, for faults, or
  for a server that is down to come back.
* `GraspCandidates`: none, only safety is stated of it.
* `StateCapture`: weak fairness of the control loop once `update` has begun, of the
  consumer, whose wait has a time limit, and of the end of the process once it has
  begun. None for physics, the beginning of a cycle, the failure or the shutdown.
* `LockBase`, `RenderCapture`: none, only safety is stated of them. Liveness of
  `RenderCapture` would need that FFmpeg reads what it is sent; its error pipe is
  read at the end only.

## 4. Findings

1. `commands_available`: `write()` stores commands in the control copy of the
   data without the mutex, and the copy is overwritten after each step; a command
   written in between is lost, yet its write releases the next step.
2. `clock_starts`: the one step that is to start `/clock` publishes with
   `try_publish`. If that message is dropped there is no second one, and the
   controllers, and so physics, wait for ever.
3. `clouds_taken_after_mark`: `capture_combined_cloud` says that a mark
   requires "all selected clouds to be newer than that mark". The code counts
   messages received after it: a scene that was being rendered when the goal arrived
   counts as new, and may show the robot before its base was pinned.

### 4.1 Narrower disagreements

These definitions state what a comment or a caller takes for granted and the model
refutes. They have no run in the project; each can be taken as the only `INVARIANT`, or
`PROPERTY` if it is about steps, of a copy of the module's configuration, with
`SPECIFICATION Spec` (`RenderSpec`).

* *BusyMeansHandled* (`RobotBehavior`): `is_busy` says that a request "is currently
  being handled". In the null state the order is kept and nothing handles it: the
  listener answers busy for ever.
* *InactiveScopeIsStrict* (`ArmBehavior`): a change of the collision matrix whose
  answer is late is applied after its scope has decided that it is inactive. The
  header promises that such a motion is planned with every collision checked.
* *BudgetKept* (`ArmBehavior`): a reachability check that throws leaves the reduced
  planning budget to the motions after it.
* *NewestCached* (`GraspPoseProvider`): `PointCloudSnapshotter` is to "continuously cache
  the newest cloud from every camera topic". Of two overlapping callbacks of one camera
  the last to store wins: an older cloud may replace a newer one, with the higher number.
* *DirectoryRemoved* (`RenderCapture`): the `finally` clause closes the pipe of FFmpeg
  before it removes the directory. If FFmpeg died with data left in the buffer of the
  pipe, the close raises, and the directory stays beside the model.
* *RowsOfOneStep* (`StateCapture`): `update` reads the time and then the positions of
  the control copy without the simulation mutex, while physics replaces it: a row may
  have the time of one step and the positions of the next.
* *TimesGoForward* (`StateCapture`): after MuJoCo's reset of a diverged simulation the
  capture goes on in the same file; the renderer calls times that go backwards an error.
  Without a reset the times strictly grow (theorem *TimesForward*).
* *UnlockStops* (`LockBase`): "Unlocking stops the rewriting"; a cycle that had looked
  at the flag writes the pose once more after the unlock was answered.
* *HandlerFindsData* (`LockBase`): `handle_lock_base` checks for the data before it
  waits for the mutex and uses them behind it, and the plugins are cleaned up before
  their executor is cancelled: instead of the answer that the simulation is unavailable
  there would be a null pointer.

## 5. Proofs

All theorems hold for every value of the constants under the assumptions of the
modules. Each proof module has an inductive invariant (`Capture_proofs` one for
each of its two programs), the lemma that every action keeps each part of it, and the
theorems that follow.

* `RobotBehavior_proofs`, from `MaxParking \in Nat \ {0}` and `RequestNumbers
  \subseteq Int`. The invariants of 3.1 are not inductive: whether the base is
  pinned when the fingers close depends on every call since the capture.
  *CycleInvariant* says for each state, and for each call that can be under
  way in it and how far it has come, what is true of the shared data and of the
  robot. An answer finds the machine in the state that asked and no other call under
  way (*DeliveredAlone*), and a handler leaves one fresh call, the entry call of the
  next state (*EnterNext*) or the next call of its own (*NextCalls*), so that each
  transition compares what the state left says with what the state entered needs;
  every failure goes through *HaltInv*. All safety properties follow, both action properties, and the
  refinement: every step of the node is a step of `FoodService` or a stutter.
* `PhysicsSync_proofs`, from positive periods and a camera lag of at least one
  camera period. *PacingInvariant* adds where the threads may be for which
  differences of the recorded times: the leash is kept because
  `next_expected` never passes the last write by more than a period, and because
  the step that is not checked, the first, starts at time zero. *WaitsAreShort* is the
  safety core of *TimePasses*: whenever physics waits for the cameras or for a write, the
  time it has reached is late enough for them to go on, so that no circle of threads
  that wait for simulation time is closed. It needs in addition (*WaitInv*) that cameras
  which were waited for once do not end before the process does, and that controllers
  are seen active only after the control loop was started. It rests on
  `MaxCameraLag >= CameraPeriod`: that is what the comment in the configuration is for.
* `ArmBehavior_proofs`, for any set of goals. *MotionInvariant* adds who holds
  the lock, which places go with which scope, and that a request with no worker
  waiting for it is one of a call that failed. That is why, as long as
  nothing failed, no late request can pause physics or relax the matrix behind
  the back of a motion, and why `EndMotion` is a step of `ArmService`: the only goal that
  could account for paused physics or a relaxed matrix is the one that ends, which is
  past both. *ArmImplementsService* follows, action by action: the steps within a motion
  are stutters or arrange the scene (*MotionArranges*), and so is the service of a
  request, which belongs to a motion or to a call that failed (*ServeArranges*).
* `GraspPoseProvider_proofs`, for any number of goals, cameras, candidates and scenes.
  *ProviderInvariant* adds who owes the resumption of physics (a goal whose pause was
  answered, until its resumption is answered, and the arm while it plans), that a
  goal knows it has paused, and, for each camera, that a cloud on its way is later than
  those received and held before it, and that what was stored since a goal's mark is
  later than the cloud it found, or was held then.
* `SimulationGui_proofs`, for any commands, steps and numbers of updates.
  *GuiInvariant* adds which operation each thread holds and in which phase, that an
  operation is in one place only (in the queue, at a server, with a thread), and that
  what the completion counter still waits for is exactly what is not done. It is needed
  because "somebody will finish it" is lost in a step that takes the last operation of
  an update from one place and brings it to no other.
* `GraspCandidates_proofs`, for any number of points, cameras, labels, goals and limits.
  *PipelineInvariant* adds what is still empty at each stage, that requests left at
  GPD are of earlier goals until this goal has asked, whose food the last message on the
  topic of the food cloud has at each stage (*PublishedFirst* follows), and that every grasp
  and pose on its way to the result is at a point of the food. The lemmas *MergeMakes*,
  *SubtractMakes*, *ClusterMakes* and *CropMakes* say what each renumbering
  preserves; *CropMakes* that the food after it is the same points under new indices.
  Indices are functions on `1 .. n`, sets of values and one `CHOOSE`, so that nothing
  rests on induction over the arrays.
* `Capture_proofs`, for every capacity, time step, period, frame rate and file.
  For `StateCapture`, *CaptureInvariant* adds where the sequence numbers stand for each
  position of both threads, that the slots from the one to the other hold the samples not
  yet written, and what the end of the process still owes the file. Two samples that are
  in the ring together have different slots (*SlotsDiffer*), because numbers that agree
  modulo the capacity are a capacity apart. The refinement of `CaptureLog` follows.
  *ForwardInvariant* adds that, until the first reset, the sample being filled is later
  than all samples before it: the schedule lets none pass before the time due, which is
  later than the last one taken (*TimesForward*).
  For `RenderCapture`, *RenderInvariant* rests on this: what is in the file stays, and a
  row that was read half written is never earlier than it looked. So the second reading
  finds at least the rows of the first, and the cursors of the loop stay in order. That
  the frames reach the end of the interval, and no farther, is a lemma about rounding up
  a division (*FramesReach*).
  The last part has both specifications at once and the hypothesis `[]FileOf`: what the
  renderer can read is a part of what the stream has taken, and reads as the times that
  were written (the stream has `max_digits10` digits, `state_capture_plugin.cpp:137`). A
  renderer that sees each row after the writer wrote it, or the finished file,
  satisfies it. *FilmShowsTheSamples*: a frame shows a sample that was taken, the latest
  inspected that is not later than the frame. *OneRunIsRendered*: the file of a
  simulation that was never reset is refused, if model and encoder do not fail and it is
  complete, only when it is empty: the schedule of the plugin is what the renderer relies
  on when it compares the times of neighbouring rows.
* `LockBase_proofs`, for every number of steps between two cycles and every top speed.
  *LockInvariant* adds that the way of a pinned base is at most `n(n+1)/2` for the `n`
  steps since its pose was written, that no more than two cycles of them can have
  passed, and that a late write is spent or under way.

Only model-checked: liveness (*TimePasses*,
*ProcessEnds*, *EveryGoalEnds*, *PanelConverges*, *CommandsReported*, *ClosingEnds*,
*CleanupEnds*, and that part of *ImplementsFoodService* which is about fairness), which
is out of the prover's reach.

## 6. Not modelled

* `RobotBehavior`: `lift_gripper`, which no state calls; feedback; the contents
  of poses and parameters.
* `PhysicsSync`: MuJoCo's own reset of a diverged simulation to time zero. The
  code turns a divergence into a stop only for scenes that disable the reset; the
  shipped scene does not, so there it resets. The leash and the camera lag would
  then compare with times in the future. The model has the stop; the reset is
  planned. Reads of a buffer that is half written are left out as well: commands
  are one bit.
* `ArmBehavior`: the destructor, which joins the workers; what MoveIt plans.
* `GraspPoseProvider`: the two publishers, which are in `GraspCandidates`; the
  teardown of the node.
* `GraspCandidates`: coordinates, registration, transforms, distances and planes, whose
  outcome is chosen; debug files. Goals come one at a time, as `robot_behavior`
  sends them: with two at once the food cloud of one replaces that of the other in the
  planning scene, which the code does not prevent and promises nothing of.
* `SimulationGui`: drawing and kinematics; the exact time limits of closing; the
  throw, which is performed or refused without a trajectory.
* `StateCapture`: the parameters and the header of the file; the count of dropped
  samples, which is only logged.
* `LockBase`: the lookups of `init`; the control copy of the state, which physics writes
  again after each step; MuJoCo's reset, which moves a pinned base until the next cycle.
* `RenderCapture`: the scene and its camera; a capture that is started anew while its
  file is rendered. `live_mujoco_viewer.py` and the other scripts.
* The other plugins: of their services `SimulationGui` has the effect.
* Of the remaining parts, the geometry (lidar, GPD's detection), drawing, configuration,
  launch files and offline tools have no state two actors share.

## 7. Plan

In the order of importance for the system; 1 to 8 are done.

1. `FoodService`, `RobotBehavior`: the system's purpose. Proved.
2. `PhysicsSync`: the pacing everything else runs on. Proved. Next: the reset to
   time zero, and a full-size leash as an abstract specification.
3. `ArmService`, `ArmBehavior`: one motion at a time and what it leaves behind.
   Proved. Next: its shutdown.
4. `GraspPoseProvider`. Proved. Next: other clients of the arm during a search,
   and `RobotBehavior` with a capture of the scene before the goal.
5. `CommandService`, `SimulationGui`: hand-over between threads, futures, shutdown.
   Proved but for liveness.
6. `FoodGrasps`, `GraspCandidates`: the arrays of the pipeline and late answers. Proved.
   Next: with the pause and the checks of `GraspPoseProvider` in one behaviour.
7. `CaptureLog`, `StateCapture`, `RenderCapture`: the ring buffer refines a log, with
   its stop; its file and the reader of that. Proved, the two together as well. Next:
   the live viewer, which skips what the renderer refuses.
8. `LockBase`: the order of unlock, update and cleanup. Proved. Next: a reset of the
   simulation while the base is pinned, and `LockBase` under `RobotBehavior`, whose base
   is pinned from the answer on.
9. The switching of command modes; the launch order of the controller spawners.
