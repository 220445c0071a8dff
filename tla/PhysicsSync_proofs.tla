-------------------------- MODULE PhysicsSync_proofs --------------------------
(***************************************************************************)
(* Theorems about PhysicsSync, for every write period, safety interval,    *)
(* camera period and camera lag the configuration may choose.              *)
(***************************************************************************)
EXTENDS PhysicsSync, TLAPS

-----------------------------------------------------------------------------
(* The inductive invariant.                                                *)

NumbersOK ==
  /\ time \in Times
  /\ steps_paused \in Times
  /\ last_write \in Times
  /\ next_expected \in 0 .. MaxTime + WritePeriod
  /\ snapshot \in Times
  /\ last_camera \in Times \cup {NoTime}

PlacesOK ==
  /\ physics \in {"top", "paused", "controllers", "cameras", "leash",
                  "step", "stepping", "done"}
  /\ control \in {"start", "wait", "update", "write", "done"}
  /\ clock \in {"none", "current", "behind"}
  /\ camera \in {"start", "snapshot", "render", "sleep", "done"}
  /\ teardown \in {"no", "control", "cameras", "simulation", "done"}

FlagsOK ==
  /\ run \in BOOLEAN
  /\ step_current \in BOOLEAN
  /\ ctrl_current \in BOOLEAN
  /\ paused \in BOOLEAN
  /\ initial_sync \in BOOLEAN
  /\ controllers_active \in BOOLEAN

\* Before the first call of the synchronizer nothing was stepped, so that the
\* step it lets pass unchecked is within the leash as well.
FirstStepInv ==
  ~initial_sync => time = 0 /\ physics \in {"top", "paused", "done"}

LeashInv ==
  /\ last_write <= time
  /\ next_expected <= last_write + WritePeriod
  /\ physics \in {"step", "stepping"} => time <= last_write + WritePeriod + Safety
  /\ physics = "stepping" => time < MaxTime
  /\ LeashHolds

\* The step that was under way when the pause was acknowledged ends at the
\* head of the loop, from where a paused simulation does not get to a step.
PauseInv ==
  /\ ~paused => steps_paused = 0
  /\ paused => \/ steps_paused = 0
               \/ steps_paused = 1 /\ physics \in {"top", "paused", "done"}

\* Physics that has got past the cameras is within their lag, or did so when
\* there was no update yet, and then the scene being rendered, if any, is the
\* present one.
CameraInv ==
  /\ snapshot <= time
  /\ last_camera <= time
  /\ last_camera # NoTime =>
       /\ camera \in {"start", "snapshot"} => time >= last_camera + CameraPeriod
       /\ camera = "render" => snapshot >= last_camera + CameraPeriod
       /\ camera = "sleep" => snapshot = last_camera
       /\ physics \in {"leash", "step", "stepping"} =>
            \/ time <= last_camera + MaxCameraLag
            \/ camera = "render" => snapshot = time
  /\ CloudsAreFresh

IInv ==
  /\ NumbersOK /\ PlacesOK /\ FlagsOK
  /\ FirstStepInv /\ LeashInv /\ PauseInv /\ CameraInv

-----------------------------------------------------------------------------
\* Every thread stays at a place it has.
LEMMA PlacesStep == PlacesOK /\ [Next]_vars => PlacesOK'
<1> SUFFICES ASSUME PlacesOK, [Next]_vars PROVE PlacesOK'
  OBVIOUS
<1>1. CASE StartSync
  BY <1>1, PeriodAssumption
  DEF StartSync, vars, simulation, sync, leash, loop, rendering, PlacesOK
<1>2. CASE CommitStep
  BY <1>2, PeriodAssumption
  DEF CommitStep, vars, simulation, sync, leash, loop, rendering, PlacesOK
<1>3. CASE
          LoopHead \/ ControllersChecked \/ CamerasCaughtUp \/ BelowLimit \/
          BeginStep \/ PhysicsExits \/ AtLimit \/ UpdateExpectedTime \/
          ControllerStates \/ PauseSimulation \/ ResumeSimulation \/
          StartControl \/ NextCycle \/ WriteCommands \/ RecordWriteTime \/
          ControlStops \/ StartCameras \/ TakeSnapshot \/ PublishClouds \/
          CamerasWake \/ CamerasStop \/ Shutdown \/ CamerasClosed \/
          SimulationStopped
  BY <1>3, PeriodAssumption
  DEF LoopHead, ControllersChecked, CamerasCaughtUp, BelowLimit, PassLeash,
      BeginStep, exit_requested, PhysicsExits, AtLimit, UpdateExpectedTime,
      ControllerStates, PauseSimulation, ResumeSimulation, StartControl,
      NextCycle, WriteCommands, RecordWriteTime, sim_mutex_free, ControlStops,
      StartCameras, TakeSnapshot, PublishClouds, CamerasWake, CamerasStop,
      Shutdown, CamerasClosed, SimulationStopped, vars, simulation, sync,
      leash, loop, rendering, PlacesOK
<1>4. CASE UNCHANGED vars
  BY <1>4, PeriodAssumption
  DEF vars, simulation, sync, leash, loop, rendering, PlacesOK
<1> QED
  BY <1>1, <1>2, <1>3, <1>4
     DEF Next, Physics, Control, Cameras, Destructor

-----------------------------------------------------------------------------
\* The flags stay Boolean.
LEMMA FlagsStep == FlagsOK /\ [Next]_vars => FlagsOK'
<1> SUFFICES ASSUME FlagsOK, [Next]_vars PROVE FlagsOK'
  OBVIOUS
<1>1. CASE StartSync
  BY <1>1, Zenon
  DEF StartSync, vars, simulation, sync, leash, loop, rendering, FlagsOK
<1>2. CASE BeginStep
  BY <1>2, Zenon
  DEF BeginStep, exit_requested, vars, simulation, sync, leash, loop,
      rendering, FlagsOK
<1>3. CASE CommitStep
  BY <1>3, Zenon
  DEF CommitStep, vars, simulation, sync, leash, loop, rendering, FlagsOK
<1>4. CASE ControllerStates
  BY <1>4, Zenon
  DEF ControllerStates, vars, simulation, sync, leash, loop, rendering,
      FlagsOK
<1>5. CASE PauseSimulation
  BY <1>5, Zenon
  DEF PauseSimulation, vars, simulation, sync, leash, loop, rendering, FlagsOK
<1>6. CASE ResumeSimulation
  BY <1>6, Zenon
  DEF ResumeSimulation, vars, simulation, sync, leash, loop, rendering,
      FlagsOK
<1>7. CASE WriteCommands
  BY <1>7, Zenon
  DEF WriteCommands, vars, simulation, sync, leash, loop, rendering, FlagsOK
<1>8. CASE \/ LoopHead \/ ControllersChecked \/ CamerasCaughtUp \/ BelowLimit
         \/ PhysicsExits \/ AtLimit \/ UpdateExpectedTime
  BY <1>8, Zenon
  DEF LoopHead, ControllersChecked, CamerasCaughtUp, BelowLimit, PassLeash,
      PhysicsExits, AtLimit, UpdateExpectedTime, simulation, sync, FlagsOK
<1>9. CASE StartControl \/ NextCycle \/ RecordWriteTime \/ ControlStops
  BY <1>9, Zenon
  DEF StartControl, NextCycle, RecordWriteTime, ControlStops, simulation, sync,
      FlagsOK
<1>10. CASE Cameras
  BY <1>10, Zenon
  DEF Cameras, StartCameras, TakeSnapshot, PublishClouds, CamerasWake, CamerasStop,
      simulation, sync, FlagsOK
<1>11. CASE Shutdown \/ CamerasClosed \/ SimulationStopped
  BY <1>11, Zenon
  DEF Shutdown, CamerasClosed, SimulationStopped, simulation, sync, FlagsOK
<1>12. CASE UNCHANGED vars
  BY <1>12, Zenon
  DEF vars, simulation, sync, leash, loop, rendering, FlagsOK
<1> QED
  BY <1>1, <1>2, <1>3, <1>4, <1>5, <1>6, <1>7, <1>8, <1>9, <1>10, <1>11, <1>12
     DEF Next, Physics, Control, Destructor

-----------------------------------------------------------------------------
\* The first step is the only unchecked one.
LEMMA FirstStep == PlacesOK /\ FlagsOK /\ FirstStepInv /\ [Next]_vars => FirstStepInv'
<1> SUFFICES ASSUME PlacesOK /\ FlagsOK /\ FirstStepInv, [Next]_vars PROVE FirstStepInv'
  OBVIOUS
<1>1. CASE LoopHead
  BY <1>1, Zenon
  DEF LoopHead, vars, simulation, sync, leash, loop, rendering, PlacesOK,
      FlagsOK, FirstStepInv
<1>2. CASE StartSync
  BY <1>2, Zenon
  DEF StartSync, vars, simulation, sync, leash, loop, rendering, PlacesOK,
      FlagsOK, FirstStepInv
<1>3. CASE ControllersChecked
  BY <1>3, Zenon
  DEF ControllersChecked, vars, simulation, sync, leash, loop, rendering,
      PlacesOK, FlagsOK, FirstStepInv
<1>4. CASE CamerasCaughtUp
  BY <1>4, Zenon
  DEF CamerasCaughtUp, vars, simulation, sync, leash, loop, rendering,
      PlacesOK, FlagsOK, FirstStepInv
<1>5. CASE BelowLimit
  BY <1>5, Zenon
  DEF BelowLimit, PassLeash, vars, simulation, sync, leash, loop, rendering,
      PlacesOK, FlagsOK, FirstStepInv
<1>6. CASE BeginStep
  BY <1>6, Zenon
  DEF BeginStep, exit_requested, vars, simulation, sync, leash, loop,
      rendering, PlacesOK, FlagsOK, FirstStepInv
<1>7. CASE CommitStep
  BY <1>7, Zenon
  DEF CommitStep, vars, simulation, sync, leash, loop, rendering, PlacesOK,
      FlagsOK, FirstStepInv
<1>8. CASE PhysicsExits
  BY <1>8, Zenon
  DEF PhysicsExits, exit_requested, vars, simulation, sync, leash, loop,
      rendering, PlacesOK, FlagsOK, FirstStepInv
<1>9. CASE AtLimit
  BY <1>9, Zenon
  DEF AtLimit, PassLeash, vars, simulation, sync, leash, loop, rendering,
      PlacesOK, FlagsOK, FirstStepInv
<1>10. CASE
          UpdateExpectedTime \/ ControllerStates \/ PauseSimulation \/
          ResumeSimulation \/ StartControl \/ NextCycle \/ WriteCommands \/
          RecordWriteTime \/ ControlStops \/ StartCameras \/ TakeSnapshot \/
          PublishClouds \/ CamerasWake \/ CamerasStop \/ Shutdown \/
          CamerasClosed \/ SimulationStopped
  BY <1>10, Zenon
  DEF UpdateExpectedTime, ControllerStates, PauseSimulation, ResumeSimulation,
      StartControl, NextCycle, WriteCommands, RecordWriteTime, sim_mutex_free,
      ControlStops, StartCameras, TakeSnapshot, PublishClouds, CamerasWake,
      CamerasStop, Shutdown, CamerasClosed, SimulationStopped, vars,
      simulation, sync, leash, loop, rendering, PlacesOK, FlagsOK,
      FirstStepInv
<1>11. CASE UNCHANGED vars
  BY <1>11, Zenon
  DEF vars, simulation, sync, leash, loop, rendering, PlacesOK, FlagsOK,
      FirstStepInv
<1> QED
  BY <1>1, <1>2, <1>3, <1>4, <1>5, <1>6, <1>7, <1>8, <1>9, <1>10, <1>11
     DEF Next, Physics, Control, Cameras, Destructor

-----------------------------------------------------------------------------
\* Times stay within the bound of the model.
LEMMA NumbersStep == IInv /\ [Next]_vars => NumbersOK'
<1> SUFFICES ASSUME IInv, [Next]_vars PROVE NumbersOK'
  OBVIOUS
<1> USE PeriodAssumption, CameraLagAssumption
<1>1. CASE CommitStep
  BY <1>1, SMT
  DEF CommitStep, vars, simulation, sync, leash, loop, rendering, IInv,
      NumbersOK, PlacesOK, LeashInv, PauseInv, CameraInv, Times, NoTime
<1>2. CASE UpdateExpectedTime
  BY <1>2, SMT
  DEF UpdateExpectedTime, vars, simulation, sync, leash, loop, rendering,
      IInv, NumbersOK, PlacesOK, LeashInv, PauseInv, CameraInv, Times, NoTime
<1>3. CASE PauseSimulation
  BY <1>3, SMT
  DEF PauseSimulation, vars, simulation, sync, leash, loop, rendering, IInv,
      NumbersOK, PlacesOK, LeashInv, PauseInv, CameraInv, Times, NoTime
<1>4. CASE ResumeSimulation
  BY <1>4, SMT
  DEF ResumeSimulation, vars, simulation, sync, leash, loop, rendering, IInv,
      NumbersOK, PlacesOK, LeashInv, PauseInv, CameraInv, Times, NoTime
<1>5. CASE RecordWriteTime
  BY <1>5, SMT
  DEF RecordWriteTime, sim_mutex_free, vars, simulation, sync, leash, loop,
      rendering, IInv, NumbersOK, PlacesOK, LeashInv, PauseInv, CameraInv,
      Times, NoTime
<1>6. CASE TakeSnapshot
  BY <1>6, SMT
  DEF TakeSnapshot, sim_mutex_free, vars, simulation, sync, leash, loop,
      rendering, IInv, NumbersOK, PlacesOK, LeashInv, PauseInv, CameraInv,
      Times, NoTime
<1>7. CASE PublishClouds
  BY <1>7, SMT
  DEF PublishClouds, vars, simulation, sync, leash, loop, rendering, IInv,
      NumbersOK, PlacesOK, LeashInv, PauseInv, CameraInv, Times, NoTime
<1>8. CASE
          LoopHead \/ StartSync \/ ControllersChecked \/ CamerasCaughtUp \/
          BelowLimit \/ BeginStep \/ PhysicsExits \/ AtLimit \/
          ControllerStates \/ StartControl \/ NextCycle \/ WriteCommands \/
          ControlStops \/ StartCameras \/ CamerasWake \/ CamerasStop \/
          Shutdown \/ CamerasClosed \/ SimulationStopped
  BY <1>8, SMT
  DEF LoopHead, StartSync, ControllersChecked, CamerasCaughtUp, BelowLimit,
      PassLeash, BeginStep, exit_requested, PhysicsExits, AtLimit,
      ControllerStates, StartControl, NextCycle, WriteCommands, ControlStops,
      StartCameras, CamerasWake, sim_mutex_free, CamerasStop, Shutdown,
      CamerasClosed, SimulationStopped, vars, simulation, sync, leash, loop,
      rendering, IInv, NumbersOK, PlacesOK, LeashInv, PauseInv, CameraInv,
      Times, NoTime
<1>9. CASE UNCHANGED vars
  BY <1>9, SMT
  DEF vars, simulation, sync, leash, loop, rendering, IInv, NumbersOK,
      PlacesOK, LeashInv, PauseInv, CameraInv, Times, NoTime
<1> QED
  BY <1>1, <1>2, <1>3, <1>4, <1>5, <1>6, <1>7, <1>8, <1>9
     DEF Next, Physics, Control, Cameras, Destructor

-----------------------------------------------------------------------------
\* The write time only grows, and the expectation never runs ahead of it.
LEMMA LeashStep == IInv /\ [Next]_vars => LeashInv'
<1> SUFFICES ASSUME IInv, [Next]_vars PROVE LeashInv'
  OBVIOUS
<1> USE PeriodAssumption, CameraLagAssumption
<1>1. CASE LoopHead
  BY <1>1, SMT
  DEF LoopHead, vars, simulation, sync, leash, loop, rendering, IInv,
      NumbersOK, PlacesOK, FirstStepInv, LeashInv, LeashHolds, Times, NoTime
<1>2. CASE StartSync
  BY <1>2, SMT
  DEF StartSync, vars, simulation, sync, leash, loop, rendering, IInv,
      NumbersOK, PlacesOK, FirstStepInv, LeashInv, LeashHolds, Times, NoTime
<1>3. CASE ControllersChecked
  BY <1>3, SMT
  DEF ControllersChecked, vars, simulation, sync, leash, loop, rendering,
      IInv, NumbersOK, PlacesOK, FirstStepInv, LeashInv, LeashHolds, Times,
      NoTime
<1>4. CASE CamerasCaughtUp
  BY <1>4, SMT
  DEF CamerasCaughtUp, vars, simulation, sync, leash, loop, rendering, IInv,
      NumbersOK, PlacesOK, FirstStepInv, LeashInv, LeashHolds, Times, NoTime
<1>5. CASE BelowLimit
  BY <1>5, SMT
  DEF BelowLimit, PassLeash, vars, simulation, sync, leash, loop, rendering,
      IInv, NumbersOK, PlacesOK, FirstStepInv, LeashInv, LeashHolds, Times,
      NoTime
<1>6. CASE BeginStep
  BY <1>6, SMT
  DEF BeginStep, exit_requested, vars, simulation, sync, leash, loop,
      rendering, IInv, NumbersOK, PlacesOK, FirstStepInv, LeashInv,
      LeashHolds, Times, NoTime
<1>7. CASE CommitStep
  BY <1>7, SMT
  DEF CommitStep, vars, simulation, sync, leash, loop, rendering, IInv,
      NumbersOK, PlacesOK, FirstStepInv, LeashInv, LeashHolds, Times, NoTime
<1>8. CASE PhysicsExits
  BY <1>8, SMT
  DEF PhysicsExits, exit_requested, vars, simulation, sync, leash, loop,
      rendering, IInv, NumbersOK, PlacesOK, FirstStepInv, LeashInv,
      LeashHolds, Times, NoTime
<1>9. CASE AtLimit
  BY <1>9, SMT
  DEF AtLimit, PassLeash, vars, simulation, sync, leash, loop, rendering,
      IInv, NumbersOK, PlacesOK, FirstStepInv, LeashInv, LeashHolds, Times,
      NoTime
<1>10. CASE UpdateExpectedTime
  BY <1>10, SMT
  DEF UpdateExpectedTime, vars, simulation, sync, leash, loop, rendering,
      IInv, NumbersOK, PlacesOK, FirstStepInv, LeashInv, LeashHolds, Times,
      NoTime
<1>11. CASE RecordWriteTime
  BY <1>11, SMT
  DEF RecordWriteTime, sim_mutex_free, vars, simulation, sync, leash, loop,
      rendering, IInv, NumbersOK, PlacesOK, FirstStepInv, LeashInv,
      LeashHolds, Times, NoTime
<1>12. CASE
          ControllerStates \/ PauseSimulation \/ ResumeSimulation \/
          StartControl \/ NextCycle \/ WriteCommands \/ ControlStops \/
          StartCameras \/ TakeSnapshot \/ PublishClouds \/ CamerasWake \/
          CamerasStop \/ Shutdown \/ CamerasClosed \/ SimulationStopped
  BY <1>12, SMT
  DEF ControllerStates, PauseSimulation, ResumeSimulation, StartControl,
      NextCycle, WriteCommands, ControlStops, StartCameras, TakeSnapshot,
      sim_mutex_free, PublishClouds, CamerasWake, CamerasStop, Shutdown,
      CamerasClosed, SimulationStopped, vars, simulation, sync, leash, loop,
      rendering, IInv, NumbersOK, PlacesOK, FirstStepInv, LeashInv,
      LeashHolds, Times, NoTime
<1>13. CASE UNCHANGED vars
  BY <1>13, SMT
  DEF vars, simulation, sync, leash, loop, rendering, IInv, NumbersOK,
      PlacesOK, FirstStepInv, LeashInv, LeashHolds, Times, NoTime
<1> QED
  BY <1>1, <1>2, <1>3, <1>4, <1>5, <1>6, <1>7, <1>8, <1>9, <1>10, <1>11,
  <1>12, <1>13
     DEF Next, Physics, Control, Cameras, Destructor

-----------------------------------------------------------------------------
\* A paused simulation ends the step under way and takes no other.
LEMMA PauseStep == IInv /\ [Next]_vars => PauseInv'
<1> SUFFICES ASSUME IInv, [Next]_vars PROVE PauseInv'
  OBVIOUS
<1> USE PeriodAssumption
<1>1. CASE LoopHead
  BY <1>1, SMT
  DEF LoopHead, vars, simulation, sync, leash, loop, rendering, IInv,
      NumbersOK, PlacesOK, PauseInv, Times
<1>2. CASE StartSync
  BY <1>2, SMT
  DEF StartSync, vars, simulation, sync, leash, loop, rendering, IInv,
      NumbersOK, PlacesOK, PauseInv, Times
<1>3. CASE ControllersChecked
  BY <1>3, SMT
  DEF ControllersChecked, vars, simulation, sync, leash, loop, rendering,
      IInv, NumbersOK, PlacesOK, PauseInv, Times
<1>4. CASE CamerasCaughtUp
  BY <1>4, SMT
  DEF CamerasCaughtUp, vars, simulation, sync, leash, loop, rendering, IInv,
      NumbersOK, PlacesOK, PauseInv, Times
<1>5. CASE BelowLimit
  BY <1>5, SMT
  DEF BelowLimit, PassLeash, vars, simulation, sync, leash, loop, rendering,
      IInv, NumbersOK, PlacesOK, PauseInv, Times
<1>6. CASE BeginStep
  BY <1>6, SMT
  DEF BeginStep, exit_requested, vars, simulation, sync, leash, loop,
      rendering, IInv, NumbersOK, PlacesOK, PauseInv, Times
<1>7. CASE CommitStep
  BY <1>7, SMT
  DEF CommitStep, vars, simulation, sync, leash, loop, rendering, IInv,
      NumbersOK, PlacesOK, PauseInv, Times
<1>8. CASE PhysicsExits
  BY <1>8, SMT
  DEF PhysicsExits, exit_requested, vars, simulation, sync, leash, loop,
      rendering, IInv, NumbersOK, PlacesOK, PauseInv, Times
<1>9. CASE AtLimit
  BY <1>9, SMT
  DEF AtLimit, PassLeash, vars, simulation, sync, leash, loop, rendering,
      IInv, NumbersOK, PlacesOK, PauseInv, Times
<1>10. CASE PauseSimulation
  BY <1>10, SMT
  DEF PauseSimulation, vars, simulation, sync, leash, loop, rendering, IInv,
      NumbersOK, PlacesOK, PauseInv, Times
<1>11. CASE ResumeSimulation
  BY <1>11, SMT
  DEF ResumeSimulation, vars, simulation, sync, leash, loop, rendering, IInv,
      NumbersOK, PlacesOK, PauseInv, Times
<1>12. CASE
          UpdateExpectedTime \/ ControllerStates \/ StartControl \/ NextCycle
          \/ WriteCommands \/ RecordWriteTime \/ ControlStops \/ StartCameras
          \/ TakeSnapshot \/ PublishClouds \/ CamerasWake \/ CamerasStop \/
          Shutdown \/ CamerasClosed \/ SimulationStopped
  BY <1>12, SMT
  DEF UpdateExpectedTime, ControllerStates, StartControl, NextCycle,
      WriteCommands, RecordWriteTime, sim_mutex_free, ControlStops,
      StartCameras, TakeSnapshot, PublishClouds, CamerasWake, CamerasStop,
      Shutdown, CamerasClosed, SimulationStopped, vars, simulation, sync,
      leash, loop, rendering, IInv, NumbersOK, PlacesOK, PauseInv, Times
<1>13. CASE UNCHANGED vars
  BY <1>13, SMT
  DEF vars, simulation, sync, leash, loop, rendering, IInv, NumbersOK,
      PlacesOK, PauseInv, Times
<1> QED
  BY <1>1, <1>2, <1>3, <1>4, <1>5, <1>6, <1>7, <1>8, <1>9, <1>10, <1>11,
  <1>12, <1>13
     DEF Next, Physics, Control, Cameras, Destructor

-----------------------------------------------------------------------------
\* The cameras and physics keep to one another.
LEMMA CameraStep == IInv /\ [Next]_vars => CameraInv'
<1> SUFFICES ASSUME IInv, [Next]_vars PROVE CameraInv'
  OBVIOUS
<1> USE PeriodAssumption, CameraLagAssumption
<1>1. CASE LoopHead
  BY <1>1, SMT
  DEF LoopHead, vars, simulation, sync, leash, loop, rendering, IInv,
      NumbersOK, PlacesOK, FirstStepInv, CameraInv, CloudsAreFresh, Times,
      NoTime
<1>2. CASE StartSync
  BY <1>2, SMT
  DEF StartSync, vars, simulation, sync, leash, loop, rendering, IInv,
      NumbersOK, PlacesOK, FirstStepInv, CameraInv, CloudsAreFresh, Times,
      NoTime
<1>3. CASE ControllersChecked
  BY <1>3, SMT
  DEF ControllersChecked, vars, simulation, sync, leash, loop, rendering,
      IInv, NumbersOK, PlacesOK, FirstStepInv, CameraInv, CloudsAreFresh,
      Times, NoTime
<1>4. CASE CamerasCaughtUp
  BY <1>4, SMT
  DEF CamerasCaughtUp, vars, simulation, sync, leash, loop, rendering, IInv,
      NumbersOK, PlacesOK, FirstStepInv, CameraInv, CloudsAreFresh, Times,
      NoTime
<1>5. CASE BelowLimit
  BY <1>5, SMT
  DEF BelowLimit, PassLeash, vars, simulation, sync, leash, loop, rendering,
      IInv, NumbersOK, PlacesOK, FirstStepInv, CameraInv, CloudsAreFresh,
      Times, NoTime
<1>6. CASE BeginStep
  BY <1>6, SMT
  DEF BeginStep, exit_requested, vars, simulation, sync, leash, loop,
      rendering, IInv, NumbersOK, PlacesOK, FirstStepInv, CameraInv,
      CloudsAreFresh, Times, NoTime
<1>7. CASE CommitStep
  BY <1>7, SMT
  DEF CommitStep, vars, simulation, sync, leash, loop, rendering, IInv,
      NumbersOK, PlacesOK, FirstStepInv, CameraInv, CloudsAreFresh, Times,
      NoTime
<1>8. CASE PhysicsExits
  BY <1>8, SMT
  DEF PhysicsExits, exit_requested, vars, simulation, sync, leash, loop,
      rendering, IInv, NumbersOK, PlacesOK, FirstStepInv, CameraInv,
      CloudsAreFresh, Times, NoTime
<1>9. CASE AtLimit
  BY <1>9, SMT
  DEF AtLimit, PassLeash, vars, simulation, sync, leash, loop, rendering,
      IInv, NumbersOK, PlacesOK, FirstStepInv, CameraInv, CloudsAreFresh,
      Times, NoTime
<1>10. CASE StartCameras
  BY <1>10, SMT
  DEF StartCameras, vars, simulation, sync, leash, loop, rendering, IInv,
      NumbersOK, PlacesOK, FirstStepInv, CameraInv, CloudsAreFresh, Times,
      NoTime
<1>11. CASE TakeSnapshot
  BY <1>11, SMT
  DEF TakeSnapshot, sim_mutex_free, vars, simulation, sync, leash, loop,
      rendering, IInv, NumbersOK, PlacesOK, FirstStepInv, CameraInv,
      CloudsAreFresh, Times, NoTime
<1>12. CASE PublishClouds
  BY <1>12, SMT
  DEF PublishClouds, vars, simulation, sync, leash, loop, rendering, IInv,
      NumbersOK, PlacesOK, FirstStepInv, CameraInv, CloudsAreFresh, Times,
      NoTime
<1>13. CASE CamerasWake
  BY <1>13, SMT
  DEF CamerasWake, sim_mutex_free, vars, simulation, sync, leash, loop,
      rendering, IInv, NumbersOK, PlacesOK, FirstStepInv, CameraInv,
      CloudsAreFresh, Times, NoTime
<1>14. CASE CamerasStop
  BY <1>14, SMT
  DEF CamerasStop, vars, simulation, sync, leash, loop, rendering, IInv,
      NumbersOK, PlacesOK, FirstStepInv, CameraInv, CloudsAreFresh, Times,
      NoTime
<1>15. CASE
          UpdateExpectedTime \/ ControllerStates \/ PauseSimulation \/
          ResumeSimulation \/ StartControl \/ NextCycle \/ WriteCommands \/
          RecordWriteTime \/ ControlStops \/ Shutdown \/ CamerasClosed \/
          SimulationStopped
  BY <1>15, SMT
  DEF UpdateExpectedTime, ControllerStates, PauseSimulation, ResumeSimulation,
      StartControl, NextCycle, WriteCommands, RecordWriteTime, sim_mutex_free,
      ControlStops, Shutdown, CamerasClosed, SimulationStopped, vars,
      simulation, sync, leash, loop, rendering, IInv, NumbersOK, PlacesOK,
      FirstStepInv, CameraInv, CloudsAreFresh, Times, NoTime
<1>16. CASE UNCHANGED vars
  BY <1>16, SMT
  DEF vars, simulation, sync, leash, loop, rendering, IInv, NumbersOK,
      PlacesOK, FirstStepInv, CameraInv, CloudsAreFresh, Times, NoTime
<1> QED
  BY <1>1, <1>2, <1>3, <1>4, <1>5, <1>6, <1>7, <1>8, <1>9, <1>10, <1>11,
  <1>12, <1>13, <1>14, <1>15, <1>16
     DEF Next, Physics, Control, Cameras, Destructor

-----------------------------------------------------------------------------
(* The theorems.                                                           *)

\* The invariant holds at first.
LEMMA InitInv == Init => IInv
<1> SUFFICES ASSUME Init PROVE IInv
  OBVIOUS
<1> USE PeriodAssumption, CameraLagAssumption
<1>1. NumbersOK
  BY DEF Init, NumbersOK, Times, NoTime
<1>2. PlacesOK
  BY DEF Init, PlacesOK
<1>3. FlagsOK
  BY Zenon DEF Init, FlagsOK
<1>4. FirstStepInv
  BY DEF Init, FirstStepInv
<1>5. LeashInv
  BY DEF Init, LeashInv, LeashHolds
<1>6. PauseInv
  BY DEF Init, PauseInv
<1>7. CameraInv
  BY DEF Init, CameraInv, CloudsAreFresh, NoTime
<1> QED
  BY <1>1, <1>2, <1>3, <1>4, <1>5, <1>6, <1>7 DEF IInv

\* Every step keeps the invariant.
LEMMA NextInv == IInv /\ [Next]_vars => IInv'
BY PlacesStep, FlagsStep, FirstStep, NumbersStep, LeashStep, PauseStep,
   CameraStep DEF IInv

\* The inductive invariant holds in every state the threads can reach.
THEOREM PacingInvariant == Spec => []IInv
BY InitInv, NextInv, PTL DEF Spec

\* Every variable keeps its type: no time leaves the bound of the model, and
\* next_expected is never more than a write period ahead of it.
THEOREM TypeCorrect == Spec => []TypeOK
<1>1. IInv => TypeOK
  BY Zenon DEF IInv, NumbersOK, PlacesOK, FlagsOK, TypeOK
<1> QED BY <1>1, PacingInvariant, PTL

\* sync_physics_loop and the updater thread keep physics within one write
\* period, the safety interval and one step of the last write.
THEOREM LeashHeld == Spec => []LeashHolds
<1>1. IInv => LeashHolds
  BY DEF IInv, LeashInv
<1> QED BY <1>1, PacingInvariant, PTL

\* After the answer of pause_simulation at most one step is taken.
THEOREM PauseHeld == Spec => []PauseHolds
<1>1. IInv => PauseHolds
  BY PeriodAssumption DEF IInv, PauseInv, PauseHolds, NumbersOK, Times
<1> QED BY <1>1, PacingInvariant, PTL

\* wait_for_cameras_to_catch_up and sleep_until together bound the age of the
\* scene a cloud is made of, for every lag the configuration may allow.
THEOREM CloudsFresh == Spec => []CloudsAreFresh
<1>1. IInv => CloudsAreFresh
  BY DEF IInv, CameraInv
<1> QED BY <1>1, PacingInvariant, PTL

-----------------------------------------------------------------------------
(* Who waits for whom.  Physics waits for the cameras and for the control  *)
(* loop, and both may sleep on the simulation time that only physics moves.*)

\* wait_for_cameras_to_catch_up does not let physics go on.
AwaitsCameras ==
  physics = "cameras" /\ last_camera # NoTime /\ time - last_camera > MaxCameraLag

\* Nor does the loop on next_expected_write_time_.
AwaitsWrite == physics = "leash" /\ time >= next_expected + Safety

\* The camera thread waits for no later time.
CamerasGoOn ==
  \/ camera \in {"snapshot", "render"}
  \/ camera = "sleep" /\ time >= snapshot + CameraPeriod

\* The control loop was started, and waits for no later time either, once the
\* updater has seen its last write.
LoopGoesOn ==
  /\ control \in {"wait", "update", "write"}
  /\ next_expected = last_write + WritePeriod => time >= last_write + WritePeriod

\* Until the process ends, the simulation time physics has reached is late
\* enough for the thread it waits for.
NoCircularWait ==
  teardown = "no" => /\ AwaitsCameras => CamerasGoOn
                     /\ AwaitsWrite => LoopGoesOn

\* Cameras that were waited for once are not given up, and the controllers are
\* seen active only after the control loop was started.
WaitInv ==
  /\ last_camera # NoTime /\ teardown = "no" => camera \notin {"start", "done"}
  /\ teardown = "no" => control # "done"
  /\ control = "start" => ~controllers_active /\ physics \notin {"cameras", "leash"}

\* Every step keeps the places at which they wait.
LEMMA WaitStep == IInv /\ WaitInv /\ [Next]_vars => WaitInv'
<1> SUFFICES ASSUME IInv, WaitInv, [Next]_vars PROVE WaitInv'
  OBVIOUS
<1>1. CASE Physics \/ AtLimit
  <2>1. UNCHANGED << control, controllers_active, rendering, teardown >>
    BY <1>1, Zenon
    DEF Physics, AtLimit, LoopHead, StartSync, ControllersChecked, CamerasCaughtUp,
        BelowLimit, PassLeash, BeginStep, CommitStep, PhysicsExits, sync, loop
  <2>2. physics' \in {"cameras", "leash"}
          => physics \in {"cameras", "leash"} \/ controllers_active
    BY <1>1
    DEF Physics, AtLimit, LoopHead, StartSync, ControllersChecked, CamerasCaughtUp,
        BelowLimit, PassLeash, BeginStep, CommitStep, PhysicsExits
  <2> QED
    BY <2>1, <2>2, Zenon DEF rendering, WaitInv
<1>2. CASE UpdateExpectedTime \/ PauseSimulation \/ ResumeSimulation
  BY <1>2
  DEF UpdateExpectedTime, PauseSimulation, ResumeSimulation, vars, simulation, sync, leash, loop, rendering, WaitInv
<1>3. CASE ControllerStates
  BY <1>3, Zenon DEF ControllerStates, simulation, leash, loop, rendering, WaitInv
<1>4. CASE Control
  BY <1>4
  DEF Control, StartControl, NextCycle, WriteCommands, RecordWriteTime,
      ControlStops, vars, simulation, sync, leash, loop, rendering, WaitInv
<1>5. CASE Cameras
  BY <1>5
  DEF Cameras, StartCameras, TakeSnapshot, PublishClouds, CamerasWake, CamerasStop,
      vars, simulation, sync, leash, loop, rendering, IInv, NumbersOK, Times, NoTime, WaitInv
<1>6. CASE Shutdown \/ Destructor
  BY <1>6
  DEF Shutdown, Destructor, CamerasClosed, SimulationStopped, vars, simulation, sync, leash, loop, rendering, WaitInv
<1>7. CASE UNCHANGED vars
  BY <1>7 DEF vars, simulation, sync, leash, loop, rendering, WaitInv
<1> QED
  BY <1>1, <1>2, <1>3, <1>4, <1>5, <1>6, <1>7 DEF Next

\* Physics waits only for what can happen at the time it has reached: the cameras
\* it waits for are awake or due, because max_camera_lag is not below the period
\* they sleep ("Must be at least 1 / camera_publish_rate"), and the write it
\* waits for is due.  No circle of waiting threads is ever closed.
THEOREM WaitsAreShort == Spec => []NoCircularWait
<1>1. Init => WaitInv
  BY DEF Init, WaitInv, NoTime
<1>2. IInv /\ WaitInv => NoCircularWait
  <2> SUFFICES ASSUME IInv, WaitInv, teardown = "no"
               PROVE  /\ AwaitsCameras => CamerasGoOn
                      /\ AwaitsWrite => LoopGoesOn
    BY DEF NoCircularWait
  <2>1. ASSUME AwaitsCameras PROVE CamerasGoOn
    <3>1. camera \in {"snapshot", "render", "sleep"} /\ last_camera # NoTime
      BY <2>1 DEF AwaitsCameras, IInv, PlacesOK, WaitInv
    <3>2. CASE camera = "sleep"
      <4>1. snapshot = last_camera
        BY <3>1, <3>2 DEF IInv, CameraInv
      <4> QED
        BY <2>1, <3>1, <3>2, <4>1, PeriodAssumption, CameraLagAssumption
        DEF AwaitsCameras, CamerasGoOn, IInv, NumbersOK, Times, NoTime
    <3> QED
      BY <3>1, <3>2 DEF CamerasGoOn
  <2>2. ASSUME AwaitsWrite PROVE LoopGoesOn
    BY <2>2, PeriodAssumption
    DEF AwaitsWrite, LoopGoesOn, IInv, PlacesOK, NumbersOK, Times, WaitInv
  <2> QED
    BY <2>1, <2>2
<1>3. Spec => [](IInv /\ WaitInv)
  BY <1>1, InitInv, NextInv, WaitStep, PTL DEF Spec
<1> QED
  BY <1>2, <1>3, PTL
=============================================================================
