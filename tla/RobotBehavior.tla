--------------------------- MODULE RobotBehavior ---------------------------
(***************************************************************************)
(* The robot_behavior node: the food-fetching state machine                *)
(* (state_machine.py and the state_*.py files), the request listener       *)
(* (request_listener.py) and the asynchronous calls of the behavior client *)
(* (behavior_client.py), together with what its calls do to the robot.     *)
(*                                                                         *)
(* The node is spun by one thread (main.py), so every callback, that is    *)
(* the tick timer, the readiness poll, the request service, a goal         *)
(* response, a result or a service response, is one atomic step, and so    *)
(* is everything a handler does, the on_entry of the next state included.  *)
(* The servers run elsewhere: they answer between any two callbacks.       *)
(*                                                                         *)
(* A call's future may complete with an exception.  The client then only   *)
(* logs it: no handler runs.  Such calls are collected in "unheard".       *)
(***************************************************************************)
EXTENDS Integers, FiniteSets

CONSTANTS
  MaxParking,     \* RequestListener.MAX_PARKING_NUMBER
  RequestNumbers  \* the numbers a client may put in a RequestFood request

ASSUME MaxParkingAssumption == MaxParking \in Nat \ {0}
ASSUME RequestNumbersAssumption == RequestNumbers \subseteq Int

VARIABLES
  current_state,  \* StateMachine.current_state
  shared,         \* StateMachine.shared_state_data
  calls,          \* per client name: the invocation under way, if any
  handler,        \* per client name: the state whose handlers were set last
  unheard,        \* names of the calls whose future completed with an exception
  base,           \* where the chassis stands
  base_locked,    \* LockRobotBasePlugin pins the chassis
  pose_valid,     \* the chassis has not moved since the grasp pose was taken
  arm,            \* where the gripper is
  held,           \* the parking whose food is between the fingers
  payload,        \* the payload box is attached in MoveIt's planning scene
  stale_voxels    \* voxels of the held food are still in the octomap

client == << calls, handler, unheard >>
world  == << base, base_locked, pose_valid, arm, held, payload, stale_voxels >>
vars   == << current_state, shared, client, world >>

-----------------------------------------------------------------------------
(* Values.                                                                 *)

Parkings  == 1 .. MaxParking
NoParking == 0        \* None: no request, no grasp pose, no food

States == {"nullState", "moveToHome", "waitFoodRequest", "navigateToParking",
           "findGraspPose", "moveArmToPose", "closeGripper",
           "attachObjectToGripper", "navigateToHole", "moveArmToHolePose",
           "openGripper"}

Actions  == {"move_arm_to_home", "navigate_to_pose", "provide_grasp_pose",
             "move_arm_to_pose", "close_gripper", "open_gripper"}
Services == {"attach_object", "detach_object", "clear_octomap",
             "lock_base", "unlock_base"}
Names    == Actions \cup Services

\* Places of the chassis and of the gripper.
Sites  == {"home", "parking", "hole", "elsewhere"}
Places == [site : Sites, of : Parkings \cup {NoParking}]
AtParking(p) == [site |-> "parking", of |-> p]
AtHole(p)    == [site |-> "hole",    of |-> p]
Home         == [site |-> "home",      of |-> NoParking]
Elsewhere    == [site |-> "elsewhere", of |-> NoParking]

SharedData == [grasp_pose     : Parkings \cup {NoParking},
               object_gripped : BOOLEAN,
               parking_number : Parkings \cup {NoParking}]

\* "waiting": the server was not ready and the readiness timer polls it.
\* An action goes on to "sent", then "accepted" or "rejected", "running" once
\* the goal response was handled, and "done".  A service goes from "sent" to
\* "done".
Phases == {"none", "waiting", "sent", "accepted", "rejected", "running", "done"}

\* "success" stands for the field the handler tests: success, food_found,
\* reached_goal, or error_code being NONE.
Replies == [success : BOOLEAN, stalled : BOOLEAN,
            pose : Parkings \cup {NoParking}]
NoReply == [success |-> FALSE, stalled |-> FALSE, pose |-> NoParking]
Yes     == [NoReply EXCEPT !.success = TRUE]

Calls == [phase : Phases, target : Places, reply : Replies]
NoCall == [phase |-> "none", target |-> Elsewhere, reply |-> NoReply]

TypeOK ==
  /\ current_state \in States
  /\ shared \in SharedData
  /\ calls \in [Names -> Calls]
  /\ handler \in [Names -> States]
  /\ unheard \in SUBSET Names
  /\ base \in Places
  /\ base_locked \in BOOLEAN
  /\ pose_valid \in BOOLEAN
  /\ arm \in Places
  /\ held \in Parkings \cup {NoParking}
  /\ payload \in BOOLEAN
  /\ stale_voxels \in BOOLEAN

-----------------------------------------------------------------------------
(* The behavior client.                                                    *)

\* set_action_handlers or set_service_handler, then invoke_action or
\* invoke_service: the request leaves at once if the server is ready,
\* otherwise the readiness timer sends it later.  "left" are the calls with
\* the one just answered removed.
Invoke(name, owner, target, left) ==
  /\ \E phase \in {"waiting", "sent"} :
       calls' = [left EXCEPT ![name] = [phase |-> phase, target |-> target,
                                        reply |-> NoReply]]
  /\ handler' = [handler EXCEPT ![name] = owner]
  /\ UNCHANGED unheard

Answered(name) == [calls EXCEPT ![name] = NoCall]

\* try_invoke of _invoke_when_ready, on the timer tick that finds the server
\* ready.
TryInvoke(name) ==
  /\ calls[name].phase = "waiting"
  /\ name \notin unheard
  /\ calls' = [calls EXCEPT ![name].phase = "sent"]
  /\ UNCHANGED << current_state, shared, handler, unheard, world >>

\* future.result() raises in _handle_goal_response, _handle_action_result or
\* _handle_service_response, which log the error and run no handler, or the
\* late invocation raises in try_invoke, which leaves the exception in a
\* future nobody reads.
FutureFails(name) ==
  /\ calls[name].phase # "none"
  /\ name \notin unheard
  /\ unheard' = unheard \cup {name}
  /\ UNCHANGED << current_state, shared, calls, handler, world >>

\* The result or response of the call "name" reaches the handlers of state s.
Delivered(name, s) ==
  /\ calls[name].phase = "done"
  /\ name \notin unheard
  /\ handler[name] = s

-----------------------------------------------------------------------------
(* Changing state.                                                         *)

\* Mutant: the grasp pose is asked for before the base is pinned.
EntryCallUnpinned ==
  [nullState             |-> "none",
   moveToHome            |-> "move_arm_to_home",
   waitFoodRequest       |-> "none",
   navigateToParking     |-> "navigate_to_pose",
   findGraspPose         |-> "provide_grasp_pose",
   moveArmToPose         |-> "move_arm_to_pose",
   closeGripper          |-> "close_gripper",
   attachObjectToGripper |-> "attach_object",
   navigateToHole        |-> "navigate_to_pose",
   moveArmToHolePose     |-> "move_arm_to_pose",
   openGripper           |-> "open_gripper"]

\* The call each state's on_entry makes ("none": it makes no call).
EntryCall ==
  [nullState             |-> "none",
   moveToHome            |-> "move_arm_to_home",
   waitFoodRequest       |-> "none",
   navigateToParking     |-> "navigate_to_pose",
   findGraspPose         |-> "lock_base",
   moveArmToPose         |-> "move_arm_to_pose",
   closeGripper          |-> "close_gripper",
   attachObjectToGripper |-> "attach_object",
   navigateToHole        |-> "navigate_to_pose",
   moveArmToHolePose     |-> "move_arm_to_pose",
   openGripper           |-> "open_gripper"]

\* The target an on_entry puts in its goal.
EntryTarget(s, data) ==
  IF s = "navigateToParking"  THEN AtParking(data.parking_number)
  ELSE IF s = "moveArmToPose" THEN AtParking(data.grasp_pose)
  ELSE IF s \in {"navigateToHole", "moveArmToHolePose"}
                              THEN AtHole(data.parking_number)
  ELSE Elsewhere

\* An on_entry that finds its input missing asks for the null state instead.
EntryRefused(s, data) ==
  \/ /\ s \in {"navigateToParking", "navigateToHole", "moveArmToHolePose"}
     /\ data.parking_number = NoParking
  \/ /\ s = "moveArmToPose"
     /\ data.grasp_pose = NoParking

\* What an on_entry assigns to the shared data.
EntryData(s, data) ==
  IF s = "findGraspPose"     THEN [data EXCEPT !.grasp_pose = NoParking]
  ELSE IF s = "closeGripper" THEN [data EXCEPT !.object_gripped = FALSE]
  ELSE data

\* StateMachine.change_state(next), with the shared data "data" and the
\* calls "left" as the calling handler leaves them.
ChangeState(next, data, left) ==
  LET s == IF EntryRefused(next, data) THEN "nullState" ELSE next IN
  /\ current_state' = s
  /\ shared' = EntryData(s, data)
  /\ IF EntryCall[s] = "none"
       THEN calls' = left /\ UNCHANGED << handler, unheard >>
       ELSE Invoke(EntryCall[s], s, EntryTarget(s, data), left)

-----------------------------------------------------------------------------
(* The handlers, one action per callback.                                  *)

\* RequestListener._handle_request.
RequestFood(n) ==
  IF n \in Parkings /\ shared.parking_number = NoParking
    THEN /\ shared' = [shared EXCEPT !.parking_number = n]
         /\ UNCHANGED << current_state, client, world >>
    ELSE UNCHANGED vars

\* StateMachine.tick: only StateWaitFoodRequest has a tick of its own.
Tick ==
  /\ current_state = "waitFoodRequest"
  /\ shared.parking_number # NoParking
  /\ ChangeState("navigateToParking", shared, calls)
  /\ UNCHANGED world

\* Mutant: _handle_goal_response does not return after a rejection.
HandleGoalResponseNoReturn(name) ==
  /\ name \notin unheard
  /\ calls[name].phase \in {"accepted", "rejected"}
  /\ LET asked == [calls EXCEPT ![name].phase = "running"] IN
     IF calls[name].phase = "rejected"
       THEN ChangeState("nullState", shared, asked)
       ELSE calls' = asked /\ UNCHANGED << current_state, shared, handler, unheard >>
  /\ UNCHANGED world

\* _handle_goal_response: an accepted goal's result is asked for, a rejected
\* goal makes each state's handler ask for the null state.
HandleGoalResponse(name) ==
  /\ name \notin unheard
  /\ \/ /\ calls[name].phase = "accepted"
        /\ calls' = [calls EXCEPT ![name].phase = "running"]
        /\ UNCHANGED << current_state, shared, handler, unheard >>
     \/ /\ calls[name].phase = "rejected"
        /\ ChangeState("nullState", shared, Answered(name))
  /\ UNCHANGED world

\* The handler of a result or response that goes on to "next" on success and
\* to the null state otherwise, with the shared data "data" on success.
Continue(name, next, data) ==
  IF calls[name].reply.success
    THEN ChangeState(next, data, Answered(name))
    ELSE ChangeState("nullState", shared, Answered(name))

\* The handler makes another call and stays in its state.
CallNext(name, next, data) ==
  /\ shared' = data
  /\ Invoke(next, current_state, Elsewhere, Answered(name))
  /\ UNCHANGED current_state

MoveToHomeResult ==
  /\ Delivered("move_arm_to_home", "moveToHome")
  /\ Continue("move_arm_to_home",
              IF shared.object_gripped THEN "navigateToHole"
                                       ELSE "waitFoodRequest", shared)
  /\ UNCHANGED world

NavigateToParkingResult ==
  /\ Delivered("navigate_to_pose", "navigateToParking")
  /\ Continue("navigate_to_pose", "findGraspPose", shared)
  /\ UNCHANGED world

BaseLocked ==
  /\ Delivered("lock_base", "findGraspPose")
  /\ IF calls["lock_base"].reply.success
       THEN CallNext("lock_base", "provide_grasp_pose", shared)
       ELSE ChangeState("nullState", shared, Answered("lock_base"))
  /\ UNCHANGED world

GraspPoseResult ==
  /\ Delivered("provide_grasp_pose", "findGraspPose")
  /\ Continue("provide_grasp_pose", "moveArmToPose",
              [shared EXCEPT !.grasp_pose =
                               calls["provide_grasp_pose"].reply.pose])
  /\ UNCHANGED world

MoveArmToPoseResult ==
  /\ Delivered("move_arm_to_pose", "moveArmToPose")
  /\ Continue("move_arm_to_pose", "closeGripper", shared)
  /\ UNCHANGED world

\* Mutant: the octomap is not cleared after the grasp.
CloseGripperResultKeepsVoxels ==
  LET reply == calls["close_gripper"].reply IN
  /\ Delivered("close_gripper", "closeGripper")
  /\ IF reply.success \/ ~reply.stalled
       THEN ChangeState("nullState", shared, Answered("close_gripper"))
       ELSE CallNext("close_gripper", "unlock_base",
                     [shared EXCEPT !.object_gripped = TRUE])
  /\ UNCHANGED world

CloseGripperResult ==
  LET reply == calls["close_gripper"].reply IN
  /\ Delivered("close_gripper", "closeGripper")
  /\ IF reply.success \/ ~reply.stalled
       THEN ChangeState("nullState", shared, Answered("close_gripper"))
       ELSE CallNext("close_gripper", "clear_octomap",
                     [shared EXCEPT !.object_gripped = TRUE])
  /\ UNCHANGED world

\* Mutant: the base is left pinned after the grasp.
OctomapClearedKeepsLock ==
  /\ Delivered("clear_octomap", "closeGripper")
  /\ ChangeState("attachObjectToGripper", shared, Answered("clear_octomap"))
  /\ UNCHANGED world

OctomapCleared ==
  /\ Delivered("clear_octomap", "closeGripper")
  /\ CallNext("clear_octomap", "unlock_base", shared)
  /\ UNCHANGED world

\* A failure to unlock is only logged.
BaseUnlocked ==
  /\ Delivered("unlock_base", "closeGripper")
  /\ ChangeState("attachObjectToGripper", shared, Answered("unlock_base"))
  /\ UNCHANGED world

ObjectAttached ==
  /\ Delivered("attach_object", "attachObjectToGripper")
  /\ Continue("attach_object", "moveToHome", shared)
  /\ UNCHANGED world

\* The result is not looked at: a failed drive goes on like a finished one.
NavigateToHoleResult ==
  /\ Delivered("navigate_to_pose", "navigateToHole")
  /\ ChangeState("moveArmToHolePose", shared, Answered("navigate_to_pose"))
  /\ UNCHANGED world

\* Mutant: the result of the motion above the hole is not looked at either.
MoveArmToHolePoseResultIgnored ==
  /\ Delivered("move_arm_to_pose", "moveArmToHolePose")
  /\ ChangeState("openGripper", shared, Answered("move_arm_to_pose"))
  /\ UNCHANGED world

MoveArmToHolePoseResult ==
  /\ Delivered("move_arm_to_pose", "moveArmToHolePose")
  /\ Continue("move_arm_to_pose", "openGripper", shared)
  /\ UNCHANGED world

OpenGripperResult ==
  /\ Delivered("open_gripper", "openGripper")
  /\ IF calls["open_gripper"].reply.success
       THEN CallNext("open_gripper", "detach_object",
                     [shared EXCEPT !.object_gripped = FALSE])
       ELSE ChangeState("nullState", shared, Answered("open_gripper"))
  /\ UNCHANGED world

\* Mutant: the served order is not closed.
ObjectDetachedKeepsOrder ==
  /\ Delivered("detach_object", "openGripper")
  /\ Continue("detach_object", "moveToHome", shared)
  /\ UNCHANGED world

ObjectDetached ==
  /\ Delivered("detach_object", "openGripper")
  /\ Continue("detach_object", "moveToHome",
              [shared EXCEPT !.parking_number = NoParking])
  /\ UNCHANGED world

ResultHandler ==
  \/ MoveToHomeResult        \/ NavigateToParkingResult \/ BaseLocked
  \/ GraspPoseResult         \/ MoveArmToPoseResult     \/ CloseGripperResult
  \/ OctomapCleared          \/ BaseUnlocked            \/ ObjectAttached
  \/ NavigateToHoleResult    \/ MoveArmToHolePoseResult \/ OpenGripperResult
  \/ ObjectDetached

-----------------------------------------------------------------------------
(* The servers: Nav2, arm_behavior, the gripper controller, the grasp pose *)
(* provider, move_group and the lock plugin, as the client sees them.      *)

\* Only an action's server can refuse; what it does, it does once it has
\* accepted the goal.
AnswerGoal(name) ==
  /\ calls[name].phase = "sent"
  /\ \E answer \in {"accepted", "rejected"} :
       calls' = [calls EXCEPT ![name].phase = answer]
  /\ UNCHANGED << current_state, shared, handler, unheard, world >>

\* The server works on the call.  The client asks for a result after it has
\* handled the goal response; if it never will, the server still works.
Working(name) ==
  IF name \in Services
    THEN calls[name].phase = "sent"
    ELSE \/ calls[name].phase = "running"
         \/ calls[name].phase = "accepted" /\ name \in unheard

Reply(name, reply) ==
  /\ calls' = [calls EXCEPT ![name].phase = "done", ![name].reply = reply]
  /\ UNCHANGED << current_state, shared, handler, unheard >>

\* Nav2: a pinned chassis goes nowhere; a failed drive ends anywhere.
ServeNavigation ==
  LET target == calls["navigate_to_pose"].target IN
  /\ Working("navigate_to_pose")
  /\ \/ /\ ~base_locked
        /\ base' = target
        /\ Reply("navigate_to_pose", Yes)
     \/ /\ base' \in IF base_locked THEN {base} ELSE {base, Elsewhere}
        /\ Reply("navigate_to_pose", NoReply)
  /\ pose_valid' = (pose_valid /\ base' = base)
  /\ UNCHANGED << base_locked, arm, held, payload, stale_voxels >>

ServeHomeMotion ==
  /\ Working("move_arm_to_home")
  /\ \/ arm' = Home /\ Reply("move_arm_to_home", Yes)
     \/ arm' \in {arm, Elsewhere} /\ Reply("move_arm_to_home", NoReply)
  /\ UNCHANGED << base, base_locked, pose_valid, held, payload, stale_voxels >>

\* The grasp pose is given relative to the base.  The pose above a hole is
\* given in the map frame (map_parameters.yaml): the arm has no plan for it
\* from a base that stands at another place.
InReach(target) ==
  target.site = "hole" => base \in {target, Elsewhere}

ServePoseMotion ==
  LET target == calls["move_arm_to_pose"].target IN
  /\ Working("move_arm_to_pose")
  /\ \/ /\ InReach(target)
        /\ arm' = target
        /\ Reply("move_arm_to_pose", Yes)
     \/ arm' \in {arm, Elsewhere} /\ Reply("move_arm_to_pose", NoReply)
  /\ UNCHANGED << base, base_locked, pose_valid, held, payload, stale_voxels >>

\* The camera takes the clouds the grasp pose is computed from.
CaptureShelf ==
  LET call == calls["provide_grasp_pose"] IN
  /\ Working("provide_grasp_pose")
  /\ base.site = "parking"
  /\ call.reply.pose = NoParking
  /\ calls' = [calls EXCEPT !["provide_grasp_pose"].reply.pose = base.of]
  /\ pose_valid' = TRUE
  /\ UNCHANGED << current_state, shared, handler, unheard,
                  base, base_locked, arm, held, payload, stale_voxels >>

ServeGraspPose ==
  LET pose == calls["provide_grasp_pose"].reply.pose IN
  /\ Working("provide_grasp_pose")
  /\ \/ pose # NoParking /\ Reply("provide_grasp_pose", [Yes EXCEPT !.pose = pose])
     \/ Reply("provide_grasp_pose", NoReply)
  /\ UNCHANGED world

\* The fingers stall on the food if they close where it was seen.  A goal
\* that ends neither at its position nor stalled may have gripped it too.
ServeClose ==
  LET food == IF arm.site = "parking" /\ pose_valid THEN arm.of ELSE NoParking
  IN
  /\ Working("close_gripper")
  /\ \/ /\ food # NoParking
        /\ held' = food
        /\ Reply("close_gripper", [NoReply EXCEPT !.stalled = TRUE])
     \/ /\ held' = held
        /\ \E stalled \in BOOLEAN :
             Reply("close_gripper", [Yes EXCEPT !.stalled = stalled])
     \/ /\ held' \in {held, food}
        /\ Reply("close_gripper", NoReply)
  /\ stale_voxels' = (stale_voxels \/ held' # held)
  /\ UNCHANGED << base, base_locked, pose_valid, arm, payload >>

ServeOpen ==
  /\ Working("open_gripper")
  /\ \/ held' = NoParking /\ Reply("open_gripper", Yes)
     \/ held' \in {held, NoParking} /\ Reply("open_gripper", NoReply)
  /\ UNCHANGED << base, base_locked, pose_valid, arm, payload, stale_voxels >>

\* A change of the planning scene that is reported as failed may have been
\* applied.
ServeAttach ==
  /\ Working("attach_object")
  /\ \/ payload' = TRUE /\ Reply("attach_object", Yes)
     \/ payload' \in {payload, TRUE} /\ Reply("attach_object", NoReply)
  /\ UNCHANGED << base, base_locked, pose_valid, arm, held, stale_voxels >>

ServeDetach ==
  /\ Working("detach_object")
  /\ \/ payload' = FALSE /\ Reply("detach_object", Yes)
     \/ payload' \in {payload, FALSE} /\ Reply("detach_object", NoReply)
  /\ UNCHANGED << base, base_locked, pose_valid, arm, held, stale_voxels >>

ServeClearOctomap ==
  /\ Working("clear_octomap")
  /\ stale_voxels' = FALSE
  /\ Reply("clear_octomap", Yes)
  /\ UNCHANGED << base, base_locked, pose_valid, arm, held, payload >>

\* handle_lock_base refuses while the simulation is not available.
ServeLock ==
  /\ Working("lock_base")
  /\ \/ base_locked' = TRUE /\ Reply("lock_base", Yes)
     \/ base_locked' = base_locked /\ Reply("lock_base", NoReply)
  /\ UNCHANGED << base, pose_valid, arm, held, payload, stale_voxels >>

\* handle_unlock_base never refuses.
ServeUnlock ==
  /\ Working("unlock_base")
  /\ base_locked' = FALSE
  /\ Reply("unlock_base", Yes)
  /\ UNCHANGED << base, pose_valid, arm, held, payload, stale_voxels >>

\* Physics moves a chassis that is not pinned, if only a little.
ChassisDrifts ==
  /\ ~base_locked
  /\ pose_valid
  /\ pose_valid' = FALSE
  /\ UNCHANGED << current_state, shared, client,
                  base, base_locked, arm, held, payload, stale_voxels >>

Server ==
  \/ \E name \in Actions : AnswerGoal(name)
  \/ ServeNavigation \/ ServeHomeMotion \/ ServePoseMotion
  \/ CaptureShelf    \/ ServeGraspPose
  \/ ServeClose      \/ ServeOpen
  \/ ServeAttach     \/ ServeDetach     \/ ServeClearOctomap
  \/ ServeLock       \/ ServeUnlock

-----------------------------------------------------------------------------
(* main(): the state machine is sent to moveToHome before the node spins.  *)

Init ==
  /\ current_state = "moveToHome"
  /\ shared = [grasp_pose |-> NoParking, object_gripped |-> FALSE,
               parking_number |-> NoParking]
  /\ \E phase \in {"waiting", "sent"} :
       calls = [name \in Names |->
                  IF name = "move_arm_to_home"
                    THEN [NoCall EXCEPT !.phase = phase] ELSE NoCall]
  /\ handler = [name \in Names |-> IF name = "move_arm_to_home"
                                     THEN "moveToHome" ELSE "nullState"]
  /\ unheard = {}
  /\ base = Elsewhere
  /\ base_locked = FALSE
  /\ pose_valid = FALSE
  /\ arm = Elsewhere
  /\ held = NoParking
  /\ payload = FALSE
  /\ stale_voxels = FALSE

\* The callbacks of the node that do not wait for a client of its service.
Node ==
  \/ Tick
  \/ ResultHandler
  \/ \E name \in Actions : HandleGoalResponse(name)
  \/ \E name \in Names : TryInvoke(name)

Next ==
  \/ Node
  \/ Server
  \/ \E n \in RequestNumbers : RequestFood(n)
  \/ \E name \in Names : FutureFails(name)
  \/ ChassisDrifts

Spec == Init /\ [][Next]_vars

\* The executor runs every callback that stays ready (Node), and the servers
\* of the launched system answer (Server): an assumption on the environment,
\* of which a failing future is the exception.
Fairness == WF_vars(Node) /\ WF_vars(Server)

FairSpec == Spec /\ Fairness

-----------------------------------------------------------------------------
(* Properties.                                                             *)

Outstanding == {name \in Names : calls[name].phase # "none"}
Lost == Outstanding \cap unheard # {}

\* At most one call is under way and its handlers are those of the current
\* state, so that a late answer can never drive a state that has been left:
\* the handler slots of navigate_to_pose and move_arm_to_pose are shared by
\* two states each and read only when the answer arrives.
AnswersReachTheirState ==
  \A name \in Outstanding :
    /\ handler[name] = current_state
    /\ \A other \in Outstanding : other = name

\* From the capture until the fingers have closed on the food the chassis is
\* pinned and has not moved, so the grasp pose the arm is sent to, which is
\* relative to the base, is still that of the food.
GraspPoseStaysValid ==
  (\/ current_state = "moveArmToPose"
   \/ current_state = "closeGripper" /\ ~shared.object_gripped)
    => base_locked /\ pose_valid

\* The robot never drives while its chassis is pinned, although the unlocking
\* was requested, and its failure ignored, several states earlier.
DrivesUnpinned ==
  calls["navigate_to_pose"].phase # "none" => ~base_locked

\* When the arm is to be moved, the planning scene agrees with the fingers:
\* the payload box is attached exactly when food is held, and the octomap
\* does not contain the food the fingers are in.
ArmMovesInTrueScene ==
  \A name \in {"move_arm_to_home", "move_arm_to_pose"} :
    calls[name].phase # "none"
      => /\ payload <=> held # NoParking
         /\ ~stale_voxels

\* The food between the fingers is food of the parking that was asked for,
\* from the grasp on and through the whole carry, whatever requests arrive.
HeldFoodIsTheOrder ==
  held # NoParking => held = shared.parking_number

\* Food leaves the fingers only above the hole of the parking it was asked
\* from, although the result of the drive to the hole is not looked at.
ReleasedAboveItsHole ==
  [][held # NoParking /\ held' # held
       => held' = NoParking /\ arm = AtHole(held)]_held

\* An accepted order is dropped only when its food has been released and the
\* payload box has been detached.
OrderKeptUntilDelivered ==
  [][shared.parking_number # NoParking
       /\ shared'.parking_number # shared.parking_number
     => /\ shared'.parking_number = NoParking
        /\ held = NoParking
        /\ ~payload
        /\ ~shared.object_gripped]_shared

\* The food service as its clients see it: the robot has halted once the
\* machine is in the null state or waits for an answer that will not come.
Stage ==
  IF current_state = "nullState" \/ Lost THEN "halted"
  ELSE IF held # NoParking THEN "carrying"
  ELSE IF current_state = "openGripper" THEN "thrown"
  ELSE IF current_state \in {"moveToHome", "waitFoodRequest"} THEN "idle"
  ELSE "fetching"

Courier == INSTANCE FoodService WITH
             order <- shared.parking_number, stage <- Stage, cargo <- held

\* The node, its calls and the robot implement the food service, its
\* promise to work on every open order included.
ImplementsFoodService == Courier!FairSpec

\* is_busy's docstring: a parking request "is currently being handled".
BusyMeansHandled ==
  shared.parking_number # NoParking => current_state # "nullState"
=============================================================================
