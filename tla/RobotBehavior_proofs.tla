----------------------- MODULE RobotBehavior_proofs -----------------------
(***************************************************************************)
(* Theorems about RobotBehavior, for every number of parkings and every    *)
(* set of request numbers.                                                 *)
(***************************************************************************)
EXTENDS RobotBehavior, TLAPS

-----------------------------------------------------------------------------
(* The inductive invariant: for each state of the machine, which call may  *)
(* be under way and what then holds of the robot.                          *)

CallsOf(s) ==
  IF s = "findGraspPose" THEN {"lock_base", "provide_grasp_pose"}
  ELSE IF s = "closeGripper" THEN {"close_gripper", "clear_octomap", "unlock_base"}
  ELSE IF s = "openGripper" THEN {"open_gripper", "detach_object"}
  ELSE {EntryCall[s]}

CallsInv ==
  \A name \in Names :
    calls[name].phase # "none" =>
      /\ handler[name] = current_state
      /\ name \in CallsOf(current_state)
      /\ \A other \in Names : calls[other].phase # "none" => other = name

Active(name)    == calls[name].phase # "none"
Finished(name)  == calls[name].phase = "done"
Succeeded(name) == Finished(name) /\ calls[name].reply.success

EmptyHands == held = NoParking /\ ~shared.object_gripped /\ ~payload /\ ~stale_voxels
FullHands  == /\ shared.parking_number # NoParking
              /\ held = shared.parking_number
              /\ shared.object_gripped
AtShelf    == /\ shared.parking_number # NoParking
              /\ base = AtParking(shared.parking_number)

NullInv ==
  current_state = "nullState" => held \in {NoParking, shared.parking_number}

HomeInv ==
  current_state = "moveToHome" =>
    /\ ~base_locked
    /\ EmptyHands \/ (FullHands /\ payload /\ ~stale_voxels)

WaitInv ==
  current_state = "waitFoodRequest" => ~base_locked /\ EmptyHands

ToParkingInv ==
  current_state = "navigateToParking" =>
    /\ shared.parking_number # NoParking
    /\ ~base_locked
    /\ EmptyHands
    /\ calls["navigate_to_pose"].target = AtParking(shared.parking_number)
    /\ Succeeded("navigate_to_pose") => AtShelf

FindInv ==
  current_state = "findGraspPose" =>
    /\ AtShelf
    /\ EmptyHands
    /\ Succeeded("lock_base") => base_locked
    /\ Active("provide_grasp_pose") =>
         /\ base_locked
         /\ calls["provide_grasp_pose"].reply.pose # NoParking =>
              /\ calls["provide_grasp_pose"].reply.pose = shared.parking_number
              /\ pose_valid
         /\ Succeeded("provide_grasp_pose") =>
              calls["provide_grasp_pose"].reply.pose # NoParking

ReachInv ==
  current_state = "moveArmToPose" =>
    /\ AtShelf
    /\ EmptyHands
    /\ base_locked
    /\ pose_valid
    /\ calls["move_arm_to_pose"].target = AtParking(shared.parking_number)
    /\ Succeeded("move_arm_to_pose") => arm = AtParking(shared.parking_number)

CloseInv ==
  current_state = "closeGripper" =>
    /\ shared.parking_number # NoParking
    /\ ~payload
    /\ Active("close_gripper") =>
         /\ base_locked
         /\ pose_valid
         /\ arm = AtParking(shared.parking_number)
         /\ ~shared.object_gripped
         /\ held \in {NoParking, shared.parking_number}
         /\ ~Finished("close_gripper") => held = NoParking
         /\ Finished("close_gripper") /\ ~Succeeded("close_gripper")
              /\ calls["close_gripper"].reply.stalled => held # NoParking
    /\ ~Active("close_gripper") => FullHands
    /\ Finished("clear_octomap") => ~stale_voxels
    /\ Active("unlock_base") => ~stale_voxels
    /\ Finished("unlock_base") => ~base_locked

AttachInv ==
  current_state = "attachObjectToGripper" =>
    /\ FullHands
    /\ ~stale_voxels
    /\ ~base_locked
    /\ Succeeded("attach_object") => payload

CarryInv ==
  current_state \in {"navigateToHole", "moveArmToHolePose"} =>
    /\ FullHands
    /\ payload
    /\ ~stale_voxels
    /\ ~base_locked

AboveHoleInv ==
  current_state = "moveArmToHolePose" =>
    /\ calls["move_arm_to_pose"].target = AtHole(shared.parking_number)
    /\ Succeeded("move_arm_to_pose") => arm = AtHole(shared.parking_number)

OpenInv ==
  current_state = "openGripper" =>
    /\ shared.parking_number # NoParking
    /\ ~stale_voxels
    /\ ~base_locked
    /\ Active("open_gripper") =>
         /\ arm = AtHole(shared.parking_number)
         /\ payload
         /\ held \in {NoParking, shared.parking_number}
         /\ ~Finished("open_gripper") => held # NoParking
         /\ Succeeded("open_gripper") => held = NoParking
    /\ ~Active("open_gripper") => held = NoParking /\ ~shared.object_gripped
    /\ Succeeded("detach_object") => ~payload

IInv ==
  /\ TypeOK
  /\ CallsInv
  /\ NullInv
  /\ HomeInv
  /\ WaitInv
  /\ ToParkingInv
  /\ FindInv
  /\ ReachInv
  /\ CloseInv
  /\ AttachInv
  /\ CarryInv
  /\ AboveHoleInv
  /\ OpenInv

-----------------------------------------------------------------------------
(* Types.                                                                  *)

ClientType == /\ current_state \in States
              /\ shared \in SharedData
              /\ calls \in [Names -> Calls]
              /\ handler \in [Names -> States]
              /\ unheard \in SUBSET Names

\* What an on_entry calls and assigns has the type of a call and of the data.
LEMMA EntryTypes ==
  ASSUME NEW s \in States, NEW data \in SharedData
  PROVE  /\ EntryCall[s] \in Names \cup {"none"}
         /\ EntryTarget(s, data) \in Places
         /\ EntryData(s, data) \in SharedData
<1> USE DEF States, SharedData
<1>1. EntryCall[s] \in Names \cup {"none"}
  BY DEF EntryCall, Names, Actions, Services
<1>2. EntryTarget(s, data) \in Places
  BY DEF EntryTarget, Places, Sites, AtParking, AtHole, Elsewhere, NoParking
<1>3. EntryData(s, data) \in SharedData
  BY DEF EntryData, NoParking
<1> QED BY <1>1, <1>2, <1>3

\* Removing an answered call and making a new one keeps the client's types.
LEMMA InvokeType ==
  ASSUME TypeOK, NEW name \in Names, NEW owner \in States,
         NEW target \in Places, NEW left \in [Names -> Calls],
         Invoke(name, owner, target, left)
  PROVE  /\ calls' \in [Names -> Calls]
         /\ handler' \in [Names -> States]
         /\ unheard' \in SUBSET Names
<1>1. NoReply \in Replies
  BY DEF NoReply, Replies, NoParking
<1> QED BY <1>1 DEF Invoke, TypeOK, Calls, Phases

\* Forgetting an answered call leaves a table of calls.
LEMMA AnsweredType ==
  ASSUME TypeOK, NEW name \in Names
  PROVE  Answered(name) \in [Names -> Calls]
BY DEF TypeOK, Answered, NoCall, Calls, Phases, Places, Sites, Elsewhere,
       Replies, NoReply, NoParking

\* A change of state, with the call of its entry, keeps the types.
LEMMA ChangeStateType ==
  ASSUME TypeOK, NEW next \in States, NEW data \in SharedData,
         NEW left \in [Names -> Calls], ChangeState(next, data, left)
  PROVE  ClientType'
<1> DEFINE s == IF EntryRefused(next, data) THEN "nullState" ELSE next
<1>1. s \in States
  BY DEF States
<1>2. /\ EntryCall[s] \in Names \cup {"none"}
      /\ EntryTarget(s, data) \in Places
      /\ EntryData(s, data) \in SharedData
  BY <1>1, EntryTypes
<1>3. /\ current_state' = s
      /\ shared' = EntryData(s, data)
      /\ \/ calls' = left /\ UNCHANGED << handler, unheard >>
         \/ EntryCall[s] # "none" /\ Invoke(EntryCall[s], s, EntryTarget(s, data), left)
  BY DEF ChangeState
<1> HIDE DEF s
<1>4. CASE calls' = left /\ UNCHANGED << handler, unheard >>
  BY <1>1, <1>2, <1>3, <1>4 DEF ClientType, TypeOK
<1>5. CASE EntryCall[s] # "none" /\ Invoke(EntryCall[s], s, EntryTarget(s, data), left)
  BY <1>1, <1>2, <1>3, <1>5, InvokeType DEF ClientType
<1> QED BY <1>3, <1>4, <1>5

\* A handler that continues or halts, or makes its next call, keeps the types.
LEMMA ContinueType ==
  ASSUME TypeOK, NEW name \in Names, NEW next \in States, NEW data \in SharedData,
         Continue(name, next, data)
  PROVE  ClientType'
<1>1. "nullState" \in States /\ shared \in SharedData
  BY DEF States, TypeOK
<1> QED BY <1>1, AnsweredType, ChangeStateType DEF Continue

\* A handler that makes the next call of its state keeps the types.
LEMMA CallNextType ==
  ASSUME TypeOK, NEW name \in Names, NEW next \in Names, NEW data \in SharedData,
         CallNext(name, next, data)
  PROVE  ClientType'
<1>1. Elsewhere \in Places /\ current_state \in States
  BY DEF Elsewhere, Places, Sites, NoParking, TypeOK
<1>2. Answered(name) \in [Names -> Calls]
  BY AnsweredType
<1> QED BY <1>1, <1>2, InvokeType DEF CallNext, ClientType

\* What a handler may write to the shared data.
LEMMA DataType ==
  ASSUME TypeOK
  PROVE  /\ \A n \in Parkings \cup {NoParking} :
              /\ [shared EXCEPT !.parking_number = n] \in SharedData
              /\ [shared EXCEPT !.grasp_pose = n] \in SharedData
         /\ \A b \in BOOLEAN : [shared EXCEPT !.object_gripped = b] \in SharedData
BY DEF TypeOK, SharedData

\* A step of the node keeps the types and leaves the world alone.
LEMMA NodeType ==
  ASSUME TypeOK, Node
  PROVE  ClientType' /\ UNCHANGED world
<1> USE DEF States, Names, Actions, Services
<1>1. CASE Tick
  BY <1>1, ChangeStateType DEF Tick, TypeOK
<1>2. CASE ResultHandler
  <2>1. shared \in SharedData
    BY DEF TypeOK
  <2>2. CASE MoveToHomeResult
    BY <2>1, <2>2, ContinueType DEF MoveToHomeResult
  <2>3. CASE NavigateToParkingResult
    BY <2>1, <2>3, ContinueType DEF NavigateToParkingResult
  <2>4. CASE BaseLocked
    BY <2>1, <2>4, CallNextType, AnsweredType, ChangeStateType DEF BaseLocked
  <2>5. CASE GraspPoseResult
    <3>1. calls["provide_grasp_pose"].reply.pose \in Parkings \cup {NoParking}
      BY DEF TypeOK, Calls, Replies
    <3> QED BY <2>1, <2>5, <3>1, ContinueType, DataType DEF GraspPoseResult
  <2>6. CASE MoveArmToPoseResult
    BY <2>1, <2>6, ContinueType DEF MoveArmToPoseResult
  <2>7. CASE CloseGripperResult
    BY <2>1, <2>7, CallNextType, AnsweredType, ChangeStateType, DataType
       DEF CloseGripperResult
  <2>8. CASE OctomapCleared
    BY <2>1, <2>8, CallNextType DEF OctomapCleared
  <2>9. CASE BaseUnlocked
    BY <2>1, <2>9, AnsweredType, ChangeStateType DEF BaseUnlocked
  <2>10. CASE ObjectAttached
    BY <2>1, <2>10, ContinueType DEF ObjectAttached
  <2>11. CASE NavigateToHoleResult
    BY <2>1, <2>11, AnsweredType, ChangeStateType DEF NavigateToHoleResult
  <2>12. CASE MoveArmToHolePoseResult
    BY <2>1, <2>12, ContinueType DEF MoveArmToHolePoseResult
  <2>13. CASE OpenGripperResult
    BY <2>1, <2>13, CallNextType, AnsweredType, ChangeStateType, DataType
       DEF OpenGripperResult
  <2>14. CASE ObjectDetached
    BY <2>1, <2>14, ContinueType, DataType DEF ObjectDetached
  <2> QED
    BY <1>2, <2>2, <2>3, <2>4, <2>5, <2>6, <2>7, <2>8, <2>9, <2>10, <2>11,
       <2>12, <2>13, <2>14 DEF ResultHandler
<1>3. ASSUME NEW name \in Actions, HandleGoalResponse(name)
      PROVE  ClientType' /\ UNCHANGED world
  <2>1. CASE calls[name].phase = "rejected" /\ ChangeState("nullState", shared, Answered(name))
    BY <1>3, <2>1, AnsweredType, ChangeStateType DEF HandleGoalResponse, TypeOK
  <2>2. CASE /\ calls' = [calls EXCEPT ![name].phase = "running"]
             /\ UNCHANGED << current_state, shared, handler, unheard >>
    BY <1>3, <2>2 DEF HandleGoalResponse, TypeOK, ClientType, Calls, Phases
  <2> QED BY <1>3, <2>1, <2>2 DEF HandleGoalResponse
<1>4. ASSUME NEW name \in Names, TryInvoke(name)
      PROVE  ClientType' /\ UNCHANGED world
  BY <1>4 DEF TryInvoke, TypeOK, ClientType, Calls, Phases
<1> QED BY <1>1, <1>2, <1>3, <1>4 DEF Node

\* The named places and replies have their types.
LEMMA PlaceTypes ==
  /\ Home \in Places
  /\ Elsewhere \in Places
  /\ NoReply \in Replies
  /\ Yes \in Replies
  /\ \A p \in Parkings : AtParking(p) \in Places /\ AtHole(p) \in Places
BY DEF Home, Elsewhere, Places, Sites, NoReply, Yes, Replies, AtParking, AtHole,
       NoParking

\* A reply keeps the types of the client.
LEMMA ReplyType ==
  ASSUME TypeOK, NEW name \in Names, NEW reply \in Replies, Reply(name, reply)
  PROVE  ClientType'
BY DEF TypeOK, ClientType, Reply, Calls, Phases

\* A step of a server keeps the types.
LEMMA ServerType ==
  ASSUME TypeOK, Server
  PROVE  TypeOK'
<1> USE PlaceTypes DEF TypeOK, Names, Actions, Services, Reply, Calls, Phases, NoParking
<1>1. ASSUME NEW name \in Actions, AnswerGoal(name)
      PROVE  TypeOK'
  BY <1>1 DEF AnswerGoal, world
<1>2. CASE ServeNavigation
  BY <1>2 DEF ServeNavigation
<1>3. CASE ServeHomeMotion
  BY <1>3 DEF ServeHomeMotion
<1>4. CASE ServePoseMotion
  BY <1>4 DEF ServePoseMotion
<1>5. CASE CaptureShelf
  BY <1>5 DEF CaptureShelf, Places, Replies
<1>6. CASE ServeGraspPose
  <2>1. [Yes EXCEPT !.pose = calls["provide_grasp_pose"].reply.pose] \in Replies
    BY DEF Replies
  <2> QED BY <1>6, <2>1 DEF ServeGraspPose, world
<1>7. CASE ServeClose
  <2>1. \A b \in BOOLEAN : [Yes EXCEPT !.stalled = b] \in Replies
    BY DEF Replies
  <2>2. [NoReply EXCEPT !.stalled = TRUE] \in Replies
    BY DEF Replies
  <2>3. arm.of \in Parkings \cup {NoParking}
    BY DEF Places
  <2> QED BY <1>7, <2>1, <2>2, <2>3 DEF ServeClose
<1>8. CASE ServeOpen
  BY <1>8 DEF ServeOpen
<1>9. CASE ServeAttach
  <2>1. payload' \in BOOLEAN
    BY <1>9, Zenon DEF ServeAttach
  <2>2. ClientType'
    BY <1>9, ReplyType DEF ServeAttach
  <2> QED BY <1>9, <2>1, <2>2 DEF ServeAttach, ClientType
<1>10. CASE ServeDetach
  <2>1. payload' \in BOOLEAN
    BY <1>10, Zenon DEF ServeDetach
  <2>2. ClientType'
    BY <1>10, ReplyType DEF ServeDetach
  <2> QED BY <1>10, <2>1, <2>2 DEF ServeDetach, ClientType
<1>11. CASE ServeClearOctomap
  <2>1. stale_voxels' \in BOOLEAN
    BY <1>11, Zenon DEF ServeClearOctomap
  <2>2. ClientType'
    BY <1>11, ReplyType DEF ServeClearOctomap
  <2> QED BY <1>11, <2>1, <2>2 DEF ServeClearOctomap, ClientType
<1>12. CASE ServeLock
  <2>1. base_locked' \in BOOLEAN
    BY <1>12, Zenon DEF ServeLock
  <2>2. ClientType'
    BY <1>12, ReplyType DEF ServeLock
  <2> QED BY <1>12, <2>1, <2>2 DEF ServeLock, ClientType
<1>13. CASE ServeUnlock
  <2>1. base_locked' \in BOOLEAN
    BY <1>13, Zenon DEF ServeUnlock
  <2>2. ClientType'
    BY <1>13, ReplyType DEF ServeUnlock
  <2> QED BY <1>13, <2>1, <2>2 DEF ServeUnlock, ClientType
<1> QED
  BY <1>1, <1>2, <1>3, <1>4, <1>5, <1>6, <1>7, <1>8, <1>9, <1>10, <1>11,
     <1>12, <1>13 DEF Server

\* Every step keeps the types.
LEMMA NextType ==
  ASSUME TypeOK, [Next]_vars
  PROVE  TypeOK'
<1>1. CASE Node
  BY <1>1, NodeType DEF TypeOK, ClientType, world
<1>2. CASE Server
  BY <1>2, ServerType
<1>3. ASSUME NEW n \in RequestNumbers, RequestFood(n)
      PROVE  TypeOK'
  BY <1>3, DataType DEF RequestFood, vars, client, world, TypeOK
<1>4. ASSUME NEW name \in Names, FutureFails(name)
      PROVE  TypeOK'
  BY <1>4 DEF FutureFails, TypeOK, world
<1>5. CASE ChassisDrifts
  BY <1>5 DEF ChassisDrifts, TypeOK, client
<1>6. CASE UNCHANGED vars
  BY <1>6 DEF TypeOK, vars, client, world
<1> QED BY <1>1, <1>2, <1>3, <1>4, <1>5, <1>6 DEF Next

\* The initial state has its types.
LEMMA InitType ==
  ASSUME Init
  PROVE  TypeOK
<1>1. NoCall \in Calls
  BY PlaceTypes DEF NoCall, Calls, Phases
<1>2. \A phase \in {"waiting", "sent"} : [NoCall EXCEPT !.phase = phase] \in Calls
  BY <1>1 DEF Calls, Phases
<1>3. calls \in [Names -> Calls]
  BY <1>1, <1>2 DEF Init
<1>4. shared \in SharedData
  BY DEF Init, SharedData, NoParking
<1>5. handler \in [Names -> States] /\ current_state \in States
  BY DEF Init, States
<1> QED BY <1>3, <1>4, <1>5, PlaceTypes DEF Init, TypeOK

\* The state, the shared data, the calls and the robot keep their types.
THEOREM TypeCorrect == Spec => []TypeOK
BY InitType, NextType, PTL DEF Spec

-----------------------------------------------------------------------------
(* The inductive invariant: the servers.                                   *)

\* An answer changes the answered call alone, and leaves it to its state.
Answers(name, reply) ==
  /\ name \in CallsOf(current_state)
  /\ calls'[name].phase = "done"
  /\ calls'[name].reply = reply
  /\ calls'[name].target = calls[name].target
  /\ \A other \in Names : other # name =>
       calls'[other] = calls[other] /\ calls[other].phase = "none"
  /\ UNCHANGED << current_state, shared >>

\* A reply ends the one call that is under way, and no other.
LEMMA ReplyCalls ==
  ASSUME TypeOK, CallsInv, NEW name \in Names, Active(name),
         NEW reply \in Replies, Reply(name, reply)
  PROVE  CallsInv' /\ Answers(name, reply)
BY DEF TypeOK, CallsInv, Active, Reply, Calls, Answers

\* A call may move on, towards its end and with all else as it was, without
\* the invariant noticing.
KeepsCalls ==
  \A name \in Names :
    /\ calls'[name].target = calls[name].target
    /\ calls'[name].reply = calls[name].reply
    /\ calls'[name].phase = "none" <=> calls[name].phase = "none"
    /\ calls'[name].phase = "done" <=> calls[name].phase = "done"

\* A step that only moves a call on keeps the invariant.
LEMMA KeptInv ==
  ASSUME IInv, TypeOK', KeepsCalls,
         UNCHANGED << current_state, shared, handler, world >>
  PROVE  IInv'
<1> USE DEF IInv, KeepsCalls, Active, Finished, Succeeded, Names, Actions, Services
<1>1. CallsInv'
  BY DEF CallsInv
<1> QED
  BY <1>1 DEF world, AtShelf, EmptyHands, FullHands, NullInv, HomeInv, WaitInv,
     ToParkingInv, FindInv, ReachInv, CloseInv, AttachInv, CarryInv,
     AboveHoleInv, OpenInv

\* Working servers work on calls under way.
LEMMA WorkingActive ==
  ASSUME TypeOK, NEW name \in Names, Working(name)
  PROVE  Active(name) /\ ~Finished(name)
BY DEF Working, Active, Finished

\* A step of a server keeps the invariant.
LEMMA ServerInv ==
  ASSUME IInv, TypeOK', Server
  PROVE  IInv'
<1> USE DEF IInv, Names, Actions, Services, Active, Finished, Succeeded, NoParking
<1>a. TypeOK /\ CallsInv
  OBVIOUS
<1>r. /\ NoReply \in Replies /\ Yes \in Replies
      /\ ~NoReply.success /\ ~NoReply.stalled /\ NoReply.pose = 0
      /\ Yes.success
  BY PlaceTypes DEF NoReply, Yes
<1>2. CASE ServeNavigation
  <2>1. PICK reply \in Replies :
          /\ Reply("navigate_to_pose", reply)
          /\ \/ reply = Yes /\ base' = calls["navigate_to_pose"].target
             \/ reply = NoReply
    BY <1>2, <1>r, Zenon DEF ServeNavigation
  <2>2. UNCHANGED << base_locked, arm, held, payload, stale_voxels >>
    BY <1>2, Zenon DEF ServeNavigation
  <2>3. Active("navigate_to_pose") /\ ~Finished("navigate_to_pose")
    BY <1>2, <1>a, WorkingActive DEF ServeNavigation
  <2>4. CallsInv' /\ Answers("navigate_to_pose", reply)
    BY <1>a, <2>1, <2>3, ReplyCalls
  <2>5. current_state \in {"navigateToParking", "navigateToHole"}
    BY <1>a, <2>4 DEF CallsOf, EntryCall, TypeOK, States, Answers
  <2>6. ToParkingInv'
    BY <1>r, <2>1, <2>2, <2>3, <2>4 DEF ToParkingInv, AtShelf, EmptyHands, Answers
  <2>7. CarryInv'
    BY <1>r, <2>1, <2>2, <2>3, <2>4 DEF CarryInv, FullHands, Answers
  <2> QED
    BY <2>4, <2>5, <2>6, <2>7
       DEF Answers, AboveHoleInv, AttachInv, CloseInv, FindInv, HomeInv, NullInv, OpenInv, ReachInv, WaitInv
<1>3. CASE ServeHomeMotion
  <2>1. PICK reply \in Replies :
          Reply("move_arm_to_home", reply)
    BY <1>3, <1>r, Zenon DEF ServeHomeMotion
  <2>2. UNCHANGED << base_locked, held, payload, stale_voxels >>
    BY <1>3, Zenon DEF ServeHomeMotion
  <2>3. Active("move_arm_to_home") /\ ~Finished("move_arm_to_home")
    BY <1>3, <1>a, WorkingActive DEF ServeHomeMotion
  <2>4. CallsInv' /\ Answers("move_arm_to_home", reply)
    BY <1>a, <2>1, <2>3, ReplyCalls
  <2>5. current_state \in {"moveToHome"}
    BY <1>a, <2>4 DEF CallsOf, EntryCall, TypeOK, States, Answers
  <2>6. HomeInv'
    BY <1>r, <2>1, <2>2, <2>3, <2>4 DEF HomeInv, EmptyHands, FullHands, Answers
  <2> QED
    BY <2>4, <2>5, <2>6
       DEF Answers, AboveHoleInv, AttachInv, CarryInv, CloseInv, FindInv, NullInv, OpenInv, ReachInv, ToParkingInv, WaitInv
<1>4. CASE ServePoseMotion
  <2>1. PICK reply \in Replies :
          /\ Reply("move_arm_to_pose", reply)
          /\ \/ reply = Yes /\ arm' = calls["move_arm_to_pose"].target
             \/ reply = NoReply
    BY <1>4, <1>r, Zenon DEF ServePoseMotion
  <2>2. UNCHANGED << base, base_locked, pose_valid, held, payload, stale_voxels >>
    BY <1>4, Zenon DEF ServePoseMotion
  <2>3. Active("move_arm_to_pose") /\ ~Finished("move_arm_to_pose")
    BY <1>4, <1>a, WorkingActive DEF ServePoseMotion
  <2>4. CallsInv' /\ Answers("move_arm_to_pose", reply)
    BY <1>a, <2>1, <2>3, ReplyCalls
  <2>5. current_state \in {"moveArmToPose", "moveArmToHolePose"}
    BY <1>a, <2>4 DEF CallsOf, EntryCall, TypeOK, States, Answers
  <2>6. ReachInv'
    BY <1>r, <2>1, <2>2, <2>3, <2>4 DEF ReachInv, AtShelf, EmptyHands, Answers
  <2>7. CarryInv'
    BY <1>r, <2>1, <2>2, <2>3, <2>4 DEF CarryInv, FullHands, Answers
  <2>8. AboveHoleInv'
    BY <1>r, <2>1, <2>2, <2>3, <2>4 DEF AboveHoleInv, Answers
  <2> QED
    BY <2>4, <2>5, <2>6, <2>7, <2>8
       DEF Answers, AttachInv, CloseInv, FindInv, HomeInv, NullInv, OpenInv, ToParkingInv, WaitInv
<1>7. CASE ServeClose
  <2> DEFINE food == IF arm.site = "parking" /\ pose_valid THEN arm.of
                                                         ELSE NoParking
             closed == [NoReply EXCEPT !.stalled = TRUE]
             missed(stalled) == [Yes EXCEPT !.stalled = stalled]
  <2>0. /\ closed \in Replies /\ closed.stalled /\ ~closed.success
        /\ \A stalled \in BOOLEAN :
             missed(stalled) \in Replies /\ missed(stalled).success
    BY <1>r DEF Replies
  <2>1. PICK reply \in Replies :
          /\ Reply("close_gripper", reply)
          /\ reply.stalled /\ ~reply.success => held' = arm.of /\ held' # NoParking
          /\ held' \in {held, arm.of, NoParking}
    <3>1. \/ food # NoParking /\ held' = food /\ Reply("close_gripper", closed)
          \/ held' = held /\ \E stalled \in BOOLEAN :
                               Reply("close_gripper", missed(stalled))
          \/ held' \in {held, food} /\ Reply("close_gripper", NoReply)
      BY <1>7, Zenon DEF ServeClose
    <3>2. food \in {arm.of, NoParking} /\ (food # NoParking => food = arm.of)
      OBVIOUS
    <3> HIDE DEF food, closed, missed
    <3>3. CASE food # NoParking /\ held' = food /\ Reply("close_gripper", closed)
      BY <2>0, <3>2, <3>3
    <3>4. CASE held' = held /\ \E stalled \in BOOLEAN :
                                 Reply("close_gripper", missed(stalled))
      BY <2>0, <3>4
    <3>5. CASE held' \in {held, food} /\ Reply("close_gripper", NoReply)
      BY <1>r, <3>2, <3>5
    <3> QED BY <3>1, <3>3, <3>4, <3>5
  <2>2. UNCHANGED << base, base_locked, pose_valid, arm, payload >>
    BY <1>7, Zenon DEF ServeClose
  <2>3. Active("close_gripper") /\ ~Finished("close_gripper")
    BY <1>7, <1>a, WorkingActive DEF ServeClose
  <2>4. CallsInv' /\ Answers("close_gripper", reply)
    BY <1>a, <2>1, <2>3, ReplyCalls
  <2>5. current_state \in {"closeGripper"}
    BY <1>a, <2>4 DEF CallsOf, EntryCall, TypeOK, States, Answers
  <2>6. CloseInv'
    BY <1>r, <2>1, <2>2, <2>3, <2>4 DEF CloseInv, FullHands, Answers, AtParking
  <2> QED
    BY <2>4, <2>5, <2>6
       DEF Answers, AboveHoleInv, AttachInv, CarryInv, FindInv, HomeInv, NullInv, OpenInv, ReachInv, ToParkingInv, WaitInv
<1>8. CASE ServeOpen
  <2>1. PICK reply \in Replies :
          /\ Reply("open_gripper", reply)
          /\ held' \in {held, NoParking}
          /\ \/ reply = Yes /\ held' = NoParking
             \/ reply = NoReply
    BY <1>8, <1>r, Zenon DEF ServeOpen
  <2>2. UNCHANGED << base, base_locked, pose_valid, arm, payload, stale_voxels >>
    BY <1>8, Zenon DEF ServeOpen
  <2>3. Active("open_gripper") /\ ~Finished("open_gripper")
    BY <1>8, <1>a, WorkingActive DEF ServeOpen
  <2>4. CallsInv' /\ Answers("open_gripper", reply)
    BY <1>a, <2>1, <2>3, ReplyCalls
  <2>5. current_state \in {"openGripper"}
    BY <1>a, <2>4 DEF CallsOf, EntryCall, TypeOK, States, Answers
  <2>6. OpenInv'
    BY <1>r, <2>1, <2>2, <2>3, <2>4 DEF OpenInv, Answers
  <2> QED
    BY <2>4, <2>5, <2>6
       DEF Answers, AboveHoleInv, AttachInv, CarryInv, CloseInv, FindInv, HomeInv, NullInv, ReachInv, ToParkingInv, WaitInv
<1>9. CASE ServeAttach
  <2>1. PICK reply \in Replies :
          /\ Reply("attach_object", reply)
          /\ \/ reply = Yes /\ payload'
             \/ reply = NoReply
    BY <1>9, <1>r, Zenon DEF ServeAttach
  <2>2. UNCHANGED << base, base_locked, pose_valid, arm, held, stale_voxels >>
    BY <1>9, Zenon DEF ServeAttach
  <2>3. Active("attach_object") /\ ~Finished("attach_object")
    BY <1>9, <1>a, WorkingActive DEF ServeAttach
  <2>4. CallsInv' /\ Answers("attach_object", reply)
    BY <1>a, <2>1, <2>3, ReplyCalls
  <2>5. current_state \in {"attachObjectToGripper"}
    BY <1>a, <2>4 DEF CallsOf, EntryCall, TypeOK, States, Answers
  <2>6. AttachInv'
    BY <1>r, <2>1, <2>2, <2>3, <2>4 DEF AttachInv, FullHands, Answers
  <2> QED
    BY <2>4, <2>5, <2>6
       DEF Answers, AboveHoleInv, CarryInv, CloseInv, FindInv, HomeInv, NullInv, OpenInv, ReachInv, ToParkingInv, WaitInv
<1>10. CASE ServeDetach
  <2>1. PICK reply \in Replies :
          /\ Reply("detach_object", reply)
          /\ \/ reply = Yes /\ ~payload'
             \/ reply = NoReply
    BY <1>10, <1>r, Zenon DEF ServeDetach
  <2>2. UNCHANGED << base, base_locked, pose_valid, arm, held, stale_voxels >>
    BY <1>10, Zenon DEF ServeDetach
  <2>3. Active("detach_object") /\ ~Finished("detach_object")
    BY <1>10, <1>a, WorkingActive DEF ServeDetach
  <2>4. CallsInv' /\ Answers("detach_object", reply)
    BY <1>a, <2>1, <2>3, ReplyCalls
  <2>5. current_state \in {"openGripper"}
    BY <1>a, <2>4 DEF CallsOf, EntryCall, TypeOK, States, Answers
  <2>6. OpenInv'
    BY <1>r, <2>1, <2>2, <2>3, <2>4 DEF OpenInv, Answers
  <2> QED
    BY <2>4, <2>5, <2>6
       DEF Answers, AboveHoleInv, AttachInv, CarryInv, CloseInv, FindInv, HomeInv, NullInv, ReachInv, ToParkingInv, WaitInv
<1>11. CASE ServeClearOctomap
  <2>1. PICK reply \in Replies :
          /\ Reply("clear_octomap", reply)
          /\ ~stale_voxels'
    BY <1>11, <1>r, Zenon DEF ServeClearOctomap
  <2>2. UNCHANGED << base, base_locked, pose_valid, arm, held, payload >>
    BY <1>11, Zenon DEF ServeClearOctomap
  <2>3. Active("clear_octomap") /\ ~Finished("clear_octomap")
    BY <1>11, <1>a, WorkingActive DEF ServeClearOctomap
  <2>4. CallsInv' /\ Answers("clear_octomap", reply)
    BY <1>a, <2>1, <2>3, ReplyCalls
  <2>5. current_state \in {"closeGripper"}
    BY <1>a, <2>4 DEF CallsOf, EntryCall, TypeOK, States, Answers
  <2>6. CloseInv'
    BY <1>r, <2>1, <2>2, <2>3, <2>4 DEF CloseInv, FullHands, Answers
  <2> QED
    BY <2>4, <2>5, <2>6
       DEF Answers, AboveHoleInv, AttachInv, CarryInv, FindInv, HomeInv, NullInv, OpenInv, ReachInv, ToParkingInv, WaitInv
<1>12. CASE ServeLock
  <2>1. PICK reply \in Replies :
          /\ Reply("lock_base", reply)
          /\ \/ reply = Yes /\ base_locked'
             \/ reply = NoReply
    BY <1>12, <1>r, Zenon DEF ServeLock
  <2>2. UNCHANGED << base, pose_valid, arm, held, payload, stale_voxels >>
    BY <1>12, Zenon DEF ServeLock
  <2>3. Active("lock_base") /\ ~Finished("lock_base")
    BY <1>12, <1>a, WorkingActive DEF ServeLock
  <2>4. CallsInv' /\ Answers("lock_base", reply)
    BY <1>a, <2>1, <2>3, ReplyCalls
  <2>5. current_state \in {"findGraspPose"}
    BY <1>a, <2>4 DEF CallsOf, EntryCall, TypeOK, States, Answers
  <2>6. FindInv'
    BY <1>r, <2>1, <2>2, <2>3, <2>4 DEF FindInv, AtShelf, EmptyHands, Answers
  <2> QED
    BY <2>4, <2>5, <2>6
       DEF Answers, AboveHoleInv, AttachInv, CarryInv, CloseInv, HomeInv, NullInv, OpenInv, ReachInv, ToParkingInv, WaitInv
<1>13. CASE ServeUnlock
  <2>1. PICK reply \in Replies :
          /\ Reply("unlock_base", reply)
          /\ ~base_locked'
    BY <1>13, <1>r, Zenon DEF ServeUnlock
  <2>2. UNCHANGED << base, pose_valid, arm, held, payload, stale_voxels >>
    BY <1>13, Zenon DEF ServeUnlock
  <2>3. Active("unlock_base") /\ ~Finished("unlock_base")
    BY <1>13, <1>a, WorkingActive DEF ServeUnlock
  <2>4. CallsInv' /\ Answers("unlock_base", reply)
    BY <1>a, <2>1, <2>3, ReplyCalls
  <2>5. current_state \in {"closeGripper"}
    BY <1>a, <2>4 DEF CallsOf, EntryCall, TypeOK, States, Answers
  <2>6. CloseInv'
    BY <1>r, <2>1, <2>2, <2>3, <2>4 DEF CloseInv, FullHands, Answers
  <2> QED
    BY <2>4, <2>5, <2>6
       DEF Answers, AboveHoleInv, AttachInv, CarryInv, FindInv, HomeInv, NullInv, OpenInv, ReachInv, ToParkingInv, WaitInv
<1>1. CASE \E name \in Actions : AnswerGoal(name)
  <2>1. PICK name \in Actions, answer \in {"accepted", "rejected"} :
          /\ calls[name].phase = "sent"
          /\ calls' = [calls EXCEPT ![name].phase = answer]
          /\ UNCHANGED << current_state, shared, handler, unheard, world >>
    BY <1>1, Zenon DEF AnswerGoal
  <2>2. KeepsCalls
    BY <2>1 DEF KeepsCalls, TypeOK, Calls
  <2> QED
    BY <2>1, <2>2, KeptInv
<1>5. CASE CaptureShelf
  <2>1. /\ Working("provide_grasp_pose")
        /\ calls' = [calls EXCEPT !["provide_grasp_pose"].reply.pose = base.of]
        /\ UNCHANGED << current_state, shared, handler, unheard,
                        base, base_locked, arm, held, payload, stale_voxels >>
    BY <1>5, Zenon DEF CaptureShelf
  <2>2. pose_valid'
    BY <1>5, Zenon DEF CaptureShelf
  <2>3. Active("provide_grasp_pose") /\ ~Finished("provide_grasp_pose")
    BY <1>a, <2>1, WorkingActive
  <2>4. /\ calls'["provide_grasp_pose"].phase = calls["provide_grasp_pose"].phase
        /\ calls'["provide_grasp_pose"].reply.pose = base.of
        /\ \A other \in Names : other # "provide_grasp_pose" =>
             calls'[other] = calls[other]
    BY <1>a, <2>1 DEF TypeOK, Calls, Replies
  <2>5. CallsInv' /\ current_state = "findGraspPose"
        /\ \A other \in Names : other # "provide_grasp_pose" => ~Active(other)
    <3>1. /\ "provide_grasp_pose" \in CallsOf(current_state)
          /\ \A other \in Names : other # "provide_grasp_pose" => ~Active(other)
      BY <1>a, <2>3 DEF CallsInv
    <3>2. current_state = "findGraspPose"
      BY <1>a, <3>1 DEF CallsOf, EntryCall, TypeOK, States
    <3>3. CallsInv'
      BY <1>a, <2>1, <2>4 DEF CallsInv
    <3> QED
      BY <3>1, <3>2, <3>3
  <2>6. FindInv'
    BY <2>1, <2>2, <2>3, <2>4, <2>5 DEF FindInv, AtShelf, EmptyHands, AtParking
  <2> QED
    BY <2>1, <2>5, <2>6
       DEF NullInv, HomeInv, WaitInv, ToParkingInv, ReachInv, CloseInv,
           AttachInv, CarryInv, AboveHoleInv, OpenInv
<1>6. CASE ServeGraspPose
  <2> DEFINE pose == calls["provide_grasp_pose"].reply.pose
             found == [Yes EXCEPT !.pose = pose]
  <2>0. found \in Replies /\ found.pose = pose /\ found.success
    BY <1>a, <1>r DEF TypeOK, Calls, Replies
  <2>1. PICK reply \in Replies :
          /\ Reply("provide_grasp_pose", reply)
          /\ \/ reply.pose = pose /\ pose # NoParking
             \/ reply = NoReply
    BY <1>6, <1>r, <2>0, Zenon DEF ServeGraspPose
  <2>2. UNCHANGED world
    BY <1>6, Zenon DEF ServeGraspPose
  <2>3. Active("provide_grasp_pose") /\ ~Finished("provide_grasp_pose")
    BY <1>6, <1>a, WorkingActive DEF ServeGraspPose
  <2>4. CallsInv' /\ Answers("provide_grasp_pose", reply)
    BY <1>a, <2>1, <2>3, ReplyCalls
  <2>5. current_state = "findGraspPose"
    BY <1>a, <2>4 DEF CallsOf, EntryCall, TypeOK, States, Answers
  <2>6. FindInv'
    BY <1>r, <2>1, <2>2, <2>3, <2>4
       DEF FindInv, AtShelf, EmptyHands, Answers, world
  <2> QED
    BY <2>2, <2>4, <2>5, <2>6
       DEF Answers, world, NullInv, HomeInv, WaitInv, ToParkingInv, ReachInv,
           CloseInv, AttachInv, CarryInv, AboveHoleInv, OpenInv
<1> QED
  BY <1>1, <1>2, <1>3, <1>4, <1>5, <1>6, <1>7, <1>8, <1>9, <1>10, <1>11,
     <1>12, <1>13 DEF Server

-----------------------------------------------------------------------------
(* The inductive invariant: the node.                                      *)

\* No call but "name" is under way.
Alone(name) == \A other \in Names : other # name => ~Active(other)

\* The one call under way is the entry call of the state "s", just made.
Entered(s) ==
  /\ CallsInv
  /\ \A name \in Names : name # EntryCall[s] => ~Active(name)
  /\ EntryCall[s] # "none" =>
       /\ Active(EntryCall[s]) /\ ~Finished(EntryCall[s])
       /\ calls[EntryCall[s]].reply = NoReply

\* An answer that is delivered finds the machine in the state that asked, and
\* no other call under way.
LEMMA DeliveredAlone ==
  ASSUME CallsInv, NEW name \in Names, NEW s \in States, Delivered(name, s)
  PROVE  current_state = s /\ Finished(name) /\ Alone(name)
BY DEF CallsInv, Delivered, Finished, Active, Alone

\* Once the one call under way is answered, there is none.
LEMMA AnsweredNone ==
  ASSUME TypeOK, NEW name \in Names, Alone(name)
  PROVE  \A other \in Names : Answered(name)[other].phase = "none"
BY DEF TypeOK, Alone, Active, Answered, NoCall

\* The call of an on_entry is then the only one.
LEMMA EnterCalls ==
  ASSUME TypeOK, NEW next \in States, NEW data \in SharedData,
         NEW left \in [Names -> Calls], \A name \in Names : left[name].phase = "none",
         ~EntryRefused(next, data), ChangeState(next, data, left)
  PROVE  /\ current_state' = next
         /\ shared' = EntryData(next, data)
         /\ Entered(next)'
         /\ EntryCall[next] # "none" =>
              calls'[EntryCall[next]].target = EntryTarget(next, data)
<1>1. /\ current_state' = next
      /\ shared' = EntryData(next, data)
  BY DEF ChangeState
<1>2. EntryCall[next] \in Names \cup {"none"} /\ "none" \notin Names
  BY EntryTypes DEF Names, Actions, Services
<1>3. CASE EntryCall[next] = "none"
  <2>1. calls' = left
    BY <1>3 DEF ChangeState
  <2> QED
    BY <1>1, <1>3, <2>1 DEF Entered, CallsInv, Active
<1>4. CASE EntryCall[next] # "none"
  <2>1. Invoke(EntryCall[next], next, EntryTarget(next, data), left)
    BY <1>4 DEF ChangeState
  <2>2. PICK phase \in {"waiting", "sent"} :
          calls' = [left EXCEPT ![EntryCall[next]] =
                      [phase |-> phase, target |-> EntryTarget(next, data),
                       reply |-> NoReply]]
    BY <2>1 DEF Invoke
  <2>3. handler'[EntryCall[next]] = next
    BY <1>2, <1>4, <2>1 DEF Invoke, TypeOK
  <2>4. /\ calls'[EntryCall[next]].phase = phase
        /\ calls'[EntryCall[next]].reply = NoReply
        /\ calls'[EntryCall[next]].target = EntryTarget(next, data)
        /\ \A name \in Names : name # EntryCall[next] => calls'[name].phase = "none"
    BY <1>2, <1>4, <2>2
  <2>5. EntryCall[next] \in CallsOf(next)
    BY DEF CallsOf, EntryCall
  <2> QED
    BY <1>1, <2>2, <2>3, <2>4, <2>5 DEF Entered, CallsInv, Active, Finished
<1> QED
  BY <1>3, <1>4

\* A handler that goes on leaves the entry call of the next state alone.
LEMMA EnterNext ==
  ASSUME TypeOK, NEW name \in Names, Alone(name), NEW next \in States,
         NEW data \in SharedData, ~EntryRefused(next, data),
         ChangeState(next, data, Answered(name))
  PROVE  /\ current_state' = next
         /\ shared' = EntryData(next, data)
         /\ Entered(next)'
         /\ EntryCall[next] # "none" =>
              calls'[EntryCall[next]].target = EntryTarget(next, data)
BY AnsweredType, AnsweredNone, EnterCalls

\* A handler that makes its state's next call leaves that call alone.
LEMMA NextCalls ==
  ASSUME TypeOK, NEW name \in Names, Alone(name), NEW next \in Names, next # name,
         NEW data \in SharedData, next \in CallsOf(current_state),
         CallNext(name, next, data)
  PROVE  /\ UNCHANGED current_state
         /\ shared' = data
         /\ CallsInv'
         /\ Active(next)' /\ ~Finished(next)'
         /\ calls'[next].reply = NoReply
         /\ Alone(next)'
<1>1. /\ UNCHANGED current_state
      /\ shared' = data
      /\ Invoke(next, current_state, Elsewhere, Answered(name))
  BY DEF CallNext
<1>2. PICK phase \in {"waiting", "sent"} :
        calls' = [Answered(name) EXCEPT ![next] =
                    [phase |-> phase, target |-> Elsewhere, reply |-> NoReply]]
  BY <1>1 DEF Invoke
<1>3. Answered(name) \in [Names -> Calls]
  BY AnsweredType
<1>4. \A other \in Names : Answered(name)[other].phase = "none"
  BY AnsweredNone
<1>5. /\ calls'[next].phase = phase
      /\ calls'[next].reply = NoReply
      /\ \A other \in Names : other # next => calls'[other].phase = "none"
  BY <1>2, <1>3, <1>4
<1>6. handler'[next] = current_state
  BY <1>1 DEF Invoke, TypeOK
<1> QED
  BY <1>1, <1>2, <1>5, <1>6 DEF CallsInv, Active, Finished, Alone

\* In every state of the machine the invariant names the food that is held.
LEMMA HeldIsOrder ==
  ASSUME IInv
  PROVE  HeldFoodIsTheOrder
BY DEF IInv, TypeOK, States, HeldFoodIsTheOrder, EmptyHands, FullHands, NullInv,
       HomeInv, WaitInv, ToParkingInv, FindInv, ReachInv, CloseInv, AttachInv,
       CarryInv, AboveHoleInv, OpenInv, Active

\* In the null state nothing is asked of the robot.
LEMMA HaltInv ==
  ASSUME IInv, TypeOK', NEW name \in Names, Alone(name),
         ChangeState("nullState", shared, Answered(name)), UNCHANGED world
  PROVE  IInv'
<1>1. TypeOK /\ shared \in SharedData /\ "nullState" \in States
  BY DEF IInv, TypeOK, States
<1>2. ~EntryRefused("nullState", shared) /\ EntryData("nullState", shared) = shared
  BY DEF EntryRefused, EntryData
<1>3. /\ current_state' = "nullState"
      /\ shared' = shared
      /\ CallsInv'
  BY <1>1, <1>2, EnterNext DEF Entered
<1>4. NullInv'
  BY <1>3, HeldIsOrder DEF NullInv, HeldFoodIsTheOrder, world
<1> QED
  BY <1>3, <1>4
     DEF IInv, HomeInv, WaitInv, ToParkingInv, FindInv, ReachInv, CloseInv,
         AttachInv, CarryInv, AboveHoleInv, OpenInv

\* The callbacks that leave a state, or make its next call: what the answer
\* says of the robot is what the next state, or call, starts from.
LEMMA CallbackInv ==
  ASSUME IInv, TypeOK', Tick \/ (ResultHandler /\ ~OctomapCleared)
  PROVE  IInv'
<1> USE DEF Names, Actions, Services
<1>a. TypeOK /\ CallsInv /\ shared \in SharedData
  BY DEF IInv, TypeOK
<1>1. CASE Tick
  <2>1. /\ current_state = "waitFoodRequest" /\ shared.parking_number # NoParking
        /\ ChangeState("navigateToParking", shared, calls) /\ UNCHANGED world
    BY <1>1, Zenon DEF Tick
  <2>2. \A name \in Names : calls[name].phase = "none"
    BY <1>a, <2>1 DEF CallsInv, CallsOf, EntryCall
  <2>3. /\ ~EntryRefused("navigateToParking", shared)
        /\ EntryData("navigateToParking", shared) = shared
        /\ EntryTarget("navigateToParking", shared) = AtParking(shared.parking_number)
    BY <2>1 DEF EntryRefused, EntryData, EntryTarget
  <2>4. /\ current_state' = "navigateToParking"
        /\ shared' = shared
        /\ CallsInv'
        /\ ~Finished("navigate_to_pose")'
        /\ calls'["navigate_to_pose"].target = AtParking(shared.parking_number)
    BY <1>a, <2>1, <2>2, <2>3, EnterCalls DEF TypeOK, Entered, EntryCall, States
  <2>5. ToParkingInv'
    BY <2>1, <2>4 DEF IInv, WaitInv, ToParkingInv, EmptyHands, Succeeded, world
  <2> QED
    BY <2>4, <2>5
       DEF IInv, NullInv, HomeInv, WaitInv, FindInv, ReachInv, CloseInv,
           AttachInv, CarryInv, AboveHoleInv, OpenInv
<1>2. CASE MoveToHomeResult
  <2>1. Delivered("move_arm_to_home", "moveToHome") /\ UNCHANGED world
    BY <1>2, Zenon DEF MoveToHomeResult
  <2>2. /\ current_state = "moveToHome"
        /\ Finished("move_arm_to_home") /\ Alone("move_arm_to_home")
    BY <1>a, <2>1, DeliveredAlone DEF States
  <2>3. CASE calls["move_arm_to_home"].reply.success /\ shared.object_gripped
    <3>1. ChangeState("navigateToHole", shared, Answered("move_arm_to_home"))
      BY <1>2, <2>3, Zenon DEF MoveToHomeResult, Continue
    <3>2. /\ ~EntryRefused("navigateToHole", shared)
          /\ EntryData("navigateToHole", shared) = shared
      BY <2>2, <2>3 DEF EntryRefused, EntryData, IInv, HomeInv, EmptyHands, FullHands
    <3>3. /\ current_state' = "navigateToHole"
          /\ shared' = shared
          /\ CallsInv'
      BY <1>a, <2>2, <3>1, <3>2, EnterNext DEF Entered, EntryCall, States
    <3>4. CarryInv'
      BY <2>1, <2>2, <2>3, <3>3
      DEF IInv, CarryInv, HomeInv, EmptyHands, FullHands, world
    <3> QED
      BY <3>3, <3>4
      DEF IInv, NullInv, HomeInv, WaitInv, ToParkingInv, FindInv, ReachInv,
          CloseInv, AttachInv, AboveHoleInv, OpenInv
  <2>4. CASE calls["move_arm_to_home"].reply.success /\ ~shared.object_gripped
    <3>1. ChangeState("waitFoodRequest", shared, Answered("move_arm_to_home"))
      BY <1>2, <2>4, Zenon DEF MoveToHomeResult, Continue
    <3>2. /\ ~EntryRefused("waitFoodRequest", shared)
          /\ EntryData("waitFoodRequest", shared) = shared
      BY <2>2, <2>4 DEF EntryRefused, EntryData
    <3>3. /\ current_state' = "waitFoodRequest"
          /\ shared' = shared
          /\ CallsInv'
      BY <1>a, <2>2, <3>1, <3>2, EnterNext DEF Entered, EntryCall, States
    <3>4. WaitInv'
      BY <2>1, <2>2, <2>4, <3>3
      DEF IInv, WaitInv, HomeInv, EmptyHands, FullHands, world
    <3> QED
      BY <3>3, <3>4
      DEF IInv, NullInv, HomeInv, ToParkingInv, FindInv, ReachInv, CloseInv,
          AttachInv, CarryInv, AboveHoleInv, OpenInv
  <2>5. CASE ~calls["move_arm_to_home"].reply.success
    <3>1. ChangeState("nullState", shared, Answered("move_arm_to_home"))
      BY <1>2, <2>5, Zenon DEF MoveToHomeResult, Continue
    <3> QED
      BY <2>1, <2>2, <3>1, HaltInv
  <2> QED
    BY <2>3, <2>4, <2>5
<1>3. CASE NavigateToParkingResult
  <2>1. Delivered("navigate_to_pose", "navigateToParking") /\ UNCHANGED world
    BY <1>3, Zenon DEF NavigateToParkingResult
  <2>2. /\ current_state = "navigateToParking"
        /\ Finished("navigate_to_pose") /\ Alone("navigate_to_pose")
    BY <1>a, <2>1, DeliveredAlone DEF States
  <2>3. CASE calls["navigate_to_pose"].reply.success
    <3>1. ChangeState("findGraspPose", shared, Answered("navigate_to_pose"))
      BY <1>3, <2>3, Zenon DEF NavigateToParkingResult, Continue
    <3>2. /\ ~EntryRefused("findGraspPose", shared)
          /\ EntryData("findGraspPose", shared) = [shared EXCEPT !.grasp_pose = NoParking]
      BY <2>2, <2>3 DEF EntryRefused, EntryData
    <3>3. /\ current_state' = "findGraspPose"
          /\ shared' = [shared EXCEPT !.grasp_pose = NoParking]
          /\ CallsInv'
          /\ Active("lock_base")' /\ ~Finished("lock_base")'
          /\ ~Active("provide_grasp_pose")'
      BY <1>a, <2>2, <3>1, <3>2, EnterNext DEF Entered, EntryCall, States
    <3>4. FindInv'
      BY <2>1, <2>2, <2>3, <1>a, <3>3
      DEF IInv, FindInv, ToParkingInv, AtShelf, EmptyHands, Succeeded,
          SharedData, world
    <3> QED
      BY <3>3, <3>4
      DEF IInv, NullInv, HomeInv, WaitInv, ToParkingInv, ReachInv, CloseInv,
          AttachInv, CarryInv, AboveHoleInv, OpenInv
  <2>4. CASE ~(calls["navigate_to_pose"].reply.success)
    <3>1. ChangeState("nullState", shared, Answered("navigate_to_pose"))
      BY <1>3, <2>4, Zenon DEF NavigateToParkingResult, Continue
    <3> QED
      BY <2>1, <2>2, <3>1, HaltInv
  <2> QED
    BY <2>3, <2>4
<1>4. CASE BaseLocked
  <2>1. Delivered("lock_base", "findGraspPose") /\ UNCHANGED world
    BY <1>4, Zenon DEF BaseLocked
  <2>2. /\ current_state = "findGraspPose"
        /\ Finished("lock_base") /\ Alone("lock_base")
    BY <1>a, <2>1, DeliveredAlone DEF States
  <2>3. CASE calls["lock_base"].reply.success
    <3>1. CallNext("lock_base", "provide_grasp_pose", shared)
      BY <1>4, <2>3, Zenon DEF BaseLocked
    <3>2. shared \in SharedData /\ "provide_grasp_pose" \in CallsOf(current_state)
      BY <1>a, <2>2, DataType DEF CallsOf
    <3>3. /\ UNCHANGED current_state
          /\ shared' = shared
          /\ CallsInv'
          /\ Active("provide_grasp_pose")' /\ ~Finished("provide_grasp_pose")'
          /\ calls'["provide_grasp_pose"].reply = NoReply
          /\ Alone("provide_grasp_pose")'
      BY <1>a, <2>2, <3>1, <3>2, NextCalls
    <3>4. FindInv'
      BY <1>a, <2>1, <2>2, <2>3, <3>3
         DEF IInv, FindInv, AtShelf, EmptyHands, Alone, Finished, Succeeded,
             NoReply, world
    <3> QED
      BY <2>2, <3>3, <3>4
         DEF IInv, NullInv, HomeInv, WaitInv, ToParkingInv, ReachInv,
             CloseInv, AttachInv, CarryInv, AboveHoleInv, OpenInv
  <2>4. CASE ~(calls["lock_base"].reply.success)
    <3>1. ChangeState("nullState", shared, Answered("lock_base"))
      BY <1>4, <2>4, Zenon DEF BaseLocked
    <3> QED
      BY <2>1, <2>2, <3>1, HaltInv
  <2> QED
    BY <2>3, <2>4
<1>5. CASE GraspPoseResult
  <2>1. Delivered("provide_grasp_pose", "findGraspPose") /\ UNCHANGED world
    BY <1>5, Zenon DEF GraspPoseResult
  <2>2. /\ current_state = "findGraspPose"
        /\ Finished("provide_grasp_pose") /\ Alone("provide_grasp_pose")
    BY <1>a, <2>1, DeliveredAlone DEF States
  <2>3. CASE calls["provide_grasp_pose"].reply.success
    <3>1. ChangeState("moveArmToPose", [shared EXCEPT !.grasp_pose = calls["provide_grasp_pose"].reply.pose], Answered("provide_grasp_pose"))
      BY <1>5, <2>3, Zenon DEF GraspPoseResult, Continue
    <3>2. /\ ~EntryRefused("moveArmToPose", [shared EXCEPT !.grasp_pose = calls["provide_grasp_pose"].reply.pose])
          /\ EntryData("moveArmToPose", [shared EXCEPT !.grasp_pose = calls["provide_grasp_pose"].reply.pose]) = [shared EXCEPT !.grasp_pose = calls["provide_grasp_pose"].reply.pose]
          /\ EntryTarget("moveArmToPose", [shared EXCEPT !.grasp_pose = calls["provide_grasp_pose"].reply.pose]) = AtParking(shared.parking_number)
      BY <2>2, <2>3, <1>a DEF EntryRefused, EntryData, EntryTarget, IInv, FindInv, TypeOK, SharedData, Active, Finished, Succeeded
    <3>3. [shared EXCEPT !.grasp_pose = calls["provide_grasp_pose"].reply.pose] \in SharedData
      BY <1>a, DataType DEF TypeOK, Calls, Replies
    <3>4. /\ current_state' = "moveArmToPose"
          /\ shared' = [shared EXCEPT !.grasp_pose = calls["provide_grasp_pose"].reply.pose]
          /\ CallsInv'
          /\ Active("move_arm_to_pose")' /\ ~Finished("move_arm_to_pose")'
          /\ calls'["move_arm_to_pose"].target = AtParking(shared.parking_number)
      BY <1>a, <2>2, <3>1, <3>2, <3>3, EnterNext DEF Entered, EntryCall, States
    <3>5. ReachInv'
      BY <2>1, <2>2, <2>3, <3>4
      DEF IInv, ReachInv, FindInv, AtShelf, EmptyHands, Active, Finished,
          Succeeded, TypeOK, SharedData, world
    <3> QED
      BY <3>4, <3>5
      DEF IInv, NullInv, HomeInv, WaitInv, ToParkingInv, FindInv, CloseInv,
          AttachInv, CarryInv, AboveHoleInv, OpenInv
  <2>4. CASE ~(calls["provide_grasp_pose"].reply.success)
    <3>1. ChangeState("nullState", shared, Answered("provide_grasp_pose"))
      BY <1>5, <2>4, Zenon DEF GraspPoseResult, Continue
    <3> QED
      BY <2>1, <2>2, <3>1, HaltInv
  <2> QED
    BY <2>3, <2>4
<1>6. CASE MoveArmToPoseResult
  <2>1. Delivered("move_arm_to_pose", "moveArmToPose") /\ UNCHANGED world
    BY <1>6, Zenon DEF MoveArmToPoseResult
  <2>2. /\ current_state = "moveArmToPose"
        /\ Finished("move_arm_to_pose") /\ Alone("move_arm_to_pose")
    BY <1>a, <2>1, DeliveredAlone DEF States
  <2>3. CASE calls["move_arm_to_pose"].reply.success
    <3>1. ChangeState("closeGripper", shared, Answered("move_arm_to_pose"))
      BY <1>6, <2>3, Zenon DEF MoveArmToPoseResult, Continue
    <3>2. /\ ~EntryRefused("closeGripper", shared)
          /\ EntryData("closeGripper", shared) = [shared EXCEPT !.object_gripped = FALSE]
      BY <2>2, <2>3 DEF EntryRefused, EntryData
    <3>3. /\ current_state' = "closeGripper"
          /\ shared' = [shared EXCEPT !.object_gripped = FALSE]
          /\ CallsInv'
          /\ Active("close_gripper")' /\ ~Finished("close_gripper")'
          /\ ~Active("clear_octomap")'
          /\ ~Active("unlock_base")'
      BY <1>a, <2>2, <3>1, <3>2, EnterNext DEF Entered, EntryCall, States
    <3>4. CloseInv'
      BY <2>1, <2>2, <2>3, <1>a, <3>3
      DEF IInv, CloseInv, ReachInv, AtShelf, EmptyHands, Finished, Succeeded,
          SharedData, Active, world
    <3> QED
      BY <3>3, <3>4
      DEF IInv, NullInv, HomeInv, WaitInv, ToParkingInv, FindInv, ReachInv,
          AttachInv, CarryInv, AboveHoleInv, OpenInv
  <2>4. CASE ~(calls["move_arm_to_pose"].reply.success)
    <3>1. ChangeState("nullState", shared, Answered("move_arm_to_pose"))
      BY <1>6, <2>4, Zenon DEF MoveArmToPoseResult, Continue
    <3> QED
      BY <2>1, <2>2, <3>1, HaltInv
  <2> QED
    BY <2>3, <2>4
<1>7. CASE CloseGripperResult
  <2>1. Delivered("close_gripper", "closeGripper") /\ UNCHANGED world
    BY <1>7, Zenon DEF CloseGripperResult
  <2>2. /\ current_state = "closeGripper"
        /\ Finished("close_gripper") /\ Alone("close_gripper")
    BY <1>a, <2>1, DeliveredAlone DEF States
  <2>3. CASE ~calls["close_gripper"].reply.success /\ calls["close_gripper"].reply.stalled
    <3>1. CallNext("close_gripper", "clear_octomap", [shared EXCEPT !.object_gripped = TRUE])
      BY <1>7, <2>3, Zenon DEF CloseGripperResult
    <3>2. [shared EXCEPT !.object_gripped = TRUE] \in SharedData /\ "clear_octomap" \in CallsOf(current_state)
      BY <1>a, <2>2, DataType DEF CallsOf
    <3>3. /\ UNCHANGED current_state
          /\ shared' = [shared EXCEPT !.object_gripped = TRUE]
          /\ CallsInv'
          /\ Active("clear_octomap")' /\ ~Finished("clear_octomap")'
          /\ calls'["clear_octomap"].reply = NoReply
          /\ Alone("clear_octomap")'
      BY <1>a, <2>2, <3>1, <3>2, NextCalls
    <3>4. CloseInv'
      BY <1>a, <2>1, <2>2, <2>3, <3>3
         DEF IInv, CloseInv, FullHands, Alone, Active, Finished, Succeeded,
             SharedData, NoParking, world
    <3> QED
      BY <2>2, <3>3, <3>4
         DEF IInv, NullInv, HomeInv, WaitInv, ToParkingInv, FindInv, ReachInv,
             AttachInv, CarryInv, AboveHoleInv, OpenInv
  <2>4. CASE ~(~calls["close_gripper"].reply.success /\ calls["close_gripper"].reply.stalled)
    <3>1. ChangeState("nullState", shared, Answered("close_gripper"))
      BY <1>7, <2>4, Zenon DEF CloseGripperResult
    <3> QED
      BY <2>1, <2>2, <3>1, HaltInv
  <2> QED
    BY <2>3, <2>4
<1>8. CASE BaseUnlocked
  <2>1. Delivered("unlock_base", "closeGripper") /\ UNCHANGED world
    BY <1>8, Zenon DEF BaseUnlocked
  <2>2. /\ current_state = "closeGripper"
        /\ Finished("unlock_base") /\ Alone("unlock_base")
    BY <1>a, <2>1, DeliveredAlone DEF States
  <2> QED
    <3>1. ChangeState("attachObjectToGripper", shared, Answered("unlock_base"))
      BY <1>8, Zenon DEF BaseUnlocked
    <3>2. /\ ~EntryRefused("attachObjectToGripper", shared)
          /\ EntryData("attachObjectToGripper", shared) = shared
      BY <2>2 DEF EntryRefused, EntryData
    <3>3. /\ current_state' = "attachObjectToGripper"
          /\ shared' = shared
          /\ CallsInv'
          /\ Active("attach_object")' /\ ~Finished("attach_object")'
      BY <1>a, <2>2, <3>1, <3>2, EnterNext DEF Entered, EntryCall, States
    <3>4. AttachInv'
      BY <2>1, <2>2, <3>3
      DEF IInv, AttachInv, CloseInv, FullHands, Active, Finished, Alone,
          Succeeded, world
    <3> QED
      BY <3>3, <3>4
      DEF IInv, NullInv, HomeInv, WaitInv, ToParkingInv, FindInv, ReachInv,
          CloseInv, CarryInv, AboveHoleInv, OpenInv
<1>9. CASE ObjectAttached
  <2>1. Delivered("attach_object", "attachObjectToGripper") /\ UNCHANGED world
    BY <1>9, Zenon DEF ObjectAttached
  <2>2. /\ current_state = "attachObjectToGripper"
        /\ Finished("attach_object") /\ Alone("attach_object")
    BY <1>a, <2>1, DeliveredAlone DEF States
  <2>3. CASE calls["attach_object"].reply.success
    <3>1. ChangeState("moveToHome", shared, Answered("attach_object"))
      BY <1>9, <2>3, Zenon DEF ObjectAttached, Continue
    <3>2. /\ ~EntryRefused("moveToHome", shared)
          /\ EntryData("moveToHome", shared) = shared
      BY <2>2, <2>3 DEF EntryRefused, EntryData
    <3>3. /\ current_state' = "moveToHome"
          /\ shared' = shared
          /\ CallsInv'
          /\ Active("move_arm_to_home")' /\ ~Finished("move_arm_to_home")'
      BY <1>a, <2>2, <3>1, <3>2, EnterNext DEF Entered, EntryCall, States
    <3>4. HomeInv'
      BY <2>1, <2>2, <2>3, <3>3
      DEF IInv, HomeInv, AttachInv, FullHands, Finished, Succeeded, world
    <3> QED
      BY <3>3, <3>4
      DEF IInv, NullInv, WaitInv, ToParkingInv, FindInv, ReachInv, CloseInv,
          AttachInv, CarryInv, AboveHoleInv, OpenInv
  <2>4. CASE ~(calls["attach_object"].reply.success)
    <3>1. ChangeState("nullState", shared, Answered("attach_object"))
      BY <1>9, <2>4, Zenon DEF ObjectAttached, Continue
    <3> QED
      BY <2>1, <2>2, <3>1, HaltInv
  <2> QED
    BY <2>3, <2>4
<1>10. CASE NavigateToHoleResult
  <2>1. Delivered("navigate_to_pose", "navigateToHole") /\ UNCHANGED world
    BY <1>10, Zenon DEF NavigateToHoleResult
  <2>2. /\ current_state = "navigateToHole"
        /\ Finished("navigate_to_pose") /\ Alone("navigate_to_pose")
    BY <1>a, <2>1, DeliveredAlone DEF States
  <2> QED
    <3>1. ChangeState("moveArmToHolePose", shared, Answered("navigate_to_pose"))
      BY <1>10, Zenon DEF NavigateToHoleResult
    <3>2. /\ ~EntryRefused("moveArmToHolePose", shared)
          /\ EntryData("moveArmToHolePose", shared) = shared
          /\ EntryTarget("moveArmToHolePose", shared) = AtHole(shared.parking_number)
      BY <2>2 DEF EntryRefused, EntryData, EntryTarget, IInv, CarryInv, FullHands
    <3>3. /\ current_state' = "moveArmToHolePose"
          /\ shared' = shared
          /\ CallsInv'
          /\ Active("move_arm_to_pose")' /\ ~Finished("move_arm_to_pose")'
          /\ calls'["move_arm_to_pose"].target = AtHole(shared.parking_number)
      BY <1>a, <2>2, <3>1, <3>2, EnterNext DEF Entered, EntryCall, States
    <3>4. CarryInv'
      BY <2>1, <2>2, <3>3
      DEF IInv, CarryInv, FullHands, world
    <3>5. AboveHoleInv'
      BY <2>1, <2>2, <3>3
      DEF IInv, AboveHoleInv, Succeeded
    <3> QED
      BY <3>3, <3>4, <3>5
      DEF IInv, NullInv, HomeInv, WaitInv, ToParkingInv, FindInv, ReachInv,
          CloseInv, AttachInv, OpenInv
<1>11. CASE MoveArmToHolePoseResult
  <2>1. Delivered("move_arm_to_pose", "moveArmToHolePose") /\ UNCHANGED world
    BY <1>11, Zenon DEF MoveArmToHolePoseResult
  <2>2. /\ current_state = "moveArmToHolePose"
        /\ Finished("move_arm_to_pose") /\ Alone("move_arm_to_pose")
    BY <1>a, <2>1, DeliveredAlone DEF States
  <2>3. CASE calls["move_arm_to_pose"].reply.success
    <3>1. ChangeState("openGripper", shared, Answered("move_arm_to_pose"))
      BY <1>11, <2>3, Zenon DEF MoveArmToHolePoseResult, Continue
    <3>2. /\ ~EntryRefused("openGripper", shared)
          /\ EntryData("openGripper", shared) = shared
      BY <2>2, <2>3 DEF EntryRefused, EntryData
    <3>3. /\ current_state' = "openGripper"
          /\ shared' = shared
          /\ CallsInv'
          /\ Active("open_gripper")' /\ ~Finished("open_gripper")'
          /\ ~Active("detach_object")'
      BY <1>a, <2>2, <3>1, <3>2, EnterNext DEF Entered, EntryCall, States
    <3>4. OpenInv'
      BY <2>1, <2>2, <2>3, <3>3
      DEF IInv, OpenInv, CarryInv, AboveHoleInv, FullHands, Active, Finished,
          Succeeded, NoParking, world
    <3> QED
      BY <3>3, <3>4
      DEF IInv, NullInv, HomeInv, WaitInv, ToParkingInv, FindInv, ReachInv,
          CloseInv, AttachInv, CarryInv, AboveHoleInv
  <2>4. CASE ~(calls["move_arm_to_pose"].reply.success)
    <3>1. ChangeState("nullState", shared, Answered("move_arm_to_pose"))
      BY <1>11, <2>4, Zenon DEF MoveArmToHolePoseResult, Continue
    <3> QED
      BY <2>1, <2>2, <3>1, HaltInv
  <2> QED
    BY <2>3, <2>4
<1>12. CASE OpenGripperResult
  <2>1. Delivered("open_gripper", "openGripper") /\ UNCHANGED world
    BY <1>12, Zenon DEF OpenGripperResult
  <2>2. /\ current_state = "openGripper"
        /\ Finished("open_gripper") /\ Alone("open_gripper")
    BY <1>a, <2>1, DeliveredAlone DEF States
  <2>3. CASE calls["open_gripper"].reply.success
    <3>1. CallNext("open_gripper", "detach_object", [shared EXCEPT !.object_gripped = FALSE])
      BY <1>12, <2>3, Zenon DEF OpenGripperResult
    <3>2. [shared EXCEPT !.object_gripped = FALSE] \in SharedData /\ "detach_object" \in CallsOf(current_state)
      BY <1>a, <2>2, DataType DEF CallsOf
    <3>3. /\ UNCHANGED current_state
          /\ shared' = [shared EXCEPT !.object_gripped = FALSE]
          /\ CallsInv'
          /\ Active("detach_object")' /\ ~Finished("detach_object")'
          /\ calls'["detach_object"].reply = NoReply
          /\ Alone("detach_object")'
      BY <1>a, <2>2, <3>1, <3>2, NextCalls
    <3>4. OpenInv'
      BY <1>a, <2>1, <2>2, <2>3, <3>3
         DEF IInv, OpenInv, Alone, Active, Finished, Succeeded, SharedData,
             world
    <3> QED
      BY <2>2, <3>3, <3>4
         DEF IInv, NullInv, HomeInv, WaitInv, ToParkingInv, FindInv, ReachInv,
             CloseInv, AttachInv, CarryInv, AboveHoleInv
  <2>4. CASE ~(calls["open_gripper"].reply.success)
    <3>1. ChangeState("nullState", shared, Answered("open_gripper"))
      BY <1>12, <2>4, Zenon DEF OpenGripperResult
    <3> QED
      BY <2>1, <2>2, <3>1, HaltInv
  <2> QED
    BY <2>3, <2>4
<1>13. CASE ObjectDetached
  <2>1. Delivered("detach_object", "openGripper") /\ UNCHANGED world
    BY <1>13, Zenon DEF ObjectDetached
  <2>2. /\ current_state = "openGripper"
        /\ Finished("detach_object") /\ Alone("detach_object")
    BY <1>a, <2>1, DeliveredAlone DEF States
  <2>3. CASE calls["detach_object"].reply.success
    <3>1. ChangeState("moveToHome", [shared EXCEPT !.parking_number = NoParking], Answered("detach_object"))
      BY <1>13, <2>3, Zenon DEF ObjectDetached, Continue
    <3>2. /\ ~EntryRefused("moveToHome", [shared EXCEPT !.parking_number = NoParking])
          /\ EntryData("moveToHome", [shared EXCEPT !.parking_number = NoParking]) = [shared EXCEPT !.parking_number = NoParking]
      BY <2>2, <2>3 DEF EntryRefused, EntryData
    <3>3. [shared EXCEPT !.parking_number = NoParking] \in SharedData
      BY <1>a, DataType
    <3>4. /\ current_state' = "moveToHome"
          /\ shared' = [shared EXCEPT !.parking_number = NoParking]
          /\ CallsInv'
          /\ Active("move_arm_to_home")' /\ ~Finished("move_arm_to_home")'
      BY <1>a, <2>2, <3>1, <3>2, <3>3, EnterNext DEF Entered, EntryCall, States
    <3>5. HomeInv'
      BY <2>1, <2>2, <2>3, <1>a, <3>4
      DEF IInv, HomeInv, OpenInv, EmptyHands, Alone, Active, Finished,
          Succeeded, SharedData, world
    <3> QED
      BY <3>4, <3>5
      DEF IInv, NullInv, WaitInv, ToParkingInv, FindInv, ReachInv, CloseInv,
          AttachInv, CarryInv, AboveHoleInv, OpenInv
  <2>4. CASE ~(calls["detach_object"].reply.success)
    <3>1. ChangeState("nullState", shared, Answered("detach_object"))
      BY <1>13, <2>4, Zenon DEF ObjectDetached, Continue
    <3> QED
      BY <2>1, <2>2, <3>1, HaltInv
  <2> QED
    BY <2>3, <2>4
<1> QED
  BY <1>1, <1>2, <1>3, <1>4, <1>5, <1>6, <1>7, <1>8, <1>9, <1>10, <1>11,
     <1>12, <1>13, Zenon DEF ResultHandler

\* The node's callbacks leave the robot alone.
LEMMA NodeInv ==
  ASSUME IInv, TypeOK', Node
  PROVE  IInv'
<1> USE DEF IInv, Names, Actions, Services, Active, Finished, Succeeded,
            NoParking, Calls, Replies, SharedData
<1>1. CASE OctomapCleared
  <2>1. /\ Delivered("clear_octomap", "closeGripper") /\ UNCHANGED world
        /\ CallNext("clear_octomap", "unlock_base", shared)
    BY <1>1, Zenon DEF OctomapCleared
  <2>2. /\ current_state = "closeGripper"
        /\ calls["clear_octomap"].phase = "done" /\ Alone("clear_octomap")
    BY <2>1, DeliveredAlone DEF States
  <2>3. shared \in SharedData /\ "unlock_base" \in CallsOf(current_state)
    BY <2>2 DEF TypeOK, CallsOf
  <2>4. /\ UNCHANGED << current_state, shared >>
        /\ CallsInv'
        /\ Active("unlock_base")' /\ ~Finished("unlock_base")'
        /\ Alone("unlock_base")'
    BY <2>1, <2>2, <2>3, NextCalls
  <2>5. CloseInv'
    BY <2>1, <2>2, <2>4 DEF Alone, CloseInv, FullHands, world
  <2> QED
    BY <2>2, <2>4, <2>5
       DEF NullInv, HomeInv, WaitInv, ToParkingInv, FindInv, ReachInv,
           AttachInv, CarryInv, AboveHoleInv, OpenInv
<1>2. CASE \E name \in Actions : HandleGoalResponse(name)
  <2>1. PICK name \in Actions : HandleGoalResponse(name)
    BY <1>2
  <2>2. UNCHANGED world
    BY <2>1, Zenon DEF HandleGoalResponse
  <2>3. CASE calls[name].phase = "accepted"
    <3>1. /\ calls' = [calls EXCEPT ![name].phase = "running"]
          /\ UNCHANGED << current_state, shared, handler >>
      BY <2>1, <2>3 DEF HandleGoalResponse
    <3>2. calls[name].phase # "none" /\ calls[name].phase # "done"
      BY <2>3
    <3>3. KeepsCalls
      BY <3>1, <3>2 DEF KeepsCalls, TypeOK
    <3> QED
      BY <2>2, <3>1, <3>3, KeptInv
  <2>4. CASE calls[name].phase = "rejected"
    <3>1. ChangeState("nullState", shared, Answered(name))
      BY <2>1, <2>4 DEF HandleGoalResponse
    <3>2. Alone(name)
      BY <2>4 DEF CallsInv, Alone
    <3> QED
      BY <2>2, <3>1, <3>2, HaltInv
  <2> QED
    BY <2>1, <2>3, <2>4 DEF HandleGoalResponse
<1>3. CASE \E name \in Names : TryInvoke(name)
  <2>1. PICK name \in Names : TryInvoke(name)
    BY <1>3
  <2>2. /\ calls[name].phase = "waiting"
        /\ calls' = [calls EXCEPT ![name].phase = "sent"]
        /\ UNCHANGED << current_state, shared, handler, world >>
    BY <2>1, Zenon DEF TryInvoke
  <2>3. KeepsCalls
    BY <2>2 DEF KeepsCalls, TypeOK
  <2> QED
    BY <2>2, <2>3, KeptInv
<1> QED
  BY <1>1, <1>2, <1>3, CallbackInv DEF Node, ResultHandler

-----------------------------------------------------------------------------
(* The inductive invariant: its theorem.                                   *)

\* The invariant holds at first.
LEMMA InitInv == Init => IInv
<1> SUFFICES ASSUME Init PROVE IInv
  OBVIOUS
<1>1. TypeOK
  BY InitType
<1>2. current_state = "moveToHome" /\ ~base_locked /\ EmptyHands
  BY Zenon DEF Init, EmptyHands
<1>3. CallsInv
  BY DEF Init, CallsInv, CallsOf, EntryCall, NoCall, Names, Actions, Services
<1> QED
  BY <1>1, <1>2, <1>3
     DEF IInv, NullInv, HomeInv, WaitInv, ToParkingInv, FindInv, ReachInv,
         CloseInv, AttachInv, CarryInv, AboveHoleInv, OpenInv

\* Every step keeps the invariant.
LEMMA NextInv == IInv /\ [Next]_vars => IInv'
<1> SUFFICES ASSUME IInv, [Next]_vars PROVE IInv'
  OBVIOUS
<1>0. TypeOK'
  BY NextType DEF IInv
<1>1. CASE Node
  BY <1>0, <1>1, NodeInv
<1>2. CASE Server
  BY <1>0, <1>2, ServerInv
<1>3. CASE \E n \in RequestNumbers : RequestFood(n)
  <2>1. PICK n \in RequestNumbers : RequestFood(n)
    BY <1>3
  <2>2. CASE UNCHANGED vars
    BY <2>2, <1>0, KeptInv DEF vars, client, KeepsCalls
  <2>3. CASE shared.parking_number = NoParking
             /\ shared' = [shared EXCEPT !.parking_number = n]
             /\ UNCHANGED << current_state, client, world >>
    <3>1. /\ shared'.grasp_pose = shared.grasp_pose
          /\ shared'.object_gripped = shared.object_gripped
      BY <2>3 DEF IInv, TypeOK, SharedData
    <3>2. CallsInv'
      BY <2>3 DEF IInv, CallsInv, client, Active
    <3> QED
      BY <2>3, <3>1, <3>2, <1>0
         DEF client, world, Active, Finished, Succeeded, AtShelf, EmptyHands, FullHands,
             IInv, NullInv, HomeInv, WaitInv, ToParkingInv, FindInv, ReachInv,
             CloseInv, AttachInv, CarryInv, AboveHoleInv, OpenInv, NoParking
  <2> QED
    BY <2>1, <2>2, <2>3 DEF RequestFood
<1>4. CASE \E name \in Names : FutureFails(name)
  <2>1. UNCHANGED << current_state, shared, calls, handler, world >>
    BY <1>4, Zenon DEF FutureFails
  <2> QED
    BY <1>0, <2>1, KeptInv DEF KeepsCalls
<1>5. CASE ChassisDrifts
  <2>1. UNCHANGED << current_state, shared, client,
                     base, base_locked, arm, held, payload, stale_voxels >>
    BY <1>5, Zenon DEF ChassisDrifts
  <2>2. ~base_locked
    BY <1>5, Zenon DEF ChassisDrifts
  <2> QED
    BY <1>0, <2>1, <2>2
       DEF client, Active, Finished, Succeeded, AtShelf, EmptyHands, FullHands,
           IInv, CallsInv, NullInv, HomeInv, WaitInv, ToParkingInv, FindInv, ReachInv,
           CloseInv, AttachInv, CarryInv, AboveHoleInv, OpenInv
<1>6. CASE UNCHANGED vars
  BY <1>0, <1>6, KeptInv DEF vars, client, KeepsCalls
<1> QED
  BY <1>1, <1>2, <1>3, <1>4, <1>5, <1>6 DEF Next

\* Every state of the machine finds the robot as its place in the cycle says.
THEOREM CycleInvariant == Spec => []IInv
  BY InitInv, NextInv, PTL DEF Spec

-----------------------------------------------------------------------------
(* The safety properties.                                                  *)

\* A late answer never drives a state that has been left.
THEOREM NoStaleAnswer == Spec => []AnswersReachTheirState
<1>1. IInv => AnswersReachTheirState
  BY DEF IInv, CallsInv, AnswersReachTheirState, Outstanding
<1> QED BY <1>1, CycleInvariant, PTL

\* The grasp pose is still that of the food until the fingers have closed.
THEOREM GraspPoseHolds == Spec => []GraspPoseStaysValid
<1>1. IInv => GraspPoseStaysValid
  BY DEF IInv, GraspPoseStaysValid, ReachInv, CloseInv, FullHands, CallsInv,
         Active, Names, Actions, Services
<1> QED BY <1>1, CycleInvariant, PTL

\* The robot never drives while its chassis is pinned.
THEOREM NoPinnedDrive == Spec => []DrivesUnpinned
<1>1. IInv => DrivesUnpinned
  BY DEF IInv, DrivesUnpinned, CallsInv, CallsOf, ToParkingInv, CarryInv, EntryCall,
         TypeOK, States, Names, Actions, Services
<1> QED BY <1>1, CycleInvariant, PTL

\* The arm moves in a planning scene that agrees with the fingers.
THEOREM TrueScene == Spec => []ArmMovesInTrueScene
<1>1. IInv => ArmMovesInTrueScene
  <2> SUFFICES ASSUME IInv, NEW name \in {"move_arm_to_home", "move_arm_to_pose"},
                      calls[name].phase # "none"
               PROVE  (payload <=> held # NoParking) /\ ~stale_voxels
    BY DEF ArmMovesInTrueScene
  <2>1. current_state \in {"moveToHome", "moveArmToPose", "moveArmToHolePose"}
    BY DEF IInv, CallsInv, CallsOf, EntryCall, TypeOK, States, Names,
           Actions, Services
  <2> QED
    BY <2>1 DEF IInv, HomeInv, ReachInv, CarryInv, EmptyHands, FullHands
<1> QED BY <1>1, CycleInvariant, PTL

\* The food between the fingers is that of the order, in every state.
THEOREM RightFood == Spec => []HeldFoodIsTheOrder
  BY HeldIsOrder, CycleInvariant, PTL

-----------------------------------------------------------------------------
(* What the servers and the node change.                                   *)

\* An answer ends no call, and is given to the state that made it.
AnswerFrame ==
  /\ UNCHANGED << current_state, shared, unheard >>
  /\ Outstanding' = Outstanding

\* A reply leaves the state, the data and the outstanding calls as they are.
LEMMA ReplyFrame ==
  ASSUME TypeOK, NEW name \in Names, Working(name),
         NEW reply, Reply(name, reply)
  PROVE  AnswerFrame
<1>1. Active(name) /\ ~Finished(name)
  BY WorkingActive
<1>2. \A other \in Names :
        calls'[other].phase = "none" <=> calls[other].phase = "none"
  BY <1>1 DEF Reply, TypeOK, Calls, Active
<1> QED
  BY <1>2 DEF AnswerFrame, Outstanding, Reply

\* The fingers take food in closeGripper only, and let go in openGripper only.
LEMMA ServerFrame ==
  ASSUME IInv, Server
  PROVE  /\ AnswerFrame
         /\ \/ held' = held
            \/ current_state = "closeGripper" /\ held = NoParking
            \/ /\ current_state = "openGripper"
               /\ held' = NoParking
               /\ held # NoParking => arm = AtHole(held)
<1>a. TypeOK /\ CallsInv
  BY DEF IInv
<1> USE DEF Names, Actions, Services
<1>1. CASE \E name \in Actions : AnswerGoal(name)
  <2>1. PICK name \in Actions, answer \in {"accepted", "rejected"} :
          /\ calls[name].phase = "sent"
          /\ calls' = [calls EXCEPT ![name].phase = answer]
          /\ UNCHANGED << current_state, shared, handler, unheard, world >>
    BY <1>1, Zenon DEF AnswerGoal
  <2>2. \A other \in Names :
          calls'[other].phase = "none" <=> calls[other].phase = "none"
    BY <1>a, <2>1 DEF TypeOK, Calls
  <2> QED
    BY <2>1, <2>2 DEF AnswerFrame, Outstanding, world
<1>2. CASE CaptureShelf
  <2>1. /\ calls' = [calls EXCEPT !["provide_grasp_pose"].reply.pose = base.of]
        /\ UNCHANGED << current_state, shared, unheard, held >>
    BY <1>2, Zenon DEF CaptureShelf
  <2>2. \A other \in Names :
          calls'[other].phase = "none" <=> calls[other].phase = "none"
    BY <1>a, <2>1 DEF TypeOK, Calls, Replies
  <2> QED
    BY <2>1, <2>2 DEF AnswerFrame, Outstanding
<1>3. CASE ServeClose
  <2>1. Working("close_gripper") /\ \E reply : Reply("close_gripper", reply)
    BY <1>3, Zenon DEF ServeClose
  <2>2. Active("close_gripper") /\ ~Finished("close_gripper")
    BY <1>a, <2>1, WorkingActive
  <2>3. current_state = "closeGripper"
    BY <1>a, <2>2 DEF CallsInv, CallsOf, EntryCall, Active, TypeOK, States
  <2> QED
    BY <1>a, <2>1, <2>2, <2>3, ReplyFrame DEF IInv, CloseInv
<1>4. CASE ServeOpen
  <2>1. Working("open_gripper") /\ \E reply : Reply("open_gripper", reply)
    BY <1>4, Zenon DEF ServeOpen
  <2>2. held' \in {held, NoParking}
    BY <1>4 DEF ServeOpen
  <2>3. Active("open_gripper") /\ ~Finished("open_gripper")
    BY <1>a, <2>1, WorkingActive
  <2>4. current_state = "openGripper"
    BY <1>a, <2>3 DEF CallsInv, CallsOf, EntryCall, Active, TypeOK, States
  <2>5. held # NoParking => arm = AtHole(held)
    BY <2>3, <2>4 DEF IInv, OpenInv
  <2> QED
    BY <1>a, <2>1, <2>2, <2>4, <2>5, ReplyFrame
<1>5. CASE \/ ServeNavigation \/ ServeHomeMotion \/ ServePoseMotion
           \/ ServeGraspPose  \/ ServeAttach     \/ ServeDetach
           \/ ServeClearOctomap \/ ServeLock     \/ ServeUnlock
  <2>1. /\ held' = held
        /\ \E name \in Names : Working(name) /\ \E reply : Reply(name, reply)
    <3>1. CASE ServeNavigation
      BY <3>1, Zenon DEF ServeNavigation
    <3>2. CASE ServeHomeMotion
      BY <3>2, Zenon DEF ServeHomeMotion
    <3>3. CASE ServePoseMotion
      BY <3>3, Zenon DEF ServePoseMotion
    <3>4. CASE ServeGraspPose
      BY <3>4, Zenon DEF ServeGraspPose, world
    <3>5. CASE ServeAttach
      BY <3>5, Zenon DEF ServeAttach
    <3>6. CASE ServeDetach
      BY <3>6, Zenon DEF ServeDetach
    <3>7. CASE ServeClearOctomap
      BY <3>7, Zenon DEF ServeClearOctomap
    <3>8. CASE ServeLock
      BY <3>8, Zenon DEF ServeLock
    <3>9. CASE ServeUnlock
      BY <3>9, Zenon DEF ServeUnlock
    <3> QED
      BY <1>5, <3>1, <3>2, <3>3, <3>4, <3>5, <3>6, <3>7, <3>8, <3>9
  <2> QED
    BY <1>a, <2>1, ReplyFrame
<1> QED
  BY <1>1, <1>2, <1>3, <1>4, <1>5, Zenon DEF Server

\* A call whose future failed is the one under way: nothing follows it.
LostInv == unheard \subseteq Outstanding

\* The node moves only when it has heard every answer, and moves no part of the
\* world.
LEMMA NodeHeard ==
  ASSUME IInv, LostInv, Node
  PROVE  /\ unheard = {}
         /\ UNCHANGED << unheard, world >>
<1> USE DEF Names, Actions, Services
<1>a. TypeOK /\ CallsInv /\ unheard \subseteq Outstanding
  BY DEF IInv, LostInv
<1>1. ASSUME NEW name \in Names, name \notin unheard, calls[name].phase # "none"
      PROVE  unheard = {}
  BY <1>1, <1>a DEF CallsInv, Outstanding
<1>2. CASE Tick
  <2>1. UNCHANGED << unheard, world >>
    BY <1>2 DEF Tick, ChangeState, Invoke
  <2>2. \A name \in Names : calls[name].phase = "none"
    BY <1>2, <1>a DEF Tick, CallsInv, CallsOf, EntryCall
  <2> QED
    BY <1>a, <2>1, <2>2 DEF Outstanding
<1>3. CASE ResultHandler
  <2>1. UNCHANGED << unheard, world >>
    BY <1>3 DEF ResultHandler, MoveToHomeResult, NavigateToParkingResult,
       BaseLocked, GraspPoseResult, MoveArmToPoseResult, CloseGripperResult,
       OctomapCleared, BaseUnlocked, ObjectAttached, NavigateToHoleResult,
       MoveArmToHolePoseResult, OpenGripperResult, ObjectDetached,
       Continue, CallNext, ChangeState, Invoke
  <2>2. \E name \in Names, s \in States : Delivered(name, s)
    BY <1>3, Zenon DEF ResultHandler, MoveToHomeResult, NavigateToParkingResult,
       BaseLocked, GraspPoseResult, MoveArmToPoseResult, CloseGripperResult,
       OctomapCleared, BaseUnlocked, ObjectAttached, NavigateToHoleResult,
       MoveArmToHolePoseResult, OpenGripperResult, ObjectDetached, States
  <2> QED
    BY <1>1, <2>1, <2>2 DEF Delivered
<1>4. CASE \E name \in Actions : HandleGoalResponse(name)
  <2>1. UNCHANGED << unheard, world >>
    BY <1>4 DEF HandleGoalResponse, ChangeState, Invoke
  <2> QED
    BY <1>1, <1>4, <2>1 DEF HandleGoalResponse
<1>5. CASE \E name \in Names : TryInvoke(name)
  <2>1. UNCHANGED << unheard, world >>
    BY <1>5, Zenon DEF TryInvoke
  <2> QED
    BY <1>1, <1>5, <2>1 DEF TryInvoke
<1> QED
  BY <1>2, <1>3, <1>4, <1>5 DEF Node

\* The part of an errand a state with empty fingers belongs to.
Part(s) ==
  IF s = "openGripper" THEN "thrown"
  ELSE IF s \in {"moveToHome", "waitFoodRequest"} THEN "idle"
  ELSE "fetching"

\* A callback gives up, goes on carrying, goes on with its part of the errand,
\* starts the errand, or closes the order.
LEMMA NodeMoves ==
  ASSUME IInv, Node
  PROVE  /\ current_state # "nullState"
         /\ \/ /\ shared'.parking_number = shared.parking_number
               /\ \/ current_state' = "nullState"
                  \/ held # NoParking
                  \/ Part(current_state') = Part(current_state)
                  \/ /\ current_state = "waitFoodRequest"
                     /\ shared.parking_number # NoParking
                     /\ Part(current_state') = "fetching"
            \/ /\ shared'.parking_number = NoParking
               /\ current_state = "openGripper"
               /\ current_state' = "moveToHome"
               /\ held = NoParking
               /\ ~payload
               /\ ~shared.object_gripped
<1>a. TypeOK /\ CallsInv
  BY DEF IInv
<1> USE DEF Names, Actions, Services
<1>0. ASSUME NEW name \in Names, calls[name].phase # "none"
      PROVE  current_state # "nullState"
  BY <1>0, <1>a DEF CallsInv, CallsOf, EntryCall
<1>1. CASE Tick
  BY <1>a, <1>1 DEF Tick, ChangeState, EntryRefused, EntryData, TypeOK, SharedData, Part
<1>2. CASE ResultHandler
  <2>1. \E name \in Names, s \in States : Delivered(name, s)
    BY <1>2, Zenon DEF ResultHandler, MoveToHomeResult, NavigateToParkingResult,
       BaseLocked, GraspPoseResult, MoveArmToPoseResult, CloseGripperResult,
       OctomapCleared, BaseUnlocked, ObjectAttached, NavigateToHoleResult,
       MoveArmToHolePoseResult, OpenGripperResult, ObjectDetached, States
  <2>2. current_state # "nullState"
    BY <1>0, <2>1 DEF Delivered
  <2> USE <1>a DEF Delivered, CallsInv, Continue, CallNext, ChangeState,
          EntryRefused, EntryData, TypeOK, SharedData, Part
  <2>3. CASE MoveToHomeResult
    BY <2>2, <2>3 DEF MoveToHomeResult, IInv, HomeInv, EmptyHands, FullHands
  <2>4. CASE NavigateToParkingResult
    BY <2>2, <2>4 DEF NavigateToParkingResult
  <2>5. CASE BaseLocked
    BY <2>2, <2>5 DEF BaseLocked
  <2>6. CASE GraspPoseResult
    BY <2>2, <2>6 DEF GraspPoseResult
  <2>7. CASE MoveArmToPoseResult
    BY <2>2, <2>7 DEF MoveArmToPoseResult
  <2>8. CASE CloseGripperResult
    BY <2>2, <2>8 DEF CloseGripperResult
  <2>9. CASE OctomapCleared
    BY <2>2, <2>9 DEF OctomapCleared
  <2>10. CASE BaseUnlocked
    BY <2>2, <2>10 DEF BaseUnlocked
  <2>11. CASE ObjectAttached
    BY <2>2, <2>11 DEF ObjectAttached, IInv, AttachInv, FullHands
  <2>12. CASE NavigateToHoleResult
    BY <2>2, <2>12 DEF NavigateToHoleResult
  <2>13. CASE MoveArmToHolePoseResult
    BY <2>2, <2>13 DEF MoveArmToHolePoseResult, IInv, CarryInv, FullHands
  <2>14. CASE OpenGripperResult
    BY <2>2, <2>14 DEF OpenGripperResult
  <2>15. CASE ObjectDetached
    BY <2>2, <2>15 DEF ObjectDetached, IInv, OpenInv, Active, Succeeded, Finished
  <2> QED
    BY <1>2, <2>3, <2>4, <2>5, <2>6, <2>7, <2>8, <2>9, <2>10, <2>11, <2>12,
       <2>13, <2>14, <2>15 DEF ResultHandler
<1>3. CASE \E name \in Actions : HandleGoalResponse(name)
  BY <1>0, <1>3 DEF HandleGoalResponse, ChangeState, EntryRefused, EntryData, Part
<1>4. CASE \E name \in Names : TryInvoke(name)
  BY <1>0, <1>4 DEF TryInvoke, Part
<1> QED
  BY <1>1, <1>2, <1>3, <1>4 DEF Node

-----------------------------------------------------------------------------
(* The action properties.                                                  *)

\* Steps that are neither the node's nor a server's keep state and robot.
LEMMA OtherSteps ==
  ASSUME [Next]_vars, ~Node, ~Server
  PROVE  /\ UNCHANGED << current_state, calls, base, base_locked, arm, held >>
         /\ \/ shared' = shared
            \/ /\ shared.parking_number = NoParking
               /\ unheard' = unheard
               /\ \E n \in Parkings : shared' = [shared EXCEPT !.parking_number = n]
BY Zenon DEF Next, RequestFood, FutureFails, ChassisDrifts, vars, client, world

\* Food leaves the fingers only above the hole of the parking it came from.
THEOREM ReleasedWhereItBelongs == Spec => ReleasedAboveItsHole
<1>1. ASSUME IInv, [Next]_vars
      PROVE  [held # NoParking /\ held' # held
                => held' = NoParking /\ arm = AtHole(held)]_held
  <2>1. CASE Node
    BY <2>1, Zenon DEF Node, Tick, HandleGoalResponse, TryInvoke, ResultHandler,
       MoveToHomeResult, NavigateToParkingResult, BaseLocked, GraspPoseResult,
       MoveArmToPoseResult, CloseGripperResult, OctomapCleared, BaseUnlocked,
       ObjectAttached, NavigateToHoleResult, MoveArmToHolePoseResult,
       OpenGripperResult, ObjectDetached, world
  <2>2. CASE Server
    BY <1>1, <2>2, ServerFrame
  <2> QED
    BY <1>1, <2>1, <2>2, OtherSteps
<1> QED
  BY <1>1, CycleInvariant, PTL DEF Spec, ReleasedAboveItsHole

\* An order is closed only with its food thrown and the payload detached.
THEOREM OrderKept == Spec => OrderKeptUntilDelivered
<1>1. ASSUME IInv, [Next]_vars
      PROVE  [shared.parking_number # NoParking
                /\ shared'.parking_number # shared.parking_number
              => /\ shared'.parking_number = NoParking
                 /\ held = NoParking
                 /\ ~payload
                 /\ ~shared.object_gripped]_shared
  <2>1. CASE Node
    BY <1>1, <2>1, NodeMoves
  <2>2. CASE Server
    BY <1>1, <2>2, ServerFrame DEF AnswerFrame
  <2> QED
    BY <1>1, <2>1, <2>2, OtherSteps
<1> QED
  BY <1>1, CycleInvariant, PTL DEF Spec, OrderKeptUntilDelivered

-----------------------------------------------------------------------------
(* RobotBehavior implements FoodService, step by step.                     *)

\* A future that failed belongs to the call under way.
LEMMA LostInvariant == Spec => []LostInv
<1>1. Init => LostInv
  BY DEF Init, LostInv
<1>2. IInv /\ LostInv /\ [Next]_vars => LostInv'
  <2> SUFFICES ASSUME IInv, LostInv, [Next]_vars PROVE LostInv'
    OBVIOUS
  <2>1. CASE Node
    BY <2>1, NodeHeard DEF LostInv
  <2>2. CASE Server
    BY <2>2, ServerFrame DEF AnswerFrame, LostInv
  <2>3. CASE \E name \in Names : FutureFails(name)
    BY <2>3 DEF FutureFails, LostInv, Outstanding
  <2>4. CASE calls' = calls /\ unheard' = unheard
    BY <2>4 DEF LostInv, Outstanding
  <2> QED
    BY <2>1, <2>2, <2>3, <2>4, Zenon
       DEF Next, RequestFood, ChassisDrifts, vars, client
<1> QED
  BY <1>1, <1>2, CycleInvariant, PTL DEF Spec

\* With no call lost, the stage is read off the state and the fingers.
LEMMA StageHeard ==
  ASSUME LostInv
  PROVE  /\ Lost <=> unheard # {}
         /\ Stage = IF current_state = "nullState" \/ unheard # {} THEN "halted"
                    ELSE IF held # NoParking THEN "carrying"
                    ELSE Part(current_state)
BY DEF LostInv, Lost, Stage, Part

\* Every step is one of the courier, or none.
LEMMA StepSimulation ==
  ASSUME IInv, LostInv, [Next]_vars, LostInv', HeldFoodIsTheOrder'
  PROVE  [Courier!Next]_Courier!vars
<1> DEFINE order == shared.parking_number
           now   == IF current_state = "nullState" \/ unheard # {} THEN "halted"
                    ELSE IF held # NoParking THEN "carrying"
                    ELSE Part(current_state)
<1>1. Stage = now /\ Stage' = now'
  BY StageHeard DEF LostInv, Lost, Stage, Part
<1>2. HeldFoodIsTheOrder
  BY HeldIsOrder
<1>3. now = "halted" <=> current_state = "nullState" \/ unheard # {}
  BY DEF Part
<1>4. CASE Node
  <2>1. unheard = {} /\ unheard' = {} /\ held' = held
    BY <1>4, NodeHeard DEF world
  <2>2. current_state # "nullState"
    BY <1>4, NodeMoves
  <2>3. CASE order' = order /\ current_state' = "nullState"
    BY <1>1, <1>3, <2>1, <2>2, <2>3 DEF Courier!Next, Courier!Halt
  <2>4. CASE order' = order /\ current_state' # "nullState" /\ held # NoParking
    BY <1>1, <2>1, <2>2, <2>4 DEF Courier!vars
  <2>5. CASE /\ order' = NoParking
             /\ current_state = "openGripper"
             /\ current_state' = "moveToHome"
             /\ held = NoParking
    BY <1>1, <2>1, <2>5
       DEF Part, Courier!Next, Courier!Serve, Courier!Complete
  <2>6. CASE order' = order /\ current_state' # "nullState" /\ held = NoParking
    <3>1. CASE Part(current_state') = Part(current_state)
      BY <1>1, <2>1, <2>2, <2>6, <3>1 DEF Courier!vars
    <3>2. CASE /\ current_state = "waitFoodRequest"
               /\ order # NoParking
               /\ Part(current_state') = "fetching"
      BY <1>1, <2>1, <2>6, <3>2
         DEF Part, Courier!Next, Courier!Serve, Courier!Start
    <3> QED
      BY <1>4, <2>5, <2>6, <3>1, <3>2, NodeMoves
  <2> QED
    BY <1>4, <2>3, <2>4, <2>5, <2>6, NodeMoves
<1>5. CASE Server
  <2>1. UNCHANGED << current_state, shared, unheard >>
    BY <1>5, ServerFrame DEF AnswerFrame
  <2>2. CASE held' = held
    BY <1>1, <2>1, <2>2 DEF Courier!vars
  <2>3. CASE now = "halted" /\ held' # held
    BY <1>1, <1>2, <1>3, <2>1, <2>3
       DEF HeldFoodIsTheOrder, Courier!Next, Courier!Aftermath
  <2>4. CASE now # "halted" /\ held' # held /\ held = NoParking
    BY <1>1, <1>2, <1>3, <1>5, <2>1, <2>4, ServerFrame
       DEF Part, HeldFoodIsTheOrder, Courier!Next, Courier!Serve, Courier!Collect
  <2>5. CASE now # "halted" /\ held' # held /\ held # NoParking
    BY <1>1, <1>2, <1>3, <1>5, <2>1, <2>5, ServerFrame
       DEF Part, HeldFoodIsTheOrder, Courier!Next, Courier!Serve, Courier!Throw
  <2> QED
    BY <2>2, <2>3, <2>4, <2>5
<1>6. CASE \E n \in RequestNumbers : RequestFood(n)
  <2>1. UNCHANGED << current_state, unheard, held >>
    BY <1>6, Zenon DEF RequestFood, vars, client, world
  <2>2. \/ shared' = shared
        \/ order = NoParking /\ \E n \in Parkings : order' = n
    BY <1>6 DEF RequestFood, vars, IInv, TypeOK, SharedData
  <2> QED
    BY <1>1, <2>1, <2>2 DEF Courier!Next, Courier!Accept, Courier!vars
<1>7. CASE \E name \in Names : FutureFails(name)
  <2>1. /\ UNCHANGED << current_state, shared, held >>
        /\ unheard' # {}
    BY <1>7, Zenon DEF FutureFails, world
  <2> QED
    BY <1>1, <1>3, <2>1 DEF Courier!Next, Courier!Halt, Courier!vars
<1>8. CASE UNCHANGED << current_state, shared, unheard, held >>
  BY <1>1, <1>8 DEF Courier!vars
<1> QED
  BY <1>4, <1>5, <1>6, <1>7, <1>8, Zenon DEF Next, ChassisDrifts, vars, client, world

\* Whatever the robot does is something the food service may do.
THEOREM RobotImplementsFoodService == Spec => Courier!Spec
<1>1. Init => Courier!Init
  <2> SUFFICES ASSUME Init PROVE Courier!Init
    OBVIOUS
  <2>1. ~Lost
    BY DEF Init, Lost
  <2> QED
    BY <2>1 DEF Init, Courier!Init, Stage
<1>2. IInv /\ LostInv /\ [Next]_vars /\ LostInv' /\ HeldFoodIsTheOrder'
        => [Courier!Next]_Courier!vars
  BY StepSimulation
<1> QED
  BY <1>1, <1>2, CycleInvariant, LostInvariant, RightFood, PTL
     DEF Spec, Courier!Spec
=============================================================================
