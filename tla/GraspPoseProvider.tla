-------------------------- MODULE GraspPoseProvider --------------------------
(***************************************************************************)
(* The grasp_pose_provider node: the workflow of a goal (node_initializer),*)
(* the clouds it waits for (combine_pointclouds), its pause of physics     *)
(* (simulation_control) and its reachability checks (grasp_reachability),  *)
(* with the arm that makes the checks, which pauses physics by the same    *)
(* flag.                                                                   *)
(*                                                                         *)
(* The node accepts every goal, and its callbacks run on many threads: a   *)
(* goal is a worker.  A step of a worker is what it does up to its next    *)
(* wait.  Every wait has a time limit, after which what was asked for may  *)
(* still happen.  When all threads are taken by goals nothing is delivered *)
(* to any of them, which is the case of limits that run out.  The callbacks*)
(* of one camera overlap as well, and store their clouds in any order.     *)
(***************************************************************************)
EXTENDS Integers, FiniteSets

CONSTANTS
  Goals,          \* the goals clients send
  Nobody,         \* no goal: the arm is not reserved
  Topics,         \* captured_topics
  MaxCandidates,  \* max_reachability_candidates
  MaxScene        \* bound: the scenes the cameras take

ASSUME NobodyAssumption == Nobody \notin Goals
ASSUME LimitsAssumption == MaxCandidates \in Nat /\ MaxScene \in Nat

VARIABLES
  pc,                 \* per goal: where its callback is
  result,             \* per goal: the status of its handle
  simulation_paused,  \* per goal: simulation_paused
  candidates,         \* per goal: the candidates left to check
  minimum,            \* per goal: the sequence numbers it has marked
  marked,             \* per goal: what there was at the mark (history)
  call,               \* per goal: how far its call of a service has come
  check,              \* per goal: how far the arm is with its check
  motion_active,      \* the goal whose check the arm is reserved for
  requests,           \* requests on their way to the physics synchronizer
  paused,             \* physics is paused
  failed,             \* a call to the synchronizer has failed (history)
  messages,           \* per topic: the scene of the cloud stored last, 0: none
  sequences,          \* per topic: how many clouds were stored
  scene,              \* the scene the cameras have taken last
  published,          \* the scene whose clouds they have published last
  transit,            \* per topic: the scene of the cloud on its way, 0: none
  taken               \* per topic: the scenes of the clouds callbacks hold

goal    == << result, simulation_paused, candidates >>
mark    == << minimum, marked >>
arm     == << check, motion_active >>
physics == << requests, paused, failed >>
clouds  == << messages, sequences, scene, published, transit, taken >>
vars    == << pc, goal, mark, call, arm, physics, clouds >>

Scenes == 0 .. MaxScene
Calls  == {"pause", "resume", "cleanup"}
PCs    == {"none", "capture", "generate", "check", "sent", "result", "done"}
            \cup Calls

Marks == [scene : Scenes, clouds : [Topics -> Scenes],
          held : [Topics -> SUBSET Scenes]]

NoMark == [scene |-> 0, clouds |-> [t \in Topics |-> 0],
           held |-> [t \in Topics |-> {}]]

TypeOK ==
  /\ pc \in [Goals -> PCs]
  /\ result \in [Goals -> {"none", "succeeded", "aborted"}]
  /\ simulation_paused \in [Goals -> BOOLEAN]
  /\ candidates \in [Goals -> 0 .. MaxCandidates]
  /\ minimum \in [Goals -> [Topics -> Nat]]
  /\ marked \in [Goals -> Marks]
  /\ call \in [Goals -> {"none", "sent", "answered"}]
  /\ check \in [Goals -> {"none", "sent", "rejected", "reserved", "planning",
                          "reachable", "unreachable"}]
  /\ motion_active \in Goals \cup {Nobody}
  /\ requests \in SUBSET [from : Goals, op : Calls \cup {"arm_pause", "arm_resume"}]
  /\ paused \in BOOLEAN
  /\ failed \in BOOLEAN
  /\ messages \in [Topics -> Scenes]
  /\ sequences \in [Topics -> Nat]
  /\ scene \in Scenes
  /\ published \in Scenes
  /\ transit \in [Topics -> Scenes]
  /\ taken \in [Topics -> SUBSET Scenes]

Goto(g, next) == pc' = [pc EXCEPT ![g] = next]

-----------------------------------------------------------------------------
(* How a goal ends.                                                        *)

\* Mutant: an error leaves physics as it is.
EndGoalUnresumed(g, how) ==
  /\ result' = [result EXCEPT ![g] = how]
  /\ candidates' = [candidates EXCEPT ![g] = 0]
  /\ Goto(g, IF simulation_paused[g] /\ how # "aborted" THEN "cleanup" ELSE "done")

\* The outcome is set, then the finally clause resumes physics, but only if
\* the pause was seen to succeed.
EndGoal(g, how) ==
  /\ result' = [result EXCEPT ![g] = how]
  /\ candidates' = [candidates EXCEPT ![g] = 0]
  /\ Goto(g, IF simulation_paused[g] THEN "cleanup" ELSE "done")

-----------------------------------------------------------------------------
(* The calls to the synchronizer.                                          *)

Send(g) ==
  /\ pc[g] \in Calls
  /\ call[g] = "none"
  /\ call' = [call EXCEPT ![g] = "sent"]
  /\ requests' = requests \cup {[from |-> g, op |-> pc[g]]}
  /\ UNCHANGED << pc, goal, mark, arm, paused, failed, clouds >>

\* The synchronizer serves a request, also one nobody waits for any more.
Serve(r) ==
  /\ requests' = requests \ {r}
  /\ paused' = (r.op \in {"pause", "arm_pause"})
  /\ call' = IF pc[r.from] = r.op /\ call[r.from] = "sent"
               THEN [call EXCEPT ![r.from] = "answered"] ELSE call
  /\ UNCHANGED << pc, goal, mark, arm, failed, clouds >>

Received(g, op) ==
  /\ pc[g] = op
  /\ call[g] = "answered"
  /\ call' = [call EXCEPT ![g] = "none"]
  /\ UNCHANGED failed

\* The service is not there or refuses, or the answer is late.
Failed(g, op) ==
  /\ pc[g] = op
  /\ call' = [call EXCEPT ![g] = "none"]
  /\ failed' = TRUE

-----------------------------------------------------------------------------
(* The workflow of a goal.                                                 *)

\* _handle_grasp_pose_request up to the wait for the clouds.
AcceptGoal(g) ==
  /\ pc[g] = "none"
  /\ Goto(g, "capture")
  /\ minimum' = [minimum EXCEPT ![g] = sequences]
  /\ marked' = [marked EXCEPT ![g] =
                  [scene |-> scene, clouds |-> messages, held |-> taken]]
  /\ UNCHANGED << goal, call, arm, physics, clouds >>

\* Mutant: a cloud that was there before the mark will do.
HasMessageSince(g, t) ==
  /\ messages[t] # 0
  /\ sequences[t] >= minimum[g][t]

\* _has_message_after.
HasMessageAfter(g, t) ==
  /\ messages[t] # 0
  /\ sequences[t] > minimum[g][t]

\* Mutant: the wait for the clouds has no time limit.
CaptureUntimed(g) ==
  /\ pc[g] = "capture"
  /\ \A t \in Topics : HasMessageAfter(g, t)
  /\ Goto(g, "pause")
  /\ minimum' = [minimum EXCEPT ![g] = [t \in Topics |-> 0]]
  /\ marked' = [marked EXCEPT ![g] = NoMark]
  /\ UNCHANGED << goal, call, arm, physics, clouds >>

\* wait_for_snapshot returns, or gives up; the mark is not needed any more.
Capture(g) ==
  /\ pc[g] = "capture"
  /\ \/ /\ \A t \in Topics : HasMessageAfter(g, t)
        /\ Goto(g, "pause")
        /\ UNCHANGED << result, candidates >>
     \/ EndGoal(g, "aborted")
  /\ minimum' = [minimum EXCEPT ![g] = [t \in Topics |-> 0]]
  /\ marked' = [marked EXCEPT ![g] = NoMark]
  /\ UNCHANGED << simulation_paused, call, arm, physics, clouds >>

\* pause_after_snapshot.
Pause(g) ==
  /\ \/ /\ Received(g, "pause")
        /\ simulation_paused' = [simulation_paused EXCEPT ![g] = TRUE]
        /\ Goto(g, "generate")
        /\ UNCHANGED << result, candidates >>
     \/ /\ Failed(g, "pause")
        /\ EndGoal(g, "aborted")
        /\ UNCHANGED simulation_paused
  /\ UNCHANGED << mark, arm, requests, paused, clouds >>

\* The rest of generate: transforms, food detection and the call of GPD may
\* find candidates or none, no food, or raise.
Generate(g) ==
  /\ pc[g] = "generate"
  /\ \/ /\ \E n \in 0 .. MaxCandidates : candidates' = [candidates EXCEPT ![g] = n]
        /\ Goto(g, "resume")
        /\ UNCHANGED result
     \/ \E how \in {"succeeded", "aborted"} : EndGoal(g, how)
  /\ UNCHANGED << simulation_paused, mark, call, arm, physics, clouds >>

Resume(g) ==
  /\ \/ /\ Received(g, "resume")
        /\ simulation_paused' = [simulation_paused EXCEPT ![g] = FALSE]
        /\ Goto(g, "check")
        /\ UNCHANGED << result, candidates >>
     \/ /\ Failed(g, "resume")
        /\ EndGoal(g, "aborted")
        /\ UNCHANGED simulation_paused
  /\ UNCHANGED << mark, arm, requests, paused, clouds >>

\* The finally clause: a failure is only logged.
Cleanup(g) ==
  /\ Received(g, "cleanup") \/ Failed(g, "cleanup")
  /\ simulation_paused' = [simulation_paused EXCEPT ![g] = FALSE]
  /\ Goto(g, "done")
  /\ UNCHANGED << result, candidates, mark, arm, requests, paused, clouds >>

\* first_reachable: the next candidate is sent; there is none left, or none at
\* all, or the arm is not there, which is asked before the first.
CheckNext(g) ==
  /\ pc[g] = "check"
  /\ \/ /\ candidates[g] > 0
        /\ candidates' = [candidates EXCEPT ![g] = @ - 1]
        /\ check' = [check EXCEPT ![g] = "sent"]
        /\ Goto(g, "sent")
        /\ UNCHANGED result
     \/ /\ candidates[g] = 0 \/ check[g] = "none"
        /\ EndGoal(g, "aborted")
        /\ UNCHANGED check
  /\ UNCHANGED << simulation_paused, mark, call, motion_active, physics, clouds >>

\* The arm's answer to the goal, or none in time.
GoalResponse(g) ==
  /\ pc[g] = "sent"
  /\ \/ /\ check[g] \notin {"sent", "rejected"}
        /\ Goto(g, "result")
        /\ UNCHANGED << result, candidates >>
     \/ EndGoal(g, "aborted")
  /\ UNCHANGED << simulation_paused, mark, call, arm, physics, clouds >>

\* The result of the check, or none in time.
CheckResult(g) ==
  /\ pc[g] = "result"
  /\ \/ check[g] = "reachable" /\ EndGoal(g, "succeeded")
     \/ /\ check[g] = "unreachable"
        /\ Goto(g, "check")
        /\ UNCHANGED << result, candidates >>
     \/ EndGoal(g, "aborted")
  /\ UNCHANGED << simulation_paused, mark, call, arm, physics, clouds >>

Worker(g) ==
  \/ Capture(g) \/ Send(g) \/ Pause(g) \/ Generate(g) \/ Resume(g)
  \/ Cleanup(g) \/ CheckNext(g) \/ GoalResponse(g) \/ CheckResult(g)

-----------------------------------------------------------------------------
(* The arm, as ArmBehavior has it: a check reserves the arm, pauses physics*)
(* while it plans, resumes it, gives the reservation back and then the     *)
(* result, whether or not anybody waits for it.                            *)

ArmReserves(g) ==
  /\ check[g] = "sent"
  /\ \/ /\ motion_active = Nobody
        /\ motion_active' = g
        /\ check' = [check EXCEPT ![g] = "reserved"]
     \/ /\ motion_active # Nobody
        /\ check' = [check EXCEPT ![g] = "rejected"]
        /\ UNCHANGED motion_active
  /\ UNCHANGED << pc, goal, mark, call, physics, clouds >>

\* Mutant: the reservation is given back once the result is published.
ArmEndsLate(g, how) ==
  /\ check' = [check EXCEPT ![g] = how]
  /\ UNCHANGED motion_active

ArmEnds(g, how) ==
  /\ check' = [check EXCEPT ![g] = how]
  /\ motion_active' = Nobody

\* A call of the arm that fails may be served later as well.
ArmFails(g, op) ==
  /\ ArmEnds(g, "unreachable")
  /\ failed' = TRUE
  /\ requests' \in {requests, requests \cup {[from |-> g, op |-> op]}}
  /\ UNCHANGED paused

\* The goal state is tried first: it may be found to be in collision.
ArmPauses(g) ==
  /\ check[g] = "reserved"
  /\ \/ /\ check' = [check EXCEPT ![g] = "planning"]
        /\ paused' = TRUE
        /\ UNCHANGED << motion_active, requests, failed >>
     \/ ArmEnds(g, "unreachable") /\ UNCHANGED physics
     \/ ArmFails(g, "arm_pause")
  /\ UNCHANGED << pc, goal, mark, call, clouds >>

ArmPlans(g) ==
  /\ check[g] = "planning"
  /\ \/ /\ \E how \in {"reachable", "unreachable"} : ArmEnds(g, how)
        /\ paused' = FALSE
        /\ UNCHANGED << requests, failed >>
     \/ ArmFails(g, "arm_resume")
  /\ UNCHANGED << pc, goal, mark, call, clouds >>

Arm(g) == ArmReserves(g) \/ ArmPauses(g) \/ ArmPlans(g)

-----------------------------------------------------------------------------
(* The cameras.                                                            *)

\* One scene is taken for all cameras, and takes its time to render.
TakeSnapshot ==
  /\ published = scene
  /\ scene < MaxScene
  /\ scene' = scene + 1
  /\ UNCHANGED << pc, goal, mark, call, arm, physics, messages, sequences,
                  published, transit, taken >>

\* A reader keeps the newest cloud of its topic.  One that could not be made
\* or is lost leaves there what was there.
PublishClouds ==
  /\ published < scene
  /\ published' = scene
  /\ \E sent \in SUBSET Topics :
       transit' = [t \in Topics |-> IF t \in sent THEN scene ELSE transit[t]]
  /\ UNCHANGED << pc, goal, mark, call, arm, physics, messages, sequences,
                  scene, taken >>

\* A thread of the executor takes the cloud from the subscription.  The group
\* is reentrant: others may still hold the ones before it.
Take(t) ==
  /\ transit[t] # 0
  /\ transit' = [transit EXCEPT ![t] = 0]
  /\ taken' = [taken EXCEPT ![t] = @ \cup {transit[t]}]
  /\ UNCHANGED << pc, goal, mark, call, arm, physics, messages, sequences,
                  scene, published >>

\* _receive: the cloud is stored once the thread has the condition, over
\* whatever is there.
Receive(t, s) ==
  /\ s \in taken[t]
  /\ taken' = [taken EXCEPT ![t] = @ \ {s}]
  /\ messages' = [messages EXCEPT ![t] = s]
  /\ sequences' = [sequences EXCEPT ![t] = @ + 1]
  /\ UNCHANGED << pc, goal, mark, call, arm, physics, scene, published, transit >>

-----------------------------------------------------------------------------

\* Subscribed to every topic, before any cloud is there.
NewSnapshotter ==
  /\ messages = [t \in Topics |-> 0]
  /\ sequences = [t \in Topics |-> 0]

Init ==
  /\ pc = [g \in Goals |-> "none"]
  /\ result = [g \in Goals |-> "none"]
  /\ simulation_paused = [g \in Goals |-> FALSE]
  /\ candidates = [g \in Goals |-> 0]
  /\ minimum = [g \in Goals |-> [t \in Topics |-> 0]]
  /\ marked = [g \in Goals |-> NoMark]
  /\ call = [g \in Goals |-> "none"]
  /\ check = [g \in Goals |-> "none"]
  /\ motion_active = Nobody
  /\ requests = {}
  /\ paused = FALSE
  /\ failed = FALSE
  /\ NewSnapshotter
  /\ scene = 0
  /\ published = 0
  /\ transit = [t \in Topics |-> 0]
  /\ taken = [t \in Topics |-> {}]

Next ==
  \/ \E g \in Goals : AcceptGoal(g) \/ Worker(g) \/ Arm(g)
  \/ \E r \in requests : Serve(r)
  \/ TakeSnapshot \/ PublishClouds
  \/ \E t \in Topics : Take(t)
  \/ \E t \in Topics : \E s \in taken[t] : Receive(t, s)

Spec == Init /\ [][Next]_vars

\* The threads of the node keep running, and every wait has a time limit.
\* Nothing is assumed of the arm, the cameras or the synchronizer.
Fairness == \A g \in Goals : WF_vars(Worker(g))

FairSpec == Spec /\ Fairness

-----------------------------------------------------------------------------
(* Properties.                                                             *)

\* Although goals and the arm pause and resume physics by one flag that does
\* not count them, and each without knowing of the others, physics stands
\* still only while one of them has still to resume it, as long as no call to
\* the synchronizer has failed.
PhysicsRunsAgain ==
  paused /\ ~failed
    => \E g \in Goals : \/ pc[g] \in Calls \cup {"generate"}
                        \/ check[g] = "planning"

\* Each cloud of a snapshot is of a later scene than the one the node had from
\* that camera when the goal arrived, unless a callback of the camera held it
\* then, also if goals share the snapshotter and clouds are late or lost.  One
\* that was held may be older than the one that was there: _receive numbers what
\* it stores, and does not look at its time.
CloudsAreNew ==
  [][\A g \in Goals :
       pc[g] = "capture" /\ pc'[g] = "pause"
         => \A t \in Topics : \/ messages[t] > marked[g].clouds[t]
                             \/ messages[t] \in marked[g].held[t]]_pc

\* capture_combined_cloud: the mark requires "all selected clouds to be newer
\* than that mark".  The code counts what is received after the mark, and that
\* may have been taken before it.
CloudsTakenAfterMark ==
  [][\A g \in Goals :
       pc[g] = "capture" /\ pc'[g] = "pause"
         => \A t \in Topics : messages[t] > marked[g].scene]_pc

\* "Continuously cache the newest cloud from every camera topic": a cloud is not
\* replaced by an older one.
NewestCached == [][\A t \in Topics : messages'[t] >= messages[t]]_messages

\* A candidate is refused only because of the check of another goal, under way
\* or given up by it, never because of the candidate before.
ChecksMakeWay ==
  [][\A g \in Goals :
       check[g] # "rejected" /\ check'[g] = "rejected"
         => \E h \in Goals \ {g} : check[h] \in {"reserved", "planning"}]_check

\* Every goal gets a result, whatever the cameras, the arm, the synchronizer
\* and the detection do.
EveryGoalEnds ==
  \A g \in Goals : pc[g] = "capture" ~> pc[g] = "done" /\ result[g] # "none"
=============================================================================
