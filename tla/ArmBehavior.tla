---------------------------- MODULE ArmBehavior ----------------------------
(***************************************************************************)
(* The arm_behavior node: its action servers (arm_action_server), the      *)
(* motions they run (motion_executor), what those do to the planning scene *)
(* (planning_scene_manager) and to the simulation (simulation_control),    *)
(* and the payload services (payload_service_server).                      *)
(*                                                                         *)
(* One thread runs the executor of the node: it takes goals and payload    *)
(* requests, and it delivers the responses to the calls of the node.  Each *)
(* accepted goal is worked on by a thread of its own.  A worker's call of  *)
(* a service is a request, the server's answer and the receipt; a worker   *)
(* that has waited long enough gives up, and its request may be served     *)
(* later, or never.  The MoveIt interfaces spin nodes of their own, so     *)
(* planning, execution and a change of the payload need no executor.       *)
(***************************************************************************)
EXTENDS FiniteSets

CONSTANTS
  Goals,      \* the goals clients send
  Nobody,     \* no goal: moveit_mutex_ is free
  KindsSent   \* the actions they are goals of

ASSUME NobodyAssumption == Nobody \notin Goals
ASSUME KindsAssumption  == KindsSent \subseteq {"pose", "home", "lift", "check"}

VARIABLES
  motion_active,  \* motion_active_
  kind,           \* per goal: the action it is a goal of
  pc,             \* per goal: where its worker is
  call,           \* per goal: how far the call its worker makes has come
  previous_acm,   \* per goal: the collision matrix its scope will restore
  planned,        \* per goal: how planning ended
  moveit_mutex,   \* the goal whose worker holds moveit_mutex_
  budget,         \* planning time and attempts of the MoveGroupInterface
  executor,       \* the payload callback the executor is blocked in
  payload,        \* the payload box is attached in the planning scene
  requests,       \* the requests on their way to the other nodes
  acm,            \* the collision matrix of move_group
  paused,         \* physics is paused
  failed          \* what has failed: calls to physics_sync_node, changes of
                  \* the scene, checks that threw (history)

server == << motion_active, kind >>
motion == << call, previous_acm, planned >>
node   == << executor, payload >>
others == << requests, acm, paused >>
vars   == << server, pc, motion, moveit_mutex, budget, node, others, failed >>

Kinds == {"pose", "home", "lift", "check"}
Calls == {"relax", "pause", "resume", "restore"}
Matrices == {"none", "strict", "relaxed"}

\* Where a worker is, in this order: it waits for moveit_mutex_, prepares what
\* planning needs, reads and relaxes the collision matrix, pauses, plans,
\* resumes, executes, restores the matrix, gives the mutex and then the
\* reservation back, and publishes the result.
Scoped  == {"scene", "relax", "restore"}
Holding == {"prepare", "pause", "plan", "resume", "execute", "unlock"} \cup Scoped
Working == {"lock", "release"} \cup Holding
PCs     == {"none", "rejected", "publish", "done"} \cup Working

\* Only the motions that start among the shelves open a scope, and a check
\* never moves the arm.
PCsOf(k) == PCs \ ((IF k \in {"home", "lift"} THEN {} ELSE Scoped)
                     \cup (IF k = "check" THEN {"execute"} ELSE {}))

TypeOK ==
  /\ motion_active \in BOOLEAN
  /\ kind \in [Goals -> Kinds]
  /\ pc \in [Goals -> PCs]
  /\ \A g \in Goals : pc[g] \in PCsOf(kind[g])
  /\ call \in [Goals -> {"none", "sent", "answered"}]
  /\ previous_acm \in [Goals -> Matrices]
  /\ planned \in [Goals -> {"no", "ok", "failed", "threw"}]
  /\ moveit_mutex \in Goals \cup {Nobody}
  /\ budget \in {"full", "reduced"}
  /\ executor \in {"free", "attach", "detach"}
  /\ payload \in BOOLEAN
  /\ requests \in SUBSET [from : Goals, op : Calls, acm : Matrices]
  /\ acm \in {"strict", "relaxed"}
  /\ paused \in BOOLEAN
  /\ failed \in SUBSET {"physics", "scene", "check"}

Goto(g, next) == pc' = [pc EXCEPT ![g] = next]

-----------------------------------------------------------------------------
(* The action servers.                                                     *)

\* The goal callback, with reserveMotion, and the accepted callback, which
\* launches the worker: the executor runs them one after the other.  A goal
\* without a valid pose or distance is rejected before it reserves anything.
HandleGoal(g) ==
  /\ executor = "free"
  /\ pc[g] = "none"
  /\ \E k \in KindsSent :
       /\ kind' = [kind EXCEPT ![g] = k]
       /\ \/ ~motion_active /\ motion_active' = TRUE /\ Goto(g, "lock")
          \/ /\ motion_active \/ k # "home"
             /\ Goto(g, "rejected")
             /\ UNCHANGED motion_active
  /\ UNCHANGED << motion, moveit_mutex, budget, node, others, failed >>

\* Mutant: the reservation is given back once the result is published.
ReleaseReservationLate(g) ==
  /\ pc[g] = "release"
  /\ Goto(g, "publish")
  /\ UNCHANGED << server, motion, moveit_mutex, budget, node, others, failed >>

\* executeGoal: the reservation is given back ...
ReleaseReservation(g) ==
  /\ pc[g] = "release"
  /\ motion_active' = FALSE
  /\ Goto(g, "publish")
  /\ UNCHANGED << kind, motion, moveit_mutex, budget, node, others, failed >>

\* ... before the result is published.
PublishResult(g) ==
  /\ pc[g] = "publish"
  /\ Goto(g, "done")
  /\ UNCHANGED << server, motion, moveit_mutex, budget, node, others, failed >>

-----------------------------------------------------------------------------
(* The calls of a worker.                                                  *)

\* The collision matrix a request carries.
MatrixOf(g) ==
  IF pc[g] = "relax" THEN "relaxed"
  ELSE IF pc[g] = "restore" THEN previous_acm[g]
  ELSE "none"

\* async_send_request.
Send(g) ==
  /\ pc[g] \in Calls
  /\ call[g] = "none"
  /\ call' = [call EXCEPT ![g] = "sent"]
  /\ requests' = requests \cup {[from |-> g, op |-> pc[g], acm |-> MatrixOf(g)]}
  /\ UNCHANGED << server, pc, previous_acm, planned, moveit_mutex, budget, node,
                  acm, paused, failed >>

\* The physics synchronizer or move_group serves a request, also one whose
\* caller has given up.  A change that is refused is one never served.
Serve(r) ==
  /\ requests' = requests \ {r}
  /\ call' = IF pc[r.from] = r.op /\ call[r.from] = "sent"
               THEN [call EXCEPT ![r.from] = "answered"] ELSE call
  /\ paused' = IF r.op \in {"pause", "resume"} THEN r.op = "pause" ELSE paused
  /\ acm' = IF r.acm = "none" THEN acm ELSE r.acm
  /\ UNCHANGED << server, pc, previous_acm, planned, moveit_mutex, budget, node,
                  failed >>

\* The executor delivers the answer to the worker that waits for it.
Received(g, op) ==
  /\ pc[g] = op
  /\ call[g] = "answered"
  /\ executor = "free"
  /\ call' = [call EXCEPT ![g] = "none"]

\* Mutant: the wait for the answer has no time limit.
FailedUntimed(g, op) ==
  /\ pc[g] = op
  /\ call[g] = "none"
  /\ UNCHANGED call

\* The service is not there or refuses, or no answer has been delivered when
\* the worker gives up.
Failed(g, op) ==
  /\ pc[g] = op
  /\ call' = [call EXCEPT ![g] = "none"]

-----------------------------------------------------------------------------
(* The motions.                                                            *)

\* The motion goes on to "next".
Continue(g, next) ==
  /\ Goto(g, next)
  /\ UNCHANGED << budget, failed >>

\* Mutant: an exception leaves the scope without restoring the matrix.
LeaveUnscoped(g, how, lost) ==
  /\ Goto(g, IF previous_acm[g] = "none" \/ how = "threw" THEN "unlock" ELSE "restore")
  /\ budget' = IF kind[g] = "check" /\ how # "threw" THEN "full" ELSE budget
  /\ failed' = failed \cup lost
                 \cup IF kind[g] = "check" /\ how = "threw" THEN {"check"} ELSE {}

\* Mutant: a check keeps the budget it was made with.
LeaveReduced(g, how, lost) ==
  /\ Goto(g, IF previous_acm[g] = "none" THEN "unlock" ELSE "restore")
  /\ failed' = failed \cup lost
                 \cup IF kind[g] = "check" /\ how = "threw" THEN {"check"} ELSE {}
  /\ UNCHANGED budget

\* The motion returns or throws.  Its scope restores the matrix in either
\* case, but a check restores the budget only if it returns.
Leave(g, how, lost) ==
  /\ Goto(g, IF previous_acm[g] = "none" THEN "unlock" ELSE "restore")
  /\ budget' = IF kind[g] = "check" /\ how # "threw" THEN "full" ELSE budget
  /\ failed' = failed \cup lost
                 \cup IF kind[g] = "check" /\ how = "threw" THEN {"check"} ELSE {}

StartMotion(g) ==
  /\ pc[g] = "lock"
  /\ moveit_mutex = Nobody
  /\ moveit_mutex' = g
  /\ budget' = IF kind[g] = "check" THEN "reduced" ELSE budget
  /\ Goto(g, "prepare")
  /\ UNCHANGED << server, motion, node, others, failed >>

\* The target is set, a lift clears the octomap, a check tries the goal state:
\* each may fail, and a call of MoveIt may throw.
Prepare(g) ==
  /\ pc[g] = "prepare"
  /\ \/ Continue(g, IF kind[g] \in {"home", "lift"} THEN "scene" ELSE "pause")
     \/ \E how \in {"failed", "threw"} : Leave(g, how, {})
  /\ UNCHANGED << server, motion, moveit_mutex, node, others >>

\* currentAllowedCollisionMatrix: without a matrix nothing is relaxed.
ReadScene(g) ==
  /\ pc[g] = "scene"
  /\ \/ previous_acm' = [previous_acm EXCEPT ![g] = acm] /\ Continue(g, "relax")
     \/ UNCHANGED previous_acm /\ Continue(g, "pause")
  /\ UNCHANGED << server, call, planned, moveit_mutex, node, others >>

\* allowCollisions: a scope that could not relax the matrix restores nothing.
Relax(g) ==
  /\ \/ /\ Received(g, "relax")
        /\ UNCHANGED << previous_acm, failed >>
     \/ /\ Failed(g, "relax")
        /\ previous_acm' = [previous_acm EXCEPT ![g] = "none"]
        /\ failed' = failed \cup {"scene"}
  /\ Goto(g, "pause")
  /\ UNCHANGED << server, planned, moveit_mutex, budget, node, others >>

\* planAndExecute and planOnly: a call to pause that fails throws.
Pause(g) ==
  /\ \/ Received(g, "pause") /\ Continue(g, "plan")
     \/ Failed(g, "pause") /\ Leave(g, "threw", {"physics"})
  /\ UNCHANGED << server, previous_acm, planned, moveit_mutex, node, others >>

\* Mutant: an exception of the planner is not caught.
PlanUncaught(g) ==
  /\ pc[g] = "plan"
  /\ \/ /\ \E how \in {"ok", "failed"} : planned' = [planned EXCEPT ![g] = how]
        /\ Continue(g, "resume")
     \/ UNCHANGED planned /\ Leave(g, "threw", {})
  /\ UNCHANGED << server, call, previous_acm, moveit_mutex, node, others >>

\* plan_with_retries; however it ends, the simulation is to be resumed.
Plan(g) ==
  /\ pc[g] = "plan"
  /\ \E how \in {"ok", "failed", "threw"} : planned' = [planned EXCEPT ![g] = how]
  /\ Continue(g, "resume")
  /\ UNCHANGED << server, call, previous_acm, moveit_mutex, node, others >>

Resume(g) ==
  /\ \/ /\ Received(g, "resume")
        /\ IF planned[g] = "ok" /\ kind[g] # "check"
             THEN Continue(g, "execute")
             ELSE Leave(g, planned[g], {})
     \/ Failed(g, "resume") /\ Leave(g, "threw", {"physics"})
  /\ UNCHANGED << server, previous_acm, planned, moveit_mutex, node, others >>

\* A trajectory under way ends, well or not, only while physics runs ...
Execute(g) ==
  /\ pc[g] = "execute"
  /\ ~paused
  /\ Leave(g, "ok", {})
  /\ UNCHANGED << server, motion, moveit_mutex, node, others >>

\* ... but it may also be refused or aborted at any time.
AbortExecution(g) ==
  /\ pc[g] = "execute"
  /\ Leave(g, "failed", {})
  /\ UNCHANGED << server, motion, moveit_mutex, node, others >>

\* The destructor of the scope: a failure is only logged.
Restore(g) ==
  /\ \/ Received(g, "restore") /\ UNCHANGED failed
     \/ Failed(g, "restore") /\ failed' = failed \cup {"scene"}
  /\ Goto(g, "unlock")
  /\ UNCHANGED << server, previous_acm, planned, moveit_mutex, budget, node, others >>

\* The end of the motion: the lock and what was local to it are gone.
EndMotion(g) ==
  /\ pc[g] = "unlock"
  /\ moveit_mutex' = Nobody
  /\ previous_acm' = [previous_acm EXCEPT ![g] = "none"]
  /\ planned' = [planned EXCEPT ![g] = "no"]
  /\ Goto(g, "release")
  /\ UNCHANGED << server, call, budget, node, others, failed >>

Worker(g) ==
  \/ StartMotion(g) \/ Prepare(g) \/ ReadScene(g) \/ Send(g)
  \/ Relax(g) \/ Pause(g) \/ Plan(g) \/ Resume(g) \/ Execute(g) \/ Restore(g)
  \/ EndMotion(g) \/ ReleaseReservation(g) \/ PublishResult(g)

-----------------------------------------------------------------------------
(* The payload services.                                                   *)

HandlePayload(op) ==
  /\ executor = "free"
  /\ executor' = op
  /\ UNCHANGED << server, pc, motion, moveit_mutex, budget, payload, others, failed >>

\* Mutant: the payload is changed without moveit_mutex_.
ChangePayloadUnlocked ==
  /\ executor # "free"
  /\ payload' \in {payload, executor = "attach"}
  /\ executor' = "free"
  /\ UNCHANGED << server, pc, motion, moveit_mutex, budget, others, failed >>

\* attachPayload and detachPayload, from lock_guard to return; a change that
\* failed leaves the payload as it was, or not.
ChangePayload ==
  /\ executor # "free"
  /\ moveit_mutex = Nobody
  /\ payload' \in {payload, executor = "attach"}
  /\ executor' = "free"
  /\ UNCHANGED << server, pc, motion, moveit_mutex, budget, others, failed >>

-----------------------------------------------------------------------------

Init ==
  /\ motion_active = FALSE
  /\ kind = [g \in Goals |-> "home"]
  /\ pc = [g \in Goals |-> "none"]
  /\ call = [g \in Goals |-> "none"]
  /\ previous_acm = [g \in Goals |-> "none"]
  /\ planned = [g \in Goals |-> "no"]
  /\ moveit_mutex = Nobody
  /\ budget = "full"
  /\ executor = "free"
  /\ payload = FALSE
  /\ requests = {}
  /\ acm = "strict"
  /\ paused = FALSE
  /\ failed = {}

Next ==
  \/ \E g \in Goals : HandleGoal(g) \/ Worker(g) \/ AbortExecution(g)
  \/ \E r \in requests : Serve(r)
  \/ \E op \in {"attach", "detach"} : HandlePayload(op)
  \/ ChangePayload

Spec == Init /\ [][Next]_vars

\* Threads keep running, and every wait of a worker but that for the arm has
\* a time limit, planning included.
Fairness ==
  /\ \A g \in Goals : WF_vars(Worker(g))
  /\ WF_vars(ChangePayload)

FairSpec == Spec /\ Fairness

-----------------------------------------------------------------------------
(* Properties.                                                             *)

\* At most one goal is worked on, and the servers are reserved exactly while
\* one is: a client that has the result of its goal is never refused the next
\* because of it ("a client can immediately submit the next candidate").
OneMotionAtATime ==
  /\ \A g, h \in Goals : pc[g] \in Working /\ pc[h] \in Working => g = h
  /\ motion_active <=> \E g \in Goals : pc[g] \in Working

\* Physics stands still only while a motion is planned, whatever the planner
\* does, as long as no call to pause or to resume it has failed: no arm moves,
\* and no camera is waited for, in a simulation that stands still.
SimulationResumes ==
  paused => \/ \E g \in Goals : pc[g] \in {"pause", "plan", "resume"}
            \/ "physics" \in failed

\* As long as no change of the collision matrix has failed, it is relaxed only
\* inside the scope of the motion it was relaxed for, and what a scope will
\* restore is the strict one.
ScopesRestored ==
  "scene" \notin failed
    => /\ acm = "relaxed"
            => \E g \in Goals : previous_acm[g] = "strict" /\ pc[g] # "unlock"
       /\ \A g \in Goals : previous_acm[g] # "relaxed"

\* A motion is planned with the full budget, unless an earlier check threw.
FullBudget ==
  \A g \in Goals :
    pc[g] = "plan" /\ kind[g] # "check" /\ budget = "reduced" => "check" \in failed

\* The payload box comes and goes only between two motions: what a motion was
\* planned with is there while it is executed.
PayloadFixedInMotion ==
  [][payload' # payload => \A g \in Goals : pc[g] \notin Holding]_payload

\* Every accepted goal gets its result, although the executor that delivers
\* the worker's answers may itself wait for the worker, in a payload callback;
\* only a simulation that is left paused can stop the arm for ever.
EveryGoalEnds ==
  []<>~paused => \A g \in Goals : pc[g] = "lock" ~> pc[g] = "done"

\* How far a goal has come, seen from outside: it is moving while its worker
\* holds moveit_mutex_.
StageOf(place) ==
  CASE place = "none"      -> "unsent"
    [] place = "rejected"  -> "refused"
    [] place = "lock"      -> "accepted"
    [] place \in Holding   -> "moving"
    [] place = "release"   -> "moved"
    [] place = "publish"   -> "ended"
    [] place = "done"      -> "reported"

Service == INSTANCE ArmService WITH
  stage <- [g \in Goals |-> StageOf(pc[g])],
  reserved <- motion_active,
  relaxed <- acm = "relaxed"

\* Workers, locks, calls with time limits and what is served after them
\* implement ArmService: each motion has the arm and the payload to itself,
\* hands physics and collisions on as it found them unless a call failed, and
\* gives its reservation back before its client can know ("a client can
\* immediately submit the next candidate").
ImplementsArmService == Service!Spec

\* "A scope that could not change the scene restores nothing, which leaves the
\* motion planned with every collision checked as usual"
\* (planning_scene_manager.hpp).
InactiveScopeIsStrict ==
  \A g \in Goals : pc[g] = "plan" /\ previous_acm[g] = "none" => acm = "strict"

\* "Keep full planning budgets for actual arm motions" (checkPoseReachability).
BudgetKept ==
  \A g \in Goals : pc[g] = "plan" /\ kind[g] # "check" => budget = "full"
=============================================================================
