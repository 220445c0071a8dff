----------------------- MODULE GraspPoseProvider_proofs -----------------------
(***************************************************************************)
(* Theorems about GraspPoseProvider, for any number of goals and cameras.  *)
(***************************************************************************)
EXTENDS GraspPoseProvider, TLAPS

-----------------------------------------------------------------------------
(* The inductive invariant.                                                *)

Request == [from : Goals, op : Calls \cup {"arm_pause", "arm_resume"}]

GoalsOK ==
  /\ pc \in [Goals -> PCs]
  /\ result \in [Goals -> {"none", "succeeded", "aborted"}]
  /\ candidates \in [Goals -> 0 .. MaxCandidates]
  /\ call \in [Goals -> {"none", "sent", "answered"}]
  /\ check \in [Goals -> {"none", "sent", "rejected", "reserved", "planning",
                          "reachable", "unreachable"}]
  /\ motion_active \in Goals \cup {Nobody}
  /\ requests \in SUBSET Request

CloudsOK ==
  /\ minimum \in [Goals -> [Topics -> Nat]]
  /\ marked \in [Goals -> Marks]
  /\ messages \in [Topics -> Scenes]
  /\ sequences \in [Topics -> Nat]
  /\ scene \in Scenes
  /\ published \in Scenes
  /\ transit \in [Topics -> Scenes]
  /\ taken \in [Topics -> SUBSET Scenes]

FlagsOK ==
  /\ simulation_paused \in [Goals -> BOOLEAN]
  /\ paused \in BOOLEAN
  /\ failed \in BOOLEAN

\* A goal makes no call and has no check under way where it awaits none.
IdleInv ==
  \A g \in Goals :
    /\ call[g] # "none" => pc[g] \in Calls
    /\ pc[g] \in {"none", "capture", "pause", "generate", "resume", "check"}
         => check[g] \in {"none", "unreachable"}

\* A goal that has paused physics knows it until it has resumed it.
PausedInv ==
  \A g \in Goals : pc[g] \in {"generate", "resume"} => simulation_paused[g]

\* The arm is reserved for the goal whose check is under way.
ArmInv ==
  \A g \in Goals : motion_active = g <=> check[g] \in {"reserved", "planning"}

\* Only after a call has failed is there a request that nobody waits for.
AwaitedInv ==
  ~failed => \A r \in requests : pc[r.from] = r.op /\ call[r.from] = "sent"

Owes(g) ==
  \/ pc[g] = "pause" /\ call[g] = "answered"
  \/ pc[g] = "generate"
  \/ pc[g] \in {"resume", "cleanup"} /\ call[g] # "answered"
  \/ check[g] = "planning"

OwedInv == paused /\ ~failed => \E g \in Goals : Owes(g)

\* What a cloud is that was stored after the mark of a goal.
Fresh(g, t, s) == s > marked[g].clouds[t] \/ s \in marked[g].held[t]

\* A camera's clouds reach the node in the order of their scenes, whatever the
\* order they are stored in.  Those that a goal has not counted were held when
\* it arrived, or are of later scenes than the one that was there.
CloudsInv ==
  /\ published <= scene
  /\ \A t \in Topics :
       /\ messages[t] <= published
       /\ transit[t] <= published
       /\ transit[t] # 0 => messages[t] < transit[t]
       /\ \A s \in taken[t] :
            s <= published /\ (transit[t] # 0 => s < transit[t])
  /\ \A g \in Goals : pc[g] = "capture" =>
       \A t \in Topics :
         /\ marked[g].clouds[t] <= published
         /\ transit[t] # 0 => marked[g].clouds[t] < transit[t]
         /\ \A s \in taken[t] : Fresh(g, t, s)
         /\ minimum[g][t] < sequences[t] => Fresh(g, t, messages[t])

GoalInv == GoalsOK /\ IdleInv
PhysicsInv == FlagsOK /\ PausedInv /\ AwaitedInv /\ OwedInv
IInv == GoalInv /\ ArmInv /\ PhysicsInv /\ CloudsOK /\ CloudsInv

-----------------------------------------------------------------------------
\* The invariant holds initially.
LEMMA InitInv == Init => IInv
<1> SUFFICES ASSUME Init PROVE IInv
  OBVIOUS
<1>1. GoalInv /\ ArmInv
  BY NobodyAssumption, LimitsAssumption
  DEF Init, GoalInv, GoalsOK, IdleInv, ArmInv, Request, PCs, Calls
<1>2. FlagsOK
  BY Zenon DEF Init, FlagsOK
<1>3. PausedInv /\ AwaitedInv /\ OwedInv
  BY DEF Init, PausedInv, AwaitedInv, OwedInv
<1>4. CloudsOK /\ CloudsInv
  BY LimitsAssumption DEF Init, NewSnapshotter, CloudsOK, CloudsInv, Scenes, Marks,
      NoMark
<1> QED
  BY <1>1, <1>2, <1>3, <1>4 DEF IInv, PhysicsInv

-----------------------------------------------------------------------------
\* The part of the state that has no order on it keeps its type.
LEMMA GoalsStep == GoalsOK /\ [Next]_vars => GoalsOK'
<1> SUFFICES ASSUME GoalsOK, [Next]_vars PROVE GoalsOK'
  OBVIOUS
<1>1. ASSUME NEW g \in Goals, AcceptGoal(g) PROVE GoalsOK'
  BY <1>1, LimitsAssumption
  DEF AcceptGoal, Goto, goal, mark, arm, physics, clouds, GoalsOK, Request,
      PCs, Calls
<1>2. ASSUME NEW g \in Goals, Capture(g) PROVE GoalsOK'
  BY <1>2, LimitsAssumption
  DEF Capture, EndGoal, Goto, goal, mark, arm, physics, clouds, GoalsOK,
      Request, PCs, Calls
<1>3. ASSUME NEW g \in Goals, Send(g) PROVE GoalsOK'
  BY <1>3, LimitsAssumption
  DEF Send, goal, mark, arm, physics, clouds, GoalsOK, Request, PCs, Calls
<1>4. ASSUME NEW g \in Goals, Pause(g) PROVE GoalsOK'
  BY <1>4, LimitsAssumption
  DEF Pause, Received, Failed, EndGoal, Goto, goal, mark, arm, physics,
      clouds, GoalsOK, Request, PCs, Calls
<1>5. ASSUME NEW g \in Goals, Generate(g) PROVE GoalsOK'
  BY <1>5, LimitsAssumption
  DEF Generate, EndGoal, Goto, goal, mark, arm, physics, clouds, GoalsOK,
      Request, PCs, Calls
<1>6. ASSUME NEW g \in Goals, Resume(g) PROVE GoalsOK'
  BY <1>6, LimitsAssumption
  DEF Resume, Received, Failed, EndGoal, Goto, goal, mark, arm, physics,
      clouds, GoalsOK, Request, PCs, Calls
<1>7. ASSUME NEW g \in Goals, Cleanup(g) PROVE GoalsOK'
  BY <1>7, LimitsAssumption
  DEF Cleanup, Received, Failed, Goto, goal, mark, arm, physics, clouds,
      GoalsOK, Request, PCs, Calls
<1>8. ASSUME NEW g \in Goals, CheckNext(g) PROVE GoalsOK'
  BY <1>8, LimitsAssumption
  DEF CheckNext, EndGoal, Goto, goal, mark, arm, physics, clouds, GoalsOK,
      Request, PCs, Calls
<1>9. ASSUME NEW g \in Goals, GoalResponse(g) PROVE GoalsOK'
  BY <1>9, LimitsAssumption
  DEF GoalResponse, EndGoal, Goto, goal, mark, arm, physics, clouds, GoalsOK,
      Request, PCs, Calls
<1>10. ASSUME NEW g \in Goals, CheckResult(g) PROVE GoalsOK'
  BY <1>10, LimitsAssumption
  DEF CheckResult, EndGoal, Goto, goal, mark, arm, physics, clouds, GoalsOK,
      Request, PCs, Calls
<1>11. ASSUME NEW g \in Goals, ArmReserves(g) PROVE GoalsOK'
  BY <1>11, LimitsAssumption
  DEF ArmReserves, goal, mark, arm, physics, clouds, GoalsOK, Request, PCs,
      Calls
<1>12. ASSUME NEW g \in Goals, ArmPauses(g) PROVE GoalsOK'
  BY <1>12, LimitsAssumption
  DEF ArmPauses, ArmEnds, ArmFails, goal, mark, arm, physics, clouds, GoalsOK,
      Request, PCs, Calls
<1>13. ASSUME NEW g \in Goals, ArmPlans(g) PROVE GoalsOK'
  BY <1>13, LimitsAssumption
  DEF ArmPlans, ArmEnds, ArmFails, goal, mark, arm, physics, clouds, GoalsOK,
      Request, PCs, Calls
<1>14. ASSUME NEW r \in requests, Serve(r) PROVE GoalsOK'
  BY <1>14, LimitsAssumption
  DEF Serve, goal, mark, arm, physics, clouds, GoalsOK, Request, PCs, Calls
<1>15. ASSUME TakeSnapshot PROVE GoalsOK'
  BY <1>15, LimitsAssumption
  DEF TakeSnapshot, goal, mark, arm, physics, clouds, GoalsOK, Request, PCs,
      Calls
<1>16. ASSUME PublishClouds PROVE GoalsOK'
  BY <1>16, LimitsAssumption
  DEF PublishClouds, goal, mark, arm, physics, clouds, GoalsOK, Request, PCs,
      Calls
<1>17. ASSUME NEW t \in Topics, Take(t) PROVE GoalsOK'
  BY <1>17, LimitsAssumption
  DEF Take, goal, mark, arm, physics, clouds, GoalsOK, Request, PCs, Calls
<1>18. ASSUME NEW t \in Topics, NEW s \in taken[t], Receive(t, s) PROVE GoalsOK'
  BY <1>18, LimitsAssumption
  DEF Receive, goal, mark, arm, physics, clouds, GoalsOK, Request, PCs, Calls
<1>19. CASE UNCHANGED vars
  BY <1>19, LimitsAssumption
  DEF goal, mark, arm, physics, clouds, vars, GoalsOK, Request, PCs, Calls
<1> QED
  BY <1>1, <1>2, <1>3, <1>4, <1>5, <1>6, <1>7, <1>8, <1>9, <1>10, <1>11,
  <1>12, <1>13, <1>14, <1>15, <1>16, <1>17, <1>18, <1>19
     DEF Next, Worker, Arm

-----------------------------------------------------------------------------
\* A call or a check is under way only where the goal awaits it.
LEMMA IdleStep == GoalInv /\ [Next]_vars => IdleInv'
<1> SUFFICES ASSUME GoalInv, [Next]_vars PROVE IdleInv'
  OBVIOUS
<1>1. ASSUME NEW g \in Goals, AcceptGoal(g) PROVE IdleInv'
  BY <1>1
  DEF AcceptGoal, Goto, goal, mark, arm, physics, clouds, GoalInv, IdleInv,
      GoalsOK, Request, PCs, Calls
<1>2. ASSUME NEW g \in Goals, Capture(g) PROVE IdleInv'
  BY <1>2
  DEF Capture, EndGoal, Goto, goal, mark, arm, physics, clouds, GoalInv,
      IdleInv, GoalsOK, Request, PCs, Calls
<1>3. ASSUME NEW g \in Goals, Send(g) PROVE IdleInv'
  BY <1>3
  DEF Send, goal, mark, arm, physics, clouds, GoalInv, IdleInv, GoalsOK,
      Request, PCs, Calls
<1>4. ASSUME NEW g \in Goals, Pause(g) PROVE IdleInv'
  BY <1>4
  DEF Pause, Received, Failed, EndGoal, Goto, goal, mark, arm, physics,
      clouds, GoalInv, IdleInv, GoalsOK, Request, PCs, Calls
<1>5. ASSUME NEW g \in Goals, Generate(g) PROVE IdleInv'
  BY <1>5
  DEF Generate, EndGoal, Goto, goal, mark, arm, physics, clouds, GoalInv,
      IdleInv, GoalsOK, Request, PCs, Calls
<1>6. ASSUME NEW g \in Goals, Resume(g) PROVE IdleInv'
  BY <1>6
  DEF Resume, Received, Failed, EndGoal, Goto, goal, mark, arm, physics,
      clouds, GoalInv, IdleInv, GoalsOK, Request, PCs, Calls
<1>7. ASSUME NEW g \in Goals, Cleanup(g) PROVE IdleInv'
  BY <1>7
  DEF Cleanup, Received, Failed, Goto, goal, mark, arm, physics, clouds,
      GoalInv, IdleInv, GoalsOK, Request, PCs, Calls
<1>8. ASSUME NEW g \in Goals, CheckNext(g) PROVE IdleInv'
  BY <1>8
  DEF CheckNext, EndGoal, Goto, goal, mark, arm, physics, clouds, GoalInv,
      IdleInv, GoalsOK, Request, PCs, Calls
<1>9. ASSUME NEW g \in Goals, GoalResponse(g) PROVE IdleInv'
  BY <1>9
  DEF GoalResponse, EndGoal, Goto, goal, mark, arm, physics, clouds, GoalInv,
      IdleInv, GoalsOK, Request, PCs, Calls
<1>10. ASSUME NEW g \in Goals, CheckResult(g) PROVE IdleInv'
  BY <1>10
  DEF CheckResult, EndGoal, Goto, goal, mark, arm, physics, clouds, GoalInv,
      IdleInv, GoalsOK, Request, PCs, Calls
<1>11. ASSUME NEW g \in Goals, ArmReserves(g) PROVE IdleInv'
  BY <1>11
  DEF ArmReserves, goal, mark, arm, physics, clouds, GoalInv, IdleInv,
      GoalsOK, Request, PCs, Calls
<1>12. ASSUME NEW g \in Goals, ArmPauses(g) PROVE IdleInv'
  BY <1>12
  DEF ArmPauses, ArmEnds, ArmFails, goal, mark, arm, physics, clouds, GoalInv,
      IdleInv, GoalsOK, Request, PCs, Calls
<1>13. ASSUME NEW g \in Goals, ArmPlans(g) PROVE IdleInv'
  BY <1>13
  DEF ArmPlans, ArmEnds, ArmFails, goal, mark, arm, physics, clouds, GoalInv,
      IdleInv, GoalsOK, Request, PCs, Calls
<1>14. ASSUME NEW r \in requests, Serve(r) PROVE IdleInv'
  BY <1>14
  DEF Serve, goal, mark, arm, physics, clouds, GoalInv, IdleInv, GoalsOK,
      Request, PCs, Calls
<1>15. ASSUME TakeSnapshot PROVE IdleInv'
  BY <1>15
  DEF TakeSnapshot, goal, mark, arm, physics, clouds, GoalInv, IdleInv,
      GoalsOK, Request, PCs, Calls
<1>16. ASSUME PublishClouds PROVE IdleInv'
  BY <1>16
  DEF PublishClouds, goal, mark, arm, physics, clouds, GoalInv, IdleInv,
      GoalsOK, Request, PCs, Calls
<1>17. ASSUME NEW t \in Topics, Take(t) PROVE IdleInv'
  BY <1>17
  DEF Take, goal, mark, arm, physics, clouds, GoalInv, IdleInv, GoalsOK,
      Request, PCs, Calls
<1>18. ASSUME NEW t \in Topics, NEW s \in taken[t], Receive(t, s) PROVE IdleInv'
  BY <1>18
  DEF Receive, goal, mark, arm, physics, clouds, GoalInv, IdleInv, GoalsOK,
      Request, PCs, Calls
<1>19. CASE UNCHANGED vars
  BY <1>19
  DEF goal, mark, arm, physics, clouds, vars, GoalInv, IdleInv, GoalsOK,
      Request, PCs, Calls
<1> QED
  BY <1>1, <1>2, <1>3, <1>4, <1>5, <1>6, <1>7, <1>8, <1>9, <1>10, <1>11,
  <1>12, <1>13, <1>14, <1>15, <1>16, <1>17, <1>18, <1>19
     DEF Next, Worker, Arm

-----------------------------------------------------------------------------
\* The reservation follows the check.
LEMMA ArmStep == GoalInv /\ ArmInv /\ [Next]_vars => ArmInv'
<1> SUFFICES ASSUME GoalInv /\ ArmInv, [Next]_vars PROVE ArmInv'
  OBVIOUS
<1>1. ASSUME NEW g \in Goals, AcceptGoal(g) PROVE ArmInv'
  BY <1>1, NobodyAssumption
  DEF AcceptGoal, Goto, goal, mark, arm, physics, clouds, GoalInv, IdleInv,
      ArmInv, GoalsOK
<1>2. ASSUME NEW g \in Goals, Capture(g) PROVE ArmInv'
  BY <1>2, NobodyAssumption
  DEF Capture, EndGoal, Goto, goal, mark, arm, physics, clouds, GoalInv,
      IdleInv, ArmInv, GoalsOK
<1>3. ASSUME NEW g \in Goals, Send(g) PROVE ArmInv'
  BY <1>3, NobodyAssumption
  DEF Send, goal, mark, arm, physics, clouds, GoalInv, IdleInv, ArmInv,
      GoalsOK
<1>4. ASSUME NEW g \in Goals, Pause(g) PROVE ArmInv'
  BY <1>4, NobodyAssumption
  DEF Pause, Received, Failed, EndGoal, Goto, goal, mark, arm, physics,
      clouds, GoalInv, IdleInv, ArmInv, GoalsOK
<1>5. ASSUME NEW g \in Goals, Generate(g) PROVE ArmInv'
  BY <1>5, NobodyAssumption
  DEF Generate, EndGoal, Goto, goal, mark, arm, physics, clouds, GoalInv,
      IdleInv, ArmInv, GoalsOK
<1>6. ASSUME NEW g \in Goals, Resume(g) PROVE ArmInv'
  BY <1>6, NobodyAssumption
  DEF Resume, Received, Failed, EndGoal, Goto, goal, mark, arm, physics,
      clouds, GoalInv, IdleInv, ArmInv, GoalsOK
<1>7. ASSUME NEW g \in Goals, Cleanup(g) PROVE ArmInv'
  BY <1>7, NobodyAssumption
  DEF Cleanup, Received, Failed, Goto, goal, mark, arm, physics, clouds,
      GoalInv, IdleInv, ArmInv, GoalsOK
<1>8. ASSUME NEW g \in Goals, CheckNext(g) PROVE ArmInv'
  BY <1>8, NobodyAssumption
  DEF CheckNext, EndGoal, Goto, goal, mark, arm, physics, clouds, GoalInv,
      IdleInv, ArmInv, GoalsOK
<1>9. ASSUME NEW g \in Goals, GoalResponse(g) PROVE ArmInv'
  BY <1>9, NobodyAssumption
  DEF GoalResponse, EndGoal, Goto, goal, mark, arm, physics, clouds, GoalInv,
      IdleInv, ArmInv, GoalsOK
<1>10. ASSUME NEW g \in Goals, CheckResult(g) PROVE ArmInv'
  BY <1>10, NobodyAssumption
  DEF CheckResult, EndGoal, Goto, goal, mark, arm, physics, clouds, GoalInv,
      IdleInv, ArmInv, GoalsOK
<1>11. ASSUME NEW g \in Goals, ArmReserves(g) PROVE ArmInv'
  BY <1>11, NobodyAssumption
  DEF ArmReserves, goal, mark, arm, physics, clouds, GoalInv, IdleInv, ArmInv,
      GoalsOK
<1>12. ASSUME NEW g \in Goals, ArmPauses(g) PROVE ArmInv'
  BY <1>12, NobodyAssumption
  DEF ArmPauses, ArmEnds, ArmFails, goal, mark, arm, physics, clouds, GoalInv,
      IdleInv, ArmInv, GoalsOK
<1>13. ASSUME NEW g \in Goals, ArmPlans(g) PROVE ArmInv'
  BY <1>13, NobodyAssumption
  DEF ArmPlans, ArmEnds, ArmFails, goal, mark, arm, physics, clouds, GoalInv,
      IdleInv, ArmInv, GoalsOK
<1>14. ASSUME NEW r \in requests, Serve(r) PROVE ArmInv'
  BY <1>14, NobodyAssumption
  DEF Serve, goal, mark, arm, physics, clouds, GoalInv, IdleInv, ArmInv,
      GoalsOK
<1>15. ASSUME TakeSnapshot PROVE ArmInv'
  BY <1>15, NobodyAssumption
  DEF TakeSnapshot, goal, mark, arm, physics, clouds, GoalInv, IdleInv,
      ArmInv, GoalsOK
<1>16. ASSUME PublishClouds PROVE ArmInv'
  BY <1>16, NobodyAssumption
  DEF PublishClouds, goal, mark, arm, physics, clouds, GoalInv, IdleInv,
      ArmInv, GoalsOK
<1>17. ASSUME NEW t \in Topics, Take(t) PROVE ArmInv'
  BY <1>17, NobodyAssumption
  DEF Take, goal, mark, arm, physics, clouds, GoalInv, IdleInv, ArmInv,
      GoalsOK
<1>18. ASSUME NEW t \in Topics, NEW s \in taken[t], Receive(t, s) PROVE ArmInv'
  BY <1>18, NobodyAssumption
  DEF Receive, goal, mark, arm, physics, clouds, GoalInv, IdleInv, ArmInv,
      GoalsOK
<1>19. CASE UNCHANGED vars
  BY <1>19, NobodyAssumption
  DEF goal, mark, arm, physics, clouds, vars, GoalInv, IdleInv, ArmInv,
      GoalsOK
<1> QED
  BY <1>1, <1>2, <1>3, <1>4, <1>5, <1>6, <1>7, <1>8, <1>9, <1>10, <1>11,
  <1>12, <1>13, <1>14, <1>15, <1>16, <1>17, <1>18, <1>19
     DEF Next, Worker, Arm

-----------------------------------------------------------------------------
\* The clouds and the marks keep their order in a step that changes neither,
\* and in which no goal begins to wait for clouds.
LEMMA CloudsStay ==
  ASSUME CloudsOK, CloudsInv, UNCHANGED << mark, clouds >>,
         \A g \in Goals : pc'[g] = "capture" => pc[g] = "capture"
  PROVE  (CloudsOK /\ CloudsInv)'
<1>1. UNCHANGED << minimum, marked, messages, sequences, scene, published,
                   transit, taken >>
  BY DEF mark, clouds
<1>2. CloudsOK'
  BY <1>1, Zenon DEF CloudsOK
<1>3. CloudsInv'
  BY <1>1 DEF CloudsInv, Fresh
<1> QED
  BY <1>2, <1>3

\* The clouds, the marks and their order.
LEMMA CloudsStep == GoalsOK /\ CloudsOK /\ CloudsInv /\ [Next]_vars => (CloudsOK /\ CloudsInv)'
<1> SUFFICES ASSUME GoalsOK /\ CloudsOK /\ CloudsInv, [Next]_vars PROVE (CloudsOK /\ CloudsInv)'
  OBVIOUS
<1>1. ASSUME NEW g \in Goals, AcceptGoal(g) PROVE (CloudsOK /\ CloudsInv)'
  BY <1>1, LimitsAssumption
  DEF AcceptGoal, Goto, goal, mark, arm, physics, clouds, CloudsOK, CloudsInv,
      GoalsOK, Scenes, Marks, NoMark, Fresh
<1>2. ASSUME NEW g \in Goals, Capture(g) PROVE (CloudsOK /\ CloudsInv)'
  BY <1>2, LimitsAssumption
  DEF Capture, EndGoal, Goto, goal, mark, arm, physics, clouds, CloudsOK,
      CloudsInv, GoalsOK, Scenes, Marks, NoMark, Fresh
<1>3. ASSUME NEW g \in Goals, Send(g) PROVE (CloudsOK /\ CloudsInv)'
  <2>1. UNCHANGED << mark, clouds >>
    BY <1>3 DEF Send
  <2>2. \A h \in Goals : pc'[h] = "capture" => pc[h] = "capture"
    BY <1>3 DEF GoalsOK, Send
  <2> QED
    BY <2>1, <2>2, CloudsStay
<1>4. ASSUME NEW g \in Goals, Pause(g) PROVE (CloudsOK /\ CloudsInv)'
  <2>1. UNCHANGED << mark, clouds >>
    BY <1>4 DEF Pause
  <2>2. \A h \in Goals : pc'[h] = "capture" => pc[h] = "capture"
    BY <1>4 DEF GoalsOK, Pause, Received, Failed, EndGoal, Goto
  <2> QED
    BY <2>1, <2>2, CloudsStay
<1>5. ASSUME NEW g \in Goals, Generate(g) PROVE (CloudsOK /\ CloudsInv)'
  <2>1. UNCHANGED << mark, clouds >>
    BY <1>5 DEF Generate
  <2>2. \A h \in Goals : pc'[h] = "capture" => pc[h] = "capture"
    BY <1>5 DEF GoalsOK, Generate, EndGoal, Goto
  <2> QED
    BY <2>1, <2>2, CloudsStay
<1>6. ASSUME NEW g \in Goals, Resume(g) PROVE (CloudsOK /\ CloudsInv)'
  <2>1. UNCHANGED << mark, clouds >>
    BY <1>6 DEF Resume
  <2>2. \A h \in Goals : pc'[h] = "capture" => pc[h] = "capture"
    BY <1>6 DEF GoalsOK, Resume, Received, Failed, EndGoal, Goto
  <2> QED
    BY <2>1, <2>2, CloudsStay
<1>7. ASSUME NEW g \in Goals, Cleanup(g) PROVE (CloudsOK /\ CloudsInv)'
  <2>1. UNCHANGED << mark, clouds >>
    BY <1>7 DEF Cleanup
  <2>2. \A h \in Goals : pc'[h] = "capture" => pc[h] = "capture"
    BY <1>7 DEF GoalsOK, Cleanup, Received, Failed, Goto
  <2> QED
    BY <2>1, <2>2, CloudsStay
<1>8. ASSUME NEW g \in Goals, CheckNext(g) PROVE (CloudsOK /\ CloudsInv)'
  <2>1. UNCHANGED << mark, clouds >>
    BY <1>8 DEF CheckNext
  <2>2. \A h \in Goals : pc'[h] = "capture" => pc[h] = "capture"
    BY <1>8 DEF GoalsOK, CheckNext, EndGoal, Goto
  <2> QED
    BY <2>1, <2>2, CloudsStay
<1>9. ASSUME NEW g \in Goals, GoalResponse(g) PROVE (CloudsOK /\ CloudsInv)'
  <2>1. UNCHANGED << mark, clouds >>
    BY <1>9 DEF GoalResponse
  <2>2. \A h \in Goals : pc'[h] = "capture" => pc[h] = "capture"
    BY <1>9 DEF GoalsOK, GoalResponse, EndGoal, Goto
  <2> QED
    BY <2>1, <2>2, CloudsStay
<1>10. ASSUME NEW g \in Goals, CheckResult(g) PROVE (CloudsOK /\ CloudsInv)'
  <2>1. UNCHANGED << mark, clouds >>
    BY <1>10 DEF CheckResult
  <2>2. \A h \in Goals : pc'[h] = "capture" => pc[h] = "capture"
    BY <1>10 DEF GoalsOK, CheckResult, EndGoal, Goto
  <2> QED
    BY <2>1, <2>2, CloudsStay
<1>11. ASSUME NEW g \in Goals, ArmReserves(g) PROVE (CloudsOK /\ CloudsInv)'
  <2>1. UNCHANGED << mark, clouds >>
    BY <1>11 DEF ArmReserves
  <2>2. \A h \in Goals : pc'[h] = "capture" => pc[h] = "capture"
    BY <1>11 DEF GoalsOK, ArmReserves
  <2> QED
    BY <2>1, <2>2, CloudsStay
<1>12. ASSUME NEW g \in Goals, ArmPauses(g) PROVE (CloudsOK /\ CloudsInv)'
  <2>1. UNCHANGED << mark, clouds >>
    BY <1>12 DEF ArmPauses
  <2>2. \A h \in Goals : pc'[h] = "capture" => pc[h] = "capture"
    BY <1>12 DEF GoalsOK, ArmPauses, ArmEnds, ArmFails
  <2> QED
    BY <2>1, <2>2, CloudsStay
<1>13. ASSUME NEW g \in Goals, ArmPlans(g) PROVE (CloudsOK /\ CloudsInv)'
  <2>1. UNCHANGED << mark, clouds >>
    BY <1>13 DEF ArmPlans
  <2>2. \A h \in Goals : pc'[h] = "capture" => pc[h] = "capture"
    BY <1>13 DEF GoalsOK, ArmPlans, ArmEnds, ArmFails
  <2> QED
    BY <2>1, <2>2, CloudsStay
<1>14. ASSUME NEW r \in requests, Serve(r) PROVE (CloudsOK /\ CloudsInv)'
  <2>1. UNCHANGED << mark, clouds >>
    BY <1>14 DEF Serve
  <2>2. \A h \in Goals : pc'[h] = "capture" => pc[h] = "capture"
    BY <1>14 DEF GoalsOK, Serve
  <2> QED
    BY <2>1, <2>2, CloudsStay
<1>15. ASSUME TakeSnapshot PROVE (CloudsOK /\ CloudsInv)'
  BY <1>15, LimitsAssumption
  DEF TakeSnapshot, goal, mark, arm, physics, clouds, CloudsOK, CloudsInv,
      GoalsOK, Scenes, Marks, NoMark, Fresh
<1>16. ASSUME PublishClouds PROVE (CloudsOK /\ CloudsInv)'
  BY <1>16, LimitsAssumption
  DEF PublishClouds, goal, mark, arm, physics, clouds, CloudsOK, CloudsInv,
      GoalsOK, Scenes, Marks, NoMark, Fresh
<1>17. ASSUME NEW t \in Topics, Take(t) PROVE (CloudsOK /\ CloudsInv)'
  BY <1>17, LimitsAssumption
  DEF Take, goal, mark, arm, physics, clouds, CloudsOK, CloudsInv, GoalsOK,
      Scenes, Marks, NoMark, Fresh
<1>18. ASSUME NEW t \in Topics, NEW s \in taken[t], Receive(t, s) PROVE (CloudsOK /\ CloudsInv)'
  BY <1>18, LimitsAssumption
  DEF Receive, goal, mark, arm, physics, clouds, CloudsOK, CloudsInv, GoalsOK,
      Scenes, Marks, NoMark, Fresh
<1>19. CASE UNCHANGED vars
  BY <1>19, LimitsAssumption
  DEF goal, mark, arm, physics, clouds, vars, CloudsOK, CloudsInv, GoalsOK,
      Scenes, Marks, NoMark, Fresh
<1> QED
  BY <1>1, <1>2, <1>3, <1>4, <1>5, <1>6, <1>7, <1>8, <1>9, <1>10, <1>11,
  <1>12, <1>13, <1>14, <1>15, <1>16, <1>17, <1>18, <1>19
     DEF Next, Worker, Arm

-----------------------------------------------------------------------------
\* The flags stay flags.
LEMMA FlagsStep == FlagsOK /\ [Next]_vars => FlagsOK'
<1> SUFFICES ASSUME FlagsOK, [Next]_vars PROVE FlagsOK'
  OBVIOUS
<1>1. ASSUME NEW g \in Goals, AcceptGoal(g) PROVE FlagsOK'
  BY <1>1, Zenon
  DEF AcceptGoal, Goto, goal, mark, arm, physics, clouds, FlagsOK
<1>2. ASSUME NEW g \in Goals, Capture(g) PROVE FlagsOK'
  BY <1>2, Zenon
  DEF Capture, EndGoal, Goto, goal, mark, arm, physics, clouds, FlagsOK
<1>3. ASSUME NEW g \in Goals, Send(g) PROVE FlagsOK'
  BY <1>3, Zenon
  DEF Send, goal, mark, arm, physics, clouds, FlagsOK
<1>4. ASSUME NEW g \in Goals, Pause(g) PROVE FlagsOK'
  BY <1>4, Zenon
  DEF Pause, Received, Failed, EndGoal, Goto, goal, mark, arm, physics,
      clouds, FlagsOK
<1>5. ASSUME NEW g \in Goals, Generate(g) PROVE FlagsOK'
  BY <1>5, Zenon
  DEF Generate, EndGoal, Goto, goal, mark, arm, physics, clouds, FlagsOK
<1>6. ASSUME NEW g \in Goals, Resume(g) PROVE FlagsOK'
  BY <1>6, Zenon
  DEF Resume, Received, Failed, EndGoal, Goto, goal, mark, arm, physics,
      clouds, FlagsOK
<1>7. ASSUME NEW g \in Goals, Cleanup(g) PROVE FlagsOK'
  BY <1>7, Zenon
  DEF Cleanup, Received, Failed, Goto, goal, mark, arm, physics, clouds,
      FlagsOK
<1>8. ASSUME NEW g \in Goals, CheckNext(g) PROVE FlagsOK'
  BY <1>8, Zenon
  DEF CheckNext, EndGoal, Goto, goal, mark, arm, physics, clouds, FlagsOK
<1>9. ASSUME NEW g \in Goals, GoalResponse(g) PROVE FlagsOK'
  BY <1>9, Zenon
  DEF GoalResponse, EndGoal, Goto, goal, mark, arm, physics, clouds, FlagsOK
<1>10. ASSUME NEW g \in Goals, CheckResult(g) PROVE FlagsOK'
  BY <1>10, Zenon
  DEF CheckResult, EndGoal, Goto, goal, mark, arm, physics, clouds, FlagsOK
<1>11. ASSUME NEW g \in Goals, ArmReserves(g) PROVE FlagsOK'
  BY <1>11, Zenon
  DEF ArmReserves, goal, mark, arm, physics, clouds, FlagsOK
<1>12. ASSUME NEW g \in Goals, ArmPauses(g) PROVE FlagsOK'
  BY <1>12, Zenon
  DEF ArmPauses, ArmEnds, ArmFails, goal, mark, arm, physics, clouds, FlagsOK
<1>13. ASSUME NEW g \in Goals, ArmPlans(g) PROVE FlagsOK'
  BY <1>13, Zenon
  DEF ArmPlans, ArmEnds, ArmFails, goal, mark, arm, physics, clouds, FlagsOK
<1>14. ASSUME NEW r \in requests, Serve(r) PROVE FlagsOK'
  <2>1. paused' = (r.op \in {"pause", "arm_pause"})
    BY <1>14 DEF Serve
  <2>2. paused' \in BOOLEAN
    BY <2>1
  <2>3. UNCHANGED << simulation_paused, failed >>
    BY <1>14 DEF Serve, goal
  <2> QED
    BY <2>2, <2>3, Zenon DEF FlagsOK
<1>15. ASSUME TakeSnapshot PROVE FlagsOK'
  BY <1>15, Zenon
  DEF TakeSnapshot, goal, mark, arm, physics, clouds, FlagsOK
<1>16. ASSUME PublishClouds PROVE FlagsOK'
  BY <1>16, Zenon
  DEF PublishClouds, goal, mark, arm, physics, clouds, FlagsOK
<1>17. ASSUME NEW t \in Topics, Take(t) PROVE FlagsOK'
  BY <1>17, Zenon
  DEF Take, goal, mark, arm, physics, clouds, FlagsOK
<1>18. ASSUME NEW t \in Topics, NEW s \in taken[t], Receive(t, s) PROVE FlagsOK'
  BY <1>18, Zenon
  DEF Receive, goal, mark, arm, physics, clouds, FlagsOK
<1>19. CASE UNCHANGED vars
  BY <1>19, Zenon
  DEF goal, mark, arm, physics, clouds, vars, FlagsOK
<1> QED
  BY <1>1, <1>2, <1>3, <1>4, <1>5, <1>6, <1>7, <1>8, <1>9, <1>10, <1>11,
  <1>12, <1>13, <1>14, <1>15, <1>16, <1>17, <1>18, <1>19
     DEF Next, Worker, Arm

-----------------------------------------------------------------------------
\* Who has paused physics knows it.
LEMMA PausedStep == GoalInv /\ FlagsOK /\ PausedInv /\ [Next]_vars => PausedInv'
<1> SUFFICES ASSUME GoalInv /\ FlagsOK /\ PausedInv, [Next]_vars PROVE PausedInv'
  OBVIOUS
<1>1. ASSUME NEW g \in Goals, AcceptGoal(g) PROVE PausedInv'
  BY <1>1
  DEF AcceptGoal, Goto, goal, mark, arm, physics, clouds, GoalInv, FlagsOK,
      PausedInv, GoalsOK, Calls
<1>2. ASSUME NEW g \in Goals, Capture(g) PROVE PausedInv'
  BY <1>2
  DEF Capture, EndGoal, Goto, goal, mark, arm, physics, clouds, GoalInv,
      FlagsOK, PausedInv, GoalsOK, Calls
<1>3. ASSUME NEW g \in Goals, Send(g) PROVE PausedInv'
  BY <1>3
  DEF Send, goal, mark, arm, physics, clouds, GoalInv, FlagsOK, PausedInv,
      GoalsOK, Calls
<1>4. ASSUME NEW g \in Goals, Pause(g) PROVE PausedInv'
  BY <1>4
  DEF Pause, Received, Failed, EndGoal, Goto, goal, mark, arm, physics,
      clouds, GoalInv, FlagsOK, PausedInv, GoalsOK, Calls
<1>5. ASSUME NEW g \in Goals, Generate(g) PROVE PausedInv'
  BY <1>5
  DEF Generate, EndGoal, Goto, goal, mark, arm, physics, clouds, GoalInv,
      FlagsOK, PausedInv, GoalsOK, Calls
<1>6. ASSUME NEW g \in Goals, Resume(g) PROVE PausedInv'
  BY <1>6
  DEF Resume, Received, Failed, EndGoal, Goto, goal, mark, arm, physics,
      clouds, GoalInv, FlagsOK, PausedInv, GoalsOK, Calls
<1>7. ASSUME NEW g \in Goals, Cleanup(g) PROVE PausedInv'
  BY <1>7
  DEF Cleanup, Received, Failed, Goto, goal, mark, arm, physics, clouds,
      GoalInv, FlagsOK, PausedInv, GoalsOK, Calls
<1>8. ASSUME NEW g \in Goals, CheckNext(g) PROVE PausedInv'
  BY <1>8
  DEF CheckNext, EndGoal, Goto, goal, mark, arm, physics, clouds, GoalInv,
      FlagsOK, PausedInv, GoalsOK, Calls
<1>9. ASSUME NEW g \in Goals, GoalResponse(g) PROVE PausedInv'
  BY <1>9
  DEF GoalResponse, EndGoal, Goto, goal, mark, arm, physics, clouds, GoalInv,
      FlagsOK, PausedInv, GoalsOK, Calls
<1>10. ASSUME NEW g \in Goals, CheckResult(g) PROVE PausedInv'
  BY <1>10
  DEF CheckResult, EndGoal, Goto, goal, mark, arm, physics, clouds, GoalInv,
      FlagsOK, PausedInv, GoalsOK, Calls
<1>11. ASSUME NEW g \in Goals, ArmReserves(g) PROVE PausedInv'
  BY <1>11
  DEF ArmReserves, goal, mark, arm, physics, clouds, GoalInv, FlagsOK,
      PausedInv, GoalsOK, Calls
<1>12. ASSUME NEW g \in Goals, ArmPauses(g) PROVE PausedInv'
  BY <1>12
  DEF ArmPauses, ArmEnds, ArmFails, goal, mark, arm, physics, clouds, GoalInv,
      FlagsOK, PausedInv, GoalsOK, Calls
<1>13. ASSUME NEW g \in Goals, ArmPlans(g) PROVE PausedInv'
  BY <1>13
  DEF ArmPlans, ArmEnds, ArmFails, goal, mark, arm, physics, clouds, GoalInv,
      FlagsOK, PausedInv, GoalsOK, Calls
<1>14. ASSUME NEW r \in requests, Serve(r) PROVE PausedInv'
  BY <1>14
  DEF Serve, goal, mark, arm, physics, clouds, GoalInv, FlagsOK, PausedInv,
      GoalsOK, Calls
<1>15. ASSUME TakeSnapshot PROVE PausedInv'
  BY <1>15
  DEF TakeSnapshot, goal, mark, arm, physics, clouds, GoalInv, FlagsOK,
      PausedInv, GoalsOK, Calls
<1>16. ASSUME PublishClouds PROVE PausedInv'
  BY <1>16
  DEF PublishClouds, goal, mark, arm, physics, clouds, GoalInv, FlagsOK,
      PausedInv, GoalsOK, Calls
<1>17. ASSUME NEW t \in Topics, Take(t) PROVE PausedInv'
  BY <1>17
  DEF Take, goal, mark, arm, physics, clouds, GoalInv, FlagsOK, PausedInv,
      GoalsOK, Calls
<1>18. ASSUME NEW t \in Topics, NEW s \in taken[t], Receive(t, s) PROVE PausedInv'
  BY <1>18
  DEF Receive, goal, mark, arm, physics, clouds, GoalInv, FlagsOK, PausedInv,
      GoalsOK, Calls
<1>19. CASE UNCHANGED vars
  BY <1>19
  DEF goal, mark, arm, physics, clouds, vars, GoalInv, FlagsOK, PausedInv,
      GoalsOK, Calls
<1> QED
  BY <1>1, <1>2, <1>3, <1>4, <1>5, <1>6, <1>7, <1>8, <1>9, <1>10, <1>11,
  <1>12, <1>13, <1>14, <1>15, <1>16, <1>17, <1>18, <1>19
     DEF Next, Worker, Arm

-----------------------------------------------------------------------------
\* Requests are awaited until a call fails.
LEMMA AwaitedStep == GoalInv /\ AwaitedInv /\ [Next]_vars => AwaitedInv'
<1> SUFFICES ASSUME GoalInv /\ AwaitedInv, [Next]_vars PROVE AwaitedInv'
  OBVIOUS
<1>1. ASSUME NEW g \in Goals, AcceptGoal(g) PROVE AwaitedInv'
  BY <1>1
  DEF AcceptGoal, Goto, goal, mark, arm, physics, clouds, GoalInv, IdleInv,
      AwaitedInv, GoalsOK, Request, PCs, Calls
<1>2. ASSUME NEW g \in Goals, Capture(g) PROVE AwaitedInv'
  BY <1>2
  DEF Capture, EndGoal, Goto, goal, mark, arm, physics, clouds, GoalInv,
      IdleInv, AwaitedInv, GoalsOK, Request, PCs, Calls
<1>3. ASSUME NEW g \in Goals, Send(g) PROVE AwaitedInv'
  BY <1>3
  DEF Send, goal, mark, arm, physics, clouds, GoalInv, IdleInv, AwaitedInv,
      GoalsOK, Request, PCs, Calls
<1>4. ASSUME NEW g \in Goals, Pause(g) PROVE AwaitedInv'
  BY <1>4
  DEF Pause, Received, Failed, EndGoal, Goto, goal, mark, arm, physics,
      clouds, GoalInv, IdleInv, AwaitedInv, GoalsOK, Request, PCs, Calls
<1>5. ASSUME NEW g \in Goals, Generate(g) PROVE AwaitedInv'
  BY <1>5
  DEF Generate, EndGoal, Goto, goal, mark, arm, physics, clouds, GoalInv,
      IdleInv, AwaitedInv, GoalsOK, Request, PCs, Calls
<1>6. ASSUME NEW g \in Goals, Resume(g) PROVE AwaitedInv'
  BY <1>6
  DEF Resume, Received, Failed, EndGoal, Goto, goal, mark, arm, physics,
      clouds, GoalInv, IdleInv, AwaitedInv, GoalsOK, Request, PCs, Calls
<1>7. ASSUME NEW g \in Goals, Cleanup(g) PROVE AwaitedInv'
  BY <1>7
  DEF Cleanup, Received, Failed, Goto, goal, mark, arm, physics, clouds,
      GoalInv, IdleInv, AwaitedInv, GoalsOK, Request, PCs, Calls
<1>8. ASSUME NEW g \in Goals, CheckNext(g) PROVE AwaitedInv'
  BY <1>8
  DEF CheckNext, EndGoal, Goto, goal, mark, arm, physics, clouds, GoalInv,
      IdleInv, AwaitedInv, GoalsOK, Request, PCs, Calls
<1>9. ASSUME NEW g \in Goals, GoalResponse(g) PROVE AwaitedInv'
  BY <1>9
  DEF GoalResponse, EndGoal, Goto, goal, mark, arm, physics, clouds, GoalInv,
      IdleInv, AwaitedInv, GoalsOK, Request, PCs, Calls
<1>10. ASSUME NEW g \in Goals, CheckResult(g) PROVE AwaitedInv'
  BY <1>10
  DEF CheckResult, EndGoal, Goto, goal, mark, arm, physics, clouds, GoalInv,
      IdleInv, AwaitedInv, GoalsOK, Request, PCs, Calls
<1>11. ASSUME NEW g \in Goals, ArmReserves(g) PROVE AwaitedInv'
  BY <1>11
  DEF ArmReserves, goal, mark, arm, physics, clouds, GoalInv, IdleInv,
      AwaitedInv, GoalsOK, Request, PCs, Calls
<1>12. ASSUME NEW g \in Goals, ArmPauses(g) PROVE AwaitedInv'
  BY <1>12
  DEF ArmPauses, ArmEnds, ArmFails, goal, mark, arm, physics, clouds, GoalInv,
      IdleInv, AwaitedInv, GoalsOK, Request, PCs, Calls
<1>13. ASSUME NEW g \in Goals, ArmPlans(g) PROVE AwaitedInv'
  BY <1>13
  DEF ArmPlans, ArmEnds, ArmFails, goal, mark, arm, physics, clouds, GoalInv,
      IdleInv, AwaitedInv, GoalsOK, Request, PCs, Calls
<1>14. ASSUME NEW r \in requests, Serve(r) PROVE AwaitedInv'
  BY <1>14
  DEF Serve, goal, mark, arm, physics, clouds, GoalInv, IdleInv, AwaitedInv,
      GoalsOK, Request, PCs, Calls
<1>15. ASSUME TakeSnapshot PROVE AwaitedInv'
  BY <1>15
  DEF TakeSnapshot, goal, mark, arm, physics, clouds, GoalInv, IdleInv,
      AwaitedInv, GoalsOK, Request, PCs, Calls
<1>16. ASSUME PublishClouds PROVE AwaitedInv'
  BY <1>16
  DEF PublishClouds, goal, mark, arm, physics, clouds, GoalInv, IdleInv,
      AwaitedInv, GoalsOK, Request, PCs, Calls
<1>17. ASSUME NEW t \in Topics, Take(t) PROVE AwaitedInv'
  BY <1>17
  DEF Take, goal, mark, arm, physics, clouds, GoalInv, IdleInv, AwaitedInv,
      GoalsOK, Request, PCs, Calls
<1>18. ASSUME NEW t \in Topics, NEW s \in taken[t], Receive(t, s) PROVE AwaitedInv'
  BY <1>18
  DEF Receive, goal, mark, arm, physics, clouds, GoalInv, IdleInv, AwaitedInv,
      GoalsOK, Request, PCs, Calls
<1>19. CASE UNCHANGED vars
  BY <1>19
  DEF goal, mark, arm, physics, clouds, vars, GoalInv, IdleInv, AwaitedInv,
      GoalsOK, Request, PCs, Calls
<1> QED
  BY <1>1, <1>2, <1>3, <1>4, <1>5, <1>6, <1>7, <1>8, <1>9, <1>10, <1>11,
  <1>12, <1>13, <1>14, <1>15, <1>16, <1>17, <1>18, <1>19
     DEF Next, Worker, Arm

-----------------------------------------------------------------------------
\* Whenever physics is paused somebody owes its resumption.
LEMMA OwedStep == GoalInv /\ PhysicsInv /\ [Next]_vars => OwedInv'
<1> SUFFICES ASSUME GoalInv /\ PhysicsInv, [Next]_vars PROVE OwedInv'
  OBVIOUS
<1>1. ASSUME NEW g \in Goals, AcceptGoal(g) PROVE OwedInv'
  BY <1>1
  DEF AcceptGoal, Goto, goal, mark, arm, physics, clouds, GoalInv, IdleInv,
      PhysicsInv, FlagsOK, PausedInv, AwaitedInv, OwedInv, Owes, GoalsOK,
      Request, PCs, Calls
<1>2. ASSUME NEW g \in Goals, Capture(g) PROVE OwedInv'
  BY <1>2
  DEF Capture, EndGoal, Goto, goal, mark, arm, physics, clouds, GoalInv,
      IdleInv, PhysicsInv, FlagsOK, PausedInv, AwaitedInv, OwedInv, Owes,
      GoalsOK, Request, PCs, Calls
<1>3. ASSUME NEW g \in Goals, Send(g) PROVE OwedInv'
  BY <1>3
  DEF Send, goal, mark, arm, physics, clouds, GoalInv, IdleInv, PhysicsInv,
      FlagsOK, PausedInv, AwaitedInv, OwedInv, Owes, GoalsOK, Request, PCs,
      Calls
<1>4. ASSUME NEW g \in Goals, Pause(g) PROVE OwedInv'
  BY <1>4
  DEF Pause, Received, Failed, EndGoal, Goto, goal, mark, arm, physics,
      clouds, GoalInv, IdleInv, PhysicsInv, FlagsOK, PausedInv, AwaitedInv,
      OwedInv, Owes, GoalsOK, Request, PCs, Calls
<1>5. ASSUME NEW g \in Goals, Generate(g) PROVE OwedInv'
  BY <1>5
  DEF Generate, EndGoal, Goto, goal, mark, arm, physics, clouds, GoalInv,
      IdleInv, PhysicsInv, FlagsOK, PausedInv, AwaitedInv, OwedInv, Owes,
      GoalsOK, Request, PCs, Calls
<1>6. ASSUME NEW g \in Goals, Resume(g) PROVE OwedInv'
  BY <1>6
  DEF Resume, Received, Failed, EndGoal, Goto, goal, mark, arm, physics,
      clouds, GoalInv, IdleInv, PhysicsInv, FlagsOK, PausedInv, AwaitedInv,
      OwedInv, Owes, GoalsOK, Request, PCs, Calls
<1>7. ASSUME NEW g \in Goals, Cleanup(g) PROVE OwedInv'
  BY <1>7
  DEF Cleanup, Received, Failed, Goto, goal, mark, arm, physics, clouds,
      GoalInv, IdleInv, PhysicsInv, FlagsOK, PausedInv, AwaitedInv, OwedInv,
      Owes, GoalsOK, Request, PCs, Calls
<1>8. ASSUME NEW g \in Goals, CheckNext(g) PROVE OwedInv'
  BY <1>8
  DEF CheckNext, EndGoal, Goto, goal, mark, arm, physics, clouds, GoalInv,
      IdleInv, PhysicsInv, FlagsOK, PausedInv, AwaitedInv, OwedInv, Owes,
      GoalsOK, Request, PCs, Calls
<1>9. ASSUME NEW g \in Goals, GoalResponse(g) PROVE OwedInv'
  BY <1>9
  DEF GoalResponse, EndGoal, Goto, goal, mark, arm, physics, clouds, GoalInv,
      IdleInv, PhysicsInv, FlagsOK, PausedInv, AwaitedInv, OwedInv, Owes,
      GoalsOK, Request, PCs, Calls
<1>10. ASSUME NEW g \in Goals, CheckResult(g) PROVE OwedInv'
  BY <1>10
  DEF CheckResult, EndGoal, Goto, goal, mark, arm, physics, clouds, GoalInv,
      IdleInv, PhysicsInv, FlagsOK, PausedInv, AwaitedInv, OwedInv, Owes,
      GoalsOK, Request, PCs, Calls
<1>11. ASSUME NEW g \in Goals, ArmReserves(g) PROVE OwedInv'
  BY <1>11
  DEF ArmReserves, goal, mark, arm, physics, clouds, GoalInv, IdleInv,
      PhysicsInv, FlagsOK, PausedInv, AwaitedInv, OwedInv, Owes, GoalsOK,
      Request, PCs, Calls
<1>12. ASSUME NEW g \in Goals, ArmPauses(g) PROVE OwedInv'
  <2>1. CASE check' = [check EXCEPT ![g] = "planning"]
    BY <1>12, <2>1 DEF OwedInv, Owes, GoalInv, GoalsOK
  <2>2. CASE ArmEnds(g, "unreachable") /\ UNCHANGED physics
    <3>1. /\ UNCHANGED << paused, failed, pc, call >>
          /\ \A h \in Goals : check[h] = "planning" => check'[h] = "planning"
      BY <1>12, <2>2 DEF ArmPauses, ArmEnds, physics, GoalInv, GoalsOK
    <3> QED
      BY <3>1 DEF OwedInv, Owes, PhysicsInv
  <2>3. CASE ArmFails(g, "arm_pause")
    BY <2>3 DEF ArmFails, OwedInv
  <2> QED
    BY <1>12, <2>1, <2>2, <2>3 DEF ArmPauses
<1>13. ASSUME NEW g \in Goals, ArmPlans(g) PROVE OwedInv'
  BY <1>13
  DEF ArmPlans, ArmEnds, ArmFails, goal, mark, arm, physics, clouds, GoalInv,
      IdleInv, PhysicsInv, FlagsOK, PausedInv, AwaitedInv, OwedInv, Owes,
      GoalsOK, Request, PCs, Calls
<1>14. ASSUME NEW r \in requests, Serve(r) PROVE OwedInv'
  BY <1>14
  DEF Serve, goal, mark, arm, physics, clouds, GoalInv, IdleInv, PhysicsInv,
      FlagsOK, PausedInv, AwaitedInv, OwedInv, Owes, GoalsOK, Request, PCs,
      Calls
<1>15. ASSUME TakeSnapshot PROVE OwedInv'
  BY <1>15
  DEF TakeSnapshot, goal, mark, arm, physics, clouds, GoalInv, IdleInv,
      PhysicsInv, FlagsOK, PausedInv, AwaitedInv, OwedInv, Owes, GoalsOK,
      Request, PCs, Calls
<1>16. ASSUME PublishClouds PROVE OwedInv'
  BY <1>16
  DEF PublishClouds, goal, mark, arm, physics, clouds, GoalInv, IdleInv,
      PhysicsInv, FlagsOK, PausedInv, AwaitedInv, OwedInv, Owes, GoalsOK,
      Request, PCs, Calls
<1>17. ASSUME NEW t \in Topics, Take(t) PROVE OwedInv'
  BY <1>17
  DEF Take, goal, mark, arm, physics, clouds, GoalInv, IdleInv, PhysicsInv,
      FlagsOK, PausedInv, AwaitedInv, OwedInv, Owes, GoalsOK, Request, PCs,
      Calls
<1>18. ASSUME NEW t \in Topics, NEW s \in taken[t], Receive(t, s) PROVE OwedInv'
  BY <1>18
  DEF Receive, goal, mark, arm, physics, clouds, GoalInv, IdleInv, PhysicsInv,
      FlagsOK, PausedInv, AwaitedInv, OwedInv, Owes, GoalsOK, Request, PCs,
      Calls
<1>19. CASE UNCHANGED vars
  BY <1>19
  DEF goal, mark, arm, physics, clouds, vars, GoalInv, IdleInv, PhysicsInv,
      FlagsOK, PausedInv, AwaitedInv, OwedInv, Owes, GoalsOK, Request, PCs,
      Calls
<1> QED
  BY <1>1, <1>2, <1>3, <1>4, <1>5, <1>6, <1>7, <1>8, <1>9, <1>10, <1>11,
  <1>12, <1>13, <1>14, <1>15, <1>16, <1>17, <1>18, <1>19
     DEF Next, Worker, Arm

-----------------------------------------------------------------------------
\* The inductive invariant holds in every reachable state.
THEOREM ProviderInvariant == Spec => []IInv
<1>1. IInv /\ [Next]_vars => IInv'
  BY GoalsStep, IdleStep, ArmStep, CloudsStep, FlagsStep, PausedStep,
     AwaitedStep, OwedStep
  DEF IInv, GoalInv, PhysicsInv
<1> QED
  BY InitInv, <1>1, PTL DEF Spec

\* Every variable keeps its type: in particular no search goes past its last
\* candidate, and no goal is at a place its callback has not.
THEOREM TypeCorrect == Spec => []TypeOK
<1>1. IInv => TypeOK
  <2> SUFFICES ASSUME IInv PROVE TypeOK
    OBVIOUS
  <2> QED
    BY Zenon DEF IInv, GoalInv, PhysicsInv, GoalsOK, CloudsOK, FlagsOK, Request, TypeOK
<1> QED
  BY ProviderInvariant, <1>1, PTL

\* Unless a call to the synchronizer has failed, physics stands still only
\* while a goal or the arm has still to resume it, however many goals and
\* checks share the flag.
THEOREM PhysicsResumed == Spec => []PhysicsRunsAgain
<1>1. IInv => PhysicsRunsAgain
  BY DEF IInv, PhysicsInv, OwedInv, Owes, PhysicsRunsAgain, Calls
<1> QED
  BY ProviderInvariant, <1>1, PTL

\* Each cloud of a snapshot is of a later scene than the one the node had when
\* the goal arrived, or a callback of its camera held it then: for any number of
\* goals, cameras and callbacks that overlap.
THEOREM CloudsNew == Spec => CloudsAreNew
<1> DEFINE New == \A g \in Goals :
                    pc[g] = "capture" /\ pc'[g] = "pause"
                      => \A t \in Topics : \/ messages[t] > marked[g].clouds[t]
                                          \/ messages[t] \in marked[g].held[t]
<1>1. IInv /\ [Next]_vars => [New]_pc
  <2> SUFFICES ASSUME IInv, Next, NEW g \in Goals,
                      pc[g] = "capture", pc'[g] = "pause", NEW t \in Topics
               PROVE  Fresh(g, t, messages[t])
    BY DEF vars, Fresh
  <2>1. Capture(g)
    <3>1. pc \in [Goals -> PCs]
      BY DEF IInv, GoalInv, GoalsOK
    <3>2. ASSUME NEW h \in Goals, AcceptGoal(h) \/ Worker(h) PROVE Capture(g)
      BY <3>1, <3>2
      DEF AcceptGoal, Worker, Capture, Send, Pause, Generate, Resume, Cleanup,
          CheckNext, GoalResponse, CheckResult, Received, Failed, EndGoal, Goto,
          Calls
    <3>3. ASSUME NEW h \in Goals, Arm(h) PROVE FALSE
      BY <3>3 DEF Arm, ArmReserves, ArmPauses, ArmPlans
    <3>4. ASSUME NEW r \in requests, Serve(r) PROVE FALSE
      BY <3>4 DEF Serve
    <3>5. ASSUME \/ TakeSnapshot \/ PublishClouds
                 \/ \E u \in Topics : Take(u) \/ \E s \in taken[u] : Receive(u, s)
          PROVE  FALSE
      BY <3>5 DEF TakeSnapshot, PublishClouds, Take, Receive
    <3> QED
      BY <3>2, <3>3, <3>4, <3>5 DEF Next
  <2>2. HasMessageAfter(g, t)
    BY <2>1 DEF Capture, EndGoal, Goto, IInv, GoalInv, GoalsOK
  <2> QED
    BY <2>2 DEF HasMessageAfter, IInv, CloudsInv, CloudsOK, Scenes
<1> QED
  BY ProviderInvariant, <1>1, PTL DEF Spec, CloudsAreNew

\* A candidate is refused only because of another goal's check.
THEOREM ChecksWay == Spec => ChecksMakeWay
<1> DEFINE Way == \A g \in Goals :
                    check[g] # "rejected" /\ check'[g] = "rejected"
                      => \E h \in Goals \ {g} : check[h] \in {"reserved", "planning"}
<1>1. IInv /\ [Next]_vars => [Way]_check
  <2> SUFFICES ASSUME IInv, Next, NEW g \in Goals,
                      check[g] # "rejected", check'[g] = "rejected"
               PROVE  \E h \in Goals \ {g} : check[h] \in {"reserved", "planning"}
    BY DEF vars, arm
  <2> USE DEF IInv, GoalInv, GoalsOK
  <2>1. ArmReserves(g) /\ motion_active # Nobody
    <3>1. ASSUME NEW h \in Goals, AcceptGoal(h) \/ Worker(h) PROVE FALSE
      BY <3>1
      DEF AcceptGoal, Worker, Capture, Send, Pause, Generate, Resume, Cleanup,
          CheckNext, GoalResponse, CheckResult, arm
    <3>2. ASSUME NEW h \in Goals, Arm(h)
          PROVE  ArmReserves(g) /\ motion_active # Nobody
      BY <3>2 DEF Arm, ArmReserves, ArmPauses, ArmPlans, ArmEnds, ArmFails
    <3>3. ASSUME NEW r \in requests, Serve(r) PROVE FALSE
      BY <3>3 DEF Serve, arm
    <3>4. ASSUME \/ TakeSnapshot \/ PublishClouds
                 \/ \E u \in Topics : Take(u) \/ \E s \in taken[u] : Receive(u, s)
          PROVE  FALSE
      BY <3>4 DEF TakeSnapshot, PublishClouds, Take, Receive, arm
    <3> QED
      BY <3>1, <3>2, <3>3, <3>4 DEF Next
  <2>2. check[g] = "sent" /\ motion_active \in Goals
    BY <2>1 DEF ArmReserves
  <2> QED
    BY <2>2 DEF ArmInv
<1> QED
  BY ProviderInvariant, <1>1, PTL DEF Spec, ChecksMakeWay
=============================================================================
