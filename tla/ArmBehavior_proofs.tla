-------------------------- MODULE ArmBehavior_proofs --------------------------
(***************************************************************************)
(* Theorems about ArmBehavior, for any number of goals of any kind.        *)
(***************************************************************************)
EXTENDS ArmBehavior, TLAPS

-----------------------------------------------------------------------------
(* The inductive invariant.                                                *)

Request == [from : Goals, op : Calls, acm : Matrices]

TypesOK ==
  /\ kind \in [Goals -> Kinds]
  /\ pc \in [Goals -> PCs]
  /\ call \in [Goals -> {"none", "sent", "answered"}]
  /\ previous_acm \in [Goals -> Matrices]
  /\ planned \in [Goals -> {"no", "ok", "failed", "threw"}]
  /\ moveit_mutex \in Goals \cup {Nobody}
  /\ budget \in {"full", "reduced"}
  /\ executor \in {"free", "attach", "detach"}
  /\ requests \subseteq Request
  /\ acm \in {"strict", "relaxed"}
  /\ failed \subseteq {"physics", "scene", "check"}

FlagsOK ==
  /\ motion_active \in BOOLEAN
  /\ payload \in BOOLEAN
  /\ paused \in BOOLEAN

\* The holder of the lock is the goal whose motion is under way.
LockInv == \A g \in Goals : moveit_mutex = g <=> pc[g] \in Holding

\* A worker is where its action may be, and only between the relaxation of
\* the matrix and the end of the motion it has a matrix to restore.
ScopeInv ==
  \A g \in Goals :
    /\ pc[g] \in PCsOf(kind[g])
    /\ previous_acm[g] # "none" =>
         /\ kind[g] \in {"home", "lift"}
         /\ pc[g] \in {"relax", "pause", "plan", "resume", "execute", "restore",
                       "unlock"}
    /\ pc[g] \in {"relax", "restore"} => previous_acm[g] # "none"

CallInv == \A g \in Goals : call[g] # "none" => pc[g] \in Calls

\* A request without a worker that waits for it is one of a call that failed.
Awaited(r) == pc[r.from] = r.op /\ call[r.from] = "sent"

PhysicsInv ==
  "physics" \notin failed =>
    /\ \A r \in requests : r.op \in {"pause", "resume"} => Awaited(r)
    /\ \A g \in Goals : pc[g] = "resume" /\ call[g] = "answered" => ~paused
    /\ paused => \E g \in Goals : pc[g] \in {"pause", "plan", "resume"}

\* Only a change of the matrix carries one, which is that of the scope.
RequestInv ==
  /\ \A r \in requests : r.op \in {"pause", "resume"} => r.acm = "none"
  /\ "scene" \notin failed =>
       \A r \in requests : r.op \in {"relax", "restore"} =>
         /\ Awaited(r)
         /\ r.acm = IF r.op = "relax" THEN "relaxed" ELSE "strict"

SceneInv ==
  "scene" \notin failed =>
    /\ acm = "relaxed" =>
         \E g \in Goals : previous_acm[g] = "strict" /\ pc[g] # "unlock"
    /\ \A g \in Goals : previous_acm[g] # "relaxed"
    /\ \A g \in Goals : pc[g] = "restore" /\ call[g] = "answered" => acm = "strict"

\* The budget is reduced only while a check is under way, or one has thrown.
BudgetInv ==
  budget = "reduced" =>
    \/ "check" \in failed
    \/ \E g \in Goals : kind[g] = "check" /\ pc[g] \in {"prepare", "pause", "plan", "resume"}

IInv ==
  /\ TypesOK /\ FlagsOK /\ LockInv /\ OneMotionAtATime /\ ScopeInv /\ CallInv
  /\ PhysicsInv /\ RequestInv /\ SceneInv /\ BudgetInv

-----------------------------------------------------------------------------
\* Every variable keeps its type.
LEMMA TypesStep == TypesOK /\ [Next]_vars => TypesOK'
<1> SUFFICES ASSUME TypesOK, [Next]_vars PROVE TypesOK'
  OBVIOUS
<1>1. ASSUME NEW g \in Goals, HandleGoal(g) PROVE TypesOK'
  BY <1>1, KindsAssumption
  DEF HandleGoal, Goto, server, motion, node, others, vars, TypesOK, Request,
      Matrices, Kinds, PCs, Working, Holding, Scoped, Calls
<1>2. ASSUME NEW g \in Goals, StartMotion(g) PROVE TypesOK'
  BY <1>2, KindsAssumption
  DEF StartMotion, Goto, server, motion, node, others, vars, TypesOK, Request,
      Matrices, Kinds, PCs, Working, Holding, Scoped, Calls
<1>3. ASSUME NEW g \in Goals, Prepare(g) PROVE TypesOK'
  <2>1. pc' \in [Goals -> PCs]
    BY <1>3
    DEF Prepare, Continue, Leave, Goto, TypesOK, PCs, Working, Holding, Scoped
  <2>2. budget' \in {"full", "reduced"} /\ failed' \subseteq {"physics", "scene", "check"}
    BY <1>3 DEF Prepare, Continue, Leave, TypesOK
  <2> QED
    BY <1>3, <2>1, <2>2, Zenon DEF Prepare, server, motion, node, others, TypesOK
<1>4. ASSUME NEW g \in Goals, ReadScene(g) PROVE TypesOK'
  <2>1. previous_acm' \in [Goals -> Matrices]
    BY <1>4 DEF ReadScene, TypesOK, Matrices
  <2>2. pc' \in [Goals -> PCs]
    BY <1>4 DEF ReadScene, Continue, Goto, TypesOK, PCs, Working, Holding, Scoped
  <2> QED
    BY <1>4, <2>1, <2>2
    DEF ReadScene, Continue, server, motion, node, others, TypesOK
<1>5. ASSUME NEW g \in Goals, Send(g) PROVE TypesOK'
  BY <1>5, KindsAssumption
  DEF Send, MatrixOf, server, motion, node, others, vars, TypesOK, Request,
      Matrices, Kinds, PCs, Working, Holding, Scoped, Calls
<1>6. ASSUME NEW g \in Goals, Relax(g) PROVE TypesOK'
  BY <1>6, KindsAssumption
  DEF Relax, Received, Failed, Goto, server, motion, node, others, vars,
      TypesOK, Request, Matrices, Kinds, PCs, Working, Holding, Scoped, Calls
<1>7. ASSUME NEW g \in Goals, Pause(g) PROVE TypesOK'
  <2>1. pc' \in [Goals -> PCs]
    BY <1>7
    DEF Pause, Continue, Leave, Goto, TypesOK, PCs, Working, Holding, Scoped
  <2>2. call' \in [Goals -> {"none", "sent", "answered"}]
    BY <1>7 DEF Pause, Received, Failed, TypesOK
  <2>3. budget' \in {"full", "reduced"} /\ failed' \subseteq {"physics", "scene", "check"}
    BY <1>7 DEF Pause, Continue, Leave, TypesOK
  <2> QED
    BY <1>7, <2>1, <2>2, <2>3, Zenon DEF Pause, server, node, others, TypesOK
<1>8. ASSUME NEW g \in Goals, Plan(g) PROVE TypesOK'
  BY <1>8, KindsAssumption
  DEF Plan, Continue, Goto, server, motion, node, others, vars, TypesOK,
      Request, Matrices, Kinds, PCs, Working, Holding, Scoped, Calls
<1>9. ASSUME NEW g \in Goals, Resume(g) PROVE TypesOK'
  <2>1. pc' \in [Goals -> PCs]
    BY <1>9
    DEF Resume, Continue, Leave, Goto, TypesOK, PCs, Working, Holding, Scoped
  <2>2. call' \in [Goals -> {"none", "sent", "answered"}]
    BY <1>9 DEF Resume, Received, Failed, TypesOK
  <2>3. budget' \in {"full", "reduced"} /\ failed' \subseteq {"physics", "scene", "check"}
    BY <1>9 DEF Resume, Continue, Leave, TypesOK
  <2> QED
    BY <1>9, <2>1, <2>2, <2>3, Zenon DEF Resume, server, node, others, TypesOK
<1>10. ASSUME NEW g \in Goals, Execute(g) PROVE TypesOK'
  BY <1>10, KindsAssumption
  DEF Execute, Leave, Goto, server, motion, node, others, vars, TypesOK,
      Request, Matrices, Kinds, PCs, Working, Holding, Scoped, Calls
<1>11. ASSUME NEW g \in Goals, AbortExecution(g) PROVE TypesOK'
  BY <1>11, KindsAssumption
  DEF AbortExecution, Leave, Goto, server, motion, node, others, vars,
      TypesOK, Request, Matrices, Kinds, PCs, Working, Holding, Scoped, Calls
<1>12. ASSUME NEW g \in Goals, Restore(g) PROVE TypesOK'
  BY <1>12, KindsAssumption
  DEF Restore, Received, Failed, Goto, server, motion, node, others, vars,
      TypesOK, Request, Matrices, Kinds, PCs, Working, Holding, Scoped, Calls
<1>13. ASSUME NEW g \in Goals, EndMotion(g) PROVE TypesOK'
  BY <1>13, KindsAssumption
  DEF EndMotion, Goto, server, motion, node, others, vars, TypesOK, Request,
      Matrices, Kinds, PCs, Working, Holding, Scoped, Calls
<1>14. ASSUME NEW g \in Goals, ReleaseReservation(g) PROVE TypesOK'
  BY <1>14, KindsAssumption
  DEF ReleaseReservation, Goto, server, motion, node, others, vars, TypesOK,
      Request, Matrices, Kinds, PCs, Working, Holding, Scoped, Calls
<1>15. ASSUME NEW g \in Goals, PublishResult(g) PROVE TypesOK'
  BY <1>15, KindsAssumption
  DEF PublishResult, Goto, server, motion, node, others, vars, TypesOK,
      Request, Matrices, Kinds, PCs, Working, Holding, Scoped, Calls
<1>16. ASSUME NEW r \in requests, Serve(r) PROVE TypesOK'
  BY <1>16, KindsAssumption
  DEF Serve, server, motion, node, others, vars, TypesOK, Request, Matrices,
      Kinds, PCs, Working, Holding, Scoped, Calls
<1>17. ASSUME NEW op \in {"attach", "detach"}, HandlePayload(op) PROVE TypesOK'
  BY <1>17, KindsAssumption
  DEF HandlePayload, server, motion, node, others, vars, TypesOK, Request,
      Matrices, Kinds, PCs, Working, Holding, Scoped, Calls
<1>18. ASSUME ChangePayload PROVE TypesOK'
  BY <1>18, KindsAssumption
  DEF ChangePayload, server, motion, node, others, vars, TypesOK, Request,
      Matrices, Kinds, PCs, Working, Holding, Scoped, Calls
<1>19. CASE UNCHANGED vars
  BY <1>19, KindsAssumption
  DEF server, motion, node, others, vars, TypesOK, Request, Matrices, Kinds,
      PCs, Working, Holding, Scoped, Calls
<1> QED
  BY <1>1, <1>2, <1>3, <1>4, <1>5, <1>6, <1>7, <1>8, <1>9, <1>10, <1>11,
  <1>12, <1>13, <1>14, <1>15, <1>16, <1>17, <1>18, <1>19
     DEF Next, Worker

-----------------------------------------------------------------------------
\* The flags stay Boolean.
LEMMA FlagsStep == FlagsOK /\ [Next]_vars => FlagsOK'
<1> SUFFICES ASSUME FlagsOK, [Next]_vars PROVE FlagsOK'
  OBVIOUS
<1>1. ASSUME NEW g \in Goals, HandleGoal(g) PROVE FlagsOK'
  BY <1>1, Zenon
  DEF HandleGoal, Goto, server, motion, node, others, vars, FlagsOK
<1>2. ASSUME NEW g \in Goals, StartMotion(g) PROVE FlagsOK'
  BY <1>2, Zenon
  DEF StartMotion, Goto, server, motion, node, others, vars, FlagsOK
<1>3. ASSUME NEW g \in Goals, Prepare(g) PROVE FlagsOK'
  BY <1>3, Zenon
  DEF Prepare, Continue, Leave, Goto, server, motion, node, others, vars,
      FlagsOK
<1>4. ASSUME NEW g \in Goals, ReadScene(g) PROVE FlagsOK'
  BY <1>4, Zenon
  DEF ReadScene, Continue, Goto, server, motion, node, others, vars, FlagsOK
<1>5. ASSUME NEW g \in Goals, Send(g) PROVE FlagsOK'
  BY <1>5, Zenon
  DEF Send, MatrixOf, server, motion, node, others, vars, FlagsOK
<1>6. ASSUME NEW g \in Goals, Relax(g) PROVE FlagsOK'
  BY <1>6, Zenon
  DEF Relax, Received, Failed, Goto, server, motion, node, others, vars,
      FlagsOK
<1>7. ASSUME NEW g \in Goals, Pause(g) PROVE FlagsOK'
  BY <1>7, Zenon
  DEF Pause, Received, Failed, Continue, Leave, Goto, server, motion, node,
      others, vars, FlagsOK
<1>8. ASSUME NEW g \in Goals, Plan(g) PROVE FlagsOK'
  BY <1>8, Zenon
  DEF Plan, Continue, Goto, server, motion, node, others, vars, FlagsOK
<1>9. ASSUME NEW g \in Goals, Resume(g) PROVE FlagsOK'
  BY <1>9, Zenon
  DEF Resume, Received, Failed, Continue, Leave, Goto, server, motion, node,
      others, vars, FlagsOK
<1>10. ASSUME NEW g \in Goals, Execute(g) PROVE FlagsOK'
  BY <1>10, Zenon
  DEF Execute, Leave, Goto, server, motion, node, others, vars, FlagsOK
<1>11. ASSUME NEW g \in Goals, AbortExecution(g) PROVE FlagsOK'
  BY <1>11, Zenon
  DEF AbortExecution, Leave, Goto, server, motion, node, others, vars, FlagsOK
<1>12. ASSUME NEW g \in Goals, Restore(g) PROVE FlagsOK'
  BY <1>12, Zenon
  DEF Restore, Received, Failed, Goto, server, motion, node, others, vars,
      FlagsOK
<1>13. ASSUME NEW g \in Goals, EndMotion(g) PROVE FlagsOK'
  BY <1>13, Zenon
  DEF EndMotion, Goto, server, motion, node, others, vars, FlagsOK
<1>14. ASSUME NEW g \in Goals, ReleaseReservation(g) PROVE FlagsOK'
  BY <1>14, Zenon
  DEF ReleaseReservation, Goto, server, motion, node, others, vars, FlagsOK
<1>15. ASSUME NEW g \in Goals, PublishResult(g) PROVE FlagsOK'
  BY <1>15, Zenon
  DEF PublishResult, Goto, server, motion, node, others, vars, FlagsOK
<1>16. ASSUME NEW r \in requests, Serve(r) PROVE FlagsOK'
  BY <1>16, Zenon
  DEF Serve, server, motion, node, others, vars, FlagsOK
<1>17. ASSUME NEW op \in {"attach", "detach"}, HandlePayload(op) PROVE FlagsOK'
  BY <1>17, Zenon
  DEF HandlePayload, server, motion, node, others, vars, FlagsOK
<1>18. ASSUME ChangePayload PROVE FlagsOK'
  BY <1>18, Zenon
  DEF ChangePayload, server, motion, node, others, vars, FlagsOK
<1>19. CASE UNCHANGED vars
  BY <1>19, Zenon
  DEF server, motion, node, others, vars, FlagsOK
<1> QED
  BY <1>1, <1>2, <1>3, <1>4, <1>5, <1>6, <1>7, <1>8, <1>9, <1>10, <1>11,
  <1>12, <1>13, <1>14, <1>15, <1>16, <1>17, <1>18, <1>19
     DEF Next, Worker

-----------------------------------------------------------------------------
\* The lock is taken and given back where a motion begins and ends.
LEMMA LockStep == IInv /\ [Next]_vars => LockInv'
<1> SUFFICES ASSUME IInv, [Next]_vars PROVE LockInv'
  OBVIOUS
<1>1. ASSUME NEW g \in Goals, HandleGoal(g) PROVE LockInv'
  BY <1>1, NobodyAssumption
  DEF HandleGoal, Goto, server, motion, node, others, vars, IInv, TypesOK,
      LockInv, ScopeInv, Kinds, PCs, Working, Holding, Scoped, Calls
<1>2. ASSUME NEW g \in Goals, StartMotion(g) PROVE LockInv'
  BY <1>2, NobodyAssumption
  DEF StartMotion, Goto, server, motion, node, others, vars, IInv, TypesOK,
      LockInv, ScopeInv, Kinds, PCs, Working, Holding, Scoped, Calls
<1>3. ASSUME NEW g \in Goals, Prepare(g) PROVE LockInv'
  BY <1>3, NobodyAssumption
  DEF Prepare, Continue, Leave, Goto, server, motion, node, others, vars,
      IInv, TypesOK, LockInv, ScopeInv, Kinds, PCs, Working, Holding, Scoped,
      Calls
<1>4. ASSUME NEW g \in Goals, ReadScene(g) PROVE LockInv'
  BY <1>4, NobodyAssumption
  DEF ReadScene, Continue, Goto, server, motion, node, others, vars, IInv,
      TypesOK, LockInv, ScopeInv, Kinds, PCs, Working, Holding, Scoped, Calls
<1>5. ASSUME NEW g \in Goals, Send(g) PROVE LockInv'
  BY <1>5, NobodyAssumption
  DEF Send, MatrixOf, server, motion, node, others, vars, IInv, TypesOK,
      LockInv, ScopeInv, Kinds, PCs, Working, Holding, Scoped, Calls
<1>6. ASSUME NEW g \in Goals, Relax(g) PROVE LockInv'
  BY <1>6, NobodyAssumption
  DEF Relax, Received, Failed, Goto, server, motion, node, others, vars, IInv,
      TypesOK, LockInv, ScopeInv, Kinds, PCs, Working, Holding, Scoped, Calls
<1>7. ASSUME NEW g \in Goals, Pause(g) PROVE LockInv'
  BY <1>7, NobodyAssumption
  DEF Pause, Received, Failed, Continue, Leave, Goto, server, motion, node,
      others, vars, IInv, TypesOK, LockInv, ScopeInv, Kinds, PCs, Working,
      Holding, Scoped, Calls
<1>8. ASSUME NEW g \in Goals, Plan(g) PROVE LockInv'
  BY <1>8, NobodyAssumption
  DEF Plan, Continue, Goto, server, motion, node, others, vars, IInv, TypesOK,
      LockInv, ScopeInv, Kinds, PCs, Working, Holding, Scoped, Calls
<1>9. ASSUME NEW g \in Goals, Resume(g) PROVE LockInv'
  BY <1>9, NobodyAssumption
  DEF Resume, Received, Failed, Continue, Leave, Goto, server, motion, node,
      others, vars, IInv, TypesOK, LockInv, ScopeInv, Kinds, PCs, Working,
      Holding, Scoped, Calls
<1>10. ASSUME NEW g \in Goals, Execute(g) PROVE LockInv'
  BY <1>10, NobodyAssumption
  DEF Execute, Leave, Goto, server, motion, node, others, vars, IInv, TypesOK,
      LockInv, ScopeInv, Kinds, PCs, Working, Holding, Scoped, Calls
<1>11. ASSUME NEW g \in Goals, AbortExecution(g) PROVE LockInv'
  BY <1>11, NobodyAssumption
  DEF AbortExecution, Leave, Goto, server, motion, node, others, vars, IInv,
      TypesOK, LockInv, ScopeInv, Kinds, PCs, Working, Holding, Scoped, Calls
<1>12. ASSUME NEW g \in Goals, Restore(g) PROVE LockInv'
  BY <1>12, NobodyAssumption
  DEF Restore, Received, Failed, Goto, server, motion, node, others, vars,
      IInv, TypesOK, LockInv, ScopeInv, Kinds, PCs, Working, Holding, Scoped,
      Calls
<1>13. ASSUME NEW g \in Goals, EndMotion(g) PROVE LockInv'
  BY <1>13, NobodyAssumption
  DEF EndMotion, Goto, server, motion, node, others, vars, IInv, TypesOK,
      LockInv, ScopeInv, Kinds, PCs, Working, Holding, Scoped, Calls
<1>14. ASSUME NEW g \in Goals, ReleaseReservation(g) PROVE LockInv'
  BY <1>14, NobodyAssumption
  DEF ReleaseReservation, Goto, server, motion, node, others, vars, IInv,
      TypesOK, LockInv, ScopeInv, Kinds, PCs, Working, Holding, Scoped, Calls
<1>15. ASSUME NEW g \in Goals, PublishResult(g) PROVE LockInv'
  BY <1>15, NobodyAssumption
  DEF PublishResult, Goto, server, motion, node, others, vars, IInv, TypesOK,
      LockInv, ScopeInv, Kinds, PCs, Working, Holding, Scoped, Calls
<1>16. ASSUME NEW r \in requests, Serve(r) PROVE LockInv'
  BY <1>16, NobodyAssumption
  DEF Serve, server, motion, node, others, vars, IInv, TypesOK, LockInv,
      ScopeInv, Kinds, PCs, Working, Holding, Scoped, Calls
<1>17. ASSUME NEW op \in {"attach", "detach"}, HandlePayload(op) PROVE LockInv'
  BY <1>17, NobodyAssumption
  DEF HandlePayload, server, motion, node, others, vars, IInv, TypesOK,
      LockInv, ScopeInv, Kinds, PCs, Working, Holding, Scoped, Calls
<1>18. ASSUME ChangePayload PROVE LockInv'
  BY <1>18, NobodyAssumption
  DEF ChangePayload, server, motion, node, others, vars, IInv, TypesOK,
      LockInv, ScopeInv, Kinds, PCs, Working, Holding, Scoped, Calls
<1>19. CASE UNCHANGED vars
  BY <1>19, NobodyAssumption
  DEF server, motion, node, others, vars, IInv, TypesOK, LockInv, ScopeInv,
      Kinds, PCs, Working, Holding, Scoped, Calls
<1> QED
  BY <1>1, <1>2, <1>3, <1>4, <1>5, <1>6, <1>7, <1>8, <1>9, <1>10, <1>11,
  <1>12, <1>13, <1>14, <1>15, <1>16, <1>17, <1>18, <1>19
     DEF Next, Worker

-----------------------------------------------------------------------------
\* A goal is accepted only when no other is worked on.
LEMMA OneMotionStep == IInv /\ [Next]_vars => OneMotionAtATime'
<1> SUFFICES ASSUME IInv, [Next]_vars PROVE OneMotionAtATime'
  OBVIOUS
<1>1. ASSUME NEW g \in Goals, HandleGoal(g) PROVE OneMotionAtATime'
  BY <1>1
  DEF HandleGoal, Goto, server, motion, node, others, vars, IInv, TypesOK,
      FlagsOK, OneMotionAtATime, Kinds, PCs, Working, Holding, Scoped, Calls
<1>2. ASSUME NEW g \in Goals, StartMotion(g) PROVE OneMotionAtATime'
  BY <1>2
  DEF StartMotion, Goto, server, motion, node, others, vars, IInv, TypesOK,
      FlagsOK, OneMotionAtATime, Kinds, PCs, Working, Holding, Scoped, Calls
<1>3. ASSUME NEW g \in Goals, Prepare(g) PROVE OneMotionAtATime'
  BY <1>3
  DEF Prepare, Continue, Leave, Goto, server, motion, node, others, vars,
      IInv, TypesOK, FlagsOK, OneMotionAtATime, Kinds, PCs, Working, Holding,
      Scoped, Calls
<1>4. ASSUME NEW g \in Goals, ReadScene(g) PROVE OneMotionAtATime'
  BY <1>4
  DEF ReadScene, Continue, Goto, server, motion, node, others, vars, IInv,
      TypesOK, FlagsOK, OneMotionAtATime, Kinds, PCs, Working, Holding,
      Scoped, Calls
<1>5. ASSUME NEW g \in Goals, Send(g) PROVE OneMotionAtATime'
  BY <1>5
  DEF Send, MatrixOf, server, motion, node, others, vars, IInv, TypesOK,
      FlagsOK, OneMotionAtATime, Kinds, PCs, Working, Holding, Scoped, Calls
<1>6. ASSUME NEW g \in Goals, Relax(g) PROVE OneMotionAtATime'
  BY <1>6
  DEF Relax, Received, Failed, Goto, server, motion, node, others, vars, IInv,
      TypesOK, FlagsOK, OneMotionAtATime, Kinds, PCs, Working, Holding,
      Scoped, Calls
<1>7. ASSUME NEW g \in Goals, Pause(g) PROVE OneMotionAtATime'
  BY <1>7
  DEF Pause, Received, Failed, Continue, Leave, Goto, server, motion, node,
      others, vars, IInv, TypesOK, FlagsOK, OneMotionAtATime, Kinds, PCs,
      Working, Holding, Scoped, Calls
<1>8. ASSUME NEW g \in Goals, Plan(g) PROVE OneMotionAtATime'
  BY <1>8
  DEF Plan, Continue, Goto, server, motion, node, others, vars, IInv, TypesOK,
      FlagsOK, OneMotionAtATime, Kinds, PCs, Working, Holding, Scoped, Calls
<1>9. ASSUME NEW g \in Goals, Resume(g) PROVE OneMotionAtATime'
  BY <1>9
  DEF Resume, Received, Failed, Continue, Leave, Goto, server, motion, node,
      others, vars, IInv, TypesOK, FlagsOK, OneMotionAtATime, Kinds, PCs,
      Working, Holding, Scoped, Calls
<1>10. ASSUME NEW g \in Goals, Execute(g) PROVE OneMotionAtATime'
  BY <1>10
  DEF Execute, Leave, Goto, server, motion, node, others, vars, IInv, TypesOK,
      FlagsOK, OneMotionAtATime, Kinds, PCs, Working, Holding, Scoped, Calls
<1>11. ASSUME NEW g \in Goals, AbortExecution(g) PROVE OneMotionAtATime'
  BY <1>11
  DEF AbortExecution, Leave, Goto, server, motion, node, others, vars, IInv,
      TypesOK, FlagsOK, OneMotionAtATime, Kinds, PCs, Working, Holding,
      Scoped, Calls
<1>12. ASSUME NEW g \in Goals, Restore(g) PROVE OneMotionAtATime'
  BY <1>12
  DEF Restore, Received, Failed, Goto, server, motion, node, others, vars,
      IInv, TypesOK, FlagsOK, OneMotionAtATime, Kinds, PCs, Working, Holding,
      Scoped, Calls
<1>13. ASSUME NEW g \in Goals, EndMotion(g) PROVE OneMotionAtATime'
  BY <1>13
  DEF EndMotion, Goto, server, motion, node, others, vars, IInv, TypesOK,
      FlagsOK, OneMotionAtATime, Kinds, PCs, Working, Holding, Scoped, Calls
<1>14. ASSUME NEW g \in Goals, ReleaseReservation(g) PROVE OneMotionAtATime'
  BY <1>14
  DEF ReleaseReservation, Goto, server, motion, node, others, vars, IInv,
      TypesOK, FlagsOK, OneMotionAtATime, Kinds, PCs, Working, Holding,
      Scoped, Calls
<1>15. ASSUME NEW g \in Goals, PublishResult(g) PROVE OneMotionAtATime'
  BY <1>15
  DEF PublishResult, Goto, server, motion, node, others, vars, IInv, TypesOK,
      FlagsOK, OneMotionAtATime, Kinds, PCs, Working, Holding, Scoped, Calls
<1>16. ASSUME NEW r \in requests, Serve(r) PROVE OneMotionAtATime'
  BY <1>16
  DEF Serve, server, motion, node, others, vars, IInv, TypesOK, FlagsOK,
      OneMotionAtATime, Kinds, PCs, Working, Holding, Scoped, Calls
<1>17. ASSUME NEW op \in {"attach", "detach"}, HandlePayload(op) PROVE OneMotionAtATime'
  BY <1>17
  DEF HandlePayload, server, motion, node, others, vars, IInv, TypesOK,
      FlagsOK, OneMotionAtATime, Kinds, PCs, Working, Holding, Scoped, Calls
<1>18. ASSUME ChangePayload PROVE OneMotionAtATime'
  BY <1>18
  DEF ChangePayload, server, motion, node, others, vars, IInv, TypesOK,
      FlagsOK, OneMotionAtATime, Kinds, PCs, Working, Holding, Scoped, Calls
<1>19. CASE UNCHANGED vars
  BY <1>19
  DEF server, motion, node, others, vars, IInv, TypesOK, FlagsOK,
      OneMotionAtATime, Kinds, PCs, Working, Holding, Scoped, Calls
<1> QED
  BY <1>1, <1>2, <1>3, <1>4, <1>5, <1>6, <1>7, <1>8, <1>9, <1>10, <1>11,
  <1>12, <1>13, <1>14, <1>15, <1>16, <1>17, <1>18, <1>19
     DEF Next, Worker

-----------------------------------------------------------------------------
\* Each action takes its own way through the places of a motion.
LEMMA ScopeStep == IInv /\ [Next]_vars => ScopeInv'
<1> SUFFICES ASSUME IInv, [Next]_vars PROVE ScopeInv'
  OBVIOUS
<1>1. ASSUME NEW g \in Goals, HandleGoal(g) PROVE ScopeInv'
  BY <1>1, KindsAssumption
  DEF HandleGoal, Goto, server, motion, node, others, vars, IInv, TypesOK,
      ScopeInv, PCsOf, Kinds, Matrices, PCs, Working, Holding, Scoped, Calls
<1>2. ASSUME NEW g \in Goals, StartMotion(g) PROVE ScopeInv'
  BY <1>2, KindsAssumption
  DEF StartMotion, Goto, server, motion, node, others, vars, IInv, TypesOK,
      ScopeInv, PCsOf, Kinds, Matrices, PCs, Working, Holding, Scoped, Calls
<1>3. ASSUME NEW g \in Goals, Prepare(g) PROVE ScopeInv'
  BY <1>3, KindsAssumption
  DEF Prepare, Continue, Leave, Goto, server, motion, node, others, vars,
      IInv, TypesOK, ScopeInv, PCsOf, Kinds, Matrices, PCs, Working, Holding,
      Scoped, Calls
<1>4. ASSUME NEW g \in Goals, ReadScene(g) PROVE ScopeInv'
  BY <1>4, KindsAssumption
  DEF ReadScene, Continue, Goto, server, motion, node, others, vars, IInv,
      TypesOK, ScopeInv, PCsOf, Kinds, Matrices, PCs, Working, Holding,
      Scoped, Calls
<1>5. ASSUME NEW g \in Goals, Send(g) PROVE ScopeInv'
  BY <1>5, KindsAssumption
  DEF Send, MatrixOf, server, motion, node, others, vars, IInv, TypesOK,
      ScopeInv, PCsOf, Kinds, Matrices, PCs, Working, Holding, Scoped, Calls
<1>6. ASSUME NEW g \in Goals, Relax(g) PROVE ScopeInv'
  BY <1>6, KindsAssumption
  DEF Relax, Received, Failed, Goto, server, motion, node, others, vars, IInv,
      TypesOK, ScopeInv, PCsOf, Kinds, Matrices, PCs, Working, Holding,
      Scoped, Calls
<1>7. ASSUME NEW g \in Goals, Pause(g) PROVE ScopeInv'
  BY <1>7, KindsAssumption
  DEF Pause, Received, Failed, Continue, Leave, Goto, server, motion, node,
      others, vars, IInv, TypesOK, ScopeInv, PCsOf, Kinds, Matrices, PCs,
      Working, Holding, Scoped, Calls
<1>8. ASSUME NEW g \in Goals, Plan(g) PROVE ScopeInv'
  BY <1>8, KindsAssumption
  DEF Plan, Continue, Goto, server, motion, node, others, vars, IInv, TypesOK,
      ScopeInv, PCsOf, Kinds, Matrices, PCs, Working, Holding, Scoped, Calls
<1>9. ASSUME NEW g \in Goals, Resume(g) PROVE ScopeInv'
  BY <1>9, KindsAssumption
  DEF Resume, Received, Failed, Continue, Leave, Goto, server, motion, node,
      others, vars, IInv, TypesOK, ScopeInv, PCsOf, Kinds, Matrices, PCs,
      Working, Holding, Scoped, Calls
<1>10. ASSUME NEW g \in Goals, Execute(g) PROVE ScopeInv'
  BY <1>10, KindsAssumption
  DEF Execute, Leave, Goto, server, motion, node, others, vars, IInv, TypesOK,
      ScopeInv, PCsOf, Kinds, Matrices, PCs, Working, Holding, Scoped, Calls
<1>11. ASSUME NEW g \in Goals, AbortExecution(g) PROVE ScopeInv'
  BY <1>11, KindsAssumption
  DEF AbortExecution, Leave, Goto, server, motion, node, others, vars, IInv,
      TypesOK, ScopeInv, PCsOf, Kinds, Matrices, PCs, Working, Holding,
      Scoped, Calls
<1>12. ASSUME NEW g \in Goals, Restore(g) PROVE ScopeInv'
  BY <1>12, KindsAssumption
  DEF Restore, Received, Failed, Goto, server, motion, node, others, vars,
      IInv, TypesOK, ScopeInv, PCsOf, Kinds, Matrices, PCs, Working, Holding,
      Scoped, Calls
<1>13. ASSUME NEW g \in Goals, EndMotion(g) PROVE ScopeInv'
  BY <1>13, KindsAssumption
  DEF EndMotion, Goto, server, motion, node, others, vars, IInv, TypesOK,
      ScopeInv, PCsOf, Kinds, Matrices, PCs, Working, Holding, Scoped, Calls
<1>14. ASSUME NEW g \in Goals, ReleaseReservation(g) PROVE ScopeInv'
  BY <1>14, KindsAssumption
  DEF ReleaseReservation, Goto, server, motion, node, others, vars, IInv,
      TypesOK, ScopeInv, PCsOf, Kinds, Matrices, PCs, Working, Holding,
      Scoped, Calls
<1>15. ASSUME NEW g \in Goals, PublishResult(g) PROVE ScopeInv'
  BY <1>15, KindsAssumption
  DEF PublishResult, Goto, server, motion, node, others, vars, IInv, TypesOK,
      ScopeInv, PCsOf, Kinds, Matrices, PCs, Working, Holding, Scoped, Calls
<1>16. ASSUME NEW r \in requests, Serve(r) PROVE ScopeInv'
  BY <1>16, KindsAssumption
  DEF Serve, server, motion, node, others, vars, IInv, TypesOK, ScopeInv,
      PCsOf, Kinds, Matrices, PCs, Working, Holding, Scoped, Calls
<1>17. ASSUME NEW op \in {"attach", "detach"}, HandlePayload(op) PROVE ScopeInv'
  BY <1>17, KindsAssumption
  DEF HandlePayload, server, motion, node, others, vars, IInv, TypesOK,
      ScopeInv, PCsOf, Kinds, Matrices, PCs, Working, Holding, Scoped, Calls
<1>18. ASSUME ChangePayload PROVE ScopeInv'
  BY <1>18, KindsAssumption
  DEF ChangePayload, server, motion, node, others, vars, IInv, TypesOK,
      ScopeInv, PCsOf, Kinds, Matrices, PCs, Working, Holding, Scoped, Calls
<1>19. CASE UNCHANGED vars
  BY <1>19, KindsAssumption
  DEF server, motion, node, others, vars, IInv, TypesOK, ScopeInv, PCsOf,
      Kinds, Matrices, PCs, Working, Holding, Scoped, Calls
<1> QED
  BY <1>1, <1>2, <1>3, <1>4, <1>5, <1>6, <1>7, <1>8, <1>9, <1>10, <1>11,
  <1>12, <1>13, <1>14, <1>15, <1>16, <1>17, <1>18, <1>19
     DEF Next, Worker

-----------------------------------------------------------------------------
\* A worker that goes on has no call under way.
LEMMA CallStep == IInv /\ [Next]_vars => CallInv'
<1> SUFFICES ASSUME IInv, [Next]_vars PROVE CallInv'
  OBVIOUS
<1>1. ASSUME NEW g \in Goals, HandleGoal(g) PROVE CallInv'
  BY <1>1
  DEF HandleGoal, Goto, server, motion, node, others, vars, IInv, TypesOK,
      CallInv, Kinds, PCs, Working, Holding, Scoped, Calls
<1>2. ASSUME NEW g \in Goals, StartMotion(g) PROVE CallInv'
  BY <1>2
  DEF StartMotion, Goto, server, motion, node, others, vars, IInv, TypesOK,
      CallInv, Kinds, PCs, Working, Holding, Scoped, Calls
<1>3. ASSUME NEW g \in Goals, Prepare(g) PROVE CallInv'
  BY <1>3
  DEF Prepare, Continue, Leave, Goto, server, motion, node, others, vars,
      IInv, TypesOK, CallInv, Kinds, PCs, Working, Holding, Scoped, Calls
<1>4. ASSUME NEW g \in Goals, ReadScene(g) PROVE CallInv'
  BY <1>4
  DEF ReadScene, Continue, Goto, server, motion, node, others, vars, IInv,
      TypesOK, CallInv, Kinds, PCs, Working, Holding, Scoped, Calls
<1>5. ASSUME NEW g \in Goals, Send(g) PROVE CallInv'
  BY <1>5
  DEF Send, MatrixOf, server, motion, node, others, vars, IInv, TypesOK,
      CallInv, Kinds, PCs, Working, Holding, Scoped, Calls
<1>6. ASSUME NEW g \in Goals, Relax(g) PROVE CallInv'
  BY <1>6
  DEF Relax, Received, Failed, Goto, server, motion, node, others, vars, IInv,
      TypesOK, CallInv, Kinds, PCs, Working, Holding, Scoped, Calls
<1>7. ASSUME NEW g \in Goals, Pause(g) PROVE CallInv'
  BY <1>7
  DEF Pause, Received, Failed, Continue, Leave, Goto, server, motion, node,
      others, vars, IInv, TypesOK, CallInv, Kinds, PCs, Working, Holding,
      Scoped, Calls
<1>8. ASSUME NEW g \in Goals, Plan(g) PROVE CallInv'
  BY <1>8
  DEF Plan, Continue, Goto, server, motion, node, others, vars, IInv, TypesOK,
      CallInv, Kinds, PCs, Working, Holding, Scoped, Calls
<1>9. ASSUME NEW g \in Goals, Resume(g) PROVE CallInv'
  BY <1>9
  DEF Resume, Received, Failed, Continue, Leave, Goto, server, motion, node,
      others, vars, IInv, TypesOK, CallInv, Kinds, PCs, Working, Holding,
      Scoped, Calls
<1>10. ASSUME NEW g \in Goals, Execute(g) PROVE CallInv'
  BY <1>10
  DEF Execute, Leave, Goto, server, motion, node, others, vars, IInv, TypesOK,
      CallInv, Kinds, PCs, Working, Holding, Scoped, Calls
<1>11. ASSUME NEW g \in Goals, AbortExecution(g) PROVE CallInv'
  BY <1>11
  DEF AbortExecution, Leave, Goto, server, motion, node, others, vars, IInv,
      TypesOK, CallInv, Kinds, PCs, Working, Holding, Scoped, Calls
<1>12. ASSUME NEW g \in Goals, Restore(g) PROVE CallInv'
  BY <1>12
  DEF Restore, Received, Failed, Goto, server, motion, node, others, vars,
      IInv, TypesOK, CallInv, Kinds, PCs, Working, Holding, Scoped, Calls
<1>13. ASSUME NEW g \in Goals, EndMotion(g) PROVE CallInv'
  BY <1>13
  DEF EndMotion, Goto, server, motion, node, others, vars, IInv, TypesOK,
      CallInv, Kinds, PCs, Working, Holding, Scoped, Calls
<1>14. ASSUME NEW g \in Goals, ReleaseReservation(g) PROVE CallInv'
  BY <1>14
  DEF ReleaseReservation, Goto, server, motion, node, others, vars, IInv,
      TypesOK, CallInv, Kinds, PCs, Working, Holding, Scoped, Calls
<1>15. ASSUME NEW g \in Goals, PublishResult(g) PROVE CallInv'
  BY <1>15
  DEF PublishResult, Goto, server, motion, node, others, vars, IInv, TypesOK,
      CallInv, Kinds, PCs, Working, Holding, Scoped, Calls
<1>16. ASSUME NEW r \in requests, Serve(r) PROVE CallInv'
  BY <1>16
  DEF Serve, server, motion, node, others, vars, IInv, TypesOK, CallInv,
      Kinds, PCs, Working, Holding, Scoped, Calls
<1>17. ASSUME NEW op \in {"attach", "detach"}, HandlePayload(op) PROVE CallInv'
  BY <1>17
  DEF HandlePayload, server, motion, node, others, vars, IInv, TypesOK,
      CallInv, Kinds, PCs, Working, Holding, Scoped, Calls
<1>18. ASSUME ChangePayload PROVE CallInv'
  BY <1>18
  DEF ChangePayload, server, motion, node, others, vars, IInv, TypesOK,
      CallInv, Kinds, PCs, Working, Holding, Scoped, Calls
<1>19. CASE UNCHANGED vars
  BY <1>19
  DEF server, motion, node, others, vars, IInv, TypesOK, CallInv, Kinds, PCs,
      Working, Holding, Scoped, Calls
<1> QED
  BY <1>1, <1>2, <1>3, <1>4, <1>5, <1>6, <1>7, <1>8, <1>9, <1>10, <1>11,
  <1>12, <1>13, <1>14, <1>15, <1>16, <1>17, <1>18, <1>19
     DEF Next, Worker

-----------------------------------------------------------------------------
\* Physics is paused for a worker that will resume it.
LEMMA PhysicsStep == IInv /\ [Next]_vars => PhysicsInv'
<1> SUFFICES ASSUME IInv, [Next]_vars PROVE PhysicsInv'
  OBVIOUS
<1>1. ASSUME NEW g \in Goals, HandleGoal(g) PROVE PhysicsInv'
  BY <1>1
  DEF HandleGoal, Goto, server, motion, node, others, vars, IInv, TypesOK,
      FlagsOK, OneMotionAtATime, CallInv, PhysicsInv, RequestInv, Awaited,
      Request, Matrices, Kinds, PCs, Working, Holding, Scoped, Calls
<1>2. ASSUME NEW g \in Goals, StartMotion(g) PROVE PhysicsInv'
  BY <1>2
  DEF StartMotion, Goto, server, motion, node, others, vars, IInv, TypesOK,
      FlagsOK, OneMotionAtATime, CallInv, PhysicsInv, RequestInv, Awaited,
      Request, Matrices, Kinds, PCs, Working, Holding, Scoped, Calls
<1>3. ASSUME NEW g \in Goals, Prepare(g) PROVE PhysicsInv'
  BY <1>3
  DEF Prepare, Continue, Leave, Goto, server, motion, node, others, vars,
      IInv, TypesOK, FlagsOK, OneMotionAtATime, CallInv, PhysicsInv,
      RequestInv, Awaited, Request, Matrices, Kinds, PCs, Working, Holding,
      Scoped, Calls
<1>4. ASSUME NEW g \in Goals, ReadScene(g) PROVE PhysicsInv'
  BY <1>4
  DEF ReadScene, Continue, Goto, server, motion, node, others, vars, IInv,
      TypesOK, FlagsOK, OneMotionAtATime, CallInv, PhysicsInv, RequestInv,
      Awaited, Request, Matrices, Kinds, PCs, Working, Holding, Scoped, Calls
<1>5. ASSUME NEW g \in Goals, Send(g) PROVE PhysicsInv'
  BY <1>5
  DEF Send, MatrixOf, server, motion, node, others, vars, IInv, TypesOK,
      FlagsOK, OneMotionAtATime, CallInv, PhysicsInv, RequestInv, Awaited,
      Request, Matrices, Kinds, PCs, Working, Holding, Scoped, Calls
<1>6. ASSUME NEW g \in Goals, Relax(g) PROVE PhysicsInv'
  BY <1>6
  DEF Relax, Received, Failed, Goto, server, motion, node, others, vars, IInv,
      TypesOK, FlagsOK, OneMotionAtATime, CallInv, PhysicsInv, RequestInv,
      Awaited, Request, Matrices, Kinds, PCs, Working, Holding, Scoped, Calls
<1>7. ASSUME NEW g \in Goals, Pause(g) PROVE PhysicsInv'
  BY <1>7
  DEF Pause, Received, Failed, Continue, Leave, Goto, server, motion, node,
      others, vars, IInv, TypesOK, FlagsOK, OneMotionAtATime, CallInv,
      PhysicsInv, RequestInv, Awaited, Request, Matrices, Kinds, PCs, Working,
      Holding, Scoped, Calls
<1>8. ASSUME NEW g \in Goals, Plan(g) PROVE PhysicsInv'
  BY <1>8
  DEF Plan, Continue, Goto, server, motion, node, others, vars, IInv, TypesOK,
      FlagsOK, OneMotionAtATime, CallInv, PhysicsInv, RequestInv, Awaited,
      Request, Matrices, Kinds, PCs, Working, Holding, Scoped, Calls
<1>9. ASSUME NEW g \in Goals, Resume(g) PROVE PhysicsInv'
  BY <1>9
  DEF Resume, Received, Failed, Continue, Leave, Goto, server, motion, node,
      others, vars, IInv, TypesOK, FlagsOK, OneMotionAtATime, CallInv,
      PhysicsInv, RequestInv, Awaited, Request, Matrices, Kinds, PCs, Working,
      Holding, Scoped, Calls
<1>10. ASSUME NEW g \in Goals, Execute(g) PROVE PhysicsInv'
  BY <1>10
  DEF Execute, Leave, Goto, server, motion, node, others, vars, IInv, TypesOK,
      FlagsOK, OneMotionAtATime, CallInv, PhysicsInv, RequestInv, Awaited,
      Request, Matrices, Kinds, PCs, Working, Holding, Scoped, Calls
<1>11. ASSUME NEW g \in Goals, AbortExecution(g) PROVE PhysicsInv'
  BY <1>11
  DEF AbortExecution, Leave, Goto, server, motion, node, others, vars, IInv,
      TypesOK, FlagsOK, OneMotionAtATime, CallInv, PhysicsInv, RequestInv,
      Awaited, Request, Matrices, Kinds, PCs, Working, Holding, Scoped, Calls
<1>12. ASSUME NEW g \in Goals, Restore(g) PROVE PhysicsInv'
  BY <1>12
  DEF Restore, Received, Failed, Goto, server, motion, node, others, vars,
      IInv, TypesOK, FlagsOK, OneMotionAtATime, CallInv, PhysicsInv,
      RequestInv, Awaited, Request, Matrices, Kinds, PCs, Working, Holding,
      Scoped, Calls
<1>13. ASSUME NEW g \in Goals, EndMotion(g) PROVE PhysicsInv'
  BY <1>13
  DEF EndMotion, Goto, server, motion, node, others, vars, IInv, TypesOK,
      FlagsOK, OneMotionAtATime, CallInv, PhysicsInv, RequestInv, Awaited,
      Request, Matrices, Kinds, PCs, Working, Holding, Scoped, Calls
<1>14. ASSUME NEW g \in Goals, ReleaseReservation(g) PROVE PhysicsInv'
  BY <1>14
  DEF ReleaseReservation, Goto, server, motion, node, others, vars, IInv,
      TypesOK, FlagsOK, OneMotionAtATime, CallInv, PhysicsInv, RequestInv,
      Awaited, Request, Matrices, Kinds, PCs, Working, Holding, Scoped, Calls
<1>15. ASSUME NEW g \in Goals, PublishResult(g) PROVE PhysicsInv'
  BY <1>15
  DEF PublishResult, Goto, server, motion, node, others, vars, IInv, TypesOK,
      FlagsOK, OneMotionAtATime, CallInv, PhysicsInv, RequestInv, Awaited,
      Request, Matrices, Kinds, PCs, Working, Holding, Scoped, Calls
<1>16. ASSUME NEW r \in requests, Serve(r) PROVE PhysicsInv'
  <2> USE DEF IInv
  <2> SUFFICES ASSUME "physics" \notin failed PROVE PhysicsInv'
    BY <1>16 DEF Serve, PhysicsInv
  <2>1. UNCHANGED << pc, failed >> /\ requests' = requests \ {r}
    BY <1>16 DEF Serve, server
  <2>2. /\ r.from \in Goals /\ r.op \in Calls
        /\ call' = IF pc[r.from] = r.op /\ call[r.from] = "sent"
                     THEN [call EXCEPT ![r.from] = "answered"] ELSE call
    BY <1>16 DEF Serve, TypesOK, Request
  <2>3. \A q \in requests' : q.op \in {"pause", "resume"} =>
          (pc[q.from] = q.op /\ call'[q.from] = "sent")
    <3> SUFFICES ASSUME NEW q \in requests, q # r, q.op \in {"pause", "resume"}
                 PROVE  pc[q.from] = q.op /\ call'[q.from] = "sent"
      BY <2>1
    <3>1. pc[q.from] = q.op /\ call[q.from] = "sent"
      BY DEF PhysicsInv, Awaited
    <3>2. CASE q.from = r.from
      <4>1. q.op = r.op => q.acm = r.acm
        BY DEF RequestInv
      <4>2. q.op # r.op
        BY <3>2, <4>1 DEF TypesOK, Request
      <4> QED BY <3>1, <3>2, <4>2, <2>2
    <3>3. CASE q.from # r.from
      BY <3>1, <3>3, <2>2 DEF TypesOK, Request
    <3> QED BY <3>2, <3>3
  <2>4. CASE r.op = "pause"
    <3>1. pc[r.from] = "pause"
      BY <2>4 DEF PhysicsInv, Awaited
    <3>2. \A h \in Goals : pc[h] # "resume"
      BY <3>1, <2>2 DEF OneMotionAtATime, Working, Holding
    <3> QED BY <2>1, <2>2, <2>3, <3>1, <3>2 DEF PhysicsInv, Awaited
  <2>5. CASE r.op = "resume"
    <3>1. ~paused'
      BY <1>16, <2>5 DEF Serve
    <3> QED BY <2>1, <2>3, <3>1 DEF PhysicsInv, Awaited
  <2>6. CASE r.op \notin {"pause", "resume"}
    <3>1. paused' = paused
      BY <1>16, <2>6 DEF Serve
    <3>2. \A h \in Goals : pc[h] = "resume" /\ call'[h] = "answered" => call[h] = "answered"
      BY <2>2, <2>6 DEF TypesOK
    <3>3. \A h \in Goals : pc[h] = "resume" /\ call'[h] = "answered" => ~paused
      BY <3>2, Zenon DEF PhysicsInv
    <3>4. paused => \E h \in Goals : pc[h] \in {"pause", "plan", "resume"}
      BY DEF PhysicsInv
    <3> QED BY <2>1, <2>3, <3>1, <3>3, <3>4, Zenon DEF PhysicsInv, Awaited
  <2> QED BY <2>4, <2>5, <2>6
<1>17. ASSUME NEW op \in {"attach", "detach"}, HandlePayload(op) PROVE PhysicsInv'
  BY <1>17
  DEF HandlePayload, server, motion, node, others, vars, IInv, TypesOK,
      FlagsOK, OneMotionAtATime, CallInv, PhysicsInv, RequestInv, Awaited,
      Request, Matrices, Kinds, PCs, Working, Holding, Scoped, Calls
<1>18. ASSUME ChangePayload PROVE PhysicsInv'
  BY <1>18
  DEF ChangePayload, server, motion, node, others, vars, IInv, TypesOK,
      FlagsOK, OneMotionAtATime, CallInv, PhysicsInv, RequestInv, Awaited,
      Request, Matrices, Kinds, PCs, Working, Holding, Scoped, Calls
<1>19. CASE UNCHANGED vars
  BY <1>19
  DEF server, motion, node, others, vars, IInv, TypesOK, FlagsOK,
      OneMotionAtATime, CallInv, PhysicsInv, RequestInv, Awaited, Request,
      Matrices, Kinds, PCs, Working, Holding, Scoped, Calls
<1> QED
  BY <1>1, <1>2, <1>3, <1>4, <1>5, <1>6, <1>7, <1>8, <1>9, <1>10, <1>11,
  <1>12, <1>13, <1>14, <1>15, <1>16, <1>17, <1>18, <1>19
     DEF Next, Worker

-----------------------------------------------------------------------------
\* A request is that of the worker that waits for it.
LEMMA RequestStep == IInv /\ [Next]_vars => RequestInv'
<1> SUFFICES ASSUME IInv, [Next]_vars PROVE RequestInv'
  OBVIOUS
<1>1. ASSUME NEW g \in Goals, HandleGoal(g) PROVE RequestInv'
  BY <1>1
  DEF HandleGoal, Goto, server, motion, node, others, vars, IInv, TypesOK,
      CallInv, ScopeInv, SceneInv, RequestInv, Awaited, Request, Matrices,
      Kinds, PCs, Working, Holding, Scoped, Calls
<1>2. ASSUME NEW g \in Goals, StartMotion(g) PROVE RequestInv'
  BY <1>2
  DEF StartMotion, Goto, server, motion, node, others, vars, IInv, TypesOK,
      CallInv, ScopeInv, SceneInv, RequestInv, Awaited, Request, Matrices,
      Kinds, PCs, Working, Holding, Scoped, Calls
<1>3. ASSUME NEW g \in Goals, Prepare(g) PROVE RequestInv'
  BY <1>3
  DEF Prepare, Continue, Leave, Goto, server, motion, node, others, vars,
      IInv, TypesOK, CallInv, ScopeInv, SceneInv, RequestInv, Awaited,
      Request, Matrices, Kinds, PCs, Working, Holding, Scoped, Calls
<1>4. ASSUME NEW g \in Goals, ReadScene(g) PROVE RequestInv'
  BY <1>4
  DEF ReadScene, Continue, Goto, server, motion, node, others, vars, IInv,
      TypesOK, CallInv, ScopeInv, SceneInv, RequestInv, Awaited, Request,
      Matrices, Kinds, PCs, Working, Holding, Scoped, Calls
<1>5. ASSUME NEW g \in Goals, Send(g) PROVE RequestInv'
  BY <1>5
  DEF Send, MatrixOf, server, motion, node, others, vars, IInv, TypesOK,
      CallInv, ScopeInv, SceneInv, RequestInv, Awaited, Request, Matrices,
      Kinds, PCs, Working, Holding, Scoped, Calls
<1>6. ASSUME NEW g \in Goals, Relax(g) PROVE RequestInv'
  BY <1>6
  DEF Relax, Received, Failed, Goto, server, motion, node, others, vars, IInv,
      TypesOK, CallInv, ScopeInv, SceneInv, RequestInv, Awaited, Request,
      Matrices, Kinds, PCs, Working, Holding, Scoped, Calls
<1>7. ASSUME NEW g \in Goals, Pause(g) PROVE RequestInv'
  BY <1>7
  DEF Pause, Received, Failed, Continue, Leave, Goto, server, motion, node,
      others, vars, IInv, TypesOK, CallInv, ScopeInv, SceneInv, RequestInv,
      Awaited, Request, Matrices, Kinds, PCs, Working, Holding, Scoped, Calls
<1>8. ASSUME NEW g \in Goals, Plan(g) PROVE RequestInv'
  BY <1>8
  DEF Plan, Continue, Goto, server, motion, node, others, vars, IInv, TypesOK,
      CallInv, ScopeInv, SceneInv, RequestInv, Awaited, Request, Matrices,
      Kinds, PCs, Working, Holding, Scoped, Calls
<1>9. ASSUME NEW g \in Goals, Resume(g) PROVE RequestInv'
  BY <1>9
  DEF Resume, Received, Failed, Continue, Leave, Goto, server, motion, node,
      others, vars, IInv, TypesOK, CallInv, ScopeInv, SceneInv, RequestInv,
      Awaited, Request, Matrices, Kinds, PCs, Working, Holding, Scoped, Calls
<1>10. ASSUME NEW g \in Goals, Execute(g) PROVE RequestInv'
  BY <1>10
  DEF Execute, Leave, Goto, server, motion, node, others, vars, IInv, TypesOK,
      CallInv, ScopeInv, SceneInv, RequestInv, Awaited, Request, Matrices,
      Kinds, PCs, Working, Holding, Scoped, Calls
<1>11. ASSUME NEW g \in Goals, AbortExecution(g) PROVE RequestInv'
  BY <1>11
  DEF AbortExecution, Leave, Goto, server, motion, node, others, vars, IInv,
      TypesOK, CallInv, ScopeInv, SceneInv, RequestInv, Awaited, Request,
      Matrices, Kinds, PCs, Working, Holding, Scoped, Calls
<1>12. ASSUME NEW g \in Goals, Restore(g) PROVE RequestInv'
  BY <1>12
  DEF Restore, Received, Failed, Goto, server, motion, node, others, vars,
      IInv, TypesOK, CallInv, ScopeInv, SceneInv, RequestInv, Awaited,
      Request, Matrices, Kinds, PCs, Working, Holding, Scoped, Calls
<1>13. ASSUME NEW g \in Goals, EndMotion(g) PROVE RequestInv'
  BY <1>13
  DEF EndMotion, Goto, server, motion, node, others, vars, IInv, TypesOK,
      CallInv, ScopeInv, SceneInv, RequestInv, Awaited, Request, Matrices,
      Kinds, PCs, Working, Holding, Scoped, Calls
<1>14. ASSUME NEW g \in Goals, ReleaseReservation(g) PROVE RequestInv'
  BY <1>14
  DEF ReleaseReservation, Goto, server, motion, node, others, vars, IInv,
      TypesOK, CallInv, ScopeInv, SceneInv, RequestInv, Awaited, Request,
      Matrices, Kinds, PCs, Working, Holding, Scoped, Calls
<1>15. ASSUME NEW g \in Goals, PublishResult(g) PROVE RequestInv'
  BY <1>15
  DEF PublishResult, Goto, server, motion, node, others, vars, IInv, TypesOK,
      CallInv, ScopeInv, SceneInv, RequestInv, Awaited, Request, Matrices,
      Kinds, PCs, Working, Holding, Scoped, Calls
<1>16. ASSUME NEW r \in requests, Serve(r) PROVE RequestInv'
  BY <1>16
  DEF Serve, server, motion, node, others, vars, IInv, TypesOK, CallInv,
      ScopeInv, SceneInv, RequestInv, Awaited, Request, Matrices, Kinds, PCs,
      Working, Holding, Scoped, Calls
<1>17. ASSUME NEW op \in {"attach", "detach"}, HandlePayload(op) PROVE RequestInv'
  BY <1>17
  DEF HandlePayload, server, motion, node, others, vars, IInv, TypesOK,
      CallInv, ScopeInv, SceneInv, RequestInv, Awaited, Request, Matrices,
      Kinds, PCs, Working, Holding, Scoped, Calls
<1>18. ASSUME ChangePayload PROVE RequestInv'
  BY <1>18
  DEF ChangePayload, server, motion, node, others, vars, IInv, TypesOK,
      CallInv, ScopeInv, SceneInv, RequestInv, Awaited, Request, Matrices,
      Kinds, PCs, Working, Holding, Scoped, Calls
<1>19. CASE UNCHANGED vars
  BY <1>19
  DEF server, motion, node, others, vars, IInv, TypesOK, CallInv, ScopeInv,
      SceneInv, RequestInv, Awaited, Request, Matrices, Kinds, PCs, Working,
      Holding, Scoped, Calls
<1> QED
  BY <1>1, <1>2, <1>3, <1>4, <1>5, <1>6, <1>7, <1>8, <1>9, <1>10, <1>11,
  <1>12, <1>13, <1>14, <1>15, <1>16, <1>17, <1>18, <1>19
     DEF Next, Worker

-----------------------------------------------------------------------------
\* The matrix is relaxed in a scope that will restore the strict one.
LEMMA SceneStep == IInv /\ [Next]_vars => SceneInv'
<1> SUFFICES ASSUME IInv, [Next]_vars PROVE SceneInv'
  OBVIOUS
<1>1. ASSUME NEW g \in Goals, HandleGoal(g) PROVE SceneInv'
  BY <1>1
  DEF HandleGoal, Goto, server, motion, node, others, vars, IInv, TypesOK,
      LockInv, OneMotionAtATime, CallInv, ScopeInv, SceneInv, RequestInv,
      Awaited, Request, Matrices, Kinds, PCs, Working, Holding, Scoped, Calls
<1>2. ASSUME NEW g \in Goals, StartMotion(g) PROVE SceneInv'
  BY <1>2
  DEF StartMotion, Goto, server, motion, node, others, vars, IInv, TypesOK,
      LockInv, OneMotionAtATime, CallInv, ScopeInv, SceneInv, RequestInv,
      Awaited, Request, Matrices, Kinds, PCs, Working, Holding, Scoped, Calls
<1>3. ASSUME NEW g \in Goals, Prepare(g) PROVE SceneInv'
  BY <1>3
  DEF Prepare, Continue, Leave, Goto, server, motion, node, others, vars,
      IInv, TypesOK, LockInv, OneMotionAtATime, CallInv, ScopeInv, SceneInv,
      RequestInv, Awaited, Request, Matrices, Kinds, PCs, Working, Holding,
      Scoped, Calls
<1>4. ASSUME NEW g \in Goals, ReadScene(g) PROVE SceneInv'
  BY <1>4
  DEF ReadScene, Continue, Goto, server, motion, node, others, vars, IInv,
      TypesOK, LockInv, OneMotionAtATime, CallInv, ScopeInv, SceneInv,
      RequestInv, Awaited, Request, Matrices, Kinds, PCs, Working, Holding,
      Scoped, Calls
<1>5. ASSUME NEW g \in Goals, Send(g) PROVE SceneInv'
  BY <1>5
  DEF Send, MatrixOf, server, motion, node, others, vars, IInv, TypesOK,
      LockInv, OneMotionAtATime, CallInv, ScopeInv, SceneInv, RequestInv,
      Awaited, Request, Matrices, Kinds, PCs, Working, Holding, Scoped, Calls
<1>6. ASSUME NEW g \in Goals, Relax(g) PROVE SceneInv'
  BY <1>6
  DEF Relax, Received, Failed, Goto, server, motion, node, others, vars, IInv,
      TypesOK, LockInv, OneMotionAtATime, CallInv, ScopeInv, SceneInv,
      RequestInv, Awaited, Request, Matrices, Kinds, PCs, Working, Holding,
      Scoped, Calls
<1>7. ASSUME NEW g \in Goals, Pause(g) PROVE SceneInv'
  BY <1>7
  DEF Pause, Received, Failed, Continue, Leave, Goto, server, motion, node,
      others, vars, IInv, TypesOK, LockInv, OneMotionAtATime, CallInv,
      ScopeInv, SceneInv, RequestInv, Awaited, Request, Matrices, Kinds, PCs,
      Working, Holding, Scoped, Calls
<1>8. ASSUME NEW g \in Goals, Plan(g) PROVE SceneInv'
  BY <1>8
  DEF Plan, Continue, Goto, server, motion, node, others, vars, IInv, TypesOK,
      LockInv, OneMotionAtATime, CallInv, ScopeInv, SceneInv, RequestInv,
      Awaited, Request, Matrices, Kinds, PCs, Working, Holding, Scoped, Calls
<1>9. ASSUME NEW g \in Goals, Resume(g) PROVE SceneInv'
  BY <1>9
  DEF Resume, Received, Failed, Continue, Leave, Goto, server, motion, node,
      others, vars, IInv, TypesOK, LockInv, OneMotionAtATime, CallInv,
      ScopeInv, SceneInv, RequestInv, Awaited, Request, Matrices, Kinds, PCs,
      Working, Holding, Scoped, Calls
<1>10. ASSUME NEW g \in Goals, Execute(g) PROVE SceneInv'
  BY <1>10
  DEF Execute, Leave, Goto, server, motion, node, others, vars, IInv, TypesOK,
      LockInv, OneMotionAtATime, CallInv, ScopeInv, SceneInv, RequestInv,
      Awaited, Request, Matrices, Kinds, PCs, Working, Holding, Scoped, Calls
<1>11. ASSUME NEW g \in Goals, AbortExecution(g) PROVE SceneInv'
  BY <1>11
  DEF AbortExecution, Leave, Goto, server, motion, node, others, vars, IInv,
      TypesOK, LockInv, OneMotionAtATime, CallInv, ScopeInv, SceneInv,
      RequestInv, Awaited, Request, Matrices, Kinds, PCs, Working, Holding,
      Scoped, Calls
<1>12. ASSUME NEW g \in Goals, Restore(g) PROVE SceneInv'
  BY <1>12
  DEF Restore, Received, Failed, Goto, server, motion, node, others, vars,
      IInv, TypesOK, LockInv, OneMotionAtATime, CallInv, ScopeInv, SceneInv,
      RequestInv, Awaited, Request, Matrices, Kinds, PCs, Working, Holding,
      Scoped, Calls
<1>13. ASSUME NEW g \in Goals, EndMotion(g) PROVE SceneInv'
  BY <1>13
  DEF EndMotion, Goto, server, motion, node, others, vars, IInv, TypesOK,
      LockInv, OneMotionAtATime, CallInv, ScopeInv, SceneInv, RequestInv,
      Awaited, Request, Matrices, Kinds, PCs, Working, Holding, Scoped, Calls
<1>14. ASSUME NEW g \in Goals, ReleaseReservation(g) PROVE SceneInv'
  BY <1>14
  DEF ReleaseReservation, Goto, server, motion, node, others, vars, IInv,
      TypesOK, LockInv, OneMotionAtATime, CallInv, ScopeInv, SceneInv,
      RequestInv, Awaited, Request, Matrices, Kinds, PCs, Working, Holding,
      Scoped, Calls
<1>15. ASSUME NEW g \in Goals, PublishResult(g) PROVE SceneInv'
  BY <1>15
  DEF PublishResult, Goto, server, motion, node, others, vars, IInv, TypesOK,
      LockInv, OneMotionAtATime, CallInv, ScopeInv, SceneInv, RequestInv,
      Awaited, Request, Matrices, Kinds, PCs, Working, Holding, Scoped, Calls
<1>16. ASSUME NEW r \in requests, Serve(r) PROVE SceneInv'
  BY <1>16
  DEF Serve, server, motion, node, others, vars, IInv, TypesOK, LockInv,
      OneMotionAtATime, CallInv, ScopeInv, SceneInv, RequestInv, Awaited,
      Request, Matrices, Kinds, PCs, Working, Holding, Scoped, Calls
<1>17. ASSUME NEW op \in {"attach", "detach"}, HandlePayload(op) PROVE SceneInv'
  BY <1>17
  DEF HandlePayload, server, motion, node, others, vars, IInv, TypesOK,
      LockInv, OneMotionAtATime, CallInv, ScopeInv, SceneInv, RequestInv,
      Awaited, Request, Matrices, Kinds, PCs, Working, Holding, Scoped, Calls
<1>18. ASSUME ChangePayload PROVE SceneInv'
  BY <1>18
  DEF ChangePayload, server, motion, node, others, vars, IInv, TypesOK,
      LockInv, OneMotionAtATime, CallInv, ScopeInv, SceneInv, RequestInv,
      Awaited, Request, Matrices, Kinds, PCs, Working, Holding, Scoped, Calls
<1>19. CASE UNCHANGED vars
  BY <1>19
  DEF server, motion, node, others, vars, IInv, TypesOK, LockInv,
      OneMotionAtATime, CallInv, ScopeInv, SceneInv, RequestInv, Awaited,
      Request, Matrices, Kinds, PCs, Working, Holding, Scoped, Calls
<1> QED
  BY <1>1, <1>2, <1>3, <1>4, <1>5, <1>6, <1>7, <1>8, <1>9, <1>10, <1>11,
  <1>12, <1>13, <1>14, <1>15, <1>16, <1>17, <1>18, <1>19
     DEF Next, Worker

-----------------------------------------------------------------------------
\* A check that ends restores the budget, unless it throws.
LEMMA BudgetStep == IInv /\ [Next]_vars => BudgetInv'
<1> SUFFICES ASSUME IInv, [Next]_vars PROVE BudgetInv'
  OBVIOUS
<1>1. ASSUME NEW g \in Goals, HandleGoal(g) PROVE BudgetInv'
  BY <1>1, KindsAssumption
  DEF HandleGoal, Goto, server, motion, node, others, vars, IInv, TypesOK,
      ScopeInv, PCsOf, BudgetInv, Kinds, PCs, Working, Holding, Scoped, Calls
<1>2. ASSUME NEW g \in Goals, StartMotion(g) PROVE BudgetInv'
  BY <1>2, KindsAssumption
  DEF StartMotion, Goto, server, motion, node, others, vars, IInv, TypesOK,
      ScopeInv, PCsOf, BudgetInv, Kinds, PCs, Working, Holding, Scoped, Calls
<1>3. ASSUME NEW g \in Goals, Prepare(g) PROVE BudgetInv'
  BY <1>3, KindsAssumption
  DEF Prepare, Continue, Leave, Goto, server, motion, node, others, vars,
      IInv, TypesOK, ScopeInv, PCsOf, BudgetInv, Kinds, PCs, Working, Holding,
      Scoped, Calls
<1>4. ASSUME NEW g \in Goals, ReadScene(g) PROVE BudgetInv'
  BY <1>4, KindsAssumption
  DEF ReadScene, Continue, Goto, server, motion, node, others, vars, IInv,
      TypesOK, ScopeInv, PCsOf, BudgetInv, Kinds, PCs, Working, Holding,
      Scoped, Calls
<1>5. ASSUME NEW g \in Goals, Send(g) PROVE BudgetInv'
  BY <1>5, KindsAssumption
  DEF Send, MatrixOf, server, motion, node, others, vars, IInv, TypesOK,
      ScopeInv, PCsOf, BudgetInv, Kinds, PCs, Working, Holding, Scoped, Calls
<1>6. ASSUME NEW g \in Goals, Relax(g) PROVE BudgetInv'
  BY <1>6, KindsAssumption
  DEF Relax, Received, Failed, Goto, server, motion, node, others, vars, IInv,
      TypesOK, ScopeInv, PCsOf, BudgetInv, Kinds, PCs, Working, Holding,
      Scoped, Calls
<1>7. ASSUME NEW g \in Goals, Pause(g) PROVE BudgetInv'
  BY <1>7, KindsAssumption
  DEF Pause, Received, Failed, Continue, Leave, Goto, server, motion, node,
      others, vars, IInv, TypesOK, ScopeInv, PCsOf, BudgetInv, Kinds, PCs,
      Working, Holding, Scoped, Calls
<1>8. ASSUME NEW g \in Goals, Plan(g) PROVE BudgetInv'
  BY <1>8, KindsAssumption
  DEF Plan, Continue, Goto, server, motion, node, others, vars, IInv, TypesOK,
      ScopeInv, PCsOf, BudgetInv, Kinds, PCs, Working, Holding, Scoped, Calls
<1>9. ASSUME NEW g \in Goals, Resume(g) PROVE BudgetInv'
  BY <1>9, KindsAssumption
  DEF Resume, Received, Failed, Continue, Leave, Goto, server, motion, node,
      others, vars, IInv, TypesOK, ScopeInv, PCsOf, BudgetInv, Kinds, PCs,
      Working, Holding, Scoped, Calls
<1>10. ASSUME NEW g \in Goals, Execute(g) PROVE BudgetInv'
  BY <1>10, KindsAssumption
  DEF Execute, Leave, Goto, server, motion, node, others, vars, IInv, TypesOK,
      ScopeInv, PCsOf, BudgetInv, Kinds, PCs, Working, Holding, Scoped, Calls
<1>11. ASSUME NEW g \in Goals, AbortExecution(g) PROVE BudgetInv'
  BY <1>11, KindsAssumption
  DEF AbortExecution, Leave, Goto, server, motion, node, others, vars, IInv,
      TypesOK, ScopeInv, PCsOf, BudgetInv, Kinds, PCs, Working, Holding,
      Scoped, Calls
<1>12. ASSUME NEW g \in Goals, Restore(g) PROVE BudgetInv'
  BY <1>12, KindsAssumption
  DEF Restore, Received, Failed, Goto, server, motion, node, others, vars,
      IInv, TypesOK, ScopeInv, PCsOf, BudgetInv, Kinds, PCs, Working, Holding,
      Scoped, Calls
<1>13. ASSUME NEW g \in Goals, EndMotion(g) PROVE BudgetInv'
  BY <1>13, KindsAssumption
  DEF EndMotion, Goto, server, motion, node, others, vars, IInv, TypesOK,
      ScopeInv, PCsOf, BudgetInv, Kinds, PCs, Working, Holding, Scoped, Calls
<1>14. ASSUME NEW g \in Goals, ReleaseReservation(g) PROVE BudgetInv'
  BY <1>14, KindsAssumption
  DEF ReleaseReservation, Goto, server, motion, node, others, vars, IInv,
      TypesOK, ScopeInv, PCsOf, BudgetInv, Kinds, PCs, Working, Holding,
      Scoped, Calls
<1>15. ASSUME NEW g \in Goals, PublishResult(g) PROVE BudgetInv'
  BY <1>15, KindsAssumption
  DEF PublishResult, Goto, server, motion, node, others, vars, IInv, TypesOK,
      ScopeInv, PCsOf, BudgetInv, Kinds, PCs, Working, Holding, Scoped, Calls
<1>16. ASSUME NEW r \in requests, Serve(r) PROVE BudgetInv'
  BY <1>16, KindsAssumption
  DEF Serve, server, motion, node, others, vars, IInv, TypesOK, ScopeInv,
      PCsOf, BudgetInv, Kinds, PCs, Working, Holding, Scoped, Calls
<1>17. ASSUME NEW op \in {"attach", "detach"}, HandlePayload(op) PROVE BudgetInv'
  BY <1>17, KindsAssumption
  DEF HandlePayload, server, motion, node, others, vars, IInv, TypesOK,
      ScopeInv, PCsOf, BudgetInv, Kinds, PCs, Working, Holding, Scoped, Calls
<1>18. ASSUME ChangePayload PROVE BudgetInv'
  BY <1>18, KindsAssumption
  DEF ChangePayload, server, motion, node, others, vars, IInv, TypesOK,
      ScopeInv, PCsOf, BudgetInv, Kinds, PCs, Working, Holding, Scoped, Calls
<1>19. CASE UNCHANGED vars
  BY <1>19, KindsAssumption
  DEF server, motion, node, others, vars, IInv, TypesOK, ScopeInv, PCsOf,
      BudgetInv, Kinds, PCs, Working, Holding, Scoped, Calls
<1> QED
  BY <1>1, <1>2, <1>3, <1>4, <1>5, <1>6, <1>7, <1>8, <1>9, <1>10, <1>11,
  <1>12, <1>13, <1>14, <1>15, <1>16, <1>17, <1>18, <1>19
     DEF Next, Worker

-----------------------------------------------------------------------------
(* The theorems.                                                           *)

\* The invariant holds at first.
LEMMA InitInv == Init => IInv
<1> SUFFICES ASSUME Init PROVE IInv
  OBVIOUS
<1> USE NobodyAssumption DEF Init, PCs, Working, Holding, Scoped, Calls
<1>1. TypesOK
  BY DEF TypesOK, Kinds, Matrices
<1>2. FlagsOK
  BY Zenon DEF FlagsOK
<1>3. LockInv
  BY DEF LockInv
<1>4. OneMotionAtATime
  BY DEF OneMotionAtATime
<1>5. ScopeInv
  BY DEF ScopeInv, PCsOf
<1>6. CallInv
  BY DEF CallInv
<1>7. PhysicsInv
  BY DEF PhysicsInv
<1>8. RequestInv
  BY DEF RequestInv
<1>9. SceneInv
  BY DEF SceneInv
<1>10. BudgetInv
  BY DEF BudgetInv
<1> QED
  BY <1>1, <1>2, <1>3, <1>4, <1>5, <1>6, <1>7, <1>8, <1>9, <1>10 DEF IInv

\* Every step keeps the invariant.
LEMMA NextInv == IInv /\ [Next]_vars => IInv'
BY TypesStep, FlagsStep, LockStep, OneMotionStep, ScopeStep, CallStep,
   PhysicsStep, RequestStep, SceneStep, BudgetStep DEF IInv

\* The inductive invariant holds in every state the node can reach.
THEOREM MotionInvariant == Spec => []IInv
BY InitInv, NextInv, PTL DEF Spec

\* Every variable keeps its type, and every worker stays where its action may
\* be: a reachability check never gets to execute.
THEOREM TypeCorrect == Spec => []TypeOK
<1>1. IInv => TypeOK
  <2> SUFFICES ASSUME IInv PROVE TypeOK
    OBVIOUS
  <2>1. motion_active \in BOOLEAN /\ payload \in BOOLEAN /\ paused \in BOOLEAN
    BY Zenon DEF IInv, FlagsOK
  <2>2. \A g \in Goals : pc[g] \in PCsOf(kind[g])
    BY Zenon DEF IInv, ScopeInv
  <2>3. requests \in SUBSET [from : Goals, op : Calls, acm : Matrices]
    BY Zenon DEF IInv, TypesOK, Request
  <2>4. failed \in SUBSET {"physics", "scene", "check"}
    BY Zenon DEF IInv, TypesOK
  <2> QED
    BY <2>1, <2>2, <2>3, <2>4, Zenon DEF IInv, TypesOK, TypeOK
<1> QED BY <1>1, MotionInvariant, PTL

\* motion_active_ is set exactly while one goal is worked on, and never two.
THEOREM OneMotion == Spec => []OneMotionAtATime
<1>1. IInv => OneMotionAtATime
  BY DEF IInv
<1> QED BY <1>1, MotionInvariant, PTL

\* planAndExecute and planOnly leave physics running, however planning ends.
THEOREM PhysicsResumes == Spec => []SimulationResumes
<1>1. IInv => SimulationResumes
  BY DEF IInv, PhysicsInv, SimulationResumes
<1> QED BY <1>1, MotionInvariant, PTL

\* CollisionScope gives the collision matrix back as it found it, however the
\* motion ends.
THEOREM ScopeRestored == Spec => []ScopesRestored
<1>1. IInv => ScopesRestored
  BY DEF IInv, SceneInv, ScopesRestored
<1> QED BY <1>1, MotionInvariant, PTL

\* checkPoseReachability leaves the reduced budget behind only if it throws.
THEOREM BudgetFull == Spec => []FullBudget
<1>1. IInv => FullBudget
  BY DEF IInv, BudgetInv, OneMotionAtATime, Working, Holding, FullBudget
<1> QED BY <1>1, MotionInvariant, PTL

\* attachPayload and detachPayload wait for the motion under way.
THEOREM PayloadFixed == Spec => PayloadFixedInMotion
<1>1. IInv /\ [Next]_vars
        => [payload' # payload => \A g \in Goals : pc[g] \notin Holding]_payload
  <2> SUFFICES ASSUME IInv, [Next]_vars, payload' # payload
               PROVE  \A g \in Goals : pc[g] \notin Holding
    OBVIOUS
  <2>1. ChangePayload
    BY DEF Next, Worker, HandleGoal, Goto, StartMotion, Prepare, Continue, Leave,
       ReadScene, Send, MatrixOf, Relax, Received, Failed, Pause, Plan,
       Resume, Execute, AbortExecution, Restore, EndMotion,
       ReleaseReservation, PublishResult, Serve, HandlePayload, server,
       motion, node, others, vars
  <2> QED
    BY <2>1, NobodyAssumption DEF ChangePayload, IInv, LockInv
<1> QED BY <1>1, MotionInvariant, PTL DEF Spec, PayloadFixedInMotion

-----------------------------------------------------------------------------
(* The node implements the service.                                        *)

Stages == [g \in Goals |-> StageOf(pc[g])]

\* A goal moves exactly while its worker holds the lock.
LEMMA StageFacts ==
  /\ StageOf("none") = "unsent" /\ StageOf("rejected") = "refused"
  /\ StageOf("lock") = "accepted" /\ StageOf("release") = "moved"
  /\ StageOf("publish") = "ended" /\ StageOf("done") = "reported"
  /\ \A place \in PCs : StageOf(place) = "moving" <=> place \in Holding
BY DEF StageOf, PCs, Working, Holding, Scoped

\* A goal that goes on takes its stage along.
LEMMA StageGoto ==
  ASSUME TypesOK, NEW g \in Goals, NEW next, Goto(g, next)
  PROVE  Stages' = [Stages EXCEPT ![g] = StageOf(next)]
BY DEF TypesOK, Goto, Stages

\* A step within a motion is none of the service, or arranges the scene.
LEMMA MotionArranges ==
  ASSUME IInv, IInv', NEW g \in Goals, pc[g] \in Holding,
         NEW next \in Holding, Goto(g, next), failed \subseteq failed',
         UNCHANGED << motion_active, payload >>
  PROVE  Service!Next
<1>1. pc[g] \in PCs /\ next \in PCs
  BY DEF PCs, Working
<1>2. Stages[g] = "moving" /\ StageOf(next) = "moving"
  BY <1>1, StageFacts DEF Stages
<1>3. Stages' = Stages
  BY <1>2, StageGoto DEF IInv, Stages
<1>4. paused' \in BOOLEAN /\ (acm = "relaxed")' \in BOOLEAN
  BY Zenon DEF IInv, FlagsOK
<1>5. Service!Arrange
  BY <1>2, <1>3, <1>4, Zenon DEF Service!Arrange, Service!Moving, Stages
<1> QED
  BY <1>5 DEF Service!Next

\* A step that no goal is seen to take, and that leaves the scene, is none.
LEMMA ServiceStays ==
  ASSUME UNCHANGED << pc, motion_active, payload, paused, acm, failed >>
  PROVE  UNCHANGED Service!vars
BY Zenon DEF Service!vars

\* A request that is served belongs to a motion, or to a call that has failed.
LEMMA ServeArranges ==
  ASSUME IInv, IInv', NEW r \in requests, Serve(r)
  PROVE  Service!Next
<1>1. /\ r.from \in Goals /\ r.op \in Calls
      /\ UNCHANGED << pc, motion_active, payload, failed >>
  BY DEF Serve, IInv, TypesOK, Request, server, node
<1>2. Stages' = Stages
  BY <1>1 DEF Stages
<1>3. paused' \in BOOLEAN /\ (acm = "relaxed")' \in BOOLEAN
  BY Zenon DEF IInv, FlagsOK
<1>4. (\E g \in Goals : Stages[g] = "moving")
        \/ /\ paused' # paused => "physics" \in failed
           /\ (acm = "relaxed")' # (acm = "relaxed") => "scene" \in failed
  <2>1. CASE pc[r.from] = r.op
    <3>1. pc[r.from] \in Holding /\ pc[r.from] \in PCs
      BY <1>1, <2>1 DEF Calls, PCs, Working, Holding, Scoped
    <3> QED
      BY <1>1, <3>1, StageFacts DEF Stages
  <2>2. CASE pc[r.from] # r.op
    <3>1. ~Awaited(r)
      BY <2>2 DEF Awaited
    <3>2. r.op \in {"pause", "resume"} => "physics" \in failed /\ r.acm = "none"
      BY <3>1 DEF IInv, PhysicsInv, RequestInv
    <3>3. r.op \in {"relax", "restore"} => "scene" \in failed
      BY <3>1 DEF IInv, RequestInv
    <3>4. r.op \in {"relax", "restore"} => paused' = paused
      BY DEF Serve
    <3>5. r.acm = "none" => acm' = acm
      BY DEF Serve
    <3> QED
      BY <1>1, <3>2, <3>3, <3>4, <3>5 DEF Calls
  <2> QED
    BY <2>1, <2>2
<1>5. Service!Arrange
  BY <1>1, <1>2, <1>3, <1>4, Zenon DEF Service!Arrange, Service!Moving, Stages
<1> QED
  BY <1>5 DEF Service!Next

\* A motion that ends has resumed physics and restored the collision matrix,
\* unless a call to do so failed.
LEMMA EndFinishes ==
  ASSUME IInv, NEW g \in Goals, EndMotion(g)
  PROVE  Service!Next
<1>1. /\ pc[g] = "unlock" /\ Goto(g, "release")
      /\ UNCHANGED << motion_active, payload, paused, acm, failed >>
  BY DEF EndMotion, server, node, others
<1>2. \A h \in Goals : pc[h] \in Working => h = g
  BY <1>1 DEF IInv, OneMotionAtATime, Working, Holding
<1>3. paused => "physics" \in failed
  <2> SUFFICES ASSUME "physics" \notin failed, paused PROVE FALSE
    OBVIOUS
  <2>1. PICK h \in Goals : pc[h] \in {"pause", "plan", "resume"}
    BY DEF IInv, PhysicsInv
  <2> QED
    BY <1>1, <1>2, <2>1 DEF Working, Holding
<1>4. acm = "relaxed" => "scene" \in failed
  <2> SUFFICES ASSUME "scene" \notin failed, acm = "relaxed" PROVE FALSE
    OBVIOUS
  <2>1. PICK h \in Goals : previous_acm[h] = "strict" /\ pc[h] # "unlock"
    BY DEF IInv, SceneInv
  <2>2. pc[h] \in Working
    BY <2>1 DEF IInv, ScopeInv, Working, Holding, Scoped
  <2> QED
    BY <1>1, <1>2, <2>1, <2>2
<1>5. Stages[g] = "moving" /\ Stages' = [Stages EXCEPT ![g] = "moved"]
  BY <1>1, StageFacts, StageGoto
  DEF Stages, IInv, TypesOK, PCs, Working, Holding, Scoped
<1>6. Service!Finish(g)
  BY <1>1, <1>3, <1>4, <1>5, Zenon
  DEF Service!Finish, Service!Advance, Stages
<1> QED
  BY <1>6 DEF Service!Next

\* A payload changes while no goal moves.
LEMMA PayloadChanges ==
  ASSUME IInv, ChangePayload
  PROVE  [Service!Next]_Service!vars
<1>1. UNCHANGED << pc, motion_active, paused, acm, failed >>
  BY DEF ChangePayload, server, others
<1>2. CASE payload' = payload
  BY <1>1, <1>2, ServiceStays
<1>3. CASE payload' # payload
  <2>1. payload' = ~payload
    BY <1>3, Zenon DEF ChangePayload, IInv, FlagsOK
  <2>2. \A g \in Goals : Stages[g] # "moving"
    <3> SUFFICES ASSUME NEW g \in Goals PROVE Stages[g] # "moving"
      OBVIOUS
    <3>1. pc[g] \notin Holding
      BY NobodyAssumption DEF ChangePayload, IInv, LockInv
    <3> QED
      BY <3>1, StageFacts DEF Stages, IInv, TypesOK
  <2>3. Service!ChangePayload
    BY <1>1, <2>1, <2>2, Zenon DEF Service!ChangePayload, Service!Moving, Stages
  <2> QED
    BY <2>3 DEF Service!Next
<1> QED
  BY <1>2, <1>3

\* A goal is accepted or refused, and starts when it has the lock.
LEMMA GoalSteps ==
  ASSUME IInv, NEW g \in Goals,
         HandleGoal(g) \/ StartMotion(g) \/ ReleaseReservation(g) \/ PublishResult(g)
  PROVE  Service!Next
<1>1. UNCHANGED << payload, paused, acm, failed >>
  BY DEF HandleGoal, StartMotion, ReleaseReservation, PublishResult, node, others
<1>2. CASE HandleGoal(g)
  <2>1. Stages[g] = "unsent"
    BY <1>2, StageFacts DEF HandleGoal, Stages
  <2>2. CASE ~motion_active /\ motion_active' = TRUE /\ Goto(g, "lock")
    <3>1. Stages' = [Stages EXCEPT ![g] = "accepted"]
      BY <2>2, StageFacts, StageGoto DEF IInv
    <3>2. Service!Accept(g)
      BY <1>1, <2>1, <2>2, <3>1, Zenon DEF Service!Accept, Service!Advance, Stages
    <3> QED
      BY <3>2 DEF Service!Next
  <2>3. CASE Goto(g, "rejected") /\ UNCHANGED motion_active
    <3>1. Stages' = [Stages EXCEPT ![g] = "refused"]
      BY <2>3, StageFacts, StageGoto DEF IInv
    <3>2. Service!Refuse(g)
      BY <1>1, <2>1, <2>3, <3>1, Zenon DEF Service!Refuse, Service!Advance, Stages
    <3> QED
      BY <3>2 DEF Service!Next
  <2> QED
    BY <1>2, <2>2, <2>3, Zenon DEF HandleGoal
<1>3. CASE StartMotion(g)
  <2>1. Stages[g] = "accepted" /\ Stages' = [Stages EXCEPT ![g] = "moving"]
    BY <1>3, StageFacts, StageGoto
    DEF StartMotion, Stages, IInv, PCs, Working, Holding, Scoped
  <2>2. \A h \in Goals : Stages[h] # "moving"
    <3> SUFFICES ASSUME NEW h \in Goals PROVE Stages[h] # "moving"
      OBVIOUS
    <3>1. pc[h] \notin Holding
      BY <1>3, NobodyAssumption DEF StartMotion, IInv, LockInv
    <3> QED
      BY <3>1, StageFacts DEF Stages, IInv, TypesOK
  <2>3. UNCHANGED motion_active
    BY <1>3 DEF StartMotion, server
  <2>4. Service!Start(g)
    BY <1>1, <2>1, <2>2, <2>3, Zenon
    DEF Service!Start, Service!Advance, Service!Moving, Stages
  <2> QED
    BY <2>4 DEF Service!Next
<1>4. CASE ReleaseReservation(g)
  <2>1. Stages[g] = "moved" /\ Stages' = [Stages EXCEPT ![g] = "ended"]
    BY <1>4, StageFacts, StageGoto DEF ReleaseReservation, Stages, IInv
  <2>2. Service!Release(g)
    BY <1>1, <1>4, <2>1, Zenon
    DEF ReleaseReservation, Service!Release, Service!Advance, Stages
  <2> QED
    BY <2>2 DEF Service!Next
<1>5. CASE PublishResult(g)
  <2>1. Stages[g] = "ended" /\ Stages' = [Stages EXCEPT ![g] = "reported"]
    BY <1>5, StageFacts, StageGoto DEF PublishResult, Stages, IInv
  <2>2. Service!Report(g)
    BY <1>1, <1>5, <2>1, Zenon
    DEF PublishResult, server, Service!Report, Service!Advance, Stages
  <2> QED
    BY <2>2 DEF Service!Next
<1> QED
  BY <1>2, <1>3, <1>4, <1>5

\* A step of a motion leaves it within its motion.
LEMMA WithinMotion ==
  ASSUME IInv, NEW g \in Goals,
         \/ Prepare(g) \/ ReadScene(g) \/ Relax(g) \/ Pause(g) \/ Plan(g)
         \/ Resume(g) \/ Execute(g) \/ AbortExecution(g) \/ Restore(g)
  PROVE  /\ pc[g] \in Holding
         /\ \E next \in Holding : Goto(g, next)
         /\ failed \subseteq failed'
         /\ UNCHANGED << motion_active, payload >>
<1> USE DEF Continue, Leave, Received, Failed, server, node, Holding, Scoped
<1>1. CASE Prepare(g) \/ ReadScene(g) \/ Plan(g) \/ Execute(g) \/ AbortExecution(g)
  BY <1>1 DEF Prepare, ReadScene, Plan, Execute, AbortExecution
<1>2. CASE Relax(g) \/ Restore(g)
  BY <1>2 DEF Relax, Restore
<1>3. CASE Pause(g) \/ Resume(g)
  BY <1>3 DEF Pause, Resume
<1> QED
  BY <1>1, <1>2, <1>3

\* Every step is one of the service, or none.
LEMMA ServiceStep ==
  ASSUME IInv, IInv', [Next]_vars
  PROVE  [Service!Next]_Service!vars
<1>1. ASSUME NEW g \in Goals, HandleGoal(g) \/ Worker(g) \/ AbortExecution(g)
      PROVE  [Service!Next]_Service!vars
  <2>1. CASE HandleGoal(g) \/ StartMotion(g) \/ ReleaseReservation(g) \/ PublishResult(g)
    BY <2>1, GoalSteps
  <2>2. CASE \/ Prepare(g) \/ ReadScene(g) \/ Relax(g) \/ Pause(g) \/ Plan(g)
             \/ Resume(g) \/ Execute(g) \/ AbortExecution(g) \/ Restore(g)
    BY <2>2, WithinMotion, MotionArranges
  <2>3. CASE Send(g)
    BY <2>3, ServiceStays DEF Send, server, node
  <2>4. CASE EndMotion(g)
    BY <2>4, EndFinishes
  <2> QED
    BY <1>1, <2>1, <2>2, <2>3, <2>4, Zenon DEF Worker
<1>2. ASSUME NEW r \in requests, Serve(r) PROVE [Service!Next]_Service!vars
  BY <1>2, ServeArranges
<1>3. ASSUME NEW op \in {"attach", "detach"}, HandlePayload(op)
      PROVE  [Service!Next]_Service!vars
  BY <1>3, ServiceStays DEF HandlePayload, server, others
<1>4. CASE ChangePayload
  BY <1>4, PayloadChanges
<1>5. CASE UNCHANGED vars
  BY <1>5, ServiceStays DEF vars, server, node, others
<1> QED
  BY <1>1, <1>2, <1>3, <1>4, <1>5, Zenon DEF Next

\* Whatever workers, locks, late answers and payload requests do, the node is
\* one arm that serves one goal at a time, under whose motions no payload comes
\* or goes, and that hands on a running simulation with every collision checked
\* unless a call has failed.
THEOREM ArmImplementsService == Spec => ImplementsArmService
<1>1. Init => Service!Init
  <2> SUFFICES ASSUME Init PROVE Service!Init
    OBVIOUS
  <2>1. \A g \in Goals : pc[g] = "none"
    BY DEF Init
  <2>2. (acm = "relaxed") = FALSE
    BY DEF Init
  <2>3. Stages = [g \in Goals |-> "unsent"]
    BY <2>1, StageFacts DEF Stages
  <2> QED
    BY <2>2, <2>3, Zenon DEF Init, Service!Init, Stages
<1>2. IInv /\ IInv' /\ [Next]_vars => [Service!Next]_Service!vars
  BY ServiceStep
<1> QED
  BY <1>1, <1>2, MotionInvariant, PTL DEF Spec, ImplementsArmService, Service!Spec
=============================================================================
