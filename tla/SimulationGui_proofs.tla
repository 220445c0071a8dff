------------------------- MODULE SimulationGui_proofs -------------------------
(***************************************************************************)
(* Theorems about SimulationGui, for any commands, any number of updates   *)
(* and any number of faults.                                               *)
(***************************************************************************)
EXTENDS SimulationGui, TLAPS

-----------------------------------------------------------------------------
(* The inductive invariant.                                                *)

\* The type invariant in two parts, the flags and the rest.
FlagsOK ==
  /\ running \in BOOLEAN /\ request_in_flight \in BOOLEAN
  /\ stopping \in BOOLEAN /\ stopped \in BOOLEAN /\ raised \in BOOLEAN
  /\ up \in BOOLEAN

QtOK ==
  /\ qt \in QtWork /\ qtOn \in Op \cup {Nothing}
  /\ ros \in RosWork /\ rosOn \in Op \cup {Nothing}
  /\ clients \in {"none", "open", "closed"}
  /\ tasks \in Seq(Op \cup {Create, Close})
  /\ phase \in [Op -> Phases]
  /\ performed \subseteq Commands
  /\ told \in [Commands -> {"nothing", "success", "failure"}]

UpdateOK ==
  /\ pending \in [Updates -> SUBSET Source]
  /\ composed \subseteq Updates

NumbersOK ==
  /\ events \in Seq(Int)
  /\ AtMostOne(panel)
  /\ wanted \in [Commands -> Int]
  /\ box \in [Updates -> Int]
  /\ stored \in Int /\ applied \in Int
  /\ faults \in 0 .. MaxFaults

\* What a thread is working on.
InChain(u)  == ros \in {"compose", "show", "post"} /\ rosOn[2] = u
Reports(c)  == ros \in {"report", "tell"} /\ rosOn = c

WorkInv ==
  /\ qt \in {"watch", "compose", "refresh"}
       => qtOn[2] \in Live /\ qtOn = << "robot", qtOn[2] >>
  /\ qt = "register" => qtOn \in Commands
  /\ ros \in {"compose", "show", "post"}
       => rosOn[2] \in Live /\ rosOn = << "robot", rosOn[2] >>
  /\ ros \in {"report", "tell"} => rosOn \in Commands
  /\ running <=> qt \notin {"await", "join", "ended"}

\* A task of the executor is that of one operation, which has not begun.
TaskInv ==
  /\ \A i \in 1 .. Len(tasks) : tasks[i] \in Op => phase[tasks[i]] = "queued"
  /\ \A i, j \in 1 .. Len(tasks) : tasks[i] = tasks[j] /\ tasks[i] \in Op => i = j

\* An update is under way with all its reads or with none.
LiveInv ==
  /\ request_in_flight <=> Live # {}
  /\ \A u, v \in Live : u = v
  /\ \A u \in Updates : \A s \in Source : phase[<< s, u >>] = "idle" <=> u \notin Live

\* Where the chain of an update is: at the counter, at the composer, at the
\* refresher or with a thread.
Chain(u) ==
  /\ Watched(u) /\ u \in Live
       => pending[u] = {s \in Source : phase[<< s, u >>] \notin Done}
  /\ ~ComposerWaits(u) => u \notin composed /\ ~InChain(u)
  /\ u \in composed => u \in Live /\ pending[u] = {}
  /\ InChain(u) => pending[u] = {} /\ (u \in composed <=> ros # "compose")
  /\ ~RefresherWaits(u) => ros \notin {"show", "post"}
  /\ u \in Live /\ ComposerWaits(u) /\ pending[u] = {} => u \in composed \/ InChain(u)
  /\ u \in composed => InChain(u) \/ ~RefresherWaits(u)

ChainInv == \A u \in Updates : Chain(u)

\* What has become of a command, and what the operator knows of it.
Honest(c) ==
  /\ c \in performed => phase[c] \in {"served", "ok", "lost"}
  /\ phase[c] \in {"served", "ok"} => c \in performed
  /\ told[c] = "success" => phase[c] = "ok"
  /\ told[c] = "failure" => phase[c] = "failed"
  /\ qt = "register" /\ qtOn = c
       => told[c] = "nothing" /\ phase[c] # "idle" /\ ~Reports(c)
  /\ Reports(c) => told[c] = "nothing" /\ phase[c] \in Done

CommandInv == \A c \in Commands : Honest(c)

IInv == FlagsOK /\ QtOK /\ UpdateOK /\ NumbersOK /\ WorkInv /\ TaskInv /\ LiveInv /\ ChainInv /\ CommandInv

-----------------------------------------------------------------------------
(* Operations                                                              *)

\* The reads of an update and the commands are different operations.
LEMMA OpFacts ==
  /\ \A u \in Updates : \A s \in Source :
       /\ << s, u >> \in Op /\ << s, u >> \in Reads /\ << s, u >> \notin Commands
       /\ << s, u >>[1] = s /\ << s, u >>[2] = u
  /\ \A c \in Commands : c \in Op /\ c \notin Reads
  /\ \A c \in Commands, u \in Updates : c \notin Source \X {u}
  /\ \A r \in Reads : \E s \in Source, u \in Updates : r = << s, u >>
  /\ \A op \in Op : op[1] = "robot" => op[2] \in Updates /\ op = << "robot", op[2] >>
  /\ Create \notin Op /\ Close \notin Op /\ Nothing \notin Op
BY CommandsAssumption
DEF Op, Reads, Source, Kinds, Create, Close, Nothing


\* A future that is completed, with what its callbacks go on to do.
LEMMA Completion ==
  ASSUME QtOK, UpdateOK, NEW op \in Op, NEW outcome \in Done, Complete(op, outcome)
  PROVE  /\ phase' = [phase EXCEPT ![op] = outcome]
         /\ \/ /\ op \in Commands /\ pending' = pending
               /\ \/ ListenerWaits(op) /\ ros' = "report" /\ rosOn' = op
                  \/ ~ListenerWaits(op) /\ ros' = "idle" /\ rosOn' = Nothing
            \/ \E s \in Source, u \in Updates :
                 /\ op = << s, u >> /\ op \notin Commands
                 /\ pending' = [pending EXCEPT ![u] =
                                  IF Watched(u) THEN pending[u] \ {s} ELSE pending[u]]
                 /\ \/ /\ pending'[u] = {} /\ ComposerWaits(u)
                       /\ ros' = "compose" /\ rosOn' = << "robot", u >>
                    \/ /\ pending'[u] # {} \/ ~ComposerWaits(u)
                       /\ ros' = "idle" /\ rosOn' = Nothing
<1>1. CASE op \in Commands
  BY <1>1 DEF Complete, RosDoes, Idle
<1>2. CASE op \notin Commands
  <2>1. PICK s \in Source, u \in Updates : op = << s, u >>
    BY <1>2, OpFacts DEF Op
  <2>2. op[1] = s /\ op[2] = u
    BY <2>1
  <2> QED
    BY <1>2, <2>1, <2>2 DEF Complete, RosDoes, Idle, UpdateOK
<1> QED
  BY <1>1, <1>2

\* The update that is asked for is one that is over.
LEMMA FreeUpdate ==
  ASSUME RequestSceneUpdate
  PROVE  \E u \in Updates :
           /\ phase[<< "robot", u >>] = "idle"
           /\ request_in_flight' = TRUE
           /\ tasks' = tasks \o << << "robot", u >>, << "amcl", u >>, << "odom", u >> >>
           /\ phase' = [op \in Op |-> IF op \in Source \X {u} THEN "queued" ELSE phase[op]]
           /\ qt' = "watch" /\ qtOn' = << "robot", u >>
<1> DEFINE free == {u \in Updates : phase[<< "robot", u >>] = "idle"}
           u    == CHOOSE v \in free : TRUE
<1>1. u \in free
  BY DEF RequestSceneUpdate
<1> QED
  BY <1>1 DEF RequestSceneUpdate, Submit, QtDoes

\* A task that is next has not begun, and is not in the queue again.
LEMMA HeadQueued ==
  ASSUME QtOK, TaskInv, tasks # << >>
  PROVE  /\ Head(tasks) \in Op => phase[Head(tasks)] = "queued"
         /\ \A i \in 1 .. Len(Tail(tasks)) :
              /\ Tail(tasks)[i] = tasks[i + 1] /\ i + 1 \in 1 .. Len(tasks)
              /\ Head(tasks) \in Op => Tail(tasks)[i] # Head(tasks)
         /\ Len(Tail(tasks)) = Len(tasks) - 1
<1> Head(tasks) = tasks[1] /\ 1 \in 1 .. Len(tasks)
  BY DEF QtOK
<1> Len(Tail(tasks)) = Len(tasks) - 1
    /\ \A i \in 1 .. Len(Tail(tasks)) : Tail(tasks)[i] = tasks[i + 1] /\ i + 1 \in 1 .. Len(tasks)
  BY DEF QtOK
<1> QED
  BY DEF TaskInv

\* What a task does.
LEMMA TaskCases ==
  ASSUME QtOK, RunTask
  PROVE  /\ tasks' = Tail(tasks) /\ tasks # << >>
         /\ \/ /\ clients' = "open" /\ UNCHANGED << phase, pending, rosThread >>
            \/ CloseOnRosThread
            \/ /\ Head(tasks) \in Op
               /\ phase' = [phase EXCEPT ![Head(tasks)] = "called"]
               /\ UNCHANGED << rosThread, pending, clients >>
            \/ /\ Head(tasks) \in Op
               /\ \E outcome \in Done :
                    /\ Complete(Head(tasks), outcome)
                    /\ Head(tasks) \in Commands => outcome = "failed"
               /\ UNCHANGED clients
<1>1. "ok" \in Done /\ "failed" \in Done
  BY DEF Done
<1>2. CASE Head(tasks) \in Commands \cup ({"robot"} \X Updates) /\ Request(Head(tasks))
           /\ UNCHANGED clients
  <2>1. Head(tasks) \in Op
    BY <1>2 DEF Op, Reads, Source
  <2> QED
    BY <1>1, <1>2, <2>1 DEF Request, RunTask
<1>3. CASE Head(tasks) \in {"amcl", "odom"} \X Updates /\ Estimate(Head(tasks))
           /\ UNCHANGED clients
  <2>1. Head(tasks) \in Op /\ Head(tasks) \notin Commands
    BY <1>3, OpFacts DEF Op, Reads, Source
  <2> QED
    BY <1>1, <1>3, <2>1 DEF Estimate, RunTask
<1> QED
  BY <1>2, <1>3 DEF RunTask

-----------------------------------------------------------------------------
\* The flags stay flags.
LEMMA FlagsStep == FlagsOK /\ [Next]_vars => FlagsOK'
<1> SUFFICES ASSUME FlagsOK, [Next]_vars PROVE FlagsOK'
  OBVIOUS
<1>1. ASSUME NEW c \in Commands, ThrowFood(c) PROVE FlagsOK'
  BY <1>1, Zenon
  DEF ThrowFood, Input, Unused, Give, Refuse, Submit, QtDoes, qtThread,
      window, control, update, rosThread, simulation, history, FlagsOK
<1>2. ASSUME NEW c \in Commands, RequestFood(c) PROVE FlagsOK'
  BY <1>2, Zenon
  DEF RequestFood, Input, Unused, Give, Submit, QtDoes, qtThread, window,
      control, update, rosThread, simulation, history, FlagsOK
<1>3. ASSUME NEW c \in Commands, NEW d \in Steps, Move(c, d) PROVE FlagsOK'
  BY <1>3, Zenon
  DEF Move, Input, Unused, Give, Submit, QtDoes, qtThread, window, control,
      update, rosThread, simulation, history, FlagsOK
<1>4. ASSUME Quit PROVE FlagsOK'
  BY <1>4, Zenon
  DEF Quit, Leaving, Submit, QtDoes, qtThread, window, control, update,
      rosThread, simulation, history, FlagsOK
<1>5. ASSUME Register PROVE FlagsOK'
  BY <1>5, Zenon
  DEF Register, Told, Loop, QtDoes, qtThread, window, control, update,
      rosThread, simulation, history, FlagsOK
<1>6. ASSUME RequestSceneUpdate PROVE FlagsOK'
  BY <1>6, Zenon
  DEF RequestSceneUpdate, Input, Submit, QtDoes, qtThread, window, control,
      update, rosThread, simulation, history, FlagsOK
<1>7. ASSUME Watch PROVE FlagsOK'
  BY <1>7, Zenon
  DEF Watch, QtDoes, qtThread, window, control, update, rosThread, simulation,
      history, FlagsOK
<1>8. ASSUME Compose PROVE FlagsOK'
  BY <1>8, Zenon
  DEF Compose, QtDoes, qtThread, window, control, update, rosThread,
      simulation, history, FlagsOK
<1>9. ASSUME Refresh PROVE FlagsOK'
  BY <1>9, Zenon
  DEF Refresh, PostUpdate, Release, Loop, QtDoes, qtThread, window, control,
      update, rosThread, simulation, history, FlagsOK
<1>10. ASSUME HandleEvent PROVE FlagsOK'
  BY <1>10, Zenon
  DEF HandleEvent, qtThread, window, control, update, rosThread, simulation,
      history, FlagsOK
<1>11. ASSUME Shutdown PROVE FlagsOK'
  BY <1>11, Zenon
  DEF Shutdown, Leaving, QtDoes, qtThread, window, control, update, rosThread,
      simulation, history, FlagsOK
<1>12. ASSUME Join PROVE FlagsOK'
  BY <1>12, Zenon
  DEF Join, Leaving, QtDoes, qtThread, window, control, update, rosThread,
      simulation, history, FlagsOK
<1>13. ASSUME RunTask PROVE FlagsOK'
  BY <1>13, Zenon
  DEF RunTask, Request, Estimate, CloseOnRosThread, Complete, Idle, RosDoes,
      qtThread, window, control, update, rosThread, simulation, history,
      FlagsOK
<1>14. ASSUME NEW op \in Op, TakeResponse(op) PROVE FlagsOK'
  BY <1>14, Zenon
  DEF TakeResponse, Complete, Idle, RosDoes, qtThread, window, control,
      update, rosThread, simulation, history, FlagsOK
<1>15. ASSUME Callback, FinishState PROVE FlagsOK'
  BY <1>15, Zenon
  DEF FinishState, Callback, Idle, RosDoes, qtThread, window, control, update,
      rosThread, simulation, history, FlagsOK
<1>16. ASSUME Callback, FinishSceneUpdate PROVE FlagsOK'
  BY <1>16, Zenon
  DEF FinishSceneUpdate, Callback, PostUpdate, Release, Idle, RosDoes,
      qtThread, window, control, update, rosThread, simulation, history,
      FlagsOK
<1>17. ASSUME Callback, FinishCommand PROVE FlagsOK'
  BY <1>17, Zenon
  DEF FinishCommand, Callback, Told, Idle, RosDoes, qtThread, window, control,
      update, rosThread, simulation, history, FlagsOK
<1>18. ASSUME Spin PROVE FlagsOK'
  BY <1>18, Zenon
  DEF Spin, Unshared, RosDoes, qtThread, window, control, update, rosThread,
      simulation, history, FlagsOK
<1>19. ASSUME ApplyStoredPose PROVE FlagsOK'
  BY <1>19, Zenon
  DEF ApplyStoredPose, Elsewhere, qtThread, window, control, update,
      rosThread, simulation, history, FlagsOK
<1>20. ASSUME NEW op \in Op, Serve(op) PROVE FlagsOK'
  BY <1>20, Zenon
  DEF Serve, Elsewhere, qtThread, window, control, update, rosThread,
      simulation, history, FlagsOK
<1>21. ASSUME ExecutorFails PROVE FlagsOK'
  BY <1>21, Zenon
  DEF ExecutorFails, Unshared, RosDoes, qtThread, window, control, update,
      rosThread, simulation, history, FlagsOK
<1>22. ASSUME Start PROVE FlagsOK'
  BY <1>22, Zenon
  DEF Start, Elsewhere, qtThread, window, control, update, rosThread,
      simulation, history, FlagsOK
<1>23. ASSUME GoDown PROVE FlagsOK'
  BY <1>23, Zenon
  DEF GoDown, Elsewhere, qtThread, window, control, update, rosThread,
      simulation, history, FlagsOK
<1>24. ASSUME BehaviorGoesDown PROVE FlagsOK'
  BY <1>24, Zenon
  DEF BehaviorGoesDown, Elsewhere, qtThread, window, control, update,
      rosThread, simulation, history, FlagsOK
<1>25. CASE UNCHANGED vars
  BY <1>25, Zenon
  DEF vars, qtThread, window, control, update, rosThread, simulation, history,
      FlagsOK
<1> QED
  BY <1>1, <1>2, <1>3, <1>4, <1>5, <1>6, <1>7, <1>8, <1>9, <1>10, <1>11,
     <1>12, <1>13, <1>14, <1>15, <1>16, <1>17, <1>18, <1>19, <1>20, <1>21,
     <1>22, <1>23, <1>24, <1>25
  DEF Next, Operator, QtThread, RosThread, Servers, Environment, Callback

-----------------------------------------------------------------------------
\* The types of what the threads do and of the operations.
LEMMA QtStep == QtOK /\ UpdateOK /\ WorkInv /\ [Next]_vars => QtOK'
<1> SUFFICES ASSUME QtOK /\ UpdateOK /\ WorkInv, [Next]_vars PROVE QtOK'
  OBVIOUS
<1>1. ASSUME NEW c \in Commands, ThrowFood(c) PROVE QtOK'
  <2>1. CASE Give(c)
    BY <1>1, <2>1, OpFacts DEF ThrowFood, Input, Unused, Give, Submit, QtDoes,
       qtThread, window, control, update, rosThread, simulation, history, QtOK,
       QtWork, RosWork, WorkInv, Live, ToBehavior, Source, Phases, Done, Op,
       Reads
  <2>2. CASE Refuse(c)
    BY <1>1, <2>2, OpFacts DEF ThrowFood, Input, Unused, Refuse, qtThread,
       window, control, update, rosThread, simulation, history, QtOK, QtWork,
       RosWork, WorkInv, Live, ToBehavior, Source, Phases, Done, Op, Reads
  <2> QED
    BY <1>1, <2>1, <2>2 DEF ThrowFood
<1>2. ASSUME NEW c \in Commands, RequestFood(c) PROVE QtOK'
  BY <1>2, OpFacts
  DEF RequestFood, Input, Unused, Give, Submit, QtDoes, qtThread, window,
      control, update, rosThread, simulation, history, QtOK, QtWork, RosWork,
      WorkInv, Live, ToBehavior, Source, Phases, Done, Op, Reads
<1>3. ASSUME NEW c \in Commands, NEW d \in Steps, Move(c, d) PROVE QtOK'
  BY <1>3, OpFacts
  DEF Move, Input, Unused, Give, Submit, QtDoes, qtThread, window, control,
      update, rosThread, simulation, history, QtOK, QtWork, RosWork, WorkInv,
      Live, ToBehavior, Source, Phases, Done, Op, Reads
<1>4. ASSUME Quit PROVE QtOK'
  BY <1>4, OpFacts
  DEF Quit, Leaving, Submit, QtDoes, qtThread, window, control, update,
      rosThread, simulation, history, QtOK, QtWork, RosWork, WorkInv, Live,
      ToBehavior, Source, Phases, Done, Op, Reads
<1>5. ASSUME Register PROVE QtOK'
  <2>1. qtOn \in Commands
    BY <1>5 DEF Register, WorkInv
  <2> QED
    BY <1>5, <2>1 DEF Register, Told, Loop, QtDoes, rosThread, QtOK, QtWork, Done, history, control, window, update
<1>6. ASSUME RequestSceneUpdate PROVE QtOK'
  <2>1. PICK u \in Updates :
           /\ phase[<< "robot", u >>] = "idle"
           /\ request_in_flight' = TRUE
           /\ tasks' = tasks \o << << "robot", u >>, << "amcl", u >>, << "odom", u >> >>
           /\ phase' = [op \in Op |-> IF op \in Source \X {u} THEN "queued" ELSE
              phase[op]]
           /\ qt' = "watch" /\ qtOn' = << "robot", u >>
    BY <1>6, FreeUpdate
  <2>2. << "robot", u >> \in Op /\ << "amcl", u >> \in Op /\ << "odom", u >> \in Op
    BY OpFacts DEF Source
  <2>3. tasks' \in Seq(Op \cup {Create, Close})
    BY <2>1, <2>2 DEF QtOK
  <2>4. phase' \in [Op -> Phases]
    BY <2>1 DEF QtOK, Phases
  <2> QED
    BY <1>6, <2>1, <2>2, <2>3, <2>4 DEF RequestSceneUpdate, Input,
       Submit, qtThread, window, control, update, rosThread, simulation,
       history, QtOK, QtWork, RosWork, WorkInv, Live, ToBehavior, Source, Done,
       Reads
<1>7. ASSUME Watch PROVE QtOK'
  BY <1>7, OpFacts
  DEF Watch, QtDoes, qtThread, window, control, update, rosThread, simulation,
      history, QtOK, QtWork, RosWork, WorkInv, Live, ToBehavior, Source,
      Phases, Done, Op, Reads
<1>8. ASSUME Compose PROVE QtOK'
  BY <1>8, OpFacts
  DEF Compose, QtDoes, qtThread, window, control, update, rosThread,
      simulation, history, QtOK, QtWork, RosWork, WorkInv, Live, ToBehavior,
      Source, Phases, Done, Op, Reads
<1>9. ASSUME Refresh PROVE QtOK'
  BY <1>9, OpFacts
  DEF Refresh, PostUpdate, Release, Loop, QtDoes, qtThread, window, control,
      update, rosThread, simulation, history, QtOK, QtWork, RosWork, WorkInv,
      Live, ToBehavior, Source, Phases, Done, Op, Reads
<1>10. ASSUME HandleEvent PROVE QtOK'
  BY <1>10, OpFacts
  DEF HandleEvent, qtThread, window, control, update, rosThread, simulation,
      history, QtOK, QtWork, RosWork, WorkInv, Live, ToBehavior, Source,
      Phases, Done, Op, Reads
<1>11. ASSUME Shutdown PROVE QtOK'
  BY <1>11, OpFacts
  DEF Shutdown, Leaving, QtDoes, qtThread, window, control, update, rosThread,
      simulation, history, QtOK, QtWork, RosWork, WorkInv, Live, ToBehavior,
      Source, Phases, Done, Op, Reads
<1>12. ASSUME Join PROVE QtOK'
  BY <1>12, OpFacts
  DEF Join, Leaving, QtDoes, qtThread, window, control, update, rosThread,
      simulation, history, QtOK, QtWork, RosWork, WorkInv, Live, ToBehavior,
      Source, Phases, Done, Op, Reads
<1>13. ASSUME RunTask PROVE QtOK'
  <2>1. CASE clients' = "open" /\ UNCHANGED << phase, pending, rosThread >>
    BY <1>13, <2>1, OpFacts DEF RunTask, qtThread, window, control, update,
       rosThread, simulation, history, QtOK, QtWork, RosWork, WorkInv, Live,
       ToBehavior, Source, Phases, Done, Op, Reads
  <2>2. CASE CloseOnRosThread
    BY <1>13, <2>2, OpFacts DEF RunTask, CloseOnRosThread, qtThread, window,
       control, update, rosThread, simulation, history, QtOK, QtWork, RosWork,
       WorkInv, Live, ToBehavior, Source, Phases, Done, Op, Reads
  <2>3. CASE /\ Head(tasks) \in Op
             /\ phase' = [phase EXCEPT ![Head(tasks)] = "called"]
             /\ UNCHANGED << rosThread, pending, clients >>
    BY <1>13, <2>3, OpFacts DEF RunTask, qtThread, window, control, update,
       rosThread, simulation, history, QtOK, QtWork, RosWork, WorkInv, Live,
       ToBehavior, Source, Phases, Done, Op, Reads
  <2>4. ASSUME Head(tasks) \in Op, UNCHANGED clients,
               NEW outcome \in Done, Complete(Head(tasks), outcome)
        PROVE  QtOK'
    <3> DEFINE op == Head(tasks)
    <3>1. /\ op \in Op /\ UNCHANGED clients /\ tasks # << >> /\ tasks' = Tail(tasks)
          /\ phase' = [phase EXCEPT ![op] = outcome] /\ outcome \in Done
      BY <1>13, <2>4, Completion DEF RunTask
    <3>3. \/ /\ op \in Commands /\ pending' = pending
             /\ \/ ListenerWaits(op) /\ ros' = "report" /\ rosOn' = op
                \/ ~ListenerWaits(op) /\ ros' = "idle" /\ rosOn' = Nothing
          \/ \E s \in Source, u \in Updates :
               /\ op = << s, u >> /\ op \notin Commands
               /\ pending' = [pending EXCEPT ![u] =
                                IF Watched(u) THEN pending[u] \ {s} ELSE pending[u]]
               /\ \/ /\ pending'[u] = {} /\ ComposerWaits(u)
                     /\ ros' = "compose" /\ rosOn' = << "robot", u >>
                  \/ /\ pending'[u] # {} \/ ~ComposerWaits(u)
                     /\ ros' = "idle" /\ rosOn' = Nothing
      BY <2>4, Completion
    <3>4. CASE /\ op \in Commands /\ pending' = pending
               /\ \/ ListenerWaits(op) /\ ros' = "report" /\ rosOn' = op
                  \/ ~ListenerWaits(op) /\ ros' = "idle" /\ rosOn' = Nothing
      BY <1>13, <3>1, <3>3, <3>4, OpFacts DEF RunTask, qtThread, window, control,
         update, rosThread, simulation, history, QtOK, QtWork, RosWork, WorkInv,
         Live, ToBehavior, Source, Phases, Done, Op, Reads
    <3>5. ASSUME NEW s \in Source, NEW u \in Updates, op = << s, u >>, op \notin
       Commands,
                 pending' = [pending EXCEPT ![u] =
                               IF Watched(u) THEN pending[u] \ {s} ELSE pending[u]],
                 \/ /\ pending'[u] = {} /\ ComposerWaits(u)
                    /\ ros' = "compose" /\ rosOn' = << "robot", u >>
                 \/ /\ pending'[u] # {} \/ ~ComposerWaits(u)
                    /\ ros' = "idle" /\ rosOn' = Nothing
          PROVE  QtOK'
      BY <1>13, <3>1, <3>5, OpFacts DEF RunTask, qtThread, window, control,
         update, rosThread, simulation, history, QtOK, QtWork, RosWork, WorkInv,
         Live, ToBehavior, Source, Phases, Done, Op, Reads
    <3> QED
      BY <3>1, <3>3, <3>4, <3>5
  <2> QED
    BY <1>13, <2>1, <2>2, <2>3, <2>4, TaskCases
<1>14. ASSUME NEW op \in Op, TakeResponse(op) PROVE QtOK'
  <2>1. PICK outcome \in Done : Complete(op, outcome)
    BY <1>14 DEF TakeResponse, Done
  <2>2. phase' = [phase EXCEPT ![op] = outcome] /\ outcome \in Done
    BY <2>1, Completion
  <2>4. \/ /\ op \in Commands /\ pending' = pending
           /\ \/ ListenerWaits(op) /\ ros' = "report" /\ rosOn' = op
              \/ ~ListenerWaits(op) /\ ros' = "idle" /\ rosOn' = Nothing
        \/ \E s \in Source, u \in Updates :
             /\ op = << s, u >> /\ op \notin Commands
             /\ pending' = [pending EXCEPT ![u] =
                              IF Watched(u) THEN pending[u] \ {s} ELSE pending[u]]
             /\ \/ /\ pending'[u] = {} /\ ComposerWaits(u)
                   /\ ros' = "compose" /\ rosOn' = << "robot", u >>
                \/ /\ pending'[u] # {} \/ ~ComposerWaits(u)
                   /\ ros' = "idle" /\ rosOn' = Nothing
    BY <2>1, Completion
  <2>5. CASE /\ op \in Commands /\ pending' = pending
             /\ \/ ListenerWaits(op) /\ ros' = "report" /\ rosOn' = op
                \/ ~ListenerWaits(op) /\ ros' = "idle" /\ rosOn' = Nothing
    BY <1>14, <2>2, <2>4, <2>5, OpFacts DEF TakeResponse, qtThread, window,
       control, update, rosThread, simulation, history, QtOK, QtWork, RosWork,
       WorkInv, Live, ToBehavior, Source, Phases, Done, Op, Reads
  <2>6. ASSUME NEW s \in Source, NEW u \in Updates, op = << s, u >>, op \notin Commands,
               pending' = [pending EXCEPT ![u] =
                             IF Watched(u) THEN pending[u] \ {s} ELSE pending[u]],
               \/ /\ pending'[u] = {} /\ ComposerWaits(u)
                  /\ ros' = "compose" /\ rosOn' = << "robot", u >>
               \/ /\ pending'[u] # {} \/ ~ComposerWaits(u)
                  /\ ros' = "idle" /\ rosOn' = Nothing
        PROVE  QtOK'
    BY <1>14, <2>2, <2>6, OpFacts DEF TakeResponse, qtThread, window, control,
       update, rosThread, simulation, history, QtOK, QtWork, RosWork, WorkInv,
       Live, ToBehavior, Source, Phases, Done, Op, Reads
  <2> QED
    BY <2>2, <2>4, <2>5, <2>6
<1>15. ASSUME Callback, FinishState PROVE QtOK'
  BY <1>15, OpFacts
  DEF FinishState, Callback, Idle, RosDoes, qtThread, window, control, update,
      rosThread, simulation, history, QtOK, QtWork, RosWork, WorkInv, Live,
      ToBehavior, Source, Phases, Done, Op, Reads
<1>16. ASSUME Callback, FinishSceneUpdate PROVE QtOK'
  BY <1>16, OpFacts
  DEF FinishSceneUpdate, Callback, PostUpdate, Release, Idle, RosDoes,
      qtThread, window, control, update, rosThread, simulation, history, QtOK,
      QtWork, RosWork, WorkInv, Live, ToBehavior, Source, Phases, Done, Op,
      Reads
<1>17. ASSUME Callback, FinishCommand PROVE QtOK'
  <2>1. UNCHANGED << qt, qtOn, clients, tasks, phase, performed >>
    BY <1>17 DEF FinishCommand, Callback, qtThread
  <2>2. CASE ros = "report" /\ UNCHANGED told
    <3>1. ros' \in {"tell", "idle"} /\ rosOn' \in {rosOn, Nothing}
      BY <1>17, <2>2 DEF FinishCommand, Idle, RosDoes
    <3> QED
      BY <2>1, <2>2, <3>1 DEF QtOK, RosWork
  <2>3. CASE ros = "tell" /\ Told(rosOn) /\ Idle
    <3>1. rosOn \in Commands
      BY <2>3 DEF WorkInv
    <3>2. told' \in [Commands -> {"nothing", "success", "failure"}]
      BY <2>3, <3>1 DEF Told, QtOK
    <3> QED
      BY <2>1, <2>3, <3>2 DEF Idle, RosDoes, QtOK, RosWork
  <2> QED
    BY <1>17, <2>2, <2>3 DEF FinishCommand
<1>18. ASSUME Spin PROVE QtOK'
  BY <1>18, OpFacts
  DEF Spin, Unshared, RosDoes, qtThread, window, control, update, rosThread,
      simulation, history, QtOK, QtWork, RosWork, WorkInv, Live, ToBehavior,
      Source, Phases, Done, Op, Reads
<1>19. ASSUME ApplyStoredPose PROVE QtOK'
  BY <1>19, OpFacts
  DEF ApplyStoredPose, Elsewhere, qtThread, window, control, update,
      rosThread, simulation, history, QtOK, QtWork, RosWork, WorkInv, Live,
      ToBehavior, Source, Phases, Done, Op, Reads
<1>20. ASSUME NEW op \in Op, Serve(op) PROVE QtOK'
  BY <1>20, OpFacts
  DEF Serve, Elsewhere, qtThread, window, control, update, rosThread,
      simulation, history, QtOK, QtWork, RosWork, WorkInv, Live, ToBehavior,
      Source, Phases, Done, Op, Reads
<1>21. ASSUME ExecutorFails PROVE QtOK'
  BY <1>21, OpFacts
  DEF ExecutorFails, Unshared, RosDoes, qtThread, window, control, update,
      rosThread, simulation, history, QtOK, QtWork, RosWork, WorkInv, Live,
      ToBehavior, Source, Phases, Done, Op, Reads
<1>22. ASSUME Start PROVE QtOK'
  BY <1>22, OpFacts
  DEF Start, Elsewhere, qtThread, window, control, update, rosThread,
      simulation, history, QtOK, QtWork, RosWork, WorkInv, Live, ToBehavior,
      Source, Phases, Done, Op, Reads
<1>23. ASSUME GoDown PROVE QtOK'
  BY <1>23, OpFacts
  DEF GoDown, Elsewhere, qtThread, window, control, update, rosThread,
      simulation, history, QtOK, QtWork, RosWork, WorkInv, Live, ToBehavior,
      Source, Phases, Done, Op, Reads
<1>24. ASSUME BehaviorGoesDown PROVE QtOK'
  BY <1>24, OpFacts
  DEF BehaviorGoesDown, Elsewhere, qtThread, window, control, update,
      rosThread, simulation, history, QtOK, QtWork, RosWork, WorkInv, Live,
      ToBehavior, Source, Phases, Done, Op, Reads
<1>25. CASE UNCHANGED vars
  BY <1>25, OpFacts
  DEF vars, qtThread, window, control, update, rosThread, simulation, history,
      QtOK, QtWork, RosWork, WorkInv, Live, ToBehavior, Source, Phases, Done,
      Op, Reads
<1> QED
  BY <1>1, <1>2, <1>3, <1>4, <1>5, <1>6, <1>7, <1>8, <1>9, <1>10, <1>11,
     <1>12, <1>13, <1>14, <1>15, <1>16, <1>17, <1>18, <1>19, <1>20, <1>21,
     <1>22, <1>23, <1>24, <1>25
  DEF Next, Operator, QtThread, RosThread, Servers, Environment, Callback

-----------------------------------------------------------------------------
\* The types of the updates.
LEMMA UpdateStep == QtOK /\ WorkInv /\ UpdateOK /\ [Next]_vars => UpdateOK'
<1> SUFFICES ASSUME QtOK /\ WorkInv /\ UpdateOK, [Next]_vars PROVE UpdateOK'
  OBVIOUS
<1>1. ASSUME NEW c \in Commands, ThrowFood(c) PROVE UpdateOK'
  <2>1. CASE Give(c)
    BY <1>1, <2>1, OpFacts DEF ThrowFood, Input, Unused, Give, Submit, QtDoes,
       qtThread, window, control, update, rosThread, simulation, history,
       UpdateOK, QtOK, WorkInv, Live, Source, Phases, Done, Op, Reads
  <2>2. CASE Refuse(c)
    BY <1>1, <2>2, OpFacts DEF ThrowFood, Input, Unused, Refuse, qtThread,
       window, control, update, rosThread, simulation, history, UpdateOK, QtOK,
       WorkInv, Live, Source, Phases, Done, Op, Reads
  <2> QED
    BY <1>1, <2>1, <2>2 DEF ThrowFood
<1>2. ASSUME NEW c \in Commands, RequestFood(c) PROVE UpdateOK'
  BY <1>2, OpFacts
  DEF RequestFood, Input, Unused, Give, Submit, QtDoes, qtThread, window,
      control, update, rosThread, simulation, history, UpdateOK, QtOK,
      WorkInv, Live, Source, Phases, Done, Op, Reads
<1>3. ASSUME NEW c \in Commands, NEW d \in Steps, Move(c, d) PROVE UpdateOK'
  BY <1>3, OpFacts
  DEF Move, Input, Unused, Give, Submit, QtDoes, qtThread, window, control,
      update, rosThread, simulation, history, UpdateOK, QtOK, WorkInv, Live,
      Source, Phases, Done, Op, Reads
<1>4. ASSUME Quit PROVE UpdateOK'
  BY <1>4, OpFacts
  DEF Quit, Leaving, Submit, QtDoes, qtThread, window, control, update,
      rosThread, simulation, history, UpdateOK, QtOK, WorkInv, Live, Source,
      Phases, Done, Op, Reads
<1>5. ASSUME Register PROVE UpdateOK'
  BY <1>5, OpFacts
  DEF Register, Told, Loop, QtDoes, qtThread, window, control, update,
      rosThread, simulation, history, UpdateOK, QtOK, WorkInv, Live, Source,
      Phases, Done, Op, Reads
<1>6. ASSUME RequestSceneUpdate PROVE UpdateOK'
  <2>1. PICK u \in Updates :
           /\ phase[<< "robot", u >>] = "idle"
           /\ request_in_flight' = TRUE
           /\ tasks' = tasks \o << << "robot", u >>, << "amcl", u >>, << "odom", u >> >>
           /\ phase' = [op \in Op |-> IF op \in Source \X {u} THEN "queued" ELSE
              phase[op]]
           /\ qt' = "watch" /\ qtOn' = << "robot", u >>
    BY <1>6, FreeUpdate
  <2> QED
    BY <1>6, <2>1, OpFacts DEF RequestSceneUpdate, Input, Submit, qtThread,
       window, control, update, rosThread, simulation, history, UpdateOK, QtOK,
       WorkInv, Live, Source, Phases, Done, Op, Reads
<1>7. ASSUME Watch PROVE UpdateOK'
  BY <1>7, OpFacts
  DEF Watch, QtDoes, qtThread, window, control, update, rosThread, simulation,
      history, UpdateOK, QtOK, WorkInv, Live, Source, Phases, Done, Op, Reads
<1>8. ASSUME Compose PROVE UpdateOK'
  BY <1>8, OpFacts
  DEF Compose, QtDoes, qtThread, window, control, update, rosThread,
      simulation, history, UpdateOK, QtOK, WorkInv, Live, Source, Phases,
      Done, Op, Reads
<1>9. ASSUME Refresh PROVE UpdateOK'
  <2>1. CASE qtOn[2] \in composed
    <3> DEFINE u == qtOn[2]
    <3>1. u = qtOn[2] /\ u \in Updates
      BY <1>9 DEF Refresh, WorkInv, Live
    <3>2. PostUpdate(u) /\ Release(u)
      BY <1>9, <2>1 DEF Refresh
    <3> HIDE DEF u
    <3> QED
      BY <1>9, <2>1, <3>1, <3>2, OpFacts DEF Refresh, PostUpdate, Release, Loop,
         QtDoes, qtThread, window, control, update, rosThread, simulation,
         history, UpdateOK, QtOK, WorkInv, Live, Source, Phases, Done, Op, Reads
  <2>2. CASE qtOn[2] \notin composed
    BY <1>9, <2>2, OpFacts DEF Refresh, Loop, QtDoes, qtThread, window, control,
       update, rosThread, simulation, history, UpdateOK, QtOK, WorkInv, Live,
       Source, Phases, Done, Op, Reads
  <2> QED
    BY <2>1, <2>2
<1>10. ASSUME HandleEvent PROVE UpdateOK'
  BY <1>10, OpFacts
  DEF HandleEvent, qtThread, window, control, update, rosThread, simulation,
      history, UpdateOK, QtOK, WorkInv, Live, Source, Phases, Done, Op, Reads
<1>11. ASSUME Shutdown PROVE UpdateOK'
  BY <1>11, OpFacts
  DEF Shutdown, Leaving, QtDoes, qtThread, window, control, update, rosThread,
      simulation, history, UpdateOK, QtOK, WorkInv, Live, Source, Phases,
      Done, Op, Reads
<1>12. ASSUME Join PROVE UpdateOK'
  BY <1>12, OpFacts
  DEF Join, Leaving, QtDoes, qtThread, window, control, update, rosThread,
      simulation, history, UpdateOK, QtOK, WorkInv, Live, Source, Phases,
      Done, Op, Reads
<1>13. ASSUME RunTask PROVE UpdateOK'
  <2>1. CASE clients' = "open" /\ UNCHANGED << phase, pending, rosThread >>
    BY <1>13, <2>1, OpFacts DEF RunTask, qtThread, window, control, update,
       rosThread, simulation, history, UpdateOK, QtOK, WorkInv, Live, Source,
       Phases, Done, Op, Reads
  <2>2. CASE CloseOnRosThread
    BY <1>13, <2>2, OpFacts DEF RunTask, CloseOnRosThread, qtThread, window,
       control, update, rosThread, simulation, history, UpdateOK, QtOK, WorkInv,
       Live, Source, Phases, Done, Op, Reads
  <2>3. CASE /\ Head(tasks) \in Op
             /\ phase' = [phase EXCEPT ![Head(tasks)] = "called"]
             /\ UNCHANGED << rosThread, pending, clients >>
    BY <1>13, <2>3, OpFacts DEF RunTask, qtThread, window, control, update,
       rosThread, simulation, history, UpdateOK, QtOK, WorkInv, Live, Source,
       Phases, Done, Op, Reads
  <2>4. ASSUME Head(tasks) \in Op, UNCHANGED clients,
               NEW outcome \in Done, Complete(Head(tasks), outcome)
        PROVE  UpdateOK'
    <3> DEFINE op == Head(tasks)
    <3>1. /\ op \in Op /\ UNCHANGED clients /\ tasks # << >> /\ tasks' = Tail(tasks)
          /\ phase' = [phase EXCEPT ![op] = outcome] /\ outcome \in Done
      BY <1>13, <2>4, Completion DEF RunTask
    <3>3. \/ /\ op \in Commands /\ pending' = pending
             /\ \/ ListenerWaits(op) /\ ros' = "report" /\ rosOn' = op
                \/ ~ListenerWaits(op) /\ ros' = "idle" /\ rosOn' = Nothing
          \/ \E s \in Source, u \in Updates :
               /\ op = << s, u >> /\ op \notin Commands
               /\ pending' = [pending EXCEPT ![u] =
                                IF Watched(u) THEN pending[u] \ {s} ELSE pending[u]]
               /\ \/ /\ pending'[u] = {} /\ ComposerWaits(u)
                     /\ ros' = "compose" /\ rosOn' = << "robot", u >>
                  \/ /\ pending'[u] # {} \/ ~ComposerWaits(u)
                     /\ ros' = "idle" /\ rosOn' = Nothing
      BY <2>4, Completion
    <3>4. CASE /\ op \in Commands /\ pending' = pending
               /\ \/ ListenerWaits(op) /\ ros' = "report" /\ rosOn' = op
                  \/ ~ListenerWaits(op) /\ ros' = "idle" /\ rosOn' = Nothing
      BY <1>13, <3>1, <3>3, <3>4, OpFacts DEF RunTask, qtThread, window, control,
         update, rosThread, simulation, history, UpdateOK, QtOK, WorkInv, Live,
         Source, Phases, Done, Op, Reads
    <3>5. ASSUME NEW s \in Source, NEW u \in Updates, op = << s, u >>, op \notin
       Commands,
                 pending' = [pending EXCEPT ![u] =
                               IF Watched(u) THEN pending[u] \ {s} ELSE pending[u]],
                 \/ /\ pending'[u] = {} /\ ComposerWaits(u)
                    /\ ros' = "compose" /\ rosOn' = << "robot", u >>
                 \/ /\ pending'[u] # {} \/ ~ComposerWaits(u)
                    /\ ros' = "idle" /\ rosOn' = Nothing
          PROVE  UpdateOK'
      BY <1>13, <3>1, <3>5, OpFacts DEF RunTask, qtThread, window, control,
         update, rosThread, simulation, history, UpdateOK, QtOK, WorkInv, Live,
         Source, Phases, Done, Op, Reads
    <3> QED
      BY <3>1, <3>3, <3>4, <3>5
  <2> QED
    BY <1>13, <2>1, <2>2, <2>3, <2>4, TaskCases
<1>14. ASSUME NEW op \in Op, TakeResponse(op) PROVE UpdateOK'
  <2>1. PICK outcome \in Done : Complete(op, outcome)
    BY <1>14 DEF TakeResponse, Done
  <2>2. phase' = [phase EXCEPT ![op] = outcome] /\ outcome \in Done
    BY <2>1, Completion
  <2>4. \/ /\ op \in Commands /\ pending' = pending
           /\ \/ ListenerWaits(op) /\ ros' = "report" /\ rosOn' = op
              \/ ~ListenerWaits(op) /\ ros' = "idle" /\ rosOn' = Nothing
        \/ \E s \in Source, u \in Updates :
             /\ op = << s, u >> /\ op \notin Commands
             /\ pending' = [pending EXCEPT ![u] =
                              IF Watched(u) THEN pending[u] \ {s} ELSE pending[u]]
             /\ \/ /\ pending'[u] = {} /\ ComposerWaits(u)
                   /\ ros' = "compose" /\ rosOn' = << "robot", u >>
                \/ /\ pending'[u] # {} \/ ~ComposerWaits(u)
                   /\ ros' = "idle" /\ rosOn' = Nothing
    BY <2>1, Completion
  <2>5. CASE /\ op \in Commands /\ pending' = pending
             /\ \/ ListenerWaits(op) /\ ros' = "report" /\ rosOn' = op
                \/ ~ListenerWaits(op) /\ ros' = "idle" /\ rosOn' = Nothing
    BY <1>14, <2>2, <2>4, <2>5, OpFacts DEF TakeResponse, qtThread, window,
       control, update, rosThread, simulation, history, UpdateOK, QtOK, WorkInv,
       Live, Source, Phases, Done, Op, Reads
  <2>6. ASSUME NEW s \in Source, NEW u \in Updates, op = << s, u >>, op \notin Commands,
               pending' = [pending EXCEPT ![u] =
                             IF Watched(u) THEN pending[u] \ {s} ELSE pending[u]],
               \/ /\ pending'[u] = {} /\ ComposerWaits(u)
                  /\ ros' = "compose" /\ rosOn' = << "robot", u >>
               \/ /\ pending'[u] # {} \/ ~ComposerWaits(u)
                  /\ ros' = "idle" /\ rosOn' = Nothing
        PROVE  UpdateOK'
    BY <1>14, <2>2, <2>6, OpFacts DEF TakeResponse, qtThread, window, control,
       update, rosThread, simulation, history, UpdateOK, QtOK, WorkInv, Live,
       Source, Phases, Done, Op, Reads
  <2> QED
    BY <2>2, <2>4, <2>5, <2>6
<1>15. ASSUME Callback, FinishState PROVE UpdateOK'
  BY <1>15, OpFacts
  DEF FinishState, Callback, Idle, RosDoes, qtThread, window, control, update,
      rosThread, simulation, history, UpdateOK, QtOK, WorkInv, Live, Source,
      Phases, Done, Op, Reads
<1>16. ASSUME Callback, FinishSceneUpdate PROVE UpdateOK'
  <2> DEFINE u == rosOn[2]
  <2>1. u = rosOn[2] /\ u \in Updates
    BY <1>16 DEF FinishSceneUpdate, WorkInv, Live
  <2>2. CASE ros = "show" /\ running
    BY <1>16, <2>2, OpFacts DEF Callback, FinishSceneUpdate, RosDoes, qtThread,
       window, control, update, rosThread, simulation, history, UpdateOK, QtOK,
       WorkInv, Live, Source, Phases, Done, Op, Reads
  <2>3. CASE ros = "show" /\ ~running
    <3>1. Release(u) /\ Idle /\ UNCHANGED events
      BY <1>16, <2>3 DEF FinishSceneUpdate
    <3> HIDE DEF u
    <3> QED
      BY <1>16, <2>1, <2>3, <3>1, OpFacts DEF Callback, FinishSceneUpdate,
         Release, Idle, RosDoes, qtThread, window, control, update, rosThread,
         simulation, history, UpdateOK, QtOK, WorkInv, Live, Source, Phases,
         Done, Op, Reads
  <2>4. CASE ros = "post"
    <3>1. PostUpdate(u) /\ Release(u) /\ Idle
      BY <1>16, <2>4 DEF FinishSceneUpdate
    <3> HIDE DEF u
    <3> QED
      BY <1>16, <2>1, <2>4, <3>1, OpFacts DEF Callback, FinishSceneUpdate,
         PostUpdate, Release, Idle, RosDoes, qtThread, window, control, update,
         rosThread, simulation, history, UpdateOK, QtOK, WorkInv, Live, Source,
         Phases, Done, Op, Reads
  <2> QED
    BY <1>16, <2>2, <2>3, <2>4 DEF FinishSceneUpdate
<1>17. ASSUME Callback, FinishCommand PROVE UpdateOK'
  BY <1>17, OpFacts
  DEF FinishCommand, Callback, Told, Idle, RosDoes, qtThread, window, control,
      update, rosThread, simulation, history, UpdateOK, QtOK, WorkInv, Live,
      Source, Phases, Done, Op, Reads
<1>18. ASSUME Spin PROVE UpdateOK'
  BY <1>18, OpFacts
  DEF Spin, Unshared, RosDoes, qtThread, window, control, update, rosThread,
      simulation, history, UpdateOK, QtOK, WorkInv, Live, Source, Phases,
      Done, Op, Reads
<1>19. ASSUME ApplyStoredPose PROVE UpdateOK'
  BY <1>19, OpFacts
  DEF ApplyStoredPose, Elsewhere, qtThread, window, control, update,
      rosThread, simulation, history, UpdateOK, QtOK, WorkInv, Live, Source,
      Phases, Done, Op, Reads
<1>20. ASSUME NEW op \in Op, Serve(op) PROVE UpdateOK'
  BY <1>20, OpFacts
  DEF Serve, Elsewhere, qtThread, window, control, update, rosThread,
      simulation, history, UpdateOK, QtOK, WorkInv, Live, Source, Phases,
      Done, Op, Reads
<1>21. ASSUME ExecutorFails PROVE UpdateOK'
  BY <1>21, OpFacts
  DEF ExecutorFails, Unshared, RosDoes, qtThread, window, control, update,
      rosThread, simulation, history, UpdateOK, QtOK, WorkInv, Live, Source,
      Phases, Done, Op, Reads
<1>22. ASSUME Start PROVE UpdateOK'
  BY <1>22, OpFacts
  DEF Start, Elsewhere, qtThread, window, control, update, rosThread,
      simulation, history, UpdateOK, QtOK, WorkInv, Live, Source, Phases,
      Done, Op, Reads
<1>23. ASSUME GoDown PROVE UpdateOK'
  BY <1>23, OpFacts
  DEF GoDown, Elsewhere, qtThread, window, control, update, rosThread,
      simulation, history, UpdateOK, QtOK, WorkInv, Live, Source, Phases,
      Done, Op, Reads
<1>24. ASSUME BehaviorGoesDown PROVE UpdateOK'
  BY <1>24, OpFacts
  DEF BehaviorGoesDown, Elsewhere, qtThread, window, control, update,
      rosThread, simulation, history, UpdateOK, QtOK, WorkInv, Live, Source,
      Phases, Done, Op, Reads
<1>25. CASE UNCHANGED vars
  BY <1>25, OpFacts
  DEF vars, qtThread, window, control, update, rosThread, simulation, history,
      UpdateOK, QtOK, WorkInv, Live, Source, Phases, Done, Op, Reads
<1> QED
  BY <1>1, <1>2, <1>3, <1>4, <1>5, <1>6, <1>7, <1>8, <1>9, <1>10, <1>11,
     <1>12, <1>13, <1>14, <1>15, <1>16, <1>17, <1>18, <1>19, <1>20, <1>21,
     <1>22, <1>23, <1>24, <1>25
  DEF Next, Operator, QtThread, RosThread, Servers, Environment, Callback

-----------------------------------------------------------------------------
\* The positions and the numbers.
LEMMA NumbersStep == QtOK /\ WorkInv /\ NumbersOK /\ [Next]_vars => NumbersOK'
<1> SUFFICES ASSUME QtOK /\ WorkInv /\ NumbersOK, [Next]_vars PROVE NumbersOK'
  OBVIOUS
<1>1. ASSUME NEW c \in Commands, ThrowFood(c) PROVE NumbersOK'
  BY <1>1, OpFacts, StepsAssumption, BoundsAssumption
  DEF ThrowFood, Input, Unused, Give, Refuse, Submit, QtDoes, qtThread,
      window, control, update, rosThread, simulation, history, NumbersOK,
      AtMostOne, QtOK, WorkInv, Live, ToBehavior, Source, Phases, Done, Op,
      Reads
<1>2. ASSUME NEW c \in Commands, RequestFood(c) PROVE NumbersOK'
  BY <1>2, OpFacts, StepsAssumption, BoundsAssumption
  DEF RequestFood, Input, Unused, Give, Submit, QtDoes, qtThread, window,
      control, update, rosThread, simulation, history, NumbersOK, AtMostOne,
      QtOK, WorkInv, Live, ToBehavior, Source, Phases, Done, Op, Reads
<1>3. ASSUME NEW c \in Commands, NEW d \in Steps, Move(c, d) PROVE NumbersOK'
  BY <1>3, OpFacts, StepsAssumption, BoundsAssumption
  DEF Move, Input, Unused, Give, Submit, QtDoes, qtThread, window, control,
      update, rosThread, simulation, history, NumbersOK, AtMostOne, QtOK,
      WorkInv, Live, ToBehavior, Source, Phases, Done, Op, Reads
<1>4. ASSUME Quit PROVE NumbersOK'
  BY <1>4, OpFacts, StepsAssumption, BoundsAssumption
  DEF Quit, Leaving, Submit, QtDoes, qtThread, window, control, update,
      rosThread, simulation, history, NumbersOK, AtMostOne, QtOK, WorkInv,
      Live, ToBehavior, Source, Phases, Done, Op, Reads
<1>5. ASSUME Register PROVE NumbersOK'
  BY <1>5, OpFacts, StepsAssumption, BoundsAssumption
  DEF Register, Told, Loop, QtDoes, qtThread, window, control, update,
      rosThread, simulation, history, NumbersOK, AtMostOne, QtOK, WorkInv,
      Live, ToBehavior, Source, Phases, Done, Op, Reads
<1>6. ASSUME RequestSceneUpdate PROVE NumbersOK'
  BY <1>6, OpFacts, StepsAssumption, BoundsAssumption
  DEF RequestSceneUpdate, Input, Submit, QtDoes, qtThread, window, control,
      update, rosThread, simulation, history, NumbersOK, AtMostOne, QtOK,
      WorkInv, Live, ToBehavior, Source, Phases, Done, Op, Reads
<1>7. ASSUME Watch PROVE NumbersOK'
  BY <1>7, OpFacts, StepsAssumption, BoundsAssumption
  DEF Watch, QtDoes, qtThread, window, control, update, rosThread, simulation,
      history, NumbersOK, AtMostOne, QtOK, WorkInv, Live, ToBehavior, Source,
      Phases, Done, Op, Reads
<1>8. ASSUME Compose PROVE NumbersOK'
  BY <1>8, OpFacts, StepsAssumption, BoundsAssumption
  DEF Compose, QtDoes, qtThread, window, control, update, rosThread,
      simulation, history, NumbersOK, AtMostOne, QtOK, WorkInv, Live,
      ToBehavior, Source, Phases, Done, Op, Reads
<1>9. ASSUME Refresh PROVE NumbersOK'
  <2>1. CASE qtOn[2] \in composed
    <3> DEFINE u == qtOn[2]
    <3>1. u = qtOn[2] /\ u \in Updates
      BY <1>9 DEF Refresh, WorkInv, Live
    <3>2. PostUpdate(u) /\ Release(u)
      BY <1>9, <2>1 DEF Refresh
    <3> HIDE DEF u
    <3> QED
      BY <1>9, <2>1, <3>1, <3>2, OpFacts DEF Refresh, PostUpdate, Release, Loop,
         QtDoes, qtThread, window, control, update, rosThread, simulation,
         history, NumbersOK, AtMostOne, QtOK, WorkInv, Live, ToBehavior, Source,
         Phases, Done, Op, Reads
  <2>2. CASE qtOn[2] \notin composed
    BY <1>9, <2>2, OpFacts DEF Refresh, Loop, QtDoes, qtThread, window, control,
       update, rosThread, simulation, history, NumbersOK, AtMostOne, QtOK,
       WorkInv, Live, ToBehavior, Source, Phases, Done, Op, Reads
  <2> QED
    BY <2>1, <2>2
<1>10. ASSUME HandleEvent PROVE NumbersOK'
  BY <1>10, OpFacts, StepsAssumption, BoundsAssumption
  DEF HandleEvent, qtThread, window, control, update, rosThread, simulation,
      history, NumbersOK, AtMostOne, QtOK, WorkInv, Live, ToBehavior, Source,
      Phases, Done, Op, Reads
<1>11. ASSUME Shutdown PROVE NumbersOK'
  BY <1>11, OpFacts, StepsAssumption, BoundsAssumption
  DEF Shutdown, Leaving, QtDoes, qtThread, window, control, update, rosThread,
      simulation, history, NumbersOK, AtMostOne, QtOK, WorkInv, Live,
      ToBehavior, Source, Phases, Done, Op, Reads
<1>12. ASSUME Join PROVE NumbersOK'
  BY <1>12, OpFacts, StepsAssumption, BoundsAssumption
  DEF Join, Leaving, QtDoes, qtThread, window, control, update, rosThread,
      simulation, history, NumbersOK, AtMostOne, QtOK, WorkInv, Live,
      ToBehavior, Source, Phases, Done, Op, Reads
<1>13. ASSUME RunTask PROVE NumbersOK'
  BY <1>13, OpFacts, StepsAssumption, BoundsAssumption
  DEF RunTask, Request, Estimate, CloseOnRosThread, Complete, Idle, RosDoes,
      qtThread, window, control, update, rosThread, simulation, history,
      NumbersOK, AtMostOne, QtOK, WorkInv, Live, ToBehavior, Source, Phases,
      Done, Op, Reads
<1>14. ASSUME NEW op \in Op, TakeResponse(op) PROVE NumbersOK'
  BY <1>14, OpFacts, StepsAssumption, BoundsAssumption
  DEF TakeResponse, Complete, Idle, RosDoes, qtThread, window, control,
      update, rosThread, simulation, history, NumbersOK, AtMostOne, QtOK,
      WorkInv, Live, ToBehavior, Source, Phases, Done, Op, Reads
<1>15. ASSUME Callback, FinishState PROVE NumbersOK'
  BY <1>15, OpFacts, StepsAssumption, BoundsAssumption
  DEF FinishState, Callback, Idle, RosDoes, qtThread, window, control, update,
      rosThread, simulation, history, NumbersOK, AtMostOne, QtOK, WorkInv,
      Live, ToBehavior, Source, Phases, Done, Op, Reads
<1>16. ASSUME Callback, FinishSceneUpdate PROVE NumbersOK'
  <2> DEFINE u == rosOn[2]
  <2>1. u = rosOn[2] /\ u \in Updates
    BY <1>16 DEF FinishSceneUpdate, WorkInv, Live
  <2>2. CASE ros = "show" /\ running
    BY <1>16, <2>2, OpFacts DEF Callback, FinishSceneUpdate, RosDoes, qtThread,
       window, control, update, rosThread, simulation, history, NumbersOK,
       AtMostOne, QtOK, WorkInv, Live, ToBehavior, Source, Phases, Done, Op,
       Reads
  <2>3. CASE ros = "show" /\ ~running
    <3>1. Release(u) /\ Idle /\ UNCHANGED events
      BY <1>16, <2>3 DEF FinishSceneUpdate
    <3> HIDE DEF u
    <3> QED
      BY <1>16, <2>1, <2>3, <3>1, OpFacts DEF Callback, FinishSceneUpdate,
         Release, Idle, RosDoes, qtThread, window, control, update, rosThread,
         simulation, history, NumbersOK, AtMostOne, QtOK, WorkInv, Live,
         ToBehavior, Source, Phases, Done, Op, Reads
  <2>4. CASE ros = "post"
    <3>1. PostUpdate(u) /\ Release(u) /\ Idle
      BY <1>16, <2>4 DEF FinishSceneUpdate
    <3> HIDE DEF u
    <3> QED
      BY <1>16, <2>1, <2>4, <3>1, OpFacts DEF Callback, FinishSceneUpdate,
         PostUpdate, Release, Idle, RosDoes, qtThread, window, control, update,
         rosThread, simulation, history, NumbersOK, AtMostOne, QtOK, WorkInv,
         Live, ToBehavior, Source, Phases, Done, Op, Reads
  <2> QED
    BY <1>16, <2>2, <2>3, <2>4 DEF FinishSceneUpdate
<1>17. ASSUME Callback, FinishCommand PROVE NumbersOK'
  BY <1>17, OpFacts, StepsAssumption, BoundsAssumption
  DEF FinishCommand, Callback, Told, Idle, RosDoes, qtThread, window, control,
      update, rosThread, simulation, history, NumbersOK, AtMostOne, QtOK,
      WorkInv, Live, ToBehavior, Source, Phases, Done, Op, Reads
<1>18. ASSUME Spin PROVE NumbersOK'
  BY <1>18, OpFacts, StepsAssumption, BoundsAssumption
  DEF Spin, Unshared, RosDoes, qtThread, window, control, update, rosThread,
      simulation, history, NumbersOK, AtMostOne, QtOK, WorkInv, Live,
      ToBehavior, Source, Phases, Done, Op, Reads
<1>19. ASSUME ApplyStoredPose PROVE NumbersOK'
  BY <1>19, OpFacts, StepsAssumption, BoundsAssumption
  DEF ApplyStoredPose, Elsewhere, qtThread, window, control, update,
      rosThread, simulation, history, NumbersOK, AtMostOne, QtOK, WorkInv,
      Live, ToBehavior, Source, Phases, Done, Op, Reads
<1>20. ASSUME NEW op \in Op, Serve(op) PROVE NumbersOK'
  BY <1>20, OpFacts, StepsAssumption, BoundsAssumption
  DEF Serve, Elsewhere, qtThread, window, control, update, rosThread,
      simulation, history, NumbersOK, AtMostOne, QtOK, WorkInv, Live,
      ToBehavior, Source, Phases, Done, Op, Reads
<1>21. ASSUME ExecutorFails PROVE NumbersOK'
  BY <1>21, OpFacts, StepsAssumption, BoundsAssumption
  DEF ExecutorFails, Unshared, RosDoes, qtThread, window, control, update,
      rosThread, simulation, history, NumbersOK, AtMostOne, QtOK, WorkInv,
      Live, ToBehavior, Source, Phases, Done, Op, Reads
<1>22. ASSUME Start PROVE NumbersOK'
  BY <1>22, OpFacts, StepsAssumption, BoundsAssumption
  DEF Start, Elsewhere, qtThread, window, control, update, rosThread,
      simulation, history, NumbersOK, AtMostOne, QtOK, WorkInv, Live,
      ToBehavior, Source, Phases, Done, Op, Reads
<1>23. ASSUME GoDown PROVE NumbersOK'
  BY <1>23, OpFacts, StepsAssumption, BoundsAssumption
  DEF GoDown, Elsewhere, qtThread, window, control, update, rosThread,
      simulation, history, NumbersOK, AtMostOne, QtOK, WorkInv, Live,
      ToBehavior, Source, Phases, Done, Op, Reads
<1>24. ASSUME BehaviorGoesDown PROVE NumbersOK'
  BY <1>24, OpFacts, StepsAssumption, BoundsAssumption
  DEF BehaviorGoesDown, Elsewhere, qtThread, window, control, update,
      rosThread, simulation, history, NumbersOK, AtMostOne, QtOK, WorkInv,
      Live, ToBehavior, Source, Phases, Done, Op, Reads
<1>25. CASE UNCHANGED vars
  BY <1>25, OpFacts, StepsAssumption, BoundsAssumption
  DEF vars, qtThread, window, control, update, rosThread, simulation, history,
      NumbersOK, AtMostOne, QtOK, WorkInv, Live, ToBehavior, Source, Phases,
      Done, Op, Reads
<1> QED
  BY <1>1, <1>2, <1>3, <1>4, <1>5, <1>6, <1>7, <1>8, <1>9, <1>10, <1>11,
     <1>12, <1>13, <1>14, <1>15, <1>16, <1>17, <1>18, <1>19, <1>20, <1>21,
     <1>22, <1>23, <1>24, <1>25
  DEF Next, Operator, QtThread, RosThread, Servers, Environment, Callback

-----------------------------------------------------------------------------
(* The chain of an update                                                  *)

\* The completion of a read leaves its update under way.
LEMMA LiveStays ==
  ASSUME QtOK, LiveInv, NEW op \in Op, phase[op] # "idle",
         NEW outcome \in Done, phase' = [phase EXCEPT ![op] = outcome]
  PROVE  /\ Live' = Live
         /\ \A u \in Updates : \A s \in Source : op = << s, u >> => u \in Live
<1> outcome # "idle"
  BY DEF Done
<1>1. \A u \in Updates : phase'[<< "robot", u >>] = "idle" <=> phase[<< "robot", u >>] = "idle"
  <2> TAKE u \in Updates
  <2> << "robot", u >> \in Op
    BY OpFacts DEF Source
  <2> QED
    BY DEF QtOK
<1> QED
  BY <1>1 DEF Live, LiveInv

\* When the refresher subscribes to a scene that is there, no callback is at work
\* on it, and its reads are done.
LEMMA RefreshAlone ==
  ASSUME WorkInv, LiveInv, ChainInv, qt = "refresh", qtOn[2] \in composed
  PROVE  /\ qtOn[2] \in Live /\ pending[qtOn[2]] = {}
         /\ \A s \in Source : phase[<< s, qtOn[2] >>] \in Done
         /\ ros \notin {"compose", "show", "post"}
BY DEF WorkInv, LiveInv, ChainInv, Chain, InChain, Live, Watched, RefresherWaits

\* When a callback finishes an update, the Qt thread has done all its subscribing.
LEMMA FinishAlone ==
  ASSUME WorkInv, LiveInv, ChainInv, ros \in {"show", "post"}
  PROVE  /\ rosOn[2] \in Live /\ pending[rosOn[2]] = {}
         /\ \A s \in Source : phase[<< s, rosOn[2] >>] \in Done
         /\ qt \notin {"watch", "compose", "refresh"}
BY DEF WorkInv, LiveInv, ChainInv, Chain, InChain, Live, Watched, ComposerWaits, RefresherWaits

-----------------------------------------------------------------------------
\* What the threads work on is there.
LEMMA WorkStep == QtOK /\ UpdateOK /\ WorkInv /\ TaskInv /\ LiveInv /\ ChainInv /\ [Next]_vars => WorkInv'
<1> SUFFICES ASSUME QtOK /\ UpdateOK /\ WorkInv /\ TaskInv /\ LiveInv /\ ChainInv, [Next]_vars PROVE WorkInv'
  OBVIOUS
<1>1. ASSUME NEW c \in Commands, ThrowFood(c) PROVE WorkInv'
  <2>1. CASE Give(c)
    BY <1>1, <2>1, OpFacts DEF ThrowFood, Input, Unused, Give, Submit, QtDoes,
       qtThread, window, control, update, rosThread, simulation, history,
       WorkInv, Live, QtOK, Source, Reads, Op, LiveInv, Done
  <2>2. CASE Refuse(c)
    BY <1>1, <2>2, OpFacts DEF ThrowFood, Input, Unused, Refuse, qtThread,
       window, control, update, rosThread, simulation, history, WorkInv, Live,
       QtOK, Source, Reads, Op, LiveInv, Done
  <2> QED
    BY <1>1, <2>1, <2>2 DEF ThrowFood
<1>2. ASSUME NEW c \in Commands, RequestFood(c) PROVE WorkInv'
  BY <1>2, OpFacts
  DEF RequestFood, Input, Unused, Give, Submit, QtDoes, qtThread, window,
      control, update, rosThread, simulation, history, WorkInv, Live, QtOK,
      Source, Reads, Op
<1>3. ASSUME NEW c \in Commands, NEW d \in Steps, Move(c, d) PROVE WorkInv'
  BY <1>3, OpFacts
  DEF Move, Input, Unused, Give, Submit, QtDoes, qtThread, window, control,
      update, rosThread, simulation, history, WorkInv, Live, QtOK, Source,
      Reads, Op
<1>4. ASSUME Quit PROVE WorkInv'
  BY <1>4, OpFacts
  DEF Quit, Leaving, Submit, QtDoes, qtThread, window, control, update,
      rosThread, simulation, history, WorkInv, Live, QtOK, Source, Reads, Op
<1>5. ASSUME Register PROVE WorkInv'
  BY <1>5, OpFacts
  DEF Register, Told, Loop, QtDoes, qtThread, window, control, update,
      rosThread, simulation, history, WorkInv, Live, QtOK, Source, Reads, Op
<1>6. ASSUME RequestSceneUpdate PROVE WorkInv'
  <2>1. PICK u \in Updates :
           /\ phase[<< "robot", u >>] = "idle"
           /\ request_in_flight' = TRUE
           /\ tasks' = tasks \o << << "robot", u >>, << "amcl", u >>, << "odom", u >> >>
           /\ phase' = [op \in Op |-> IF op \in Source \X {u} THEN "queued" ELSE
              phase[op]]
           /\ qt' = "watch" /\ qtOn' = << "robot", u >>
    BY <1>6, FreeUpdate
  <2>2. qt = "loop" /\ UNCHANGED << running, ros, rosOn >>
    BY <1>6 DEF RequestSceneUpdate, Input, control, rosThread
  <2>3. u \in Live' /\ Live \subseteq Live'
    <3> \A v \in Updates : << "robot", v >> \in Op
      BY OpFacts DEF Source
    <3> QED
      BY <2>1 DEF Live, Source, Done
  <2> QED
    BY <2>1, <2>2, <2>3 DEF WorkInv
<1>7. ASSUME Watch PROVE WorkInv'
  BY <1>7, OpFacts
  DEF Watch, QtDoes, qtThread, window, control, update, rosThread, simulation,
      history, WorkInv, Live, QtOK, Source, Reads, Op
<1>8. ASSUME Compose PROVE WorkInv'
  BY <1>8, OpFacts
  DEF Compose, QtDoes, qtThread, window, control, update, rosThread,
      simulation, history, WorkInv, Live, QtOK, Source, Reads, Op
<1>9. ASSUME Refresh PROVE WorkInv'
  <2>1. CASE qtOn[2] \in composed
    <3> DEFINE u == qtOn[2]
    <3>1. u = qtOn[2] /\ u \in Updates
      BY <1>9 DEF Refresh, WorkInv, Live
    <3>2. PostUpdate(u) /\ Release(u)
      BY <1>9, <2>1 DEF Refresh
    <3> HIDE DEF u
    <3> QED
      BY <1>9, <2>1, <3>1, <3>2, OpFacts, RefreshAlone DEF Refresh, PostUpdate,
         Release, Loop, QtDoes, qtThread, window, control, update, rosThread,
         simulation, history, WorkInv, Live, QtOK, Source, Reads, Op
  <2>2. CASE qtOn[2] \notin composed
    BY <1>9, <2>2, OpFacts, RefreshAlone DEF Refresh, Loop, QtDoes, qtThread,
       window, control, update, rosThread, simulation, history, WorkInv, Live,
       QtOK, Source, Reads, Op
  <2> QED
    BY <2>1, <2>2
<1>10. ASSUME HandleEvent PROVE WorkInv'
  BY <1>10, OpFacts
  DEF HandleEvent, qtThread, window, control, update, rosThread, simulation,
      history, WorkInv, Live, QtOK, Source, Reads, Op
<1>11. ASSUME Shutdown PROVE WorkInv'
  BY <1>11, OpFacts
  DEF Shutdown, Leaving, QtDoes, qtThread, window, control, update, rosThread,
      simulation, history, WorkInv, Live, QtOK, Source, Reads, Op
<1>12. ASSUME Join PROVE WorkInv'
  BY <1>12, OpFacts
  DEF Join, Leaving, QtDoes, qtThread, window, control, update, rosThread,
      simulation, history, WorkInv, Live, QtOK, Source, Reads, Op
<1>13. ASSUME RunTask PROVE WorkInv'
  <2>1. CASE clients' = "open" /\ UNCHANGED << phase, pending, rosThread >>
    BY <1>13, <2>1, OpFacts, HeadQueued DEF RunTask, qtThread, window, control,
       update, rosThread, simulation, history, WorkInv, Live, QtOK, Source,
       Reads, Op, LiveInv, Done
  <2>2. CASE CloseOnRosThread
    BY <1>13, <2>2, OpFacts, HeadQueued DEF RunTask, CloseOnRosThread, qtThread,
       window, control, update, rosThread, simulation, history, WorkInv, Live,
       QtOK, Source, Reads, Op, LiveInv, Done
  <2>3. CASE /\ Head(tasks) \in Op
             /\ phase' = [phase EXCEPT ![Head(tasks)] = "called"]
             /\ UNCHANGED << rosThread, pending, clients >>
    BY <1>13, <2>3, OpFacts, HeadQueued DEF RunTask, qtThread, window, control,
       update, rosThread, simulation, history, WorkInv, Live, QtOK, Source,
       Reads, Op, LiveInv, Done
  <2>4. ASSUME Head(tasks) \in Op, UNCHANGED clients,
               NEW outcome \in Done, Complete(Head(tasks), outcome)
        PROVE  WorkInv'
    <3> DEFINE op == Head(tasks)
    <3>1. /\ op \in Op /\ UNCHANGED clients /\ tasks # << >> /\ tasks' = Tail(tasks)
          /\ phase' = [phase EXCEPT ![op] = outcome] /\ outcome \in Done
      BY <1>13, <2>4, Completion DEF RunTask
    <3>2. Live' = Live /\ \A u \in Updates : \A s \in Source : op = << s, u >>
       => u \in Live
      BY <1>13, <3>1, HeadQueued, LiveStays
    <3>3. \/ /\ op \in Commands /\ pending' = pending
             /\ \/ ListenerWaits(op) /\ ros' = "report" /\ rosOn' = op
                \/ ~ListenerWaits(op) /\ ros' = "idle" /\ rosOn' = Nothing
          \/ \E s \in Source, u \in Updates :
               /\ op = << s, u >> /\ op \notin Commands
               /\ pending' = [pending EXCEPT ![u] =
                                IF Watched(u) THEN pending[u] \ {s} ELSE pending[u]]
               /\ \/ /\ pending'[u] = {} /\ ComposerWaits(u)
                     /\ ros' = "compose" /\ rosOn' = << "robot", u >>
                  \/ /\ pending'[u] # {} \/ ~ComposerWaits(u)
                     /\ ros' = "idle" /\ rosOn' = Nothing
      BY <2>4, Completion
    <3>4. CASE /\ op \in Commands /\ pending' = pending
               /\ \/ ListenerWaits(op) /\ ros' = "report" /\ rosOn' = op
                  \/ ~ListenerWaits(op) /\ ros' = "idle" /\ rosOn' = Nothing
      BY <1>13, <3>1, <3>2, <3>3, <3>4, OpFacts, HeadQueued DEF RunTask,
         qtThread, window, control, update, rosThread, simulation, history,
         WorkInv, Live, QtOK, Source, Reads, Op, LiveInv, Done
    <3>5. ASSUME NEW s \in Source, NEW u \in Updates, op = << s, u >>, op \notin
       Commands,
                 pending' = [pending EXCEPT ![u] =
                               IF Watched(u) THEN pending[u] \ {s} ELSE pending[u]],
                 \/ /\ pending'[u] = {} /\ ComposerWaits(u)
                    /\ ros' = "compose" /\ rosOn' = << "robot", u >>
                 \/ /\ pending'[u] # {} \/ ~ComposerWaits(u)
                    /\ ros' = "idle" /\ rosOn' = Nothing
          PROVE  WorkInv'
      BY <1>13, <3>1, <3>2, <3>5, OpFacts, HeadQueued DEF RunTask, qtThread,
         window, control, update, rosThread, simulation, history, WorkInv, Live,
         QtOK, Source, Reads, Op, LiveInv, Done
    <3> QED
      BY <3>1, <3>2, <3>3, <3>4, <3>5
  <2> QED
    BY <1>13, <2>1, <2>2, <2>3, <2>4, TaskCases
<1>14. ASSUME NEW op \in Op, TakeResponse(op) PROVE WorkInv'
  <2>1. PICK outcome \in Done : Complete(op, outcome)
    BY <1>14 DEF TakeResponse, Done
  <2>2. phase' = [phase EXCEPT ![op] = outcome] /\ outcome \in Done
    BY <2>1, Completion
  <2>3. Live' = Live /\ \A u \in Updates : \A s \in Source : op = << s, u >> =>
     u \in Live
    BY <1>14, <2>2, LiveStays DEF TakeResponse
  <2>4. \/ /\ op \in Commands /\ pending' = pending
           /\ \/ ListenerWaits(op) /\ ros' = "report" /\ rosOn' = op
              \/ ~ListenerWaits(op) /\ ros' = "idle" /\ rosOn' = Nothing
        \/ \E s \in Source, u \in Updates :
             /\ op = << s, u >> /\ op \notin Commands
             /\ pending' = [pending EXCEPT ![u] =
                              IF Watched(u) THEN pending[u] \ {s} ELSE pending[u]]
             /\ \/ /\ pending'[u] = {} /\ ComposerWaits(u)
                   /\ ros' = "compose" /\ rosOn' = << "robot", u >>
                \/ /\ pending'[u] # {} \/ ~ComposerWaits(u)
                   /\ ros' = "idle" /\ rosOn' = Nothing
    BY <2>1, Completion
  <2>5. CASE /\ op \in Commands /\ pending' = pending
             /\ \/ ListenerWaits(op) /\ ros' = "report" /\ rosOn' = op
                \/ ~ListenerWaits(op) /\ ros' = "idle" /\ rosOn' = Nothing
    BY <1>14, <2>2, <2>3, <2>4, <2>5, OpFacts DEF TakeResponse, qtThread, window,
       control, update, rosThread, simulation, history, WorkInv, Live, QtOK,
       Source, Reads, Op, LiveInv, Done
  <2>6. ASSUME NEW s \in Source, NEW u \in Updates, op = << s, u >>, op \notin Commands,
               pending' = [pending EXCEPT ![u] =
                             IF Watched(u) THEN pending[u] \ {s} ELSE pending[u]],
               \/ /\ pending'[u] = {} /\ ComposerWaits(u)
                  /\ ros' = "compose" /\ rosOn' = << "robot", u >>
               \/ /\ pending'[u] # {} \/ ~ComposerWaits(u)
                  /\ ros' = "idle" /\ rosOn' = Nothing
        PROVE  WorkInv'
    BY <1>14, <2>2, <2>3, <2>6, OpFacts DEF TakeResponse, qtThread, window,
       control, update, rosThread, simulation, history, WorkInv, Live, QtOK,
       Source, Reads, Op, LiveInv, Done
  <2> QED
    BY <2>2, <2>3, <2>4, <2>5, <2>6
<1>15. ASSUME Callback, FinishState PROVE WorkInv'
  BY <1>15, OpFacts
  DEF FinishState, Callback, Idle, RosDoes, qtThread, window, control, update,
      rosThread, simulation, history, WorkInv, Live, QtOK, Source, Reads, Op
<1>16. ASSUME Callback, FinishSceneUpdate PROVE WorkInv'
  <2> DEFINE u == rosOn[2]
  <2>1. u = rosOn[2] /\ u \in Updates
    BY <1>16 DEF FinishSceneUpdate, WorkInv, Live
  <2>2. CASE ros = "show" /\ running
    BY <1>16, <2>2, OpFacts, FinishAlone DEF Callback, FinishSceneUpdate,
       RosDoes, qtThread, window, control, update, rosThread, simulation,
       history, WorkInv, Live, QtOK, Source, Reads, Op
  <2>3. CASE ros = "show" /\ ~running
    <3>1. Release(u) /\ Idle /\ UNCHANGED events
      BY <1>16, <2>3 DEF FinishSceneUpdate
    <3> HIDE DEF u
    <3> QED
      BY <1>16, <2>1, <2>3, <3>1, OpFacts, FinishAlone DEF Callback,
         FinishSceneUpdate, Release, Idle, RosDoes, qtThread, window, control,
         update, rosThread, simulation, history, WorkInv, Live, QtOK, Source,
         Reads, Op
  <2>4. CASE ros = "post"
    <3>1. PostUpdate(u) /\ Release(u) /\ Idle
      BY <1>16, <2>4 DEF FinishSceneUpdate
    <3> HIDE DEF u
    <3> QED
      BY <1>16, <2>1, <2>4, <3>1, OpFacts, FinishAlone DEF Callback,
         FinishSceneUpdate, PostUpdate, Release, Idle, RosDoes, qtThread,
         window, control, update, rosThread, simulation, history, WorkInv, Live,
         QtOK, Source, Reads, Op
  <2> QED
    BY <1>16, <2>2, <2>3, <2>4 DEF FinishSceneUpdate
<1>17. ASSUME Callback, FinishCommand PROVE WorkInv'
  BY <1>17, OpFacts
  DEF FinishCommand, Callback, Told, Idle, RosDoes, qtThread, window, control,
      update, rosThread, simulation, history, WorkInv, Live, QtOK, Source,
      Reads, Op
<1>18. ASSUME Spin PROVE WorkInv'
  BY <1>18, OpFacts
  DEF Spin, Unshared, RosDoes, qtThread, window, control, update, rosThread,
      simulation, history, WorkInv, Live, QtOK, Source, Reads, Op
<1>19. ASSUME ApplyStoredPose PROVE WorkInv'
  BY <1>19, OpFacts
  DEF ApplyStoredPose, Elsewhere, qtThread, window, control, update,
      rosThread, simulation, history, WorkInv, Live, QtOK, Source, Reads, Op
<1>20. ASSUME NEW op \in Op, Serve(op) PROVE WorkInv'
  BY <1>20, OpFacts
  DEF Serve, Elsewhere, qtThread, window, control, update, rosThread,
      simulation, history, WorkInv, Live, QtOK, Source, Reads, Op
<1>21. ASSUME ExecutorFails PROVE WorkInv'
  BY <1>21, OpFacts
  DEF ExecutorFails, Unshared, RosDoes, qtThread, window, control, update,
      rosThread, simulation, history, WorkInv, Live, QtOK, Source, Reads, Op
<1>22. ASSUME Start PROVE WorkInv'
  BY <1>22, OpFacts
  DEF Start, Elsewhere, qtThread, window, control, update, rosThread,
      simulation, history, WorkInv, Live, QtOK, Source, Reads, Op
<1>23. ASSUME GoDown PROVE WorkInv'
  BY <1>23, OpFacts
  DEF GoDown, Elsewhere, qtThread, window, control, update, rosThread,
      simulation, history, WorkInv, Live, QtOK, Source, Reads, Op
<1>24. ASSUME BehaviorGoesDown PROVE WorkInv'
  BY <1>24, OpFacts
  DEF BehaviorGoesDown, Elsewhere, qtThread, window, control, update,
      rosThread, simulation, history, WorkInv, Live, QtOK, Source, Reads, Op
<1>25. CASE UNCHANGED vars
  BY <1>25, OpFacts
  DEF vars, qtThread, window, control, update, rosThread, simulation, history,
      WorkInv, Live, QtOK, Source, Reads, Op
<1> QED
  BY <1>1, <1>2, <1>3, <1>4, <1>5, <1>6, <1>7, <1>8, <1>9, <1>10, <1>11,
     <1>12, <1>13, <1>14, <1>15, <1>16, <1>17, <1>18, <1>19, <1>20, <1>21,
     <1>22, <1>23, <1>24, <1>25
  DEF Next, Operator, QtThread, RosThread, Servers, Environment, Callback

-----------------------------------------------------------------------------
(* The queue of the executor                                               *)

\* A command that is given is new.
LEMMA UnusedIsIdle == ASSUME NEW c \in Commands, Unused(c) PROVE phase[c] = "idle"
BY CommandsAssumption DEF Unused

\* The queue stays right as long as no task begins.
LEMMA QueueKept ==
  ASSUME TaskInv, tasks' = tasks,
         \A op \in Op : phase[op] = "queued" => phase'[op] = "queued"
  PROVE  TaskInv'
BY DEF TaskInv

\* The queue stays right when its first task is taken, and no other command or
\* request that waits there changes.
LEMMA TaskTaken ==
  ASSUME QtOK, TaskInv, tasks # << >>, tasks' = Tail(tasks),
         \A op \in Op : \/ phase'[op] = phase[op]
                       \/ op = Head(tasks)
                       \/ phase[op] # "queued"
  PROVE  TaskInv'
BY HeadQueued DEF TaskInv

\* The request of a new command.
LEMMA CommandQueued ==
  ASSUME QtOK, TaskInv, NEW c \in Op, phase[c] = "idle",
         tasks' = tasks \o << c >>, phase' = [phase EXCEPT ![c] = "queued"]
  PROVE  TaskInv'
<1>1. /\ Len(tasks') = Len(tasks) + 1 /\ Len(tasks) \in Nat
      /\ \A i \in 1 .. Len(tasks) : tasks'[i] = tasks[i]
      /\ tasks'[Len(tasks) + 1] = c
  BY DEF QtOK
<1>2. /\ phase'[c] = "queued"
      /\ \A op \in Op : phase[op] = "queued" => phase'[op] = "queued"
      /\ \A i \in 1 .. Len(tasks) : tasks[i] # c
  BY DEF QtOK, TaskInv
<1> QED
  BY <1>1, <1>2 DEF TaskInv

\* The requests of a new update.
LEMMA UpdateQueued ==
  ASSUME QtOK, TaskInv, LiveInv, NEW u \in Updates, phase[<< "robot", u >>] = "idle",
         tasks' = tasks \o << << "robot", u >>, << "amcl", u >>, << "odom", u >> >>,
         phase' = [op \in Op |-> IF op \in Source \X {u} THEN "queued" ELSE phase[op]]
  PROVE  TaskInv'
<1> DEFINE r == << "robot", u >>
           a == << "amcl", u >>
           o == << "odom", u >>
<1>1. r # a /\ r # o /\ a # o
  OBVIOUS
<1>2. /\ r \in Op /\ a \in Op /\ o \in Op
      /\ r \in Source \X {u} /\ a \in Source \X {u} /\ o \in Source \X {u}
  BY OpFacts DEF Source
<1>3. phase[r] = "idle" /\ phase[a] = "idle" /\ phase[o] = "idle"
  BY DEF LiveInv, Live, Source
<1>4. /\ phase'[r] = "queued" /\ phase'[a] = "queued" /\ phase'[o] = "queued"
      /\ \A op \in Op : phase[op] = "queued" => phase'[op] = "queued"
      /\ \A i \in 1 .. Len(tasks) : tasks[i] # r /\ tasks[i] # a /\ tasks[i] # o
  BY <1>2, <1>3 DEF TaskInv
<1> HIDE DEF r, a, o
<1>5. /\ Len(tasks') = Len(tasks) + 3 /\ Len(tasks) \in Nat
      /\ \A i \in 1 .. Len(tasks) : tasks'[i] = tasks[i]
      /\ tasks'[Len(tasks) + 1] = r
      /\ tasks'[Len(tasks) + 2] = a
      /\ tasks'[Len(tasks) + 3] = o
  <2>1. tasks' = tasks \o << r, a, o >>
    BY DEF r, a, o
  <2>2. << r, a, o >> \in Seq(Op) /\ Len(<< r, a, o >>) = 3
    BY <1>2
  <2> QED
    BY <2>1, <2>2 DEF QtOK
<1> DEFINE n == Len(tasks)
<1>6. ASSUME NEW i \in 1 .. Len(tasks')
      PROVE  \/ i \in 1 .. n /\ tasks'[i] = tasks[i]
             \/ i = n + 1 /\ tasks'[i] = r
             \/ i = n + 2 /\ tasks'[i] = a
             \/ i = n + 3 /\ tasks'[i] = o
  <2>1. n \in Nat /\ i \in 1 .. n + 3
    BY <1>5
  <2> HIDE DEF n
  <2>2. i \in 1 .. n \/ i = n + 1 \/ i = n + 2 \/ i = n + 3
    BY <2>1
  <2> QED
    BY <1>5, <2>2 DEF n
<1>7. \A i \in 1 .. Len(tasks') : tasks'[i] \in Op => phase'[tasks'[i]] = "queued"
  BY <1>4, <1>6 DEF TaskInv
<1>8. ASSUME NEW i \in 1 .. Len(tasks'), NEW j \in 1 .. Len(tasks'),
             tasks'[i] = tasks'[j], tasks'[i] \in Op
      PROVE  i = j
  <2>1. /\ \/ i \in 1 .. n /\ tasks'[i] = tasks[i]
           \/ i = n + 1 /\ tasks'[i] = r
           \/ i = n + 2 /\ tasks'[i] = a
           \/ i = n + 3 /\ tasks'[i] = o
        /\ \/ j \in 1 .. n /\ tasks'[j] = tasks[j]
           \/ j = n + 1 /\ tasks'[j] = r
           \/ j = n + 2 /\ tasks'[j] = a
           \/ j = n + 3 /\ tasks'[j] = o
    BY <1>6
  <2>2. CASE i \in 1 .. n /\ j \in 1 .. n
    BY <1>1, <1>4, <1>8, <2>1, <2>2 DEF TaskInv
  <2> HIDE DEF n
  <2> QED
    BY <1>1, <1>4, <1>8, <2>1, <2>2 DEF n
<1> QED
  BY <1>7, <1>8 DEF TaskInv

\* An update that is over has no task in the queue.
LEMMA ReleaseKeepsQueue ==
  ASSUME QtOK, TaskInv, NEW u \in Updates, Release(u), tasks' = tasks,
         \A s \in Source : phase[<< s, u >>] \in Done
  PROVE  TaskInv'
<1>1. \A op \in Op : phase[op] = "queued" => phase'[op] = "queued"
  BY OpFacts DEF Release, Done
<1> QED
  BY <1>1, QueueKept

-----------------------------------------------------------------------------
\* The queue of the executor holds what has not begun, once.
LEMMA TaskStep == QtOK /\ UpdateOK /\ WorkInv /\ TaskInv /\ LiveInv /\ ChainInv /\ [Next]_vars => TaskInv'
<1> SUFFICES ASSUME QtOK /\ UpdateOK /\ WorkInv /\ TaskInv /\ LiveInv /\ ChainInv, [Next]_vars PROVE TaskInv'
  OBVIOUS
<1>1. ASSUME NEW c \in Commands, ThrowFood(c) PROVE TaskInv'
  <2>1. phase[c] = "idle" /\ c \in Op
    BY <1>1, UnusedIsIdle, OpFacts DEF ThrowFood
  <2>2. CASE Give(c)
    BY <2>1, <2>2, CommandQueued DEF Give, Submit
  <2>3. CASE Refuse(c)
    BY <2>1, <2>3, QueueKept DEF Refuse, QtOK
  <2> QED
    BY <1>1, <2>2, <2>3 DEF ThrowFood
<1>2. ASSUME NEW c \in Commands, RequestFood(c) PROVE TaskInv'
  <2>1. phase[c] = "idle" /\ c \in Op
    BY <1>2, UnusedIsIdle, OpFacts DEF RequestFood
  <2> QED
    BY <1>2, <2>1, CommandQueued DEF RequestFood, Give, Submit
<1>3. ASSUME NEW c \in Commands, NEW d \in Steps, Move(c, d) PROVE TaskInv'
  <2>1. phase[c] = "idle" /\ c \in Op
    BY <1>3, UnusedIsIdle, OpFacts DEF Move
  <2> QED
    BY <1>3, <2>1, CommandQueued DEF Move, Give, Submit
<1>4. ASSUME Quit PROVE TaskInv'
  BY <1>4, OpFacts
  DEF Quit, Leaving, Submit, QtDoes, qtThread, window, control, update,
      rosThread, simulation, history, TaskInv, QtOK, Done, Live, ToBehavior
<1>5. ASSUME Register PROVE TaskInv'
  BY <1>5, OpFacts
  DEF Register, Told, Loop, QtDoes, qtThread, window, control, update,
      rosThread, simulation, history, TaskInv, QtOK, Done, Live, ToBehavior
<1>6. ASSUME RequestSceneUpdate PROVE TaskInv'
  BY <1>6, FreeUpdate, UpdateQueued
<1>7. ASSUME Watch PROVE TaskInv'
  BY <1>7, OpFacts
  DEF Watch, QtDoes, qtThread, window, control, update, rosThread, simulation,
      history, TaskInv, QtOK, Done, Live, ToBehavior
<1>8. ASSUME Compose PROVE TaskInv'
  BY <1>8, OpFacts
  DEF Compose, QtDoes, qtThread, window, control, update, rosThread,
      simulation, history, TaskInv, QtOK, Done, Live, ToBehavior
<1>9. ASSUME Refresh PROVE TaskInv'
  <2>1. CASE qtOn[2] \in composed
    <3> DEFINE u == qtOn[2]
    <3>1. PostUpdate(u) /\ Release(u) /\ u \in Updates /\ tasks' = tasks
      BY <1>9, <2>1, RefreshAlone DEF Refresh, Live
    <3>2. \A s \in Source : phase[<< s, u >>] \in Done
      BY <1>9, <2>1, RefreshAlone DEF Refresh
    <3> HIDE DEF u
    <3> QED
      BY <3>1, <3>2, ReleaseKeepsQueue
  <2>2. CASE qtOn[2] \notin composed
    BY <1>9, <2>2 DEF Refresh, TaskInv, update
  <2> QED
    BY <2>1, <2>2
<1>10. ASSUME HandleEvent PROVE TaskInv'
  BY <1>10, OpFacts
  DEF HandleEvent, qtThread, window, control, update, rosThread, simulation,
      history, TaskInv, QtOK, Done, Live, ToBehavior
<1>11. ASSUME Shutdown PROVE TaskInv'
  BY <1>11, OpFacts
  DEF Shutdown, Leaving, QtDoes, qtThread, window, control, update, rosThread,
      simulation, history, TaskInv, QtOK, Done, Live, ToBehavior
<1>12. ASSUME Join PROVE TaskInv'
  BY <1>12, OpFacts
  DEF Join, Leaving, QtDoes, qtThread, window, control, update, rosThread,
      simulation, history, TaskInv, QtOK, Done, Live, ToBehavior
<1>13. ASSUME RunTask PROVE TaskInv'
  <2> USE <1>13
  <2>1. tasks # << >> /\ tasks' = Tail(tasks)
    BY DEF RunTask
  <2>2. CASE UNCHANGED phase
    BY <2>1, <2>2, TaskTaken
  <2>3. CASE CloseOnRosThread
    <3>1. \A op \in Op : phase'[op] = phase[op] \/ phase[op] # "queued"
      BY <2>3 DEF CloseOnRosThread, QtOK
    <3> QED
      BY <2>1, <3>1, TaskTaken
  <2>4. ASSUME NEW p, Head(tasks) \in Op, phase' = [phase EXCEPT ![Head(tasks)] = p]
        PROVE  TaskInv'
    <3>1. \A op \in Op : phase'[op] = phase[op] \/ op = Head(tasks)
      BY <2>4 DEF QtOK
    <3> QED
      BY <2>1, <3>1, TaskTaken
  <2>5. ASSUME NEW outcome \in Done, Head(tasks) \in Op, Complete(Head(tasks), outcome)
        PROVE  TaskInv'
    BY <2>4, <2>5, Completion
  <2> QED
    BY <2>2, <2>3, <2>4, <2>5, TaskCases
<1>14. ASSUME NEW op \in Op, TakeResponse(op) PROVE TaskInv'
  <2>1. phase[op] # "queued" /\ tasks' = tasks
    BY <1>14 DEF TakeResponse
  <2>2. \E outcome \in Done : phase' = [phase EXCEPT ![op] = outcome]
    BY <1>14, Completion DEF TakeResponse, Done
  <2> QED
    BY <2>1, <2>2, QueueKept DEF QtOK
<1>15. ASSUME Callback, FinishState PROVE TaskInv'
  BY <1>15, OpFacts
  DEF FinishState, Callback, Idle, RosDoes, qtThread, window, control, update,
      rosThread, simulation, history, TaskInv, QtOK, Done, Live, ToBehavior
<1>16. ASSUME Callback, FinishSceneUpdate PROVE TaskInv'
  <2>1. CASE Release(rosOn[2])
    <3> DEFINE u == rosOn[2]
    <3>1. Release(u) /\ u \in Updates /\ tasks' = tasks
      BY <1>16, <2>1, FinishAlone DEF Callback, FinishSceneUpdate, Live
    <3>2. \A s \in Source : phase[<< s, u >>] \in Done
      BY <1>16, FinishAlone DEF FinishSceneUpdate
    <3> HIDE DEF u
    <3> QED
      BY <3>1, <3>2, ReleaseKeepsQueue
  <2>2. CASE UNCHANGED phase
    BY <1>16, <2>2 DEF Callback, TaskInv
  <2> QED
    BY <1>16, <2>1, <2>2 DEF FinishSceneUpdate
<1>17. ASSUME Callback, FinishCommand PROVE TaskInv'
  BY <1>17, OpFacts
  DEF FinishCommand, Callback, Told, Idle, RosDoes, qtThread, window, control,
      update, rosThread, simulation, history, TaskInv, QtOK, Done, Live,
      ToBehavior
<1>18. ASSUME Spin PROVE TaskInv'
  BY <1>18, OpFacts
  DEF Spin, Unshared, RosDoes, qtThread, window, control, update, rosThread,
      simulation, history, TaskInv, QtOK, Done, Live, ToBehavior
<1>19. ASSUME ApplyStoredPose PROVE TaskInv'
  BY <1>19, OpFacts
  DEF ApplyStoredPose, Elsewhere, qtThread, window, control, update,
      rosThread, simulation, history, TaskInv, QtOK, Done, Live, ToBehavior
<1>20. ASSUME NEW op \in Op, Serve(op) PROVE TaskInv'
  BY <1>20, OpFacts
  DEF Serve, Elsewhere, qtThread, window, control, update, rosThread,
      simulation, history, TaskInv, QtOK, Done, Live, ToBehavior
<1>21. ASSUME ExecutorFails PROVE TaskInv'
  BY <1>21, OpFacts
  DEF ExecutorFails, Unshared, RosDoes, qtThread, window, control, update,
      rosThread, simulation, history, TaskInv, QtOK, Done, Live, ToBehavior
<1>22. ASSUME Start PROVE TaskInv'
  BY <1>22, OpFacts
  DEF Start, Elsewhere, qtThread, window, control, update, rosThread,
      simulation, history, TaskInv, QtOK, Done, Live, ToBehavior
<1>23. ASSUME GoDown PROVE TaskInv'
  BY <1>23, OpFacts
  DEF GoDown, Elsewhere, qtThread, window, control, update, rosThread,
      simulation, history, TaskInv, QtOK, Done, Live, ToBehavior
<1>24. ASSUME BehaviorGoesDown PROVE TaskInv'
  BY <1>24, OpFacts
  DEF BehaviorGoesDown, Elsewhere, qtThread, window, control, update,
      rosThread, simulation, history, TaskInv, QtOK, Done, Live, ToBehavior
<1>25. CASE UNCHANGED vars
  BY <1>25, OpFacts
  DEF vars, qtThread, window, control, update, rosThread, simulation, history,
      TaskInv, QtOK, Done, Live, ToBehavior
<1> QED
  BY <1>1, <1>2, <1>3, <1>4, <1>5, <1>6, <1>7, <1>8, <1>9, <1>10, <1>11,
     <1>12, <1>13, <1>14, <1>15, <1>16, <1>17, <1>18, <1>19, <1>20, <1>21,
     <1>22, <1>23, <1>24, <1>25
  DEF Next, Operator, QtThread, RosThread, Servers, Environment, Callback

-----------------------------------------------------------------------------
(* The updates under way                                                   *)

\* An update that is over leaves none.
LEMMA ReleaseEnds ==
  ASSUME LiveInv, NEW u \in Live, Release(u)
  PROVE  /\ Live' = {} /\ request_in_flight' = FALSE
         /\ \A v \in Updates : \A s \in Source : phase'[<< s, v >>] = "idle"
<1>1. \A v \in Updates : \A s \in Source : phase'[<< s, v >>] = "idle"
  BY OpFacts DEF Release, LiveInv, Live
<1> QED
  BY <1>1 DEF Release, Live, Source

\* One future changes its state, and no update begins or is over.
LEMMA ReadsKept ==
  ASSUME QtOK, NEW op \in Op, op \in Commands \/ phase[op] # "idle",
         NEW p, p # "idle", phase' = [phase EXCEPT ![op] = p]
  PROVE  \A v \in Updates : \A s \in Source :
           phase'[<< s, v >>] = "idle" <=> phase[<< s, v >>] = "idle"
<1>1. phase'[op] = p /\ \A x \in Op : x # op => phase'[x] = phase[x]
  BY DEF QtOK
<1> TAKE v \in Updates
<1> TAKE s \in Source
<1>2. << s, v >> \in Op /\ << s, v >> \notin Commands
  BY OpFacts
<1> QED
  BY <1>1, <1>2

\* Nothing begins and nothing is over.
LEMMA LiveKept ==
  ASSUME LiveInv, request_in_flight' = request_in_flight,
         \A v \in Updates : \A s \in Source :
           phase'[<< s, v >>] = "idle" <=> phase[<< s, v >>] = "idle"
  PROVE  LiveInv' /\ Live' = Live
<1>1. Live' = Live
  BY DEF Live, Source
<1> QED
  BY <1>1 DEF LiveInv

-----------------------------------------------------------------------------
\* One update is under way, or none.
LEMMA LiveStep == QtOK /\ UpdateOK /\ WorkInv /\ TaskInv /\ LiveInv /\ ChainInv /\ [Next]_vars => LiveInv'
<1> SUFFICES ASSUME QtOK /\ UpdateOK /\ WorkInv /\ TaskInv /\ LiveInv /\ ChainInv, [Next]_vars PROVE LiveInv'
  OBVIOUS
<1>1. ASSUME NEW c \in Commands, ThrowFood(c) PROVE LiveInv'
  <2>1. \E p \in {"queued", "failed"} : phase' = [phase EXCEPT ![c] = p]
    BY <1>1 DEF ThrowFood, Give, Refuse
  <2> QED
    BY <1>1, <2>1, LiveKept, ReadsKept, OpFacts DEF ThrowFood, update
<1>2. ASSUME NEW c \in Commands, RequestFood(c) PROVE LiveInv'
  <2>1. phase' = [phase EXCEPT ![c] = "queued"]
    BY <1>2 DEF RequestFood, Give
  <2> QED
    BY <1>2, <2>1, LiveKept, ReadsKept, OpFacts DEF RequestFood, update
<1>3. ASSUME NEW c \in Commands, NEW d \in Steps, Move(c, d) PROVE LiveInv'
  <2>1. phase' = [phase EXCEPT ![c] = "queued"]
    BY <1>3 DEF Move, Give
  <2> QED
    BY <1>3, <2>1, LiveKept, ReadsKept, OpFacts DEF Move, update
<1>4. ASSUME Quit PROVE LiveInv'
  BY <1>4, LiveKept
  DEF Quit, Leaving, Submit, QtDoes, qtThread, window, control, update,
      rosThread, simulation, history
<1>5. ASSUME Register PROVE LiveInv'
  BY <1>5, LiveKept
  DEF Register, Told, Loop, QtDoes, qtThread, window, control, update,
      rosThread, simulation, history
<1>6. ASSUME RequestSceneUpdate PROVE LiveInv'
  <2>1. PICK u \in Updates :
           /\ phase[<< "robot", u >>] = "idle"
           /\ request_in_flight' = TRUE
           /\ tasks' = tasks \o << << "robot", u >>, << "amcl", u >>, << "odom", u >> >>
           /\ phase' = [op \in Op |-> IF op \in Source \X {u} THEN "queued" ELSE phase[op]]
           /\ qt' = "watch" /\ qtOn' = << "robot", u >>
    BY <1>6, FreeUpdate
  <2>2. \A v \in Updates : \A s \in Source : phase[<< s, v >>] = "idle"
    BY <1>6 DEF RequestSceneUpdate, LiveInv
  <2>3. \A v \in Updates : \A s \in Source : phase'[<< s, v >>] = "idle" <=> v # u
    BY <2>1, <2>2, OpFacts
  <2>4. Live' = {u}
    BY <2>3 DEF Live, Source
  <2> QED
    BY <2>1, <2>3, <2>4 DEF LiveInv
<1>7. ASSUME Watch PROVE LiveInv'
  BY <1>7, LiveKept
  DEF Watch, QtDoes, qtThread, window, control, update, rosThread, simulation,
      history
<1>8. ASSUME Compose PROVE LiveInv'
  BY <1>8, LiveKept
  DEF Compose, QtDoes, qtThread, window, control, update, rosThread,
      simulation, history
<1>9. ASSUME Refresh PROVE LiveInv'
  <2>1. CASE qtOn[2] \in composed
    BY <1>9, <2>1, RefreshAlone, ReleaseEnds DEF Refresh, LiveInv
  <2>2. CASE qtOn[2] \notin composed
    BY <1>9, <2>2, LiveKept DEF Refresh, update
  <2> QED
    BY <2>1, <2>2
<1>10. ASSUME HandleEvent PROVE LiveInv'
  BY <1>10, LiveKept
  DEF HandleEvent, qtThread, window, control, update, rosThread, simulation,
      history
<1>11. ASSUME Shutdown PROVE LiveInv'
  BY <1>11, LiveKept
  DEF Shutdown, Leaving, QtDoes, qtThread, window, control, update, rosThread,
      simulation, history
<1>12. ASSUME Join PROVE LiveInv'
  BY <1>12, LiveKept
  DEF Join, Leaving, QtDoes, qtThread, window, control, update, rosThread,
      simulation, history
<1>13. ASSUME RunTask PROVE LiveInv'
  <2>1. UNCHANGED request_in_flight
    BY <1>13 DEF RunTask
  <2>2. CASE UNCHANGED phase
    BY <2>1, <2>2, LiveKept
  <2>3. CASE CloseOnRosThread
    BY <2>1, <2>3, LiveKept, OpFacts DEF CloseOnRosThread
  <2>4. CASE /\ Head(tasks) \in Op
             /\ \E p \in Done \cup {"called"} : phase' = [phase EXCEPT ![Head(tasks)] = p]
    <3>1. phase[Head(tasks)] # "idle"
      BY <1>13, <2>4, HeadQueued DEF RunTask
    <3> QED
      BY <2>1, <2>4, <3>1, LiveKept, ReadsKept DEF Done
  <2> QED
    BY <1>13, <2>2, <2>3, <2>4, TaskCases, Completion
<1>14. ASSUME NEW op \in Op, TakeResponse(op) PROVE LiveInv'
  <2>1. PICK outcome \in Done : Complete(op, outcome)
    BY <1>14 DEF TakeResponse, Done
  <2>2. phase' = [phase EXCEPT ![op] = outcome] /\ phase[op] # "idle" /\ outcome # "idle"
    BY <1>14, <2>1, Completion DEF TakeResponse, Done
  <2> QED
    BY <1>14, <2>2, LiveKept, ReadsKept DEF TakeResponse
<1>15. ASSUME Callback, FinishState PROVE LiveInv'
  BY <1>15, LiveKept
  DEF FinishState, Callback, Idle, RosDoes, qtThread, window, control, update,
      rosThread, simulation, history
<1>16. ASSUME Callback, FinishSceneUpdate PROVE LiveInv'
  <2>1. CASE Release(rosOn[2])
    BY <1>16, <2>1, FinishAlone, ReleaseEnds DEF FinishSceneUpdate, LiveInv
  <2>2. CASE UNCHANGED << update, phase >>
    BY <2>2, LiveKept DEF update
  <2> QED
    BY <1>16, <2>1, <2>2 DEF FinishSceneUpdate
<1>17. ASSUME Callback, FinishCommand PROVE LiveInv'
  BY <1>17, LiveKept
  DEF FinishCommand, Callback, Told, Idle, RosDoes, qtThread, window, control,
      update, rosThread, simulation, history
<1>18. ASSUME Spin PROVE LiveInv'
  BY <1>18, LiveKept
  DEF Spin, Unshared, RosDoes, qtThread, window, control, update, rosThread,
      simulation, history
<1>19. ASSUME ApplyStoredPose PROVE LiveInv'
  BY <1>19, LiveKept
  DEF ApplyStoredPose, Elsewhere, qtThread, window, control, update,
      rosThread, simulation, history
<1>20. ASSUME NEW op \in Op, Serve(op) PROVE LiveInv'
  <2>1. phase[op] # "idle" /\ \E p \in {"served", "refused"} : phase' = [phase EXCEPT ![op] = p]
    BY <1>20 DEF Serve
  <2> QED
    BY <1>20, <2>1, LiveKept, ReadsKept DEF Serve, Elsewhere
<1>21. ASSUME ExecutorFails PROVE LiveInv'
  BY <1>21, LiveKept
  DEF ExecutorFails, Unshared, RosDoes, qtThread, window, control, update,
      rosThread, simulation, history
<1>22. ASSUME Start PROVE LiveInv'
  BY <1>22, LiveKept
  DEF Start, Elsewhere, qtThread, window, control, update, rosThread,
      simulation, history
<1>23. ASSUME GoDown PROVE LiveInv'
  <2>1. \A v \in Updates : \A s \in Source :
          phase'[<< s, v >>] = "idle" <=> phase[<< s, v >>] = "idle"
    BY <1>23, OpFacts DEF GoDown, QtOK, ToBehavior
  <2> QED
    BY <1>23, <2>1, LiveKept DEF GoDown, Elsewhere
<1>24. ASSUME BehaviorGoesDown PROVE LiveInv'
  <2>1. \E c \in Commands : phase[c] # "idle" /\ phase' = [phase EXCEPT ![c] = "lost"]
    BY <1>24 DEF BehaviorGoesDown, ToBehavior
  <2> QED
    BY <1>24, <2>1, LiveKept, ReadsKept, OpFacts DEF BehaviorGoesDown, Elsewhere
<1>25. CASE UNCHANGED vars
  BY <1>25, LiveKept
  DEF vars, qtThread, window, control, update, rosThread, simulation, history
<1> QED
  BY <1>1, <1>2, <1>3, <1>4, <1>5, <1>6, <1>7, <1>8, <1>9, <1>10, <1>11,
     <1>12, <1>13, <1>14, <1>15, <1>16, <1>17, <1>18, <1>19, <1>20, <1>21,
     <1>22, <1>23, <1>24, <1>25
  DEF Next, Operator, QtThread, RosThread, Servers, Environment, Callback

-----------------------------------------------------------------------------
(* The chain of an update, step by step                                    *)

Chained    == {"watch", "compose", "refresh"}
InCallback == {"compose", "show", "post"}

QtKept ==
  \/ qt' = qt /\ qtOn' = qtOn
  \/ qt \notin Chained /\ qt' \notin Chained

RosKept ==
  \/ ros' = ros /\ rosOn' = rosOn
  \/ ros \notin InCallback /\ ros' \notin InCallback

\* The chain is where it was: no read is done and no callback is called.
LEMMA ChainKept ==
  ASSUME ChainInv, Live' = Live, pending' = pending, composed' = composed,
         \A u \in Updates : \A s \in Source :
           phase'[<< s, u >>] \in Done <=> phase[<< s, u >>] \in Done,
         QtKept, RosKept
  PROVE  ChainInv'
<1> SUFFICES ASSUME NEW u \in Updates PROVE Chain(u)'
  BY DEF ChainInv
<1>1. Chain(u)
  BY DEF ChainInv
<1>2. /\ Watched(u)' <=> Watched(u)
      /\ ComposerWaits(u)' <=> ComposerWaits(u)
      /\ RefresherWaits(u)' <=> RefresherWaits(u)
  BY DEF QtKept, Chained, Watched, ComposerWaits, RefresherWaits
<1>3. InChain(u)' <=> InChain(u)
  BY DEF RosKept, InCallback, InChain
<1>4. {s \in Source : phase'[<< s, u >>] \notin Done} = {s \in Source : phase[<< s, u >>] \notin Done}
  OBVIOUS
<1>5. InChain(u) => ros' = ros
  BY DEF RosKept, InCallback, InChain
<1>6. ros \in {"show", "post"} <=> ros' \in {"show", "post"}
  BY DEF RosKept, InCallback
<1> QED
  BY <1>1, <1>2, <1>3, <1>4, <1>5, <1>6 DEF Chain

\* The reads, the composition and the post stay in order in a step that touches
\* none of them.
LEMMA ChainFrame ==
  ASSUME ChainInv, UNCHANGED << phase, pending, composed >>, QtKept, RosKept
  PROVE  ChainInv'
BY ChainKept DEF Live

\* One future changes its state, and no read is done.
LEMMA ReadsNotDone ==
  ASSUME QtOK, LiveInv, NEW op \in Op, NEW p,
         phase' = [phase EXCEPT ![op] = p], p # "idle",
         op \in Commands \/ (phase[op] \notin Done \cup {"idle"} /\ p \notin Done)
  PROVE  /\ Live' = Live
         /\ \A v \in Updates : \A s \in Source :
              phase'[<< s, v >>] \in Done <=> phase[<< s, v >>] \in Done
<1>1. phase'[op] = p /\ \A x \in Op : x # op => phase'[x] = phase[x]
  BY DEF QtOK
<1>2. ASSUME NEW v \in Updates, NEW s \in Source
      PROVE  /\ phase'[<< s, v >>] \in Done <=> phase[<< s, v >>] \in Done
             /\ phase'[<< s, v >>] = "idle" <=> phase[<< s, v >>] = "idle"
  <2> << s, v >> \in Op /\ << s, v >> \notin Commands
    BY OpFacts
  <2> QED
    BY <1>1
<1>3. Live' = Live
  BY <1>2 DEF Live, Source
<1> QED
  BY <1>2, <1>3

\* A future is completed.
LEMMA ChainCompletes ==
  ASSUME QtOK, UpdateOK, LiveInv, ChainInv, NEW op \in Op,
         phase[op] \notin Done \cup {"idle"}, NEW outcome \in Done, Complete(op, outcome),
         ros = "idle", UNCHANGED << qt, qtOn, composed >>
  PROVE  ChainInv'
<1>1. phase' = [phase EXCEPT ![op] = outcome] /\ outcome # "idle"
  BY Completion DEF Done
<1>2. CASE op \in Commands /\ pending' = pending /\ ros' \in {"report", "idle"}
  <2>1. QtKept /\ RosKept
    BY <1>2 DEF QtKept, RosKept, InCallback
  <2> QED
    BY <1>1, <1>2, <2>1, ReadsNotDone, ChainKept
<1>3. ASSUME NEW s \in Source, NEW u \in Updates, op = << s, u >>,
             pending' = [pending EXCEPT ![u] =
                           IF Watched(u) THEN pending[u] \ {s} ELSE pending[u]],
             \/ /\ pending'[u] = {} /\ ComposerWaits(u)
                /\ ros' = "compose" /\ rosOn' = << "robot", u >>
             \/ /\ pending'[u] # {} \/ ~ComposerWaits(u)
                /\ ros' = "idle" /\ rosOn' = Nothing
      PROVE  ChainInv'
  <2>1. /\ phase'[op] = outcome
        /\ \A v \in Updates : \A t \in Source : << t, v >> # op => phase'[<< t, v >>] = phase[<< t, v >>]
    BY <1>1, OpFacts DEF QtOK
  <2>2. Live' = Live /\ u \in Live
    BY <1>1, <1>3, LiveStays
  <2> SUFFICES ASSUME NEW v \in Updates PROVE Chain(v)'
    BY DEF ChainInv
  <2>3. Chain(v) /\ ~InChain(v)
    BY DEF ChainInv, InChain
  <2>4. /\ Watched(v)' <=> Watched(v)
        /\ ComposerWaits(v)' <=> ComposerWaits(v)
        /\ RefresherWaits(v)' <=> RefresherWaits(v)
    BY DEF Watched, ComposerWaits, RefresherWaits
  <2>5. CASE v # u
    <3>1. v \notin Live /\ pending'[v] = pending[v]
      BY <1>3, <2>2, <2>5 DEF LiveInv, UpdateOK
    <3>2. ~InChain(v)' /\ ros' \notin {"show", "post"}
      BY <1>3, <2>5, OpFacts DEF InChain
    <3> QED
      BY <2>2, <2>3, <2>4, <3>1, <3>2 DEF Chain
  <2>6. CASE v = u /\ Watched(u)
    <3>1. pending[u] = {t \in Source : phase[<< t, u >>] \notin Done} /\ s \in pending[u]
      BY <1>3, <2>2, <2>3, <2>6 DEF Chain
    <3>2. pending'[u] = {t \in Source : phase'[<< t, u >>] \notin Done}
      <4>1. pending'[u] = pending[u] \ {s}
        BY <1>3, <2>6 DEF UpdateOK
      <4>2. ASSUME NEW t \in Source
            PROVE  phase'[<< t, u >>] \in Done <=> t = s \/ phase[<< t, u >>] \in Done
        BY <1>3, <2>1
      <4> QED
        BY <3>1, <4>1, <4>2
    <3>3. u \notin composed
      BY <2>3, <2>6, <3>1 DEF Chain
    <3>4. InChain(u)' <=> pending'[u] = {} /\ ComposerWaits(u)
      BY <1>3, OpFacts DEF InChain, Source
    <3>5. ros' \in {"compose", "idle"}
      BY <1>3
    <3> QED
      BY <2>2, <2>3, <2>4, <2>6, <3>2, <3>3, <3>4, <3>5 DEF Chain, InChain
  <2>7. CASE v = u /\ ~Watched(u)
    <3>1. ~ComposerWaits(u)
      BY <2>7 DEF Watched, ComposerWaits
    <3>2. u \notin composed
      BY <2>3, <2>7, <3>1 DEF Chain
    <3>3. ros' = "idle"
      BY <1>3, <3>1
    <3> QED
      BY <2>2, <2>3, <2>4, <2>7, <3>1, <3>2, <3>3 DEF Chain, InChain
  <2> QED
    BY <2>5, <2>6, <2>7
<1> QED
  BY <1>2, <1>3, Completion

\* An update that is over leaves no chain.
LEMMA ReleaseEndsChain ==
  ASSUME QtOK, UpdateOK, LiveInv, ChainInv, NEW u \in Live, Release(u),
         qt' \notin Chained, ros' \notin InCallback
  PROVE  ChainInv'
<1>1. Live' = {}
  BY ReleaseEnds
<1>2. composed' = {}
  BY DEF Release, LiveInv, ChainInv, Chain, Live, UpdateOK
<1> QED
  BY <1>1, <1>2 DEF ChainInv, Chain, InChain, Watched, ComposerWaits, RefresherWaits, Chained, InCallback

\* The update that is asked for is the one under way.
LEMMA AskedIsLive ==
  ASSUME LiveInv, RequestSceneUpdate
  PROVE  request_in_flight' = TRUE /\ Live' = {qtOn'[2]}
<1>1. PICK u \in Updates :
         /\ phase[<< "robot", u >>] = "idle"
         /\ request_in_flight' = TRUE
         /\ phase' = [op \in Op |-> IF op \in Source \X {u} THEN "queued" ELSE phase[op]]
         /\ qtOn' = << "robot", u >>
  BY FreeUpdate
<1>2. \A v \in Updates : phase[<< "robot", v >>] = "idle"
  BY DEF RequestSceneUpdate, LiveInv, Live
<1>3. \A v \in Updates : phase'[<< "robot", v >>] = "idle" <=> v # u
  BY <1>1, <1>2, OpFacts DEF Source
<1>4. Live' = {u}
  BY <1>3 DEF Live
<1> QED
  BY <1>1, <1>4

-----------------------------------------------------------------------------
\* Every update goes through its chain once.
LEMMA ChainStep == QtOK /\ UpdateOK /\ WorkInv /\ TaskInv /\ LiveInv /\ ChainInv /\ [Next]_vars => ChainInv'
<1> SUFFICES ASSUME QtOK /\ UpdateOK /\ WorkInv /\ TaskInv /\ LiveInv /\ ChainInv, [Next]_vars PROVE ChainInv'
  OBVIOUS
<1>1. ASSUME NEW c \in Commands, ThrowFood(c) PROVE ChainInv'
  <2>1. \E p \in {"queued", "failed"} : phase' = [phase EXCEPT ![c] = p]
    BY <1>1 DEF ThrowFood, Give, Refuse
  <2>2. QtKept /\ RosKept
    BY <1>1 DEF ThrowFood, Input, Give, Refuse, QtDoes, QtKept, RosKept, Chained, qtThread, rosThread
  <2>3. Live' = Live /\ \A v \in Updates : \A s \in Source :
          phase'[<< s, v >>] \in Done <=> phase[<< s, v >>] \in Done
    <3>1. PICK p \in {"queued", "failed"} : phase' = [phase EXCEPT ![c] = p]
      BY <2>1
    <3>2. c \in Op /\ p # "idle"
      BY OpFacts
    <3> QED
      BY <3>1, <3>2, ReadsNotDone
  <2> QED
    BY <1>1, <2>2, <2>3, ChainKept DEF ThrowFood, update
<1>2. ASSUME NEW c \in Commands, RequestFood(c) PROVE ChainInv'
  <2>1. phase' = [phase EXCEPT ![c] = "queued"]
    BY <1>2 DEF RequestFood, Give
  <2>2. QtKept /\ RosKept
    BY <1>2 DEF RequestFood, Input, Give, QtDoes, QtKept, RosKept, Chained, qtThread, rosThread
  <2>3. Live' = Live /\ \A v \in Updates : \A s \in Source :
          phase'[<< s, v >>] \in Done <=> phase[<< s, v >>] \in Done
    <3>1. PICK p \in {"queued", "failed"} : phase' = [phase EXCEPT ![c] = p]
      BY <2>1
    <3>2. c \in Op /\ p # "idle"
      BY OpFacts
    <3> QED
      BY <3>1, <3>2, ReadsNotDone
  <2> QED
    BY <1>2, <2>2, <2>3, ChainKept DEF RequestFood, update
<1>3. ASSUME NEW c \in Commands, NEW d \in Steps, Move(c, d) PROVE ChainInv'
  <2>1. phase' = [phase EXCEPT ![c] = "queued"]
    BY <1>3 DEF Move, Give
  <2>2. QtKept /\ RosKept
    BY <1>3 DEF Move, Input, Give, QtDoes, QtKept, RosKept, Chained, qtThread, rosThread
  <2>3. Live' = Live /\ \A v \in Updates : \A s \in Source :
          phase'[<< s, v >>] \in Done <=> phase[<< s, v >>] \in Done
    <3>1. PICK p \in {"queued", "failed"} : phase' = [phase EXCEPT ![c] = p]
      BY <2>1
    <3>2. c \in Op /\ p # "idle"
      BY OpFacts
    <3> QED
      BY <3>1, <3>2, ReadsNotDone
  <2> QED
    BY <1>3, <2>2, <2>3, ChainKept DEF Move, update
<1>4. ASSUME Quit PROVE ChainInv'
  BY <1>4, ChainFrame
  DEF Quit, Leaving, Submit, QtDoes, qtThread, window, control, update,
      rosThread, simulation, history, QtKept, RosKept, Chained, InCallback
<1>5. ASSUME Register PROVE ChainInv'
  BY <1>5, ChainFrame
  DEF Register, Told, Loop, QtDoes, qtThread, window, control, update,
      rosThread, simulation, history, QtKept, RosKept, Chained, InCallback
<1>6. ASSUME RequestSceneUpdate PROVE ChainInv'
  <2>1. \A v \in Updates : v \notin composed /\ ~InChain(v)
    BY <1>6 DEF RequestSceneUpdate, LiveInv, ChainInv, Chain, WorkInv, InChain
  <2>2. PICK u \in Updates : qt' = "watch" /\ qtOn' = << "robot", u >>
    BY <1>6, FreeUpdate
  <2>3. qtOn'[2] = u
    BY <2>2
  <2>4. \A v \in Updates : ~RefresherWaits(v)' => FALSE
    BY <2>2 DEF RefresherWaits
  <2>5. \A v \in Updates : v \notin composed' /\ ~InChain(v)'
    BY <1>6, <2>1 DEF RequestSceneUpdate, InChain, rosThread
  <2>6. request_in_flight' = TRUE /\ Live' = {u}
    BY <1>6, <2>2, <2>3, AskedIsLive
  <2>7. ~Watched(u)' /\ ~ComposerWaits(u)'
    BY <2>2, <2>3 DEF Watched, ComposerWaits
  <2> QED
    BY <2>4, <2>5, <2>6, <2>7 DEF ChainInv, Chain
<1>7. ASSUME Watch PROVE ChainInv'
  <2> DEFINE u == qtOn[2]
  <2>1. u \in Live /\ u \in Updates /\ Live' = Live
    BY <1>7 DEF Watch, WorkInv, Live
  <2>2. qt = "watch" /\ qt' = "compose" /\ qtOn' = qtOn /\ UNCHANGED << composed, phase, ros, rosOn >>
    BY <1>7 DEF Watch, QtDoes, rosThread
  <2>3. pending' = [pending EXCEPT ![u] = {s \in Source : phase[<< s, u >>] \notin Done}]
    BY <1>7 DEF Watch
  <2> SUFFICES ASSUME NEW v \in Updates PROVE Chain(v)'
    BY DEF ChainInv
  <2>4. Chain(v) /\ (v \in Live => v = u)
    BY <2>1 DEF ChainInv, LiveInv
  <2>5. InChain(v)' <=> InChain(v)
    BY <2>2 DEF InChain
  <2>6. InChain(v) => v = u
    BY <2>1, <2>4 DEF InChain, WorkInv
  <2>7. ~ComposerWaits(u) /\ u \notin composed /\ ~InChain(u)
    BY <2>1, <2>2 DEF ChainInv, Chain, ComposerWaits
  <2>8. ~ComposerWaits(u)' /\ RefresherWaits(v)' /\ Watched(v)'
    BY <2>2 DEF ComposerWaits, RefresherWaits, Watched
  <2>9. CASE v = u
    BY <2>1, <2>2, <2>3, <2>5, <2>7, <2>8, <2>9 DEF Chain, UpdateOK
  <2>10. CASE v # u
    BY <2>1, <2>2, <2>4, <2>5, <2>6, <2>8, <2>10 DEF Chain
  <2> QED
    BY <2>9, <2>10
<1>8. ASSUME Compose PROVE ChainInv'
  <2> DEFINE u == qtOn[2]
  <2>1. u \in Live /\ u \in Updates /\ Live' = Live
    BY <1>8 DEF Compose, WorkInv, Live
  <2>2. qt = "compose" /\ qt' = "refresh" /\ qtOn' = qtOn /\ UNCHANGED << pending, phase, ros, rosOn >>
    BY <1>8 DEF Compose, QtDoes, rosThread
  <2>3. composed' = IF pending[u] = {} THEN composed \cup {u} ELSE composed
    BY <1>8 DEF Compose
  <2> SUFFICES ASSUME NEW v \in Updates PROVE Chain(v)'
    BY DEF ChainInv
  <2>4. Chain(v) /\ (v \in Live => v = u)
    BY <2>1 DEF ChainInv, LiveInv
  <2>5. InChain(v)' <=> InChain(v)
    BY <2>2 DEF InChain
  <2>6. (InChain(v) => v = u) /\ (ros \in {"show", "post"} => InChain(u))
    BY <2>1, <2>4 DEF InChain, WorkInv, LiveInv
  <2>7. ~ComposerWaits(u) /\ u \notin composed /\ ~InChain(u) /\ Watched(u)
    BY <2>1, <2>2 DEF ChainInv, Chain, ComposerWaits, Watched
  <2>8. ~RefresherWaits(u)' /\ ComposerWaits(v)' /\ Watched(v)'
    BY <2>2 DEF ComposerWaits, RefresherWaits, Watched
  <2>9. CASE v = u
    BY <2>1, <2>2, <2>3, <2>4, <2>5, <2>6, <2>7, <2>8, <2>9 DEF Chain
  <2>10. CASE v # u
    BY <2>1, <2>2, <2>3, <2>4, <2>5, <2>6, <2>7, <2>8, <2>10 DEF Chain
  <2> QED
    BY <2>9, <2>10
<1>9. ASSUME Refresh PROVE ChainInv'
  <2>1. CASE qtOn[2] \in composed
    BY <1>9, <2>1, RefreshAlone, ReleaseEndsChain
    DEF Refresh, Loop, QtDoes, Chained, InCallback, rosThread
  <2>2. CASE qtOn[2] \notin composed
    <3> DEFINE u == qtOn[2]
    <3>1. /\ qt = "refresh" /\ qt' = "loop"
          /\ UNCHANGED << pending, phase, composed, ros, rosOn >>
      BY <1>9, <2>2 DEF Refresh, Loop, QtDoes, update, rosThread
    <3>2. u \in Live /\ Live' = Live
      BY <3>1 DEF WorkInv, Live
    <3> SUFFICES ASSUME NEW v \in Updates PROVE Chain(v)'
      BY DEF ChainInv
    <3>3. Chain(v) /\ (v \in composed => v = u)
      BY <3>2 DEF ChainInv, Chain, LiveInv, Live
    <3>4. InChain(v)' <=> InChain(v)
      BY <3>1 DEF InChain
    <3>5. Watched(v) /\ ComposerWaits(v) /\ Watched(v)' /\ ComposerWaits(v)' /\ RefresherWaits(v)'
      BY <3>1 DEF Watched, ComposerWaits, RefresherWaits
    <3> QED
      BY <2>2, <3>1, <3>2, <3>3, <3>4, <3>5 DEF Chain
  <2> QED
    BY <2>1, <2>2
<1>10. ASSUME HandleEvent PROVE ChainInv'
  BY <1>10, ChainFrame
  DEF HandleEvent, qtThread, window, control, update, rosThread, simulation,
      history, QtKept, RosKept, Chained, InCallback
<1>11. ASSUME Shutdown PROVE ChainInv'
  BY <1>11, ChainFrame
  DEF Shutdown, Leaving, QtDoes, qtThread, window, control, update, rosThread,
      simulation, history, QtKept, RosKept, Chained, InCallback
<1>12. ASSUME Join PROVE ChainInv'
  BY <1>12, ChainFrame
  DEF Join, Leaving, QtDoes, qtThread, window, control, update, rosThread,
      simulation, history, QtKept, RosKept, Chained, InCallback
<1>13. ASSUME RunTask PROVE ChainInv'
  <2>1. UNCHANGED << composed, qt, qtOn >> /\ ros = "idle" /\ tasks # << >>
    BY <1>13 DEF RunTask, qtThread
  <2>2. CASE UNCHANGED << phase, pending, rosThread >>
    BY <2>1, <2>2, ChainFrame DEF rosThread, QtKept, RosKept
  <2>3. CASE CloseOnRosThread
    <3>1. \A u \in Updates : \A s \in Source :
            /\ phase'[<< s, u >>] \in Done <=> phase[<< s, u >>] \in Done
            /\ phase'[<< s, u >>] = "idle" <=> phase[<< s, u >>] = "idle"
      BY <2>3, OpFacts DEF CloseOnRosThread, Done
    <3>2. Live' = Live
      BY <3>1 DEF Live, Source
    <3> QED
      BY <2>1, <2>3, <3>1, <3>2, ChainKept DEF CloseOnRosThread, rosThread, QtKept, RosKept
  <2>4. CASE /\ Head(tasks) \in Op
             /\ phase' = [phase EXCEPT ![Head(tasks)] = "called"]
             /\ UNCHANGED << rosThread, pending >>
    <3>1. "called" \notin Done /\ "queued" \notin Done
      BY DEF Done
    <3> QED
      BY <2>1, <2>4, <3>1, HeadQueued, ReadsNotDone, ChainKept DEF rosThread, QtKept, RosKept
  <2>5. ASSUME Head(tasks) \in Op, NEW outcome \in Done, Complete(Head(tasks), outcome)
        PROVE  ChainInv'
    BY <2>1, <2>5, HeadQueued, ChainCompletes DEF Done
  <2> QED
    BY <1>13, <2>2, <2>3, <2>4, <2>5, TaskCases
<1>14. ASSUME NEW op \in Op, TakeResponse(op) PROVE ChainInv'
  BY <1>14, ChainCompletes DEF TakeResponse, Done, qtThread
<1>15. ASSUME Callback, FinishState PROVE ChainInv'
  <2> DEFINE u == rosOn[2]
  <2>1. u \in Live /\ u \in Updates /\ Live' = Live
    BY <1>15 DEF FinishState, WorkInv, Live
  <2>2. /\ ros = "compose" /\ UNCHANGED << pending, phase, qt, qtOn >>
        /\ composed' = composed \cup {u}
    BY <1>15 DEF Callback, FinishState, qtThread
  <2>3. \/ RefresherWaits(u) /\ ros' = "show" /\ rosOn' = rosOn
        \/ ~RefresherWaits(u) /\ ros' = "idle" /\ rosOn' = Nothing
    BY <1>15 DEF FinishState, Idle, RosDoes
  <2> SUFFICES ASSUME NEW v \in Updates PROVE Chain(v)'
    BY DEF ChainInv
  <2>4. Chain(v) /\ (v \in Live => v = u)
    BY <2>1 DEF ChainInv, LiveInv
  <2>5. InChain(u) /\ pending[u] = {} /\ ComposerWaits(u) /\ Chain(u)
    BY <2>1, <2>2 DEF ChainInv, Chain, InChain
  <2>6. /\ Watched(v)' <=> Watched(v)
        /\ ComposerWaits(v)' <=> ComposerWaits(v)
        /\ RefresherWaits(v)' <=> RefresherWaits(v)
    BY <2>2 DEF Watched, ComposerWaits, RefresherWaits
  <2>7. ~RefresherWaits(v) => v = u
    BY <2>1, <2>4 DEF RefresherWaits, WorkInv, LiveInv
  <2>8. CASE v = u
    BY <2>1, <2>2, <2>3, <2>4, <2>5, <2>6, <2>8 DEF Chain, InChain
  <2>9. CASE v # u
    BY <2>1, <2>2, <2>3, <2>4, <2>5, <2>6, <2>7, <2>9 DEF Chain, InChain
  <2> QED
    BY <2>8, <2>9
<1>16. ASSUME Callback, FinishSceneUpdate PROVE ChainInv'
  <2>1. CASE ros = "show" /\ running
    <3>1. ros' = "post" /\ rosOn' = rosOn /\ UNCHANGED << pending, composed, phase, qt, qtOn >>
      BY <1>16, <2>1 DEF Callback, FinishSceneUpdate, RosDoes, update, qtThread
    <3> SUFFICES ASSUME NEW u \in Updates PROVE Chain(u)'
      BY DEF ChainInv
    <3> QED
      BY <2>1, <3>1 DEF ChainInv, Chain, InChain, Live, Watched, ComposerWaits, RefresherWaits
  <2>2. CASE Release(rosOn[2]) /\ Idle
    BY <1>16, <2>2, FinishAlone, ReleaseEndsChain
    DEF Callback, FinishSceneUpdate, Idle, RosDoes, Chained, InCallback, qtThread
  <2> QED
    BY <1>16, <2>1, <2>2 DEF FinishSceneUpdate
<1>17. ASSUME Callback, FinishCommand PROVE ChainInv'
  BY <1>17, ChainFrame
  DEF FinishCommand, Callback, Told, Idle, RosDoes, qtThread, window, control,
      update, rosThread, simulation, history, QtKept, RosKept, Chained,
      InCallback
<1>18. ASSUME Spin PROVE ChainInv'
  BY <1>18, ChainFrame
  DEF Spin, Unshared, RosDoes, qtThread, window, control, update, rosThread,
      simulation, history, QtKept, RosKept, Chained, InCallback
<1>19. ASSUME ApplyStoredPose PROVE ChainInv'
  BY <1>19, ChainFrame
  DEF ApplyStoredPose, Elsewhere, qtThread, window, control, update,
      rosThread, simulation, history, QtKept, RosKept, Chained, InCallback
<1>20. ASSUME NEW op \in Op, Serve(op) PROVE ChainInv'
  <2>1. /\ phase[op] = "called"
        /\ \E p \in {"served", "refused"} : phase' = [phase EXCEPT ![op] = p]
    BY <1>20 DEF Serve
  <2>2. UNCHANGED << qt, qtOn, ros, rosOn, pending, composed >>
    BY <1>20 DEF Serve, Elsewhere, qtThread, rosThread
  <2>3. /\ Live' = Live
        /\ \A v \in Updates : \A s \in Source :
             phase'[<< s, v >>] \in Done <=> phase[<< s, v >>] \in Done
    BY <2>1, ReadsNotDone DEF Done
  <2> QED
    BY <2>2, <2>3, ChainKept DEF QtKept, RosKept
<1>21. ASSUME ExecutorFails PROVE ChainInv'
  BY <1>21, ChainFrame
  DEF ExecutorFails, Unshared, RosDoes, qtThread, window, control, update,
      rosThread, simulation, history, QtKept, RosKept, Chained, InCallback
<1>22. ASSUME Start PROVE ChainInv'
  BY <1>22, ChainFrame
  DEF Start, Elsewhere, qtThread, window, control, update, rosThread,
      simulation, history, QtKept, RosKept, Chained, InCallback
<1>23. ASSUME GoDown PROVE ChainInv'
  <2>1. \A u \in Updates : \A s \in Source :
          /\ phase'[<< s, u >>] \in Done <=> phase[<< s, u >>] \in Done
          /\ phase'[<< s, u >>] = "idle" <=> phase[<< s, u >>] = "idle"
    BY <1>23, OpFacts DEF GoDown, Done
  <2>2. Live' = Live
    BY <2>1 DEF Live, Source
  <2> QED
    BY <1>23, <2>1, <2>2, ChainKept DEF GoDown, Elsewhere, QtKept, RosKept, qtThread, rosThread
<1>24. ASSUME BehaviorGoesDown PROVE ChainInv'
  <2>1. \E c \in Commands : phase' = [phase EXCEPT ![c] = "lost"]
    BY <1>24 DEF BehaviorGoesDown, ToBehavior
  <2> QED
    BY <1>24, <2>1, ChainKept, ReadsNotDone, OpFacts
    DEF BehaviorGoesDown, Elsewhere, QtKept, RosKept, qtThread, rosThread
<1>25. CASE UNCHANGED vars
  BY <1>25, ChainFrame
  DEF vars, qtThread, window, control, update, rosThread, simulation, history,
      QtKept, RosKept, Chained, InCallback
<1> QED
  BY <1>1, <1>2, <1>3, <1>4, <1>5, <1>6, <1>7, <1>8, <1>9, <1>10, <1>11,
     <1>12, <1>13, <1>14, <1>15, <1>16, <1>17, <1>18, <1>19, <1>20, <1>21,
     <1>22, <1>23, <1>24, <1>25
  DEF Next, Operator, QtThread, RosThread, Servers, Environment, Callback

-----------------------------------------------------------------------------
(* The commands                                                            *)

Reporting == {"report", "tell"}

RegisterKept ==
  \/ qt' = qt /\ qtOn' = qtOn
  \/ qt # "register" /\ qt' # "register"

ReportKept ==
  \/ ros' = ros /\ rosOn' = rosOn
  \/ ros \notin Reporting /\ ros' \notin Reporting

\* Nothing happens to the commands.
LEMMA CommandsKept ==
  ASSUME CommandInv, UNCHANGED << told, performed >>,
         \A c \in Commands : phase'[c] = phase[c],
         RegisterKept, ReportKept
  PROVE  CommandInv'
<1> SUFFICES ASSUME NEW c \in Commands PROVE Honest(c)'
  BY DEF CommandInv
<1>1. Honest(c)
  BY DEF CommandInv
<1>2. Reports(c)' <=> Reports(c)
  BY DEF ReportKept, Reporting, Reports
<1>3. (qt' = "register" /\ qtOn' = c) <=> (qt = "register" /\ qtOn = c)
  BY DEF RegisterKept
<1> QED
  BY <1>1, <1>2, <1>3 DEF Honest

\* What is not done yet is lost, or the state of a read changes.
LEMMA CommandsLost ==
  ASSUME QtOK, CommandInv, UNCHANGED << told, performed, qt, qtOn >>, ReportKept,
         \A c \in Commands : \/ phase'[c] = phase[c]
                             \/ phase[c] \in {"called", "served", "refused"} /\ phase'[c] = "lost"
                             \/ phase[c] = "queued" /\ phase'[c] = "called"
  PROVE  CommandInv'
<1> SUFFICES ASSUME NEW c \in Commands PROVE Honest(c)'
  BY DEF CommandInv
<1>1. Honest(c)
  BY DEF CommandInv
<1>2. Reports(c)' <=> Reports(c)
  BY DEF ReportKept, Reporting, Reports
<1> QED
  BY <1>1, <1>2 DEF Honest, Done

\* A future is completed: a failure of what was not performed, or a success of
\* what was.
LEMMA CommandsComplete ==
  ASSUME QtOK, UpdateOK, CommandInv, NEW op \in Op, NEW outcome \in Done, ros = "idle",
         \/ phase[op] \in {"queued", "refused"} /\ (op \in Commands => outcome = "failed")
         \/ phase[op] = "served" /\ outcome = "ok",
         Complete(op, outcome), UNCHANGED << told, performed, qt, qtOn >>
  PROVE  CommandInv'
<1>1. phase' = [phase EXCEPT ![op] = outcome]
  BY Completion
<1> SUFFICES ASSUME NEW c \in Commands PROVE Honest(c)'
  BY DEF CommandInv
<1>2. Honest(c) /\ ~Reports(c) /\ c \in Op
  BY OpFacts DEF CommandInv, Reports
<1>3. CASE op = c
  <2>1. phase'[c] = outcome
    BY <1>1, <1>2, <1>3 DEF QtOK
  <2>2. Reports(c)' <=> ListenerWaits(c)
    BY <1>3, OpFacts, Completion DEF Reports
  <2>3. told[c] = "nothing"
    BY <1>2, <1>3 DEF Honest, QtOK
  <2>4. outcome \in {"ok", "failed"}
    BY DEF Done
  <2>5. outcome = "ok" <=> c \in performed
    BY <1>2, <1>3, <2>4 DEF Honest
  <2> QED
    BY <1>2, <2>1, <2>2, <2>3, <2>4, <2>5 DEF Honest, ListenerWaits, Done
<1>4. CASE op # c
  <2>1. phase'[c] = phase[c]
    BY <1>1, <1>2, <1>4 DEF QtOK
  <2>2. ~Reports(c)'
    BY <1>2, <1>4, OpFacts, Completion DEF Reports
  <2> QED
    BY <1>2, <2>1, <2>2 DEF Honest
<1> QED
  BY <1>3, <1>4

-----------------------------------------------------------------------------
\* What the operator is told is true.
LEMMA CommandStep == QtOK /\ UpdateOK /\ WorkInv /\ TaskInv /\ CommandInv /\ [Next]_vars => CommandInv'
<1> SUFFICES ASSUME QtOK /\ UpdateOK /\ WorkInv /\ TaskInv /\ CommandInv, [Next]_vars PROVE CommandInv'
  OBVIOUS
<1>1. ASSUME NEW c \in Commands, ThrowFood(c) PROVE CommandInv'
  <2>1. phase[c] = "idle" /\ qt = "loop" /\ UNCHANGED << performed, ros, rosOn >>
    BY <1>1, UnusedIsIdle DEF ThrowFood, Input, rosThread
  <2>2. \/ /\ phase' = [phase EXCEPT ![c] = "queued"]
           /\ qt' = "register" /\ qtOn' = c /\ told' = told
        \/ /\ phase' = [phase EXCEPT ![c] = "failed"]
           /\ UNCHANGED << qt, qtOn >> /\ told' = [told EXCEPT ![c] = "failure"]
    BY <1>1 DEF ThrowFood, Give, Refuse, QtDoes, qtThread
  <2> SUFFICES ASSUME NEW d \in Commands PROVE Honest(d)'
    BY DEF CommandInv
  <2>3. Honest(d) /\ (Reports(d)' <=> Reports(d)) /\ d \in Op
    BY <2>1, OpFacts DEF CommandInv, Reports
  <2>4. CASE d # c
    BY <2>1, <2>2, <2>3, <2>4 DEF Honest, QtOK
  <2>5. CASE d = c
    <3>1. told[c] = "nothing" /\ c \notin performed /\ ~Reports(c)
      BY <2>1, <2>3, <2>5 DEF Honest, QtOK, Done
    <3> QED
      BY <2>1, <2>2, <2>3, <2>5, <3>1 DEF Honest, QtOK, Done
  <2> QED
    BY <2>4, <2>5
<1>2. ASSUME NEW c \in Commands, RequestFood(c) PROVE CommandInv'
  <2>1. phase[c] = "idle" /\ qt = "loop" /\ UNCHANGED << performed, ros, rosOn >>
    BY <1>2, UnusedIsIdle DEF RequestFood, Input, rosThread
  <2>2. /\ phase' = [phase EXCEPT ![c] = "queued"]
        /\ qt' = "register" /\ qtOn' = c /\ told' = told
    BY <1>2 DEF RequestFood, Give, QtDoes, qtThread
  <2> SUFFICES ASSUME NEW d \in Commands PROVE Honest(d)'
    BY DEF CommandInv
  <2>3. Honest(d) /\ (Reports(d)' <=> Reports(d)) /\ d \in Op
    BY <2>1, OpFacts DEF CommandInv, Reports
  <2>4. CASE d # c
    BY <2>1, <2>2, <2>3, <2>4 DEF Honest, QtOK
  <2>5. CASE d = c
    <3>1. told[c] = "nothing" /\ c \notin performed /\ ~Reports(c)
      BY <2>1, <2>3, <2>5 DEF Honest, QtOK, Done
    <3> QED
      BY <2>1, <2>2, <2>3, <2>5, <3>1 DEF Honest, QtOK, Done
  <2> QED
    BY <2>4, <2>5
<1>3. ASSUME NEW c \in Commands, NEW e \in Steps, Move(c, e) PROVE CommandInv'
  <2>1. phase[c] = "idle" /\ qt = "loop" /\ UNCHANGED << performed, ros, rosOn >>
    BY <1>3, UnusedIsIdle DEF Move, Input, rosThread
  <2>2. /\ phase' = [phase EXCEPT ![c] = "queued"]
        /\ qt' = "register" /\ qtOn' = c /\ told' = told
    BY <1>3 DEF Move, Give, QtDoes, qtThread
  <2> SUFFICES ASSUME NEW d \in Commands PROVE Honest(d)'
    BY DEF CommandInv
  <2>3. Honest(d) /\ (Reports(d)' <=> Reports(d)) /\ d \in Op
    BY <2>1, OpFacts DEF CommandInv, Reports
  <2>4. CASE d # c
    BY <2>1, <2>2, <2>3, <2>4 DEF Honest, QtOK
  <2>5. CASE d = c
    <3>1. told[c] = "nothing" /\ c \notin performed /\ ~Reports(c)
      BY <2>1, <2>3, <2>5 DEF Honest, QtOK, Done
    <3> QED
      BY <2>1, <2>2, <2>3, <2>5, <3>1 DEF Honest, QtOK, Done
  <2> QED
    BY <2>4, <2>5
<1>4. ASSUME Quit PROVE CommandInv'
  BY <1>4, CommandsKept
  DEF Quit, Leaving, Submit, QtDoes, qtThread, window, control, update,
      rosThread, simulation, history, RegisterKept, ReportKept, Reporting
<1>5. ASSUME Register PROVE CommandInv'
  <2>1. qtOn \in Commands /\ qt = "register" /\ qt' = "loop"
        /\ UNCHANGED << performed, phase, ros, rosOn >>
    BY <1>5 DEF Register, WorkInv, Loop, QtDoes, rosThread
  <2>2. \/ phase[qtOn] \in Done /\ Told(qtOn)
        \/ phase[qtOn] \notin Done /\ UNCHANGED told
    BY <1>5 DEF Register
  <2> SUFFICES ASSUME NEW c \in Commands PROVE Honest(c)'
    BY DEF CommandInv
  <2>3. Honest(c) /\ (Reports(c)' <=> Reports(c))
    BY <2>1 DEF CommandInv, Reports
  <2> QED
    BY <2>1, <2>2, <2>3 DEF Honest, Told, QtOK, Done
<1>6. ASSUME RequestSceneUpdate PROVE CommandInv'
  <2>1. PICK u \in Updates :
           /\ phase' = [op \in Op |-> IF op \in Source \X {u} THEN "queued" ELSE phase[op]]
           /\ qt' = "watch"
    BY <1>6, FreeUpdate
  <2>2. \A c \in Commands : phase'[c] = phase[c]
    BY <2>1, OpFacts
  <2> QED
    BY <1>6, <2>1, <2>2, CommandsKept
    DEF RequestSceneUpdate, Input, RegisterKept, ReportKept, history, rosThread
<1>7. ASSUME Watch PROVE CommandInv'
  BY <1>7, CommandsKept
  DEF Watch, QtDoes, qtThread, window, control, update, rosThread, simulation,
      history, RegisterKept, ReportKept, Reporting
<1>8. ASSUME Compose PROVE CommandInv'
  BY <1>8, CommandsKept
  DEF Compose, QtDoes, qtThread, window, control, update, rosThread,
      simulation, history, RegisterKept, ReportKept, Reporting
<1>9. ASSUME Refresh PROVE CommandInv'
  <2>1. \A c \in Commands : phase'[c] = phase[c]
    <3>1. CASE UNCHANGED phase
      BY <3>1
    <3>2. ASSUME NEW u \in Updates, Release(u) PROVE \A c \in Commands : phase'[c] = phase[c]
      BY <3>2, OpFacts DEF Release
    <3> QED
      BY <1>9, <3>1, <3>2 DEF Refresh, WorkInv, Live
  <2> QED
    BY <1>9, <2>1, CommandsKept DEF Refresh, Loop, QtDoes, RegisterKept, ReportKept, history, rosThread
<1>10. ASSUME HandleEvent PROVE CommandInv'
  BY <1>10, CommandsKept
  DEF HandleEvent, qtThread, window, control, update, rosThread, simulation,
      history, RegisterKept, ReportKept, Reporting
<1>11. ASSUME Shutdown PROVE CommandInv'
  BY <1>11, CommandsKept
  DEF Shutdown, Leaving, QtDoes, qtThread, window, control, update, rosThread,
      simulation, history, RegisterKept, ReportKept, Reporting
<1>12. ASSUME Join PROVE CommandInv'
  BY <1>12, CommandsKept
  DEF Join, Leaving, QtDoes, qtThread, window, control, update, rosThread,
      simulation, history, RegisterKept, ReportKept, Reporting
<1>13. ASSUME RunTask PROVE CommandInv'
  <2>1. UNCHANGED << told, performed, qt, qtOn >> /\ ros = "idle" /\ tasks # << >>
    BY <1>13 DEF RunTask, qtThread, history
  <2>2. CASE UNCHANGED << phase, rosThread >>
    BY <2>1, <2>2, CommandsKept DEF rosThread, RegisterKept, ReportKept
  <2>3. CASE CloseOnRosThread
    <3>1. \A c \in Commands : \/ phase'[c] = phase[c]
                              \/ phase[c] \in {"called", "served", "refused"} /\ phase'[c] = "lost"
      BY <2>3, OpFacts DEF CloseOnRosThread
    <3> QED
      BY <2>1, <2>3, <3>1, CommandsLost DEF CloseOnRosThread, rosThread, ReportKept
  <2>4. CASE /\ Head(tasks) \in Op
             /\ phase' = [phase EXCEPT ![Head(tasks)] = "called"]
             /\ UNCHANGED rosThread
    <3>1. \A c \in Commands : \/ phase'[c] = phase[c]
                              \/ phase[c] = "queued" /\ phase'[c] = "called"
      BY <2>1, <2>4, HeadQueued, OpFacts DEF QtOK
    <3> QED
      BY <2>1, <2>4, <3>1, CommandsLost DEF rosThread, ReportKept
  <2>5. ASSUME Head(tasks) \in Op, NEW outcome \in Done, Complete(Head(tasks), outcome),
               Head(tasks) \in Commands => outcome = "failed"
        PROVE  CommandInv'
    BY <2>1, <2>5, HeadQueued, CommandsComplete
  <2> QED
    BY <1>13, <2>2, <2>3, <2>4, <2>5, TaskCases
<1>14. ASSUME NEW op \in Op, TakeResponse(op) PROVE CommandInv'
  <2>1. PICK outcome \in Done :
           /\ Complete(op, outcome)
           /\ \/ phase[op] = "served" /\ outcome = "ok"
              \/ phase[op] = "refused" /\ outcome = "failed"
    BY <1>14 DEF TakeResponse, Done
  <2> QED
    BY <1>14, <2>1, CommandsComplete DEF TakeResponse, qtThread, history
<1>15. ASSUME Callback, FinishState PROVE CommandInv'
  BY <1>15, CommandsKept
  DEF FinishState, Callback, Idle, RosDoes, qtThread, window, control, update,
      rosThread, simulation, history, RegisterKept, ReportKept, Reporting
<1>16. ASSUME Callback, FinishSceneUpdate PROVE CommandInv'
  <2>1. \A c \in Commands : phase'[c] = phase[c]
    <3>1. CASE UNCHANGED phase
      BY <3>1
    <3>2. ASSUME NEW u \in Updates, Release(u) PROVE \A c \in Commands : phase'[c] = phase[c]
      BY <3>2, OpFacts DEF Release
    <3> QED
      BY <1>16, <3>1, <3>2 DEF FinishSceneUpdate, WorkInv, Live
  <2> QED
    BY <1>16, <2>1, CommandsKept
    DEF Callback, FinishSceneUpdate, Idle, RosDoes, RegisterKept, ReportKept, Reporting, qtThread
<1>17. ASSUME Callback, FinishCommand PROVE CommandInv'
  <2>1. ros \in Reporting /\ rosOn \in Commands /\ UNCHANGED << performed, phase, qt, qtOn >>
    BY <1>17 DEF Callback, FinishCommand, WorkInv, Reporting, qtThread
  <2>2. \/ ros' = "tell" /\ rosOn' = rosOn /\ UNCHANGED told
        \/ ros' = "idle" /\ rosOn' = Nothing /\ UNCHANGED told
        \/ ros' = "idle" /\ rosOn' = Nothing /\ Told(rosOn)
    BY <1>17 DEF FinishCommand, Idle, RosDoes
  <2> SUFFICES ASSUME NEW c \in Commands PROVE Honest(c)'
    BY DEF CommandInv
  <2>3. Honest(c) /\ Honest(rosOn) /\ (Reports(c) <=> c = rosOn)
    BY <2>1 DEF CommandInv, Reports, Reporting
  <2>4. CASE ros' = "tell" /\ rosOn' = rosOn /\ UNCHANGED told
    BY <2>1, <2>3, <2>4 DEF Honest, Reports
  <2>5. CASE ros' = "idle" /\ UNCHANGED told
    BY <2>1, <2>3, <2>5 DEF Honest, Reports
  <2>6. CASE ros' = "idle" /\ Told(rosOn)
    BY <2>1, <2>3, <2>6 DEF Honest, Reports, Told, QtOK, Done
  <2> QED
    BY <2>2, <2>4, <2>5, <2>6
<1>18. ASSUME Spin PROVE CommandInv'
  BY <1>18, CommandsKept
  DEF Spin, Unshared, RosDoes, qtThread, window, control, update, rosThread,
      simulation, history, RegisterKept, ReportKept, Reporting
<1>19. ASSUME ApplyStoredPose PROVE CommandInv'
  BY <1>19, CommandsKept
  DEF ApplyStoredPose, Elsewhere, qtThread, window, control, update,
      rosThread, simulation, history, RegisterKept, ReportKept, Reporting
<1>20. ASSUME NEW op \in Op, Serve(op) PROVE CommandInv'
  <2>1. PICK answer \in {"served", "refused"} :
           /\ phase' = [phase EXCEPT ![op] = answer]
           /\ performed' = IF answer = "served" /\ op \in Commands
                           THEN performed \cup {op} ELSE performed
    BY <1>20 DEF Serve
  <2>2. phase[op] = "called" /\ UNCHANGED << told, qt, qtOn, ros, rosOn >>
    BY <1>20 DEF Serve, Elsewhere, qtThread, rosThread
  <2> SUFFICES ASSUME NEW c \in Commands PROVE Honest(c)'
    BY DEF CommandInv
  <2>3. Honest(c) /\ (Reports(c)' <=> Reports(c)) /\ c \in Op
    BY <2>2, OpFacts DEF CommandInv, Reports
  <2>4. CASE c # op
    BY <2>1, <2>2, <2>3, <2>4 DEF Honest, QtOK
  <2>5. CASE c = op
    BY <2>1, <2>2, <2>3, <2>5 DEF Honest, QtOK, Done
  <2> QED
    BY <2>4, <2>5
<1>21. ASSUME ExecutorFails PROVE CommandInv'
  BY <1>21, CommandsKept
  DEF ExecutorFails, Unshared, RosDoes, qtThread, window, control, update,
      rosThread, simulation, history, RegisterKept, ReportKept, Reporting
<1>22. ASSUME Start PROVE CommandInv'
  BY <1>22, CommandsKept
  DEF Start, Elsewhere, qtThread, window, control, update, rosThread,
      simulation, history, RegisterKept, ReportKept, Reporting
<1>23. ASSUME GoDown PROVE CommandInv'
  <2>1. \A c \in Commands : \/ phase'[c] = phase[c]
                            \/ phase[c] \in {"called", "served", "refused"} /\ phase'[c] = "lost"
    BY <1>23, OpFacts DEF GoDown, QtOK
  <2> QED
    BY <1>23, <2>1, CommandsLost DEF GoDown, Elsewhere, ReportKept, qtThread, rosThread
<1>24. ASSUME BehaviorGoesDown PROVE CommandInv'
  <2>1. \A c \in Commands : \/ phase'[c] = phase[c]
                            \/ phase[c] \in {"called", "served", "refused"} /\ phase'[c] = "lost"
    BY <1>24, OpFacts DEF BehaviorGoesDown, QtOK
  <2> QED
    BY <1>24, <2>1, CommandsLost DEF BehaviorGoesDown, Elsewhere, ReportKept, qtThread, rosThread
<1>25. CASE UNCHANGED vars
  BY <1>25, CommandsKept
  DEF vars, qtThread, window, control, update, rosThread, simulation, history,
      RegisterKept, ReportKept, Reporting
<1> QED
  BY <1>1, <1>2, <1>3, <1>4, <1>5, <1>6, <1>7, <1>8, <1>9, <1>10, <1>11,
     <1>12, <1>13, <1>14, <1>15, <1>16, <1>17, <1>18, <1>19, <1>20, <1>21,
     <1>22, <1>23, <1>24, <1>25
  DEF Next, Operator, QtThread, RosThread, Servers, Environment, Callback

-----------------------------------------------------------------------------
(* The theorems                                                            *)

\* The invariant holds initially.
LEMMA InitInv == Init => IInv
<1> SUFFICES ASSUME Init PROVE IInv
  OBVIOUS
<1>1. Live = {} /\ \A op \in Op : phase[op] = "idle"
  BY OpFacts DEF Init, Live, Source
<1>2. FlagsOK
  BY Zenon DEF Init, FlagsOK
<1>3. QtOK /\ UpdateOK /\ NumbersOK
  BY BoundsAssumption
  DEF Init, QtOK, UpdateOK, NumbersOK, AtMostOne, QtWork, RosWork, Phases
<1>4. TaskInv
  BY OpFacts DEF Init, TaskInv
<1>5. LiveInv
  BY <1>1, OpFacts DEF Init, LiveInv
<1>6. ChainInv
  BY <1>1 DEF Init, ChainInv, Chain, InChain, ComposerWaits, RefresherWaits
<1>7. WorkInv
  <2>1. running = TRUE /\ qt = "loop" /\ ros = "idle"
    BY DEF Init
  <2> QED
    BY <2>1 DEF WorkInv
<1>8. CommandInv
  BY <1>1, OpFacts DEF Init, CommandInv, Honest, Reports
<1> QED
  BY <1>2, <1>3, <1>4, <1>5, <1>6, <1>7, <1>8 DEF IInv

\* The inductive invariant holds in every reachable state.
THEOREM GuiInvariant == Spec => []IInv
<1>1. IInv /\ [Next]_vars => IInv'
  BY FlagsStep, QtStep, UpdateStep, NumbersStep, WorkStep, TaskStep, LiveStep,
     ChainStep, CommandStep
  DEF IInv
<1> QED
  BY InitInv, <1>1, PTL DEF Spec

\* Every variable keeps its type: in particular the panel never has two positions,
\* and no thread works on what is not there.
THEOREM TypeCorrect == Spec => []TypeOK
<1>1. IInv => TypeOK
  <2> SUFFICES ASSUME IInv PROVE TypeOK
    OBVIOUS
  <2> QED
    BY Zenon DEF IInv, FlagsOK, QtOK, UpdateOK, NumbersOK, TypeOK
<1> QED
  BY GuiInvariant, <1>1, PTL

\* There is never more than one scene update, and what is left of it to do is with
\* somebody, wherever the Qt thread and the callbacks meet.
THEOREM OneUpdate == Spec => []OneUpdateInFlight
<1>1. IInv => OneUpdateInFlight
  <2> SUFFICES ASSUME IInv, NEW u \in Live PROVE Finishes(u)
    BY DEF IInv, LiveInv, OneUpdateInFlight
  <2>1. /\ Chain(u) /\ u \in Updates
        /\ \A s \in Source : phase[<< s, u >>] # "idle" /\ phase[<< s, u >>] \in Phases
    BY OpFacts DEF IInv, ChainInv, LiveInv, QtOK, Live
  <2>2. CASE ~ComposerWaits(u) \/ ~RefresherWaits(u)
    BY <2>2 DEF Finishes, ComposerWaits, RefresherWaits
  <2>3. CASE ComposerWaits(u) /\ RefresherWaits(u) /\ pending[u] = {}
    BY <2>1, <2>3 DEF Chain, InChain, Finishes
  <2>4. CASE ComposerWaits(u) /\ pending[u] # {}
    <3>1. Watched(u)
      BY <2>4 DEF Watched, ComposerWaits
    <3>2. \E s \in Source : phase[<< s, u >>] \notin Done
      BY <2>1, <2>4, <3>1 DEF Chain
    <3> QED
      BY <2>1, <3>2 DEF Finishes, Phases, Done
  <2> QED
    BY <2>2, <2>3, <2>4
<1> QED
  BY GuiInvariant, <1>1, PTL

\* Once the window is closed, nothing new is posted to it or reported.
THEOREM QuietWhenStopped == Spec => QuietAfterStop
<1> DEFINE Quiet == ~running /\ ros \notin {"post", "tell"}
                      => UNCHANGED << events, told >> /\ ros' \notin {"post", "tell"}
<1>1. IInv /\ [Next]_vars => [Quiet]_vars
  <2> SUFFICES ASSUME IInv, Next, ~running, ros \notin {"post", "tell"}
               PROVE  UNCHANGED << events, told >> /\ ros' \notin {"post", "tell"}
    OBVIOUS
  <2>1. qt \in {"await", "join", "ended"}
    BY DEF IInv, WorkInv
  <2>2. ASSUME Operator \/ QtThread PROVE UNCHANGED << events, told, ros >>
    BY <2>1, <2>2
    DEF Operator, QtThread, ThrowFood, RequestFood, Move, Quit, Register,
        RequestSceneUpdate, Watch, Compose, Refresh, HandleEvent, Shutdown, Join,
        Input, Leaving, window, history, rosThread
  <2>3. ASSUME RunTask PROVE UNCHANGED << events, told >> /\ ros' \notin {"post", "tell"}
    BY <2>3, TaskCases, Completion
    DEF RunTask, CloseOnRosThread, rosThread, window, history, IInv
  <2>4. ASSUME NEW op \in Op, TakeResponse(op)
        PROVE  UNCHANGED << events, told >> /\ ros' \notin {"post", "tell"}
    <3>1. \E outcome \in Done : Complete(op, outcome)
      BY <2>4 DEF TakeResponse, Done
    <3>2. ros' \in {"idle", "report", "compose"}
      BY <3>1, Completion DEF IInv
    <3> QED
      BY <2>4, <3>2 DEF TakeResponse, window, history
  <2>5. ASSUME Callback PROVE UNCHANGED << events, told >> /\ ros' \notin {"post", "tell"}
    BY <2>5
    DEF Callback, FinishState, FinishSceneUpdate, FinishCommand, Release, Idle, RosDoes
  <2>6. ASSUME Spin \/ ExecutorFails
        PROVE  UNCHANGED << events, told >> /\ ros' \notin {"post", "tell"}
    BY <2>6 DEF Spin, ExecutorFails, RosDoes, Unshared, window, history
  <2>7. ASSUME Servers \/ Start \/ GoDown \/ BehaviorGoesDown
        PROVE  UNCHANGED << events, told, ros >>
    BY <2>7
    DEF Servers, ApplyStoredPose, Serve, Start, GoDown, BehaviorGoesDown, Elsewhere,
        window, rosThread
  <2> QED
    BY <2>2, <2>3, <2>4, <2>5, <2>6, <2>7 DEF Next, RosThread, Environment
<1> QED
  BY GuiInvariant, <1>1, PTL DEF Spec, QuietAfterStop

-----------------------------------------------------------------------------
(* The commands as the operator sees them                                  *)

Given == {c \in Commands : phase[c] # "idle"}

\* Nothing of a command changes that the operator can see.
LEMMA NothingSeen ==
  ASSUME UNCHANGED << performed, told >>,
         \A c \in Commands : phase'[c] = "idle" <=> phase[c] = "idle"
  PROVE  UNCHANGED Service!vars
BY DEF Service!vars

\* A future that changes its state was that of a command already given.
LEMMA SetNotIdle ==
  ASSUME QtOK, NEW op \in Op, NEW p, phase[op] # "idle", p # "idle",
         phase' = [phase EXCEPT ![op] = p]
  PROVE  \A c \in Commands : phase'[c] = "idle" <=> phase[c] = "idle"
BY OpFacts DEF QtOK

\* The operator is told what is true.
LEMMA ToldTruly ==
  ASSUME CommandInv, NEW c \in Commands, phase[c] \in Done, told[c] = "nothing", Told(c),
         UNCHANGED << phase, performed >>
  PROVE  Service!Next
<1>1. Honest(c) /\ c \in Given
  BY DEF CommandInv, Given, Done
<1>2. phase[c] = "ok" <=> c \in performed
  BY <1>1 DEF Honest, Done
<1>3. \E w \in {"success", "failure"} : Service!Tell(c, w)
  BY <1>1, <1>2 DEF Service!Tell, Told, Given
<1> QED
  BY <1>3 DEF Service!Next

-----------------------------------------------------------------------------
\* Every step is one that the command service may do, or one that nobody sees.
LEMMA ServiceStep == QtOK /\ UpdateOK /\ WorkInv /\ TaskInv /\ CommandInv /\ [Next]_vars => [Service!Next]_(Service!vars)
<1> SUFFICES ASSUME QtOK /\ UpdateOK /\ WorkInv /\ TaskInv /\ CommandInv, [Next]_vars PROVE [Service!Next]_(Service!vars)
  OBVIOUS
<1>1. ASSUME NEW c \in Commands, ThrowFood(c) PROVE [Service!Next]_(Service!vars)
  <2>1. phase[c] = "idle" /\ c \in Op /\ UNCHANGED performed
    BY <1>1, UnusedIsIdle, OpFacts DEF ThrowFood
  <2>2. CASE Give(c)
    <3>1. Given' = Given \cup {c}
      BY <2>1, <2>2, OpFacts DEF Give, Given, QtOK
    <3>2. Service!Give(c)
      BY <2>1, <2>2, <3>1 DEF Give, Given, Service!Give
    <3> QED
      BY <3>2 DEF Service!Next
  <2>3. CASE Refuse(c)
    <3>1. Given' = Given \cup {c}
      BY <2>1, <2>3, OpFacts DEF Refuse, Given, QtOK
    <3>2. Service!Refuse(c)
      BY <2>1, <2>3, <3>1 DEF Refuse, Given, Service!Refuse
    <3> QED
      BY <3>2 DEF Service!Next
  <2> QED
    BY <1>1, <2>2, <2>3 DEF ThrowFood
<1>2. ASSUME NEW c \in Commands, RequestFood(c) PROVE [Service!Next]_(Service!vars)
  <2>1. phase[c] = "idle" /\ c \in Op /\ UNCHANGED performed /\ Give(c)
    BY <1>2, UnusedIsIdle, OpFacts DEF RequestFood
  <2>2. Given' = Given \cup {c}
    BY <2>1, OpFacts DEF Give, Given, QtOK
  <2>3. Service!Give(c)
    BY <2>1, <2>2 DEF Give, Given, Service!Give
  <2> QED
    BY <2>3 DEF Service!Next
<1>3. ASSUME NEW c \in Commands, NEW d \in Steps, Move(c, d) PROVE [Service!Next]_(Service!vars)
  <2>1. phase[c] = "idle" /\ c \in Op /\ UNCHANGED performed /\ Give(c)
    BY <1>3, UnusedIsIdle, OpFacts DEF Move
  <2>2. Given' = Given \cup {c}
    BY <2>1, OpFacts DEF Give, Given, QtOK
  <2>3. Service!Give(c)
    BY <2>1, <2>2 DEF Give, Given, Service!Give
  <2> QED
    BY <2>3 DEF Service!Next
<1>4. ASSUME Quit PROVE [Service!Next]_(Service!vars)
  BY <1>4, NothingSeen
  DEF Quit, Leaving, Submit, QtDoes, qtThread, window, control, update,
      rosThread, simulation, history
<1>5. ASSUME Register PROVE [Service!Next]_(Service!vars)
  <2>1. CASE phase[qtOn] \in Done
    <3>1. qtOn \in Commands /\ told[qtOn] = "nothing" /\ Told(qtOn)
      BY <1>5, <2>1 DEF Register, WorkInv, CommandInv, Honest
    <3> QED
      BY <1>5, <2>1, <3>1, ToldTruly DEF Register
  <2>2. CASE phase[qtOn] \notin Done
    BY <1>5, <2>2, NothingSeen DEF Register
  <2> QED
    BY <2>1, <2>2
<1>6. ASSUME RequestSceneUpdate PROVE [Service!Next]_(Service!vars)
  <2>1. \A c \in Commands : phase'[c] = phase[c]
    <3>1. PICK u \in Updates :
             phase' = [op \in Op |-> IF op \in Source \X {u} THEN "queued" ELSE phase[op]]
      BY <1>6, FreeUpdate
    <3> QED
      BY <3>1, OpFacts
  <2> QED
    BY <1>6, <2>1, NothingSeen DEF RequestSceneUpdate, history
<1>7. ASSUME Watch PROVE [Service!Next]_(Service!vars)
  BY <1>7, NothingSeen
  DEF Watch, QtDoes, qtThread, window, control, update, rosThread, simulation,
      history
<1>8. ASSUME Compose PROVE [Service!Next]_(Service!vars)
  BY <1>8, NothingSeen
  DEF Compose, QtDoes, qtThread, window, control, update, rosThread,
      simulation, history
<1>9. ASSUME Refresh PROVE [Service!Next]_(Service!vars)
  <2>1. \A c \in Commands : phase'[c] = phase[c]
    <3>1. CASE UNCHANGED phase
      BY <3>1
    <3>2. ASSUME NEW u \in Updates, Release(u) PROVE \A c \in Commands : phase'[c] = phase[c]
      BY <3>2, OpFacts DEF Release
    <3> QED
      BY <1>9, <3>1, <3>2 DEF Refresh, WorkInv, Live
  <2> QED
    BY <1>9, <2>1, NothingSeen DEF Refresh, history
<1>10. ASSUME HandleEvent PROVE [Service!Next]_(Service!vars)
  BY <1>10, NothingSeen
  DEF HandleEvent, qtThread, window, control, update, rosThread, simulation,
      history
<1>11. ASSUME Shutdown PROVE [Service!Next]_(Service!vars)
  BY <1>11, NothingSeen
  DEF Shutdown, Leaving, QtDoes, qtThread, window, control, update, rosThread,
      simulation, history
<1>12. ASSUME Join PROVE [Service!Next]_(Service!vars)
  BY <1>12, NothingSeen
  DEF Join, Leaving, QtDoes, qtThread, window, control, update, rosThread,
      simulation, history
<1>13. ASSUME RunTask PROVE [Service!Next]_(Service!vars)
  <2>1. UNCHANGED << told, performed >> /\ tasks # << >>
    BY <1>13 DEF RunTask, history
  <2>2. CASE UNCHANGED phase
    BY <2>1, <2>2, NothingSeen
  <2>3. CASE CloseOnRosThread
    BY <2>1, <2>3, NothingSeen, OpFacts DEF CloseOnRosThread
  <2>4. CASE /\ Head(tasks) \in Op
             /\ \E p \in Done \cup {"called"} : phase' = [phase EXCEPT ![Head(tasks)] = p]
    <3>1. phase[Head(tasks)] # "idle"
      BY <2>1, <2>4, HeadQueued
    <3> QED
      BY <2>1, <2>4, <3>1, SetNotIdle, NothingSeen DEF Done
  <2> QED
    BY <1>13, <2>2, <2>3, <2>4, TaskCases, Completion
<1>14. ASSUME NEW op \in Op, TakeResponse(op) PROVE [Service!Next]_(Service!vars)
  <2>1. PICK outcome \in Done : Complete(op, outcome)
    BY <1>14 DEF TakeResponse, Done
  <2>2. phase' = [phase EXCEPT ![op] = outcome] /\ phase[op] # "idle" /\ outcome # "idle"
    BY <1>14, <2>1, Completion DEF TakeResponse, Done
  <2> QED
    BY <1>14, <2>2, SetNotIdle, NothingSeen DEF TakeResponse, history
<1>15. ASSUME Callback, FinishState PROVE [Service!Next]_(Service!vars)
  BY <1>15, NothingSeen
  DEF FinishState, Callback, Idle, RosDoes, qtThread, window, control, update,
      rosThread, simulation, history
<1>16. ASSUME Callback, FinishSceneUpdate PROVE [Service!Next]_(Service!vars)
  <2>1. \A c \in Commands : phase'[c] = phase[c]
    <3>1. CASE UNCHANGED phase
      BY <3>1
    <3>2. ASSUME NEW u \in Updates, Release(u) PROVE \A c \in Commands : phase'[c] = phase[c]
      BY <3>2, OpFacts DEF Release
    <3> QED
      BY <1>16, <3>1, <3>2 DEF FinishSceneUpdate, WorkInv, Live
  <2> QED
    BY <1>16, <2>1, NothingSeen DEF Callback, FinishSceneUpdate
<1>17. ASSUME Callback, FinishCommand PROVE [Service!Next]_(Service!vars)
  <2>1. rosOn \in Commands /\ UNCHANGED << performed, phase >> /\ Reports(rosOn)
    BY <1>17 DEF Callback, FinishCommand, WorkInv, Reports
  <2>2. told[rosOn] = "nothing" /\ phase[rosOn] \in Done
    BY <2>1 DEF CommandInv, Honest
  <2>3. CASE UNCHANGED told
    BY <2>1, <2>3, NothingSeen
  <2>4. CASE Told(rosOn)
    BY <2>1, <2>2, <2>4, ToldTruly
  <2> QED
    BY <1>17, <2>3, <2>4 DEF FinishCommand
<1>18. ASSUME Spin PROVE [Service!Next]_(Service!vars)
  BY <1>18, NothingSeen
  DEF Spin, Unshared, RosDoes, qtThread, window, control, update, rosThread,
      simulation, history
<1>19. ASSUME ApplyStoredPose PROVE [Service!Next]_(Service!vars)
  BY <1>19, NothingSeen
  DEF ApplyStoredPose, Elsewhere, qtThread, window, control, update,
      rosThread, simulation, history
<1>20. ASSUME NEW op \in Op, Serve(op) PROVE [Service!Next]_(Service!vars)
  <2>1. PICK answer \in {"served", "refused"} :
           /\ phase' = [phase EXCEPT ![op] = answer]
           /\ performed' = IF answer = "served" /\ op \in Commands
                           THEN performed \cup {op} ELSE performed
    BY <1>20 DEF Serve
  <2>2. phase[op] = "called" /\ UNCHANGED told
    BY <1>20 DEF Serve, Elsewhere
  <2>3. \A c \in Commands : phase'[c] = "idle" <=> phase[c] = "idle"
    BY <2>1, <2>2, SetNotIdle
  <2>4. CASE answer = "served" /\ op \in Commands
    <3>1. Honest(op)
      BY <2>4 DEF CommandInv
    <3>2. op \in Given /\ op \notin performed /\ told[op] = "nothing"
      BY <2>2, <2>4, <3>1 DEF Honest, Given, QtOK
    <3>3. Service!Perform(op)
      BY <2>1, <2>2, <2>3, <2>4, <3>2 DEF Service!Perform, Given
    <3> QED
      BY <2>4, <3>3 DEF Service!Next
  <2>5. CASE UNCHANGED performed
    BY <2>2, <2>3, <2>5, NothingSeen
  <2> QED
    BY <2>1, <2>4, <2>5
<1>21. ASSUME ExecutorFails PROVE [Service!Next]_(Service!vars)
  BY <1>21, NothingSeen
  DEF ExecutorFails, Unshared, RosDoes, qtThread, window, control, update,
      rosThread, simulation, history
<1>22. ASSUME Start PROVE [Service!Next]_(Service!vars)
  BY <1>22, NothingSeen
  DEF Start, Elsewhere, qtThread, window, control, update, rosThread,
      simulation, history
<1>23. ASSUME GoDown PROVE [Service!Next]_(Service!vars)
  <2>1. \A c \in Commands : phase'[c] = "idle" <=> phase[c] = "idle"
    BY <1>23, OpFacts DEF GoDown, QtOK
  <2> QED
    BY <1>23, <2>1, NothingSeen DEF GoDown, Elsewhere
<1>24. ASSUME BehaviorGoesDown PROVE [Service!Next]_(Service!vars)
  <2>1. \A c \in Commands : phase'[c] = "idle" <=> phase[c] = "idle"
    BY <1>24, OpFacts DEF BehaviorGoesDown, QtOK
  <2> QED
    BY <1>24, <2>1, NothingSeen DEF BehaviorGoesDown, Elsewhere
<1>25. CASE UNCHANGED vars
  BY <1>25, NothingSeen
  DEF vars, qtThread, window, control, update, rosThread, simulation, history
<1> QED
  BY <1>1, <1>2, <1>3, <1>4, <1>5, <1>6, <1>7, <1>8, <1>9, <1>10, <1>11,
     <1>12, <1>13, <1>14, <1>15, <1>16, <1>17, <1>18, <1>19, <1>20, <1>21,
     <1>22, <1>23, <1>24, <1>25
  DEF Next, Operator, QtThread, RosThread, Servers, Environment, Callback

\* The GUI implements the command service: success is reported of what was done, a
\* failure of what was not and never will be, and each once.
THEOREM GuiImplementsCommandService == Spec => CommandsHonest
<1>1. Init => Service!Init
  <2> SUFFICES ASSUME Init PROVE Service!Init
    OBVIOUS
  <2>1. \A c \in Commands : phase[c] = "idle"
    BY OpFacts DEF Init
  <2> QED
    BY <2>1 DEF Init, Service!Init
<1>2. IInv /\ [Next]_vars => [Service!Next]_(Service!vars)
  BY ServiceStep DEF IInv
<1> QED
  BY <1>1, <1>2, GuiInvariant, PTL DEF Spec, CommandsHonest, Service!Spec
==============================================================================
