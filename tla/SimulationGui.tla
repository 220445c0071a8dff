---------------------------- MODULE SimulationGui ----------------------------
(***************************************************************************)
(* simulation_interface_gui: the Qt thread with its window, the ROS thread *)
(* with its executor, the futures between them, and the shutdown.          *)
(*                                                                         *)
(* An operation is << kind, number >>: a command of the operator, or one of*)
(* the three reads of a scene update.  A future of the code is the phase of*)
(* its operation, and a callback is run by the thread that completes the   *)
(* future, or by the Qt thread when it subscribes to a future that is done.*)
(* A step is what a thread does up to the next access to what both share.  *)
(*                                                                         *)
(* The services are those of the simulation plugins and of the behavior    *)
(* node, which may go down and come back: what was asked of them is lost.  *)
(***************************************************************************)
EXTENDS Integers, Sequences

CONSTANTS
  Commands,   \* the commands the operator gives, each once: << kind, number >>
  Steps,      \* the steps of the box, one per arrow
  Updates,    \* numbers of scene updates, used again and again
  MaxEvents,  \* bound: no input is handled with so many events waiting
  MaxFaults   \* bound: servers that go down and executors that fail

Kinds  == {"throw_food", "request_food", "set_obstacle"}
Source == {"robot", "amcl", "odom"}

ASSUME CommandsAssumption == Commands \subseteq Kinds \X Nat
ASSUME StepsAssumption == Steps \subseteq Int
ASSUME UpdatesAssumption == Updates \subseteq Nat \ {0} /\ Updates # {}
ASSUME BoundsAssumption == MaxEvents \in Nat /\ MaxFaults \in Nat

Reads   == Source \X Updates
Op      == Commands \cup Reads
ToBehavior == {c \in Commands : c[1] = "request_food"}
Nothing == << "nothing", 0 >>
Create  == << "initialize", 0 >>
Close   == << "close", 0 >>
Done    == {"ok", "failed"}
Phases  == {"idle", "queued", "called", "served", "refused", "lost"} \cup Done

VARIABLES
  qt, qtOn,           \* what the Qt thread is doing, and on what
  events,             \* the updates posted to the window: where the box is
  running,            \* _running of the listener and of the refresher
  request_in_flight,  \* of the refresher
  panel,              \* _obstacle_state: no position, or one
  phase,              \* per operation: the state of its future
  wanted,             \* per command: the position it asks for
  box,                \* per update: the position in the answer
  pending,            \* per update: what its completion counter waits for
  composed,           \* the updates whose scene is composed
  tasks,              \* the tasks of the executor
  ros, rosOn,         \* what the ROS thread is doing, and on what
  clients,            \* the service clients
  stopping, stopped,  \* of the runtime
  raised,             \* an exception is leaving main
  up,                 \* the simulation is running
  stored, applied,    \* stored_position_ of the plugin, geom_xpos
  faults,             \* how many faults there have been
  performed, told     \* what was done and reported of each command (history)

qtThread == << qt, qtOn >>
window   == << events, panel >>
control  == << running, stopping, stopped, raised >>
update   == << request_in_flight, pending, composed, box >>
rosThread == << ros, rosOn >>
simulation == << up, stored, applied, faults >>
history  == << performed, told >>
vars == << qtThread, window, control, update, phase, wanted, tasks, rosThread,
           clients, simulation, history >>

AtMostOne(S) == S \subseteq Int /\ \A p, q \in S : p = q
QtWork    == {"loop", "watch", "compose", "refresh", "register", "await",
              "join", "ended"}
RosWork   == {"idle", "compose", "show", "post", "report", "tell", "exited"}

\* The sets every variable stays in.
TypeOK ==
  /\ qt \in QtWork /\ qtOn \in Op \cup {Nothing}
  /\ events \in Seq(Int)
  /\ running \in BOOLEAN /\ request_in_flight \in BOOLEAN
  /\ AtMostOne(panel)
  /\ phase \in [Op -> Phases]
  /\ wanted \in [Commands -> Int]
  /\ box \in [Updates -> Int]
  /\ pending \in [Updates -> SUBSET Source]
  /\ composed \subseteq Updates
  /\ tasks \in Seq(Op \cup {Create, Close})
  /\ ros \in RosWork /\ rosOn \in Op \cup {Nothing}
  /\ clients \in {"none", "open", "closed"}
  /\ stopping \in BOOLEAN /\ stopped \in BOOLEAN /\ raised \in BOOLEAN
  /\ up \in BOOLEAN
  /\ stored \in Int /\ applied \in Int
  /\ faults \in 0 .. MaxFaults
  /\ performed \subseteq Commands
  /\ told \in [Commands -> {"nothing", "success", "failure"}]

-----------------------------------------------------------------------------
(* What the two threads share                                              *)

QtDoes(what, on)  == qt' = what /\ qtOn' = on
RosDoes(what, on) == ros' = what /\ rosOn' = on
Loop == QtDoes("loop", Nothing)
Idle == RosDoes("idle", Nothing)

\* RosRuntime.submit.  It refuses only after shutdown has begun, when the Qt
\* thread, the only one that submits, is past its last submission.
Submit(ops) == ~stopping /\ tasks' = tasks \o ops

\* What the window is told of an update: its scene, its box and its poses are
\* posted together, nothing reads two of them.  An error is only a status.
PostUpdate(u) ==
  events' = IF phase[<< "robot", u >>] = "ok" THEN Append(events, box[u]) ELSE events

\* The finally of _finish_scene_update: the update is over.
Release(u) ==
  /\ request_in_flight' = FALSE
  /\ phase' = [op \in Op |-> IF op \in Source \X {u} THEN "idle" ELSE phase[op]]
  /\ pending' = [pending EXCEPT ![u] = Source]
  /\ composed' = composed \ {u}
  /\ box' = [box EXCEPT ![u] = 0]

\* A callback reports a command to the operator.
Told(c) == told' = [told EXCEPT ![c] = IF phase[c] = "ok" THEN "success" ELSE "failure"]

\* Which callbacks the Qt thread has subscribed so far.
Watched(u) == ~(qt = "watch" /\ qtOn[2] = u)
ComposerWaits(u) == ~(qt \in {"watch", "compose"} /\ qtOn[2] = u)
RefresherWaits(u) == ~(qt = "refresh" /\ qtOn[2] = u)
ListenerWaits(c) == ~(qt = "register" /\ qtOn = c)

Init ==
  /\ qt = "loop" /\ qtOn = Nothing
  /\ events = << >>
  /\ running = TRUE /\ request_in_flight = FALSE
  /\ panel = {}
  /\ phase = [op \in Op |-> "idle"]
  /\ wanted = [c \in Commands |-> 0]
  /\ box = [u \in Updates |-> 0]
  /\ pending = [u \in Updates |-> Source]
  /\ composed = {}
  /\ tasks = << Create >>
  /\ ros = "idle" /\ rosOn = Nothing
  /\ clients = "none"
  /\ stopping = FALSE /\ stopped = FALSE /\ raised = FALSE
  /\ up \in BOOLEAN
  /\ stored = 0 /\ applied = 0
  /\ faults = 0
  /\ performed = {}
  /\ told = [c \in Commands |-> "nothing"]

-----------------------------------------------------------------------------
(* The Qt thread: commands                                                 *)

\* A handler has called the client, which has submitted the request.
Give(c) ==
  /\ Submit(<< c >>)
  /\ phase' = [phase EXCEPT ![c] = "queued"]
  /\ QtDoes("register", c)
  /\ UNCHANGED told

\* The client raised ValueError, or the panel found an error.
Refuse(c) ==
  /\ phase' = [phase EXCEPT ![c] = "failed"]
  /\ told' = [told EXCEPT ![c] = "failure"]
  /\ UNCHANGED << tasks, qtThread >>

Input == qt = "loop" /\ Len(events) < MaxEvents
\* Commands are given in the order of their numbers, one of each number.
Unused(c) == \A d \in Commands : phase[d] # "idle" => d[2] < c[2]

\* The name may be blank, the numbers not finite, the quaternion zero.
ThrowFood(c) ==
  /\ Input /\ Unused(c) /\ c[1] = "throw_food"
  /\ Give(c) \/ Refuse(c)
  /\ UNCHANGED << window, control, update, wanted, rosThread, clients, simulation, performed >>

\* The box of the panel is limited to the numbers the client accepts.
RequestFood(c) ==
  /\ Input /\ Unused(c) /\ c[1] = "request_food"
  /\ Give(c)
  /\ UNCHANGED << window, control, update, wanted, rosThread, clients, simulation, performed >>

\* A step from the position the panel has, which it moves at once.
Move(c, delta) ==
  /\ Input /\ Unused(c) /\ c[1] = "set_obstacle"
  /\ \E p \in panel :
       /\ panel' = {p + delta}
       /\ wanted' = [wanted EXCEPT ![c] = p + delta]
  /\ Give(c)
  /\ UNCHANGED << events, control, update, rosThread, clients, simulation, performed >>

\* Register that does not look whether the future is done.
RegisterLate ==
  /\ qt = "register"
  /\ Loop
  /\ UNCHANGED << window, control, update, phase, wanted, tasks, rosThread,
                  clients, simulation, history >>

\* future.add_done_callback(self._finish_...)
Register ==
  /\ qt = "register"
  /\ IF phase[qtOn] \in Done THEN Told(qtOn) ELSE UNCHANGED told
  /\ Loop
  /\ UNCHANGED << window, control, update, phase, wanted, tasks, rosThread,
                  clients, simulation, performed >>

-----------------------------------------------------------------------------
(* The Qt thread: scene updates                                            *)

\* RequestSceneUpdate with the check of _request_in_flight dropped.
RequestAgain ==
  /\ Input /\ running
  /\ LET free == {u \in Updates : phase[<< "robot", u >>] = "idle"}
         u    == CHOOSE v \in free : TRUE
     IN  /\ free # {}
         /\ request_in_flight' = TRUE
         /\ Submit(<< << "robot", u >>, << "amcl", u >>, << "odom", u >> >>)
         /\ phase' = [op \in Op |-> IF op \in Source \X {u} THEN "queued" ELSE phase[op]]
         /\ QtDoes("watch", << "robot", u >>)
  /\ UNCHANGED << window, control, wanted, pending, composed, box, rosThread, clients,
                  simulation, history >>

\* The timer.  The update takes the first number no update has.
RequestSceneUpdate ==
  /\ Input /\ running /\ ~request_in_flight
  /\ LET free == {u \in Updates : phase[<< "robot", u >>] = "idle"}
         u    == CHOOSE v \in free : TRUE
     IN  /\ free # {}
         /\ request_in_flight' = TRUE
         /\ Submit(<< << "robot", u >>, << "amcl", u >>, << "odom", u >> >>)
         /\ phase' = [op \in Op |-> IF op \in Source \X {u} THEN "queued" ELSE phase[op]]
         /\ QtDoes("watch", << "robot", u >>)
  /\ UNCHANGED << window, control, wanted, pending, composed, box, rosThread, clients,
                  simulation, history >>

\* Watch with futures that are done not counted.
WatchLater ==
  /\ qt = "watch"
  /\ pending' = [pending EXCEPT ![qtOn[2]] = Source]
  /\ QtDoes("compose", qtOn)
  /\ UNCHANGED << window, control, request_in_flight, composed, box, phase, wanted, tasks,
                  rosThread, clients, simulation, history >>

\* The counter subscribes to the three futures; one that is done counts at once.
\* What it does when none is left shows in Compose: nobody waits yet.
Watch ==
  /\ qt = "watch"
  /\ LET u == qtOn[2] IN
       pending' = [pending EXCEPT ![u] = {s \in Source : phase[<< s, u >>] \notin Done}]
  /\ QtDoes("compose", qtOn)
  /\ UNCHANGED << window, control, request_in_flight, composed, box, phase, wanted, tasks,
                  rosThread, clients, simulation, history >>

\* The composer subscribes to the provider's future.
Compose ==
  /\ qt = "compose"
  /\ composed' = IF pending[qtOn[2]] = {} THEN composed \cup {qtOn[2]} ELSE composed
  /\ QtDoes("refresh", qtOn)
  /\ UNCHANGED << window, control, request_in_flight, pending, box, phase, wanted, tasks,
                  rosThread, clients, simulation, history >>

\* The refresher subscribes to the composer's future.
Refresh ==
  /\ qt = "refresh"
  /\ LET u == qtOn[2] IN
       IF u \in composed
       THEN PostUpdate(u) /\ Release(u)
       ELSE UNCHANGED << events, update, phase >>
  /\ Loop
  /\ UNCHANGED << panel, control, wanted, tasks, rosThread, clients,
                  simulation, history >>

\* The queued slots of the canvas, of the obstacle panel and of the labels.
HandleEvent ==
  /\ qt = "loop" /\ events # << >>
  /\ events' = Tail(events)
  /\ panel' = {Head(events)}
  /\ UNCHANGED << qtThread, control, update, phase, wanted, tasks, rosThread, clients,
                  simulation, history >>

-----------------------------------------------------------------------------
(* The Qt thread: leaving main                                             *)

Leaving == << window, update, phase, wanted, rosThread, clients, simulation, history >>

\* The window is closed: the listener and the refresher are stopped, and the
\* client is closed on the ROS thread.
Quit ==
  /\ qt = "loop"
  /\ running' = FALSE
  /\ Submit(<< Close >>)
  /\ QtDoes("await", Nothing)
  /\ UNCHANGED << stopping, stopped, raised, Leaving >>

\* result(timeout=2.0) returns or raises, when the time runs out with the
\* close still queued; the executor is shut down either way.
Shutdown ==
  /\ qt = "await"
  /\ raised' = (clients # "closed")
  /\ stopping' = TRUE
  /\ QtDoes("join", Nothing)
  /\ UNCHANGED << running, stopped, tasks, Leaving >>

\* Join that does not ask whether the thread is alive.
JoinBlindly ==
  /\ qt = "join"
  /\ stopped' = TRUE /\ raised' = raised
  /\ QtDoes("ended", Nothing)
  /\ UNCHANGED << running, stopping, tasks, Leaving >>

\* After the join the node is destroyed; a thread that is alive is an error.
Join ==
  /\ qt = "join"
  /\ IF ros = "exited" THEN stopped' = TRUE /\ raised' = raised
                       ELSE raised' = TRUE /\ stopped' = stopped
  /\ QtDoes("ended", Nothing)
  /\ UNCHANGED << running, stopping, tasks, Leaving >>

-----------------------------------------------------------------------------
(* The ROS thread                                                          *)

\* A future gets its result or exception, and its callbacks run.
Complete(op, outcome) ==
  /\ phase' = [phase EXCEPT ![op] = outcome]
  /\ IF op \in Commands
     THEN /\ IF ListenerWaits(op) THEN RosDoes("report", op) ELSE Idle
          /\ UNCHANGED pending
     ELSE LET u    == op[2]
              left == IF Watched(u) THEN pending[u] \ {op[1]} ELSE pending[u]
          IN
          /\ pending' = [pending EXCEPT ![u] = left]
          /\ IF left = {} /\ ComposerWaits(u)
             THEN RosDoes("compose", << "robot", u >>) ELSE Idle

\* The task of a request: the client must be open and the service ready.
Request(op) ==
  \/ /\ clients = "open" /\ (up \/ op \in ToBehavior)
     /\ phase' = [phase EXCEPT ![op] = "called"]
     /\ UNCHANGED << rosThread, pending >>
  \/ /\ ~(clients = "open" /\ up) \/ op \in ToBehavior
     /\ Complete(op, "failed")

\* A transform, or the reason why there is none: an estimate either way.
Estimate(op) == Complete(op, "ok")

\* The answers to what was called of a destroyed client are lost.
CloseOnRosThread ==
  /\ clients' = "closed"
  /\ phase' = [op \in Op |-> IF phase[op] \in {"called", "served", "refused"}
                             THEN "lost" ELSE phase[op]]
  /\ UNCHANGED << rosThread, pending >>

RunTask ==
  /\ ros = "idle" /\ ~stopping /\ tasks # << >>
  /\ tasks' = Tail(tasks)
  /\ LET op == Head(tasks) IN
       \/ /\ op = Create
          /\ clients' = "open"
          /\ UNCHANGED << phase, pending, rosThread >>
       \/ op = Close /\ CloseOnRosThread
       \/ op \in Commands \cup ({"robot"} \X Updates) /\ Request(op) /\ UNCHANGED clients
       \/ op \in {"amcl", "odom"} \X Updates /\ Estimate(op) /\ UNCHANGED clients
  /\ UNCHANGED << qtThread, window, control, request_in_flight, composed, box, wanted,
                  simulation, history >>

\* TakeResponse that does not look at the success of the answer.
TakeAnyResponse(op) ==
  /\ ros = "idle" /\ ~stopping
  /\ phase[op] \in {"served", "refused"}
  /\ Complete(op, "ok")
  /\ UNCHANGED << qtThread, window, control, request_in_flight, composed, box, wanted, tasks,
                  clients, simulation, history >>

\* The answer of a service; one without success, or one that cannot be
\* decoded, is an exception.
TakeResponse(op) ==
  /\ ros = "idle" /\ ~stopping
  /\ phase[op] \in {"served", "refused"}
  /\ Complete(op, IF phase[op] = "served" THEN "ok" ELSE "failed")
  /\ UNCHANGED << qtThread, window, control, request_in_flight, composed, box, wanted, tasks,
                  clients, simulation, history >>

\* The chain of a scene update: _finish, finish, _finish_scene_update.
FinishState ==
  /\ ros = "compose"
  /\ composed' = composed \cup {rosOn[2]}
  /\ IF RefresherWaits(rosOn[2]) THEN RosDoes("show", rosOn) ELSE Idle
  /\ UNCHANGED << request_in_flight, pending, box, phase, events, told >>

\* FinishSceneUpdate without the check of _running.
FinishAlways ==
  /\ UNCHANGED told
  /\ \/ /\ ros = "show"
        /\ RosDoes("post", rosOn)
        /\ UNCHANGED << events, update, phase >>
     \/ /\ ros = "post"
        /\ PostUpdate(rosOn[2])
        /\ Release(rosOn[2]) /\ Idle

FinishSceneUpdate ==
  /\ UNCHANGED told
  /\ \/ /\ ros = "show" /\ running
        /\ RosDoes("post", rosOn)
        /\ UNCHANGED << events, update, phase >>
     \/ /\ ros = "show" /\ ~running
        /\ Release(rosOn[2]) /\ Idle
        /\ UNCHANGED events
     \/ /\ ros = "post"
        /\ PostUpdate(rosOn[2])
        /\ Release(rosOn[2]) /\ Idle

FinishCommand ==
  /\ UNCHANGED << update, phase, events >>
  /\ \/ /\ ros = "report"
        /\ IF running THEN RosDoes("tell", rosOn) ELSE Idle
        /\ UNCHANGED told
     \/ /\ ros = "tell"
        /\ Told(rosOn)
        /\ Idle

Callback ==
  /\ FinishState \/ FinishSceneUpdate \/ FinishCommand
  /\ UNCHANGED << qtThread, panel, control, wanted, tasks, clients, simulation,
                  performed >>

Unshared == << qtThread, window, control, update, phase, wanted, tasks, clients, history >>

\* spin returns once the executor is shut down, after the callback under way.
Spin ==
  /\ ros = "idle" /\ stopping
  /\ RosDoes("exited", Nothing)
  /\ UNCHANGED << Unshared, simulation >>

\* spin raises, which is logged: the thread is gone, and nobody is told.
ExecutorFails ==
  /\ ros = "idle" /\ faults < MaxFaults
  /\ RosDoes("exited", Nothing)
  /\ faults' = faults + 1
  /\ UNCHANGED << Unshared, up, stored, applied >>

-----------------------------------------------------------------------------
(* The servers                                                             *)

Elsewhere == << qtThread, window, control, request_in_flight, pending, composed, wanted,
                tasks, rosThread, clients, told >>

\* A handler answers: the positions are read and written under the mutex of
\* the simulation.  A throw may be out of range and an order come too soon; a
\* position that the client has checked is always taken.
Serve(op) ==
  /\ phase[op] = "called"
  /\ \E answer \in {"served"} \cup {a \in {"refused"} : op[1] \in {"throw_food", "request_food"}} :
       /\ phase' = [phase EXCEPT ![op] = answer]
       /\ performed' = IF answer = "served" /\ op \in Commands
                       THEN performed \cup {op} ELSE performed
       /\ stored' = IF answer = "served" /\ op[1] = "set_obstacle" THEN wanted[op] ELSE stored
       /\ box' = IF answer = "served" /\ op[1] = "robot"
                 THEN [box EXCEPT ![op[2]] = applied] ELSE box
  /\ UNCHANGED << Elsewhere, up, applied, faults >>

\* The obstacle plugin's update.
ApplyStoredPose ==
  /\ up /\ applied # stored
  /\ applied' = stored
  /\ UNCHANGED << Elsewhere, box, phase, up, stored, faults, performed >>

Start ==
  /\ ~up
  /\ up' = TRUE
  /\ UNCHANGED << Elsewhere, box, phase, stored, applied, faults, performed >>

\* What was asked of a server that goes down is lost.  A simulation that comes
\* back has the box where it was at the beginning.
GoDown ==
  /\ up /\ faults < MaxFaults
  /\ faults' = faults + 1
  /\ up' = FALSE
  /\ phase' = [op \in Op |-> IF phase[op] = "called" /\ op \notin ToBehavior
                             THEN "lost" ELSE phase[op]]
  /\ stored' = 0 /\ applied' = 0
  /\ UNCHANGED << Elsewhere, box, performed >>

BehaviorGoesDown ==
  /\ faults < MaxFaults
  /\ \E c \in ToBehavior :
       /\ phase[c] = "called"
       /\ phase' = [phase EXCEPT ![c] = "lost"]
  /\ faults' = faults + 1
  /\ UNCHANGED << Elsewhere, box, up, stored, applied, performed >>

-----------------------------------------------------------------------------

Operator ==
  \/ \E c \in Commands : ThrowFood(c) \/ RequestFood(c) \/ \E d \in Steps : Move(c, d)
  \/ Quit

QtThread ==
  \/ Register \/ RequestSceneUpdate \/ Watch \/ Compose \/ Refresh \/ HandleEvent
  \/ Shutdown \/ Join

RosThread ==
  \/ RunTask
  \/ \E op \in Op : TakeResponse(op)
  \/ Callback
  \/ Spin

Servers == ApplyStoredPose \/ \E op \in Op : Serve(op)

Environment ==
  ExecutorFails \/ Start \/ GoDown \/ BehaviorGoesDown

\* The ROS thread is a daemon: it ends with main.
MainRuns == qt # "ended"

Next == MainRuns /\ (Operator \/ QtThread \/ RosThread \/ Servers \/ Environment)

Spec == Init /\ [][Next]_vars

\* Each thread goes on with what it has to do, and a server that is up answers.
\* The executor hands out every answer that is ready before it looks for tasks
\* again, so that the updates do not keep a command waiting for ever.  The
\* operator need not do anything, and a server that is down may stay down.
Fairness ==
  /\ WF_vars(QtThread)
  /\ WF_vars(MainRuns /\ RosThread)
  /\ WF_vars(MainRuns /\ ApplyStoredPose)
  /\ WF_vars(MainRuns /\ \E r \in Reads : Serve(r))
  /\ WF_vars(MainRuns /\ \E c \in Commands : Serve(c))
  /\ SF_vars(MainRuns /\ \E c \in Commands : TakeResponse(c))

FairSpec == Spec /\ Fairness

-----------------------------------------------------------------------------
(* Properties                                                              *)

\* The refresher asks for one scene at a time, and as long as it waits for one
\* there is somebody who will finish it: the Qt thread that is still asking, the
\* ROS thread in a callback of it, a task or an answer under way.  Only what the
\* GUI cannot know of, an answer that is lost or a ROS thread that is gone, stops
\* the refreshing for good.
Finishes(u) ==
  \/ qt \in {"watch", "compose", "refresh"} /\ qtOn[2] = u
  \/ ros \in {"compose", "show", "post"} /\ rosOn[2] = u
  \/ \E s \in Source : phase[<< s, u >>] \in {"queued", "called", "served", "refused", "lost"}
  \/ ros = "exited"

Live == {u \in Updates : phase[<< "robot", u >>] # "idle"}

OneUpdateInFlight ==
  /\ request_in_flight <=> Live # {}
  /\ \A u, v \in Live : u = v
  /\ \A u \in Live : Finishes(u)

\* Once the window is closed the ROS thread tells it nothing more, but for the
\* one callback that had looked at _running before.
QuietAfterStop ==
  [][~running /\ ros \notin {"post", "tell"}
       => UNCHANGED << events, told >> /\ ros' \notin {"post", "tell"}]_vars

\* What the operator reads of a command is true: CommandService.
Service == INSTANCE CommandService WITH given <- {c \in Commands : phase[c] # "idle"}
CommandsHonest == Service!Spec

\* When the operator stops and the simulation answers, the panel comes to show
\* the position the simulation has, whatever moves failed, were overtaken by an
\* older answer, or were assumed to succeed.
Answered == \A u \in Updates : phase[<< "robot", u >>] # "lost"
Healthy  == running /\ up /\ ros # "exited" /\ Answered
PanelConverges == <>[]Healthy => <>[](panel = {stored})

\* The operator gets a report of every command, unless the answer is lost, the
\* ROS thread has failed or the window is closed.
CommandsReported ==
  \A c \in Commands :
    phase[c] # "idle" ~> told[c] # "nothing" \/ phase[c] = "lost" \/ ros = "exited" \/ ~running

\* Closing the window ends main: with an exception, or with the clients destroyed
\* on the ROS thread and the node destroyed after that thread has ended.
ClosingEnds ==
  qt = "await" ~> /\ qt = "ended"
                  /\ ~raised => stopped /\ clients = "closed" /\ ros = "exited"
=============================================================================
