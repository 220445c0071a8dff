---------------------------- MODULE StateCapture ----------------------------
(***************************************************************************)
(* The state_capture plugin of the simulation (StateCapturePlugin and      *)
(* StateCaptureConsumer).  The control loop samples the simulation time    *)
(* and the positions at a fixed rate of simulation time and hands the      *)
(* samples, through a ring buffer without locks, to a thread that writes   *)
(* them to a file.  Physics runs beside both; the process may end at any   *)
(* time.                                                                   *)
(*                                                                         *)
(* A thread takes a step at each access to what another thread uses.  The  *)
(* sequence numbers are read with acquire and stored with release, so that *)
(* a thread that sees a number also sees the slots it covers, and steps    *)
(* may be taken one after another.  The positions of a sample, the foods'  *)
(* among them, are one field.                                              *)
(*                                                                         *)
(* Left out: the parameters and the header of the file, the count of       *)
(* dropped samples, which is only logged, and the tolerance of 1e-12 s in  *)
(* the comparison of times.                                                *)
(***************************************************************************)
EXTENDS Integers, Sequences

CONSTANTS
  Capacity,   \* buffer_capacity_
  TimeStep,   \* the time step of MuJoCo
  Period,     \* 1 / capture_rate_hz_
  MaxSteps,   \* bound: physics stops stepping here
  MaxResets   \* bound: how often MuJoCo resets a simulation that diverged

ASSUME CaptureAssumption ==
  /\ Capacity \in Nat /\ Capacity >= 2
  /\ TimeStep \in Nat \ {0}
  /\ Period \in Nat \ {0}
  /\ MaxSteps \in Nat
  /\ MaxResets \in Nat

VARIABLES
  live,           \* the state of mj_data_: its step, and how many since time zero
  resets,         \* how often the time went back
  copying,        \* the fields mj_copyData has not copied yet
  copied,         \* mj_data_control_: the state each field is of
  scheduled,      \* capture_schedule_initialized_
  next_capture_time,
  previous_time,  \* previous_simulation_time_
  control,        \* where the control loop is
  taken,          \* the state whose time update has read
  pending,        \* pending_write_sequence_
  ring,           \* ring_buffer_
  write_sequence,
  read_sequence,
  enabled,        \* capture_enabled_
  consumer,       \* where the consumer thread is
  available,      \* available_sequence of drain_buffer
  line,           \* the time of the row being written
  rows,           \* what output_stream_ has taken after the header
  broken,         \* the stream has failed
  stop_requested,
  stopping,       \* what the consumer has seen of it
  teardown,       \* how far the end of the process has come
  captured        \* the samples published (history)

physics  == << live, resets, copying, copied >>
schedule == << scheduled, next_capture_time, previous_time >>
producer == << control, taken, pending, ring, write_sequence, captured >>
reader   == << consumer, available, line, rows, read_sequence, stopping >>
ending   == << stop_requested, teardown >>
vars == << physics, schedule, producer, reader, enabled, broken, ending >>

Fields  == {"time", "qpos"}
Moments == [step : 0 .. MaxSteps, since : 0 .. MaxSteps]
Samples == [Fields -> Moments]
TimeOf(moment) == TimeStep * moment.since
Slot(n) == n % Capacity

Start == [step |-> 0, since |-> 0]
Blank == [f \in Fields |-> Start]

TypeOK ==
  /\ live \in Moments /\ resets \in 0 .. MaxResets
  /\ copying \subseteq Fields /\ copied \in Samples
  /\ scheduled \in BOOLEAN /\ next_capture_time \in Nat /\ previous_time \in Nat
  /\ control \in {"idle", "read", "acquire", "time", "qpos", "publish"}
  /\ taken \in Moments /\ pending \in Nat
  /\ ring \in [0 .. Capacity - 1 -> Samples]
  /\ write_sequence \in Nat /\ read_sequence \in Nat /\ enabled \in BOOLEAN
  /\ consumer \in {"wait", "drain", "row", "qpos", "release", "done"}
  /\ available \in Nat /\ line \in Moments /\ rows \in Seq(Samples)
  /\ broken \in BOOLEAN /\ stop_requested \in BOOLEAN /\ stopping \in BOOLEAN
  /\ teardown \in {"no", "control", "disable", "request", "join", "closed"}
  /\ captured \in Seq(Samples)

-----------------------------------------------------------------------------
(* Physics, which holds sim_mutex; the control loop does not take it.      *)

\* mj_step.  A simulation that diverges starts again at time zero, unless the
\* scene disables that; the scenes of this repository do not.
Step ==
  /\ copying = {} /\ live.step < MaxSteps
  /\ \/ /\ live' = [step |-> live.step + 1, since |-> live.since + 1]
        /\ UNCHANGED resets
     \/ /\ resets < MaxResets
        /\ live' = [step |-> live.step + 1, since |-> 0]
        /\ resets' = resets + 1
  /\ copying' = Fields
  /\ UNCHANGED << copied, schedule, producer, reader, enabled, broken, ending >>

\* mj_copyData, a field at a time.
Copy(f) ==
  /\ f \in copying
  /\ copied' = [copied EXCEPT ![f] = live]
  /\ copying' = copying \ {f}
  /\ UNCHANGED << live, resets, schedule, producer, reader, enabled, broken,
                  ending >>

-----------------------------------------------------------------------------
(* The producer: StateCapturePlugin.update, called by the control loop.    *)

BeginCycle ==
  /\ control = "idle" /\ teardown = "no"
  /\ control' = "read"
  /\ UNCHANGED << physics, schedule, taken, pending, ring, write_sequence,
                  captured, reader, enabled, broken, ending >>

\* The do loop: the first time of the grid from due on that is after now.
NextDue(due, now) == due + Period * ((now - due) \div Period + 1)

\* Mutant: the schedule is not started again when the time went back.
UpdateLate ==
  /\ control = "read"
  /\ LET now == TimeOf(copied["time"])
         due == IF ~scheduled THEN now ELSE next_capture_time
     IN IF ~enabled THEN control' = "idle" /\ UNCHANGED << schedule, taken >>
        ELSE /\ scheduled' = TRUE /\ previous_time' = now
             /\ next_capture_time' = IF now < due THEN due ELSE NextDue(due, now)
             /\ control' = IF now < due THEN "idle" ELSE "acquire"
             /\ taken' = copied["time"]
  /\ UNCHANGED << physics, pending, ring, write_sequence, captured, reader,
                  enabled, broken, ending >>

\* update, up to the decision that a sample is due.
Update ==
  /\ control = "read"
  /\ LET now == TimeOf(copied["time"])
         due == IF ~scheduled \/ now < previous_time THEN now ELSE next_capture_time
     IN IF ~enabled THEN control' = "idle" /\ UNCHANGED << schedule, taken >>
        ELSE /\ scheduled' = TRUE /\ previous_time' = now
             /\ next_capture_time' = IF now < due THEN due ELSE NextDue(due, now)
             /\ control' = IF now < due THEN "idle" ELSE "acquire"
             /\ taken' = copied["time"]
  /\ UNCHANGED << physics, pending, ring, write_sequence, captured, reader,
                  enabled, broken, ending >>

\* try_acquire_sample: when the buffer is full the sample is dropped.
Acquire ==
  /\ control = "acquire"
  /\ IF enabled /\ write_sequence - read_sequence < Capacity
     THEN control' = "time" /\ pending' = write_sequence
     ELSE control' = "idle" /\ UNCHANGED pending
  /\ UNCHANGED << physics, schedule, taken, ring, write_sequence, captured,
                  reader, enabled, broken, ending >>

\* The fields of the slot, the positions as mj_data_control_ has them by then.
FillTime ==
  /\ control = "time" /\ control' = "qpos"
  /\ ring' = [ring EXCEPT ![Slot(pending)]["time"] = taken]
  /\ UNCHANGED << physics, schedule, taken, pending, write_sequence, captured,
                  reader, enabled, broken, ending >>

FillQpos ==
  /\ control = "qpos" /\ control' = "publish"
  /\ ring' = [ring EXCEPT ![Slot(pending)]["qpos"] = copied["qpos"]]
  /\ UNCHANGED << physics, schedule, taken, pending, write_sequence, captured,
                  reader, enabled, broken, ending >>

\* publish_sample.
Publish ==
  /\ control = "publish" /\ control' = "idle"
  /\ write_sequence' = pending + 1
  /\ captured' = Append(captured, ring[Slot(pending)])
  /\ UNCHANGED << physics, schedule, taken, pending, ring, reader, enabled,
                  broken, ending >>

Producer == Update \/ Acquire \/ FillTime \/ FillQpos \/ Publish

-----------------------------------------------------------------------------
(* The consumer: consumer_loop and drain_buffer.                           *)

\* wait_for returns: it was notified, or flush_interval has passed.
Wake ==
  /\ consumer = "wait" /\ consumer' = "drain"
  /\ stopping' = stop_requested
  /\ UNCHANGED << physics, schedule, producer, available, line, rows,
                  read_sequence, enabled, broken, ending >>

Drain ==
  /\ consumer = "drain" /\ consumer' = "row"
  /\ available' = write_sequence
  /\ UNCHANGED << physics, schedule, producer, line, rows, read_sequence,
                  stopping, enabled, broken, ending >>

WriteTime ==
  /\ consumer = "row" /\ read_sequence < available
  /\ consumer' = "qpos"
  /\ line' = ring[Slot(read_sequence)]["time"]
  /\ UNCHANGED << physics, schedule, producer, available, rows, read_sequence,
                  stopping, enabled, broken, ending >>

\* A stream that has failed takes nothing more.
WriteQpos ==
  /\ consumer = "qpos" /\ consumer' = "release"
  /\ LET slot == ring[Slot(read_sequence)]
     IN rows' = IF broken THEN rows ELSE Append(rows, [slot EXCEPT !["time"] = line])
  /\ UNCHANGED << physics, schedule, producer, available, line, read_sequence,
                  stopping, enabled, broken, ending >>

Release ==
  /\ consumer = "release" /\ consumer' = "row"
  /\ read_sequence' = read_sequence + 1
  /\ UNCHANGED << physics, schedule, producer, available, line, rows, stopping,
                  enabled, broken, ending >>

\* The stream is flushed; a failure ends the capture, not the thread.
Flush ==
  /\ consumer = "row" /\ read_sequence >= available
  /\ enabled' = (enabled /\ ~broken)
  /\ consumer' = IF stopping THEN "done" ELSE "wait"
  /\ UNCHANGED << physics, schedule, producer, available, line, rows,
                  read_sequence, stopping, broken, ending >>

Consumer ==
  \/ Wake \/ Drain \/ WriteTime \/ WriteQpos \/ Release \/ Flush

\* The disk is full, or gone.
StreamFails ==
  /\ ~broken /\ teardown # "closed"
  /\ broken' = TRUE
  /\ UNCHANGED << physics, schedule, producer, reader, enabled, ending >>

-----------------------------------------------------------------------------
(* The end of the process.                                                 *)

\* rclcpp::ok() no longer holds.
Shutdown ==
  /\ teardown = "no" /\ teardown' = "control"
  /\ UNCHANGED << physics, schedule, producer, reader, enabled, broken,
                  stop_requested >>

\* Mutant: main does not join the control thread.
ControlForgotten ==
  /\ teardown = "control" /\ teardown' = "disable"
  /\ UNCHANGED << physics, schedule, producer, reader, enabled, broken,
                  stop_requested >>

\* The control loop ends between two cycles, main joins its thread, and the
\* destructor of the hardware calls cleanup.
ControlEnds ==
  /\ teardown = "control" /\ control = "idle" /\ teardown' = "disable"
  /\ UNCHANGED << physics, schedule, producer, reader, enabled, broken,
                  stop_requested >>

\* stop, first half.
Disable ==
  /\ teardown = "disable" /\ teardown' = "request"
  /\ enabled' = FALSE
  /\ UNCHANGED << physics, schedule, producer, reader, broken, stop_requested >>

\* Mutant: the thread is joined without being asked to end.
JoinUnasked ==
  /\ teardown = "request" /\ teardown' = "join"
  /\ UNCHANGED << physics, schedule, producer, reader, enabled, broken,
                  stop_requested >>

RequestStop ==
  /\ teardown = "request" /\ teardown' = "join"
  /\ stop_requested' = TRUE
  /\ UNCHANGED << physics, schedule, producer, reader, enabled, broken >>

\* The thread is joined; the stream is closed.
Join ==
  /\ teardown = "join" /\ consumer = "done" /\ teardown' = "closed"
  /\ UNCHANGED << physics, schedule, producer, reader, enabled, broken,
                  stop_requested >>

Ending == ControlEnds \/ Disable \/ RequestStop \/ Join

\* start_consumer and start.
Init ==
  /\ live = Start /\ resets = 0 /\ copying = {} /\ copied = Blank
  /\ scheduled = FALSE /\ next_capture_time = 0 /\ previous_time = 0
  /\ control = "idle" /\ taken = Start /\ pending = 0
  /\ ring = [n \in 0 .. Capacity - 1 |-> Blank]
  /\ write_sequence = 0 /\ read_sequence = 0 /\ captured = << >>
  /\ consumer = "wait" /\ available = 0 /\ line = Start /\ rows = << >>
  /\ enabled = TRUE /\ broken = FALSE /\ stop_requested = FALSE /\ stopping = FALSE
  /\ teardown = "no"

Next ==
  \/ Step \/ \E f \in Fields : Copy(f)
  \/ BeginCycle \/ Producer
  \/ Consumer \/ StreamFails
  \/ Shutdown \/ Ending

Spec == Init /\ [][Next]_vars

\* The threads that are not waiting keep running: the wait of the consumer
\* ends by itself, and no thread waits for a lock that is kept.
Fairness == WF_vars(Producer) /\ WF_vars(Consumer) /\ WF_vars(Ending)

FairSpec == Spec /\ Fairness

-----------------------------------------------------------------------------
(* Properties.                                                             *)

\* What was written is what was sampled: no row is made of two samples, none is
\* written twice or before an earlier one, and a slot is not filled again
\* before it was written, however the two threads interleave.
RowsAreTheSamples ==
  /\ Len(rows) <= Len(captured)
  /\ \A i \in 1 .. Len(rows) : rows[i] = captured[i]

\* Every sample that was published is in the file once it is closed: those
\* taken in the last cycle of the control loop, too.
NothingLost == teardown = "closed" /\ ~broken => rows = captured

\* However the simulation time jumps, the next sample is due within one period
\* of the time seen last.
ScheduleNear ==
  scheduled => previous_time < next_capture_time /\ next_capture_time <= previous_time + Period

\* The process gets past the capture, whether the stream is good or not and
\* however many samples are left.
CleanupEnds == teardown # "no" ~> teardown = "closed"

Log == INSTANCE CaptureLog WITH failed <- broken, open <- teardown # "closed"

\* Ring buffer, sequence numbers and threads implement the log.
ImplementsCaptureLog == Log!Spec

\* "preserves recorded states" (render_capture.py): the positions of a row are
\* those of the simulation at its time.
RowsOfOneStep == \A i \in 1 .. Len(rows) : rows[i]["time"] = rows[i]["qpos"]

\* "Simulation time moves backwards" (render_capture.py) is an error of the
\* file.
TimesGoForward ==
  \A i, j \in 1 .. Len(rows) : i <= j => TimeOf(rows[i]["time"]) <= TimeOf(rows[j]["time"])
=============================================================================
