--------------------------- MODULE Capture_proofs ---------------------------
(***************************************************************************)
(* Proofs about the capture of the simulation: StateCapture, that it       *)
(* writes what it sampled and implements CaptureLog, and RenderCapture,    *)
(* that the film shows what the file holds.                                *)
(***************************************************************************)
EXTENDS StateCapture, RenderCapture, TLAPS

\* The sequence numbers: how many samples are in the ring, and which of them
\* the two threads are at.
SeqInv ==
  /\ read_sequence <= write_sequence /\ write_sequence <= read_sequence + Capacity
  /\ Len(captured) = write_sequence
  /\ control \in {"time", "qpos", "publish"}
       => pending = write_sequence /\ write_sequence < read_sequence + Capacity
  /\ consumer \in {"row", "qpos", "release"}
       => read_sequence <= available /\ available <= write_sequence
  /\ consumer \in {"qpos", "release"} => read_sequence < available

\* The ring holds the samples that were published and not released.
RingInv ==
  \A n \in Nat : read_sequence <= n /\ n < write_sequence
                   => ring[Slot(n)] = captured[n + 1]

\* The file holds the samples up to the one being written.
FileInv ==
  /\ RowsAreTheSamples
  /\ ~broken => Len(rows) = IF consumer = "release" THEN read_sequence + 1
                            ELSE read_sequence
  /\ consumer = "qpos" => line = captured[read_sequence + 1]["time"]

\* What has ended when; the last look at the buffer sees all of it.
EndInv ==
  /\ teardown \notin {"no", "control"} => control = "idle"
  /\ stop_requested <=> teardown \in {"join", "closed"}
  /\ stopping => stop_requested
  /\ stopping /\ consumer \in {"row", "qpos", "release"} => available = write_sequence
  /\ consumer = "done" => stopping /\ read_sequence = write_sequence
  /\ teardown = "closed" => consumer = "done"

\* MuJoCo takes a step at a time.
StepInv == live.since <= live.step

IInv == TypeOK /\ StepInv /\ ScheduleNear /\ SeqInv /\ RingInv /\ FileInv /\ EndInv

-----------------------------------------------------------------------------
(* The slots of the ring and the grid of the schedule.                     *)

\* Two sequence numbers less than a ring apart have different slots.
LEMMA SlotsDiffer ==
  ASSUME NEW i \in Nat, NEW j \in Nat, i < j, j < i + Capacity
  PROVE  Slot(i) # Slot(j)
<1> DEFINE q == i \div Capacity
           p == j \div Capacity
<1>1. i = Capacity * q + (i % Capacity) /\ q \in Int /\ i % Capacity \in Int
  BY CaptureAssumption
<1>2. j = Capacity * p + (j % Capacity) /\ p \in Int /\ j % Capacity \in Int
  BY CaptureAssumption
<1> HIDE DEF q, p
<1>3. SUFFICES ASSUME i % Capacity = j % Capacity PROVE FALSE
  BY DEF Slot
<1>4. j - i = Capacity * (p - q)
  BY <1>1, <1>2, <1>3, CaptureAssumption
<1>5. CASE p - q <= 0
  BY <1>1, <1>2, <1>4, <1>5, CaptureAssumption
<1>6. CASE p - q >= 1
  BY <1>1, <1>2, <1>4, <1>6, CaptureAssumption
<1> QED
  BY <1>1, <1>2, <1>5, <1>6

\* A slot is in the ring.
LEMMA SlotInRing == ASSUME NEW n \in Nat PROVE Slot(n) \in 0 .. Capacity - 1
BY CaptureAssumption DEF Slot

\* The next time of the grid is after now, by at most a period.
LEMMA NextDueNear ==
  ASSUME NEW due \in Nat, NEW now \in Nat, due <= now
  PROVE  /\ NextDue(due, now) \in Nat
         /\ now < NextDue(due, now) /\ NextDue(due, now) <= now + Period
<1> DEFINE k == (now - due) \div Period
<1>1. /\ k \in Int /\ now - due = Period * k + ((now - due) % Period)
      /\ (now - due) % Period \in 0 .. Period - 1
  BY CaptureAssumption
<1>2. NextDue(due, now) = due + Period * (k + 1)
  BY DEF NextDue
<1> HIDE DEF k
<1>3. Period * (k + 1) = Period * k + Period /\ Period * k \in Int
  BY <1>1, CaptureAssumption
<1> QED
  BY <1>1, <1>2, <1>3, CaptureAssumption

\* A time is a number.
LEMMA TimeIsNat == ASSUME NEW moment \in Moments PROVE TimeOf(moment) \in Nat
BY CaptureAssumption DEF TimeOf, Moments

\* The fields of a slot are moments.
LEMMA SlotTypes ==
  ASSUME TypeOK, NEW n \in Nat
  PROVE  /\ ring[Slot(n)] \in Samples /\ DOMAIN ring[Slot(n)] = Fields
         /\ \A f \in Fields : ring[Slot(n)][f] \in Moments
BY SlotInRing DEF TypeOK, Samples

\* Filling a field of a slot leaves a ring of samples.
LEMMA FillTypes ==
  ASSUME TypeOK, NEW f \in Fields, NEW m \in Moments,
         ring' = [ring EXCEPT ![Slot(pending)][f] = m]
  PROVE  ring' \in [0 .. Capacity - 1 -> Samples]
<1>1. pending \in Nat
  BY DEF TypeOK
<1>2. [ring[Slot(pending)] EXCEPT ![f] = m] \in Samples
  BY <1>1, SlotTypes DEF Samples
<1> QED
  BY <1>1, <1>2, SlotInRing DEF TypeOK

\* Filling a slot that is not published leaves those that are.
LEMMA FillKeepsRing ==
  ASSUME TypeOK, SeqInv, RingInv, NEW f \in Fields, NEW m,
         ring' = [ring EXCEPT ![Slot(pending)][f] = m],
         pending = write_sequence, write_sequence < read_sequence + Capacity,
         UNCHANGED << read_sequence, write_sequence, captured >>
  PROVE  RingInv'
<1> SUFFICES ASSUME NEW n \in Nat, read_sequence <= n, n < write_sequence
             PROVE  ring'[Slot(n)] = captured[n + 1]
  BY DEF RingInv
<1>1. Slot(n) # Slot(pending)
  BY SlotsDiffer, CaptureAssumption DEF TypeOK
<1>2. ring'[Slot(n)] = ring[Slot(n)]
  BY <1>1, SlotInRing DEF TypeOK
<1> QED
  BY <1>2 DEF RingInv

\* A row is the sample its slot holds.
LEMMA RowIsSample ==
  ASSUME TypeOK, SeqInv, RingInv, FileInv, consumer = "qpos"
  PROVE  /\ [ring[Slot(read_sequence)] EXCEPT !["time"] = line]
              = captured[read_sequence + 1]
         /\ captured[read_sequence + 1] \in Samples
         /\ read_sequence < write_sequence
<1>1. read_sequence < write_sequence
  BY DEF SeqInv, TypeOK
<1>2. ring[Slot(read_sequence)] = captured[read_sequence + 1]
  BY <1>1 DEF RingInv, TypeOK
<1>3. captured[read_sequence + 1] \in Samples
  BY <1>1 DEF SeqInv, TypeOK
<1>4. line = captured[read_sequence + 1]["time"]
  BY DEF FileInv
<1> QED
  BY <1>1, <1>2, <1>3, <1>4 DEF Samples

-----------------------------------------------------------------------------
(* The types and the schedule.                                             *)

\* The invariant holds at first.
LEMMA InitInv == Init => IInv
<1> SUFFICES ASSUME Init PROVE IInv
  OBVIOUS
<1>1. Start \in Moments /\ Blank \in Samples
  BY CaptureAssumption DEF Start, Blank, Samples, Moments
<1>2. TypeOK /\ StepInv /\ ScheduleNear
  BY <1>1, CaptureAssumption DEF Init, TypeOK, StepInv, ScheduleNear, Start
<1>3. SeqInv /\ RingInv
  BY CaptureAssumption DEF Init, SeqInv, RingInv
<1>4. FileInv /\ EndInv
  BY DEF Init, FileInv, EndInv, RowsAreTheSamples
<1> QED
  BY <1>2, <1>3, <1>4 DEF IInv

\* Every step keeps the types.
LEMMA TypeStep ==
  ASSUME TypeOK, StepInv, [Next]_vars
  PROVE  TypeOK'
<1>1. CASE Step
  <2>1. live' \in Moments
    <3>1. live \in Moments
      BY DEF TypeOK
    <3> QED
      BY <1>1, <3>1, CaptureAssumption DEF Step, StepInv, Moments
  <2>2. resets' \in 0 .. MaxResets
    BY <1>1, CaptureAssumption DEF Step, TypeOK
  <2> QED
    BY <1>1, <2>1, <2>2 DEF Step, TypeOK, schedule, producer, reader, ending
<1>2. ASSUME NEW f \in Fields, Copy(f) PROVE TypeOK'
  <2>1. copied' \in Samples
    BY <1>2 DEF Copy, TypeOK, Samples
  <2> QED
    BY <1>2, <2>1 DEF Copy, TypeOK, schedule, producer, reader, ending
<1>3. CASE BeginCycle
  BY <1>3
  DEF BeginCycle, TypeOK, physics, schedule, producer, reader, ending
<1>4. CASE Update
  <2> DEFINE now == TimeOf(copied["time"])
             due == IF ~scheduled \/ now < previous_time THEN now
                    ELSE next_capture_time
  <2>1. now \in Nat /\ due \in Nat
    BY TimeIsNat DEF TypeOK, Samples, Fields
  <2>2. due <= now => /\ NextDue(due, now) \in Nat
                      /\ now < NextDue(due, now) /\ NextDue(due, now) <= now + Period
    BY <2>1, NextDueNear
  <2>3. /\ enabled => /\ scheduled' = TRUE /\ previous_time' = now
                      /\ next_capture_time' = IF now < due THEN due ELSE NextDue(due, now)
                      /\ taken' = copied["time"]
        /\ ~enabled => UNCHANGED << schedule, taken >>
        /\ control' \in {"idle", "acquire"}
    BY <1>4 DEF Update
  <2>4. taken' \in Moments
    BY <2>3 DEF TypeOK, Samples, Fields
  <2> HIDE DEF now, due
  <2>5. scheduled' \in BOOLEAN /\ previous_time' \in Nat /\ next_capture_time' \in Nat
    <3>1. CASE enabled
      BY <2>1, <2>2, <2>3, <3>1
    <3>2. CASE ~enabled
      BY <2>3, <3>2 DEF TypeOK, schedule
    <3> QED
      BY <3>1, <3>2
  <2> QED
    BY <1>4, <2>3, <2>4, <2>5 DEF Update, TypeOK, physics, reader, ending
<1>5. CASE Acquire
  BY <1>5
  DEF Acquire, TypeOK, physics, schedule, producer, reader, ending
<1>6. CASE FillTime
  <2>1. ring' \in [0 .. Capacity - 1 -> Samples]
    BY <1>6, FillTypes DEF FillTime, TypeOK, Fields
  <2> QED
    BY <1>6, <2>1 DEF FillTime, TypeOK, physics, schedule, reader, ending
<1>7. CASE FillQpos
  <2>1. copied["qpos"] \in Moments
    BY DEF TypeOK, Samples, Fields
  <2>2. ring' \in [0 .. Capacity - 1 -> Samples]
    BY <1>7, <2>1, FillTypes DEF FillQpos, Fields
  <2> QED
    BY <1>7, <2>2 DEF FillQpos, TypeOK, physics, schedule, reader, ending
<1>8. CASE Publish
  <2>1. ring[Slot(pending)] \in Samples
    BY SlotTypes DEF TypeOK
  <2> QED
    BY <1>8, <2>1 DEF Publish, TypeOK, physics, schedule, reader, ending
<1>9. CASE Wake
  BY <1>9
  DEF Wake, TypeOK, physics, schedule, producer, reader, ending
<1>10. CASE Drain
  BY <1>10
  DEF Drain, TypeOK, physics, schedule, producer, reader, ending
<1>11. CASE WriteTime
  <2>1. line' \in Moments
    BY <1>11, SlotTypes DEF WriteTime, TypeOK, Fields
  <2> QED
    BY <1>11, <2>1 DEF WriteTime, TypeOK, physics, schedule, producer, ending
<1>12. CASE WriteQpos
  <2>1. [ring[Slot(read_sequence)] EXCEPT !["time"] = line] \in Samples
    BY SlotTypes DEF TypeOK, Samples
  <2> QED
    BY <1>12, <2>1 DEF WriteQpos, TypeOK, physics, schedule, producer, ending
<1>13. CASE Release
  BY <1>13
  DEF Release, TypeOK, physics, schedule, producer, reader, ending
<1>14. CASE Flush
  BY <1>14
  DEF Flush, TypeOK, physics, schedule, producer, reader, ending
<1>15. CASE StreamFails
  BY <1>15
  DEF StreamFails, TypeOK, physics, schedule, producer, reader, ending
<1>16. CASE Shutdown
  BY <1>16
  DEF Shutdown, TypeOK, physics, schedule, producer, reader, ending
<1>17. CASE ControlEnds
  BY <1>17
  DEF ControlEnds, TypeOK, physics, schedule, producer, reader, ending
<1>18. CASE Disable
  <2>1. UNCHANGED << physics, schedule, producer, reader, broken >>
    BY <1>18 DEF Disable
  <2>2. enabled' \in BOOLEAN /\ teardown' = "request" /\ stop_requested' = stop_requested
    BY <1>18, Zenon DEF Disable
  <2> QED
    BY <2>1, <2>2, Zenon DEF TypeOK, physics, schedule, producer, reader
<1>19. CASE RequestStop
  BY <1>19
  DEF RequestStop, TypeOK, physics, schedule, producer, reader, ending
<1>20. CASE Join
  BY <1>20
  DEF Join, TypeOK, physics, schedule, producer, reader, ending
<1>21. CASE UNCHANGED vars
  BY <1>21 DEF vars, TypeOK, physics, schedule, producer, reader, ending
<1> QED
  BY <1>1, <1>2, <1>3, <1>4, <1>5, <1>6, <1>7, <1>8, <1>9, <1>10, <1>11,
     <1>12, <1>13, <1>14, <1>15, <1>16, <1>17, <1>18, <1>19, <1>20, <1>21
  DEF Next, Producer, Consumer, Ending

\* No more steps since time zero than steps.
LEMMA StepStep ==
  ASSUME TypeOK, StepInv, [Next]_vars
  PROVE  StepInv'
<1>1. CASE Step
  BY <1>1 DEF Step, StepInv, TypeOK, Moments
<1>2. CASE UNCHANGED live
  BY <1>2 DEF StepInv
<1> QED
  BY <1>1, <1>2
  DEF Next, Producer, Consumer, Ending, vars, physics, Copy, BeginCycle, Update,
      Acquire, FillTime, FillQpos, Publish, Wake, Drain, WriteTime, WriteQpos,
      Release, Flush, StreamFails, Shutdown, ControlEnds, Disable, RequestStop,
      Join

\* The next sample stays near.
LEMMA ScheduleStep ==
  ASSUME TypeOK, ScheduleNear, [Next]_vars
  PROVE  ScheduleNear'
<1>1. CASE Update
  <2> DEFINE now == TimeOf(copied["time"])
             due == IF ~scheduled \/ now < previous_time THEN now
                    ELSE next_capture_time
  <2>1. now \in Nat /\ due \in Nat
    BY TimeIsNat DEF TypeOK, Samples, Fields
  <2>2. due <= now => /\ NextDue(due, now) \in Nat
                      /\ now < NextDue(due, now) /\ NextDue(due, now) <= now + Period
    BY <2>1, NextDueNear
  <2>3. /\ enabled => /\ scheduled' = TRUE /\ previous_time' = now
                      /\ next_capture_time' = IF now < due THEN due ELSE NextDue(due, now)
                      /\ taken' = copied["time"]
        /\ ~enabled => UNCHANGED << schedule, taken >>
        /\ control' \in {"idle", "acquire"}
    BY <1>1 DEF Update
  <2>4. taken' \in Moments
    BY <2>3 DEF TypeOK, Samples, Fields
  <2>5. CASE enabled
    BY <2>1, <2>2, <2>3, <2>5, CaptureAssumption DEF ScheduleNear, TypeOK
  <2>6. CASE ~enabled
    BY <2>3, <2>6 DEF ScheduleNear, schedule
  <2> QED
    BY <2>5, <2>6
<1>2. CASE UNCHANGED schedule
  BY <1>2 DEF ScheduleNear, schedule
<1> QED
  BY <1>1, <1>2
  DEF Next, Producer, Consumer, Ending, vars, Step, Copy, BeginCycle, Acquire,
      FillTime, FillQpos, Publish, Wake, Drain, WriteTime, WriteQpos, Release,
      Flush, StreamFails, Shutdown, ControlEnds, Disable, RequestStop, Join

-----------------------------------------------------------------------------
(* The ring and the file.                                                  *)

\* The sequence numbers keep their order.
LEMMA SeqStep ==
  ASSUME TypeOK, SeqInv, [Next]_vars
  PROVE  SeqInv'
<1>1. CASE Step
  BY <1>1, CaptureAssumption
  DEF Step, TypeOK, SeqInv, physics, schedule, producer, reader, ending
<1>2. ASSUME NEW f \in Fields, Copy(f) PROVE SeqInv'
  BY <1>2, CaptureAssumption
  DEF Copy, TypeOK, SeqInv, physics, schedule, producer, reader, ending
<1>3. CASE BeginCycle
  BY <1>3, CaptureAssumption
  DEF BeginCycle, TypeOK, SeqInv, physics, schedule, producer, reader, ending
<1>4. CASE Update
  BY <1>4, CaptureAssumption
  DEF Update, TypeOK, SeqInv, physics, schedule, producer, reader, ending
<1>5. CASE Acquire
  BY <1>5, CaptureAssumption
  DEF Acquire, TypeOK, SeqInv, physics, schedule, producer, reader, ending
<1>6. CASE FillTime
  BY <1>6, CaptureAssumption
  DEF FillTime, TypeOK, SeqInv, physics, schedule, producer, reader, ending
<1>7. CASE FillQpos
  BY <1>7, CaptureAssumption
  DEF FillQpos, TypeOK, SeqInv, physics, schedule, producer, reader, ending
<1>8. CASE Publish
  BY <1>8, CaptureAssumption
  DEF Publish, TypeOK, SeqInv, physics, schedule, producer, reader, ending
<1>9. CASE Wake
  BY <1>9, CaptureAssumption
  DEF Wake, TypeOK, SeqInv, physics, schedule, producer, reader, ending
<1>10. CASE Drain
  BY <1>10, CaptureAssumption
  DEF Drain, TypeOK, SeqInv, physics, schedule, producer, reader, ending
<1>11. CASE WriteTime
  BY <1>11, CaptureAssumption
  DEF WriteTime, TypeOK, SeqInv, physics, schedule, producer, reader, ending
<1>12. CASE WriteQpos
  BY <1>12, CaptureAssumption
  DEF WriteQpos, TypeOK, SeqInv, physics, schedule, producer, reader, ending
<1>13. CASE Release
  BY <1>13, CaptureAssumption
  DEF Release, TypeOK, SeqInv, physics, schedule, producer, reader, ending
<1>14. CASE Flush
  BY <1>14, CaptureAssumption
  DEF Flush, TypeOK, SeqInv, physics, schedule, producer, reader, ending
<1>15. CASE StreamFails
  BY <1>15, CaptureAssumption
  DEF StreamFails, TypeOK, SeqInv, physics, schedule, producer, reader,
      ending
<1>16. CASE Shutdown
  BY <1>16, CaptureAssumption
  DEF Shutdown, TypeOK, SeqInv, physics, schedule, producer, reader, ending
<1>17. CASE ControlEnds
  BY <1>17, CaptureAssumption
  DEF ControlEnds, TypeOK, SeqInv, physics, schedule, producer, reader,
      ending
<1>18. CASE Disable
  BY <1>18, CaptureAssumption
  DEF Disable, TypeOK, SeqInv, physics, schedule, producer, reader, ending
<1>19. CASE RequestStop
  BY <1>19, CaptureAssumption
  DEF RequestStop, TypeOK, SeqInv, physics, schedule, producer, reader,
      ending
<1>20. CASE Join
  BY <1>20, CaptureAssumption
  DEF Join, TypeOK, SeqInv, physics, schedule, producer, reader, ending
<1>21. CASE UNCHANGED vars
  BY <1>21 DEF vars, TypeOK, SeqInv, physics, schedule, producer, reader, ending
<1> QED
  BY <1>1, <1>2, <1>3, <1>4, <1>5, <1>6, <1>7, <1>8, <1>9, <1>10, <1>11,
     <1>12, <1>13, <1>14, <1>15, <1>16, <1>17, <1>18, <1>19, <1>20, <1>21
  DEF Next, Producer, Consumer, Ending

\* The ring keeps what was published.
LEMMA RingStep ==
  ASSUME TypeOK, SeqInv, RingInv, [Next]_vars
  PROVE  RingInv'
<1>1. CASE Step
  BY <1>1 DEF Step, RingInv, producer, reader
<1>2. ASSUME NEW f \in Fields, Copy(f) PROVE RingInv'
  BY <1>2 DEF Copy, RingInv, producer, reader
<1>3. CASE BeginCycle
  BY <1>3 DEF BeginCycle, RingInv, producer, reader
<1>4. CASE Update
  BY <1>4 DEF Update, RingInv, producer, reader
<1>5. CASE Acquire
  BY <1>5 DEF Acquire, RingInv, producer, reader
<1>6. CASE FillTime
  BY <1>6, FillKeepsRing DEF FillTime, SeqInv, Fields, reader
<1>7. CASE FillQpos
  BY <1>7, FillKeepsRing DEF FillQpos, SeqInv, Fields, reader
<1>8. CASE Publish
  <2>1. /\ pending = write_sequence /\ Len(captured) = write_sequence
        /\ write_sequence' = pending + 1 /\ UNCHANGED << ring, read_sequence >>
        /\ captured' = Append(captured, ring[Slot(pending)])
    BY <1>8 DEF Publish, SeqInv, reader
  <2>2. ring[Slot(pending)] \in Samples /\ write_sequence \in Nat
    BY SlotTypes DEF TypeOK
  <2>3. ASSUME NEW n \in Nat, read_sequence <= n, n < write_sequence + 1
        PROVE  ring[Slot(n)] = captured'[n + 1]
    <3>1. CASE n = write_sequence
      BY <2>1, <2>2, <3>1 DEF TypeOK
    <3>2. CASE n < write_sequence
      <4>1. captured'[n + 1] = captured[n + 1]
        BY <2>1, <2>2, <3>2 DEF TypeOK
      <4> QED
        BY <2>3, <3>2, <4>1 DEF RingInv
    <3> QED
      BY <2>2, <2>3, <3>1, <3>2
  <2> QED
    BY <2>1, <2>3 DEF RingInv
<1>9. CASE Wake
  BY <1>9 DEF Wake, RingInv, producer, reader
<1>10. CASE Drain
  BY <1>10 DEF Drain, RingInv, producer, reader
<1>11. CASE WriteTime
  BY <1>11 DEF WriteTime, RingInv, producer, reader
<1>12. CASE WriteQpos
  BY <1>12 DEF WriteQpos, RingInv, producer, reader
<1>13. CASE Release
  BY <1>13 DEF Release, RingInv, TypeOK, producer
<1>14. CASE Flush
  BY <1>14 DEF Flush, RingInv, producer, reader
<1>15. CASE StreamFails
  BY <1>15 DEF StreamFails, RingInv, producer, reader
<1>16. CASE Shutdown
  BY <1>16 DEF Shutdown, RingInv, producer, reader
<1>17. CASE ControlEnds
  BY <1>17 DEF ControlEnds, RingInv, producer, reader
<1>18. CASE Disable
  BY <1>18 DEF Disable, RingInv, producer, reader
<1>19. CASE RequestStop
  BY <1>19 DEF RequestStop, RingInv, producer, reader
<1>20. CASE Join
  BY <1>20 DEF Join, RingInv, producer, reader
<1>21. CASE UNCHANGED vars
  BY <1>21 DEF vars, RingInv, physics, schedule, producer, reader, ending
<1> QED
  BY <1>1, <1>2, <1>3, <1>4, <1>5, <1>6, <1>7, <1>8, <1>9, <1>10, <1>11,
     <1>12, <1>13, <1>14, <1>15, <1>16, <1>17, <1>18, <1>19, <1>20, <1>21
  DEF Next, Producer, Consumer, Ending

\* The rows stay what they were when a sample is added to those captured.
LEMMA RowsStay ==
  ASSUME TypeOK, FileInv, NEW s \in Samples, captured' = Append(captured, s),
         UNCHANGED << rows, broken, read_sequence, line, consumer >>,
         consumer = "qpos" => read_sequence < Len(captured)
  PROVE  FileInv'
<1>1. /\ Len(captured') = Len(captured) + 1
      /\ \A i \in 1 .. Len(captured) : captured'[i] = captured[i]
      /\ Len(captured) \in Nat /\ Len(rows) \in Nat /\ read_sequence \in Nat
  BY DEF TypeOK
<1>2. RowsAreTheSamples'
  BY <1>1 DEF FileInv, RowsAreTheSamples
<1>3. consumer = "qpos" => captured'[read_sequence + 1] = captured[read_sequence + 1]
  BY <1>1
<1> QED
  BY <1>2, <1>3 DEF FileInv

\* The file follows the samples.
LEMMA FileStep ==
  ASSUME TypeOK, SeqInv, RingInv, FileInv, [Next]_vars
  PROVE  FileInv'
<1>1. CASE Step
  BY <1>1 DEF Step, FileInv, RowsAreTheSamples, producer, reader
<1>2. ASSUME NEW f \in Fields, Copy(f) PROVE FileInv'
  BY <1>2 DEF Copy, FileInv, RowsAreTheSamples, producer, reader
<1>3. CASE BeginCycle
  BY <1>3 DEF BeginCycle, FileInv, RowsAreTheSamples, producer, reader
<1>4. CASE Update
  BY <1>4 DEF Update, FileInv, RowsAreTheSamples, producer, reader
<1>5. CASE Acquire
  BY <1>5 DEF Acquire, FileInv, RowsAreTheSamples, producer, reader
<1>6. CASE FillTime
  BY <1>6 DEF FillTime, FileInv, RowsAreTheSamples, producer, reader
<1>7. CASE FillQpos
  BY <1>7 DEF FillQpos, FileInv, RowsAreTheSamples, producer, reader
<1>8. CASE Publish
  <2>1. ring[Slot(pending)] \in Samples
    BY SlotTypes DEF TypeOK
  <2>2. consumer = "qpos" => read_sequence < Len(captured)
    BY DEF SeqInv, TypeOK
  <2> QED
    BY <1>8, <2>1, <2>2, RowsStay DEF Publish, reader
<1>9. CASE Wake
  BY <1>9 DEF Wake, FileInv, RowsAreTheSamples, producer, reader
<1>10. CASE Drain
  BY <1>10 DEF Drain, FileInv, RowsAreTheSamples, producer, reader
<1>11. CASE WriteTime
  <2>1. line' = captured[read_sequence + 1]["time"]
    BY <1>11 DEF WriteTime, SeqInv, RingInv, TypeOK
  <2> QED
    BY <1>11, <2>1 DEF WriteTime, FileInv, RowsAreTheSamples, producer
<1>12. CASE WriteQpos
  <2> DEFINE sample == captured[read_sequence + 1]
  <2>1. /\ rows' = IF broken THEN rows ELSE Append(rows, sample)
        /\ sample \in Samples /\ read_sequence < write_sequence
        /\ consumer = "qpos" /\ consumer' = "release"
        /\ UNCHANGED << captured, read_sequence, broken >>
    BY <1>12, RowIsSample DEF WriteQpos, producer
  <2>2. CASE broken
    BY <2>1, <2>2 DEF FileInv, RowsAreTheSamples
  <2>3. CASE ~broken
    <3>1. Len(rows) = read_sequence /\ Len(captured) = write_sequence
      BY <2>1, <2>3 DEF FileInv, SeqInv
    <3>2. /\ Len(rows') = Len(rows) + 1 /\ rows'[Len(rows) + 1] = sample
          /\ \A i \in 1 .. Len(rows) : rows'[i] = rows[i]
      BY <2>1, <2>3 DEF TypeOK
    <3>3. RowsAreTheSamples'
      BY <2>1, <3>1, <3>2 DEF FileInv, RowsAreTheSamples, TypeOK
    <3> QED
      BY <2>1, <3>1, <3>2, <3>3 DEF FileInv
  <2> QED
    BY <2>2, <2>3
<1>13. CASE Release
  BY <1>13 DEF Release, FileInv, RowsAreTheSamples, producer
<1>14. CASE Flush
  BY <1>14 DEF Flush, FileInv, RowsAreTheSamples, producer, reader
<1>15. CASE StreamFails
  BY <1>15 DEF StreamFails, FileInv, RowsAreTheSamples, producer, reader
<1>16. CASE Shutdown
  BY <1>16 DEF Shutdown, FileInv, RowsAreTheSamples, producer, reader
<1>17. CASE ControlEnds
  BY <1>17 DEF ControlEnds, FileInv, RowsAreTheSamples, producer, reader
<1>18. CASE Disable
  BY <1>18 DEF Disable, FileInv, RowsAreTheSamples, producer, reader
<1>19. CASE RequestStop
  BY <1>19 DEF RequestStop, FileInv, RowsAreTheSamples, producer, reader
<1>20. CASE Join
  BY <1>20 DEF Join, FileInv, RowsAreTheSamples, producer, reader
<1>21. CASE UNCHANGED vars
  BY <1>21 DEF vars, FileInv, RowsAreTheSamples, physics, schedule, producer, reader,
      ending
<1> QED
  BY <1>1, <1>2, <1>3, <1>4, <1>5, <1>6, <1>7, <1>8, <1>9, <1>10, <1>11,
     <1>12, <1>13, <1>14, <1>15, <1>16, <1>17, <1>18, <1>19, <1>20, <1>21
  DEF Next, Producer, Consumer, Ending

\* The threads end in their order.
LEMMA EndStep ==
  ASSUME TypeOK, SeqInv, EndInv, [Next]_vars
  PROVE  EndInv'
<1>1. CASE Step
  BY <1>1
  DEF Step, TypeOK, SeqInv, EndInv, physics, schedule, producer, reader,
      ending
<1>2. ASSUME NEW f \in Fields, Copy(f) PROVE EndInv'
  BY <1>2
  DEF Copy, TypeOK, SeqInv, EndInv, physics, schedule, producer, reader,
      ending
<1>3. CASE BeginCycle
  BY <1>3
  DEF BeginCycle, TypeOK, SeqInv, EndInv, physics, schedule, producer,
      reader, ending
<1>4. CASE Update
  BY <1>4
  DEF Update, TypeOK, SeqInv, EndInv, physics, schedule, producer, reader,
      ending
<1>5. CASE Acquire
  BY <1>5
  DEF Acquire, TypeOK, SeqInv, EndInv, physics, schedule, producer, reader,
      ending
<1>6. CASE FillTime
  BY <1>6
  DEF FillTime, TypeOK, SeqInv, EndInv, physics, schedule, producer, reader,
      ending
<1>7. CASE FillQpos
  BY <1>7
  DEF FillQpos, TypeOK, SeqInv, EndInv, physics, schedule, producer, reader,
      ending
<1>8. CASE Publish
  BY <1>8
  DEF Publish, TypeOK, SeqInv, EndInv, physics, schedule, producer, reader,
      ending
<1>9. CASE Wake
  BY <1>9
  DEF Wake, TypeOK, SeqInv, EndInv, physics, schedule, producer, reader,
      ending
<1>10. CASE Drain
  BY <1>10
  DEF Drain, TypeOK, SeqInv, EndInv, physics, schedule, producer, reader,
      ending
<1>11. CASE WriteTime
  BY <1>11
  DEF WriteTime, TypeOK, SeqInv, EndInv, physics, schedule, producer, reader,
      ending
<1>12. CASE WriteQpos
  BY <1>12
  DEF WriteQpos, TypeOK, SeqInv, EndInv, physics, schedule, producer, reader,
      ending
<1>13. CASE Release
  BY <1>13
  DEF Release, TypeOK, SeqInv, EndInv, physics, schedule, producer, reader,
      ending
<1>14. CASE Flush
  BY <1>14
  DEF Flush, TypeOK, SeqInv, EndInv, physics, schedule, producer, reader,
      ending
<1>15. CASE StreamFails
  BY <1>15
  DEF StreamFails, TypeOK, SeqInv, EndInv, physics, schedule, producer,
      reader, ending
<1>16. CASE Shutdown
  BY <1>16
  DEF Shutdown, TypeOK, SeqInv, EndInv, physics, schedule, producer, reader,
      ending
<1>17. CASE ControlEnds
  BY <1>17
  DEF ControlEnds, TypeOK, SeqInv, EndInv, physics, schedule, producer,
      reader, ending
<1>18. CASE Disable
  BY <1>18
  DEF Disable, TypeOK, SeqInv, EndInv, physics, schedule, producer, reader,
      ending
<1>19. CASE RequestStop
  BY <1>19
  DEF RequestStop, TypeOK, SeqInv, EndInv, physics, schedule, producer,
      reader, ending
<1>20. CASE Join
  BY <1>20
  DEF Join, TypeOK, SeqInv, EndInv, physics, schedule, producer, reader,
      ending
<1>21. CASE UNCHANGED vars
  BY <1>21 DEF vars, TypeOK, SeqInv, EndInv, physics, schedule, producer, reader, ending
<1> QED
  BY <1>1, <1>2, <1>3, <1>4, <1>5, <1>6, <1>7, <1>8, <1>9, <1>10, <1>11,
     <1>12, <1>13, <1>14, <1>15, <1>16, <1>17, <1>18, <1>19, <1>20, <1>21
  DEF Next, Producer, Consumer, Ending

\* Every step keeps the invariant.
LEMMA NextInv == IInv /\ [Next]_vars => IInv'
BY TypeStep, StepStep, ScheduleStep, SeqStep, RingStep, FileStep, EndStep DEF IInv

\* The invariant of the capture.
THEOREM CaptureInvariant == Spec => []IInv
  BY InitInv, NextInv, PTL DEF Spec

\* The variables keep their types.
THEOREM TypeCorrect == Spec => []TypeOK
<1>1. IInv => TypeOK
  BY DEF IInv
<1> QED
  BY <1>1, CaptureInvariant, PTL

\* The rows of the file are the samples, whole and in order.
THEOREM RowsTrue == Spec => []RowsAreTheSamples
<1>1. IInv => RowsAreTheSamples
  BY DEF IInv, FileInv
<1> QED
  BY <1>1, CaptureInvariant, PTL

\* When the consumer has ended, the file has every sample.
LEMMA AllWritten ==
  ASSUME IInv, consumer = "done", ~broken
  PROVE  rows = captured
<1>1. Len(rows) = Len(captured)
  BY DEF IInv, EndInv, FileInv, SeqInv
<1>2. \A i \in 1 .. Len(rows) : rows[i] = captured[i]
  BY DEF IInv, FileInv, RowsAreTheSamples
<1> QED
  BY <1>1, <1>2 DEF IInv, TypeOK

\* A closed file has every sample that was published.
THEOREM FileComplete == Spec => []NothingLost
<1>1. IInv => NothingLost
  BY AllWritten DEF NothingLost, IInv, EndInv
<1> QED
  BY <1>1, CaptureInvariant, PTL

\* The next sample is due within a period.
THEOREM ScheduleKept == Spec => []ScheduleNear
<1>1. IInv => ScheduleNear
  BY DEF IInv
<1> QED
  BY <1>1, CaptureInvariant, PTL

-----------------------------------------------------------------------------
(* As long as the simulation was not reset, the times of the samples grow: *)
(* the clock of the control copy does not go back, and a sample leaves the *)
(* next due time after its own.                                            *)

SampleTime(i) == TimeOf(captured[i]["time"])

\* The times of the rows grow.
TimesGrow ==
  \A i, j \in 1 .. Len(rows) : i < j => TimeOf(rows[i]["time"]) < TimeOf(rows[j]["time"])

\* update has decided on a sample that is not published yet.
Sampling == control \in {"acquire", "time", "qpos", "publish"}

\* The slot has the time update has read.
SlotTimeInv ==
  control \in {"qpos", "publish"} => ring[Slot(pending)]["time"] = taken

\* The clock the control loop sees.
ClockInv ==
  resets = 0 =>
    /\ copied["time"].since <= live.since
    /\ previous_time <= TimeOf(copied["time"])

\* A sample is due after those before it.
DueInv ==
  resets = 0 =>
    /\ ~scheduled => captured = << >> /\ ~Sampling
    /\ Sampling => TimeOf(taken) < next_capture_time
    /\ \A i \in 1 .. Len(captured) :
         /\ SampleTime(i) < next_capture_time
         /\ Sampling => SampleTime(i) < TimeOf(taken)
         /\ \A j \in 1 .. Len(captured) : i < j => SampleTime(i) < SampleTime(j)

ForwardInv == SlotTimeInv /\ ClockInv /\ DueInv

\* More steps, a later time.
LEMMA LaterTime ==
  ASSUME NEW m \in Moments, NEW n \in Moments, m.since <= n.since
  PROVE  TimeOf(m) <= TimeOf(n)
<1>1. m.since \in Nat /\ n.since \in Nat /\ TimeStep \in Nat
  BY CaptureAssumption DEF Moments
<1>2. PICK d \in Nat : n.since = m.since + d
  BY <1>1, n.since - m.since \in Nat
<1>3. TimeStep * n.since = TimeStep * m.since + TimeStep * d
  BY <1>1, <1>2
<1>4. TimeStep * d \in Nat /\ TimeStep * m.since \in Nat
  BY <1>1
<1> QED
  BY <1>3, <1>4 DEF TimeOf

\* The times of the samples are numbers.
LEMMA SampleTimes ==
  ASSUME TypeOK
  PROVE  /\ \A i \in 1 .. Len(captured) : SampleTime(i) \in Nat
         /\ TimeOf(taken) \in Nat /\ TimeOf(copied["time"]) \in Nat
         /\ TimeOf(live) \in Nat
<1>1. /\ captured \in Seq(Samples) /\ taken \in Moments
      /\ copied \in Samples /\ live \in Moments
  BY Zenon DEF TypeOK
<1>2. \A s \in Samples : s["time"] \in Moments
  BY DEF Samples, Fields
<1> QED
  BY <1>1, <1>2, TimeIsNat DEF SampleTime

LEMMA ForwardInit == Init => ForwardInv
<1> SUFFICES ASSUME Init PROVE ForwardInv
  OBVIOUS
<1>1. copied["time"] = Start /\ TimeOf(Start) = 0
  BY CaptureAssumption DEF Init, Blank, Fields, Start, TimeOf
<1> QED
  BY <1>1 DEF Init, ForwardInv, SlotTimeInv, ClockInv, DueInv, Sampling, Start

\* The slot being filled keeps its time.
LEMMA SlotTimeStep ==
  ASSUME TypeOK, SlotTimeInv, [Next]_vars
  PROVE  SlotTimeInv'
<1>1. pending \in Nat /\ Slot(pending) \in DOMAIN ring
      /\ DOMAIN ring[Slot(pending)] = Fields
  BY SlotTypes, SlotInRing DEF TypeOK
<1>2. CASE FillTime
  BY <1>1, <1>2 DEF FillTime, SlotTimeInv, Slot, Fields
<1>3. CASE FillQpos
  BY <1>1, <1>3 DEF FillQpos, SlotTimeInv, Slot, Fields
<1>4. CASE control' \notin {"qpos", "publish"}
  BY <1>4 DEF SlotTimeInv
<1>5. CASE UNCHANGED << control, ring, pending, taken >>
  BY <1>5 DEF SlotTimeInv, Slot
<1> QED
  BY <1>2, <1>3, <1>4, <1>5
  DEF Next, Producer, Consumer, Ending, vars, producer, Step, Copy, BeginCycle,
      Update, Acquire, Publish, Wake, Drain, WriteTime, WriteQpos, Release, Flush,
      StreamFails, Shutdown, ControlEnds, Disable, RequestStop, Join

\* The clock goes forward.
LEMMA ClockStep ==
  ASSUME TypeOK, ClockInv, [Next]_vars
  PROVE  ClockInv'
<1>1. CASE Step
  <2> SUFFICES ASSUME resets' = 0 PROVE ClockInv'
    BY DEF ClockInv
  <2>1. /\ live'.since = live.since + 1 /\ resets = 0
        /\ UNCHANGED << copied, previous_time >>
    BY <1>1 DEF Step, TypeOK, schedule
  <2> QED
    BY <2>1 DEF ClockInv, TypeOK, Samples, Moments, Fields
<1>2. ASSUME NEW f \in Fields, Copy(f) PROVE ClockInv'
  <2> SUFFICES ASSUME resets = 0 PROVE ClockInv'
    BY <1>2 DEF Copy, ClockInv
  <2>1. /\ copied'["time"] \in {copied["time"], live}
        /\ UNCHANGED << live, previous_time >>
    BY <1>2 DEF Copy, TypeOK, Samples, schedule
  <2>2. copied["time"] \in Moments /\ live \in Moments /\ live.since <= live.since
    BY DEF TypeOK, Samples, Fields, Moments
  <2>3. TimeOf(copied["time"]) <= TimeOf(live)
    BY <2>2, LaterTime DEF ClockInv
  <2>4. previous_time <= TimeOf(copied'["time"])
    BY <2>1, <2>3, SampleTimes DEF ClockInv, TypeOK
  <2> QED
    BY <2>1, <2>2, <2>4 DEF ClockInv
<1>3. CASE Update
  <2>1. /\ UNCHANGED << live, resets, copied >>
        /\ previous_time' \in {previous_time, TimeOf(copied["time"])}
    BY <1>3 DEF Update, physics, schedule
  <2>2. TimeOf(copied["time"]) <= TimeOf(copied["time"])
    BY SampleTimes
  <2> QED
    BY <2>1, <2>2 DEF ClockInv
<1>4. CASE UNCHANGED << live, resets, copied, previous_time >>
  BY <1>4 DEF ClockInv
<1> QED
  BY <1>1, <1>2, <1>3, <1>4
  DEF Next, Producer, Consumer, Ending, vars, physics, schedule, BeginCycle, Acquire,
      FillTime, FillQpos, Publish, Wake, Drain, WriteTime, WriteQpos, Release, Flush,
      StreamFails, Shutdown, ControlEnds, Disable, RequestStop, Join

\* A sample that is due is later than those before it.
LEMMA DueStep ==
  ASSUME TypeOK, ScheduleNear, SlotTimeInv, ClockInv, DueInv, [Next]_vars
  PROVE  DueInv'
<1>1. CASE Step
  BY <1>1 DEF Step, DueInv, Sampling, SampleTime, TypeOK, schedule, producer
<1>2. CASE Update
  <2> DEFINE now == TimeOf(copied["time"])
             due == IF ~scheduled \/ now < previous_time THEN now
                    ELSE next_capture_time
  <2> SUFFICES ASSUME resets = 0 PROVE DueInv'
    BY <1>2 DEF Update, DueInv, physics
  <2>1. /\ control = "read" /\ ~Sampling
        /\ UNCHANGED << resets, captured, copied >>
        /\ enabled => /\ scheduled' = TRUE
                      /\ next_capture_time' = IF now < due THEN due ELSE NextDue(due, now)
                      /\ control' = IF now < due THEN "idle" ELSE "acquire"
                      /\ taken' = copied["time"]
        /\ ~enabled => UNCHANGED << scheduled, next_capture_time, taken >> /\ control' = "idle"
    BY <1>2 DEF Update, physics, schedule, Sampling
  <2>2. now \in Nat /\ due \in Nat /\ ~(now < previous_time)
    BY SampleTimes DEF ClockInv, TypeOK
  <2>3. due <= now => /\ NextDue(due, now) \in Nat /\ now < NextDue(due, now)
    BY <2>2, NextDueNear
  <2>4. \A i \in 1 .. Len(captured) : SampleTime(i) < due
    BY <2>2 DEF DueInv
  <2>5. \A i \in 1 .. Len(captured) : SampleTime(i)' = SampleTime(i)
    BY <2>1 DEF SampleTime
  <2>6. CASE ~enabled
    BY <2>1, <2>5, <2>6 DEF DueInv, Sampling
  <2>7. CASE enabled /\ now < due
    <3>1. next_capture_time' = due /\ ~Sampling' /\ scheduled'
      BY <2>1, <2>7 DEF Sampling
    <3> HIDE DEF due, now
    <3> QED
      BY <2>1, <2>4, <2>5, <3>1 DEF DueInv
  <2>8. CASE enabled /\ ~(now < due)
    <3>1. /\ next_capture_time' = NextDue(due, now) /\ scheduled'
          /\ TimeOf(taken)' = now
      BY <2>1, <2>8
    <3> HIDE DEF due, now
    <3>2. \A i \in 1 .. Len(captured) :
            SampleTime(i) < now /\ SampleTime(i) < NextDue(due, now)
      BY <2>2, <2>3, <2>4, <2>8, SampleTimes
    <3> QED
      BY <2>1, <2>2, <2>3, <2>5, <2>8, <3>1, <3>2 DEF DueInv
  <2> QED
    BY <2>6, <2>7, <2>8
<1>3. CASE Publish
  <2> SUFFICES ASSUME resets = 0 PROVE DueInv'
    BY <1>3 DEF Publish, DueInv, physics
  <2>1. /\ captured' = Append(captured, ring[Slot(pending)])
        /\ ring[Slot(pending)]["time"] = taken
        /\ Sampling /\ ~Sampling'
        /\ UNCHANGED << resets, scheduled, next_capture_time >>
    BY <1>3 DEF Publish, SlotTimeInv, Sampling, physics, schedule
  <2>2. ring[Slot(pending)] \in Samples
    BY SlotTypes DEF TypeOK
  <2>3. /\ Len(captured') = Len(captured) + 1 /\ Len(captured) \in Nat
        /\ \A i \in 1 .. Len(captured) : captured'[i] = captured[i]
        /\ captured'[Len(captured) + 1] = ring[Slot(pending)]
    BY <2>1, <2>2 DEF TypeOK
  <2>4. /\ \A i \in 1 .. Len(captured) : SampleTime(i)' = SampleTime(i)
        /\ \A i \in 1 .. Len(captured') :
             i = Len(captured) + 1 => SampleTime(i)' = TimeOf(taken)
    BY <2>1, <2>3 DEF SampleTime, TimeOf
  <2>5. /\ TimeOf(taken) < next_capture_time /\ scheduled
        /\ \A i \in 1 .. Len(captured) :
             /\ SampleTime(i) < TimeOf(taken) /\ SampleTime(i) < next_capture_time
             /\ \A j \in 1 .. Len(captured) : i < j => SampleTime(i) < SampleTime(j)
    BY <2>1 DEF DueInv
  <2>6. ASSUME NEW i \in 1 .. Len(captured'), NEW j \in 1 .. Len(captured'), i < j
        PROVE  SampleTime(i)' < SampleTime(j)'
    <3>1. i \in 1 .. Len(captured)
      BY <2>3, <2>6
    <3>2. CASE j \in 1 .. Len(captured)
      BY <2>4, <2>5, <2>6, <3>1, <3>2
    <3>3. CASE j = Len(captured) + 1
      BY <2>3, <2>4, <2>5, <3>1, <3>3
    <3> QED
      BY <2>3, <3>2, <3>3
  <2>7. ASSUME NEW i \in 1 .. Len(captured')
        PROVE  SampleTime(i)' < next_capture_time'
    <3>1. CASE i \in 1 .. Len(captured)
      BY <2>1, <2>4, <2>5, <3>1
    <3>2. CASE i = Len(captured) + 1
      BY <2>1, <2>4, <2>5, <3>2
    <3> QED
      BY <2>3, <3>1, <3>2
  <2> QED
    BY <2>1, <2>5, <2>6, <2>7 DEF DueInv
<1>4. CASE /\ UNCHANGED << resets, scheduled, next_capture_time, taken, captured >>
           /\ Sampling' => Sampling
  BY <1>4 DEF DueInv, SampleTime
<1> QED
  BY <1>1, <1>2, <1>3, <1>4
  DEF Next, Producer, Consumer, Ending, vars, physics, schedule, producer, Copy,
      BeginCycle, Acquire, FillTime, FillQpos, Wake, Drain, WriteTime, WriteQpos,
      Release, Flush, StreamFails, Shutdown, ControlEnds, Disable, RequestStop, Join,
      Sampling

\* The clock, the schedule and the samples go forward together.
THEOREM ForwardInvariant == Spec => [](IInv /\ ForwardInv)
<1>1. Init => IInv /\ ForwardInv
  BY InitInv, ForwardInit
<1>2. IInv /\ ForwardInv /\ [Next]_vars => IInv' /\ ForwardInv'
  BY NextInv, SlotTimeStep, ClockStep, DueStep DEF IInv, ForwardInv
<1> QED
  BY <1>1, <1>2, PTL DEF Spec

\* The rows of a simulation that was not reset have growing times: the renderer,
\* which refuses times that go back, takes them all, and no two are of one time.
THEOREM TimesForward == Spec => [](resets = 0 => TimesGrow)
<1>1. IInv /\ ForwardInv => (resets = 0 => TimesGrow)
  <2> SUFFICES ASSUME IInv, ForwardInv, resets = 0,
                      NEW i \in 1 .. Len(rows), NEW j \in 1 .. Len(rows), i < j
               PROVE  TimeOf(rows[i]["time"]) < TimeOf(rows[j]["time"])
    BY DEF TimesGrow
  <2>1. /\ i \in 1 .. Len(captured) /\ j \in 1 .. Len(captured)
        /\ rows[i] = captured[i] /\ rows[j] = captured[j]
    BY DEF IInv, FileInv, RowsAreTheSamples, TypeOK
  <2> QED
    BY <2>1 DEF ForwardInv, DueInv, SampleTime
<1> QED
  BY <1>1, ForwardInvariant, PTL

-----------------------------------------------------------------------------
(* The capture implements the log.                                         *)

\* A step that touches neither samples nor rows is none of the log.
LEMMA LogStays ==
  ASSUME UNCHANGED << captured, rows, broken >>,
         (teardown' = "closed") <=> (teardown = "closed")
  PROVE  UNCHANGED Log!vars
BY DEF Log!vars

\* Every step is one of the log, or none.
LEMMA LogStep ==
  ASSUME IInv, IInv', [Next]_vars
  PROVE  [Log!Next]_Log!vars
<1>1. CASE Step
  BY <1>1, LogStays DEF Step, producer, reader, ending
<1>2. ASSUME NEW f \in Fields, Copy(f) PROVE [Log!Next]_Log!vars
  BY <1>2, LogStays DEF Copy, producer, reader, ending
<1>3. CASE BeginCycle
  BY <1>3, LogStays DEF BeginCycle, producer, reader, ending
<1>4. CASE Update
  BY <1>4, LogStays DEF Update, producer, reader, ending
<1>5. CASE Acquire
  BY <1>5, LogStays DEF Acquire, producer, reader, ending
<1>6. CASE FillTime
  BY <1>6, LogStays DEF FillTime, producer, reader, ending
<1>7. CASE FillQpos
  BY <1>7, LogStays DEF FillQpos, producer, reader, ending
<1>8. CASE Publish
  <2>1. ring[Slot(pending)] \in Samples
    BY SlotTypes DEF IInv, TypeOK
  <2>2. teardown # "closed"
    BY <1>8 DEF Publish, IInv, EndInv
  <2>3. broken \/ Len(captured) < Len(rows) + Capacity
    <3>1. write_sequence < read_sequence + Capacity /\ Len(captured) = write_sequence
      BY <1>8 DEF Publish, IInv, SeqInv
    <3>2. ~broken => Len(rows) = read_sequence \/ Len(rows) = read_sequence + 1
      BY DEF IInv, FileInv
    <3>3. read_sequence \in Nat /\ write_sequence \in Nat /\ Capacity \in Nat
      BY CaptureAssumption DEF IInv, TypeOK
    <3> QED
      BY <3>1, <3>2, <3>3
  <2> QED
    BY <1>8, <2>1, <2>2, <2>3 DEF Publish, reader, ending, Log!Next, Log!Capture
<1>9. CASE Wake
  BY <1>9, LogStays DEF Wake, producer, reader, ending
<1>10. CASE Drain
  BY <1>10, LogStays DEF Drain, producer, reader, ending
<1>11. CASE WriteTime
  BY <1>11, LogStays DEF WriteTime, producer, reader, ending
<1>12. CASE WriteQpos
  <2>1. /\ captured[read_sequence + 1] = [ring[Slot(read_sequence)] EXCEPT !["time"] = line]
        /\ read_sequence < write_sequence
    BY <1>12, RowIsSample DEF WriteQpos, IInv
  <2>2. teardown # "closed"
    BY <1>12 DEF WriteQpos, IInv, EndInv
  <2>3. CASE broken
    BY <1>12, <2>3, LogStays DEF WriteQpos, producer, ending
  <2>4. CASE ~broken
    <3>1. Len(rows) = read_sequence /\ Len(captured) = write_sequence
      BY <1>12, <2>4 DEF WriteQpos, IInv, FileInv, SeqInv
    <3>2. rows' = Append(rows, captured[Len(rows) + 1])
      BY <1>12, <2>1, <2>4, <3>1 DEF WriteQpos
    <3> QED
      BY <1>12, <2>1, <2>2, <2>4, <3>1, <3>2
      DEF WriteQpos, producer, ending, Log!Next, Log!Write
  <2> QED
    BY <2>3, <2>4
<1>13. CASE Release
  BY <1>13, LogStays DEF Release, producer, reader, ending
<1>14. CASE Flush
  BY <1>14, LogStays DEF Flush, producer, reader, ending
<1>15. CASE StreamFails
  BY <1>15 DEF StreamFails, producer, reader, ending, Log!Next, Log!Fail
<1>16. CASE Shutdown
  BY <1>16, LogStays DEF Shutdown, producer, reader, ending
<1>17. CASE ControlEnds
  BY <1>17, LogStays DEF ControlEnds, producer, reader, ending
<1>18. CASE Disable
  BY <1>18, LogStays DEF Disable, producer, reader, ending
<1>19. CASE RequestStop
  BY <1>19, LogStays DEF RequestStop, producer, reader, ending
<1>20. CASE Join
  <2>1. rows = captured \/ broken
    BY <1>20, AllWritten DEF Join
  <2> QED
    BY <1>20, <2>1 DEF Join, producer, reader, Log!Next, Log!Close
<1>21. CASE UNCHANGED vars
  BY <1>21, LogStays DEF vars, producer, reader, ending
<1> QED
  BY <1>1, <1>2, <1>3, <1>4, <1>5, <1>6, <1>7, <1>8, <1>9, <1>10, <1>11,
     <1>12, <1>13, <1>14, <1>15, <1>16, <1>17, <1>18, <1>19, <1>20, <1>21
  DEF Next, Producer, Consumer, Ending

\* The ring buffer and its threads implement the log: what is written is what
\* was sampled, in order, with no more than Capacity samples waiting.
THEOREM CaptureImplementsLog == Spec => ImplementsCaptureLog
<1>1. Init => Log!Init
  BY DEF Init, Log!Init
<1>2. IInv /\ [Next]_vars /\ IInv' => [Log!Next]_Log!vars
  BY LogStep
<1> QED
  BY <1>1, <1>2, CaptureInvariant, PTL DEF Spec, ImplementsCaptureLog, Log!Spec

-----------------------------------------------------------------------------
(* The film.  What makes the second reading safe is that the file only     *)
(* grows and that the times the first one took stay in order; the row that *)
(* was half written when it was inspected may be later than it looked,     *)
(* never earlier.                                                          *)

\* The file has this row whole; the last that was inspected may be in part.
Whole(row) == row <= Len(times)

\* The inspected times do not go back.
Ascending ==
  \A i, j \in 1 .. sample_count : i <= j /\ Whole(j) => times[i] <= times[j]

\* There is room for the row that is being written, and its digits grow.
TailInv ==
  /\ Len(times) <= MaxRows
  /\ tail # Finished => Len(times) < MaxRows /\ tail.seen <= tail.time

\* What inspect_capture knows while it reads.
InspectingInv ==
  phase = "inspect" =>
    /\ sample_count <= Len(times)
    /\ sample_count > 0 => first = times[1] /\ last = times[sample_count]
    /\ Ascending

\* What it found goes on to hold.
InspectedInv ==
  phase \notin {"inspect", "failed"} =>
    /\ sample_count >= 1 /\ start <= last
    /\ Ascending
    /\ ~Whole(sample_count) =>
         /\ tail # Finished /\ sample_count = Len(times) + 1
         /\ \A i \in 1 .. Len(times) : times[i] <= tail.seen
    /\ frame_count = (LET n == FramesFor(start, last)
                      IN IF max_frames # 0 /\ max_frames < n THEN max_frames ELSE n)

\* The sample being shown is not of the future, and the next one is read.
CursorInv ==
  /\ phase \in {"inspect", "model", "open"} => frames = << >>
  /\ phase = "draw" =>
       /\ current >= 1 /\ (current = 1 \/ times[current] <= FrameTime)
       /\ IF next_sample = NoRow THEN current >= sample_count
          ELSE next_sample = current + 1

\* A frame that shows the last whole row shows the last one inspected.
BehindInv ==
  \A k \in 1 .. Len(frames) : frames[k] >= sample_count \/ frames[k] < Len(times)

\* How many frames there are.
CountInv ==
  /\ phase \in {"open", "draw"} => Len(frames) < frame_count
  /\ phase = "encode" \/ encoder = "ended" => Len(frames) = frame_count

\* What there is to clean up, and why.
ProcessInv ==
  /\ phase \in {"inspect", "model"} =>
       encoder = "none" /\ ~temporary /\ cause \in {"none", "unfinished"}
  /\ phase \in {"open", "draw", "encode"} =>
       encoder \in {"running", "dead"} /\ temporary /\ cause # "left"
  /\ phase = "finally" =>
       temporary /\ cause # "left" /\ (encoder = "ended" \/ cause # "none")
  /\ phase = "created" => encoder = "ended"
  /\ encoder = "dead" => cause # "none"
  /\ buffered => frames # << >>

RenderInv ==
  /\ RenderTypeOK /\ TailInv /\ InspectingInv /\ InspectedInv
  /\ CursorInv /\ FramesLatest /\ BehindInv
  /\ CountInv /\ ProcessInv /\ RefusedForCause /\ CleanedUp

-----------------------------------------------------------------------------

\* The frames reach the end of the interval, and the last begins before it.
LEMMA FramesReach ==
  ASSUME NEW from \in Nat, NEW to \in Nat, from <= to
  PROVE  /\ FramesFor(from, to) \in Nat /\ FramesFor(from, to) >= 1
         /\ FramesFor(from, to) <= to - from + 1
         /\ from + FramePeriod * FramesFor(from, to) >= to
         /\ \/ FramesFor(from, to) = 1
            \/ from + FramePeriod * (FramesFor(from, to) - 1) < to
<1> DEFINE d == to - from + FramePeriod - 1
           q == d \div FramePeriod
<1>1. /\ d \in Nat /\ q \in Int /\ d = FramePeriod * q + (d % FramePeriod)
      /\ d % FramePeriod \in 0 .. FramePeriod - 1
  BY RenderAssumption
<1>2. FramesFor(from, to) = IF q = 0 THEN 1 ELSE q
  BY DEF FramesFor
<1>3. FramePeriod * (q - 1) = FramePeriod * q - FramePeriod /\ FramePeriod * q \in Int
  BY <1>1, RenderAssumption
<1>4. to - from <= FramePeriod * q /\ FramePeriod * (q - 1) <= to - from - 1
  BY <1>1, <1>3, RenderAssumption
<1> HIDE DEF q
<1>5. q >= 0
  <2>1. CASE q <= -1
    BY <1>1, <1>4, <2>1, RenderAssumption
  <2> QED
    BY <1>1, <2>1
<1>6. q = 0 \/ q - 1 <= FramePeriod * (q - 1)
  BY <1>1, <1>5, RenderAssumption
<1>7. CASE q = 0
  BY <1>1, <1>2, <1>4, <1>7, RenderAssumption
<1>8. CASE q # 0
  BY <1>1, <1>2, <1>3, <1>4, <1>5, <1>6, <1>8, RenderAssumption
<1> QED
  BY <1>7, <1>8

\* A frame is a period after the one before it.
LEMMA FrameTimes ==
  ASSUME NEW n \in Nat, NEW m \in Nat
  PROVE  /\ FramePeriod * n \in Nat
         /\ FramePeriod * (n + 1) = FramePeriod * n + FramePeriod
BY RenderAssumption

\* The times are numbers.
LEMMA RenderNumbers ==
  ASSUME RenderTypeOK
  PROVE  /\ start \in Nat /\ last \in Nat /\ Len(times) \in Nat /\ Len(frames) \in Nat
         /\ \A i \in 1 .. Len(times) : times[i] \in Nat
         /\ tail # Finished => tail.time \in Nat /\ tail.seen \in Nat
         /\ sample_count \in Nat
         /\ \A k \in 1 .. Len(frames) : frames[k] \in 1 .. Len(times)
<1>1. /\ times \in Seq(Times) /\ frames \in Seq(1 .. Len(times))
      /\ sample_count \in 0 .. MaxRows /\ start \in Times /\ last \in Times
      /\ tail \in Unfinished \cup {Finished}
  BY Zenon DEF RenderTypeOK
<1>2. Len(times) \in Nat /\ \A i \in 1 .. Len(times) : times[i] \in Nat
  BY <1>1, RenderAssumption DEF Times
<1>3. Len(frames) \in Nat /\ \A k \in 1 .. Len(frames) : frames[k] \in 1 .. Len(times)
  BY <1>1
<1>4. start \in Nat /\ last \in Nat /\ sample_count \in Nat
  BY <1>1, RenderAssumption DEF Times
<1>5. tail # Finished => tail.time \in Nat /\ tail.seen \in Nat
  BY <1>1, RenderAssumption DEF Unfinished, Times
<1> QED
  BY <1>2, <1>3, <1>4, <1>5

\* Where the film begins.
LEMMA WindowInside ==
  ASSUME NEW from \in Times, NEW to \in Times, from <= to, last_seconds \in Nat
  PROVE  WindowStart(from, to) \in Times /\ WindowStart(from, to) <= to
BY RenderAssumption DEF WindowStart, Times

\* A row more.
LEMMA RowAdded ==
  ASSUME times \in Seq(Times), NEW t \in Times, times' = Append(times, t)
  PROVE  /\ times' \in Seq(Times) /\ Len(times') = Len(times) + 1
         /\ \A i \in 1 .. Len(times) : times'[i] = times[i]
         /\ times'[Len(times) + 1] = t
OBVIOUS

\* A step of the capture appends to the file, or only changes the row after it.
LEMMA Growing ==
  ASSUME RenderTypeOK, TailInv, WriteRow \/ WritePart \/ WriteRest
  PROVE  /\ times' \in Seq(Times) /\ tail' \in Unfinished \cup {Finished}
         /\ Len(times') \in {Len(times), Len(times) + 1}
         /\ \A i \in 1 .. Len(times) : times'[i] = times[i]
         /\ tail # Finished => tail' = Finished /\ Len(times') = Len(times) + 1
                               /\ times'[Len(times) + 1] = tail.time
         /\ TailInv'
         /\ UNCHANGED << args, phase, inspected, drawn, process, cause >>
<1>1. CASE WriteRow
  <2>1. PICK t \in Times : times' = Append(times, t)
    BY <1>1 DEF WriteRow
  <2>2. /\ times \in Seq(Times) /\ tail = Finished /\ Len(times) < MaxRows
        /\ tail' = tail
        /\ UNCHANGED << args, phase, inspected, drawn, process, cause >>
    BY <1>1 DEF WriteRow, RenderTypeOK
  <2>3. /\ times' \in Seq(Times) /\ Len(times') = Len(times) + 1
        /\ \A i \in 1 .. Len(times) : times'[i] = times[i]
    BY <2>1, <2>2, RowAdded
  <2>4. TailInv'
    BY <2>2, <2>3, RenderAssumption DEF TailInv
  <2> QED
    BY <2>2, <2>3, <2>4
<1>2. CASE WritePart
  <2>1. PICK t \in Times : \E c \in 0 .. t : tail' = [time |-> t, seen |-> c]
    BY <1>2 DEF WritePart
  <2>2. tail' \in Unfinished /\ tail'.seen <= tail'.time
    BY <2>1, RenderAssumption DEF Unfinished, Times
  <2> QED
    BY <1>2, <2>2 DEF WritePart, RenderTypeOK, TailInv
<1>3. CASE WriteRest
  <2>1. tail.time \in Times
    BY <1>3 DEF WriteRest, RenderTypeOK, Unfinished
  <2>2. /\ times \in Seq(Times) /\ tail # Finished /\ tail' = Finished
        /\ times' = Append(times, tail.time)
        /\ UNCHANGED << args, phase, inspected, drawn, process, cause >>
    BY <1>3 DEF WriteRest, RenderTypeOK
  <2>3. /\ times' \in Seq(Times) /\ Len(times') = Len(times) + 1
        /\ \A i \in 1 .. Len(times) : times'[i] = times[i]
        /\ times'[Len(times) + 1] = tail.time
    BY <2>1, <2>2, RowAdded
  <2>4. TailInv'
    BY <2>2, <2>3, RenderAssumption DEF TailInv
  <2> QED
    BY <2>2, <2>3, <2>4
<1> QED
  BY <1>1, <1>2, <1>3

\* A step of the program, or of FFmpeg, leaves the file.
LEMMA Reading ==
  ASSUME [RenderNext]_renderVars, ~(WriteRow \/ WritePart \/ WriteRest)
  PROVE  UNCHANGED << times, tail, last_seconds, max_frames >>
BY DEF RenderNext, Program, InspectRow, InspectEnd, ModelFails, MakeModel,
       OpenSamples, Advance, Draw, Encode, Finally, EncoderDies, renderVars, file,
       args

LEMMA RenderInitInv == RenderInit => RenderInv
<1> SUFFICES ASSUME RenderInit PROVE RenderInv
  OBVIOUS
<1>1. RenderTypeOK
  <2>1. 0 \in Times /\ 0 \in 0 .. MaxRows /\ 0 \in 0 .. MaxTime + 1
    BY RenderAssumption DEF Times
  <2>2. times = << >> /\ Len(times) = 0 /\ frames = << >> /\ Len(frames) = 0
    BY DEF RenderInit
  <2>3. times \in Seq(Times) /\ frames \in Seq(1 .. Len(times))
    BY <2>2
  <2>4. /\ current \in 0 .. Len(times) /\ next_sample \in 0 .. Len(times)
        /\ Len(frames) <= frame_count
    BY <2>2 DEF RenderInit, NoRow
  <2>5. /\ last_seconds \in LastSeconds /\ max_frames \in MaxFrames
        /\ phase = "inspect" /\ temporary = FALSE /\ encoder = "none" /\ cause = "none"
        /\ tail = Finished /\ buffered = FALSE
    BY DEF RenderInit
  <2>6. sample_count = 0 /\ first = 0 /\ last = 0 /\ start = 0 /\ frame_count = 0
    BY DEF RenderInit
  <2> QED
    BY <2>1, <2>3, <2>4, <2>5, <2>6 DEF RenderTypeOK
<1>2. TailInv /\ InspectingInv /\ InspectedInv /\ CountInv
  BY RenderAssumption
  DEF RenderInit, TailInv, InspectingInv, InspectedInv, CountInv, Ascending
<1>3. CursorInv /\ FramesLatest /\ BehindInv
  BY DEF RenderInit, CursorInv, FramesLatest, BehindInv
<1>4. ProcessInv /\ RefusedForCause /\ CleanedUp
  BY DEF RenderInit, ProcessInv, RefusedForCause, CleanedUp, Over
<1> QED
  BY <1>1, <1>2, <1>3, <1>4 DEF RenderInv

\* The row taken is one of the file, or the one after it.
LEMMA TakeTypes ==
  ASSUME RenderTypeOK, TailInv, NEW t \in Times, Take(t),
         sample_count < Len(times) \/ (sample_count = Len(times) /\ tail # Finished)
  PROVE  /\ sample_count' \in 0 .. MaxRows
         /\ first' \in Times /\ last' \in Times
BY RenderAssumption DEF RenderTypeOK, TailInv, Take

\* What the inspection finds when it ends.
LEMMA InspectEndFinds ==
  ASSUME RenderTypeOK, TailInv, InspectingInv, InspectEnd
  PROVE  /\ sample_count' \in 0 .. MaxRows
         /\ first' \in Times /\ last' \in Times
         /\ phase' = "model" =>
              /\ sample_count' >= 1
              /\ start' = WindowStart(first', last')
              /\ start' \in Times /\ start' <= last'
              /\ FramesFor(start', last') \in Nat
              /\ FramesFor(start', last') >= 1
              /\ FramesFor(start', last') <= MaxTime + 1
              /\ frame_count' = (LET n == FramesFor(start', last')
                                  IN IF max_frames # 0 /\ max_frames < n
                                     THEN max_frames ELSE n)
         /\ phase' # "model" => phase' = "failed" /\ UNCHANGED << start, frame_count >>
<1>1. tail # Finished => tail.seen \in Times
  BY DEF RenderTypeOK, Unfinished
<1>2. /\ sample_count' \in 0 .. MaxRows
      /\ first' \in Times /\ last' \in Times
  <2>1. CASE tail = Finished
    BY <2>1 DEF InspectEnd, RenderTypeOK
  <2>2. CASE tail # Finished
    <3>1. Take(tail.seen) /\ sample_count = Len(times)
      BY <2>2 DEF InspectEnd
    <3> QED
      BY <1>1, <2>2, <3>1, TakeTypes
  <2> QED
    BY <2>1, <2>2
<1>3. ASSUME phase' = "model"
      PROVE  sample_count' >= 1 /\ first' <= last'
  <2>1. sample_count' # 0 /\ ~(tail # Finished /\ Backwards(tail.seen))
    BY <1>3 DEF InspectEnd
  <2>2. sample_count > 0 => first <= last
    BY DEF InspectEnd, InspectingInv, Ascending, RenderTypeOK, Whole
  <2>3. CASE tail = Finished
    BY <2>1, <2>2, <2>3 DEF InspectEnd, RenderTypeOK
  <2>4. CASE tail # Finished
    <3>1. Take(tail.seen)
      BY <2>4 DEF InspectEnd
    <3>2. sample_count = 0 \/ last <= tail.seen
      BY <1>1, <2>1, <2>4, RenderAssumption DEF Backwards, RenderTypeOK, Times
    <3> QED
      BY <1>1, <2>2, <2>4, <3>1, <3>2, RenderAssumption DEF Take, RenderTypeOK, Times
  <2> QED
    BY <2>3, <2>4
<1>4. last_seconds \in Nat
  BY RenderAssumption DEF RenderTypeOK
<1>5. ASSUME phase' = "model"
      PROVE  /\ start' = WindowStart(first', last')
             /\ frame_count' = (LET n == FramesFor(start', last')
                                 IN IF max_frames # 0 /\ max_frames < n
                                    THEN max_frames ELSE n)
  BY <1>5 DEF InspectEnd
<1>6. phase' = "model" => start' \in Times /\ start' <= last'
  BY <1>2, <1>3, <1>4, <1>5, WindowInside
<1>7. phase' = "model" => /\ FramesFor(start', last') \in Nat
                          /\ FramesFor(start', last') >= 1
                          /\ FramesFor(start', last') <= MaxTime + 1
  <2> SUFFICES ASSUME phase' = "model" PROVE <1>7!2
    OBVIOUS
  <2>1. start' \in Nat /\ last' \in Nat /\ last' <= MaxTime /\ start' <= last'
    BY <1>2, <1>6, RenderAssumption DEF Times
  <2> QED
    BY <2>1, FramesReach, RenderAssumption
<1>8. phase' # "model" => phase' = "failed" /\ UNCHANGED << start, frame_count >>
  BY DEF InspectEnd
<1> QED
  BY <1>2, <1>3, <1>5, <1>6, <1>7, <1>8

\* The rows the second reading gives.
LEMMA ReadTypes ==
  ASSUME RenderTypeOK, NEW row \in Nat \ {0}, Read(row)
  PROVE  /\ phase' \in {"draw", "finally"} /\ cause' \in {cause, "unfinished"}
         /\ next_sample' \in 0 .. Len(times)
         /\ phase' = "draw" => /\ next_sample' = IF Whole(row) THEN row ELSE NoRow
                               /\ ~Whole(row) => tail = Finished
BY DEF RenderTypeOK, Read, NoRow, Whole

LEMMA RenderTypeStep ==
  ASSUME RenderTypeOK, TailInv, InspectingInv, InspectedInv, CursorInv, CountInv,
         [RenderNext]_renderVars
  PROVE  RenderTypeOK'
<1>1. CASE WriteRow \/ WritePart \/ WriteRest
  BY <1>1, Growing
  DEF RenderTypeOK, args, inspected, drawn, process
<1>2. CASE InspectRow
  <2>1. times[sample_count + 1] \in Times
    BY <1>2 DEF InspectRow, RenderTypeOK
  <2> QED
    BY <1>2, <2>1, TakeTypes
    DEF InspectRow, RenderTypeOK, file, args, inspected, drawn, process
<1>3. CASE InspectEnd
  <2>1. frame_count' \in 0 .. MaxTime + 1 /\ start' \in Times
    BY <1>3, InspectEndFinds, RenderAssumption DEF RenderTypeOK
  <2>2. Len(frames) = 0
    BY <1>3 DEF InspectEnd, CursorInv
  <2> QED
    BY <1>3, <2>1, <2>2, InspectEndFinds
    DEF InspectEnd, RenderTypeOK, file, args, drawn, process
<1>4. CASE ModelFails
  BY <1>4 DEF ModelFails, RenderTypeOK, file, args, inspected, drawn
<1>5. CASE MakeModel
  BY <1>5 DEF MakeModel, RenderTypeOK, file, args, inspected, drawn
<1>6. CASE EncoderDies
  BY <1>6 DEF EncoderDies, RenderTypeOK, file, args, inspected, drawn
<1>7. CASE OpenSamples
  <2>1. CASE times = << >>
    BY <1>7, <2>1 DEF OpenSamples, RenderTypeOK, file, args, inspected, process
  <2>2. CASE times # << >>
    <3>1. current' = 1 /\ Read(2) /\ Len(times) >= 1
      BY <1>7, <2>2 DEF OpenSamples, RenderTypeOK
    <3> QED
      BY <1>7, <3>1, ReadTypes DEF OpenSamples, RenderTypeOK, file, args, inspected, process
  <2> QED
    BY <2>1, <2>2
<1>8. CASE Advance
  <2>1. next_sample \in Nat /\ next_sample # 0
    BY <1>8 DEF Advance, SampleDue, NoRow, RenderTypeOK
  <2> QED
    BY <1>8, <2>1, ReadTypes DEF Advance, RenderTypeOK, file, args, inspected, process
<1>9. CASE Draw
  <2>1. frames' \in Seq(1 .. Len(times)) /\ Len(frames') <= frame_count
    <3>1. current \in 1 .. Len(times) /\ frames \in Seq(1 .. Len(times))
      BY <1>9 DEF Draw, RenderTypeOK, CursorInv
    <3>2. frames' \in {frames, Append(frames, current)}
      BY <1>9 DEF Draw
    <3>3. Len(frames) < frame_count /\ frame_count \in Nat
      BY <1>9, RenderAssumption DEF Draw, RenderTypeOK, CountInv
    <3>4. /\ Append(frames, current) \in Seq(1 .. Len(times))
          /\ Len(Append(frames, current)) = Len(frames) + 1 /\ Len(frames) \in Nat
      BY <3>1
    <3>5. CASE frames' = frames
      BY <3>1, <3>3, <3>4, <3>5
    <3>6. CASE frames' = Append(frames, current)
      BY <3>3, <3>4, <3>6
    <3> QED
      BY <3>2, <3>5, <3>6
  <2> QED
    BY <1>9, <2>1 DEF Draw, RenderTypeOK, file, args, inspected, process
<1>10. CASE Encode
  BY <1>10 DEF Encode, RenderTypeOK, file, args, inspected, drawn
<1>11. CASE Finally
  <2>1. /\ temporary' \in BOOLEAN /\ buffered' \in BOOLEAN
        /\ encoder' \in {"none", "running", "dead", "ended"}
    BY <1>11 DEF Finally, RenderTypeOK, process
  <2> QED
    BY <1>11, <2>1 DEF Finally, RenderTypeOK, file, args, inspected, drawn
<1>12. CASE UNCHANGED renderVars
  BY <1>12 DEF renderVars, RenderTypeOK, file, args, inspected, drawn, process
<1> QED
  BY <1>1, <1>2, <1>3, <1>4, <1>5, <1>6, <1>7, <1>8, <1>9, <1>10, <1>11, <1>12
  DEF RenderNext, Program

\* The tail is only changed by the capture.
LEMMA TailStep ==
  ASSUME RenderTypeOK, TailInv, [RenderNext]_renderVars
  PROVE  TailInv'
<1>1. CASE WriteRow \/ WritePart \/ WriteRest
  BY <1>1, Growing
<1>2. CASE ~(WriteRow \/ WritePart \/ WriteRest)
  BY <1>2, Reading DEF TailInv
<1> QED
  BY <1>1, <1>2

\* The inspected times of a file that grows stay in order.
LEMMA StillAscending ==
  ASSUME RenderTypeOK, TailInv, Ascending, WriteRow \/ WritePart \/ WriteRest,
         ~Whole(sample_count) =>
           /\ tail # Finished /\ sample_count = Len(times) + 1
           /\ \A i \in 1 .. Len(times) : times[i] <= tail.seen
  PROVE  Ascending'
<1> SUFFICES ASSUME NEW i \in 1 .. sample_count, NEW j \in 1 .. sample_count,
                    i <= j, j <= Len(times')
             PROVE  times'[i] <= times'[j]
  BY Growing DEF Ascending, Whole, inspected
<1>1. CASE j <= Len(times)
  <2>1. i \in 1 .. Len(times) /\ j \in 1 .. Len(times)
    BY <1>1 DEF RenderTypeOK
  <2>2. times'[i] = times[i] /\ times'[j] = times[j]
    BY <2>1, Growing
  <2> QED
    BY <1>1, <2>2 DEF Ascending, Whole
<1>2. CASE j > Len(times)
  <2>1. /\ j = Len(times) + 1 /\ tail # Finished /\ times'[j] = tail.time
        /\ \A k \in 1 .. Len(times) : times[k] <= tail.seen
        /\ tail.seen <= tail.time
    BY <1>2, Growing DEF RenderTypeOK, Whole, TailInv
  <2>2. tail.time \in Nat /\ tail.seen \in Nat
    BY <2>1, RenderAssumption DEF RenderTypeOK, Unfinished, Times
  <2>3. CASE i = j
    BY <2>1, <2>2, <2>3
  <2>4. CASE i < j
    <3>1. i \in 1 .. Len(times)
      BY <2>1, <2>4 DEF RenderTypeOK
    <3>2. times'[i] = times[i] /\ times[i] <= tail.seen
      BY <2>1, <3>1, Growing
    <3>3. times[i] \in Nat
      BY <3>1, RenderNumbers
    <3> QED
      BY <2>1, <2>2, <3>2, <3>3
  <2> QED
    BY <2>3, <2>4
<1> QED
  BY <1>1, <1>2 DEF RenderTypeOK

\* A time that does not go back keeps them in order.
LEMMA TakeAscends ==
  ASSUME RenderTypeOK, InspectingInv, phase = "inspect", NEW t \in Times, Take(t),
         ~Backwards(t), times' = times
  PROVE  /\ sample_count' = sample_count + 1
         /\ \A i \in 1 .. sample_count : times[i] <= t
<1>1. sample_count > 0 => last <= t
  BY RenderNumbers, RenderAssumption DEF Backwards, Times
<1>2. \A i \in 1 .. sample_count : times[i] <= last
  BY RenderNumbers DEF InspectingInv, Ascending, Whole
<1>3. last \in Nat /\ t \in Nat /\ sample_count \in Nat
  BY RenderNumbers, RenderAssumption DEF Times
<1>4. \A i \in 1 .. sample_count : times[i] \in Nat
  BY <1>3, RenderNumbers DEF InspectingInv
<1> QED
  BY <1>1, <1>2, <1>3, <1>4 DEF Take

LEMMA InspectingStep ==
  ASSUME RenderTypeOK, TailInv, InspectingInv, [RenderNext]_renderVars
  PROVE  InspectingInv'
<1>1. CASE WriteRow \/ WritePart \/ WriteRest
  <2> SUFFICES ASSUME phase = "inspect" PROVE InspectingInv'
    BY <1>1, Growing DEF InspectingInv
  <2>1. /\ sample_count' = sample_count /\ first' = first /\ last' = last
        /\ Len(times') >= Len(times)
        /\ \A i \in 1 .. Len(times) : times'[i] = times[i]
    BY <1>1, Growing DEF RenderTypeOK, inspected
  <2>2. Ascending'
    BY <1>1, StillAscending DEF InspectingInv, Whole
  <2>3. sample_count <= Len(times) /\ Len(times') \in Nat
    BY <1>1, Growing, RenderNumbers DEF InspectingInv
  <2>4. sample_count > 0 => first = times'[1] /\ last = times'[sample_count]
    BY <2>1, <2>3, RenderNumbers DEF InspectingInv
  <2> QED
    BY <2>1, <2>2, <2>3, <2>4, RenderNumbers DEF InspectingInv
<1>2. CASE InspectRow
  <2> DEFINE t == times[sample_count + 1]
  <2> SUFFICES ASSUME phase' = "inspect" PROVE InspectingInv'
    BY DEF InspectingInv
  <2>1. t \in Times /\ sample_count < Len(times) /\ phase = "inspect" /\ times' = times
    BY <1>2 DEF InspectRow, RenderTypeOK, file
  <2>2. Take(t) /\ ~Backwards(t)
    BY <1>2 DEF InspectRow
  <2>3. /\ sample_count' = sample_count + 1
        /\ \A i \in 1 .. sample_count : times[i] <= t
    BY <2>1, <2>2, TakeAscends
  <2>4. t <= t
    BY <2>1, RenderAssumption DEF Times
  <2>5. Ascending'
    BY <2>1, <2>3, <2>4 DEF InspectingInv, Ascending, Whole, RenderTypeOK
  <2>6. first' = times[1] /\ last' = times[sample_count']
    BY <2>1, <2>2, <2>3 DEF Take, InspectingInv, RenderTypeOK
  <2> QED
    BY <2>1, <2>3, <2>5, <2>6 DEF InspectingInv, RenderTypeOK
<1>3. CASE phase' # "inspect"
  BY <1>3 DEF InspectingInv
<1>4. CASE UNCHANGED << times, phase, inspected >>
  BY <1>4 DEF InspectingInv, Ascending, Whole, inspected
<1> QED
  BY <1>1, <1>2, <1>3, <1>4
  DEF RenderNext, Program, InspectEnd, ModelFails, MakeModel, OpenSamples, Advance,
      Read, Draw, Encode, Finally, EncoderDies, renderVars, file

LEMMA InspectedStep ==
  ASSUME RenderTypeOK, TailInv, InspectingInv, InspectedInv, [RenderNext]_renderVars
  PROVE  InspectedInv'
<1>1. CASE WriteRow \/ WritePart \/ WriteRest
  <2> SUFFICES ASSUME phase \notin {"inspect", "failed"} PROVE InspectedInv'
    BY <1>1, Growing DEF InspectedInv
  <2>1. /\ UNCHANGED << sample_count, start, last, frame_count, max_frames, phase >>
        /\ Len(times') \in {Len(times), Len(times) + 1}
    BY <1>1, Growing DEF inspected, args
  <2>2. Ascending'
    BY <1>1, StillAscending DEF InspectedInv
  <2>3. Whole(sample_count)'
    BY <1>1, <2>1, Growing DEF InspectedInv, Whole, RenderTypeOK
  <2> QED
    BY <2>1, <2>2, <2>3 DEF InspectedInv
<1>2. CASE InspectEnd
  <2> SUFFICES ASSUME phase' = "model" PROVE InspectedInv'
    BY <1>2, InspectEndFinds DEF InspectedInv
  <2>1. /\ phase = "inspect" /\ sample_count = Len(times)
        /\ UNCHANGED << times, tail, max_frames >>
    BY <1>2 DEF InspectEnd, file, args
  <2>2. /\ sample_count' >= 1 /\ start' <= last'
        /\ frame_count' = (LET n == FramesFor(start', last')
                            IN IF max_frames # 0 /\ max_frames < n THEN max_frames ELSE n)
    BY <1>2, InspectEndFinds
  <2>3. CASE tail = Finished
    <3>1. sample_count' = sample_count
      BY <1>2, <2>3 DEF InspectEnd
    <3>2. Ascending' /\ Whole(sample_count)'
      BY <2>1, <3>1 DEF InspectingInv, Ascending, Whole, RenderTypeOK
    <3> QED
      BY <2>1, <2>2, <3>2 DEF InspectedInv
  <2>4. CASE tail # Finished
    <3>1. Take(tail.seen) /\ ~Backwards(tail.seen) /\ tail.seen \in Times
      BY <1>2, <2>4, InspectEndFinds DEF InspectEnd, RenderTypeOK, Unfinished
    <3>2. /\ sample_count' = Len(times) + 1
          /\ \A i \in 1 .. Len(times) : times[i] <= tail.seen
      BY <2>1, <3>1, TakeAscends
    <3>3. Ascending'
      <4>1. \A i, j \in 1 .. Len(times) : i <= j => times[i] <= times[j]
        BY <2>1 DEF InspectingInv, Ascending, Whole
      <4> QED
        BY <2>1, <3>2, <4>1, RenderNumbers DEF Ascending, Whole
    <3> QED
      BY <2>1, <2>2, <2>4, <3>2, <3>3 DEF InspectedInv, Whole, RenderTypeOK
  <2> QED
    BY <2>3, <2>4
<1>3. CASE phase' \in {"inspect", "failed"}
  BY <1>3 DEF InspectedInv
<1>4. CASE /\ phase \notin {"inspect", "failed"}
           /\ UNCHANGED << times, tail, max_frames, inspected >>
  BY <1>4 DEF InspectedInv, Ascending, Whole, inspected
<1>5. CASE UNCHANGED renderVars
  BY <1>5 DEF InspectedInv, Ascending, Whole, renderVars, file, args, inspected
<1> QED
  BY <1>1, <1>2, <1>3, <1>4, <1>5
  DEF RenderNext, Program, InspectRow, ModelFails, MakeModel, OpenSamples, Advance,
      Draw, Encode, Finally, EncoderDies, file, args

LEMMA CursorStep ==
  ASSUME RenderTypeOK, TailInv, InspectedInv, CursorInv, [RenderNext]_renderVars
  PROVE  CursorInv'
<1>1. CASE WriteRow \/ WritePart \/ WriteRest
  <2>1. /\ UNCHANGED << phase, sample_count, start, frames, current, next_sample >>
        /\ current \in 1 .. Len(times) => times'[current] = times[current]
    BY <1>1, Growing DEF inspected, drawn
  <2> QED
    BY <2>1 DEF CursorInv, FrameTime, RenderTypeOK
<1>2. CASE OpenSamples
  <2>1. CASE phase' = "finally"
    BY <2>1 DEF CursorInv
  <2>2. CASE phase' # "finally"
    <3>1. /\ current' = 1 /\ Read(2) /\ phase = "open"
          /\ UNCHANGED << times, tail, inspected, frames >>
      BY <1>2, <2>2 DEF OpenSamples, file
    <3>2. phase' = "draw" /\ next_sample' = IF Whole(2) THEN 2 ELSE NoRow
      BY <2>2, <3>1, ReadTypes
    <3>3. ~Whole(2) => tail = Finished
      BY <3>1, <3>2, ReadTypes
    <3>4. ~Whole(2) => sample_count <= 1
      BY <3>1, <3>3 DEF InspectedInv, Whole, RenderTypeOK
    <3> QED
      BY <3>1, <3>2, <3>4 DEF CursorInv, NoRow, inspected
  <2> QED
    BY <2>1, <2>2
<1>3. CASE Advance
  <2>1. CASE phase' = "finally"
    BY <2>1 DEF CursorInv
  <2>2. CASE phase' # "finally"
    <3>1. /\ current' = next_sample /\ Read(next_sample + 1) /\ phase = "draw"
          /\ next_sample # NoRow /\ times[next_sample] <= FrameTime
          /\ UNCHANGED << times, tail, inspected, frames >>
      BY <1>3 DEF Advance, SampleDue, file
    <3>2. next_sample \in 1 .. Len(times)
      BY <3>1 DEF RenderTypeOK, NoRow
    <3>3. /\ phase' = "draw"
          /\ next_sample' = IF Whole(next_sample + 1) THEN next_sample + 1 ELSE NoRow
          /\ ~Whole(next_sample + 1) => tail = Finished
      BY <2>2, <3>1, <3>2, ReadTypes
    <3>4. ~Whole(next_sample + 1) => sample_count <= next_sample
      BY <3>1, <3>2, <3>3 DEF InspectedInv, Whole, RenderTypeOK
    <3> QED
      BY <3>1, <3>2, <3>3, <3>4 DEF CursorInv, NoRow, FrameTime, inspected, RenderTypeOK
  <2> QED
    BY <2>1, <2>2
<1>4. CASE Draw
  <2>1. CASE phase' # "draw"
    BY <1>4, <2>1 DEF Draw, CursorInv
  <2>2. CASE phase' = "draw"
    <3>1. /\ frames' = Append(frames, current) /\ phase = "draw"
          /\ UNCHANGED << times, start, sample_count, current, next_sample >>
      BY <1>4, <2>2 DEF Draw, file, inspected
    <3>2. Len(frames') = Len(frames) + 1 /\ Len(frames) \in Nat
      BY <3>1 DEF RenderTypeOK
    <3>3. FrameTime' = FrameTime + FramePeriod /\ FrameTime \in Nat
      <4>1. /\ FramePeriod * Len(frames) \in Nat
            /\ FramePeriod * Len(frames') = FramePeriod * Len(frames) + FramePeriod
        BY <3>2, FrameTimes
      <4>2. start \in Nat /\ start' = start
        BY <3>1, RenderAssumption DEF RenderTypeOK, Times
      <4> QED
        BY <4>1, <4>2, RenderAssumption DEF FrameTime
    <3>4. current \in 1 .. Len(times) => times[current] \in Nat
      BY RenderAssumption DEF RenderTypeOK, Times
    <3>5. current = 1 \/ times[current] <= FrameTime'
      BY <3>1, <3>3, <3>4, RenderAssumption DEF CursorInv, RenderTypeOK
    <3> QED
      BY <2>2, <3>1, <3>5 DEF CursorInv
  <2> QED
    BY <2>1, <2>2
<1>5. CASE phase' \notin {"inspect", "model", "open", "draw"}
  BY <1>5 DEF CursorInv
<1>6. CASE /\ phase \in {"inspect", "model", "open"} /\ phase' # "draw"
           /\ UNCHANGED frames
  BY <1>6 DEF CursorInv
<1>7. CASE UNCHANGED << times, phase, inspected, drawn >>
  BY <1>7 DEF CursorInv, FrameTime, inspected, drawn
<1> QED
  BY <1>1, <1>2, <1>3, <1>4, <1>5, <1>6, <1>7
  DEF RenderNext, Program, InspectRow, InspectEnd, ModelFails, MakeModel, Encode,
      Finally, EncoderDies, renderVars, file, drawn

\* The frames there are still show the latest rows when the file has grown: a row
\* that was half written is no earlier than the one before it.
LEMMA StillLatest ==
  ASSUME RenderTypeOK, TailInv, InspectedInv, CursorInv, FramesLatest, BehindInv,
         WriteRow \/ WritePart \/ WriteRest, phase \notin {"inspect", "failed"}
  PROVE  FramesLatest' /\ BehindInv'
<1>1. /\ UNCHANGED << sample_count, start, frames >>
      /\ Len(times') \in {Len(times), Len(times) + 1}
      /\ \A i \in 1 .. Len(times) : times'[i] = times[i]
  BY Growing DEF inspected, drawn
<1>2. BehindInv'
  BY <1>1 DEF BehindInv, RenderTypeOK
<1>3. ASSUME NEW k \in 1 .. Len(frames)
      PROVE  LET t == start + FramePeriod * (k - 1)
             IN /\ frames[k] = 1 \/ times'[frames[k]] <= t
                /\ \A i \in frames[k] + 1 .. sample_count : i <= Len(times') => times'[i] > t
  <2> DEFINE t == start + FramePeriod * (k - 1)
  <2>1. t \in Nat
    <3>1. k - 1 \in Nat /\ start \in Nat
      BY RenderNumbers
    <3>2. FramePeriod * (k - 1) \in Nat
      BY <3>1, FrameTimes
    <3> QED
      BY <3>1, <3>2
  <2>2. frames[k] \in 1 .. Len(times)
    BY DEF RenderTypeOK
  <2>3. /\ frames[k] = 1 \/ times[frames[k]] <= t
        /\ \A i \in frames[k] + 1 .. sample_count : i <= Len(times) => times[i] > t
    BY DEF FramesLatest
  <2> HIDE DEF t
  <2>4. ASSUME NEW i \in frames[k] + 1 .. sample_count, i <= Len(times')
        PROVE  times'[i] > t
    <3>1. CASE i <= Len(times)
      BY <1>1, <2>2, <2>3, <3>1, RenderNumbers
    <3>2. CASE i > Len(times)
      <4>1. i = Len(times) + 1 /\ i = sample_count /\ tail # Finished
        BY <1>1, <2>2, <2>4, <3>2, RenderNumbers DEF InspectedInv, Whole
      <4>2. times'[i] = tail.time
        BY <4>1, Growing
      <4>3. frames[k] < Len(times)
        BY <2>2, <4>1, RenderNumbers DEF BehindInv
      <4>4. times[Len(times)] > t
        BY <2>2, <2>3, <4>1, <4>3, RenderNumbers
      <4>5. times[Len(times)] <= tail.seen /\ tail.seen <= tail.time
        BY <2>2, <4>1, RenderNumbers DEF InspectedInv, Whole, TailInv
      <4>6. tail.seen \in Nat /\ tail.time \in Nat
        BY <4>1, RenderNumbers
      <4>7. times[Len(times)] \in Nat
        BY <2>2, RenderNumbers
      <4> QED
        BY <2>1, <4>2, <4>4, <4>5, <4>6, <4>7
    <3> QED
      BY <1>1, <2>2, <3>1, <3>2 DEF RenderTypeOK
  <2>5. frames[k] = 1 \/ times'[frames[k]] <= t
    BY <1>1, <2>2, <2>3
  <2> QED
    BY <2>4, <2>5 DEF t
<1>4. FramesLatest'
  BY <1>1, <1>3 DEF FramesLatest
<1> QED
  BY <1>2, <1>4

\* A frame that is drawn shows the row of its time.
LEMMA DrawsLatest ==
  ASSUME RenderTypeOK, InspectedInv, CursorInv, FramesLatest, BehindInv, Draw,
         frames' = Append(frames, current)
  PROVE  FramesLatest' /\ BehindInv'
<1>1. /\ phase = "draw" /\ ~SampleDue
      /\ UNCHANGED << times, sample_count, start >>
  BY DEF Draw, file, inspected
<1>2. /\ Len(frames') = Len(frames) + 1 /\ frames'[Len(frames) + 1] = current
      /\ \A k \in 1 .. Len(frames) : frames'[k] = frames[k]
  BY DEF RenderTypeOK
<1>3. /\ current \in 1 .. Len(times) /\ (current = 1 \/ times[current] <= FrameTime)
      /\ IF next_sample = NoRow THEN current >= sample_count
         ELSE next_sample = current + 1
  BY <1>1 DEF CursorInv, RenderTypeOK
<1>4. FrameTime = start + FramePeriod * (Len(frames) + 1 - 1) /\ FrameTime \in Nat
  <2>1. Len(frames) \in Nat /\ Len(frames) + 1 - 1 = Len(frames)
    BY DEF RenderTypeOK
  <2>2. FramePeriod * Len(frames) \in Nat /\ start \in Nat
    BY <2>1, FrameTimes, RenderAssumption DEF RenderTypeOK, Times
  <2> QED
    BY <2>1, <2>2 DEF FrameTime
<1>5. ASSUME NEW i \in current + 1 .. sample_count, i <= Len(times)
      PROVE  times[i] > FrameTime
  <2>1. next_sample = current + 1 /\ next_sample \in 1 .. sample_count
    BY <1>3, <1>5 DEF RenderTypeOK
  <2>2. ~(times[next_sample] <= FrameTime)
    BY <1>1, <1>3, <2>1 DEF SampleDue, NoRow
  <2>3. times[next_sample] <= times[i]
    BY <1>1, <1>3, <1>5, <2>1 DEF InspectedInv, Ascending, Whole, RenderTypeOK
  <2>4. times[next_sample] \in Nat /\ times[i] \in Nat
    <3>1. next_sample \in 1 .. Len(times) /\ i \in 1 .. Len(times)
      BY <1>3, <1>5, <2>1 DEF RenderTypeOK
    <3> QED
      BY <3>1, RenderNumbers
  <2> QED
    BY <1>4, <2>2, <2>3, <2>4
<1>6. BehindInv'
  BY <1>1, <1>2, <1>3 DEF BehindInv, RenderTypeOK, NoRow
<1>7. FramesLatest'
  <2> SUFFICES ASSUME NEW k \in 1 .. Len(frames) + 1
               PROVE  LET t == start + FramePeriod * (k - 1)
                      IN /\ frames'[k] = 1 \/ times[frames'[k]] <= t
                         /\ \A i \in frames'[k] + 1 .. sample_count :
                              i <= Len(times) => times[i] > t
    BY <1>1, <1>2 DEF FramesLatest
  <2>1. CASE k = Len(frames) + 1
    BY <1>2, <1>3, <1>4, <1>5, <2>1
  <2>2. CASE k \in 1 .. Len(frames)
    BY <1>2, <2>2 DEF FramesLatest
  <2> QED
    BY <2>1, <2>2 DEF RenderTypeOK
<1> QED
  BY <1>6, <1>7

LEMMA FramesStep ==
  ASSUME RenderTypeOK, TailInv, InspectedInv, CursorInv, FramesLatest, BehindInv,
         [RenderNext]_renderVars
  PROVE  FramesLatest' /\ BehindInv'
<1>1. CASE ~Over /\ (WriteRow \/ WritePart \/ WriteRest)
  <2>1. CASE phase = "inspect"
    <3>1. frames' = << >>
      BY <1>1, <2>1, Growing DEF CursorInv, drawn
    <3> QED
      BY <3>1 DEF FramesLatest, BehindInv
  <2>2. CASE phase \notin {"inspect", "failed"}
    BY <1>1, <2>2, StillLatest
  <2> QED
    BY <1>1, <2>1, <2>2 DEF Over
<1>2. CASE Draw
  <2>1. CASE frames' = Append(frames, current)
    BY <1>2, <2>1, DrawsLatest
  <2>2. CASE UNCHANGED frames
    BY <1>2, <2>2 DEF Draw, FramesLatest, BehindInv, file, inspected
  <2> QED
    BY <1>2, <2>1, <2>2 DEF Draw
<1>3. CASE phase = "inspect" /\ UNCHANGED frames
  BY <1>3 DEF CursorInv, FramesLatest, BehindInv
<1>4. CASE UNCHANGED << times, start, sample_count, frames >>
  BY <1>4 DEF FramesLatest, BehindInv
<1> QED
  BY <1>1, <1>2, <1>3, <1>4
  DEF RenderNext, Program, InspectRow, InspectEnd, ModelFails, MakeModel, OpenSamples,
      Advance, Encode, Finally, EncoderDies, renderVars, file, inspected, drawn

\* All frames are drawn before FFmpeg is waited for.
LEMMA CountStep ==
  ASSUME RenderTypeOK, TailInv, InspectingInv, InspectedInv, CursorInv, CountInv,
         ProcessInv, [RenderNext]_renderVars
  PROVE  CountInv'
<1>1. CASE WriteRow \/ WritePart \/ WriteRest
  BY <1>1, Growing DEF CountInv, inspected, drawn, process
<1>2. CASE InspectEnd
  BY <1>2 DEF InspectEnd, CountInv, ProcessInv, process, drawn
<1>3. CASE InspectRow
  BY <1>3 DEF InspectRow, CountInv, ProcessInv, process, drawn
<1>4. CASE ModelFails
  BY <1>4 DEF ModelFails, CountInv, ProcessInv, drawn, inspected
<1>5. CASE MakeModel
  <2>1. /\ phase = "model" /\ phase' \in {"open", "finally"}
        /\ encoder' \in {"none", "running"}
        /\ UNCHANGED << frames, frame_count >>
    BY <1>5 DEF MakeModel, ProcessInv, drawn, inspected
  <2>2. frames = << >> /\ frame_count >= 1
    <3>1. max_frames \in Nat /\ start \in Nat /\ last \in Nat /\ start <= last
      BY <2>1, RenderAssumption DEF RenderTypeOK, InspectedInv, Times
    <3>2. FramesFor(start, last) \in Nat /\ FramesFor(start, last) >= 1
      BY <3>1, FramesReach
    <3> QED
      BY <2>1, <3>1, <3>2 DEF InspectedInv, CursorInv
  <2>3. Len(frames') = 0 /\ frame_count' >= 1 /\ frame_count' \in Nat
    BY <2>1, <2>2 DEF RenderTypeOK
  <2> QED
    BY <2>1, <2>3 DEF CountInv
<1>6. CASE OpenSamples
  BY <1>6 DEF OpenSamples, Read, CountInv, ProcessInv, process, inspected
<1>7. CASE Advance
  BY <1>7 DEF Advance, Read, CountInv, ProcessInv, process, inspected
<1>8. CASE Draw
  <2>1. encoder' \in {"running", "dead"} /\ frame_count' = frame_count
    BY <1>8 DEF Draw, ProcessInv, inspected
  <2>2. CASE phase' = "finally"
    BY <2>1, <2>2 DEF CountInv
  <2>3. CASE /\ frames' = Append(frames, current)
             /\ phase' = IF Len(frames') = frame_count THEN "encode" ELSE "draw"
    <3>1. Len(frames') = Len(frames) + 1 /\ Len(frames) \in Nat /\ frame_count \in Nat
      BY <2>3, RenderAssumption DEF RenderTypeOK
    <3>2. Len(frames) < frame_count
      BY <1>8 DEF Draw, CountInv
    <3> QED
      BY <2>1, <2>3, <3>1, <3>2 DEF CountInv
  <2> QED
    BY <1>8, <2>2, <2>3 DEF Draw
<1>9. CASE Encode
  BY <1>9 DEF Encode, CountInv, drawn, inspected
<1>10. CASE Finally
  <2>1. /\ phase' \in {"created", "failed"}
        /\ encoder' = "ended" => encoder = "ended"
        /\ UNCHANGED << frames, frame_count >>
    BY <1>10 DEF Finally, process, drawn, inspected
  <2> QED
    BY <2>1 DEF CountInv
<1>11. CASE EncoderDies
  BY <1>11 DEF EncoderDies, CountInv, drawn, inspected
<1>12. CASE UNCHANGED renderVars
  BY <1>12 DEF renderVars, CountInv, drawn, inspected, process
<1> QED
  BY <1>1, <1>2, <1>3, <1>4, <1>5, <1>6, <1>7, <1>8, <1>9, <1>10, <1>11, <1>12
  DEF RenderNext, Program

\* What there is to clean up.
LEMMA ProcessStep ==
  ASSUME RenderTypeOK, TailInv, ProcessInv, CleanedUp, [RenderNext]_renderVars
  PROVE  ProcessInv' /\ CleanedUp'
<1>1. CASE WriteRow \/ WritePart \/ WriteRest
  BY <1>1, Growing DEF ProcessInv, CleanedUp, CloseRaises, Over, process, drawn
<1>2. CASE InspectRow
  BY <1>2 DEF InspectRow, ProcessInv, CleanedUp, Over, process, drawn
<1>3. CASE InspectEnd
  BY <1>3 DEF InspectEnd, ProcessInv, CleanedUp, Over, process, drawn
<1>4. CASE ModelFails
  BY <1>4 DEF ModelFails, ProcessInv, CleanedUp, Over, drawn
<1>5. CASE MakeModel
  BY <1>5 DEF MakeModel, ProcessInv, CleanedUp, Over, drawn
<1>6. CASE EncoderDies
  BY <1>6 DEF EncoderDies, ProcessInv, CleanedUp, Over, drawn
<1>7. CASE OpenSamples
  BY <1>7 DEF OpenSamples, Read, ProcessInv, CleanedUp, Over, process
<1>8. CASE Advance
  BY <1>8 DEF Advance, Read, ProcessInv, CleanedUp, Over, process
<1>9. CASE Draw
  <2>1. /\ phase = "draw" /\ phase' \in {"draw", "encode", "finally"}
        /\ phase' = "finally" => encoder = "dead"
        /\ UNCHANGED << temporary, encoder, cause >>
    BY <1>9 DEF Draw
  <2>2. buffered' => frames' # << >>
    <3>1. Append(frames, current) # << >>
      BY DEF RenderTypeOK
    <3> QED
      BY <1>9, <3>1 DEF Draw, ProcessInv
  <2> QED
    BY <2>1, <2>2 DEF ProcessInv, CleanedUp, Over
<1>10. CASE Encode
  BY <1>10 DEF Encode, ProcessInv, CleanedUp, Over, drawn
<1>11. CASE Finally
  <2>1. /\ phase = "finally" /\ UNCHANGED << frames, cause >>
        /\ phase' = IF encoder = "ended" THEN "created" ELSE "failed"
    BY <1>11 DEF Finally, drawn
  <2>2. CASE CloseRaises
    <3>1. encoder = "dead" /\ buffered /\ UNCHANGED << temporary, encoder, buffered >>
      BY <1>11, <2>2 DEF Finally, CloseRaises, process
    <3> QED
      BY <2>1, <3>1 DEF ProcessInv, CleanedUp, CloseRaises, Over
  <2>3. CASE ~CloseRaises
    <3>1. /\ temporary' = FALSE /\ buffered' = FALSE
          /\ encoder' = IF encoder = "running" THEN "dead" ELSE encoder
      BY <1>11, <2>3 DEF Finally
    <3> QED
      BY <2>1, <3>1 DEF ProcessInv, CleanedUp, Over
  <2> QED
    BY <2>2, <2>3
<1>12. CASE UNCHANGED renderVars
  BY <1>12 DEF renderVars, ProcessInv, CleanedUp, CloseRaises, Over, process, drawn
<1> QED
  BY <1>1, <1>2, <1>3, <1>4, <1>5, <1>6, <1>7, <1>8, <1>9, <1>10, <1>11, <1>12
  DEF RenderNext, Program

\* A capture is refused for a reason.
LEMMA RefusedStep ==
  ASSUME RenderTypeOK, TailInv, InspectingInv, ProcessInv, RefusedForCause,
         [RenderNext]_renderVars
  PROVE  RefusedForCause'
<1>1. CASE WriteRow \/ WritePart \/ WriteRest
  <2> SUFFICES ASSUME phase = "failed", cause = "none",
                      NEW i \in 2 .. Len(times), times[i] < times[i - 1]
               PROVE  i \in 2 .. Len(times') /\ times'[i] < times'[i - 1]
    BY <1>1, Growing DEF RefusedForCause, inspected
  <2>1. /\ Len(times') \in {Len(times), Len(times) + 1}
        /\ \A j \in 1 .. Len(times) : times'[j] = times[j]
    BY <1>1, Growing
  <2> QED
    BY <2>1 DEF RenderTypeOK
<1>2. CASE InspectRow
  <2> SUFFICES ASSUME phase' = "failed", cause' = "none" PROVE RefusedForCause'
    BY DEF RefusedForCause
  <2>1. /\ sample_count < Len(times) /\ Backwards(times[sample_count + 1])
        /\ phase = "inspect" /\ times' = times
    BY <1>2 DEF InspectRow, file
  <2>2. sample_count + 1 \in 2 .. Len(times) /\ sample_count \in Nat
    BY <2>1 DEF Backwards, RenderTypeOK
  <2>3. times[sample_count + 1] < times[sample_count]
    BY <2>1, <2>2 DEF Backwards, InspectingInv, RenderTypeOK
  <2>4. \E i \in 2 .. Len(times) : times[i] < times[i - 1]
    <3> DEFINE n == sample_count + 1
    <3>1. n \in 2 .. Len(times) /\ times[n] < times[n - 1]
      BY <2>2, <2>3
    <3> QED
      BY <3>1, Zenon
  <2> QED
    BY <2>1, <2>4 DEF RefusedForCause
<1>3. CASE InspectEnd
  BY <1>3 DEF InspectEnd, RefusedForCause, Take, RenderTypeOK
<1>4. CASE cause' # "none" \/ phase' # "failed"
  BY <1>4 DEF RefusedForCause
<1>5. CASE UNCHANGED << times, phase, sample_count, cause >>
  BY <1>5 DEF RefusedForCause
<1> QED
  BY <1>1, <1>2, <1>3, <1>4, <1>5
  DEF RenderNext, Program, ModelFails, MakeModel, OpenSamples, Read, Advance, Draw,
      Encode, Finally, EncoderDies, renderVars, file, inspected, ProcessInv

LEMMA RenderNextInv == RenderInv /\ [RenderNext]_renderVars => RenderInv'
BY RenderTypeStep, TailStep, InspectingStep, InspectedStep, CursorStep, FramesStep,
   CountStep, ProcessStep, RefusedStep DEF RenderInv

\* The invariant of the renderer.
THEOREM RenderInvariant == RenderSpec => []RenderInv
  BY RenderInitInv, RenderNextInv, PTL DEF RenderSpec

\* The variables keep their types: no window begins before the capture, no frame
\* shows a row that is not there.
THEOREM RenderTypeCorrect == RenderSpec => []RenderTypeOK
<1>1. RenderInv => RenderTypeOK
  BY DEF RenderInv
<1> QED
  BY <1>1, RenderInvariant, PTL

\* A frame shows the last inspected state that is not later than it.
THEOREM FramesTrue == RenderSpec => []FramesLatest
<1>1. RenderInv => FramesLatest
  BY DEF RenderInv
<1> QED
  BY <1>1, RenderInvariant, PTL

\* The frames of a film that was not cut reach the end of the interval, and no
\* frame begins after it.
THEOREM FilmCovers == RenderSpec => []IntervalCovered
<1>1. RenderInv => IntervalCovered
  <2> SUFFICES ASSUME RenderInv, phase = "created", max_frames = 0
               PROVE  /\ start + FramePeriod * Len(frames) >= last
                      /\ \/ Len(frames) = 1
                         \/ start + FramePeriod * (Len(frames) - 1) < last
    BY DEF IntervalCovered
  <2>1. Len(frames) = FramesFor(start, last) /\ start <= last
    BY DEF RenderInv, ProcessInv, CountInv, InspectedInv
  <2>2. start \in Nat /\ last \in Nat
    BY RenderAssumption DEF RenderInv, RenderTypeOK, Times
  <2> QED
    BY <2>1, <2>2, FramesReach
<1> QED
  BY <1>1, RenderInvariant, PTL

\* A capture is refused only when it is empty or goes back, is still written, or
\* model or encoder fail.
THEOREM RefusedWithCause == RenderSpec => []RefusedForCause
<1>1. RenderInv => RefusedForCause
  BY DEF RenderInv
<1> QED
  BY <1>1, RenderInvariant, PTL

\* No FFmpeg is left behind, and no directory but for a model without a place for
\* its camera, or an FFmpeg that died before all that was written to its pipe could
\* be sent: a film that was created leaves nothing.
THEOREM NothingLeft == RenderSpec => []CleanedUp
<1>1. RenderInv => CleanedUp
  BY DEF RenderInv
<1> QED
  BY <1>1, RenderInvariant, PTL

-----------------------------------------------------------------------------
(* The capture and its film.  The renderer may run while the file is       *)
(* written: it finds rows the stream has taken, not always all of them.    *)

\* The file the renderer reads is that of the capture.
FileOf ==
  /\ Len(times) <= Len(rows)
  /\ \A i \in 1 .. Len(times) : times[i] = TimeOf(rows[i]["time"])

\* A frame shows a sample of the simulation, the latest of those inspected that
\* is not later than the frame, or the first.
FilmOfSamples ==
  \A k \in 1 .. Len(frames) :
    LET t == start + FramePeriod * (k - 1)
    IN /\ frames[k] \in 1 .. Len(captured)
       /\ frames[k] = 1 \/ SampleTime(frames[k]) <= t
       /\ \A i \in frames[k] + 1 .. sample_count : i <= Len(times) => SampleTime(i) > t

\* A row of the file is a sample.
LEMMA RowOfFile ==
  ASSUME IInv, RenderTypeOK, FileOf, NEW i \in 1 .. Len(times)
  PROVE  /\ i \in 1 .. Len(rows) /\ i \in 1 .. Len(captured)
         /\ times[i] = TimeOf(rows[i]["time"]) /\ times[i] = SampleTime(i)
<1>1. /\ i \in 1 .. Len(rows) /\ times[i] = TimeOf(rows[i]["time"])
  BY DEF FileOf, IInv, TypeOK, RenderTypeOK
<1>2. i \in 1 .. Len(captured) /\ rows[i] = captured[i]
  BY <1>1 DEF IInv, FileInv, RowsAreTheSamples, TypeOK
<1> QED
  BY <1>1, <1>2 DEF SampleTime

\* From the ring buffer to the film: whatever the interleaving of the control
\* loop, the writer, the renderer and a file that grows, a frame shows the state
\* that was sampled for its time.
THEOREM FilmShowsTheSamples ==
  Spec /\ RenderSpec /\ []FileOf => []FilmOfSamples
<1>1. IInv /\ RenderInv /\ FileOf => FilmOfSamples
  <2> SUFFICES ASSUME IInv, RenderInv, FileOf, NEW k \in 1 .. Len(frames)
               PROVE  LET t == start + FramePeriod * (k - 1)
                      IN /\ frames[k] \in 1 .. Len(captured)
                         /\ frames[k] = 1 \/ SampleTime(frames[k]) <= t
                         /\ \A i \in frames[k] + 1 .. sample_count :
                              i <= Len(times) => SampleTime(i) > t
    BY DEF FilmOfSamples
  <2>1. RenderTypeOK /\ FramesLatest
    BY DEF RenderInv
  <2>2. frames[k] \in 1 .. Len(times) /\ sample_count \in Nat
    BY <2>1 DEF RenderTypeOK
  <2>3. frames[k] \in 1 .. Len(captured) /\ times[frames[k]] = SampleTime(frames[k])
    BY <2>1, <2>2, RowOfFile
  <2>4. \A i \in frames[k] + 1 .. sample_count :
          i <= Len(times) => times[i] = SampleTime(i)
    BY <2>1, <2>2, RowOfFile
  <2> QED
    BY <2>1, <2>3, <2>4 DEF FramesLatest
<1> QED
  BY <1>1, CaptureInvariant, RenderInvariant, PTL

\* A capture of a simulation that was never reset is refused only when there is
\* nothing in it, however far its file has been written.
THEOREM OneRunIsRendered ==
  Spec /\ RenderSpec /\ []FileOf
    => [](resets = 0 /\ phase = "failed" /\ cause = "none" => sample_count = 0)
<1>1. IInv /\ RenderInv /\ FileOf /\ (resets = 0 => TimesGrow)
        => (resets = 0 /\ phase = "failed" /\ cause = "none" => sample_count = 0)
  <2> SUFFICES ASSUME IInv, RenderInv, FileOf, TimesGrow,
                      NEW i \in 2 .. Len(times), times[i] < times[i - 1]
               PROVE  FALSE
    BY DEF RenderInv, RefusedForCause
  <2>1. i \in 1 .. Len(times) /\ i - 1 \in 1 .. Len(times) /\ i - 1 < i
    BY DEF RenderInv, RenderTypeOK
  <2>2. /\ i \in 1 .. Len(rows) /\ times[i] = TimeOf(rows[i]["time"])
        /\ i - 1 \in 1 .. Len(rows) /\ times[i - 1] = TimeOf(rows[i - 1]["time"])
    BY <2>1, RowOfFile DEF RenderInv
  <2>3. times[i - 1] < times[i]
    BY <2>1, <2>2 DEF TimesGrow
  <2>4. times[i] \in Nat /\ times[i - 1] \in Nat
    BY <2>1, RenderNumbers DEF RenderInv
  <2> QED
    BY <2>3, <2>4
<1> QED
  BY <1>1, CaptureInvariant, RenderInvariant, TimesForward, PTL
=============================================================================
