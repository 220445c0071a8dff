---------------------------- MODULE RenderCapture ----------------------------
(***************************************************************************)
(* render_capture.py, which makes a film of the file of StateCapture.  It  *)
(* reads the file twice: once to check its times and to find how many      *)
(* frames there are, then again, a sample ahead of the frame, to draw.  In *)
(* the meantime the capture may go on: the file grows, and the row at its  *)
(* end may be a part of one.                                               *)
(*                                                                         *)
(* A row is its time; where it stands in the file stands for the positions *)
(* it holds.  Times and the frame period are in ticks.  An optional value  *)
(* that is not given is 0.                                                 *)
(*                                                                         *)
(* Left out: the arguments that are refused before anything is read, the   *)
(* header, rows that hold no numbers, the scene and its camera, the        *)
(* progress that is printed, the tolerance of 1e-12 s in the comparisons,  *)
(* and a capture that is started anew, which empties the file.  A part of  *)
(* a row ends before its last position; it is read in one step with the    *)
(* end of the file.                                                        *)
(***************************************************************************)
EXTENDS Integers, Sequences

CONSTANTS
  FramePeriod,   \* 1 / args.fps
  LastSeconds,   \* the values of args.last_seconds, 0 for None
  MaxFrames,     \* the values of args.max_frames, 0 for None
  MaxRows,       \* bound: rows of the file
  MaxTime        \* bound: times

ASSUME RenderAssumption ==
  /\ FramePeriod \in Nat \ {0}
  /\ LastSeconds \subseteq Nat /\ MaxFrames \subseteq Nat
  /\ MaxRows \in Nat /\ MaxTime \in Nat

Times == 0 .. MaxTime

NoRow == 0
Unfinished == [time : Times, seen : Times]
Finished == [time |-> -1, seen |-> -1]

VARIABLES
  times,            \* the finished rows of the file
  tail,             \* the row after them, of which a part has been written
  last_seconds, max_frames,
  phase,            \* where the program is
  sample_count,     \* rows read by inspect_capture
  first, last,      \* first_timestamp, last_timestamp
  start,            \* render_start_timestamp
  frame_count,
  current,          \* the row of current_qpos
  next_sample,      \* the row of next_sample
  frames,           \* the row each frame shows
  temporary,        \* the directory with the copy of the model exists
  encoder,          \* the process of FFmpeg
  buffered,         \* encoder.stdin holds data that FFmpeg was not sent yet
  cause             \* what went wrong outside of the program (history)

file == << times, tail >>
args == << last_seconds, max_frames >>
inspected == << sample_count, first, last, start, frame_count >>
drawn == << current, next_sample, frames >>
process == << temporary, encoder, buffered >>
renderVars == << file, args, phase, inspected, drawn, process, cause >>

RenderTypeOK ==
  /\ times \in Seq(Times) /\ tail \in Unfinished \cup {Finished}
  /\ last_seconds \in LastSeconds /\ max_frames \in MaxFrames
  /\ phase \in {"inspect", "model", "open", "draw", "encode", "finally",
                "created", "failed"}
  /\ sample_count \in 0 .. MaxRows
  /\ first \in Times /\ last \in Times /\ start \in Times
  /\ frame_count \in 0 .. MaxTime + 1
  /\ current \in 0 .. Len(times) /\ next_sample \in 0 .. Len(times)
  /\ frames \in Seq(1 .. Len(times)) /\ Len(frames) <= frame_count
  /\ temporary \in BOOLEAN /\ encoder \in {"none", "running", "dead", "ended"}
  /\ buffered \in BOOLEAN
  /\ cause \in {"none", "unfinished", "model", "left", "encoder"}

RenderInit ==
  /\ times = << >> /\ tail = Finished
  /\ last_seconds \in LastSeconds /\ max_frames \in MaxFrames
  /\ phase = "inspect" /\ sample_count = 0
  /\ first = 0 /\ last = 0 /\ start = 0 /\ frame_count = 0
  /\ current = NoRow /\ next_sample = NoRow /\ frames = << >>
  /\ temporary = FALSE /\ encoder = "none" /\ buffered = FALSE /\ cause = "none"

-----------------------------------------------------------------------------
(* The capture.  Its times grow, unless the simulation was reset.          *)

WriteRow ==
  /\ tail = Finished /\ Len(times) < MaxRows
  /\ \E t \in Times : times' = Append(times, t)
  /\ UNCHANGED << tail, args, phase, inspected, drawn, process, cause >>

\* The stream writes its buffer when that is full, in the middle of a row: the
\* digits there are so far are a smaller number, or the same.
WritePart ==
  /\ tail = Finished /\ Len(times) < MaxRows
  /\ \E t \in Times : \E c \in 0 .. t : tail' = [time |-> t, seen |-> c]
  /\ UNCHANGED << times, args, phase, inspected, drawn, process, cause >>

WriteRest ==
  /\ tail # Finished /\ tail' = Finished
  /\ times' = Append(times, tail.time)
  /\ UNCHANGED << args, phase, inspected, drawn, process, cause >>

-----------------------------------------------------------------------------
(* inspect_capture, output_frame_count.                                    *)

Backwards(t) == sample_count > 0 /\ t < last

Take(t) ==
  /\ sample_count' = sample_count + 1
  /\ first' = IF sample_count = 0 THEN t ELSE first
  /\ last' = t

InspectRow ==
  /\ phase = "inspect" /\ sample_count < Len(times)
  /\ LET t == times[sample_count + 1]
     IN IF Backwards(t) THEN phase' = "failed" /\ UNCHANGED inspected
        ELSE Take(t) /\ UNCHANGED << phase, start, frame_count >>
  /\ UNCHANGED << file, args, drawn, process, cause >>

\* Mutant: the last frame is that before the end of the interval.
FramesWithin(from, to) ==
  LET n == (to - from) \div FramePeriod IN IF n = 0 THEN 1 ELSE n

\* The quotient is rounded up.
FramesFor(from, to) ==
  LET n == (to - from + FramePeriod - 1) \div FramePeriod IN IF n = 0 THEN 1 ELSE n

\* Mutant: the window may begin before the capture.
WindowBefore(from, to) == IF last_seconds = 0 THEN from ELSE to - last_seconds

\* Where the film begins, no earlier than the capture.
WindowStart(from, to) ==
  IF last_seconds = 0 \/ to - last_seconds < from THEN from ELSE to - last_seconds

\* The rest of inspect_capture at the end of the file, and what render_video
\* makes of its result.
InspectEnd ==
  /\ phase = "inspect" /\ sample_count = Len(times)
  /\ IF tail # Finished THEN Take(tail.seen) /\ cause' = "unfinished"
     ELSE UNCHANGED << sample_count, first, last, cause >>
  /\ IF sample_count' = 0 \/ (tail # Finished /\ Backwards(tail.seen))
     THEN phase' = "failed" /\ UNCHANGED << start, frame_count >>
     ELSE /\ phase' = "model"
          /\ start' = WindowStart(first', last')
          /\ LET n == FramesFor(start', last')
             IN frame_count' = IF max_frames # 0 /\ max_frames < n THEN max_frames ELSE n
  /\ UNCHANGED << file, args, drawn, process >>

-----------------------------------------------------------------------------
(* make_model_with_camera, and the start of FFmpeg.                        *)

\* A model that cannot be copied takes its directory with it; one without a
\* place for the camera leaves it.
ModelFails ==
  /\ phase = "model" /\ phase' = "failed"
  /\ \/ cause' = "model" /\ UNCHANGED temporary
     \/ cause' = "left" /\ temporary' = TRUE
  /\ UNCHANGED << file, args, inspected, drawn, encoder, buffered >>

MakeModel ==
  /\ phase = "model" /\ temporary' = TRUE
  /\ \/ phase' = "finally" /\ cause' = "model" /\ UNCHANGED encoder
     \/ phase' = "open" /\ encoder' = "running" /\ UNCHANGED cause
  /\ UNCHANGED << file, args, inspected, drawn, buffered >>

EncoderDies ==
  /\ encoder = "running" /\ phase \in {"open", "draw", "encode", "finally"}
  /\ encoder' = "dead" /\ cause' = "encoder"
  /\ UNCHANGED << file, args, phase, inspected, drawn, temporary, buffered >>

-----------------------------------------------------------------------------
(* The loop of render_video over frames and samples.                       *)

\* The next row of capture_samples.  A row without all its positions ends the
\* program, the end of the file the samples.
Read(row) ==
  IF row > Len(times) /\ tail # Finished
  THEN phase' = "finally" /\ cause' = "unfinished" /\ UNCHANGED next_sample
  ELSE /\ phase' = "draw" /\ UNCHANGED cause
       /\ next_sample' = IF row > Len(times) THEN NoRow ELSE row

\* Mutant: the second sample is expected to be there.
OpenTwoSamples ==
  /\ phase = "open"
  /\ IF Len(times) < 2 THEN phase' = "finally" /\ UNCHANGED << current, next_sample, cause >>
     ELSE current' = 1 /\ Read(2)
  /\ UNCHANGED << file, args, inspected, frames, process >>

OpenSamples ==
  /\ phase = "open"
  /\ IF times = << >> THEN /\ phase' = "finally" /\ cause' = "unfinished"
                          /\ UNCHANGED << current, next_sample >>
     ELSE current' = 1 /\ Read(2)
  /\ UNCHANGED << file, args, inspected, frames, process >>

FrameTime == start + FramePeriod * Len(frames)

\* Mutant: a sample at the time of the frame is left for the next.
DueBefore == next_sample # NoRow /\ times[next_sample] < FrameTime

SampleDue == next_sample # NoRow /\ times[next_sample] <= FrameTime

Advance ==
  /\ phase = "draw" /\ SampleDue
  /\ current' = next_sample /\ Read(next_sample + 1)
  /\ UNCHANGED << file, args, inspected, frames, process >>

\* The frame is written to a buffered pipe, which keeps it, or the rest of it, if
\* it is small.  A dead FFmpeg is noticed when something has to be sent.
Draw ==
  /\ phase = "draw" /\ ~SampleDue
  /\ \/ /\ encoder = "dead" /\ phase' = "finally"
        /\ UNCHANGED << frames, buffered >>
     \/ /\ frames' = Append(frames, current)
        /\ phase' = IF Len(frames') = frame_count THEN "encode" ELSE "draw"
        /\ IF encoder = "dead" THEN buffered' = TRUE ELSE buffered' \in BOOLEAN
  /\ UNCHANGED << file, args, inspected, current, next_sample, temporary, encoder, cause >>

\* The pipe is closed, also if its rest cannot be sent.  FFmpeg is waited for;
\* its exit code tells whether there is a film.
Encode ==
  /\ phase = "encode" /\ phase' = "finally"
  /\ encoder' = IF encoder = "running" THEN "ended" ELSE "dead"
  /\ buffered' = FALSE
  /\ UNCHANGED << file, args, inspected, drawn, temporary, cause >>

\* The pipe of an FFmpeg that is dead is closed with something left to send.
CloseRaises == encoder = "dead" /\ buffered

\* Mutant: an encoder that was started is left to itself.
FinallyForgets ==
  /\ phase = "finally"
  /\ phase' = IF encoder = "ended" THEN "created" ELSE "failed"
  /\ IF CloseRaises THEN UNCHANGED process
     ELSE temporary' = FALSE /\ buffered' = FALSE /\ UNCHANGED encoder
  /\ UNCHANGED << file, args, inspected, drawn, cause >>

\* An encoder that has not ended is killed, the directory removed; but nothing of
\* that is done once the close of its pipe has raised.
Finally ==
  /\ phase = "finally"
  /\ phase' = IF encoder = "ended" THEN "created" ELSE "failed"
  /\ IF CloseRaises THEN UNCHANGED process
     ELSE /\ temporary' = FALSE /\ buffered' = FALSE
          /\ encoder' = IF encoder = "running" THEN "dead" ELSE encoder
  /\ UNCHANGED << file, args, inspected, drawn, cause >>

Program ==
  \/ InspectRow \/ InspectEnd \/ ModelFails \/ MakeModel
  \/ OpenSamples \/ Advance \/ Draw \/ Encode \/ Finally

Over == phase \in {"created", "failed"}

RenderNext ==
  \/ Program \/ EncoderDies
  \/ ~Over /\ (WriteRow \/ WritePart \/ WriteRest)

RenderSpec == RenderInit /\ [][RenderNext]_renderVars

-----------------------------------------------------------------------------
(* Properties.                                                             *)

\* "Hold each captured state until the next sample's simulation timestamp":
\* a frame shows the last row that was inspected and is not later than it, or
\* the first row, although the rows are read again from a file that has grown.
FramesLatest ==
  \A k \in 1 .. Len(frames) :
    LET t == start + FramePeriod * (k - 1)
    IN /\ frames[k] = 1 \/ times[frames[k]] <= t
       /\ \A i \in frames[k] + 1 .. sample_count : i <= Len(times) => times[i] > t

\* "Enough fixed-rate frames to cover the captured simulation interval", and
\* none too many.
IntervalCovered ==
  phase = "created" /\ max_frames = 0 =>
    /\ start + FramePeriod * Len(frames) >= last
    /\ Len(frames) = 1 \/ start + FramePeriod * (Len(frames) - 1) < last

\* A capture of one run that is not being written is rendered, unless model or
\* encoder fail.
RefusedForCause ==
  phase = "failed" /\ cause = "none" =>
    \/ sample_count = 0
    \/ \E i \in 2 .. Len(times) : times[i] < times[i - 1]

\* A program that has ended leaves no FFmpeg behind, and the directory with the
\* copy of the model only in two cases: the model had no place for the camera, or
\* FFmpeg died before the last of what was written to its pipe could be sent, and
\* the cleanup ends where it closes that pipe.  A film that was created leaves none.
CleanedUp ==
  Over => /\ encoder # "running"
          /\ temporary => \/ cause = "left"
                          \/ CloseRaises /\ frames # << >>
          /\ phase = "created" => ~temporary

\* What the finally clause of render_video is for: a program that got as far as
\* it leaves no directory.
DirectoryRemoved == Over /\ temporary => cause = "left"
=============================================================================
