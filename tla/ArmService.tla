----------------------------- MODULE ArmService -----------------------------
(***************************************************************************)
(* What arm_behavior promises, without workers, calls and locks: one goal  *)
(* at a time has the arm, and the next can be accepted as soon as the      *)
(* result of the last may be seen; the payload box does not come or go     *)
(* under a motion; and a motion hands the simulation on as it found it,    *)
(* with physics running and every collision checked, unless a call it made *)
(* has failed, the effects of which may come at any later time.            *)
(*                                                                         *)
(* ArmBehavior implements this specification.                              *)
(***************************************************************************)
CONSTANT Goals

VARIABLES
  stage,     \* per goal: how far it has come
  reserved,  \* a goal has the arm
  payload,   \* the payload box is attached
  paused,    \* physics stands still
  relaxed,   \* collisions are allowed that are checked as a rule
  failed     \* the parties a call to which has failed

vars == << stage, reserved, payload, paused, relaxed, failed >>

Moving(g) == stage[g] = "moving"
Advance(g, from, to) == stage[g] = from /\ stage' = [stage EXCEPT ![g] = to]

Init ==
  /\ stage = [g \in Goals |-> "unsent"]
  /\ reserved = FALSE /\ payload = FALSE /\ paused = FALSE /\ relaxed = FALSE
  /\ failed = {}

\* A goal is refused while the arm is reserved, or because it makes no sense.
Refuse(g) ==
  /\ Advance(g, "unsent", "refused")
  /\ UNCHANGED << reserved, payload, paused, relaxed, failed >>

Accept(g) ==
  /\ ~reserved
  /\ Advance(g, "unsent", "accepted")
  /\ reserved' = TRUE
  /\ UNCHANGED << payload, paused, relaxed, failed >>

Start(g) ==
  /\ \A h \in Goals : ~Moving(h)
  /\ Advance(g, "accepted", "moving")
  /\ UNCHANGED << reserved, payload, paused, relaxed, failed >>

\* A motion pauses and resumes physics and relaxes and restores the collisions,
\* and its calls may fail; a call that has failed may still be served later.
Arrange ==
  /\ failed \subseteq failed'
  /\ \/ \E g \in Goals : Moving(g)
     \/ /\ paused' # paused => "physics" \in failed
        /\ relaxed' # relaxed => "scene" \in failed
        /\ failed' = failed
  /\ paused' \in BOOLEAN /\ relaxed' \in BOOLEAN
  /\ UNCHANGED << stage, reserved, payload >>

Finish(g) ==
  /\ Advance(g, "moving", "moved")
  /\ paused => "physics" \in failed
  /\ relaxed => "scene" \in failed
  /\ UNCHANGED << reserved, payload, paused, relaxed, failed >>

Release(g) ==
  /\ Advance(g, "moved", "ended")
  /\ reserved' = FALSE
  /\ UNCHANGED << payload, paused, relaxed, failed >>

Report(g) ==
  /\ Advance(g, "ended", "reported")
  /\ UNCHANGED << reserved, payload, paused, relaxed, failed >>

ChangePayload ==
  /\ \A g \in Goals : ~Moving(g)
  /\ payload' = ~payload
  /\ UNCHANGED << stage, reserved, paused, relaxed, failed >>

Next ==
  \/ \E g \in Goals :
       \/ Refuse(g) \/ Accept(g) \/ Start(g)
       \/ Finish(g) \/ Release(g) \/ Report(g)
  \/ Arrange
  \/ ChangePayload

Spec == Init /\ [][Next]_vars
=============================================================================
