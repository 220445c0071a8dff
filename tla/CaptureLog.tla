----------------------------- MODULE CaptureLog -----------------------------
(***************************************************************************)
(* What a capture promises, without ring buffer and threads: the rows of   *)
(* the file are the samples that were taken, in their order and without a  *)
(* gap; no more than Capacity of them are not yet written; and the file is *)
(* closed with all of them, unless writing has failed.                     *)
(*                                                                         *)
(* StateCapture implements this specification.                             *)
(***************************************************************************)
EXTENDS Naturals, Sequences

CONSTANTS Capacity, Samples

VARIABLES
  captured,  \* the samples taken, in order
  rows,      \* those written to the file
  failed,    \* writing has failed
  open       \* the file is open

vars == << captured, rows, failed, open >>

Init == captured = << >> /\ rows = << >> /\ failed = FALSE /\ open = TRUE

Capture ==
  /\ open
  /\ failed \/ Len(captured) < Len(rows) + Capacity
  /\ \E s \in Samples : captured' = Append(captured, s)
  /\ UNCHANGED << rows, failed, open >>

Write ==
  /\ open /\ ~failed
  /\ Len(rows) < Len(captured)
  /\ rows' = Append(rows, captured[Len(rows) + 1])
  /\ UNCHANGED << captured, failed, open >>

Fail ==
  /\ failed' = TRUE
  /\ UNCHANGED << captured, rows, open >>

Close ==
  /\ failed \/ rows = captured
  /\ open' = FALSE
  /\ UNCHANGED << captured, rows, failed >>

Next == Capture \/ Write \/ Fail \/ Close

Spec == Init /\ [][Next]_vars
=============================================================================
