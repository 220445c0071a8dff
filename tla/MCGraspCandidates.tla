-------------------------- MODULE MCGraspCandidates --------------------------
(* GraspCandidates with two rows of one camera and one of each of the others. *)
EXTENDS GraspCandidates
MCSeenBy == << "left", "left", "back", "front" >>
=============================================================================
