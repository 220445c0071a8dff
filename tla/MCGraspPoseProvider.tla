------------------------ MODULE MCGraspPoseProvider ------------------------
(* GraspPoseProvider with two goals, which may overlap, and a camera whose *)
(* callbacks may overlap.                                                  *)
EXTENDS GraspPoseProvider
=============================================================================
