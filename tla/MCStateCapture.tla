--------------------------- MODULE MCStateCapture ---------------------------
(* StateCapture with a ring of two slots.                                  *)
EXTENDS StateCapture
=============================================================================
