--------------------------- MODULE MCRenderCapture ---------------------------
(* RenderCapture with a file of up to three rows.                           *)
EXTENDS RenderCapture
=============================================================================
