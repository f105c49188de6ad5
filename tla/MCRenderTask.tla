----------------------------- MODULE MCRenderTask -----------------------------
(***************************************************************************)
(* A small instance of RenderTask for TLC.                                 *)
(***************************************************************************)
EXTENDS RenderTask

(* A cut narrower than the output, and one whose sides do not divide.      *)
MCSizes == {<<4, 9>>, <<7, 5>>}
(* Half pixels: beyond the left edge, and beyond the right one.            *)
MCFaces == {-1, 40}
=============================================================================
