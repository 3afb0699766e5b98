--------------------------- MODULE MCRenderAttempt ---------------------------
(* Instances of RenderAttempt for TLC.                                     *)
EXTENDS RenderAttempt, TLC

\* Cuts are interchangeable.
CutSymmetry == Permutations(Cuts)
=============================================================================
