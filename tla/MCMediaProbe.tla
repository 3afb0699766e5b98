---------------------------- MODULE MCMediaProbe ----------------------------
(***************************************************************************)
(* Two refused calls reach every second-level failure: a refused kill      *)
(* after a refused assignment, a failed question after a failed kill.  One *)
(* replaced file, the recording or ffprobe, falls between any two looks;   *)
(* the code compares each file on its own, so one change at a time is the  *)
(* whole question.                                                         *)
(***************************************************************************)
EXTENDS MediaProbe
=============================================================================
