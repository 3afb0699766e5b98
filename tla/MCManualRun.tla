----------------------------- MODULE MCManualRun ----------------------------
(* Instances of ManualRun: two processes, two projects and one recording   *)
(* under two names.                                                        *)
EXTENDS ManualRun, TLC

Alike == Permutations(Procs) \cup Permutations(Projects) \cup Permutations(Paths)
=============================================================================
