---------------------------- MODULE MCFinalizer -----------------------------
(* Instances of Finalizer for TLC.                                         *)
EXTENDS Finalizer, TLC

\* Threads are interchangeable.
ProcSymmetry == Permutations(Procs)
=============================================================================
