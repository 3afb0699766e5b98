----------------------------- MODULE MCObsAdapter -----------------------------
(***************************************************************************)
(* Bounds for ObsAdapter.                                                  *)
(***************************************************************************)
EXTENDS ObsAdapter

=============================================================================
