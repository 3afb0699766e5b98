--------------------------- MODULE MCProductRunner ---------------------------
(* The product runner with one or two recordings, named in the             *)
(* configurations.                                                         *)
EXTENDS ProductRunner
=============================================================================
