-------------------------- MODULE MCLeaseAuthority --------------------------
(* Model values for LeaseAuthority.                                        *)
EXTENDS LeaseAuthority

CONSTANTS t1, t2
=============================================================================
