-------------------------- MODULE MCJournalProducer --------------------------
(***************************************************************************)
(* Model values for JournalProducer.                                       *)
(***************************************************************************)
EXTENDS JournalProducer

CONSTANTS owner, other

=============================================================================
