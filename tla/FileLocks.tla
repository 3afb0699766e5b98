------------------------------ MODULE FileLocks -----------------------------
(***************************************************************************)
(* The ownership files of phase2/locks.py and close_gate/ownership.py: a   *)
(* lock is held by keeping its file open without sharing.  Opening it a    *)
(* second time reports a sharing violation; the operating system frees it  *)
(* when the process ends.                                                  *)
(***************************************************************************)
EXTENDS Naturals, FiniteSets

CONSTANTS
    Procs,          \* processes that finalize recordings
    Projects,       \* project ids
    Paths,          \* path names of recordings, two of them may be hard links
    Files,          \* files, by volume and file id
    Nobody,         \* no process
    MaxFaults       \* bound on failing calls, cancellations, crashes and foreign edits

ASSUME LockAssumption == Nobody \notin Procs /\ MaxFaults \in Nat

VARIABLES
    owner,          \* the process that holds each ownership file open
    pc,             \* where each process is
    cancelled,      \* whose cancellation token is set
    faults          \* how many of them are left

lockVars == <<owner, pc, cancelled, faults>>

-----------------------------------------------------------------------------
(* Keys: the project id, the digest of the path name, volume and file id.  *)

project_key(q) == <<"projects", q>>
path_lock_key(a) == <<"paths", a>>
source_ownership_key(f) == <<"sources", f>>

Keys ==
    {project_key(q) : q \in Projects} \cup {path_lock_key(a) : a \in Paths}
        \cup {source_ownership_key(f) : f \in Files}

Held(p) == {k \in Keys : owner[k] = p}

-----------------------------------------------------------------------------
(* System calls.  A call gives what the state says or, while the budget    *)
(* lasts, fails with "denied" or "error".                                  *)

Odd == {"denied", "error"}

Answers(natural) == {natural} \cup IF faults > 0 THEN Odd ELSE {}

Spend(answer, natural) == faults' = IF answer = natural THEN faults ELSE faults - 1

(* What an open of an ownership file says.                                 *)
OpenKey(k) == IF owner[k] = Nobody THEN "ok" ELSE "sharing"

(* How the result of an ownership open is reported.                        *)
lock_error(code) ==
    CASE code = "sharing" -> "busy"
      [] code = "denied" -> "inaccessible"
      [] OTHER -> "unknown"

open_key(p, k) == owner' = [owner EXCEPT ![k] = p]

release(p, keys) ==
    owner' = [k \in Keys |-> IF k \in keys /\ owner[k] = p THEN Nobody ELSE owner[k]]

(* How an acquisition can end, and the faults left after it.  A busy lock  *)
(* is tried again until its timeout, every 50 milliseconds; the wait       *)
(* changes nothing.                                                        *)
acquire_lock(p, k) ==
    {[outcome |-> IF cancelled[p] THEN "cancelled"
                  ELSE IF answer = "ok" THEN "taken" ELSE lock_error(answer),
      left |-> IF answer = OpenKey(k) THEN faults ELSE faults - 1] : answer \in Answers(OpenKey(k))}

(* Only the holder of the live project lock may change the project.        *)
begin_project_mutation(p, q) == owner[project_key(q)] = p
=============================================================================
