------------------------------ MODULE CloseGate -----------------------------
(***************************************************************************)
(* run_close_gate: takes the project lock, the path lock, a handle that    *)
(* forbids others to write or delete, and the lock of the file itself, and *)
(* watches the file for two intervals of a second.  Every early return     *)
(* gives back all that was taken.                                          *)
(*                                                                         *)
(* A recorder that has the file open for writing makes the handle fail; a  *)
(* recorder that has closed its handle may still write through a mapping,  *)
(* which is what the snapshots are for.  While the handle is open no other *)
(* program can rename or delete the file.                                  *)
(***************************************************************************)
EXTENDS FileLocks

CONSTANTS
    Missing,        \* no file at a path, no handle
    MaxChanges      \* bound on the writes of the recorder

ASSUME ChangesAssumption == MaxChanges \in Nat

VARIABLES
    bound,          \* the file at each path name
    version,        \* the contents of each file, by the number of writes
    writer,         \* how the recorder holds each file: none, open or mapped
    at,             \* the project and the path each process works on
    handle,         \* the file each process holds open
    s0, last,       \* first and latest snapshot of each process
    result          \* how the gate ended

diskVars == <<bound, version, writer>>
gateVars == <<at, handle, s0, last, result>>

NoSnapshot == [file |-> Missing, version |-> 0]
Unchanged(left, right) == left = right

(* The contents are part of every snapshot by size and change times.       *)
measure_snapshot(f) == [file |-> f, version |-> version[f]]

-----------------------------------------------------------------------------
Goto(p, label) == pc' = [pc EXCEPT ![p] = label]

\* Mutant: the handle is closed, the path lock forgotten.
CloseResources_KeepsPath(p) ==
    /\ release(p, Keys \ {path_lock_key(a) : a \in Paths})
    /\ handle' = [handle EXCEPT ![p] = Missing]

(* OwnedGateResources.close: file lock, handle, path lock, project lock.  *)
CloseResources(p) ==
    /\ release(p, Keys)
    /\ handle' = [handle EXCEPT ![p] = Missing]

(* An early return: the result with everything given back.                 *)
cleanup_failure(p, kind) ==
    /\ CloseResources(p)
    /\ result' = [result EXCEPT ![p] = kind]
    /\ Goto(p, "refused")
    /\ UNCHANGED <<at, s0, last>>

(* What a native error of a source operation means.                        *)
classify_native(code) ==
    CASE code = "delete" -> "delete_pending"
      [] code = "sharing" -> "busy"
      [] code = "denied" -> "inaccessible"
      [] code = "missing" -> "disappeared"
      [] OTHER -> "unknown"

(* What a rejected path or lock means: the same, and a path that is no     *)
(* plain file on a local disk is unsupported.                              *)
classify_phase2(code) == IF code = "unsafe" THEN "unsupported" ELSE classify_native(code)

-----------------------------------------------------------------------------
(* Operations on the source.                                               *)

(* A path that exists may be a directory, a reparse point or no local file.*)
Unsafe == {"unsafe"}

(* Opened for its attributes with all sharing, so a recorder does not show.*)
validate_path(a) == IF bound[a] = Missing THEN "missing" ELSE "ok"

(* Opened for reading, others may only read.                               *)
OpenRestrictive(a) ==
    IF bound[a] = Missing THEN "missing"
    ELSE IF writer[bound[a]] = "open" THEN "sharing" ELSE "ok"

(* One step of the gate: cancelled, refused, or done with Good.  It looks  *)
(* for a cancellation before the operation and after one that succeeded;   *)
(* one that comes while it fails is not seen.                              *)
Step(p, natural, extra, Classify(_), Good) ==
    \E answer \in Answers(natural) \cup IF faults > 0 THEN extra ELSE {} :
        /\ Spend(answer, natural)
        /\ \/ cancelled[p] /\ cleanup_failure(p, "cancelled")
           \/ ~cancelled[p] /\ answer = "ok" /\ Good
           \/ answer # "ok" /\ cleanup_failure(p, Classify(answer))
        /\ UNCHANGED cancelled

(* A lock is taken, or everything is given back.                           *)
Acquire(p, k, label) ==
    \E lock \in acquire_lock(p, k) :
        /\ faults' = lock.left
        /\ IF lock.outcome = "taken"
           THEN open_key(p, k) /\ Goto(p, label) /\ UNCHANGED gateVars
           ELSE cleanup_failure(p, lock.outcome)

AcquireProject(p) ==
    /\ pc[p] = "project"
    /\ Acquire(p, project_key(at[p].project), "path")
    /\ UNCHANGED <<cancelled, diskVars>>

AcquirePath(p) ==
    /\ pc[p] = "path"
    /\ Acquire(p, path_lock_key(at[p].path), "check")
    /\ UNCHANGED <<cancelled, diskVars>>

CheckPath(p) ==
    /\ pc[p] = "check"
    /\ Step(p, validate_path(at[p].path), Unsafe, classify_phase2,
            Goto(p, "open") /\ UNCHANGED <<owner, gateVars>>)
    /\ UNCHANGED diskVars

OpenSource(p) ==
    /\ pc[p] = "open"
    /\ Step(p, OpenRestrictive(at[p].path), {"delete"}, classify_native,
            /\ handle' = [handle EXCEPT ![p] = bound[at[p].path]]
            /\ Goto(p, "pending")
            /\ UNCHANGED <<owner, at, s0, last, result>>)
    /\ UNCHANGED diskVars

QueryDeletePending(p) ==
    /\ pc[p] = "pending"
    /\ Step(p, "ok", {"delete"}, classify_native, Goto(p, "s0") /\ UNCHANGED <<owner, gateVars>>)
    /\ UNCHANGED diskVars

MeasureS0(p) ==
    /\ pc[p] = "s0"
    /\ Step(p, "ok", {"unsafe"}, classify_phase2,
            /\ s0' = [s0 EXCEPT ![p] = measure_snapshot(handle[p])]
            /\ last' = [last EXCEPT ![p] = measure_snapshot(handle[p])]
            /\ Goto(p, "own")
            /\ UNCHANGED <<owner, at, handle, result>>)
    /\ UNCHANGED diskVars

(* The lock of the file itself is tried once.                              *)
acquire_source_ownership(p) ==
    /\ pc[p] = "own"
    /\ Acquire(p, source_ownership_key(s0[p].file), "s1")
    /\ UNCHANGED <<cancelled, diskVars>>

(* A wait of a second and the next snapshot; the first one that differs   *)
(* from S0 is kept.                                                        *)
WaitAndMeasure(p, from, to) ==
    /\ pc[p] = from
    /\ Step(p, "ok", {}, classify_native,
            /\ last' = [last EXCEPT ![p] =
                            IF Unchanged(@, s0[p]) THEN measure_snapshot(handle[p]) ELSE @]
            /\ Goto(p, to)
            /\ UNCHANGED <<owner, at, handle, s0, result>>)
    /\ UNCHANGED diskVars

MeasureS1(p) == WaitAndMeasure(p, "s1", "s2")
MeasureS2(p) == WaitAndMeasure(p, "s2", "compare")

(* All three snapshots must agree; the permit excludes a cancellation.     *)
compare_window(p) == Unchanged(s0[p], last[p])

IssueLease(p) ==
    /\ pc[p] = "compare"
    /\ IF ~compare_window(p) THEN cleanup_failure(p, "unstable")
       ELSE IF cancelled[p] THEN cleanup_failure(p, "cancelled")
       ELSE /\ result' = [result EXCEPT ![p] = "closed"]
            /\ Goto(p, "leased")
            /\ UNCHANGED <<owner, at, handle, s0, last>>
    /\ UNCHANGED <<cancelled, faults, diskVars>>

run_close_gate(p) ==
    \/ AcquireProject(p) \/ AcquirePath(p) \/ CheckPath(p) \/ OpenSource(p)
    \/ QueryDeletePending(p) \/ MeasureS0(p) \/ acquire_source_ownership(p)
    \/ MeasureS1(p) \/ MeasureS2(p) \/ IssueLease(p)
=============================================================================
