------------------------------ MODULE ManualRun -----------------------------
(***************************************************************************)
(* manual_finalizer.py: a process validates its inputs, creates or opens a *)
(* project, tries the close gate a bounded number of times, confirms the   *)
(* source and stores the state of the finalizer in the project by compare  *)
(* and replace; whatever happens, it closes the lease.  Several processes  *)
(* run next to each other, next to the recorder and next to a program that *)
(* edits the project without a lock.  What the finalizer does at the       *)
(* sidecar's target is the module Finalizer.                               *)
(***************************************************************************)
EXTENDS SourceConfirmation

CONSTANT MaxAttempts    \* CloseGateRetryPolicy.max_attempts

VARIABLES
    project,        \* absent, orphan (a directory without project.json) or ready
    store,          \* the state file of each project: its data and its instance
    first,          \* what each process read of it
    tries           \* attempts of the gate

runVars == <<project, store, first, tries>>

vars == <<lockVars, diskVars, gateVars, confVars, runVars>>

Nowhere == [project |-> Missing, path |-> Missing]
NoStore == [revision |-> 0, author |-> "runs", instance |-> 0, late |-> FALSE]

Init ==
    /\ owner = [k \in Keys |-> Nobody]
    /\ pc = [p \in Procs |-> "idle"]
    /\ cancelled = [p \in Procs |-> FALSE]
    /\ faults = MaxFaults
    /\ bound \in [Paths -> Files]
    /\ version = [f \in Files |-> 0]
    /\ writer \in [Files -> {"none", "open", "mapped"}]
    /\ at = [p \in Procs |-> Nowhere]
    /\ handle = [p \in Procs |-> Missing]
    /\ s0 = [p \in Procs |-> NoSnapshot] /\ last = s0
    /\ result = [p \in Procs |-> "none"]
    /\ state = [p \in Procs |-> "closed"]
    /\ run = [p \in Procs |-> 0] /\ runs = 0
    /\ digest = [p \in Procs |-> <<>>]
    /\ probed = [p \in Procs |-> "ok"]
    /\ ambiguous \in SUBSET Files
    /\ media = {} /\ assigned = {} /\ receipts = {} /\ evidence = {}
    /\ project = [q \in Projects |-> "absent"]
    /\ store = [q \in Projects |-> NoStore]
    /\ first = [p \in Procs |-> NoStore]
    /\ tries = [p \in Procs |-> 0]

Kept == <<diskVars, ambiguous, media, assigned, receipts, evidence>>

-----------------------------------------------------------------------------
(* run_manual_finalizer up to the gate.                                    *)

(* The path is checked, the project named: none means a new one.           *)
StartRun(p) ==
    /\ pc[p] = "idle" /\ runs < MaxRuns
    /\ runs' = runs + 1
    /\ run' = [run EXCEPT ![p] = runs + 1]
    /\ tries' = [tries EXCEPT ![p] = 1]
    /\ \E a \in Paths, q \in Projects :
        /\ bound[a] # Missing
        /\ at' = [at EXCEPT ![p] = [project |-> q, path |-> a]]
        /\ IF project[q] = "absent"
           THEN Goto(p, "create") /\ \A o \in Procs : at[o].project # q
           ELSE Goto(p, "lookup")
    /\ UNCHANGED <<owner, cancelled, faults, handle, s0, last, result, state, digest, probed, project,
                   store, first, Kept>>

(* The run is over: its process gives back what it holds and forgets.      *)
EndRun(p) ==
    /\ CloseResources(p)
    /\ Goto(p, "idle")
    /\ at' = [at EXCEPT ![p] = Nowhere]
    /\ s0' = [s0 EXCEPT ![p] = NoSnapshot] /\ last' = [last EXCEPT ![p] = NoSnapshot]
    /\ digest' = [digest EXCEPT ![p] = <<>>]
    /\ first' = [first EXCEPT ![p] = NoStore]
    /\ tries' = [tries EXCEPT ![p] = 0]
    /\ cancelled' = [cancelled EXCEPT ![p] = FALSE]
    /\ result' = [result EXCEPT ![p] = "none"]
    /\ state' = [state EXCEPT ![p] = "closed"]
    /\ probed' = [probed EXCEPT ![p] = "ok"]
    /\ run' = [run EXCEPT ![p] = 0]
    /\ UNCHANGED <<runs, Kept>>

Abandon(p) == EndRun(p) /\ UNCHANGED <<project, store>>

(* A directory under a new id; its project.json follows as a new file.     *)
create_project(p) ==
    /\ pc[p] = "create"
    /\ IF cancelled[p]
       THEN Abandon(p) /\ UNCHANGED faults
       ELSE /\ project' = [project EXCEPT ![at[p].project] = "orphan"]
            /\ Goto(p, "describe")
            /\ UNCHANGED <<owner, cancelled, faults, gateVars, state, run, runs, digest, probed, store,
                           first, tries, Kept>>

PublishProject(p) ==
    /\ pc[p] = "describe"
    /\ \E answer \in Answers("ok") :
        /\ Spend(answer, "ok")
        /\ IF cancelled[p] \/ answer # "ok" THEN Abandon(p)
           ELSE /\ project' = [project EXCEPT ![at[p].project] = "ready"]
                /\ Goto(p, "project")
                /\ UNCHANGED <<owner, cancelled, gateVars, state, run, runs, digest, probed, store,
                               first, tries, Kept>>

open_project(p) ==
    /\ pc[p] = "lookup"
    /\ IF project[at[p].project] # "ready" THEN Abandon(p)
       ELSE /\ Goto(p, "project")
            /\ UNCHANGED <<owner, cancelled, gateVars, state, run, runs, digest, probed, project, store,
                           first, tries, Kept>>
    /\ UNCHANGED faults

-----------------------------------------------------------------------------
Retryable == {"busy", "delete_pending", "unstable"}

(* Another attempt after a pause, or the end of the run.                   *)
close_gate_with_retry(p) ==
    /\ pc[p] = "refused"
    /\ IF result[p] \in Retryable /\ tries[p] < MaxAttempts /\ ~cancelled[p]
       THEN /\ tries' = [tries EXCEPT ![p] = @ + 1]
            /\ s0' = [s0 EXCEPT ![p] = NoSnapshot] /\ last' = [last EXCEPT ![p] = NoSnapshot]
            /\ result' = [result EXCEPT ![p] = "none"]
            /\ Goto(p, "project")
            /\ UNCHANGED <<owner, cancelled, at, handle, state, run, runs, digest, probed, project,
                           store, first, Kept>>
       ELSE Abandon(p)
    /\ UNCHANGED faults

GateStep(p) ==
    /\ run_close_gate(p)
    /\ UNCHANGED <<confVars, runVars>>

ConfirmStep(p) ==
    /\ ConfirmInUsage(p)
    /\ UNCHANGED runVars

(* The finally block.                                                      *)
CloseLease(p) ==
    /\ pc[p] = "closing"
    /\ Abandon(p)
    /\ UNCHANGED faults

-----------------------------------------------------------------------------
(* replace_revision_cas on the state of the finalizer.                     *)

StoreFinish(p) ==
    /\ Goto(p, "closing")
    /\ UNCHANGED <<owner, cancelled, gateVars, confVars, diskVars, project, store, first, tries>>

StoreStep(p, from, ok, Good) ==
    /\ pc[p] = from
    /\ \E answer \in Answers("ok") :
        /\ Spend(answer, "ok")
        /\ IF answer = "ok" /\ ok THEN Good ELSE StoreFinish(p)

Current(q) == [store[q] EXCEPT !.late = FALSE]

(* The first read gives the revision to replace; then the new file is      *)
(* written next to it.                                                     *)
StoreRead(p) ==
    StoreStep(p, "store", begin_project_mutation(p, at[p].project)
                              /\ store[at[p].project].author = "runs",
        /\ first' = [first EXCEPT ![p] = Current(at[p].project)]
        /\ Goto(p, "second")
        /\ UNCHANGED <<owner, cancelled, gateVars, confVars, diskVars, project, store, tries>>)

\* Mutant: the second read compares the bytes and not the instance.
SameFile_BytesOnly(p) ==
    /\ first[p].revision = store[at[p].project].revision
    /\ first[p].author = store[at[p].project].author

(* The second read: the same bytes in the same file.                       *)
SameFile(p) == first[p] = Current(at[p].project)

StoreSecondRead(p) ==
    StoreStep(p, "second", ~cancelled[p] /\ SameFile(p),
        /\ store' = [store EXCEPT ![at[p].project] = Current(at[p].project)]
        /\ Goto(p, "replace")
        /\ UNCHANGED <<owner, cancelled, gateVars, confVars, diskVars, project, first, tries>>)

(* ReplaceFile, by name.                                                   *)
StoreReplace(p) ==
    StoreStep(p, "replace", TRUE,
        /\ store' = [store EXCEPT ![at[p].project] =
                        [first[p] EXCEPT !.revision = @ + 1, !.instance = store[at[p].project].instance + 1]]
        /\ Goto(p, "final")
        /\ UNCHANGED <<owner, cancelled, gateVars, confVars, diskVars, project, first, tries>>)

(* The final read only decides what is reported.                           *)
StoreVerify(p) ==
    /\ pc[p] = "final"
    /\ StoreFinish(p)
    /\ UNCHANGED faults

-----------------------------------------------------------------------------
(* The environment.                                                        *)

Cancel(p) ==
    /\ pc[p] # "idle" /\ ~cancelled[p] /\ faults > 0
    /\ cancelled' = [cancelled EXCEPT ![p] = TRUE]
    /\ faults' = faults - 1
    /\ UNCHANGED <<owner, pc, diskVars, gateVars, confVars, runVars>>

Crash(p) ==
    /\ pc[p] # "idle" /\ faults > 0
    /\ faults' = faults - 1
    /\ EndRun(p)
    /\ UNCHANGED <<project, store>>

(* The recorder or an editor: writes, closes its handle, drops its mapping.*)
SourceWritten(f) ==
    /\ writer[f] # "none" /\ version[f] < MaxChanges
    /\ version' = [version EXCEPT ![f] = @ + 1]
    /\ UNCHANGED <<bound, writer>>

WriterMoves(f) ==
    /\ \/ writer[f] = "open" /\ writer' \in {[writer EXCEPT ![f] = w] : w \in {"none", "mapped"}}
       \/ writer[f] = "mapped" /\ writer' = [writer EXCEPT ![f] = "none"]
    /\ UNCHANGED <<bound, version>>

(* A name is deleted or given to a file while no process holds the file.   *)
PathRebound(a) ==
    /\ faults > 0
    /\ \A p \in Procs : handle[p] = Missing \/ handle[p] # bound[a]
    /\ bound' \in {[bound EXCEPT ![a] = f] : f \in (Files \cup {Missing}) \ {bound[a]}}
    /\ faults' = faults - 1
    /\ UNCHANGED <<version, writer>>

SourceChanges ==
    /\ \/ \E f \in Files : (SourceWritten(f) \/ WriterMoves(f)) /\ UNCHANGED faults
       \/ \E a \in Paths : PathRebound(a)
    /\ UNCHANGED <<owner, pc, cancelled, gateVars, confVars, runVars>>

(* Another program changes the state file, or puts an equal one in place.  *)
ForeignEdit(q) ==
    /\ project[q] = "ready" /\ faults > 0
    /\ faults' = faults - 1
    /\ \E author \in {store[q].author, "foreign"} :
        store' = [store EXCEPT ![q].author = author, ![q].instance = @ + 1, ![q].late = TRUE]
    /\ UNCHANGED <<owner, pc, cancelled, diskVars, gateVars, confVars, project, first, tries>>

UserAssigns == create_stream_assignment /\ UNCHANGED runVars

Program(p) ==
    \/ create_project(p) \/ PublishProject(p) \/ open_project(p) \/ GateStep(p)
    \/ close_gate_with_retry(p) \/ ConfirmStep(p) \/ CloseLease(p)
    \/ StoreRead(p) \/ StoreSecondRead(p) \/ StoreReplace(p) \/ StoreVerify(p)

Next ==
    \/ \E p \in Procs : StartRun(p) \/ Program(p) \/ Cancel(p) \/ Crash(p)
    \/ SourceChanges
    \/ \E q \in Projects : ForeignEdit(q)
    \/ UserAssigns

Spec == Init /\ [][Next]_vars

-----------------------------------------------------------------------------
(* Properties                                                              *)

Labels ==
    {"idle", "create", "describe", "lookup", "project", "path", "check", "open", "pending",
     "s0", "own", "s1", "s2", "compare", "refused", "leased", "path1", "probe", "s3", "media",
     "select", "hash", "eof", "receipt", "s5", "path2", "evidence", "commit", "store", "second",
     "replace", "final", "closing"}

Snapshots == [file : Files \cup {Missing}, version : 0 .. MaxChanges]

TypeOK ==
    /\ owner \in [Keys -> Procs \cup {Nobody}]
    /\ pc \in [Procs -> Labels]
    /\ cancelled \in [Procs -> BOOLEAN] /\ faults \in 0 .. MaxFaults
    /\ bound \in [Paths -> Files \cup {Missing}] /\ version \in [Files -> 0 .. MaxChanges]
    /\ writer \in [Files -> {"none", "open", "mapped"}]
    /\ handle \in [Procs -> Files \cup {Missing}]
    /\ s0 \in [Procs -> Snapshots] /\ last \in [Procs -> Snapshots]
    /\ state \in [Procs -> SourceStates]
    /\ run \in [Procs -> 0 .. MaxRuns] /\ runs \in 0 .. MaxRuns
    /\ \A p \in Procs : Len(digest[p]) <= Blocks
    /\ assigned \subseteq media
    /\ project \in [Projects -> {"absent", "orphan", "ready"}]

(* Between the steps at which the gate reports a lease and the lease is    *)
(* closed.                                                                 *)
Leased(p) ==
    pc[p] \in Labels \ {"idle", "create", "describe", "lookup", "project", "path", "check",
                        "open", "pending", "s0", "own", "s1", "s2", "compare", "refused"}

(* Two processes never hold a lease on the same project, on the same path  *)
(* name, or on the same file, be it under two names that are hard links.   *)
OneHolderPerFile ==
    \A p, o \in Procs : p # o /\ Leased(p) /\ Leased(o) =>
        at[p].project # at[o].project /\ at[p].path # at[o].path /\ handle[p] # handle[o]

(* No receipt and no identity evidence on disk is of a recording that was  *)
(* changed while it was hashed, and the evidence of a confirmed source is  *)
(* that of its own run, of the contents the gate saw.                      *)
EvidenceIsOfOneRecording ==
    /\ \A r \in receipts \cup evidence : \A i, j \in 1 .. Blocks :
            r.identity.digest[i] = r.identity.digest[j]
    /\ \A p \in Procs : pc[p] \in {"store", "second", "replace", "final"} =>
            /\ Record(p) \in receipts \cap evidence
            /\ \A i \in 1 .. Blocks : digest[p][i] = s0[p].version

(* A run that is over or between two attempts of the gate holds no         *)
(* ownership file and no handle, at whatever step it was refused,          *)
(* cancelled, or its process ended.                                        *)
NothingLeftBehind ==
    \A p \in Procs : pc[p] \in {"idle", "refused", "create", "describe", "lookup"} =>
        Held(p) = {} /\ handle[p] = Missing

(* Whoever holds a lease holds all of it alone, whoever has none holds      *)
(* nothing (phase2/close_gate/gate.py, phase2/locks.py).                   *)
LeasesAreOwned == OneHolderPerFile /\ NothingLeftBehind

(* What another program wrote before the second read of the state file is  *)
(* never overwritten; only a change after it can be lost.                  *)
NoUnseenOverwrite ==
    [][\A p \in Procs : pc[p] = "replace" /\ store' # store /\ pc'[p] # pc[p] =>
            \/ store[at[p].project] = first[p]
            \/ store[at[p].project].late]_vars

(* The plan of the project promises a new run after one that was cancelled *)
(* or failed: then no file an earlier run left may refuse a later run of   *)
(* the same unchanged recording.                                           *)
RerunIsPossible ==
    \A p \in Procs : pc[p] = "receipt" => publish_initial(p, receipts) = "ok"

-----------------------------------------------------------------------------
(* Why the properties hold.                                                *)

(* The steps from the one after which the process holds the project lock,  *)
(* the path lock, the handle, S0 and the lock of the file.                 *)
Free == {"idle", "refused", "create", "describe", "lookup"}
WithProject == Labels \ (Free \cup {"project"})
WithPath == WithProject \ {"path"}
WithHandle == WithPath \ {"check", "open"}
WithS0 == WithHandle \ {"pending", "s0"}
WithSource == WithS0 \ {"own"}

(* The steps after the hash, the receipt and the evidence.                 *)
Evidenced == {"commit", "store", "second", "replace", "final"}
Receipted == Evidenced \cup {"s5", "path2", "evidence"}
Hashed == Receipted \cup {"receipt"}

Stores == [revision : Nat, author : {"runs", "foreign"}, instance : Nat, late : BOOLEAN]

DataTypeOK ==
    /\ at \in [Procs -> [project : Projects \cup {Missing}, path : Paths \cup {Missing}]]
    /\ digest \in [Procs -> Seq(0 .. MaxChanges)]
    /\ store \in [Projects -> Stores] /\ first \in [Procs -> Stores]

(* What a process has taken is its own until it gives everything back.     *)
Owns(p) ==
    /\ pc[p] # "idle" => at[p].project \in Projects /\ at[p].path \in Paths
    /\ pc[p] \in WithProject => owner[project_key(at[p].project)] = p
    /\ pc[p] \in WithPath => owner[path_lock_key(at[p].path)] = p
    /\ pc[p] \in WithHandle => handle[p] \in Files /\ handle[p] # Missing
    /\ pc[p] \in WithS0 => s0[p].file = handle[p] /\ s0[p].version <= version[handle[p]]
    /\ pc[p] \in WithSource => owner[source_ownership_key(s0[p].file)] = p
    /\ pc[p] \in Free => (\A k \in Keys : owner[k] # p) /\ handle[p] = Missing

(* Contents only grow: a block lies between S0 and now, so a file that is  *)
(* S0 at the end was S0 at every block.                                    *)
Hashes(p) ==
    /\ pc[p] \in Labels \ (Hashed \cup {"hash", "eof", "closing"}) => digest[p] = << >>
    /\ pc[p] = "hash" => Len(digest[p]) < Blocks
    /\ pc[p] \in Hashed \cup {"eof"} => Len(digest[p]) = Blocks
    /\ pc[p] \in {"hash", "eof"} => \A i \in 1 .. Len(digest[p]) :
            s0[p].version <= digest[p][i] /\ digest[p][i] <= version[handle[p]]
    /\ pc[p] \in Hashed => \A i \in 1 .. Blocks : digest[p][i] = s0[p].version

Witnessed(p) ==
    /\ pc[p] \in Receipted => Record(p) \in receipts
    /\ pc[p] \in Evidenced => Record(p) \in evidence

(* Since the second read only a foreign edit can have come between.        *)
Replaces(p) ==
    pc[p] = "replace" => \/ store[at[p].project] = first[p]
                         \/ store[at[p].project].late

OneRecording(records) ==
    \A r \in records : \A i, j \in 1 .. Blocks : r.identity.digest[i] = r.identity.digest[j]

IInv ==
    /\ TypeOK /\ DataTypeOK
    /\ \A p \in Procs : Owns(p) /\ Hashes(p) /\ Witnessed(p) /\ Replaces(p)
    /\ OneRecording(receipts) /\ OneRecording(evidence)
=============================================================================
