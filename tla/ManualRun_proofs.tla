-------------------------- MODULE ManualRun_proofs --------------------------
(***************************************************************************)
(* Proofs about ManualRun with its locks, its close gate and its source    *)
(* confirmation, for any processes, projects, paths and files; and about   *)
(* the lease such a run works under (LeaseAuthority), for any finite set   *)
(* of threads and any number of calls.                                     *)
(***************************************************************************)
EXTENDS ManualRun, LeaseAuthority, SequenceTheorems, FiniteSetTheorems, TLAPS

USE DEF Blocks

-----------------------------------------------------------------------------
(* Steps of a process and what they leave to the others.                   *)

\* What every step does: contents, receipts and evidence are never taken back.
Grows ==
    /\ \A f \in Files : version[f] <= version'[f]
    /\ receipts \subseteq receipts' /\ evidence \subseteq evidence'

\* What the step of another process leaves alone.
Spares(o) ==
    /\ UNCHANGED <<pc[o], at[o], handle[o], s0[o], digest[o], run[o], first[o]>>
    /\ \A k \in Keys : owner'[k] = o <=> owner[k] = o
    /\ pc[o] = "replace" => \/ UNCHANGED store[at[o].project]
                            \/ store'[at[o].project].late

Inv(p) == Owns(p) /\ Hashes(p) /\ Witnessed(p) /\ Replaces(p)

LEMMA KeysExist ==
    /\ \A q \in Projects : project_key(q) \in Keys
    /\ \A a \in Paths : path_lock_key(a) \in Keys
    /\ \A f \in Files : source_ownership_key(f) \in Keys
BY DEF Keys

\* A later step has all that an earlier one had.
LEMMA Order ==
    /\ WithSource \subseteq WithS0 /\ WithS0 \subseteq WithHandle
    /\ WithHandle \subseteq WithPath /\ WithPath \subseteq WithProject
    /\ WithProject \subseteq Labels \ {"idle"} /\ Free \cap WithProject = {}
    /\ Evidenced \subseteq Receipted /\ Receipted \subseteq Hashed
    /\ Hashed \cup {"hash", "eof"} \subseteq WithSource
BY DEF WithSource, WithS0, WithHandle, WithPath, WithProject, Free, Labels, Hashed,
       Receipted, Evidenced

\* The values that are compared are numbers.
LEMMA Numbers ==
    ASSUME TypeOK, DataTypeOK, NEW p \in Procs
    PROVE  /\ s0[p].version \in Nat /\ s0[p].file \in Files \cup {Missing}
           /\ \A f \in Files : version[f] \in Nat /\ version[f] <= MaxChanges
           /\ digest[p] \in Seq(0 .. MaxChanges) /\ Len(digest[p]) \in Nat
           /\ \A i \in 1 .. Len(digest[p]) : digest[p][i] \in Nat
<1>1. s0[p] \in Snapshots /\ digest[p] \in Seq(0 .. MaxChanges)
  BY DEF TypeOK, DataTypeOK
<1>2. Len(digest[p]) \in Nat
  BY <1>1
<1>3. \A i \in 1 .. Len(digest[p]) : digest[p][i] \in 0 .. MaxChanges
  BY <1>1, ElementOfSeq
<1>4. \A f \in Files : version[f] \in 0 .. MaxChanges
  BY DEF TypeOK
<1> QED
  BY <1>1, <1>2, <1>3, <1>4, ChangesAssumption DEF Snapshots

LEMMA SparedInv ==
    ASSUME IInv, NEW o \in Procs, TypeOK', DataTypeOK', Grows, Spares(o)
    PROVE  Inv(o)'
<1>1. Owns(o) /\ Hashes(o) /\ Witnessed(o) /\ Replaces(o)
  BY DEF IInv
<1>2. /\ pc'[o] = pc[o] /\ at'[o] = at[o] /\ handle'[o] = handle[o] /\ s0'[o] = s0[o]
      /\ digest'[o] = digest[o] /\ run'[o] = run[o] /\ first'[o] = first[o]
  BY DEF Spares
<1>3. pc[o] \in WithHandle => /\ version[handle[o]] \in Nat /\ version'[handle[o]] \in Nat
                               /\ version[handle[o]] <= version'[handle[o]]
  <2>1. pc[o] \in WithHandle => handle[o] \in Files
    BY <1>1 DEF Owns
  <2>2. \A f \in Files : version'[f] \in 0 .. MaxChanges
    BY DEF TypeOK
  <2>3. \A f \in Files : version[f] \in 0 .. MaxChanges
    BY DEF IInv, TypeOK
  <2> QED
    BY <2>1, <2>2, <2>3, ChangesAssumption DEF Grows
<1>4. Owns(o)'
  <2>1. pc[o] \in WithS0 => s0[o].version <= version'[handle[o]]
    BY <1>1, <1>3, Numbers, Order DEF Owns, IInv
  <2> QED
    BY <1>1, <1>2, <2>1, KeysExist, Order DEF Owns, Spares
<1>5. Hashes(o)'
  <2>1. ASSUME pc[o] \in {"hash", "eof"}, NEW i \in 1 .. Len(digest[o])
        PROVE  s0[o].version <= digest[o][i] /\ digest[o][i] <= version'[handle[o]]
    <3>1. s0[o].version <= digest[o][i] /\ digest[o][i] <= version[handle[o]]
      BY <1>1, <2>1 DEF Hashes
    <3>2. pc[o] \in WithHandle
      BY <2>1, Order
    <3>3. digest[o][i] \in Nat
      BY Numbers DEF IInv
    <3> QED
      BY <1>3, <3>1, <3>2, <3>3
  <2> QED
    BY <1>1, <1>2, <2>1 DEF Hashes
<1>6. Witnessed(o)'
  BY <1>1, <1>2 DEF Witnessed, Record, Identity, Grows
<1>7. Replaces(o)'
  BY <1>1, <1>2 DEF Replaces, Spares
<1> QED
  BY <1>4, <1>5, <1>6, <1>7 DEF Inv

\* One process steps, the others are spared.
LEMMA OneSteps ==
    ASSUME IInv, TypeOK', DataTypeOK', NEW p \in Procs, Grows, Inv(p)',
           OneRecording(receipts)', OneRecording(evidence)',
           \A o \in Procs \ {p} : Spares(o)
    PROVE  IInv'
<1>1. ASSUME NEW o \in Procs PROVE Inv(o)'
  BY <1>1, SparedInv
<1> QED
  BY <1>1 DEF IInv, Inv

\* The surroundings step, every process is spared.
LEMMA NobodySteps ==
    ASSUME IInv, TypeOK', DataTypeOK', Grows, OneRecording(receipts)', OneRecording(evidence)',
           \A o \in Procs : Spares(o)
    PROVE  IInv'
<1>1. ASSUME NEW o \in Procs PROVE Inv(o)'
  BY SparedInv
<1> QED
  BY <1>1 DEF IInv, Inv

\* A step that leaves the locks, the store, the contents and what is published
\* alone, and of the rest only the row of p.
OnlyRow(p) ==
    /\ UNCHANGED <<owner, version, receipts, evidence, store>>
    /\ \A o \in Procs \ {p} :
          UNCHANGED <<pc[o], at[o], handle[o], s0[o], digest[o], run[o], first[o]>>

LEMMA QuietStep ==
    ASSUME IInv, TypeOK', DataTypeOK', NEW p \in Procs, OnlyRow(p), Inv(p)'
    PROVE  IInv'
<1>1. Grows
  <2>1. \A f \in Files : version[f] \in Nat
    BY Numbers DEF IInv
  <2> QED
    BY <2>1 DEF Grows, OnlyRow
<1>2. \A o \in Procs \ {p} : Spares(o)
  BY DEF OnlyRow, Spares
<1>3. OneRecording(receipts)' /\ OneRecording(evidence)'
  BY DEF IInv, OnlyRow, OneRecording
<1> QED
  BY <1>1, <1>2, <1>3, OneSteps

\* From a to b nothing is taken, hashed, published or read for a replacement.
Onward(a, b) ==
    /\ b \in Labels \ {"idle"} /\ a # "idle"
    /\ b \in Free => a \in Free
    /\ b \in WithProject => a \in WithProject
    /\ b \in WithPath => a \in WithPath
    /\ b \in WithHandle => a \in WithHandle
    /\ b \in WithS0 => a \in WithS0
    /\ b \in WithSource => a \in WithSource
    /\ b \notin Hashed \cup {"eof", "closing"} => a \notin Hashed \cup {"hash", "eof", "closing"}
    /\ b # "eof" /\ b # "replace" /\ (b \in Hashed => a \in Hashed)
    /\ b \in Receipted => a \in Receipted
    /\ b \in Evidenced => a \in Evidenced

LEMMA Moving ==
    ASSUME IInv, TypeOK', DataTypeOK', NEW p \in Procs, NEW to, Onward(pc[p], to), Goto(p, to),
           UNCHANGED <<owner, at, handle, s0, digest, run, version, receipts, evidence, store>>,
           \A o \in Procs \ {p} : first'[o] = first[o]
    PROVE  IInv'
<1>1. pc'[p] = to /\ (\A o \in Procs \ {p} : pc'[o] = pc[o]) /\ pc[p] \in Labels
  BY DEF IInv, TypeOK, Goto
<1>2. OnlyRow(p)
  BY <1>1 DEF OnlyRow
<1>3. Owns(p)'
  BY <1>1 DEF IInv, Owns, Onward
<1>4. Hashes(p)'
  <2>1. digest[p] = << >> => Len(digest[p]) = 0
    OBVIOUS
  <2>2. Hashes(p) /\ digest'[p] = digest[p] /\ s0'[p] = s0[p]
    BY DEF IInv
  <2>3. to = "hash" => digest[p] = << >>
    BY <1>1, <2>2 DEF Onward, Hashes, Hashed, Receipted, Evidenced
  <2> QED
    BY <1>1, <2>1, <2>2, <2>3 DEF Onward, Hashes
<1>5. Witnessed(p)'
  BY <1>1 DEF IInv, Witnessed, Onward, Record, Identity
<1>6. Replaces(p)'
  BY <1>1 DEF Onward, Replaces
<1> QED
  BY <1>2, <1>3, <1>4, <1>5, <1>6, QuietStep DEF Inv

-----------------------------------------------------------------------------
(* The common endings.                                                     *)

\* A system call spends at most a fault that was left.
LEMMA Spending ==
    ASSUME TypeOK, NEW natural, NEW extra,
           NEW answer \in Answers(natural) \cup IF faults > 0 THEN extra ELSE {},
           Spend(answer, natural)
    PROVE  faults' \in 0 .. MaxFaults
<1>1. faults \in 0 .. MaxFaults
  BY DEF TypeOK
<1>2. faults' = faults \/ (faults > 0 /\ faults' = faults - 1)
  BY DEF Answers, Spend
<1> QED
  BY <1>1, <1>2, LockAssumption

\* Only the call that was made can have succeeded.
LEMMA Succeeding ==
    ASSUME NEW natural, NEW extra, "ok" \notin extra,
           "ok" \in Answers(natural) \cup IF faults > 0 THEN extra ELSE {}
    PROVE  natural = "ok"
BY DEF Answers, Odd

LEMMA EndRunInv ==
    ASSUME IInv, NEW p \in Procs, EndRun(p), UNCHANGED <<project, store>>,
           faults' \in 0 .. MaxFaults
    PROVE  IInv'
<1> USE DEF EndRun, CloseResources, release, Goto, Kept, diskVars
<1>0. TypeOK /\ DataTypeOK
  BY DEF IInv
<1>1. TypeOK'
  <2>1. owner' \in [Keys -> Procs \cup {Nobody}]
    BY <1>0 DEF TypeOK
  <2>2. pc' \in [Procs -> Labels] /\ cancelled' \in [Procs -> BOOLEAN]
    BY <1>0 DEF TypeOK, Labels
  <2>3. handle' \in [Procs -> Files \cup {Missing}]
    BY <1>0 DEF TypeOK
  <2>4. NoSnapshot \in Snapshots
    BY ChangesAssumption DEF NoSnapshot, Snapshots
  <2>5. s0' \in [Procs -> Snapshots] /\ last' \in [Procs -> Snapshots]
    BY <1>0, <2>4 DEF TypeOK
  <2>6. state' \in [Procs -> SourceStates]
    BY <1>0 DEF TypeOK, SourceStates
  <2>7. run' \in [Procs -> 0 .. MaxRuns] /\ runs' \in 0 .. MaxRuns
    BY <1>0, RunsAssumption DEF TypeOK
  <2>8. \A o \in Procs : Len(digest'[o]) <= Blocks
    <3>1. \A o \in Procs : digest'[o] \in {digest[o], << >>}
      BY <1>0 DEF DataTypeOK
    <3> QED
      BY <1>0, <3>1 DEF TypeOK
  <2> QED
    BY <1>0, <2>1, <2>2, <2>3, <2>5, <2>6, <2>7, <2>8 DEF TypeOK
<1>2. DataTypeOK'
  <2>1. << >> \in Seq(0 .. MaxChanges)
    OBVIOUS
  <2>2. NoStore \in Stores
    BY DEF NoStore, Stores
  <2> QED
    BY <1>0, <2>1, <2>2 DEF DataTypeOK, Nowhere
<1>3. /\ pc'[p] = "idle" /\ handle'[p] = Missing /\ digest'[p] = << >>
      /\ \A k \in Keys : owner'[k] # p
  BY <1>0, LockAssumption DEF TypeOK, DataTypeOK
<1>4. Inv(p)'
  BY <1>3 DEF Inv, Owns, Hashes, Witnessed, Replaces, WithProject, WithPath, WithHandle,
              WithS0, WithSource, Free, Labels, Hashed, Receipted, Evidenced
<1>5. Grows
  BY <1>0, Numbers DEF Grows
<1>6. ASSUME NEW o \in Procs \ {p} PROVE Spares(o)
  <2>1. \A k \in Keys : owner'[k] = o <=> owner[k] = o
    BY <1>0, LockAssumption DEF TypeOK
  <2> QED
    BY <2>1 DEF Spares
<1>7. OneRecording(receipts)' /\ OneRecording(evidence)'
  BY DEF IInv, OneRecording
<1> QED
  BY <1>1, <1>2, <1>4, <1>5, <1>6, <1>7, OneSteps

LEMMA AbandonInv ==
    ASSUME IInv, NEW p \in Procs, Abandon(p), faults' \in 0 .. MaxFaults
    PROVE  IInv'
BY EndRunInv DEF Abandon

\* The gate gives back what it took and reports why.
LEMMA RefusedInv ==
    ASSUME IInv, NEW p \in Procs, NEW kind, cleanup_failure(p, kind),
           pc[p] \in Labels \ (Free \cup Hashed \cup {"hash", "eof", "closing"}),
           UNCHANGED <<cancelled, diskVars, confVars, runVars>>, faults' \in 0 .. MaxFaults
    PROVE  IInv'
<1> USE DEF cleanup_failure, CloseResources, release, Goto, diskVars, confVars, runVars
<1>0. TypeOK /\ DataTypeOK
  BY DEF IInv
<1>1. TypeOK'
  <2>1. owner' \in [Keys -> Procs \cup {Nobody}]
    BY <1>0 DEF TypeOK
  <2>2. pc' \in [Procs -> Labels]
    BY <1>0 DEF TypeOK, Labels
  <2>3. handle' \in [Procs -> Files \cup {Missing}]
    BY <1>0 DEF TypeOK
  <2> QED
    BY <1>0, <2>1, <2>2, <2>3 DEF TypeOK
<1>2. DataTypeOK'
  BY <1>0 DEF DataTypeOK
<1>3. /\ pc'[p] = "refused" /\ handle'[p] = Missing /\ digest'[p] = << >>
      /\ at'[p].project \in Projects /\ at'[p].path \in Paths
      /\ \A k \in Keys : owner'[k] # p
  <2>1. Owns(p) /\ Hashes(p)
    BY DEF IInv
  <2>2. digest[p] = << >> /\ pc[p] # "idle"
    BY <2>1 DEF Hashes, Free
  <2> QED
    BY <1>0, <2>1, <2>2, LockAssumption DEF TypeOK, Owns
<1>4. Inv(p)'
  BY <1>3 DEF Inv, Owns, Hashes, Witnessed, Replaces, WithProject, WithPath, WithHandle,
              WithS0, WithSource, Free, Labels, Hashed, Receipted, Evidenced
<1>5. Grows
  BY <1>0, Numbers DEF Grows
<1>6. ASSUME NEW o \in Procs \ {p} PROVE Spares(o)
  <2>1. \A k \in Keys : owner'[k] = o <=> owner[k] = o
    BY <1>0, LockAssumption DEF TypeOK
  <2> QED
    BY <1>0, <2>1 DEF Spares, TypeOK
<1>7. OneRecording(receipts)' /\ OneRecording(evidence)'
  BY DEF IInv, OneRecording
<1> QED
  BY <1>1, <1>2, <1>4, <1>5, <1>6, <1>7, OneSteps

\* The end of a run is reached from every step under a lease.
LEMMA ClosingIsOnward ==
    ASSUME NEW a \in Labels \ (Free \cup {"project", "path", "check", "open", "pending",
                                         "s0", "own", "s1", "s2", "compare"})
    PROVE  Onward(a, "closing")
BY DEF Onward, WithProject, WithPath, WithHandle, WithS0, WithSource, Free, Labels, Hashed,
       Receipted, Evidenced

LEMMA FinishInv ==
    ASSUME IInv, NEW p \in Procs, NEW target \in SourceStates, Finish(p, target),
           Onward(pc[p], "closing"),
           UNCHANGED <<cancelled, diskVars, runVars>>, faults' \in 0 .. MaxFaults
    PROVE  IInv'
<1> USE DEF Finish, transition, gateVars, diskVars, runVars
<1>1. TypeOK'
  BY DEF IInv, TypeOK, Goto, Labels
<1>2. DataTypeOK'
  BY DEF IInv, DataTypeOK
<1> QED
  BY <1>1, <1>2, Moving

LEMMA StoreFinishInv ==
    ASSUME IInv, NEW p \in Procs, StoreFinish(p), Onward(pc[p], "closing"),
           faults' \in 0 .. MaxFaults
    PROVE  IInv'
<1> USE DEF StoreFinish, gateVars, confVars, diskVars
<1>1. TypeOK'
  BY DEF IInv, TypeOK, Goto, Labels
<1>2. DataTypeOK'
  BY DEF IInv, DataTypeOK
<1> QED
  BY <1>1, <1>2, Moving

-----------------------------------------------------------------------------
(* A run up to the gate.                                                   *)

LEMMA StartRunInv ==
    ASSUME IInv, NEW p \in Procs, StartRun(p)
    PROVE  IInv'
<1> USE DEF Goto, Kept, diskVars
<1>0. TypeOK /\ DataTypeOK
  BY DEF IInv
<1> PICK a \in Paths, q \in Projects :
        /\ at' = [at EXCEPT ![p] = [project |-> q, path |-> a]]
        /\ Goto(p, "create") \/ Goto(p, "lookup")
  BY DEF StartRun
<1>1. /\ pc[p] = "idle" /\ runs < MaxRuns /\ runs' = runs + 1
      /\ run' = [run EXCEPT ![p] = runs + 1]
      /\ UNCHANGED <<owner, cancelled, faults, handle, s0, last, result, state, digest, probed,
                     project, store, first, Kept>>
  BY DEF StartRun
<1>2. TypeOK'
  <2>1. runs' \in 0 .. MaxRuns /\ run' \in [Procs -> 0 .. MaxRuns]
    BY <1>0, <1>1, RunsAssumption DEF TypeOK
  <2>2. pc' \in [Procs -> Labels]
    <3>1. \E to \in Labels : pc' = [pc EXCEPT ![p] = to]
      BY DEF Labels
    <3> QED
      BY <1>0, <3>1 DEF TypeOK
  <2> QED
    BY <1>0, <1>1, <2>1, <2>2 DEF TypeOK
<1>3. DataTypeOK'
  BY <1>0, <1>1 DEF DataTypeOK
<1>4. /\ pc'[p] \in {"create", "lookup"} /\ at'[p].project \in Projects
      /\ at'[p].path \in Paths /\ handle'[p] = Missing /\ digest'[p] = << >>
      /\ \A k \in Keys : owner'[k] # p
  <2>1. Owns(p) /\ Hashes(p)
    BY DEF IInv
  <2>2. digest[p] = << >>
    BY <1>1, <2>1 DEF Hashes, Labels, Hashed, Receipted, Evidenced
  <2> QED
    BY <1>0, <1>1, <2>1, <2>2 DEF TypeOK, DataTypeOK, Owns, Free
<1>5. Inv(p)'
  BY <1>4 DEF Inv, Owns, Hashes, Witnessed, Replaces, WithProject, WithPath, WithHandle,
              WithS0, WithSource, Free, Labels, Hashed, Receipted, Evidenced
<1>6. OnlyRow(p)
  BY <1>0, <1>1 DEF OnlyRow, TypeOK, DataTypeOK
<1> QED
  BY <1>2, <1>3, <1>5, <1>6, QuietStep

\* A step that only moves the process on and changes what no invariant reads.
LEMMA PlainMove ==
    ASSUME IInv, NEW p \in Procs, NEW to, Onward(pc[p], to), Goto(p, to),
           UNCHANGED <<owner, cancelled, bound, version, writer, at, handle, s0, last, run, runs,
                       digest, assigned, receipts, evidence, store, first>>,
           state' \in [Procs -> SourceStates],
           assigned' \subseteq media', faults' \in 0 .. MaxFaults,
           project' \in [Projects -> {"absent", "orphan", "ready"}]
    PROVE  IInv'
<1>1. TypeOK'
  BY DEF IInv, TypeOK, Goto, Onward
<1>2. DataTypeOK'
  BY DEF IInv, DataTypeOK
<1> QED
  BY <1>1, <1>2, Moving

LEMMA create_projectInv ==
    ASSUME IInv, NEW p \in Procs, create_project(p)
    PROVE  IInv'
<1>1. faults \in 0 .. MaxFaults
  BY DEF IInv, TypeOK
<1>2. CASE cancelled[p]
  BY <1>1, <1>2, AbandonInv DEF create_project
<1>3. CASE ~cancelled[p]
  <2>1. Onward(pc[p], "describe") /\ Goto(p, "describe")
    BY <1>3 DEF create_project, Onward, WithProject, WithPath, WithHandle, WithS0, WithSource,
                Free, Labels, Hashed, Receipted, Evidenced
  <2>2. project' \in [Projects -> {"absent", "orphan", "ready"}]
    BY <1>3 DEF create_project, IInv, TypeOK
  <2> QED
    BY <1>1, <1>3, <2>1, <2>2, PlainMove DEF create_project, gateVars, Kept, diskVars, IInv, TypeOK
<1> QED
  BY <1>2, <1>3

LEMMA PublishProjectInv ==
    ASSUME IInv, NEW p \in Procs, PublishProject(p)
    PROVE  IInv'
<1>1. PICK answer \in Answers("ok") :
        /\ Spend(answer, "ok")
        /\ \/ Abandon(p)
           \/ /\ project' = [project EXCEPT ![at[p].project] = "ready"]
              /\ Goto(p, "project")
              /\ UNCHANGED <<owner, cancelled, gateVars, state, run, runs, digest, probed, store,
                             first, tries, Kept>>
  BY DEF PublishProject
<1>2. faults' \in 0 .. MaxFaults
  <2>1. answer \in Answers("ok") \cup IF faults > 0 THEN {} ELSE {}
    OBVIOUS
  <2> QED
    BY <1>1, <2>1, Spending DEF IInv
<1>3. CASE Abandon(p)
  BY <1>2, <1>3, AbandonInv
<1>4. CASE ~Abandon(p)
  <2>1. Onward(pc[p], "project")
    BY DEF PublishProject, Onward, WithProject, WithPath, WithHandle, WithS0, WithSource,
           Free, Labels, Hashed, Receipted, Evidenced
  <2>2. project' \in [Projects -> {"absent", "orphan", "ready"}]
    BY <1>1, <1>4 DEF IInv, TypeOK
  <2> QED
    BY <1>1, <1>2, <1>4, <2>1, <2>2, PlainMove DEF gateVars, Kept, diskVars, IInv, TypeOK
<1> QED
  BY <1>3, <1>4

LEMMA open_projectInv ==
    ASSUME IInv, NEW p \in Procs, open_project(p)
    PROVE  IInv'
<1>1. faults' \in 0 .. MaxFaults
  BY DEF open_project, IInv, TypeOK
<1>2. CASE Abandon(p)
  BY <1>1, <1>2, AbandonInv
<1>3. CASE ~Abandon(p)
  <2>1. Onward(pc[p], "project") /\ Goto(p, "project")
    BY <1>3 DEF open_project, Onward, WithProject, WithPath, WithHandle, WithS0, WithSource,
                Free, Labels, Hashed, Receipted, Evidenced
  <2> QED
    BY <1>1, <1>3, <2>1, PlainMove DEF open_project, gateVars, Kept, diskVars, IInv, TypeOK
<1> QED
  BY <1>2, <1>3

LEMMA close_gate_with_retryInv ==
    ASSUME IInv, NEW p \in Procs, close_gate_with_retry(p)
    PROVE  IInv'
<1>1. faults' \in 0 .. MaxFaults /\ pc[p] = "refused"
  BY DEF close_gate_with_retry, IInv, TypeOK
<1>2. CASE Abandon(p)
  BY <1>1, <1>2, AbandonInv
<1>3. CASE ~Abandon(p)
  <2>1. /\ s0' = [s0 EXCEPT ![p] = NoSnapshot] /\ last' = [last EXCEPT ![p] = NoSnapshot]
        /\ Goto(p, "project")
        /\ UNCHANGED <<owner, cancelled, at, handle, state, run, runs, digest, probed, project,
                       store, first, Kept>>
    BY <1>3 DEF close_gate_with_retry
  <2>2. TypeOK'
    <3>1. NoSnapshot \in Snapshots
      BY ChangesAssumption DEF NoSnapshot, Snapshots
    <3> QED
      BY <1>1, <2>1, <3>1 DEF IInv, TypeOK, Goto, Labels, Kept, diskVars
  <2>3. DataTypeOK'
    BY <2>1 DEF IInv, DataTypeOK
  <2>4. pc'[p] = "project"
    BY <2>1 DEF IInv, TypeOK, Goto
  <2>5. Owns(p) /\ Hashes(p)
    BY DEF IInv
  <2>6. Inv(p)'
    BY <1>1, <2>1, <2>4, <2>5
       DEF Inv, Owns, Hashes, Witnessed, Replaces, WithProject, WithPath, WithHandle,
           WithS0, WithSource, Free, Labels, Hashed, Receipted, Evidenced
  <2>7. OnlyRow(p)
    BY <2>1 DEF OnlyRow, IInv, TypeOK, Goto, Kept, diskVars
  <2> QED
    BY <2>2, <2>3, <2>6, <2>7, QuietStep
<1> QED
  BY <1>2, <1>3

-----------------------------------------------------------------------------
(* The close gate.                                                         *)

\* A lock that is taken was free, so nobody else loses or gains one.
LEMMA AcquireInv ==
    ASSUME IInv, NEW p \in Procs, NEW k \in Keys, NEW to, Acquire(p, k, to),
           pc[p] \in {"project", "path", "own"},
           UNCHANGED <<cancelled, diskVars, confVars, runVars>>,
           \/ pc[p] = "project" /\ to = "path" /\ k = project_key(at[p].project)
           \/ pc[p] = "path" /\ to = "check" /\ k = path_lock_key(at[p].path)
           \/ pc[p] = "own" /\ to = "s1" /\ k = source_ownership_key(s0[p].file)
    PROVE  IInv'
<1>0. TypeOK /\ DataTypeOK
  BY DEF IInv
<1>1. PICK lock \in acquire_lock(p, k) :
        /\ faults' = lock.left
        /\ IF lock.outcome = "taken"
           THEN open_key(p, k) /\ Goto(p, to) /\ UNCHANGED gateVars
           ELSE cleanup_failure(p, lock.outcome)
  BY DEF Acquire
<1>2. PICK answer \in Answers(OpenKey(k)) :
        lock = [outcome |-> IF cancelled[p] THEN "cancelled"
                            ELSE IF answer = "ok" THEN "taken" ELSE lock_error(answer),
                left |-> IF answer = OpenKey(k) THEN faults ELSE faults - 1]
  BY <1>1 DEF acquire_lock
<1>3. faults' \in 0 .. MaxFaults
  <2>1. answer \in Answers(OpenKey(k)) \cup IF faults > 0 THEN {} ELSE {}
    BY <1>2
  <2>2. Spend(answer, OpenKey(k))
    BY <1>1, <1>2 DEF Spend
  <2> QED
    BY <1>0, <2>1, <2>2, Spending
<1>4. CASE lock.outcome # "taken"
  BY <1>1, <1>3, <1>4, RefusedInv DEF Labels, Free, Hashed, Receipted, Evidenced
<1>5. CASE lock.outcome = "taken"
  <2>1. owner[k] = Nobody
    BY <1>2, <1>5 DEF lock_error, Answers, Odd, OpenKey
  <2>2. /\ owner' = [owner EXCEPT ![k] = p] /\ pc' = [pc EXCEPT ![p] = to]
        /\ UNCHANGED <<at, handle, s0, last, result>>
    BY <1>1, <1>5 DEF open_key, Goto, gateVars
  <2>3. TypeOK'
    <3>1. to \in Labels
      BY DEF Labels
    <3> QED
      BY <1>0, <1>3, <2>2, <3>1 DEF TypeOK, diskVars, confVars, runVars
  <2>4. DataTypeOK'
    BY <1>0, <2>2 DEF DataTypeOK, confVars, runVars
  <2>5. pc'[p] = to /\ owner'[k] = p /\ (\A j \in Keys : owner[j] = p => owner'[j] = p)
    BY <1>0, <2>2 DEF TypeOK
  <2>6. Owns(p)'
    <3>1. Owns(p)
      BY DEF IInv
    <3> QED
      BY <2>2, <2>5, <3>1, KeysExist
         DEF Owns, WithProject, WithPath, WithHandle, WithS0, WithSource, Free, Labels,
             diskVars
  <2>7. Hashes(p)' /\ Witnessed(p)' /\ Replaces(p)'
    <3>1. Hashes(p)
      BY DEF IInv
    <3> QED
      BY <2>2, <2>5, <3>1
         DEF Hashes, Witnessed, Replaces, Labels, Hashed, Receipted, Evidenced, confVars
  <2>8. Grows
    BY <1>0, Numbers DEF Grows, diskVars, confVars
  <2>9. ASSUME NEW o \in Procs \ {p} PROVE Spares(o)
    <3>1. \A j \in Keys : owner'[j] = o <=> owner[j] = o
      BY <1>0, <2>1, <2>2, LockAssumption DEF TypeOK
    <3> QED
      BY <1>0, <2>2, <3>1 DEF Spares, TypeOK, confVars, runVars
  <2>10. OneRecording(receipts)' /\ OneRecording(evidence)'
    BY DEF IInv, OneRecording, confVars
  <2> QED
    BY <2>3, <2>4, <2>6, <2>7, <2>8, <2>9, <2>10, OneSteps DEF Inv
<1> QED
  BY <1>4, <1>5

LEMMA AcquireProjectInv ==
    ASSUME IInv, NEW p \in Procs, AcquireProject(p), UNCHANGED <<confVars, runVars>>
    PROVE  IInv'
<1>1. project_key(at[p].project) \in Keys
  BY KeysExist DEF AcquireProject, IInv, Owns
<1> QED
  BY <1>1, AcquireInv DEF AcquireProject

LEMMA AcquirePathInv ==
    ASSUME IInv, NEW p \in Procs, AcquirePath(p), UNCHANGED <<confVars, runVars>>
    PROVE  IInv'
<1>1. path_lock_key(at[p].path) \in Keys
  BY KeysExist DEF AcquirePath, IInv, Owns
<1> QED
  BY <1>1, AcquireInv DEF AcquirePath

LEMMA acquire_source_ownershipInv ==
    ASSUME IInv, NEW p \in Procs, acquire_source_ownership(p), UNCHANGED <<confVars, runVars>>
    PROVE  IInv'
<1>1. source_ownership_key(s0[p].file) \in Keys
  <2>1. pc[p] \in WithHandle \cap WithS0
    BY DEF acquire_source_ownership, WithProject, WithPath, WithHandle, WithS0, Free, Labels
  <2> QED
    BY <2>1, KeysExist DEF IInv, Owns
<1> QED
  BY <1>1, AcquireInv DEF acquire_source_ownership

LEMMA CheckPathInv ==
    ASSUME IInv, NEW p \in Procs, CheckPath(p), UNCHANGED <<confVars, runVars>>
    PROVE  IInv'
<1>1. PICK answer \in Answers(validate_path(at[p].path)) \cup IF faults > 0 THEN Unsafe ELSE {} :
        /\ Spend(answer, validate_path(at[p].path))
        /\ \/ \E kind : cleanup_failure(p, kind)
           \/ answer = "ok" /\ Goto(p, "open") /\ UNCHANGED <<owner, gateVars>>
        /\ UNCHANGED cancelled
  BY DEF CheckPath, Step
<1>2. pc[p] = "check" /\ UNCHANGED diskVars
  BY DEF CheckPath
<1>3. faults' \in 0 .. MaxFaults
  BY <1>1, Spending DEF IInv
<1>4. ASSUME NEW kind, cleanup_failure(p, kind) PROVE IInv'
  BY <1>1, <1>2, <1>3, <1>4, RefusedInv DEF Labels, Free, Hashed, Receipted, Evidenced
<1>5. CASE Goto(p, "open") /\ UNCHANGED <<owner, gateVars>>
  <2>1. Onward(pc[p], "open")
    BY <1>2 DEF Onward, WithProject, WithPath, WithHandle, WithS0, WithSource,
           Free, Labels, Hashed, Receipted, Evidenced
  <2> QED
    BY <1>1, <1>2, <1>3, <1>5, <2>1, PlainMove DEF gateVars, diskVars, confVars, runVars, IInv, TypeOK
<1> QED
  BY <1>1, <1>4, <1>5

LEMMA QueryDeletePendingInv ==
    ASSUME IInv, NEW p \in Procs, QueryDeletePending(p), UNCHANGED <<confVars, runVars>>
    PROVE  IInv'
<1>1. PICK answer \in Answers("ok") \cup IF faults > 0 THEN {"delete"} ELSE {} :
        /\ Spend(answer, "ok")
        /\ \/ \E kind : cleanup_failure(p, kind)
           \/ answer = "ok" /\ Goto(p, "s0") /\ UNCHANGED <<owner, gateVars>>
        /\ UNCHANGED cancelled
  BY DEF QueryDeletePending, Step
<1>2. pc[p] = "pending" /\ UNCHANGED diskVars
  BY DEF QueryDeletePending
<1>3. faults' \in 0 .. MaxFaults
  BY <1>1, Spending DEF IInv
<1>4. ASSUME NEW kind, cleanup_failure(p, kind) PROVE IInv'
  BY <1>1, <1>2, <1>3, <1>4, RefusedInv DEF Labels, Free, Hashed, Receipted, Evidenced
<1>5. CASE Goto(p, "s0") /\ UNCHANGED <<owner, gateVars>>
  <2>1. Onward(pc[p], "s0")
    BY <1>2 DEF Onward, WithProject, WithPath, WithHandle, WithS0, WithSource,
           Free, Labels, Hashed, Receipted, Evidenced
  <2> QED
    BY <1>1, <1>2, <1>3, <1>5, <2>1, PlainMove DEF gateVars, diskVars, confVars, runVars, IInv, TypeOK
<1> QED
  BY <1>1, <1>4, <1>5

LEMMA OpenSourceInv ==
    ASSUME IInv, NEW p \in Procs, OpenSource(p), UNCHANGED <<confVars, runVars>>
    PROVE  IInv'
<1>1. PICK answer \in Answers(OpenRestrictive(at[p].path)) \cup IF faults > 0 THEN {"delete"} ELSE {} :
        /\ Spend(answer, OpenRestrictive(at[p].path))
        /\ \/ \E kind : cleanup_failure(p, kind)
           \/ answer = "ok" /\ (
                /\ handle' = [handle EXCEPT ![p] = bound[at[p].path]]
                /\ Goto(p, "pending")
                /\ UNCHANGED <<owner, at, s0, last, result>>)
        /\ UNCHANGED cancelled
  BY DEF OpenSource, Step
<1>2. pc[p] = "open" /\ UNCHANGED diskVars
  BY DEF OpenSource
<1>3. faults' \in 0 .. MaxFaults
  BY <1>1, Spending DEF IInv
<1>4. ASSUME NEW kind, cleanup_failure(p, kind) PROVE IInv'
  BY <1>1, <1>2, <1>3, <1>4, RefusedInv DEF Labels, Free, Hashed, Receipted, Evidenced
<1>5. CASE /\ answer = "ok"
           /\ handle' = [handle EXCEPT ![p] = bound[at[p].path]]
           /\ Goto(p, "pending")
           /\ UNCHANGED <<owner, at, s0, last, result>>
  <2>1. bound[at[p].path] # Missing
    BY <1>1, <1>5, Succeeding DEF OpenRestrictive
  <2>2. Owns(p) /\ Hashes(p) /\ TypeOK /\ DataTypeOK
    BY DEF IInv
  <2>3. bound[at[p].path] \in Files
    BY <1>2, <2>1, <2>2 DEF Owns, TypeOK
  <2>4. TypeOK'
    BY <1>1, <1>2, <1>3, <1>5, <2>2, <2>3 DEF TypeOK, Goto, Labels, diskVars, confVars, runVars
  <2>5. DataTypeOK'
    BY <1>5, <2>2 DEF DataTypeOK, confVars, runVars
  <2>6. pc'[p] = "pending" /\ handle'[p] = bound[at[p].path]
    BY <1>5, <2>2 DEF TypeOK, Goto
  <2>7. Inv(p)'
    BY <1>2, <1>5, <2>1, <2>2, <2>3, <2>6 DEF Inv, Owns, Hashes, Witnessed, Replaces, WithProject, WithPath, WithHandle,
           WithS0, WithSource, Free, Labels, Hashed, Receipted, Evidenced, confVars
  <2>8. OnlyRow(p)
    BY <1>2, <1>5, <2>2 DEF OnlyRow, TypeOK, Goto, diskVars, confVars, runVars
  <2> QED
    BY <2>4, <2>5, <2>7, <2>8, QuietStep
<1> QED
  BY <1>1, <1>4, <1>5

LEMMA MeasureS0Inv ==
    ASSUME IInv, NEW p \in Procs, MeasureS0(p), UNCHANGED <<confVars, runVars>>
    PROVE  IInv'
<1>1. PICK answer \in Answers("ok") \cup IF faults > 0 THEN {"unsafe"} ELSE {} :
        /\ Spend(answer, "ok")
        /\ \/ \E kind : cleanup_failure(p, kind)
           \/ answer = "ok" /\ (
                /\ s0' = [s0 EXCEPT ![p] = measure_snapshot(handle[p])]
                /\ last' = [last EXCEPT ![p] = measure_snapshot(handle[p])]
                /\ Goto(p, "own")
                /\ UNCHANGED <<owner, at, handle, result>>)
        /\ UNCHANGED cancelled
  BY DEF MeasureS0, Step
<1>2. pc[p] = "s0" /\ UNCHANGED diskVars
  BY DEF MeasureS0
<1>3. faults' \in 0 .. MaxFaults
  BY <1>1, Spending DEF IInv
<1>4. ASSUME NEW kind, cleanup_failure(p, kind) PROVE IInv'
  BY <1>1, <1>2, <1>3, <1>4, RefusedInv DEF Labels, Free, Hashed, Receipted, Evidenced
<1>5. CASE /\ s0' = [s0 EXCEPT ![p] = measure_snapshot(handle[p])]
           /\ last' = [last EXCEPT ![p] = measure_snapshot(handle[p])]
           /\ Goto(p, "own")
           /\ UNCHANGED <<owner, at, handle, result>>
  <2>2. Owns(p) /\ Hashes(p) /\ TypeOK /\ DataTypeOK
    BY DEF IInv
  <2>3. handle[p] \in Files /\ handle[p] # Missing
    BY <1>2, <2>2 DEF Owns, WithProject, WithPath, WithHandle, Free, Labels
  <2>4. version[handle[p]] \in 0 .. MaxChanges
    BY <2>2, <2>3 DEF TypeOK
  <2>5. measure_snapshot(handle[p]) \in Snapshots
    BY <2>3, <2>4 DEF measure_snapshot, Snapshots
  <2>6. TypeOK'
    BY <1>1, <1>2, <1>3, <1>5, <2>2, <2>5 DEF TypeOK, Goto, Labels, diskVars, confVars, runVars
  <2>7. DataTypeOK'
    BY <1>5, <2>2 DEF DataTypeOK, confVars, runVars
  <2>8. pc'[p] = "own" /\ s0'[p] = [file |-> handle[p], version |-> version[handle[p]]]
    BY <1>5, <2>2 DEF TypeOK, Goto, measure_snapshot
  <2>9. Inv(p)'
    BY <1>2, <1>5, <2>2, <2>3, <2>4, <2>8, ChangesAssumption
       DEF Inv, Owns, Hashes, Witnessed, Replaces, WithProject, WithPath, WithHandle,
           WithS0, WithSource, Free, Labels, Hashed, Receipted, Evidenced, confVars, diskVars
  <2>10. OnlyRow(p)
    BY <1>2, <1>5, <2>2 DEF OnlyRow, TypeOK, Goto, diskVars, confVars, runVars
  <2> QED
    BY <2>6, <2>7, <2>9, <2>10, QuietStep
<1> QED
  BY <1>1, <1>4, <1>5

\* The latest snapshot is no part of the invariant.
LEMMA WaitAndMeasureInv ==
    ASSUME IInv, NEW p \in Procs, NEW from, NEW to, WaitAndMeasure(p, from, to),
           \/ from = "s1" /\ to = "s2"
           \/ from = "s2" /\ to = "compare",
           UNCHANGED <<confVars, runVars>>
    PROVE  IInv'
<1>1. PICK answer \in Answers("ok") \cup IF faults > 0 THEN {} ELSE {} :
        /\ Spend(answer, "ok")
        /\ \/ \E kind : cleanup_failure(p, kind)
           \/ /\ last' = [last EXCEPT ![p] =
                            IF Unchanged(@, s0[p]) THEN measure_snapshot(handle[p]) ELSE @]
              /\ Goto(p, to)
              /\ UNCHANGED <<owner, at, handle, s0, result>>
        /\ UNCHANGED cancelled
  BY DEF WaitAndMeasure, Step
<1>2. pc[p] = from /\ UNCHANGED diskVars
  BY DEF WaitAndMeasure
<1>3. faults' \in 0 .. MaxFaults
  BY <1>1, Spending DEF IInv
<1>4. ASSUME NEW kind, cleanup_failure(p, kind) PROVE IInv'
  BY <1>1, <1>2, <1>3, <1>4, RefusedInv DEF Labels, Free, Hashed, Receipted, Evidenced
<1>5. CASE /\ last' = [last EXCEPT ![p] =
                        IF Unchanged(@, s0[p]) THEN measure_snapshot(handle[p]) ELSE @]
           /\ Goto(p, to)
           /\ UNCHANGED <<owner, at, handle, s0, result>>
  <2>1. Onward(pc[p], to)
    BY <1>2 DEF Onward, WithProject, WithPath, WithHandle, WithS0, WithSource,
           Free, Labels, Hashed, Receipted, Evidenced
  <2>2. Owns(p) /\ TypeOK /\ DataTypeOK
    BY DEF IInv
  <2>3. handle[p] \in Files
    BY <1>2, <2>2 DEF Owns, WithProject, WithPath, WithHandle, Free, Labels
  <2>4. version[handle[p]] \in 0 .. MaxChanges
    BY <2>2, <2>3 DEF TypeOK
  <2>5. measure_snapshot(handle[p]) \in Snapshots
    BY <2>3, <2>4 DEF measure_snapshot, Snapshots
  <2>6. last' \in [Procs -> Snapshots]
    BY <1>5, <2>2, <2>5 DEF TypeOK
  <2>7. TypeOK'
    BY <1>1, <1>2, <1>3, <1>5, <2>1, <2>2, <2>6
       DEF TypeOK, Goto, Onward, diskVars, confVars, runVars
  <2>8. DataTypeOK'
    BY <1>5, <2>2 DEF DataTypeOK, confVars, runVars
  <2> QED
    BY <1>2, <1>5, <2>1, <2>7, <2>8, Moving DEF diskVars, confVars, runVars
<1> QED
  BY <1>1, <1>4, <1>5

LEMMA IssueLeaseInv ==
    ASSUME IInv, NEW p \in Procs, IssueLease(p), UNCHANGED <<confVars, runVars>>
    PROVE  IInv'
<1>1. faults' \in 0 .. MaxFaults /\ pc[p] = "compare"
  BY DEF IssueLease, IInv, TypeOK
<1>2. ASSUME NEW kind, cleanup_failure(p, kind) PROVE IInv'
  BY <1>1, <1>2, RefusedInv DEF IssueLease, Labels, Free, Hashed, Receipted, Evidenced
<1>3. CASE Goto(p, "leased") /\ UNCHANGED <<owner, at, handle, s0, last>>
  <2>1. Onward(pc[p], "leased")
    BY <1>1 DEF Onward, WithProject, WithPath, WithHandle, WithS0, WithSource,
           Free, Labels, Hashed, Receipted, Evidenced
  <2> QED
    BY <1>1, <1>3, <2>1, PlainMove DEF IssueLease, diskVars, confVars, runVars, IInv, TypeOK
<1> QED
  BY <1>2, <1>3 DEF IssueLease

LEMMA GateStepInv ==
    ASSUME IInv, NEW p \in Procs, GateStep(p)
    PROVE  IInv'
BY AcquireProjectInv, AcquirePathInv, CheckPathInv, OpenSourceInv, QueryDeletePendingInv,
   MeasureS0Inv, acquire_source_ownershipInv, WaitAndMeasureInv, IssueLeaseInv
   DEF GateStep, run_close_gate, MeasureS1, MeasureS2

-----------------------------------------------------------------------------
(* The confirmation of the source.                                         *)

LEMMA confirm_sourceInv ==
    ASSUME IInv, NEW p \in Procs, confirm_source(p), UNCHANGED runVars
    PROVE  IInv'
<1>1. faults' \in 0 .. MaxFaults /\ pc[p] = "leased"
  BY DEF confirm_source, IInv, TypeOK
<1>2. CASE Finish(p, "cancelled")
  <2>1. Onward(pc[p], "closing")
    BY <1>1, ClosingIsOnward DEF Labels, Free
  <2> QED
    BY <1>1, <1>2, <2>1, FinishInv DEF confirm_source, SourceStates
<1>3. CASE Only(p, "path1", confVars)
  <2>1. Onward(pc[p], "path1")
    BY <1>1 DEF Onward, WithProject, WithPath, WithHandle, WithS0, WithSource,
           Free, Labels, Hashed, Receipted, Evidenced
  <2> QED
    BY <1>1, <1>3, <2>1, PlainMove
       DEF confirm_source, Only, gateVars, diskVars, confVars, runVars, IInv, TypeOK
<1> QED
  BY <1>2, <1>3 DEF confirm_source

LEMMA PathBeforeProbeInv ==
    ASSUME IInv, NEW p \in Procs, PathBeforeProbe(p), UNCHANGED runVars
    PROVE  IInv'
<1> DEFINE natural == revalidate_lease_path(p)
           Good == /\ transition(p, "probing")
                   /\ Only(p, "probe", <<run, runs, digest, probed, ambiguous, media, assigned,
                                         receipts, evidence>>)
<1>1. PICK answer \in Answers(natural) \cup IF faults > 0 THEN Unsafe ELSE {} :
        /\ Spend(answer, natural)
        /\ \/ \E target \in SourceStates : Finish(p, target)
           \/ answer = "ok" /\ Good
  BY DEF PathBeforeProbe, Attempt, SourceStates, SourceFailed
<1>2. pc[p] = "path1" /\ UNCHANGED <<cancelled, diskVars>>
  BY DEF PathBeforeProbe, Attempt
<1>3. faults' \in 0 .. MaxFaults
  BY <1>1, Spending DEF IInv
<1>4. ASSUME NEW target \in SourceStates, Finish(p, target) PROVE IInv'
  <2>1. Onward(pc[p], "closing")
    BY <1>2, ClosingIsOnward DEF Labels, Free
  <2> QED
    BY <1>2, <1>3, <1>4, <2>1, FinishInv
<1>5. CASE Good
  <2>1. Onward(pc[p], "probe")
    BY <1>2 DEF Onward, WithProject, WithPath, WithHandle, WithS0, WithSource,
           Free, Labels, Hashed, Receipted, Evidenced
  <2>2. state' \in [Procs -> SourceStates] /\ assigned' \subseteq media'
    BY <1>5 DEF Only, transition, confVars, IInv, TypeOK, SourceStates
  <2> QED
    BY <1>2, <1>3, <1>5, <2>1, <2>2, PlainMove
       DEF Only, gateVars, diskVars, confVars, runVars, IInv, TypeOK
<1> QED
  BY <1>1, <1>4, <1>5

LEMMA RunProbeInv ==
    ASSUME IInv, NEW p \in Procs, RunProbe(p), UNCHANGED runVars
    PROVE  IInv'
<1> DEFINE natural == recheck(p)
           Good == Only(p, "s3", <<state, run, runs, digest, ambiguous, media, assigned,
                                      receipts, evidence>>)
<1>1. PICK answer \in Answers(natural) \cup IF faults > 0 THEN {"unsupported"} ELSE {} :
        /\ Spend(answer, natural)
        /\ \/ \E target \in SourceStates : Finish(p, target)
           \/ answer = "ok" /\ Good
  BY DEF RunProbe, Attempt, SourceStates, probe_failure_result
<1>2. pc[p] = "probe" /\ UNCHANGED <<cancelled, diskVars>>
  BY DEF RunProbe, Attempt
<1>3. faults' \in 0 .. MaxFaults
  BY <1>1, Spending DEF IInv
<1>4. ASSUME NEW target \in SourceStates, Finish(p, target) PROVE IInv'
  <2>1. Onward(pc[p], "closing")
    BY <1>2, ClosingIsOnward DEF Labels, Free
  <2> QED
    BY <1>2, <1>3, <1>4, <2>1, FinishInv
<1>5. CASE Good
  <2>1. Onward(pc[p], "s3")
    BY <1>2 DEF Onward, WithProject, WithPath, WithHandle, WithS0, WithSource,
           Free, Labels, Hashed, Receipted, Evidenced
  <2>2. state' \in [Procs -> SourceStates] /\ assigned' \subseteq media'
    BY <1>5 DEF Only, transition, confVars, IInv, TypeOK, SourceStates
  <2> QED
    BY <1>2, <1>3, <1>5, <2>1, <2>2, PlainMove
       DEF Only, gateVars, diskVars, confVars, runVars, IInv, TypeOK
<1> QED
  BY <1>1, <1>4, <1>5

LEMMA RecheckS3Inv ==
    ASSUME IInv, NEW p \in Procs, RecheckS3(p), UNCHANGED runVars
    PROVE  IInv'
<1> DEFINE natural == recheck(p)
           Good == Only(p, "media", confVars)
<1>1. PICK answer \in Answers(natural) \cup IF faults > 0 THEN {} ELSE {} :
        /\ Spend(answer, natural)
        /\ \/ \E target \in SourceStates : Finish(p, target)
           \/ answer = "ok" /\ Good
  BY DEF RecheckS3, Attempt, SourceStates, SourceFailed
<1>2. pc[p] = "s3" /\ UNCHANGED <<cancelled, diskVars>>
  BY DEF RecheckS3, Attempt
<1>3. faults' \in 0 .. MaxFaults
  BY <1>1, Spending DEF IInv
<1>4. ASSUME NEW target \in SourceStates, Finish(p, target) PROVE IInv'
  <2>1. Onward(pc[p], "closing")
    BY <1>2, ClosingIsOnward DEF Labels, Free
  <2> QED
    BY <1>2, <1>3, <1>4, <2>1, FinishInv
<1>5. CASE Good
  <2>1. Onward(pc[p], "media")
    BY <1>2 DEF Onward, WithProject, WithPath, WithHandle, WithS0, WithSource,
           Free, Labels, Hashed, Receipted, Evidenced
  <2>2. state' \in [Procs -> SourceStates] /\ assigned' \subseteq media'
    BY <1>5 DEF Only, transition, confVars, IInv, TypeOK, SourceStates
  <2> QED
    BY <1>2, <1>3, <1>5, <2>1, <2>2, PlainMove
       DEF Only, gateVars, diskVars, confVars, runVars, IInv, TypeOK
<1> QED
  BY <1>1, <1>4, <1>5

LEMMA PublishMediaInv ==
    ASSUME IInv, NEW p \in Procs, PublishMedia(p), UNCHANGED runVars
    PROVE  IInv'
<1> DEFINE natural == "ok"
           Good == /\ media \subseteq media'
                   /\ Only(p, "select", <<state, run, runs, digest, probed, ambiguous, assigned,
                                          receipts, evidence>>)
<1>1. PICK answer \in Answers(natural) \cup IF faults > 0 THEN {} ELSE {} :
        /\ Spend(answer, natural)
        /\ \/ \E target \in SourceStates : Finish(p, target)
           \/ answer = "ok" /\ Good
  BY DEF PublishMedia, Attempt, SourceStates
<1>2. pc[p] = "media" /\ UNCHANGED <<cancelled, diskVars>>
  BY DEF PublishMedia, Attempt
<1>3. faults' \in 0 .. MaxFaults
  BY <1>1, Spending DEF IInv
<1>4. ASSUME NEW target \in SourceStates, Finish(p, target) PROVE IInv'
  <2>1. Onward(pc[p], "closing")
    BY <1>2, ClosingIsOnward DEF Labels, Free
  <2> QED
    BY <1>2, <1>3, <1>4, <2>1, FinishInv
<1>5. CASE Good
  <2>1. Onward(pc[p], "select")
    BY <1>2 DEF Onward, WithProject, WithPath, WithHandle, WithS0, WithSource,
           Free, Labels, Hashed, Receipted, Evidenced
  <2>2. state' \in [Procs -> SourceStates] /\ assigned' \subseteq media'
    BY <1>5 DEF Only, transition, confVars, IInv, TypeOK, SourceStates
  <2> QED
    BY <1>2, <1>3, <1>5, <2>1, <2>2, PlainMove
       DEF Only, gateVars, diskVars, confVars, runVars, IInv, TypeOK
<1> QED
  BY <1>1, <1>4, <1>5

LEMMA RecheckS5Inv ==
    ASSUME IInv, NEW p \in Procs, RecheckS5(p), UNCHANGED runVars
    PROVE  IInv'
<1> DEFINE natural == recheck(p)
           Good == Only(p, "path2", confVars)
<1>1. PICK answer \in Answers(natural) \cup IF faults > 0 THEN {} ELSE {} :
        /\ Spend(answer, natural)
        /\ \/ \E target \in SourceStates : Finish(p, target)
           \/ answer = "ok" /\ Good
  BY DEF RecheckS5, Attempt, SourceStates, SourceFailed
<1>2. pc[p] = "s5" /\ UNCHANGED <<cancelled, diskVars>>
  BY DEF RecheckS5, Attempt
<1>3. faults' \in 0 .. MaxFaults
  BY <1>1, Spending DEF IInv
<1>4. ASSUME NEW target \in SourceStates, Finish(p, target) PROVE IInv'
  <2>1. Onward(pc[p], "closing")
    BY <1>2, ClosingIsOnward DEF Labels, Free
  <2> QED
    BY <1>2, <1>3, <1>4, <2>1, FinishInv
<1>5. CASE Good
  <2>1. Onward(pc[p], "path2")
    BY <1>2 DEF Onward, WithProject, WithPath, WithHandle, WithS0, WithSource,
           Free, Labels, Hashed, Receipted, Evidenced
  <2>2. state' \in [Procs -> SourceStates] /\ assigned' \subseteq media'
    BY <1>5 DEF Only, transition, confVars, IInv, TypeOK, SourceStates
  <2> QED
    BY <1>2, <1>3, <1>5, <2>1, <2>2, PlainMove
       DEF Only, gateVars, diskVars, confVars, runVars, IInv, TypeOK
<1> QED
  BY <1>1, <1>4, <1>5

LEMMA PathBeforeCommitInv ==
    ASSUME IInv, NEW p \in Procs, PathBeforeCommit(p), UNCHANGED runVars
    PROVE  IInv'
<1> DEFINE natural == revalidate_lease_path(p)
           Good == Only(p, "evidence", confVars)
<1>1. PICK answer \in Answers(natural) \cup IF faults > 0 THEN Unsafe ELSE {} :
        /\ Spend(answer, natural)
        /\ \/ \E target \in SourceStates : Finish(p, target)
           \/ answer = "ok" /\ Good
  BY DEF PathBeforeCommit, Attempt, SourceStates, SourceFailed
<1>2. pc[p] = "path2" /\ UNCHANGED <<cancelled, diskVars>>
  BY DEF PathBeforeCommit, Attempt
<1>3. faults' \in 0 .. MaxFaults
  BY <1>1, Spending DEF IInv
<1>4. ASSUME NEW target \in SourceStates, Finish(p, target) PROVE IInv'
  <2>1. Onward(pc[p], "closing")
    BY <1>2, ClosingIsOnward DEF Labels, Free
  <2> QED
    BY <1>2, <1>3, <1>4, <2>1, FinishInv
<1>5. CASE Good
  <2>1. Onward(pc[p], "evidence")
    BY <1>2 DEF Onward, WithProject, WithPath, WithHandle, WithS0, WithSource,
           Free, Labels, Hashed, Receipted, Evidenced
  <2>2. state' \in [Procs -> SourceStates] /\ assigned' \subseteq media'
    BY <1>5 DEF Only, transition, confVars, IInv, TypeOK, SourceStates
  <2> QED
    BY <1>2, <1>3, <1>5, <2>1, <2>2, PlainMove
       DEF Only, gateVars, diskVars, confVars, runVars, IInv, TypeOK
<1> QED
  BY <1>1, <1>4, <1>5

LEMMA SelectStreamsInv ==
    ASSUME IInv, NEW p \in Procs, SelectStreams(p), UNCHANGED runVars
    PROVE  IInv'
<1> DEFINE Good == /\ transition(p, "probed")
                   /\ Only(p, "hash", <<run, runs, digest, probed, ambiguous, media, assigned,
                                        receipts, evidence>>)
<1>0. PICK natural \in selection_from_media(p) :
        Attempt(p, "select", natural, {},
                LAMBDA code : IF code = "required" THEN "unsupported" ELSE "failed", Good)
  BY DEF SelectStreams
<1>1. PICK answer \in Answers(natural) \cup IF faults > 0 THEN {} ELSE {} :
        /\ Spend(answer, natural)
        /\ \/ \E target \in SourceStates : Finish(p, target)
           \/ answer = "ok" /\ Good
  BY<1>0 DEF Attempt, SourceStates
<1>2. pc[p] = "select" /\ UNCHANGED <<cancelled, diskVars>>
  BY DEF SelectStreams, Attempt
<1>3. faults' \in 0 .. MaxFaults
  BY <1>1, Spending DEF IInv
<1>4. ASSUME NEW target \in SourceStates, Finish(p, target) PROVE IInv'
  <2>1. Onward(pc[p], "closing")
    BY <1>2, ClosingIsOnward DEF Labels, Free
  <2> QED
    BY <1>2, <1>3, <1>4, <2>1, FinishInv
<1>5. CASE Good
  <2>1. Onward(pc[p], "hash")
    BY <1>2 DEF Onward, WithProject, WithPath, WithHandle, WithS0, WithSource,
           Free, Labels, Hashed, Receipted, Evidenced
  <2>2. state' \in [Procs -> SourceStates] /\ assigned' \subseteq media'
    BY <1>5 DEF Only, transition, confVars, IInv, TypeOK, SourceStates
  <2> QED
    BY <1>2, <1>3, <1>5, <2>1, <2>2, PlainMove
       DEF Only, gateVars, diskVars, confVars, runVars, IInv, TypeOK
<1> QED
  BY <1>1, <1>4, <1>5


\* The block that is read is not older than S0 and not newer than now.
LEMMA HashBlockInv ==
    ASSUME IInv, NEW p \in Procs, HashBlock(p), UNCHANGED runVars
    PROVE  IInv'
<1> DEFINE natural == "ok"
           Good == /\ digest' = [digest EXCEPT ![p] = Append(@, version[handle[p]])]
                   /\ state' = [state EXCEPT ![p] = "hashing"]
                   /\ Only(p, IF Len(digest[p]) + 1 = Blocks THEN "eof" ELSE "hash",
                           <<run, runs, probed, ambiguous, media, assigned, receipts, evidence>>)
<1>1. PICK answer \in Answers(natural) \cup IF faults > 0 THEN {} ELSE {} :
        /\ Spend(answer, natural)
        /\ \/ \E target \in SourceStates : Finish(p, target)
           \/ answer = "ok" /\ Good
  BY DEF HashBlock, Attempt, SourceStates
<1>2. pc[p] = "hash" /\ UNCHANGED <<cancelled, diskVars>>
  BY DEF HashBlock, Attempt
<1>3. faults' \in 0 .. MaxFaults
  BY <1>1, Spending DEF IInv
<1>4. ASSUME NEW target \in SourceStates, Finish(p, target) PROVE IInv'
  <2>1. Onward(pc[p], "closing")
    BY <1>2, ClosingIsOnward DEF Labels, Free
  <2> QED
    BY <1>2, <1>3, <1>4, <2>1, FinishInv
<1>5. CASE Good
  <2>0. Owns(p) /\ Hashes(p) /\ TypeOK /\ DataTypeOK
    BY DEF IInv
  <2>1. /\ handle[p] \in Files /\ version[handle[p]] \in 0 .. MaxChanges
        /\ s0[p].version <= version[handle[p]]
    BY <1>2, <2>0 DEF Owns, TypeOK, WithProject, WithPath, WithHandle, WithS0, Free, Labels
  <2>2. /\ digest'[p] = Append(digest[p], version[handle[p]])
        /\ pc'[p] = IF Len(digest[p]) + 1 = Blocks THEN "eof" ELSE "hash"
    BY <1>5, <2>0 DEF TypeOK, DataTypeOK, Only, Goto
  <2>3. /\ digest[p] \in Seq(0 .. MaxChanges) /\ Len(digest[p]) \in Nat
        /\ Len(digest[p]) < Blocks
    BY <1>2, <2>0, Numbers DEF Hashes
  <2>4. /\ digest'[p] \in Seq(0 .. MaxChanges) /\ Len(digest'[p]) = Len(digest[p]) + 1
        /\ \A i \in 1 .. Len(digest[p]) : digest'[p][i] = digest[p][i]
        /\ digest'[p][Len(digest[p]) + 1] = version[handle[p]]
    BY <2>1, <2>2, <2>3, AppendProperties
  <2>5. TypeOK'
    <3>1. \A o \in Procs : Len(digest'[o]) <= Blocks
      BY <1>5, <2>0, <2>3, <2>4 DEF TypeOK, DataTypeOK
    <3>2. pc' \in [Procs -> Labels] /\ state' \in [Procs -> SourceStates]
      BY <1>5, <2>0 DEF TypeOK, Only, Goto, Labels, SourceStates
    <3> QED
      BY <1>2, <1>3, <1>5, <2>0, <3>1, <3>2 DEF TypeOK, Only, gateVars, diskVars, runVars
  <2>6. DataTypeOK'
    BY <1>5, <2>0, <2>2, <2>4 DEF DataTypeOK, Only, gateVars, runVars
  <2>7. Hashes(p)'
    <3>1. ASSUME NEW i \in 1 .. Len(digest'[p])
          PROVE  s0[p].version <= digest'[p][i] /\ digest'[p][i] <= version[handle[p]]
      <4>1. CASE i = Len(digest[p]) + 1
        BY <2>1, <2>4, <4>1, ChangesAssumption
      <4>2. CASE i \in 1 .. Len(digest[p])
        BY <1>2, <2>0, <2>4, <4>2 DEF Hashes
      <4> QED
        BY <2>3, <2>4, <4>1, <4>2
    <3>2. UNCHANGED <<s0, handle, version>>
      BY <1>2, <1>5 DEF Only, gateVars, diskVars
    <3> QED
      BY <2>2, <2>3, <2>4, <3>1, <3>2 DEF Hashes, Labels, Hashed, Receipted, Evidenced
  <2>8. Owns(p)'
    BY <1>2, <1>5, <2>0, <2>2
       DEF Owns, Only, gateVars, diskVars, WithProject, WithPath, WithHandle, WithS0,
           WithSource, Free, Labels
  <2>9. Witnessed(p)' /\ Replaces(p)'
    BY <2>2 DEF Witnessed, Replaces, Receipted, Evidenced
  <2>10. OnlyRow(p)
    BY <1>2, <1>5, <2>0 DEF OnlyRow, Only, Goto, TypeOK, DataTypeOK, gateVars, diskVars, runVars
  <2> QED
    BY <2>5, <2>6, <2>7, <2>8, <2>9, <2>10, QuietStep DEF Inv
<1> QED
  BY <1>1, <1>4, <1>5


\* The file is S0 again, and every block lies between S0 and now: it is S0.
LEMMA HashCompletedInv ==
    ASSUME IInv, NEW p \in Procs, HashCompleted(p), UNCHANGED runVars
    PROVE  IInv'
<1> DEFINE natural == recheck(p)
           Good == /\ transition(p, "hash_completed")
                   /\ Only(p, "receipt", <<run, runs, digest, probed, ambiguous, media, assigned,
                                           receipts, evidence>>)
<1>1. PICK answer \in Answers(natural) \cup IF faults > 0 THEN {} ELSE {} :
        /\ Spend(answer, natural)
        /\ \/ \E target \in SourceStates : Finish(p, target)
           \/ answer = "ok" /\ Good
  BY DEF HashCompleted, Attempt, SourceStates, SourceFailed
<1>2. pc[p] = "eof" /\ UNCHANGED <<cancelled, diskVars>>
  BY DEF HashCompleted, Attempt
<1>3. faults' \in 0 .. MaxFaults
  BY <1>1, Spending DEF IInv
<1>4. ASSUME NEW target \in SourceStates, Finish(p, target) PROVE IInv'
  <2>1. Onward(pc[p], "closing")
    BY <1>2, ClosingIsOnward DEF Labels, Free
  <2> QED
    BY <1>2, <1>3, <1>4, <2>1, FinishInv
<1>5. CASE answer = "ok" /\ Good
  <2>0. Owns(p) /\ Hashes(p) /\ TypeOK /\ DataTypeOK
    BY DEF IInv
  <2>1. /\ handle[p] \in Files /\ version[handle[p]] \in 0 .. MaxChanges
    BY <1>2, <2>0 DEF Owns, TypeOK, WithProject, WithPath, WithHandle, Free, Labels
  <2>2. version[handle[p]] = s0[p].version
    <3>1. natural = "ok"
      <4> HIDE DEF natural
      <4> QED
        BY <1>1, <1>5, Succeeding
    <3>2. measure_snapshot(handle[p]) = s0[p]
      BY <3>1 DEF recheck, Unchanged
    <3>3. measure_snapshot(handle[p]).version = version[handle[p]]
      BY DEF measure_snapshot
    <3> QED
      BY <3>2, <3>3
  <2>3. Len(digest[p]) = Blocks
    BY <1>2, <2>0 DEF Hashes
  <2>4. ASSUME NEW i \in 1 .. Blocks PROVE digest[p][i] = s0[p].version
    <3>1. s0[p].version <= digest[p][i] /\ digest[p][i] <= version[handle[p]]
      BY <1>2, <2>0, <2>3 DEF Hashes
    <3>2. digest[p][i] \in Nat
      BY <2>0, <2>3, Numbers
    <3> QED
      BY <2>1, <2>2, <3>1, <3>2, ChangesAssumption
  <2>5. TypeOK'
    <3>1. pc' \in [Procs -> Labels] /\ state' \in [Procs -> SourceStates]
      BY <1>5, <2>0 DEF TypeOK, Only, Goto, transition, Labels, SourceStates
    <3> QED
      BY <1>2, <1>3, <1>5, <2>0, <3>1 DEF TypeOK, Only, gateVars, diskVars, runVars
  <2>6. DataTypeOK'
    BY <1>5, <2>0 DEF DataTypeOK, Only, gateVars, runVars
  <2>7. pc'[p] = "receipt" /\ UNCHANGED <<owner, at, s0, handle, version, digest>>
    BY <1>2, <1>5, <2>0 DEF TypeOK, Only, Goto, gateVars, diskVars
  <2>8. Inv(p)'
    BY <1>2, <2>0, <2>3, <2>4, <2>7 DEF Inv, Owns, Hashes, Witnessed, Replaces, WithProject, WithPath, WithHandle,
           WithS0, WithSource, Free, Labels, Hashed, Receipted, Evidenced
  <2>9. OnlyRow(p)
    BY <1>2, <1>5, <2>0 DEF OnlyRow, Only, Goto, TypeOK, gateVars, diskVars, runVars
  <2> QED
    BY <2>5, <2>6, <2>8, <2>9, QuietStep
<1> QED
  BY <1>1, <1>4, <1>5

\* What is published after the hash is of one recording.
LEMMA RecordIsOne ==
    ASSUME IInv, NEW p \in Procs, pc[p] \in Hashed
    PROVE  OneRecording({Record(p)})
<1>1. \A i \in 1 .. Blocks : digest[p][i] = s0[p].version
  BY DEF IInv, Hashes
<1>2. Record(p).identity.digest = digest[p]
  BY DEF Record, Identity
<1> QED
  BY <1>1, <1>2 DEF OneRecording

LEMMA publish_hash_receiptInv ==
    ASSUME IInv, NEW p \in Procs, publish_hash_receipt(p), UNCHANGED runVars
    PROVE  IInv'
<1> DEFINE natural == publish_initial(p, receipts)
           Good == /\ transition(p, "confirming_identity")
                   /\ receipts' = receipts \cup {Record(p)}
                   /\ Only(p, "s5", <<run, runs, digest, probed, ambiguous, media, assigned,
                                      evidence>>)
<1>1. PICK answer \in Answers(natural) \cup IF faults > 0 THEN {} ELSE {} :
        /\ Spend(answer, natural)
        /\ \/ \E target \in SourceStates : Finish(p, target)
           \/ answer = "ok" /\ Good
  BY DEF publish_hash_receipt, Attempt, SourceStates
<1>2. pc[p] = "receipt" /\ UNCHANGED <<cancelled, diskVars>>
  BY DEF publish_hash_receipt, Attempt
<1>3. faults' \in 0 .. MaxFaults
  BY <1>1, Spending DEF IInv
<1>4. ASSUME NEW target \in SourceStates, Finish(p, target) PROVE IInv'
  <2>1. Onward(pc[p], "closing")
    BY <1>2, ClosingIsOnward DEF Labels, Free
  <2> QED
    BY <1>2, <1>3, <1>4, <2>1, FinishInv
<1>5. CASE Good
  <2>0. Owns(p) /\ Hashes(p) /\ Witnessed(p) /\ TypeOK /\ DataTypeOK
    BY DEF IInv
  <2>1. TypeOK'
    <3>1. pc' \in [Procs -> Labels] /\ state' \in [Procs -> SourceStates]
      BY <1>5, <2>0 DEF TypeOK, Only, Goto, transition, Labels, SourceStates
    <3> QED
      BY <1>2, <1>3, <1>5, <2>0, <3>1 DEF TypeOK, Only, gateVars, diskVars, runVars
  <2>2. DataTypeOK'
    BY <1>5, <2>0 DEF DataTypeOK, Only, gateVars, runVars
  <2>3. /\ pc'[p] = "s5" /\ receipts' = receipts \cup {Record(p)}
        /\ UNCHANGED <<owner, at, s0, handle, version, digest, run, evidence, store, first>>
    BY <1>2, <1>5, <2>0 DEF TypeOK, Only, Goto, gateVars, diskVars, runVars
  <2>4. Record(p)' = Record(p)
    BY <2>3 DEF Record, Identity
  <2>5. Inv(p)'
    BY <1>2, <2>0, <2>3, <2>4
       DEF Inv, Owns, Hashes, Witnessed, Replaces, WithProject, WithPath, WithHandle,
           WithS0, WithSource, Free, Labels, Hashed, Receipted, Evidenced
  <2>6. Grows
    BY <2>0, <2>3, Numbers DEF Grows
  <2>7. \A o \in Procs \ {p} : Spares(o)
    BY <1>5, <2>0, <2>3 DEF Spares, Only, Goto, TypeOK
  <2>8. OneRecording(receipts)' /\ OneRecording(evidence)'
    <3>1. OneRecording({Record(p)})
      BY <1>2, RecordIsOne DEF Hashed, Receipted
    <3> QED
      BY <2>3, <3>1 DEF IInv, OneRecording
  <2> QED
    BY <2>1, <2>2, <2>5, <2>6, <2>7, <2>8, OneSteps
<1> QED
  BY <1>1, <1>4, <1>5

LEMMA PublishEvidenceInv ==
    ASSUME IInv, NEW p \in Procs, PublishEvidence(p), UNCHANGED runVars
    PROVE  IInv'
<1> DEFINE natural == publish_initial(p, evidence)
           Good == /\ evidence' = evidence \cup {Record(p)}
                   /\ Only(p, "commit", <<state, run, runs, digest, probed, ambiguous, media, assigned,
                                          receipts>>)
<1>1. PICK answer \in Answers(natural) \cup IF faults > 0 THEN {} ELSE {} :
        /\ Spend(answer, natural)
        /\ \/ \E target \in SourceStates : Finish(p, target)
           \/ answer = "ok" /\ Good
  BY DEF PublishEvidence, Attempt, SourceStates
<1>2. pc[p] = "evidence" /\ UNCHANGED <<cancelled, diskVars>>
  BY DEF PublishEvidence, Attempt
<1>3. faults' \in 0 .. MaxFaults
  BY <1>1, Spending DEF IInv
<1>4. ASSUME NEW target \in SourceStates, Finish(p, target) PROVE IInv'
  <2>1. Onward(pc[p], "closing")
    BY <1>2, ClosingIsOnward DEF Labels, Free
  <2> QED
    BY <1>2, <1>3, <1>4, <2>1, FinishInv
<1>5. CASE Good
  <2>0. Owns(p) /\ Hashes(p) /\ Witnessed(p) /\ TypeOK /\ DataTypeOK
    BY DEF IInv
  <2>1. TypeOK'
    <3>1. pc' \in [Procs -> Labels] /\ state' \in [Procs -> SourceStates]
      BY <1>5, <2>0 DEF TypeOK, Only, Goto, transition, Labels, SourceStates
    <3> QED
      BY <1>2, <1>3, <1>5, <2>0, <3>1 DEF TypeOK, Only, gateVars, diskVars, runVars
  <2>2. DataTypeOK'
    BY <1>5, <2>0 DEF DataTypeOK, Only, gateVars, runVars
  <2>3. /\ pc'[p] = "commit" /\ evidence' = evidence \cup {Record(p)}
        /\ UNCHANGED <<owner, at, s0, handle, version, digest, run, receipts, store, first>>
    BY <1>2, <1>5, <2>0 DEF TypeOK, Only, Goto, gateVars, diskVars, runVars
  <2>4. Record(p)' = Record(p)
    BY <2>3 DEF Record, Identity
  <2>5. Inv(p)'
    BY <1>2, <2>0, <2>3, <2>4
       DEF Inv, Owns, Hashes, Witnessed, Replaces, WithProject, WithPath, WithHandle,
           WithS0, WithSource, Free, Labels, Hashed, Receipted, Evidenced
  <2>6. Grows
    BY <2>0, <2>3, Numbers DEF Grows
  <2>7. \A o \in Procs \ {p} : Spares(o)
    BY <1>5, <2>0, <2>3 DEF Spares, Only, Goto, TypeOK
  <2>8. OneRecording(receipts)' /\ OneRecording(evidence)'
    <3>1. OneRecording({Record(p)})
      BY <1>2, RecordIsOne DEF Hashed, Receipted
    <3> QED
      BY <2>3, <3>1 DEF IInv, OneRecording
  <2> QED
    BY <2>1, <2>2, <2>5, <2>6, <2>7, <2>8, OneSteps
<1> QED
  BY <1>1, <1>4, <1>5

LEMMA ReceiptLeftInv ==
    ASSUME IInv, NEW p \in Procs, ReceiptLeft(p), UNCHANGED runVars
    PROVE  IInv'
<1>0. Owns(p) /\ Hashes(p) /\ TypeOK /\ DataTypeOK
  BY DEF IInv
<1>1. /\ pc[p] = "receipt" /\ faults > 0 /\ faults' = faults - 1
      /\ receipts' = receipts \cup {Record(p)}
      /\ transition(p, "failed") /\ Goto(p, "closing")
      /\ UNCHANGED <<owner, cancelled, gateVars, diskVars, run, runs, digest, probed, ambiguous,
                     media, assigned, evidence>>
  BY DEF ReceiptLeft
<1>2. TypeOK'
  <2>1. pc' \in [Procs -> Labels] /\ state' \in [Procs -> SourceStates]
    BY <1>0, <1>1 DEF TypeOK, Goto, transition, Labels, SourceStates
  <2>2. faults' \in 0 .. MaxFaults
    BY <1>0, <1>1, LockAssumption DEF TypeOK
  <2> QED
    BY <1>0, <1>1, <2>1, <2>2 DEF TypeOK, gateVars, diskVars, runVars
<1>3. DataTypeOK'
  BY <1>0, <1>1 DEF DataTypeOK, gateVars, runVars
<1>4. pc'[p] = "closing" /\ UNCHANGED <<owner, at, s0, handle, version, digest, run, store, first>>
  BY <1>0, <1>1 DEF TypeOK, Goto, gateVars, diskVars, runVars
<1>5. Inv(p)'
  BY <1>0, <1>1, <1>4
     DEF Inv, Owns, Hashes, Witnessed, Replaces, WithProject, WithPath, WithHandle,
           WithS0, WithSource, Free, Labels, Hashed, Receipted, Evidenced
<1>6. Grows
  BY <1>0, <1>1, <1>4, Numbers DEF Grows
<1>7. \A o \in Procs \ {p} : Spares(o)
  BY <1>0, <1>1, <1>4 DEF Spares, Goto, TypeOK
<1>8. OneRecording(receipts)' /\ OneRecording(evidence)'
  <2>1. OneRecording({Record(p)})
    BY <1>1, RecordIsOne DEF Hashed
  <2> QED
    BY <1>1, <2>1 DEF IInv, OneRecording
<1> QED
  BY <1>2, <1>3, <1>5, <1>6, <1>7, <1>8, OneSteps

LEMMA CommitSourceInv ==
    ASSUME IInv, NEW p \in Procs, CommitSource(p), UNCHANGED runVars
    PROVE  IInv'
<1>1. faults' \in 0 .. MaxFaults /\ pc[p] = "commit"
  BY DEF CommitSource, IInv, TypeOK
<1>2. CASE Finish(p, "cancelled")
  <2>1. Onward(pc[p], "closing")
    BY <1>1, ClosingIsOnward DEF Labels, Free
  <2> QED
    BY <1>1, <1>2, <2>1, FinishInv DEF CommitSource, SourceStates
<1>3. CASE /\ transition(p, "confirmed")
           /\ Only(p, "store", <<run, runs, digest, probed, ambiguous, media, assigned,
                                  receipts, evidence>>)
  <2>1. Onward(pc[p], "store")
    BY <1>1 DEF Onward, WithProject, WithPath, WithHandle, WithS0, WithSource,
           Free, Labels, Hashed, Receipted, Evidenced
  <2>2. state' \in [Procs -> SourceStates]
    BY <1>3 DEF transition, IInv, TypeOK, SourceStates
  <2> QED
    BY <1>1, <1>3, <2>1, <2>2, PlainMove
       DEF CommitSource, Only, gateVars, diskVars, runVars, IInv, TypeOK
<1> QED
  BY <1>2, <1>3 DEF CommitSource

LEMMA ConfirmStepInv ==
    ASSUME IInv, NEW p \in Procs, ConfirmStep(p)
    PROVE  IInv'
BY confirm_sourceInv, PathBeforeProbeInv, RunProbeInv, RecheckS3Inv, PublishMediaInv,
   SelectStreamsInv, HashBlockInv, HashCompletedInv, publish_hash_receiptInv,
   ReceiptLeftInv, RecheckS5Inv, PathBeforeCommitInv, PublishEvidenceInv, CommitSourceInv
   DEF ConfirmStep, ConfirmInUsage

-----------------------------------------------------------------------------
(* The state of the finalizer.                                             *)

LEMMA StoreRecords ==
    ASSUME NEW r \in Stores, NEW n \in Nat, NEW i \in Nat, NEW author \in {"runs", "foreign"}
    PROVE  /\ [r EXCEPT !.revision = n, !.instance = i] \in Stores
           /\ [r EXCEPT !.author = author, !.instance = i, !.late = TRUE] \in Stores
           /\ [r EXCEPT !.author = author, !.instance = i, !.late = TRUE].late
BY DEF Stores

\* Two processes past the project lock work on two projects.
LEMMA Exclusive ==
    ASSUME IInv, NEW p \in Procs, NEW o \in Procs \ {p},
           pc[p] \in WithProject, pc[o] \in WithProject
    PROVE  at[p].project # at[o].project
BY DEF IInv, Owns

LEMMA StoreReadInv ==
    ASSUME IInv, NEW p \in Procs, StoreRead(p)
    PROVE  IInv'
<1> DEFINE q == at[p].project
<1>0. Owns(p) /\ Hashes(p) /\ Witnessed(p) /\ TypeOK /\ DataTypeOK
  BY DEF IInv
<1>1. PICK answer \in Answers("ok") \cup IF faults > 0 THEN {} ELSE {} :
        /\ Spend(answer, "ok")
        /\ \/ StoreFinish(p)
           \/ /\ first' = [first EXCEPT ![p] = Current(q)]
              /\ Goto(p, "second")
              /\ UNCHANGED <<owner, cancelled, gateVars, confVars, diskVars, project, store,
                             tries>>
  BY DEF StoreRead, StoreStep
<1>2. pc[p] = "store"
  BY DEF StoreRead, StoreStep
<1>3. faults' \in 0 .. MaxFaults
  BY <1>1, Spending DEF IInv
<1>4. CASE StoreFinish(p)
  <2>1. Onward(pc[p], "closing")
    BY <1>2, ClosingIsOnward DEF Labels, Free
  <2> QED
    BY <1>3, <1>4, <2>1, StoreFinishInv
<1>5. q \in Projects /\ store[q] \in Stores /\ first[p] \in Stores
  BY <1>0, <1>2 DEF Owns, DataTypeOK
<1>6. Current(q) \in Stores
  BY <1>5 DEF Current, Stores
<1>7. CASE ~StoreFinish(p)
  <2>1. Onward(pc[p], "second")
    BY <1>2 DEF Onward, WithProject, WithPath, WithHandle, WithS0, WithSource,
           Free, Labels, Hashed, Receipted, Evidenced
  <2>2. TypeOK'
    BY <1>0, <1>1, <1>3, <1>7 DEF TypeOK, Goto, Labels, gateVars, confVars, diskVars
  <2>3. DataTypeOK'
    BY <1>0, <1>1, <1>6, <1>7 DEF DataTypeOK, gateVars, confVars
  <2> QED
    BY <1>0, <1>1, <1>7, <2>1, <2>2, <2>3, Moving DEF DataTypeOK, gateVars, confVars, diskVars
<1> QED
  BY <1>4, <1>7

LEMMA StoreSecondReadInv ==
    ASSUME IInv, NEW p \in Procs, StoreSecondRead(p)
    PROVE  IInv'
<1> DEFINE q == at[p].project
<1>0. Owns(p) /\ Hashes(p) /\ Witnessed(p) /\ TypeOK /\ DataTypeOK
  BY DEF IInv
<1>1. PICK answer \in Answers("ok") \cup IF faults > 0 THEN {} ELSE {} :
        /\ Spend(answer, "ok")
        /\ \/ StoreFinish(p)
           \/ /\ first[p] = Current(q)
              /\ store' = [store EXCEPT ![q] = Current(q)]
              /\ Goto(p, "replace")
              /\ UNCHANGED <<owner, cancelled, gateVars, confVars, diskVars, project, first,
                             tries>>
  BY DEF StoreSecondRead, StoreStep, SameFile
<1>2. pc[p] = "second"
  BY DEF StoreSecondRead, StoreStep
<1>3. faults' \in 0 .. MaxFaults
  BY <1>1, Spending DEF IInv
<1>4. CASE StoreFinish(p)
  <2>1. Onward(pc[p], "closing")
    BY <1>2, ClosingIsOnward DEF Labels, Free
  <2> QED
    BY <1>3, <1>4, <2>1, StoreFinishInv
<1>5. q \in Projects /\ store[q] \in Stores /\ first[p] \in Stores
  BY <1>0, <1>2 DEF Owns, DataTypeOK
<1>6. Current(q) \in Stores
  BY <1>5 DEF Current, Stores
<1>7. CASE ~StoreFinish(p)
  <2>1. /\ store' = [store EXCEPT ![q] = Current(q)]
        /\ Goto(p, "replace")
        /\ UNCHANGED <<owner, cancelled, gateVars, confVars, diskVars, project, first, tries>>
    BY <1>1, <1>7
  <2>2. Current(q) \in Stores
    BY <1>5, <1>6 DEF Stores
  <2>3. TypeOK'
    BY <1>0, <1>3, <2>1 DEF TypeOK, Goto, Labels, gateVars, confVars, diskVars
  <2>4. DataTypeOK'
    BY <1>0, <2>1, <2>2 DEF DataTypeOK, gateVars, confVars
  <2>5. pc'[p] = "replace" /\ store'[q] = Current(q)
    BY <1>0, <1>5, <2>1 DEF TypeOK, DataTypeOK, Goto
  <2>6. Inv(p)'
    <3>1. UNCHANGED <<owner, at, s0, handle, version, digest, run, receipts, evidence, first>>
      BY <2>1 DEF gateVars, confVars, diskVars
    <3>2. Owns(p)' /\ Hashes(p)' /\ Witnessed(p)'
      BY <1>0, <1>2, <2>5, <3>1
         DEF Owns, Hashes, Witnessed, Record, Identity, WithProject, WithPath, WithHandle,
             WithS0, WithSource, Free, Labels, Hashed, Receipted, Evidenced
    <3>3. Replaces(p)'
      BY <1>1, <1>7, <2>5, <3>1 DEF Replaces
    <3> QED
      BY <3>2, <3>3 DEF Inv
  <2>7. Grows
    BY <1>0, <2>1, Numbers DEF Grows, diskVars, confVars
  <2>8. ASSUME NEW o \in Procs \ {p} PROVE Spares(o)
    <3>1. pc[o] = "replace" => UNCHANGED store[at[o].project]
      <4>1. pc[o] = "replace" => at[o].project \in Projects /\ at[o].project # q
        BY <1>2, Exclusive DEF WithProject, Free, Labels, IInv, Owns
      <4> QED
        BY <1>0, <2>1, <4>1 DEF DataTypeOK, gateVars
    <3> QED
      BY <1>0, <2>1, <3>1 DEF Spares, Goto, TypeOK, gateVars, confVars
  <2>9. OneRecording(receipts)' /\ OneRecording(evidence)'
    BY <2>1 DEF IInv, OneRecording, confVars
  <2> QED
    BY <2>3, <2>4, <2>6, <2>7, <2>8, <2>9, OneSteps
<1> QED
  BY <1>4, <1>7

LEMMA StoreReplaceInv ==
    ASSUME IInv, NEW p \in Procs, StoreReplace(p)
    PROVE  IInv'
<1> DEFINE q == at[p].project
<1>0. Owns(p) /\ Hashes(p) /\ Witnessed(p) /\ TypeOK /\ DataTypeOK
  BY DEF IInv
<1>1. PICK answer \in Answers("ok") \cup IF faults > 0 THEN {} ELSE {} :
        /\ Spend(answer, "ok")
        /\ \/ StoreFinish(p)
           \/ /\ store' = [store EXCEPT ![q] =
                    [first[p] EXCEPT !.revision = @ + 1, !.instance = store[q].instance + 1]]
              /\ Goto(p, "final")
              /\ UNCHANGED <<owner, cancelled, gateVars, confVars, diskVars, project, first,
                             tries>>
  BY DEF StoreReplace, StoreStep
<1>2. pc[p] = "replace"
  BY DEF StoreReplace, StoreStep
<1>3. faults' \in 0 .. MaxFaults
  BY <1>1, Spending DEF IInv
<1>4. CASE StoreFinish(p)
  <2>1. Onward(pc[p], "closing")
    BY <1>2, ClosingIsOnward DEF Labels, Free
  <2> QED
    BY <1>3, <1>4, <2>1, StoreFinishInv
<1>5. q \in Projects /\ store[q] \in Stores /\ first[p] \in Stores
  BY <1>0, <1>2 DEF Owns, DataTypeOK
<1>6. Current(q) \in Stores
  BY <1>5 DEF Current, Stores
<1>7. CASE ~StoreFinish(p)
  <2>1. /\ store' = [store EXCEPT ![q] = [first[p] EXCEPT !.revision = @ + 1, !.instance = store[q].instance + 1]]
        /\ Goto(p, "final")
        /\ UNCHANGED <<owner, cancelled, gateVars, confVars, diskVars, project, first, tries>>
    BY <1>1, <1>7, SMTT(30)
  <2>2. [first[p] EXCEPT !.revision = @ + 1, !.instance = store[q].instance + 1] \in Stores
    <3>1. [first[p] EXCEPT !.revision = @ + 1, !.instance = store[q].instance + 1]
            = [first[p] EXCEPT !.revision = first[p].revision + 1,
                               !.instance = store[q].instance + 1]
      OBVIOUS
    <3>2. first[p].revision + 1 \in Nat /\ store[q].instance + 1 \in Nat
      BY <1>5 DEF Stores
    <3> QED
      BY <1>5, <3>1, <3>2, StoreRecords
  <2>3. TypeOK'
    BY <1>0, <1>3, <2>1 DEF TypeOK, Goto, Labels, gateVars, confVars, diskVars
  <2>4. DataTypeOK'
    BY <1>0, <2>1, <2>2 DEF DataTypeOK, gateVars, confVars
  <2>5. pc'[p] = "final" /\ store'[q] = [first[p] EXCEPT !.revision = @ + 1, !.instance = store[q].instance + 1]
    BY <1>0, <1>5, <2>1 DEF TypeOK, DataTypeOK, Goto
  <2>6. Inv(p)'
    <3>1. UNCHANGED <<owner, at, s0, handle, version, digest, run, receipts, evidence, first>>
      BY <2>1 DEF gateVars, confVars, diskVars
    <3>2. Owns(p)' /\ Hashes(p)' /\ Witnessed(p)'
      BY <1>0, <1>2, <2>5, <3>1
         DEF Owns, Hashes, Witnessed, Record, Identity, WithProject, WithPath, WithHandle,
             WithS0, WithSource, Free, Labels, Hashed, Receipted, Evidenced
    <3>3. Replaces(p)'
      BY <1>1, <1>7, <2>5, <3>1 DEF Replaces
    <3> QED
      BY <3>2, <3>3 DEF Inv
  <2>7. Grows
    BY <1>0, <2>1, Numbers DEF Grows, diskVars, confVars
  <2>8. ASSUME NEW o \in Procs \ {p} PROVE Spares(o)
    <3>1. pc[o] = "replace" => UNCHANGED store[at[o].project]
      <4>1. pc[o] = "replace" => at[o].project \in Projects /\ at[o].project # q
        BY <1>2, Exclusive DEF WithProject, Free, Labels, IInv, Owns
      <4> QED
        BY <1>0, <2>1, <4>1 DEF DataTypeOK, gateVars
    <3> QED
      BY <1>0, <2>1, <3>1 DEF Spares, Goto, TypeOK, gateVars, confVars
  <2>9. OneRecording(receipts)' /\ OneRecording(evidence)'
    BY <2>1 DEF IInv, OneRecording, confVars
  <2> QED
    BY <2>3, <2>4, <2>6, <2>7, <2>8, <2>9, OneSteps
<1> QED
  BY <1>4, <1>7

LEMMA StoreVerifyInv ==
    ASSUME IInv, NEW p \in Procs, StoreVerify(p)
    PROVE  IInv'
<1>1. faults' \in 0 .. MaxFaults
  BY DEF StoreVerify, IInv, TypeOK
<1>2. Onward(pc[p], "closing")
  BY ClosingIsOnward DEF StoreVerify, Labels, Free
<1> QED
  BY <1>1, <1>2, StoreFinishInv DEF StoreVerify

LEMMA CloseLeaseInv ==
    ASSUME IInv, NEW p \in Procs, CloseLease(p)
    PROVE  IInv'
<1>1. faults' \in 0 .. MaxFaults
  BY DEF CloseLease, IInv, TypeOK
<1> QED
  BY <1>1, AbandonInv DEF CloseLease

-----------------------------------------------------------------------------
(* The environment.                                                        *)

LEMMA CancelInv ==
    ASSUME IInv, NEW p \in Procs, Cancel(p)
    PROVE  IInv'
<1> USE DEF Cancel, diskVars, gateVars, confVars, runVars
<1>0. TypeOK /\ DataTypeOK
  BY DEF IInv
<1>1. TypeOK'
  <2>1. faults' \in 0 .. MaxFaults
    BY <1>0, LockAssumption DEF TypeOK
  <2> QED
    BY <1>0, <2>1 DEF TypeOK
<1>2. DataTypeOK'
  BY <1>0 DEF DataTypeOK
<1>3. Grows
  BY <1>0, Numbers DEF Grows
<1>4. \A o \in Procs : Spares(o)
  BY DEF Spares
<1>5. OneRecording(receipts)' /\ OneRecording(evidence)'
  BY DEF IInv, OneRecording
<1> QED
  BY <1>1, <1>2, <1>3, <1>4, <1>5, NobodySteps

LEMMA CrashInv ==
    ASSUME IInv, NEW p \in Procs, Crash(p)
    PROVE  IInv'
<1>1. faults' \in 0 .. MaxFaults
  BY LockAssumption DEF Crash, IInv, TypeOK
<1> QED
  BY <1>1, EndRunInv DEF Crash

LEMMA SourceChangesInv ==
    ASSUME IInv, SourceChanges
    PROVE  IInv'
<1> USE DEF gateVars, confVars, runVars
<1>0. TypeOK /\ DataTypeOK
  BY DEF IInv
<1>1. UNCHANGED <<owner, pc, cancelled, gateVars, confVars, runVars>>
  BY DEF SourceChanges
<1>2. version' \in [Files -> 0 .. MaxChanges] /\ \A f \in Files : version[f] <= version'[f]
  <2>1. \A f \in Files : version[f] \in 0 .. MaxChanges
    BY <1>0 DEF TypeOK
  <2>2. CASE UNCHANGED version
    BY <1>0, <2>1, <2>2, ChangesAssumption DEF TypeOK
  <2>3. CASE \E f \in Files : SourceWritten(f)
    <3> PICK f \in Files : SourceWritten(f)
      BY <2>3
    <3>1. version' = [version EXCEPT ![f] = @ + 1] /\ version[f] + 1 \in 0 .. MaxChanges
      BY <2>1, ChangesAssumption DEF SourceWritten
    <3> QED
      BY <1>0, <2>1, <3>1, ChangesAssumption DEF TypeOK
  <2> QED
    BY <2>2, <2>3 DEF SourceChanges, WriterMoves, PathRebound
<1>3. writer' \in [Files -> {"none", "open", "mapped"}]
  BY <1>0 DEF TypeOK, SourceChanges, SourceWritten, WriterMoves, PathRebound
<1>4. bound' \in [Paths -> Files \cup {Missing}]
  BY <1>0 DEF TypeOK, SourceChanges, SourceWritten, WriterMoves, PathRebound
<1>5. faults' \in 0 .. MaxFaults
  BY <1>0, LockAssumption DEF TypeOK, SourceChanges, PathRebound
<1>6. TypeOK'
  BY <1>0, <1>1, <1>2, <1>3, <1>4, <1>5 DEF TypeOK
<1>7. DataTypeOK'
  BY <1>0, <1>1 DEF DataTypeOK
<1>8. Grows
  BY <1>1, <1>2 DEF Grows
<1>9. \A o \in Procs : Spares(o)
  BY <1>1 DEF Spares
<1>10. OneRecording(receipts)' /\ OneRecording(evidence)'
  BY <1>1 DEF IInv, OneRecording
<1> QED
  BY <1>6, <1>7, <1>8, <1>9, <1>10, NobodySteps

\* Whatever a foreign program writes is late for who has read it.
LEMMA ForeignEditInv ==
    ASSUME IInv, NEW q \in Projects, ForeignEdit(q)
    PROVE  IInv'
<1> USE DEF diskVars, gateVars, confVars
<1>0. TypeOK /\ DataTypeOK
  BY DEF IInv
<1>1. PICK author \in {store[q].author, "foreign"} :
        store' = [store EXCEPT ![q].author = author, ![q].instance = @ + 1, ![q].late = TRUE]
  BY DEF ForeignEdit
<1>2. /\ faults > 0 /\ faults' = faults - 1
      /\ UNCHANGED <<owner, pc, cancelled, diskVars, gateVars, confVars, project, first, tries>>
  BY DEF ForeignEdit
<1>3. store[q] \in Stores
  BY <1>0 DEF DataTypeOK
<1>4. /\ store' \in [Projects -> Stores] /\ store'[q].late
      /\ \A other \in Projects \ {q} : store'[other] = store[other]
  <2> DEFINE edited == [store[q] EXCEPT !.author = author,
                                        !.instance = store[q].instance + 1, !.late = TRUE]
  <2>1. store' = [store EXCEPT ![q] = edited]
    BY <1>0, <1>1 DEF DataTypeOK
  <2>2. author \in {"runs", "foreign"} /\ store[q].instance + 1 \in Nat
    BY <1>3 DEF Stores
  <2>3. edited \in Stores /\ edited.late
    BY <1>3, <2>2, StoreRecords
  <2> HIDE DEF edited
  <2> QED
    BY <1>0, <2>1, <2>3 DEF DataTypeOK
<1>5. TypeOK'
  <2>1. faults' \in 0 .. MaxFaults
    BY <1>0, <1>2, LockAssumption DEF TypeOK
  <2> QED
    BY <1>0, <1>2, <2>1 DEF TypeOK
<1>6. DataTypeOK'
  BY <1>0, <1>2, <1>4 DEF DataTypeOK
<1>7. Grows
  BY <1>0, <1>2, ChangesAssumption DEF Grows, TypeOK
<1>8. ASSUME NEW o \in Procs PROVE Spares(o)
  <2>1. pc[o] = "replace" => at[o].project \in Projects
    BY DEF IInv, Owns
  <2> QED
    BY <1>2, <1>4, <2>1 DEF Spares
<1>9. OneRecording(receipts)' /\ OneRecording(evidence)'
  BY <1>2 DEF IInv, OneRecording
<1> QED
  BY <1>5, <1>6, <1>7, <1>8, <1>9, NobodySteps

LEMMA UserAssignsInv ==
    ASSUME IInv, UserAssigns
    PROVE  IInv'
<1> USE DEF UserAssigns, create_stream_assignment, lockVars, diskVars, gateVars, runVars
<1>0. TypeOK /\ DataTypeOK
  BY DEF IInv
<1>1. TypeOK' /\ DataTypeOK'
  BY <1>0 DEF TypeOK, DataTypeOK
<1>2. Grows
  BY <1>0, ChangesAssumption DEF Grows, TypeOK
<1>3. \A o \in Procs : Spares(o)
  BY DEF Spares
<1>4. OneRecording(receipts)' /\ OneRecording(evidence)'
  BY DEF IInv, OneRecording
<1> QED
  BY <1>1, <1>2, <1>3, <1>4, NobodySteps

LEMMA StutterInv ==
    ASSUME IInv, UNCHANGED vars
    PROVE  IInv'
<1> USE DEF vars, lockVars, diskVars, gateVars, confVars, runVars
<1>0. TypeOK /\ DataTypeOK
  BY DEF IInv
<1>1. TypeOK' /\ DataTypeOK'
  BY <1>0 DEF TypeOK, DataTypeOK
<1>2. Grows
  BY <1>0, ChangesAssumption DEF Grows, TypeOK
<1>3. \A o \in Procs : Spares(o)
  BY DEF Spares
<1>4. OneRecording(receipts)' /\ OneRecording(evidence)'
  BY DEF IInv, OneRecording
<1> QED
  BY <1>1, <1>2, <1>3, <1>4, NobodySteps

-----------------------------------------------------------------------------
(* The theorems.                                                           *)

LEMMA InitInv ==
    ASSUME Init
    PROVE  IInv
<1> USE DEF Init
<1>1. TypeOK
  <2>1. NoSnapshot \in Snapshots
    BY ChangesAssumption DEF NoSnapshot, Snapshots
  <2>2. s0 \in [Procs -> Snapshots] /\ last \in [Procs -> Snapshots]
    BY <2>1
  <2>3. /\ faults \in 0 .. MaxFaults /\ run \in [Procs -> 0 .. MaxRuns] /\ runs \in 0 .. MaxRuns
        /\ version \in [Files -> 0 .. MaxChanges]
    BY LockAssumption, RunsAssumption, ChangesAssumption
  <2>4. \A o \in Procs : Len(digest[o]) <= Blocks
    BY EmptySeq
  <2>5. /\ pc \in [Procs -> Labels] /\ cancelled \in [Procs -> BOOLEAN]
        /\ state \in [Procs -> SourceStates]
    BY DEF Labels, SourceStates
  <2>6. /\ owner \in [Keys -> Procs \cup {Nobody}]
        /\ handle \in [Procs -> Files \cup {Missing}]
        /\ bound \in [Paths -> Files \cup {Missing}]
        /\ writer \in [Files -> {"none", "open", "mapped"}]
        /\ assigned \subseteq media /\ project \in [Projects -> {"absent", "orphan", "ready"}]
    OBVIOUS
  <2> QED
    BY <2>2, <2>3, <2>4, <2>5, <2>6 DEF TypeOK
<1>2. DataTypeOK
  <2>1. << >> \in Seq(0 .. MaxChanges)
    OBVIOUS
  <2>2. NoStore \in Stores
    BY DEF NoStore, Stores
  <2> QED
    BY <2>1, <2>2 DEF DataTypeOK, Nowhere
<1>3. ASSUME NEW p \in Procs PROVE Owns(p) /\ Hashes(p) /\ Witnessed(p) /\ Replaces(p)
  <2>1. pc[p] = "idle" /\ handle[p] = Missing /\ digest[p] = << >> /\ \A k \in Keys : owner[k] # p
    BY LockAssumption
  <2> QED
    BY <2>1 DEF Owns, Hashes, Witnessed, Replaces, WithProject, WithPath, WithHandle,
                WithS0, WithSource, Free, Labels, Hashed, Receipted, Evidenced
<1>4. OneRecording(receipts) /\ OneRecording(evidence)
  BY DEF OneRecording
<1> QED
  BY <1>1, <1>2, <1>3, <1>4 DEF IInv

\* The invariant is inductive: it holds first, and no step of a process, of a
\* writer, of a foreign program or of the user breaks it.
THEOREM Inductive == Spec => []IInv
<1>1. Init => IInv
  BY InitInv
<1>2. IInv /\ [Next]_vars => IInv'
  BY StutterInv, StartRunInv, create_projectInv, PublishProjectInv, open_projectInv,
     GateStepInv, close_gate_with_retryInv, ConfirmStepInv, CloseLeaseInv, StoreReadInv,
     StoreSecondReadInv, StoreReplaceInv, StoreVerifyInv, CancelInv, CrashInv,
     SourceChangesInv, ForeignEditInv, UserAssignsInv DEF Next, Program
<1> QED
  BY <1>1, <1>2, PTL DEF Spec

\* The variables keep their types, for any number of processes, projects, paths
\* and files.
THEOREM TypeCorrect == Spec => []TypeOK
<1>1. IInv => TypeOK
  BY DEF IInv
<1> QED
  BY <1>1, Inductive, PTL

\* Two leases are never on the same project, path name or file, and who has no
\* lease holds no ownership file and no handle (phase2/close_gate/gate.py).
THEOREM LeasesAreAlwaysOwned == Spec => []LeasesAreOwned
<1>1. ASSUME IInv PROVE OneHolderPerFile
  <2> SUFFICES ASSUME NEW p \in Procs, NEW o \in Procs, p # o, Leased(p), Leased(o)
               PROVE  /\ at[p].project # at[o].project /\ at[p].path # at[o].path
                      /\ handle[p] # handle[o]
    BY DEF OneHolderPerFile
  <2>1. pc[p] \in WithSource /\ pc[o] \in WithSource
    BY DEF Leased, WithSource, WithS0, WithHandle, WithPath, WithProject, Free, Labels
  <2>2. Owns(p) /\ Owns(o)
    BY <1>1 DEF IInv
  <2> QED
    BY <2>1, <2>2, Order DEF Owns
<1>2. ASSUME IInv PROVE NothingLeftBehind
  BY <1>2 DEF IInv, Owns, NothingLeftBehind, Held, Free
<1> QED
  BY <1>1, <1>2, Inductive, PTL DEF LeasesAreOwned

\* Every receipt and every identity evidence on disk is of one state of the
\* recording, and a confirmed source has its own, of the contents the gate saw
\* (phase2/source_confirmation/orchestrator.py).
THEOREM EvidenceIsAlwaysOfOneRecording == Spec => []EvidenceIsOfOneRecording
<1>1. ASSUME IInv PROVE EvidenceIsOfOneRecording
  <2>1. \A r \in receipts \cup evidence : \A i, j \in 1 .. Blocks :
            r.identity.digest[i] = r.identity.digest[j]
    BY <1>1 DEF IInv, OneRecording
  <2>2. ASSUME NEW p \in Procs, pc[p] \in {"store", "second", "replace", "final"}
        PROVE  /\ Record(p) \in receipts \cap evidence
               /\ \A i \in 1 .. Blocks : digest[p][i] = s0[p].version
    BY <1>1, <2>2 DEF IInv, Witnessed, Hashes, Hashed, Receipted, Evidenced
  <2> QED
    BY <2>1, <2>2 DEF EvidenceIsOfOneRecording
<1> QED
  BY <1>1, Inductive, PTL

\* replace_revision_cas never overwrites what another program wrote before its
\* second read of the state file.
THEOREM NothingUnseenIsOverwritten == Spec => NoUnseenOverwrite
<1>1. IInv => [\A p \in Procs : pc[p] = "replace" /\ store' # store /\ pc'[p] # pc[p] =>
                  \/ store[at[p].project] = first[p]
                  \/ store[at[p].project].late]_vars
  BY DEF IInv, Replaces
<1> QED
  BY <1>1, Inductive, PTL DEF NoUnseenOverwrite

-----------------------------------------------------------------------------
(* The lease authority.                                                    *)

USE DEF Locations, Entering, Rechecking, Closing, ActiveCloser

----------------------------------------------------------------------------
(* Lemmas about one thread's move.                                         *)

\* The three sets of users are finite, so their cardinalities are naturals,
\* and a counter that equals one is zero exactly when the set is empty.
LEMMA UsersFinite ==
    ASSUME LeaseTypeOK
    PROVE  /\ IsFiniteSet(InUsage) /\ Cardinality(InUsage) \in Nat
           /\ IsFiniteSet(InRecheck) /\ Cardinality(InRecheck) \in Nat
           /\ Cardinality(InUsage) = 0 <=> InUsage = {}
           /\ Cardinality(InRecheck) = 0 <=> InRecheck = {}
<1>1. InUsage \in SUBSET Threads /\ InRecheck \in SUBSET Threads
  BY DEF InUsage, InRecheck
<1>2. IsFiniteSet(InUsage) /\ IsFiniteSet(InRecheck)
  BY <1>1, ThreadsFinite, FS_Subset
<1> QED
  BY <1>2, FS_CardinalityType, FS_EmptySet

\* A counter that is exact stays exact when a thread outside enters ...
LEMMA CountEnter ==
    ASSUME NEW S, NEW x, NEW n \in Nat, IsFiniteSet(S), n = Cardinality(S), x \notin S
    PROVE  n + 1 = Cardinality(S \cup {x})
BY FS_AddElement

\* ... and when a thread inside leaves.
LEMMA CountLeave ==
    ASSUME NEW S, NEW x, NEW n \in Nat, IsFiniteSet(S), n = Cardinality(S), x \in S
    PROVE  n - 1 = Cardinality(S \ {x}) /\ n - 1 \in Nat
<1>1. n # 0
  BY FS_EmptySet
<1> QED
  BY <1>1, FS_RemoveElement

\* Quiet, the condition the first closer waits for, means that nobody is inside.
LEMMA QuietMeansEmpty ==
    ASSUME LeaseTypeOK, CountersExact, Quiet
    PROVE  Users = {}
BY UsersFinite DEF CountersExact, Quiet, Users

\* A step that leaves the sessions alone and does not move t into or out of a
\* recheck leaves the sets of users alone.
LEMMA SameUsers ==
    ASSUME LeaseTypeOK, NEW t \in Threads, NEW l \in Locations,
           session' = session, Moves(t, l),
           place[t] \in Rechecking <=> l \in Rechecking
    PROVE  InUsage' = InUsage /\ InIo' = InIo /\ InRecheck' = InRecheck /\ Users' = Users
BY DEF LeaseTypeOK, Moves, InUsage, InIo, InRecheck, Users

----------------------------------------------------------------------------

LEMMA LeaseInitInv == LeaseInit => LeaseInv
<1> SUFFICES ASSUME LeaseInit PROVE LeaseInv
  OBVIOUS
<1>0. released \in Seq({Resources[i] : i \in 1 .. 4})
  BY DEF LeaseInit
<1>1. LeaseTypeOK
  BY <1>0 DEF LeaseInit, LeaseTypeOK, Diagnostics, Outcomes
<1>2. InUsage = {} /\ InIo = {} /\ InRecheck = {}
  BY DEF LeaseInit, InUsage, InIo, InRecheck
<1>3. CountersExact
  BY <1>2, FS_EmptySet DEF LeaseInit, CountersExact
<1> QED
  BY <1>1, <1>2, <1>3 DEF LeaseInit, LeaseInv, IoIsExclusive, EntryInv, CloserInv, ReleaseInv, ClosersAgree

(* One lemma per group of actions of the code.                             *)

\* Calls that look up their record, are refused or only move to another place
\* of the same kind: the record, the counters and the sets of users stay.
LEMMA LookUpInv ==
    ASSUME LeaseInv, NEW t \in Threads, NEW call \in Entering, LookUp(t, call)
    PROVE  LeaseInv'
<1> USE DEF LookUp, record, counters, resources, tokens
<1>0. LeaseTypeOK /\ call \in Locations
  BY DEF LeaseInv
<1>1. LeaseTypeOK'
  BY <1>0 DEF LeaseTypeOK, Moves
<1>2. InUsage' = InUsage /\ InIo' = InIo /\ InRecheck' = InRecheck /\ Users' = Users
  BY <1>0, SameUsers
<1>3. CountersExact' /\ IoIsExclusive'
  BY <1>2 DEF LeaseInv, CountersExact, IoIsExclusive
<1>4. EntryInv'
  BY <1>0 DEF LeaseTypeOK, LeaseInv, EntryInv, MayNest, Moves
<1>5. CloserInv' /\ ReleaseInv' /\ ClosersAgree'
  BY <1>0, <1>2 DEF LeaseTypeOK, LeaseInv, CloserInv, ReleaseInv, ClosersAgree, Moves
<1> QED
  BY <1>1, <1>3, <1>4, <1>5 DEF LeaseInv

LEMMA LookUpGoneInv ==
    ASSUME LeaseInv, NEW t \in Threads, NEW call \in Entering, LookUpGone(t, call)
    PROVE  LeaseInv'
<1> USE DEF LookUpGone, Return, record, counters, resources, tokens
<1>0. LeaseTypeOK
  BY DEF LeaseInv
<1>1. LeaseTypeOK'
  BY <1>0 DEF LeaseTypeOK, Moves, Outcomes, Diagnostics
<1>2. InUsage' = InUsage /\ InIo' = InIo /\ InRecheck' = InRecheck /\ Users' = Users
  BY <1>0, SameUsers
<1>3. CountersExact' /\ IoIsExclusive'
  BY <1>2 DEF LeaseInv, CountersExact, IoIsExclusive
<1>4. EntryInv' /\ CloserInv' /\ ReleaseInv'
  BY <1>0, <1>2 DEF LeaseTypeOK, LeaseInv, EntryInv, CloserInv, ReleaseInv, Moves
<1>5. ClosersAgree'
  BY <1>0, <1>2 DEF LeaseTypeOK, LeaseInv, ReleaseInv, ClosersAgree, Moves
<1> QED
  BY <1>1, <1>3, <1>4, <1>5 DEF LeaseInv

LEMMA RefuseInv ==
    ASSUME LeaseInv, NEW t \in Threads, RefuseUsage(t) \/ RefuseIo(t) \/ RefuseRecheck(t)
    PROVE  LeaseInv'
<1> USE DEF RefuseUsage, RefuseIo, RefuseRecheck, Return, record, counters, resources, tokens
<1>0. LeaseTypeOK
  BY DEF LeaseInv
<1>1. LeaseTypeOK'
  BY <1>0 DEF LeaseTypeOK, Moves, Outcomes
<1>2. InUsage' = InUsage /\ InIo' = InIo /\ InRecheck' = InRecheck /\ Users' = Users
  BY <1>0, SameUsers
<1>3. CountersExact' /\ IoIsExclusive'
  BY <1>2 DEF LeaseInv, CountersExact, IoIsExclusive
<1>4. EntryInv' /\ CloserInv' /\ ReleaseInv' /\ ClosersAgree'
  BY <1>0, <1>2, SMTT(30) DEF LeaseTypeOK, LeaseInv, EntryInv, CloserInv, ReleaseInv, ClosersAgree, Moves
<1> QED
  BY <1>1, <1>3, <1>4 DEF LeaseInv

----------------------------------------------------------------------------
(* Usages.                                                                 *)

LEMMA EnterUsageInv ==
    ASSUME LeaseInv, NEW t \in Threads, EnterUsage(t)
    PROVE  LeaseInv'
<1> USE DEF EnterUsage, UsageAvailable, Moves, record, counters, resources, tokens
<1>0. LeaseTypeOK
  BY DEF LeaseInv
<1>1. LeaseTypeOK'
  BY <1>0 DEF LeaseTypeOK
<1>2. t \notin InUsage /\ InUsage' = InUsage \cup {t} /\ InIo' = InIo /\ InRecheck' = InRecheck
  BY <1>0 DEF LeaseTypeOK, LeaseInv, EntryInv, InUsage, InIo, InRecheck
<1>3. CountersExact'
  BY <1>0, <1>2, UsersFinite, CountEnter DEF LeaseTypeOK, LeaseInv, CountersExact
<1>4. IoIsExclusive' /\ EntryInv'
  BY <1>0, <1>2 DEF LeaseTypeOK, LeaseInv, IoIsExclusive, EntryInv
<1>5. CloserInv' /\ ReleaseInv' /\ ClosersAgree'
  BY <1>0, <1>2 DEF LeaseTypeOK, LeaseInv, CloserInv, ReleaseInv, ClosersAgree
<1> QED
  BY <1>1, <1>3, <1>4, <1>5 DEF LeaseInv

LEMMA LeaveUsageInv ==
    ASSUME LeaseInv, NEW t \in Threads, LeaveUsage(t)
    PROVE  LeaseInv'
<1> USE DEF LeaveUsage, record, counters, resources, tokens
<1>0. LeaseTypeOK
  BY DEF LeaseInv
<1>2. t \in InUsage /\ InUsage' = InUsage \ {t} /\ InIo' = InIo /\ InRecheck' = InRecheck
  BY <1>0 DEF LeaseTypeOK, InUsage, InIo, InRecheck
<1>3. CountersExact' /\ active_usages' \in Nat
  BY <1>0, <1>2, UsersFinite, CountLeave DEF LeaseTypeOK, LeaseInv, CountersExact
<1>1. LeaseTypeOK'
  BY <1>0, <1>3 DEF LeaseTypeOK
<1>4. IoIsExclusive' /\ EntryInv'
  BY <1>0, <1>2 DEF LeaseTypeOK, LeaseInv, IoIsExclusive, EntryInv
<1>5. Users' \subseteq Users
  BY <1>2 DEF Users
<1>6. CloserInv' /\ ReleaseInv' /\ ClosersAgree'
  BY <1>0, <1>5 DEF LeaseTypeOK, LeaseInv, CloserInv, ReleaseInv, ClosersAgree
<1> QED
  BY <1>1, <1>3, <1>4, <1>6 DEF LeaseInv

\* Commits and cancellation touch the tokens only.
LEMMA TokenInv ==
    ASSUME LeaseInv, NEW t \in Threads, CommitUsage(t) \/ CommitIo(t) \/ CancelToken(t)
    PROVE  LeaseInv'
<1> USE DEF CommitUsage, CommitIo, CancelToken, BeginCommit, record, counters, resources, threads
<1>0. LeaseTypeOK
  BY DEF LeaseInv
<1>1. LeaseTypeOK'
  BY <1>0, SMTT(30) DEF LeaseTypeOK
<1>2. InUsage' = InUsage /\ InIo' = InIo /\ InRecheck' = InRecheck /\ Users' = Users
  BY DEF InUsage, InIo, InRecheck, Users
<1>3. CountersExact' /\ IoIsExclusive'
  BY <1>2 DEF LeaseInv, CountersExact, IoIsExclusive
<1>4. EntryInv' /\ CloserInv' /\ ReleaseInv' /\ ClosersAgree'
  BY <1>0, <1>2 DEF LeaseTypeOK, LeaseInv, EntryInv, CloserInv, ReleaseInv, ClosersAgree
<1> QED
  BY <1>1, <1>3, <1>4 DEF LeaseInv

----------------------------------------------------------------------------
(* Input and output sessions.                                              *)

LEMMA EnterIoInv ==
    ASSUME LeaseInv, NEW t \in Threads, EnterIo(t)
    PROVE  LeaseInv'
<1> USE DEF EnterIo, IoAvailable, Moves, record, counters, resources, tokens
<1>0. LeaseTypeOK
  BY DEF LeaseInv
<1>1. LeaseTypeOK'
  BY <1>0 DEF LeaseTypeOK
<1>2. InIo = {} /\ InIo' = {t} /\ InUsage' = InUsage /\ InRecheck' = InRecheck
  BY <1>0 DEF LeaseTypeOK, LeaseInv, CountersExact, InUsage, InIo, InRecheck
<1>3. CountersExact' /\ IoIsExclusive'
  BY <1>0, <1>2 DEF LeaseTypeOK, LeaseInv, CountersExact, IoIsExclusive
<1>4. EntryInv'
  BY <1>0 DEF LeaseTypeOK, LeaseInv, EntryInv
<1>5. CloserInv' /\ ReleaseInv' /\ ClosersAgree'
  BY <1>0, <1>2 DEF LeaseTypeOK, LeaseInv, CloserInv, ReleaseInv, ClosersAgree
<1> QED
  BY <1>1, <1>3, <1>4, <1>5 DEF LeaseInv

LEMMA LeaveIoInv ==
    ASSUME LeaseInv, NEW t \in Threads, LeaveIo(t)
    PROVE  LeaseInv'
<1> USE DEF LeaveIo, record, counters, resources, tokens
<1>0. LeaseTypeOK
  BY DEF LeaseInv
<1>1. LeaseTypeOK'
  BY <1>0 DEF LeaseTypeOK
<1>2. InIo' = {} /\ InUsage' = InUsage /\ InRecheck' = InRecheck
  BY <1>0 DEF LeaseTypeOK, LeaseInv, IoIsExclusive, InUsage, InIo, InRecheck
<1>3. CountersExact' /\ IoIsExclusive'
  BY <1>0, <1>2 DEF LeaseTypeOK, LeaseInv, CountersExact, IoIsExclusive
<1>4. EntryInv'
  BY <1>0 DEF LeaseTypeOK, LeaseInv, EntryInv
<1>5. Users' \subseteq Users
  BY <1>2 DEF Users
<1>6. CloserInv' /\ ReleaseInv' /\ ClosersAgree'
  BY <1>0, <1>5 DEF LeaseTypeOK, LeaseInv, CloserInv, ReleaseInv, ClosersAgree
<1> QED
  BY <1>1, <1>3, <1>4, <1>6 DEF LeaseInv

----------------------------------------------------------------------------
(* Rechecks.                                                               *)

LEMMA BeginRecheckInv ==
    ASSUME LeaseInv, NEW t \in Threads, BeginRecheck(t)
    PROVE  LeaseInv'
<1> USE DEF BeginRecheck, Moves, record, counters, resources, tokens
<1>0. LeaseTypeOK
  BY DEF LeaseInv
<1>1. LeaseTypeOK'
  BY <1>0 DEF LeaseTypeOK
<1>2. /\ t \notin InRecheck /\ InRecheck' = InRecheck \cup {t}
      /\ InUsage' = InUsage /\ InIo' = InIo
  BY <1>0 DEF LeaseTypeOK, InUsage, InIo, InRecheck
<1>3. CountersExact'
  BY <1>0, <1>2, UsersFinite, CountEnter DEF LeaseTypeOK, LeaseInv, CountersExact
<1>4. IoIsExclusive' /\ EntryInv'
  BY <1>0, <1>2 DEF LeaseTypeOK, LeaseInv, IoIsExclusive, EntryInv
<1>5. CloserInv' /\ ReleaseInv' /\ ClosersAgree'
  BY <1>0, <1>2 DEF LeaseTypeOK, LeaseInv, CloserInv, ReleaseInv, ClosersAgree
<1> QED
  BY <1>1, <1>3, <1>4, <1>5 DEF LeaseInv

\* The steps inside a recheck write its outcome and a token and nothing else.
LEMMA RecheckMoveInv ==
    ASSUME LeaseInv, NEW t \in Threads, NEW l \in {"publish", "leave"},
           place[t] \in {"recheck", "publish"}, Moves(t, l), LeaseTypeOK',
           UNCHANGED <<record, counters, resources, session, reported>>
    PROVE  LeaseInv'
<1> USE DEF record, counters, resources
<1>0. LeaseTypeOK
  BY DEF LeaseInv
<1>2. InUsage' = InUsage /\ InIo' = InIo /\ InRecheck' = InRecheck /\ Users' = Users
  BY <1>0, SameUsers
<1>3. CountersExact' /\ IoIsExclusive'
  BY <1>2 DEF LeaseInv, CountersExact, IoIsExclusive
<1>4. EntryInv' /\ ReleaseInv' /\ ClosersAgree'
  BY <1>0, <1>2 DEF LeaseTypeOK, LeaseInv, EntryInv, ReleaseInv, ClosersAgree, Moves
<1>5. CloserInv'
  BY <1>0, <1>2 DEF LeaseTypeOK, LeaseInv, CloserInv, Moves
<1> QED
  BY <1>3, <1>4, <1>5 DEF LeaseInv

LEMMA MeasureInv ==
    ASSUME LeaseInv, NEW t \in Threads,
           MeasureRecheck(t) \/ PublishRecheck(t) \/ WithholdRecheck(t)
    PROVE  LeaseInv'
<1> USE DEF BeginCommit, tokens
<1>0. LeaseTypeOK
  BY DEF LeaseInv
<1>1. ASSUME MeasureRecheck(t) PROVE LeaseInv'
  <2>1. LeaseTypeOK'
    BY <1>0, <1>1 DEF MeasureRecheck, LeaseTypeOK, Moves, Outcomes, record, counters, resources
  <2> QED
    BY <1>1, <2>1, RecheckMoveInv DEF MeasureRecheck
<1>2. ASSUME PublishRecheck(t) PROVE LeaseInv'
  <2>1. LeaseTypeOK'
    BY <1>0, <1>2 DEF PublishRecheck, LeaseTypeOK, Moves, Outcomes, record, counters, resources
  <2> QED
    BY <1>2, <2>1, RecheckMoveInv DEF PublishRecheck
<1>3. ASSUME WithholdRecheck(t) PROVE LeaseInv'
  <2>1. LeaseTypeOK'
    BY <1>0, <1>3 DEF WithholdRecheck, LeaseTypeOK, Moves, Outcomes, record, counters, resources
  <2> QED
    BY <1>3, <2>1, RecheckMoveInv DEF WithholdRecheck
<1> QED
  BY <1>1, <1>2, <1>3

LEMMA LeaveRecheckInv ==
    ASSUME LeaseInv, NEW t \in Threads, LeaveRecheck(t)
    PROVE  LeaseInv'
<1> USE DEF LeaveRecheck, Moves, record, counters, resources, tokens
<1>0. LeaseTypeOK
  BY DEF LeaseInv
<1>2. /\ t \in InRecheck /\ InRecheck' = InRecheck \ {t}
      /\ InUsage' = InUsage /\ InIo' = InIo
  BY <1>0 DEF LeaseTypeOK, InUsage, InIo, InRecheck
<1>3. CountersExact' /\ active_rechecks' \in Nat
  BY <1>0, <1>2, UsersFinite, CountLeave DEF LeaseTypeOK, LeaseInv, CountersExact
<1>1. LeaseTypeOK'
  BY <1>0, <1>3 DEF LeaseTypeOK
<1>4. IoIsExclusive' /\ EntryInv'
  BY <1>0, <1>2 DEF LeaseTypeOK, LeaseInv, IoIsExclusive, EntryInv
<1>5. Users' \subseteq Users
  BY <1>2 DEF Users
<1>6. CloserInv' /\ ReleaseInv' /\ ClosersAgree'
  BY <1>0, <1>5 DEF LeaseTypeOK, LeaseInv, CloserInv, ReleaseInv, ClosersAgree
<1> QED
  BY <1>1, <1>3, <1>4, <1>6 DEF LeaseInv

----------------------------------------------------------------------------
(* Close.                                                                  *)

\* The three steps that may take the first closer on: it reaches "release" only
\* when the counters, and so the sets they count, are empty.
LEMMA CloseWaitInv ==
    ASSUME LeaseInv, NEW t \in Threads,
           CloseFirst(t) \/ CloseDrained(t) \/ CloseQuiet(t) \/ CloseLater(t)
    PROVE  LeaseInv'
<1> USE DEF FirstCloser, CloseFirst, CloseDrained, CloseQuiet, CloseLater, Drained,
            record, counters, resources, tokens
<1>0. LeaseTypeOK
  BY DEF LeaseInv
<1>1. LeaseTypeOK'
  BY <1>0 DEF LeaseTypeOK, Moves
<1>2. InUsage' = InUsage /\ InIo' = InIo /\ InRecheck' = InRecheck /\ Users' = Users
  BY <1>0, SameUsers
<1>3. CountersExact' /\ IoIsExclusive'
  BY <1>2 DEF LeaseInv, CountersExact, IoIsExclusive
<1>4. place'[t] = "release" => Users = {}
  BY <1>0, QuietMeansEmpty DEF LeaseTypeOK, LeaseInv, Moves
<1>5. EntryInv'
  BY <1>0 DEF LeaseTypeOK, LeaseInv, EntryInv, Moves
<1>6. lease_state' = lease_state \/ (lease_state' = "closing" /\ lease_state = "open" /\ registered)
  <2>1. CASE CloseFirst(t)
    BY <1>0, <2>1 DEF LeaseTypeOK, LeaseInv, ReleaseInv
  <2>2. CASE CloseDrained(t)
    BY <1>0, <2>2 DEF LeaseTypeOK, LeaseInv, CloserInv, ReleaseInv
  <2> QED
    BY <2>1, <2>2
<1>7. ReleaseInv' /\ ClosersAgree'
  BY <1>0, <1>2, <1>6 DEF LeaseTypeOK, LeaseInv, ReleaseInv, ClosersAgree, Moves
<1>8. CloserInv'
  <2>1. CASE CloseFirst(t)
    BY <1>0, <1>2, <1>4, <2>1 DEF LeaseTypeOK, LeaseInv, CloserInv, Moves
  <2>2. CASE CloseDrained(t)
    BY <1>0, <1>2, <1>4, <2>2 DEF LeaseTypeOK, LeaseInv, CloserInv, Moves
  <2>3. CASE CloseQuiet(t)
    BY <1>0, <1>2, <1>4, <2>3 DEF LeaseTypeOK, LeaseInv, CloserInv, Moves
  <2>4. CASE CloseLater(t)
    BY <1>0, <1>2, <2>4 DEF LeaseTypeOK, LeaseInv, CloserInv, Moves, Superseded
  <2> QED
    BY <2>1, <2>2, <2>3, <2>4
<1> QED
  BY <1>1, <1>3, <1>5, <1>7, <1>8 DEF LeaseInv

LEMMA CloseReturnInv ==
    ASSUME LeaseInv, NEW t \in Threads, CloseReturn(t)
    PROVE  LeaseInv'
<1> USE DEF CloseReturn, Return, Superseded, FirstCloser, record, counters, resources, tokens
<1>0. LeaseTypeOK
  BY DEF LeaseInv
<1>1. LeaseTypeOK'
  BY <1>0 DEF LeaseTypeOK, Moves, Outcomes
<1>2. InUsage' = InUsage /\ InIo' = InIo /\ InRecheck' = InRecheck /\ Users' = Users
  BY <1>0, SameUsers
<1>3. CountersExact' /\ IoIsExclusive'
  BY <1>2 DEF LeaseInv, CountersExact, IoIsExclusive
<1>4. EntryInv' /\ CloserInv' /\ ReleaseInv'
  BY <1>0, <1>2 DEF LeaseTypeOK, LeaseInv, EntryInv, CloserInv, ReleaseInv, Moves
<1>5. lease_state = "closed"
  BY <1>0 DEF LeaseTypeOK, LeaseInv, CloserInv
<1>6. ClosersAgree'
  BY <1>0, <1>5 DEF LeaseTypeOK, LeaseInv, ReleaseInv, ClosersAgree
<1> QED
  BY <1>1, <1>3, <1>4, <1>6 DEF LeaseInv

LEMMA ReleaseOneInv ==
    ASSUME LeaseInv, NEW t \in Threads, ReleaseOne(t)
    PROVE  LeaseInv'
<1> USE DEF ReleaseOne, record, counters, tokens
<1>0. LeaseTypeOK
  BY DEF LeaseInv
<1>1. /\ released' \in Seq({Resources[i] : i \in 1 .. 4})
      /\ Len(released') = Len(released) + 1 /\ released' # <<>>
  <2> DEFINE R == {Resources[i] : i \in 1 .. 4}
  <2>1. released \in Seq(R)
    BY <1>0 DEF LeaseTypeOK
  <2>2. \A i \in 1 .. 4 : Resources[i] \in R
    OBVIOUS
  <2> HIDE DEF R
  <2>3. Len(released) \in Nat /\ Len(released) + 1 \in 1 .. 4
    BY <2>1
  <2>4. Resources[Len(released) + 1] \in R
    BY <2>2, <2>3
  <2>5. /\ released' \in Seq(R)
        /\ Len(released') = Len(released) + 1 /\ released' # <<>>
    BY <2>1, <2>4
  <2> QED
    BY <2>5 DEF R
<1>2. failures' \in Diagnostics
  BY <1>0 DEF LeaseTypeOK, Diagnostics
<1>3. LeaseTypeOK'
  BY <1>0, <1>1, <1>2 DEF LeaseTypeOK, Moves
<1>4. InUsage' = InUsage /\ InIo' = InIo /\ InRecheck' = InRecheck /\ Users' = Users
  BY <1>0, SameUsers
<1>5. CountersExact' /\ IoIsExclusive'
  BY <1>4 DEF LeaseInv, CountersExact, IoIsExclusive
<1>6. lease_state = "closing" /\ Users = {}
  BY DEF LeaseInv, CloserInv
<1>7. EntryInv' /\ ReleaseInv' /\ ClosersAgree'
  BY <1>0, <1>4, <1>6 DEF LeaseTypeOK, LeaseInv, EntryInv, ReleaseInv, ClosersAgree, Moves
<1>8. Len(released) = 3 => Len(released') = 4
  BY <1>1
<1>9. CloserInv'
  BY <1>0, <1>4, <1>6, <1>8 DEF LeaseTypeOK, LeaseInv, CloserInv, Moves
<1> QED
  BY <1>3, <1>5, <1>7, <1>9 DEF LeaseInv

LEMMA FinishCloseInv ==
    ASSUME LeaseInv, NEW t \in Threads, FinishClose(t)
    PROVE  LeaseInv'
<1> USE DEF FinishClose, counters, resources, tokens
<1>0. LeaseTypeOK
  BY DEF LeaseInv
<1>1. LeaseTypeOK'
  BY <1>0 DEF LeaseTypeOK, Moves
<1>2. InUsage' = InUsage /\ InIo' = InIo /\ InRecheck' = InRecheck /\ Users' = Users
  BY <1>0, SameUsers
<1>3. CountersExact' /\ IoIsExclusive'
  BY <1>2 DEF LeaseInv, CountersExact, IoIsExclusive
<1>4. Len(released) = 4 /\ Users = {} /\ lease_state = "closing"
  BY DEF LeaseInv, CloserInv
<1>5. EntryInv' /\ ReleaseInv' /\ ClosersAgree'
  BY <1>0, <1>2, <1>4 DEF LeaseTypeOK, LeaseInv, EntryInv, ReleaseInv, ClosersAgree, Moves
<1>6. CloserInv'
  BY <1>0, <1>2, <1>4 DEF LeaseTypeOK, LeaseInv, CloserInv, Moves
<1> QED
  BY <1>1, <1>3, <1>5, <1>6 DEF LeaseInv

LEMMA PopRecordInv ==
    ASSUME LeaseInv, NEW t \in Threads, PopRecord(t)
    PROVE  LeaseInv'
<1> USE DEF PopRecord, Return, counters, resources, tokens
<1>0. LeaseTypeOK
  BY DEF LeaseInv
<1>1. LeaseTypeOK'
  BY <1>0 DEF LeaseTypeOK, Moves, Outcomes
<1>2. InUsage' = InUsage /\ InIo' = InIo /\ InRecheck' = InRecheck /\ Users' = Users
  BY <1>0, SameUsers
<1>3. CountersExact' /\ IoIsExclusive'
  BY <1>2 DEF LeaseInv, CountersExact, IoIsExclusive
<1>4. lease_state = "closed"
  BY DEF LeaseInv, CloserInv
<1>5. EntryInv' /\ CloserInv' /\ ReleaseInv' /\ ClosersAgree'
  BY <1>0, <1>2, <1>4 DEF LeaseTypeOK, LeaseInv, EntryInv, CloserInv, ReleaseInv, ClosersAgree, Moves
<1> QED
  BY <1>1, <1>3, <1>5 DEF LeaseInv

----------------------------------------------------------------------------
(* The theorems.                                                           *)

LEMMA NextInv == LeaseInv /\ [LeaseNext]_leaseVars => LeaseInv'
<1> SUFFICES ASSUME LeaseInv, [LeaseNext]_leaseVars PROVE LeaseInv'
  OBVIOUS
<1>1. CASE UNCHANGED leaseVars
  BY <1>1 DEF leaseVars, record, counters, resources, tokens, threads, LeaseInv, LeaseTypeOK,
     CountersExact, IoIsExclusive, EntryInv, CloserInv, ReleaseInv, ClosersAgree,
     InUsage, InIo, InRecheck, Users
<1>2. CASE Done
  BY <1>1, <1>2 DEF Done
<1>3. ASSUME NEW t \in Threads, LeaseStep(t) PROVE LeaseInv'
  <2>1. CASE \E call \in Entering : LookUp(t, call) \/ LookUpGone(t, call)
    BY <2>1, LookUpInv, LookUpGoneInv
  <2>2. CASE CommitUsage(t) \/ CommitIo(t) \/ CancelToken(t)
    BY <2>2, TokenInv
  <2>3. CASE Continue(t)
    BY <2>3, EnterUsageInv, LeaveUsageInv, RefuseInv, EnterIoInv, LeaveIoInv,
       BeginRecheckInv, MeasureInv, LeaveRecheckInv, CloseWaitInv, CloseReturnInv,
       ReleaseOneInv, FinishCloseInv, PopRecordInv DEF Continue
  <2> QED
    BY <1>3, <2>1, <2>2, <2>3 DEF LeaseStep
<1> QED
  BY <1>1, <1>2, <1>3 DEF LeaseNext

\* The inductive invariant of the lease authority: the counters the closers wait
\* for are exact, there is one active closer, and it frees the resources only
\* when nobody is inside.
THEOREM LeaseInductive == LeaseSpec => []LeaseInv
BY LeaseInitInv, NextInv, PTL DEF LeaseSpec

\* The fields of the record and the places of the threads keep their types.
THEOREM LeaseTypeCorrect == LeaseSpec => []LeaseTypeOK
<1>1. LeaseInv => LeaseTypeOK
  BY DEF LeaseInv
<1> QED
  BY <1>1, LeaseInductive, PTL

\* No resource of the lease is freed while any thread is inside a usage, an io
\* session or a recheck, for any number of threads.
THEOREM NeverFreedWhileUsed == LeaseSpec => []HeldWhileUsed
<1>1. LeaseInv => HeldWhileUsed
  BY DEF LeaseInv, ReleaseInv, HeldWhileUsed
<1> QED
  BY <1>1, LeaseInductive, PTL

\* The file position of the held source handle belongs to one io session.
THEOREM OneIoSession == LeaseSpec => []IoIsExclusive
<1>1. LeaseInv => IoIsExclusive
  BY DEF LeaseInv
<1> QED
  BY <1>1, LeaseInductive, PTL

\* All closers return the diagnostics of the one release, after it is complete.
THEOREM AllClosersAgree == LeaseSpec => []ClosersAgree
<1>1. LeaseInv => ClosersAgree
  BY DEF LeaseInv
<1> QED
  BY <1>1, LeaseInductive, PTL

----------------------------------------------------------------------------
(* The lease implements LeaseLifetime.                                     *)

LEMMA StepImplementsLifetime ==
    ASSUME LeaseInv, LeaseInv', [LeaseNext]_leaseVars
    PROVE  [Lifetime!Next]_Lifetime!vars
<1> USE DEF Lifetime!Next, Lifetime!vars, record, counters, resources, tokens, threads
<1>0. LeaseTypeOK /\ LeaseTypeOK'
  BY DEF LeaseInv
<1>1. CASE UNCHANGED leaseVars \/ Done
  BY <1>1 DEF leaseVars, Done, Phase, Users, InUsage, InIo, InRecheck
<1>2. ASSUME NEW t \in Threads,
             \/ \E call \in Entering : LookUp(t, call) \/ LookUpGone(t, call)
             \/ RefuseUsage(t) \/ RefuseIo(t) \/ RefuseRecheck(t)
             \/ MeasureRecheck(t) \/ WithholdRecheck(t)
             \/ CloseQuiet(t) \/ CloseLater(t) \/ CloseReturn(t) \/ PopRecord(t)
      PROVE  UNCHANGED Lifetime!vars
  <2>1. UNCHANGED <<Users, commit_sequence, released, lease_state>>
    BY <1>0, <1>2, SameUsers DEF LookUp, LookUpGone, RefuseUsage, RefuseIo, RefuseRecheck,
       MeasureRecheck, WithholdRecheck, CloseQuiet, CloseLater, CloseReturn, PopRecord,
       Return, Moves, LeaseTypeOK, Users, InUsage, InIo, InRecheck
  <2> QED
    BY <2>1, SMTT(30) DEF Phase
<1>3. ASSUME NEW t \in Threads, EnterUsage(t) \/ EnterIo(t) \/ BeginRecheck(t)
      PROVE  Lifetime!Enter(t)
  <2> USE DEF EnterUsage, UsageAvailable, EnterIo, IoAvailable, BeginRecheck
  <2>1. Phase = "open" /\ Phase' = "open" /\ commit_sequence' = commit_sequence
    BY <1>3 DEF Phase, LeaseInv, ReleaseInv
  <2>2. Users' = Users \cup {t}
    <3>1. CASE EnterUsage(t)
      <4>1. InUsage' = InUsage \cup {t} /\ InIo' = InIo /\ InRecheck' = InRecheck
        BY <1>0, <3>1 DEF Moves, LeaseTypeOK, InUsage, InIo, InRecheck
      <4> QED
        BY <4>1 DEF Users
    <3>2. CASE EnterIo(t)
      <4>1. InUsage' = InUsage /\ InIo' = InIo \cup {t} /\ InRecheck' = InRecheck
        BY <1>0, <3>2 DEF Moves, LeaseTypeOK, InUsage, InIo, InRecheck
      <4> QED
        BY <4>1 DEF Users
    <3>3. CASE BeginRecheck(t)
      <4>1. InUsage' = InUsage /\ InIo' = InIo /\ InRecheck' = InRecheck \cup {t}
        BY <1>0, <3>3 DEF Moves, LeaseTypeOK, InUsage, InIo, InRecheck
      <4> QED
        BY <4>1 DEF Users
    <3> QED
      BY <1>3, <3>1, <3>2, <3>3
  <2> QED
    BY <2>1, <2>2 DEF Lifetime!Enter
<1>4. ASSUME NEW t \in Threads, LeaveUsage(t) \/ LeaveIo(t) \/ LeaveRecheck(t)
      PROVE  Lifetime!Leave(t) \/ UNCHANGED Lifetime!vars
  BY <1>0, <1>4, ZenonT(40) DEF LeaveUsage, LeaveIo, LeaveRecheck, Moves, LeaseTypeOK,
     Phase, Users, InUsage, InIo, InRecheck, Lifetime!Leave
<1>5. ASSUME NEW t \in Threads, CommitUsage(t) \/ CommitIo(t) \/ PublishRecheck(t)
      PROVE  Lifetime!Grant(t)
  BY <1>0, <1>5 DEF CommitUsage, CommitIo, PublishRecheck, BeginCommit, Moves, LeaseTypeOK,
     Phase, Users, InUsage, InIo, InRecheck, LeaseInv, ReleaseInv, Lifetime!Grant
<1>6. ASSUME NEW t \in Threads, CloseFirst(t) \/ CloseDrained(t) \/ FinishClose(t)
      PROVE  Lifetime!Drain \/ UNCHANGED Lifetime!vars
  BY <1>0, <1>6 DEF FirstCloser, CloseFirst, CloseDrained, Drained, FinishClose, Moves, LeaseTypeOK,
     Phase, Users, InUsage, InIo, InRecheck, LeaseInv, ReleaseInv, CloserInv, Lifetime!Drain
<1>7. ASSUME NEW t \in Threads, ReleaseOne(t)
      PROVE  Lifetime!Free \/ UNCHANGED Lifetime!vars
  BY <1>0, <1>7 DEF ReleaseOne, Moves, LeaseTypeOK,
     Phase, Users, InUsage, InIo, InRecheck, LeaseInv, ReleaseInv, CloserInv, Lifetime!Free
<1>8. ASSUME NEW t \in Threads, CancelToken(t)
      PROVE  UNCHANGED Lifetime!vars
  BY <1>8 DEF CancelToken, Phase, Users, InUsage, InIo, InRecheck
<1> QED
  BY <1>1, <1>2, <1>3, <1>4, <1>5, <1>6, <1>7, <1>8 DEF LeaseNext, LeaseStep, Continue

\* Every behaviour of the lease authority is, seen through its users and the
\* release of its resources, one of LeaseLifetime: nobody enters or commits once
\* it drains, and it is freed once, after the last user has left.
THEOREM ImplementsLifetimeSafety == LeaseSpec => Lifetime!Safety
<1>1. LeaseInit => Lifetime!Init
  BY DEF LeaseInit, Lifetime!Init, Phase, Users, InUsage, InIo, InRecheck
<1>2. LeaseInv /\ LeaseInv' /\ [LeaseNext]_leaseVars => [Lifetime!Next]_Lifetime!vars
  BY StepImplementsLifetime
<1> QED
  BY <1>1, <1>2, LeaseInductive, PTL DEF LeaseSpec, Lifetime!Safety
=============================================================================
