------------------------- MODULE SourceConfirmation -------------------------
(***************************************************************************)
(* confirm_source under a close-gate lease: the path is checked, the       *)
(* recording is probed, its streams are selected, it is hashed block by    *)
(* block, and what was found is written to create-only files in the        *)
(* project.  Between the steps the snapshot of the held handle is compared *)
(* with S0 of the gate.                                                    *)
(*                                                                         *)
(* The receipt and the identity evidence lie in a directory named by the   *)
(* identity, that is by the file name and the contents; their bytes also   *)
(* name the run and the lease.                                             *)
(***************************************************************************)
EXTENDS CloseGate, Sequences

CONSTANT MaxRuns    \* bound on the runs of one history

ASSUME RunsAssumption == MaxRuns \in Nat

VARIABLES
    state,          \* SourceState of each run
    run,            \* the number of each process' run, 0 before the first
    runs,           \* runs started so far
    digest,         \* the contents of the blocks hashed so far
    probed,         \* result of the probe: ok or ambiguous
    ambiguous,      \* the files whose streams the policy cannot select from
    media,          \* the ambiguous probes on disk, by project
    assigned,       \* the explicit stream assignments, by project
    receipts,       \* hash receipts
    evidence        \* identity evidence

confVars == <<state, run, runs, digest, probed, ambiguous, media, assigned, receipts, evidence>>

Blocks == 2         \* blocks of a recording

-----------------------------------------------------------------------------
SourceStates ==
    {"closed", "probing", "probed", "hashing", "hash_completed", "confirming_identity",
     "confirmed", "invalidated", "disappeared", "unsupported", "cancelled", "failed"}

FailureTargets == {"invalidated", "failed", "cancelled"}

(* The graph of the source states.                                         *)
Allowed ==
    [closed |-> {"probing", "disappeared"} \cup FailureTargets,
     probing |-> {"probed", "unsupported"} \cup FailureTargets,
     probed |-> {"hashing", "unsupported"} \cup FailureTargets,
     hashing |-> {"hash_completed"} \cup FailureTargets,
     hash_completed |-> {"confirming_identity"} \cup FailureTargets,
     confirming_identity |-> {"confirmed", "disappeared"} \cup FailureTargets]

(* SourceStateMachine.transition; another step is an error of the program. *)
transition(p, target) ==
    /\ target \in Allowed[state[p]]
    /\ state' = [state EXCEPT ![p] = target]

-----------------------------------------------------------------------------
(* Results: the run leaves its usage of the lease and the lease is closed. *)
Finish(p, target) ==
    /\ transition(p, target)
    /\ Goto(p, "closing")
    /\ UNCHANGED <<owner, gateVars, run, runs, digest, probed, ambiguous, media, assigned,
                   receipts, evidence>>

(* One step of the confirmation, which meets a cancellation like one of    *)
(* the gate.                                                               *)
Attempt(p, from, natural, extra, Failed(_), Good) ==
    /\ pc[p] = from
    /\ \E answer \in Answers(natural) \cup IF faults > 0 THEN extra ELSE {} :
        /\ Spend(answer, natural)
        /\ \/ cancelled[p] /\ Finish(p, "cancelled")
           \/ ~cancelled[p] /\ answer = "ok" /\ Good
           \/ answer # "ok" /\ Finish(p, Failed(answer))
    /\ UNCHANGED <<cancelled, diskVars>>

Only(p, label, kept) == Goto(p, label) /\ UNCHANGED <<owner, gateVars, kept>>

\* Mutant: the recheck looks at the instance and not at its size and times.
recheck_InstanceOnly(p) == IF handle[p] = s0[p].file THEN "ok" ELSE "changed"

(* The handle of the lease against S0; the path, reopened, against S0.     *)
recheck(p) == IF Unchanged(measure_snapshot(handle[p]), s0[p]) THEN "ok" ELSE "changed"

revalidate_lease_path(p) ==
    IF bound[at[p].path] = Missing THEN "missing"
    ELSE IF Unchanged(measure_snapshot(bound[at[p].path]), s0[p]) THEN "ok" ELSE "changed"

SourceFailed(code) ==
    CASE code = "missing" -> "disappeared"
      [] code = "changed" -> "invalidated"
      [] OTHER -> "failed"

-----------------------------------------------------------------------------
(* Publishing: a temporary file, the permit, a rename that never replaces, *)
(* and a read of what is there.  "denied" fails before the rename, "error" *)
(* after it.                                                               *)

(* The directory of an identity: project, file name, contents.             *)
Identity(p) == [project |-> at[p].project, path |-> at[p].path, digest |-> digest[p]]
Record(p) == [identity |-> Identity(p), run |-> run[p]]

AtTarget(records, p) == {r \in records : r.identity = Identity(p)}

publish_initial(p, records) ==
    IF AtTarget(records, p) \subseteq {Record(p)} THEN "ok" ELSE "conflict"

-----------------------------------------------------------------------------
(* confirm_source and _confirm_in_usage, in their order.                   *)

confirm_source(p) ==
    /\ pc[p] = "leased"
    /\ IF cancelled[p] THEN Finish(p, "cancelled")
       ELSE Only(p, "path1", confVars)
    /\ UNCHANGED <<cancelled, faults, diskVars>>

PathBeforeProbe(p) ==
    Attempt(p, "path1", revalidate_lease_path(p), Unsafe, SourceFailed,
            /\ transition(p, "probing")
            /\ Only(p, "probe", <<run, runs, digest, probed, ambiguous, media, assigned,
                                  receipts, evidence>>))

probe_failure_result(code) ==
    CASE code = "changed" -> "invalidated"
      [] code = "unsupported" -> "unsupported"
      [] OTHER -> "failed"

(* The probe takes a snapshot before and after its program runs.           *)
RunProbe(p) ==
    Attempt(p, "probe", recheck(p), {"unsupported"}, probe_failure_result,
            /\ probed' = [probed EXCEPT ![p] =
                              IF handle[p] \in ambiguous THEN "ambiguous" ELSE "ok"]
            /\ Only(p, "s3", <<state, run, runs, digest, ambiguous, media, assigned,
                               receipts, evidence>>))

RecheckS3(p) ==
    Attempt(p, "s3", recheck(p), {}, SourceFailed, Only(p, "media", confVars))

(* The profile has a name of its own in every run.                         *)
PublishMedia(p) ==
    Attempt(p, "media", "ok", {}, LAMBDA code : "failed",
            /\ media' = media \cup IF probed[p] = "ambiguous"
                                   THEN {<<at[p].project, s0[p]>>} ELSE {}
            /\ Only(p, "select", <<state, run, runs, digest, probed, ambiguous, assigned,
                                   receipts, evidence>>))

(* An assignment counts for the snapshot it was made for and no other.     *)
validate_stream_assignment(p, m) == m = <<at[p].project, s0[p]>>

(* A run is started with one of the project's assignments or with none;    *)
(* none may override a choice the policy makes.                            *)
selection_from_media(p) ==
    LET given == {m \in assigned : m[1] = at[p].project} IN
    IF probed[p] = "ok" THEN {"ok"} \cup {"invalid" : m \in given}
    ELSE {"required"} \cup
         {IF validate_stream_assignment(p, m) THEN "ok" ELSE "stale" : m \in given}

SelectStreams(p) ==
    \E natural \in selection_from_media(p) :
        Attempt(p, "select", natural, {},
                LAMBDA code : IF code = "required" THEN "unsupported" ELSE "failed",
                /\ transition(p, "probed")
                /\ Only(p, "hash", <<run, runs, digest, probed, ambiguous, media, assigned,
                                     receipts, evidence>>))

(* One block of the handle is read and added to the digest.                *)
HashBlock(p) ==
    Attempt(p, "hash", "ok", {}, LAMBDA code : "failed",
            /\ digest' = [digest EXCEPT ![p] = Append(@, version[handle[p]])]
            /\ state' = [state EXCEPT ![p] = "hashing"]
            /\ Only(p, IF Len(digest[p]) + 1 = Blocks THEN "eof" ELSE "hash",
                    <<run, runs, probed, ambiguous, media, assigned, receipts, evidence>>))

(* End of file and S4; only then is there a completed hash.                *)
HashCompleted(p) ==
    Attempt(p, "eof", recheck(p), {}, SourceFailed,
            /\ transition(p, "hash_completed")
            /\ Only(p, "receipt", <<run, runs, digest, probed, ambiguous, media, assigned,
                                    receipts, evidence>>))

publish_hash_receipt(p) ==
    /\ Attempt(p, "receipt", publish_initial(p, receipts), {}, LAMBDA code : "failed",
               /\ transition(p, "confirming_identity")
               /\ receipts' = receipts \cup {Record(p)}
               /\ Only(p, "s5", <<run, runs, digest, probed, ambiguous, media, assigned,
                                  evidence>>))

(* The same, and the rename took effect before the failure.                *)
ReceiptLeft(p) ==
    /\ pc[p] = "receipt" /\ ~cancelled[p] /\ faults > 0
    /\ publish_initial(p, receipts) = "ok"
    /\ faults' = faults - 1
    /\ receipts' = receipts \cup {Record(p)}
    /\ transition(p, "failed")
    /\ Goto(p, "closing")
    /\ UNCHANGED <<owner, cancelled, gateVars, diskVars, run, runs, digest, probed, ambiguous,
                   media, assigned, evidence>>

RecheckS5(p) ==
    Attempt(p, "s5", recheck(p), {}, SourceFailed, Only(p, "path2", confVars))

PathBeforeCommit(p) ==
    Attempt(p, "path2", revalidate_lease_path(p), Unsafe, SourceFailed,
            Only(p, "evidence", confVars))

PublishEvidence(p) ==
    Attempt(p, "evidence", publish_initial(p, evidence), {}, LAMBDA code : "failed",
            /\ evidence' = evidence \cup {Record(p)}
            /\ Only(p, "commit", <<state, run, runs, digest, probed, ambiguous, media, assigned,
                                   receipts>>))

(* The commit of the lease usage issues the confirmed source.              *)
CommitSource(p) ==
    /\ pc[p] = "commit"
    /\ IF cancelled[p] THEN Finish(p, "cancelled")
       ELSE /\ transition(p, "confirmed")
            /\ Only(p, "store", <<run, runs, digest, probed, ambiguous, media, assigned,
                                  receipts, evidence>>)
    /\ UNCHANGED <<cancelled, faults, diskVars>>

(* The user assigns streams to an ambiguous probe; create-only per probe.  *)
create_stream_assignment ==
    \E m \in media \ assigned :
        /\ assigned' = assigned \cup {m}
        /\ UNCHANGED <<lockVars, diskVars, gateVars, state, run, runs, digest, probed, ambiguous,
                       media, receipts, evidence>>

ConfirmInUsage(p) ==
    \/ confirm_source(p) \/ PathBeforeProbe(p) \/ RunProbe(p) \/ RecheckS3(p) \/ PublishMedia(p)
    \/ SelectStreams(p) \/ HashBlock(p) \/ HashCompleted(p) \/ publish_hash_receipt(p)
    \/ ReceiptLeft(p) \/ RecheckS5(p) \/ PathBeforeCommit(p) \/ PublishEvidence(p)
    \/ CommitSource(p)
=============================================================================
