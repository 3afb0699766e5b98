----------------------------- MODULE Finalizer ------------------------------
(***************************************************************************)
(* The sidecar finalizer of phase 2 (phase2/finalizer): finalize and       *)
(* recover for one recording, run by several threads or, one after the     *)
(* other, by several processes on the same project directory.              *)
(*                                                                         *)
(* On disk, and kept by a crash: the sidecar at its create-only target,    *)
(* one immutable intent per finalizer run, one temp file per run beside    *)
(* the target, one immutable receipt per recording and one state file per  *)
(* run.  In memory, and lost by a crash: the lease with its project lock   *)
(* and its ConfirmedSource, the target lock and every attempt.             *)
(*                                                                         *)
(* An intent names the evidence of the ConfirmedSource it was made under,  *)
(* and that evidence names the lease (lease_id, lease_epoch, the runs of   *)
(* the confirmation and of the hash).  Nothing but equality is ever asked  *)
(* of it, so the model keeps the runs whose intent names the evidence of   *)
(* the lease that is open now.                                             *)
(*                                                                         *)
(* A generation is an intent: its run and the values chosen once for it    *)
(* (finalized_at, the target generation).  Every sidecar, receipt and      *)
(* state built from an intent is identified by it.  Each action is one     *)
(* file operation of the code with the tests that lead to it; between two  *)
(* of them any other attempt may act, the token may be cancelled, the      *)
(* lease may be asked to close, or everything may crash.                   *)
(***************************************************************************)
EXTENDS Naturals, FiniteSets

CONSTANTS
    Procs,          \* threads that run attempts
    Runs,           \* finalizer run ids
    NoRun,          \* recovery without a finalizer run id
    Missing,        \* no file
    Foreign,        \* a file that is not a sidecar of this recording
    JournalInputs,  \* whether recovery is given the journal: a set of Booleans
    MaxAttempts,    \* bound: attempts altogether
    MaxCrashes,     \* bound: crashes
    MaxCancels,     \* bound: cancelled attempts
    MaxFaults,      \* bound: file operations that fail
    MaxLost,        \* bound: project artefacts lost or damaged
    MaxForeign      \* bound: files other programs put at the target

NoGeneration == 0
Generation == [run : Runs, number : Nat \ {NoGeneration}]

ASSUME ProcsAssumption == Procs \cap {"free", "lease"} = {}
ASSUME RunsAssumption == NoRun \notin Runs /\ Runs # {}
ASSUME FilesAssumption == Missing \notin Generation /\ Foreign \notin Generation /\ Missing # Foreign
ASSUME JournalAssumption == JournalInputs \subseteq BOOLEAN
ASSUME BoundsAssumption ==
    {MaxAttempts, MaxCrashes, MaxCancels, MaxFaults, MaxLost, MaxForeign} \subseteq Nat

Jobs ==
    [kind : {"finalize"}, run : Runs, journal : {TRUE}]
        \cup [kind : {"recover", "recover_offline"}, run : Runs \cup {NoRun}, journal : JournalInputs]


\* "f_usage": between two usages; "f_revoked": and the lease was closed meanwhile.
Outside == {"f_usage", "f_revoked"}
Finalizing == Outside \cup
              {"f_lock", "f_discover", "f_intent", "f_prepare", "f_construct", "f_validate",
               "f_temp", "f_commit", "f_move", "f_verify", "f_receipt", "f_state"}
Recovering == {"r_lock", "r_inspect", "r_receipt", "r_state"}
Results == {"none", "finalized", "cancelled", "rejected", "conflict", "raised"}

VARIABLES
    sidecar,        \* the file at the target path
    intents,        \* number of the persisted intent of each run
    temps,          \* runs whose temp file lies beside the target
    receipt,        \* the generation the receipt of the recording names
    states,         \* the finalizer state of each run
    project_lock,   \* "free", "lease" or the thread of an offline recovery
    closing,        \* the lease was asked to close
    confirmed,      \* runs whose intent names the evidence of the lease that is open
    target_lock,    \* "free" or a thread
    pc, job,        \* where each thread is, and its attempt
    mine,           \* number of the generation the attempt builds or recognised
    found,          \* it found an intent of its run on disk
    cancelled,      \* threads whose attempt was cancelled
    moved,          \* threads whose own rename put the sidecar in place
    result,         \* what each thread's last attempt returned
    acknowledged,   \* generations some attempt returned as Finalized
    attempts, crashes, cancels, faults, lost, foreign, numbers  \* counts for the bounds

disk == <<sidecar, intents, temps, receipt, states>>
locks == <<project_lock, closing, confirmed, target_lock>>
attempt == <<pc, job, mine, found, cancelled, moved, result>>
counts == <<attempts, crashes, cancels, faults, lost, foreign, numbers>>
vars == <<disk, locks, attempt, acknowledged, counts>>

NoState == [intent |-> NoGeneration, sidecar |-> NoGeneration, journal |-> "none"]
States == [intent : Nat, sidecar : Nat, journal : {"none", "sha256", "not_available"}]

TypeOK ==
    /\ sidecar \in Generation \cup {Missing, Foreign}
    /\ intents \in [Runs -> Nat]
    /\ temps \subseteq Runs
    /\ receipt \in Generation \cup {Missing, Foreign}
    /\ states \in [Runs -> States]
    /\ project_lock \in {"free", "lease"} \cup Procs
    /\ closing \in BOOLEAN
    /\ confirmed \subseteq Runs
    /\ target_lock \in {"free"} \cup Procs
    /\ pc \in [Procs -> {"idle"} \cup Finalizing \cup Recovering]
    /\ job \in [Procs -> Jobs]
    /\ mine \in [Procs -> Nat]
    /\ found \in [Procs -> BOOLEAN]
    /\ cancelled \subseteq Procs
    /\ moved \subseteq Procs
    /\ result \in [Procs -> Results]
    /\ acknowledged \subseteq Generation
    /\ attempts \in 0 .. MaxAttempts
    /\ crashes \in 0 .. MaxCrashes
    /\ cancels \in 0 .. MaxCancels
    /\ faults \in 0 .. MaxFaults
    /\ lost \in 0 .. MaxLost
    /\ foreign \in 0 .. MaxForeign
    /\ numbers \in Nat

Init ==
    /\ sidecar = Missing
    /\ intents = [r \in Runs |-> NoGeneration]
    /\ temps = {}
    /\ receipt = Missing
    /\ states = [r \in Runs |-> NoState]
    /\ project_lock = "free"
    /\ closing = FALSE
    /\ confirmed = {}
    /\ target_lock = "free"
    /\ pc = [p \in Procs |-> "idle"]
    /\ job \in [Procs -> {CHOOSE j \in Jobs : j.kind = "finalize"}]
    /\ mine = [p \in Procs |-> NoGeneration]
    /\ found = [p \in Procs |-> FALSE]
    /\ cancelled = {}
    /\ moved = {}
    /\ result = [p \in Procs |-> "none"]
    /\ acknowledged = {}
    /\ attempts = 0 /\ crashes = 0 /\ cancels = 0 /\ faults = 0
    /\ lost = 0 /\ foreign = 0 /\ numbers = 0

----------------------------------------------------------------------------
(* Helpers.                                                                *)

Run(p) == job[p].run

\* The generation of p: what its intent builds, the same bytes on every retry,
\* or the one a recovery recognised at the target.
Mine(p) == [run |-> Run(p), number |-> mine[p]]

Goto(p, l) == pc' = [pc EXCEPT ![p] = l]

\* The thread holds the lease's project lock for the whole attempt, except for
\* an offline recovery, which has a project lock of its own.
InUsage == {p \in Procs : pc[p] \notin {"idle"} \cup Outside /\ job[p].kind # "recover_offline"}

\* A file operation fails for a reason of its own; the code reports it.
Fault == faults < MaxFaults /\ faults' = faults + 1
NoFault == UNCHANGED faults

\* The local variables of the attempts of ps end with them.
Forget(ps) ==
    /\ mine' = [p \in Procs |-> IF p \in ps THEN NoGeneration ELSE mine[p]]
    /\ found' = [p \in Procs |-> IF p \in ps THEN FALSE ELSE found[p]]
    /\ cancelled' = cancelled \ ps

\* Mutant: a cancelled attempt returns without reaching the finally block.
Return_LeaksOnCancel(p, r) ==
    /\ Goto(p, "idle")
    /\ result' = [result EXCEPT ![p] = r]
    /\ target_lock' = IF target_lock = p /\ r # "cancelled" THEN "free" ELSE target_lock
    /\ project_lock' = IF project_lock = p THEN "free" ELSE project_lock
    /\ acknowledged' = IF r = "finalized" THEN acknowledged \cup {Mine(p)} ELSE acknowledged
    /\ Forget({p})
    /\ UNCHANGED <<closing, confirmed, job, moved>>

\* Every return path releases what the attempt holds (the finally blocks).
Return(p, r) ==
    /\ Goto(p, "idle")
    /\ result' = [result EXCEPT ![p] = r]
    /\ target_lock' = IF target_lock = p THEN "free" ELSE target_lock
    /\ project_lock' = IF project_lock = p THEN "free" ELSE project_lock
    /\ acknowledged' = IF r = "finalized" THEN acknowledged \cup {Mine(p)} ELSE acknowledged
    /\ Forget({p})
    /\ UNCHANGED <<closing, confirmed, job, moved>>

\* The attempt goes on at l.
Proceed(p, l) ==
    /\ Goto(p, l)
    /\ UNCHANGED <<locks, job, mine, found, cancelled, moved, result, acknowledged>>

unbounded == <<attempts, crashes, cancels, lost, foreign, numbers>>

\* store_state of the run's state file by p: a publish or a revision CAS under
\* the project lock.  It stores nothing when the token is cancelled or the
\* operation fails, and the caller goes on all the same, so an operation that
\* takes effect and reports an error is like one that does not report it.
StoreState(p, intent, committed, journal) ==
    \/ /\ p \notin cancelled
       /\ states' = [states EXCEPT ![Run(p)] =
            [intent |-> intent, sidecar |-> committed, journal |-> journal]]
       /\ NoFault
    \/ /\ p \in cancelled \/ faults < MaxFaults
       /\ UNCHANGED states
       /\ faults' = IF p \in cancelled THEN faults ELSE faults + 1

----------------------------------------------------------------------------
(* The lease of the close gate, as the finalizer sees it.                  *)

\* Opened and its source confirmed.  The evidence of the ConfirmedSource is new, so no
\* intent that is on disk names it.
OpenLease ==
    /\ project_lock = "free"
    /\ project_lock' = "lease"
    /\ closing' = FALSE
    /\ UNCHANGED <<disk, confirmed, target_lock, attempt, acknowledged, counts>>

RequestClose ==
    /\ project_lock = "lease"
    /\ ~closing
    /\ closing' = TRUE
    /\ UNCHANGED <<disk, project_lock, confirmed, target_lock, attempt, acknowledged, counts>>

CloseLease ==
    /\ project_lock = "lease"
    /\ closing
    /\ InUsage = {}
    /\ project_lock' = "free"
    /\ closing' = FALSE
    /\ confirmed' = {}
    /\ pc' = [p \in Procs |-> IF pc[p] = "f_usage" THEN "f_revoked" ELSE pc[p]]
    /\ UNCHANGED <<disk, target_lock, job, mine, found, cancelled, moved, result,
                   acknowledged, counts>>

----------------------------------------------------------------------------
(* Beginning an attempt.                                                   *)

NewAttempt(p, j) ==
    /\ pc[p] = "idle"
    /\ attempts < MaxAttempts
    /\ attempts' = attempts + 1
    /\ job' = [job EXCEPT ![p] = j]
    /\ moved' = moved \ {p}
    /\ UNCHANGED <<disk, closing, confirmed, target_lock, mine, found, cancelled, acknowledged,
                   crashes, cancels, faults, lost, foreign, numbers>>

\* finalize and recover with a ConfirmedSource enter a usage of its lease.
Begin(p, j) ==
    /\ j.kind \in {"finalize", "recover"}
    /\ project_lock = "lease"
    /\ ~closing
    /\ NewAttempt(p, j)
    /\ Goto(p, IF j.kind = "finalize" THEN "f_lock" ELSE "r_lock")
    /\ result' = [result EXCEPT ![p] = "none"]
    /\ UNCHANGED project_lock

\* recover without a ConfirmedSource takes the project lock itself.
BeginOffline(p, j) ==
    /\ j.kind = "recover_offline"
    /\ project_lock = "free"
    /\ NewAttempt(p, j)
    /\ project_lock' = p
    /\ Goto(p, "r_lock")
    /\ result' = [result EXCEPT ![p] = "none"]

\* The lease is closed or closing, or the project lock is busy: fail fast.
Refuse(p, j) ==
    /\ IF j.kind = "recover_offline" THEN project_lock # "free"
                                     ELSE project_lock # "lease" \/ closing
    /\ NewAttempt(p, j)
    /\ result' = [result EXCEPT ![p] = IF j.kind = "recover" THEN "conflict" ELSE "rejected"]
    /\ UNCHANGED <<pc, project_lock>>

----------------------------------------------------------------------------
(* finalize, up to the sidecar.                                            *)

\* acquire_target_lock with a timeout of zero, in finalize and in recover.
AcquireTarget(p) ==
    /\ pc[p] \in {"f_lock", "r_lock"}
    /\ p \notin cancelled
    /\ target_lock = "free"
    /\ target_lock' = p
    /\ Goto(p, IF pc[p] = "f_lock" THEN "f_discover" ELSE "r_inspect")
    /\ UNCHANGED <<disk, project_lock, closing, confirmed, job, mine, found, cancelled, moved,
                   result, acknowledged, counts>>

TargetBusy(p) ==
    /\ pc[p] \in {"f_lock", "r_lock"}
    /\ target_lock # "free" \/ p \in cancelled
    /\ Return(p, IF p \in cancelled THEN "cancelled" ELSE "rejected")
    /\ UNCHANGED <<disk, counts>>

\* The state is stored before there is an intent.
DiscoverState(p) ==
    /\ pc[p] = "f_discover"
    /\ StoreState(p, NoGeneration, NoGeneration, "sha256")
    /\ Proceed(p, "f_intent")
    /\ UNCHANGED <<sidecar, intents, temps, receipt, unbounded>>

\* Mutant: a retry chooses new values instead of those of the persisted intent.
LoadIntent_Fresh(p) ==
    /\ pc[p] = "f_intent"
    /\ intents[Run(p)] # NoGeneration
    /\ Run(p) \in confirmed
    /\ mine' = [mine EXCEPT ![p] = numbers + 1]
    /\ found' = [found EXCEPT ![p] = TRUE]
    /\ Goto(p, "f_prepare")
    /\ UNCHANGED <<disk, locks, job, cancelled, moved, result, acknowledged, counts>>

\* _load_or_create_intent: the intent of the run, if there is one and it names the
\* evidence at hand ...
LoadIntent(p) ==
    /\ pc[p] = "f_intent"
    /\ intents[Run(p)] # NoGeneration
    /\ Run(p) \in confirmed
    /\ mine' = [mine EXCEPT ![p] = intents[Run(p)]]
    /\ found' = [found EXCEPT ![p] = TRUE]
    /\ Goto(p, "f_prepare")
    /\ UNCHANGED <<disk, locks, job, cancelled, moved, result, acknowledged, counts>>

\* ... and one of an earlier lease is refused: its evidence is another one, though
\* the recording and the journal are the same.
IntentRefused(p) ==
    /\ pc[p] = "f_intent"
    /\ intents[Run(p)] # NoGeneration
    /\ \/ Run(p) \notin confirmed /\ NoFault /\ Return(p, "conflict")
       \/ Fault /\ Return(p, "rejected")         \* it cannot be read
    /\ UNCHANGED <<disk, unbounded>>

\* Without one, a new intent is published, with the values every retry will reuse.
NewIntent(p) ==
    /\ pc[p] = "f_intent"
    /\ intents[Run(p)] = NoGeneration
    /\ p \notin cancelled
    /\ numbers' = numbers + 1
    /\ intents' = [intents EXCEPT ![Run(p)] = numbers + 1]
    /\ confirmed' = confirmed \cup {Run(p)}
    /\ UNCHANGED <<sidecar, temps, receipt, states, project_lock, closing, job, moved,
                   attempts, crashes, cancels, lost, foreign>>

CreateIntent(p) ==
    /\ NewIntent(p)
    /\ mine' = [mine EXCEPT ![p] = numbers + 1]
    /\ Goto(p, "f_prepare")
    /\ UNCHANGED <<target_lock, found, cancelled, result, acknowledged, faults>>

\* The rename took effect and an error was reported all the same.
IntentLeft(p) ==
    /\ NewIntent(p)
    /\ Fault
    /\ Return(p, "conflict")

NoIntent(p) ==
    /\ pc[p] = "f_intent"
    /\ intents[Run(p)] = NoGeneration
    /\ \/ p \in cancelled /\ NoFault /\ Return(p, "cancelled")
       \/ \E r \in {"conflict", "rejected"} : Fault /\ Return(p, r)
    /\ UNCHANGED <<disk, unbounded>>

\* A retry first deletes the temp file a crash may have left, its own only; then
\* the state is stored with the intent.
Prepare(p) ==
    /\ pc[p] = "f_prepare"
    /\ p \notin cancelled
    /\ temps' = IF found[p] THEN temps \ {Run(p)} ELSE temps
    /\ StoreState(p, mine[p], NoGeneration, "sha256")
    /\ Proceed(p, "f_construct")
    /\ UNCHANGED <<sidecar, intents, receipt, unbounded>>

PrepareFails(p) ==
    /\ pc[p] = "f_prepare"
    /\ \/ p \in cancelled /\ NoFault /\ Return(p, "cancelled")
       \/ p \notin cancelled /\ found[p] /\ Fault /\ Return(p, "rejected")
    /\ UNCHANGED <<disk, unbounded>>

\* build_sidecar: a function of the journal and the intent.
Construct(p) ==
    /\ pc[p] = "f_construct"
    /\ \/ p \in cancelled /\ Return(p, "cancelled")
       \/ p \notin cancelled /\ Proceed(p, "f_validate")
    /\ UNCHANGED <<disk, counts>>

\* validate_target: an identical sidecar is a retry of a commit that happened,
\* any other file there is a conflict, and nothing there is to be published.
ValidateTarget(p) ==
    /\ pc[p] = "f_validate"
    /\ \/ sidecar = Mine(p) /\ NoFault /\ Proceed(p, "f_receipt")
       \/ sidecar = Missing /\ NoFault /\ Proceed(p, "f_temp")
       \/ sidecar \notin {Mine(p), Missing} /\ NoFault /\ Return(p, "conflict")
       \/ Fault /\ Return(p, "conflict")
    /\ UNCHANGED <<disk, unbounded>>

----------------------------------------------------------------------------
(* publish_sidecar: temp file, commit callback, rename without replace and, *)
(* whatever the rename reported, a validation of what is at the target.    *)

WriteTemp(p) ==
    /\ pc[p] = "f_temp"
    /\ Run(p) \notin temps
    /\ p \notin cancelled
    /\ temps' = temps \cup {Run(p)}
    /\ Proceed(p, "f_commit")
    /\ UNCHANGED <<sidecar, intents, receipt, states, counts>>

\* A failed or cancelled publish deletes its own temp file, or cannot.
DropTemp(p) == temps' \in {temps \cup {Run(p)}, temps \ {Run(p)}}

\* Before the rename: what is at the target decides, then why the publish failed.
NotPublished(p, cause) ==
    IF sidecar = Mine(p) THEN Proceed(p, "f_receipt") ELSE Return(p, cause)

WriteTempFails(p) ==
    /\ pc[p] = "f_temp"
    /\ \/ Run(p) \in temps /\ p \notin cancelled /\ NoFault /\ UNCHANGED temps
          /\ NotPublished(p, "conflict")
       \/ p \in cancelled /\ NoFault /\ UNCHANGED temps /\ NotPublished(p, "cancelled")
       \/ Run(p) \notin temps /\ Fault /\ DropTemp(p)
          /\ \E cause \in {"conflict"} \cup IF p \in cancelled THEN {"cancelled"} ELSE {} :
                NotPublished(p, cause)
    /\ UNCHANGED <<sidecar, intents, receipt, states, unbounded>>

\* The commit callback: intent and target unchanged, source rechecked, and the
\* permit ordered against cancellation and a close of the lease.
CommitAllowed(p) ==
    /\ intents[Run(p)] = mine[p]
    /\ sidecar = Missing
    /\ p \notin cancelled
    /\ ~closing

Commit(p) ==
    /\ pc[p] = "f_commit"
    /\ CommitAllowed(p)
    /\ Proceed(p, "f_move")
    /\ UNCHANGED <<disk, counts>>

CommitRefused(p) ==
    /\ pc[p] = "f_commit"
    /\ \/ ~CommitAllowed(p) /\ NoFault
       \/ CommitAllowed(p) /\ Fault           \* the source recheck failed
    /\ DropTemp(p)
    /\ NotPublished(p, IF p \in cancelled /\ intents[Run(p)] = mine[p] /\ sidecar = Missing
                       THEN "cancelled" ELSE "conflict")
    /\ UNCHANGED <<sidecar, intents, receipt, states, unbounded>>

\* Mutant: the rename replaces what is there.
Move_Replaces(p) ==
    /\ pc[p] = "f_move"
    /\ sidecar' = Mine(p)
    /\ temps' = temps \ {Run(p)}
    /\ moved' = moved \cup {p}
    /\ Goto(p, "f_verify")
    /\ UNCHANGED <<intents, receipt, states, locks, job, mine, found, cancelled, result,
                   acknowledged, counts>>

\* move_no_replace: it may succeed and still report an error.
Move(p) ==
    /\ pc[p] = "f_move"
    /\ sidecar = Missing
    /\ sidecar' = Mine(p)
    /\ temps' = temps \ {Run(p)}
    /\ moved' = moved \cup {p}
    /\ Goto(p, "f_verify")
    /\ UNCHANGED <<intents, receipt, states, locks, job, mine, found, cancelled, result,
                   acknowledged, counts>>

MoveFails(p) ==
    /\ pc[p] = "f_move"
    /\ \/ sidecar # Missing /\ NoFault
       \/ sidecar = Missing /\ Fault
    /\ DropTemp(p)
    /\ Proceed(p, "f_verify")
    /\ UNCHANGED <<sidecar, intents, receipt, states, unbounded>>

\* Mutant: what is at the target is not looked at after the rename.
Verify_Trusting(p) ==
    /\ pc[p] = "f_verify"
    /\ NoFault
    /\ Proceed(p, "f_receipt")
    /\ UNCHANGED <<disk, unbounded>>

\* Mutant: the cancellation is asked for once more after the rename.
Verify_Cancels(p) ==
    /\ pc[p] = "f_verify"
    /\ \/ p \notin cancelled /\ sidecar = Mine(p) /\ NoFault /\ Proceed(p, "f_receipt")
       \/ p \in cancelled /\ NoFault /\ Return(p, "cancelled")
       \/ sidecar # Mine(p) /\ NoFault /\ Return(p, "conflict")
    /\ UNCHANGED <<disk, unbounded>>

\* When the publish reported success and the sidecar cannot be read a second time,
\* the assertion on the kind of failure is raised.
Verify(p) ==
    /\ pc[p] = "f_verify"
    /\ \/ sidecar = Mine(p) /\ NoFault /\ Proceed(p, "f_receipt")
       \/ sidecar # Mine(p) /\ NoFault /\ Return(p, "conflict")
       \/ sidecar = Mine(p) /\ Fault /\ Return(p, "conflict")
       \/ p \in moved /\ Fault /\ Return(p, "raised")
    /\ UNCHANGED <<disk, unbounded>>

----------------------------------------------------------------------------
(* After the commit: evidence.  Nothing here changes the outcome.          *)

\* store_immutable of the receipt: an equal one is fine, another one a diagnostic.
StoreReceipt(p, next) ==
    /\ \/ p \notin cancelled /\ receipt = Missing /\ receipt' = Mine(p) /\ NoFault
       \/ receipt # Missing /\ UNCHANGED receipt /\ NoFault
       \/ p \in cancelled /\ UNCHANGED receipt /\ NoFault
       \/ p \notin cancelled /\ UNCHANGED receipt /\ Fault
    /\ Proceed(p, next)
    /\ UNCHANGED <<sidecar, intents, temps, states, unbounded>>

WriteReceipt(p) == pc[p] = "f_receipt" /\ StoreReceipt(p, "f_state")

FinalState(p) ==
    /\ pc[p] = "f_state"
    /\ StoreState(p, mine[p], mine[p], "sha256")
    /\ Return(p, "finalized")
    /\ UNCHANGED <<sidecar, intents, temps, receipt, unbounded>>

----------------------------------------------------------------------------
(* recover.                                                                *)

\* The generation at the target belongs to the requested run and to the intent
\* that is still there, if one is, and a recovery with a ConfirmedSource finds the
\* evidence of its own lease in that intent.
Recognised(p) ==
    /\ sidecar \notin {Missing, Foreign}
    /\ Run(p) \in {NoRun, sidecar.run}
    /\ \/ intents[sidecar.run] = NoGeneration
       \/ /\ intents[sidecar.run] = sidecar.number
          /\ job[p].kind = "recover" => sidecar.run \in confirmed

\* Nothing is committed, and the intent of the requested run can be retried, under
\* the lease it was made under.
Retryable(p) ==
    /\ sidecar = Missing
    /\ p \notin cancelled
    /\ Run(p) # NoRun
    /\ intents[Run(p)] # NoGeneration
    /\ Run(p) \in confirmed
    /\ job[p].journal
    /\ job[p].kind = "recover"

\* From here on the run is the one named by the committed sidecar.
InspectCommitted(p) ==
    /\ pc[p] = "r_inspect"
    /\ Recognised(p)
    /\ job' = [job EXCEPT ![p].run = sidecar.run]
    /\ mine' = [mine EXCEPT ![p] = sidecar.number]
    /\ found' = [found EXCEPT ![p] = intents[sidecar.run] # NoGeneration]
    /\ Goto(p, IF intents[sidecar.run] = NoGeneration THEN "r_state" ELSE "r_receipt")
    /\ UNCHANGED <<disk, locks, cancelled, moved, result, acknowledged, counts>>

\* _RetryIntent: the target lock and the usage end, and finalize starts from the
\* beginning, with a usage of its own.
InspectRetry(p) ==
    /\ pc[p] = "r_inspect"
    /\ Retryable(p)
    /\ target_lock' = "free"
    /\ job' = [job EXCEPT ![p].kind = "finalize"]
    /\ Goto(p, "f_usage")
    /\ UNCHANGED <<disk, project_lock, closing, confirmed, mine, found, cancelled, moved, result,
                   acknowledged, counts>>

EnterAgain(p) ==
    /\ pc[p] = "f_usage"
    /\ p \notin cancelled
    /\ ~closing
    /\ Proceed(p, "f_lock")
    /\ UNCHANGED <<disk, counts>>

RefuseAgain(p) ==
    /\ pc[p] \in Outside
    /\ p \in cancelled \/ pc[p] = "f_revoked" \/ closing
    /\ Return(p, IF p \in cancelled THEN "cancelled" ELSE "rejected")
    /\ UNCHANGED <<disk, counts>>

InspectFails(p) ==
    /\ pc[p] = "r_inspect"
    /\ \/ /\ ~Recognised(p) /\ ~Retryable(p) /\ NoFault
          /\ Return(p, IF sidecar \in {Missing, Foreign} /\ p \in cancelled
                       THEN "cancelled" ELSE "conflict")
       \/ p \in cancelled /\ NoFault /\ Return(p, "cancelled")
       \/ Fault /\ Return(p, "conflict")
    /\ UNCHANGED <<disk, unbounded>>

\* _reconstruct_evidence: the receipt is written when it is missing; a receipt
\* of another generation is a conflict.
RecoverReceipt(p) ==
    /\ pc[p] = "r_receipt"
    /\ receipt \in {Missing, Mine(p)}
    /\ StoreReceipt(p, "r_state")

ReceiptConflict(p) ==
    /\ pc[p] = "r_receipt"
    /\ receipt \notin {Missing, Mine(p)}
    /\ Return(p, "conflict")
    /\ UNCHANGED <<disk, counts>>

\* What _state_for writes: an intent that is lost leaves no trace in the state.
FoundIntent(p) == IF found[p] THEN mine[p] ELSE NoGeneration
JournalDigest(p) == IF job[p].journal THEN "sha256" ELSE "not_available"

\* _state_matches_generation
StateMatches(p) ==
    LET existing == states[Run(p)]
    IN  /\ existing.journal = JournalDigest(p)
        /\ existing.intent \in {FoundIntent(p), NoGeneration}
        /\ existing.sidecar \in {mine[p], NoGeneration}

RecoverState(p) ==
    /\ pc[p] = "r_state"
    /\ p \in cancelled \/ states[Run(p)] = NoState \/ StateMatches(p)
    /\ StoreState(p, FoundIntent(p), mine[p], JournalDigest(p))
    /\ Return(p, "finalized")
    /\ UNCHANGED <<sidecar, intents, temps, receipt, unbounded>>

StateConflict(p) ==
    /\ pc[p] = "r_state"
    /\ p \notin cancelled
    /\ states[Run(p)] # NoState
    /\ ~StateMatches(p)
    /\ Return(p, "conflict")
    /\ UNCHANGED <<disk, counts>>

----------------------------------------------------------------------------
(* The environment.                                                        *)

Cancel(p) ==
    /\ pc[p] # "idle"
    /\ p \notin cancelled
    /\ cancels < MaxCancels
    /\ cancels' = cancels + 1
    /\ cancelled' = cancelled \cup {p}
    /\ UNCHANGED <<disk, locks, pc, job, mine, found, moved, result, acknowledged,
                   attempts, crashes, faults, lost, foreign, numbers>>

\* The operating system frees the locks of a process that dies, and its lease ends.
Crash ==
    /\ crashes < MaxCrashes
    /\ crashes' = crashes + 1
    /\ project_lock' = "free"
    /\ closing' = FALSE
    /\ confirmed' = {}
    /\ target_lock' = "free"
    /\ pc' = [p \in Procs |-> "idle"]
    /\ result' = [p \in Procs |-> "none"]
    /\ moved' = {}
    /\ Forget(Procs)
    /\ UNCHANGED <<disk, job, acknowledged, attempts, cancels, faults, lost, foreign, numbers>>

\* An intent disappears from the project directory after the commit.
LoseIntent(r) ==
    /\ lost < MaxLost
    /\ sidecar # Missing
    /\ intents[r] # NoGeneration
    /\ lost' = lost + 1
    /\ intents' = [intents EXCEPT ![r] = NoGeneration]
    /\ UNCHANGED <<sidecar, temps, receipt, states, locks, attempt, acknowledged,
                   attempts, crashes, cancels, faults, foreign, numbers>>

\* Another program overwrites the receipt with something else.
DamageReceipt ==
    /\ lost < MaxLost
    /\ receipt \in Generation
    /\ lost' = lost + 1
    /\ receipt' = Foreign
    /\ UNCHANGED <<sidecar, intents, temps, states, locks, attempt, acknowledged,
                   attempts, crashes, cancels, faults, foreign, numbers>>

ForeignTarget ==
    /\ foreign < MaxForeign
    /\ sidecar = Missing
    /\ foreign' = foreign + 1
    /\ sidecar' = Foreign
    /\ UNCHANGED <<intents, temps, receipt, states, locks, attempt, acknowledged,
                   attempts, crashes, cancels, faults, lost, numbers>>

----------------------------------------------------------------------------

Continue(p) ==
    \/ AcquireTarget(p) \/ TargetBusy(p)
    \/ DiscoverState(p)
    \/ LoadIntent(p) \/ IntentRefused(p) \/ CreateIntent(p) \/ IntentLeft(p) \/ NoIntent(p)
    \/ Prepare(p) \/ PrepareFails(p) \/ Construct(p) \/ ValidateTarget(p)
    \/ WriteTemp(p) \/ WriteTempFails(p) \/ Commit(p) \/ CommitRefused(p)
    \/ Move(p) \/ MoveFails(p) \/ Verify(p)
    \/ WriteReceipt(p) \/ FinalState(p)
    \/ InspectCommitted(p) \/ InspectRetry(p) \/ InspectFails(p)
    \/ EnterAgain(p) \/ RefuseAgain(p)
    \/ RecoverReceipt(p) \/ ReceiptConflict(p) \/ RecoverState(p) \/ StateConflict(p)

Environment ==
    \/ OpenLease \/ RequestClose \/ CloseLease
    \/ Crash
    \/ ForeignTarget
    \/ DamageReceipt
    \/ \E r \in Runs : LoseIntent(r)

Next ==
    \/ \E p \in Procs, j \in Jobs : Begin(p, j) \/ BeginOffline(p, j) \/ Refuse(p, j)
    \/ \E p \in Procs : Continue(p) \/ Cancel(p)
    \/ Environment

Fairness == \A p \in Procs : WF_vars(Continue(p))

Spec == Init /\ [][Next]_vars
FairSpec == Spec /\ Fairness

----------------------------------------------------------------------------
(* Properties.                                                             *)

\* Evidence is written only after the commit it speaks of: a receipt, and a state
\* that names a sidecar, name the generation that is at the target, at every
\* moment, across crashes, retries and runs.
EvidenceFollowsCommit ==
    /\ receipt \in Generation => sidecar = receipt
    /\ \A r \in Runs : states[r].sidecar # NoGeneration =>
           sidecar = [run |-> r, number |-> states[r].sidecar]

\* Between taking the target lock and the end of the attempt.
AtTarget(p) == pc[p] \notin {"idle", "f_lock", "r_lock"} \cup Outside

\* Where an attempt knows its generation, and where it has seen it at the target.
Intending == {"f_prepare", "f_construct", "f_validate", "f_temp", "f_commit", "f_move",
              "f_verify", "f_receipt", "f_state"}
Committed == {"f_receipt", "f_state", "r_receipt", "r_state"}

\* Two attempts are never both between the target lock and its release, even when
\* they share one ConfirmedSource and so one project lock.
OneAttemptAtTarget ==
    \A p, q \in Procs : AtTarget(p) /\ AtTarget(q) => p = q

\* An attempt whose rename took effect is never reported as cancelled or rejected,
\* whenever the token is cancelled and whatever the rename reported.
CommitIsNotCancelled ==
    \A p \in moved : pc[p] = "idle" => result[p] \in {"finalized", "conflict", "raised", "none"}

\* An attempt that may answer for the committed generation: one to finalize its run
\* under the lease of its intent, or a recovery with the journal, after a crash
\* without a lease or else under that lease.  A recovery that was given no journal
\* left a state that only another one of its kind accepts.
MayAnswer(p) ==
    \/ /\ pc[p] \in Finalizing
       /\ Run(p) = sidecar.run
       /\ Run(p) \in confirmed
    \/ /\ pc[p] \in Recovering
       /\ Run(p) \in {NoRun, sidecar.run}
       /\ job[p].journal
       /\ job[p].kind = "recover" => sidecar.run \in confirmed
       /\ states[sidecar.run].journal # "not_available"

\* What is committed stays acknowledged, whichever thread, crash or recovery stands
\* between: such an attempt reports a conflict only in a step in which a file
\* operation fails.
RetryIsIdempotent ==
    [][\A p \in Procs :
          (/\ sidecar \in Generation
           /\ lost = 0
           /\ MayAnswer(p)
           /\ result'[p] = "conflict")
          => faults' # faults]_vars

\* The plan (lines 379 to 382) promises more: whatever crashed before the commit, the
\* same intent is retried.  It does not hold, because the crash ended the lease.
IntentIsRetried ==
    [][\A p \in Procs :
          (pc[p] = "f_intent" /\ intents[Run(p)] # NoGeneration /\ result'[p] = "conflict")
          => faults' # faults]_vars

\* Whatever happens to an attempt, the target lock becomes free again.
TargetLockIsFreed == target_lock # "free" ~> target_lock = "free"

----------------------------------------------------------------------------
(* What is promised to the readers of the sidecar.                         *)

Promise == INSTANCE SidecarCommit WITH
    Generations <- Generation \cup {Foreign}, target <- sidecar

\* The finalizer implements it: one commit, never replaced, and nothing reported
\* as finalized but the committed generation.
ImplementsPromise == Promise!Spec

----------------------------------------------------------------------------
(* Why the properties hold: what every state satisfies.                    *)

\* The thread that is at the target is the one that holds the target lock.
LockInv == \A p \in Procs : AtTarget(p) <=> target_lock = p

\* What the place of a thread says about its attempt and about the target.
PlaceInv ==
    \A p \in Procs :
        /\ pc[p] # "idle" => result[p] = "none"
        /\ pc[p] \in Finalizing => job[p].kind = "finalize"
        /\ pc[p] \in Intending \cup Committed => Mine(p) \in Generation
        /\ pc[p] \in Committed => sidecar = Mine(p)
        /\ pc[p] \in Recovering => job[p].kind # "finalize"
        /\ p \in moved => pc[p] \in {"idle", "f_verify", "f_receipt", "f_state"}

\* As long as no intent is lost and no receipt damaged, what is built, what is
\* committed, what a recovery takes over and what a state names is the persisted
\* intent of its run.
IntentInv ==
    lost = 0 =>
        /\ sidecar \in Generation => intents[sidecar.run] = sidecar.number
        /\ \A p \in Procs :
              /\ pc[p] \in Intending => intents[Run(p)] = mine[p]
              /\ pc[p] \in {"r_receipt", "r_state"} => found[p]
        /\ receipt # Foreign
        /\ \A r \in Runs :
              /\ states[r].intent \in {NoGeneration, intents[r]}
              /\ states[r].journal = "none" => states[r] = NoState

IInv ==
    /\ TypeOK
    /\ LockInv
    /\ PlaceInv
    /\ IntentInv
    /\ EvidenceFollowsCommit
    /\ CommitIsNotCancelled
=============================================================================
