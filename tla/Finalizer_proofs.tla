-------------------------- MODULE Finalizer_proofs ---------------------------
(***************************************************************************)
(* Proofs about Finalizer, for any sets of threads and runs and any        *)
(* numbers of attempts, crashes, cancellations, faults and changes by      *)
(* other programs.                                                         *)
(***************************************************************************)
EXTENDS Finalizer, TLAPS

USE DEF NoGeneration, Outside, Finalizing, Recovering, Intending, Committed

----------------------------------------------------------------------------
(* Lemmas about attempts.                                                  *)

\* An attempt to finalize has a run.
LEMMA JobTypes ==
    /\ \A j \in Jobs : j.run \in Runs \cup {NoRun}
    /\ \A j \in Jobs : j.kind = "finalize" => j.run \in Runs
BY DEF Jobs

LEMMA FaultsBounded ==
    ASSUME faults \in 0 .. MaxFaults, Fault \/ NoFault
    PROVE  faults' \in 0 .. MaxFaults
BY BoundsAssumption DEF Fault, NoFault

\* Nothing that is not a sidecar of this recording is a generation.
LEMMA BoundsAreNaturals ==
    /\ MaxAttempts \in Nat /\ MaxCrashes \in Nat /\ MaxCancels \in Nat
    /\ MaxFaults \in Nat /\ MaxLost \in Nat /\ MaxForeign \in Nat
BY BoundsAssumption

LEMMA NoFileIsAGeneration == Missing \notin Generation /\ Foreign \notin Generation
BY FilesAssumption

\* The part of IntentInv that is about the evidence.
IntactEvidence ==
    lost = 0 =>
        /\ receipt # Foreign
        /\ \A r \in Runs :
              /\ states[r].intent \in {NoGeneration, intents[r]}
              /\ states[r].journal = "none" => states[r] = NoState

\* Storing a state of the run types it, and keeps the evidence when the state names
\* no sidecar or the committed one.
LEMMA StoreStateEvidence ==
    ASSUME IInv, NEW p \in Procs, Run(p) \in Runs,
           NEW intent \in Nat, NEW committed \in Nat, NEW journal \in {"sha256", "not_available"},
           StoreState(p, intent, committed, journal),
           committed # NoGeneration => sidecar = [run |-> Run(p), number |-> committed],
           lost = 0 => intent \in {NoGeneration, intents[Run(p)]},
           UNCHANGED <<sidecar, receipt, intents, lost>>
    PROVE  /\ states' \in [Runs -> States]
           /\ faults' \in 0 .. MaxFaults
           /\ EvidenceFollowsCommit'
           /\ IntactEvidence'
<1>0. TypeOK /\ EvidenceFollowsCommit /\ IntactEvidence
  BY DEF IInv, IntentInv, IntactEvidence
<1>1. faults' \in 0 .. MaxFaults
  BY <1>0, BoundsAssumption DEF TypeOK, StoreState, NoFault
<1>2. CASE UNCHANGED states
  BY <1>0, <1>1, <1>2 DEF TypeOK, EvidenceFollowsCommit, IntactEvidence
<1>3. CASE states' = [states EXCEPT ![Run(p)] =
              [intent |-> intent, sidecar |-> committed, journal |-> journal]]
  <2> DEFINE new == [intent |-> intent, sidecar |-> committed, journal |-> journal]
  <2>1. new \in States
    BY DEF States
  <2>2. /\ states' \in [Runs -> States]
        /\ states'[Run(p)].sidecar = committed
        /\ states'[Run(p)].intent = intent
        /\ states'[Run(p)].journal # "none"
        /\ \A r \in Runs : r # Run(p) => states'[r] = states[r]
    BY <1>0, <1>3, <2>1 DEF TypeOK
  <2> QED
    BY <1>0, <1>1, <2>2 DEF EvidenceFollowsCommit, IntactEvidence
<1> QED
  BY <1>2, <1>3 DEF StoreState

\* An attempt returns, and nothing but temp files and states has changed on disk.
LEMMA ReturnInv ==
    ASSUME IInv, NEW p \in Procs, pc[p] # "idle",
           NEW r \in Results \ {"none"}, Return(p, r),
           UNCHANGED <<sidecar, intents, receipt, unbounded>>,
           temps' \in SUBSET Runs, states' \in [Runs -> States],
           faults' \in 0 .. MaxFaults, EvidenceFollowsCommit', IntactEvidence',
           r = "finalized" => pc[p] \in Committed,
           p \in moved => r \in {"finalized", "conflict", "raised"}
    PROVE  IInv'
<1> USE DEF Return, Goto, Forget, unbounded
<1>0. TypeOK /\ LockInv /\ PlaceInv /\ IntentInv /\ CommitIsNotCancelled
  BY DEF IInv
<1>1. /\ pc' \in [Procs -> {"idle"} \cup Finalizing \cup Recovering] /\ pc'[p] = "idle"
      /\ result' \in [Procs -> Results] /\ result'[p] = r
      /\ mine' \in [Procs -> Nat] /\ found' \in [Procs -> BOOLEAN]
      /\ \A q \in Procs : q # p => /\ pc'[q] = pc[q] /\ result'[q] = result[q]
                                   /\ mine'[q] = mine[q]
  BY <1>0 DEF TypeOK
<1>2. \A q \in Procs : q # p => Mine(q)' = Mine(q) /\ Run(q)' = Run(q)
  BY <1>1 DEF Mine, Run
<1>3. TypeOK'
  <2>1. acknowledged' \subseteq Generation
    BY <1>0 DEF TypeOK, PlaceInv
  <2>2. target_lock' \in {"free"} \cup Procs /\ project_lock' \in {"free", "lease"} \cup Procs
    BY <1>0 DEF TypeOK
  <2> QED
    BY <1>0, <1>1, <2>1, <2>2 DEF TypeOK
<1>4. LockInv'
  <2>1. \A q \in Procs : q # p => AtTarget(q)' = AtTarget(q)
    BY <1>1 DEF AtTarget
  <2> QED
    BY <1>0, <1>1, <2>1, ProcsAssumption DEF LockInv, AtTarget
<1>5. PlaceInv'
  <2>1. PlaceInv!(p)'
    BY <1>1
  <2>2. \A q \in Procs : q # p => PlaceInv!(q)'
    BY <1>0, <1>1, <1>2 DEF PlaceInv
  <2> QED
    BY <2>1, <2>2 DEF PlaceInv
<1>6. IntentInv'
  BY <1>0, <1>1, <1>2 DEF IntentInv, IntactEvidence
<1>7. CommitIsNotCancelled'
  BY <1>0, <1>1 DEF CommitIsNotCancelled
<1> QED
  BY <1>3, <1>4, <1>5, <1>6, <1>7 DEF IInv

\* An attempt goes on at l, on the same side of the target lock.
LEMMA ProceedInv ==
    ASSUME IInv, NEW p \in Procs, pc[p] # "idle",
           NEW l \in Finalizing \cup Recovering, Proceed(p, l),
           UNCHANGED <<sidecar, intents, unbounded>>,
           temps' \in SUBSET Runs, states' \in [Runs -> States],
           receipt' \in Generation \cup {Missing, Foreign},
           faults' \in 0 .. MaxFaults, EvidenceFollowsCommit', IntactEvidence',
           AtTarget(p) <=> l \notin {"f_lock", "r_lock"} \cup Outside,
           l \in Finalizing <=> pc[p] \in Finalizing,
           l \in Intending => pc[p] \in Intending,
           l \in Committed => sidecar = Mine(p) /\ pc[p] \in Intending \cup Committed,
           l = "r_state" => pc[p] = "r_receipt", l # "r_receipt",
           p \in moved => l \in {"f_verify", "f_receipt", "f_state"}
    PROVE  IInv'
<1> USE DEF Proceed, Goto, unbounded, locks
<1>0. TypeOK /\ LockInv /\ PlaceInv /\ IntentInv /\ CommitIsNotCancelled
  BY DEF IInv
<1>1. /\ pc' \in [Procs -> {"idle"} \cup Finalizing \cup Recovering] /\ pc'[p] = l
      /\ \A q \in Procs : q # p => pc'[q] = pc[q]
  BY <1>0 DEF TypeOK
<1>2. \A q \in Procs : Mine(q)' = Mine(q) /\ Run(q)' = Run(q)
  BY DEF Mine, Run
<1>3. TypeOK'
  BY <1>0, <1>1 DEF TypeOK
<1>4. LockInv'
  <2>1. \A q \in Procs : AtTarget(q)' = AtTarget(q)
    BY <1>1 DEF AtTarget
  <2> QED
    BY <1>0, <2>1 DEF LockInv
<1>5. PlaceInv'
  <2>0. pc'[p] \in Recovering => pc[p] \in Recovering
    BY <1>0, <1>1 DEF TypeOK
  <2>1. PlaceInv!(p)'
    BY <1>0, <1>1, <1>2, <2>0 DEF PlaceInv
  <2>2. \A q \in Procs : q # p => PlaceInv!(q)'
    BY <1>0, <1>1, <1>2 DEF PlaceInv
  <2> QED
    BY <2>1, <2>2 DEF PlaceInv
<1>6. IntentInv'
  BY <1>0, <1>1, <1>2 DEF IntentInv, IntactEvidence
<1>7. CommitIsNotCancelled'
  BY <1>0, <1>1 DEF CommitIsNotCancelled
<1> QED
  BY <1>3, <1>4, <1>5, <1>6, <1>7 DEF IInv

----------------------------------------------------------------------------

LEMMA InitInv == Init => IInv
<1> SUFFICES ASSUME Init PROVE IInv
  OBVIOUS
<1>1. (CHOOSE j \in Jobs : j.kind = "finalize") \in Jobs
  <2>1. PICK r \in Runs : TRUE
    BY RunsAssumption
  <2>2. [kind |-> "finalize", run |-> r, journal |-> TRUE] \in Jobs
    BY <2>1 DEF Jobs
  <2>3. \E j \in Jobs : j.kind = "finalize"
    BY <2>2
  <2> QED
    BY <2>3
<1>2. TypeOK
  <2>1. job \in [Procs -> Jobs]
    BY <1>1 DEF Init
  <2>2. NoState \in States
    BY DEF NoState, States
  <2>3. /\ states \in [Runs -> States] /\ intents \in [Runs -> Nat]
        /\ mine \in [Procs -> Nat] /\ result \in [Procs -> Results]
    BY <2>2 DEF Init, Results
  <2>4. /\ attempts \in 0 .. MaxAttempts /\ crashes \in 0 .. MaxCrashes
        /\ cancels \in 0 .. MaxCancels /\ faults \in 0 .. MaxFaults
        /\ lost \in 0 .. MaxLost /\ foreign \in 0 .. MaxForeign
    BY BoundsAreNaturals DEF Init
  <2> QED
    BY <2>1, <2>3, <2>4 DEF Init, TypeOK
<1>3. LockInv /\ PlaceInv /\ IntentInv
  BY ProcsAssumption, FilesAssumption DEF Init, LockInv, AtTarget, PlaceInv, IntentInv, NoState
<1>4. EvidenceFollowsCommit /\ CommitIsNotCancelled
  BY FilesAssumption DEF Init, EvidenceFollowsCommit, CommitIsNotCancelled, NoState
<1> QED
  BY <1>2, <1>3, <1>4 DEF IInv

(* The lease and the environment.                                          *)

LEMMA LeaseInv ==
    ASSUME IInv, OpenLease \/ RequestClose \/ CloseLease
    PROVE  IInv'
<1> USE DEF disk, attempt, counts
<1>0. /\ TypeOK /\ LockInv /\ PlaceInv /\ IntentInv
      /\ EvidenceFollowsCommit /\ CommitIsNotCancelled
  BY DEF IInv
<1>1. /\ \A p \in Procs : pc'[p] = pc[p] \/ (pc[p] = "f_usage" /\ pc'[p] = "f_revoked")
      /\ pc' \in [Procs -> {"idle"} \cup Finalizing \cup Recovering]
      /\ UNCHANGED <<disk, target_lock, job, mine, found, cancelled, moved, result,
                     acknowledged, counts>>
  BY <1>0 DEF OpenLease, RequestClose, CloseLease, TypeOK
<1>2. TypeOK'
  BY <1>0, <1>1 DEF TypeOK, OpenLease, RequestClose, CloseLease
<1>3. LockInv'
  BY <1>0, <1>1 DEF LockInv, AtTarget
<1>4. \A p \in Procs : Mine(p)' = Mine(p) /\ Run(p)' = Run(p)
  BY <1>1 DEF Mine, Run
<1>5. PlaceInv'
  BY <1>0, <1>1, <1>4 DEF PlaceInv
<1>6. IntentInv'
  BY <1>0, <1>1, <1>4 DEF IntentInv
<1>7. EvidenceFollowsCommit'
  BY <1>0, <1>1 DEF EvidenceFollowsCommit
<1>8. CommitIsNotCancelled'
  BY <1>0, <1>1 DEF TypeOK, CommitIsNotCancelled
<1> QED
  BY <1>2, <1>3, <1>5, <1>6, <1>7, <1>8 DEF IInv

LEMMA CancelInv ==
    ASSUME IInv, NEW p \in Procs, Cancel(p)
    PROVE  IInv'
<1> USE DEF Cancel, disk, locks
<1>0. /\ TypeOK /\ LockInv /\ PlaceInv /\ IntentInv
      /\ EvidenceFollowsCommit /\ CommitIsNotCancelled
  BY DEF IInv
<1>1. TypeOK'
  BY <1>0, BoundsAssumption DEF TypeOK
<1>2. LockInv' /\ EvidenceFollowsCommit' /\ CommitIsNotCancelled'
  BY <1>0 DEF LockInv, AtTarget, EvidenceFollowsCommit, CommitIsNotCancelled
<1>3. PlaceInv' /\ IntentInv'
  BY <1>0 DEF PlaceInv, IntentInv, Mine, Run
<1> QED
  BY <1>1, <1>2, <1>3 DEF IInv

LEMMA CrashInv ==
    ASSUME IInv, Crash
    PROVE  IInv'
<1> USE DEF Crash, Forget, disk
<1>0. /\ TypeOK /\ LockInv /\ PlaceInv /\ IntentInv
      /\ EvidenceFollowsCommit /\ CommitIsNotCancelled
  BY DEF IInv
<1>1. TypeOK'
  <2>1. /\ crashes' \in 0 .. MaxCrashes /\ cancelled' \subseteq Procs
        /\ mine' \in [Procs -> Nat] /\ found' \in [Procs -> BOOLEAN]
    BY <1>0, BoundsAreNaturals DEF TypeOK
  <2> QED
    BY <1>0, <2>1 DEF TypeOK, Results
<1>2. LockInv' /\ PlaceInv' /\ IntentInv'
  BY <1>0, ProcsAssumption DEF LockInv, AtTarget, PlaceInv, IntentInv
<1>3. EvidenceFollowsCommit' /\ CommitIsNotCancelled'
  BY <1>0 DEF EvidenceFollowsCommit, CommitIsNotCancelled
<1> QED
  BY <1>1, <1>2, <1>3 DEF IInv

\* Other programs: a lost intent ends what IntentInv says, a damaged receipt names no
\* generation, and a foreign file takes the target only while it is free.
LEMMA MeddleInv ==
    ASSUME IInv, (\E r \in Runs : LoseIntent(r)) \/ DamageReceipt \/ ForeignTarget
    PROVE  IInv'
<1> USE DEF locks, attempt
<1>0. /\ TypeOK /\ LockInv /\ PlaceInv /\ IntentInv
      /\ EvidenceFollowsCommit /\ CommitIsNotCancelled
  BY DEF IInv
<1>1. TypeOK'
  <2>1. CASE \E r \in Runs : LoseIntent(r)
    BY <1>0, <2>1, BoundsAssumption DEF TypeOK, LoseIntent
  <2>2. CASE DamageReceipt
    BY <1>0, <2>2, BoundsAssumption DEF TypeOK, DamageReceipt
  <2>3. CASE ForeignTarget
    BY <1>0, <2>3, BoundsAssumption DEF TypeOK, ForeignTarget
  <2> QED
    BY <2>1, <2>2, <2>3
<1>2. LockInv' /\ CommitIsNotCancelled'
  BY <1>0 DEF LoseIntent, DamageReceipt, ForeignTarget, LockInv, AtTarget, CommitIsNotCancelled
<1>3. PlaceInv'
  BY <1>0, FilesAssumption DEF LoseIntent, DamageReceipt, ForeignTarget, PlaceInv, Mine, Run
<1>4. IntentInv'
  BY <1>0, FilesAssumption, BoundsAssumption
     DEF LoseIntent, DamageReceipt, ForeignTarget, IntentInv, Mine, Run, TypeOK
<1>5. EvidenceFollowsCommit'
  <2>1. CASE UNCHANGED <<sidecar, receipt, states>>
    BY <1>0, <2>1 DEF EvidenceFollowsCommit
  <2>2. CASE DamageReceipt
    BY <1>0, <2>2, NoFileIsAGeneration DEF EvidenceFollowsCommit, DamageReceipt
  <2>3. CASE ForeignTarget
    <3>1. \A r \in Runs : states[r].sidecar = NoGeneration
      <4> SUFFICES ASSUME NEW r \in Runs, states[r].sidecar # NoGeneration PROVE FALSE
        OBVIOUS
      <4>1. [run |-> r, number |-> states[r].sidecar] = Missing
        BY <1>0, <2>3 DEF EvidenceFollowsCommit, ForeignTarget
      <4>2. states[r].sidecar \in Nat
        BY <1>0 DEF TypeOK, States
      <4>3. [run |-> r, number |-> states[r].sidecar] \in Generation
        BY <4>2 DEF Generation
      <4> QED
        BY <4>1, <4>3, NoFileIsAGeneration
    <3>2. receipt \notin Generation
      BY <1>0, <2>3, NoFileIsAGeneration DEF EvidenceFollowsCommit, ForeignTarget
    <3> QED
      BY <2>3, <3>1, <3>2 DEF EvidenceFollowsCommit, ForeignTarget
  <2> QED
    BY <2>1, <2>2, <2>3 DEF LoseIntent
<1> QED
  BY <1>1, <1>2, <1>3, <1>4, <1>5 DEF IInv

(* Beginning an attempt.                                                   *)

LEMMA BeginInv ==
    ASSUME IInv, NEW p \in Procs, NEW j \in Jobs,
           Begin(p, j) \/ BeginOffline(p, j) \/ Refuse(p, j)
    PROVE  IInv'
<1> USE DEF NewAttempt, Goto, disk
<1>0. /\ TypeOK /\ LockInv /\ PlaceInv /\ IntentInv
      /\ EvidenceFollowsCommit /\ CommitIsNotCancelled
  BY DEF IInv
<1>1. /\ pc[p] = "idle" /\ NewAttempt(p, j)
      /\ \/ pc'[p] = "f_lock" /\ j.kind = "finalize"
         \/ pc'[p] = "r_lock" /\ j.kind # "finalize"
         \/ pc'[p] = "idle"
      /\ pc' \in [Procs -> {"idle"} \cup Finalizing \cup Recovering]
      /\ result' \in [Procs -> Results] /\ (pc'[p] # "idle" => result'[p] = "none")
      /\ project_lock' \in {"free", "lease"} \cup Procs
      /\ \A q \in Procs : q # p => pc'[q] = pc[q] /\ result'[q] = result[q]
  BY <1>0 DEF Begin, BeginOffline, Refuse, TypeOK, Results
<1>2. /\ job' \in [Procs -> Jobs] /\ job'[p] = j
      /\ \A q \in Procs : q # p => job'[q] = job[q]
      /\ p \notin moved' /\ moved' \subseteq moved
      /\ attempts' \in 0 .. MaxAttempts
  BY <1>0, <1>1, BoundsAssumption DEF TypeOK
<1>3. \A q \in Procs : q # p => Mine(q)' = Mine(q) /\ Run(q)' = Run(q)
  BY <1>1, <1>2 DEF Mine, Run
<1>4. TypeOK'
  BY <1>0, <1>1, <1>2 DEF TypeOK
<1>5. LockInv'
  BY <1>0, <1>1 DEF LockInv, AtTarget
<1>6. PlaceInv'
  <2>1. PlaceInv!(p)'
    BY <1>1, <1>2
  <2>2. \A q \in Procs : q # p => PlaceInv!(q)'
    BY <1>0, <1>1, <1>2, <1>3 DEF PlaceInv
  <2> QED
    BY <2>1, <2>2 DEF PlaceInv
<1>7. IntentInv'
  BY <1>0, <1>1, <1>3 DEF IntentInv
<1>8. EvidenceFollowsCommit'
  BY <1>0, <1>1 DEF EvidenceFollowsCommit
<1>9. CommitIsNotCancelled'
  <2>1. \A q \in moved' : q \in moved /\ q \in Procs /\ q # p
    BY <1>0, <1>2 DEF TypeOK
  <2> QED
    BY <1>0, <1>1, <2>1 DEF CommitIsNotCancelled
<1> QED
  BY <1>4, <1>5, <1>6, <1>7, <1>8, <1>9 DEF IInv

----------------------------------------------------------------------------
(* Steps of an attempt that only return or proceed.                        *)

\* A refused attempt has not touched anything, so its evidence is as it was.
LEMMA SameEvidence ==
    ASSUME IInv, UNCHANGED <<sidecar, receipt, states, intents, lost>>
    PROVE  EvidenceFollowsCommit' /\ states' \in [Runs -> States]
                                  /\ receipt' \in Generation \cup {Missing, Foreign}
                                  /\ IntactEvidence'
BY DEF IInv, TypeOK, EvidenceFollowsCommit, IntentInv, IntactEvidence

LEMMA EarlyReturnInv ==
    ASSUME IInv, NEW p \in Procs,
           TargetBusy(p) \/ IntentRefused(p) \/ NoIntent(p) \/ PrepareFails(p)
              \/ RefuseAgain(p) \/ InspectFails(p) \/ ReceiptConflict(p) \/ StateConflict(p)
    PROVE  IInv'
<1> USE DEF TargetBusy, IntentRefused, NoIntent, PrepareFails, RefuseAgain, InspectFails,
            ReceiptConflict, StateConflict, disk, counts, unbounded
<1>0. /\ pc[p] \notin {"idle", "f_verify", "f_receipt", "f_state"}
      /\ UNCHANGED <<sidecar, intents, temps, receipt, states, unbounded>>
      /\ \E r \in {"cancelled", "rejected", "conflict"} : Return(p, r)
  OBVIOUS
<1>1. faults' \in 0 .. MaxFaults
  BY FaultsBounded DEF IInv, TypeOK, NoFault
<1>2. p \notin moved
  BY <1>0 DEF IInv, PlaceInv
<1>3. temps' \in SUBSET Runs
  BY <1>0 DEF IInv, TypeOK
<1> QED
  BY <1>0, <1>1, <1>2, <1>3, SameEvidence, ReturnInv DEF Results

LEMMA DiscoverStateInv ==
    ASSUME IInv, NEW p \in Procs, DiscoverState(p)
    PROVE  IInv'
<1> USE DEF DiscoverState
<1>0. pc[p] = "f_discover" /\ Proceed(p, "f_intent") /\ temps' \in SUBSET Runs
  BY DEF IInv, TypeOK
<1>1. Run(p) \in Runs /\ p \notin moved /\ AtTarget(p)
  BY <1>0, JobTypes DEF IInv, TypeOK, PlaceInv, Run, AtTarget
<1>2. /\ states' \in [Runs -> States] /\ faults' \in 0 .. MaxFaults
      /\ EvidenceFollowsCommit' /\ IntactEvidence'
  BY <1>1, StoreStateEvidence DEF unbounded
<1> QED
  BY <1>0, <1>1, <1>2, ProceedInv DEF IInv, TypeOK

LEMMA PrepareInv ==
    ASSUME IInv, NEW p \in Procs, Prepare(p)
    PROVE  IInv'
<1> USE DEF Prepare
<1>0. pc[p] = "f_prepare" /\ Proceed(p, "f_construct") /\ temps' \in SUBSET Runs
  BY DEF IInv, TypeOK
<1>1. /\ Run(p) \in Runs /\ mine[p] \in Nat /\ p \notin moved /\ AtTarget(p)
      /\ lost = 0 => intents[Run(p)] = mine[p]
  BY <1>0, JobTypes DEF IInv, TypeOK, PlaceInv, IntentInv, Run, AtTarget
<1>2. /\ states' \in [Runs -> States] /\ faults' \in 0 .. MaxFaults
      /\ EvidenceFollowsCommit' /\ IntactEvidence'
  BY <1>1, StoreStateEvidence DEF unbounded
<1> QED
  BY <1>0, <1>1, <1>2, ProceedInv DEF IInv, TypeOK

\* The steps between the intent and the rename, and the look at the target after it.
LEMMA AttemptStepInv ==
    ASSUME IInv, NEW p \in Procs,
           Construct(p) \/ ValidateTarget(p) \/ WriteTemp(p) \/ WriteTempFails(p)
              \/ Commit(p) \/ CommitRefused(p) \/ MoveFails(p) \/ Verify(p)
    PROVE  IInv'
<1> USE DEF Construct, ValidateTarget, WriteTemp, WriteTempFails, Commit, CommitRefused,
            MoveFails, Verify, NotPublished, DropTemp, disk, counts, unbounded
<1>0. /\ pc[p] \in {"f_construct", "f_validate", "f_temp", "f_commit", "f_move", "f_verify"}
      /\ UNCHANGED <<sidecar, intents, receipt, states, unbounded>>
  OBVIOUS
<1>1. faults' \in 0 .. MaxFaults
  BY FaultsBounded DEF IInv, TypeOK, NoFault
<1>2. temps' \in SUBSET Runs
  <2>1. Run(p) \in Runs
    BY <1>0, JobTypes DEF IInv, TypeOK, PlaceInv, Run
  <2>2. temps' \in {temps, temps \cup {Run(p)}, temps \ {Run(p)}}
    OBVIOUS
  <2> QED
    BY <2>1, <2>2 DEF IInv, TypeOK
<1>3. /\ p \in moved => pc[p] = "f_verify"
      /\ AtTarget(p)
  BY <1>0 DEF IInv, PlaceInv, AtTarget
<1>4. CASE \E r \in {"cancelled", "rejected", "conflict", "raised"} :
              Return(p, r) /\ (pc[p] = "f_verify" => r \in {"conflict", "raised"})
  BY <1>0, <1>1, <1>2, <1>3, <1>4, SameEvidence, ReturnInv DEF Results
<1>5. CASE Proceed(p, "f_receipt") /\ sidecar = Mine(p)
  BY <1>0, <1>1, <1>2, <1>3, <1>5, SameEvidence, ProceedInv
<1>6. CASE \E l \in {"f_validate", "f_temp", "f_commit", "f_move", "f_verify"} :
              Proceed(p, l) /\ (pc[p] = "f_verify" => FALSE)
  BY <1>0, <1>1, <1>2, <1>3, <1>6, SameEvidence, ProceedInv
<1> QED
  BY <1>4, <1>5, <1>6

LEMMA EnterAgainInv ==
    ASSUME IInv, NEW p \in Procs, EnterAgain(p)
    PROVE  IInv'
<1> USE DEF EnterAgain, disk, counts, unbounded
<1>0. pc[p] = "f_usage" /\ Proceed(p, "f_lock") /\ UNCHANGED <<disk, counts>>
  OBVIOUS
<1>1. p \notin moved /\ ~ AtTarget(p)
  BY <1>0 DEF IInv, PlaceInv, AtTarget
<1>2. temps' \in SUBSET Runs /\ faults' \in 0 .. MaxFaults
  BY <1>0 DEF IInv, TypeOK
<1> QED
  BY <1>0, <1>1, <1>2, SameEvidence, ProceedInv

\* The receipt is written while the generation it names is seen at the target.
LEMMA StoreReceiptInv ==
    ASSUME IInv, NEW p \in Procs, WriteReceipt(p) \/ RecoverReceipt(p)
    PROVE  IInv'
<1> USE DEF WriteReceipt, RecoverReceipt, StoreReceipt, unbounded
<1>0. /\ pc[p] \in {"f_receipt", "r_receipt"}
      /\ \/ pc[p] = "f_receipt" /\ Proceed(p, "f_state")
         \/ pc[p] = "r_receipt" /\ Proceed(p, "r_state")
      /\ UNCHANGED <<sidecar, intents, temps, states, unbounded>>
      /\ receipt' \in {receipt, Mine(p)}
  OBVIOUS
<1>1. faults' \in 0 .. MaxFaults /\ temps' \in SUBSET Runs /\ states' \in [Runs -> States]
  BY FaultsBounded DEF IInv, TypeOK, NoFault
<1>2. sidecar = Mine(p) /\ Mine(p) \in Generation /\ (p \in moved => pc[p] = "f_receipt")
  BY <1>0 DEF IInv, PlaceInv
<1>3. /\ EvidenceFollowsCommit' /\ receipt' \in Generation \cup {Missing, Foreign}
      /\ IntactEvidence'
  BY <1>0, <1>2, NoFileIsAGeneration
     DEF IInv, TypeOK, EvidenceFollowsCommit, IntentInv, IntactEvidence
<1>4. AtTarget(p)
  BY <1>0 DEF AtTarget
<1>5. CASE pc[p] = "f_receipt"
  BY <1>0, <1>1, <1>2, <1>3, <1>4, <1>5, ProceedInv
<1>6. CASE pc[p] = "r_receipt"
  BY <1>0, <1>1, <1>2, <1>3, <1>4, <1>6, ProceedInv
<1> QED
  BY <1>0, <1>5, <1>6

\* So is the state that names it.
LEMMA FinalStateInv ==
    ASSUME IInv, NEW p \in Procs, FinalState(p) \/ RecoverState(p)
    PROVE  IInv'
<1> USE DEF FinalState, RecoverState, unbounded
<1>0. /\ pc[p] \in {"f_state", "r_state"} /\ Return(p, "finalized")
      /\ \E intent \in {mine[p], FoundIntent(p)}, journal \in {"sha256", JournalDigest(p)} :
            StoreState(p, intent, mine[p], journal)
      /\ UNCHANGED <<sidecar, intents, temps, receipt, unbounded>>
  OBVIOUS
<1>1. /\ sidecar = Mine(p) /\ Mine(p) \in Generation
      /\ mine[p] \in Nat /\ FoundIntent(p) \in Nat
      /\ JournalDigest(p) \in {"sha256", "not_available"}
      /\ temps' \in SUBSET Runs
      /\ lost = 0 => intents[sidecar.run] = sidecar.number
  BY <1>0 DEF IInv, TypeOK, PlaceInv, IntentInv, FoundIntent, JournalDigest
<1>2. /\ Run(p) \in Runs /\ sidecar = [run |-> Run(p), number |-> mine[p]]
      /\ lost = 0 => intents[Run(p)] = mine[p]
  BY <1>1 DEF Mine, Generation
<1>3. /\ states' \in [Runs -> States] /\ faults' \in 0 .. MaxFaults
      /\ EvidenceFollowsCommit' /\ IntactEvidence'
  <2>1. PICK intent \in {mine[p], FoundIntent(p)}, journal \in {"sha256", JournalDigest(p)} :
           StoreState(p, intent, mine[p], journal)
    BY <1>0
  <2>2. /\ intent \in Nat /\ journal \in {"sha256", "not_available"}
        /\ lost = 0 => intent \in {NoGeneration, intents[Run(p)]}
    BY <1>1, <1>2 DEF FoundIntent
  <2> QED
    BY <1>0, <1>1, <1>2, <2>1, <2>2, StoreStateEvidence
<1> QED
  BY <1>0, <1>1, <1>3, ReturnInv DEF Results

----------------------------------------------------------------------------
(* Steps that change what an attempt holds or knows.                       *)

LEMMA AcquireTargetInv ==
    ASSUME IInv, NEW p \in Procs, AcquireTarget(p)
    PROVE  IInv'
<1> USE DEF AcquireTarget, Goto, disk, counts
<1>0. /\ TypeOK /\ LockInv /\ PlaceInv /\ IntentInv
      /\ EvidenceFollowsCommit /\ CommitIsNotCancelled
  BY DEF IInv
<1>1. /\ pc[p] \in {"f_lock", "r_lock"} /\ pc' \in [Procs -> {"idle"} \cup Finalizing \cup Recovering]
      /\ \/ pc[p] = "f_lock" /\ pc'[p] = "f_discover"
         \/ pc[p] = "r_lock" /\ pc'[p] = "r_inspect"
      /\ \A q \in Procs : q # p => pc'[q] = pc[q]
  BY <1>0 DEF TypeOK
<1>2. TypeOK'
  BY <1>0, <1>1 DEF TypeOK
<1>3. LockInv'
  BY <1>0, <1>1, ProcsAssumption DEF LockInv, AtTarget
<1>4. \A q \in Procs : Mine(q)' = Mine(q) /\ Run(q)' = Run(q)
  BY DEF Mine, Run
<1>5. PlaceInv' /\ IntentInv'
  BY <1>0, <1>1, <1>4 DEF PlaceInv, IntentInv
<1>6. EvidenceFollowsCommit'
  BY <1>0 DEF EvidenceFollowsCommit
<1>7. CommitIsNotCancelled'
  BY <1>0, <1>1 DEF CommitIsNotCancelled, TypeOK
<1> QED
  BY <1>2, <1>3, <1>5, <1>6, <1>7 DEF IInv

\* An attempt takes the generation of its run's intent, old or new.
LEMMA IntentStepInv ==
    ASSUME IInv, NEW p \in Procs, LoadIntent(p) \/ CreateIntent(p)
    PROVE  IInv'
<1> USE DEF Goto, locks
<1>0. /\ TypeOK /\ LockInv /\ PlaceInv /\ IntentInv
      /\ EvidenceFollowsCommit /\ CommitIsNotCancelled
  BY DEF IInv
<1>1. Run(p) \in Runs /\ numbers \in Nat /\ intents[Run(p)] \in Nat /\ pc[p] = "f_intent"
  <2>1. pc[p] = "f_intent"
    BY DEF LoadIntent, CreateIntent, NewIntent
  <2> QED
    BY <1>0, <2>1, JobTypes DEF TypeOK, PlaceInv, Run
<1> DEFINE Known ==
        /\ mine' \in [Procs -> Nat] /\ mine'[p] # NoGeneration
        /\ found' \in [Procs -> BOOLEAN]
        /\ intents' \in [Runs -> Nat] /\ intents'[Run(p)] = mine'[p]
        /\ \A r \in Runs : intents[r] # NoGeneration => intents'[r] = intents[r]
        /\ \A q \in Procs : q # p => mine'[q] = mine[q] /\ found'[q] = found[q]
        /\ numbers' \in Nat
<1>a. ASSUME LoadIntent(p) PROVE Known
  <2>1. mine' = [mine EXCEPT ![p] = intents[Run(p)]] /\ intents[Run(p)] # NoGeneration
    BY <1>a DEF LoadIntent
  <2>2. mine' \in [Procs -> Nat] /\ mine'[p] = intents[Run(p)]
        /\ \A q \in Procs : q # p => mine'[q] = mine[q]
    BY <1>0, <1>1, <2>1 DEF TypeOK
  <2>3. /\ found' \in [Procs -> BOOLEAN] /\ intents' = intents /\ numbers' = numbers
        /\ \A q \in Procs : q # p => found'[q] = found[q]
    BY <1>0, <1>a DEF LoadIntent, TypeOK, disk, counts
  <2> QED
    BY <1>0, <1>1, <2>1, <2>2, <2>3 DEF TypeOK
<1>b. ASSUME CreateIntent(p) PROVE Known
  <2>1. /\ mine' = [mine EXCEPT ![p] = numbers + 1] /\ intents[Run(p)] = NoGeneration
        /\ intents' = [intents EXCEPT ![Run(p)] = numbers + 1]
        /\ numbers + 1 \in Nat /\ numbers + 1 # NoGeneration
    BY <1>1, <1>b DEF CreateIntent, NewIntent
  <2>2. /\ mine' \in [Procs -> Nat] /\ mine'[p] = numbers + 1
        /\ \A q \in Procs : q # p => mine'[q] = mine[q]
    BY <1>0, <2>1 DEF TypeOK
  <2>3. /\ intents' \in [Runs -> Nat] /\ intents'[Run(p)] = numbers + 1
        /\ \A r \in Runs : r # Run(p) => intents'[r] = intents[r]
    BY <1>0, <1>1, <2>1 DEF TypeOK
  <2>4. found' \in [Procs -> BOOLEAN] /\ found' = found /\ numbers' = numbers + 1
    BY <1>0, <1>b DEF CreateIntent, NewIntent, TypeOK
  <2> QED
    BY <2>1, <2>2, <2>3, <2>4
<1>2. /\ Known
      /\ pc' \in [Procs -> {"idle"} \cup Finalizing \cup Recovering] /\ pc'[p] = "f_prepare"
      /\ \A q \in Procs : q # p => pc'[q] = pc[q]
      /\ UNCHANGED <<sidecar, temps, receipt, states, project_lock, closing, target_lock, job,
                     cancelled, moved, result, acknowledged, attempts, crashes, cancels, faults,
                     lost, foreign>>
      /\ confirmed' \subseteq Runs
  <2>1. pc' = [pc EXCEPT ![p] = "f_prepare"]
    BY DEF LoadIntent, CreateIntent, Goto
  <2>2. UNCHANGED <<sidecar, temps, receipt, states, project_lock, closing, target_lock, job,
                    cancelled, moved, result, acknowledged, attempts, crashes, cancels, faults,
                    lost, foreign>>
    BY DEF LoadIntent, CreateIntent, NewIntent, disk, counts
  <2>3. confirmed' \in {confirmed, confirmed \cup {Run(p)}}
    BY DEF LoadIntent, CreateIntent, NewIntent
  <2>4. confirmed' \subseteq Runs
    BY <1>0, <1>1, <2>3 DEF TypeOK
  <2> QED
    BY <1>0, <1>a, <1>b, <2>1, <2>2, <2>4 DEF TypeOK
<1>3. /\ \A q \in Procs : Run(q)' = Run(q)
      /\ \A q \in Procs : q # p => Mine(q)' = Mine(q)
      /\ Mine(p)' \in Generation
  BY <1>1, <1>2 DEF Mine, Run, Generation
<1>4. TypeOK'
  BY <1>0, <1>2 DEF TypeOK
<1>5. LockInv'
  BY <1>0, <1>1, <1>2 DEF LockInv, AtTarget
<1>6. PlaceInv'
  <2>1. PlaceInv!(p)'
    BY <1>0, <1>1, <1>2, <1>3 DEF PlaceInv
  <2>2. \A q \in Procs : q # p => PlaceInv!(q)'
    BY <1>0, <1>2, <1>3 DEF PlaceInv
  <2> QED
    BY <2>1, <2>2 DEF PlaceInv
<1>7. IntentInv'
  <2> SUFFICES ASSUME lost = 0
               PROVE  /\ sidecar \in Generation => intents'[sidecar.run] = sidecar.number
                      /\ \A q \in Procs : pc'[q] \in Intending => intents'[Run(q)] = mine'[q]
                      /\ \A q \in Procs : pc'[q] \in {"r_receipt", "r_state"} => found'[q]
                      /\ \A r \in Runs : states[r].intent \in {NoGeneration, intents'[r]}
    BY <1>0, <1>2, <1>3 DEF IntentInv
  <2>1. ASSUME sidecar \in Generation PROVE intents'[sidecar.run] = sidecar.number
    BY <1>0, <1>2, <2>1 DEF IntentInv, Generation
  <2>2. ASSUME NEW q \in Procs, pc'[q] \in Intending, q # p
        PROVE  intents'[Run(q)] = mine'[q]
    <3>1. Mine(q) \in Generation /\ intents[Run(q)] = mine[q]
      BY <1>0, <1>2, <2>2 DEF IntentInv, PlaceInv
    <3>2. Run(q) \in Runs /\ mine[q] # NoGeneration
      BY <3>1 DEF Mine, Generation
    <3> QED
      BY <1>2, <2>2, <3>1, <3>2
  <2>3. ASSUME NEW q \in Procs, pc'[q] \in {"r_receipt", "r_state"} PROVE found'[q]
    BY <1>0, <1>2, <2>3 DEF IntentInv
  <2>4. ASSUME NEW r \in Runs PROVE states[r].intent \in {NoGeneration, intents'[r]}
    <3>1. states[r].intent \in {NoGeneration, intents[r]}
      BY <1>0, <2>4 DEF IntentInv
    <3> QED
      BY <1>2, <2>4, <3>1
  <2> QED
    BY <1>2, <1>3, <2>1, <2>2, <2>3, <2>4
<1>8. EvidenceFollowsCommit'
  BY <1>0, <1>2 DEF EvidenceFollowsCommit
<1>9. CommitIsNotCancelled'
  BY <1>0, <1>1, <1>2 DEF CommitIsNotCancelled, TypeOK
<1> QED
  BY <1>4, <1>5, <1>6, <1>7, <1>8, <1>9 DEF IInv

\* An intent was published and its attempt told of an error: the next attempt finds it.
LEMMA IntentLeftInv ==
    ASSUME IInv, NEW p \in Procs, IntentLeft(p)
    PROVE  IInv'
<1> USE DEF IntentLeft, NewIntent
<1>0. /\ TypeOK /\ LockInv /\ PlaceInv /\ IntentInv
      /\ EvidenceFollowsCommit /\ CommitIsNotCancelled
  BY DEF IInv
<1>1. /\ Run(p) \in Runs /\ numbers \in Nat /\ intents[Run(p)] = NoGeneration
      /\ pc[p] = "f_intent" /\ p \notin moved /\ Return(p, "conflict")
      /\ UNCHANGED <<sidecar, temps, receipt, states, moved, lost>>
  BY <1>0, JobTypes DEF TypeOK, PlaceInv, Run
<1>2. /\ intents' \in [Runs -> Nat]
      /\ \A r \in Runs : intents[r] # NoGeneration => intents'[r] = intents[r]
  BY <1>0, <1>1 DEF TypeOK
<1>3. /\ pc' \in [Procs -> {"idle"} \cup Finalizing \cup Recovering] /\ pc'[p] = "idle"
      /\ result' \in [Procs -> Results] /\ result'[p] = "conflict"
      /\ mine' \in [Procs -> Nat] /\ found' \in [Procs -> BOOLEAN]
      /\ \A q \in Procs : q # p => /\ pc'[q] = pc[q] /\ result'[q] = result[q]
                                   /\ mine'[q] = mine[q] /\ found'[q] = found[q]
  <2>1. /\ pc' = [pc EXCEPT ![p] = "idle"] /\ result' = [result EXCEPT ![p] = "conflict"]
        /\ Forget({p}) /\ "conflict" \in Results
    BY <1>1 DEF Return, Goto, Results
  <2>2. /\ mine' \in [Procs -> Nat] /\ found' \in [Procs -> BOOLEAN]
        /\ \A q \in Procs : q # p => mine'[q] = mine[q] /\ found'[q] = found[q]
    BY <1>0, <2>1 DEF TypeOK, Forget
  <2> QED
    BY <1>0, <2>1, <2>2 DEF TypeOK
<1>4. \A q \in Procs : q # p => Mine(q)' = Mine(q) /\ Run(q)' = Run(q)
  BY <1>3 DEF Mine, Run, Return
<1>5. TypeOK'
  <2>1. /\ confirmed' \subseteq Runs /\ numbers' \in Nat /\ faults' \in 0 .. MaxFaults
        /\ UNCHANGED acknowledged
    BY <1>0, <1>1, FaultsBounded DEF TypeOK, Return
  <2>2. /\ target_lock' \in {"free"} \cup Procs /\ project_lock' \in {"free", "lease"} \cup Procs
        /\ cancelled' \subseteq Procs
    BY <1>0, <1>1 DEF TypeOK, Return, Forget
  <2> QED
    BY <1>0, <1>1, <1>2, <1>3, <2>1, <2>2 DEF TypeOK, Return
<1>6. LockInv'
  <2>1. \A q \in Procs : q # p => AtTarget(q)' = AtTarget(q)
    BY <1>3 DEF AtTarget
  <2> QED
    BY <1>0, <1>1, <1>3, <2>1, ProcsAssumption DEF LockInv, AtTarget, Return
<1>7. PlaceInv'
  <2>1. PlaceInv!(p)'
    BY <1>1, <1>3
  <2>2. \A q \in Procs : q # p => PlaceInv!(q)'
    BY <1>0, <1>1, <1>3, <1>4 DEF PlaceInv, Return
  <2> QED
    BY <2>1, <2>2 DEF PlaceInv
<1>8. IntentInv'
  <2> SUFFICES ASSUME lost = 0
               PROVE  /\ sidecar \in Generation => intents'[sidecar.run] = sidecar.number
                      /\ \A q \in Procs : pc'[q] \in Intending => intents'[Run(q)'] = mine'[q]
                      /\ \A q \in Procs : pc'[q] \in {"r_receipt", "r_state"} => found'[q]
                      /\ \A r \in Runs : states[r].intent \in {NoGeneration, intents'[r]}
    BY <1>0, <1>1 DEF IntentInv
  <2>1. ASSUME sidecar \in Generation PROVE intents'[sidecar.run] = sidecar.number
    BY <1>0, <1>2, <2>1 DEF IntentInv, Generation
  <2>2. ASSUME NEW q \in Procs, pc'[q] \in Intending
        PROVE  intents'[Run(q)'] = mine'[q]
    <3>1. q # p /\ Mine(q) \in Generation /\ intents[Run(q)] = mine[q]
      BY <1>0, <1>3, <2>2 DEF IntentInv, PlaceInv
    <3>2. Run(q) \in Runs /\ mine[q] # NoGeneration
      BY <3>1 DEF Mine, Generation
    <3> QED
      BY <1>2, <1>3, <1>4, <2>2, <3>1, <3>2
  <2>3. ASSUME NEW q \in Procs, pc'[q] \in {"r_receipt", "r_state"} PROVE found'[q]
    BY <1>0, <1>3, <2>3 DEF IntentInv
  <2>4. ASSUME NEW r \in Runs PROVE states[r].intent \in {NoGeneration, intents'[r]}
    <3>1. states[r].intent \in {NoGeneration, intents[r]}
      BY <1>0, <2>4 DEF IntentInv
    <3> QED
      BY <1>2, <2>4, <3>1
  <2> QED
    BY <2>1, <2>2, <2>3, <2>4
<1>9. EvidenceFollowsCommit'
  BY <1>0, <1>1 DEF EvidenceFollowsCommit
<1>10. CommitIsNotCancelled'
  BY <1>0, <1>1, <1>3 DEF CommitIsNotCancelled, TypeOK
<1> QED
  BY <1>5, <1>6, <1>7, <1>8, <1>9, <1>10 DEF IInv

\* The rename: nobody has seen a generation at the target before, and the one that
\* is there now is the attempt's own.
LEMMA MoveInv ==
    ASSUME IInv, NEW p \in Procs, Move(p)
    PROVE  IInv'
<1> USE DEF Move, Goto, locks, counts
<1>0. /\ TypeOK /\ LockInv /\ PlaceInv /\ IntentInv
      /\ EvidenceFollowsCommit /\ CommitIsNotCancelled
  BY DEF IInv
<1>1. /\ pc[p] = "f_move" /\ sidecar = Missing /\ sidecar' = Mine(p) /\ Mine(p) \in Generation
      /\ pc' \in [Procs -> {"idle"} \cup Finalizing \cup Recovering] /\ pc'[p] = "f_verify"
      /\ \A q \in Procs : q # p => pc'[q] = pc[q]
      /\ moved' = moved \cup {p} /\ p \in moved'
  BY <1>0 DEF TypeOK, PlaceInv
<1>2. \A q \in Procs : pc[q] \notin Committed
  BY <1>0, <1>1, NoFileIsAGeneration DEF PlaceInv
<1>3. \A q \in Procs : Mine(q)' = Mine(q) /\ Run(q)' = Run(q)
  BY DEF Mine, Run
<1>4. TypeOK'
  BY <1>0, <1>1 DEF TypeOK
<1>5. LockInv'
  BY <1>0, <1>1 DEF LockInv, AtTarget
<1>6. PlaceInv'
  <2>1. PlaceInv!(p)'
    BY <1>0, <1>1, <1>3 DEF PlaceInv
  <2>2. \A q \in Procs : q # p => PlaceInv!(q)'
    BY <1>0, <1>1, <1>2, <1>3 DEF PlaceInv
  <2> QED
    BY <2>1, <2>2 DEF PlaceInv
<1>7. IntentInv'
  <2>1. lost = 0 => intents[Run(p)] = mine[p]
    BY <1>0, <1>1 DEF IntentInv
  <2>2. sidecar'.run = Run(p) /\ sidecar'.number = mine[p]
    BY <1>1 DEF Mine
  <2> QED
    BY <1>0, <1>1, <1>3, <2>1, <2>2 DEF IntentInv
<1>8. EvidenceFollowsCommit'
  <2>1. receipt \notin Generation
    BY <1>0, <1>1, NoFileIsAGeneration DEF EvidenceFollowsCommit
  <2>2. \A r \in Runs : states[r].sidecar = NoGeneration
    <3> SUFFICES ASSUME NEW r \in Runs, states[r].sidecar # NoGeneration PROVE FALSE
      OBVIOUS
    <3>1. [run |-> r, number |-> states[r].sidecar] = Missing
      BY <1>0, <1>1 DEF EvidenceFollowsCommit
    <3>2. states[r].sidecar \in Nat
      BY <1>0 DEF TypeOK, States
    <3>3. [run |-> r, number |-> states[r].sidecar] \in Generation
      BY <3>2 DEF Generation
    <3> QED
      BY <3>1, <3>3, NoFileIsAGeneration
  <2> QED
    BY <2>1, <2>2 DEF EvidenceFollowsCommit
<1>9. CommitIsNotCancelled'
  BY <1>0, <1>1 DEF CommitIsNotCancelled, TypeOK
<1> QED
  BY <1>4, <1>5, <1>6, <1>7, <1>8, <1>9 DEF IInv

\* A recovery takes over the generation it recognised.
LEMMA InspectCommittedInv ==
    ASSUME IInv, NEW p \in Procs, InspectCommitted(p)
    PROVE  IInv'
<1> USE DEF InspectCommitted, Recognised, Goto, disk, locks, counts
<1>0. /\ TypeOK /\ LockInv /\ PlaceInv /\ IntentInv
      /\ EvidenceFollowsCommit /\ CommitIsNotCancelled
  BY DEF IInv
<1>1. /\ sidecar \in Generation /\ sidecar.run \in Runs /\ sidecar.number \in Nat
      /\ sidecar = [run |-> sidecar.run, number |-> sidecar.number]
  <2>1. sidecar \in Generation
    BY <1>0 DEF TypeOK
  <2> QED
    BY <2>1 DEF Generation
<1>2. job[p] \in Jobs /\ job[p].kind # "finalize" => [job[p] EXCEPT !.run = sidecar.run] \in Jobs
  BY <1>1 DEF Jobs
<1>3. job[p] \in Jobs /\ job[p].kind = "finalize" => [job[p] EXCEPT !.run = sidecar.run] \in Jobs
  BY <1>1 DEF Jobs
<1>4. /\ job' \in [Procs -> Jobs] /\ job'[p].run = sidecar.run /\ job'[p].kind = job[p].kind
      /\ found'[p] = (intents[sidecar.run] # NoGeneration)
      /\ \A q \in Procs : q # p => found'[q] = found[q]
      /\ mine' \in [Procs -> Nat] /\ mine'[p] = sidecar.number
      /\ found' \in [Procs -> BOOLEAN]
      /\ pc' \in [Procs -> {"idle"} \cup Finalizing \cup Recovering]
      /\ pc[p] = "r_inspect" /\ pc'[p] \in {"r_receipt", "r_state"}
      /\ \A q \in Procs : q # p => pc'[q] = pc[q] /\ job'[q] = job[q] /\ mine'[q] = mine[q]
  <2>1. [job[p] EXCEPT !.run = sidecar.run] \in Jobs
    BY <1>0, <1>2, <1>3 DEF TypeOK
  <2>2. job' \in [Procs -> Jobs] /\ job'[p] = [job[p] EXCEPT !.run = sidecar.run]
        /\ \A q \in Procs : q # p => job'[q] = job[q]
    BY <1>0, <2>1 DEF TypeOK
  <2>3. job'[p].run = sidecar.run /\ job'[p].kind = job[p].kind
    <3>1. \A j \in Jobs : /\ [j EXCEPT !.run = sidecar.run].run = sidecar.run
                         /\ [j EXCEPT !.run = sidecar.run].kind = j.kind
      BY DEF Jobs
    <3> QED
      BY <1>0, <2>2, <3>1 DEF TypeOK
  <2> QED
    BY <1>0, <1>1, <2>2, <2>3 DEF TypeOK
<1>5. /\ Mine(p)' = sidecar
      /\ \A q \in Procs : q # p => Mine(q)' = Mine(q) /\ Run(q)' = Run(q)
  BY <1>1, <1>4 DEF Mine, Run
<1>6. TypeOK'
  BY <1>0, <1>4 DEF TypeOK
<1>7. LockInv'
  BY <1>0, <1>4 DEF LockInv, AtTarget
<1>8. PlaceInv'
  <2>1. PlaceInv!(p)'
    BY <1>0, <1>1, <1>4, <1>5 DEF PlaceInv
  <2>2. \A q \in Procs : q # p => PlaceInv!(q)'
    BY <1>0, <1>4, <1>5 DEF PlaceInv
  <2> QED
    BY <2>1, <2>2 DEF PlaceInv
<1>9. IntentInv'
  <2> SUFFICES ASSUME lost = 0, NEW q \in Procs
               PROVE  /\ pc'[q] \in Intending => intents[Run(q)'] = mine'[q]
                      /\ pc'[q] \in {"r_receipt", "r_state"} => found'[q]
    BY <1>0 DEF IntentInv
  <2>1. intents[sidecar.run] # NoGeneration
    BY <1>0, <1>1 DEF IntentInv, Generation
  <2>2. CASE q = p
    BY <1>4, <2>1, <2>2
  <2>3. CASE q # p
    BY <1>0, <1>4, <1>5, <2>3 DEF IntentInv
  <2> QED
    BY <2>2, <2>3
<1>10. EvidenceFollowsCommit'
  BY <1>0 DEF EvidenceFollowsCommit
<1>11. CommitIsNotCancelled'
  BY <1>0, <1>4 DEF CommitIsNotCancelled, TypeOK
<1> QED
  BY <1>6, <1>7, <1>8, <1>9, <1>10, <1>11 DEF IInv

\* A recovery that becomes an attempt to finalize has a run to finalize.
LEMMA InspectRetryInv ==
    ASSUME IInv, NEW p \in Procs, InspectRetry(p)
    PROVE  IInv'
<1> USE DEF InspectRetry, Retryable, Goto, disk, counts
<1>0. /\ TypeOK /\ LockInv /\ PlaceInv /\ IntentInv
      /\ EvidenceFollowsCommit /\ CommitIsNotCancelled
  BY DEF IInv
<1>1. [job[p] EXCEPT !.kind = "finalize"] \in Jobs
  <2>1. job[p] \in Jobs /\ job[p].run \in Runs /\ job[p].journal = TRUE
    BY <1>0, JobTypes, JournalAssumption DEF TypeOK, Run, Jobs
  <2> QED
    BY <2>1 DEF Jobs
<1>2. /\ job' \in [Procs -> Jobs] /\ job'[p].kind = "finalize"
      /\ pc' \in [Procs -> {"idle"} \cup Finalizing \cup Recovering]
      /\ pc[p] = "r_inspect" /\ pc'[p] = "f_usage"
      /\ \A q \in Procs : q # p => pc'[q] = pc[q] /\ job'[q] = job[q]
  <2>1. /\ job' \in [Procs -> Jobs] /\ job'[p] = [job[p] EXCEPT !.kind = "finalize"]
        /\ \A q \in Procs : q # p => job'[q] = job[q]
    BY <1>0, <1>1 DEF TypeOK
  <2>2. \A j \in Jobs : [j EXCEPT !.kind = "finalize"].kind = "finalize"
    BY DEF Jobs
  <2>3. job'[p].kind = "finalize"
    BY <1>0, <2>1, <2>2 DEF TypeOK
  <2> QED
    BY <1>0, <2>1, <2>3 DEF TypeOK
<1>3. \A q \in Procs : q # p => Mine(q)' = Mine(q) /\ Run(q)' = Run(q)
  BY <1>2 DEF Mine, Run
<1>4. TypeOK'
  BY <1>0, <1>2 DEF TypeOK
<1>5. LockInv'
  BY <1>0, <1>2, ProcsAssumption DEF LockInv, AtTarget
<1>6. PlaceInv'
  <2>1. PlaceInv!(p)'
    BY <1>0, <1>2 DEF PlaceInv
  <2>2. \A q \in Procs : q # p => PlaceInv!(q)'
    BY <1>0, <1>2, <1>3 DEF PlaceInv
  <2> QED
    BY <2>1, <2>2 DEF PlaceInv
<1>7. IntentInv'
  BY <1>0, <1>2, <1>3 DEF IntentInv
<1>8. EvidenceFollowsCommit'
  BY <1>0 DEF EvidenceFollowsCommit
<1>9. CommitIsNotCancelled'
  BY <1>0, <1>2 DEF CommitIsNotCancelled, TypeOK
<1> QED
  BY <1>4, <1>5, <1>6, <1>7, <1>8, <1>9 DEF IInv

LEMMA ContinueInv ==
    ASSUME IInv, NEW p \in Procs, Continue(p)
    PROVE  IInv'
BY EarlyReturnInv, DiscoverStateInv, PrepareInv, AttemptStepInv, EnterAgainInv,
   StoreReceiptInv, FinalStateInv, AcquireTargetInv, IntentStepInv,
   IntentLeftInv, MoveInv,
   InspectCommittedInv, InspectRetryInv
   DEF Continue

LEMMA StutterInv == IInv /\ UNCHANGED vars => IInv'
<1> SUFFICES ASSUME IInv, UNCHANGED vars PROVE IInv'
  OBVIOUS
<1> USE DEF vars, disk, locks, attempt, counts
<1>1. TypeOK'
  BY DEF IInv, TypeOK
<1>2. LockInv' /\ EvidenceFollowsCommit' /\ CommitIsNotCancelled'
  BY DEF IInv, LockInv, AtTarget, EvidenceFollowsCommit, CommitIsNotCancelled
<1>3. PlaceInv' /\ IntentInv'
  BY DEF IInv, PlaceInv, IntentInv, Mine, Run
<1> QED
  BY <1>1, <1>2, <1>3 DEF IInv

LEMMA NextInv == IInv /\ [Next]_vars => IInv'
BY LeaseInv, CancelInv, CrashInv, MeddleInv, BeginInv, ContinueInv, StutterInv
   DEF Next, Environment

\* Every reachable state satisfies the strengthened invariant.
THEOREM Inductive == Spec => []IInv
BY InitInv, NextInv, PTL DEF Spec

----------------------------------------------------------------------------

\* Every variable keeps its type.
THEOREM TypeCorrect == Spec => []TypeOK
<1>1. IInv => TypeOK
  BY DEF IInv
<1> QED
  BY <1>1, Inductive, PTL

\* Receipt and states never speak of anything but the sidecar at the target.
THEOREM EvidenceAlwaysFollows == Spec => []EvidenceFollowsCommit
<1>1. IInv => EvidenceFollowsCommit
  BY DEF IInv
<1> QED
  BY <1>1, Inductive, PTL

\* An attempt whose rename took effect does not report a cancellation.
THEOREM CommitIsNeverCancelled == Spec => []CommitIsNotCancelled
<1>1. IInv => CommitIsNotCancelled
  BY DEF IInv
<1> QED
  BY <1>1, Inductive, PTL

\* The target lock keeps the attempts apart.
THEOREM OneAtTarget == Spec => []OneAttemptAtTarget
<1>1. IInv => OneAttemptAtTarget
  BY DEF IInv, LockInv, OneAttemptAtTarget
<1> QED
  BY <1>1, Inductive, PTL

----------------------------------------------------------------------------
(* The promise to the readers of the sidecar.                              *)

\* Only an attempt that sees its generation at the target acknowledges it, and only
\* a rename or a foreign program puts anything there.
LEMMA PromiseStep ==
    ASSUME IInv, Next
    PROVE  Promise!Next \/ UNCHANGED <<sidecar, acknowledged>>
<1>1. CASE \E p \in Procs : Move(p)
  <2>1. PICK p \in Procs : Move(p)
    BY <1>1
  <2>2. sidecar = Missing /\ sidecar' = Mine(p) /\ Mine(p) \in Generation
    BY <2>1 DEF Move, IInv, PlaceInv
  <2> QED
    BY <2>1, <2>2 DEF Move, Promise!Next, Promise!Commit
<1>2. CASE ForeignTarget
  BY <1>2 DEF ForeignTarget, Promise!Next, Promise!Commit
<1>3. CASE \E p \in Procs : FinalState(p) \/ RecoverState(p)
  <2>1. PICK p \in Procs : FinalState(p) \/ RecoverState(p)
    BY <1>3
  <2>2. pc[p] \in Committed /\ Return(p, "finalized") /\ UNCHANGED sidecar
    BY <2>1 DEF FinalState, RecoverState
  <2>3. sidecar = Mine(p) /\ sidecar # Missing
    BY <2>2, NoFileIsAGeneration DEF IInv, PlaceInv
  <2> QED
    BY <2>2, <2>3 DEF Return, Promise!Next, Promise!Acknowledge
<1>4. CASE \E p \in Procs : Continue(p)
  <2> SUFFICES ASSUME NEW p \in Procs, Continue(p),
                      ~ Move(p), ~ FinalState(p), ~ RecoverState(p)
               PROVE  UNCHANGED <<sidecar, acknowledged>>
    BY <1>1, <1>3, <1>4
  <2> USE DEF disk, Proceed, Return, NotPublished, StoreReceipt
  <2>1. CASE EnterAgain(p) \/ AcquireTarget(p) \/ TargetBusy(p) \/ DiscoverState(p)
             \/ LoadIntent(p) \/ IntentRefused(p) \/ CreateIntent(p) \/ IntentLeft(p)
             \/ NoIntent(p) \/ RefuseAgain(p)
    BY <2>1 DEF EnterAgain, AcquireTarget, TargetBusy, DiscoverState, LoadIntent,
                IntentRefused, CreateIntent, IntentLeft, NewIntent, NoIntent, RefuseAgain
  <2>2. CASE Prepare(p) \/ PrepareFails(p) \/ Construct(p) \/ ValidateTarget(p)
             \/ WriteTemp(p) \/ WriteTempFails(p) \/ Commit(p) \/ CommitRefused(p)
             \/ MoveFails(p) \/ Verify(p)
    BY <2>2 DEF Prepare, PrepareFails, Construct, ValidateTarget, WriteTemp, WriteTempFails,
                Commit, CommitRefused, MoveFails, Verify
  <2>3. CASE WriteReceipt(p) \/ InspectCommitted(p) \/ InspectRetry(p) \/ InspectFails(p)
             \/ RecoverReceipt(p) \/ ReceiptConflict(p) \/ StateConflict(p)
    BY <2>3 DEF WriteReceipt, InspectCommitted, InspectRetry, InspectFails, RecoverReceipt,
                ReceiptConflict, StateConflict
  <2> QED
    BY <2>1, <2>2, <2>3 DEF Continue
<1>5. CASE \/ \E p \in Procs, j \in Jobs : Begin(p, j) \/ BeginOffline(p, j) \/ Refuse(p, j)
           \/ \E p \in Procs : Cancel(p)
           \/ OpenLease \/ RequestClose \/ CloseLease \/ Crash \/ DamageReceipt
           \/ \E r \in Runs : LoseIntent(r)
  BY <1>5 DEF Begin, BeginOffline, Refuse, NewAttempt, Cancel, OpenLease, RequestClose,
              CloseLease, Crash, DamageReceipt, LoseIntent, disk
<1> QED
  BY <1>2, <1>4, <1>5 DEF Next, Environment

\* The finalizer implements SidecarCommit: one commit that is never replaced, and
\* nothing acknowledged but the committed generation.
THEOREM ImplementsSidecarCommit == Spec => ImplementsPromise
<1>1. Init => Promise!Init
  BY DEF Init, Promise!Init
<1>2. IInv /\ [Next]_vars => [Promise!Next]_(Promise!vars)
  <2> SUFFICES ASSUME IInv, [Next]_vars
               PROVE  [Promise!Next]_(Promise!vars)
    OBVIOUS
  <2>1. CASE Next
    BY <2>1, PromiseStep DEF Promise!vars
  <2>2. CASE UNCHANGED vars
    BY <2>2 DEF vars, disk, Promise!vars
  <2> QED
    BY <2>1, <2>2
<1> QED
  BY <1>1, <1>2, Inductive, PTL DEF Spec, ImplementsPromise, Promise!Spec

----------------------------------------------------------------------------
(* Retries.                                                                *)

\* While no intent is lost, the committed generation of the run of an attempt is the
\* one the attempt builds.
LEMMA CommittedIsMine ==
    ASSUME IInv, lost = 0, NEW p \in Procs, pc[p] \in Finalizing,
           sidecar \in Generation, sidecar.run = Run(p)
    PROVE  /\ intents[Run(p)] # NoGeneration
           /\ pc[p] \in Intending => sidecar = Mine(p)
<1>1. intents[Run(p)] = sidecar.number /\ sidecar.number # NoGeneration
  BY DEF IInv, IntentInv, Generation
<1>2. pc[p] \in Intending => mine[p] = sidecar.number
  BY <1>1 DEF IInv, IntentInv
<1> QED
  BY <1>1, <1>2 DEF Mine, Generation

\* An attempt to finalize this run under its lease reports a conflict only when an
\* operation fails.
LEMMA FinalizingAnswers ==
    ASSUME IInv, lost = 0, NEW p \in Procs, pc[p] \in Finalizing, Continue(p),
           sidecar \in Generation, sidecar.run = Run(p), Run(p) \in confirmed,
           result'[p] = "conflict"
    PROVE  faults' # faults
<1>0. /\ result \in [Procs -> Results] /\ result[p] = "none" /\ faults \in Nat
      /\ intents[Run(p)] # NoGeneration
      /\ pc[p] \in Intending => sidecar = Mine(p)
  BY CommittedIsMine, BoundsAreNaturals DEF IInv, TypeOK, PlaceInv
<1>1. UNCHANGED result => FALSE
  BY <1>0
<1>2. \A r : Return(p, r) => r = "conflict"
  BY <1>0 DEF Return
<1>3. CASE TargetBusy(p) \/ NoIntent(p) \/ PrepareFails(p) \/ Construct(p) \/ RefuseAgain(p)
  BY <1>0, <1>1, <1>2, <1>3 DEF TargetBusy, NoIntent, PrepareFails, Construct, RefuseAgain,
     Proceed
<1>4. CASE ValidateTarget(p) \/ Verify(p) \/ IntentRefused(p) \/ IntentLeft(p)
  BY <1>0, <1>1, <1>2, <1>4
     DEF ValidateTarget, Verify, IntentRefused, IntentLeft, Proceed, Fault
<1>5. CASE WriteTempFails(p) \/ CommitRefused(p)
  BY <1>0, <1>1, <1>2, <1>5 DEF WriteTempFails, CommitRefused, NotPublished, Proceed
<1>6. CASE FinalState(p) \/ RecoverState(p)
  BY <1>2, <1>6 DEF FinalState, RecoverState
<1>7. CASE InspectFails(p) \/ ReceiptConflict(p) \/ StateConflict(p)
  BY <1>7 DEF InspectFails, ReceiptConflict, StateConflict
<1>8. CASE UNCHANGED result
  BY <1>1, <1>8
<1> QED
  BY <1>3, <1>4, <1>5, <1>6, <1>7, <1>8
     DEF Continue, AcquireTarget, DiscoverState, LoadIntent, CreateIntent, Prepare, WriteTemp,
         Commit, Move, MoveFails, WriteReceipt, StoreReceipt, InspectCommitted, InspectRetry,
         EnterAgain, RecoverReceipt, Proceed

\* A recovery that may answer recognises what is committed, and neither the receipt nor
\* the state that an earlier attempt left contradicts it.
LEMMA RecoveryAnswers ==
    ASSUME IInv, lost = 0, NEW p \in Procs, pc[p] \in Recovering, MayAnswer(p), Continue(p),
           sidecar \in Generation, result'[p] = "conflict"
    PROVE  faults' # faults
<1>0. /\ result \in [Procs -> Results] /\ result[p] = "none" /\ faults \in Nat
      /\ sidecar.run \in Runs /\ intents[sidecar.run] = sidecar.number
      /\ sidecar.number # NoGeneration
  BY BoundsAreNaturals DEF IInv, TypeOK, PlaceInv, IntentInv, Generation
<1>1. \A r : Return(p, r) => r = "conflict"
  BY <1>0 DEF Return
<1>2. /\ Run(p) \in {NoRun, sidecar.run} /\ job[p].journal
      /\ job[p].kind = "recover" => sidecar.run \in confirmed
      /\ states[sidecar.run].journal # "not_available"
  BY DEF MayAnswer
<1>3. CASE InspectFails(p)
  <2>1. Recognised(p)
    BY <1>0, <1>2, NoFileIsAGeneration DEF Recognised
  <2> QED
    BY <1>0, <1>1, <1>3, <2>1 DEF InspectFails, Fault
<1>4. CASE ReceiptConflict(p)
  <2>1. sidecar = Mine(p) /\ receipt \in Generation \cup {Missing} /\ receipt \notin {Missing, Mine(p)}
    BY <1>4 DEF ReceiptConflict, IInv, TypeOK, PlaceInv, IntentInv
  <2> QED
    BY <2>1 DEF IInv, EvidenceFollowsCommit
<1>5. CASE StateConflict(p)
  <2>1. /\ sidecar = Mine(p) /\ found[p] /\ states[Run(p)] \in States
        /\ states[Run(p)] # NoState /\ ~ StateMatches(p) /\ Run(p) = sidecar.run
        /\ mine[p] = sidecar.number
    <3>1. sidecar = Mine(p) /\ found[p]
      BY <1>5 DEF StateConflict, IInv, PlaceInv, IntentInv
    <3>2. Run(p) = sidecar.run /\ mine[p] = sidecar.number
      BY <3>1 DEF Mine
    <3> QED
      BY <1>0, <1>5, <3>1, <3>2 DEF StateConflict, IInv, TypeOK
  <2>2. states[Run(p)].journal = JournalDigest(p)
    BY <1>0, <1>2, <2>1 DEF JournalDigest, IInv, IntentInv, States
  <2>3. states[Run(p)].intent \in {FoundIntent(p), NoGeneration}
    BY <1>0, <2>1 DEF FoundIntent, IInv, IntentInv
  <2>4. states[Run(p)].sidecar \in {mine[p], NoGeneration}
    <3>1. states[Run(p)].sidecar # NoGeneration
             => sidecar = [run |-> Run(p), number |-> states[Run(p)].sidecar]
      BY <1>0, <2>1 DEF IInv, EvidenceFollowsCommit
    <3> QED
      BY <2>1, <3>1
  <2> QED
    BY <2>1, <2>2, <2>3, <2>4 DEF StateMatches
<1>6. CASE TargetBusy(p) \/ RecoverState(p)
  BY <1>1, <1>6 DEF TargetBusy, RecoverState
<1>7. CASE UNCHANGED result
  BY <1>0, <1>7
<1> QED
  BY <1>3, <1>4, <1>5, <1>6, <1>7
     DEF Continue, AcquireTarget, DiscoverState, LoadIntent, IntentRefused, CreateIntent,
         IntentLeft, NewIntent, NoIntent, Prepare, PrepareFails, Construct, ValidateTarget,
         WriteTemp, WriteTempFails, Commit, CommitRefused, Move, MoveFails, Verify,
         WriteReceipt, FinalState, StoreReceipt, InspectCommitted, InspectRetry, EnterAgain,
         RefuseAgain, RecoverReceipt, Proceed

\* What is committed stays acknowledged: a second attempt under the lease, and a recovery
\* in a later process, report a conflict only when a file operation fails.
THEOREM RetryIsAlwaysIdempotent == Spec => RetryIsIdempotent
<1> DEFINE Idempotent(p) ==
        (/\ sidecar \in Generation
         /\ lost = 0
         /\ MayAnswer(p)
         /\ result'[p] = "conflict")
        => faults' # faults
<1>1. ASSUME IInv, Next, NEW p \in Procs PROVE Idempotent(p)
  <2> SUFFICES ASSUME sidecar \in Generation, lost = 0, MayAnswer(p), result'[p] = "conflict"
               PROVE  faults' # faults
    OBVIOUS
  <2>1. result \in [Procs -> Results] /\ result[p] = "none" /\ pc[p] # "idle"
    BY <1>1 DEF IInv, TypeOK, PlaceInv, MayAnswer
  <2>2. CASE Continue(p)
    BY <1>1, <2>2, FinalizingAnswers, RecoveryAnswers DEF MayAnswer
  <2>3. ASSUME NEW q \in Procs, q # p, Continue(q) PROVE result'[p] = result[p]
    <3> USE DEF Proceed, Return, NotPublished, StoreReceipt
    <3>1. (\E r : result' = [result EXCEPT ![q] = r]) \/ UNCHANGED result
      <4>1. CASE EnterAgain(q) \/ AcquireTarget(q) \/ TargetBusy(q) \/ DiscoverState(q)
                 \/ LoadIntent(q) \/ IntentRefused(q) \/ CreateIntent(q) \/ IntentLeft(q)
                 \/ NoIntent(q) \/ RefuseAgain(q)
        BY <4>1 DEF EnterAgain, AcquireTarget, TargetBusy, DiscoverState, LoadIntent,
                    IntentRefused, CreateIntent, IntentLeft, NoIntent, RefuseAgain
      <4>2. CASE Prepare(q) \/ PrepareFails(q) \/ Construct(q) \/ ValidateTarget(q)
                 \/ WriteTemp(q) \/ WriteTempFails(q) \/ Commit(q) \/ CommitRefused(q)
                 \/ Move(q) \/ MoveFails(q) \/ Verify(q) \/ FinalState(q)
        BY <4>2 DEF Prepare, PrepareFails, Construct, ValidateTarget, WriteTemp,
                    WriteTempFails, Commit, CommitRefused, Move, MoveFails, Verify, FinalState
      <4>3. CASE WriteReceipt(q) \/ InspectCommitted(q) \/ InspectRetry(q) \/ InspectFails(q)
                 \/ RecoverReceipt(q) \/ ReceiptConflict(q) \/ RecoverState(q)
                 \/ StateConflict(q)
        BY <4>3 DEF WriteReceipt, InspectCommitted, InspectRetry, InspectFails,
                    RecoverReceipt, ReceiptConflict, RecoverState, StateConflict
      <4> QED
        BY <2>3, <4>1, <4>2, <4>3 DEF Continue
    <3> QED
      BY <2>1, <2>3, <3>1
  <2>4. CASE \E q \in Procs, j \in Jobs : Begin(q, j) \/ BeginOffline(q, j) \/ Refuse(q, j)
    BY <2>1, <2>4 DEF Begin, BeginOffline, Refuse, NewAttempt
  <2>5. CASE Crash
    BY <2>5 DEF Crash
  <2>6. CASE UNCHANGED result
    BY <2>1, <2>6
  <2>7. (\E q \in Procs : Cancel(q)) \/ (Environment /\ ~ Crash) => UNCHANGED result
    BY DEF Cancel, Environment, OpenLease, RequestClose, CloseLease, ForeignTarget,
           DamageReceipt, LoseIntent, attempt
  <2> QED
    BY <1>1, <2>1, <2>2, <2>3, <2>4, <2>5, <2>6, <2>7 DEF Next, Environment
<1>2. IInv /\ [Next]_vars => [\A p \in Procs : Idempotent(p)]_vars
  BY <1>1
<1> QED
  BY <1>2, Inductive, PTL DEF Spec, RetryIsIdempotent
==============================================================================
