------------------------ MODULE ProductRunner_proofs -------------------------
(***************************************************************************)
(* Proofs about ProductRunner, for any recordings and any numbers of       *)
(* starts, faults, decisions, requests and abandoned shutdowns.            *)
(***************************************************************************)
EXTENDS ProductRunner, TLAPS

USE DEF Threads, Steps, Settles, Rendering, ProposalStates, Statuses, Decisions

----------------------------------------------------------------------------
(* Lemmas about the values.                                                *)

LEMMA NoSessionIsNone == NoSession \notin Sessions
BY DEF NoSession, Sessions

LEMMA NoWorkerIsNone == NoWorker \notin Workers /\ NoWorker.at = "none"
BY DEF NoWorker, Workers

\* A thread that is somewhere is one.
LEMMA Working ==
    ASSUME TypeOK, NEW t \in Threads, thread[t].at # "none"
    PROVE  thread[t] \in Workers /\ thread[t] # NoWorker
BY NoWorkerIsNone DEF TypeOK

LEMMA Sessioned ==
    ASSUME TypeOK
    PROVE  /\ \A r \in Recordings : session[r] # NoSession => session[r] \in Sessions
           /\ \A t \in Threads : thread[t] # NoWorker =>
                  /\ thread[t] \in Workers /\ thread[t].recording \in Recordings
                  /\ thread[t].copy \in Sessions /\ thread[t].attempt \in 0 .. MaxRequests
BY DEF TypeOK, Workers

LEMMA Bounds ==
    /\ MaxRequests \in Nat /\ MaxFaults \in Nat /\ MaxStarts \in Nat /\ MaxTimeouts \in Nat
    /\ MaxDecisions \in Nat
BY BoundsAssumption

LEMMA FaultsBounded ==
    ASSUME faults \in 0 .. MaxFaults, Fault \/ NoFault
    PROVE  faults' \in 0 .. MaxFaults
BY Bounds DEF Fault, NoFault

----------------------------------------------------------------------------
(* The main thread at a recording: a step that stores the session s and    *)
(* goes on with w, or leaves.                                              *)

LEMMA MainStep ==
    ASSUME IInv, pc \in Steps, NEW s \in Sessions, NEW w \in Sessions,
           session' = [session EXCEPT ![current] = s],
           \/ /\ pc' = "idle" /\ current' = NoRecording /\ work' = NoSession
           \/ /\ pc' \in Steps /\ current' = current /\ work' = w
              /\ pc' = "launch" => s.opened /\ w.opened /\ ~HasThread(current),
           gate' \in Decisions, outcome' \in {"none", "sidecar", "unclean", "retryable", "refused"},
           UNCHANGED <<fixed, request, video>>, Fault \/ NoFault,
           attempted' \subseteq Recordings, proposed' \subseteq Recordings,
           target \subseteq target', target' \subseteq Recordings,
           proposals \subseteq proposals', proposals' \subseteq Recordings,
           approval' \in [Recordings -> Decisions],
           \A r \in Recordings : approval[r] # "none" => approval'[r] = approval[r],
           timeouts = 0 => s.attempt = session[current].attempt /\ w.attempt = s.attempt,
           \A x \in {s, w} :
               /\ x.sidecar => current \in target'
               /\ x.proposal => current \in proposals' /\ approval'[current] # "none"
               /\ x.status = "rendered" => current \in video
               /\ Opening(current) => x.opened
               /\ HasThread(current) => x.proposal,
           PathInv'
    PROVE  IInv'
<1> USE DEF IInv, fixed, threads, history, bounds
<1>1. current \in Recordings /\ session[current] # NoSession
  BY DEF TypeOK, CopiesInv
<1>2. TypeOK'
  BY FaultsBounded DEF TypeOK
<1>3. \A r \in Recordings :
          /\ HasThread(r)' = HasThread(r)
          /\ Opening(r)' => Opening(r) \/ (r = current /\ pc' = "launch" /\ current' = current)
  BY DEF Opening, HasThread
<1>4. \A r \in Recordings : session'[r] = IF r = current THEN s ELSE session[r]
  BY DEF TypeOK
<1>5. s # NoSession
  BY NoSessionIsNone
<1>6. ASSUME NEW r \in Recordings
      PROVE  IF session'[r] = NoSession THEN ~Opening(r)' ELSE Good(r, session[r])'
  <2>1. CASE r = current
    <3>1. Good(r, session[r])'
      BY <1>3, <1>4, <2>1 DEF Good
    <3> QED
      BY <1>4, <1>5, <2>1, <3>1
  <2>2. CASE r # current
    BY <1>3, <1>4, <2>2 DEF CopiesInv, Good
  <2> QED
    BY <2>1, <2>2
<1>7. pc' \in Steps => session'[current'] # NoSession /\ Good(current, work)'
  BY <1>1, <1>3, <1>4, <1>5 DEF Good
<1>8. ASSUME NEW t \in Threads, thread'[t] # NoWorker
      PROVE  /\ session'[thread'[t].recording] # NoSession
             /\ Good(thread[t].recording, thread[t].copy)'
             /\ approval'[thread'[t].recording] \in Settles
             /\ thread'[t].done => thread'[t].recording \in video'
  <2>1. thread' = thread /\ thread[t].recording \in Recordings
    BY <1>8, Sessioned
  <2> DEFINE rec == thread[t].recording
  <2>2. /\ session[rec] # NoSession /\ Good(rec, thread[t].copy) /\ approval[rec] \in Settles
        /\ thread[t].done => rec \in video
    BY <1>8, <2>1 DEF CopiesInv
  <2>3. HasThread(rec)
    BY <1>8, <2>1 DEF HasThread
  <2>4. Opening(rec)' => Opening(rec)
    BY <1>3, <2>1, <2>3 DEF TypeOK
  <2>5. Good(thread[t].recording, thread[t].copy)'
    BY <1>3, <2>1, <2>2, <2>4 DEF Good
  <2> QED
    BY <1>4, <1>5, <2>1, <2>2, <2>5
<1>9. CopiesInv'
  BY <1>6, <1>7, <1>8 DEF CopiesInv
<1>10. NothingTwice'
  BY DEF NothingTwice, AutoOpenOnce, AttemptStartedOnce
<1>11. AttemptInv'
  <2> SUFFICES ASSUME timeouts = 0 PROVE AttemptInv'
    BY DEF AttemptInv
  <2>1. \A r \in Recordings : session[r] # NoSession =>
            session'[r] # NoSession /\ session'[r].attempt = session[r].attempt
    BY <1>4, <1>5
  <2>2. \A r \in Recordings : session'[r] # NoSession => session[r] # NoSession
    BY <1>1, <1>4
  <2>3. thread["own"] # NoWorker =>
            thread["own"].recording \in Recordings /\ session[thread["own"].recording] # NoSession
    BY Sessioned DEF CopiesInv
  <2>4. pc' \in Steps => work'.attempt = session'[current'].attempt
    BY <1>1, <1>4
  <2> QED
    BY <2>1, <2>2, <2>3, <2>4 DEF AttemptInv
<1> QED
  BY <1>2, <1>9, <1>10, <1>11

\* What the main thread may rely on at a recording.
LEMMA AtRecording ==
    ASSUME IInv, pc \in Steps
    PROVE  /\ current \in Recordings /\ work \in Sessions
           /\ session[current] \in Sessions /\ session[current] # NoSession
           /\ session = [session EXCEPT ![current] = session[current]]
           /\ timeouts = 0 => work.attempt = session[current].attempt
           /\ \A x \in {work, session[current]} :
                  /\ x.sidecar => current \in target
                  /\ x.proposal => current \in proposals /\ approval[current] # "none"
                  /\ x.status = "rendered" => current \in video
                  /\ Opening(current) => x.opened
                  /\ HasThread(current) => x.proposal
<1> USE DEF IInv
<1>1. /\ current \in Recordings /\ work \in Sessions /\ session[current] # NoSession
      /\ Good(current, work)
  BY DEF TypeOK, CopiesInv
<1>2. session[current] \in Sessions /\ Good(current, session[current])
  BY <1>1, Sessioned DEF CopiesInv
<1>3. session = [session EXCEPT ![current] = session[current]]
  BY <1>1 DEF TypeOK
<1>4. timeouts = 0 => work.attempt = session[current].attempt
  BY DEF AttemptInv
<1> QED
  BY <1>1, <1>2, <1>3, <1>4 DEF Good

\* The recording's turn ends with the session x stored, or with nothing stored.
LEMMA LeaveStep ==
    ASSUME IInv, pc \in Steps, NEW x \in Sessions,
           StoreAndLeave(x) \/ (Leave /\ UNCHANGED session),
           UNCHANGED <<fixed, request, video>>, Fault \/ NoFault,
           attempted' \subseteq Recordings, proposed' \subseteq Recordings,
           UNCHANGED <<target, proposals>>,
           \/ UNCHANGED approval
           \/ approval' = [approval EXCEPT ![current] = IF @ = "none" THEN "pending" ELSE @],
           x.attempt = work.attempt, x.opened = work.opened, x.proposal = work.proposal,
           x.sidecar => current \in target, x.status = "rendered" => current \in video
    PROVE  IInv'
<1> DEFINE s == IF session' = session THEN session[current] ELSE x
<1>1. /\ s \in Sessions /\ session' = [session EXCEPT ![current] = s]
      /\ timeouts = 0 => s.attempt = session[current].attempt
  BY AtRecording DEF StoreAndLeave
<1>2. /\ pc' = "idle" /\ current' = NoRecording /\ work' = NoSession
      /\ gate' = "none" /\ outcome' = "none"
  BY DEF StoreAndLeave, Leave, GoTo
<1>3. /\ approval' \in [Recordings -> Decisions]
      /\ \A r \in Recordings : approval[r] # "none" => approval'[r] = approval[r]
  BY AtRecording, ZenonT(40) DEF IInv, TypeOK
<1>4. \A y \in {s, s} :
          /\ y.sidecar => current \in target'
          /\ y.proposal => current \in proposals' /\ approval'[current] # "none"
          /\ y.status = "rendered" => current \in video
          /\ Opening(current) => y.opened
          /\ HasThread(current) => y.proposal
  BY <1>3, AtRecording
<1>5. PathInv'
  BY <1>2 DEF PathInv
<1>6. /\ target \subseteq target' /\ target' \subseteq Recordings
      /\ proposals \subseteq proposals' /\ proposals' \subseteq Recordings
      /\ gate' \in Decisions /\ outcome' \in {"none", "sidecar", "unclean", "retryable", "refused"}
  BY <1>2 DEF IInv, TypeOK
<1> HIDE DEF s
<1> QED
  BY <1>1, <1>2, <1>3, <1>4, <1>5, <1>6, MainStep, ZenonT(40)

LEMMA JustLeave ==
    ASSUME IInv, pc \in Steps, Leave,
           UNCHANGED <<fixed, disk, attempted>>, Fault \/ NoFault, proposed' \subseteq Recordings
    PROVE  IInv'
<1>1. /\ work \in Sessions
      /\ work.sidecar => current \in target
      /\ work.status = "rendered" => current \in video
      /\ attempted \subseteq Recordings
  BY AtRecording DEF IInv, TypeOK
<1> DEFINE x == work
<1>2. /\ x \in Sessions /\ x.attempt = work.attempt /\ x.opened = work.opened
      /\ x.proposal = work.proposal
      /\ x.sidecar => current \in target
      /\ x.status = "rendered" => current \in video
  BY <1>1
<1> HIDE DEF x
<1> QED
  BY <1>1, <1>2, LeaveStep DEF disk

\* The turn goes on with the working copy, which was stored or not.
LEMMA GoOnStep ==
    ASSUME IInv, pc \in Steps, pc' \in Steps, current' = current, work' \in Sessions,
           session' = [session EXCEPT ![current] = work'] \/ UNCHANGED session,
           UNCHANGED <<fixed, request, video>>, Fault \/ NoFault,
           gate' \in Decisions, outcome' \in {"none", "sidecar", "unclean", "retryable", "refused"},
           attempted' \subseteq Recordings, proposed' \subseteq Recordings,
           target \subseteq target', target' \subseteq Recordings,
           proposals \subseteq proposals', proposals' \subseteq Recordings,
           \/ UNCHANGED approval
           \/ approval' = [approval EXCEPT ![current] = IF @ = "none" THEN "pending" ELSE @],
           pc' = "launch" => work'.opened /\ ~HasThread(current)
                                /\ session' = [session EXCEPT ![current] = work'],
           work'.attempt = work.attempt,
           work'.sidecar => current \in target',
           work'.proposal => current \in proposals' /\ approval'[current] # "none",
           work'.status = "rendered" => current \in video,
           work.opened => work'.opened, work.proposal => work'.proposal,
           PathInv'
    PROVE  IInv'
<1> DEFINE w == work'
           s == IF session' = [session EXCEPT ![current] = w] THEN w ELSE session[current]
<1>1. /\ s \in Sessions /\ w \in Sessions /\ session' = [session EXCEPT ![current] = s]
      /\ timeouts = 0 => s.attempt = session[current].attempt /\ w.attempt = s.attempt
      /\ pc' = "launch" => s.opened /\ w.opened /\ ~HasThread(current)
  BY AtRecording
<1>2. /\ approval' \in [Recordings -> Decisions]
      /\ \A r \in Recordings : approval[r] # "none" => approval'[r] = approval[r]
  BY AtRecording DEF IInv, TypeOK
<1>3. \A y \in {s, w} :
          /\ y.sidecar => current \in target'
          /\ y.proposal => current \in proposals' /\ approval'[current] # "none"
          /\ y.status = "rendered" => current \in video
          /\ Opening(current) => y.opened
          /\ HasThread(current) => y.proposal
  BY <1>2, AtRecording
<1>4. work' = w
  OBVIOUS
<1> HIDE DEF s, w
<1> QED
  BY <1>1, <1>2, <1>3, <1>4, MainStep, ZenonT(40)

----------------------------------------------------------------------------
(* The steps of the main thread at a recording.                            *)

LEMMA SourceInv ==
    ASSUME IInv,
           \/ SourceOutsideRoot \/ SourceMissing \/ SkipFinalizer \/ ProjectFails \/ BeginFinalizer
           \/ FinalizerCommits \/ FinalizerConflicts \/ FinalizerFails \/ StoreOutcome
    PROVE  IInv'
<1>0. /\ pc \in Steps /\ current \in Recordings /\ work \in Sessions
      /\ attempted \subseteq Recordings /\ proposed \subseteq Recordings
      /\ target \subseteq Recordings /\ proposals \subseteq Recordings /\ gate \in Decisions
  BY AtRecording DEF IInv, TypeOK, SourceOutsideRoot, SourceMissing, SkipFinalizer, ProjectFails,
         BeginFinalizer, FinalizerCommits, FinalizerConflicts, FinalizerFails, StoreOutcome
<1>1. CASE SourceOutsideRoot \/ SourceMissing \/ ProjectFails
  <2>1. PICK x \in {[work EXCEPT !.status = "refused"], [work EXCEPT !.status = "retryable"]} :
            StoreAndLeave(x)
    BY <1>1 DEF SourceOutsideRoot, SourceMissing, ProjectFails
  <2>2. /\ x \in Sessions /\ x.attempt = work.attempt /\ x.opened = work.opened
        /\ x.proposal = work.proposal /\ x.sidecar = work.sidecar /\ x.status # "rendered"
    BY <1>0 DEF Sessions
  <2> QED
    BY <1>0, <1>1, <2>1, <2>2, AtRecording, LeaveStep
       DEF SourceOutsideRoot, SourceMissing, ProjectFails, NoFault
<1>2. CASE SkipFinalizer
  BY <1>0, <1>2, JustLeave DEF SkipFinalizer, NoFault
<1>3. CASE BeginFinalizer
  <2>1. PathInv'
    BY <1>3 DEF BeginFinalizer, GoTo, fixed, threads, IInv, PathInv, HasThread
  <2>2. work' = [work EXCEPT !.status = "finalizing"]
    BY <1>3 DEF BeginFinalizer, Store
  <2>3. /\ work' \in Sessions /\ work'.attempt = work.attempt /\ work'.opened = work.opened
        /\ work'.proposal = work.proposal /\ work'.sidecar = work.sidecar
        /\ work'.status # "rendered"
    BY <1>0, <2>2 DEF Sessions
  <2> QED
    BY <1>0, <1>3, <2>1, <2>3, AtRecording, GoOnStep
       DEF BeginFinalizer, Store, GoTo, NoFault, IInv, TypeOK
<1>4. CASE FinalizerCommits \/ FinalizerConflicts \/ FinalizerFails
  <2>1. /\ pc = "finalize" /\ pc' = "outcome" /\ current' = current /\ work' = work /\ gate' = gate
        /\ session' = session /\ attempted' = attempted /\ proposed' = proposed
        /\ UNCHANGED <<fixed, request, video, approval, proposals>> /\ (Fault \/ NoFault)
    BY <1>4 DEF FinalizerCommits, FinalizerConflicts, FinalizerFails, GoTo, disk, NoFault
  <2>2. /\ target \subseteq target' /\ target' \subseteq Recordings
        /\ outcome' \in {"sidecar", "unclean", "retryable", "refused"}
        /\ outcome' \in {"sidecar", "unclean"} => current \in target'
    BY <1>0, <1>4 DEF FinalizerCommits, FinalizerConflicts, FinalizerFails, disk
  <2>3. PathInv'
    BY <2>1, <2>2 DEF IInv, PathInv
  <2>4. /\ work.sidecar => current \in target'
        /\ work.proposal => current \in proposals' /\ approval'[current] # "none"
        /\ work.status = "rendered" => current \in video
    BY <1>0, <2>1, <2>2, AtRecording
  <2> QED
    BY <1>0, <2>1, <2>2, <2>3, <2>4, GoOnStep
<1>5. CASE StoreOutcome
  <2>1. outcome # "none" /\ (outcome \in {"sidecar", "unclean"} => current \in target)
          /\ outcome \in {"sidecar", "unclean", "retryable", "refused"}
    BY <1>5 DEF StoreOutcome, IInv, PathInv, TypeOK
  <2>2. CASE outcome = "sidecar"
    <3>1. PathInv'
      BY <1>5, <2>2 DEF StoreOutcome, Store, GoTo, fixed, threads, IInv, PathInv, HasThread
    <3>2. work' = [work EXCEPT !.status = "sidecar", !.sidecar = TRUE]
      BY <1>5, <2>2 DEF StoreOutcome, Store
    <3>3. /\ work' \in Sessions /\ work'.attempt = work.attempt /\ work'.opened = work.opened
          /\ work'.proposal = work.proposal /\ work'.status # "rendered"
      BY <1>0, <3>2 DEF Sessions
    <3> QED
      BY <1>0, <1>5, <2>1, <2>2, <3>1, <3>3, AtRecording, GoOnStep
         DEF StoreOutcome, Store, GoTo, NoFault
  <2>3. CASE outcome # "sidecar"
    <3> DEFINE x == IF outcome = "unclean"
                    THEN [work EXCEPT !.status = "retryable", !.sidecar = TRUE]
                    ELSE [work EXCEPT !.status = outcome, !.sidecar = FALSE]
    <3>1. StoreAndLeave(x)
      BY <1>5, <2>3 DEF StoreOutcome
    <3>2. /\ x \in Sessions /\ x.attempt = work.attempt /\ x.opened = work.opened
          /\ x.proposal = work.proposal /\ x.status # "rendered"
          /\ x.sidecar => current \in target
      BY <1>0, <2>1, <2>3 DEF Sessions
    <3> HIDE DEF x
    <3> QED
      BY <1>0, <1>5, <3>1, <3>2, LeaveStep DEF StoreOutcome, NoFault
  <2> QED
    BY <2>2, <2>3
<1> QED
  BY <1>1, <1>2, <1>3, <1>4, <1>5

LEMMA ProposeInv ==
    ASSUME IInv,
           LoadProposal \/ SkipProposal \/ BeginAnalysis \/ Analyse \/ Complete \/ InspectGate
    PROVE  IInv'
<1>0. /\ pc \in Steps /\ current \in Recordings /\ work \in Sessions
      /\ attempted \subseteq Recordings /\ proposed \subseteq Recordings
      /\ target \subseteq Recordings /\ proposals \subseteq Recordings /\ gate \in Decisions
      /\ outcome \in {"none", "sidecar", "unclean", "retryable", "refused"}
      /\ approval \in [Recordings -> Decisions]
  BY AtRecording DEF IInv, TypeOK, LoadProposal, SkipProposal, BeginAnalysis, Analyse, Complete,
         InspectGate
<1> DEFINE failed == [work EXCEPT !.status = "proposal_failed"]
<1>1. /\ failed \in Sessions /\ failed.attempt = work.attempt /\ failed.opened = work.opened
      /\ failed.proposal = work.proposal /\ failed.sidecar = work.sidecar
      /\ failed.status # "rendered"
  BY <1>0 DEF Sessions
<1>2. ASSUME StoreAndLeave(failed), UNCHANGED <<fixed, request, video, target, attempted>>,
             Fault \/ NoFault, UNCHANGED proposals, proposed' \subseteq Recordings,
             \/ UNCHANGED approval
             \/ approval' = [approval EXCEPT ![current] = IF @ = "none" THEN "pending" ELSE @]
      PROVE  IInv'
  <2> HIDE DEF failed
  <2> QED
    BY <1>0, <1>1, <1>2, AtRecording, LeaveStep
<1>3. CASE SkipProposal
  BY <1>0, <1>3, JustLeave DEF SkipProposal, NoFault
<1>4. CASE LoadProposal
  <2>1. CASE StoreAndLeave(failed)
    BY <1>0, <1>2, <1>4, <2>1 DEF LoadProposal
  <2>2. CASE ~StoreAndLeave(failed)
    <3>1. PathInv'
      BY <1>4, <2>2 DEF LoadProposal, GoTo, fixed, threads, IInv, PathInv, HasThread
    <3> QED
      BY <1>0, <1>4, <2>2, <3>1, AtRecording, GoOnStep DEF LoadProposal, GoTo
  <2> QED
    BY <2>1, <2>2
<1>5. CASE BeginAnalysis
  <2>1. ~HasThread(current)
    BY <1>5, AtRecording DEF BeginAnalysis
  <2>2. PathInv'
    BY <1>5, <2>1 DEF BeginAnalysis, GoTo, fixed, threads, IInv, PathInv, HasThread
  <2>3. work' = [work EXCEPT !.status = "analysing"]
    BY <1>5 DEF BeginAnalysis, Store
  <2>4. /\ work' \in Sessions /\ work'.attempt = work.attempt /\ work'.opened = work.opened
        /\ work'.proposal = work.proposal /\ work'.sidecar = work.sidecar
        /\ work'.status # "rendered"
    BY <1>0, <2>3 DEF Sessions
  <2> QED
    BY <1>0, <1>5, <2>2, <2>4, AtRecording, GoOnStep DEF BeginAnalysis, Store, GoTo, NoFault
<1>6. CASE Analyse
  <2>1. CASE StoreAndLeave(failed) /\ UNCHANGED proposals
    BY <1>0, <1>2, <1>6, <2>1 DEF Analyse
  <2>2. CASE ~(StoreAndLeave(failed) /\ UNCHANGED proposals)
    <3>1. PathInv'
      BY <1>6, <2>2 DEF Analyse, GoTo, fixed, threads, IInv, PathInv, HasThread
    <3> QED
      BY <1>0, <1>6, <2>2, <3>1, AtRecording, GoOnStep DEF Analyse, GoTo
  <2> QED
    BY <2>1, <2>2
<1>7. CASE Complete
  <2>1. CASE StoreAndLeave(failed)
    BY <1>0, <1>2, <1>7, <2>1 DEF Complete
  <2>2. CASE ~StoreAndLeave(failed)
    <3>1. approval'[current] # "none"
      BY <1>0, <1>7 DEF Complete
    <3>2. approval[current] \in Settles => approval'[current] \in Settles
      BY <1>0, <1>7 DEF Complete
    <3>3. PathInv'
      BY <1>7, <2>2, <3>1, <3>2 DEF Complete, GoTo, fixed, threads, IInv, PathInv, HasThread
    <3> QED
      BY <1>0, <1>7, <2>2, <3>1, <3>3, AtRecording, GoOnStep DEF Complete, GoTo
  <2> QED
    BY <2>1, <2>2
<1>8. CASE InspectGate
  <2>1. CASE StoreAndLeave(failed)
    BY <1>0, <1>2, <1>8, <2>1 DEF InspectGate
  <2>2. CASE ~StoreAndLeave(failed)
    <3>1. /\ gate' = approval[current] /\ current \in proposals /\ approval[current] # "none"
          /\ ~HasThread(current)
          /\ work' = [work EXCEPT !.status = "ready", !.proposal = TRUE, !.decision = gate']
      BY <1>8, <2>2 DEF InspectGate, Store, IInv, PathInv
    <3>2. /\ work' \in Sessions /\ work'.attempt = work.attempt /\ work'.opened = work.opened
          /\ work'.proposal /\ work'.sidecar = work.sidecar /\ work'.status # "rendered"
      BY <1>0, <3>1 DEF Sessions
    <3>3. PathInv'
      BY <1>8, <2>2, <3>1, <3>2 DEF InspectGate, GoTo, fixed, threads, IInv, PathInv, HasThread
    <3> QED
      BY <1>0, <1>8, <2>2, <3>1, <3>2, <3>3, AtRecording, GoOnStep DEF InspectGate, Store, GoTo
  <2> QED
    BY <2>1, <2>2
<1> QED
  BY <1>3, <1>4, <1>5, <1>6, <1>7, <1>8

LEMMA ReviewInv ==
    ASSUME IInv, OpenReview \/ StoreDecision \/ Refresh
    PROVE  IInv'
<1>0. /\ pc \in Steps /\ current \in Recordings /\ work \in Sessions
      /\ attempted \subseteq Recordings /\ proposed \subseteq Recordings
      /\ target \subseteq Recordings /\ proposals \subseteq Recordings /\ gate \in Decisions
      /\ outcome \in {"none", "sidecar", "unclean", "retryable", "refused"}
      /\ approval \in [Recordings -> Decisions]
  BY AtRecording DEF IInv, TypeOK, OpenReview, StoreDecision, Refresh
<1>1. CASE OpenReview
  <2>1. work' = [work EXCEPT !.opened = TRUE] /\ ~HasThread(current) /\ work.proposal
          /\ ~work.opened /\ session' = [session EXCEPT ![current] = work']
    BY <1>1 DEF OpenReview, Store, IInv, PathInv
  <2>2. /\ work' \in Sessions /\ work'.attempt = work.attempt /\ work'.opened
        /\ work'.proposal = work.proposal /\ work'.sidecar = work.sidecar
        /\ work'.status = work.status
    BY <1>0, <2>1 DEF Sessions
  <2>3. launches[current] = 0
    BY <1>0, <2>1, AtRecording DEF Opening, IInv, TypeOK
  <2>4. PathInv'
    BY <1>1, <2>1, <2>2, <2>3 DEF OpenReview, GoTo, fixed, threads, history, IInv, PathInv, HasThread
  <2> QED
    BY <1>0, <1>1, <2>1, <2>2, <2>4, AtRecording, GoOnStep DEF OpenReview, GoTo, NoFault
<1>2. CASE StoreDecision
  <2>1. work' = [work EXCEPT !.status = gate, !.decision = gate] /\ gate # "none" /\ work.proposal
    BY <1>2 DEF StoreDecision, Store, IInv, PathInv
  <2>2. /\ work' \in Sessions /\ work'.attempt = work.attempt /\ work'.opened = work.opened
        /\ work'.proposal = work.proposal /\ work'.sidecar = work.sidecar
        /\ work'.status # "rendered"
    BY <1>0, <2>1 DEF Sessions
  <2>3. PathInv'
    BY <1>2, <2>1, <2>2 DEF StoreDecision, GoTo, fixed, threads, IInv, PathInv, HasThread
  <2> QED
    BY <1>0, <1>2, <2>2, <2>3, AtRecording, GoOnStep DEF StoreDecision, Store, GoTo, NoFault
<1>3. CASE Refresh
  <2> DEFINE failed == [work EXCEPT !.status = "proposal_failed"]
  <2>1. CASE StoreAndLeave(failed)
    <3>1. /\ failed \in Sessions /\ failed.attempt = work.attempt /\ failed.opened = work.opened
          /\ failed.proposal = work.proposal /\ failed.sidecar = work.sidecar
          /\ failed.status # "rendered"
      BY <1>0 DEF Sessions
    <3>2. StoreAndLeave(failed)
      BY <2>1
    <3> HIDE DEF failed
    <3> QED
      BY <1>0, <1>3, <3>1, <3>2, AtRecording, LeaveStep DEF Refresh
  <2>2. CASE ~StoreAndLeave(failed)
    <3>1. /\ gate' = approval[current] /\ work' = work /\ work.proposal /\ approval[current] # "none"
          /\ pc' \in {"request", "open", "decide"} /\ current' = current
          /\ pc' = "open" => ~work.opened /\ approval[current] = "pending"
      BY <1>3, <2>2, AtRecording DEF Refresh, GoTo, IInv, PathInv
    <3>2. HasThread(current) => approval[current] \in Settles
      BY DEF HasThread, IInv, CopiesInv
    <3>3. PathInv'
      BY <1>3, <2>2, <3>1, <3>2 DEF Refresh, fixed, threads, IInv, PathInv, HasThread
    <3> QED
      BY <1>0, <1>3, <2>2, <3>1, <3>3, AtRecording, GoOnStep DEF Refresh
  <2> QED
    BY <2>1, <2>2
<1> QED
  BY <1>1, <1>2, <1>3

\* The launch is counted; the stored claim was there before.
LEMMA LaunchInv ==
    ASSUME IInv, LaunchReview
    PROVE  IInv'
<1> USE DEF IInv, LaunchReview, disk, threads, bounds, GoTo
<1>1. /\ pc = "launch" /\ pc' = "decide" /\ current' = current /\ current \in Recordings
      /\ launches[current] = 0 /\ ~HasThread(current) /\ gate # "none"
  BY AtRecording DEF PathInv
<1>2. \A r \in Recordings : launches'[r] = launches[r] \/ (r = current /\ launches'[r] = 1)
  BY <1>1 DEF TypeOK
<1>3. launches' \in [Recordings -> Nat]
  BY <1>1 DEF TypeOK
<1>4. TypeOK'
  BY <1>3, FaultsBounded DEF TypeOK, NoFault
<1>5. \A r \in Recordings : (Opening(r)' => Opening(r)) /\ HasThread(r)' = HasThread(r)
  BY <1>1, <1>2 DEF Opening, HasThread, TypeOK
<1>6. CopiesInv'
  BY <1>1, <1>5, Sessioned DEF CopiesInv, Good
<1>7. PathInv'
  BY <1>1, <1>5 DEF PathInv
<1>8. NothingTwice'
  BY <1>2 DEF NothingTwice, AutoOpenOnce, AttemptStartedOnce
<1>9. AttemptInv'
  BY <1>1 DEF AttemptInv
<1> QED
  BY <1>4, <1>6, <1>7, <1>8, <1>9

LEMMA CountedOnce ==
    ASSUME NEW D, NEW f \in [D -> Nat], NEW n \in D
    PROVE  /\ [f EXCEPT ![n] = @ + 1] \in [D -> Nat]
           /\ \A m \in D : [f EXCEPT ![n] = @ + 1][m] = IF m = n THEN f[m] + 1 ELSE f[m]
OBVIOUS

\* The session s of the recording c is stored and the thread of request n starts.
LEMMA LaunchedInv ==
    ASSUME IInv, StartRender, NEW c \in Recordings, c = current, NEW n, n = request[current],
           NEW s, s = [work EXCEPT !.status = "rendering", !.attempt = n]
    PROVE  IInv'
<1> USE DEF IInv, StartRender, Launch, StoreAndLeave, Leave, GoTo, bounds
<1> DEFINE new == [at |-> "render", recording |-> c, attempt |-> n, done |-> FALSE, copy |-> s]
<1>1. /\ pc = "request" /\ work \in Sessions /\ work.proposal
      /\ gate = "approved" /\ n # 0 /\ n \in 1 .. MaxRequests /\ approval[c] \in Settles
      /\ thread["own"] = NoWorker /\ work.attempt # n /\ session[c] # NoSession
  BY AtRecording, Bounds, SMTT(30) DEF PathInv, Requested, TypeOK
<1>0. /\ work.sidecar => c \in target
      /\ c \in proposals /\ approval[c] # "none"
      /\ Opening(c) => work.opened
  BY <1>1, AtRecording
<1>2. /\ s \in Sessions /\ s.opened = work.opened /\ s.proposal = work.proposal
      /\ s.sidecar = work.sidecar /\ s.status # "rendered" /\ s.attempt = n
  <2>1. n \in 0 .. MaxRequests
    BY <1>1, Bounds
  <2> QED
    BY <1>1, <2>1 DEF Sessions
<1>3. /\ session' = [session EXCEPT ![c] = s]
      /\ thread' = [thread EXCEPT !["own"] = new]
      /\ renders' = [renders EXCEPT ![c][n] = @ + 1]
      /\ pc' = "idle" /\ current' = NoRecording /\ work' = NoSession /\ gate' = "none"
  OBVIOUS
<1>4. s # NoSession /\ new \in Workers /\ new # NoWorker
  BY <1>1, <1>2, NoSessionIsNone, NoWorkerIsNone DEF Workers
<1>5. /\ \A r \in Recordings : session'[r] = IF r = c THEN s ELSE session[r]
      /\ thread'["own"] = new /\ thread'["former"] = thread["former"]
  BY <1>3 DEF TypeOK
<1>6. /\ renders' \in [Recordings -> [1 .. MaxRequests -> Nat]]
      /\ \A r \in Recordings : \A m \in 1 .. MaxRequests :
             renders'[r][m] = IF r = c /\ m = n THEN renders[r][m] + 1 ELSE renders[r][m]
  <2> DEFINE row == [renders[c] EXCEPT ![n] = @ + 1]
  <2>1. renders[c] \in [1 .. MaxRequests -> Nat]
    BY DEF TypeOK
  <2>2. /\ row \in [1 .. MaxRequests -> Nat]
        /\ \A m \in 1 .. MaxRequests : row[m] = IF m = n THEN renders[c][m] + 1 ELSE renders[c][m]
    BY <1>1, <2>1, CountedOnce
  <2>3. renders' = [renders EXCEPT ![c] = row]
    BY <1>3
  <2>4. renders \in [Recordings -> [1 .. MaxRequests -> Nat]]
    BY DEF TypeOK
  <2> HIDE DEF row
  <2>5. renders' \in [Recordings -> [1 .. MaxRequests -> Nat]]
    BY <2>2, <2>3, <2>4
  <2>6. \A r \in Recordings : renders'[r] = IF r = c THEN row ELSE renders[r]
    BY <2>3, <2>4
  <2> QED
    BY <2>2, <2>5, <2>6
<1>7. TypeOK'
  BY <1>1, <1>2, <1>3, <1>4, <1>6 DEF TypeOK
<1>8. \A r \in Recordings : /\ Opening(r)' => Opening(r)
                            /\ HasThread(r)' => HasThread(r) \/ r = c
  BY <1>1, <1>3, <1>5 DEF Opening, HasThread
<1>9. CopiesInv'
  <2>1. ASSUME NEW r \in Recordings
        PROVE  IF session'[r] = NoSession THEN ~Opening(r)' ELSE Good(r, session[r])'
    <3>1. CASE r = c
      <4>1. Good(c, s)'
        BY <1>0, <1>1, <1>2, <1>8 DEF Good
      <4>2. session'[c] = s
        BY <1>5
      <4>3. Good(c, session[c])'
        BY <4>1, <4>2 DEF Good
      <4> QED
        BY <1>4, <3>1, <4>2, <4>3
    <3>2. CASE r # c
      BY <1>5, <1>8, <3>2 DEF CopiesInv, Good
    <3> QED
      BY <3>1, <3>2
  <2>2. ASSUME thread["former"] # NoWorker
        PROVE  /\ session'[thread'["former"].recording] # NoSession
               /\ Good(thread["former"].recording, thread["former"].copy)'
               /\ approval'[thread'["former"].recording] \in Settles
               /\ thread'["former"].done => thread'["former"].recording \in video'
    <3>1. /\ thread["former"].recording \in Recordings /\ HasThread(thread["former"].recording)
          /\ Good(thread["former"].recording, thread["former"].copy)
      BY <2>2, Sessioned DEF CopiesInv, HasThread
    <3>2. Good(thread["former"].recording, thread["former"].copy)'
      BY <1>5, <1>8, <3>1 DEF Good
    <3> QED
      BY <1>4, <1>5, <2>2, <3>1, <3>2 DEF CopiesInv
  <2>3. /\ session'[thread'["own"].recording] # NoSession
        /\ Good(thread["own"].recording, thread["own"].copy)'
        /\ approval'[thread'["own"].recording] \in Settles /\ ~thread'["own"].done
    <3>1. thread'["own"].recording = c /\ thread'["own"].copy = s /\ ~thread'["own"].done
      BY <1>5
    <3>2. Good(c, s)'
      BY <1>0, <1>1, <1>2, <1>8 DEF Good
    <3>3. Good(thread["own"].recording, thread["own"].copy)'
      BY <3>1, <3>2 DEF Good, Opening, HasThread
    <3> QED
      BY <1>1, <1>4, <1>5, <3>1, <3>3
  <2>4. pc' \notin Steps
    BY <1>3
  <2> QED
    BY <1>5, <2>1, <2>2, <2>3, <2>4 DEF CopiesInv
<1>10. PathInv'
  BY <1>3 DEF PathInv
<1>11. timeouts = 0 => renders[c][n] = 0
  <2>1. renders[c][n] \in Nat
    BY <1>1 DEF TypeOK
  <2>2. timeouts = 0 => session[c].attempt <= n /\ session[c].attempt # n
    BY <1>1, AtRecording DEF AttemptInv
  <2>3. session[c].attempt \in Nat
    BY AtRecording, Bounds DEF Sessions
  <2>4. timeouts = 0 /\ renders[c][n] > 0 => n <= session[c].attempt
    BY <1>1 DEF AttemptInv
  <2> QED
    BY <1>1, <2>1, <2>2, <2>3, <2>4
<1>12. NothingTwice'
  BY <1>11, <1>6 DEF NothingTwice, AutoOpenOnce, AttemptStartedOnce
<1>13. AttemptInv'
  <2> SUFFICES ASSUME timeouts = 0 PROVE AttemptInv'
    BY DEF AttemptInv
  <2>1. session[c].attempt <= n /\ session[c].attempt \in Nat /\ n \in Nat
    BY <1>1, AtRecording, Bounds DEF AttemptInv, Sessions
  <2>2. \A r \in Recordings : session'[r] # NoSession => session'[r].attempt <= request[r]
    BY <1>1, <1>2, <1>5, <2>1 DEF AttemptInv
  <2>3. \A r \in Recordings : \A m \in 1 .. MaxRequests : renders'[r][m] > 0 =>
            session'[r] # NoSession /\ m <= session'[r].attempt
    <3> SUFFICES ASSUME NEW r \in Recordings, NEW m \in 1 .. MaxRequests, renders'[r][m] > 0
                 PROVE  session'[r] # NoSession /\ m <= session'[r].attempt
      OBVIOUS
    <3>1. CASE r = c /\ m = n
      <4>1. session'[r] = s /\ s.attempt = n /\ n <= n
        BY <1>2, <1>5, <2>1, <3>1
      <4> QED
        BY <1>4, <3>1, <4>1
    <3>2. CASE r # c
      BY <1>5, <1>6, <3>2 DEF AttemptInv
    <3>3. CASE r = c /\ m # n
      <4>1. m <= session[c].attempt
        BY <1>6, <3>3 DEF AttemptInv
      <4> QED
        BY <1>2, <1>4, <1>5, <2>1, <3>3, <4>1
    <3> QED
      BY <3>1, <3>2, <3>3
  <2>4. thread'["own"].attempt = session'[thread'["own"].recording].attempt
    <3>1. thread'["own"].attempt = n /\ thread'["own"].recording = c
      BY <1>5
    <3>2. session'[c] = s /\ s.attempt = n
      BY <1>2, <1>5
    <3> QED
      BY <3>1, <3>2
  <2>5. thread'["former"] = NoWorker /\ pc' \notin Steps
    BY <1>3, <1>5 DEF AttemptInv
  <2> QED
    BY <2>2, <2>3, <2>4, <2>5 DEF AttemptInv
<1> QED
  BY <1>7, <1>9, <1>10, <1>12, <1>13

LEMMA StartRenderInv == ASSUME IInv, StartRender PROVE IInv'
<1>1. current \in Recordings
  BY AtRecording DEF StartRender
<1> QED
  BY <1>1, LaunchedInv

LEMMA RenderRequestInv ==
    ASSUME IInv, NothingToRender \/ ObserveRender \/ Raise
    PROVE  IInv'
<1>0. /\ pc \in Steps /\ work \in Sessions
      /\ attempted \subseteq Recordings /\ proposed \subseteq Recordings
  BY AtRecording DEF IInv, TypeOK, NothingToRender, ObserveRender, Raise
<1>1. CASE NothingToRender \/ Raise
  BY <1>0, <1>1, JustLeave DEF NothingToRender, Raise, NoFault
<1>2. CASE ObserveRender
  <2> DEFINE interrupted == [work EXCEPT !.status = "render_failed"]
  <2>1. /\ interrupted \in Sessions /\ interrupted.attempt = work.attempt
        /\ interrupted.opened = work.opened /\ interrupted.proposal = work.proposal
        /\ interrupted.sidecar = work.sidecar /\ interrupted.status # "rendered"
    BY <1>0 DEF Sessions
  <2>2. StoreAndLeave(interrupted) \/ (Leave /\ UNCHANGED session)
    BY <1>2 DEF ObserveRender
  <2> HIDE DEF interrupted
  <2> QED
    BY <1>0, <1>2, <2>1, <2>2, AtRecording, LeaveStep DEF ObserveRender, NoFault
<1> QED
  BY <1>1, <1>2

LEMMA ProcessInv == ASSUME IInv, Process PROVE IInv'
BY SourceInv, ProposeInv, ReviewInv, LaunchInv, RenderRequestInv, StartRenderInv DEF Process

----------------------------------------------------------------------------
(* The process, the poll, the user.                                        *)

\* A new process knows nothing and has at most the thread left behind.
LEMMA FreshInv ==
    ASSUME IInv, NEW l \in {thread["former"], thread["own"]}, FreshMemory(l),
           pc' \in {"down", "idle"},
           UNCHANGED <<journals, disk, history, decisions, faults>>,
           starts' \in 0 .. MaxStarts, timeouts' \in 0 .. MaxTimeouts,
           timeouts' = 0 => timeouts = 0 /\ l = thread["former"]
    PROVE  IInv'
<1> USE DEF IInv, FreshMemory, disk, history
<1>1. thread' = [own |-> NoWorker, former |-> l] /\ l \in Workers \cup {NoWorker}
  BY DEF TypeOK
<1>2. thread'["own"] = NoWorker /\ thread'["former"] = l
        /\ thread' \in [Threads -> Workers \cup {NoWorker}]
  BY <1>1
<1>3. TypeOK'
  BY <1>2 DEF TypeOK
<1>4. \A r \in Recordings : (Opening(r)' => Opening(r)) /\ (HasThread(r)' => HasThread(r))
  BY <1>2 DEF Opening, HasThread
<1>5. CopiesInv'
  <2>1. ASSUME NEW r \in Recordings
        PROVE  IF session'[r] = NoSession THEN ~Opening(r)' ELSE Good(r, session[r])'
    BY <1>4 DEF CopiesInv, Good
  <2>2. ASSUME NEW u \in Threads, thread[u] # NoWorker, l = thread[u]
        PROVE  /\ session'[thread'["former"].recording] # NoSession
               /\ Good(thread["former"].recording, thread["former"].copy)'
               /\ approval'[thread'["former"].recording] \in Settles
               /\ thread'["former"].done => thread'["former"].recording \in video'
    <3>1. /\ l.recording \in Recordings /\ session[l.recording] # NoSession
          /\ Good(l.recording, l.copy) /\ approval[l.recording] \in Settles
          /\ l.done => l.recording \in video
      BY <2>2, Sessioned DEF CopiesInv
    <3>2. Good(l.recording, l.copy)'
      BY <1>4, <3>1 DEF Good
    <3>3. Good(thread["former"].recording, thread["former"].copy)'
      BY <1>2, <3>2 DEF Good, Opening, HasThread
    <3> QED
      BY <1>2, <3>1, <3>3
  <2> QED
    BY <1>2, <2>1, <2>2 DEF CopiesInv
<1>6. PathInv'
  BY DEF PathInv
<1>7. NothingTwice'
  BY DEF NothingTwice, AutoOpenOnce, AttemptStartedOnce
<1>8. AttemptInv'
  BY <1>2 DEF AttemptInv
<1> QED
  BY <1>3, <1>5, <1>6, <1>7, <1>8

LEMMA LifeInv ==
    ASSUME IInv, Start \/ Crash \/ Stopped \/ StoppedWithoutThread
    PROVE  IInv'
<1> USE Bounds DEF IInv
<1>1. CASE Start
  <2>1. starts' \in 0 .. MaxStarts /\ timeouts' \in 0 .. MaxTimeouts /\ timeouts' = timeouts
    BY <1>1 DEF Start, TypeOK
  <2>2. /\ FreshMemory(thread["former"]) /\ pc' = "idle"
        /\ UNCHANGED <<journals, disk, history, decisions, faults>>
    BY <1>1 DEF Start
  <2> QED
    BY <2>1, <2>2, FreshInv
<1>2. CASE Crash
  BY <1>2, FreshInv DEF Crash, bounds, TypeOK
<1>3. CASE Stopped
  BY <1>3, FreshInv DEF Stopped, bounds, TypeOK
<1>4. CASE StoppedWithoutThread
  BY <1>4, FreshInv, SMTT(30) DEF StoppedWithoutThread, TypeOK
<1> QED
  BY <1>1, <1>2, <1>3, <1>4

\* A step that leaves memory and disk alone but for requests, journals and decisions.
LEMMA OutsideInv ==
    ASSUME IInv, UNCHANGED <<session, target, proposals, video, current, work, gate, outcome,
                             attempted, proposed, thread, history, starts, timeouts, faults>>,
           pc' = pc \/ (pc = "idle" /\ pc' = "stopping"), cancelled' \in BOOLEAN,
           journals' \subseteq Recordings, decisions' \in 0 .. MaxDecisions,
           request' \in [Recordings -> 0 .. MaxRequests],
           \A r \in Recordings : request'[r] >= request[r],
           approval' \in [Recordings -> Decisions],
           \A r \in Recordings : approval'[r] = approval[r]
                                     \/ (approval[r] # "none" /\ approval'[r] \in Settles)
    PROVE  IInv'
<1> USE DEF IInv, history
<1>1. TypeOK'
  BY SMTT(30) DEF TypeOK
<1>2. \A r \in Recordings : Opening(r)' = Opening(r) /\ HasThread(r)' = HasThread(r)
  BY DEF Opening, HasThread
<1>3. CopiesInv'
  <2>1. \A r \in Recordings : IF session'[r] = NoSession THEN ~Opening(r)' ELSE Good(r, session[r])'
    BY <1>2 DEF CopiesInv, Good
  <2>2. pc' \in Steps => session'[current'] # NoSession /\ Good(current, work)'
    BY <1>2 DEF CopiesInv, Good, TypeOK, Opening, HasThread
  <2>3. ASSUME NEW t \in Threads, thread'[t] # NoWorker
        PROVE  /\ session'[thread'[t].recording] # NoSession
               /\ Good(thread[t].recording, thread[t].copy)'
               /\ approval'[thread'[t].recording] \in Settles
               /\ thread'[t].done => thread'[t].recording \in video'
    <3>1. /\ thread' = thread /\ thread[t].recording \in Recordings
          /\ session[thread[t].recording] # NoSession
          /\ Good(thread[t].recording, thread[t].copy)
          /\ approval[thread[t].recording] \in Settles
          /\ thread[t].done => thread[t].recording \in video
      BY <2>3, Sessioned DEF CopiesInv
    <3>2. Good(thread[t].recording, thread[t].copy)'
      BY <3>1, <1>2 DEF Good, Opening, HasThread
    <3> QED
      BY <3>1, <3>2
  <2> QED
    BY <2>1, <2>2, <2>3 DEF CopiesInv
<1>4. PathInv'
  BY <1>2 DEF PathInv, TypeOK, HasThread
<1>5. NothingTwice'
  BY DEF NothingTwice, AutoOpenOnce, AttemptStartedOnce
<1>6. AttemptInv'
  <2> SUFFICES ASSUME timeouts = 0 PROVE AttemptInv'
    BY DEF AttemptInv
  <2>1. \A r \in Recordings : session[r] # NoSession => session[r].attempt <= request'[r]
    <3> SUFFICES ASSUME NEW r \in Recordings, session[r] # NoSession
                 PROVE  session[r].attempt <= request'[r]
      OBVIOUS
    <3>1. session[r].attempt \in Nat /\ request[r] \in Nat /\ request'[r] \in Nat
      BY Sessioned, Bounds DEF Sessions, TypeOK
    <3> QED
      BY <3>1 DEF AttemptInv
  <2> QED
    BY <2>1 DEF AttemptInv
<1> QED
  BY <1>1, <1>3, <1>4, <1>5, <1>6

LEMMA UserInv ==
    ASSUME IInv, NEW r \in Recordings,
           JournalCompletes(r) \/ (\E d \in {"approved", "rejected"} : Decide(r, d))
               \/ RequestRender(r)
    PROVE  IInv'
<1> USE DEF IInv
<1>0. /\ \A q \in Recordings : request[q] \in 0 .. MaxRequests /\ request[q] \in Nat
      /\ request \in [Recordings -> 0 .. MaxRequests] /\ approval \in [Recordings -> Decisions]
      /\ journals \subseteq Recordings /\ cancelled \in BOOLEAN /\ decisions \in 0 .. MaxDecisions
  BY Bounds DEF TypeOK
<1>1. CASE JournalCompletes(r)
  <2>1. /\ UNCHANGED <<session, target, proposals, video, current, work, gate, outcome,
                       attempted, proposed, thread, history, starts, timeouts, faults>>
        /\ UNCHANGED <<pc, cancelled, decisions, request, approval>>
        /\ journals' \subseteq Recordings
    BY <1>0, <1>1 DEF JournalCompletes, disk, main, threads, bounds
  <2> QED
    BY <1>0, <2>1, OutsideInv
<1>2. ASSUME NEW d \in {"approved", "rejected"}, Decide(r, d) PROVE IInv'
  <2>1. /\ UNCHANGED <<session, target, proposals, video, current, work, gate, outcome,
                       attempted, proposed, thread, history, starts, timeouts, faults>>
        /\ UNCHANGED <<pc, cancelled, request, journals>>
        /\ decisions' \in 0 .. MaxDecisions
    BY <1>0, <1>2, Bounds DEF Decide, main, threads
  <2>2. /\ approval' \in [Recordings -> Decisions]
        /\ \A q \in Recordings : approval'[q] = approval[q]
               \/ (approval[q] # "none" /\ approval'[q] \in Settles)
    BY <1>0, <1>2 DEF Decide
  <2> QED
    BY <1>0, <2>1, <2>2, OutsideInv
<1>3. CASE RequestRender(r)
  <2>1. /\ UNCHANGED <<session, target, proposals, video, current, work, gate, outcome,
                       attempted, proposed, thread, history, starts, timeouts, faults>>
        /\ UNCHANGED <<pc, cancelled, decisions, approval, journals>>
    BY <1>3 DEF RequestRender, main, threads, bounds
  <2>2. request[r] + 1 \in 0 .. MaxRequests /\ request' = [request EXCEPT ![r] = request[r] + 1]
    BY <1>0, <1>3, Bounds DEF RequestRender
  <2>3. /\ request' \in [Recordings -> 0 .. MaxRequests]
        /\ \A q \in Recordings : request'[q] >= request[q]
    BY <1>0, <2>2
  <2> QED
    BY <1>0, <2>1, <2>3, OutsideInv
<1> QED
  BY <1>1, <1>2, <1>3

LEMMA StopInv == ASSUME IInv, Stop PROVE IInv'
<1> USE DEF IInv
<1>1. /\ request \in [Recordings -> 0 .. MaxRequests] /\ approval \in [Recordings -> Decisions]
      /\ journals \subseteq Recordings /\ decisions \in 0 .. MaxDecisions
      /\ \A q \in Recordings : request[q] \in Nat
  BY Bounds DEF TypeOK
<1>2. /\ UNCHANGED <<session, target, proposals, video, current, work, gate, outcome,
                     attempted, proposed, thread, history, starts, timeouts, faults>>
      /\ UNCHANGED <<decisions, request, approval, journals>>
      /\ pc = "idle" /\ pc' = "stopping" /\ cancelled' \in BOOLEAN
  BY DEF Stop, disk, bounds
<1> QED
  BY <1>1, <1>2, OutsideInv

LEMMA ClaimInv ==
    ASSUME IInv, NEW r \in Recordings, Claim(r)
    PROVE  IInv'
<1> USE DEF IInv, Claim, fixed, threads, history, bounds
<1>1. /\ Detected \in Sessions /\ ~Detected.sidecar /\ ~Detected.proposal /\ ~Detected.opened
      /\ Detected.status # "rendered" /\ Detected.attempt = 0 /\ Detected # NoSession
  <2>1. Detected \in Sessions
    BY Bounds DEF Detected, Sessions
  <2> QED
    BY <2>1, NoSessionIsNone DEF Detected
<1>2. ~Opening(r) /\ ~HasThread(r) /\ gate = "none" /\ pc = "idle"
  BY DEF CopiesInv, HasThread, PathInv
<1>3. \A q \in Recordings : session'[q] = IF q = r THEN Detected ELSE session[q]
  BY DEF TypeOK
<1>4. TypeOK'
  BY <1>1 DEF TypeOK
<1>5. \A q \in Recordings : (Opening(q)' => Opening(q)) /\ HasThread(q)' = HasThread(q)
  BY DEF Opening, HasThread
<1>6. CopiesInv'
  <2>1. \A q \in Recordings : IF session'[q] = NoSession THEN ~Opening(q)' ELSE Good(q, session[q])'
    <3> TAKE q \in Recordings
    <3>1. CASE q = r
      <4>1. Good(q, session[q])'
        BY <1>1, <1>2, <1>3, <1>5, <3>1 DEF Good
      <4> QED
        BY <1>1, <1>3, <3>1, <4>1
    <3>2. CASE q # r
      BY <1>3, <1>5, <3>2 DEF CopiesInv, Good
    <3> QED
      BY <3>1, <3>2
  <2>2. session'[r] # NoSession /\ Good(r, Detected)'
    BY <1>1, <1>2, <1>3, <1>5 DEF Good, Detected
  <2>3. Good(current, work)'
    BY <2>2 DEF Good, Opening, HasThread
  <2>4. ASSUME NEW t \in Threads, thread'[t] # NoWorker
        PROVE  /\ session'[thread'[t].recording] # NoSession
               /\ Good(thread[t].recording, thread[t].copy)'
               /\ approval'[thread'[t].recording] \in Settles
               /\ thread'[t].done => thread'[t].recording \in video'
    <3>1. /\ thread' = thread /\ thread[t].recording \in Recordings
          /\ session[thread[t].recording] # NoSession
          /\ Good(thread[t].recording, thread[t].copy)
          /\ approval[thread[t].recording] \in Settles
          /\ thread[t].done => thread[t].recording \in video
      BY <2>4, Sessioned DEF CopiesInv
    <3>2. Good(thread[t].recording, thread[t].copy)'
      BY <1>5, <3>1 DEF Good, Opening, HasThread
    <3> QED
      BY <1>1, <1>3, <3>1, <3>2
  <2> QED
    BY <2>1, <2>2, <2>3, <2>4 DEF CopiesInv
<1>7. PathInv'
  BY <1>2 DEF PathInv
<1>8. NothingTwice'
  BY DEF NothingTwice, AutoOpenOnce, AttemptStartedOnce
<1>9. AttemptInv'
  <2> SUFFICES ASSUME timeouts = 0 PROVE AttemptInv'
    BY DEF AttemptInv
  <2>1. thread["own"] # NoWorker =>
            thread["own"].recording \in Recordings /\ session[thread["own"].recording] # NoSession
    BY Sessioned DEF CopiesInv
  <2>2. request[r] \in Nat
    BY Bounds DEF TypeOK
  <2> QED
    BY <1>1, <1>3, <2>1, <2>2 DEF AttemptInv
<1> QED
  BY <1>4, <1>6, <1>7, <1>8, <1>9

LEMMA ResumeInv ==
    ASSUME IInv, NEW r \in Recordings, Resume(r)
    PROVE  IInv'
<1> USE DEF IInv, Resume, fixed, threads, history, bounds, disk
<1>1. /\ session[r] \in Sessions /\ pc' \in {"propose", "source"} /\ current' = r
      /\ work' = session[r] /\ gate' = "none" /\ Good(r, session[r])
  BY Sessioned DEF PathInv, CopiesInv
<1>2. TypeOK'
  BY <1>1 DEF TypeOK
<1>3. \A q \in Recordings : (Opening(q)' => Opening(q)) /\ HasThread(q)' = HasThread(q)
  BY <1>1 DEF Opening, HasThread
<1>4. CopiesInv'
  <2>1. \A q \in Recordings : IF session'[q] = NoSession THEN ~Opening(q)' ELSE Good(q, session[q])'
    BY <1>3 DEF CopiesInv, Good
  <2>2. Good(r, session[r])'
    BY <1>1, <1>3 DEF Good
  <2>3. Good(current, work)'
    BY <1>1, <2>2 DEF Good, Opening, HasThread
  <2>4. ASSUME NEW t \in Threads, thread'[t] # NoWorker
        PROVE  /\ session'[thread'[t].recording] # NoSession
               /\ Good(thread[t].recording, thread[t].copy)'
               /\ approval'[thread'[t].recording] \in Settles
               /\ thread'[t].done => thread'[t].recording \in video'
    <3>1. /\ thread' = thread /\ thread[t].recording \in Recordings
          /\ session[thread[t].recording] # NoSession
          /\ Good(thread[t].recording, thread[t].copy)
          /\ approval[thread[t].recording] \in Settles
          /\ thread[t].done => thread[t].recording \in video
      BY <2>4, Sessioned DEF CopiesInv
    <3>2. Good(thread[t].recording, thread[t].copy)'
      BY <1>3, <3>1 DEF Good, Opening, HasThread
    <3> QED
      BY <3>1, <3>2
  <2> QED
    BY <1>1, <2>1, <2>3, <2>4 DEF CopiesInv
<1>5. PathInv'
  BY <1>1 DEF PathInv
<1>6. NothingTwice' /\ AttemptInv'
  BY <1>1 DEF NothingTwice, AutoOpenOnce, AttemptStartedOnce, AttemptInv
<1> QED
  BY <1>2, <1>4, <1>5, <1>6

----------------------------------------------------------------------------
(* The render thread.                                                      *)

\* The thread t goes on as w, or is gone; the session of its recording is stored as s.
LEMMA ThreadGoes ==
    ASSUME IInv, NEW t \in Threads, thread[t] # NoWorker,
           NEW rec \in Recordings, rec = thread[t].recording,
           NEW w \in Workers \cup {NoWorker}, NEW s \in Sessions, Become(t, w),
           session' = [session EXCEPT ![rec] = s], UNCHANGED elsewhere, Fault \/ NoFault,
           video' = video \/ video' = video \cup {rec},
           s.attempt = session[rec].attempt \/ s.attempt = thread[t].attempt,
           w # NoWorker => /\ w.recording = rec /\ w.attempt = thread[t].attempt
                           /\ w.copy = thread[t].copy \/ w.copy = session[rec]
                           /\ w.done => rec \in video',
           \/ s = session[rec]
           \/ /\ s.sidecar = thread[t].copy.sidecar /\ s.proposal = thread[t].copy.proposal
              /\ s.opened = thread[t].copy.opened
              /\ s.status = "rendered" => rec \in video'
    PROVE  IInv'
<1> USE DEF IInv, elsewhere, main, history, bounds
<1>1. /\ thread' = [thread EXCEPT ![t] = w] /\ rec \in Recordings /\ session[rec] # NoSession
      /\ Good(rec, thread[t].copy) /\ Good(rec, session[rec]) /\ approval[rec] \in Settles
      /\ HasThread(rec)
  BY Sessioned DEF Become, CopiesInv, HasThread
<1>2. /\ \A r \in Recordings : session'[r] = IF r = rec THEN s ELSE session[r]
      /\ \A u \in Threads : thread'[u] = IF u = t THEN w ELSE thread[u]
      /\ s # NoSession
  BY <1>1, NoSessionIsNone DEF TypeOK
<1>3. TypeOK'
  BY <1>1, FaultsBounded DEF TypeOK
<1>4. \A r \in Recordings : Opening(r)' = Opening(r) /\ (HasThread(r)' => HasThread(r))
  BY <1>1, <1>2 DEF Opening, HasThread
<1>5. /\ target' = target /\ proposals' = proposals /\ approval' = approval /\ video \subseteq video'
  OBVIOUS
<1>6. \A r \in Recordings : \A x : Good(r, x) =>
          /\ x.sidecar => r \in target'
          /\ x.proposal => r \in proposals' /\ approval'[r] # "none"
          /\ x.status = "rendered" => r \in video'
          /\ Opening(r)' => x.opened
          /\ HasThread(r)' => x.proposal
  BY <1>4, <1>5 DEF Good
<1>7. /\ s.sidecar => rec \in target'
      /\ s.proposal => rec \in proposals' /\ approval'[rec] # "none"
      /\ s.status = "rendered" => rec \in video'
      /\ Opening(rec)' => s.opened
      /\ HasThread(rec)' => s.proposal
  <2>1. CASE s = session[rec]
    BY <1>1, <1>6, <2>1
  <2>2. CASE s # session[rec]
    <3>1. /\ s.sidecar = thread[t].copy.sidecar /\ s.proposal = thread[t].copy.proposal
          /\ s.opened = thread[t].copy.opened
          /\ s.status = "rendered" => rec \in video'
      BY <2>2
    <3>2. /\ thread[t].copy.sidecar => rec \in target'
          /\ thread[t].copy.proposal => rec \in proposals' /\ approval'[rec] # "none"
          /\ Opening(rec)' => thread[t].copy.opened
          /\ HasThread(rec)' => thread[t].copy.proposal
      BY <1>1, <1>6
    <3> QED
      BY <3>1, <3>2
  <2> QED
    BY <2>1, <2>2
<1>8. CopiesInv'
  <2>1. ASSUME NEW r \in Recordings
        PROVE  IF session'[r] = NoSession THEN ~Opening(r)' ELSE Good(r, session[r])'
    <3>1. CASE r = rec
      <4>1. Good(r, session[r])'
        BY <1>2, <1>7, <3>1 DEF Good
      <4> QED
        BY <1>2, <3>1, <4>1
    <3>2. CASE r # rec
      <4>1. session'[r] = session[r]
        BY <1>2, <3>2
      <4>2. CASE session[r] = NoSession
        BY <1>4, <4>1, <4>2 DEF CopiesInv
      <4>3. CASE session[r] # NoSession
        BY <1>6, <4>1, <4>3 DEF CopiesInv, Good
      <4> QED
        BY <4>2, <4>3, <4>1
    <3> QED
      BY <3>1, <3>2
  <2>2. pc' \in Steps => session'[current'] # NoSession /\ Good(current, work)'
    <3> SUFFICES ASSUME pc \in Steps PROVE session'[current'] # NoSession /\ Good(current, work)'
      OBVIOUS
    <3>1. current \in Recordings /\ session[current] # NoSession /\ Good(current, work)
      BY DEF TypeOK, CopiesInv
    <3>2. Good(current, work)'
      BY <1>6, <3>1 DEF Good, Opening, HasThread
    <3> QED
      BY <1>2, <3>1, <3>2
  <2>3. ASSUME NEW u \in Threads, thread'[u] # NoWorker
        PROVE  /\ session'[thread'[u].recording] # NoSession
               /\ Good(thread[u].recording, thread[u].copy)'
               /\ approval'[thread'[u].recording] \in Settles
               /\ thread'[u].done => thread'[u].recording \in video'
    <3>1. CASE u = t
      <4>1. thread'[u] = w /\ w # NoWorker
        BY <1>2, <2>3, <3>1
      <4>2. Good(rec, w.copy)
        BY <1>1, <4>1
      <4>3. thread'[u].recording = rec /\ thread'[u].copy = w.copy
        BY <4>1
      <4>4. Good(thread[u].recording, thread[u].copy)'
        BY <1>6, <4>2, <4>3 DEF Good, Opening, HasThread
      <4> QED
        BY <1>1, <1>2, <1>5, <4>1, <4>3, <4>4
    <3>2. CASE u # t
      <4>1. /\ thread'[u] = thread[u] /\ thread[u].recording \in Recordings
            /\ session[thread[u].recording] # NoSession
            /\ Good(thread[u].recording, thread[u].copy)
            /\ approval[thread[u].recording] \in Settles
            /\ thread[u].done => thread[u].recording \in video
        BY <1>2, <2>3, <3>2, Sessioned DEF CopiesInv
      <4>2. Good(thread[u].recording, thread[u].copy)'
        BY <1>6, <4>1 DEF Good, Opening, HasThread
      <4> QED
        BY <1>2, <1>5, <4>1, <4>2
    <3> QED
      BY <3>1, <3>2
  <2> QED
    BY <2>1, <2>2, <2>3 DEF CopiesInv
<1>9. PathInv'
  <2>1. pc \in Steps => (HasThread(current)' => HasThread(current))
    BY <1>4 DEF TypeOK, HasThread
  <2> QED
    BY <1>5, <2>1 DEF PathInv, HasThread
<1>10. NothingTwice'
  BY DEF NothingTwice, AutoOpenOnce, AttemptStartedOnce
<1>11. AttemptInv'
  <2> SUFFICES ASSUME timeouts = 0 PROVE AttemptInv'
    BY DEF AttemptInv
  <2>1. t = "own" /\ thread["own"].attempt = session[rec].attempt
    BY DEF AttemptInv
  <2>2. s.attempt = session[rec].attempt
    BY <2>1
  <2>3. \A r \in Recordings :
            /\ session'[r].attempt = session[r].attempt
            /\ session'[r] # NoSession <=> session[r] # NoSession
    BY <1>1, <1>2, <2>2
  <2>4. pc \in Steps => work'.attempt = session'[current'].attempt
    BY <2>3 DEF AttemptInv, TypeOK
  <2>5. thread'["own"] # NoWorker =>
            thread'["own"].attempt = session'[thread'["own"].recording].attempt
    BY <1>2, <2>1, <2>3
  <2>6. thread'["former"] = NoWorker
    BY <1>2, <2>1 DEF AttemptInv
  <2> QED
    BY <2>3, <2>4, <2>5, <2>6 DEF AttemptInv
<1> QED
  BY <1>3, <1>8, <1>9, <1>10, <1>11

LEMMA WorkerInv ==
    ASSUME IInv, NEW t \in Threads, RenderWorker(t)
    PROVE  IInv'
<1> DEFINE rec == thread[t].recording
<1>0. /\ thread[t] \in Workers /\ thread[t] # NoWorker /\ rec \in Recordings
      /\ thread[t].copy \in Sessions /\ thread[t].attempt \in 0 .. MaxRequests
      /\ session[rec] \in Sessions
      /\ thread[t].done => rec \in video
      /\ session = [session EXCEPT ![rec] = session[rec]]
      /\ NoWorker \in Workers \cup {NoWorker}
  <2>1. thread[t].at # "none"
    BY DEF RenderWorker, Render, ReadBack, StoreRender, ExitThread
  <2>2. thread[t] \in Workers /\ thread[t] # NoWorker
    BY <2>1, Working DEF IInv
  <2> QED
    BY <2>2, Sessioned DEF IInv, TypeOK, CopiesInv
<1>1. CASE Render(t)
  <2>1. PICK w \in {[thread[t] EXCEPT !.at = "read", !.done = TRUE], [thread[t] EXCEPT !.at = "read"]} :
            Become(t, w) /\ (w.done => rec \in video')
    BY <1>0, <1>1 DEF Render, Workers
  <2>2. /\ w \in Workers /\ w.recording = rec /\ w.attempt = thread[t].attempt
        /\ w.copy = thread[t].copy
    BY <1>0, <2>1 DEF Workers
  <2>3. /\ UNCHANGED elsewhere /\ session' = session /\ (Fault \/ NoFault)
        /\ video' = video \/ video' = video \cup {rec}
    BY <1>1 DEF Render, NoFault
  <2> QED
    BY <1>0, <2>1, <2>2, <2>3, ThreadGoes
<1>2. CASE ReadBack(t)
  <2> DEFINE w == [thread[t] EXCEPT !.at = "store", !.copy = session[rec]]
  <2>1. /\ w \in Workers /\ w.recording = rec /\ w.attempt = thread[t].attempt
        /\ w.copy = session[rec]
        /\ w.done => rec \in video
    BY <1>0 DEF Workers
  <2>2. Become(t, w) /\ UNCHANGED elsewhere /\ session' = session /\ video' = video /\ NoFault
    BY <1>2 DEF ReadBack, NoFault
  <2> HIDE DEF w
  <2> QED
    BY <1>0, <2>1, <2>2, ThreadGoes
<1>3. CASE StoreRender(t)
  <2>1. CASE Become(t, NoWorker) /\ UNCHANGED session
    BY <1>0, <1>3, <2>1, ThreadGoes DEF StoreRender
  <2>2. CASE ~(Become(t, NoWorker) /\ UNCHANGED session)
    <3> DEFINE w == [thread[t] EXCEPT !.at = "exit"]
               s == [thread[t].copy EXCEPT
                        !.status = IF thread[t].done THEN "rendered" ELSE "render_failed",
                        !.attempt = thread[t].attempt]
    <3>1. /\ w \in Workers /\ w.recording = rec /\ w.attempt = thread[t].attempt
          /\ w.copy = thread[t].copy
          /\ w.done => rec \in video
      BY <1>0 DEF Workers
    <3>2. /\ s \in Sessions /\ s.attempt = thread[t].attempt
          /\ s.sidecar = thread[t].copy.sidecar /\ s.proposal = thread[t].copy.proposal
          /\ s.opened = thread[t].copy.opened
          /\ s.status = "rendered" => rec \in video
      BY <1>0 DEF Sessions
    <3>3. /\ Become(t, w) /\ session' = [session EXCEPT ![rec] = s] /\ NoFault
          /\ UNCHANGED elsewhere /\ video' = video
      BY <1>3, <2>2 DEF StoreRender
    <3> HIDE DEF w, s
    <3> QED
      BY <1>0, <3>1, <3>2, <3>3, ThreadGoes
  <2> QED
    BY <2>1, <2>2
<1>4. CASE ExitThread(t)
  BY <1>0, <1>4, ThreadGoes DEF ExitThread, NoFault
<1> QED
  BY <1>1, <1>2, <1>3, <1>4 DEF RenderWorker

----------------------------------------------------------------------------
(* The theorems.                                                           *)

LEMMA InitInv == Init => IInv
<1> SUFFICES ASSUME Init PROVE IInv
  OBVIOUS
<1> USE Bounds, NoWorkerIsNone DEF Init
<1>1. TypeOK
  <2>1. /\ session \in [Recordings -> Sessions \cup {NoSession}]
        /\ approval \in [Recordings -> Decisions] /\ request \in [Recordings -> 0 .. MaxRequests]
        /\ thread \in [Threads -> Workers \cup {NoWorker}] /\ launches \in [Recordings -> Nat]
    OBVIOUS
  <2>2. renders \in [Recordings -> [1 .. MaxRequests -> Nat]]
    <3>1. [n \in 1 .. MaxRequests |-> 0] \in [1 .. MaxRequests -> Nat]
      OBVIOUS
    <3> QED
      BY <3>1
  <2>3. /\ starts \in 0 .. MaxStarts /\ faults \in 0 .. MaxFaults
        /\ decisions \in 0 .. MaxDecisions /\ timeouts \in 0 .. MaxTimeouts
    OBVIOUS
  <2>4. /\ pc \in {"down", "idle", "stopping"} \cup Steps /\ pc \notin Steps
        /\ current \in Recordings \cup {NoRecording} /\ work \in Sessions \cup {NoSession}
        /\ gate \in Decisions /\ outcome \in {"none", "sidecar", "unclean", "retryable", "refused"}
        /\ {journals, target, proposals, video, attempted, proposed} = {{}} /\ cancelled \in BOOLEAN
    OBVIOUS
  <2> QED
    BY <2>1, <2>2, <2>3, <2>4 DEF TypeOK
<1>2. CopiesInv /\ PathInv
  BY DEF CopiesInv, PathInv, Opening
<1>3. NothingTwice /\ AttemptInv
  BY DEF NothingTwice, AutoOpenOnce, AttemptStartedOnce, AttemptInv
<1> QED
  BY <1>1, <1>2, <1>3 DEF IInv

LEMMA StutterInv == IInv /\ UNCHANGED vars => IInv'
<1> SUFFICES ASSUME IInv, UNCHANGED vars PROVE IInv'
  OBVIOUS
<1>1. TypeOK' /\ PathInv'
  BY DEF IInv, vars, disk, main, threads, history, bounds, TypeOK, PathInv, HasThread
<1>2. CopiesInv'
  BY DEF IInv, vars, disk, main, threads, history, bounds, CopiesInv, Good, Opening, HasThread
<1>3. NothingTwice' /\ AttemptInv'
  BY DEF IInv, vars, disk, main, threads, history, bounds, NothingTwice, AutoOpenOnce,
         AttemptStartedOnce, AttemptInv
<1> QED
  BY <1>1, <1>2, <1>3 DEF IInv

LEMMA NextInv == IInv /\ [Next]_vars => IInv'
<1> SUFFICES ASSUME IInv, Next PROVE IInv'
  BY StutterInv
<1>1. CASE Process
  BY <1>1, ProcessInv
<1>2. CASE Start \/ Crash \/ Stopped \/ StoppedWithoutThread
  BY <1>2, LifeInv
<1>3. CASE \E r \in Recordings : Poll(r)
  BY <1>3, ClaimInv, ResumeInv DEF Poll
<1>4. CASE \E t \in Threads : RenderWorker(t)
  BY <1>4, WorkerInv
<1>5. CASE \E r \in Recordings :
              \/ JournalCompletes(r)
              \/ \E d \in {"approved", "rejected"} : Decide(r, d)
              \/ RequestRender(r)
  BY <1>5, UserInv
<1>6. CASE Stop
  BY <1>6, StopInv
<1> QED
  BY <1>1, <1>2, <1>3, <1>4, <1>5, <1>6 DEF Next

\* The inductive invariant holds in every reachable state.
THEOREM Inductive == Spec => []IInv
BY InitInv, NextInv, PTL DEF Spec

\* Every variable of the runner keeps its type, over crashes and restarts.
THEOREM TypeCorrect == Spec => []TypeOK
BY Inductive, PTL DEF IInv

\* Over all crashes, restarts and copies written over each other, the review of a
\* recording opens once by itself, and a render request starts FFmpeg once unless a
\* shutdown left its render thread behind.
THEOREM NothingHappensTwice == Spec => []NothingTwice
BY Inductive, PTL DEF IInv

\* What a session claims of sidecar, proposal and video is on disk.
THEOREM SessionsFollowDisk == Spec => []SessionFollowsDisk
<1>1. IInv => SessionFollowsDisk
  BY DEF IInv, CopiesInv, Good, SessionFollowsDisk
<1> QED
  BY <1>1, Inductive, PTL
==============================================================================
