---------------------------- MODULE ProductRunner ----------------------------
(***************************************************************************)
(* The product runner (product_runner.py): the background process that     *)
(* takes every finished recording journal through the finalizer, the cut   *)
(* proposal, the review and a requested render.                            *)
(*                                                                         *)
(* On disk, and kept by a crash: one session claim per recording, the      *)
(* sidecar beside the recording, the proposal, the approval and the render *)
(* request next to it, and the rendered video.  In memory: what this       *)
(* instance has attempted, the working copy of the session it is at, the   *)
(* review it opened, and one render thread.                                *)
(*                                                                         *)
(* The main thread polls: it takes one recording after the other through   *)
(* the steps below, each of which ends with at most one file replaced.     *)
(* Between two steps the render thread or the user may act, the process    *)
(* may die, and a step may raise: scan_once catches that and goes on with  *)
(* the next journal.  What is displayed (status.json) is left out;         *)
(* what happens inside one render is RenderAttempt.tla.                    *)
(***************************************************************************)
EXTENDS Naturals, FiniteSets

CONSTANTS
    Recordings,     \* recording session ids
    NoRecording,    \* none of them
    Outside,        \* recordings whose file is not below the source root
    MaxStarts,      \* bound: starts of the runner
    MaxFaults,      \* bound: steps that fail
    MaxDecisions,   \* bound: decisions of the user
    MaxRequests,    \* bound: render requests of a recording
    MaxTimeouts     \* bound: shutdowns that stop waiting for the render thread

ASSUME RecordingsAssumption == Outside \subseteq Recordings /\ NoRecording \notin Recordings
ASSUME BoundsAssumption ==
    {MaxStarts, MaxFaults, MaxDecisions, MaxRequests, MaxTimeouts} \subseteq Nat

Decisions == {"none", "pending", "approved", "rejected"}

\* "refused" stands for the four terminal codes, "retryable" for source_missing
\* and infrastructure_error, "analysing" for analysis_pending and _running.
Rendering == {"rendering", "rendered", "render_failed"}
ProposalStates == Rendering \cup
    {"sidecar", "analysing", "ready", "proposal_failed", "pending", "approved", "rejected"}
Statuses == ProposalStates \cup {"detected", "finalizing", "retryable", "refused"}

Sessions ==
    [status : Statuses, sidecar : BOOLEAN, proposal : BOOLEAN, decision : Decisions,
     opened : BOOLEAN, attempt : 0 .. MaxRequests]

NoSession == [status |-> "none"]

\* A render thread: where it is, the request it executes, whether that succeeded,
\* and the session it read back.
Workers == [at : {"render", "read", "store", "exit"}, recording : Recordings,
            attempt : 0 .. MaxRequests, done : BOOLEAN, copy : Sessions]
NoWorker == [at |-> "none"]

\* The thread of this process, and the one of a process that has given up its lock.
Threads == {"own", "former"}

Steps == {"source", "finalize", "outcome", "propose", "analyse", "complete", "inspect",
          "refresh", "open", "launch", "decide", "request"}

VARIABLES
    journals,   \* recordings with a complete journal
    session,    \* the session claim of each recording
    target,     \* recordings with a committed sidecar
    proposals,  \* recordings with a proposal
    approval,   \* the decision in the approval file of each recording
    request,    \* number of the render request of each recording, 0 for none
    video,      \* recordings with a rendered video
    pc,         \* main thread: "down", "idle", "stopping" or a step
    current,    \* the recording it is at
    work,       \* its working copy of that session
    gate,       \* the decision it read from the approval gate
    outcome,    \* what the finalizer returned
    attempted,  \* _attempted_this_run
    proposed,   \* _proposal_attempted_this_run
    thread,     \* the render threads
    cancelled,  \* this instance told its render thread to stop
    launches,   \* review windows opened for each recording by the runner
    renders,    \* how often each render request was started
    starts, faults, decisions, timeouts     \* counts for the bounds

disk == <<session, target, proposals, approval, request, video>>
main == <<pc, current, work, gate, outcome, attempted, proposed>>
threads == <<thread, cancelled>>
history == <<launches, renders>>
bounds == <<starts, decisions, timeouts>>
vars == <<journals, disk, main, threads, history, bounds, faults>>

TypeOK ==
    /\ journals \subseteq Recordings
    /\ session \in [Recordings -> Sessions \cup {NoSession}]
    /\ target \subseteq Recordings
    /\ proposals \subseteq Recordings
    /\ approval \in [Recordings -> Decisions]
    /\ request \in [Recordings -> 0 .. MaxRequests]
    /\ video \subseteq Recordings
    /\ pc \in {"down", "idle", "stopping"} \cup Steps
    /\ current \in Recordings \cup {NoRecording}
    /\ work \in Sessions \cup {NoSession}
    /\ pc \in Steps => current \in Recordings /\ work \in Sessions
    /\ gate \in Decisions
    /\ outcome \in {"none", "sidecar", "unclean", "retryable", "refused"}
    /\ attempted \subseteq Recordings
    /\ proposed \subseteq Recordings
    /\ thread \in [Threads -> Workers \cup {NoWorker}]
    /\ cancelled \in BOOLEAN
    /\ launches \in [Recordings -> Nat]
    /\ renders \in [Recordings -> [1 .. MaxRequests -> Nat]]
    /\ starts \in 0 .. MaxStarts
    /\ faults \in 0 .. MaxFaults
    /\ decisions \in 0 .. MaxDecisions
    /\ timeouts \in 0 .. MaxTimeouts

Init ==
    /\ journals = {}
    /\ session = [r \in Recordings |-> NoSession]
    /\ target = {} /\ proposals = {} /\ video = {}
    /\ approval = [r \in Recordings |-> "none"]
    /\ request = [r \in Recordings |-> 0]
    /\ pc = "down" /\ current = NoRecording /\ work = NoSession
    /\ gate = "none" /\ outcome = "none"
    /\ attempted = {} /\ proposed = {}
    /\ thread = [t \in Threads |-> NoWorker] /\ cancelled = FALSE
    /\ launches = [r \in Recordings |-> 0]
    /\ renders = [r \in Recordings |-> [n \in 1 .. MaxRequests |-> 0]]
    /\ starts = 0 /\ faults = 0 /\ decisions = 0 /\ timeouts = 0

----------------------------------------------------------------------------
(* Helpers.                                                                *)

\* _store_session of the working copy, which the caller keeps as it stored it.
Store(s) ==
    /\ session' = [session EXCEPT ![current] = s]
    /\ work' = s

\* The main thread is done with the recording, or goes on with it at l.
GoTo(l) ==
    /\ pc' = l
    /\ current' = IF l = "idle" THEN NoRecording ELSE current

\* Back to the poll loop; the working copy is forgotten.
Leave ==
    /\ GoTo("idle")
    /\ work' = NoSession
    /\ gate' = "none"
    /\ outcome' = "none"

StoreAndLeave(s) ==
    /\ session' = [session EXCEPT ![current] = s]
    /\ Leave

Fault == faults < MaxFaults /\ faults' = faults + 1
NoFault == UNCHANGED faults

fixed == <<journals, threads, history, bounds>>

----------------------------------------------------------------------------
(* The process: SingleInstance, main and shutdown.                         *)

\* What a new process knows; the thread left behind is l.
FreshMemory(l) ==
    /\ current' = NoRecording /\ work' = NoSession /\ gate' = "none" /\ outcome' = "none"
    /\ attempted' = {} /\ proposed' = {}
    /\ thread' = [own |-> NoWorker, former |-> l]
    /\ cancelled' = FALSE

Start ==
    /\ pc = "down"
    /\ starts < MaxStarts
    /\ starts' = starts + 1
    /\ pc' = "idle"
    /\ FreshMemory(thread["former"])
    /\ UNCHANGED <<journals, disk, history, decisions, timeouts, faults>>

\* It goes down only to be started again, so that there is a rest to see.
Crash ==
    /\ pc # "down"
    /\ starts < MaxStarts
    /\ pc' = "down"
    /\ FreshMemory(thread["former"])
    /\ UNCHANGED <<journals, disk, history, bounds, faults>>

\* A stop request or a signal ends the poll loop; the render is cancelled.
Stop ==
    /\ pc = "idle"
    /\ starts < MaxStarts
    /\ pc' = "stopping"
    /\ cancelled' = TRUE
    /\ UNCHANGED <<journals, disk, current, work, gate, outcome, attempted, proposed,
                   thread, history, bounds, faults>>

Stopped ==
    /\ pc = "stopping"
    /\ thread["own"] = NoWorker
    /\ pc' = "down"
    /\ FreshMemory(thread["former"])
    /\ UNCHANGED <<journals, disk, history, bounds, faults>>

\* join(timeout=15) gives up: the lock is released and main returns, but the
\* thread is no daemon and the process lives on with it.
StoppedWithoutThread ==
    /\ pc = "stopping"
    /\ thread["own"] # NoWorker /\ thread["former"] = NoWorker
    /\ timeouts < MaxTimeouts
    /\ timeouts' = timeouts + 1
    /\ pc' = "down"
    /\ FreshMemory(thread["own"])
    /\ UNCHANGED <<journals, disk, history, starts, decisions, faults>>

----------------------------------------------------------------------------
(* scan_once and _process_ready.                                           *)

Detected == [status |-> "detected", sidecar |-> FALSE, proposal |-> FALSE,
             decision |-> "none", opened |-> FALSE, attempt |-> 0]

\* The claim is created once, with a project id that every retry reuses.
Claim(r) ==
    /\ pc = "idle"
    /\ r \in journals
    /\ session[r] = NoSession
    /\ current' = r
    /\ session' = [session EXCEPT ![r] = Detected]
    /\ work' = Detected
    /\ pc' = "source"
    /\ UNCHANGED <<fixed, target, proposals, approval, request, video, gate, outcome,
                   attempted, proposed, faults>>

Resume(r) ==
    /\ pc = "idle"
    /\ r \in journals
    /\ session[r] # NoSession
    /\ session[r].status # "refused"
    /\ current' = r
    /\ work' = session[r]
    /\ pc' = IF session[r].status \in ProposalStates /\ session[r].sidecar
             THEN "propose" ELSE "source"
    /\ UNCHANGED <<fixed, disk, gate, outcome, attempted, proposed, faults>>

SourceOutsideRoot ==
    /\ pc = "source"
    /\ current \in Outside
    /\ StoreAndLeave([work EXCEPT !.status = "refused"])
    /\ UNCHANGED <<fixed, target, proposals, approval, request, video, attempted, proposed, faults>>

\* The file is looked for again at the next poll.
SourceMissing ==
    /\ pc = "source"
    /\ current \notin Outside
    /\ Fault
    /\ StoreAndLeave([work EXCEPT !.status = "retryable"])
    /\ UNCHANGED <<fixed, target, proposals, approval, request, video, attempted, proposed>>

----------------------------------------------------------------------------
(* _finalize: at most once in the life of an instance.                     *)

SkipFinalizer ==
    /\ pc = "source"
    /\ current \notin Outside
    /\ current \in attempted
    /\ Leave
    /\ UNCHANGED <<fixed, disk, attempted, proposed, faults>>

ProjectFails ==
    /\ pc = "source"
    /\ current \notin Outside \cup attempted
    /\ Fault
    /\ attempted' = attempted \cup {current}
    /\ StoreAndLeave([work EXCEPT !.status = "retryable"])
    /\ UNCHANGED <<fixed, target, proposals, approval, request, video, proposed>>

BeginFinalizer ==
    /\ pc = "source"
    /\ current \notin Outside \cup attempted
    /\ attempted' = attempted \cup {current}
    /\ Store([work EXCEPT !.status = "finalizing"])
    /\ GoTo("finalize")
    /\ UNCHANGED <<fixed, target, proposals, approval, request, video, gate, outcome,
                   proposed, faults>>

\* run_manual_finalizer chooses a new finalizer run id for every call: it commits
\* when nothing is at the target, and a lease that is not closed cleanly turns the
\* commit into an infrastructure error that names the sidecar.
FinalizerCommits ==
    /\ pc = "finalize"
    /\ current \notin target
    /\ target' = target \cup {current}
    /\ \/ outcome' = "sidecar" /\ NoFault
       \/ outcome' = "unclean" /\ Fault
    /\ GoTo("outcome")
    /\ UNCHANGED <<fixed, session, proposals, approval, request, video, work, gate,
                   attempted, proposed>>

\* The sidecar of another finalizer run is a conflict (Finalizer!ValidateTarget).
FinalizerConflicts ==
    /\ pc = "finalize"
    /\ current \in target
    /\ outcome' = "refused"
    /\ GoTo("outcome")
    /\ UNCHANGED <<fixed, disk, work, gate, attempted, proposed, faults>>

\* The caller is given no sidecar; it may be there all the same, as when what was
\* published is read back and found wanting.
FinalizerFails ==
    /\ pc = "finalize"
    /\ Fault
    /\ outcome' \in {"retryable", "refused"}
    /\ target' \in {target, target \cup {current}}
    /\ GoTo("outcome")
    /\ UNCHANGED <<fixed, session, proposals, approval, request, video, work, gate,
                   attempted, proposed>>

\* Mutant: a finalizer that committed without closing its lease counts as a success
\* even when nothing was committed.
StoreOutcome_Optimistic ==
    /\ pc = "outcome"
    /\ IF outcome # "refused"
       THEN /\ Store([work EXCEPT !.status = "sidecar", !.sidecar = TRUE])
            /\ GoTo("propose") /\ outcome' = "none" /\ UNCHANGED gate
       ELSE StoreAndLeave([work EXCEPT !.status = outcome, !.sidecar = FALSE])
    /\ UNCHANGED <<fixed, target, proposals, approval, request, video, attempted, proposed, faults>>

StoreOutcome ==
    /\ pc = "outcome"
    /\ CASE outcome = "sidecar" ->
              /\ Store([work EXCEPT !.status = "sidecar", !.sidecar = TRUE])
              /\ GoTo("propose") /\ outcome' = "none" /\ UNCHANGED gate
         [] outcome = "unclean" ->
              StoreAndLeave([work EXCEPT !.status = "retryable", !.sidecar = TRUE])
         [] OTHER ->
              StoreAndLeave([work EXCEPT !.status = outcome, !.sidecar = FALSE])
    /\ UNCHANGED <<fixed, target, proposals, approval, request, video, attempted, proposed, faults>>

----------------------------------------------------------------------------
(* _propose and _complete_proposal.                                        *)

\* The persisted proposal is loaded again, to follow the approval.
LoadProposal ==
    /\ pc = "propose"
    /\ work.proposal
    /\ proposed' = proposed \cup {current}
    /\ \/ NoFault /\ GoTo("refresh") /\ UNCHANGED <<session, work, gate, outcome>>
       \/ Fault /\ StoreAndLeave([work EXCEPT !.status = "proposal_failed"])
    /\ UNCHANGED <<fixed, target, proposals, approval, request, video, attempted>>

SkipProposal ==
    /\ pc = "propose"
    /\ ~work.proposal
    /\ current \in proposed
    /\ Leave
    /\ UNCHANGED <<fixed, disk, attempted, proposed, faults>>

BeginAnalysis ==
    /\ pc = "propose"
    /\ ~work.proposal
    /\ current \notin proposed
    /\ proposed' = proposed \cup {current}
    /\ Store([work EXCEPT !.status = "analysing"])
    /\ GoTo("analyse")
    /\ UNCHANGED <<fixed, target, proposals, approval, request, video, gate, outcome,
                   attempted, faults>>

\* generate_proposal is create-only and deterministic: a rerun finds its own bytes.
Analyse ==
    /\ pc = "analyse"
    /\ \/ NoFault /\ proposals' = proposals \cup {current} /\ GoTo("complete")
          /\ UNCHANGED <<session, work, gate, outcome>>
       \/ Fault /\ UNCHANGED proposals
          /\ StoreAndLeave([work EXCEPT !.status = "proposal_failed"])
    /\ UNCHANGED <<fixed, target, approval, request, video, attempted, proposed>>

\* The pending approval is created unless there is one, and the review is written.
Complete ==
    /\ pc = "complete"
    /\ approval' = [approval EXCEPT ![current] = IF @ = "none" THEN "pending" ELSE @]
    /\ \/ NoFault /\ GoTo("inspect") /\ UNCHANGED <<session, work, gate, outcome>>
       \/ Fault /\ StoreAndLeave([work EXCEPT !.status = "proposal_failed"])
    /\ UNCHANGED <<fixed, target, proposals, request, video, attempted, proposed>>

\* What the gate says now is used for the rest of this recording's turn.
InspectGate ==
    /\ pc = "inspect"
    /\ \/ /\ NoFault
          /\ gate' = approval[current]
          /\ Store([work EXCEPT !.status = "ready", !.proposal = TRUE, !.decision = gate'])
          /\ GoTo(IF work.opened THEN "decide" ELSE "open")
          /\ UNCHANGED outcome
       \/ Fault /\ StoreAndLeave([work EXCEPT !.status = "proposal_failed"])
    /\ UNCHANGED <<fixed, target, proposals, approval, request, video, attempted, proposed>>

\* Mutant: the review is opened before the session says so.
OpenReview_Late ==
    /\ pc = "open"
    /\ GoTo("launch")
    /\ UNCHANGED <<fixed, disk, work, gate, outcome, attempted, proposed, faults>>

\* Persisted before the launch: a crash may suppress the review, not repeat it.
OpenReview ==
    /\ pc = "open"
    /\ Store([work EXCEPT !.opened = TRUE])
    /\ GoTo("launch")
    /\ UNCHANGED <<fixed, target, proposals, approval, request, video, gate, outcome,
                   attempted, proposed, faults>>

\* The review of another recording is closed first: there is one at a time.
LaunchReview ==
    /\ pc = "launch"
    /\ \/ NoFault /\ launches' = [launches EXCEPT ![current] = @ + 1]
       \/ Fault /\ UNCHANGED launches
    /\ GoTo("decide")
    /\ UNCHANGED <<journals, disk, threads, renders, bounds, work, gate, outcome,
                   attempted, proposed>>

\* The gate's decision becomes the status.
StoreDecision ==
    /\ pc = "decide"
    /\ Store([work EXCEPT !.status = gate, !.decision = gate])
    /\ GoTo("request")
    /\ UNCHANGED <<fixed, target, proposals, approval, request, video, gate, outcome,
                   attempted, proposed, faults>>

\* Mutant: without a review to open, a pending proposal is left as it is.
Refresh_LeavesPending ==
    /\ pc = "refresh"
    /\ gate' = approval[current]
    /\ GoTo(IF work.status \in Rendering THEN "request"
            ELSE IF gate' = "pending" THEN (IF work.opened THEN "request" ELSE "open")
            ELSE "decide")
    /\ UNCHANGED <<fixed, disk, work, outcome, attempted, proposed, faults>>

\* _refresh_proposal_state
Refresh ==
    /\ pc = "refresh"
    /\ \/ /\ NoFault
          /\ gate' = approval[current]
          /\ GoTo(IF work.status \in Rendering THEN "request"
                  ELSE IF gate' = "pending" /\ ~work.opened THEN "open"
                  ELSE "decide")
          /\ UNCHANGED <<session, work, outcome>>
       \/ Fault /\ StoreAndLeave([work EXCEPT !.status = "proposal_failed"])
    /\ UNCHANGED <<fixed, target, proposals, approval, request, video, attempted, proposed>>

----------------------------------------------------------------------------
(* _handle_render_request: one request, executed once, by one thread.      *)

Requested == gate = "approved" /\ request[current] # 0

NothingToRender ==
    /\ pc = "request"
    /\ ~Requested \/ (work.attempt # request[current] /\ thread["own"] # NoWorker)
    /\ Leave
    /\ UNCHANGED <<fixed, disk, attempted, proposed, faults>>

\* The request was taken before.  A session that says "rendering" although this
\* process has no such thread becomes a failure the user may retry.
ObserveRender ==
    /\ pc = "request"
    /\ Requested
    /\ work.attempt = request[current]
    /\ IF work.status = "rendering" /\ thread["own"] = NoWorker
       THEN StoreAndLeave([work EXCEPT !.status = "render_failed"])
       ELSE Leave /\ UNCHANGED session
    /\ UNCHANGED <<fixed, target, proposals, approval, request, video, attempted, proposed, faults>>

Launch(s) ==
    /\ StoreAndLeave(s)
    /\ thread' = [thread EXCEPT !["own"] =
                     [at |-> "render", recording |-> current, attempt |-> request[current],
                      done |-> FALSE, copy |-> s]]
    /\ renders' = [renders EXCEPT ![current][request[current]] = @ + 1]

\* _start_render: the claim is stored before the thread starts.
StartRender ==
    /\ pc = "request"
    /\ Requested
    /\ work.attempt # request[current]
    /\ thread["own"] = NoWorker
    /\ Launch([work EXCEPT !.status = "rendering", !.attempt = request[current]])
    /\ UNCHANGED <<journals, cancelled, launches, bounds, target, proposals, approval, request,
                   video, attempted, proposed, faults>>

\* A step raises: scan_once catches it and the recording's turn is over.
Raise ==
    /\ pc \in Steps
    /\ Fault
    /\ Leave
    /\ UNCHANGED <<fixed, disk, attempted, proposed>>

----------------------------------------------------------------------------
(* _render_worker, on this process's thread or on one left behind.         *)

Become(t, w) == thread' = [thread EXCEPT ![t] = w]

\* Nobody withdraws the cancellation of a thread left behind.
Cancelled(t) == t = "former" \/ cancelled

elsewhere == <<journals, target, proposals, approval, request, main, cancelled, history, bounds>>

\* execute_approved_render asks the gate itself, stops when it is cancelled, and
\* reuses a video that is already there.
Render(t) ==
    LET w == thread[t] IN
    /\ w.at = "render"
    /\ \/ /\ approval[w.recording] = "approved"
          /\ ~Cancelled(t)
          /\ video' = video \cup {w.recording}
          /\ Become(t, [w EXCEPT !.at = "read", !.done = TRUE])
          /\ NoFault
       \/ /\ approval[w.recording] # "approved" \/ Cancelled(t)
          /\ Become(t, [w EXCEPT !.at = "read"])
          /\ UNCHANGED <<video, faults>>
       \/ /\ Fault
          /\ Become(t, [w EXCEPT !.at = "read"])
          /\ UNCHANGED video
    /\ UNCHANGED <<elsewhere, session>>

ReadBack(t) ==
    /\ thread[t].at = "read"
    /\ Become(t, [thread[t] EXCEPT !.at = "store", !.copy = session[thread[t].recording]])
    /\ UNCHANGED <<elsewhere, session, video, faults>>

\* A store that raises ends the thread.
StoreRender(t) ==
    LET w == thread[t] IN
    /\ w.at = "store"
    /\ \/ /\ NoFault
          /\ session' = [session EXCEPT ![w.recording] =
                            [w.copy EXCEPT !.status = IF w.done THEN "rendered" ELSE "render_failed",
                                           !.attempt = w.attempt]]
          /\ Become(t, [w EXCEPT !.at = "exit"])
       \/ /\ Fault
          /\ Become(t, NoWorker)
          /\ UNCHANGED session
    /\ UNCHANGED <<elsewhere, video>>

\* Until its last status is published the thread is alive.
ExitThread(t) ==
    /\ thread[t].at = "exit"
    /\ Become(t, NoWorker)
    /\ UNCHANGED <<elsewhere, session, video, faults>>

RenderWorker(t) == Render(t) \/ ReadBack(t) \/ StoreRender(t) \/ ExitThread(t)

----------------------------------------------------------------------------
(* OBS and the user.                                                       *)

JournalCompletes(r) ==
    /\ r \notin journals
    /\ journals' = journals \cup {r}
    /\ UNCHANGED <<disk, main, threads, history, bounds, faults>>

Decide(r, d) ==
    /\ approval[r] \notin {"none", d}
    /\ decisions < MaxDecisions
    /\ decisions' = decisions + 1
    /\ approval' = [approval EXCEPT ![r] = d]
    /\ UNCHANGED <<journals, session, target, proposals, request, video, main, threads,
                   history, starts, timeouts, faults>>

\* submit_render_request asks the gate first; a new request has a new attempt id.
RequestRender(r) ==
    /\ approval[r] = "approved"
    /\ request[r] < MaxRequests
    /\ request' = [request EXCEPT ![r] = @ + 1]
    /\ UNCHANGED <<journals, session, target, proposals, approval, video, main, threads,
                   history, bounds, faults>>

----------------------------------------------------------------------------

Poll(r) == Claim(r) \/ Resume(r)

Process ==
    \/ SourceOutsideRoot \/ SourceMissing
    \/ SkipFinalizer \/ ProjectFails \/ BeginFinalizer
    \/ FinalizerCommits \/ FinalizerConflicts \/ FinalizerFails \/ StoreOutcome
    \/ LoadProposal \/ SkipProposal \/ BeginAnalysis \/ Analyse \/ Complete \/ InspectGate
    \/ OpenReview \/ LaunchReview \/ StoreDecision \/ Refresh
    \/ NothingToRender \/ ObserveRender \/ StartRender
    \/ Raise

Next ==
    \/ Start \/ Crash \/ Stop \/ Stopped \/ StoppedWithoutThread
    \/ \E r \in Recordings : Poll(r)
    \/ Process
    \/ \E t \in Threads : RenderWorker(t)
    \/ \E r \in Recordings :
          \/ JournalCompletes(r)
          \/ \E d \in {"approved", "rejected"} : Decide(r, d)
          \/ RequestRender(r)

\* The poll loop takes every journal at every poll, and the threads run.
Fairness ==
    /\ \A r \in Recordings : SF_vars(Poll(r))
    /\ WF_vars(Process)
    /\ \A t \in Threads : WF_vars(RenderWorker(t))
    /\ WF_vars(Stopped)

Spec == Init /\ [][Next]_vars
FairSpec == Spec /\ Fairness
----------------------------------------------------------------------------
(* Properties.                                                             *)

\* "A crash may suppress a retry, never cause a second auto-open": over all
\* restarts the runner opens the review of a recording at most once, because
\* _complete_proposal stores the claim before it launches.
AutoOpenOnce == \A r \in Recordings : launches[r] <= 1

\* What a session claims exists: a stored sidecar is committed at the target, a
\* stored proposal was written, and a session says "rendered" only of a video.
SessionFollowsDisk ==
    \A r \in Recordings : session[r] # NoSession =>
        /\ session[r].sidecar => r \in target
        /\ session[r].proposal => r \in proposals /\ approval[r] # "none"
        /\ session[r].status = "rendered" => r \in video

\* One render request starts FFmpeg at most once, whatever crashes between the
\* stored attempt and the start, and whichever copies of the session the main
\* thread and the render thread write over each other, as long as no shutdown
\* has left its render thread to the next runner.
AttemptStartedOnce ==
    timeouts = 0 => \A r \in Recordings : \A n \in 1 .. MaxRequests : renders[r][n] <= 1

\* What the runner sets going for the user it sets going once: the review and FFmpeg.
NothingTwice == AutoOpenOnce /\ AttemptStartedOnce

----------------------------------------------------------------------------
(* Why the properties hold: the inductive invariant.                       *)

Settles == {"approved", "rejected"}

HasThread(r) == \E t \in Threads : thread[t] # NoWorker /\ thread[t].recording = r

\* The review of a recording was opened or is about to be.
Opening(r) == launches[r] > 0 \/ (pc = "launch" /\ current = r)

\* What every copy of a session may be relied on for, wherever it is kept: a copy
\* written back does not undo what the disk or the user has seen.
Good(r, s) ==
    /\ s.sidecar => r \in target
    /\ s.proposal => r \in proposals /\ approval[r] # "none"
    /\ s.status = "rendered" => r \in video
    /\ Opening(r) => s.opened
    /\ HasThread(r) => s.proposal

CopiesInv ==
    /\ \A r \in Recordings : IF session[r] = NoSession THEN ~Opening(r) ELSE Good(r, session[r])
    /\ pc \in Steps => session[current] # NoSession /\ Good(current, work)
    /\ \A t \in Threads : thread[t] # NoWorker =>
           /\ session[thread[t].recording] # NoSession
           /\ Good(thread[t].recording, thread[t].copy)
           /\ approval[thread[t].recording] \in Settles
           /\ thread[t].done => thread[t].recording \in video

\* What the main thread knows at each step.
PathInv ==
    /\ pc \notin Steps => gate = "none"
    /\ pc \in Steps /\ gate \in Settles => approval[current] \in Settles
    /\ pc = "outcome" => outcome # "none" /\ (outcome \in {"sidecar", "unclean"} => current \in target)
    /\ pc \in {"complete", "inspect"} => current \in proposals
    /\ pc = "inspect" => approval[current] # "none"
    /\ pc \in {"refresh", "open", "launch", "decide", "request"} => work.proposal
    /\ pc \in {"open", "launch", "decide"} => gate # "none"
    /\ pc \in {"analyse", "complete", "inspect", "open", "launch"} => ~HasThread(current)
    /\ pc = "open" => ~work.opened
    /\ pc = "launch" => launches[current] = 0

\* Without a thread left behind, the attempt of a session is the last one started.
AttemptInv ==
    timeouts = 0 =>
        /\ thread["former"] = NoWorker
        /\ thread["own"] # NoWorker =>
               thread["own"].attempt = session[thread["own"].recording].attempt
        /\ pc \in Steps => work.attempt = session[current].attempt
        /\ \A r \in Recordings : session[r] # NoSession => session[r].attempt <= request[r]
        /\ \A r \in Recordings : \A n \in 1 .. MaxRequests : renders[r][n] > 0 =>
               session[r] # NoSession /\ n <= session[r].attempt

IInv == TypeOK /\ CopiesInv /\ PathInv /\ NothingTwice /\ AttemptInv

\* Until something fails every finished recording reaches a decision, a render or
\* a refusal, from whatever point an earlier process left it at.
Settled == {"refused", "pending", "approved", "rejected"} \cup Rendering

EveryJournalSettles ==
    \A r \in Recordings :
        (r \in journals /\ pc # "down")
            ~> (session[r].status \in Settled \/ pc = "down" \/ faults > 0)

\* A request made under a valid approval is started, unless a later request
\* replaces it, the approval is withdrawn or the runner is stopped.
RequestIsServed ==
    \A r \in Recordings : \A n \in 1 .. MaxRequests :
        (session[r] # NoSession /\ session[r].proposal /\ request[r] = n
                /\ approval[r] = "approved" /\ pc # "down")
            ~> (renders[r][n] > 0 \/ request[r] > n \/ approval[r] # "approved" \/ pc = "down")

\* A session does not stay "rendering" after its thread is gone: a later poll
\* notices, also when the thread could not store its result.
InterruptedRenderIsNoticed ==
    \A r \in Recordings :
        (session[r].status = "rendering" /\ approval[r] = "approved" /\ pc # "down")
            ~> (session[r].status # "rendering" \/ approval[r] # "approved" \/ pc = "down")

\* Nothing a user waits for stays open.
NothingStaysOpen == EveryJournalSettles /\ RequestIsServed /\ InterruptedRenderIsNoticed

\* Claimed by the class: a recording whose sidecar was committed is not refused
\* because the runner was interrupted before it stored that.
CommittedIsNotRefused ==
    \A r \in target : session[r].status # "refused"

\* Claimed by the message of E_RENDER_INTERRUPTED: only a render whose process is
\* gone is reported interrupted, so a stored success is not replaced by it.
RenderedStands ==
    [][\A r \in Recordings :
          session[r].status = "rendered" /\ session'[r].status = "render_failed"
              => session'[r].attempt # session[r].attempt]_vars
=============================================================================
