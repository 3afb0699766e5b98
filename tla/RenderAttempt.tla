---------------------------- MODULE RenderAttempt ----------------------------
(***************************************************************************)
(* One approved render (render.py, approval.py, selection.py): what a      *)
(* render thread does with a request while the user goes on selecting,     *)
(* deciding and requesting.                                                *)
(*                                                                         *)
(* The user selects cuts, approves exactly the selection on disk, and      *)
(* requests a render that is bound to that approval.  The thread asks the  *)
(* authorization gate four times, six with a fallback, plans, encodes a    *)
(* partial file, verifies it, links it to the final name, which is the     *)
(* same for every attempt of a recording, and writes its result.           *)
(*                                                                         *)
(* The gate reads approval and selection first and hashes the whole source *)
(* and the sidecar afterwards, so each gate is two steps here.  A cut list *)
(* is a set of cuts.  The n-th edit has the digest n and the n-th decision *)
(* the time n: both carry a time stamp and differ from all earlier ones.   *)
(* The bytes of a video are determined by the cuts, the encoder and        *)
(* whether the source was the approved one.  No attempt runs twice         *)
(* (ProductRunner!AttemptStartedOnce), so its partial file, plan and       *)
(* result file are its own and their create-only conflicts do not occur.   *)
(***************************************************************************)
EXTENDS Naturals, Sequences

CONSTANTS
    Threads,        \* render threads
    Cuts,           \* proposed cuts
    NoGate,         \* no gate is being asked
    MaxEdits,       \* bound: edits of the selection
    MaxDecisions,   \* bound: decisions
    MaxRequests,    \* bound: render requests
    MaxCrashes,     \* bound: ends of the process that runs the threads
    MaxFaults,      \* bound: steps that fail
    MaxForeign      \* bound: changes by other programs

ASSUME BoundsAssumption ==
    {MaxEdits, MaxDecisions, MaxRequests, MaxCrashes, MaxFaults, MaxForeign} \subseteq Nat

Encoders == {"h264_nvenc", "libx264"}
Attempts == 1 .. MaxRequests

Selections == [enabled : SUBSET Cuts, digest : 0 .. MaxEdits]
Approvals == [decision : {"pending", "approved", "rejected"}, cuts : SUBSET Cuts,
              digest : 0 .. MaxEdits, decided : 0 .. MaxDecisions]
NoDraft == [decision |-> "none"]

\* A request names the approval the gate returned and the digest of the file it found.
Requests == [cuts : SUBSET Cuts, decided : 0 .. MaxDecisions, sha : 0 .. MaxDecisions]

Plans == [cuts : SUBSET Cuts, approval : Approvals, encoder : Encoders]
NoPlan == [cuts |-> {}]

Videos == [cuts : SUBSET Cuts, encoder : Encoders, clean : BOOLEAN]
NoVideo == [cuts |-> {}]
Foreign == [cuts |-> Cuts, origin |-> "elsewhere"]

Gates == [approval : Approvals, selected : BOOLEAN]
Asking == {"initial", "second", "start", "retry", "retrystart", "final"}
Steps == Asking \cup {"idle", "prepare", "encode", "verify", "publish", "result"}

Failures == {"E_RENDER_NOT_AUTHORIZED", "E_RENDER_REQUEST_BINDING", "E_RENDER_REUSE_INVALID",
             "E_RENDER_TARGET_CONFLICT", "E_RENDER_STREAMS", "E_RENDER_NOT_AUTHORIZED_AT_START",
             "E_RENDER_FFMPEG", "E_RENDER_CANCELLED", "E_RENDER_VERIFY",
             "E_RENDER_AUTHORIZATION_CHANGED", "E_RENDER_PUBLISH", "E_RENDER_EXCEPTION"}
Outcomes == Failures \cup {"none", "started", "succeeded", "reused"}

NoJob == [attempt |-> 0]
Jobs == [attempt : Attempts, cuts : SUBSET Cuts, encoder : Encoders, clean : BOOLEAN]

VARIABLES
    selection,  \* selection.json
    approval,   \* approval.json
    draft,      \* the decision record_selected_decision is about to write
    requests,   \* the requests in the order they replaced each other on disk
    intact,     \* source and sidecar are still the ones of the proposal
    target,     \* the file at the final name
    plans,      \* render plan of each attempt
    outcome,    \* what became of each attempt: its result file or return value
    results,    \* the video whose digest a successful result holds
    pc,         \* step of each thread
    job,        \* what each thread knows of its attempt
    gate,       \* what each thread read from the gate it is asking
    crashes, faults, meddled    \* counts for the bounds

user == <<selection, approval, draft, requests>>
disk == <<target, plans, outcome, results>>
threads == <<pc, job, gate>>
vars == <<user, intact, disk, threads, crashes, faults, meddled>>

TypeOK ==
    /\ selection \in Selections
    /\ approval \in Approvals
    /\ draft = NoDraft \/ draft \in Approvals
    /\ requests \in Seq(Requests) /\ Len(requests) <= MaxRequests
    /\ intact \in BOOLEAN
    /\ target \in Videos \cup {NoVideo, Foreign}
    /\ plans \in [Attempts -> Plans \cup {NoPlan}]
    /\ outcome \in [Attempts -> Outcomes]
    /\ results \in [Attempts -> Videos \cup {NoVideo}]
    /\ pc \in [Threads -> Steps]
    /\ job \in [Threads -> Jobs \cup {NoJob}]
    /\ \A t \in Threads : pc[t] # "idle" =>
          job[t] \in Jobs /\ outcome[job[t].attempt] = "started"
    /\ gate \in [Threads -> Gates \cup {NoGate}]
    /\ \A t \in Threads : gate[t] # NoGate => pc[t] \in Asking
    /\ crashes \in 0 .. MaxCrashes /\ faults \in 0 .. MaxFaults /\ meddled \in 0 .. MaxForeign

\* All cuts are enabled at first, and ensure_pending_approval has been called.
Init ==
    /\ selection = [enabled |-> Cuts, digest |-> 0]
    /\ approval = [decision |-> "pending", cuts |-> {}, digest |-> 0, decided |-> 0]
    /\ draft = NoDraft
    /\ requests = <<>>
    /\ intact = TRUE
    /\ target = NoVideo
    /\ plans = [a \in Attempts |-> NoPlan]
    /\ outcome = [a \in Attempts |-> "none"]
    /\ results = [a \in Attempts |-> NoVideo]
    /\ pc = [t \in Threads |-> "idle"]
    /\ job = [t \in Threads |-> NoJob]
    /\ gate = [t \in Threads |-> NoGate]
    /\ crashes = 0 /\ faults = 0 /\ meddled = 0

Fault == faults < MaxFaults /\ faults' = faults + 1
NoFault == UNCHANGED faults

----------------------------------------------------------------------------
(* The user, in the review window and its browser page.                    *)

others == <<intact, disk, threads, crashes, faults, meddled>>

\* update_selection; the Tk thread and the requests of the browser page call it.
UpdateSelection(enabled) ==
    /\ selection.digest < MaxEdits
    /\ selection' = [enabled |-> enabled, digest |-> selection.digest + 1]
    /\ UNCHANGED <<approval, draft, requests, others>>

\* record_selected_decision reads the selection that is on disk ...
ReadSelection ==
    /\ draft = NoDraft
    /\ approval.decided < MaxDecisions
    /\ draft' = [decision |-> IF selection.enabled = {} THEN "rejected" ELSE "approved",
                 cuts |-> selection.enabled, digest |-> selection.digest,
                 decided |-> approval.decided + 1]
    /\ UNCHANGED <<selection, approval, requests, others>>

\* ... and writes the approval, whatever the selection is by now.
WriteDecision ==
    /\ draft # NoDraft
    /\ approval' = draft
    /\ draft' = NoDraft
    /\ UNCHANGED <<selection, requests, others>>

\* What the gate makes of the files it reads first.
Selected == approval.decided > 0 => approval.digest = selection.digest

Authorizes(g) == g.selected /\ intact /\ g.approval.decision = "approved"

\* submit_render_request, in the window that also decides.
SubmitRequest ==
    /\ draft = NoDraft
    /\ Len(requests) < MaxRequests
    /\ Authorizes([approval |-> approval, selected |-> Selected])
    /\ requests' = Append(requests, [cuts |-> approval.cuts, decided |-> approval.decided,
                                     sha |-> approval.decided])
    /\ UNCHANGED <<selection, approval, draft, others>>

----------------------------------------------------------------------------
(* The thread.                                                             *)

request(t) == requests[job[t].attempt]

\* _request_matches digests the approval file anew, after the gate has returned.
Matches(t, g) ==
    /\ request(t).cuts = g.approval.cuts
    /\ request(t).decided = g.approval.decided
    /\ request(t).sha = approval.decided

Go(t, l) == pc' = [pc EXCEPT ![t] = l] /\ gate' = [gate EXCEPT ![t] = NoGate]

\* The attempt ends; a failure is persisted in place of an earlier result.
End(t, o) ==
    /\ outcome' = [outcome EXCEPT ![job[t].attempt] = o]
    /\ job' = [job EXCEPT ![t] = NoJob]
    /\ Go(t, "idle")

outside == <<user, intact, crashes, meddled>>

\* The runner hands over the request on disk, once.
Begin(t) ==
    /\ pc[t] = "idle"
    /\ requests # <<>>
    /\ outcome[Len(requests)] = "none"
    /\ outcome' = [outcome EXCEPT ![Len(requests)] = "started"]
    /\ job' = [job EXCEPT ![t] = [attempt |-> Len(requests), cuts |-> {},
                                  encoder |-> "libx264", clean |-> TRUE]]
    /\ Go(t, "initial")
    /\ UNCHANGED <<outside, target, plans, results, faults>>

\* _check_authorization, first half: approval and selection.
AskGate(t) ==
    /\ pc[t] \in Asking
    /\ gate[t] = NoGate
    /\ gate' = [gate EXCEPT ![t] = [approval |-> approval, selected |-> Selected]]
    /\ UNCHANGED <<outside, disk, pc, job, faults>>

\* Second half: the source is hashed and the gate returns, asked at step l.
Returned(t, l) == pc[t] = l /\ gate[t] # NoGate

\* _find_reusable_success: an earlier attempt under the same approval.
Reusable(t) ==
    {a \in Attempts : /\ outcome[a] = "succeeded"
                      /\ plans[a].approval.decided = request(t).decided
                      /\ plans[a].approval.decided = request(t).sha}

\* Mutant: an earlier success is believed without looking at the file.
Reuse_Trusting(a) == "reused"

Reuse(a) == IF target = results[a] THEN "reused" ELSE "E_RENDER_REUSE_INVALID"

InitialGate(t) ==
    /\ Returned(t, "initial")
    /\ \/ ~Authorizes(gate[t]) /\ End(t, "E_RENDER_NOT_AUTHORIZED")
       \/ /\ Authorizes(gate[t])
          /\ \E a \in Reusable(t) : End(t, Reuse(a))
       \/ /\ Authorizes(gate[t]) /\ Reusable(t) = {}
          /\ ~Matches(t, gate[t])
          /\ End(t, "E_RENDER_REQUEST_BINDING")
       \/ /\ Authorizes(gate[t]) /\ Reusable(t) = {}
          /\ Matches(t, gate[t])
          /\ target # NoVideo
          /\ End(t, "E_RENDER_TARGET_CONFLICT")
       \/ /\ Authorizes(gate[t]) /\ Reusable(t) = {}
          /\ Matches(t, gate[t])
          /\ target = NoVideo
          /\ job' = [job EXCEPT ![t].cuts = gate[t].approval.cuts]
          /\ Go(t, "prepare")
          /\ UNCHANGED outcome
    /\ UNCHANGED <<outside, target, plans, results, faults>>

\* Streams, encoder capability and the loudness measurement.
Prepare(t) ==
    /\ pc[t] = "prepare"
    /\ \/ /\ NoFault
          /\ \E e \in Encoders : job' = [job EXCEPT ![t].encoder = e]
          /\ Go(t, "second")
          /\ UNCHANGED outcome
       \/ Fault /\ \E o \in {"E_RENDER_STREAMS", "E_RENDER_CANCELLED"} : End(t, o)
    /\ UNCHANGED <<outside, target, plans, results>>

WritePlan(t) ==
    /\ plans' = [plans EXCEPT ![job[t].attempt] =
                    [cuts |-> job[t].cuts, approval |-> gate[t].approval,
                     encoder |-> job[t].encoder]]
    /\ Go(t, "start")
    /\ UNCHANGED <<job, outcome>>

SecondGate(t) ==
    /\ Returned(t, "second")
    /\ \/ /\ Authorizes(gate[t]) /\ Matches(t, gate[t])
          /\ WritePlan(t)
       \/ /\ ~(Authorizes(gate[t]) /\ Matches(t, gate[t]))
          /\ End(t, "E_RENDER_NOT_AUTHORIZED")
          /\ UNCHANGED plans
    /\ UNCHANGED <<outside, target, results, faults>>

\* The gate right before FFmpeg asks for an approval, not for this one.
StartGate(t) ==
    /\ Returned(t, "start")
    /\ \/ Authorizes(gate[t]) /\ Go(t, "encode") /\ UNCHANGED <<job, outcome>>
       \/ ~Authorizes(gate[t]) /\ End(t, "E_RENDER_NOT_AUTHORIZED_AT_START")
    /\ UNCHANGED <<outside, target, plans, results, faults>>

\* FFmpeg reads the source as it is.  NVENC that fails is followed by libx264 once;
\* a timeout or a cancellation is not.
Encode(t) ==
    /\ pc[t] = "encode"
    /\ \/ /\ NoFault
          /\ job' = [job EXCEPT ![t].clean = intact]
          /\ Go(t, "verify")
          /\ UNCHANGED outcome
       \/ /\ Fault
          /\ job[t].encoder = "h264_nvenc"
          /\ Go(t, "retry")
          /\ UNCHANGED <<job, outcome>>
       \/ /\ Fault
          /\ \E o \in {"E_RENDER_FFMPEG", "E_RENDER_CANCELLED"} : End(t, o)
    /\ UNCHANGED <<outside, target, plans, results>>

RetryGate(t) ==
    /\ Returned(t, "retry")
    /\ \/ /\ Authorizes(gate[t]) /\ Matches(t, gate[t]) /\ target = NoVideo
          /\ Go(t, "retrystart")
          /\ UNCHANGED <<job, outcome>>
       \/ /\ ~(Authorizes(gate[t]) /\ Matches(t, gate[t]) /\ target = NoVideo)
          /\ End(t, "E_RENDER_FFMPEG")
    /\ UNCHANGED <<outside, target, plans, results, faults>>

RetryStartGate(t) ==
    /\ Returned(t, "retrystart")
    /\ \/ /\ Authorizes(gate[t]) /\ Matches(t, gate[t])
          /\ job' = [job EXCEPT ![t].encoder = "libx264"]
          /\ Go(t, "encode")
          /\ UNCHANGED outcome
       \/ /\ ~(Authorizes(gate[t]) /\ Matches(t, gate[t]))
          /\ End(t, "E_RENDER_FFMPEG")
    /\ UNCHANGED <<outside, target, plans, results, faults>>

\* Media profile, full decode and the acceptance measurement of the partial file.
Verify(t) ==
    /\ pc[t] = "verify"
    /\ \/ NoFault /\ Go(t, "final") /\ UNCHANGED <<job, outcome>>
       \/ Fault /\ End(t, "E_RENDER_VERIFY")
    /\ UNCHANGED <<outside, target, plans, results>>

\* Mutant: the approval is looked at again but the source is not hashed again.
FinalGate_Unhashed(t) ==
    /\ Returned(t, "final")
    /\ IF gate[t].selected /\ gate[t].approval.decision = "approved"
       THEN Go(t, "publish") /\ UNCHANGED <<job, outcome>>
       ELSE End(t, "E_RENDER_AUTHORIZATION_CHANGED")
    /\ UNCHANGED <<outside, target, plans, results, faults>>

\* What the gate approves now need not be what was encoded.
FinalGate(t) ==
    /\ Returned(t, "final")
    /\ \/ Authorizes(gate[t]) /\ Go(t, "publish") /\ UNCHANGED <<job, outcome>>
       \/ ~Authorizes(gate[t]) /\ End(t, "E_RENDER_AUTHORIZATION_CHANGED")
    /\ UNCHANGED <<outside, target, plans, results, faults>>

Encoded(t) == [cuts |-> job[t].cuts, encoder |-> job[t].encoder, clean |-> job[t].clean]

\* Mutant: the result is stored before the link, and stays when that fails.
Publish_ResultFirst(t) ==
    /\ pc[t] = "publish"
    /\ \/ NoFault /\ target = NoVideo /\ target' = Encoded(t)
       \/ Fault /\ UNCHANGED target
    /\ results' = [results EXCEPT ![job[t].attempt] = Encoded(t)]
    /\ End(t, "succeeded")
    /\ UNCHANGED <<outside, plans>>

\* os.link refuses a name that exists.  When it or the unlink of the partial file
\* fails, a file at the final name with the bytes of this attempt is removed, if that
\* can be done.
Publish(t) ==
    /\ pc[t] = "publish"
    /\ \/ /\ NoFault
          /\ target = NoVideo
          /\ target' = Encoded(t)
          /\ Go(t, "result")
          /\ UNCHANGED <<job, outcome>>
       \/ /\ target # NoVideo
          /\ NoFault
          /\ target' = IF target = Encoded(t) THEN NoVideo ELSE target
          /\ End(t, "E_RENDER_PUBLISH")
       \/ /\ Fault
          /\ target' \in IF target = NoVideo THEN {NoVideo, Encoded(t)} ELSE {target}
          /\ End(t, "E_RENDER_PUBLISH")
    /\ UNCHANGED <<outside, plans, results>>

\* An exception on the way leaves the video where it is.
StoreResult(t) ==
    /\ pc[t] = "result"
    /\ \/ /\ NoFault
          /\ results' = [results EXCEPT ![job[t].attempt] = Encoded(t)]
          /\ End(t, "succeeded")
       \/ /\ Fault
          /\ End(t, "E_RENDER_EXCEPTION")
          /\ UNCHANGED results
    /\ UNCHANGED <<outside, target, plans>>

Step(t) ==
    \/ Begin(t) \/ AskGate(t)
    \/ InitialGate(t) \/ Prepare(t) \/ SecondGate(t) \/ StartGate(t)
    \/ Encode(t) \/ RetryGate(t) \/ RetryStartGate(t)
    \/ Verify(t) \/ FinalGate(t) \/ Publish(t) \/ StoreResult(t)

----------------------------------------------------------------------------
(* The environment.                                                        *)

\* The process ends; its attempts stay "started" and are not taken up again.
Crash ==
    /\ crashes < MaxCrashes
    /\ crashes' = crashes + 1
    /\ \E t \in Threads : pc[t] # "idle"
    /\ pc' = [t \in Threads |-> "idle"]
    /\ job' = [t \in Threads |-> NoJob]
    /\ gate' = [t \in Threads |-> NoGate]
    /\ UNCHANGED <<user, intact, disk, faults, meddled>>

\* Source or sidecar changes and does not change back.
ChangeSource ==
    /\ intact
    /\ meddled < MaxForeign
    /\ meddled' = meddled + 1
    /\ intact' = FALSE
    /\ UNCHANGED <<user, disk, threads, crashes, faults>>

\* Somebody else puts a file at the final name.
ForeignVideo ==
    /\ target # Foreign
    /\ meddled < MaxForeign
    /\ meddled' = meddled + 1
    /\ target' = Foreign
    /\ UNCHANGED <<user, intact, plans, outcome, results, threads, crashes, faults>>

----------------------------------------------------------------------------

Next ==
    \/ \E s \in SUBSET Cuts : UpdateSelection(s)
    \/ ReadSelection \/ WriteDecision \/ SubmitRequest
    \/ \E t \in Threads : Step(t)
    \/ Crash \/ ChangeSource \/ ForeignVideo

Spec == Init /\ [][Next]_vars

----------------------------------------------------------------------------
(* Properties.                                                             *)

\* A plan holds the cuts of the approval it names, and that is the approval the
\* request was made under, although selection and approval may change between the
\* gate that took the cuts and the gate that let the plan be written.
PlanBindsItsCuts ==
    \A a \in Attempts : plans[a] # NoPlan =>
        /\ plans[a].cuts = plans[a].approval.cuts
        /\ plans[a].cuts = requests[a].cuts
        /\ plans[a].approval.decided = requests[a].decided

\* An attempt that says it succeeded has its video at the final name, over crashes,
\* failing steps and later attempts, until somebody else puts a file there.
SuccessIsThere ==
    \A a \in Attempts : outcome[a] = "succeeded" => target \in {Foreign, results[a]}

\* A success that is reported again is one of these very cuts, and was there.
ReuseIsHonest ==
    [][\A a \in Attempts : outcome[a] # "reused" /\ outcome'[a] = "reused" =>
          target # Foreign /\ target.cuts = requests[a].cuts]_vars

\* What is published was encoded from the source the user approved: a source that
\* changes while FFmpeg reads it is caught by the gate before publication.
PublishedFromApprovedSource ==
    target \in Videos => target.clean

\* What the user approved is what the attempt planned and what it published.
ApprovalBinds == PlanBindsItsCuts /\ PublishedFromApprovedSource

\* Claimed by the gate's answer: the approval it accepts before publication is for
\* exactly the cuts that were encoded.
PublishedIsApproved ==
    [][\A t \in Threads : pc[t] = "final" /\ pc'[t] = "publish" =>
          gate[t].approval.cuts = job[t].cuts]_vars

\* Claimed when an interrupted render is reported: a retry is possible, and not
\* refused for the video the interrupted attempt left at the final name.
RetryIsPossible ==
    \A a \in Attempts : outcome[a] = "E_RENDER_TARGET_CONFLICT" =>
        target = Foreign \/ \E b \in Attempts : outcome[b] = "succeeded"

----------------------------------------------------------------------------
(* Why the properties hold: what every state satisfies.                    *)

\* An attempt has one thread and one request, the one it was started with.
AttemptInv ==
    /\ \A s, t \in Threads :
          pc[s] # "idle" /\ pc[t] # "idle" /\ job[s].attempt = job[t].attempt => s = t
    /\ \A a \in Attempts : outcome[a] # "none" => a <= Len(requests)
    /\ \A a \in Attempts : outcome[a] = "none" => plans[a] = NoPlan

\* A decision is identified by its time: what was requested under it are its cuts.
DecisionInv ==
    /\ draft # NoDraft => draft.decided = approval.decided + 1
    /\ \A i \in DOMAIN requests :
          /\ requests[i].decided <= approval.decided
          /\ requests[i].decided = approval.decided => requests[i].cuts = approval.cuts
    /\ \A i, j \in DOMAIN requests :
          requests[i].decided = requests[j].decided => requests[i].cuts = requests[j].cuts

Planned == {"start", "encode", "retry", "retrystart", "verify", "final", "publish", "result"}

\* What a thread carries from gate to gate is what the request and the plan say, and
\* a video of a source that changed is not past the last gate.
CarriedInv ==
    \A t \in Threads :
        /\ pc[t] \notin {"idle", "initial"} => job[t].cuts = request(t).cuts
        /\ pc[t] \in Planned => plans[job[t].attempt] # NoPlan
        /\ pc[t] # "idle" /\ ~job[t].clean => ~intact
        /\ pc[t] \in {"publish", "result"} => job[t].clean

\* A success has a plan and a result of the cuts that were requested.
SuccessInv ==
    \A a \in Attempts : outcome[a] = "succeeded" =>
        /\ plans[a] # NoPlan
        /\ results[a] \in Videos
        /\ results[a].cuts = requests[a].cuts

IInv ==
    /\ TypeOK
    /\ AttemptInv
    /\ DecisionInv
    /\ CarriedInv
    /\ SuccessInv
    /\ PlanBindsItsCuts
    /\ PublishedFromApprovedSource

\* While one thread renders, nothing of an attempt is at the final name before it is
\* linked there, and from then on its own video is.
TargetInv ==
    \A t \in Threads :
        /\ pc[t] \notin {"idle", "initial", "result"} => target \in {NoVideo, Foreign}
        /\ pc[t] = "result" => target \in {Foreign, Encoded(t)}
=============================================================================
