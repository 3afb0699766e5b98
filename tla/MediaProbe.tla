----------------------------- MODULE MediaProbe -----------------------------
(***************************************************************************)
(* Probing a recording: validate_ffprobe_binary (phase2/probe/binary.py)   *)
(* runs the candidate once for its version and issues a capability for     *)
(* exactly that file; run_probe (phase2/probe/runner.py) checks recording  *)
(* and binary, runs ffprobe while it holds the binary, and checks both     *)
(* again before it answers with a profile.  Others may replace the         *)
(* recording at any time, and the binary whenever no handle protects it.   *)
(* A file is named by its version: one number per content and instance.    *)
(***************************************************************************)
EXTENDS ProbeProcess

CONSTANT MaxChanges     \* bound: replaced files

ASSUME ProbeBounds == MaxChanges \in Nat

VARIABLES
    binary,         \* version of ffprobe on disk
    recording,      \* version of the recording on disk
    held,           \* does a handle without write and delete sharing protect the binary
    capability,     \* the version of ffprobe the capability was issued for, or 0
    ran,            \* the version that was started last, or 0
    before,         \* the recording's first snapshot, or 0
    heard,          \* versions the recording had while the child could read it
    failed,         \* has the probe's latch a failure
    cleanup,        \* did closing a binary handle fail
    result,         \* the answer of the call
    changes         \* replaced files so far

files == <<binary, recording, changes>>
probe == <<held, capability, ran, before, heard, failed, cleanup, result>>
vars == <<run_vars, files, probe>>

Expected == 1   \* the version the request names

FilesTypeOK ==
    /\ binary \in 1 .. MaxChanges + 1 /\ recording \in 1 .. MaxChanges + 1
    /\ capability \in 0 .. MaxChanges + 1 /\ ran \in 0 .. MaxChanges + 1
    /\ before \in 0 .. MaxChanges + 1
    /\ heard \subseteq 1 .. MaxChanges + 1
    /\ changes \in 0 .. MaxChanges

TypeOK ==
    /\ ProcessTypeOK /\ FilesTypeOK
    /\ {held, failed, cleanup} \subseteq BOOLEAN
    /\ result \in {"none", "ok", "failed", "unvalidated"}

Init ==
    /\ ProcessInit /\ pc = "idle"
    /\ binary = 1 /\ recording = Expected /\ changes = 0
    /\ held = FALSE /\ capability = 0 /\ ran = 0 /\ before = 0 /\ heard = {}
    /\ failed = FALSE /\ cleanup = FALSE /\ result = "none"

\* A step of the caller between two runs of the child.
Caller == UNCHANGED <<files, token, latch, child, start, answer, expired, terminal,
                      unwinding>>

Answer(r) == pc' = "done" /\ result' = r

\* What _inspect_open returns: instance, times and hash of the whole file, taken
\* under a handle that lets nobody write or delete it.
Evidence == binary

SameBinary(expected) == Evidence = expected

\* inspect: the handle stays open for the caller, or nothing does.
Inspect(next) ==
    \/ held' = TRUE /\ pc' = next /\ UNCHANGED <<faults, result>>
    \/ Refuses /\ pc' = "done" /\ result' = (IF capability = 0 THEN "unvalidated" ELSE "failed")
       /\ UNCHANGED held

StartValidation ==
    /\ pc = "idle" /\ purpose' = "version"
    /\ Inspect("run")
    /\ Caller /\ UNCHANGED <<capability, ran, before, heard, failed, cleanup>>

\* The version is parsed and supported, the file inspected again and found the
\* same, and both handles closed; otherwise there is no capability.
IssueCapability ==
    /\ pc = "ran" /\ purpose = "version"
    /\ \/ /\ report = "ok" /\ SameBinary(ran) /\ held' = FALSE
          /\ capability' = ran /\ pc' = "request" /\ UNCHANGED <<faults, result>>
       \/ held' = FALSE /\ Answer("unvalidated") /\ UNCHANGED <<capability, faults>>
       \/ Refuses /\ Answer("unvalidated") /\ held' \in BOOLEAN /\ UNCHANGED capability
    /\ Caller /\ UNCHANGED <<purpose, ran, before, heard, failed, cleanup>>

SnapshotBefore ==
    /\ pc = "request"
    /\ \/ /\ ~token /\ recording = Expected /\ before' = recording /\ pc' = "open"
          /\ UNCHANGED <<result, faults, failed>>
       \/ /\ token \/ recording # Expected
          /\ failed' = TRUE /\ Answer("failed") /\ UNCHANGED <<before, faults>>
       \/ Refuses /\ failed' = TRUE /\ Answer("failed") /\ UNCHANGED before
    /\ Caller /\ UNCHANGED <<purpose, held, capability, ran, heard, cleanup>>

\* _open_verified_binary_for_launch keeps the handle only for the validated file under
\* the policy it was validated by; otherwise the handle is closed, if that can be done.
OpenVerified ==
    \/ SameBinary(capability) /\ Inspect("run")
    \/ Answer("failed") /\ held' = FALSE /\ UNCHANGED faults
    \/ Answer("failed") /\ held' \in BOOLEAN /\ Refuses

OpenForLaunch ==
    /\ pc = "open" /\ purpose' = "probe"
    /\ OpenVerified /\ failed' = (pc' = "done")
    /\ Caller /\ UNCHANGED <<capability, ran, before, heard, cleanup>>

\* The port's run, on whatever file the name denotes at that moment.
Launch ==
    /\ Create
    /\ IF tree' # {} THEN ran' = binary /\ heard' = {recording}
                     ELSE UNCHANGED <<ran, heard>>
    /\ UNCHANGED <<files, held, capability, before, failed, cleanup, result>>

Run == RunStep /\ UNCHANGED <<files, probe>>

\* The answer of the run is parsed and the token asked.
AfterProcess ==
    /\ pc = "ran" /\ purpose = "probe" /\ pc' = "post"
    /\ \E parsed \in BOOLEAN : failed' = (report # "ok" \/ ~parsed \/ token)
    /\ Caller /\ UNCHANGED <<purpose, faults, held, capability, ran, before, heard,
                             cleanup, result>>

\* A close that fails leaves it open whether the handle is gone.
CloseInspections ==
    \/ held' = FALSE /\ UNCHANGED <<cleanup, faults>>
    \/ Refuses /\ cleanup' = TRUE /\ held' \in BOOLEAN

\* The binary again, then its handles are closed.
PostInspect ==
    /\ pc = "post" /\ pc' = "after"
    /\ \/ CloseInspections /\ failed' = (failed \/ ~SameBinary(capability))
       \/ /\ Refuses /\ failed' = TRUE
          /\ \/ held' = FALSE /\ UNCHANGED cleanup
             \/ held' \in BOOLEAN /\ cleanup' = TRUE
    /\ Caller /\ UNCHANGED <<purpose, capability, ran, before, heard, result>>

\* Mutant: the second snapshot is taken but not compared with the first.
SnapshotAfter_NotCompared ==
    /\ pc = "after"
    /\ \/ /\ ~failed /\ ~token /\ pc' = "select"
          /\ UNCHANGED <<failed, result, faults>>
       \/ /\ failed \/ token
          /\ failed' = TRUE /\ Answer("failed") /\ UNCHANGED faults
    /\ Caller /\ UNCHANGED <<purpose, held, capability, ran, before, heard, cleanup>>

VerifySource(first, second) == first = Expected /\ second = first

SnapshotAfter ==
    /\ pc = "after"
    /\ \/ /\ ~failed /\ ~token /\ VerifySource(before, recording) /\ pc' = "select"
          /\ UNCHANGED <<failed, result, faults>>
       \/ /\ failed \/ token \/ ~VerifySource(before, recording)
          /\ failed' = TRUE /\ Answer("failed") /\ UNCHANGED faults
       \/ Refuses /\ failed' = TRUE /\ Answer("failed")
    /\ Caller /\ UNCHANGED <<purpose, held, capability, ran, before, heard, cleanup>>

\* select_streams answers or refuses (module StreamSelection); a close error
\* of a binary handle is looked at only now.
Select ==
    /\ pc = "select"
    /\ \E selected \in BOOLEAN :
        IF selected /\ ~token /\ ~cleanup
        THEN pc' = "permit" /\ UNCHANGED <<failed, result>>
        ELSE failed' = TRUE /\ Answer("failed")
    /\ Caller /\ UNCHANGED <<purpose, faults, held, capability, ran, before, heard, cleanup>>

Permit ==
    /\ pc = "permit"
    /\ IF token THEN failed' = TRUE /\ Answer("failed")
                ELSE UNCHANGED failed /\ Answer("ok")
    /\ Caller /\ UNCHANGED <<purpose, faults, held, capability, ran, before, heard, cleanup>>

-----------------------------------------------------------------------------
Replace ==
    /\ pc # "done" /\ changes < MaxChanges /\ changes' = changes + 1
    /\ \/ /\ ~held /\ binary' = changes + 2 /\ UNCHANGED <<recording, heard>>
       \/ /\ recording' = changes + 2 /\ UNCHANGED binary
          /\ heard' = IF tree # {} THEN heard \cup {changes + 2} ELSE heard
    /\ UNCHANGED <<run_vars, held, capability, ran, before, failed, cleanup, result>>

Surroundings ==
    /\ pc # "done"
    /\ ChildRuns \/ TreeDies \/ UserCancels
    /\ UNCHANGED <<files, probe>>

Clock == TimePasses /\ UNCHANGED <<files, probe>>

CallerStep == \/ StartValidation \/ IssueCapability \/ SnapshotBefore \/ OpenForLaunch
              \/ Launch \/ Run \/ AfterProcess \/ PostInspect \/ SnapshotAfter \/ Select
              \/ Permit

Next == CallerStep \/ Replace \/ Surroundings \/ Clock

\* The calling thread runs and time passes; nothing is assumed of the child.
Spec == Init /\ [][Next]_vars /\ WF_vars(CallerStep) /\ WF_vars(Clock)

-----------------------------------------------------------------------------
\* When a run of the child has been answered, its tree is gone or its end has
\* been ordered, unless the system refused the very call that ends it; and a
\* good answer is given only when every process of the tree is gone.
ChildIsGone ==
    /\ pc = "ran" => tree = {} \/ doomed \/ spared
    /\ pc = "ran" /\ report = "ok" => tree = {}

\* A profile is of one recording, made by the validated ffprobe: the recording
\* was the snapshot's during the whole run of the child, the file that ran is
\* the one the capability names, the child ended well by itself, what it wrote
\* was read completely within the limit, and no handle is left open.
ProfileIsTrue ==
    result = "ok" =>
        /\ heard = {before} /\ before = Expected
        /\ ran = capability
        /\ code = "zero" /\ data = written /\ tree = {}
        /\ ~held /\ resources \subseteq {"workdir"}

\* A probe comes to an end, whatever the child does: it may hang, write
\* without end or leave processes behind.
ProbeReturns == <>(pc = "done")

-----------------------------------------------------------------------------
(* Why the properties hold.                                                *)

\* From the inspection of ffprobe to the end of its run.
InCall == Starting \cup InJob \cup Unwinding \cup {"run", "report", "ran"}
Validated == {"request", "open", "post", "after", "select", "permit"}

\* A version is never used again, so a recording that is the expected one now
\* was it all the time; and whatever ran had a recording before it.
RecordingInv ==
    /\ recording = Expected => heard \subseteq {Expected}
    /\ ran # 0 => heard # {}

\* The file that is held cannot be replaced: what runs is what was inspected.
BinaryInv ==
    /\ pc \in InCall => held
    /\ pc = "idle" => capability = 0
    /\ pc \in InCall /\ purpose = "version" => capability = 0
    /\ pc \in InCall /\ purpose = "probe" => binary = capability
    /\ pc \in Validated => capability # 0
    /\ capability # 0 => ran = capability
    /\ pc \in {"after", "select", "permit"} => ~held \/ cleanup
    /\ pc = "permit" => ~cleanup

AnswerInv ==
    /\ pc \in {"post", "after", "select", "permit"} /\ ~failed =>
          Whole /\ resources \subseteq {"workdir"}
    /\ pc \in {"select", "permit"} => ~failed /\ before = Expected /\ heard = {before}
    /\ pc # "done" => result = "none"

IInv == ProcessInv /\ TypeOK /\ RecordingInv /\ BinaryInv /\ AnswerInv /\ ProfileIsTrue
=============================================================================
