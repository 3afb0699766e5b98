---------------------------- MODULE ProbeProcess ----------------------------
(***************************************************************************)
(* One run of ffprobe by NativeProcessPort.run                             *)
(* (phase2/probe/process_native.py).  The child is created suspended, put  *)
(* into a job whose closing kills it, and resumed.  A loop then measures   *)
(* the output files and waits in slices until the child ends, the output   *)
(* passes its limit, the user cancels or the time is over.  The first      *)
(* thing that goes wrong is latched and decides the answer; whatever       *)
(* happens, the tree of processes is ended and every handle closed.        *)
(* The two output channels are treated alike by the code and stand here as *)
(* one.                                                                    *)
(***************************************************************************)
EXTENDS Integers, FiniteSets, Sequences, SequencesExt

CONSTANTS
    Limit,      \* bytes an output file may hold
    MaxFaults   \* bound: calls the system refuses

ASSUME ProcessBounds == Limit \in Nat /\ MaxFaults \in Nat

VARIABLES
    pc,         \* where the calling thread is
    purpose,    \* what the child is asked for: "version" or "probe"
    token,      \* is the caller's token cancelled
    latch,      \* the first thing that went wrong in this run
    aborted,    \* did the start fail
    tree,       \* processes of the child's tree that exist
    assigned,   \* is the child in the job
    live,       \* has the child been resumed
    doomed,     \* has the end of the tree been ordered
    spared,     \* did the system refuse to end a process nothing else ends
    code,       \* the child's exit code
    written,    \* bytes in the output file
    size,       \* its size as measured after the end of the tree
    data,       \* bytes handed to the caller
    expired,    \* is the time limit over
    terminal,   \* was the end of the whole tree confirmed
    unwinding,  \* is the finally block running
    resources,  \* what the run holds
    unclean,    \* did closing a handle fail
    report,     \* the answer
    faults      \* refused calls so far

child == <<tree, live, doomed, code, written>>
start == <<aborted, assigned, spared, unclean, resources>>
answer == <<size, data, report>>
fixed == <<purpose, token, expired>>
run_vars == <<pc, purpose, token, latch, aborted, tree, assigned, live, doomed, spared,
              code, written, size, data, expired, terminal, unwinding, resources,
              unclean, report, faults>>

FailureKinds == {"cancelled", "timeout", "limit", "reader_io", "process_control",
                 "exit_code"}
Reports == {"none", "ok", "cancelled", "timeout", "limit", "start_failed", "failed"}

\* In the order they are taken.
Resources == <<"workdir", "stdin", "outputs", "attributes", "job">>

ProcessFlags ==
    {token, aborted, assigned, live, doomed, spared, expired, terminal, unwinding,
     unclean} \subseteq BOOLEAN

ProcessCounts ==
    /\ written \in 0 .. Limit + 1 /\ size \in 0 .. Limit /\ data \in 0 .. Limit
    /\ faults \in 0 .. MaxFaults

ProcessValues ==
    /\ purpose \in {"version", "probe"}
    /\ latch \in FailureKinds \cup {"none", "exited"}
    /\ tree \subseteq {"child", "helper"}
    /\ code \in {"none", "zero", "other"}
    /\ resources \subseteq Range(Resources) \cup {"process"}
    /\ report \in Reports

ProcessTypeOK == ProcessFlags /\ ProcessCounts /\ ProcessValues

ProcessInit ==
    /\ purpose = "version" /\ token = FALSE
    /\ latch = "none" /\ aborted = FALSE
    /\ tree = {} /\ assigned = FALSE /\ live = FALSE /\ doomed = FALSE /\ spared = FALSE
    /\ code = "none" /\ written = 0 /\ size = 0 /\ data = 0
    /\ expired = FALSE /\ terminal = FALSE /\ unwinding = FALSE
    /\ resources = {} /\ unclean = FALSE /\ report = "none" /\ faults = 0

-----------------------------------------------------------------------------
HasError(l) == l \in FailureKinds

\* _TerminalLatch.fail: only the first failure is the answer.
Fail(kind) == IF HasError(latch) THEN latch ELSE kind

\* The system refuses a call.
Refuses == faults < MaxFaults /\ faults' = faults + 1

\* Validation runs under a token of its own, which nobody cancels.
Cancelled == purpose = "probe" /\ token

Begin ==
    /\ pc = "run"
    /\ IF Cancelled
       THEN /\ pc' = "ran" /\ report' = "cancelled"
            /\ UNCHANGED <<latch, child, aborted, assigned, spared, unclean, resources,
                           size, data, terminal, unwinding, expired>>
       ELSE /\ pc' = "prepare" /\ report' = "none"
            /\ latch' = "none" /\ terminal' = FALSE /\ unwinding' = FALSE
            /\ tree' = {} /\ live' = FALSE /\ doomed' = FALSE /\ code' = "none"
            /\ written' = 0 /\ size' = 0 /\ data' = 0 /\ expired' = FALSE
            /\ aborted' = FALSE /\ assigned' = FALSE /\ spared' = FALSE
            /\ unclean' = FALSE /\ resources' = {}
    /\ UNCHANGED <<purpose, token, faults>>

\* Directory, pipe, output files, attribute list and job, in this order; a
\* refusal leaves those taken before it.
Prepare ==
    /\ pc = "prepare"
    /\ \E n \in 0 .. Len(Resources) :
        /\ resources' = {Resources[i] : i \in 1 .. n}
        /\ IF n = Len(Resources)
           THEN pc' = "create" /\ UNCHANGED <<aborted, faults>>
           ELSE pc' = "unwind" /\ aborted' = TRUE /\ Refuses
    /\ UNCHANGED <<fixed, latch, child, assigned, spared, unclean, answer, terminal,
                   unwinding>>

\* The child exists but does not run; the parent closes its copies of the
\* inherited handles.
Create ==
    /\ pc = "create"
    /\ \/ /\ tree' = {"child"} /\ resources' = resources \cup {"process"}
          /\ \/ UNCHANGED <<unclean, faults>>
             \/ unclean' = TRUE /\ Refuses
          /\ pc' = "assign" /\ UNCHANGED aborted
       \/ /\ Refuses /\ aborted' = TRUE /\ pc' = "unwind"
          /\ UNCHANGED <<tree, resources, unclean>>
    /\ UNCHANGED <<fixed, latch, live, doomed, code, written, assigned, spared, answer,
                   terminal, unwinding>>

\* _terminate_unassigned_process: a child that is in no job is ended directly
\* and awaited for a bounded time.
TerminateUnassigned ==
    \/ /\ faults + 1 <= MaxFaults /\ faults' = faults + 1 /\ doomed' = TRUE
       /\ \/ tree' = {} /\ code' = "other" /\ terminal' = TRUE
          \/ UNCHANGED <<tree, code, terminal>>
       /\ UNCHANGED spared
    \/ /\ faults + 2 <= MaxFaults /\ faults' = faults + 2 /\ spared' = TRUE
       /\ UNCHANGED <<tree, code, terminal, doomed>>

\* Either the child is in the job, or the job refused it (one fault) and it is
\* ended directly (a second one when that is refused as well).
Assign ==
    /\ pc = "assign"
    /\ \/ assigned' = TRUE /\ pc' = "resume"
          /\ UNCHANGED <<latch, aborted, tree, doomed, spared, code, terminal, faults>>
       \/ /\ latch' = Fail("process_control") /\ aborted' = TRUE /\ pc' = "unwind"
          /\ TerminateUnassigned /\ UNCHANGED assigned
    /\ UNCHANGED <<fixed, live, written, unclean, resources, answer, unwinding>>

Resume ==
    /\ pc = "resume"
    /\ \/ live' = TRUE /\ pc' = "check" /\ UNCHANGED <<latch, aborted, faults>>
       \/ /\ Refuses /\ latch' = Fail("process_control") /\ aborted' = TRUE
          /\ pc' = "unwind" /\ UNCHANGED live
    /\ UNCHANGED <<fixed, tree, doomed, code, written, assigned, spared, unclean,
                   resources, answer, terminal, unwinding>>

-----------------------------------------------------------------------------
\* What every step of the watching thread leaves alone.
Watching == UNCHANGED <<fixed, tree, live, code, written, start, report, unwinding>>

\* _check_sizes: a size is unreadable or over the limit.
BadSizes(next) ==
    /\ pc' = next
    /\ \/ Refuses /\ latch' = Fail("reader_io")
       \/ written > Limit /\ latch' = Fail("limit") /\ UNCHANGED faults

\* The head of the loop in _wait: the sizes, then the token.
Check ==
    /\ pc = "check"
    /\ \/ BadSizes("terminate")
       \/ /\ written <= Limit /\ Cancelled /\ latch' = Fail("cancelled")
          /\ pc' = "terminate" /\ UNCHANGED faults
       \/ written <= Limit /\ ~Cancelled /\ pc' = "wait" /\ UNCHANGED <<latch, faults>>
    /\ Watching /\ UNCHANGED <<doomed, terminal, size, data>>

\* Mutant: the child's end is taken for the end of its tree.
Wait_ForgetsHelpers ==
    /\ pc = "wait"
    /\ \/ /\ "child" \notin tree
          /\ latch' = "exited" /\ terminal' = TRUE /\ pc' = "exit" /\ UNCHANGED faults
       \/ /\ "child" \in tree
          /\ IF expired THEN latch' = Fail("timeout") /\ pc' = "terminate"
                        ELSE pc' = "check" /\ UNCHANGED latch
          /\ UNCHANGED <<terminal, faults>>
    /\ Watching /\ UNCHANGED <<doomed, size, data>>

\* Mutant: the clock is never looked at.
Wait_WithoutDeadline ==
    /\ pc = "wait"
    /\ IF "child" \notin tree
       THEN latch' = "exited" /\ terminal' = (tree = {})
            /\ pc' = (IF tree = {} THEN "exit" ELSE "terminate")
       ELSE pc' = "check" /\ UNCHANGED <<latch, terminal>>
    /\ Watching /\ UNCHANGED <<doomed, size, data, faults>>

\* One slice.  The child's end is seen before the clock is looked at, and is
\* the end of the run only when the job holds no other process.
Wait ==
    /\ pc = "wait"
    /\ \/ /\ "child" \notin tree
          /\ \/ tree = {} /\ latch' = "exited" /\ terminal' = TRUE /\ pc' = "exit"
                /\ UNCHANGED faults
             \/ /\ tree # {} /\ latch' = "exited" /\ pc' = "terminate"
                /\ UNCHANGED <<terminal, faults>>
             \/ Refuses /\ latch' = "process_control" /\ pc' = "terminate"
                /\ UNCHANGED terminal
       \/ /\ Refuses /\ latch' = Fail("process_control") /\ pc' = "terminate"
          /\ UNCHANGED terminal
       \/ /\ "child" \in tree
          /\ IF expired THEN latch' = Fail("timeout") /\ pc' = "terminate"
                        ELSE pc' = "check" /\ UNCHANGED latch
          /\ UNCHANGED <<terminal, faults>>
    /\ Watching /\ UNCHANGED <<doomed, size, data>>

\* _terminate_tree
TerminateTree ==
    /\ pc = "terminate" /\ pc' = "confirm"
    /\ \/ doomed' = TRUE /\ UNCHANGED <<latch, faults>>
       \/ Refuses /\ latch' = Fail("process_control") /\ UNCHANGED doomed
    /\ Watching /\ UNCHANGED <<terminal, size, data>>

\* _confirm_job_terminal asks until the job is empty, the question fails or
\* five seconds are over.
ConfirmTerminal ==
    /\ pc = "confirm" /\ pc' = IF unwinding THEN "close" ELSE "exit"
    /\ \/ tree = {} /\ terminal' = TRUE /\ UNCHANGED <<latch, faults>>
       \/ tree # {} /\ latch' = Fail("process_control") /\ UNCHANGED <<terminal, faults>>
       \/ Refuses /\ latch' = Fail("process_control") /\ UNCHANGED terminal
    /\ Watching /\ UNCHANGED <<doomed, size, data>>

ExitCode ==
    /\ pc = "exit"
    /\ IF terminal
       THEN /\ pc' = "measure"
            /\ \/ /\ latch' = IF ~HasError(latch) /\ code # "zero" THEN "exit_code" ELSE latch
                  /\ UNCHANGED faults
               \/ Refuses /\ latch' = Fail("exit_code")
       ELSE pc' = "finish" /\ UNCHANGED <<latch, faults>>
    /\ Watching /\ UNCHANGED <<doomed, terminal, size, data>>

\* The sizes once more; unreadable or too large output is not read at all.
Measure ==
    /\ pc = "measure"
    /\ \/ latch \in {"limit", "reader_io"} /\ pc' = "finish"
          /\ UNCHANGED <<latch, size, faults>>
       \/ /\ latch \notin {"limit", "reader_io"}
          /\ \/ BadSizes("finish") /\ UNCHANGED size
             \/ written <= Limit /\ size' = written /\ pc' = "read"
                /\ UNCHANGED <<latch, faults>>
    /\ Watching /\ UNCHANGED <<doomed, terminal, data>>

\* _read_output reads what was measured and measures again.
Read ==
    /\ pc = "read" /\ pc' = "finish"
    /\ \/ /\ written = size /\ data' = size /\ UNCHANGED <<latch, faults>>
       \/ written # size /\ latch' = Fail("reader_io") /\ UNCHANGED <<data, faults>>
       \/ Refuses /\ latch' = Fail("reader_io") /\ UNCHANGED data
    /\ Watching /\ UNCHANGED <<doomed, terminal, size>>

Finish ==
    /\ pc = "finish" /\ pc' = "unwind"
    /\ latch' = IF Cancelled THEN Fail("cancelled") ELSE latch
    /\ Watching /\ UNCHANGED <<doomed, terminal, size, data, faults>>

\* The finally block: a tree not known to be gone is ended again.
Unwind ==
    /\ pc = "unwind" /\ unwinding' = TRUE
    /\ IF assigned /\ ~terminal
       THEN pc' = "terminate" /\ latch' = Fail("process_control")
       ELSE pc' = "close" /\ UNCHANGED latch
    /\ UNCHANGED <<fixed, child, start, answer, terminal, faults>>

\* _remove_workdir_bounded: the directory stays without any refusal while a
\* living child keeps its files in it.
Refused(left) == IF tree # {} THEN left \ {"workdir"} ELSE left

\* Closing the job kills what it still holds.
Close ==
    /\ pc = "close"
    /\ \E left \in SUBSET resources :
        /\ faults + Cardinality(Refused(left)) <= MaxFaults
        /\ faults' = faults + Cardinality(Refused(left))
        /\ resources' = left
        /\ unclean' = (unclean \/ left \ {"workdir"} # {})
        /\ doomed' = (doomed \/ (assigned /\ "job" \in resources \ left))
        /\ spared' = (spared \/ (assigned /\ tree # {} /\ "job" \in left))
    /\ pc' = "report"
    /\ UNCHANGED <<fixed, latch, tree, live, code, written, aborted, assigned, answer,
                   terminal, unwinding>>

Outcome(l) ==
    IF aborted THEN "start_failed"
    ELSE IF l \in {"cancelled", "timeout", "limit"} THEN l
    ELSE IF HasError(l) \/ unclean THEN "failed" ELSE "ok"

\* A whole run counts only when the token gives its permit.
Report ==
    /\ pc = "report" /\ pc' = "ran"
    /\ report' = IF Outcome(latch) = "ok" /\ Cancelled THEN "cancelled" ELSE Outcome(latch)
    /\ UNCHANGED <<fixed, latch, child, start, size, data, terminal, unwinding, faults>>

RunStep == \/ Begin \/ Prepare \/ Assign \/ Resume \/ Check \/ Wait \/ TerminateTree
           \/ ConfirmTerminal \/ ExitCode \/ Measure \/ Read \/ Finish \/ Unwind \/ Close
           \/ Report

-----------------------------------------------------------------------------
(* What happens around the thread. *)

Undisturbed == UNCHANGED <<pc, purpose, latch, start, answer, terminal, unwinding, faults>>

\* The running tree writes, starts a helper, loses one, or the child exits.
ChildRuns ==
    /\ live /\ tree # {}
    /\ \/ written <= Limit /\ written' = written + 1 /\ UNCHANGED <<tree, code>>
       \/ "child" \in tree /\ ~doomed /\ tree' = tree \cup {"helper"}
          /\ UNCHANGED <<written, code>>
       \/ tree' = tree \ {"helper"} /\ UNCHANGED <<written, code>>
       \/ /\ "child" \in tree /\ tree' = tree \ {"child"} /\ code' \in {"zero", "other"}
          /\ UNCHANGED written
    /\ Undisturbed /\ UNCHANGED <<token, expired, live, doomed>>

\* An ordered end takes effect.
TreeDies ==
    /\ doomed /\ tree # {} /\ tree' = {}
    /\ code' = IF "child" \in tree THEN "other" ELSE code
    /\ Undisturbed /\ UNCHANGED <<token, expired, live, doomed, written>>

TimePasses ==
    /\ ~expired /\ pc \in {"check", "wait"} /\ expired' = TRUE
    /\ Undisturbed /\ UNCHANGED <<token, child>>

UserCancels ==
    /\ ~token /\ token' = TRUE
    /\ Undisturbed /\ UNCHANGED <<expired, child>>

-----------------------------------------------------------------------------
(* Why a run keeps its promises.                                           *)

\* The steps before there is a child, those before it is watched, those at
\* which it is in the job, and the last ones.
Preparing == {"prepare", "create"}
Starting == Preparing \cup {"assign", "resume"}
InJob == {"resume", "check", "wait", "terminate", "confirm", "exit", "measure", "read",
          "finish"}
Unwinding == {"unwind", "close"}

\* No process of the tree is left, or something will end the last one.
Ended == tree = {} \/ doomed \/ spared

\* The child ended well and by itself, nothing of its tree is left, and all it
\* wrote was read.
Whole == terminal /\ tree = {} /\ code = "zero" /\ data = written

TreeInv ==
    /\ terminal => tree = {}
    /\ pc \in {"idle", "run", "request", "open"} \cup Preparing => tree = {}
    /\ pc \in Preparing => ~terminal

\* The job is the net under the child: whoever is in it falls with it.
JobInv ==
    /\ pc = "prepare" => ~assigned
    /\ pc \in InJob => assigned
    /\ pc \in InJob \cup {"create", "assign"} => "job" \in resources
    /\ pc \in Unwinding /\ assigned => "job" \in resources
    /\ pc \in Unwinding /\ ~assigned => Ended
    /\ pc \in {"report", "ran"} => Ended

\* Without a latched failure every step so far went well.
LatchInv ==
    /\ pc \in Starting \cup {"check", "wait"} => latch = "none" /\ ~unwinding
    /\ pc \in {"terminate", "confirm"} /\ unwinding => HasError(latch)
    /\ pc = "exit" => terminal \/ HasError(latch)
    /\ pc \in {"measure", "read"} => terminal /\ (code = "zero" \/ HasError(latch))
    /\ pc = "read" => size = written
    /\ pc \in {"finish", "report"} \cup Unwinding /\ ~aborted /\ ~HasError(latch) => Whole
    /\ pc = "report" /\ ~unclean => resources \subseteq {"workdir"}
    /\ pc = "ran" /\ report = "ok" => Whole /\ resources \subseteq {"workdir"}

ProcessInv == ProcessTypeOK /\ TreeInv /\ JobInv /\ LatchInv
=============================================================================
