------------------------- MODULE MediaProbe_proofs --------------------------
(***************************************************************************)
(* Proofs about MediaProbe and the run of its child, for any limit of the  *)
(* output and any numbers of refused calls and replaced files, and about   *)
(* the choice of the streams, for any answer of ffprobe (Rules).           *)
(***************************************************************************)
EXTENDS MediaProbe, Rules, FiniteSetTheorems, WellFoundedInduction, TLAPS

USE DEF FailureKinds, Reports, Preparing, Starting, InJob, Unwinding, Ended, Whole,
        HasError, Fail, Refuses, Cancelled,
        child, start, answer, fixed

-----------------------------------------------------------------------------
(* Lemmas about the values.                                                *)

LEMMA ResourceNames ==
    /\ Len(Resources) = 5
    /\ Range(Resources) = {"workdir", "stdin", "outputs", "attributes", "job"}
    /\ Resources[5] = "job"
    /\ \A i \in 1 .. 5 : Resources[i] \in Range(Resources)
<1>1. Len(Resources) = 5 /\ DOMAIN Resources = 1 .. 5
  BY DEF Resources
<1>2. /\ Resources[1] = "workdir" /\ Resources[2] = "stdin" /\ Resources[3] = "outputs"
      /\ Resources[4] = "attributes" /\ Resources[5] = "job"
  BY DEF Resources
<1>3. 1 .. 5 = {1, 2, 3, 4, 5}
  OBVIOUS
<1> HIDE DEF Resources
<1>4. Range(Resources) = {Resources[i] : i \in 1 .. 5}
  BY <1>1 DEF Range
<1> QED
  BY <1>1, <1>2, <1>3, <1>4

\* What is left of the resources is a finite set, so its size is a number.
LEMMA RefusedIsCounted ==
    ASSUME ProcessTypeOK, NEW left \in SUBSET resources
    PROVE  Cardinality(Refused(left)) \in Nat
<1>1. IsFiniteSet(Range(Resources) \cup {"process"})
  <2>1. IsFiniteSet({})
    BY FS_EmptySet
  <2>2. IsFiniteSet({"workdir"})
    BY <2>1, FS_AddElement
  <2>3. IsFiniteSet({"workdir", "stdin"})
    <3>1. {"workdir", "stdin"} = {"workdir"} \cup {"stdin"}
      OBVIOUS
    <3> QED BY <2>2, <3>1, FS_AddElement
  <2>4. IsFiniteSet({"workdir", "stdin", "outputs"})
    <3>1. {"workdir", "stdin", "outputs"} = {"workdir", "stdin"} \cup {"outputs"}
      OBVIOUS
    <3> QED BY <2>3, <3>1, FS_AddElement
  <2>5. IsFiniteSet({"workdir", "stdin", "outputs", "attributes"})
    <3>1. {"workdir", "stdin", "outputs", "attributes"}
              = {"workdir", "stdin", "outputs"} \cup {"attributes"}
      OBVIOUS
    <3> QED BY <2>4, <3>1, FS_AddElement
  <2>6. IsFiniteSet(Range(Resources))
    <3>1. Range(Resources) = {"workdir", "stdin", "outputs", "attributes"} \cup {"job"}
      BY ResourceNames
    <3> QED BY <2>5, <3>1, FS_AddElement
  <2> QED
    BY <2>6, FS_AddElement
<1>2. Refused(left) \subseteq Range(Resources) \cup {"process"}
  BY DEF ProcessTypeOK, ProcessValues, Refused
<1> QED
  BY <1>1, <1>2, FS_Subset, FS_CardinalityType

-----------------------------------------------------------------------------
(* The run of the child, step by step.                                     *)

LEMMA BeginInv ==
    ASSUME ProcessInv, Begin
    PROVE  ProcessInv'
<1> USE DEF ProcessInv, Begin
<1>1. ProcessTypeOK'
  <2>1. ProcessFlags'
    BY DEF ProcessTypeOK, ProcessFlags
  <2>2. ProcessCounts'
    BY ProcessBounds DEF ProcessTypeOK, ProcessCounts
  <2>3. ProcessValues'
    BY DEF ProcessTypeOK, ProcessValues
  <2> QED
    BY <2>1, <2>2, <2>3 DEF ProcessTypeOK
<1>2. TreeInv' /\ JobInv' /\ LatchInv'
  BY DEF TreeInv, JobInv, LatchInv
<1> QED
  BY <1>1, <1>2

LEMMA PrepareInv ==
    ASSUME ProcessInv, Prepare
    PROVE  ProcessInv'
<1> USE DEF ProcessInv
<1> PICK n \in 0 .. Len(Resources) :
        /\ resources' = {Resources[i] : i \in 1 .. n}
        /\ IF n = Len(Resources)
           THEN pc' = "create" /\ UNCHANGED <<aborted, faults>>
           ELSE pc' = "unwind" /\ aborted' = TRUE /\ Refuses
  BY DEF Prepare
<1>0. /\ pc = "prepare"
      /\ UNCHANGED <<fixed, latch, child, assigned, spared, unclean, answer, terminal,
                     unwinding>>
  BY DEF Prepare
<1>1. resources' \subseteq Range(Resources) \cup {"process"}
  BY ResourceNames
<1>2. n = Len(Resources) => "job" \in resources'
  BY ResourceNames
<1>3. ProcessTypeOK'
  <2>1. ProcessFlags'
    BY <1>0, <1>1 DEF ProcessTypeOK, ProcessFlags
  <2>2. ProcessCounts'
    BY <1>0, <1>1, ProcessBounds DEF ProcessTypeOK, ProcessCounts
  <2>3. ProcessValues'
    BY <1>0, <1>1 DEF ProcessTypeOK, ProcessValues
  <2> QED
    BY <2>1, <2>2, <2>3 DEF ProcessTypeOK
<1>4. TreeInv' /\ JobInv' /\ LatchInv'
  BY <1>0, <1>2 DEF TreeInv, JobInv, LatchInv
<1> QED
  BY <1>3, <1>4

LEMMA CreateInv ==
    ASSUME ProcessInv, Create
    PROVE  ProcessInv'
<1> USE DEF ProcessInv, Create
<1>1. ProcessTypeOK'
  <2>1. ProcessFlags'
    BY DEF ProcessTypeOK, ProcessFlags
  <2>2. ProcessCounts'
    BY ProcessBounds DEF ProcessTypeOK, ProcessCounts
  <2>3. ProcessValues'
    BY DEF ProcessTypeOK, ProcessValues
  <2> QED
    BY <2>1, <2>2, <2>3 DEF ProcessTypeOK
<1>2. TreeInv' /\ JobInv' /\ LatchInv'
  BY DEF TreeInv, JobInv, LatchInv
<1> QED
  BY <1>1, <1>2

LEMMA AssignInv ==
    ASSUME ProcessInv, Assign
    PROVE  ProcessInv'
<1> USE DEF ProcessInv, Assign, TerminateUnassigned
<1>1. ProcessTypeOK'
  <2>1. ProcessFlags'
    BY DEF ProcessTypeOK, ProcessFlags
  <2>2. ProcessCounts'
    BY ProcessBounds DEF ProcessTypeOK, ProcessCounts
  <2>3. ProcessValues'
    BY DEF ProcessTypeOK, ProcessValues
  <2> QED
    BY <2>1, <2>2, <2>3 DEF ProcessTypeOK
<1>2. TreeInv'
  BY DEF TreeInv
<1>3. JobInv'
  BY DEF JobInv
<1>4. LatchInv'
  BY DEF LatchInv
<1> QED
  BY <1>1, <1>2, <1>3, <1>4

LEMMA ResumeInv ==
    ASSUME ProcessInv, Resume
    PROVE  ProcessInv'
<1> USE DEF ProcessInv, Resume
<1>1. ProcessTypeOK'
  <2>1. ProcessFlags'
    BY DEF ProcessTypeOK, ProcessFlags
  <2>2. ProcessCounts'
    BY ProcessBounds DEF ProcessTypeOK, ProcessCounts
  <2>3. ProcessValues'
    BY DEF ProcessTypeOK, ProcessValues
  <2> QED
    BY <2>1, <2>2, <2>3 DEF ProcessTypeOK
<1>2. TreeInv' /\ JobInv' /\ LatchInv'
  BY DEF TreeInv, JobInv, LatchInv
<1> QED
  BY <1>1, <1>2

LEMMA CheckInv ==
    ASSUME ProcessInv, Check
    PROVE  ProcessInv'
<1> USE DEF ProcessInv, Check, BadSizes, Watching
<1>1. ProcessTypeOK'
  <2>1. ProcessFlags'
    BY DEF ProcessTypeOK, ProcessFlags
  <2>2. ProcessCounts'
    BY ProcessBounds DEF ProcessTypeOK, ProcessCounts
  <2>3. ProcessValues'
    BY DEF ProcessTypeOK, ProcessValues
  <2> QED
    BY <2>1, <2>2, <2>3 DEF ProcessTypeOK
<1>2. TreeInv' /\ JobInv' /\ LatchInv'
  BY DEF TreeInv, JobInv, LatchInv
<1> QED
  BY <1>1, <1>2

LEMMA WaitInv ==
    ASSUME ProcessInv, Wait
    PROVE  ProcessInv'
<1> USE DEF ProcessInv, Wait, Watching
<1>1. ProcessTypeOK'
  <2>1. ProcessFlags'
    BY DEF ProcessTypeOK, ProcessFlags
  <2>2. ProcessCounts'
    BY ProcessBounds DEF ProcessTypeOK, ProcessCounts
  <2>3. ProcessValues'
    BY DEF ProcessTypeOK, ProcessValues
  <2> QED
    BY <2>1, <2>2, <2>3 DEF ProcessTypeOK
<1>2. TreeInv' /\ JobInv'
  BY DEF TreeInv, JobInv
<1>3. LatchInv'
  BY DEF LatchInv
<1> QED
  BY <1>1, <1>2, <1>3

LEMMA TerminateTreeInv ==
    ASSUME ProcessInv, TerminateTree
    PROVE  ProcessInv'
<1> USE DEF ProcessInv, TerminateTree, Watching
<1>1. ProcessTypeOK'
  <2>1. ProcessFlags'
    BY DEF ProcessTypeOK, ProcessFlags
  <2>2. ProcessCounts'
    BY ProcessBounds DEF ProcessTypeOK, ProcessCounts
  <2>3. ProcessValues'
    BY DEF ProcessTypeOK, ProcessValues
  <2> QED
    BY <2>1, <2>2, <2>3 DEF ProcessTypeOK
<1>2. TreeInv' /\ JobInv' /\ LatchInv'
  BY DEF TreeInv, JobInv, LatchInv
<1> QED
  BY <1>1, <1>2

LEMMA ConfirmTerminalInv ==
    ASSUME ProcessInv, ConfirmTerminal
    PROVE  ProcessInv'
<1> USE DEF ProcessInv, ConfirmTerminal, Watching
<1>1. ProcessTypeOK'
  <2>1. ProcessFlags'
    BY DEF ProcessTypeOK, ProcessFlags
  <2>2. ProcessCounts'
    BY ProcessBounds DEF ProcessTypeOK, ProcessCounts
  <2>3. ProcessValues'
    BY DEF ProcessTypeOK, ProcessValues
  <2> QED
    BY <2>1, <2>2, <2>3 DEF ProcessTypeOK
<1>2. TreeInv' /\ JobInv'
  BY DEF TreeInv, JobInv
<1>3. LatchInv'
  BY DEF LatchInv
<1> QED
  BY <1>1, <1>2, <1>3

LEMMA ExitCodeInv ==
    ASSUME ProcessInv, ExitCode
    PROVE  ProcessInv'
<1> USE DEF ProcessInv, ExitCode, Watching
<1>1. ProcessTypeOK'
  <2>1. ProcessFlags'
    BY DEF ProcessTypeOK, ProcessFlags
  <2>2. ProcessCounts'
    BY ProcessBounds DEF ProcessTypeOK, ProcessCounts
  <2>3. ProcessValues'
    BY DEF ProcessTypeOK, ProcessValues
  <2> QED
    BY <2>1, <2>2, <2>3 DEF ProcessTypeOK
<1>2. TreeInv' /\ JobInv'
  BY DEF TreeInv, JobInv
<1>3. LatchInv'
  BY DEF LatchInv
<1> QED
  BY <1>1, <1>2, <1>3

LEMMA MeasureInv ==
    ASSUME ProcessInv, Measure
    PROVE  ProcessInv'
<1> USE DEF ProcessInv, Measure, BadSizes, Watching
<1>1. ProcessTypeOK'
  <2>1. ProcessFlags'
    BY DEF ProcessTypeOK, ProcessFlags
  <2>2. ProcessCounts'
    BY ProcessBounds DEF ProcessTypeOK, ProcessCounts
  <2>3. ProcessValues'
    BY DEF ProcessTypeOK, ProcessValues
  <2> QED
    BY <2>1, <2>2, <2>3 DEF ProcessTypeOK
<1>2. TreeInv' /\ JobInv'
  BY DEF TreeInv, JobInv
<1>3. LatchInv'
  BY DEF LatchInv
<1> QED
  BY <1>1, <1>2, <1>3

LEMMA ReadInv ==
    ASSUME ProcessInv, Read
    PROVE  ProcessInv'
<1> USE DEF ProcessInv, Read, Watching
<1>1. ProcessTypeOK'
  <2>1. ProcessFlags'
    BY DEF ProcessTypeOK, ProcessFlags
  <2>2. ProcessCounts'
    BY ProcessBounds DEF ProcessTypeOK, ProcessCounts
  <2>3. ProcessValues'
    BY DEF ProcessTypeOK, ProcessValues
  <2> QED
    BY <2>1, <2>2, <2>3 DEF ProcessTypeOK
<1>2. TreeInv' /\ JobInv'
  BY DEF TreeInv, JobInv
<1>3. LatchInv'
  BY DEF LatchInv, TreeInv
<1> QED
  BY <1>1, <1>2, <1>3

LEMMA FinishInv ==
    ASSUME ProcessInv, Finish
    PROVE  ProcessInv'
<1> USE DEF ProcessInv, Finish, Watching
<1>1. ProcessTypeOK'
  <2>1. ProcessFlags'
    BY DEF ProcessTypeOK, ProcessFlags
  <2>2. ProcessCounts'
    BY ProcessBounds DEF ProcessTypeOK, ProcessCounts
  <2>3. ProcessValues'
    BY DEF ProcessTypeOK, ProcessValues
  <2> QED
    BY <2>1, <2>2, <2>3 DEF ProcessTypeOK
<1>2. TreeInv' /\ JobInv' /\ LatchInv'
  BY DEF TreeInv, JobInv, LatchInv
<1> QED
  BY <1>1, <1>2

LEMMA UnwindInv ==
    ASSUME ProcessInv, Unwind
    PROVE  ProcessInv'
<1> USE DEF ProcessInv, Unwind
<1>1. ProcessTypeOK'
  <2>1. ProcessFlags'
    BY DEF ProcessTypeOK, ProcessFlags
  <2>2. ProcessCounts'
    BY ProcessBounds DEF ProcessTypeOK, ProcessCounts
  <2>3. ProcessValues'
    BY DEF ProcessTypeOK, ProcessValues
  <2> QED
    BY <2>1, <2>2, <2>3 DEF ProcessTypeOK
<1>2. TreeInv' /\ JobInv' /\ LatchInv'
  BY DEF TreeInv, JobInv, LatchInv
<1> QED
  BY <1>1, <1>2

LEMMA CloseInv ==
    ASSUME ProcessInv, Close
    PROVE  ProcessInv'
<1> USE DEF ProcessInv
<1> PICK left \in SUBSET resources :
        /\ faults + Cardinality(Refused(left)) <= MaxFaults
        /\ faults' = faults + Cardinality(Refused(left))
        /\ resources' = left
        /\ unclean' = (unclean \/ left \ {"workdir"} # {})
        /\ doomed' = (doomed \/ (assigned /\ "job" \in resources \ left))
        /\ spared' = (spared \/ (assigned /\ tree # {} /\ "job" \in left))
  BY DEF Close
<1>0. /\ pc = "close" /\ pc' = "report"
      /\ UNCHANGED <<fixed, latch, tree, live, code, written, aborted, assigned, answer,
                     terminal, unwinding>>
  BY DEF Close
<1>1. ProcessTypeOK'
  <2>1. ProcessFlags'
    BY <1>0 DEF ProcessTypeOK, ProcessFlags
  <2>2. ProcessCounts'
    BY <1>0, RefusedIsCounted, ProcessBounds DEF ProcessTypeOK, ProcessCounts
  <2>3. ProcessValues'
    BY <1>0 DEF ProcessTypeOK, ProcessValues
  <2> QED
    BY <2>1, <2>2, <2>3 DEF ProcessTypeOK
<1>2. TreeInv'
  BY <1>0 DEF TreeInv
<1>3. JobInv'
  BY <1>0 DEF JobInv
<1>4. LatchInv'
  BY <1>0 DEF LatchInv
<1> QED
  BY <1>1, <1>2, <1>3, <1>4

LEMMA ReportInv ==
    ASSUME ProcessInv, Report
    PROVE  ProcessInv'
<1> USE DEF ProcessInv, Report, Outcome
<1>1. ProcessTypeOK'
  <2>1. ProcessFlags'
    BY DEF ProcessTypeOK, ProcessFlags
  <2>2. ProcessCounts'
    BY ProcessBounds DEF ProcessTypeOK, ProcessCounts
  <2>3. ProcessValues'
    BY DEF ProcessTypeOK, ProcessValues
  <2> QED
    BY <2>1, <2>2, <2>3 DEF ProcessTypeOK
<1>2. TreeInv' /\ JobInv'
  BY DEF TreeInv, JobInv
<1>3. LatchInv'
  BY DEF LatchInv
<1> QED
  BY <1>1, <1>2, <1>3

LEMMA RunStepInv ==
    ASSUME ProcessInv, RunStep
    PROVE  ProcessInv'
BY BeginInv, PrepareInv, AssignInv, ResumeInv, CheckInv, WaitInv, TerminateTreeInv,
   ConfirmTerminalInv, ExitCodeInv, MeasureInv, ReadInv, FinishInv, UnwindInv, CloseInv,
   ReportInv DEF RunStep

-----------------------------------------------------------------------------
(* What happens around the thread.                                         *)

LEMMA ChildRunsInv ==
    ASSUME ProcessInv, ChildRuns
    PROVE  ProcessInv'
<1> USE DEF ProcessInv, ChildRuns, Undisturbed
<1>1. ProcessTypeOK'
  <2>1. ProcessFlags'
    BY DEF ProcessTypeOK, ProcessFlags
  <2>2. ProcessCounts'
    BY ProcessBounds DEF ProcessTypeOK, ProcessCounts
  <2>3. ProcessValues'
    BY DEF ProcessTypeOK, ProcessValues
  <2> QED
    BY <2>1, <2>2, <2>3 DEF ProcessTypeOK
<1>2. TreeInv' /\ JobInv'
  BY DEF TreeInv, JobInv
<1>3. LatchInv'
  BY DEF LatchInv, TreeInv
<1> QED
  BY <1>1, <1>2, <1>3

LEMMA TreeDiesInv ==
    ASSUME ProcessInv, TreeDies
    PROVE  ProcessInv'
<1> USE DEF ProcessInv, TreeDies, Undisturbed
<1>1. ProcessTypeOK'
  <2>1. ProcessFlags'
    BY DEF ProcessTypeOK, ProcessFlags
  <2>2. ProcessCounts'
    BY ProcessBounds DEF ProcessTypeOK, ProcessCounts
  <2>3. ProcessValues'
    BY DEF ProcessTypeOK, ProcessValues
  <2> QED
    BY <2>1, <2>2, <2>3 DEF ProcessTypeOK
<1>2. TreeInv' /\ JobInv'
  BY DEF TreeInv, JobInv
<1>3. LatchInv'
  BY DEF LatchInv, TreeInv
<1> QED
  BY <1>1, <1>2, <1>3

LEMMA TimePassesInv ==
    ASSUME ProcessInv, TimePasses
    PROVE  ProcessInv'
<1> USE DEF ProcessInv, TimePasses, Undisturbed
<1>1. ProcessTypeOK'
  <2>1. ProcessFlags'
    BY DEF ProcessTypeOK, ProcessFlags
  <2>2. ProcessCounts'
    BY ProcessBounds DEF ProcessTypeOK, ProcessCounts
  <2>3. ProcessValues'
    BY DEF ProcessTypeOK, ProcessValues
  <2> QED
    BY <2>1, <2>2, <2>3 DEF ProcessTypeOK
<1>2. TreeInv' /\ JobInv' /\ LatchInv'
  BY DEF TreeInv, JobInv, LatchInv
<1> QED
  BY <1>1, <1>2

LEMMA UserCancelsInv ==
    ASSUME ProcessInv, UserCancels
    PROVE  ProcessInv'
<1> USE DEF ProcessInv, UserCancels, Undisturbed
<1>1. ProcessTypeOK'
  <2>1. ProcessFlags'
    BY DEF ProcessTypeOK, ProcessFlags
  <2>2. ProcessCounts'
    BY ProcessBounds DEF ProcessTypeOK, ProcessCounts
  <2>3. ProcessValues'
    BY DEF ProcessTypeOK, ProcessValues
  <2> QED
    BY <2>1, <2>2, <2>3 DEF ProcessTypeOK
<1>2. TreeInv' /\ JobInv' /\ LatchInv'
  BY DEF TreeInv, JobInv, LatchInv
<1> QED
  BY <1>1, <1>2

-----------------------------------------------------------------------------
(* The probe around the run.                                               *)

\* A step of the caller between two runs leaves the last one as it was.
LEMMA BetweenRuns ==
    ASSUME ProcessInv, Caller,
           purpose' \in {"version", "probe"}, UNCHANGED faults \/ Refuses,
           pc' \notin Starting \cup InJob \cup Unwinding \cup {"report", "ran"},
           pc' \in {"idle", "run", "request", "open"} => tree = {}
    PROVE  ProcessInv'
<1> USE DEF ProcessInv, Caller
<1>1. ProcessTypeOK'
  <2>1. ProcessFlags'
    BY DEF ProcessTypeOK, ProcessFlags
  <2>2. ProcessCounts'
    BY ProcessBounds DEF ProcessTypeOK, ProcessCounts
  <2>3. ProcessValues'
    BY DEF ProcessTypeOK, ProcessValues
  <2> QED
    BY <2>1, <2>2, <2>3 DEF ProcessTypeOK
<1>2. TreeInv' /\ JobInv' /\ LatchInv'
  BY DEF TreeInv, JobInv, LatchInv
<1> QED
  BY <1>1, <1>2

\* A run has the file that was inspected, and answers nobody yet.
LEMMA RunStays ==
    ASSUME RunStep
    PROVE  /\ pc \in InCall \ {"ran"} /\ pc' \in InCall \ {"run"}
           /\ purpose' = purpose
BY DEF RunStep, InCall, Begin, Prepare, Assign, Resume, Check, Wait, TerminateTree,
       ConfirmTerminal, ExitCode, Measure, Read, Finish, Unwind, Close, Report,
       BadSizes, Watching

LEMMA RunInv ==
    ASSUME IInv, Run
    PROVE  IInv'
<1> USE DEF Run, files, probe
<1>1. ProcessInv'
  BY RunStepInv DEF IInv
<1>2. TypeOK'
  <2>1. FilesTypeOK'
    BY DEF IInv, TypeOK, FilesTypeOK
  <2> QED
    BY <1>1, <2>1 DEF IInv, TypeOK, ProcessInv
<1>3. RecordingInv'
  BY DEF IInv, RecordingInv
<1>4. BinaryInv'
  BY RunStays DEF IInv, BinaryInv, InCall, Validated
<1>5. AnswerInv'
  BY RunStays DEF IInv, AnswerInv, InCall
<1>6. ProfileIsTrue'
  BY RunStays DEF IInv, AnswerInv, ProfileIsTrue, InCall
<1> QED
  BY <1>1, <1>2, <1>3, <1>4, <1>5, <1>6 DEF IInv

LEMMA StartValidationInv ==
    ASSUME IInv, StartValidation
    PROVE  IInv'
<1> USE DEF StartValidation, Inspect, Caller, files
<1>1. ProcessInv'
  BY BetweenRuns DEF IInv, ProcessInv, TreeInv
<1>2. TypeOK'
  <2>1. FilesTypeOK'
    BY DEF IInv, TypeOK, FilesTypeOK
  <2> QED
    BY <1>1, <2>1 DEF IInv, TypeOK, ProcessInv
<1>3. RecordingInv'
  BY DEF IInv, RecordingInv
<1>4. BinaryInv'
  BY DEF IInv, BinaryInv, InCall, Validated
<1>5. AnswerInv' /\ ProfileIsTrue'
  BY DEF IInv, AnswerInv, ProfileIsTrue
<1> QED
  BY <1>1, <1>2, <1>3, <1>4, <1>5 DEF IInv

LEMMA IssueCapabilityInv ==
    ASSUME IInv, IssueCapability
    PROVE  IInv'
<1> USE DEF IssueCapability, Answer, SameBinary, Evidence, Caller, files
<1>1. ProcessInv'
  <2>1. pc' = "request" => tree = {}
    BY DEF IInv, ProcessInv, LatchInv
  <2> QED
    BY <2>1, BetweenRuns DEF IInv, ProcessInv, ProcessTypeOK, ProcessValues
<1>2. TypeOK'
  <2>1. FilesTypeOK'
    BY DEF IInv, TypeOK, FilesTypeOK
  <2> QED
    BY <1>1, <2>1 DEF IInv, TypeOK, ProcessInv
<1>3. RecordingInv'
  BY DEF IInv, RecordingInv
<1>4. BinaryInv'
  BY DEF IInv, BinaryInv, TypeOK, FilesTypeOK, InCall, Validated
<1>5. AnswerInv' /\ ProfileIsTrue'
  BY DEF IInv, AnswerInv, ProfileIsTrue
<1> QED
  BY <1>1, <1>2, <1>3, <1>4, <1>5 DEF IInv

LEMMA SnapshotBeforeInv ==
    ASSUME IInv, SnapshotBefore
    PROVE  IInv'
<1> USE DEF SnapshotBefore, Answer, Caller, files
<1>1. ProcessInv'
  BY BetweenRuns DEF IInv, ProcessInv, TreeInv, ProcessTypeOK, ProcessValues
<1>2. TypeOK'
  <2>1. FilesTypeOK'
    BY ProbeBounds DEF IInv, TypeOK, FilesTypeOK
  <2> QED
    BY <1>1, <2>1 DEF IInv, TypeOK, ProcessInv
<1>3. RecordingInv' /\ BinaryInv' /\ AnswerInv' /\ ProfileIsTrue'
  BY DEF IInv, RecordingInv, BinaryInv, AnswerInv, ProfileIsTrue, InCall, Validated
<1> QED
  BY <1>1, <1>2, <1>3 DEF IInv

LEMMA OpenForLaunchInv ==
    ASSUME IInv, OpenForLaunch
    PROVE  IInv'
<1> USE DEF OpenForLaunch, OpenVerified, Inspect, Answer, SameBinary, Evidence, Caller, files
<1>1. ProcessInv'
  BY BetweenRuns DEF IInv, ProcessInv, TreeInv
<1>2. TypeOK'
  <2>1. FilesTypeOK'
    BY DEF IInv, TypeOK, FilesTypeOK
  <2> QED
    BY <1>1, <2>1 DEF IInv, TypeOK, ProcessInv
<1>3. RecordingInv'
  BY DEF IInv, RecordingInv
<1>4. BinaryInv'
  BY DEF IInv, BinaryInv, InCall, Validated
<1>5. AnswerInv' /\ ProfileIsTrue'
  BY DEF IInv, BinaryInv, AnswerInv, ProfileIsTrue, Validated
<1> QED
  BY <1>1, <1>2, <1>3, <1>4, <1>5 DEF IInv

LEMMA LaunchInv ==
    ASSUME IInv, Launch
    PROVE  IInv'
<1> USE DEF Launch, files
<1>0. pc = "create" /\ pc' \in {"assign", "unwind"} /\ UNCHANGED purpose
  BY DEF Create
<1>1. ProcessInv'
  BY CreateInv DEF IInv
<1>2. TypeOK'
  <2>1. FilesTypeOK'
    <3>1. \/ ran' = ran /\ heard' = heard
          \/ ran' = binary /\ heard' = {recording}
      OBVIOUS
    <3>2. UNCHANGED <<binary, recording, changes, capability, before>>
      OBVIOUS
    <3>3. heard' \subseteq 1 .. MaxChanges + 1
      BY <3>1 DEF IInv, TypeOK, FilesTypeOK
    <3>4. ran' \in 0 .. MaxChanges + 1
      BY <3>1, ProbeBounds DEF IInv, TypeOK, FilesTypeOK
    <3> QED
      BY <3>2, <3>3, <3>4 DEF IInv, TypeOK, FilesTypeOK
  <2> QED
    BY <1>1, <2>1 DEF IInv, TypeOK, ProcessInv
<1>3. RecordingInv'
  BY DEF IInv, RecordingInv
<1>4. BinaryInv'
  BY <1>0 DEF IInv, ProcessInv, ProcessTypeOK, ProcessValues, BinaryInv, InCall, Validated
<1>5. AnswerInv' /\ ProfileIsTrue'
  BY <1>0 DEF IInv, AnswerInv, ProfileIsTrue
<1> QED
  BY <1>1, <1>2, <1>3, <1>4, <1>5 DEF IInv

LEMMA AfterProcessInv ==
    ASSUME IInv, AfterProcess
    PROVE  IInv'
<1> USE DEF AfterProcess, Caller, files
<1>1. ProcessInv'
  BY BetweenRuns DEF IInv, ProcessInv, ProcessTypeOK, ProcessValues
<1>2. TypeOK'
  <2>1. FilesTypeOK'
    BY DEF IInv, TypeOK, FilesTypeOK
  <2> QED
    BY <1>1, <2>1 DEF IInv, TypeOK, ProcessInv, ProcessTypeOK, ProcessFlags
<1>3. RecordingInv'
  BY DEF IInv, RecordingInv
<1>4. BinaryInv'
  BY DEF IInv, BinaryInv, TypeOK, FilesTypeOK, InCall, Validated
<1>5. AnswerInv' /\ ProfileIsTrue'
  BY DEF IInv, AnswerInv, ProfileIsTrue, ProcessInv, LatchInv
<1> QED
  BY <1>1, <1>2, <1>3, <1>4, <1>5 DEF IInv

LEMMA PostInspectInv ==
    ASSUME IInv, PostInspect
    PROVE  IInv'
<1> USE DEF PostInspect, CloseInspections, SameBinary, Evidence, Caller, files
<1>1. ProcessInv'
  BY BetweenRuns DEF IInv, ProcessInv, ProcessTypeOK, ProcessValues
<1>2. TypeOK'
  <2>1. FilesTypeOK'
    BY DEF IInv, TypeOK, FilesTypeOK
  <2> QED
    BY <1>1, <2>1 DEF IInv, TypeOK, ProcessInv
<1>3. RecordingInv'
  BY DEF IInv, RecordingInv
<1>4. BinaryInv'
  BY DEF IInv, BinaryInv, InCall, Validated
<1>5. AnswerInv' /\ ProfileIsTrue'
  BY DEF IInv, AnswerInv, ProfileIsTrue
<1> QED
  BY <1>1, <1>2, <1>3, <1>4, <1>5 DEF IInv

\* The recording is the expected version, so it was it while the child ran.
LEMMA SnapshotAfterInv ==
    ASSUME IInv, SnapshotAfter
    PROVE  IInv'
<1> USE DEF SnapshotAfter, VerifySource, Answer, Caller, files
<1>1. ProcessInv'
  BY BetweenRuns DEF IInv, ProcessInv, ProcessTypeOK, ProcessValues
<1>2. TypeOK'
  <2>1. FilesTypeOK'
    BY DEF IInv, TypeOK, FilesTypeOK
  <2> QED
    BY <1>1, <2>1 DEF IInv, TypeOK, ProcessInv
<1>3. RecordingInv'
  BY DEF IInv, RecordingInv
<1>4. BinaryInv'
  BY DEF IInv, BinaryInv, InCall, Validated
<1>5. pc' = "select" => heard = {before} /\ before = Expected
  BY DEF IInv, RecordingInv, BinaryInv, Validated
<1>6. AnswerInv' /\ ProfileIsTrue'
  BY <1>5 DEF IInv, AnswerInv, ProfileIsTrue
<1> QED
  BY <1>1, <1>2, <1>3, <1>4, <1>6 DEF IInv

LEMMA SelectInv ==
    ASSUME IInv, Select
    PROVE  IInv'
<1> USE DEF Select, Answer, Caller, files
<1>1. ProcessInv'
  BY BetweenRuns DEF IInv, ProcessInv, ProcessTypeOK, ProcessValues
<1>2. TypeOK'
  <2>1. FilesTypeOK'
    BY DEF IInv, TypeOK, FilesTypeOK
  <2> QED
    BY <1>1, <2>1 DEF IInv, TypeOK, ProcessInv
<1>3. RecordingInv' /\ BinaryInv'
  BY DEF IInv, RecordingInv, BinaryInv, InCall, Validated
<1>4. AnswerInv' /\ ProfileIsTrue'
  BY DEF IInv, AnswerInv, ProfileIsTrue
<1> QED
  BY <1>1, <1>2, <1>3, <1>4 DEF IInv

\* The only answer with a profile.
LEMMA PermitInv ==
    ASSUME IInv, Permit
    PROVE  IInv'
<1> USE DEF Permit, Answer, Caller, files
<1>1. ProcessInv'
  BY BetweenRuns DEF IInv, ProcessInv, ProcessTypeOK, ProcessValues
<1>2. TypeOK'
  <2>1. FilesTypeOK'
    BY DEF IInv, TypeOK, FilesTypeOK
  <2> QED
    BY <1>1, <2>1 DEF IInv, TypeOK, ProcessInv
<1>3. RecordingInv' /\ BinaryInv'
  BY DEF IInv, RecordingInv, BinaryInv, InCall, Validated
<1>4. AnswerInv'
  BY DEF IInv, AnswerInv
<1>5. ProfileIsTrue'
  BY DEF IInv, AnswerInv, BinaryInv, ProfileIsTrue, Validated
<1> QED
  BY <1>1, <1>2, <1>3, <1>4, <1>5 DEF IInv

LEMMA ReplaceInv ==
    ASSUME IInv, Replace
    PROVE  IInv'
<1> USE DEF Replace, run_vars
<1>1. ProcessInv'
  <2>1. ProcessTypeOK'
    BY DEF IInv, ProcessInv, ProcessTypeOK, ProcessFlags, ProcessCounts, ProcessValues
  <2>2. TreeInv' /\ JobInv' /\ LatchInv'
    BY DEF IInv, ProcessInv, TreeInv, JobInv, LatchInv
  <2> QED
    BY <2>1, <2>2 DEF ProcessInv
<1>2. TypeOK'
  <2>1. FilesTypeOK'
    <3>1. changes' \in 0 .. MaxChanges /\ changes + 2 \in 1 .. MaxChanges + 1
      BY ProbeBounds DEF IInv, TypeOK, FilesTypeOK
    <3>2. binary' \in {binary, changes + 2} /\ recording' \in {recording, changes + 2}
      OBVIOUS
    <3>3. heard' \subseteq heard \cup {changes + 2}
      OBVIOUS
    <3> QED
      BY <3>1, <3>2, <3>3 DEF IInv, TypeOK, FilesTypeOK
  <2> QED
    BY <1>1, <2>1 DEF IInv, TypeOK, ProcessInv
<1>3. RecordingInv'
  <2>1. changes + 2 # Expected
    BY ProbeBounds DEF IInv, TypeOK, FilesTypeOK, Expected
  <2>2. heard \subseteq heard' /\ ran' = ran
    OBVIOUS
  <2>3. recording' = Expected => heard' = heard /\ recording = Expected
    BY <2>1
  <2> QED
    BY <2>1, <2>2, <2>3 DEF IInv, RecordingInv
<1>4. BinaryInv'
  BY DEF IInv, BinaryInv, InCall, Validated
<1>5. AnswerInv'
  BY DEF IInv, AnswerInv
<1>6. ProfileIsTrue'
  BY DEF IInv, AnswerInv, ProfileIsTrue
<1> QED
  BY <1>1, <1>2, <1>3, <1>4, <1>5, <1>6 DEF IInv

LEMMA SurroundingsInv ==
    ASSUME IInv, Surroundings
    PROVE  IInv'
<1> USE DEF Surroundings, files, probe
<1>1. ProcessInv'
  BY ChildRunsInv, TreeDiesInv, UserCancelsInv DEF IInv
<1>2. /\ UNCHANGED <<pc, purpose, resources, data, terminal>>
      /\ tree = {} => UNCHANGED <<tree, code, written>>
  BY DEF ChildRuns, TreeDies, UserCancels, Undisturbed
<1>3. TypeOK'
  <2>1. FilesTypeOK'
    BY DEF IInv, TypeOK, FilesTypeOK
  <2> QED
    BY <1>1, <2>1 DEF IInv, TypeOK, ProcessInv
<1>4. RecordingInv' /\ BinaryInv'
  BY <1>2 DEF IInv, RecordingInv, BinaryInv
<1>5. AnswerInv' /\ ProfileIsTrue'
  BY <1>2 DEF IInv, AnswerInv, ProfileIsTrue
<1> QED
  BY <1>1, <1>3, <1>4, <1>5 DEF IInv

LEMMA ClockInv ==
    ASSUME IInv, Clock
    PROVE  IInv'
<1> USE DEF Clock, files, probe
<1>1. ProcessInv'
  BY TimePassesInv DEF IInv
<1>2. /\ UNCHANGED <<pc, purpose, resources, data, terminal, tree, code, written>>
  BY DEF TimePasses, Undisturbed
<1>3. TypeOK'
  <2>1. FilesTypeOK'
    BY DEF IInv, TypeOK, FilesTypeOK
  <2> QED
    BY <1>1, <2>1 DEF IInv, TypeOK, ProcessInv
<1>4. RecordingInv' /\ BinaryInv' /\ AnswerInv' /\ ProfileIsTrue'
  BY <1>2 DEF IInv, RecordingInv, BinaryInv, AnswerInv, ProfileIsTrue
<1> QED
  BY <1>1, <1>3, <1>4 DEF IInv

-----------------------------------------------------------------------------
(* The theorems.                                                           *)

LEMMA InitInv ==
    ASSUME Init
    PROVE  IInv
<1> USE DEF Init, ProcessInit
<1>1. ProcessInv
  <2>1. ProcessFlags
    BY DEF ProcessFlags
  <2>2. ProcessCounts
    BY ProcessBounds DEF ProcessCounts
  <2>3. ProcessValues
    BY DEF ProcessValues
  <2>4. TreeInv /\ JobInv /\ LatchInv
    BY DEF TreeInv, JobInv, LatchInv
  <2> QED
    BY <2>1, <2>2, <2>3, <2>4 DEF ProcessInv, ProcessTypeOK
<1>2. TypeOK
  <2>1. FilesTypeOK
    BY ProbeBounds DEF FilesTypeOK, Expected
  <2> QED
    BY <1>1, <2>1 DEF TypeOK, ProcessInv
<1>3. RecordingInv /\ BinaryInv /\ AnswerInv /\ ProfileIsTrue
  BY DEF RecordingInv, BinaryInv, AnswerInv, ProfileIsTrue, InCall, Validated
<1> QED
  BY <1>1, <1>2, <1>3 DEF IInv

LEMMA StutterInv ==
    ASSUME IInv, UNCHANGED vars
    PROVE  IInv'
<1> USE DEF vars, run_vars, files, probe
<1>1. ProcessInv'
  <2>1. ProcessTypeOK'
    BY DEF IInv, ProcessInv, ProcessTypeOK, ProcessFlags, ProcessCounts, ProcessValues
  <2>2. TreeInv' /\ JobInv' /\ LatchInv'
    BY DEF IInv, ProcessInv, TreeInv, JobInv, LatchInv
  <2> QED
    BY <2>1, <2>2 DEF ProcessInv
<1>2. TypeOK'
  <2>1. FilesTypeOK'
    BY DEF IInv, TypeOK, FilesTypeOK
  <2> QED
    BY <1>1, <2>1 DEF IInv, TypeOK, ProcessInv
<1>3. RecordingInv' /\ BinaryInv' /\ AnswerInv' /\ ProfileIsTrue'
  BY DEF IInv, RecordingInv, BinaryInv, AnswerInv, ProfileIsTrue
<1> QED
  BY <1>1, <1>2, <1>3 DEF IInv

\* The invariant is inductive: it holds first, and no step breaks it.
THEOREM Inductive == Spec => []IInv
<1>1. Init => IInv
  BY InitInv
<1>2. IInv /\ [Next]_vars => IInv'
  BY StutterInv, StartValidationInv, IssueCapabilityInv, SnapshotBeforeInv,
     OpenForLaunchInv, LaunchInv, RunInv, AfterProcessInv, PostInspectInv,
     SnapshotAfterInv, SelectInv, PermitInv, ReplaceInv, SurroundingsInv, ClockInv
     DEF Next, CallerStep
<1> QED
  BY <1>1, <1>2, PTL DEF Spec

\* The variables keep their types: the output never counts past one byte over its
\* limit, what is handed on never passes the limit itself.
THEOREM TypeCorrect == Spec => []TypeOK
<1>1. IInv => TypeOK
  BY DEF IInv
<1> QED
  BY <1>1, Inductive, PTL

\* NativeProcessPort.run never leaves a process that nothing will end, unless the
\* system refused the call that ends it; a good answer means the tree is gone.
THEOREM ChildIsAlwaysGone == Spec => []ChildIsGone
<1>1. IInv => ChildIsGone
  BY DEF IInv, ProcessInv, JobInv, LatchInv, ChildIsGone
<1> QED
  BY <1>1, Inductive, PTL

\* run_probe answers with a profile only of the recording the request named,
\* made by the validated ffprobe from its whole output.
THEOREM ProfileIsAlwaysTrue == Spec => []ProfileIsTrue
<1>1. IInv => ProfileIsTrue
  BY DEF IInv
<1> QED
  BY <1>1, Inductive, PTL

-----------------------------------------------------------------------------
(* The choice of the streams (StreamSelection).                            *)

LEMMA LeastNumber ==
    ASSUME NEW S \in SUBSET Nat, S # {}
    PROVE  \E n \in S : \A m \in S : n <= m
<1>1. PICK n \in S : \A m \in S : <<m, n>> \notin OpToRel(<, Nat)
  BY WFMin, NatLessThanWellFounded, Zenon
<1>2. \A m \in S : ~(m < n)
  BY <1>1 DEF OpToRel
<1>3. n \in Nat /\ \A m \in S : m \in Nat
  OBVIOUS
<1> QED
  BY <1>2, <1>3

LEMMA SizeOfStreams == \A S : SS!Cardinality(S) = Cardinality(S)
BY DEF SS!Cardinality, Cardinality

\* A finite set has an element of the largest measure.
LEMMA LargestMeasure ==
    ASSUME NEW S, IsFiniteSet(S), S # {}, NEW f \in [S -> Int]
    PROVE  \E x \in S : \A y \in S : f[y] <= f[x]
<1> DEFINE Peak(T) == \E x \in T : \A y \in T : f[y] <= f[x]
           B == {n \in Nat : \E T \in SUBSET S : T # {} /\ Cardinality(T) = n /\ ~Peak(T)}
<1>1. \A T \in SUBSET S : IsFiniteSet(T) /\ Cardinality(T) \in Nat
  BY FS_Subset, FS_CardinalityType
<1>2. SUFFICES ASSUME ~Peak(S) PROVE FALSE
  OBVIOUS
<1>3. Cardinality(S) \in B
  BY <1>1, <1>2
<1>4. PICK n \in B : \A m \in B : n <= m
  BY <1>3, LeastNumber
<1>5. PICK T \in SUBSET S : T # {} /\ Cardinality(T) = n /\ ~Peak(T)
  BY <1>4
<1>6. PICK x \in T : TRUE
  BY <1>5
<1>7. /\ IsFiniteSet(T \ {x})
      /\ Cardinality(T \ {x}) = n - 1
      /\ T \ {x} \in SUBSET S
  BY <1>1, <1>5, FS_RemoveElement
<1>8. n - 1 \in Nat /\ n - 1 \notin B
  BY <1>1, <1>4, <1>7
<1>9. T \ {x} = {} \/ Peak(T \ {x})
  BY <1>7, <1>8
<1>10. \A y \in T : f[y] \in Int
  OBVIOUS
<1>11. CASE T \ {x} = {}
  <2>1. \A y \in T : y = x
    BY <1>11
  <2>2. \A y \in T : f[y] <= f[x]
    BY <2>1, <1>10
  <2> QED
    BY <1>5, <1>6, <2>2
<1>12. CASE Peak(T \ {x})
  <2>1. PICK z \in T \ {x} : \A y \in T \ {x} : f[y] <= f[z]
    BY <1>12
  <2>2. CASE f[z] <= f[x]
    <3>1. \A y \in T : f[y] <= f[x]
      BY <1>10, <2>1, <2>2
    <3> QED
      BY <1>5, <3>1
  <2>3. CASE ~(f[z] <= f[x])
    <3>1. \A y \in T : f[y] <= f[z]
      BY <1>10, <2>1, <2>3
    <3> QED
      BY <1>5, <2>1, <3>1
  <2> QED
    BY <2>2, <2>3
<1> QED
  BY <1>9, <1>11, <1>12

-----------------------------------------------------------------------------
(* Sorting.                                                                *)

\* Streams as the parser lets them through: finitely many, with different indexes.
Distinct(S) ==
    /\ IsFiniteSet(S)
    /\ \A s \in S : s.index \in Int
    /\ \A s, t \in S : s.index = t.index => s = t

LEMMA PartsAreDistinct ==
    ASSUME NEW S, Distinct(S), NEW T \in SUBSET S
    PROVE  Distinct(T)
BY FS_Subset DEF Distinct

\* Sorting neither loses nor adds a stream.
LEMMA SortedHasTheSame ==
    ASSUME NEW S, Distinct(S)
    PROVE  SS!ToSet(SS!Sorted(S)) = S /\ SS!Sorted(S) \in Seq(S)
<1> DEFINE Below(s) == {t \in S : t.index < s.index}
           n == Cardinality(S)
           rank == [s \in S |-> Cardinality(Below(s)) + 1]
           At(m) == CHOOSE s \in S : SS!Cardinality(Below(s)) = m - 1
<1>1. IsFiniteSet(S) /\ n \in Nat
  BY FS_CardinalityType DEF Distinct
<1>2. \A s \in S : IsFiniteSet(Below(s)) /\ Cardinality(Below(s)) \in Nat
  BY <1>1, FS_Subset, FS_CardinalityType
<1>3. \A s \in S : Cardinality(Below(s)) + 1 \in 1..n
  <2> TAKE s \in S
  <2>1. s \notin Below(s) /\ Below(s) \cup {s} \in SUBSET S
    BY DEF Distinct
  <2>2. Cardinality(Below(s) \cup {s}) = Cardinality(Below(s)) + 1
    BY <1>2, <2>1, FS_AddElement
  <2>3. Cardinality(Below(s) \cup {s}) <= n
    BY <1>1, <2>1, FS_Subset
  <2> HIDE DEF Below, n
  <2> QED
    BY <1>1, <1>2, <2>2, <2>3
<1>4. \A s, t \in S : s.index < t.index => Cardinality(Below(s)) < Cardinality(Below(t))
  <2> SUFFICES ASSUME NEW s \in S, NEW t \in S, s.index < t.index
               PROVE  Cardinality(Below(s)) < Cardinality(Below(t))
    OBVIOUS
  <2>0. s.index \in Int /\ t.index \in Int /\ \A u \in S : u.index \in Int
    BY DEF Distinct
  <2>1. \A u \in S : u.index < s.index => u.index < t.index
    BY <2>0
  <2>2. s \notin Below(s) /\ Below(s) \cup {s} \in SUBSET Below(t)
    BY <2>0, <2>1
  <2>3. Cardinality(Below(s) \cup {s}) = Cardinality(Below(s)) + 1
    BY <1>2, <2>2, FS_AddElement
  <2>4. Cardinality(Below(s) \cup {s}) <= Cardinality(Below(t))
    BY <1>2, <2>2, FS_Subset
  <2> HIDE DEF Below
  <2> QED
    BY <1>2, <2>3, <2>4
<1>5. \A s, t \in S : Cardinality(Below(s)) = Cardinality(Below(t)) => s = t
  <2> SUFFICES ASSUME NEW s \in S, NEW t \in S, Cardinality(Below(s)) = Cardinality(Below(t))
               PROVE  s = t
    OBVIOUS
  <2>1. ~(s.index < t.index) /\ ~(t.index < s.index)
    <3> HIDE DEF Below
    <3> QED
      BY <1>2, <1>4
  <2>2. s.index \in Int /\ t.index \in Int
    BY DEF Distinct
  <2>3. s.index = t.index
    BY <2>1, <2>2
  <2> QED
    BY <2>3 DEF Distinct
<1>12. SS!Sorted(S) = [m \in 1..SS!Cardinality(S) |-> At(m)]
  BY DEF SS!Sorted
<1>13. SS!Cardinality(S) = n /\ \A s \in S : SS!Cardinality(Below(s)) = Cardinality(Below(s))
  BY SizeOfStreams
<1> HIDE DEF Below, n
<1>6. rank \in Injection(S, 1..n)
  <2>1. rank \in [S -> 1..n]
    BY <1>3
  <2>2. \A s, t \in S : rank[s] = rank[t] => s = t
    BY <1>2, <1>5
  <2>3. DOMAIN rank = S
    OBVIOUS
  <2> HIDE DEF rank
  <2> QED
    BY <2>1, <2>2, <2>3 DEF Injection, IsInjective
<1>7. IsFiniteSet(1..n) /\ Cardinality(1..n) = n
  BY <1>1, FS_Interval
<1>8. rank \in Surjection(S, 1..n)
  BY <1>6, <1>7, FS_Injection DEF n
<1>9. \A m \in 1..n : \E s \in S : Cardinality(Below(s)) = m - 1
  <2> TAKE m \in 1..n
  <2>1. PICK s \in S : rank[s] = m
    BY <1>8 DEF Surjection
  <2>2. Cardinality(Below(s)) + 1 = m
    BY <2>1
  <2> QED
    BY <1>2, <2>2
<1>10. \A m \in 1..n : At(m) \in S /\ Cardinality(Below(At(m))) = m - 1
  <2> TAKE m \in 1..n
  <2>1. \E s \in S : SS!Cardinality(Below(s)) = m - 1
    BY <1>9, <1>13
  <2>2. At(m) \in S /\ SS!Cardinality(Below(At(m))) = m - 1
    BY <2>1
  <2> QED
    BY <1>13, <2>2
<1>11. \A s \in S : Cardinality(Below(s)) + 1 \in 1..n /\ At(Cardinality(Below(s)) + 1) = s
  <2> TAKE s \in S
  <2> DEFINE m == Cardinality(Below(s)) + 1
  <2>1. m \in 1..n /\ Cardinality(Below(s)) = m - 1
    BY <1>2, <1>3
  <2> HIDE DEF m
  <2>2. At(m) \in S /\ Cardinality(Below(At(m))) = m - 1
    BY <1>10, <2>1
  <2>3. At(m) = s
    <3> HIDE DEF At
    <3> QED
      BY <1>5, <2>1, <2>2
  <2> QED
    BY <2>1, <2>3 DEF m
<1> HIDE DEF At
<1>14. SS!ToSet(SS!Sorted(S)) = {At(m) : m \in 1..n}
  BY <1>12, <1>13 DEF SS!ToSet
<1>15. SS!Sorted(S) \in Seq(S)
  BY <1>1, <1>10, <1>12, <1>13
<1> QED
  BY <1>10, <1>11, <1>14, <1>15

LEMMA SameStreamsSameOrder ==
    ASSUME NEW a, NEW b, SS!ToSet(a) = SS!ToSet(b)
    PROVE  SS!ByIndex(a) = SS!ByIndex(b)
BY DEF SS!ByIndex

LEMMA ReversedHasTheSame ==
    ASSUME NEW S, NEW streams \in Seq(S)
    PROVE  SS!ToSet(SS!Reverse(streams)) = SS!ToSet(streams)
<1> DEFINE n == Len(streams)
<1>1. DOMAIN streams = 1..n /\ n \in Nat
  OBVIOUS
<1>2. \A i \in 1..n : (n - i) + 1 \in 1..n /\ (n - ((n - i) + 1)) + 1 = i
  BY <1>1
<1>3. SS!Reverse(streams) = [i \in 1..n |-> streams[(n - i) + 1]]
  BY DEF SS!Reverse
<1> HIDE DEF n
<1>4. SS!ToSet(SS!Reverse(streams)) = {streams[(n - i) + 1] : i \in 1..n}
  BY <1>3 DEF SS!ToSet
<1>5. SS!ToSet(streams) = {streams[i] : i \in 1..n}
  BY <1>1 DEF SS!ToSet
<1> QED
  BY <1>2, <1>4, <1>5

\* One element is the only one.
LEMMA OnlyOne ==
    ASSUME NEW S, IsFiniteSet(S), Cardinality(S) = 1, NEW x \in S
    PROVE  S = {x}
BY FS_Singleton

LEMMA FewerThanTwo ==
    ASSUME NEW S, IsFiniteSet(S), S # {}, ~(Cardinality(S) > 1)
    PROVE  Cardinality(S) = 1
BY FS_CardinalityType, FS_EmptySet

-----------------------------------------------------------------------------
(* Which picture is larger.                                                *)
LEMMA LargerOfTwo ==
    ASSUME NEW a \in Int, NEW b \in Int
    PROVE  SS!Max({a, b}) = (IF a >= b THEN a ELSE b) /\ SS!Min({a, b}) = (IF a <= b THEN a ELSE b)
<1> DEFINE x == IF a >= b THEN a ELSE b
           y == IF a <= b THEN a ELSE b
<1>1. x \in {a, b} /\ \A z \in {a, b} : x >= z
  OBVIOUS
<1>2. y \in {a, b} /\ \A z \in {a, b} : y <= z
  OBVIOUS
<1>3. \A z \in {a, b} : (\A w \in {a, b} : z >= w) => z = x
  OBVIOUS
<1>4. \A z \in {a, b} : (\A w \in {a, b} : z <= w) => z = y
  OBVIOUS
<1> HIDE DEF x, y
<1>5. SS!Max({a, b}) = x
  BY <1>1, <1>3 DEF SS!Max
<1>6. SS!Min({a, b}) = y
  BY <1>2, <1>4 DEF SS!Min
<1> QED
  BY <1>5, <1>6 DEF x, y

Sized(s) == s.width \in Int /\ s.height \in Int

LEMMA SidesOfPicture ==
    ASSUME NEW s, Sized(s)
    PROVE  /\ SS!resolution(s)[1] \in Int /\ SS!resolution(s)[2] \in Int
           /\ SS!resolution(s)[1] + SS!resolution(s)[2] = s.width + s.height
           /\ SS!resolution(s) = <<SS!resolution(s)[1], SS!resolution(s)[2]>>
<1>1. SS!resolution(s) = <<SS!Max({s.width, s.height}), SS!Min({s.width, s.height})>>
  BY DEF SS!resolution
<1>2. /\ SS!Max({s.width, s.height}) = (IF s.width >= s.height THEN s.width ELSE s.height)
      /\ SS!Min({s.width, s.height}) = (IF s.width <= s.height THEN s.width ELSE s.height)
  BY LargerOfTwo DEF Sized
<1> QED
  BY <1>1, <1>2 DEF Sized

LEMMA LargerSum ==
    ASSUME NEW a \in Int, NEW b \in Int, NEW c \in Int, NEW d \in Int,
           a >= c, b >= d, a # c \/ b # d
    PROVE  a + b > c + d
OBVIOUS

\* The larger picture has more rows and columns together.
LEMMA DominatingIsLarger ==
    ASSUME NEW s, NEW t, Sized(s), Sized(t), SS!dominates(s, t)
    PROVE  s.width + s.height > t.width + t.height
<1>1. /\ SS!resolution(s)[1] >= SS!resolution(t)[1]
      /\ SS!resolution(s)[2] >= SS!resolution(t)[2]
      /\ SS!resolution(s) # SS!resolution(t)
  BY DEF SS!dominates
<1>2. SS!resolution(s)[1] # SS!resolution(t)[1] \/ SS!resolution(s)[2] # SS!resolution(t)[2]
  BY <1>1, SidesOfPicture
<1>3. /\ SS!resolution(s)[1] \in Int /\ SS!resolution(s)[2] \in Int
      /\ SS!resolution(t)[1] \in Int /\ SS!resolution(t)[2] \in Int
  BY SidesOfPicture
<1>4. SS!resolution(s)[1] + SS!resolution(s)[2] > SS!resolution(t)[1] + SS!resolution(t)[2]
  BY <1>1, <1>2, <1>3, LargerSum
<1> QED
  BY <1>4, SidesOfPicture

LEMMA DominatingIsTransitive ==
    ASSUME NEW s, NEW t, NEW u, Sized(s), Sized(t), Sized(u), SS!dominates(s, t), SS!dominates(t, u)
    PROVE  SS!dominates(s, u)
<1>1. /\ SS!resolution(s)[1] >= SS!resolution(t)[1] /\ SS!resolution(t)[1] >= SS!resolution(u)[1]
      /\ SS!resolution(s)[2] >= SS!resolution(t)[2] /\ SS!resolution(t)[2] >= SS!resolution(u)[2]
  BY DEF SS!dominates
<1>2. SS!resolution(s)[1] >= SS!resolution(u)[1] /\ SS!resolution(s)[2] >= SS!resolution(u)[2]
  BY <1>1, SidesOfPicture
<1>3. s.width + s.height > u.width + u.height
  BY DominatingIsLarger DEF Sized
<1>4. SS!resolution(s) # SS!resolution(u)
  BY <1>3, SidesOfPicture DEF Sized
<1> QED
  BY <1>2, <1>4 DEF SS!dominates

\* The only picture that none exceeds exceeds all others.
LEMMA OnlyMaximumDominates ==
    ASSUME NEW main, IsFiniteSet(main), \A s \in main : Sized(s), NEW v \in main,
           {s \in main : ~\E t \in main \ {s} : SS!dominates(t, s)} = {v}
    PROVE  \A u \in main : u = v \/ SS!dominates(v, u)
<1> SUFFICES ASSUME NEW u \in main, u # v
             PROVE  SS!dominates(v, u)
  OBVIOUS
<1> DEFINE above == {t \in main : t = u \/ SS!dominates(t, u)}
           area == [t \in above |-> t.width + t.height]
<1>1. IsFiniteSet(above) /\ above # {} /\ area \in [above -> Int]
  BY FS_Subset DEF Sized
<1>2. PICK t \in above : \A w \in above : area[w] <= area[t]
  <2> HIDE DEF above, area
  <2> QED
    BY <1>1, LargestMeasure
<1>3. ~\E w \in main \ {t} : SS!dominates(w, t)
  <2> SUFFICES ASSUME NEW w \in main, SS!dominates(w, t)
               PROVE  FALSE
    OBVIOUS
  <2>1. Sized(w) /\ Sized(t) /\ Sized(u)
    OBVIOUS
  <2>2. w \in above
    BY <2>1, DominatingIsTransitive
  <2>3. w.width + w.height > t.width + t.height
    BY <2>1, DominatingIsLarger
  <2>4. w.width + w.height <= t.width + t.height
    BY <1>2, <2>2
  <2> QED
    BY <2>1, <2>3, <2>4 DEF Sized
<1>4. t = v
  BY <1>3
<1> QED
  BY <1>4

-----------------------------------------------------------------------------
(* What is chosen.                                                         *)
Videos(S) == {s \in S : s.type = "video"}
Main(S) == {s \in Videos(S) : s.attached_pic = "no"}
Audios(S) == {s \in S : s.type = "audio"}
DefaultsOf(S) == {s \in S : s.default = "yes"}

\* The video of a list of streams: the default, or larger than all others.
IsVideoOf(v, S) ==
    /\ \A s \in Videos(S) : s.attached_pic # "unknown"
    /\ \A s \in Main(S) : SS!video_complete(s)
    /\ v \in Main(S)
    /\ \/ DefaultsOf(Main(S)) = {v}
       \/ DefaultsOf(Main(S)) = {} /\ \A u \in Main(S) : u = v \/ SS!dominates(v, u)

\* The audio of a list of streams: the default, or of a higher rank than all others.
IsAudioOf(a, S) ==
    /\ \A s \in Audios(S) : SS!audio_complete(s)
    /\ a \in Audios(S)
    /\ SS!audio_rank(a) # SS!None
    /\ \/ DefaultsOf(Audios(S)) = {a}
       \/ DefaultsOf(Audios(S)) = {} /\ \A u \in Audios(S) : u = a \/ SS!audio_rank(u) < SS!audio_rank(a)

\* Streams that can be taken away keep the choice.
LEMMA ChoiceOfFewer ==
    ASSUME NEW S, NEW T \in SUBSET S, NEW x \in T
    PROVE  /\ IsVideoOf(x, S) => IsVideoOf(x, T)
           /\ IsAudioOf(x, S) => IsAudioOf(x, T)
<1>1. IsVideoOf(x, S) => IsVideoOf(x, T)
  <2> SUFFICES ASSUME IsVideoOf(x, S) PROVE IsVideoOf(x, T)
    OBVIOUS
  <2>1. Videos(T) \subseteq Videos(S) /\ Main(T) \subseteq Main(S) /\ x \in Main(T)
    BY DEF IsVideoOf, Videos, Main
  <2>2. DefaultsOf(Main(T)) = DefaultsOf(Main(S)) \cap T
    BY DEF DefaultsOf, Main, Videos
  <2> QED
    BY <2>1, <2>2 DEF IsVideoOf
<1>2. IsAudioOf(x, S) => IsAudioOf(x, T)
  <2> SUFFICES ASSUME IsAudioOf(x, S) PROVE IsAudioOf(x, T)
    OBVIOUS
  <2>1. Audios(T) \subseteq Audios(S) /\ x \in Audios(T)
    BY DEF IsAudioOf, Audios
  <2>2. DefaultsOf(Audios(T)) = DefaultsOf(Audios(S)) \cap T
    BY DEF DefaultsOf, Audios
  <2> QED
    BY <2>1, <2>2 DEF IsAudioOf
<1> QED
  BY <1>1, <1>2

Picked(outcome, s) == outcome.status = "selected" /\ outcome.stream = s

LEMMA ChosenIsPicked == \A s, reason : Picked(SS!Chosen(s, reason), s)
BY DEF Picked, SS!Chosen

LEMMA RefusedIsNotPicked ==
    \A reason \in {"video_metadata", "video_missing", "video_ambiguous", "audio_missing", "audio_metadata",
                 "audio_ambiguous", "audio_layout"} : SS!Refused(reason).status # "selected"
BY DEF SS!Refused

\* The video step by step as the code chooses it.
LEMMA VideoSteps ==
    ASSUME NEW streams, NEW S, S = SS!ToSet(streams)
    PROVE  LET main == Main(S)
               defaults == DefaultsOf(main)
               maxima == {s \in main : ~\E t \in main \ {s} : SS!dominates(t, s)}
           IN  SS!select_video(streams) =
                 IF \E s \in Videos(S) : s.attached_pic = "unknown" THEN SS!Refused("video_metadata")
                 ELSE IF main = {} THEN SS!Refused("video_missing")
                 ELSE IF \E s \in main : ~SS!video_complete(s) THEN SS!Refused("video_metadata")
                 ELSE IF Cardinality(defaults) > 1 THEN SS!Refused("video_ambiguous")
                 ELSE IF defaults # {} THEN SS!Chosen(CHOOSE s \in defaults : TRUE, "unique_default")
                 ELSE IF Cardinality(main) = 1 THEN SS!Chosen(CHOOSE s \in main : TRUE, "single_eligible")
                 ELSE IF Cardinality(maxima) # 1 THEN SS!Refused("video_ambiguous")
                 ELSE SS!Chosen(CHOOSE s \in maxima : TRUE, "unique_resolution_maximum")
BY SizeOfStreams DEF SS!select_video, Main, Videos, DefaultsOf

LEMMA AudioSteps ==
    ASSUME NEW streams, NEW S, S = SS!ToSet(streams)
    PROVE  LET audio == Audios(S)
               defaults == DefaultsOf(audio)
               candidates == {s \in audio : SS!audio_rank(s) # SS!None}
               winners == {s \in candidates : \A t \in candidates : SS!audio_rank(t) <= SS!audio_rank(s)}
           IN  SS!select_audio(streams) =
                 IF audio = {} THEN SS!Refused("audio_missing")
                 ELSE IF \E s \in audio : ~SS!audio_complete(s) THEN SS!Refused("audio_metadata")
                 ELSE IF Cardinality(defaults) > 1 THEN SS!Refused("audio_ambiguous")
                 ELSE IF defaults # {} THEN (IF \E s \in defaults : SS!audio_rank(s) = SS!None
                                             THEN SS!Refused("audio_layout")
                                             ELSE SS!Chosen(CHOOSE s \in defaults : TRUE, "unique_default"))
                 ELSE IF candidates = {} THEN SS!Refused("audio_layout")
                 ELSE IF Cardinality(candidates) = 1
                      THEN SS!Chosen(CHOOSE s \in candidates : TRUE, "single_eligible")
                 ELSE IF Cardinality(winners) # 1 THEN SS!Refused("audio_ambiguous")
                 ELSE SS!Chosen(CHOOSE s \in winners : TRUE, "unique_highest_supported_layout")
BY SizeOfStreams DEF SS!select_audio, Audios, DefaultsOf

\* What is selected is the video of the list, and the video of the list is selected.
LEMMA VideoIsOfList ==
    ASSUME NEW streams, NEW S, S = SS!ToSet(streams), IsFiniteSet(S), \A s \in S : Sized(s)
    PROVE  /\ SS!select_video(streams).status = "selected"
              => IsVideoOf(SS!select_video(streams).stream, S)
           /\ \A v : IsVideoOf(v, S) => Picked(SS!select_video(streams), v)
<1> DEFINE main == Main(S)
           defaults == DefaultsOf(main)
           maxima == {s \in main : ~\E t \in main \ {s} : SS!dominates(t, s)}
           outcome == SS!select_video(streams)
<1>1. /\ IsFiniteSet(main) /\ IsFiniteSet(defaults) /\ IsFiniteSet(maxima)
      /\ \A s \in main : Sized(s)
  <2>1. main \in SUBSET S /\ defaults \in SUBSET S /\ maxima \in SUBSET S
    BY DEF Main, Videos, DefaultsOf
  <2> QED
    BY <2>1, FS_Subset
<1>2. outcome =
        IF \E s \in Videos(S) : s.attached_pic = "unknown" THEN SS!Refused("video_metadata")
        ELSE IF main = {} THEN SS!Refused("video_missing")
        ELSE IF \E s \in main : ~SS!video_complete(s) THEN SS!Refused("video_metadata")
        ELSE IF Cardinality(defaults) > 1 THEN SS!Refused("video_ambiguous")
        ELSE IF defaults # {} THEN SS!Chosen(CHOOSE s \in defaults : TRUE, "unique_default")
        ELSE IF Cardinality(main) = 1 THEN SS!Chosen(CHOOSE s \in main : TRUE, "single_eligible")
        ELSE IF Cardinality(maxima) # 1 THEN SS!Refused("video_ambiguous")
        ELSE SS!Chosen(CHOOSE s \in maxima : TRUE, "unique_resolution_maximum")
  BY VideoSteps
<1>3. defaults \subseteq main /\ maxima \subseteq main
  BY DEF DefaultsOf
<1>4. ASSUME NEW v, maxima = {v}
      PROVE  \A u \in main : u = v \/ SS!dominates(v, u)
  BY <1>1, <1>3, <1>4, OnlyMaximumDominates
<1>5. ASSUME NEW v \in main, \A u \in main : u = v \/ SS!dominates(v, u)
      PROVE  maxima = {v}
  <2>1. v \in maxima
    <3> SUFFICES ASSUME NEW t \in main \ {v}, SS!dominates(t, v) PROVE FALSE
      OBVIOUS
    <3>1. SS!dominates(v, t) /\ Sized(t) /\ Sized(v)
      BY <1>1, <1>5
    <3>2. t.width + t.height > v.width + v.height /\ v.width + v.height > t.width + t.height
      BY <3>1, DominatingIsLarger
    <3> QED
      BY <3>1, <3>2 DEF Sized
  <2>2. \A u \in maxima : u = v
    BY <1>5
  <2> QED
    BY <2>1, <2>2
<1> HIDE DEF main, defaults, maxima, outcome
<1>6. ASSUME outcome.status = "selected" PROVE IsVideoOf(outcome.stream, S)
  <2>1. /\ \A s \in Videos(S) : s.attached_pic # "unknown"
        /\ \A s \in main : SS!video_complete(s)
        /\ ~(Cardinality(defaults) > 1)
        /\ \/ defaults # {} /\ outcome = SS!Chosen(CHOOSE s \in defaults : TRUE, "unique_default")
           \/ /\ defaults = {} /\ Cardinality(main) = 1
              /\ outcome = SS!Chosen(CHOOSE s \in main : TRUE, "single_eligible")
           \/ /\ defaults = {} /\ Cardinality(maxima) = 1
              /\ outcome = SS!Chosen(CHOOSE s \in maxima : TRUE, "unique_resolution_maximum")
    BY <1>2, <1>6, RefusedIsNotPicked
  <2>2. CASE defaults # {} /\ outcome = SS!Chosen(CHOOSE s \in defaults : TRUE, "unique_default")
    <3>1. outcome.stream \in defaults
      BY <2>2, ChosenIsPicked DEF Picked
    <3>2. defaults = {outcome.stream}
      BY <1>1, <2>1, <2>2, <3>1, FewerThanTwo, OnlyOne
    <3> QED
      BY <1>3, <2>1, <3>1, <3>2 DEF IsVideoOf, main, defaults
  <2>3. CASE /\ defaults = {} /\ Cardinality(main) = 1
             /\ outcome = SS!Chosen(CHOOSE s \in main : TRUE, "single_eligible")
    <3>1. main # {}
      BY <2>3, FS_EmptySet
    <3>2. outcome.stream \in main
      BY <2>3, <3>1, ChosenIsPicked DEF Picked
    <3>3. main = {outcome.stream}
      BY <1>1, <2>3, <3>2, OnlyOne
    <3> QED
      BY <2>1, <2>3, <3>2, <3>3 DEF IsVideoOf, main, defaults
  <2>4. CASE /\ defaults = {} /\ Cardinality(maxima) = 1
             /\ outcome = SS!Chosen(CHOOSE s \in maxima : TRUE, "unique_resolution_maximum")
    <3>1. maxima # {}
      BY <2>4, FS_EmptySet
    <3>2. outcome.stream \in maxima
      BY <2>4, <3>1, ChosenIsPicked DEF Picked
    <3>3. maxima = {outcome.stream}
      BY <1>1, <2>4, <3>2, OnlyOne
    <3>4. \A u \in main : u = outcome.stream \/ SS!dominates(outcome.stream, u)
      BY <1>4, <3>3
    <3> QED
      BY <1>3, <2>1, <2>4, <3>2, <3>4 DEF IsVideoOf, main, defaults
  <2> QED
    BY <2>1, <2>2, <2>3, <2>4
<1>7. ASSUME NEW v, IsVideoOf(v, S) PROVE Picked(outcome, v)
  <2>1. /\ ~\E s \in Videos(S) : s.attached_pic = "unknown"
        /\ ~\E s \in main : ~SS!video_complete(s)
        /\ v \in main
        /\ \/ defaults = {v}
           \/ defaults = {} /\ \A u \in main : u = v \/ SS!dominates(v, u)
    BY <1>7 DEF IsVideoOf, main, defaults
  <2>2. main # {}
    BY <2>1
  <2>3. CASE defaults = {v}
    <3>1. Cardinality(defaults) = 1 /\ (CHOOSE s \in defaults : TRUE) = v
      BY <2>3, FS_Singleton
    <3>2. outcome = SS!Chosen(v, "unique_default")
      BY <1>2, <2>1, <2>2, <2>3, <3>1
    <3> QED
      BY <3>2, ChosenIsPicked
  <2>4. CASE defaults = {} /\ \A u \in main : u = v \/ SS!dominates(v, u)
    <3>1. Cardinality(defaults) = 0
      BY <2>4, FS_EmptySet
    <3>2. maxima = {v}
      BY <1>5, <2>1, <2>4
    <3>3. Cardinality(maxima) = 1 /\ (CHOOSE s \in maxima : TRUE) = v
      BY <3>2, FS_Singleton
    <3>4. Cardinality(main) = 1 => (CHOOSE s \in main : TRUE) = v
      <4>1. Cardinality(main) = 1 => main = {v}
        BY <1>1, <2>1, OnlyOne
      <4> QED
        BY <4>1
    <3>5. outcome = SS!Chosen(v, "single_eligible") \/ outcome = SS!Chosen(v, "unique_resolution_maximum")
      <4>1. ~(Cardinality(defaults) > 1) /\ ~(defaults # {})
        BY <2>4, <3>1
      <4>2. outcome = IF Cardinality(main) = 1 THEN SS!Chosen(CHOOSE s \in main : TRUE, "single_eligible")
                      ELSE IF Cardinality(maxima) # 1 THEN SS!Refused("video_ambiguous")
                      ELSE SS!Chosen(CHOOSE s \in maxima : TRUE, "unique_resolution_maximum")
        BY <1>2, <2>1, <2>2, <4>1, Zenon
      <4>3. CASE Cardinality(main) = 1
        BY <4>2, <4>3, <3>4, Zenon
      <4>4. CASE Cardinality(main) # 1
        BY <4>2, <4>4, <3>3, Zenon
      <4> QED
        BY <4>3, <4>4
    <3> QED
      BY <3>5, ChosenIsPicked
  <2> QED
    BY <2>1, <2>3, <2>4
<1> QED
  BY <1>6, <1>7 DEF outcome

LEMMA RankIsANumber ==
    \A s : SS!audio_rank(s) \in Nat \cup {SS!None}
<1>1. Rank \in [DOMAIN Rank -> Nat]
  BY AnswersAssumption, Zenon
<1> QED
  BY <1>1 DEF SS!audio_rank

LEMMA AudioIsOfList ==
    ASSUME NEW streams, NEW S, S = SS!ToSet(streams), IsFiniteSet(S)
    PROVE  /\ SS!select_audio(streams).status = "selected"
              => IsAudioOf(SS!select_audio(streams).stream, S)
           /\ \A a : IsAudioOf(a, S) => Picked(SS!select_audio(streams), a)
<1> DEFINE audio == Audios(S)
           defaults == DefaultsOf(audio)
           candidates == {s \in audio : SS!audio_rank(s) # SS!None}
           winners == {s \in candidates : \A t \in candidates : SS!audio_rank(t) <= SS!audio_rank(s)}
           outcome == SS!select_audio(streams)
           Highest(a) == \A u \in audio : u = a \/ SS!audio_rank(u) < SS!audio_rank(a)
<1>1. IsFiniteSet(audio) /\ IsFiniteSet(defaults) /\ IsFiniteSet(candidates) /\ IsFiniteSet(winners)
  <2>1. /\ audio \in SUBSET S /\ defaults \in SUBSET S
        /\ candidates \in SUBSET S /\ winners \in SUBSET S
    BY DEF Audios, DefaultsOf
  <2> QED
    BY <2>1, FS_Subset
<1>2. outcome =
        IF audio = {} THEN SS!Refused("audio_missing")
        ELSE IF \E s \in audio : ~SS!audio_complete(s) THEN SS!Refused("audio_metadata")
        ELSE IF Cardinality(defaults) > 1 THEN SS!Refused("audio_ambiguous")
        ELSE IF defaults # {} THEN (IF \E s \in defaults : SS!audio_rank(s) = SS!None
                                    THEN SS!Refused("audio_layout")
                                    ELSE SS!Chosen(CHOOSE s \in defaults : TRUE, "unique_default"))
        ELSE IF candidates = {} THEN SS!Refused("audio_layout")
        ELSE IF Cardinality(candidates) = 1
             THEN SS!Chosen(CHOOSE s \in candidates : TRUE, "single_eligible")
        ELSE IF Cardinality(winners) # 1 THEN SS!Refused("audio_ambiguous")
        ELSE SS!Chosen(CHOOSE s \in winners : TRUE, "unique_highest_supported_layout")
  BY AudioSteps
<1>3. defaults \subseteq audio /\ candidates \subseteq audio /\ winners \subseteq candidates
  BY DEF DefaultsOf
<1>4. \A s \in audio : s \in candidates \/ SS!audio_rank(s) = SS!None
  OBVIOUS
<1>5. SS!None \notin Nat /\ \A n \in Nat : SS!None < n
  BY DEF SS!None
<1>6. ASSUME NEW a, winners = {a} PROVE Highest(a)
  <2> SUFFICES ASSUME NEW u \in audio, u # a PROVE SS!audio_rank(u) < SS!audio_rank(a)
    OBVIOUS
  <2>1. a \in candidates /\ SS!audio_rank(a) \in Nat
    BY <1>6, RankIsANumber
  <2>2. CASE u \in candidates
    <3>1. SS!audio_rank(u) <= SS!audio_rank(a) /\ SS!audio_rank(u) \in Nat
      BY <1>6, <2>2, RankIsANumber
    <3>2. PICK t \in candidates : ~(SS!audio_rank(t) <= SS!audio_rank(u))
      BY <1>6, <2>2
    <3>3. SS!audio_rank(t) <= SS!audio_rank(a) /\ SS!audio_rank(t) \in Nat
      BY <1>6, RankIsANumber
    <3> QED
      BY <2>1, <3>1, <3>2, <3>3
  <2>3. CASE u \notin candidates
    BY <1>5, <2>1, <2>3
  <2> QED
    BY <2>2, <2>3
<1>7. ASSUME NEW a \in candidates, Highest(a) PROVE winners = {a}
  <2>1. \A u \in candidates : SS!audio_rank(u) \in Nat
    BY RankIsANumber
  <2>2. a \in winners
    BY <1>7, <2>1
  <2>3. \A u \in winners : u = a
    BY <1>7, <2>1
  <2> QED
    BY <2>2, <2>3
<1>8. ASSUME NEW a, candidates = {a} PROVE Highest(a)
  <2>1. SS!audio_rank(a) \in Nat
    BY <1>8, RankIsANumber
  <2>2. \A u \in audio : u = a \/ SS!audio_rank(u) = SS!None
    BY <1>8
  <2> QED
    BY <1>5, <2>1, <2>2
<1>9. \A s \in candidates : SS!audio_rank(s) # SS!None
  OBVIOUS
<1> HIDE DEF audio, defaults, candidates, winners, outcome, Highest
<1>10. ASSUME outcome.status = "selected" PROVE IsAudioOf(outcome.stream, S)
  <2>1. /\ \A s \in audio : SS!audio_complete(s)
        /\ ~(Cardinality(defaults) > 1)
        /\ \/ /\ defaults # {} /\ ~\E s \in defaults : SS!audio_rank(s) = SS!None
              /\ outcome = SS!Chosen(CHOOSE s \in defaults : TRUE, "unique_default")
           \/ /\ defaults = {} /\ Cardinality(candidates) = 1
              /\ outcome = SS!Chosen(CHOOSE s \in candidates : TRUE, "single_eligible")
           \/ /\ defaults = {} /\ Cardinality(winners) = 1
              /\ outcome = SS!Chosen(CHOOSE s \in winners : TRUE, "unique_highest_supported_layout")
    BY <1>2, <1>10, RefusedIsNotPicked
  <2>2. CASE /\ defaults # {} /\ ~\E s \in defaults : SS!audio_rank(s) = SS!None
             /\ outcome = SS!Chosen(CHOOSE s \in defaults : TRUE, "unique_default")
    <3>1. outcome.stream \in defaults
      BY <2>2, ChosenIsPicked DEF Picked
    <3>2. defaults = {outcome.stream}
      BY <1>1, <2>1, <2>2, <3>1, FewerThanTwo, OnlyOne
    <3> QED
      BY <1>3, <2>1, <2>2, <3>1, <3>2 DEF IsAudioOf, audio, defaults
  <2>3. CASE /\ defaults = {} /\ Cardinality(candidates) = 1
             /\ outcome = SS!Chosen(CHOOSE s \in candidates : TRUE, "single_eligible")
    <3>1. candidates # {}
      BY <2>3, FS_EmptySet
    <3>2. outcome.stream \in candidates
      BY <2>3, <3>1, ChosenIsPicked DEF Picked
    <3>3. Highest(outcome.stream)
      BY <1>1, <1>8, <2>3, <3>2, OnlyOne
    <3> QED
      BY <1>3, <1>9, <2>1, <2>3, <3>2, <3>3 DEF IsAudioOf, audio, defaults, Highest
  <2>4. CASE /\ defaults = {} /\ Cardinality(winners) = 1
             /\ outcome = SS!Chosen(CHOOSE s \in winners : TRUE, "unique_highest_supported_layout")
    <3>1. winners # {}
      BY <2>4, FS_EmptySet
    <3>2. outcome.stream \in winners
      BY <2>4, <3>1, ChosenIsPicked DEF Picked
    <3>3. Highest(outcome.stream)
      BY <1>1, <1>6, <2>4, <3>2, OnlyOne
    <3> QED
      BY <1>3, <1>9, <2>1, <2>4, <3>2, <3>3 DEF IsAudioOf, audio, defaults, Highest
  <2> QED
    BY <2>1, <2>2, <2>3, <2>4
<1>11. ASSUME NEW a, IsAudioOf(a, S) PROVE Picked(outcome, a)
  <2>1. /\ ~\E s \in audio : ~SS!audio_complete(s)
        /\ a \in audio
        /\ SS!audio_rank(a) # SS!None
        /\ defaults = {a} \/ (defaults = {} /\ Highest(a))
    BY <1>11 DEF IsAudioOf, audio, defaults, Highest
  <2>2. audio # {} /\ a \in candidates
    BY <1>4, <2>1
  <2>3. CASE defaults = {a}
    <3>1. Cardinality(defaults) = 1 /\ (CHOOSE s \in defaults : TRUE) = a
      BY <2>3, FS_Singleton
    <3>2. ~\E s \in defaults : SS!audio_rank(s) = SS!None
      BY <2>1, <2>3
    <3>3. outcome = SS!Chosen(a, "unique_default")
      BY <1>2, <2>1, <2>2, <2>3, <3>1, <3>2
    <3> QED
      BY <3>3, ChosenIsPicked
  <2>4. CASE defaults = {} /\ Highest(a)
    <3>1. Cardinality(defaults) = 0
      BY <2>4, FS_EmptySet
    <3>2. winners = {a}
      BY <1>7, <2>2, <2>4
    <3>3. Cardinality(winners) = 1 /\ (CHOOSE s \in winners : TRUE) = a
      BY <3>2, FS_Singleton
    <3>4. Cardinality(candidates) = 1 => (CHOOSE s \in candidates : TRUE) = a
      <4>1. Cardinality(candidates) = 1 => candidates = {a}
        BY <1>1, <2>2, OnlyOne
      <4> QED
        BY <4>1
    <3>5. ~(Cardinality(defaults) > 1) /\ ~(defaults # {}) /\ candidates # {}
      BY <2>2, <2>4, <3>1
    <3>6. outcome = IF Cardinality(candidates) = 1
                    THEN SS!Chosen(CHOOSE s \in candidates : TRUE, "single_eligible")
                    ELSE IF Cardinality(winners) # 1 THEN SS!Refused("audio_ambiguous")
                    ELSE SS!Chosen(CHOOSE s \in winners : TRUE, "unique_highest_supported_layout")
      BY <1>2, <2>1, <2>2, <3>5, Zenon
    <3>7. CASE Cardinality(candidates) = 1
      <4>1. outcome = SS!Chosen(a, "single_eligible")
        BY <3>4, <3>6, <3>7, Zenon
      <4> QED
        BY <4>1, ChosenIsPicked
    <3>8. CASE Cardinality(candidates) # 1
      <4>1. outcome = SS!Chosen(a, "unique_highest_supported_layout")
        BY <3>3, <3>6, <3>8, Zenon
      <4> QED
        BY <4>1, ChosenIsPicked
    <3> QED
      BY <3>7, <3>8
  <2> QED
    BY <2>1, <2>3, <2>4
<1> QED
  BY <1>10, <1>11 DEF outcome

-----------------------------------------------------------------------------
(* The answer of ffprobe.                                                  *)
LEMMA ParsedStreams ==
    ASSUME NEW reply \in Answers, SS!parse_probe_json(reply).status = "parsed"
    PROVE  LET S == SS!ToSet(SS!parse_probe_json(reply).streams)
           IN  /\ Distinct(S)
               /\ \A s \in S : Sized(s)
               /\ SS!parse_probe_json(reply).streams \in Seq(S)
<1> DEFINE raw == reply.streams
           n == Len(raw)
           indexes == {raw[i].index : i \in DOMAIN raw}
           made == [i \in DOMAIN raw |-> SS!stream(raw[i])]
           M == SS!ToSet(made)
           streams == SS!parse_probe_json(reply).streams
           at == [i \in 1..n |-> raw[i].index]
           make == [i \in 1..n |-> made[i]]
<1>1. raw \in Seq(SS!ToSet(raw))
  BY AnswersAssumption, Zenon
<1>2. DOMAIN raw = 1..n /\ n \in Nat
  BY <1>1
<1>3. \A i \in DOMAIN raw : raw[i].index \in Int /\ raw[i].width \in Int /\ raw[i].height \in Int
  <2> TAKE i \in DOMAIN raw
  <2>1. {raw[i].index, raw[i].width, raw[i].height} \subseteq Int
    BY AnswersAssumption, Zenon
  <2> QED
    BY <2>1, Zenon
<1>4. Cardinality(indexes) = n /\ streams = SS!ByIndex(made)
  BY SizeOfStreams DEF SS!parse_probe_json, SS!Refused
<1>5. IsFiniteSet(1..n) /\ Cardinality(1..n) = n
  BY <1>2, FS_Interval
<1>6. \A i, j \in 1..n : raw[i].index = raw[j].index => i = j
  <2>1. at \in [1..n -> indexes]
    BY <1>2
  <2>2. \A x \in indexes : \E i \in 1..n : at[i] = x
    BY <1>2
  <2>3. DOMAIN at = 1..n
    OBVIOUS
  <2>4. \A i \in 1..n : at[i] = raw[i].index
    OBVIOUS
  <2> HIDE DEF at, indexes, n, raw
  <2>5. at \in Surjection(1..n, indexes)
    BY <2>1, <2>2 DEF Surjection
  <2>6. at \in Injection(1..n, indexes)
    BY <1>4, <1>5, <2>5, FS_Surjection
  <2> QED
    BY <2>3, <2>4, <2>6 DEF Injection, IsInjective
<1>7. M = {made[i] : i \in 1..n}
  BY <1>2 DEF SS!ToSet
<1>8. \A i \in 1..n : /\ made[i].index = raw[i].index
                      /\ made[i].width = raw[i].width
                      /\ made[i].height = raw[i].height
  BY <1>2 DEF SS!stream
<1>9. IsFiniteSet(M)
  <2>1. make \in [1..n -> M] /\ \A x \in M : \E i \in 1..n : make[i] = x
    BY <1>7
  <2> HIDE DEF make, M, n, made, raw
  <2>2. make \in Surjection(1..n, M)
    BY <2>1 DEF Surjection
  <2> QED
    BY <1>5, <2>2, FS_Surjection
<1> HIDE DEF raw, n, made, M, streams
<1>10. Distinct(M) /\ \A s \in M : Sized(s)
  BY <1>2, <1>3, <1>6, <1>7, <1>8, <1>9 DEF Distinct, Sized
<1>11. streams = SS!Sorted(M)
  BY <1>4 DEF SS!ByIndex, M
<1>12. SS!ToSet(streams) = M
  BY <1>10, <1>11, SortedHasTheSame
<1>13. streams \in Seq(M)
  BY <1>10, <1>11, SortedHasTheSame
<1> QED
  BY <1>10, <1>12, <1>13 DEF streams

\* The choice made of streams: of their set.
LEMMA SelectedFromSet ==
    ASSUME NEW streams, NEW S, S = SS!ToSet(streams), Distinct(S), \A s \in S : Sized(s)
    PROVE  LET choice == SS!select_streams(streams)
           IN  /\ choice.status = "selected" => IsVideoOf(choice.video, S) /\ IsAudioOf(choice.audio, S)
               /\ \A v, a : IsVideoOf(v, S) /\ IsAudioOf(a, S)
                              => choice.status = "selected" /\ choice.video = v /\ choice.audio = a
<1> DEFINE evidence == SS!ByIndex(streams)
           video == SS!select_video(evidence)
           audio == SS!select_audio(evidence)
           choice == SS!select_streams(streams)
           both == [status |-> "selected", video |-> video.stream, audio |-> audio.stream,
                    video_reason |-> video.reason, audio_reason |-> audio.reason, evidence |-> evidence]
<1>1. SS!ToSet(evidence) = S /\ IsFiniteSet(S)
  BY SortedHasTheSame DEF SS!ByIndex, Distinct
<1>2. choice = IF video.status # "selected" THEN video
               ELSE IF audio.status # "selected" THEN audio ELSE both
  BY DEF SS!select_streams
<1>3. both.status = "selected" /\ both.video = video.stream /\ both.audio = audio.stream
  OBVIOUS
<1> HIDE DEF evidence
<1>4. /\ video.status = "selected" => IsVideoOf(video.stream, S)
      /\ \A v : IsVideoOf(v, S) => video.status = "selected" /\ video.stream = v
  BY <1>1, VideoIsOfList DEF Picked
<1>5. /\ audio.status = "selected" => IsAudioOf(audio.stream, S)
      /\ \A a : IsAudioOf(a, S) => audio.status = "selected" /\ audio.stream = a
  BY <1>1, AudioIsOfList DEF Picked
<1> HIDE DEF video, audio, choice, both
<1>6. choice.status = "selected" => choice = both /\ video.status = "selected" /\ audio.status = "selected"
  BY <1>2
<1>7. video.status = "selected" /\ audio.status = "selected" => choice = both
  BY <1>2
<1>8. choice.status = "selected" => IsVideoOf(choice.video, S) /\ IsAudioOf(choice.audio, S)
  BY <1>3, <1>4, <1>5, <1>6
<1>9. \A v, a : IsVideoOf(v, S) /\ IsAudioOf(a, S)
                  => choice.status = "selected" /\ choice.video = v /\ choice.audio = a
  BY <1>3, <1>4, <1>5, <1>7
<1> QED
  BY <1>8, <1>9 DEF choice

\* Whatever ffprobe answers, the choice of the streams is stable.
LEMMA AnswerIsStable ==
    ASSUME NEW reply \in Answers
    PROVE  SS!SelectionIsStable(reply)
<1> DEFINE parsed == SS!parse_probe_json(reply)
           streams == parsed.streams
           S == SS!ToSet(streams)
           choice == SS!select_streams(streams)
           reversed == SS!select_streams(SS!Reverse(streams))
           Others(s) == SS!select_streams(SS!Without(streams, s.index))
           Same(other) == /\ other.status = "selected"
                          /\ other.video = choice.video
                          /\ other.audio = choice.audio
           IsMain(s) == s.type = "video" /\ s.attached_pic = "no"
<1>1. SUFFICES ASSUME parsed.status = "parsed"
      PROVE  /\ reversed = choice
             /\ choice.status = "selected" =>
                  /\ SS!selection_semantically_matches(choice, SS!Reverse(streams))
                  /\ \A s \in S : s # choice.video /\ s # choice.audio => Same(Others(s))
                  /\ IsMain(choice.video)
                  /\ choice.video.default = "no" =>
                       \A s \in S : IsMain(s) => s = choice.video \/ SS!dominates(choice.video, s)
                  /\ choice.audio.default = "no" =>
                       \A s \in S : s.type = "audio" =>
                          s = choice.audio \/ SS!audio_rank(s) < SS!audio_rank(choice.audio)
  BY DEF SS!SelectionIsStable
<1>2. Distinct(S) /\ (\A s \in S : Sized(s)) /\ streams \in Seq(S)
  BY <1>1, ParsedStreams
<1> HIDE DEF parsed, streams
<1>3. SS!ToSet(SS!Reverse(streams)) = SS!ToSet(streams)
  <2> HIDE DEF S
  <2> QED
    BY <1>2, ReversedHasTheSame
<1>4. SS!ByIndex(SS!Reverse(streams)) = SS!ByIndex(streams)
  BY <1>3, SameStreamsSameOrder
<1>5. reversed = choice
  BY <1>4 DEF SS!select_streams
<1>6. ASSUME choice.status = "selected"
      PROVE  IsVideoOf(choice.video, S) /\ IsAudioOf(choice.audio, S)
  BY <1>2, <1>6, SelectedFromSet
<1>7. ASSUME choice.status = "selected", NEW s \in S, s # choice.video, s # choice.audio
      PROVE  Same(Others(s))
  <2> DEFINE T == {u \in S : u.index # s.index}
             rest == SS!Without(streams, s.index)
  <2>1. T \in SUBSET S /\ Distinct(T) /\ \A u \in T : Sized(u)
    BY <1>2, PartsAreDistinct
  <2>2. SS!ToSet(rest) = T
    <3>1. rest = SS!Sorted(T)
      BY DEF SS!Without
    <3> HIDE DEF T, rest
    <3> QED
      BY <2>1, <3>1, SortedHasTheSame
  <2>3. choice.video \in S /\ choice.audio \in S
    BY <1>6, <1>7 DEF IsVideoOf, IsAudioOf, Main, Videos, Audios
  <2>4. choice.video \in T /\ choice.audio \in T
    BY <1>2, <1>7, <2>3 DEF Distinct
  <2>5. IsVideoOf(choice.video, T) /\ IsAudioOf(choice.audio, T)
    <3> HIDE DEF T, choice, S
    <3> QED
      BY <1>6, <1>7, <2>1, <2>4, ChoiceOfFewer
  <2> HIDE DEF T, rest, choice
  <2>6. LET other == SS!select_streams(rest)
        IN  other.status = "selected" /\ other.video = choice.video /\ other.audio = choice.audio
    BY <2>1, <2>2, <2>5, SelectedFromSet
  <2> QED
    BY <2>6 DEF rest
<1>8. ASSUME choice.status = "selected"
      PROVE  /\ IsMain(choice.video)
             /\ choice.video.default = "no" =>
                  \A s \in S : IsMain(s) => s = choice.video \/ SS!dominates(choice.video, s)
             /\ choice.audio.default = "no" =>
                  \A s \in S : s.type = "audio" =>
                     s = choice.audio \/ SS!audio_rank(s) < SS!audio_rank(choice.audio)
  <2> HIDE DEF choice, S
  <2> QED
    BY <1>6, <1>8 DEF IsVideoOf, IsAudioOf, Main, Videos, Audios, DefaultsOf
<1>9. ASSUME choice.status = "selected"
      PROVE  SS!selection_semantically_matches(choice, SS!Reverse(streams))
  BY <1>5, <1>9 DEF SS!selection_semantically_matches
<1> HIDE DEF choice, reversed, Others, Same, IsMain, S
<1> QED
  BY <1>5, <1>7, <1>8, <1>9

ProbeQuestion == question.kind = "probe" => question.answer \in Answers

THEOREM SelectionIsAlwaysStable == RulesSpec => []SelectionIsStable
<1>1. RulesInit => ProbeQuestion
  BY DEF RulesInit, ProbeQuestion
<1>2. ProbeQuestion /\ [RulesNext]_question => ProbeQuestion'
  <2> SUFFICES ASSUME ProbeQuestion, [RulesNext]_question PROVE ProbeQuestion'
    OBVIOUS
  <2>1. CASE OutlineShort
    <3>1. PICK words \in WordLists, s \in Spans :
              question' = [kind |-> "short outline", words |-> words, first |-> s[1], last |-> s[2]]
      BY <2>1 DEF OutlineShort, Ask
    <3> QED
      BY <3>1 DEF ProbeQuestion
  <2>2. CASE AskShort
    <3>1. PICK tone \in Tones :
              question' = [kind |-> "short", words |-> question.words, first |-> question.first,
                           last |-> question.last, tone |-> tone]
      BY <2>2 DEF AskShort, Ask
    <3> QED
      BY <3>1 DEF ProbeQuestion
  <2>3. CASE AskProbe
    <3>1. PICK reply \in Answers : question' = [kind |-> "probe", answer |-> reply]
      BY <2>3 DEF AskProbe, Ask
    <3> QED
      BY <3>1 DEF ProbeQuestion
  <2>4. CASE OutlineProposal
    <3>1. PICK r \in Recordings : question' = [kind |-> "proposal outline", recording |-> r]
      BY <2>4 DEF OutlineProposal, Ask
    <3>2. question'.kind = "proposal outline"
      BY <3>1
    <3> QED
      BY <3>2 DEF ProbeQuestion
  <2>5. CASE AskProposal
    <3>1. PICK log \in Logs :
              question' = [kind |-> "proposal", log |-> log, events |-> question.recording.events,
                           total |-> question.recording.total, version |-> question.recording.version,
                           obs |-> question.recording.obs, binding |-> question.recording.binding,
                           collection |-> question.recording.collection]
      BY <2>5 DEF AskProposal, Ask
    <3>2. question'.kind = "proposal"
      BY <3>1
    <3> QED
      BY <3>2 DEF ProbeQuestion
  <2>6. CASE UNCHANGED question
    BY <2>6 DEF ProbeQuestion
  <2> QED
    BY <2>1, <2>2, <2>3, <2>4, <2>5, <2>6 DEF RulesNext
<1>3. ProbeQuestion => SelectionIsStable
  BY AnswerIsStable DEF ProbeQuestion, SelectionIsStable, Outline
<1> QED
  BY <1>1, <1>2, <1>3, PTL DEF RulesSpec
=============================================================================
