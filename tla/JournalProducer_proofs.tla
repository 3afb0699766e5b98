----------------------- MODULE JournalProducer_proofs ------------------------
(***************************************************************************)
(* Proofs about JournalProducer, for any threads, any size of the ring,    *)
(* any kinds and any numbers of calls and faults; and about the reader of  *)
(* what was written (JournalBundle, as the instance Bundle).               *)
(***************************************************************************)
EXTENDS JournalProducer, Integers, SequenceTheorems, TLAPS

USE DEF CallerSteps, WriterSteps, Undecided, Failures, States

----------------------------------------------------------------------------
(* Lemmas about the ring: positions less than a ring apart use different   *)
(* slots.                                                                  *)

LEMMA Division ==
    ASSUME NEW a \in Nat
    PROVE  /\ a = Capacity * (a \div Capacity) + (a % Capacity)
           /\ a \div Capacity \in Int
           /\ a % Capacity \in 0 .. Capacity - 1
BY RingAssumption, SMT

LEMMA NoMultipleBetween ==
    ASSUME NEW k \in Int, 0 < Capacity * k, Capacity * k < Capacity
    PROVE  FALSE
<1>1. CASE k <= 0
  BY <1>1, RingAssumption
<1>2. CASE k >= 1
  BY <1>2, RingAssumption
<1> QED
  BY <1>1, <1>2

LEMMA SlotsDiffer ==
    ASSUME NEW a \in Nat, NEW b \in Nat, a < b, b - a < Capacity
    PROVE  a % Capacity # b % Capacity
<1> SUFFICES ASSUME a % Capacity = b % Capacity PROVE FALSE
  OBVIOUS
<1>1. b - a = Capacity * (b \div Capacity) - Capacity * (a \div Capacity)
  BY Division, RingAssumption
<1>2. Capacity * (b \div Capacity) - Capacity * (a \div Capacity)
          = Capacity * ((b \div Capacity) - (a \div Capacity))
  BY Division, RingAssumption
<1> QED
  BY <1>1, <1>2, Division, NoMultipleBetween, RingAssumption, SMTT(30)

----------------------------------------------------------------------------
(* Lemmas about the state and the file.                                    *)

LEMMA FailureResults ==
    \A f \in Failures :
        /\ ResultForState(f) \in Results \ {"producer_ok"}
        /\ ResultForState(f) = "producer_failed_queue_overflow" =>
               f = "producer_failed_queue_overflow"
BY DEF ResultForState, Results

LEMMA Healthy ==
    ASSUME TypeOK, Result = "producer_ok"
    PROVE  state \notin Failures
BY FailureResults DEF Result, ResultForState, TypeOK

\* What a step may do to the state: it never goes back, an overflow wins only against an
\* active recording, and nothing touches a start that waits for its header.
Eases ==
    /\ state' \in States /\ stable_result' \in Results
    /\ state' = "recording_active" => state = "recording_active"
    /\ state' = "stop_requested" => state \in {"recording_active", "stop_requested"}
    /\ state' = "not_started" => state = "not_started"
    /\ state' \in {"stopped_unfinalized", "closed"} =>
           state \in {"stopped_unfinalized", "closed"} \/ writer \in {"none", "end", "done"}
    /\ state' \notin Failures => state \notin Failures /\ stable_result' = stable_result
    /\ stable_result' = "producer_failed_queue_overflow" =>
           stable_result = "producer_failed_queue_overflow" \/ state = "recording_active"

LEMMA FailEases ==
    ASSUME TypeOK, NEW from \in SUBSET Undecided, NEW f \in Failures, FailFrom(from, f),
           f = "producer_failed_queue_overflow" => from = {"recording_active"}
    PROVE  Eases
BY FailureResults DEF FailFrom, Eases, TypeOK, status

LEMMA PrimaryEases ==
    ASSUME TypeOK, NEW f \in Failures \ {"producer_failed_queue_overflow"}, SetPrimaryFailure(f)
    PROVE  /\ Eases
           /\ state' \notin Undecided
           /\ stable_result' = "producer_failed_queue_overflow" => stable_result' = stable_result
<1>1. Eases
  BY FailEases DEF SetPrimaryFailure
<1> QED
  BY <1>1, FailureResults DEF SetPrimaryFailure, FailFrom, TypeOK, status

LEMMA SameEases == ASSUME TypeOK, UNCHANGED status PROVE Eases
BY DEF status, Eases, TypeOK

LEMMA Appended ==
    ASSUME TypeOK, NEW line \in Records, journal' = Append(journal, line)
    PROVE  /\ journal' \in Seq(Records)
           /\ Len(journal) \in Nat /\ Len(journal') = Len(journal) + 1
           /\ Lines = 1 .. Len(journal) /\ Lines' = 1 .. Len(journal) + 1
           /\ \A i \in Lines : i \in Lines' /\ journal'[i] = journal[i]
           /\ journal'[Len(journal) + 1] = line
<1>1. journal \in Seq(Records) /\ Len(journal) \in Nat /\ DOMAIN journal = 1 .. Len(journal)
  BY DEF TypeOK
<1>2. /\ Append(journal, line) \in Seq(Records)
      /\ Len(Append(journal, line)) = Len(journal) + 1
      /\ DOMAIN Append(journal, line) = 1 .. Len(journal) + 1
      /\ \A i \in 1 .. Len(journal) : Append(journal, line)[i] = journal[i]
      /\ Append(journal, line)[Len(journal) + 1] = line
  BY <1>1, AppendProperties
<1> QED
  BY <1>1, <1>2 DEF Lines

LEMMA LinesTyped ==
    ASSUME TypeOK
    PROVE  /\ Len(journal) \in Nat /\ Lines = 1 .. Len(journal)
           /\ \A i \in Lines : journal[i] \in Records /\ Number(i) \in Nat
<1>1. journal \in Seq(Records)
  BY DEF TypeOK
<1>2. Len(journal) \in Nat /\ Lines = 1 .. Len(journal)
  BY <1>1 DEF Lines
<1>3. \A i \in Lines : journal[i] \in Records
  BY <1>1, <1>2
<1>4. \A r \in Records : r.id \in Nat
  BY BoundsAssumption DEF Records, Numbers
<1> QED
  BY <1>2, <1>3, <1>4 DEF Number

LEMMA Positions ==
    ASSUME TypeOK
    PROVE  read_position \in Nat /\ write_position \in Nat /\ durable_position \in Nat
           /\ submits \in Nat /\ confirmed \in Nat /\ sequence \in Nat /\ MaxSubmits \in Nat
           /\ target \in Nat /\ durable_position <= read_position
           /\ read_position <= write_position
BY BoundsAssumption DEF TypeOK

LEMMA LinesAreRecords ==
    ASSUME TypeOK
    PROVE  /\ Line("torn", 0) \in Records /\ Line("stop", 0) \in Records /\ Header \in Records
           /\ item \in Snapshots => /\ Line(item.kind, item.id) \in Records
                                    /\ item.kind # "stop" /\ item.kind \in Kinds
BY KindsAssumption DEF TypeOK, Line, Records, Header, Snapshots

----------------------------------------------------------------------------
(* Steps of the callers: the writer stands still.                          *)

LEMMA StandsStill ==
    ASSUME IInv, Eases, UNCHANGED <<writing, confirmed>>,
           writer = "header" => state' = state /\ pc'[Owner] = pc[Owner]
    PROVE  OrderInv' /\ StateInv' /\ StopInv' /\ DurableInv'
<1> USE DEF IInv, writing, written
<1>1. OrderInv'
  BY DEF OrderInv, WrittenInOrder, Number, Lines
<1>2. StateInv'
  BY DEF StateInv, Eases
<1>3. StopInv'
  BY DEF StopInv, Eases, Trusting, Gapless, StopIsEarned, Number, Lines
<1>4. DurableInv'
  BY DEF DurableInv, Eases, ConfirmedIsWritten, Number, Lines
<1> QED
  BY <1>1, <1>2, <1>3, <1>4

\* The owner's steps do not touch the queue.
LEMMA OwnerGoes ==
    ASSUME IInv, UNCHANGED <<writing, slots, write_position, call, submits>>, Eases,
           writer = "header" => state' = state,
           NEW step \in CallerSteps \ {"pushing", "checked", "stopping", "opening"},
           Go(Owner, step), pc[Owner] = "opening" => writer # "header",
           UNCHANGED producer_mutex \/ (producer_mutex = Owner /\ producer_mutex' = NoOne
                                          /\ pc[Owner] \notin {"pushing", "checked"}),
           target' \in 0 .. MaxSubmits, stop' \in Stops \cup {NoStop},
           shutdown_called' \in BOOLEAN, shutdown_result' \in Results \cup {"none"},
           DurableInv' \/ UNCHANGED confirmed, confirmed' \in 0 .. MaxSubmits
    PROVE  IInv'
<1> USE CallersAssumption DEF IInv, writing, written
<1>1. TypeOK'
  BY DEF TypeOK, Eases, Go
<1>2. CallInv'
  BY DEF CallInv, Go, TypeOK
<1>3. RingInv'
  BY DEF RingInv
<1>4. OrderInv'
  BY DEF OrderInv, WrittenInOrder, Number, Lines
<1>5. StateInv'
  BY DEF StateInv, Eases, Go, TypeOK
<1>6. StopInv'
  BY DEF StopInv, Eases, Trusting, Gapless, StopIsEarned, Number, Lines
<1>7. DurableInv'
  BY DEF DurableInv, Eases, ConfirmedIsWritten, Number, Lines
<1> QED
  BY <1>1, <1>2, <1>3, <1>4, <1>5, <1>6, <1>7

LEMMA ResultsTyped == ASSUME TypeOK PROVE Result \in Results
BY DEF Result, Results, TypeOK

LEMMA OwnerInv ==
    ASSUME IInv, OwnerStep
    PROVE  IInv'
<1> USE CallersAssumption DEF IInv, writing, written, callers, queue, ending, status
<1>0. UNCHANGED status => Eases
  BY SameEases
<1>1. CASE Started
  BY <1>0, <1>1, OwnerGoes DEF Started, TypeOK
<1>2. CASE ConfirmWakes \/ ConfirmExpires
  BY <1>0, <1>2, OwnerGoes DEF ConfirmWakes, ConfirmExpires, TypeOK
<1>3. CASE ConfirmReturns
  <2>1. Eases
    BY <1>0, <1>3, PrimaryEases DEF ConfirmReturns
  <2>2. writer # "header"
    BY <1>3 DEF ConfirmReturns, StateInv
  <2>3. confirmed' \in 0 .. MaxSubmits /\ target' \in 0 .. MaxSubmits
    BY <1>3, BoundsAssumption DEF ConfirmReturns, TypeOK
  <2>4. confirmed' = confirmed \/
            (confirmed' = target /\ durable_position >= target /\ Result = "producer_ok")
    BY <1>3 DEF ConfirmReturns
  <2>5. DurableInv' \/ UNCHANGED confirmed
    <3>1. CASE confirmed' = target /\ durable_position >= target /\ Result = "producer_ok"
      <4>1. \A n \in 1 .. target : \E i \in Lines : Number(i) = n
        BY <3>1, Healthy, Positions DEF DurableInv
      <4>2. ConfirmedIsWritten'
        BY <1>3, <3>1, <4>1 DEF ConfirmReturns, ConfirmedIsWritten, Number, Lines
      <4>3. state' \notin Failures => \A n \in 1 .. durable_position' : \E i \in Lines' : Number(i)' = n
        BY <1>3, <2>1 DEF ConfirmReturns, DurableInv, Eases, Number, Lines
      <4> QED
        BY <4>2, <4>3 DEF DurableInv
    <3> QED
      BY <3>1, <2>4
  <2> QED
    BY <1>3, <2>1, <2>2, <2>3, <2>5, OwnerGoes DEF ConfirmReturns, TypeOK
<1>4. CASE StopLinearises
  <2>1. Eases
    BY <1>4 DEF StopLinearises, Eases, TypeOK
  <2>2. writer # "header" /\ producer_mutex = Owner
    BY <1>4 DEF StopLinearises, StateInv, CallInv
  <2> QED
    BY <1>4, <2>1, <2>2, OwnerGoes DEF StopLinearises, TypeOK
<1>5. CASE Join
  <2>1. Eases
    BY <1>5 DEF Join, Eases, TypeOK
  <2> QED
    BY <1>5, <2>1, OwnerGoes, ResultsTyped DEF Join, TypeOK, StateInv
<1>6. CASE JoinExpires
  BY <1>0, <1>6, OwnerGoes DEF JoinExpires, TypeOK
<1>7. CASE GiveUp
  <2>1. Eases
    BY <1>7 DEF GiveUp, Eases, TypeOK
  <2>2. "producer_shutdown_timeout" \in Results
    BY DEF Results, ResultForState
  <2> QED
    BY <1>7, <2>1, <2>2, OwnerGoes DEF GiveUp, TypeOK, StateInv
<1> QED
  BY <1>1, <1>2, <1>3, <1>4, <1>5, <1>6, <1>7 DEF OwnerStep

LEMMA CallsInv ==
    ASSUME IInv, OwnerCall
    PROVE  IInv'
<1> USE CallersAssumption DEF IInv, writing, written, callers, queue, ending, status
<1>0. writer = "header" => pc[Owner] = "opening"
  BY DEF StateInv
<1>1. CASE StartFails
  <2>1. Eases /\ faults' \in 0 .. MaxFaults
    BY <1>1, PrimaryEases, BoundsAssumption DEF StartFails, TypeOK
  <2>2. writer = "none"
    BY <1>0, <1>1 DEF StartFails, StateInv
  <2>3. TypeOK'
    BY <1>1, <2>1 DEF StartFails, TypeOK, Eases
  <2>4. CallInv' /\ RingInv'
    BY <1>1 DEF StartFails, CallInv, RingInv
  <2>5. OrderInv' /\ ConfirmedIsWritten'
    BY <1>1 DEF StartFails, OrderInv, WrittenInOrder, DurableInv, ConfirmedIsWritten, Number, Lines
  <2>6. StateInv'
    BY <1>1, <2>1, <2>2 DEF StartFails, StateInv, Eases
  <2>7. StopInv'
    BY <1>1, <2>1, <2>2 DEF StartFails, StopInv, Eases, Trusting, Gapless, StopIsEarned, Number, Lines
  <2>8. DurableInv'
    BY <1>1, <2>1, <2>5 DEF StartFails, DurableInv, Eases, Number, Lines
  <2> QED
    BY <2>3, <2>4, <2>5, <2>6, <2>7, <2>8
<1>2. CASE Start
  <2>1. journal = << >> /\ writer = "none"
    BY <1>0, <1>2 DEF Start, StateInv
  <2>2. TypeOK'
    BY <1>2 DEF Start, TypeOK, Go
  <2>3. CallInv' /\ RingInv'
    BY <1>2 DEF Start, CallInv, RingInv, Go, TypeOK
  <2>4. OrderInv' /\ DurableInv'
    BY <1>2 DEF Start, OrderInv, WrittenInOrder, DurableInv, ConfirmedIsWritten, Number, Lines
  <2>5. StateInv'
    BY <1>2, <2>1 DEF Start, StateInv, Go, TypeOK
  <2>6. StopInv'
    BY <1>2, <2>1 DEF Start, StopInv, Trusting, Gapless, StopIsEarned, Number, Lines
  <2> QED
    BY <2>2, <2>3, <2>4, <2>5, <2>6
<1>3. CASE Confirm
  <2>1. Eases
    BY <1>3, SameEases DEF Confirm
  <2> QED
    BY <1>0, <1>3, <2>1, OwnerGoes DEF Confirm, TypeOK
<1>4. CASE StopElsewhere
  <2>1. Eases /\ writer # "header"
    BY <1>0, <1>4, PrimaryEases DEF StopElsewhere
  <2>2. TypeOK'
    BY <1>4, <2>1 DEF StopElsewhere, TypeOK, Eases
  <2>3. CallInv' /\ RingInv'
    BY <1>4 DEF StopElsewhere, CallInv, RingInv
  <2> QED
    BY <1>4, <2>1, <2>2, <2>3, StandsStill DEF StopElsewhere
<1>5. CASE Shutdown
  <2>1. Eases
    <3>1. CASE state = "not_started"
      BY <1>0, <1>5, <3>1 DEF Shutdown, StateInv, Eases, TypeOK
    <3>2. CASE state # "not_started"
      BY <1>5, <3>2, FailEases DEF Shutdown
    <3> QED
      BY <3>1, <3>2
  <2> QED
    BY <1>0, <1>5, <2>1, OwnerGoes DEF Shutdown, TypeOK
<1>6. ASSUME NEW s \in Stops, NormalStop(s) PROVE IInv'
  <2>1. Eases /\ writer # "header"
    BY <1>0, <1>6, SameEases DEF NormalStop
  <2>2. TypeOK'
    BY <1>6 DEF NormalStop, TypeOK, Go
  <2>3. CallInv' /\ RingInv'
    BY <1>6 DEF NormalStop, CallInv, RingInv, Go, TypeOK
  <2> QED
    BY <1>6, <2>1, <2>2, <2>3, StandsStill DEF NormalStop
<1> QED
  BY <1>1, <1>2, <1>3, <1>4, <1>5, <1>6 DEF OwnerCall

LEMMA SubmitInv ==
    ASSUME IInv, NEW c \in Callbacks, NEW k \in Kinds, Submit(c, k)
    PROVE  IInv'
<1> USE CallersAssumption DEF IInv, Submit
<1>1. TypeOK'
  BY BoundsAssumption DEF TypeOK, Go, status, ending, writing, written
<1>2. CallInv'
  BY Positions DEF CallInv, Go, TypeOK
<1>3. RingInv'
  BY DEF RingInv, writing
<1>4. writer = "header" => pc'[Owner] = pc[Owner]
  BY DEF StateInv, Go, TypeOK
<1>5. Eases
  BY SameEases
<1> QED
  BY <1>1, <1>2, <1>3, <1>4, <1>5, StandsStill DEF status

\* The slot behind the last snapshot holds none that waits.
LEMMA EnqueueRing ==
    ASSUME IInv, NEW c \in Callbacks, Enqueue(c)
    PROVE  RingInv' /\ slots' \in [0 .. Capacity - 1 -> Snapshots \cup {Empty}]
<1> USE DEF IInv
<1>1. CASE write_position - read_position >= Capacity
  BY <1>1 DEF Enqueue, RingInv, TypeOK, writing
<1>2. CASE ~(write_position - read_position >= Capacity)
  <2> DEFINE new == [kind |-> call[c], id |-> write_position + 1]
  <2>1. new \in Snapshots
    BY Positions DEF Enqueue, CallInv, Snapshots, Numbers, TypeOK
  <2>2. slots' = [slots EXCEPT ![write_position % Capacity] = new]
    BY <1>2 DEF Enqueue
  <2>3. write_position \in Nat /\ write_position % Capacity \in 0 .. Capacity - 1
    BY Positions, Division
  <2>4. slots' \in [0 .. Capacity - 1 -> Snapshots \cup {Empty}]
    BY <2>1, <2>2 DEF TypeOK
  <2>5. slots'[write_position % Capacity] = new
    BY <2>2, <2>3 DEF TypeOK
  <2>6. ASSUME NEW i \in read_position .. write_position - 1
        PROVE  slots'[i % Capacity] \in Snapshots /\ slots'[i % Capacity].id = i + 1
    <3>1. i \in Nat /\ i < write_position /\ write_position - i < Capacity
      BY <1>2, Positions, RingAssumption
    <3>2. i % Capacity # write_position % Capacity /\ i % Capacity \in 0 .. Capacity - 1
      BY <2>3, <3>1, SlotsDiffer, Division
    <3>3. slots'[i % Capacity] = slots[i % Capacity]
      BY <2>2, <3>2 DEF TypeOK
    <3> QED
      BY <3>3 DEF RingInv
  <2>7. write_position' = write_position + 1 /\ read_position' = read_position
    BY <1>2 DEF Enqueue, writing
  <2>8. \A i \in read_position' .. write_position' - 1 :
            slots'[i % Capacity] \in Snapshots /\ slots'[i % Capacity].id = i + 1
    <3> TAKE i \in read_position' .. write_position' - 1
    <3>1. i \in read_position .. write_position - 1 \/ i = write_position
      BY <2>7, Positions
    <3>2. new.id = write_position + 1
      OBVIOUS
    <3> QED
      BY <2>1, <2>5, <2>6, <3>1, <3>2
  <2>9. (writer' \in {"write", "publish"}) => item' \in Snapshots /\ item'.id = read_position'
    BY DEF Enqueue, RingInv, writing
  <2> QED
    BY <2>4, <2>8, <2>9 DEF RingInv
<1> QED
  BY <1>1, <1>2

LEMMA SubmitStepInv ==
    ASSUME IInv, NEW c \in Callbacks, SubmitStep(c)
    PROVE  IInv'
<1> USE CallersAssumption DEF IInv
<1>1. CASE CheckState(c)
  <2>1. TypeOK'
    BY <1>1, SMTT(30) DEF CheckState, TypeOK, Go, Proceed, status, ending, writing, written
  <2>2. CallInv'
    BY <1>1 DEF CheckState, CallInv, Go, Proceed, TypeOK
  <2>3. RingInv'
    BY <1>1 DEF CheckState, RingInv, writing
  <2>4. writer = "header" => pc'[Owner] = pc[Owner]
    BY <1>1 DEF CheckState, StateInv, Proceed, Go, TypeOK
  <2>5. Eases
    BY <1>1, SameEases DEF CheckState
  <2> QED
    BY <1>1, <2>1, <2>2, <2>3, <2>4, <2>5, StandsStill DEF CheckState, status
<1>2. CASE Enqueue(c)
  <2>1. write_position' \in 0 .. MaxSubmits /\ read_position' \in 0 .. write_position'
    BY <1>2, Positions DEF Enqueue, CallInv, TypeOK, writing
  <2>2. write_position' - read_position' <= Capacity
    BY <1>2, Positions, RingAssumption DEF Enqueue, TypeOK, writing
  <2>3. TypeOK'
    BY <1>2, <2>1, <2>2, EnqueueRing, SMTT(30) DEF Enqueue, TypeOK, Go, Proceed, status, ending, writing, written
  <2>4. CallInv'
    BY <1>2, Positions, SMTT(30) DEF Enqueue, CallInv, Go, Proceed, TypeOK
  <2>5. writer = "header" => pc'[Owner] = pc[Owner]
    BY <1>2 DEF Enqueue, StateInv, Proceed, Go, TypeOK
  <2>6. Eases
    BY <1>2, SameEases DEF Enqueue
  <2> QED
    BY <1>2, <2>3, <2>4, <2>5, <2>6, EnqueueRing, StandsStill DEF Enqueue, status
<1>3. CASE Reject(c)
  <2>1. Eases
    BY <1>3, FailEases DEF Reject
  <2>2. TypeOK'
    BY <1>3, <2>1 DEF Reject, TypeOK, Go, Eases, queue, ending, writing, written
  <2>3. CallInv'
    BY <1>3 DEF Reject, CallInv, Go, TypeOK, queue
  <2>4. RingInv'
    BY <1>3 DEF Reject, RingInv, queue, writing
  <2>5. writer = "header" => state' = state /\ pc'[Owner] = pc[Owner]
    BY <1>3 DEF Reject, StateInv, FailFrom, Go, TypeOK, status
  <2> QED
    BY <1>3, <2>1, <2>2, <2>3, <2>4, <2>5, StandsStill DEF Reject
<1> QED
  BY <1>1, <1>2, <1>3 DEF SubmitStep

----------------------------------------------------------------------------
(* Steps of the writer.                                                    *)

\* A step that leaves the file and the positions alone.
LEMMA WriterGoes ==
    ASSUME IInv, UNCHANGED <<queue, callers, ending, read_position, written>>, Eases,
           writer # "header", writer' \in WriterSteps \ {"none", "header", "write", "publish"},
           faults' \in 0 .. MaxFaults, item' \in Snapshots \cup {Empty},
           state' \in {"stopped_unfinalized", "closed"} => writer' \in {"end", "done"},
           state' # "not_started", writer' # "stop",
           Trusting' => Trusting /\ writer \notin {"write", "publish"},
           writer \in {"stopped", "end", "done"} => writer' \in {"stopped", "end", "done"}
    PROVE  IInv'
<1> USE DEF IInv, queue, callers, ending, written
<1>1. TypeOK'
  BY DEF TypeOK, Eases
<1>2. CallInv' /\ RingInv'
  BY DEF CallInv, RingInv
<1>3. OrderInv'
  BY DEF OrderInv, WrittenInOrder, Number, Lines
<1>4. StateInv'
  BY DEF StateInv, Eases
<1>5. StopInv'
  BY DEF StopInv, Eases, Gapless, StopIsEarned, Number, Lines
<1>6. DurableInv'
  BY DEF DurableInv, Eases, ConfirmedIsWritten, Number, Lines
<1> QED
  BY <1>1, <1>2, <1>3, <1>4, <1>5, <1>6

\* Before the stop line there is none.
LEMMA NoStopLine ==
    ASSUME IInv, writer \notin {"stopped", "end", "done"}
    PROVE  \A i \in Lines : journal[i].kind # "stop"
BY DEF IInv, StopInv

\* A line that is no stop line keeps what the file says, unless the writer counts on it.
LEMMA LineKept ==
    ASSUME IInv, NEW line \in Records, line.kind # "stop", writer \in {"header", "write"},
           line.id = 0 \/ (writer = "write" /\ line.id = read_position),
           journal' = journal \/ journal' = Append(journal, line),
           UNCHANGED <<queue, callers, ending, read_position, durable_position>>, Eases \/
               (writer = "header" /\ state' = "recording_active" /\ UNCHANGED stable_result),
           writer' # "write"
    PROVE  /\ journal' \in Seq(Records) /\ OrderInv' /\ DurableInv' /\ StopIsEarned'
           /\ \A i \in Lines' : journal'[i].kind # "stop"
<1> USE DEF IInv, queue, callers
<1>1. CASE journal' = journal
  <2>1. OrderInv'
    BY <1>1 DEF OrderInv, WrittenInOrder, Number, Lines
  <2>2. DurableInv'
    BY <1>1 DEF DurableInv, ConfirmedIsWritten, Eases, Number, Lines, StateInv
  <2>3. \A i \in Lines' : journal'[i].kind # "stop"
    BY <1>1, NoStopLine DEF Lines
  <2> QED
    BY <1>1, <2>1, <2>2, <2>3 DEF TypeOK, StopIsEarned, Lines
<1>2. CASE journal' = Append(journal, line)
  <2> DEFINE n == Len(journal) + 1
  <2>1. /\ journal' \in Seq(Records) /\ Lines = 1 .. Len(journal) /\ Lines' = 1 .. n
        /\ Len(journal) \in Nat
        /\ \A i \in Lines : i \in Lines' /\ journal'[i] = journal[i]
        /\ journal'[n] = line
    BY <1>2, Appended
  <2>2. \A i \in Lines' : i \in Lines \/ i = n
    BY <2>1
  <2>3. \A i \in Lines' : journal'[i].kind # "stop"
    BY <2>1, <2>2, NoStopLine
  <2>4. \A i \in Lines' : journal'[i].id <= read_position
    BY <2>1, <2>2, Positions, SMTT(30) DEF OrderInv, Number
  <2>5. line.id # 0 => \A i \in Lines : journal[i].id < line.id
    BY DEF OrderInv, Number
  <2>6. WrittenInOrder'
    <3> SUFFICES ASSUME NEW i \in Lines', NEW j \in Lines', i < j,
                        journal'[i].id # 0, journal'[j].id # 0
                 PROVE  journal'[i].id < journal'[j].id
      BY DEF WrittenInOrder, Number
    <3>1. i \in Lines
      BY <2>1
    <3>2. CASE j \in Lines
      BY <2>1, <3>1, <3>2 DEF OrderInv, WrittenInOrder, Number
    <3>3. CASE j = n
      BY <2>1, <2>5, <3>1, <3>3
    <3> QED
      BY <2>2, <3>2, <3>3
  <2>7. OrderInv'
    BY <2>4, <2>6 DEF OrderInv, Number
  <2>8. \A k \in Nat : (\E i \in Lines : Number(i) = k) => \E i \in Lines' : Number(i)' = k
    BY <2>1 DEF Number
  <2>9. DurableInv'
    <3>1. ConfirmedIsWritten'
      BY <2>8, Positions DEF DurableInv, ConfirmedIsWritten
    <3>2. state' \notin Failures => state \notin Failures
      BY DEF Eases, StateInv
    <3>3. state' \notin Failures => \A k \in 1 .. durable_position' : \E i \in Lines' : Number(i)' = k
      BY <2>8, <3>2, Positions DEF DurableInv
    <3> QED
      BY <3>1, <3>3 DEF DurableInv
  <2> QED
    BY <2>1, <2>3, <2>7, <2>9 DEF StopIsEarned
<1> QED
  BY <1>1, <1>2

LEMMA HeaderInv ==
    ASSUME IInv, WriteHeader
    PROVE  IInv'
<1> USE DEF IInv, WriteHeader, queue, callers, ending, status
<1>1. /\ state = "not_started" /\ journal = << >> /\ sequence = 1 /\ read_position = 0
      /\ Line("torn", 0) \in Records /\ Header \in Records
      /\ Line("torn", 0).kind # "stop" /\ Line("torn", 0).id = 0
      /\ Header.kind # "stop" /\ Header.id = 0 /\ Header.sequence = 0
  BY LinesAreRecords DEF StateInv, Line, Header
<1>2. Eases \/ (state' = "recording_active" /\ UNCHANGED stable_result)
  BY <1>1, PrimaryEases DEF FailingWrite
<1>3. \E line \in {Header, Line("torn", 0)} : journal' = journal \/ journal' = Append(journal, line)
  BY DEF FailingWrite
<1>4. UNCHANGED durable_position /\ sequence' = sequence /\ paused' = paused
        /\ faults' \in 0 .. MaxFaults
  BY BoundsAssumption DEF FailingWrite, TypeOK
<1>5. /\ journal' \in Seq(Records) /\ OrderInv' /\ DurableInv' /\ StopIsEarned'
      /\ \A i \in Lines' : journal'[i].kind # "stop"
  BY <1>1, <1>2, <1>3, <1>4, LineKept
<1>6. TypeOK'
  BY <1>2, <1>4, <1>5 DEF TypeOK, Eases
<1>7. CallInv' /\ RingInv'
  BY DEF CallInv, RingInv
<1>8. StateInv'
  BY <1>1, PrimaryEases DEF StateInv, FailingWrite, Eases
<1>9. Trusting' => Gapless'
  <2>1. CASE state' = "recording_active"
    <3>1. journal' = Append(journal, Header)
      BY <1>1, <2>1, PrimaryEases DEF FailingWrite
    <3>2. Lines' = 1 .. 1 /\ Len(journal') = 1 /\ journal'[1] = Header
      BY <1>1, <3>1, Appended
    <3> QED
      BY <1>1, <1>4, <3>2 DEF Gapless, Number
  <2>2. CASE state' # "recording_active"
    BY <1>1, <1>2, <2>2 DEF Trusting, Eases
  <2> QED
    BY <2>1, <2>2
<1> QED
  BY <1>5, <1>6, <1>7, <1>8, <1>9 DEF StopInv

LEMMA TakeInv ==
    ASSUME IInv, Take
    PROVE  IInv'
<1> USE DEF IInv, Take, callers, ending, written, status
<1>1. /\ read_position \in Nat /\ write_position \in Nat /\ read_position < write_position
      /\ read_position' = read_position + 1 /\ write_position' = write_position
  BY Positions
<1>2. item' \in Snapshots /\ item'.id = read_position'
  BY <1>1 DEF RingInv
<1>3. read_position % Capacity \in 0 .. Capacity - 1
  BY <1>1, Division
<1>4. TypeOK'
  BY <1>1, <1>2, <1>3, Positions, RingAssumption DEF TypeOK
<1>5. \A i \in read_position' .. write_position' - 1 :
          slots'[i % Capacity] \in Snapshots /\ slots'[i % Capacity].id = i + 1
  <2> TAKE i \in read_position' .. write_position' - 1
  <2>1. i \in Nat /\ read_position < i /\ i < write_position /\ i - read_position < Capacity
    BY <1>1, RingAssumption DEF TypeOK
  <2>2. i % Capacity # read_position % Capacity /\ i % Capacity \in 0 .. Capacity - 1
    BY <1>1, <2>1, SlotsDiffer, Division
  <2>3. slots'[i % Capacity] = slots[i % Capacity]
    BY <2>2 DEF TypeOK
  <2> QED
    BY <1>1, <2>1, <2>3 DEF RingInv
<1>6. RingInv' /\ CallInv'
  BY <1>2, <1>5 DEF RingInv, CallInv
<1>7. OrderInv'
  BY <1>1, LinesTyped DEF OrderInv, WrittenInOrder, Number, Lines
<1>8. StateInv'
  BY DEF StateInv
<1>9. StopInv'
  BY <1>1 DEF StopInv, Trusting, Gapless, StopIsEarned, Number, Lines
<1>10. DurableInv'
  BY DEF DurableInv, ConfirmedIsWritten, Number, Lines
<1> QED
  BY <1>4, <1>6, <1>7, <1>8, <1>9, <1>10

LEMMA LoopInv ==
    ASSUME IInv, Loop \/ FindEmpty \/ AskStop \/ AskActive \/ Stopped \/ FinishWriter
    PROVE  IInv'
<1> USE DEF IInv, Running
<1>0. UNCHANGED status => Eases
  BY SameEases
<1>1. CASE AskStop /\ state = "stop_requested"
  <2> USE <1>1 DEF AskStop, queue, callers, ending, written, status
  <2>1. TypeOK' /\ CallInv' /\ RingInv' /\ StateInv'
    BY DEF TypeOK, CallInv, RingInv, StateInv
  <2>2. OrderInv' /\ DurableInv'
    BY DEF OrderInv, WrittenInOrder, DurableInv, ConfirmedIsWritten, Number, Lines
  <2>3. Trusting /\ Gapless'
    BY DEF StopInv, Trusting, Gapless, Number, Lines
  <2>4. stable_result # "producer_failed_queue_overflow"
    BY DEF StateInv
  <2>5. StopInv'
    BY <2>3, <2>4, NoStopLine DEF StopInv, StopIsEarned, Number, Lines
  <2> QED
    BY <2>1, <2>2, <2>5
<1>2. CASE Loop
  BY <1>0, <1>2, WriterGoes DEF Loop, status, TypeOK, StateInv, Trusting
<1>3. CASE FindEmpty
  BY <1>0, <1>3, WriterGoes DEF FindEmpty, status, TypeOK, StateInv, Trusting
<1>4. CASE AskStop /\ state # "stop_requested"
  BY <1>0, <1>4, WriterGoes DEF AskStop, status, TypeOK, StateInv, Trusting
<1>5. CASE AskActive
  BY <1>0, <1>5, WriterGoes DEF AskActive, status, TypeOK, StateInv, Trusting
<1>6. CASE FinishWriter
  BY <1>0, <1>6, WriterGoes DEF FinishWriter, status, TypeOK, StateInv, Trusting
<1>7. CASE Stopped
  <2>1. state' \in States /\ state' # "not_started"
    BY <1>7 DEF Stopped, TypeOK, StateInv
  <2> USE DEF queue, callers, ending, written
  <2>2. TypeOK' /\ CallInv' /\ RingInv' /\ StateInv'
    BY <1>7, <2>1 DEF Stopped, TypeOK, CallInv, RingInv, StateInv
  <2>3. OrderInv' /\ DurableInv'
    BY <1>7 DEF Stopped, OrderInv, WrittenInOrder, DurableInv, ConfirmedIsWritten, Number, Lines
  <2>4. StopInv'
    BY <1>7 DEF Stopped, StopInv, Trusting, StopIsEarned, Number, Lines
  <2> QED
    BY <2>2, <2>3, <2>4
<1> QED
  BY <1>1, <1>2, <1>3, <1>4, <1>5, <1>6, <1>7

LEMMA PublishInv ==
    ASSUME IInv, Publish
    PROVE  IInv'
<1> USE DEF IInv, Publish, queue, callers, ending, status
<1>1. TypeOK' /\ CallInv' /\ RingInv' /\ StateInv'
  BY Positions DEF TypeOK, CallInv, RingInv, StateInv
<1>2. OrderInv'
  BY DEF OrderInv, WrittenInOrder, Number, Lines
<1>3. Trusting' => Trusting
  BY DEF Trusting
<1>4. StopInv'
  BY <1>3, Positions, NoStopLine DEF StopInv, Trusting, Gapless, StopIsEarned, Number, Lines
<1>5. state \notin Failures => Trusting
  BY DEF StateInv, Trusting, TypeOK
<1>6. state \notin Failures => \A n \in 1 .. read_position : \E i \in Lines : Number(i) = n
  <2> SUFFICES ASSUME Gapless, NEW n \in 1 .. read_position
               PROVE  \E i \in Lines : Number(i) = n
    BY <1>5 DEF StopInv
  <2>1. n + 1 \in Lines
    BY LinesTyped, Positions, SMTT(30) DEF Gapless
  <2>2. Number(n + 1) = n
    BY <2>1, Positions DEF Gapless
  <2> QED
    BY <2>1, <2>2
<1>7. DurableInv'
  BY <1>6 DEF DurableInv, ConfirmedIsWritten, Number, Lines
<1> QED
  BY <1>1, <1>2, <1>4, <1>7

LEMMA WriteInv ==
    ASSUME IInv, Refuse \/ Write \/ WriteFails
    PROVE  IInv'
<1> USE DEF IInv, queue, callers, ending
<1> DEFINE snapshot == Line(item.kind, item.id)
<1>1. /\ writer = "write" /\ item \in Snapshots /\ item.id = read_position
      /\ snapshot \in Records /\ Line("torn", 0) \in Records
      /\ snapshot.kind # "stop" /\ Line("torn", 0).kind # "stop"
      /\ snapshot.id = read_position /\ Line("torn", 0).id = 0
      /\ snapshot.sequence = sequence
  BY LinesAreRecords DEF Refuse, Write, WriteFails, RingInv, Line
<1>2. CASE Refuse
  <2>1. Eases /\ state' \notin Undecided
    BY <1>2, PrimaryEases DEF Refuse
  <2> QED
    BY <1>1, <1>2, <2>1, WriterGoes DEF Refuse, TypeOK, StateInv, Trusting, Eases
<1>3. CASE WriteFails
  <2>1. Eases /\ state' \notin Undecided
    BY <1>3, PrimaryEases DEF WriteFails, FailingWrite
  <2>2. \E line \in {snapshot, Line("torn", 0)} :
            journal' = journal \/ journal' = Append(journal, line)
    BY <1>3 DEF WriteFails, FailingWrite
  <2>3. UNCHANGED <<durable_position, read_position, sequence, paused>>
          /\ faults' \in 0 .. MaxFaults /\ writer' = "loop" /\ item' = Empty
    BY <1>3, BoundsAssumption DEF WriteFails, FailingWrite, TypeOK
  <2>4. /\ journal' \in Seq(Records) /\ OrderInv' /\ DurableInv' /\ StopIsEarned'
        /\ \A i \in Lines' : journal'[i].kind # "stop"
    BY <1>1, <1>3, <2>1, <2>2, <2>3, LineKept DEF WriteFails
  <2>5. TypeOK'
    BY <1>3, <2>1, <2>3, <2>4 DEF WriteFails, TypeOK, Eases
  <2>6. CallInv' /\ RingInv' /\ StateInv'
    BY <1>1, <1>3, <2>1, <2>3 DEF WriteFails, CallInv, RingInv, StateInv, Eases
  <2> QED
    BY <2>1, <2>3, <2>4, <2>5, <2>6 DEF StopInv, Trusting
<1>4. CASE Write
  <2>1. Eases
    BY <1>4, SameEases DEF Write
  <2>2. journal' = Append(journal, snapshot) /\ writer' = "publish"
    BY <1>4 DEF Write
  <2>3. /\ journal' \in Seq(Records) /\ OrderInv' /\ DurableInv' /\ StopIsEarned'
        /\ \A i \in Lines' : journal'[i].kind # "stop"
    BY <1>1, <1>4, <2>1, <2>2, LineKept DEF Write
  <2>4. TypeOK' /\ CallInv' /\ RingInv' /\ StateInv'
    BY <1>1, <1>4, <2>3 DEF Write, TypeOK, CallInv, RingInv, StateInv, status
  <2>5. Trusting' => Gapless'
    <3> SUFFICES ASSUME Trusting' PROVE Gapless'
      OBVIOUS
    <3>1. Gapless
      BY <1>1, <1>4 DEF Write, StopInv, Trusting, status
    <3>2. /\ Lines = 1 .. Len(journal) /\ Lines' = 1 .. Len(journal) + 1
          /\ Len(journal') = Len(journal) + 1 /\ Len(journal) \in Nat
          /\ \A i \in Lines : journal'[i] = journal[i]
          /\ journal'[Len(journal) + 1] = snapshot
      BY <1>1, <2>2, Appended
    <3>3. Len(journal) = sequence /\ read_position = sequence
      BY <1>1, <3>1, Positions DEF Gapless
    <3>4. \A i \in Lines' : i \in Lines \/ i = sequence + 1
      BY <3>2, <3>3
    <3>5. \A i \in Lines' : journal'[i].id = i - 1 /\ journal'[i].sequence = i - 1
      <4> TAKE i \in Lines'
      <4>1. CASE i \in Lines
        BY <3>1, <3>2, <4>1 DEF Gapless, Number
      <4>2. CASE i = sequence + 1
        <5>1. journal'[i] = snapshot
          BY <3>2, <3>3, <4>2
        <5>2. i - 1 = sequence
          BY <4>2, Positions
        <5> QED
          BY <1>1, <3>3, <5>1, <5>2
      <4> QED
        BY <3>4, <4>1, <4>2
    <3> QED
      BY <1>4, <2>2, <2>3, <3>2, <3>3, <3>5, Positions DEF Write, Gapless, Number
  <2> QED
    BY <2>2, <2>3, <2>4, <2>5 DEF StopInv
<1> QED
  BY <1>2, <1>3, <1>4

LEMMA WriteStopInv ==
    ASSUME IInv, WriteStop
    PROVE  IInv'
<1> USE DEF IInv, WriteStop, queue, callers, ending
<1> DEFINE last == Line("stop", 0)
<1>1. /\ writer = "stop" /\ Trusting /\ last \in Records /\ Line("torn", 0) \in Records
      /\ last.sequence = sequence /\ last.id = 0 /\ last.kind = "stop"
      /\ Line("torn", 0).id = 0 /\ Line("torn", 0).kind = "torn"
  BY LinesAreRecords DEF Trusting, Line
<1>2. /\ Gapless /\ Len(journal) = sequence /\ read_position + 1 = sequence
      /\ state # "recording_active" /\ stable_result # "producer_failed_queue_overflow"
  BY <1>1 DEF StopInv, Gapless
<1>3. /\ Eases
      /\ state' # "recording_active" /\ stable_result' # "producer_failed_queue_overflow"
  BY <1>2, SameEases, PrimaryEases DEF FailingWrite, status
<1>4. UNCHANGED <<durable_position, sequence, paused>> /\ faults' \in 0 .. MaxFaults
  BY BoundsAssumption DEF FailingWrite, TypeOK, written
<1>5. writer' \in {"stopped", "end"}
  OBVIOUS
<1>6. \/ journal' = journal
      \/ \E line \in {last, Line("torn", 0)} : journal' = Append(journal, line)
  BY DEF FailingWrite, written
<1>7. CASE journal' = journal
  <2>1. TypeOK' /\ CallInv' /\ RingInv'
    BY <1>3, <1>4, <1>5, <1>7 DEF TypeOK, CallInv, RingInv, Eases
  <2>2. OrderInv' /\ DurableInv'
    BY <1>3, <1>4, <1>5, <1>7 DEF OrderInv, WrittenInOrder, DurableInv, ConfirmedIsWritten,
                                   Eases, Number, Lines
  <2>3. StateInv'
    BY <1>1, <1>3, <1>5 DEF StateInv, Eases
  <2>4. StopInv'
    BY <1>1, <1>3, <1>5, <1>7, NoStopLine DEF StopInv, Trusting, StopIsEarned, Lines
  <2> QED
    BY <2>1, <2>2, <2>3, <2>4
<1>8. ASSUME NEW line \in {last, Line("torn", 0)}, journal' = Append(journal, line)
      PROVE  IInv'
  <2> DEFINE n == Len(journal) + 1
  <2>1. /\ journal' \in Seq(Records) /\ Lines = 1 .. Len(journal) /\ Lines' = 1 .. n
        /\ Len(journal) \in Nat /\ Len(journal') = n
        /\ \A i \in Lines : i \in Lines' /\ journal'[i] = journal[i]
        /\ journal'[n] = line /\ line.id = 0
    BY <1>1, <1>8, Appended
  <2>2. \A i \in Lines' : i \in Lines \/ i = n
    BY <2>1
  <2>3. TypeOK' /\ CallInv' /\ RingInv'
    BY <1>3, <1>4, <1>5, <2>1 DEF TypeOK, CallInv, RingInv, Eases
  <2>4. \A i \in Lines' : journal'[i].id <= read_position
    BY <2>1, <2>2, Positions, SMTT(30) DEF OrderInv, Number
  <2>5. WrittenInOrder'
    <3> SUFFICES ASSUME NEW i \in Lines', NEW j \in Lines', i < j,
                        journal'[i].id # 0, journal'[j].id # 0
                 PROVE  journal'[i].id < journal'[j].id
      BY DEF WrittenInOrder, Number
    <3>1. i \in Lines /\ j \in Lines
      BY <2>1, <2>2
    <3> QED
      BY <2>1, <3>1 DEF OrderInv, WrittenInOrder, Number
  <2>6. OrderInv'
    BY <1>5, <2>4, <2>5 DEF OrderInv, Number
  <2>7. StateInv'
    BY <1>1, <1>3, <1>5 DEF StateInv, Eases
  <2>8. StopInv'
    <3>1. ASSUME NEW i \in Lines', journal'[i].kind = "stop"
          PROVE  i = n /\ line = last
      <4>1. i \notin Lines
        BY <1>1, <2>1, <3>1, NoStopLine
      <4> QED
        BY <1>1, <2>1, <2>2, <3>1, <4>1
    <3>2. \A j \in Lines : journal'[j].sequence = j - 1 /\ journal'[j].id = j - 1
      BY <1>2, <2>1 DEF Gapless, Number
    <3>3. ASSUME line = last
          PROVE  \A j \in Lines' : journal'[j].sequence = j - 1
      <4> TAKE j \in Lines'
      <4>1. CASE j \in Lines
        BY <3>2, <4>1
      <4>2. CASE j = n
        BY <1>1, <1>2, <2>1, <3>3, <4>2, Positions
      <4> QED
        BY <2>2, <4>1, <4>2
    <3>4. StopIsEarned'
      <4> SUFFICES ASSUME NEW i \in Lines', journal'[i].kind = "stop"
                   PROVE  /\ i = Len(journal')
                          /\ \A j \in 1 .. i : journal'[j].sequence = j - 1
                          /\ \A j \in 2 .. i - 1 : journal'[j].id = j - 1
        BY <1>3 DEF StopIsEarned, Number
      <4> QED
        BY <2>1, <3>1, <3>2, <3>3
    <3> QED
      BY <1>3, <1>5, <3>1, <3>4, <2>1 DEF StopInv, Trusting
  <2>9. DurableInv'
    <3>1. \A k \in Nat : (\E i \in Lines : Number(i) = k) => \E i \in Lines' : Number(i)' = k
      BY <2>1 DEF Number
    <3>2. ConfirmedIsWritten'
      BY <3>1, Positions DEF DurableInv, ConfirmedIsWritten
    <3>3. state' \notin Failures => \A k \in 1 .. durable_position' : \E i \in Lines' : Number(i)' = k
      BY <1>3, <1>4, <3>1, Positions DEF DurableInv, Eases
    <3> QED
      BY <3>2, <3>3 DEF DurableInv
  <2> QED
    BY <2>3, <2>6, <2>7, <2>8, <2>9
<1> QED
  BY <1>6, <1>7, <1>8

----------------------------------------------------------------------------
(* The theorems.                                                           *)

LEMMA InitInv == Init => IInv
<1> SUFFICES ASSUME Init PROVE IInv
  OBVIOUS
<1>1. TypeOK
  <2>1. "producer_ok" \in Results
    BY DEF Results, ResultForState
  <2>2. journal \in Seq(Records)
    BY DEF Init
  <2>3. slots \in [0 .. Capacity - 1 -> Snapshots \cup {Empty}]
    BY DEF Init
  <2>4. /\ state \in States /\ producer_mutex \in Callbacks \cup {NoOne}
        /\ stop \in Stops \cup {NoStop} /\ item \in Snapshots \cup {Empty}
        /\ pc \in [Callbacks -> CallerSteps] /\ call \in [Callbacks -> Kinds \cup {"none"}]
    BY DEF Init
  <2>5. write_position - read_position <= Capacity
    BY RingAssumption DEF Init
  <2>6. /\ {read_position, write_position, durable_position, target, confirmed, submits} = {0}
        /\ faults = 0 /\ 0 \in 0 .. MaxSubmits /\ 0 \in 0 .. MaxFaults /\ 0 \in 0 .. 0
    BY BoundsAssumption DEF Init
  <2>7. /\ stable_result \in Results /\ shutdown_result \in Results \cup {"none"}
        /\ shutdown_called \in BOOLEAN /\ writer \in WriterSteps /\ sequence \in Nat
        /\ paused \in BOOLEAN
    BY <2>1 DEF Init
  <2> QED
    BY <2>2, <2>3, <2>4, <2>5, <2>6, <2>7 DEF TypeOK
<1>2. CallInv /\ StateInv
  BY CallersAssumption DEF Init, CallInv, StateInv
<1>3. RingInv
  BY DEF Init, RingInv
<1>4. Lines = {}
  BY DEF Init, Lines
<1>5. OrderInv /\ DurableInv /\ StopInv
  BY <1>4 DEF Init, OrderInv, WrittenInOrder, DurableInv, ConfirmedIsWritten, StopInv,
              StopIsEarned, Trusting
<1> QED
  BY <1>1, <1>2, <1>3, <1>5 DEF IInv

LEMMA StutterInv == IInv /\ UNCHANGED vars => IInv'
BY DEF vars, status, queue, callers, ending, writing, written, IInv, TypeOK, CallInv, RingInv,
       OrderInv, WrittenInOrder, StateInv, StopInv, Trusting, Gapless, StopIsEarned, DurableInv,
       ConfirmedIsWritten, Number, Lines

LEMMA NextInv == IInv /\ [Next]_vars => IInv'
BY StutterInv, SubmitInv, SubmitStepInv, CallsInv, OwnerInv, HeaderInv, WriteInv, WriteStopInv,
   TakeInv, LoopInv, PublishInv
   DEF Next, DiskStep, MemoryStep

\* The inductive invariant holds in every reachable state.
THEOREM Inductive == Spec => []IInv
BY InitInv, NextInv, PTL DEF Spec

\* Every variable of the producer keeps its type; the ring never holds more than its
\* slots and the writer never overtakes the callbacks.
THEOREM TypeCorrect == Spec => []TypeOK
BY Inductive, PTL DEF IInv

\* No snapshot is written twice or before an earlier one, whatever the interleaving of
\* callbacks, owner and writer and whatever the sink loses.
THEOREM OrderIsKept == Spec => []WrittenInOrder
<1>1. IInv => WrittenInOrder
  BY DEF IInv, OrderInv
<1> QED
  BY <1>1, Inductive, PTL

\* A stop line ends a journal without a gap, and what was confirmed is in the file.
THEOREM JournalStaysHonest == Spec => []JournalIsHonest
<1>1. IInv => JournalIsHonest
  BY DEF IInv, StopInv, DurableInv, JournalIsHonest
<1> QED
  BY <1>1, Inductive, PTL

-----------------------------------------------------------------------------
(* What a reader of the written files accepts (JournalBundle).             *)

Bundle == INSTANCE JournalBundle

\* What can be read while the files are replaced: each one is missing or broken, or is one
\* that some production wrote, under names of its own.
Readable(q, namings) ==
    /\ q.read = [f \in Bundle!Files |-> q.read[f]]
    /\ \A f \in Bundle!Files :
          \/ q.read[f].form \in {"missing", "damaged", "unterminated"}
          \/ \E p \in q.productions, n \in namings : q.read[f] = Bundle!Produced(p, n)[f]

\* The journal alone is accepted when it is a journal of the expected recording.
LEMMA JournalIsAccepted ==
    ASSUME NEW q, NEW namings, Readable(q, namings)
    PROVE  Bundle!JournalError(q.read["journal"], q.expected) = "none" <=>
             \E p \in q.productions : /\ q.expected \in {0, p.recording}
                                      /\ q.read["journal"] = Bundle!Journal(p)
<1>1. "journal" \in Bundle!Files
  BY DEF Bundle!Files
<1>2. CASE q.read["journal"].form \in {"missing", "damaged", "unterminated"}
  <2>1. Bundle!JournalError(q.read["journal"], q.expected) # "none"
    BY <1>2 DEF Bundle!JournalError
  <2>2. \A p \in q.productions : q.read["journal"] # Bundle!Journal(p)
    BY <1>2 DEF Bundle!Journal
  <2> QED
    BY <2>1, <2>2
<1>3. CASE q.read["journal"].form \notin {"missing", "damaged", "unterminated"}
  <2>1. PICK p \in q.productions : q.read["journal"] = Bundle!Journal(p)
    BY <1>1, <1>3 DEF Readable, Bundle!Produced
  <2>2. q.read["journal"].form = "good" /\ q.read["journal"].recording = p.recording
    BY <2>1 DEF Bundle!Journal
  <2>3. \A o \in q.productions : q.read["journal"] = Bundle!Journal(o) => o.recording = p.recording
    BY <2>1 DEF Bundle!Journal
  <2>4. Bundle!JournalError(q.read["journal"], q.expected) = "none" <=> q.expected \in {0, p.recording}
    BY <2>2 DEF Bundle!JournalError
  <2> QED
    BY <2>1, <2>3, <2>4
<1> QED
  BY <1>2, <1>3

\* The files of one production pass every test of the bundle, whatever their names.
LEMMA OneProductionIsLoaded ==
    ASSUME NEW p, NEW name, NEW read, read = Bundle!Produced(p, name)
    PROVE  /\ \A f \in Bundle!Files : read[f].form = "good"
           /\ Bundle!SameProducer(read) /\ Bundle!DigestsMatch(read)
           /\ Bundle!ReferencesMatch(read, name)
<1>1. /\ read["journal"] = Bundle!Journal(p) /\ read["session"] = Bundle!Session(p)
      /\ read["integrity"] = Bundle!Integrity(p, name) /\ read["manifest"] = Bundle!Manifest(p, name)
  BY DEF Bundle!Produced, Bundle!Files
<1>2. \A f \in Bundle!Files : read[f].form = "good" /\ read[f].recording = p.recording
  BY <1>1 DEF Bundle!Files, Bundle!Journal, Bundle!Session, Bundle!Integrity, Bundle!Manifest
<1>3. Bundle!SameProducer(read)
  BY <1>1, <1>2 DEF Bundle!SameProducer, Bundle!Files, Bundle!Journal, Bundle!Session,
     Bundle!Integrity, Bundle!Manifest
<1>4. Bundle!DigestsMatch(read)
  BY <1>1 DEF Bundle!DigestsMatch, Bundle!Files, Bundle!Integrity, Bundle!Manifest
<1>5. Bundle!ReferencesMatch(read, name)
  BY <1>1 DEF Bundle!ReferencesMatch, Bundle!Files, Bundle!Integrity, Bundle!Manifest
<1> QED
  BY <1>2, <1>3, <1>4, <1>5

\* Files that pass the tests are those of the manifest's production: its digests leave no
\* other journal, session or integrity receipt, and its references no other names.
LEMMA LoadedIsOneProduction ==
    ASSUME NEW q, NEW namings, Readable(q, namings),
           \A f \in Bundle!Files : q.read[f].form = "good",
           Bundle!DigestsMatch(q.read), Bundle!ReferencesMatch(q.read, q.name)
    PROVE  \E p \in q.productions : q.read = Bundle!Produced(p, q.name)
<1>1. PICK p \in q.productions, n \in namings : q.read["manifest"] = Bundle!Produced(p, n)["manifest"]
  BY DEF Readable, Bundle!Files
<1>2. q.read["manifest"] = Bundle!Manifest(p, n)
  BY <1>1 DEF Bundle!Produced, Bundle!Files
<1>3. \A f \in Bundle!Files \ {"manifest"} : n[f] = q.name[f]
  BY <1>2 DEF Bundle!ReferencesMatch, Bundle!Manifest
<1>4. Bundle!Integrity(p, n) = Bundle!Integrity(p, q.name)
  BY <1>3 DEF Bundle!Integrity, Bundle!Files
<1>5. Bundle!Manifest(p, n) = Bundle!Manifest(p, q.name)
  BY <1>3, <1>4 DEF Bundle!Manifest
<1>6. /\ q.read["journal"] = Bundle!Journal(p) /\ q.read["session"] = Bundle!Session(p)
      /\ q.read["integrity"] = Bundle!Integrity(p, q.name)
  BY <1>2, <1>4 DEF Bundle!DigestsMatch, Bundle!Manifest, Bundle!Files
<1>7. q.read = Bundle!Produced(p, q.name)
  BY <1>2, <1>5, <1>6 DEF Readable, Bundle!Produced, Bundle!Files
<1> QED
  BY <1>7

\* A bundle is loaded exactly when its four files are those of one production under the
\* names it wrote, and a journal alone exactly when it is one of the expected recording, for
\* any productions, any mixture of their files and any names (loader.py:219-361).
THEOREM BundlesAreWhole ==
    ASSUME NEW q, NEW namings, Readable(q, namings)
    PROVE  Bundle!BundleIsWhole(q)
<1>1. CASE Bundle!JournalError(q.read["journal"], q.expected) # "none"
  <2>1. Bundle!load_journal(q.profile, q.read, q.name, q.expected) # "loaded"
    BY <1>1 DEF Bundle!load_journal, Bundle!JournalError
  <2>2. \A p \in q.productions : q.expected \in {0, p.recording} =>
          /\ q.read["journal"] # Bundle!Journal(p)
          /\ q.read # Bundle!Produced(p, q.name)
    <3>1. \A p \in q.productions : q.expected \in {0, p.recording} => q.read["journal"] # Bundle!Journal(p)
      BY <1>1, JournalIsAccepted
    <3>2. \A p : Bundle!Produced(p, q.name)["journal"] = Bundle!Journal(p)
      BY DEF Bundle!Produced, Bundle!Files
    <3> QED
      BY <3>1, <3>2
  <2> QED
    BY <2>1, <2>2 DEF Bundle!BundleIsWhole
<1>2. CASE Bundle!JournalError(q.read["journal"], q.expected) = "none"
  <2>1. PICK o \in q.productions : q.expected \in {0, o.recording} /\ q.read["journal"] = Bundle!Journal(o)
    BY <1>2, JournalIsAccepted
  <2>2. CASE q.profile = "legacy"
    BY <1>2, <2>1, <2>2 DEF Bundle!BundleIsWhole, Bundle!load_journal
  <2>3. CASE q.profile # "legacy"
    <3>1. ASSUME Bundle!load_journal(q.profile, q.read, q.name, q.expected) = "loaded"
          PROVE  \E p \in q.productions : q.expected \in {0, p.recording} /\ q.read = Bundle!Produced(p, q.name)
      <4>1. /\ \A f \in Bundle!Files : q.read[f].form = "good"
            /\ Bundle!DigestsMatch(q.read) /\ Bundle!ReferencesMatch(q.read, q.name)
        BY <1>2, <2>3, <3>1 DEF Bundle!load_journal
      <4>2. PICK p \in q.productions : q.read = Bundle!Produced(p, q.name)
        BY <4>1, LoadedIsOneProduction
      <4>3. q.read["journal"] = Bundle!Journal(p)
        BY <4>2 DEF Bundle!Produced, Bundle!Files
      <4>4. p.recording = o.recording
        BY <4>3, <2>1 DEF Bundle!Journal
      <4> QED
        BY <4>2, <4>4, <2>1
    <3>2. ASSUME NEW p \in q.productions, q.read = Bundle!Produced(p, q.name)
          PROVE  Bundle!load_journal(q.profile, q.read, q.name, q.expected) = "loaded"
      <4>1. /\ \A f \in Bundle!Files : q.read[f].form = "good"
            /\ Bundle!SameProducer(q.read) /\ Bundle!DigestsMatch(q.read)
            /\ Bundle!ReferencesMatch(q.read, q.name)
        BY <3>2, OneProductionIsLoaded
      <4> QED
        BY <4>1, <1>2, <2>3 DEF Bundle!load_journal
    <3> QED
      BY <3>1, <3>2, <2>3 DEF Bundle!BundleIsWhole
  <2> QED
    BY <2>2, <2>3
<1> QED
  BY <1>1, <1>2
==============================================================================
