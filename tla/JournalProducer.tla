--------------------------- MODULE JournalProducer ---------------------------
(***************************************************************************)
(* The native journal producer (journal_producer.cpp): a bounded ring      *)
(* between the callbacks of a recording and the one thread that writes its *)
(* journal.                                                                *)
(*                                                                         *)
(* A callback never waits: try_push only tries the producer mutex, and a   *)
(* full ring or a mutex held by another caller fails the recording with a  *)
(* compare-and-swap of the state.  Taking the mutex, testing the state,    *)
(* storing the snapshot and the compare-and-swap are steps of their own.   *)
(* The writer reads the write position and the state without the mutex,    *)
(* each load a step.  The owner also starts, confirms, stops and shuts     *)
(* down.                                                                   *)
(*                                                                         *)
(* A snapshot is its kind and its number among the accepted ones.  An      *)
(* event stands for a calibration sample too, malformed for what try_push  *)
(* refuses and stale for a snapshot whose clock, id or text the writer     *)
(* refuses in every state.  A refused pause, resume or event depends on    *)
(* what was written before and is computed.  The lift of a stop that is a  *)
(* little early is data and left out.  A failing sink leaves nothing, a    *)
(* torn line or a whole line.                                              *)
(***************************************************************************)
EXTENDS Naturals, Sequences

CONSTANTS
    Callbacks,      \* threads that call the producer
    Owner,          \* the thread that also starts, confirms, stops and shuts down
    NoOne,          \* the producer mutex is free
    Capacity,       \* slots of the ring
    Kinds,          \* kinds of snapshots that are submitted
    MaxSubmits,     \* bound: calls of submit
    MaxFaults       \* bound: failures of the sink

ASSUME CallersAssumption == Owner \in Callbacks /\ NoOne \notin Callbacks
ASSUME RingAssumption == Capacity \in Nat \ {0}
ASSUME KindsAssumption == Kinds \subseteq {"event", "pause", "resume", "stale", "malformed"}
ASSUME BoundsAssumption == MaxSubmits \in Nat /\ MaxFaults \in Nat

Failures == {"producer_failed_queue_overflow", "producer_failed_io",
             "producer_failed_internal", "producer_failed_shutdown_timeout"}
States == Failures \cup {"not_started", "recording_active", "stop_requested",
                         "stopped_unfinalized", "closed"}

ResultForState(s) ==
    CASE s = "producer_failed_queue_overflow" -> "producer_failed_queue_overflow"
      [] s = "producer_failed_io" -> "producer_failed_io"
      [] s = "producer_failed_shutdown_timeout" -> "producer_shutdown_timeout"
      [] s = "producer_failed_internal" -> "producer_internal_error"
      [] OTHER -> "producer_ok"

Results == {ResultForState(s) : s \in States}

Numbers == 1 .. MaxSubmits
Snapshots == [kind : Kinds, id : Numbers]
Empty == [kind |-> "none", id |-> 0]

\* What the owner passes to normal_stop: paused, and behind the counter last written.
Stops == [paused : BOOLEAN, behind : BOOLEAN]
NoStop == [paused |-> FALSE]

Records == [kind : Kinds \cup {"header", "stop", "torn"}, id : Numbers \cup {0}, sequence : Nat]
Header == [kind |-> "header", id |-> 0, sequence |-> 0]

CallerSteps == {"idle", "opening", "pushing", "checked", "full", "refused", "stopping",
                "confirming", "confirmed", "expired", "joining", "overdue"}
WriterSteps == {"none", "header", "loop", "look", "empty", "unstopped", "write", "publish",
                "stop", "stopped", "end", "done"}
AtDisk == {"header", "write", "stop"}

VARIABLES
    state,              \* ProducerState
    stable_result,      \* the first failure, as a result
    producer_mutex,     \* who holds it
    slots,              \* the ring
    read_position,      \* snapshots the writer took
    write_position,     \* snapshots the callbacks stored
    durable_position,   \* snapshots the writer reports as written and flushed
    stop,               \* the stop that normal_stop leaves for the writer
    pc,                 \* step of each caller
    call,               \* the kind each caller submits
    target,             \* the position confirm_durable waits for
    confirmed,          \* highest position confirm_durable confirmed
    shutdown_called,    \* shutdown_called_
    shutdown_result,    \* shutdown_result_, none before the first shutdown returned
    writer,             \* step of the writer thread
    item,               \* the snapshot the writer took
    sequence,           \* the writer's next sequence number
    paused,             \* the writer's view of pause and resume
    journal,            \* the lines of the file
    submits, faults     \* counts for the bounds

status == <<state, stable_result>>
queue == <<producer_mutex, slots, write_position>>
callers == <<pc, call, target, confirmed, submits>>
ending == <<stop, shutdown_called, shutdown_result>>
written == <<sequence, paused, journal, durable_position>>
writing == <<writer, item, read_position, written, faults>>
vars == <<status, queue, callers, ending, writing>>

Result == IF stable_result = "producer_ok" THEN ResultForState(state) ELSE stable_result

TypeOK ==
    /\ state \in States
    /\ stable_result \in Results
    /\ producer_mutex \in Callbacks \cup {NoOne}
    /\ slots \in [0 .. Capacity - 1 -> Snapshots \cup {Empty}]
    /\ write_position \in 0 .. MaxSubmits
    /\ read_position \in 0 .. write_position
    /\ write_position - read_position <= Capacity
    /\ durable_position \in 0 .. read_position
    /\ stop \in Stops \cup {NoStop}
    /\ pc \in [Callbacks -> CallerSteps]
    /\ call \in [Callbacks -> Kinds \cup {"none"}]
    /\ target \in 0 .. MaxSubmits
    /\ confirmed \in 0 .. MaxSubmits
    /\ shutdown_called \in BOOLEAN
    /\ shutdown_result \in Results \cup {"none"}
    /\ writer \in WriterSteps
    /\ item \in Snapshots \cup {Empty}
    /\ sequence \in Nat
    /\ paused \in BOOLEAN
    /\ journal \in Seq(Records)
    /\ submits \in 0 .. MaxSubmits
    /\ faults \in 0 .. MaxFaults

Init ==
    /\ state = "not_started" /\ stable_result = "producer_ok"
    /\ producer_mutex = NoOne
    /\ slots = [i \in 0 .. Capacity - 1 |-> Empty]
    /\ read_position = 0 /\ write_position = 0 /\ durable_position = 0
    /\ stop = NoStop
    /\ pc = [c \in Callbacks |-> "idle"] /\ call = [c \in Callbacks |-> "none"]
    /\ target = 0 /\ confirmed = 0
    /\ shutdown_called = FALSE /\ shutdown_result = "none"
    /\ writer = "none" /\ item = Empty /\ sequence = 1 /\ paused = FALSE
    /\ journal = << >>
    /\ submits = 0 /\ faults = 0

-----------------------------------------------------------------------------
(***************************************************************************)
(* The state.  A compare-and-swap and the store of stable_result after it  *)
(* are one step: result() says the same between the two, unless a shutdown *)
(* gives up exactly there, which is left out.                              *)
(***************************************************************************)

\* The states set_primary_failure leaves; every other is final for it.
Undecided == {"not_started", "recording_active", "stop_requested"}

FailFrom(from, failure) ==
    IF state \in from
    THEN state' = failure /\ stable_result' = ResultForState(failure)
    ELSE UNCHANGED status

SetPrimaryFailure(failure) == FailFrom(Undecided, failure)

Go(c, step) == pc' = [pc EXCEPT ![c] = step]

\* A submission that goes on keeps its snapshot.
Proceed(c, step) ==
    /\ Go(c, step)
    /\ call' = IF step = "checked" THEN call ELSE [call EXCEPT ![c] = "none"]

-----------------------------------------------------------------------------
(***************************************************************************)
(* start_recording.  The owner waits for the header without a deadline.    *)
(***************************************************************************)

\* An id or a journal name the producer refuses, or a sink that cannot be created.
StartFails ==
    /\ pc[Owner] = "idle" /\ state = "not_started"
    /\ \/ SetPrimaryFailure("producer_failed_internal") /\ UNCHANGED faults
       \/ /\ faults < MaxFaults /\ faults' = faults + 1
          /\ SetPrimaryFailure("producer_failed_io")
    /\ UNCHANGED <<queue, callers, ending, writer, item, read_position, written>>

Start ==
    /\ pc[Owner] = "idle" /\ state = "not_started"
    /\ writer' = "header"
    /\ Go(Owner, "opening")
    /\ UNCHANGED <<status, queue, call, target, confirmed, submits, ending, item, read_position,
                   written, faults>>

Started ==
    /\ pc[Owner] = "opening" /\ writer # "header"
    /\ Go(Owner, "idle")
    /\ UNCHANGED <<status, queue, call, target, confirmed, submits, ending, writing>>

-----------------------------------------------------------------------------
(***************************************************************************)
(* submit.                                                                 *)
(***************************************************************************)

Submit(c, k) ==
    /\ pc[c] = "idle" /\ submits < MaxSubmits
    /\ submits' = submits + 1
    /\ IF producer_mutex = NoOne
       THEN producer_mutex' = c /\ Go(c, "pushing") /\ call' = [call EXCEPT ![c] = k]
       ELSE Go(c, "refused") /\ UNCHANGED <<producer_mutex, call>>
    /\ UNCHANGED <<status, slots, write_position, target, confirmed, ending, writing>>

\* The state and the shape of the snapshot are tested; a refusal frees the mutex.
CheckState(c) ==
    /\ pc[c] = "pushing"
    /\ \/ /\ state # "recording_active"
          /\ Proceed(c, "idle") /\ producer_mutex' = NoOne
       \/ /\ state = "recording_active" /\ call[c] = "malformed"
          /\ Proceed(c, "refused") /\ producer_mutex' = NoOne
       \/ /\ state = "recording_active" /\ call[c] # "malformed"
          /\ Proceed(c, "checked") /\ UNCHANGED producer_mutex
    /\ UNCHANGED <<status, slots, write_position, target, confirmed, submits, ending, writing>>

Enqueue(c) ==
    /\ pc[c] = "checked"
    /\ producer_mutex' = NoOne
    /\ IF write_position - read_position >= Capacity
       THEN Proceed(c, "full") /\ UNCHANGED <<slots, write_position>>
       ELSE /\ slots' = [slots EXCEPT ![write_position % Capacity] =
                            [kind |-> call[c], id |-> write_position + 1]]
            /\ write_position' = write_position + 1
            /\ Proceed(c, "idle")
    /\ UNCHANGED <<status, target, confirmed, submits, ending, writing>>

\* A full ring or an internal error fails a recording that is still active.
Reject(c) ==
    /\ \/ pc[c] = "full" /\ FailFrom({"recording_active"}, "producer_failed_queue_overflow")
       \/ pc[c] = "refused" /\ FailFrom({"recording_active"}, "producer_failed_internal")
    /\ Go(c, "idle")
    /\ UNCHANGED <<queue, call, target, confirmed, submits, ending, writing>>

-----------------------------------------------------------------------------
(***************************************************************************)
(* confirm_durable: wait until what is stored now is written, or give up   *)
(* after a second and fail the recording.                                  *)
(***************************************************************************)

Confirm ==
    /\ pc[Owner] = "idle"
    /\ target' = write_position
    /\ Go(Owner, "confirming")
    /\ UNCHANGED <<status, queue, call, confirmed, submits, ending, writing>>

Settled == durable_position >= target \/ state # "recording_active"

ConfirmWakes ==
    /\ pc[Owner] = "confirming" /\ Settled
    /\ Go(Owner, "confirmed")
    /\ UNCHANGED <<status, queue, call, target, confirmed, submits, ending, writing>>

\* Mutant: a wait without a deadline.
ConfirmExpires_Never == FALSE /\ UNCHANGED vars

ConfirmExpires ==
    /\ pc[Owner] = "confirming" /\ ~Settled
    /\ Go(Owner, "expired")
    /\ UNCHANGED <<status, queue, call, target, confirmed, submits, ending, writing>>

\* The position is read again, after the wait and its lock.
ConfirmReturns ==
    /\ pc[Owner] \in {"confirmed", "expired"}
    /\ \/ /\ durable_position >= target
          /\ confirmed' = IF Result = "producer_ok" /\ target > confirmed THEN target ELSE confirmed
          /\ UNCHANGED status
       \/ /\ durable_position < target
          /\ IF pc[Owner] = "expired" THEN SetPrimaryFailure("producer_failed_internal")
             ELSE UNCHANGED status
          /\ UNCHANGED confirmed
    /\ Go(Owner, "idle") /\ target' = 0
    /\ UNCHANGED <<queue, call, submits, ending, writing>>

-----------------------------------------------------------------------------
(***************************************************************************)
(* normal_stop: under the mutex, with the compare-and-swap as a step.      *)
(***************************************************************************)

\* The path is not the one of the recording; before the start no path is.
StopElsewhere ==
    /\ pc[Owner] = "idle"
    /\ SetPrimaryFailure("producer_failed_internal")
    /\ UNCHANGED <<queue, callers, ending, writing>>

NormalStop(s) ==
    /\ pc[Owner] = "idle" /\ producer_mutex = NoOne
    /\ state = "recording_active"
    /\ producer_mutex' = Owner
    /\ stop' = s
    /\ Go(Owner, "stopping")
    /\ UNCHANGED <<status, slots, write_position, call, target, confirmed, submits,
                   shutdown_called, shutdown_result, writing>>

StopLinearises ==
    /\ pc[Owner] = "stopping"
    /\ IF state = "recording_active"
       THEN state' = "stop_requested" /\ UNCHANGED stop
       ELSE stop' = NoStop /\ UNCHANGED state
    /\ producer_mutex' = NoOne
    /\ Go(Owner, "idle")
    /\ UNCHANGED <<stable_result, slots, write_position, call, target, confirmed, submits,
                   shutdown_called, shutdown_result, writing>>

-----------------------------------------------------------------------------
(***************************************************************************)
(* shutdown.  A second call returns what the first one returned.           *)
(***************************************************************************)

Shutdown ==
    /\ pc[Owner] = "idle" /\ ~shutdown_called
    /\ shutdown_called' = TRUE
    /\ IF state = "not_started" THEN state' = "closed" /\ UNCHANGED stable_result
       ELSE FailFrom({"recording_active"}, "producer_failed_internal")
    /\ Go(Owner, "joining")
    /\ UNCHANGED <<queue, call, target, confirmed, submits, stop, shutdown_result, writing>>

\* The writer ended, or there never was one.
Join ==
    /\ pc[Owner] = "joining" /\ writer \in {"none", "done"}
    /\ state' = IF state = "stopped_unfinalized" THEN "closed" ELSE state
    /\ shutdown_result' = Result
    /\ Go(Owner, "idle")
    /\ UNCHANGED <<stable_result, queue, call, target, confirmed, submits, stop, shutdown_called,
                   writing>>

JoinExpires ==
    /\ pc[Owner] = "joining" /\ writer \notin {"none", "done"}
    /\ Go(Owner, "overdue")
    /\ UNCHANGED <<status, queue, call, target, confirmed, submits, ending, writing>>

\* The thread is detached; the writer goes on with what it holds.
GiveUp ==
    /\ pc[Owner] = "overdue"
    /\ state' = IF state \in {"producer_failed_internal", "stop_requested", "recording_active"}
                THEN "producer_failed_shutdown_timeout" ELSE state
    /\ shutdown_result' = "producer_shutdown_timeout"
    /\ Go(Owner, "idle")
    /\ UNCHANGED <<stable_result, queue, call, target, confirmed, submits, stop, shutdown_called,
                   writing>>

-----------------------------------------------------------------------------
(***************************************************************************)
(* The writer thread.                                                      *)
(***************************************************************************)

Line(kind, id) == [kind |-> kind, id |-> id, sequence |-> sequence]

\* Mutant: the failure of a write goes unnoticed.
FailingWrite_Unnoticed(line) ==
    /\ faults < MaxFaults /\ faults' = faults + 1
    /\ journal' \in {journal, Append(journal, Line("torn", 0)), Append(journal, line)}
    /\ UNCHANGED <<status, sequence, paused, durable_position>>

\* A failing write leaves nothing, a part of the line, or a line that was not flushed.
FailingWrite(line) ==
    /\ faults < MaxFaults /\ faults' = faults + 1
    /\ journal' \in {journal, Append(journal, Line("torn", 0)), Append(journal, line)}
    /\ SetPrimaryFailure("producer_failed_io")
    /\ UNCHANGED <<sequence, paused, durable_position>>

WriteHeader ==
    /\ writer = "header"
    /\ \/ /\ journal' = Append(journal, Header)
          /\ IF state = "not_started" THEN state' = "recording_active" /\ UNCHANGED stable_result
             ELSE SetPrimaryFailure("producer_failed_internal")
          /\ UNCHANGED <<sequence, paused, durable_position, faults>>
       \/ FailingWrite(Header)
    /\ writer' = "loop"
    /\ UNCHANGED <<queue, callers, ending, item, read_position>>

Running == {"recording_active", "stop_requested", "producer_failed_queue_overflow"}

Loop ==
    /\ writer = "loop"
    /\ writer' = IF state \in Running THEN "look" ELSE "end"
    /\ UNCHANGED <<status, queue, callers, ending, item, read_position, written, faults>>

\* Mutant: the read position is not advanced.
Take_Again ==
    /\ writer = "look" /\ read_position < write_position
    /\ item' = slots[read_position % Capacity]
    /\ writer' = "write"
    /\ UNCHANGED <<status, queue, callers, ending, read_position, written, faults>>

Take ==
    /\ writer = "look" /\ read_position < write_position
    /\ item' = slots[read_position % Capacity]
    /\ slots' = [slots EXCEPT ![read_position % Capacity] = Empty]
    /\ read_position' = read_position + 1
    /\ writer' = "write"
    /\ UNCHANGED <<status, producer_mutex, write_position, callers, ending, written, faults>>

FindEmpty ==
    /\ writer = "look" /\ read_position = write_position
    /\ writer' = "empty"
    /\ UNCHANGED <<status, queue, callers, ending, item, read_position, written, faults>>

\* The two loads of the state after the ring was found empty.
AskStop ==
    /\ writer = "empty"
    /\ writer' = IF state = "stop_requested" THEN "stop" ELSE "unstopped"
    /\ UNCHANGED <<status, queue, callers, ending, item, read_position, written, faults>>

AskActive ==
    /\ writer = "unstopped"
    /\ writer' = IF state = "recording_active" THEN "loop" ELSE "end"
    /\ UNCHANGED <<status, queue, callers, ending, item, read_position, written, faults>>

Refused(i) ==
    \/ i.kind = "stale"
    \/ i.kind \in {"pause", "event"} /\ paused
    \/ i.kind = "resume" /\ ~paused

Refuse ==
    /\ writer = "write" /\ Refused(item)
    /\ SetPrimaryFailure("producer_failed_internal")
    /\ item' = Empty
    /\ writer' = "loop"
    /\ UNCHANGED <<queue, callers, ending, read_position, written, faults>>

Write ==
    /\ writer = "write" /\ ~Refused(item)
    /\ journal' = Append(journal, Line(item.kind, item.id))
    /\ writer' = "publish"
    /\ UNCHANGED <<status, queue, callers, ending, item, read_position, sequence, paused,
                   durable_position, faults>>

WriteFails ==
    /\ writer = "write" /\ ~Refused(item)
    /\ FailingWrite(Line(item.kind, item.id))
    /\ item' = Empty
    /\ writer' = "loop"
    /\ UNCHANGED <<queue, callers, ending, read_position>>

Publish ==
    /\ writer = "publish"
    /\ durable_position' = read_position
    /\ sequence' = sequence + 1
    /\ paused' = (item.kind = "pause" \/ (item.kind # "resume" /\ paused))
    /\ item' = Empty
    /\ writer' = "loop"
    /\ UNCHANGED <<status, queue, callers, ending, read_position, journal, faults>>

\* The stop fits what was written; the first record has nothing to be behind of.
StopFits == stop \in Stops /\ stop.paused = paused /\ (stop.behind => sequence = 1)

WriteStop ==
    /\ writer = "stop"
    /\ \/ /\ ~StopFits
          /\ SetPrimaryFailure("producer_failed_internal")
          /\ writer' = "end"
          /\ UNCHANGED <<written, faults>>
       \/ /\ StopFits
          /\ journal' = Append(journal, Line("stop", 0))
          /\ writer' = "stopped"
          /\ UNCHANGED <<status, sequence, paused, durable_position, faults>>
       \/ /\ StopFits
          /\ FailingWrite(Line("stop", 0))
          /\ writer' = "end"
    /\ UNCHANGED <<queue, callers, ending, item, read_position>>

Stopped ==
    /\ writer = "stopped"
    /\ state' = IF state = "stop_requested" THEN "stopped_unfinalized" ELSE state
    /\ writer' = "end"
    /\ UNCHANGED <<stable_result, queue, callers, ending, item, read_position, written, faults>>

FinishWriter ==
    /\ writer = "end"
    /\ writer' = "done"
    /\ UNCHANGED <<status, queue, callers, ending, item, read_position, written, faults>>

-----------------------------------------------------------------------------
SubmitStep(c) == CheckState(c) \/ Enqueue(c) \/ Reject(c)

OwnerStep ==
    \/ Started \/ ConfirmWakes \/ ConfirmExpires \/ ConfirmReturns
    \/ StopLinearises \/ Join \/ JoinExpires \/ GiveUp

OwnerCall ==
    \/ StartFails \/ Start \/ Confirm \/ StopElsewhere \/ Shutdown
    \/ \E s \in Stops : NormalStop(s)

DiskStep == WriteHeader \/ Refuse \/ Write \/ WriteFails \/ WriteStop

MemoryStep ==
    Loop \/ Take \/ FindEmpty \/ AskStop \/ AskActive \/ Publish \/ Stopped \/ FinishWriter

Next ==
    \/ \E c \in Callbacks : SubmitStep(c) \/ \E k \in Kinds : Submit(c, k)
    \/ OwnerCall \/ OwnerStep
    \/ DiskStep \/ MemoryStep

Spec == Init /\ [][Next]_vars

\* A caller goes on with its call, and the writer with everything but the
\* disk: a write may block for ever.
FairSpec ==
    /\ Spec
    /\ \A c \in Callbacks : WF_vars(SubmitStep(c))
    /\ WF_vars(OwnerStep)
    /\ WF_vars(MemoryStep)

-----------------------------------------------------------------------------
(***************************************************************************)
(* Safety.                                                                 *)
(***************************************************************************)

Number(i) == journal[i].id
Lines == DOMAIN journal

\* No snapshot is written twice or before an earlier one, whatever was lost
\* to a failure on the way (contract 2: handed over in order).
WrittenInOrder ==
    \A i, j \in Lines : i < j /\ Number(i) # 0 /\ Number(j) # 0 => Number(i) < Number(j)

\* A stop record ends a journal without a gap: header, the first snapshots in
\* order with their sequence numbers and no torn line; an overflow did not win
\* against the stop (contract 7.2 and 8).  A stop line that could not be flushed
\* may stand there although the recording failed.
StopIsEarned ==
    \A i \in Lines : journal[i].kind = "stop" =>
        /\ i = Len(journal)
        /\ \A j \in 1 .. i : journal[j].sequence = j - 1
        /\ \A j \in 2 .. i - 1 : Number(j) = j - 1
        /\ stable_result # "producer_failed_queue_overflow"

\* What confirm_durable confirmed is in the file.
ConfirmedIsWritten == \A n \in 1 .. confirmed : \E i \in Lines : Number(i) = n

\* The journal keeps both promises: what its stop line says of the whole file and
\* what a confirmation said of one record.
JournalIsHonest == StopIsEarned /\ ConfirmedIsWritten

-----------------------------------------------------------------------------
(***************************************************************************)
(* Why the properties hold: the inductive invariant.                       *)
(***************************************************************************)

\* A submission is made by the holder of the mutex and was counted.
CallInv ==
    /\ \A c \in Callbacks : pc[c] \in {"pushing", "checked"} =>
           producer_mutex = c /\ call[c] \in Kinds /\ write_position < submits
    /\ pc[Owner] = "stopping" => producer_mutex = Owner
    /\ write_position <= submits

\* The slots between the two positions hold the snapshots of these numbers, and the
\* writer has the one before them in hand.
RingInv ==
    /\ \A i \in read_position .. write_position - 1 :
           slots[i % Capacity] \in Snapshots /\ slots[i % Capacity].id = i + 1
    /\ writer \in {"write", "publish"} => item \in Snapshots /\ item.id = read_position

\* Nothing in the file is newer than what the writer took.
OrderInv ==
    /\ \A i \in Lines : Number(i) <= read_position
    /\ writer = "write" => \A i \in Lines : Number(i) < read_position
    /\ WrittenInOrder

\* Before the header there is nothing; the owner waits for it, and no state that is
\* not a failure finds a writer at work but these two.
StateInv ==
    /\ state = "not_started" => writer \in {"none", "header"}
    /\ writer = "header" => state = "not_started" /\ pc[Owner] = "opening"
    /\ writer \in {"none", "header"} =>
           /\ state \notin {"recording_active", "stop_requested"}
           /\ journal = << >> /\ sequence = 1 /\ read_position = 0
    /\ state \in {"stopped_unfinalized", "closed"} => writer \in {"none", "end", "done"}
    /\ state \notin Failures => stable_result = "producer_ok"

\* The writer still counts on every line before it: no failure stopped it, or it
\* read an accepted stop.
Trusting ==
    \/ writer = "stop"
    \/ /\ state \in {"recording_active", "stop_requested"}
       /\ writer \in {"loop", "look", "empty", "unstopped", "write", "publish"}

\* Header and snapshots without a gap, up to the one in hand.
Gapless ==
    /\ Len(journal) = IF writer = "publish" THEN sequence + 1 ELSE sequence
    /\ read_position + 1 = IF writer \in {"write", "publish"} THEN sequence + 1 ELSE sequence
    /\ \A i \in Lines :
           Number(i) = i - 1 /\ journal[i].sequence = i - 1 /\ journal[i].kind # "stop"

StopInv ==
    /\ Trusting => Gapless
    /\ (writer = "stop" \/ \E i \in Lines : journal[i].kind = "stop") =>
           state # "recording_active" /\ stable_result # "producer_failed_queue_overflow"
    /\ \A i \in Lines : journal[i].kind = "stop" => writer \in {"stopped", "end", "done"}
    /\ StopIsEarned

DurableInv ==
    /\ state \notin Failures => \A n \in 1 .. durable_position : \E i \in Lines : Number(i) = n
    /\ ConfirmedIsWritten

IInv == TypeOK /\ CallInv /\ RingInv /\ OrderInv /\ StateInv /\ StopInv /\ DurableInv

-----------------------------------------------------------------------------
(***************************************************************************)
(* Liveness.                                                               *)
(***************************************************************************)

\* A confirmation, a stop and a shutdown return even if the disk never answers;
\* start_recording, which has no deadline, need not.
CallsReturn == (pc[Owner] \notin {"idle", "opening"}) ~> (pc[Owner] = "idle")

\* Once the recording is over the writer ends, unless the disk holds it.
WriterEnds ==
    \/ <>[](writer \in AtDisk)
    \/ (writer # "none" /\ state \notin {"not_started", "recording_active"}) ~> (writer = "done")

\* Callers and writer come to their end (contract 10.1, 13).
EverythingEnds == CallsReturn /\ WriterEnds

-----------------------------------------------------------------------------
(***************************************************************************)
(* Claims that do not hold.                                                *)
(***************************************************************************)

\* A complete journal holds every accepted snapshot: no silent loss (contract
\* 2), an ordered drain of everything accepted before (contract 13).
StopIsComplete ==
    (\E i \in Lines : journal[i].kind = "stop") =>
        \A n \in 1 .. write_position : \E i \in Lines : Number(i) = n

\* A shutdown that reports success after an accepted stop leaves a stop record.
SuccessHasStop ==
    (shutdown_result = "producer_ok" /\ stop # NoStop) =>
        \E i \in Lines : journal[i].kind = "stop"

=============================================================================
