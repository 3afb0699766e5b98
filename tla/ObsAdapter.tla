------------------------------ MODULE ObsAdapter ------------------------------
(***************************************************************************)
(* The OBS plugin (obs_plugin.cpp, obs_adapter.cpp): callbacks of three    *)
(* threads of OBS, one worker that owns the journal producer, and unload.  *)
(*                                                                         *)
(* A callback passes a counted gate, captures values, tries the command    *)
(* mutex once and queues a command with a number of a common order.  The   *)
(* worker takes the command with the smallest number of three bounded      *)
(* queues.  Every call of a callback that fails asks for a forced cleanup  *)
(* with a flag that is stored, and notified, without the mutex.  Condition *)
(* variables are modelled with the step between a test that failed and     *)
(* the sleep: a notification in between wakes nobody.                      *)
(*                                                                         *)
(* The clock and the frame counter are one number; the encoder's backlog   *)
(* between them is left out.  What OBS, the disk, the producer and the     *)
(* creation of ids may refuse, and a try of the mutex that finds it taken,  *)
(* is a fault, bounded by MaxFaults.  The                                  *)
(* worker holds the mutex until it sleeps; any other critical section is   *)
(* one step, and whoever may be inside one makes another one's try fail.   *)
(* A callback enters and captures in one step, a tick in two; it queues in *)
(* the next and leaves in the last.                                        *)
(***************************************************************************)
EXTENDS Integers, Sequences

CONSTANTS
    ControlCapacity,    \* control_command_capacity
    SceneCapacity,      \* scene_change_command_capacity
    Interval,           \* calibration_interval
    MaxNow,             \* bound: video frames that advance the clock
    MaxRecordings,      \* bound: recordings the user starts
    MaxSignals,         \* bound: pauses, resumes and scene changes
    MaxFaults           \* bound: refusals of OBS, disk and producer

ASSUME CapacityAssumption == ControlCapacity \in Nat \ {0} /\ SceneCapacity \in Nat \ {0}
ASSUME BoundsAssumption ==
    /\ Interval \in Nat \ {0}
    /\ MaxNow \in Nat /\ MaxRecordings \in Nat /\ MaxSignals \in Nat /\ MaxFaults \in Nat

\* The frontend runs on the user interface's thread, ticks on the graphics
\* thread, output signals on the thread of the recording output.
Callers == {"ui", "video", "output"}

States == {"unloaded", "idle", "start_pending", "active", "paused", "stopping", "failed",
           "unloading"}
Ended == {"idle", "stopping", "failed", "unloading", "unloaded"}

Events == {"recording_starting", "scene", "tick", "start", "pause", "resume", "stop"}
Commands == [kind : Events \cup {"anchor"}, order : Nat, at : Nat, code : BOOLEAN]
NoCommand == [kind |-> "none"]
NoClock == MaxNow + 1

VARIABLES
    state,          \* state_
    gate,           \* callback_gate_: closed and the callbacks inside
    bound,          \* bound_callbacks_in_flight_
    cb,             \* per thread: step, event and captured clock
    control, clock, scenes,     \* the queues of commands
    next_order,     \* next_command_order_
    last_clock,     \* last_linearized_command_clock_
    forced,         \* forced_shutdown_
    unload_requested,
    run,            \* the atomics of a run
    producer,       \* the producer: open and the records it accepted
    host,           \* NativeObsHost: callbacks, output reference, signals, module reference
    worker,         \* step of the worker and what it works on
    report,         \* last_report_
    obs,            \* OBS: phase of the recording and the signals it sent
    now,            \* video frame time and frame counter
    recordings, signals, faults     \* counts for the bounds

queues == <<control, clock, scenes, next_order, last_clock>>
flags == <<forced, unload_requested>>
bounds == <<recordings, signals>>
vars == <<state, gate, bound, cb, queues, flags, run, producer, host, worker, report,
          obs, now, bounds, faults>>

NoRun == [accepting |-> FALSE, origin |-> 0, claimed |-> FALSE, accepted |-> FALSE,
          paused |-> FALSE, pending |-> 0, pause_seen |-> FALSE, due |-> NoClock]
\* Of the records the producer accepted: whether there are a start and a stop, the
\* pauses and resumes, the last order and whether the orders grew.
NoProducer == [open |-> FALSE, started |-> FALSE, controls |-> <<>>, stopped |-> FALSE,
               last |-> 0, ordered |-> TRUE]
NoReport == [successful |-> FALSE, records |-> NoProducer, sent |-> <<>>]
Out == [pc |-> "out", ev |-> "none", at |-> 0, code |-> TRUE]

\* A step of the worker that works on nothing.
At(step) == [pc |-> step, cmd |-> NoCommand, counter |-> "none", then |-> "none",
             back |-> "none", next |-> "none"]

CallbackSteps == {"out", "checked", "captured", "leaving",
                  "requesting", "waiting", "unloaded"}
WorkerSteps == {"off", "wait", "commit", "asleep", "process", "publish", "drain",
                "drain_commit", "drain_asleep", "authorize", "finish", "cleanup", "unload",
                "release", "exit", "done"}

Pauses == {"pause", "resume"}
Runs == [accepting : BOOLEAN, origin : Int, claimed : BOOLEAN, accepted : BOOLEAN,
         paused : BOOLEAN, pending : Nat, pause_seen : BOOLEAN, due : Int]
Producers == [open : BOOLEAN, started : BOOLEAN, controls : Seq(Pauses), stopped : BOOLEAN,
              last : Nat, ordered : BOOLEAN]

TypeOK ==
    /\ state \in States
    /\ gate \in [closed : BOOLEAN, count : 0 .. 3]
    /\ bound \in 0 .. 3
    /\ cb \in [Callers -> [pc : CallbackSteps, ev : Events \cup {"none"}, at : 0 .. NoClock,
                           code : BOOLEAN]]
    /\ control \in Seq(Commands) /\ Len(control) <= ControlCapacity
    /\ clock \in Commands \cup {NoCommand}
    /\ scenes \in Seq(Commands) /\ Len(scenes) <= SceneCapacity
    /\ next_order \in Nat
    /\ last_clock \in 0 .. NoClock
    /\ forced \in BOOLEAN /\ unload_requested \in BOOLEAN
    /\ run \in Runs
    /\ producer \in Producers
    /\ host \in [installed : BOOLEAN, reference : BOOLEAN, connected : BOOLEAN, pinned : BOOLEAN]
    /\ worker \in [pc : WorkerSteps, cmd : Commands \cup {NoCommand},
                   counter : {"none", "gate", "bound"}, then : WorkerSteps \cup {"none"},
                   back : {"none", "wait", "exit"}, next : {"none", "active", "paused"}]
    /\ report \in [successful : BOOLEAN, records : Producers, sent : Seq(Pauses)]
    /\ obs \in [phase : {"off", "starting", "on", "paused"}, ours : BOOLEAN, sent : Seq(Pauses)]
    /\ now \in 0 .. MaxNow
    /\ recordings \in Nat /\ signals \in Nat /\ faults \in Nat

Init ==
    /\ state = "unloaded"
    /\ gate = [closed |-> TRUE, count |-> 0]
    /\ bound = 0
    /\ cb = [c \in Callers |-> Out]
    /\ control = <<>> /\ clock = NoCommand /\ scenes = <<>>
    /\ next_order = 1
    /\ last_clock = NoClock
    /\ forced = FALSE /\ unload_requested = FALSE
    /\ run = NoRun
    /\ producer = NoProducer
    /\ host = [installed |-> FALSE, reference |-> FALSE, connected |-> FALSE, pinned |-> FALSE]
    /\ worker = At("off")
    /\ report = NoReport
    /\ obs = [phase |-> "off", ours |-> FALSE, sent |-> <<>>]
    /\ now = 0
    /\ recordings = 0 /\ signals = 0 /\ faults = 0

-----------------------------------------------------------------------------
(* Faults and notifications *)

\* A call that may be refused: ok says whether it was.
MayFail(ok) == /\ ok \/ faults < MaxFaults
               /\ faults' = IF ok THEN faults ELSE faults + 1

\* command_changed_.notify_one wakes the worker only when it already sleeps.
NotifyCommand(w) == IF w.pc = "asleep" THEN [w EXCEPT !.pc = "wait"] ELSE w

\* callback_finished_.notify_all does the same for a worker that waits for callbacks.
NotifyFinished(w) == IF w.pc = "drain_asleep" THEN [w EXCEPT !.pc = "drain"] ELSE w

\* What queue_forced_failure stores and notifies, without the mutex.
ForceFailure ==
    /\ run' = [run EXCEPT !.accepting = FALSE]
    /\ forced' = TRUE
    /\ worker' = NotifyCommand(worker)

-----------------------------------------------------------------------------
(* Loading *)

\* obs_module_load: the functions of OBS are resolved, then the adapter is loaded.
ModuleLoad(resolved) == resolved

\* retain_current_module: a reference of its own for the callbacks and for the worker.
RetainModule(h) == [h EXCEPT !.pinned = TRUE]

\* NativeObsHost::install_callbacks.
InstallCallbacks(h) == [h EXCEPT !.installed = TRUE]

\* load: a failed installation stops the worker again; the module is then given back.
Load ==
    /\ worker.pc = "off"
    /\ \E ok \in BOOLEAN :
        /\ MayFail(ok)
        /\ IF ModuleLoad(ok)
           THEN /\ state' = "idle"
                /\ gate' = [closed |-> FALSE, count |-> 0]
                /\ host' = InstallCallbacks(RetainModule(host))
                /\ worker' = [worker EXCEPT !.pc = "wait"]
           ELSE /\ worker' = [worker EXCEPT !.pc = "done"]
                /\ UNCHANGED <<state, gate, host>>
    /\ UNCHANGED <<bound, cb, queues, flags, run, producer, report, obs, now, bounds>>

-----------------------------------------------------------------------------
(* Entering and leaving a callback *)

IsBound(ev) == ev # "recording_starting"

Thread(ev) == CASE ev = "tick" -> "video"
                [] ev \in {"recording_starting", "scene"} -> "ui"
                [] OTHER -> "output"

Registered(ev) == IF Thread(ev) = "output" THEN host.connected ELSE host.installed

\* What OBS sends next: the output follows start, pause, resume, stop; a start
\* that fails stops at once.  A pause or scene change nobody is registered for is left out.
Sends(ev) ==
    \/ ev = "tick"
    \/ ev = "recording_starting" /\ obs.phase = "off" /\ recordings < MaxRecordings
    \/ ev = "start" /\ obs.phase = "starting"
    \/ /\ Registered(ev) /\ signals < MaxSignals
       /\ \/ ev = "scene"
          \/ ev = "pause" /\ obs.phase = "on"
          \/ ev = "resume" /\ obs.phase = "paused"
    \/ ev = "stop" /\ obs.phase \in {"starting", "on", "paused"}

PhaseAfter(ev) == CASE ev = "recording_starting" -> "starting"
                    [] ev \in {"start", "resume"} -> "on"
                    [] ev = "pause" -> "paused"
                    [] ev = "stop" -> "off"
                    [] OTHER -> obs.phase

Listening(ev) == Registered(ev) /\ ~gate.closed

\* Only an idle adapter takes a recording up.
Binds(ev) == ev = "recording_starting" /\ Listening(ev) /\ state = "idle"

\* OBS goes on, whether or not the adapter listens.
Signal(ev) ==
    /\ Sends(ev)
    /\ worker.pc # "off"
    /\ cb[Thread(ev)].pc = "out"
    /\ obs' = [phase |-> PhaseAfter(ev),
               ours |-> IF ev = "recording_starting" THEN Binds(ev) ELSE obs.ours /\ ev # "stop",
               sent |-> CASE Binds(ev) -> <<>>
                          [] ev \in {"pause", "resume"} /\ obs.ours -> Append(obs.sent, ev)
                          [] OTHER -> obs.sent]
    /\ recordings' = IF ev = "recording_starting" THEN recordings + 1 ELSE recordings
    /\ signals' = IF ev \in {"scene", "pause", "resume"} THEN signals + 1 ELSE signals
    /\ now' = IF ev = "tick" /\ now < MaxNow /\ obs.phase = "on" THEN now + 1 ELSE now

\* enter_callback: a callback counts in the gate, and a second time when it uses the output.
Enter(ev) ==
    /\ Signal(ev) /\ Listening(ev)
    /\ gate' = [gate EXCEPT !.count = @ + 1]
    /\ bound' = IF IsBound(ev) THEN bound + 1 ELSE bound

\* Nobody is registered, or the gate is closed.
TurnedAway(ev) ==
    /\ Signal(ev) /\ ~Listening(ev)
    /\ UNCHANGED <<state, gate, bound, cb, queues, flags, run, producer, host, worker, report,
                   faults>>

\* leave_callback: the last one out notifies, without callback_wait_mutex_.
Leave_Silent(c) ==
    /\ cb[c].pc = "leaving"
    /\ bound' = IF IsBound(cb[c].ev) THEN bound - 1 ELSE bound
    /\ gate' = [gate EXCEPT !.count = @ - 1]
    /\ cb' = [cb EXCEPT ![c] = Out]
    /\ worker' = worker
    /\ UNCHANGED <<state, queues, flags, run, producer, host, report, obs, now, bounds,
                   faults>>

Leave(c) ==
    /\ cb[c].pc = "leaving"
    /\ bound' = IF IsBound(cb[c].ev) THEN bound - 1 ELSE bound
    /\ gate' = [gate EXCEPT !.count = @ - 1]
    /\ cb' = [cb EXCEPT ![c] = Out]
    /\ worker' = IF bound' = 0 \/ gate'.count = 0 THEN NotifyFinished(worker) ELSE worker
    /\ UNCHANGED <<state, queues, flags, run, producer, host, report, obs, now, bounds,
                   faults>>

Leaves(c) == cb' = [cb EXCEPT ![c].pc = "leaving"]
Returns(ev) == cb' = [cb EXCEPT ![Thread(ev)].pc = "leaving", ![Thread(ev)].ev = ev]
Holds(ev, at) == cb' = [cb EXCEPT ![Thread(ev)].pc = "captured", ![Thread(ev)].ev = ev,
                                  ![Thread(ev)].at = at]

-----------------------------------------------------------------------------
(* The bodies of the callbacks: capture, try the mutex, queue *)

\* NativeObsHost::acquire_recording_output and release_recording_output.
AcquireOutput(h) == [h EXCEPT !.reference = TRUE]
ReleaseOutput(h) == [h EXCEPT !.reference = FALSE, !.connected = FALSE]
\* NativeObsHost::connect_recording_output_signals and disconnect_recording_output_signals.
ConnectSignals(h) == [h EXCEPT !.connected = TRUE]
DisconnectSignals(h) == [h EXCEPT !.connected = FALSE]

\* RECORDING_STARTING: only an idle adapter binds the output of the recording.
OnRecordingStarting ==
    /\ Enter("recording_starting")
    /\ Returns("recording_starting")
    /\ IF state # "idle" THEN UNCHANGED <<state, host, run, faults>>
       ELSE \/ /\ MayFail(FALSE)            \* no output: back to idle
               /\ UNCHANGED <<state, host, run>>
            \/ /\ MayFail(FALSE)            \* the signals cannot be connected
               /\ run' = [run EXCEPT !.paused = FALSE, !.pending = 0, !.pause_seen = FALSE]
               /\ host' = ReleaseOutput(AcquireOutput(host))
               /\ UNCHANGED state
            \/ /\ MayFail(TRUE)
               /\ run' = [run EXCEPT !.paused = FALSE, !.pending = 0, !.pause_seen = FALSE]
               /\ host' = ConnectSignals(AcquireOutput(host))
               /\ state' = "start_pending"
    /\ UNCHANGED <<queues, flags, producer, worker, report>>

\* A run that takes samples: what tick and scene callbacks ask before and under the mutex.
Sampling == state = "active" /\ run.accepting /\ ~run.paused /\ run.pending = 0

\* capture_clock, capture_recording_output: no clock without an output.
Captures(ok) == /\ IF host.reference THEN MayFail(ok) ELSE ~ok /\ UNCHANGED faults

\* A tick asks for a sampling run, captures, and asks again.  A failed capture fails the run,
\* also when the run has stopped in between.
EnterTick ==
    /\ Enter("tick")
    /\ IF Sampling THEN cb' = [cb EXCEPT !["video"].pc = "checked", !["video"].ev = "tick"]
                   ELSE Returns("tick")
    /\ UNCHANGED <<state, queues, flags, run, producer, host, worker, report, faults>>

CaptureTick ==
    /\ cb["video"].pc = "checked"
    /\ \E ok \in BOOLEAN :
        /\ Captures(ok)
        /\ IF ~ok THEN Leaves("video") /\ ForceFailure
           ELSE /\ IF Sampling THEN Holds("tick", now) ELSE Leaves("video")
                /\ UNCHANGED <<run, forced, worker>>
    /\ UNCHANGED <<state, gate, bound, queues, unload_requested, producer, host, report, obs, now,
                   bounds>>

\* A scene change is ignored, never fatal, when the run does not sample or a value is missing.
CaptureScene ==
    /\ Enter("scene")
    /\ IF ~(Sampling /\ run.accepted) THEN Returns("scene") /\ UNCHANGED faults
       ELSE \E ok \in BOOLEAN :
            /\ Captures(ok)
            /\ IF ok THEN Holds("scene", now)
                     ELSE Returns("scene")
    /\ UNCHANGED <<state, queues, flags, run, producer, host, worker, report>>

\* The start signal counts only for a pending start; a second one fails the run.
CaptureStart ==
    /\ Enter("start")
    /\ IF state = "active" THEN Returns("start") /\ ForceFailure /\ UNCHANGED faults
       ELSE IF state # "start_pending" THEN Returns("start") /\ UNCHANGED <<run, forced, worker, faults>>
       ELSE \E ok \in BOOLEAN :
            /\ Captures(ok)
            /\ IF ok
               THEN /\ Holds("start", now)
                    /\ UNCHANGED <<run, forced, worker>>
               ELSE Returns("start") /\ ForceFailure
    /\ UNCHANGED <<state, queues, unload_requested, producer, host, report>>

\* Pause and resume capture before they ask for the state.
CapturePause(ev) ==
    /\ Enter(ev)
    /\ \E ok \in BOOLEAN :
        /\ Captures(ok)
        /\ IF ~ok THEN Returns(ev) /\ ForceFailure
           ELSE /\ IF state \in Ended THEN Returns(ev)
                   ELSE Holds(ev, now)
                /\ UNCHANGED <<run, forced, worker>>
    /\ UNCHANGED <<state, queues, unload_requested, producer, host, report>>

\* A stop is queued whether or not path and clock could be captured; its code may be an error.
CaptureStop ==
    /\ Enter("stop")
    /\ \/ /\ \E ok \in BOOLEAN :
            /\ Captures(ok)
            /\ Holds("stop", IF ok THEN now ELSE NoClock)
       \/ /\ host.reference /\ MayFail(FALSE)
          /\ cb' = [cb EXCEPT !["output"] = [pc |-> "captured", ev |-> "stop", at |-> now,
                                           code |-> FALSE]]
    /\ UNCHANGED <<state, queues, flags, run, producer, host, worker, report>>

\* Whether c's try of the mutex must fail, or may because another thread is in a critical section.
MustFail == worker.pc = "commit"
MayFindBusy(c) ==
    \/ worker.pc \in {"wait", "commit", "authorize", "finish", "cleanup"}
    \/ \E other \in Callers \ {c} : cb[other].pc \in {"captured", "requesting"}

\* Who finds the mutex taken gives up: a scene is ignored, anything else fails the run.
FindBusy(c) ==
    /\ cb[c].pc = "captured" /\ MayFindBusy(c)
    /\ cb[c].ev = "tick" => Sampling
    /\ Leaves(c)
    /\ MayFail(FALSE)
    /\ IF cb[c].ev = "scene" THEN UNCHANGED <<run, forced, worker>> ELSE ForceFailure
    /\ UNCHANGED <<state, gate, bound, queues, unload_requested, producer, host, report, obs, now,
                   bounds>>

Locks(c, evs) == cb[c].pc = "captured" /\ cb[c].ev \in evs /\ ~MustFail

\* Under the mutex: c leaves without a command, or fails the run.
Ignore(c) == Leaves(c) /\ UNCHANGED <<state, control, clock, scenes, next_order, last_clock, run,
                                       forced, worker>>
Reject(c) == /\ Leaves(c) /\ ForceFailure
             /\ UNCHANGED <<state, control, clock, scenes, next_order, last_clock>>

\* command_clock_is_monotone_locked
Monotone(at) == last_clock = NoClock \/ at >= last_clock

\* assign_command_order_locked and remember_command_clock_locked
Command(kind, c) == [kind |-> kind, order |-> next_order, at |-> cb[c].at,
                     code |-> cb[c].code]
Accept(c) ==
    /\ Leaves(c)
    /\ next_order' = next_order + 1
    /\ last_clock' = cb[c].at
    /\ worker' = NotifyCommand(worker)
    /\ UNCHANGED forced

\* The start opens a new common clock.
QueueStart ==
    /\ Locks("output", {"start"})
    /\ IF Len(control) = ControlCapacity THEN Reject("output")
       ELSE /\ Accept("output")
            /\ control' = Append(control, Command("start", "output"))
            /\ UNCHANGED <<state, clock, scenes, run>>
    /\ UNCHANGED <<gate, bound, unload_requested, producer, host, report, obs, now, bounds, faults>>

\* Pause and resume need an accepted start and alternate; a pause is visible at once.
QueuePause ==
    LET pausing == cb["output"].ev = "pause" IN
    /\ Locks("output", {"pause", "resume"})
    /\ IF state \in Ended THEN Ignore("output")
       ELSE IF \/ ~run.accepted
               \/ run.paused = pausing
               \/ Len(control) = ControlCapacity
               \/ ~Monotone(cb["output"].at)
       THEN Reject("output")
       ELSE /\ Accept("output")
            /\ control' = Append(control, Command(cb["output"].ev, "output"))
            /\ run' = [run EXCEPT !.pending = @ + 1, !.paused = pausing,
                                  !.pause_seen = @ \/ pausing]
            /\ state' = IF pausing THEN "paused" ELSE state
            /\ UNCHANGED <<clock, scenes>>
    /\ UNCHANGED <<gate, bound, unload_requested, producer, host, report, obs, now, bounds, faults>>

\* The stop ends the run for every other callback; only the first one is queued.
QueueStop ==
    /\ Locks("output", {"stop"})
    /\ IF state \in Ended THEN Ignore("output")
       ELSE IF \/ Len(control) = ControlCapacity
               \/ cb["output"].at # NoClock /\ ~Monotone(cb["output"].at)
       THEN Reject("output")
       ELSE /\ Leaves("output")
            /\ next_order' = next_order + 1
            /\ last_clock' = IF cb["output"].at # NoClock THEN cb["output"].at ELSE last_clock
            /\ worker' = NotifyCommand(worker)
            /\ control' = Append(control, Command("stop", "output"))
            /\ run' = [run EXCEPT !.accepting = FALSE]
            /\ state' = "stopping"
            /\ UNCHANGED <<clock, scenes, forced>>
    /\ UNCHANGED <<gate, bound, unload_requested, producer, host, report, obs, now, bounds, faults>>

\* The first frame after the start is the anchor, later ones are samples at an interval.
QueueTick ==
    LET at == cb["video"].at
        anchor == ~run.claimed
        relative == at - run.origin
        advanced == IF anchor THEN [run EXCEPT !.claimed = TRUE]
                    ELSE [run EXCEPT !.due = relative + Interval]
    IN
    /\ Locks("video", {"tick"})
    /\ IF \/ ~Sampling
          \/ anchor /\ at <= run.origin
          \/ ~anchor /\ (~run.accepted \/ relative < run.due)
       THEN Ignore("video")
       ELSE IF clock # NoCommand \/ (anchor /\ ~Monotone(at))
       THEN /\ Leaves("video")
            /\ run' = [advanced EXCEPT !.accepting = FALSE]
            /\ forced' = TRUE
            /\ worker' = NotifyCommand(worker)
            /\ UNCHANGED <<state, control, clock, scenes, next_order, last_clock>>
       ELSE IF ~Monotone(at)
       THEN /\ Leaves("video")
            /\ run' = advanced
            /\ UNCHANGED <<state, control, clock, scenes, next_order, last_clock, forced, worker>>
       ELSE /\ Accept("video")
            /\ clock' = Command(IF anchor THEN "anchor" ELSE "tick", "video")
            /\ run' = advanced
            /\ UNCHANGED <<state, control, scenes>>
    /\ UNCHANGED <<gate, bound, unload_requested, producer, host, report, obs, now, bounds, faults>>

\* A scene change asks everything again under the mutex and is dropped when the queue is full.
QueueScene ==
    /\ Locks("ui", {"scene"})
    /\ IF \/ ~(Sampling /\ run.accepted)
          \/ Len(scenes) = SceneCapacity
          \/ ~Monotone(cb["ui"].at)
       THEN Ignore("ui")
       ELSE /\ Accept("ui")
            /\ scenes' = Append(scenes, Command("scene", "ui"))
            /\ UNCHANGED <<state, control, clock, run>>
    /\ UNCHANGED <<gate, bound, unload_requested, producer, host, report, obs, now, bounds, faults>>

-----------------------------------------------------------------------------
(* The worker: waiting and choosing *)

Waiting == <<state, gate, bound, cb, run, producer, host, report, obs, now, bounds, faults>>

HasWork == control # <<>> \/ clock # NoCommand \/ scenes # <<>> \/ forced \/ unload_requested

\* The predicate is false: the worker goes to sleep in a step of its own.
WorkerFindsNothing ==
    /\ worker.pc = "wait" /\ ~HasWork
    /\ worker' = [worker EXCEPT !.pc = "commit"]
    /\ UNCHANGED <<Waiting, queues, flags>>

WorkerSleeps ==
    /\ worker.pc = "commit"
    /\ worker' = [worker EXCEPT !.pc = "asleep"]
    /\ UNCHANGED <<Waiting, queues, flags>>

Fronts == {q[1] : q \in {r \in {control, scenes} : r # <<>>}}
            \cup (IF clock = NoCommand THEN {} ELSE {clock})

\* The smallest number of the three fronts.
Earliest == CHOOSE f \in Fronts : \A g \in Fronts : f.order <= g.order

WorkerTakes ==
    /\ worker.pc = "wait" /\ HasWork /\ ~forced /\ ~unload_requested
    /\ worker' = [worker EXCEPT !.pc = "process", !.cmd = Earliest]
    /\ control' = IF Earliest.kind \in {"start", "pause", "resume", "stop"} THEN Tail(control)
                                                                           ELSE control
    /\ clock' = IF Earliest.kind \in {"anchor", "tick"} THEN NoCommand ELSE clock
    /\ scenes' = IF Earliest.kind = "scene" THEN Tail(scenes) ELSE scenes
    /\ UNCHANGED <<Waiting, next_order, last_clock, flags>>

\* Disconnecting, then waiting for callbacks: the head of process_stop and force_cleanup.
DrainThen(counter, then, back) ==
    worker' = [worker EXCEPT !.pc = "drain", !.counter = counter, !.then = then, !.back = back]

\* A forced failure or an unload empties the queues.
WorkerDropsAll ==
    /\ worker.pc = "wait" /\ (forced \/ unload_requested)
    /\ control' = <<>> /\ clock' = NoCommand /\ scenes' = <<>>
    /\ forced' = FALSE
    /\ IF unload_requested
       THEN DrainThen("gate", "unload", "exit") /\ UNCHANGED <<state, run, host>>
       ELSE /\ DrainThen("bound", "cleanup", "wait")
            /\ run' = [run EXCEPT !.accepting = FALSE]
            /\ state' = IF state = "unloading" THEN state ELSE "stopping"
            /\ host' = DisconnectSignals(host)
    /\ UNCHANGED <<gate, bound, cb, next_order, last_clock, unload_requested, producer, report, obs,
                   now, bounds, faults>>

-----------------------------------------------------------------------------
(* The worker: processing a command *)

Idle == At("wait")
Processing == <<gate, bound, cb, queues, flags, report, obs, now, bounds>>

\* fail_current_run: force_cleanup up to its wait for the bound callbacks.
FailRun ==
    /\ DrainThen("bound", "cleanup", "wait")
    /\ run' = [run EXCEPT !.accepting = FALSE]
    /\ state' = IF state = "unloading" THEN state ELSE "stopping"
    /\ host' = DisconnectSignals(host)

Written(kind) ==
    [producer EXCEPT !.started = @ \/ kind = "anchor",
                     !.controls = IF kind \in {"pause", "resume"} THEN Append(@, kind) ELSE @,
                     !.stopped = kind = "stop",
                     !.ordered = @ /\ worker.cmd.order > producer.last,
                     !.last = worker.cmd.order]

\* process_start: a new producer and the values of the run.  The state was read before
\* it is stored in the next step.
ProcessStart ==
    /\ worker.pc = "process" /\ worker.cmd.kind = "start"
    /\ \E ok \in BOOLEAN :
        /\ MayFail(ok)
        /\ producer' = [NoProducer EXCEPT !.open = TRUE]
        /\ IF ~ok THEN FailRun
           ELSE /\ run' = [run EXCEPT !.origin = worker.cmd.at, !.due = NoClock, !.claimed = FALSE,
                                      !.accepted = FALSE, !.accepting = TRUE]
                /\ worker' = IF state = "stopping" THEN Idle
                             ELSE [worker EXCEPT !.pc = "publish",
                                                 !.next = IF run.paused THEN "paused" ELSE "active"]
                /\ UNCHANGED <<state, host>>
    /\ UNCHANGED Processing

\* The state that was decided on is stored, whatever it is by now.
Publish ==
    /\ worker.pc = "publish"
    /\ state' = worker.next
    /\ worker' = Idle
    /\ UNCHANGED <<run, producer, host, faults, Processing>>

\* process_clock: the anchor becomes recording_started, a sample a calibration record.
ProcessClock ==
    /\ worker.pc = "process" /\ worker.cmd.kind \in {"anchor", "tick"}
    /\ IF ~producer.open \/ (worker.cmd.kind = "tick" /\ ~run.accepted)
       THEN worker' = Idle /\ UNCHANGED <<state, run, producer, host, faults>>
       ELSE \E ok \in BOOLEAN :
            /\ MayFail(ok)
            /\ IF ~ok THEN FailRun /\ UNCHANGED producer
               ELSE /\ producer' = Written(worker.cmd.kind)
                    /\ run' = IF worker.cmd.kind = "anchor"
                              THEN [run EXCEPT !.accepted = TRUE, !.due = Interval] ELSE run
                    /\ worker' = Idle
                    /\ UNCHANGED <<state, host>>
    /\ UNCHANGED Processing

\* process_scene_changed: the admitted snapshot is written whatever the state is by now.
ProcessScene ==
    /\ worker.pc = "process" /\ worker.cmd.kind = "scene"
    /\ IF ~producer.open \/ ~run.accepted
       THEN worker' = Idle /\ UNCHANGED <<state, run, producer, host, faults>>
       ELSE \E ok \in BOOLEAN :
            /\ MayFail(ok)
            /\ IF ~ok THEN FailRun /\ UNCHANGED producer
               ELSE /\ producer' = Written("scene")
                    /\ worker' = Idle
                    /\ UNCHANGED <<state, run, host>>
    /\ UNCHANGED Processing

\* process_pause_or_resume: submitted, confirmed durable, and only then no longer pending.
\* The last resume decides the state from what it read; it is stored in the next step.
ProcessPause ==
    /\ worker.pc = "process" /\ worker.cmd.kind \in {"pause", "resume"}
    /\ IF ~producer.open \/ ~run.accepted
       THEN FailRun /\ UNCHANGED <<producer, faults>>
       ELSE \E ok \in BOOLEAN :
            /\ MayFail(ok)
            /\ IF ~ok THEN FailRun /\ UNCHANGED producer
               ELSE /\ producer' = Written(worker.cmd.kind)
                    /\ IF run.pending = 0 THEN FailRun
                       ELSE /\ run' = [run EXCEPT !.pending = @ - 1]
                            /\ worker' = IF /\ worker.cmd.kind = "resume" /\ run.pending = 1
                                            /\ state # "stopping"
                                         THEN [worker EXCEPT !.pc = "publish",
                                                             !.next = IF run.paused THEN "paused"
                                                                                    ELSE "active"]
                                         ELSE Idle
                            /\ UNCHANGED <<state, host>>
    /\ UNCHANGED Processing

\* process_stop up to the wait for the callbacks that may still use the output.
ProcessStop_NoDrain ==
    /\ worker.pc = "process" /\ worker.cmd.kind = "stop"
    /\ run' = [run EXCEPT !.accepting = FALSE]
    /\ state' = "stopping"
    /\ host' = DisconnectSignals(host)
    /\ worker' = [worker EXCEPT !.pc = "authorize"]
    /\ UNCHANGED <<producer, faults, Processing>>

ProcessStop ==
    /\ worker.pc = "process" /\ worker.cmd.kind = "stop"
    /\ run' = [run EXCEPT !.accepting = FALSE]
    /\ state' = "stopping"
    /\ host' = DisconnectSignals(host)
    /\ DrainThen("bound", "authorize", "wait")
    /\ UNCHANGED <<producer, faults, Processing>>

-----------------------------------------------------------------------------
(* The worker: waiting for callbacks, ending a run *)

InFlight == IF worker.counter = "gate" THEN gate.count ELSE bound
Draining == <<state, gate, bound, cb, queues, flags, run, producer, host, report, obs, now,
              bounds, faults>>

DrainPasses ==
    /\ worker.pc = "drain" /\ InFlight = 0
    /\ worker' = [worker EXCEPT !.pc = worker.then]
    /\ UNCHANGED Draining

DrainWaits ==
    /\ worker.pc = "drain" /\ InFlight # 0
    /\ worker' = [worker EXCEPT !.pc = "drain_commit"]
    /\ UNCHANGED Draining

DrainSleeps ==
    /\ worker.pc = "drain_commit"
    /\ worker' = [worker EXCEPT !.pc = "drain_asleep"]
    /\ UNCHANGED Draining

\* process_stop under the mutex: a forced failure or an unload wins over the stop record.
\* The stop needs a producer, captured values, code zero and a written recording_started.
Authorized == producer.open /\ worker.cmd.at # NoClock /\ worker.cmd.code /\ run.accepted

Authorize ==
    /\ worker.pc = "authorize"
    /\ forced' = IF unload_requested THEN forced ELSE FALSE
    /\ IF unload_requested \/ forced
       THEN FailRun /\ UNCHANGED <<producer, faults>>
       ELSE \E ok \in BOOLEAN :
            /\ IF Authorized THEN MayFail(ok) ELSE ~ok /\ UNCHANGED faults
            /\ producer' = IF ok THEN Written("stop") ELSE producer
            /\ worker' = [worker EXCEPT !.pc = "finish"]
            /\ UNCHANGED <<state, run, host>>
    /\ UNCHANGED <<gate, bound, cb, queues, unload_requested, report, obs, now, bounds>>

\* reset_run leaves the other queues alone; the origin is set again by the next start.
ResetRun ==
    /\ scenes' = <<>>
    /\ last_clock' = NoClock
    /\ producer' = NoProducer
    /\ run' = NoRun

\* The producer is shut down, the result reported, the output released, the run reset.
FinishStop ==
    /\ worker.pc = "finish"
    /\ \E ok \in BOOLEAN :
        /\ MayFail(ok)
        /\ report' = IF producer.stopped /\ ok
                     THEN [successful |-> TRUE, records |-> producer, sent |-> obs.sent]
                     ELSE NoReport
        /\ state' = IF producer.stopped /\ ok THEN "idle" ELSE "failed"
    /\ host' = ReleaseOutput(host)
    /\ ResetRun
    /\ worker' = Idle
    /\ UNCHANGED <<gate, bound, cb, control, clock, next_order, flags, obs, now, bounds>>

\* force_cleanup after its wait.
Cleanup ==
    /\ worker.pc = "cleanup"
    /\ report' = NoReport
    /\ host' = ReleaseOutput(host)
    /\ ResetRun
    /\ state' = IF state = "unloading" THEN state ELSE "failed"
    /\ worker' = At(worker.back)
    /\ UNCHANGED <<gate, bound, cb, control, clock, next_order, flags, obs, now, bounds,
                   faults>>

WorkerUnloads_NoWait ==
    /\ worker.pc = "unload"
    /\ host' = ReleaseOutput([host EXCEPT !.pinned = FALSE])
    /\ worker' = At("done")
    /\ state' = "unloading"
    /\ UNCHANGED <<run, producer, faults, Processing>>

\* The worker of an unloaded module: a run that is open is cleaned up first.
WorkerUnloads ==
    /\ worker.pc = "unload"
    /\ IF producer.open \/ host.reference
       THEN /\ DrainThen("bound", "cleanup", "exit")
            /\ run' = [run EXCEPT !.accepting = FALSE]
            /\ state' = IF state = "unloading" THEN state ELSE "stopping"
       ELSE DrainThen("bound", "release", "exit") /\ UNCHANGED <<state, run>>
    /\ host' = DisconnectSignals(host)
    /\ UNCHANGED <<producer, faults, Processing>>

WorkerReleases ==
    /\ worker.pc = "release"
    /\ host' = ReleaseOutput(host)
    /\ worker' = [worker EXCEPT !.pc = "exit"]
    /\ UNCHANGED <<state, run, producer, faults, Processing>>

\* The last step of the thread gives the reference of the callbacks back and reports.
WorkerExits ==
    /\ worker.pc = "exit"
    /\ state' = "unloading"
    /\ host' = [host EXCEPT !.pinned = FALSE]
    /\ worker' = [worker EXCEPT !.pc = "done"]
    /\ UNCHANGED <<run, producer, faults, Processing>>

-----------------------------------------------------------------------------
(* Unloading, on the thread of the user interface *)

\* NativeObsHost::remove_callbacks
RemoveCallbacks(h) == [h EXCEPT !.installed = FALSE]

\* The gate is closed first, which notifies a worker that waits for callbacks; then the
\* callbacks are removed.
Unload ==
    /\ host.installed /\ cb["ui"].pc = "out"
    /\ gate' = [gate EXCEPT !.closed = TRUE]
    /\ worker' = NotifyFinished(worker)
    /\ host' = RemoveCallbacks(host)
    /\ run' = [run EXCEPT !.accepting = FALSE]
    /\ cb' = [cb EXCEPT !["ui"].pc = "requesting"]
    /\ UNCHANGED <<state, bound, queues, flags, producer, report, obs, now, bounds, faults>>

RequestUnload ==
    /\ cb["ui"].pc = "requesting"
    /\ state' = "unloading"
    /\ unload_requested' = TRUE
    /\ forced' = TRUE
    /\ worker' = NotifyCommand(worker)
    /\ cb' = [cb EXCEPT !["ui"].pc = "waiting"]
    /\ UNCHANGED <<gate, bound, queues, run, producer, host, report, obs, now, bounds, faults>>

\* The worker is joined, or left behind when the deadline passes.
JoinWorker ==
    /\ cb["ui"].pc = "waiting" /\ worker.pc = "done"
    /\ state' = "unloaded"
    /\ cb' = [cb EXCEPT !["ui"].pc = "unloaded"]
    /\ UNCHANGED <<gate, bound, queues, flags, run, producer, host, worker, report, obs, now,
                   bounds, faults>>

UnloadExpires ==
    /\ cb["ui"].pc = "waiting" /\ worker.pc # "done"
    /\ cb' = [cb EXCEPT !["ui"].pc = "unloaded"]
    /\ UNCHANGED <<state, gate, bound, queues, flags, run, producer, host, worker, report,
                   obs, now, bounds, faults>>

-----------------------------------------------------------------------------
Queue == QueueStart \/ QueuePause \/ QueueStop \/ QueueTick \/ QueueScene
Capture == OnRecordingStarting \/ EnterTick \/ CaptureTick \/ CaptureScene \/ CaptureStart \/ CapturePause("pause") \/ CapturePause("resume") \/ CaptureStop
Callback == Capture \/ Queue \/
            \E c \in Callers : FindBusy(c) \/ Leave(c)
WorkerStep == \/ WorkerFindsNothing \/ WorkerSleeps \/ WorkerTakes \/ WorkerDropsAll
              \/ ProcessStart \/ Publish \/ ProcessClock \/ ProcessScene \/ ProcessPause
              \/ ProcessStop \/ DrainWaits \/ DrainSleeps \/ Authorize \/ FinishStop \/ Cleanup
              \/ WorkerUnloads \/ WorkerReleases \/ WorkerExits
UnloadStep == RequestUnload \/ JoinWorker \/ UnloadExpires

Next == \/ Load
        \/ \E ev \in Events : TurnedAway(ev)
        \/ Callback
        \/ WorkerStep
        \/ DrainPasses
        \/ Unload
        \/ UnloadStep

Spec == Init /\ [][Next]_vars

\* What a thread of OBS does when it is inside the adapter; OBS renders frames, so ticks come.
GraphicsRuns == EnterTick \/ CaptureTick \/ QueueTick \/ Leave("video")
OutputRuns == QueueStart \/ QueuePause \/ QueueStop \/ Leave("output")
InterfaceRuns == QueueScene \/ Leave("ui") \/ UnloadStep

\* A callback is short against the time between two: a worker that waits finds a gap.
FairSpec ==
    /\ Spec
    /\ WF_vars(GraphicsRuns) /\ WF_vars(OutputRuns) /\ WF_vars(InterfaceRuns)
    /\ WF_vars(WorkerStep) /\ SF_vars(DrainPasses)

-----------------------------------------------------------------------------
(* Properties *)

\* A run that is reported as successful has a journal that is whole: it opens with the
\* anchor, ends with the stop, holds every pause and resume OBS signalled between start
\* and stop in their order, and its records lie in the common order of the callbacks.
\* (worker_main takes the smallest order; a callback that cannot queue forces a failure)
SuccessIsWhole ==
    report.successful =>
        /\ report.records.started /\ report.records.stopped
        /\ report.records.controls = report.sent
        /\ report.records.ordered

\* A run ends as failed when a callback has forced a failure: an idle adapter has
\* no failure pending, holds no output, no signals and no producer, and has no command
\* of an earlier run in a queue; pauses and stops are left only by a recording that came
\* before (QueueIsLeftEmpty).  (process_stop: drain, exchange under the mutex, reset_run)
IdleIsClean ==
    state = "idle" /\ ~unload_requested =>
        /\ ~forced
        /\ ~producer.open
        /\ ~host.reference /\ ~host.connected
        /\ clock = NoCommand /\ scenes = <<>>
        /\ recordings <= 1 => control = <<>>

\* An idle adapter has no command queued.  It may: a resume that stores its state late
\* (1275-1277) lets commands of the next recording be queued behind a stop, and reset_run
\* clears the scenes alone.
QueueIsLeftEmpty == state = "idle" /\ ~unload_requested => control = <<>>

\* A run ends in one of two ways: reported whole, or with nothing of it left behind.
RunsEndWhole == SuccessIsWhole /\ IdleIsClean

\* The module stays referenced while a callback is inside or the worker uses the output,
\* also when unload does not wait for the worker any longer; a worker that was joined has
\* left nothing behind.  (WorkerUnloads waits for the gate, WorkerExits gives the reference back)
PinnedWhileUsed ==
    /\ gate.count > 0 \/ producer.open \/ host.reference => host.pinned
    /\ state = "unloaded" /\ host.pinned => cb["ui"].pc # "unloaded"

\* A stop that was taken up ends, though the notification of the last callback may fall
\* between test and sleep: the next tick gives another.  (wait_for_bound_callbacks_to_drain)
StopSettles == state = "stopping" ~> (state # "stopping" \/ gate.closed)

\* A failure that a callback forces ends the run.  It does not: the flag is stored and
\* notified without the mutex, and a worker between test and sleep misses it until the
\* next command or unload.  (queue_forced_failure; MCObsAdapterForced.cfg)
ForcedFailureEnds == forced ~> (~forced \/ gate.closed)

-----------------------------------------------------------------------------
(* Why the properties hold *)

\* Who is inside a callback, and in one that may use the output.
Inside == {"checked", "captured", "leaving"}
In(c) == IF cb[c].pc \in Inside THEN 1 ELSE 0
InBound(c) == IF cb[c].pc \in Inside /\ IsBound(cb[c].ev) THEN 1 ELSE 0
Captured(c, evs) == cb[c].pc = "captured" /\ cb[c].ev \in evs

\* The threads, and the two counters that count them.
CallersInv ==
    /\ cb["video"].pc \in Inside \cup {"out"} /\ cb["output"].pc \in {"out", "captured", "leaving"}
    /\ cb["ui"].pc # "checked"
    /\ cb["video"].pc \in Inside => cb["video"].ev = "tick"
    /\ cb["output"].pc \in Inside => cb["output"].ev \in {"start", "pause", "resume", "stop"}
    /\ cb["ui"].pc \in Inside => cb["ui"].ev \in {"recording_starting", "scene"}
    /\ cb["ui"].pc = "captured" => cb["ui"].ev = "scene"
    /\ gate.count = In("ui") + In("video") + In("output")
    /\ bound = InBound("ui") + InBound("video") + InBound("output")

\* The worker is about to do a step, or waits for callbacks before it.
Drains == {"drain", "drain_commit", "drain_asleep"}
Heading(step) == worker.pc = step \/ (worker.pc \in Drains /\ worker.then = step)
Live(kinds) == worker.pc = "process" /\ worker.cmd.kind \in kinds
StopTaken == Live({"stop"}) \/ Heading("authorize")

\* Nobody is between entering and leaving who may use the output, or fail the run.
Drained ==
    /\ cb["video"].pc \in {"out", "leaving"} /\ cb["output"].pc \in {"out", "leaving"}
    /\ cb["ui"].pc # "captured"

\* What the worker waits for, and what holds when the wait is over.
DrainInv ==
    /\ worker.pc \in Drains =>
         \/ worker.then = "unload" /\ worker.counter = "gate"
         \/ worker.then \in {"authorize", "cleanup", "release"} /\ worker.counter = "bound"
    /\ Heading("cleanup") => worker.back \in {"wait", "exit"}
    /\ Heading("authorize") => worker.cmd.kind = "stop"
    /\ Heading("authorize") \/ Heading("cleanup") \/ worker.pc = "finish" =>
         ~host.connected /\ state \in {"stopping", "unloading"}
    /\ worker.pc \in {"authorize", "cleanup", "finish"} => Drained

\* The worker has waited for the gate, which is closed for good.
GoneInv ==
    /\ cb["ui"].pc \in {"requesting", "waiting", "unloaded"} \/ unload_requested => gate.closed
    /\ Heading("unload") \/ Heading("release") \/ worker.pc = "exit"
       \/ (Heading("cleanup") /\ worker.back = "exit") => unload_requested
    /\ worker.pc \in {"unload", "exit"} \/ Heading("release")
       \/ (Heading("cleanup") /\ worker.back = "exit") => gate.count = 0
    /\ worker.pc \in {"off", "done", "exit"} \/ Heading("release") =>
         ~host.reference /\ ~producer.open
    /\ worker.pc \in {"off", "done"} => gate.closed /\ gate.count = 0
    /\ worker.pc \in {"off", "done"} <=> ~host.pinned
    /\ state = "unloaded" => worker.pc \in {"off", "done"}
    /\ worker.pc = "off" =>
         /\ ~host.installed /\ ~host.connected /\ ~unload_requested /\ ~forced
         /\ cb["ui"].pc = "out" /\ control = <<>> /\ clock = NoCommand /\ scenes = <<>>
         /\ ~run.accepting /\ state = "unloaded" /\ recordings = 0

\* The queues hold their kinds of commands, and the worker what it needs for its step.
KindsInv ==
    /\ \A i \in 1 .. Len(control) : control[i].kind \in Pauses \cup {"start", "stop"}
    /\ \A i \in 1 .. Len(scenes) : scenes[i].kind = "scene"
    /\ clock.kind \in {"none", "anchor", "tick"}
    /\ worker.pc = "process" => worker.cmd \in Commands
    /\ worker.pc = "publish" => worker.next \in {"active", "paused"}

PinInv == TypeOK /\ CallersInv /\ DrainInv /\ GoneInv /\ KindsInv

\* Numbers grow in each queue, differ between them and lie above everything written, and
\* what the worker took is the smallest.
Pending == {control[i] : i \in 1 .. Len(control)} \cup {scenes[i] : i \in 1 .. Len(scenes)}
           \cup ({clock} \ {NoCommand})
Undecided == worker.pc = "process" \/ Heading("authorize")

OrderInv ==
    /\ \A i, j \in 1 .. Len(control) : i < j => control[i].order < control[j].order
    /\ \A i, j \in 1 .. Len(scenes) : i < j => scenes[i].order < scenes[j].order
    /\ \A f, g \in Pending : f.order = g.order => f = g
    /\ \A f \in Pending : producer.last < f.order /\ f.order < next_order
    /\ producer.last < next_order
    /\ Undecided => /\ producer.last < worker.cmd.order /\ worker.cmd.order < next_order
                    /\ \A f \in Pending : worker.cmd.order < f.order
    /\ producer.ordered
    /\ ~producer.open => producer = NoProducer

StartQueued == \E i \in 1 .. Len(control) : control[i].kind = "start"
StartIsFirst == \A i \in 1 .. Len(control) : control[i].kind = "start" => i = 1
StopQueued == \E i \in 1 .. Len(control) : control[i].kind = "stop"
AnchorQueued == clock.kind = "anchor"
\* The start of a recording is on its way.
Fresh == Captured("output", {"start"}) \/ StartQueued
\* The run will be cleaned up.
Failing == forced \/ unload_requested \/ Heading("cleanup")

\* A bound output has one start on its way and no anchor before it, or the run fails.  Without
\* an output no anchor reaches a producer, whatever was left in a queue.
PendingInv ==
    state = "start_pending" =>
        /\ host.reference /\ host.connected /\ ~AnchorQueued /\ ~run.accepted
        /\ run.accepting \/ producer.open => worker.pc = "publish"
        /\ forced \/ gate.closed \/ obs.phase \in {"on", "paused"} \/ Captured("output", {"stop"})
           \/ ~(Fresh \/ Live({"start"}) \/ worker.pc = "publish")
OnceInv ==
    host.reference =>
        /\ Fresh => ~run.accepting \/ (Failing /\ ~StopTaken)
        /\ Live({"start"}) => ~run.accepting /\ (~Fresh \/ Failing)
        /\ Captured("output", {"start"}) => ~StartQueued \/ Failing
        /\ \A i, j \in 1 .. Len(control) :
               control[i].kind = "start" /\ control[j].kind = "start" => i = j \/ Failing
AnchorInv ==
    /\ Fresh /\ AnchorQueued => unload_requested \/ (forced /\ ~StopTaken)
    /\ Live({"start"}) => ~AnchorQueued
    /\ Live({"anchor"}) /\ producer.open => ~Fresh
    /\ Fresh \/ Live({"start"}) => ~run.accepted
    /\ run.accepted => producer.open /\ producer.started
    /\ ~host.reference =>
         /\ ~run.accepted /\ cb["video"].pc # "captured"
         /\ producer.open => ~AnchorQueued /\ ~Live({"anchor"})

\* What an idle adapter has besides what IdleIsClean says.
IdleInv ==
    state = "idle" /\ ~unload_requested =>
        /\ IdleIsClean /\ Drained /\ ~run.accepting
        /\ ~StartQueued
        /\ worker.pc \in {"wait", "commit", "asleep"} \/ Live(Pauses) \/ Live({"stop"})

\* A command of another recording is ahead of the start of this one.
Stale ==
    /\ ~producer.open /\ ~Live({"start"})
    /\ \/ Live(Pauses) \/ StopTaken \/ worker.pc = "finish"
       \/ control # <<>> /\ control[1].kind # "start"

\* The signals of OBS are, in this order: written, taken, queued.
Skipped == IF control # <<>> /\ control[1].kind = "start" THEN 1 ELSE 0
Taken == Len(producer.controls) + IF Live(Pauses) THEN 1 ELSE 0
Follow(n) ==
    /\ Taken + n - Skipped <= Len(obs.sent)
    /\ \A i \in 1 .. Len(producer.controls) : producer.controls[i] = obs.sent[i]
    /\ Live(Pauses) => worker.cmd.kind = obs.sent[Taken]
    /\ \A i \in 1 + Skipped .. n : control[i].kind = obs.sent[Taken + i - Skipped]

Over ==
    /\ ~obs.ours
    /\ ~run.accepting \/ (state = "stopping" /\ worker.pc # "publish")
    /\ state # "start_pending" /\ ~Captured("output", {"start"})
    /\ recordings <= 1 => obs.phase = "off" /\ cb["output"].pc # "captured"
StopIsTaken ==
    /\ StopTaken \/ worker.pc = "finish"
    /\ Over /\ producer.controls = obs.sent /\ clock = NoCommand /\ ~StartQueued
    /\ recordings <= 1 => control = <<>>
StopIsQueued(q) ==
    /\ ~StopTaken /\ worker.pc # "finish"
    /\ Over /\ control[q].kind = "stop"
    /\ Follow(q - 1) /\ Len(obs.sent) = Taken + q - 1 - Skipped
    /\ StartIsFirst
    /\ StartQueued \/ Live({"start"}) =>
         ~producer.open /\ state = "stopping" /\ worker.pc # "publish"
    /\ clock # NoCommand => clock.order < control[q].order
    /\ recordings <= 1 => q = Len(control)
StopIsAhead ==
    /\ ~StopTaken /\ worker.pc # "finish" /\ ~StopQueued
    /\ host.connected /\ state \in {"start_pending", "active", "paused"}
    /\ Follow(Len(control))
    /\ Len(obs.sent) = Taken + Len(control) - Skipped
                       + IF Captured("output", Pauses) THEN 1 ELSE 0
    /\ Captured("output", Pauses) => obs.sent[Len(obs.sent)] = cb["output"].ev
    /\ StartIsFirst
    /\ StartQueued \/ Live({"start"}) => ~producer.open /\ worker.pc # "publish"
    /\ Captured("output", {"start"}) =>
         control = <<>> /\ ~producer.open /\ ~Live({"start"}) /\ worker.pc # "publish"
    /\ IF Captured("output", {"stop"})
       THEN ~obs.ours /\ (recordings <= 1 => obs.phase = "off")
       ELSE obs.ours

StopComing == Captured("output", {"stop"}) \/ StopTaken \/ worker.pc = "finish" \/ StopQueued

\* A bound run that may still succeed.
Tracking == host.reference /\ ~Failing /\ ~Stale /\ (gate.closed => StopComing)
TrackInv ==
    Tracking => StopIsTaken \/ (\E q \in 1 .. Len(control) : StopIsQueued(q)) \/ StopIsAhead

\* A stop that was written stands whatever comes before the report.
FinishInv ==
    producer.stopped =>
        /\ worker.pc = "finish"
        /\ producer.started /\ producer.controls = obs.sent /\ ~obs.ours
        /\ clock = NoCommand /\ ~StartQueued
        /\ recordings >= 1 /\ (recordings <= 1 => control = <<>>)
        /\ forced => unload_requested

SignalInv ==
    /\ obs.ours => obs.phase # "off"
    /\ host.reference => recordings >= 1

RunInv == PendingInv /\ OnceInv /\ AnchorInv /\ IdleInv /\ SignalInv /\ TrackInv /\ FinishInv

IInv == PinInv /\ OrderInv /\ RunInv /\ SuccessIsWhole

=============================================================================
