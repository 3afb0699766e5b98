--------------------------- MODULE ObsAdapter_proofs ---------------------------
(***************************************************************************)
(* The OBS adapter keeps its module pinned while it is used, reports only  *)
(* whole runs as successful and is clean when it is idle, for any          *)
(* capacities, recordings, signals and faults.                             *)
(***************************************************************************)
EXTENDS ObsAdapter, TLAPS

-----------------------------------------------------------------------------
(* Sequences, records and the threads *)

LEMMA Appended ==
    ASSUME NEW S, NEW q \in Seq(S), NEW x \in S
    PROVE  /\ Append(q, x) \in Seq(S)
           /\ Len(Append(q, x)) = Len(q) + 1
           /\ \A i \in 1 .. Len(q) : Append(q, x)[i] = q[i]
           /\ Append(q, x)[Len(q) + 1] = x
OBVIOUS

LEMMA Behead ==
    ASSUME NEW S, NEW q \in Seq(S), q # <<>>
    PROVE  /\ Len(q) \in Nat \ {0} /\ q[1] \in S
           /\ Tail(q) \in Seq(S)
           /\ Len(Tail(q)) = Len(q) - 1
           /\ \A i \in 1 .. Len(q) - 1 : Tail(q)[i] = q[i + 1]
OBVIOUS

LEMMA Empty ==
    ASSUME NEW S, NEW q \in Seq(S)
    PROVE  /\ Len(q) \in Nat /\ (q = <<>> <=> Len(q) = 0)
           /\ \A i \in 1 .. Len(q) : q[i] \in S
OBVIOUS

CallbackType == [pc : CallbackSteps, ev : Events \cup {"none"}, at : 0 .. NoClock, code : BOOLEAN]
WorkerType ==
    [pc : WorkerSteps, cmd : Commands \cup {NoCommand}, counter : {"none", "gate", "bound"},
     then : WorkerSteps \cup {"none"}, back : {"none", "wait", "exit"},
     next : {"none", "active", "paused"}]

\* Thread c goes to a step of the callback ev, the others stay where they are.
Goes(c, step, ev) ==
    /\ cb' \in [Callers -> CallbackType]
    /\ cb'[c].pc = step /\ cb'[c].ev = ev
    /\ \A other \in Callers : other # c => cb'[other] = cb[other]

LEMMA ThreadIs == \A ev \in Events : Thread(ev) \in Callers
BY DEF Events, Thread, Callers

LEMMA Fields ==
    ASSUME NEW f \in [Callers -> CallbackType], NEW t \in Callers,
           NEW r \in CallbackType, NEW g, g = [f EXCEPT ![t] = r]
    PROVE  /\ g \in [Callers -> CallbackType] /\ g[t] = r
           /\ \A other \in Callers : other # t => g[other] = f[other]
OBVIOUS

LEMMA StepOf ==
    ASSUME NEW r \in CallbackType, NEW step \in CallbackSteps
    PROVE  /\ [r EXCEPT !.pc = step] \in CallbackType
           /\ [r EXCEPT !.pc = step].pc = step
BY DEF CallbackType

LEMMA EventOf ==
    ASSUME NEW r \in CallbackType, NEW ev \in Events
    PROVE  /\ [r EXCEPT !.ev = ev] \in CallbackType
           /\ [r EXCEPT !.ev = ev].pc = r.pc /\ [r EXCEPT !.ev = ev].ev = ev
BY DEF CallbackType

LEMMA ClockOf ==
    ASSUME NEW r \in CallbackType, NEW at \in 0 .. NoClock
    PROVE  /\ [r EXCEPT !.at = at] \in CallbackType
           /\ [r EXCEPT !.at = at].pc = r.pc /\ [r EXCEPT !.at = at].ev = r.ev
           /\ [r EXCEPT !.at = at].at = at
BY DEF CallbackType

\* Thread t starts the event ev.
LEMMA Moves ==
    ASSUME TypeOK, NEW t \in Callers, NEW ev \in Events, NEW step \in CallbackSteps, NEW g
    PROVE  g = [cb EXCEPT ![t].pc = step, ![t].ev = ev] =>
               /\ g \in [Callers -> CallbackType] /\ g[t].pc = step /\ g[t].ev = ev
               /\ \A other \in Callers : other # t => g[other] = cb[other]
<1>1. cb \in [Callers -> CallbackType]
  BY DEF TypeOK, CallbackType
<1>2. ASSUME g = [cb EXCEPT ![t].pc = step, ![t].ev = ev]
      PROVE  /\ g \in [Callers -> CallbackType] /\ g[t].pc = step /\ g[t].ev = ev
             /\ \A other \in Callers : other # t => g[other] = cb[other]
  <2> DEFINE m == [cb EXCEPT ![t] = [cb[t] EXCEPT !.pc = step]]
  <2>1. /\ m \in [Callers -> CallbackType] /\ m[t] = [cb[t] EXCEPT !.pc = step]
        /\ \A other \in Callers : other # t => m[other] = cb[other]
    BY <1>1, StepOf, Fields
  <2>2. g = [m EXCEPT ![t] = [m[t] EXCEPT !.ev = ev]]
    BY <1>2
  <2> HIDE DEF m
  <2>3. m[t] \in CallbackType /\ m[t].pc = step
    BY <1>1, <2>1, StepOf
  <2> DEFINE r == [m[t] EXCEPT !.ev = ev]
  <2>4. r \in CallbackType /\ r.pc = step /\ r.ev = ev
    BY <2>3, EventOf
  <2>5. g = [m EXCEPT ![t] = r]
    BY <2>2
  <2> HIDE DEF r
  <2> QED
    BY <2>1, <2>4, <2>5, Fields
<1> QED
  BY <1>2

LEMMA GoesBy ==
    ASSUME TypeOK, NEW ev \in Events, NEW at \in 0 .. NoClock
    PROVE  /\ Returns(ev) => Goes(Thread(ev), "leaving", ev)
           /\ Holds(ev, at) => Goes(Thread(ev), "captured", ev) /\ cb'[Thread(ev)].at = at
<1> DEFINE t == Thread(ev)
<1>1. t \in Callers /\ {"leaving", "captured"} \subseteq CallbackSteps
  BY ThreadIs DEF CallbackSteps
<1>2. Returns(ev) => Goes(t, "leaving", ev)
  BY <1>1, Moves DEF Returns, Goes
<1>3. ASSUME Holds(ev, at)
      PROVE  Goes(t, "captured", ev) /\ cb'[t].at = at
  <2> DEFINE m == [cb EXCEPT ![t].pc = "captured", ![t].ev = ev]
  <2>1. cb' = [m EXCEPT ![t] = [m[t] EXCEPT !.at = at]]
    BY <1>3 DEF Holds
  <2>2. m = [cb EXCEPT ![t].pc = "captured", ![t].ev = ev]
    OBVIOUS
  <2> HIDE DEF m, t
  <2>3. /\ m \in [Callers -> CallbackType] /\ m[t].pc = "captured" /\ m[t].ev = ev
        /\ \A other \in Callers : other # t => m[other] = cb[other]
    BY <1>1, <2>2, Moves
  <2> DEFINE r == [m[t] EXCEPT !.at = at]
  <2>4. r \in CallbackType /\ r.pc = "captured" /\ r.ev = ev /\ r.at = at
    BY <1>1, <2>3, ClockOf
  <2>5. cb' = [m EXCEPT ![t] = r]
    BY <2>1
  <2> HIDE DEF r
  <2>6. /\ cb' \in [Callers -> CallbackType] /\ cb'[t] = r
        /\ \A other \in Callers : other # t => cb'[other] = m[other]
    BY <1>1, <2>3, <2>4, <2>5, Fields
  <2> QED
    BY <2>3, <2>4, <2>6 DEF Goes
<1> QED
  BY <1>2, <1>3

LEMMA GoesOn ==
    ASSUME TypeOK, NEW c \in Callers
    PROVE  /\ Leaves(c) => Goes(c, "leaving", cb[c].ev)
           /\ cb' = [cb EXCEPT ![c] = Out] => Goes(c, "out", "none")
           /\ \A step \in CallbackSteps : cb' = [cb EXCEPT ![c].pc = step] => Goes(c, step, cb[c].ev)
<1>1. cb \in [Callers -> CallbackType]
  BY DEF TypeOK, CallbackType
<1>2. Out \in CallbackType
  BY BoundsAssumption DEF Out, CallbackType, CallbackSteps, Events, NoClock
<1>3. \A step \in CallbackSteps : cb' = [cb EXCEPT ![c].pc = step] => Goes(c, step, cb[c].ev)
  BY <1>1 DEF Goes, CallbackType
<1>4. Leaves(c) => Goes(c, "leaving", cb[c].ev)
  BY <1>3 DEF Leaves, CallbackSteps
<1>5. cb' = [cb EXCEPT ![c] = Out] => Goes(c, "out", "none")
  BY <1>1, <1>2 DEF Goes, Out
<1> QED
  BY <1>3, <1>4, <1>5

\* A notification moves a worker that sleeps and changes nothing else of it.
Woken == worker' \in {NotifyCommand(worker), NotifyFinished(worker), worker}

\* The worker is where it was, but for the sleep.
SameWork ==
    /\ worker' \in WorkerType
    /\ worker'.cmd = worker.cmd /\ worker'.counter = worker.counter /\ worker'.then = worker.then
    /\ worker'.back = worker.back /\ worker'.next = worker.next
    /\ worker'.pc \in Drains <=> worker.pc \in Drains
    /\ worker'.pc \in {"wait", "commit", "asleep"} <=> worker.pc \in {"wait", "commit", "asleep"}
    /\ \A step \in WorkerSteps \ (Drains \cup {"wait", "commit", "asleep"}) :
           worker'.pc = step <=> worker.pc = step

LEMMA WokenIsSame == TypeOK /\ Woken => SameWork
BY DEF TypeOK, Woken, SameWork, NotifyCommand, NotifyFinished, WorkerType, Drains, WorkerSteps

LEMMA SameWorkKeeps ==
    ASSUME SameWork
    PROVE  /\ \A step \in {"authorize", "cleanup", "unload", "release"} :
                 Heading(step)' <=> Heading(step)
           /\ \A kinds : Live(kinds)' <=> Live(kinds)
           /\ StopTaken' <=> StopTaken
           /\ Undecided' <=> Undecided
           /\ \A step \in {"off", "process", "publish", "authorize", "finish", "cleanup", "unload",
                           "exit", "done"} :
                 worker'.pc = step <=> worker.pc = step
BY DEF SameWork, Heading, Live, StopTaken, Undecided, Drains, WorkerSteps

-----------------------------------------------------------------------------
(* The gate counts who is inside *)

LEMMA Weights ==
    ASSUME TypeOK, CallersInv, NEW c \in Callers
    PROVE  /\ In(c) \in 0 .. gate.count /\ InBound(c) \in 0 .. bound
           /\ cb[c].pc \notin Inside => In(c) = 0 /\ InBound(c) = 0 /\ gate.count <= 2 /\ bound <= 2
           /\ cb[c].pc \in Inside => In(c) = 1 /\ (IsBound(cb[c].ev) => InBound(c) = 1)
<1>1. \A d \in Callers : In(d) \in {0, 1} /\ InBound(d) \in {0, 1}
  BY DEF In, InBound
<1>2. /\ gate.count \in Nat /\ bound \in Nat
      /\ gate.count = In("ui") + In("video") + In("output")
      /\ bound = InBound("ui") + InBound("video") + InBound("output")
  BY SMTT(30) DEF CallersInv, TypeOK
<1>3. /\ cb[c].pc \notin Inside => In(c) = 0 /\ InBound(c) = 0
      /\ cb[c].pc \in Inside => In(c) = 1 /\ (IsBound(cb[c].ev) => InBound(c) = 1)
  BY DEF In, InBound
<1> HIDE DEF In, InBound
<1> QED
  BY <1>1, <1>2, <1>3 DEF Callers

\* Where each thread can be, besides the counters.
CallersAre ==
    /\ cb["video"].pc \in Inside \cup {"out"} /\ cb["output"].pc \in {"out", "captured", "leaving"}
    /\ cb["ui"].pc # "checked"
    /\ cb["video"].pc \in Inside => cb["video"].ev = "tick"
    /\ cb["output"].pc \in Inside => cb["output"].ev \in {"start", "pause", "resume", "stop"}
    /\ cb["ui"].pc \in Inside => cb["ui"].ev \in {"recording_starting", "scene"}
    /\ cb["ui"].pc = "captured" => cb["ui"].ev = "scene"

LEMMA EnterCounts ==
    ASSUME TypeOK, CallersInv, NEW ev \in Events, Enter(ev), NEW step \in Inside,
           Goes(Thread(ev), step, ev),
           step = "checked" => ev = "tick", step = "captured" => ev # "recording_starting"
    PROVE  /\ CallersInv'
           /\ gate' \in [closed : BOOLEAN, count : 0 .. 3] /\ gate'.closed = gate.closed
           /\ bound' \in 0 .. 3
           /\ cb[Thread(ev)].pc = "out" /\ gate.closed = FALSE
<1>1. /\ cb[Thread(ev)].pc = "out" /\ gate.closed = FALSE
      /\ gate' = [gate EXCEPT !.count = @ + 1]
      /\ bound' = IF IsBound(ev) THEN bound + 1 ELSE bound
  BY DEF Enter, Signal, Listening, TypeOK
<1>2. gate.count + 1 \in 0 .. 3 /\ bound + 1 \in 0 .. 3
  <2>1. cb[Thread(ev)].pc \notin Inside
    BY <1>1 DEF Inside
  <2> QED
    BY <2>1, ThreadIs, Weights DEF TypeOK
<1>3. /\ gate' \in [closed : BOOLEAN, count : 0 .. 3] /\ gate'.closed = gate.closed
      /\ gate'.count = gate.count + 1
      /\ bound' \in 0 .. 3
  BY <1>1, <1>2 DEF TypeOK
<1>4. /\ cb'[Thread(ev)].pc = step /\ cb'[Thread(ev)].ev = ev
      /\ \A d \in Callers : d # Thread(ev) => cb'[d] = cb[d]
  BY DEF Goes
<1>5. CallersAre'
  <2>1. CASE ev \in {"start", "pause", "resume", "stop"}
    <3>1. Thread(ev) = "output"
      BY <2>1 DEF Thread
    <3> QED
      BY <1>4, <2>1, <3>1 DEF CallersInv, CallersAre, Callers, Inside
  <2>2. CASE ev = "tick"
    <3>1. Thread(ev) = "video"
      BY <2>2 DEF Thread
    <3> QED
      BY <1>4, <2>2, <3>1 DEF CallersInv, CallersAre, Callers, Inside
  <2>3. CASE ev \in {"recording_starting", "scene"}
    <3>1. Thread(ev) = "ui"
      BY <2>3 DEF Thread
    <3> QED
      BY <1>4, <2>3, <3>1 DEF CallersInv, CallersAre, Callers, Inside
  <2> QED
    BY <2>1, <2>2, <2>3 DEF Events
<1>6. /\ In(Thread(ev)) = 0 /\ InBound(Thread(ev)) = 0
      /\ In(Thread(ev))' = 1 /\ InBound(Thread(ev))' = IF IsBound(ev) THEN 1 ELSE 0
      /\ \A d \in Callers : d # Thread(ev) => In(d)' = In(d) /\ InBound(d)' = InBound(d)
  BY <1>1, <1>4 DEF In, InBound, Inside
<1>7. \A d \in Callers : In(d) \in {0, 1} /\ InBound(d) \in {0, 1}
  BY DEF In, InBound
<1>8. /\ gate.count = In("ui") + In("video") + In("output")
      /\ bound = InBound("ui") + InBound("video") + InBound("output")
      /\ gate.count \in Nat /\ bound \in Nat
  BY SMTT(30) DEF CallersInv, TypeOK
<1> HIDE DEF In, InBound
<1>9. /\ gate'.count = In("ui")' + In("video")' + In("output")'
      /\ bound' = InBound("ui")' + InBound("video")' + InBound("output")'
  <2>1. Thread(ev) \in Callers
    BY ThreadIs
  <2>2. CASE Thread(ev) = "ui"
    BY <1>1, <1>3, <1>6, <1>7, <1>8, <2>2 DEF Callers
  <2>3. CASE Thread(ev) = "video"
    BY <1>1, <1>3, <1>6, <1>7, <1>8, <2>3 DEF Callers
  <2>4. CASE Thread(ev) = "output"
    BY <1>1, <1>3, <1>6, <1>7, <1>8, <2>4 DEF Callers
  <2> QED
    BY <2>1, <2>2, <2>3, <2>4 DEF Callers
<1>10. CallersInv'
  BY <1>5, <1>9 DEF CallersInv, CallersAre
<1> QED
  BY <1>1, <1>3, <1>10

LEMMA LeavesCounts ==
    ASSUME TypeOK, CallersInv, NEW c \in Callers, cb[c].pc \in {"checked", "captured"},
           Goes(c, "leaving", cb[c].ev) \/ (c = "video" /\ Goes(c, "captured", cb[c].ev)),
           UNCHANGED <<gate, bound>>
    PROVE  CallersInv'
BY DEF CallersInv, In, InBound, Goes, Callers, Inside

LEMMA LeaveCounts ==
    ASSUME TypeOK, CallersInv, NEW c \in Callers, Leave(c)
    PROVE  /\ CallersInv'
           /\ gate' \in [closed : BOOLEAN, count : 0 .. 3] /\ gate'.closed = gate.closed
           /\ gate'.count = gate.count - 1
           /\ bound' \in 0 .. 3
           /\ Goes(c, "out", "none")
<1>1. /\ cb[c].pc = "leaving" /\ gate' = [gate EXCEPT !.count = @ - 1]
      /\ bound' = IF IsBound(cb[c].ev) THEN bound - 1 ELSE bound
      /\ Goes(c, "out", "none")
  BY GoesOn DEF Leave
<1>2. gate.count - 1 \in 0 .. 3 /\ (IsBound(cb[c].ev) => bound - 1 \in 0 .. 3)
  <2>1. cb[c].pc \in Inside
    BY <1>1 DEF Inside
  <2> QED
    BY <2>1, Weights DEF TypeOK
<1>3. /\ gate' \in [closed : BOOLEAN, count : 0 .. 3] /\ gate'.closed = gate.closed
      /\ gate'.count = gate.count - 1
      /\ bound' \in 0 .. 3
  BY <1>1, <1>2 DEF TypeOK
<1>4. CallersInv'
  BY <1>1, <1>3, SMTT(30) DEF CallersInv, In, InBound, Goes, Callers, Inside
<1> QED
  BY <1>1, <1>3, <1>4

LEMMA UiCounts ==
    ASSUME TypeOK, CallersInv, NEW step \in {"requesting", "waiting", "unloaded"},
           cb["ui"].pc \notin Inside, Goes("ui", step, cb["ui"].ev),
           gate'.count = gate.count, bound' = bound
    PROVE  CallersInv'
BY DEF CallersInv, In, InBound, Goes, Callers, Inside

LEMMA SameCounts ==
    ASSUME CallersInv, UNCHANGED <<cb, gate, bound>>
    PROVE  CallersInv'
BY DEF CallersInv, In, InBound

LEMMA NobodyInside ==
    ASSUME TypeOK, CallersInv
    PROVE  /\ gate.count = 0 => \A c \in Callers : cb[c].pc \notin Inside
           /\ bound = 0 => Drained
BY DEF TypeOK, CallersInv, In, InBound, Callers, Inside, Drained, IsBound

-----------------------------------------------------------------------------
(* Entering a callback *)

LEMMA SignalIs ==
    ASSUME TypeOK, NEW ev \in Events, Signal(ev)
    PROVE  /\ obs' \in [phase : {"off", "starting", "on", "paused"}, ours : BOOLEAN, sent : Seq(Pauses)]
           /\ obs'.phase = PhaseAfter(ev)
           /\ obs'.ours <=> IF ev = "recording_starting" THEN Binds(ev) ELSE obs.ours /\ ev # "stop"
           /\ obs'.sent = CASE Binds(ev) -> <<>>
                            [] ev \in Pauses /\ obs.ours -> Append(obs.sent, ev)
                            [] OTHER -> obs.sent
           /\ recordings' \in Nat /\ signals' \in Nat /\ now' \in 0 .. MaxNow
           /\ recordings' = IF ev = "recording_starting" THEN recordings + 1 ELSE recordings
           /\ cb[Thread(ev)].pc = "out" /\ worker.pc # "off"
<1>1. obs.sent \in Seq(Pauses) /\ obs.phase \in {"off", "starting", "on", "paused"}
  BY DEF TypeOK
<1>2. ev \in Pauses => Append(obs.sent, ev) \in Seq(Pauses)
  BY <1>1, Appended
<1>3. PhaseAfter(ev) \in {"off", "starting", "on", "paused"}
  BY <1>1 DEF PhaseAfter
<1>4. /\ obs' = [phase |-> PhaseAfter(ev),
                 ours |-> IF ev = "recording_starting" THEN Binds(ev) ELSE obs.ours /\ ev # "stop",
                 sent |-> CASE Binds(ev) -> <<>>
                            [] ev \in {"pause", "resume"} /\ obs.ours -> Append(obs.sent, ev)
                            [] OTHER -> obs.sent]
      /\ recordings' = IF ev = "recording_starting" THEN recordings + 1 ELSE recordings
      /\ signals' = IF ev \in {"scene", "pause", "resume"} THEN signals + 1 ELSE signals
      /\ now' = IF ev = "tick" /\ now < MaxNow /\ obs.phase = "on" THEN now + 1 ELSE now
      /\ cb[Thread(ev)].pc = "out" /\ worker.pc # "off"
  BY DEF Signal
<1>5. recordings' \in Nat /\ signals' \in Nat /\ now' \in 0 .. MaxNow
  <2>1. recordings \in Nat /\ signals \in Nat /\ now \in 0 .. MaxNow /\ MaxNow \in Nat
    BY BoundsAssumption DEF TypeOK
  <2>2. recordings' \in Nat
    BY <1>4, <2>1
  <2>3. signals' \in Nat
    BY <1>4, <2>1
  <2>4. now' \in 0 .. MaxNow
    BY <1>4, <2>1
  <2> QED
    BY <2>2, <2>3, <2>4
<1>6. /\ Binds(ev) \in BOOLEAN /\ obs.ours \in BOOLEAN
      /\ Binds(ev) => ev = "recording_starting"
  BY DEF Binds, TypeOK
<1>7. obs'.sent \in Seq(Pauses)
  BY <1>1, <1>2, <1>4, <1>6 DEF Pauses
<1>8. /\ obs'.phase = PhaseAfter(ev)
      /\ obs'.ours = IF ev = "recording_starting" THEN Binds(ev) ELSE obs.ours /\ ev # "stop"
      /\ obs'.sent = CASE Binds(ev) -> <<>>
                       [] ev \in Pauses /\ obs.ours -> Append(obs.sent, ev)
                       [] OTHER -> obs.sent
  BY <1>4 DEF Pauses
<1>9. obs' \in [phase : {"off", "starting", "on", "paused"}, ours : BOOLEAN, sent : Seq(Pauses)]
  <2>1. obs'.ours \in BOOLEAN
    BY <1>6, <1>8
  <2>2. obs' = [phase |-> obs'.phase, ours |-> obs'.ours, sent |-> obs'.sent]
    BY <1>4
  <2> QED
    BY <1>3, <1>7, <1>8, <2>1, <2>2
<1> QED
  BY <1>4, <1>5, <1>8, <1>9

-----------------------------------------------------------------------------
(* What the pinning of the module rests on *)

LEMMA NotPinned ==
    ASSUME PinInv
    PROVE  /\ gate.closed = FALSE =>
                ~unload_requested /\ worker.pc \notin {"exit", "done", "unload"} /\ ~Heading("release")
BY DEF PinInv, GoneInv, Heading

\* A callback, and a thread of OBS that unloads, leaves the worker at its step.
LEMMA GoneFrame ==
    ASSUME TypeOK, GoneInv, SameWork, worker.pc # "off",
           gate.closed => gate'.closed,
           gate'.count = gate.count \/ gate.count # 0 \/ gate.closed = FALSE,
           unload_requested' = unload_requested,
           cb'["ui"].pc \in {"requesting", "waiting", "unloaded"} => gate'.closed,
           host'.pinned = host.pinned,
           host'.reference => host.reference \/ gate.closed = FALSE,
           producer'.open = producer.open,
           state' = "unloaded" => state = "unloaded"
    PROVE  GoneInv'
<1>1. /\ Heading("cleanup")' <=> Heading("cleanup")
      /\ Heading("unload")' <=> Heading("unload")
      /\ Heading("release")' <=> Heading("release")
      /\ worker'.pc # "off"
      /\ worker'.pc = "exit" <=> worker.pc = "exit"
      /\ worker'.pc = "done" <=> worker.pc = "done"
      /\ worker'.pc = "unload" <=> worker.pc = "unload"
      /\ worker'.back = worker.back
  BY SameWorkKeeps DEF SameWork
<1> HIDE DEF SameWork
<1>2. /\ gate.closed \in BOOLEAN /\ gate.count \in Nat
      /\ gate'.closed = TRUE \/ gate.closed = FALSE
  BY DEF TypeOK
<1>3. /\ cb'["ui"].pc \in {"requesting", "waiting", "unloaded"} \/ unload_requested' => gate'.closed
      /\ worker'.pc \in {"off", "done"} => gate'.closed
  BY <1>1 DEF GoneInv
<1>4. /\ worker'.pc \in {"unload", "exit", "done"} \/ Heading("release")'
         \/ (Heading("cleanup")' /\ worker'.back = "exit") => gate'.count = 0
      /\ worker'.pc \in {"off", "done", "exit"} \/ Heading("release")' =>
           ~host'.reference /\ ~producer'.open
  BY <1>1, <1>2 DEF GoneInv, Heading
<1>5. /\ worker'.pc \in {"off", "done"} <=> ~host'.pinned
      /\ state' = "unloaded" => worker'.pc \in {"off", "done"}
      /\ Heading("unload")' \/ Heading("release")' \/ worker'.pc = "exit"
           \/ (Heading("cleanup")' /\ worker'.back = "exit") => unload_requested'
  BY <1>1 DEF GoneInv
<1> QED
  BY <1>1, <1>3, <1>4, <1>5 DEF GoneInv

LEMMA DrainFrame ==
    ASSUME DrainInv, SameWork,
           host'.connected => host.connected \/ state = "idle",
           state \in {"stopping", "unloading"} => state' \in {"stopping", "unloading"},
           worker.pc \in {"authorize", "cleanup", "finish"} => Drained'
    PROVE  DrainInv'
<1>1. /\ \A step \in {"authorize", "cleanup"} : Heading(step)' <=> Heading(step)
      /\ \A step \in {"authorize", "cleanup", "finish"} : worker'.pc = step <=> worker.pc = step
      /\ worker'.pc \in Drains <=> worker.pc \in Drains
      /\ worker'.back = worker.back /\ worker'.cmd = worker.cmd /\ worker'.then = worker.then
      /\ worker'.counter = worker.counter
  BY SameWorkKeeps DEF SameWork
<1> HIDE DEF SameWork, Drained
<1> QED
  BY <1>1 DEF DrainInv

LEMMA KindsFrame ==
    ASSUME KindsInv, SameWork, UNCHANGED <<control, clock, scenes>>
    PROVE  KindsInv'
<1>1. /\ (worker'.pc = "process" <=> worker.pc = "process") /\ worker'.cmd = worker.cmd
      /\ (worker'.pc = "publish" <=> worker.pc = "publish") /\ worker'.next = worker.next
  BY SameWorkKeeps DEF SameWork
<1> QED
  BY <1>1 DEF KindsInv

LEMMA ForceIs ==
    ASSUME TypeOK, ForceFailure
    PROVE  Woken /\ run' \in Runs /\ forced' \in BOOLEAN
BY DEF TypeOK, ForceFailure, Woken, Runs

LEMMA FaultsAre == TypeOK => \A ok : MayFail(ok) => faults' \in Nat
BY DEF TypeOK, MayFail

LEMMA EnterPins ==
    ASSUME PinInv, NEW ev \in Events, Enter(ev), NEW step \in Inside, Goes(Thread(ev), step, ev),
           step = "checked" => ev = "tick", step = "captured" => ev # "recording_starting",
           step # "leaving" => state \notin {"stopping", "unloading"} \/ host.connected,
           UNCHANGED <<state, queues, unload_requested, producer, host, report>>,
           Woken, run' \in Runs, forced' \in BOOLEAN, faults' \in Nat
    PROVE  PinInv'
<1> USE DEF PinInv
<1>1. /\ CallersInv'
      /\ gate' \in [closed : BOOLEAN, count : 0 .. 3] /\ gate'.closed = gate.closed
      /\ bound' \in 0 .. 3 /\ gate.closed = FALSE /\ cb[Thread(ev)].pc = "out"
  BY EnterCounts
<1>2. SameWork
  BY WokenIsSame
<1>3. Signal(ev)
  BY DEF Enter
<1>4. TypeOK'
  <2>1. cb' \in [Callers -> CallbackType] /\ worker' \in WorkerType
    BY <1>2 DEF Goes, SameWork
  <2> QED
    BY <1>1, <1>3, <2>1, SignalIs, SMTT(30) DEF TypeOK, queues, CallbackType, WorkerType
<1>5. GoneInv'
  <2>1. cb'["ui"].pc \in {"requesting", "waiting", "unloaded"} => gate.closed
    BY <1>1 DEF Goes, GoneInv, Callers, Inside
  <2> QED
    BY <1>1, <1>2, <1>3, <2>1, SignalIs, GoneFrame
<1>6. DrainInv'
  <2>1. ASSUME worker.pc \in {"authorize", "cleanup", "finish"}
        PROVE  Drained'
    <3>1. Drained /\ state \in {"stopping", "unloading"} /\ ~host.connected
      BY <2>1 DEF DrainInv, Heading
    <3>2. step = "leaving"
      BY <3>1
    <3> QED
      BY <3>1, <3>2 DEF Drained, Goes, Callers
  <2> QED
    BY <1>2, <2>1, DrainFrame
<1>7. KindsInv'
  BY <1>2, KindsFrame DEF queues
<1> QED
  BY <1>1, <1>4, <1>5, <1>6, <1>7

LEMMA CapturesIs ==
    ASSUME TypeOK, NEW ok \in BOOLEAN, Captures(ok)
    PROVE  faults' \in Nat /\ (ok => host.reference)
BY FaultsAre DEF Captures, TypeOK

LEMMA Stays ==
    ASSUME TypeOK, UNCHANGED <<run, forced, worker>>
    PROVE  Woken /\ run' \in Runs /\ forced' \in BOOLEAN
BY DEF TypeOK, Woken

\* What a callback does on its way in.
Enters(ev, step) ==
    /\ Enter(ev) /\ Goes(Thread(ev), step, ev)
    /\ UNCHANGED <<state, queues, unload_requested, producer, host, report>>
    /\ Woken /\ run' \in Runs /\ forced' \in BOOLEAN /\ faults' \in Nat

LEMMA EnterTickIs ==
    ASSUME TypeOK, EnterTick
    PROVE  \/ Enters("tick", "checked") /\ Sampling /\ UNCHANGED <<run, forced, worker>>
           \/ Enters("tick", "leaving") /\ UNCHANGED <<run, forced, worker>>
<1>1. /\ Enter("tick")
      /\ UNCHANGED <<state, queues, unload_requested, producer, host, report, run, forced, worker,
                     faults>>
  BY DEF EnterTick, flags
<1>2. Woken /\ run' \in Runs /\ forced' \in BOOLEAN /\ faults' \in Nat
  BY <1>1, Stays DEF TypeOK
<1>3. CASE Sampling
  <2>1. cb' = [cb EXCEPT !["video"].pc = "checked", !["video"].ev = "tick"]
    BY <1>3 DEF EnterTick
  <2>2. "video" \in Callers /\ "tick" \in Events /\ "checked" \in CallbackSteps
    BY DEF CallbackSteps, Events, Callers
  <2>3. Goes("video", "checked", "tick")
    BY <2>1, <2>2, Moves DEF Goes
  <2> QED
    BY <1>1, <1>2, <1>3, <2>3 DEF Enters, Thread
<1>4. CASE ~Sampling
  <2>1. Goes(Thread("tick"), "leaving", "tick")
    BY <1>4, GoesBy, BoundsAssumption DEF EnterTick, Events, NoClock
  <2> QED
    BY <1>1, <1>2, <2>1 DEF Enters
<1> QED
  BY <1>3, <1>4

LEMMA CaptureSceneIs ==
    ASSUME TypeOK, CaptureScene
    PROVE  /\ UNCHANGED <<run, forced, worker>>
           /\ \/ Enters("scene", "captured") /\ Sampling /\ run.accepted /\ host.reference
              \/ Enters("scene", "leaving")
<1>1. /\ Enter("scene")
      /\ UNCHANGED <<state, queues, unload_requested, producer, host, report, run, forced, worker>>
  BY DEF CaptureScene, flags
<1>2. Woken /\ run' \in Runs /\ forced' \in BOOLEAN
  BY <1>1, Stays
<1>3. now \in 0 .. NoClock /\ 0 \in 0 .. NoClock /\ "scene" \in Events /\ faults \in Nat
  BY BoundsAssumption DEF TypeOK, NoClock, Events
<1>4. CASE ~(Sampling /\ run.accepted)
  <2>1. Returns("scene") /\ faults' \in Nat
    BY <1>3, <1>4 DEF CaptureScene
  <2> QED
    BY <1>1, <1>2, <1>3, <2>1, GoesBy DEF Enters
<1>5. CASE Sampling /\ run.accepted
  <2>1. PICK ok \in BOOLEAN : Captures(ok) /\ IF ok THEN Holds("scene", now) ELSE Returns("scene")
    BY <1>5 DEF CaptureScene
  <2>2. faults' \in Nat /\ (ok => host.reference)
    BY <2>1, CapturesIs
  <2> QED
    BY <1>1, <1>2, <1>3, <1>5, <2>1, <2>2, GoesBy DEF Enters
<1> QED
  BY <1>4, <1>5

LEMMA CaptureStartIs ==
    ASSUME TypeOK, CaptureStart
    PROVE  \/ /\ Enters("start", "captured") /\ state = "start_pending" /\ host.reference
              /\ UNCHANGED <<run, forced, worker>>
           \/ /\ Enters("start", "leaving") /\ state # "start_pending"
              /\ UNCHANGED <<run, forced, worker>>
           \/ Enters("start", "leaving") /\ ForceFailure
<1>1. /\ Enter("start")
      /\ UNCHANGED <<state, queues, unload_requested, producer, host, report>>
  BY DEF CaptureStart
<1>2. now \in 0 .. NoClock /\ 0 \in 0 .. NoClock /\ "start" \in Events /\ faults \in Nat
  BY BoundsAssumption DEF TypeOK, NoClock, Events
<1>3. /\ UNCHANGED <<run, forced, worker>> => Woken /\ run' \in Runs /\ forced' \in BOOLEAN
      /\ ForceFailure => Woken /\ run' \in Runs /\ forced' \in BOOLEAN
  BY Stays, ForceIs
<1>4. CASE state # "start_pending"
  <2>1. /\ Returns("start") /\ faults' = faults
        /\ ForceFailure \/ UNCHANGED <<run, forced, worker>>
    BY <1>4 DEF CaptureStart
  <2> QED
    BY <1>1, <1>2, <1>3, <1>4, <2>1, GoesBy DEF Enters
<1>5. CASE state = "start_pending"
  <2>1. PICK ok \in BOOLEAN :
            /\ Captures(ok)
            /\ IF ok THEN Holds("start", now) /\ UNCHANGED <<run, forced, worker>>
                     ELSE Returns("start") /\ ForceFailure
    BY <1>5 DEF CaptureStart
  <2>2. faults' \in Nat /\ (ok => host.reference)
    BY <2>1, CapturesIs
  <2> QED
    BY <1>1, <1>2, <1>3, <1>5, <2>1, <2>2, GoesBy DEF Enters
<1> QED
  BY <1>4, <1>5

LEMMA CapturePauseIs ==
    ASSUME TypeOK, NEW ev \in Pauses, CapturePause(ev)
    PROVE  \/ /\ Enters(ev, "captured") /\ state \notin Ended /\ host.reference
              /\ UNCHANGED <<run, forced, worker>>
           \/ /\ Enters(ev, "leaving") /\ state \in Ended
              /\ UNCHANGED <<run, forced, worker>>
           \/ Enters(ev, "leaving") /\ ForceFailure
<1>1. /\ Enter(ev)
      /\ UNCHANGED <<state, queues, unload_requested, producer, host, report>>
  BY DEF CapturePause
<1>2. now \in 0 .. NoClock /\ 0 \in 0 .. NoClock /\ ev \in Events
  BY BoundsAssumption DEF TypeOK, NoClock, Events, Pauses
<1>3. /\ UNCHANGED <<run, forced, worker>> => Woken /\ run' \in Runs /\ forced' \in BOOLEAN
      /\ ForceFailure => Woken /\ run' \in Runs /\ forced' \in BOOLEAN
  BY Stays, ForceIs
<1>4. PICK ok \in BOOLEAN :
            /\ Captures(ok)
            /\ IF ~ok THEN Returns(ev) /\ ForceFailure
               ELSE /\ IF state \in Ended THEN Returns(ev) ELSE Holds(ev, now)
                    /\ UNCHANGED <<run, forced, worker>>
  BY DEF CapturePause
<1>5. faults' \in Nat /\ (ok => host.reference)
  BY <1>4, CapturesIs
<1> QED
  BY <1>1, <1>2, <1>3, <1>4, <1>5, GoesBy DEF Enters

LEMMA CaptureStopIs ==
    ASSUME TypeOK, CaptureStop
    PROVE  Enters("stop", "captured") /\ UNCHANGED <<run, forced, worker>>
<1>1. /\ Enter("stop")
      /\ UNCHANGED <<state, queues, unload_requested, producer, host, report, run, forced, worker>>
  BY DEF CaptureStop, flags
<1>2. Woken /\ run' \in Runs /\ forced' \in BOOLEAN
  BY <1>1, Stays
<1>3. now \in 0 .. NoClock /\ NoClock \in 0 .. NoClock /\ "stop" \in Events /\ Thread("stop") = "output"
  BY BoundsAssumption, SMTT(30) DEF TypeOK, NoClock, Events, Thread
<1>4. CASE \E ok \in BOOLEAN : Captures(ok) /\ Holds("stop", IF ok THEN now ELSE NoClock)
  <2>1. PICK ok \in BOOLEAN : Captures(ok) /\ Holds("stop", IF ok THEN now ELSE NoClock)
    BY <1>4
  <2>2. faults' \in Nat /\ (Holds("stop", now) \/ Holds("stop", NoClock))
    BY <2>1, CapturesIs
  <2> QED
    BY <1>1, <1>2, <1>3, <2>2, GoesBy DEF Enters
<1>5. CASE /\ MayFail(FALSE)
           /\ cb' = [cb EXCEPT !["output"] = [pc |-> "captured", ev |-> "stop", at |-> now,
                                              code |-> FALSE]]
  <2> DEFINE r == [pc |-> "captured", ev |-> "stop", at |-> now, code |-> FALSE]
  <2>1. r \in CallbackType /\ r.pc = "captured" /\ r.ev = "stop"
    BY <1>3 DEF CallbackType, CallbackSteps
  <2>2. cb' = [cb EXCEPT !["output"] = r] /\ faults' \in Nat
    BY <1>5, FaultsAre
  <2> HIDE DEF r
  <2>3. cb \in [Callers -> CallbackType] /\ "output" \in Callers
    BY DEF TypeOK, CallbackType, Callers
  <2>4. Goes("output", "captured", "stop")
    BY <2>1, <2>2, <2>3, Fields DEF Goes
  <2> QED
    BY <1>1, <1>2, <1>3, <2>2, <2>4 DEF Enters
<1> QED
  BY <1>4, <1>5 DEF CaptureStop

LEMMA EntersPins ==
    ASSUME PinInv,
           \/ EnterTick \/ CaptureScene \/ CaptureStart \/ CaptureStop
           \/ \E ev \in Pauses : CapturePause(ev)
    PROVE  PinInv'
<1>1. TypeOK
  BY DEF PinInv
<1>2. ASSUME NEW ev \in Events, NEW step \in Inside, Enters(ev, step),
             step = "checked" => ev = "tick", step = "captured" => ev # "recording_starting",
             step # "leaving" => state \notin {"stopping", "unloading"} \/ host.connected
      PROVE  PinInv'
  BY <1>2, EnterPins DEF Enters
<1>3. \A ev \in Events : ev \notin {"recording_starting", "scene", "tick"} =>
          \A step \in Inside : Enters(ev, step) => host.connected
  BY DEF Enters, Enter, Listening, Registered, Thread, Events
<1>4. /\ "checked" \in Inside /\ "captured" \in Inside /\ "leaving" \in Inside
      /\ {"tick", "scene", "start", "stop"} \cup Pauses \subseteq Events
  BY DEF Inside, Events, Pauses
<1>5. Sampling => state \notin {"stopping", "unloading"}
  BY DEF Sampling
<1>6. CASE EnterTick
  BY <1>1, <1>2, <1>4, <1>5, <1>6, EnterTickIs
<1>7. CASE CaptureScene
  BY <1>1, <1>2, <1>4, <1>5, <1>7, CaptureSceneIs
<1>8. CASE CaptureStart
  BY <1>1, <1>2, <1>3, <1>4, <1>8, CaptureStartIs
<1>9. CASE CaptureStop
  BY <1>1, <1>2, <1>3, <1>4, <1>9, CaptureStopIs
<1>10. ASSUME NEW ev \in Pauses, CapturePause(ev)
       PROVE  PinInv'
  <2>1. Enters(ev, "captured") \/ Enters(ev, "leaving")
    BY <1>1, <1>10, CapturePauseIs
  <2>2. ev \in Events /\ ev \notin {"recording_starting", "scene", "tick"}
    BY DEF Events, Pauses
  <2> QED
    BY <1>2, <1>3, <1>4, <2>1, <2>2
<1> QED
  BY <1>6, <1>7, <1>8, <1>9, <1>10

LEMMA InsideWorks ==
    ASSUME PinInv, NEW c \in Callers, cb[c].pc \in Inside
    PROVE  gate.count # 0 /\ worker.pc \notin {"off", "done", "unload", "exit"}
<1>1. In(c) = 1 /\ gate.count \in Nat /\ In(c) \in 0 .. gate.count
  BY Weights DEF PinInv, TypeOK
<1>2. gate.count # 0
  BY <1>1
<1> QED
  BY <1>2 DEF PinInv, GoneInv

\* What a callback does that was inside: it goes on or leaves, and may queue a command.
Settles(c, step) ==
    /\ cb[c].pc \in {"checked", "captured"}
    /\ Goes(c, step, cb[c].ev)
    /\ UNCHANGED <<gate, bound, unload_requested, producer, host, report, obs, now, bounds>>
    /\ Woken /\ run' \in Runs /\ forced' \in BOOLEAN /\ faults' \in Nat

\* The queues keep their types and their kinds of commands.
QueuesType ==
    /\ control \in Seq(Commands) /\ Len(control) <= ControlCapacity
    /\ clock \in Commands \cup {NoCommand}
    /\ scenes \in Seq(Commands) /\ Len(scenes) <= SceneCapacity
    /\ next_order \in Nat
    /\ last_clock \in 0 .. NoClock
    /\ \A i \in 1 .. Len(control) : control[i].kind \in Pauses \cup {"start", "stop"}
    /\ \A i \in 1 .. Len(scenes) : scenes[i].kind = "scene"
    /\ clock.kind \in {"none", "anchor", "tick"}

LEMMA QueuesKeep ==
    ASSUME PinInv
    PROVE  QueuesType /\ (UNCHANGED queues => QueuesType')
<1>1. QueuesType
  BY DEF PinInv, TypeOK, KindsInv, QueuesType
<1>2. ASSUME UNCHANGED queues
      PROVE  QueuesType'
  BY <1>1, <1>2 DEF QueuesType, queues
<1> QED
  BY <1>1, <1>2

LEMMA SettlePins ==
    ASSUME PinInv, NEW c \in Callers, NEW step \in {"captured", "leaving"}, Settles(c, step),
           step = "captured" => cb[c].pc = "checked",
           QueuesType',
           state' \in States \ {"unloaded"} \/ state' = state,
           state \in {"stopping", "unloading"} => state' \in {"stopping", "unloading"}
    PROVE  PinInv'
<1> USE DEF PinInv
<1>1. SameWork /\ worker.pc # "off" /\ gate.count # 0
  BY WokenIsSame, InsideWorks DEF Settles, Inside
<1>2. TypeOK'
  <2>1. cb' \in [Callers -> CallbackType] /\ worker' \in WorkerType
    BY <1>1 DEF Goes, SameWork, Settles
  <2>2. state' \in States
    BY DEF TypeOK
  <2> QED
    BY <2>1, <2>2 DEF TypeOK, QueuesType, CallbackType, WorkerType, Settles, bounds
<1>3. CallersInv'
  <2>1. cb[c].pc = "checked" => c = "video"
    BY DEF CallersInv, Callers
  <2> QED
    BY <2>1, LeavesCounts DEF Settles
<1>4. GoneInv'
  <2>1. cb'["ui"].pc \in {"requesting", "waiting", "unloaded"} => gate.closed
    BY DEF Goes, GoneInv, Callers, Settles
  <2>2. state' = "unloaded" => state = "unloaded"
    OBVIOUS
  <2> QED
    BY <1>1, <2>1, <2>2, GoneFrame DEF Settles
<1>5. DrainInv'
  <2>1. ASSUME worker.pc \in {"authorize", "cleanup", "finish"}
        PROVE  Drained'
    <3>1. Drained
      BY <2>1 DEF DrainInv
    <3>2. cb["video"].pc # "checked" /\ cb["ui"].pc # "checked" /\ cb["output"].pc # "checked"
      BY <3>1 DEF Drained, CallersInv
    <3>3. step = "leaving"
      BY <3>2 DEF Callers
    <3> QED
      BY <3>1, <3>3 DEF Drained, Goes, Callers, Settles
  <2> QED
    BY <1>1, <2>1, DrainFrame DEF Settles
<1>6. KindsInv'
  <2>1. /\ (worker'.pc = "process" <=> worker.pc = "process") /\ worker'.cmd = worker.cmd
        /\ (worker'.pc = "publish" <=> worker.pc = "publish") /\ worker'.next = worker.next
    BY <1>1, SameWorkKeeps DEF SameWork
  <2> QED
    BY <2>1 DEF KindsInv, QueuesType
<1> QED
  BY <1>2, <1>3, <1>4, <1>5, <1>6

LEMMA CommandIs ==
    ASSUME TypeOK, NEW c \in Callers, NEW kind \in Events \cup {"anchor"}
    PROVE  /\ Command(kind, c) \in Commands
           /\ Command(kind, c).kind = kind /\ Command(kind, c).order = next_order
           /\ cb[c].at \in 0 .. NoClock
<1>1. cb[c] \in CallbackType /\ next_order \in Nat
  BY DEF TypeOK, CallbackType
<1>2. cb[c].at \in 0 .. NoClock /\ cb[c].code \in BOOLEAN
  BY <1>1 DEF CallbackType
<1>3. 0 .. NoClock \subseteq Nat
  OBVIOUS
<1> QED
  BY <1>1, <1>2, <1>3 DEF Command, Commands

LEMMA ControlQueued ==
    ASSUME PinInv, NEW c \in Callers, NEW kind \in Pauses \cup {"start", "stop"},
           Len(control) # ControlCapacity, control' = Append(control, Command(kind, c)),
           UNCHANGED <<clock, scenes>>, next_order' = next_order + 1, last_clock' \in 0 .. NoClock
    PROVE  QueuesType'
<1>1. /\ QueuesType /\ Command(kind, c) \in Commands /\ Command(kind, c).kind = kind
      /\ ControlCapacity \in Nat
  BY QueuesKeep, CommandIs, CapacityAssumption DEF PinInv, Pauses, Events
<1> HIDE DEF Command
<1> DEFINE x == Command(kind, c)
<1>2. /\ control' \in Seq(Commands) /\ Len(control') = Len(control) + 1
      /\ \A i \in 1 .. Len(control) : control'[i] = control[i]
      /\ control'[Len(control) + 1] = x
  BY <1>1, Appended DEF QueuesType
<1>3. Len(control) \in Nat
  BY <1>1, Empty DEF QueuesType
<1>4. Len(control') <= ControlCapacity
  BY <1>1, <1>2, <1>3 DEF QueuesType
<1>5. \A i \in 1 .. Len(control') : control'[i].kind \in Pauses \cup {"start", "stop"}
  BY <1>1, <1>2, <1>3 DEF QueuesType
<1> QED
  BY <1>1, <1>2, <1>4, <1>5 DEF QueuesType

LEMMA ScenesQueued ==
    ASSUME PinInv, NEW c \in Callers,
           Len(scenes) # SceneCapacity, scenes' = Append(scenes, Command("scene", c)),
           UNCHANGED <<clock, control>>, next_order' = next_order + 1, last_clock' \in 0 .. NoClock
    PROVE  QueuesType'
<1>1. /\ QueuesType /\ Command("scene", c) \in Commands /\ Command("scene", c).kind = "scene"
      /\ SceneCapacity \in Nat
  BY QueuesKeep, CommandIs, CapacityAssumption DEF PinInv, Pauses, Events
<1> DEFINE x == Command("scene", c)
<1>2. /\ scenes' \in Seq(Commands) /\ Len(scenes') = Len(scenes) + 1
      /\ \A i \in 1 .. Len(scenes) : scenes'[i] = scenes[i]
      /\ scenes'[Len(scenes) + 1] = x
  BY <1>1, Appended DEF QueuesType
<1>3. Len(scenes) \in Nat
  BY <1>1, Empty DEF QueuesType
<1>4. Len(scenes') <= SceneCapacity
  BY <1>1, <1>2, <1>3 DEF QueuesType
<1>5. \A i \in 1 .. Len(scenes') : scenes'[i].kind = "scene"
  BY <1>1, <1>2, <1>3 DEF QueuesType
<1> QED
  BY <1>1, <1>2, <1>4, <1>5 DEF QueuesType

LEMMA ClockQueued ==
    ASSUME PinInv, NEW c \in Callers, NEW kind \in {"anchor", "tick"}, clock' = Command(kind, c),
           UNCHANGED <<control, scenes>>, next_order' = next_order + 1, last_clock' \in 0 .. NoClock
    PROVE  QueuesType'
<1>1. QueuesType /\ Command(kind, c) \in Commands /\ Command(kind, c).kind = kind
  BY QueuesKeep, CommandIs DEF PinInv, Events
<1> QED
  BY <1>1 DEF QueuesType

LEMMA FindBusyIs ==
    ASSUME PinInv, NEW c \in Callers, FindBusy(c)
    PROVE  /\ Settles(c, "leaving") /\ UNCHANGED <<state, queues>>
           /\ (cb[c].ev = "scene" /\ UNCHANGED <<run, forced, worker>>) \/ ForceFailure
<1>1. /\ cb[c].pc = "captured" /\ Leaves(c) /\ MayFail(FALSE)
      /\ (cb[c].ev = "scene" /\ UNCHANGED <<run, forced, worker>>) \/ ForceFailure
      /\ UNCHANGED <<state, gate, bound, queues, unload_requested, producer, host, report, obs, now,
                     bounds>>
  BY DEF FindBusy
<1> QED
  BY <1>1, GoesOn, FaultsAre, ForceIs, Stays DEF Settles, PinInv

LEMMA CaptureTickIs ==
    ASSUME PinInv, CaptureTick
    PROVE  /\ cb["video"].pc = "checked" /\ cb["video"].ev = "tick" /\ UNCHANGED <<state, queues>>
           /\ \/ Settles("video", "leaving") /\ ForceFailure
              \/ Settles("video", "leaving") /\ UNCHANGED <<run, forced, worker>>
              \/ /\ Settles("video", "captured") /\ UNCHANGED <<run, forced, worker>>
                 /\ Sampling /\ host.reference
<1>1. /\ cb["video"].pc = "checked" /\ "video" \in Callers
      /\ UNCHANGED <<state, gate, bound, queues, unload_requested, producer, host, report, obs, now,
                     bounds>>
  BY DEF CaptureTick, Callers
<1>2. cb["video"].ev = "tick" /\ Thread("tick") = "video" /\ "tick" \in Events /\ now \in 0 .. NoClock
  BY <1>1, BoundsAssumption, SMTT(30) DEF PinInv, CallersInv, Inside, Thread, Events, TypeOK, NoClock
<1>3. PICK ok \in BOOLEAN :
        /\ Captures(ok)
        /\ IF ~ok THEN Leaves("video") /\ ForceFailure
           ELSE /\ IF Sampling THEN Holds("tick", now) ELSE Leaves("video")
                /\ UNCHANGED <<run, forced, worker>>
  BY DEF CaptureTick
<1>4. faults' \in Nat /\ (ok => host.reference)
  BY <1>3, CapturesIs DEF PinInv
<1>5. /\ Leaves("video") => Goes("video", "leaving", "tick")
      /\ Holds("tick", now) => Goes("video", "captured", "tick")
  BY <1>1, <1>2, GoesOn, GoesBy DEF PinInv
<1> QED
  BY <1>1, <1>2, <1>3, <1>4, <1>5, ForceIs, Stays DEF Settles, PinInv

\* A command is queued with the next number.
Queued(c) == next_order' = next_order + 1 /\ Woken /\ UNCHANGED forced

\* What an ignored or rejected callback leaves behind.
LEMMA SettlesBy ==
    ASSUME PinInv, NEW c \in Callers, cb[c].pc = "captured", Leaves(c),
           UNCHANGED <<gate, bound, unload_requested, producer, host, report, obs, now, bounds,
                       faults>>,
           Woken, run' \in Runs, forced' \in BOOLEAN
    PROVE  Settles(c, "leaving")
BY GoesOn DEF Settles, PinInv, TypeOK

LEMMA IgnoreIs ==
    ASSUME PinInv, NEW c \in Callers, Ignore(c)
    PROVE  /\ Leaves(c) /\ UNCHANGED <<state, queues, run, forced, worker>>
           /\ Woken /\ run' \in Runs /\ forced' \in BOOLEAN /\ QueuesType'
BY Stays, QueuesKeep DEF Ignore, PinInv, queues

LEMMA RejectIs ==
    ASSUME PinInv, NEW c \in Callers, Reject(c)
    PROVE  /\ Leaves(c) /\ UNCHANGED <<state, queues>> /\ ForceFailure
           /\ Woken /\ run' \in Runs /\ forced' \in BOOLEAN /\ QueuesType'
BY ForceIs, QueuesKeep DEF Reject, PinInv, queues

LEMMA AcceptIs ==
    ASSUME PinInv, NEW c \in Callers, Accept(c)
    PROVE  /\ Leaves(c) /\ Queued(c) /\ Woken /\ forced' \in BOOLEAN
           /\ last_clock' = cb[c].at /\ last_clock' \in 0 .. NoClock
BY CommandIs DEF Accept, Queued, Woken, PinInv, TypeOK

LEMMA QueueStartIs ==
    ASSUME PinInv, QueueStart
    PROVE  /\ cb["output"].pc = "captured" /\ cb["output"].ev = "start"
           /\ Settles("output", "leaving") /\ UNCHANGED state /\ QueuesType'
           /\ \/ ForceFailure /\ UNCHANGED queues
              \/ /\ Queued("output") /\ UNCHANGED <<clock, scenes, run>>
                 /\ control' = Append(control, Command("start", "output"))
<1>1. /\ cb["output"].pc = "captured" /\ cb["output"].ev = "start" /\ "output" \in Callers
      /\ UNCHANGED <<gate, bound, unload_requested, producer, host, report, obs, now, bounds, faults>>
  BY DEF QueueStart, Locks, Callers
<1>2. CASE Reject("output")
  BY <1>1, <1>2, RejectIs, SettlesBy
<1>3. CASE /\ Len(control) # ControlCapacity /\ Accept("output")
           /\ control' = Append(control, Command("start", "output"))
           /\ UNCHANGED <<state, clock, scenes, run>>
  <2>1. run' \in Runs
    BY <1>3 DEF PinInv, TypeOK
  <2> QED
    BY <1>1, <1>3, <2>1, AcceptIs, SettlesBy, ControlQueued DEF Queued
<1> QED
  BY <1>2, <1>3 DEF QueueStart

LEMMA QueuePauseIs ==
    ASSUME PinInv, QueuePause
    PROVE  /\ cb["output"].pc = "captured" /\ cb["output"].ev \in Pauses
           /\ Settles("output", "leaving") /\ QueuesType'
           /\ \/ UNCHANGED <<state, queues>> /\ ForceFailure
              \/ UNCHANGED <<state, queues, run, forced, worker>> /\ state \in Ended
              \/ /\ Queued("output") /\ UNCHANGED <<clock, scenes>>
                 /\ state \notin Ended /\ state' = (IF cb["output"].ev = "pause" THEN "paused" ELSE state)
                 /\ control' = Append(control, Command(cb["output"].ev, "output"))
                 /\ run.accepted
                 /\ run' = [run EXCEPT !.pending = @ + 1, !.paused = (cb["output"].ev = "pause"),
                                       !.pause_seen = @ \/ (cb["output"].ev = "pause")]
<1> DEFINE pausing == cb["output"].ev = "pause"
<1>1. /\ cb["output"].pc = "captured" /\ cb["output"].ev \in Pauses /\ "output" \in Callers
      /\ UNCHANGED <<gate, bound, unload_requested, producer, host, report, obs, now, bounds, faults>>
  BY DEF QueuePause, Locks, Callers, Pauses
<1>2. CASE Reject("output")
  BY <1>1, <1>2, RejectIs, SettlesBy
<1>3. CASE Ignore("output") /\ state \in Ended
  BY <1>1, <1>3, IgnoreIs, SettlesBy
<1>4. CASE /\ state \notin Ended /\ run.accepted /\ Len(control) # ControlCapacity
           /\ Accept("output")
           /\ control' = Append(control, Command(cb["output"].ev, "output"))
           /\ run' = [run EXCEPT !.pending = @ + 1, !.paused = pausing,
                                 !.pause_seen = @ \/ pausing]
           /\ state' = IF pausing THEN "paused" ELSE state
           /\ UNCHANGED <<clock, scenes>>
  <2>1. run \in Runs
    BY DEF PinInv, TypeOK
  <2>2. run.pending + 1 \in Nat /\ (run.pause_seen \/ pausing) \in BOOLEAN /\ pausing \in BOOLEAN
    BY <2>1 DEF Runs
  <2>3. run' \in Runs
    BY <1>4, <2>1, <2>2 DEF Runs
  <2> QED
    BY <1>1, <1>4, <2>3, AcceptIs, SettlesBy, ControlQueued DEF Queued
<1> QED
  BY <1>2, <1>3, <1>4 DEF QueuePause

LEMMA QueueStopIs ==
    ASSUME PinInv, QueueStop
    PROVE  /\ cb["output"].pc = "captured" /\ cb["output"].ev = "stop"
           /\ Settles("output", "leaving") /\ QueuesType'
           /\ \/ UNCHANGED <<state, queues>> /\ ForceFailure
              \/ UNCHANGED <<state, queues, run, forced, worker>> /\ state \in Ended
              \/ /\ Queued("output") /\ UNCHANGED <<clock, scenes>>
                 /\ state \notin Ended /\ state' = "stopping"
                 /\ control' = Append(control, Command("stop", "output"))
                 /\ run' = [run EXCEPT !.accepting = FALSE]
<1>1. /\ cb["output"].pc = "captured" /\ cb["output"].ev = "stop" /\ "output" \in Callers
      /\ UNCHANGED <<gate, bound, unload_requested, producer, host, report, obs, now, bounds, faults>>
  BY DEF QueueStop, Locks, Callers
<1>2. CASE Reject("output")
  BY <1>1, <1>2, RejectIs, SettlesBy
<1>3. CASE Ignore("output") /\ state \in Ended
  BY <1>1, <1>3, IgnoreIs, SettlesBy
<1>4. CASE /\ state \notin Ended /\ Len(control) # ControlCapacity
           /\ Leaves("output")
           /\ next_order' = next_order + 1
           /\ last_clock' = IF cb["output"].at # NoClock THEN cb["output"].at ELSE last_clock
           /\ worker' = NotifyCommand(worker)
           /\ control' = Append(control, Command("stop", "output"))
           /\ run' = [run EXCEPT !.accepting = FALSE]
           /\ state' = "stopping"
           /\ UNCHANGED <<clock, scenes, forced>>
  <2>1. run' \in Runs /\ forced' \in BOOLEAN /\ last_clock \in 0 .. NoClock
    BY <1>4 DEF PinInv, TypeOK, Runs
  <2>2. last_clock' \in 0 .. NoClock
    BY <1>1, <1>4, <2>1, CommandIs DEF PinInv
  <2>3. Woken /\ Queued("output")
    BY <1>4 DEF Woken, Queued
  <2> QED
    BY <1>1, <1>4, <2>1, <2>2, <2>3, SettlesBy, ControlQueued
<1> QED
  BY <1>2, <1>3, <1>4 DEF QueueStop

LEMMA QueueTickIs ==
    ASSUME PinInv, QueueTick
    PROVE  /\ cb["video"].pc = "captured" /\ cb["video"].ev = "tick"
           /\ Settles("video", "leaving") /\ QueuesType' /\ UNCHANGED <<state, control, scenes>>
           /\ run'.accepted = run.accepted /\ run'.paused = run.paused /\ run'.pending = run.pending
           /\ \/ UNCHANGED <<queues, run, forced, worker>>
              \/ /\ Sampling /\ UNCHANGED <<queues, forced, worker>>
                 /\ run'.accepting = run.accepting
              \/ UNCHANGED queues /\ ~run'.accepting /\ forced'
              \/ /\ Sampling /\ Queued("video") /\ run'.accepting = run.accepting
                 /\ clock = NoCommand
                 /\ \/ clock' = Command("anchor", "video") /\ ~run.claimed
                    \/ clock' = Command("tick", "video") /\ run.accepted
<1> DEFINE at == cb["video"].at
           anchor == ~run.claimed
           relative == at - run.origin
           advanced == IF anchor THEN [run EXCEPT !.claimed = TRUE]
                       ELSE [run EXCEPT !.due = relative + Interval]
<1>1. /\ cb["video"].pc = "captured" /\ cb["video"].ev = "tick" /\ "video" \in Callers
      /\ UNCHANGED <<gate, bound, unload_requested, producer, host, report, obs, now, bounds, faults>>
  BY DEF QueueTick, Locks, Callers
<1>2. run \in Runs /\ at \in Nat /\ Interval \in Nat
  BY <1>1, CommandIs, BoundsAssumption DEF PinInv, TypeOK, NoClock, Events
<1>3. /\ advanced \in Runs /\ advanced.accepting = run.accepting
      /\ advanced.accepted = run.accepted /\ advanced.paused = run.paused
      /\ advanced.pending = run.pending
  <2>1. relative + Interval \in Int
    BY <1>2 DEF Runs
  <2> QED
    BY <1>2, <2>1 DEF Runs
<1>4. CASE Ignore("video")
  BY <1>1, <1>4, IgnoreIs, SettlesBy DEF queues
<1>5. CASE /\ Leaves("video")
           /\ run' = [advanced EXCEPT !.accepting = FALSE]
           /\ forced' = TRUE
           /\ worker' = NotifyCommand(worker)
           /\ UNCHANGED <<state, control, clock, scenes, next_order, last_clock>>
  <2> HIDE DEF advanced
  <2>1. /\ run' \in Runs /\ run'.accepting = FALSE /\ run'.accepted = run.accepted
        /\ run'.paused = run.paused /\ run'.pending = run.pending
    BY <1>3, <1>5 DEF Runs
  <2>2. Woken /\ forced' \in BOOLEAN
    BY <1>5 DEF Woken
  <2> QED
    BY <1>1, <1>5, <2>1, <2>2, SettlesBy, QueuesKeep DEF queues
<1>6. CASE /\ Sampling /\ Leaves("video")
           /\ run' = advanced
           /\ UNCHANGED <<state, control, clock, scenes, next_order, last_clock, forced, worker>>
  <2> HIDE DEF advanced
  <2>1. Woken /\ forced' \in BOOLEAN
    BY <1>6 DEF Woken, PinInv, TypeOK
  <2> QED
    BY <1>1, <1>3, <1>6, <2>1, SettlesBy, QueuesKeep DEF queues
<1>7. CASE /\ Sampling /\ (anchor \/ run.accepted) /\ clock = NoCommand
           /\ Accept("video")
           /\ clock' = Command(IF anchor THEN "anchor" ELSE "tick", "video")
           /\ run' = advanced
           /\ UNCHANGED <<state, control, scenes>>
  <2>1. \/ clock' = Command("anchor", "video") /\ ~run.claimed
        \/ clock' = Command("tick", "video") /\ run.accepted
    BY <1>7
  <2> HIDE DEF advanced, anchor
  <2>2. QueuesType'
    BY <1>1, <1>7, <2>1, AcceptIs, ClockQueued DEF Queued
  <2> QED
    BY <1>1, <1>3, <1>7, <2>1, <2>2, AcceptIs, SettlesBy DEF Queued
<1> QED
  BY <1>4, <1>5, <1>6, <1>7 DEF QueueTick

LEMMA QueueSceneIs ==
    ASSUME PinInv, QueueScene
    PROVE  /\ cb["ui"].pc = "captured" /\ cb["ui"].ev = "scene"
           /\ Settles("ui", "leaving") /\ QueuesType' /\ UNCHANGED <<state, control, clock, run>>
           /\ \/ UNCHANGED <<queues, forced, worker>>
              \/ /\ Sampling /\ run.accepted /\ Queued("ui")
                 /\ scenes' = Append(scenes, Command("scene", "ui"))
<1>1. /\ cb["ui"].pc = "captured" /\ cb["ui"].ev = "scene" /\ "ui" \in Callers
      /\ UNCHANGED <<gate, bound, unload_requested, producer, host, report, obs, now, bounds, faults>>
  BY DEF QueueScene, Locks, Callers
<1>2. CASE Ignore("ui")
  BY <1>1, <1>2, IgnoreIs, SettlesBy DEF queues
<1>3. CASE /\ Sampling /\ run.accepted /\ Len(scenes) # SceneCapacity
           /\ Accept("ui")
           /\ scenes' = Append(scenes, Command("scene", "ui"))
           /\ UNCHANGED <<state, control, clock, run>>
  <2>1. run' \in Runs
    BY <1>3 DEF PinInv, TypeOK
  <2> QED
    BY <1>1, <1>3, <2>1, AcceptIs, SettlesBy, ScenesQueued DEF Queued
<1> QED
  BY <1>2, <1>3 DEF QueueScene

LEMMA SettlesPins ==
    ASSUME PinInv, Queue \/ CaptureTick \/ \E c \in Callers : FindBusy(c)
    PROVE  PinInv'
<1>1. UNCHANGED queues => QueuesType'
  BY QueuesKeep
<1>2. Callers = {"ui", "video", "output"} /\ {"idle", "stopping", "paused"} \subseteq States
  BY DEF Callers, States
<1>3. {"stopping", "unloading"} \subseteq Ended
  BY DEF Ended
<1>4. ASSUME NEW c \in Callers, FindBusy(c)
      PROVE  PinInv'
  BY <1>1, <1>4, FindBusyIs, SettlePins
<1>5. CASE CaptureTick
  BY <1>1, <1>2, <1>5, CaptureTickIs, SettlePins
<1>6. CASE QueueStart
  BY <1>2, <1>6, QueueStartIs, SettlePins
<1>7. CASE QueuePause
  <2>1. /\ state \in {"stopping", "unloading"} => state' \in {"stopping", "unloading"}
        /\ state' \in States \ {"unloaded"} \/ state' = state
    BY <1>2, <1>3, <1>7, QueuePauseIs
  <2> QED
    BY <1>2, <1>7, <2>1, QueuePauseIs, SettlePins
<1>8. CASE QueueStop
  <2>1. /\ state \in {"stopping", "unloading"} => state' \in {"stopping", "unloading"}
        /\ state' \in States \ {"unloaded"} \/ state' = state
    BY <1>2, <1>3, <1>8, QueueStopIs
  <2> QED
    BY <1>2, <1>8, <2>1, QueueStopIs, SettlePins
<1>9. CASE QueueTick
  BY <1>2, <1>9, QueueTickIs, SettlePins
<1>10. CASE QueueScene
  BY <1>2, <1>10, QueueSceneIs, SettlePins
<1> QED
  BY <1>4, <1>5, <1>6, <1>7, <1>8, <1>9, <1>10 DEF Queue

-----------------------------------------------------------------------------
(* Leaving, binding, loading and unloading *)

LEMMA LeaveIs ==
    ASSUME PinInv, NEW c \in Callers, Leave(c)
    PROVE  /\ cb[c].pc = "leaving" /\ Goes(c, "out", "none") /\ Woken
           /\ UNCHANGED <<state, queues, flags, run, producer, host, report, obs, now, bounds,
                          faults>>
BY LeaveCounts DEF Leave, Woken, PinInv

LEMMA LeavePins ==
    ASSUME PinInv, NEW c \in Callers, Leave(c)
    PROVE  PinInv'
<1> USE DEF PinInv
<1>1. /\ cb[c].pc = "leaving" /\ Goes(c, "out", "none") /\ SameWork
      /\ UNCHANGED <<state, queues, flags, run, producer, host, report, obs, now, bounds, faults>>
  BY LeaveIs, WokenIsSame
<1>2. gate.count # 0 /\ worker.pc # "off"
  BY <1>1, InsideWorks DEF Inside
<1>3. /\ CallersInv' /\ bound' \in 0 .. 3
      /\ gate' \in [closed : BOOLEAN, count : 0 .. 3] /\ gate'.closed = gate.closed
  BY LeaveCounts
<1>4. TypeOK'
  <2>1. cb' \in [Callers -> CallbackType] /\ worker' \in WorkerType
    BY <1>1 DEF Goes, SameWork
  <2> QED
    BY <1>1, <1>3, <2>1 DEF TypeOK, CallbackType, WorkerType, queues, flags, bounds
<1>5. GoneInv'
  <2>1. cb'["ui"].pc \in {"requesting", "waiting", "unloaded"} => gate.closed
    BY <1>1 DEF Goes, GoneInv, Callers
  <2> QED
    BY <1>1, <1>2, <1>3, <2>1, GoneFrame DEF flags
<1>6. DrainInv'
  <2>1. Drained => Drained'
    BY <1>1 DEF Drained, Goes, Callers
  <2>2. worker.pc \in {"authorize", "cleanup", "finish"} => Drained'
    BY <2>1 DEF DrainInv
  <2> QED
    BY <1>1, <2>2, DrainFrame
<1>7. KindsInv'
  BY <1>1, KindsFrame DEF queues
<1> QED
  BY <1>3, <1>4, <1>5, <1>6, <1>7

LEMMA TurnedAwayPins ==
    ASSUME PinInv, NEW ev \in Events, TurnedAway(ev)
    PROVE  PinInv'
<1> USE DEF PinInv
<1>1. UNCHANGED <<state, gate, bound, cb, queues, flags, run, producer, host, worker, report, faults>>
  BY DEF TurnedAway
<1>2. TypeOK'
  <2>1. Signal(ev)
    BY DEF TurnedAway
  <2> QED
    BY <1>1, <2>1, SignalIs DEF TypeOK, queues, flags
<1>3. CallersInv'
  BY <1>1, SameCounts
<1>4. DrainInv' /\ KindsInv'
  BY <1>1 DEF DrainInv, KindsInv, Heading, Drained, queues
<1>5. GoneInv'
  <2>1. worker.pc # "off"
    BY DEF TurnedAway, Signal
  <2> QED
    BY <1>1, <2>1 DEF GoneInv, Heading, flags, queues
<1> QED
  BY <1>2, <1>3, <1>4, <1>5

HostType == [installed : BOOLEAN, reference : BOOLEAN, connected : BOOLEAN, pinned : BOOLEAN]

LEMMA HostIs ==
    ASSUME NEW h \in HostType
    PROVE  /\ ReleaseOutput(h) \in HostType /\ ~ReleaseOutput(h).reference
           /\ ~ReleaseOutput(h).connected /\ ReleaseOutput(h).pinned = h.pinned
           /\ ReleaseOutput(h).installed = h.installed
           /\ DisconnectSignals(h) \in HostType /\ ~DisconnectSignals(h).connected
           /\ DisconnectSignals(h).reference = h.reference
           /\ DisconnectSignals(h).pinned = h.pinned
           /\ DisconnectSignals(h).installed = h.installed
BY DEF HostType, ReleaseOutput, DisconnectSignals

\* Only an idle adapter that listens acquires the output.
LEMMA OnRecordingStartingIs ==
    ASSUME TypeOK, OnRecordingStarting
    PROVE  /\ Enter("recording_starting") /\ Goes("ui", "leaving", "recording_starting")
           /\ UNCHANGED <<queues, flags, producer, worker, report>>
           /\ faults' \in Nat /\ run' \in Runs
           /\ run'.accepting = run.accepting /\ run'.accepted = run.accepted
           /\ \/ UNCHANGED <<state, host, run>>
              \/ /\ state = "idle" /\ state' = "idle"
                 /\ host' = [host EXCEPT !.reference = FALSE, !.connected = FALSE]
                 /\ ~run'.paused /\ run'.pending = 0
              \/ /\ state = "idle" /\ state' = "start_pending"
                 /\ host' = [host EXCEPT !.reference = TRUE, !.connected = TRUE]
                 /\ ~run'.paused /\ run'.pending = 0
<1>1. /\ Enter("recording_starting") /\ Returns("recording_starting")
      /\ UNCHANGED <<queues, flags, producer, worker, report>>
  BY DEF OnRecordingStarting
<1>2. Thread("recording_starting") = "ui" /\ "recording_starting" \in Events /\ 0 \in 0 .. NoClock
  BY BoundsAssumption DEF Thread, Events, NoClock
<1>3. Goes("ui", "leaving", "recording_starting")
  BY <1>1, <1>2, GoesBy
<1>4. run \in Runs /\ faults \in Nat
  BY DEF TypeOK
<1> DEFINE cleared == [run EXCEPT !.paused = FALSE, !.pending = 0, !.pause_seen = FALSE]
<1>5. /\ cleared \in Runs /\ cleared.accepting = run.accepting /\ cleared.accepted = run.accepted
      /\ ~cleared.paused /\ cleared.pending = 0
  BY <1>4 DEF Runs
<1>6. /\ \/ UNCHANGED <<state, host, run>>
         \/ /\ state = "idle" /\ state' = "idle" /\ run' = cleared
            /\ host' = ReleaseOutput(AcquireOutput(host))
         \/ /\ state = "idle" /\ state' = "start_pending" /\ run' = cleared
            /\ host' = ConnectSignals(AcquireOutput(host))
      /\ faults' = faults \/ MayFail(TRUE) \/ MayFail(FALSE)
  BY DEF OnRecordingStarting
<1> HIDE DEF cleared
<1>7. faults' \in Nat
  BY <1>4, <1>6, FaultsAre
<1>8. ConnectSignals(AcquireOutput(host)) = [host EXCEPT !.reference = TRUE, !.connected = TRUE]
  BY DEF ConnectSignals, AcquireOutput
<1>9. ReleaseOutput(AcquireOutput(host)) = [host EXCEPT !.reference = FALSE, !.connected = FALSE]
  BY DEF ReleaseOutput, AcquireOutput
<1> QED
  BY <1>1, <1>3, <1>4, <1>5, <1>6, <1>7, <1>8, <1>9

LEMMA OnRecordingStartingPins ==
    ASSUME PinInv, OnRecordingStarting
    PROVE  PinInv'
<1> USE DEF PinInv
<1>1. /\ Enter("recording_starting") /\ Goes("ui", "leaving", "recording_starting")
      /\ UNCHANGED <<queues, flags, producer, worker, report>>
      /\ faults' \in Nat /\ run' \in Runs
      /\ \/ UNCHANGED <<state, host>>
         \/ /\ state = "idle" /\ state' \in {"idle", "start_pending"}
            /\ \/ host' = [host EXCEPT !.reference = FALSE, !.connected = FALSE]
               \/ host' = [host EXCEPT !.reference = TRUE, !.connected = TRUE]
  BY OnRecordingStartingIs
<1>2. /\ "recording_starting" \in Events /\ Thread("recording_starting") = "ui"
      /\ "leaving" \in Inside /\ "ui" \in Callers
  BY DEF Events, Thread, Inside, Callers
<1>3. /\ CallersInv' /\ bound' \in 0 .. 3
      /\ gate' \in [closed : BOOLEAN, count : 0 .. 3] /\ gate'.closed = gate.closed
      /\ cb["ui"].pc = "out" /\ gate.closed = FALSE
  BY <1>1, <1>2, EnterCounts
<1>4. Signal("recording_starting") /\ SameWork
  BY <1>1, WokenIsSame DEF Enter, Woken
<1>5. host' \in [installed : BOOLEAN, reference : BOOLEAN, connected : BOOLEAN, pinned : BOOLEAN]
  BY <1>1, ZenonT(30) DEF TypeOK
<1>6. TypeOK'
  <2>1. cb' \in [Callers -> CallbackType] /\ state' \in States
    BY <1>1 DEF Goes, TypeOK, States
  <2> QED
    BY <1>1, <1>2, <1>3, <1>4, <1>5, <2>1, SignalIs DEF TypeOK, queues, flags, CallbackType
<1>7. GoneInv'
  <2>1. cb'["ui"].pc \notin {"requesting", "waiting", "unloaded"} /\ worker.pc # "off"
    BY <1>1, <1>2, <1>4, SignalIs DEF Goes
  <2>2. host'.pinned = host.pinned /\ (state' = "unloaded" => state = "unloaded")
    BY <1>1 DEF TypeOK
  <2> QED
    BY <1>1, <1>3, <1>4, <2>1, <2>2, GoneFrame DEF flags
<1>8. DrainInv'
  <2>1. Drained => Drained'
    BY <1>1 DEF Drained, Goes, Callers
  <2>2. worker.pc \in {"authorize", "cleanup", "finish"} => Drained'
    BY <2>1 DEF DrainInv
  <2> QED
    BY <1>1, <1>4, <2>2, DrainFrame
<1>9. KindsInv'
  BY <1>1, <1>4, KindsFrame DEF queues
<1> QED
  BY <1>3, <1>6, <1>7, <1>8, <1>9

LEMMA LoadPins ==
    ASSUME PinInv, Load
    PROVE  PinInv'
<1> USE DEF PinInv
<1>1. /\ worker.pc = "off" /\ faults' \in Nat
      /\ UNCHANGED <<bound, cb, queues, flags, run, producer, report, obs, now, bounds>>
      /\ \/ /\ state' = "idle" /\ gate' = [closed |-> FALSE, count |-> 0]
            /\ host' = [host EXCEPT !.pinned = TRUE, !.installed = TRUE]
            /\ worker' = [worker EXCEPT !.pc = "wait"]
         \/ worker' = [worker EXCEPT !.pc = "done"] /\ UNCHANGED <<state, gate, host>>
  BY FaultsAre DEF Load, ModuleLoad, InstallCallbacks, RetainModule
<1>2. worker \in WorkerType /\ host \in HostType /\ state \in States
      /\ gate \in [closed : BOOLEAN, count : 0 .. 3]
  BY DEF TypeOK, WorkerType, HostType
<1>3. /\ gate.closed /\ gate.count = 0 /\ ~host.pinned /\ ~host.reference /\ ~host.connected
      /\ ~producer.open /\ cb["ui"].pc = "out" /\ ~unload_requested
  BY <1>1 DEF GoneInv
<1>4. /\ worker' \in WorkerType /\ worker'.pc \in {"wait", "done"}
      /\ \A w : w \in {"wait", "done"} => w \in WorkerSteps
  BY <1>1, <1>2 DEF WorkerType, WorkerSteps
<1>5. host' \in HostType /\ ~host'.reference /\ ~host'.connected
  BY <1>1, <1>2, <1>3 DEF HostType
<1>6. gate'.count = 0 /\ gate' \in [closed : BOOLEAN, count : 0 .. 3] /\ state' \in States
  <2>1. [closed |-> FALSE, count |-> 0] \in [closed : BOOLEAN, count : 0 .. 3] /\ "idle" \in States
    BY DEF States
  <2>2. \/ gate' = [closed |-> FALSE, count |-> 0] /\ state' = "idle"
        \/ UNCHANGED <<state, gate>>
    BY <1>1
  <2>3. gate'.count = 0
    BY <1>3, <2>2
  <2> QED
    BY <1>2, <2>1, <2>2, <2>3
<1>7. \/ worker'.pc = "wait" /\ host'.pinned /\ state' = "idle"
      \/ worker'.pc = "done" /\ ~host'.pinned /\ gate'.closed
  BY <1>1, <1>2, <1>3 DEF WorkerType, HostType
<1>8. TypeOK'
  BY <1>1, <1>4, <1>5, <1>6 DEF TypeOK, WorkerType, HostType, queues, flags, bounds
<1>9. CallersInv'
  BY <1>1, <1>3, <1>6 DEF CallersInv, In, InBound
<1>10. worker.pc \notin Drains /\ worker'.pc \notin Drains
  BY <1>1, <1>4 DEF Drains
<1>11. DrainInv' /\ KindsInv'
  BY <1>1, <1>4, <1>10 DEF DrainInv, KindsInv, Heading, queues
<1>12. GoneInv'
  <2>1. /\ cb' = cb /\ unload_requested' = unload_requested /\ producer' = producer
        /\ worker'.pc \notin {"exit", "unload", "off"} /\ ~Heading("unload")' /\ ~Heading("release")'
        /\ ~Heading("cleanup")'
    BY <1>1, <1>4, <1>10 DEF Heading, flags
  <2> QED
    BY <1>3, <1>5, <1>6, <1>7, <2>1 DEF GoneInv
<1> QED
  BY <1>8, <1>9, <1>11, <1>12

LEMMA UnloadPins ==
    ASSUME PinInv, Unload
    PROVE  PinInv'
<1> USE DEF PinInv
<1>1. /\ host.installed /\ cb["ui"].pc = "out" /\ "ui" \in Callers
      /\ gate' = [gate EXCEPT !.closed = TRUE]
      /\ Woken /\ host' = RemoveCallbacks(host) /\ run' = [run EXCEPT !.accepting = FALSE]
      /\ cb' = [cb EXCEPT !["ui"].pc = "requesting"]
      /\ UNCHANGED <<state, bound, queues, flags, producer, report, obs, now, bounds, faults>>
  BY DEF Unload, Woken, Callers
<1>2. SameWork /\ Goes("ui", "requesting", cb["ui"].ev) /\ worker.pc # "off"
  BY <1>1, WokenIsSame, GoesOn DEF CallbackSteps, GoneInv
<1>3. /\ gate' \in [closed : BOOLEAN, count : 0 .. 3] /\ gate'.closed /\ gate'.count = gate.count
      /\ run' \in Runs
      /\ host' \in [installed : BOOLEAN, reference : BOOLEAN, connected : BOOLEAN, pinned : BOOLEAN]
      /\ host'.pinned = host.pinned /\ host'.reference = host.reference
      /\ host'.connected = host.connected
  BY <1>1 DEF TypeOK, Runs, RemoveCallbacks
<1>4. TypeOK'
  <2>1. cb' \in [Callers -> CallbackType] /\ worker' \in WorkerType
    BY <1>2 DEF Goes, SameWork
  <2> QED
    BY <1>1, <1>3, <2>1 DEF TypeOK, CallbackType, WorkerType, queues, flags, bounds
<1>5. CallersInv'
  BY <1>1, <1>2, <1>3, UiCounts DEF Inside
<1>6. GoneInv'
  BY <1>1, <1>2, <1>3, GoneFrame DEF flags
<1>7. DrainInv'
  <2>1. Drained => Drained'
    BY <1>2 DEF Drained, Goes, Callers
  <2>2. worker.pc \in {"authorize", "cleanup", "finish"} => Drained'
    BY <2>1 DEF DrainInv
  <2> QED
    BY <1>1, <1>2, <1>3, <2>2, DrainFrame
<1>8. KindsInv'
  BY <1>1, <1>2, KindsFrame DEF queues
<1> QED
  BY <1>4, <1>5, <1>6, <1>7, <1>8

LEMMA UnloadStepPins ==
    ASSUME PinInv, UnloadStep
    PROVE  PinInv'
<1> USE DEF PinInv
<1> DEFINE step == cb'["ui"].pc
<1>1. /\ cb["ui"].pc \in {"requesting", "waiting"} /\ step \in {"waiting", "unloaded"}
      /\ Goes("ui", step, cb["ui"].ev)
      /\ Woken /\ worker.pc # "off" /\ gate.closed
      /\ UNCHANGED <<gate, bound, queues, run, producer, host, report, obs, now, bounds, faults>>
      /\ \/ state' = "unloading" /\ unload_requested' /\ forced' \in BOOLEAN /\ unload_requested' \in BOOLEAN
         \/ state' = "unloaded" /\ worker.pc = "done" /\ UNCHANGED flags
         \/ UNCHANGED <<state, flags>>
  <2>1. cb \in [Callers -> CallbackType] /\ "ui" \in Callers /\ {"waiting", "unloaded"} \subseteq CallbackSteps
    BY DEF TypeOK, CallbackType, Callers, CallbackSteps
  <2>2. \A s \in {"waiting", "unloaded"} : cb' = [cb EXCEPT !["ui"].pc = s] =>
            step = s /\ Goes("ui", s, cb["ui"].ev)
    BY <2>1, GoesOn DEF Goes
  <2>3. cb["ui"].pc \in {"requesting", "waiting"} => worker.pc # "off" /\ gate.closed
    BY DEF GoneInv
  <2> QED
    BY <2>2, <2>3 DEF UnloadStep, RequestUnload, JoinWorker, UnloadExpires, Woken, flags
<1> HIDE DEF step
<1>2. SameWork
  BY <1>1, WokenIsSame
<1>3. TypeOK'
  <2>1. cb' \in [Callers -> CallbackType] /\ worker' \in WorkerType
    BY <1>1, <1>2 DEF Goes, SameWork
  <2>2. state' \in States /\ forced' \in BOOLEAN /\ unload_requested' \in BOOLEAN
    BY <1>1 DEF TypeOK, States, flags
  <2> QED
    BY <1>1, <2>1, <2>2 DEF TypeOK, CallbackType, WorkerType, queues, bounds
<1>4. CallersInv'
  BY <1>1, UiCounts DEF Inside
<1>5. DrainInv'
  <2>1. Drained => Drained'
    BY <1>1 DEF Drained, Goes, Callers
  <2>2. worker.pc \in {"authorize", "cleanup", "finish"} => Drained'
    BY <2>1 DEF DrainInv
  <2>3. CASE state' # "unloaded" \/ state' = state
    BY <1>1, <1>2, <2>2, <2>3, DrainFrame
  <2>4. CASE worker.pc = "done"
    <3>1. worker'.pc = "done" /\ ~Heading("authorize")' /\ ~Heading("cleanup")' /\ worker'.pc \notin Drains
      BY <1>2, <2>4, SameWorkKeeps DEF Heading, Drains
    <3> QED
      BY <3>1 DEF DrainInv
  <2> QED
    BY <1>1, <2>3, <2>4
<1>6. KindsInv'
  BY <1>1, <1>2, KindsFrame DEF queues
<1>7. GoneInv'
  <2>1. /\ Heading("cleanup")' <=> Heading("cleanup")
        /\ Heading("unload")' <=> Heading("unload")
        /\ Heading("release")' <=> Heading("release")
        /\ worker'.pc # "off"
        /\ worker'.pc = "exit" <=> worker.pc = "exit"
        /\ worker'.pc = "done" <=> worker.pc = "done"
        /\ worker'.pc = "unload" <=> worker.pc = "unload"
        /\ worker'.back = worker.back
    BY <1>1, <1>2, SameWorkKeeps DEF SameWork
  <2>2. unload_requested => unload_requested'
    BY <1>1 DEF flags
  <2> QED
    BY <1>1, <2>1, <2>2 DEF GoneInv
<1> QED
  BY <1>3, <1>4, <1>5, <1>6, <1>7

-----------------------------------------------------------------------------
(* The steps of the worker *)

\* What the worker leaves to the threads of OBS; the rest keeps its types.
Works ==
    /\ worker.pc \notin {"off", "done"}
    /\ UNCHANGED <<cb, gate, bound, unload_requested, obs, now, bounds>>
    /\ state' \in States /\ QueuesType' /\ forced' \in BOOLEAN /\ run' \in Runs
    /\ producer' \in Producers /\ host' \in HostType /\ worker' \in WorkerType
    /\ report' \in [successful : BOOLEAN, records : Producers, sent : Seq(Pauses)]
    /\ faults' \in Nat

LEMMA WorksIs ==
    ASSUME PinInv, Works
    PROVE  TypeOK' /\ CallersInv' /\ (Drained' <=> Drained)
BY SameCounts DEF PinInv, Works, TypeOK, QueuesType, WorkerType, HostType, Drained, bounds

\* A step to where the worker waits, or has a command.
LEMMA RestPins ==
    ASSUME PinInv, Works,
           worker'.pc \in {"wait", "commit", "asleep", "publish", "process"},
           worker'.pc = "process" => worker'.cmd \in Commands,
           worker'.pc = "publish" => worker'.next \in {"active", "paused"},
           state' # "unloaded", host'.pinned = host.pinned
    PROVE  PinInv'
<1> USE DEF PinInv
<1>1. TypeOK' /\ CallersInv'
  BY WorksIs
<1>2. /\ worker'.pc \notin Drains /\ ~Heading("authorize")' /\ ~Heading("cleanup")'
      /\ ~Heading("unload")' /\ ~Heading("release")'
  BY DEF Heading, Drains
<1>3. DrainInv'
  BY <1>2 DEF DrainInv
<1>4. GoneInv'
  BY <1>2 DEF GoneInv, Works
<1>5. KindsInv'
  BY DEF KindsInv, QueuesType, Works
<1> QED
  BY <1>1, <1>3, <1>4, <1>5

\* A run that fails waits for the callbacks that may use its output.
LEMMA FailPins ==
    ASSUME PinInv, Works, worker.pc \in {"wait", "process", "authorize"},
           worker'.pc = "drain" /\ worker'.counter = "bound" /\ worker'.then = "cleanup",
           worker'.back = "wait", state' \in {"stopping", "unloading"},
           host' = DisconnectSignals(host)
    PROVE  PinInv'
<1> USE DEF PinInv
<1>1. TypeOK' /\ CallersInv'
  BY WorksIs
<1>2. host'.pinned = host.pinned /\ ~host'.connected
  BY HostIs DEF TypeOK, HostType
<1>3. /\ worker'.pc \in Drains /\ ~Heading("authorize")'
      /\ ~Heading("unload")' /\ ~Heading("release")'
  BY DEF Heading, Drains
<1>4. DrainInv'
  BY <1>2, <1>3 DEF DrainInv
<1>5. GoneInv'
  BY <1>2, <1>3 DEF GoneInv, Works
<1>6. KindsInv'
  BY DEF KindsInv, QueuesType, Works
<1> QED
  BY <1>1, <1>4, <1>5, <1>6

\* A failed run: fail_current_run and the drop of everything that is queued.
LEMMA FailRunIs ==
    ASSUME PinInv, FailRun
    PROVE  /\ worker' \in WorkerType /\ worker'.pc = "drain" /\ worker'.counter = "bound"
           /\ worker'.then = "cleanup" /\ worker'.back = "wait" /\ worker'.cmd = worker.cmd
           /\ run' \in Runs /\ ~run'.accepting /\ run'.accepted = run.accepted
           /\ host' = DisconnectSignals(host) /\ host' \in HostType
           /\ ~host'.connected /\ host'.reference = host.reference /\ host'.pinned = host.pinned
           /\ state' \in {"stopping", "unloading"} /\ state' \in States
<1>1. worker \in WorkerType /\ run \in Runs /\ host \in HostType
  BY DEF PinInv, TypeOK, WorkerType, HostType
<1>2. /\ worker' \in WorkerType /\ worker'.pc = "drain" /\ worker'.counter = "bound"
      /\ worker'.then = "cleanup" /\ worker'.back = "wait" /\ worker'.cmd = worker.cmd
  BY <1>1 DEF FailRun, DrainThen, WorkerType, WorkerSteps
<1>3. run' \in Runs /\ ~run'.accepting /\ run'.accepted = run.accepted
  BY <1>1 DEF FailRun, Runs
<1>4. state' \in {"stopping", "unloading"} /\ state' \in States
  BY DEF FailRun, States
<1> QED
  BY <1>1, <1>2, <1>3, <1>4, HostIs DEF FailRun

LEMMA IdleIs == Idle \in WorkerType /\ Idle.pc = "wait" /\ Idle.cmd = NoCommand
BY DEF Idle, At, WorkerType, WorkerSteps

LEMMA PublishesNext ==
    ASSUME NEW w \in WorkerType, NEW next \in {"active", "paused"}
    PROVE  /\ [w EXCEPT !.pc = "publish", !.next = next] \in WorkerType
           /\ [w EXCEPT !.pc = "publish", !.next = next].pc = "publish"
           /\ [w EXCEPT !.pc = "publish", !.next = next].next = next
<1>1. "publish" \in WorkerSteps
  BY DEF WorkerSteps
<1>2. next \in {"none", "active", "paused"}
  OBVIOUS
<1> QED
  BY <1>1, <1>2 DEF WorkerType

LEMMA WrittenIs ==
    ASSUME PinInv, worker.cmd \in Commands, NEW kind \in Events \cup {"anchor"}
    PROVE  /\ Written(kind) \in Producers /\ Written(kind).open = producer.open
           /\ Written(kind).started = (producer.started \/ kind = "anchor")
           /\ Written(kind).controls = (IF kind \in Pauses THEN Append(producer.controls, kind)
                                        ELSE producer.controls)
           /\ Written(kind).stopped = (kind = "stop")
           /\ Written(kind).ordered = (producer.ordered /\ worker.cmd.order > producer.last)
           /\ Written(kind).last = worker.cmd.order
<1>1. producer \in Producers /\ worker.cmd.order \in Nat
  BY DEF PinInv, TypeOK, Commands
<1> DEFINE controls == IF kind \in Pauses THEN Append(producer.controls, kind) ELSE producer.controls
           started == producer.started \/ kind = "anchor"
           ordered == producer.ordered /\ worker.cmd.order > producer.last
<1>2. controls \in Seq(Pauses)
  BY <1>1, Appended DEF Producers
<1>3. started \in BOOLEAN /\ ordered \in BOOLEAN /\ (kind = "stop") \in BOOLEAN
  BY <1>1 DEF Producers
<1>4. Written(kind) = [producer EXCEPT !.started = started, !.controls = controls,
                                       !.stopped = (kind = "stop"), !.ordered = ordered,
                                       !.last = worker.cmd.order]
  BY DEF Written, Pauses
<1> HIDE DEF controls, started, ordered
<1>5. /\ Written(kind) \in Producers /\ Written(kind).open = producer.open
      /\ Written(kind).started = started /\ Written(kind).controls = controls
      /\ Written(kind).stopped = (kind = "stop") /\ Written(kind).ordered = ordered
      /\ Written(kind).last = worker.cmd.order
  BY <1>1, <1>2, <1>3, <1>4 DEF Producers
<1> QED
  BY <1>5 DEF controls, started, ordered

LEMMA StillTyped ==
    ASSUME PinInv
    PROVE  /\ state \in States /\ forced \in BOOLEAN /\ run \in Runs /\ producer \in Producers
           /\ host \in HostType /\ worker \in WorkerType /\ faults \in Nat
           /\ report \in [successful : BOOLEAN, records : Producers, sent : Seq(Pauses)]
           /\ QueuesType /\ (worker.pc \notin {"off", "done"} => state # "unloaded")
BY QueuesKeep DEF PinInv, TypeOK, HostType, WorkerType, GoneInv

LEMMA WaitingPins ==
    ASSUME PinInv, WorkerFindsNothing \/ WorkerSleeps
    PROVE  PinInv'
<1>1. /\ worker.pc \in {"wait", "commit"} /\ UNCHANGED <<Waiting, queues, flags>>
      /\ \E step \in {"commit", "asleep"} : worker' = [worker EXCEPT !.pc = step]
  BY DEF WorkerFindsNothing, WorkerSleeps
<1>2. worker' \in WorkerType /\ worker'.pc \in {"commit", "asleep"}
  BY <1>1, StillTyped DEF WorkerType, WorkerSteps
<1>3. Works
  BY <1>1, <1>2, StillTyped, QueuesKeep DEF Works, Waiting, flags
<1> QED
  BY <1>1, <1>2, <1>3, RestPins, StillTyped DEF Waiting

LEMMA Least ==
    ASSUME NEW x \in Commands, NEW y \in Commands, NEW z \in Commands
    PROVE  \E f \in {x, y, z} : \A g \in {x, y, z} : f.order <= g.order
<1>1. x.order \in Nat /\ y.order \in Nat /\ z.order \in Nat
  BY DEF Commands
<1>2. CASE x.order <= y.order /\ x.order <= z.order
  BY <1>1, <1>2
<1>3. CASE y.order <= x.order /\ y.order <= z.order
  BY <1>1, <1>3
<1>4. CASE z.order <= x.order /\ z.order <= y.order
  BY <1>1, <1>4
<1> QED
  BY <1>1, <1>2, <1>3, <1>4

\* The front with the smallest number is the first command of its queue.
LEMMA EarliestIs ==
    ASSUME PinInv, control # <<>> \/ clock # NoCommand \/ scenes # <<>>
    PROVE  /\ Earliest \in Commands
           /\ \/ /\ control # <<>> /\ Earliest = control[1]
                 /\ Earliest.kind \in Pauses \cup {"start", "stop"}
              \/ scenes # <<>> /\ Earliest = scenes[1] /\ Earliest.kind = "scene"
              \/ clock # NoCommand /\ Earliest = clock /\ Earliest.kind \in {"anchor", "tick"}
           /\ control # <<>> => Earliest.order <= control[1].order
           /\ scenes # <<>> => Earliest.order <= scenes[1].order
           /\ clock # NoCommand => Earliest.order <= clock.order
<1>1. \A y : y \in Fronts <=> \/ control # <<>> /\ y = control[1]
                              \/ scenes # <<>> /\ y = scenes[1]
                              \/ clock # NoCommand /\ y = clock
  BY DEF Fronts
<1>2. QueuesType
  BY QueuesKeep
<1>3. /\ control # <<>> => control[1] \in Commands /\ control[1].kind \in Pauses \cup {"start", "stop"}
      /\ scenes # <<>> => scenes[1] \in Commands /\ scenes[1].kind = "scene"
  <2>1. /\ control # <<>> => control[1] \in Commands /\ 1 \in 1 .. Len(control)
        /\ scenes # <<>> => scenes[1] \in Commands /\ 1 \in 1 .. Len(scenes)
    BY <1>2, Behead DEF QueuesType
  <2> QED
    BY <1>2, <2>1 DEF QueuesType
<1>4. clock # NoCommand => clock \in Commands /\ clock.kind \in {"anchor", "tick"}
  BY <1>2 DEF QueuesType, Commands, Events
<1>5. PICK d : d \in Fronts
  BY <1>1
<1> DEFINE x == IF control # <<>> THEN control[1] ELSE d
           y == IF scenes # <<>> THEN scenes[1] ELSE d
           z == IF clock # NoCommand THEN clock ELSE d
<1>6. d \in Commands
  BY <1>1, <1>3, <1>4, <1>5
<1>7. x \in Commands /\ y \in Commands /\ z \in Commands
  BY <1>3, <1>4, <1>6
<1>8. Fronts = {x, y, z}
  BY <1>1, <1>5
<1> HIDE DEF x, y, z
<1>9. \E f \in Fronts : \A g \in Fronts : f.order <= g.order
  BY <1>7, <1>8, Least
<1>10. Earliest \in Fronts /\ \A g \in Fronts : Earliest.order <= g.order
  BY <1>9 DEF Earliest
<1> HIDE DEF Earliest
<1> QED
  BY <1>1, <1>3, <1>4, <1>10

LEMMA WorkerTakesIs ==
    ASSUME PinInv, WorkerTakes
    PROVE  /\ Works /\ worker.pc = "wait" /\ ~forced /\ ~unload_requested
           /\ worker'.pc = "process" /\ worker'.cmd = Earliest /\ Earliest \in Commands
           /\ UNCHANGED <<Waiting, next_order, last_clock, flags>>
           /\ control # <<>> => Earliest.order <= control[1].order
           /\ scenes # <<>> => Earliest.order <= scenes[1].order
           /\ clock # NoCommand => Earliest.order <= clock.order
           /\ \/ /\ control # <<>> /\ Earliest = control[1] /\ control' = Tail(control)
                 /\ Earliest.kind \in Pauses \cup {"start", "stop"} /\ UNCHANGED <<clock, scenes>>
              \/ /\ scenes # <<>> /\ Earliest = scenes[1] /\ scenes' = Tail(scenes)
                 /\ Earliest.kind = "scene" /\ UNCHANGED <<control, clock>>
              \/ /\ clock # NoCommand /\ Earliest = clock /\ clock' = NoCommand
                 /\ Earliest.kind \in {"anchor", "tick"} /\ UNCHANGED <<control, scenes>>
<1>1. /\ worker.pc = "wait" /\ ~forced /\ ~unload_requested
      /\ control # <<>> \/ clock # NoCommand \/ scenes # <<>>
      /\ worker' = [worker EXCEPT !.pc = "process", !.cmd = Earliest]
      /\ control' = IF Earliest.kind \in {"start", "pause", "resume", "stop"} THEN Tail(control)
                                                                             ELSE control
      /\ clock' = IF Earliest.kind \in {"anchor", "tick"} THEN NoCommand ELSE clock
      /\ scenes' = IF Earliest.kind = "scene" THEN Tail(scenes) ELSE scenes
      /\ UNCHANGED <<Waiting, next_order, last_clock, flags>>
  BY DEF WorkerTakes, HasWork
<1>2. /\ Earliest \in Commands
      /\ \/ /\ control # <<>> /\ Earliest = control[1]
            /\ Earliest.kind \in Pauses \cup {"start", "stop"}
         \/ scenes # <<>> /\ Earliest = scenes[1] /\ Earliest.kind = "scene"
         \/ clock # NoCommand /\ Earliest = clock /\ Earliest.kind \in {"anchor", "tick"}
      /\ control # <<>> => Earliest.order <= control[1].order
      /\ scenes # <<>> => Earliest.order <= scenes[1].order
      /\ clock # NoCommand => Earliest.order <= clock.order
  BY <1>1, EarliestIs
<1> HIDE DEF Earliest
<1>3. \/ /\ control # <<>> /\ Earliest = control[1] /\ control' = Tail(control)
         /\ Earliest.kind \in Pauses \cup {"start", "stop"} /\ UNCHANGED <<clock, scenes>>
      \/ /\ scenes # <<>> /\ Earliest = scenes[1] /\ scenes' = Tail(scenes)
         /\ Earliest.kind = "scene" /\ UNCHANGED <<control, clock>>
      \/ /\ clock # NoCommand /\ Earliest = clock /\ clock' = NoCommand
         /\ Earliest.kind \in {"anchor", "tick"} /\ UNCHANGED <<control, scenes>>
  BY <1>1, <1>2 DEF Pauses
<1>4. worker' \in WorkerType /\ worker'.pc = "process" /\ worker'.cmd = Earliest
  BY <1>1, <1>2, StillTyped DEF WorkerType, WorkerSteps
<1>5. QueuesType'
  <2>1. QueuesType /\ next_order' = next_order /\ last_clock' = last_clock
    BY <1>1, QueuesKeep
  <2>2. \A q \in Seq(Commands) : q # <<>> =>
            /\ Len(q) \in Nat \ {0} /\ Tail(q) \in Seq(Commands) /\ Len(Tail(q)) = Len(q) - 1
            /\ \A i \in 1 .. Len(q) - 1 : Tail(q)[i] = q[i + 1]
    BY Behead
  <2>3. CASE control' = Tail(control) /\ control # <<>> /\ UNCHANGED <<clock, scenes>>
    <3>1. Len(control) \in Nat \ {0} /\ ControlCapacity \in Nat
      BY <2>1, <2>2, <2>3, CapacityAssumption DEF QueuesType
    <3>2. /\ control' \in Seq(Commands) /\ Len(control') = Len(control) - 1
          /\ \A i \in 1 .. Len(control') : control'[i] = control[i + 1] /\ i + 1 \in 1 .. Len(control)
      BY <2>1, <2>2, <2>3, <3>1 DEF QueuesType
    <3> QED
      BY <2>1, <2>3, <3>1, <3>2 DEF QueuesType
  <2>4. CASE scenes' = Tail(scenes) /\ scenes # <<>> /\ UNCHANGED <<control, clock>>
    <3>1. Len(scenes) \in Nat \ {0} /\ SceneCapacity \in Nat
      BY <2>1, <2>2, <2>4, CapacityAssumption DEF QueuesType
    <3>2. /\ scenes' \in Seq(Commands) /\ Len(scenes') = Len(scenes) - 1
          /\ \A i \in 1 .. Len(scenes') : scenes'[i] = scenes[i + 1] /\ i + 1 \in 1 .. Len(scenes)
      BY <2>1, <2>2, <2>4, <3>1 DEF QueuesType
    <3> QED
      BY <2>1, <2>4, <3>1, <3>2 DEF QueuesType
  <2>5. CASE clock' = NoCommand /\ UNCHANGED <<control, scenes>>
    BY <2>1, <2>5 DEF QueuesType, NoCommand
  <2> QED
    BY <1>3, <2>3, <2>4, <2>5
<1>6. Works
  BY <1>1, <1>4, <1>5, StillTyped DEF Works, Waiting, flags
<1> QED
  BY <1>1, <1>2, <1>3, <1>4, <1>6

LEMMA WorkerTakesPins ==
    ASSUME PinInv, WorkerTakes
    PROVE  PinInv'
<1>1. /\ Works /\ worker.pc = "wait" /\ worker'.pc = "process" /\ worker'.cmd \in Commands
      /\ UNCHANGED Waiting
  BY WorkerTakesIs
<1> QED
  BY <1>1, RestPins, StillTyped DEF Waiting

LEMMA WorkerDropsAllIs ==
    ASSUME PinInv, WorkerDropsAll
    PROVE  /\ Works /\ worker.pc = "wait" /\ (forced \/ unload_requested)
           /\ control' = <<>> /\ clock' = NoCommand /\ scenes' = <<>> /\ ~forced'
           /\ UNCHANGED <<next_order, last_clock, producer, report>>
           /\ worker'.pc = "drain" /\ run'.accepted = run.accepted
           /\ IF unload_requested
              THEN /\ worker'.counter = "gate" /\ worker'.then = "unload" /\ worker'.back = "exit"
                   /\ UNCHANGED <<state, run, host>>
              ELSE /\ worker'.counter = "bound" /\ worker'.then = "cleanup" /\ worker'.back = "wait"
                   /\ ~run'.accepting /\ state' \in {"stopping", "unloading"}
                   /\ host' = DisconnectSignals(host)
<1>1. /\ worker.pc = "wait" /\ (forced \/ unload_requested)
      /\ control' = <<>> /\ clock' = NoCommand /\ scenes' = <<>> /\ forced' = FALSE
      /\ UNCHANGED <<gate, bound, cb, next_order, last_clock, unload_requested, producer, report, obs,
                     now, bounds, faults>>
  BY DEF WorkerDropsAll
<1>2. QueuesType'
  BY <1>1, QueuesKeep, CapacityAssumption DEF QueuesType, NoCommand
<1>3. CASE unload_requested
  <2>1. UNCHANGED <<state, run, host>>
        /\ worker' = [worker EXCEPT !.pc = "drain", !.counter = "gate", !.then = "unload", !.back = "exit"]
    BY <1>3 DEF WorkerDropsAll, DrainThen
  <2>2. /\ worker' \in WorkerType /\ worker'.pc = "drain" /\ worker'.counter = "gate"
        /\ worker'.then = "unload" /\ worker'.back = "exit"
    BY <2>1, StillTyped DEF WorkerType, WorkerSteps
  <2>3. Works
    BY <1>1, <1>2, <2>1, <2>2, StillTyped DEF Works
  <2> QED
    BY <1>1, <1>3, <2>1, <2>2, <2>3
<1>4. CASE ~unload_requested
  <2>1. FailRun
    BY <1>4 DEF WorkerDropsAll, FailRun
  <2>2. Works
    BY <1>1, <1>2, <2>1, FailRunIs, StillTyped DEF Works
  <2> QED
    BY <1>1, <1>4, <2>1, <2>2, FailRunIs
<1> QED
  BY <1>3, <1>4

LEMMA WorkerDropsAllPins ==
    ASSUME PinInv, WorkerDropsAll
    PROVE  PinInv'
<1> USE DEF PinInv
<1>1. /\ Works /\ worker.pc = "wait" /\ worker'.pc = "drain"
      /\ IF unload_requested
         THEN /\ worker'.counter = "gate" /\ worker'.then = "unload" /\ worker'.back = "exit"
              /\ UNCHANGED <<state, run, host, producer>>
         ELSE /\ worker'.counter = "bound" /\ worker'.then = "cleanup" /\ worker'.back = "wait"
              /\ state' \in {"stopping", "unloading"} /\ host' = DisconnectSignals(host)
  BY WorkerDropsAllIs
<1>2. CASE ~unload_requested
  BY <1>1, <1>2, FailPins
<1>3. CASE unload_requested
  <2>1. TypeOK' /\ CallersInv'
    BY <1>1, WorksIs
  <2>2. /\ worker'.pc \in Drains /\ ~Heading("authorize")' /\ ~Heading("cleanup")'
        /\ ~Heading("release")' /\ state # "unloaded"
    BY <1>1, <1>3, StillTyped DEF Heading, Drains
  <2>3. DrainInv'
    BY <1>1, <1>3, <2>2 DEF DrainInv
  <2>4. GoneInv'
    BY <1>1, <1>3, <2>2 DEF GoneInv, Works
  <2>5. KindsInv'
    BY <1>1, <1>3 DEF KindsInv, QueuesType, Works
  <2> QED
    BY <2>1, <2>3, <2>4, <2>5
<1> QED
  BY <1>2, <1>3

\* A step of a worker that has a command: it fails the run, or goes on.
Fails ==
    /\ Works /\ worker'.pc = "drain" /\ worker'.counter = "bound" /\ worker'.then = "cleanup"
    /\ worker'.back = "wait" /\ worker'.cmd = worker.cmd
    /\ state' \in {"stopping", "unloading"} /\ host' = DisconnectSignals(host)
    /\ host'.reference = host.reference /\ ~host'.connected
    /\ ~run'.accepting /\ run'.accepted = run.accepted

LEMMA ProcessingFails ==
    ASSUME PinInv, FailRun, worker.pc = "process", UNCHANGED Processing, producer' \in Producers,
           faults' \in Nat
    PROVE  Fails /\ UNCHANGED <<queues, flags, report>>
BY FailRunIs, StillTyped, QueuesKeep DEF Fails, Works, Processing, flags

LEMMA ProcessingIs ==
    ASSUME PinInv, worker.pc = "process", UNCHANGED Processing, UNCHANGED <<state, host>>,
           producer' \in Producers, faults' \in Nat, run' \in Runs, worker' \in WorkerType
    PROVE  Works /\ UNCHANGED <<queues, flags, report>>
BY StillTyped, QueuesKeep DEF Works, Processing, flags

LEMMA NewProducer ==
    LET new == [NoProducer EXCEPT !.open = TRUE] IN
        /\ new \in Producers /\ new.open /\ ~new.started /\ new.controls = <<>> /\ ~new.stopped
        /\ new.last = 0 /\ new.ordered
        /\ NoProducer \in Producers /\ ~NoProducer.open
<1>1. /\ NoProducer \in Producers /\ ~NoProducer.open /\ ~NoProducer.started
      /\ NoProducer.controls = <<>> /\ ~NoProducer.stopped /\ NoProducer.last = 0
      /\ NoProducer.ordered
  <2>1. <<>> \in Seq(Pauses)
    OBVIOUS
  <2> QED
    BY <2>1 DEF NoProducer, Producers
<1> QED
  BY <1>1 DEF Producers

LEMMA ProcessStartIs ==
    ASSUME PinInv, ProcessStart
    PROVE  /\ worker.pc = "process" /\ worker.cmd.kind = "start" /\ worker.cmd \in Commands
           /\ UNCHANGED <<queues, flags, report>>
           /\ producer' = [NoProducer EXCEPT !.open = TRUE]
           /\ \/ Fails
              \/ /\ Works /\ UNCHANGED <<state, host>>
                 /\ run'.accepting /\ ~run'.accepted /\ run'.paused = run.paused
                 /\ run'.pending = run.pending
                 /\ IF state = "stopping" THEN worker' = Idle
                    ELSE worker'.pc = "publish" /\ worker'.next = (IF run.paused THEN "paused" ELSE "active")
<1>1. /\ worker.pc = "process" /\ worker.cmd.kind = "start" /\ UNCHANGED Processing
      /\ producer' = [NoProducer EXCEPT !.open = TRUE]
  BY DEF ProcessStart
<1>2. /\ worker.cmd \in Commands /\ producer' \in Producers /\ worker \in WorkerType /\ run \in Runs
  BY <1>1, NewProducer, StillTyped DEF PinInv, KindsInv
<1>3. PICK ok \in BOOLEAN :
        /\ MayFail(ok)
        /\ IF ~ok THEN FailRun
           ELSE /\ run' = [run EXCEPT !.origin = worker.cmd.at, !.due = NoClock, !.claimed = FALSE,
                                      !.accepted = FALSE, !.accepting = TRUE]
                /\ worker' = IF state = "stopping" THEN Idle
                             ELSE [worker EXCEPT !.pc = "publish",
                                                 !.next = IF run.paused THEN "paused" ELSE "active"]
                /\ UNCHANGED <<state, host>>
  BY DEF ProcessStart
<1>4. faults' \in Nat
  BY <1>3, FaultsAre DEF PinInv
<1>5. CASE ~ok
  BY <1>1, <1>2, <1>3, <1>4, <1>5, ProcessingFails
<1>6. CASE ok
  <2>1. worker.cmd.at \in Int /\ NoClock \in Int
    BY <1>2, BoundsAssumption DEF Commands, NoClock
  <2>2. /\ run' \in Runs /\ run'.accepting /\ ~run'.accepted /\ run'.paused = run.paused
        /\ run'.pending = run.pending
    BY <1>2, <1>3, <1>6, <2>1 DEF Runs
  <2>3. /\ worker' \in WorkerType
        /\ IF state = "stopping" THEN worker' = Idle
           ELSE worker'.pc = "publish" /\ worker'.next = (IF run.paused THEN "paused" ELSE "active")
    <3>1. CASE state = "stopping"
      BY <1>3, <1>6, <3>1, IdleIs
    <3>2. CASE state # "stopping"
      <4> DEFINE next == IF run.paused THEN "paused" ELSE "active"
      <4>1. next \in {"paused", "active"} /\ worker' = [worker EXCEPT !.pc = "publish", !.next = next]
        BY <1>3, <1>6, <3>2
      <4> HIDE DEF next
      <4>2. worker \in WorkerType /\ next \in {"active", "paused"}
        BY <1>2, <4>1
      <4>3. /\ worker' \in WorkerType /\ worker'.pc = "publish" /\ worker'.next = next
        BY <4>1, <4>2, PublishesNext, ZenonT(30)
      <4> QED
        BY <3>2, <4>3 DEF next
    <3> QED
      BY <3>1, <3>2
  <2> QED
    BY <1>1, <1>2, <1>3, <1>4, <1>6, <2>2, <2>3, ProcessingIs
<1> QED
  BY <1>5, <1>6

LEMMA PublishIs ==
    ASSUME PinInv, Publish
    PROVE  /\ Works /\ worker.pc = "publish" /\ worker' = Idle /\ state' = worker.next
           /\ state' # "unloaded"
           /\ UNCHANGED <<run, producer, host, faults, queues, flags, report>>
<1>1. /\ worker.pc = "publish" /\ state' = worker.next /\ worker' = Idle
      /\ UNCHANGED <<run, producer, host, faults, Processing>>
  BY DEF Publish
<1>2. state' \in States /\ state' # "unloaded"
  BY <1>1 DEF PinInv, KindsInv, States
<1>3. Works
  BY <1>1, <1>2, IdleIs, StillTyped, QueuesKeep DEF Works, Processing, flags
<1> QED
  BY <1>1, <1>2, <1>3 DEF Processing, flags

LEMMA ProcessClockIs ==
    ASSUME PinInv, ProcessClock
    PROVE  /\ worker.pc = "process" /\ worker.cmd.kind \in {"anchor", "tick"}
           /\ worker.cmd \in Commands /\ UNCHANGED <<queues, flags, report>>
           /\ \/ Fails /\ producer.open /\ UNCHANGED producer
              \/ /\ Works /\ worker' = Idle /\ UNCHANGED <<state, run, producer, host>>
                 /\ ~producer.open \/ worker.cmd.kind = "tick"
              \/ /\ Works /\ worker' = Idle /\ UNCHANGED <<state, host>>
                 /\ producer.open /\ producer' = Written(worker.cmd.kind)
                 /\ run' = IF worker.cmd.kind = "anchor"
                           THEN [run EXCEPT !.accepted = TRUE, !.due = Interval] ELSE run
                 /\ worker.cmd.kind = "anchor" \/ run.accepted
<1>1. /\ worker.pc = "process" /\ worker.cmd.kind \in {"anchor", "tick"} /\ UNCHANGED Processing
  BY DEF ProcessClock
<1>2. worker.cmd \in Commands /\ run \in Runs /\ producer \in Producers /\ faults \in Nat
  BY <1>1, StillTyped DEF PinInv, KindsInv
<1>3. CASE /\ ~producer.open \/ worker.cmd.kind = "tick"
           /\ worker' = Idle /\ UNCHANGED <<state, run, producer, host, faults>>
  BY <1>1, <1>2, <1>3, IdleIs, ProcessingIs
<1>4. CASE producer.open /\ UNCHANGED producer /\ FailRun /\ MayFail(FALSE)
  BY <1>1, <1>2, <1>4, FaultsAre, ProcessingFails DEF PinInv
<1>5. CASE /\ producer.open /\ (worker.cmd.kind = "anchor" \/ run.accepted) /\ MayFail(TRUE)
           /\ producer' = Written(worker.cmd.kind)
           /\ run' = IF worker.cmd.kind = "anchor"
                     THEN [run EXCEPT !.accepted = TRUE, !.due = Interval] ELSE run
           /\ worker' = Idle
           /\ UNCHANGED <<state, host>>
  <2>1. run' \in Runs
    <3>1. Interval \in Int
      BY BoundsAssumption
    <3>2. [run EXCEPT !.accepted = TRUE, !.due = Interval] \in Runs
      BY <1>2, <3>1 DEF Runs
    <3> QED
      BY <1>2, <1>5, <3>2
  <2>2. producer' \in Producers
    BY <1>1, <1>2, <1>5, WrittenIs DEF Events
  <2> QED
    BY <1>1, <1>2, <1>5, <2>1, <2>2, FaultsAre, IdleIs, ProcessingIs DEF PinInv
<1> QED
  BY <1>1, <1>3, <1>4, <1>5 DEF ProcessClock

LEMMA ProcessSceneIs ==
    ASSUME PinInv, ProcessScene
    PROVE  /\ worker.pc = "process" /\ worker.cmd.kind = "scene"
           /\ worker.cmd \in Commands /\ UNCHANGED <<queues, flags, report>>
           /\ \/ Fails /\ producer.open /\ UNCHANGED producer
              \/ Works /\ worker' = Idle /\ UNCHANGED <<state, run, producer, host>>
              \/ /\ Works /\ worker' = Idle /\ UNCHANGED <<state, run, host>>
                 /\ producer.open /\ run.accepted /\ producer' = Written("scene")
<1>1. worker.pc = "process" /\ worker.cmd.kind = "scene" /\ UNCHANGED Processing
  BY DEF ProcessScene
<1>2. worker.cmd \in Commands /\ run \in Runs /\ producer \in Producers /\ faults \in Nat
  BY <1>1, StillTyped DEF PinInv, KindsInv
<1>3. CASE worker' = Idle /\ UNCHANGED <<state, run, producer, host, faults>>
  BY <1>1, <1>2, <1>3, IdleIs, ProcessingIs
<1>4. CASE producer.open /\ UNCHANGED producer /\ FailRun /\ MayFail(FALSE)
  BY <1>1, <1>2, <1>4, FaultsAre, ProcessingFails DEF PinInv
<1>5. CASE /\ producer.open /\ run.accepted /\ MayFail(TRUE)
           /\ producer' = Written("scene")
           /\ worker' = Idle
           /\ UNCHANGED <<state, run, host>>
  <2>1. producer' \in Producers
    BY <1>1, <1>2, <1>5, WrittenIs DEF Events
  <2> QED
    BY <1>1, <1>2, <1>5, <2>1, FaultsAre, IdleIs, ProcessingIs DEF PinInv
<1> QED
  BY <1>1, <1>3, <1>4, <1>5 DEF ProcessScene

LEMMA ProcessPauseIs ==
    ASSUME PinInv, ProcessPause
    PROVE  /\ worker.pc = "process" /\ worker.cmd.kind \in Pauses
           /\ worker.cmd \in Commands /\ UNCHANGED <<queues, flags, report>>
           /\ \/ Fails /\ UNCHANGED producer
              \/ /\ Fails /\ producer.open /\ run.accepted /\ producer' = Written(worker.cmd.kind)
              \/ /\ Works /\ UNCHANGED <<state, host>>
                 /\ producer.open /\ run.accepted /\ producer' = Written(worker.cmd.kind)
                 /\ run'.accepted /\ run'.accepting = run.accepting /\ run'.paused = run.paused
                 /\ \/ worker' = Idle
                    \/ /\ worker'.pc = "publish" /\ worker'.next \in {"paused", "active"}
                       /\ state # "stopping"
<1>1. worker.pc = "process" /\ worker.cmd.kind \in Pauses /\ UNCHANGED Processing
  BY DEF ProcessPause, Pauses
<1>2. /\ worker.cmd \in Commands /\ run \in Runs /\ producer \in Producers /\ faults \in Nat
      /\ worker \in WorkerType
  BY <1>1, StillTyped DEF PinInv, KindsInv
<1>3. Written(worker.cmd.kind) \in Producers
  BY <1>1, <1>2, WrittenIs DEF Events, Pauses
<1>4. CASE FailRun /\ UNCHANGED producer /\ (faults' = faults \/ MayFail(FALSE))
  <2>1. faults' \in Nat
    BY <1>2, <1>4, FaultsAre DEF PinInv
  <2> QED
    BY <1>1, <1>2, <1>4, <2>1, ProcessingFails
<1>5. CASE /\ producer.open /\ run.accepted /\ MayFail(TRUE)
           /\ producer' = Written(worker.cmd.kind) /\ FailRun
  <2>1. faults' \in Nat
    BY <1>5, FaultsAre DEF PinInv
  <2> QED
    BY <1>1, <1>2, <1>3, <1>5, <2>1, ProcessingFails
<1>6. CASE /\ producer.open /\ run.accepted /\ MayFail(TRUE)
           /\ producer' = Written(worker.cmd.kind) /\ run.pending # 0
           /\ run' = [run EXCEPT !.pending = @ - 1]
           /\ \/ worker' = Idle
              \/ /\ state # "stopping"
                 /\ worker' = [worker EXCEPT !.pc = "publish",
                                             !.next = IF run.paused THEN "paused" ELSE "active"]
           /\ UNCHANGED <<state, host>>
  <2>1. run.pending - 1 \in Nat
    BY <1>2, <1>6 DEF Runs
  <2>2. /\ run' \in Runs /\ run'.accepted = run.accepted /\ run'.accepting = run.accepting
        /\ run'.paused = run.paused
    BY <1>2, <1>6, <2>1 DEF Runs
  <2>3. /\ worker' \in WorkerType
        /\ \/ worker' = Idle
           \/ worker'.pc = "publish" /\ worker'.next \in {"paused", "active"} /\ state # "stopping"
    <3>1. CASE worker' = Idle
      BY <3>1, IdleIs
    <3>2. CASE /\ state # "stopping"
               /\ worker' = [worker EXCEPT !.pc = "publish",
                                           !.next = IF run.paused THEN "paused" ELSE "active"]
      <4>1. worker \in WorkerType
        BY DEF PinInv, TypeOK, WorkerType
      <4>2. PICK next \in {"active", "paused"} :
                worker' = [worker EXCEPT !.pc = "publish", !.next = next]
        <5>1. CASE run.paused
          BY <3>2, <5>1, Zenon
        <5>2. CASE ~run.paused
          BY <3>2, <5>2, Zenon
        <5> QED
          BY <5>1, <5>2
      <4> QED
        BY <3>2, <4>1, <4>2, PublishesNext, ZenonT(30)
    <3> QED
      BY <1>6, <3>1, <3>2
  <2>4. faults' \in Nat
    BY <1>6, FaultsAre DEF PinInv
  <2> QED
    BY <1>1, <1>2, <1>3, <1>6, <2>2, <2>3, <2>4, ProcessingIs
<1> QED
  BY <1>1, <1>4, <1>5, <1>6 DEF ProcessPause

LEMMA ProcessStopIs ==
    ASSUME PinInv, ProcessStop
    PROVE  /\ worker.pc = "process" /\ worker.cmd.kind = "stop" /\ worker.cmd \in Commands
           /\ Works /\ UNCHANGED <<producer, queues, flags, report>>
           /\ worker'.pc = "drain" /\ worker'.counter = "bound" /\ worker'.then = "authorize"
           /\ worker'.cmd = worker.cmd /\ worker'.back = "wait"
           /\ state' = "stopping" /\ ~run'.accepting /\ run'.accepted = run.accepted
           /\ host' = DisconnectSignals(host) /\ host'.reference = host.reference
           /\ ~host'.connected /\ host'.pinned = host.pinned
<1>1. /\ worker.pc = "process" /\ worker.cmd.kind = "stop" /\ state' = "stopping"
      /\ run' = [run EXCEPT !.accepting = FALSE]
      /\ host' = DisconnectSignals(host)
      /\ worker' = [worker EXCEPT !.pc = "drain", !.counter = "bound", !.then = "authorize", !.back = "wait"]
      /\ UNCHANGED <<producer, faults, Processing>>
  BY DEF ProcessStop, DrainThen
<1>2. /\ worker.cmd \in Commands /\ run \in Runs /\ host \in HostType /\ worker \in WorkerType
  BY <1>1, StillTyped DEF PinInv, KindsInv
<1>3. /\ worker' \in WorkerType /\ worker'.pc = "drain" /\ worker'.counter = "bound"
      /\ worker'.then = "authorize" /\ worker'.cmd = worker.cmd /\ worker'.back = "wait"
  BY <1>1, <1>2 DEF WorkerType, WorkerSteps
<1>4. run' \in Runs /\ ~run'.accepting /\ run'.accepted = run.accepted
  BY <1>1, <1>2 DEF Runs
<1>5. Works
  BY <1>1, <1>2, <1>3, <1>4, HostIs, StillTyped, QueuesKeep DEF Works, Processing, flags, States
<1> QED
  BY <1>1, <1>2, <1>3, <1>4, <1>5, HostIs DEF Processing, flags

LEMMA ProcessPins ==
    ASSUME PinInv,
           ProcessStart \/ Publish \/ ProcessClock \/ ProcessScene \/ ProcessPause \/ ProcessStop
    PROVE  PinInv'
<1> USE DEF PinInv
<1>1. ASSUME Fails, worker.pc = "process"
      PROVE  PinInv'
  BY <1>1, FailPins DEF Fails
<1>2. ASSUME Works, UNCHANGED <<state, host>>,
             \/ worker' = Idle
             \/ worker'.pc = "publish" /\ worker'.next \in {"active", "paused"}
      PROVE  PinInv'
  <2>1. /\ worker'.pc \in {"wait", "publish"} /\ state' # "unloaded" /\ host'.pinned = host.pinned
        /\ worker'.pc = "publish" => worker'.next \in {"active", "paused"}
    BY <1>2, IdleIs, StillTyped DEF Works
  <2> QED
    BY <1>2, <2>1, RestPins
<1>3. CASE ProcessStart
  BY <1>1, <1>2, <1>3, ProcessStartIs
<1>4. CASE Publish
  <2>1. Works /\ worker'.pc = "wait" /\ host' = host /\ state' # "unloaded"
    BY <1>4, PublishIs, IdleIs
  <2> QED
    BY <2>1, RestPins
<1>5. CASE ProcessClock
  BY <1>1, <1>2, <1>5, ProcessClockIs
<1>6. CASE ProcessScene
  BY <1>1, <1>2, <1>6, ProcessSceneIs
<1>7. CASE ProcessPause
  BY <1>1, <1>2, <1>7, ProcessPauseIs
<1>8. CASE ProcessStop
  <2>1. /\ Works /\ worker'.pc = "drain" /\ worker'.counter = "bound" /\ worker'.then = "authorize"
        /\ worker'.cmd.kind = "stop" /\ state' = "stopping"
        /\ ~host'.connected /\ host'.pinned = host.pinned
    BY <1>8, ProcessStopIs
  <2>2. TypeOK' /\ CallersInv'
    BY <2>1, WorksIs
  <2>3. worker'.pc \in Drains /\ ~Heading("cleanup")' /\ ~Heading("unload")' /\ ~Heading("release")'
    BY <2>1 DEF Heading, Drains
  <2>4. DrainInv'
    BY <2>1, <2>3 DEF DrainInv
  <2>5. GoneInv'
    BY <2>1, <2>3 DEF GoneInv, Works
  <2>6. KindsInv'
    BY <2>1 DEF KindsInv, QueuesType, Works
  <2> QED
    BY <2>2, <2>4, <2>5, <2>6
<1> QED
  BY <1>3, <1>4, <1>5, <1>6, <1>7, <1>8

-----------------------------------------------------------------------------
(* The worker drains, ends a run and unloads *)

LEMMA DrainIs ==
    ASSUME PinInv, DrainPasses \/ DrainWaits \/ DrainSleeps
    PROVE  /\ Works /\ UNCHANGED Draining /\ worker.pc \in Drains
           /\ worker'.cmd = worker.cmd /\ worker'.back = worker.back
           /\ worker'.then = worker.then /\ worker'.counter = worker.counter
           /\ \/ worker.pc = "drain" /\ InFlight = 0 /\ worker'.pc = worker.then
              \/ worker'.pc \in Drains
           /\ worker'.pc \in Drains \cup {"authorize", "cleanup", "release", "unload"}
<1>1. /\ worker.pc \in Drains /\ UNCHANGED Draining
      /\ \/ /\ worker.pc = "drain" /\ InFlight = 0
            /\ worker' = [worker EXCEPT !.pc = worker.then]
         \/ \E step \in {"drain_commit", "drain_asleep"} : worker' = [worker EXCEPT !.pc = step]
  BY DEF DrainPasses, DrainWaits, DrainSleeps, Drains
<1>2. worker.then \in {"authorize", "cleanup", "release", "unload"} /\ worker \in WorkerType
  BY <1>1, StillTyped DEF PinInv, DrainInv
<1>3. /\ worker' \in WorkerType
      /\ worker'.cmd = worker.cmd /\ worker'.back = worker.back
      /\ worker'.then = worker.then /\ worker'.counter = worker.counter
      /\ \/ worker.pc = "drain" /\ InFlight = 0 /\ worker'.pc = worker.then
         \/ worker'.pc \in {"drain_commit", "drain_asleep"}
  BY <1>1, <1>2 DEF WorkerType, WorkerSteps
<1>4. Works
  BY <1>1, <1>3, StillTyped, QueuesKeep DEF Works, Draining, flags, Drains
<1> QED
  BY <1>1, <1>2, <1>3, <1>4 DEF Drains

LEMMA DrainPins ==
    ASSUME PinInv, DrainPasses \/ DrainWaits \/ DrainSleeps
    PROVE  PinInv'
<1> USE DEF PinInv
<1>1. /\ Works /\ UNCHANGED <<state, host, producer>> /\ worker.pc \in Drains
      /\ worker'.cmd = worker.cmd /\ worker'.back = worker.back
      /\ worker'.then = worker.then /\ worker'.counter = worker.counter
      /\ \/ worker.pc = "drain" /\ InFlight = 0 /\ worker'.pc = worker.then
         \/ worker'.pc \in Drains
      /\ worker'.pc \in Drains \cup {"authorize", "cleanup", "release", "unload"}
  BY DrainIs DEF Draining
<1>2. TypeOK' /\ CallersInv' /\ (Drained' <=> Drained)
  BY <1>1, WorksIs
<1>3. \/ worker.then = "unload" /\ worker.counter = "gate"
      \/ worker.then \in {"authorize", "cleanup", "release"} /\ worker.counter = "bound"
  BY <1>1 DEF DrainInv
<1>4. /\ Heading("authorize")' <=> Heading("authorize")
      /\ Heading("cleanup")' <=> Heading("cleanup")
      /\ Heading("release")' <=> Heading("release")
      /\ Heading("unload")' <=> Heading("unload")
  BY <1>1, <1>3 DEF Heading, Drains
<1>5. DrainInv'
  <2>1. worker'.pc \in {"authorize", "cleanup"} => Drained
    <3>1. worker'.pc \in {"authorize", "cleanup"} => bound = 0
      BY <1>1, <1>3 DEF InFlight, Drains
    <3> QED
      BY <3>1, NobodyInside
  <2>2. worker'.pc # "finish" /\ worker.pc # "finish"
    BY <1>1 DEF Drains
  <2> QED
    BY <1>1, <1>2, <1>3, <1>4, <2>1, <2>2 DEF DrainInv
<1>6. GoneInv'
  <2>1. worker'.pc = "unload" => gate.count = 0
    BY <1>1, <1>3 DEF InFlight, Drains
  <2>2. /\ worker'.pc \notin {"off", "done", "exit"} /\ worker.pc \notin {"off", "done", "exit"}
        /\ UNCHANGED <<gate, cb, unload_requested>>
    BY <1>1 DEF Drains, Works
  <2> QED
    BY <1>1, <1>4, <2>1, <2>2 DEF GoneInv
<1>7. KindsInv'
  BY <1>1 DEF KindsInv, QueuesType, Works, Drains
<1> QED
  BY <1>2, <1>5, <1>6, <1>7

LEMMA AuthorizeIs ==
    ASSUME PinInv, Authorize
    PROVE  /\ worker.pc = "authorize" /\ worker.cmd.kind = "stop" /\ worker.cmd \in Commands
           /\ UNCHANGED <<queues, report>>
           /\ \/ Fails /\ UNCHANGED producer
              \/ /\ ~unload_requested /\ ~forced /\ ~forced' /\ Works
                 /\ worker'.pc = "finish" /\ UNCHANGED <<state, run, host>>
                 /\ \/ UNCHANGED producer
                    \/ Authorized /\ producer' = Written("stop")
<1>1. /\ worker.pc = "authorize"
      /\ forced' = IF unload_requested THEN forced ELSE FALSE
      /\ UNCHANGED <<gate, bound, cb, queues, unload_requested, report, obs, now, bounds>>
  BY DEF Authorize
<1>2. worker.cmd.kind = "stop" /\ worker.cmd \in Commands /\ forced' \in BOOLEAN
  <2>1. worker.cmd.kind = "stop" /\ worker.cmd \in Commands \cup {NoCommand}
    BY <1>1, StillTyped DEF PinInv, DrainInv, Heading, WorkerType
  <2>2. worker.cmd # NoCommand
    BY <2>1 DEF NoCommand
  <2>3. forced' \in BOOLEAN
    BY <1>1, StillTyped
  <2> QED
    BY <2>1, <2>2, <2>3
<1>3. CASE FailRun /\ UNCHANGED <<producer, faults>>
  <2>1. Fails
    BY <1>1, <1>2, <1>3, FailRunIs, StillTyped, QueuesKeep DEF Fails, Works
  <2> QED
    BY <1>1, <1>2, <1>3, <2>1
<1>4. ASSUME ~unload_requested, ~forced, NEW ok \in BOOLEAN,
             IF Authorized THEN MayFail(ok) ELSE ~ok /\ UNCHANGED faults,
             producer' = IF ok THEN Written("stop") ELSE producer,
             worker' = [worker EXCEPT !.pc = "finish"],
             UNCHANGED <<state, run, host>>
      PROVE  /\ ~forced' /\ Works /\ worker'.pc = "finish"
             /\ UNCHANGED producer \/ (Authorized /\ producer' = Written("stop"))
  <2>1. worker' \in WorkerType /\ worker'.pc = "finish"
    BY <1>4, StillTyped DEF WorkerType, WorkerSteps
  <2>2. faults' \in Nat
    BY <1>4, FaultsAre, StillTyped DEF PinInv
  <2>3. producer' \in Producers
    BY <1>2, <1>4, WrittenIs, StillTyped DEF Events
  <2>4. Works
    BY <1>1, <1>2, <1>4, <2>1, <2>2, <2>3, StillTyped, QueuesKeep DEF Works
  <2> QED
    BY <1>1, <1>4, <2>1, <2>4
<1>5. \/ FailRun /\ UNCHANGED <<producer, faults>>
      \/ /\ ~unload_requested /\ ~forced
         /\ \E ok \in BOOLEAN :
            /\ IF Authorized THEN MayFail(ok) ELSE ~ok /\ UNCHANGED faults
            /\ producer' = IF ok THEN Written("stop") ELSE producer
            /\ worker' = [worker EXCEPT !.pc = "finish"]
            /\ UNCHANGED <<state, run, host>>
  BY DEF Authorize
<1> QED
  BY <1>1, <1>2, <1>3, <1>4, <1>5

LEMMA AuthorizePins ==
    ASSUME PinInv, Authorize
    PROVE  PinInv'
<1> USE DEF PinInv
<1>1. CASE Fails
  BY <1>1, AuthorizeIs, FailPins DEF Fails
<1>2. CASE Works /\ worker'.pc = "finish" /\ UNCHANGED <<state, run, host>>
  <2>1. worker.pc = "authorize" /\ TypeOK' /\ CallersInv' /\ (Drained' <=> Drained)
    BY <1>2, AuthorizeIs, WorksIs
  <2>2. worker'.pc \notin Drains /\ ~Heading("authorize")' /\ ~Heading("cleanup")' /\ ~Heading("unload")' /\ ~Heading("release")'
    BY <1>2 DEF Heading, Drains
  <2>3. DrainInv'
    BY <1>2, <2>1, <2>2 DEF DrainInv, Heading
  <2>4. GoneInv'
    BY <1>2, <2>1, <2>2 DEF GoneInv, Works
  <2>5. KindsInv'
    BY <1>2 DEF KindsInv, QueuesType, Works
  <2> QED
    BY <2>1, <2>3, <2>4, <2>5
<1> QED
  BY <1>1, <1>2, AuthorizeIs

LEMMA ResetIs ==
    ASSUME PinInv, ResetRun, UNCHANGED <<control, clock, next_order>>
    PROVE  /\ QueuesType' /\ scenes' = <<>> /\ producer' = NoProducer /\ producer' \in Producers
           /\ run' \in Runs /\ ~run'.accepting /\ ~run'.accepted
<1>1. QueuesType'
  BY QueuesKeep, CapacityAssumption, BoundsAssumption DEF QueuesType, ResetRun, NoClock
<1>2. run' \in Runs /\ ~run'.accepting /\ ~run'.accepted
  BY BoundsAssumption DEF ResetRun, NoRun, Runs, NoClock
<1> QED
  BY <1>1, <1>2, NewProducer DEF ResetRun

LEMMA FinishStopIs ==
    ASSUME PinInv, FinishStop
    PROVE  /\ worker.pc = "finish" /\ Works /\ worker' = Idle
           /\ UNCHANGED <<control, clock, next_order, flags>> /\ scenes' = <<>>
           /\ producer' = NoProducer /\ ~run'.accepting /\ ~run'.accepted
           /\ host' = ReleaseOutput(host)
           /\ \/ /\ producer.stopped /\ state' = "idle"
                 /\ report' = [successful |-> TRUE, records |-> producer, sent |-> obs.sent]
              \/ state' = "failed" /\ report' = NoReport
<1>1. /\ worker.pc = "finish" /\ worker' = Idle /\ host' = ReleaseOutput(host) /\ ResetRun
      /\ UNCHANGED <<gate, bound, cb, control, clock, next_order, flags, obs, now, bounds>>
      /\ faults' \in Nat
      /\ \/ /\ producer.stopped /\ state' = "idle"
            /\ report' = [successful |-> TRUE, records |-> producer, sent |-> obs.sent]
         \/ state' = "failed" /\ report' = NoReport
  BY FaultsAre DEF FinishStop, PinInv
<1>2. state' \in States
  BY <1>1 DEF States
<1>3. report' \in [successful : BOOLEAN, records : Producers, sent : Seq(Pauses)]
  <2>1. producer \in Producers /\ obs.sent \in Seq(Pauses) /\ NoProducer \in Producers /\ <<>> \in Seq(Pauses)
    BY NewProducer DEF PinInv, TypeOK
  <2>2. NoReport \in [successful : BOOLEAN, records : Producers, sent : Seq(Pauses)]
    BY <2>1 DEF NoReport
  <2>3. [successful |-> TRUE, records |-> producer, sent |-> obs.sent]
            \in [successful : BOOLEAN, records : Producers, sent : Seq(Pauses)]
    BY <2>1
  <2> QED
    BY <1>1, <2>2, <2>3
<1>4. Works
  BY <1>1, <1>2, <1>3, ResetIs, IdleIs, HostIs, StillTyped DEF Works, flags
<1> QED
  BY <1>1, <1>4, ResetIs

LEMMA CleanupIs ==
    ASSUME PinInv, Cleanup
    PROVE  /\ worker.pc = "cleanup" /\ Works /\ worker' = At(worker.back)
           /\ worker.back \in {"wait", "exit"} /\ worker'.pc = worker.back
           /\ UNCHANGED <<control, clock, next_order, flags>> /\ scenes' = <<>>
           /\ producer' = NoProducer /\ ~run'.accepting /\ ~run'.accepted
           /\ host' = ReleaseOutput(host) /\ report' = NoReport
           /\ state' \in {"failed", "unloading"}
<1>1. /\ worker.pc = "cleanup" /\ worker' = At(worker.back) /\ host' = ReleaseOutput(host) /\ ResetRun
      /\ UNCHANGED <<gate, bound, cb, control, clock, next_order, flags, obs, now, bounds, faults>>
      /\ state' \in {"failed", "unloading"} /\ report' = NoReport
  BY DEF Cleanup
<1>2. worker.back \in {"wait", "exit"}
  BY <1>1 DEF PinInv, DrainInv, Heading
<1>3. worker' \in WorkerType /\ worker'.pc = worker.back
  BY <1>1, <1>2 DEF At, WorkerType, WorkerSteps
<1>4. report' \in [successful : BOOLEAN, records : Producers, sent : Seq(Pauses)]
  <2>1. NoProducer \in Producers /\ <<>> \in Seq(Pauses)
    BY NewProducer
  <2> QED
    BY <1>1, <2>1 DEF NoReport
<1>5. Works
  BY <1>1, <1>3, <1>4, ResetIs, HostIs, StillTyped DEF Works, flags, States
<1> QED
  BY <1>1, <1>2, <1>3, <1>5, ResetIs

LEMMA EndPins ==
    ASSUME PinInv, FinishStop \/ Cleanup
    PROVE  PinInv'
<1> USE DEF PinInv
<1>1. /\ worker.pc \in {"finish", "cleanup"} /\ Works /\ producer' = NoProducer
      /\ host' = ReleaseOutput(host) /\ state' \in {"idle", "failed", "unloading"}
      /\ worker'.pc = "wait" \/ (worker.pc = "cleanup" /\ worker.back = "exit" /\ worker'.pc = "exit")
  BY FinishStopIs, CleanupIs, IdleIs
<1>2. host'.pinned = host.pinned /\ ~host'.reference
  BY <1>1, HostIs, StillTyped
<1>3. CASE worker'.pc = "wait"
  BY <1>1, <1>2, <1>3, RestPins
<1>4. CASE worker.pc = "cleanup" /\ worker.back = "exit" /\ worker'.pc = "exit"
  <2>1. TypeOK' /\ CallersInv'
    BY <1>1, WorksIs
  <2>2. /\ worker'.pc \notin Drains /\ ~Heading("authorize")' /\ ~Heading("cleanup")'
        /\ ~Heading("unload")' /\ ~Heading("release")' /\ Heading("cleanup")
    BY <1>4 DEF Heading, Drains
  <2>3. DrainInv'
    BY <1>4, <2>2 DEF DrainInv
  <2>4. GoneInv'
    BY <1>1, <1>2, <1>4, <2>2, NewProducer DEF GoneInv, Works
  <2>5. KindsInv'
    BY <1>1, <1>4 DEF KindsInv, QueuesType, Works
  <2> QED
    BY <2>1, <2>3, <2>4, <2>5
<1> QED
  BY <1>1, <1>3, <1>4

LEMMA WorkerUnloadsIs ==
    ASSUME PinInv, WorkerUnloads
    PROVE  /\ worker.pc = "unload" /\ Works /\ UNCHANGED <<producer, queues, flags, report>>
           /\ worker'.pc = "drain" /\ worker'.counter = "bound" /\ worker'.back = "exit"
           /\ host' = DisconnectSignals(host) /\ run'.accepted = run.accepted
           /\ \/ /\ worker'.then = "cleanup" /\ state' \in {"stopping", "unloading"}
                 /\ ~run'.accepting
              \/ /\ worker'.then = "release" /\ UNCHANGED <<state, run>>
                 /\ ~producer.open /\ ~host.reference
<1>1. /\ worker.pc = "unload" /\ host' = DisconnectSignals(host)
      /\ UNCHANGED <<producer, faults, Processing>>
      /\ \/ /\ DrainThen("bound", "cleanup", "exit")
            /\ run' = [run EXCEPT !.accepting = FALSE]
            /\ state' \in {"stopping", "unloading"}
         \/ /\ DrainThen("bound", "release", "exit") /\ UNCHANGED <<state, run>>
            /\ ~producer.open /\ ~host.reference
  BY DEF WorkerUnloads
<1>2. /\ worker' \in WorkerType /\ worker'.pc = "drain" /\ worker'.counter = "bound"
      /\ worker'.back = "exit"
      /\ DrainThen("bound", "cleanup", "exit") => worker'.then = "cleanup"
      /\ DrainThen("bound", "release", "exit") => worker'.then = "release"
  BY <1>1, StillTyped DEF DrainThen, WorkerType, WorkerSteps
<1>3. /\ run' \in Runs /\ run'.accepted = run.accepted
      /\ run' = [run EXCEPT !.accepting = FALSE] => ~run'.accepting
  BY <1>1, StillTyped DEF Runs
<1>4. state' \in States
  BY <1>1, StillTyped DEF States
<1>5. Works
  BY <1>1, <1>2, <1>3, <1>4, HostIs, StillTyped, QueuesKeep DEF Works, Processing, flags
<1> QED
  BY <1>1, <1>2, <1>3, <1>5 DEF Processing, flags

LEMMA GoingPins ==
    ASSUME PinInv, WorkerUnloads \/ WorkerReleases \/ WorkerExits
    PROVE  PinInv'
<1> USE DEF PinInv
<1>1. CASE WorkerUnloads
  <2>1. /\ worker.pc = "unload" /\ Works /\ UNCHANGED producer
        /\ worker'.pc = "drain" /\ worker'.counter = "bound" /\ worker'.back = "exit"
        /\ host' = DisconnectSignals(host)
        /\ \/ worker'.then = "cleanup" /\ state' \in {"stopping", "unloading"}
           \/ worker'.then = "release" /\ state' = state /\ ~producer.open /\ ~host.reference
    BY <1>1, WorkerUnloadsIs
  <2>2. /\ host'.pinned = host.pinned /\ host'.reference = host.reference /\ ~host'.connected
        /\ state # "unloaded"
    BY <2>1, HostIs, StillTyped
  <2>3. TypeOK' /\ CallersInv'
    BY <2>1, WorksIs
  <2>4. /\ worker'.pc \in Drains /\ ~Heading("authorize")' /\ ~Heading("unload")' /\ Heading("unload")
        /\ Heading("cleanup")' <=> worker'.then = "cleanup"
        /\ Heading("release")' <=> worker'.then = "release"
    BY <2>1 DEF Heading, Drains
  <2>5. DrainInv'
    BY <2>1, <2>2, <2>4 DEF DrainInv
  <2>6. GoneInv'
    BY <2>1, <2>2, <2>4 DEF GoneInv, Works
  <2>7. KindsInv'
    BY <2>1 DEF KindsInv, QueuesType, Works
  <2> QED
    BY <2>3, <2>5, <2>6, <2>7
<1>2. ASSUME WorkerReleases \/ WorkerExits
      PROVE  PinInv'
  <2>1. /\ UNCHANGED <<run, producer, faults, Processing>>
        /\ \/ /\ worker.pc = "release" /\ host' = ReleaseOutput(host) /\ state' = state
              /\ worker' = [worker EXCEPT !.pc = "exit"]
           \/ /\ worker.pc = "exit" /\ host' = [host EXCEPT !.pinned = FALSE]
              /\ state' = "unloading" /\ worker' = [worker EXCEPT !.pc = "done"]
    BY <1>2 DEF WorkerReleases, WorkerExits
  <2>2. /\ Heading("release") \/ worker.pc = "exit"
        /\ unload_requested /\ gate.closed /\ gate.count = 0 /\ ~host.reference /\ ~producer.open
        /\ host.pinned
    BY <2>1 DEF GoneInv, Heading
  <2>3. /\ worker' \in WorkerType /\ host' \in HostType /\ ~host'.reference
        /\ \/ worker'.pc = "exit" /\ host'.pinned
           \/ worker'.pc = "done" /\ ~host'.pinned
    <3>1. worker \in WorkerType /\ host \in HostType
      BY StillTyped
    <3>2. CASE worker' = [worker EXCEPT !.pc = "exit"] /\ host' = ReleaseOutput(host)
      BY <2>2, <3>1, <3>2, HostIs DEF WorkerType, WorkerSteps
    <3>3. CASE worker' = [worker EXCEPT !.pc = "done"] /\ host' = [host EXCEPT !.pinned = FALSE]
      BY <2>2, <3>1, <3>3 DEF WorkerType, WorkerSteps, HostType
    <3> QED
      BY <2>1, <3>2, <3>3
  <2>4. state' \in States /\ (state' = "unloaded" => state = "unloaded") /\ state # "unloaded"
    BY <2>1, StillTyped DEF States
  <2>5. Works
    BY <2>1, <2>3, <2>4, StillTyped, QueuesKeep DEF Works, Processing, flags
  <2>6. TypeOK' /\ CallersInv'
    BY <2>5, WorksIs
  <2>7. /\ worker'.pc \notin Drains /\ ~Heading("authorize")' /\ ~Heading("cleanup")'
        /\ ~Heading("unload")' /\ ~Heading("release")'
    BY <2>3 DEF Heading, Drains
  <2>8. DrainInv'
    BY <2>3, <2>7 DEF DrainInv
  <2>9. GoneInv'
    BY <2>1, <2>2, <2>3, <2>4, <2>5, <2>7 DEF GoneInv, Works
  <2>10. KindsInv'
    BY <2>3, <2>5 DEF KindsInv, QueuesType, Works
  <2> QED
    BY <2>6, <2>8, <2>9, <2>10
<1> QED
  BY <1>1, <1>2

-----------------------------------------------------------------------------
(* The module stays pinned *)

LEMMA InitPins == Init => PinInv
<1> SUFFICES ASSUME Init
             PROVE  PinInv
  OBVIOUS
<1>1. Out \in CallbackType /\ Out.pc = "out" /\ At("off") \in WorkerType /\ At("off").pc = "off"
  BY BoundsAssumption DEF Out, CallbackType, CallbackSteps, NoClock, At, WorkerType, WorkerSteps
<1>2. /\ NoRun \in Runs /\ ~NoRun.accepting
      /\ NoReport \in [successful : BOOLEAN, records : Producers, sent : Seq(Pauses)]
  <2>1. NoProducer \in Producers /\ <<>> \in Seq(Pauses)
    BY NewProducer
  <2> QED
    BY <2>1, BoundsAssumption DEF NoRun, Runs, NoClock, NoReport
<1>3. TypeOK
  <2>1. <<>> \in Seq(Commands) /\ <<>> \in Seq(Pauses) /\ Len(<<>>) = 0
    OBVIOUS
  <2>2. 0 <= ControlCapacity /\ 0 <= SceneCapacity
    BY CapacityAssumption
  <2>3. cb \in [Callers -> CallbackType] /\ worker \in WorkerType /\ producer \in Producers
    BY <1>1, NewProducer DEF Init
  <2>4. gate \in [closed : BOOLEAN, count : 0 .. 3] /\ bound \in 0 .. 3
    BY DEF Init
  <2>5. state \in States /\ last_clock \in 0 .. NoClock /\ now \in 0 .. MaxNow
    BY BoundsAssumption DEF Init, States, NoClock
  <2>6. /\ host \in [installed : BOOLEAN, reference : BOOLEAN, connected : BOOLEAN, pinned : BOOLEAN]
        /\ obs \in [phase : {"off", "starting", "on", "paused"}, ours : BOOLEAN, sent : Seq(Pauses)]
    BY <2>1 DEF Init
  <2> QED
    BY <1>2, <2>1, <2>2, <2>3, <2>4, <2>5, <2>6 DEF Init, TypeOK, CallbackType, WorkerType
<1>4. CallersInv
  <2>1. \A c \in Callers : cb[c] = Out
    BY DEF Init
  <2> QED
    BY <1>1, <2>1 DEF Init, CallersInv, In, InBound, Inside, Callers
<1>5. worker.pc = "off" /\ worker.pc \notin Drains
  BY <1>1 DEF Init, Drains
<1>6. DrainInv
  BY <1>5 DEF DrainInv, Heading
<1>7. GoneInv
  <2>1. cb["ui"].pc = "out" /\ ~run.accepting /\ ~producer.open
    BY <1>1, <1>2, NewProducer DEF Init, Callers
  <2> QED
    BY <1>5, <2>1 DEF GoneInv, Heading, Init
<1>8. KindsInv
  BY <1>5 DEF KindsInv, Init, NoCommand
<1> QED
  BY <1>3, <1>4, <1>6, <1>7, <1>8 DEF PinInv

LEMMA StutterPins == PinInv /\ UNCHANGED vars => PinInv'
BY SMTT(30) DEF PinInv, vars, queues, flags, bounds, TypeOK, CallersInv, In, InBound, DrainInv, Drained, Heading,
       GoneInv, KindsInv

LEMMA NextPins ==
    ASSUME PinInv, [Next]_vars
    PROVE  PinInv'
<1>1. CASE Load
  BY <1>1, LoadPins
<1>2. ASSUME NEW ev \in Events, TurnedAway(ev)
      PROVE  PinInv'
  BY <1>2, TurnedAwayPins
<1>3. CASE Callback
  <2>1. CASE Capture
    BY <2>1, EntersPins, SettlesPins, OnRecordingStartingPins DEF Capture, Pauses
  <2>2. CASE Queue
    BY <2>2, SettlesPins
  <2>3. ASSUME NEW c \in Callers, FindBusy(c) \/ Leave(c)
        PROVE  PinInv'
    BY <2>3, SettlesPins, LeavePins
  <2> QED
    BY <1>3, <2>1, <2>2, <2>3 DEF Callback
<1>4. CASE WorkerStep
  BY <1>4, WaitingPins, WorkerTakesPins, WorkerDropsAllPins, ProcessPins, DrainPins, AuthorizePins,
     EndPins, GoingPins DEF WorkerStep
<1>5. CASE DrainPasses
  BY <1>5, DrainPins
<1>6. CASE Unload
  BY <1>6, UnloadPins
<1>7. CASE UnloadStep
  BY <1>7, UnloadStepPins
<1>8. CASE UNCHANGED vars
  BY <1>8, StutterPins
<1> QED
  BY <1>1, <1>2, <1>3, <1>4, <1>5, <1>6, <1>7, <1>8 DEF Next

\* Who is inside a callback, what the worker waits for and what it has released stay consistent,
\* for any bounds.  (enter_callback, leave_callback, worker_main, unload)
THEOREM PinIsKept == Spec => []PinInv
<1>1. Init => PinInv
  BY InitPins
<1>2. PinInv /\ [Next]_vars => PinInv'
  BY NextPins
<1> QED
  BY <1>1, <1>2, PTL DEF Spec

\* The module stays referenced while a callback is inside or the worker uses the output, and
\* a worker that was joined has left nothing behind, for any bounds.
\* (WorkerUnloads waits for the gate, WorkerExits gives the reference back)
THEOREM PinnedAlways == Spec => []PinnedWhileUsed
<1>1. PinInv => PinnedWhileUsed
  BY DEF PinInv, GoneInv, TypeOK, PinnedWhileUsed
<1> QED
  BY <1>1, PinIsKept, PTL

-----------------------------------------------------------------------------
(* The common order of the commands *)

LEMMA PendingIs ==
    \A f : f \in Pending <=> \/ \E i \in 1 .. Len(control) : f = control[i]
                             \/ \E i \in 1 .. Len(scenes) : f = scenes[i]
                             \/ f = clock /\ clock # NoCommand
BY DEF Pending

LEMMA PendingWillBe ==
    \A f : f \in Pending' <=> \/ \E i \in 1 .. Len(control') : f = control'[i]
                              \/ \E i \in 1 .. Len(scenes') : f = scenes'[i]
                              \/ f = clock' /\ clock' # NoCommand
BY DEF Pending

LEMMA UndecidedIs ==
    ASSUME PinInv, Undecided
    PROVE  worker.cmd \in Commands /\ worker.cmd.order \in Nat
<1>1. CASE worker.pc = "process"
  BY <1>1 DEF PinInv, KindsInv, Commands
<1>2. CASE Heading("authorize")
  <2>1. worker.cmd.kind = "stop" /\ worker.cmd \in Commands \cup {NoCommand}
    BY <1>2, StillTyped DEF PinInv, DrainInv, WorkerType
  <2>2. worker.cmd # NoCommand
    BY <2>1 DEF NoCommand
  <2> QED
    BY <2>1, <2>2 DEF Commands
<1> QED
  BY <1>1, <1>2 DEF Undecided

\* Nothing is queued, taken or written.
LEMMA OrderKeeps ==
    ASSUME OrderInv, UNCHANGED <<control, clock, scenes, next_order, producer>>,
           Undecided' => Undecided /\ worker'.cmd = worker.cmd
    PROVE  OrderInv'
<1>1. Pending' = Pending
  BY DEF Pending
<1> HIDE DEF Pending, Undecided
<1> QED
  BY <1>1 DEF OrderInv

\* The command the worker took is written.
LEMMA OrderWrites ==
    ASSUME PinInv, OrderInv, Undecided, producer.open, NEW kind \in Events \cup {"anchor"},
           producer' = Written(kind), UNCHANGED queues, ~Undecided'
    PROVE  OrderInv'
<1>1. Pending' = Pending /\ UNCHANGED <<control, scenes, next_order>>
  BY DEF Pending, queues
<1>2. /\ worker.cmd \in Commands
      /\ producer.last < worker.cmd.order /\ worker.cmd.order < next_order
      /\ \A f \in Pending : worker.cmd.order < f.order /\ f.order < next_order
  BY UndecidedIs DEF OrderInv
<1>3. /\ producer'.open /\ producer'.last = worker.cmd.order
      /\ producer'.ordered = (producer.ordered /\ worker.cmd.order > producer.last)
  BY <1>2, WrittenIs
<1>4. producer'.ordered
  BY <1>2, <1>3, UndecidedIs, StillTyped DEF OrderInv, Producers
<1> HIDE DEF Pending, Undecided
<1> QED
  BY <1>1, <1>2, <1>3, <1>4 DEF OrderInv

\* Queues are emptied, or a producer begins or is closed.
LEMMA OrderShrinks ==
    ASSUME PinInv, OrderInv, ~Undecided', next_order' = next_order,
           control' \in {control, <<>>}, scenes' \in {scenes, <<>>}, clock' \in {clock, NoCommand},
           producer' = producer \/ (producer'.last = 0 /\ producer'.ordered),
           ~producer'.open => producer' = NoProducer
    PROVE  OrderInv'
<1>1. Pending' \subseteq Pending
  <2>1. ASSUME NEW f, \E i \in 1 .. Len(control') : f = control'[i]
        PROVE  f \in Pending
    BY <2>1, PendingIs
  <2>2. ASSUME NEW f, \E i \in 1 .. Len(scenes') : f = scenes'[i]
        PROVE  f \in Pending
    BY <2>2, PendingIs
  <2>3. ASSUME clock' # NoCommand
        PROVE  clock' \in Pending
    BY <2>3, PendingIs
  <2>4. \A f : f \in Pending' <=> \/ \E i \in 1 .. Len(control') : f = control'[i]
                                  \/ \E i \in 1 .. Len(scenes') : f = scenes'[i]
                                  \/ f = clock' /\ clock' # NoCommand
    BY PendingWillBe
  <2> HIDE DEF Pending
  <2> QED
    BY <2>1, <2>2, <2>3, <2>4
<1>2. /\ \A i, j \in 1 .. Len(control') : i < j => control'[i].order < control'[j].order
      /\ \A i, j \in 1 .. Len(scenes') : i < j => scenes'[i].order < scenes'[j].order
  BY DEF OrderInv
<1>3. producer.last \in Nat /\ next_order \in Nat /\ \A f \in Pending : f.order \in Nat
  <2>1. \A f \in Pending : f \in Commands
    BY PendingIs, QueuesKeep, Empty DEF QueuesType
  <2> QED
    BY <2>1, StillTyped DEF Producers, Commands, QueuesType
<1>4. producer'.last <= producer.last /\ producer'.ordered
  BY <1>3 DEF OrderInv
<1>5. producer'.last \in Nat
  BY <1>3
<1> HIDE DEF Pending, Undecided
<1>6. /\ \A f \in Pending' : producer'.last < f.order /\ f.order < next_order'
      /\ producer'.last < next_order'
  BY <1>1, <1>3, <1>4, <1>5 DEF OrderInv
<1> QED
  BY <1>1, <1>2, <1>4, <1>6 DEF OrderInv

\* A command is queued with the next number.
LEMMA OrderQueues ==
    ASSUME PinInv, OrderInv, NEW x \in Commands, x.order = next_order,
           next_order' = next_order + 1, producer' = producer,
           Undecided' => Undecided /\ worker'.cmd = worker.cmd,
           \/ control' = Append(control, x) /\ UNCHANGED <<clock, scenes>>
           \/ scenes' = Append(scenes, x) /\ UNCHANGED <<control, clock>>
           \/ clock' = x /\ UNCHANGED <<control, scenes>>
    PROVE  OrderInv'
<1>1. /\ QueuesType /\ next_order \in Nat /\ producer.last \in Nat
      /\ \A f \in Pending : f \in Commands /\ f.order \in Nat /\ f.order < next_order
  <2>1. \A f \in Pending : f \in Commands
    BY PendingIs, QueuesKeep, Empty DEF QueuesType
  <2> QED
    BY <2>1, StillTyped DEF Producers, Commands, QueuesType, OrderInv
<1>2. \A q \in Seq(Commands) :
         /\ Len(q) \in Nat /\ Len(Append(q, x)) = Len(q) + 1
         /\ \A i \in 1 .. Len(q) : Append(q, x)[i] = q[i]
         /\ Append(q, x)[Len(q) + 1] = x
  BY Appended
<1>3. Pending' \subseteq Pending \cup {x}
  <2>1. \A f : f \in Pending' <=> \/ \E i \in 1 .. Len(control') : f = control'[i]
                                  \/ \E i \in 1 .. Len(scenes') : f = scenes'[i]
                                  \/ f = clock' /\ clock' # NoCommand
    BY PendingWillBe
  <2>2. \A i \in 1 .. Len(control') : control'[i] \in Pending \cup {x}
    BY <1>1, <1>2, PendingIs, SMTT(30) DEF QueuesType
  <2>3. \A i \in 1 .. Len(scenes') : scenes'[i] \in Pending \cup {x}
    BY <1>1, <1>2, PendingIs, SMTT(30) DEF QueuesType
  <2>4. clock' # NoCommand => clock' \in Pending \cup {x}
    BY PendingIs
  <2> HIDE DEF Pending
  <2> QED
    BY <2>1, <2>2, <2>3, <2>4
<1> HIDE DEF Pending
<1>4. \A i, j \in 1 .. Len(control') : i < j => control'[i].order < control'[j].order
  <2>1. CASE control' = Append(control, x)
    <3>1. \A i \in 1 .. Len(control) : control[i].order < next_order
      BY <1>1, PendingIs
    <3> QED
      BY <1>1, <1>2, <2>1, <3>1 DEF OrderInv, QueuesType
  <2> QED
    BY <2>1 DEF OrderInv
<1>5. \A i, j \in 1 .. Len(scenes') : i < j => scenes'[i].order < scenes'[j].order
  <2>1. CASE scenes' = Append(scenes, x)
    <3>1. \A i \in 1 .. Len(scenes) : scenes[i].order < next_order
      BY <1>1, PendingIs
    <3>2. /\ Len(scenes) \in Nat /\ Len(scenes') = Len(scenes) + 1
          /\ \A i \in 1 .. Len(scenes) : scenes'[i] = scenes[i]
          /\ scenes'[Len(scenes) + 1] = x
      BY <1>1, <1>2, <2>1 DEF QueuesType
    <3>3. ASSUME NEW i \in 1 .. Len(scenes'), NEW j \in 1 .. Len(scenes'), i < j
          PROVE  scenes'[i].order < scenes'[j].order
      <4>1. i \in 1 .. Len(scenes) /\ (j \in 1 .. Len(scenes) \/ j = Len(scenes) + 1)
        BY <3>2, <3>3
      <4> QED
        BY <3>1, <3>2, <3>3, <4>1 DEF OrderInv
    <3> QED
      BY <3>3
  <2> QED
    BY <2>1 DEF OrderInv
<1>6. /\ \A f, g \in Pending' : f.order = g.order => f = g
      /\ \A f \in Pending' : producer'.last < f.order /\ f.order < next_order'
      /\ producer'.last < next_order'
  BY <1>1, <1>3 DEF OrderInv
<1>7. Undecided' => /\ producer'.last < worker'.cmd.order /\ worker'.cmd.order < next_order'
                    /\ \A f \in Pending' : worker'.cmd.order < f.order
  <2>1. Undecided => worker.cmd.order \in Nat
    BY UndecidedIs
  <2> HIDE DEF Undecided
  <2> QED
    BY <1>1, <1>3, <2>1 DEF OrderInv
<1> HIDE DEF Undecided
<1> QED
  BY <1>4, <1>5, <1>6, <1>7 DEF OrderInv

\* What the worker takes is smaller than everything that stays.
LEMMA WorkerTakesOrders ==
    ASSUME PinInv, OrderInv, WorkerTakes
    PROVE  OrderInv'
<1> DEFINE x == Earliest
<1>1. /\ worker'.cmd = x /\ x \in Commands /\ next_order' = next_order /\ producer' = producer
      /\ control # <<>> => x.order <= control[1].order
      /\ scenes # <<>> => x.order <= scenes[1].order
      /\ clock # NoCommand => x.order <= clock.order
      /\ \/ /\ control # <<>> /\ x = control[1] /\ control' = Tail(control)
            /\ x.kind \in Pauses \cup {"start", "stop"} /\ UNCHANGED <<clock, scenes>>
         \/ /\ scenes # <<>> /\ x = scenes[1] /\ scenes' = Tail(scenes)
            /\ x.kind = "scene" /\ UNCHANGED <<control, clock>>
         \/ /\ clock # NoCommand /\ x = clock /\ clock' = NoCommand
            /\ x.kind \in {"anchor", "tick"} /\ UNCHANGED <<control, scenes>>
  BY WorkerTakesIs DEF Waiting
<1> HIDE DEF x
<1>2. QueuesType
  BY QueuesKeep
<1>3. \A q \in Seq(Commands) : q # <<>> =>
          /\ Len(q) \in Nat \ {0} /\ q[1] \in Commands /\ Len(Tail(q)) = Len(q) - 1
          /\ \A i \in 1 .. Len(q) - 1 : Tail(q)[i] = q[i + 1]
  BY Behead
<1>4. /\ control # <<>> => 1 \in 1 .. Len(control) /\ control[1] \in Commands
      /\ scenes # <<>> => 1 \in 1 .. Len(scenes) /\ scenes[1] \in Commands
      /\ clock # NoCommand => clock \in Commands
      /\ Len(control) \in Nat /\ Len(scenes) \in Nat
      /\ \A i \in 1 .. Len(control) : control[i] \in Commands
      /\ \A i \in 1 .. Len(scenes) : scenes[i] \in Commands
  BY <1>2, <1>3, Empty DEF QueuesType
<1>5. x \in Pending
  BY <1>1, <1>4, PendingIs
<1>6. \A f \in Pending : f.order \in Nat /\ x.order <= f.order
  <2>1. \A c \in Commands : c.order \in Nat
    BY DEF Commands
  <2>2. \A i \in 1 .. Len(control) : x.order <= control[i].order
    <3>1. ASSUME NEW i \in 1 .. Len(control)
          PROVE  x.order <= control[i].order
      <4>1. control # <<>>
        BY <1>4, Empty
      <4>2. i = 1 \/ control[1].order < control[i].order
        BY <1>4, <4>1 DEF OrderInv
      <4> QED
        BY <1>1, <1>4, <2>1, <4>1, <4>2
    <3> QED
      BY <3>1
  <2>3. \A i \in 1 .. Len(scenes) : x.order <= scenes[i].order
    <3>1. ASSUME NEW i \in 1 .. Len(scenes)
          PROVE  x.order <= scenes[i].order
      <4>1. scenes # <<>>
        BY <1>4, Empty
      <4>2. i = 1 \/ scenes[1].order < scenes[i].order
        BY <1>4, <4>1 DEF OrderInv
      <4> QED
        BY <1>1, <1>4, <2>1, <4>1, <4>2
    <3> QED
      BY <3>1
  <2> QED
    BY <1>1, <1>4, <2>1, <2>2, <2>3, PendingIs
<1>8. \A i, j \in 1 .. Len(control') : i < j => control'[i].order < control'[j].order
  <2>1. CASE control' = Tail(control) /\ control # <<>>
    BY <1>2, <1>3, <1>4, <2>1 DEF OrderInv, QueuesType
  <2> QED
    BY <1>1, <2>1 DEF OrderInv
<1>9. \A i, j \in 1 .. Len(scenes') : i < j => scenes'[i].order < scenes'[j].order
  <2>1. CASE scenes' = Tail(scenes) /\ scenes # <<>>
    BY <1>2, <1>3, <1>4, <2>1 DEF OrderInv, QueuesType
  <2> QED
    BY <1>1, <2>1 DEF OrderInv
<1>10. /\ \A i \in 1 .. Len(control) : control[i].kind \in Pauses \cup {"start", "stop"}
       /\ \A i \in 1 .. Len(scenes) : scenes[i].kind = "scene"
       /\ clock.kind \in {"none", "anchor", "tick"}
  BY <1>2 DEF QueuesType
<1>11. \A f \in Pending' : f \in Pending /\ f # x
  <2>1. \A f : f \in Pending' <=> \/ \E i \in 1 .. Len(control') : f = control'[i]
                                  \/ \E i \in 1 .. Len(scenes') : f = scenes'[i]
                                  \/ f = clock' /\ clock' # NoCommand
    BY PendingWillBe
  <2>2. \A i \in 1 .. Len(control') : control'[i] \in Pending /\ control'[i] # x
    <3>1. CASE control' = Tail(control) /\ control # <<>> /\ x = control[1]
      <4>1. ASSUME NEW i \in 1 .. Len(control')
            PROVE  control'[i] \in Pending /\ control'[i] # x
        <5>1. i + 1 \in 1 .. Len(control) /\ control'[i] = control[i + 1] /\ 1 < i + 1
          BY <1>2, <1>3, <3>1 DEF QueuesType
        <5>2. control[1].order < control[i + 1].order /\ control[1].order \in Nat
          BY <1>4, <3>1, <5>1 DEF OrderInv, Commands
        <5> QED
          BY <3>1, <5>1, <5>2, PendingIs
      <4> QED
        BY <4>1
    <3>2. CASE control' = control /\ x.kind \in {"scene", "anchor", "tick"}
      BY <1>10, <3>2, PendingIs DEF Pauses
    <3> QED
      BY <1>1, <3>1, <3>2
  <2>3. \A i \in 1 .. Len(scenes') : scenes'[i] \in Pending /\ scenes'[i] # x
    <3>1. CASE scenes' = Tail(scenes) /\ scenes # <<>> /\ x = scenes[1]
      <4>1. ASSUME NEW i \in 1 .. Len(scenes')
            PROVE  scenes'[i] \in Pending /\ scenes'[i] # x
        <5>1. i + 1 \in 1 .. Len(scenes) /\ scenes'[i] = scenes[i + 1] /\ 1 < i + 1
          BY <1>2, <1>3, <3>1 DEF QueuesType
        <5>2. scenes[1].order < scenes[i + 1].order /\ scenes[1].order \in Nat
          BY <1>4, <3>1, <5>1 DEF OrderInv, Commands
        <5> QED
          BY <3>1, <5>1, <5>2, PendingIs
      <4> QED
        BY <4>1
    <3>2. CASE scenes' = scenes /\ x.kind # "scene"
      BY <1>10, <3>2, PendingIs
    <3> QED
      BY <1>1, <3>1, <3>2 DEF Pauses
  <2>4. clock' # NoCommand => clock' \in Pending /\ clock' # x
    <3>1. CASE clock' = clock /\ x.kind \notin {"none", "anchor", "tick"}
      BY <1>10, <3>1, PendingIs
    <3> QED
      BY <1>1, <3>1 DEF Pauses
  <2> HIDE DEF Pending
  <2> QED
    BY <2>1, <2>2, <2>3, <2>4
<1>12. \A f \in Pending' : x.order < f.order
  <2> HIDE DEF Pending
  <2>1. \A f \in Pending : f.order = x.order => f = x
    BY <1>5 DEF OrderInv
  <2>2. x.order \in Nat
    BY <1>1 DEF Commands
  <2> QED
    BY <1>6, <1>11, <2>1, <2>2
<1> HIDE DEF Pending, Undecided
<1> QED
  BY <1>1, <1>5, <1>8, <1>9, <1>11, <1>12 DEF OrderInv

LEMMA WokenOrders ==
    ASSUME PinInv, OrderInv, Woken, UNCHANGED <<queues, producer>>
    PROVE  OrderInv'
<1>1. SameWork
  BY WokenIsSame DEF PinInv
<1>2. (Undecided' => Undecided) /\ worker'.cmd = worker.cmd
  BY <1>1, SameWorkKeeps DEF SameWork
<1> HIDE DEF Undecided
<1> QED
  BY <1>2, OrderKeeps DEF queues

\* Without a command in work nothing is undecided.
LEMMA Decided ==
    ASSUME worker'.pc # "process", ~Heading("authorize")'
    PROVE  ~Undecided'
BY DEF Undecided

LEMMA QueueOrders ==
    ASSUME PinInv, OrderInv, Queue
    PROVE  OrderInv'
<1>1. ASSUME NEW c \in Callers, NEW kind \in Events \cup {"anchor"}, Queued(c), Settles(c, "leaving"),
             \/ control' = Append(control, Command(kind, c)) /\ UNCHANGED <<clock, scenes>>
             \/ scenes' = Append(scenes, Command(kind, c)) /\ UNCHANGED <<control, clock>>
             \/ clock' = Command(kind, c) /\ UNCHANGED <<control, scenes>>
      PROVE  OrderInv'
  <2>1. SameWork
    BY <1>1, WokenIsSame DEF PinInv, Settles
  <2>2. (Undecided' => Undecided) /\ worker'.cmd = worker.cmd
    BY <2>1, SameWorkKeeps DEF SameWork
  <2>3. Command(kind, c) \in Commands /\ Command(kind, c).order = next_order
    BY <1>1, CommandIs DEF PinInv
  <2>4. next_order' = next_order + 1 /\ producer' = producer
    BY <1>1 DEF Queued, Settles
  <2> HIDE DEF Undecided, Command
  <2> QED
    BY <1>1, <2>2, <2>3, <2>4, OrderQueues
<1>2. ASSUME NEW c \in Callers, Settles(c, "leaving"), UNCHANGED queues
      PROVE  OrderInv'
  BY <1>2, WokenOrders DEF Settles
<1>3. {"ui", "video", "output"} \subseteq Callers /\ Pauses \cup {"start", "stop", "anchor", "tick", "scene"} \subseteq Events \cup {"anchor"}
  BY DEF Callers, Events, Pauses
<1>4. CASE QueueStart
  BY <1>1, <1>2, <1>3, <1>4, QueueStartIs
<1>5. CASE QueuePause
  BY <1>1, <1>2, <1>3, <1>5, QueuePauseIs
<1>6. CASE QueueStop
  BY <1>1, <1>2, <1>3, <1>6, QueueStopIs
<1>7. CASE QueueTick
  BY <1>1, <1>2, <1>3, <1>7, QueueTickIs
<1>8. CASE QueueScene
  <2>1. Settles("ui", "leaving")
    BY <1>8, QueueSceneIs
  <2>2. CASE UNCHANGED queues
    BY <1>2, <1>3, <2>1, <2>2
  <2>3. CASE Queued("ui") /\ scenes' = Append(scenes, Command("scene", "ui")) /\ UNCHANGED <<control, clock>>
    BY <1>1, <1>3, <2>1, <2>3
  <2> QED
    BY <1>8, <2>2, <2>3, QueueSceneIs
<1> QED
  BY <1>4, <1>5, <1>6, <1>7, <1>8 DEF Queue

LEMMA CallbackOrders ==
    ASSUME PinInv, OrderInv, Callback
    PROVE  OrderInv'
<1>1. ASSUME NEW ev \in Events, NEW step, Enters(ev, step)
      PROVE  OrderInv'
  BY <1>1, WokenOrders DEF Enters
<1>2. Pauses \cup {"start", "stop", "tick", "scene"} \subseteq Events
  BY DEF Events, Pauses
<1>3. CASE Capture
  <2>1. CASE OnRecordingStarting
    BY <2>1, OnRecordingStartingIs, WokenOrders DEF PinInv, Woken
  <2>2. CASE EnterTick
    BY <1>1, <1>2, <2>2, EnterTickIs DEF PinInv
  <2>3. CASE CaptureTick
    BY <2>3, CaptureTickIs, WokenOrders DEF Settles
  <2>4. CASE CaptureScene
    BY <1>1, <1>2, <2>4, CaptureSceneIs DEF PinInv
  <2>5. CASE CaptureStart
    BY <1>1, <1>2, <2>5, CaptureStartIs DEF PinInv
  <2>6. ASSUME NEW ev \in Pauses, CapturePause(ev)
        PROVE  OrderInv'
    BY <1>1, <1>2, <2>6, CapturePauseIs DEF PinInv
  <2>7. CASE CaptureStop
    BY <1>1, <1>2, <2>7, CaptureStopIs DEF PinInv
  <2> QED
    BY <1>3, <2>1, <2>2, <2>3, <2>4, <2>5, <2>6, <2>7 DEF Capture, Pauses
<1>4. CASE Queue
  BY <1>4, QueueOrders
<1>5. ASSUME NEW c \in Callers, FindBusy(c)
      PROVE  OrderInv'
  BY <1>5, FindBusyIs, WokenOrders DEF Settles
<1>6. ASSUME NEW c \in Callers, Leave(c)
      PROVE  OrderInv'
  BY <1>6, LeaveIs, WokenOrders
<1> QED
  BY <1>3, <1>4, <1>5, <1>6 DEF Callback

LEMMA ProcessOrders ==
    ASSUME PinInv, OrderInv,
           ProcessStart \/ Publish \/ ProcessClock \/ ProcessScene \/ ProcessPause \/ ProcessStop
    PROVE  OrderInv'
<1>1. ASSUME Fails \/ worker' = Idle \/ worker'.pc = "publish"
      PROVE  ~Undecided'
  BY <1>1, IdleIs, Decided DEF Fails, Heading, Drains
<1>2. ASSUME Fails \/ worker' = Idle \/ worker'.pc = "publish", UNCHANGED <<queues, producer>>
      PROVE  OrderInv'
  <2>1. ~Undecided'
    BY <1>1, <1>2
  <2> HIDE DEF Undecided
  <2> QED
    BY <1>2, <2>1, OrderKeeps DEF queues
<1>3. ASSUME Fails \/ worker' = Idle \/ worker'.pc = "publish", UNCHANGED queues, worker.pc = "process",
             producer.open, NEW kind \in Events \cup {"anchor"}, producer' = Written(kind)
      PROVE  OrderInv'
  <2>1. ~Undecided'
    BY <1>1, <1>3
  <2>2. Undecided
    BY <1>3 DEF Undecided
  <2> HIDE DEF Undecided, Written
  <2> QED
    BY <1>3, <2>1, <2>2, OrderWrites
<1>4. CASE ProcessStart
  <2>1. /\ UNCHANGED queues /\ producer' = [NoProducer EXCEPT !.open = TRUE]
        /\ Fails \/ worker' = Idle \/ worker'.pc = "publish"
    BY <1>4, ProcessStartIs
  <2>2. ~Undecided' /\ producer'.open /\ producer'.last = 0 /\ producer'.ordered
    BY <1>1, <2>1, NewProducer
  <2> HIDE DEF Undecided
  <2> QED
    BY <2>1, <2>2, OrderShrinks DEF queues
<1>5. CASE Publish
  BY <1>2, <1>5, PublishIs
<1>6. CASE ProcessClock
  BY <1>2, <1>3, <1>6, ProcessClockIs DEF Events
<1>7. CASE ProcessScene
  BY <1>2, <1>3, <1>7, ProcessSceneIs DEF Events
<1>8. CASE ProcessPause
  BY <1>2, <1>3, <1>8, ProcessPauseIs DEF Events, Pauses
<1>9. CASE ProcessStop
  <2>1. /\ worker.pc = "process" /\ worker'.cmd = worker.cmd /\ UNCHANGED <<producer, queues>>
    BY <1>9, ProcessStopIs
  <2>2. Undecided
    BY <2>1 DEF Undecided
  <2> HIDE DEF Undecided
  <2> QED
    BY <2>1, <2>2, OrderKeeps DEF queues
<1> QED
  BY <1>4, <1>5, <1>6, <1>7, <1>8, <1>9

LEMMA WorkerOrders ==
    ASSUME PinInv, OrderInv, WorkerStep \/ DrainPasses
    PROVE  OrderInv'
<1>1. ASSUME ~Undecided', UNCHANGED <<queues, producer>>
      PROVE  OrderInv'
  <2> HIDE DEF Undecided
  <2> QED
    BY <1>1, OrderKeeps DEF queues
<1>2. ASSUME ~Undecided', UNCHANGED <<control, clock, next_order>>, scenes' = <<>>,
             producer' = NoProducer
      PROVE  OrderInv'
  <2>1. producer'.last = 0 /\ producer'.ordered
    BY <1>2 DEF NoProducer
  <2> HIDE DEF Undecided
  <2> QED
    BY <1>2, <2>1, OrderShrinks
<1>3. CASE WorkerFindsNothing \/ WorkerSleeps
  <2>1. /\ UNCHANGED <<queues, producer>> /\ worker \in WorkerType
        /\ \E step \in {"commit", "asleep"} : worker' = [worker EXCEPT !.pc = step]
    BY <1>3, StillTyped DEF WorkerFindsNothing, WorkerSleeps, Waiting
  <2>2. worker'.pc \in {"commit", "asleep"}
    BY <2>1 DEF WorkerType
  <2>3. ~Undecided'
    BY <2>2, Decided DEF Heading, Drains
  <2> QED
    BY <1>1, <2>1, <2>3
<1>4. CASE WorkerTakes
  BY <1>4, WorkerTakesOrders
<1>5. CASE WorkerDropsAll
  <2>1. /\ control' = <<>> /\ clock' = NoCommand /\ scenes' = <<>> /\ UNCHANGED <<next_order, producer>>
        /\ worker'.pc = "drain" /\ worker'.then \in {"unload", "cleanup"}
    BY <1>5, WorkerDropsAllIs
  <2>2. ~Undecided'
    BY <2>1, Decided DEF Heading, Drains
  <2>3. ~producer'.open => producer' = NoProducer
    BY <2>1 DEF OrderInv
  <2> HIDE DEF Undecided
  <2> QED
    BY <2>1, <2>2, <2>3, OrderShrinks
<1>6. CASE ProcessStart \/ Publish \/ ProcessClock \/ ProcessScene \/ ProcessPause \/ ProcessStop
  BY <1>6, ProcessOrders
<1>7. CASE DrainPasses \/ DrainWaits \/ DrainSleeps
  <2>1. /\ UNCHANGED <<queues, producer>> /\ worker.pc \in Drains /\ worker'.cmd = worker.cmd
        /\ worker'.then = worker.then
        /\ worker'.pc = worker.then \/ worker'.pc \in Drains
        /\ worker'.pc \in Drains \cup {"authorize", "cleanup", "release", "unload"}
    BY <1>7, DrainIs DEF Draining
  <2>2. Undecided' => Undecided
    BY <2>1 DEF Undecided, Heading, Drains
  <2> HIDE DEF Undecided
  <2> QED
    BY <2>1, <2>2, OrderKeeps DEF queues
<1>8. CASE Authorize
  <2>1. /\ worker.pc = "authorize" /\ UNCHANGED queues
        /\ \/ Fails /\ UNCHANGED producer
           \/ /\ worker'.pc = "finish"
              /\ \/ UNCHANGED producer
                 \/ producer.open /\ producer' = Written("stop")
    BY <1>8, AuthorizeIs DEF Authorized
  <2>2. ~Undecided' /\ Undecided
    BY <2>1, Decided DEF Fails, Heading, Drains, Undecided
  <2>3. "stop" \in Events \cup {"anchor"}
    BY DEF Events
  <2> HIDE DEF Undecided, Written
  <2> QED
    BY <1>1, <2>1, <2>2, <2>3, OrderWrites
<1>9. CASE FinishStop \/ Cleanup
  <2>1. /\ UNCHANGED <<control, clock, next_order>> /\ scenes' = <<>> /\ producer' = NoProducer
        /\ worker'.pc \in {"wait", "exit"}
    BY <1>9, FinishStopIs, CleanupIs, IdleIs
  <2>2. ~Undecided'
    BY <2>1, Decided DEF Heading, Drains
  <2> QED
    BY <1>2, <2>1, <2>2
<1>10. CASE WorkerUnloads
  <2>1. /\ UNCHANGED <<producer, queues>> /\ worker'.pc = "drain"
        /\ worker'.then \in {"cleanup", "release"}
    BY <1>10, WorkerUnloadsIs
  <2>2. ~Undecided'
    BY <2>1, Decided DEF Heading, Drains
  <2> QED
    BY <1>1, <2>1, <2>2
<1>11. CASE WorkerReleases \/ WorkerExits
  <2>1. /\ UNCHANGED <<producer, queues>> /\ worker \in WorkerType
        /\ \E step \in {"exit", "done"} : worker' = [worker EXCEPT !.pc = step]
    BY <1>11, StillTyped DEF WorkerReleases, WorkerExits, Processing
  <2>2. worker'.pc \in {"exit", "done"}
    BY <2>1 DEF WorkerType
  <2>3. ~Undecided'
    BY <2>2, Decided DEF Heading, Drains
  <2> QED
    BY <1>1, <2>1, <2>3
<1> QED
  BY <1>3, <1>4, <1>5, <1>6, <1>7, <1>8, <1>9, <1>10, <1>11 DEF WorkerStep

LEMMA NextOrders ==
    ASSUME PinInv, OrderInv, [Next]_vars
    PROVE  OrderInv'
<1>1. CASE Load
  <2>1. /\ UNCHANGED <<queues, producer>> /\ worker \in WorkerType
        /\ \E step \in {"wait", "done"} : worker' = [worker EXCEPT !.pc = step]
    BY <1>1, StillTyped DEF Load
  <2>2. worker'.pc \in {"wait", "done"}
    BY <2>1 DEF WorkerType
  <2>3. ~Undecided'
    BY <2>2, Decided DEF Heading, Drains
  <2> HIDE DEF Undecided
  <2> QED
    BY <2>1, <2>3, OrderKeeps DEF queues
<1>2. ASSUME NEW ev \in Events, TurnedAway(ev)
      PROVE  OrderInv'
  BY <1>2, WokenOrders DEF TurnedAway, Woken
<1>3. CASE Callback
  BY <1>3, CallbackOrders
<1>4. CASE WorkerStep \/ DrainPasses
  BY <1>4, WorkerOrders
<1>5. CASE Unload
  BY <1>5, WokenOrders DEF Unload, Woken
<1>6. CASE UnloadStep
  BY <1>6, WokenOrders DEF UnloadStep, RequestUnload, JoinWorker, UnloadExpires, Woken
<1>7. CASE UNCHANGED vars
  BY <1>7, WokenOrders DEF vars, Woken
<1> QED
  BY <1>1, <1>2, <1>3, <1>4, <1>5, <1>6, <1>7 DEF Next

LEMMA InitOrders == Init => OrderInv
<1> SUFFICES ASSUME Init
             PROVE  OrderInv
  OBVIOUS
<1>1. control = <<>> /\ scenes = <<>> /\ clock = NoCommand
  BY DEF Init
<1>2. Pending = {}
  BY <1>1 DEF Pending
<1>3. ~Undecided
  BY DEF Init, At, Undecided, Heading, Drains
<1> QED
  BY <1>1, <1>2, <1>3 DEF OrderInv, Init, NoProducer

-----------------------------------------------------------------------------
(* Steps that leave the run as it is *)

\* A callback goes on or leaves without queueing anything, or somebody gets ready to wait.
Quiet ==
    /\ UNCHANGED <<state, control, clock, scenes, producer, unload_requested, report, obs, recordings>>
    /\ host'.reference = host.reference /\ host'.connected = host.connected
    /\ gate.closed => gate'.closed
    /\ SameWork
    /\ run'.accepted = run.accepted /\ (run'.accepting => run.accepting)
    /\ forced => forced'
    /\ forced' => forced \/ ~Drained
    /\ \A c \in Callers :
           cb'[c].pc = "captured" =>
               \/ cb[c].pc = "captured" /\ cb'[c].ev = cb[c].ev
               \/ c = "video" /\ Sampling /\ host.reference
    /\ cb["output"].pc = "captured" =>
           \/ cb'["output"].pc = "captured" /\ cb'["output"].ev = cb["output"].ev
           \/ forced'
           \/ cb["output"].ev # "start" /\ state \in Ended
    /\ Drained => Drained'

LEMMA NothingIsQuiet ==
    ASSUME PinInv, UNCHANGED vars
    PROVE  Quiet
<1>1. SameWork
  BY WokenIsSame DEF PinInv, Woken, vars
<1> QED
  BY <1>1 DEF Quiet, vars, queues, flags, bounds, Drained

\* A run that fails keeps everything but the flags.
LEMMA ForceKeeps ==
    ASSUME TypeOK, ForceFailure
    PROVE  forced' /\ ~run'.accepting /\ run'.accepted = run.accepted
BY DEF TypeOK, ForceFailure, Runs

LEMMA SettlesQuietly ==
    ASSUME PinInv, NEW c \in Callers, NEW step \in {"captured", "leaving"}, Settles(c, step),
           UNCHANGED <<state, queues>>, run'.accepted = run.accepted, run'.accepting => run.accepting,
           step = "captured" => c = "video" /\ Sampling /\ host.reference,
           \/ ForceFailure \/ (forced' /\ c = "video") \/ (UNCHANGED forced /\ c # "output")
           \/ UNCHANGED forced /\ cb[c].ev # "start" /\ state \in Ended
    PROVE  Quiet
<1>1. SameWork
  BY WokenIsSame DEF PinInv, Settles
<1>2. ~Drained \/ UNCHANGED forced
  BY DEF Drained, Settles, PinInv, CallersInv, Callers, Inside
<1>3. Drained => Drained'
  BY DEF Drained, Settles, Goes, Callers
<1> QED
  BY <1>1, <1>2, <1>3, ForceKeeps DEF Quiet, Settles, Goes, Callers, queues, bounds, PinInv

LEMMA QuietSteps ==
    ASSUME PinInv,
           \/ CaptureTick \/ (\E c \in Callers : FindBusy(c) \/ Leave(c))
           \/ WorkerFindsNothing \/ WorkerSleeps \/ DrainWaits \/ DrainSleeps
           \/ Unload \/ UnloadExpires \/ UNCHANGED vars
    PROVE  Quiet
<1>1. CASE CaptureTick
  <2>1. /\ UNCHANGED <<state, queues>> /\ "video" \in Callers
        /\ \/ Settles("video", "leaving") /\ ForceFailure
           \/ Settles("video", "leaving") /\ UNCHANGED <<run, forced>>
           \/ /\ Settles("video", "captured") /\ UNCHANGED <<run, forced>>
              /\ Sampling /\ host.reference
    BY <1>1, CaptureTickIs DEF Callers
  <2>2. ForceFailure => run'.accepted = run.accepted /\ ~run'.accepting
    BY ForceKeeps DEF PinInv
  <2> QED
    BY <2>1, <2>2, SettlesQuietly
<1>2. ASSUME NEW c \in Callers, FindBusy(c)
      PROVE  Quiet
  <2>1. /\ Settles(c, "leaving") /\ UNCHANGED <<state, queues>>
        /\ (cb[c].ev = "scene" /\ UNCHANGED <<run, forced>>) \/ ForceFailure
    BY <1>2, FindBusyIs
  <2>2. cb[c].ev = "scene" => c # "output"
    BY <2>1 DEF Settles, PinInv, CallersInv, Inside
  <2>3. ForceFailure => run'.accepted = run.accepted /\ ~run'.accepting
    BY ForceKeeps DEF PinInv
  <2> QED
    BY <2>1, <2>2, <2>3, SettlesQuietly
<1>3. ASSUME NEW c \in Callers, Leave(c)
      PROVE  Quiet
  <2>1. /\ cb[c].pc = "leaving" /\ Goes(c, "out", "none") /\ Woken
        /\ UNCHANGED <<state, queues, flags, run, producer, host, report, obs, now, bounds, faults>>
    BY <1>3, LeaveIs
  <2>2. SameWork /\ gate'.closed = gate.closed
    BY <1>3, <2>1, WokenIsSame, LeaveCounts DEF PinInv
  <2>3. Drained => Drained'
    BY <2>1 DEF Drained, Goes, Callers
  <2> QED
    BY <2>1, <2>2, <2>3 DEF Quiet, Goes, Callers, queues, flags, bounds
<1>4. ASSUME NEW step \in WorkerSteps, worker' = [worker EXCEPT !.pc = step],
             UNCHANGED <<Waiting, queues, flags>>,
             \/ worker.pc \in {"wait", "commit"} /\ step \in {"commit", "asleep"}
             \/ worker.pc \in Drains /\ step \in Drains
      PROVE  Quiet
  <2>1. SameWork
    BY <1>4, StillTyped DEF SameWork, WorkerType, Drains, WorkerSteps
  <2>2. Drained => Drained'
    BY <1>4 DEF Drained, Waiting
  <2> QED
    BY <1>4, <2>1, <2>2 DEF Quiet, Waiting, queues, flags, bounds
<1>5. CASE WorkerFindsNothing \/ WorkerSleeps
  <2>1. {"commit", "asleep"} \subseteq WorkerSteps
    BY DEF WorkerSteps
  <2> QED
    BY <1>4, <1>5, <2>1 DEF WorkerFindsNothing, WorkerSleeps
<1>6. CASE DrainWaits \/ DrainSleeps
  <2>1. UNCHANGED <<Waiting, queues, flags>>
    BY <1>6 DEF DrainWaits, DrainSleeps, Draining, Waiting
  <2>2. Drains \subseteq WorkerSteps
    BY DEF WorkerSteps, Drains
  <2> QED
    BY <1>4, <1>6, <2>1, <2>2 DEF DrainWaits, DrainSleeps, Drains
<1>7. CASE Unload
  <2>1. /\ Woken /\ host' = RemoveCallbacks(host) /\ run' = [run EXCEPT !.accepting = FALSE]
        /\ cb["ui"].pc = "out" /\ "ui" \in Callers
        /\ cb' = [cb EXCEPT !["ui"].pc = "requesting"] /\ gate' = [gate EXCEPT !.closed = TRUE]
        /\ UNCHANGED <<state, bound, queues, flags, producer, report, obs, now, bounds, faults>>
    BY <1>7 DEF Unload, Woken, Callers
  <2>2. SameWork /\ Goes("ui", "requesting", cb["ui"].ev)
    BY <2>1, WokenIsSame, GoesOn DEF PinInv, CallbackSteps
  <2>3. /\ host'.reference = host.reference /\ host'.connected = host.connected
        /\ run'.accepted = run.accepted /\ ~run'.accepting /\ gate'.closed
    BY <2>1, StillTyped DEF RemoveCallbacks, HostType, Runs, PinInv, TypeOK
  <2>4. Drained => Drained'
    BY <2>2 DEF Drained, Goes, Callers
  <2> QED
    BY <2>1, <2>2, <2>3, <2>4 DEF Quiet, Goes, Callers, queues, flags, bounds
<1>8. CASE UnloadExpires
  <2>1. /\ "ui" \in Callers /\ cb' = [cb EXCEPT !["ui"].pc = "unloaded"]
        /\ UNCHANGED <<state, gate, bound, queues, flags, run, producer, host, worker, report,
                       obs, now, bounds, faults>>
    BY <1>8 DEF UnloadExpires, Callers
  <2>2. SameWork /\ Goes("ui", "unloaded", cb["ui"].ev)
    BY <2>1, WokenIsSame, GoesOn DEF PinInv, CallbackSteps, Woken
  <2>3. Drained => Drained'
    BY <2>2 DEF Drained, Goes, Callers
  <2> QED
    BY <2>1, <2>2, <2>3 DEF Quiet, Goes, Callers, queues, flags, bounds
<1> QED
  BY <1>1, <1>2, <1>3, <1>5, <1>6, <1>7, <1>8, NothingIsQuiet

\* A signal of OBS that nobody takes up, or that only the thread of its callback notices.
Heard(ev) ==
    /\ Signal(ev) /\ ~Binds(ev)
    /\ UNCHANGED <<state, control, clock, scenes, producer, host, run, forced, unload_requested,
                   report, worker>>
    /\ gate'.closed = gate.closed
    /\ \A c \in Callers :
           cb'[c].pc = "captured" =>
               \/ cb[c].pc = "captured" /\ cb'[c].ev = cb[c].ev
               \/ c = "ui" /\ Sampling
    /\ cb["output"].pc = "captured" =>
           cb'["output"].pc = "captured" /\ cb'["output"].ev = cb["output"].ev
    /\ Drained /\ ~Sampling => Drained'
    /\ Thread(ev) = "output" =>
           \/ gate.closed \/ ~host.connected
           \/ ev = "start" /\ state # "start_pending"
           \/ ev \in Pauses /\ state \in Ended

LEMMA HeardByOne ==
    ASSUME PinInv, NEW ev \in Events, NEW step, Enters(ev, step), UNCHANGED <<run, forced, worker>>,
           ~Binds(ev),
           step = "leaving" \/ (step \in {"checked", "captured"} /\ Sampling /\ ev \in {"tick", "scene"}),
           step = "captured" => ev = "scene",
           Thread(ev) = "output" => \/ ev = "start" /\ state # "start_pending"
                                    \/ ev \in Pauses /\ state \in Ended
    PROVE  Heard(ev)
<1>1. /\ Signal(ev) /\ cb[Thread(ev)].pc = "out" /\ Thread(ev) \in Callers /\ gate'.closed = gate.closed
      /\ Goes(Thread(ev), step, ev)
      /\ UNCHANGED <<state, queues, unload_requested, producer, host, report>>
  BY ThreadIs DEF Enters, Enter, Signal, PinInv, TypeOK
<1>2. Drained /\ ~Sampling => Drained'
  BY <1>1 DEF Drained, Goes, Callers
<1>3. ev = "scene" => Thread(ev) = "ui"
  BY DEF Thread
<1> QED
  BY <1>1, <1>2, <1>3 DEF Heard, Goes, Callers, queues

LEMMA HeardSteps ==
    ASSUME PinInv,
           \/ (\E ev \in Events : TurnedAway(ev)) \/ EnterTick \/ CaptureScene
           \/ CaptureStart /\ ~ForceFailure /\ ~Enters("start", "captured")
           \/ \E ev \in Pauses : CapturePause(ev) /\ ~ForceFailure /\ ~Enters(ev, "captured")
           \/ OnRecordingStarting /\ state # "idle"
    PROVE  \E ev \in Events : Heard(ev)
<1>1. ASSUME NEW ev \in Events, TurnedAway(ev)
      PROVE  Heard(ev)
  <2>1. /\ Signal(ev) /\ ~Listening(ev)
        /\ UNCHANGED <<state, gate, bound, cb, queues, flags, run, producer, host, worker, report, faults>>
    BY <1>1 DEF TurnedAway
  <2>2. Drained => Drained'
    BY <2>1 DEF Drained
  <2>3. Thread(ev) = "output" => gate.closed \/ ~host.connected
    BY <2>1 DEF Listening, Registered
  <2>4. ~Binds(ev)
    BY <2>1 DEF Binds
  <2> QED
    BY <2>1, <2>2, <2>3, <2>4 DEF Heard, queues, flags
<1>2. {"tick", "scene", "start", "recording_starting"} \cup Pauses \subseteq Events
  BY DEF Events, Pauses
<1>3. ASSUME NEW ev \in Events, ev # "recording_starting"
      PROVE  ~Binds(ev)
  BY <1>3 DEF Binds
<1>4. CASE EnterTick
  <2>1. Thread("tick") # "output" /\ ~Binds("tick")
    BY DEF Thread, Binds
  <2> QED
    BY <1>2, <1>4, <2>1, EnterTickIs, HeardByOne DEF PinInv
<1>5. CASE CaptureScene
  <2>1. Thread("scene") # "output" /\ ~Binds("scene")
    BY DEF Thread, Binds
  <2> QED
    BY <1>2, <1>5, <2>1, CaptureSceneIs, HeardByOne DEF PinInv
<1>6. CASE CaptureStart /\ ~ForceFailure /\ ~Enters("start", "captured")
  <2>1. /\ Enters("start", "leaving") /\ state # "start_pending" /\ UNCHANGED <<run, forced, worker>>
        /\ ~Binds("start")
    BY <1>6, CaptureStartIs DEF PinInv, Binds
  <2> QED
    BY <1>2, <2>1, HeardByOne
<1>7. ASSUME NEW ev \in Pauses, CapturePause(ev), ~ForceFailure, ~Enters(ev, "captured")
      PROVE  Heard(ev)
  <2>1. /\ Enters(ev, "leaving") /\ state \in Ended /\ UNCHANGED <<run, forced, worker>>
        /\ ~Binds(ev)
    BY <1>7, CapturePauseIs DEF PinInv, Binds, Pauses
  <2> QED
    BY <1>2, <2>1, HeardByOne
<1>8. CASE OnRecordingStarting /\ state # "idle"
  <2>1. /\ Signal("recording_starting") /\ "recording_starting" \in Events
        /\ Goes("ui", "leaving", "recording_starting") /\ gate'.closed = gate.closed
        /\ UNCHANGED <<queues, flags, producer, worker, report, state, host, run>>
    BY <1>8, OnRecordingStartingIs DEF PinInv, Enter, Events, TypeOK
  <2>2. Drained => Drained'
    BY <2>1 DEF Drained, Goes, Callers
  <2>3. Thread("recording_starting") # "output" /\ ~Binds("recording_starting")
    BY <1>8 DEF Thread, Binds
  <2>4. Heard("recording_starting")
    BY <2>1, <2>2, <2>3 DEF Heard, Goes, Callers, queues, flags
  <2> QED
    BY <2>1, <2>4
<1> QED
  BY <1>1, <1>2, <1>4, <1>5, <1>6, <1>7, <1>8

\* A start, pause or resume that cannot be captured fails the run.
Refuses(ev) ==
    /\ ev \in {"start"} \cup Pauses
    /\ Enters(ev, "leaving") /\ ForceFailure

\* A start, pause, resume or stop is captured.
Catches(ev) ==
    /\ ev \in {"start", "stop"} \cup Pauses
    /\ Enters(ev, "captured") /\ UNCHANGED <<run, forced, worker>>
    /\ ev = "start" => state = "start_pending" /\ host.reference
    /\ ev \in Pauses => state \notin Ended /\ host.reference

\* What was captured is queued.
Adds(kind) ==
    /\ kind \in {"start", "stop"} \cup Pauses
    /\ cb["output"].pc = "captured" /\ cb["output"].ev = kind
    /\ Settles("output", "leaving") /\ Queued("output") /\ UNCHANGED <<clock, scenes>> /\ QueuesType'
    /\ control' = Append(control, Command(kind, "output"))
    /\ run'.accepted = run.accepted
    /\ kind = "start" => UNCHANGED <<state, run>>
    /\ kind = "stop" => state \notin Ended /\ state' = "stopping" /\ ~run'.accepting
    /\ kind \in Pauses =>
         /\ state \notin Ended /\ state' \in {"paused", state}
         /\ run.accepted /\ run'.accepting = run.accepting

Samples(kind) ==
    /\ kind \in {"anchor", "tick"}
    /\ cb["video"].pc = "captured"
    /\ Settles("video", "leaving") /\ Queued("video") /\ UNCHANGED <<state, control, scenes>> /\ QueuesType'
    /\ Sampling /\ clock = NoCommand /\ clock' = Command(kind, "video")
    /\ run'.accepting = run.accepting /\ run'.accepted = run.accepted

AddsScene ==
    /\ cb["ui"].pc = "captured"
    /\ Settles("ui", "leaving") /\ Queued("ui") /\ UNCHANGED <<state, control, clock, run>> /\ QueuesType'
    /\ Sampling /\ scenes' = Append(scenes, Command("scene", "ui"))

LEMMA QueueSteps ==
    ASSUME PinInv, Queue
    PROVE  \/ Quiet \/ AddsScene
           \/ \E kind \in {"start", "stop"} \cup Pauses : Adds(kind)
           \/ \E kind \in {"anchor", "tick"} : Samples(kind)
<1>1. {"ui", "video", "output"} \subseteq Callers
  BY DEF Callers
<1>2. ForceFailure => run'.accepted = run.accepted /\ ~run'.accepting /\ forced'
  BY ForceKeeps DEF PinInv
<1>3. run \in Runs
  BY StillTyped
<1>4. CASE QueueStart
  <2>1. /\ cb["output"].pc = "captured" /\ cb["output"].ev = "start"
        /\ Settles("output", "leaving") /\ UNCHANGED state /\ QueuesType'
        /\ \/ ForceFailure /\ UNCHANGED queues
           \/ /\ Queued("output") /\ UNCHANGED <<clock, scenes, run>>
              /\ control' = Append(control, Command("start", "output"))
    BY <1>4, QueueStartIs
  <2>2. CASE ForceFailure /\ UNCHANGED queues
    BY <1>1, <1>2, <2>1, <2>2, SettlesQuietly
  <2>3. CASE /\ Queued("output") /\ UNCHANGED <<clock, scenes, run>>
             /\ control' = Append(control, Command("start", "output"))
    <3>1. Adds("start")
      BY <2>1, <2>3 DEF Adds, Pauses
    <3> QED
      BY <3>1
  <2> QED
    BY <2>1, <2>2, <2>3
<1>5. CASE QueuePause
  <2> DEFINE ev == cb["output"].ev
  <2>1. /\ cb["output"].pc = "captured" /\ ev \in Pauses
        /\ Settles("output", "leaving") /\ QueuesType'
        /\ \/ UNCHANGED <<state, queues>> /\ ForceFailure
           \/ UNCHANGED <<state, queues, run, forced, worker>> /\ state \in Ended
           \/ /\ Queued("output") /\ UNCHANGED <<clock, scenes>>
              /\ state \notin Ended /\ state' = (IF ev = "pause" THEN "paused" ELSE state)
              /\ control' = Append(control, Command(ev, "output"))
              /\ run.accepted
              /\ run' = [run EXCEPT !.pending = @ + 1, !.paused = (ev = "pause"),
                                    !.pause_seen = @ \/ (ev = "pause")]
    BY <1>5, QueuePauseIs
  <2>2. ev # "start"
    BY <2>1 DEF Pauses
  <2>3. CASE UNCHANGED <<state, queues>> /\ ForceFailure
    BY <1>1, <1>2, <2>1, <2>3, SettlesQuietly
  <2>4. CASE UNCHANGED <<state, queues, run, forced, worker>> /\ state \in Ended
    BY <1>1, <2>1, <2>2, <2>4, SettlesQuietly
  <2>5. CASE /\ Queued("output") /\ UNCHANGED <<clock, scenes>>
             /\ state \notin Ended /\ state' = (IF ev = "pause" THEN "paused" ELSE state)
             /\ control' = Append(control, Command(ev, "output"))
             /\ run.accepted
             /\ run' = [run EXCEPT !.pending = @ + 1, !.paused = (ev = "pause"),
                                   !.pause_seen = @ \/ (ev = "pause")]
    <3>1. run'.accepting = run.accepting /\ run'.accepted = run.accepted
      BY <1>3, <2>5 DEF Runs
    <3>2. Adds(ev)
      BY <2>1, <2>5, <3>1 DEF Adds, Pauses
    <3> QED
      BY <2>1, <3>2
  <2> QED
    BY <2>1, <2>3, <2>4, <2>5
<1>6. CASE QueueStop
  <2>1. /\ cb["output"].pc = "captured" /\ cb["output"].ev = "stop"
        /\ Settles("output", "leaving") /\ QueuesType'
        /\ \/ UNCHANGED <<state, queues>> /\ ForceFailure
           \/ UNCHANGED <<state, queues, run, forced, worker>> /\ state \in Ended
           \/ /\ Queued("output") /\ UNCHANGED <<clock, scenes>>
              /\ state \notin Ended /\ state' = "stopping"
              /\ control' = Append(control, Command("stop", "output"))
              /\ run' = [run EXCEPT !.accepting = FALSE]
    BY <1>6, QueueStopIs
  <2>3. CASE UNCHANGED <<state, queues>> /\ ForceFailure
    BY <1>1, <1>2, <2>1, <2>3, SettlesQuietly
  <2>4. CASE UNCHANGED <<state, queues, run, forced, worker>> /\ state \in Ended
    BY <1>1, <2>1, <2>4, SettlesQuietly
  <2>5. CASE /\ Queued("output") /\ UNCHANGED <<clock, scenes>>
             /\ state \notin Ended /\ state' = "stopping"
             /\ control' = Append(control, Command("stop", "output"))
             /\ run' = [run EXCEPT !.accepting = FALSE]
    <3>1. ~run'.accepting /\ run'.accepted = run.accepted
      BY <1>3, <2>5 DEF Runs
    <3>2. Adds("stop")
      BY <2>1, <2>5, <3>1 DEF Adds, Pauses
    <3> QED
      BY <3>2
  <2> QED
    BY <2>1, <2>3, <2>4, <2>5
<1>7. CASE QueueTick
  <2>1. /\ cb["video"].pc = "captured" /\ cb["video"].ev = "tick"
        /\ Settles("video", "leaving") /\ QueuesType' /\ UNCHANGED <<state, control, scenes>>
        /\ run'.accepted = run.accepted
        /\ \/ UNCHANGED <<queues, run, forced, worker>>
           \/ /\ Sampling /\ UNCHANGED <<queues, forced, worker>>
              /\ run'.accepting = run.accepting
           \/ UNCHANGED queues /\ ~run'.accepting /\ forced'
           \/ /\ Sampling /\ Queued("video") /\ run'.accepting = run.accepting
              /\ clock = NoCommand
              /\ \/ clock' = Command("anchor", "video")
                 \/ clock' = Command("tick", "video")
    BY <1>7, QueueTickIs
  <2>2. CASE UNCHANGED queues /\ (run'.accepting => run.accepting) /\ (UNCHANGED forced \/ forced')
    BY <1>1, <2>1, <2>2, SettlesQuietly
  <2>3. ASSUME NEW kind \in {"anchor", "tick"}, Sampling, Queued("video"),
               run'.accepting = run.accepting, clock = NoCommand, clock' = Command(kind, "video")
        PROVE  Samples(kind)
    BY <2>1, <2>3 DEF Samples
  <2> QED
    BY <2>1, <2>2, <2>3
<1>8. CASE QueueScene
  <2>1. /\ cb["ui"].pc = "captured" /\ cb["ui"].ev = "scene"
        /\ Settles("ui", "leaving") /\ QueuesType' /\ UNCHANGED <<state, control, clock, run>>
        /\ \/ UNCHANGED <<queues, forced, worker>>
           \/ /\ Sampling /\ run.accepted /\ Queued("ui")
              /\ scenes' = Append(scenes, Command("scene", "ui"))
    BY <1>8, QueueSceneIs
  <2>2. CASE UNCHANGED <<queues, forced, worker>>
    BY <1>1, <2>1, <2>2, SettlesQuietly
  <2> QED
    BY <2>1, <2>2 DEF AddsScene
<1> QED
  BY <1>4, <1>5, <1>6, <1>7, <1>8 DEF Queue

\* What a step is, seen from the run.
LEMMA Steps ==
    ASSUME PinInv, [Next]_vars
    PROVE  \/ Quiet \/ (\E ev \in Events : Heard(ev))
           \/ (\E ev \in Events : Refuses(ev)) \/ (\E ev \in Events : Catches(ev))
           \/ (\E kind \in {"start", "stop"} \cup Pauses : Adds(kind))
           \/ (\E kind \in {"anchor", "tick"} : Samples(kind)) \/ AddsScene
           \/ Load \/ (OnRecordingStarting /\ state = "idle")
           \/ WorkerTakes \/ WorkerDropsAll
           \/ ProcessStart \/ Publish \/ ProcessClock \/ ProcessScene \/ ProcessPause \/ ProcessStop
           \/ DrainPasses \/ Authorize \/ FinishStop \/ Cleanup
           \/ WorkerUnloads \/ WorkerReleases \/ WorkerExits \/ RequestUnload \/ JoinWorker
<1>1. {"start", "stop"} \cup Pauses \subseteq Events
  BY DEF Events, Pauses
<1>2. CASE Capture
  <2>1. CASE OnRecordingStarting \/ EnterTick \/ CaptureScene
    BY <2>1, HeardSteps
  <2>2. CASE CaptureTick
    BY <2>2, QuietSteps
  <2>3. CASE CaptureStart
    <3>1. \/ /\ Enters("start", "captured") /\ state = "start_pending" /\ host.reference
             /\ UNCHANGED <<run, forced, worker>>
          \/ Enters("start", "leaving")
      BY <2>3, CaptureStartIs DEF PinInv
    <3>2. CASE /\ Enters("start", "captured") /\ state = "start_pending" /\ host.reference
               /\ UNCHANGED <<run, forced, worker>>
      <4>1. Catches("start")
        BY <3>2 DEF Catches, Pauses
      <4> QED
        BY <1>1, <4>1
    <3>3. CASE Enters("start", "leaving") /\ ForceFailure
      <4>1. Refuses("start")
        BY <3>3 DEF Refuses
      <4> QED
        BY <1>1, <4>1
    <3>4. CASE Enters("start", "leaving") /\ ~ForceFailure
      <4>1. ~Enters("start", "captured")
        BY <3>4 DEF Enters, Goes
      <4> QED
        BY <2>3, <3>4, <4>1, HeardSteps
    <3> QED
      BY <3>1, <3>2, <3>3, <3>4
  <2>4. ASSUME NEW ev \in Pauses, CapturePause(ev)
        PROVE  Quiet \/ (\E e \in Events : Heard(e)) \/ Refuses(ev) \/ Catches(ev)
    <3>1. \/ /\ Enters(ev, "captured") /\ state \notin Ended /\ host.reference
             /\ UNCHANGED <<run, forced, worker>>
          \/ Enters(ev, "leaving") /\ state \in Ended /\ UNCHANGED <<run, forced, worker>>
          \/ Enters(ev, "leaving") /\ ForceFailure
      BY <2>4, CapturePauseIs DEF PinInv
    <3>2. CASE /\ Enters(ev, "captured") /\ state \notin Ended /\ host.reference
               /\ UNCHANGED <<run, forced, worker>>
      BY <3>2 DEF Catches, Pauses
    <3>3. CASE Enters(ev, "leaving") /\ ForceFailure
      BY <3>3 DEF Refuses
    <3>4. CASE Enters(ev, "leaving") /\ ~ForceFailure
      <4>1. ~Enters(ev, "captured")
        BY <3>4 DEF Enters, Goes
      <4> QED
        BY <2>4, <3>4, <4>1, HeardSteps
    <3> QED
      BY <3>1, <3>2, <3>3, <3>4
  <2>5. CASE CaptureStop
    <3>1. Catches("stop")
      BY <2>5, CaptureStopIs DEF Catches, PinInv, Pauses
    <3> QED
      BY <1>1, <3>1
  <2> QED
    BY <1>1, <1>2, <2>1, <2>2, <2>3, <2>4, <2>5 DEF Capture, Pauses
<1>3. CASE Queue
  BY <1>3, QueueSteps
<1>4. CASE \E c \in Callers : FindBusy(c) \/ Leave(c)
  BY <1>4, QuietSteps
<1>5. CASE \E ev \in Events : TurnedAway(ev)
  BY <1>5, HeardSteps
<1>6. CASE WorkerStep \/ DrainPasses
  BY <1>6, QuietSteps DEF WorkerStep
<1>7. CASE Unload \/ UnloadStep \/ UNCHANGED vars
  BY <1>7, QuietSteps DEF UnloadStep
<1> QED
  BY <1>2, <1>3, <1>4, <1>5, <1>6, <1>7 DEF Next, Callback

-----------------------------------------------------------------------------
(* Where the worker is *)

\* The worker has no command in work.
LEMMA RestIs ==
    ASSUME worker'.pc \in {"off", "wait", "commit", "asleep", "publish", "finish", "exit", "done"}
    PROVE  /\ ~StopTaken' /\ \A kinds : ~Live(kinds)'
           /\ \A step \in {"authorize", "cleanup", "unload", "release"} : ~Heading(step)'
BY DEF StopTaken, Live, Heading, Drains

LEMMA WaitIs ==
    ASSUME worker.pc \in {"off", "wait", "commit", "asleep", "publish", "finish", "exit", "done"}
    PROVE  /\ ~StopTaken /\ \A kinds : ~Live(kinds)
           /\ \A step \in {"authorize", "cleanup", "unload", "release"} : ~Heading(step)
BY DEF StopTaken, Live, Heading, Drains

\* A run that fails is on its way to the cleanup.
LEMMA FailsIs ==
    ASSUME Fails
    PROVE  /\ Heading("cleanup")' /\ Failing' /\ ~StopTaken' /\ \A kinds : ~Live(kinds)'
           /\ worker'.pc \notin {"publish", "finish"} /\ state' \in {"stopping", "unloading"}
BY DEF Fails, Failing, StopTaken, Live, Heading, Drains

\* The worker has a command of some kind in work.
LEMMA LiveIs ==
    ASSUME worker.pc = "process"
    PROVE  /\ \A kinds : Live(kinds) <=> worker.cmd.kind \in kinds
           /\ StopTaken <=> worker.cmd.kind = "stop"
           /\ \A step \in {"authorize", "cleanup", "unload", "release"} : ~Heading(step)
BY DEF StopTaken, Live, Heading, Drains

LEMMA WillBeLive ==
    ASSUME worker'.pc = "process"
    PROVE  /\ \A kinds : Live(kinds)' <=> worker'.cmd.kind \in kinds
           /\ StopTaken' <=> worker'.cmd.kind = "stop"
           /\ \A step \in {"authorize", "cleanup", "unload", "release"} : ~Heading(step)'
BY DEF StopTaken, Live, Heading, Drains

\* The signals of the output come only while they are connected.
LEMMA OutputIs ==
    ASSUME PinInv, NEW ev \in {"start", "stop"} \cup Pauses, NEW step, Enters(ev, step)
    PROVE  /\ Signal(ev) /\ ev \in Events /\ Thread(ev) = "output" /\ ~Binds(ev)
           /\ host.connected /\ ~gate.closed /\ ~gate'.closed /\ cb["output"].pc = "out"
           /\ Goes("output", step, ev)
           /\ UNCHANGED <<state, queues, unload_requested, producer, host, report>>
<1>1. Signal(ev) /\ Listening(ev) /\ ev \in Events /\ Thread(ev) = "output"
  BY DEF Enters, Enter, Events, Pauses, Thread
<1>2. ~Binds(ev)
  BY DEF Binds, Pauses
<1> QED
  BY <1>1, <1>2 DEF Enters, Enter, Signal, Listening, Registered, PinInv, TypeOK

\* A binding starts from an adapter that is idle and listens.
LEMMA BindIs ==
    ASSUME PinInv, OnRecordingStarting, state = "idle"
    PROVE  /\ Signal("recording_starting") /\ Binds("recording_starting")
           /\ "recording_starting" \in Events
           /\ ~gate.closed /\ ~gate'.closed /\ ~unload_requested
           /\ Goes("ui", "leaving", "recording_starting")
           /\ UNCHANGED <<queues, flags, producer, worker, report>>
           /\ run'.accepting = run.accepting /\ run'.accepted = run.accepted
           /\ \/ UNCHANGED <<state, host, run>>
              \/ /\ state' = "idle" /\ ~host'.reference /\ ~host'.connected
              \/ /\ state' = "start_pending" /\ host'.reference /\ host'.connected
<1>1. /\ Enter("recording_starting") /\ Goes("ui", "leaving", "recording_starting")
      /\ UNCHANGED <<queues, flags, producer, worker, report>>
      /\ run'.accepting = run.accepting /\ run'.accepted = run.accepted
      /\ \/ UNCHANGED <<state, host, run>>
         \/ /\ state' = "idle"
            /\ host' = [host EXCEPT !.reference = FALSE, !.connected = FALSE]
         \/ /\ state' = "start_pending"
            /\ host' = [host EXCEPT !.reference = TRUE, !.connected = TRUE]
  BY OnRecordingStartingIs DEF PinInv
<1>2. /\ Signal("recording_starting") /\ Listening("recording_starting") /\ ~gate.closed /\ ~gate'.closed
  BY <1>1 DEF Enter, Listening, PinInv, TypeOK
<1>3. ~unload_requested
  BY <1>2 DEF PinInv, GoneInv
<1> QED
  BY <1>1, <1>2, <1>3, StillTyped DEF Binds, HostType, Events

LEMMA PhaseIs ==
    ASSUME PinInv, NEW ev \in Events, Signal(ev)
    PROVE  /\ ev = "recording_starting" => obs.phase = "off" /\ recordings' = recordings + 1
                                           /\ obs'.phase = "starting"
           /\ ev # "recording_starting" => recordings' = recordings
           /\ ev \in {"tick", "scene"} => obs'.phase = obs.phase
           /\ Thread(ev) = "output" => obs.phase # "off" /\ ev \in {"start", "stop"} \cup Pauses
           /\ ev = "start" => obs.phase = "starting"
           /\ ev \in {"start"} \cup Pauses => obs'.phase \in {"on", "paused"}
           /\ ev \in Pauses => obs.phase \in {"on", "paused"}
           /\ ev = "stop" => obs'.phase = "off"
           /\ recordings \in Nat /\ recordings' \in Nat /\ recordings <= recordings'
           /\ ev \notin {"recording_starting", "stop"} => obs'.ours = obs.ours
           /\ obs'.ours => obs.ours \/ Binds(ev)
           /\ ~Binds(ev) /\ (~obs.ours \/ ev \notin Pauses) => obs'.sent = obs.sent
<1>1. /\ obs'.phase = PhaseAfter(ev)
      /\ obs'.ours <=> IF ev = "recording_starting" THEN Binds(ev) ELSE obs.ours /\ ev # "stop"
      /\ recordings' = IF ev = "recording_starting" THEN recordings + 1 ELSE recordings
      /\ obs'.sent = CASE Binds(ev) -> <<>>
                       [] ev \in Pauses /\ obs.ours -> Append(obs.sent, ev)
                       [] OTHER -> obs.sent
      /\ Sends(ev)
  BY SignalIs DEF PinInv, Signal
<1>2. recordings \in Nat /\ obs.ours \in BOOLEAN /\ obs'.ours \in BOOLEAN
  BY SignalIs DEF PinInv, TypeOK
<1>3. ~Binds(ev) /\ (~obs.ours \/ ev \notin Pauses) => obs'.sent = obs.sent
  BY <1>1
<1>4. Thread(ev) = "output" => ev \in {"start", "stop"} \cup Pauses
  BY DEF Thread, Events, Pauses
<1> HIDE DEF Binds
<1>5. ev \in {"tick", "scene"} \cup {"start", "stop"} \cup Pauses \cup {"recording_starting"}
  BY DEF Events, Pauses
<1>6. CASE ev = "recording_starting"
  BY <1>1, <1>2, <1>3, <1>6 DEF Sends, PhaseAfter, Pauses, Thread
<1>7. CASE ev \in {"tick", "scene"}
  BY <1>1, <1>2, <1>3, <1>7 DEF Sends, PhaseAfter, Pauses, Thread
<1>8. CASE ev \in {"start", "stop"} \cup Pauses
  BY <1>1, <1>2, <1>3, <1>4, <1>8 DEF Sends, PhaseAfter, Pauses, Thread
<1> QED
  BY <1>5, <1>6, <1>7, <1>8

\* The steps of the worker and the rest of unload hear nothing of OBS, and acquire nothing.
Deaf ==
    /\ UNCHANGED <<obs, recordings>>
    /\ host'.reference => host.reference

LEMMA DeafSteps ==
    ASSUME PinInv,
           \/ Quiet \/ (\E kind \in {"start", "stop"} \cup Pauses : Adds(kind))
           \/ (\E kind \in {"anchor", "tick"} : Samples(kind)) \/ AddsScene
           \/ Load \/ WorkerTakes \/ WorkerDropsAll
           \/ ProcessStart \/ Publish \/ ProcessClock \/ ProcessScene \/ ProcessPause \/ ProcessStop
           \/ DrainPasses \/ Authorize \/ FinishStop \/ Cleanup
           \/ WorkerUnloads \/ WorkerReleases \/ WorkerExits \/ RequestUnload \/ JoinWorker
    PROVE  Deaf
<1>1. host \in HostType
  BY StillTyped
<1>2. /\ ~ReleaseOutput(host).reference /\ DisconnectSignals(host).reference = host.reference
  BY <1>1, HostIs
<1>3. CASE \/ Quiet \/ (\E kind \in {"start", "stop"} \cup Pauses : Adds(kind))
           \/ (\E kind \in {"anchor", "tick"} : Samples(kind)) \/ AddsScene
  BY <1>3 DEF Quiet, Adds, Samples, AddsScene, Settles, Deaf, bounds
<1>4. CASE Load
  <2>1. /\ UNCHANGED <<obs, bounds>>
        /\ host' = InstallCallbacks(RetainModule(host)) \/ UNCHANGED host
    BY <1>4 DEF Load
  <2>2. InstallCallbacks(RetainModule(host)).reference = host.reference
    BY <1>1 DEF InstallCallbacks, RetainModule, HostType
  <2> QED
    BY <2>1, <2>2 DEF Deaf, bounds
<1>5. CASE WorkerTakes
  BY <1>5, WorkerTakesIs DEF Waiting, Deaf, bounds
<1>6. CASE WorkerDropsAll
  <2>1. Works /\ host' \in {host, DisconnectSignals(host)}
    BY <1>6, WorkerDropsAllIs DEF WorkerDropsAll
  <2> QED
    BY <1>2, <2>1 DEF Deaf, Works, bounds
<1>7. CASE ProcessStart \/ Publish \/ ProcessClock \/ ProcessScene \/ ProcessPause \/ ProcessStop
  <2>1. Fails \/ (Works /\ host' \in {host, DisconnectSignals(host)})
    BY <1>7, ProcessStartIs, PublishIs, ProcessClockIs, ProcessSceneIs, ProcessPauseIs, ProcessStopIs
  <2> QED
    BY <1>2, <2>1 DEF Deaf, Works, Fails, bounds
<1>8. CASE DrainPasses
  BY <1>8 DEF DrainPasses, Draining, Deaf, bounds
<1>9. CASE Authorize
  BY <1>9, AuthorizeIs DEF Deaf, Works, Fails, bounds
<1>10. CASE FinishStop \/ Cleanup
  <2>1. Works /\ host' = ReleaseOutput(host)
    BY <1>10, FinishStopIs, CleanupIs
  <2> QED
    BY <1>2, <2>1 DEF Deaf, Works, bounds
<1>11. CASE WorkerUnloads
  <2>1. Works /\ host' = DisconnectSignals(host)
    BY <1>11, WorkerUnloadsIs
  <2> QED
    BY <1>2, <2>1 DEF Deaf, Works, bounds
<1>12. CASE WorkerReleases \/ WorkerExits
  <2>1. UNCHANGED Processing /\ host' \in {ReleaseOutput(host), [host EXCEPT !.pinned = FALSE]}
    BY <1>12 DEF WorkerReleases, WorkerExits
  <2>2. [host EXCEPT !.pinned = FALSE].reference = host.reference
    BY <1>1 DEF HostType
  <2> QED
    BY <1>2, <2>1, <2>2 DEF Deaf, Processing, bounds
<1>13. CASE RequestUnload \/ JoinWorker
  BY <1>13 DEF RequestUnload, JoinWorker, Deaf, bounds
<1> QED
  BY <1>3, <1>4, <1>5, <1>6, <1>7, <1>8, <1>9, <1>10, <1>11, <1>12, <1>13

-----------------------------------------------------------------------------
(* The adapter between two runs, and a stop that was written *)

LEMMA NextSignals ==
    ASSUME PinInv, SignalInv, [Next]_vars
    PROVE  SignalInv'
<1>1. ASSUME NEW ev \in Events, Signal(ev), host'.reference => host.reference \/ ev = "recording_starting"
      PROVE  SignalInv'
  <2>1. obs'.ours => obs'.phase # "off"
    <3>1. CASE ev = "recording_starting"
      BY <1>1, <3>1, PhaseIs
    <3>2. CASE ev = "stop"
      BY <1>1, <3>2, SignalIs DEF PinInv
    <3>3. CASE ev \in {"start"} \cup Pauses
      BY <1>1, <3>3, PhaseIs
    <3>4. CASE ev \in {"tick", "scene"}
      BY <1>1, <3>4, PhaseIs DEF SignalInv
    <3> QED
      BY <3>1, <3>2, <3>3, <3>4 DEF Events, Pauses
  <2>2. recordings' >= recordings /\ (ev = "recording_starting" => recordings' >= 1)
    BY <1>1, PhaseIs
  <2>3. recordings \in Nat /\ recordings' \in Nat
    BY <1>1, PhaseIs
  <2> QED
    BY <1>1, <2>1, <2>2, <2>3 DEF SignalInv
<1>2. ASSUME Deaf
      PROVE  SignalInv'
  BY <1>2 DEF Deaf, SignalInv
<1>3. ASSUME NEW ev \in Events, Heard(ev) \/ Refuses(ev) \/ Catches(ev)
      PROVE  SignalInv'
  <2>1. Signal(ev) /\ UNCHANGED host
    BY <1>3 DEF Heard, Refuses, Catches, Enters, Enter
  <2> QED
    BY <1>1, <2>1
<1>4. CASE OnRecordingStarting /\ state = "idle"
  BY <1>1, <1>4, BindIs
<1> QED
  BY <1>2, <1>3, <1>4, Steps, DeafSteps

LEMMA FinishKeeps ==
    ASSUME FinishInv, UNCHANGED <<producer, control, clock>>,
           producer.stopped =>
               /\ worker'.pc = "finish" /\ obs'.sent = obs.sent /\ ~obs'.ours
               /\ recordings' >= 1 /\ (recordings' <= 1 => recordings <= 1)
               /\ forced' => unload_requested'
    PROVE  FinishInv'
BY DEF FinishInv, StartQueued

\* While a stop that was written waits for its report, nobody is in a callback of the output.
LEMMA FinishIs ==
    ASSUME PinInv, worker.pc = "finish"
    PROVE  Drained /\ ~host.connected /\ state \in {"stopping", "unloading"} /\ ~Sampling
BY DEF PinInv, DrainInv, Sampling

\* The stop is written when everything OBS signalled is.
LEMMA AuthorizeFinishes ==
    ASSUME PinInv, RunInv, Authorize
    PROVE  FinishInv'
<1>1. /\ worker.pc = "authorize" /\ worker.cmd \in Commands /\ UNCHANGED <<obs, recordings, control, clock>>
      /\ \/ UNCHANGED producer
         \/ /\ worker'.pc = "finish" /\ Authorized /\ producer' = Written("stop")
            /\ ~unload_requested /\ ~forced /\ ~forced'
  BY AuthorizeIs DEF Works, Fails, queues, bounds
<1>2. CASE UNCHANGED producer
  BY <1>1, <1>2 DEF FinishInv, RunInv
<1>3. CASE /\ worker'.pc = "finish" /\ Authorized /\ producer' = Written("stop")
           /\ ~unload_requested /\ ~forced /\ ~forced'
  <2>1. /\ producer.open /\ run.accepted /\ producer'.started = producer.started
        /\ producer'.controls = producer.controls
    <3>1. "stop" \in Events \cup {"anchor"} /\ "stop" \notin Pauses
      BY DEF Events, Pauses
    <3>2. /\ Written("stop").started = (producer.started \/ "stop" = "anchor")
          /\ Written("stop").controls = producer.controls
      BY <1>1, <3>1, WrittenIs
    <3>3. producer.started \in BOOLEAN
      BY StillTyped DEF Producers
    <3> QED
      BY <1>3, <3>2, <3>3 DEF Authorized
  <2>2. host.reference /\ producer.started
    BY <2>1 DEF RunInv, AnchorInv
  <2>3. Heading("authorize") /\ ~Heading("cleanup")
    BY <1>1 DEF Heading, Drains
  <2>4. Tracking
    BY <1>3, <2>1, <2>2, <2>3 DEF Tracking, Failing, Stale, StopComing, StopTaken
  <2>5. StopIsTaken
    BY <2>3, <2>4 DEF RunInv, TrackInv, StopTaken, StopIsQueued, StopIsAhead
  <2>6. recordings \in Nat /\ recordings >= 1
    BY <2>2 DEF RunInv, SignalInv, PinInv, TypeOK
  <2>7. ~StartQueued'
    BY <1>1, <2>5 DEF StopIsTaken, StartQueued
  <2> QED
    BY <1>1, <1>3, <2>1, <2>2, <2>5, <2>6, <2>7 DEF FinishInv, StopIsTaken, Over
<1> QED
  BY <1>1, <1>2, <1>3

LEMMA NextFinishes ==
    ASSUME PinInv, RunInv, [Next]_vars
    PROVE  FinishInv'
<1> USE DEF RunInv
<1>1. ASSUME ~producer'.stopped
      PROVE  FinishInv'
  BY <1>1 DEF FinishInv
<1>2. ASSUME worker.pc # "finish", UNCHANGED producer
      PROVE  FinishInv'
  BY <1>2 DEF FinishInv
<1>3. recordings \in Nat /\ obs.ours \in BOOLEAN /\ producer \in Producers
  BY StillTyped DEF PinInv, TypeOK
<1>4. ASSUME Quiet
      PROVE  FinishInv'
  <2>1. worker.pc = "finish" => worker'.pc = "finish" /\ (forced' => forced)
    BY <1>4, FinishIs, SameWorkKeeps DEF Quiet
  <2> QED
    BY <1>3, <1>4, <2>1, FinishKeeps DEF Quiet, FinishInv
<1>5. ASSUME NEW ev \in Events, Heard(ev)
      PROVE  FinishInv'
  <2>1. /\ Signal(ev) /\ ~Binds(ev) /\ UNCHANGED <<producer, control, clock, worker, forced, unload_requested>>
    BY <1>5 DEF Heard
  <2>2. /\ ~obs.ours => ~obs'.ours /\ obs'.sent = obs.sent
        /\ recordings' \in Nat /\ recordings <= recordings'
    BY <2>1, PhaseIs
  <2> QED
    BY <1>3, <2>1, <2>2, FinishKeeps DEF FinishInv
<1>6. ASSUME NEW ev \in Events, Refuses(ev) \/ Catches(ev)
      PROVE  FinishInv'
  <2>1. host.connected /\ UNCHANGED producer
    BY <1>6, OutputIs DEF Refuses, Catches
  <2> QED
    BY <1>2, <2>1, FinishIs
<1>7. ASSUME \/ \E kind \in {"start", "stop"} \cup Pauses : Adds(kind)
             \/ \E kind \in {"anchor", "tick"} : Samples(kind)
             \/ AddsScene
      PROVE  FinishInv'
  <2>1. UNCHANGED producer /\ (~Drained \/ Sampling)
    BY <1>7 DEF Adds, Samples, AddsScene, Settles, Drained
  <2> QED
    BY <1>2, <2>1, FinishIs
<1>8. CASE OnRecordingStarting /\ state = "idle"
  BY <1>2, <1>8, FinishIs, BindIs
<1>9. CASE Load
  BY <1>2, <1>9 DEF Load
<1>10. CASE WorkerTakes \/ WorkerDropsAll
  BY <1>2, <1>10, WorkerTakesIs, WorkerDropsAllIs DEF Waiting
<1>11. CASE ProcessStart
  BY <1>1, <1>11, ProcessStartIs, NewProducer
<1>12. CASE Publish \/ ProcessStop
  BY <1>2, <1>12, PublishIs, ProcessStopIs
<1>13. CASE ProcessClock \/ ProcessScene \/ ProcessPause
  <2>1. /\ worker.pc = "process" /\ worker.cmd \in Commands
        /\ \/ UNCHANGED producer
           \/ \E kind \in {"anchor", "tick", "scene"} \cup Pauses : producer' = Written(kind)
    BY <1>13, ProcessClockIs, ProcessSceneIs, ProcessPauseIs
  <2>2. {"anchor", "tick", "scene"} \cup Pauses \subseteq Events \cup {"anchor"}
    BY DEF Events, Pauses
  <2>3. ASSUME NEW kind \in {"anchor", "tick", "scene"} \cup Pauses, producer' = Written(kind)
        PROVE  ~producer'.stopped
    <3>1. kind # "stop"
      BY DEF Pauses
    <3> HIDE DEF Written
    <3> QED
      BY <2>1, <2>2, <2>3, <3>1, WrittenIs
  <2> QED
    BY <1>1, <1>2, <2>1, <2>3
<1>14. CASE DrainPasses \/ WorkerUnloads \/ WorkerReleases \/ WorkerExits
  BY <1>2, <1>14, DrainIs, WorkerUnloadsIs DEF Draining, Drains, WorkerReleases, WorkerExits
<1>15. CASE Authorize
  BY <1>15, AuthorizeFinishes
<1>16. CASE FinishStop \/ Cleanup
  <2>1. ~producer'.stopped
    BY <1>16, FinishStopIs, CleanupIs DEF NoProducer
  <2> QED
    BY <1>1, <2>1
<1>17. CASE RequestUnload
  <2>1. /\ Woken /\ unload_requested' /\ UNCHANGED <<producer, control, clock, obs, recordings>>
    BY <1>17 DEF RequestUnload, Woken, queues, bounds
  <2>2. worker.pc = "finish" => worker'.pc = "finish"
    BY <2>1, WokenIsSame, SameWorkKeeps DEF PinInv
  <2> QED
    BY <1>3, <2>1, <2>2, FinishKeeps DEF FinishInv
<1>18. CASE JoinWorker
  BY <1>2, <1>18 DEF JoinWorker
<1> QED
  BY <1>4, <1>5, <1>6, <1>7, <1>8, <1>9, <1>10, <1>11, <1>12, <1>13, <1>14, <1>15, <1>16, <1>17, <1>18, Steps

\* Between two runs nothing of the adapter is in use.
LEMMA BetweenIs ==
    ASSUME IdleInv, state = "idle", ~unload_requested
    PROVE  /\ ~forced /\ ~producer.open /\ ~host.reference /\ ~host.connected
           /\ clock = NoCommand /\ scenes = <<>> /\ (recordings <= 1 => control = <<>>)
           /\ Drained /\ ~run.accepting /\ ~StartQueued /\ ~Sampling
           /\ worker.pc \in {"wait", "commit", "asleep", "process"}
           /\ worker.pc = "process" => worker.cmd.kind \in Pauses \cup {"stop"}
<1>1. worker.pc \in {"wait", "commit", "asleep"} \/ Live(Pauses) \/ Live({"stop"})
  BY DEF IdleInv
<1>2. /\ worker.pc \in {"wait", "commit", "asleep", "process"}
      /\ worker.pc = "process" => worker.cmd.kind \in Pauses \cup {"stop"}
  BY <1>1 DEF Live
<1> QED
  BY <1>2 DEF IdleInv, IdleIsClean, Sampling

LEMMA BetweenWillBe ==
    ASSUME state' = "idle" /\ ~unload_requested' =>
               /\ ~forced' /\ ~producer'.open /\ ~host'.reference /\ ~host'.connected
               /\ clock' = NoCommand /\ scenes' = <<>> /\ (recordings' <= 1 => control' = <<>>)
               /\ Drained' /\ ~run'.accepting /\ ~StartQueued'
               /\ \/ worker'.pc \in {"wait", "commit", "asleep"}
                  \/ Live(Pauses)' \/ Live({"stop"})'
    PROVE  IdleInv'
BY DEF IdleInv, IdleIsClean

\* What the worker takes from the queue of commands is its first, the others move up.
LEMMA TakenIs ==
    ASSUME PinInv, control # <<>>, control' = Tail(control)
    PROVE  /\ Len(control) \in Nat \ {0} /\ Len(control') = Len(control) - 1
           /\ \A i \in 1 .. Len(control') : control'[i] = control[i + 1] /\ i + 1 \in 1 .. Len(control)
           /\ 1 \in 1 .. Len(control)
           /\ StartQueued' => StartQueued
           /\ control[1].kind = "start" => StartQueued
<1>1. control \in Seq(Commands)
  BY QueuesKeep DEF QueuesType
<1>2. /\ Len(control) \in Nat \ {0} /\ Len(control') = Len(control) - 1
      /\ \A i \in 1 .. Len(control) - 1 : control'[i] = control[i + 1]
  BY <1>1, Behead
<1>3. \A i \in 1 .. Len(control') : control'[i] = control[i + 1] /\ i + 1 \in 1 .. Len(control)
  BY <1>2
<1>4. 1 \in 1 .. Len(control)
  BY <1>2
<1>5. StartQueued' => StartQueued
  BY <1>3 DEF StartQueued
<1> QED
  BY <1>2, <1>3, <1>4, <1>5 DEF StartQueued

LEMMA NextIdles ==
    ASSUME PinInv, RunInv, [Next]_vars
    PROVE  IdleInv'
<1> USE DEF RunInv
<1>1. ASSUME state' # "idle" \/ unload_requested'
      PROVE  IdleInv'
  BY <1>1, BetweenWillBe
<1>2. unload_requested \in BOOLEAN /\ recordings \in Nat
  BY DEF PinInv, TypeOK
<1>3. ASSUME Quiet
      PROVE  IdleInv'
  <2>1. CASE state = "idle" /\ ~unload_requested
    <3>1. ~forced' /\ Drained' /\ UNCHANGED <<control, clock, scenes, producer, recordings>>
      BY <1>3, <2>1, BetweenIs DEF Quiet
    <3>2. /\ ~run'.accepting /\ ~host'.reference /\ ~host'.connected
          /\ \/ worker'.pc \in {"wait", "commit", "asleep"}
             \/ Live(Pauses)' \/ Live({"stop"})'
      BY <1>3, <2>1, BetweenIs, SameWorkKeeps DEF Quiet, SameWork, IdleInv
    <3> QED
      BY <2>1, <3>1, <3>2, BetweenIs, BetweenWillBe DEF StartQueued
  <2> QED
    BY <1>1, <1>3, <2>1 DEF Quiet
<1>4. ASSUME NEW ev \in Events, Heard(ev)
      PROVE  IdleInv'
  <2>1. CASE state = "idle" /\ ~unload_requested
    <3>1. Drained' /\ recordings <= recordings' /\ recordings' \in Nat
      BY <1>4, <2>1, BetweenIs, PhaseIs DEF Heard
    <3> QED
      BY <1>2, <1>4, <2>1, <3>1, BetweenIs, BetweenWillBe DEF Heard, StartQueued, Live
  <2> QED
    BY <1>1, <1>4, <2>1 DEF Heard
<1>5. ASSUME NEW ev \in Events, Refuses(ev) \/ Catches(ev)
      PROVE  IdleInv'
  <2>1. host.connected /\ UNCHANGED <<state, unload_requested>>
    BY <1>5, OutputIs DEF Refuses, Catches
  <2> QED
    BY <1>1, <2>1, BetweenIs
<1>6. ASSUME \/ \E kind \in {"start", "stop"} \cup Pauses : Adds(kind)
             \/ \E kind \in {"anchor", "tick"} : Samples(kind)
             \/ AddsScene
      PROVE  IdleInv'
  <2>1. UNCHANGED unload_requested /\ (state' = "idle" => state = "idle" /\ ~Drained)
    <3>1. CASE \E kind \in {"start", "stop"} \cup Pauses : Adds(kind)
      BY <3>1 DEF Adds, Settles, Drained, Ended
    <3>2. CASE (\E kind \in {"anchor", "tick"} : Samples(kind)) \/ AddsScene
      BY <3>2 DEF Samples, AddsScene, Settles, Sampling
    <3> QED
      BY <1>6, <3>1, <3>2
  <2> QED
    BY <1>1, <2>1, BetweenIs
<1>7. CASE OnRecordingStarting /\ state = "idle"
  <2>1. CASE state' = "idle"
    <3>1. /\ ~unload_requested /\ Signal("recording_starting") /\ "recording_starting" \in Events
          /\ Goes("ui", "leaving", "recording_starting")
          /\ UNCHANGED <<queues, flags, producer, worker>>
          /\ run'.accepting = run.accepting
          /\ UNCHANGED host \/ (~host'.reference /\ ~host'.connected)
      BY <1>7, <2>1, BindIs
    <3>2. recordings' = recordings + 1
      BY <3>1, PhaseIs
    <3>3. Drained'
      BY <1>7, <3>1, BetweenIs DEF Drained, Goes, Callers
    <3>4. UNCHANGED <<control, clock, scenes, forced>>
      BY <3>1 DEF queues, flags
    <3> QED
      BY <1>2, <1>7, <3>1, <3>2, <3>3, <3>4, BetweenIs, BetweenWillBe DEF StartQueued, Live
  <2> QED
    BY <1>1, <2>1
<1>8. CASE Load
  <2>1. /\ worker.pc = "off" /\ UNCHANGED <<bound, cb, queues, flags, run, producer, obs, bounds>>
        /\ UNCHANGED state \/ (/\ worker' = [worker EXCEPT !.pc = "wait"]
                               /\ host' = InstallCallbacks(RetainModule(host)))
    BY <1>8 DEF Load
  <2>2. /\ gate.count = 0 /\ ~host.connected /\ ~host.reference /\ ~producer.open /\ ~forced
        /\ control = <<>> /\ clock = NoCommand /\ scenes = <<>> /\ ~run.accepting
        /\ state = "unloaded"
    BY <2>1 DEF PinInv, GoneInv
  <2>3. Drained
    <3>1. \A c \in Callers : cb[c].pc \notin Inside
      BY <2>2, NobodyInside DEF PinInv
    <3> QED
      BY <3>1 DEF Drained, Callers, Inside, PinInv, CallersInv
  <2>4. CASE /\ worker' = [worker EXCEPT !.pc = "wait"]
             /\ host' = InstallCallbacks(RetainModule(host))
    <3>1. worker'.pc = "wait" /\ ~host'.reference /\ ~host'.connected
      BY <2>2, <2>4, StillTyped DEF InstallCallbacks, RetainModule, HostType, WorkerType
    <3>2. UNCHANGED <<control, clock, scenes, forced, recordings>>
      BY <2>1 DEF queues, flags, bounds
    <3>3. Len(control) = 0
      BY <2>2
    <3>4. Drained' /\ ~StartQueued'
      BY <2>1, <2>3, <3>2, <3>3 DEF Drained, StartQueued
    <3> QED
      BY <2>1, <2>2, <3>1, <3>2, <3>4, BetweenWillBe
  <2> QED
    BY <1>1, <2>1, <2>2, <2>4
<1>9. CASE WorkerTakes
  <2>1. CASE state = "idle" /\ ~unload_requested
    <3>1. /\ worker.pc = "wait" /\ worker'.pc = "process" /\ worker'.cmd = Earliest
          /\ UNCHANGED <<Waiting, flags>>
          /\ control # <<>> /\ Earliest = control[1] /\ control' = Tail(control)
          /\ Earliest.kind \in Pauses \cup {"start", "stop"} /\ UNCHANGED <<clock, scenes>>
      BY <1>9, <2>1, WorkerTakesIs, BetweenIs
    <3>2. ~StartQueued' /\ Earliest.kind # "start"
      BY <2>1, <3>1, TakenIs, BetweenIs
    <3>3. Live(Pauses)' \/ Live({"stop"})'
      BY <3>1, <3>2, WillBeLive
    <3>4. Len(control) = Len(control') + 1 /\ Len(control) \in Nat
      BY <3>1, TakenIs
    <3>5. Drained' /\ UNCHANGED <<forced, producer, host, run, recordings>>
      BY <2>1, <3>1, BetweenIs DEF Waiting, flags, bounds, Drained
    <3>6. recordings > 1
      BY <1>2, <2>1, <3>1, BetweenIs
    <3> QED
      BY <1>2, <2>1, <3>1, <3>2, <3>3, <3>5, <3>6, BetweenIs, BetweenWillBe
  <2> QED
    BY <1>1, <1>9, <2>1, WorkerTakesIs DEF Waiting, flags
<1>10. CASE WorkerDropsAll
  <2>1. UNCHANGED unload_requested /\ (unload_requested \/ state' # "idle" \/ forced)
    BY <1>10, WorkerDropsAllIs DEF Works
  <2>2. ~unload_requested => state' \in {"stopping", "unloading"}
    BY <1>10, WorkerDropsAllIs
  <2> QED
    BY <1>1, <2>1, <2>2
<1>11. CASE ProcessStart \/ ProcessClock \/ ProcessScene \/ ProcessPause \/ ProcessStop
  <2>1. /\ UNCHANGED unload_requested /\ worker.pc = "process"
        /\ state' # "idle" \/ (/\ state' = state
                               /\ worker.cmd.kind \notin Pauses \cup {"stop"} \/ producer.open)
    <3>1. Fails => state' # "idle" /\ UNCHANGED unload_requested
      BY DEF Fails, Works
    <3>2. CASE ProcessStart
      BY <3>1, <3>2, ProcessStartIs DEF Works, Pauses
    <3>3. CASE ProcessClock \/ ProcessScene
      BY <3>1, <3>3, ProcessClockIs, ProcessSceneIs DEF Works, Pauses
    <3>4. CASE ProcessPause \/ ProcessStop
      BY <3>1, <3>4, ProcessPauseIs, ProcessStopIs DEF Works, Pauses
    <3> QED
      BY <1>11, <3>2, <3>3, <3>4
  <2> QED
    BY <1>1, <2>1, BetweenIs
<1>12. CASE Publish \/ Cleanup \/ RequestUnload \/ JoinWorker \/ WorkerExits
  <2>1. state' # "idle"
    BY <1>12, PublishIs, CleanupIs DEF PinInv, KindsInv, RequestUnload, JoinWorker, WorkerExits
  <2> QED
    BY <1>1, <2>1
<1>13. CASE DrainPasses \/ WorkerUnloads \/ WorkerReleases
  <2>1. /\ UNCHANGED unload_requested /\ (state' = "idle" => state = "idle")
        /\ worker.pc \notin {"wait", "commit", "asleep", "process"}
    BY <1>13, WorkerUnloadsIs, DrainIs DEF DrainPasses, Draining, Drains, Works, WorkerReleases, Processing, flags
  <2> QED
    BY <1>1, <2>1, BetweenIs
<1>14. CASE Authorize
  <2>1. /\ UNCHANGED unload_requested /\ (state' = "idle" => state = "idle") /\ worker.pc = "authorize"
    BY <1>14, AuthorizeIs DEF Fails, Works
  <2> QED
    BY <1>1, <2>1, BetweenIs
<1>15. CASE FinishStop
  <2>1. /\ worker.pc = "finish" /\ Works /\ worker' = Idle
        /\ UNCHANGED <<control, clock, next_order, flags>> /\ scenes' = <<>>
        /\ producer' = NoProducer /\ ~run'.accepting /\ host' = ReleaseOutput(host)
        /\ state' = "idle" => producer.stopped
    BY <1>15, FinishStopIs
  <2>2. CASE producer.stopped /\ ~unload_requested
    <3>1. Drained' /\ UNCHANGED <<recordings, unload_requested>>
      BY <2>1, FinishIs, WorksIs DEF Works, bounds
    <3>2. ~host'.reference /\ ~host'.connected
      BY <2>1, HostIs, StillTyped
    <3>3. /\ clock' = NoCommand /\ ~StartQueued' /\ (recordings' <= 1 => control' = <<>>) /\ ~forced'
      BY <2>1, <2>2, <3>1 DEF FinishInv, StartQueued, flags
    <3> QED
      BY <2>1, <3>1, <3>2, <3>3, BetweenIs, BetweenWillBe, NewProducer DEF Idle, At
  <2> QED
    BY <1>1, <2>1, <2>2 DEF flags
<1> QED
  BY <1>3, <1>4, <1>5, <1>6, <1>7, <1>8, <1>9, <1>10, <1>11, <1>12, <1>13, <1>14, <1>15, Steps

-----------------------------------------------------------------------------
(* A pending start *)

\* Whether the start of the output was signalled, and whether it is on its way to the worker.
Signalled == forced \/ gate.closed \/ obs.phase \in {"on", "paused"} \/ Captured("output", {"stop"})
Coming == Fresh \/ Live({"start"}) \/ worker.pc = "publish"

LEMMA PendingKeeps ==
    ASSUME PendingInv, state' = "start_pending",
           state = "start_pending" =>
               /\ host'.reference = host.reference /\ host'.connected = host.connected
               /\ AnchorQueued' => AnchorQueued
               /\ run'.accepted => run.accepted
               /\ run'.accepting \/ producer'.open =>
                    worker'.pc = "publish" \/ (worker.pc # "publish" /\ (run.accepting \/ producer.open))
               /\ Signalled => Signalled'
               /\ Coming' => Signalled' \/ Coming,
           state = "start_pending"
    PROVE  PendingInv'
BY DEF PendingInv, Signalled, Coming

\* A thread of OBS stays with a start it has, and nobody else queues one.
LEMMA ComesFrom ==
    ASSUME control' = control,
           Captured("output", {"start"})' => Captured("output", {"start"}),
           Live({"start"})' => Live({"start"}), worker'.pc = "publish" => worker.pc = "publish"
    PROVE  Coming' => Coming
BY DEF Coming, Fresh, StartQueued

LEMMA WorkerKeepsPending ==
    ASSUME PendingInv, Works, state' = state, worker.pc # "publish",
           host'.reference = host.reference, host'.connected = host.connected,
           clock' \in {clock, NoCommand}, run'.accepted => run.accepted, run'.accepting => run.accepting,
           producer'.open => producer.open, forced => forced' \/ gate.closed,
           StartQueued' => StartQueued,
           Live({"start"})' \/ worker'.pc = "publish" => StartQueued \/ Live({"start"})
    PROVE  PendingInv'
<1>1. AnchorQueued' => AnchorQueued
  BY DEF AnchorQueued, NoCommand
<1>2. Signalled => Signalled'
  BY DEF Signalled, Captured, Works
<1>3. Coming' => Coming
  BY DEF Coming, Fresh, Captured, Works
<1>4. CASE state' = "start_pending"
  BY <1>1, <1>2, <1>3, <1>4, PendingKeeps
<1> QED
  BY <1>4 DEF PendingInv

LEMMA NextPending ==
    ASSUME PinInv, RunInv, [Next]_vars
    PROVE  PendingInv'
<1> USE DEF RunInv
<1>1. ASSUME state' # "start_pending"
      PROVE  PendingInv'
  BY <1>1 DEF PendingInv
<1>2. "start" \in {"start", "stop"} \cup Pauses /\ "start" \notin Pauses /\ "stop" \notin Pauses
  BY DEF Pauses
<1>3. ASSUME Quiet
      PROVE  PendingInv'
  <2>1. Coming' => Coming
    BY <1>3, ComesFrom, SameWorkKeeps DEF Quiet, Captured, Callers
  <2>2. state = "start_pending" /\ Signalled => Signalled'
    BY <1>3 DEF Quiet, Signalled, Captured, Callers, Ended
  <2>3. worker'.pc = "publish" <=> worker.pc = "publish"
    BY <1>3, SameWorkKeeps DEF Quiet
  <2> QED
    BY <1>1, <1>3, <2>1, <2>2, <2>3, PendingKeeps DEF Quiet, AnchorQueued
<1>4. ASSUME NEW ev \in Events, Heard(ev)
      PROVE  PendingInv'
  <2>1. CASE state = "start_pending"
    <3>1. Coming' => Coming
      BY <1>4, ComesFrom DEF Heard, Captured, Callers, Live
    <3>2. Thread(ev) = "output" => gate.closed
      BY <1>4, <2>1 DEF Heard, PendingInv, Ended
    <3>3. ev = "recording_starting" \/ ev \in {"tick", "scene"} \/ Thread(ev) = "output"
      BY DEF Events, Thread
    <3>4. Signalled => Signalled'
      BY <1>4, <3>2, <3>3, PhaseIs DEF Heard, Signalled, Captured, Callers
    <3> QED
      BY <1>1, <1>4, <2>1, <3>1, <3>4, PendingKeeps DEF Heard, AnchorQueued
  <2> QED
    BY <1>1, <1>4, <2>1 DEF Heard
<1>5. ASSUME NEW ev \in Events, Refuses(ev)
      PROVE  PendingInv'
  <2>1. /\ UNCHANGED <<state, queues, unload_requested, producer, host, report>> /\ Woken
        /\ forced' /\ ~run'.accepting /\ run'.accepted = run.accepted
    BY <1>5, ForceKeeps DEF Refuses, Enters, PinInv
  <2>2. worker'.pc = "publish" <=> worker.pc = "publish"
    BY <2>1, WokenIsSame, SameWorkKeeps DEF PinInv
  <2>3. Signalled'
    BY <2>1 DEF Signalled
  <2> QED
    BY <1>1, <2>1, <2>2, <2>3, PendingKeeps DEF AnchorQueued, queues
<1>6. ASSUME NEW ev \in Events, Catches(ev)
      PROVE  PendingInv'
  <2>1. /\ ev \in {"start", "stop"} \cup Pauses
        /\ Enters(ev, "captured") /\ UNCHANGED <<run, forced, worker>>
    BY <1>6 DEF Catches
  <2>2. /\ Signal(ev) /\ Goes("output", "captured", ev)
        /\ UNCHANGED <<state, queues, unload_requested, producer, host, report>>
    BY <2>1, OutputIs
  <2>3. Signalled'
    BY <2>1, <2>2, PhaseIs DEF Signalled, Captured, Goes
  <2> QED
    BY <1>1, <2>1, <2>2, <2>3, PendingKeeps DEF AnchorQueued, queues
<1>7. ASSUME NEW kind \in {"start", "stop"} \cup Pauses, Adds(kind)
      PROVE  PendingInv'
  <2>1. CASE kind = "start" /\ state = "start_pending"
    <3>1. /\ cb["output"].pc = "captured" /\ cb["output"].ev = "start"
          /\ Settles("output", "leaving") /\ UNCHANGED <<forced, clock, state, run>>
      BY <1>7, <2>1 DEF Adds, Queued
    <3>2. Coming /\ ~Captured("output", {"stop"})
      BY <3>1 DEF Coming, Fresh, Captured
    <3>3. Signalled => Signalled'
      BY <3>1, <3>2 DEF Signalled, Settles
    <3>4. worker'.pc = "publish" <=> worker.pc = "publish"
      BY <3>1, WokenIsSame, SameWorkKeeps DEF PinInv, Settles
    <3> QED
      BY <1>1, <2>1, <3>1, <3>2, <3>3, <3>4, PendingKeeps DEF AnchorQueued, Settles
  <2>2. CASE kind = "stop" \/ kind \in Pauses
    BY <1>1, <1>7, <2>2 DEF Adds, PendingInv
  <2> QED
    BY <1>1, <1>2, <1>7, <2>1, <2>2 DEF Adds
<1>8. ASSUME (\E kind \in {"anchor", "tick"} : Samples(kind)) \/ AddsScene
      PROVE  PendingInv'
  BY <1>1, <1>8 DEF Samples, AddsScene, Sampling
<1>9. CASE Load
  BY <1>1, <1>9 DEF Load, PinInv, GoneInv
<1>10. CASE OnRecordingStarting /\ state = "idle"
  <2>1. CASE state' = "start_pending"
    <3>1. /\ ~unload_requested /\ host'.reference /\ host'.connected
          /\ Goes("ui", "leaving", "recording_starting")
          /\ UNCHANGED <<queues, producer, worker>>
          /\ run'.accepting = run.accepting /\ run'.accepted = run.accepted
      BY <1>10, <2>1, BindIs
    <3>2. /\ ~producer.open /\ ~host.reference /\ clock = NoCommand /\ Drained /\ ~run.accepting
          /\ ~StartQueued /\ worker.pc \in {"wait", "commit", "asleep", "process"}
          /\ worker.pc = "process" => worker.cmd.kind \in Pauses \cup {"stop"}
      BY <1>10, <3>1, BetweenIs
    <3>3. ~run.accepted /\ ~AnchorQueued'
      BY <3>1, <3>2 DEF AnchorInv, AnchorQueued, NoCommand, queues
    <3>4. ~Captured("output", {"start"})'
      BY <3>1, <3>2 DEF Captured, Drained, Goes, Callers
    <3>5. ~Live({"start"})' /\ worker'.pc # "publish"
      BY <1>2, <3>1, <3>2 DEF Live
    <3>6. ~StartQueued'
      BY <3>1, <3>2 DEF StartQueued, queues
    <3> QED
      BY <3>1, <3>2, <3>3, <3>4, <3>5, <3>6 DEF PendingInv, Fresh
  <2> QED
    BY <1>1, <2>1
<1>11. CASE WorkerTakes
  <2>1. /\ Works /\ worker.pc = "wait" /\ worker'.pc = "process" /\ worker'.cmd = Earliest
        /\ UNCHANGED <<Waiting, forced>> /\ clock' \in {clock, NoCommand}
        /\ \/ control # <<>> /\ control' = Tail(control) /\ Earliest = control[1]
           \/ UNCHANGED control /\ Earliest.kind # "start"
    BY <1>11, WorkerTakesIs, <1>2 DEF flags
  <2>2. StartQueued' \/ Live({"start"})' => StartQueued
    BY <2>1, TakenIs, WillBeLive DEF StartQueued
  <2> QED
    BY <2>1, <2>2, WorkerKeepsPending DEF Waiting
<1>12. CASE WorkerDropsAll
  <2>1. CASE unload_requested
    <3>1. /\ Works /\ worker.pc = "wait" /\ gate.closed /\ UNCHANGED <<state, run, host, producer>>
          /\ control' = <<>> /\ clock' = NoCommand /\ worker'.pc = "drain"
      BY <1>12, <2>1, WorkerDropsAllIs DEF PinInv, GoneInv
    <3>2. Len(control') = 0
      BY <3>1
    <3>3. ~StartQueued' /\ ~Live({"start"})'
      BY <3>1, <3>2 DEF StartQueued, Live
    <3> QED
      BY <3>1, <3>3, WorkerKeepsPending
  <2> QED
    BY <1>1, <1>12, <2>1, WorkerDropsAllIs
<1>13. CASE ProcessStart
  <2>1. CASE state' = "start_pending"
    <3>1. /\ worker.pc = "process" /\ worker.cmd.kind = "start" /\ UNCHANGED <<queues, flags>>
          /\ Works /\ UNCHANGED <<state, host>> /\ ~run'.accepted /\ worker'.pc = "publish"
      BY <1>13, <2>1, ProcessStartIs DEF Fails
    <3>2. Live({"start"}) /\ state = "start_pending"
      BY <2>1, <3>1 DEF Live
    <3>3. Signalled /\ host.reference /\ host.connected /\ ~AnchorQueued
      BY <3>2 DEF PendingInv, Signalled
    <3>4. Signalled'
      BY <3>1, <3>3 DEF Signalled, Captured, Works, flags
    <3> QED
      BY <3>1, <3>3, <3>4 DEF PendingInv, Signalled, AnchorQueued, queues
  <2> QED
    BY <1>1, <2>1
<1>14. CASE ProcessClock \/ ProcessScene \/ ProcessPause
  <2>1. CASE state' = "start_pending"
    <3>1. worker.pc = "process"
      BY <1>14, ProcessClockIs, ProcessSceneIs, ProcessPauseIs
    <3>2. \/ Works /\ UNCHANGED <<state, host>> /\ producer.open
          \/ Works /\ worker' = Idle /\ UNCHANGED <<state, run, producer, host, queues, flags>>
      BY <1>14, <2>1, ProcessClockIs, ProcessSceneIs, ProcessPauseIs DEF Fails
    <3>3. ~producer.open /\ state = "start_pending"
      BY <2>1, <3>1, <3>2 DEF PendingInv
    <3>4. worker'.pc = "wait"
      BY <3>2, <3>3 DEF Idle, At
    <3>5. ~Live({"start"})' /\ (StartQueued' => StartQueued)
      BY <3>2, <3>3, <3>4, RestIs DEF StartQueued, queues
    <3> QED
      BY <3>1, <3>2, <3>3, <3>4, <3>5, WorkerKeepsPending DEF queues, flags
  <2> QED
    BY <1>1, <2>1
<1>15. CASE ProcessStop \/ Publish \/ FinishStop \/ Cleanup \/ WorkerExits \/ RequestUnload \/ JoinWorker
  <2>1. state' # "start_pending"
    BY <1>15, ProcessStopIs, PublishIs, FinishStopIs, CleanupIs
    DEF PinInv, KindsInv, WorkerExits, RequestUnload, JoinWorker
  <2> QED
    BY <1>1, <2>1
<1>16. CASE DrainPasses
  <2>1. /\ Works /\ UNCHANGED Draining /\ worker.pc \in Drains
        /\ worker'.pc \in Drains \cup {"authorize", "cleanup", "release", "unload"}
    BY <1>16, DrainIs
  <2>2. worker.pc # "publish" /\ ~Live({"start"})' /\ worker'.pc # "publish"
    BY <2>1 DEF Live, Drains
  <2>3. StartQueued' => StartQueued
    BY <2>1 DEF Draining, queues, StartQueued
  <2> QED
    BY <2>1, <2>2, <2>3, WorkerKeepsPending DEF Draining, queues, flags
<1>17. CASE Authorize
  <2>1. worker.pc = "authorize" /\ (state' = state \/ state' \in {"stopping", "unloading"})
    BY <1>17, AuthorizeIs DEF Fails
  <2>2. state \in {"stopping", "unloading"}
    BY <2>1 DEF PinInv, DrainInv, Heading
  <2> QED
    BY <1>1, <2>1, <2>2
<1>18. CASE WorkerUnloads \/ WorkerReleases
  <2>1. state' \in {"stopping", "unloading"} \/ (state' = state /\ ~host.reference)
    BY <1>18, WorkerUnloadsIs DEF WorkerReleases, PinInv, GoneInv, Heading
  <2> QED
    BY <1>1, <2>1 DEF PendingInv
<1> QED
  BY <1>3, <1>4, <1>5, <1>6, <1>7, <1>8, <1>9, <1>10, <1>11, <1>12, <1>13, <1>14, <1>15, <1>16, <1>17, <1>18, Steps

-----------------------------------------------------------------------------
(* One start at a time, and its anchor *)

\* There is one start on its way, or the run fails.
OneStart ==
    /\ Captured("output", {"start"}) => ~StartQueued \/ Failing
    /\ \A i, j \in 1 .. Len(control) :
           control[i].kind = "start" /\ control[j].kind = "start" => i = j \/ Failing

LEMMA OnceIs ==
    OnceInv <=>
        (host.reference =>
            /\ Fresh => ~run.accepting \/ (Failing /\ ~StopTaken)
            /\ Live({"start"}) => ~run.accepting /\ (~Fresh \/ Failing)
            /\ OneStart)
BY DEF OnceInv, OneStart

LEMMA OnceWillBe ==
    OnceInv' <=>
        (host'.reference =>
            /\ Fresh' => ~run'.accepting \/ (Failing' /\ ~StopTaken')
            /\ Live({"start"})' => ~run'.accepting /\ (~Fresh' \/ Failing')
            /\ OneStart')
BY DEF OnceInv, OneStart

\* A step that starts nothing.
Calm ==
    /\ host'.reference <=> host.reference
    /\ Fresh' => Fresh
    /\ OneStart => OneStart'
    /\ AnchorQueued' => AnchorQueued
    /\ Live({"start"})' => Live({"start"})
    /\ Live({"anchor"})' => Live({"anchor"})
    /\ StopTaken' => StopTaken
    /\ run'.accepting => run.accepting
    /\ run'.accepted => run.accepted
    /\ Failing => Failing'
    /\ unload_requested => unload_requested'
    /\ forced /\ ~StopTaken /\ AnchorQueued' => forced' \/ unload_requested'
    /\ producer'.open => producer.open
    /\ run'.accepted /\ producer.open /\ producer.started => producer'.open /\ producer'.started
    /\ cb'["video"].pc = "captured" => cb["video"].pc = "captured" \/ host.reference

LEMMA CalmKeeps ==
    ASSUME OnceInv, AnchorInv, Calm
    PROVE  OnceInv' /\ AnchorInv'
<1>1. OnceInv'
  BY OnceIs, OnceWillBe DEF Calm
<1>2. /\ Fresh' /\ AnchorQueued' => unload_requested' \/ (forced' /\ ~StopTaken')
      /\ Live({"start"})' => ~AnchorQueued'
  BY DEF Calm, AnchorInv
<1>3. /\ Live({"anchor"})' /\ producer'.open => ~Fresh'
      /\ Fresh' \/ Live({"start"})' => ~run'.accepted
      /\ run'.accepted => producer'.open /\ producer'.started
  BY DEF Calm, AnchorInv
<1>4. ~host'.reference =>
        /\ ~run'.accepted /\ cb'["video"].pc # "captured"
        /\ producer'.open => ~AnchorQueued' /\ ~Live({"anchor"})'
  BY DEF Calm, AnchorInv
<1> QED
  BY <1>1, <1>2, <1>3, <1>4 DEF AnchorInv

\* What was on its way is so still, when the queue and the thread of the output stay.
LEMMA FreshKeeps ==
    ASSUME control' \in {control, <<>>}, Captured("output", {"start"})' => Captured("output", {"start"}),
           Failing => Failing'
    PROVE  (Fresh' => Fresh) /\ (OneStart => OneStart') /\ (StartQueued' => StartQueued)
<1>1. CASE control' = control
  BY <1>1 DEF Fresh, StartQueued, OneStart
<1>2. CASE control' = <<>>
  <2>1. Len(control') = 0
    BY <1>2
  <2> QED
    BY <2>1 DEF Fresh, StartQueued, OneStart
<1> QED
  BY <1>1, <1>2

LEMMA FailingKeeps ==
    ASSUME unload_requested => unload_requested', forced => forced' \/ unload_requested' \/ Heading("cleanup")',
           Heading("cleanup") => Heading("cleanup")'
    PROVE  Failing => Failing'
BY DEF Failing

\* A step of the worker that reads no queue and writes nothing.
LEMMA WorkIsCalm ==
    ASSUME Works, control' \in {control, <<>>}, clock' \in {clock, NoCommand},
           host'.reference <=> host.reference,
           Live({"start"})' => Live({"start"}), Live({"anchor"})' => Live({"anchor"}),
           StopTaken' => StopTaken,
           run'.accepting => run.accepting, run'.accepted => run.accepted,
           forced => forced' \/ unload_requested
                     \/ (Heading("cleanup")' /\ (StopTaken \/ clock' = NoCommand)),
           Heading("cleanup") => Heading("cleanup")',
           producer'.open => producer.open,
           run'.accepted /\ producer.open /\ producer.started => producer'.open /\ producer'.started
    PROVE  Calm
<1>1. Failing => Failing'
  BY FailingKeeps DEF Works
<1>2. Captured("output", {"start"})' => Captured("output", {"start"})
  BY DEF Captured, Works
<1>3. AnchorQueued' => AnchorQueued /\ clock' # NoCommand
  BY DEF AnchorQueued, NoCommand
<1> QED
  BY <1>1, <1>2, <1>3, FreshKeeps DEF Calm, Works

\* So is every step that ends what the worker does, without an end of the run.
LEMMA RestIsCalm ==
    ASSUME Works, UNCHANGED <<control, clock, host>>,
           worker.pc \notin Drains \cup {"cleanup"}, worker'.pc \in {"wait", "publish", "finish"},
           run'.accepting => run.accepting, run'.accepted => run.accepted, forced => forced',
           producer'.open => producer.open,
           run'.accepted /\ producer.open /\ producer.started => producer'.open /\ producer'.started
    PROVE  Calm
<1>1. /\ ~StopTaken' /\ \A kinds : ~Live(kinds)'
  BY RestIs
<1>2. ~Heading("cleanup")
  BY DEF Heading
<1> QED
  BY <1>1, <1>2, WorkIsCalm

\* Failing a run is one of them.
LEMMA FailIsCalm ==
    ASSUME Fails, UNCHANGED <<control, clock>>, forced => forced' \/ unload_requested \/ StopTaken,
           producer'.open => producer.open,
           run'.accepted /\ producer.open /\ producer.started => producer'.open /\ producer'.started
    PROVE  Calm
<1>1. Works /\ Heading("cleanup")' /\ ~StopTaken' /\ \A kinds : ~Live(kinds)'
  BY FailsIs DEF Fails
<1> QED
  BY <1>1, WorkIsCalm DEF Fails

LEMMA CallbackIsCalm ==
    ASSUME SameWork, UNCHANGED <<clock, producer, unload_requested>>,
           control' = control \/ ((Fresh' => Fresh) /\ (OneStart => OneStart')),
           host'.reference <=> host.reference,
           run'.accepting => run.accepting, run'.accepted = run.accepted, forced => forced',
           Captured("output", {"start"})' => Captured("output", {"start"}),
           cb'["video"].pc = "captured" => cb["video"].pc = "captured" \/ host.reference
    PROVE  Calm
<1>1. /\ Live({"start"})' <=> Live({"start"})
      /\ Live({"anchor"})' <=> Live({"anchor"})
      /\ StopTaken' <=> StopTaken
      /\ Heading("cleanup")' <=> Heading("cleanup")
  BY SameWorkKeeps
<1>2. Failing => Failing'
  BY <1>1, FailingKeeps
<1>3. (Fresh' => Fresh) /\ (OneStart => OneStart')
  BY <1>2, FreshKeeps
<1> QED
  BY <1>1, <1>2, <1>3 DEF Calm, AnchorQueued
\* A start that is captured is the only one, and no anchor waits.
LEMMA CatchingStart ==
    ASSUME PinInv, RunInv, Catches("start")
    PROVE  OnceInv' /\ AnchorInv'
<1> USE DEF RunInv
<1>1. /\ Enters("start", "captured") /\ UNCHANGED <<run, forced, worker>>
      /\ state = "start_pending" /\ host.reference
  BY DEF Catches
<1>2. /\ Signal("start") /\ "start" \in Events /\ ~gate.closed /\ cb["output"].pc = "out"
      /\ Goes("output", "captured", "start")
      /\ UNCHANGED <<queues, unload_requested, producer, host>>
  BY <1>1, OutputIs
<1>3. obs.phase = "starting"
  BY <1>2, PhaseIs
<1>4. /\ ~AnchorQueued /\ ~run.accepted
      /\ run.accepting \/ producer.open => worker.pc = "publish"
      /\ forced \/ ~Coming
  BY <1>1, <1>2, <1>3 DEF PendingInv, Coming, Captured
<1>5. /\ UNCHANGED <<control, clock>> /\ (StartQueued' <=> StartQueued) /\ (AnchorQueued' <=> AnchorQueued)
      /\ (Failing' <=> Failing) /\ (StopTaken' <=> StopTaken)
      /\ (Live({"start"})' <=> Live({"start"})) /\ (Live({"anchor"})' <=> Live({"anchor"}))
  BY <1>1, <1>2 DEF queues, StartQueued, AnchorQueued, Failing, StopTaken, Live, Heading
<1>6. forced => Failing
  BY DEF Failing
<1>7. worker.pc = "publish" => ~StopTaken /\ ~Live({"anchor"})
  BY WaitIs
<1>8. run.accepting => Failing' /\ ~StopTaken'
  BY <1>4, <1>5, <1>6, <1>7 DEF Coming
<1>9. Live({"start"})' => ~run.accepting /\ Failing'
  BY <1>1, <1>4, <1>5, <1>6, OnceIs DEF Coming
<1>10. OneStart'
  <2>1. StartQueued => Failing
    BY <1>4, <1>6 DEF Coming, Fresh
  <2>2. OneStart
    BY <1>1, OnceIs
  <2> QED
    BY <1>5, <2>1, <2>2 DEF OneStart
<1>11. OnceInv'
  BY <1>1, <1>8, <1>9, <1>10, OnceWillBe
<1>12. AnchorInv'
  BY <1>1, <1>2, <1>4, <1>5, <1>7 DEF AnchorInv
<1> QED
  BY <1>11, <1>12

\* What the thread of the output captured is queued behind everything else.
LEMMA AddedIs ==
    ASSUME PinInv, NEW kind \in {"start", "stop"} \cup Pauses, Adds(kind)
    PROVE  /\ cb["output"].pc = "captured" /\ cb["output"].ev = kind
           /\ ~Captured("output", {"start"})' /\ ~Captured("output", {"stop"})' /\ ~Captured("output", Pauses)'
           /\ cb'["output"].pc = "leaving" /\ cb'["video"] = cb["video"]
           /\ UNCHANGED <<clock, forced, unload_requested, producer, host, gate, obs, recordings>>
           /\ SameWork /\ run'.accepted = run.accepted /\ (run'.accepting => run.accepting)
           /\ Len(control') = Len(control) + 1 /\ Len(control) \in Nat
           /\ \A i \in 1 .. Len(control) : control'[i] = control[i]
           /\ control'[Len(control) + 1].kind = kind
           /\ control'[Len(control) + 1].order = next_order
<1>1. /\ cb["output"].pc = "captured" /\ cb["output"].ev = kind
      /\ Settles("output", "leaving") /\ UNCHANGED <<clock, scenes, forced>>
      /\ control' = Append(control, Command(kind, "output"))
      /\ run'.accepted = run.accepted
  BY DEF Adds, Queued
<1>2. run'.accepting => run.accepting
  BY DEF Adds, Pauses
<1>3. /\ control \in Seq(Commands) /\ Command(kind, "output") \in Commands
      /\ Command(kind, "output").kind = kind /\ Command(kind, "output").order = next_order
  BY CommandIs, QueuesKeep DEF Events, Pauses, Callers, PinInv, QueuesType
<1>4. /\ Len(control') = Len(control) + 1 /\ Len(control) \in Nat
      /\ \A i \in 1 .. Len(control) : control'[i] = control[i]
      /\ control'[Len(control) + 1] = Command(kind, "output")
  BY <1>1, <1>3, Appended, Empty
<1>5. cb'["output"].pc = "leaving" /\ cb'["video"] = cb["video"]
  BY <1>1 DEF Settles, Goes, Callers
<1>6. SameWork /\ UNCHANGED <<unload_requested, producer, host, gate, obs, recordings>>
  BY <1>1, WokenIsSame DEF Settles, PinInv, bounds
<1> QED
  BY <1>1, <1>2, <1>3, <1>4, <1>5, <1>6 DEF Captured

\* It was on its way before.
LEMMA AddingIsCalm ==
    ASSUME PinInv, RunInv, NEW kind \in {"start", "stop"} \cup Pauses, Adds(kind)
    PROVE  Calm
<1>1. /\ cb["output"].pc = "captured" /\ cb["output"].ev = kind
      /\ ~Captured("output", {"start"})' /\ cb'["video"] = cb["video"]
      /\ UNCHANGED <<clock, forced, unload_requested, producer, host>>
      /\ SameWork /\ run'.accepted = run.accepted /\ (run'.accepting => run.accepting)
  BY AddedIs
<1>2. Failing' <=> Failing
  BY <1>1, SameWorkKeeps DEF Failing
<1>3. kind = "start" => Captured("output", {"start"})
  BY <1>1 DEF Captured
<1>4. \A i \in 1 .. Len(control') : \/ i \in 1 .. Len(control) /\ control'[i] = control[i]
                                    \/ i = Len(control) + 1 /\ control'[i].kind = kind
  BY AddedIs
<1>5. Fresh' => Fresh
  BY <1>1, <1>3, <1>4 DEF Fresh, StartQueued
<1>6. OneStart => OneStart'
  <2> SUFFICES ASSUME OneStart, ~Failing, NEW i \in 1 .. Len(control'), NEW j \in 1 .. Len(control'),
                      control'[i].kind = "start", control'[j].kind = "start"
               PROVE  i = j
    BY <1>1, <1>2 DEF OneStart
  <2>1. kind = "start" => ~StartQueued
    BY <1>3 DEF OneStart
  <2> QED
    BY <1>4, <2>1 DEF OneStart, StartQueued
<1> QED
  BY <1>1, <1>5, <1>6, CallbackIsCalm

\* An anchor is queued while the run samples: no other start is on its way, or the run fails.
LEMMA Sampled ==
    ASSUME PinInv, RunInv, NEW kind \in {"anchor", "tick"}, Samples(kind)
    PROVE  OnceInv' /\ AnchorInv'
<1> USE DEF RunInv
<1>1. /\ cb["video"].pc = "captured" /\ Settles("video", "leaving")
      /\ UNCHANGED <<state, control, scenes, forced>>
      /\ Sampling /\ clock' = Command(kind, "video")
      /\ run'.accepting = run.accepting /\ run'.accepted = run.accepted
  BY DEF Samples, Queued
<1>2. SameWork /\ UNCHANGED <<unload_requested, producer, host>>
  BY <1>1, WokenIsSame DEF Settles, PinInv
<1>3. /\ Live({"start"})' <=> Live({"start"})
      /\ Live({"anchor"})' <=> Live({"anchor"})
      /\ StopTaken' <=> StopTaken
      /\ Failing' <=> Failing
  BY <1>1, <1>2, SameWorkKeeps DEF Failing
<1>4. Captured("output", {"start"})' <=> Captured("output", {"start"})
  BY <1>1 DEF Captured, Settles, Goes, Callers
<1>5. (Fresh' <=> Fresh) /\ (OneStart' <=> OneStart)
  BY <1>1, <1>3, <1>4 DEF Fresh, StartQueued, OneStart
<1>6. host.reference
  BY <1>1 DEF AnchorInv
<1>7. OnceInv'
  BY <1>1, <1>2, <1>3, <1>5, OnceIs, OnceWillBe
<1>8. ~Heading("cleanup") /\ run.accepting
  BY <1>1 DEF Sampling, PinInv, DrainInv
<1>9. Fresh' => unload_requested' \/ (forced' /\ ~StopTaken')
  BY <1>1, <1>2, <1>3, <1>5, <1>6, <1>8, OnceIs DEF Failing
<1>10. ~Live({"start"})'
  BY <1>3, <1>6, <1>8, OnceIs
<1>11. Live({"anchor"})' /\ producer'.open => ~Fresh'
  BY <1>2, <1>3, <1>5 DEF AnchorInv
<1>12. /\ Fresh' => ~run'.accepted
       /\ run'.accepted => producer'.open /\ producer'.started
  BY <1>1, <1>2, <1>5 DEF AnchorInv
<1>13. AnchorInv'
  BY <1>2, <1>6, <1>9, <1>10, <1>11, <1>12 DEF AnchorInv
<1> QED
  BY <1>7, <1>13

\* A binding starts from an adapter without a start.
LEMMA Bound ==
    ASSUME PinInv, RunInv, OnRecordingStarting, state = "idle"
    PROVE  OnceInv' /\ AnchorInv'
<1> USE DEF RunInv
<1>1. /\ ~unload_requested /\ Goes("ui", "leaving", "recording_starting")
      /\ UNCHANGED <<queues, flags, producer, worker>>
      /\ run'.accepting = run.accepting /\ run'.accepted = run.accepted
  BY BindIs
<1>2. /\ ~producer.open /\ ~host.reference /\ Drained /\ ~run.accepting /\ ~StartQueued
      /\ worker.pc \in {"wait", "commit", "asleep", "process"}
      /\ worker.pc = "process" => worker.cmd.kind \in Pauses \cup {"stop"}
  BY <1>1, BetweenIs
<1>3. "start" \notin Pauses /\ "anchor" \notin Pauses
  BY DEF Pauses
<1>4. ~Live({"start"})' /\ ~Live({"anchor"})'
  BY <1>1, <1>2, <1>3 DEF Live
<1>5. /\ cb'["output"].pc # "captured" /\ cb'["video"].pc # "captured"
  BY <1>1, <1>2 DEF Goes, Drained, Callers
<1>6. ~StartQueued' /\ ~Captured("output", {"start"})'
  BY <1>1, <1>2, <1>5 DEF StartQueued, Captured, queues
<1>7. ~Fresh' /\ OneStart'
  BY <1>6 DEF Fresh, OneStart, StartQueued
<1>8. OnceInv'
  BY <1>4, <1>7, OnceWillBe
<1>9. ~run'.accepted
  BY <1>1, <1>2 DEF AnchorInv
<1>10. AnchorInv'
  BY <1>1, <1>2, <1>4, <1>5, <1>7, <1>9 DEF AnchorInv
<1> QED
  BY <1>8, <1>10

\* The worker takes a start that is the only one, and an anchor that belongs to no later start.
LEMMA TakingOne ==
    ASSUME PinInv, RunInv, WorkerTakes
    PROVE  OnceInv' /\ AnchorInv'
<1> USE DEF RunInv
<1>1. /\ Works /\ worker.pc = "wait" /\ ~forced /\ ~unload_requested
      /\ worker'.pc = "process" /\ worker'.cmd = Earliest
      /\ UNCHANGED <<Waiting, flags>>
      /\ \/ /\ control # <<>> /\ Earliest = control[1] /\ control' = Tail(control)
            /\ Earliest.kind \in Pauses \cup {"start", "stop"} /\ UNCHANGED clock
         \/ Earliest.kind = "scene" /\ UNCHANGED <<control, clock>>
         \/ /\ clock # NoCommand /\ Earliest = clock /\ clock' = NoCommand
            /\ Earliest.kind \in {"anchor", "tick"} /\ UNCHANGED control
  BY WorkerTakesIs
<1>2. ~Failing /\ UNCHANGED <<host, run, producer, cb>>
  BY <1>1, WaitIs DEF Failing, Waiting
<1>3. /\ Live({"start"})' <=> Earliest.kind = "start"
      /\ Live({"anchor"})' <=> Earliest.kind = "anchor"
  BY <1>1, WillBeLive
<1>4. Captured("output", {"start"})' <=> Captured("output", {"start"})
  BY <1>2 DEF Captured
<1>5. AnchorQueued' => AnchorQueued
  BY <1>1 DEF AnchorQueued, NoCommand
<1>6. "start" \notin Pauses /\ "anchor" \notin Pauses
  BY DEF Pauses
<1>7. (StartQueued' => StartQueued) /\ (Earliest.kind = "start" => StartQueued)
  BY <1>1, TakenIs DEF StartQueued
<1>8. ASSUME OneStart
      PROVE  OneStart' /\ (Earliest.kind = "start" => ~Fresh')
  <2>1. CASE /\ control # <<>> /\ Earliest = control[1] /\ control' = Tail(control)
    <3>1. /\ \A i \in 1 .. Len(control') : control'[i] = control[i + 1] /\ i + 1 \in 1 .. Len(control)
          /\ 1 \in 1 .. Len(control)
      BY <2>1, TakenIs
    <3>2. ASSUME NEW i \in 1 .. Len(control'), NEW j \in 1 .. Len(control'),
                 control'[i].kind = "start", control'[j].kind = "start"
          PROVE  i = j
      <4>1. i + 1 = j + 1
        BY <1>2, <1>8, <3>1, <3>2 DEF OneStart
      <4> QED
        BY <4>1
    <3>3. ASSUME NEW i \in 1 .. Len(control'), control'[i].kind = "start", Earliest.kind = "start"
          PROVE  FALSE
      <4>1. i + 1 = 1
        BY <1>2, <1>8, <2>1, <3>1, <3>3 DEF OneStart
      <4> QED
        BY <4>1
    <3> QED
      BY <1>2, <1>4, <1>7, <1>8, <3>2, <3>3 DEF OneStart, Fresh, StartQueued
  <2>2. CASE UNCHANGED control /\ Earliest.kind # "start"
    BY <1>2, <1>4, <1>8, <2>2 DEF OneStart, StartQueued
  <2> QED
    BY <1>1, <1>6, <2>1, <2>2
<1>9. Fresh' \/ Earliest.kind = "start" => Fresh
  BY <1>4, <1>7 DEF Fresh
<1>10. OnceInv'
  BY <1>2, <1>3, <1>8, <1>9, OnceIs, OnceWillBe
<1>11. Fresh => ~AnchorQueued
  BY <1>1 DEF AnchorInv
<1>12. Live({"anchor"})' => AnchorQueued /\ ~AnchorQueued'
  <2>1. CASE Earliest.kind = "anchor"
    <3>1. clock # NoCommand /\ Earliest = clock /\ clock' = NoCommand
      BY <1>1, <1>6, <2>1
    <3> QED
      BY <2>1, <3>1 DEF AnchorQueued, NoCommand
  <2> QED
    BY <1>3, <2>1
<1>13. ~StopTaken
  BY <1>1, WaitIs
<1>14. ~host'.reference =>
         /\ ~run'.accepted /\ cb'["video"].pc # "captured"
         /\ producer'.open => ~AnchorQueued' /\ ~Live({"anchor"})'
  BY <1>2, <1>5, <1>12 DEF AnchorInv
<1>15. /\ Fresh' /\ AnchorQueued' => unload_requested' \/ (forced' /\ ~StopTaken')
       /\ Live({"start"})' => ~AnchorQueued'
       /\ Live({"anchor"})' /\ producer'.open => ~Fresh'
       /\ Fresh' \/ Live({"start"})' => ~run'.accepted
       /\ run'.accepted => producer'.open /\ producer'.started
  BY <1>2, <1>3, <1>5, <1>9, <1>11, <1>12 DEF AnchorInv
<1>16. AnchorInv'
  BY <1>14, <1>15 DEF AnchorInv
<1> QED
  BY <1>10, <1>16
\* The run starts to accept: the start that the worker has was the only one.
LEMMA Starting ==
    ASSUME PinInv, RunInv, ProcessStart
    PROVE  OnceInv' /\ AnchorInv'
<1> USE DEF RunInv
<1>1. /\ worker.pc = "process" /\ worker.cmd.kind = "start" /\ Works
      /\ UNCHANGED <<queues, flags>> /\ host'.reference = host.reference
      /\ producer' = [NoProducer EXCEPT !.open = TRUE]
      /\ ~run'.accepted
  BY ProcessStartIs, LiveIs DEF Fails, AnchorInv
<1>2. Live({"start"}) /\ ~StopTaken /\ ~Heading("cleanup")
  BY <1>1, LiveIs
<1>3. ~StopTaken' /\ ~Live({"start"})' /\ ~Live({"anchor"})'
  <2>1. worker'.pc \in {"wait", "publish"} \/ Fails
    BY ProcessStartIs DEF Idle, At
  <2> QED
    BY <2>1, RestIs, FailsIs
<1>4. Failing => Failing'
  BY <1>1, <1>2 DEF Failing, flags
<1>5. /\ Captured("output", {"start"})' => Captured("output", {"start"})
      /\ UNCHANGED <<control, clock, unload_requested, forced, cb>>
  BY <1>1 DEF Captured, Works, queues, flags
<1>6. (Fresh' => Fresh) /\ (OneStart => OneStart')
  BY <1>4, <1>5, FreshKeeps
<1>7. OnceInv'
  BY <1>1, <1>2, <1>3, <1>4, <1>6, OnceIs, OnceWillBe
<1>8. /\ Fresh' /\ AnchorQueued' => unload_requested' \/ (forced' /\ ~StopTaken')
      /\ ~AnchorQueued'
  BY <1>1, <1>2, <1>3, <1>5, <1>6 DEF AnchorInv, AnchorQueued
<1>9. ~host'.reference => cb'["video"].pc # "captured"
  BY <1>1, <1>5 DEF AnchorInv
<1>10. AnchorInv'
  BY <1>1, <1>3, <1>8, <1>9 DEF AnchorInv
<1> QED
  BY <1>7, <1>10

\* The anchor that is written is that of the run.
LEMMA Anchoring ==
    ASSUME PinInv, RunInv, ProcessClock
    PROVE  OnceInv' /\ AnchorInv'
<1> USE DEF RunInv
<1>1. /\ worker.pc = "process" /\ worker.cmd.kind \in {"anchor", "tick"}
      /\ worker.cmd \in Commands /\ UNCHANGED <<queues, flags>> /\ run \in Runs /\ producer \in Producers
  BY ProcessClockIs, StillTyped
<1>2. UNCHANGED <<control, clock, forced, unload_requested>>
  BY <1>1 DEF queues, flags
<1>3. worker.pc \notin Drains \cup {"cleanup"}
  BY <1>1 DEF Drains
<1>4. Idle.pc = "wait"
  BY DEF Idle, At
<1>5. CASE Fails /\ producer.open /\ UNCHANGED producer
  <2>1. Calm
    BY <1>2, <1>5, FailIsCalm
  <2> QED
    BY <2>1, CalmKeeps
<1>6. CASE Works /\ worker' = Idle /\ UNCHANGED <<state, run, producer, host>>
  <2>1. Calm
    BY <1>2, <1>3, <1>4, <1>6, RestIsCalm
  <2> QED
    BY <2>1, CalmKeeps
<1>7. CASE /\ Works /\ worker' = Idle /\ UNCHANGED <<state, host>>
           /\ producer.open /\ producer' = Written(worker.cmd.kind)
           /\ run' = IF worker.cmd.kind = "anchor"
                     THEN [run EXCEPT !.accepted = TRUE, !.due = Interval] ELSE run
           /\ worker.cmd.kind = "anchor" \/ run.accepted
  <2>1. worker.cmd.kind \in Events \cup {"anchor"}
    BY <1>1 DEF Events
  <2>2. /\ producer'.open /\ (worker.cmd.kind = "anchor" => producer'.started)
        /\ (producer.started => producer'.started)
    BY <1>1, <1>7, <2>1, WrittenIs
  <2>3. CASE worker.cmd.kind = "tick"
    <3>1. run' = run
      BY <1>7, <2>3
    <3>2. Calm
      BY <1>2, <1>3, <1>4, <1>7, <2>2, <3>1, RestIsCalm
    <3> QED
      BY <3>2, CalmKeeps
  <2>4. CASE worker.cmd.kind = "anchor"
    <3>1. Live({"anchor"}) /\ ~Heading("cleanup")
      BY <1>1, <2>4, LiveIs
    <3>2. ~Fresh /\ host.reference
      BY <1>7, <3>1 DEF AnchorInv
    <3>3. Failing => Failing'
      BY <1>2, <3>1, FailingKeeps
    <3>4. Captured("output", {"start"})' => Captured("output", {"start"})
      BY <1>7 DEF Captured, Works
    <3>5. ~Fresh' /\ (OneStart => OneStart')
      BY <1>2, <3>2, <3>3, <3>4, FreshKeeps
    <3>6. ~StopTaken' /\ ~Live({"start"})' /\ ~Live({"anchor"})'
      BY <1>4, <1>7, RestIs
    <3>7. OnceInv'
      BY <3>2, <3>5, <3>6, OnceIs, OnceWillBe
    <3>8. AnchorInv'
      BY <1>7, <2>2, <2>4, <3>2, <3>5, <3>6 DEF AnchorInv
    <3> QED
      BY <3>7, <3>8
  <2> QED
    BY <1>1, <2>3, <2>4
<1> QED
  BY <1>5, <1>6, <1>7, ProcessClockIs

\* The end of a run leaves nothing that could start or anchor one.
LEMMA Ending ==
    ASSUME PinInv, RunInv, FinishStop \/ Cleanup
    PROVE  OnceInv' /\ AnchorInv'
<1> USE DEF RunInv
<1>1. /\ Works /\ worker.pc \in {"finish", "cleanup"} /\ worker'.pc \in {"wait", "exit"}
      /\ UNCHANGED <<control, clock, flags>> /\ producer' = NoProducer
      /\ ~run'.accepted /\ host' = ReleaseOutput(host)
  BY FinishStopIs, CleanupIs DEF Idle, At
<1>2. /\ ~host'.reference /\ ~producer'.open /\ Drained'
  BY <1>1, HostIs, StillTyped, NewProducer, WorksIs DEF PinInv, DrainInv
<1>3. ~StopTaken' /\ ~Live({"start"})' /\ ~Live({"anchor"})'
  BY <1>1, RestIs
<1>4. UNCHANGED <<forced, unload_requested, cb>>
  BY <1>1 DEF flags, Works
<1>5. Fresh' /\ AnchorQueued' => Fresh /\ AnchorQueued
  BY <1>1, <1>4 DEF Fresh, StartQueued, AnchorQueued, Captured
<1>6. OnceInv'
  BY <1>2, OnceWillBe
<1>7. AnchorInv'
  BY <1>1, <1>2, <1>3, <1>4, <1>5 DEF AnchorInv, Drained
<1> QED
  BY <1>6, <1>7

LEMMA NextOnce ==
    ASSUME PinInv, RunInv, [Next]_vars
    PROVE  OnceInv' /\ AnchorInv'
<1> USE DEF RunInv
<1>1. ASSUME Calm
      PROVE  OnceInv' /\ AnchorInv'
  BY <1>1, CalmKeeps
<1>2. ASSUME Quiet
      PROVE  Calm
  <2>1. /\ SameWork /\ UNCHANGED <<control, clock, producer, unload_requested>>
        /\ host'.reference = host.reference
        /\ run'.accepted = run.accepted /\ (run'.accepting => run.accepting)
        /\ forced => forced'
    BY <1>2 DEF Quiet
  <2>2. /\ Captured("output", {"start"})' => Captured("output", {"start"})
        /\ cb'["video"].pc = "captured" => cb["video"].pc = "captured" \/ host.reference
    BY <1>2 DEF Quiet, Captured, Callers
  <2> QED
    BY <2>1, <2>2, CallbackIsCalm
<1>3. ASSUME NEW ev \in Events, Heard(ev)
      PROVE  Calm
  <2>1. /\ UNCHANGED <<worker, run, control, clock, producer, unload_requested, forced, host>>
        /\ Captured("output", {"start"})' => Captured("output", {"start"})
        /\ cb'["video"].pc = "captured" => cb["video"].pc = "captured"
    BY <1>3 DEF Heard, Captured, Callers
  <2>2. SameWork
    BY <2>1, WokenIsSame DEF Woken, PinInv
  <2> QED
    BY <2>1, <2>2, CallbackIsCalm
<1>4. ASSUME NEW ev \in Events, Refuses(ev) \/ Catches(ev)
      PROVE  OnceInv' /\ AnchorInv'
  <2>1. CASE ev = "start" /\ Catches(ev)
    BY <2>1, CatchingStart
  <2>2. CASE Refuses(ev) \/ ev # "start"
    <3>1. \E step : Enters(ev, step) /\ (step = "captured" => ev # "start")
      BY <1>4, <2>2 DEF Refuses, Catches
    <3>2. PICK step : Enters(ev, step) /\ (step = "captured" => ev # "start")
      BY <3>1
    <3>3. /\ Goes("output", step, ev) /\ UNCHANGED <<queues, unload_requested, producer, host>>
      BY <1>4, <3>2, OutputIs DEF Refuses, Catches
    <3>4. /\ Captured("output", {"start"})' => Captured("output", {"start"})
          /\ cb'["video"].pc = "captured" => cb["video"].pc = "captured"
      BY <3>2, <3>3 DEF Captured, Goes, Callers
    <3>5. /\ Woken /\ run'.accepted = run.accepted /\ (run'.accepting => run.accepting)
          /\ forced => forced'
      BY <1>4, <3>2, ForceKeeps DEF Refuses, Catches, Enters, PinInv
    <3>6. SameWork
      BY <3>5, WokenIsSame DEF PinInv
    <3>7. Calm
      BY <3>3, <3>4, <3>5, <3>6, CallbackIsCalm DEF queues
    <3> QED
      BY <1>1, <3>7
  <2> QED
    BY <1>4, <2>1, <2>2
<1>5. ASSUME AddsScene
      PROVE  Calm
  <2>1. /\ Settles("ui", "leaving") /\ UNCHANGED <<state, control, clock, run, forced>>
    BY <1>5 DEF AddsScene, Queued
  <2>2. /\ SameWork /\ UNCHANGED <<producer, unload_requested, host>>
        /\ Captured("output", {"start"})' => Captured("output", {"start"})
        /\ cb'["video"].pc = "captured" => cb["video"].pc = "captured"
    BY <2>1, WokenIsSame DEF Settles, PinInv, Captured, Goes, Callers
  <2> QED
    BY <2>1, <2>2, CallbackIsCalm
<1>6. CASE Load
  <2>1. /\ worker.pc = "off" /\ UNCHANGED <<cb, queues, flags, run, producer>>
        /\ worker'.pc \in {"wait", "done"}
        /\ UNCHANGED host \/ host' = InstallCallbacks(RetainModule(host))
    BY <1>6, StillTyped DEF Load, WorkerType
  <2>2. host'.reference = host.reference
    BY <2>1, StillTyped DEF InstallCallbacks, RetainModule, HostType
  <2>3. /\ ~StopTaken' /\ ~Live({"start"})' /\ ~Live({"anchor"})' /\ ~Heading("cleanup")
    BY <2>1, RestIs, WaitIs
  <2>4. Failing => Failing'
    BY <2>1, <2>3, FailingKeeps DEF flags
  <2>5. (Fresh' => Fresh) /\ (OneStart => OneStart')
    BY <2>1, <2>4, FreshKeeps DEF Captured, queues
  <2>6. Calm
    BY <2>1, <2>2, <2>3, <2>4, <2>5 DEF Calm, AnchorQueued, queues, flags
  <2> QED
    BY <1>1, <2>6
<1>7. CASE WorkerDropsAll
  <2>1. /\ Works /\ worker.pc = "wait" /\ control' = <<>> /\ clock' = NoCommand
        /\ worker'.pc = "drain" /\ run'.accepted = run.accepted /\ UNCHANGED producer
        /\ IF unload_requested
           THEN UNCHANGED <<state, run, host>>
           ELSE /\ worker'.then = "cleanup" /\ ~run'.accepting /\ host' = DisconnectSignals(host)
    BY <1>7, WorkerDropsAllIs
  <2>2. /\ ~StopTaken /\ ~Heading("cleanup") /\ ~Live({"start"})' /\ ~Live({"anchor"})'
        /\ StopTaken' => Heading("authorize")'
        /\ Heading("authorize")' <=> worker'.then = "authorize"
        /\ Heading("cleanup")' <=> worker'.then = "cleanup"
    BY <2>1, WaitIs DEF Live, StopTaken, Heading, Drains
  <2>3. ~StopTaken'
    BY <1>7, <2>1, <2>2, WorkerDropsAllIs
  <2>4. host'.reference = host.reference
    BY <2>1, HostIs, StillTyped
  <2>5. unload_requested \/ Heading("cleanup")'
    BY <2>1, <2>2
  <2>6. Calm
    BY <2>1, <2>2, <2>3, <2>4, <2>5, WorkIsCalm
  <2> QED
    BY <1>1, <2>6
<1>8. CASE Publish
  <2>1. Calm
    BY <1>8, PublishIs, RestIsCalm DEF Drains, queues, flags, Idle, At
  <2> QED
    BY <1>1, <2>1
<1>9. CASE ProcessScene \/ ProcessPause
  <2>1. /\ worker.pc = "process" /\ worker.cmd \in Commands /\ UNCHANGED <<queues, flags>>
        /\ worker.cmd.kind \in Pauses \cup {"scene"}
        /\ \/ UNCHANGED producer
           \/ producer.open /\ producer' = Written(worker.cmd.kind)
    BY <1>9, ProcessSceneIs, ProcessPauseIs
  <2>2. worker.cmd.kind \in Events \cup {"anchor"}
    BY <2>1 DEF Events, Pauses
  <2>3. /\ producer'.open = producer.open /\ (producer.started => producer'.started)
    BY <2>1, <2>2, WrittenIs, StillTyped
  <2>4. \/ Fails
        \/ /\ Works /\ UNCHANGED host /\ worker'.pc \in {"wait", "publish"}
           /\ (run'.accepted => run.accepted) /\ (run'.accepting => run.accepting)
    BY <1>9, ProcessSceneIs, ProcessPauseIs DEF Idle, At
  <2>5. worker.pc \notin Drains \cup {"cleanup"}
    BY <2>1 DEF Drains
  <2>6. UNCHANGED <<control, clock, forced>>
    BY <2>1 DEF queues, flags
  <2>7. CASE Fails
    <3>1. Calm
      BY <2>3, <2>6, <2>7, FailIsCalm
    <3> QED
      BY <1>1, <3>1
  <2>8. CASE /\ Works /\ UNCHANGED host /\ worker'.pc \in {"wait", "publish"}
             /\ (run'.accepted => run.accepted) /\ (run'.accepting => run.accepting)
    <3>1. Calm
      BY <2>3, <2>5, <2>6, <2>8, RestIsCalm
    <3> QED
      BY <1>1, <3>1
  <2> QED
    BY <2>4, <2>7, <2>8
<1>10. CASE ProcessStop
  <2>1. /\ worker.pc = "process" /\ worker.cmd.kind = "stop" /\ Works
        /\ UNCHANGED <<producer, queues, flags>>
        /\ worker'.pc = "drain" /\ ~run'.accepting /\ run'.accepted = run.accepted
        /\ host'.reference = host.reference
    BY <1>10, ProcessStopIs
  <2>2. StopTaken /\ ~Heading("cleanup") /\ ~Live({"start"})' /\ ~Live({"anchor"})'
    BY <2>1, LiveIs DEF Live
  <2>3. Calm
    BY <2>1, <2>2, WorkIsCalm DEF queues, flags
  <2> QED
    BY <1>1, <2>3
<1>11. CASE DrainPasses
  <2>1. /\ Works /\ UNCHANGED Draining /\ worker.pc = "drain" /\ worker'.pc = worker.then
        /\ worker'.then = worker.then
        /\ worker'.pc \in Drains \cup {"authorize", "cleanup", "release", "unload"}
    BY <1>11, DrainIs, StillTyped DEF DrainPasses, WorkerType
  <2>2. /\ ~Live({"start"})' /\ ~Live({"anchor"})' /\ (StopTaken' => StopTaken)
        /\ Heading("cleanup") => Heading("cleanup")'
    BY <2>1 DEF Live, StopTaken, Heading, Drains
  <2>3. Calm
    BY <2>1, <2>2, WorkIsCalm DEF Draining, queues, flags
  <2> QED
    BY <1>1, <2>3
<1>12. CASE Authorize
  <2>1. /\ worker.pc = "authorize" /\ worker.cmd \in Commands /\ UNCHANGED queues
    BY <1>12, AuthorizeIs
  <2>2. StopTaken /\ worker.pc \notin Drains \cup {"cleanup"}
    BY <2>1 DEF StopTaken, Heading, Drains
  <2>3. CASE Fails /\ UNCHANGED producer
    <3>1. Calm
      BY <2>1, <2>2, <2>3, FailIsCalm DEF queues
    <3> QED
      BY <1>1, <3>1
  <2>4. CASE /\ ~forced /\ Works /\ worker'.pc = "finish" /\ UNCHANGED <<state, run, host>>
             /\ UNCHANGED producer \/ producer' = Written("stop")
    <3>1. /\ producer'.open = producer.open /\ (producer.started => producer'.started)
      BY <2>1, <2>4, WrittenIs, StillTyped DEF Events
    <3>2. Calm
      BY <2>1, <2>2, <2>4, <3>1, RestIsCalm DEF queues
    <3> QED
      BY <1>1, <3>2
  <2> QED
    BY <1>12, <2>3, <2>4, AuthorizeIs
<1>13. CASE WorkerUnloads
  <2>1. /\ worker.pc = "unload" /\ Works /\ UNCHANGED <<producer, queues, flags>>
        /\ worker'.pc = "drain" /\ worker'.then \in {"cleanup", "release"}
        /\ host' = DisconnectSignals(host) /\ run'.accepted = run.accepted
        /\ run'.accepting => run.accepting
    BY <1>13, WorkerUnloadsIs
  <2>2. host'.reference = host.reference
    BY <2>1, HostIs, StillTyped
  <2>3. /\ ~Live({"start"})' /\ ~Live({"anchor"})' /\ ~StopTaken' /\ ~Heading("cleanup")
    BY <2>1 DEF Live, StopTaken, Heading, Drains
  <2>4. Calm
    BY <2>1, <2>2, <2>3, WorkIsCalm DEF queues, flags
  <2> QED
    BY <1>1, <2>4
<1>14. CASE WorkerReleases \/ WorkerExits
  <2>1. /\ worker.pc \in {"release", "exit"} /\ worker'.pc \in {"exit", "done"}
        /\ host' \in {ReleaseOutput(host), [host EXCEPT !.pinned = FALSE]}
        /\ UNCHANGED <<run, producer, faults, Processing>>
    BY <1>14, StillTyped DEF WorkerReleases, WorkerExits, WorkerType
  <2>2. ~host.reference
    BY <2>1 DEF PinInv, GoneInv, Heading
  <2>3. host'.reference <=> host.reference
    BY <2>1, <2>2, HostIs, StillTyped DEF HostType
  <2>4. /\ ~Live({"start"})' /\ ~Live({"anchor"})' /\ ~StopTaken' /\ ~Heading("cleanup")
    BY <2>1, RestIs DEF Heading, Drains
  <2>5. UNCHANGED <<control, clock, forced, unload_requested, cb>>
    BY <2>1 DEF Processing, queues, flags
  <2>6. Failing => Failing'
    BY <2>4, <2>5, FailingKeeps
  <2>7. (Fresh' => Fresh) /\ (OneStart => OneStart')
    BY <2>5, <2>6, FreshKeeps DEF Captured
  <2>8. Calm
    BY <2>1, <2>3, <2>4, <2>5, <2>6, <2>7 DEF Calm, AnchorQueued
  <2> QED
    BY <1>1, <2>8
<1>15. CASE RequestUnload \/ JoinWorker
  <2>1. /\ "ui" \in Callers /\ Woken
        /\ UNCHANGED <<queues, run, producer, host>> /\ (forced => forced')
        /\ unload_requested => unload_requested'
        /\ cb' = [cb EXCEPT !["ui"].pc = "waiting"] \/ cb' = [cb EXCEPT !["ui"].pc = "unloaded"]
    BY <1>15 DEF RequestUnload, JoinWorker, Woken, Callers, flags
  <2>2. /\ cb'["output"] = cb["output"] /\ cb'["video"] = cb["video"]
    BY <2>1, GoesOn DEF PinInv, CallbackSteps, Goes, Callers
  <2>3. SameWork
    BY <2>1, WokenIsSame DEF PinInv
  <2>4. /\ Live({"start"})' <=> Live({"start"})
        /\ Live({"anchor"})' <=> Live({"anchor"})
        /\ StopTaken' <=> StopTaken
        /\ Heading("cleanup")' <=> Heading("cleanup")
    BY <2>3, SameWorkKeeps
  <2>5. Failing => Failing'
    BY <2>1, <2>4, FailingKeeps
  <2>6. (Fresh' => Fresh) /\ (OneStart => OneStart')
    BY <2>1, <2>2, <2>5, FreshKeeps DEF Captured, queues
  <2>7. Calm
    BY <2>1, <2>2, <2>4, <2>5, <2>6 DEF Calm, AnchorQueued, queues
  <2> QED
    BY <1>1, <2>7
<1> QED
  BY <1>1, <1>2, <1>3, <1>4, <1>5, <1>6, <1>7, <1>8, <1>9, <1>10, <1>11, <1>12, <1>13, <1>14, <1>15,
     AddingIsCalm, Sampled, Bound, TakingOne, Starting, Anchoring, Ending, Steps

-----------------------------------------------------------------------------
(* The signals of a run that may succeed *)

Tracked == StopIsTaken \/ (\E q \in 1 .. Len(control) : StopIsQueued(q)) \/ StopIsAhead

\* A run that may still succeed could do so before, but for the moment the stop is captured.
LEMMA WasTracking ==
    ASSUME Tracking', host'.reference => host.reference, Failing => Failing' \/ Stale',
           Stale => Failing' \/ Stale', gate.closed => gate'.closed,
           gate.closed /\ StopComing' => StopComing
    PROVE  Tracking
BY DEF Tracking

LEMMA TracksWhen ==
    ASSUME TrackInv, Tracking' => Tracking, Tracking /\ Tracked /\ Tracking' => Tracked'
    PROVE  TrackInv'
BY DEF TrackInv, Tracked

\* Nothing that is followed changes.
Same ==
    /\ control' = control
    /\ producer'.controls = producer.controls
    /\ Live(Pauses)' <=> Live(Pauses)
    /\ Live(Pauses) => worker'.cmd = worker.cmd
    /\ obs'.sent = obs.sent

LEMMA SameIs ==
    ASSUME Same
    PROVE  /\ Taken' = Taken /\ Skipped' = Skipped
           /\ \A n : Follow(n)' <=> Follow(n)
           /\ (StartQueued' <=> StartQueued) /\ (StopQueued' <=> StopQueued)
           /\ StartIsFirst' <=> StartIsFirst
<1>1. Taken' = Taken /\ Skipped' = Skipped
  BY DEF Same, Taken, Skipped
<1>2. (StartQueued' <=> StartQueued) /\ (StopQueued' <=> StopQueued) /\ (StartIsFirst' <=> StartIsFirst)
  BY DEF Same, StartQueued, StopQueued, StartIsFirst
<1>3. ASSUME NEW n
      PROVE  Follow(n)' <=> Follow(n)
  BY <1>1 DEF Same, Follow
<1> QED
  BY <1>1, <1>2, <1>3

LEMMA OverKeeps ==
    ASSUME Over, ~obs'.ours, run'.accepting => run.accepting, state' = state,
           worker'.pc = "publish" => worker.pc = "publish",
           Captured("output", {"start"})' => Captured("output", {"start"}),
           recordings' <= 1 =>
               /\ recordings <= 1 /\ obs.phase = "off" => obs'.phase = "off"
               /\ recordings <= 1
               /\ cb'["output"].pc = "captured" => cb["output"].pc = "captured"
    PROVE  Over'
BY DEF Over

LEMMA TakenKeeps ==
    ASSUME StopIsTaken, Same, Over', StopTaken' \/ worker'.pc = "finish", clock' \in {clock, NoCommand},
           recordings' <= 1 => recordings <= 1
    PROVE  StopIsTaken'
<1>1. StartQueued' <=> StartQueued
  BY SameIs
<1> QED
  BY <1>1 DEF StopIsTaken, Same

LEMMA QueuedKeeps ==
    ASSUME NEW q \in 1 .. Len(control), StopIsQueued(q), Same, Over', ~StopTaken', worker'.pc # "finish",
           Live({"start"})' => Live({"start"}),
           StartQueued \/ Live({"start"})' =>
               ~producer'.open /\ state' = "stopping" /\ worker'.pc # "publish",
           clock' \in {clock, NoCommand}, recordings' <= 1 => recordings <= 1
    PROVE  StopIsQueued(q)' /\ q \in 1 .. Len(control')
<1>1. /\ Taken' = Taken /\ Skipped' = Skipped /\ (Follow(q - 1)' <=> Follow(q - 1))
      /\ (StartQueued' <=> StartQueued) /\ (StartIsFirst' <=> StartIsFirst)
  BY SameIs
<1> QED
  BY <1>1 DEF StopIsQueued, Same

LEMMA AheadKeeps ==
    ASSUME StopIsAhead, Same, ~StopTaken', worker'.pc # "finish", host'.connected,
           state' \in {"start_pending", "active", "paused"},
           Captured("output", {"start"})' <=> Captured("output", {"start"}),
           Captured("output", {"stop"})' <=> Captured("output", {"stop"}),
           Captured("output", Pauses)' <=> Captured("output", Pauses),
           Captured("output", Pauses) => cb'["output"].ev = cb["output"].ev,
           Live({"start"})' => Live({"start"}),
           producer'.open /\ ~producer.open => ~StartQueued /\ ~Captured("output", {"start"}),
           Live({"start"})' => ~producer'.open /\ worker'.pc # "publish",
           worker'.pc = "publish" /\ worker.pc # "publish" =>
               ~StartQueued /\ ~Captured("output", {"start"}),
           Captured("output", {"stop"}) => ~obs'.ours /\ (recordings' <= 1 => recordings <= 1 /\ obs'.phase = obs.phase),
           ~Captured("output", {"stop"}) => obs'.ours = obs.ours
    PROVE  StopIsAhead'
<1>1. /\ Taken' = Taken /\ Skipped' = Skipped /\ control' = control /\ obs'.sent = obs.sent
      /\ (Follow(Len(control))' <=> Follow(Len(control)))
      /\ (StartQueued' <=> StartQueued) /\ (StopQueued' <=> StopQueued) /\ (StartIsFirst' <=> StartIsFirst)
  <2>1. Follow(Len(control))' <=> Follow(Len(control))
    BY SameIs DEF Same, Follow
  <2> QED
    BY <2>1, SameIs DEF Same
<1> QED
  BY <1>1 DEF StopIsAhead
\* A callback leaves the run failing that fails, and stale what is stale.
LEMMA CallbackWas ==
    ASSUME SameWork, UNCHANGED <<control, unload_requested>>, producer'.open = producer.open,
           host'.reference => host.reference, forced => forced', gate.closed => gate'.closed,
           gate.closed /\ Captured("output", {"stop"})' => Captured("output", {"stop"})
    PROVE  Tracking' => Tracking
<1>1. /\ \A kinds : Live(kinds)' <=> Live(kinds)
      /\ StopTaken' <=> StopTaken
      /\ Heading("cleanup")' <=> Heading("cleanup")
      /\ worker'.pc = "finish" <=> worker.pc = "finish"
  BY SameWorkKeeps
<1>2. Failing => Failing'
  BY <1>1 DEF Failing
<1>3. (Live({"start"})' <=> Live({"start"})) /\ (Live(Pauses)' <=> Live(Pauses))
  BY <1>1 DEF Pauses
<1>4. Stale => Stale'
  BY <1>1, <1>3 DEF Stale
<1>5. gate.closed /\ StopComing' => StopComing
  BY <1>1 DEF StopComing, StopQueued
<1> QED
  BY <1>2, <1>4, <1>5, WasTracking

LEMMA WorkIsSame ==
    ASSUME SameWork, control' = control, producer'.controls = producer.controls, obs'.sent = obs.sent
    PROVE  /\ Same
           /\ Live({"start"})' <=> Live({"start"})
           /\ StopTaken' <=> StopTaken
           /\ worker'.pc = "finish" <=> worker.pc = "finish"
           /\ worker'.pc = "publish" <=> worker.pc = "publish"
<1>1. Live(Pauses)' <=> Live(Pauses)
  BY SameWorkKeeps DEF Pauses
<1>2. worker'.cmd = worker.cmd
  BY DEF SameWork
<1> QED
  BY <1>1, <1>2, SameWorkKeeps DEF Same

\* What is followed goes on, when the stop that is on its way stays so.
LEMMA CallbackTracks ==
    ASSUME SameWork, UNCHANGED <<state, control, clock>>, producer'.open = producer.open,
           producer'.controls = producer.controls, obs'.sent = obs.sent,
           host'.connected = host.connected, recordings' <= 1 => recordings <= 1,
           Tracked, Over => Over',
           StopIsAhead =>
               /\ Captured("output", {"start"})' <=> Captured("output", {"start"})
               /\ Captured("output", {"stop"})' <=> Captured("output", {"stop"})
               /\ Captured("output", Pauses)' <=> Captured("output", Pauses)
               /\ Captured("output", Pauses) => cb'["output"].ev = cb["output"].ev
               /\ Captured("output", {"stop"}) =>
                    ~obs'.ours /\ (recordings' <= 1 => recordings <= 1 /\ obs'.phase = obs.phase)
               /\ ~Captured("output", {"stop"}) => obs'.ours = obs.ours
    PROVE  Tracked'
<1>1. /\ Same
      /\ Live({"start"})' <=> Live({"start"})
      /\ StopTaken' <=> StopTaken
      /\ worker'.pc = "finish" <=> worker.pc = "finish"
      /\ worker'.pc = "publish" <=> worker.pc = "publish"
  BY WorkIsSame
<1>2. CASE StopIsTaken
  <2>1. StopIsTaken'
    BY <1>1, <1>2, TakenKeeps DEF StopIsTaken
  <2> QED
    BY <2>1 DEF Tracked
<1>3. ASSUME NEW q \in 1 .. Len(control), StopIsQueued(q)
      PROVE  Tracked'
  <2>1. StopIsQueued(q)' /\ q \in 1 .. Len(control')
    BY <1>1, <1>3, QueuedKeeps DEF StopIsQueued
  <2> QED
    BY <2>1 DEF Tracked
<1>4. CASE StopIsAhead
  <2>1. /\ ~StopTaken' /\ worker'.pc # "finish" /\ host'.connected
        /\ state' \in {"start_pending", "active", "paused"}
        /\ Live({"start"})' => ~producer'.open /\ worker'.pc # "publish"
    BY <1>1, <1>4 DEF StopIsAhead
  <2>2. StopIsAhead'
    BY <1>1, <1>4, <2>1, AheadKeeps
  <2> QED
    BY <2>2 DEF Tracked
<1> QED
  BY <1>2, <1>3, <1>4 DEF Tracked

LEMMA QuietTracks ==
    ASSUME PinInv, RunInv, Quiet
    PROVE  TrackInv'
<1> USE DEF RunInv
<1>1. /\ SameWork /\ UNCHANGED <<state, control, clock, producer, unload_requested, obs, recordings>>
      /\ host'.reference = host.reference /\ host'.connected = host.connected
      /\ gate.closed => gate'.closed
      /\ run'.accepting => run.accepting
      /\ forced => forced'
  BY DEF Quiet
<1>2. /\ cb'["output"].pc = "captured" => cb["output"].pc = "captured" /\ cb'["output"].ev = cb["output"].ev
      /\ cb["output"].pc = "captured" =>
           \/ cb'["output"].pc = "captured" /\ cb'["output"].ev = cb["output"].ev
           \/ forced'
           \/ cb["output"].ev # "start" /\ state \in Ended
  BY DEF Quiet, Callers
<1>3. Tracking' => Tracking
  BY <1>1, <1>2, CallbackWas DEF Captured
<1>4. Over => Over'
  <2>1. Captured("output", {"start"})' => Captured("output", {"start"})
    BY <1>2 DEF Captured
  <2>2. worker'.pc = "publish" => worker.pc = "publish"
    BY <1>1, SameWorkKeeps
  <2>3. Over => ~obs'.ours
    BY <1>1 DEF Over
  <2> QED
    BY <1>1, <1>2, <2>1, <2>2, <2>3, OverKeeps
<1>5. StopIsAhead /\ Tracking' =>
        /\ Captured("output", {"start"})' <=> Captured("output", {"start"})
        /\ Captured("output", {"stop"})' <=> Captured("output", {"stop"})
        /\ Captured("output", Pauses)' <=> Captured("output", Pauses)
        /\ Captured("output", Pauses) => cb'["output"].ev = cb["output"].ev
        /\ Captured("output", {"stop"}) => ~obs'.ours
  <2>1. StopIsAhead => state \notin Ended /\ (Captured("output", {"stop"}) => ~obs'.ours)
    BY <1>1 DEF StopIsAhead, Ended
  <2>2. Tracking' => ~forced'
    BY DEF Tracking, Failing
  <2> QED
    BY <1>2, <2>1, <2>2 DEF Captured
<1>6. Tracking /\ Tracked /\ Tracking' => Tracked'
  BY <1>1, <1>4, <1>5, CallbackTracks
<1> QED
  BY <1>3, <1>6, TracksWhen

\* A signal that nobody takes up is one of another recording.
LEMMA HeardTracks ==
    ASSUME PinInv, RunInv, NEW ev \in Events, Heard(ev)
    PROVE  TrackInv'
<1> USE DEF RunInv
<1>1. /\ Signal(ev) /\ ~Binds(ev)
      /\ UNCHANGED <<state, control, clock, producer, host, run, forced, unload_requested, worker>>
      /\ gate'.closed = gate.closed
  BY DEF Heard
<1>2. SameWork
  BY <1>1, WokenIsSame DEF Woken, PinInv
<1>3. /\ cb'["output"].pc = "captured" <=> cb["output"].pc = "captured"
      /\ cb["output"].pc = "captured" => cb'["output"].ev = cb["output"].ev
      /\ Thread(ev) = "output" => cb["output"].pc = "out"
  BY <1>1 DEF Heard, Callers, Signal
<1>4. /\ Captured("output", {"start"})' <=> Captured("output", {"start"})
      /\ Captured("output", {"stop"})' <=> Captured("output", {"stop"})
      /\ Captured("output", Pauses)' <=> Captured("output", Pauses)
  BY <1>3 DEF Captured
<1>5. Tracking' => Tracking
  BY <1>1, <1>2, <1>4, CallbackWas
<1>6. /\ recordings \in Nat /\ recordings' \in Nat /\ recordings <= recordings'
      /\ ev = "recording_starting" => obs.phase = "off" /\ recordings' = recordings + 1
      /\ ev # "recording_starting" => recordings' = recordings
      /\ ev \in {"tick", "scene"} => obs'.phase = obs.phase
      /\ Thread(ev) = "output" => obs.phase # "off" /\ ev \in {"start", "stop"} \cup Pauses
      /\ ev \notin {"recording_starting", "stop"} => obs'.ours = obs.ours
      /\ obs'.ours => obs.ours
      /\ ~obs.ours \/ ev \notin Pauses => obs'.sent = obs.sent
  BY <1>1, PhaseIs
<1>7. ev = "recording_starting" \/ ev \in {"tick", "scene"} \/ Thread(ev) = "output"
  BY DEF Events, Thread
<1>8. "tick" \notin Pauses /\ "scene" \notin Pauses /\ "start" \notin Pauses /\ "recording_starting" \notin Pauses
  BY DEF Pauses
<1>9. host.reference => recordings >= 1
  BY DEF SignalInv
<1>10. host.reference /\ Over => Over' /\ obs'.sent = obs.sent
  <2>1. ASSUME Over, host.reference, recordings' <= 1
        PROVE  recordings <= 1 /\ (obs.phase = "off" => obs'.phase = "off")
    <3>1. ev # "recording_starting"
      BY <1>6, <1>9, <2>1
    <3>2. Thread(ev) # "output"
      BY <1>6, <2>1 DEF Over
    <3> QED
      BY <1>6, <1>7, <2>1, <3>1, <3>2
  <2>2. Over => ~obs.ours /\ ~obs'.ours
    BY <1>6 DEF Over
  <2>3. Over /\ host.reference => Over'
    BY <1>1, <1>3, <1>4, <2>1, <2>2, OverKeeps
  <2> QED
    BY <1>6, <2>2, <2>3
<1>11. ASSUME StopIsAhead, Tracking
       PROVE  /\ obs'.sent = obs.sent
              /\ Captured("output", {"stop"}) =>
                    ~obs'.ours /\ (recordings' <= 1 => recordings <= 1 /\ obs'.phase = obs.phase)
              /\ ~Captured("output", {"stop"}) => obs'.ours = obs.ours
  <2>1. host.reference /\ host.connected /\ state \in {"start_pending", "active", "paused"}
    BY <1>11 DEF StopIsAhead, Tracking
  <2>2. CASE ev = "recording_starting"
    <3>1. ~obs.ours
      BY <1>6, <2>2 DEF SignalInv
    <3>2. Captured("output", {"stop"})
      BY <1>11, <3>1 DEF StopIsAhead
    <3> QED
      BY <1>6, <1>8, <1>9, <2>1, <2>2, <3>1, <3>2
  <2>3. CASE ev \in {"tick", "scene"}
    BY <1>6, <1>8, <1>11, <2>3 DEF StopIsAhead
  <2>4. CASE Thread(ev) = "output"
    <3>1. ~Captured("output", {"stop"})
      BY <1>3, <2>4 DEF Captured
    <3>2. ~gate.closed
      BY <1>11, <3>1 DEF Tracking, StopComing, StopIsAhead
    <3>3. ev = "start"
      BY <2>1, <2>4, <3>2 DEF Heard, Ended
    <3> QED
      BY <1>6, <1>8, <3>1, <3>3
  <2> QED
    BY <1>7, <2>2, <2>3, <2>4
<1>12. Tracking => host.reference
  BY DEF Tracking
<1>13. Tracking /\ Tracked => obs'.sent = obs.sent
  BY <1>10, <1>11, <1>12 DEF Tracked, StopIsTaken, StopIsQueued
<1>14. ASSUME Tracking, Tracked
       PROVE  Tracked'
  <2>1. recordings' <= 1 => recordings <= 1
    BY <1>6
  <2>2. Over => Over'
    BY <1>10, <1>12, <1>14
  <2>3. producer'.open = producer.open /\ producer'.controls = producer.controls /\ host'.connected = host.connected
    BY <1>1
  <2> QED
    BY <1>1, <1>2, <1>3, <1>4, <1>11, <1>13, <1>14, <2>1, <2>2, <2>3, CallbackTracks DEF Captured
<1> QED
  BY <1>5, <1>14, TracksWhen

LEMMA Counts ==
    ASSUME PinInv
    PROVE  /\ Len(producer.controls) \in Nat /\ producer.controls \in Seq(Pauses)
           /\ Len(obs.sent) \in Nat /\ obs.sent \in Seq(Pauses)
           /\ Len(control) \in Nat /\ control \in Seq(Commands) /\ (control = <<>> <=> Len(control) = 0)
           /\ Live(Pauses) => Taken = Len(producer.controls) + 1
           /\ ~Live(Pauses) => Taken = Len(producer.controls)
           /\ Taken \in Nat /\ Len(producer.controls) <= Taken
           /\ Skipped \in {0, 1} /\ Skipped <= Len(control)
           /\ Skipped = 1 <=> (control # <<>> /\ control[1].kind = "start")
<1>1. /\ producer.controls \in Seq(Pauses) /\ obs.sent \in Seq(Pauses) /\ control \in Seq(Commands)
  BY QueuesKeep DEF PinInv, TypeOK, Producers, QueuesType
<1>2. /\ Len(producer.controls) \in Nat /\ Len(obs.sent) \in Nat
      /\ Len(control) \in Nat /\ (control = <<>> <=> Len(control) = 0)
  BY <1>1, Empty
<1>3. /\ Live(Pauses) => Taken = Len(producer.controls) + 1
      /\ ~Live(Pauses) => Taken = Len(producer.controls) + 0
  BY DEF Taken
<1>4. Taken \in Nat /\ Len(producer.controls) <= Taken /\ (~Live(Pauses) => Taken = Len(producer.controls))
  <2>1. CASE Live(Pauses)
    BY <1>2, <1>3, <2>1
  <2>2. CASE ~Live(Pauses)
    BY <1>2, <1>3, <2>2
  <2> QED
    BY <2>1, <2>2
<1>5. /\ Skipped \in {0, 1} /\ (Skipped = 1 <=> (control # <<>> /\ control[1].kind = "start"))
  BY DEF Skipped
<1>6. Skipped <= Len(control)
  BY <1>2, <1>5
<1> QED
  BY <1>1, <1>2, <1>3, <1>4, <1>5, <1>6

\* What is followed, is followed when a signal is appended.
LEMMA FollowGrows ==
    ASSUME PinInv, control' = control, producer'.controls = producer.controls,
           Live(Pauses)' <=> Live(Pauses), Live(Pauses) => worker'.cmd = worker.cmd,
           Follow(Len(control)), NEW ev \in Pauses, obs'.sent = Append(obs.sent, ev)
    PROVE  /\ Follow(Len(control))' /\ Taken' = Taken /\ Skipped' = Skipped
           /\ Len(obs'.sent) = Len(obs.sent) + 1 /\ obs'.sent[Len(obs'.sent)] = ev
<1>1. Taken' = Taken /\ Skipped' = Skipped
  BY DEF Taken, Skipped
<1>2. /\ Len(obs'.sent) = Len(obs.sent) + 1 /\ obs'.sent[Len(obs'.sent)] = ev
      /\ \A i \in 1 .. Len(obs.sent) : obs'.sent[i] = obs.sent[i]
  BY Counts, Appended
<1>3. /\ Taken + Len(control) - Skipped <= Len(obs.sent)
      /\ \A i \in 1 .. Len(producer.controls) : producer.controls[i] = obs.sent[i]
      /\ Live(Pauses) => worker.cmd.kind = obs.sent[Taken]
      /\ \A i \in 1 + Skipped .. Len(control) : control[i].kind = obs.sent[Taken + i - Skipped]
  BY DEF Follow
<1>4. Taken + Len(control) - Skipped <= Len(obs'.sent)
  BY <1>2, <1>3, Counts
<1>5. \A i \in 1 .. Len(producer.controls) : producer.controls[i] = obs'.sent[i]
  <2> SUFFICES ASSUME NEW i \in 1 .. Len(producer.controls)
               PROVE  producer.controls[i] = obs'.sent[i]
    OBVIOUS
  <2>1. i \in 1 .. Len(obs.sent)
    BY <1>3, Counts, SMTT(30)
  <2> QED
    BY <1>2, <1>3, <2>1
<1>6. Live(Pauses) => worker.cmd.kind = obs'.sent[Taken]
  <2>1. Live(Pauses) => Taken \in 1 .. Len(obs.sent)
    BY <1>3, Counts, SMTT(30)
  <2> QED
    BY <1>2, <1>3, <2>1
<1>7. \A i \in 1 + Skipped .. Len(control) : control[i].kind = obs'.sent[Taken + i - Skipped]
  <2> SUFFICES ASSUME NEW i \in 1 + Skipped .. Len(control)
               PROVE  control[i].kind = obs'.sent[Taken + i - Skipped]
    OBVIOUS
  <2>1. Taken + i - Skipped \in 1 .. Len(obs.sent)
    BY <1>3, Counts, SMTT(30)
  <2> QED
    BY <1>2, <1>3, <2>1
<1> QED
  BY <1>1, <1>2, <1>4, <1>5, <1>6, <1>7 DEF Follow
LEMMA RefusesTracks ==
    ASSUME PinInv, NEW ev \in Events, Refuses(ev)
    PROVE  TrackInv'
<1>1. forced'
  BY ForceKeeps DEF Refuses, PinInv
<1> QED
  BY <1>1 DEF TrackInv, Tracking, Failing

\* What the output signals is followed when it is captured.
LEMMA CatchesTracks ==
    ASSUME PinInv, RunInv, NEW ev \in Events, Catches(ev)
    PROVE  TrackInv'
<1> USE DEF RunInv
<1>1. /\ ev \in {"start", "stop"} \cup Pauses
      /\ Enters(ev, "captured") /\ UNCHANGED <<run, forced, worker>>
      /\ ev = "start" => state = "start_pending"
      /\ ev \in Pauses => state \notin Ended
  BY DEF Catches
<1>2. /\ Signal(ev) /\ Thread(ev) = "output" /\ ~Binds(ev)
      /\ host.connected /\ ~gate.closed /\ ~gate'.closed /\ cb["output"].pc = "out"
      /\ Goes("output", "captured", ev)
      /\ UNCHANGED <<state, queues, unload_requested, producer, host>>
  BY <1>1, OutputIs
<1>3. /\ UNCHANGED <<control, clock>> /\ cb'["output"].pc = "captured" /\ cb'["output"].ev = ev
      /\ SameWork
  BY <1>1, <1>2, WokenIsSame DEF queues, Goes, Enters, PinInv
<1>4. Tracking' => Tracking
  BY <1>1, <1>2, <1>3, CallbackWas
<1>5. /\ recordings' = recordings /\ recordings \in Nat /\ obs.phase # "off"
      /\ ev = "start" => obs.phase = "starting"
      /\ ev # "stop" => obs'.ours = obs.ours
      /\ obs'.ours => obs.ours
      /\ ~obs.ours \/ ev \notin Pauses => obs'.sent = obs.sent
  BY <1>1, <1>2, PhaseIs DEF Pauses
<1>6. /\ obs'.sent = CASE Binds(ev) -> <<>>
                        [] ev \in Pauses /\ obs.ours -> Append(obs.sent, ev)
                        [] OTHER -> obs.sent
      /\ obs'.ours <=> IF ev = "recording_starting" THEN Binds(ev) ELSE obs.ours /\ ev # "stop"
      /\ obs'.phase = PhaseAfter(ev)
  BY <1>2, SignalIs DEF PinInv
<1>7. "start" \notin Pauses /\ "stop" \notin Pauses
  BY DEF Pauses
<1>8. ~Captured("output", {"start"}) /\ ~Captured("output", {"stop"}) /\ ~Captured("output", Pauses)
  BY <1>2 DEF Captured
<1>9. Over => Over' /\ obs'.sent = obs.sent
  <2>1. Over => ~obs.ours /\ recordings > 1 /\ ev # "start"
    BY <1>1, <1>5 DEF Over
  <2>2. Over => ~Captured("output", {"start"})'
    BY <1>3, <2>1 DEF Captured
  <2>3. Over => Over'
    BY <1>1, <1>2, <1>5, <2>1, <2>2 DEF Over
  <2> QED
    BY <1>5, <2>1, <2>3
<1>10. CASE StopIsTaken \/ \E q \in 1 .. Len(control) : StopIsQueued(q)
  <2>1. Over /\ ~StopIsAhead
    BY <1>10 DEF StopIsTaken, StopIsQueued, StopIsAhead, StopQueued
  <2>2. Tracked
    BY <1>10 DEF Tracked
  <2>3. Tracked'
    BY <1>1, <1>2, <1>3, <1>5, <1>9, <2>1, <2>2, CallbackTracks
  <2> QED
    BY <1>4, <2>3, TracksWhen
<1>11. ASSUME StopIsAhead, Tracking, Tracking'
       PROVE  StopIsAhead'
  <2>1. obs.ours
    BY <1>8, <1>11 DEF StopIsAhead
  <2>2. CASE ev \in Pauses
    <3>1. obs'.sent = Append(obs.sent, ev)
      BY <1>2, <1>6, <2>1, <2>2
    <3>2. /\ Follow(Len(control))' /\ Taken' = Taken /\ Skipped' = Skipped
          /\ Len(obs'.sent) = Len(obs.sent) + 1 /\ obs'.sent[Len(obs'.sent)] = ev
      BY <1>1, <1>2, <1>3, <1>11, <2>2, <3>1, FollowGrows DEF StopIsAhead, Live
    <3>3. /\ StopQueued' = StopQueued /\ StartIsFirst' = StartIsFirst /\ StartQueued' = StartQueued
          /\ (StopTaken' <=> StopTaken) /\ (Live({"start"})' <=> Live({"start"}))
      BY <1>1, <1>3 DEF StopQueued, StartIsFirst, StartQueued, StopTaken, Live, Heading
    <3>4. Captured("output", Pauses)' /\ ~Captured("output", {"start"})' /\ ~Captured("output", {"stop"})'
      BY <1>3, <1>7, <2>2 DEF Captured
    <3>5. Len(obs.sent) = Taken + Len(control) - Skipped + 0
      BY <1>8, <1>11 DEF StopIsAhead
    <3>6. Len(obs'.sent) = Taken' + Len(control') - Skipped' + 1
      BY <1>3, <3>2, <3>5, Counts
    <3>7. obs'.ours
      BY <1>5, <1>7, <2>1, <2>2
    <3> QED
      BY <1>1, <1>2, <1>3, <1>11, <3>2, <3>3, <3>4, <3>6, <3>7 DEF StopIsAhead
  <2>3. CASE ev = "stop"
    <3>1. obs'.sent = obs.sent /\ ~obs'.ours /\ obs'.phase = "off"
      BY <1>2, <1>5, <1>6, <1>7, <2>3 DEF PhaseAfter
    <3>2. Same /\ (StopTaken' <=> StopTaken) /\ (Live({"start"})' <=> Live({"start"}))
      BY <1>1, <1>2, <1>3, <3>1, WorkIsSame
    <3>3. /\ Taken' = Taken /\ Skipped' = Skipped /\ (Follow(Len(control))' <=> Follow(Len(control)))
          /\ (StartQueued' <=> StartQueued) /\ (StopQueued' <=> StopQueued) /\ (StartIsFirst' <=> StartIsFirst)
      BY <1>3, <3>2, SameIs DEF Same, Follow
    <3>4. ~Captured("output", Pauses)' /\ ~Captured("output", {"start"})' /\ Captured("output", {"stop"})'
      BY <1>3, <1>7, <2>3 DEF Captured
    <3> QED
      BY <1>1, <1>2, <1>3, <1>8, <1>11, <3>1, <3>2, <3>3, <3>4 DEF StopIsAhead
  <2>4. CASE ev = "start"
    <3>1. obs'.sent = obs.sent /\ obs'.ours
      BY <1>5, <1>7, <2>1, <2>4
    <3>2. Same /\ (StopTaken' <=> StopTaken) /\ (Live({"start"})' <=> Live({"start"}))
      BY <1>1, <1>2, <1>3, <3>1, WorkIsSame
    <3>3. /\ Taken' = Taken /\ Skipped' = Skipped /\ (Follow(Len(control))' <=> Follow(Len(control)))
          /\ (StartQueued' <=> StartQueued) /\ (StopQueued' <=> StopQueued) /\ (StartIsFirst' <=> StartIsFirst)
      BY <1>3, <3>2, SameIs DEF Same, Follow
    <3>4. ~Captured("output", Pauses)' /\ ~Captured("output", {"stop"})'
      BY <1>3, <1>7, <2>4 DEF Captured
    <3>5. ~forced
      BY <1>11 DEF Tracking, Failing
    <3>6. ~StartQueued /\ ~Live({"start"}) /\ worker.pc # "publish" /\ ~producer.open
      BY <1>1, <1>2, <1>5, <1>8, <2>4, <3>5 DEF PendingInv, Fresh
    <3>7. control = <<>>
      <4>1. control # <<>> => control[1].kind = "start"
        BY <1>11, <3>6 DEF Tracking, Stale
      <4>2. control # <<>> => 1 \in 1 .. Len(control)
        BY Counts
      <4> QED
        BY <3>6, <4>1, <4>2 DEF StartQueued
    <3> QED
      BY <1>1, <1>2, <1>3, <1>8, <1>11, <3>1, <3>2, <3>3, <3>4, <3>6, <3>7 DEF StopIsAhead
  <2> QED
    BY <1>1, <2>2, <2>3, <2>4
<1>12. Tracking /\ StopIsAhead /\ Tracking' => Tracked'
  BY <1>11 DEF Tracked
<1> QED
  BY <1>4, <1>10, <1>12, TracksWhen DEF Tracked

\* What was queued stays followed behind a queue that got longer.
LEMMA AddedFollows ==
    ASSUME PinInv, NEW kind \in {"start", "stop"} \cup Pauses, Adds(kind)
    PROVE  /\ Taken' = Taken
           /\ control # <<>> => Skipped' = Skipped
           /\ control = <<>> => Skipped = 0 /\ (Skipped' = 1 <=> kind = "start") /\ Skipped' \in {0, 1}
           /\ \A n \in 0 .. Len(control) : Skipped' = Skipped /\ Follow(n) => Follow(n)'
           /\ (Live(Pauses)' <=> Live(Pauses)) /\ worker'.cmd = worker.cmd
           /\ (StopTaken' <=> StopTaken) /\ (Live({"start"})' <=> Live({"start"}))
           /\ worker'.pc = "finish" <=> worker.pc = "finish"
           /\ worker'.pc = "publish" <=> worker.pc = "publish"
           /\ StartQueued' <=> StartQueued \/ kind = "start"
           /\ StopQueued' <=> StopQueued \/ kind = "stop"
           /\ StartIsFirst /\ (kind # "start" \/ control = <<>>) => StartIsFirst'
<1>1. /\ SameWork /\ UNCHANGED <<producer, obs>> /\ Len(control') = Len(control) + 1 /\ Len(control) \in Nat
      /\ \A i \in 1 .. Len(control) : control'[i] = control[i]
      /\ control'[Len(control) + 1].kind = kind
  BY AddedIs
<1>2. /\ Live(Pauses)' <=> Live(Pauses)
      /\ (StopTaken' <=> StopTaken) /\ (Live({"start"})' <=> Live({"start"}))
      /\ worker'.pc = "finish" <=> worker.pc = "finish"
      /\ worker'.pc = "publish" <=> worker.pc = "publish"
      /\ worker'.cmd = worker.cmd
  BY <1>1, SameWorkKeeps DEF SameWork, Pauses
<1>3. Taken' = Taken
  BY <1>1, <1>2 DEF Taken
<1>4. control = <<>> <=> Len(control) = 0
  BY Counts
<1>5. control' # <<>> /\ control'[1].kind = (IF control = <<>> THEN kind ELSE control[1].kind)
  <2>1. control' # <<>>
    BY <1>1
  <2> QED
    BY <1>1, <1>4, <2>1
<1>6. control # <<>> => Skipped' = Skipped
  BY <1>5 DEF Skipped
<1>7. control = <<>> => Skipped = 0 /\ (Skipped' = 1 <=> kind = "start") /\ Skipped' \in {0, 1}
  BY <1>5 DEF Skipped
<1>8. ASSUME NEW n \in 0 .. Len(control), Skipped' = Skipped, Follow(n)
      PROVE  Follow(n)'
  <2>1. \A i \in 1 + Skipped .. n : i \in 1 .. Len(control)
    BY <1>1 DEF Skipped
  <2> QED
    BY <1>1, <1>2, <1>3, <1>8, <2>1 DEF Follow
<1>9. \A i : i \in 1 .. Len(control') <=> i \in 1 .. Len(control) \/ i = Len(control) + 1
  BY <1>1
<1>10. /\ StartQueued' <=> StartQueued \/ kind = "start"
       /\ StopQueued' <=> StopQueued \/ kind = "stop"
  BY <1>1, <1>9 DEF StartQueued, StopQueued
<1>11. StartIsFirst /\ (kind # "start" \/ control = <<>>) => StartIsFirst'
  BY <1>1, <1>4, <1>9 DEF StartIsFirst
<1> QED
  BY <1>2, <1>3, <1>6, <1>7, <1>8, <1>10, <1>11

\* What the thread of the output captured is queued where it is expected.
LEMMA AddsTracks ==
    ASSUME PinInv, OrderInv, RunInv, NEW kind \in {"start", "stop"} \cup Pauses, Adds(kind)
    PROVE  TrackInv'
<1> USE DEF RunInv
<1>1. /\ cb["output"].pc = "captured" /\ cb["output"].ev = kind
      /\ ~Captured("output", {"start"})' /\ ~Captured("output", {"stop"})' /\ ~Captured("output", Pauses)'
      /\ cb'["output"].pc = "leaving"
      /\ UNCHANGED <<clock, forced, unload_requested, producer, host, gate, obs, recordings>>
      /\ SameWork /\ (run'.accepting => run.accepting)
      /\ Len(control') = Len(control) + 1 /\ Len(control) \in Nat
      /\ \A i \in 1 .. Len(control) : control'[i] = control[i]
      /\ control'[Len(control) + 1].kind = kind
      /\ control'[Len(control) + 1].order = next_order
  BY AddedIs
<1>2. /\ kind = "start" => UNCHANGED <<state, run>>
      /\ kind = "stop" => state \notin Ended /\ state' = "stopping" /\ ~run'.accepting
      /\ kind \in Pauses => /\ state \notin Ended /\ state' \in {"paused", state}
                            /\ run.accepted /\ run'.accepting = run.accepting
  BY DEF Adds
<1>3. /\ Taken' = Taken
      /\ control # <<>> => Skipped' = Skipped
      /\ control = <<>> => Skipped = 0 /\ (Skipped' = 1 <=> kind = "start") /\ Skipped' \in {0, 1}
      /\ \A n \in 0 .. Len(control) : Skipped' = Skipped /\ Follow(n) => Follow(n)'
      /\ (Live(Pauses)' <=> Live(Pauses)) /\ worker'.cmd = worker.cmd
      /\ (StopTaken' <=> StopTaken) /\ (Live({"start"})' <=> Live({"start"}))
      /\ worker'.pc = "finish" <=> worker.pc = "finish"
      /\ worker'.pc = "publish" <=> worker.pc = "publish"
      /\ StartQueued' <=> StartQueued \/ kind = "start"
      /\ StopQueued' <=> StopQueued \/ kind = "stop"
      /\ StartIsFirst /\ (kind # "start" \/ control = <<>>) => StartIsFirst'
  BY AddedFollows
<1>4. "start" \notin Pauses /\ "stop" \notin Pauses
  BY DEF Pauses
<1>5. /\ Captured("output", {"start"}) <=> kind = "start"
      /\ Captured("output", {"stop"}) <=> kind = "stop"
      /\ Captured("output", Pauses) <=> kind \in Pauses
  BY <1>1 DEF Captured
<1>6. kind # "start" => Skipped' = Skipped
  BY <1>3 DEF Skipped
<1>7. Tracking' => Tracking
  <2>1. Failing => Failing'
    <3>1. SameWork
      BY <1>1
    <3>2. Heading("cleanup")' <=> Heading("cleanup")
      BY <3>1, SameWorkKeeps
    <3> QED
      BY <1>1, <3>2 DEF Failing
  <2>2. Stale => Stale'
    <3>1. control # <<>> => control' # <<>> /\ control'[1] = control[1]
      <4>1. control # <<>> => Len(control) # 0
        BY Counts
      <4>2. Len(control') # 0
        BY <1>1
      <4> QED
        BY <1>1, <4>1, <4>2
    <3> QED
      BY <1>1, <1>3, <3>1 DEF Stale
  <2>3. gate.closed /\ StopComing' => StopComing
    BY <1>1, <1>3, <1>5 DEF StopComing
  <2> QED
    BY <1>1, <2>1, <2>2, <2>3, WasTracking
<1>8. Over => Over' /\ recordings > 1 /\ kind # "start"
  <2>1. recordings \in Nat
    BY DEF PinInv, TypeOK
  <2>2. Over => recordings > 1 /\ kind # "start"
    BY <1>1, <1>5, <2>1 DEF Over
  <2>3. Over => ~run'.accepting /\ state' # "start_pending"
    BY <1>1, <1>2, <2>2 DEF Over, Ended
  <2> QED
    BY <1>1, <2>1, <2>2, <2>3 DEF Over
<1>9. CASE StopIsTaken
  <2>1. recordings \in Nat
    BY DEF PinInv, TypeOK
  <2>2. Over /\ Over' /\ ~(recordings' <= 1) /\ ~StartQueued'
    BY <1>1, <1>3, <1>8, <1>9, <2>1 DEF StopIsTaken
  <2>3. StopIsTaken'
    BY <1>1, <1>3, <1>9, <2>2 DEF StopIsTaken
  <2> QED
    BY <2>3 DEF TrackInv
<1>10. ASSUME NEW q \in 1 .. Len(control), StopIsQueued(q)
       PROVE  TrackInv'
  <2>1. Over /\ Over' /\ recordings > 1 /\ kind # "start"
    BY <1>8, <1>10 DEF StopIsQueued
  <2>2. ~(StartQueued \/ Live({"start"}))
    BY <1>2, <1>10, <2>1 DEF StopIsQueued, Ended
  <2>3. q - 1 \in 0 .. Len(control) /\ q \in 1 .. Len(control')
    BY <1>1
  <2>4. Follow(q - 1)'
    BY <1>3, <1>6, <1>10, <2>1, <2>3 DEF StopIsQueued
  <2>5. recordings \in Nat
    BY DEF PinInv, TypeOK
  <2>6. Len(obs'.sent) = Taken' + q - 1 - Skipped'
    BY <1>1, <1>3, <1>6, <1>10, <2>1 DEF StopIsQueued
  <2>7. StopIsQueued(q)'
    BY <1>1, <1>3, <1>10, <2>1, <2>2, <2>4, <2>5, <2>6 DEF StopIsQueued
  <2> QED
    BY <2>3, <2>7 DEF TrackInv
<1>11. ASSUME StopIsAhead, Tracking'
       PROVE  TrackInv'
  <2>1. /\ ~StopTaken' /\ worker'.pc # "finish" /\ host'.connected /\ ~StopQueued
        /\ state \in {"start_pending", "active", "paused"}
        /\ Follow(Len(control)) /\ StartIsFirst
        /\ Len(obs.sent) = Taken + Len(control) - Skipped + IF kind \in Pauses THEN 1 ELSE 0
        /\ kind \in Pauses => obs.sent[Len(obs.sent)] = kind
        /\ StartQueued \/ Live({"start"}) => ~producer.open /\ worker.pc # "publish"
        /\ kind = "start" =>
             control = <<>> /\ ~producer.open /\ ~Live({"start"}) /\ worker.pc # "publish"
        /\ IF kind = "stop" THEN ~obs.ours /\ (recordings <= 1 => obs.phase = "off") ELSE obs.ours
    BY <1>1, <1>3, <1>5, <1>11 DEF StopIsAhead
  <2>2. /\ Taken + Len(control) - Skipped <= Len(obs.sent)
        /\ \A i \in 1 .. Len(producer.controls) : producer.controls[i] = obs.sent[i]
        /\ Live(Pauses) => worker.cmd.kind = obs.sent[Taken]
        /\ \A i \in 1 + Skipped .. Len(control) : control[i].kind = obs.sent[Taken + i - Skipped]
    BY <2>1 DEF Follow
  <2>3. CASE kind = "start"
    <3>1. Len(control) = 0 /\ Skipped = 0 /\ Skipped' = 1 /\ Len(control') = 1
      BY <1>1, <1>3, <2>1, <2>3, Counts
    <3>2. Follow(Len(control))'
      <4>1. Taken' + Len(control') - Skipped' <= Len(obs'.sent)
        BY <1>1, <1>3, <2>2, <3>1, Counts
      <4>2. \A i \in 1 + Skipped' .. Len(control') : FALSE
        BY <3>1
      <4> QED
        BY <1>1, <1>3, <2>2, <4>1, <4>2 DEF Follow
    <3>3. Len(obs'.sent) = Taken' + Len(control') - Skipped' + 0
      BY <1>1, <1>3, <1>4, <2>1, <2>3, <3>1, Counts
    <3>4. /\ StartIsFirst' /\ ~StopQueued' /\ obs'.ours /\ ~producer'.open /\ worker'.pc # "publish"
          /\ state' \in {"start_pending", "active", "paused"}
      BY <1>1, <1>2, <1>3, <2>1, <2>3
    <3>5. StopIsAhead'
      BY <1>1, <1>3, <2>1, <3>2, <3>3, <3>4 DEF StopIsAhead
    <3> QED
      BY <3>5 DEF TrackInv
  <2>4. CASE kind \in Pauses
    <3>1. ~StartQueued /\ ~Live({"start"}) /\ Skipped = 0 /\ Skipped' = 0 /\ kind # "start" /\ kind # "stop"
      <4>1. ~Fresh /\ ~Live({"start"})
        BY <1>2, <2>4 DEF AnchorInv
      <4>2. control # <<>> => 1 \in 1 .. Len(control)
        BY Counts
      <4>3. ~StartQueued
        BY <4>1 DEF Fresh
      <4>4. Skipped = 0
        BY <4>2, <4>3 DEF Skipped, StartQueued
      <4> QED
        BY <1>4, <1>6, <2>4, <4>1, <4>3, <4>4
    <3>2. Len(obs.sent) = Taken + Len(control) + 1
      BY <2>1, <2>4, <3>1, Counts
    <3>3. Follow(Len(control))'
      <4>1. Taken' + Len(control') - Skipped' <= Len(obs'.sent)
        BY <1>1, <1>3, <3>1, <3>2, Counts
      <4>2. \A i \in 1 + Skipped' .. Len(control') : control'[i].kind = obs'.sent[Taken' + i - Skipped']
        <5> SUFFICES ASSUME NEW i \in 1 .. Len(control) + 1
                     PROVE  control'[i].kind = obs.sent[Taken + i]
          BY <1>1, <1>3, <3>1, Counts
        <5>1. CASE i = Len(control) + 1
          BY <1>1, <2>1, <2>4, <3>2, <5>1, Counts
        <5>2. CASE i \in 1 .. Len(control)
          <6>1. control[i].kind = obs.sent[Taken + i - 0]
            BY <2>2, <3>1, <5>2
          <6> QED
            BY <1>1, <5>2, <6>1, Counts
        <5> QED
          BY <1>1, <5>1, <5>2
      <4> QED
        BY <1>1, <1>3, <2>2, <4>1, <4>2 DEF Follow
    <3>4. Len(obs'.sent) = Taken' + Len(control') - Skipped' + 0
      BY <1>1, <1>3, <3>1, <3>2, Counts
    <3>5. /\ StartIsFirst' /\ ~StopQueued' /\ obs'.ours
          /\ state' \in {"start_pending", "active", "paused"}
          /\ ~StartQueued' /\ ~Live({"start"})'
      BY <1>1, <1>2, <1>3, <2>1, <2>4, <3>1
    <3>6. StopIsAhead'
      BY <1>1, <1>3, <2>1, <3>3, <3>4, <3>5 DEF StopIsAhead
    <3> QED
      BY <3>6 DEF TrackInv
  <2>5. CASE kind = "stop"
    <3> PICK n \in Nat : n = Len(control)
      BY <1>1
    <3> DEFINE q == n + 1
    <3>1. q \in 1 .. Len(control') /\ q = Len(control') /\ control'[q].kind = "stop" /\ q - 1 = n
      BY <1>1, <2>5
    <3>2. Over'
      BY <1>1, <1>2, <2>1, <2>5 DEF Over
    <3>3. n \in 0 .. Len(control)
      BY <1>1
    <3>4. Follow(q - 1)'
      BY <1>3, <1>4, <1>6, <2>1, <2>5, <3>1, <3>3
    <3>5. Len(obs'.sent) = Taken' + q - 1 - Skipped'
      BY <1>1, <1>3, <1>4, <1>6, <2>1, <2>5, Counts
    <3>6. clock' # NoCommand => clock'.order < control'[q].order
      <4>1. clock # NoCommand => clock.order < next_order
        BY PendingIs DEF OrderInv
      <4> QED
        BY <1>1, <4>1
    <3>7. StartIsFirst' /\ (StartQueued' \/ Live({"start"})' =>
                               ~producer'.open /\ state' = "stopping" /\ worker'.pc # "publish")
      BY <1>1, <1>2, <1>3, <1>4, <2>1, <2>5
    <3> HIDE DEF q
    <3>8. StopIsQueued(q)'
      BY <2>1, <3>1, <3>2, <3>4, <3>5, <3>6, <3>7 DEF StopIsQueued
    <3> QED
      BY <3>1, <3>8 DEF TrackInv
  <2> QED
    BY <2>3, <2>4, <2>5
<1> QED
  BY <1>7, <1>9, <1>10, <1>11 DEF TrackInv

\* A run that samples has no stop on its way.
LEMMA SamplingTracks ==
    ASSUME PinInv, RunInv, AddsScene \/ \E kind \in {"anchor", "tick"} : Samples(kind)
    PROVE  TrackInv'
<1> USE DEF RunInv
<1>1. /\ UNCHANGED <<state, control, forced>> /\ Sampling
      /\ \E c \in {"ui", "video"} : Settles(c, "leaving")
  BY DEF AddsScene, Samples, Queued
<1>2. /\ SameWork /\ UNCHANGED <<unload_requested, producer, host, gate, obs, recordings>>
      /\ cb'["output"] = cb["output"]
  BY <1>1, WokenIsSame DEF Settles, PinInv, bounds, Goes, Callers
<1>3. /\ Captured("output", {"start"})' <=> Captured("output", {"start"})
      /\ Captured("output", {"stop"})' <=> Captured("output", {"stop"})
      /\ Captured("output", Pauses)' <=> Captured("output", Pauses)
  BY <1>2 DEF Captured
<1>4. Tracking' => Tracking
  BY <1>1, <1>2, <1>3, CallbackWas
<1>5. ~Over
  BY <1>1 DEF Over, Sampling
<1>6. ~StopIsTaken /\ \A q : ~StopIsQueued(q)
  BY <1>5 DEF StopIsTaken, StopIsQueued
<1>7. ASSUME StopIsAhead
      PROVE  StopIsAhead'
  <2>1. Same /\ (StopTaken' <=> StopTaken) /\ (Live({"start"})' <=> Live({"start"}))
        /\ (worker'.pc = "finish" <=> worker.pc = "finish")
        /\ (worker'.pc = "publish" <=> worker.pc = "publish")
    BY <1>1, <1>2, WorkIsSame
  <2>2. /\ ~StopTaken' /\ worker'.pc # "finish" /\ host'.connected
        /\ state' \in {"start_pending", "active", "paused"}
        /\ Live({"start"})' => ~producer'.open /\ worker'.pc # "publish"
        /\ Captured("output", {"stop"}) =>
              ~obs'.ours /\ (recordings' <= 1 => recordings <= 1 /\ obs'.phase = obs.phase)
    BY <1>1, <1>2, <1>7, <2>1 DEF StopIsAhead
  <2> QED
    BY <1>2, <1>3, <1>7, <2>1, <2>2, AheadKeeps
<1> QED
  BY <1>4, <1>6, <1>7 DEF TrackInv

\* A bound output begins with nothing written, taken or queued.
LEMMA BindTracks ==
    ASSUME PinInv, OrderInv, RunInv, OnRecordingStarting, state = "idle"
    PROVE  TrackInv'
<1> USE DEF RunInv
<1>1. /\ Signal("recording_starting") /\ Binds("recording_starting") /\ "recording_starting" \in Events
      /\ ~unload_requested /\ Goes("ui", "leaving", "recording_starting")
      /\ UNCHANGED <<queues, producer, worker>>
      /\ UNCHANGED <<state, host>> \/ ~host'.reference
         \/ (state' = "start_pending" /\ host'.reference /\ host'.connected)
  BY BindIs
<1>2. /\ ~producer.open /\ ~host.reference /\ Drained /\ ~StartQueued
      /\ worker.pc \in {"wait", "commit", "asleep", "process"}
      /\ worker.pc = "process" => worker.cmd.kind \in Pauses \cup {"stop"}
  BY <1>1, BetweenIs
<1>3. ASSUME Tracking'
      PROVE  StopIsAhead'
  <2>1. state' = "start_pending" /\ host'.reference /\ host'.connected
    BY <1>1, <1>2, <1>3 DEF Tracking
  <2>2. UNCHANGED <<control, clock>>
    BY <1>1 DEF queues
  <2>3. ~Live({"start"})' /\ worker'.pc # "publish" /\ worker'.pc # "finish"
    BY <1>1, <1>2 DEF Live, Pauses
  <2>4. ~Live(Pauses)' /\ ~StopTaken' /\ (control' # <<>> => control'[1].kind = "start")
    BY <1>1, <1>2, <1>3, <2>3 DEF Tracking, Stale
  <2>5. control = <<>> /\ Len(control) = 0
    <3>1. control # <<>> => 1 \in 1 .. Len(control)
      BY Counts
    <3>2. control # <<>> => StartQueued
      BY <2>2, <2>4, <3>1 DEF StartQueued
    <3> QED
      BY <1>2, <3>2
  <2>6. ~StartQueued' /\ ~StopQueued' /\ StartIsFirst' /\ Skipped' = 0
    BY <2>2, <2>5 DEF StartQueued, StopQueued, StartIsFirst, Skipped
  <2>7. producer'.controls = <<>> /\ ~producer'.open
    BY <1>1, <1>2 DEF OrderInv, NoProducer
  <2>8. Len(producer'.controls) = 0 /\ Taken' = 0
    <3>1. Len(producer'.controls) = 0
      BY <2>7
    <3> QED
      BY <2>4, <3>1 DEF Taken
  <2>9. obs'.sent = <<>> /\ obs'.ours
    <3>1. TypeOK
      BY DEF PinInv
    <3>2. obs'.ours <=> Binds("recording_starting")
      BY <1>1, <3>1, SignalIs
    <3>3. obs'.sent = <<>>
      BY <1>1 DEF Signal
    <3> QED
      BY <1>1, <3>2, <3>3
  <2>10. Len(obs'.sent) = 0
    BY <2>9
  <2>11. Len(control') = 0
    BY <2>2, <2>5
  <2>12. Follow(Len(control))'
    BY <2>4, <2>6, <2>8, <2>10, <2>11 DEF Follow
  <2>13. cb'["output"].pc # "captured"
    BY <1>1, <1>2 DEF Goes, Drained, Callers
  <2>14. ~Captured("output", {"start"})' /\ ~Captured("output", {"stop"})' /\ ~Captured("output", Pauses)'
    BY <2>13 DEF Captured
  <2>15. Len(obs'.sent) = Taken' + Len(control') - Skipped' + 0
    BY <2>6, <2>8, <2>10, <2>11
  <2> QED
    BY <2>1, <2>3, <2>4, <2>6, <2>9, <2>12, <2>14, <2>15 DEF StopIsAhead
<1> QED
  BY <1>3 DEF TrackInv

\* What the worker takes is no longer queued, but taken.
LEMMA FollowShifts ==
    ASSUME PinInv, worker.pc = "wait", worker'.pc = "process", worker'.cmd = control[1],
           control # <<>>, control' = Tail(control), UNCHANGED <<producer, obs>>,
           StartIsFirst, control[1].kind \in Pauses \cup {"start"},
           NEW n \in 1 .. Len(control), Follow(n)
    PROVE  /\ Follow(n - 1)' /\ Taken' + (n - 1) - Skipped' = Taken + n - Skipped
           /\ StartIsFirst' /\ ~StartQueued' /\ Skipped' = 0 /\ Taken' \in Nat
           /\ Live({"start"})' => StartQueued
<1>1. /\ Len(control) \in Nat \ {0} /\ Len(control') = Len(control) - 1
      /\ \A i \in 1 .. Len(control') : control'[i] = control[i + 1] /\ i + 1 \in 1 .. Len(control)
      /\ 1 \in 1 .. Len(control)
      /\ control[1].kind = "start" => StartQueued
  BY TakenIs
<1>2. ~StartQueued' /\ StartIsFirst'
  <2>1. ASSUME NEW i \in 1 .. Len(control')
        PROVE  control'[i].kind # "start"
    <3>1. i + 1 # 1
      BY <1>1
    <3> QED
      BY <1>1, <3>1 DEF StartIsFirst
  <2> QED
    BY <2>1 DEF StartQueued, StartIsFirst
<1>3. Skipped' = 0
  <2>1. control' # <<>> => 1 \in 1 .. Len(control')
    <3>1. Len(control') = 0 => control' = <<>>
      <4>1. control \in Seq(Commands)
        BY Counts
      <4>2. control' \in Seq(Commands)
        BY <4>1, Behead
      <4> QED
        BY <4>2, Empty
    <3> QED
      BY <1>1, <3>1
  <2> QED
    BY <1>2, <2>1 DEF Skipped, StartQueued
<1>4. ~Live(Pauses) /\ Taken = Len(producer.controls) /\ Taken \in Nat
  <2>1. ~Live(Pauses)
    BY DEF Live
  <2> QED
    BY <2>1, Counts
<1>5. (Live(Pauses)' <=> control[1].kind \in Pauses) /\ (Live({"start"})' <=> control[1].kind = "start")
  BY WillBeLive
<1>6. /\ Taken + n - Skipped <= Len(obs.sent)
      /\ \A i \in 1 .. Len(producer.controls) : producer.controls[i] = obs.sent[i]
      /\ \A i \in 1 + Skipped .. n : control[i].kind = obs.sent[Taken + i - Skipped]
  BY DEF Follow
<1>7. /\ Live(Pauses)' => Taken' = Len(producer'.controls) + 1
      /\ ~Live(Pauses)' => Taken' = Len(producer'.controls) + 0
  BY DEF Taken
<1>8. CASE control[1].kind = "start"
  <2>1. Skipped = 1 /\ ~Live(Pauses)' /\ Taken' = Taken
    BY <1>4, <1>5, <1>7, <1>8 DEF Skipped, Pauses
  <2>0. Skipped = 1 /\ Taken' = Taken /\ Skipped' = 0 /\ Taken \in Nat
    BY <1>3, <1>4, <2>1
  <2>2. \A i \in 1 + Skipped' .. n - 1 : control'[i].kind = obs'.sent[Taken' + i - Skipped']
    <3> SUFFICES ASSUME NEW i \in 1 .. n - 1
                 PROVE  control'[i].kind = obs.sent[Taken + i]
      BY <1>1, <2>0
    <3>1. i \in 1 .. Len(control') /\ i + 1 \in 1 + Skipped .. n /\ Taken + (i + 1) - Skipped = Taken + i
      BY <1>1, <1>4, <2>1
    <3> QED
      BY <1>1, <1>6, <3>1
  <2>3. Taken' + (n - 1) - Skipped' = Taken + n - Skipped /\ Taken' + (n - 1) - Skipped' <= Len(obs'.sent)
    BY <1>1, <1>3, <1>4, <1>6, <2>1
  <2> QED
    BY <1>1, <1>2, <1>3, <1>4, <1>6, <1>8, <2>1, <2>2, <2>3 DEF Follow
<1>9. CASE control[1].kind \in Pauses
  <2>1. Skipped = 0 /\ Live(Pauses)' /\ Taken' = Taken + 1
    BY <1>4, <1>5, <1>7, <1>9 DEF Skipped, Pauses
  <2>0. Skipped = 0 /\ Taken' = Taken + 1 /\ Skipped' = 0 /\ Taken \in Nat
    BY <1>3, <1>4, <2>1
  <2>2. \A i \in 1 + Skipped' .. n - 1 : control'[i].kind = obs'.sent[Taken' + i - Skipped']
    <3> SUFFICES ASSUME NEW i \in 1 .. n - 1
                 PROVE  control'[i].kind = obs.sent[Taken + 1 + i]
      BY <1>1, <2>0
    <3>1. i \in 1 .. Len(control') /\ i + 1 \in 1 .. n
      BY <1>1
    <3>2. i + 1 \in 1 + Skipped .. n /\ Taken + (i + 1) - Skipped = Taken + 1 + i
      BY <2>0, <3>1
    <3> QED
      BY <1>1, <1>6, <3>1, <3>2
  <2>3. Taken' + (n - 1) - Skipped' = Taken + n - Skipped /\ Taken' + (n - 1) - Skipped' <= Len(obs'.sent)
    BY <1>1, <1>3, <1>4, <1>6, <2>1
  <2>4. worker'.cmd.kind = obs'.sent[Taken']
    <3>1. 1 \in 1 + Skipped .. n /\ Taken + 1 - Skipped = Taken'
      BY <1>4, <2>1
    <3> QED
      BY <1>6, <3>1
  <2>5. ~Live({"start"})'
    BY <1>5, <1>9 DEF Pauses
  <2> QED
    BY <1>1, <1>2, <1>3, <1>4, <1>6, <2>1, <2>2, <2>3, <2>4, <2>5, SMTT(30) DEF Follow
<1> QED
  BY <1>8, <1>9

\* What the worker takes was followed, and is so still.
LEMMA TakesTracks ==
    ASSUME PinInv, RunInv, WorkerTakes
    PROVE  TrackInv'
<1> USE DEF RunInv
<1>1. /\ Works /\ worker.pc = "wait" /\ ~forced /\ ~unload_requested
      /\ worker'.pc = "process" /\ worker'.cmd = Earliest
      /\ UNCHANGED <<Waiting, flags>>
      /\ clock # NoCommand => Earliest.order <= clock.order
      /\ \/ /\ control # <<>> /\ Earliest = control[1] /\ control' = Tail(control)
            /\ Earliest.kind \in Pauses \cup {"start", "stop"} /\ UNCHANGED clock
         \/ Earliest.kind = "scene" /\ UNCHANGED <<control, clock>>
         \/ /\ clock # NoCommand /\ Earliest = clock /\ clock' = NoCommand
            /\ Earliest.kind \in {"anchor", "tick"} /\ UNCHANGED control
  BY WorkerTakesIs
<1>2. UNCHANGED <<state, gate, cb, run, producer, host, obs, recordings>>
  BY <1>1 DEF Waiting, bounds
<1>3. /\ Live({"start"})' <=> Earliest.kind = "start"
      /\ Live(Pauses)' <=> Earliest.kind \in Pauses
      /\ StopTaken' <=> Earliest.kind = "stop"
  BY <1>1, WillBeLive
<1>4. ~StopTaken /\ ~Live({"start"}) /\ ~Live(Pauses) /\ ~Failing
  <2>1. ~StopTaken /\ (\A kinds : ~Live(kinds)) /\ ~Heading("cleanup")
    BY <1>1, WaitIs
  <2> QED
    BY <1>1, <2>1 DEF Failing
<1>5. /\ Captured("output", {"start"})' <=> Captured("output", {"start"})
      /\ Captured("output", {"stop"})' <=> Captured("output", {"stop"})
      /\ Captured("output", Pauses)' <=> Captured("output", Pauses)
  BY <1>2 DEF Captured
<1>6. "start" \notin Pauses /\ "stop" \notin Pauses /\ "scene" \notin Pauses /\ "anchor" \notin Pauses
      /\ "tick" \notin Pauses
  BY DEF Pauses
<1>7. Over => Over'
  BY <1>1, <1>2, <1>5 DEF Over
<1>8. CASE control' = control /\ Earliest.kind \in {"scene", "anchor", "tick"}
  <2>1. /\ Same /\ ~StopTaken' /\ worker'.pc # "finish" /\ ~Live({"start"})' /\ clock' \in {clock, NoCommand}
    BY <1>1, <1>2, <1>3, <1>4, <1>6, <1>8 DEF Same
  <2>2. Tracking' => Tracking
    <3>1. Stale => Stale'
      BY <1>1, <1>2, <1>4, <1>8, <2>1 DEF Stale
    <3>2. StopComing' => StopComing
      BY <1>5, <1>8, <2>1 DEF StopComing, StopQueued
    <3> QED
      BY <1>2, <1>4, <3>1, <3>2, WasTracking
  <2>3. ~StopIsTaken
    BY <1>1, <1>4 DEF StopIsTaken
  <2>4. ASSUME NEW q \in 1 .. Len(control), StopIsQueued(q)
        PROVE  Tracked'
    <3>1. Over' /\ (StartQueued \/ Live({"start"})' =>
                       ~producer'.open /\ state' = "stopping" /\ worker'.pc # "publish")
      BY <1>1, <1>2, <1>7, <2>1, <2>4 DEF StopIsQueued
    <3>2. StopIsQueued(q)' /\ q \in 1 .. Len(control')
      BY <1>2, <2>1, <2>4, <3>1, QueuedKeeps
    <3> QED
      BY <3>2 DEF Tracked
  <2>5. ASSUME StopIsAhead
        PROVE  Tracked'
    <3>1. /\ host'.connected /\ state' \in {"start_pending", "active", "paused"}
          /\ Captured("output", {"stop"}) => ~obs'.ours
      BY <1>2, <2>5 DEF StopIsAhead
    <3>2. StopIsAhead'
      BY <1>1, <1>2, <1>5, <2>1, <2>5, <3>1, AheadKeeps
    <3> QED
      BY <3>2 DEF Tracked
  <2> QED
    BY <2>2, <2>3, <2>4, <2>5, TracksWhen DEF Tracked
<1>9. CASE /\ control # <<>> /\ Earliest = control[1] /\ control' = Tail(control)
           /\ Earliest.kind \in Pauses \cup {"start", "stop"} /\ UNCHANGED clock
  <2>1. /\ Len(control) \in Nat \ {0} /\ Len(control') = Len(control) - 1
        /\ \A i \in 1 .. Len(control') : control'[i] = control[i + 1] /\ i + 1 \in 1 .. Len(control)
        /\ 1 \in 1 .. Len(control)
        /\ (StartQueued' => StartQueued)
        /\ (control[1].kind = "start" => StartQueued)
    BY <1>9, TakenIs
  <2>2. StopQueued' => StopQueued
    BY <2>1 DEF StopQueued
  <2>3. Tracking' => Tracking
    <3>1. Stale => Stale'
      <4>1. ASSUME Stale
            PROVE  ~producer.open /\ control[1].kind # "start"
        BY <1>1, <1>4, <4>1 DEF Stale
      <4> QED
        BY <1>1, <1>2, <1>3, <1>9, <4>1 DEF Stale
    <3>2. StopComing' => StopComing
      <4>1. StopTaken' => StopQueued
        BY <1>3, <1>9, <2>1 DEF StopQueued
      <4> QED
        BY <1>1, <1>5, <2>2, <4>1 DEF StopComing
    <3> QED
      BY <1>2, <1>4, <3>1, <3>2, WasTracking
  <2>4. ~StopIsTaken
    BY <1>1, <1>4 DEF StopIsTaken
  <2>5. Taken = Len(producer.controls) /\ Taken \in Nat /\ Len(obs.sent) \in Nat /\ Len(producer.controls) \in Nat
    BY <1>4, Counts
  <2>6. ASSUME StopIsQueued(1)
        PROVE  Tracked'
    <3>1. control[1].kind = "stop" /\ Skipped = 0
      BY <2>6 DEF StopIsQueued, Skipped
    <3>2. producer.controls = obs.sent
      <4>1. Len(obs.sent) = Len(producer.controls)
        BY <2>5, <2>6, <3>1 DEF StopIsQueued
      <4>2. \A i \in 1 .. Len(producer.controls) : producer.controls[i] = obs.sent[i]
        BY <2>6 DEF StopIsQueued, Follow
      <4>3. producer.controls \in Seq(Pauses) /\ obs.sent \in Seq(Pauses)
        BY Counts
      <4> QED
        BY <4>1, <4>2, <4>3
    <3>3. clock = NoCommand
      <4>1. clock # NoCommand => clock.order < control[1].order /\ control[1].order <= clock.order
        BY <1>1, <1>9, <2>6 DEF StopIsQueued
      <4>2. clock # NoCommand => clock.order \in Nat
        BY QueuesKeep DEF QueuesType, Commands
      <4>3. control[1].order \in Nat
        <5>1. control[1] \in Commands
          BY <2>1, Counts, Empty
        <5> QED
          BY <5>1 DEF Commands
      <4> QED
        BY <4>1, <4>2, <4>3
    <3>4. ~StartQueued'
      <4>1. ~StartQueued
        BY <2>6, <3>1 DEF StopIsQueued, StartIsFirst, StartQueued
      <4> QED
        BY <2>1, <4>1
    <3>5. recordings <= 1 => control' = <<>>
      <4>1. recordings <= 1 => Len(control') = 0
        <5>1. ASSUME recordings <= 1
              PROVE  Len(control) = 1
          BY <2>6, <5>1 DEF StopIsQueued
        <5>2. Len(control') = Len(control) - 1
          BY <2>1
        <5> QED
          BY <5>1, <5>2
      <4>2. control' \in Seq(Commands)
        BY <1>9, Counts, Behead
      <4> QED
        BY <4>1, <4>2, Empty
    <3>6. Over'
      BY <1>7, <2>6 DEF StopIsQueued
    <3>7. StopIsTaken'
      BY <1>2, <1>3, <1>9, <3>1, <3>2, <3>3, <3>4, <3>5, <3>6 DEF StopIsTaken
    <3> QED
      BY <3>7 DEF Tracked
  <2>7. ASSUME NEW q \in 2 .. Len(control), StopIsQueued(q)
        PROVE  Tracked'
    <3>1. /\ ~StopTaken /\ Over /\ control[q].kind = "stop"
          /\ Follow(q - 1) /\ Len(obs.sent) = Taken + q - 1 - Skipped /\ StartIsFirst
          /\ StartQueued \/ Live({"start"}) =>
               ~producer.open /\ state = "stopping" /\ worker.pc # "publish"
          /\ clock # NoCommand => clock.order < control[q].order
          /\ recordings <= 1 => q = Len(control)
      BY <2>7 DEF StopIsQueued
    <3>2. control[1].kind \in Pauses \cup {"start"}
      <4>1. Skipped \in {0, 1} /\ (Skipped = 1 => control[1].kind = "start")
        BY Counts
      <4>2. CASE Skipped = 0
        <5>1. control[1].kind = obs.sent[Taken + 1 - Skipped] /\ Taken + (q - 1) - Skipped <= Len(obs.sent)
          BY <2>1, <3>1, <4>2 DEF Follow
        <5>2. Taken + 1 - Skipped \in 1 .. Len(obs.sent)
          BY <2>1, <2>5, <4>2, <5>1
        <5> QED
          BY <5>1, <5>2, Counts, Empty
      <4> QED
        BY <4>1, <4>2
    <3>3. q - 1 \in 1 .. Len(control) /\ q - 1 \in 1 .. Len(control') /\ control'[q - 1] = control[q]
      <4>1. q - 1 \in 1 .. Len(control') /\ (q - 1) + 1 = q
        BY <2>1
      <4> QED
        BY <2>1, <4>1
    <3>4. /\ Follow((q - 1) - 1)' /\ Taken' + ((q - 1) - 1) - Skipped' = Taken + (q - 1) - Skipped
          /\ StartIsFirst' /\ ~StartQueued' /\ Skipped' = 0 /\ Taken' \in Nat
          /\ Live({"start"})' => StartQueued
      BY <1>1, <1>2, <1>9, <3>1, <3>2, <3>3, FollowShifts
    <3>5. ~StopTaken'
      BY <1>3, <1>6, <1>9, <3>2
    <3>6. Over'
      BY <1>7, <3>1
    <3>7. Len(obs'.sent) = Taken' + (q - 1) - 1 - Skipped'
      <4>1. Skipped \in {0, 1}
        BY Counts
      <4> QED
        BY <1>2, <2>1, <2>5, <3>1, <3>4, <4>1
    <3>8. recordings' <= 1 => q - 1 = Len(control')
      BY <1>2, <2>1, <3>1
    <3>9. StopIsQueued(q - 1)'
      BY <1>1, <1>2, <1>9, <3>1, <3>3, <3>4, <3>5, <3>6, <3>7, <3>8 DEF StopIsQueued
    <3> QED
      BY <3>3, <3>9 DEF Tracked
  <2>8. ASSUME StopIsAhead
        PROVE  Tracked'
    <3>1. /\ ~StopTaken /\ ~StopQueued /\ host.connected /\ state \in {"start_pending", "active", "paused"}
          /\ Follow(Len(control)) /\ StartIsFirst
          /\ Len(obs.sent) = Taken + Len(control) - Skipped + IF Captured("output", Pauses) THEN 1 ELSE 0
          /\ Captured("output", Pauses) => obs.sent[Len(obs.sent)] = cb["output"].ev
          /\ StartQueued \/ Live({"start"}) => ~producer.open /\ worker.pc # "publish"
          /\ ~Captured("output", {"start"})
          /\ IF Captured("output", {"stop"})
             THEN ~obs.ours /\ (recordings <= 1 => obs.phase = "off")
             ELSE obs.ours
      BY <1>9, <2>8 DEF StopIsAhead
    <3>2. control[1].kind \in Pauses \cup {"start"} /\ ~StopTaken' /\ ~StopQueued'
      BY <1>3, <1>6, <1>9, <2>1, <2>2, <3>1 DEF StopQueued
    <3>3. PICK n \in 1 .. Len(control) : n = Len(control)
      BY <2>1
    <3>4. /\ Follow(n - 1)' /\ Taken' + (n - 1) - Skipped' = Taken + n - Skipped
          /\ StartIsFirst' /\ ~StartQueued' /\ Skipped' = 0 /\ Taken' \in Nat
          /\ Live({"start"})' => StartQueued
      BY <1>1, <1>2, <1>9, <3>1, <3>2, <3>3, FollowShifts
    <3>5. n - 1 = Len(control')
      BY <2>1, <3>3
    <3>6. Follow(Len(control))'
      BY <3>4, <3>5 DEF Follow
    <3>7. Taken' + Len(control') - Skipped' = Taken + Len(control) - Skipped
      BY <3>3, <3>4, <3>5
    <3>8. Len(obs'.sent) = Taken' + Len(control') - Skipped'
                           + IF Captured("output", Pauses)' THEN 1 ELSE 0
      <4>1. CASE Captured("output", Pauses)
        BY <1>2, <1>5, <3>1, <3>7, <4>1
      <4>2. CASE ~Captured("output", Pauses)
        BY <1>2, <1>5, <3>1, <3>7, <4>2
      <4> QED
        BY <4>1, <4>2
    <3>9. /\ ~Captured("output", {"start"})'
          /\ IF Captured("output", {"stop"})'
             THEN ~obs'.ours /\ (recordings' <= 1 => obs'.phase = "off")
             ELSE obs'.ours
          /\ Captured("output", Pauses)' => obs'.sent[Len(obs'.sent)] = cb'["output"].ev
      BY <1>2, <1>5, <3>1
    <3>10. StopIsAhead'
      BY <1>1, <1>2, <3>1, <3>2, <3>4, <3>6, <3>8, <3>9 DEF StopIsAhead
    <3> QED
      BY <3>10 DEF Tracked
  <2>9. ASSUME NEW q \in 1 .. Len(control), StopIsQueued(q)
        PROVE  Tracked'
    <3>1. q = 1 \/ q \in 2 .. Len(control)
      BY <2>1
    <3> QED
      BY <2>6, <2>7, <2>9, <3>1
  <2> QED
    BY <2>3, <2>4, <2>8, <2>9, TracksWhen DEF Tracked
<1> QED
  BY <1>1, <1>8, <1>9

\* The worker is done with what it had in work.
Done ==
    /\ Works /\ UNCHANGED <<host, control, clock, forced>>
    /\ worker.pc \in {"process", "publish"} /\ ~Live({"stop"}) /\ worker'.pc \in {"wait", "publish"}
    /\ Live(Pauses) => producer.open
    /\ ~producer.open /\ ~Live({"start"}) => ~producer'.open

LEMMA DoneIs ==
    ASSUME Done
    PROVE  /\ Tracking' => Tracking
           /\ ~StopTaken /\ ~StopTaken' /\ ~Live({"start"})' /\ ~Live(Pauses)' /\ worker'.pc # "finish"
           /\ (StartQueued' <=> StartQueued) /\ (StopQueued' <=> StopQueued)
           /\ Captured("output", {"start"})' <=> Captured("output", {"start"})
           /\ Captured("output", {"stop"})' <=> Captured("output", {"stop"})
           /\ Captured("output", Pauses)' <=> Captured("output", Pauses)
           /\ UNCHANGED <<cb, obs, recordings, control, clock, host>>
           /\ ~StopIsTaken
<1>1. /\ Works /\ UNCHANGED <<host, control, clock, forced>>
      /\ worker.pc \in {"process", "publish"} /\ ~Live({"stop"}) /\ worker'.pc \in {"wait", "publish"}
      /\ Live(Pauses) => producer.open
      /\ ~producer.open /\ ~Live({"start"}) => ~producer'.open
  BY DEF Done
<1>2. UNCHANGED <<cb, gate, obs, recordings, unload_requested>>
  BY <1>1 DEF Works, bounds
<1>3. ~StopTaken' /\ (\A kinds : ~Live(kinds)') /\ worker'.pc # "finish"
  BY <1>1, RestIs
<1>4. ~StopTaken /\ ~Heading("cleanup") /\ worker.pc # "finish"
  BY <1>1 DEF StopTaken, Heading, Drains
<1>5. /\ (StartQueued' <=> StartQueued) /\ (StopQueued' <=> StopQueued)
      /\ Captured("output", {"start"})' <=> Captured("output", {"start"})
      /\ Captured("output", {"stop"})' <=> Captured("output", {"stop"})
      /\ Captured("output", Pauses)' <=> Captured("output", Pauses)
  BY <1>1, <1>2 DEF StartQueued, StopQueued, Captured
<1>6. Tracking' => Tracking
  <2>1. Failing => Failing'
    BY <1>1, <1>2, <1>4 DEF Failing
  <2>2. ~Live({"start"})'
    BY <1>3
  <2>3. Stale => Stale'
    BY <1>1, <1>4, <2>2 DEF Stale
  <2>4. StopComing' => StopComing
    BY <1>3, <1>5 DEF StopComing
  <2> QED
    BY <1>1, <1>2, <2>1, <2>3, <2>4, WasTracking
<1>7. ~Live({"start"})' /\ ~Live(Pauses)'
  BY <1>3
<1>8. ~StopIsTaken
  BY <1>4 DEF StopIsTaken
<1> QED
  BY <1>1, <1>2, <1>3, <1>4, <1>5, <1>6, <1>7, <1>8

\* When it was no pause or resume, what is followed stays so.
LEMMA DoneTracks ==
    ASSUME RunInv, Done, ~Live(Pauses), producer'.controls = producer.controls,
           state' = state \/ state' \in {"active", "paused"},
           Tracking => \A q \in 1 .. Len(control) :
               StopIsQueued(q) => /\ Over'
                                  /\ StartQueued => /\ ~producer'.open /\ state' = "stopping"
                                                    /\ worker'.pc # "publish",
           Tracking /\ StopIsAhead =>
               /\ producer'.open /\ ~producer.open => ~StartQueued /\ ~Captured("output", {"start"})
               /\ worker'.pc = "publish" /\ worker.pc # "publish" =>
                    ~StartQueued /\ ~Captured("output", {"start"})
    PROVE  TrackInv'
<1> USE DEF RunInv
<1>1. /\ Tracking' => Tracking
      /\ ~StopTaken /\ ~StopTaken' /\ ~Live({"start"})' /\ ~Live(Pauses)' /\ worker'.pc # "finish"
      /\ Captured("output", {"start"})' <=> Captured("output", {"start"})
      /\ Captured("output", {"stop"})' <=> Captured("output", {"stop"})
      /\ Captured("output", Pauses)' <=> Captured("output", Pauses)
      /\ UNCHANGED <<cb, obs, recordings, control, clock, host>>
      /\ ~StopIsTaken
  BY DoneIs
<1>2. Same
  BY <1>1 DEF Same
<1>3. ASSUME NEW q \in 1 .. Len(control), StopIsQueued(q), Tracking
      PROVE  Tracked'
  <2>1. StopIsQueued(q)' /\ q \in 1 .. Len(control')
    BY <1>1, <1>2, <1>3, QueuedKeeps
  <2> QED
    BY <2>1 DEF Tracked
<1>4. ASSUME StopIsAhead, Tracking
      PROVE  Tracked'
  <2>1. /\ host'.connected /\ state' \in {"start_pending", "active", "paused"}
        /\ Captured("output", {"stop"}) => ~obs'.ours
    BY <1>1, <1>4 DEF StopIsAhead
  <2>2. StopIsAhead'
    BY <1>1, <1>2, <1>4, <2>1, AheadKeeps
  <2> QED
    BY <2>2 DEF Tracked
<1> QED
  BY <1>1, <1>3, <1>4, TracksWhen DEF Tracked

\* The worker starts a run: nothing was written for it before, and its start was the only one.
LEMMA StartTracks ==
    ASSUME PinInv, OrderInv, RunInv, ProcessStart
    PROVE  TrackInv'
<1> USE DEF RunInv
<1>1. /\ worker.pc = "process" /\ worker.cmd.kind = "start" /\ UNCHANGED <<queues, flags>>
      /\ producer' = [NoProducer EXCEPT !.open = TRUE]
      /\ \/ Fails
         \/ /\ Works /\ UNCHANGED <<state, host>> /\ run'.accepting
            /\ IF state = "stopping" THEN worker' = Idle
               ELSE worker'.pc = "publish" /\ worker'.next = (IF run.paused THEN "paused" ELSE "active")
  BY ProcessStartIs
<1>2. CASE Fails
  BY <1>2, FailsIs DEF TrackInv, Tracking
<1>3. CASE ~Fails
  <2>1. /\ Works /\ UNCHANGED <<state, host, control, clock, forced>>
        /\ \/ worker'.pc = "wait" /\ state = "stopping"
           \/ worker'.pc = "publish" /\ state # "stopping"
    BY <1>1, <1>3, IdleIs DEF queues, flags
  <2>2. "start" \notin Pauses
    BY DEF Pauses
  <2>3. Live({"start"}) /\ ~Live(Pauses) /\ ~Live({"stop"})
    BY <1>1, <2>2, LiveIs
  <2>4. Done
    BY <1>1, <2>1, <2>3 DEF Done
  <2>5. UNCHANGED <<cb, obs, recordings>>
    BY <2>1 DEF Works, bounds
  <2>6. producer'.controls = <<>> /\ (~producer.open => producer.controls = <<>>)
    BY <1>1, NewProducer DEF OrderInv, NoProducer
  <2>7. Tracking => ~StartQueued /\ ~Captured("output", {"start"})
    BY <2>3 DEF Tracking, OnceInv, Fresh
  <2>8. Tracking => ~producer.open \/ ~Tracked
    BY <1>1, <2>3, <2>4, <2>7, DoneIs DEF Tracked, StopIsQueued, StopIsAhead
  <2>9. ASSUME Tracking, NEW q \in 1 .. Len(control), StopIsQueued(q)
        PROVE  Over'
    <3>1. Over /\ state = "stopping" /\ ~Captured("output", {"start"})'
      BY <2>3, <2>4, <2>7, <2>9, DoneIs DEF StopIsQueued
    <3> QED
      BY <2>1, <2>5, <3>1 DEF Over
  <2>10. CASE producer.open
    <3>1. Tracking => ~Tracked
      BY <2>8, <2>10
    <3> QED
      BY <2>4, <3>1, DoneIs DEF TrackInv, Tracked
  <2>11. CASE ~producer.open
    <3>1. producer'.controls = producer.controls
      BY <2>6, <2>11
    <3> QED
      BY <2>1, <2>3, <2>4, <2>7, <2>9, <3>1, DoneTracks
  <2> QED
    BY <2>10, <2>11
<1> QED
  BY <1>2, <1>3

LEMMA PublishTracks ==
    ASSUME PinInv, OrderInv, RunInv, Publish
    PROVE  TrackInv'
<1> USE DEF RunInv
<1>1. /\ Works /\ worker.pc = "publish" /\ worker'.pc = "wait" /\ state' \in {"active", "paused"}
      /\ UNCHANGED <<run, producer, host, control, clock, forced>>
  BY PublishIs, IdleIs DEF PinInv, KindsInv, queues, flags
<1>2. ~Live(Pauses) /\ ~Live({"stop"}) /\ ~Live({"start"})
  BY <1>1, WaitIs
<1>3. Done
  BY <1>1, <1>2 DEF Done
<1>4. UNCHANGED <<cb, obs, recordings>>
  BY <1>1 DEF Works, bounds
<1>5. ASSUME NEW q \in 1 .. Len(control), StopIsQueued(q)
      PROVE  Over' /\ ~StartQueued
  <2>1. Over /\ ~StartQueued
    BY <1>1, <1>5 DEF StopIsQueued
  <2>2. ~Captured("output", {"start"})'
    BY <1>3, <2>1, DoneIs DEF Over
  <2> QED
    BY <1>1, <1>4, <2>1, <2>2 DEF Over
<1> QED
  BY <1>1, <1>2, <1>3, <1>5, DoneTracks

\* An anchor, a sample or a scene is written between the signals.
LEMMA SampleTracks ==
    ASSUME PinInv, OrderInv, RunInv, ProcessClock \/ ProcessScene
    PROVE  TrackInv'
<1> USE DEF RunInv
<1>1. /\ worker.pc = "process" /\ worker.cmd.kind \in {"anchor", "tick", "scene"}
      /\ worker.cmd \in Commands /\ UNCHANGED <<queues, flags>>
      /\ \/ Fails
         \/ /\ Works /\ worker' = Idle /\ UNCHANGED <<state, host>> /\ run'.accepting = run.accepting
            /\ UNCHANGED producer \/ producer' = Written(worker.cmd.kind)
  <2>1. [run EXCEPT !.accepted = TRUE, !.due = Interval].accepting = run.accepting
    BY StillTyped DEF Runs
  <2> QED
    BY <2>1, ProcessClockIs, ProcessSceneIs
<1>2. CASE Fails
  BY <1>2, FailsIs DEF TrackInv, Tracking
<1>3. CASE ~Fails
  <2>1. /\ Works /\ UNCHANGED <<state, host, control, clock, forced>> /\ worker'.pc = "wait"
        /\ run'.accepting = run.accepting
    BY <1>1, <1>3, IdleIs DEF queues, flags
  <2>2. worker.cmd.kind \notin Pauses \cup {"start", "stop"} /\ worker.cmd.kind \in Events \cup {"anchor"}
    BY <1>1 DEF Pauses, Events
  <2>3. ~Live({"start"}) /\ ~Live(Pauses) /\ ~Live({"stop"})
    BY <1>1, <2>2, LiveIs
  <2>4. producer'.open = producer.open /\ producer'.controls = producer.controls
    BY <1>1, <1>3, <2>2, WrittenIs
  <2>5. Done
    BY <1>1, <2>1, <2>3, <2>4 DEF Done
  <2>6. UNCHANGED <<cb, obs, recordings>>
    BY <2>1 DEF Works, bounds
  <2>7. ASSUME NEW q \in 1 .. Len(control), StopIsQueued(q)
        PROVE  Over' /\ (StartQueued => ~producer'.open /\ state' = "stopping" /\ worker'.pc # "publish")
    <3>1. Over /\ (StartQueued => ~producer.open /\ state = "stopping")
      BY <2>7 DEF StopIsQueued
    <3>2. ~Captured("output", {"start"})'
      BY <2>5, <3>1, DoneIs DEF Over
    <3> QED
      BY <2>1, <2>4, <2>6, <3>1, <3>2 DEF Over
  <2> QED
    BY <2>1, <2>3, <2>4, <2>5, <2>7, DoneTracks
<1> QED
  BY <1>2, <1>3

\* A pause or resume is written when it was the next of the signals.
LEMMA PauseTracks ==
    ASSUME PinInv, RunInv, ProcessPause
    PROVE  TrackInv'
<1> USE DEF RunInv
<1>1. /\ worker.pc = "process" /\ worker.cmd.kind \in Pauses /\ worker.cmd \in Commands
      /\ UNCHANGED <<queues, flags>>
      /\ \/ Fails
         \/ /\ Works /\ UNCHANGED <<state, host>> /\ run'.accepting = run.accepting
            /\ producer.open /\ producer' = Written(worker.cmd.kind)
            /\ worker' = Idle \/ (worker'.pc = "publish" /\ state # "stopping")
  BY ProcessPauseIs
<1>2. CASE Fails
  BY <1>2, FailsIs DEF TrackInv, Tracking
<1>3. CASE ~Fails
  <2> DEFINE kind == worker.cmd.kind
  <2>1. /\ Works /\ UNCHANGED <<state, host, control, clock, forced>>
        /\ run'.accepting = run.accepting
        /\ worker'.pc = "wait" \/ (worker'.pc = "publish" /\ state # "stopping")
    BY <1>1, <1>3, IdleIs DEF queues, flags
  <2>2. Live(Pauses) /\ ~Live({"stop"})
    <3>1. kind # "stop"
      BY <1>1 DEF Pauses
    <3> QED
      BY <1>1, <3>1, LiveIs
  <2>3. producer'.open /\ producer'.controls = Append(producer.controls, kind)
    <3>1. kind \in Events \cup {"anchor"}
      BY <1>1 DEF Pauses, Events
    <3> QED
      BY <1>1, <1>3, <3>1, WrittenIs, ZenonT(30)
  <2>4. Done
    BY <1>1, <1>3, <2>1, <2>2, <2>3 DEF Done
  <2>5. /\ Tracking' => Tracking
        /\ ~StopTaken /\ ~StopTaken' /\ ~Live({"start"})' /\ ~Live(Pauses)' /\ worker'.pc # "finish"
        /\ (StartQueued' <=> StartQueued) /\ (StopQueued' <=> StopQueued)
        /\ Captured("output", {"start"})' <=> Captured("output", {"start"})
        /\ Captured("output", {"stop"})' <=> Captured("output", {"stop"})
        /\ Captured("output", Pauses)' <=> Captured("output", Pauses)
        /\ UNCHANGED <<cb, obs, recordings, control, clock, host>>
        /\ ~StopIsTaken
    BY <2>4, DoneIs
  <2>6. /\ Len(producer'.controls) = Len(producer.controls) + 1
        /\ \A i \in 1 .. Len(producer.controls) : producer'.controls[i] = producer.controls[i]
        /\ producer'.controls[Len(producer.controls) + 1] = kind
    BY <1>1, <2>3, Counts, Appended
  <2>7. Skipped' = Skipped /\ (StartIsFirst' <=> StartIsFirst)
    BY <2>5 DEF Skipped, StartIsFirst
  <2>8. Taken = Len(producer.controls) + 1 /\ Taken' = Taken
    <3>1. Taken = Len(producer.controls) + 1 /\ Len(producer.controls) \in Nat
      BY <2>2, Counts
    <3>2. Taken' = Len(producer'.controls) + 0
      BY <2>5 DEF Taken
    <3> QED
      BY <2>6, <3>1, <3>2
  <2>9. ASSUME NEW n, Follow(n)
        PROVE  Follow(n)'
    <3>1. /\ Taken + n - Skipped <= Len(obs.sent)
          /\ \A i \in 1 .. Len(producer.controls) : producer.controls[i] = obs.sent[i]
          /\ kind = obs.sent[Taken]
          /\ \A i \in 1 + Skipped .. n : control[i].kind = obs.sent[Taken + i - Skipped]
      BY <2>2, <2>9 DEF Follow
    <3>2. \A i \in 1 .. Len(producer'.controls) : producer'.controls[i] = obs'.sent[i]
      <4> SUFFICES ASSUME NEW i \in 1 .. Len(producer.controls) + 1
                   PROVE  producer'.controls[i] = obs.sent[i]
        BY <2>5, <2>6
      <4>1. CASE i = Len(producer.controls) + 1
        BY <2>6, <2>8, <3>1, <4>1
      <4>2. CASE i \in 1 .. Len(producer.controls)
        BY <2>6, <3>1, <4>2
      <4> QED
        BY <4>1, <4>2, Counts, SMTT(30)
    <3> QED
      BY <2>5, <2>7, <2>8, <3>1, <3>2 DEF Follow
  <2>10. ASSUME NEW q \in 1 .. Len(control), StopIsQueued(q)
         PROVE  TrackInv'
    <3>1. Over /\ ~StartQueued
      BY <1>1, <1>3, <2>10 DEF StopIsQueued
    <3>2. Over'
      <4>1. ~Captured("output", {"start"})'
        BY <2>5, <3>1 DEF Over
      <4> QED
        BY <2>1, <2>5, <3>1, <4>1 DEF Over
    <3>3. Follow(q - 1)' /\ Len(obs'.sent) = Taken' + q - 1 - Skipped'
      BY <2>5, <2>7, <2>8, <2>9, <2>10 DEF StopIsQueued
    <3>4. StopIsQueued(q)' /\ q \in 1 .. Len(control')
      BY <2>5, <2>7, <2>10, <3>1, <3>2, <3>3 DEF StopIsQueued
    <3> QED
      BY <3>4 DEF TrackInv
  <2>11. ASSUME StopIsAhead
         PROVE  TrackInv'
    <3>1. ~StartQueued /\ ~Captured("output", {"start"})'
      BY <1>1, <1>3, <2>5, <2>11 DEF StopIsAhead
    <3>2. Follow(Len(control))'
      <4> PICK n : n = Len(control)
        OBVIOUS
      <4>1. Follow(n)'
        BY <2>9, <2>11 DEF StopIsAhead
      <4> QED
        BY <2>5, <4>1 DEF Follow
    <3>3. Len(obs'.sent) = Taken' + Len(control') - Skipped' + IF Captured("output", Pauses)' THEN 1 ELSE 0
      BY <2>5, <2>7, <2>8, <2>11 DEF StopIsAhead
    <3>4. /\ IF Captured("output", {"stop"})'
             THEN ~obs'.ours /\ (recordings' <= 1 => obs'.phase = "off")
             ELSE obs'.ours
          /\ Captured("output", Pauses)' => obs'.sent[Len(obs'.sent)] = cb'["output"].ev
      BY <2>5, <2>11 DEF StopIsAhead
    <3>5. StopIsAhead'
      BY <2>1, <2>5, <2>7, <2>11, <3>1, <3>2, <3>3, <3>4 DEF StopIsAhead
    <3> QED
      BY <3>5 DEF TrackInv
  <2> QED
    BY <2>5, <2>10, <2>11 DEF TrackInv
<1> QED
  BY <1>2, <1>3

\* A stop that was taken stays so until it is reported or the run fails.
LEMMA StopTracks ==
    ASSUME PinInv, RunInv, ProcessStop \/ DrainPasses \/ Authorize
    PROVE  TrackInv'
<1> USE DEF RunInv
<1>1. ASSUME Works, UNCHANGED <<control, clock>>, StopTaken, StopTaken' \/ worker'.pc = "finish",
             ~Live({"start"})', host'.reference = host.reference,
             producer'.open = producer.open, producer'.controls = producer.controls,
             forced => forced', ~Heading("cleanup"),
             state' \in {state, "stopping"}, run'.accepting => run.accepting, worker'.pc # "publish",
             ~Live({"start"})
      PROVE  TrackInv'
  <2>1. UNCHANGED <<cb, gate, obs, recordings, unload_requested>>
    BY <1>1 DEF Works, bounds
  <2>2. Tracking' => Tracking
    <3>1. Failing => Failing'
      BY <1>1, <2>1 DEF Failing
    <3>2. Stale => Stale'
      BY <1>1 DEF Stale
    <3> QED
      BY <1>1, <2>1, <3>1, <3>2, WasTracking DEF StopComing
  <2>3. ASSUME StopIsTaken
        PROVE  StopIsTaken'
    <3>1. ~Captured("output", {"start"})' /\ Over
      BY <2>1, <2>3 DEF StopIsTaken, Over, Captured
    <3>2. Over'
      BY <1>1, <2>1, <3>1 DEF Over
    <3>3. ~StartQueued'
      BY <1>1, <2>3 DEF StopIsTaken, StartQueued
    <3> QED
      BY <1>1, <2>1, <2>3, <3>2, <3>3 DEF StopIsTaken
  <2>4. \A q : ~StopIsQueued(q)
    BY <1>1 DEF StopIsQueued
  <2>5. ~StopIsAhead
    BY <1>1 DEF StopIsAhead
  <2> QED
    BY <2>2, <2>3, <2>4, <2>5 DEF TrackInv
<1>2. CASE ProcessStop
  <2>1. /\ worker.pc = "process" /\ worker.cmd.kind = "stop"
        /\ Works /\ UNCHANGED <<producer, queues, flags>>
        /\ worker'.pc = "drain" /\ worker'.then = "authorize"
        /\ state' = "stopping" /\ ~run'.accepting /\ host'.reference = host.reference
    BY <1>2, ProcessStopIs
  <2>2. StopTaken /\ ~Heading("cleanup") /\ ~Live({"start"})
    BY <2>1, LiveIs
  <2>3. StopTaken' /\ ~Live({"start"})'
    BY <2>1 DEF StopTaken, Heading, Drains, Live
  <2> QED
    BY <1>1, <2>1, <2>2, <2>3 DEF queues, flags
<1>3. CASE DrainPasses
  <2>1. /\ Works /\ UNCHANGED Draining /\ worker.pc \in Drains
        /\ worker'.pc = worker.then
    BY <1>3, DrainIs DEF DrainPasses, WorkerType, PinInv, TypeOK
  <2>2. UNCHANGED <<state, control, clock, forced, unload_requested, run, producer, host>>
    BY <2>1 DEF Draining, queues, flags
  <2>3. worker.then \in {"authorize", "cleanup", "release", "unload"}
    BY <2>1 DEF PinInv, DrainInv
  <2>4. CASE worker.then = "authorize"
    <3>1. StopTaken /\ ~Heading("cleanup") /\ ~Live({"start"}) /\ StopTaken' /\ ~Live({"start"})'
      BY <2>1, <2>4 DEF StopTaken, Heading, Drains, Live
    <3> QED
      BY <1>1, <2>1, <2>2, <2>4, <3>1
  <2>5. CASE worker.then = "cleanup"
    <3>1. Failing'
      BY <2>1, <2>5 DEF Failing, Heading
    <3> QED
      BY <3>1 DEF TrackInv, Tracking
  <2>6. CASE worker.then \in {"release", "unload"}
    <3>1. Heading("release") \/ Heading("unload")
      BY <2>1, <2>6 DEF Heading
    <3>2. unload_requested'
      BY <2>2, <3>1 DEF PinInv, GoneInv
    <3> QED
      BY <3>2 DEF TrackInv, Tracking, Failing
  <2> QED
    BY <2>3, <2>4, <2>5, <2>6
<1>4. CASE Authorize
  <2>1. /\ worker.pc = "authorize" /\ worker.cmd \in Commands /\ UNCHANGED queues
        /\ \/ Fails
           \/ /\ ~unload_requested /\ ~forced /\ ~forced' /\ Works
              /\ worker'.pc = "finish" /\ UNCHANGED <<state, run, host>>
              /\ UNCHANGED producer \/ producer' = Written("stop")
    BY <1>4, AuthorizeIs
  <2>2. CASE Fails
    BY <2>2, FailsIs DEF TrackInv, Tracking
  <2>3. CASE ~Fails
    <3>1. producer'.open = producer.open /\ producer'.controls = producer.controls
      <4>1. "stop" \in Events \cup {"anchor"} /\ "stop" \notin Pauses
        BY DEF Events, Pauses
      <4> QED
        BY <2>1, <2>3, <4>1, WrittenIs
    <3>2. StopTaken /\ ~Heading("cleanup") /\ ~Live({"start"})
      BY <2>1 DEF StopTaken, Heading, Drains, Live
    <3>3. ~Live({"start"})'
      BY <2>1, <2>3 DEF Live
    <3> QED
      BY <1>1, <2>1, <2>3, <3>1, <3>2, <3>3 DEF queues
  <2> QED
    BY <2>2, <2>3
<1> QED
  BY <1>2, <1>3, <1>4

LEMMA NextTracks ==
    ASSUME PinInv, OrderInv, RunInv, [Next]_vars
    PROVE  TrackInv'
<1> USE DEF RunInv
<1>1. ASSUME ~host'.reference \/ Failing'
      PROVE  TrackInv'
  BY <1>1 DEF TrackInv, Tracking
<1>2. CASE Load
  <2>1. ~host.reference /\ (UNCHANGED host \/ host' = InstallCallbacks(RetainModule(host)))
    BY <1>2 DEF Load, PinInv, GoneInv
  <2>2. ~host'.reference
    BY <2>1, StillTyped DEF InstallCallbacks, RetainModule, HostType
  <2> QED
    BY <1>1, <2>2
<1>3. CASE WorkerDropsAll
  <2>1. /\ worker'.pc = "drain"
        /\ unload_requested' \/ worker'.then = "cleanup"
    BY <1>3, WorkerDropsAllIs DEF Works
  <2>2. Failing'
    BY <2>1 DEF Failing, Heading, Drains
  <2> QED
    BY <1>1, <2>2
<1>4. CASE FinishStop \/ Cleanup
  <2>1. host' = ReleaseOutput(host)
    BY <1>4, FinishStopIs, CleanupIs
  <2> QED
    BY <1>1, <2>1, HostIs, StillTyped
<1>5. CASE WorkerUnloads
  <2>1. worker.pc = "unload" /\ Works
    BY <1>5, WorkerUnloadsIs
  <2>2. unload_requested'
    BY <2>1 DEF PinInv, GoneInv, Heading, Works
  <2> QED
    BY <1>1, <2>2 DEF Failing
<1>6. CASE WorkerReleases
  <2>1. host' = ReleaseOutput(host)
    BY <1>6 DEF WorkerReleases
  <2> QED
    BY <1>1, <2>1, HostIs, StillTyped
<1>7. CASE WorkerExits
  <2>1. unload_requested' /\ worker.pc = "exit"
    BY <1>7 DEF WorkerExits, Processing, flags, PinInv, GoneInv
  <2> QED
    BY <1>1, <2>1 DEF Failing
<1>8. CASE RequestUnload
  BY <1>1, <1>8 DEF RequestUnload, Failing
<1>9. CASE JoinWorker
  <2>1. ~host.reference /\ UNCHANGED host
    BY <1>9 DEF JoinWorker, PinInv, GoneInv
  <2> QED
    BY <1>1, <2>1
<1>10. CASE Quiet \/ (\E ev \in Events : Heard(ev))
  BY <1>10, QuietTracks, HeardTracks
<1>11. CASE (\E ev \in Events : Refuses(ev)) \/ (\E ev \in Events : Catches(ev))
  BY <1>11, RefusesTracks, CatchesTracks
<1>12. CASE (\E kind \in {"start", "stop"} \cup Pauses : Adds(kind))
  BY <1>12, AddsTracks
<1>13. CASE AddsScene \/ (\E kind \in {"anchor", "tick"} : Samples(kind))
  BY <1>13, SamplingTracks
<1>14. CASE OnRecordingStarting /\ state = "idle"
  BY <1>14, BindTracks
<1>15. CASE WorkerTakes
  BY <1>15, TakesTracks
<1>16. CASE ProcessStart \/ Publish \/ ProcessClock \/ ProcessScene
  BY <1>16, StartTracks, PublishTracks, SampleTracks
<1>17. CASE ProcessPause \/ ProcessStop \/ DrainPasses \/ Authorize
  BY <1>17, PauseTracks, StopTracks
<1> QED
  BY <1>2, <1>3, <1>4, <1>5, <1>6, <1>7, <1>8, <1>9, <1>10, <1>11, <1>12, <1>13, <1>14, <1>15,
     <1>16, <1>17, Steps

-----------------------------------------------------------------------------
(* What a run leaves behind *)

\* A report says success only when a stop was written, with everything that holds then.
LEMMA NextWhole ==
    ASSUME PinInv, OrderInv, RunInv, SuccessIsWhole, [Next]_vars
    PROVE  SuccessIsWhole'
<1>1. ASSUME UNCHANGED report
      PROVE  SuccessIsWhole'
  BY <1>1 DEF SuccessIsWhole
<1>2. ASSUME report' = NoReport
      PROVE  SuccessIsWhole'
  BY <1>2 DEF SuccessIsWhole, NoReport
<1>3. CASE FinishStop
  <2>1. \/ /\ producer.stopped
           /\ report' = [successful |-> TRUE, records |-> producer, sent |-> obs.sent]
        \/ report' = NoReport
    BY <1>3, FinishStopIs
  <2>2. CASE /\ producer.stopped
             /\ report' = [successful |-> TRUE, records |-> producer, sent |-> obs.sent]
    BY <2>2 DEF SuccessIsWhole, RunInv, FinishInv, OrderInv
  <2> QED
    BY <1>2, <2>1, <2>2
<1>4. CASE Cleanup
  BY <1>2, <1>4, CleanupIs
<1>5. CASE \/ Quiet \/ (\E ev \in Events : Heard(ev))
           \/ (\E ev \in Events : Refuses(ev)) \/ (\E ev \in Events : Catches(ev))
           \/ (\E kind \in {"start", "stop"} \cup Pauses : Adds(kind))
           \/ (\E kind \in {"anchor", "tick"} : Samples(kind)) \/ AddsScene
  BY <1>1, <1>5 DEF Quiet, Heard, Refuses, Catches, Enters, Adds, Samples, AddsScene, Settles
<1>6. CASE OnRecordingStarting /\ state = "idle"
  BY <1>1, <1>6, BindIs
<1>7. CASE Load \/ RequestUnload \/ JoinWorker
  BY <1>1, <1>7 DEF Load, RequestUnload, JoinWorker
<1>8. CASE WorkerTakes \/ WorkerDropsAll
  BY <1>1, <1>8, WorkerTakesIs, WorkerDropsAllIs DEF Waiting
<1>9. CASE ProcessStart \/ Publish \/ ProcessClock \/ ProcessScene \/ ProcessPause \/ ProcessStop
  BY <1>1, <1>9, ProcessStartIs, PublishIs, ProcessClockIs, ProcessSceneIs, ProcessPauseIs, ProcessStopIs
<1>10. CASE DrainPasses \/ Authorize
  BY <1>1, <1>10, AuthorizeIs DEF DrainPasses, Draining
<1>11. CASE WorkerUnloads \/ WorkerReleases \/ WorkerExits
  BY <1>1, <1>11, WorkerUnloadsIs DEF WorkerReleases, WorkerExits, Processing
<1> QED
  BY <1>3, <1>4, <1>5, <1>6, <1>7, <1>8, <1>9, <1>10, <1>11, Steps

LEMMA InitRuns == Init => RunInv /\ SuccessIsWhole
<1> SUFFICES ASSUME Init
             PROVE  RunInv /\ SuccessIsWhole
  OBVIOUS
<1>1. /\ state = "unloaded" /\ control = <<>> /\ clock = NoCommand /\ scenes = <<>>
      /\ ~forced /\ ~unload_requested /\ ~run.accepting /\ ~run.accepted
      /\ ~producer.open /\ ~producer.stopped /\ ~host.reference /\ worker.pc = "off"
      /\ \A c \in Callers : cb[c].pc = "out"
      /\ ~obs.ours /\ ~report.successful
  BY DEF Init, NoRun, NoProducer, NoReport, Out, At
<1>2. ~StartQueued /\ ~AnchorQueued
  <2>1. Len(control) = 0
    BY <1>1
  <2> QED
    BY <1>1, <2>1 DEF StartQueued, AnchorQueued, NoCommand
<1>3. ~Captured("output", {"start"}) /\ cb["video"].pc # "captured"
  BY <1>1 DEF Captured, Callers
<1>4. \A kinds : ~Live(kinds)
  BY <1>1, WaitIs
<1>5. ~Fresh
  BY <1>2, <1>3 DEF Fresh
<1> QED
  BY <1>1, <1>2, <1>3, <1>4, <1>5 DEF RunInv, PendingInv, OnceInv, AnchorInv, IdleInv, SignalInv,
     TrackInv, Tracking, FinishInv, SuccessIsWhole

\* The strengthened invariant holds: whatever the order of the callbacks, the worker and the
\* unload, the signals of a run that may succeed are written, taken and queued in their order.
THEOREM Inductive == Spec => []IInv
<1>1. Init => IInv
  BY InitPins, InitOrders, InitRuns DEF IInv
<1>2. IInv /\ [Next]_vars => IInv'
  <2> SUFFICES ASSUME PinInv, OrderInv, RunInv, SuccessIsWhole, [Next]_vars
               PROVE  PinInv' /\ OrderInv' /\ RunInv' /\ SuccessIsWhole'
    BY DEF IInv
  <2>1. PinInv' /\ OrderInv' /\ SuccessIsWhole'
    BY NextPins, NextOrders, NextWhole
  <2>2. PendingInv' /\ OnceInv' /\ AnchorInv' /\ IdleInv'
    BY NextPending, NextOnce, NextIdles
  <2>3. SignalInv' /\ TrackInv' /\ FinishInv'
    BY NextSignals, NextTracks, NextFinishes DEF RunInv
  <2>4. RunInv'
    BY <2>2, <2>3 DEF RunInv
  <2> QED
    BY <2>1, <2>4
<1> QED
  BY <1>1, <1>2, PTL DEF Spec

\* The variables keep their types.  (ObsAdapter's state in obs_adapter.hpp)
THEOREM TypeCorrect == Spec => []TypeOK
<1>1. IInv => TypeOK
  BY DEF IInv, PinInv
<1> QED
  BY <1>1, Inductive, PTL

\* A run ends in one of two ways, for any number of recordings, signals and faults: it is
\* reported as successful and its journal holds every signal in order between anchor and stop,
\* or no failure, output, signal or producer of it is left when the adapter is idle, and no
\* command after an only recording.  (process_stop, force_cleanup, reset_run)
THEOREM RunsAlwaysEndWhole == Spec => []RunsEndWhole
<1>1. IInv => RunsEndWhole
  <2> SUFFICES ASSUME IInv
               PROVE  SuccessIsWhole /\ IdleIsClean
    BY DEF RunsEndWhole
  <2>1. IdleIsClean
    BY DEF IInv, RunInv, IdleInv, IdleIsClean
  <2> QED
    BY <2>1 DEF IInv
<1> QED
  BY <1>1, Inductive, PTL

=============================================================================
