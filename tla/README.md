# matrix-auto-cutter: models and proofs

TLA+ modules of matrix-auto-cutter, the TLC configurations that check them on
small instances, and proofs that the TLA+ proof system checks for every instance.
Paths are relative to the repository; `mac/` stands for `src/matrix_auto_cutter/`.

## 1. The system

OBS records a video. A plugin writes a journal of what happened during the
recording. A runner turns each finished journal into a sidecar, proposes cuts,
lets the user review and approve them and renders the approved video. A second,
independent chain makes shorts from a rendered video.

| component | code | state it keeps | operations | must hold |
|---|---|---|---|---|
| OBS journal adapter | `native/src/obs_adapter.cpp`, `obs_plugin.cpp` | callback gate, three bounded queues, state of a run | load, unload, start, stop, pause, scene and clock callbacks, worker loop | a run is reported whole or leaves nothing; the module stays loaded while it is used |
| journal producer | `native/src/journal_producer.cpp` | ring of snapshots, state word, stable result, journal file | start, submit, confirm_durable, normal_stop, shutdown, writer loop | order, an honest stop record, calls that end |
| journal reader, sidecar rules | `mac/journal.py`, `sidecar.py`, `protection.py`, `timebase.py`, `mac/phase2/finalizer/loader.py`, `sidecar_builder.py` | none | load, validate, map events to frames | what the builder writes every reader accepts |
| close gate | `mac/phase2/close_gate/gate.py`, `ownership.py` | locks and handles of one source | `run_close_gate` | all or nothing is held |
| close-gate lease | `mac/phase2/close_gate/lease.py` | state, users, close request | usage, io session, recheck, commit permit, close | nothing is freed under a user |
| cancellation token | `mac/phase2/cancellation.py` | cancelled, commit sequence | cancel, begin an irreversible commit | a permitted commit is not cancelled |
| file locks | `mac/phase2/locks.py` | lock files, guards | acquire, guard, close | one holder |
| atomic publishing | `mac/phase2/atomic_project.py`, `artifacts.py` | project state, immutable artefacts | create-only publish, compare and replace | nothing unseen is overwritten |
| source confirmation and hash | `mac/phase2/source_confirmation`, `source_hash` | evidence, receipt | confirm, hash | evidence is of one recording |
| media probe | `mac/phase2/probe` | one child process, a capability | validate ffprobe, probe, choose streams | the child is gone, the profile is true |
| manual finalizer | `mac/manual_finalizer.py` | inputs, gate, lease | one finalization with bounded retries | whoever holds a lease holds all of it |
| sidecar finalizer | `mac/phase2/finalizer` | intent, temp file, sidecar, receipt, state file | finalize, recover | one commit, honest evidence, retries |
| product runner | `mac/product_runner.py` | session per recording, render thread | poll, claims, finalizer, proposal, review, render, shutdown | nothing twice, nothing forgotten |
| cut proposal | `mac/cut_proposal.py` | proposal file | analyse, propose | protected frames stay, any choice renders |
| selection and approval | `mac/selection.py`, `approval.py` | selection and approval file | edit, decide, authorize | approval binds |
| render | `mac/render.py` | requests, attempts, results, final video | submit, render, reuse | a success has its video |
| shorts chain | `mac/shorts/kette.py` | `kette.json`, outputs of seven stages | run from a stage, skip | stale work is not reused |
| judgments | `mac/shorts/judge.py`, `judge_server.py`, `urteilslauf.py`, `auswahl.py` | judgments, build list | judge, count, save, select, build | an answered judgment stays |
| shorts build and clean-up | `mac/shorts/build.py`, `cursor_track.py`, `aufraeumen.py` | files of a candidate | build, outline, crop, delete | an abort is clean; words stay whole; the crop is calm |
| review window and page, runner start, render stages, repeat detection, scripts | see `PROJECT.json` | none of their own | | not modelled, section 8 |

How they interact. The adapter calls the producer from one worker thread; the
runner reads the journal once its stop record is there. The runner calls the
manual finalizer, which opens a project, passes the close gate (locks, handle,
snapshots), receives a lease, confirms and hashes the source inside usages of that
lease, probes it with a child process, and calls the sidecar finalizer. Runner,
review window, review page and render thread share only files: session,
selection, approval, request, result and the video. Render thread and poll loop
live in one process, the review in another. Chain, judgment page, judgment run,
build and clean-up share a job directory.

What is hard. Threads: users and closers of a lease, two finalizers of one
recording under two names, poll loop and render thread, callbacks of OBS against
worker and unload, submitters against writer and shutdown, workers of a build
against Ctrl+C and the clean-up, threads of the judgment page. Crashes: finalizer,
runner, render and chain persist several files one after the other and are
restarted at any point. Stale reads: gates read an approval, compute for minutes
and act on it; a recording is hashed while another program may write it. Time
limits: shutdown of producer and runner give up; the probe races its child.
Arithmetic at boundaries: cuts, words, drives of the crop and pauses meet at any
frame. Every such place is listed at its line in `PROJECT.json` under `hazards`.

## 2. Modules

`X.tla` models a component, `MCX.tla` instantiates it, `MCX*.cfg` give it
constants. Definitions named `A_Something` next to a definition `A` are
deliberately wrong variants of `A`: a checked property fails when the variant takes
the place of `A`, which shows that it speaks about that code. Specifications never
use the variants. `X_proofs.tla` holds the theorems about `X` and their proofs; the
inductive invariant `IInv` they rest on, in named parts, is in `X` itself, in a section
on why the properties hold.

### Recording

**ObsAdapter** (`obs_adapter.cpp`, `obs_plugin.cpp`). Three threads of OBS
(graphics, output, interface), the worker and unload. `gate` counts who is inside
a callback; control, clock and scene commands lie in three bounded queues and the
worker restores their order by the smallest number. Stopping drains, authorizes,
confirms and stops; a full queue, a lost clock or a failing call forces the
failure. The producer is its interface here: accept, confirm, stop, shutdown, each
of which may fail.

**JournalProducer** (`journal_producer.cpp`). Callers, the ring, the state word
with its compare-and-swaps, the mutex that callers only try and the stop takes,
and the writer. A step is what runs between two accesses to something another
thread changes: testing the state and storing the snapshot are two steps of a
caller, and the writer loads the write position, `stop_requested` and
`recording_active` in three. A failing write leaves nothing, a torn line or an
unflushed line. The adapter calls the producer from one thread; the model lets a
second submit too, as the queue contract asks.

### From journal to sidecar

**LeaseAuthority** (`lease.py`, `cancellation.py`). One issued lease and the
threads that use it, one action per critical section of its condition variable; a
waiting thread is an action that is not enabled. Callbacks, the measurement of a
recheck and the release of the four resources run outside the lock and are steps
of their own. **LeaseLifetime** is what a lease promises: freed once, after the
last user, no permit once it drains, freed in the end.

**FileLocks** (`locks.py`) has the ownership files and the guard of the project
lock, **CloseGate** (`gate.py`, `ownership.py`) the four acquisitions in order with
every early return, **SourceConfirmation** (`source_confirmation`, `source_hash`)
the steps inside the lease, block by block for the hash, and **ManualRun**
(`manual_finalizer.py`, `atomic_project.py`) composes them for several processes:
each may fail at a call, be cancelled or crash, while the recorder writes on and
another program touches the state file. Two paths may name one file.

**ProbeProcess** (`process_native.py`, `runner.py`) is a child with a job object,
two pipes and four reasons to end; **MediaProbe** (`binary.py`, `source_probe.py`)
composes it with the held ffprobe, its capability and the two snapshots of the
recording. **StreamSelection** (`stream_selection.py`) chooses the streams.

**Finalizer** (`mac/phase2/finalizer`). Two threads that run `finalize` and
`recover` for one recording, with crashes before each file operation,
cancellation, operations that fail or that take effect and report an error, lost
intents, foreign files, and recovery with and without a journal. Project lock and
lease are two variables: what LeaseAuthority and CloseGate provide. `confirmed` is the
run whose evidence the open lease has: an intent counts as one's own only while that
is the evidence it was written under, so a run that starts again after a crash or
under a new lease is refused its own intent (`IntentRefused`).
**SidecarCommit** is the promise: one commit at the target, never replaced, and
nothing else reported as finalized.

**SidecarRules** builds a sidecar from a journal and checks it as each reader does;
**JournalBundle** loads a journal or a bundle of four files; **Protection** has the
protected ranges.

### From sidecar to video

**ProductRunner**. The poll loop takes one recording after the other through
source, finalizer, proposal, review and render; each step ends with at most one
file replaced, and between two steps the render thread or the user acts or the
process dies. `session` is the session file, `work` the copy the main thread read,
so stale copies are visible. The thread a process leaves behind when its shutdown
stops waiting is `"former"`. The finalizer is one action with the outcomes
Finalizer has.

**CutProposal** (`cut_proposal.py`, and `build_keep_segments` of `render.py`): from
the silences of the log over buffers, rounding, outro tail, lead-in and protected
ranges to proposed and rejected cuts, and the segments that remain of a selection. Each loop of the code
is a fold of one operator per round (`Read`, `Join`, `Judge`, `PassTail`, `PassLead`, `TakeActive`).

**RenderAttempt** (`render.py`, `approval.py`, `selection.py`). One final name,
threads that serve requests, a user who goes on selecting, deciding and
requesting. Every gate is two steps, reading and answering, because the recording
is hashed in between. Partial file, link to the final name and result are separate
steps.

### Shorts

**ShortsCandidates** parses, merges, judges and selects candidates; **ShortsChain** has
the seven stages with their state file and what they leave when they fail or are killed
(of the bundling only the file and its verdict), the judgment page with its parallel threads, and the
run that counts, saves, selects and builds. **ShortsBuild** has the pool of
workers, the directories and processes of a candidate, Ctrl+C and the clean-up.
**ShortBoundaries** (`build.py`, `level_cut.py`, `loop_point.py`) finds where a short begins and ends from words and
measured tone; **CursorTrack** (`cursor_track.py`) is the crop that follows the
pointer: scene windows, drives, median, seams and the filter commands.

**Rules** and **MCRules** ask the seven pure modules one question at a time: a step
chooses the outline of a question, another completes it, and each property compares the
answer with a definition of its own. Rules has the questions about ShortBoundaries,
StreamSelection and CutProposal, which are answered for every input by a theorem; MCRules extends it
with the others and gives the constants their values.

## 3. Runs

| run | instance | what it shows |
|---|---|---|
| `lease` | 2 threads, 3 calls each, fair | types; no resource is freed under a user; one io session; all closers return the diagnostics of the one release; every close returns; refinement of LeaseLifetime with its fairness |
| `finalizer` | 2 threads, 2 runs, 2 attempts, a crash, a cancellation, a fault, a lost and a foreign file, fair | receipt and state speak only of the commit; a moved sidecar is never cancelled; retries are idempotent; refinement of SidecarCommit; the target lock becomes free |
| `runner` | 2 recordings, 2 starts, a fault, a decision, 2 requests, a shutdown that gives up, fair | review and FFmpeg are started at most once; a session claims only what exists; every journal settles, a valid request is started, no session stays "rendering" |
| `render_attempt` | 1 thread, 2 cuts, 2 edits, 2 decisions, 2 requests, a crash, 2 faults, a change from outside | a plan holds the requested cuts and the video is of the approved source; a success has its video; reuse is honest |
| `render_other_cuts` | the same without faults | expected violation, section 6 |
| `journal` | 2 callers, ring of 2, 3 submissions, a sink failure, fair | snapshots in order and once; a stop record closes a journal without a gap, what was confirmed is written; calls return and the writer ends |
| `obs` | 1 recording, 2 signals, control queue of 2, scene queue of 1, a fault, fair | a run reported successful holds every record in order, any other leaves nothing; the module stays while used; a stop settles |
| `confirmation` | 2 processes, 2 projects, 2 paths to one file, a fault, a change, 2 runs | a lease is held whole and alone and nothing is left behind without one; evidence is of one unchanged recording; no unseen overwrite |
| `probe` | limit 1, 2 faults, a replaced file | the tree of the child is gone; a profile is of one recording by the validated ffprobe; the probe returns |
| `shorts` | 3 chain runs, 2 sessions, 2 page threads, 2 judgments, a fault | an answered judgment stays; what the state file calls done is whole; the build list holds only what was judged as it stands |
| `shorts_build` | 2 candidates, 2 workers, 2 stages of a candidate (the code has 4), 2 builds, a fault, a clean-up, fair | an aborted build leaves no process and no unfinished directory of its own; a reported short passed its checks; the build ends |
| `rules` | the bounded inputs below | measured words stay whole; the proposal is sound; builder and readers agree, a bundle is of one production; the choice of streams is stable; the crop is calm |

### Bounds

Two threads with three calls each are a user and a closer, two closers, a usage
with an io session in it, and a closer that used the lease before; more threads are
what the theorems of section 4 are for. A crash, a cancellation and a fault are
each possible before every step, so one of each meets all combinations with one
another. A finalizer hazard needs an attempt that stops half-way and one that
retries or competes: two attempts on two threads and two runs. A runner hazard
needs a start that dies or leaves its thread behind and one that takes up what it
left: two starts; two recordings because one copy of the session is kept for the
current one. A render hazard needs an earlier and a later request with different
cuts. A ring of two with three submissions fills, overflows and wraps around. In
the adapter two signals of any kind fill the scene queue and the control queue; that
more recordings change nothing is a theorem (section 4), except for what section 6 says of
commands left in the control queue. In
`confirmation` two processes on two projects and two names of one file are the
cases that the three locks must tell apart. In `shorts` three chain runs are a run,
one that crashes or replaces the candidates under an open page, and one that skips or repeats
what it left. In
`shorts_build` one candidate may be finished, running or waiting when Ctrl+C falls.

`rules` scales durations down and keeps which of them is the longer one, as the table
shows. Words and tone: three word lists, two judged spans, every tone of eight blocks in
three classes, one band, equal in all windows. Proposals: every pattern of silences in
twelve frames of fourteen recordings: ten with outro, intro, marker or stinger, four whose outro is
not resolved for another reason; every selection of the proposed cuts. Journals: every three records between start and stop, without pair
events. Bundles: every mixture of four files from five productions. Streams: every
list of four. Crop: a frame is two ticks, 10 of 18 columns are shown, the margin
is two, delay two frames, rest three, a drive two to three; a log line every three
frames with the pointer at four places, spans of up to 16 frames, every order of
three scenes.

| constant | in the code | in `rules` |
|---|---|---|
| minimum silence, handles, minimum cut, minimum island | 1200, 350, 500, 500 ms of 60 frames a second | 5 and 1 ticks, 2 and 3 frames of 2 ticks |
| intro: cut offset, protected flow; outro: protected frames | 85, 450; 900 frames | 1, 2; 4 frames |
| clock: sample gap, residual, drift, tolerance, buffers at edge and event | 5 s, 50 ms, 1000 ppm from 16.7 s on, 6 frames, 1000 and 250 ms | 6 ticks, 1 frame, one half from 7 ticks on, 1, 1 and 1 frames |
| short: least span, inclusion, shift, pad | 5000, 150, 1500, 200 ms | 3, 1, 2, 1 blocks |
| tone: lead-in search, at most, rest, interruption | 3000, 500, 150, 120 ms | 4, 2, 1, 1 blocks |
| end of a word: search, farthest, fallback, interruption | 150, 800, 65, 20 ms | 3, 3, 1, 1 blocks |
| beginning of a word: search, confirmation, forward | 120, 30, 60 ms | 1, 1, 1 block |
| pauses at end and beginning, neighbour, window | 80, 30, 250, 250 ms | 2, 1, 2, 2 blocks |
| least lingering, fade-in | 60, 40 ms | 1, 1 block |
| crop width, widest and default offset, margin, reserve | 1728, 832, 416, 460, 250 of 2560 columns | 10, 8, 4, 2, 2 of 18 |
| median, delay, rest, drive | 375, 300, 1000, 250 to 450 ms | 12, 4, 6, 3 to 6 ticks, a frame is 2 |

Scaling loses what depends on the exact ratio of two durations; the properties are
stated with the constants, so that another scale is another configuration.

Symmetry is used on threads, processes and cuts, in runs without liveness only. Deadlock is
checked where every thread ends in a `Done` step or can always go on; the other
configurations say that their system may come to rest: no more starts, requests,
submissions or faults within the bounds, or the one answer of a pure question.

### Fairness

A thread that can run does. Cancelling, failing, crashing, deciding, replacing
files and calling are never fair.

- lease, finalizer: each thread's steps; callbacks of a lease have time limits.
- runner: the poll loop is strongly fair per recording. `scan_once` takes every
  journal at every poll, but the model's loop is at one recording at a time, and
  "take recording r" is enabled only between two.
- producer: a caller goes on with its call, the writer with everything but the
  disk: a write may block for ever, so the end of a call rests on the time limits of the
  code and the end of the writer has the blocked disk as its exception.
  `start_recording` has no time limit and is not claimed to return.
- adapter: what is inside a callback leaves it, ticks come, the worker runs; the
  drain is strongly fair, because a callback is short against the time between two.
- probe: the calling thread and the clock. Nothing is assumed of the child.
- build: threads run; an ffmpeg ends, since it has a time limit.

## 4. Proofs

Eight modules hold proofs. For every value of the constants that the assumptions
allow they prove of nine specifications that an invariant `IInv` is inductive (theorem
`Inductive`, one lemma per action, one lemma joining them), that types are kept
(`TypeCorrect`), and then what the runs check on small instances. `ManualRun_proofs` also
holds the proofs about LeaseAuthority (`LeaseInv`), `Shorts_proofs` those about ShortsBuild, ShortsChain (`ChainInv`)
and the boundaries of a short, `MediaProbe_proofs` those about the choice of streams, `RenderAttempt_proofs` those about
the proposal of cuts, and `JournalProducer_proofs` those about the reader of JournalBundle, as an instance. The pure rules of `Rules` need no invariant of
their own: the proofs are about what the operators answer.

| module | theorem | what holds | assumed of the constants |
|---|---|---|---|
| `Finalizer_proofs` | `EvidenceAlwaysFollows` | `EvidenceFollowsCommit` | names of threads, runs and files are distinct |
| | `CommitIsNeverCancelled` | `CommitIsNotCancelled` | |
| | `OneAtTarget` | two attempts are never between taking and freeing the target lock | |
| | `RetryIsAlwaysIdempotent` | `RetryIsIdempotent`, of steps | |
| | `ImplementsSidecarCommit` | `ImplementsPromise`: it refines SidecarCommit | |
| `RenderAttempt_proofs` | `ApprovalIsBinding` | `ApprovalBinds` | |
| | `ReuseIsAlwaysHonest` | `ReuseIsHonest`, of steps | |
| | `SuccessStaysThere` | `SuccessIsThere` | `OneThread` |
| | `ProposalIsAlwaysSound` | `ProposalIsSound`, of Rules | `ProposalsAssumption`, explained below |
| `JournalProducer_proofs` | `OrderIsKept` | `WrittenInOrder` | a ring of at least one slot, the owner is a caller |
| | `JournalStaysHonest` | `JournalIsHonest` | |
| | `BundlesAreWhole` | a bundle is loaded exactly when it is whole, for any files | |
| `ProductRunner_proofs` | `NothingHappensTwice` | `NothingTwice` | |
| | `SessionsFollowDisk` | `SessionFollowsDisk` | |
| `MediaProbe_proofs` | `ChildIsAlwaysGone` | `ChildIsGone` | |
| | `ProfileIsAlwaysTrue` | `ProfileIsTrue` | |
| | `SelectionIsAlwaysStable` | `SelectionIsStable`, of Rules | indexes, sizes and ranks are numbers |
| `ManualRun_proofs` | `LeasesAreAlwaysOwned` | `LeasesAreOwned` | `Nobody` is not a process |
| | `EvidenceIsAlwaysOfOneRecording` | `EvidenceIsOfOneRecording` | |
| | `NothingUnseenIsOverwritten` | `NoUnseenOverwrite`, of steps | |
| | `NeverFreedWhileUsed` | `HeldWhileUsed` | finitely many threads |
| | `OneIoSession` | `IoIsExclusive` | |
| | `AllClosersAgree` | `ClosersAgree` | |
| | `ImplementsLifetimeSafety` | every step is one of LeaseLifetime or a stutter | |
| `ObsAdapter_proofs` | `PinnedAlways` | `PinnedWhileUsed` | |
| | `RunsAlwaysEndWhole` | `RunsEndWhole` | |
| `Shorts_proofs` | `AbortIsAlwaysClean` | `AbortIsClean` | indices are positive numbers, finitely many candidates and workers |
| | `ReportedShortIsAlwaysChecked` | `ReportedShortIsChecked` | |
| | `AnsweredJudgmentAlwaysStays` | `AnsweredJudgmentStays` | none |
| | `BuildListIsAlwaysJudged` | `BuildListIsJudged`, of steps | none |
| | `DoneIsAlwaysWhole` | `DoneIsWhole` | `FehltAssumption`: no file is not one of the files |
| | `MeasuredWordsAlwaysStayWhole` | `MeasuredWordsStayWhole`, of Rules | durations are natural numbers, words follow one another |

Bounds are natural numbers, of any size; threads, attempts, recordings, processes, projects, paths and files are any sets unless the
table says otherwise. All of this is named in `ASSUME`s of the module that declares the
constants, except `OneThread`, a hypothesis of its one theorem.

None of these properties is inductive by itself. What each needs besides:

**LeaseAuthority.** The closer does not look at the threads, it looks at counters, in two
waits with changes of state in between. `LeaseInv` says that the counters count exactly the
threads inside (`CountersExact`, which needs finite cardinalities and that nobody enters
a callback twice, `EntryInv`), that there is one active closer whose place fixes the
state of the record (`CloserInv`: after the first wait no usage enters because a close
is requested, after the second nobody at all), and what a release leaves behind
(`ReleaseInv`).

**Finalizer.** Whoever is at the target holds its lock (`LockInv`), and the place of a
thread says what it has: a permit, an intent, a temp file, a look at the target that is
still right because nobody else can be there (`PlaceInv`). A crash frees the lock and
leaves the files, so what is committed must be tied to the intent on disk and not to a
thread (`IntentInv`), as long as no intent is lost. What a crash or the end of the lease
does take away is the evidence an intent was made under: `confirmed` is empty then, and `MayAnswer`
says who may still answer for the committed generation, an attempt of the same run or a recovery
while the lease of that intent is open, or a recovery that has no lease and compares none. `RetryIsIdempotent`
is about these; everyone else is refused, as the code does. The refinement maps the
sidecar and the acknowledged generations; every step but the commit and the
acknowledgements is a stutter, and the two others need `PlaceInv` to be
steps of the promise.

**RenderAttempt.** The gates read and answer in two steps, with edits, decisions and
foreign changes in between. A decision is identified by its time (`DecisionInv`), so an answer
that carries a time carries the cuts; `CarriedInv` follows them from gate to gate.
`SuccessIsThere` holds of one render thread. With two it does not (TLC, `Threads` with two elements): an
attempt that is refused at its link removes a final file that is equal to its own,
though an earlier success points to it. `product_runner.py:1075` starts no
render while its thread lives, so two of them meet only across a shutdown whose wait of 15 seconds gave up, or across
two runners.

**JournalProducer.** Positions run on and slots are taken modulo the capacity: `RingInv`
says which snapshot lies between the two positions, and needs lemmas on the
remainders of numbers less than a ring apart. `StateInv` joins state word and writer;
`StopInv` says why no gap lies before a stop: the writer still trusts every line before
it, or it has read an accepted stop. `DurableInv` ties confirmations to the file.

**ProductRunner.** Three copies of a session (on disk, read by the loop, carried by a render thread) are
written over each other. `CopiesInv` says what every copy may be relied on for,
wherever it is kept (`Good`), so that a stale copy written back undoes nothing that
counts; `PathInv` says what the loop knows at each step; `AttemptInv` which request a
render thread that was not left behind belongs to.

**MediaProbe.** `ProcessInv` (in ProbeProcess) follows child, job object and pipes
through every way out of a run: what is created is either named by the place of the caller or
unwound. A version is never used again, so a recording that is the expected one now was it all
the time (`RecordingInv`); the held ffprobe cannot be replaced between inspection and
run (`BinaryInv`); `AnswerInv` carries what was validated to the answer.

**ManualRun.** The composition of FileLocks, CloseGate and SourceConfirmation, with one
invariant over all four modules. `Owns` lists what a process holds at each place from
the project lock on, so the locks keep two processes apart by project, by path and by file.
Contents of a recording only grow: a block that is hashed lies between the first
snapshot and now, so a recording that still has the first snapshot at the end had it at
every block (`Hashes`, `Witnessed`). `Replaces` says what can have come since the second read
of the state file.

**ObsAdapter.** `PinInv` is about who is inside: the counters of the gate count exactly the
threads in a callback (`CallersInv`), and what the worker waited for still holds when it goes
on, because the signals are disconnected or the gate is closed (`DrainInv`, `GoneInv`).
`OrderInv` gives the three queues one order: every number in a queue is above what is written
and what the worker holds, so the smallest front is the next one. Of the queues alone a successful report cannot be
followed, since a command of one recording may lie before the start of the next. `TrackInv`
says what a run that may still succeed has: the signals of OBS are, in this order, written,
taken and queued, and its stop is taken (`StopIsTaken`), in a queue (`StopIsQueued`) or still to come
(`StopIsAhead`). What breaks the chain, a refused command or one of another
recording ahead of the start (`Stale`), has forced a failure or will (`Failing`). `PendingInv`, `OnceInv` and `AnchorInv` say that a start and
its anchor come once and in this order; `IdleInv` what an adapter between two runs may
have; `FinishInv` that a stop that was written stands until it is reported.

**ShortsBuild.** `PoolInv`: a candidate is in the queue, with one worker or done, so two workers
never share a directory. `ProzessInv`: a process belongs to its worker until that has seen its
end. `AbbruchInv` is the race of Ctrl+C with a worker that is about to start: the flag is
raised before the list of processes is taken, so a process is on the list, or its worker sees the
flag after it registered and kills it itself. `NotizInv` ties the notes, from which the abort
clears directories, to what this build made. The queue hands out its least index, which
exists because the natural numbers are well-founded (`Least`).

**ShortsChain.** `UrteileInv`: the judgment file holds exactly what was answered and nothing in
it but texts, span and word, and of the threads of the page only one has loaded it, with all
of it. The build list needs no invariant of the seven stages: the run compares file and
candidates when it selects, whatever the chain did meanwhile. What is proved of that comparison is that a
selected candidate stands at a position of the candidates, is found by its number (numbers are unique in
a file that can be read), and has the texts it was judged with. `BuchInv` is about the state
file: half an output lies only beside an entry that says "running" or "failed", because the entry is
replaced before the stage writes and not set to "done" before its output was looked at; so an entry
that lets its stage be skipped has a whole output beside it, or none. Of the decomposition this is
said of some run and not of the one that is skipped (section 6).

**JournalBundle.** Every file is missing, broken or of some production (`Readable`), and a digest
determines its file. The manifest fixes the digests of all the others, so a bundle that passes is of the production
its manifest is of; the names matter because the manifest names the other files.

**ShortBoundaries.** Each of the eight measurements answers a block of the tone, nothing, or that it failed.
An own edge is a time or failed (`OwnStartIsATime`, `OwnEndIsATime`), because the older measurement
never answers nothing. A measured edge of a neighbour lies on its side of the own edge: capped there, or searched from
there only (`MeasuredEndIsBefore`, `MeasuredStartIsAfter`). The boundary is the own edge with its air, or the middle of two
edges in this order. What is kept when a measurement failed has its least length from snapping (`SnappedShape`,
which needs that words follow one another). Nothing is assumed of how the durations compare.

**CutProposal.** A fold is a recursive function over the rounds, so what a loop computes is proved without induction
over data: the function exists, because every round stays in one set (`CourseExists`, from there `JudgeCourse` and its
kind), and a set of rounds that holds the first and with each the next holds all (`Rounds`, by the least number that
it lacks). The invariant of a round is then proved like that of a step. Joined silences cover what was found and no more
(`Merged`); so far each is answered once and the cuts are honest and apart (`Judged`); tail and lead-in answer anew
what they push aside (`Tailed`, `Sound`). That a cut avoids the parts of `partition` is the same as avoiding every range,
since each frame lies in the part between the two bounds next to it (`PartsCover`). The renderer finds no piece too short for any
selection (`Renderable`, `Took`), because the distances that each adjacent pair keeps also hold between any two cuts and to both ends.
What is assumed (`ProposalsAssumption`): the sidecar is one that the finalizer writes (`Finalized`): different ids, scenes
in the order of the clock, both ends of the recording protected for at least the smallest island (1000 ms against 500 ms,
`sidecar_builder.py:104`). The protected outro is at least as long as the offset of the intro and an island together
(900 frames against 85 and 30). A tick, a frame and the smallest cut are not zero. The one caller uses the default
parameters (`product_runner.py:711`, `cut_proposal.py:845`); the data model admits an island of up to a minute
(`cut_proposal.py:86`), for which neither relation would hold. The lead-in that ends just before the end of the recording
stays excepted, as section 6 says.

**StreamSelection.** With unique indexes, which the parser checks by counting, sorting neither loses nor adds a
stream (`SortedHasTheSame`: the number of smaller indexes is an injection into as many positions, so each is taken).
The choice is then one of a set, and `IsVideoOf` and `IsAudioOf` say which: the default, or the one that exceeds all
others. The code only looks for the one that none exceeds; in a finite set these are the same, since above every picture there
is one with the largest sum of sides (`OnlyMaximumDominates`). Taking another stream away changes neither.

### Only model-checked

- Liveness, in every module: `CloseReturns` and the fairness of the refinement,
  `TargetLockIsFreed`, `NothingStaysOpen`, `EverythingEnds`, `StopSettles`,
  `ProbeReturns`, `BuildEnds`. It rests on fairness, which is out of
  the prover's reach.
- Of the pure rules `FinalizedIsFaithful` and `CropIsCalm`. They are written with `SelectSeq`, `SortSeq` and the
  folds of the libraries, which are opaque to the provers, and sums over a whole journal or a track need induction over
  data, which they cannot instantiate. `BundlesAreWhole` is the part of `FinalizedIsFaithful` that needs neither.
  `ProposalIsAlwaysSound` takes from `FinalizedIsFaithful` that a sidecar is as `Finalized` says.

## 5. Assumptions and abstractions

General. Single file operations are atomic: create-only link or rename, replace by
rename, delete. A lock file is held by one handle at a time and is freed with its
process. Digests identify contents. Time is left out: a time limit may strike
whenever its wait is possible.

Lease. A callback never closes its own lease (it would wait for itself), as every
caller in the package behaves. A wait is an action that is disabled while its condition
does not hold, so `CloseReturns` takes for granted that every release notifies; that one forgot to
would not show.

Finalizer. A lease stands for a lease with the source confirmed once under it: its evidence is
unlike that of every other lease. A second confirmation under one lease, which `Recognised` and
`LoadIntent` would refuse in the same way, is left out.

Producer. `stable_result` is stored with the state it belongs to; between the two,
`result()` differs only if a shutdown gives up at that moment.

Adapter. Signals of one output come one after the other, on the thread that starts and stops it,
and disconnecting waits for a signal that is being delivered. Both are promises of OBS, not of this code.
If a pause came from another thread and its stop overtook it, the adapter would ignore
it (`obs_adapter.cpp:718` and 736) and the journal would end whole without it; TLC then finds
`RunsEndWhole` violated. The counters of the gate and of the binding are raised in one step: a
callback delayed between the two reads everything after them, like one that comes later.

Manual finalizer. Closing a handle succeeds. A change of bytes shows in the size or
the times of the next snapshot. Nothing is renamed or deleted while the gate's handle
is open; delete-pending appears only as an injected fault. The wait for a busy lock
and the diagnostic record beside it are left out. The confirmation may take a stream
assignment, as callers of the library pass one; `manual_finalizer.py` never does.
`Step` and `Attempt` are frames of the model: a step meets a cancellation before its
operation or after one that succeeded; a failing operation reports its own error when
the cancellation came while it ran.

Probe. The two output channels stand as one. Closing a handle of the run may be
refused. A file has a version for content and instance together, and every
replacement shows in the next snapshot; with the check after the run and the held
handle, the comparison before the launch is redundant for a good profile. Policy,
seal, parsing and selection answer freely.

Rules. The words of a transcript follow one another, as whisper writes them and the bisection of
`loop_point.py:114` takes for granted; the code does not check it. With a resolved outro an intro lies at least 815 frames before the tail, so
`overlaps_outro_tail` cannot happen; `outside_source_timeline` cannot while the
handles are shorter than the minimum silence. The gate on the residual (50 ms, v0.2
of the plan, lines 143 and 745) always measures zero on samples with different readings;
only the drift gate can reject. A bundle carries its files instead of their digests; the
product uses only the legacy profile. The adapter always writes a frame counter
(`journal_producer.cpp:355`), and builder and validator agree only on such events.
The warning about lost frames is left out.

Crop. Frame times may be off by a quarter frame. Lines of the log are good or bad as a
whole. The limit of the command list (24000 characters) and the formatting of
numbers are left out. A seam on a frozen frame has no effect, by the order of the rules in the code.

Chain. The external programs of the stages are their results; the word list and the
texts of job and command line are left out. A judgment counts as answered when it is filed under the
lock; sending the confirmation afterwards, or failing to, changes no file.

## 6. Where code and documents disagree

`render_other_cuts` is the run that shows one: the gates at the start of FFmpeg and
before publication accept an approval of other cuts than the ones that were encoded
(`PublishedIsApproved`).

The following claims are formulas kept beside their module. TLC finds each violated with the
configuration named, within a minute:

| formula | configuration | what happens |
|---|---|---|
| `IntentIsRetried` | as a property of `MCFinalizer` | lines 379 to 382 of the v0.3 plan promise the same intent again after a crash before the commit; the crash ends the lease, the new evidence differs, and the code answers "intent.binding" (`orchestrator.py:274`) |
| `CommittedIsNotRefused` | as an invariant of `MCProductRunner` | a runner that dies between the commit of a sidecar and storing it refuses that recording for good |
| `RenderedStands` | `MCProductRunnerRendered.cfg` | a poll that read the session before the render thread stored its success overwrites it with "interrupted" |
| `RetryIsPossible` | as an invariant of `MCRenderAttempt` | after a crash between the link and the result every retry is refused for the file the crashed attempt left |
| `StopIsComplete` | as an invariant of `MCJournalProducer` | the writer finds the ring empty and asks for the state afterwards; an event that is accepted and a stop that wins in between give a journal with a stop record and without the event |
| `SuccessHasStop` | as an invariant of `MCJournalProducer` | the writer asks for `stop_requested` and then for `recording_active`; a stop in between ends it without a stop record, and the shutdown reports success |
| `ForcedFailureEnds` | `MCObsAdapterForced.cfg` | `queue_forced_failure` stores and notifies without the mutex: a worker between test and sleep misses it |
| `QueueIsLeftEmpty` | as an invariant of `MCObsAdapter` with two recordings, three signals and no fault | a last resume stores its state late (`obs_adapter.cpp:1275`), so the commands of the next recording may be queued behind a stop; `reset_run` clears the scenes alone, and they lie before the start of the recording after |
| `RerunIsPossible` | as an invariant of `MCManualRun` | with a fixed project id (`--project-id`) a receipt an earlier run left refuses the later run (`source_hash/publish.py:223`), although lines 78 and 330 of the v0.3 plan promise a new run |
| `BuiltIsChecked` | as an invariant of `MCShortsBuild` | a `short.mp4` may be there before its checks are done, which `urteilslauf.py:531` takes for built |
| `WordsStayWhole` | as an invariant of `MCRules` | `build.py:1326-1350` promises whole words; without a measured edge of the neighbour the fallbacks at 1462 and 1476 may cut one |
| `SkippedRunIsWhole` | as a property of `MCShortsChain` | `kette.py:29` says an entry that failed makes its stage run again even beside half an output; the entry asked is that of the last run of the decomposition (`kette.py:778`), so half a file of another run is skipped |
| `OnlyAcceptedIsBuilt` | as a property of `MCShortsChain` | `auswahl.py:4` says only accepted candidates are built; `urteilslauf.py:797` builds from the list without asking again |

Met while modelling and shown by no formula:

- Recovery of a committed sidecar whose intent is lost ends in a conflict over the
  state file (`recovery.py:356`), although line 387 of the v0.3 plan acknowledges it.
- After an overflow a second callback that tested the state before may still be
  accepted (`journal_producer.cpp:253`), against section 8 of the queue contract.
- `Disappeared` is classified retryable, but `manual_finalizer.py:207` does not retry it.
- A lead-in that ends closer to the end than the minimum island gives a proposal the renderer
  refuses (`cut_proposal.py:1030` against `render.py:872`); `ProposalIsSound` excepts it.
- Zero-length pauses are accepted by the reader of the journal and refused by the builder.
- The judgment page may leave out candidates (`judge.py:237`), and a build list keeps
  references to rejected ones (`auswahl.py:13`).
- A forced run of the chain that crashes, followed by an unforced one, skips the outdated
  outputs of the last two stages (`kette.py:48`).
- After a shutdown gave up its wait, the render thread it left behind and the next runner may both start
  FFmpeg for one request; `AttemptStartedOnce` (part of `NothingTwice`) speaks of runners without such a wait.
- With `--parallel 1` Ctrl+C leaves FFmpeg and directories, though `build.py:2473`
  reports that nothing was left; Ctrl+C while copying leaves the working copy;
  `AbortIsClean` is about the pool and the directories a build made.
- `_write_framecount_cache` reads size and time after measuring (`build.py:285`), so a
  file that was replaced meanwhile gets the old count.
- The clean-up with `--aufnahme` does not look at the age of a directory.
- The docstring of a drive says that one may be recorded shorter than its way asks for
  (`cursor_track.py:554-560`). None is: a drive starts only if it ends within its window and
  span, so `DrivesAreWhole` holds.
- A drive cut off by a seam is missing from the report of the curve
  (`cursor_track.py:552` against 886).

Places that are hard to test and have no property here: the status a poll read before
it hashed the source (`product_runner.py:1155`), the compare and replace of two
concurrent edits of a selection (`selection.py:276`).

## 7. Plan

The modules are in place, and every safety property of a component with state that a run checks is
proved, and so are the rules for the boundaries of a short, for the choice of streams and for the proposal of cuts. What is left are lemmas
about the folds in the other pure modules: the counted pauses, the mapping of events to frames, the drives of the crop.

## 8. Not modelled

| part | why |
|---|---|
| render stages, loudness, intro, outro, avatar, end card, subtitles (as media) | command lines for ffmpeg and bounds on their results: sequential, without state that outlives a call; in the models a call that succeeds or fails |
| repeat detection (`mac/repeat`) | a batch program over one transcript, pure functions on text and one process at a time |
| review window and page | user interface; what they change on disk is the user of RenderAttempt |
| runner start, scripts | start a process and wait for its ready file |
| standalone producer program | a command line around the producer for tests |
| displayed status, diagnostics log, progress | nothing decides by them |
| field types, schema texts, exact rationals, path syntax, calls of the operating system | data; the models keep the decision each of them leads to |
| deletion by handle in `pathing.py` | one system call; a temp file it leaves is a leftover the models know as such |
