---------------------------- MODULE SidecarRules ----------------------------
(***************************************************************************)
(* From the journal of a recording to its sidecar: journal.py decides      *)
(* whether the records form a complete journal, sidecar_builder.py places  *)
(* every event on the frames of the finished video (calibration.py), and   *)
(* sidecar.py checks the result anew, from the sidecar alone, as every     *)
(* later reader does.  Operators only.  A journal record is                *)
(*   [kind, seq, id, type, ns, counter, paused, pair, uuid, name, path,    *)
(*    ok, split]                                                           *)
(* (events of the sidecar: see Protection).  Clock readings are in ticks.  *)
(***************************************************************************)
EXTENDS Protection

CONSTANTS
    MaxGap,          \* ticks between two calibration samples (5 s)
    MaxResidual,     \* frames (50 ms)
    Measurable,      \* ticks from which the drift can be measured (16.7 s)
    DriftNum, DriftDen,   \* the largest drift as a fraction (1000 ppm)
    Tolerance,       \* frames that counter and video may differ (6)
    EdgeBuffer, EventBuffer   \* frames (1000 ms and 250 ms)

When(condition, error) == IF condition THEN {error} ELSE {}
Abs(n) == IF n < 0 THEN -n ELSE n
OfKind(records, kinds) == SelectSeq(records, LAMBDA r : r.kind \in kinds)

-----------------------------------------------------------------------------
(* journal.py *)
PausedBefore(records, i) ==
    LET switches == {j \in 1 .. i - 1 : records[j].kind \in {"pause", "resume"}}
    IN  switches # {} /\ records[Max(switches)].kind = "pause"

Regressions(records) ==
    LET timed == SelectSeq(records, LAMBDA r : r.kind \notin {"header", "recovery"})
        counted == SelectSeq(timed, LAMBDA r : r.counter # None)
    IN  When(\E i \in 2 .. Len(timed) : timed[i].ns < timed[i - 1].ns, "qpc_regression")
        \cup When(\E i \in 2 .. Len(counted) : counted[i].counter < counted[i - 1].counter, "counter_regression")

PauseErrors(records) ==
    UNION {LET r == records[i]
               open == PausedBefore(records, i)
           IN  CASE r.kind = "pause" -> When(open, "double_pause")
                 [] r.kind = "resume" -> When(~open, "resume_without_pause")
                 [] r.kind \in {"event", "sample", "path", "split", "output_error", "stop"} ->
                        When(r.paused # open, "wrong_paused_flag")
                 [] OTHER -> {} : i \in DOMAIN records}

validate_journal(records) ==
    LET N == Len(records)
        stops == {i \in 1 .. N : records[i].kind = "stop"}
        stop == OfKind(records, {"stop"})
        split == \E i \in 1 .. N : records[i].kind \in {"split", "stop"} /\ records[i].split
        named == OfKind(records, {"event", "pause", "resume"})
        paths == {records[i].path : i \in {j \in 1 .. N : records[j].kind \in {"header", "path", "stop"}}}
    IN  When(N = 0 \/ Head(records).kind # "header" \/ Len(OfKind(records, {"header"})) # 1, "header")
        \cup When(\E i \in 1 .. N : records[i].seq # i - 1, "non_contiguous_sequence")
        \cup When(stops # {N}, "successful_stop_missing")
        \cup When(Len(stop) = 1 /\ (~Head(stop).ok \/ Head(stop).split), "output_failure")
        \cup When(OfKind(records, {"output_error", "recovery"}) # <<>>, "failure_record")
        \cup When(\E i \in 1 .. N : records[i].kind = "split" /\ records[i].split, "split_detected")
        \cup When(Cardinality({named[i].id : i \in DOMAIN named}) # Len(named), "duplicate_event_id")
        \cup When(Cardinality(paths) > 1 /\ ~split, "unmarked_path_change")
        \cup Regressions(records) \cup PauseErrors(records)

-----------------------------------------------------------------------------
(* calibration.py; None stands for the ValueError *)
affine_counter_frame(counter, from, to, total) ==
    IF to <= from \/ total <= 0 \/ counter \notin from .. to THEN None
    ELSE Min({total, RoundHalfUp((counter - from) * total, to - from)})

subtract_paused_ns(from, to, pauses) ==
    LET Overlap(p) == Max({0, Min({to, p.end}) - Max({from, p.start})})
    IN  IF to < from \/ \E p \in pauses : \E q \in pauses \ {p} : Intersects(p, q) THEN None
        ELSE to - from - MapThenSumSet(Overlap, pauses)

InTime(samples) ==
    LET order == SortSeq([i \in DOMAIN samples |-> i],
                         LAMBDA i, j : samples[i].ns < samples[j].ns \/ (samples[i].ns = samples[j].ns /\ i < j))
    IN  [i \in DOMAIN samples |-> samples[order[i]]]

map_qpc_frame(ns, samples, pauses, from, to, total) ==
    LET ordered == InTime(samples)
        r == Max({2, Cardinality({i \in DOMAIN ordered : ordered[i].ns < ns}) + 1})
        left == ordered[r - 1]
        right == ordered[r]
        span == subtract_paused_ns(left.ns, right.ns, pauses)
        passed == subtract_paused_ns(left.ns, ns, pauses)
    IN  IF Len(ordered) < 2 \/ ns < Head(ordered).ns \/ ns > Last(ordered).ns THEN None
        ELSE IF span <= 0 \/ right.counter < left.counter THEN None
        ELSE affine_counter_frame(RoundHalfUp(left.counter * span + (right.counter - left.counter) * passed, span),
                                  from, to, total)

sample_gaps_valid(samples, pauses) ==
    /\ Len(samples) >= 2
    /\ \A i \in 2 .. Len(samples) :
        /\ subtract_paused_ns(samples[i - 1].ns, samples[i].ns, pauses) \in 0 .. MaxGap
        /\ samples[i].counter >= samples[i - 1].counter

\* How far the counter lags behind the active time, at every sample.
counter_lag_ns(samples, pauses) ==
    [i \in DOMAIN samples |->
        LET active == subtract_paused_ns(Head(samples).ns, samples[i].ns, pauses)
        IN  [active |-> active, lag |-> active - (samples[i].counter - Head(samples).counter) * TicksPerFrame]]

\* The slopes between all samples, each a fraction n / d, in order.
Slopes(series) ==
    LET pairs == SetToSeq({<<i, j>> \in (DOMAIN series) \X (DOMAIN series) :
                              i < j /\ series[i].active # series[j].active})
    IN  SortSeq([k \in DOMAIN pairs |-> [n |-> series[pairs[k][2]].lag - series[pairs[k][1]].lag,
                                         d |-> series[pairs[k][2]].active - series[pairs[k][1]].active]],
                LAMBDA a, b : a.n * b.d < b.n * a.d)

estimate_drift_ppm(samples, pauses) ==
    LET slopes == Slopes(counter_lag_ns(samples, pauses))
        m == Len(slopes) \div 2
        a == slopes[m]
        b == slopes[m + 1]
    IN  IF slopes = <<>> THEN [n |-> None, d |-> 0]
        ELSE IF Len(slopes) % 2 = 1 THEN [n |-> Abs(b.n), d |-> b.d]
        ELSE [n |-> Abs(a.n * b.d + b.n * a.d), d |-> 2 * a.d * b.d]

-----------------------------------------------------------------------------
(* sidecar_builder.py *)
automatic_policy(type) ==
    [before |-> CASE type = "recording_stopped" -> EdgeBuffer
                  [] type \in {"intro_ended", "outro_ended", "stinger_ended"} -> EventBuffer
                  [] OTHER -> 0,
     after |-> CASE type = "recording_started" -> EdgeBuffer
                 [] type \in {"intro_started", "outro_started", "stinger_started"} -> EventBuffer
                 [] OTHER -> 0]

\* Every pause with the resume or the stop that ends it.
Pairs(records) ==
    LET Pair(acc, r) ==
            IF r.kind = "pause" THEN [acc EXCEPT !.opened = <<r>>]
            ELSE IF r.kind \in {"resume", "stop"} /\ acc.opened # <<>>
            THEN [opened |-> <<>>, pairs |-> Append(acc.pairs, <<Head(acc.opened), r>>)] ELSE acc
    IN  FoldLeft(Pair, [opened |-> <<>>, pairs |-> <<>>], records).pairs
Measured(pairs) == {[start |-> pairs[i][1].ns, end |-> pairs[i][2].ns] : i \in DOMAIN pairs}

calibration_samples(records, start, stop) ==
    LET all == <<start>> \o OfKind(records, {"sample"}) \o <<stop>>
        Sample(r) == [ns |-> r.ns, counter |-> r.counter]
    IN  InTime(FoldLeft(LAMBDA acc, r : IF Sample(r) \in ToSet(acc) THEN acc ELSE Append(acc, Sample(r)), <<>>, all))

samples_without_stop(samples, stop) ==
    SelectSeq(samples, LAMBDA s : ~(s.ns = stop.ns /\ s.counter = stop.counter))

\* Whether the clock of the recording can be trusted.
ClockIsGood(samples, measured, pauses, from, to, total) ==
    LET Residual(s) == LET predicted == map_qpc_frame(s.ns, samples, pauses, from, to, total)
                           observed == affine_counter_frame(s.counter, from, to, total)
                       IN  IF predicted = None \/ observed = None THEN MaxResidual + 1 ELSE Abs(predicted - observed)
        measurable == subtract_paused_ns(Head(samples).ns, Last(samples).ns, pauses) >= Measurable
        drift == estimate_drift_ppm(measured, pauses)
    IN  /\ sample_gaps_valid(samples, pauses)
        /\ \A i \in DOMAIN measured : Residual(measured[i]) <= MaxResidual
        /\ IF Len(measured) >= 2 THEN drift.n # None /\ (measurable => drift.n * DriftDen <= DriftNum * drift.d)
           ELSE ~measurable

MappedEvent(r, type, mapped, buffers, blocked) ==
    [id |-> r.id, type |-> type, frame |-> mapped, end |-> None, pair |-> r.pair, uuid |-> r.uuid, name |-> r.name,
     ns |-> r.ns, counter |-> r.counter, paused |-> r.paused, hard |-> blocked, blocks |-> blocked,
     before |-> buffers.before, after |-> buffers.after, uncertainty |-> 0]

\* Mutant: events reported during a pause are kept.
EventRecords_Paused(records) == OfKind(records, {"event", "pause", "resume", "stop"})

\* The records that become events: not those reported while the recording was paused.
EventRecords(records) ==
    SelectSeq(records, LAMBDA r : (r.kind = "event" /\ ~r.paused) \/ r.kind \in {"pause", "resume", "stop"})

build_sidecar(records, total, duration) ==
    LET starts == SelectSeq(records, LAMBDA r : r.kind = "event" /\ r.type = "recording_started")
        start == Head(starts)
        stop == Head(OfKind(records, {"stop"}))
        pairs == Pairs(records)
        pauses == Measured(pairs)
        samples == calibration_samples(records, start, stop)
        Type(r) == CASE r.kind = "event" -> r.type [] r.kind = "pause" -> "recording_paused"
                     [] r.kind = "resume" -> "recording_resumed" [] OTHER -> "recording_stopped"
        Frame(r) == IF r.counter # None THEN affine_counter_frame(r.counter, start.counter, stop.counter, total)
                    ELSE IF Type(r) = "manual_protection" THEN None
                    ELSE map_qpc_frame(r.ns, samples, pauses, start.counter, stop.counter, total)
        kept == EventRecords(records)
        events == [i \in DOMAIN kept |->
                      LET r == kept[i] IN MappedEvent(r, Type(r), Frame(r), automatic_policy(Type(r)),
                                                      r.kind \notin {"pause", "resume"})]
        intervals == [i \in DOMAIN pairs |->
                         [pause |-> pairs[i][1].id, close |-> pairs[i][2].id, resumed |-> pairs[i][2].kind = "resume",
                          start |-> pairs[i][1].ns, end |-> pairs[i][2].ns,
                          before |-> Frame(pairs[i][1]), after |-> Frame(pairs[i][2])]]
        sidecar == [events |-> events, pauses |-> intervals, from |-> start.counter, to |-> stop.counter,
                    total |-> total, duration |-> duration]
    IN  IF Len(starts) # 1 \/ start.counter = None THEN [status |-> "recording_started"]
        ELSE IF \E p \in pauses : p.start >= p.end THEN [status |-> "empty_pause"]
        ELSE IF ~ClockIsGood(samples, samples_without_stop(samples, stop), pauses, start.counter, stop.counter, total)
        THEN [status |-> "clock"]
        ELSE IF \E i \in DOMAIN events : events[i].frame = None THEN [status |-> "unmappable"]
        ELSE IF \E i \in DOMAIN intervals : intervals[i].after < intervals[i].before THEN [status |-> "pause_runs_back"]
        ELSE [status |-> "built", sidecar |-> sidecar]

-----------------------------------------------------------------------------
(* sidecar.py: the checks of every reader *)
clock_errors(s) ==
    LET span == s.to - s.from
        counted == SelectSeq(s.events, LAMBDA e : e.counter # None)
        samples == [i \in DOMAIN counted |-> [ns |-> counted[i].ns, counter |-> counted[i].counter]]
        pauses == {[start |-> s.pauses[i].start, end |-> s.pauses[i].end] : i \in DOMAIN s.pauses}
        starts == OfType(ToSet(s.events), {"recording_started"})
        stops == OfType(ToSet(s.events), {"recording_stopped"})
        bounded == Cardinality(starts) = 1 /\ Cardinality(stops) = 1
        OfEvent(e) ==
            LET mapped == IF e.counter # None THEN affine_counter_frame(e.counter, s.from, s.to, s.total)
                          ELSE map_qpc_frame(e.ns, samples, pauses, s.from, s.to, s.total)
            IN  When(e.type = "manual_protection" /\ e.counter = None, "manual_marker_without_counter")
                \cup When(bounded /\ e.ns \notin The(starts).ns .. The(stops).ns, "qpc_out_of_range")
                \cup IF e.counter # None /\ e.counter \notin s.from .. s.to THEN {"counter_out_of_range"}
                     ELSE IF mapped = None THEN {"unmappable_clock_sample"}
                     ELSE When(mapped # e.frame, "mapped_frame_mismatch")
    IN  When(span <= 0 \/ Abs(span - s.total) > Tolerance, "counter_span")
        \cup When(Abs(s.duration - span) > Tolerance, "duration_span")
        \cup When(bounded /\ subtract_paused_ns(The(starts).ns, The(stops).ns, pauses) <= 0,
                  "invalid_active_qpc_duration")
        \cup UNION {OfEvent(e) : e \in ToSet(s.events)}

policy_errors(s) ==
    {e.id : e \in {x \in ToSet(s.events) :
        \/ x.type \in {"recording_started", "recording_stopped", "scene_changed"} \cup DOMAIN PAIR_TYPES /\ ~(x.hard /\ x.blocks)
        \/ x.type = "manual_protection" /\ x.hard /\ ~x.blocks}}

EventFieldErrors(s) ==
    LET E == ToSet(s.events)
        starts == OfType(E, {"recording_started"})
        stops == OfType(E, {"recording_stopped"})
    IN  When(Cardinality({e.id : e \in E}) # Len(s.events), "duplicate_event_id")
        \cup When(Cardinality(starts) # 1 \/ The(starts).frame # 0, "recording_start")
        \cup When(Cardinality(stops) # 1 \/ The(stops).frame # s.total, "recording_stop")
        \cup When(\E e \in E : e.frame > s.total, "event_out_of_bounds")
        \cup When(\E e \in E : e.type = "manual_protection" /\ e.end # None
                                 /\ (e.end <= e.frame \/ e.end > s.total), "manual_interval")
        \cup When(\E e \in E : e.type # "manual_protection" /\ e.end # None, "end_frame_on_non_manual")
        \cup When(\E e \in E : e.type # "scene_changed" /\ (e.name # NoId \/ e.uuid # NoId), "scene_on_wrong_event_type")

IntervalErrors(s) ==
    LET With(id) == SelectSeq(s.events, LAMBDA e : e.id = id)
        OfInterval(p) ==
            LET pause == With(p.pause)
                close == With(p.close)
            IN  IF pause = <<>> \/ close = <<>> \/ Last(pause).type # "recording_paused" \/ Last(close).type #
                        (IF p.resumed THEN "recording_resumed" ELSE "recording_stopped") THEN {"unknown_pause"}
                ELSE When(<<p.start, p.end, p.before, p.after>> #
                          <<Last(pause).ns, Last(close).ns, Last(pause).frame, Last(close).frame>>, "interval_event_mismatch")
        During(p) == {e \in ToSet(s.events) : p.start < e.ns /\ e.ns < p.end /\
                        e.type \notin {"recording_paused", "recording_resumed", "recording_stopped"}}
        P == ToSet(s.pauses)
        Ids(type) == {e.id : e \in OfType(ToSet(s.events), {type})}
    IN  UNION {OfInterval(p) : p \in P}
        \cup When(\E p \in P : During(p) # {}, "event_during_pause")
        \cup When(\E p \in P : \E q \in P \ {p} : Intersects(p, q), "overlapping_pause_intervals")
        \cup When(\E i, j \in DOMAIN s.pauses : i # j /\ (s.pauses[i].pause = s.pauses[j].pause
                                                            \/ s.pauses[i].close = s.pauses[j].close), "duplicate_reference")
        \cup When({p.pause : p \in P} # Ids("recording_paused"), "pause_interval_coverage")
        \cup When(~(Ids("recording_resumed") \subseteq {p.close : p \in P}), "resume_interval_coverage")

\* Pauses and resumes alternate in the order of their clock readings.
SequenceErrors(s) ==
    LET Next(acc, e) ==
            CASE e.type = "recording_paused"  -> [open |-> TRUE, bad |-> acc.bad \cup When(acc.open, "double_pause")]
              [] e.type = "recording_resumed" -> [open |-> FALSE, bad |-> acc.bad \cup When(~acc.open, "resume_without_pause")]
              [] e.type = "recording_stopped" -> [acc EXCEPT !.open = FALSE]
              [] OTHER -> acc
    IN  FoldLeft(Next, [open |-> FALSE, bad |-> {}], InTime(s.events)).bad

validate_sidecar(s) == clock_errors(s) \cup policy_errors(s) \cup EventFieldErrors(s) \cup pair_structure_failures(ToSet(s.events))
                       \cup IntervalErrors(s) \cup SequenceErrors(s)

-----------------------------------------------------------------------------
(***************************************************************************)
(* Properties                                                              *)
(***************************************************************************)
FromProducer(q) ==
    /\ q.records[2].type = "recording_started"
    /\ \A i \in DOMAIN q.records : q.records[i].kind \in {"event", "pause", "resume", "stop"} => q.records[i].counter # None

(* A journal that is complete and whose clock is sound becomes a sidecar   *)
(* that every later reader accepts, unless the video has another length    *)
(* than the counter says: the reader's checks, made from the events alone, *)
(* agree with the builder, who had the whole journal.  On the frames of    *)
(* the video the events keep the order in which they were written, none is *)
(* left inside a pause, and the first and the last second stay protected.  *)
IsFaithful(q, b) ==
    LET E == b.sidecar.events
    IN  validate_journal(q.records) = {} /\ FromProducer(q) =>
        /\ b.status \in {"built", "clock", "empty_pause"}
        /\ b.status = "built" =>
            /\ validate_sidecar(b.sidecar) \subseteq {"counter_span", "duration_span"}
            /\ \A i, j \in DOMAIN E : i < j => E[i].frame <= E[j].frame
            /\ \A f \in (0 .. EdgeBuffer - 1) \cup (q.total - EdgeBuffer .. q.total - 1) :
                  \E r \in RawRanges(ToSet(E), q.total) : r.start <= f /\ f < r.end /\ r.hard /\ r.blocks
FinalizedIsFaithful(q) == IsFaithful(q, build_sidecar(q.records, q.total, q.duration))
=============================================================================
