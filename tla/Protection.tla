----------------------------- MODULE Protection -----------------------------
(***************************************************************************)
(* Which frames of a recording must not be cut.  protection.py turns the   *)
(* events of a sidecar into half open frame ranges, event_lag.py moves the *)
(* events that OBS reported through its frontend to the frame the viewer   *)
(* saw.  Everything here is a pure function of the events: operators only. *)
(* The events of a sidecar have different ids, so they are given as a set. *)
(*                                                                         *)
(* An event is a record                                                    *)
(*   [id, type, frame, end, pair, uuid, name, ns, counter, paused,         *)
(*    hard, blocks, before, after, uncertainty]                            *)
(* with frames as integers, None for an optional number that is missing    *)
(* and NoId for a missing identifier.  A buffer is given in whole frames   *)
(* (the code rounds its milliseconds up), a clock reading in ticks.        *)
(***************************************************************************)
EXTENDS Integers, Sequences, FiniteSets, FiniteSetsExt, SequencesExt

CONSTANTS
    TicksPerFrame,   \* clock ticks of one frame (16.7 ms in the code)
    Rounding         \* frames added to the rounded uncertainty (2 in the code)

None == -1
NoId == "none"

RoundHalfUp(n, d) == (2 * n + d) \div (2 * d)
CeilDiv(n, d) == -((-n) \div d)
OfType(events, types) == {e \in events : e.type \in types}
The(set) == CHOOSE x \in set : TRUE       \* its only element
Intersects(a, b) == a.start < b.end /\ b.start < a.end

PAIR_TYPES == [intro_started   |-> <<"intro", "start">>,   intro_ended   |-> <<"intro", "end">>,
               outro_started   |-> <<"outro", "start">>,   outro_ended   |-> <<"outro", "end">>,
               stinger_started |-> <<"stinger", "start">>, stinger_ended |-> <<"stinger", "end">>]
IsPairEvent(e) == e.type \in DOMAIN PAIR_TYPES
Family(e) == PAIR_TYPES[e.type][1]
Side(events, family, pair, side) ==
    {e \in events : IsPairEvent(e) /\ e.pair = pair /\ PAIR_TYPES[e.type] = <<family, side>>}
PairGroups(events) == {<<Family(e), e.pair>> : e \in {x \in events : IsPairEvent(x) /\ x.pair # NoId}}

pair_structure_failures(events) ==
    LET G == PairGroups(events)
        Faulty(g) == LET s == Side(events, g[1], g[2], "start")
                         t == Side(events, g[1], g[2], "end")
                     IN  IF Cardinality(s) > 1 \/ Cardinality(t) > 1 THEN {"ambiguous_pair"}
                         ELSE IF s # {} /\ t # {} /\ The(s).frame >= The(t).frame
                         THEN {"non_forward_pair"} ELSE {}
    IN  {"pair_id_on_non_pair_event" : e \in {x \in events : ~IsPairEvent(x) /\ x.pair # NoId}}
        \cup {"pair_id_missing" : e \in {x \in events : IsPairEvent(x) /\ x.pair = NoId}}
        \cup {"pair_id_reused_across_families" : g \in {h \in G : \E k \in G : h[2] = k[2] /\ h[1] # k[1]}}
        \cup UNION {Faulty(g) : g \in G}

-----------------------------------------------------------------------------
(* event_lag.py *)
pipeline_lag_frames(events) ==
    LET starts == OfType(events, {"recording_started"})
    IN  IF Cardinality(starts) # 1 \/ The(starts).ns <= 0 THEN 0 ELSE RoundHalfUp(The(starts).ns, TicksPerFrame)

is_frontend_sampled(e) == e.type \in {"scene_changed", "manual_protection"}
corrected_source_frame(e, lag, total) ==
    IF is_frontend_sampled(e) THEN Min({total, e.frame + lag}) ELSE e.frame
corrected_end_source_frame(e, lag, total) ==
    IF e.end # None /\ is_frontend_sampled(e) THEN Min({total, e.end + lag}) ELSE e.end

-----------------------------------------------------------------------------
(* protection.py: the ranges of single events and of pairs *)
uncertainty_padding(e) == e.uncertainty + Rounding

event_range(e, total, lag) ==
    LET first == corrected_source_frame(e, lag, total)
        last  == IF e.end = None THEN first + 1 ELSE corrected_end_source_frame(e, lag, total)
    IN  [start |-> Max({0, first - uncertainty_padding(e) - e.before}),
         end |-> Min({total, last + uncertainty_padding(e) + e.after}), hard |-> e.hard, blocks |-> e.blocks]

pair_range(starts, ends, total, lag) ==
    [start |-> IF starts = {} THEN 0
               ELSE Max({0, corrected_source_frame(The(starts), lag, total)
                            - uncertainty_padding(The(starts)) - The(starts).before}),
     end |-> IF ends = {} THEN total
             ELSE Min({total, corrected_source_frame(The(ends), lag, total)
                              + uncertainty_padding(The(ends)) + The(ends).after}),
     hard |-> \E e \in starts \cup ends : e.hard, blocks |-> \E e \in starts \cup ends : e.blocks]

\* The ranges are cut at every boundary; a part takes the strictest policy of all ranges over it.
partition(raws) ==
    LET bounds == {r.start : r \in raws} \cup {r.end : r \in raws}
        Parts == {p \in [start : bounds, end : bounds] : p.start < p.end /\ ~\E c \in bounds : p.start < c /\ c < p.end}
        Active(p) == {r \in raws : Intersects(r, p)}
    IN  {[start |-> p.start, end |-> p.end, hard |-> \E r \in Active(p) : r.hard,
          blocks |-> \E r \in Active(p) : r.blocks] : p \in {x \in Parts : Active(x) # {}}}

\* The non empty ranges of all events, before they are partitioned.
RawRanges(events, total) ==
    LET lag == pipeline_lag_frames(events)
        paired == {pair_range(Side(events, g[1], g[2], "start"), Side(events, g[1], g[2], "end"), total, lag) :
                      g \in PairGroups(events)}
        single == {event_range(e, total, lag) :
                      e \in {x \in events : ~(IsPairEvent(x) /\ x.pair # NoId) /\
                               x.type \notin {"recording_paused", "recording_resumed", "scene_changed"}}}
    IN  {r \in paired \cup single : r.start < r.end}

materialize_protection(events, total) ==
    IF pair_structure_failures(events) # {} THEN [status |-> "rejected", ranges |-> {}]
    ELSE [status |-> "materialized", ranges |-> partition(RawRanges(events, total))]

\* The outro found by its scene is one more hard range.
materialize_protection_with_outro(events, total, resolution) ==
    LET base == materialize_protection(events, total)
        outro == [start |-> resolution.start, end |-> resolution.protected_end, hard |-> TRUE, blocks |-> TRUE]
    IN  IF base.status # "materialized" \/ resolution.status # "resolved" THEN base
        ELSE [base EXCEPT !.ranges = partition(@ \cup {outro})]
=============================================================================
