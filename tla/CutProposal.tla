----------------------------- MODULE CutProposal -----------------------------
(***************************************************************************)
(* The cuts that cut_proposal.py proposes for a recording: silences inside *)
(* the unprotected part of the recording, what remains after the outro     *)
(* (outro.py) and what lies before the intro (intro.py); and the segments  *)
(* that render.py keeps when the user approves some of them.  Operators    *)
(* only: a question holds everything that the functions read,              *)
(*   [log, events, total, version, obs, binding, collection]               *)
(* the log of FFmpeg in ticks, frames otherwise.  Silences are a set:      *)
(* joining sorts them, and equal ones become one.                          *)
(***************************************************************************)
EXTENDS Protection

CONSTANTS
    MinimumSilence, HandleBefore, HandleAfter,     \* ticks (AnalysisParameters)
    MinimumCut, MinimumKeepIsland,                 \* frames (AnalysisParameters)
    OutroProtection,                               \* frames (outro.py: 900)
    INTRO_CUT_OFFSET_FRAMES, INTRO_FLOW_PROTECTED_FRAMES

ceil_frame(t) == CeilDiv(t, TicksPerFrame)
floor_frame(t) == t \div TicksPerFrame

\* A loop over a sequence.
Fold(Step(_, _), base, seq) ==
    LET after[i \in 0 .. Len(seq)] == IF i = 0 THEN base ELSE Step(after[i - 1], seq[i])
    IN  after[Len(seq)]

-----------------------------------------------------------------------------
(* The silences of the log *)
Read(acc, line) ==
    LET started == IF line.start # None THEN line.start ELSE acc.pending
        silence == [start |-> Max({0, started}), end |-> Max({0, line.end})]
    IN  IF line.end = None \/ started = None THEN [acc EXCEPT !.pending = started]
        ELSE [pending |-> None, found |-> acc.found \cup (IF silence.start < silence.end THEN {silence} ELSE {})]
parse_silences(log) == Fold(Read, [pending |-> None, found |-> {}], log).found

Clamped(silences, duration) ==
    {s \in {[start |-> Min({x.start, duration}), end |-> Min({x.end, duration})] : x \in silences} : s.start < s.end}

Before(a, b) == a.start < b.start \/ (a.start = b.start /\ a.end < b.end)
Sorted(values) == [m \in 1 .. Cardinality(values) |->
                      CHOOSE s \in values : Cardinality({t \in values : Before(t, s)}) = m - 1]

Join(acc, item) ==
    IF item.start >= item.end THEN acc
    ELSE IF acc # <<>> /\ item.start <= acc[Len(acc)].end
    THEN [acc EXCEPT ![Len(acc)].end = Max({@, item.end})] ELSE Append(acc, item)
normalize_silences(values) == Fold(Join, <<>>, Sorted(values))

-----------------------------------------------------------------------------
(* One silence after the other becomes a cut or a rejection *)
Framed(silence, total) == [start |-> Max({0, ceil_frame(silence.start + HandleBefore)}),
                           end |-> Min({total, floor_frame(silence.end - HandleAfter)})]

Verdict(acc, s, total, ranges) ==
    LET r == Framed(s, total)
        conflicts == {p \in ranges : p.blocks /\ Intersects(r, p)}
    IN  IF s.end - s.start < MinimumSilence THEN "below_minimum_silence"
        ELSE IF r.start >= total \/ r.end <= 0 THEN "outside_source_timeline"
        ELSE IF r.end - r.start < MinimumCut THEN "below_minimum_cut_after_handles"
        ELSE IF \E p \in conflicts : p.hard THEN "hard_protection_overlap"
        ELSE IF conflicts # {} THEN "soft_or_uncertain_protection_overlap"
        ELSE IF acc.proposed # <<>> /\ r.start - acc.proposed[Len(acc.proposed)].end < MinimumKeepIsland
        THEN "minimum_keep_island" ELSE "clear"

\* What becomes of a cut that is kept or dropped; a new list of cuts.
Kept(p, cut) == [p EXCEPT !.proposed = Append(@, cut)]
Dropped(p, cut, reason) == [p EXCEPT !.rejected = Append(@, [raw |-> cut.raw, reason |-> reason])]
Restarted(p, cuts) == [p EXCEPT !.proposed = cuts]

Judge(acc, s, total, ranges) ==
    LET r == Framed(s, total)
        cut == [start |-> r.start, end |-> r.end, reason |-> "silence", raw |-> s]
        verdict == Verdict(acc, s, total, ranges)
    IN  IF verdict = "clear" THEN Kept(acc, cut) ELSE Dropped(acc, cut, verdict)
build_cut_candidates(silences, total, ranges) ==
    Fold(LAMBDA acc, s : Judge(acc, s, total, ranges), [proposed |-> <<>>, rejected |-> <<>>],
         normalize_silences(silences))

\* The frame contract that a cut of each kind must meet on its own.
nonempty(cut, total) == cut.start < cut.end /\ (cut.reason = "outro_excess_tail" => cut.end = total)
                        /\ (cut.reason = "intro_lead_in" => cut.start = 0 /\ cut.end < total)

-----------------------------------------------------------------------------
(* Outro and intro *)
Unresolved(status) == [status |-> status, start |-> None, protected_end |-> None, tail |-> None]

resolve_outro(q) ==
    LET scenes == OfType(q.events, {"scene_changed"})
        matching == {e \in scenes : e.uuid = "outro"}
        event == The(matching)
        start == event.frame + pipeline_lag_frames(q.events)
    IN  IF q.version # "1.2" THEN Unresolved("sidecar_missing_scene_uuid")
        ELSE IF q.binding # "good" THEN Unresolved("binding")
        ELSE IF q.collection # "match" THEN Unresolved("scene_collection")
        ELSE IF ~q.obs THEN Unresolved("obs_version_mismatch")
        ELSE IF \E e \in scenes : e.uuid = NoId THEN Unresolved("sidecar_missing_scene_uuid")
        ELSE IF matching = {} THEN Unresolved("no_matching_scene_event")
        ELSE IF Cardinality(matching) # 1 THEN Unresolved("ambiguous_scene_events")
        ELSE IF event.name # "outro" THEN Unresolved("scene_name_mismatch")
        ELSE IF start >= q.total THEN Unresolved("event_out_of_bounds")
        ELSE IF \E e \in scenes : e.id # event.id /\ e.ns >= event.ns THEN Unresolved("ambiguous_scene_events")
        ELSE [status |-> "resolved", start |-> start, protected_end |-> Min({start + OutroProtection, q.total}),
              tail |-> IF start + OutroProtection < q.total THEN start + OutroProtection ELSE None]

resolve_intro(q, tail) ==
    LET scenes == OfType(q.events, {"scene_changed"})
        named == {e \in scenes : e.name = "intro"}
        matching == IF named # {} THEN named ELSE {e \in scenes : e.uuid = "intro"}
        marker == Min({e.frame : e \in matching})
        start == marker + pipeline_lag_frames(q.events) + INTRO_CUT_OFFSET_FRAMES
    IN  IF matching = {} THEN [status |-> "no_matching_scene_event", start |-> None]
        ELSE IF marker = 0 THEN [status |-> "nothing_before_intro", start |-> 0]
        ELSE IF start >= q.total THEN [status |-> "event_out_of_bounds", start |-> None]
        ELSE IF tail # None /\ start > tail THEN [status |-> "overlaps_outro_tail", start |-> start]
        ELSE [status |-> IF Cardinality(matching) = 1 THEN "resolved" ELSE "resolved_first_of_multiple",
              start |-> start]
is_resolved(intro) == intro.status \in {"resolved", "resolved_first_of_multiple"}

-----------------------------------------------------------------------------
(* The tail of the outro and the lead-in of the intro replace what they overlap *)
NoSilence == [start |-> 0, end |-> 0]

\* Mutant: the tail is added to silences that it contains.
WithOutroTail_Overlapping(p, outro, total) ==
    IF outro.status # "resolved" \/ outro.tail = None THEN p
    ELSE Kept(p, [start |-> outro.tail, end |-> total, reason |-> "outro_excess_tail", raw |-> NoSilence])

PassTail(acc, c, tail) == IF Intersects(c, tail) THEN Dropped(acc, c, "superseded_by_outro_tail") ELSE Kept(acc, c)
WithoutTail(p, tail) == Fold(LAMBDA acc, c : PassTail(acc, c, tail), Restarted(p, <<>>), p.proposed)
WithOutroTail(p, outro, total) ==
    LET tail == [start |-> outro.tail, end |-> total, reason |-> "outro_excess_tail", raw |-> NoSilence]
    IN  IF outro.status # "resolved" \/ outro.tail = None THEN p
        ELSE Kept(WithoutTail(p, tail), tail)

PassLead(acc, c, lead) ==
    IF Intersects(c, lead) THEN Dropped(acc, c, "superseded_by_intro_lead_in")
    ELSE IF c.reason = "silence" /\ c.start < lead.end + INTRO_FLOW_PROTECTED_FRAMES
    THEN Dropped(acc, c, "intro_flow_protected")
    ELSE IF c.reason = "silence" /\ Len(acc.proposed) = 1 /\ c.start - lead.end < Max({1, MinimumKeepIsland})
    THEN Dropped(acc, c, "minimum_keep_island") ELSE Kept(acc, c)
BehindLead(p, lead) == Fold(LAMBDA acc, c : PassLead(acc, c, lead), Restarted(p, <<lead>>), p.proposed)
WithIntroLeadIn(p, intro) ==
    LET lead == [start |-> 0, end |-> intro.start, reason |-> "intro_lead_in", raw |-> NoSilence]
    IN  IF is_resolved(intro) THEN BehindLead(p, lead) ELSE p

Proposal(cuts, outro, intro, silences) ==
    [status |-> IF cuts.proposed = <<>> THEN "no_cuts" ELSE "ready", proposed |-> cuts.proposed,
     rejected |-> cuts.rejected, outro |-> outro, intro |-> intro, silences |-> silences]

generate_proposal(q) ==
    LET outro == resolve_outro(q)
        intro == resolve_intro(q, outro.tail)
        protection == materialize_protection_with_outro(q.events, q.total, outro)
        silences == Clamped(parse_silences(q.log), q.total * TicksPerFrame)
        audio == build_cut_candidates(silences, q.total, protection.ranges)
    IN  IF protection.status # "materialized" THEN [status |-> "E_PROTECTION"]
        ELSE Proposal(WithIntroLeadIn(WithOutroTail(audio, outro, q.total), intro), outro, intro, silences)

\* What the data model of a proposal demands; a proposal that violates it cannot be written.
internally_consistent(p, total) ==
    \A i \in DOMAIN p.proposed :
        /\ nonempty(p.proposed[i], total)
        /\ p.proposed[i].end <= total
        /\ i > 1 => p.proposed[i - 1].end <= p.proposed[i].start

-----------------------------------------------------------------------------
(* render.py: the complement of the approved cuts *)
Take(acc, cut, total) ==
    IF acc.error THEN acc
    ELSE IF cut.start < acc.cursor \/ cut.end > total \/ cut.start - acc.cursor \in 1 .. Max({1, MinimumKeepIsland}) - 1
    THEN [acc EXCEPT !.error = TRUE]
    ELSE [error |-> FALSE, cursor |-> cut.end,
          keeps |-> acc.keeps \o (IF cut.start > acc.cursor THEN <<[start |-> acc.cursor, end |-> cut.start]>> ELSE <<>>)]

TakeActive(acc, i, p, active, total) == IF i \in active THEN Take(acc, p.proposed[i], total) ELSE acc
Taken(p, active, total) == Fold(LAMBDA acc, i : TakeActive(acc, i, p, active, total),
                                [error |-> FALSE, cursor |-> 0, keeps |-> <<>>], [i \in DOMAIN p.proposed |-> i])

build_keep_segments(p, active, total) ==
    LET cut == Taken(p, active, total)
        left == total - cut.cursor
        keeps == cut.keeps \o (IF left > 0 THEN <<[start |-> cut.cursor, end |-> total]>> ELSE <<>>)
    IN  IF cut.error \/ active = {} \/ left \in 1 .. Max({1, MinimumKeepIsland}) - 1 \/ keeps = <<>> THEN <<>> ELSE keeps

-----------------------------------------------------------------------------
(***************************************************************************)
(* Properties                                                              *)
(***************************************************************************)
Removed(c) == c.start .. c.end - 1

(* A proposal is one that its own data model accepts; joining silences     *)
(* neither loses nor adds one; every joined silence is either proposed or  *)
(* rejected, once; a cut made for a silence removes                        *)
(* only frames that lie wholly in that silence, handles left out, none     *)
(* that an event of the recording, the outro or the start of the intro     *)
(* protects, whatever overlaps were resolved before.                       *)
JudgedOnce(p, silences) ==
    LET proposed == [i \in {j \in DOMAIN p.proposed : p.proposed[j].reason = "silence"} |-> p.proposed[i].raw]
        rejected == [i \in DOMAIN p.rejected |-> p.rejected[i].raw]
    IN  /\ IsInjective(proposed) /\ IsInjective(rejected)
        /\ Range(proposed) \cap Range(rejected) = {}
        /\ Range(proposed) \cup Range(rejected) = ToSet(silences)

JudgedAsFound(judged, silences) ==
    /\ \A s \in silences : \E n \in ToSet(judged) : n.start <= s.start /\ s.end <= n.end
    /\ \A n \in ToSet(judged) : \A t \in Removed(n) : \E s \in silences : t \in Removed(s)

ProposalIsHonest(q, p) ==
    LET audio == {c \in ToSet(p.proposed) : c.reason = "silence"}
    IN  p.status # "E_PROTECTION" =>
        /\ internally_consistent(p, q.total)
        /\ JudgedAsFound(normalize_silences(p.silences), p.silences)
        /\ JudgedOnce(p, normalize_silences(p.silences))
        /\ \A c \in audio :
            /\ c.raw.start + HandleBefore <= c.start * TicksPerFrame
            /\ c.end * TicksPerFrame + HandleAfter <= c.raw.end
            /\ \A r \in RawRanges(q.events, q.total) : r.blocks => ~Intersects(c, r)
            /\ p.outro.status = "resolved" => Removed(c) \cap (p.outro.start .. p.outro.protected_end - 1) = {}
            /\ is_resolved(p.intro) => c.start >= p.intro.start + INTRO_FLOW_PROTECTED_FRAMES

(* The renderer can carry out every choice of cuts that the user may       *)
(* approve: no piece it has to keep is shorter than the smallest one it    *)
(* accepts, and something is left (render.py:872).  A lead-in is excepted  *)
(* that ends just before the end of the recording: cut_proposal.py:1034    *)
(* checks only the distance to the first silence.                          *)
SelectionsRender(q, p) ==
    LET late == is_resolved(p.intro) /\ p.intro.start + Max({1, MinimumKeepIsland}) > q.total
    IN  p.status = "ready" /\ ~late =>
            \A active \in (SUBSET DOMAIN p.proposed) \ {{}} : build_keep_segments(p, active, q.total) # <<>>

\* What the user is asked to approve is honest and can be carried out.
IsSound(q, p) == ProposalIsHonest(q, p) /\ SelectionsRender(q, p)
ProposalIsSound(q) == IsSound(q, generate_proposal(q))
=============================================================================
