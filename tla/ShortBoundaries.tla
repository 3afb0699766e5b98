-------------------------- MODULE ShortBoundaries --------------------------
(***************************************************************************)
(* Where a short begins and ends.  The judged span is snapped to whole     *)
(* words of the transcript (shorts/loop_point.py); the tone of the         *)
(* rendered video then tells where the first word really starts, the last  *)
(* one really ends and the neighbours lie (shorts/level_cut.py), and the   *)
(* boundaries are set from these edges                                     *)
(* (shorts/build.py, _apply_level_correction).                             *)
(*                                                                         *)
(* Times are counted in blocks of ten milliseconds.  The tone of a block   *)
(* is "still" (under both thresholds of the code), "pause" (under the one  *)
(* for pauses only) or "voice"; the same class holds in every window, so   *)
(* that the averages behind the thresholds need no place here.             *)
(***************************************************************************)
EXTENDS Integers, Sequences, FiniteSets, FiniteSetsExt

CONSTANTS
    Half,                         \* half of MEASURE_MS
    EINSCHLUSS_TOLERANZ, MAX_SHIFT, LOOP_PAD, MIN_SPAN,
    VORLAUF_SUCHE_MAX, VORLAUF_MAX, VORLAUF_REST, STILLE_UNTERBRECHUNG_MAX,
    WORTENDE_SUCHE, WORTENDE_SUCHE_MAX, WORTENDE_FALLBACK, WORTENDE_UNTERBRECHUNG_MAX,
    START_EINSATZ_SUCHE, EINSATZ_BESTAETIGUNG,
    PAUSE_ENDE, PAUSE_ANFANG, ANFANG_VOR, NACHBARRAND_SUCHE, SEARCH_WINDOW,
    MIN_NACHKLANG, TON_EINBLENDE

\* No word, or no such place.  Times are never negative where it is used.
None == -1

\* LevelCutFailed: the window holds no measurable tone.
Failed == -2

Smaller(a, b) == IF a <= b THEN a ELSE b
Larger(a, b) == IF a >= b THEN a ELSE b

-----------------------------------------------------------------------------
(* Snapping to whole words: a word is [start, end].  The code looks places *)
(* up by bisection: the transcript's words follow one another.             *)
InOrder(words) ==
    \A i \in DOMAIN words : /\ words[i].start <= words[i].end
                            /\ i + 1 \in DOMAIN words => words[i].end <= words[i + 1].start

\* What both ends may choose from: the words inside the span.
Inside(words, first, last) == {i \in DOMAIN words : words[i].start >= first /\ words[i].end <= last}

\* The first word inside, or the word that began shortly before the mark.
snap_start(words, first, last) ==
    LET inside == Inside(words, first, last)
        before == {i \in DOMAIN words : words[i].start <= first}
        near == {i \in before : i = Max(before)
                                /\ first - words[i].start <= EINSCHLUSS_TOLERANZ}
        chosen == (IF inside = {} THEN {} ELSE {Min(inside)}) \cup near
    IN  IF chosen = {} THEN None ELSE Min(chosen)

\* The last word inside, or the word that ends shortly after the mark.
snap_end(words, first, last) ==
    LET inside == Inside(words, first, last)
        after == {i \in DOMAIN words : words[i].end >= last}
        near == {i \in after : i = Min(after) /\ words[i].end - last <= EINSCHLUSS_TOLERANZ}
        chosen == (IF inside = {} THEN {} ELSE {Max(inside)}) \cup near
    IN  IF chosen = {} THEN None ELSE Max(chosen)

NotSnappable == [snapped |-> FALSE]

\* The boundaries with as much air as the pause to the neighbour gives.
rasten_auf_wortgrenzen(words, first, last) ==
    LET s == snap_start(words, first, last)
        e == snap_end(words, first, last)
        before == IF s = 1 THEN None ELSE words[s].start - words[s - 1].end
        after == IF e = Len(words) THEN None ELSE words[e + 1].start - words[e].end
        pad(pause) == IF pause = None THEN LOOP_PAD ELSE Smaller(LOOP_PAD, pause)
        tooFar(a, b) == a - b > MAX_SHIFT \/ b - a > MAX_SHIFT
    IN  IF s = None \/ e = None THEN NotSnappable
        ELSE IF tooFar(words[s].start, first) \/ tooFar(words[e].end, last) THEN NotSnappable
        ELSE IF words[e].end + pad(after) - words[s].start + pad(before) < MIN_SPAN
             THEN NotSnappable
        ELSE [snapped |-> TRUE, start |-> words[s].start - pad(before),
              end |-> words[e].end + pad(after), pause_before |-> before,
              pause_after |-> after]

-----------------------------------------------------------------------------
(* Measuring.  tone maps the measurable blocks 1 .. n to their class. *)

\* The file is read from half a measure before the window, but not from
\* before its beginning; reading ends with the file.
Window(tone, mark, before, width) ==
    LET first == Larger(0, mark - before - Half) + Half
    IN  (first .. first + width) \cap DOMAIN tone

IsQuiet(level) == level # "voice"
IsLoud(level) == level # "still"

\* The longest runs of quiet blocks, as pairs of first and last block.
quiet_regions(tone, window) ==
    {r \in window \X window :
        /\ r[1] <= r[2] /\ \A p \in r[1] .. r[2] : IsQuiet(tone[p])
        /\ r[1] - 1 \in window => ~IsQuiet(tone[r[1] - 1])
        /\ r[2] + 1 \in window => ~IsQuiet(tone[r[2] + 1])}

Pauses(tone, window, least) ==
    {r \in quiet_regions(tone, window) : r[2] - r[1] + 1 >= least}

\* The first block from which the other class lasts longer than tolerated.
folge_bis_wechsel(tone, window, from, loud, tolerance) ==
    LET change == {p \in window : /\ p >= from /\ p + tolerance \in window
                                  /\ \A q \in p .. p + tolerance : IsLoud(tone[q]) # loud}
    IN  IF change = {} THEN None ELSE Min(change)

Anchor(window, mark) == Larger(Min(window), Smaller(Max(window), mark))

Capped(place, limit) == IF limit = None THEN place ELSE Smaller(place, limit)
Raised(place, limit) == IF limit = None THEN place ELSE Larger(place, limit)

\* How long the stillness lasts; short sounds do not end it.
stillebereich_laenge(tone, window) ==
    LET sound == folge_bis_wechsel(tone, window, Min(window), FALSE, STILLE_UNTERBRECHUNG_MAX)
    IN  IF sound = None THEN Cardinality(window) ELSE sound - Min(window)

\* The mark moved behind a long stillness.
finde_stillevorlauf(tone, mark) ==
    LET window == Window(tone, mark, 0, VORLAUF_SUCHE_MAX)
        still == Smaller(stillebereich_laenge(tone, window), VORLAUF_SUCHE_MAX)
    IN  IF mark < 0 \/ window = {} THEN Failed
        ELSE IF still > VORLAUF_MAX THEN mark + still - VORLAUF_REST ELSE mark

\* The true end of a word: the beginning of the first real pause after it.
finde_wortrand_ende(tone, mark, limit) ==
    LET window == Window(tone, mark, 0, WORTENDE_SUCHE_MAX)
        pauses == Pauses(tone, window, PAUSE_ENDE)
    IN  IF window = {} THEN Failed
        ELSE IF pauses = {} THEN None
        ELSE Capped(Min({r[1] : r \in pauses}), limit)

\* The true beginning of a word: the end of the last pause close before it.
finde_wortrand_anfang(tone, mark, limit) ==
    LET window == Window(tone, mark, WORTENDE_SUCHE, 2 * WORTENDE_SUCHE + ANFANG_VOR)
                    \cap 0 .. mark + ANFANG_VOR
        pauses == Pauses(tone, window, PAUSE_ANFANG)
    IN  IF window = {} THEN Failed
        ELSE IF pauses = {} THEN None
        ELSE Raised(Max({r[2] : r \in pauses}), limit)

\* The older way to the end: where the sound fades for good.
finde_wortende_ton(tone, mark, limit) ==
    LET window == Window(tone, mark, WORTENDE_SUCHE, WORTENDE_SUCHE + WORTENDE_SUCHE_MAX)
        anchor == Anchor(window, mark)
        fades == folge_bis_wechsel(tone, window, anchor, TRUE, WORTENDE_UNTERBRECHUNG_MAX)
    IN  IF window = {} THEN Failed
        ELSE IF ~IsLoud(tone[anchor]) THEN Capped(mark, limit)
        ELSE IF fades = None THEN Capped(mark + WORTENDE_FALLBACK, limit)
        ELSE Capped(fades, limit)

\* The older way to the beginning: where sound sets in, a little after the mark.
finde_worteinsatz_ton(tone, mark) ==
    LET window == Window(tone, mark, WORTENDE_SUCHE, WORTENDE_SUCHE + START_EINSATZ_SUCHE)
        anchor == Anchor(window, mark)
        sets_in == folge_bis_wechsel(tone, window, anchor, FALSE, EINSATZ_BESTAETIGUNG)
    IN  IF window = {} THEN Failed
        ELSE IF IsLoud(tone[anchor]) \/ sets_in = None THEN mark
        ELSE Smaller(sets_in, mark + START_EINSATZ_SUCHE)

\* The neighbour when the transcript leaves no pause: from the own true end to
\* the end of the first pause, and back from the own true beginning.
finde_nachbarrand_einsatz(tone, own_end) ==
    LET window == Window(tone, own_end, 0, NACHBARRAND_SUCHE)
        pauses == Pauses(tone, window, PAUSE_ENDE)
    IN  IF window = {} THEN Failed
        ELSE IF pauses = {} THEN None
        ELSE (CHOOSE r \in pauses : \A q \in pauses : r[1] <= q[1])[2]

finde_nachbarrand_ausklang(tone, own_start) ==
    LET window == Window(tone, own_start, NACHBARRAND_SUCHE, NACHBARRAND_SUCHE)
                    \cap 0 .. own_start
        pauses == Pauses(tone, window, PAUSE_ANFANG)
    IN  IF window = {} THEN Failed
        ELSE IF pauses = {} THEN None
        ELSE (CHOOSE r \in pauses : \A q \in pauses : r[2] >= q[2])[1]

\* miss_pegel_bei_marke only reports, but it can fail.
Measurable(tone, mark) == Window(tone, mark, SEARCH_WINDOW, 2 * SEARCH_WINDOW) # {}

-----------------------------------------------------------------------------
(* _apply_level_correction *)

\* The first answer that is not None, in the order the code asks.
FirstOf(answers) == LET there == {i \in DOMAIN answers : answers[i] # None}
                    IN  IF there = {} THEN None ELSE answers[Min(there)]

\* The transcript's marks behind the padding.
WordStart(b) == b.start + (IF b.pause_before = None THEN LOOP_PAD
                           ELSE Smaller(LOOP_PAD, b.pause_before))
WordEnd(b) == b.end - (IF b.pause_after = None THEN LOOP_PAD
                       ELSE Smaller(LOOP_PAD, b.pause_after))

OwnEnd(tone, b) ==
    FirstOf(<<finde_wortrand_ende(tone, WordEnd(b), None),
              finde_wortende_ton(tone, WordEnd(b),
                                 IF b.pause_after = None THEN None
                                 ELSE WordEnd(b) + b.pause_after)>>)

OwnStart(tone, b) ==
    LET moved == finde_stillevorlauf(tone, b.start)
        anchor == IF moved # b.start THEN moved ELSE WordStart(b)
    IN  IF moved = Failed THEN Failed
        ELSE FirstOf(<<finde_wortrand_anfang(tone, anchor, None),
                       finde_worteinsatz_ton(tone, WordStart(b))>>)

\* Mutant: the previous word's end is not capped at the own beginning.
MeasuredEndBefore_Uncapped(tone, b) ==
    FirstOf(<<IF b.pause_before <= 0 THEN finde_nachbarrand_ausklang(tone, OwnStart(tone, b))
              ELSE None,
              finde_wortrand_ende(tone, WordStart(b) - b.pause_before, None)>>)

\* The neighbours as the tone shows them; the transcript's mark is the last resort.
MeasuredEndBefore(tone, b) ==
    FirstOf(<<IF b.pause_before <= 0 THEN finde_nachbarrand_ausklang(tone, OwnStart(tone, b))
              ELSE None,
              finde_wortrand_ende(tone, WordStart(b) - b.pause_before, OwnStart(tone, b))>>)

MeasuredStartAfter(tone, b) ==
    FirstOf(<<IF b.pause_after <= 0 THEN finde_nachbarrand_einsatz(tone, OwnEnd(tone, b))
              ELSE None,
              finde_wortrand_anfang(tone, WordEnd(b) + b.pause_after, OwnEnd(tone, b))>>)

NeighborEnd(tone, b) ==
    IF b.pause_before = None THEN None
    ELSE FirstOf(<<MeasuredEndBefore(tone, b), WordStart(b) - b.pause_before>>)

NeighborStart(tone, b) ==
    IF b.pause_after = None THEN None
    ELSE FirstOf(<<MeasuredStartAfter(tone, b), WordEnd(b) + b.pause_after>>)

\* The fade-in before the own beginning, or the middle when the neighbour is there.
StartBoundary(tone, b) ==
    LET own == OwnStart(tone, b)
        neighbor == NeighborEnd(tone, b)
    IN  IF neighbor # None /\ neighbor >= own - TON_EINBLENDE
        THEN (neighbor + own) \div 2
        ELSE own - TON_EINBLENDE

EndBoundary(tone, b) ==
    LET own == OwnEnd(tone, b)
        neighbor == NeighborStart(tone, b)
    IN  IF neighbor # None /\ own + MIN_NACHKLANG >= neighbor
        THEN (own + neighbor) \div 2
        ELSE own + MIN_NACHKLANG

\* A failed measurement or a span that became too short keeps the snapped one.
Kept(b) == [applied |-> FALSE, start |-> b.start, end |-> b.end]
Corrected(tone, b, first, last) ==
    IF ~Measurable(tone, first) \/ ~Measurable(tone, last) \/ last - first < MIN_SPAN THEN Kept(b)
    ELSE [applied |-> TRUE, start |-> first, end |-> last]

apply_level_correction(tone, b) ==
    IF Failed \in {OwnEnd(tone, b), OwnStart(tone, b), NeighborEnd(tone, b), NeighborStart(tone, b)} THEN Kept(b)
    ELSE Corrected(tone, b, StartBoundary(tone, b), EndBoundary(tone, b))

-----------------------------------------------------------------------------
\* A question is a word list, a judged span and a tone.
Snapped(q) == rasten_auf_wortgrenzen(q.words, q.first, q.last)
Built(q) == apply_level_correction(q.tone, Snapped(q))

\* The comment at build.py:1326 wants the first and the last word whole in the
\* built span.  They are, as the tone shows them, wherever the neighbour's edge
\* was measured as well; a boundary never passes the measured edge of the
\* neighbour on its own side; and what is built is never shorter than the
\* least span.
SpanIsWhole(tone, b, r) ==
    b.snapped =>
        /\ r.end - r.start >= MIN_SPAN
        /\ r.applied /\ (b.pause_before = None \/ MeasuredEndBefore(tone, b) # None)
           => /\ r.start <= OwnStart(tone, b)
              /\ NeighborEnd(tone, b) # None => r.start >= NeighborEnd(tone, b)
        /\ r.applied /\ (b.pause_after = None \/ MeasuredStartAfter(tone, b) # None)
           => /\ r.end >= OwnEnd(tone, b)
              /\ NeighborStart(tone, b) # None => r.end <= NeighborStart(tone, b)
MeasuredWordsStayWhole(q) == SpanIsWhole(q.tone, Snapped(q), Built(q))

\* The same without the condition, as the comment states it.
WordsStayWhole(q) ==
    LET b == Snapped(q)
        r == Built(q)
    IN  b.snapped /\ r.applied => /\ r.start <= OwnStart(q.tone, b)
                                  /\ r.end >= OwnEnd(q.tone, b)
=============================================================================
