---------------------------- MODULE CursorTrack ----------------------------
(***************************************************************************)
(* The crop of a short follows the mouse (shorts/cursor_track.py): from    *)
(* the log of the pointer, the kept segments of the video and the windows  *)
(* in which the chart is shown to one offset of the crop for every frame,  *)
(* and to the commands with which FFmpeg moves the crop                    *)
(* (shorts/chart_crop.py).  Times are ticks, Second of them to Fps frames. *)
(***************************************************************************)
EXTENDS Integers, Sequences, FiniteSets, FiniteSetsExt, SequencesExt

CONSTANTS
    Fps, Second,                 \* BUILD_FPS frames in a second of so many ticks
    ScaleX, ScaleY, ShiftY,      \* LEINWAND_SKALA_X and _Y as fractions, LEINWAND_VERSATZ_Y
    HOEHE,                       \* LEINWAND_HOEHE
    CROP_WIDTH, X_OFFSET_MAX, X_OFFSET_DEFAULT,
    RAND, RESERVE,               \* TRITTZONE_RAND_PX, RESERVE_PX
    MEDIAN_FENSTER, VERZOEGERUNG, VERWEILDAUER, FAHRT_MIN, FAHRT_MAX,
    BLENDE                       \* TON_EINBLENDE_MS, the same for TON_AUSBLENDE_MS

None == -1                       \* no median, no frame

-----------------------------------------------------------------------------
(* The axis of the rendered video; a segment is <<first, past the last>>.   *)
HalfEven(a, b) ==
    LET q == a \div b  r == a % b
    IN  IF 2 * r > b \/ (2 * r = b /\ q % 2 = 1) THEN q + 1 ELSE q
ms_to_frame(ms) == HalfEven(ms * Fps, Second)
candidate_frame_span(start, end) == <<ms_to_frame(start), ms_to_frame(end)>>

keep_segments_from_intervals(cuts, total) ==
    LET n == Len(cuts)
        gap == [i \in 1 .. n + 1 |-> <<IF i = 1 THEN 0 ELSE cuts[i - 1][2], IF i > n THEN total ELSE cuts[i][1]>>]
    IN  SelectSeq(gap, LAMBDA s : s[1] < s[2])

\* How many kept frames lie before the source frame q.
map_source_frame_ceiling(segs, q) ==
    LET kept(s) == IF q <= s[1] THEN 0 ELSE IF q < s[2] THEN q - s[1] ELSE s[2] - s[1]
        sum[i \in 0 .. Len(segs)] == IF i = 0 THEN 0 ELSE sum[i - 1] + kept(segs[i])
    IN  sum[Len(segs)]

\* The index of the segment that holds the rendered frame, and its source frame.
SegmentOf(segs, f) ==
    {i \in DOMAIN segs : map_source_frame_ceiling(segs, segs[i][1]) <= f /\ f < map_source_frame_ceiling(segs, segs[i][2])}
map_rendered_frame(segs, f) ==
    IF SegmentOf(segs, f) = {} THEN None
    ELSE LET i == Max(SegmentOf(segs, f)) IN segs[i][1] + f - map_source_frame_ceiling(segs, segs[i][1])

map_source_interval_to_rendered(segs, windows) ==
    SelectSeq([i \in DOMAIN windows |-> <<map_source_frame_ceiling(segs, windows[i][1]),
                                          map_source_frame_ceiling(segs, windows[i][2])>>],
              LAMBDA w : w[1] < w[2])

candidate_outside_windows(span, windows) ==
    \A i \in DOMAIN windows : windows[i][2] <= span[1] \/ span[2] <= windows[i][1]

-----------------------------------------------------------------------------
(* The windows of the scene "Charts" (shorts/scene_windows.py): records     *)
(* [kind, label, frame] of the journal, label "" where there is none.       *)
Changes(records) ==
    LET scenes == SelectSeq([i \in DOMAIN records |-> i], LAMBDA i : records[i].kind = "scene_changed")
        order == SortSeq(scenes, LAMBDA i, j : \/ records[i].frame < records[j].frame
                                               \/ records[i].frame = records[j].frame /\ i < j)
    IN  [n \in DOMAIN order |-> records[order[n]]]

Initial(records) ==
    LET starts == SelectSeq(records, LAMBDA r : r.kind = "recording_started" /\ r.label # "")
    IN  IF starts = <<>> THEN "" ELSE Last(starts).label

scene_windows_from_records(records) ==
    LET stops == SelectSeq(records, LAMBDA r : r.kind = "stop")
        initial == Initial(records)
        stop == IF stops = <<>> THEN None ELSE Last(stops).frame
        changes == Changes(records)
        first == IF changes = <<>> THEN stop ELSE changes[1].frame
        lead == IF initial = "Charts" /\ first > 0 THEN <<<<0, first>>>> ELSE <<>>
        window == [n \in DOMAIN changes |->
                    <<changes[n].frame, IF changes[n].label # "Charts" THEN None
                                        ELSE IF n < Len(changes) THEN changes[n + 1].frame ELSE stop>>]
        all == lead \o SelectSeq(window, LAMBDA w : w[1] < w[2])
    IN  [ok |-> stop # None /\ ~(all = <<>> /\ initial = "" /\ first > 0), fenster |-> all]

\* The cuts the user approved: all of the proposal or those that are active.
effective_cuts(cuts, active) == SelectSeq(cuts, LAMBDA c : c.id \in active)

\* Segments and windows on the rendered axis; without windows no frame is frozen.
load_rendered_charts_windows(job) ==
    LET cuts == effective_cuts(job.cuts, job.active)
        segmente == keep_segments_from_intervals([i \in DOMAIN cuts |-> <<cuts[i].start, cuts[i].end>>], job.total)
        scenes == scene_windows_from_records(job.records)
    IN  IF ~job.journal \/ ~job.authorized THEN [gefiltert |-> FALSE, fenster |-> <<>>, segmente |-> <<>>]
        ELSE IF ~scenes.ok THEN [gefiltert |-> FALSE, fenster |-> <<>>, segmente |-> segmente]
        ELSE [gefiltert |-> TRUE, segmente |-> segmente,
              fenster |-> map_source_interval_to_rendered(segmente, scenes.fenster)]

-----------------------------------------------------------------------------
(* The log: a header and rows [good, zeit, x, y]; one bad row refuses it.   *)
parse_cursorprotokoll(log) ==
    [ok |-> /\ log.header
            /\ \A i \in DOMAIN log.rows : log.rows[i].good
            /\ \A i \in 2 .. Len(log.rows) : log.rows[i - 1].zeit <= log.rows[i].zeit,
     zeilen |-> log.rows]

desktop_zu_leinwand_x(x) == (x * ScaleX[1]) \div ScaleX[2]
desktop_zu_leinwand_y(y) == (y * ScaleY[1] + ShiftY * ScaleY[2]) \div ScaleY[2]
zeile_ist_im_bild(z) == z.x >= 0 /\ desktop_zu_leinwand_y(z.y) \in 0 .. HOEHE - 1

quellframe_zu_wanduhrzeit(q, anker) == anker + (q * Second) \div Fps

MedianX(zeilen, anfang, ende) ==
    LET lines == SelectSeq(zeilen, LAMBDA z : anfang <= z.zeit /\ z.zeit <= ende /\ zeile_ist_im_bild(z))
        werte == SortSeq([i \in DOMAIN lines |-> lines[i].x], <)
        mitte == Len(werte) \div 2
    IN  IF werte = <<>> THEN None
        ELSE desktop_zu_leinwand_x(IF Len(werte) % 2 = 1 THEN werte[mitte + 1]
                                   ELSE (werte[mitte] + werte[mitte + 1]) \div 2)

gleitender_median_Unclipped(zeilen, zeit, von, bis) ==
    MedianX(zeilen, zeit - MEDIAN_FENSTER \div 2, zeit + MEDIAN_FENSTER \div 2)

\* The median of the pointer around a time, from lines between von and bis only.
gleitender_median(zeilen, zeit, von, bis) ==
    MedianX(zeilen, Max({zeit - MEDIAN_FENSTER \div 2, von}), Min({zeit + MEDIAN_FENSTER \div 2, bis}))

-----------------------------------------------------------------------------
(* Where the crop stands and where it drives to.                            *)
auf_geraden_versatz(wert) == Max({0, Min({X_OFFSET_MAX, wert - (wert % 2)})})
trittzone(v) == v + RAND .. v + CROP_WIDTH - 1 - RAND

austrittsrichtung(v, median) ==
    IF median = None \/ median < v + RAND THEN "links"
    ELSE IF median > v + CROP_WIDTH - 1 - RAND THEN "rechts" ELSE "keine"

zielversatz(median, richtung) ==
    IF median = None THEN 0
    ELSE auf_geraden_versatz(IF richtung = "links" THEN median - RAND - RESERVE
                             ELSE median - (CROP_WIDTH - 1) + RAND + RESERVE)

anfangsversatz(median) ==
    IF median = None \/ austrittsrichtung(0, median) = "keine" THEN 0
    ELSE zielversatz(median, austrittsrichtung(0, median))

fahrtdauer_frames(weg) ==
    LET begrenzt == Min({IF weg < 0 THEN -weg ELSE weg, X_OFFSET_MAX})
    IN  Max({1, ms_to_frame(FAHRT_MIN + ((FAHRT_MAX - FAHRT_MIN) * begrenzt) \div X_OFFSET_MAX)})

\* The smoothstep at frame k of d, rounded to a whole column.
ueberblendung(von, nach, k, d) ==
    HalfEven(von * d * d * d + (nach - von) * k * k * (3 * d - 2 * k), d * d * d)

-----------------------------------------------------------------------------
(* What is known of each frame of the span before the crop is planned.      *)
Spur(k) ==
    LET n == k.span[2] - k.span[1]
        frame == [i \in 1 .. n |-> k.span[1] + i - 1]
        segment == [i \in 1 .. n |-> Max(SegmentOf(k.segmente, frame[i]) \cup {0})]
        quelle == [i \in 1 .. n |-> map_rendered_frame(k.segmente, frame[i])]
        zeit == [i \in 1 .. n |-> quellframe_zu_wanduhrzeit(quelle[i], k.anker)]
        median(i) == LET s == k.segmente[segment[i]]
                     IN  gleitender_median(k.zeilen, zeit[i], quellframe_zu_wanduhrzeit(s[1], k.anker),
                                           quellframe_zu_wanduhrzeit(s[2] - 1, k.anker))
        gerendert == \A i \in 1 .. n : segment[i] # 0
        gedeckt == /\ k.zeilen # <<>> /\ gerendert
                   /\ k.zeilen[1].zeit <= zeit[1] /\ zeit[n] <= Last(k.zeilen).zeit
    IN  [n |-> n, gerendert |-> gerendert, gedeckt |-> gedeckt, segment |-> segment,
         median |-> [i \in 1 .. n |-> IF gedeckt THEN median(i) ELSE None],
         \* the frame past the end of the window that holds it, 0 outside of all
         grenze |-> [i \in 1 .. n |->
            IF ~k.gefiltert THEN n + 1
            ELSE LET w == SelectSeq(k.fenster, LAMBDA f : f[1] <= frame[i] /\ frame[i] < f[2])
                 IN  IF w = <<>> THEN 0 ELSE Min({n, w[1][2] - k.span[1]}) + 1]]

Rueckfallgrund(k, spur) ==
    CASE k.zeilen = <<>> -> "kein_cursorprotokoll"
      [] ~spur.gerendert -> "spanne_ausserhalb_gerenderter_achse"
      [] ~spur.gedeckt -> "protokoll_deckt_spanne_nicht"
      [] \A i \in 1 .. spur.n : spur.median[i] = None -> "kein_gueltiger_median"
      [] OTHER -> "berechnet"

KeineFahrt == [dauer |-> 0]
Gefahren(fahrt, wert) ==
    [start |-> fahrt.start, dauer |-> fahrt.frames, von |-> fahrt.von, nach |-> wert, richtung |-> fahrt.richtung]
Abgebrochen(s) ==
    IF s.fahrt = KeineFahrt THEN s
    ELSE [s EXCEPT !.fahrten = Append(@, Gefahren(s.fahrt, s.versatz)), !.fahrt = KeineFahrt]

\* Outside of every window the offset holds; a running drive is given up.
Gefroren(s) == [Abgebrochen(s) EXCEPT !.richtung = "keine", !.austritt = 0, !.eingefroren = @ + 1]

\* At a seam of two segments the offset is set anew, a drive is forgotten.
Naht(spur, s, i) ==
    LET neu == {j \in i .. spur.n : spur.segment[j] = spur.segment[i] /\ spur.median[j] # None}
    IN  [s EXCEPT !.versatz = IF neu = {} THEN @ ELSE anfangsversatz(spur.median[Min(neu)]),
                  !.naehte = Append(@, i), !.fahrt = KeineFahrt, !.richtung = "keine", !.austritt = 0,
                  !.sperre = None]

Weitergefahren(s, fahrt, i) ==
    IF fahrt.frames >= fahrt.dauer
    THEN [s EXCEPT !.versatz = fahrt.nach, !.fahrten = Append(@, Gefahren(fahrt, fahrt.nach)),
                   !.fahrt = KeineFahrt, !.sperre = i + ms_to_frame(VERWEILDAUER)]
    ELSE [s EXCEPT !.versatz = auf_geraden_versatz(ueberblendung(fahrt.von, fahrt.nach, fahrt.frames, fahrt.dauer)),
                   !.fahrt = fahrt]

\* A drive begins when the pointer was out long enough, the last drive is
\* long enough ago, and it can end before the window and the span do.
Beobachtet(spur, s, i) ==
    LET median == spur.median[i]
        richtung == austrittsrichtung(s.versatz, median)
        lange == IF richtung = s.richtung THEN s.austritt + 1 ELSE 1
        seen == [s EXCEPT !.richtung = richtung, !.austritt = lange]
        ziel == zielversatz(median, richtung)
        dauer == fahrtdauer_frames(ziel - s.versatz)
    IN  IF richtung = "keine" THEN [seen EXCEPT !.austritt = 0]
        ELSE IF lange < ms_to_frame(VERZOEGERUNG) \/ i < s.sperre THEN seen
        ELSE IF ziel = s.versatz THEN [seen EXCEPT !.austritt = 0]
        ELSE IF spur.grenze[i] - i < dauer THEN seen
        ELSE Weitergefahren([s EXCEPT !.richtung = "keine", !.austritt = 0],
                            [start |-> i, frames |-> 1, dauer |-> dauer, von |-> s.versatz, nach |-> ziel,
                             richtung |-> richtung], i)

Frame(spur, s, i) ==
    LET t == CASE spur.grenze[i] = 0 -> Gefroren(s)
               [] spur.grenze[i] # 0 /\ i > 1 /\ spur.segment[i] # spur.segment[i - 1] -> Naht(spur, s, i)
               [] OTHER -> IF s.fahrt # KeineFahrt THEN Weitergefahren(s, [s.fahrt EXCEPT !.frames = @ + 1], i)
                           ELSE Beobachtet(spur, s, i)
    IN  [t EXCEPT !.werte = Append(@, t.versatz)]

Anfang(spur) ==
    [versatz |-> anfangsversatz(spur.median[Min({i \in 1 .. spur.n : spur.median[i] # None})]),
     richtung |-> "keine", austritt |-> 0, sperre |-> None, fahrt |-> KeineFahrt,
     werte |-> <<>>, fahrten |-> <<>>, naehte |-> <<>>, eingefroren |-> 0]

Berechnet(s) == [grund |-> "berechnet", werte |-> s.werte, fahrten |-> s.fahrten, naehte |-> s.naehte]

versatzkurve(k) ==
    LET spur == Spur(k)
        grund == Rueckfallgrund(k, spur)
        nach[i \in 0 .. spur.n] == IF i = 0 THEN Anfang(spur) ELSE Frame(spur, nach[i - 1], i)
    IN  IF grund = "berechnet" THEN Berechnet(Abgebrochen(nach[spur.n]))
        ELSE [grund |-> grund, werte |-> [i \in 1 .. spur.n |-> X_OFFSET_DEFAULT], fahrten |-> <<>>, naehte |-> <<>>]

-----------------------------------------------------------------------------
(* The build of a candidate: with or without the curve (shorts/build.py).   *)
lade_mausverfolgung(job, segmente) ==
    job.aktiviert /\ job.eintrag /\ job.datei /\ parse_cursorprotokoll(job.log).ok /\ job.log.rows # <<>> /\ segmente # <<>>

\* The curve of the candidate; without values the offset is fixed.
Fest(grund) == [grund |-> grund, werte |-> <<>>, fahrten |-> <<>>, naehte |-> <<>>]
Gueltig(kurve) == IF kurve.grund = "berechnet" THEN kurve ELSE Fest(kurve.grund)
berechne_versatzkurve(k) ==
    IF k.versatz # None \/ ~lade_mausverfolgung(k.job, k.segmente) \/ k.span[2] <= k.span[1] THEN Fest("keine Mausverfolgung")
    ELSE Gueltig(versatzkurve(k))
offset_for_candidate(k) == IF k.versatz = None THEN X_OFFSET_DEFAULT ELSE k.versatz

validate_offset(wert) == wert % 2 = 0 /\ wert \in 0 .. X_OFFSET_MAX

\* A command half a frame before each frame that changes; times in quarters of a frame.
crop_sendcmd_kommandos(kurve) ==
    LET wechsel == SelectSeq([i \in 1 .. Len(kurve) |-> i], LAMBDA i : i > 1 /\ kurve[i] # kurve[i - 1])
    IN  [j \in DOMAIN wechsel |-> [zeit |-> 4 * (wechsel[j] - 1) - 2, wert |-> kurve[wechsel[j]]]]

build_ffmpeg_filter_complex(span, x_offset, kurve) ==
    LET n == span[2] - span[1]
    IN  [ok |-> /\ n > 0 /\ n * Second >= 2 * BLENDE * Fps
                /\ IF kurve = <<>> THEN x_offset \in 0 .. X_OFFSET_MAX
                   ELSE Len(kurve) = n /\ \A i \in 1 .. n : validate_offset(kurve[i]),
         anfang |-> IF kurve = <<>> THEN x_offset ELSE kurve[1],
         kommandos |-> crop_sendcmd_kommandos(kurve)]

-----------------------------------------------------------------------------
(* The candidate of a question: its judged span decides whether it is      *)
(* built, the span with corrected edges is what is built.                   *)
Spanne(q, axis) ==
    LET rows == q.job.log.rows
    IN  [segmente |-> axis.segmente, gefiltert |-> axis.gefiltert, fenster |-> axis.fenster,
         judged |-> candidate_frame_span(q.judged[1], q.judged[2]),
         span |-> candidate_frame_span(q.built[1], q.built[2]), job |-> q.job, versatz |-> q.versatz,
         zeilen |-> rows, anker |-> IF rows = <<>> THEN 0 ELSE rows[1].zeit]
Kandidat(q) == Spanne(q, load_rendered_charts_windows(q.job))
IsBuilt(k) == k.judged[1] < k.judged[2] /\ ~(k.gefiltert /\ candidate_outside_windows(k.judged, k.fenster))

\* What FFmpeg shows at the time t: the value of the last command that was due.
Gezeigt(filter, t) ==
    LET due == {j \in DOMAIN filter.kommandos : filter.kommandos[j].zeit <= t}
    IN  IF due = {} THEN filter.anfang ELSE filter.kommandos[Max(due)].wert

\* Every frame shows the value meant for it, though its time be off by a quarter of a frame.
FilterShowsCurve(k, kurve) ==
    LET filter == build_ffmpeg_filter_complex(k.span, offset_for_candidate(k), kurve)
    IN  /\ filter.ok
        /\ \A i \in 1 .. k.span[2] - k.span[1], off \in -1 .. 1 :
              Gezeigt(filter, 4 * (i - 1) + off) = IF kurve = <<>> THEN offset_for_candidate(k) ELSE kurve[i]

\* The scene that was shown at a frame of the source, "" where nobody knows.
Scene(records, q) ==
    LET past == SelectSeq(Changes(records), LAMBDA r : r.frame <= q)
    IN  IF past = <<>> THEN Initial(records) ELSE Last(past).label

\* A rendered frame lies in a window exactly when its source frame shows the chart, and
\* a candidate is built exactly when one of its frames does.
WindowsFit(k) ==
    LET charts(f) == Scene(k.job.records, map_rendered_frame(k.segmente, f)) = "Charts"
        rendered(span) == {f \in span[1] .. span[2] - 1 : map_rendered_frame(k.segmente, f) # None}
    IN  k.gefiltert =>
          /\ \A f \in rendered(k.span) : charts(f) <=> \E w \in ToSet(k.fenster) : w[1] <= f /\ f < w[2]
          /\ IsBuilt(k) <=> \E f \in rendered(k.judged) : charts(f)
WindowsAreExact(q) == WindowsFit(Kandidat(q))

\* A drive ends on its target after its full time, and on the way it never turns back.
DrivesAreWhole(c) ==
    \A d \in ToSet(c.fahrten) :
        /\ d.dauer = fahrtdauer_frames(d.nach - d.von)
        /\ c.werte[d.start + d.dauer - 1] = d.nach
        /\ d.start > 1 => c.werte[d.start - 1] = d.von
        /\ \A i \in d.start + 1 .. d.start + d.dauer - 1 :
              IF d.nach > d.von THEN c.werte[i] >= c.werte[i - 1] ELSE c.werte[i] <= c.werte[i - 1]

\* The crop moves in a drive or at a seam, or shortly before the seam that cuts a drive off.
OnlyDrivesMove(c) ==
    \A i \in 2 .. Len(c.werte) :
        c.werte[i] # c.werte[i - 1] =>
            \/ \E d \in ToSet(c.fahrten) : i \in d.start .. d.start + d.dauer - 1
            \/ \E s \in ToSet(c.naehte) : i \in s - fahrtdauer_frames(X_OFFSET_MAX) + 1 .. s

\* Between two drives the picture rests, unless a seam lies between them.
DrivesRest(c) ==
    \A j \in 2 .. Len(c.fahrten) :
        LET d == c.fahrten[j - 1]  e == c.fahrten[j]
        IN  \/ e.start >= d.start + d.dauer - 1 + ms_to_frame(VERWEILDAUER)
            \/ \E s \in ToSet(c.naehte) : s \in d.start + d.dauer .. e.start

\* A drive answers a pointer that left on one side and stayed out, in the sight of one shot.
SwipesAreIgnored(spur, c) ==
    \A d \in ToSet(c.fahrten) : \A i \in d.start - ms_to_frame(VERZOEGERUNG) + 1 .. d.start :
        /\ i >= 1 /\ spur.grenze[i] # 0 /\ spur.segment[i] = spur.segment[d.start]
        /\ austrittsrichtung(d.von, spur.median[i]) = d.richtung

\* A pointer that stays is in the picture after two drives and the rest between them.
PointerIsFollowed(spur, c) ==
    LET long == 2 * fahrtdauer_frames(X_OFFSET_MAX) + ms_to_frame(VERWEILDAUER)
    IN  \A a \in 1 .. spur.n - long :
            LET b == a + long  m == spur.median[a]
            IN  (m # None /\ \A i \in a .. b : /\ spur.grenze[i] # 0 /\ spur.median[i] = m
                                             /\ spur.segment[i] = spur.segment[a])
                => \/ m \in trittzone(c.werte[b])
                   \/ c.werte[b] = 0 /\ m < RAND
                   \/ c.werte[b] = X_OFFSET_MAX /\ m > X_OFFSET_MAX + CROP_WIDTH - 1 - RAND

\* What lies in a cut has no influence on the curve.
CutContentIsUnseen(k, c) ==
    LET kept(z) == \E s \in ToSet(k.segmente) : quellframe_zu_wanduhrzeit(s[1], k.anker) <= z.zeit
                                                  /\ z.zeit <= quellframe_zu_wanduhrzeit(s[2] - 1, k.anker)
        other == [i \in DOMAIN k.zeilen |-> IF kept(k.zeilen[i]) THEN k.zeilen[i] ELSE [k.zeilen[i] EXCEPT !.x = None]]
    IN  other # k.zeilen => c = versatzkurve([k EXCEPT !.zeilen = other])

CurveIsCalm(k, c) ==
    /\ FilterShowsCurve(k, c.werte)
    /\ c.grund = "berechnet" =>
          /\ DrivesAreWhole(c) /\ OnlyDrivesMove(c) /\ DrivesRest(c)
          /\ SwipesAreIgnored(Spur(k), c) /\ PointerIsFollowed(Spur(k), c) /\ CutContentIsUnseen(k, c)
CandidateIsCalm(k) == IsBuilt(k) => CurveIsCalm(k, berechne_versatzkurve(k))

\* The crop of every candidate that is built is calm in all these respects.
CropIsCalm(q) == CandidateIsCalm(Kandidat(q))
=============================================================================
