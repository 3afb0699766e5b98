------------------------------ MODULE MCRules ------------------------------
(***************************************************************************)
(* The pure rules of the program over bounded questions.  Durations are    *)
(* scaled down; the README gives the values of the code beside them.       *)
(***************************************************************************)
EXTENDS Rules, FiniteSets, FiniteSetsExt, SequencesExt, TLC

SR == INSTANCE SidecarRules WITH
    TicksPerFrame <- 2, Rounding <- 0, MaxGap <- 6, MaxResidual <- 1, Measurable <- 7,
    DriftNum <- 1, DriftDen <- 2, Tolerance <- 1, EdgeBuffer <- 1, EventBuffer <- 1

CT == INSTANCE CursorTrack WITH
    Fps <- 1, Second <- 2, ScaleX <- <<11, 10>>, ScaleY <- <<11, 10>>, ShiftY <- -1, HOEHE <- 10,
    CROP_WIDTH <- 10, X_OFFSET_MAX <- 8, X_OFFSET_DEFAULT <- 4, RAND <- 2, RESERVE <- 2,
    MEDIAN_FENSTER <- 12, VERZOEGERUNG <- 4, VERWEILDAUER <- 6, FAHRT_MIN <- 3, FAHRT_MAX <- 6, BLENDE <- 1

JB == INSTANCE JournalBundle

-----------------------------------------------------------------------------
(* Shorts: three lists of words, two judged spans, every tone of eight blocks. *)
Word(a, b) == [start |-> a, end |-> b]
MCWordLists == {<<Word(3, 6)>>, <<Word(1, 3), Word(4, 6), Word(6, 8)>>, <<Word(0, 3), Word(3, 6), Word(7, 8)>>}
MCSpans == {<<3, 6>>, <<2, 7>>}
MCTones == [1 .. 8 -> {"still", "pause", "voice"}]

-----------------------------------------------------------------------------
(* Proposals: recordings of twelve frames with the events of a start, a    *)
(* stop, scenes, a marker and a stinger; every frame silent or not, the    *)
(* edges of the silences on and between the frames.                        *)
Total == 12
Event == [id |-> "e", type |-> "scene_changed", frame |-> 0, end |-> -1, pair |-> "none", uuid |-> "other",
          name |-> "other", ns |-> 0, hard |-> TRUE, blocks |-> TRUE, before |-> 0, after |-> 0, uncertainty |-> 0]
Start(lag) == [Event EXCEPT !.id = "start", !.type = "recording_started", !.ns = 2 * lag, !.after = 1]
Stop == [Event EXCEPT !.id = "stop", !.type = "recording_stopped", !.frame = Total, !.before = 2, !.ns = 99]
Other(id, type, f) == [Event EXCEPT !.id = id, !.type = type, !.frame = f, !.ns = 2 * f + 4]
Scene(id, f, uuid, name) == [Other(id, "scene_changed", f) EXCEPT !.uuid = uuid, !.name = name]
Outro(f) == Scene("o", f, "outro", "outro")
Intro(f) == Scene("j", f, "intro", "intro")
Named(f) == Scene("i", f, "other", "intro")
Marker == [Other("m", "manual_protection", 4) EXCEPT !.end = 6, !.hard = FALSE]
Stinger(type, f) == [Other(type, type, f) EXCEPT !.pair = "p"]

Found(events) == [events |-> events, total |-> Total, version |-> "1.2", obs |-> TRUE, binding |-> "good", collection |-> "match"]
MCRecordings ==
    LET plain == {{Start(0), Stop},
                  {Start(1), Outro(2), Stop},
                  {Start(1), Outro(4), Stop},
                  {Start(1), Outro(8), Stop},
                  {Start(1), Scene("i", 1, "intro", "renamed"), Stop},
                  {Start(0), Named(0), Intro(3), Stop},
                  {Start(0), Named(1), Intro(3), Outro(6), Stop},
                  {Start(1), Marker, Stop},
                  {Start(0), Stinger("stinger_started", 4), Stinger("stinger_ended", 6), Stop},
                  {Start(1), Intro(10), Stop}}
        bound == Found({Start(1), Outro(2), Stop})
    IN  {Found(events) : events \in plain} \cup
        {[bound EXCEPT !.version = "1.1"], [bound EXCEPT !.obs = FALSE], [bound EXCEPT !.binding = "missing"],
         [bound EXCEPT !.collection = "mismatch"]}

\* The lines of FFmpeg's log for the frames of silent; the last silence may lack its end.
Line(start, end) == [start |-> start, end |-> end]
Log(silent, shift) ==
    LET first == SetToSortSeq({f \in silent : f - 1 \notin silent}, <)
        last == SetToSortSeq({f \in silent : f + 1 \notin silent}, <)
    IN  [i \in 1 .. 2 * Len(first) |->
            IF i % 2 = 1 THEN Line(2 * (first[(i + 1) \div 2] - 1) - shift, -1)
            ELSE Line(-1, 2 * last[i \div 2] - shift)]
MCLogs == {Log(silent, shift) : silent \in SUBSET (1 .. Total), shift \in {0, 1}}

-----------------------------------------------------------------------------
(* Journals: between start and stop three records, each some ticks and     *)
(* frames after the one before it, complete journals and broken ones.      *)
Record == [kind |-> "event", seq |-> 0, id |-> "e", type |-> "scene_changed", ns |-> 0, counter |-> 0,
           paused |-> FALSE, pair |-> "none", uuid |-> "none", name |-> "none", path |-> "p", ok |-> TRUE, split |-> FALSE]
Steps == {"event", "sample", "pause", "resume"} \X {0, 1, 3} \X {0, 1, 2}
Sum(steps, n, k) == FoldLeft(LAMBDA a, s : a + s[k], 0, SubSeq(steps, 1, n))
IsPaused(steps, n) == LET w == SelectSeq(SubSeq(steps, 1, n), LAMBDA s : s[1] \in {"pause", "resume"})
                      IN  w # <<>> /\ Last(w)[1] = "pause"
Rec(steps, i) == [Record EXCEPT !.kind = steps[i][1], !.seq = i + 1, !.id = <<i>>, !.ns = Sum(steps, i, 2),
                                !.counter = 5 + Sum(steps, i, 3), !.paused = IsPaused(steps, i)]
Journal(steps) ==
    LET n == Len(steps)
    IN  <<[Record EXCEPT !.kind = "header"],
          [Record EXCEPT !.seq = 1, !.id = <<0>>, !.type = "recording_started", !.counter = 5]>>
        \o [i \in 1 .. n |-> Rec(steps, i)]
        \o <<[Record EXCEPT !.kind = "stop", !.seq = n + 2, !.id = <<n + 1>>, !.ns = Sum(steps, n, 2) + 2,
                            !.counter = 6 + Sum(steps, n, 3), !.paused = IsPaused(steps, n)]>>

OutlineJournal ==
    /\ Outline = "none"
    /\ \E s \in Steps : Ask([kind |-> "journal outline", first |-> s])
AskJournal ==
    /\ Outline = "journal outline"
    /\ \E s, t \in Steps :
          LET steps == <<question.first, s, t>>
              total == Sum(steps, 3, 3) + 2
          IN  Ask([kind |-> "journal", records |-> Journal(steps), total |-> total, duration |-> total])

\* Bundles: five productions that differ in one thing each, any mixture of their files.
Production == [recording |-> 1, run |-> 1, version |-> 1, text |-> 1]
Productions == <<Production, [Production EXCEPT !.text = 2], [Production EXCEPT !.run = 2],
                 [Production EXCEPT !.version = 2], [Production EXCEPT !.recording = 2]>>
BadForms == <<"missing", "damaged", "unterminated">>
Names == [f \in JB!Files |-> f]
FileOf(f, n) == IF n <= 5 THEN JB!Produced(Productions[n], Names)[f] ELSE [form |-> BadForms[n - 5]]
AskBundle ==
    /\ Outline = "none"
    /\ \E profile \in {"legacy", "bundle"}, expected \in 0 .. 2, wrong \in JB!Files, pick \in [JB!Files -> 1 .. 8] :
          Ask([kind |-> "bundle", profile |-> profile, expected |-> expected, productions |-> ToSet(Productions),
               name |-> [Names EXCEPT ![wrong] = IF wrong = "manifest" THEN @ ELSE "other"],
               read |-> [f \in JB!Files |-> FileOf(f, pick[f])]])

-----------------------------------------------------------------------------
(* Answers of ffprobe: four streams of every kind that makes a difference. *)
Flags(default, picture) == [default |-> default, attached_pic |-> picture]
Video == [index |-> 0, type |-> "video", flags |-> Flags(FALSE, FALSE), rotations |-> {}, codec |-> "h264",
          width |-> 4, height |-> 3, rate |-> -1, channels |-> -1, layout |-> "", duration |-> -1]
Audio == [Video EXCEPT !.type = "audio", !.codec = "aac", !.rate = 48, !.channels = 2, !.layout = "stereo",
                       !.duration = 9, !.width = -1, !.height = -1]
Sized(w, h) == [Video EXCEPT !.width = w, !.height = h]
Surround == [Audio EXCEPT !.channels = 6, !.layout = "5.1"]
Videos == {Video, Sized(2, 2), Sized(5, 2), Sized(6, 4), [Sized(3, 4) EXCEPT !.rotations = {90, -270}],
           [Video EXCEPT !.flags = Flags(TRUE, FALSE)], [Video EXCEPT !.flags = Flags(FALSE, TRUE)],
           [Video EXCEPT !.flags = [attached_pic |-> FALSE]], [Video EXCEPT !.codec = ""],
           [Video EXCEPT !.rotations = {90, 180}], [Video EXCEPT !.type = "data"]}
Audios == {Audio, Surround, [Audio EXCEPT !.channels = 1, !.layout = "mono"], [Audio EXCEPT !.duration = -1],
           [Audio EXCEPT !.flags = [default |-> TRUE]], [Surround EXCEPT !.flags = [default |-> TRUE]]}
Lists == (Videos \X Videos \X Videos \X Audios) \cup ({Video} \X Audios \X Audios \X Audios)
Answer(streams) ==
    [duplicate |-> "none", unknown |-> FALSE, error |-> FALSE,
     streams |-> [i \in DOMAIN streams |-> [streams[i] EXCEPT !.index = i]], programs |-> {{1, 2}}]
MCAnswers == {Answer(streams) : streams \in Lists}
MCRank == <<"mono", 1>> :> 1 @@ <<"stereo", 2>> :> 2

-----------------------------------------------------------------------------
(* Crops: a line of the log every three frames, the pointer at four places *)
(* or out of the picture, with and without a cut and a window; broken logs.*)
Row(i, place) == [good |-> TRUE, zeit |-> 6 * (i - 1), x |-> place[1], y |-> place[2]]
Places == {<<2, 5>>, <<8, 5>>, <<15, 5>>, <<8, 0>>}
Label(kind, label, frame) == [kind |-> kind, label |-> label, frame |-> frame]
Scenes(first, changes) ==
    <<Label("recording_started", first, 0)>> \o
    [i \in DOMAIN changes |-> Label("scene_changed", changes[i][2], changes[i][1])] \o <<Label("stop", "", 16)>>
Cut(id, a, b) == [id |-> id, start |-> a, end |-> b]
Cuts == <<Cut("a", 0, 1), Cut("b", 6, 8), Cut("c", 10, 13)>>

Crop == [kind |-> "crop outline", versatz |-> -1, judged |-> <<2, 26>>, built |-> <<0, 32>>,
         job |-> [aktiviert |-> TRUE, eintrag |-> TRUE, datei |-> TRUE, log |-> [header |-> TRUE, rows |-> <<>>],
                  journal |-> TRUE, authorized |-> TRUE, cuts |-> Cuts, active |-> {}, total |-> 16,
                  records |-> <<Label("recording_started", "Charts", 0)>>]]
Crops == {Crop,
          [Crop EXCEPT !.job.active = {"b"}, !.built = <<0, 27>>],
          [Crop EXCEPT !.job.active = {"a", "c"}, !.built = <<0, 24>>],
          [Crop EXCEPT !.job.records = Scenes("Charts", <<<<12, "Charts">>, <<9, "Kamera">>>>)],
          [Crop EXCEPT !.job.records = Scenes("", <<<<1, "Charts">>, <<7, "Kamera">>, <<9, "Charts">>, <<15, "Kamera">>>>),
                       !.job.active = {"b"}, !.built = <<3, 28>>]}
CropFaults == {[Crop EXCEPT !.job.aktiviert = FALSE], [Crop EXCEPT !.job.log.header = FALSE], [Crop EXCEPT !.versatz = 6],
               [Crop EXCEPT !.built = <<0, 34>>], [Crop EXCEPT !.job.total = 20, !.built = <<0, 40>>],
               [Crop EXCEPT !.job.authorized = FALSE]}

AskScenes ==
    /\ Outline = "none"
    /\ \E first \in {"", "Charts", "Kamera"}, active \in {{}, {"b"}, {"a", "c"}},
          changes \in [1 .. 3 -> {0, 4, 6, 7, 16} \X {"Charts", "Kamera"}] :
          Ask([Crop EXCEPT !.kind = "scenes", !.job.active = active, !.job.records = Scenes(first, changes)])

Tracked(crop, place) ==
    [crop EXCEPT !.kind = "crop", !.job.log.rows = [i \in 1 .. 6 |-> Row(i, place[i])]]

OutlineCrop == Outline = "none" /\ \E crop \in Crops : Ask(crop)
AskCrop == Outline = "crop outline" /\ \E place \in [1 .. 6 -> Places] : Ask(Tracked(question, place))
AskFaultyCrop == Outline = "none" /\ \E crop \in CropFaults, p \in Places : Ask(Tracked(crop, [i \in 1 .. 6 |-> p]))

-----------------------------------------------------------------------------
Next == \/ RulesNext
        \/ OutlineJournal \/ AskJournal
        \/ AskBundle
        \/ OutlineCrop \/ AskCrop \/ AskFaultyCrop \/ AskScenes
Spec == RulesInit /\ [][Next]_question

(* A complete journal with a sound clock becomes a sidecar that every      *)
(* reader accepts (sidecar_builder.py against sidecar.py), and a bundle is *)
(* loaded exactly when its files are of one production (loader.py).        *)
FinalizedIsFaithful == /\ Outline = "journal" => SR!FinalizedIsFaithful(question)
                       /\ Outline = "bundle" => JB!BundleIsWhole(question)

(* The crop moves in whole drives with a rest between them, keeps a pointer *)
(* that stays in the picture, sees nothing of what was cut, and FFmpeg     *)
(* shows at every frame what was planned (cursor_track.py, versatzkurve).  *)
CropIsCalm == /\ Outline = "scenes" => CT!WindowsAreExact(question)
              /\ Outline = "crop" => CT!CropIsCalm(question)
=============================================================================
