--------------------------- MODULE StreamSelection ---------------------------
(***************************************************************************)
(* What ffprobe answered about a recording becomes a list of streams       *)
(* (json_parser.py), from which one video and one audio stream are chosen  *)
(* (stream_selection.py), or none.  Operators only.  An answer is          *)
(*   [duplicate, unknown, error, streams, programs]                        *)
(* with a stream                                                           *)
(*   [index, type, flags, rotations, codec, width, height, rate, channels, *)
(*    layout, duration]                                                    *)
(* where None stands for a missing number and "" for a missing text, flags *)
(* maps the dispositions that are given to a Boolean and rotations holds   *)
(* the display matrices of the side data.                                  *)
(***************************************************************************)
EXTENDS Integers, Sequences, FiniteSets, FiniteSetsExt, SequencesExt

CONSTANTS KnownDispositions, Rank      \* Rank: <<layout, channels>> -> Nat (AUDIO_LAYOUT_RANK_1_0)

None == -1
Refused(code) == [status |-> code]

-----------------------------------------------------------------------------
(* json_parser.py *)
normalize_rotation(r) == r % 360
RotationIsKnown(r) == r \in {-270, -180, -90, 0, 90, 180, 270}

Flag(flags, name) == IF name \in DOMAIN flags THEN (IF flags[name] THEN "yes" ELSE "no") ELSE "unknown"
stream_type(raw) == IF raw \in {"video", "audio", "subtitle", "data", "attachment"} THEN raw ELSE "unknown"

StreamIsValid(s) ==
    /\ s.index >= 0
    /\ s.type # ""
    /\ DOMAIN s.flags \subseteq KnownDispositions
    /\ \A r \in s.rotations : RotationIsKnown(r)
    /\ Cardinality({normalize_rotation(r) : r \in s.rotations}) <= 1

stream(s) == [index |-> s.index, type |-> stream_type(s.type), default |-> Flag(s.flags, "default"),
              attached_pic |-> Flag(s.flags, "attached_pic"), codec |-> s.codec, width |-> s.width, height |-> s.height,
              rate |-> s.rate, channels |-> s.channels, layout |-> s.layout, duration |-> s.duration,
              rotation |-> {normalize_rotation(r) : r \in s.rotations}]

\* Streams in the order of their indexes, which differ: before a stream come those
\* with smaller ones.
Sorted(S) == [m \in 1 .. Cardinality(S) |->
                 CHOOSE s \in S : Cardinality({t \in S : t.index < s.index}) = m - 1]
ByIndex(streams) == Sorted(ToSet(streams))

parse_probe_json(answer) ==
    LET streams == answer.streams
        indexes == {streams[i].index : i \in DOMAIN streams}
    IN  IF answer.duplicate = "critical" THEN Refused("schema")
        ELSE IF answer.duplicate = "other" THEN Refused("invalid_json")
        ELSE IF answer.unknown THEN Refused("schema")
        ELSE IF answer.error THEN Refused("unsupported_media")
        ELSE IF \/ \E i \in DOMAIN streams : ~StreamIsValid(streams[i])
                \/ Cardinality(indexes) # Len(streams)
                \/ ~(UNION answer.programs \subseteq indexes) THEN Refused("schema")
        ELSE [status |-> "parsed", streams |-> ByIndex([i \in DOMAIN streams |-> stream(streams[i])])]

-----------------------------------------------------------------------------
(* stream_selection.py *)
codec_available(codec) == codec \notin {"", "unknown", "none"}

video_complete(s) == s.default # "unknown" /\ codec_available(s.codec) /\ s.width > 0 /\ s.height > 0

resolution(s) == <<Max({s.width, s.height}), Min({s.width, s.height})>>
dominates(a, b) == LET l == resolution(a)
                       r == resolution(b)
                   IN  l[1] >= r[1] /\ l[2] >= r[2] /\ l # r

Chosen(s, reason) == [status |-> "selected", stream |-> s, reason |-> reason]

select_video(streams) ==
    LET videos == {s \in ToSet(streams) : s.type = "video"}
        main == {s \in videos : s.attached_pic = "no"}
        defaults == {s \in main : s.default = "yes"}
        maxima == {s \in main : ~\E t \in main \ {s} : dominates(t, s)}
    IN  IF \E s \in videos : s.attached_pic = "unknown" THEN Refused("video_metadata")
        ELSE IF main = {} THEN Refused("video_missing")
        ELSE IF \E s \in main : ~video_complete(s) THEN Refused("video_metadata")
        ELSE IF Cardinality(defaults) > 1 THEN Refused("video_ambiguous")
        ELSE IF defaults # {} THEN Chosen(CHOOSE s \in defaults : TRUE, "unique_default")
        ELSE IF Cardinality(main) = 1 THEN Chosen(CHOOSE s \in main : TRUE, "single_eligible")
        ELSE IF Cardinality(maxima) # 1 THEN Refused("video_ambiguous")
        ELSE Chosen(CHOOSE s \in maxima : TRUE, "unique_resolution_maximum")

audio_rank(s) == IF <<s.layout, s.channels>> \in DOMAIN Rank THEN Rank[<<s.layout, s.channels>>] ELSE None

audio_complete(s) == s.default # "unknown" /\ codec_available(s.codec) /\ s.rate > 0 /\ s.channels > 0
                     /\ s.layout # "" /\ s.duration > 0

select_audio(streams) ==
    LET audio == {s \in ToSet(streams) : s.type = "audio"}
        defaults == {s \in audio : s.default = "yes"}
        candidates == {s \in audio : audio_rank(s) # None}
        winners == {s \in candidates : \A t \in candidates : audio_rank(t) <= audio_rank(s)}
    IN  IF audio = {} THEN Refused("audio_missing")
        ELSE IF \E s \in audio : ~audio_complete(s) THEN Refused("audio_metadata")
        ELSE IF Cardinality(defaults) > 1 THEN Refused("audio_ambiguous")
        ELSE IF defaults # {} THEN (IF \E s \in defaults : audio_rank(s) = None THEN Refused("audio_layout")
                                    ELSE Chosen(CHOOSE s \in defaults : TRUE, "unique_default"))
        ELSE IF candidates = {} THEN Refused("audio_layout")
        ELSE IF Cardinality(candidates) = 1 THEN Chosen(CHOOSE s \in candidates : TRUE, "single_eligible")
        ELSE IF Cardinality(winners) # 1 THEN Refused("audio_ambiguous")
        ELSE Chosen(CHOOSE s \in winners : TRUE, "unique_highest_supported_layout")

\* Mutant: the first stream with the highest rank wins.
select_streams_FirstAudio(streams) ==
    LET video == select_video(streams)
        candidates == {i \in DOMAIN streams : streams[i].type = "audio" /\ audio_rank(streams[i]) # None}
        best == {i \in candidates : \A j \in candidates : audio_rank(streams[j]) <= audio_rank(streams[i])}
    IN  IF video.status # "selected" THEN video
        ELSE IF best = {} THEN Refused("audio_missing")
        ELSE [status |-> "selected", video |-> video.stream, audio |-> streams[Min(best)],
              video_reason |-> video.reason, audio_reason |-> "first", evidence |-> streams]

select_streams(streams) ==
    LET evidence == ByIndex(streams)
        video == select_video(evidence)
        audio == select_audio(evidence)
    IN  IF video.status # "selected" THEN video
        ELSE IF audio.status # "selected" THEN audio
        ELSE [status |-> "selected", video |-> video.stream, audio |-> audio.stream,
              video_reason |-> video.reason, audio_reason |-> audio.reason, evidence |-> evidence]

\* The later reader makes the choice again from the streams it measured itself.
selection_semantically_matches(selection, streams) ==
    LET expected == select_streams(streams)
    IN  expected.status = "selected" /\ expected = selection

-----------------------------------------------------------------------------
(***************************************************************************)
(* Properties                                                              *)
(***************************************************************************)
Without(streams, index) == Sorted({s \in ToSet(streams) : s.index # index})

(* The choice is no accident of the order in which ffprobe names the       *)
(* streams nor of streams that are not chosen: every order gives the same  *)
(* choice, a second reader comes to the same one, and taking away a stream *)
(* that was not chosen leaves the two that were.  Nothing is guessed: a    *)
(* picture of the cover is never the video, and a stream that is not       *)
(* marked as default is at least as large, or of a higher rank, than all   *)
(* others of its kind.                                                     *)
SelectionIsStable(answer) ==
    LET parsed == parse_probe_json(answer)
        streams == parsed.streams
        choice == select_streams(streams)
        Same(other) == other.status = "selected" /\ other.video = choice.video /\ other.audio = choice.audio
        Main(s) == s.type = "video" /\ s.attached_pic = "no"
    IN  parsed.status = "parsed" =>
        /\ select_streams(Reverse(streams)) = choice
        /\ choice.status = "selected" =>
            /\ selection_semantically_matches(choice, Reverse(streams))
            /\ \A s \in ToSet(streams) : s # choice.video /\ s # choice.audio => Same(select_streams(Without(streams, s.index)))
            /\ Main(choice.video)
            /\ choice.video.default = "no" =>
                 \A s \in ToSet(streams) : Main(s) => s = choice.video \/ dominates(choice.video, s)
            /\ choice.audio.default = "no" =>
                 \A s \in ToSet(streams) : s.type = "audio" => s = choice.audio \/ audio_rank(s) < audio_rank(choice.audio)
=============================================================================
