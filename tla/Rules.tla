------------------------------- MODULE Rules --------------------------------
(***************************************************************************)
(* Pure rules of the program as a specification.  A behaviour asks one     *)
(* question: it chooses the outline, then the rest of it; a property       *)
(* compares the answer with a definition of its own.  Here are the rules   *)
(* for which that is proved for every question: where a short begins and   *)
(* ends (ShortBoundaries), which streams of a recording are used           *)
(* (StreamSelection) and what is cut from it (CutProposal).  MCRules       *)
(* gives the constants values and adds the rules that are checked on       *)
(* bounded questions only.                                                 *)
(***************************************************************************)
EXTENDS Integers, Sequences, FiniteSets

CONSTANTS
    Half, EINSCHLUSS_TOLERANZ, MAX_SHIFT, LOOP_PAD, MIN_SPAN,   \* see ShortBoundaries
    VORLAUF_SUCHE_MAX, VORLAUF_MAX, VORLAUF_REST, STILLE_UNTERBRECHUNG_MAX,
    WORTENDE_SUCHE, WORTENDE_SUCHE_MAX, WORTENDE_FALLBACK, WORTENDE_UNTERBRECHUNG_MAX,
    START_EINSATZ_SUCHE, EINSATZ_BESTAETIGUNG,
    PAUSE_ENDE, PAUSE_ANFANG, ANFANG_VOR, NACHBARRAND_SUCHE, SEARCH_WINDOW,
    MIN_NACHKLANG, TON_EINBLENDE,
    KnownDispositions, Rank,     \* see StreamSelection
    TicksPerFrame, Rounding,     \* see Protection
    MinimumSilence, HandleBefore, HandleAfter, MinimumCut, MinimumKeepIsland,   \* see CutProposal
    OutroProtection, INTRO_CUT_OFFSET_FRAMES, INTRO_FLOW_PROTECTED_FRAMES,
    WordLists, Spans, Tones,     \* questions: words of a transcript, judged spans, tones of a video
    Answers,                     \* questions: what ffprobe answers about a recording
    Recordings, Logs             \* questions: what is known of a recording, the silences that FFmpeg logs

VARIABLE question

SB == INSTANCE ShortBoundaries
SS == INSTANCE StreamSelection
CP == INSTANCE CutProposal

\* What the finalizer guarantees of a sidecar, as far as a proposal depends on it: different
\* ids, frames in the order of the clock, both ends of the recording protected for longer than
\* the smallest piece that is kept (FinalizedIsFaithful).
Finalized(r) ==
    /\ r.total \in Nat \ {0}
    /\ IsFiniteSet(r.events)
    /\ \A e \in r.events :
          /\ {e.frame, e.before, e.after, e.uncertainty} \subseteq Nat
          /\ {e.end, e.ns} \subseteq Int
          /\ {e.hard, e.blocks} \subseteq BOOLEAN
    /\ \A e, f \in r.events : e.id = f.id => e = f
    /\ \A e, f \in r.events : e.type = "scene_changed" /\ f.type = "scene_changed" /\ e.ns < f.ns => e.frame <= f.frame
    /\ \A island \in {1, MinimumKeepIsland} :
          /\ \E e \in r.events : /\ e.type = "recording_started" /\ e.blocks /\ e.frame = 0 /\ e.end = -1
                               /\ 1 + e.uncertainty + Rounding + e.after >= island
          /\ \E e \in r.events : /\ e.type = "recording_stopped" /\ e.blocks /\ e.frame = r.total /\ e.end = -1
                               /\ e.uncertainty + Rounding + e.before >= island

ASSUME BoundariesAssumption ==
    /\ {Half, EINSCHLUSS_TOLERANZ, MAX_SHIFT, LOOP_PAD, MIN_SPAN, VORLAUF_SUCHE_MAX, VORLAUF_MAX,
        VORLAUF_REST, STILLE_UNTERBRECHUNG_MAX, WORTENDE_SUCHE, WORTENDE_SUCHE_MAX,
        WORTENDE_FALLBACK, WORTENDE_UNTERBRECHUNG_MAX, START_EINSATZ_SUCHE, EINSATZ_BESTAETIGUNG,
        PAUSE_ENDE, PAUSE_ANFANG, ANFANG_VOR, NACHBARRAND_SUCHE, SEARCH_WINDOW, MIN_NACHKLANG,
        TON_EINBLENDE} \subseteq Nat
    /\ WordLists \subseteq Seq([start : Nat, end : Nat])
    /\ \A words \in WordLists : SB!InOrder(words)
    /\ Tones \subseteq Seq({"still", "pause", "voice"})

\* The parser of the answer has made numbers of what is a number; None is one too.
ASSUME AnswersAssumption ==
    /\ Rank \in [DOMAIN Rank -> Nat]
    /\ \A answer \in Answers :
          /\ answer.streams \in Seq(SS!ToSet(answer.streams))
          /\ \A i \in DOMAIN answer.streams :
                LET s == answer.streams[i] IN {s.index, s.width, s.height} \subseteq Int

ASSUME ProposalsAssumption ==
    /\ {Rounding, HandleBefore, HandleAfter, MinimumKeepIsland, INTRO_CUT_OFFSET_FRAMES,
        INTRO_FLOW_PROTECTED_FRAMES} \subseteq Nat
    /\ MinimumSilence \in Int
    /\ {TicksPerFrame, MinimumCut} \subseteq Nat \ {0}
    /\ OutroProtection \in Int
    /\ \A island \in {1, MinimumKeepIsland} : INTRO_CUT_OFFSET_FRAMES + island <= OutroProtection
    /\ Logs \subseteq Seq([start : Int, end : Int])
    /\ \A r \in Recordings : Finalized(r)

Outline == question.kind
Ask(q) == question' = q

-----------------------------------------------------------------------------
OutlineShort ==
    /\ Outline = "none"
    /\ \E words \in WordLists, s \in Spans :
          Ask([kind |-> "short outline", words |-> words, first |-> s[1], last |-> s[2]])
AskShort ==
    /\ Outline = "short outline"
    /\ \E tone \in Tones : Ask([kind |-> "short", words |-> question.words, first |-> question.first,
                                last |-> question.last, tone |-> tone])

AskProbe ==
    /\ Outline = "none"
    /\ \E answer \in Answers : Ask([kind |-> "probe", answer |-> answer])

OutlineProposal ==
    /\ Outline = "none"
    /\ \E r \in Recordings : Ask([kind |-> "proposal outline", recording |-> r])
AskProposal ==
    /\ Outline = "proposal outline"
    /\ \E log \in Logs :
          LET r == question.recording
          IN  Ask([kind |-> "proposal", log |-> log, events |-> r.events, total |-> r.total, version |-> r.version,
                   obs |-> r.obs, binding |-> r.binding, collection |-> r.collection])

RulesInit == question = [kind |-> "none"]
RulesNext == OutlineShort \/ AskShort \/ AskProbe \/ OutlineProposal \/ AskProposal
RulesSpec == RulesInit /\ [][RulesNext]_question

-----------------------------------------------------------------------------
(* The first and the last word of a short are whole where the tone shows   *)
(* their edges, and a neighbour is not heard (build.py:1326).              *)
MeasuredWordsStayWhole == Outline = "short" => SB!MeasuredWordsStayWhole(question)

(* The same without the condition that the neighbour's edge was measured,  *)
(* as the comment states it: violated, see the README.                     *)
WordsStayWhole == Outline = "short" => SB!WordsStayWhole(question)

(* The choice of the streams depends on nothing but the streams and is     *)
(* unique (stream_selection.py, select_streams).                           *)
SelectionIsStable == Outline = "probe" => SS!SelectionIsStable(question.answer)

(* A proposal accounts for every silence and removes no protected frame,   *)
(* and every choice of cuts the user can approve can be rendered           *)
(* (cut_proposal.py, generate_proposal; render.py, build_keep_segments).   *)
ProposalIsSound == Outline = "proposal" => CP!ProposalIsSound(question)
=============================================================================
