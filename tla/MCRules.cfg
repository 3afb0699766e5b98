SPECIFICATION Spec
CONSTANTS
    Half = 1
    EINSCHLUSS_TOLERANZ = 1
    MAX_SHIFT = 2
    LOOP_PAD = 1
    MIN_SPAN = 3
    VORLAUF_SUCHE_MAX = 4
    VORLAUF_MAX = 2
    VORLAUF_REST = 1
    STILLE_UNTERBRECHUNG_MAX = 1
    WORTENDE_SUCHE = 3
    WORTENDE_SUCHE_MAX = 3
    WORTENDE_FALLBACK = 1
    WORTENDE_UNTERBRECHUNG_MAX = 1
    START_EINSATZ_SUCHE = 1
    EINSATZ_BESTAETIGUNG = 1
    PAUSE_ENDE = 2
    PAUSE_ANFANG = 1
    ANFANG_VOR = 1
    NACHBARRAND_SUCHE = 2
    SEARCH_WINDOW = 2
    MIN_NACHKLANG = 1
    TON_EINBLENDE = 1
    KnownDispositions = {"default", "attached_pic"}
    Rank <- MCRank
    WordLists <- MCWordLists
    Spans <- MCSpans
    Tones <- MCTones
    Answers <- MCAnswers
    TicksPerFrame = 2
    Rounding = 1
    MinimumSilence = 5
    HandleBefore = 1
    HandleAfter = 1
    MinimumCut = 2
    MinimumKeepIsland = 3
    OutroProtection = 4
    INTRO_CUT_OFFSET_FRAMES = 1
    INTRO_FLOW_PROTECTED_FRAMES = 2
    Recordings <- MCRecordings
    Logs <- MCLogs
INVARIANTS
    MeasuredWordsStayWhole
    ProposalIsSound
    FinalizedIsFaithful
    SelectionIsStable
    CropIsCalm
CHECK_DEADLOCK FALSE
