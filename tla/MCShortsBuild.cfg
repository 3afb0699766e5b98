SPECIFICATION FairSpec
CONSTANTS
    Kandidaten <- MCKandidaten
    LetzteStufe = 2
    Arbeiter <- MCArbeiter
    MaxLaeufe = 2
    MaxFehler = 1
    MaxPlaene = 1
INVARIANTS AbortIsClean ReportedShortIsChecked
PROPERTIES BuildEnds
CHECK_DEADLOCK FALSE
