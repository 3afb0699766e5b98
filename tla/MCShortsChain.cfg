SPECIFICATION ChainSpec
CONSTANTS
    Fehlt = Fehlt
    Laeufe = {1, 2}
    Zerlegungen <- MCZerlegungen
    Vorstufen = {"transcript"}
    Starts <- MCStarts
    Threads = {t1, t2}
    MaxKetten = 3
    MaxSitzungen = 2
    MaxUrteile = 2
    MaxAusfaelle = 1
INVARIANTS AnsweredJudgmentStays 
PROPERTY BuildListIsJudged
CHECK_DEADLOCK FALSE
