--------------------------- MODULE MCShortsBuild ----------------------------
EXTENDS ShortsBuild
MCKandidaten == {1, 2}
MCArbeiter == {1, 2}
=============================================================================
