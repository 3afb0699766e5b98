--------------------------- MODULE MCShortsChain ----------------------------
(* Two passages: one is a longer version of the other.                     *)
EXTENDS ShortsChain

K(i, s, e, t) == [index |-> i, start |-> s, ende |-> e, titel |-> t, enthaelt |-> <<>>,
                  fassung |-> Keine, aus |-> Keine]
\* the whole chain for run 1, the decomposition alone for run 2, and the whole chain
\* again with everything from the decomposition on forced
MCStarts == {[ab |-> 5, bis |-> 4, lauf |-> 1], [ab |-> 5, bis |-> 2, lauf |-> 2],
             [ab |-> 2, bis |-> 4, lauf |-> 1]}
MCZerlegungen == {<<K(1, 0, 4, "kurz")>>, <<K(1, 0, 6, "lang")>>}
=============================================================================
