-------------------------- MODULE ShortsCandidates --------------------------
(***************************************************************************)
(* The candidates of the shorts chain and what is computed from them:      *)
(* the union of several decomposition runs, the comparison that protects   *)
(* judgments, the cards of the judgment page, the build list and the       *)
(* partial build list                                                      *)
(* (shorts/auswahl.py, candidates.py, judge.py, urteilslauf.py).           *)
(*                                                                         *)
(* A candidate is a record.  titel stands for the texts a judgment is      *)
(* compared by; enthaelt is the sequence of the indices it claims to       *)
(* contain; fassung is laengere_fassung_von and aus the run it came from.  *)
(* Keine stands for a field that is missing or no integer.                 *)
(***************************************************************************)
EXTENDS Integers, Sequences, FiniteSets, SequencesExt

Keine == 0

Indizes(kandidaten) == {kandidaten[n].index : n \in DOMAIN kandidaten}
Dauer(k) == k.ende - k.start
Groesseres(a, b) == IF a >= b THEN a ELSE b
Kleineres(a, b) == IF a <= b THEN a ELSE b

-----------------------------------------------------------------------------
(* parse_candidates: what a candidate file has to satisfy to be loaded.    *)

BekannteVerweise(kandidaten) ==
    \A n \in DOMAIN kandidaten : LET k == kandidaten[n] IN
        /\ k.index \notin ToSet(k.enthaelt)
        /\ ToSet(k.enthaelt) \subseteq Indizes(kandidaten)

ParseCandidates(kandidaten) ==
    /\ kandidaten \in Seq(ToSet(kandidaten)) \ {<<>>}
    /\ \A m, n \in DOMAIN kandidaten : kandidaten[m].index = kandidaten[n].index => m = n
    /\ \A n \in DOMAIN kandidaten : /\ kandidaten[n].start >= 0
                                    /\ kandidaten[n].ende > kandidaten[n].start
    /\ BekannteVerweise(kandidaten)

-----------------------------------------------------------------------------
(* The union of decomposition runs (fuehre_zusammen).                      *)

GleicherKandidat(a, b) ==
    LET ueberlappung == Kleineres(a.ende, b.ende) - Groesseres(a.start, b.start)
        kuerzere == Kleineres(Dauer(a), Dauer(b))
    IN /\ ueberlappung > 0
       /\ kuerzere > 0
       /\ ueberlappung * 2 > kuerzere

IstLaenger(neu, alt) == Dauer(neu) > Dauer(alt)

\* _bilde_verweise_ab for one candidate: a reference without a counterpart, to
\* the candidate itself, or to a number already noted is left out
BildeVerweiseAb(kandidat, zuordnung) ==
    LET Nimm(neu, v) == IF v \in DOMAIN zuordnung /\ zuordnung[v] # kandidat.index
                           /\ ~Contains(neu, zuordnung[v])
                        THEN Append(neu, zuordnung[v]) ELSE neu
    IN [kandidat EXCEPT !.enthaelt = FoldLeft(Nimm, <<>>, kandidat.enthaelt)]

\* a candidate at the end of the result, under the next free index
HaengeAn(stand, roh, nummer, fassung) ==
    LET index == stand.hoechster + 1
    IN [stand EXCEPT !.ergebnis = Append(@, [roh EXCEPT !.index = index, !.aus = nummer,
                                                        !.fassung = fassung]),
                     !.hoechster = index,
                     !.zuordnung = (roh.index :> index) @@ @]

\* one candidate of a later run: new, shorter than its counterpart, or longer
Gegenueber(ergebnis, roh) ==
    SelectInSeq(ergebnis, LAMBDA e : GleicherKandidat(e, roh))

Sichte(stand, roh, nummer) ==
    LET stelle == Gegenueber(stand.ergebnis, roh)
        vorhanden == stand.ergebnis[stelle]
    IN CASE stelle = 0 -> HaengeAn(stand, roh, nummer, Keine)
         [] stelle # 0 /\ ~IstLaenger(roh, vorhanden) ->
              [stand EXCEPT !.zuordnung = (roh.index :> vorhanden.index) @@ @]
         [] OTHER ->
              [stand EXCEPT !.nachtraege = Append(@, [roh |-> roh, von |-> vorhanden.index])]

NimmLaufAuf(bisher, satz, nummer) ==
    LET anfang == [bisher EXCEPT !.zuordnung = <<>>, !.nachtraege = <<>>]
        gesichtet == FoldLeft(LAMBDA s, roh : Sichte(s, roh, nummer), anfang, satz)
        ganz == FoldLeft(LAMBDA s, n : HaengeAn(s, n.roh, nummer, n.von), gesichtet,
                         gesichtet.nachtraege)
    IN [ganz EXCEPT !.ergebnis =
          [n \in DOMAIN @ |-> IF n <= Len(bisher.ergebnis) THEN @[n]
                              ELSE BildeVerweiseAb(@[n], ganz.zuordnung)]]

FuehreZusammen(saetze) ==
    LET geordnet == SetToSortSeq(DOMAIN saetze, <)
        erste == Head(geordnet)
        grundsatz == [n \in DOMAIN saetze[erste] |-> [saetze[erste][n] EXCEPT !.aus = erste]]
        stand == [ergebnis |-> grundsatz, zuordnung |-> <<>>, nachtraege |-> <<>>,
                  hoechster |-> FoldLeft(LAMBDA m, k : Groesseres(m, k.index), 0, grundsatz)]
    IN FoldLeft(LAMBDA s, nummer : NimmLaufAuf(s, saetze[nummer], nummer), stand,
                Tail(geordnet)).ergebnis

\* the candidates by their index: the last one of a number wins
NachIndex(kandidaten) ==
    [i \in Indizes(kandidaten) |->
        kandidaten[SelectLastInSeq(kandidaten, LAMBDA k : k.index = i)]]

\* what a judgment is about: everything but the book-keeping of the union
Inhalt(k) == [k EXCEPT !.aus = Keine, !.fassung = Keine]

VeraenderteIndizes(alt, neu) ==
    {i \in Indizes(alt) : \/ i \notin Indizes(neu)
                          \/ Inhalt(NachIndex(neu)[i]) # Inhalt(NachIndex(alt)[i])}

-----------------------------------------------------------------------------
(* Judgments: a function from indices to records with the texts of the     *)
(* candidate they were given for and the urteil ("ja", "nein" or none).    *)

PruefeUebereinstimmung_NurIndex(kandidaten, urteile) ==
    {i \in DOMAIN urteile : i \notin Indizes(kandidaten)}

PruefeUebereinstimmung(kandidaten, urteile) ==
    {i \in DOMAIN urteile :
        \/ i \notin Indizes(kandidaten)
        \/ LET k == NachIndex(kandidaten)[i]
           IN <<urteile[i].start, urteile[i].ende, urteile[i].titel>> # <<k.start, k.ende, k.titel>>}

\* what a sequence has at some of its positions, in its order
Auszug(kandidaten, stellen) ==
    [m \in 1..Cardinality(stellen) |->
        kandidaten[CHOOSE n \in stellen : Cardinality({j \in stellen : j <= n}) = m]]

MitUrteil(kandidaten, urteile, wert) ==
    Auszug(kandidaten, {n \in DOMAIN kandidaten : LET i == kandidaten[n].index
                                                  IN i \in DOMAIN urteile /\ urteile[i].urteil = wert})

WaehleKandidaten(kandidaten, urteile) == MitUrteil(kandidaten, urteile, "ja")

\* the numbers the run reports: candidates, accepted, rejected, open
ZaehleUrteile(kandidaten, urteile) ==
    LET gesamt == Len(kandidaten)
        ja == Len(MitUrteil(kandidaten, urteile, "ja"))
        nein == Len(MitUrteil(kandidaten, urteile, "nein"))
    IN [gesamt |-> gesamt, ja |-> ja, nein |-> nein, offen |-> gesamt - ja - nein]

\* the entry of trefferquote.json: one per video and set of runs, never replaced
TrefferquoteEintrag(laeufe, kandidaten, urteile) ==
    LET zahl == ZaehleUrteile(kandidaten, urteile)
    IN [laeufe |-> laeufe, gesamt |-> zahl.gesamt, ja |-> zahl.ja, nein |-> zahl.nein,
        offen |-> zahl.offen]

SchreibeTrefferquote(eintraege, eintrag) ==
    IF \E e \in eintraege : e.laeufe = eintrag.laeufe THEN eintraege
    ELSE eintraege \cup {eintrag}

\* the build list keeps every field of the accepted candidates, references included
BaueBauliste(angenommen) == angenommen

OffeneIndizes(bauliste, gebaut) == Indizes(bauliste) \ gebaut

\* the open part of the build list; references out of it are dropped
BaueTeilbauliste(bauliste, offene) ==
    LET teil == SelectSeq(bauliste, LAMBDA k : k.index \in offene)
    IN [n \in DOMAIN teil |->
          [teil[n] EXCEPT !.enthaelt = SelectSeq(@, LAMBDA v : v \in offene)]]

-----------------------------------------------------------------------------
(* The page.                                                               *)

\* The cards of the page, whatever their order: the candidates no other one contains, and
\* those they contain.  Only these can be judged.
JudgeEntries(kandidaten) ==
    LET enthalten == UNION {ToSet(kandidaten[n].enthaelt) : n \in DOMAIN kandidaten}
        wurzeln == {n \in DOMAIN kandidaten : kandidaten[n].index \notin enthalten}
        gezeigt == UNION {{kandidaten[n].index} \cup ToSet(kandidaten[n].enthaelt) : n \in wurzeln}
    IN [i \in gezeigt \cap Indizes(kandidaten) |-> NachIndex(kandidaten)[i]]

=============================================================================
