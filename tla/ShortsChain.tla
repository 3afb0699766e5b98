---------------------------- MODULE ShortsChain -----------------------------
(***************************************************************************)
(* The shorts chain around one recording, between crashes: the chain       *)
(* runner with its book-keeping file (shorts/kette.py), the judgment run   *)
(* of the user (shorts/urteilslauf.py), the judgment page with two request *)
(* threads (shorts/judge_server.py), the selection (shorts/auswahl.py) and *)
(* the partial build.  They share only the files of the recording.         *)
(*                                                                         *)
(* A file is a value or Fehlt.  An output of an external stage is whole,   *)
(* or half when the stage failed or was killed while it wrote.             *)
(***************************************************************************)
EXTENDS ShortsCandidates

CONSTANTS
    Fehlt,           \* no file: different from every value a file can have
    Laeufe,          \* numbers of decomposition runs
    Zerlegungen,     \* the candidate sequences the model may write
    Vorstufen,       \* which of the four stages before the decomposition are there
    Threads,         \* request threads of the judgment page
    Starts,          \* the options the chain is started with: first stage that is
                     \* forced (none: past the last), last stage, run number
    MaxKetten,       \* bound: starts of the chain runner
    MaxSitzungen,    \* bound: starts of the judgment run
    MaxUrteile,      \* bound: judgments the user posts
    MaxAusfaelle        \* bound: failures of stages, builds, and kills

ASSUME ShortsAssumption ==
    /\ Laeufe \subseteq Nat \ {0} /\ Laeufe # {}
    /\ Vorstufen \subseteq {"auftrag", "avatar_cut", "transcript", "wortliste"}
    /\ \A o \in Starts : o.ab \in Nat /\ o.bis \in Nat /\ o.lauf \in Laeufe
    /\ {MaxKetten, MaxSitzungen, MaxUrteile, MaxAusfaelle} \subseteq Nat

VARIABLES
    datei,      \* the recording's folder: outputs, run files, candidates, lists
    zustand,    \* kette.json: Fehlt or the status per stage
    kette,      \* the chain runner: position, options, its copy of the status
    lauf,       \* the judgment run
    seite,      \* the judgment page: its cards and its session file
    faden,      \* the request threads of the page
    urteile,    \* the newest judgment file: whether there is one, its judgments by index
    shorts,     \* index -> Fehlt or what short.mp4 shows and whether it is whole
    quoten,     \* the entries of trefferquote.json
    beleg,      \* history: the last answered judgment per index, what it was given for
    zaehlung     \* history: what the bounds count

chainVars == <<datei, zustand, kette, lauf, seite, faden, urteile, shorts, quoten, beleg, zaehlung>>

Kettenstufen == SelectSeq(<<"auftrag", "avatar_cut", "transcript", "wortliste">>, LAMBDA s : s \in Vorstufen)
          \o <<"zerlegung", "zusammenfuehrung", "buendelung">>
Nummer(name) == SelectInSeq(Kettenstufen, LAMBDA s : s = name)
Stati == {"offen", "laeuft", "fertig", "gescheitert"}

\* the stages that are processes: their outputs are files other programs write
Prozessstufen == Vorstufen \cup {"zerlegung", "buendelung"}
Buchstufen == Prozessstufen \cup {"zusammenfuehrung"}

\* no file is none of the files there may be
ASSUME FehltAssumption ==
    Fehlt \notin {"ganz", "halb"} \cup [art : {"ganz", "halb"}, satz : Zerlegungen \cup {<<>>}]
                \cup [Buchstufen -> Stati]

\* leerer_zustand
LeererZustand == [s \in Buchstufen |-> "offen"]

Gebaut == {i \in DOMAIN shorts : shorts[i] # Fehlt}
Gebautes(k, ganz) == [inhalt |-> <<k.start, k.ende, k.titel>>, ganz |-> ganz]
Bezogen(k, wert) == [start |-> k.start, ende |-> k.ende, titel |-> k.titel, urteil |-> wert]
Numbers == 1..(Cardinality(Laeufe) * 2)

KetteAus == [pc |-> "aus", nummer |-> 1, ab |-> 1, bis |-> 1, lauf |-> 1,
             stand |-> LeererZustand, saetze |-> <<>>]
LaufAus == [pc |-> "aus", offen |-> {}]
SeiteAus == [pc |-> "aus", karten |-> <<>>]
FadenFrei == [pc |-> "frei", index |-> 0, urteil |-> "ja", laden |-> <<>>]

ChainInit ==
    /\ datei = [vor |-> [s \in Vorstufen |-> Fehlt], lauf |-> [n \in Laeufe |-> Fehlt],
                kandidaten |-> Fehlt, buendel |-> Fehlt, bauliste |-> Fehlt, teil |-> Fehlt]
    /\ zustand = Fehlt
    /\ kette = KetteAus
    /\ lauf = LaufAus
    /\ seite = SeiteAus
    /\ faden = [t \in Threads |-> FadenFrei]
    /\ urteile = [da |-> FALSE, von |-> <<>>]
    /\ shorts = [i \in Numbers |-> Fehlt]
    /\ quoten = {}
    /\ beleg = <<>>
    /\ zaehlung = [ketten |-> 0, sitzungen |-> 0, urteile |-> 0, fehler |-> 0]

ZaehleKette(was, grenze) == zaehlung[was] < grenze /\ zaehlung' = [zaehlung EXCEPT ![was] = @ + 1]

-----------------------------------------------------------------------------
(* The chain runner.                                                       *)

Ausgabe(s) == CASE s \in Vorstufen -> datei.vor[s]
                [] s = "zerlegung" -> datei.lauf[kette.lauf]
                [] s = "zusammenfuehrung" -> datei.kandidaten
                [] s = "buendelung" -> datei.buendel

MitAusgabe(s, wert) ==
    CASE s \in Vorstufen -> [datei EXCEPT !.vor[s] = wert]
      [] s = "zerlegung" -> [datei EXCEPT !.lauf[kette.lauf] = wert]
      [] s = "buendelung" -> [datei EXCEPT !.buendel = wert]

Stufe == Kettenstufen[kette.nummer]
Erzwungen == kette.nummer >= kette.ab

\* What a stage leaves that succeeds, and one that fails, or is killed, while it writes.  Half
\* is also a bundling that pruefe_buendelung finds fault with: it stays where it is.
GanzeAusgaben(s) ==
    IF s = "zerlegung" THEN {[art |-> "ganz", satz |-> z] : z \in Zerlegungen} ELSE {"ganz"}
HalbeAusgabe(s) == IF s = "zerlegung" THEN [art |-> "halb", satz |-> <<>>] ELSE "halb"

WirdUebersprungen_NurAusgabe(s, stand) == Ausgabe(s) # Fehlt

WirdUebersprungen(s, stand) == Ausgabe(s) # Fehlt /\ stand[s] \notin {"laeuft", "gescheitert"}

\* main: the options, and the book-keeping of an earlier start if there is one
StarteKette(o) ==
    /\ kette.pc = "aus"
    /\ ZaehleKette("ketten", MaxKetten)
    /\ kette' = [KetteAus EXCEPT !.pc = "stufe", !.ab = o.ab, !.bis = o.bis, !.lauf = o.lauf,
                    !.stand = IF zustand = Fehlt THEN LeererZustand ELSE zustand]
    /\ UNCHANGED <<datei, zustand, lauf, seite, faden, urteile, shorts, quoten, beleg>>

\* schreibe_zustand with the status of the stage: the file is replaced at once
Schreibe(status) ==
    LET neu == [kette.stand EXCEPT ![Stufe] = status]
    IN zustand' = neu

NaechsteStufe(status) ==
    [kette EXCEPT !.stand[Stufe] = status, !.nummer = @ + 1, !.saetze = <<>>,
                  !.pc = IF kette.nummer = kette.bis THEN "ende" ELSE "stufe"]

Ueberspringe ==
    /\ kette.pc = "stufe"
    /\ ~Erzwungen /\ WirdUebersprungen(Stufe, kette.stand)
    /\ Schreibe("fertig")
    /\ kette' = NaechsteStufe("fertig")
    /\ UNCHANGED <<datei, lauf, seite, faden, urteile, shorts, quoten, beleg, zaehlung>>

BeginneStufe ==
    /\ kette.pc = "stufe"
    /\ Erzwungen \/ ~WirdUebersprungen(Stufe, kette.stand)
    /\ Schreibe("laeuft")
    /\ kette' = [kette EXCEPT !.stand[Stufe] = "laeuft", !.pc = "laeuft"]
    /\ UNCHANGED <<datei, lauf, seite, faden, urteile, shorts, quoten, beleg, zaehlung>>

\* the stage raised KetteFehlschlag: the entry says so and the chain stops
Scheitert ==
    /\ Schreibe("gescheitert")
    /\ kette' = [KetteAus EXCEPT !.pc = "aus"]

Erfolg ==
    /\ Schreibe("fertig")
    /\ kette' = NaechsteStufe("fertig")

\* _fuehre_stufe_aus of a stage that is a process; that of the bundling checks its output
Prozess(s) ==
    /\ kette.pc = "laeuft" /\ Stufe = s
    /\ \/ /\ \E wert \in GanzeAusgaben(s) : datei' = MitAusgabe(s, wert)
          /\ Erfolg
          /\ UNCHANGED zaehlung
       \/ /\ ZaehleKette("fehler", MaxAusfaelle)
          /\ datei' \in {datei, MitAusgabe(s, HalbeAusgabe(s))}
          /\ Scheitert
    /\ UNCHANGED <<lauf, seite, faden, urteile, shorts, quoten, beleg>>

\* lade_laufdateien: every run file that is there, whatever run it is of
Saetze == {n \in Laeufe : datei.lauf[n] # Fehlt}
Lesbar == \A n \in Saetze : datei.lauf[n].art = "ganz"

\* fuehre_zusammen of the chain: read, unite, and ask whether a judgment exists.
\* The judgment file is looked for here; the candidates are written a step later.
PruefeUrteile(neu) ==
    \/ datei.kandidaten = Fehlt
    \/ ~urteile.da
    \/ VeraenderteIndizes(datei.kandidaten, neu) = {}

FuehreZusammenLies ==
    /\ kette.pc = "laeuft" /\ Stufe = "zusammenfuehrung"
    /\ LET neu == FuehreZusammen([n \in Saetze |-> datei.lauf[n].satz])
       IN IF Saetze # {} /\ Lesbar /\ PruefeUrteile(neu)
          THEN kette' = [kette EXCEPT !.pc = "schreibt", !.saetze = neu] /\ UNCHANGED zustand
          ELSE Scheitert
    /\ UNCHANGED <<datei, lauf, seite, faden, urteile, shorts, quoten, beleg, zaehlung>>

FuehreZusammenSchreibe ==
    /\ kette.pc = "schreibt"
    /\ datei' = [datei EXCEPT !.kandidaten = kette.saetze]
    /\ Erfolg
    /\ UNCHANGED <<lauf, seite, faden, urteile, shorts, quoten, beleg, zaehlung>>

\* "Kette fertig"
KetteFertig ==
    /\ kette.pc = "ende"
    /\ kette' = KetteAus
    /\ UNCHANGED <<datei, zustand, lauf, seite, faden, urteile, shorts, quoten, beleg, zaehlung>>

\* the runner is killed; what its stage was writing may be half, but for the candidates,
\* which are replaced at once
KetteStirbt ==
    /\ kette.pc # "aus"
    /\ ZaehleKette("fehler", MaxAusfaelle)
    /\ \/ UNCHANGED datei
       \/ \E s \in Prozessstufen :
             /\ kette.pc = "laeuft" /\ Stufe = s
             /\ datei' = MitAusgabe(s, HalbeAusgabe(s))
    /\ kette' = KetteAus
    /\ UNCHANGED <<zustand, lauf, seite, faden, urteile, shorts, quoten, beleg>>

-----------------------------------------------------------------------------
(* The judgment page: one process (its lock file), a thread per request.   *)

\* main of judge_server: the cards of the candidates as they are now, and a session
\* file that starts with the newest judgments.  It does not see the interruption of the run
StarteSeite ==
    /\ lauf.pc \in {"seite", "abbruch", "beenden"} /\ seite.pc = "aus"
    /\ datei.kandidaten # Fehlt /\ ParseCandidates(datei.kandidaten)
    /\ seite' = [pc |-> "an", karten |-> JudgeEntries(datei.kandidaten)]
    /\ UNCHANGED <<datei, zustand, kette, lauf, faden, urteile, shorts, quoten, beleg, zaehlung>>

\* POST /urteile: an index that is no card is refused
Anfrage(t, i, wert) ==
    /\ seite.pc = "an"
    /\ faden[t].pc = "frei"
    /\ i \in DOMAIN seite.karten
    /\ ZaehleKette("urteile", MaxUrteile)
    /\ faden' = [faden EXCEPT ![t] = [pc |-> "gelesen", index |-> i, urteil |-> wert, laden |-> <<>>]]
    /\ UNCHANGED <<datei, zustand, kette, lauf, seite, urteile, shorts, quoten, beleg>>

Laden_OhneSperre(t) ==
    /\ faden[t].pc = "gelesen"
    /\ faden' = [faden EXCEPT ![t].pc = "geladen", ![t].laden = urteile.von]
    /\ UNCHANGED <<datei, zustand, kette, lauf, seite, urteile, shorts, quoten, beleg, zaehlung>>

\* urteile_lock: one thread at a time between loading and writing
Laden(t) ==
    /\ faden[t].pc = "gelesen"
    /\ \A u \in Threads : faden[u].pc # "geladen"
    /\ faden' = [faden EXCEPT ![t].pc = "geladen", ![t].laden = urteile.von]
    /\ UNCHANGED <<datei, zustand, kette, lauf, seite, urteile, shorts, quoten, beleg, zaehlung>>

\* judgments with the one of an index entered, whether it has one or not
Eingetragen(judgments, i, neu) ==
    [j \in {i} \cup DOMAIN judgments |-> IF j = i THEN neu ELSE judgments[j]]

\* the judgment is filed with the texts of the card; the answer that follows the lock
\* changes nothing any more, so a judgment counts as answered from here on
Speichern(t) ==
    /\ faden[t].pc = "geladen"
    /\ LET i == faden[t].index
           neu == Bezogen(seite.karten[i], faden[t].urteil)
       IN /\ urteile' = [da |-> TRUE, von |-> Eingetragen(faden[t].laden, i, neu)]
          /\ beleg' = Eingetragen(beleg, i, neu)
    /\ faden' = [faden EXCEPT ![t] = FadenFrei]
    /\ UNCHANGED <<datei, zustand, kette, lauf, seite, shorts, quoten, zaehlung>>

\* the process ends; requests in it are never answered
SeiteEndet == seite' = SeiteAus /\ faden' = [t \in Threads |-> FadenFrei]

-----------------------------------------------------------------------------
(* The judgment run: check, page, selection, build.                        *)

\* pruefe_vor_start: judgments of other candidates, or candidates that cannot be read
\* beside judgments, end the run
StarteLauf ==
    /\ lauf.pc = "aus"
    /\ ZaehleKette("sitzungen", MaxSitzungen)
    /\ datei.kandidaten # Fehlt
    /\ lauf' = [lauf EXCEPT !.pc =
                  IF urteile.da /\ (\/ ~ParseCandidates(datei.kandidaten)
                                    \/ PruefeUebereinstimmung(datei.kandidaten, urteile.von) # {})
                  THEN "aus" ELSE "seite"]
    /\ UNCHANGED <<datei, zustand, kette, seite, faden, urteile, shorts, quoten, beleg>>

\* warte_auf_kind asks the flag every 250 ms
WarteAufKind ==
    /\ lauf.pc = "abbruch"
    /\ lauf' = [lauf EXCEPT !.pc = "beenden"]
    /\ UNCHANGED <<datei, zustand, kette, seite, faden, urteile, shorts, quoten, beleg, zaehlung>>

\* the page returns 1, 2 or 3 before it is on: another one holds the lock file, the video
\* is missing, the candidates or judgments cannot be read.  The run only takes note of it
SeiteStartetNicht ==
    /\ lauf.pc \in {"seite", "abbruch"} /\ seite.pc = "aus"
    /\ lauf' = [lauf EXCEPT !.pc = "auswahl"]
    /\ UNCHANGED <<datei, zustand, kette, seite, faden, urteile, shorts, quoten, beleg, zaehlung>>

\* Ctrl+C while the page starts or is on: the handler only sets a flag
StrgCLauf ==
    /\ lauf.pc = "seite"
    /\ lauf' = [lauf EXCEPT !.pc = "abbruch"]
    /\ UNCHANGED <<datei, zustand, kette, seite, faden, urteile, shorts, quoten, beleg, zaehlung>>

\* _beende_kind: terminate, wait 5 s, kill: the page is gone afterwards
BeendeKind ==
    /\ lauf.pc = "beenden"
    /\ SeiteEndet
    /\ lauf' = [lauf EXCEPT !.pc = "auswahl"]
    /\ UNCHANGED <<datei, zustand, kette, urteile, shorts, quoten, beleg, zaehlung>>

\* auswahl.main: it stops with a code of its own when the candidates cannot be read, when
\* there is no judgment file, when judgments do not fit, and when nothing is accepted; only
\* judgments that do not fit stop the judgment run, which goes on to the build otherwise
Auswahl ==
    /\ lauf.pc = "auswahl"
    /\ LET kandidaten == datei.kandidaten
           passt == PruefeUebereinstimmung(kandidaten, urteile.von) = {}
           angenommen == WaehleKandidaten(kandidaten, urteile.von)
           laeufe == {kandidaten[n].aus : n \in DOMAIN kandidaten}
       IN IF ~ParseCandidates(kandidaten) \/ ~urteile.da
          THEN UNCHANGED <<datei, quoten>> /\ lauf' = [lauf EXCEPT !.pc = "bau"]
          ELSE IF ~passt THEN UNCHANGED <<datei, quoten>> /\ lauf' = LaufAus
          ELSE /\ lauf' = [lauf EXCEPT !.pc = "bau"]
               /\ IF angenommen = <<>> THEN UNCHANGED <<datei, quoten>>
                  ELSE /\ datei' = [datei EXCEPT !.bauliste = BaueBauliste(angenommen)]
                       /\ quoten' = SchreibeTrefferquote(quoten,
                                       TrefferquoteEintrag(laeufe, kandidaten, urteile.von))
    /\ UNCHANGED <<zustand, kette, seite, faden, urteile, shorts, beleg, zaehlung>>

\* step 7: the open part of the build list is written and handed to build
BeginneBau ==
    /\ lauf.pc = "bau"
    /\ LET offen == IF datei.bauliste = Fehlt THEN {} ELSE OffeneIndizes(datei.bauliste, Gebaut)
       IN IF offen = {} THEN lauf' = LaufAus /\ UNCHANGED datei
          ELSE /\ lauf' = [pc |-> "baut", offen |-> offen]
               /\ datei' = [datei EXCEPT !.teil = BaueTeilbauliste(datei.bauliste, offen)]
    /\ UNCHANGED <<zustand, kette, seite, faden, urteile, shorts, quoten, beleg, zaehlung>>

\* build loads the list it was given and builds one short after the other; one that
\* fails may leave a half short.mp4 behind (ShortsBuild)
BaueShort(n) ==
    /\ lauf.pc = "baut"
    /\ ParseCandidates(datei.teil)
    /\ n \in DOMAIN datei.teil
    /\ LET k == datei.teil[n]
       IN /\ k.index \in lauf.offen
          /\ \A m \in 1..(n - 1) : datei.teil[m].index \notin lauf.offen
          /\ \/ shorts' = [shorts EXCEPT ![k.index] = Gebautes(k, TRUE)] /\ UNCHANGED zaehlung
             \/ /\ ZaehleKette("fehler", MaxAusfaelle)
                /\ shorts' \in {shorts, [shorts EXCEPT ![k.index] = Gebautes(k, FALSE)]}
          /\ lauf' = [lauf EXCEPT !.offen = @ \ {k.index}]
    /\ UNCHANGED <<datei, zustand, kette, seite, faden, urteile, quoten, beleg>>

BauEndet ==
    /\ lauf.pc = "baut"
    /\ lauf.offen = {} \/ ~ParseCandidates(datei.teil)
    /\ lauf' = LaufAus
    /\ UNCHANGED <<datei, zustand, kette, seite, faden, urteile, shorts, quoten, beleg, zaehlung>>

-----------------------------------------------------------------------------

Kette ==
    \/ \E o \in Starts : StarteKette(o)
    \/ Ueberspringe \/ BeginneStufe
    \/ \E s \in Prozessstufen : Prozess(s)
    \/ FuehreZusammenLies \/ FuehreZusammenSchreibe \/ KetteFertig \/ KetteStirbt

Seite ==
    \/ StarteSeite
    \/ \E t \in Threads : \/ \E i \in Numbers, wert \in {"ja", "nein"} : Anfrage(t, i, wert)
                          \/ Laden(t) \/ Speichern(t)

Lauf == StarteLauf \/ SeiteStartetNicht \/ StrgCLauf \/ WarteAufKind \/ BeendeKind \/ Auswahl \/ BeginneBau
        \/ (\E n \in Numbers : BaueShort(n)) \/ BauEndet

ChainNext == Kette \/ Seite \/ Lauf

ChainSpec == ChainInit /\ [][ChainNext]_chainVars

-----------------------------------------------------------------------------

\* A judgment the page has answered stays: the newest judgment file holds, for every
\* index, the last answered judgment with the texts it was given for, whatever the
\* threads, sessions, and chain runs in between did (judge_server.py:464-504, :227-263).
AnsweredJudgmentStays ==
    \A i \in DOMAIN beleg : urteile.da /\ i \in DOMAIN urteile.von /\ urteile.von[i] = beleg[i]

\* What enters the build list was accepted: for each entry the last answered judgment
\* on its index is "ja" and was given for the very passage and texts the entry has,
\* although the candidates may have been united anew while the page was on
\* (auswahl.py:430-464, kette.py:641-691).
BuildListIsJudged ==
    [][datei'.bauliste # datei.bauliste =>
         \A n \in DOMAIN datei'.bauliste : LET k == datei'.bauliste[n] IN
            k.index \in DOMAIN beleg /\ beleg[k.index] = Bezogen(k, "ja")]_chainVars

\* What the book-keeping calls done is whole, although stages fail and the runner is killed
\* while half an output lies there and a later start skips what is there already: the
\* outputs before the decomposition, the bundling, and at least one run file, the entry
\* being that of whichever run was last (kette.py:26-31, :765-780).
Ganz(s) == CASE s \in Vorstufen -> datei.vor[s] = "ganz"
             [] s = "zerlegung" -> \E n \in Saetze : datei.lauf[n].art = "ganz"
             [] s = "buendelung" -> datei.buendel = "ganz"

DoneIsWhole == zustand # Fehlt => \A s \in Prozessstufen : zustand[s] = "fertig" => Ganz(s)

\* Per run it is not so: the module header says that of an entry that failed the stage runs
\* again, even beside half an output (kette.py:29-31), but the entry asked is the one of the
\* last run (kette.py:778), so half a file of another run is skipped.
SkippedRunIsWhole ==
    [][Ueberspringe /\ Stufe = "zerlegung" => Ausgabe("zerlegung").art = "ganz"]_chainVars

\* auswahl.py:4-6 says that only candidates judged "ja" are built.
OnlyAcceptedIsBuilt ==
    [][\A i \in Numbers : shorts'[i] # shorts[i] => i \in DOMAIN beleg /\ beleg[i].urteil = "ja"]_chainVars

-----------------------------------------------------------------------------
(* Why the properties hold.                                                *)

\* The records have their fields, and the threads and the bounds their types.
ChainTypeOK ==
    /\ DOMAIN datei = {"vor", "lauf", "kandidaten", "buendel", "bauliste", "teil"}
    /\ DOMAIN urteile = {"da", "von"} /\ urteile.da \in BOOLEAN
    /\ DOMAIN lauf = {"pc", "offen"}
    /\ lauf.pc \in {"aus", "seite", "abbruch", "beenden", "auswahl", "bau", "baut"}
    /\ DOMAIN seite = {"pc", "karten"} /\ seite.pc \in {"aus", "an"}
    /\ DOMAIN faden = Threads
    /\ \A t \in Threads : /\ DOMAIN faden[t] = {"pc", "index", "urteil", "laden"}
                          /\ faden[t].pc \in {"frei", "gelesen", "geladen"}
    /\ zaehlung \in [ketten : Nat, sitzungen : Nat, urteile : Nat, fehler : Nat]

\* The file holds exactly what was answered, each judgment with nothing but the texts and
\* the word it was given, and a thread that has loaded it is the only one that has, with
\* the judgments that are still in it.
UrteileInv ==
    /\ urteile.von = beleg
    /\ \A i \in DOMAIN beleg : beleg[i] = Bezogen(beleg[i], beleg[i].urteil)
    /\ ~urteile.da => beleg = <<>>
    /\ \A t \in Threads : faden[t].pc = "geladen" =>
         /\ faden[t].laden = beleg
         /\ \A u \in Threads : faden[u].pc = "geladen" => u = t

ChainInv == ChainTypeOK /\ UrteileInv

\* What the next start will be told, or a running one has been told.
Stand == IF zustand = Fehlt THEN LeererZustand ELSE zustand

Liegt(s) == CASE s \in Vorstufen -> datei.vor[s] # Fehlt
              [] s = "zerlegung" -> Saetze # {}
              [] s = "buendelung" -> datei.buendel # Fehlt

\* An entry that lets its stage be skipped stands beside a whole output or none, and one that
\* says done beside a whole one: half outputs lie only beside entries that say so.
BuchInv ==
    /\ Stand \in [Buchstufen -> Stati]
    /\ \A s \in Prozessstufen : /\ Stand[s] = "fertig" => Ganz(s)
                                /\ Stand[s] = "offen" /\ Liegt(s) => Ganz(s)
    /\ DOMAIN datei.vor = Vorstufen /\ DOMAIN datei.lauf = Laeufe
    /\ DOMAIN kette = {"pc", "nummer", "ab", "bis", "lauf", "stand", "saetze"}
    /\ kette.pc # "aus" => kette.stand = Stand /\ kette.lauf \in Laeufe
    /\ kette.pc = "laeuft" => \A s \in Prozessstufen : Stufe = s => Stand[s] = "laeuft"
    /\ kette.pc = "schreibt" => Stufe = "zusammenfuehrung"

=============================================================================
