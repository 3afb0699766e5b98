----------------------------- MODULE ShortsBuild ----------------------------
(***************************************************************************)
(* The build of the shorts of one recording (shorts/build.py) with the     *)
(* four stages of a candidate (chart_crop, canvas, avatar_canvas and       *)
(* subtitle_burn), a pool of worker threads, Ctrl+C, and the clean-up of   *)
(* intermediate files (shorts/aufraeumen.py) that a user may start at any  *)
(* time.  ffmpeg writes into the final name: a file is "halb" while it is  *)
(* written and after ffmpeg failed or was killed, "ganz" when ffmpeg       *)
(* returned 0, and "geprueft" when the stage has checked it as well.       *)
(***************************************************************************)
EXTENDS Integers, FiniteSets

CONSTANTS
    Kandidaten,      \* candidate indices of the build list
    LetzteStufe,     \* number of the stage that writes short.mp4: 4 in the code
    Arbeiter,        \* worker threads the pool may have
    MaxLaeufe,       \* bound: starts of the build
    MaxFehler,       \* bound: stages, checks, copies and deletions that fail
    MaxPlaene        \* bound: starts of the clean-up

ASSUME BuildAssumption ==
    /\ Kandidaten \subseteq Nat \ {0} /\ IsFiniteSet(Kandidaten)
    /\ LetzteStufe \in Nat \ {0}
    /\ Arbeiter \subseteq Nat /\ IsFiniteSet(Arbeiter) /\ Arbeiter # {}
    /\ {MaxLaeufe, MaxFehler, MaxPlaene} \subseteq Nat

VARIABLES
    haupt,        \* main thread: position, --parallel, queue of the pool, processes to kill;
                  \* history: the directories that were there when it started
    arbeiter,     \* per worker: position, candidate and stage
    prozess,      \* per worker: the ffmpeg it started last
    bekannt,      \* _ProzessWache._laufende: workers whose process is registered
    abgebrochen,  \* _ProzessWache.abgebrochen
    ordner,       \* per candidate: its directory and the output of each stage
    notiz,        \* _Laufnotizen: directories this run made, candidates it finished
    ergebnis,     \* outcome per candidate of this run
    kopie,        \* the working copy of the two videos: "keine", "halb", "da"
    plan,         \* files the clean-up has planned to delete
    zaehler       \* history: what the bounds count

vars == <<haupt, arbeiter, prozess, bekannt, abgebrochen, ordner, notiz, ergebnis, kopie, plan, zaehler>>

\* ausschnitt.mp4, leinwand.mp4, mit-avatar.mp4, short.mp4
Stufen == 1..LetzteStufe
Short == LetzteStufe
ZWISCHENSTUFEN_Muster == Stufen
ZWISCHENSTUFEN == Stufen \ {Short}
Leer == [da |-> FALSE, datei |-> [s \in Stufen |-> "fehlt"]]
Frei == [pc |-> "frei", kandidat |-> 0, stufe |-> 1]
KeinProzess == [stand |-> "kein", kandidat |-> 0, stufe |-> 1]
Abgelaufen == {"ende", "abbruch", "fehler"}

Init ==
    /\ haupt = [pc |-> "aus", parallel |-> 1, schlange |-> {}, toeten |-> {}, alt |-> {}]
    /\ arbeiter = [w \in Arbeiter |-> Frei]
    /\ prozess = [w \in Arbeiter |-> KeinProzess]
    /\ bekannt = {}
    /\ abgebrochen = FALSE
    /\ ordner = [i \in Kandidaten |-> Leer]
    /\ notiz = [angelegt |-> {}, fertig |-> {}]
    /\ ergebnis = [i \in Kandidaten |-> "offen"]
    /\ kopie = "keine"
    /\ plan = {}
    /\ zaehler = [laeufe |-> 0, fehler |-> 0, plaene |-> 0]

Zaehle(was, grenze) == zaehler[was] < grenze /\ zaehler' = [zaehler EXCEPT ![was] = @ + 1]
Lebt(w) == prozess[w].stand = "lebt"
Beschrieben(i, s) == \E w \in Arbeiter : Lebt(w) /\ prozess[w].kandidat = i /\ prozess[w].stufe = s
Gelesen(i, s) == \E w \in Arbeiter : Lebt(w) /\ prozess[w].kandidat = i /\ prozess[w].stufe = s + 1
InPool == {w \in Arbeiter : arbeiter[w].pc # "frei"}

\* offene_indizes of the judgment run: only a short.mp4 counts as built
IstGebaut(i) == ordner[i].datei[Short] # "fehlt"
Offene == {i \in Kandidaten : ~IstGebaut(i)}

-----------------------------------------------------------------------------
(* The main thread.                                                        *)

\* run_shorts_build up to the working copy; a message of load_job, derive_inputs,
\* load_candidates or the word list ends it before anything is written.  An ffmpeg
\* that an interrupted build without a pool left behind is waited for.
Starte(p) ==
    /\ haupt.pc = "aus" /\ p \in 1..Cardinality(Arbeiter)
    /\ Offene # {} /\ \A w \in Arbeiter : ~Lebt(w)
    /\ Zaehle("laeufe", MaxLaeufe)
    /\ haupt' = [pc |-> "vorlauf", parallel |-> p, schlange |-> Offene, toeten |-> {},
                 alt |-> {i \in Kandidaten : ordner[i].da}]
    /\ abgebrochen' = FALSE
    /\ notiz' = [angelegt |-> {}, fertig |-> {}]
    /\ ergebnis' = [i \in Kandidaten |-> "offen"]
    /\ UNCHANGED <<arbeiter, prozess, bekannt, ordner, kopie, plan>>

Vorlauf ==
    /\ haupt.pc = "vorlauf"
    /\ \/ haupt' = [haupt EXCEPT !.pc = "kopie"] /\ kopie' = "halb" /\ UNCHANGED zaehler
       \/ haupt' = [haupt EXCEPT !.pc = "bau"] /\ UNCHANGED <<kopie, zaehler>>
       \/ Zaehle("fehler", MaxFehler) /\ haupt' = [haupt EXCEPT !.pc = "fehler"] /\ UNCHANGED kopie
    /\ UNCHANGED <<arbeiter, prozess, bekannt, abgebrochen, ordner, notiz, ergebnis, plan>>

\* _bereite_arbeitskopie_vor: when copying fails, the copy is removed and the
\* original paths are used
BereiteArbeitskopieVor ==
    /\ haupt.pc = "kopie"
    /\ haupt' = [haupt EXCEPT !.pc = "bau"]
    /\ \/ kopie' = "da" /\ UNCHANGED zaehler
       \/ Zaehle("fehler", MaxFehler) /\ kopie' = "keine"
    /\ UNCHANGED <<arbeiter, prozess, bekannt, abgebrochen, ordner, notiz, ergebnis, plan>>

\* all futures have a result
ErgebnisseDa ==
    /\ haupt.pc = "bau"
    /\ haupt.schlange = {} /\ InPool = {}
    /\ haupt' = [haupt EXCEPT !.pc = "ende"]
    /\ kopie' = "keine"
    /\ UNCHANGED <<arbeiter, prozess, bekannt, abgebrochen, ordner, notiz, ergebnis, plan, zaehler>>

\* KeyboardInterrupt reaches the main thread only.  Before the build it leaves
\* run_shorts_build at once; with a pool the main thread waits for a future; without
\* one it is itself the worker, and the process it waits for is taken off the list.
StrgC ==
    /\ UNCHANGED <<ordner, notiz, ergebnis, kopie, plan, zaehler, abgebrochen, prozess>>
    /\ \/ /\ haupt.pc \in {"vorlauf", "kopie"}
          /\ haupt' = [haupt EXCEPT !.pc = "abbruch", !.schlange = {}]
          /\ UNCHANGED <<arbeiter, bekannt>>
       \/ /\ haupt.pc = "bau"
          /\ haupt' = [haupt EXCEPT !.pc = "setzen",
                                    !.schlange = IF haupt.parallel = 1 THEN {} ELSE @]
          /\ IF haupt.parallel = 1
             THEN /\ arbeiter' = [w \in Arbeiter |-> Frei]
                  /\ bekannt' = {}
             ELSE UNCHANGED <<arbeiter, bekannt>>

\* brich_ab: first the flag, then the list under its lock, then the kills
BrichAbSetzen ==
    /\ haupt.pc = "setzen"
    /\ abgebrochen' = TRUE
    /\ haupt' = [haupt EXCEPT !.pc = "listen"]
    /\ UNCHANGED <<arbeiter, prozess, bekannt, ordner, notiz, ergebnis, kopie, plan, zaehler>>

BrichAbListen ==
    /\ haupt.pc = "listen"
    /\ haupt' = [haupt EXCEPT !.pc = "toeten", !.toeten = bekannt]
    /\ UNCHANGED <<arbeiter, prozess, bekannt, abgebrochen, ordner, notiz, ergebnis, kopie, plan, zaehler>>

Toete(w) == IF Lebt(w) THEN [prozess EXCEPT ![w].stand = "tot"] ELSE prozess

BrichAbToeten(w) ==
    /\ haupt.pc = "toeten" /\ w \in haupt.toeten
    /\ prozess' = Toete(w)
    /\ haupt' = [haupt EXCEPT !.toeten = @ \ {w}]
    /\ UNCHANGED <<arbeiter, bekannt, abgebrochen, ordner, notiz, ergebnis, kopie, plan, zaehler>>

\* pool.shutdown(wait=True, cancel_futures=True)
StreicheWartende ==
    /\ haupt.pc = "toeten" /\ haupt.toeten = {}
    /\ haupt' = [haupt EXCEPT !.pc = "warten", !.schlange = {}]
    /\ UNCHANGED <<arbeiter, prozess, bekannt, abgebrochen, ordner, notiz, ergebnis, kopie, plan, zaehler>>

\* raeume_unfertige_auf, and the working copy on the way out; what an ffmpeg still has
\* open stays where it is
RaeumeUnfertigeAuf ==
    /\ haupt.pc = "warten" /\ InPool = {}
    /\ ordner' = [i \in Kandidaten |->
                    IF i \in notiz.angelegt \ notiz.fertig /\ ~\E s \in Stufen : Beschrieben(i, s)
                    THEN Leer ELSE ordner[i]]
    /\ kopie' = "keine"
    /\ haupt' = [haupt EXCEPT !.pc = "abbruch"]
    /\ UNCHANGED <<arbeiter, prozess, bekannt, abgebrochen, notiz, ergebnis, plan, zaehler>>

\* the process is gone, and a later build may be started
Beendet ==
    /\ haupt.pc \in Abgelaufen
    /\ haupt' = [haupt EXCEPT !.pc = "aus"]
    /\ UNCHANGED <<arbeiter, prozess, bekannt, abgebrochen, ordner, notiz, ergebnis, kopie, plan, zaehler>>

-----------------------------------------------------------------------------
(* A worker.                                                               *)

Untaetig == {w \in Arbeiter : arbeiter[w].pc = "frei" /\ ~Lebt(w)}

\* the pool hands the next candidate, in the order of the indices, to a thread that has
\* nothing to do; which one it is makes no difference, so it is the first
NimmKandidat(w) ==
    /\ w \in Untaetig /\ \A v \in Untaetig : w <= v
    /\ haupt.pc \in {"bau", "setzen", "listen", "toeten"}
    /\ Cardinality(InPool) < haupt.parallel
    /\ \E i \in haupt.schlange :
          /\ \A j \in haupt.schlange : i <= j
          /\ arbeiter' = [arbeiter EXCEPT ![w] = [pc |-> "pruefe", kandidat |-> i, stufe |-> 1]]
          /\ haupt' = [haupt EXCEPT !.schlange = @ \ {i}]
    /\ UNCHANGED <<prozess, bekannt, abgebrochen, ordner, notiz, ergebnis, kopie, plan, zaehler>>

Melde(w, wert) ==
    /\ ergebnis' = [ergebnis EXCEPT ![arbeiter[w].kandidat] = wert]
    /\ arbeiter' = [arbeiter EXCEPT ![w] = Frei]

\* span, windows and loop point of the candidate decide whether it is built at all
LehneAb(w) ==
    /\ arbeiter[w].pc = "pruefe"
    /\ Zaehle("fehler", MaxFehler)
    /\ Melde(w, "nicht")
    /\ UNCHANGED <<haupt, prozess, bekannt, abgebrochen, ordner, notiz, kopie, plan>>

\* the directory is noted only when it was not there
LegeOrdnerAn(w) ==
    /\ arbeiter[w].pc = "pruefe"
    /\ LET i == arbeiter[w].kandidat
       IN /\ notiz' = IF ordner[i].da THEN notiz ELSE [notiz EXCEPT !.angelegt = @ \cup {i}]
          /\ ordner' = [ordner EXCEPT ![i].da = TRUE]
    /\ arbeiter' = [arbeiter EXCEPT ![w].pc = "stufe"]
    /\ UNCHANGED <<haupt, prozess, bekannt, abgebrochen, ergebnis, kopie, plan, zaehler>>

\* between two stages, and again at the start of _lauf
BrichStufeAb(w) ==
    /\ arbeiter[w].pc = "stufe" /\ abgebrochen
    /\ Melde(w, "nicht")
    /\ UNCHANGED <<haupt, prozess, bekannt, abgebrochen, ordner, notiz, kopie, plan, zaehler>>

\* the file the stage reads is there and as its own stage left it
EingabeDa(w) ==
    arbeiter[w].stufe > 1 => ordner[arbeiter[w].kandidat].datei[arbeiter[w].stufe - 1] = "geprueft"

\* the check of the input, the plan, or Popen itself fails
StufeScheitert(w) ==
    /\ arbeiter[w].pc = "stufe"
    /\ IF EingabeDa(w) THEN Zaehle("fehler", MaxFehler) ELSE UNCHANGED zaehler
    /\ Melde(w, "nicht")
    /\ UNCHANGED <<haupt, prozess, bekannt, abgebrochen, ordner, notiz, kopie, plan>>

Befehl(w) == [stand |-> "lebt", kandidat |-> arbeiter[w].kandidat, stufe |-> arbeiter[w].stufe]

\* _lauf looks at the flag and starts ffmpeg (-y), which is not on the list yet
StarteProzess(w) ==
    /\ arbeiter[w].pc = "stufe" /\ ~abgebrochen
    /\ EingabeDa(w)
    /\ prozess' = [prozess EXCEPT ![w] = Befehl(w)]
    /\ ordner' = [ordner EXCEPT ![arbeiter[w].kandidat].datei[arbeiter[w].stufe] = "halb"]
    /\ arbeiter' = [arbeiter EXCEPT ![w].pc = "gestartet"]
    /\ UNCHANGED <<haupt, bekannt, abgebrochen, notiz, ergebnis, kopie, plan, zaehler>>

TrageEin_OhneBlick(w) ==
    /\ arbeiter[w].pc = "gestartet"
    /\ bekannt' = bekannt \cup {w}
    /\ prozess' = prozess
    /\ arbeiter' = [arbeiter EXCEPT ![w].pc = "wartet"]
    /\ UNCHANGED <<haupt, abgebrochen, ordner, notiz, ergebnis, kopie, plan, zaehler>>

\* it is put on the list, and the flag is looked at a second time: brich_ab may have
\* taken its list before
TrageEin(w) ==
    /\ arbeiter[w].pc = "gestartet"
    /\ bekannt' = bekannt \cup {w}
    /\ prozess' = IF abgebrochen THEN Toete(w) ELSE prozess
    /\ arbeiter' = [arbeiter EXCEPT ![w].pc = "wartet"]
    /\ UNCHANGED <<haupt, abgebrochen, ordner, notiz, ergebnis, kopie, plan, zaehler>>

\* ffmpeg ends: with 0 and a whole file, or with an error (time limit included)
ProzessEndet(w) ==
    /\ Lebt(w)
    /\ LET i == prozess[w].kandidat  s == prozess[w].stufe
       IN \/ /\ prozess' = [prozess EXCEPT ![w].stand = "null"]
             /\ ordner' = [ordner EXCEPT ![i].datei[s] = "ganz"]
             /\ UNCHANGED zaehler
          \/ /\ Zaehle("fehler", MaxFehler)
             /\ prozess' = [prozess EXCEPT ![w].stand = "tot"]
             /\ UNCHANGED ordner
    /\ UNCHANGED <<haupt, arbeiter, bekannt, abgebrochen, notiz, ergebnis, kopie, plan>>

Ausgewertet_NurErfolg(w) ==
    /\ arbeiter[w].pc = "wartet" /\ prozess[w].stand = "null"
    /\ bekannt' = bekannt \ {w}
    /\ prozess' = [prozess EXCEPT ![w] = KeinProzess]
    /\ IF prozess[w].stand = "null"
       THEN arbeiter' = [arbeiter EXCEPT ![w].pc = "kontrolle"] /\ UNCHANGED ergebnis
       ELSE Melde(w, "nicht")
    /\ UNCHANGED <<haupt, abgebrochen, ordner, notiz, kopie, plan, zaehler>>

\* communicate returns; the process leaves the list
Ausgewertet(w) ==
    /\ arbeiter[w].pc = "wartet" /\ ~Lebt(w)
    /\ bekannt' = bekannt \ {w}
    /\ prozess' = [prozess EXCEPT ![w] = KeinProzess]
    /\ IF prozess[w].stand = "null"
       THEN arbeiter' = [arbeiter EXCEPT ![w].pc = "kontrolle"] /\ UNCHANGED ergebnis
       ELSE Melde(w, "nicht")
    /\ UNCHANGED <<haupt, abgebrochen, ordner, notiz, kopie, plan, zaehler>>

\* verify_..._output: frames, size, audio track, start times against the input
Kontrolliere(w) ==
    /\ arbeiter[w].pc = "kontrolle"
    /\ LET i == arbeiter[w].kandidat  s == arbeiter[w].stufe
           gut == EingabeDa(w) /\ ordner[i].datei[s] = "ganz"
       IN \/ /\ gut
             /\ ordner' = [ordner EXCEPT ![i].datei[s] = "geprueft"]
             /\ IF s < Short
                THEN /\ arbeiter' = [arbeiter EXCEPT ![w].pc = "stufe", ![w].stufe = s + 1]
                     /\ UNCHANGED <<notiz, ergebnis>>
                ELSE /\ notiz' = [notiz EXCEPT !.fertig = @ \cup {i}]
                     /\ Melde(w, "gebaut")
             /\ UNCHANGED zaehler
          \/ /\ IF gut THEN Zaehle("fehler", MaxFehler)
                ELSE UNCHANGED zaehler
             /\ Melde(w, "nicht")
             /\ UNCHANGED <<ordner, notiz>>
    /\ UNCHANGED <<haupt, prozess, bekannt, abgebrochen, kopie, plan>>

-----------------------------------------------------------------------------
(* The clean-up: it plans first and deletes later.                         *)

\* darf_aufraeumen: a short.mp4 that is not empty
DarfAufraeumen(i) == ordner[i].datei[Short] # "fehlt"
Zwischenstufen(i) == {<<i, s>> : s \in {t \in ZWISCHENSTUFEN : ordner[i].datei[t] # "fehlt"}}

PlaneAufraeumung ==
    /\ plan = {}
    /\ Zaehle("plaene", MaxPlaene)
    /\ plan' = UNION {Zwischenstufen(i) : i \in {j \in Kandidaten : DarfAufraeumen(j)}}
    /\ UNCHANGED <<haupt, arbeiter, prozess, bekannt, abgebrochen, ordner, notiz, ergebnis, kopie>>

\* fuehre_aus: a file that has vanished, or that an ffmpeg has open, is passed over
Loesche(i, s) ==
    /\ <<i, s>> \in plan
    /\ plan' = plan \ {<<i, s>>}
    /\ ordner' = IF Beschrieben(i, s) \/ Gelesen(i, s) THEN ordner
                 ELSE [ordner EXCEPT ![i].datei[s] = "fehlt"]
    /\ UNCHANGED <<haupt, arbeiter, prozess, bekannt, abgebrochen, notiz, ergebnis, kopie, zaehler>>

-----------------------------------------------------------------------------

Haupt ==
    \/ \E p \in 1..Cardinality(Arbeiter) : Starte(p)
    \/ Vorlauf \/ BereiteArbeitskopieVor \/ ErgebnisseDa \/ StrgC
    \/ BrichAbSetzen \/ BrichAbListen \/ (\E w \in Arbeiter : BrichAbToeten(w))
    \/ StreicheWartende \/ RaeumeUnfertigeAuf \/ Beendet

Arbeit(w) ==
    \/ NimmKandidat(w) \/ LehneAb(w) \/ LegeOrdnerAn(w) \/ BrichStufeAb(w)
    \/ StufeScheitert(w) \/ StarteProzess(w) \/ TrageEin(w) \/ Ausgewertet(w) \/ Kontrolliere(w)

Aufraeumen == PlaneAufraeumung \/ (\E i \in Kandidaten, s \in ZWISCHENSTUFEN : Loesche(i, s))

Next == Haupt \/ (\E w \in Arbeiter : Arbeit(w) \/ ProzessEndet(w)) \/ Aufraeumen

Spec == Init /\ [][Next]_vars

\* Threads run; an ffmpeg has a time limit, after which its worker kills it.
FairSpec ==
    /\ Spec
    /\ WF_vars(Vorlauf \/ BereiteArbeitskopieVor \/ ErgebnisseDa \/ BrichAbSetzen \/ BrichAbListen
               \/ StreicheWartende \/ RaeumeUnfertigeAuf \/ (\E w \in Arbeiter : BrichAbToeten(w)))
    /\ \A w \in Arbeiter : WF_vars(Arbeit(w)) /\ WF_vars(ProzessEndet(w))

-----------------------------------------------------------------------------

\* An interrupted build with a pool waits for no ffmpeg to finish its work: once the list
\* is killed, one lives only until its worker looks at the flag again.  When it reports
\* "laufende ffmpeg-Prozesse beendet, nichts liegen gelassen" (build.py:2473) none lives,
\* and each directory it made is gone unless its short was finished, whatever each worker
\* was doing (build.py:1121-1175, :1201-1216).
AbortIsClean ==
    haupt.parallel > 1 =>
        /\ haupt.pc = "warten" => \A w \in Arbeiter : Lebt(w) => arbeiter[w].pc = "gestartet"
        /\ haupt.pc = "abbruch" => /\ \A w \in Arbeiter : ~Lebt(w)
                                   /\ \A i \in notiz.angelegt \ notiz.fertig : ~ordner[i].da

\* What the report calls built has passed the checks of all four stages, and stays so
\* while the clean-up deletes its intermediate files beside the running build
\* (build.py:1927-2130, aufraeumen.py:203-231).
ReportedShortIsChecked ==
    \A i \in Kandidaten : ergebnis[i] = "gebaut" => ordner[i].datei[Short] = "geprueft"

\* A build comes to its end, interrupted or not: the main thread waits for its workers,
\* never the other way round (build.py:2202-2216).
BuildEnds == haupt.pc # "aus" ~> haupt.pc \in Abgelaufen

\* urteilslauf.py:531-533: only short.mp4 is the proof that a candidate is built, as a
\* build that broke off leaves intermediate files but no result.
BuiltIsChecked ==
    haupt.pc = "aus" => \A i \in Kandidaten : IstGebaut(i) => ordner[i].datei[Short] = "geprueft"

-----------------------------------------------------------------------------
(* Why the properties hold.                                                *)

Vorher == {"vorlauf", "kopie"}
Unterbrochen == {"setzen", "listen", "toeten", "warten"}
HauptSchritte == {"aus", "bau"} \cup Vorher \cup Unterbrochen \cup Abgelaufen
ArbeiterSchritte == {"frei", "pruefe", "stufe", "gestartet", "wartet", "kontrolle"}

TypeOK ==
    /\ haupt \in [pc : HauptSchritte, parallel : Nat \ {0}, schlange : SUBSET Kandidaten,
                  toeten : SUBSET Arbeiter, alt : SUBSET Kandidaten]
    /\ arbeiter \in [Arbeiter -> [pc : ArbeiterSchritte, kandidat : Kandidaten \cup {0}, stufe : Stufen]]
    /\ prozess \in [Arbeiter -> [stand : {"kein", "lebt", "null", "tot"},
                                 kandidat : Kandidaten \cup {0}, stufe : Stufen]]
    /\ bekannt \subseteq Arbeiter /\ abgebrochen \in BOOLEAN
    /\ ordner \in [Kandidaten -> [da : BOOLEAN,
                                  datei : [Stufen -> {"fehlt", "halb", "ganz", "geprueft"}]]]
    /\ notiz \in [angelegt : SUBSET Kandidaten, fertig : SUBSET Kandidaten]
    /\ ergebnis \in [Kandidaten -> {"offen", "nicht", "gebaut"}]
    /\ kopie \in {"keine", "halb", "da"}
    /\ plan \subseteq Kandidaten \X Stufen
    /\ zaehler \in [laeufe : Nat, fehler : Nat, plaene : Nat]

\* A candidate is in the queue, with one worker or done, and a pool is there only while it builds.
PoolInv ==
    /\ haupt.pc \notin {"bau"} \cup Unterbrochen => InPool = {}
    /\ haupt.pc \in Unterbrochen /\ haupt.parallel = 1 => InPool = {} /\ haupt.schlange = {}
    /\ \A w \in InPool : LET i == arbeiter[w].kandidat IN
         /\ i \in Kandidaten \ haupt.schlange /\ ergebnis[i] = "offen"
         /\ \A v \in InPool : arbeiter[v].kandidat = i => v = w
         /\ arbeiter[w].pc # "pruefe" => ordner[i].da
    /\ \A i \in haupt.schlange : ergebnis[i] = "offen"

\* A process belongs to its worker until that has seen its end, or to a build without a
\* pool that was interrupted.
ProzessInv ==
    /\ \A w \in Arbeiter :
         /\ w \in bekannt <=> arbeiter[w].pc = "wartet"
         /\ arbeiter[w].pc \in {"gestartet", "wartet"} =>
              /\ prozess[w].kandidat = arbeiter[w].kandidat /\ prozess[w].stufe = arbeiter[w].stufe
              /\ prozess[w].stand # "kein"
         /\ Lebt(w) =>
              \/ arbeiter[w].pc \in {"gestartet", "wartet"}
              \/ arbeiter[w].pc = "frei" /\ haupt.parallel = 1
                 /\ haupt.pc \in Unterbrochen \cup {"abbruch", "aus"}
         /\ Lebt(w) =>
              prozess[w].kandidat \in Kandidaten /\ ergebnis[prozess[w].kandidat] = "offen"

\* The flag is up before the list is taken, and what is registered later kills itself.
AbbruchInv ==
    /\ haupt.pc \in {"listen", "toeten", "warten"} => abgebrochen
    /\ haupt.pc = "toeten" => \A w \in bekannt : Lebt(w) => w \in haupt.toeten
    /\ haupt.pc = "warten" => \A w \in bekannt : ~Lebt(w)

\* What this run noted, and what it found.
NotizInv ==
    /\ haupt.pc \in Vorher => notiz.angelegt = {}
    /\ \A i \in Kandidaten : ergebnis[i] = "gebaut" => i \in notiz.fertig
    /\ \A i \in haupt.alt : ordner[i].da /\ i \notin notiz.angelegt

IInv == TypeOK /\ PoolInv /\ ProzessInv /\ AbbruchInv /\ NotizInv /\ AbortIsClean /\ ReportedShortIsChecked

=============================================================================
