-------------------------- MODULE Shorts_proofs --------------------------
(***************************************************************************)
(* An interrupted build leaves nothing running and nothing half done, and  *)
(* what it reports as built has been checked, for any candidates, workers, *)
(* stages, faults and clean-ups (ShortsBuild); and what the user has       *)
(* judged stays and is all that gets into a build list, for any candidates,*)
(* runs and request threads (ShortsChain); and the first and the last word *)
(* of a short stay whole, for any words, tones and lengths (Rules).        *)
(***************************************************************************)
EXTENDS ShortsBuild, ShortsChain, Rules, FiniteSetTheorems, WellFoundedInduction, TLAPS

-----------------------------------------------------------------------------
(* Types of what a step writes *)

HauptTyp == [pc : HauptSchritte, parallel : Nat \ {0}, schlange : SUBSET Kandidaten,
             toeten : SUBSET Arbeiter, alt : SUBSET Kandidaten]
ArbeiterTyp == [pc : ArbeiterSchritte, kandidat : Kandidaten \cup {0}, stufe : Stufen]
ProzessTyp == [stand : {"kein", "lebt", "null", "tot"}, kandidat : Kandidaten \cup {0}, stufe : Stufen]
DateiStand == {"fehlt", "halb", "ganz", "geprueft"}
OrdnerTyp == [da : BOOLEAN, datei : [Stufen -> DateiStand]]
Typen ==
    /\ haupt \in HauptTyp
    /\ arbeiter \in [Arbeiter -> ArbeiterTyp]
    /\ prozess \in [Arbeiter -> ProzessTyp]
    /\ bekannt \subseteq Arbeiter /\ abgebrochen \in BOOLEAN
    /\ ordner \in [Kandidaten -> OrdnerTyp]
    /\ notiz \in [angelegt : SUBSET Kandidaten, fertig : SUBSET Kandidaten]
    /\ ergebnis \in [Kandidaten -> {"offen", "nicht", "gebaut"}]
    /\ kopie \in {"keine", "halb", "da"}
    /\ plan \subseteq Kandidaten \X Stufen
    /\ zaehler \in [laeufe : Nat, fehler : Nat, plaene : Nat]

LEMMA Typed == TypeOK <=> Typen
BY DEF TypeOK, Typen, HauptTyp, ArbeiterTyp, ProzessTyp, OrdnerTyp, DateiStand

LEMMA TypedNext == TypeOK' <=> Typen'
BY DEF TypeOK, Typen, HauptTyp, ArbeiterTyp, ProzessTyp, OrdnerTyp, DateiStand

LEMMA StufenIs == 1 \in Stufen /\ Short \in Stufen /\ Stufen \subseteq Nat
BY BuildAssumption DEF Stufen, Short

LEMMA EmptyIs == Frei \in ArbeiterTyp /\ KeinProzess \in ProzessTyp /\ Leer \in OrdnerTyp
BY StufenIs DEF Frei, ArbeiterTyp, ArbeiterSchritte, KeinProzess, ProzessTyp, Leer, OrdnerTyp, DateiStand

LEMMA ZaehleIs ==
    ASSUME Typen, NEW was \in {"laeufe", "fehler", "plaene"}, NEW grenze, Zaehle(was, grenze)
    PROVE  zaehler' \in [laeufe : Nat, fehler : Nat, plaene : Nat]
BY DEF Typen, Zaehle

\* One file of a candidate is written, or deleted.
Schreibt(i, s, stand) ==
    /\ ordner' \in [Kandidaten -> OrdnerTyp]
    /\ ordner'[i].datei[s] = stand
    /\ \A j \in Kandidaten : ordner'[j].da = ordner[j].da
    /\ \A j \in Kandidaten, t \in Stufen : <<j, t>> # <<i, s>> => ordner'[j].datei[t] = ordner[j].datei[t]

LEMMA Writes ==
    ASSUME Typen, NEW i \in Kandidaten, NEW s \in Stufen, NEW stand \in DateiStand,
           ordner' = [ordner EXCEPT ![i].datei[s] = stand]
    PROVE  Schreibt(i, s, stand)
<1>1. ordner[i] \in OrdnerTyp /\ ordner \in [Kandidaten -> OrdnerTyp]
  BY DEF Typen
<1> DEFINE neu == [ordner[i] EXCEPT !.datei = [ordner[i].datei EXCEPT ![s] = stand]]
<1>2. /\ neu \in OrdnerTyp /\ neu.da = ordner[i].da /\ neu.datei[s] = stand
      /\ \A t \in Stufen : t # s => neu.datei[t] = ordner[i].datei[t]
  BY <1>1 DEF OrdnerTyp
<1>3. ordner' = [ordner EXCEPT ![i] = neu]
  BY <1>1 DEF OrdnerTyp
<1> HIDE DEF neu
<1> QED
  BY <1>1, <1>2, <1>3 DEF Schreibt

\* One worker takes a step, and the others stay where they are.
Geht(w, pc, kandidat, stufe) ==
    /\ arbeiter' \in [Arbeiter -> ArbeiterTyp]
    /\ arbeiter'[w].pc = pc /\ arbeiter'[w].kandidat = kandidat /\ arbeiter'[w].stufe = stufe
    /\ \A v \in Arbeiter : v # w => arbeiter'[v] = arbeiter[v]

LEMMA Goes ==
    ASSUME Typen, NEW w \in Arbeiter, NEW pc \in ArbeiterSchritte
    PROVE  /\ arbeiter' = [arbeiter EXCEPT ![w].pc = pc] =>
                Geht(w, pc, arbeiter[w].kandidat, arbeiter[w].stufe)
           /\ \A s \in Stufen : arbeiter' = [arbeiter EXCEPT ![w].pc = pc, ![w].stufe = s] =>
                Geht(w, pc, arbeiter[w].kandidat, s)
           /\ arbeiter' = [arbeiter EXCEPT ![w] = Frei] => Geht(w, "frei", 0, 1)
           /\ \A i \in Kandidaten :
                arbeiter' = [arbeiter EXCEPT ![w] = [pc |-> pc, kandidat |-> i, stufe |-> 1]] =>
                  Geht(w, pc, i, 1)
<1>1. arbeiter \in [Arbeiter -> ArbeiterTyp]
  BY DEF Typen
<1>2. Frei \in ArbeiterTyp /\ Frei.pc = "frei" /\ Frei.kandidat = 0 /\ Frei.stufe = 1
  BY EmptyIs DEF Frei
<1>3. ASSUME arbeiter' = [arbeiter EXCEPT ![w].pc = pc]
      PROVE  Geht(w, pc, arbeiter[w].kandidat, arbeiter[w].stufe)
  BY <1>1, <1>3 DEF Geht, ArbeiterTyp
<1>4. ASSUME NEW s \in Stufen, arbeiter' = [arbeiter EXCEPT ![w].pc = pc, ![w].stufe = s]
      PROVE  Geht(w, pc, arbeiter[w].kandidat, s)
  BY <1>1, <1>4 DEF Geht, ArbeiterTyp
<1>5. ASSUME arbeiter' = [arbeiter EXCEPT ![w] = Frei]
      PROVE  Geht(w, "frei", 0, 1)
  BY <1>1, <1>2, <1>5 DEF Geht
<1>6. ASSUME NEW i \in Kandidaten,
             arbeiter' = [arbeiter EXCEPT ![w] = [pc |-> pc, kandidat |-> i, stufe |-> 1]]
      PROVE  Geht(w, pc, i, 1)
  BY <1>1, <1>6, StufenIs DEF Geht, ArbeiterTyp
<1> QED
  BY <1>3, <1>4, <1>5, <1>6

\* A worker reports what became of its candidate.
Meldet(w, wert) ==
    /\ Geht(w, "frei", 0, 1)
    /\ ergebnis' \in [Kandidaten -> {"offen", "nicht", "gebaut"}]
    /\ ergebnis'[arbeiter[w].kandidat] = wert
    /\ \A i \in Kandidaten : i # arbeiter[w].kandidat => ergebnis'[i] = ergebnis[i]

LEMMA Reports ==
    ASSUME Typen, NEW w \in Arbeiter, arbeiter[w].kandidat \in Kandidaten,
           NEW wert \in {"nicht", "gebaut"}, Melde(w, wert)
    PROVE  Meldet(w, wert)
<1>1. Geht(w, "frei", 0, 1)
  BY Goes DEF Melde, ArbeiterSchritte
<1> QED
  BY <1>1 DEF Melde, Meldet, Typen

\* One process changes.
Wird(w, stand) ==
    /\ prozess' \in [Arbeiter -> ProzessTyp] /\ prozess'[w].stand = stand
    /\ \A v \in Arbeiter : v # w => prozess'[v] = prozess[v]

LEMMA Becomes ==
    ASSUME Typen, NEW w \in Arbeiter, NEW stand \in {"null", "tot"}
    PROVE  /\ prozess' = [prozess EXCEPT ![w].stand = stand] =>
                /\ Wird(w, stand)
                /\ prozess'[w].kandidat = prozess[w].kandidat /\ prozess'[w].stufe = prozess[w].stufe
           /\ prozess' = [prozess EXCEPT ![w] = KeinProzess] => Wird(w, "kein")
BY EmptyIs DEF Typen, Wird, KeinProzess, ProzessTyp

\* What is left of a process after a kill.
LEMMA Kills ==
    ASSUME Typen, NEW w \in Arbeiter, prozess' = Toete(w)
    PROVE  /\ prozess' \in [Arbeiter -> ProzessTyp] /\ prozess'[w].stand # "lebt"
           /\ prozess'[w].kandidat = prozess[w].kandidat /\ prozess'[w].stufe = prozess[w].stufe
           /\ prozess'[w].stand = "kein" => prozess[w].stand = "kein"
           /\ \A v \in Arbeiter : v # w => prozess'[v] = prozess[v]
<1>1. CASE Lebt(w)
  <2>1. prozess' = [prozess EXCEPT ![w].stand = "tot"]
    BY <1>1 DEF Toete
  <2> QED
    BY <2>1, Becomes DEF Wird
<1>2. CASE ~Lebt(w)
  BY <1>2 DEF Toete, Lebt, Typen
<1> QED
  BY <1>1, <1>2

\* Who is in the pool has an open candidate.
LEMMA Working ==
    ASSUME IInv, NEW w \in Arbeiter, arbeiter[w].pc # "frei"
    PROVE  /\ Typen /\ w \in InPool
           /\ arbeiter[w].kandidat \in Kandidaten /\ arbeiter[w].kandidat \notin haupt.schlange
           /\ ergebnis[arbeiter[w].kandidat] = "offen" /\ arbeiter[w].stufe \in Stufen
           /\ \A v \in InPool : arbeiter[v].kandidat = arbeiter[w].kandidat => v = w
           /\ haupt.pc \in {"bau"} \cup Unterbrochen
           /\ haupt.pc \in Unterbrochen => haupt.parallel # 1
<1>1. Typen /\ w \in InPool
  BY Typed DEF IInv, InPool
<1>2. arbeiter[w] \in ArbeiterTyp
  BY <1>1 DEF Typen
<1> QED
  BY <1>1, <1>2 DEF IInv, PoolInv, ArbeiterTyp, InPool

\* No two workers have a process for the same candidate.
LEMMA OwnProcess ==
    ASSUME IInv, NEW w \in Arbeiter, arbeiter[w].pc # "frei"
    PROVE  \A v \in Arbeiter \ {w} : Lebt(v) => prozess[v].kandidat # arbeiter[w].kandidat
BY Working DEF IInv, ProzessInv, InPool, PoolInv

\* A worker goes on with its candidate: the pool stays as it is.
LEMMA PoolGoesOn ==
    ASSUME IInv, NEW w \in Arbeiter, arbeiter[w].pc # "frei",
           NEW pc \in ArbeiterSchritte \ {"frei"}, NEW s \in Stufen,
           Geht(w, pc, arbeiter[w].kandidat, s), UNCHANGED <<haupt, ergebnis>>,
           \A i \in Kandidaten : ordner[i].da => ordner'[i].da,
           pc # "pruefe" => ordner'[arbeiter[w].kandidat].da
    PROVE  PoolInv' /\ InPool' = InPool
<1>1. InPool' = InPool
  BY DEF InPool, Geht
<1>2. /\ \A v \in InPool : v \in Arbeiter /\ arbeiter'[v].kandidat = arbeiter[v].kandidat
      /\ \A v \in InPool : v # w => arbeiter'[v].pc = arbeiter[v].pc
      /\ arbeiter'[w].pc = pc /\ w \in InPool
  BY DEF InPool, Geht
<1> QED
  BY <1>1, <1>2 DEF IInv, PoolInv

\* A worker reports: its candidate leaves the pool.
LEMMA PoolLeaves ==
    ASSUME IInv, NEW w \in Arbeiter, arbeiter[w].pc # "frei", NEW wert, Meldet(w, wert), UNCHANGED haupt,
           \A i \in Kandidaten : ordner[i].da => ordner'[i].da
    PROVE  PoolInv' /\ InPool' = InPool \ {w}
<1>1. InPool' = InPool \ {w}
  BY DEF InPool, Geht, Meldet
<1>2. \A v \in InPool \ {w} : v \in Arbeiter /\ arbeiter'[v] = arbeiter[v]
  BY DEF InPool, Geht, Meldet
<1>3. \A i \in Kandidaten : i # arbeiter[w].kandidat => ergebnis'[i] = ergebnis[i]
  BY DEF Meldet
<1>4. \A v \in InPool \ {w} : arbeiter[v].kandidat # arbeiter[w].kandidat
  BY Working
<1>5. arbeiter[w].kandidat \notin haupt.schlange /\ haupt.schlange \subseteq Kandidaten
  BY Working DEF Typen, HauptTyp
<1> QED
  BY <1>1, <1>2, <1>3, <1>4, <1>5 DEF IInv, PoolInv

-----------------------------------------------------------------------------
(* A worker *)

LEMMA LehneAbKeeps ==
    ASSUME IInv, NEW w \in Arbeiter, LehneAb(w)
    PROVE  IInv'
<1>1. /\ Meldet(w, "nicht") /\ Typen /\ arbeiter[w].kandidat \in Kandidaten
      /\ ergebnis[arbeiter[w].kandidat] = "offen"
  BY Working, Reports DEF LehneAb
<1>2. TypeOK'
  BY <1>1, TypedNext, ZaehleIs DEF LehneAb, Typen, Meldet, Geht
<1>3. PoolInv'
  BY <1>1, PoolLeaves DEF LehneAb
<1>4. ProzessInv'
  BY <1>1, OwnProcess DEF LehneAb, Meldet, Geht, Lebt, IInv, ProzessInv
<1>5. AbbruchInv' /\ NotizInv'
  BY <1>1 DEF LehneAb, Meldet, Lebt, IInv, AbbruchInv, NotizInv
<1>6. AbortIsClean'
  BY <1>1 DEF LehneAb, Meldet, Geht, Lebt, IInv, AbortIsClean
<1>7. ReportedShortIsChecked'
  BY <1>1 DEF LehneAb, Meldet, IInv, ReportedShortIsChecked
<1> QED
  BY <1>2, <1>3, <1>4, <1>5, <1>6, <1>7 DEF IInv

LEMMA LegeOrdnerAnKeeps ==
    ASSUME IInv, NEW w \in Arbeiter, LegeOrdnerAn(w)
    PROVE  IInv'
<1> DEFINE i == arbeiter[w].kandidat
<1>1. /\ Typen /\ i \in Kandidaten /\ arbeiter[w].pc = "pruefe" /\ arbeiter[w].stufe \in Stufen
      /\ haupt.pc \in {"bau"} \cup Unterbrochen
  BY Working DEF LegeOrdnerAn
<1>2. Geht(w, "stufe", i, arbeiter[w].stufe)
  BY <1>1, Goes DEF LegeOrdnerAn, ArbeiterSchritte
<1>3. /\ ordner' \in [Kandidaten -> OrdnerTyp] /\ ordner'[i].da
      /\ \A j \in Kandidaten : ordner'[j].datei = ordner[j].datei
      /\ \A j \in Kandidaten : j # i => ordner'[j] = ordner[j]
  BY <1>1 DEF LegeOrdnerAn, Typen, OrdnerTyp
<1>4. /\ notiz' \in [angelegt : SUBSET Kandidaten, fertig : SUBSET Kandidaten]
      /\ notiz'.fertig = notiz.fertig /\ notiz'.angelegt \subseteq notiz.angelegt \cup {i}
      /\ ordner[i].da => notiz' = notiz
  <2>1. CASE ordner[i].da
    BY <1>1, <2>1 DEF LegeOrdnerAn, Typen
  <2>2. CASE ~ordner[i].da
    BY <1>1, <2>2 DEF LegeOrdnerAn, Typen
  <2> QED
    BY <2>1, <2>2
<1>5. TypeOK'
  BY <1>1, <1>2, <1>3, <1>4, TypedNext DEF LegeOrdnerAn, Typen, Geht
<1>6. PoolInv'
  <2>1. "stufe" \in ArbeiterSchritte \ {"frei"} /\ UNCHANGED <<haupt, ergebnis>>
    BY DEF ArbeiterSchritte, LegeOrdnerAn
  <2>2. \A j \in Kandidaten : ordner[j].da => ordner'[j].da
    BY <1>3
  <2> QED
    BY <1>1, <1>2, <1>3, <2>1, <2>2, PoolGoesOn
<1>7. ProzessInv'
  BY <1>1, <1>2 DEF LegeOrdnerAn, Geht, Lebt, IInv, ProzessInv
<1>8. AbbruchInv'
  BY DEF LegeOrdnerAn, Lebt, IInv, AbbruchInv
<1>9. NotizInv'
  BY <1>1, <1>3, <1>4 DEF LegeOrdnerAn, IInv, NotizInv, Vorher, Unterbrochen, Typen, HauptTyp
<1>10. AbortIsClean'
  BY <1>1, <1>2 DEF LegeOrdnerAn, Geht, Lebt, IInv, AbortIsClean, Unterbrochen
<1>11. ReportedShortIsChecked'
  BY <1>1, <1>3 DEF LegeOrdnerAn, IInv, ReportedShortIsChecked
<1> QED
  BY <1>5, <1>6, <1>7, <1>8, <1>9, <1>10, <1>11 DEF IInv

LEMMA BrichStufeAbKeeps ==
    ASSUME IInv, NEW w \in Arbeiter, BrichStufeAb(w)
    PROVE  IInv'
<1>1. /\ Meldet(w, "nicht") /\ Typen /\ arbeiter[w].kandidat \in Kandidaten
      /\ ergebnis[arbeiter[w].kandidat] = "offen"
  BY Working, Reports DEF BrichStufeAb
<1>2. TypeOK'
  BY <1>1, TypedNext DEF BrichStufeAb, Typen, Meldet, Geht
<1>3. PoolInv'
  BY <1>1, PoolLeaves DEF BrichStufeAb
<1>4. ProzessInv'
  BY <1>1, OwnProcess DEF BrichStufeAb, Meldet, Geht, Lebt, IInv, ProzessInv
<1>5. AbbruchInv' /\ NotizInv'
  BY <1>1 DEF BrichStufeAb, Meldet, Lebt, IInv, AbbruchInv, NotizInv
<1>6. AbortIsClean'
  BY <1>1 DEF BrichStufeAb, Meldet, Geht, Lebt, IInv, AbortIsClean
<1>7. ReportedShortIsChecked'
  BY <1>1 DEF BrichStufeAb, Meldet, IInv, ReportedShortIsChecked
<1> QED
  BY <1>2, <1>3, <1>4, <1>5, <1>6, <1>7 DEF IInv

LEMMA StufeScheitertKeeps ==
    ASSUME IInv, NEW w \in Arbeiter, StufeScheitert(w)
    PROVE  IInv'
<1>1. /\ Meldet(w, "nicht") /\ Typen /\ arbeiter[w].kandidat \in Kandidaten
      /\ ergebnis[arbeiter[w].kandidat] = "offen"
  BY Working, Reports DEF StufeScheitert
<1>2. TypeOK'
  <2>1. zaehler' \in [laeufe : Nat, fehler : Nat, plaene : Nat]
    BY <1>1, ZaehleIs DEF StufeScheitert, Typen
  <2> QED
    BY <1>1, <2>1, TypedNext DEF StufeScheitert, Typen, Meldet, Geht
<1>3. PoolInv'
  BY <1>1, PoolLeaves DEF StufeScheitert
<1>4. ProzessInv'
  BY <1>1, OwnProcess DEF StufeScheitert, Meldet, Geht, Lebt, IInv, ProzessInv
<1>5. AbbruchInv' /\ NotizInv'
  BY <1>1 DEF StufeScheitert, Meldet, Lebt, IInv, AbbruchInv, NotizInv
<1>6. AbortIsClean'
  BY <1>1 DEF StufeScheitert, Meldet, Geht, Lebt, IInv, AbortIsClean
<1>7. ReportedShortIsChecked'
  BY <1>1 DEF StufeScheitert, Meldet, IInv, ReportedShortIsChecked
<1> QED
  BY <1>2, <1>3, <1>4, <1>5, <1>6, <1>7 DEF IInv

LEMMA StarteProzessKeeps ==
    ASSUME IInv, NEW w \in Arbeiter, StarteProzess(w)
    PROVE  IInv'
<1> DEFINE i == arbeiter[w].kandidat
           s == arbeiter[w].stufe
<1>1. /\ Typen /\ i \in Kandidaten /\ s \in Stufen /\ arbeiter[w].pc = "stufe"
      /\ haupt.pc \in {"bau"} \cup Unterbrochen /\ ergebnis[i] = "offen" /\ w \in InPool
  BY Working DEF StarteProzess
<1>2. Geht(w, "gestartet", i, s)
  BY <1>1, Goes DEF StarteProzess, ArbeiterSchritte
<1>3. Schreibt(i, s, "halb")
  BY <1>1, Writes DEF StarteProzess, DateiStand
<1>4. /\ prozess' \in [Arbeiter -> ProzessTyp]
      /\ prozess'[w].stand = "lebt" /\ prozess'[w].kandidat = i /\ prozess'[w].stufe = s
      /\ \A v \in Arbeiter : v # w => prozess'[v] = prozess[v]
  BY <1>1 DEF StarteProzess, Befehl, Typen, ProzessTyp
<1>5. TypeOK'
  BY <1>1, <1>2, <1>3, <1>4, TypedNext DEF StarteProzess, Typen, Geht, Schreibt
<1>6. PoolInv'
  <2>1. "gestartet" \in ArbeiterSchritte \ {"frei"} /\ UNCHANGED <<haupt, ergebnis>>
    BY DEF ArbeiterSchritte, StarteProzess
  <2>2. (\A j \in Kandidaten : ordner[j].da => ordner'[j].da) /\ ordner'[i].da
    BY <1>1, <1>3 DEF Schreibt, IInv, PoolInv
  <2> QED
    BY <1>1, <1>2, <2>1, <2>2, PoolGoesOn
<1>7. ProzessInv'
  BY <1>1, <1>2, <1>4 DEF StarteProzess, Geht, Lebt, IInv, ProzessInv
<1>8. AbbruchInv'
  BY <1>1, <1>4 DEF StarteProzess, Lebt, IInv, AbbruchInv, ProzessInv
<1>9. NotizInv'
  BY <1>1, <1>3 DEF StarteProzess, IInv, NotizInv, Schreibt, Typen, HauptTyp
<1>10. AbortIsClean'
  BY <1>1, <1>2, <1>4 DEF StarteProzess, Geht, Lebt, IInv, AbortIsClean, Unterbrochen
<1>11. ReportedShortIsChecked'
  BY <1>1, <1>3, StufenIs DEF StarteProzess, IInv, ReportedShortIsChecked, Schreibt
<1> QED
  BY <1>5, <1>6, <1>7, <1>8, <1>9, <1>10, <1>11 DEF IInv

LEMMA TrageEinKeeps ==
    ASSUME IInv, NEW w \in Arbeiter, TrageEin(w)
    PROVE  IInv'
<1>1. /\ Typen /\ arbeiter[w].stufe \in Stufen /\ arbeiter[w].pc = "gestartet"
      /\ arbeiter[w].kandidat \in Kandidaten /\ w \in InPool
      /\ haupt.pc \in {"bau"} \cup Unterbrochen
  BY Working DEF TrageEin
<1>2. Geht(w, "wartet", arbeiter[w].kandidat, arbeiter[w].stufe)
  BY <1>1, Goes DEF TrageEin, ArbeiterSchritte
<1>3. /\ prozess' \in [Arbeiter -> ProzessTyp]
      /\ prozess'[w].stand # "kein"
      /\ prozess'[w].kandidat = prozess[w].kandidat /\ prozess'[w].stufe = prozess[w].stufe
      /\ prozess'[w].stand = "lebt" => prozess[w].stand = "lebt" /\ ~abgebrochen
      /\ \A v \in Arbeiter : v # w => prozess'[v] = prozess[v]
  <2>1. prozess[w].stand # "kein"
    BY <1>1 DEF IInv, ProzessInv
  <2>2. CASE abgebrochen
    BY <1>1, <2>1, <2>2, Kills DEF TrageEin
  <2>3. CASE ~abgebrochen
    BY <1>1, <2>1, <2>3 DEF TrageEin, Typen
  <2> QED
    BY <2>2, <2>3
<1>5. TypeOK'
  BY <1>1, <1>2, <1>3, TypedNext DEF TrageEin, Typen, Geht
<1>6. PoolInv'
  <2>1. "wartet" \in ArbeiterSchritte \ {"frei"} /\ UNCHANGED <<haupt, ergebnis, ordner>>
    BY DEF ArbeiterSchritte, TrageEin
  <2>2. ordner'[arbeiter[w].kandidat].da
    BY <1>1, <2>1 DEF IInv, PoolInv
  <2> QED
    BY <1>1, <1>2, <2>1, <2>2, PoolGoesOn
<1>7. ProzessInv'
  BY <1>1, <1>2, <1>3 DEF TrageEin, Geht, Lebt, IInv, ProzessInv
<1>8. AbbruchInv'
  BY <1>1, <1>3 DEF TrageEin, Lebt, IInv, AbbruchInv, Typen
<1>9. NotizInv'
  BY DEF TrageEin, IInv, NotizInv
<1>10. AbortIsClean'
  BY <1>1, <1>2, <1>3 DEF TrageEin, Geht, Lebt, IInv, AbortIsClean, AbbruchInv, Unterbrochen
<1>11. ReportedShortIsChecked'
  BY DEF TrageEin, IInv, ReportedShortIsChecked
<1> QED
  BY <1>5, <1>6, <1>7, <1>8, <1>9, <1>10, <1>11 DEF IInv

LEMMA AusgewertetKeeps ==
    ASSUME IInv, NEW w \in Arbeiter, Ausgewertet(w)
    PROVE  IInv'
<1> DEFINE i == arbeiter[w].kandidat
<1>1. /\ Typen /\ arbeiter[w].stufe \in Stufen /\ arbeiter[w].pc = "wartet"
      /\ i \in Kandidaten /\ w \in InPool /\ ergebnis[i] = "offen"
      /\ haupt.pc \in {"bau"} \cup Unterbrochen /\ ordner[i].da
  BY Working DEF Ausgewertet, IInv, PoolInv
<1>2. \/ Geht(w, "kontrolle", i, arbeiter[w].stufe) /\ UNCHANGED ergebnis
      \/ Meldet(w, "nicht")
  BY <1>1, Goes, Reports DEF Ausgewertet, ArbeiterSchritte
<1>3. Wird(w, "kein")
  BY <1>1, Becomes DEF Ausgewertet
<1>4. /\ arbeiter' \in [Arbeiter -> ArbeiterTyp] /\ arbeiter'[w].pc \in {"frei", "kontrolle"}
      /\ \A v \in Arbeiter : v # w => arbeiter'[v] = arbeiter[v]
      /\ ergebnis' \in [Kandidaten -> {"offen", "nicht", "gebaut"}]
      /\ \A j \in Kandidaten : j # i => ergebnis'[j] = ergebnis[j]
      /\ ergebnis'[i] # "gebaut"
  BY <1>1, <1>2 DEF Geht, Meldet, Typen
<1>5. TypeOK'
  BY <1>1, <1>3, <1>4, TypedNext DEF Ausgewertet, Typen, Wird
<1>6. PoolInv'
  <2>1. /\ "kontrolle" \in ArbeiterSchritte \ {"frei"} /\ UNCHANGED <<haupt, ordner>>
        /\ \A j \in Kandidaten : ordner[j].da => ordner'[j].da
        /\ ordner'[i].da
    BY <1>1 DEF ArbeiterSchritte, Ausgewertet
  <2> QED
    BY <1>1, <1>2, <2>1, PoolGoesOn, PoolLeaves
<1>7. ProzessInv'
  <2>1. \A v \in Arbeiter \ {w} : Lebt(v) => prozess[v].kandidat # i
    BY <1>1, OwnProcess
  <2> QED
    BY <1>1, <1>3, <1>4, <2>1 DEF Ausgewertet, Wird, Lebt, IInv, ProzessInv
<1>8. AbbruchInv'
  BY <1>1, <1>3 DEF Ausgewertet, Lebt, IInv, AbbruchInv, Wird, Typen
<1>9. NotizInv'
  BY <1>4 DEF Ausgewertet, IInv, NotizInv
<1>10. AbortIsClean'
  BY <1>1, <1>3, <1>4 DEF Ausgewertet, Wird, Lebt, IInv, AbortIsClean, Unterbrochen
<1>11. ReportedShortIsChecked'
  BY <1>4 DEF Ausgewertet, IInv, ReportedShortIsChecked
<1> QED
  BY <1>5, <1>6, <1>7, <1>8, <1>9, <1>10, <1>11 DEF IInv

LEMMA NimmKandidatKeeps ==
    ASSUME IInv, NEW w \in Arbeiter, NimmKandidat(w)
    PROVE  IInv'
<1>1. PICK i \in haupt.schlange :
        /\ arbeiter' = [arbeiter EXCEPT ![w] = [pc |-> "pruefe", kandidat |-> i, stufe |-> 1]]
        /\ haupt' = [haupt EXCEPT !.schlange = @ \ {i}]
  BY DEF NimmKandidat
<1>2. /\ Typen /\ i \in Kandidaten /\ arbeiter[w].pc = "frei" /\ ~Lebt(w) /\ ergebnis[i] = "offen"
      /\ haupt.pc \in {"bau", "setzen", "listen", "toeten"} /\ w \notin InPool
      /\ haupt.pc # "bau" => haupt.parallel # 1
  BY <1>1, Typed DEF NimmKandidat, Untaetig, IInv, PoolInv, Typen, HauptTyp, InPool, Unterbrochen
<1>3. Geht(w, "pruefe", i, 1)
  BY <1>1, <1>2, Goes DEF ArbeiterSchritte
<1>4. /\ haupt' \in HauptTyp /\ haupt'.schlange = haupt.schlange \ {i} /\ haupt'.pc = haupt.pc
      /\ haupt'.parallel = haupt.parallel /\ haupt'.toeten = haupt.toeten /\ haupt'.alt = haupt.alt
  BY <1>1, <1>2 DEF Typen, HauptTyp
<1>5. TypeOK'
  BY <1>2, <1>3, <1>4, TypedNext DEF NimmKandidat, Typen, Geht
<1>6. PoolInv'
  <2>1. InPool' = InPool \cup {w}
    BY <1>3 DEF InPool, Geht
  <2>2. \A v \in InPool : v \in Arbeiter /\ v # w /\ arbeiter'[v] = arbeiter[v] /\ arbeiter[v].kandidat # i
    BY <1>1, <1>2, <1>3 DEF InPool, Geht, IInv, PoolInv
  <2>3. arbeiter'[w].pc = "pruefe" /\ arbeiter'[w].kandidat = i /\ w \in Arbeiter
    BY <1>3 DEF Geht
  <2>4. UNCHANGED <<ergebnis, ordner>>
    BY DEF NimmKandidat
  <2>5. \A v \in InPool' : LET k == arbeiter'[v].kandidat IN
          /\ k \in Kandidaten \ haupt'.schlange /\ ergebnis'[k] = "offen"
          /\ \A u \in InPool' : arbeiter'[u].kandidat = k => u = v
          /\ arbeiter'[v].pc # "pruefe" => ordner'[k].da
    BY <1>2, <1>4, <2>1, <2>2, <2>3, <2>4 DEF IInv, PoolInv
  <2> QED
    BY <1>2, <1>4, <2>4, <2>5 DEF IInv, PoolInv, Unterbrochen
<1>7. ProzessInv'
  BY <1>2, <1>3, <1>4 DEF NimmKandidat, Geht, Lebt, IInv, ProzessInv
<1>8. AbbruchInv' /\ NotizInv'
  BY <1>4 DEF NimmKandidat, Lebt, IInv, AbbruchInv, NotizInv
<1>9. AbortIsClean'
  BY <1>2, <1>3, <1>4 DEF NimmKandidat, Geht, Lebt, IInv, AbortIsClean
<1>10. ReportedShortIsChecked'
  BY DEF NimmKandidat, IInv, ReportedShortIsChecked
<1> QED
  BY <1>5, <1>6, <1>7, <1>8, <1>9, <1>10 DEF IInv

LEMMA KontrolliereKeeps ==
    ASSUME IInv, NEW w \in Arbeiter, Kontrolliere(w)
    PROVE  IInv'
<1> DEFINE i == arbeiter[w].kandidat
           s == arbeiter[w].stufe
<1>1. /\ Typen /\ i \in Kandidaten /\ s \in Stufen /\ arbeiter[w].pc = "kontrolle"
      /\ haupt.pc \in {"bau"} \cup Unterbrochen /\ ergebnis[i] = "offen" /\ w \in InPool
      /\ ordner[i].da
      /\ UNCHANGED <<haupt, prozess, bekannt, abgebrochen, kopie, plan>>
  BY Working DEF Kontrolliere, IInv, PoolInv
<1>2. \/ Geht(w, "stufe", i, s + 1) /\ s + 1 \in Stufen /\ UNCHANGED <<ergebnis, notiz, zaehler>>
         /\ Schreibt(i, s, "geprueft")
      \/ /\ Meldet(w, "gebaut") /\ notiz' = [notiz EXCEPT !.fertig = @ \cup {i}]
         /\ UNCHANGED zaehler /\ Schreibt(i, s, "geprueft") /\ s = Short
      \/ /\ Meldet(w, "nicht") /\ UNCHANGED <<ordner, notiz>>
         /\ zaehler' \in [laeufe : Nat, fehler : Nat, plaene : Nat]
  <2>1. \/ /\ ordner' = [ordner EXCEPT ![i].datei[s] = "geprueft"]
           /\ IF s < Short
              THEN /\ arbeiter' = [arbeiter EXCEPT ![w].pc = "stufe", ![w].stufe = s + 1]
                   /\ UNCHANGED <<notiz, ergebnis>>
              ELSE /\ notiz' = [notiz EXCEPT !.fertig = @ \cup {i}]
                   /\ Melde(w, "gebaut")
           /\ UNCHANGED zaehler
        \/ /\ Zaehle("fehler", MaxFehler) \/ UNCHANGED zaehler
           /\ Melde(w, "nicht")
           /\ UNCHANGED <<ordner, notiz>>
    BY DEF Kontrolliere
  <2>2. CASE /\ ordner' = [ordner EXCEPT ![i].datei[s] = "geprueft"]
             /\ s < Short
             /\ arbeiter' = [arbeiter EXCEPT ![w].pc = "stufe", ![w].stufe = s + 1]
             /\ UNCHANGED <<notiz, ergebnis, zaehler>>
    <3>1. s + 1 \in Stufen
      BY <1>1, <2>2, BuildAssumption DEF Stufen, Short
    <3>2. Geht(w, "stufe", i, s + 1)
      BY <1>1, <2>2, <3>1, Goes DEF ArbeiterSchritte
    <3>3. Schreibt(i, s, "geprueft")
      BY <1>1, <2>2, Writes DEF DateiStand
    <3> QED
      BY <2>2, <3>1, <3>2, <3>3
  <2>3. CASE /\ ordner' = [ordner EXCEPT ![i].datei[s] = "geprueft"]
             /\ ~(s < Short)
             /\ notiz' = [notiz EXCEPT !.fertig = @ \cup {i}]
             /\ Melde(w, "gebaut") /\ UNCHANGED zaehler
    <3>1. s = Short
      BY <1>1, <2>3, BuildAssumption DEF Stufen, Short
    <3>2. Meldet(w, "gebaut")
      BY <1>1, <2>3, Reports
    <3>3. Schreibt(i, s, "geprueft")
      BY <1>1, <2>3, Writes DEF DateiStand
    <3> QED
      BY <2>3, <3>1, <3>2, <3>3
  <2>4. CASE /\ Zaehle("fehler", MaxFehler) \/ UNCHANGED zaehler
             /\ Melde(w, "nicht")
             /\ UNCHANGED <<ordner, notiz>>
    <3>1. Meldet(w, "nicht")
      BY <1>1, <2>4, Reports
    <3>2. zaehler' \in [laeufe : Nat, fehler : Nat, plaene : Nat]
      BY <1>1, <2>4, ZaehleIs DEF Typen
    <3> QED
      BY <2>4, <3>1, <3>2
  <2> QED
    BY <2>1, <2>2, <2>3, <2>4
<1>3. /\ arbeiter' \in [Arbeiter -> ArbeiterTyp] /\ arbeiter'[w].pc \in {"frei", "stufe"}
      /\ \A v \in Arbeiter : v # w => arbeiter'[v] = arbeiter[v]
      /\ ergebnis' \in [Kandidaten -> {"offen", "nicht", "gebaut"}]
      /\ \A j \in Kandidaten : j # i => ergebnis'[j] = ergebnis[j]
      /\ zaehler' \in [laeufe : Nat, fehler : Nat, plaene : Nat]
      /\ ordner' \in [Kandidaten -> OrdnerTyp]
      /\ \A j \in Kandidaten : ordner'[j].da = ordner[j].da
      /\ \A j \in Kandidaten : j # i => ordner'[j].datei[Short] = ordner[j].datei[Short]
  BY <1>1, <1>2, StufenIs DEF Geht, Meldet, Schreibt, Typen
<1>4. /\ notiz' \in [angelegt : SUBSET Kandidaten, fertig : SUBSET Kandidaten]
      /\ notiz'.angelegt = notiz.angelegt /\ notiz.fertig \subseteq notiz'.fertig
  BY <1>1, <1>2 DEF Typen
<1>5. ergebnis'[i] = "gebaut" => i \in notiz'.fertig /\ ordner'[i].datei[Short] = "geprueft"
  BY <1>1, <1>2 DEF Meldet, Schreibt, Typen
<1>6. TypeOK'
  BY <1>1, <1>3, <1>4, TypedNext DEF Typen
<1>7. PoolInv'
  <2>1. "stufe" \in ArbeiterSchritte \ {"frei"} /\ ordner'[i].da
    BY <1>1, <1>3 DEF ArbeiterSchritte
  <2>2. \A j \in Kandidaten : ordner[j].da => ordner'[j].da
    BY <1>3
  <2> QED
    BY <1>1, <1>2, <2>1, <2>2, PoolGoesOn, PoolLeaves
<1>8. ProzessInv'
  BY <1>1, <1>3, OwnProcess DEF Lebt, IInv, ProzessInv
<1>9. AbbruchInv'
  BY <1>1 DEF Lebt, IInv, AbbruchInv
<1>10. NotizInv'
  <2>1. haupt'.pc \notin Vorher
    BY <1>1 DEF Vorher, Unterbrochen
  <2>2. \A j \in Kandidaten : ergebnis'[j] = "gebaut" => j \in notiz'.fertig
    BY <1>3, <1>4, <1>5 DEF IInv, NotizInv
  <2>3. \A j \in haupt'.alt : ordner'[j].da /\ j \notin notiz'.angelegt
    BY <1>1, <1>3, <1>4 DEF IInv, NotizInv, Typen, HauptTyp
  <2> QED
    BY <2>1, <2>2, <2>3 DEF NotizInv
<1>11. AbortIsClean'
  BY <1>1, <1>3 DEF Lebt, IInv, AbortIsClean, Unterbrochen
<1>12. ReportedShortIsChecked'
  BY <1>3, <1>5 DEF IInv, ReportedShortIsChecked
<1> QED
  BY <1>6, <1>7, <1>8, <1>9, <1>10, <1>11, <1>12 DEF IInv

-----------------------------------------------------------------------------
(* ffmpeg, and the clean-up *)

LEMMA ProzessEndetKeeps ==
    ASSUME IInv, NEW w \in Arbeiter, ProzessEndet(w)
    PROVE  IInv'
<1> DEFINE i == prozess[w].kandidat
           s == prozess[w].stufe
<1>1. /\ Typen /\ prozess[w].stand = "lebt" /\ i \in Kandidaten /\ s \in Stufen /\ ergebnis[i] = "offen"
      /\ UNCHANGED <<haupt, arbeiter, bekannt, abgebrochen, notiz, ergebnis, kopie, plan>>
  BY Typed DEF ProzessEndet, Lebt, IInv, ProzessInv, Typen, ProzessTyp
<1>2. /\ prozess' \in [Arbeiter -> ProzessTyp] /\ prozess'[w].stand \in {"null", "tot"}
      /\ prozess'[w].kandidat = i /\ prozess'[w].stufe = s
      /\ \A v \in Arbeiter : v # w => prozess'[v] = prozess[v]
  BY <1>1, Becomes DEF ProzessEndet, Wird
<1>3. /\ ordner' \in [Kandidaten -> OrdnerTyp]
      /\ \A j \in Kandidaten : ordner'[j].da = ordner[j].da
      /\ \A j \in Kandidaten : j # i => ordner'[j].datei[Short] = ordner[j].datei[Short]
  <2>1. CASE ordner' = [ordner EXCEPT ![i].datei[s] = "ganz"]
    <3>1. Schreibt(i, s, "ganz")
      BY <1>1, <2>1, Writes DEF DateiStand
    <3> QED
      BY <3>1, StufenIs DEF Schreibt
  <2>2. CASE UNCHANGED ordner
    BY <1>1, <2>2 DEF Typen
  <2> QED
    BY <2>1, <2>2 DEF ProzessEndet
<1>4. zaehler' \in [laeufe : Nat, fehler : Nat, plaene : Nat]
  BY <1>1, ZaehleIs DEF ProzessEndet, Typen
<1>5. TypeOK'
  BY <1>1, <1>2, <1>3, <1>4, TypedNext DEF Typen
<1>6. PoolInv'
  BY <1>1, <1>3 DEF IInv, PoolInv, InPool
<1>7. ProzessInv'
  BY <1>1, <1>2 DEF Lebt, IInv, ProzessInv
<1>8. AbbruchInv'
  BY <1>1, <1>2 DEF Lebt, IInv, AbbruchInv, Typen
<1>9. NotizInv'
  BY <1>1, <1>3 DEF IInv, NotizInv, Typen, HauptTyp
<1>10. AbortIsClean'
  BY <1>1, <1>2, <1>3 DEF Lebt, IInv, AbortIsClean, Typen
<1>11. ReportedShortIsChecked'
  BY <1>1, <1>3 DEF IInv, ReportedShortIsChecked
<1> QED
  BY <1>5, <1>6, <1>7, <1>8, <1>9, <1>10, <1>11 DEF IInv

LEMMA PlaneAufraeumungKeeps ==
    ASSUME IInv, PlaneAufraeumung
    PROVE  IInv'
<1>1. Typen
  BY Typed DEF IInv
<1>2. plan' \subseteq Kandidaten \X Stufen
  BY DEF PlaneAufraeumung, Zwischenstufen, ZWISCHENSTUFEN
<1>3. TypeOK'
  BY <1>1, <1>2, TypedNext, ZaehleIs DEF PlaneAufraeumung, Typen
<1>4. PoolInv' /\ ProzessInv'
  BY DEF PlaneAufraeumung, IInv, PoolInv, InPool, ProzessInv, Lebt
<1>5. AbbruchInv' /\ NotizInv'
  BY DEF PlaneAufraeumung, IInv, AbbruchInv, Lebt, NotizInv
<1>6. AbortIsClean' /\ ReportedShortIsChecked'
  BY DEF PlaneAufraeumung, IInv, AbortIsClean, ReportedShortIsChecked, Lebt
<1> QED
  BY <1>3, <1>4, <1>5, <1>6 DEF IInv

LEMMA LoescheKeeps ==
    ASSUME IInv, NEW i \in Kandidaten, NEW s \in ZWISCHENSTUFEN, Loesche(i, s)
    PROVE  IInv'
<1>1. /\ Typen /\ s \in Stufen /\ s # Short
      /\ UNCHANGED <<haupt, arbeiter, prozess, bekannt, abgebrochen, notiz, ergebnis, kopie, zaehler>>
  BY Typed DEF IInv, ZWISCHENSTUFEN, Loesche
<1>2. /\ ordner' \in [Kandidaten -> OrdnerTyp]
      /\ \A j \in Kandidaten : ordner'[j].da = ordner[j].da
      /\ \A j \in Kandidaten : ordner'[j].datei[Short] = ordner[j].datei[Short]
  <2>1. CASE ordner' = [ordner EXCEPT ![i].datei[s] = "fehlt"]
    <3>1. Schreibt(i, s, "fehlt")
      BY <1>1, <2>1, Writes DEF DateiStand
    <3> QED
      BY <1>1, <3>1, StufenIs DEF Schreibt
  <2>2. CASE UNCHANGED ordner
    BY <1>1, <2>2 DEF Typen
  <2> QED
    BY <2>1, <2>2 DEF Loesche
<1>3. TypeOK'
  BY <1>1, <1>2, TypedNext DEF Typen, Loesche
<1>4. PoolInv' /\ ProzessInv'
  BY <1>1, <1>2 DEF IInv, PoolInv, InPool, ProzessInv, Lebt
<1>5. AbbruchInv' /\ NotizInv'
  BY <1>1, <1>2 DEF IInv, AbbruchInv, Lebt, NotizInv, Typen, HauptTyp
<1>6. AbortIsClean' /\ ReportedShortIsChecked'
  BY <1>1, <1>2 DEF IInv, AbortIsClean, ReportedShortIsChecked, Lebt, Typen
<1> QED
  BY <1>3, <1>4, <1>5, <1>6 DEF IInv

-----------------------------------------------------------------------------
(* The main thread *)

LEMMA InitHolds == Init => IInv
<1> SUFFICES ASSUME Init PROVE IInv
  OBVIOUS
<1>1. TypeOK
  <2>1. haupt \in HauptTyp
    BY DEF Init, HauptTyp, HauptSchritte
  <2>2. arbeiter \in [Arbeiter -> ArbeiterTyp] /\ prozess \in [Arbeiter -> ProzessTyp]
        /\ ordner \in [Kandidaten -> OrdnerTyp]
    BY EmptyIs DEF Init
  <2>3. /\ bekannt \subseteq Arbeiter /\ abgebrochen \in BOOLEAN
        /\ notiz \in [angelegt : SUBSET Kandidaten, fertig : SUBSET Kandidaten]
        /\ ergebnis \in [Kandidaten -> {"offen", "nicht", "gebaut"}]
        /\ kopie \in {"keine", "halb", "da"} /\ plan \subseteq Kandidaten \X Stufen
    BY DEF Init
  <2>4. zaehler \in [laeufe : Nat, fehler : Nat, plaene : Nat]
    BY DEF Init
  <2> QED
    BY <2>1, <2>2, <2>3, <2>4, Typed DEF Typen
<1>2. PoolInv /\ ProzessInv
  BY DEF Init, PoolInv, ProzessInv, InPool, Frei, KeinProzess, Lebt, Unterbrochen
<1>3. AbbruchInv /\ NotizInv
  BY DEF Init, AbbruchInv, NotizInv, Vorher
<1>4. AbortIsClean /\ ReportedShortIsChecked
  BY DEF Init, AbortIsClean, ReportedShortIsChecked
<1> QED
  BY <1>1, <1>2, <1>3, <1>4 DEF IInv

LEMMA StarteKeeps ==
    ASSUME IInv, NEW p \in 1..Cardinality(Arbeiter), Starte(p)
    PROVE  IInv'
<1>1. Typen /\ p \in Nat \ {0}
  <2>1. Cardinality(Arbeiter) \in Nat
    BY FS_CardinalityType, BuildAssumption
  <2> QED
    BY <2>1, Typed DEF IInv
<1>2. /\ haupt' \in HauptTyp /\ haupt'.pc = "vorlauf" /\ haupt'.alt = {i \in Kandidaten : ordner[i].da}
      /\ haupt'.schlange \subseteq Kandidaten
  BY <1>1 DEF Starte, HauptTyp, HauptSchritte, Vorher, Offene
<1>3. /\ UNCHANGED <<arbeiter, prozess, bekannt, ordner, kopie, plan>>
      /\ abgebrochen' = FALSE /\ notiz' = [angelegt |-> {}, fertig |-> {}]
      /\ ergebnis' = [i \in Kandidaten |-> "offen"]
      /\ haupt.pc = "aus" /\ \A w \in Arbeiter : ~Lebt(w)
  BY DEF Starte
<1>4. TypeOK'
  <2>1. zaehler' \in [laeufe : Nat, fehler : Nat, plaene : Nat]
    BY <1>1, ZaehleIs DEF Starte
  <2> QED
    BY <1>1, <1>2, <1>3, <2>1, TypedNext DEF Typen
<1>5. InPool' = {}
  BY <1>3 DEF InPool, IInv, PoolInv, Unterbrochen
<1>6. PoolInv'
  BY <1>2, <1>3, <1>5 DEF PoolInv, Unterbrochen
<1>7. ProzessInv'
  BY <1>3 DEF IInv, ProzessInv, Lebt
<1>8. AbbruchInv' /\ NotizInv'
  BY <1>2, <1>3 DEF AbbruchInv, NotizInv
<1>9. AbortIsClean' /\ ReportedShortIsChecked'
  BY <1>2, <1>3 DEF AbortIsClean, ReportedShortIsChecked
<1> QED
  BY <1>4, <1>6, <1>7, <1>8, <1>9 DEF IInv

LEMMA VorlaufKeeps ==
    ASSUME IInv, Vorlauf
    PROVE  IInv'
<1>1. /\ Typen /\ haupt.pc = "vorlauf"
      /\ UNCHANGED <<arbeiter, prozess, bekannt, abgebrochen, ordner, notiz, ergebnis, plan>>
  BY Typed DEF IInv, Vorlauf
<1>2. /\ haupt' \in HauptTyp /\ haupt'.pc \in {"kopie", "bau", "fehler"}
      /\ haupt'.schlange = haupt.schlange /\ haupt'.parallel = haupt.parallel /\ haupt'.alt = haupt.alt
  BY <1>1 DEF Vorlauf, Typen, HauptTyp, HauptSchritte, Vorher, Abgelaufen
<1>3. TypeOK'
  BY <1>1, <1>2, TypedNext, ZaehleIs DEF Vorlauf, Typen
<1>4. InPool = {} /\ InPool' = {}
  BY <1>1 DEF InPool, IInv, PoolInv, Unterbrochen
<1>5. PoolInv'
  BY <1>1, <1>2, <1>4 DEF IInv, PoolInv, Unterbrochen
<1>6. ProzessInv'
  BY <1>1, <1>2, <1>4 DEF IInv, ProzessInv, Lebt, InPool, Unterbrochen
<1>7. AbbruchInv' /\ NotizInv'
  BY <1>1, <1>2 DEF IInv, AbbruchInv, NotizInv, Vorher
<1>8. AbortIsClean' /\ ReportedShortIsChecked'
  BY <1>1, <1>2 DEF IInv, AbortIsClean, ReportedShortIsChecked
<1> QED
  BY <1>3, <1>5, <1>6, <1>7, <1>8 DEF IInv

LEMMA BereiteArbeitskopieVorKeeps ==
    ASSUME IInv, BereiteArbeitskopieVor
    PROVE  IInv'
<1>1. /\ Typen /\ haupt.pc = "kopie"
      /\ UNCHANGED <<arbeiter, prozess, bekannt, abgebrochen, ordner, notiz, ergebnis, plan>>
  BY Typed DEF IInv, BereiteArbeitskopieVor
<1>2. /\ haupt' \in HauptTyp /\ haupt'.pc = "bau"
      /\ haupt'.schlange = haupt.schlange /\ haupt'.parallel = haupt.parallel /\ haupt'.alt = haupt.alt
  BY <1>1 DEF BereiteArbeitskopieVor, Typen, HauptTyp, HauptSchritte
<1>3. TypeOK'
  BY <1>1, <1>2, TypedNext, ZaehleIs DEF BereiteArbeitskopieVor, Typen
<1>4. InPool = {} /\ InPool' = {}
  BY <1>1 DEF InPool, IInv, PoolInv, Unterbrochen
<1>5. PoolInv'
  BY <1>1, <1>2, <1>4 DEF IInv, PoolInv, Unterbrochen
<1>6. ProzessInv'
  BY <1>1, <1>2, <1>4 DEF IInv, ProzessInv, Lebt, InPool, Unterbrochen
<1>7. AbbruchInv' /\ NotizInv'
  BY <1>1, <1>2 DEF IInv, AbbruchInv, NotizInv, Vorher
<1>8. AbortIsClean' /\ ReportedShortIsChecked'
  BY <1>1, <1>2 DEF IInv, AbortIsClean, ReportedShortIsChecked
<1> QED
  BY <1>3, <1>5, <1>6, <1>7, <1>8 DEF IInv

LEMMA ErgebnisseDaKeeps ==
    ASSUME IInv, ErgebnisseDa
    PROVE  IInv'
<1>1. /\ Typen /\ haupt.pc = "bau" /\ InPool = {} /\ haupt.schlange = {}
      /\ UNCHANGED <<arbeiter, prozess, bekannt, abgebrochen, ordner, notiz, ergebnis, plan, zaehler>>
  BY Typed DEF IInv, ErgebnisseDa
<1>2. /\ haupt' \in HauptTyp /\ haupt'.pc = "ende"
      /\ haupt'.schlange = {} /\ haupt'.parallel = haupt.parallel /\ haupt'.alt = haupt.alt
  BY <1>1 DEF ErgebnisseDa, Typen, HauptTyp, HauptSchritte, Abgelaufen
<1>3. TypeOK'
  BY <1>1, <1>2, TypedNext DEF ErgebnisseDa, Typen
<1>4. InPool' = {}
  BY <1>1 DEF InPool
<1>5. PoolInv' /\ ProzessInv'
  BY <1>1, <1>2, <1>4 DEF IInv, PoolInv, ProzessInv, Lebt, InPool, Unterbrochen
<1>6. AbbruchInv' /\ NotizInv'
  BY <1>1, <1>2 DEF IInv, AbbruchInv, NotizInv, Vorher
<1>7. AbortIsClean' /\ ReportedShortIsChecked'
  BY <1>1, <1>2 DEF IInv, AbortIsClean, ReportedShortIsChecked
<1> QED
  BY <1>3, <1>5, <1>6, <1>7 DEF IInv

LEMMA StrgCKeeps ==
    ASSUME IInv, StrgC
    PROVE  IInv'
<1>1. Typen /\ UNCHANGED <<ordner, notiz, ergebnis, kopie, plan, zaehler, abgebrochen, prozess>>
  BY Typed DEF IInv, StrgC
<1>2. CASE /\ haupt.pc \in {"vorlauf", "kopie"}
           /\ haupt' = [haupt EXCEPT !.pc = "abbruch", !.schlange = {}]
           /\ UNCHANGED <<arbeiter, bekannt>>
  <2>1. /\ haupt' \in HauptTyp /\ haupt'.pc = "abbruch" /\ haupt'.schlange = {}
        /\ haupt'.parallel = haupt.parallel /\ haupt'.alt = haupt.alt
    BY <1>1, <1>2 DEF Typen, HauptTyp, HauptSchritte, Abgelaufen
  <2>2. TypeOK'
    BY <1>1, <1>2, <2>1, TypedNext DEF Typen
  <2>3. InPool = {} /\ InPool' = {}
    BY <1>2 DEF InPool, IInv, PoolInv, Unterbrochen
  <2>4. PoolInv' /\ ProzessInv'
    BY <1>1, <1>2, <2>1, <2>3 DEF IInv, PoolInv, ProzessInv, Lebt, InPool, Unterbrochen
  <2>5. AbbruchInv' /\ NotizInv'
    BY <1>1, <2>1 DEF IInv, AbbruchInv, NotizInv, Vorher
  <2>6. \A w \in Arbeiter : ~Lebt(w)
    BY <1>2, <2>3 DEF IInv, ProzessInv, InPool, Unterbrochen
  <2>7. AbortIsClean' /\ ReportedShortIsChecked'
    BY <1>1, <1>2, <2>1, <2>6 DEF IInv, AbortIsClean, ReportedShortIsChecked, Lebt, NotizInv, Vorher
  <2> QED
    BY <2>2, <2>4, <2>5, <2>7 DEF IInv
<1>3. CASE /\ haupt.pc = "bau" /\ haupt.parallel # 1
           /\ haupt' = [haupt EXCEPT !.pc = "setzen"]
           /\ UNCHANGED <<arbeiter, bekannt>>
  <2>1. /\ haupt' \in HauptTyp /\ haupt'.pc = "setzen" /\ haupt'.schlange = haupt.schlange
        /\ haupt'.parallel = haupt.parallel /\ haupt'.alt = haupt.alt
    BY <1>1, <1>3 DEF Typen, HauptTyp, HauptSchritte, Unterbrochen
  <2>2. TypeOK'
    BY <1>1, <1>3, <2>1, TypedNext DEF Typen
  <2>3. PoolInv' /\ ProzessInv'
    BY <1>1, <1>3, <2>1 DEF IInv, PoolInv, ProzessInv, Lebt, InPool, Unterbrochen
  <2>4. AbbruchInv' /\ NotizInv'
    BY <1>1, <2>1 DEF IInv, AbbruchInv, NotizInv, Vorher
  <2>5. AbortIsClean' /\ ReportedShortIsChecked'
    BY <1>1, <1>3, <2>1 DEF IInv, AbortIsClean, ReportedShortIsChecked
  <2> QED
    BY <2>2, <2>3, <2>4, <2>5 DEF IInv
<1>4. CASE /\ haupt.pc = "bau" /\ haupt.parallel = 1
           /\ haupt' = [haupt EXCEPT !.pc = "setzen", !.schlange = {}]
           /\ arbeiter' = [w \in Arbeiter |-> Frei] /\ bekannt' = {}
  <2>1. /\ haupt' \in HauptTyp /\ haupt'.pc = "setzen" /\ haupt'.schlange = {}
        /\ haupt'.parallel = 1 /\ haupt'.alt = haupt.alt
    BY <1>1, <1>4 DEF Typen, HauptTyp, HauptSchritte, Unterbrochen
  <2>2. /\ arbeiter' \in [Arbeiter -> ArbeiterTyp] /\ InPool' = {}
        /\ \A w \in Arbeiter : arbeiter'[w].pc = "frei"
    BY <1>4, EmptyIs DEF InPool, Frei
  <2>3. TypeOK'
    BY <1>1, <1>4, <2>1, <2>2, TypedNext DEF Typen
  <2>4. PoolInv' /\ ProzessInv'
    BY <1>1, <1>4, <2>1, <2>2 DEF IInv, PoolInv, ProzessInv, Lebt, Unterbrochen
  <2>5. AbbruchInv' /\ NotizInv'
    BY <1>1, <2>1 DEF IInv, AbbruchInv, NotizInv, Vorher
  <2>6. AbortIsClean' /\ ReportedShortIsChecked'
    BY <1>1, <2>1 DEF IInv, AbortIsClean, ReportedShortIsChecked
  <2> QED
    BY <2>3, <2>4, <2>5, <2>6 DEF IInv
<1> QED
  <2>1. CASE haupt.pc \in {"vorlauf", "kopie"}
    BY <1>2, <2>1 DEF StrgC
  <2>2. CASE haupt.pc = "bau" /\ haupt.parallel = 1
    BY <1>4, <2>2 DEF StrgC
  <2>3. CASE haupt.pc = "bau" /\ haupt.parallel # 1
    <3>1. haupt' = [haupt EXCEPT !.pc = "setzen", !.schlange = haupt.schlange] /\ UNCHANGED <<arbeiter, bekannt>>
      BY <2>3 DEF StrgC
    <3>2. haupt' = [haupt EXCEPT !.pc = "setzen"]
      BY <1>1, <3>1 DEF Typen, HauptTyp
    <3> QED
      BY <1>3, <2>3, <3>1, <3>2
  <2> QED
    BY <2>1, <2>2, <2>3 DEF StrgC

LEMMA BrichAbSetzenKeeps ==
    ASSUME IInv, BrichAbSetzen
    PROVE  IInv'
<1>1. /\ Typen /\ haupt.pc = "setzen" /\ abgebrochen' = TRUE
      /\ UNCHANGED <<arbeiter, prozess, bekannt, ordner, notiz, ergebnis, kopie, plan, zaehler>>
  BY Typed DEF IInv, BrichAbSetzen
<1>2. /\ haupt' \in HauptTyp /\ haupt'.pc = "listen"
      /\ haupt'.schlange = haupt.schlange /\ haupt'.parallel = haupt.parallel /\ haupt'.alt = haupt.alt
  BY <1>1 DEF BrichAbSetzen, Typen, HauptTyp, HauptSchritte, Unterbrochen
<1>3. TypeOK'
  BY <1>1, <1>2, TypedNext DEF Typen
<1>4. PoolInv' /\ ProzessInv'
  BY <1>1, <1>2 DEF IInv, PoolInv, ProzessInv, Lebt, InPool, Unterbrochen
<1>5. AbbruchInv' /\ NotizInv'
  BY <1>1, <1>2 DEF IInv, AbbruchInv, NotizInv, Vorher
<1>6. AbortIsClean' /\ ReportedShortIsChecked'
  BY <1>1, <1>2 DEF IInv, AbortIsClean, ReportedShortIsChecked
<1> QED
  BY <1>3, <1>4, <1>5, <1>6 DEF IInv

LEMMA BrichAbListenKeeps ==
    ASSUME IInv, BrichAbListen
    PROVE  IInv'
<1>1. /\ Typen /\ haupt.pc = "listen" /\ abgebrochen /\ bekannt \subseteq Arbeiter
      /\ UNCHANGED <<arbeiter, prozess, bekannt, abgebrochen, ordner, notiz, ergebnis, kopie, plan, zaehler>>
  BY Typed DEF IInv, AbbruchInv, BrichAbListen, Typen
<1>2. /\ haupt' \in HauptTyp /\ haupt'.pc = "toeten" /\ haupt'.toeten = bekannt
      /\ haupt'.schlange = haupt.schlange /\ haupt'.parallel = haupt.parallel /\ haupt'.alt = haupt.alt
  BY <1>1 DEF BrichAbListen, Typen, HauptTyp, HauptSchritte, Unterbrochen
<1>3. TypeOK'
  BY <1>1, <1>2, TypedNext DEF Typen
<1>4. PoolInv' /\ ProzessInv'
  BY <1>1, <1>2 DEF IInv, PoolInv, ProzessInv, Lebt, InPool, Unterbrochen
<1>5. AbbruchInv' /\ NotizInv'
  BY <1>1, <1>2 DEF IInv, AbbruchInv, NotizInv, Vorher
<1>6. AbortIsClean' /\ ReportedShortIsChecked'
  BY <1>1, <1>2 DEF IInv, AbortIsClean, ReportedShortIsChecked
<1> QED
  BY <1>3, <1>4, <1>5, <1>6 DEF IInv

LEMMA BrichAbToetenKeeps ==
    ASSUME IInv, NEW w \in Arbeiter, BrichAbToeten(w)
    PROVE  IInv'
<1>1. /\ Typen /\ haupt.pc = "toeten" /\ abgebrochen
      /\ UNCHANGED <<arbeiter, bekannt, abgebrochen, ordner, notiz, ergebnis, kopie, plan, zaehler>>
  BY Typed DEF IInv, AbbruchInv, BrichAbToeten
<1>2. /\ haupt' \in HauptTyp /\ haupt'.pc = "toeten" /\ haupt'.toeten = haupt.toeten \ {w}
      /\ haupt'.schlange = haupt.schlange /\ haupt'.parallel = haupt.parallel /\ haupt'.alt = haupt.alt
  BY <1>1 DEF BrichAbToeten, Typen, HauptTyp
<1>3. /\ prozess' \in [Arbeiter -> ProzessTyp] /\ prozess'[w].stand # "lebt"
      /\ prozess'[w].kandidat = prozess[w].kandidat /\ prozess'[w].stufe = prozess[w].stufe
      /\ prozess'[w].stand = "kein" => prozess[w].stand = "kein"
      /\ \A v \in Arbeiter : v # w => prozess'[v] = prozess[v]
  BY <1>1, Kills DEF BrichAbToeten
<1>4. TypeOK'
  BY <1>1, <1>2, <1>3, TypedNext DEF Typen
<1>5. PoolInv'
  BY <1>1, <1>2 DEF IInv, PoolInv, InPool, Unterbrochen
<1>6. ProzessInv'
  BY <1>1, <1>2, <1>3 DEF IInv, ProzessInv, Lebt
<1>7. AbbruchInv'
  BY <1>1, <1>2, <1>3 DEF IInv, AbbruchInv, Lebt, Typen
<1>8. NotizInv' /\ AbortIsClean' /\ ReportedShortIsChecked'
  BY <1>1, <1>2 DEF IInv, NotizInv, Vorher, AbortIsClean, ReportedShortIsChecked
<1> QED
  BY <1>4, <1>5, <1>6, <1>7, <1>8 DEF IInv

LEMMA StreicheWartendeKeeps ==
    ASSUME IInv, StreicheWartende
    PROVE  IInv'
<1>1. /\ Typen /\ haupt.pc = "toeten" /\ haupt.toeten = {} /\ abgebrochen
      /\ UNCHANGED <<arbeiter, prozess, bekannt, abgebrochen, ordner, notiz, ergebnis, kopie, plan, zaehler>>
  BY Typed DEF IInv, AbbruchInv, StreicheWartende
<1>2. /\ haupt' \in HauptTyp /\ haupt'.pc = "warten" /\ haupt'.schlange = {}
      /\ haupt'.parallel = haupt.parallel /\ haupt'.alt = haupt.alt
  BY <1>1 DEF StreicheWartende, Typen, HauptTyp, HauptSchritte, Unterbrochen
<1>3. TypeOK'
  BY <1>1, <1>2, TypedNext DEF Typen
<1>4. PoolInv' /\ ProzessInv'
  BY <1>1, <1>2 DEF IInv, PoolInv, ProzessInv, Lebt, InPool, Unterbrochen
<1>5. AbbruchInv' /\ NotizInv'
  BY <1>1, <1>2 DEF IInv, AbbruchInv, NotizInv, Vorher, Lebt
<1>6. AbortIsClean'
  \* what is registered has been killed, and with a pool nothing else lives but what is not registered yet
  BY <1>1, <1>2 DEF IInv, AbortIsClean, AbbruchInv, ProzessInv, Lebt, Typen, HauptTyp
<1>7. ReportedShortIsChecked'
  BY <1>1 DEF IInv, ReportedShortIsChecked
<1> QED
  BY <1>3, <1>4, <1>5, <1>6, <1>7 DEF IInv

LEMMA RaeumeUnfertigeAufKeeps ==
    ASSUME IInv, RaeumeUnfertigeAuf
    PROVE  IInv'
<1> DEFINE Weg(i) == i \in notiz.angelegt \ notiz.fertig /\ ~\E s \in Stufen : Beschrieben(i, s)
<1>1. /\ Typen /\ haupt.pc = "warten" /\ InPool = {} /\ InPool' = {}
      /\ UNCHANGED <<arbeiter, prozess, bekannt, abgebrochen, notiz, ergebnis, plan, zaehler>>
  BY Typed DEF IInv, RaeumeUnfertigeAuf, InPool
<1>2. /\ haupt' \in HauptTyp /\ haupt'.pc = "abbruch" /\ haupt'.schlange = haupt.schlange
      /\ haupt'.parallel = haupt.parallel /\ haupt'.alt = haupt.alt
  BY <1>1 DEF RaeumeUnfertigeAuf, Typen, HauptTyp, HauptSchritte, Abgelaufen
<1>3. /\ ordner' \in [Kandidaten -> OrdnerTyp]
      /\ \A i \in Kandidaten : ordner'[i] = IF Weg(i) THEN Leer ELSE ordner[i]
  BY <1>1, EmptyIs DEF RaeumeUnfertigeAuf, Typen
<1>4. \A i \in Kandidaten : i \notin notiz.angelegt \/ i \in notiz.fertig => ordner'[i] = ordner[i]
  BY <1>3
<1>5. TypeOK'
  BY <1>1, <1>2, <1>3, TypedNext DEF RaeumeUnfertigeAuf, Typen
<1>6. PoolInv' /\ ProzessInv'
  BY <1>1, <1>2 DEF IInv, PoolInv, ProzessInv, Lebt, InPool, Unterbrochen
<1>7. AbbruchInv' /\ NotizInv'
  BY <1>1, <1>2, <1>4 DEF IInv, AbbruchInv, NotizInv, Vorher, Typen, HauptTyp
<1>8. AbortIsClean'
  <2>1. SUFFICES ASSUME haupt.parallel > 1
                 PROVE  /\ \A w \in Arbeiter : ~Lebt(w)
                        /\ \A i \in notiz.angelegt \ notiz.fertig : ~ordner'[i].da
    BY <1>1, <1>2 DEF AbortIsClean, Lebt
  <2>2. \A w \in Arbeiter : ~Lebt(w)
    BY <1>1, <2>1 DEF IInv, AbortIsClean, InPool
  <2>3. ASSUME NEW i \in notiz.angelegt \ notiz.fertig
        PROVE  ~ordner'[i].da
    <3>1. i \in Kandidaten /\ Weg(i)
      BY <1>1, <2>2, <2>3 DEF Typen, Beschrieben
    <3> QED
      BY <1>3, <3>1 DEF Leer
  <2> QED
    BY <2>2, <2>3
<1>9. ReportedShortIsChecked'
  BY <1>1, <1>4 DEF IInv, ReportedShortIsChecked, NotizInv
<1> QED
  BY <1>5, <1>6, <1>7, <1>8, <1>9 DEF IInv

LEMMA BeendetKeeps ==
    ASSUME IInv, Beendet
    PROVE  IInv'
<1>1. /\ Typen /\ haupt.pc \in Abgelaufen
      /\ UNCHANGED <<arbeiter, prozess, bekannt, abgebrochen, ordner, notiz, ergebnis, kopie, plan, zaehler>>
  BY Typed DEF IInv, Beendet
<1>2. /\ haupt' \in HauptTyp /\ haupt'.pc = "aus" /\ haupt'.schlange = haupt.schlange
      /\ haupt'.parallel = haupt.parallel /\ haupt'.alt = haupt.alt
  BY <1>1 DEF Beendet, Typen, HauptTyp, HauptSchritte
<1>3. TypeOK'
  BY <1>1, <1>2, TypedNext DEF Typen
<1>4. PoolInv' /\ ProzessInv'
  BY <1>1, <1>2 DEF IInv, PoolInv, ProzessInv, Lebt, InPool, Unterbrochen, Abgelaufen
<1>5. AbbruchInv' /\ NotizInv'
  BY <1>1, <1>2 DEF IInv, AbbruchInv, NotizInv, Vorher
<1>6. AbortIsClean' /\ ReportedShortIsChecked'
  BY <1>1, <1>2 DEF IInv, AbortIsClean, ReportedShortIsChecked
<1> QED
  BY <1>3, <1>4, <1>5, <1>6 DEF IInv

-----------------------------------------------------------------------------

LEMMA NextKeeps ==
    ASSUME IInv, [Next]_vars
    PROVE  IInv'
<1>1. CASE Haupt
  BY <1>1, StarteKeeps, VorlaufKeeps, BereiteArbeitskopieVorKeeps, ErgebnisseDaKeeps, StrgCKeeps,
     BrichAbSetzenKeeps, BrichAbListenKeeps, BrichAbToetenKeeps, StreicheWartendeKeeps,
     RaeumeUnfertigeAufKeeps, BeendetKeeps DEF Haupt
<1>2. ASSUME NEW w \in Arbeiter, Arbeit(w)
      PROVE  IInv'
  BY <1>2, NimmKandidatKeeps, LehneAbKeeps, LegeOrdnerAnKeeps, BrichStufeAbKeeps, StufeScheitertKeeps,
     StarteProzessKeeps, TrageEinKeeps, AusgewertetKeeps, KontrolliereKeeps DEF Arbeit
<1>3. CASE Aufraeumen
  BY <1>3, PlaneAufraeumungKeeps, LoescheKeeps DEF Aufraeumen
<1>4. CASE UNCHANGED vars
  <2>1. /\ UNCHANGED <<haupt, arbeiter, prozess, bekannt, abgebrochen>>
        /\ UNCHANGED <<ordner, notiz, ergebnis, kopie, plan, zaehler>>
    BY <1>4 DEF vars
  <2>2. TypeOK'
    BY <2>1 DEF IInv, TypeOK
  <2>3. PoolInv' /\ ProzessInv' /\ AbbruchInv' /\ NotizInv'
    BY <2>1 DEF IInv, PoolInv, ProzessInv, AbbruchInv, NotizInv, InPool, Lebt
  <2>4. AbortIsClean' /\ ReportedShortIsChecked'
    BY <2>1 DEF IInv, AbortIsClean, ReportedShortIsChecked, Lebt
  <2> QED
    BY <2>2, <2>3, <2>4 DEF IInv
<1> QED
  BY <1>1, <1>2, <1>3, <1>4, ProzessEndetKeeps DEF Next

\* A candidate is in the queue, with one worker or done; a process belongs to the worker
\* that started it; and from the moment Ctrl+C takes the list of processes, what is on it
\* is killed by the main thread and what comes onto it by its own worker.
THEOREM Inductive == Spec => []IInv
<1>1. Init => IInv
  BY InitHolds
<1>2. IInv /\ [Next]_vars => IInv'
  BY NextKeeps
<1> QED
  BY <1>1, <1>2, PTL DEF Spec

\* The type invariant of the build holds for any candidates, workers and bounds.
THEOREM TypeCorrect == Spec => []TypeOK
<1>1. IInv => TypeOK
  BY DEF IInv
<1> QED
  BY <1>1, Inductive, PTL

\* After Ctrl+C a build with a pool leaves no ffmpeg running, and no directory it made
\* without a finished short (build.py:1121-1175, :1201-1216).
THEOREM AbortIsAlwaysClean == Spec => []AbortIsClean
<1>1. IInv => AbortIsClean
  BY DEF IInv
<1> QED
  BY <1>1, Inductive, PTL

\* What the report calls built stays checked, whatever fails, is interrupted or is cleaned
\* up beside the build (build.py:1927-2130, aufraeumen.py:203-231).
THEOREM ReportedShortIsAlwaysChecked == Spec => []ReportedShortIsChecked
<1>1. IInv => ReportedShortIsChecked
  BY DEF IInv
<1> QED
  BY <1>1, Inductive, PTL


-----------------------------------------------------------------------------
(* The chain around the build.                                             *)

-----------------------------------------------------------------------------
(* Lemmas about counting and about the operators on candidates.            *)

\* A set of naturals that is not empty has a least element.
LEMMA Least ==
    ASSUME NEW S \in SUBSET Nat, S # {}
    PROVE  \E n \in S : \A m \in S : n <= m
<1>1. PICK n \in S : \A m \in S : <<m, n>> \notin OpToRel(<, Nat)
  BY WFMin, NatLessThanWellFounded, Zenon
<1>2. \A m \in S : ~(m < n)
  BY <1>1 DEF OpToRel
<1>3. n \in Nat /\ \A m \in S : m \in Nat
  OBVIOUS
<1> QED
  BY <1>2, <1>3

Bis(S, n) == {j \in S : j <= n}

\* A set of positions has an m-th position for every m up to its size.
LEMMA EveryRankHasAPosition ==
    ASSUME NEW L \in Nat, NEW S \in SUBSET (1..L), NEW m \in 1..Cardinality(S)
    PROVE  \E n \in S : Cardinality(Bis(S, n)) = m
<1> DEFINE T == {n \in Nat : Cardinality(Bis(S, n)) >= m}
<1>0. \A j \in S : j \in Nat /\ 1 <= j /\ j <= L
  BY SMT
<1>1. IsFiniteSet(S) /\ \A n \in Nat : IsFiniteSet(Bis(S, n)) /\ Cardinality(Bis(S, n)) \in Nat
  <2>1. IsFiniteSet(S)
    <3>1. IsFiniteSet(1..L)
      BY FS_Interval
    <3> QED
      BY <3>1, FS_Subset
  <2>2. \A n \in Nat : Bis(S, n) \subseteq S
    BY DEF Bis
  <2> QED
    BY <2>1, <2>2, FS_Subset, FS_CardinalityType
<1>2. L \in T
  <2>1. Bis(S, L) = S
    BY <1>0 DEF Bis
  <2> QED
    BY <2>1, <1>1, FS_CardinalityType
<1>3. PICK n \in T : \A k \in T : n <= k
  BY <1>2, Least
<1>4. n # 0
  <2>0. \A j \in S : ~(j <= 0)
    BY <1>0
  <2>1. Bis(S, 0) = {}
    BY <2>0, Zenon DEF Bis
  <2> QED
    BY <2>1, FS_EmptySet, <1>3
<1>5. n - 1 \in Nat /\ Cardinality(Bis(S, n - 1)) < m
  BY <1>1, <1>3, <1>4
<1>6. n \in S /\ Bis(S, n) = Bis(S, n - 1) \cup {n} /\ n \notin Bis(S, n - 1)
  <2>1. n \in S
    <3> SUFFICES ASSUME n \notin S PROVE FALSE
      OBVIOUS
    <3>0. \A j \in S : j <= n <=> j <= n - 1
      BY <1>0, <1>3
    <3>1. Bis(S, n) = Bis(S, n - 1)
      BY <3>0 DEF Bis
    <3> QED
      BY <3>1, <1>5, <1>3, <1>1
  <2> QED
    <3>0. /\ \A j \in S : j <= n <=> (j <= n - 1 \/ j = n)
          /\ n <= n /\ ~(n <= n - 1)
      BY <1>0, <1>3
    <3> QED
      BY <2>1, <3>0, Zenon DEF Bis
<1>7. Cardinality(Bis(S, n)) = Cardinality(Bis(S, n - 1)) + 1
  BY <1>6, <1>5, <1>1, FS_AddElement
<1>8. Cardinality(Bis(S, n)) >= m /\ m \in Int /\ Cardinality(Bis(S, n - 1)) \in Int
  BY <1>1, <1>3, <1>5
<1>9. Cardinality(Bis(S, n)) = m
  BY <1>7, <1>8, <1>5
<1> QED
  BY <1>9, <1>6

\* What is taken out of a sequence by positions stands at one of them.
LEMMA AuszugIsFromItsPositions ==
    ASSUME NEW kandidaten, Len(kandidaten) \in Nat, NEW S \in SUBSET (1..Len(kandidaten))
    PROVE  \A m \in DOMAIN Auszug(kandidaten, S) :
             \E n \in S : Auszug(kandidaten, S)[m] = kandidaten[n]
<1> SUFFICES ASSUME NEW m \in DOMAIN Auszug(kandidaten, S)
             PROVE  \E n \in S : Auszug(kandidaten, S)[m] = kandidaten[n]
  OBVIOUS
<1>1. m \in 1..Cardinality(S)
  BY DEF Auszug
<1> DEFINE n == CHOOSE x \in S : Cardinality({j \in S : j <= x}) = m
<1>2. \E x \in S : Cardinality({j \in S : j <= x}) = m
  BY <1>1, EveryRankHasAPosition DEF Bis
<1>3. n \in S
  BY <1>2
<1>4. Auszug(kandidaten, S)[m] = kandidaten[n]
  BY <1>1 DEF Auszug
<1> QED
  BY <1>3, <1>4

\* In a candidate file that is loaded, a candidate is found under its number.
LEMMA CandidateIsFoundByItsNumber ==
    ASSUME NEW kandidaten, ParseCandidates(kandidaten), NEW n \in DOMAIN kandidaten
    PROVE  /\ kandidaten[n].index \in Indizes(kandidaten)
           /\ NachIndex(kandidaten)[kandidaten[n].index] = kandidaten[n]
<1> DEFINE i == kandidaten[n].index
           I == {m \in 1..Len(kandidaten) : kandidaten[m].index = i}
<1>1. Len(kandidaten) \in Nat /\ DOMAIN kandidaten = 1..Len(kandidaten)
  BY DEF ParseCandidates
<1>2. I = {n}
  BY <1>1 DEF ParseCandidates
<1>3. Max({n}) = n
  BY <1>1 DEF Max
<1>4. SelectLastInSeq(kandidaten, LAMBDA k : k.index = i) = n
  BY <1>2, <1>3 DEF SelectLastInSeq
<1>5. i \in Indizes(kandidaten)
  BY DEF Indizes
<1> QED
  BY <1>4, <1>5 DEF NachIndex

-----------------------------------------------------------------------------
(* The frame: what a step has to leave alone.                              *)

\* The bounds stay numbers when one of them is counted up, or none is.
ZaehlerOk == zaehlung \in [ketten : Nat, sitzungen : Nat, urteile : Nat, fehler : Nat]

LEMMA CountingKeepsNumbers ==
    ASSUME ZaehlerOk, NEW was \in {"ketten", "sitzungen", "urteile", "fehler"}, NEW grenze,
           UNCHANGED zaehlung \/ ZaehleKette(was, grenze)
    PROVE  ZaehlerOk'
BY DEF ZaehlerOk, ZaehleKette

\* The judgments and the threads as they were, or with no thread in a request: the
\* judgments are still what was answered.
LEMMA JudgmentsAreKept ==
    ASSUME UrteileInv, UNCHANGED <<urteile, beleg>>,
           \/ UNCHANGED faden
           \/ \A t \in Threads : faden'[t].pc # "geladen"
    PROVE  UrteileInv'
BY DEF UrteileInv, Bezogen

\* A step of the chain leaves the judgments and their readers alone.
LEMMA ChainFrame ==
    ASSUME ChainInv, UNCHANGED <<lauf, seite, faden, urteile, beleg>>,
           DOMAIN datei' = DOMAIN datei, ZaehlerOk'
    PROVE  ChainInv'
<1>1. ChainTypeOK'
  BY DEF ChainInv, ChainTypeOK, ZaehlerOk
<1>2. UrteileInv'
  BY JudgmentsAreKept DEF ChainInv
<1> QED
  BY <1>1, <1>2 DEF ChainInv

\* A step of the judgment run that leaves the page, the threads and the judgments alone.
LEMMA RunFrame ==
    ASSUME ChainInv, UNCHANGED <<seite, faden, urteile, beleg>>,
           DOMAIN datei' = DOMAIN datei, ZaehlerOk',
           DOMAIN lauf' = DOMAIN lauf,
           lauf'.pc \in {"aus", "seite", "abbruch", "beenden", "auswahl", "bau", "baut"}
    PROVE  ChainInv'
<1>1. ChainTypeOK'
  BY DEF ChainInv, ChainTypeOK, ZaehlerOk
<1>2. UrteileInv'
  BY JudgmentsAreKept DEF ChainInv
<1> QED
  BY <1>1, <1>2 DEF ChainInv

\* No step of the chain changes the build list, whatever output it writes.
LEMMA OutputsAreNotTheBuildList ==
    ASSUME ChainTypeOK, NEW s \in Prozessstufen, NEW wert
    PROVE  /\ DOMAIN MitAusgabe(s, wert) = DOMAIN datei
           /\ MitAusgabe(s, wert).bauliste = datei.bauliste
<1>1. CASE s \in Vorstufen
  BY <1>1 DEF MitAusgabe, ChainTypeOK
<1>2. CASE s \notin Vorstufen /\ s = "zerlegung"
  BY <1>2 DEF MitAusgabe, ChainTypeOK
<1>3. CASE s \notin Vorstufen /\ s = "buendelung"
  BY <1>3 DEF MitAusgabe, ChainTypeOK
<1> QED
  BY <1>1, <1>2, <1>3 DEF Prozessstufen

-----------------------------------------------------------------------------
(* The steps of the chain.                                                 *)

LEMMA ChainKeeps ==
    ASSUME ChainInv, Kette
    PROVE  ChainInv' /\ datei'.bauliste = datei.bauliste
<1> USE DEF ChainInv
<1>0. ChainTypeOK /\ ZaehlerOk
  BY DEF ChainTypeOK, ZaehlerOk
<1>a. /\ UNCHANGED <<lauf, seite, faden, urteile, beleg>>
      /\ DOMAIN datei' = DOMAIN datei /\ datei'.bauliste = datei.bauliste
      /\ ZaehlerOk'
  <2>1. CASE \E o \in Starts : StarteKette(o)
    BY <2>1, <1>0, CountingKeepsNumbers DEF StarteKette
  <2>2. CASE Ueberspringe
    BY <2>2, <1>0, CountingKeepsNumbers DEF Ueberspringe
  <2>3. CASE BeginneStufe
    BY <2>3, <1>0, CountingKeepsNumbers DEF BeginneStufe
  <2>4. ASSUME NEW s \in Prozessstufen, Prozess(s)
        PROVE  /\ UNCHANGED <<lauf, seite, faden, urteile, beleg>>
               /\ DOMAIN datei' = DOMAIN datei /\ datei'.bauliste = datei.bauliste
               /\ ZaehlerOk'
    <3>1. UNCHANGED zaehlung \/ ZaehleKette("fehler", MaxAusfaelle)
      BY <2>4 DEF Prozess
    <3>2. datei' = datei \/ \E wert : datei' = MitAusgabe(s, wert)
      BY <2>4 DEF Prozess
    <3>3. DOMAIN datei' = DOMAIN datei /\ datei'.bauliste = datei.bauliste
      BY <3>2, <1>0, OutputsAreNotTheBuildList
    <3>4. ZaehlerOk'
      BY <3>1, <1>0, CountingKeepsNumbers
    <3> QED
      BY <3>3, <3>4, <2>4 DEF Prozess
  <2>5. CASE FuehreZusammenLies
    BY <2>5, <1>0, CountingKeepsNumbers DEF FuehreZusammenLies
  <2>6. CASE FuehreZusammenSchreibe
    BY <2>6, <1>0, CountingKeepsNumbers DEF FuehreZusammenSchreibe, ChainTypeOK
  <2>8. CASE KetteFertig
    BY <2>8, <1>0, CountingKeepsNumbers DEF KetteFertig
  <2>9. CASE KetteStirbt
    <3>1. ZaehleKette("fehler", MaxAusfaelle)
      BY <2>9 DEF KetteStirbt
    <3>2. \/ datei' = datei
          \/ \E s \in Prozessstufen : \E wert : datei' = MitAusgabe(s, wert)
      BY <2>9 DEF KetteStirbt
    <3>3. DOMAIN datei' = DOMAIN datei /\ datei'.bauliste = datei.bauliste
      BY <3>2, <1>0, OutputsAreNotTheBuildList
    <3>4. ZaehlerOk'
      BY <3>1, <1>0, CountingKeepsNumbers
    <3> QED
      BY <3>3, <3>4, <2>9 DEF KetteStirbt
  <2> QED
    BY <2>1, <2>2, <2>3, <2>4, <2>5, <2>6, <2>8, <2>9 DEF Kette
<1> QED
  BY <1>a, ChainFrame

-----------------------------------------------------------------------------
(* The steps of the page.                                                  *)

LEMMA PageKeeps ==
    ASSUME ChainInv, Seite
    PROVE  ChainInv' /\ datei' = datei
<1> USE DEF ChainInv
<1>0. ChainTypeOK /\ ZaehlerOk /\ UrteileInv
  BY DEF ChainTypeOK, ZaehlerOk
<1>1. CASE StarteSeite
  <2>1. ChainTypeOK'
    BY <1>1, <1>0 DEF StarteSeite, ChainTypeOK
  <2> QED
    BY <2>1, <1>1, <1>0, JudgmentsAreKept DEF StarteSeite
<1>2. ASSUME NEW t \in Threads, NEW i \in Numbers, NEW wert \in {"ja", "nein"}, Anfrage(t, i, wert)
      PROVE  ChainInv' /\ datei' = datei
  <2>1. ZaehlerOk'
    BY <1>2, <1>0, CountingKeepsNumbers DEF Anfrage
  <2>2. ChainTypeOK'
    BY <2>1, <1>2, <1>0 DEF Anfrage, ChainTypeOK, ZaehlerOk
  <2>3. \A u \in Threads : faden'[u].pc = "geladen" => faden[u].pc = "geladen" /\ faden'[u] = faden[u]
    BY <1>2, <1>0 DEF Anfrage, ChainTypeOK
  <2>4. UrteileInv'
    BY <2>3, <1>2, <1>0 DEF Anfrage, UrteileInv, Bezogen
  <2> QED
    BY <2>2, <2>4, <1>2 DEF Anfrage
<1>3. ASSUME NEW t \in Threads, Laden(t)
      PROVE  ChainInv' /\ datei' = datei
  <2>1. /\ faden'[t].pc = "geladen" /\ faden'[t].laden = urteile.von
        /\ \A u \in Threads \ {t} : faden'[u] = faden[u] /\ faden'[u].pc # "geladen"
    BY <1>3, <1>0 DEF Laden, ChainTypeOK
  <2>2. ChainTypeOK'
    BY <1>3, <1>0 DEF Laden, ChainTypeOK
  <2>3. UrteileInv'
    BY <2>1, <1>3, <1>0 DEF Laden, UrteileInv, Bezogen
  <2> QED
    BY <2>2, <2>3, <1>3 DEF Laden
<1>4. ASSUME NEW t \in Threads, Speichern(t)
      PROVE  ChainInv' /\ datei' = datei
  <2> DEFINE i == faden[t].index
             neu == Bezogen(seite.karten[i], faden[t].urteil)
  <2>1. faden[t].laden = beleg /\ \A u \in Threads : faden[u].pc = "geladen" => u = t
    BY <1>4, <1>0 DEF Speichern, UrteileInv
  <2>2. /\ urteile' = [da |-> TRUE, von |-> Eingetragen(beleg, i, neu)]
        /\ beleg' = Eingetragen(beleg, i, neu)
    BY <2>1, <1>4 DEF Speichern
  <2>3. \A u \in Threads : faden'[u].pc # "geladen"
    BY <2>1, <1>4, <1>0 DEF Speichern, ChainTypeOK, FadenFrei
  <2>4. \A j \in DOMAIN beleg' : beleg'[j] = Bezogen(beleg'[j], beleg'[j].urteil)
    <3>1. neu = Bezogen(neu, neu.urteil)
      BY DEF Bezogen
    <3>2. /\ DOMAIN beleg' = {i} \cup DOMAIN beleg /\ beleg'[i] = neu
          /\ \A j \in DOMAIN beleg : j # i => beleg'[j] = beleg[j]
      <4> HIDE DEF neu, i
      <4> QED
        BY <2>2 DEF Eingetragen
    <3> QED
      BY <3>1, <3>2, <1>0 DEF UrteileInv
  <2>5. UrteileInv'
    BY <2>2, <2>3, <2>4 DEF UrteileInv
  <2>6. ChainTypeOK'
    BY <2>2, <1>4, <1>0 DEF Speichern, ChainTypeOK, FadenFrei
  <2> QED
    BY <2>5, <2>6, <1>4 DEF Speichern
<1> QED
  BY <1>1, <1>2, <1>3, <1>4 DEF Seite

-----------------------------------------------------------------------------
(* The steps of the judgment run.                                          *)

LEMMA RunKeeps ==
    ASSUME ChainInv, Lauf
    PROVE  ChainInv'
<1> USE DEF ChainInv
<1>0. ChainTypeOK /\ ZaehlerOk /\ UrteileInv
  BY DEF ChainTypeOK, ZaehlerOk
<1>1. CASE StarteLauf
  <2>1. ZaehlerOk'
    BY <1>1, <1>0, CountingKeepsNumbers DEF StarteLauf
  <2>2. DOMAIN lauf' = DOMAIN lauf /\ lauf'.pc \in {"aus", "seite"}
    BY <1>1, <1>0 DEF StarteLauf, ChainTypeOK
  <2> QED
    BY <2>1, <2>2, <1>1, RunFrame DEF StarteLauf
<1>2. CASE StrgCLauf
  <2>1. DOMAIN lauf' = DOMAIN lauf /\ lauf'.pc = "abbruch"
    BY <1>2, <1>0 DEF StrgCLauf, ChainTypeOK
  <2> QED
    BY <2>1, <1>2, <1>0, RunFrame DEF StrgCLauf, ZaehlerOk
<1>9. CASE SeiteStartetNicht
  <2>1. DOMAIN lauf' = DOMAIN lauf /\ lauf'.pc = "auswahl"
    BY <1>9, <1>0 DEF SeiteStartetNicht, ChainTypeOK
  <2> QED
    BY <2>1, <1>9, <1>0, RunFrame DEF SeiteStartetNicht, ZaehlerOk
<1>3. CASE WarteAufKind
  <2>1. DOMAIN lauf' = DOMAIN lauf /\ lauf'.pc = "beenden"
    BY <1>3, <1>0 DEF WarteAufKind, ChainTypeOK
  <2> QED
    BY <2>1, <1>3, <1>0, RunFrame DEF WarteAufKind, ZaehlerOk
<1>4. CASE BeendeKind
  <2>1. ChainTypeOK'
    BY <1>4, <1>0 DEF BeendeKind, SeiteEndet, SeiteAus, FadenFrei,
       ChainTypeOK
  <2>2. \A t \in Threads : faden'[t].pc # "geladen"
    BY <1>4 DEF BeendeKind, SeiteEndet, FadenFrei
  <2> QED
    BY <2>1, <2>2, <1>4, <1>0, JudgmentsAreKept DEF BeendeKind
<1>5. CASE Auswahl
  <2>1. DOMAIN lauf' = DOMAIN lauf /\ lauf'.pc \in {"aus", "bau"}
    BY <1>5, <1>0 DEF Auswahl, ChainTypeOK, LaufAus
  <2>2. DOMAIN datei' = DOMAIN datei
    BY <1>5, <1>0 DEF Auswahl, ChainTypeOK
  <2> QED
    BY <2>1, <2>2, <1>5, <1>0, RunFrame DEF Auswahl, ZaehlerOk
<1>6. CASE BeginneBau
  <2>1. DOMAIN lauf' = DOMAIN lauf /\ lauf'.pc \in {"aus", "baut"}
    BY <1>6, <1>0 DEF BeginneBau, ChainTypeOK, LaufAus
  <2>2. DOMAIN datei' = DOMAIN datei
    BY <1>6, <1>0 DEF BeginneBau, ChainTypeOK
  <2> QED
    BY <2>1, <2>2, <1>6, <1>0, RunFrame DEF BeginneBau, ZaehlerOk
<1>7. ASSUME NEW n \in Numbers, BaueShort(n)
      PROVE  ChainInv'
  <2>1. ZaehlerOk'
    BY <1>7, <1>0, CountingKeepsNumbers DEF BaueShort
  <2>2. DOMAIN lauf' = DOMAIN lauf /\ lauf'.pc = "baut"
    BY <1>7, <1>0 DEF BaueShort, ChainTypeOK
  <2> QED
    BY <2>1, <2>2, <1>7, RunFrame DEF BaueShort
<1>8. CASE BauEndet
  <2>1. DOMAIN lauf' = DOMAIN lauf /\ lauf'.pc = "aus"
    BY <1>8, <1>0 DEF BauEndet, ChainTypeOK, LaufAus
  <2> QED
    BY <2>1, <1>8, <1>0, RunFrame DEF BauEndet, ZaehlerOk
<1> QED
  BY <1>1, <1>2, <1>3, <1>4, <1>5, <1>6, <1>7, <1>8, <1>9 DEF Lauf

\* What a selection writes was accepted, and no other step of the run writes the list.
LEMMA SelectionIsJudged ==
    ASSUME ChainInv, Auswahl, datei'.bauliste # datei.bauliste
    PROVE  \A m \in DOMAIN datei'.bauliste :
             /\ datei'.bauliste[m].index \in DOMAIN beleg
             /\ beleg[datei'.bauliste[m].index] = Bezogen(datei'.bauliste[m], "ja")
<1> DEFINE kandidaten == datei.kandidaten
           stellen == {n \in DOMAIN kandidaten :
                         LET i == kandidaten[n].index IN i \in DOMAIN beleg /\ beleg[i].urteil = "ja"}
<1> SUFFICES ASSUME NEW m \in DOMAIN datei'.bauliste
             PROVE  /\ datei'.bauliste[m].index \in DOMAIN beleg
                    /\ beleg[datei'.bauliste[m].index] = Bezogen(datei'.bauliste[m], "ja")
  OBVIOUS
<1>1. urteile.von = beleg /\ \A i \in DOMAIN beleg : beleg[i] = Bezogen(beleg[i], beleg[i].urteil)
  BY DEF ChainInv, UrteileInv
<1>2. /\ ParseCandidates(kandidaten)
      /\ PruefeUebereinstimmung(kandidaten, beleg) = {}
      /\ datei' = [datei EXCEPT !.bauliste = WaehleKandidaten(kandidaten, beleg)]
  BY <1>1 DEF Auswahl, BaueBauliste
<1>3. datei'.bauliste = Auszug(kandidaten, stellen)
  BY <1>2 DEF WaehleKandidaten, MitUrteil, ChainInv, ChainTypeOK
<1>4. Len(kandidaten) \in Nat /\ DOMAIN kandidaten = 1..Len(kandidaten)
  BY <1>2 DEF ParseCandidates
<1>5. PICK n \in stellen : datei'.bauliste[m] = kandidaten[n]
  <2>1. stellen \in SUBSET (1..Len(kandidaten))
    BY <1>4
  <2> QED
    <3> HIDE DEF stellen, kandidaten
    <3>1. \A x \in DOMAIN Auszug(kandidaten, stellen) :
             \E n \in stellen : Auszug(kandidaten, stellen)[x] = kandidaten[n]
      BY <2>1, <1>4, AuszugIsFromItsPositions
    <3> QED
      BY <3>1, <1>3
<1> DEFINE k == kandidaten[n]
<1>6. k.index \in DOMAIN beleg /\ beleg[k.index].urteil = "ja"
  BY <1>5
<1>7. NachIndex(kandidaten)[k.index] = k
  BY <1>2, <1>5, CandidateIsFoundByItsNumber
<1>8. <<beleg[k.index].start, beleg[k.index].ende, beleg[k.index].titel>> = <<k.start, k.ende, k.titel>>
  BY <1>2, <1>6, <1>7 DEF PruefeUebereinstimmung
<1>9. beleg[k.index] = Bezogen(k, "ja")
  BY <1>1, <1>6, <1>8 DEF Bezogen
<1> QED
  BY <1>5, <1>6, <1>9

LEMMA OnlyASelectionWritesTheList ==
    ASSUME ChainInv, Lauf, datei'.bauliste # datei.bauliste
    PROVE  Auswahl
<1>1. CASE BeginneBau
  BY <1>1 DEF BeginneBau, ChainInv, ChainTypeOK
<1>2. CASE BeendeKind
  BY <1>2 DEF BeendeKind
<1> QED
  BY <1>1, <1>2 DEF Lauf, StarteLauf, SeiteStartetNicht, StrgCLauf, WarteAufKind, BaueShort,
     BauEndet

-----------------------------------------------------------------------------

LEMMA ChainInitEstablishes ==
    ASSUME ChainInit
    PROVE  ChainInv
<1>1. ChainTypeOK
  BY DEF ChainInit, ChainTypeOK, LaufAus, SeiteAus, FadenFrei
<1>2. UrteileInv
  BY DEF ChainInit, UrteileInv, FadenFrei
<1> QED
  BY <1>1, <1>2 DEF ChainInv

LEMMA ChainNextKeeps ==
    ASSUME ChainInv, [ChainNext]_chainVars
    PROVE  ChainInv'
<1>1. CASE UNCHANGED chainVars
  BY <1>1, JudgmentsAreKept DEF chainVars, ChainInv, ChainTypeOK
<1> QED
  BY <1>1, ChainKeeps, PageKeeps, RunKeeps DEF ChainNext

\* The inductive invariant of the chain: the judgment file holds exactly what the page has
\* answered, and a thread between loading and writing is alone and has all of it.
THEOREM ChainInductive == ChainSpec => []ChainInv
<1>1. ChainInit => ChainInv
  BY ChainInitEstablishes
<1>2. ChainInv /\ [ChainNext]_chainVars => ChainInv'
  BY ChainNextKeeps
<1> QED
  BY <1>1, <1>2, PTL DEF ChainSpec

\* An answered judgment is in the newest judgment file from then on, with the texts it was
\* given for, for any threads, sessions, chain runs and failures.
THEOREM AnsweredJudgmentAlwaysStays == ChainSpec => []AnsweredJudgmentStays
<1>1. ChainInv => AnsweredJudgmentStays
  BY DEF ChainInv, UrteileInv, AnsweredJudgmentStays
<1> QED
  BY <1>1, ChainInductive, PTL

\* Whatever united the candidates anew in the meantime, each entry of a build list that is
\* written was last answered "ja", for the passage and the texts it has.
THEOREM BuildListIsAlwaysJudged == ChainSpec => BuildListIsJudged
<1>1. ASSUME ChainInv, [ChainNext]_chainVars, datei'.bauliste # datei.bauliste
      PROVE  \A n \in DOMAIN datei'.bauliste : LET k == datei'.bauliste[n] IN
                k.index \in DOMAIN beleg /\ beleg[k.index] = Bezogen(k, "ja")
  <2>1. ~UNCHANGED chainVars /\ ~Kette /\ ~Seite
    BY <1>1, ChainKeeps, PageKeeps DEF chainVars
  <2>2. Auswahl
    BY <2>1, <1>1, OnlyASelectionWritesTheList DEF ChainNext
  <2> QED
    BY <2>2, <1>1, SelectionIsJudged
<1> QED
  BY <1>1, ChainInductive, PTL DEF ChainSpec, BuildListIsJudged

-----------------------------------------------------------------------------
(* The book-keeping of the chain.                                          *)

\* The stages have different names.
LEMMA StagesDiffer ==
    /\ \A s \in Vorstufen : s # "zerlegung" /\ s # "buendelung" /\ s # "zusammenfuehrung"
    /\ Prozessstufen \subseteq Buchstufen
BY ShortsAssumption DEF Prozessstufen, Buchstufen

\* One output is written: the other outputs are as whole as they were, and this one is when
\* a stage that succeeded wrote it.
LEMMA OutputsAreApart ==
    ASSUME ChainTypeOK, DOMAIN datei.vor = Vorstufen, DOMAIN datei.lauf = Laeufe, kette.lauf \in Laeufe,
           NEW s \in Prozessstufen, NEW wert, datei' = MitAusgabe(s, wert)
    PROVE  /\ DOMAIN datei'.vor = Vorstufen /\ DOMAIN datei'.lauf = Laeufe
           /\ \A t \in Prozessstufen \ {s} : (Ganz(t)' <=> Ganz(t)) /\ (Liegt(t)' <=> Liegt(t))
           /\ wert \in GanzeAusgaben(s) => Ganz(s)'
<1>1. CASE s \in Vorstufen
  <2>1. /\ datei'.lauf = datei.lauf /\ datei'.buendel = datei.buendel
        /\ DOMAIN datei'.vor = Vorstufen /\ datei'.vor[s] = wert
        /\ \A t \in Vorstufen \ {s} : datei'.vor[t] = datei.vor[t]
    <3>1. datei' = [datei EXCEPT !.vor = [datei.vor EXCEPT ![s] = wert]]
      BY <1>1, StagesDiffer DEF MitAusgabe
    <3>2. /\ datei'.lauf = datei.lauf /\ datei'.buendel = datei.buendel
          /\ datei'.vor = [datei.vor EXCEPT ![s] = wert]
      BY <3>1 DEF ChainTypeOK
    <3> QED
      BY <1>1, <3>2
  <2>2. Saetze' = Saetze
    BY <2>1 DEF Saetze
  <2>3. wert \in GanzeAusgaben(s) => wert = "ganz"
    BY <1>1, StagesDiffer DEF GanzeAusgaben
  <2> QED
    BY <1>1, <2>1, <2>2, <2>3, StagesDiffer DEF Prozessstufen, Ganz, Liegt
<1>2. CASE s = "zerlegung"
  <2>1. /\ datei'.vor = datei.vor /\ datei'.buendel = datei.buendel
        /\ DOMAIN datei'.lauf = Laeufe /\ datei'.lauf[kette.lauf] = wert
    BY <1>2, StagesDiffer DEF MitAusgabe, ChainTypeOK
  <2>2. wert \in GanzeAusgaben(s) => Ganz(s)'
    <3> SUFFICES ASSUME NEW z \in Zerlegungen, wert = [art |-> "ganz", satz |-> z]
                 PROVE  Ganz(s)'
      BY <1>2 DEF GanzeAusgaben
    <3>1. wert # Fehlt /\ wert.art = "ganz"
      BY FehltAssumption
    <3>2. kette.lauf \in Saetze' /\ datei'.lauf[kette.lauf].art = "ganz"
      BY <2>1, <3>1 DEF Saetze
    <3> QED
      BY <1>2, <3>2, StagesDiffer DEF Ganz
  <2> QED
    BY <1>2, <2>1, <2>2, StagesDiffer DEF Prozessstufen, Ganz, Liegt
<1>3. CASE s = "buendelung"
  <2>1. /\ datei'.vor = datei.vor /\ datei'.lauf = datei.lauf /\ datei'.buendel = wert
    BY <1>3, StagesDiffer DEF MitAusgabe, ChainTypeOK
  <2>2. Saetze' = Saetze
    BY <2>1 DEF Saetze
  <2>3. wert \in GanzeAusgaben(s) => wert = "ganz"
    BY <1>3 DEF GanzeAusgaben
  <2> QED
    BY <1>3, <2>1, <2>2, <2>3, StagesDiffer DEF Prozessstufen, Ganz, Liegt
<1> QED
  BY <1>1, <1>2, <1>3 DEF Prozessstufen

\* The outputs lie as they lay.
LEMMA OutputsStay ==
    ASSUME datei'.vor = datei.vor, datei'.lauf = datei.lauf, datei'.buendel = datei.buendel
    PROVE  \A t \in Prozessstufen : (Ganz(t)' <=> Ganz(t)) /\ (Liegt(t)' <=> Liegt(t))
<1>1. Saetze' = Saetze
  BY DEF Saetze
<1> QED
  BY <1>1, StagesDiffer DEF Prozessstufen, Ganz, Liegt

\* The entry of the stage is written.
LEMMA EntryIsWritten ==
    ASSUME BuchInv, kette.pc # "aus", NEW status \in Stati, Schreibe(status)
    PROVE  /\ zustand' = Stand' /\ Stand' \in [Buchstufen -> Stati]
           /\ Stand' = [kette.stand EXCEPT ![Stufe] = status]
           /\ \A t \in Buchstufen : Stand'[t] = IF t = Stufe THEN status ELSE Stand[t]
<1>1. kette.stand = Stand /\ Stand \in [Buchstufen -> Stati]
  BY DEF BuchInv
<1>2. zustand' = [kette.stand EXCEPT ![Stufe] = status]
  BY DEF Schreibe
<1>3. zustand' \in [Buchstufen -> Stati]
  BY <1>1, <1>2
<1>4. zustand' # Fehlt
  BY <1>3, FehltAssumption
<1> QED
  BY <1>1, <1>2, <1>3, <1>4 DEF Stand

\* No output and no entry changes, and the chain is not running, or stays where it is.
LEMMA BookStays ==
    ASSUME BuchInv, UNCHANGED zustand,
           datei'.vor = datei.vor, datei'.lauf = datei.lauf, datei'.buendel = datei.buendel,
           kette' = kette \/ kette' = KetteAus
    PROVE  BuchInv'
<1>1. Stand' = Stand
  BY DEF Stand
<1>2. \A t \in Prozessstufen : (Ganz(t)' <=> Ganz(t)) /\ (Liegt(t)' <=> Liegt(t))
  BY OutputsStay
<1>3. kette' = kette => Stufe' = Stufe
  BY DEF Stufe
<1> QED
  BY <1>1, <1>2, <1>3 DEF BuchInv, KetteAus

\* The entry of a stage is written, beside a whole output if it says done, and no other
\* output changes.
LEMMA BookIsWritten ==
    ASSUME BuchInv, kette.pc # "aus", NEW status \in Stati \ {"offen"}, Schreibe(status),
           DOMAIN datei'.vor = Vorstufen, DOMAIN datei'.lauf = Laeufe,
           \A t \in Prozessstufen : t # Stufe => (Ganz(t)' <=> Ganz(t)) /\ (Liegt(t)' <=> Liegt(t)),
           status = "fertig" => \A t \in Prozessstufen : t = Stufe => Ganz(t)',
           \/ kette' = KetteAus
           \/ /\ DOMAIN kette' = DOMAIN kette /\ kette'.lauf = kette.lauf
              /\ kette'.stand = [kette.stand EXCEPT ![Stufe] = status]
              /\ \/ kette'.pc \in {"stufe", "ende"}
                 \/ kette'.pc = "laeuft" /\ status = "laeuft" /\ Stufe' = Stufe
    PROVE  BuchInv'
<1>1. /\ Stand' \in [Buchstufen -> Stati]
      /\ Stand' = [kette.stand EXCEPT ![Stufe] = status]
      /\ \A t \in Prozessstufen : Stand'[t] = IF t = Stufe THEN status ELSE Stand[t]
  BY EntryIsWritten, StagesDiffer
<1>2. \A t \in Prozessstufen : /\ Stand'[t] = "fertig" => Ganz(t)'
                              /\ Stand'[t] = "offen" /\ Liegt(t)' => Ganz(t)'
  BY <1>1 DEF BuchInv
<1>3. /\ DOMAIN kette' = {"pc", "nummer", "ab", "bis", "lauf", "stand", "saetze"}
      /\ kette'.pc # "aus" => kette'.stand = Stand' /\ kette'.lauf \in Laeufe
      /\ kette'.pc = "laeuft" => \A s \in Prozessstufen : Stufe' = s => Stand'[s] = "laeuft"
      /\ kette'.pc # "schreibt"
  BY <1>1 DEF BuchInv, KetteAus
<1> QED
  BY <1>1, <1>2, <1>3 DEF BuchInv

LEMMA ChainKeepsTheBook ==
    ASSUME ChainTypeOK, BuchInv, Kette
    PROVE  BuchInv'
<1>1. CASE \E o \in Starts : StarteKette(o)
  <2>1. PICK o \in Starts : StarteKette(o)
    BY <1>1
  <2>2. /\ kette'.pc = "stufe" /\ kette'.stand = Stand /\ kette'.lauf = o.lauf
        /\ DOMAIN kette' = {"pc", "nummer", "ab", "bis", "lauf", "stand", "saetze"}
    BY <2>1 DEF StarteKette, KetteAus, Stand
  <2>3. Stand' = Stand /\ datei' = datei /\ o.lauf \in Laeufe
    BY <2>1, ShortsAssumption DEF StarteKette, Stand
  <2>4. \A t \in Prozessstufen : (Ganz(t)' <=> Ganz(t)) /\ (Liegt(t)' <=> Liegt(t))
    BY <2>3, OutputsStay
  <2> QED
    BY <2>2, <2>3, <2>4 DEF BuchInv
<1>2. CASE Ueberspringe
  <2>1. /\ kette.pc # "aus" /\ Schreibe("fertig") /\ kette' = NaechsteStufe("fertig")
        /\ WirdUebersprungen(Stufe, kette.stand) /\ datei' = datei
    BY <1>2 DEF Ueberspringe
  <2>2. \A t \in Prozessstufen : (Ganz(t)' <=> Ganz(t)) /\ (Liegt(t)' <=> Liegt(t))
    BY <2>1, OutputsStay
  <2>3. ASSUME NEW t \in Prozessstufen, t = Stufe PROVE Ganz(t)
    <3>1. Ausgabe(t) # Fehlt /\ Stand[t] \notin {"laeuft", "gescheitert"}
      BY <2>1, <2>3 DEF WirdUebersprungen, BuchInv
    <3>2. Stand[t] \in {"offen", "fertig"}
      BY <3>1, StagesDiffer DEF BuchInv, Stati
    <3>3. Liegt(t)
      <4>1. kette.lauf \in Laeufe
        BY <2>1 DEF BuchInv
      <4> QED
        BY <3>1, <4>1, StagesDiffer DEF Ausgabe, Liegt, Saetze, Prozessstufen
    <3> QED
      BY <3>2, <3>3 DEF BuchInv
  <2>4. /\ DOMAIN kette' = DOMAIN kette /\ kette'.lauf = kette.lauf
        /\ kette'.stand = [kette.stand EXCEPT ![Stufe] = "fertig"]
        /\ kette'.pc \in {"stufe", "ende"}
    BY <2>1 DEF NaechsteStufe, BuchInv
  <2>5. DOMAIN datei'.vor = Vorstufen /\ DOMAIN datei'.lauf = Laeufe /\ "fertig" \in Stati \ {"offen"}
    BY <2>1 DEF BuchInv, Stati
  <2> QED
    BY <2>1, <2>2, <2>3, <2>4, <2>5, BookIsWritten
<1>3. CASE BeginneStufe
  <2>1. /\ kette.pc # "aus" /\ Schreibe("laeuft") /\ datei' = datei
        /\ kette' = [kette EXCEPT !.stand[Stufe] = "laeuft", !.pc = "laeuft"]
    BY <1>3 DEF BeginneStufe
  <2>2. \A t \in Prozessstufen : (Ganz(t)' <=> Ganz(t)) /\ (Liegt(t)' <=> Liegt(t))
    BY <2>1, OutputsStay
  <2>3. /\ DOMAIN kette' = DOMAIN kette /\ kette'.lauf = kette.lauf /\ kette'.nummer = kette.nummer
        /\ kette'.stand = [kette.stand EXCEPT ![Stufe] = "laeuft"] /\ kette'.pc = "laeuft"
    BY <2>1 DEF BuchInv
  <2>4. Stufe' = Stufe
    BY <2>3 DEF Stufe
  <2>5. DOMAIN datei'.vor = Vorstufen /\ DOMAIN datei'.lauf = Laeufe /\ "laeuft" \in Stati \ {"offen"}
    BY <2>1 DEF BuchInv, Stati
  <2> QED
    BY <2>1, <2>2, <2>3, <2>4, <2>5, BookIsWritten
<1>4. ASSUME NEW s \in Prozessstufen, Prozess(s) PROVE BuchInv'
  <2>1. kette.pc = "laeuft" /\ Stufe = s /\ kette.lauf \in Laeufe
    BY <1>4 DEF Prozess, BuchInv
  <2>2. CASE (\E wert \in GanzeAusgaben(s) : datei' = MitAusgabe(s, wert)) /\ Erfolg
    <3>1. PICK wert \in GanzeAusgaben(s) : datei' = MitAusgabe(s, wert)
      BY <2>2
    <3>2. Schreibe("fertig") /\ kette' = NaechsteStufe("fertig")
      BY <2>2 DEF Erfolg
    <3>3. /\ DOMAIN datei'.vor = Vorstufen /\ DOMAIN datei'.lauf = Laeufe
          /\ \A t \in Prozessstufen \ {s} : (Ganz(t)' <=> Ganz(t)) /\ (Liegt(t)' <=> Liegt(t))
          /\ Ganz(s)'
      BY <2>1, <3>1, OutputsAreApart DEF BuchInv
    <3>4. /\ DOMAIN kette' = DOMAIN kette /\ kette'.lauf = kette.lauf
          /\ kette'.stand = [kette.stand EXCEPT ![Stufe] = "fertig"]
          /\ kette'.pc \in {"stufe", "ende"}
      BY <3>2 DEF NaechsteStufe, BuchInv
    <3>5. "fertig" \in Stati \ {"offen"}
      BY DEF Stati
    <3> QED
      BY <2>1, <3>2, <3>3, <3>4, <3>5, BookIsWritten
  <2>3. CASE datei' \in {datei, MitAusgabe(s, HalbeAusgabe(s))} /\ Scheitert
    <3>1. Schreibe("gescheitert") /\ kette' = KetteAus
      BY <2>3 DEF Scheitert, KetteAus
    <3>2. /\ DOMAIN datei'.vor = Vorstufen /\ DOMAIN datei'.lauf = Laeufe
          /\ \A t \in Prozessstufen \ {s} : (Ganz(t)' <=> Ganz(t)) /\ (Liegt(t)' <=> Liegt(t))
      BY <2>1, <2>3, OutputsAreApart, OutputsStay DEF BuchInv
    <3>3. "gescheitert" \in Stati \ {"offen"} /\ "gescheitert" # "fertig"
      BY DEF Stati
    <3> QED
      BY <2>1, <3>1, <3>2, <3>3, BookIsWritten
  <2> QED
    BY <1>4, <2>2, <2>3 DEF Prozess
<1>5. CASE FuehreZusammenLies
  <2>1. /\ kette.pc # "aus" /\ Stufe = "zusammenfuehrung" /\ datei' = datei
    BY <1>5 DEF FuehreZusammenLies
  <2>2. CASE Scheitert
    <3>1. Schreibe("gescheitert") /\ kette' = KetteAus
      BY <2>2 DEF Scheitert, KetteAus
    <3>2. /\ DOMAIN datei'.vor = Vorstufen /\ DOMAIN datei'.lauf = Laeufe
          /\ \A t \in Prozessstufen : (Ganz(t)' <=> Ganz(t)) /\ (Liegt(t)' <=> Liegt(t))
      BY <2>1, OutputsStay DEF BuchInv
    <3>3. "gescheitert" \in Stati \ {"offen"} /\ "gescheitert" # "fertig"
      BY DEF Stati
    <3> QED
      BY <2>1, <3>1, <3>2, <3>3, BookIsWritten
  <2>3. ASSUME NEW neu, kette' = [kette EXCEPT !.pc = "schreibt", !.saetze = neu], UNCHANGED zustand
        PROVE  BuchInv'
    <3>1. /\ DOMAIN kette' = DOMAIN kette /\ kette'.lauf = kette.lauf /\ kette'.nummer = kette.nummer
          /\ kette'.stand = kette.stand /\ kette'.pc = "schreibt"
      BY <2>3 DEF BuchInv
    <3>2. Stand' = Stand /\ Stufe' = Stufe
      BY <2>3, <3>1 DEF Stand, Stufe
    <3>3. \A t \in Prozessstufen : (Ganz(t)' <=> Ganz(t)) /\ (Liegt(t)' <=> Liegt(t))
      BY <2>1, OutputsStay
    <3> QED
      BY <2>1, <3>1, <3>2, <3>3 DEF BuchInv
  <2> QED
    BY <1>5, <2>2, <2>3 DEF FuehreZusammenLies
<1>6. CASE FuehreZusammenSchreibe
  <2>1. /\ kette.pc # "aus" /\ Stufe = "zusammenfuehrung" /\ Schreibe("fertig")
        /\ kette' = NaechsteStufe("fertig")
        /\ datei' = [datei EXCEPT !.kandidaten = kette.saetze]
    BY <1>6 DEF FuehreZusammenSchreibe, Erfolg, BuchInv
  <2>2. datei'.vor = datei.vor /\ datei'.lauf = datei.lauf /\ datei'.buendel = datei.buendel
    BY <2>1 DEF ChainTypeOK
  <2>3. \A t \in Prozessstufen : t # Stufe /\ (Ganz(t)' <=> Ganz(t)) /\ (Liegt(t)' <=> Liegt(t))
    BY <2>1, <2>2, OutputsStay, StagesDiffer DEF Prozessstufen
  <2>4. /\ DOMAIN kette' = DOMAIN kette /\ kette'.lauf = kette.lauf
        /\ kette'.stand = [kette.stand EXCEPT ![Stufe] = "fertig"]
        /\ kette'.pc \in {"stufe", "ende"}
    BY <2>1 DEF NaechsteStufe, BuchInv
  <2>5. DOMAIN datei'.vor = Vorstufen /\ DOMAIN datei'.lauf = Laeufe /\ "fertig" \in Stati \ {"offen"}
    BY <2>2 DEF BuchInv, Stati
  <2> QED
    BY <2>1, <2>3, <2>4, <2>5, BookIsWritten
<1>7. CASE KetteFertig
  BY <1>7, BookStays DEF KetteFertig
<1>8. CASE KetteStirbt
  <2>1. kette' = KetteAus /\ UNCHANGED zustand
    BY <1>8 DEF KetteStirbt
  <2>2. CASE UNCHANGED datei
    BY <2>1, <2>2, BookStays
  <2>3. ASSUME NEW s \in Prozessstufen, kette.pc = "laeuft", Stufe = s,
               datei' = MitAusgabe(s, HalbeAusgabe(s))
        PROVE  BuchInv'
    <3>1. Stand[s] = "laeuft" /\ kette.lauf \in Laeufe
      BY <2>3 DEF BuchInv
    <3>2. /\ DOMAIN datei'.vor = Vorstufen /\ DOMAIN datei'.lauf = Laeufe
          /\ \A t \in Prozessstufen \ {s} : (Ganz(t)' <=> Ganz(t)) /\ (Liegt(t)' <=> Liegt(t))
      BY <2>3, <3>1, OutputsAreApart DEF BuchInv
    <3>3. Stand' = Stand
      BY <2>1 DEF Stand
    <3> QED
      BY <2>1, <3>1, <3>2, <3>3 DEF BuchInv, KetteAus
  <2> QED
    BY <1>8, <2>2, <2>3 DEF KetteStirbt
<1> QED
  BY <1>1, <1>2, <1>3, <1>4, <1>5, <1>6, <1>7, <1>8 DEF Kette

\* Page and judgment run touch neither the outputs of the chain nor its book-keeping.
LEMMA OthersKeepTheBook ==
    ASSUME ChainInv, BuchInv, Seite \/ Lauf
    PROVE  BuchInv'
<1>1. UNCHANGED <<kette, zustand>>
  BY DEF Seite, Lauf, StarteSeite, Anfrage, Laden, Speichern, StarteLauf, SeiteStartetNicht, StrgCLauf,
     WarteAufKind, BeendeKind, Auswahl, BeginneBau, BaueShort, BauEndet
<1>2. datei'.vor = datei.vor /\ datei'.lauf = datei.lauf /\ datei'.buendel = datei.buendel
  <2>1. CASE Seite
    BY <2>1, PageKeeps
  <2>2. CASE Auswahl
    BY <2>2 DEF Auswahl, ChainInv, ChainTypeOK
  <2>3. CASE BeginneBau
    BY <2>3 DEF BeginneBau, ChainInv, ChainTypeOK
  <2>4. CASE BeendeKind
    BY <2>4 DEF BeendeKind
  <2> QED
    BY <2>1, <2>2, <2>3, <2>4 DEF Lauf, StarteLauf, SeiteStartetNicht, StrgCLauf, WarteAufKind,
       BaueShort, BauEndet
<1> QED
  BY <1>1, <1>2, BookStays

\* What the book-keeping calls done is whole, for any stages, runs and starts, and whichever
\* of them fail or are killed while they write.
THEOREM DoneIsAlwaysWhole == ChainSpec => []DoneIsWhole
<1>1. ChainInit => BuchInv
  <2> SUFFICES ASSUME ChainInit PROVE BuchInv
    OBVIOUS
  <2>1. Stand = LeererZustand /\ Stand \in [Buchstufen -> Stati]
    BY DEF ChainInit, Stand, LeererZustand, Stati
  <2>2. \A s \in Prozessstufen : Stand[s] = "offen" /\ ~Liegt(s)
    <3>1. Saetze = {}
      BY DEF ChainInit, Saetze
    <3> QED
      BY <2>1, <3>1, StagesDiffer DEF ChainInit, Liegt, Prozessstufen, LeererZustand, Buchstufen
  <2>3. /\ DOMAIN datei.vor = Vorstufen /\ DOMAIN datei.lauf = Laeufe /\ kette.pc = "aus"
        /\ DOMAIN kette = {"pc", "nummer", "ab", "bis", "lauf", "stand", "saetze"}
    BY DEF ChainInit, KetteAus
  <2> QED
    BY <2>1, <2>2, <2>3 DEF BuchInv
<1>2. ChainInv /\ BuchInv /\ [ChainNext]_chainVars => BuchInv'
  <2>1. CASE UNCHANGED chainVars
    BY <2>1, BookStays DEF chainVars
  <2> QED
    BY <2>1, ChainKeepsTheBook, OthersKeepTheBook DEF ChainNext, ChainInv
<1>3. BuchInv => DoneIsWhole
  BY DEF BuchInv, DoneIsWhole, Stand
<1> QED
  BY <1>1, <1>2, <1>3, ChainInductive, PTL DEF ChainSpec


-----------------------------------------------------------------------------
(* The boundaries of a short.                                              *)

Tone == Seq({"still", "pause", "voice"})

LEMMA LeastOfTimes ==
    ASSUME NEW S \in SUBSET Nat, S # {}
    PROVE  SB!Min(S) \in S
BY Least DEF SB!Min

LEMMA LargestHasWitness ==
    ASSUME NEW L \in Nat, NEW S \in SUBSET (1..L), S # {}
    PROVE  \E x \in S : \A y \in S : x >= y
<1> DEFINE T == {n \in Nat : L - n \in S}
<1>1. T \in SUBSET Nat
  OBVIOUS
<1>2. T # {}
  <2>1. PICK m \in S : TRUE
    OBVIOUS
  <2>2. m \in Nat /\ L - m \in Nat /\ L - (L - m) = m
    BY SMT
  <2> QED
    BY <2>1, <2>2
<1>3. PICK n \in T : \A k \in T : n <= k
  BY <1>1, <1>2, Least
<1>4. n \in Nat /\ L - n \in S
  OBVIOUS
<1>5. \A m \in S : m <= L - n
  <2> TAKE m \in S
  <2>1. m \in Nat /\ L - m \in Nat /\ L - (L - m) = m
    BY SMT
  <2>2. L - m \in T
    BY <2>1
  <2> QED
    BY <1>3, <1>4, <2>1, <2>2
<1> QED
  BY <1>4, <1>5

LEMMA LargestOfTimes ==
    ASSUME NEW L \in Nat, NEW S \in SUBSET (1..L), S # {}
    PROVE  SB!Max(S) \in S
BY LargestHasWitness DEF SB!Max

\* A place is none, not measurable or a block.
Place == Nat \cup {SB!None, SB!Failed}

LEMMA PlacesDiffer == SB!None \notin Nat /\ SB!Failed \notin Nat /\ SB!None # SB!Failed
BY DEF SB!None, SB!Failed

\* The first answer counts unless there is none.
LEMMA FirstOfTwo ==
    ASSUME NEW x, NEW y
    PROVE  SB!FirstOf(<<x, y>>) = IF x # SB!None THEN x ELSE y
<1> DEFINE a == <<x, y>>
           there == {i \in DOMAIN a : a[i] # SB!None}
<1>1. DOMAIN a = {1, 2} /\ a[1] = x /\ a[2] = y
  OBVIOUS
<1>2. CASE x # SB!None
  <2>1. 1 \in there /\ \A j \in there : 1 <= j
    BY <1>1, <1>2
  <2>2. \A j \in there : (\A i \in there : j <= i) => j = 1
    <3> SUFFICES ASSUME NEW j \in there, \A i \in there : j <= i PROVE j = 1
      OBVIOUS
    <3>1. j <= 1 /\ j \in {1, 2}
      BY <1>1, <2>1
    <3> QED
      BY <3>1
  <2>3. SB!Min(there) = 1
    BY <2>1, <2>2 DEF SB!Min
  <2>4. there # {}
    BY <2>1
  <2> QED
    BY <1>1, <1>2, <2>3, <2>4 DEF SB!FirstOf
<1>3. CASE x = SB!None /\ y # SB!None
  <2>1. there = {2}
    BY <1>1, <1>3
  <2>2. SB!Min(there) = 2
    BY <2>1 DEF SB!Min
  <2> QED
    BY <1>1, <1>3, <2>1, <2>2 DEF SB!FirstOf
<1>4. CASE x = SB!None /\ y = SB!None
  <2>1. there = {}
    BY <1>1, <1>4
  <2> QED
    BY <1>4, <2>1 DEF SB!FirstOf
<1> QED
  BY <1>2, <1>3, <1>4

LEMMA TimesOfShorts ==
    /\ WORTENDE_FALLBACK \in Nat
    /\ START_EINSATZ_SUCHE \in Nat
    /\ TON_EINBLENDE \in Nat
    /\ MIN_NACHKLANG \in Nat
    /\ MIN_SPAN \in Nat
    /\ LOOP_PAD \in Nat
    /\ MAX_SHIFT \in Nat
    /\ VORLAUF_REST \in Nat
    /\ VORLAUF_SUCHE_MAX \in Nat
    /\ NACHBARRAND_SUCHE \in Nat
    /\ Half \in Nat
BY BoundariesAssumption, Zenon

-----------------------------------------------------------------------------
\* What is measured lies among the blocks of the tone.
LEMMA WindowIsOfTone ==
    ASSUME NEW tone \in Tone, NEW mark, NEW before, NEW width
    PROVE  SB!Window(tone, mark, before, width) \subseteq 1..Len(tone)
BY DEF SB!Window, Tone

LEMMA PausesAreOfWindow ==
    ASSUME NEW tone, NEW window, NEW least
    PROVE  \A r \in SB!Pauses(tone, window, least) : r[1] \in window /\ r[2] \in window
BY DEF SB!Pauses, SB!quiet_regions

LEMMA CappedIsBelow ==
    ASSUME NEW x \in Nat, NEW limit \in Nat \cup {SB!None}
    PROVE  /\ SB!Capped(x, limit) \in Nat
           /\ limit # SB!None => SB!Capped(x, limit) <= limit
BY PlacesDiffer DEF SB!Capped, SB!Smaller

LEMMA RaisedIsAbove ==
    ASSUME NEW x \in Nat, NEW limit \in Nat \cup {SB!None}
    PROVE  /\ SB!Raised(x, limit) \in Nat
           /\ limit # SB!None => SB!Raised(x, limit) >= limit
BY PlacesDiffer DEF SB!Raised, SB!Larger

\* The end of a word that a pause shows is not behind its limit.
LEMMA PauseShowsEnd ==
    ASSUME NEW tone \in Tone, NEW mark, NEW limit \in Nat \cup {SB!None}
    PROVE  /\ SB!finde_wortrand_ende(tone, mark, limit) \in Place
           /\ limit # SB!None => \/ SB!finde_wortrand_ende(tone, mark, limit) \in {SB!None, SB!Failed}
                                 \/ SB!finde_wortrand_ende(tone, mark, limit) <= limit
<1> DEFINE window == SB!Window(tone, mark, 0, WORTENDE_SUCHE_MAX)
           pauses == SB!Pauses(tone, window, PAUSE_ENDE)
           firsts == {r[1] : r \in pauses}
<1>1. window \subseteq 1..Len(tone) /\ Len(tone) \in Nat
  BY WindowIsOfTone DEF Tone
<1>2. firsts \in SUBSET Nat
  BY <1>1, PausesAreOfWindow
<1>3. CASE window = {}
  BY <1>3 DEF SB!finde_wortrand_ende, Place
<1>4. CASE window # {} /\ pauses = {}
  BY <1>4 DEF SB!finde_wortrand_ende, Place
<1>5. CASE window # {} /\ pauses # {}
  <2>1. firsts # {}
    BY <1>5
  <2>2. SB!Min(firsts) \in Nat
    BY <1>2, <2>1, LeastOfTimes
  <2>3. SB!finde_wortrand_ende(tone, mark, limit) = SB!Capped(SB!Min(firsts), limit)
    BY <1>5 DEF SB!finde_wortrand_ende
  <2> QED
    BY <2>2, <2>3, CappedIsBelow DEF Place
<1> QED
  BY <1>3, <1>4, <1>5

\* The beginning of a word that a pause shows is not before its limit.
LEMMA PauseShowsBeginning ==
    ASSUME NEW tone \in Tone, NEW mark, NEW limit \in Nat \cup {SB!None}
    PROVE  /\ SB!finde_wortrand_anfang(tone, mark, limit) \in Place
           /\ limit # SB!None => \/ SB!finde_wortrand_anfang(tone, mark, limit) \in {SB!None, SB!Failed}
                                 \/ SB!finde_wortrand_anfang(tone, mark, limit) >= limit
<1> DEFINE window == SB!Window(tone, mark, WORTENDE_SUCHE, 2 * WORTENDE_SUCHE + ANFANG_VOR)
                        \cap 0 .. mark + ANFANG_VOR
           pauses == SB!Pauses(tone, window, PAUSE_ANFANG)
           lasts == {r[2] : r \in pauses}
<1>1. window \subseteq 1..Len(tone) /\ Len(tone) \in Nat
  BY WindowIsOfTone DEF Tone
<1>2. lasts \in SUBSET (1..Len(tone))
  BY <1>1, PausesAreOfWindow
<1>3. CASE window = {}
  BY <1>3 DEF SB!finde_wortrand_anfang, Place
<1>4. CASE window # {} /\ pauses = {}
  BY <1>4 DEF SB!finde_wortrand_anfang, Place
<1>5. CASE window # {} /\ pauses # {}
  <2>1. lasts # {}
    BY <1>5
  <2>0. SB!Max(lasts) \in lasts
    BY <1>1, <1>2, <2>1, LargestOfTimes
  <2>2. SB!Max(lasts) \in Nat
    <3> HIDE DEF lasts
    <3>1. SB!Max(lasts) \in 1..Len(tone)
      BY <1>2, <2>0
    <3> QED
      BY <1>1, <3>1
  <2>3. SB!finde_wortrand_anfang(tone, mark, limit) = SB!Raised(SB!Max(lasts), limit)
    BY <1>5 DEF SB!finde_wortrand_anfang
  <2> QED
    BY <2>2, <2>3, RaisedIsAbove DEF Place
<1> QED
  BY <1>3, <1>4, <1>5

LEMMA ChangeIsOfWindow ==
    ASSUME NEW tone, NEW window \in SUBSET Nat, NEW from, NEW loud, NEW tolerance
    PROVE  SB!folge_bis_wechsel(tone, window, from, loud, tolerance) \in window \cup {SB!None}
<1> DEFINE change == {p \in window : /\ p >= from /\ p + tolerance \in window
                                     /\ \A q \in p .. p + tolerance : SB!IsLoud(tone[q]) # loud}
<1>1. change \in SUBSET Nat /\ change \subseteq window
  OBVIOUS
<1>2. CASE change = {}
  BY <1>2 DEF SB!folge_bis_wechsel
<1>3. CASE change # {}
  <2>1. SB!Min(change) \in window
    BY <1>1, <1>3, LeastOfTimes
  <2> HIDE DEF change
  <2> QED
    BY <1>3, <2>1 DEF SB!folge_bis_wechsel, change
<1> QED
  BY <1>2, <1>3

LEMMA SoundShowsEnd ==
    ASSUME NEW tone \in Tone, NEW mark \in Nat, NEW limit \in Nat \cup {SB!None}
    PROVE  SB!finde_wortende_ton(tone, mark, limit) \in Nat \cup {SB!Failed}
<1> DEFINE window == SB!Window(tone, mark, WORTENDE_SUCHE, WORTENDE_SUCHE + WORTENDE_SUCHE_MAX)
           anchor == SB!Anchor(window, mark)
           fades == SB!folge_bis_wechsel(tone, window, anchor, TRUE, WORTENDE_UNTERBRECHUNG_MAX)
<1>1. window \in SUBSET Nat
  BY WindowIsOfTone DEF Tone
<1>2. fades \in Nat \cup {SB!None}
  BY <1>1, ChangeIsOfWindow
<1>3. mark + WORTENDE_FALLBACK \in Nat
  BY TimesOfShorts
<1>4. \A x \in Nat : SB!Capped(x, limit) \in Nat
  BY CappedIsBelow
<1> HIDE DEF window, anchor, fades
<1>5. SB!finde_wortende_ton(tone, mark, limit) =
        IF window = {} THEN SB!Failed
        ELSE IF ~SB!IsLoud(tone[anchor]) THEN SB!Capped(mark, limit)
        ELSE IF fades = SB!None THEN SB!Capped(mark + WORTENDE_FALLBACK, limit)
        ELSE SB!Capped(fades, limit)
  BY DEF SB!finde_wortende_ton, window, anchor, fades
<1> QED
  BY <1>2, <1>3, <1>4, <1>5

LEMMA SoundShowsBeginning ==
    ASSUME NEW tone \in Tone, NEW mark \in Nat
    PROVE  SB!finde_worteinsatz_ton(tone, mark) \in Nat \cup {SB!Failed}
<1> DEFINE window == SB!Window(tone, mark, WORTENDE_SUCHE, WORTENDE_SUCHE + START_EINSATZ_SUCHE)
           anchor == SB!Anchor(window, mark)
           sets_in == SB!folge_bis_wechsel(tone, window, anchor, FALSE, EINSATZ_BESTAETIGUNG)
<1>1. window \in SUBSET Nat
  BY WindowIsOfTone DEF Tone
<1>2. sets_in \in Nat \cup {SB!None}
  BY <1>1, ChangeIsOfWindow
<1>3. \A x \in Nat : SB!Smaller(x, mark + START_EINSATZ_SUCHE) \in Nat
  BY TimesOfShorts DEF SB!Smaller
<1> HIDE DEF window, anchor, sets_in
<1>4. SB!finde_worteinsatz_ton(tone, mark) =
        IF window = {} THEN SB!Failed
        ELSE IF SB!IsLoud(tone[anchor]) \/ sets_in = SB!None THEN mark
        ELSE SB!Smaller(sets_in, mark + START_EINSATZ_SUCHE)
  BY DEF SB!finde_worteinsatz_ton, window, anchor, sets_in
<1> QED
  BY <1>2, <1>3, <1>4

-----------------------------------------------------------------------------
\* The words of a transcript, and what snapping makes of a span.
Transcript == {words \in Seq([start : Nat, end : Nat]) : SB!InOrder(words)}

IsBoundary(b) ==
    /\ b.start \in Int /\ b.end \in Int
    /\ b.end - b.start >= MIN_SPAN
    /\ b.pause_before \in Nat \cup {SB!None}
    /\ b.pause_after \in Nat \cup {SB!None}
    /\ SB!WordStart(b) \in Nat
    /\ SB!WordEnd(b) \in Nat
    /\ b.pause_before # SB!None => SB!WordStart(b) - b.pause_before \in Nat
    /\ b.pause_after # SB!None => SB!WordEnd(b) + b.pause_after \in Nat

\* A snapped boundary is the edge of a word of the list.
LEMMA SnappedStart ==
    ASSUME NEW words \in Transcript, NEW first, NEW last, SB!snap_start(words, first, last) # SB!None
    PROVE  SB!snap_start(words, first, last) \in DOMAIN words
<1> DEFINE inside == SB!Inside(words, first, last)
           before == {i \in DOMAIN words : words[i].start <= first}
           near == {i \in before : i = SB!Max(before)
                                   /\ first - words[i].start <= EINSCHLUSS_TOLERANZ}
           chosen == (IF inside = {} THEN {} ELSE {SB!Min(inside)}) \cup near
<1>1. DOMAIN words \in SUBSET Nat /\ inside \subseteq DOMAIN words /\ near \subseteq DOMAIN words
  BY DEF Transcript, SB!Inside
<1>2. inside # {} => SB!Min(inside) \in inside
  BY <1>1, LeastOfTimes
<1>3. chosen \subseteq DOMAIN words
  BY <1>1, <1>2
<1>4. SB!snap_start(words, first, last) = IF chosen = {} THEN SB!None ELSE SB!Min(chosen)
  BY DEF SB!snap_start
<1>5. chosen # {} => SB!Min(chosen) \in chosen
  BY <1>1, <1>3, LeastOfTimes
<1> HIDE DEF chosen
<1> QED
  BY <1>3, <1>4, <1>5

LEMMA SnappedEnd ==
    ASSUME NEW words \in Transcript, NEW first, NEW last, SB!snap_end(words, first, last) # SB!None
    PROVE  SB!snap_end(words, first, last) \in DOMAIN words
<1> DEFINE inside == SB!Inside(words, first, last)
           after == {i \in DOMAIN words : words[i].end >= last}
           near == {i \in after : i = SB!Min(after) /\ words[i].end - last <= EINSCHLUSS_TOLERANZ}
           chosen == (IF inside = {} THEN {} ELSE {SB!Max(inside)}) \cup near
<1>1. /\ Len(words) \in Nat
      /\ DOMAIN words = 1..Len(words)
      /\ inside \in SUBSET (1..Len(words))
      /\ near \in SUBSET (1..Len(words))
  BY DEF Transcript, SB!Inside
<1>2. inside # {} => SB!Max(inside) \in inside
  BY <1>1, LargestOfTimes
<1>3. chosen \in SUBSET (1..Len(words))
  BY <1>1, <1>2
<1>4. SB!snap_end(words, first, last) = IF chosen = {} THEN SB!None ELSE SB!Max(chosen)
  BY DEF SB!snap_end
<1>5. chosen # {} => SB!Max(chosen) \in chosen
  BY <1>1, <1>3, LargestOfTimes
<1> HIDE DEF chosen
<1> QED
  BY <1>1, <1>3, <1>4, <1>5

LEMMA ElementsAreOf ==
    ASSUME NEW S, NEW w \in Seq(S), NEW j \in DOMAIN w
    PROVE  w[j] \in S
OBVIOUS

LEMMA PauseBetweenWords ==
    ASSUME NEW words \in Transcript, NEW i \in DOMAIN words
    PROVE  /\ words[i].start \in Nat /\ words[i].end \in Nat
           /\ i # 1 => words[i].start - words[i - 1].end \in Nat /\ words[i - 1].end \in Nat
           /\ i # Len(words) => words[i + 1].start - words[i].end \in Nat /\ words[i + 1].start \in Nat
<1>1. DOMAIN words = 1..Len(words) /\ Len(words) \in Nat
  BY DEF Transcript
<1>2. \A j \in DOMAIN words : words[j] \in [start : Nat, end : Nat]
  <2>1. words \in Seq([start : Nat, end : Nat])
    BY DEF Transcript
  <2> QED
    BY <2>1, ElementsAreOf
<1>3. \A j \in DOMAIN words : j + 1 \in DOMAIN words => words[j].end <= words[j + 1].start
  BY DEF Transcript, SB!InOrder
<1>4. i # 1 => i - 1 \in DOMAIN words /\ (i - 1) + 1 = i
  BY <1>1
<1>5. i # Len(words) => i + 1 \in DOMAIN words
  BY <1>1
<1>6. i # 1 => words[i - 1].end <= words[i].start
  BY <1>3, <1>4
<1>7. i # Len(words) => words[i].end <= words[i + 1].start
  BY <1>3, <1>5
<1>8. words[i].start \in Nat /\ words[i].end \in Nat
  BY <1>2
<1>9. i # 1 => words[i - 1].end \in Nat
  BY <1>2, <1>4
<1>10. i # Len(words) => words[i + 1].start \in Nat
  BY <1>2, <1>5
<1> QED
  BY <1>6, <1>7, <1>8, <1>9, <1>10

LEMMA PaddedSpan ==
    ASSUME NEW ws \in Nat, NEW we \in Nat, NEW p \in Nat, NEW q \in Nat, NEW least \in Nat,
           ~(we + q - ws + p < least)
    PROVE  ws - p \in Int /\ we + q \in Int /\ (we + q) - (ws - p) >= least
OBVIOUS

LEMMA SnappedShape ==
    ASSUME NEW words \in Transcript, NEW first, NEW last,
           SB!rasten_auf_wortgrenzen(words, first, last).snapped
    PROVE  IsBoundary(SB!rasten_auf_wortgrenzen(words, first, last))
<1> DEFINE b == SB!rasten_auf_wortgrenzen(words, first, last)
           s == SB!snap_start(words, first, last)
           e == SB!snap_end(words, first, last)
           before == IF s = 1 THEN SB!None ELSE words[s].start - words[s - 1].end
           after == IF e = Len(words) THEN SB!None ELSE words[e + 1].start - words[e].end
           pad(pause) == IF pause = SB!None THEN LOOP_PAD ELSE SB!Smaller(LOOP_PAD, pause)
           tooFar(x, y) == x - y > MAX_SHIFT \/ y - x > MAX_SHIFT
           span == words[e].end + pad(after) - words[s].start + pad(before)
           snapped == [snapped |-> TRUE, start |-> words[s].start - pad(before),
                       end |-> words[e].end + pad(after), pause_before |-> before,
                       pause_after |-> after]
<1>1. b = IF s = SB!None \/ e = SB!None THEN SB!NotSnappable
          ELSE IF tooFar(words[s].start, first) \/ tooFar(words[e].end, last) THEN SB!NotSnappable
          ELSE IF span < MIN_SPAN THEN SB!NotSnappable
          ELSE snapped
  BY DEF SB!rasten_auf_wortgrenzen
<1>2. ~SB!NotSnappable.snapped
  BY DEF SB!NotSnappable
<1> HIDE DEF s, e, before, after, pad, tooFar, span, snapped
<1>3. s # SB!None /\ e # SB!None /\ ~(span < MIN_SPAN) /\ b = snapped
  BY <1>1, <1>2, Zenon
<1> USE DEF s, e
<1>4. s \in DOMAIN words /\ e \in DOMAIN words
  BY <1>3, SnappedStart, SnappedEnd
<1> HIDE DEF s, e
<1>5. /\ words[s].start \in Nat /\ words[e].end \in Nat
      /\ s # 1 => words[s].start - words[s - 1].end \in Nat /\ words[s - 1].end \in Nat
      /\ e # Len(words) => words[e + 1].start - words[e].end \in Nat /\ words[e + 1].start \in Nat
  BY <1>4, PauseBetweenWords
<1>6. before \in Nat \cup {SB!None} /\ after \in Nat \cup {SB!None}
  BY <1>5 DEF before, after
<1>7. pad(before) \in Nat /\ pad(after) \in Nat
  BY <1>6, TimesOfShorts DEF pad, SB!Smaller
<1>8. /\ b.start = words[s].start - pad(before)
      /\ b.end = words[e].end + pad(after)
      /\ b.pause_before = before
      /\ b.pause_after = after
  BY <1>3 DEF snapped
<1>9. SB!WordStart(b) = b.start + pad(before)
  BY <1>8 DEF SB!WordStart, pad
<1>10. SB!WordEnd(b) = b.end - pad(after)
  BY <1>8 DEF SB!WordEnd, pad
<1>11. SB!WordStart(b) = words[s].start /\ SB!WordEnd(b) = words[e].end
  BY <1>5, <1>7, <1>8, <1>9, <1>10
<1>12. b.start \in Int /\ b.end \in Int /\ b.end - b.start >= MIN_SPAN
  <2>1. ~(words[e].end + pad(after) - words[s].start + pad(before) < MIN_SPAN) /\ MIN_SPAN \in Nat
    BY <1>3, TimesOfShorts DEF span
  <2>2. /\ words[s].start - pad(before) \in Int /\ words[e].end + pad(after) \in Int
        /\ (words[e].end + pad(after)) - (words[s].start - pad(before)) >= MIN_SPAN
    BY <1>5, <1>7, <2>1, PaddedSpan, Zenon
  <2> HIDE DEF b
  <2> QED
    BY <1>8, <2>2
<1>13. before # SB!None => words[s].start - before \in Nat
  BY <1>5, PlacesDiffer DEF before
<1>14. after # SB!None => words[e].end + after \in Nat
  BY <1>5, PlacesDiffer DEF after
<1> QED
  BY <1>5, <1>6, <1>8, <1>11, <1>12, <1>13, <1>14 DEF IsBoundary

-----------------------------------------------------------------------------
\* The own edges are times, or the tone could not be measured.
LEMMA OwnStartIsATime ==
    ASSUME NEW tone \in Tone, NEW b, IsBoundary(b)
    PROVE  SB!OwnStart(tone, b) \in Nat \cup {SB!Failed}
<1> DEFINE moved == SB!finde_stillevorlauf(tone, b.start)
           anchor == IF moved # b.start THEN moved ELSE SB!WordStart(b)
           pause == SB!finde_wortrand_anfang(tone, anchor, SB!None)
           sound == SB!finde_worteinsatz_ton(tone, SB!WordStart(b))
<1>1. pause \in Place
  BY PauseShowsBeginning
<1>2. sound \in Nat \cup {SB!Failed}
  BY SoundShowsBeginning DEF IsBoundary
<1>3. SB!OwnStart(tone, b) = IF moved = SB!Failed THEN SB!Failed ELSE SB!FirstOf(<<pause, sound>>)
  BY DEF SB!OwnStart
<1> HIDE DEF moved, pause, sound
<1> QED
  BY <1>1, <1>2, <1>3, FirstOfTwo DEF Place

LEMMA OwnEndIsATime ==
    ASSUME NEW tone \in Tone, NEW b, IsBoundary(b)
    PROVE  SB!OwnEnd(tone, b) \in Nat \cup {SB!Failed}
<1> DEFINE limit == IF b.pause_after = SB!None THEN SB!None ELSE SB!WordEnd(b) + b.pause_after
           pause == SB!finde_wortrand_ende(tone, SB!WordEnd(b), SB!None)
           sound == SB!finde_wortende_ton(tone, SB!WordEnd(b), limit)
<1>1. pause \in Place
  BY PauseShowsEnd
<1>2. limit \in Nat \cup {SB!None}
  BY DEF IsBoundary
<1>3. sound \in Nat \cup {SB!Failed}
  <2> HIDE DEF limit
  <2> QED
    BY <1>2, SoundShowsEnd DEF IsBoundary
<1>4. SB!OwnEnd(tone, b) = SB!FirstOf(<<pause, sound>>)
  BY DEF SB!OwnEnd
<1> HIDE DEF pause, sound
<1> QED
  BY <1>1, <1>3, <1>4, FirstOfTwo DEF Place

-----------------------------------------------------------------------------
\* Neighbours lie on their own side.
LEMMA NeighborFadesBefore ==
    ASSUME NEW tone \in Tone, NEW own \in Nat
    PROVE  \/ SB!finde_nachbarrand_ausklang(tone, own) \in {SB!None, SB!Failed}
           \/ SB!finde_nachbarrand_ausklang(tone, own) \in 0..own
<1> DEFINE window == SB!Window(tone, own, NACHBARRAND_SUCHE, NACHBARRAND_SUCHE) \cap 0 .. own
           pauses == SB!Pauses(tone, window, PAUSE_ANFANG)
           chosen == CHOOSE r \in pauses : \A q \in pauses : r[2] >= q[2]
           lasts == {r[2] : r \in pauses}
<1>1. /\ Len(tone) \in Nat
      /\ window \in SUBSET (1..Len(tone))
      /\ window \subseteq 0..own
  BY WindowIsOfTone DEF Tone
<1>2. \A r \in pauses : r[1] \in window /\ r[2] \in window
  BY PausesAreOfWindow
<1>3. SB!finde_nachbarrand_ausklang(tone, own) =
        IF window = {} THEN SB!Failed ELSE IF pauses = {} THEN SB!None ELSE chosen[1]
  BY DEF SB!finde_nachbarrand_ausklang
<1>4. ASSUME pauses # {} PROVE chosen \in pauses
  <2>1. lasts \in SUBSET (1..Len(tone)) /\ lasts # {}
    BY <1>1, <1>2, <1>4
  <2>2. PICK x \in lasts : \A y \in lasts : x >= y
    BY <1>1, <2>1, LargestHasWitness
  <2>3. \E r \in pauses : \A q \in pauses : r[2] >= q[2]
    BY <2>2
  <2> QED
    BY <2>3
<1> HIDE DEF window, pauses, chosen
<1> QED
  BY <1>1, <1>2, <1>3, <1>4

LEMMA NeighborSetsInAfter ==
    ASSUME NEW tone \in Tone, NEW own \in Nat
    PROVE  \/ SB!finde_nachbarrand_einsatz(tone, own) \in {SB!None, SB!Failed}
           \/ /\ SB!finde_nachbarrand_einsatz(tone, own) \in Nat
              /\ SB!finde_nachbarrand_einsatz(tone, own) >= own
<1> DEFINE window == SB!Window(tone, own, 0, NACHBARRAND_SUCHE)
           pauses == SB!Pauses(tone, window, PAUSE_ENDE)
           chosen == CHOOSE r \in pauses : \A q \in pauses : r[1] <= q[1]
           firsts == {r[1] : r \in pauses}
           begin == SB!Larger(0, own - 0 - Half) + Half
<1>1. window \in SUBSET Nat
  BY WindowIsOfTone DEF Tone
<1>2. \A r \in pauses : r[1] \in window /\ r[2] \in window
  BY PausesAreOfWindow
<1>3. begin \in Nat /\ begin >= own
  BY TimesOfShorts DEF SB!Larger
<1>4. window \subseteq begin .. begin + NACHBARRAND_SUCHE
  BY DEF SB!Window
<1>5. SB!finde_nachbarrand_einsatz(tone, own) =
        IF window = {} THEN SB!Failed ELSE IF pauses = {} THEN SB!None ELSE chosen[2]
  BY DEF SB!finde_nachbarrand_einsatz
<1>6. ASSUME pauses # {} PROVE chosen \in pauses
  <2>1. firsts \in SUBSET Nat /\ firsts # {}
    BY <1>1, <1>2, <1>6
  <2>2. PICK x \in firsts : \A y \in firsts : x <= y
    BY <2>1, Least
  <2>3. \E r \in pauses : \A q \in pauses : r[1] <= q[1]
    BY <2>2
  <2> QED
    BY <2>3
<1> HIDE DEF window, pauses, chosen, begin
<1>7. \A p \in window : p \in Nat /\ p >= own
  BY <1>1, <1>3, <1>4, TimesOfShorts
<1> QED
  BY <1>2, <1>5, <1>6, <1>7

\* What was measured of a neighbour does not pass the own edge.
LEMMA MeasuredEndIsBefore ==
    ASSUME NEW tone \in Tone, NEW b, IsBoundary(b), b.pause_before # SB!None,
           SB!OwnStart(tone, b) \in Nat
    PROVE  \/ SB!MeasuredEndBefore(tone, b) \in {SB!None, SB!Failed}
           \/ SB!MeasuredEndBefore(tone, b) \in 0..SB!OwnStart(tone, b)
<1> DEFINE own == SB!OwnStart(tone, b)
           fades == IF b.pause_before <= 0 THEN SB!finde_nachbarrand_ausklang(tone, own) ELSE SB!None
           ends == SB!finde_wortrand_ende(tone, SB!WordStart(b) - b.pause_before, own)
<1>1. own \in Nat
  OBVIOUS
<1>2. SB!MeasuredEndBefore(tone, b) = SB!FirstOf(<<fades, ends>>)
  BY DEF SB!MeasuredEndBefore
<1> HIDE DEF own
<1>3. fades \in {SB!None, SB!Failed} \/ fades \in 0..own
  BY <1>1, NeighborFadesBefore
<1>4. ends \in {SB!None, SB!Failed} \/ ends \in 0..own
  BY <1>1, PauseShowsEnd, PlacesDiffer DEF Place
<1> HIDE DEF fades, ends
<1>5. SB!FirstOf(<<fades, ends>>) \in {SB!None, SB!Failed} \/ SB!FirstOf(<<fades, ends>>) \in 0..own
  BY <1>3, <1>4, FirstOfTwo
<1> QED
  BY <1>2, <1>5 DEF own

LEMMA MeasuredStartIsAfter ==
    ASSUME NEW tone \in Tone, NEW b, IsBoundary(b), b.pause_after # SB!None,
           SB!OwnEnd(tone, b) \in Nat
    PROVE  \/ SB!MeasuredStartAfter(tone, b) \in {SB!None, SB!Failed}
           \/ /\ SB!MeasuredStartAfter(tone, b) \in Nat
              /\ SB!MeasuredStartAfter(tone, b) >= SB!OwnEnd(tone, b)
<1> DEFINE own == SB!OwnEnd(tone, b)
           sets == IF b.pause_after <= 0 THEN SB!finde_nachbarrand_einsatz(tone, own) ELSE SB!None
           begins == SB!finde_wortrand_anfang(tone, SB!WordEnd(b) + b.pause_after, own)
           After(x) == x \in {SB!None, SB!Failed} \/ (x \in Nat /\ x >= own)
<1>1. own \in Nat
  OBVIOUS
<1>2. SB!MeasuredStartAfter(tone, b) = SB!FirstOf(<<sets, begins>>)
  BY DEF SB!MeasuredStartAfter
<1> HIDE DEF own
<1>3. After(sets)
  BY <1>1, NeighborSetsInAfter
<1>4. After(begins)
  BY <1>1, PauseShowsBeginning, PlacesDiffer DEF Place
<1> HIDE DEF sets, begins, After
<1>5. After(SB!FirstOf(<<sets, begins>>))
  BY <1>3, <1>4, FirstOfTwo
<1> QED
  BY <1>2, <1>5 DEF own, After

-----------------------------------------------------------------------------
\* The middle of two times lies between them.
LEMMA Middle ==
    ASSUME NEW x \in Nat, NEW y \in Nat, x <= y
    PROVE  /\ (x + y) \div 2 \in x..y
           /\ (y + x) \div 2 \in x..y
OBVIOUS

LEMMA StartBoundaryBetween ==
    ASSUME NEW tone \in Tone, NEW b, IsBoundary(b),
           SB!OwnStart(tone, b) \in Nat, SB!NeighborEnd(tone, b) # SB!Failed,
           b.pause_before = SB!None \/ SB!MeasuredEndBefore(tone, b) # SB!None
    PROVE  /\ SB!StartBoundary(tone, b) <= SB!OwnStart(tone, b)
           /\ SB!NeighborEnd(tone, b) # SB!None
              => SB!StartBoundary(tone, b) >= SB!NeighborEnd(tone, b)
<1> DEFINE own == SB!OwnStart(tone, b)
           neighbor == SB!NeighborEnd(tone, b)
           measured == SB!MeasuredEndBefore(tone, b)
           start == SB!StartBoundary(tone, b)
<1>1. start = IF neighbor # SB!None /\ neighbor >= own - TON_EINBLENDE
              THEN (neighbor + own) \div 2 ELSE own - TON_EINBLENDE
  BY DEF SB!StartBoundary
<1>2. own \in Nat /\ TON_EINBLENDE \in Nat /\ neighbor # SB!Failed
  BY TimesOfShorts
<1>3. CASE b.pause_before = SB!None
  <2>1. neighbor = SB!None
    BY <1>3 DEF SB!NeighborEnd
  <2> HIDE DEF own, neighbor, start
  <2>2. start = own - TON_EINBLENDE
    BY <1>1, <2>1
  <2>3. start <= own /\ neighbor = SB!None
    BY <1>2, <2>1, <2>2
  <2> QED
    BY <2>3 DEF own, neighbor, start
<1>4. CASE b.pause_before # SB!None
  <2>1. neighbor = SB!FirstOf(<<measured, SB!WordStart(b) - b.pause_before>>)
    BY <1>4 DEF SB!NeighborEnd
  <2>2. measured # SB!None
    BY <1>4
  <2>3. neighbor = measured
    <3> HIDE DEF measured, neighbor
    <3> QED
      BY <2>1, <2>2, FirstOfTwo
  <2>4. measured \in {SB!None, SB!Failed} \/ measured \in 0..own
    BY <1>4, MeasuredEndIsBefore
  <2> HIDE DEF own, neighbor, measured, start
  <2>5. neighbor \in Nat /\ neighbor <= own
    BY <1>2, <2>2, <2>3, <2>4
  <2>6. start <= own /\ start >= neighbor
    <3>1. CASE neighbor >= own - TON_EINBLENDE
      <4>1. neighbor # SB!None
        BY <2>2, <2>3
      <4>2. start = (neighbor + own) \div 2
        BY <1>1, <3>1, <4>1
      <4> QED
        BY <1>2, <2>5, <4>2, Middle
    <3>2. CASE ~(neighbor >= own - TON_EINBLENDE)
      <4>1. start = own - TON_EINBLENDE
        BY <1>1, <3>2
      <4> QED
        BY <1>2, <2>5, <3>2, <4>1
    <3> QED
      BY <3>1, <3>2
  <2> QED
    BY <2>6 DEF own, neighbor, start
<1> QED
  BY <1>3, <1>4

LEMMA EndBoundaryBetween ==
    ASSUME NEW tone \in Tone, NEW b, IsBoundary(b),
           SB!OwnEnd(tone, b) \in Nat, SB!NeighborStart(tone, b) # SB!Failed,
           b.pause_after = SB!None \/ SB!MeasuredStartAfter(tone, b) # SB!None
    PROVE  /\ SB!EndBoundary(tone, b) >= SB!OwnEnd(tone, b)
           /\ SB!NeighborStart(tone, b) # SB!None
              => SB!EndBoundary(tone, b) <= SB!NeighborStart(tone, b)
<1> DEFINE own == SB!OwnEnd(tone, b)
           neighbor == SB!NeighborStart(tone, b)
           measured == SB!MeasuredStartAfter(tone, b)
           end == SB!EndBoundary(tone, b)
<1>1. end = IF neighbor # SB!None /\ own + MIN_NACHKLANG >= neighbor
            THEN (own + neighbor) \div 2 ELSE own + MIN_NACHKLANG
  BY DEF SB!EndBoundary
<1>2. own \in Nat /\ MIN_NACHKLANG \in Nat /\ neighbor # SB!Failed
  BY TimesOfShorts
<1>3. CASE b.pause_after = SB!None
  <2>1. neighbor = SB!None
    BY <1>3 DEF SB!NeighborStart
  <2> HIDE DEF own, neighbor, end
  <2>2. end = own + MIN_NACHKLANG
    BY <1>1, <2>1
  <2>3. end >= own /\ neighbor = SB!None
    BY <1>2, <2>1, <2>2
  <2> QED
    BY <2>3 DEF own, neighbor, end
<1>4. CASE b.pause_after # SB!None
  <2>1. neighbor = SB!FirstOf(<<measured, SB!WordEnd(b) + b.pause_after>>)
    BY <1>4 DEF SB!NeighborStart
  <2>2. measured # SB!None
    BY <1>4
  <2>3. neighbor = measured
    <3> HIDE DEF measured, neighbor
    <3> QED
      BY <2>1, <2>2, FirstOfTwo
  <2>4. measured \in {SB!None, SB!Failed} \/ (measured \in Nat /\ measured >= own)
    BY <1>4, MeasuredStartIsAfter
  <2> HIDE DEF own, neighbor, measured, end
  <2>5. neighbor \in Nat /\ neighbor >= own
    BY <1>2, <2>2, <2>3, <2>4
  <2>6. end >= own /\ end <= neighbor
    <3>1. CASE own + MIN_NACHKLANG >= neighbor
      <4>1. neighbor # SB!None
        BY <2>2, <2>3
      <4>2. end = (own + neighbor) \div 2
        BY <1>1, <3>1, <4>1
      <4> QED
        BY <1>2, <2>5, <4>2, Middle
    <3>2. CASE ~(own + MIN_NACHKLANG >= neighbor)
      <4>1. end = own + MIN_NACHKLANG
        BY <1>1, <3>2
      <4> QED
        BY <1>2, <2>5, <3>2, <4>1
    <3> QED
      BY <3>1, <3>2
  <2> QED
    BY <2>6 DEF own, neighbor, end
<1> QED
  BY <1>3, <1>4

LEMMA BoundariesAreTimes ==
    ASSUME NEW tone \in Tone, NEW b, IsBoundary(b),
           SB!OwnStart(tone, b) \in Nat, SB!NeighborEnd(tone, b) # SB!Failed,
           SB!OwnEnd(tone, b) \in Nat, SB!NeighborStart(tone, b) # SB!Failed
    PROVE  SB!StartBoundary(tone, b) \in Int /\ SB!EndBoundary(tone, b) \in Int
<1>1. SB!NeighborEnd(tone, b) \in Nat \cup {SB!None}
  <2> DEFINE measured == SB!MeasuredEndBefore(tone, b)
             transcript == SB!WordStart(b) - b.pause_before
  <2>1. b.pause_before # SB!None => measured \in Nat \cup {SB!None, SB!Failed}
    BY MeasuredEndIsBefore
  <2>2. b.pause_before # SB!None => transcript \in Nat
    BY DEF IsBoundary
  <2>3. SB!NeighborEnd(tone, b) = IF b.pause_before = SB!None THEN SB!None
                                  ELSE SB!FirstOf(<<measured, transcript>>)
    BY DEF SB!NeighborEnd
  <2> HIDE DEF measured, transcript
  <2> QED
    BY <2>1, <2>2, <2>3, FirstOfTwo
<1>2. SB!NeighborStart(tone, b) \in Nat \cup {SB!None}
  <2> DEFINE measured == SB!MeasuredStartAfter(tone, b)
             transcript == SB!WordEnd(b) + b.pause_after
  <2>1. b.pause_after # SB!None => measured \in Nat \cup {SB!None, SB!Failed}
    BY MeasuredStartIsAfter
  <2>2. b.pause_after # SB!None => transcript \in Nat
    BY DEF IsBoundary
  <2>3. SB!NeighborStart(tone, b) = IF b.pause_after = SB!None THEN SB!None
                                    ELSE SB!FirstOf(<<measured, transcript>>)
    BY DEF SB!NeighborStart
  <2> HIDE DEF measured, transcript
  <2> QED
    BY <2>1, <2>2, <2>3, FirstOfTwo
<1>3. \A x \in Nat : (SB!NeighborEnd(tone, b) + x) \div 2 \in Int \/ SB!NeighborEnd(tone, b) = SB!None
  BY <1>1
<1>4. \A x \in Nat : (x + SB!NeighborStart(tone, b)) \div 2 \in Int \/ SB!NeighborStart(tone, b) = SB!None
  BY <1>2
<1>5. SB!StartBoundary(tone, b) \in Int
  BY <1>3, TimesOfShorts DEF SB!StartBoundary
<1>6. SB!EndBoundary(tone, b) \in Int
  BY <1>4, TimesOfShorts DEF SB!EndBoundary
<1> QED
  BY <1>5, <1>6

\* Whatever the words and the tone are, the words of the short stay whole.
LEMMA BuiltIsWhole ==
    ASSUME NEW tone \in Tone, NEW b, b.snapped => IsBoundary(b)
    PROVE  SB!SpanIsWhole(tone, b, SB!apply_level_correction(tone, b))
<1> DEFINE r == SB!apply_level_correction(tone, b)
           kept == SB!Kept(b)
           first == SB!StartBoundary(tone, b)
           last == SB!EndBoundary(tone, b)
           edges == {SB!OwnEnd(tone, b), SB!OwnStart(tone, b),
                     SB!NeighborEnd(tone, b), SB!NeighborStart(tone, b)}
           built == [applied |-> TRUE, start |-> first, end |-> last]
<1> SUFFICES ASSUME b.snapped
             PROVE  SB!SpanIsWhole(tone, b, r)
  BY DEF SB!SpanIsWhole
<1>1. IsBoundary(b)
  OBVIOUS
<1>2. \/ r = kept
      \/ /\ SB!Failed \notin edges
         /\ ~(last - first < MIN_SPAN)
         /\ r = built
  BY DEF SB!apply_level_correction, SB!Corrected
<1>3. CASE r = kept
  <2>1. ~r.applied /\ r.start = b.start /\ r.end = b.end
    BY <1>3 DEF SB!Kept
  <2>2. b.end - b.start >= MIN_SPAN
    BY <1>1 DEF IsBoundary
  <2> HIDE DEF r
  <2> QED
    BY <2>1, <2>2 DEF SB!SpanIsWhole
<1>4. CASE SB!Failed \notin edges /\ ~(last - first < MIN_SPAN) /\ r = built
  <2>1. SB!OwnStart(tone, b) \in Nat /\ SB!OwnEnd(tone, b) \in Nat
    BY <1>1, <1>4, OwnStartIsATime, OwnEndIsATime
  <2>2. r.applied /\ r.start = first /\ r.end = last
    BY <1>4
  <2>3. r.end - r.start >= MIN_SPAN
    <3>1. first \in Int /\ last \in Int
      BY <1>1, <1>4, <2>1, BoundariesAreTimes
    <3> HIDE DEF r, first, last
    <3> QED
      BY <1>4, <2>2, <3>1, TimesOfShorts
  <2> HIDE DEF r
  <2>4. b.pause_before = SB!None \/ SB!MeasuredEndBefore(tone, b) # SB!None
           => /\ r.start <= SB!OwnStart(tone, b)
              /\ SB!NeighborEnd(tone, b) # SB!None => r.start >= SB!NeighborEnd(tone, b)
    BY <1>1, <1>4, <2>1, <2>2, StartBoundaryBetween
  <2>5. b.pause_after = SB!None \/ SB!MeasuredStartAfter(tone, b) # SB!None
           => /\ r.end >= SB!OwnEnd(tone, b)
              /\ SB!NeighborStart(tone, b) # SB!None => r.end <= SB!NeighborStart(tone, b)
    BY <1>1, <1>4, <2>1, <2>2, EndBoundaryBetween
  <2> QED
    BY <2>3, <2>4, <2>5 DEF SB!SpanIsWhole
<1> QED
  BY <1>2, <1>3, <1>4

\* A question about a short has words in order and a tone.
RulesInv ==
    /\ question.kind \in {"short outline", "short"} => question.words \in Transcript
    /\ question.kind = "short" => question.tone \in Tone
    /\ question.kind = "probe" => question.answer \in Answers

LEMMA RulesInductive == RulesSpec => []RulesInv
<1>1. RulesInit => RulesInv
  BY DEF RulesInit, RulesInv
<1>2. WordLists \subseteq Transcript /\ Tones \subseteq Tone
  BY BoundariesAssumption, Zenon DEF Transcript, Tone
<1>3. RulesInv /\ [RulesNext]_question => RulesInv'
  <2> SUFFICES ASSUME RulesInv, [RulesNext]_question PROVE RulesInv'
    OBVIOUS
  <2>1. CASE OutlineShort
    <3>1. PICK words \in WordLists, s \in Spans :
              question' = [kind |-> "short outline", words |-> words, first |-> s[1], last |-> s[2]]
      BY <2>1 DEF OutlineShort, Ask
    <3>2. question'.kind = "short outline" /\ question'.words = words
      BY <3>1
    <3> QED
      BY <1>2, <3>2 DEF RulesInv
  <2>2. CASE AskShort
    <3>1. question.kind = "short outline" /\ question.words \in Transcript
      BY <2>2 DEF AskShort, RulesInv, Outline
    <3>2. PICK tone \in Tones :
              question' = [kind |-> "short", words |-> question.words, first |-> question.first,
                           last |-> question.last, tone |-> tone]
      BY <2>2 DEF AskShort, Ask
    <3>3. question'.kind = "short" /\ question'.words = question.words /\ question'.tone = tone
      BY <3>2
    <3> QED
      BY <1>2, <3>1, <3>3 DEF RulesInv
  <2>3. CASE AskProbe
    <3>1. PICK answer \in Answers : question' = [kind |-> "probe", answer |-> answer]
      BY <2>3 DEF AskProbe, Ask
    <3>2. question'.kind = "probe" /\ question'.answer = answer
      BY <3>1
    <3> QED
      BY <3>2 DEF RulesInv
  <2>4. CASE OutlineProposal
    <3>1. PICK r \in Recordings : question' = [kind |-> "proposal outline", recording |-> r]
      BY <2>4 DEF OutlineProposal, Ask
    <3>2. question'.kind = "proposal outline"
      BY <3>1
    <3> QED
      BY <3>2 DEF RulesInv
  <2>5. CASE AskProposal
    <3>1. PICK log \in Logs :
              question' = [kind |-> "proposal", log |-> log, events |-> question.recording.events,
                           total |-> question.recording.total, version |-> question.recording.version,
                           obs |-> question.recording.obs, binding |-> question.recording.binding,
                           collection |-> question.recording.collection]
      BY <2>5 DEF AskProposal, Ask
    <3>2. question'.kind = "proposal"
      BY <3>1
    <3> QED
      BY <3>2 DEF RulesInv
  <2>6. CASE UNCHANGED question
    BY <2>6 DEF RulesInv
  <2> QED
    BY <2>1, <2>2, <2>3, <2>4, <2>5, <2>6 DEF RulesNext
<1> QED
  BY <1>1, <1>3, PTL DEF RulesSpec

THEOREM MeasuredWordsAlwaysStayWhole == RulesSpec => []MeasuredWordsStayWhole
<1>1. RulesInv => MeasuredWordsStayWhole
  <2> SUFFICES ASSUME RulesInv, question.kind = "short"
               PROVE  SB!MeasuredWordsStayWhole(question)
    BY DEF MeasuredWordsStayWhole, Outline
  <2>1. question.words \in Transcript /\ question.tone \in Tone
    BY DEF RulesInv
  <2> DEFINE b == SB!Snapped(question)
  <2>2. b.snapped => IsBoundary(b)
    BY <2>1, SnappedShape DEF SB!Snapped
  <2> HIDE DEF b
  <2>3. SB!SpanIsWhole(question.tone, b, SB!apply_level_correction(question.tone, b))
    BY <2>1, <2>2, BuiltIsWhole
  <2> QED
    BY <2>3 DEF SB!MeasuredWordsStayWhole, SB!Built, b
<1> QED
  BY <1>1, RulesInductive, PTL
=============================================================================
