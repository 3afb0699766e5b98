--------------------------- MODULE JournalBundle ---------------------------
(***************************************************************************)
(* Loading a finished journal (phase2/finalizer/loader.py), alone or with  *)
(* its bundle: receipts of the session and of the integrity, and a         *)
(* manifest over the three.  Each file is read by itself, so that the four *)
(* may come from different productions when a bundle is replaced while it  *)
(* is read.  A digest is the file itself: no two files share one.          *)
(***************************************************************************)
EXTENDS Naturals, Sequences

Files == {"journal", "session", "integrity", "manifest"}

\* What the producer p = [recording, run, version, text] writes under the given names.
Journal(p) == [form |-> "good", recording |-> p.recording, producer |-> p.version, text |-> p.text]
Session(p) == [form |-> "good", recording |-> p.recording, run |-> p.run, producer |-> p.version]
Integrity(p, name) ==
    [form |-> "good", recording |-> p.recording, run |-> p.run, reference |-> name["journal"],
     journal |-> Journal(p), session |-> Session(p)]
Manifest(p, name) ==
    [form |-> "good", recording |-> p.recording, run |-> p.run, producer |-> p.version,
     reference |-> [f \in Files \ {"manifest"} |-> name[f]],
     journal |-> Journal(p), session |-> Session(p), integrity |-> Integrity(p, name)]
Produced(p, name) ==
    [f \in Files |-> CASE f = "journal" -> Journal(p) [] f = "session" -> Session(p)
                       [] f = "integrity" -> Integrity(p, name) [] f = "manifest" -> Manifest(p, name)]

-----------------------------------------------------------------------------
(* The bytes of the journal: bounded, whole lines, canonical, valid.        *)
JournalError(file, expected) ==
    CASE file.form \in {"missing", "unterminated"} -> "journal_incomplete"
      [] file.form = "damaged" -> "journal_corrupt"
      [] file.form = "good" /\ expected \notin {0, file.recording} -> "journal_source_mismatch"
      [] OTHER -> "none"

SameProducer(read) ==
    /\ {read[f].recording : f \in Files} = {read["journal"].recording}
    /\ read["session"].run = read["integrity"].run /\ read["session"].run = read["manifest"].run
    /\ read["session"].producer = read["manifest"].producer
    /\ read["session"].producer = read["journal"].producer

DigestsMatch(read) ==
    /\ read["integrity"].journal = read["journal"] /\ read["integrity"].session = read["session"]
    /\ \A f \in Files \ {"manifest"} : read["manifest"][f] = read[f]

ReferencesMatch(read, name) ==
    /\ read["integrity"].reference = name["journal"]
    /\ \A f \in Files \ {"manifest"} : read["manifest"].reference[f] = name[f]

\* The first test that fails names the error; a bundle never falls back to its journal.
load_journal(profile, read, name, expected) ==
    IF JournalError(read["journal"], expected) # "none" THEN JournalError(read["journal"], expected)
    ELSE IF profile = "legacy" THEN "loaded"
    ELSE IF \E f \in Files : read[f].form = "missing" THEN "bundle_missing"
    ELSE IF \E f \in Files : read[f].form # "good" THEN "bundle_corrupt"
    ELSE IF ~SameProducer(read) THEN "bundle_binding"
    ELSE IF ~DigestsMatch(read) THEN "bundle_digest"
    ELSE IF ~ReferencesMatch(read, name) THEN "bundle_binding"
    ELSE "loaded"

-----------------------------------------------------------------------------
(* A bundle is loaded exactly when its four files are those of one          *)
(* production, under the names it wrote them, of the expected recording.   *)
BundleIsWhole(q) ==
    load_journal(q.profile, q.read, q.name, q.expected) = "loaded" <=>
        /\ \E p \in q.productions : /\ q.expected \in {0, p.recording}
                                    /\ IF q.profile = "legacy" THEN q.read["journal"] = Journal(p)
                                       ELSE q.read = Produced(p, q.name)
=============================================================================
