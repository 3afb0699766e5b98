------------------------ MODULE RenderAttempt_proofs -------------------------
(***************************************************************************)
(* Proofs from the proposal of cuts to the rendered video.  The proposal   *)
(* (CutProposal, asked by Rules) for any recording, log and parameters:    *)
(* each loop is a function of the rounds it has made, with an invariant    *)
(* that every round keeps.  Then RenderAttempt, for any sets of threads    *)
(* and cuts and any numbers of edits, decisions, requests, crashes, faults *)
(* and changes.                                                            *)
(***************************************************************************)
EXTENDS RenderAttempt, Rules, SequenceTheorems, FiniteSetTheorems, WellFoundedInduction, TLAPS

-----------------------------------------------------------------------------
(* Counting the rounds of a loop.                                          *)

\* Sets of natural numbers have a least member.
LEMMA Smallest ==
    ASSUME NEW S \in SUBSET Nat, S # {}
    PROVE  \E n \in S : \A m \in S : n <= m
<1>1. PICK n \in S : \A m \in S : <<m, n>> \notin OpToRel(<, Nat)
  BY WFMin, NatLessThanWellFounded, Zenon
<1>2. \A m \in S : ~(m < n)
  BY <1>1 DEF OpToRel
<1>3. n \in Nat /\ \A m \in S : m \in Nat
  OBVIOUS
<1> QED
  BY <1>2, <1>3

\* What holds at first and is kept by every round holds after every round.
LEMMA Rounds ==
    ASSUME NEW n \in Nat, NEW B, 0 \in B, \A i \in 1 .. n : i - 1 \in B => i \in B
    PROVE  \A i \in 0 .. n : i \in B
<1> DEFINE S == {i \in 0 .. n : i \notin B}
<1>1. SUFFICES ASSUME S # {} PROVE FALSE
  OBVIOUS
<1>0. S \in SUBSET Nat
  OBVIOUS
<1>2. PICK i \in S : \A j \in S : i <= j
  <2> HIDE DEF S
  <2> QED
    BY <1>0, <1>1, Smallest
<1>3. i \in 1 .. n
  BY <1>2
<1>4. i - 1 \in 0 .. n /\ i - 1 \notin S
  BY <1>2, <1>3
<1> QED
  BY <1>3, <1>4, <1>2

\* A loop over n things has a course.
Passes(S, n) == [1 .. n -> [S -> S]]
IsCourse(f, S, n, base, step) ==
    f \in [0 .. n -> S] /\ f[0] = base /\ \A i \in 1 .. n : f[i] = step[i][f[i - 1]]
\* The function that a loop computes exists.
LEMMA CourseExists ==
    ASSUME NEW S, NEW n \in Nat, NEW base \in S, NEW step \in Passes(S, n)
    PROVE  \E f : IsCourse(f, S, n, base, step)
<1> USE DEF Passes
<1> DEFINE Course(m, f) == f[0] = base /\ \A i \in 1 .. m : f[i] = step[i][f[i - 1]]
           B == {m \in 0 .. n : \E f \in [0 .. m -> S] : Course(m, f)}
<1>1. 0 \in B
  <2> DEFINE f == [i \in 0 .. 0 |-> base]
  <2>1. f \in [0 .. 0 -> S] /\ Course(0, f)
    OBVIOUS
  <2> HIDE DEF f, Course
  <2>2. \E h \in [0 .. 0 -> S] : Course(0, h)
    BY <2>1
  <2> QED
    BY <2>2
<1>2. ASSUME NEW m \in 1 .. n, m - 1 \in B
      PROVE  m \in B
  <2>1. PICK f \in [0 .. m - 1 -> S] : Course(m - 1, f)
    BY <1>2
  <2> DEFINE g == [i \in 0 .. m |-> IF i = m THEN step[m][f[m - 1]] ELSE f[i]]
  <2>2. f[m - 1] \in S /\ step[m] \in [S -> S]
    OBVIOUS
  <2>3. g \in [0 .. m -> S]
    <3>1. \A i \in 0 .. m : i # m => i \in 0 .. m - 1
      OBVIOUS
    <3> QED
      BY <2>2, <3>1
  <2>4. g[0] = base
    BY <2>1
  <2>5. \A i \in 1 .. m : g[i] = step[i][g[i - 1]]
    <3> TAKE i \in 1 .. m
    <3>1. g[i - 1] = f[i - 1] /\ i - 1 \in 0 .. m - 1
      OBVIOUS
    <3>2. CASE i = m
      BY <3>1, <3>2
    <3>3. CASE i # m
      <4>1. i \in 1 .. m - 1 /\ g[i] = f[i]
        BY <3>3
      <4> HIDE DEF g
      <4> QED
        BY <2>1, <3>1, <4>1
    <3> QED
      BY <3>2, <3>3
  <2> HIDE DEF g
  <2>6. \E h \in [0 .. m -> S] : Course(m, h)
    BY <2>3, <2>4, <2>5
  <2> HIDE DEF Course
  <2> QED
    BY <2>6
<1> HIDE DEF B
<1>3. \A m \in 0 .. n : m \in B
  BY <1>1, <1>2, Rounds
<1>4. n \in 0 .. n
  OBVIOUS
<1> QED
  BY <1>3, <1>4 DEF B, IsCourse

-----------------------------------------------------------------------------
(* Loops.  Each is a function from the number of rounds to the state after *)
(* them; a set of states that every round stays in makes the course exist. *)

Sil == [start : Int, end : Int]
Kinds == {"silence", "outro_excess_tail", "intro_lead_in"}
Reasons == {"below_minimum_silence", "outside_source_timeline", "below_minimum_cut_after_handles",
            "hard_protection_overlap", "soft_or_uncertain_protection_overlap", "minimum_keep_island",
            "superseded_by_outro_tail", "superseded_by_intro_lead_in", "intro_flow_protected"}
ProposedCuts == [start : Int, end : Int, reason : Kinds, raw : Sil]
Rejections == [raw : Sil, reason : Reasons]
Proposals == [proposed : Seq(ProposedCuts), rejected : Seq(Rejections)]

\* The loop over the lines of the log.
LEMMA ReadCourse ==
    ASSUME NEW seq \in Seq(Sil),
           NEW St, [pending |-> CP!None, found |-> {}] \in St,
           \A a \in St, x \in Sil : CP!Read(a, x) \in St
    PROVE  \E f \in [0 .. Len(seq) -> St] :
              /\ f[0] = [pending |-> CP!None, found |-> {}]
              /\ \A i \in 1 .. Len(seq) : f[i] = CP!Read(f[i - 1], seq[i])
              /\ CP!parse_silences(seq) = f[Len(seq)].found
<1> DEFINE base == [pending |-> CP!None, found |-> {}]
           n == Len(seq)
           Is(f) == f = [i \in 0 .. n |-> IF i = 0 THEN base ELSE CP!Read(f[i - 1], seq[i])]
           F == CHOOSE f : Is(f)
           step == [i \in 1 .. n |-> [a \in St |-> CP!Read(a, seq[i])]]
<1>1. CP!parse_silences(seq) = F[n].found
  BY DEF CP!parse_silences, CP!Fold
<1>2. base \in St /\ n \in Nat
  OBVIOUS
<1>3. \A i \in 1 .. n : seq[i] \in Sil
  OBVIOUS
<1>4. step \in Passes(St, n)
  BY <1>3 DEF Passes
<1> HIDE DEF base, n
<1>5. PICK f : IsCourse(f, St, n, base, step)
  <2> HIDE DEF step
  <2> QED
    BY <1>2, <1>4, CourseExists
<1>6. Is(f)
  <2> USE DEF IsCourse
  <2>1. \A i \in 0 .. n : i # 0 => i \in 1 .. n /\ f[i - 1] \in St
    BY <1>2, <1>5
  <2>2. \A i \in 0 .. n : f[i] = IF i = 0 THEN base ELSE CP!Read(f[i - 1], seq[i])
    BY <1>5, <2>1
  <2> QED
    BY <1>5, <2>2
<1>7. Is(F)
  <2> HIDE DEF Is
  <2> QED
    BY <1>6, Zenon
<1> HIDE DEF F, step
<1>8. F[0] = base /\ \A i \in 1 .. n : F[i] = CP!Read(F[i - 1], seq[i])
  <2>1. 0 \in 0 .. n /\ \A i \in 1 .. n : i \in 0 .. n /\ i # 0
    BY <1>2
  <2>2. \A i \in 0 .. n : F[i] = IF i = 0 THEN base ELSE CP!Read(F[i - 1], seq[i])
    BY <1>7, Zenon
  <2> QED
    BY <2>1, <2>2
<1>9. \A i \in 0 .. n : F[i] \in St
  <2> DEFINE B == {i \in 0 .. n : F[i] \in St}
  <2>1. 0 \in B
    BY <1>2, <1>8
  <2>2. \A i \in 1 .. n : i - 1 \in B => i \in B
    <3> SUFFICES ASSUME NEW i \in 1 .. n, F[i - 1] \in St PROVE F[i] \in St
      <4>1. \A i \in 1 .. n : i \in 0 .. n
        BY <1>2
      <4> QED
        BY <4>1
    <3> QED
      BY <1>3, <1>8
  <2>3. \A i \in 0 .. n : i \in B
    <3> HIDE DEF B
    <3> QED
      BY <1>2, <2>1, <2>2, Rounds
  <2> QED
    BY <2>3
<1>10. F \in [0 .. n -> St]
  BY <1>7, <1>9
<1> QED
  BY <1>1, <1>8, <1>10 DEF base, n

\* The loop that joins silences.
LEMMA JoinCourse ==
    ASSUME NEW values, NEW seq \in Seq(Sil),
           NEW St, <<>> \in St,
           \A a \in St, x \in Sil : CP!Join(a, x) \in St
    PROVE  \E f \in [0 .. Len(seq) -> St] :
              /\ f[0] = <<>>
              /\ \A i \in 1 .. Len(seq) : f[i] = CP!Join(f[i - 1], seq[i])
              /\ CP!Sorted(values) = seq => CP!normalize_silences(values) = f[Len(seq)]
<1> DEFINE base == <<>>
           n == Len(seq)
           Is(f) == f = [i \in 0 .. n |-> IF i = 0 THEN base ELSE CP!Join(f[i - 1], seq[i])]
           F == CHOOSE f : Is(f)
           step == [i \in 1 .. n |-> [a \in St |-> CP!Join(a, seq[i])]]
<1>1. CP!Sorted(values) = seq => CP!normalize_silences(values) = F[n]
  BY DEF CP!normalize_silences, CP!Fold
<1>2. base \in St /\ n \in Nat
  OBVIOUS
<1>3. \A i \in 1 .. n : seq[i] \in Sil
  OBVIOUS
<1>4. step \in Passes(St, n)
  BY <1>3 DEF Passes
<1> HIDE DEF base, n
<1>5. PICK f : IsCourse(f, St, n, base, step)
  <2> HIDE DEF step
  <2> QED
    BY <1>2, <1>4, CourseExists
<1>6. Is(f)
  <2> USE DEF IsCourse
  <2>1. \A i \in 0 .. n : i # 0 => i \in 1 .. n /\ f[i - 1] \in St
    BY <1>2, <1>5
  <2>2. \A i \in 0 .. n : f[i] = IF i = 0 THEN base ELSE CP!Join(f[i - 1], seq[i])
    BY <1>5, <2>1
  <2> QED
    BY <1>5, <2>2
<1>7. Is(F)
  <2> HIDE DEF Is
  <2> QED
    BY <1>6, Zenon
<1> HIDE DEF F, step
<1>8. F[0] = base /\ \A i \in 1 .. n : F[i] = CP!Join(F[i - 1], seq[i])
  <2>1. 0 \in 0 .. n /\ \A i \in 1 .. n : i \in 0 .. n /\ i # 0
    BY <1>2
  <2>2. \A i \in 0 .. n : F[i] = IF i = 0 THEN base ELSE CP!Join(F[i - 1], seq[i])
    BY <1>7, Zenon
  <2> QED
    BY <2>1, <2>2
<1>9. \A i \in 0 .. n : F[i] \in St
  <2> DEFINE B == {i \in 0 .. n : F[i] \in St}
  <2>1. 0 \in B
    BY <1>2, <1>8
  <2>2. \A i \in 1 .. n : i - 1 \in B => i \in B
    <3> SUFFICES ASSUME NEW i \in 1 .. n, F[i - 1] \in St PROVE F[i] \in St
      <4>1. \A i \in 1 .. n : i \in 0 .. n
        BY <1>2
      <4> QED
        BY <4>1
    <3> QED
      BY <1>3, <1>8
  <2>3. \A i \in 0 .. n : i \in B
    <3> HIDE DEF B
    <3> QED
      BY <1>2, <2>1, <2>2, Rounds
  <2> QED
    BY <2>3
<1>10. F \in [0 .. n -> St]
  BY <1>7, <1>9
<1> QED
  BY <1>1, <1>8, <1>10 DEF base, n

\* The loop that proposes or rejects a silence.
LEMMA JudgeCourse ==
    ASSUME NEW silences, NEW total, NEW ranges,
           NEW seq \in Seq(Sil),
           NEW St, [proposed |-> <<>>, rejected |-> <<>>] \in St,
           \A a \in St, x \in Sil : CP!Judge(a, x, total, ranges) \in St
    PROVE  \E f \in [0 .. Len(seq) -> St] :
              /\ f[0] = [proposed |-> <<>>, rejected |-> <<>>]
              /\ \A i \in 1 .. Len(seq) : f[i] = CP!Judge(f[i - 1], seq[i], total, ranges)
              /\ CP!normalize_silences(silences) = seq => CP!build_cut_candidates(silences, total, ranges) = f[Len(seq)]
<1> DEFINE base == [proposed |-> <<>>, rejected |-> <<>>]
           n == Len(seq)
           Is(f) == f = [i \in 0 .. n |-> IF i = 0 THEN base ELSE CP!Judge(f[i - 1], seq[i], total, ranges)]
           F == CHOOSE f : Is(f)
           step == [i \in 1 .. n |-> [a \in St |-> CP!Judge(a, seq[i], total, ranges)]]
<1>1. CP!normalize_silences(silences) = seq => CP!build_cut_candidates(silences, total, ranges) = F[n]
  BY DEF CP!build_cut_candidates, CP!Fold
<1>2. base \in St /\ n \in Nat
  OBVIOUS
<1>3. \A i \in 1 .. n : seq[i] \in Sil
  OBVIOUS
<1>4. step \in Passes(St, n)
  BY <1>3 DEF Passes
<1> HIDE DEF base, n
<1>5. PICK f : IsCourse(f, St, n, base, step)
  <2> HIDE DEF step
  <2> QED
    BY <1>2, <1>4, CourseExists
<1>6. Is(f)
  <2> USE DEF IsCourse
  <2>1. \A i \in 0 .. n : i # 0 => i \in 1 .. n /\ f[i - 1] \in St
    BY <1>2, <1>5
  <2>2. \A i \in 0 .. n : f[i] = IF i = 0 THEN base ELSE CP!Judge(f[i - 1], seq[i], total, ranges)
    BY <1>5, <2>1
  <2> QED
    BY <1>5, <2>2
<1>7. Is(F)
  <2> HIDE DEF Is
  <2> QED
    BY <1>6, Zenon
<1> HIDE DEF F, step
<1>8. F[0] = base /\ \A i \in 1 .. n : F[i] = CP!Judge(F[i - 1], seq[i], total, ranges)
  <2>1. 0 \in 0 .. n /\ \A i \in 1 .. n : i \in 0 .. n /\ i # 0
    BY <1>2
  <2>2. \A i \in 0 .. n : F[i] = IF i = 0 THEN base ELSE CP!Judge(F[i - 1], seq[i], total, ranges)
    BY <1>7, Zenon
  <2> QED
    BY <2>1, <2>2
<1>9. \A i \in 0 .. n : F[i] \in St
  <2> DEFINE B == {i \in 0 .. n : F[i] \in St}
  <2>1. 0 \in B
    BY <1>2, <1>8
  <2>2. \A i \in 1 .. n : i - 1 \in B => i \in B
    <3> SUFFICES ASSUME NEW i \in 1 .. n, F[i - 1] \in St PROVE F[i] \in St
      <4>1. \A i \in 1 .. n : i \in 0 .. n
        BY <1>2
      <4> QED
        BY <4>1
    <3> QED
      BY <1>3, <1>8
  <2>3. \A i \in 0 .. n : i \in B
    <3> HIDE DEF B
    <3> QED
      BY <1>2, <2>1, <2>2, Rounds
  <2> QED
    BY <2>3
<1>10. F \in [0 .. n -> St]
  BY <1>7, <1>9
<1> QED
  BY <1>1, <1>8, <1>10 DEF base, n

-----------------------------------------------------------------------------
(* The silences of the log.                                                *)
LEMMA TwoNumbers ==
    ASSUME NEW a \in Int, NEW b \in Int
    PROVE  CP!Max({a, b}) = (IF a >= b THEN a ELSE b) /\ CP!Min({a, b}) = (IF a <= b THEN a ELSE b)
<1> DEFINE x == IF a >= b THEN a ELSE b
           y == IF a <= b THEN a ELSE b
<1>1. x \in {a, b} /\ \A z \in {a, b} : x >= z
  OBVIOUS
<1>2. y \in {a, b} /\ \A z \in {a, b} : y <= z
  OBVIOUS
<1>3. \A z \in {a, b} : (\A w \in {a, b} : z >= w) => z = x
  OBVIOUS
<1>4. \A z \in {a, b} : (\A w \in {a, b} : z <= w) => z = y
  OBVIOUS
<1> HIDE DEF x, y
<1>5. CP!Max({a, b}) = x
  BY <1>1, <1>3 DEF CP!Max
<1>6. CP!Min({a, b}) = y
  BY <1>2, <1>4 DEF CP!Min
<1> QED
  BY <1>5, <1>6 DEF x, y

\* The cardinality of the instantiated module is the one the library is about.
LEMMA SizeOfSet == \A S : CP!Cardinality(S) = Cardinality(S)
BY DEF CP!Cardinality, Cardinality

\* Of two silences one comes first, unless they are the same.
LEMMA BeforeIsAnOrder ==
    /\ \A s \in Sil : ~CP!Before(s, s)
    /\ \A s, t, u \in Sil : CP!Before(s, t) /\ CP!Before(t, u) => CP!Before(s, u)
    /\ \A s, t \in Sil : s = t \/ CP!Before(s, t) \/ CP!Before(t, s)
<1>1. \A s \in Sil : s.start \in Int /\ s.end \in Int /\ s = [start |-> s.start, end |-> s.end]
  BY DEF Sil
<1>2. \A s \in Sil : ~CP!Before(s, s)
  BY <1>1 DEF CP!Before
<1>3. ASSUME NEW s \in Sil, NEW t \in Sil, NEW u \in Sil, CP!Before(s, t), CP!Before(t, u)
      PROVE  CP!Before(s, u)
  BY <1>1, <1>3 DEF CP!Before
<1>4. ASSUME NEW s \in Sil, NEW t \in Sil, ~CP!Before(s, t), ~CP!Before(t, s)
      PROVE  s = t
  <2>1. s.start = t.start /\ s.end = t.end
    BY <1>1, <1>4 DEF CP!Before
  <2> QED
    BY <1>1, <2>1
<1> QED
  BY <1>2, <1>3, <1>4

\* Sorting neither loses nor adds a silence, and puts them in order.
LEMMA SortedSilences ==
    ASSUME NEW S \in SUBSET Sil, IsFiniteSet(S)
    PROVE  /\ CP!Sorted(S) \in Seq(S)
           /\ \A s \in S : \E i \in 1 .. Len(CP!Sorted(S)) : CP!Sorted(S)[i] = s
           /\ \A i, j \in 1 .. Len(CP!Sorted(S)) : i < j => CP!Sorted(S)[i].start <= CP!Sorted(S)[j].start
<1> DEFINE Below(s) == {t \in S : CP!Before(t, s)}
           n == Cardinality(S)
           rank == [s \in S |-> Cardinality(Below(s)) + 1]
           At(m) == CHOOSE s \in S : CP!Cardinality(Below(s)) = m - 1
<1>1. n \in Nat
  BY FS_CardinalityType
<1>2. \A s \in S : IsFiniteSet(Below(s)) /\ Cardinality(Below(s)) \in Nat
  BY <1>1, FS_Subset, FS_CardinalityType
<1>3. \A s \in S : Cardinality(Below(s)) + 1 \in 1 .. n
  <2> TAKE s \in S
  <2>1. s \notin Below(s) /\ Below(s) \cup {s} \in SUBSET S
    BY BeforeIsAnOrder
  <2>2. Cardinality(Below(s) \cup {s}) = Cardinality(Below(s)) + 1
    BY <1>2, <2>1, FS_AddElement
  <2>3. Cardinality(Below(s) \cup {s}) <= n
    BY <1>1, <2>1, FS_Subset
  <2> HIDE DEF Below, n
  <2> QED
    BY <1>1, <1>2, <2>2, <2>3
<1>4. \A s, t \in S : CP!Before(s, t) => Cardinality(Below(s)) < Cardinality(Below(t))
  <2> SUFFICES ASSUME NEW s \in S, NEW t \in S, CP!Before(s, t)
               PROVE  Cardinality(Below(s)) < Cardinality(Below(t))
    OBVIOUS
  <2>1. \A u \in S : CP!Before(u, s) => CP!Before(u, t)
    BY BeforeIsAnOrder
  <2>2. s \notin Below(s) /\ Below(s) \cup {s} \in SUBSET Below(t)
    BY <2>1, BeforeIsAnOrder
  <2>3. Cardinality(Below(s) \cup {s}) = Cardinality(Below(s)) + 1
    BY <1>2, <2>2, FS_AddElement
  <2>4. Cardinality(Below(s) \cup {s}) <= Cardinality(Below(t))
    BY <1>2, <2>2, FS_Subset
  <2> HIDE DEF Below
  <2> QED
    BY <1>2, <2>3, <2>4
<1>5. \A s, t \in S : Cardinality(Below(s)) = Cardinality(Below(t)) => s = t
  <2> SUFFICES ASSUME NEW s \in S, NEW t \in S, Cardinality(Below(s)) = Cardinality(Below(t))
               PROVE  s = t
    OBVIOUS
  <2>1. ~CP!Before(s, t) /\ ~CP!Before(t, s)
    <3> HIDE DEF Below
    <3> QED
      BY <1>2, <1>4
  <2> QED
    BY <2>1, BeforeIsAnOrder
<1>6. CP!Cardinality(S) = n /\ \A s \in S : CP!Cardinality(Below(s)) = Cardinality(Below(s))
  BY SizeOfSet
<1>7. CP!Sorted(S) = [m \in 1 .. CP!Cardinality(S) |-> At(m)]
  BY DEF CP!Sorted
<1> HIDE DEF Below, n
<1>8. rank \in Injection(S, 1 .. n)
  <2>1. rank \in [S -> 1 .. n]
    BY <1>3
  <2>2. \A s, t \in S : rank[s] = rank[t] => s = t
    BY <1>2, <1>5
  <2>3. DOMAIN rank = S
    OBVIOUS
  <2> HIDE DEF rank
  <2> QED
    BY <2>1, <2>2, <2>3 DEF Injection, IsInjective
<1>9. IsFiniteSet(1 .. n) /\ Cardinality(1 .. n) = n
  BY <1>1, FS_Interval
<1>10. rank \in Surjection(S, 1 .. n)
  BY <1>8, <1>9, FS_Injection DEF n
<1>11. \A m \in 1 .. n : \E s \in S : Cardinality(Below(s)) = m - 1
  <2> TAKE m \in 1 .. n
  <2>1. PICK s \in S : rank[s] = m
    BY <1>10 DEF Surjection
  <2>2. Cardinality(Below(s)) + 1 = m
    BY <2>1
  <2> QED
    BY <1>2, <2>2
<1>12. \A m \in 1 .. n : At(m) \in S /\ Cardinality(Below(At(m))) = m - 1
  <2> TAKE m \in 1 .. n
  <2>1. \E s \in S : CP!Cardinality(Below(s)) = m - 1
    BY <1>6, <1>11
  <2>2. At(m) \in S /\ CP!Cardinality(Below(At(m))) = m - 1
    BY <2>1
  <2> QED
    BY <1>6, <2>2
<1> HIDE DEF At
<1>13. \A s \in S : \E m \in 1 .. n : At(m) = s
  <2> TAKE s \in S
  <2> DEFINE m == Cardinality(Below(s)) + 1
  <2>1. m \in 1 .. n /\ Cardinality(Below(s)) = m - 1
    BY <1>2, <1>3
  <2> HIDE DEF m
  <2>2. At(m) \in S /\ Cardinality(Below(At(m))) = m - 1
    BY <1>12, <2>1
  <2>3. At(m) = s
    BY <1>5, <2>1, <2>2
  <2> QED
    BY <2>1, <2>3
<1>14. \A i, j \in 1 .. n : i < j => At(i).start <= At(j).start
  <2> SUFFICES ASSUME NEW i \in 1 .. n, NEW j \in 1 .. n, i < j
               PROVE  At(i).start <= At(j).start
    OBVIOUS
  <2>1. /\ At(i) \in S /\ Cardinality(Below(At(i))) = i - 1
        /\ At(j) \in S /\ Cardinality(Below(At(j))) = j - 1
    BY <1>12
  <2>2. ~CP!Before(At(j), At(i))
    BY <1>4, <2>1
  <2>3. At(i).start \in Int /\ At(j).start \in Int
    BY <2>1 DEF Sil
  <2> QED
    BY <2>2, <2>3 DEF CP!Before
<1>15. CP!Sorted(S) = [m \in 1 .. n |-> At(m)] /\ Len(CP!Sorted(S)) = n
  BY <1>1, <1>6, <1>7
<1>16. CP!Sorted(S) \in Seq(S)
  BY <1>1, <1>12, <1>15
<1> QED
  BY <1>13, <1>14, <1>15, <1>16

LEMMA ReadStates ==
    ASSUME NEW a \in [pending : Int, found : SUBSET Sil], NEW l \in Sil
    PROVE  /\ CP!Read(a, l) \in [pending : Int, found : SUBSET Sil]
           /\ IsFiniteSet(a.found) => IsFiniteSet(CP!Read(a, l).found)
<1> DEFINE started == IF l.start # CP!None THEN l.start ELSE a.pending
           silence == [start |-> CP!Max({0, started}), end |-> CP!Max({0, l.end})]
           more == IF silence.start < silence.end THEN {silence} ELSE {}
<1>1. started \in Int /\ l.end \in Int /\ CP!None \in Int
  BY DEF Sil, CP!None
<1>2. silence \in Sil
  <2>1. CP!Max({0, started}) \in Int /\ CP!Max({0, l.end}) \in Int
    BY <1>1, TwoNumbers
  <2> QED
    BY <2>1 DEF Sil
<1>3. more \in SUBSET Sil /\ IsFiniteSet(more)
  BY <1>2, FS_EmptySet, FS_Singleton
<1>4. CP!Read(a, l) = IF l.end = CP!None \/ started = CP!None THEN [a EXCEPT !.pending = started]
                      ELSE [pending |-> CP!None, found |-> a.found \cup more]
  BY DEF CP!Read
<1>5. a.found \in SUBSET Sil /\ a = [pending |-> a.pending, found |-> a.found]
  OBVIOUS
<1> HIDE DEF started, silence, more
<1>6. CASE l.end = CP!None \/ started = CP!None
  <2>1. CP!Read(a, l) = [pending |-> started, found |-> a.found]
    BY <1>4, <1>5, <1>6
  <2> QED
    BY <2>1, <1>1, <1>5
<1>7. CASE ~(l.end = CP!None \/ started = CP!None)
  <2>1. CP!Read(a, l) = [pending |-> CP!None, found |-> a.found \cup more]
    BY <1>4, <1>7
  <2>2. IsFiniteSet(a.found) => IsFiniteSet(a.found \cup more)
    BY <1>3, FS_Union
  <2> QED
    BY <2>1, <2>2, <1>1, <1>3, <1>5
<1> QED
  BY <1>6, <1>7

\* What is read from the log is a finite set of silences that are not empty.
LEMMA FoundSilences ==
    ASSUME NEW log \in Seq(Sil)
    PROVE  CP!parse_silences(log) \in SUBSET Sil /\ IsFiniteSet(CP!parse_silences(log))
<1> DEFINE St == [pending : Int, found : SUBSET Sil]
           base == [pending |-> CP!None, found |-> {}]
<1>1. base \in St /\ \A a \in St, l \in Sil : CP!Read(a, l) \in St
  BY ReadStates DEF CP!None
<1>2. PICK f \in [0 .. Len(log) -> St] :
              /\ f[0] = base
              /\ \A i \in 1 .. Len(log) : f[i] = CP!Read(f[i - 1], log[i])
              /\ CP!parse_silences(log) = f[Len(log)].found
  <2> HIDE DEF St
  <2> QED
    BY <1>1, ReadCourse
<1>3. \A i \in 0 .. Len(log) : IsFiniteSet(f[i].found)
  <2> DEFINE B == {i \in 0 .. Len(log) : IsFiniteSet(f[i].found)}
  <2>1. 0 \in B
    <3>1. f[0].found = {} /\ 0 \in 0 .. Len(log)
      BY <1>2
    <3>2. IsFiniteSet(f[0].found)
      BY <3>1, FS_EmptySet, Zenon
    <3> QED
      BY <3>1, <3>2
  <2>2. \A i \in 1 .. Len(log) : i - 1 \in B => i \in B
    <3> SUFFICES ASSUME NEW i \in 1 .. Len(log), IsFiniteSet(f[i - 1].found)
                 PROVE  IsFiniteSet(f[i].found)
      OBVIOUS
    <3>1. f[i - 1] \in St /\ log[i] \in Sil
      OBVIOUS
    <3> QED
      BY <3>1, <1>2, ReadStates
  <2>3. Len(log) \in Nat
    OBVIOUS
  <2>4. \A i \in 0 .. Len(log) : i \in B
    <3> HIDE DEF B
    <3> QED
      BY <2>1, <2>2, <2>3, Rounds
  <2> QED
    BY <2>4
<1>4. Len(log) \in 0 .. Len(log) /\ f[Len(log)] \in St
  OBVIOUS
<1> QED
  BY <1>2, <1>3, <1>4

Proper(S) == \A s \in S : s.start < s.end

\* So is what remains of them inside the recording.
LEMMA ClampedSilences ==
    ASSUME NEW S \in SUBSET Sil, IsFiniteSet(S), NEW duration \in Int
    PROVE  CP!Clamped(S, duration) \in SUBSET Sil /\ IsFiniteSet(CP!Clamped(S, duration)) /\ Proper(CP!Clamped(S, duration))
<1> DEFINE short(x) == [start |-> CP!Min({x.start, duration}), end |-> CP!Min({x.end, duration})]
           All == {short(x) : x \in S}
<1>1. \A x \in S : short(x) \in Sil
  <2> TAKE x \in S
  <2>1. x.start \in Int /\ x.end \in Int
    BY DEF Sil
  <2>2. CP!Min({x.start, duration}) \in Int /\ CP!Min({x.end, duration}) \in Int
    BY <2>1, TwoNumbers
  <2> QED
    BY <2>2 DEF Sil
<1>2. IsFiniteSet(All)
  <2> DEFINE g == [x \in S |-> short(x)]
  <2>1. g \in [S -> All] /\ \A y \in All : \E x \in S : g[x] = y
    OBVIOUS
  <2>2. g \in Surjection(S, All)
    <3> HIDE DEF g, All
    <3> QED
      BY <2>1 DEF Surjection
  <2> HIDE DEF g, All
  <2> QED
    BY <2>2, FS_Surjection
<1>3. CP!Clamped(S, duration) = {s \in All : s.start < s.end}
  BY DEF CP!Clamped
<1>4. All \in SUBSET Sil
  BY <1>1
<1> HIDE DEF All
<1>5. IsFiniteSet(CP!Clamped(S, duration))
  BY <1>2, <1>3, FS_Subset
<1> QED
  BY <1>3, <1>4, <1>5 DEF Proper

-----------------------------------------------------------------------------
(* Joining silences.                                                       *)
LEMMA FourInOrder ==
    \A a, b, c, d \in Int : a < b /\ b < c /\ c < d => a < d
OBVIOUS
LEMMA NotBoth ==
    \A a, b, t \in Int : a <= t /\ t < b => a # b
OBVIOUS

\* A silence extends the last one or comes after it.
LEMMA JoinCases ==
    ASSUME NEW acc \in Seq(Sil), NEW item \in Sil
    PROVE  LET n == Len(acc)  r == CP!Join(acc, item)
           IN  /\ r \in Seq(Sil)
               /\ item.start < item.end =>
                    \/ (n = 0 \/ acc[n].end < item.start) /\ r = Append(acc, item)
                    \/ /\ n # 0 /\ item.start <= acc[n].end /\ Len(r) = n
                       /\ \A x \in 1 .. n - 1 : r[x] = acc[x]
                       /\ r[n].start = acc[n].start /\ r[n].end \in {acc[n].end, item.end}
                       /\ r[n].end >= acc[n].end /\ r[n].end >= item.end
<1> DEFINE n == Len(acc)
           r == CP!Join(acc, item)
           longer == [start |-> acc[n].start, end |-> CP!Max({acc[n].end, item.end})]
<1>1. n \in Nat /\ item.start \in Int /\ item.end \in Int
  BY DEF Sil
<1>2. acc # <<>> => n \in 1 .. n /\ acc[n] \in Sil
  OBVIOUS
<1>3. acc # <<>> => acc[n].start \in Int /\ acc[n].end \in Int /\ acc[n] = [start |-> acc[n].start, end |-> acc[n].end]
  BY <1>2 DEF Sil
<1>4. acc # <<>> => [acc[n] EXCEPT !.end = CP!Max({@, item.end})] = longer
  BY <1>3
<1>5. acc # <<>> => longer \in Sil /\ longer.end \in {acc[n].end, item.end} /\ longer.end >= acc[n].end /\ longer.end >= item.end
  <2> SUFFICES ASSUME acc # <<>> PROVE longer \in Sil /\ longer.end \in {acc[n].end, item.end}
                                         /\ longer.end >= acc[n].end /\ longer.end >= item.end
    OBVIOUS
  <2>1. acc[n].start \in Int /\ acc[n].end \in Int
    BY <1>3
  <2>2. CP!Max({acc[n].end, item.end}) = IF acc[n].end >= item.end THEN acc[n].end ELSE item.end
    BY <1>1, <2>1, TwoNumbers
  <2> QED
    BY <1>1, <2>1, <2>2 DEF Sil
<1>6. r = IF item.start >= item.end THEN acc
          ELSE IF acc # <<>> /\ item.start <= acc[n].end THEN [acc EXCEPT ![n] = [acc[n] EXCEPT !.end = CP!Max({@, item.end})]]
          ELSE Append(acc, item)
  BY DEF CP!Join
<1> HIDE DEF r, longer
<1>7. CASE item.start >= item.end
  BY <1>1, <1>6, <1>7 DEF r
<1>8. CASE item.start < item.end /\ acc # <<>> /\ item.start <= acc[n].end
  <2>0. ~(item.start >= item.end)
    BY <1>1, <1>8
  <2>1. r = [acc EXCEPT ![n] = longer]
    BY <2>0, <1>4, <1>6, <1>8, Zenon
  <2>2. r \in Seq(Sil) /\ Len(r) = n /\ r[n] = longer /\ \A x \in 1 .. n - 1 : r[x] = acc[x]
    BY <1>1, <1>2, <1>5, <1>8, <2>1
  <2>3. r[n].start = acc[n].start /\ n # 0
    BY <1>8, <2>2 DEF longer
  <2> QED
    BY <1>5, <1>8, <2>2, <2>3 DEF r
<1>9. CASE item.start < item.end /\ ~(acc # <<>> /\ item.start <= acc[n].end)
  <2>1. r = Append(acc, item)
    BY <1>1, <1>6, <1>9
  <2>2. n = 0 \/ acc[n].end < item.start
    BY <1>1, <1>3, <1>9
  <2>3. r \in Seq(Sil)
    BY <2>1
  <2> QED
    BY <2>1, <2>2, <2>3 DEF r
<1> QED
  BY <1>1, <1>7, <1>8, <1>9

\* After i of the sorted silences: what is joined is in order, apart, and made of them.
Merged(acc, v, i) ==
    /\ \A x \in 1 .. Len(acc) : acc[x].start < acc[x].end
    /\ \A x, y \in 1 .. Len(acc) : x < y => acc[x].end < acc[y].start
    /\ \A m \in 1 .. i : \E x \in 1 .. Len(acc) : acc[x].start <= v[m].start /\ v[m].end <= acc[x].end
    /\ \A x \in 1 .. Len(acc) : \A t \in Int :
          acc[x].start <= t /\ t < acc[x].end => \E m \in 1 .. i : v[m].start <= t /\ t < v[m].end
    /\ \A x \in 1 .. Len(acc) : \E m \in 1 .. i : acc[x].start = v[m].start

\* A round of the joining keeps its invariant: what is joined covers what was read and
\* nothing else.
LEMMA JoinKeeps ==
    ASSUME NEW v \in Seq(Sil), \A m \in 1 .. Len(v) : v[m].start < v[m].end,
           \A k, m \in 1 .. Len(v) : k < m => v[k].start <= v[m].start,
           NEW i \in 1 .. Len(v), NEW acc \in Seq(Sil), Merged(acc, v, i - 1)
    PROVE  Merged(CP!Join(acc, v[i]), v, i)
<1> DEFINE n == Len(acc)
           item == v[i]
           r == CP!Join(acc, item)
<1>0. \A s \in Sil : s.start \in Int /\ s.end \in Int
  BY DEF Sil
<1>1. n \in Nat /\ item \in Sil /\ item.start < item.end /\ item.start \in Int /\ item.end \in Int
  BY <1>0
<1>2. \A m \in 1 .. Len(v) : v[m].start \in Int /\ v[m].end \in Int
  BY <1>0
<1>3. \A x \in 1 .. n : acc[x] \in Sil /\ acc[x].start \in Int /\ acc[x].end \in Int
  BY <1>0
<1>4. \A x \in 1 .. n : acc[x].start <= item.start
  <2> TAKE x \in 1 .. n
  <2>1. PICK m \in 1 .. i - 1 : acc[x].start = v[m].start
    BY DEF Merged
  <2>2. m \in 1 .. Len(v) /\ m < i
    OBVIOUS
  <2> QED
    BY <2>1, <2>2
<1>5. \A m \in 1 .. i : m \in 1 .. i - 1 \/ m = i
  OBVIOUS
<1>6. r \in Seq(Sil)
  BY <1>1, JoinCases
<1>7. \/ (n = 0 \/ acc[n].end < item.start) /\ r = Append(acc, item)
      \/ /\ n # 0 /\ item.start <= acc[n].end /\ Len(r) = n
         /\ \A x \in 1 .. n - 1 : r[x] = acc[x]
         /\ r[n].start = acc[n].start /\ r[n].end \in {acc[n].end, item.end}
         /\ r[n].end >= acc[n].end /\ r[n].end >= item.end
  BY <1>1, JoinCases
<1> HIDE DEF r
<1>8. CASE (n = 0 \/ acc[n].end < item.start) /\ r = Append(acc, item)
  <2>1. Len(r) = n + 1 /\ r[n + 1] = item /\ \A x \in 1 .. n : r[x] = acc[x]
    BY <1>1, <1>8
  <2>2. \A x \in 1 .. n + 1 : x \in 1 .. n \/ x = n + 1
    BY <1>1
  <2>3. \A x \in 1 .. n : acc[x].end < item.start
    <3> TAKE x \in 1 .. n
    <3>1. n \in 1 .. n /\ acc[n].end < item.start
      BY <1>1, <1>8
    <3>2. CASE x = n
      BY <3>1, <3>2
    <3>3. CASE x # n
      <4>1. x < n
        BY <1>1, <3>3
      <4>2. acc[x].end < acc[n].start /\ acc[n].start < acc[n].end
        BY <3>1, <4>1 DEF Merged
      <4>3. acc[x].end \in Int /\ acc[n].start \in Int /\ acc[n].end \in Int
        BY <1>3, <3>1
      <4> QED
        BY <1>1, <3>1, <4>2, <4>3, FourInOrder
    <3> QED
      BY <3>2, <3>3
  <2>4. \A x \in 1 .. n + 1 : r[x].start < r[x].end
    BY <1>1, <2>1, <2>2 DEF Merged
  <2>5. \A x, y \in 1 .. n + 1 : x < y => r[x].end < r[y].start
    <3> TAKE x, y \in 1 .. n + 1
    <3> HAVE x < y
    <3>1. x \in 1 .. n
      BY <1>1
    <3> QED
      BY <2>1, <2>2, <2>3, <3>1 DEF Merged
  <2>6. \A m \in 1 .. i : \E x \in 1 .. n + 1 : r[x].start <= v[m].start /\ v[m].end <= r[x].end
    <3> TAKE m \in 1 .. i
    <3>1. CASE m = i
      <4>1. n + 1 \in 1 .. n + 1 /\ r[n + 1].start <= v[m].start /\ v[m].end <= r[n + 1].end
        BY <1>1, <2>1, <3>1
      <4> QED
        BY <4>1
    <3>2. CASE m \in 1 .. i - 1
      <4>1. PICK x \in 1 .. n : acc[x].start <= v[m].start /\ v[m].end <= acc[x].end
        BY <3>2 DEF Merged
      <4>2. x \in 1 .. n + 1 /\ r[x] = acc[x]
        BY <1>1, <2>1
      <4> QED
        BY <4>1, <4>2
    <3> QED
      BY <1>5, <3>1, <3>2
  <2>7. \A x \in 1 .. n + 1 : \A t \in Int :
          r[x].start <= t /\ t < r[x].end => \E m \in 1 .. i : v[m].start <= t /\ t < v[m].end
    <3> SUFFICES ASSUME NEW x \in 1 .. n + 1, NEW t \in Int, r[x].start <= t, t < r[x].end
                 PROVE  \E m \in 1 .. i : v[m].start <= t /\ t < v[m].end
      OBVIOUS
    <3>1. CASE x = n + 1
      BY <2>1, <3>1
    <3>2. CASE x \in 1 .. n
      <4>1. PICK m \in 1 .. i - 1 : v[m].start <= t /\ t < v[m].end
        BY <2>1, <3>2 DEF Merged
      <4> QED
        BY <4>1
    <3> QED
      BY <2>2, <3>1, <3>2
  <2>8. \A x \in 1 .. n + 1 : \E m \in 1 .. i : r[x].start = v[m].start
    <3> TAKE x \in 1 .. n + 1
    <3>1. CASE x = n + 1
      BY <2>1, <3>1
    <3>2. CASE x \in 1 .. n
      <4>1. PICK m \in 1 .. i - 1 : acc[x].start = v[m].start
        BY <3>2 DEF Merged
      <4> QED
        BY <2>1, <3>2, <4>1
    <3> QED
      BY <2>2, <3>1, <3>2
  <2> QED
    BY <2>1, <2>4, <2>5, <2>6, <2>7, <2>8 DEF Merged, r
<1>9. CASE /\ n # 0 /\ item.start <= acc[n].end /\ Len(r) = n
           /\ \A x \in 1 .. n - 1 : r[x] = acc[x]
           /\ r[n].start = acc[n].start /\ r[n].end \in {acc[n].end, item.end}
           /\ r[n].end >= acc[n].end /\ r[n].end >= item.end
  <2>0. n \in 1 .. n
    BY <1>1, <1>9
  <2>1. /\ n \in 1 .. n /\ acc[n].start < acc[n].end /\ acc[n].start \in Int /\ acc[n].end \in Int
        /\ r[n].end \in Int
    BY <2>0, <1>1, <1>3, <1>9 DEF Merged
  <2>2. \A x \in 1 .. n : x \in 1 .. n - 1 \/ x = n
    BY <1>1
  <2>3. \A x \in 1 .. n : r[x].start = acc[x].start
    BY <1>9, <2>2
  <2>4. \A x \in 1 .. n : r[x].start < r[x].end
    <3> TAKE x \in 1 .. n
    <3>1. CASE x = n
      BY <1>9, <2>1, <3>1
    <3>2. CASE x \in 1 .. n - 1
      BY <1>9, <3>2 DEF Merged
    <3> QED
      BY <2>2, <3>1, <3>2
  <2>5. \A x, y \in 1 .. n : x < y => r[x].end < r[y].start
    <3> TAKE x, y \in 1 .. n
    <3> HAVE x < y
    <3>1. x \in 1 .. n - 1
      BY <1>1
    <3>2. r[x] = acc[x] /\ r[y].start = acc[y].start
      BY <1>9, <2>3, <3>1
    <3> QED
      BY <3>2 DEF Merged
  <2>6. \A m \in 1 .. i : \E x \in 1 .. n : r[x].start <= v[m].start /\ v[m].end <= r[x].end
    <3> TAKE m \in 1 .. i
    <3>1. CASE m = i
      <4>1. r[n].start <= v[m].start /\ v[m].end <= r[n].end
        BY <1>1, <1>4, <1>9, <2>1, <3>1
      <4> QED
        BY <2>1, <4>1
    <3>2. CASE m \in 1 .. i - 1
      <4>1. PICK x \in 1 .. n : acc[x].start <= v[m].start /\ v[m].end <= acc[x].end
        BY <3>2 DEF Merged
      <4>2. v[m].end \in Int /\ acc[x].end \in Int
        BY <1>2, <1>3, <3>2
      <4>3. CASE x = n
        <5>1. v[m].end <= r[n].end
          BY <1>9, <2>1, <4>1, <4>2, <4>3
        <5> QED
          BY <2>3, <4>1, <4>3, <5>1
      <4>4. CASE x # n
        BY <1>9, <2>2, <4>1, <4>4
      <4> QED
        BY <4>3, <4>4
    <3> QED
      BY <1>5, <3>1, <3>2
  <2>7. \A x \in 1 .. n : \A t \in Int :
          r[x].start <= t /\ t < r[x].end => \E m \in 1 .. i : v[m].start <= t /\ t < v[m].end
    <3> SUFFICES ASSUME NEW x \in 1 .. n, NEW t \in Int, r[x].start <= t, t < r[x].end
                 PROVE  \E m \in 1 .. i : v[m].start <= t /\ t < v[m].end
      OBVIOUS
    <3>1. CASE acc[x].start <= t /\ t < acc[x].end
      <4>1. PICK m \in 1 .. i - 1 : v[m].start <= t /\ t < v[m].end
        BY <3>1 DEF Merged
      <4> QED
        BY <4>1
    <3>2. CASE ~(acc[x].start <= t /\ t < acc[x].end)
      <4>1. ~(t < acc[x].end)
        BY <2>3, <3>2
      <4>2. x = n
        BY <1>9, <2>2, <4>1
      <4>3. v[i].start <= t /\ t < v[i].end
        <5>1. acc[n].end <= t /\ t < r[n].end
          BY <2>1, <4>1, <4>2
        <5>2. r[n].end = item.end
          <6>1. r[n].end # acc[n].end
            BY <2>1, <5>1, NotBoth
          <6> QED
            BY <1>9, <6>1
        <5>3. item.start <= t /\ t < item.end
          BY <1>1, <1>9, <2>1, <5>1, <5>2
        <5> QED
          BY <5>3
      <4> QED
        BY <4>3
    <3> QED
      BY <3>1, <3>2
  <2>8. \A x \in 1 .. n : \E m \in 1 .. i : r[x].start = v[m].start
    <3> TAKE x \in 1 .. n
    <3>1. PICK m \in 1 .. i - 1 : acc[x].start = v[m].start
      BY DEF Merged
    <3> QED
      BY <2>3, <3>1
  <2> QED
    BY <1>9, <2>4, <2>5, <2>6, <2>7, <2>8 DEF Merged, r
<1> QED
  BY <1>7, <1>8, <1>9

\* The silences that are judged: in order, apart, made of what was found, and all of it.
InOrder(N) ==
    /\ \A x \in 1 .. Len(N) : N[x].start < N[x].end
    /\ \A x, y \in 1 .. Len(N) : x < y => N[x].end < N[y].start
\* Joined silences are in order, do not touch and cover what was found, no more.
LEMMA NormalizedSilences ==
    ASSUME NEW S \in SUBSET Sil, IsFiniteSet(S), Proper(S)
    PROVE  LET N == CP!normalize_silences(S)
           IN  /\ N \in Seq(Sil) /\ InOrder(N)
               /\ \A s \in S : \E x \in 1 .. Len(N) : N[x].start <= s.start /\ s.end <= N[x].end
               /\ \A x \in 1 .. Len(N) : \A t \in Int :
                     N[x].start <= t /\ t < N[x].end => \E s \in S : s.start <= t /\ t < s.end
<1> DEFINE v == CP!Sorted(S)
           N == CP!normalize_silences(S)
<1>1. /\ v \in Seq(S)
      /\ \A s \in S : \E i \in 1 .. Len(v) : v[i] = s
      /\ \A i, j \in 1 .. Len(v) : i < j => v[i].start <= v[j].start
  BY SortedSilences
<1>2. v \in Seq(Sil) /\ Len(v) \in Nat
  BY <1>1
<1>3. \A i \in 1 .. Len(v) : v[i] \in S /\ v[i].start < v[i].end
  BY <1>1 DEF Proper
<1>4. <<>> \in Seq(Sil) /\ \A a \in Seq(Sil), x \in Sil : CP!Join(a, x) \in Seq(Sil)
  BY JoinCases
<1>5. v = CP!Sorted(S)
  OBVIOUS
<1> HIDE DEF v
<1>6. PICK f \in [0 .. Len(v) -> Seq(Sil)] :
              /\ f[0] = <<>>
              /\ \A i \in 1 .. Len(v) : f[i] = CP!Join(f[i - 1], v[i])
              /\ CP!Sorted(S) = v => CP!normalize_silences(S) = f[Len(v)]
  <2> DEFINE St == Seq(Sil)
  <2>1. <<>> \in St /\ \A a \in St, x \in Sil : CP!Join(a, x) \in St
    BY <1>4
  <2> HIDE DEF St
  <2>2. \E f \in [0 .. Len(v) -> St] :
              /\ f[0] = <<>>
              /\ \A i \in 1 .. Len(v) : f[i] = CP!Join(f[i - 1], v[i])
              /\ CP!Sorted(S) = v => CP!normalize_silences(S) = f[Len(v)]
    BY <1>2, <2>1, JoinCourse
  <2> QED
    BY <2>2 DEF St
<1>7. \A i \in 0 .. Len(v) : Merged(f[i], v, i)
  <2> DEFINE B == {i \in 0 .. Len(v) : Merged(f[i], v, i)}
  <2>1. 0 \in B
    <3>1. 0 \in 0 .. Len(v) /\ Len(f[0]) = 0
      BY <1>2, <1>6
    <3> QED
      BY <3>1 DEF Merged
  <2>2. \A i \in 1 .. Len(v) : i - 1 \in B => i \in B
    <3> SUFFICES ASSUME NEW i \in 1 .. Len(v), Merged(f[i - 1], v, i - 1)
                 PROVE  Merged(f[i], v, i)
      BY <1>2
    <3>1. f[i - 1] \in Seq(Sil)
      BY <1>2
    <3> QED
      BY <1>1, <1>2, <1>3, <1>6, <3>1, JoinKeeps
  <2>3. \A i \in 0 .. Len(v) : i \in B
    <3> HIDE DEF B
    <3> QED
      BY <1>2, <2>1, <2>2, Rounds
  <2> QED
    BY <2>3
<1>8. Len(v) \in 0 .. Len(v) /\ f[Len(v)] \in Seq(Sil) /\ N = f[Len(v)]
  BY <1>2, <1>5, <1>6
<1>9. Merged(N, v, Len(v)) /\ N \in Seq(Sil)
  BY <1>7, <1>8
<1> HIDE DEF N
<1>10. \A s \in S : \E x \in 1 .. Len(N) : N[x].start <= s.start /\ s.end <= N[x].end
  <2> TAKE s \in S
  <2>1. PICK i \in 1 .. Len(v) : v[i] = s
    BY <1>1
  <2> QED
    BY <1>9, <2>1 DEF Merged
<1>11. \A x \in 1 .. Len(N) : \A t \in Int :
          N[x].start <= t /\ t < N[x].end => \E s \in S : s.start <= t /\ t < s.end
  BY <1>3, <1>9 DEF Merged
<1> QED
  BY <1>9, <1>10, <1>11 DEF Merged, InOrder, N

-----------------------------------------------------------------------------
(* Protected ranges.                                                       *)
Ranges(total) == {x \in [start : Int, end : Int, hard : BOOLEAN, blocks : BOOLEAN] :
                     0 <= x.start /\ x.start < x.end /\ x.end <= total}

\* A finite set of numbers has a largest member.
LEMMA Largest ==
    ASSUME NEW n \in Nat, NEW S \in SUBSET (0 .. n), S # {}
    PROVE  \E m \in S : \A k \in S : k <= m
<1> DEFINE D == {n - k : k \in S}
<1>1. D \in SUBSET Nat /\ D # {}
  <2>1. \A k \in S : k \in 0 .. n /\ n - k \in Nat
    OBVIOUS
  <2> QED
    BY <2>1
<1>2. PICK d \in D : \A e \in D : d <= e
  <2> HIDE DEF D
  <2> QED
    BY <1>1, Smallest
<1>3. PICK m \in S : d = n - m
  OBVIOUS
<1>4. \A k \in S : k <= m
  <2> TAKE k \in S
  <2>1. n - k \in D
    OBVIOUS
  <2>2. d <= n - k
    BY <1>2, <2>1
  <2> QED
    BY <1>3, <2>2
<1> QED
  BY <1>4

\* The parts of ranges are ranges; what a blocking range forbids to cut, one of its parts forbids.
LEMMA PartsAreRanges ==
    ASSUME NEW total \in Nat, NEW raws \in SUBSET Ranges(total)
    PROVE  CP!partition(raws) \in SUBSET Ranges(total)
<1> DEFINE bounds == {r.start : r \in raws} \cup {r.end : r \in raws}
<1>1. \A b \in bounds : b \in Int /\ 0 <= b /\ b <= total
  BY DEF Ranges
<1>2. SUFFICES ASSUME NEW x \in CP!partition(raws)
               PROVE  x \in Ranges(total)
  OBVIOUS
<1>3. PICK p \in [start : bounds, end : bounds] :
             /\ p.start < p.end
             /\ x = [start |-> p.start, end |-> p.end,
                     hard |-> \E r \in {y \in raws : CP!Intersects(y, p)} : r.hard,
                     blocks |-> \E r \in {y \in raws : CP!Intersects(y, p)} : r.blocks]
  BY DEF CP!partition
<1>4. p.start \in bounds /\ p.end \in bounds
  BY <1>3
<1>5. p.start \in Int /\ p.end \in Int /\ 0 <= p.start /\ p.end <= total
  BY <1>1, <1>4
<1> QED
  BY <1>3, <1>5 DEF Ranges

\* The parts into which ranges are divided block wherever a range does.
LEMMA PartsCover ==
    ASSUME NEW total \in Nat, NEW raws \in SUBSET Ranges(total), NEW r \in raws, r.blocks,
           NEW c, c.start \in Int, c.end \in Int, c.start < c.end, CP!Intersects(c, r)
    PROVE  \E p \in CP!partition(raws) : p.blocks /\ CP!Intersects(c, p)
<1> DEFINE bounds == {y.start : y \in raws} \cup {y.end : y \in raws}
           x == IF c.start >= r.start THEN c.start ELSE r.start
           Up == {b \in bounds : b <= x}
           Down == {b \in bounds : x < b}
<1>1. bounds \in SUBSET (0 .. total)
  BY DEF Ranges
<1>2. /\ r.start \in Int /\ r.end \in Int /\ r.start < r.end /\ r.start \in bounds /\ r.end \in bounds
  BY DEF Ranges
<1>3. x \in Int /\ r.start <= x /\ x < r.end /\ c.start <= x /\ x < c.end
  BY <1>2 DEF CP!Intersects
<1> HIDE DEF bounds, x
<1>4. Up \in SUBSET (0 .. total) /\ r.start \in Up /\ Down \in SUBSET Nat /\ r.end \in Down
  <2>1. \A b \in bounds : b \in 0 .. total /\ b \in Nat
    BY <1>1
  <2> QED
    BY <1>2, <1>3, <2>1
<1>5. PICK a \in Up : \A k \in Up : k <= a
  <2> HIDE DEF Up
  <2> QED
    BY <1>4, Largest
<1>6. PICK b \in Down : \A k \in Down : b <= k
  <2> HIDE DEF Down
  <2> QED
    BY <1>4, Smallest
<1>7. a \in bounds /\ b \in bounds /\ a \in Int /\ b \in Int /\ a <= x /\ x < b
  BY <1>1
<1>8. ~\E k \in bounds : a < k /\ k < b
  <2> SUFFICES ASSUME NEW k \in bounds, a < k, k < b PROVE FALSE
    OBVIOUS
  <2>1. k \in Int
    BY <1>1
  <2>2. CASE k <= x
    BY <1>5, <1>7, <2>1, <2>2
  <2>3. CASE x < k
    BY <1>6, <1>7, <2>1, <2>3
  <2> QED
    BY <1>3, <2>1, <2>2, <2>3
<1> HIDE DEF Up, Down
<1> DEFINE p == [start |-> a, end |-> b]
           Active == {y \in raws : CP!Intersects(y, p)}
           q == [start |-> a, end |-> b, hard |-> \E y \in Active : y.hard, blocks |-> \E y \in Active : y.blocks]
<1>9. r \in Active
  BY <1>2, <1>3, <1>7 DEF CP!Intersects
<1>10. q \in CP!partition(raws)
  <2> DEFINE Act(y) == {z \in raws : CP!Intersects(z, y)}
             Parts == {y \in [start : bounds, end : bounds] :
                          y.start < y.end /\ ~\E k \in bounds : y.start < k /\ k < y.end}
             Part(y) == [start |-> y.start, end |-> y.end, hard |-> \E z \in Act(y) : z.hard,
                         blocks |-> \E z \in Act(y) : z.blocks]
  <2>1. p \in Parts
    BY <1>3, <1>7, <1>8
  <2>2. Act(p) # {}
    BY <1>9
  <2>3. q = Part(p)
    OBVIOUS
  <2>4. CP!partition(raws) = {Part(y) : y \in {z \in Parts : Act(z) # {}}}
    BY DEF CP!partition, bounds
  <2> HIDE DEF Part, Parts, Act, q
  <2> QED
    BY <2>1, <2>2, <2>3, <2>4
<1>11. q.blocks /\ CP!Intersects(c, q)
  BY <1>3, <1>7, <1>9 DEF CP!Intersects
<1> QED
  BY <1>10, <1>11

LEMMA Between ==
    \A a, b \in Int : /\ CP!Min({a, b}) \in Int /\ CP!Min({a, b}) <= a /\ CP!Min({a, b}) <= b
                      /\ CP!Min({a, b}) = a \/ CP!Min({a, b}) = b
                      /\ CP!Max({a, b}) \in Int /\ CP!Max({a, b}) >= a /\ CP!Max({a, b}) >= b
                      /\ CP!Max({a, b}) = a \/ CP!Max({a, b}) = b
<1> TAKE a, b \in Int
<1>1. CP!Max({a, b}) = (IF a >= b THEN a ELSE b) /\ CP!Min({a, b}) = (IF a <= b THEN a ELSE b)
  BY TwoNumbers, Zenon
<1> QED
  BY <1>1

\* What is known of the events of a finalized recording.
LEMMA EventNumbers ==
    ASSUME NEW q, Finalized(q)
    PROVE  /\ q.total \in Nat \ {0} /\ IsFiniteSet(q.events)
           /\ \A e \in q.events : /\ e.frame \in Nat /\ e.before \in Nat /\ e.after \in Nat /\ e.uncertainty \in Nat
                                  /\ e.end \in Int /\ e.ns \in Int /\ e.hard \in BOOLEAN /\ e.blocks \in BOOLEAN
<1>1. ASSUME NEW e \in q.events
      PROVE  /\ e.frame \in Nat /\ e.before \in Nat /\ e.after \in Nat /\ e.uncertainty \in Nat
             /\ e.end \in Int /\ e.ns \in Int /\ e.hard \in BOOLEAN /\ e.blocks \in BOOLEAN
  <2>1. /\ {e.frame, e.before, e.after, e.uncertainty} \subseteq Nat
        /\ {e.end, e.ns} \subseteq Int
        /\ {e.hard, e.blocks} \subseteq BOOLEAN
    BY DEF Finalized
  <2>2. e.frame \in Nat /\ e.before \in Nat /\ e.after \in Nat /\ e.uncertainty \in Nat
    BY <2>1, Zenon
  <2>3. e.end \in Int /\ e.ns \in Int /\ e.hard \in BOOLEAN /\ e.blocks \in BOOLEAN
    BY <2>1, Zenon
  <2> QED
    BY <2>2, <2>3
<1>2. q.total \in Nat \ {0} /\ IsFiniteSet(q.events)
  BY DEF Finalized
<1> QED
  BY <1>1, <1>2

\* What is assumed of the parameters.
LEMMA Parameters ==
    /\ Rounding \in Nat /\ HandleBefore \in Nat /\ HandleAfter \in Nat /\ MinimumKeepIsland \in Nat
    /\ INTRO_CUT_OFFSET_FRAMES \in Nat /\ INTRO_FLOW_PROTECTED_FRAMES \in Nat
    /\ TicksPerFrame \in Nat \ {0} /\ MinimumCut \in Nat \ {0} /\ MinimumSilence \in Int /\ OutroProtection \in Int
    /\ INTRO_CUT_OFFSET_FRAMES + 1 <= OutroProtection
    /\ INTRO_CUT_OFFSET_FRAMES + MinimumKeepIsland <= OutroProtection
<1>1. /\ {Rounding, HandleBefore, HandleAfter, MinimumKeepIsland, INTRO_CUT_OFFSET_FRAMES,
          INTRO_FLOW_PROTECTED_FRAMES} \subseteq Nat
      /\ {TicksPerFrame, MinimumCut} \subseteq Nat \ {0}
      /\ \A island \in {1, MinimumKeepIsland} : INTRO_CUT_OFFSET_FRAMES + island <= OutroProtection
      /\ MinimumSilence \in Int /\ OutroProtection \in Int
  BY ProposalsAssumption, Zenon
<1>2. /\ Rounding \in Nat /\ HandleBefore \in Nat /\ HandleAfter \in Nat /\ MinimumKeepIsland \in Nat
      /\ INTRO_CUT_OFFSET_FRAMES \in Nat /\ INTRO_FLOW_PROTECTED_FRAMES \in Nat
  BY <1>1, Zenon
<1>3. TicksPerFrame \in Nat \ {0} /\ MinimumCut \in Nat \ {0}
  BY <1>1, Zenon
<1>4. 1 \in {1, MinimumKeepIsland} /\ MinimumKeepIsland \in {1, MinimumKeepIsland}
  OBVIOUS
<1>5. INTRO_CUT_OFFSET_FRAMES + 1 <= OutroProtection /\ INTRO_CUT_OFFSET_FRAMES + MinimumKeepIsland <= OutroProtection
  BY <1>1, <1>4, Zenon
<1> QED
  BY <1>1, <1>2, <1>3, <1>5

LEMMA TheOnlyOne ==
    ASSUME NEW S, S # {}
    PROVE  CP!The(S) \in S
BY DEF CP!The

\* The correction for the lag of the pipeline is never negative.
LEMMA LagIsNatural ==
    ASSUME NEW q, Finalized(q)
    PROVE  CP!pipeline_lag_frames(q.events) \in Nat
<1> DEFINE starts == CP!OfType(q.events, {"recording_started"})
<1>1. CASE CP!Cardinality(starts) # 1 \/ CP!The(starts).ns <= 0
  BY <1>1 DEF CP!pipeline_lag_frames
<1>2. CASE ~(CP!Cardinality(starts) # 1 \/ CP!The(starts).ns <= 0)
  <2>1. Cardinality(starts) = 1
    BY <1>2, SizeOfSet
  <2>2. starts # {}
    BY <2>1, FS_EmptySet
  <2>3. CP!The(starts) \in q.events
    BY <2>2, TheOnlyOne DEF CP!OfType
  <2>4. CP!The(starts).ns \in Nat
    BY <1>2, <2>3, EventNumbers
  <2>5. CP!RoundHalfUp(CP!The(starts).ns, TicksPerFrame) \in Nat
    <3> HIDE DEF starts
    <3>1. \A n \in Nat : CP!RoundHalfUp(n, TicksPerFrame) \in Nat
      BY Parameters DEF CP!RoundHalfUp
    <3> QED
      BY <2>4, <3>1
  <2>6. CP!pipeline_lag_frames(q.events) = CP!RoundHalfUp(CP!The(starts).ns, TicksPerFrame)
    BY <1>2 DEF CP!pipeline_lag_frames
  <2> QED
    BY <2>5, <2>6
<1> QED
  BY <1>1, <1>2

LEMMA CorrectedFrames ==
    ASSUME NEW q, Finalized(q), NEW e \in q.events, NEW lag \in Nat
    PROVE  /\ CP!corrected_source_frame(e, lag, q.total) \in Int
           /\ CP!corrected_end_source_frame(e, lag, q.total) \in Int
           /\ CP!uncertainty_padding(e) \in Nat
<1>1. e.frame \in Int /\ e.end \in Int /\ e.uncertainty \in Nat /\ q.total \in Int
  BY EventNumbers
<1>2. CP!Min({q.total, e.frame + lag}) \in Int /\ CP!Min({q.total, e.end + lag}) \in Int
  <2>1. e.frame + lag \in Int /\ e.end + lag \in Int
    BY <1>1
  <2> QED
    BY <1>1, <2>1, Between, Zenon
<1> QED
  BY <1>1, <1>2, Parameters DEF CP!corrected_source_frame, CP!corrected_end_source_frame, CP!uncertainty_padding

\* A range that is not empty lies in the recording.
LEMMA RawRangesAreRanges ==
    ASSUME NEW q, Finalized(q)
    PROVE  CP!RawRanges(q.events, q.total) \in SUBSET Ranges(q.total)
<1> DEFINE lag == CP!pipeline_lag_frames(q.events)
           Within(x) == x \in [start : Int, end : Int, hard : BOOLEAN, blocks : BOOLEAN] /\ 0 <= x.start /\ x.end <= q.total
<1>1. lag \in Nat /\ q.total \in Nat
  BY LagIsNatural, EventNumbers
<1>2. ASSUME NEW a \in Int, NEW b \in Int, NEW h \in BOOLEAN, NEW k \in BOOLEAN
      PROVE  Within([start |-> CP!Max({0, a}), end |-> CP!Min({q.total, b}), hard |-> h, blocks |-> k])
  <2>1. CP!Max({0, a}) \in Int /\ 0 <= CP!Max({0, a}) /\ CP!Min({q.total, b}) \in Int /\ CP!Min({q.total, b}) <= q.total
    <3>1. q.total \in Int /\ 0 \in Int
      BY <1>1
    <3>2. CP!Max({0, a}) \in Int /\ CP!Max({0, a}) >= 0 /\ CP!Min({q.total, b}) \in Int /\ CP!Min({q.total, b}) <= q.total
      BY <3>1, Between, Zenon
    <3> QED
      BY <3>2
  <2> QED
    BY <2>1
<1>3. ASSUME NEW e \in q.events
      PROVE  Within(CP!event_range(e, q.total, lag))
  <2> DEFINE first == CP!corrected_source_frame(e, lag, q.total)
             last == IF e.end = CP!None THEN first + 1 ELSE CP!corrected_end_source_frame(e, lag, q.total)
             pad == CP!uncertainty_padding(e)
  <2>1. first \in Int /\ last \in Int /\ pad \in Nat
    BY <1>1, CorrectedFrames
  <2>2. e.before \in Nat /\ e.after \in Nat /\ e.hard \in BOOLEAN /\ e.blocks \in BOOLEAN
    BY EventNumbers
  <2>3. CP!event_range(e, q.total, lag) = [start |-> CP!Max({0, first - pad - e.before}),
          end |-> CP!Min({q.total, last + pad + e.after}), hard |-> e.hard, blocks |-> e.blocks]
    BY DEF CP!event_range
  <2> HIDE DEF first, last, pad, Within
  <2>4. first - pad - e.before \in Int /\ last + pad + e.after \in Int
    BY <2>1, <2>2
  <2> QED
    BY <1>2, <2>2, <2>3, <2>4
<1>4. ASSUME NEW S \in SUBSET q.events, NEW T \in SUBSET q.events
      PROVE  Within(CP!pair_range(S, T, q.total, lag))
  <2> DEFINE first == CP!corrected_source_frame(CP!The(S), lag, q.total) - CP!uncertainty_padding(CP!The(S)) - CP!The(S).before
             last == CP!corrected_source_frame(CP!The(T), lag, q.total) + CP!uncertainty_padding(CP!The(T)) + CP!The(T).after
             start == IF S = {} THEN 0 ELSE CP!Max({0, first})
             end == IF T = {} THEN q.total ELSE CP!Min({q.total, last})
             h == \E e \in S \cup T : e.hard
             k == \E e \in S \cup T : e.blocks
  <2>1. start \in Int /\ 0 <= start
    <3>1. CASE S = {}
      BY <3>1
    <3>2. CASE S # {}
      <4>1. CP!The(S) \in q.events
        BY <3>2, TheOnlyOne
      <4>2. first \in Int
        <5>1. /\ CP!corrected_source_frame(CP!The(S), lag, q.total) \in Int
              /\ CP!uncertainty_padding(CP!The(S)) \in Nat /\ CP!The(S).before \in Nat
          BY <1>1, <4>1, CorrectedFrames, EventNumbers
        <5> QED
          BY <5>1
      <4> HIDE DEF first
      <4> QED
        BY <3>2, <4>2, TwoNumbers
    <3> QED
      BY <3>1, <3>2
  <2>2. end \in Int /\ end <= q.total
    <3>1. CASE T = {}
      BY <1>1, <3>1
    <3>2. CASE T # {}
      <4>1. CP!The(T) \in q.events
        BY <3>2, TheOnlyOne
      <4>2. last \in Int
        <5>1. /\ CP!corrected_source_frame(CP!The(T), lag, q.total) \in Int
              /\ CP!uncertainty_padding(CP!The(T)) \in Nat /\ CP!The(T).after \in Nat
          BY <1>1, <4>1, CorrectedFrames, EventNumbers
        <5> QED
          BY <5>1
      <4> HIDE DEF last
      <4>3. q.total \in Int
        BY <1>1
      <4> QED
        BY <3>2, <4>2, <4>3, Between, Zenon
    <3> QED
      BY <3>1, <3>2
  <2>3. CP!pair_range(S, T, q.total, lag) = [start |-> start, end |-> end, hard |-> h, blocks |-> k]
    BY DEF CP!pair_range
  <2>4. h \in BOOLEAN /\ k \in BOOLEAN
    OBVIOUS
  <2> HIDE DEF start, end, h, k
  <2> QED
    BY <2>1, <2>2, <2>3, <2>4
<1>5. ASSUME NEW x \in CP!RawRanges(q.events, q.total)
      PROVE  Within(x) /\ x.start < x.end
  <2>1. /\ x.start < x.end
        /\ \/ \E g \in CP!PairGroups(q.events) :
                x = CP!pair_range(CP!Side(q.events, g[1], g[2], "start"), CP!Side(q.events, g[1], g[2], "end"), q.total, lag)
           \/ \E e \in q.events : x = CP!event_range(e, q.total, lag)
    BY DEF CP!RawRanges
  <2>2. \A g : CP!Side(q.events, g[1], g[2], "start") \in SUBSET q.events /\ CP!Side(q.events, g[1], g[2], "end") \in SUBSET q.events
    BY DEF CP!Side
  <2> HIDE DEF Within, lag
  <2> QED
    BY <1>3, <1>4, <2>1, <2>2
<1> QED
  BY <1>5 DEF Ranges

-----------------------------------------------------------------------------
(* Both ends of the recording are protected.                               *)
LEMMA EdgesAreProtected ==
    ASSUME NEW q, Finalized(q), NEW island \in {1, MinimumKeepIsland}, island > 0
    PROVE  /\ \E x \in CP!RawRanges(q.events, q.total) :
                 x.blocks /\ x.start = 0 /\ (x.end = q.total \/ x.end >= island)
           /\ \E x \in CP!RawRanges(q.events, q.total) :
                 x.blocks /\ x.end = q.total /\ (x.start = 0 \/ x.start + island <= q.total)
<1> DEFINE lag == CP!pipeline_lag_frames(q.events)
           total == q.total
<1>0. lag \in Nat /\ total \in Nat /\ total > 0 /\ island \in Nat
  BY LagIsNatural, EventNumbers, Parameters
<1>1. ASSUME NEW e \in q.events, e.type \in {"recording_started", "recording_stopped"}
      PROVE  /\ ~CP!is_frontend_sampled(e)
             /\ CP!event_range(e, total, lag).start < CP!event_range(e, total, lag).end
                  => CP!event_range(e, total, lag) \in CP!RawRanges(q.events, q.total)
  <2>1. ~CP!is_frontend_sampled(e)
    BY <1>1 DEF CP!is_frontend_sampled
  <2>2. ~CP!IsPairEvent(e)
    BY <1>1 DEF CP!IsPairEvent, CP!PAIR_TYPES
  <2>3. e.type \notin {"recording_paused", "recording_resumed", "scene_changed"}
    BY <1>1
  <2> HIDE DEF total
  <2> QED
    BY <2>1, <2>2, <2>3 DEF CP!RawRanges, total
<1>2. PICK e \in q.events : /\ e.type = "recording_started" /\ e.blocks /\ e.frame = 0 /\ e.end = -1
                            /\ 1 + e.uncertainty + Rounding + e.after >= island
  BY DEF Finalized
<1>3. PICK f \in q.events : /\ f.type = "recording_stopped" /\ f.blocks /\ f.frame = q.total /\ f.end = -1
                            /\ f.uncertainty + Rounding + f.before >= island
  BY DEF Finalized
<1>4. /\ e.before \in Nat /\ e.after \in Nat /\ e.uncertainty \in Nat /\ f.before \in Nat /\ f.after \in Nat
      /\ f.uncertainty \in Nat /\ Rounding \in Nat
  BY EventNumbers, Parameters
<1>5. CP!event_range(e, total, lag) = [start |-> CP!Max({0, 0 - (e.uncertainty + Rounding) - e.before}),
          end |-> CP!Min({total, 0 + 1 + (e.uncertainty + Rounding) + e.after}), hard |-> e.hard, blocks |-> e.blocks]
  BY <1>1, <1>2 DEF CP!event_range, CP!corrected_source_frame, CP!uncertainty_padding, CP!None
<1>6. CP!event_range(f, total, lag) = [start |-> CP!Max({0, total - (f.uncertainty + Rounding) - f.before}),
          end |-> CP!Min({total, total + 1 + (f.uncertainty + Rounding) + f.after}), hard |-> f.hard, blocks |-> f.blocks]
  BY <1>1, <1>3 DEF CP!event_range, CP!corrected_source_frame, CP!uncertainty_padding, CP!None
<1> DEFINE x == CP!event_range(e, total, lag)
           y == CP!event_range(f, total, lag)
<1>7. x.blocks /\ x.start = 0 /\ (x.end = total \/ x.end >= island) /\ x.start < x.end
  <2>1. 0 - (e.uncertainty + Rounding) - e.before \in Int /\ 0 - (e.uncertainty + Rounding) - e.before <= 0
    BY <1>4
  <2>2. 0 + 1 + (e.uncertainty + Rounding) + e.after \in Int /\ 0 + 1 + (e.uncertainty + Rounding) + e.after >= island
        /\ 0 + 1 + (e.uncertainty + Rounding) + e.after > 0
    BY <1>2, <1>4
  <2>3. CP!Max({0, 0 - (e.uncertainty + Rounding) - e.before}) = 0
    BY <2>1, TwoNumbers
  <2>4. LET m == CP!Min({total, 0 + 1 + (e.uncertainty + Rounding) + e.after}) IN (m = total \/ m >= island) /\ 0 < m
    <3>1. total \in Int
      BY <1>0
    <3> DEFINE b == 0 + 1 + (e.uncertainty + Rounding) + e.after
    <3>2. b \in Int /\ b >= island /\ b > 0
      BY <2>2
    <3>3. CP!Min({total, b}) = total \/ CP!Min({total, b}) = b
      BY <3>1, <3>2, Between, Zenon
    <3> QED
      BY <1>0, <3>2, <3>3
  <2> QED
    BY <1>2, <1>5, <2>3, <2>4
<1>8. y.blocks /\ y.end = total /\ (y.start = 0 \/ y.start + island <= total) /\ y.start < y.end
  <2>1. total - (f.uncertainty + Rounding) - f.before \in Int /\ total - (f.uncertainty + Rounding) - f.before + island <= total
        /\ total - (f.uncertainty + Rounding) - f.before < total
    <3> HIDE DEF total
    <3> QED
      BY <1>0, <1>3, <1>4
  <2>2. total + 1 + (f.uncertainty + Rounding) + f.after \in Int /\ total + 1 + (f.uncertainty + Rounding) + f.after >= total
    BY <1>0, <1>4
  <2>3. CP!Min({total, total + 1 + (f.uncertainty + Rounding) + f.after}) = total
    <3>1. total \in Int
      BY <1>0
    <3> DEFINE b == total + 1 + (f.uncertainty + Rounding) + f.after
    <3>2. b \in Int /\ b >= total
      BY <2>2
    <3>3. /\ CP!Min({total, b}) = total \/ CP!Min({total, b}) = b
          /\ CP!Min({total, b}) <= total
      BY <3>1, <3>2, Between, Zenon
    <3> QED
      BY <3>1, <3>2, <3>3
  <2>4. LET m == CP!Max({0, total - (f.uncertainty + Rounding) - f.before}) IN (m = 0 \/ m + island <= total) /\ m < total
    BY <1>0, <2>1, TwoNumbers
  <2> QED
    BY <1>3, <1>6, <2>3, <2>4
<1>9. x \in CP!RawRanges(q.events, q.total) /\ y \in CP!RawRanges(q.events, q.total)
  <2>1. e.type \in {"recording_started", "recording_stopped"} /\ f.type \in {"recording_started", "recording_stopped"}
    BY <1>2, <1>3
  <2> QED
    BY <1>1, <1>7, <1>8, <2>1
<1> HIDE DEF x, y
<1> QED
  BY <1>7, <1>8, <1>9

-----------------------------------------------------------------------------
(* What is known of an outro and an intro that were found.                 *)
Scene(q, e) == e \in q.events /\ e.type = "scene_changed"
LastScene(q, e) == Scene(q, e) /\ \A f \in q.events : Scene(q, f) /\ f.id # e.id => f.ns < e.ns

\* A resolved outro lies in the recording, behind every other scene.
LEMMA FoundOutro ==
    ASSUME NEW q, Finalized(q)
    PROVE  LET o == CP!resolve_outro(q)
           IN  /\ o.status # "resolved" => o.tail = CP!None
               /\ o.status = "resolved" =>
                    /\ o.start \in Nat /\ o.start < q.total
                    /\ o.protected_end = CP!Min({o.start + OutroProtection, q.total})
                    /\ \/ o.tail = CP!None
                       \/ o.tail = o.start + OutroProtection /\ o.tail < q.total
                    /\ \E e : LastScene(q, e) /\ o.start = e.frame + CP!pipeline_lag_frames(q.events)
<1> DEFINE scenes == CP!OfType(q.events, {"scene_changed"})
           matching == {e \in scenes : e.uuid = "outro"}
           event == CP!The(matching)
           start == event.frame + CP!pipeline_lag_frames(q.events)
           old == ~q.obs
           nameless == \E e \in scenes : e.uuid = CP!NoId
           several == CP!Cardinality(matching) # 1
           renamed == event.name # "outro"
           beyond == start >= q.total
           followed == \E e \in scenes : e.id # event.id /\ e.ns >= event.ns
           found == [status |-> "resolved", start |-> start,
                     protected_end |-> CP!Min({start + OutroProtection, q.total}),
                     tail |-> IF start + OutroProtection < q.total THEN start + OutroProtection ELSE CP!None]
           o == CP!resolve_outro(q)
<1>1. \/ /\ ~(matching = {}) /\ ~beyond /\ ~followed /\ o = found
      \/ \E s \in {"sidecar_missing_scene_uuid", "binding", "scene_collection", "obs_version_mismatch",
                   "no_matching_scene_event", "ambiguous_scene_events", "scene_name_mismatch", "event_out_of_bounds"} :
            o = CP!Unresolved(s)
  <2>1. o = IF q.version # "1.2" THEN CP!Unresolved("sidecar_missing_scene_uuid")
        ELSE IF q.binding # "good" THEN CP!Unresolved("binding")
        ELSE IF q.collection # "match" THEN CP!Unresolved("scene_collection")
        ELSE IF old THEN CP!Unresolved("obs_version_mismatch")
        ELSE IF nameless THEN CP!Unresolved("sidecar_missing_scene_uuid")
        ELSE IF matching = {} THEN CP!Unresolved("no_matching_scene_event")
        ELSE IF several THEN CP!Unresolved("ambiguous_scene_events")
        ELSE IF renamed THEN CP!Unresolved("scene_name_mismatch")
        ELSE IF beyond THEN CP!Unresolved("event_out_of_bounds")
        ELSE IF followed THEN CP!Unresolved("ambiguous_scene_events")
        ELSE found
    BY DEF CP!resolve_outro
  <2> HIDE DEF o, found, followed, beyond, several, renamed, nameless, old, event, matching, scenes
  <2> QED
    BY <2>1, Zenon
<1>2. ASSUME NEW s \in {"sidecar_missing_scene_uuid", "binding", "scene_collection", "obs_version_mismatch",
                   "no_matching_scene_event", "ambiguous_scene_events", "scene_name_mismatch", "event_out_of_bounds"},
             o = CP!Unresolved(s)
      PROVE  o.status # "resolved" /\ o.tail = CP!None
  <2> HIDE DEF o
  <2> QED
    BY <1>2 DEF CP!Unresolved
<1>3. ASSUME ~(matching = {}), ~beyond, ~followed, o = found
      PROVE  /\ o.status = "resolved"
             /\ o.start \in Nat /\ o.start < q.total
             /\ o.protected_end = CP!Min({o.start + OutroProtection, q.total})
             /\ \/ o.tail = CP!None
                \/ o.tail = o.start + OutroProtection /\ o.tail < q.total
             /\ \E e : LastScene(q, e) /\ o.start = e.frame + CP!pipeline_lag_frames(q.events)
  <2>1. event \in matching /\ Scene(q, event)
    <3>1. event \in matching
      BY <1>3, TheOnlyOne
    <3> HIDE DEF event
    <3> QED
      BY <3>1 DEF Scene, CP!OfType
  <2>2. event.frame \in Nat /\ CP!pipeline_lag_frames(q.events) \in Nat /\ q.total \in Nat
    <3>1. event \in q.events
      BY <2>1 DEF Scene
    <3> HIDE DEF event
    <3> QED
      BY <3>1, EventNumbers, LagIsNatural
  <2>3. start \in Nat /\ start < q.total
    <3> HIDE DEF event
    <3> QED
      BY <1>3, <2>2
  <2>4. LastScene(q, event)
    <3>1. ASSUME NEW f \in q.events, Scene(q, f), f.id # event.id
          PROVE  f.ns < event.ns
      <4>1. f \in scenes
        BY <3>1 DEF Scene, CP!OfType
      <4>2. ~(f.ns >= event.ns)
        BY <1>3, <3>1, <4>1
      <4>3. f.ns \in Int /\ event.ns \in Int
        <5>1. event \in q.events
          BY <2>1 DEF Scene
        <5> HIDE DEF event
        <5> QED
          BY <5>1, EventNumbers
      <4> HIDE DEF event
      <4> QED
        BY <4>2, <4>3
    <3> HIDE DEF event
    <3> QED
      BY <2>1, <3>1 DEF LastScene
  <2>5. o.status = "resolved" /\ o.start = start /\ o.protected_end = CP!Min({start + OutroProtection, q.total})
        /\ o.tail = IF start + OutroProtection < q.total THEN start + OutroProtection ELSE CP!None
    <3> HIDE DEF o, start
    <3> QED
      BY <1>3
  <2>6. o.start = event.frame + CP!pipeline_lag_frames(q.events)
    BY <2>5
  <2> HIDE DEF o, event
  <2>7. \/ o.tail = CP!None
        \/ o.tail = o.start + OutroProtection /\ o.tail < q.total
    <3> HIDE DEF start
    <3> QED
      BY <2>5
  <2>8. \E e : LastScene(q, e) /\ o.start = e.frame + CP!pipeline_lag_frames(q.events)
    BY <2>4, <2>6
  <2> HIDE DEF start
  <2> QED
    BY <2>3, <2>5, <2>7, <2>8
<1> HIDE DEF o, found, followed, beyond, event, matching
<1>4. CASE ~(matching = {}) /\ ~beyond /\ ~followed /\ o = found
  BY <1>3, <1>4 DEF o
<1>5. CASE ~(~(matching = {}) /\ ~beyond /\ ~followed /\ o = found)
  BY <1>1, <1>2, <1>5 DEF o
<1> QED
  BY <1>4, <1>5

\* A resolved intro lies in the recording, not behind the tail of the outro.
LEMMA FoundIntro ==
    ASSUME NEW q, Finalized(q), NEW tail, CP!is_resolved(CP!resolve_intro(q, tail))
    PROVE  LET i == CP!resolve_intro(q, tail)
           IN  /\ i.start \in Nat /\ 0 < i.start /\ i.start < q.total
               /\ tail # CP!None => ~(i.start > tail)
               /\ \E e : Scene(q, e) /\ i.start = e.frame + CP!pipeline_lag_frames(q.events) + INTRO_CUT_OFFSET_FRAMES
<1> DEFINE scenes == CP!OfType(q.events, {"scene_changed"})
           named == {e \in scenes : e.name = "intro"}
           matching == IF named # {} THEN named ELSE {e \in scenes : e.uuid = "intro"}
           frames == {e.frame : e \in matching}
           marker == CP!Min(frames)
           start == marker + CP!pipeline_lag_frames(q.events) + INTRO_CUT_OFFSET_FRAMES
           i == CP!resolve_intro(q, tail)
           overlaps == tail # CP!None /\ start > tail
           beyond == start >= q.total
           one == CP!Cardinality(matching) = 1
<1>1. /\ ~(matching = {}) /\ ~(marker = 0) /\ ~beyond /\ ~overlaps
      /\ i.start = start
  <2>1. i = IF matching = {} THEN [status |-> "no_matching_scene_event", start |-> CP!None]
        ELSE IF marker = 0 THEN [status |-> "nothing_before_intro", start |-> 0]
        ELSE IF beyond THEN [status |-> "event_out_of_bounds", start |-> CP!None]
        ELSE IF overlaps THEN [status |-> "overlaps_outro_tail", start |-> start]
        ELSE [status |-> IF one THEN "resolved" ELSE "resolved_first_of_multiple", start |-> start]
    BY DEF CP!resolve_intro
  <2>2. i.status \in {"resolved", "resolved_first_of_multiple"}
    BY DEF CP!is_resolved
  <2> HIDE DEF i, one, overlaps, beyond, marker, matching, start
  <2> QED
    BY <2>1, <2>2
<1>2. matching \in SUBSET {e \in q.events : Scene(q, e)}
  BY DEF Scene, CP!OfType
<1> HIDE DEF matching, i
<1>3. frames \in SUBSET Nat /\ frames # {}
  <2>1. \A e \in matching : e.frame \in Nat
    BY <1>2, EventNumbers
  <2> QED
    BY <1>1, <2>1
<1>4. marker \in frames
  <2>1. \E n \in frames : \A m \in frames : n <= m
    <3> HIDE DEF frames
    <3> QED
      BY <1>3, Smallest
  <2> QED
    BY <2>1 DEF CP!Min
<1>5. PICK e \in matching : marker = e.frame
  BY <1>4
<1>6. Scene(q, e) /\ marker \in Nat
  BY <1>2, <1>3, <1>4
<1> HIDE DEF marker, frames
<1>7. CP!pipeline_lag_frames(q.events) \in Nat /\ INTRO_CUT_OFFSET_FRAMES \in Nat /\ q.total \in Nat
  BY LagIsNatural, Parameters, EventNumbers
<1>8. start \in Nat /\ 0 < start /\ start < q.total
  BY <1>1, <1>6, <1>7
<1>9. \E f : Scene(q, f) /\ i.start = f.frame + CP!pipeline_lag_frames(q.events) + INTRO_CUT_OFFSET_FRAMES
  BY <1>1, <1>5, <1>6
<1>10. tail # CP!None => ~(i.start > tail)
  <2> HIDE DEF start
  <2> QED
    BY <1>1
<1> HIDE DEF start
<1> QED
  BY <1>1, <1>8, <1>9, <1>10 DEF i

\* The lead-in ends before the outro's protection does, by the smallest piece that is kept.
LEMMA IntroBeforeTail ==
    ASSUME NEW q, Finalized(q), NEW o, o = CP!resolve_outro(q), o.status = "resolved", o.tail # CP!None,
           NEW i, i = CP!resolve_intro(q, o.tail), CP!is_resolved(i)
    PROVE  i.start + 1 <= o.tail /\ i.start + MinimumKeepIsland <= o.tail
<1> DEFINE lag == CP!pipeline_lag_frames(q.events)
<1>1. PICK e : LastScene(q, e) /\ o.start = e.frame + lag
  BY FoundOutro
<1>2. PICK f : Scene(q, f) /\ i.start = f.frame + lag + INTRO_CUT_OFFSET_FRAMES
  BY FoundIntro
<1>3. o.tail = o.start + OutroProtection
  BY FoundOutro
<1>4. f.frame <= e.frame
  <2>1. e \in q.events /\ f \in q.events /\ e.frame \in Nat /\ f.frame \in Nat
    BY <1>1, <1>2, EventNumbers DEF LastScene, Scene
  <2>2. CASE f.id = e.id
    BY <2>1, <2>2 DEF Finalized
  <2>3. CASE f.id # e.id
    <3>1. f.ns < e.ns /\ f.type = "scene_changed" /\ e.type = "scene_changed"
      BY <1>1, <1>2, <2>1, <2>3 DEF LastScene, Scene
    <3> QED
      BY <2>1, <3>1 DEF Finalized
  <2> QED
    BY <2>2, <2>3
<1>5. e.frame \in Nat /\ f.frame \in Nat /\ lag \in Nat
  BY <1>1, <1>2, EventNumbers, LagIsNatural DEF LastScene, Scene
<1> HIDE DEF lag
<1> QED
  BY <1>1, <1>2, <1>3, <1>4, <1>5, Parameters

-----------------------------------------------------------------------------
(* A cut that the ranges allow removes nothing that is protected.          *)
\* No event protects what is cut, nor the ends of the recording, nor the outro.
Unprotected(q, o, c) ==
    /\ \A r \in CP!RawRanges(q.events, q.total) : r.blocks => ~CP!Intersects(c, r)
    /\ \A island \in {1, MinimumKeepIsland} : island <= c.start /\ c.end + island <= q.total
    /\ o.status = "resolved" => c.end <= o.start \/ o.protected_end <= c.start

Within(c, total) == c.start \in Int /\ c.end \in Int /\ 0 <= c.start /\ c.start < c.end /\ c.end <= total

\* The first frames of a resolved outro block every cut.
LEMMA OutroRange ==
    ASSUME NEW q, Finalized(q), NEW o, o = CP!resolve_outro(q), o.status = "resolved"
    PROVE  /\ [start |-> o.start, end |-> o.protected_end, hard |-> TRUE, blocks |-> TRUE] \in Ranges(q.total)
           /\ o.start \in Nat /\ o.protected_end \in Int
<1>1. o.start \in Nat /\ o.start < q.total /\ o.protected_end = CP!Min({o.start + OutroProtection, q.total})
  BY FoundOutro
<1>2. q.total \in Int /\ o.start + OutroProtection \in Int /\ o.start < o.start + OutroProtection
  BY <1>1, EventNumbers, Parameters
<1> DEFINE b == o.start + OutroProtection
<1>3. CP!Min({b, q.total}) \in Int /\ CP!Min({b, q.total}) <= q.total /\ (CP!Min({b, q.total}) = b \/ CP!Min({b, q.total}) = q.total)
  BY <1>2, Between, Zenon
<1>4. o.protected_end \in Int /\ o.protected_end <= q.total /\ o.start < o.protected_end
  BY <1>1, <1>2, <1>3
<1> QED
  BY <1>1, <1>4 DEF Ranges

\* A cut that avoids every part of the protection avoids every range and the outro.
LEMMA AllowedIsUnprotected ==
    ASSUME NEW q, Finalized(q), NEW o, o = CP!resolve_outro(q),
           NEW P, P = CP!materialize_protection_with_outro(q.events, q.total, o), P.status = "materialized",
           NEW c, Within(c, q.total), \A p \in P.ranges : p.blocks => ~CP!Intersects(c, p)
    PROVE  Unprotected(q, o, c)
<1> DEFINE raws == CP!RawRanges(q.events, q.total)
           base == CP!materialize_protection(q.events, q.total)
           outro == [start |-> o.start, end |-> o.protected_end, hard |-> TRUE, blocks |-> TRUE]
<1>1. raws \in SUBSET Ranges(q.total) /\ q.total \in Nat
  BY RawRangesAreRanges, EventNumbers
<1>2. c.start \in Int /\ c.end \in Int /\ 0 <= c.start /\ c.start < c.end /\ c.end <= q.total
  BY DEF Within
<1>3. P = IF base.status # "materialized" \/ o.status # "resolved" THEN base
          ELSE [base EXCEPT !.ranges = CP!partition(@ \cup {outro})]
  BY DEF CP!materialize_protection_with_outro
<1>4. base = [status |-> "rejected", ranges |-> {}] \/ base = [status |-> "materialized", ranges |-> CP!partition(raws)]
  BY DEF CP!materialize_protection
<1> HIDE DEF base, raws
<1>5. base = [status |-> "materialized", ranges |-> CP!partition(raws)]
  BY <1>3, <1>4
<1>6. ASSUME NEW r \in raws, r.blocks
      PROVE  ~CP!Intersects(c, r)
  <2> SUFFICES ASSUME CP!Intersects(c, r) PROVE FALSE
    OBVIOUS
  <2>1. PICK p \in CP!partition(raws) : p.blocks /\ CP!Intersects(c, p)
    BY <1>1, <1>2, <1>6, PartsCover
  <2>2. CASE o.status # "resolved"
    BY <1>3, <1>5, <2>1, <2>2
  <2>3. CASE o.status = "resolved"
    <3> DEFINE all == CP!partition(raws) \cup {outro}
    <3>1. P.ranges = CP!partition(all)
      BY <1>3, <1>5, <2>3
    <3>2. all \in SUBSET Ranges(q.total) /\ p \in all
      BY <1>1, <2>3, PartsAreRanges, OutroRange
    <3> HIDE DEF all
    <3>3. \E s \in CP!partition(all) : s.blocks /\ CP!Intersects(c, s)
      BY <1>1, <1>2, <2>1, <3>2, PartsCover
    <3> QED
      BY <3>1, <3>3
  <2> QED
    BY <2>2, <2>3
<1>7. ASSUME o.status = "resolved"
      PROVE  c.end <= o.start \/ o.protected_end <= c.start
  <2> DEFINE all == CP!partition(raws) \cup {outro}
  <2>1. P.ranges = CP!partition(all)
    BY <1>3, <1>5, <1>7
  <2>2. all \in SUBSET Ranges(q.total) /\ outro \in all /\ outro.blocks
    BY <1>1, <1>7, PartsAreRanges, OutroRange
  <2>3. o.start \in Int /\ o.protected_end \in Int
    <3>1. o.start \in Nat /\ o.protected_end \in Int
      BY <1>7, OutroRange, Zenon
    <3> QED
      BY <3>1
  <2>4. ~CP!Intersects(c, outro)
    <3> SUFFICES ASSUME CP!Intersects(c, outro) PROVE FALSE
      OBVIOUS
    <3> HIDE DEF all, outro
    <3>1. \E s \in CP!partition(all) : s.blocks /\ CP!Intersects(c, s)
      BY <1>1, <1>2, <2>2, PartsCover
    <3> QED
      BY <2>1, <3>1
  <2> QED
    BY <1>2, <2>3, <2>4 DEF CP!Intersects
<1>8. ASSUME NEW island \in {1, MinimumKeepIsland}
      PROVE  island <= c.start /\ c.end + island <= q.total
  <2>1. island \in Nat
    BY Parameters
  <2>2. CASE island = 0
    BY <1>2, <2>2
  <2>3. CASE island > 0
    <3>1. PICK x \in raws : x.blocks /\ x.start = 0 /\ (x.end = q.total \/ x.end >= island)
      BY <2>3, EdgesAreProtected DEF raws
    <3>2. PICK y \in raws : y.blocks /\ y.end = q.total /\ (y.start = 0 \/ y.start + island <= q.total)
      BY <2>3, EdgesAreProtected DEF raws
    <3>3. x.start \in Int /\ x.end \in Int /\ y.start \in Int /\ y.end \in Int
      BY <1>1 DEF Ranges
    <3>4. ~(c.start < x.end /\ x.start < c.end) /\ ~(c.start < y.end /\ y.start < c.end)
      BY <1>6, <3>1, <3>2 DEF CP!Intersects
    <3> QED
      BY <1>1, <1>2, <2>1, <3>1, <3>2, <3>3, <3>4
  <2> QED
    BY <2>1, <2>2, <2>3
<1> QED
  BY <1>6, <1>7, <1>8 DEF Unprotected, raws

-----------------------------------------------------------------------------
(* Every silence is answered once.                                         *)
IsAudio(c) == c.reason = "silence"

\* The silences of X, each of them once, are proposed or rejected, and nothing else is.
Once(p, X) ==
    /\ \A x, y \in 1 .. Len(p.proposed) :
          IsAudio(p.proposed[x]) /\ IsAudio(p.proposed[y]) /\ x # y => p.proposed[x].raw # p.proposed[y].raw
    /\ \A x, y \in 1 .. Len(p.rejected) : x # y => p.rejected[x].raw # p.rejected[y].raw
    /\ \A x \in 1 .. Len(p.proposed), y \in 1 .. Len(p.rejected) :
          IsAudio(p.proposed[x]) => p.proposed[x].raw # p.rejected[y].raw
    /\ \A x \in 1 .. Len(p.proposed) : IsAudio(p.proposed[x]) => p.proposed[x].raw \in X
    /\ \A y \in 1 .. Len(p.rejected) : p.rejected[y].raw \in X
    /\ \A v \in X : \/ \E x \in 1 .. Len(p.proposed) : IsAudio(p.proposed[x]) /\ p.proposed[x].raw = v
                    \/ \E y \in 1 .. Len(p.rejected) : p.rejected[y].raw = v

LEMMA Appended ==
    ASSUME NEW S, NEW s \in Seq(S), NEW e \in S
    PROVE  /\ Append(s, e) \in Seq(S) /\ Len(Append(s, e)) = Len(s) + 1 /\ Append(s, e)[Len(s) + 1] = e
           /\ \A x \in 1 .. Len(s) : Append(s, e)[x] = s[x]
           /\ \A x \in 1 .. Len(s) + 1 : x \in 1 .. Len(s) \/ x = Len(s) + 1
           /\ \A x \in 1 .. Len(s) : x \in 1 .. Len(s) + 1 /\ x # Len(s) + 1
           /\ Len(s) + 1 \in 1 .. Len(s) + 1
           /\ Len(s) \in Nat
<1>1. Len(s) \in Nat
  OBVIOUS
<1>2. Append(s, e) \in Seq(S) /\ Len(Append(s, e)) = Len(s) + 1 /\ Append(s, e)[Len(s) + 1] = e
  OBVIOUS
<1>3. \A x \in 1 .. Len(s) : Append(s, e)[x] = s[x]
  OBVIOUS
<1> DEFINE n == Len(s)
<1>4. n \in Nat
  BY <1>1
<1> HIDE DEF n
<1>5. /\ \A x \in 1 .. n + 1 : x \in 1 .. n \/ x = n + 1
      /\ \A x \in 1 .. n : x \in 1 .. n + 1 /\ x # n + 1
      /\ n + 1 \in 1 .. n + 1
  BY <1>4
<1> QED
  BY <1>1, <1>2, <1>3, <1>5 DEF n

LEMMA WithField ==
    ASSUME NEW a, NEW b, NEW z
    PROVE  /\ [[proposed |-> a, rejected |-> b] EXCEPT !.proposed = z] = [proposed |-> z, rejected |-> b]
           /\ [[proposed |-> a, rejected |-> b] EXCEPT !.rejected = z] = [proposed |-> a, rejected |-> z]
OBVIOUS

LEMMA ProposalFields ==
    ASSUME NEW p \in Proposals
    PROVE  /\ p.proposed \in Seq(ProposedCuts) /\ p.rejected \in Seq(Rejections)
           /\ p = [proposed |-> p.proposed, rejected |-> p.rejected]
BY DEF Proposals

LEMMA KeptFields ==
    ASSUME NEW p \in Proposals, NEW c \in ProposedCuts
    PROVE  /\ CP!Kept(p, c) \in Proposals /\ CP!Kept(p, c).proposed = Append(p.proposed, c)
           /\ CP!Kept(p, c).rejected = p.rejected
<1>1. p.proposed \in Seq(ProposedCuts) /\ p.rejected \in Seq(Rejections) /\ p = [proposed |-> p.proposed, rejected |-> p.rejected]
  BY ProposalFields
<1> DEFINE s == Append(p.proposed, c)
<1>2. CP!Kept(p, c) = [p EXCEPT !.proposed = s]
  BY DEF CP!Kept
<1>3. s \in Seq(ProposedCuts)
  BY <1>1
<1> HIDE DEF s
<1>4. CP!Kept(p, c) = [proposed |-> s, rejected |-> p.rejected]
  BY <1>1, <1>2, WithField, Zenon
<1>5. CP!Kept(p, c) \in Proposals
  BY <1>1, <1>3, <1>4 DEF Proposals
<1> QED
  BY <1>4, <1>5 DEF s

LEMMA DroppedFields ==
    ASSUME NEW p \in Proposals, NEW c \in ProposedCuts, NEW reason \in Reasons
    PROVE  /\ CP!Dropped(p, c, reason) \in Proposals /\ CP!Dropped(p, c, reason).proposed = p.proposed
           /\ CP!Dropped(p, c, reason).rejected = Append(p.rejected, [raw |-> c.raw, reason |-> reason])
           /\ [raw |-> c.raw, reason |-> reason] \in Rejections
<1>1. p.proposed \in Seq(ProposedCuts) /\ p.rejected \in Seq(Rejections) /\ p = [proposed |-> p.proposed, rejected |-> p.rejected]
  BY ProposalFields
<1>2. c.raw \in Sil
  BY DEF ProposedCuts
<1> DEFINE no == [raw |-> c.raw, reason |-> reason]
           s == Append(p.rejected, no)
<1>3. no \in Rejections
  BY <1>2 DEF Rejections
<1>4. CP!Dropped(p, c, reason) = [p EXCEPT !.rejected = s]
  BY DEF CP!Dropped
<1> HIDE DEF no
<1>5. s \in Seq(Rejections)
  BY <1>1, <1>3
<1> HIDE DEF s
<1>6. CP!Dropped(p, c, reason) = [proposed |-> p.proposed, rejected |-> s]
  BY <1>1, <1>4, WithField, Zenon
<1>7. CP!Dropped(p, c, reason) \in Proposals
  BY <1>1, <1>5, <1>6 DEF Proposals
<1> QED
  BY <1>3, <1>6, <1>7 DEF s, no

\* Keeping the cut of a new silence answers that silence once.
LEMMA OnceKept ==
    ASSUME NEW p \in Proposals, NEW c \in ProposedCuts, NEW X, Once(p, X), IsAudio(c) => c.raw \notin X
    PROVE  /\ IsAudio(c) => Once(CP!Kept(p, c), X \cup {c.raw})
           /\ ~IsAudio(c) => Once(CP!Kept(p, c), X)
<1> DEFINE r == CP!Kept(p, c)
           n == Len(p.proposed)
           m == Len(p.rejected)
           Y == IF IsAudio(c) THEN X \cup {c.raw} ELSE X
<1>1. p.proposed \in Seq(ProposedCuts)
  BY ProposalFields
<1>2. /\ Len(r.proposed) = n + 1 /\ r.proposed[n + 1] = c /\ r.rejected = p.rejected
      /\ \A x \in 1 .. n : r.proposed[x] = p.proposed[x]
      /\ \A x \in 1 .. n + 1 : x \in 1 .. n \/ x = n + 1
      /\ \A x \in 1 .. n : x \in 1 .. n + 1 /\ x # n + 1
      /\ n + 1 \in 1 .. n + 1
  <2>1. r.proposed = Append(p.proposed, c) /\ r.rejected = p.rejected
    BY KeptFields
  <2> HIDE DEF r
  <2> QED
    BY <1>1, <2>1, Appended
<1> HIDE DEF r, n, m
<1>3. Once(r, Y)
  <2> USE DEF n, m
  <2>1. \A x, y \in 1 .. n + 1 :
          IsAudio(r.proposed[x]) /\ IsAudio(r.proposed[y]) /\ x # y => r.proposed[x].raw # r.proposed[y].raw
    <3> SUFFICES ASSUME NEW x \in 1 .. n + 1, NEW y \in 1 .. n + 1, x # y,
                        IsAudio(r.proposed[x]), IsAudio(r.proposed[y])
                 PROVE  r.proposed[x].raw # r.proposed[y].raw
      OBVIOUS
    <3>1. CASE x \in 1 .. n /\ y \in 1 .. n
      BY <1>2, <3>1 DEF Once
    <3>2. CASE x = n + 1
      <4>1. y \in 1 .. n /\ r.proposed[x] = c /\ IsAudio(c)
        BY <1>2, <3>2
      <4>2. r.proposed[y].raw \in X
        BY <1>2, <4>1 DEF Once
      <4> QED
        BY <4>1, <4>2
    <3>3. CASE y = n + 1
      <4>1. x \in 1 .. n /\ r.proposed[y] = c /\ IsAudio(c)
        BY <1>2, <3>3
      <4>2. r.proposed[x].raw \in X
        BY <1>2, <4>1 DEF Once
      <4> QED
        BY <4>1, <4>2
    <3> QED
      BY <1>2, <3>1, <3>2, <3>3
  <2>2. \A x, y \in 1 .. m : x # y => r.rejected[x].raw # r.rejected[y].raw
    BY <1>2 DEF Once
  <2>3. \A x \in 1 .. n + 1, y \in 1 .. m : IsAudio(r.proposed[x]) => r.proposed[x].raw # r.rejected[y].raw
    <3> SUFFICES ASSUME NEW x \in 1 .. n + 1, NEW y \in 1 .. m, IsAudio(r.proposed[x])
                 PROVE  r.proposed[x].raw # r.rejected[y].raw
      OBVIOUS
    <3>1. r.rejected[y] = p.rejected[y] /\ p.rejected[y].raw \in X
      BY <1>2 DEF Once
    <3>2. CASE x = n + 1
      BY <1>2, <3>1, <3>2
    <3>3. CASE x \in 1 .. n
      <4>1. r.proposed[x] = p.proposed[x] /\ IsAudio(p.proposed[x])
        BY <1>2, <3>3
      <4>2. p.proposed[x].raw # p.rejected[y].raw
        BY <3>3, <4>1 DEF Once
      <4> QED
        BY <3>1, <4>1, <4>2
    <3> QED
      BY <1>2, <3>2, <3>3
  <2>4. \A x \in 1 .. n + 1 : IsAudio(r.proposed[x]) => r.proposed[x].raw \in Y
    BY <1>2 DEF Once
  <2>5. \A y \in 1 .. m : r.rejected[y].raw \in Y
    BY <1>2 DEF Once
  <2>6. \A v \in Y : \/ \E x \in 1 .. n + 1 : IsAudio(r.proposed[x]) /\ r.proposed[x].raw = v
                     \/ \E y \in 1 .. m : r.rejected[y].raw = v
    <3> TAKE v \in Y
    <3>1. CASE v \in X
      <4>1. CASE \E x \in 1 .. n : IsAudio(p.proposed[x]) /\ p.proposed[x].raw = v
        BY <1>2, <4>1
      <4>2. CASE \E y \in 1 .. m : p.rejected[y].raw = v
        BY <1>2, <4>2
      <4> QED
        BY <3>1, <4>1, <4>2 DEF Once
    <3>2. CASE v \notin X
      <4>1. IsAudio(c) /\ v = c.raw
        BY <3>2
      <4> QED
        BY <1>2, <4>1
    <3> QED
      BY <3>1, <3>2
  <2>7. Len(r.proposed) = n + 1 /\ Len(r.rejected) = m
    BY <1>2
  <2> HIDE DEF Y, n, m
  <2> QED
    BY <2>1, <2>2, <2>3, <2>4, <2>5, <2>6, <2>7 DEF Once
<1> QED
  BY <1>3 DEF r

\* So does rejecting it.
LEMMA OnceDropped ==
    ASSUME NEW p \in Proposals, NEW c \in ProposedCuts, NEW reason \in Reasons, NEW X, Once(p, X), c.raw \notin X
    PROVE  Once(CP!Dropped(p, c, reason), X \cup {c.raw})
<1> DEFINE r == CP!Dropped(p, c, reason)
           n == Len(p.proposed)
           m == Len(p.rejected)
           Y == X \cup {c.raw}
<1>1. p.rejected \in Seq(Rejections)
  BY ProposalFields
<1>2. /\ Len(r.rejected) = m + 1 /\ r.rejected[m + 1].raw = c.raw /\ r.proposed = p.proposed
      /\ \A x \in 1 .. m : r.rejected[x] = p.rejected[x]
      /\ \A x \in 1 .. m + 1 : x \in 1 .. m \/ x = m + 1
      /\ \A x \in 1 .. m : x \in 1 .. m + 1 /\ x # m + 1
      /\ m + 1 \in 1 .. m + 1
  <2> DEFINE no == [raw |-> c.raw, reason |-> reason]
  <2>1. r.rejected = Append(p.rejected, no) /\ r.proposed = p.proposed /\ no \in Rejections
    BY DroppedFields
  <2>2. no.raw = c.raw
    OBVIOUS
  <2> HIDE DEF r, no
  <2> QED
    BY <1>1, <2>1, <2>2, Appended
<1> HIDE DEF r, n, m
<1>3. Once(r, Y)
  <2> USE DEF n, m
  <2>1. \A x, y \in 1 .. n :
          IsAudio(r.proposed[x]) /\ IsAudio(r.proposed[y]) /\ x # y => r.proposed[x].raw # r.proposed[y].raw
    BY <1>2 DEF Once
  <2>2. \A x, y \in 1 .. m + 1 : x # y => r.rejected[x].raw # r.rejected[y].raw
    <3>1. \A x \in 1 .. m : r.rejected[x].raw # c.raw
      BY <1>2 DEF Once
    <3>2. \A x, y \in 1 .. m : x # y => r.rejected[x].raw # r.rejected[y].raw
      BY <1>2 DEF Once
    <3> QED
      BY <1>2, <3>1, <3>2
  <2>3. \A x \in 1 .. n, y \in 1 .. m + 1 : IsAudio(r.proposed[x]) => r.proposed[x].raw # r.rejected[y].raw
    <3> SUFFICES ASSUME NEW x \in 1 .. n, NEW y \in 1 .. m + 1, IsAudio(r.proposed[x])
                 PROVE  r.proposed[x].raw # r.rejected[y].raw
      OBVIOUS
    <3>1. r.proposed[x] = p.proposed[x] /\ p.proposed[x].raw \in X
      BY <1>2 DEF Once
    <3>2. CASE y = m + 1
      BY <1>2, <3>1, <3>2
    <3>3. CASE y \in 1 .. m
      BY <1>2, <3>1, <3>3 DEF Once
    <3> QED
      BY <1>2, <3>2, <3>3
  <2>4. \A x \in 1 .. n : IsAudio(r.proposed[x]) => r.proposed[x].raw \in Y
    BY <1>2 DEF Once
  <2>5. \A y \in 1 .. m + 1 : r.rejected[y].raw \in Y
    BY <1>2 DEF Once
  <2>6. \A v \in Y : \/ \E x \in 1 .. n : IsAudio(r.proposed[x]) /\ r.proposed[x].raw = v
                     \/ \E y \in 1 .. m + 1 : r.rejected[y].raw = v
    <3> TAKE v \in Y
    <3>1. CASE v \in X
      <4>1. CASE \E x \in 1 .. n : IsAudio(p.proposed[x]) /\ p.proposed[x].raw = v
        BY <1>2, <4>1
      <4>2. CASE \E y \in 1 .. m : p.rejected[y].raw = v
        BY <1>2, <4>2
      <4> QED
        BY <3>1, <4>1, <4>2 DEF Once
    <3>2. CASE v = c.raw
      BY <1>2, <3>2
    <3> QED
      BY <3>1, <3>2
  <2>7. Len(r.proposed) = n /\ Len(r.rejected) = m + 1
    BY <1>2
  <2> HIDE DEF Y, n, m
  <2> QED
    BY <2>1, <2>2, <2>3, <2>4, <2>5, <2>6, <2>7 DEF Once
<1> QED
  BY <1>3 DEF r

LEMMA TailCourse ==
    ASSUME NEW p \in Proposals, NEW tail, CP!Restarted(p, <<>>) \in Proposals,
           \A a \in Proposals, x \in ProposedCuts : CP!PassTail(a, x, tail) \in Proposals
    PROVE  \E f \in [0 .. Len(p.proposed) -> Proposals] :
              /\ f[0] = CP!Restarted(p, <<>>)
              /\ \A i \in 1 .. Len(p.proposed) : f[i] = CP!PassTail(f[i - 1], p.proposed[i], tail)
              /\ CP!WithoutTail(p, tail) = f[Len(p.proposed)]
<1> DEFINE seq == p.proposed
           base == CP!Restarted(p, <<>>)
           St == Proposals
           n == Len(seq)
           Is(f) == f = [i \in 0 .. n |-> IF i = 0 THEN base ELSE CP!PassTail(f[i - 1], seq[i], tail)]
           F == CHOOSE f : Is(f)
           step == [i \in 1 .. n |-> [a \in St |-> CP!PassTail(a, seq[i], tail)]]
<1>1. CP!WithoutTail(p, tail) = F[n]
  BY DEF CP!WithoutTail, CP!Fold
<1>0. seq \in Seq(ProposedCuts) /\ base \in St /\ \A a \in St, x \in ProposedCuts : CP!PassTail(a, x, tail) \in St
  BY ProposalFields
<1> HIDE DEF base, St, seq
<1>2. base \in St /\ n \in Nat
  BY <1>0
<1>3. \A i \in 1 .. n : seq[i] \in ProposedCuts
  BY <1>0
<1>4. step \in Passes(St, n)
  BY <1>0, <1>3 DEF Passes
<1> HIDE DEF n
<1>5. PICK f : IsCourse(f, St, n, base, step)
  <2> HIDE DEF step
  <2> QED
    BY <1>2, <1>4, CourseExists
<1>6. Is(f)
  <2> USE DEF IsCourse
  <2>1. \A i \in 0 .. n : i # 0 => i \in 1 .. n /\ f[i - 1] \in St
    BY <1>2, <1>5
  <2>2. \A i \in 0 .. n : f[i] = IF i = 0 THEN base ELSE CP!PassTail(f[i - 1], seq[i], tail)
    BY <1>5, <2>1
  <2> QED
    BY <1>5, <2>2
<1>7. Is(F)
  <2> HIDE DEF Is
  <2> QED
    BY <1>6, Zenon
<1> HIDE DEF F, step
<1>8. F[0] = base /\ \A i \in 1 .. n : F[i] = CP!PassTail(F[i - 1], seq[i], tail)
  <2>1. 0 \in 0 .. n /\ \A i \in 1 .. n : i \in 0 .. n /\ i # 0
    BY <1>2
  <2>2. \A i \in 0 .. n : F[i] = IF i = 0 THEN base ELSE CP!PassTail(F[i - 1], seq[i], tail)
    BY <1>7, Zenon
  <2> QED
    BY <2>1, <2>2
<1>9. \A i \in 0 .. n : F[i] \in St
  <2> DEFINE B == {i \in 0 .. n : F[i] \in St}
  <2>1. 0 \in B
    BY <1>2, <1>8
  <2>2. \A i \in 1 .. n : i - 1 \in B => i \in B
    <3> SUFFICES ASSUME NEW i \in 1 .. n, F[i - 1] \in St PROVE F[i] \in St
      BY <1>2
    <3> QED
      BY <1>0, <1>3, <1>8
  <2>3. \A i \in 0 .. n : i \in B
    <3> HIDE DEF B
    <3> QED
      BY <1>2, <2>1, <2>2, Rounds
  <2> QED
    BY <2>3
<1>10. F \in [0 .. n -> St]
  BY <1>7, <1>9
<1> QED
  BY <1>1, <1>8, <1>10 DEF n, base, seq, St

LEMMA LeadCourse ==
    ASSUME NEW p \in Proposals, NEW lead, CP!Restarted(p, <<lead>>) \in Proposals,
           \A a \in Proposals, x \in ProposedCuts : CP!PassLead(a, x, lead) \in Proposals
    PROVE  \E f \in [0 .. Len(p.proposed) -> Proposals] :
              /\ f[0] = CP!Restarted(p, <<lead>>)
              /\ \A i \in 1 .. Len(p.proposed) : f[i] = CP!PassLead(f[i - 1], p.proposed[i], lead)
              /\ CP!BehindLead(p, lead) = f[Len(p.proposed)]
<1> DEFINE seq == p.proposed
           base == CP!Restarted(p, <<lead>>)
           St == Proposals
           n == Len(seq)
           Is(f) == f = [i \in 0 .. n |-> IF i = 0 THEN base ELSE CP!PassLead(f[i - 1], seq[i], lead)]
           F == CHOOSE f : Is(f)
           step == [i \in 1 .. n |-> [a \in St |-> CP!PassLead(a, seq[i], lead)]]
<1>1. CP!BehindLead(p, lead) = F[n]
  BY DEF CP!BehindLead, CP!Fold
<1>0. seq \in Seq(ProposedCuts) /\ base \in St /\ \A a \in St, x \in ProposedCuts : CP!PassLead(a, x, lead) \in St
  BY ProposalFields
<1> HIDE DEF base, St, seq
<1>2. base \in St /\ n \in Nat
  BY <1>0
<1>3. \A i \in 1 .. n : seq[i] \in ProposedCuts
  BY <1>0
<1>4. step \in Passes(St, n)
  BY <1>0, <1>3 DEF Passes
<1> HIDE DEF n
<1>5. PICK f : IsCourse(f, St, n, base, step)
  <2> HIDE DEF step
  <2> QED
    BY <1>2, <1>4, CourseExists
<1>6. Is(f)
  <2> USE DEF IsCourse
  <2>1. \A i \in 0 .. n : i # 0 => i \in 1 .. n /\ f[i - 1] \in St
    BY <1>2, <1>5
  <2>2. \A i \in 0 .. n : f[i] = IF i = 0 THEN base ELSE CP!PassLead(f[i - 1], seq[i], lead)
    BY <1>5, <2>1
  <2> QED
    BY <1>5, <2>2
<1>7. Is(F)
  <2> HIDE DEF Is
  <2> QED
    BY <1>6, Zenon
<1> HIDE DEF F, step
<1>8. F[0] = base /\ \A i \in 1 .. n : F[i] = CP!PassLead(F[i - 1], seq[i], lead)
  <2>1. 0 \in 0 .. n /\ \A i \in 1 .. n : i \in 0 .. n /\ i # 0
    BY <1>2
  <2>2. \A i \in 0 .. n : F[i] = IF i = 0 THEN base ELSE CP!PassLead(F[i - 1], seq[i], lead)
    BY <1>7, Zenon
  <2> QED
    BY <2>1, <2>2
<1>9. \A i \in 0 .. n : F[i] \in St
  <2> DEFINE B == {i \in 0 .. n : F[i] \in St}
  <2>1. 0 \in B
    BY <1>2, <1>8
  <2>2. \A i \in 1 .. n : i - 1 \in B => i \in B
    <3> SUFFICES ASSUME NEW i \in 1 .. n, F[i - 1] \in St PROVE F[i] \in St
      BY <1>2
    <3> QED
      BY <1>0, <1>3, <1>8
  <2>3. \A i \in 0 .. n : i \in B
    <3> HIDE DEF B
    <3> QED
      BY <1>2, <2>1, <2>2, Rounds
  <2> QED
    BY <2>3
<1>10. F \in [0 .. n -> St]
  BY <1>7, <1>9
<1> QED
  BY <1>1, <1>8, <1>10 DEF n, base, seq, St


-----------------------------------------------------------------------------
(* One silence after the other.                                            *)
LEMMA TimesGrow ==
    ASSUME NEW T \in Nat \ {0}, NEW a \in Int, NEW b \in Int, a <= b
    PROVE  a * T <= b * T
<1>1. b - a \in Nat
  OBVIOUS
<1>2. (b - a) * T \in Nat
  BY <1>1
<1>3. (b - a) * T = b * T - a * T
  OBVIOUS
<1>4. a * T \in Int /\ b * T \in Int
  OBVIOUS
<1> QED
  BY <1>2, <1>3, <1>4

LEMMA FloorAndCeiling ==
    ASSUME NEW t \in Int
    PROVE  /\ CP!ceil_frame(t) \in Int /\ CP!floor_frame(t) \in Int
           /\ t <= CP!ceil_frame(t) * TicksPerFrame /\ CP!floor_frame(t) * TicksPerFrame <= t
<1>1. TicksPerFrame \in Nat \ {0}
  BY Parameters
<1>2. \A T \in Nat \ {0}, n \in Int : n \div T \in Int /\ (n \div T) * T <= n
  OBVIOUS
<1>3. \A T \in Nat \ {0}, n \in Int : -((-n) \div T) \in Int /\ n <= (-((-n) \div T)) * T
  <2> TAKE T \in Nat \ {0}, n \in Int
  <2> DEFINE k == (-n) \div T
  <2>1. k \in Int /\ k * T <= -n
    BY <1>2
  <2> HIDE DEF k
  <2>2. (-k) * T = -(k * T) /\ k * T \in Int
    BY <2>1
  <2> QED
    BY <2>1, <2>2 DEF k
<1> QED
  BY <1>1, <1>2, <1>3 DEF CP!ceil_frame, CP!floor_frame, CP!CeilDiv

\* The frames of a cut lie in its silence, the handles left out.
LEMMA FramedSilence ==
    ASSUME NEW s \in Sil, NEW total \in Nat
    PROVE  LET r == CP!Framed(s, total)
           IN  /\ r.start \in Int /\ r.end \in Int /\ 0 <= r.start /\ r.end <= total
               /\ s.start + HandleBefore <= r.start * TicksPerFrame
               /\ r.end * TicksPerFrame + HandleAfter <= s.end
<1> DEFINE a == CP!ceil_frame(s.start + HandleBefore)
           b == CP!floor_frame(s.end - HandleAfter)
           x == CP!Max({0, a})
           y == CP!Min({total, b})
           r == CP!Framed(s, total)
<1>1. s.start \in Int /\ s.end \in Int /\ HandleBefore \in Int /\ HandleAfter \in Int /\ TicksPerFrame \in Nat \ {0}
  BY Parameters DEF Sil
<1>2. s.start + HandleBefore \in Int /\ s.end - HandleAfter \in Int
  BY <1>1
<1>3. a \in Int /\ b \in Int /\ s.start + HandleBefore <= a * TicksPerFrame /\ b * TicksPerFrame <= s.end - HandleAfter
  BY <1>2, FloorAndCeiling
<1>4. r = [start |-> x, end |-> y]
  BY DEF CP!Framed
<1> HIDE DEF a, b, r
<1>5. 0 \in Int /\ total \in Int
  OBVIOUS
<1>6. x \in Int /\ x >= 0 /\ x >= a /\ y \in Int /\ y <= total /\ y <= b
  BY <1>3, <1>5, Between, Zenon
<1> HIDE DEF x, y
<1>7. a * TicksPerFrame <= x * TicksPerFrame /\ y * TicksPerFrame <= b * TicksPerFrame
  <2>1. a <= x /\ y <= b
    BY <1>3, <1>6
  <2> QED
    BY <1>1, <1>3, <1>6, <2>1, TimesGrow
<1>8. /\ a * TicksPerFrame \in Int /\ x * TicksPerFrame \in Int
      /\ b * TicksPerFrame \in Int /\ y * TicksPerFrame \in Int
  BY <1>1, <1>3, <1>6
<1>9. s.start + HandleBefore <= x * TicksPerFrame /\ y * TicksPerFrame + HandleAfter <= s.end
  BY <1>1, <1>3, <1>7, <1>8
<1> QED
  BY <1>4, <1>6, <1>9 DEF r

CutOf(s, total) == [start |-> CP!Framed(s, total).start, end |-> CP!Framed(s, total).end, reason |-> "silence", raw |-> s]

\* A silence is proposed when nothing speaks against it, and rejected otherwise.
LEMMA JudgeCases ==
    ASSUME NEW acc \in Proposals, NEW s \in Sil, NEW total \in Nat, NEW ranges
    PROVE  LET c == CutOf(s, total)
           IN  /\ c \in ProposedCuts
               /\ \/ /\ CP!Judge(acc, s, total, ranges) = CP!Kept(acc, c)
                     /\ ~(c.end - c.start < MinimumCut)
                     /\ \A p \in ranges : p.blocks => ~CP!Intersects(c, p)
                     /\ acc.proposed = <<>> \/ ~(c.start - acc.proposed[Len(acc.proposed)].end < MinimumKeepIsland)
                  \/ \E reason \in Reasons : CP!Judge(acc, s, total, ranges) = CP!Dropped(acc, c, reason)
<1> DEFINE r == CP!Framed(s, total)
           c == CutOf(s, total)
           conflicts == {p \in ranges : p.blocks /\ CP!Intersects(r, p)}
           verdict == CP!Verdict(acc, s, total, ranges)
           c1 == s.end - s.start < MinimumSilence
           c2 == r.start >= total \/ r.end <= 0
           c3 == r.end - r.start < MinimumCut
           c4 == \E p \in conflicts : p.hard
           c6 == acc.proposed # <<>> /\ r.start - acc.proposed[Len(acc.proposed)].end < MinimumKeepIsland
<1>1. c \in ProposedCuts /\ c.start = r.start /\ c.end = r.end /\ c.raw = s
  <2>1. r.start \in Int /\ r.end \in Int
    BY FramedSilence
  <2> QED
    BY <2>1 DEF ProposedCuts, Kinds, CutOf
<1>2. verdict = IF c1 THEN "below_minimum_silence" ELSE IF c2 THEN "outside_source_timeline"
                ELSE IF c3 THEN "below_minimum_cut_after_handles" ELSE IF c4 THEN "hard_protection_overlap"
                ELSE IF conflicts # {} THEN "soft_or_uncertain_protection_overlap"
                ELSE IF c6 THEN "minimum_keep_island" ELSE "clear"
  BY DEF CP!Verdict
<1>3. CP!Judge(acc, s, total, ranges) = IF verdict = "clear" THEN CP!Kept(acc, c) ELSE CP!Dropped(acc, c, verdict)
  BY DEF CP!Judge, CutOf
<1>4. verdict \in Reasons \/ (verdict = "clear" /\ ~c3 /\ conflicts = {} /\ ~c6)
  <2> HIDE DEF verdict, c1, c2, c3, c4, conflicts, c6
  <2> QED
    BY <1>2 DEF Reasons
<1>5. "clear" \notin Reasons
  BY DEF Reasons
<1> HIDE DEF verdict, c
<1>6. CASE verdict \in Reasons
  <2>1. CP!Judge(acc, s, total, ranges) = CP!Dropped(acc, c, verdict)
    BY <1>3, <1>5, <1>6
  <2> QED
    BY <1>1, <1>6, <2>1 DEF c
<1>7. CASE verdict = "clear" /\ ~c3 /\ conflicts = {} /\ ~c6
  <2>1. CP!Judge(acc, s, total, ranges) = CP!Kept(acc, c)
    BY <1>3, <1>7
  <2>2. ASSUME NEW p \in ranges, p.blocks
        PROVE  ~CP!Intersects(c, p)
    <3>1. ~CP!Intersects(r, p)
      BY <1>7, <2>2
    <3> HIDE DEF r
    <3> QED
      BY <1>1, <3>1 DEF CP!Intersects
  <2>3. ~(c.end - c.start < MinimumCut)
    <3> HIDE DEF r
    <3> QED
      BY <1>1, <1>7
  <2>4. acc.proposed = <<>> \/ ~(c.start - acc.proposed[Len(acc.proposed)].end < MinimumKeepIsland)
    <3> HIDE DEF r
    <3> QED
      BY <1>1, <1>7
  <2> QED
    BY <1>1, <2>1, <2>2, <2>3, <2>4 DEF c
<1> QED
  BY <1>4, <1>6, <1>7

\* A cut for a silence, inside it and outside of everything protected.
Honest(q, o, c) ==
    /\ IsAudio(c) /\ Within(c, q.total) /\ Unprotected(q, o, c)
    /\ c.raw.start + HandleBefore <= c.start * TicksPerFrame
    /\ c.end * TicksPerFrame + HandleAfter <= c.raw.end
Spaced(s) == \A x, y \in 1 .. Len(s) : x < y => s[x].end + MinimumKeepIsland <= s[y].start
Upto(s, i) == {s[m] : m \in 1 .. i}

LEMMA FarEnough ==
    /\ \A a, b, k \in Int : 0 < k /\ ~(b - a < k) => a < b
    /\ \A a, b, k \in Int : ~(a - b < k) => b + k <= a
OBVIOUS

LEMMA SpacedAppend ==
    ASSUME NEW s \in Seq(ProposedCuts), NEW c \in ProposedCuts, Spaced(s),
           \A x \in 1 .. Len(s) : s[x].end + MinimumKeepIsland <= c.start
    PROVE  Spaced(Append(s, c))
<1> DEFINE n == Len(s)
           r == Append(s, c)
<1>1. /\ Len(r) = n + 1 /\ r[n + 1] = c /\ n \in Nat
      /\ \A x \in 1 .. n : r[x] = s[x]
      /\ \A x \in 1 .. n + 1 : x \in 1 .. n \/ x = n + 1
  BY Appended
<1> HIDE DEF n, r
<1>2. ASSUME NEW x \in 1 .. n + 1, NEW y \in 1 .. n + 1, x < y
      PROVE  r[x].end + MinimumKeepIsland <= r[y].start
  <2>1. x \in 1 .. n
    BY <1>1, <1>2
  <2>2. CASE y = n + 1
    BY <1>1, <2>1, <2>2 DEF n
  <2>3. CASE y \in 1 .. n
    BY <1>1, <1>2, <2>1, <2>3 DEF n, Spaced
  <2> QED
    BY <1>1, <2>2, <2>3
<1> QED
  BY <1>1, <1>2 DEF Spaced, r

LEMMA OneMore ==
    ASSUME NEW S, NEW s \in Seq(S), NEW i \in 1 .. Len(s)
    PROVE  Upto(s, i) = Upto(s, i - 1) \cup {s[i]}
<1>1. \A m : m \in 1 .. i <=> m \in 1 .. i - 1 \/ m = i
  OBVIOUS
<1> QED
  BY <1>1 DEF Upto

LEMMA NewSilence ==
    ASSUME NEW N \in Seq(Sil), InOrder(N), NEW i \in 1 .. Len(N)
    PROVE  N[i] \notin Upto(N, i - 1)
<1> SUFFICES ASSUME NEW m \in 1 .. i - 1, N[m] = N[i] PROVE FALSE
  BY DEF Upto
<1>1. m \in 1 .. Len(N) /\ m < i
  OBVIOUS
<1>2. N[m].end < N[i].start /\ N[i].start < N[i].end
  BY <1>1 DEF InOrder
<1>3. N[i].start \in Int /\ N[i].end \in Int
  <2>1. \A s \in Sil : s.start \in Int /\ s.end \in Int
    BY DEF Sil
  <2> QED
    BY <2>1
<1>4. \A a, b, c \in Int : ~(c < a /\ a < b /\ c = b)
  OBVIOUS
<1> QED
  BY <1>2, <1>3, <1>4

\* After i silences: each of them is answered once, what is proposed is honest and apart.
Judged(acc, N, i, q, o) ==
    /\ Once(acc, Upto(N, i))
    /\ \A x \in 1 .. Len(acc.proposed) : Honest(q, o, acc.proposed[x])
    /\ Spaced(acc.proposed)

\* A round keeps its invariant: every silence so far is answered once, the proposed cuts
\* are honest and apart.
LEMMA JudgeKeeps ==
    ASSUME NEW q, Finalized(q), NEW o, o = CP!resolve_outro(q),
           NEW P, P = CP!materialize_protection_with_outro(q.events, q.total, o), P.status = "materialized",
           NEW N \in Seq(Sil), InOrder(N), NEW i \in 1 .. Len(N),
           NEW acc \in Proposals, Judged(acc, N, i - 1, q, o)
    PROVE  /\ CP!Judge(acc, N[i], q.total, P.ranges) \in Proposals
           /\ Judged(CP!Judge(acc, N[i], q.total, P.ranges), N, i, q, o)
<1> DEFINE s == N[i]
           total == q.total
           c == CutOf(s, total)
           r == CP!Judge(acc, s, total, P.ranges)
<1>1. s \in Sil /\ total \in Nat
  BY EventNumbers
<1>2. c \in ProposedCuts /\ c.raw = s /\ IsAudio(c) /\ c.start = CP!Framed(s, total).start /\ c.end = CP!Framed(s, total).end
  BY <1>1, JudgeCases DEF CutOf, IsAudio
<1>3. /\ c.start \in Int /\ c.end \in Int /\ 0 <= c.start /\ c.end <= total
      /\ c.raw.start + HandleBefore <= c.start * TicksPerFrame
      /\ c.end * TicksPerFrame + HandleAfter <= c.raw.end
  BY <1>1, <1>2, FramedSilence
<1>4. Once(acc, Upto(N, i - 1)) /\ c.raw \notin Upto(N, i - 1) /\ Upto(N, i) = Upto(N, i - 1) \cup {c.raw}
  BY <1>2, NewSilence, OneMore DEF Judged
<1>5. acc.proposed \in Seq(ProposedCuts)
  BY ProposalFields
<1>6. \/ /\ r = CP!Kept(acc, c)
         /\ ~(c.end - c.start < MinimumCut)
         /\ \A p \in P.ranges : p.blocks => ~CP!Intersects(c, p)
         /\ acc.proposed = <<>> \/ ~(c.start - acc.proposed[Len(acc.proposed)].end < MinimumKeepIsland)
      \/ \E reason \in Reasons : r = CP!Dropped(acc, c, reason)
  <2> HIDE DEF s, total
  <2> QED
    BY <1>1, JudgeCases
<1> HIDE DEF s, total, c, r
<1>7. CASE /\ r = CP!Kept(acc, c)
           /\ ~(c.end - c.start < MinimumCut)
           /\ \A p \in P.ranges : p.blocks => ~CP!Intersects(c, p)
           /\ acc.proposed = <<>> \/ ~(c.start - acc.proposed[Len(acc.proposed)].end < MinimumKeepIsland)
  <2>1. c.start < c.end
    <3>1. MinimumCut \in Int /\ 0 < MinimumCut
      BY Parameters
    <3> QED
      BY <1>3, <1>7, <3>1, FarEnough, Zenon
  <2>2. Within(c, total)
    BY <1>3, <2>1 DEF Within
  <2>3. Unprotected(q, o, c)
    BY <1>7, <2>2, AllowedIsUnprotected DEF total
  <2>4. Honest(q, o, c)
    BY <1>2, <1>3, <2>2, <2>3 DEF Honest, total
  <2> DEFINE n == Len(acc.proposed)
  <2>5. r \in Proposals /\ r.proposed = Append(acc.proposed, c)
    BY <1>2, <1>7, KeptFields
  <2>6. \A x \in 1 .. n : acc.proposed[x].end + MinimumKeepIsland <= c.start
    <3> TAKE x \in 1 .. n
    <3>1. n \in 1 .. n /\ acc.proposed # <<>> /\ n \in Nat
      BY <1>5
    <3>2. ~(c.start - acc.proposed[n].end < MinimumKeepIsland)
      BY <1>7, <3>1
    <3>3. Honest(q, o, acc.proposed[n]) /\ Honest(q, o, acc.proposed[x])
      BY <3>1 DEF Judged
    <3>4. /\ acc.proposed[n].start \in Int /\ acc.proposed[n].end \in Int /\ acc.proposed[n].start < acc.proposed[n].end
          /\ acc.proposed[x].end \in Int
      BY <3>3 DEF Honest, Within
    <3>5. CASE x = n
      <4>1. MinimumKeepIsland \in Int
        BY Parameters
      <4> QED
        BY <1>3, <3>2, <3>4, <3>5, <4>1, FarEnough, Zenon
    <3>6. CASE x # n
      <4>1. x < n
        BY <3>1, <3>6
      <4>2. acc.proposed[x].end + MinimumKeepIsland <= acc.proposed[n].start
        BY <3>1, <4>1 DEF Judged, Spaced
      <4>3. MinimumKeepIsland \in Int /\ 0 <= MinimumKeepIsland
        BY Parameters
      <4> DEFINE a == acc.proposed[x].end
                 b == acc.proposed[n].start
                 d == acc.proposed[n].end
                 e == c.start
                 k == MinimumKeepIsland
      <4>4. /\ a \in Int /\ b \in Int /\ d \in Int /\ e \in Int /\ k \in Int /\ 0 <= k
            /\ a + k <= b /\ b < d /\ ~(e - d < k)
        BY <1>3, <3>2, <3>4, <4>2, <4>3
      <4> HIDE DEF a, b, d, e, k
      <4>5. a + k <= e
        BY <4>4
      <4> QED
        BY <4>5 DEF a, e, k
    <3> QED
      BY <3>5, <3>6
  <2>7. Spaced(r.proposed)
    BY <1>2, <1>5, <2>5, <2>6, SpacedAppend DEF Judged
  <2>8. \A x \in 1 .. Len(r.proposed) : Honest(q, o, r.proposed[x])
    <3>1. /\ Len(r.proposed) = n + 1 /\ r.proposed[n + 1] = c
          /\ \A x \in 1 .. n : r.proposed[x] = acc.proposed[x]
          /\ \A x \in 1 .. n + 1 : x \in 1 .. n \/ x = n + 1
      BY <1>2, <1>5, <2>5, Appended
    <3> QED
      BY <2>4, <3>1 DEF Judged
  <2>9. Once(r, Upto(N, i))
    BY <1>2, <1>4, <1>7, OnceKept
  <2> QED
    BY <2>5, <2>7, <2>8, <2>9 DEF Judged, r, s, total
<1>8. CASE \E reason \in Reasons : r = CP!Dropped(acc, c, reason)
  <2>1. PICK reason \in Reasons : r = CP!Dropped(acc, c, reason)
    BY <1>8
  <2>3. r \in Proposals /\ r.proposed = acc.proposed
    BY <1>2, <2>1, DroppedFields
  <2>4. Once(r, Upto(N, i))
    BY <1>2, <1>4, <2>1, OnceDropped
  <2> QED
    BY <2>3, <2>4 DEF Judged, r, s, total
<1> QED
  BY <1>6, <1>7, <1>8

\* After all rounds every silence is answered.
LEMMA JudgedSilences ==
    ASSUME NEW q, Finalized(q), NEW o, o = CP!resolve_outro(q),
           NEW P, P = CP!materialize_protection_with_outro(q.events, q.total, o), P.status = "materialized",
           NEW S \in SUBSET Sil, IsFiniteSet(S), Proper(S),
           NEW N, N = CP!normalize_silences(S)
    PROVE  /\ CP!build_cut_candidates(S, q.total, P.ranges) \in Proposals
           /\ Judged(CP!build_cut_candidates(S, q.total, P.ranges), N, Len(N), q, o)
<1> DEFINE base == [proposed |-> <<>>, rejected |-> <<>>]
<1>1. N \in Seq(Sil) /\ InOrder(N) /\ Len(N) \in Nat
  BY NormalizedSilences
<1>2. base \in Proposals
  BY DEF Proposals
<1>3. \A a \in Proposals, x \in Sil : CP!Judge(a, x, q.total, P.ranges) \in Proposals
  <2> TAKE a \in Proposals, x \in Sil
  <2>1. q.total \in Nat
    BY EventNumbers
  <2> DEFINE c == CutOf(x, q.total)
             r == CP!Judge(a, x, q.total, P.ranges)
  <2>2. c \in ProposedCuts /\ (r = CP!Kept(a, c) \/ \E reason \in Reasons : r = CP!Dropped(a, c, reason))
    BY <2>1, JudgeCases
  <2> HIDE DEF c, r
  <2>4. r \in Proposals
    BY <2>2, KeptFields, DroppedFields
  <2> QED
    BY <2>4 DEF r
<1>4. PICK f \in [0 .. Len(N) -> Proposals] :
              /\ f[0] = base
              /\ \A i \in 1 .. Len(N) : f[i] = CP!Judge(f[i - 1], N[i], q.total, P.ranges)
              /\ CP!normalize_silences(S) = N => CP!build_cut_candidates(S, q.total, P.ranges) = f[Len(N)]
  <2> DEFINE total == q.total
             ranges == P.ranges
  <2> HIDE DEF total, ranges
  <2>1. \E f \in [0 .. Len(N) -> Proposals] :
              /\ f[0] = base
              /\ \A i \in 1 .. Len(N) : f[i] = CP!Judge(f[i - 1], N[i], total, ranges)
              /\ CP!normalize_silences(S) = N => CP!build_cut_candidates(S, total, ranges) = f[Len(N)]
    BY <1>1, <1>2, <1>3, JudgeCourse DEF total, ranges
  <2> QED
    BY <2>1 DEF total, ranges
<1>5. \A i \in 0 .. Len(N) : Judged(f[i], N, i, q, o)
  <2> DEFINE B == {i \in 0 .. Len(N) : Judged(f[i], N, i, q, o)}
  <2>1. 0 \in B
    <3>1. 0 \in 0 .. Len(N) /\ f[0].proposed = <<>> /\ f[0].rejected = <<>> /\ Len(<<>>) = 0
      BY <1>1, <1>4
    <3>2. Upto(N, 0) = {}
      BY DEF Upto
    <3> QED
      BY <3>1, <3>2 DEF Judged, Once, Spaced
  <2>2. \A i \in 1 .. Len(N) : i - 1 \in B => i \in B
    <3> SUFFICES ASSUME NEW i \in 1 .. Len(N), Judged(f[i - 1], N, i - 1, q, o)
                 PROVE  Judged(f[i], N, i, q, o)
      BY <1>1
    <3>1. f[i - 1] \in Proposals
      BY <1>1
    <3>2. Judged(CP!Judge(f[i - 1], N[i], q.total, P.ranges), N, i, q, o)
      BY <1>1, <3>1, JudgeKeeps
    <3> QED
      BY <1>4, <3>2
  <2>3. \A i \in 0 .. Len(N) : i \in B
    <3> HIDE DEF B
    <3> QED
      BY <1>1, <2>1, <2>2, Rounds
  <2> QED
    BY <2>3
<1>6. Len(N) \in 0 .. Len(N) /\ f[Len(N)] \in Proposals
  BY <1>1
<1> QED
  BY <1>4, <1>5, <1>6

-----------------------------------------------------------------------------
(* Passing what is proposed on, one cut after the other.                   *)
\* The silences that are rejected or among the first i proposed cuts.
AudioRaws(s, i) == {v \in Sil : \E m \in 1 .. i : IsAudio(s[m]) /\ s[m].raw = v}
Seen(p, i) == {v \in Sil : \E y \in 1 .. Len(p.rejected) : p.rejected[y].raw = v} \cup AudioRaws(p.proposed, i)

LEMMA RawsAreSilences ==
    ASSUME NEW p \in Proposals
    PROVE  /\ \A x \in 1 .. Len(p.proposed) : p.proposed[x] \in ProposedCuts /\ p.proposed[x].raw \in Sil
           /\ \A y \in 1 .. Len(p.rejected) : p.rejected[y].raw \in Sil
<1>1. p.proposed \in Seq(ProposedCuts) /\ p.rejected \in Seq(Rejections)
  BY ProposalFields
<1>2. (\A c \in ProposedCuts : c.raw \in Sil) /\ (\A c \in Rejections : c.raw \in Sil)
  BY DEF ProposedCuts, Rejections
<1> QED
  BY <1>1, <1>2

LEMMA SeenAll ==
    ASSUME NEW p \in Proposals, NEW X, Once(p, X)
    PROVE  Seen(p, Len(p.proposed)) = X
<1>1. ASSUME NEW v \in X
      PROVE  v \in Seen(p, Len(p.proposed))
  BY RawsAreSilences DEF Once, Seen, AudioRaws
<1>2. ASSUME NEW v \in Seen(p, Len(p.proposed))
      PROVE  v \in X
  BY DEF Once, Seen, AudioRaws
<1> QED
  BY <1>1, <1>2

LEMMA SeenNext ==
    ASSUME NEW p \in Proposals, NEW X, Once(p, X), NEW i \in 1 .. Len(p.proposed), NEW c, c = p.proposed[i]
    PROVE  /\ IsAudio(c) => c.raw \notin Seen(p, i - 1) /\ Seen(p, i) = Seen(p, i - 1) \cup {c.raw}
           /\ ~IsAudio(c) => Seen(p, i) = Seen(p, i - 1)
<1>1. \A m : m \in 1 .. i <=> m \in 1 .. i - 1 \/ m = i
  OBVIOUS
<1>2. \A m \in 1 .. i - 1 : m \in 1 .. Len(p.proposed) /\ m # i
  OBVIOUS
<1>3. c.raw \in Sil
  BY RawsAreSilences
<1>4. ASSUME IsAudio(c)
      PROVE  c.raw \notin Seen(p, i - 1)
  BY <1>2, <1>4 DEF Once, Seen, AudioRaws
<1>5. ASSUME IsAudio(c)
      PROVE  AudioRaws(p.proposed, i) = AudioRaws(p.proposed, i - 1) \cup {c.raw}
  BY <1>1, <1>3, <1>5 DEF AudioRaws
<1>6. ASSUME ~IsAudio(c)
      PROVE  AudioRaws(p.proposed, i) = AudioRaws(p.proposed, i - 1)
  BY <1>1, <1>6 DEF AudioRaws
<1> QED
  BY <1>4, <1>5, <1>6 DEF Seen

LEMMA PassedOnce ==
    ASSUME NEW p \in Proposals, NEW X, Once(p, X), NEW i \in 1 .. Len(p.proposed), NEW c, c = p.proposed[i],
           NEW acc \in Proposals, Once(acc, Seen(p, i - 1))
    PROVE  /\ Once(CP!Kept(acc, c), Seen(p, i))
           /\ IsAudio(c) => \A reason \in Reasons : Once(CP!Dropped(acc, c, reason), Seen(p, i))
<1>1. c \in ProposedCuts
  BY RawsAreSilences
<1>2. CASE IsAudio(c)
  <2>1. c.raw \notin Seen(p, i - 1) /\ Seen(p, i) = Seen(p, i - 1) \cup {c.raw}
    BY <1>2, SeenNext
  <2>2. Once(CP!Kept(acc, c), Seen(p, i))
    BY <1>1, <1>2, <2>1, OnceKept
  <2>3. \A reason \in Reasons : Once(CP!Dropped(acc, c, reason), Seen(p, i))
    BY <1>1, <2>1, OnceDropped
  <2> QED
    BY <2>2, <2>3
<1>3. CASE ~IsAudio(c)
  <2>1. Seen(p, i) = Seen(p, i - 1)
    BY <1>3, SeenNext
  <2> QED
    BY <1>1, <1>3, <2>1, OnceKept
<1> QED
  BY <1>2, <1>3

LEMMA RestartedOnce ==
    ASSUME NEW p \in Proposals, NEW X, Once(p, X), NEW s \in Seq(ProposedCuts), \A x \in 1 .. Len(s) : ~IsAudio(s[x])
    PROVE  LET r == CP!Restarted(p, s)
           IN  r \in Proposals /\ r.proposed = s /\ r.rejected = p.rejected /\ Once(r, Seen(p, 0))
<1> DEFINE r == CP!Restarted(p, s)
<1>1. p.proposed \in Seq(ProposedCuts) /\ p.rejected \in Seq(Rejections) /\ p = [proposed |-> p.proposed, rejected |-> p.rejected]
  BY ProposalFields
<1>2. r = [proposed |-> s, rejected |-> p.rejected]
  <2> DEFINE a == p.proposed
             b == p.rejected
  <2>1. p = [proposed |-> a, rejected |-> b]
    BY <1>1
  <2> HIDE DEF a, b
  <2>2. [[proposed |-> a, rejected |-> b] EXCEPT !.proposed = s] = [proposed |-> s, rejected |-> b]
    BY WithField
  <2>3. r = [proposed |-> s, rejected |-> b]
    BY <2>1, <2>2 DEF CP!Restarted
  <2> QED
    BY <2>3 DEF b
<1>3. r \in Proposals /\ r.proposed = s /\ r.rejected = p.rejected
  BY <1>1, <1>2 DEF Proposals
<1> HIDE DEF r
<1>4. AudioRaws(p.proposed, 0) = {}
  BY DEF AudioRaws
<1>5. Seen(p, 0) = {v \in Sil : \E y \in 1 .. Len(p.rejected) : p.rejected[y].raw = v}
  BY <1>4 DEF Seen
<1>6. \A x, y \in 1 .. Len(p.rejected) : x # y => p.rejected[x].raw # p.rejected[y].raw
  BY DEF Once
<1>7. \A y \in 1 .. Len(p.rejected) : p.rejected[y].raw \in Seen(p, 0)
  BY <1>5, RawsAreSilences
<1>8. Once(r, Seen(p, 0))
  BY <1>3, <1>5, <1>6, <1>7 DEF Once
<1> QED
  BY <1>3, <1>8 DEF r

\* What is passed on is drawn from what there was, in its order.
Drawn(s, of, i) == \A x \in 1 .. Len(s) : \E m \in 1 .. i : s[x] = of[m]

LEMMA DrawnAppend ==
    ASSUME NEW of \in Seq(ProposedCuts), Spaced(of), NEW i \in 1 .. Len(of),
           NEW s \in Seq(ProposedCuts), Drawn(s, of, i - 1), Spaced(s)
    PROVE  Spaced(Append(s, of[i])) /\ Drawn(Append(s, of[i]), of, i) /\ Drawn(s, of, i)
<1> DEFINE n == Len(s)
<1>1. of[i] \in ProposedCuts /\ i \in 1 .. i
  OBVIOUS
<1>2. \A m \in 1 .. i - 1 : m \in 1 .. i /\ m \in 1 .. Len(of) /\ m < i
  OBVIOUS
<1>3. \A x \in 1 .. n : s[x].end + MinimumKeepIsland <= of[i].start
  <2> TAKE x \in 1 .. n
  <2>1. PICK m \in 1 .. i - 1 : s[x] = of[m]
    BY DEF Drawn
  <2> QED
    BY <1>2, <2>1 DEF Spaced
<1>4. Spaced(Append(s, of[i]))
  BY <1>1, <1>3, SpacedAppend
<1>5. Drawn(s, of, i)
  BY <1>2 DEF Drawn
<1>6. /\ Len(Append(s, of[i])) = n + 1 /\ Append(s, of[i])[n + 1] = of[i]
      /\ \A x \in 1 .. n : Append(s, of[i])[x] = s[x]
      /\ \A x \in 1 .. n + 1 : x \in 1 .. n \/ x = n + 1
  BY <1>1, Appended
<1>7. Drawn(Append(s, of[i]), of, i)
  BY <1>1, <1>5, <1>6 DEF Drawn
<1> QED
  BY <1>4, <1>5, <1>7

-----------------------------------------------------------------------------
(* The tail of the outro.                                                  *)
IsTail(q, o, c) == /\ o.status = "resolved" /\ o.tail # CP!None
                   /\ c.reason = "outro_excess_tail" /\ c.start = o.tail /\ c.end = q.total

\* Every silence is answered once, and the cuts are honest, apart and in order.
Tailed(p, N, q, o) ==
    /\ p \in Proposals
    /\ Once(p, Upto(N, Len(N)))
    /\ Spaced(p.proposed)
    /\ \A x \in 1 .. Len(p.proposed) : Honest(q, o, p.proposed[x]) \/ IsTail(q, o, p.proposed[x])

LEMMA TailNumbers ==
    ASSUME NEW q, Finalized(q), NEW o, o = CP!resolve_outro(q), o.status = "resolved", o.tail # CP!None
    PROVE  /\ o.start \in Nat /\ o.tail \in Nat /\ o.tail < q.total /\ q.total \in Nat
           /\ o.start + OutroProtection = o.tail /\ o.protected_end = o.tail
           /\ o.start + 1 <= o.tail /\ o.start + MinimumKeepIsland <= o.tail
           /\ 1 <= o.tail /\ MinimumKeepIsland <= o.tail
<1>1. /\ o.start \in Nat /\ o.tail = o.start + OutroProtection /\ o.tail < q.total
      /\ o.protected_end = CP!Min({o.start + OutroProtection, q.total})
  BY FoundOutro
<1>2. q.total \in Nat
  BY EventNumbers
<1>3. /\ OutroProtection \in Int /\ 1 <= OutroProtection /\ MinimumKeepIsland <= OutroProtection
      /\ MinimumKeepIsland \in Nat
  BY Parameters
<1>4. o.tail \in Nat /\ q.total \in Int
  BY <1>1, <1>2, <1>3
<1>5. o.protected_end = o.tail
  <2>1. o.protected_end = CP!Min({o.tail, q.total})
    BY <1>1
  <2>2. o.tail \in Int
    BY <1>4
  <2>3. CP!Min({o.tail, q.total}) <= o.tail /\ (CP!Min({o.tail, q.total}) = o.tail \/ CP!Min({o.tail, q.total}) = q.total)
    BY <1>4, <2>2, Between, Zenon
  <2> QED
    BY <1>1, <1>4, <2>1, <2>3
<1> QED
  BY <1>1, <1>2, <1>3, <1>4, <1>5

LEMMA HonestBeforeTail ==
    ASSUME NEW q, Finalized(q), NEW o, o = CP!resolve_outro(q), o.status = "resolved", o.tail # CP!None,
           NEW tail, tail.start = o.tail, tail.end = q.total,
           NEW c, Honest(q, o, c), ~CP!Intersects(c, tail)
    PROVE  c.end + MinimumKeepIsland <= o.tail
<1>1. /\ c.start \in Int /\ c.end \in Int /\ c.start < c.end /\ c.end <= q.total
      /\ (c.end <= o.start \/ o.protected_end <= c.start)
  BY DEF Honest, Within, Unprotected
<1>2. ~(c.start < q.total /\ o.tail < c.end)
  BY DEF CP!Intersects
<1>3. /\ o.start \in Nat /\ o.tail \in Nat /\ q.total \in Nat
      /\ o.protected_end = o.tail /\ o.start + MinimumKeepIsland <= o.tail /\ MinimumKeepIsland \in Nat
  BY TailNumbers, Parameters
<1> QED
  BY <1>1, <1>2, <1>3

\* The tail of the outro keeps that: what it overlaps becomes a rejection.
LEMMA WithTail ==
    ASSUME NEW q, Finalized(q), NEW o, o = CP!resolve_outro(q), NEW N \in Seq(Sil),
           NEW p \in Proposals, Judged(p, N, Len(N), q, o)
    PROVE  Tailed(CP!WithOutroTail(p, o, q.total), N, q, o)
<1> DEFINE tail == [start |-> o.tail, end |-> q.total, reason |-> "outro_excess_tail", raw |-> CP!NoSilence]
           base == CP!Restarted(p, <<>>)
           X == Upto(N, Len(N))
           of == p.proposed
           n == Len(of)
           r == CP!WithOutroTail(p, o, q.total)
           skip == o.status # "resolved" \/ o.tail = CP!None
<1>1. r = IF skip THEN p ELSE CP!Kept(CP!WithoutTail(p, tail), tail)
  BY DEF CP!WithOutroTail
<1>2. Once(p, X) /\ Spaced(of) /\ of \in Seq(ProposedCuts) /\ n \in Nat /\ \A x \in 1 .. n : Honest(q, o, of[x])
  BY ProposalFields DEF Judged
<1>3. CASE skip
  BY <1>1, <1>2, <1>3 DEF Tailed
<1>4. CASE ~skip
  <2>1. /\ o.start \in Nat /\ o.tail \in Nat /\ o.tail < q.total /\ q.total \in Nat
    BY <1>4, TailNumbers
  <2>2. tail \in ProposedCuts /\ ~IsAudio(tail) /\ tail.start = o.tail /\ tail.end = q.total /\ tail.reason = "outro_excess_tail"
    BY <2>1 DEF ProposedCuts, Kinds, Sil, IsAudio, CP!NoSilence
  <2>3. base \in Proposals /\ base.proposed = <<>> /\ Once(base, Seen(p, 0))
    <3>1. <<>> \in Seq(ProposedCuts) /\ \A x \in 1 .. Len(<<>>) : ~IsAudio(<<>>[x])
      OBVIOUS
    <3> QED
      BY <1>2, <3>1, RestartedOnce
  <2> HIDE DEF tail, base, r
  <2>4. \A a \in Proposals, c \in ProposedCuts : /\ CP!PassTail(a, c, tail) \in Proposals
                                         /\ \/ /\ CP!PassTail(a, c, tail) = CP!Dropped(a, c, "superseded_by_outro_tail")
                                            \/ /\ CP!PassTail(a, c, tail) = CP!Kept(a, c)
                                               /\ ~CP!Intersects(c, tail)
    <3> TAKE a \in Proposals, c \in ProposedCuts
    <3>1. "superseded_by_outro_tail" \in Reasons
      BY DEF Reasons
    <3>2. CP!Dropped(a, c, "superseded_by_outro_tail") \in Proposals /\ CP!Kept(a, c) \in Proposals
      BY <3>1, KeptFields, DroppedFields
    <3> QED
      BY <3>2 DEF CP!PassTail
  <2>5. PICK f \in [0 .. n -> Proposals] :
              /\ f[0] = base
              /\ \A i \in 1 .. n : f[i] = CP!PassTail(f[i - 1], of[i], tail)
              /\ CP!WithoutTail(p, tail) = f[n]
    <3>1. \A a \in Proposals, c \in ProposedCuts : CP!PassTail(a, c, tail) \in Proposals
      BY <2>4
    <3>2. CP!Restarted(p, <<>>) \in Proposals
      BY <2>3 DEF base
    <3> QED
      BY <3>1, <3>2, TailCourse DEF base
  <2> DEFINE Passed(i) == /\ Once(f[i], Seen(p, i))
                          /\ Drawn(f[i].proposed, of, i)
                          /\ Spaced(f[i].proposed)
                          /\ \A x \in 1 .. Len(f[i].proposed) : ~CP!Intersects(f[i].proposed[x], tail)
  <2>6. Passed(0)
    <3>1. Len(f[0].proposed) = 0
      BY <2>3, <2>5
    <3> QED
      BY <2>3, <2>5, <3>1 DEF Drawn, Spaced
  <2>7. ASSUME NEW i \in 1 .. n, Passed(i - 1)
        PROVE  Passed(i)
    <3> DEFINE a == f[i - 1]
               c == of[i]
    <3>1. a \in Proposals /\ c \in ProposedCuts /\ a.proposed \in Seq(ProposedCuts) /\ f[i] = CP!PassTail(a, c, tail)
      <4>1. a \in Proposals /\ c \in ProposedCuts /\ f[i] = CP!PassTail(a, c, tail)
        <5>1. i - 1 \in 0 .. n /\ of \in Seq(ProposedCuts)
          BY <1>2
        <5>2. f[i] = CP!PassTail(f[i - 1], of[i], tail)
          BY <2>5
        <5>3. f[i - 1] \in Proposals
          BY <5>1
        <5>4. of[i] \in ProposedCuts
          <6> HIDE DEF of
          <6> QED
            BY <5>1
        <5> QED
          BY <5>2, <5>3, <5>4
      <4> HIDE DEF a
      <4> QED
        BY <4>1, ProposalFields
    <3>2. IsAudio(c)
      BY <1>2 DEF Honest
    <3>3. /\ Once(CP!Kept(a, c), Seen(p, i))
          /\ \A reason \in Reasons : Once(CP!Dropped(a, c, reason), Seen(p, i))
      BY <1>2, <2>7, <3>1, <3>2, PassedOnce
    <3>4. Spaced(Append(a.proposed, c)) /\ Drawn(Append(a.proposed, c), of, i) /\ Drawn(a.proposed, of, i)
      <4>1. Drawn(a.proposed, of, i - 1) /\ Spaced(a.proposed)
        BY <2>7
      <4> HIDE DEF a, of
      <4> QED
        BY <1>2, <3>1, <4>1, DrawnAppend DEF n
    <3>5. \A x \in 1 .. Len(a.proposed) : ~CP!Intersects(a.proposed[x], tail)
      BY <2>7
    <3>6. Spaced(a.proposed)
      BY <2>7
    <3> HIDE DEF a, c
    <3>7. CASE f[i] = CP!Dropped(a, c, "superseded_by_outro_tail")
      <4>1. "superseded_by_outro_tail" \in Reasons
        BY DEF Reasons
      <4>2. f[i].proposed = a.proposed
        <5>1. CP!Dropped(a, c, "superseded_by_outro_tail").proposed = a.proposed
          <6> DEFINE reason == "superseded_by_outro_tail"
          <6> HIDE DEF reason
          <6>1. reason \in Reasons
            BY <4>1 DEF reason
          <6>2. CP!Dropped(a, c, reason).proposed = a.proposed
            BY <3>1, <6>1, DroppedFields
          <6> QED
            BY <6>2 DEF reason
        <5> QED
          BY <3>7, <5>1
      <4> QED
        BY <3>3, <3>4, <3>5, <3>6, <3>7, <4>1, <4>2
    <3>8. CASE f[i] = CP!Kept(a, c) /\ ~CP!Intersects(c, tail)
      <4>1. f[i].proposed = Append(a.proposed, c)
        BY <3>1, <3>8, KeptFields
      <4>2. \A x \in 1 .. Len(f[i].proposed) : ~CP!Intersects(f[i].proposed[x], tail)
        BY <3>1, <3>5, <3>8, <4>1, Appended
      <4> QED
        BY <3>3, <3>4, <3>8, <4>1, <4>2
    <3> QED
      BY <2>4, <3>1, <3>7, <3>8
  <2>8. \A i \in 0 .. n : Passed(i)
    <3> DEFINE B == {i \in 0 .. n : Passed(i)}
    <3>1. 0 \in B
      BY <1>2, <2>6
    <3>2. \A i \in 1 .. n : i - 1 \in B => i \in B
      <4> HIDE DEF Passed
      <4>1. \A i \in 1 .. n : i \in 0 .. n
        BY <1>2
      <4> QED
        BY <2>7, <4>1
    <3>3. \A i \in 0 .. n : i \in B
      <4> HIDE DEF B
      <4> QED
        BY <1>2, <3>1, <3>2, Rounds
    <3> QED
      BY <3>3
  <2> DEFINE w == f[n]
  <2>9. /\ w \in Proposals /\ Once(w, X) /\ Drawn(w.proposed, of, n) /\ Spaced(w.proposed)
        /\ \A x \in 1 .. Len(w.proposed) : ~CP!Intersects(w.proposed[x], tail)
        /\ r = CP!Kept(w, tail)
    <3>1. n \in 0 .. n
      BY <1>2
    <3>2. w \in Proposals /\ Passed(n)
      BY <2>8, <3>1
    <3>3. Seen(p, n) = X
      BY <1>2, SeenAll
    <3>4. r = CP!Kept(w, tail)
      BY <1>1, <1>4, <2>5 DEF tail, base
    <3> QED
      BY <3>2, <3>3, <3>4
  <2> HIDE DEF w, Passed
  <2>10. w.proposed \in Seq(ProposedCuts)
    BY <2>9, ProposalFields
  <2>11. \A x \in 1 .. Len(w.proposed) : Honest(q, o, w.proposed[x])
    BY <1>2, <2>9 DEF Drawn
  <2>12. \A x \in 1 .. Len(w.proposed) : w.proposed[x].end + MinimumKeepIsland <= tail.start
    <3> TAKE x \in 1 .. Len(w.proposed)
    <3> QED
      BY <1>4, <2>2, <2>9, <2>11, HonestBeforeTail
  <2>13. r \in Proposals /\ r.proposed = Append(w.proposed, tail)
    BY <2>2, <2>9, KeptFields
  <2>14. Spaced(r.proposed)
    BY <2>2, <2>9, <2>10, <2>12, <2>13, SpacedAppend
  <2>15. Once(r, X)
    <3> HIDE DEF X
    <3> QED
      BY <2>2, <2>9, OnceKept
  <2>16. \A x \in 1 .. Len(r.proposed) : Honest(q, o, r.proposed[x]) \/ IsTail(q, o, r.proposed[x])
    <3>1. IsTail(q, o, tail)
      BY <1>4, <2>2 DEF IsTail
    <3>2. /\ Len(r.proposed) = Len(w.proposed) + 1 /\ r.proposed[Len(w.proposed) + 1] = tail
          /\ \A x \in 1 .. Len(w.proposed) : r.proposed[x] = w.proposed[x]
          /\ \A x \in 1 .. Len(w.proposed) + 1 : x \in 1 .. Len(w.proposed) \/ x = Len(w.proposed) + 1
      BY <2>2, <2>10, <2>13, Appended
    <3> QED
      BY <2>11, <3>1, <3>2
  <2> QED
    BY <2>13, <2>14, <2>15, <2>16 DEF Tailed, r
<1> QED
  BY <1>3, <1>4

-----------------------------------------------------------------------------
(* The lead-in of the intro.                                               *)
Islands == {1, MinimumKeepIsland}
IsLead(i, c) == c.reason = "intro_lead_in" /\ c.start = 0 /\ c.end = i.start

LEMMA IslandsAreNatural ==
    /\ \A k \in Islands : k \in Nat
    /\ 1 \in Islands /\ MinimumKeepIsland \in Islands
    /\ CP!Max({1, MinimumKeepIsland}) \in Islands /\ \A k \in Islands : k <= CP!Max({1, MinimumKeepIsland})
<1>1. 1 \in Int /\ MinimumKeepIsland \in Int /\ MinimumKeepIsland \in Nat
  BY Parameters
<1>2. /\ CP!Max({1, MinimumKeepIsland}) >= 1 /\ CP!Max({1, MinimumKeepIsland}) >= MinimumKeepIsland
      /\ CP!Max({1, MinimumKeepIsland}) \in Int
      /\ CP!Max({1, MinimumKeepIsland}) = 1 \/ CP!Max({1, MinimumKeepIsland}) = MinimumKeepIsland
  BY <1>1, Between, Zenon
<1> DEFINE g == CP!Max({1, MinimumKeepIsland})
<1> HIDE DEF g
<1>3. g >= 1 /\ g >= MinimumKeepIsland /\ g \in Int /\ (g = 1 \/ g = MinimumKeepIsland)
  BY <1>2 DEF g
<1>4. g \in Islands /\ \A k \in Islands : k <= g
  BY <1>1, <1>3 DEF Islands
<1> QED
  BY <1>1, <1>4 DEF Islands, g

\* What the lead-in does to a cut behind it.
LEMMA LeadCases ==
    ASSUME NEW a \in Proposals, NEW c \in ProposedCuts, NEW lead, lead.end \in Int
    PROVE  LET r == CP!PassLead(a, c, lead)
           IN  /\ r \in Proposals
               /\ \/ /\ r = CP!Kept(a, c)
                     /\ IsAudio(c) => lead.end + INTRO_FLOW_PROTECTED_FRAMES <= c.start
                     /\ IsAudio(c) /\ Len(a.proposed) = 1 => \A k \in Islands : lead.end + k <= c.start
                  \/ /\ \E reason \in Reasons : r = CP!Dropped(a, c, reason)
                     /\ IsAudio(c) \/ CP!Intersects(c, lead)
<1> DEFINE r == CP!PassLead(a, c, lead)
           first == "superseded_by_intro_lead_in"
           second == "intro_flow_protected"
           third == "minimum_keep_island"
           audio == c.reason = "silence"
           flows == audio /\ c.start < lead.end + INTRO_FLOW_PROTECTED_FRAMES
           close == audio /\ Len(a.proposed) = 1 /\ c.start - lead.end < CP!Max({1, MinimumKeepIsland})
<1>1. first \in Reasons /\ second \in Reasons /\ third \in Reasons
  BY DEF Reasons
<1>2. r = IF CP!Intersects(c, lead) THEN CP!Dropped(a, c, first) ELSE IF flows THEN CP!Dropped(a, c, second)
          ELSE IF close THEN CP!Dropped(a, c, third) ELSE CP!Kept(a, c)
  BY DEF CP!PassLead
<1>3. flows => audio
  OBVIOUS
<1>4. close => audio
  OBVIOUS
<1>5. audio <=> IsAudio(c)
  BY DEF IsAudio
<1>6. c.start \in Int
  BY DEF ProposedCuts
<1>7. audio /\ ~flows => lead.end + INTRO_FLOW_PROTECTED_FRAMES <= c.start
  BY <1>6, Parameters
<1>8. audio /\ Len(a.proposed) = 1 /\ ~close => \A k \in Islands : lead.end + k <= c.start
  <2> DEFINE g == CP!Max({1, MinimumKeepIsland})
  <2>1. g \in Int /\ \A k \in Islands : k \in Int /\ k <= g
    BY IslandsAreNatural
  <2> HIDE DEF g
  <2> SUFFICES ASSUME ~(c.start - lead.end < g), NEW k \in Islands PROVE lead.end + k <= c.start
    BY DEF g
  <2>2. k \in Int /\ k <= g
    BY <2>1
  <2> QED
    BY <1>6, <2>1, <2>2
<1> HIDE DEF r, first, second, third, audio, flows, close
<1>9. \/ r = CP!Kept(a, c) /\ ~flows /\ ~close
      \/ r = CP!Dropped(a, c, first) /\ CP!Intersects(c, lead)
      \/ r = CP!Dropped(a, c, second) /\ flows
      \/ r = CP!Dropped(a, c, third) /\ close
  BY <1>2
<1>10. \/ r = CP!Kept(a, c) /\ ~flows /\ ~close
       \/ /\ \E reason \in Reasons : r = CP!Dropped(a, c, reason)
          /\ audio \/ CP!Intersects(c, lead)
  BY <1>1, <1>3, <1>4, <1>9
<1>11. r \in Proposals
  BY <1>10, KeptFields, DroppedFields
<1> QED
  BY <1>5, <1>7, <1>8, <1>10, <1>11 DEF r

\* Behind the lead-in follows, far enough from it, what there was, in its order.
Follows(lead, c) == /\ \A k \in Islands : lead.end + k <= c.start
                    /\ IsAudio(c) => lead.end + INTRO_FLOW_PROTECTED_FRAMES <= c.start
Behind(s, of, i, lead) ==
    /\ Len(s) >= 1 /\ s[1] = lead
    /\ Spaced(s)
    /\ \A x \in 1 .. Len(s) : x # 1 => Follows(lead, s[x]) /\ \E m \in 1 .. i : s[x] = of[m]

LEMMA BehindDropped ==
    ASSUME NEW of, NEW i \in Nat \ {0}, NEW lead, NEW s, Behind(s, of, i - 1, lead)
    PROVE  Behind(s, of, i, lead)
<1>1. \A m \in 1 .. i - 1 : m \in 1 .. i
  OBVIOUS
<1> QED
  BY <1>1 DEF Behind

LEMMA BehindKept ==
    ASSUME NEW of \in Seq(ProposedCuts), Spaced(of), \A m \in 1 .. Len(of) : of[m].start < of[m].end,
           NEW i \in 1 .. Len(of), NEW lead \in ProposedCuts,
           NEW s \in Seq(ProposedCuts), Behind(s, of, i - 1, lead),
           IsAudio(of[i]) => lead.end + INTRO_FLOW_PROTECTED_FRAMES <= of[i].start,
           ~IsAudio(of[i]) \/ Len(s) = 1 => \A k \in Islands : lead.end + k <= of[i].start
    PROVE  Behind(Append(s, of[i]), of, i, lead)
<1> DEFINE n == Len(s)
           c == of[i]
           t == Append(s, c)
<1>1. /\ t \in Seq(ProposedCuts) /\ Len(t) = n + 1 /\ t[n + 1] = c /\ n \in Nat
      /\ \A x \in 1 .. n : t[x] = s[x]
      /\ \A x \in 1 .. n + 1 : x \in 1 .. n \/ x = n + 1
  BY Appended
<1>2. i \in Nat \ {0} /\ i \in 1 .. i
  OBVIOUS
<1>3. Behind(s, of, i, lead)
  BY <1>2, BehindDropped
<1>4. \A a \in ProposedCuts : a.start \in Int /\ a.end \in Int
  BY DEF ProposedCuts
<1>5. c \in ProposedCuts /\ lead \in ProposedCuts
  OBVIOUS
<1>6. \A m \in 1 .. i - 1 : m \in 1 .. Len(of) /\ m < i
  OBVIOUS
<1>7. \A k \in Islands : lead.end + k <= c.start
  <2>1. CASE ~IsAudio(c) \/ n = 1
    BY <2>1
  <2>2. CASE n # 1
    <3>1. 2 \in 1 .. n /\ 2 # 1
      <4>1. n >= 1
        BY <1>3 DEF Behind
      <4> HIDE DEF n
      <4> QED
        BY <1>1, <2>2, <4>1
    <3>2. PICK m \in 1 .. i - 1 : s[2] = of[m]
      BY <3>1 DEF Behind
    <3>3. \A k \in Islands : lead.end + k <= s[2].start
      BY <3>1 DEF Behind, Follows
    <3>4. s[2].start < s[2].end /\ s[2].end + MinimumKeepIsland <= c.start /\ s[2] \in ProposedCuts
      BY <1>6, <3>1, <3>2 DEF Spaced
    <3> TAKE k \in Islands
    <3> DEFINE e == lead.end
               u == s[2].start
               v == s[2].end
               w == c.start
    <3>5. /\ e \in Int /\ u \in Int /\ v \in Int /\ w \in Int /\ k \in Int /\ MinimumKeepIsland \in Nat
          /\ e + k <= u /\ u < v /\ v + MinimumKeepIsland <= w
      BY <1>4, <1>5, <3>3, <3>4, IslandsAreNatural, Parameters
    <3> HIDE DEF e, u, v, w
    <3>6. e + k <= w
      BY <3>5
    <3> QED
      BY <3>6 DEF e, w
  <2> QED
    BY <2>1, <2>2
<1>8. Follows(lead, c)
  BY <1>7 DEF Follows
<1>9. \A x \in 1 .. n : s[x].end + MinimumKeepIsland <= c.start
  <2> TAKE x \in 1 .. n
  <2>1. CASE x = 1
    BY <1>3, <1>7, <2>1, IslandsAreNatural DEF Behind
  <2>2. CASE x # 1
    <3>1. PICK m \in 1 .. i - 1 : s[x] = of[m]
      BY <2>2 DEF Behind
    <3> QED
      BY <1>6, <3>1 DEF Spaced
  <2> QED
    BY <2>1, <2>2
<1>10. Spaced(t)
  BY <1>3, <1>5, <1>9, SpacedAppend DEF Behind
<1>11. Len(t) >= 1 /\ t[1] = lead
  <2>1. n >= 1 /\ s[1] = lead
    BY <1>3 DEF Behind
  <2>2. 1 \in 1 .. n
    BY <1>1, <2>1
  <2> HIDE DEF t, n
  <2> QED
    BY <1>1, <2>1, <2>2
<1>12. \A x \in 1 .. n + 1 : x # 1 => Follows(lead, t[x]) /\ \E m \in 1 .. i : t[x] = of[m]
  <2> HIDE DEF t
  <2> QED
    BY <1>1, <1>2, <1>3, <1>8 DEF Behind
<1> QED
  BY <1>1, <1>10, <1>11, <1>12 DEF Behind

LEMMA IntroNumbers ==
    ASSUME NEW q, Finalized(q), NEW o, o = CP!resolve_outro(q),
           NEW i, i = CP!resolve_intro(q, o.tail), CP!is_resolved(i)
    PROVE  /\ i.start \in Nat /\ 0 < i.start /\ i.start < q.total
           /\ \A c : IsTail(q, o, c) => \A k \in Islands : i.start + k <= c.start
<1>1. i.start \in Nat /\ 0 < i.start /\ i.start < q.total
  BY FoundIntro
<1>2. ASSUME NEW c, IsTail(q, o, c)
      PROVE  \A k \in Islands : i.start + k <= c.start
  <2>1. o.status = "resolved" /\ o.tail # CP!None /\ c.start = o.tail
    BY <1>2 DEF IsTail
  <2>2. i.start + 1 <= o.tail /\ i.start + MinimumKeepIsland <= o.tail
    BY <2>1, IntroBeforeTail
  <2> QED
    BY <2>1, <2>2 DEF Islands
<1> QED
  BY <1>1, <1>2

\* Every silence is answered once; what is proposed is honest, in order and far enough apart.
Sound(p, N, q, o, i) ==
    /\ p \in Proposals
    /\ Once(p, Upto(N, Len(N)))
    /\ Spaced(p.proposed)
    /\ \A x \in 1 .. Len(p.proposed) :
          \/ /\ Honest(q, o, p.proposed[x])
             /\ CP!is_resolved(i) => i.start + INTRO_FLOW_PROTECTED_FRAMES <= p.proposed[x].start
          \/ IsTail(q, o, p.proposed[x])
          \/ /\ CP!is_resolved(i) /\ IsLead(i, p.proposed[x])
             /\ \A y \in 1 .. Len(p.proposed) : x < y =>
                   \A k \in Islands : p.proposed[x].end + k <= p.proposed[y].start

\* The lead-in keeps it, and the first silence behind it is far enough away.
LEMMA WithLead ==
    ASSUME NEW q, Finalized(q), NEW o, o = CP!resolve_outro(q), NEW i, i = CP!resolve_intro(q, o.tail),
           NEW N, NEW p, Tailed(p, N, q, o)
    PROVE  Sound(CP!WithIntroLeadIn(p, i), N, q, o, i)
<1> DEFINE lead == [start |-> 0, end |-> i.start, reason |-> "intro_lead_in", raw |-> CP!NoSilence]
           base == CP!Restarted(p, <<lead>>)
           X == Upto(N, Len(N))
           of == p.proposed
           n == Len(of)
           r == CP!WithIntroLeadIn(p, i)
           found == CP!is_resolved(i)
<1>1. r = IF found THEN CP!BehindLead(p, lead) ELSE p
  BY DEF CP!WithIntroLeadIn
<1>2. /\ p \in Proposals /\ Once(p, X) /\ Spaced(of) /\ of \in Seq(ProposedCuts) /\ n \in Nat
      /\ \A x \in 1 .. n : Honest(q, o, of[x]) \/ IsTail(q, o, of[x])
  BY ProposalFields DEF Tailed
<1>3. CASE ~found
  <2>1. r = p /\ ~CP!is_resolved(i)
    BY <1>1, <1>3
  <2> QED
    BY <1>2, <2>1 DEF Sound
<1>4. CASE found
  <2>1. i.start \in Nat /\ \A c : IsTail(q, o, c) => \A k \in Islands : i.start + k <= c.start
    BY <1>4, IntroNumbers
  <2>2. lead \in ProposedCuts /\ ~IsAudio(lead) /\ lead.end = i.start /\ lead.start = 0 /\ lead.reason = "intro_lead_in"
    BY <2>1 DEF ProposedCuts, Kinds, Sil, IsAudio, CP!NoSilence
  <2>3. base \in Proposals /\ base.proposed = <<lead>> /\ Once(base, Seen(p, 0))
    <3>1. <<lead>> \in Seq(ProposedCuts) /\ \A x \in 1 .. Len(<<lead>>) : ~IsAudio(<<lead>>[x])
      <4> HIDE DEF lead
      <4> QED
        BY <2>2
    <3> HIDE DEF lead
    <3> QED
      BY <1>2, <3>1, RestartedOnce
  <2> HIDE DEF lead, base, r
  <2>4. \A a \in Proposals, c \in ProposedCuts : CP!PassLead(a, c, lead) \in Proposals
    BY <2>1, <2>2, LeadCases
  <2>5. PICK f \in [0 .. n -> Proposals] :
              /\ f[0] = base
              /\ \A k \in 1 .. n : f[k] = CP!PassLead(f[k - 1], of[k], lead)
              /\ CP!BehindLead(p, lead) = f[n]
    <3>1. CP!Restarted(p, <<lead>>) \in Proposals
      BY <2>3 DEF base
    <3> QED
      BY <1>2, <2>4, <3>1, LeadCourse DEF base
  <2>6. \A m \in 1 .. n : of[m].start < of[m].end
    <3> TAKE m \in 1 .. n
    <3>1. CASE Honest(q, o, of[m])
      BY <3>1 DEF Honest, Within
    <3>2. CASE IsTail(q, o, of[m])
      <4>1. o.tail < q.total
        BY <3>2, TailNumbers DEF IsTail
      <4> QED
        BY <3>2, <4>1 DEF IsTail
    <3> QED
      BY <1>2, <3>1, <3>2
  <2> DEFINE Passed(k) == Once(f[k], Seen(p, k)) /\ Behind(f[k].proposed, of, k, lead)
  <2>7. Passed(0)
    <3>1. f[0].proposed = <<lead>> /\ Len(<<lead>>) = 1 /\ <<lead>>[1] = lead
      BY <2>3, <2>5
    <3> DEFINE s == f[0].proposed
    <3>2. Len(s) = 1 /\ s[1] = lead
      BY <3>1
    <3> HIDE DEF s
    <3>3. \A x, y \in 1 .. 1 : x = 1 /\ y = 1
      OBVIOUS
    <3>4. Spaced(s)
      BY <3>2, <3>3 DEF Spaced
    <3>5. Behind(s, of, 0, lead)
      BY <3>2, <3>3, <3>4 DEF Behind
    <3> QED
      BY <2>3, <2>5, <3>5 DEF s
  <2>8. ASSUME NEW k \in 1 .. n, Passed(k - 1)
        PROVE  Passed(k)
    <3> DEFINE a == f[k - 1]
               c == of[k]
    <3>1. /\ a \in Proposals /\ c \in ProposedCuts /\ a.proposed \in Seq(ProposedCuts) /\ f[k] = CP!PassLead(a, c, lead)
          /\ Once(a, Seen(p, k - 1)) /\ Behind(a.proposed, of, k - 1, lead)
      <4>1. k - 1 \in 0 .. n
        BY <1>2
      <4>2. f[k] = CP!PassLead(f[k - 1], of[k], lead)
        BY <2>5
      <4>3. f[k - 1] \in Proposals
        BY <4>1
      <4>4. of[k] \in ProposedCuts
        <5> HIDE DEF of
        <5> QED
          BY <1>2
      <4>5. a.proposed \in Seq(ProposedCuts)
        BY <4>3, ProposalFields
      <4> QED
        BY <2>8, <4>2, <4>3, <4>4, <4>5
    <3>2. /\ Once(CP!Kept(a, c), Seen(p, k))
          /\ IsAudio(c) => \A reason \in Reasons : Once(CP!Dropped(a, c, reason), Seen(p, k))
      BY <1>2, <3>1, PassedOnce
    <3>3. /\ \/ /\ f[k] = CP!Kept(a, c)
                /\ IsAudio(c) => lead.end + INTRO_FLOW_PROTECTED_FRAMES <= c.start
                /\ IsAudio(c) /\ Len(a.proposed) = 1 => \A j \in Islands : lead.end + j <= c.start
             \/ /\ \E reason \in Reasons : f[k] = CP!Dropped(a, c, reason)
                /\ IsAudio(c) \/ CP!Intersects(c, lead)
      BY <2>1, <2>2, <3>1, LeadCases
    <3>4. ~IsAudio(c) => ~CP!Intersects(c, lead) /\ \A j \in Islands : lead.end + j <= c.start
      <4> SUFFICES ASSUME ~IsAudio(c) PROVE ~CP!Intersects(c, lead) /\ \A j \in Islands : lead.end + j <= c.start
        OBVIOUS
      <4>1. IsTail(q, o, c)
        BY <1>2 DEF Honest
      <4>2. \A j \in Islands : lead.end + j <= c.start
        BY <2>1, <2>2, <4>1
      <4>3. lead.end + 1 <= c.start /\ c.start \in Int /\ lead.end \in Nat
        BY <2>1, <2>2, <3>1, <4>2, IslandsAreNatural DEF ProposedCuts
      <4>4. ~(c.start < lead.end)
        BY <4>3
      <4> QED
        BY <4>2, <4>4 DEF CP!Intersects
    <3> HIDE DEF a
    <3>5. CASE \E reason \in Reasons : f[k] = CP!Dropped(a, c, reason) /\ (IsAudio(c) \/ CP!Intersects(c, lead))
      <4>1. PICK reason \in Reasons : f[k] = CP!Dropped(a, c, reason)
        BY <3>5
      <4>2. IsAudio(c)
        BY <3>4, <3>5
      <4>3. f[k].proposed = a.proposed
        <5> HIDE DEF c
        <5>1. CP!Dropped(a, c, reason).proposed = a.proposed
          BY <3>1, DroppedFields
        <5> QED
          BY <4>1, <5>1
      <4>4. k \in Nat \ {0}
        BY <1>2
      <4>5. Behind(f[k].proposed, of, k, lead)
        BY <3>1, <4>3, <4>4, BehindDropped
      <4> QED
        BY <3>2, <4>1, <4>2, <4>5
    <3>6. CASE /\ f[k] = CP!Kept(a, c)
               /\ IsAudio(c) => lead.end + INTRO_FLOW_PROTECTED_FRAMES <= c.start
               /\ IsAudio(c) /\ Len(a.proposed) = 1 => \A j \in Islands : lead.end + j <= c.start
      <4>1. f[k].proposed = Append(a.proposed, c)
        BY <3>1, <3>6, KeptFields
      <4>2. Behind(Append(a.proposed, of[k]), of, k, lead)
        <5>1. ~IsAudio(of[k]) \/ Len(a.proposed) = 1 => \A j \in Islands : lead.end + j <= of[k].start
          BY <3>4, <3>6
        <5> QED
          BY <1>2, <2>2, <2>6, <3>1, <3>6, <5>1, BehindKept
      <4> QED
        BY <3>2, <3>6, <4>1, <4>2
    <3> QED
      BY <3>3, <3>5, <3>6
  <2>9. \A k \in 0 .. n : Passed(k)
    <3> DEFINE B == {k \in 0 .. n : Passed(k)}
    <3>1. 0 \in B
      BY <1>2, <2>7
    <3>2. \A k \in 1 .. n : k - 1 \in B => k \in B
      <4> HIDE DEF Passed
      <4>1. \A k \in 1 .. n : k \in 0 .. n
        BY <1>2
      <4> QED
        BY <2>8, <4>1
    <3>3. \A k \in 0 .. n : k \in B
      <4> HIDE DEF B
      <4> QED
        BY <1>2, <3>1, <3>2, Rounds
    <3> QED
      BY <3>3
  <2>10. r \in Proposals /\ Once(r, X) /\ Behind(r.proposed, of, n, lead)
    <3>1. n \in 0 .. n
      BY <1>2
    <3>2. f[n] \in Proposals /\ Passed(n)
      BY <2>9, <3>1
    <3>3. Seen(p, n) = X
      BY <1>2, SeenAll
    <3>4. r = f[n]
      BY <1>1, <1>4, <2>5 DEF lead
    <3> QED
      BY <3>2, <3>3, <3>4
  <2> HIDE DEF Passed
  <2>11. ASSUME NEW x \in 1 .. Len(r.proposed)
         PROVE  \/ /\ Honest(q, o, r.proposed[x])
                   /\ found => i.start + INTRO_FLOW_PROTECTED_FRAMES <= r.proposed[x].start
                \/ IsTail(q, o, r.proposed[x])
                \/ /\ found /\ IsLead(i, r.proposed[x])
                   /\ \A y \in 1 .. Len(r.proposed) : x < y =>
                         \A k \in Islands : r.proposed[x].end + k <= r.proposed[y].start
    <3>1. CASE x = 1
      <4>1. r.proposed[x] = lead
        BY <2>10, <3>1 DEF Behind
      <4>2. ASSUME NEW y \in 1 .. Len(r.proposed), x < y
            PROVE  \A k \in Islands : lead.end + k <= r.proposed[y].start
        <5>1. y # 1
          BY <3>1, <4>2
        <5> QED
          BY <2>10, <5>1 DEF Behind, Follows
      <4> QED
        BY <1>4, <2>2, <4>1, <4>2 DEF IsLead
    <3>2. CASE x # 1
      <4>1. Follows(lead, r.proposed[x]) /\ \E m \in 1 .. n : r.proposed[x] = of[m]
        BY <2>10, <3>2 DEF Behind
      <4>2. Honest(q, o, r.proposed[x]) => IsAudio(r.proposed[x])
        BY DEF Honest
      <4> QED
        BY <1>2, <2>2, <4>1, <4>2 DEF Follows
    <3> QED
      BY <3>1, <3>2
  <2>12. Spaced(r.proposed)
    BY <2>10 DEF Behind
  <2> QED
    BY <2>10, <2>11, <2>12 DEF Sound, r
<1> QED
  BY <1>3, <1>4

-----------------------------------------------------------------------------
(* What the renderer keeps.                                                *)
Pieces == [start : Int, end : Int]
Cursors == [error : BOOLEAN, cursor : Int, keeps : Seq(Pieces)]
\* Cuts that leave no piece too short, whichever of them are carried out.
Renderable(s, total) ==
    /\ \A x \in 1 .. Len(s) :
          /\ 0 <= s[x].start /\ s[x].start < s[x].end /\ s[x].end <= total
          /\ s[x].start = 0 \/ \A k \in Islands : k <= s[x].start
          /\ s[x].end = total \/ \A k \in Islands : s[x].end + k <= total
          /\ s[x].start # 0 \/ s[x].end # total
    /\ \A x, y \in 1 .. Len(s) : x < y =>
          /\ s[x].end + MinimumKeepIsland <= s[y].start
          /\ s[x].start = 0 => \A k \in Islands : s[x].end + k <= s[y].start

\* Cuts of a sound proposal are apart from each other and from both ends.
LEMMA SoundIsRenderable ==
    ASSUME NEW q, Finalized(q), NEW o, o = CP!resolve_outro(q), NEW i, i = CP!resolve_intro(q, o.tail),
           NEW N, NEW p, Sound(p, N, q, o, i),
           CP!is_resolved(i) => i.start + CP!Max({1, MinimumKeepIsland}) <= q.total
    PROVE  Renderable(p.proposed, q.total)
<1> DEFINE s == p.proposed
           n == Len(s)
           total == q.total
           ToEnd(c) == c.end = total \/ \A k \in Islands : c.end + k <= total
           FromStart(c) == c.start = 0 \/ \A k \in Islands : k <= c.start
           In(c) == 0 <= c.start /\ c.start < c.end /\ c.end <= total
<1>1. total \in Nat
  BY EventNumbers
<1>2. ASSUME NEW c, Honest(q, o, c)
      PROVE  In(c) /\ FromStart(c) /\ ToEnd(c) /\ c.start # 0
  <2>1. c.start \in Int /\ In(c) /\ \A k \in Islands : k <= c.start /\ c.end + k <= total
    BY <1>2 DEF Honest, Within, Unprotected, Islands
  <2>2. 1 <= c.start
    BY <2>1, IslandsAreNatural
  <2> QED
    BY <2>1, <2>2
<1>3. ASSUME NEW c, IsTail(q, o, c)
      PROVE  In(c) /\ FromStart(c) /\ ToEnd(c) /\ c.start # 0
  <2>1. /\ c.start = o.tail /\ c.end = total
        /\ o.tail \in Nat /\ o.tail < total /\ 1 <= o.tail /\ MinimumKeepIsland <= o.tail
    BY <1>3, TailNumbers DEF IsTail
  <2> QED
    BY <1>1, <2>1 DEF Islands
<1>4. ASSUME NEW c, CP!is_resolved(i), IsLead(i, c)
      PROVE  In(c) /\ FromStart(c) /\ ToEnd(c) /\ c.end # total
  <2> DEFINE g == CP!Max({1, MinimumKeepIsland})
             e == i.start
  <2>1. e \in Nat /\ 0 < e /\ e < total /\ c.end = e /\ c.start = 0
    BY <1>4, IntroNumbers DEF IsLead
  <2>2. e + g <= total /\ g \in Nat /\ \A k \in Islands : k \in Nat /\ k <= g
    BY <1>4, IslandsAreNatural
  <2> HIDE DEF g, e
  <2>3. \A k \in Islands : c.end + k <= total
    <3> TAKE k \in Islands
    <3>1. k \in Nat /\ k <= g
      BY <2>2
    <3> QED
      BY <1>1, <2>1, <2>2, <3>1
  <2> QED
    BY <1>1, <2>1, <2>3
<1>5. ASSUME NEW x \in 1 .. n
      PROVE  /\ In(s[x]) /\ FromStart(s[x]) /\ ToEnd(s[x])
             /\ s[x].start # 0 \/ s[x].end # total
             /\ s[x].start = 0 => \A y \in 1 .. n : x < y => \A k \in Islands : s[x].end + k <= s[y].start
  <2>1. \/ Honest(q, o, s[x]) \/ IsTail(q, o, s[x])
        \/ /\ CP!is_resolved(i) /\ IsLead(i, s[x])
           /\ \A y \in 1 .. n : x < y => \A k \in Islands : s[x].end + k <= s[y].start
    BY DEF Sound
  <2> HIDE DEF s, n, In, ToEnd, FromStart, total
  <2> QED
    BY <1>2, <1>3, <1>4, <2>1
<1>6. \A x, y \in 1 .. n : x < y => s[x].end + MinimumKeepIsland <= s[y].start
  BY DEF Sound, Spaced
<1> QED
  BY <1>5, <1>6 DEF Renderable

LEMMA JoinedPieces ==
    ASSUME NEW s \in Seq(Pieces), NEW t \in Seq(Pieces)
    PROVE  s \o t \in Seq(Pieces) /\ (s # <<>> \/ t # <<>> => s \o t # <<>>)
<1>1. Len(s \o t) = Len(s) + Len(t) /\ Len(s) \in Nat /\ Len(t) \in Nat /\ s \o t \in Seq(Pieces)
  OBVIOUS
<1>2. Len(<<>>) = 0
  OBVIOUS
<1>3. (s # <<>> => Len(s) # 0) /\ (t # <<>> => Len(t) # 0)
  OBVIOUS
<1> QED
  BY <1>1, <1>2, <1>3

Piece(a, b) == IF b > a THEN <<[start |-> a, end |-> b]>> ELSE <<>>
LEMMA APiece ==
    ASSUME NEW a \in Int, NEW b \in Int
    PROVE  Piece(a, b) \in Seq(Pieces) /\ (a < b => Piece(a, b) # <<>>)
<1>1. [start |-> a, end |-> b] \in Pieces
  BY DEF Pieces
<1>2. CASE b > a
  BY <1>1, <1>2 DEF Piece
<1>3. CASE ~(b > a)
  BY <1>3 DEF Piece
<1> QED
  BY <1>2, <1>3

\* A cut that is far enough from the cursor is taken.
LEMMA TakeCases ==
    ASSUME NEW acc \in Cursors, NEW c \in ProposedCuts, NEW total \in Int
    PROVE  LET r == CP!Take(acc, c, total)
               g == CP!Max({1, MinimumKeepIsland})
           IN  /\ r \in Cursors
               /\ ~acc.error /\ acc.cursor <= c.start /\ c.end <= total /\ c.start - acc.cursor \notin 1 .. g - 1 =>
                     /\ ~r.error /\ r.cursor = c.end
                     /\ acc.keeps # <<>> \/ acc.cursor < c.start => r.keeps # <<>>
<1> DEFINE r == CP!Take(acc, c, total)
           g == CP!Max({1, MinimumKeepIsland})
           a == acc.cursor
           b == c.start
           z == c.end
           k == acc.keeps
           bad == b < a \/ z > total \/ b - a \in 1 .. g - 1
           ok == [error |-> FALSE, cursor |-> z, keeps |-> k \o Piece(a, b)]
           no == [acc EXCEPT !.error = TRUE]
<1>1. a \in Int /\ k \in Seq(Pieces) /\ b \in Int /\ z \in Int
  BY DEF Cursors, ProposedCuts
<1>2. r = IF acc.error THEN acc ELSE IF bad THEN no ELSE ok
  BY DEF CP!Take, Piece
<1>3. no \in Cursors
  BY DEF Cursors
<1>4. Piece(a, b) \in Seq(Pieces) /\ (a < b => Piece(a, b) # <<>>)
  BY <1>1, APiece
<1>5. k \o Piece(a, b) \in Seq(Pieces) /\ (k # <<>> \/ a < b => k \o Piece(a, b) # <<>>)
  BY <1>1, <1>4, JoinedPieces
<1>6. ok \in Cursors /\ ~ok.error /\ ok.cursor = z /\ (k # <<>> \/ a < b => ok.keeps # <<>>)
  BY <1>1, <1>5 DEF Cursors
<1>7. a <= b /\ z <= total /\ b - a \notin 1 .. g - 1 => ~bad
  <2> DEFINE near == b - a \in 1 .. g - 1
  <2> HIDE DEF near, a, b, z
  <2>1. a <= b /\ z <= total => ~(b < a \/ z > total)
    BY <1>1
  <2> QED
    BY <2>1 DEF near
<1> HIDE DEF r, ok, no, bad, a, b, z, k, g
<1> QED
  BY <1>2, <1>3, <1>6, <1>7 DEF r, a, b, z, k, g

\* After some rounds: nothing is taken yet, or the cursor is at the end of the last cut taken.
Took(acc, i, s, active) ==
    /\ acc \in Cursors /\ ~acc.error
    /\ \/ acc.cursor = 0 /\ \A m \in 1 .. i : m \notin active
       \/ \E m \in 1 .. i : /\ m \in active /\ acc.cursor = s[m].end
                            /\ acc.keeps # <<>> \/ s[m].start = 0

\* A round of the renderer makes no error.
LEMMA TakeKeeps ==
    ASSUME NEW total \in Nat, NEW p, p.proposed \in Seq(ProposedCuts), Renderable(p.proposed, total), NEW active,
           NEW i \in 1 .. Len(p.proposed), NEW acc, Took(acc, i - 1, p.proposed, active)
    PROVE  Took(CP!TakeActive(acc, i, p, active, total), i, p.proposed, active)
<1> DEFINE s == p.proposed
           c == s[i]
           g == CP!Max({1, MinimumKeepIsland})
           r == CP!Take(acc, c, total)
<1>1. /\ CP!TakeActive(acc, i, p, active, total) = IF i \in active THEN r ELSE acc
      /\ \A m \in 1 .. i : m \in 1 .. i - 1 \/ m = i
      /\ \A m \in 1 .. i - 1 : m \in 1 .. i /\ m \in 1 .. Len(s) /\ m < i
      /\ i \in 1 .. i
  BY DEF CP!TakeActive
<1>2. acc \in Cursors /\ ~acc.error
  BY DEF Took
<1>3. CASE i \notin active
  BY <1>1, <1>3 DEF Took
<1>4. CASE i \in active
  <2>1. c \in ProposedCuts /\ c.start \in Int /\ c.end \in Int /\ acc.cursor \in Int /\ total \in Int
    <3>1. c \in ProposedCuts
      OBVIOUS
    <3>2. \A a \in ProposedCuts : a.start \in Int /\ a.end \in Int
      BY DEF ProposedCuts
    <3>3. acc.cursor \in Int
      BY <1>2 DEF Cursors
    <3> QED
      BY <3>1, <3>2, <3>3
  <2>2. g \in Nat /\ 1 <= g /\ MinimumKeepIsland <= g /\ g \in Islands /\ MinimumKeepIsland \in Nat
    BY IslandsAreNatural, Parameters
  <2>3. /\ c.end <= total /\ c.start < c.end /\ 0 <= c.start
        /\ c.start = 0 \/ g <= c.start
    BY <2>2 DEF Renderable
  <2> HIDE DEF g, r, c
  <2>4. CASE acc.cursor = 0 /\ \A m \in 1 .. i - 1 : m \notin active
    <3> DEFINE b == c.start
    <3>1. 0 <= b /\ b \in Int /\ (b = 0 \/ g <= b)
      BY <2>1, <2>3
    <3> HIDE DEF b
    <3>2. 0 <= b /\ b - 0 \notin 1 .. g - 1 /\ (b = 0 \/ 0 < b)
      BY <2>2, <3>1
    <3>3. acc.cursor <= c.start /\ c.start - acc.cursor \notin 1 .. g - 1 /\ (c.start = 0 \/ acc.cursor < c.start)
      BY <2>4, <3>2 DEF b
    <3>4. r \in Cursors /\ ~r.error /\ r.cursor = c.end /\ (r.keeps # <<>> \/ c.start = 0)
      BY <1>2, <2>1, <2>3, <3>3, TakeCases DEF r, g
    <3> QED
      BY <1>1, <1>4, <3>4 DEF Took, c
  <2>5. CASE \E m \in 1 .. i - 1 : /\ m \in active /\ acc.cursor = s[m].end
                                   /\ acc.keeps # <<>> \/ s[m].start = 0
    <3>1. PICK m \in 1 .. i - 1 : /\ m \in active /\ acc.cursor = s[m].end
                                  /\ acc.keeps # <<>> \/ s[m].start = 0
      BY <2>5
    <3>2. m \in 1 .. Len(s) /\ m < i
      BY <1>1
    <3>3. /\ acc.cursor + MinimumKeepIsland <= c.start
          /\ s[m].start = 0 => acc.cursor + 1 <= c.start
      BY <3>1, <3>2, IslandsAreNatural DEF Renderable, c
    <3> DEFINE a == acc.cursor
               b == c.start
               k == MinimumKeepIsland
    <3>4. a \in Int /\ b \in Int /\ k \in Nat /\ a + k <= b /\ (g = 1 \/ g = k)
      BY <2>1, <2>2, <3>3 DEF Islands
    <3> HIDE DEF a, b, k
    <3>5. a <= b /\ b - a \notin 1 .. g - 1 /\ (a + 1 <= b => a < b)
      BY <2>2, <3>4
    <3>6. /\ acc.cursor <= c.start /\ c.start - acc.cursor \notin 1 .. g - 1
          /\ acc.keeps # <<>> \/ acc.cursor < c.start
      BY <3>1, <3>3, <3>5 DEF a, b
    <3>7. r \in Cursors /\ ~r.error /\ r.cursor = c.end /\ r.keeps # <<>>
      BY <1>2, <2>1, <2>3, <3>6, TakeCases DEF r, g
    <3> QED
      BY <1>1, <1>4, <3>7 DEF Took, c
  <2> QED
    BY <2>4, <2>5 DEF Took
<1> QED
  BY <1>3, <1>4

Untaken == [error |-> FALSE, cursor |-> 0, keeps |-> <<>>]
\* The loop of the renderer over the selected cuts.
LEMMA TakeCourse ==
    ASSUME NEW p, p.proposed \in Seq(ProposedCuts), NEW active, NEW total,
           \A a \in Cursors, x \in 1 .. Len(p.proposed) : CP!TakeActive(a, x, p, active, total) \in Cursors
    PROVE  \E f \in [0 .. Len(p.proposed) -> Cursors] :
              /\ f[0] = Untaken
              /\ \A i \in 1 .. Len(p.proposed) : f[i] = CP!TakeActive(f[i - 1], i, p, active, total)
              /\ CP!Taken(p, active, total) = f[Len(p.proposed)]
<1> DEFINE base == Untaken
           seq == [i \in DOMAIN p.proposed |-> i]
           n == Len(p.proposed)
           St == Cursors
           Is(f) == f = [i \in 0 .. n |-> IF i = 0 THEN base ELSE CP!TakeActive(f[i - 1], seq[i], p, active, total)]
           F == CHOOSE f : Is(f)
           step == [i \in 1 .. n |-> [a \in St |-> CP!TakeActive(a, seq[i], p, active, total)]]
<1>0. n \in Nat /\ Len(seq) = n /\ \A i \in 1 .. n : seq[i] = i
  OBVIOUS
<1>1. CP!Taken(p, active, total) = F[n]
  BY <1>0 DEF CP!Taken, CP!Fold, Untaken
<1>2. base \in St /\ n \in Nat
  BY <1>0 DEF Cursors, Untaken
<1>3. \A a \in St, i \in 1 .. n : CP!TakeActive(a, seq[i], p, active, total) \in St
  BY <1>0
<1>4. step \in Passes(St, n)
  BY <1>3 DEF Passes
<1> HIDE DEF base, n, seq, St
<1>5. PICK f : IsCourse(f, St, n, base, step)
  <2> HIDE DEF step
  <2> QED
    BY <1>2, <1>4, CourseExists
<1>6. Is(f)
  <2> USE DEF IsCourse
  <2>1. \A i \in 0 .. n : i # 0 => i \in 1 .. n /\ f[i - 1] \in St
    BY <1>2, <1>5
  <2>2. \A i \in 0 .. n : f[i] = IF i = 0 THEN base ELSE CP!TakeActive(f[i - 1], seq[i], p, active, total)
    BY <1>5, <2>1
  <2> QED
    BY <1>5, <2>2
<1>7. Is(F)
  <2> HIDE DEF Is
  <2> QED
    BY <1>6, Zenon
<1> HIDE DEF F, step
<1>8. F[0] = base /\ \A i \in 1 .. n : F[i] = CP!TakeActive(F[i - 1], seq[i], p, active, total)
  <2>1. 0 \in 0 .. n /\ \A i \in 1 .. n : i \in 0 .. n /\ i # 0
    BY <1>2
  <2>2. \A i \in 0 .. n : F[i] = IF i = 0 THEN base ELSE CP!TakeActive(F[i - 1], seq[i], p, active, total)
    BY <1>7, Zenon
  <2> QED
    BY <2>1, <2>2
<1>9. \A i \in 0 .. n : F[i] \in St
  <2> DEFINE B == {i \in 0 .. n : F[i] \in St}
  <2>1. 0 \in B
    BY <1>2, <1>8
  <2>2. \A i \in 1 .. n : i - 1 \in B => i \in B
    <3> SUFFICES ASSUME NEW i \in 1 .. n, F[i - 1] \in St PROVE F[i] \in St
      <4>1. \A i \in 1 .. n : i \in 0 .. n
        BY <1>2
      <4> QED
        BY <4>1
    <3> QED
      BY <1>3, <1>8
  <2>3. \A i \in 0 .. n : i \in B
    <3> HIDE DEF B
    <3> QED
      BY <1>2, <2>1, <2>2, Rounds
  <2> QED
    BY <2>3
<1>10. F \in [0 .. n -> St]
  BY <1>7, <1>9
<1> QED
  BY <1>0, <1>1, <1>8, <1>10 DEF base, n, St

\* Whatever is selected, the renderer finds a piece to keep and none that is too short.
LEMMA EverySelectionRenders ==
    ASSUME NEW total \in Nat, NEW p, p.proposed \in Seq(ProposedCuts), Renderable(p.proposed, total),
           NEW active \in SUBSET (DOMAIN p.proposed), active # {}
    PROVE  CP!build_keep_segments(p, active, total) # <<>>
<1> DEFINE s == p.proposed
           n == Len(s)
           g == CP!Max({1, MinimumKeepIsland})
<1>1. n \in Nat /\ DOMAIN s = 1 .. n
  OBVIOUS
<1>2. \A a \in Cursors, x \in 1 .. n : CP!TakeActive(a, x, p, active, total) \in Cursors
  <2> TAKE a \in Cursors, x \in 1 .. n
  <2>1. s[x] \in ProposedCuts /\ total \in Int
    BY <1>1
  <2>2. CP!Take(a, s[x], total) \in Cursors
    BY <2>1, TakeCases
  <2> QED
    BY <2>2 DEF CP!TakeActive
<1>4. PICK f \in [0 .. n -> Cursors] :
              /\ f[0] = Untaken
              /\ \A i \in 1 .. n : f[i] = CP!TakeActive(f[i - 1], i, p, active, total)
              /\ CP!Taken(p, active, total) = f[n]
  BY <1>2, TakeCourse
<1>5. \A i \in 0 .. n : Took(f[i], i, s, active)
  <2> DEFINE B == {i \in 0 .. n : Took(f[i], i, s, active)}
  <2>1. 0 \in B
    <3>1. 0 \in 0 .. n /\ f[0] \in Cursors /\ ~f[0].error /\ f[0].cursor = 0 /\ \A m \in 1 .. 0 : m \notin active
      BY <1>1, <1>4 DEF Untaken
    <3> QED
      BY <3>1 DEF Took
  <2>2. \A i \in 1 .. n : i - 1 \in B => i \in B
    <3> SUFFICES ASSUME NEW i \in 1 .. n, Took(f[i - 1], i - 1, s, active)
                 PROVE  Took(f[i], i, s, active)
      BY <1>1
    <3>1. Took(CP!TakeActive(f[i - 1], i, p, active, total), i, s, active)
      BY TakeKeeps
    <3> QED
      BY <1>4, <3>1
  <2>3. \A i \in 0 .. n : i \in B
    <3> HIDE DEF B
    <3> QED
      BY <1>1, <2>1, <2>2, Rounds
  <2> QED
    BY <2>3
<1>6. n \in 0 .. n
  BY <1>1
<1> DEFINE cut == CP!Taken(p, active, total)
           left == total - cut.cursor
           late == IF left > 0 THEN <<[start |-> cut.cursor, end |-> total]>> ELSE <<>>
           keeps == cut.keeps \o late
           r == CP!build_keep_segments(p, active, total)
<1>7. r = IF cut.error \/ active = {} \/ left \in 1 .. g - 1 \/ keeps = <<>> THEN <<>> ELSE keeps
  BY DEF CP!build_keep_segments
<1>8. Took(cut, n, s, active)
  BY <1>4, <1>5, <1>6
<1> HIDE DEF r, cut
<1>9. PICK m \in 1 .. n : cut.cursor = s[m].end /\ (cut.keeps # <<>> \/ s[m].start = 0)
  BY <1>1, <1>8 DEF Took
<1>10. cut \in Cursors /\ ~cut.error /\ cut.cursor \in Int /\ cut.keeps \in Seq(Pieces)
  BY <1>8 DEF Took, Cursors
<1> DEFINE e == cut.cursor
<1>11. g \in Nat /\ e <= total /\ (e = total \/ e + g <= total) /\ (cut.keeps # <<>> \/ e # total)
  BY <1>9, IslandsAreNatural DEF Renderable
<1> HIDE DEF g, e
<1>12. e \in Int
  BY <1>10 DEF e
<1>13. total - e \notin 1 .. g - 1 /\ (e # total => total - e > 0)
  BY <1>11, <1>12
<1>14. left \notin 1 .. g - 1 /\ (cut.keeps # <<>> \/ left > 0)
  BY <1>11, <1>13 DEF e
<1>15. late \in Seq(Pieces) /\ (left > 0 => late # <<>>)
  <2>1. [start |-> cut.cursor, end |-> total] \in Pieces
    BY <1>10 DEF Pieces
  <2> QED
    BY <2>1
<1> HIDE DEF left, late
<1>16. keeps # <<>>
  BY <1>10, <1>14, <1>15, JoinedPieces
<1> HIDE DEF keeps
<1> QED
  BY <1>7, <1>10, <1>14, <1>16 DEF r

-----------------------------------------------------------------------------
(* A proposal as a whole.                                                  *)
LEMMA SoundIsConsistent ==
    ASSUME NEW q, Finalized(q), NEW o, o = CP!resolve_outro(q), NEW i, i = CP!resolve_intro(q, o.tail),
           NEW N, NEW w, Sound(w, N, q, o, i), NEW p, p.proposed = w.proposed
    PROVE  CP!internally_consistent(p, q.total)
<1> DEFINE s == w.proposed
           n == Len(s)
           total == q.total
<1>1. s \in Seq(ProposedCuts) /\ n \in Nat /\ DOMAIN p.proposed = 1 .. n /\ total \in Nat
  BY ProposalFields, EventNumbers DEF Sound
<1>2. \A a \in ProposedCuts : a.start \in Int /\ a.end \in Int
  BY DEF ProposedCuts
<1>3. ASSUME NEW c, Honest(q, o, c) \/ IsTail(q, o, c) \/ (CP!is_resolved(i) /\ IsLead(i, c))
      PROVE  CP!nonempty(c, total) /\ c.end <= total
  <2>1. CASE Honest(q, o, c)
    <3>1. c.reason = "silence" /\ c.start < c.end /\ c.end <= total
      BY <2>1 DEF Honest, IsAudio, Within
    <3> QED
      BY <3>1 DEF CP!nonempty
  <2>2. CASE IsTail(q, o, c)
    <3>1. c.reason = "outro_excess_tail" /\ c.end = total /\ c.start = o.tail /\ o.tail < total
      BY <2>2, TailNumbers DEF IsTail
    <3> QED
      BY <1>1, <3>1 DEF CP!nonempty
  <2>3. CASE CP!is_resolved(i) /\ IsLead(i, c)
    <3>1. /\ c.reason = "intro_lead_in" /\ c.start = 0 /\ c.end = i.start
          /\ i.start \in Nat /\ 0 < i.start /\ i.start < total
      BY <2>3, IntroNumbers DEF IsLead
    <3>2. c.end <= total
      BY <1>1, <3>1
    <3> QED
      BY <3>1, <3>2 DEF CP!nonempty
  <2> QED
    BY <1>3, <2>1, <2>2, <2>3
<1>4. ASSUME NEW x \in 1 .. n, x > 1
      PROVE  s[x - 1].end <= s[x].start
  <2>1. x - 1 \in 1 .. n /\ x - 1 < x
    BY <1>1, <1>4
  <2>2. s[x - 1].end + MinimumKeepIsland <= s[x].start
    BY <2>1 DEF Sound, Spaced
  <2>3. s[x - 1] \in ProposedCuts /\ s[x] \in ProposedCuts
    BY <1>1, <2>1
  <2> DEFINE a == s[x - 1].end
             b == s[x].start
  <2>4. a \in Int /\ b \in Int /\ a + MinimumKeepIsland <= b /\ MinimumKeepIsland \in Nat
    BY <1>2, <2>2, <2>3, Parameters
  <2> HIDE DEF a, b
  <2>5. a <= b
    BY <2>4
  <2> QED
    BY <2>5 DEF a, b
<1>5. \A x \in 1 .. n : CP!nonempty(s[x], total) /\ s[x].end <= total
  BY <1>3 DEF Sound
<1>6. \A x \in DOMAIN p.proposed : /\ CP!nonempty(p.proposed[x], total)
                                   /\ p.proposed[x].end <= total
                                   /\ x > 1 => p.proposed[x - 1].end <= p.proposed[x].start
  <2> HIDE DEF s, n, total
  <2>1. p.proposed = s
    BY DEF s
  <2> QED
    BY <1>1, <1>4, <1>5, <2>1
<1> QED
  BY <1>6 DEF CP!internally_consistent

\* Answered once is what JudgedOnce says.
LEMMA OnceIsJudgedOnce ==
    ASSUME NEW w \in Proposals, NEW N \in Seq(Sil), Once(w, Upto(N, Len(N))),
           NEW p, p.proposed = w.proposed, p.rejected = w.rejected
    PROVE  CP!JudgedOnce(p, N)
<1> DEFINE s == w.proposed
           t == w.rejected
           A == {j \in DOMAIN p.proposed : p.proposed[j].reason = "silence"}
           proposed == [j \in A |-> p.proposed[j].raw]
           rejected == [j \in DOMAIN p.rejected |-> p.rejected[j].raw]
<1>1. DOMAIN s = 1 .. Len(s) /\ DOMAIN t = 1 .. Len(t) /\ s = p.proposed /\ t = p.rejected
  BY ProposalFields
<1>2. A = {j \in 1 .. Len(s) : IsAudio(s[j])} /\ DOMAIN proposed = A /\ \A j \in A : proposed[j] = s[j].raw
  BY <1>1 DEF IsAudio
<1>3. DOMAIN rejected = 1 .. Len(t) /\ \A j \in 1 .. Len(t) : rejected[j] = t[j].raw
  BY <1>1
<1>4. CP!ToSet(N) = Upto(N, Len(N))
  <2>1. DOMAIN N = 1 .. Len(N)
    OBVIOUS
  <2> QED
    BY <2>1 DEF CP!ToSet, Upto
<1> DEFINE X == CP!ToSet(N)
<1>5. Once(w, X)
  BY <1>4
<1>6. CP!JudgedOnce(p, N) <=> /\ CP!IsInjective(proposed) /\ CP!IsInjective(rejected)
                              /\ CP!Range(proposed) \cap CP!Range(rejected) = {}
                              /\ CP!Range(proposed) \cup CP!Range(rejected) = X
  BY DEF CP!JudgedOnce
<1>7. /\ CP!IsInjective(proposed) <=> \A a, b \in DOMAIN proposed : proposed[a] = proposed[b] => a = b
      /\ CP!IsInjective(rejected) <=> \A a, b \in DOMAIN rejected : rejected[a] = rejected[b] => a = b
      /\ CP!Range(proposed) = {proposed[a] : a \in DOMAIN proposed}
      /\ CP!Range(rejected) = {rejected[a] : a \in DOMAIN rejected}
  BY DEF CP!IsInjective, CP!Range
<1> HIDE DEF proposed, rejected, A, X
<1>8. CP!IsInjective(proposed) /\ CP!IsInjective(rejected)
  BY <1>2, <1>3, <1>5, <1>7 DEF Once
<1>9. CP!Range(proposed) \cap CP!Range(rejected) = {}
  BY <1>2, <1>3, <1>5, <1>7 DEF Once
<1>10. CP!Range(proposed) \cup CP!Range(rejected) = X
  <2>1. ASSUME NEW v \in X PROVE v \in CP!Range(proposed) \cup CP!Range(rejected)
    <3>1. \/ \E x \in 1 .. Len(s) : IsAudio(s[x]) /\ s[x].raw = v
          \/ \E y \in 1 .. Len(t) : t[y].raw = v
      BY <1>5 DEF Once
    <3>2. CASE \E x \in 1 .. Len(s) : IsAudio(s[x]) /\ s[x].raw = v
      <4>1. PICK x \in 1 .. Len(s) : IsAudio(s[x]) /\ s[x].raw = v
        BY <3>2
      <4>2. x \in DOMAIN proposed /\ proposed[x] = v
        BY <1>2, <4>1
      <4> QED
        BY <1>7, <4>2
    <3>3. CASE \E y \in 1 .. Len(t) : t[y].raw = v
      <4>1. PICK y \in 1 .. Len(t) : t[y].raw = v
        BY <3>3
      <4>2. y \in DOMAIN rejected /\ rejected[y] = v
        BY <1>3, <4>1
      <4> QED
        BY <1>7, <4>2
    <3> QED
      BY <3>1, <3>2, <3>3
  <2>2. ASSUME NEW v \in CP!Range(proposed) \cup CP!Range(rejected) PROVE v \in X
    BY <1>2, <1>3, <1>5, <1>7 DEF Once
  <2> QED
    BY <2>1, <2>2
<1> QED
  BY <1>6, <1>8, <1>9, <1>10

LEMMA NormalizedAsFound ==
    ASSUME NEW S \in SUBSET Sil, IsFiniteSet(S), Proper(S)
    PROVE  CP!JudgedAsFound(CP!normalize_silences(S), S)
<1> DEFINE N == CP!normalize_silences(S)
<1>1. /\ N \in Seq(Sil)
      /\ \A s \in S : \E x \in 1 .. Len(N) : N[x].start <= s.start /\ s.end <= N[x].end
      /\ \A x \in 1 .. Len(N) : \A t \in Int :
            N[x].start <= t /\ t < N[x].end => \E s \in S : s.start <= t /\ t < s.end
  BY NormalizedSilences
<1> HIDE DEF N
<1>2. CP!ToSet(N) = {N[x] : x \in 1 .. Len(N)}
  <2>1. DOMAIN N = 1 .. Len(N)
    BY <1>1
  <2> QED
    BY <2>1 DEF CP!ToSet
<1>3. \A s \in S : \E c \in CP!ToSet(N) : c.start <= s.start /\ s.end <= c.end
  BY <1>1, <1>2
<1>4. ASSUME NEW c \in CP!ToSet(N), NEW t \in CP!Removed(c)
      PROVE  \E s \in S : t \in CP!Removed(s)
  <2>1. PICK x \in 1 .. Len(N) : c = N[x]
    BY <1>2
  <2>2. \A s \in Sil : s.start \in Int /\ s.end \in Int
    BY DEF Sil
  <2>3. c.start \in Int /\ c.end \in Int
    BY <1>1, <2>1, <2>2
  <2>4. t \in Int /\ c.start <= t /\ t < c.end
    BY <2>3 DEF CP!Removed
  <2>5. PICK s \in S : s.start <= t /\ t < s.end
    BY <1>1, <2>1, <2>4
  <2>6. s.start \in Int /\ s.end \in Int
    BY <2>2
  <2>7. t \in s.start .. s.end - 1
    BY <2>4, <2>5, <2>6
  <2> QED
    BY <2>7 DEF CP!Removed
<1> QED
  BY <1>3, <1>4 DEF CP!JudgedAsFound, N

\* A sound proposal is honest.
LEMMA SoundIsHonest ==
    ASSUME NEW q, Finalized(q), NEW o, o = CP!resolve_outro(q), NEW i, i = CP!resolve_intro(q, o.tail),
           NEW S \in SUBSET Sil, IsFiniteSet(S), Proper(S), NEW N, N = CP!normalize_silences(S),
           NEW w, Sound(w, N, q, o, i), NEW p, p = CP!Proposal(w, o, i, S)
    PROVE  CP!ProposalIsHonest(q, p)
<1>1. p.proposed = w.proposed /\ p.rejected = w.rejected /\ p.outro = o /\ p.intro = i /\ p.silences = S
  BY DEF CP!Proposal
<1>2. CP!internally_consistent(p, q.total)
  BY <1>1, SoundIsConsistent
<1>3. CP!JudgedAsFound(CP!normalize_silences(p.silences), p.silences)
  BY <1>1, NormalizedAsFound
<1>4. CP!JudgedOnce(p, CP!normalize_silences(p.silences))
  <2>1. N \in Seq(Sil)
    BY NormalizedSilences
  <2> QED
    BY <1>1, <2>1, OnceIsJudgedOnce DEF Sound
<1>5. ASSUME NEW c \in CP!ToSet(p.proposed), c.reason = "silence"
      PROVE  /\ c.raw.start + HandleBefore <= c.start * TicksPerFrame
             /\ c.end * TicksPerFrame + HandleAfter <= c.raw.end
             /\ \A r \in CP!RawRanges(q.events, q.total) : r.blocks => ~CP!Intersects(c, r)
             /\ p.outro.status = "resolved" =>
                   CP!Removed(c) \cap (p.outro.start .. p.outro.protected_end - 1) = {}
             /\ CP!is_resolved(p.intro) => c.start >= p.intro.start + INTRO_FLOW_PROTECTED_FRAMES
  <2>1. PICK x \in 1 .. Len(w.proposed) : c = w.proposed[x]
    <3>1. DOMAIN p.proposed = 1 .. Len(w.proposed)
      BY <1>1, ProposalFields DEF Sound
    <3> QED
      BY <1>1, <3>1 DEF CP!ToSet
  <2>2. Honest(q, o, c) /\ (CP!is_resolved(i) => i.start + INTRO_FLOW_PROTECTED_FRAMES <= c.start)
    <3>1. ~IsTail(q, o, c) /\ ~IsLead(i, c)
      BY <1>5 DEF IsTail, IsLead
    <3> QED
      BY <2>1, <3>1 DEF Sound
  <2>3. /\ c.raw.start + HandleBefore <= c.start * TicksPerFrame
        /\ c.end * TicksPerFrame + HandleAfter <= c.raw.end
        /\ \A r \in CP!RawRanges(q.events, q.total) : r.blocks => ~CP!Intersects(c, r)
        /\ o.status = "resolved" => c.end <= o.start \/ o.protected_end <= c.start
        /\ c.start \in Int /\ c.end \in Int
    BY <2>2 DEF Honest, Unprotected, Within
  <2>4. ASSUME o.status = "resolved"
        PROVE  CP!Removed(c) \cap (o.start .. o.protected_end - 1) = {}
    <3>1. o.start \in Int /\ o.protected_end \in Int
      <4>1. o.start \in Nat /\ o.protected_end \in Int
        BY <2>4, OutroRange
      <4> QED
        BY <4>1
    <3> DEFINE a == c.start
               b == c.end
               d == o.start
               e == o.protected_end
    <3>2. a \in Int /\ b \in Int /\ d \in Int /\ e \in Int /\ (b <= d \/ e <= a)
      BY <2>3, <2>4, <3>1
    <3> HIDE DEF a, b, d, e
    <3>3. (a .. b - 1) \cap (d .. e - 1) = {}
      BY <3>2
    <3> QED
      BY <3>3 DEF CP!Removed, a, b, d, e
  <2>5. ASSUME CP!is_resolved(i)
        PROVE  c.start >= i.start + INTRO_FLOW_PROTECTED_FRAMES
    <3>1. i.start \in Nat /\ INTRO_FLOW_PROTECTED_FRAMES \in Nat
      BY <2>5, IntroNumbers, Parameters
    <3> QED
      BY <2>2, <2>3, <2>5, <3>1
  <2> QED
    BY <1>1, <2>3, <2>4, <2>5
<1> QED
  BY <1>2, <1>3, <1>4, <1>5 DEF CP!ProposalIsHonest

\* A sound proposal can be rendered.
LEMMA SoundRenders ==
    ASSUME NEW q, Finalized(q), NEW o, o = CP!resolve_outro(q), NEW i, i = CP!resolve_intro(q, o.tail),
           NEW S, NEW N, NEW w, Sound(w, N, q, o, i), NEW p, p = CP!Proposal(w, o, i, S)
    PROVE  CP!SelectionsRender(q, p)
<1> DEFINE g == CP!Max({1, MinimumKeepIsland})
           late == CP!is_resolved(p.intro) /\ p.intro.start + g > q.total
<1>1. p.proposed = w.proposed /\ p.intro = i /\ p.proposed \in Seq(ProposedCuts)
  BY ProposalFields DEF CP!Proposal, Sound
<1>2. SUFFICES ASSUME ~late, NEW active \in (SUBSET DOMAIN p.proposed) \ {{}}
               PROVE  CP!build_keep_segments(p, active, q.total) # <<>>
  BY DEF CP!SelectionsRender
<1>3. CP!is_resolved(i) => i.start + g <= q.total
  <2> SUFFICES ASSUME CP!is_resolved(i) PROVE i.start + g <= q.total
    OBVIOUS
  <2>1. i.start \in Nat /\ g \in Nat /\ q.total \in Nat
    BY IntroNumbers, IslandsAreNatural, EventNumbers
  <2>2. ~(i.start + g > q.total)
    BY <1>1, <1>2
  <2> HIDE DEF g
  <2> QED
    BY <2>1, <2>2
<1>4. Renderable(p.proposed, q.total)
  BY <1>1, <1>3, SoundIsRenderable
<1>5. q.total \in Nat /\ active \in SUBSET (DOMAIN p.proposed) /\ active # {}
  <2>1. q.total \in Nat
    BY EventNumbers
  <2>2. active \in SUBSET (DOMAIN p.proposed) /\ active # {}
    OBVIOUS
  <2> QED
    BY <2>1, <2>2
<1> QED
  BY <1>1, <1>4, <1>5, EverySelectionRenders

(* The same for a single question, whatever it holds beside a finalized    *)
(* recording and a log: what generate_proposal returns is honest and every *)
(* choice of its cuts can be rendered.                                     *)
THEOREM EveryProposalIsSound ==
    ASSUME NEW q, Finalized(q), q.log \in Seq(Sil)
    PROVE  CP!ProposalIsSound(q)
<1> DEFINE o == CP!resolve_outro(q)
           i == CP!resolve_intro(q, o.tail)
           P == CP!materialize_protection_with_outro(q.events, q.total, o)
           S == CP!Clamped(CP!parse_silences(q.log), q.total * TicksPerFrame)
           audio == CP!build_cut_candidates(S, q.total, P.ranges)
           w == CP!WithIntroLeadIn(CP!WithOutroTail(audio, o, q.total), i)
           p == CP!generate_proposal(q)
           N == CP!normalize_silences(S)
<1>1. p = IF P.status # "materialized" THEN [status |-> "E_PROTECTION"] ELSE CP!Proposal(w, o, i, S)
  BY DEF CP!generate_proposal
<1>2. S \in SUBSET Sil /\ IsFiniteSet(S) /\ Proper(S)
  <2>1. q.total * TicksPerFrame \in Int
    BY EventNumbers, Parameters
  <2> QED
    BY <2>1, FoundSilences, ClampedSilences
<1>3. o = CP!resolve_outro(q) /\ i = CP!resolve_intro(q, o.tail)
  OBVIOUS
<1> HIDE DEF p
<1>4. CASE P.status # "materialized"
  <2>1. p.status = "E_PROTECTION"
    BY <1>1, <1>4
  <2>2. p.status # "ready"
    BY <2>1
  <2> QED
    BY <2>1, <2>2 DEF CP!ProposalIsSound, CP!IsSound, CP!ProposalIsHonest, CP!SelectionsRender, p
<1>5. CASE P.status = "materialized"
  <2>1. audio \in Proposals /\ Judged(audio, N, Len(N), q, o)
    <3> HIDE DEF S, o
    <3> QED
      BY <1>2, <1>3, <1>5, JudgedSilences
  <2>2. N \in Seq(Sil)
    BY <1>2, NormalizedSilences
  <2> HIDE DEF audio, N, S, o, i, P
  <2>3. Tailed(CP!WithOutroTail(audio, o, q.total), N, q, o)
    BY <1>3, <2>1, <2>2, WithTail
  <2>4. Sound(w, N, q, o, i)
    BY <1>3, <2>3, WithLead
  <2>5. p = CP!Proposal(w, o, i, S) /\ N = CP!normalize_silences(S)
    BY <1>1, <1>5 DEF N
  <2> HIDE DEF w
  <2>6. CP!ProposalIsHonest(q, p)
    BY <1>2, <1>3, <2>4, <2>5, SoundIsHonest
  <2>7. CP!SelectionsRender(q, p)
    BY <1>3, <2>4, <2>5, SoundRenders
  <2> QED
    BY <2>6, <2>7 DEF CP!ProposalIsSound, CP!IsSound, p
<1> QED
  BY <1>4, <1>5

\* A question about a proposal is about a recording and a log.
ProposalQuestion ==
    /\ question.kind = "proposal outline" => Finalized(question.recording)
    /\ question.kind = "proposal" => Finalized(question) /\ question.log \in Seq(Sil)

(* A proposal answers every silence once, removes no protected frame and   *)
(* can be rendered whatever the user chooses, for any events of a          *)
(* finalized sidecar, any log of FFmpeg and any parameters that the        *)
(* assumptions admit (cut_proposal.py, generate_proposal; render.py,       *)
(* build_keep_segments).                                                   *)
THEOREM ProposalIsAlwaysSound == RulesSpec => []ProposalIsSound
<1>1. RulesInit => ProposalQuestion
  BY DEF RulesInit, ProposalQuestion
<1>2. ProposalQuestion /\ [RulesNext]_question => ProposalQuestion'
  <2> SUFFICES ASSUME ProposalQuestion, [RulesNext]_question PROVE ProposalQuestion'
    OBVIOUS
  <2>1. CASE OutlineShort
    <3>1. PICK words \in WordLists, s \in Spans :
              question' = [kind |-> "short outline", words |-> words, first |-> s[1], last |-> s[2]]
      BY <2>1 DEF OutlineShort, Ask
    <3>2. question'.kind = "short outline"
      BY <3>1
    <3> QED
      BY <3>2 DEF ProposalQuestion
  <2>2. CASE AskShort
    <3>1. PICK tone \in Tones :
              question' = [kind |-> "short", words |-> question.words, first |-> question.first,
                           last |-> question.last, tone |-> tone]
      BY <2>2 DEF AskShort, Ask
    <3>2. question'.kind = "short"
      BY <3>1
    <3> QED
      BY <3>2 DEF ProposalQuestion
  <2>3. CASE AskProbe
    <3>1. PICK reply \in Answers : question' = [kind |-> "probe", answer |-> reply]
      BY <2>3 DEF AskProbe, Ask
    <3>2. question'.kind = "probe"
      BY <3>1
    <3> QED
      BY <3>2 DEF ProposalQuestion
  <2>4. CASE OutlineProposal
    <3>1. PICK r \in Recordings : question' = [kind |-> "proposal outline", recording |-> r]
      BY <2>4 DEF OutlineProposal, Ask
    <3>2. question'.kind = "proposal outline" /\ question'.recording = r
      BY <3>1
    <3>3. Finalized(r)
      BY ProposalsAssumption
    <3> QED
      BY <3>2, <3>3 DEF ProposalQuestion
  <2>5. CASE AskProposal
    <3> DEFINE r == question.recording
    <3>1. PICK log \in Logs :
              question' = [kind |-> "proposal", log |-> log, events |-> r.events, total |-> r.total,
                           version |-> r.version, obs |-> r.obs, binding |-> r.binding, collection |-> r.collection]
      BY <2>5 DEF AskProposal, Ask
    <3>2. Finalized(r)
      BY <2>5 DEF AskProposal, Outline, ProposalQuestion
    <3>3. log \in Seq(Sil)
      <4>1. Logs \subseteq Seq([start : Int, end : Int])
        BY ProposalsAssumption
      <4> QED
        BY <4>1 DEF Sil
    <3>4. /\ question'.kind = "proposal" /\ question'.log = log
          /\ question'.events = r.events /\ question'.total = r.total
      BY <3>1
    <3> HIDE DEF r
    <3>5. Finalized(question')
      BY <3>2, <3>4 DEF Finalized
    <3> QED
      BY <3>3, <3>4, <3>5 DEF ProposalQuestion
  <2>6. CASE UNCHANGED question
    BY <2>6 DEF ProposalQuestion
  <2> QED
    BY <2>1, <2>2, <2>3, <2>4, <2>5, <2>6 DEF RulesNext
<1>3. ProposalQuestion => ProposalIsSound
  BY EveryProposalIsSound DEF ProposalQuestion, ProposalIsSound, Outline
<1> QED
  BY <1>1, <1>2, <1>3, PTL DEF RulesSpec

-----------------------------------------------------------------------------
(* Attempts to render                                                      *)

USE DEF Attempts, Asking, Steps, Planned

----------------------------------------------------------------------------
(* Lemmas about the values.                                                *)

\* A missing file, a foreign file and a missing plan are no videos and no plans.
LEMMA NoFileIsAVideo == NoVideo \notin Videos /\ Foreign \notin Videos /\ Foreign # NoVideo
<1>1. \A v \in Videos : DOMAIN v = {"cuts", "encoder", "clean"}
  BY DEF Videos
<1>2. DOMAIN NoVideo = {"cuts"} /\ DOMAIN Foreign = {"cuts", "origin"}
  BY DEF NoVideo, Foreign
<1> QED
  BY <1>1, <1>2

LEMMA NoPlanIsNone == NoPlan \notin Plans
<1>1. \A p \in Plans : DOMAIN p = {"cuts", "approval", "encoder"}
  BY DEF Plans
<1>2. DOMAIN NoPlan = {"cuts"}
  BY DEF NoPlan
<1> QED
  BY <1>1, <1>2

LEMMA NoDraftIsNone == NoDraft \notin Approvals
BY DEF NoDraft, Approvals

LEMMA FaultsBounded ==
    ASSUME faults \in 0 .. MaxFaults, Fault \/ NoFault
    PROVE  faults' \in 0 .. MaxFaults
BY BoundsAssumption DEF Fault, NoFault

\* Decisions and requests hold times.
LEMMA Times ==
    ASSUME TypeOK
    PROVE  /\ approval.decided \in Nat
           /\ \A i \in DOMAIN requests : requests[i] \in Requests /\ requests[i].decided \in Nat
<1>1. 0 .. MaxDecisions \subseteq Nat
  BY BoundsAssumption
<1>2. approval.decided \in 0 .. MaxDecisions
  BY DEF TypeOK, Approvals
<1>3. \A i \in DOMAIN requests : requests[i] \in Requests
  BY DEF TypeOK
<1>4. \A r \in Requests : r.decided \in 0 .. MaxDecisions
  BY DEF Requests
<1> QED
  BY <1>1, <1>2, <1>3, <1>4

\* A thread at work has a request of its own.
LEMMA AtWork ==
    ASSUME IInv, NEW t \in Threads, pc[t] # "idle"
    PROVE  /\ job[t] \in Jobs
           /\ job[t].attempt \in Attempts
           /\ job[t].attempt \in DOMAIN requests
           /\ request(t) \in Requests
           /\ outcome[job[t].attempt] = "started"
<1>1. job[t] \in Jobs /\ outcome[job[t].attempt] = "started" /\ job[t].attempt \in Attempts
  BY DEF IInv, TypeOK, Jobs
<1>2. job[t].attempt \in DOMAIN requests
  BY <1>1 DEF IInv, TypeOK, AttemptInv
<1> QED
  BY <1>1, <1>2 DEF IInv, TypeOK, request

----------------------------------------------------------------------------

LEMMA InitInv == Init => IInv
<1> SUFFICES ASSUME Init PROVE IInv
  OBVIOUS
<1>1. TypeOK
  BY BoundsAssumption DEF Init, TypeOK, Selections, Approvals, Outcomes
<1>2. AttemptInv /\ DecisionInv /\ CarriedInv /\ SuccessInv
  BY DEF Init, AttemptInv, DecisionInv, CarriedInv, SuccessInv
<1>3. PlanBindsItsCuts /\ PublishedFromApprovedSource
  BY NoFileIsAVideo DEF Init, PlanBindsItsCuts, PublishedFromApprovedSource
<1> QED
  BY <1>1, <1>2, <1>3 DEF IInv

(* The user.                                                               *)

\* A step of the user that leaves the requests alone leaves everything of the attempts
\* alone.
LEMMA UserInv ==
    ASSUME IInv, UNCHANGED <<requests, others>>,
           selection' \in Selections, approval' \in Approvals,
           draft' = NoDraft \/ draft' \in Approvals, DecisionInv'
    PROVE  IInv'
<1> USE DEF others, disk, threads
<1>1. TypeOK'
  BY DEF IInv, TypeOK
<1>2. AttemptInv' /\ CarriedInv' /\ SuccessInv'
  BY DEF IInv, AttemptInv, CarriedInv, SuccessInv, request
<1>3. PlanBindsItsCuts' /\ PublishedFromApprovedSource'
  BY DEF IInv, PlanBindsItsCuts, PublishedFromApprovedSource
<1> QED
  BY <1>1, <1>2, <1>3 DEF IInv

LEMMA UpdateSelectionInv ==
    ASSUME IInv, NEW s \in SUBSET Cuts, UpdateSelection(s)
    PROVE  IInv'
<1> USE DEF UpdateSelection
<1>1. selection' \in Selections
  BY BoundsAssumption DEF IInv, TypeOK, Selections
<1>2. DecisionInv'
  BY DEF IInv, DecisionInv
<1> QED
  BY <1>1, <1>2, UserInv DEF IInv, TypeOK

LEMMA ReadSelectionInv ==
    ASSUME IInv, ReadSelection
    PROVE  IInv'
<1> USE DEF ReadSelection
<1>1. draft' \in Approvals
  BY BoundsAssumption DEF IInv, TypeOK, Selections, Approvals
<1>2. DecisionInv'
  BY <1>1 DEF IInv, DecisionInv
<1> QED
  BY <1>1, <1>2, UserInv DEF IInv, TypeOK

LEMMA WriteDecisionInv ==
    ASSUME IInv, WriteDecision
    PROVE  IInv'
<1> USE DEF WriteDecision
<1>1. draft \in Approvals /\ draft.decided = approval.decided + 1
  BY DEF IInv, TypeOK, DecisionInv
<1>2. approval.decided \in Nat /\ \A i \in DOMAIN requests : requests[i].decided \in Nat
  BY Times DEF IInv
<1>3. DecisionInv'
  BY <1>1, <1>2 DEF IInv, DecisionInv
<1> QED
  BY <1>1, <1>3, UserInv DEF IInv, TypeOK

\* A request is made with the cuts and the time of the approval on disk.
LEMMA SubmitRequestInv ==
    ASSUME IInv, SubmitRequest
    PROVE  IInv'
<1> USE DEF SubmitRequest, others, disk, threads
<1> DEFINE new == [cuts |-> approval.cuts, decided |-> approval.decided,
                   sha |-> approval.decided]
<1>0. /\ new \in Requests /\ requests \in Seq(Requests)
      /\ Len(requests) \in Nat /\ Len(requests) < MaxRequests /\ MaxRequests \in Nat
  BY BoundsAssumption DEF IInv, TypeOK, Requests, Approvals
<1>1. /\ requests' = Append(requests, new)
      /\ requests' \in Seq(Requests)
      /\ Len(requests') = Len(requests) + 1
      /\ \A i \in DOMAIN requests : requests'[i] = requests[i]
      /\ DOMAIN requests' = DOMAIN requests \cup {Len(requests) + 1}
      /\ requests'[Len(requests) + 1] = new
  BY <1>0
<1> HIDE DEF new
<1>2. TypeOK'
  BY <1>0, <1>1 DEF IInv, TypeOK
<1>3. AttemptInv'
  BY <1>0, <1>1 DEF IInv, AttemptInv
<1>4. DecisionInv'
  BY <1>0, <1>1, Times DEF IInv, DecisionInv, new
<1>5. CarriedInv'
  <2>1. \A t \in Threads : pc[t] # "idle" => request(t)' = request(t)
    BY <1>1, AtWork DEF request
  <2> QED
    BY <2>1 DEF IInv, CarriedInv
<1>6. SuccessInv' /\ PlanBindsItsCuts' /\ PublishedFromApprovedSource'
  <2>1. \A a \in Attempts : outcome[a] # "none" => requests'[a] = requests[a]
    BY <1>0, <1>1 DEF IInv, AttemptInv
  <2> QED
    BY <2>1 DEF IInv, AttemptInv, SuccessInv, PlanBindsItsCuts, PublishedFromApprovedSource
<1> QED
  BY <1>2, <1>3, <1>4, <1>5, <1>6 DEF IInv

----------------------------------------------------------------------------
(* The thread: an attempt ends, or goes on to a later step.                *)

\* An attempt that ends without a success of its own; it may take the file at the
\* final name away.
LEMMA EndInv ==
    ASSUME IInv, NEW t \in Threads, pc[t] # "idle",
           NEW o \in Failures \cup {"reused"}, End(t, o),
           UNCHANGED <<outside, plans, results>>,
           faults' \in 0 .. MaxFaults,
           target' \in {target, NoVideo} \cup {v \in Videos : v.clean}
    PROVE  IInv'
<1> USE DEF End, Go, outside, user
<1>0. /\ job[t].attempt \in Attempts
      /\ outcome[job[t].attempt] = "started"
      /\ o \notin {"none", "started", "succeeded"} /\ o \in Outcomes
  BY AtWork DEF Failures, Outcomes
<1>1. /\ outcome' \in [Attempts -> Outcomes]
      /\ outcome'[job[t].attempt] = o
      /\ \A a \in Attempts : a # job[t].attempt => outcome'[a] = outcome[a]
      /\ pc' \in [Threads -> Steps] /\ pc'[t] = "idle"
      /\ job' \in [Threads -> Jobs \cup {NoJob}]
      /\ gate' \in [Threads -> Gates \cup {NoGate}] /\ gate'[t] = NoGate
      /\ \A s \in Threads : s # t => pc'[s] = pc[s] /\ job'[s] = job[s] /\ gate'[s] = gate[s]
  BY <1>0 DEF IInv, TypeOK
<1>2. \A s \in Threads : s # t /\ pc[s] # "idle" => job[s].attempt # job[t].attempt
  BY DEF IInv, AttemptInv
<1>3. TypeOK'
  <2>1. target' \in Videos \cup {NoVideo, Foreign}
    BY DEF IInv, TypeOK
  <2>2. ASSUME NEW s \in Threads, pc'[s] # "idle"
        PROVE  job'[s] \in Jobs /\ outcome'[job'[s].attempt] = "started"
    BY <2>2, <1>1, <1>2, AtWork
  <2>3. \A s \in Threads : gate'[s] # NoGate => pc'[s] \in Asking
    BY <1>1 DEF IInv, TypeOK
  <2> QED
    BY <1>1, <2>1, <2>2, <2>3 DEF IInv, TypeOK
<1>4. AttemptInv'
  <2>1. \A s, u \in Threads :
           pc'[s] # "idle" /\ pc'[u] # "idle" /\ job'[s].attempt = job'[u].attempt => s = u
    BY <1>1 DEF IInv, AttemptInv
  <2> QED
    BY <1>0, <1>1, <2>1, AtWork DEF IInv, AttemptInv
<1>5. DecisionInv'
  BY DEF IInv, DecisionInv
<1>6. CarriedInv'
  <2>1. ASSUME NEW s \in Threads, pc'[s] # "idle"
        PROVE  s # t /\ pc'[s] = pc[s] /\ job'[s] = job[s] /\ request(s)' = request(s)
    BY <2>1, <1>1 DEF request
  <2> QED
    BY <2>1 DEF IInv, CarriedInv
<1>7. SuccessInv'
  BY <1>0, <1>1 DEF IInv, SuccessInv
<1>8. PlanBindsItsCuts' /\ PublishedFromApprovedSource'
  BY NoFileIsAVideo DEF IInv, PlanBindsItsCuts, PublishedFromApprovedSource
<1> QED
  BY <1>3, <1>4, <1>5, <1>6, <1>7, <1>8 DEF IInv

\* An attempt that goes on at l: it keeps its request and the cuts of the request,
\* its plan is there from the second gate on, and only a clean video is published.
LEMMA GoOnInv ==
    ASSUME IInv, NEW t \in Threads, pc[t] # "idle",
           NEW l \in Steps \ {"idle", "initial"}, Go(t, l),
           UNCHANGED <<outside, outcome, results>>, faults' \in 0 .. MaxFaults,
           job' \in [Threads -> Jobs \cup {NoJob}],
           \A s \in Threads : s # t => job'[s] = job[s],
           job'[t] \in Jobs, job'[t].attempt = job[t].attempt,
           job'[t].cuts = request(t).cuts,
           ~ job'[t].clean => ~ intact,
           l \in {"publish", "result"} => job'[t].clean,
           l \in Planned => plans'[job[t].attempt] # NoPlan,
           plans' \in [Attempts -> Plans \cup {NoPlan}],
           \A a \in Attempts : a # job[t].attempt => plans'[a] = plans[a],
           plans[job[t].attempt] # NoPlan => plans'[job[t].attempt] # NoPlan,
           PlanBindsItsCuts',
           target' \in Videos \cup {NoVideo, Foreign},
           PublishedFromApprovedSource'
    PROVE  IInv'
<1> USE DEF Go, outside, user
<1>0. /\ job[t].attempt \in Attempts
      /\ outcome[job[t].attempt] = "started"
  BY AtWork
<1>1. /\ pc' \in [Threads -> Steps] /\ pc'[t] = l
      /\ gate' \in [Threads -> Gates \cup {NoGate}] /\ gate'[t] = NoGate
      /\ \A s \in Threads : s # t => pc'[s] = pc[s] /\ gate'[s] = gate[s]
  BY DEF IInv, TypeOK
<1>2. \A s \in Threads : pc'[s] # "idle" => pc[s] # "idle" /\ job'[s].attempt = job[s].attempt
  BY <1>1
<1>3. TypeOK'
  <2>1. ASSUME NEW s \in Threads, pc'[s] # "idle"
        PROVE  job'[s] \in Jobs /\ outcome'[job'[s].attempt] = "started"
    BY <2>1, <1>0, <1>2, AtWork
  <2>2. \A s \in Threads : gate'[s] # NoGate => pc'[s] \in Asking
    BY <1>1 DEF IInv, TypeOK
  <2> QED
    BY <1>1, <2>1, <2>2 DEF IInv, TypeOK
<1>4. AttemptInv'
  BY <1>0, <1>2 DEF IInv, AttemptInv
<1>5. DecisionInv'
  BY DEF IInv, DecisionInv
<1>6. CarriedInv'
  <2>1. ASSUME NEW s \in Threads, s # t, pc'[s] # "idle"
        PROVE  /\ pc'[s] = pc[s] /\ job'[s] = job[s] /\ request(s)' = request(s)
               /\ job[s].attempt \in Attempts /\ plans'[job[s].attempt] = plans[job[s].attempt]
    BY <2>1, <1>1, AtWork DEF request, IInv, AttemptInv
  <2>2. request(t)' = request(t)
    BY DEF request
  <2>3. ASSUME NEW s \in Threads
        PROVE  CarriedInv!(s)'
    <3>1. CASE s = t
      BY <3>1, <2>2, <1>1
    <3>2. CASE s # t
      BY <3>2, <2>1 DEF IInv, CarriedInv
    <3> QED
      BY <3>1, <3>2
  <2> QED
    BY <2>3 DEF CarriedInv
<1>7. SuccessInv'
  BY <1>0 DEF IInv, SuccessInv
<1> QED
  BY <1>3, <1>4, <1>5, <1>6, <1>7 DEF IInv

\* An attempt that goes on with everything but its step as it was.
LEMMA StayInv ==
    ASSUME IInv, NEW t \in Threads, pc[t] \notin {"idle", "initial"},
           NEW l \in Steps \ {"idle", "initial"}, Go(t, l),
           UNCHANGED <<outside, outcome, results, job, plans, target>>,
           faults' \in 0 .. MaxFaults,
           l \in Planned => pc[t] \in Planned,
           l \in {"publish", "result"} => job[t].clean
    PROVE  IInv'
<1>1. /\ job[t] \in Jobs /\ job[t].cuts = request(t).cuts
      /\ ~ job[t].clean => ~ intact
      /\ pc[t] \in Planned => plans[job[t].attempt] # NoPlan
  BY AtWork DEF IInv, CarriedInv
<1>2. PlanBindsItsCuts' /\ PublishedFromApprovedSource'
  BY DEF IInv, PlanBindsItsCuts, PublishedFromApprovedSource, outside, user
<1>3. /\ job' \in [Threads -> Jobs \cup {NoJob}]
      /\ plans' \in [Attempts -> Plans \cup {NoPlan}]
      /\ target' \in Videos \cup {NoVideo, Foreign}
  BY DEF IInv, TypeOK
<1> QED
  BY <1>1, <1>2, <1>3, GoOnInv

----------------------------------------------------------------------------
(* The steps of the thread.                                                *)

LEMMA BeginInv ==
    ASSUME IInv, NEW t \in Threads, Begin(t)
    PROVE  IInv'
<1> USE DEF Begin, Go, outside, user
<1> DEFINE n == Len(requests)
<1>0. /\ n \in Attempts /\ n \in DOMAIN requests
      /\ outcome[n] = "none" /\ plans[n] = NoPlan
  BY DEF IInv, TypeOK, AttemptInv
<1>1. /\ outcome' \in [Attempts -> Outcomes] /\ outcome'[n] = "started"
      /\ \A a \in Attempts : a # n => outcome'[a] = outcome[a]
      /\ pc' \in [Threads -> Steps] /\ pc'[t] = "initial"
      /\ job' \in [Threads -> Jobs \cup {NoJob}]
      /\ job'[t] = [attempt |-> n, cuts |-> {}, encoder |-> "libx264", clean |-> TRUE]
      /\ job'[t] \in Jobs /\ job'[t].attempt = n /\ job'[t].clean
      /\ gate' \in [Threads -> Gates \cup {NoGate}] /\ gate'[t] = NoGate
      /\ \A s \in Threads : s # t => pc'[s] = pc[s] /\ job'[s] = job[s] /\ gate'[s] = gate[s]
  BY <1>0 DEF IInv, TypeOK, Outcomes, Jobs, Encoders
<1>2. \A s \in Threads : pc[s] # "idle" => job[s].attempt # n /\ job[s].attempt \in Attempts
  BY <1>0, AtWork
<1> HIDE DEF n
<1>3. TypeOK'
  <2>1. ASSUME NEW s \in Threads, pc'[s] # "idle"
        PROVE  job'[s] \in Jobs /\ outcome'[job'[s].attempt] = "started"
    BY <2>1, <1>1, <1>2, AtWork
  <2>2. \A s \in Threads : gate'[s] # NoGate => pc'[s] \in Asking
    BY <1>1 DEF IInv, TypeOK
  <2> QED
    BY <1>1, <2>1, <2>2 DEF IInv, TypeOK
<1>4. AttemptInv'
  <2>1. \A s, u \in Threads :
           pc'[s] # "idle" /\ pc'[u] # "idle" /\ job'[s].attempt = job'[u].attempt => s = u
    BY <1>1, <1>2 DEF IInv, AttemptInv
  <2>2. n <= Len(requests)
    BY <1>0 DEF n
  <2> QED
    BY <1>0, <1>1, <2>1, <2>2 DEF IInv, AttemptInv
<1>5. DecisionInv'
  BY DEF IInv, DecisionInv
<1>6. CarriedInv'
  <2>1. ASSUME NEW s \in Threads, s # t
        PROVE  pc'[s] = pc[s] /\ job'[s] = job[s] /\ request(s)' = request(s)
    BY <2>1, <1>1 DEF request
  <2> QED
    BY <2>1, <1>1 DEF IInv, CarriedInv
<1>7. SuccessInv' /\ PlanBindsItsCuts' /\ PublishedFromApprovedSource'
  BY <1>0, <1>1 DEF IInv, SuccessInv, PlanBindsItsCuts, PublishedFromApprovedSource
<1> QED
  BY <1>3, <1>4, <1>5, <1>6, <1>7 DEF IInv

LEMMA AskGateInv ==
    ASSUME IInv, NEW t \in Threads, AskGate(t)
    PROVE  IInv'
<1> USE DEF AskGate, outside, user, disk
<1>1. [approval |-> approval, selected |-> Selected] \in Gates
  BY DEF IInv, TypeOK, Gates, Selected
<1>2. TypeOK'
  BY <1>1 DEF IInv, TypeOK
<1>3. AttemptInv' /\ DecisionInv' /\ SuccessInv'
  BY DEF IInv, AttemptInv, DecisionInv, SuccessInv
<1>4. CarriedInv'
  BY DEF IInv, CarriedInv, request
<1>5. PlanBindsItsCuts' /\ PublishedFromApprovedSource'
  BY DEF IInv, PlanBindsItsCuts, PublishedFromApprovedSource
<1> QED
  BY <1>2, <1>3, <1>4, <1>5 DEF IInv

\* The only step that takes cuts from the gate: they are the cuts of the request.
LEMMA InitialGateInv ==
    ASSUME IInv, NEW t \in Threads, InitialGate(t)
    PROVE  IInv'
<1> USE DEF InitialGate, Returned
<1>0. pc[t] = "initial" /\ faults' \in 0 .. MaxFaults
  BY DEF IInv, TypeOK
<1>1. CASE \E o \in Failures \cup {"reused"} : End(t, o)
  BY <1>0, <1>1, EndInv
<1>2. CASE /\ Matches(t, gate[t])
           /\ job' = [job EXCEPT ![t].cuts = gate[t].approval.cuts]
           /\ Go(t, "prepare")
           /\ UNCHANGED outcome
  <2>1. job[t] \in Jobs /\ job \in [Threads -> Jobs \cup {NoJob}]
    BY <1>0, AtWork DEF IInv, TypeOK
  <2>2. gate[t].approval.cuts \in SUBSET Cuts /\ gate[t].approval.cuts = request(t).cuts
    BY <1>2 DEF IInv, TypeOK, Gates, Approvals, Matches
  <2>3. /\ job' \in [Threads -> Jobs \cup {NoJob}]
        /\ job'[t] \in Jobs
        /\ job'[t].attempt = job[t].attempt /\ job'[t].clean = job[t].clean
        /\ job'[t].cuts = request(t).cuts
        /\ \A s \in Threads : s # t => job'[s] = job[s]
    BY <1>2, <2>1, <2>2 DEF Jobs
  <2>4. PlanBindsItsCuts' /\ PublishedFromApprovedSource'
    BY DEF IInv, PlanBindsItsCuts, PublishedFromApprovedSource, outside, user
  <2>5. ~ job[t].clean => ~ intact
    BY <1>0 DEF IInv, CarriedInv
  <2> QED
    BY <1>0, <1>2, <2>3, <2>4, <2>5, GoOnInv, ZenonT(40) DEF IInv, TypeOK
<1>3. \A a : Reuse(a) \in Failures \cup {"reused"}
  BY DEF Reuse, Failures
<1> QED
  BY <1>1, <1>2, <1>3 DEF Failures

LEMMA PrepareInv ==
    ASSUME IInv, NEW t \in Threads, Prepare(t)
    PROVE  IInv'
<1> USE DEF Prepare
<1>0. pc[t] = "prepare" /\ faults' \in 0 .. MaxFaults
  BY FaultsBounded DEF IInv, TypeOK
<1>1. CASE \E o \in Failures : End(t, o)
  BY <1>0, <1>1, EndInv
<1>2. ASSUME NEW e \in Encoders, job' = [job EXCEPT ![t].encoder = e],
             Go(t, "second"), UNCHANGED outcome
      PROVE  IInv'
  <2>1. job[t] \in Jobs /\ job \in [Threads -> Jobs \cup {NoJob}]
    BY <1>0, AtWork DEF IInv, TypeOK
  <2>2. job[t].cuts = request(t).cuts /\ (~ job[t].clean => ~ intact)
    BY <1>0 DEF IInv, CarriedInv
  <2>3. /\ job' \in [Threads -> Jobs \cup {NoJob}]
        /\ job'[t] \in Jobs
        /\ job'[t].attempt = job[t].attempt /\ job'[t].clean = job[t].clean
        /\ job'[t].cuts = request(t).cuts
        /\ \A s \in Threads : s # t => job'[s] = job[s]
    BY <1>2, <2>1, <2>2 DEF Jobs
  <2>4. PlanBindsItsCuts' /\ PublishedFromApprovedSource'
    BY DEF IInv, PlanBindsItsCuts, PublishedFromApprovedSource, outside, user
  <2> QED
    BY <1>0, <1>2, <2>2, <2>3, <2>4, GoOnInv DEF IInv, TypeOK
<1> QED
  BY <1>1, <1>2 DEF Failures

\* The plan is written under an approval the request was matched with.
LEMMA SecondGateInv ==
    ASSUME IInv, NEW t \in Threads, SecondGate(t)
    PROVE  IInv'
<1> USE DEF SecondGate, Returned
<1>0. pc[t] = "second" /\ faults' \in 0 .. MaxFaults
  BY DEF IInv, TypeOK
<1>1. CASE End(t, "E_RENDER_NOT_AUTHORIZED") /\ UNCHANGED plans
  BY <1>0, <1>1, EndInv DEF Failures
<1>2. CASE Matches(t, gate[t]) /\ WritePlan(t)
  <2> DEFINE a == job[t].attempt
             new == [cuts |-> job[t].cuts, approval |-> gate[t].approval,
                     encoder |-> job[t].encoder]
  <2>1. job[t] \in Jobs /\ a \in Attempts
    BY <1>0, AtWork
  <2>2. job[t].cuts = request(t).cuts /\ (~ job[t].clean => ~ intact)
    BY <1>0 DEF IInv, CarriedInv
  <2>3. gate[t] \in Gates /\ gate[t].approval \in Approvals
    BY DEF IInv, TypeOK, Gates
  <2>4. /\ plans' = [plans EXCEPT ![a] = new] /\ Go(t, "start")
        /\ UNCHANGED <<job, outcome>>
    BY <1>2 DEF WritePlan
  <2>5. new \in Plans /\ new # NoPlan
    BY <2>1, <2>3, NoPlanIsNone DEF Plans, Jobs
  <2>6. /\ new.cuts = new.approval.cuts
        /\ new.cuts = requests[a].cuts
        /\ new.approval.decided = requests[a].decided
    BY <1>2, <2>2 DEF Matches, request
  <2> HIDE DEF new
  <2>7. /\ plans' \in [Attempts -> Plans \cup {NoPlan}]
        /\ plans'[a] = new
        /\ \A b \in Attempts : b # a => plans'[b] = plans[b]
    BY <2>1, <2>4, <2>5 DEF IInv, TypeOK
  <2>8. PlanBindsItsCuts'
    BY <2>6, <2>7 DEF IInv, PlanBindsItsCuts, outside, user
  <2>9. PublishedFromApprovedSource'
    BY DEF IInv, PublishedFromApprovedSource
  <2> QED
    BY <1>0, <2>1, <2>2, <2>4, <2>5, <2>7, <2>8, <2>9, GoOnInv DEF IInv, TypeOK
<1> QED
  BY <1>1, <1>2

LEMMA StartGateInv ==
    ASSUME IInv, NEW t \in Threads, StartGate(t)
    PROVE  IInv'
<1> USE DEF StartGate, Returned
<1>0. pc[t] = "start" /\ faults' \in 0 .. MaxFaults
  BY DEF IInv, TypeOK
<1>1. CASE Go(t, "encode") /\ UNCHANGED <<job, outcome>>
  BY <1>0, <1>1, StayInv
<1>2. CASE End(t, "E_RENDER_NOT_AUTHORIZED_AT_START")
  BY <1>0, <1>2, EndInv DEF Failures
<1> QED
  BY <1>1, <1>2

\* A step at which the job changes without its attempt and its cuts.
LEMMA JobChangeInv ==
    ASSUME IInv, NEW t \in Threads, pc[t] \in Planned,
           NEW l \in Planned \ {"publish", "result"}, Go(t, l),
           NEW j, job' = [job EXCEPT ![t] = j], j \in Jobs,
           j.attempt = job[t].attempt, j.cuts = job[t].cuts,
           ~ j.clean => ~ intact,
           UNCHANGED <<outside, outcome, results, plans, target>>,
           faults' \in 0 .. MaxFaults
    PROVE  IInv'
<1>1. /\ job[t].cuts = request(t).cuts
      /\ plans[job[t].attempt] # NoPlan
  BY DEF IInv, CarriedInv
<1>2. /\ job' \in [Threads -> Jobs \cup {NoJob}]
      /\ job'[t] = j
      /\ \A s \in Threads : s # t => job'[s] = job[s]
  BY DEF IInv, TypeOK
<1>3. PlanBindsItsCuts' /\ PublishedFromApprovedSource'
  BY DEF IInv, PlanBindsItsCuts, PublishedFromApprovedSource, outside, user
<1>4. /\ plans' \in [Attempts -> Plans \cup {NoPlan}] /\ plans' = plans
      /\ target' \in Videos \cup {NoVideo, Foreign}
  BY DEF IInv, TypeOK
<1>5. l \in Steps \ {"idle", "initial"} /\ l \notin {"publish", "result"} /\ pc[t] # "idle"
  OBVIOUS
<1>6. UNCHANGED <<outside, outcome, results>>
  OBVIOUS
<1> QED
  BY <1>1, <1>2, <1>3, <1>4, <1>5, <1>6, GoOnInv

LEMMA EncodeInv ==
    ASSUME IInv, NEW t \in Threads, Encode(t)
    PROVE  IInv'
<1> USE DEF Encode
<1>0. pc[t] = "encode" /\ faults' \in 0 .. MaxFaults
  BY FaultsBounded DEF IInv, TypeOK
<1>1. CASE job' = [job EXCEPT ![t].clean = intact] /\ Go(t, "verify") /\ UNCHANGED outcome
  <2> DEFINE j == [job[t] EXCEPT !.clean = intact]
  <2>1. job' = [job EXCEPT ![t] = j]
    BY <1>1
  <2>2. j \in Jobs /\ j.attempt = job[t].attempt /\ j.cuts = job[t].cuts /\ j.clean = intact
    BY <1>0, AtWork DEF IInv, TypeOK, Jobs
  <2> QED
    BY <1>0, <1>1, <2>1, <2>2, JobChangeInv
<1>2. CASE Go(t, "retry") /\ UNCHANGED <<job, outcome>>
  BY <1>0, <1>2, StayInv
<1>3. CASE \E o \in Failures : End(t, o)
  BY <1>0, <1>3, EndInv
<1> QED
  BY <1>1, <1>2, <1>3 DEF Failures

LEMMA RetryGatesInv ==
    ASSUME IInv, NEW t \in Threads, RetryGate(t) \/ RetryStartGate(t)
    PROVE  IInv'
<1>0. pc[t] \in {"retry", "retrystart"} /\ faults' \in 0 .. MaxFaults
  BY DEF IInv, TypeOK, RetryGate, RetryStartGate, Returned
<1>1. CASE RetryGate(t)
  <2>1. CASE Go(t, "retrystart") /\ UNCHANGED <<job, outcome>>
    BY <1>0, <1>1, <2>1, StayInv DEF RetryGate
  <2>2. CASE End(t, "E_RENDER_FFMPEG")
    BY <1>0, <1>1, <2>2, EndInv DEF RetryGate, Failures
  <2> QED
    BY <1>1, <2>1, <2>2 DEF RetryGate
<1>2. CASE RetryStartGate(t)
  <2>1. CASE job' = [job EXCEPT ![t].encoder = "libx264"] /\ Go(t, "encode") /\ UNCHANGED outcome
    <3> DEFINE j == [job[t] EXCEPT !.encoder = "libx264"]
    <3>0. job[t] \in Jobs
      BY <1>0, AtWork
    <3>1. job' = [job EXCEPT ![t] = j]
      BY <2>1
    <3>2. j \in Jobs /\ j.attempt = job[t].attempt /\ j.cuts = job[t].cuts /\ j.clean = job[t].clean
      BY <3>0 DEF Jobs, Encoders
    <3>3. ~ j.clean => ~ intact
      BY <1>0, <3>2 DEF IInv, CarriedInv
    <3> QED
      BY <1>0, <1>2, <2>1, <3>1, <3>2, <3>3, JobChangeInv DEF RetryStartGate
  <2>2. CASE End(t, "E_RENDER_FFMPEG")
    BY <1>0, <1>2, <2>2, EndInv DEF RetryStartGate, Failures
  <2> QED
    BY <1>2, <2>1, <2>2 DEF RetryStartGate
<1> QED
  BY <1>1, <1>2

LEMMA VerifyInv ==
    ASSUME IInv, NEW t \in Threads, Verify(t)
    PROVE  IInv'
<1> USE DEF Verify
<1>0. pc[t] = "verify" /\ faults' \in 0 .. MaxFaults
  BY FaultsBounded DEF IInv, TypeOK
<1>1. CASE Go(t, "final") /\ UNCHANGED <<job, outcome>>
  BY <1>0, <1>1, StayInv
<1>2. CASE End(t, "E_RENDER_VERIFY")
  BY <1>0, <1>2, EndInv DEF Failures
<1> QED
  BY <1>1, <1>2

\* The source is hashed once more: were the video not clean, the hash would differ.
LEMMA FinalGateInv ==
    ASSUME IInv, NEW t \in Threads, FinalGate(t)
    PROVE  IInv'
<1> USE DEF FinalGate, Returned
<1>0. pc[t] = "final" /\ faults' \in 0 .. MaxFaults
  BY DEF IInv, TypeOK
<1>1. CASE Authorizes(gate[t]) /\ Go(t, "publish") /\ UNCHANGED <<job, outcome>>
  <2>1. job[t].clean
    BY <1>0, <1>1 DEF IInv, CarriedInv, Authorizes
  <2> QED
    BY <1>0, <1>1, <2>1, StayInv
<1>2. CASE End(t, "E_RENDER_AUTHORIZATION_CHANGED")
  BY <1>0, <1>2, EndInv DEF Failures
<1> QED
  BY <1>1, <1>2

\* What a thread past the encoding has encoded is a video of its cuts.
LEMMA EncodedVideo ==
    ASSUME IInv, NEW t \in Threads, pc[t] # "idle"
    PROVE  Encoded(t) \in Videos /\ Encoded(t).cuts = job[t].cuts /\ Encoded(t).clean = job[t].clean
<1>1. job[t] \in Jobs
  BY AtWork
<1> QED
  BY <1>1 DEF Encoded, Videos, Jobs

LEMMA PublishInv ==
    ASSUME IInv, NEW t \in Threads, Publish(t)
    PROVE  IInv'
<1> USE DEF Publish
<1>0. pc[t] = "publish" /\ faults' \in 0 .. MaxFaults
  BY FaultsBounded DEF IInv, TypeOK
<1>1. CASE target' = Encoded(t) /\ Go(t, "result") /\ UNCHANGED <<job, outcome>>
  <2>1. /\ job[t] \in Jobs /\ job[t].cuts = request(t).cuts /\ job[t].clean
        /\ plans[job[t].attempt] # NoPlan
    BY <1>0, AtWork DEF IInv, CarriedInv
  <2>2. target' \in Videos /\ target'.clean
    BY <1>0, <1>1, <2>1, EncodedVideo
  <2>3. PlanBindsItsCuts' /\ PublishedFromApprovedSource'
    BY <2>2 DEF IInv, PlanBindsItsCuts, PublishedFromApprovedSource, outside, user
  <2>4. job' = job /\ plans' = plans /\ UNCHANGED <<outside, outcome, results>>
    BY <1>1
  <2>5. /\ job' \in [Threads -> Jobs \cup {NoJob}]
        /\ plans' \in [Attempts -> Plans \cup {NoPlan}]
    BY <2>4 DEF IInv, TypeOK
  <2> QED
    BY <1>0, <1>1, <2>1, <2>2, <2>3, <2>4, <2>5, GoOnInv
<1>2. CASE End(t, "E_RENDER_PUBLISH") /\ target' \in {target, NoVideo, Encoded(t)}
  <2>1. Encoded(t) \in {v \in Videos : v.clean}
    BY <1>0, EncodedVideo DEF IInv, CarriedInv
  <2>2. target' \in {target, NoVideo} \cup {v \in Videos : v.clean}
    BY <1>2, <2>1
  <2> QED
    BY <1>0, <1>2, <2>2, EndInv DEF Failures
<1> QED
  BY <1>1, <1>2

LEMMA StoreResultInv ==
    ASSUME IInv, NEW t \in Threads, StoreResult(t)
    PROVE  IInv'
<1> USE DEF StoreResult
<1>0. pc[t] = "result" /\ faults' \in 0 .. MaxFaults
  BY FaultsBounded DEF IInv, TypeOK
<1>1. CASE End(t, "E_RENDER_EXCEPTION") /\ UNCHANGED results
  BY <1>0, <1>1, EndInv DEF Failures
<1>2. CASE /\ results' = [results EXCEPT ![job[t].attempt] = Encoded(t)]
           /\ End(t, "succeeded")
  <2> USE DEF End, Go, outside, user
  <2> DEFINE a == job[t].attempt
  <2>0. /\ a \in Attempts /\ outcome[a] = "started"
        /\ Encoded(t) \in Videos /\ Encoded(t).cuts = requests[a].cuts
        /\ plans[a] # NoPlan
    BY <1>0, AtWork, EncodedVideo DEF IInv, CarriedInv, request
  <2>1. /\ outcome' \in [Attempts -> Outcomes] /\ outcome'[a] = "succeeded"
        /\ \A b \in Attempts : b # a => outcome'[b] = outcome[b] /\ results'[b] = results[b]
        /\ results' \in [Attempts -> Videos \cup {NoVideo}] /\ results'[a] = Encoded(t)
        /\ pc' \in [Threads -> Steps] /\ pc'[t] = "idle"
        /\ job' \in [Threads -> Jobs \cup {NoJob}]
        /\ gate' \in [Threads -> Gates \cup {NoGate}] /\ gate'[t] = NoGate
        /\ \A s \in Threads : s # t => pc'[s] = pc[s] /\ job'[s] = job[s] /\ gate'[s] = gate[s]
    BY <1>2, <2>0 DEF IInv, TypeOK, Outcomes
  <2>2. \A s \in Threads : s # t /\ pc[s] # "idle" => job[s].attempt # a
    BY <1>0 DEF IInv, AttemptInv
  <2> HIDE DEF a
  <2>3. TypeOK'
    <3>1. ASSUME NEW s \in Threads, pc'[s] # "idle"
          PROVE  job'[s] \in Jobs /\ outcome'[job'[s].attempt] = "started"
      BY <3>1, <2>1, <2>2, AtWork
    <3>2. \A s \in Threads : gate'[s] # NoGate => pc'[s] \in Asking
      BY <2>1 DEF IInv, TypeOK
    <3> QED
      BY <1>0, <2>1, <3>1, <3>2 DEF IInv, TypeOK
  <2>4. AttemptInv'
    <3>1. \A s, u \in Threads :
             pc'[s] # "idle" /\ pc'[u] # "idle" /\ job'[s].attempt = job'[u].attempt => s = u
      BY <2>1 DEF IInv, AttemptInv
    <3> QED
      BY <2>0, <2>1, <3>1 DEF IInv, AttemptInv
  <2>5. DecisionInv'
    BY DEF IInv, DecisionInv
  <2>6. CarriedInv'
    <3>1. ASSUME NEW s \in Threads, pc'[s] # "idle"
          PROVE  s # t /\ pc'[s] = pc[s] /\ job'[s] = job[s] /\ request(s)' = request(s)
      BY <3>1, <2>1 DEF request
    <3> QED
      BY <3>1 DEF IInv, CarriedInv
  <2>7. SuccessInv'
    BY <2>0, <2>1 DEF IInv, SuccessInv
  <2>8. PlanBindsItsCuts' /\ PublishedFromApprovedSource'
    BY DEF IInv, PlanBindsItsCuts, PublishedFromApprovedSource
  <2> QED
    BY <2>3, <2>4, <2>5, <2>6, <2>7, <2>8 DEF IInv
<1> QED
  BY <1>1, <1>2

----------------------------------------------------------------------------
(* The environment.                                                        *)

LEMMA CrashInv ==
    ASSUME IInv, Crash
    PROVE  IInv'
<1> USE DEF Crash, user, disk
<1>1. TypeOK'
  BY BoundsAssumption DEF IInv, TypeOK
<1>2. AttemptInv' /\ DecisionInv' /\ CarriedInv' /\ SuccessInv'
  BY DEF IInv, AttemptInv, DecisionInv, CarriedInv, SuccessInv
<1>3. PlanBindsItsCuts' /\ PublishedFromApprovedSource'
  BY DEF IInv, PlanBindsItsCuts, PublishedFromApprovedSource
<1> QED
  BY <1>1, <1>2, <1>3 DEF IInv

LEMMA MeddleInv ==
    ASSUME IInv, ChangeSource \/ ForeignVideo
    PROVE  IInv'
<1> USE DEF ChangeSource, ForeignVideo, user, disk, threads
<1>1. TypeOK'
  <2>1. meddled' \in 0 .. MaxForeign
    BY BoundsAssumption DEF IInv, TypeOK
  <2>2. intact' \in BOOLEAN /\ target' \in Videos \cup {NoVideo, Foreign}
    BY DEF IInv, TypeOK
  <2> QED
    BY <2>1, <2>2 DEF IInv, TypeOK
<1>2. AttemptInv' /\ DecisionInv' /\ SuccessInv'
  BY DEF IInv, AttemptInv, DecisionInv, SuccessInv
<1>3. CarriedInv'
  BY DEF IInv, CarriedInv, request
<1>4. PlanBindsItsCuts' /\ PublishedFromApprovedSource'
  BY NoFileIsAVideo DEF IInv, PlanBindsItsCuts, PublishedFromApprovedSource
<1> QED
  BY <1>1, <1>2, <1>3, <1>4 DEF IInv

LEMMA StepInv ==
    ASSUME IInv, NEW t \in Threads, Step(t)
    PROVE  IInv'
BY BeginInv, AskGateInv, InitialGateInv, PrepareInv, SecondGateInv, StartGateInv,
   EncodeInv, RetryGatesInv, VerifyInv, FinalGateInv, PublishInv, StoreResultInv
   DEF Step

LEMMA StutterInv == IInv /\ UNCHANGED vars => IInv'
<1> SUFFICES ASSUME IInv, UNCHANGED vars PROVE IInv'
  OBVIOUS
<1> USE DEF vars, user, disk, threads
<1>1. TypeOK'
  BY DEF IInv, TypeOK
<1>2. AttemptInv' /\ DecisionInv' /\ SuccessInv'
  BY DEF IInv, AttemptInv, DecisionInv, SuccessInv
<1>3. CarriedInv' /\ PlanBindsItsCuts' /\ PublishedFromApprovedSource'
  BY DEF IInv, CarriedInv, request, PlanBindsItsCuts, PublishedFromApprovedSource
<1> QED
  BY <1>1, <1>2, <1>3 DEF IInv

LEMMA NextInv == IInv /\ [Next]_vars => IInv'
BY UpdateSelectionInv, ReadSelectionInv, WriteDecisionInv, SubmitRequestInv, StepInv,
   CrashInv, MeddleInv, StutterInv
   DEF Next

\* Every reachable state satisfies the strengthened invariant.
THEOREM Inductive == Spec => []IInv
BY InitInv, NextInv, PTL DEF Spec

----------------------------------------------------------------------------

\* Every variable keeps its type, and a thread at work has an attempt that is started.
THEOREM TypeCorrect == Spec => []TypeOK
<1>1. IInv => TypeOK
  BY DEF IInv
<1> QED
  BY <1>1, Inductive, PTL

\* What an attempt plans is what was approved and requested, and what is published was
\* encoded from the approved source, for any number of threads.
THEOREM ApprovalIsBinding == Spec => []ApprovalBinds
<1>1. IInv => ApprovalBinds
  BY DEF IInv, ApprovalBinds
<1> QED
  BY <1>1, Inductive, PTL

----------------------------------------------------------------------------
(* A success that is reported again.                                       *)

\* A success found for a request has the cuts of the request.
LEMMA ReusableHasTheCuts ==
    ASSUME IInv, NEW t \in Threads, pc[t] # "idle", NEW b \in Reusable(t)
    PROVE  results[b] \in Videos /\ results[b].cuts = request(t).cuts
<1>1. /\ b \in Attempts /\ outcome[b] = "succeeded"
      /\ plans[b].approval.decided = request(t).decided
  BY DEF Reusable
<1>2. /\ plans[b] # NoPlan /\ results[b] \in Videos /\ results[b].cuts = requests[b].cuts
      /\ plans[b].approval.decided = requests[b].decided
  BY <1>1 DEF IInv, SuccessInv, PlanBindsItsCuts
<1>3. b \in DOMAIN requests /\ job[t].attempt \in DOMAIN requests
  BY <1>1, AtWork DEF IInv, AttemptInv, TypeOK
<1> QED
  BY <1>1, <1>2, <1>3 DEF IInv, DecisionInv, request

\* Only the first gate reports a reuse.
LEMMA ReuseOnlyAtFirstGate ==
    ASSUME IInv, NEW t \in Threads, Step(t), ~ InitialGate(t),
           NEW a \in Attempts, outcome'[a] = "reused"
    PROVE  outcome[a] = "reused"
<1>1. CASE UNCHANGED outcome
  BY <1>1
<1>2. CASE Begin(t)
  BY <1>2 DEF Begin, IInv, TypeOK
<1>3. CASE \E o \in Outcomes \ {"reused"} : End(t, o)
  BY <1>3 DEF End, IInv, TypeOK
<1>4. Begin(t) \/ UNCHANGED outcome \/ \E o \in Outcomes \ {"reused"} : End(t, o)
  BY DEF Step, AskGate, disk, Prepare, SecondGate, WritePlan, StartGate, Encode, RetryGate,
         RetryStartGate, Verify, FinalGate, Publish, StoreResult, Outcomes, Failures
<1> QED
  BY <1>1, <1>2, <1>3, <1>4

\* A success is reported again only for a file that is there, is the one that was
\* rendered, and was rendered with exactly the requested cuts.
THEOREM ReuseIsAlwaysHonest == Spec => ReuseIsHonest
<1> DEFINE Claims ==
        \A a \in Attempts : outcome[a] # "reused" /\ outcome'[a] = "reused" =>
            target # Foreign /\ target.cuts = requests[a].cuts
<1>1. ASSUME IInv, NEW t \in Threads, InitialGate(t) PROVE Claims
  <2> SUFFICES ASSUME NEW a \in Attempts, outcome[a] # "reused", outcome'[a] = "reused"
               PROVE  target # Foreign /\ target.cuts = requests[a].cuts
    OBVIOUS
  <2>1. PICK o : End(t, o) /\ (o = "reused" => \E b \in Reusable(t) : target = results[b])
    BY <1>1 DEF InitialGate, Reuse
  <2>2. a = job[t].attempt /\ o = "reused"
    BY <2>1 DEF End, IInv, TypeOK
  <2>3. PICK b \in Reusable(t) : target = results[b]
    BY <2>1, <2>2
  <2>4. pc[t] # "idle"
    BY <1>1 DEF InitialGate, Returned
  <2> QED
    BY <1>1, <2>2, <2>3, <2>4, ReusableHasTheCuts, NoFileIsAVideo DEF request
<1>2. ASSUME IInv, NEW t \in Threads, Step(t) PROVE Claims
  BY <1>1, <1>2, ReuseOnlyAtFirstGate
<1>3. ASSUME IInv, Next PROVE Claims
  <2>1. (\E t \in Threads : Step(t)) \/ UNCHANGED outcome
    BY <1>3 DEF Next, UpdateSelection, ReadSelection, WriteDecision, SubmitRequest, others,
                Crash, ChangeSource, ForeignVideo, disk
  <2> QED
    BY <1>2, <1>3, <2>1
<1>4. IInv /\ [Next]_vars => [Claims]_vars
  BY <1>3
<1> QED
  BY <1>4, Inductive, PTL DEF Spec, ReuseIsHonest

----------------------------------------------------------------------------
(* A success is at the final name.                                         *)

\* The runner does not start a render while its thread is alive.
OneThread == \A s, t \in Threads : s = t

\* An attempt that ends leaves the final name alone ...
LEMMA EndTarget ==
    ASSUME OneThread, IInv, TargetInv, SuccessIsThere,
           NEW t \in Threads, pc[t] # "idle", NEW o, o # "succeeded", End(t, o),
           UNCHANGED <<target, results>>
    PROVE  TargetInv' /\ SuccessIsThere'
<1>1. \A s \in Threads : pc'[s] = "idle"
  BY DEF OneThread, End, Go, IInv, TypeOK
<1>2. \A a \in Attempts : outcome'[a] = "succeeded" => outcome[a] = "succeeded"
  BY DEF End, IInv, TypeOK
<1> QED
  BY <1>1, <1>2 DEF TargetInv, SuccessIsThere

\* ... and so does one that goes on, until its link.
LEMMA GoOnTarget ==
    ASSUME OneThread, IInv, TargetInv, SuccessIsThere,
           NEW t \in Threads, NEW l \in Steps \ {"idle", "initial", "result"}, Go(t, l),
           pc[t] \notin {"idle", "result"}, pc[t] = "initial" => target = NoVideo,
           UNCHANGED <<target, results, outcome>>
    PROVE  TargetInv' /\ SuccessIsThere'
<1>1. \A s \in Threads : pc'[s] = l
  BY DEF OneThread, Go, IInv, TypeOK
<1>2. target' \in {NoVideo, Foreign}
  BY DEF TargetInv
<1> QED
  BY <1>1, <1>2 DEF TargetInv, SuccessIsThere

\* Before the link nothing that succeeded is at the final name, so linking hides
\* no success, and a refused link removes none.
LEMMA PublishTarget ==
    ASSUME OneThread, IInv, TargetInv, SuccessIsThere, NEW t \in Threads, Publish(t)
    PROVE  TargetInv' /\ SuccessIsThere'
<1>0. /\ pc[t] = "publish" /\ target \in {NoVideo, Foreign} /\ Encoded(t) \in Videos
      /\ \A a \in Attempts : outcome[a] = "succeeded" => results[a] \in Videos
  BY EncodedVideo DEF Publish, TargetInv, IInv, SuccessInv
<1>1. CASE target = NoVideo /\ target' = Encoded(t) /\ Go(t, "result") /\ UNCHANGED <<job, outcome>>
  <2>1. \A s \in Threads : pc'[s] = "result" /\ s = t
    BY <1>1 DEF OneThread, Go, IInv, TypeOK
  <2>2. Encoded(t)' = Encoded(t)
    BY <1>1 DEF Encoded
  <2>3. TargetInv'
    BY <1>1, <2>1, <2>2 DEF TargetInv
  <2>4. \A a \in Attempts : outcome[a] # "succeeded"
    BY <1>0, <1>1, NoFileIsAVideo DEF SuccessIsThere
  <2> QED
    BY <1>1, <2>3, <2>4 DEF SuccessIsThere
<1>2. CASE End(t, "E_RENDER_PUBLISH") /\ target' = target
  BY <1>0, <1>2, EndTarget DEF Publish
<1>3. CASE End(t, "E_RENDER_PUBLISH") /\ target = NoVideo
  <2>1. \A a \in Attempts : outcome[a] # "succeeded"
    BY <1>0, <1>3, NoFileIsAVideo DEF SuccessIsThere
  <2>2. \A a \in Attempts : outcome'[a] # "succeeded"
    BY <1>3, <2>1 DEF End, IInv, TypeOK
  <2>3. \A s \in Threads : pc'[s] = "idle"
    BY <1>0, <1>3 DEF OneThread, End, Go, IInv, TypeOK
  <2> QED
    BY <2>2, <2>3 DEF TargetInv, SuccessIsThere
<1>4. target # Encoded(t)
  BY <1>0, NoFileIsAVideo
<1> QED
  BY <1>1, <1>2, <1>3, <1>4 DEF Publish

LEMMA StepTarget ==
    ASSUME OneThread, IInv, TargetInv, SuccessIsThere, NEW t \in Threads, Step(t)
    PROVE  TargetInv' /\ SuccessIsThere'
<1>1. CASE Publish(t)
  BY <1>1, PublishTarget
<1>2. CASE StoreResult(t) /\ outcome'[job[t].attempt] = "succeeded"
  <2>1. /\ pc[t] = "result" /\ End(t, "succeeded") /\ UNCHANGED target
        /\ results' = [results EXCEPT ![job[t].attempt] = Encoded(t)]
    BY <1>2, AtWork DEF StoreResult, End, IInv, TypeOK
  <2>2. job[t].attempt \in Attempts /\ target \in {Foreign, Encoded(t)}
    BY <2>1, AtWork DEF TargetInv
  <2>3. \A s \in Threads : pc'[s] = "idle"
    BY <2>1 DEF OneThread, End, Go, IInv, TypeOK
  <2>4. \A a \in Attempts : a # job[t].attempt =>
           outcome'[a] = outcome[a] /\ results'[a] = results[a]
    BY <2>1 DEF End, IInv, TypeOK
  <2>5. results'[job[t].attempt] = Encoded(t)
    BY <2>1, <2>2 DEF IInv, TypeOK
  <2> QED
    BY <2>1, <2>2, <2>3, <2>4, <2>5 DEF TargetInv, SuccessIsThere
<1>3. CASE Begin(t)
  <2>1. \A s \in Threads : pc'[s] = "initial"
    BY <1>3 DEF Begin, OneThread, Go, IInv, TypeOK
  <2>2. \A a \in Attempts : outcome'[a] = "succeeded" => outcome[a] = "succeeded"
    BY <1>3 DEF Begin, IInv, TypeOK
  <2> QED
    BY <1>3, <2>1, <2>2 DEF Begin, TargetInv, SuccessIsThere
<1>4. CASE AskGate(t)
  BY <1>4 DEF AskGate, disk, TargetInv, SuccessIsThere, Encoded
<1> DEFINE GoesOn ==
        /\ pc[t] \notin {"idle", "result"}
        /\ pc[t] = "initial" => target = NoVideo
        /\ \E l \in Steps \ {"idle", "initial", "result"} : Go(t, l)
        /\ UNCHANGED <<target, results, outcome>>
      Ends ==
        /\ pc[t] # "idle" /\ UNCHANGED <<target, results>>
        /\ \E o \in Outcomes \ {"succeeded"} : End(t, o)
<1>5. GoesOn => TargetInv' /\ SuccessIsThere'
  BY GoOnTarget
<1>6. Ends => TargetInv' /\ SuccessIsThere'
  BY EndTarget
<1>7. GoesOn \/ Ends => TargetInv' /\ SuccessIsThere'
  BY <1>5, <1>6
<1>8. CASE InitialGate(t)
  <2>1. \A a : Reuse(a) \in Outcomes \ {"succeeded"}
    BY DEF Reuse, Outcomes, Failures
  <2>2. GoesOn \/ Ends
    BY <1>8, <2>1 DEF InitialGate, Returned, Outcomes, Failures
  <2> QED
    BY <2>2, <1>7
<1>9. CASE Prepare(t) \/ SecondGate(t) \/ StartGate(t)
  <2>1. GoesOn \/ Ends
    BY <1>9 DEF Prepare, SecondGate, WritePlan, StartGate, Returned, Outcomes, Failures
  <2> QED
    BY <2>1, <1>7
<1>10. CASE Encode(t) \/ RetryGate(t) \/ RetryStartGate(t)
  <2>1. GoesOn \/ Ends
    BY <1>10 DEF Encode, RetryGate, RetryStartGate, Returned, Outcomes, Failures
  <2> QED
    BY <2>1, <1>7
<1>11. CASE Verify(t) \/ FinalGate(t)
  <2>1. GoesOn \/ Ends
    BY <1>11 DEF Verify, FinalGate, Returned, Outcomes, Failures
  <2> QED
    BY <2>1, <1>7
<1>12. CASE StoreResult(t) /\ outcome'[job[t].attempt] # "succeeded"
  <2>1. pc[t] # "idle"
    BY <1>12 DEF StoreResult
  <2>2. Ends
    BY <1>12, <2>1, AtWork DEF StoreResult, End, IInv, TypeOK, Outcomes, Failures
  <2> QED
    BY <2>2, <1>7
<1> QED
  BY <1>1, <1>2, <1>3, <1>4, <1>8, <1>9, <1>10, <1>11, <1>12 DEF Step

LEMMA TargetNext ==
    ASSUME OneThread, IInv, TargetInv, SuccessIsThere, [Next]_vars
    PROVE  TargetInv' /\ SuccessIsThere'
<1>1. CASE \E t \in Threads : Step(t)
  BY <1>1, StepTarget
<1>2. CASE Crash
  BY <1>2 DEF Crash, disk, TargetInv, SuccessIsThere
<1>3. CASE ForeignVideo
  BY <1>3 DEF ForeignVideo, threads, TargetInv, SuccessIsThere
<1>4. CASE UNCHANGED <<disk, threads>>
  BY <1>4 DEF disk, threads, TargetInv, SuccessIsThere, Encoded
<1>5. Next => \/ \E t \in Threads : Step(t)
              \/ Crash \/ ForeignVideo \/ UNCHANGED <<disk, threads>>
  BY DEF Next, UpdateSelection, ReadSelection, WriteDecision, SubmitRequest, others, ChangeSource
<1> QED
  BY <1>1, <1>2, <1>3, <1>4, <1>5 DEF vars

\* While one thread renders, an attempt that reports success has its video at the final
\* name, over crashes, failing steps and later attempts.
THEOREM SuccessStaysThere ==
    ASSUME OneThread
    PROVE  Spec => []SuccessIsThere
<1>1. Init => TargetInv /\ SuccessIsThere
  BY DEF Init, TargetInv, SuccessIsThere
<1>2. IInv /\ TargetInv /\ SuccessIsThere /\ [Next]_vars => TargetInv' /\ SuccessIsThere'
  BY TargetNext
<1> QED
  BY <1>1, <1>2, Inductive, PTL DEF Spec
=============================================================================
