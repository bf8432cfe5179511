--------------------------- MODULE ScheduleProofs ---------------------------
(***************************************************************************)
(* Proofs about schedules: when they are due, and what declares them.      *)
(*                                                                         *)
(* First the cadence calculators and the engine that uses them, for every  *)
(* cron expression, interval, one-shot and solar event that Cadence        *)
(* describes, every zone that changes its offset once, and an outage of    *)
(* any length: what is next, what was missed, and what the comparison of   *)
(* two schedules tells.  Then the clients that write the Brain's table,    *)
(* for any number of them, any names and any interleaving of requests.     *)
(***************************************************************************)
EXTENDS ShadowComparator, DeclaredSchedules, FiniteSetTheorems, FunctionTheorems, TLAPS

-----------------------------------------------------------------------------
(* The least and the greatest of a set of instants *)

UpTo(S) == {0..x : x \in S}

LEMMA LeastExists ==
    ASSUME NEW S \in SUBSET Nat, S # {}
    PROVE  \E x \in S : \A y \in S : x <= y
<1>1. UpTo(S) \subseteq FiniteSubsetsOf(Nat)
  <2>1. ASSUME NEW x \in S PROVE 0..x \in FiniteSubsetsOf(Nat)
    <3>1. IsFiniteSet(0..x)
      BY FS_Interval
    <3> QED
      BY <3>1 DEF FiniteSubsetsOf
  <2> QED
    BY <2>1 DEF UpTo
<1>2. UpTo(S) # {}
  BY DEF UpTo
<1> DEFINE R == StrictSubsetOrdering(Nat)
<1>3. \E X \in UpTo(S) : \A Y \in UpTo(S) : ~(<<Y, X>> \in R)
  <2> HIDE DEF R
  <2>1. IsWellFoundedOn(R, FiniteSubsetsOf(Nat))
    BY FS_StrictSubsetOrderingWellFounded DEF R
  <2> QED
    BY <2>1, <1>1, <1>2, WFMin
<1>4. PICK x \in S : \A Y \in UpTo(S) : <<Y, 0..x>> \notin R
  BY <1>3 DEF UpTo
<1>5. ASSUME NEW y \in S, y < x PROVE FALSE
  <2>1. 0..y \in UpTo(S)
    BY DEF UpTo
  <2>2. 0..y \subseteq 0..x /\ 0..y # 0..x /\ 0..x \subseteq Nat
    BY <1>5
  <2>3. <<0..y, 0..x>> \in R
    BY <2>2 DEF StrictSubsetOrdering
  <2> QED
    BY <2>1, <2>3, <1>4
<1> QED
  BY <1>5

LEMMA LeastIsLeast ==
    ASSUME NEW S \in SUBSET Nat, S # {}
    PROVE  Least(S) \in S /\ \A y \in S : Least(S) <= y
  BY LeastExists DEF Least

LEMMA GreatestIsGreatest ==
    ASSUME NEW n \in Nat, NEW S \in SUBSET (0..n), S # {}
    PROVE  Greatest(S) \in S /\ \A y \in S : y <= Greatest(S)
<1> DEFINE D == {n - x : x \in S}
<1>1. D \in SUBSET Nat /\ D # {}
  <2>1. \A x \in S : x \in 0..n /\ n - x \in Nat
    OBVIOUS
  <2> QED
    BY <2>1
<1>2. PICK m \in D : \A y \in D : m <= y
  <2> HIDE DEF D
  <2> QED
    BY <1>1, LeastExists
<1>3. PICK x \in S : m = n - x
  OBVIOUS
<1>4. \A y \in S : x >= y
  BY <1>2, <1>3
<1> QED
  BY <1>4 DEF Greatest

-----------------------------------------------------------------------------
(* The latest of a set of instants *)

Above(S, x) == {y \in S : y > x}

LEMMA AboveIsFinite ==
    ASSUME NEW n \in Nat, NEW S \in SUBSET (0..n), NEW x \in Int
    PROVE  /\ IsFiniteSet(S) /\ IsFiniteSet(Above(S, x))
           /\ Cardinality(Above(S, x)) \in Nat
           /\ Cardinality(S) \in Nat
           /\ Cardinality(Above(S, x)) <= Cardinality(S)
<1>1. IsFiniteSet(0..n)
  BY FS_Interval
<1>2. IsFiniteSet(S)
  BY <1>1, FS_Subset
<1>3. Above(S, x) \in SUBSET S
  BY DEF Above
<1>4. IsFiniteSet(Above(S, x)) /\ Cardinality(Above(S, x)) <= Cardinality(S)
  BY <1>2, <1>3, FS_Subset
<1> QED
  BY <1>2, <1>4, FS_CardinalityType

LEMMA LatestMeans ==
    ASSUME NEW S, NEW c
    PROVE  Latest(S, c) = {x \in S : Cardinality(Above(S, x)) < c}
  BY DEF Latest, Above

\* The greatest is among the latest.
LEMMA LatestIsNotEmpty ==
    ASSUME NEW n \in Nat, NEW S \in SUBSET (0..n), S # {}, NEW c \in Nat \ {0}
    PROVE  Greatest(S) \in Latest(S, c)
<1>1. PICK g \in S : g = Greatest(S) /\ \A y \in S : y <= g
  BY GreatestIsGreatest
<1>2. Above(S, g) = {}
  <2>1. \A y \in S : ~(y > g)
    BY <1>1
  <2> QED
    BY <2>1 DEF Above
<1>3. Cardinality(Above(S, g)) = 0
  BY <1>2, FS_EmptySet
<1>4. g \in Latest(S, c)
  BY <1>3, LatestMeans
<1> QED
  BY <1>1, <1>4

\* What is above an element of the latest belongs to the latest.
LEMMA LatestGoesUp ==
    ASSUME NEW n \in Nat, NEW S \in SUBSET (0..n), NEW c \in Nat,
           NEW x \in Latest(S, c), NEW y \in S, y >= x
    PROVE  y \in Latest(S, c)
<1>0. x \in S /\ Cardinality(Above(S, x)) < c
  BY LatestMeans
<1>1. x \in Int /\ y \in Int /\ \A z \in S : z \in Int
  BY <1>0
<1>2. Above(S, y) \in SUBSET Above(S, x)
  <2>1. ASSUME NEW z \in S, z > y PROVE z > x
    BY <1>1, <2>1
  <2> QED
    BY <2>1 DEF Above
<1>3. /\ IsFiniteSet(Above(S, x))
      /\ Cardinality(Above(S, y)) \in Nat /\ Cardinality(Above(S, x)) \in Nat
  BY <1>1, AboveIsFinite
<1>4. Cardinality(Above(S, y)) <= Cardinality(Above(S, x))
  BY <1>2, <1>3, FS_Subset
<1>5. Cardinality(Above(S, y)) < c
  BY <1>0, <1>3, <1>4
<1> QED
  BY <1>5, LatestMeans

\* The latest c of a set are c, unless there are fewer.
LEMMA LatestIsFull ==
    ASSUME NEW n \in Nat, NEW S \in SUBSET (0..n), NEW c \in Nat \ {0},
           Latest(S, c) # S
    PROVE  Cardinality(Latest(S, c)) >= c
<1> DEFINE Q == Latest(S, c)
<1>0. Q \in SUBSET S /\ \A x \in S : x \in 0..n
  BY LatestMeans
<1>1. S \ Q # {} /\ S # {}
  BY <1>0
<1>2. Q # {}
  BY <1>1, LatestIsNotEmpty
<1> HIDE DEF Q
\* the greatest that is left out
<1>3. PICK p \in S \ Q : \A y \in S \ Q : y <= p
  <2>1. S \ Q \in SUBSET (0..n)
    BY <1>0
  <2> QED
    BY <2>1, <1>1, GreatestIsGreatest
<1>4. Above(S, p) = Q
  <2>1. ASSUME NEW y \in Q PROVE y > p
    <3>1. y \in Int /\ p \in Int
      BY <1>0
    <3>2. CASE p >= y
      BY <3>2, LatestGoesUp DEF Q
    <3> QED
      BY <3>1, <3>2
  <2>2. ASSUME NEW y \in S, y > p PROVE y \in Q
    <3>1. y \in Int /\ p \in Int
      BY <1>0
    <3>2. ~(y <= p)
      BY <2>2, <3>1
    <3> QED
      BY <3>2, <1>3
  <2> QED
    BY <2>1, <2>2, <1>0 DEF Above
<1>5. ~(Cardinality(Above(S, p)) < c)
  BY <1>3, LatestMeans DEF Q
<1>6. Cardinality(Above(S, p)) \in Nat
  <2>1. p \in Int
    BY <1>0
  <2> QED
    BY <2>1, AboveIsFinite
<1> QED
  BY <1>4, <1>5, <1>6 DEF Q

\* A set between the latest and the whole has the same latest.
LEMMA LatestOfPart ==
    ASSUME NEW n \in Nat, NEW S \in SUBSET (0..n), NEW c \in Nat \ {0},
           NEW X \in SUBSET S, Latest(S, c) \subseteq X
    PROVE  Latest(X, c) = Latest(S, c)
<1>0. \A x \in S : x \in 0..n
  OBVIOUS
<1>1. ASSUME NEW x \in X
      PROVE  /\ Above(X, x) \in SUBSET Above(S, x) /\ IsFiniteSet(Above(S, x)) /\ IsFiniteSet(Above(X, x))
             /\ Cardinality(Above(X, x)) \in Nat /\ Cardinality(Above(S, x)) \in Nat
             /\ Cardinality(Above(X, x)) <= Cardinality(Above(S, x))
  <2>1. X \in SUBSET (0..n) /\ x \in Int
    BY <1>0
  <2>2. Above(X, x) \in SUBSET Above(S, x)
    BY DEF Above
  <2>3. IsFiniteSet(Above(S, x)) /\ Cardinality(Above(S, x)) \in Nat
    BY <2>1, AboveIsFinite
  <2>4. IsFiniteSet(Above(X, x)) /\ Cardinality(Above(X, x)) \in Nat
    BY <2>1, AboveIsFinite
  <2> QED
    BY <2>2, <2>3, <2>4, FS_Subset
<1>2. ASSUME NEW x \in Latest(S, c) PROVE x \in Latest(X, c)
  <2>1. x \in X /\ Cardinality(Above(S, x)) < c
    BY LatestMeans
  <2>2. Cardinality(Above(X, x)) < c
    BY <2>1, <1>1
  <2> QED
    BY <2>1, <2>2, LatestMeans
<1>3. ASSUME NEW x \in Latest(X, c), x \notin Latest(S, c) PROVE FALSE
  <2>1. x \in X /\ Cardinality(Above(X, x)) < c
    BY LatestMeans
  <2>2. Cardinality(Latest(S, c)) >= c
    BY <1>3, <2>1, LatestIsFull
  <2>3. Latest(S, c) \in SUBSET Above(X, x)
    <3>1. ASSUME NEW y \in Latest(S, c) PROVE y > x
      <4>1. y \in S /\ x \in S
        BY <2>1, LatestMeans
      <4>2. CASE x >= y
        BY <4>1, <4>2, <1>3, LatestGoesUp
      <4> QED
        BY <4>1, <4>2, <1>0
    <3> QED
      BY <3>1 DEF Above
  <2>4. IsFiniteSet(Above(X, x)) /\ Cardinality(Above(X, x)) \in Nat
    BY <2>1, <1>1
  <2>5. /\ IsFiniteSet(Latest(S, c))
        /\ Cardinality(Latest(S, c)) <= Cardinality(Above(X, x))
    BY <2>3, <2>4, FS_Subset
  <2>6. Cardinality(Latest(S, c)) \in Nat
    BY <2>5, FS_CardinalityType
  <2> QED
    BY <2>1, <2>2, <2>4, <2>5, <2>6
<1> QED
  BY <1>2, <1>3

-----------------------------------------------------------------------------
(* cron: local times and their instants *)

GapOf(d) == Gap(d.zone) \cap d.local

LEMMA ZoneFacts ==
    ASSUME NEW z \in Zones
    PROVE  \E T \in Nat, B \in Nat, A \in Nat :
              /\ z.turn = T /\ z.before = B /\ z.after = A
              /\ \/ A = B
                 \/ A = B + Shift
                 \/ B = A + Shift
<1>1. CASE z = [turn |-> 0, before |-> 0, after |-> 0]
  <2>1. z.turn = 0 /\ z.before = 0 /\ z.after = 0
    BY <1>1
  <2> QED
    BY <2>1
<1>2. CASE z \in [turn : Turns, before : {0}, after : {Shift}]
  <2>1. z.turn \in Turns /\ z.before = 0 /\ z.after = Shift
    BY <1>2
  <2>2. Turns \subseteq Nat /\ Shift \in Nat /\ Shift = 0 + Shift
    BY NumbersAssumption
  <2>3. z.turn \in Nat
    BY <2>1, <2>2
  <2> QED
    BY <2>1, <2>2, <2>3
<1>3. CASE z \in [turn : Turns, before : {Shift}, after : {0}]
  <2>1. z.turn \in Turns /\ z.before = Shift /\ z.after = 0
    BY <1>3
  <2>2. Turns \subseteq Nat /\ Shift \in Nat /\ Shift = 0 + Shift
    BY NumbersAssumption
  <2>3. z.turn \in Nat
    BY <2>1, <2>2
  <2> QED
    BY <2>1, <2>2, <2>3
<1> QED
  BY <1>1, <1>2, <1>3 DEF Zones

LEMMA InstantIsInt ==
    ASSUME NEW z \in Zones, NEW w \in Nat
    PROVE  InstantOf(z, w) \in Int
<1>1. PICK T \in Nat, B \in Nat, A \in Nat : z.turn = T /\ z.before = B /\ z.after = A
  BY ZoneFacts
<1>2. w - A \in Int /\ w - B \in Int
  OBVIOUS
<1>3. InstantOf(z, w) = w - A \/ InstantOf(z, w) = w - B
  BY <1>1 DEF InstantOf
<1> QED
  BY <1>2, <1>3

LEMMA CronFacts ==
    ASSUME NEW d \in CronDefs
    PROVE  /\ d.kind = "cron" /\ d.zone \in Zones /\ d.local \in SUBSET LocalTimes
           /\ d.local \in SUBSET Nat
           /\ \A g, h \in GapOf(d) : g = h
           /\ \A g \in GapOf(d) : \A w \in d.local :
                 \/ w < d.zone.turn + d.zone.after
                 \/ w >= d.zone.turn + d.zone.after + Shift
<1>1. /\ d.kind = "cron" /\ d.zone \in Zones /\ d.local \in SUBSET LocalTimes
      /\ \/ GapOf(d) = {}
         \/ /\ Cardinality(GapOf(d)) = 1
            /\ \A w \in d.local :
                  w < d.zone.turn + d.zone.after \/ w >= d.zone.turn + d.zone.after + Shift
  BY DEF CronDefs, GapOf
<1>2. d.local \in SUBSET Nat
  BY <1>1, NumbersAssumption
<1>3. PICK T \in Nat, B \in Nat, A \in Nat : d.zone.turn = T /\ d.zone.before = B /\ d.zone.after = A
  BY <1>1, ZoneFacts
<1>4. GapOf(d) \in SUBSET (0..T + A)
  BY <1>2, <1>3 DEF GapOf, Gap
<1>5. IsFiniteSet(GapOf(d))
  <2>1. T + A \in Nat
    OBVIOUS
  <2>2. IsFiniteSet(0..T + A)
    BY <2>1, FS_Interval
  <2> QED
    BY <1>4, <2>2, FS_Subset
<1>6. \A g, h \in GapOf(d) : g = h
  <2>1. CASE GapOf(d) = {}
    BY <2>1
  <2>2. CASE Cardinality(GapOf(d)) = 1
    <3>1. PICK x : GapOf(d) = {x}
      BY <1>5, <2>2, FS_Singleton
    <3> QED
      BY <3>1
  <2> QED
    BY <1>1, <2>1, <2>2
<1> QED
  BY <1>1, <1>2, <1>6

\* A time of the gap is snapped to an instant after the turn, and nothing
\* else is due before that instant.
LEMMA GapInstant ==
    ASSUME NEW d \in CronDefs, NEW g \in GapOf(d)
    PROVE  /\ InstantOf(d.zone, g) = g - d.zone.before
           /\ InstantOf(d.zone, g) \in Nat
           /\ d.zone.turn <= InstantOf(d.zone, g)
           /\ InstantOf(d.zone, g) < d.zone.turn + Shift
           /\ d.zone.after = d.zone.before + Shift
<1>1. PICK T \in Nat, B \in Nat, A \in Nat :
          /\ d.zone.turn = T /\ d.zone.before = B /\ d.zone.after = A
          /\ \/ A = B
             \/ A = B + Shift
             \/ B = A + Shift
  BY CronFacts, ZoneFacts
<1>2. g \in Nat /\ T + B <= g /\ g < T + A
  BY <1>1, CronFacts, NumbersAssumption DEF GapOf, Gap
<1>3. A = B + Shift /\ Shift \in Nat
  BY <1>1, <1>2, NumbersAssumption
<1>4. InstantOf(d.zone, g) = g - B
  BY <1>1, <1>2 DEF InstantOf
<1> QED
  BY <1>1, <1>2, <1>3, <1>4

LEMMA CronSlots ==
    ASSUME NEW d \in CronDefs, NEW a \in Nat, NEW t
    PROVE  t \in DueOf(d, a) <=>
              /\ t \in Instants /\ t > a
              /\ \/ Local(d.zone, t) \in d.local
                 \/ a < d.zone.turn /\ \E g \in GapOf(d) : t = InstantOf(d.zone, g)
  BY CronFacts DEF DueOf, Matching, GapOf

\* After an instant due past the turn, the gap has nothing to come.
LEMMA GapPassed ==
    ASSUME NEW d \in CronDefs, NEW a \in Nat, NEW s \in DueOf(d, a), s >= d.zone.turn,
           NEW g \in GapOf(d)
    PROVE  InstantOf(d.zone, g) <= s
<1>1. PICK T \in Nat, B \in Nat, A \in Nat : d.zone.turn = T /\ d.zone.before = B /\ d.zone.after = A
  BY CronFacts, ZoneFacts
<1>2. /\ InstantOf(d.zone, g) = g - B /\ g - B \in Nat
      /\ T <= g - B /\ g - B < T + Shift
      /\ A = B + Shift /\ Shift \in Nat /\ g \in Nat
  BY <1>1, GapInstant, CronFacts, NumbersAssumption DEF GapOf
<1>3. s \in Nat
  BY NumbersAssumption DEF DueOf, Instants
<1>4. CASE Local(d.zone, s) \in d.local
  <2>1. Local(d.zone, s) = s + A
    BY <1>1, <1>3 DEF Local, Offset
  <2>2. s + A < T + A \/ s + A >= T + A + Shift
    BY <2>1, <1>1, <1>4, CronFacts
  <2> QED
    BY <2>2, <1>1, <1>2, <1>3
<1>5. CASE \E h \in GapOf(d) : s = InstantOf(d.zone, h)
  <2>1. PICK h \in GapOf(d) : s = InstantOf(d.zone, h)
    BY <1>5
  <2>2. h = g
    BY CronFacts
  <2> QED
    BY <2>1, <2>2, <1>3
<1> QED
  BY <1>4, <1>5, CronSlots

\* The instants of an expression's local times come in their order.
LEMMA InstantsGrow ==
    ASSUME NEW d \in CronDefs, NEW v \in d.local, NEW w \in d.local, v < w
    PROVE  /\ InstantOf(d.zone, v) \in Int /\ InstantOf(d.zone, w) \in Int
           /\ InstantOf(d.zone, v) < InstantOf(d.zone, w)
<1>1. PICK T \in Nat, B \in Nat, A \in Nat :
          /\ d.zone.turn = T /\ d.zone.before = B /\ d.zone.after = A
          /\ \/ A = B
             \/ A = B + Shift
             \/ B = A + Shift
  BY CronFacts, ZoneFacts
<1>2. v \in Nat /\ w \in Nat /\ Shift \in Nat
  BY CronFacts, NumbersAssumption
<1>3. /\ InstantOf(d.zone, v) = IF v - A >= T THEN v - A ELSE v - B
      /\ InstantOf(d.zone, w) = IF w - A >= T THEN w - A ELSE w - B
  BY <1>1 DEF InstantOf
<1>4. CASE v - A < T /\ w - A >= T /\ v - B >= T
  <2>1. T + B <= v /\ v < T + A
    BY <1>1, <1>2, <1>4
  <2>2. v \in GapOf(d)
    BY <2>1, <1>1, CronFacts DEF GapOf, Gap
  <2>3. w < T + A \/ w >= T + A + Shift
    BY <2>2, <1>1, CronFacts
  <2>4. A = B + Shift
    BY <2>1, <1>1, <1>2
  <2> QED
    BY <2>1, <2>3, <2>4, <1>1, <1>2, <1>3, <1>4
<1>5. CASE ~(v - A < T /\ w - A >= T /\ v - B >= T)
  BY <1>1, <1>2, <1>3, <1>5
<1> QED
  BY <1>4, <1>5

\* A local time that exists is the one its instant shows.
LEMMA InstantShows ==
    ASSUME NEW d \in CronDefs, NEW w \in d.local, w \notin GapOf(d)
    PROVE  Local(d.zone, InstantOf(d.zone, w)) = w
<1>1. PICK T \in Nat, B \in Nat, A \in Nat : d.zone.turn = T /\ d.zone.before = B /\ d.zone.after = A
  BY CronFacts, ZoneFacts
<1>2. w \in Nat /\ w \in LocalTimes
  BY CronFacts, NumbersAssumption
<1>3. ~(T + B <= w /\ w < T + A)
  BY <1>1, <1>2 DEF GapOf, Gap
<1> QED
  BY <1>1, <1>2, <1>3 DEF InstantOf, Local, Offset

\* An instant is not after the one of the local time it shows.
LEMMA ShownAtOrLater ==
    ASSUME NEW d \in CronDefs, NEW t \in Nat, Local(d.zone, t) \in d.local
    PROVE  t <= InstantOf(d.zone, Local(d.zone, t))
<1>1. PICK T \in Nat, B \in Nat, A \in Nat : d.zone.turn = T /\ d.zone.before = B /\ d.zone.after = A
  BY CronFacts, ZoneFacts
<1>2. CASE t < T
  <2>1. Local(d.zone, t) = t + B
    BY <1>1, <1>2 DEF Local, Offset
  <2>2. InstantOf(d.zone, t + B) = IF t + B - A >= T THEN t + B - A ELSE t
    BY <1>1 DEF InstantOf
  <2> QED
    BY <2>1, <2>2, <1>2
<1>3. CASE t >= T
  <2>1. Local(d.zone, t) = t + A
    BY <1>1, <1>3 DEF Local, Offset
  <2>2. InstantOf(d.zone, t + A) = t
    BY <1>1, <1>3 DEF InstantOf
  <2> QED
    BY <2>1, <2>2
<1> QED
  BY <1>2, <1>3

\* What get_next finds after an instant that is due, or after the creation, is
\* what is due after it.
LEMMA AheadIsDue ==
    ASSUME NEW d \in CronDefs, NEW a \in Nat, NEW s \in {a} \cup DueOf(d, a)
    PROVE  Ahead(d, s) \cap Instants = {t \in DueOf(d, a) : t > s}
<1>1. d.zone.turn \in Nat /\ Horizon \in Nat /\ s \in Nat /\ s >= a
  <2>1. d.zone.turn \in Nat
    BY CronFacts, ZoneFacts
  <2> QED
    BY <2>1, CronSlots, NumbersAssumption DEF Instants
<1>2. ASSUME NEW t \in Ahead(d, s) \cap Instants
      PROVE  t \in DueOf(d, a) /\ t > s
  <2>1. CASE t \in s + 1..Horizon /\ Local(d.zone, t) \in d.local
    BY <2>1, <1>1, CronSlots DEF Instants
  <2>2. CASE s < d.zone.turn /\ \E g \in GapOf(d) : t = InstantOf(d.zone, g)
    BY <2>2, <1>1, GapInstant, CronSlots
  <2> QED
    BY <2>1, <2>2 DEF Ahead, GapOf
<1>3. ASSUME NEW t \in DueOf(d, a), t > s
      PROVE  t \in Ahead(d, s) \cap Instants
  <2>1. t \in Instants /\ t \in s + 1..Horizon
    BY <1>1, <1>3, CronSlots DEF Instants
  <2>2. CASE Local(d.zone, t) \in d.local
    BY <2>1, <2>2 DEF Ahead
  <2>3. CASE a < d.zone.turn /\ \E g \in GapOf(d) : t = InstantOf(d.zone, g)
    <3>1. PICK g \in GapOf(d) : t = InstantOf(d.zone, g)
      BY <2>3
    <3>2. s < d.zone.turn
      <4>1. CASE s = a
        BY <4>1, <2>3
      <4>2. CASE s \in DueOf(d, a) /\ s >= d.zone.turn
        BY <4>2, <3>1, <1>1, <1>3, <2>1, GapPassed DEF Instants
      <4> QED
        BY <4>1, <4>2, <1>1
    <3> QED
      BY <2>1, <3>1, <3>2 DEF Ahead, GapOf
  <2> QED
    BY <2>2, <2>3, CronSlots
<1> QED
  BY <1>2, <1>3

-----------------------------------------------------------------------------
(* cron: what the two walks find *)

\* What is due in (s, u].
Window(d, a, s, u) == {t \in DueOf(d, a) : s < t /\ t <= u}

\* The local times the backward walk may reach.
Reach(d, u) == {w \in d.local : w <= Local(d.zone, u)}

Found(d, s, u, c) ==
    {t \in {InstantOf(d.zone, w) : w \in Walked(d, s, u, c)} \cup
           Ahead(d, CronStart(d, s, Walked(d, s, u, c))) : s < t /\ t <= u}

LEMMA CronBetweenMeans ==
    ASSUME NEW d, NEW s \in Nat, NEW u \in Nat, NEW c \in Nat \ {0}
    PROVE  /\ u <= s => CronBetween(d, s, u, c) = {}
           /\ u > s => CronBetween(d, s, u, c) = Latest(Found(d, s, u, c), c)
  BY DEF CronBetween, Found

LEMMA ReachIsBounded ==
    ASSUME NEW d \in CronDefs, NEW u \in Nat
    PROVE  /\ Local(d.zone, u) \in Nat
           /\ Reach(d, u) \in SUBSET (0..Local(d.zone, u))
<1>1. PICK T \in Nat, B \in Nat, A \in Nat : d.zone.turn = T /\ d.zone.before = B /\ d.zone.after = A
  BY CronFacts, ZoneFacts
<1>2. Local(d.zone, u) \in Nat
  BY <1>1 DEF Local, Offset
<1>3. \A w \in d.local : w \in Nat
  BY CronFacts
<1> QED
  BY <1>2, <1>3 DEF Reach

LEMMA WalkedMeans ==
    ASSUME NEW d \in CronDefs, NEW s \in Nat, NEW u \in Nat, NEW c \in Nat \ {0}
    PROVE  /\ Walked(d, s, u, c) \in SUBSET Latest(Reach(d, u), c)
           /\ Latest(Reach(d, u), c) \in SUBSET Reach(d, u)
           /\ Walked(d, s, u, c) \in SUBSET d.local
           /\ Walked(d, s, u, c) \in SUBSET Nat
           /\ \A w \in Latest(Reach(d, u), c) :
                 w \in Walked(d, s, u, c) <=>
                    \A v \in Latest(Reach(d, u), c) : v >= w => InstantOf(d.zone, v) > s
<1>1. Behind(d, u, c) = Latest(Reach(d, u), c)
  BY DEF Behind, Reach
<1>2. Latest(Reach(d, u), c) \in SUBSET Reach(d, u)
  BY DEF Latest
<1>3. Reach(d, u) \in SUBSET d.local /\ d.local \in SUBSET Nat
  BY CronFacts DEF Reach
<1> QED
  BY <1>1, <1>2, <1>3 DEF Walked

\* How far the forward walk starts before the earliest slot found.
LEMMA BackOffMeans ==
    ASSUME NEW z \in Zones, NEW t \in Int
    PROVE  /\ BackOff(z, t) \in Nat \ {0}
           /\ t >= z.turn /\ t - MaxShift < z.turn /\ z.before > z.after
                => BackOff(z, t) = z.before - z.after + 1
<1>1. PICK T \in Nat, B \in Nat, A \in Nat : z.turn = T /\ z.before = B /\ z.after = A
  BY ZoneFacts
<1>2. MaxShift \in Nat
  BY NumbersAssumption
<1> QED
  BY <1>1, <1>2 DEF BackOff, Offset

LEMMA CronStartMeans ==
    ASSUME NEW d \in CronDefs, NEW s \in Nat, NEW u \in Nat, NEW c \in Nat \ {0}
    PROVE  /\ CronStart(d, s, Walked(d, s, u, c)) \in Nat
           /\ CronStart(d, s, Walked(d, s, u, c)) >= s
           /\ Walked(d, s, u, c) = {} => CronStart(d, s, Walked(d, s, u, c)) = s
           /\ Walked(d, s, u, c) # {} =>
                 \E m \in Walked(d, s, u, c) :
                    /\ \A v \in Walked(d, s, u, c) : m <= v
                    /\ InstantOf(d.zone, m) \in Int
                    /\ \/ CronStart(d, s, Walked(d, s, u, c)) = s
                       \/ CronStart(d, s, Walked(d, s, u, c)) =
                             InstantOf(d.zone, m) - BackOff(d.zone, InstantOf(d.zone, m))
<1> DEFINE W == Walked(d, s, u, c)
<1>0. W \in SUBSET Nat /\ d.zone \in Zones
  BY WalkedMeans, CronFacts
<1> HIDE DEF W
<1>1. CASE W = {}
  <2>1. CronStart(d, s, W) = Larger(s, s - BackOff(d.zone, s))
    BY <1>1 DEF CronStart
  <2>2. BackOff(d.zone, s) \in Nat \ {0}
    BY <1>0, BackOffMeans
  <2>3. CronStart(d, s, W) = s
    BY <2>1, <2>2 DEF Larger
  <2> QED
    BY <2>3, <1>1 DEF W
<1>2. CASE W # {}
  <2>1. PICK m \in W : m = Least(W) /\ \A v \in W : m <= v
    BY <1>0, <1>2, LeastIsLeast
  <2>2. PICK i \in Int : i = InstantOf(d.zone, m)
    <3>1. m \in Nat
      BY <1>0
    <3> QED
      BY <3>1, <1>0, InstantIsInt
  <2>3. PICK b \in Nat \ {0} : b = BackOff(d.zone, i)
    BY <1>0, BackOffMeans
  <2>4. CronStart(d, s, W) = Larger(s, i - b)
    BY <1>2, <2>1, <2>2, <2>3 DEF CronStart
  <2>5. PICK x \in Nat : x = CronStart(d, s, W) /\ x >= s /\ (x = s \/ x = i - b)
    BY <2>4 DEF Larger
  <2> QED
    BY <2>1, <2>2, <2>3, <2>5, <1>2 DEF W
<1> QED
  BY <1>1, <1>2

\* Nothing that is found is not due.
LEMMA FoundIsDue ==
    ASSUME NEW d \in CronDefs, NEW a \in Nat, NEW s \in DueOf(d, a), NEW u \in Instants,
           NEW c \in Nat \ {0}
    PROVE  Found(d, s, u, c) \in SUBSET Window(d, a, s, u)
<1>1. s \in Nat /\ u \in Nat /\ s > a /\ Horizon \in Nat /\ u <= Horizon
  BY CronSlots, NumbersAssumption DEF Instants
<1>2. d.zone.turn \in Nat
  BY CronFacts, ZoneFacts
<1>3. ASSUME NEW g \in GapOf(d), InstantOf(d.zone, g) > s PROVE a < d.zone.turn
  <2>1. InstantOf(d.zone, g) \in Nat
    BY GapInstant
  <2>2. CASE s >= d.zone.turn
    BY <2>2, <2>1, <1>1, <1>3, GapPassed
  <2> QED
    BY <2>2, <1>1, <1>2
<1>4. ASSUME NEW w \in Walked(d, s, u, c), NEW t \in Int, t = InstantOf(d.zone, w), s < t, t <= u
      PROVE  t \in DueOf(d, a)
  <2>1. w \in d.local /\ t \in Instants /\ t > a
    BY <1>1, <1>4, WalkedMeans DEF Instants
  <2>2. CASE w \in GapOf(d)
    BY <2>1, <2>2, <1>1, <1>3, <1>4, CronSlots
  <2>3. CASE w \notin GapOf(d)
    BY <2>1, <2>3, <1>1, <1>4, InstantShows, CronSlots
  <2> QED
    BY <2>2, <2>3
<1>5. ASSUME NEW x \in Nat, x >= s, NEW t \in Ahead(d, x), s < t, t <= u
      PROVE  t \in DueOf(d, a)
  <2>1. CASE t \in x + 1..Horizon /\ Local(d.zone, t) \in d.local
    BY <2>1, <1>1, <1>5, CronSlots DEF Instants
  <2>2. CASE x < d.zone.turn /\ \E g \in GapOf(d) : t = InstantOf(d.zone, g)
    <3>1. PICK g \in GapOf(d) : t = InstantOf(d.zone, g)
      BY <2>2
    <3>2. t \in Nat
      BY <3>1, GapInstant
    <3>3. t \in Instants /\ t > a /\ a < d.zone.turn
      BY <3>1, <3>2, <2>2, <1>1, <1>2, <1>5 DEF Instants
    <3> QED
      BY <3>1, <3>3, <1>1, CronSlots
  <2> QED
    BY <2>1, <2>2 DEF Ahead, GapOf
<1>6. \A w \in Walked(d, s, u, c) : InstantOf(d.zone, w) \in Int
  <2>1. \A w \in Walked(d, s, u, c) : w \in Nat
    BY <1>1, WalkedMeans
  <2> QED
    BY <2>1, CronFacts, InstantIsInt
<1>7. PICK x \in Nat : x = CronStart(d, s, Walked(d, s, u, c)) /\ x >= s
  BY <1>1, CronStartMeans
<1>8. ASSUME NEW t \in Found(d, s, u, c) PROVE t \in DueOf(d, a) /\ s < t /\ t <= u
  BY <1>4, <1>5, <1>6, <1>7 DEF Found
<1> QED
  BY <1>8 DEF Window

\* What the walks miss is shown by a local time before all that were reached.
LEMMA MissedIsBefore ==
    ASSUME NEW d \in CronDefs, NEW a \in Nat, NEW s \in DueOf(d, a), NEW u \in Instants,
           NEW c \in Nat \ {0},
           NEW t \in Window(d, a, s, u), t \notin Found(d, s, u, c)
    PROVE  \E m \in Walked(d, s, u, c), w \in d.local :
              /\ \A v \in Walked(d, s, u, c) : m <= v
              /\ w < m
              /\ t <= InstantOf(d.zone, w)
              /\ t < d.zone.turn => w = Local(d.zone, t)
<1> DEFINE W == Walked(d, s, u, c)
<1>1. /\ s \in Nat /\ u \in Nat /\ s > a /\ Horizon \in Nat /\ u <= Horizon
      /\ t \in Nat /\ t \in Instants /\ s < t /\ t <= u /\ t \in DueOf(d, a)
  BY CronSlots, NumbersAssumption DEF Instants, Window
<1>2. PICK start \in Nat : start = CronStart(d, s, W) /\ start >= s
  BY <1>1, CronStartMeans
<1>3. t \notin Ahead(d, start)
  BY <1>1, <1>2 DEF Found
<1>4. start # s
  <2>1. t \in Ahead(d, s)
    BY <1>1, AheadIsDue
  <2> QED
    BY <2>1, <1>3
<1>5. PICK m \in W : /\ \A v \in W : m <= v
                     /\ InstantOf(d.zone, m) \in Int
                     /\ start = InstantOf(d.zone, m) - BackOff(d.zone, InstantOf(d.zone, m))
  <2> HIDE DEF W
  <2>1. start # s => W # {}
    BY <1>1, <1>2, CronStartMeans DEF W
  <2>2. W # {} =>
          \E m \in W : /\ \A v \in W : m <= v
                       /\ InstantOf(d.zone, m) \in Int
                       /\ \/ start = s
                          \/ start = InstantOf(d.zone, m) - BackOff(d.zone, InstantOf(d.zone, m))
    BY <1>1, <1>2, CronStartMeans DEF W
  <2> QED
    BY <2>1, <2>2, <1>4
<1>6. PICK i \in Int : i = InstantOf(d.zone, m)
  BY <1>5
<1>7. PICK b \in Nat \ {0} :
          /\ start = i - b
          /\ i >= d.zone.turn /\ i - MaxShift < d.zone.turn /\ d.zone.before > d.zone.after
                => b = d.zone.before - d.zone.after + 1
  BY <1>5, <1>6, BackOffMeans, CronFacts
<1>8. PICK T \in Nat, B \in Nat, A \in Nat :
          /\ d.zone.turn = T /\ d.zone.before = B /\ d.zone.after = A
          /\ \/ A = B
             \/ A = B + Shift
             \/ B = A + Shift
  BY CronFacts, ZoneFacts
<1>9. m \in d.local /\ m \in Nat
  BY <1>1, WalkedMeans
<1>10. i = IF m - A >= T THEN m - A ELSE m - B
  BY <1>6, <1>8 DEF InstantOf
<1>11. Shift \in Nat /\ MaxShift \in Nat /\ Shift < MaxShift
  BY NumbersAssumption
<1>12. /\ start = i - b
       /\ i >= T /\ i - MaxShift < T /\ B > A => b = B - A + 1
  BY <1>7, <1>8
<1>13. CASE Local(d.zone, t) \in d.local
  <2>1. t <= start
    BY <1>1, <1>2, <1>3, <1>13 DEF Ahead
  <2>2. t <= InstantOf(d.zone, Local(d.zone, t))
    BY <1>1, <1>13, ShownAtOrLater
  <2>3. Local(d.zone, t) < m
    <3>1. CASE t < T
      <4>1. Local(d.zone, t) = t + B
        BY <3>1, <1>8 DEF Local, Offset
      <4>2. CASE m - A >= T /\ B > A /\ i - MaxShift < T
        BY <4>1, <4>2, <2>1, <1>1, <1>9, <1>10, <1>12
      <4>3. CASE m - A >= T /\ B > A /\ i - MaxShift >= T
        <5>1. B = A + Shift
          BY <4>3, <1>8, <1>11
        <5> QED
          BY <5>1, <4>1, <4>3, <3>1, <1>1, <1>9, <1>10, <1>11
      <4>4. CASE m - A < T \/ B <= A
        BY <4>1, <4>4, <2>1, <1>1, <1>9, <1>10, <1>12
      <4> QED
        BY <4>2, <4>3, <4>4, <1>9, <1>11
    <3>2. CASE t >= T
      <4>1. Local(d.zone, t) = t + A
        BY <3>2, <1>1, <1>8 DEF Local, Offset
      <4>2. CASE m - A >= T
        BY <4>1, <4>2, <2>1, <1>1, <1>9, <1>10, <1>12
      <4>3. CASE m - A < T
        <5>1. T + B <= m /\ m < T + A
          BY <4>3, <3>2, <2>1, <1>1, <1>9, <1>10, <1>12
        <5>2. m \in GapOf(d)
          BY <5>1, <1>8, <1>9, CronFacts DEF GapOf, Gap
        <5>3. i < T + Shift
          BY <5>2, <1>6, <1>8, GapInstant
        <5>4. t + A < T + A \/ t + A >= T + A + Shift
          BY <5>2, <4>1, <1>8, <1>13, CronFacts
        <5> QED
          BY <5>3, <5>4, <3>2, <2>1, <1>1, <1>11, <1>12
      <4> QED
        BY <4>2, <4>3, <1>9
    <3> QED
      BY <3>1, <3>2, <1>1
  <2> QED
    BY <2>2, <2>3, <1>5, <1>13
<1>14. CASE Local(d.zone, t) \notin d.local
  <2>1. PICK g \in GapOf(d) : t = InstantOf(d.zone, g)
    BY <1>1, <1>14, CronSlots
  <2>2. g \in d.local /\ g \in Nat /\ t >= T /\ T + B <= g /\ g < T + A
    BY <2>1, <1>8, CronFacts, GapInstant DEF GapOf, Gap
  <2>3. start >= T
    BY <2>1, <1>2, <1>3, <1>8 DEF Ahead, GapOf
  <2>4. m # g
    BY <2>1, <1>1, <1>5 DEF Found
  <2>5. m \notin GapOf(d)
    BY <2>1, <2>4, CronFacts
  <2>6. ~(T + B <= m /\ m < T + A)
    BY <2>5, <1>8, <1>9, CronFacts DEF GapOf, Gap
  <2>7. g < m
    BY <2>2, <2>3, <2>6, <1>9, <1>10, <1>12
  <2> QED
    BY <2>1, <2>2, <2>7, <1>1, <1>5, <1>8
<1> QED
  BY <1>13, <1>14

\* The instant that a later local time stands for in the window.
LaterSlot(d, u, v) ==
    IF u < d.zone.turn THEN v - d.zone.before ELSE InstantOf(d.zone, v)

ToCome(d, u) ==
    {g \in GapOf(d) : d.zone.turn <= u /\ u < InstantOf(d.zone, g)}

\* It is due in the window, unless it is a time of the gap still to come.
LEMMA LaterIsDue ==
    ASSUME NEW d \in CronDefs, NEW a \in Nat, NEW s \in DueOf(d, a), NEW u \in Instants,
           NEW t \in Window(d, a, s, u), NEW w \in d.local,
           t <= InstantOf(d.zone, w), t < d.zone.turn => w = Local(d.zone, t),
           NEW v \in Reach(d, u), v > w, v \notin ToCome(d, u)
    PROVE  LaterSlot(d, u, v) \in Above(Window(d, a, s, u), t)
<1>1. /\ s \in Nat /\ u \in Nat /\ s > a /\ Horizon \in Nat /\ u <= Horizon
      /\ t \in Nat /\ s < t /\ t <= u
  BY CronSlots, NumbersAssumption DEF Instants, Window
<1>2. PICK T \in Nat, B \in Nat, A \in Nat :
          d.zone.turn = T /\ d.zone.before = B /\ d.zone.after = A
  BY CronFacts, ZoneFacts
<1>3. /\ w \in Nat /\ v \in Nat /\ v \in d.local
      /\ v <= Local(d.zone, u)
  BY CronFacts DEF Reach
<1>4. CASE u < T
  <2>1. Local(d.zone, u) = u + B /\ Local(d.zone, t) = t + B
    BY <1>1, <1>2, <1>4 DEF Local, Offset
  <2>2. t + B < v /\ v <= u + B
    BY <2>1, <1>1, <1>2, <1>3, <1>4
  <2>3. PICK y \in Nat : y = v - B
    BY <2>2, <1>1, <1>3
  <2>4. Local(d.zone, y) = v
    BY <2>2, <2>3, <1>1, <1>2, <1>3, <1>4 DEF Local, Offset
  <2>5. y > t /\ y <= u
    BY <2>2, <2>3, <1>1, <1>3
  <2>6. y \in DueOf(d, a)
    BY <2>4, <2>5, <1>1, <1>3, CronSlots DEF Instants
  <2>7. LaterSlot(d, u, v) = y
    BY <2>3, <1>2, <1>4 DEF LaterSlot
  <2> QED
    BY <2>5, <2>6, <2>7, <1>1 DEF Window, Above
<1>5. CASE u >= T
  <2>1. Local(d.zone, u) = u + A
    BY <1>1, <1>2, <1>5 DEF Local, Offset
  <2>2. PICK y \in Int : y = InstantOf(d.zone, v)
    BY <1>3, CronFacts, InstantIsInt
  <2>3. y > t
    <3>1. PICK x \in Int : x = InstantOf(d.zone, w) /\ x < y
      BY <2>2, <1>3, InstantsGrow
    <3> QED
      BY <3>1, <1>1
  <2>4. LaterSlot(d, u, v) = y
    BY <2>2, <1>1, <1>2, <1>5 DEF LaterSlot
  <2>5. CASE v \in GapOf(d)
    <3>1. y <= u
      BY <2>2, <2>5, <1>1, <1>2, <1>5 DEF ToCome
    <3>2. s < d.zone.turn
      <4>1. CASE s >= d.zone.turn
        BY <4>1, <2>2, <2>3, <2>5, <1>1, GapPassed
      <4> QED
        BY <4>1, <1>1, <1>2
    <3>3. y \in DueOf(d, a)
      BY <3>1, <3>2, <2>2, <2>3, <2>5, <1>1, <1>2, CronSlots DEF Instants
    <3> QED
      BY <3>1, <3>3, <2>3, <2>4, <1>1 DEF Window, Above
  <2>6. CASE v \notin GapOf(d)
    <3>1. Local(d.zone, y) = v
      BY <2>2, <2>6, <1>3, InstantShows
    <3>2. y <= u
      BY <3>1, <2>1, <2>3, <1>1, <1>2, <1>3, <1>5 DEF Local, Offset
    <3>3. y \in DueOf(d, a)
      BY <3>1, <3>2, <2>3, <1>1, <1>3, CronSlots DEF Instants
    <3> QED
      BY <3>2, <3>3, <2>3, <2>4, <1>1 DEF Window, Above
  <2> QED
    BY <2>5, <2>6
<1> QED
  BY <1>1, <1>2, <1>4, <1>5

LEMMA LaterSlotsDiffer ==
    ASSUME NEW d \in CronDefs, NEW u \in Nat, NEW v \in d.local, NEW w \in d.local,
           LaterSlot(d, u, v) = LaterSlot(d, u, w)
    PROVE  v = w
<1>1. PICK T \in Nat, B \in Nat, A \in Nat :
          d.zone.turn = T /\ d.zone.before = B /\ d.zone.after = A
  BY CronFacts, ZoneFacts
<1>2. v \in Nat /\ w \in Nat
  BY CronFacts
<1>3. CASE u < T
  BY <1>1, <1>2, <1>3 DEF LaterSlot
<1>4. CASE u >= T
  <2>1. InstantOf(d.zone, v) = InstantOf(d.zone, w)
    BY <1>1, <1>4 DEF LaterSlot
  <2>2. PICK x \in Int : x = InstantOf(d.zone, v) /\ x = InstantOf(d.zone, w)
    BY <2>1, <1>2, CronFacts, InstantIsInt
  <2>3. ASSUME v < w PROVE FALSE
    <3>1. InstantOf(d.zone, v) < InstantOf(d.zone, w)
      BY <2>3, InstantsGrow
    <3> QED
      BY <3>1, <2>2
  <2>4. ASSUME w < v PROVE FALSE
    <3>1. InstantOf(d.zone, w) < InstantOf(d.zone, v)
      BY <2>4, InstantsGrow
    <3> QED
      BY <3>1, <2>2
  <2> QED
    BY <2>3, <2>4, <1>2
<1> QED
  BY <1>1, <1>3, <1>4

LEMMA WindowIsBounded ==
    ASSUME NEW d, NEW a \in Nat, NEW s, NEW u
    PROVE  /\ Window(d, a, s, u) \in SUBSET (0..Horizon) /\ Horizon \in Nat
           /\ IsFiniteSet(Window(d, a, s, u))
           /\ Cardinality(Window(d, a, s, u)) \in Nat
<1>1. Window(d, a, s, u) \in SUBSET (0..Horizon) /\ Horizon \in Nat
  BY NumbersAssumption DEF Window, DueOf, Instants
<1>2. IsFiniteSet(Window(d, a, s, u)) /\ Cardinality(Window(d, a, s, u)) \in Nat
  <2> DEFINE S == Window(d, a, s, u)
  <2> HIDE DEF S
  <2>1. S \in SUBSET (0..Horizon) /\ Horizon \in Nat
    BY <1>1 DEF S
  <2>2. IsFiniteSet(0..Horizon)
    BY <2>1, FS_Interval
  <2>3. IsFiniteSet(S)
    BY <2>1, <2>2, FS_Subset
  <2>4. Cardinality(S) \in Nat
    BY <2>3, FS_CardinalityType
  <2> QED
    BY <2>3, <2>4 DEF S
<1> QED
  BY <1>1, <1>2

\* No more local times are left between than slots are due, but for one.
LEMMA LaterAreCounted ==
    ASSUME NEW d \in CronDefs, NEW a \in Nat, NEW s \in DueOf(d, a), NEW u \in Instants,
           NEW t \in Window(d, a, s, u), NEW w \in d.local,
           t <= InstantOf(d.zone, w), t < d.zone.turn => w = Local(d.zone, t)
    PROVE  /\ Cardinality(Above(Reach(d, u), w)) \in Nat
           /\ Cardinality(Above(Window(d, a, s, u), t)) \in Nat
           /\ \/ Cardinality(Above(Reach(d, u), w)) <= Cardinality(Above(Window(d, a, s, u), t))
              \/ /\ ToCome(d, u) # {}
                 /\ Cardinality(Above(Reach(d, u), w)) <=
                       Cardinality(Above(Window(d, a, s, u), t)) + 1
<1> DEFINE V == Above(Reach(d, u), w)
           Y == Above(Window(d, a, s, u), t)
           V1 == V \ ToCome(d, u)
           f == [v \in V1 |-> LaterSlot(d, u, v)]
<1>1. u \in Nat /\ t \in Int /\ w \in Int
  BY CronFacts, NumbersAssumption DEF Instants, Window, DueOf
<1>2. IsFiniteSet(V) /\ Cardinality(V) \in Nat
  <2>1. PICK n \in Nat : Reach(d, u) \in SUBSET (0..n)
    BY <1>1, ReachIsBounded
  <2> QED
    BY <2>1, <1>1, AboveIsFinite
<1>3. IsFiniteSet(Y) /\ Cardinality(Y) \in Nat
  <2>1. Window(d, a, s, u) \in SUBSET (0..Horizon) /\ Horizon \in Nat
    BY WindowIsBounded
  <2> QED
    BY <2>1, <1>1, AboveIsFinite
<1>4. f \in Injection(V1, Y)
  <2>1. \A v \in V1 : v \in Reach(d, u) /\ v > w /\ v \notin ToCome(d, u) /\ v \in d.local
    BY DEF Above, Reach
  <2>2. \A v \in V1 : LaterSlot(d, u, v) \in Y
    BY <2>1, LaterIsDue
  <2>3. \A v, x \in V1 : LaterSlot(d, u, v) = LaterSlot(d, u, x) => v = x
    BY <2>1, <1>1, LaterSlotsDiffer
  <2> HIDE DEF V1, Y
  <2>4. f \in [V1 -> Y]
    BY <2>2
  <2>5. \A v, x \in V1 : f[v] = f[x] => v = x
    BY <2>3
  <2> HIDE DEF f
  <2> QED
    BY <2>4, <2>5, Fun_IsInj
<1>5. IsFiniteSet(V1) /\ Cardinality(V1) <= Cardinality(Y)
  <2> HIDE DEF V1, Y, f
  <2> QED
    BY <1>3, <1>4, FS_Injection
<1>6. Cardinality(V1) \in Nat
  <2> HIDE DEF V1
  <2> QED
    BY <1>5, FS_CardinalityType
<1>7. CASE V \cap ToCome(d, u) = {}
  <2>1. V1 = V
    BY <1>7
  <2> HIDE DEF V, V1, Y
  <2>2. Cardinality(V) <= Cardinality(Y)
    BY <2>1, <1>5
  <2> QED
    BY <2>2, <1>2, <1>3 DEF V, Y
<1>8. CASE V \cap ToCome(d, u) # {}
  <2>1. PICK g \in V : g \in ToCome(d, u)
    BY <1>8
  <2>2. \A h \in ToCome(d, u) : h = g
    BY <2>1, CronFacts DEF ToCome
  <2>3. V1 = V \ {g}
    BY <2>1, <2>2
  <2> HIDE DEF V, V1, Y
  <2>4. Cardinality(V1) = Cardinality(V) - 1
    BY <2>1, <2>3, <1>2, FS_RemoveElement
  <2>5. Cardinality(V) <= Cardinality(Y) + 1
    BY <2>4, <1>2, <1>3, <1>5, <1>6
  <2> QED
    BY <2>1, <2>5, <1>2, <1>3 DEF V, Y
<1> QED
  BY <1>7, <1>8

\* Among the latest that are due, nothing is missed, unless a time of the gap
\* is still to come.
LEMMA LatestIsFound ==
    ASSUME NEW d \in CronDefs, NEW a \in Nat, NEW s \in DueOf(d, a), NEW u \in Instants,
           NEW c \in Nat \ {0}, NEW t \in Latest(Window(d, a, s, u), c)
    PROVE  \/ t \in Found(d, s, u, c)
           \/ ToCome(d, u) # {} /\ Cardinality(Window(d, a, s, u)) >= c
<1> SUFFICES ASSUME t \notin Found(d, s, u, c)
             PROVE  ToCome(d, u) # {} /\ Cardinality(Window(d, a, s, u)) >= c
  OBVIOUS
<1>1. t \in Window(d, a, s, u) /\ Cardinality(Above(Window(d, a, s, u), t)) < c
  BY LatestMeans
<1>2. PICK m \in Walked(d, s, u, c), w \in d.local :
          /\ \A v \in Walked(d, s, u, c) : m <= v
          /\ w < m
          /\ t <= InstantOf(d.zone, w)
          /\ t < d.zone.turn => w = Local(d.zone, t)
  BY <1>1, MissedIsBefore
<1>3. /\ s \in Nat /\ u \in Nat /\ t \in Nat /\ s < t /\ t <= u
      /\ m \in Nat /\ w \in Nat /\ m \in Reach(d, u) /\ m \in d.local
      /\ m \in Latest(Reach(d, u), c)
  <2>1. s \in Nat /\ u \in Nat /\ t \in Nat /\ s < t /\ t <= u
    BY <1>1, NumbersAssumption DEF Instants, Window, DueOf
  <2> QED
    BY <2>1, WalkedMeans, CronFacts
<1>4. w \in Reach(d, u)
  <2>1. PICK n \in Nat : n = Local(d.zone, u)
    BY <1>3, ReachIsBounded
  <2> QED
    BY <2>1, <1>2, <1>3 DEF Reach
<1>5. w \notin Latest(Reach(d, u), c)
  <2> SUFFICES ASSUME w \in Latest(Reach(d, u), c) PROVE FALSE
    OBVIOUS
  <2>1. w \notin Walked(d, s, u, c)
    BY <1>2, <1>3
  <2>2. PICK v \in Latest(Reach(d, u), c) : v >= w /\ ~(InstantOf(d.zone, v) > s)
    BY <2>1, <1>3, WalkedMeans
  <2>3. v \in d.local /\ v \in Nat
    BY <2>2, <1>3, WalkedMeans, CronFacts DEF Reach
  <2>4. PICK x \in Int : x = InstantOf(d.zone, w)
    BY <1>3, CronFacts, InstantIsInt
  <2>5. PICK y \in Int : y = InstantOf(d.zone, v)
    BY <2>3, CronFacts, InstantIsInt
  <2>6. y >= x
    <3>1. CASE v = w
      BY <3>1, <2>4, <2>5
    <3>2. CASE w < v
      BY <3>2, <2>3, <2>4, <2>5, InstantsGrow
    <3> QED
      BY <3>1, <3>2, <2>2, <2>3, <1>3
  <2> QED
    BY <2>2, <2>4, <2>5, <2>6, <1>2, <1>3
<1>6. Cardinality(Above(Reach(d, u), w)) >= c
  <2>1. ~(Cardinality(Above(Reach(d, u), w)) < c)
    BY <1>4, <1>5, LatestMeans
  <2>2. Cardinality(Above(Reach(d, u), w)) \in Nat
    BY <1>1, <1>2, LaterAreCounted
  <2> QED
    BY <2>1, <2>2
<1> DEFINE k == Cardinality(Above(Window(d, a, s, u), t))
<1>7. k \in Nat /\ k < c /\ ToCome(d, u) # {} /\ k + 1 >= c
  <2>1. /\ Cardinality(Above(Reach(d, u), w)) \in Nat /\ k \in Nat
        /\ \/ Cardinality(Above(Reach(d, u), w)) <= k
           \/ ToCome(d, u) # {} /\ Cardinality(Above(Reach(d, u), w)) <= k + 1
    BY <1>1, <1>2, LaterAreCounted
  <2>2. k < c
    BY <1>1
  <2> HIDE DEF k
  <2> QED
    BY <2>1, <2>2, <1>6
<1>8. Cardinality(Window(d, a, s, u)) >= k + 1
  <2> DEFINE S == Window(d, a, s, u)
  <2> HIDE DEF S
  <2>1. S \in SUBSET (0..Horizon) /\ Horizon \in Nat /\ IsFiniteSet(S) /\ Cardinality(S) \in Nat
    BY WindowIsBounded DEF S
  <2>2. Above(S, t) \in SUBSET (S \ {t}) /\ t \in S
    BY <1>1, <1>3 DEF Above, S
  <2>3. IsFiniteSet(S \ {t}) /\ Cardinality(S \ {t}) = Cardinality(S) - 1
    BY <2>1, <2>2, FS_RemoveElement
  <2>4. Cardinality(Above(S, t)) <= Cardinality(S \ {t})
    BY <2>2, <2>3, FS_Subset
  <2>5. k <= Cardinality(S) - 1
    BY <2>3, <2>4 DEF S
  <2> HIDE DEF k
  <2>6. Cardinality(S) >= k + 1
    BY <2>5, <2>1, <1>7
  <2> QED
    BY <2>6 DEF S
<1>9. Cardinality(Window(d, a, s, u)) \in Nat
  BY WindowIsBounded
<1> HIDE DEF k
<1> QED
  BY <1>7, <1>8, <1>9

LEMMA CronBetweenIsDue ==
    ASSUME NEW d \in CronDefs, NEW a \in Nat, NEW s \in DueOf(d, a), NEW u \in Instants,
           NEW c \in Nat \ {0}
    PROVE  /\ CronBetween(d, s, u, c) \in SUBSET Window(d, a, s, u)
           /\ \/ ToCome(d, u) # {} /\ Cardinality(Window(d, a, s, u)) >= c
              \/ CronBetween(d, s, u, c) = Latest(Window(d, a, s, u), c)
<1>1. s \in Nat /\ u \in Nat
  BY NumbersAssumption DEF Instants, DueOf
<1>2. CASE u <= s
  <2>1. Window(d, a, s, u) = {}
    <3>1. \A t \in DueOf(d, a) : t \in Nat
      BY NumbersAssumption DEF DueOf, Instants
    <3>2. \A t \in DueOf(d, a) : ~(s < t /\ t <= u)
      BY <3>1, <1>1, <1>2
    <3> QED
      BY <3>2 DEF Window
  <2>2. Latest(Window(d, a, s, u), c) = {}
    BY <2>1 DEF Latest
  <2> QED
    BY <2>1, <2>2, <1>1, <1>2, CronBetweenMeans
<1>3. CASE u > s
  <2> DEFINE S == Window(d, a, s, u)
             X == Found(d, s, u, c)
  <2> HIDE DEF S, X
  <2>1. X \in SUBSET S /\ S \in SUBSET (0..Horizon) /\ Horizon \in Nat
    BY FoundIsDue, WindowIsBounded DEF S, X
  <2>2. CronBetween(d, s, u, c) = Latest(X, c)
    BY <1>1, <1>3, CronBetweenMeans DEF X
  <2>3. Latest(X, c) \in SUBSET S
    BY <2>1 DEF Latest
  <2>4. CASE Latest(S, c) \subseteq X
    <3>1. Latest(X, c) = Latest(S, c)
      BY <2>1, <2>4, LatestOfPart
    <3> QED
      BY <3>1, <2>2, <2>3 DEF S
  <2>5. CASE ~(Latest(S, c) \subseteq X)
    BY <2>2, <2>3, <2>5, LatestIsFound DEF S, X
  <2> QED
    BY <2>4, <2>5
<1> QED
  BY <1>1, <1>2, <1>3

-----------------------------------------------------------------------------
(* Arithmetic *)

LEMMA TimesGrow ==
    ASSUME NEW a \in Int, NEW b \in Int, a <= b, NEW k \in Nat
    PROVE  a * k \in Int /\ b * k \in Int /\ a * k <= b * k
<1>1. PICK e \in Nat : b = a + e
  <2>1. b - a \in Nat /\ b = a + (b - a)
    OBVIOUS
  <2> QED
    BY <2>1
<1>2. (a + e) * k = a * k + e * k
  OBVIOUS
<1>3. e * k \in Nat /\ a * k \in Int
  OBVIOUS
<1> QED
  BY <1>1, <1>2, <1>3

LEMMA TimesGrowStrictly ==
    ASSUME NEW a \in Int, NEW b \in Int, NEW k \in Nat \ {0}, a < b
    PROVE  a * k \in Int /\ b * k \in Int /\ a * k < b * k
<1>1. (a + 1) * k <= b * k
  BY TimesGrow
<1>2. (a + 1) * k = a * k + k
  OBVIOUS
<1> QED
  BY <1>1, <1>2

LEMMA QuotientMeans ==
    ASSUME NEW t \in Nat, NEW k \in Nat \ {0}
    PROVE  /\ t \div k \in Nat /\ t % k \in 0..k - 1
           /\ t = (t \div k) * k + (t % k)
           /\ (t \div k) * k <= t
           /\ t < (t \div k + 1) * k
<1>1. t \div k \in Nat /\ t % k \in 0..k - 1
  OBVIOUS
<1>2. t = k * (t \div k) + (t % k)
  OBVIOUS
<1>3. PICK q \in Nat, r \in 0..k - 1 : q = t \div k /\ r = t % k
  BY <1>1
<1>4. t = k * q + r
  BY <1>2, <1>3
<1>5. k * q = q * k /\ (q + 1) * k = q * k + k /\ q * k \in Nat
  OBVIOUS
<1>6. t = q * k + r /\ q * k <= t /\ t < (q + 1) * k
  BY <1>4, <1>5
<1> QED
  BY <1>3, <1>6

\* A quotient is known from what it lies between.
LEMMA QuotientIs ==
    ASSUME NEW t \in Nat, NEW k \in Nat \ {0}, NEW q \in Int, q * k <= t, t < (q + 1) * k
    PROVE  q = t \div k
<1>1. PICK p \in Nat : p = t \div k /\ p * k <= t /\ t < (p + 1) * k
  BY QuotientMeans
<1>2. CASE p < q
  <2>1. (p + 1) * k <= q * k
    BY <1>2, TimesGrow
  <2>2. (p + 1) * k \in Int /\ q * k \in Int
    OBVIOUS
  <2> QED
    BY <1>1, <2>1, <2>2
<1>3. CASE q < p
  <2>1. (q + 1) * k <= p * k
    BY <1>3, TimesGrow
  <2>2. (q + 1) * k \in Int /\ p * k \in Int
    OBVIOUS
  <2> QED
    BY <1>1, <2>1, <2>2
<1> QED
  BY <1>1, <1>2, <1>3

LEMMA MultipleMeans ==
    ASSUME NEW t \in Nat, NEW k \in Nat \ {0}
    PROVE  t % k = 0 <=> \E q \in Nat : t = q * k
<1>1. ASSUME t % k = 0 PROVE \E q \in Nat : t = q * k
  <2>1. PICK q \in Nat : q = t \div k /\ t = q * k + (t % k)
    BY QuotientMeans
  <2>2. q * k \in Int
    OBVIOUS
  <2> QED
    BY <1>1, <2>1, <2>2
<1>2. ASSUME NEW q \in Nat, t = q * k PROVE t % k = 0
  <2>1. (q + 1) * k = q * k + k /\ q * k \in Int
    OBVIOUS
  <2>2. q = t \div k
    BY <1>2, <2>1, QuotientIs
  <2>3. PICK r \in 0..k - 1 : r = t % k /\ t = q * k + r
    BY <2>2, QuotientMeans
  <2>4. PICK p \in Int : p = q * k
    BY <2>1
  <2>5. t = p /\ t = p + r
    BY <1>2, <2>3, <2>4
  <2> QED
    BY <2>3, <2>4, <2>5
<1> QED
  BY <1>1, <1>2

-----------------------------------------------------------------------------
(* What is next *)

\* What is due after l, or at all before the first fire.
Rest(d, a, l) == {t \in DueOf(d, a) : l = None \/ t > l}

IsNext(x, S) == IF S = {} THEN x \notin Instants ELSE x = Least(S)

LEMMA NextIs ==
    ASSUME NEW S \in SUBSET Instants, NEW x \in Nat, x \in Instants => x \in S,
           \A y \in S : x <= y
    PROVE  IsNext(x, S)
<1>1. S \in SUBSET Nat /\ Horizon \in Nat
  BY NumbersAssumption DEF Instants
<1>2. CASE S = {}
  BY <1>2 DEF IsNext
<1>3. CASE S # {}
  <2>1. PICK l \in S : l = Least(S) /\ \A y \in S : l <= y
    BY <1>1, <1>3, LeastIsLeast
  <2>2. x \in Instants
    BY <2>1, <1>1 DEF Instants
  <2>3. x = l
    BY <2>1, <2>2, <1>1
  <2> QED
    BY <2>1, <2>3, <1>3 DEF IsNext
<1> QED
  BY <1>2, <1>3

LEMMA NoneIsNotAnInstant ==
    None \notin Instants /\ None \in Int /\ Horizon \in Nat
  BY NumbersAssumption DEF None, Instants

LEMMA DueAreInstants ==
    ASSUME NEW d, NEW a
    PROVE  DueOf(d, a) \in SUBSET Instants /\ DueOf(d, a) \in SUBSET Nat
  BY NumbersAssumption DEF DueOf, Instants

LEMMA CronNextIsDue ==
    ASSUME NEW d \in CronDefs, NEW a \in Nat, NEW l \in {None} \cup DueOf(d, a)
    PROVE  IsNext(NextFireFor(d, a, l), Rest(d, a, l))
<1> DEFINE s == IF l = None THEN a ELSE l
<1>1. s \in {a} \cup DueOf(d, a)
  OBVIOUS
<1>2. NextFireFor(d, a, l) = CronNext(d, s)
  BY CronFacts DEF NextFireFor
<1>3. Rest(d, a, l) = {t \in DueOf(d, a) : t > s}
  <2>1. CASE l = None
    BY <2>1, CronSlots DEF Rest
  <2>2. CASE l # None
    BY <2>2 DEF Rest
  <2> QED
    BY <2>1, <2>2
<1> HIDE DEF s
<1>4. CronNext(d, s) = Least(Rest(d, a, l))
  <2>1. Ahead(d, s) \cap Instants = {t \in DueOf(d, a) : t > s}
    BY <1>1, AheadIsDue
  <2>2. Ahead(d, s) \cap Instants = Rest(d, a, l)
    BY <2>1, <1>3
  <2> QED
    BY <2>2 DEF CronNext
<1>5. Rest(d, a, l) = {} => Least(Rest(d, a, l)) \notin Instants
  BY NoneIsNotAnInstant DEF Least
<1>6. NextFireFor(d, a, l) = Least(Rest(d, a, l))
  BY <1>2, <1>4
<1> QED
  BY <1>5, <1>6 DEF IsNext

LEMMA OneShotNextIsDue ==
    ASSUME NEW d \in OneShotDefs, NEW a \in Nat, NEW l \in {None} \cup DueOf(d, a)
    PROVE  IsNext(NextFireFor(d, a, l), Rest(d, a, l))
<1>1. d.kind = "one_shot" /\ d.at \in Instants /\ d.at \in Nat
  BY NumbersAssumption DEF OneShotDefs, Instants
<1>2. DueOf(d, a) = {d.at}
  BY <1>1 DEF DueOf, Matching
<1>3. NextFireFor(d, a, l) = OneShotNext(d, l)
  BY <1>1 DEF NextFireFor
<1>4. CASE l = None
  <2>1. Rest(d, a, l) = {d.at}
    BY <1>2, <1>4 DEF Rest
  <2>2. OneShotNext(d, l) = d.at
    BY <1>4 DEF OneShotNext
  <2>3. IsNext(d.at, {d.at})
    BY <1>1, NextIs
  <2> QED
    BY <2>1, <2>2, <2>3, <1>3
<1>5. CASE l = d.at
  <2>1. Rest(d, a, l) = {}
    BY <1>1, <1>2, <1>5 DEF Rest, None
  <2>2. OneShotNext(d, l) = None
    BY <1>1, <1>5 DEF OneShotNext, None
  <2> QED
    BY <2>1, <2>2, <1>3, NoneIsNotAnInstant DEF IsNext
<1> QED
  BY <1>2, <1>4, <1>5

-----------------------------------------------------------------------------
(* interval *)

LEMMA IntervalFacts ==
    ASSUME NEW d \in IntervalDefs
    PROVE  d.kind = "interval" /\ d.step \in Nat \ {0}
<1>1. d.kind = "interval" /\ d.step \in Steps
  BY DEF IntervalDefs
<1> QED
  BY <1>1, NumbersAssumption

LEMMA IntervalSlots ==
    ASSUME NEW d \in IntervalDefs, NEW a \in Nat, NEW t
    PROVE  t \in DueOf(d, a) <=>
              t \in Instants /\ t \in Nat /\ t > a /\ \E q \in Nat : t = q * d.step
<1>1. d.kind = "interval" /\ d.step \in Nat \ {0}
  BY IntervalFacts
<1>2. t \in DueOf(d, a) <=> t \in Instants /\ t > a /\ t % d.step = 0
  BY <1>1 DEF DueOf, Matching
<1>3. t \in Instants => t \in Nat
  BY NumbersAssumption DEF Instants
<1>4. t \in Nat => (t % d.step = 0 <=> \E q \in Nat : t = q * d.step)
  BY <1>1, MultipleMeans
<1> QED
  BY <1>2, <1>3, <1>4

LEMMA IntervalNextIsDue ==
    ASSUME NEW d \in IntervalDefs, NEW a \in Nat, NEW l \in {None} \cup DueOf(d, a)
    PROVE  IsNext(NextFireFor(d, a, l), Rest(d, a, l))
<1>1. PICK k \in Nat \ {0} : k = d.step
  BY IntervalFacts
<1>2. NextFireFor(d, a, l) = IntervalNext(d, l, a)
  BY IntervalFacts DEF NextFireFor
\* the next multiple after p * k, which is where the search begins
<1>3. ASSUME NEW p \in Nat, NextFireFor(d, a, l) = (p + 1) * k, a < (p + 1) * k,
             \A t \in Rest(d, a, l) : t > p * k
      PROVE  IsNext(NextFireFor(d, a, l), Rest(d, a, l))
  <2>1. PICK x \in Nat : x = (p + 1) * k
    OBVIOUS
  <2>2. ASSUME NEW y \in Rest(d, a, l) PROVE x <= y
    <3>1. y \in DueOf(d, a)
      BY DEF Rest
    <3>2. PICK q \in Nat : y = q * k /\ y \in Nat
      BY <3>1, <1>1, IntervalSlots
    <3>3. CASE q <= p
      <4>1. q * k <= p * k /\ q * k \in Int /\ p * k \in Int
        BY <3>3, TimesGrow
      <4> QED
        BY <4>1, <3>2, <1>3
    <3>4. CASE p + 1 <= q
      <4>1. (p + 1) * k <= q * k
        BY <3>4, TimesGrow
      <4> QED
        BY <4>1, <3>2, <2>1
    <3> QED
      BY <3>3, <3>4
  <2>3. x \in Instants => x \in DueOf(d, a)
    BY <2>1, <1>1, <1>3, IntervalSlots
  <2>4. l = None \/ x > l
    <3>1. CASE l \in DueOf(d, a)
      <4>1. l \in Nat /\ l # None
        BY <3>1, DueAreInstants, NoneIsNotAnInstant
      <4>2. IntervalNext(d, l, a) = l + k
        BY <4>1, <1>1 DEF IntervalNext
      <4> QED
        BY <4>1, <4>2, <2>1, <1>2, <1>3
    <3> QED
      BY <3>1
  <2>5. x \in Instants => x \in Rest(d, a, l)
    BY <2>3, <2>4 DEF Rest
  <2>6. Rest(d, a, l) \in SUBSET Instants
    BY DueAreInstants DEF Rest
  <2> QED
    BY <2>1, <2>2, <2>5, <2>6, <1>3, NextIs
<1>4. CASE l = None
  <2>1. PICK p \in Nat : p = a \div k /\ p * k <= a /\ a < (p + 1) * k
    BY QuotientMeans
  <2>2. NextFireFor(d, a, l) = (p + 1) * k
    BY <2>1, <1>1, <1>2, <1>4 DEF IntervalNext
  <2>3. ASSUME NEW t \in Rest(d, a, l) PROVE t > p * k
    <3>1. t \in Nat /\ t > a
      BY IntervalSlots DEF Rest
    <3>2. PICK m \in Nat : m = p * k
      OBVIOUS
    <3> QED
      BY <3>1, <3>2, <2>1
  <2> QED
    BY <2>1, <2>2, <2>3, <1>3
<1>5. CASE l \in DueOf(d, a)
  <2>1. PICK p \in Nat : l = p * k
    BY <1>1, <1>5, IntervalSlots
  <2>2. l \in Nat /\ l > a /\ l # None
    BY <1>5, IntervalSlots, NoneIsNotAnInstant
  <2>3. NextFireFor(d, a, l) = l + k
    BY <2>2, <1>1, <1>2 DEF IntervalNext
  <2>4. (p + 1) * k = p * k + k
    OBVIOUS
  <2>5. NextFireFor(d, a, l) = (p + 1) * k /\ a < (p + 1) * k
    BY <2>1, <2>2, <2>3, <2>4
  <2>6. \A t \in Rest(d, a, l) : t > p * k
    BY <2>1, <2>2 DEF Rest
  <2> QED
    BY <2>5, <2>6, <1>3
<1> QED
  BY <1>4, <1>5

\* The slots from the i-th after s to the m-th.
SlotsAfter(s, k, i, m) == {s + j * k : j \in i..m}

LEMMA SlotsAreCounted ==
    ASSUME NEW s \in Nat, NEW k \in Nat \ {0}, NEW i \in Nat, NEW m \in Nat, i <= m + 1
    PROVE  Cardinality(SlotsAfter(s, k, i, m)) = m - i + 1
<1> DEFINE f == [j \in i..m |-> s + j * k]
<1>1. \A j \in i..m : j \in Nat /\ s + j * k \in Nat
  OBVIOUS
<1>2. ASSUME NEW x \in i..m, NEW y \in i..m, s + x * k = s + y * k PROVE x = y
  <2>1. x \in Nat /\ y \in Nat
    OBVIOUS
  <2>2. PICK p \in Int, q \in Int : p = x * k /\ q = y * k
    OBVIOUS
  <2>3. p = q
    BY <1>2, <2>2
  <2>4. CASE x < y
    BY <2>1, <2>2, <2>3, <2>4, TimesGrowStrictly
  <2>5. CASE y < x
    BY <2>1, <2>2, <2>3, <2>5, TimesGrowStrictly
  <2> QED
    BY <2>1, <2>4, <2>5
<1>3. f \in Bijection(i..m, SlotsAfter(s, k, i, m))
  <2>1. f \in [i..m -> SlotsAfter(s, k, i, m)]
    BY DEF SlotsAfter
  <2>2. \A x, y \in i..m : f[x] = f[y] => x = y
    BY <1>2
  <2>3. \A t \in SlotsAfter(s, k, i, m) : \E x \in i..m : f[x] = t
    BY DEF SlotsAfter
  <2> HIDE DEF f
  <2> QED
    BY <2>1, <2>2, <2>3, Fun_IsBij
<1>4. IsFiniteSet(i..m) /\ Cardinality(i..m) = m - i + 1
  <2>1. IsFiniteSet(i..m) /\ Cardinality(i..m) = IF i > m THEN 0 ELSE m - i + 1
    BY FS_Interval
  <2> QED
    BY <2>1
<1>5. ExistsBijection(i..m, SlotsAfter(s, k, i, m))
  <2> HIDE DEF f
  <2> QED
    BY <1>3 DEF ExistsBijection
<1> QED
  BY <1>4, <1>5, FS_Bijection

LEMMA IntervalWindow ==
    ASSUME NEW d \in IntervalDefs, NEW a \in Nat, NEW s \in DueOf(d, a), NEW u \in Instants, s <= u
    PROVE  /\ KMax(d.step, s, u) \in Nat
           /\ Window(d, a, s, u) = SlotsAfter(s, d.step, 1, KMax(d.step, s, u))
<1>1. PICK k \in Nat \ {0} : k = d.step
  BY IntervalFacts
<1>2. PICK p \in Nat : s = p * k /\ s \in Nat /\ s > a
  BY <1>1, IntervalSlots
<1>3. u \in Nat /\ Horizon \in Nat /\ u <= Horizon
  BY NumbersAssumption DEF Instants
<1>4. PICK M \in Nat : M = KMax(d.step, s, u) /\ M * k <= u - s /\ u - s < (M + 1) * k
  <2>1. u - s \in Nat
    BY <1>2, <1>3
  <2> QED
    BY <2>1, <1>1, QuotientMeans DEF KMax
<1>5. ASSUME NEW t \in Window(d, a, s, u) PROVE t \in SlotsAfter(s, k, 1, M)
  <2>1. t \in DueOf(d, a) /\ s < t /\ t <= u
    BY DEF Window
  <2>2. PICK q \in Nat : t = q * k /\ t \in Nat
    BY <2>1, <1>1, IntervalSlots
  <2>3. p < q
    <3>1. CASE q <= p
      BY <3>1, <2>1, <2>2, <1>2, TimesGrow
    <3> QED
      BY <3>1
  <2>4. PICK j \in Nat \ {0} : q = p + j
    <3>1. q - p \in Nat \ {0} /\ q = p + (q - p)
      BY <2>3
    <3> QED
      BY <3>1
  <2>5. (p + j) * k = p * k + j * k
    OBVIOUS
  <2>6. t = s + j * k
    BY <2>2, <2>4, <2>5, <1>2
  <2>7. j <= M
    <3>1. CASE M + 1 <= j
      <4>1. (M + 1) * k <= j * k /\ (M + 1) * k \in Int /\ j * k \in Int
        BY <3>1, TimesGrow
      <4>2. PICK x \in Int, y \in Int : x = (M + 1) * k /\ y = j * k
        BY <4>1
      <4> QED
        BY <4>1, <4>2, <2>1, <2>2, <2>6, <1>2, <1>3, <1>4
    <3> QED
      BY <3>1
  <2> QED
    BY <2>4, <2>6, <2>7 DEF SlotsAfter
<1>6. ASSUME NEW j \in 1..M PROVE s + j * k \in Window(d, a, s, u)
  <2>1. j * k <= M * k /\ j * k \in Int /\ M * k \in Int
    BY TimesGrow
  <2>2. 0 * k < j * k /\ 0 * k = 0
    BY TimesGrowStrictly
  <2>3. PICK y \in Nat : y = j * k /\ y > 0
    BY <2>1, <2>2
  <2>4. PICK x \in Int : x = M * k
    BY <2>1
  <2>5. PICK t \in Nat : t = s + j * k /\ s < t /\ t <= u
    BY <2>1, <2>3, <2>4, <1>2, <1>3, <1>4
  <2>6. (p + j) * k = p * k + j * k
    OBVIOUS
  <2>7. t = (p + j) * k /\ p + j \in Nat
    BY <2>5, <2>6, <1>2
  <2>8. t \in Instants /\ t > a
    BY <2>5, <1>2, <1>3 DEF Instants
  <2>9. t \in DueOf(d, a)
    BY <2>7, <2>8, <1>1, IntervalSlots
  <2> QED
    BY <2>5, <2>9 DEF Window
<1> QED
  BY <1>1, <1>4, <1>5, <1>6 DEF SlotsAfter

\* The closed form is the latest of what is due.
LEMMA IntervalBetweenIsDue ==
    ASSUME NEW d \in IntervalDefs, NEW a \in Nat, NEW s \in DueOf(d, a), NEW u \in Instants, s <= u,
           NEW c \in Nat \ {0}
    PROVE  IntervalBetween(d.step, s, u, c) = Latest(Window(d, a, s, u), c)
<1>1. PICK k \in Nat \ {0} : k = d.step
  BY IntervalFacts
<1>2. s \in Nat
  BY DueAreInstants
<1>3. PICK M \in Nat : M = KMax(d.step, s, u)
  BY IntervalWindow
<1>4. Window(d, a, s, u) = SlotsAfter(s, k, 1, M)
  BY <1>1, <1>3, IntervalWindow
<1>5. PICK K \in Nat \ {0} : K = KStart(d.step, s, u, c) /\ (K = 1 \/ K = M - c + 1) /\ K >= M - c + 1
  BY <1>1, <1>3 DEF KStart, Larger
<1>6. IntervalBetween(d.step, s, u, c) = {s + j * k : j \in K..M}
  BY <1>1, <1>3, <1>5 DEF IntervalBetween
<1>7. ASSUME NEW j \in 1..M
      PROVE  Cardinality(Above(SlotsAfter(s, k, 1, M), s + j * k)) = M - j
  <2>1. ASSUME NEW i \in 1..M PROVE s + i * k > s + j * k <=> i > j
    <3>1. PICK x \in Int, y \in Int : x = i * k /\ y = j * k
      OBVIOUS
    <3>2. CASE i > j
      <4>1. x > y
        BY <3>1, <3>2, TimesGrowStrictly
      <4> QED
        BY <4>1, <3>1, <3>2, <1>2
    <3>3. CASE i <= j
      <4>1. x <= y
        BY <3>1, <3>3, TimesGrow
      <4> QED
        BY <4>1, <3>1, <3>3, <1>2
    <3> QED
      BY <3>2, <3>3
  <2>2. Above(SlotsAfter(s, k, 1, M), s + j * k) = SlotsAfter(s, k, j + 1, M)
    <3>1. \A i \in j + 1..M : i \in 1..M /\ i > j
      OBVIOUS
    <3>2. \A i \in 1..M : i > j => i \in j + 1..M
      OBVIOUS
    <3> QED
      BY <2>1, <3>1, <3>2 DEF Above, SlotsAfter
  <2>3. Cardinality(SlotsAfter(s, k, j + 1, M)) = M - (j + 1) + 1
    BY <1>2, SlotsAreCounted
  <2> QED
    BY <2>2, <2>3
<1>8. Latest(SlotsAfter(s, k, 1, M), c) = {s + j * k : j \in K..M}
  <2>1. \A j \in 1..M : M - j < c <=> j >= K
    BY <1>5
  <2>2. \A t \in SlotsAfter(s, k, 1, M) : \E j \in 1..M : t = s + j * k
    BY DEF SlotsAfter
  <2>3. \A j \in 1..M : s + j * k \in SlotsAfter(s, k, 1, M)
    BY DEF SlotsAfter
  <2>4. ASSUME NEW t \in Latest(SlotsAfter(s, k, 1, M), c)
        PROVE  t \in {s + j * k : j \in K..M}
    <3>1. t \in SlotsAfter(s, k, 1, M) /\ Cardinality(Above(SlotsAfter(s, k, 1, M), t)) < c
      BY LatestMeans
    <3>2. PICK j \in 1..M : t = s + j * k
      BY <3>1, <2>2
    <3>3. j >= K
      BY <3>1, <3>2, <2>1, <1>7
    <3>4. j \in K..M
      BY <3>3
    <3> QED
      BY <3>2, <3>4
  <2>5. ASSUME NEW j \in K..M
        PROVE  s + j * k \in Latest(SlotsAfter(s, k, 1, M), c)
    <3>1. j \in 1..M /\ j >= K
      OBVIOUS
    <3>2. Cardinality(Above(SlotsAfter(s, k, 1, M), s + j * k)) < c
      BY <3>1, <2>1, <1>7
    <3> QED
      BY <3>1, <3>2, <2>3, LatestMeans
  <2> QED
    BY <2>4, <2>5
<1> QED
  BY <1>4, <1>6, <1>8

-----------------------------------------------------------------------------
(* solar: the next event *)

Events(d) == {d.event[n] : n \in Days} \ {None}

\* The days whose event is after t.
DaysAfter(d, t) == {n \in Days : d.event[n] # None /\ d.event[n] > t}

LEMMA DaysFacts ==
    /\ DayLength \in Nat \ {0} /\ MaxDays \in Nat \ {0} /\ Horizon \in Nat
    /\ Horizon \div DayLength \in Nat
    /\ Days \in SUBSET Nat
    /\ \A t \in Instants : /\ t \in Nat /\ t \div DayLength \in Days
                           /\ (t \div DayLength) * DayLength <= t
                           /\ t < (t \div DayLength + 1) * DayLength
<1>1. DayLength \in Nat \ {0} /\ MaxDays \in Nat \ {0} /\ Horizon \in Nat
  BY NumbersAssumption
<1>2. PICK D \in Nat \ {0} : D = DayLength
  BY <1>1
<1>3. PICK h \in Nat : h = Horizon \div D /\ h * D <= Horizon /\ Horizon < (h + 1) * D
  BY <1>1, QuotientMeans
<1>4. ASSUME NEW t \in Instants
      PROVE  /\ t \in Nat /\ t \div D \in 0..h
             /\ (t \div D) * D <= t
             /\ t < (t \div D + 1) * D
  <2>1. t \in Nat /\ t <= Horizon
    BY <1>1 DEF Instants
  <2>2. PICK q \in Nat : q = t \div D /\ q * D <= t /\ t < (q + 1) * D
    BY <2>1, QuotientMeans
  <2>3. CASE h + 1 <= q
    <3>1. (h + 1) * D <= q * D /\ (h + 1) * D \in Int /\ q * D \in Int
      BY <2>3, TimesGrow
    <3>2. PICK x \in Int, y \in Int : x = (h + 1) * D /\ y = q * D
      BY <3>1
    <3> QED
      BY <3>1, <3>2, <2>1, <2>2, <1>1, <1>3
  <2>4. CASE q <= h
    <3>1. q \in 0..h
      BY <2>4
    <3> QED
      BY <3>1, <2>1, <2>2
  <2> QED
    BY <2>3, <2>4
<1> QED
  BY <1>1, <1>2, <1>3, <1>4 DEF Days

LEMMA SolarFacts ==
    ASSUME NEW d \in SolarDefs
    PROVE  /\ d.kind = "solar"
           /\ Events(d) \in SUBSET Instants /\ Events(d) \in SUBSET Nat
           /\ \A n \in Days : d.event[n] # None =>
                 /\ d.event[n] \in Instants /\ d.event[n] \in Nat
                 /\ d.event[n] >= n * DayLength - 1
                 /\ d.event[n] < (n + 1) * DayLength
           /\ \A n \in Days : \E m \in n + 2..n + MaxDays - 1 : m \notin Days \/ d.event[m] # None
<1>1. d.kind = "solar" /\ d.event \in [Days -> {None} \cup Instants]
  BY DEF SolarDefs
<1>2. /\ \A n \in Days : d.event[n] # None =>
            d.event[n] >= n * DayLength - 1 /\ d.event[n] < (n + 1) * DayLength
      /\ \A n \in Days : \E m \in n + 2..n + MaxDays - 1 : m \notin Days \/ d.event[m] # None
  BY DEF SolarDefs
<1>3. \A n \in Days : d.event[n] # None => d.event[n] \in Instants /\ d.event[n] \in Nat
  BY <1>1, NumbersAssumption DEF Instants
<1>4. Events(d) \in SUBSET Instants /\ Events(d) \in SUBSET Nat
  BY <1>3 DEF Events
<1> QED
  BY <1>1, <1>2, <1>3, <1>4

\* A later day's event is not earlier.
LEMMA EventsGrow ==
    ASSUME NEW d \in SolarDefs, NEW n \in Days, NEW m \in Days, n <= m,
           d.event[n] # None, d.event[m] # None
    PROVE  d.event[n] <= d.event[m]
<1>1. PICK D \in Nat \ {0} : D = DayLength
  BY DaysFacts
<1>2. n \in Nat /\ m \in Nat
  BY DaysFacts
<1>3. PICK x \in Nat, y \in Nat : /\ x = d.event[n] /\ y = d.event[m]
                                  /\ x < (n + 1) * D /\ y >= m * D - 1
  BY <1>1, SolarFacts
<1>4. CASE n = m
  BY <1>3, <1>4
<1>5. CASE n + 1 <= m
  <2>1. PICK p \in Int, q \in Int : p = (n + 1) * D /\ q = m * D /\ p <= q
    BY <1>2, <1>5, TimesGrow
  <2> QED
    BY <2>1, <1>3
<1> QED
  BY <1>2, <1>4, <1>5

\* The search finds the earliest event after t, if there is one.
LEMMA SolarNextIs ==
    ASSUME NEW d \in SolarDefs, NEW t \in Instants
    PROVE  LET later == {e \in Events(d) : e > t} IN
              IF later = {} THEN SolarNext(d, t) = None
              ELSE /\ SolarNext(d, t) \in later
                   /\ \A e \in later : SolarNext(d, t) <= e
<1>1. PICK D \in Nat \ {0} : D = DayLength
  BY DaysFacts
<1>2. PICK today \in Nat : /\ today = t \div D /\ today \in Days /\ t \in Nat
                           /\ today * D <= t /\ t < (today + 1) * D
  BY <1>1, DaysFacts
<1> DEFINE L == {n \in Days : /\ today <= n /\ n < today + MaxDays
                              /\ d.event[n] # None /\ d.event[n] > t}
<1>3. SolarNext(d, t) = IF L = {} THEN None ELSE d.event[Least(L)]
  BY <1>1, <1>2 DEF SolarNext
\* no event after t is on a day before
<1>4. ASSUME NEW n \in Days, d.event[n] # None, d.event[n] > t PROVE today <= n
  <2>1. n \in Nat
    BY DaysFacts
  <2>2. PICK x \in Nat : x = d.event[n] /\ x < (n + 1) * D
    BY <1>1, <1>4, SolarFacts
  <2>3. CASE n + 1 <= today
    <3>1. PICK p \in Int, q \in Int : p = (n + 1) * D /\ q = today * D /\ p <= q
      BY <2>1, <2>3, TimesGrow
    <3> QED
      BY <3>1, <2>2, <1>2, <1>4
  <2> QED
    BY <2>1, <2>3
<1>5. CASE L = {}
  <2>1. PICK m \in today + 2..today + MaxDays - 1 : m \notin Days \/ d.event[m] # None
    BY <1>2, SolarFacts
  <2>2. MaxDays \in Nat /\ m \in Nat /\ today + 2 <= m /\ m < today + MaxDays
    BY <2>1, DaysFacts
  <2>3. m \notin Days
    <3> SUFFICES ASSUME m \in Days PROVE FALSE
      OBVIOUS
    <3>1. d.event[m] # None
      BY <2>1
    <3>2. PICK x \in Nat : x = d.event[m] /\ x >= m * D - 1
      BY <3>1, <1>1, SolarFacts
    <3>3. PICK p \in Int, q \in Int : p = (today + 1) * D /\ q = m * D /\ p < q
      BY <2>2, TimesGrowStrictly
    <3>4. x > t
      BY <3>2, <3>3, <1>2
    <3> QED
      BY <3>1, <3>2, <3>4, <2>2, <1>5
  <2>4. ASSUME NEW e \in Events(d), e > t PROVE FALSE
    <3>1. PICK n \in Days : e = d.event[n] /\ d.event[n] # None
      BY DEF Events
    <3>2. today <= n /\ n \in Nat
      BY <3>1, <2>4, <1>4, DaysFacts
    <3>3. n < m
      <4>1. PICK h \in Nat : Days = 0..h
        BY DaysFacts DEF Days
      <4> QED
        BY <4>1, <2>2, <2>3
    <3> QED
      BY <3>1, <3>2, <3>3, <2>2, <2>4, <1>5
  <2> QED
    BY <2>4, <1>3, <1>5
<1>6. CASE L # {}
  <2>1. L \in SUBSET Nat
    BY DaysFacts
  <2>2. PICK n \in L : n = Least(L) /\ \A m \in L : n <= m
    <3> HIDE DEF L
    <3> QED
      BY <2>1, <1>6, LeastIsLeast
  <2>3. SolarNext(d, t) = d.event[n]
    BY <2>2, <1>3, <1>6
  <2>4. d.event[n] \in Events(d) /\ d.event[n] > t
    BY <2>2 DEF Events
  <2>5. ASSUME NEW e \in Events(d), e > t PROVE d.event[n] <= e
    <3>1. PICK m \in Days : e = d.event[m] /\ d.event[m] # None
      BY DEF Events
    <3>2. today <= m /\ m \in Nat
      BY <3>1, <2>5, <1>4, DaysFacts
    <3>3. n <= m
      <4>1. CASE m < today + MaxDays
        BY <4>1, <3>1, <3>2, <2>2, <2>5
      <4>2. CASE m >= today + MaxDays
        <5>1. n \in Nat /\ n < today + MaxDays /\ MaxDays \in Nat
          BY <2>1, DaysFacts
        <5> QED
          BY <5>1, <4>2, <3>2, <1>2
      <4> QED
        BY <4>1, <4>2, <3>2, DaysFacts
    <3> QED
      BY <3>1, <3>3, EventsGrow
  <2> QED
    BY <2>3, <2>4, <2>5
<1> QED
  BY <1>5, <1>6

LEMMA SolarSlots ==
    ASSUME NEW d \in SolarDefs, NEW a \in Nat
    PROVE  DueOf(d, a) = {e \in Events(d) : e > a}
  BY SolarFacts DEF DueOf, Matching, Events

LEMMA SolarNextIsDue ==
    ASSUME NEW d \in SolarDefs, NEW a \in Instants, NEW l \in {None} \cup DueOf(d, a)
    PROVE  IsNext(NextFireFor(d, a, l), Rest(d, a, l))
<1> DEFINE s == IF l = None THEN a ELSE l
<1>1. s \in Instants /\ s \in Nat /\ s >= a
  BY SolarSlots, SolarFacts, DaysFacts
<1>2. NextFireFor(d, a, l) = SolarNext(d, s)
  BY SolarFacts DEF NextFireFor
<1>3. Rest(d, a, l) = {e \in Events(d) : e > s}
  <2>1. \A e \in Events(d) : e \in Nat
    BY SolarFacts
  <2>2. a \in Nat
    BY DaysFacts
  <2>3. Rest(d, a, l) = {e \in Events(d) : e > a /\ (l = None \/ e > l)}
    BY <2>2, SolarSlots DEF Rest
  <2>4. \A e \in Events(d) : e > s <=> e > a /\ (l = None \/ e > l)
    BY <2>1, <2>2, <1>1
  <2> QED
    BY <2>3, <2>4
<1> HIDE DEF s
<1>4. CASE Rest(d, a, l) = {}
  <2>1. SolarNext(d, s) = None
    BY <1>1, <1>3, <1>4, SolarNextIs
  <2> QED
    BY <2>1, <1>2, <1>4, NoneIsNotAnInstant DEF IsNext
<1>5. CASE Rest(d, a, l) # {}
  <2>1. SolarNext(d, s) \in Rest(d, a, l) /\ \A e \in Rest(d, a, l) : SolarNext(d, s) <= e
    BY <1>1, <1>3, <1>5, SolarNextIs
  <2>2. Rest(d, a, l) \in SUBSET Instants /\ Rest(d, a, l) \in SUBSET Nat
    BY <1>3, SolarFacts
  <2> QED
    BY <2>1, <2>2, <1>2, NextIs
<1> QED
  BY <1>4, <1>5

-----------------------------------------------------------------------------
(* solar: the scan, event by event *)

\* The events of (s, u].
EventsIn(d, s, u) == {e \in Events(d) : s < e /\ e <= u}

IsWalk(f, d, s, u, m) ==
    f = [n \in 0..m |-> IF n = 0 THEN s ELSE SolarStep(d, u, f[n - 1])]

LEMMA WalkExists ==
    ASSUME NEW d, NEW s, NEW u, NEW m \in Nat
    PROVE  \E f : IsWalk(f, d, s, u, m)
<1> DEFINE Bad == {n \in Nat : ~ \E f : IsWalk(f, d, s, u, n)}
<1>1. ASSUME NEW n \in Bad, \A y \in Bad : n <= y PROVE FALSE
  <2>1. n # 0
    <3> SUFFICES ASSUME n = 0 PROVE FALSE
      OBVIOUS
    <3> DEFINE g == [x \in 0..0 |-> s]
    <3>1. g = [x \in 0..0 |-> IF x = 0 THEN s ELSE SolarStep(d, u, g[x - 1])]
      <4>1. \A x \in 0..0 : x = 0
        OBVIOUS
      <4> QED
        BY <4>1
    <3>2. IsWalk(g, d, s, u, 0)
      BY <3>1 DEF IsWalk
    <3> HIDE DEF g
    <3> QED
      BY <3>2
  <2>2. n - 1 \in Nat /\ n \in Nat
    BY <2>1
  <2>3. PICK f : IsWalk(f, d, s, u, n - 1)
    BY <1>1, <2>2
  <2> DEFINE g == [x \in 0..n |-> IF x = 0 THEN s ELSE SolarStep(d, u, f[x - 1])]
  <2>4. ASSUME NEW x \in 0..n - 1 PROVE g[x] = f[x]
    BY <2>2, <2>3 DEF IsWalk
  <2>5. ASSUME NEW x \in 0..n, x # 0 PROVE f[x - 1] = g[x - 1]
    <3>1. x - 1 \in 0..n - 1
      BY <2>2, <2>5
    <3> QED
      BY <3>1, <2>4
  <2>6. g = [x \in 0..n |-> IF x = 0 THEN s ELSE SolarStep(d, u, g[x - 1])]
    <3>1. \A x \in 0..n : g[x] = IF x = 0 THEN s ELSE SolarStep(d, u, f[x - 1])
      OBVIOUS
    <3>2. g = [x \in 0..n |-> g[x]]
      OBVIOUS
    <3> HIDE DEF g
    <3>3. \A x \in 0..n : g[x] = IF x = 0 THEN s ELSE SolarStep(d, u, g[x - 1])
      BY <3>1, <2>5
    <3> QED
      BY <3>2, <3>3
  <2>7. IsWalk(g, d, s, u, n)
    BY <2>6 DEF IsWalk
  <2> HIDE DEF g
  <2> QED
    BY <2>7
<1>2. Bad \in SUBSET Nat
  OBVIOUS
<1>3. Bad = {}
  <2> HIDE DEF Bad
  <2> QED
    BY <1>1, <1>2, LeastExists
<1> QED
  BY <1>3

LEMMA WalkMeans ==
    ASSUME NEW d, NEW s, NEW u, NEW m \in Nat
    PROVE  /\ SolarWalk(d, s, u, m)[0] = s
           /\ \A n \in 1..m :
                 SolarWalk(d, s, u, m)[n] = SolarStep(d, u, SolarWalk(d, s, u, m)[n - 1])
<1> DEFINE W == SolarWalk(d, s, u, m)
<1>1. W = CHOOSE f : IsWalk(f, d, s, u, m)
  BY DEF SolarWalk, IsWalk
<1> HIDE DEF W
<1>2. IsWalk(W, d, s, u, m)
  BY <1>1, WalkExists
<1>3. W[0] = s
  BY <1>2 DEF IsWalk
<1>4. \A n \in 1..m : W[n] = SolarStep(d, u, W[n - 1])
  BY <1>2 DEF IsWalk
<1> QED
  BY <1>3, <1>4 DEF W

LEMMA StepMeans ==
    ASSUME NEW d \in SolarDefs, NEW s \in Instants, NEW u \in Instants, NEW t \in Instants, s <= t
    PROVE  \/ /\ SolarStep(d, u, t) = None
              /\ \A y \in EventsIn(d, s, u) : y <= t
           \/ /\ SolarStep(d, u, t) \in EventsIn(d, s, u)
              /\ SolarStep(d, u, t) > t
              /\ \A y \in EventsIn(d, s, u) : y > t => SolarStep(d, u, t) <= y
<1>1. s \in Nat /\ u \in Nat /\ t \in Nat /\ t # None
  BY DaysFacts, NoneIsNotAnInstant
<1>2. Events(d) \in SUBSET Nat
  BY SolarFacts
<1> DEFINE later == {e \in Events(d) : e > t}
<1>3. IF later = {} THEN SolarNext(d, t) = None
      ELSE SolarNext(d, t) \in later /\ \A e \in later : SolarNext(d, t) <= e
  BY SolarNextIs
<1>4. CASE later = {}
  <2>1. SolarStep(d, u, t) = None
    BY <1>1, <1>3, <1>4 DEF SolarStep
  <2>2. \A y \in EventsIn(d, s, u) : y <= t
    BY <1>1, <1>2, <1>4 DEF EventsIn
  <2> QED
    BY <2>1, <2>2
<1>5. CASE later # {}
  <2>1. PICK e \in Nat : /\ e = SolarNext(d, t) /\ e \in Events(d) /\ e > t
                         /\ \A y \in later : e <= y
    BY <1>2, <1>3, <1>5
  <2>2. CASE e > u
    <3>1. SolarStep(d, u, t) = None
      BY <2>1, <2>2, <1>1 DEF SolarStep
    <3>2. \A y \in EventsIn(d, s, u) : y <= t
      BY <2>1, <2>2, <1>1, <1>2 DEF EventsIn
    <3> QED
      BY <3>1, <3>2
  <2>3. CASE e <= u
    <3>1. SolarStep(d, u, t) = e
      BY <2>1, <2>3, <1>1 DEF SolarStep
    <3>2. e \in EventsIn(d, s, u)
      BY <2>1, <2>3, <1>1 DEF EventsIn
    <3>3. \A y \in EventsIn(d, s, u) : y > t => e <= y
      BY <2>1 DEF EventsIn
    <3> QED
      BY <3>1, <3>2, <3>3, <2>1
  <2> QED
    BY <2>1, <2>2, <2>3, <1>1
<1> QED
  BY <1>4, <1>5

LEMMA EventsAreCounted ==
    ASSUME NEW d \in SolarDefs, NEW s, NEW u
    PROVE  /\ IsFiniteSet(EventsIn(d, s, u)) /\ Cardinality(EventsIn(d, s, u)) \in Nat
           /\ Cardinality(EventsIn(d, s, u)) <= Cardinality(Days)
           /\ Cardinality(Days) = Horizon \div DayLength + 1
<1> DEFINE E == EventsIn(d, s, u)
           f == [e \in E |-> CHOOSE n \in Days : d.event[n] = e]
<1>1. IsFiniteSet(Days) /\ Cardinality(Days) = Horizon \div DayLength + 1
  <2>1. PICK h \in Nat : h = Horizon \div DayLength
    BY DaysFacts
  <2>2. IsFiniteSet(0..h) /\ Cardinality(0..h) = IF 0 > h THEN 0 ELSE h - 0 + 1
    BY FS_Interval
  <2> QED
    BY <2>1, <2>2 DEF Days
<1>2. \A e \in E : \E n \in Days : d.event[n] = e
  BY DEF EventsIn, Events
<1>3. f \in Injection(E, Days)
  <2> HIDE DEF E
  <2>1. f \in [E -> Days]
    BY <1>2
  <2>2. \A e \in E : d.event[f[e]] = e
    BY <1>2
  <2> HIDE DEF f
  <2>3. \A x, y \in E : f[x] = f[y] => x = y
    BY <2>2
  <2> QED
    BY <2>1, <2>3, Fun_IsInj
<1>4. IsFiniteSet(E) /\ Cardinality(E) <= Cardinality(Days)
  <2> HIDE DEF E, f
  <2> QED
    BY <1>1, <1>3, FS_Injection
<1>5. Cardinality(E) \in Nat
  <2> HIDE DEF E
  <2> QED
    BY <1>4, FS_CardinalityType
<1> QED
  BY <1>1, <1>4, <1>5

\* How far the scan w of the events E has come after n steps.
Scanned(w, n) == {w[j] : j \in 1..n}

Progress(w, E, s, n) ==
    /\ w[n] = None => E \subseteq Scanned(w, n)
    /\ w[n] # None =>
          /\ w[n] \in Instants /\ s <= w[n]
          /\ n # 0 => w[n] \in E
          /\ {y \in E : y <= w[n]} \subseteq Scanned(w, n)
          /\ Cardinality({y \in E : y <= w[n]}) = n

LEMMA ProgressIsMade ==
    ASSUME NEW d \in SolarDefs, NEW s \in Instants, NEW u \in Instants, NEW w, NEW n \in Nat,
           Progress(w, EventsIn(d, s, u), s, n), w[n + 1] = SolarStep(d, u, w[n])
    PROVE  Progress(w, EventsIn(d, s, u), s, n + 1)
<1> DEFINE E == EventsIn(d, s, u)
<1>0. Scanned(w, n) \subseteq Scanned(w, n + 1) /\ w[n + 1] \in Scanned(w, n + 1)
  BY DEF Scanned
<1>1. CASE w[n] = None
  <2>1. w[n + 1] = None
    BY <1>1 DEF SolarStep
  <2> QED
    BY <2>1, <1>0, <1>1 DEF Progress
<1>2. CASE w[n] # None
  <2>1. PICK t \in Instants : /\ t = w[n] /\ s <= t /\ t \in Nat
                              /\ {y \in E : y <= t} \subseteq Scanned(w, n)
                              /\ Cardinality({y \in E : y <= t}) = n
    BY <1>2, DaysFacts DEF Progress
  <2>2. E \in SUBSET Nat /\ E \in SUBSET Instants /\ IsFiniteSet(E)
    BY SolarFacts, EventsAreCounted DEF EventsIn
  <2>3. CASE w[n + 1] = None
    <3>1. \A y \in E : y <= t
      <4>1. None \notin E
        BY <2>2, NoneIsNotAnInstant
      <4> QED
        BY <4>1, <2>1, <2>3, StepMeans
    <3> QED
      BY <3>1, <2>1, <2>3, <1>0 DEF Progress
  <2>4. CASE w[n + 1] # None
    <3>1. PICK e \in E : e = w[n + 1] /\ e > t /\ \A y \in E : y > t => e <= y
      BY <2>1, <2>4, StepMeans
    <3>2. e \in Nat /\ e \in Instants /\ s <= e
      <4>1. e \in Nat /\ s \in Nat /\ e \in Instants
        BY <2>2, DaysFacts
      <4> QED
        BY <4>1, <3>1, <2>1
    <3> HIDE DEF E
    <3>3. {y \in E : y <= e} = {y \in E : y <= t} \cup {e}
      <4>1. \A y \in E : y \in Nat /\ (y <= e <=> y <= t \/ y = e)
        BY <3>1, <3>2, <2>1, <2>2
      <4> QED
        BY <4>1
    <3>4. e \notin {y \in E : y <= t}
      BY <3>1, <3>2, <2>1
    <3>5. IsFiniteSet({y \in E : y <= t})
      <4>1. {y \in E : y <= t} \in SUBSET E
        OBVIOUS
      <4> QED
        BY <4>1, <2>2, FS_Subset
    <3>6. Cardinality({y \in E : y <= e}) = n + 1
      <4> DEFINE B == {y \in E : y <= t}
      <4>1. IsFiniteSet(B) /\ e \notin B /\ Cardinality(B) = n /\ {y \in E : y <= e} = B \cup {e}
        BY <3>3, <3>4, <3>5, <2>1
      <4> HIDE DEF B
      <4> QED
        BY <4>1, FS_AddElement
    <3>7. {y \in E : y <= e} \subseteq Scanned(w, n + 1)
      BY <3>1, <3>3, <2>1, <1>0
    <3> QED
      BY <3>1, <3>2, <3>6, <3>7, <2>4 DEF Progress, E
  <2> QED
    BY <2>3, <2>4
<1> QED
  BY <1>1, <1>2

\* A scan of as many steps as there are days finds every event, and no other.
LEMMA ScanFindsAll ==
    ASSUME NEW d \in SolarDefs, NEW s \in Instants, NEW u \in Instants, NEW m \in Nat,
           Cardinality(Days) <= m
    PROVE  {SolarWalk(d, s, u, m)[n] : n \in 1..m} \ {None} = EventsIn(d, s, u)
<1> DEFINE w == SolarWalk(d, s, u, m)
           E == EventsIn(d, s, u)
<1>1. w[0] = s /\ \A n \in 1..m : w[n] = SolarStep(d, u, w[n - 1])
  BY WalkMeans
<1>2. E \in SUBSET Nat /\ E \in SUBSET Instants /\ IsFiniteSet(E) /\ Cardinality(E) \in Nat
  BY SolarFacts, EventsAreCounted DEF EventsIn
<1>3. Cardinality(E) <= m
  <2>1. PICK h \in Nat : Cardinality(Days) = h + 1
    BY EventsAreCounted, DaysFacts
  <2>2. Cardinality(E) <= h + 1
    BY <2>1, EventsAreCounted
  <2> HIDE DEF E
  <2> QED
    BY <2>1, <2>2, <1>2
<1>4. s \in Nat /\ None \notin Instants
  BY DaysFacts, NoneIsNotAnInstant
<1> HIDE DEF w
<1>5. Progress(w, E, s, 0)
  <2>1. {y \in E : y <= s} = {}
    <3>1. \A y \in E : y > s
      BY DEF EventsIn
    <3> QED
      BY <3>1, <1>2, <1>4
  <2>2. Cardinality({y \in E : y <= s}) = 0
    BY <2>1, FS_EmptySet
  <2> HIDE DEF E
  <2> QED
    BY <2>1, <2>2, <1>1, <1>4 DEF Progress
<1> DEFINE Bad == {n \in Nat : n <= m /\ ~Progress(w, E, s, n)}
<1>6. ASSUME NEW n \in Bad, \A y \in Bad : n <= y PROVE FALSE
  <2>1. n \in Nat /\ n <= m /\ ~Progress(w, E, s, n)
    OBVIOUS
  <2>2. n # 0
    BY <2>1, <1>5
  <2>3. PICK k \in Nat : n = k + 1 /\ k <= m
    <3>1. n - 1 \in Nat /\ n = (n - 1) + 1 /\ n - 1 <= m
      BY <2>1, <2>2
    <3> QED
      BY <3>1
  <2>4. Progress(w, E, s, k)
    BY <2>3, <1>6
  <2>5. w[k + 1] = SolarStep(d, u, w[k])
    <3>1. n \in 1..m /\ n - 1 = k
      BY <2>1, <2>3
    <3> QED
      BY <3>1, <2>3, <1>1
  <2>6. Progress(w, E, s, k + 1)
    BY <2>4, <2>5, ProgressIsMade
  <2> QED
    BY <2>1, <2>3, <2>6
<1>7. \A n \in 0..m : Progress(w, E, s, n)
  <2>1. Bad \in SUBSET Nat
    OBVIOUS
  <2>2. Bad = {}
    <3> HIDE DEF Bad
    <3> QED
      BY <2>1, <1>6, LeastExists
  <2>3. \A n \in 0..m : n \in Nat /\ n <= m
    OBVIOUS
  <2> QED
    BY <2>2, <2>3
<1>8. E \subseteq Scanned(w, m)
  <2>1. Progress(w, E, s, m)
    BY <1>7
  <2>2. CASE w[m] = None
    BY <2>1, <2>2 DEF Progress
  <2>3. CASE w[m] # None
    <3> DEFINE B == {y \in E : y <= w[m]}
    <3>1. B \subseteq Scanned(w, m) /\ Cardinality(B) = m
      BY <2>1, <2>3 DEF Progress
    <3>2. B \in SUBSET E
      OBVIOUS
    <3> HIDE DEF B, E
    <3>3. Cardinality(B) <= Cardinality(E) /\ (Cardinality(E) = Cardinality(B) => E = B)
      BY <3>2, <1>2, FS_Subset
    <3>4. Cardinality(E) = Cardinality(B)
      BY <3>1, <3>3, <1>2, <1>3
    <3> QED
      BY <3>1, <3>3, <3>4
  <2> QED
    BY <2>2, <2>3
<1>9. \A n \in 1..m : w[n] # None => w[n] \in E
  <2>1. \A n \in 1..m : n # 0 /\ n \in 0..m
    OBVIOUS
  <2> QED
    BY <2>1, <1>7 DEF Progress
<1>10. None \notin E
  BY <1>2, <1>4
<1>11. Scanned(w, m) \ {None} = E
  <2>1. \A t \in Scanned(w, m) : \E n \in 1..m : t = w[n]
    BY DEF Scanned
  <2> HIDE DEF E
  <2>2. \A t \in Scanned(w, m) : t # None => t \in E
    BY <2>1, <1>9
  <2> QED
    BY <2>2, <1>8, <1>10
<1> QED
  BY <1>11 DEF w, Scanned

LEMMA SolarBetweenIsDue ==
    ASSUME NEW d \in SolarDefs, NEW a \in Nat, NEW s \in DueOf(d, a), NEW u \in Instants,
           NEW c \in Caps
    PROVE  SolarBetween(d, s, u, c) = Latest(Window(d, a, s, u), c)
<1>1. PICK m \in Nat : m = ScanFactor * c
  <2>1. ScanFactor \in Nat /\ c \in Nat
    BY NumbersAssumption
  <2> QED
    BY <2>1
<1>2. Cardinality(Days) <= m
  <2>1. PICK h \in Nat : h = Horizon \div DayLength /\ Cardinality(Days) = h + 1
    BY DaysFacts, EventsAreCounted
  <2>2. h < m
    BY <2>1, <1>1, ScanAssumption
  <2> QED
    BY <2>1, <2>2
<1>3. s \in Instants /\ s \in Nat /\ s > a
  BY DueAreInstants, SolarSlots
<1>4. {SolarWalk(d, s, u, m)[n] : n \in 1..m} \ {None} = EventsIn(d, s, u)
  BY <1>2, <1>3, ScanFindsAll
<1>5. SolarBetween(d, s, u, c) = Latest(EventsIn(d, s, u), c)
  BY <1>1, <1>4 DEF SolarBetween
<1>6. Window(d, a, s, u) = EventsIn(d, s, u)
  <2>1. Events(d) \in SUBSET Nat
    BY SolarFacts
  <2>2. \A e \in Events(d) : s < e => e > a
    BY <2>1, <1>3
  <2> QED
    BY <2>2, SolarSlots DEF Window, EventsIn
<1> QED
  BY <1>5, <1>6

-----------------------------------------------------------------------------
(* All the kinds together *)

\* The slot after l, or after the creation, is the earliest that is due then.
THEOREM NextIsDue ==
    ASSUME NEW d \in Definitions, NEW a \in Instants, NEW l \in {None} \cup DueOf(d, a)
    PROVE  IsNext(NextFireFor(d, a, l), Rest(d, a, l))
<1>1. a \in Nat
  BY DaysFacts
<1> QED
  BY <1>1, CronNextIsDue, IntervalNextIsDue, OneShotNextIsDue, SolarNextIsDue DEF Definitions

\* The slots found between s and u are the latest c that are due, or leave the
\* oldest of them out when a slot of the gap is still to come.
THEOREM BetweenIsDue ==
    ASSUME NEW d \in Definitions, NEW a \in Instants, NEW s \in DueOf(d, a), NEW u \in Instants,
           s <= u, NEW c \in Caps
    PROVE  /\ Between(d, s, u, c) \in SUBSET Window(d, a, s, u)
           /\ \/ JumpedOver(d, u) /\ Cardinality(Window(d, a, s, u)) >= c
              \/ Between(d, s, u, c) = Latest(Window(d, a, s, u), c)
<1>1. a \in Nat /\ c \in Nat \ {0}
  BY DaysFacts, NumbersAssumption
<1>2. Latest(Window(d, a, s, u), c) \in SUBSET Window(d, a, s, u)
  BY DEF Latest
<1>3. CASE d \in CronDefs
  <2>1. Between(d, s, u, c) = CronBetween(d, s, u, c) /\ d.kind = "cron"
    BY <1>3, CronFacts DEF Between
  <2>2. ToCome(d, u) # {} => JumpedOver(d, u)
    BY <2>1 DEF ToCome, GapOf, JumpedOver
  <2> QED
    BY <2>1, <2>2, <1>1, <1>3, CronBetweenIsDue
<1>4. CASE d \in IntervalDefs
  <2>1. Between(d, s, u, c) = IntervalBetween(d.step, s, u, c)
    BY <1>4, IntervalFacts DEF Between
  <2> QED
    BY <2>1, <1>1, <1>2, <1>4, IntervalBetweenIsDue
<1>5. CASE d \in OneShotDefs
  <2>1. d.kind = "one_shot" /\ d.at \in Nat
    BY <1>5, DaysFacts DEF OneShotDefs
  <2>2. Between(d, s, u, c) = {}
    BY <2>1 DEF Between
  <2>3. DueOf(d, a) \subseteq {d.at}
    BY <2>1 DEF DueOf, Matching
  <2>4. Window(d, a, s, u) = {}
    BY <2>1, <2>3 DEF Window
  <2>5. Latest({}, c) = {}
    BY DEF Latest
  <2> QED
    BY <2>2, <2>4, <2>5
<1>6. CASE d \in SolarDefs
  <2>1. Between(d, s, u, c) = SolarBetween(d, s, u, c)
    BY <1>6, SolarFacts DEF Between
  <2> QED
    BY <2>1, <1>1, <1>2, <1>6, SolarBetweenIsDue
<1> QED
  BY <1>3, <1>4, <1>5, <1>6 DEF Definitions

LEMMA NextIsTyped ==
    ASSUME NEW d \in Definitions, NEW a \in Instants, NEW l \in {None} \cup DueOf(d, a)
    PROVE  NextFireFor(d, a, l) \in {None} \cup Nat
<1>1. Rest(d, a, l) \in SUBSET Nat
  BY DueAreInstants DEF Rest
<1>2. CASE Rest(d, a, l) # {}
  BY <1>1, <1>2, NextIsDue, LeastIsLeast DEF IsNext
<1>3. CASE Rest(d, a, l) = {} /\ d \in CronDefs
  <2>1. NextFireFor(d, a, l) = CronNext(d, IF l = None THEN a ELSE l)
    BY <1>3, CronFacts DEF NextFireFor
  <2>2. Ahead(d, IF l = None THEN a ELSE l) \cap Instants \in SUBSET Nat
    BY DaysFacts
  <2> QED
    BY <2>1, <2>2, LeastIsLeast DEF CronNext, Least
<1>4. CASE d \in IntervalDefs
  <2>1. PICK k \in Nat \ {0} : k = d.step /\ d.kind = "interval"
    BY <1>4, IntervalFacts
  <2>2. NextFireFor(d, a, l) = IF l # None THEN l + k ELSE ((a \div k) + 1) * k
    BY <2>1 DEF NextFireFor, IntervalNext
  <2>3. l # None => l \in Nat
    BY DueAreInstants
  <2>4. ((a \div k) + 1) * k \in Nat
    <3>1. PICK q \in Nat : q = a \div k
      BY DaysFacts, QuotientMeans
    <3> QED
      BY <3>1
  <2> QED
    BY <2>2, <2>3, <2>4
<1>5. CASE d \in OneShotDefs
  <2>1. d.kind = "one_shot" /\ d.at \in Nat
    BY <1>5, DaysFacts DEF OneShotDefs
  <2> QED
    BY <2>1 DEF NextFireFor, OneShotNext
<1>6. CASE d \in SolarDefs
  <2> DEFINE s == IF l = None THEN a ELSE l
  <2>1. NextFireFor(d, a, l) = SolarNext(d, s)
    BY <1>6, SolarFacts DEF NextFireFor
  <2>2. s \in Instants
    BY DueAreInstants
  <2>3. Events(d) \in SUBSET Nat
    BY <1>6, SolarFacts
  <2> HIDE DEF s
  <2> QED
    BY <2>1, <2>2, <2>3, <1>6, SolarNextIs
<1> QED
  BY <1>2, <1>3, <1>4, <1>5, <1>6 DEF Definitions

-----------------------------------------------------------------------------
(* The engine *)

EngineInv ==
    /\ CadenceTypeOK
    /\ last \in {None} \cup Due
    /\ last # None => last <= now
    /\ last = None => now = anchor
    /\ pending = NextFireFor(def, anchor, last)

LEMMA EngineFacts ==
    ASSUME EngineInv
    PROVE  /\ def \in Definitions /\ anchor \in Instants /\ anchor \in Nat
           /\ cap \in Caps /\ cap \in Nat \ {0}
           /\ now \in Nat /\ now \in Instants
           /\ last \in {None} \cup DueOf(def, anchor)
           /\ IsNext(pending, Rest(def, anchor, last))
<1>1. anchor \in Anchors /\ cap \in Caps /\ now \in Instants /\ def \in Definitions
  BY DEF EngineInv, CadenceTypeOK
<1>2. anchor \in Instants /\ cap \in Nat \ {0}
  BY <1>1, NumbersAssumption DEF Instants
<1>3. anchor \in Nat /\ now \in Nat
  BY <1>1, <1>2, DaysFacts
<1>4. last \in {None} \cup DueOf(def, anchor)
  BY DEF EngineInv, Due
<1>5. IsNext(pending, Rest(def, anchor, last))
  BY <1>1, <1>2, <1>4, NextIsDue DEF EngineInv
<1> QED
  BY <1>1, <1>2, <1>3, <1>4, <1>5

LEMMA PendingIsFirst ==
    ASSUME EngineInv, pending \in Instants
    PROVE  /\ pending \in DueOf(def, anchor) /\ pending \in Nat
           /\ last = None \/ pending > last
           /\ \A t \in Rest(def, anchor, last) : pending <= t
<1>1. IsNext(pending, Rest(def, anchor, last))
  BY EngineFacts
<1>2. Rest(def, anchor, last) # {} /\ pending = Least(Rest(def, anchor, last))
  BY <1>1 DEF IsNext
<1>3. Rest(def, anchor, last) \in SUBSET Nat
  BY DueAreInstants DEF Rest
<1>4. pending \in Rest(def, anchor, last) /\ \A t \in Rest(def, anchor, last) : pending <= t
  BY <1>2, <1>3, LeastIsLeast
<1> QED
  BY <1>3, <1>4 DEF Rest

LEMMA MissedMeans ==
    ASSUME NEW u \in Instants
    PROVE  /\ Missed(u) = {t \in Rest(def, anchor, last) : t <= u}
           /\ Missed(u) \in SUBSET DueOf(def, anchor)
           /\ Missed(u) \in SUBSET Instants
           /\ Missed(u) \in SUBSET Nat
           /\ Missed(u) \in SUBSET (0..Horizon)
           /\ IsFiniteSet(Missed(u)) /\ Cardinality(Missed(u)) \in Nat
<1>1. Missed(u) = {t \in Rest(def, anchor, last) : t <= u}
  BY DEF Missed, Due, Rest
<1>2. Missed(u) \in SUBSET DueOf(def, anchor)
  BY DEF Missed, Due
<1>3. Missed(u) \in SUBSET Instants /\ Missed(u) \in SUBSET Nat
  BY <1>2, DueAreInstants
<1>4. Missed(u) \in SUBSET (0..Horizon)
  BY <1>3 DEF Instants
<1>5. IsFiniteSet(0..Horizon)
  BY NoneIsNotAnInstant, FS_Interval
<1>6. IsFiniteSet(Missed(u)) /\ Cardinality(Missed(u)) \in Nat
  <2> DEFINE S == Missed(u)
  <2> HIDE DEF S
  <2>1. IsFiniteSet(S)
    BY <1>4, <1>5, FS_Subset DEF S
  <2> QED
    BY <2>1, FS_CardinalityType DEF S
<1> QED
  BY <1>1, <1>2, <1>3, <1>4, <1>6

\* The earliest of a set may be set aside and put back.
LEMMA LatestButFirst ==
    ASSUME NEW S \in SUBSET Nat, NEW p \in S, \A y \in S : p <= y, NEW c
    PROVE  Latest(S \ {p}, c) \cup {p} = Latest(S, c) \cup {p}
<1>1. ASSUME NEW x \in S, x # p PROVE Above(S, x) = Above(S \ {p}, x)
  <2>1. ~(p > x)
    BY <1>1
  <2> QED
    BY <2>1 DEF Above
<1>2. \A x \in S : x # p => (x \in Latest(S, c) <=> x \in Latest(S \ {p}, c))
  BY <1>1, LatestMeans
<1> QED
  BY <1>2, LatestMeans

\* The backlog of an outage that ends at u.
LEMMA BacklogIsDue ==
    ASSUME EngineInv, pending \in Instants, NEW u \in Instants, u >= now, pending < u
    PROVE  /\ MissedSlots(u) \in SUBSET Missed(u) /\ MissedSlots(u) # {}
           /\ \/ JumpedOver(def, u) /\ Cardinality(Missed(u)) >= cap
              \/ MissedSlots(u) = Recovered(u)
<1>1. /\ pending \in DueOf(def, anchor) /\ pending \in Nat
      /\ last = None \/ pending > last
      /\ \A t \in Rest(def, anchor, last) : pending <= t
  BY PendingIsFirst
<1>2. u \in Nat
  BY DaysFacts
<1>3. pending \in Missed(u)
  BY <1>1, <1>2, MissedMeans DEF Rest
<1>4. /\ def \in Definitions /\ anchor \in Instants /\ cap \in Caps /\ cap \in Nat \ {0}
      /\ now \in Nat /\ last \in {None} \cup DueOf(def, anchor)
  BY EngineFacts
<1>5. \A t \in Missed(u) : pending <= t
  BY <1>1, MissedMeans
<1>6. CASE last = None
  <2> DEFINE W == Window(def, anchor, pending, u)
             B == Between(def, pending, u, cap)
  <2>1. MissedSlots(u) = B \cup {pending}
    BY <1>6 DEF MissedSlots
  <2>2. W = Missed(u) \ {pending}
    <3>1. \A t \in DueOf(def, anchor) : t \in Nat
      BY DueAreInstants
    <3>2. Missed(u) = {t \in DueOf(def, anchor) : t <= u}
      BY <1>6, MissedMeans DEF Rest
    <3>3. \A t \in DueOf(def, anchor) : t <= u => pending <= t
      BY <3>2, <1>5
    <3>4. \A t \in DueOf(def, anchor) : pending < t /\ t <= u <=> t <= u /\ t # pending
      BY <3>1, <3>3, <1>1
    <3> QED
      BY <3>2, <3>4 DEF Window
  <2>3. /\ B \in SUBSET W
        /\ \/ JumpedOver(def, u) /\ Cardinality(W) >= cap
           \/ B = Latest(W, cap)
    BY <1>1, <1>2, <1>4, BetweenIsDue
  <2> HIDE DEF W, B
  <2>4. MissedSlots(u) \in SUBSET Missed(u) /\ MissedSlots(u) # {}
    BY <2>1, <2>2, <2>3, <1>3
  <2>5. CASE B = Latest(W, cap)
    <3>1. Latest(W, cap) \cup {pending} = Latest(Missed(u), cap) \cup {pending}
      BY <2>2, <1>3, <1>5, MissedMeans, LatestButFirst
    <3>2. MissedSlots(u) = Recovered(u)
      BY <3>1, <2>1, <2>5, <1>6 DEF Recovered
    <3> QED
      BY <3>2, <2>4
  <2>6. CASE JumpedOver(def, u) /\ Cardinality(W) >= cap
    <3>1. IsFiniteSet(Missed(u)) /\ Cardinality(Missed(u)) \in Nat
      BY MissedMeans
    <3> DEFINE M == Missed(u)
    <3> HIDE DEF M
    <3>2. W \in SUBSET M
      BY <2>2 DEF M
    <3>3. IsFiniteSet(W) /\ Cardinality(W) <= Cardinality(M)
      BY <3>1, <3>2, FS_Subset DEF M
    <3>4. Cardinality(W) \in Nat
      BY <3>3, FS_CardinalityType
    <3>5. Cardinality(M) >= cap
      BY <3>1, <3>3, <3>4, <2>6, <1>4 DEF M
    <3> QED
      BY <3>5, <2>4, <2>6 DEF M
  <2> QED
    BY <2>3, <2>5, <2>6
<1>7. CASE last # None
  <2>1. last \in DueOf(def, anchor) /\ last \in Nat /\ last <= u
    <3>1. last \in DueOf(def, anchor) /\ last \in Nat
      BY <1>4, <1>7, DueAreInstants
    <3>2. last <= now
      BY <1>7 DEF EngineInv
    <3> QED
      BY <3>1, <3>2, <1>2, <1>4
  <2> DEFINE B == Between(def, last, u, cap)
  <2>2. Window(def, anchor, last, u) = Missed(u)
    BY <1>7, MissedMeans DEF Window, Rest
  <2>3. /\ B \in SUBSET Missed(u)
        /\ \/ JumpedOver(def, u) /\ Cardinality(Missed(u)) >= cap
           \/ B = Latest(Missed(u), cap)
    BY <2>1, <2>2, <1>4, BetweenIsDue
  <2>4. MissedSlots(u) = IF B = {} THEN {pending} ELSE B
    BY <1>7 DEF MissedSlots
  <2>5. MissedSlots(u) \in SUBSET Missed(u) /\ MissedSlots(u) # {}
    BY <2>3, <2>4, <1>3
  <2>6. CASE B = Latest(Missed(u), cap)
    <3>1. Latest(Missed(u), cap) # {}
      BY <1>3, <1>4, MissedMeans, NoneIsNotAnInstant, LatestIsNotEmpty
    <3>2. MissedSlots(u) = Recovered(u)
      BY <3>1, <2>4, <2>6, <1>7 DEF Recovered
    <3> QED
      BY <3>2, <2>5
  <2> QED
    BY <2>3, <2>5, <2>6
<1> QED
  BY <1>6, <1>7

\* The slot on time is all that is due by then.
LEMMA OnTimeIsDue ==
    ASSUME EngineInv, pending \in Instants
    PROVE  /\ Missed(pending) = {pending}
           /\ Recovered(pending) = {pending}
<1>1. /\ pending \in DueOf(def, anchor) /\ pending \in Nat
      /\ last = None \/ pending > last
      /\ \A t \in Rest(def, anchor, last) : pending <= t
  BY PendingIsFirst
<1>2. Missed(pending) = {pending}
  <2>1. pending \in Missed(pending)
    BY <1>1, MissedMeans DEF Rest
  <2>2. \A t \in Missed(pending) : t \in Nat /\ t <= pending /\ pending <= t
    BY <1>1, MissedMeans
  <2> QED
    BY <2>1, <2>2, <1>1
<1>3. Latest({pending}, cap) = {pending}
  <2>1. {pending} \in SUBSET (0..Horizon)
    BY <1>2, MissedMeans
  <2>2. cap \in Nat \ {0}
    BY EngineFacts
  <2>3. Latest({pending}, cap) # {}
    BY <2>1, <2>2, NoneIsNotAnInstant, LatestIsNotEmpty
  <2> QED
    BY <2>3 DEF Latest
<1> QED
  BY <1>2, <1>3 DEF Recovered

LEMMA InitEngine == CadenceInit => EngineInv
<1> SUFFICES ASSUME CadenceInit PROVE EngineInv
  OBVIOUS
<1>1. /\ def \in Definitions /\ anchor \in Anchors /\ cap \in Caps /\ now = anchor /\ last = None
      /\ pending = NextFireFor(def, anchor, None) /\ batch = {}
  BY DEF CadenceInit
<1>2. anchor \in Instants
  BY <1>1, NumbersAssumption DEF Instants
<1>3. pending \in {None} \cup Nat
  BY <1>1, <1>2, NextIsTyped
<1> QED
  BY <1>1, <1>2, <1>3 DEF EngineInv, CadenceTypeOK

\* A decision at u that settles some of the slots missed by then.
LEMMA FireKeepsEngine ==
    ASSUME EngineInv, NEW u \in Instants, NEW slots \in SUBSET Missed(u), slots # {},
           now' = u, Fire(slots)
    PROVE  EngineInv'
<1>1. /\ batch' = slots /\ last' = Greatest(slots)
      /\ pending' = NextFireFor(def, anchor, last')
      /\ def' = def /\ anchor' = anchor /\ cap' = cap
  BY DEF Fire
<1>2. /\ def \in Definitions /\ anchor \in Instants
      /\ last \in {None} \cup DueOf(def, anchor) /\ CadenceTypeOK
  BY EngineFacts DEF EngineInv
<1>3. slots \in SUBSET (0..Horizon) /\ slots \in SUBSET Instants /\ Horizon \in Nat
  BY MissedMeans, NoneIsNotAnInstant
<1>4. last' \in slots
  BY <1>1, <1>3, GreatestIsGreatest
<1>5. last' \in DueOf(def, anchor) /\ last' <= u /\ last' # None
  <2>1. last' \in DueOf(def, anchor) /\ last' <= u
    BY <1>4, MissedMeans
  <2> QED
    BY <2>1, DueAreInstants, NoneIsNotAnInstant
<1>6. pending' \in {None} \cup Nat
  BY <1>1, <1>2, <1>5, NextIsTyped
<1>7. CadenceTypeOK'
  BY <1>1, <1>2, <1>3, <1>4, <1>6 DEF CadenceTypeOK
<1> QED
  BY <1>1, <1>5, <1>7 DEF EngineInv, Due

LEMMA StepIsDue ==
    ASSUME EngineInv, CadenceNext
    PROVE  /\ EngineInv'
           /\ \/ JumpedOver(def, now') /\ Cardinality(Missed(now')) >= cap
              \/ batch' = Recovered(now')
<1>1. CASE FireOnTime
  <2>1. pending \in Instants /\ now' = pending /\ Fire({pending})
    BY <1>1 DEF FireOnTime
  <2>2. Missed(pending) = {pending} /\ Recovered(pending) = {pending}
    BY <2>1, OnTimeIsDue
  <2>3. EngineInv'
    BY <2>1, <2>2, FireKeepsEngine
  <2>4. batch' = {pending}
    BY <2>1 DEF Fire
  <2> QED
    BY <2>1, <2>2, <2>3, <2>4
<1>2. ASSUME NEW u \in Instants, Recover(u)
      PROVE  /\ EngineInv'
             /\ \/ JumpedOver(def, now') /\ Cardinality(Missed(now')) >= cap
                \/ batch' = Recovered(now')
  <2>1. pending \in Instants /\ u >= now /\ pending < u /\ now' = u /\ Fire(MissedSlots(u))
    BY <1>2 DEF Recover
  <2>2. /\ MissedSlots(u) \in SUBSET Missed(u) /\ MissedSlots(u) # {}
        /\ \/ JumpedOver(def, u) /\ Cardinality(Missed(u)) >= cap
           \/ MissedSlots(u) = Recovered(u)
    BY <2>1, BacklogIsDue
  <2>3. EngineInv'
    BY <2>1, <2>2, FireKeepsEngine
  <2>4. batch' = MissedSlots(u)
    BY <2>1 DEF Fire
  <2> QED
    BY <2>1, <2>2, <2>3, <2>4
<1> QED
  BY <1>1, <1>2 DEF CadenceNext

LEMMA StutterKeepsEngine == EngineInv /\ UNCHANGED cadence => EngineInv'
  BY DEF EngineInv, CadenceTypeOK, cadence, Due

LEMMA NextEngine == EngineInv /\ [ShadowNext]_<<cadence, report>> => EngineInv'
<1> SUFFICES ASSUME EngineInv, [ShadowNext]_<<cadence, report>> PROVE EngineInv'
  OBVIOUS
<1>1. CASE report = {} /\ CadenceNext /\ UNCHANGED report
  BY <1>1, StepIsDue
<1>2. CASE \E source \in OldSchedules, end \in WindowEnds : Verify(source, end)
  <2>1. UNCHANGED cadence
    BY <1>2 DEF Verify
  <2> QED
    BY <2>1, StutterKeepsEngine
<1>3. CASE UNCHANGED <<cadence, report>>
  <2>1. UNCHANGED cadence
    BY <1>3
  <2> QED
    BY <2>1, StutterKeepsEngine
<1> QED
  BY <1>1, <1>2, <1>3 DEF ShadowNext

LEMMA EngineInvariant == ShadowSpec => []EngineInv
<1>1. ShadowInit => EngineInv
  BY InitEngine DEF ShadowInit
<1> QED
  BY <1>1, NextEngine, PTL DEF ShadowSpec

\* The variables of the engine and of its calculators keep their types.
THEOREM CadenceTypeCorrect == ShadowSpec => []CadenceTypeOK
<1>1. EngineInv => CadenceTypeOK
  BY DEF EngineInv
<1> QED
  BY <1>1, EngineInvariant, PTL

\* next_fire_at is the earliest slot due after last_fire_at, for every cron
\* expression in every zone, every interval, one-shot and solar event: no slot
\* is left out and none comes twice.
THEOREM PendingIsRight == ShadowSpec => []PendingIsTheNextDue
<1>1. EngineInv => PendingIsTheNextDue
  <2> SUFFICES ASSUME EngineInv PROVE PendingIsTheNextDue
    OBVIOUS
  <2>1. IsNext(pending, Rest(def, anchor, last))
    BY EngineFacts
  <2> QED
    BY <2>1 DEF IsNext, Rest, PendingIsTheNextDue, Due
<1> QED
  BY <1>1, EngineInvariant, PTL

\* What _compute_missed_cron_slots and its mirrors recover after an outage of
\* any length are the latest slots due in it, each once, up to the cap.
THEOREM BacklogIsRight == ShadowSpec => BacklogIsWhatWasDue
<1>1. EngineInv /\ [ShadowNext]_<<cadence, report>> =>
         [\/ JumpedOver(def, now') /\ Cardinality(Missed(now')) >= cap
          \/ batch' = Recovered(now')]_cadence
  <2> SUFFICES ASSUME EngineInv, [ShadowNext]_<<cadence, report>>, ~UNCHANGED cadence
               PROVE  \/ JumpedOver(def, now') /\ Cardinality(Missed(now')) >= cap
                      \/ batch' = Recovered(now')
    OBVIOUS
  <2>1. CadenceNext
    BY DEF ShadowNext, Verify
  <2> QED
    BY <2>1, StepIsDue
<1> QED
  BY <1>1, EngineInvariant, PTL DEF ShadowSpec, BacklogIsWhatWasDue

-----------------------------------------------------------------------------
(* The comparison of two schedules *)

LEMMA KindTells ==
    ASSUME NEW d \in Definitions
    PROVE  /\ d.kind = "cron" => d \in CronDefs
           /\ d.kind = "one_shot" => d \in OneShotDefs
           /\ d.kind = "solar" => d \in SolarDefs
           /\ d.kind \in {"cron", "interval", "one_shot", "solar"}
  BY CronFacts, IntervalFacts, SolarFacts DEF Definitions, OneShotDefs

\* Away from an end that is shown twice, the wall clocks tell what is past.
LEMMA PastIsPast ==
    ASSUME NEW d \in CronDefs, NEW e \in Nat, ~Repeated(d, e), NEW t \in Nat
    PROVE  Local(d.zone, t) > Local(d.zone, e) <=> t > e
<1>1. PICK T \in Nat, B \in Nat, A \in Nat :
          /\ d.zone.turn = T /\ d.zone.before = B /\ d.zone.after = A
          /\ \/ A = B
             \/ A = B + Shift
             \/ B = A + Shift
  BY CronFacts, ZoneFacts
<1>2. Shift \in Nat
  BY NumbersAssumption
<1>3. \A x \in Int : Local(d.zone, x) = x + (IF x < T THEN B ELSE A)
  BY <1>1 DEF Local, Offset
<1>4. ASSUME NEW x \in e - Shift..e + Shift, x # e PROVE Local(d.zone, x) # Local(d.zone, e)
  BY <1>4, CronFacts DEF Repeated
<1>5. CASE B = A + Shift /\ e < T /\ T <= t
  <2>1. CASE e + Shift >= T
    <3>1. e + Shift \in e - Shift..e + Shift /\ e + Shift # e /\ e + Shift \in Int
      BY <2>1, <1>2, <1>5
    <3>2. Local(d.zone, e + Shift) = (e + Shift) + A /\ Local(d.zone, e) = e + B
      BY <3>1, <2>1, <1>3, <1>5
    <3>3. (e + Shift) + A = e + B
      BY <1>2, <1>5
    <3> QED
      BY <3>1, <3>2, <3>3, <1>4
  <2>2. CASE e + Shift < T
    <3>1. Local(d.zone, t) = t + A /\ Local(d.zone, e) = e + B
      BY <1>3, <1>5
    <3> QED
      BY <3>1, <2>2, <1>2, <1>5
  <2> QED
    BY <2>1, <2>2, <1>2
<1>6. CASE B = A + Shift /\ t < T /\ T <= e
  <2>1. CASE e - Shift < T
    <3>1. e - Shift \in e - Shift..e + Shift /\ e - Shift # e /\ e - Shift \in Int
      BY <2>1, <1>2, <1>6
    <3>2. Local(d.zone, e - Shift) = (e - Shift) + B /\ Local(d.zone, e) = e + A
      BY <3>1, <2>1, <1>3, <1>6
    <3>3. (e - Shift) + B = e + A
      BY <1>2, <1>6
    <3> QED
      BY <3>1, <3>2, <3>3, <1>4
  <2>2. CASE e - Shift >= T
    <3>1. Local(d.zone, t) = t + B /\ Local(d.zone, e) = e + A
      BY <1>3, <1>6
    <3> QED
      BY <3>1, <2>2, <1>2, <1>6
  <2> QED
    BY <2>1, <2>2, <1>2
<1>7. CASE ~(B = A + Shift /\ e < T /\ T <= t) /\ ~(B = A + Shift /\ t < T /\ T <= e)
  BY <1>1, <1>2, <1>3, <1>7
<1> QED
  BY <1>5, <1>6, <1>7

\* What a definition fires in (a, e].
FiresIn(d, a, e) == {t \in Matching(d, a) : a < t /\ t <= e}

LEMMA CronIsPredicted ==
    ASSUME NEW d \in CronDefs, NEW a \in Instants, NEW e \in Instants, ~Repeated(d, e)
    PROVE  PredictCron(d, a, e) = FiresIn(d, a, e)
<1>1. a \in Nat /\ e \in Nat /\ e <= Horizon /\ Horizon \in Nat
  BY DaysFacts DEF Instants
<1>2. PICK T \in Nat : d.zone.turn = T
  BY CronFacts, ZoneFacts
<1>3. Ahead(d, a) \in SUBSET Nat
  <2>1. \A t \in a + 1..Horizon : t \in Nat
    BY <1>1
  <2>2. \A g \in GapOf(d) : InstantOf(d.zone, g) \in Nat
    BY GapInstant
  <2> QED
    BY <2>1, <2>2 DEF Ahead, GapOf
<1>4. PredictCron(d, a, e) = {t \in Ahead(d, a) : \A u \in Ahead(d, a) : u <= t => ~(u > e)}
  <2>1. \A u \in Ahead(d, a) : Local(d.zone, u) > Local(d.zone, e) <=> u > e
    BY <1>1, <1>3, PastIsPast
  <2> QED
    BY <2>1 DEF PredictCron
<1>5. PredictCron(d, a, e) = {t \in Ahead(d, a) : t <= e}
  <2>1. \A t \in Ahead(d, a) : (\A u \in Ahead(d, a) : u <= t => ~(u > e)) <=> t <= e
    BY <1>1, <1>3
  <2> QED
    BY <2>1, <1>4
<1>6. FiresIn(d, a, e) = {t \in Ahead(d, a) : t <= e}
  <2>1. ASSUME NEW t \in FiresIn(d, a, e) PROVE t \in Ahead(d, a) /\ t <= e
    <3>1. t \in Matching(d, a) /\ a < t /\ t <= e
      BY DEF FiresIn
    <3>2. CASE t \in Instants /\ Local(d.zone, t) \in d.local
      <4>1. t \in a + 1..Horizon
        BY <3>1, <3>2, <1>1 DEF Instants
      <4> QED
        BY <4>1, <3>1, <3>2 DEF Ahead
    <3>3. CASE t \in {InstantOf(d.zone, w) : w \in {v \in Gap(d.zone) \cap d.local : a < d.zone.turn}}
      BY <3>1, <3>3 DEF Ahead
    <3> QED
      BY <3>1, <3>2, <3>3, CronFacts DEF Matching
  <2>2. ASSUME NEW t \in Ahead(d, a), t <= e PROVE t \in FiresIn(d, a, e)
    <3>1. CASE t \in a + 1..Horizon /\ Local(d.zone, t) \in d.local
      <4>1. t \in Instants /\ a < t
        BY <3>1, <1>1 DEF Instants
      <4> QED
        BY <4>1, <3>1, <2>2, CronFacts DEF FiresIn, Matching
    <3>2. CASE t \in {InstantOf(d.zone, w) : w \in {v \in Gap(d.zone) \cap d.local : a < d.zone.turn}}
      <4>1. PICK g \in GapOf(d) : t = InstantOf(d.zone, g) /\ a < T
        BY <3>2, <1>2 DEF GapOf
      <4>2. a < t
        BY <4>1, <1>1, <1>2, GapInstant
      <4> QED
        BY <4>2, <3>2, <2>2, CronFacts DEF FiresIn, Matching
    <3> QED
      BY <3>1, <3>2 DEF Ahead
  <2>3. FiresIn(d, a, e) \subseteq {t \in Ahead(d, a) : t <= e}
    BY <2>1
  <2> QED
    BY <2>2, <2>3
<1> QED
  BY <1>5, <1>6

LEMMA SolarIsPredicted ==
    ASSUME NEW d \in SolarDefs, NEW a \in Instants, NEW e \in Instants
    PROVE  PredictSolar(d, a, e) = FiresIn(d, a, e)
<1>1. PICK m \in Nat : m = Cardinality(Days)
  <2>1. Cardinality(Days) = Horizon \div DayLength + 1
    BY EventsAreCounted
  <2>2. PICK h \in Nat : h = Horizon \div DayLength
    BY DaysFacts
  <2>3. h + 1 \in Nat
    OBVIOUS
  <2> QED
    BY <2>1, <2>2, <2>3
<1>2. {SolarWalk(d, a, e, m)[n] : n \in 1..m} \ {None} = EventsIn(d, a, e)
  BY <1>1, ScanFindsAll
<1>3. Matching(d, a) = Events(d)
  BY SolarFacts DEF Matching, Events
<1> QED
  BY <1>1, <1>2, <1>3 DEF PredictSolar, EventsIn, FiresIn

LEMMA OneShotIsPredicted ==
    ASSUME NEW d \in OneShotDefs, NEW a \in Instants, NEW e \in Instants, d.at # a
    PROVE  PredictOneShot(d, a, e) = FiresIn(d, a, e)
<1>1. d.kind = "one_shot" /\ d.at \in Nat /\ a \in Nat /\ e \in Nat
  BY DaysFacts DEF OneShotDefs
<1>2. Matching(d, a) = {d.at}
  BY <1>1 DEF Matching
<1>3. PICK x \in Nat : x = d.at /\ x # a
  BY <1>1
<1>4. x \in a..e <=> a < x /\ x <= e
  BY <1>1, <1>3
<1> QED
  BY <1>2, <1>3, <1>4 DEF PredictOneShot, FiresIn

\* Two sets of fires that each have one payload diverge unless they are equal.
FiresOf(p, X) == [payload : {p}, time : X]

\* The times of the fires of G that H has none at.
Only(G, H) == {f.time : f \in {g \in G : {f \in H : f.time = g.time} = {}}}

TimesOf(G) == {f.time : f \in G}

LEMMA OnlyMeans ==
    ASSUME NEW G, NEW H
    PROVE  Only(G, H) = {} <=> TimesOf(G) \subseteq TimesOf(H)
<1>1. ASSUME TimesOf(G) \subseteq TimesOf(H) PROVE Only(G, H) = {}
  <2>1. ASSUME NEW g \in G PROVE {f \in H : f.time = g.time} # {}
    <3>1. g.time \in TimesOf(H)
      BY <1>1 DEF TimesOf
    <3>2. PICK f \in H : f.time = g.time
      BY <3>1 DEF TimesOf
    <3> QED
      BY <3>2
  <2> QED
    BY <2>1 DEF Only
<1>2. ASSUME Only(G, H) = {}, NEW t \in TimesOf(G) PROVE t \in TimesOf(H)
  <2>1. PICK g \in G : g.time = t
    BY DEF TimesOf
  <2>2. {f \in H : f.time = g.time} # {}
    <3> SUFFICES ASSUME {f \in H : f.time = g.time} = {} PROVE FALSE
      OBVIOUS
    <3>1. g.time \in Only(G, H)
      BY DEF Only
    <3> QED
      BY <3>1, <1>2
  <2>3. PICK f \in H : f.time = g.time
    BY <2>2
  <2> QED
    BY <2>1, <2>3 DEF TimesOf
<1> QED
  BY <1>1, <1>2

LEMMA DivergencesTell ==
    ASSUME NEW p, NEW q, NEW X, NEW Y
    PROVE  Divergences(FiresOf(p, X), FiresOf(q, Y)) = {} <=> FiresOf(p, X) = FiresOf(q, Y)
<1> DEFINE S == FiresOf(p, X)
           R == FiresOf(q, Y)
<1>1. \A f \in S : f.time \in X /\ f.payload = p
  BY DEF FiresOf
<1>2. \A f \in R : f.time \in Y /\ f.payload = q
  BY DEF FiresOf
<1>3. \A t \in X : \E f \in S : f.time = t
  <2>1. ASSUME NEW t \in X PROVE \E f \in S : f.time = t
    <3>1. [payload |-> p, time |-> t] \in S
      BY DEF FiresOf
    <3> QED
      BY <3>1
  <2> QED
    BY <2>1
<1>4. \A t \in Y : \E f \in R : f.time = t
  <2>1. ASSUME NEW t \in Y PROVE \E f \in R : f.time = t
    <3>1. [payload |-> q, time |-> t] \in R
      BY DEF FiresOf
    <3> QED
      BY <3>1
  <2> QED
    BY <2>1
<1> DEFINE Differ == {f.time : f \in {g \in S : \E h \in {f \in R : f.time = g.time} : g.payload # h.payload}}
<1>5. Divergences(S, R) = [kind : {"only_source"}, time : Only(S, R)] \cup
                          [kind : {"only_target"}, time : Only(R, S)] \cup
                          [kind : {"args_diverge"}, time : Differ]
  BY DEF Divergences, Only
<1>6. ASSUME NEW k, NEW Z PROVE [kind : {k}, time : Z] = {} <=> Z = {}
  <2>1. ASSUME NEW z \in Z PROVE [kind |-> k, time |-> z] \in [kind : {k}, time : Z]
    OBVIOUS
  <2>2. ASSUME NEW f \in [kind : {k}, time : Z] PROVE f.time \in Z
    OBVIOUS
  <2> QED
    BY <2>1, <2>2
<1>7. Divergences(S, R) = {} <=> Only(S, R) = {} /\ Only(R, S) = {} /\ Differ = {}
  <2> DEFINE OnlyS == [kind : {"only_source"}, time : Only(S, R)]
             OnlyR == [kind : {"only_target"}, time : Only(R, S)]
             Args == [kind : {"args_diverge"}, time : Differ]
  <2>1. OnlyS = {} <=> Only(S, R) = {}
    BY <1>6
  <2>2. OnlyR = {} <=> Only(R, S) = {}
    BY <1>6
  <2>3. Args = {} <=> Differ = {}
    BY <1>6
  <2>4. Divergences(S, R) = OnlyS \cup OnlyR \cup Args
    BY <1>5
  <2> HIDE DEF Differ, S, R, OnlyS, OnlyR, Args
  <2>5. Divergences(S, R) = {} <=> OnlyS = {} /\ OnlyR = {} /\ Args = {}
    BY <2>4
  <2> QED
    BY <2>1, <2>2, <2>3, <2>5
<1> HIDE DEF S, R
<1>8. TimesOf(S) = X /\ TimesOf(R) = Y
  <2>1. \A t : t \in TimesOf(S) <=> t \in X
    BY <1>1, <1>3 DEF TimesOf
  <2>2. \A t : t \in TimesOf(R) <=> t \in Y
    BY <1>2, <1>4 DEF TimesOf
  <2> QED
    BY <2>1, <2>2
<1>9. /\ Only(S, R) = {} <=> X \subseteq Y
      /\ Only(R, S) = {} <=> Y \subseteq X
  <2>1. Only(S, R) = {} <=> TimesOf(S) \subseteq TimesOf(R)
    BY OnlyMeans
  <2>2. Only(R, S) = {} <=> TimesOf(R) \subseteq TimesOf(S)
    BY OnlyMeans
  <2> QED
    BY <2>1, <2>2, <1>8
<1>10. Differ = {} <=> p = q \/ X \cap Y = {}
  <2>1. Differ = {} <=> \A g \in S, h \in R : h.time = g.time => g.payload = h.payload
    OBVIOUS
  <2> HIDE DEF Differ
  <2>2. ASSUME Differ = {}, NEW t \in X \cap Y PROVE p = q
    <3>1. PICK g \in S, h \in R : g.time = t /\ h.time = t
      BY <1>3, <1>4
    <3> QED
      BY <3>1, <2>1, <2>2, <1>1, <1>2
  <2>3. ASSUME p = q PROVE Differ = {}
    BY <2>1, <2>3, <1>1, <1>2
  <2>4. ASSUME X \cap Y = {} PROVE Differ = {}
    BY <2>1, <2>4, <1>1, <1>2
  <2> QED
    BY <2>2, <2>3, <2>4
<1>11. S = R <=> X = Y /\ (p = q \/ X = {})
  <2>1. ASSUME X = {}, Y = {} PROVE S = R
    BY <2>1, <1>1, <1>2
  <2>2. ASSUME S = R PROVE X = Y
    <3>1. \A t \in X : t \in Y
      BY <2>2, <1>2, <1>3
    <3>2. \A t \in Y : t \in X
      BY <2>2, <1>1, <1>4
    <3> QED
      BY <3>1, <3>2
  <2>3. ASSUME S = R, NEW t \in X PROVE p = q
    BY <2>3, <1>1, <1>2, <1>3
  <2>4. ASSUME X = Y, p = q PROVE S = R
    BY <2>4 DEF S, R
  <2> QED
    BY <2>1, <2>2, <2>3, <2>4
<1> HIDE DEF Differ, S, R
<1>12. Divergences(S, R) = {} <=> S = R
  BY <1>7, <1>9, <1>10, <1>11
<1> QED
  BY <1>12 DEF S, R

LEMMA SourceFacts ==
    ASSUME def \in Definitions, NEW s \in OldSchedules \cup {Target}
    PROVE  /\ def.kind = "cron" => s.def \in CronDefs
           /\ def.kind = "one_shot" => s.def \in OneShotDefs
           /\ def.kind = "solar" => s.def \in SolarDefs
<1>1. CASE s.def = def
  BY <1>1, KindTells
<1>2. CASE s.def # def
  <2> DEFINE Others ==
        CASE def.kind = "cron" ->
                {c \in {[def EXCEPT !.zone = z] : z \in Zones} \cup
                       {[def EXCEPT !.local = def.local \cup {w}] : w \in LocalTimes} \cup
                       {[def EXCEPT !.local = def.local \ {w}] : w \in LocalTimes} : c \in CronDefs}
          [] def.kind = "interval" -> IntervalDefs
          [] def.kind = "one_shot" -> OneShotDefs
          [] def.kind = "solar" ->
                {e \in {[def EXCEPT !.event[n] = t] : n \in Days, t \in {None} \cup Instants} :
                    e \in SolarDefs}
  <2>1. def.kind = "cron" => Others \subseteq CronDefs
    OBVIOUS
  <2>2. def.kind = "one_shot" => Others \subseteq OneShotDefs
    OBVIOUS
  <2>3. def.kind = "solar" => Others \subseteq SolarDefs
    OBVIOUS
  <2>4. OldSchedules = {[enabled |-> TRUE, def |-> def, payload |-> p] : p \in Payloads} \cup
                  {[enabled |-> FALSE, def |-> def, payload |-> "kept"]} \cup
                  {[enabled |-> TRUE, def |-> d, payload |-> "kept"] : d \in Others}
    BY DEF OldSchedules
  <2> HIDE DEF Others
  <2>5. s \notin {Target}
    BY <1>2 DEF Target
  <2>6. s.def \in Others
    BY <2>4, <2>5, <1>2
  <2> QED
    BY <2>1, <2>2, <2>3, <2>6
<1> QED
  BY <1>1, <1>2

LEMMA PredictedIsFired ==
    ASSUME EngineInv, last = None, NEW s \in OldSchedules \cup {Target}, NEW e \in WindowEnds,
           def.kind # "interval", ~Repeated(s.def, e),
           def.kind = "one_shot" => now # s.def.at
    PROVE  /\ PredictFires(s, now, e) = Fires(s, e)
           /\ \E X : Fires(s, e) = FiresOf(s.payload, X)
<1>1. def \in Definitions /\ anchor \in Instants /\ now = anchor
  BY EngineFacts DEF EngineInv
<1>2. e \in Instants /\ e \in Nat
  BY WindowAssumption, DaysFacts DEF Instants
<1>3. Fires(s, e) = FiresOf(s.payload, IF s.enabled THEN FiresIn(s.def, now, e) ELSE {})
  BY <1>1 DEF Fires, FiresOf, FiresIn
<1> DEFINE P == CASE s.def.kind = "cron" -> PredictCron(s.def, now, e)
                  [] s.def.kind = "interval" -> PredictInterval(s.def, now, e)
                  [] s.def.kind = "one_shot" -> PredictOneShot(s.def, now, e)
                  [] s.def.kind = "solar" -> PredictSolar(s.def, now, e)
<1>4. PredictFires(s, now, e) = FiresOf(s.payload, IF ~s.enabled THEN {} ELSE P)
  BY DEF PredictFires, FiresOf
<1>5. P = FiresIn(s.def, now, e)
  <2>1. CASE def.kind = "cron"
    <3>1. s.def \in CronDefs /\ s.def.kind = "cron"
      BY <2>1, <1>1, SourceFacts, CronFacts
    <3>2. P = PredictCron(s.def, now, e)
      BY <3>1
    <3> QED
      BY <3>1, <3>2, <1>1, <1>2, CronIsPredicted
  <2>2. CASE def.kind = "one_shot"
    <3>1. s.def \in OneShotDefs /\ s.def.kind = "one_shot"
      BY <2>2, <1>1, SourceFacts DEF OneShotDefs
    <3>2. P = PredictOneShot(s.def, now, e)
      BY <3>1
    <3> QED
      BY <3>1, <3>2, <2>2, <1>1, <1>2, OneShotIsPredicted
  <2>3. CASE def.kind = "solar"
    <3>1. s.def \in SolarDefs /\ s.def.kind = "solar"
      BY <2>3, <1>1, SourceFacts, SolarFacts
    <3>2. P = PredictSolar(s.def, now, e)
      BY <3>1
    <3> QED
      BY <3>1, <3>2, <1>1, <1>2, SolarIsPredicted
  <2> QED
    BY <2>1, <2>2, <2>3, <1>1, KindTells
<1> HIDE DEF P
<1> QED
  BY <1>3, <1>4, <1>5

\* A judgement and what a definition fires depend on the engine alone.
LEMMA SameEngineSameFires ==
    ASSUME def' = def, anchor' = anchor, now' = now, NEW q
    PROVE  /\ Judged(q)' = Judged(q)
           /\ Fires(q.source, q.end)' = Fires(q.source, q.end)
           /\ Fires(q.target, q.end)' = Fires(q.target, q.end)
<1>1. Judged(q)' = Judged(q)
  BY DEF Judged
<1> QED
  BY <1>1 DEF Fires

LEMMA ReportIsRight ==
    ASSUME EngineInv, NEW source \in OldSchedules, NEW end \in WindowEnds, Verify(source, end)
    PROVE  ReportIsTruthful'
<1> SUFFICES ASSUME NEW q \in report', Judged(q)'
             PROVE  (q.ok <=> Fires(q.source, q.end) = Fires(q.target, q.end))'
  BY DEF ReportIsTruthful
<1> DEFINE Ok == Divergences(PredictFires(source, now, end), PredictFires(Target, now, end)) = {}
<1>1. /\ last = None /\ UNCHANGED cadence
      /\ q = [ok |-> Ok, source |-> source, target |-> Target, end |-> end]
  BY DEF Verify
<1> HIDE DEF Ok
<1>2. def' = def /\ anchor' = anchor /\ now' = now
  BY <1>1 DEF cadence
<1>3. q.source = source /\ q.target = Target /\ q.end = end /\ q.ok = Ok
  BY <1>1
<1>4. /\ def.kind # "interval"
      /\ ~Repeated(source.def, end) /\ ~Repeated(Target.def, end)
      /\ def.kind = "one_shot" => now # source.def.at /\ now # Target.def.at
  <2>1. Judged(q)
    BY <1>2, SameEngineSameFires
  <2> QED
    BY <2>1, <1>3 DEF Judged
<1>5. /\ PredictFires(source, now, end) = Fires(source, end)
      /\ \E X : Fires(source, end) = FiresOf(source.payload, X)
  BY <1>1, <1>4, PredictedIsFired
<1>6. /\ PredictFires(Target, now, end) = Fires(Target, end)
      /\ \E X : Fires(Target, end) = FiresOf(Target.payload, X)
  BY <1>1, <1>4, PredictedIsFired
<1>7. PICK X : Fires(source, end) = FiresOf(source.payload, X)
  BY <1>5
<1>8. PICK Y : Fires(Target, end) = FiresOf(Target.payload, Y)
  BY <1>6
<1>9. Divergences(FiresOf(source.payload, X), FiresOf(Target.payload, Y)) = {} <=>
         FiresOf(source.payload, X) = FiresOf(Target.payload, Y)
  BY DivergencesTell
<1>10. Ok <=> Fires(source, end) = Fires(Target, end)
  BY <1>5, <1>6, <1>7, <1>8, <1>9 DEF Ok
<1>11. q.ok <=> Fires(q.source, q.end) = Fires(q.target, q.end)
  BY <1>3, <1>10
<1> QED
  BY <1>2, <1>11, SameEngineSameFires

\* The go/no-go answer of compare_predicted_fires is right for every two
\* schedules it can tell about, whatever they differ in.
THEOREM ReportIsTrue == ShadowSpec => []ReportIsTruthful
<1>1. ShadowInit => ReportIsTruthful
  BY DEF ShadowInit, ReportIsTruthful
<1>2. EngineInv /\ ReportIsTruthful /\ [ShadowNext]_<<cadence, report>> => ReportIsTruthful'
  <2> SUFFICES ASSUME EngineInv, ReportIsTruthful, [ShadowNext]_<<cadence, report>>
               PROVE  ReportIsTruthful'
    OBVIOUS
  <2>1. CASE report = {} /\ CadenceNext /\ UNCHANGED report
    BY <2>1 DEF ReportIsTruthful
  <2>2. CASE \E source \in OldSchedules, end \in WindowEnds : Verify(source, end)
    BY <2>2, ReportIsRight
  <2>3. CASE UNCHANGED <<cadence, report>>
    <3>1. def' = def /\ anchor' = anchor /\ now' = now /\ report' = report
      BY <2>3 DEF cadence
    <3> SUFFICES ASSUME NEW q \in report', Judged(q)'
                 PROVE  (q.ok <=> Fires(q.source, q.end) = Fires(q.target, q.end))'
      BY DEF ReportIsTruthful
    <3>2. q \in report /\ Judged(q)
      BY <3>1, SameEngineSameFires
    <3>3. q.ok <=> Fires(q.source, q.end) = Fires(q.target, q.end)
      BY <3>2 DEF ReportIsTruthful
    <3> QED
      BY <3>1, <3>3, SameEngineSameFires
  <2> QED
    BY <2>1, <2>2, <2>3 DEF ShadowNext
<1> QED
  BY <1>1, <1>2, EngineInvariant, PTL DEF ShadowSpec

-----------------------------------------------------------------------------
(* Types *)

Phases == {"idle", "sent", "adrift", "landed", "done", "failed"}
Kinds == Batches \cup {"none", "edit", "add"}
Keys == Schedulers \X Names
NameOrNone == Names \cup {"none"}
DictOrNone == Dicts \cup {<< >>}

ClientState ==
    [pc : Phases, kind : Kinds, source : Sources, dict : DictOrNone, scheduler : Schedulers,
     name : NameOrNone, id : 0..MaxWrites + 1, spec : Specs, refused : SUBSET Names,
     crossed : SUBSET Keys]

LEMMA DictFacts ==
    ASSUME NEW dict \in DictOrNone
    PROVE  /\ DOMAIN dict \in SUBSET Names
           /\ \A n \in DOMAIN dict : dict[n] \in Specs
<1>1. CASE dict \in Dicts
  <2>1. PICK N \in SUBSET Names : dict \in [N -> {"on", "off"}]
    BY <1>1, LabelsAssumption
  <2> QED
    BY <2>1 DEF Specs
<1>2. CASE dict = << >>
  <2>1. DOMAIN dict = {}
    BY <1>2
  <2> QED
    BY <2>1
<1> QED
  BY <1>1, <1>2 DEF DictOrNone

LEMMA IdleIsTyped ==
    /\ Idle \in ClientState /\ Done \in ClientState /\ Failed \in ClientState
    /\ Idle.pc = "idle" /\ Done.pc = "done" /\ Failed.pc = "failed"
    /\ Idle.kind = "none" /\ Done.kind = "none" /\ Failed.kind = "none"
    /\ Idle.scheduler = Own
<1>1. Idle \in ClientState
  BY LabelsAssumption DEF Idle, ClientState, Phases, Kinds, Sources, Schedulers, DictOrNone,
     NameOrNone, Specs
<1>2. Idle.pc = "idle" /\ Idle.kind = "none" /\ Idle.scheduler = Own
  BY DEF Idle
<1> HIDE DEF Idle
<1>3. Done \in ClientState /\ Done.pc = "done" /\ Done.kind = "none"
  BY <1>1, <1>2 DEF Done, ClientState, Phases
<1>4. Failed \in ClientState /\ Failed.pc = "failed" /\ Failed.kind = "none"
  BY <1>1, <1>2 DEF Failed, ClientState, Phases
<1> QED
  BY <1>1, <1>2, <1>3, <1>4

-----------------------------------------------------------------------------
(* The invariant *)

\* The hash is that of what the row says, unless an edit left it as it was.
Honest(row) == row.edited \/ row.hash \in {NoHash, ComputeHash(row.spec)}

TableOK(t) ==
    /\ t \in [Schedulers -> [Names -> Row]]
    /\ \A s \in Schedulers, n \in Names : Honest(t[s][n])

\* A command by name has a schedule to change.
Named(r) ==
    /\ r.kind \in {"edit", "add"} => r.name \in Names
    /\ r.kind = "edit" => r.id # 0
    /\ r.kind = "add" => r.scheduler = Own

\* What a batch leaves of the schedules that nothing else wrote since.
BatchSettled(t, r) ==
    \A n \in Names : <<Own, n>> \notin r.crossed =>
        /\ n \in DOMAIN r.dict \ r.refused => LeftAs(t[Own][n], r.dict[n])
        /\ r.kind = "reconcile" /\ n \notin DOMAIN r.dict =>
              ~Exists(t[Own][n]) \/ t[Own][n].source # r.source

\* What an edit and an addition leave.
NameSettled(t, r) ==
    <<r.scheduler, r.name>> \notin r.crossed =>
        LET row == t[r.scheduler][r.name] IN
           Exists(row) /\ row.id = r.id /\ row.spec = r.spec

Settled(t, r) ==
    r.pc = "landed" =>
        /\ r.kind \in Batches => BatchSettled(t, r)
        /\ r.kind \in {"edit", "add"} => NameSettled(t, r)

Sound(t, r) == r \in ClientState /\ Named(r) /\ Settled(t, r)

DeclaredInv ==
    /\ release \in Releases
    /\ TableOK(table)
    /\ writes \in 0..MaxWrites
    /\ client \in [Clients -> ClientState]
    /\ \A c \in Clients : Sound(table, client[c])

LEMMA EndsAreSound ==
    ASSUME NEW t
    PROVE  Sound(t, Idle) /\ Sound(t, Done) /\ Sound(t, Failed)
  BY IdleIsTyped DEF Sound, Settled, Named, Batches

LEMMA ConcernsAreKeys ==
    ASSUME NEW r \in ClientState, Named(r), r.kind # "none"
    PROVE  Concerns(r) \in SUBSET Keys /\ About(r) \in SUBSET Keys
<1>1. r.scheduler \in Schedulers /\ r.kind \in Kinds
  BY DEF ClientState
<1>2. Concerns(r) \in SUBSET Keys
  <2>1. CASE r.kind \in Batches
    BY <2>1 DEF Concerns, Keys, Schedulers
  <2>2. CASE r.kind \in {"edit", "add"}
    <3>1. r.name \in Names /\ r.kind \notin Batches
      BY <2>2 DEF Named, Batches
    <3> QED
      BY <1>1, <3>1 DEF Concerns, Keys
  <2> QED
    BY <1>1, <2>1, <2>2 DEF Kinds
<1> QED
  BY <1>2 DEF About

\* Where two tables say the same.
Same(t, u, keys) == \A s \in Schedulers, n \in Names : <<s, n>> \notin keys => u[s][n] = t[s][n]

LEMMA CrossedMeans ==
    ASSUME NEW r \in ClientState, NEW keys \in SUBSET Keys
    PROVE  /\ Crossed(r, keys) \in ClientState
           /\ Crossed(r, keys).pc = r.pc /\ Crossed(r, keys).kind = r.kind
           /\ Crossed(r, keys).source = r.source /\ Crossed(r, keys).dict = r.dict
           /\ Crossed(r, keys).scheduler = r.scheduler /\ Crossed(r, keys).name = r.name
           /\ Crossed(r, keys).id = r.id /\ Crossed(r, keys).spec = r.spec
           /\ Crossed(r, keys).refused = r.refused
           /\ r.pc = "landed" => Crossed(r, keys).crossed = r.crossed \cup (keys \cap Concerns(r))
<1> DEFINE all == r.crossed \cup (keys \cap Concerns(r))
<1>1. all \in SUBSET Keys
  BY DEF ClientState
<1>2. Crossed(r, keys) = IF r.pc = "landed" THEN [r EXCEPT !.crossed = all] ELSE r
  BY DEF Crossed
<1> HIDE DEF all
<1>3. CASE r.pc = "landed"
  <2>1. Crossed(r, keys) = [r EXCEPT !.crossed = all]
    BY <1>2, <1>3
  <2>2. Crossed(r, keys).crossed = all
    BY <2>1 DEF ClientState
  <2>3. /\ Crossed(r, keys) \in ClientState
        /\ Crossed(r, keys).pc = r.pc /\ Crossed(r, keys).kind = r.kind
        /\ Crossed(r, keys).source = r.source /\ Crossed(r, keys).dict = r.dict
        /\ Crossed(r, keys).scheduler = r.scheduler /\ Crossed(r, keys).name = r.name
        /\ Crossed(r, keys).id = r.id /\ Crossed(r, keys).spec = r.spec
        /\ Crossed(r, keys).refused = r.refused
    BY <1>1, <2>1 DEF ClientState
  <2> QED
    BY <2>2, <2>3 DEF all
<1>4. CASE r.pc # "landed"
  BY <1>2, <1>4
<1> QED
  BY <1>3, <1>4

\* What a client was told of stays, where nothing else is written.
LEMMA CrossedIsSound ==
    ASSUME NEW t, NEW u, NEW r, Sound(t, r), NEW keys \in SUBSET Keys, Same(t, u, keys)
    PROVE  Sound(u, Crossed(r, keys))
<1> DEFINE x == Crossed(r, keys)
<1>1. r \in ClientState /\ Named(r) /\ Settled(t, r)
  BY DEF Sound
<1>2. /\ x \in ClientState /\ x.pc = r.pc /\ x.kind = r.kind /\ x.source = r.source
      /\ x.dict = r.dict /\ x.scheduler = r.scheduler /\ x.name = r.name /\ x.id = r.id
      /\ x.spec = r.spec /\ x.refused = r.refused
      /\ r.pc = "landed" => x.crossed = r.crossed \cup (keys \cap Concerns(r))
  BY <1>1, CrossedMeans
<1> HIDE DEF x
<1>3. Named(x)
  BY <1>1, <1>2 DEF Named
<1>4. ASSUME r.pc = "landed", r.kind \in Batches PROVE BatchSettled(u, x)
  <2>1. BatchSettled(t, r)
    BY <1>1, <1>4 DEF Settled
  <2>2. ASSUME NEW n \in Names, <<Own, n>> \notin x.crossed
        PROVE  <<Own, n>> \notin r.crossed /\ u[Own][n] = t[Own][n]
    <3>1. <<Own, n>> \in Concerns(r)
      BY <1>4 DEF Concerns
    <3>2. <<Own, n>> \notin r.crossed /\ <<Own, n>> \notin keys
      BY <3>1, <2>2, <1>2, <1>4
    <3> QED
      BY <3>2 DEF Same, Schedulers
  <2> QED
    BY <2>1, <2>2, <1>2 DEF BatchSettled
<1>5. ASSUME r.pc = "landed", r.kind \in {"edit", "add"} PROVE NameSettled(u, x)
  <2>1. NameSettled(t, r) /\ r.name \in Names /\ r.scheduler \in Schedulers
    BY <1>1, <1>5 DEF Settled, Named, ClientState
  <2>2. ASSUME <<x.scheduler, x.name>> \notin x.crossed
        PROVE  <<r.scheduler, r.name>> \notin r.crossed /\ <<r.scheduler, r.name>> \notin keys
    <3>1. <<r.scheduler, r.name>> \in Concerns(r)
      BY <1>5 DEF Concerns, Batches
    <3> QED
      BY <3>1, <2>2, <1>2, <1>5
  <2>3. ASSUME <<x.scheduler, x.name>> \notin x.crossed
        PROVE  u[x.scheduler][x.name] = t[r.scheduler][r.name]
    BY <2>1, <2>2, <2>3, <1>2 DEF Same
  <2> QED
    BY <2>1, <2>2, <2>3, <1>2 DEF NameSettled
<1>6. Settled(u, x)
  BY <1>2, <1>4, <1>5 DEF Settled
<1> QED
  BY <1>2, <1>3, <1>6 DEF Sound, x

-----------------------------------------------------------------------------
(* Steps that write the table, and steps that do not *)

LEMMA StepKeeps ==
    ASSUME DeclaredInv, NEW c \in Clients, NEW x, Moves(c, x), Sound(table, x)
    PROVE  DeclaredInv'
<1>1. x \in ClientState /\ client \in [Clients -> ClientState]
  BY DEF Sound, DeclaredInv
<1>2. /\ client' = [client EXCEPT ![c] = x]
      /\ table' = table /\ writes' = writes /\ release' = release
  BY DEF Moves
<1>3. client' \in [Clients -> ClientState]
  BY <1>1, <1>2
<1>4. \A d \in Clients : client'[d] = IF d = c THEN x ELSE client[d]
  BY <1>1, <1>2
<1>5. \A d \in Clients : Sound(table, client'[d])
  BY <1>4 DEF DeclaredInv
<1> QED
  BY <1>2, <1>3, <1>5 DEF DeclaredInv

LEMMA WriteKeeps ==
    ASSUME DeclaredInv, NEW keys \in SUBSET Keys, Same(table, table', keys), TableOK(table'),
           writes < MaxWrites, writes' = writes + 1, release' = release,
           NEW D \in SUBSET Clients, NEW x, D # {} => Sound(table', x),
           client' = [d \in Clients |-> IF d \in D THEN x ELSE Crossed(client[d], keys)]
    PROVE  DeclaredInv'
<1>1. \A d \in Clients : Sound(table, client[d])
  BY DEF DeclaredInv
<1>2. \A d \in Clients : Sound(table', client'[d])
  BY <1>1, CrossedIsSound
<1>3. client' \in [Clients -> ClientState]
  <2>1. \A d \in Clients : client'[d] \in ClientState
    BY <1>2 DEF Sound
  <2> QED
    BY <2>1
<1>4. writes' \in 0..MaxWrites /\ release' \in Releases
  BY LabelsAssumption DEF DeclaredInv
<1> QED
  BY <1>2, <1>3, <1>4 DEF DeclaredInv

\* A request that is executed.
LEMMA LandingKeeps ==
    ASSUME DeclaredInv, NEW c \in Clients, client[c].kind # "none",
           NEW x, Sound(table', x), LandsFrom(c, x),
           Same(table, table', About(client[c])), TableOK(table'),
           writes < MaxWrites, writes' = writes + 1, release' = release
    PROVE  DeclaredInv'
<1> DEFINE keys == About(client[c])
           D == {c}
<1>1. keys \in SUBSET Keys
  BY ConcernsAreKeys DEF DeclaredInv, Sound
<1>2. client' = [d \in Clients |-> IF d = c THEN x ELSE Crossed(client[d], keys)]
  BY DEF LandsFrom
<1>3. Same(table, table', keys)
  OBVIOUS
<1> HIDE DEF keys
<1>4. client' = [d \in Clients |-> IF d \in D THEN x ELSE Crossed(client[d], keys)]
  BY <1>2
<1>5. D \in SUBSET Clients
  OBVIOUS
<1> HIDE DEF D
<1> QED
  BY <1>1, <1>3, <1>4, <1>5, WriteKeeps

\* One row of the table, written.
Put(t, s, n, row) == [t EXCEPT ![s][n] = row]

LEMMA PutIsTable ==
    ASSUME NEW t, TableOK(t), NEW s \in Schedulers, NEW n \in Names,
           NEW row \in Row, Honest(row)
    PROVE  /\ TableOK(Put(t, s, n, row))
           /\ Put(t, s, n, row)[s][n] = row
           /\ Same(t, Put(t, s, n, row), {<<s, n>>})
<1> DEFINE u == Put(t, s, n, row)
<1>1. t \in [Schedulers -> [Names -> Row]]
  BY DEF TableOK
<1>2. u \in [Schedulers -> [Names -> Row]]
  BY <1>1 DEF Put
<1>3. \A q \in Schedulers, m \in Names : u[q][m] = IF q = s /\ m = n THEN row ELSE t[q][m]
  BY <1>1 DEF Put
<1> HIDE DEF u
<1>4. TableOK(u)
  BY <1>2, <1>3 DEF TableOK
<1>5. Same(t, u, {<<s, n>>})
  BY <1>3 DEF Same
<1> QED
  BY <1>3, <1>4, <1>5 DEF u

LEMMA EditedFields ==
    ASSUME NEW row \in Row, NEW spec \in Specs, NEW rehash \in BOOLEAN
    PROVE  /\ Edited(row, spec, rehash) \in Row /\ Honest(Edited(row, spec, rehash))
           /\ Edited(row, spec, rehash).id = row.id /\ Edited(row, spec, rehash).spec = spec
<1>1. PICK h \in Specs \cup {NoHash}, e \in BOOLEAN :
          /\ h = IF rehash THEN ComputeHash(spec) ELSE row.hash
          /\ e = ~rehash
  BY DEF ComputeHash, Row
<1>2. Edited(row, spec, rehash) = [row EXCEPT !.spec = spec, !.hash = h, !.edited = e]
  BY <1>1 DEF Edited
<1>3. /\ Edited(row, spec, rehash) \in Row
      /\ Edited(row, spec, rehash).id = row.id /\ Edited(row, spec, rehash).spec = spec
      /\ Edited(row, spec, rehash).hash = h /\ Edited(row, spec, rehash).edited = e
  BY <1>2 DEF Row
<1> QED
  BY <1>1, <1>3 DEF Honest

LEMMA NoRowFields == NoRow \in Row /\ Honest(NoRow) /\ ~Exists(NoRow)
  BY LabelsAssumption DEF NoRow, Row, Specs, Honest, Exists

-----------------------------------------------------------------------------
(* What a batch does *)

\* The row a batch writes, and the names of which it writes one.
Written(b, n, id) ==
    [id |-> id, source |-> b.source, spec |-> b.dict[n], hash |-> ComputeHash(b.dict[n]),
     edited |-> FALSE]
Writes(rows, b, refused, n) ==
    n \in DOMAIN b.dict \ refused /\ ~(Exists(rows[n]) /\ rows[n].hash = ComputeHash(b.dict[n]))
Drops(rows, b, refused, n) ==
    b.kind = "reconcile" /\ n \notin DOMAIN b.dict /\ rows[n].source = b.source
NewId(row) == IF Exists(row) THEN row.id ELSE writes + 2

LEMMA ImportMeans ==
    ASSUME NEW rows, NEW b, NEW refused
    PROVE  /\ \A n \in Names : ImportInto(rows, b, refused)[n] =
                 IF Writes(rows, b, refused, n) THEN Written(b, n, NewId(rows[n]))
                 ELSE IF Drops(rows, b, refused, n) THEN NoRow ELSE rows[n]
           /\ ImportInto(rows, b, refused) = [n \in Names |-> ImportInto(rows, b, refused)[n]]
<1>1. ImportInto(rows, b, refused) =
         [n \in Names |->
            IF n \in DOMAIN b.dict \ refused
               THEN IF Exists(rows[n]) /\ rows[n].hash = ComputeHash(b.dict[n])
                       THEN rows[n] ELSE Written(b, n, NewId(rows[n]))
               ELSE IF Drops(rows, b, refused, n) THEN NoRow ELSE rows[n]]
  BY DEF ImportInto, Written, NewId, Drops
<1>2. \A n \in Names : ImportInto(rows, b, refused)[n] =
            IF n \in DOMAIN b.dict \ refused
               THEN IF Exists(rows[n]) /\ rows[n].hash = ComputeHash(b.dict[n])
                       THEN rows[n] ELSE Written(b, n, NewId(rows[n]))
               ELSE IF Drops(rows, b, refused, n) THEN NoRow ELSE rows[n]
  BY <1>1
<1>3. \A n \in Names : n \in DOMAIN b.dict => ~Drops(rows, b, refused, n)
  BY DEF Drops
<1> QED
  BY <1>1, <1>2, <1>3 DEF Writes

LEMMA WrittenFields ==
    ASSUME NEW b \in ClientState, NEW n \in DOMAIN b.dict, NEW id \in 1..MaxWrites + 1
    PROVE  /\ Written(b, n, id) \in Row /\ Honest(Written(b, n, id))
           /\ LeftAs(Written(b, n, id), b.dict[n]) /\ Written(b, n, id).source = b.source
<1>1. b.source \in Sources /\ b.dict[n] \in Specs
  BY DictFacts DEF ClientState
<1>2. PICK e \in BOOLEAN : e = FALSE
  OBVIOUS
<1>3. Written(b, n, id) = [id |-> id, source |-> b.source, spec |-> b.dict[n],
                           hash |-> b.dict[n], edited |-> e]
  BY <1>2 DEF Written, ComputeHash
<1>4. /\ Written(b, n, id) \in Row
      /\ Written(b, n, id).id = id /\ Written(b, n, id).source = b.source
      /\ Written(b, n, id).spec = b.dict[n] /\ Written(b, n, id).hash = b.dict[n]
  BY <1>1, <1>3, LabelsAssumption DEF Row
<1> QED
  BY <1>4 DEF Honest, ComputeHash, LeftAs, Exists

LEMMA NewIdIsTyped ==
    ASSUME NEW row \in Row, writes \in 0..MaxWrites, writes < MaxWrites
    PROVE  NewId(row) \in 1..MaxWrites + 1
<1>1. row.id \in 0..MaxWrites + 1
  BY DEF Row
<1> QED
  BY <1>1, LabelsAssumption DEF NewId, Exists

\* A row that the batch leaves alone, because its hash is that of the declaration.
LEMMA UnchangedIsLeftAs ==
    ASSUME NEW row \in Row, Honest(row), NEW spec \in Specs, Exists(row), row.hash = ComputeHash(spec)
    PROVE  LeftAs(row, spec)
<1>1. row.hash # NoHash
  BY DEF ComputeHash, Specs, NoHash
<1>2. CASE row.edited
  BY <1>2 DEF LeftAs
<1>3. CASE ~row.edited
  <2>1. row.hash = ComputeHash(row.spec)
    BY <1>1, <1>3 DEF Honest
  <2>2. row.spec = spec
    BY <2>1 DEF ComputeHash
  <2> QED
    BY <2>2 DEF LeftAs
<1> QED
  BY <1>2, <1>3

\* Every schedule after a batch: typed, honest, and as declared.
LEMMA ImportDeclares ==
    ASSUME NEW rows \in [Names -> Row], \A m \in Names : Honest(rows[m]),
           NEW b \in ClientState, NEW refused, writes \in 0..MaxWrites, writes < MaxWrites,
           NEW n \in Names
    PROVE  LET row == ImportInto(rows, b, refused)[n] IN
           /\ row \in Row /\ Honest(row)
           /\ n \in DOMAIN b.dict \ refused => LeftAs(row, b.dict[n])
           /\ b.kind = "reconcile" /\ n \notin DOMAIN b.dict => ~Exists(row) \/ row.source # b.source
<1> DEFINE row == ImportInto(rows, b, refused)[n]
<1>1. row = IF Writes(rows, b, refused, n) THEN Written(b, n, NewId(rows[n]))
            ELSE IF Drops(rows, b, refused, n) THEN NoRow ELSE rows[n]
  BY ImportMeans
<1> HIDE DEF row
<1>2. CASE Writes(rows, b, refused, n)
  <2>1. n \in DOMAIN b.dict
    BY <1>2 DEF Writes
  <2>2. NewId(rows[n]) \in 1..MaxWrites + 1
    BY NewIdIsTyped
  <2> QED
    BY <1>1, <1>2, <2>1, <2>2, WrittenFields DEF row
<1>3. CASE ~Writes(rows, b, refused, n) /\ Drops(rows, b, refused, n)
  <2>1. row = NoRow /\ n \notin DOMAIN b.dict
    BY <1>1, <1>3 DEF Drops
  <2> QED
    BY <2>1, NoRowFields DEF row
<1>4. CASE ~Writes(rows, b, refused, n) /\ ~Drops(rows, b, refused, n)
  <2>1. row = rows[n] /\ row \in Row /\ Honest(row)
    BY <1>1, <1>4
  <2>2. ASSUME n \in DOMAIN b.dict \ refused PROVE LeftAs(row, b.dict[n])
    <3>1. Exists(row) /\ row.hash = ComputeHash(b.dict[n])
      BY <1>4, <2>1, <2>2 DEF Writes
    <3>2. b.dict[n] \in Specs
      BY <2>2, DictFacts DEF ClientState
    <3> QED
      BY <2>1, <3>1, <3>2, UnchangedIsLeftAs
  <2>3. ASSUME b.kind = "reconcile", n \notin DOMAIN b.dict PROVE row.source # b.source
    BY <1>4, <2>1, <2>3 DEF Drops
  <2> QED
    BY <2>1, <2>2, <2>3 DEF row
<1> QED
  BY <1>2, <1>3, <1>4

\* A client whose batch was executed.
Landed(r, refused) == [r EXCEPT !.pc = "landed", !.refused = refused]

LEMMA LandedFields ==
    ASSUME NEW r \in ClientState, NEW refused \in SUBSET Names
    PROVE  /\ Landed(r, refused) \in ClientState /\ Landed(r, refused).pc = "landed"
           /\ Landed(r, refused).kind = r.kind /\ Landed(r, refused).source = r.source
           /\ Landed(r, refused).dict = r.dict /\ Landed(r, refused).refused = refused
  BY DEF Landed, ClientState, Phases

LEMMA BatchLandsKeeps ==
    ASSUME DeclaredInv, NEW c \in Clients, BatchLands(c)
    PROVE  DeclaredInv'
<1> DEFINE r == client[c]
           rows == table[Own]
           y(refused) == IF r.pc = "adrift" THEN Idle ELSE Landed(r, refused)
<1>1. PICK refused \in SUBSET DOMAIN r.dict :
          /\ table' = [table EXCEPT ![Own] = ImportInto(@, r, refused)]
          /\ LandsFrom(c, Told(c, Landed(r, refused)))
  BY Zenon DEF BatchLands, Landed
<1>2. r.kind \in Batches /\ writes < MaxWrites /\ writes' = writes + 1 /\ release' = release
  BY DEF BatchLands
<1>3. r \in ClientState /\ TableOK(table) /\ writes \in 0..MaxWrites
  BY DEF DeclaredInv, Sound
<1>4. /\ table \in [Schedulers -> [Names -> Row]] /\ Own \in Schedulers
      /\ rows \in [Names -> Row] /\ \A m \in Names : Honest(rows[m])
  BY <1>3 DEF TableOK, Schedulers
<1> DEFINE after == ImportInto(rows, r, refused)
<1>5. table' = [table EXCEPT ![Own] = after]
  BY <1>1
<1>6. r.dict \in DictOrNone /\ refused \in SUBSET Names
  <2>1. r.dict \in DictOrNone
    BY <1>3 DEF ClientState
  <2> QED
    BY <2>1, DictFacts
<1>7. About(r) = {<<Own, n>> : n \in {m \in Names : m \in DOMAIN r.dict
                                        \/ (r.kind = "reconcile" /\ rows[m].source = r.source)}}
  BY <1>2 DEF About, Concerns
<1>8. LandsFrom(c, y(refused))
  BY <1>1 DEF Told
<1> HIDE DEF r, rows
<1>9. \A n \in Names :
         /\ after[n] \in Row /\ Honest(after[n])
         /\ n \in DOMAIN r.dict \ refused => LeftAs(after[n], r.dict[n])
         /\ r.kind = "reconcile" /\ n \notin DOMAIN r.dict =>
               ~Exists(after[n]) \/ after[n].source # r.source
  BY <1>3, <1>4, <1>2, ImportDeclares
<1>10. after = [n \in Names |-> after[n]]
  BY ImportMeans
<1>11. ASSUME NEW n \in Names, n \notin DOMAIN r.dict, r.kind = "reconcile" => rows[n].source # r.source
       PROVE  after[n] = rows[n]
  BY <1>11, ImportMeans DEF Writes, Drops
<1> HIDE DEF after
<1>12. after \in [Names -> Row]
  BY <1>9, <1>10
<1>13. /\ table' \in [Schedulers -> [Names -> Row]]
       /\ table'[Own] = after
       /\ \A s \in Schedulers : s # Own => table'[s] = table[s]
  BY <1>4, <1>5, <1>12
<1>14. TableOK(table')
  BY <1>3, <1>9, <1>13 DEF TableOK
<1>15. Same(table, table', About(r))
  <2>1. ASSUME NEW s \in Schedulers, NEW n \in Names, <<s, n>> \notin About(r)
        PROVE  table'[s][n] = table[s][n]
    <3>1. CASE s # Own
      BY <3>1, <1>13
    <3>2. CASE s = Own
      <4>1. n \notin DOMAIN r.dict /\ (r.kind = "reconcile" => rows[n].source # r.source)
        BY <2>1, <3>2, <1>7
      <4>2. after[n] = rows[n]
        BY <4>1, <1>11
      <4> QED
        BY <4>2, <3>2, <1>13 DEF rows
    <3> QED
      BY <3>1, <3>2
  <2> QED
    BY <2>1 DEF Same
<1>16. Sound(table', Landed(r, refused))
  <2> DEFINE x == Landed(r, refused)
  <2>1. /\ x \in ClientState /\ x.pc = "landed" /\ x.kind = r.kind /\ x.source = r.source
        /\ x.dict = r.dict /\ x.refused = refused
    BY <1>3, <1>6, LandedFields
  <2> HIDE DEF x
  <2>2. BatchSettled(table', x)
    BY <2>1, <1>9, <1>13 DEF BatchSettled
  <2>3. x.kind \notin {"edit", "add"}
    BY <2>1, <1>2 DEF Batches
  <2> QED
    BY <2>1, <2>2, <2>3 DEF Sound, Settled, Named, x
<1>17. Sound(table', y(refused))
  BY <1>16, EndsAreSound
<1>18. r.kind # "none"
  BY <1>2 DEF Batches
<1> HIDE DEF y
<1> QED
  BY <1>2, <1>8, <1>14, <1>15, <1>17, <1>18, LandingKeeps DEF r

-----------------------------------------------------------------------------
(* The other actions *)

LEMMA ReconcileKeeps ==
    ASSUME DeclaredInv, NEW c \in Clients, NEW kind \in Batches,
           NEW source \in Sources, NEW dict \in Dicts, Reconcile(c, kind, source, dict)
    PROVE  DeclaredInv'
<1> DEFINE sent == [Idle EXCEPT !.pc = "sent", !.kind = kind, !.source = source, !.dict = dict]
           x == IF Posts(source, dict) THEN sent ELSE IF kind = "import" THEN Done ELSE Failed
<1>1. Moves(c, x)
  BY Zenon DEF Reconcile
<1>2. sent \in ClientState /\ sent.pc = "sent" /\ sent.kind = kind
  BY IdleIsTyped DEF ClientState, Phases, Kinds, DictOrNone
<1> HIDE DEF sent
<1>3. Sound(table, sent)
  BY <1>2 DEF Sound, Settled, Named, Batches
<1>4. Sound(table, x)
  BY <1>3, EndsAreSound
<1> HIDE DEF x
<1> QED
  BY <1>1, <1>4, StepKeeps

LEMMA ResolveKeeps ==
    ASSUME DeclaredInv, NEW c \in Clients, NEW name \in Names, NEW spec \in Specs,
           Resolve(c, name, spec)
    PROVE  DeclaredInv'
<1> DEFINE sent(s, id) == [Idle EXCEPT !.pc = "sent", !.kind = "edit", !.scheduler = s, !.name = name,
                                       !.id = id, !.spec = spec]
<1>1. PICK s \in Schedulers : Exists(table[s][name]) /\ Moves(c, sent(s, table[s][name].id))
  BY Zenon DEF Resolve
<1>2. PICK id \in 0..MaxWrites + 1 : id = table[s][name].id
  <2>1. table[s][name] \in Row
    BY DEF DeclaredInv, TableOK
  <2> QED
    BY <2>1 DEF Row
<1>3. id # 0
  BY <1>1, <1>2 DEF Exists
<1> DEFINE x == sent(s, id)
<1>4. x \in ClientState /\ x.pc = "sent" /\ x.kind = "edit" /\ x.name = name /\ x.id = id
  BY IdleIsTyped DEF ClientState, Phases, Kinds, NameOrNone
<1>5. Moves(c, x)
  BY <1>1, <1>2
<1> HIDE DEF x
<1>6. Sound(table, x)
  BY <1>3, <1>4 DEF Sound, Settled, Named, Batches
<1> QED
  BY <1>5, <1>6, StepKeeps

LEMMA AddKeeps ==
    ASSUME DeclaredInv, NEW c \in Clients, NEW name \in Names, NEW spec \in Specs,
           Add(c, name, spec)
    PROVE  DeclaredInv'
<1> DEFINE x == [Idle EXCEPT !.pc = "sent", !.kind = "add", !.name = name, !.spec = spec]
<1>1. Moves(c, x)
  BY DEF Add
<1>2. x \in ClientState /\ x.pc = "sent" /\ x.kind = "add" /\ x.name = name /\ x.scheduler = Own
  BY IdleIsTyped DEF ClientState, Phases, Kinds, NameOrNone
<1> HIDE DEF x
<1>3. Sound(table, x)
  BY <1>2 DEF Sound, Settled, Named, Batches
<1> QED
  BY <1>1, <1>3, StepKeeps

\* The phase of a client, and the id it was told.
Answering(r, id) == [r EXCEPT !.pc = "landed", !.id = id]

LEMMA AnsweringFields ==
    ASSUME NEW r \in ClientState, NEW id \in 0..MaxWrites + 1
    PROVE  /\ Answering(r, id) \in ClientState /\ Answering(r, id).pc = "landed"
           /\ Answering(r, id).kind = r.kind /\ Answering(r, id).scheduler = r.scheduler
           /\ Answering(r, id).name = r.name /\ Answering(r, id).spec = r.spec
           /\ Answering(r, id).id = id
  BY DEF Answering, ClientState, Phases

\* A row that an edit or an addition writes, and the client that is told.
LEMMA RowLandsKeeps ==
    ASSUME DeclaredInv, NEW c \in Clients, client[c].kind \in {"edit", "add"},
           NEW row \in Row, Honest(row), Exists(row), row.spec = client[c].spec,
           client[c].kind = "edit" => row.id = client[c].id,
           table' = Put(table, client[c].scheduler, client[c].name, row),
           LandsFrom(c, Told(c, Answering(client[c], row.id))),
           writes < MaxWrites, writes' = writes + 1, release' = release
    PROVE  DeclaredInv'
<1> DEFINE r == client[c]
           x == Answering(r, row.id)
           y == IF r.pc = "adrift" THEN Idle ELSE x
<1>1. r \in ClientState /\ Named(r) /\ TableOK(table)
  BY DEF DeclaredInv, Sound
<1>2. LandsFrom(c, y)
  BY DEF Told
<1>3. About(r) = {<<r.scheduler, r.name>>}
  BY DEF About, Concerns, Batches
<1>4. r.name \in Names /\ r.scheduler \in Schedulers /\ row.id \in 0..MaxWrites + 1 /\ row.id # 0
  BY <1>1 DEF Named, ClientState, Row, Exists
<1>5. /\ TableOK(table') /\ table'[r.scheduler][r.name] = row
      /\ Same(table, table', About(r))
  <2>1. table' = Put(table, r.scheduler, r.name, row)
    OBVIOUS
  <2> HIDE DEF r
  <2>2. /\ TableOK(table') /\ table'[r.scheduler][r.name] = row
        /\ Same(table, table', {<<r.scheduler, r.name>>})
    BY <2>1, <1>1, <1>4, PutIsTable
  <2> QED
    BY <2>2, <1>3
<1>6. /\ x \in ClientState /\ x.pc = "landed" /\ x.kind = r.kind /\ x.scheduler = r.scheduler
      /\ x.name = r.name /\ x.spec = r.spec /\ x.id = row.id
  BY <1>1, <1>4, AnsweringFields
<1> HIDE DEF x
<1>7. Named(x)
  BY <1>1, <1>4, <1>6 DEF Named
<1>8. NameSettled(table', x)
  BY <1>5, <1>6 DEF NameSettled
<1>9. Sound(table', x)
  BY <1>6, <1>7, <1>8 DEF Sound, Settled, Batches
<1>10. Sound(table', y)
  BY <1>9, EndsAreSound
<1>11. r.kind # "none"
  OBVIOUS
<1> HIDE DEF y
<1> QED
  BY <1>2, <1>5, <1>10, <1>11, LandingKeeps

LEMMA EditLandsKeeps ==
    ASSUME DeclaredInv, NEW c \in Clients, EditLands(c)
    PROVE  DeclaredInv'
<1> DEFINE r == client[c]
           row == table[r.scheduler][r.name]
<1>1. r.kind = "edit" /\ r \in ClientState /\ Named(r) /\ TableOK(table)
  BY DEF EditLands, DeclaredInv, Sound
<1>2. r.scheduler \in Schedulers /\ r.name \in Names /\ r.id # 0 /\ r.spec \in Specs
  BY <1>1 DEF Named, ClientState
<1>3. row \in Row
  BY <1>1, <1>2 DEF TableOK
<1>4. CASE HasRow(r)
  <2>1. PICK rehash \in BOOLEAN :
            table' = [table EXCEPT ![r.scheduler][r.name] = Edited(@, r.spec, rehash)]
    BY <1>4, Zenon DEF EditLands, EditRow
  <2> DEFINE new == Edited(row, r.spec, rehash)
  <2>2. table' = Put(table, r.scheduler, r.name, new)
    BY <2>1, <1>1, <1>2 DEF Put, TableOK
  <2>3. new \in Row /\ Honest(new) /\ new.id = row.id /\ new.spec = r.spec
    BY <1>2, <1>3, EditedFields
  <2>4. row.id = r.id
    BY <1>4 DEF HasRow
  <2>5. [r EXCEPT !.pc = "landed"] = Answering(r, r.id)
    BY <1>1 DEF Answering, ClientState
  <2>6. LandsFrom(c, Told(c, [r EXCEPT !.pc = "landed"]))
    BY <1>4, Zenon DEF EditLands
  <2>7. LandsFrom(c, Told(c, Answering(r, new.id)))
    BY <2>3, <2>4, <2>5, <2>6
  <2>8. writes < MaxWrites /\ writes' = writes + 1 /\ release' = release
    BY <1>4 DEF EditLands, EditRow
  <2>9. Exists(new)
    BY <2>3, <2>4, <1>2 DEF Exists
  <2> HIDE DEF new, row
  <2> QED
    BY <1>1, <2>2, <2>3, <2>4, <2>7, <2>8, <2>9, RowLandsKeeps
<1>5. CASE ~HasRow(r)
  <2>1. Moves(c, Told(c, Failed))
    BY <1>5, Zenon DEF EditLands
  <2>2. Sound(table, Told(c, Failed))
    BY EndsAreSound DEF Told
  <2> QED
    BY <2>1, <2>2, StepKeeps
<1> QED
  BY <1>4, <1>5

LEMMA AddLandsKeeps ==
    ASSUME DeclaredInv, NEW c \in Clients, AddLands(c)
    PROVE  DeclaredInv'
<1> DEFINE r == client[c]
           made(hash) == [id |-> writes + 2, source |-> Manual, spec |-> r.spec,
                          hash |-> hash, edited |-> FALSE]
<1>1. r.kind = "add" /\ r \in ClientState /\ Named(r) /\ TableOK(table) /\ writes \in 0..MaxWrites
  BY DEF AddLands, DeclaredInv, Sound
<1>2. r.scheduler = Own /\ r.name \in Names /\ r.spec \in Specs
  BY <1>1 DEF Named, ClientState
<1>3. PICK hash \in {NoHash, ComputeHash(r.spec)} :
          table' = [table EXCEPT ![Own][r.name] = made(hash)]
  BY Zenon DEF AddLands
<1>4. writes < MaxWrites /\ writes' = writes + 1 /\ release' = release
  BY DEF AddLands
<1>5. LandsFrom(c, Told(c, [r EXCEPT !.pc = "landed", !.id = writes + 2]))
  BY Zenon DEF AddLands
<1> DEFINE row == made(hash)
<1>6. row.id = writes + 2 /\ row.spec = r.spec /\ row.hash = hash
  OBVIOUS
<1>7. row \in Row
  <2>1. PICK e \in BOOLEAN : e = FALSE
    OBVIOUS
  <2>2. writes + 2 \in 0..MaxWrites + 1
    BY <1>1, <1>4, LabelsAssumption
  <2>3. hash \in Specs \cup {NoHash}
    BY <1>2 DEF ComputeHash
  <2>4. row = [id |-> writes + 2, source |-> Manual, spec |-> r.spec, hash |-> hash, edited |-> e]
    BY <2>1
  <2> QED
    BY <1>2, <2>2, <2>3, <2>4 DEF Row
<1>8. table' = Put(table, r.scheduler, r.name, row)
  BY <1>2, <1>3 DEF Put
<1>9. LandsFrom(c, Told(c, Answering(r, row.id)))
  BY <1>5, <1>6 DEF Answering
<1> HIDE DEF made
<1>10. Honest(row) /\ Exists(row)
  BY <1>1, <1>6, LabelsAssumption DEF Honest, Exists
<1> HIDE DEF row
<1> QED
  BY <1>1, <1>4, <1>6, <1>7, <1>8, <1>9, <1>10, RowLandsKeeps

LEMMA TouchKeeps ==
    ASSUME DeclaredInv, NEW s \in Schedulers, NEW n \in Names, Touch(s, n)
    PROVE  DeclaredInv'
<1>1. TableOK(table) /\ table[s][n] \in Row
  BY DEF DeclaredInv, TableOK
<1>2. PICK row \in Row : Honest(row) /\ table' = Put(table, s, n, row)
  <2>1. CASE \E spec \in Specs, rehash \in BOOLEAN :
                table' = [table EXCEPT ![s][n] = Edited(@, spec, rehash)]
    <3>1. PICK spec \in Specs, rehash \in BOOLEAN :
              table' = [table EXCEPT ![s][n] = Edited(@, spec, rehash)]
      BY <2>1
    <3>2. table' = Put(table, s, n, Edited(table[s][n], spec, rehash))
      BY <3>1, <1>1 DEF Put, TableOK
    <3> QED
      BY <3>2, <1>1, EditedFields
  <2>2. CASE table' = [table EXCEPT ![s][n] = NoRow]
    BY <2>2, NoRowFields DEF Put
  <2> QED
    BY <2>1, <2>2, Zenon DEF Touch
<1> DEFINE keys == {<<s, n>>}
           D == {}
<1>3. TableOK(table') /\ Same(table, table', keys)
  BY <1>1, <1>2, PutIsTable
<1>4. keys \in SUBSET Keys
  BY DEF Keys
<1>5. /\ writes < MaxWrites /\ writes' = writes + 1 /\ release' = release
      /\ client' = [d \in Clients |-> Crossed(client[d], keys)]
  BY DEF Touch
<1> HIDE DEF keys
<1>6. client' = [d \in Clients |-> IF d \in D THEN Idle ELSE Crossed(client[d], keys)]
  BY <1>5
<1>7. D \in SUBSET Clients /\ (D # {} => Sound(table', Idle))
  OBVIOUS
<1> HIDE DEF D
<1> QED
  BY <1>3, <1>4, <1>5, <1>6, <1>7, WriteKeeps

\* The steps that end a request, and the end of a process.
LEMMA ClosingKeeps ==
    ASSUME DeclaredInv, NEW c \in Clients,
           \/ \E name \in Names : NotResolved(c, name)
           \/ Answered(c) \/ Refused(c) \/ TimesOut(c) \/ Lost(c) \/ Ends(c)
    PROVE  DeclaredInv'
<1> DEFINE r == client[c]
           adrift == [r EXCEPT !.pc = "adrift"]
<1>1. r \in ClientState /\ Named(r)
  BY DEF DeclaredInv, Sound
<1>2. Sound(table, adrift)
  <2>1. /\ adrift \in ClientState /\ adrift.pc = "adrift" /\ adrift.kind = r.kind
        /\ adrift.name = r.name /\ adrift.id = r.id /\ adrift.scheduler = r.scheduler
    BY <1>1 DEF ClientState, Phases
  <2> HIDE DEF adrift, r
  <2> QED
    BY <2>1, <1>1 DEF Sound, Settled, Named
<1>3. \E x \in {Idle, Done, Failed, adrift} : Moves(c, x)
  BY Zenon DEF NotResolved, Answered, Refused, TimesOut, Lost, Ends
<1> HIDE DEF adrift
<1>4. PICK x \in {Idle, Done, Failed, adrift} : Moves(c, x)
  BY <1>3
<1>5. Sound(table, x)
  BY <1>2, EndsAreSound
<1> QED
  BY <1>4, <1>5, StepKeeps

LEMMA NextDeclared == DeclaredInv /\ [Next]_vars => DeclaredInv'
<1> SUFFICES ASSUME DeclaredInv, [Next]_vars PROVE DeclaredInv'
  OBVIOUS
<1>1. ASSUME NEW c \in Clients, Request(c) PROVE DeclaredInv'
  BY <1>1, ReconcileKeeps, ResolveKeeps, AddKeeps, ClosingKeeps DEF Request
<1>2. ASSUME NEW c \in Clients, BatchLands(c) \/ EditLands(c) \/ AddLands(c) PROVE DeclaredInv'
  BY <1>2, BatchLandsKeeps, EditLandsKeeps, AddLandsKeeps
<1>3. ASSUME NEW c \in Clients, Answered(c) \/ Refused(c) \/ TimesOut(c) \/ Lost(c) \/ Ends(c)
      PROVE  DeclaredInv'
  BY <1>3, ClosingKeeps
<1>4. ASSUME NEW s \in Schedulers, NEW n \in Names, Touch(s, n) PROVE DeclaredInv'
  BY <1>4, TouchKeeps
<1>5. CASE UNCHANGED vars
  BY <1>5 DEF vars, DeclaredInv
<1> QED
  BY <1>1, <1>2, <1>3, <1>4, <1>5 DEF Next

LEMMA InitDeclared == Init => DeclaredInv
<1> SUFFICES ASSUME Init PROVE DeclaredInv
  OBVIOUS
<1> DEFINE made == [NoRow EXCEPT !.id = 1, !.source = Flask, !.hash = ComputeHash("off")]
           manual == [NoRow EXCEPT !.id = 1]
<1>1. release \in Releases /\ writes = 0 /\ writes \in 0..MaxWrites
      /\ client = [c \in Clients |-> Idle]
  BY LabelsAssumption DEF Init
<1>2. table = [s \in Schedulers |-> [n \in Names |-> table[s][n]]]
      /\ \A s \in Schedulers, n \in Names : table[s][n] \in {NoRow, made, manual}
  BY DEF Init
<1>3. made \in Row /\ Honest(made) /\ manual \in Row /\ Honest(manual)
  <2>1. 1 \in 0..MaxWrites + 1 /\ NoRow \in Row
    BY LabelsAssumption, NoRowFields
  <2>2. NoRow.hash = NoHash /\ NoRow.spec = "off"
    BY DEF NoRow
  <2> HIDE DEF NoRow
  <2>3. manual \in Row /\ manual.hash = NoHash
    BY <2>1, <2>2 DEF Row
  <2>4. made \in Row /\ made.hash = ComputeHash(made.spec)
    BY <2>1, <2>2 DEF Row, Sources, Specs, ComputeHash
  <2> QED
    BY <2>3, <2>4 DEF Honest
<1> HIDE DEF made, manual
<1>4. \A s \in Schedulers, n \in Names : table[s][n] \in Row /\ Honest(table[s][n])
  BY <1>2, <1>3, NoRowFields
<1>5. TableOK(table)
  BY <1>2, <1>4 DEF TableOK
<1>6. client \in [Clients -> ClientState] /\ \A c \in Clients : Sound(table, client[c])
  BY <1>1, IdleIsTyped, EndsAreSound
<1> QED
  BY <1>1, <1>5, <1>6 DEF DeclaredInv

LEMMA DeclaredInvariant == Spec => []DeclaredInv
  BY InitDeclared, NextDeclared, PTL DEF Spec

\* TypeOK of DeclaredSchedules: the table has at most one row of a name and
\* scheduler, whatever requests cross, time out and land late.
THEOREM DeclaredTypeCorrect == Spec => []TypeOK
<1>1. DeclaredInv => TypeOK
  BY DEF DeclaredInv, TypeOK, TableOK, ClientState, Phases, DictOrNone
<1> QED
  BY <1>1, DeclaredInvariant, PTL

-----------------------------------------------------------------------------
(* What the answers say *)

\* Only its own answer brings a client whose request was executed to the end.
LEMMA OthersStay ==
    ASSUME DeclaredInv, NEW e \in Clients, NEW c \in Clients, c # e, client[c].pc = "landed",
           (\E x : Moves(e, x)) \/ (client[e].kind # "none" /\ \E x : LandsFrom(e, x))
    PROVE  client'[c] # Done
<1>1. client \in [Clients -> ClientState] /\ client[c] \in ClientState
  BY DEF DeclaredInv
<1>2. CASE \E x : Moves(e, x)
  <2>1. client'[c] = client[c]
    BY <1>1, <1>2 DEF Moves
  <2> QED
    BY <2>1, IdleIsTyped
<1>3. CASE client[e].kind # "none" /\ \E x : LandsFrom(e, x)
  <2>1. About(client[e]) \in SUBSET Keys
    BY <1>3, ConcernsAreKeys DEF DeclaredInv, Sound
  <2>2. client'[c] = Crossed(client[c], About(client[e]))
    BY <1>3 DEF LandsFrom
  <2>3. client'[c].pc = "landed"
    BY <2>1, <2>2, <1>1, CrossedMeans
  <2> QED
    BY <2>3, IdleIsTyped
<1> QED
  BY <1>2, <1>3

LEMMA TouchStays ==
    ASSUME DeclaredInv, NEW s \in Schedulers, NEW n \in Names, Touch(s, n),
           NEW c \in Clients, client[c].pc = "landed"
    PROVE  client'[c] # Done
<1>1. client[c] \in ClientState /\ {<<s, n>>} \in SUBSET Keys
  BY DEF DeclaredInv, Keys
<1>2. client'[c] = Crossed(client[c], {<<s, n>>})
  BY DEF Touch
<1>3. client'[c].pc = "landed"
  BY <1>1, <1>2, CrossedMeans
<1> QED
  BY <1>3, IdleIsTyped

LEMMA OnlyTheAnswerEnds ==
    ASSUME DeclaredInv, Next, NEW c \in Clients, client[c].pc = "landed", client'[c] = Done
    PROVE  Answered(c)
<1>1. PICK e \in Clients : \/ Request(e) \/ BatchLands(e) \/ EditLands(e) \/ AddLands(e)
                           \/ Answered(e) \/ Refused(e) \/ TimesOut(e) \/ Lost(e) \/ Ends(e)
  BY TouchStays DEF Next
<1>2. (\E x : Moves(e, x)) \/ (client[e].kind # "none" /\ \E x : LandsFrom(e, x))
  <2>1. CASE Request(e)
    <3>1. \E x : Moves(e, x)
      BY <2>1, Zenon DEF Request, Reconcile, Resolve, NotResolved, Add
    <3> QED
      BY <3>1
  <2>2. CASE BatchLands(e)
    <3>1. client[e].kind # "none"
      BY <2>2 DEF BatchLands, Batches
    <3>2. \E x : LandsFrom(e, x)
      BY <2>2, Zenon DEF BatchLands
    <3> QED
      BY <3>1, <3>2
  <2>3. CASE EditLands(e)
    <3>1. client[e].kind # "none"
      BY <2>3 DEF EditLands
    <3>2. (\E x : Moves(e, x)) \/ (\E x : LandsFrom(e, x))
      BY <2>3, Zenon DEF EditLands
    <3> QED
      BY <3>1, <3>2
  <2>4. CASE AddLands(e)
    <3>1. client[e].kind # "none"
      BY <2>4 DEF AddLands
    <3>2. \E x : LandsFrom(e, x)
      BY <2>4, Zenon DEF AddLands
    <3> QED
      BY <3>1, <3>2
  <2>5. CASE Answered(e) \/ Refused(e) \/ TimesOut(e) \/ Lost(e) \/ Ends(e)
    <3>1. \E x : Moves(e, x)
      BY <2>5, Zenon DEF Answered, Refused, TimesOut, Lost, Ends
    <3> QED
      BY <3>1
  <2> QED
    BY <1>1, <2>1, <2>2, <2>3, <2>4, <2>5
<1>3. c = e
  BY <1>2, OthersStay
<1>4. client[c].pc = "landed"
  OBVIOUS
<1>5. ~Request(c) /\ ~BatchLands(c) /\ ~EditLands(c) /\ ~AddLands(c) /\ ~Refused(c) /\ ~Lost(c) /\ ~Ends(c)
  BY <1>4 DEF Request, Reconcile, Resolve, NotResolved, Add, BatchLands, EditLands, AddLands,
     Refused, Lost, Ends
<1>6. ~TimesOut(c)
  <2>1. ASSUME TimesOut(c) PROVE client'[c] = Failed
    BY <2>1 DEF TimesOut, Moves, DeclaredInv
  <2> QED
    BY <2>1, IdleIsTyped
<1> QED
  BY <1>1, <1>3, <1>5, <1>6

\* A reconcile that reports its summary, and an import that exits 0, have left
\* each schedule as they declare it and dropped the others of the label, unless a
\* later request named it: any number of clients, names and crossing requests.
THEOREM AnswersAreDone == Spec => AnsweredIsDone
<1>1. DeclaredInv /\ [Next]_vars =>
         [\A c \in Clients :
             LET d == client[c]
                 counted == IF d.kind = "import" THEN {} ELSE d.refused
             IN  d.pc = "landed" /\ client'[c] = Done /\ d.kind \in Batches =>
                    \A n \in Names : <<Own, n>> \notin d.crossed =>
                       /\ n \in DOMAIN d.dict \ counted => LeftAs(table[Own][n], d.dict[n])
                       /\ d.kind = "reconcile" /\ n \notin DOMAIN d.dict =>
                             ~Exists(table[Own][n]) \/ table[Own][n].source # d.source]_vars
  <2> SUFFICES ASSUME DeclaredInv, Next, NEW c \in Clients,
                      client[c].pc = "landed", client'[c] = Done, client[c].kind \in Batches,
                      NEW n \in Names, <<Own, n>> \notin client[c].crossed
               PROVE  /\ n \in DOMAIN client[c].dict \
                               (IF client[c].kind = "import" THEN {} ELSE client[c].refused) =>
                            LeftAs(table[Own][n], client[c].dict[n])
                      /\ client[c].kind = "reconcile" /\ n \notin DOMAIN client[c].dict =>
                            ~Exists(table[Own][n]) \/ table[Own][n].source # client[c].source
    OBVIOUS
  <2>1. BatchSettled(table, client[c])
    BY DEF DeclaredInv, Sound, Settled
  <2>2. Answered(c)
    BY OnlyTheAnswerEnds
  <2>3. client[c].kind = "import" => client[c].refused = {}
    <3>1. ASSUME client[c].kind = "import", client[c].refused # {} PROVE client'[c] = Failed
      BY <2>2, <3>1 DEF Answered, Moves, DeclaredInv
    <3> QED
      BY <3>1, IdleIsTyped
  <2> QED
    BY <2>1, <2>3 DEF BatchSettled
<1> QED
  BY <1>1, DeclaredInvariant, PTL DEF Spec, AnsweredIsDone

\* A command by name that reports success changed the row whose id its look-up
\* gave, and add made the one whose id it prints: the row is there and says so
\* unless a later request named it, whatever was deleted and made in between.
THEOREM NamesAreMeant == Spec => NamedIsMeant
<1>1. DeclaredInv /\ [Next]_vars =>
         [\A c \in Clients :
             LET d == client[c] IN
             /\ d.pc = "landed" /\ client'[c] = Done /\ d.kind \in {"edit", "add"}
             /\ <<d.scheduler, d.name>> \notin d.crossed
             => LET row == table[d.scheduler][d.name] IN
                   Exists(row) /\ row.id = d.id /\ row.spec = d.spec]_vars
  <2> SUFFICES ASSUME DeclaredInv, NEW c \in Clients, client[c].pc = "landed",
                      client[c].kind \in {"edit", "add"},
                      <<client[c].scheduler, client[c].name>> \notin client[c].crossed
               PROVE  LET row == table[client[c].scheduler][client[c].name] IN
                         Exists(row) /\ row.id = client[c].id /\ row.spec = client[c].spec
    OBVIOUS
  <2>1. NameSettled(table, client[c])
    BY DEF DeclaredInv, Sound, Settled
  <2> QED
    BY <2>1 DEF NameSettled
<1> QED
  BY <1>1, DeclaredInvariant, PTL DEF Spec, NamedIsMeant
=============================================================================
