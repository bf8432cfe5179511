---------------------------- MODULE WatchProofs -----------------------------
(***************************************************************************)
(* Proofs about the Watch side of a process.  First the reconnect loop     *)
(* (WatchHealth), for every back-off cap, re-sync interval and grace, any  *)
(* number of losses and any length of time.  Then the snapshots that       *)
(* relieve tombstone pressure (SnapshotResync), for any set of projects,   *)
(* any cap, log and number of failures, with the hook wired or not: no     *)
(* delete falls between a snapshot and a stream, a project is paused       *)
(* exactly under pressure, and snapshots install in order.                 *)
(***************************************************************************)
EXTENDS WatchHealth, SnapshotResync, FiniteSetTheorems, TLAPS

-----------------------------------------------------------------------------
(* WatchHealth: the inductive invariant                                    *)

ProvedAt == {i \in 1..Len(log) : Proved(log[i])}
LongAt == {i \in 1..Len(log) : Long(log[i])}

HasLast(S) == S # {} => \E i \in S : \A j \in S : j <= i

\* When the outage that is not over began, by the history's account.
OutageSince == IF log = <<>> THEN Unset ELSE OutageStart

\* The outage clock is the history's, and while a stream is open that has not
\* served yet, its start is the one kept aside.
ClockFits ==
    /\ healthy <=> phase = "open"
    /\ healthy => /\ opened \in Times /\ opened <= now /\ since = Unset
                  /\ kept = IF served THEN Unset ELSE OutageSince
    /\ ~healthy => opened = Unset /\ kept = Unset /\ since = OutageSince

\* The exponent of the next back-off is the number of losses since a long stream.
PenaltyFits == attempts = IF log = <<>> THEN 0 ELSE LossesInARow + 1

HealthInv ==
    /\ HealthTypeOK
    /\ HasLast(ProvedAt) /\ HasLast(LongAt)
    /\ ClockFits
    /\ PenaltyFits
    /\ attempts <= Len(log)
    /\ phase = "backoff" => log # <<>>
    /\ PenaltyFitsTheLosses

-----------------------------------------------------------------------------
(* The last loss of a kind.                                                *)

LastIn(S) == IF S = {} THEN 0 ELSE CHOOSE i \in S : \A j \in S : j <= i

LEMMA LastInIsLast ==
    ASSUME NEW n \in Nat, NEW S \in SUBSET (1..n), HasLast(S)
    PROVE  /\ LastIn(S) \in 0..n
           /\ S = {} => LastIn(S) = 0
           /\ S # {} => LastIn(S) \in S /\ \A j \in S : j <= LastIn(S)
  <1>1. CASE S = {}
    BY <1>1 DEF LastIn
  <1>2. CASE S # {}
    <2>1. \E i \in S : \A j \in S : j <= i
      BY <1>2 DEF HasLast
    <2>2. LastIn(S) \in S /\ \A j \in S : j <= LastIn(S)
      BY <1>2, <2>1 DEF LastIn
    <2>3. \A j \in S : j \in 0..n
      OBVIOUS
    <2> QED
      BY <1>2, <2>2, <2>3
  <1> QED
    BY <1>1, <1>2

LEMMA NewLast ==
    ASSUME NEW n \in Nat, NEW S \in SUBSET (1..n)
    PROVE  HasLast(S \cup {n + 1}) /\ LastIn(S \cup {n + 1}) = n + 1
  <1> DEFINE T == S \cup {n + 1}
  <1>1. n + 1 \in T /\ \A j \in T : j <= n + 1
    OBVIOUS
  <1>2. HasLast(T) /\ T \in SUBSET (1..(n + 1))
    BY <1>1 DEF HasLast
  <1>3. LastIn(T) \in T /\ \A j \in T : j <= LastIn(T)
    BY <1>1, <1>2, LastInIsLast
  <1>4. \A j \in T : j \in Int /\ j <= n + 1
    OBVIOUS
  <1> HIDE DEF T
  <1>5. LastIn(T) \in Int /\ LastIn(T) <= n + 1 /\ n + 1 <= LastIn(T)
    BY <1>1, <1>3, <1>4
  <1>6. LastIn(T) = n + 1
    BY <1>5
  <1> QED
    BY <1>2, <1>6 DEF T

LEMMA LastLosses ==
    /\ LastOf(Proved) = LastIn(ProvedAt)
    /\ LastOf(Long) = LastIn(LongAt)
    /\ LastOf(Proved)' = LastIn(ProvedAt)'
    /\ LastOf(Long)' = LastIn(LongAt)'
  BY DEF LastOf, LastIn, ProvedAt, LongAt

\* What one more loss does to the log.
LEMMA LogGrows ==
    ASSUME log \in Seq(Losses), NEW x \in Losses, log' = Append(log, x)
    PROVE  /\ log' \in Seq(Losses) /\ log' # <<>> /\ Len(log') = Len(log) + 1
           /\ log'[Len(log) + 1] = x
           /\ \A i \in 1..Len(log) : log'[i] = log[i]
           /\ ProvedAt' = IF Proved(x) THEN ProvedAt \cup {Len(log) + 1} ELSE ProvedAt
           /\ LongAt' = IF Long(x) THEN LongAt \cup {Len(log) + 1} ELSE LongAt
  <1>1. /\ log' \in Seq(Losses) /\ log' # <<>> /\ Len(log') = Len(log) + 1
        /\ log'[Len(log) + 1] = x /\ Len(log) \in Nat
        /\ \A i \in 1..Len(log) : log'[i] = log[i]
    OBVIOUS
  <1>2. 1..(Len(log) + 1) = 1..Len(log) \cup {Len(log) + 1}
    BY <1>1
  <1>3. ProvedAt' = {i \in 1..Len(log) \cup {Len(log) + 1} : Proved(log'[i])}
    BY <1>1, <1>2 DEF ProvedAt, Proved
  <1>4. LongAt' = {i \in 1..Len(log) \cup {Len(log) + 1} : Long(log'[i])}
    BY <1>1, <1>2 DEF LongAt, Long
  <1>5. ProvedAt' = IF Proved(x) THEN ProvedAt \cup {Len(log) + 1} ELSE ProvedAt
    BY <1>1, <1>3 DEF ProvedAt
  <1>6. LongAt' = IF Long(x) THEN LongAt \cup {Len(log) + 1} ELSE LongAt
    BY <1>1, <1>4 DEF LongAt
  <1> QED
    BY <1>1, <1>5, <1>6

\* What one more loss does to the outage and to the row of losses.
LEMMA LossCounts ==
    ASSUME log \in Seq(Losses), HasLast(ProvedAt), HasLast(LongAt),
           NEW x \in Losses, log' = Append(log, x)
    PROVE  /\ HasLast(ProvedAt)' /\ HasLast(LongAt)'
           /\ OutageSince' = IF Proved(x) \/ log = <<>> THEN x.at ELSE OutageSince
           /\ LossesInARow' = IF Long(x) \/ log = <<>> THEN 0 ELSE LossesInARow + 1
           /\ LossesInARow \in Int
  <1> DEFINE n == Len(log)
  <1>1. /\ n \in Nat /\ Len(log') = n + 1 /\ log' # <<>> /\ log'[n + 1] = x
        /\ \A i \in 1..n : log'[i] = log[i]
        /\ ProvedAt' = IF Proved(x) THEN ProvedAt \cup {n + 1} ELSE ProvedAt
        /\ LongAt' = IF Long(x) THEN LongAt \cup {n + 1} ELSE LongAt
    BY LogGrows
  <1>2. ProvedAt \in SUBSET (1..n) /\ LongAt \in SUBSET (1..n)
    BY DEF ProvedAt, LongAt
  <1>3. LastIn(ProvedAt) \in 0..n /\ LastIn(LongAt) \in 0..n
    BY <1>1, <1>2, LastInIsLast
  <1>4. log = <<>> <=> n = 0
    OBVIOUS
  <1>5. /\ HasLast(ProvedAt)'
        /\ LastIn(ProvedAt)' = IF Proved(x) THEN n + 1 ELSE LastIn(ProvedAt)
    <2>1. CASE Proved(x)
      BY <1>1, <1>2, <2>1, NewLast
    <2>2. CASE ~Proved(x)
      BY <1>1, <2>2
    <2> QED
      BY <2>1, <2>2
  <1>6. /\ HasLast(LongAt)'
        /\ LastIn(LongAt)' = IF Long(x) THEN n + 1 ELSE LastIn(LongAt)
    <2>1. CASE Long(x)
      BY <1>1, <1>2, <2>1, NewLast
    <2>2. CASE ~Long(x)
      BY <1>1, <2>2
    <2> QED
      BY <2>1, <2>2
  <1>7. /\ OutageStart = log[IF LastIn(ProvedAt) = 0 THEN 1 ELSE LastIn(ProvedAt)].at
        /\ OutageStart' = log'[IF LastIn(ProvedAt)' = 0 THEN 1 ELSE LastIn(ProvedAt)'].at
        /\ LossesInARow = n - (IF LastIn(LongAt) = 0 THEN 1 ELSE LastIn(LongAt))
        /\ LossesInARow' = Len(log') - (IF LastIn(LongAt)' = 0 THEN 1 ELSE LastIn(LongAt)')
    BY LastLosses DEF OutageStart, LossesInARow
  <1>8. OutageSince' = IF Proved(x) \/ log = <<>> THEN x.at ELSE OutageSince
    <2>1. OutageSince' = OutageStart'
      BY <1>1 DEF OutageSince
    <2>2. CASE Proved(x)
      BY <1>1, <1>5, <1>7, <2>1, <2>2
    <2>3. CASE ~Proved(x) /\ log = <<>>
      BY <1>1, <1>3, <1>4, <1>5, <1>7, <2>1, <2>3
    <2>4. CASE ~Proved(x) /\ log # <<>>
      <3> DEFINE k == IF LastIn(ProvedAt) = 0 THEN 1 ELSE LastIn(ProvedAt)
      <3>1. k \in 1..n
        BY <1>1, <1>3, <1>4, <2>4
      <3>2. OutageStart' = log'[k].at /\ OutageStart = log[k].at
        BY <1>5, <1>7, <2>4
      <3> QED
        BY <1>1, <2>1, <2>4, <3>1, <3>2 DEF OutageSince
    <2> QED
      BY <2>2, <2>3, <2>4
  <1>9. LossesInARow' = (IF Long(x) \/ log = <<>> THEN 0 ELSE LossesInARow + 1)
        /\ LossesInARow \in Int
    BY <1>1, <1>3, <1>4, <1>6, <1>7
  <1> QED
    BY <1>5, <1>6, <1>8, <1>9

LEMMA OutageIsATime ==
    ASSUME log \in Seq(Losses), HasLast(ProvedAt), log # <<>>
    PROVE  OutageStart \in Times
  <1> DEFINE k == IF LastIn(ProvedAt) = 0 THEN 1 ELSE LastIn(ProvedAt)
  <1>1. Len(log) \in Nat /\ Len(log) # 0
    OBVIOUS
  <1>2. ProvedAt \in SUBSET (1..Len(log))
    BY DEF ProvedAt
  <1>3. LastIn(ProvedAt) \in 0..Len(log)
    BY <1>1, <1>2, LastInIsLast
  <1>4. k \in 1..Len(log)
    BY <1>1, <1>3
  <1>5. OutageStart = log[k].at
    BY LastLosses DEF OutageStart
  <1>6. log[k] \in Losses
    BY <1>4
  <1> QED
    BY <1>5, <1>6 DEF Losses

-----------------------------------------------------------------------------
(* The steps.                                                              *)

\* Only a lost stream adds to the log: elsewhere its account stays as it was.
LEMMA AccountStays ==
    ASSUME UNCHANGED log
    PROVE  /\ HasLast(ProvedAt)' <=> HasLast(ProvedAt)
           /\ HasLast(LongAt)' <=> HasLast(LongAt)
           /\ OutageSince' = OutageSince
           /\ LossesInARow' = LossesInARow
  <1>1. ProvedAt' = ProvedAt /\ LongAt' = LongAt
    BY DEF ProvedAt, LongAt, Proved, Long
  <1>2. LastOf(Proved)' = LastOf(Proved) /\ LastOf(Long)' = LastOf(Long)
    BY <1>1, LastLosses DEF LastIn
  <1> QED
    BY <1>1, <1>2 DEF HasLast, OutageSince, OutageStart, LossesInARow

\* The back-off of any exponent fits the clock's bound.
LEMMA DelayFits ==
    ASSUME NEW n \in Nat, NEW d \in Jittered(Delay(n))
    PROVE  d \in Nat /\ d <= 2 * MaxDelay
  <1>1. MaxDelay \in Nat
    BY BoundsAssumption
  <1>2. Delay(n) <= MaxDelay
    BY <1>1, BoundsAssumption DEF Delay, Smaller
  <1>3. Delay(n) \in Int
    BY <1>1, BoundsAssumption DEF Delay, Smaller
  <1>4. d \in 1..2 * Delay(n)
    BY DEF Jittered
  <1> HIDE DEF Delay
  <1> QED
    BY <1>1, <1>2, <1>3, <1>4

\* The loss as the log records it.
ThisLoss == [opened |-> opened, at |-> now, served |-> healthy /\ served]

\* What this loss does to the outage clock and to the penalty is what the
\* history says of it.
LEMMA LossIsJudged ==
    ASSUME HealthInv
    PROVE  /\ ThisLoss \in Losses
           /\ PenaltyCleared <=> Long(ThisLoss)
           /\ OutageGoesOn <=> healthy /\ ~Proved(ThisLoss) /\ log # <<>>
  <1>1. /\ now \in Times /\ opened \in {Unset} \cup Times /\ log \in Seq(Losses)
        /\ healthy \in BOOLEAN /\ served \in BOOLEAN
        /\ MaxTime \in Nat /\ MaxDelay \in Nat /\ Interval \in Nat
    BY BoundsAssumption DEF HealthInv, HealthTypeOK
  <1>2. ThisLoss \in Losses
    <2>1. ASSUME NEW b \in BOOLEAN
          PROVE  [opened |-> opened, at |-> now, served |-> b] \in Losses
      BY <1>1 DEF Losses
    <2>2. (healthy /\ served) \in BOOLEAN
      BY <1>1
    <2> QED
      BY <2>1, <2>2 DEF ThisLoss
  <1>3. /\ ThisLoss.opened = opened /\ ThisLoss.at = now
        /\ ThisLoss.served <=> healthy /\ served
    BY DEF ThisLoss
  <1>4. CASE healthy
    <2>1. opened \in Times /\ kept = IF served THEN Unset ELSE OutageSince
      BY <1>4 DEF HealthInv, ClockFits
    <2>2. opened # Unset /\ Stretch = now - opened
      BY <1>1, <1>4, <2>1 DEF Unset, Times, Stretch
    <2>3. PenaltyCleared <=> Long(ThisLoss)
      BY <1>3, <1>4, <2>2 DEF PenaltyCleared, Long
    <2>4. Proved(ThisLoss) <=> served \/ now - opened >= MaxDelay
      BY <1>3, <1>4, <2>2 DEF Proved
    <2>5. ~served => (kept # Unset <=> log # <<>>)
      <3>1. CASE log = <<>>
        BY <2>1, <3>1 DEF OutageSince
      <3>2. CASE log # <<>>
        <4>1. OutageStart \in Times
          BY <1>1, <3>2, OutageIsATime DEF HealthInv
        <4> QED
          BY <1>1, <2>1, <3>2, <4>1 DEF OutageSince, Times, Unset
      <3> QED
        BY <3>1, <3>2
    <2>6. now - opened < MaxDelay <=> ~(now - opened >= MaxDelay)
      BY <1>1, <2>1 DEF Times
    <2>7. OutageGoesOn <=> ~served /\ kept # Unset /\ ~(now - opened >= MaxDelay)
      BY <1>4, <2>2, <2>6 DEF OutageGoesOn
    <2> QED
      BY <1>2, <1>4, <2>3, <2>4, <2>5, <2>7
  <1>5. CASE ~healthy
    <2>1. opened = Unset
      BY <1>5 DEF HealthInv, ClockFits
    <2>2. ~PenaltyCleared /\ ~OutageGoesOn /\ ~Long(ThisLoss)
      BY <1>3, <1>5, <2>1 DEF PenaltyCleared, OutageGoesOn, Long
    <2> QED
      BY <1>2, <1>5, <2>2
  <1> QED
    BY <1>4, <1>5

\* A failed attempt and a dropped stream keep the invariant.
LEMMA LostStep ==
    ASSUME HealthInv, Lost, UNCHANGED <<now, synced>>
    PROVE  HealthInv'
  <1> DEFINE n == IF PenaltyCleared THEN 0 ELSE attempts
  <1>1. /\ now \in Times /\ log \in Seq(Losses) /\ attempts \in 0..MaxAttempts
        /\ healthy \in BOOLEAN /\ served \in BOOLEAN /\ synced \in BOOLEAN
        /\ since \in {Unset} \cup Times /\ kept \in {Unset} \cup Times
        /\ MaxTime \in Nat /\ MaxAttempts \in Nat /\ MaxDelay \in Nat
    BY BoundsAssumption DEF HealthInv, HealthTypeOK
  <1>2. /\ ThisLoss \in Losses
        /\ PenaltyCleared <=> Long(ThisLoss)
        /\ OutageGoesOn <=> healthy /\ ~Proved(ThisLoss) /\ log # <<>>
    BY LossIsJudged
  <1>3. ThisLoss.at = now
    BY DEF ThisLoss
  <1>4. /\ Len(log) < MaxAttempts /\ attempts' = n + 1 /\ phase' = "backoff"
        /\ log' = Append(log, ThisLoss) /\ now' = now /\ synced' = synced
        /\ \E d \in Jittered(Delay(n)) : wakeAt' = now + d
        /\ healthy' = FALSE /\ opened' = Unset /\ kept' = Unset /\ served' = served
        /\ since' = IF OutageGoesOn THEN kept ELSE IF since = Unset THEN now ELSE since
    BY DEF Lost, MarkUnhealthy, ThisLoss
  <1>5. /\ log' \in Seq(Losses) /\ log' # <<>> /\ Len(log') = Len(log) + 1
        /\ log'[Len(log) + 1] = ThisLoss
    BY <1>1, <1>2, <1>4, LogGrows
  <1>6. /\ HasLast(ProvedAt)' /\ HasLast(LongAt)'
        /\ OutageSince' = IF Proved(ThisLoss) \/ log = <<>> THEN now ELSE OutageSince
        /\ LossesInARow' = IF Long(ThisLoss) \/ log = <<>> THEN 0 ELSE LossesInARow + 1
        /\ LossesInARow \in Int
    BY <1>1, <1>2, <1>3, <1>4, LossCounts DEF HealthInv
  <1>7. Len(log) \in Nat /\ attempts <= Len(log)
    BY <1>1 DEF HealthInv
  <1>8. n = LossesInARow' /\ n \in Nat /\ n <= attempts
    <2>1. CASE log = <<>>
      <3>1. attempts = 0
        BY <2>1 DEF HealthInv, PenaltyFits
      <3> QED
        BY <1>6, <2>1, <3>1
    <2>2. CASE log # <<>>
      <3>1. attempts = LossesInARow + 1
        BY <2>2 DEF HealthInv, PenaltyFits
      <3> QED
        BY <1>1, <1>2, <1>6, <2>2, <3>1
    <2> QED
      BY <2>1, <2>2
  <1> HIDE DEF n
  <1>9. PICK d \in Jittered(Delay(n)) : wakeAt' = now + d
    BY <1>4
  <1>10. d \in Nat /\ d <= 2 * MaxDelay
    BY <1>8, DelayFits
  <1>11. since' = OutageSince'
    <2>1. CASE healthy
      <3>1. since = Unset /\ kept = IF served THEN Unset ELSE OutageSince
        BY <2>1 DEF HealthInv, ClockFits
      <3>2. OutageGoesOn => ~served
        BY DEF OutageGoesOn
      <3> QED
        BY <1>2, <1>4, <1>6, <2>1, <3>1, <3>2
    <2>2. CASE ~healthy
      <3>1. since = OutageSince /\ opened = Unset
        BY <2>2 DEF HealthInv, ClockFits
      <3>2. ~Proved(ThisLoss)
        BY <2>2, <3>1 DEF Proved, ThisLoss
      <3>3. CASE log = <<>>
        BY <1>2, <1>4, <1>6, <2>2, <3>1, <3>3 DEF OutageSince
      <3>4. CASE log # <<>>
        <4>1. OutageStart \in Times
          BY <1>1, <3>4, OutageIsATime DEF HealthInv
        <4>2. since # Unset
          BY <1>1, <3>1, <3>4, <4>1 DEF OutageSince, Times, Unset
        <4> QED
          BY <1>2, <1>4, <1>6, <2>2, <3>1, <3>2, <3>4, <4>2
      <3> QED
        BY <3>3, <3>4
    <2> QED
      BY <2>1, <2>2, <1>1
  <1>12. attempts' = n + 1 /\ n \in Nat /\ n <= attempts
    BY <1>4, <1>8
  <1>13. Len(log') = Len(log) + 1 /\ Len(log) < MaxAttempts
    BY <1>4, <1>5
  <1>14. HealthTypeOK'
    <2>1. wakeAt' \in 0..MaxTime + 2 * MaxDelay + 1
      BY <1>1, <1>9, <1>10 DEF Times
    <2>2. attempts' \in 0..MaxAttempts /\ Len(log') <= MaxAttempts
      BY <1>1, <1>12, <1>13, <1>7
    <2>3. since' \in {Unset} \cup Times
      BY <1>1, <1>4
    <2> QED
      BY <1>1, <1>4, <1>5, <2>1, <2>2, <2>3 DEF HealthTypeOK
  <1>15. ClockFits'
    BY <1>4, <1>11 DEF ClockFits
  <1>16. PenaltyFits' /\ (attempts <= Len(log))'
    <2>1. PenaltyFits'
      BY <1>5, <1>8, <1>12 DEF PenaltyFits
    <2>2. attempts' <= Len(log')
      BY <1>1, <1>7, <1>12, <1>13
    <2> QED
      BY <2>1, <2>2
  <1>17. PenaltyFitsTheLosses'
    <2>1. log'[Len(log')].at = now
      BY <1>3, <1>5
    <2>2. wakeAt' - now = d
      BY <1>1, <1>9, <1>10 DEF Times
    <2> QED
      BY <1>8, <1>9, <2>1, <2>2 DEF PenaltyFitsTheLosses
  <1> QED
    BY <1>5, <1>6, <1>14, <1>15, <1>16, <1>17 DEF HealthInv

\* A step that loses no stream leaves the history's account alone: what is left
\* to show of it is about the clock, the outage clock and the phase.
LEMMA QuietStep ==
    ASSUME HealthInv, UNCHANGED <<log, attempts>>,
           HealthTypeOK', ClockFits',
           phase' = "backoff" => phase = "backoff" /\ wakeAt' = wakeAt
    PROVE  HealthInv'
  <1>1. /\ HasLast(ProvedAt)' /\ HasLast(LongAt)'
        /\ LossesInARow' = LossesInARow
    BY AccountStays DEF HealthInv
  <1>2. PenaltyFits'
    BY <1>1 DEF HealthInv, PenaltyFits
  <1>3. (attempts <= Len(log))' /\ (phase = "backoff" => log # <<>>)'
    BY DEF HealthInv
  <1>4. PenaltyFitsTheLosses'
    BY <1>1 DEF HealthInv, PenaltyFitsTheLosses
  <1> QED
    BY <1>1, <1>2, <1>3, <1>4 DEF HealthInv

LEMMA OpensStep ==
    ASSUME HealthInv, Opens
    PROVE  HealthInv'
  <1>1. OutageSince' = OutageSince
    BY AccountStays DEF Opens
  <1>2. ~healthy /\ now \in Times
    BY DEF HealthInv, HealthTypeOK, ClockFits, Opens
  <1>3. HealthTypeOK'
    BY DEF HealthInv, HealthTypeOK, Opens, MarkHealthy
  <1>4. ClockFits'
    <2>1. since = OutageSince /\ now \in Nat
      BY <1>2, BoundsAssumption DEF HealthInv, ClockFits, Times
    <2> QED
      BY <1>1, <1>2, <2>1 DEF ClockFits, Opens, MarkHealthy
  <1> QED
    BY <1>3, <1>4, QuietStep DEF Opens

LEMMA FrameStep ==
    ASSUME HealthInv, Frame
    PROVE  HealthInv'
  <1>1. OutageSince' = OutageSince
    BY AccountStays DEF Frame
  <1>2. HealthTypeOK'
    BY DEF HealthInv, HealthTypeOK, Frame
  <1>3. ClockFits'
    BY <1>1 DEF HealthInv, ClockFits, Frame
  <1> QED
    BY <1>2, <1>3, QuietStep DEF Frame

LEMMA BackoffEndsStep ==
    ASSUME HealthInv, BackoffEnds
    PROVE  HealthInv'
  <1>1. OutageSince' = OutageSince
    BY AccountStays DEF BackoffEnds
  <1>2. HealthTypeOK'
    BY DEF HealthInv, HealthTypeOK, BackoffEnds, clocks
  <1>3. ClockFits'
    BY <1>1 DEF HealthInv, ClockFits, BackoffEnds, clocks
  <1> QED
    BY <1>2, <1>3, QuietStep DEF BackoffEnds

LEMMA TickStep ==
    ASSUME HealthInv, Tick
    PROVE  HealthInv'
  <1>1. OutageSince' = OutageSince
    BY AccountStays DEF Tick
  <1>2. now' \in Times /\ now <= now'
    BY BoundsAssumption DEF HealthInv, HealthTypeOK, Tick, Times
  <1>3. HealthTypeOK'
    BY <1>2 DEF HealthInv, HealthTypeOK, Tick, clocks
  <1>4. ClockFits'
    <2>1. healthy => opened \in Times /\ opened <= now'
      BY <1>2, BoundsAssumption DEF HealthInv, HealthTypeOK, ClockFits, Times
    <2> QED
      BY <1>1, <2>1 DEF HealthInv, ClockFits, Tick, clocks
  <1> QED
    BY <1>3, <1>4, QuietStep DEF Tick

LEMMA InitHealthInv == HealthInit => HealthInv
  <1> SUFFICES ASSUME HealthInit PROVE HealthInv
    OBVIOUS
  <1>1. log = <<>> /\ Len(log) = 0 /\ <<>> \in Seq(Losses)
    BY DEF HealthInit
  <1>2. ProvedAt = {} /\ LongAt = {}
    BY <1>1 DEF ProvedAt, LongAt
  <1>3. HealthTypeOK
    <2>1. now \in Times /\ wakeAt \in 0..MaxTime + 2 * MaxDelay + 1
      BY BoundsAssumption DEF HealthInit, Times
    <2>2. attempts \in 0..MaxAttempts /\ Len(log) <= MaxAttempts
      BY <1>1, BoundsAssumption DEF HealthInit
    <2>3. log \in Seq(Losses)
      BY <1>1
    <2> QED
      BY <2>1, <2>2, <2>3 DEF HealthInit, HealthTypeOK
  <1>4. ClockFits
    BY <1>1 DEF HealthInit, ClockFits, OutageSince
  <1>5. PenaltyFits /\ attempts <= Len(log)
    BY <1>1 DEF HealthInit, PenaltyFits
  <1>6. phase = "connect"
    BY DEF HealthInit
  <1> QED
    BY <1>2, <1>3, <1>4, <1>5, <1>6 DEF HealthInv, HasLast, PenaltyFitsTheLosses

LEMMA NextHealthInv == HealthInv /\ [HealthNext]_health => HealthInv'
  <1> SUFFICES ASSUME HealthInv, [HealthNext]_health PROVE HealthInv'
    OBVIOUS
  <1>1. CASE ConnectFails
    BY <1>1, LostStep DEF ConnectFails
  <1>2. CASE Opens
    BY <1>2, OpensStep
  <1>3. CASE Frame
    BY <1>3, FrameStep
  <1>4. CASE Drops
    BY <1>4, LostStep DEF Drops
  <1>5. CASE BackoffEnds
    BY <1>5, BackoffEndsStep
  <1>6. CASE Tick
    BY <1>6, TickStep
  <1>7. CASE UNCHANGED health
    <2>1. OutageSince' = OutageSince
      BY <1>7, AccountStays DEF health
    <2>2. HealthTypeOK'
      BY <1>7 DEF HealthInv, HealthTypeOK, health, clocks
    <2>3. ClockFits'
      BY <1>7, <2>1 DEF HealthInv, ClockFits, health, clocks
    <2> QED
      BY <1>7, <2>2, <2>3, QuietStep DEF health
  <1> QED
    BY <1>1, <1>2, <1>3, <1>4, <1>5, <1>6, <1>7 DEF HealthNext

(* The loop keeps its flag, its outage clock and its penalty in step with  *)
(* the history of its losses, in every reachable state.                    *)
THEOREM WatchInvariant == HealthSpec => []HealthInv
  BY InitHealthInv, NextHealthInv, PTL DEF HealthSpec

-----------------------------------------------------------------------------
(* What readiness and the back-off owe.                                    *)

(* Readiness follows the outage the Brain causes and not the attempts of   *)
(* the loop: whatever the grace and the cap, and however streams open,     *)
(* serve and drop, the process is past its grace exactly when the last     *)
(* served stream was lost longer ago than that.                            *)
THEOREM OutageMeasured == HealthSpec => []OutageIsContinuous
  <1>1. HealthInv => OutageIsContinuous
    <2> SUFFICES ASSUME HealthInv, log # <<>>, phase # "open"
                 PROVE  Ready <=> synced /\ now - OutageStart <= Grace
      BY DEF OutageIsContinuous
    <2>1. since = OutageStart
      BY DEF HealthInv, ClockFits, OutageSince
    <2>2. OutageStart \in Times
      BY OutageIsATime DEF HealthInv, HealthTypeOK
    <2>3. since # Unset /\ since \in Int /\ now \in Int /\ Grace \in Int
      BY <2>1, <2>2, BoundsAssumption DEF HealthInv, HealthTypeOK, Times, Unset
    <2>4. now - since > Grace <=> ~(now - since <= Grace)
      BY <2>3
    <2> QED
      BY <2>1, <2>3, <2>4 DEF Ready, PastGrace
  <1> QED
    BY <1>1, WatchInvariant, PTL

(* The wait before the next attempt doubles with every loss since the last *)
(* stream that stayed open for a re-sync interval, up to the cap, for any  *)
(* cap, interval and number of losses.                                     *)
THEOREM PenaltyMeasured == HealthSpec => []PenaltyFitsTheLosses
  <1>1. HealthInv => PenaltyFitsTheLosses
    BY DEF HealthInv
  <1> QED
    BY <1>1, WatchInvariant, PTL

-----------------------------------------------------------------------------
(* SnapshotResync: the inductive invariant *)

Free(k) == sync[k] \in {Idle, Waiting}

\* One task at a time is inside the sync lock.
OneHolder == \A j, k \in Task : j # k => Free(j) \/ Free(k)

IInv ==
    /\ TypeOK
    /\ OneHolder
    /\ NoDeleteFallsBetween
    /\ PausedExactlyUnderPressure
    /\ SnapshotsInstallInOrder

SyncStates(n) == {Idle, Waiting, Reading} \cup {Read(w) : w \in 0..n}

-----------------------------------------------------------------------------
(* Pressure *)

\* More deletes on record press no less.
LEMMA PressureGrows ==
    ASSUME NEW S, NEW T \in SUBSET (1..Now), S \subseteq T, Now \in Nat
    PROVE  UnderPressure(S) \subseteq UnderPressure(T)
<1> SUFFICES ASSUME NEW p \in Project, PressureOf(p, S) >= TombstoneCap
             PROVE  PressureOf(p, T) >= TombstoneCap
  BY DEF UnderPressure
<1> DEFINE A == {r \in S : deletes[r] = p}
           B == {r \in T : deletes[r] = p}
<1>1. IsFiniteSet(1..Now)
  BY FS_Interval
<1>2. IsFiniteSet(B)
  BY <1>1, FS_Subset
<1>3. A \subseteq B /\ IsFiniteSet(A)
  BY <1>2, FS_Subset
<1>4. Cardinality(A) <= Cardinality(B)
  BY <1>2, <1>3, FS_Subset
<1>5. Cardinality(A) \in Nat /\ Cardinality(B) \in Nat
  BY <1>2, <1>3, FS_CardinalityType
<1> QED
  BY <1>4, <1>5, ResyncAssumption DEF PressureOf

-----------------------------------------------------------------------------
(* The steps *)

LEMMA InitHolds == Init => IInv
<1> SUFFICES ASSUME Init PROVE IInv
  OBVIOUS
<1>1. deletes = <<>> /\ Now = 0 /\ tombs = {}
  BY DEF Init, Now
<1>2. \A p \in Project : PressureOf(p, {}) = 0
  BY FS_EmptySet DEF PressureOf
<1>3. PausedExactlyUnderPressure
  BY <1>1, <1>2, ResyncAssumption DEF Init, PausedExactlyUnderPressure, UnderPressure
<1>4. TypeOK
  BY <1>1, ResyncAssumption DEF Init, TypeOK, Task
<1>5. OneHolder /\ NoDeleteFallsBetween /\ SnapshotsInstallInOrder
  BY <1>1 DEF Init, OneHolder, Free, NoDeleteFallsBetween, SnapshotsInstallInOrder, Idle
<1> QED
  BY <1>3, <1>4, <1>5 DEF IInv

LEMMA BrainDeleteKeeps ==
    ASSUME IInv, NEW p \in Project, BrainDelete(p) PROVE IInv'
<1> USE DEF IInv
<1>1. Now \in Nat /\ Now' = Now + 1 /\ deletes' \in Seq(Project)
  BY DEF BrainDelete, TypeOK, Now
<1>2. TypeOK'
  BY <1>1 DEF BrainDelete, TypeOK
<1>3. UnderPressure(tombs)' = UnderPressure(tombs)
  <2>1. tombs \in SUBSET (1..Now) /\ tombs' = tombs
    BY DEF BrainDelete, TypeOK
  <2>2. deletes \in Seq(Project) /\ deletes' = Append(deletes, p)
    BY DEF BrainDelete, TypeOK
  <2>3. \A q \in Project : {r \in tombs' : deletes'[r] = q} = {r \in tombs : deletes[r] = q}
    <3>1. \A r \in tombs : deletes'[r] = deletes[r]
      BY <2>1, <2>2 DEF Now
    <3> QED
      BY <2>1, <3>1
  <2> QED
    BY <2>3 DEF UnderPressure, PressureOf
<1>4. PausedExactlyUnderPressure'
  BY <1>3 DEF BrainDelete, PausedExactlyUnderPressure
<1>5. OneHolder' /\ NoDeleteFallsBetween' /\ SnapshotsInstallInOrder'
  BY DEF BrainDelete, OneHolder, Free, NoDeleteFallsBetween, SnapshotsInstallInOrder
<1> QED
  BY <1>2, <1>4, <1>5

LEMMA DeliverNextKeeps ==
    ASSUME IInv, DeliverNext PROVE IInv'
<1> USE DEF IInv
<1> DEFINE T == IF cursor + 1 <= watermark THEN tombs ELSE tombs \cup {cursor + 1}
<1>1. Now \in Nat /\ Now' = Now /\ deletes' = deletes
  BY DEF DeliverNext, TypeOK, Now
<1>2. /\ sync' \in [Task -> SyncStates(Now)]
      /\ \A k \in Task : sync'[k] = sync[k] \/ (sync[k] = Idle /\ sync'[k] = Waiting)
  <2>1. sync \in [Task -> SyncStates(Now)]
    BY DEF TypeOK, SyncStates
  <2>2. sync' \in Requested(sync, paused' \ paused)
    BY DEF DeliverNext
  <2>3. Waiting \in SyncStates(Now) /\ "requested" \in Task
    BY DEF SyncStates, Task
  <2>4. sync' = sync \/ (sync["requested"] = Idle /\ sync' = [sync EXCEPT !["requested"] = Waiting])
    BY <2>2 DEF Requested
  <2> QED
    BY <2>1, <2>3, <2>4
<1>3. /\ cursor \in Nat /\ watermark \in Nat /\ cursor < Now
      /\ cursor' = cursor + 1 /\ watermark' = watermark /\ tombs' = T
      /\ tombs \in SUBSET (1..Now)
  BY <1>1 DEF DeliverNext, TypeOK
<1>4. T \in SUBSET (1..Now) /\ tombs \subseteq T /\ cursor' \in 0..Now
  BY <1>1, <1>3
<1>5. UnderPressure(tombs) \subseteq UnderPressure(T)
  <2> HIDE DEF T
  <2> QED
    BY <1>1, <1>3, <1>4, PressureGrows
<1>6. paused' = UnderPressure(T)
  <2>1. paused' = paused \cup UnderPressure(tombs')
    BY DEF DeliverNext
  <2>2. UnderPressure(tombs') = UnderPressure(T)
    BY <1>3
  <2> QED
    BY <1>5, <2>1, <2>2 DEF PausedExactlyUnderPressure
<1>7. PausedExactlyUnderPressure'
  <2>1. UnderPressure(tombs)' = UnderPressure(T)
    BY <1>1, <1>3 DEF UnderPressure, PressureOf
  <2> QED
    BY <1>6, <2>1 DEF PausedExactlyUnderPressure
<1>8. NoDeleteFallsBetween'
  <2>1. tombs = (watermark + 1)..cursor
    BY DEF NoDeleteFallsBetween
  <2>2. CASE cursor + 1 <= watermark
    BY <1>3, <2>1, <2>2 DEF NoDeleteFallsBetween
  <2>3. CASE ~(cursor + 1 <= watermark)
    <3>1. (watermark + 1)..(cursor + 1) = ((watermark + 1)..cursor) \cup {cursor + 1}
      BY <1>3, <2>3
    <3> QED
      BY <1>3, <2>1, <2>3, <3>1 DEF NoDeleteFallsBetween
  <2> QED
    BY <2>2, <2>3
<1>9. OneHolder' /\ SnapshotsInstallInOrder'
  BY <1>2, <1>3 DEF OneHolder, Free, SnapshotsInstallInOrder, Idle, Waiting
<1>10. TypeOK'
  <2>1. paused' \in SUBSET Project
    BY <1>6 DEF UnderPressure
  <2> QED
    BY <1>1, <1>2, <1>3, <1>4, <2>1 DEF DeliverNext, TypeOK, SyncStates
<1> QED
  BY <1>7, <1>8, <1>9, <1>10

\* The steps that move a task or the stream and leave what is on record alone.
LEMMA TaskStepKeeps ==
    ASSUME IInv,
           UNCHANGED <<deletes, tombs, watermark, paused, cursor>>,
           stream' \in {"down", "syncing", "open"}, failures' \in 0..MaxFailures,
           sync' \in [Task -> SyncStates(Now)],
           OneHolder', SnapshotsInstallInOrder'
    PROVE  IInv'
<1>1. Now' = Now
  BY DEF Now
<1>2. TypeOK'
  BY <1>1 DEF IInv, TypeOK, SyncStates
<1>3. NoDeleteFallsBetween' /\ PausedExactlyUnderPressure'
  BY DEF IInv, NoDeleteFallsBetween, PausedExactlyUnderPressure, UnderPressure, PressureOf
<1> QED
  BY <1>2, <1>3 DEF IInv

LEMMA SyncKept ==
    ASSUME IInv, UNCHANGED <<sync, watermark, deletes>>
    PROVE  sync' \in [Task -> SyncStates(Now)] /\ OneHolder' /\ SnapshotsInstallInOrder'
BY DEF IInv, TypeOK, SyncStates, OneHolder, Free, SnapshotsInstallInOrder

\* A task that is set to one of the first two states, or to Reading with the lock free.
LEMMA SyncMoved ==
    ASSUME IInv, UNCHANGED <<watermark, deletes>>,
           NEW k \in Task, NEW v, sync' = [sync EXCEPT ![k] = v],
           \/ v \in {Idle, Waiting}
           \/ v = Reading /\ \A j \in Task : sync[j] \in {Idle, Waiting}
           \/ v = Read(Now) /\ sync[k] = Reading
    PROVE  sync' \in [Task -> SyncStates(Now)] /\ OneHolder' /\ SnapshotsInstallInOrder'
<1> USE DEF IInv
<1>1. Now \in Nat /\ watermark \in 0..Now /\ sync \in [Task -> SyncStates(Now)]
  BY DEF TypeOK, SyncStates, Now
<1>2. v \in SyncStates(Now)
  BY <1>1 DEF SyncStates
<1>3. sync' \in [Task -> SyncStates(Now)]
  BY <1>1, <1>2
<1>4. OneHolder'
  <2>1. \A j \in Task : j # k => sync'[j] = sync[j]
    BY <1>1
  <2>2. sync'[k] = v
    BY <1>1
  <2>3. v \in {Idle, Waiting} \/ \A j \in Task : j # k => Free(j)
    BY DEF OneHolder, Free, Idle, Waiting, Reading
  <2> QED
    BY <2>1, <2>2, <2>3 DEF OneHolder, Free
<1>5. SnapshotsInstallInOrder'
  BY <1>1 DEF SnapshotsInstallInOrder, Idle, Waiting, Reading, Read
<1> QED
  BY <1>3, <1>4, <1>5

LEMMA SmallStepsKeep ==
    ASSUME IInv,
           \/ StreamEnds \/ Reconnect \/ PeriodicTimer
           \/ \E k \in Task : TakeLock(k) \/ BrainSnapshot(k) \/ SyncFails(k)
    PROVE  IInv'
<1>0. failures \in 0..MaxFailures /\ MaxFailures \in Nat /\ stream \in {"down", "syncing", "open"}
  BY ResyncAssumption DEF IInv, TypeOK
<1>1. CASE StreamEnds
  <2>1. sync' \in [Task -> SyncStates(Now)] /\ OneHolder' /\ SnapshotsInstallInOrder'
    BY <1>1, SyncKept DEF StreamEnds
  <2> QED
    BY <1>0, <1>1, <2>1, TaskStepKeeps DEF StreamEnds
<1>2. CASE Reconnect
  <2>1. "watch" \in Task
    BY DEF Task
  <2>2. sync' \in [Task -> SyncStates(Now)] /\ OneHolder' /\ SnapshotsInstallInOrder'
    BY <1>2, <2>1, SyncMoved DEF Reconnect
  <2> QED
    BY <1>0, <1>2, <2>2, TaskStepKeeps DEF Reconnect
<1>3. CASE PeriodicTimer
  <2>1. "periodic" \in Task
    BY DEF Task
  <2>2. sync' \in [Task -> SyncStates(Now)] /\ OneHolder' /\ SnapshotsInstallInOrder'
    BY <1>3, <2>1, SyncMoved DEF PeriodicTimer
  <2> QED
    BY <1>0, <1>3, <2>2, TaskStepKeeps DEF PeriodicTimer
<1>4. ASSUME NEW k \in Task, TakeLock(k) PROVE IInv'
  <2>1. sync' \in [Task -> SyncStates(Now)] /\ OneHolder' /\ SnapshotsInstallInOrder'
    BY <1>4, SyncMoved DEF TakeLock
  <2> QED
    BY <1>0, <1>4, <2>1, TaskStepKeeps DEF TakeLock
<1>5. ASSUME NEW k \in Task, BrainSnapshot(k) PROVE IInv'
  <2>1. sync' \in [Task -> SyncStates(Now)] /\ OneHolder' /\ SnapshotsInstallInOrder'
    BY <1>5, SyncMoved DEF BrainSnapshot
  <2> QED
    BY <1>0, <1>5, <2>1, TaskStepKeeps DEF BrainSnapshot
<1>6. ASSUME NEW k \in Task, SyncFails(k) PROVE IInv'
  <2>1. sync' \in [Task -> SyncStates(Now)] /\ OneHolder' /\ SnapshotsInstallInOrder'
    BY <1>6, SyncMoved DEF SyncFails
  <2> QED
    BY <1>0, <1>6, <2>1, TaskStepKeeps DEF SyncFails
<1> QED
  BY <1>1, <1>2, <1>3, <1>4, <1>5, <1>6

LEMMA InstallKeeps ==
    ASSUME IInv, NEW k \in Task, Install(k) PROVE IInv'
<1> USE DEF IInv
<1> DEFINE w == sync[k].at
           s == [sync EXCEPT ![k] = Idle]
<1>1. Now \in Nat /\ Now' = Now /\ deletes' = deletes
  BY DEF Install, TypeOK, Now
<1>2. sync \in [Task -> SyncStates(Now)] /\ sync[k].pc = "read"
  BY DEF Install, TypeOK, SyncStates
<1>3. w \in 0..Now /\ w >= watermark
  <2>1. sync[k] \in {Read(v) : v \in 0..Now}
    BY <1>2 DEF SyncStates, Idle, Waiting, Reading
  <2> QED
    BY <1>2, <2>1 DEF Read, SnapshotsInstallInOrder
<1>4. /\ tombs' = {r \in tombs : r > w}
      /\ watermark' = w
      /\ paused' = UnderPressure(tombs')
  BY <1>1, <1>3 DEF Install, TypeOK
<1>5. s \in [Task -> SyncStates(Now)]
  BY <1>2 DEF SyncStates
<1>6. /\ sync' \in [Task -> SyncStates(Now)]
      /\ \A j \in Task : sync'[j] = s[j] \/ (s[j] = Idle /\ sync'[j] = Waiting)
  <2>1. sync' \in Requested(s, paused' \ paused)
    BY DEF Install
  <2>2. sync' = s \/ (s["requested"] = Idle /\ sync' = [s EXCEPT !["requested"] = Waiting])
    BY <2>1 DEF Requested
  <2>3. Waiting \in SyncStates(Now) /\ "requested" \in Task
    BY DEF SyncStates, Task
  <2> HIDE DEF s
  <2> QED
    BY <1>5, <2>2, <2>3
<1>7. \A j \in Task : sync'[j] \in {Idle, Waiting}
  <2>1. ~Free(k)
    BY <1>2 DEF Free, Idle, Waiting
  <2>2. \A j \in Task : j # k => s[j] = sync[j] /\ Free(j)
    BY <1>2, <2>1 DEF OneHolder
  <2>3. s[k] = Idle
    BY <1>2
  <2> QED
    BY <1>6, <2>2, <2>3 DEF Free
<1>8. OneHolder' /\ SnapshotsInstallInOrder'
  BY <1>7 DEF OneHolder, Free, SnapshotsInstallInOrder, Idle, Waiting
<1>9. cursor' \in 0..Now /\ stream' \in {"down", "syncing", "open"}
      /\ (cursor' = cursor \/ (w > cursor /\ cursor' = w))
  BY <1>1, <1>3 DEF Install, TypeOK
<1>10. NoDeleteFallsBetween'
  BY <1>1, <1>3, <1>4, <1>9 DEF TypeOK, NoDeleteFallsBetween
<1>11. PausedExactlyUnderPressure'
  BY <1>1, <1>4 DEF PausedExactlyUnderPressure, UnderPressure, PressureOf
<1>12. TypeOK'
  BY <1>1, <1>3, <1>4, <1>6, <1>9 DEF Install, TypeOK, SyncStates, UnderPressure
<1> QED
  BY <1>8, <1>10, <1>11, <1>12

-----------------------------------------------------------------------------
\* Whatever breaks and whoever syncs, the invariant that ties the record of
\* deletes to the watermark, the cursor and the lock holds in every state.
THEOREM ResyncInvariant == Spec => []IInv
<1>1. Init => IInv
  BY InitHolds
<1>2. IInv /\ [Next]_vars => IInv'
  <2> SUFFICES ASSUME IInv, [Next]_vars PROVE IInv'
    OBVIOUS
  <2>1. CASE UNCHANGED vars
    BY <2>1 DEF vars, IInv, TypeOK, OneHolder, Free, NoDeleteFallsBetween, PausedExactlyUnderPressure,
                SnapshotsInstallInOrder, UnderPressure, PressureOf, Now
  <2>2. CASE Next
    BY <2>2, BrainDeleteKeeps, DeliverNextKeeps, SmallStepsKeep, InstallKeeps DEF Next
  <2> QED
    BY <2>1, <2>2
<1> QED
  BY <1>1, <1>2, PTL DEF Spec

\* No delete is ever missed between a snapshot and the stream that follows it
\* (_full_sync and OrderedWatchApplier), for any log and any failures.
THEOREM NothingFallsBetween == Spec => []NoDeleteFallsBetween
<1>1. IInv => NoDeleteFallsBetween
  BY DEF IInv
<1> QED
  BY <1>1, ResyncInvariant, PTL

\* The pause of ScheduleCache follows the pressure, for any cap and any projects.
THEOREM PausesFollowPressure == Spec => []PausedExactlyUnderPressure
<1>1. IInv => PausedExactlyUnderPressure
  BY DEF IInv
<1> QED
  BY <1>1, ResyncInvariant, PTL

\* The sync lock orders the snapshots of the three tasks.
THEOREM SnapshotsAreOrdered == Spec => []SnapshotsInstallInOrder
<1>1. IInv => SnapshotsInstallInOrder
  BY DEF IInv
<1> QED
  BY <1>1, ResyncInvariant, PTL
=============================================================================
