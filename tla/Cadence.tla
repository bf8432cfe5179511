------------------------------- MODULE Cadence -------------------------------
(***************************************************************************)
(* The cadence calculators (tick/cron.py, interval.py, solar.py,           *)
(* one_shot.py) and how the engine uses them: _next_fire_for for the slot  *)
(* after a fire, _compute_missed_*_slots for what an outage missed.        *)
(*                                                                         *)
(* Instants are integers (UTC).  A zone changes its offset at most once;   *)
(* an expression is the set of local times it matches.  croniter, zoneinfo *)
(* and astral are external: what the code relies on, and its tests pin, is *)
(* written at their definitions.  One unit is the second that a walk steps *)
(* back, and also the granularity of the slots.                            *)
(***************************************************************************)
EXTENDS Integers, FiniteSets

CONSTANT
    Horizon,        \* bound: the last instant looked at
    Turns,          \* when a zone may change its offset
    Shift,          \* by how much
    MaxShift,       \* _MAX_DST_SHIFT
    LocalTimes,     \* the local times a cron expression may match
    Steps,          \* the lengths of an interval
    DayLength,      \* of a UTC day
    MaxDays,        \* max_days_ahead of next_solar_fire
    ScanFactor,     \* a solar backlog is scanned for ScanFactor * cap events
    Anchors,        \* when a schedule is created
    Caps            \* the cap of a backlog

ASSUME NumbersAssumption ==
    /\ Horizon \in Nat /\ Turns \subseteq Nat /\ Shift \in Nat
    /\ MaxShift \in Nat /\ Shift < MaxShift
    /\ LocalTimes \subseteq Nat /\ Steps \subseteq Nat \ {0}
    /\ DayLength \in Nat \ {0} /\ MaxDays \in Nat \ {0} /\ ScanFactor \in Nat \ {0}
    /\ Anchors \subseteq 0..Horizon /\ Caps \subseteq Nat \ {0}

(* A solar backlog is scanned to its end: 80,000 events are two centuries. *)
ASSUME ScanAssumption == \A n \in Caps : Horizon \div DayLength < ScanFactor * n

None == -1      \* no such instant, or one beyond the Horizon
Instants == 0..Horizon

Latest(S, n) == {x \in S : Cardinality({y \in S : y > x}) < n}
Least(S) == IF S = {} THEN None ELSE CHOOSE x \in S : \A y \in S : x <= y
Greatest(S) == CHOOSE x \in S : \A y \in S : x >= y
Larger(a, b) == IF a > b THEN a ELSE b

-----------------------------------------------------------------------------
(* zoneinfo *)

Zones ==
    {[turn |-> 0, before |-> 0, after |-> 0]} \cup
    [turn : Turns, before : {0}, after : {Shift}] \cup
    [turn : Turns, before : {Shift}, after : {0}]

Offset(zone, t) == IF t < zone.turn THEN zone.before ELSE zone.after

Local(zone, t) == t + Offset(zone, t)

(* the local times that do not exist *)
Gap(zone) == {w \in LocalTimes : zone.turn + zone.before <= w /\ w < zone.turn + zone.after}

(* An instant of a local time: the second one of a repeated hour, and for  *)
(* a time in the gap the one its old offset makes of it, past the gap.     *)
InstantOf(zone, w) ==
    IF w - zone.after >= zone.turn THEN w - zone.after ELSE w - zone.before

-----------------------------------------------------------------------------
(* croniter *)

(* get_next, again and again from t: both instants of a repeated local     *)
(* time, and a time in the gap at its snapped instant if t is before the   *)
(* gap.  What it makes of several matches in and right after a gap no test *)
(* pins: CronDefs leaves such expressions out.                             *)
Ahead(d, t) ==
    {u \in t + 1..Horizon : Local(d.zone, u) \in d.local} \cup
    {InstantOf(d.zone, w) : w \in {v \in Gap(d.zone) \cap d.local : t < d.zone.turn}}

(* get_prev, n times from right after t: it steps through local times *)
Behind(d, t, n) == Latest({w \in d.local : w <= Local(d.zone, t)}, n)

CronDefs ==
    {d \in [kind : {"cron"}, local : SUBSET LocalTimes, zone : Zones] :
        \/ Gap(d.zone) \cap d.local = {}
        \/ /\ Cardinality(Gap(d.zone) \cap d.local) = 1
           /\ \A w \in d.local :
                 w < d.zone.turn + d.zone.after \/ w >= d.zone.turn + d.zone.after + Shift}

-----------------------------------------------------------------------------
(* cron.py *)

CronNext(d, after) == Least(Ahead(d, after) \cap Instants)

(* the backward walk, until it reaches after *)
Walked(d, after, until, cap) ==
    LET all == Behind(d, until, cap) IN
        {w \in all : \A v \in all : v >= w => InstantOf(d.zone, v) > after}

\* Mutant: a repeated hour is not stepped back over.
BackOffOneSecond(zone, t) == 1

(* one second, and the width of the overlap if there was one *)
BackOff(zone, t) ==
    LET overlap == Offset(zone, t - MaxShift) - Offset(zone, t) IN
        IF overlap > 0 THEN overlap + 1 ELSE 1

CronStart(d, after, walked) ==
    LET lower == IF walked = {} THEN after ELSE InstantOf(d.zone, Least(walked)) IN
        Larger(after, lower - BackOff(d.zone, lower))

(* fires_between: both walks, by instant, and the latest of them *)
CronBetween(d, after, until, cap) ==
    LET walked == Walked(d, after, until, cap)
        back == {InstantOf(d.zone, w) : w \in walked}
        forward == Ahead(d, CronStart(d, after, walked))
    IN  IF until <= after \/ cap <= 0
           THEN {}
           ELSE Latest({t \in back \cup forward : after < t /\ t <= until}, cap)

-----------------------------------------------------------------------------
(* interval.py, one_shot.py *)

IntervalDefs == [kind : {"interval"}, step : Steps]

(* the first slot is aligned with the epoch, the others with the one before *)
IntervalNext(d, last, anchor) ==
    IF last # None THEN last + d.step ELSE ((anchor \div d.step) + 1) * d.step

(* the closed form of fires_between, from the slot k_start to k_max *)
KMax(step, after, until) == (until - after) \div step

KStart(step, after, until, cap) == Larger(1, KMax(step, after, until) - cap + 1)

IntervalBetween(step, after, until, cap) ==
    {after + k * step : k \in KStart(step, after, until, cap)..KMax(step, after, until)}

OneShotDefs == [kind : {"one_shot"}, at : Instants]

OneShotNext(d, last) == IF last = None THEN d.at ELSE None

-----------------------------------------------------------------------------
(* solar.py *)

Days == 0..Horizon \div DayLength

(* astral: the event of a UTC day, which may come in the last moment of    *)
(* the day before, or not at all, but never too long for max_days_ahead    *)
SolarDefs ==
    {d \in [kind : {"solar"}, event : [Days -> {None} \cup Instants]] :
        /\ \A n \in Days : d.event[n] # None =>
              d.event[n] >= n * DayLength - 1 /\ d.event[n] < (n + 1) * DayLength
        /\ \A n \in Days : \E m \in n + 2..n + MaxDays - 1 : m \notin Days \/ d.event[m] # None}

\* Mutant: the scan begins on the day after.
SolarNextFromTomorrow(d, after) ==
    LET today == after \div DayLength
        later == {n \in Days : today < n /\ n < today + MaxDays /\ d.event[n] # None}
    IN  IF later = {} THEN None ELSE d.event[Least(later)]

(* next_solar_fire: day by day from the date of after *)
SolarNext(d, after) ==
    LET today == after \div DayLength
        later == {n \in Days : /\ today <= n /\ n < today + MaxDays
                               /\ d.event[n] # None /\ d.event[n] > after}
    IN  IF later = {} THEN None ELSE d.event[Least(later)]

SolarStep(d, until, t) ==
    IF t = None \/ SolarNext(d, t) > until THEN None ELSE SolarNext(d, t)

SolarWalk(d, after, until, length) ==
    LET walk[n \in 0..length] == IF n = 0 THEN after ELSE SolarStep(d, until, walk[n - 1])
    IN  walk

SolarBetween(d, after, until, cap) ==
    LET walk == SolarWalk(d, after, until, ScanFactor * cap)
    IN  Latest({walk[n] : n \in 1..ScanFactor * cap} \ {None}, cap)

-----------------------------------------------------------------------------
(* the engine, with one schedule under fire_all_missed *)

VARIABLES
    def,        \* the schedule's definition
    anchor,     \* when it was created
    cap,        \* of a backlog
    now,        \* when the engine last decided
    last,       \* last_fire_at, None before the first fire
    pending,    \* next_fire_at
    batch       \* the slots of the latest decision

cadence == <<def, anchor, cap, now, last, pending, batch>>

Definitions == CronDefs \cup IntervalDefs \cup OneShotDefs \cup SolarDefs

(* _next_fire_for; a schedule that never fired counts from its creation *)
NextFireFor(d, since, after) ==
    CASE d.kind = "cron" -> CronNext(d, IF after = None THEN since ELSE after)
      [] d.kind = "interval" -> IntervalNext(d, after, since)
      [] d.kind = "one_shot" -> OneShotNext(d, after)
      [] d.kind = "solar" -> SolarNext(d, IF after = None THEN since ELSE after)

Between(d, after, until, n) ==
    CASE d.kind = "cron" -> CronBetween(d, after, until, n)
      [] d.kind = "interval" -> IntervalBetween(d.step, after, until, n)
      [] d.kind = "one_shot" -> {}
      [] d.kind = "solar" -> SolarBetween(d, after, until, n)

(* _compute_missed_cron_slots and its mirrors; the slot itself if it never fired *)
MissedSlots(until) ==
    LET since == IF last = None THEN pending ELSE last
        slots == Between(def, since, until, cap) \cup (IF last = None THEN {pending} ELSE {})
    IN  IF slots = {} THEN {pending} ELSE slots

CadenceInit ==
    /\ def \in Definitions
    /\ anchor \in Anchors
    /\ cap \in Caps
    /\ now = anchor
    /\ last = None
    /\ pending = NextFireFor(def, anchor, None)
    /\ batch = {}

Fire(slots) ==
    /\ batch' = slots
    /\ last' = Greatest(slots)
    /\ pending' = NextFireFor(def, anchor, last')
    /\ UNCHANGED <<def, anchor, cap>>

(* on time: one slot *)
FireOnTime ==
    /\ pending \in Instants /\ pending >= now
    /\ now' = pending
    /\ Fire({pending})

(* the engine comes back at until: the backlog in one pass *)
Recover(until) ==
    /\ pending \in Instants
    /\ until >= now /\ pending < until
    /\ now' = until
    /\ Fire(MissedSlots(until))

CadenceNext == FireOnTime \/ \E until \in Instants : Recover(until)

CadenceSpec == CadenceInit /\ [][CadenceNext]_cadence

-----------------------------------------------------------------------------
(* What is due, from the definition alone *)

Matching(d, since) ==
    CASE d.kind = "cron" ->
            {t \in Instants : Local(d.zone, t) \in d.local} \cup
            {InstantOf(d.zone, w) : w \in {v \in Gap(d.zone) \cap d.local : since < d.zone.turn}}
      [] d.kind = "interval" -> {t \in Instants : t % d.step = 0}
      [] d.kind = "one_shot" -> {d.at}
      [] d.kind = "solar" -> {d.event[n] : n \in Days} \ {None}

DueOf(d, since) == {t \in Matching(d, since) \cap Instants : t > since \/ d.kind = "one_shot"}

Due == DueOf(def, anchor)

Missed(until) == {t \in Due : (last = None \/ t > last) /\ t <= until}

CadenceTypeOK ==
    /\ def \in Definitions
    /\ anchor \in Anchors /\ cap \in Caps
    /\ now \in Instants
    /\ last \in {None} \cup Instants
    /\ pending \in {None} \cup Nat
    /\ batch \subseteq Instants

(* The slot the engine waits for is the earliest due one after the last it *)
(* settled, across changes of the offset and days without an event: no     *)
(* slot is left out and none comes twice.                                  *)
PendingIsTheNextDue ==
    LET rest == {t \in Due : last = None \/ t > last} IN
        IF rest = {} THEN pending \notin Instants ELSE pending = Least(rest)

(* the clock has jumped over a slot that is snapped to an instant to come *)
JumpedOver(d, t) ==
    d.kind = "cron" /\ \E w \in Gap(d.zone) \cap d.local :
                           d.zone.turn <= t /\ t < InstantOf(d.zone, w)

Recovered(until) == Latest(Missed(until), cap) \cup (IF last = None THEN {pending} ELSE {})

(* An outage of any length, that began and ended anywhere, is recovered by *)
(* exactly the slots due in it, each once, or the latest of them if there  *)
(* are more than the cap: what the engine would have fired had it been up. *)
(* Left out: a backlog that fills the cap and ends between a gap and a     *)
(* slot of the gap; the backward walk counts that slot, so one is missing. *)
BacklogIsWhatWasDue ==
    [][\/ JumpedOver(def, now') /\ Cardinality(Missed(now')) >= cap
       \/ batch' = Recovered(now')]_cadence

(* The same without the exception, the MOST-RECENT slots of cron.py:213-216. *)
BacklogIsTheLatest == [][batch' = Recovered(now')]_cadence
=============================================================================
