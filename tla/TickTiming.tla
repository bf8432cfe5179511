----------------------------- MODULE TickTiming -----------------------------
(***************************************************************************)
(* When the tick engine fires a due slot, fires it late, or gives it up:   *)
(* tick/engine.py with tick/catch_up.py and tick/interval.py, for one      *)
(* schedule of one replica.  Time is discrete, and passes only while the   *)
(* engine sleeps or awaits the Brain.  The cached row is the Brain's except*)
(* while an acceptance whose answer was lost has not been streamed yet;    *)
(* what the cache does in between is the subject of ScheduleCache.         *)
(***************************************************************************)
EXTENDS Integers, Sequences

CONSTANTS
    Grace,              \* _ON_TIME_GRACE_SECONDS
    Heartbeat,          \* leader_heartbeat_seconds
    Recheck,            \* _follower_recheck_seconds
    BackoffBase,        \* _BASE_FIRE_BACKOFF_SECONDS
    BackoffCap,         \* _MAX_FIRE_BACKOFF_SECONDS
    MaxSleep,           \* _MAX_SLEEP_SECONDS
    UnhealthySleep,     \* _UNHEALTHY_SLEEP_SECONDS
    MaxDispatch,        \* _MAX_DISPATCH_PER_TICK
    MaxMissed,          \* the cap of fires_between
    RpcTimeout,         \* how long a slot may queue for a worker, and an RPC may take
    Interval,           \* the intervals a schedule may have
    MaxTime,            \* bound of this model: the last instant
    MaxEvents           \* bound of this model: edits, demotions, stream and RPC failures, restarts

ASSUME TimingAssumption ==
    /\ {Grace, Heartbeat, Recheck, RpcTimeout, MaxTime, MaxEvents} \subseteq Nat
    /\ {BackoffBase, BackoffCap, MaxSleep, UnhealthySleep, MaxDispatch, MaxMissed} \subseteq Nat \ {0}
    /\ Interval \subseteq Nat \ {0}

VARIABLES
    now,
    policy,     \* catch_up
    row,        \* the cached row
    brain,      \* the Brain's
    leader,     \* is_leader
    healthy,    \* _watch_healthy
    changed,    \* ScheduleCache.changed
    pc,         \* "asleep", "claimed", "planned", "firing" or "skipping"
    nap,        \* how the engine sleeps, and until when
    fire,       \* the claimed entry and the slots being drained
    parked,     \* _follower_parked
    handoff,    \* _follower_handoff
    entitled,   \* _slot_entitled
    backoff,    \* _fire_error_counts, _fire_backoff_until, _fire_backoff_def
    seen,       \* history: what this process saw of the pending slot
    since,      \* history: when leadership and stream health last began
    events

marks == <<parked, handoff, entitled>>
engine == <<pc, nap, fire, marks, backoff, seen>>
gates == <<leader, healthy, since>>
vars == <<now, policy, row, brain, gates, changed, engine, events>>

None == -1
Once == 0           \* the cadence of a one_shot or clocked schedule
Cadence == Interval \cup {Once}
Moment == 0..MaxTime

EntitlementAge == 3 * BackoffCap

\* _promotion_grace_for.
PromotionGrace == Grace + Heartbeat + Recheck

Least(a, b) == IF a < b THEN a ELSE b
Greatest(a, b) == IF a > b THEN a ELSE b

\* _next_fire_for, anchored at the slot s.
NextAfter(cad, s) == IF cad = Once THEN None ELSE s + cad

\* Mutant: the cap keeps the oldest slots.
FiresBetweenOldest(after, step, until) ==
    [k \in 1..Least(MaxMissed, (until - after) \div step) |-> after + k * step]

\* interval.fires_between: the slots of the grid in (after, until], the newest
\* MaxMissed of them.
FiresBetween(after, step, until) ==
    LET last == (until - after) \div step
        start == Greatest(1, last - MaxMissed + 1)
    IN  [k \in 1..(last - start + 1) |-> after + (start + k - 1) * step]

\* Mutant: a fresh schedule's own slot is forgotten.
MissedSlotsAfter(r, t) ==
    LET slots == FiresBetween(IF r.last = None THEN r.next ELSE r.last, r.cad, t)
    IN  IF slots = <<>> THEN <<r.next>> ELSE slots

\* _compute_missed_interval_slots: the slots after the last fire up to t; if nothing
\* was ever fired, the pending one and those after it.
MissedSlots(r, t) ==
    LET slots == IF r.last = None THEN <<r.next>> \o FiresBetween(r.next, r.cad, t)
                                  ELSE FiresBetween(r.last, r.cad, t)
    IN  IF slots = <<>> THEN <<r.next>> ELSE slots

Latest(slots) == slots[Len(slots)]

PlanCatchUp(missed) ==
    CASE policy = "skip"             -> <<>>
      [] policy = "fire_one_missed"  -> <<Latest(missed)>>
      [] policy = "fire_all_missed"  -> missed

MaybeSlot == Nat \cup {None}
Row == [last : MaybeSlot, next : MaybeSlot, cad : Cadence, enabled : BOOLEAN, rev : Nat]

\* at is the clock reading of the iteration; from, when the current wait began.
Fire == [entry : Row, at : Moment, from : Moment, slots : Seq(Nat), sent : Nat, handoff : BOOLEAN, owed : BOOLEAN]

NoEntitlement == [slot |-> None, cad |-> Once, at |-> None]
NoHandoff == [slot |-> None, cad |-> Once]
NoBackoff == [count |-> 0, until |-> None, cad |-> Once]
NothingSeen == [slot |-> None, cad |-> Once, onTime |-> {}, followed |-> FALSE, redefined |-> FALSE]

TypeOK ==
    /\ now \in Moment
    /\ policy \in {"skip", "fire_one_missed", "fire_all_missed"}
    /\ row \in Row /\ brain \in Row
    /\ leader \in BOOLEAN /\ healthy \in BOOLEAN /\ changed \in BOOLEAN
    /\ pc \in {"asleep", "claimed", "planned", "firing", "skipping"}
    /\ nap \in [kind : {"none", "wait", "unhealthy"}, until : Nat]
    /\ fire \in Fire
    /\ parked \in MaybeSlot
    /\ handoff \in [slot : MaybeSlot, cad : Cadence]
    /\ entitled \in [slot : MaybeSlot, cad : Cadence, at : Moment \cup {None}]
    /\ entitled.slot = None <=> entitled.at = None
    /\ backoff \in [count : Nat, until : Int, cad : Cadence]
    /\ seen \in [slot : MaybeSlot, cad : Cadence, onTime : SUBSET (Cadence \X Moment),
                 followed : BOOLEAN, redefined : BOOLEAN]
    /\ since \in [leader : Moment, healthy : Moment]
    /\ events \in 0..MaxEvents

Awake == [kind |-> "none", until |-> now]
NoRow == [last |-> None, next |-> None, cad |-> Once, enabled |-> FALSE, rev |-> 0]
NoFire == [entry |-> NoRow, at |-> 0, from |-> 0, slots |-> <<>>, sent |-> 0, handoff |-> FALSE, owed |-> FALSE]

\* A synchronised process with an empty memory, and a schedule that is due soon or
\* has been due for long.
Init ==
    /\ now \in {0, MaxTime \div 2}
    /\ policy \in {"skip", "fire_one_missed", "fire_all_missed"}
    /\ \E cad \in Cadence :
          row = [last |-> None, next |-> 1, cad |-> cad, enabled |-> TRUE, rev |-> 0]
    /\ brain = row
    /\ leader \in BOOLEAN /\ healthy = TRUE /\ changed = FALSE
    /\ pc = "asleep" /\ nap = Awake /\ fire = NoFire
    /\ parked = None /\ handoff = NoHandoff /\ entitled = NoEntitlement
    /\ backoff = NoBackoff /\ seen = NothingSeen
    /\ since = [leader |-> now, healthy |-> now]
    /\ events = 0

----------------------------------------------------------------------------
(* The world around the engine *)

Count == events < MaxEvents /\ events' = events + 1

\* An operator's edit may leave the pending slot where it is or move it.
EditCadence ==
    /\ Count
    /\ \E cad \in Cadence \ {brain.cad} : \E next \in {brain.next, now + 1} \ {None} :
          brain' = [brain EXCEPT !.cad = cad, !.next = next, !.rev = @ + 1]
    /\ UNCHANGED <<now, policy, row, gates, changed, engine>>

Toggle ==
    /\ Count
    /\ brain' = [brain EXCEPT !.enabled = ~@, !.rev = @ + 1]
    /\ UNCHANGED <<now, policy, row, gates, changed, engine>>

Moved(r, slot) == [r EXCEPT !.last = slot, !.next = NextAfter(r.cad, slot), !.rev = @ + 1]

\* Another replica's fire, on time for the slot pending at the Brain.
OtherReplicaFires ==
    /\ Count
    /\ brain.enabled /\ brain.next \in 0..now
    /\ brain' = Moved(brain, brain.next)
    /\ UNCHANGED <<now, policy, row, gates, changed, engine>>

\* The Watch stream delivers the Brain's row.
Echo ==
    /\ healthy /\ row # brain
    /\ row' = brain /\ changed' = TRUE
    /\ UNCHANGED <<now, policy, brain, gates, engine, events>>

Elected ==
    /\ ~leader
    /\ leader' = TRUE /\ since' = [since EXCEPT !.leader = now]
    /\ UNCHANGED <<now, policy, row, brain, healthy, changed, engine, events>>

Demoted ==
    /\ leader /\ Count
    /\ leader' = FALSE
    /\ UNCHANGED <<now, policy, row, brain, healthy, since, changed, engine>>

StreamBreaks ==
    /\ healthy /\ Count
    /\ healthy' = FALSE
    /\ UNCHANGED <<now, policy, row, brain, leader, since, changed, engine>>

\* The stream is healthy again once its snapshot is applied.
StreamRecovers ==
    /\ ~healthy
    /\ healthy' = TRUE /\ since' = [since EXCEPT !.healthy = now]
    /\ row' = brain /\ changed' = TRUE
    /\ UNCHANGED <<now, policy, brain, leader, engine, events>>

\* A new process remembers nothing, and is neither leader nor synchronised.
Restart ==
    /\ Count
    /\ row' = brain /\ leader' = FALSE /\ healthy' = FALSE /\ changed' = FALSE
    /\ pc' = "asleep" /\ nap' = Awake /\ fire' = NoFire
    /\ parked' = None /\ handoff' = NoHandoff /\ entitled' = NoEntitlement
    /\ backoff' = NoBackoff /\ seen' = NothingSeen
    /\ UNCHANGED <<now, policy, brain, since>>

----------------------------------------------------------------------------
(* Falling asleep and waking up *)

\* _sleep_until_next, on the state the iteration leaves behind.
WakeAt(r, isParked, b) ==
    IF ~r.enabled \/ r.next = None \/ isParked THEN now + MaxSleep ELSE Greatest(r.next, b.until)

\* Mutant: a parked slot waits like any other.
NapForUncapped(r, isParked, b) ==
    LET wait == Least(MaxSleep, WakeAt(r, isParked, b) - now)
    IN  IF wait <= 0 THEN Awake ELSE [kind |-> "wait", until |-> now + wait]

NapFor(r, isParked, b) ==
    LET wait == Least(MaxSleep, WakeAt(r, isParked, b) - now)
        timeout == IF isParked THEN Least(Recheck, wait) ELSE wait
    IN  IF timeout <= 0 THEN Awake ELSE [kind |-> "wait", until |-> now + timeout]

Sleep ==
    /\ pc' = "asleep" /\ fire' = NoFire
    /\ nap' = NapFor(row', parked' # None /\ parked' = row'.next, backoff')

Interrupted == nap.kind = "wait" /\ changed
Runnable == pc = "asleep" /\ (nap.until <= now \/ Interrupted)
Waiting ==
    \/ pc = "asleep" /\ ~Runnable
    \/ pc \in {"claimed", "firing", "skipping"} /\ now < fire.from + RpcTimeout

Tick ==
    /\ now < MaxTime /\ Waiting
    /\ now' = now + 1
    /\ UNCHANGED <<policy, row, brain, gates, changed, engine, events>>

----------------------------------------------------------------------------
(* One iteration *)

\* _prune_stale_fire_state and _prune_slot_entitlements.
PrunedParked == IF parked = row.next THEN parked ELSE None

HandoffLives == row.enabled /\ handoff = [slot |-> row.next, cad |-> row.cad]
PrunedHandoff == IF HandoffLives THEN handoff ELSE NoHandoff

\* Mutant: a disable is not noticed.
EntitlementLivesDisabled ==
    /\ entitled.slot = row.next
    /\ now - entitled.at <= EntitlementAge
    /\ handoff.slot = None \/ HandoffLives

EntitlementLives ==
    /\ row.enabled /\ entitled.slot = row.next
    /\ now - entitled.at <= EntitlementAge
    /\ handoff.slot = None \/ HandoffLives

PrunedEntitled == IF EntitlementLives THEN entitled ELSE NoEntitlement

PrunedBackoff == IF backoff.cad = row.cad THEN backoff ELSE NoBackoff

\* History: what the process knows of the pending slot lapses when it sees the
\* schedule disabled or at another slot.
SeenNow ==
    LET same == seen.cad = row.cad
    IN  IF row.enabled /\ seen.slot = row.next
        THEN [seen EXCEPT !.cad = row.cad, !.followed = @ /\ same, !.redefined = @ \/ ~same]
        ELSE [NothingSeen EXCEPT !.slot = row.next, !.cad = row.cad]

\* all_due, the back-off and _is_follower_parked.
Due ==
    /\ row.enabled /\ row.next \in 0..now
    /\ PrunedBackoff.until <= now
    /\ leader \/ PrunedParked = None

WakeUp ==
    /\ Runnable
    /\ changed' = (changed /\ nap.kind # "wait")
    /\ handoff' = PrunedHandoff /\ entitled' = PrunedEntitled /\ backoff' = PrunedBackoff
    /\ seen' = SeenNow
    /\ UNCHANGED <<now, policy, row, brain, gates, events>>

IterateUnhealthy ==
    /\ WakeUp /\ ~healthy
    /\ parked' = PrunedParked
    /\ nap' = [kind |-> "unhealthy", until |-> now + UnhealthySleep]
    /\ UNCHANGED <<pc, fire>>

IterateIdle ==
    /\ WakeUp /\ healthy /\ ~Due
    /\ parked' = IF leader /\ row.enabled THEN None ELSE PrunedParked
    /\ Sleep

\* _claim_for_dispatch: the slot waits for a worker with this iteration's clock.
IterateDue ==
    /\ WakeUp /\ healthy /\ Due
    /\ parked' = None
    /\ pc' = "claimed"
    /\ fire' = [NoFire EXCEPT !.entry = row, !.at = now, !.from = now]
    /\ UNCHANGED nap

----------------------------------------------------------------------------
(* _fire_with_catch_up *)

Lateness == fire.at - fire.entry.next
WasHandoff == handoff = [slot |-> fire.entry.next, cad |-> fire.entry.cad]
EffectiveGrace == IF WasHandoff THEN PromotionGrace ELSE Grace
PriorGrant == entitled.slot = fire.entry.next /\ entitled.cad = fire.entry.cad

OnTime == Lateness <= EffectiveGrace

\* Mutant: every attempt is judged by the clock alone.
OwedAfresh == OnTime

GrantedAt == IF PriorGrant THEN entitled.at ELSE fire.at
Owed == OnTime \/ (PriorGrant /\ fire.at - entitled.at <= EntitlementAge)

Plan ==
    IF fire.entry.cad = Once \/ Owed
    THEN <<fire.entry.next>>
    ELSE PlanCatchUp(MissedSlots(fire.entry, fire.at))

\* A True return clears the error state.
ReturnTrue ==
    /\ backoff' = NoBackoff
    /\ Sleep

\* _back_off_after_fire_error, on a fresh reading of the clock.
ReturnFalse ==
    /\ backoff' = [count |-> backoff.count + 1,
                   until |-> now + Least(BackoffCap, BackoffBase * 2 ^ backoff.count),
                   cad |-> fire.entry.cad]
    /\ Sleep

ClaimUnhealthy ==
    /\ pc = "claimed" /\ ~healthy
    /\ UNCHANGED <<now, policy, row, brain, gates, changed, marks, seen, events>>
    /\ ReturnTrue

\* _advance_after_fire of a follower.
Park ==
    /\ pc = "claimed" /\ healthy /\ ~leader
    /\ parked' = fire.entry.next
    /\ handoff' = [slot |-> fire.entry.next, cad |-> fire.entry.cad]
    /\ seen' = [seen EXCEPT !.followed = TRUE]
    /\ UNCHANGED <<now, policy, row, brain, gates, changed, entitled, events>>
    /\ ReturnTrue

\* History: the attempts at the slot that are on time for what the replica was.
SeenOnTime ==
    IF Lateness <= (IF seen.followed THEN PromotionGrace ELSE Grace)
    THEN [seen EXCEPT !.onTime = @ \cup {<<fire.entry.cad, fire.at>>}]
    ELSE seen

Decide ==
    /\ pc = "claimed" /\ healthy /\ leader
    /\ entitled' = IF OnTime
                   THEN [slot |-> fire.entry.next, cad |-> fire.entry.cad, at |-> GrantedAt]
                   ELSE entitled
    /\ seen' = SeenOnTime
    /\ LET planned == [fire EXCEPT !.slots = Plan, !.handoff = WasHandoff, !.owed = Owed]
           anchor == Latest(MissedSlots(fire.entry, fire.at))
       IN  IF Plan # <<>>
           THEN pc' = "planned" /\ fire' = planned
           ELSE pc' = "skipping" /\ fire' = [planned EXCEPT !.slots = <<anchor>>, !.from = now]
    /\ UNCHANGED <<now, policy, row, brain, gates, changed, nap, parked, handoff, backoff, events>>

\* _consume_follower_handoff.
Consume ==
    /\ handoff' = IF fire.handoff THEN NoHandoff ELSE handoff
    /\ entitled' = NoEntitlement
    /\ UNCHANGED parked

GatesOpen ==
    /\ fire.sent < MaxDispatch
    /\ row.enabled /\ row.cad = fire.entry.cad
    /\ healthy /\ leader

Send ==
    /\ pc = "planned" /\ GatesOpen
    /\ pc' = "firing" /\ fire' = [fire EXCEPT !.from = now]
    /\ UNCHANGED <<now, policy, row, brain, gates, changed, nap, marks, backoff, seen, events>>

\* The rest of the plan waits for the next iteration.
DefinitionChanged == fire.sent < MaxDispatch /\ row.enabled /\ row.cad # fire.entry.cad

Abort ==
    /\ pc = "planned" /\ ~GatesOpen
    /\ IF fire.sent > 0 /\ ~DefinitionChanged THEN Consume ELSE UNCHANGED marks
    /\ UNCHANGED <<now, policy, row, brain, gates, changed, seen, events>>
    /\ ReturnTrue

----------------------------------------------------------------------------
(* The Brain's answers *)

InFlight == pc \in {"firing", "skipping"}
Slot == Head(fire.slots)

\* The Brain commits a transition of the revision it holds, once, and repeats its
\* answer to a retry.
Fresh == brain.rev = fire.entry.rev
Replay == brain.rev = fire.entry.rev + 1 /\ brain.last = Slot /\ fire.entry.last # Slot

Commit == brain' = IF Fresh THEN Moved(brain, Slot) ELSE brain

\* apply_cursor_transition by compare-and-set; the entry is the cache's own object
\* until the stream replaces it.
Apply ==
    IF row.rev = fire.entry.rev
    THEN row' = brain' /\ changed' = TRUE
    ELSE UNCHANGED <<row, changed>>
Applied == row.rev = fire.entry.rev \/ row.rev = brain'.rev

\* An accepted slot: the drain goes on, or is over.
Accepted ==
    /\ pc = "firing" /\ (Fresh \/ Replay)
    /\ Commit /\ Apply
    /\ UNCHANGED <<now, policy, gates, seen, events>>
    /\ IF Applied /\ Len(fire.slots) > 1
       THEN /\ pc' = "planned"
            /\ fire' = [fire EXCEPT !.slots = Tail(@), !.sent = @ + 1,
                                    !.entry = IF row.rev = @.rev THEN row' ELSE @]
            /\ UNCHANGED <<nap, marks, backoff>>
       ELSE (IF Applied THEN Consume ELSE UNCHANGED marks) /\ ReturnTrue

CursorAdvanced ==
    /\ pc = "skipping" /\ (Fresh \/ Replay)
    /\ Commit /\ Apply
    /\ UNCHANGED <<now, policy, gates, seen, events>>
    /\ Consume /\ ReturnTrue

\* _stop_until_brain_supersedes: held until the stream brings what refused it.
Refused ==
    /\ pc = "firing" /\ ~Fresh /\ ~Replay
    /\ row' = IF row.rev < brain.rev THEN [row EXCEPT !.enabled = FALSE] ELSE row
    /\ changed' = (changed \/ row' # row)
    /\ UNCHANGED <<now, policy, brain, gates, marks, seen, events>>
    /\ ReturnTrue

AdvanceRefused ==
    /\ pc = "skipping" /\ ~Fresh /\ ~Replay
    /\ UNCHANGED <<now, policy, row, brain, gates, changed, marks, seen, events>>
    /\ ReturnFalse

\* The RPC fails; its request may have been committed all the same.
Fails ==
    /\ InFlight /\ Count
    /\ UNCHANGED brain \/ (Fresh /\ Commit)
    /\ UNCHANGED <<now, policy, row, gates, changed, marks, seen>>
    /\ ReturnFalse

Iterate == IterateUnhealthy \/ IterateIdle \/ IterateDue
Fan == ClaimUnhealthy \/ Park \/ Decide \/ Send \/ Abort
Answer == Accepted \/ CursorAdvanced \/ Refused \/ AdvanceRefused \/ Fails
World ==
    \/ EditCadence \/ Toggle \/ OtherReplicaFires \/ Echo
    \/ Elected \/ Demoted \/ StreamBreaks \/ StreamRecovers \/ Restart

Next == Iterate \/ Fan \/ Answer \/ World \/ Tick

Spec == Init /\ [][Next]_vars

----------------------------------------------------------------------------
(* Properties *)

CatchUp == fire.entry.cad # Once /\ ~fire.owed

\* Under catch_up="skip" no slot of a recurring schedule is dispatched late unless
\* this process attempted it on time, as a slot of this very cadence, no longer than
\* the entitlement's age ago and has seen it neither disabled nor moved since: a retry
\* is not a licence to run a 03:00 job at 09:00 (engine.py:131-150, 785-801, 1618-1640).
LateFireIsOwed ==
    pc = "planned" /\ fire.sent = 0 /\ policy = "skip" /\ fire.entry.cad # Once /\ Lateness > Grace
        => /\ seen.slot = fire.entry.next
           /\ \E t \in (fire.at - EntitlementAge)..fire.at : <<fire.entry.cad, t>> \in seen.onTime

\* A slot is given up without being dispatched only if it was never attempted on time
\* by this process within the entitlement's age, or was redefined, and never for a
\* one-shot: the clock moving between the attempts of a failing dispatch does not turn
\* an on-time slot into a missed one (engine.py:1139-1167).
NothingOwedIsDiscarded ==
    pc = "skipping"
        => /\ policy = "skip" /\ fire.entry.cad # Once
           /\ \/ seen.redefined \/ seen.onTime = {}
              \/ \E attempt \in seen.onTime : fire.at - attempt[2] > EntitlementAge

\* Skipping or coalescing a backlog is done in one pass: after it nothing that was
\* due at the decision is pending, so the policy is not applied slot by slot
\* (engine.py:1172-1244, 1932-1944).
CatchUpIsOnePass ==
    pc \in {"planned", "firing", "skipping"} /\ policy # "fire_all_missed" /\ CatchUp
        => NextAfter(fire.entry.cad, Slot) > fire.at

\* Under catch_up="fire_all_missed" the Brain's cursor leaves the pending slot by that
\* slot's own dispatch, or passes over it to one that is among the MaxMissed newest
\* due at the decision: failures, chunked drains, promotions and restarts lose no
\* other, and none at all of a backlog within the cap (engine.py:1338-1364,
\* 1524-1534, interval.py:164-175).  A schedule an edit has taken off its grid is left
\* out: its backlog is counted from the last fire.
OnGrid(r) == r.last = None \/ r.next = NextAfter(r.cad, r.last)
AmongNewest(cad, slot, t) == cad # Once /\ slot + (MaxMissed - 1) * cad <= t
FireAllKeepsTheNewest ==
    [][policy = "fire_all_missed" /\ OnGrid(brain) /\ brain'.last # brain.last
         => \/ brain'.last = brain.next
            \/ pc = "firing" /\ AmongNewest(brain.cad, brain'.last, fire.at)]_vars

\* The engine sleeps past a due slot only while a back-off of that very cadence runs,
\* the stream is or was just unhealthy, or the replica is a follower or was one less
\* than a recheck ago (engine.py:2092-2180).
OverdueIsExplained ==
    pc = "asleep" /\ ~Runnable /\ row.enabled /\ row.next \in 0..(now - 1)
        => \/ now < backoff.until /\ backoff.cad = row.cad
           \/ ~healthy \/ now < since.healthy + UnhealthySleep
           \/ ~leader \/ now < since.leader + Recheck
=============================================================================
