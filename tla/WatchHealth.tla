---------------------------- MODULE WatchHealth ----------------------------
(***************************************************************************)
(* The reconnect loop of the Watch stream (storage/watch.py) and what the  *)
(* process tells of it: WatchStream._watch_loop with its back-off, the     *)
(* health flag and the outage clock the readiness endpoint reads           *)
(* (api/_state.py, api/health.py).                                         *)
(*                                                                         *)
(* What the stream carries is in ScheduleCache and SnapshotResync; here a  *)
(* connection only fails, opens, delivers a first frame and drops.  The    *)
(* clock counts units of _BACKOFF_INITIAL.                                 *)
(***************************************************************************)
EXTENDS Integers, Sequences

CONSTANT
    MaxDelay,       \* grpc_reconnect_backoff_max_seconds, and the floor of an unserved stream
    MaxExponent,    \* the doubling stops here, whatever MaxDelay (6 in the code)
    Interval,       \* reconcile_interval_seconds: what clears the penalty
    Grace,          \* on_time_grace_seconds
    MaxTime,        \* bound of the clock
    MaxAttempts     \* bound: how many times the stream is lost

ASSUME BoundsAssumption ==
    /\ MaxDelay \in Nat \ {0} /\ MaxExponent \in Nat
    /\ Interval \in Nat /\ Grace \in Nat
    /\ MaxTime \in Nat /\ MaxAttempts \in Nat

VARIABLES
    now,        \* time.monotonic()
    phase,      \* where _watch_loop is
    wakeAt,     \* when the sleep of the back-off ends
    healthy,    \* _is_healthy
    since,      \* _unhealthy_since
    opened,     \* _healthy_since
    kept,       \* _outage_start_before_open
    served,     \* _served_since_open
    attempts,   \* _reconnect_attempts
    synced,     \* cache_initial_sync_complete
    log         \* history: every time the stream was lost, or did not come up

clocks == <<since, opened, kept, served>>
health == <<now, phase, wakeAt, healthy, clocks, attempts, synced, log>>

Unset == -1     \* None
Times == 0..MaxTime

Losses == [opened : {Unset} \cup Times, at : Times, served : BOOLEAN]

HealthTypeOK ==
    /\ now \in Times
    /\ phase \in {"connect", "open", "backoff"}
    /\ wakeAt \in 0..MaxTime + 2 * MaxDelay + 1
    /\ healthy \in BOOLEAN
    /\ since \in {Unset} \cup Times
    /\ opened \in {Unset} \cup Times
    /\ kept \in {Unset} \cup Times
    /\ served \in BOOLEAN
    /\ attempts \in 0..MaxAttempts
    /\ synced \in BOOLEAN
    /\ log \in Seq(Losses) /\ Len(log) <= MaxAttempts

HealthInit ==
    /\ now = 0
    /\ phase = "connect" /\ wakeAt = 0
    /\ healthy = FALSE
    /\ since = Unset /\ opened = Unset /\ kept = Unset /\ served = FALSE
    /\ attempts = 0
    /\ synced = FALSE
    /\ log = <<>>

-----------------------------------------------------------------------------
(* the back-off: min(max, initial * 2^min(attempts, 6)), with a jitter of 30 % *)

Smaller(a, b) == IF a < b THEN a ELSE b

Delay(n) == Smaller(MaxDelay, 2 ^ Smaller(n, MaxExponent))

Jittered(d) == {w \in 1..2 * d : 7 * d <= 10 * w /\ 10 * w <= 13 * d}

-----------------------------------------------------------------------------
(* _mark_healthy: the outage clock is cleared, and its start kept aside *)
MarkHealthy ==
    /\ healthy' = TRUE
    /\ opened' = now
    /\ kept' = since
    /\ served' = FALSE
    /\ since' = Unset

(* what _mark_unhealthy makes of a stream that was healthy *)
Stretch == IF healthy THEN now - opened ELSE 0

\* Mutant: any stream that opened clears the penalty.
PenaltyClearedByOpening == healthy

PenaltyCleared == healthy /\ Stretch >= Interval

\* Mutant: a stream that opened ends the outage, served or not.
OutageGoesOnNever == FALSE

OutageGoesOn == healthy /\ ~served /\ kept # Unset /\ Stretch < MaxDelay

MarkUnhealthy ==
    /\ healthy' = FALSE
    /\ since' = IF OutageGoesOn THEN kept ELSE IF since = Unset THEN now ELSE since
    /\ opened' = Unset
    /\ kept' = Unset
    /\ UNCHANGED served

(* _mark_unhealthy, then _backoff_or_stop; the clean end of a stream is no *)
(* different from an error                                                 *)
Lost ==
    LET n == IF PenaltyCleared THEN 0 ELSE attempts IN
        /\ Len(log) < MaxAttempts
        /\ MarkUnhealthy
        /\ attempts' = n + 1
        /\ phase' = "backoff"
        /\ \E d \in Jittered(Delay(n)) : wakeAt' = now + d
        /\ log' = Append(log, [opened |-> opened, at |-> now, served |-> healthy /\ served])

(* the negotiation, the snapshot or the listing fails *)
ConnectFails ==
    /\ phase = "connect"
    /\ Lost
    /\ UNCHANGED <<now, synced>>

(* The full sync is done, and the stream counts as open before its RPC has *)
(* started: a refusal comes later, as a loss.                              *)
Opens ==
    /\ phase = "connect"
    /\ phase' = "open"
    /\ synced' = TRUE
    /\ MarkHealthy
    /\ UNCHANGED <<now, wakeAt, attempts, log>>

(* _mark_served, at every frame *)
Frame ==
    /\ phase = "open" /\ ~served
    /\ served' = TRUE
    /\ kept' = Unset
    /\ UNCHANGED <<now, phase, wakeAt, healthy, since, opened, attempts, synced, log>>

Drops ==
    /\ phase = "open"
    /\ Lost
    /\ UNCHANGED <<now, synced>>

BackoffEnds ==
    /\ phase = "backoff" /\ now >= wakeAt
    /\ phase' = "connect"
    /\ UNCHANGED <<now, wakeAt, healthy, clocks, attempts, synced, log>>

Tick ==
    /\ now < MaxTime
    /\ now' = now + 1
    /\ UNCHANGED <<phase, wakeAt, healthy, clocks, attempts, synced, log>>

HealthNext == ConnectFails \/ Opens \/ Frame \/ Drops \/ BackoffEnds \/ Tick

HealthSpec == HealthInit /\ [][HealthNext]_health

-----------------------------------------------------------------------------
(* SchedulerState.watch_unhealthy_past_grace, and ready of a process whose *)
(* other subsystems are up                                                 *)
PastGrace == since # Unset /\ now - since > Grace

Ready == synced /\ ~PastGrace

(* The history's own account.  A stream proves the Brain serves it by a    *)
(* frame, or by outliving the longest back-off.                            *)
Proved(loss) == loss.served \/ (loss.opened # Unset /\ loss.at - loss.opened >= MaxDelay)

LastOf(Test(_)) ==
    LET found == {i \in 1..Len(log) : Test(log[i])} IN
        IF found = {} THEN 0 ELSE CHOOSE i \in found : \A j \in found : j <= i

OutageStart == log[IF LastOf(Proved) = 0 THEN 1 ELSE LastOf(Proved)].at

(* An outage lasts from the loss of the last stream the Brain served, or   *)
(* from the first failure: a Brain that lists schedules but refuses every  *)
(* Watch turns the process unready when the grace has passed, and one that *)
(* serves, drops and serves again never does before.                       *)
OutageIsContinuous ==
    log # <<>> /\ phase # "open" => (Ready <=> synced /\ now - OutageStart <= Grace)

Long(loss) == loss.opened # Unset /\ loss.at - loss.opened >= Interval

LossesInARow == Len(log) - (IF LastOf(Long) = 0 THEN 1 ELSE LastOf(Long))

(* The wait before the next attempt doubles with every loss since the last *)
(* stream that stayed open for a re-sync interval, and starts over after   *)
(* that one: a Brain that sheds load by refusing the Watch is left alone   *)
(* for longer and longer, one that restarts is not.                        *)
PenaltyFitsTheLosses ==
    phase = "backoff" => wakeAt - log[Len(log)].at \in Jittered(Delay(LossesInARow))
=============================================================================
