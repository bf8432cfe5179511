# z4j-scheduler: TLA+ models and proofs

This directory is a formal model of the scheduler in `src/src/z4j_scheduler`: TLA+ modules translated from the
code, TLC runs that check them on small instances, and TLAPS proofs of the central results for instances of any
size. Paths below are relative to `src/src/z4j_scheduler` unless they start with `src/`.

The scheduler is a cadence engine. The *Brain*, another service, owns the schedules; this process mirrors them,
decides when a slot is due, and asks the Brain by RPC to fire it. Several replicas of the process may run; a
leader gate picks the one that dispatches.

1. [Inventory](#1-inventory)
2. [The plan](#2-the-plan)
3. [Modules and their correspondence to the code](#3-modules-and-their-correspondence-to-the-code)
4. [Runs](#4-runs)
5. [Where code and text disagree](#5-where-code-and-text-disagree)
6. [Proofs](#6-proofs)
7. [What is not modelled](#7-what-is-not-modelled)

Every definition that stands for code is listed in `PROJECT.json` ("map") with the lines it stands for; every
property of a passing run is listed with a mutant of one of those definitions, the bug it would catch.

## 1. Inventory

All of it is one asyncio process: tasks interleave at their `await`s only. The tasks that matter are the tick
engine and its fire workers, the Watch loop, the periodic and the requested resync, the quarantine reporter, the
leader gate's heartbeat and `stop()`.

| Part | State | Operations | Talks to |
|---|---|---|---|
| Schedule cache, `storage/cache.py` | rows, newest revision per id, the payloads as received, stops, local quarantines, the global watermark, paused projects | apply a row, a tombstone, an observed absence, a completed snapshot; cursor transition by compare-and-set; stop and release; quarantine | written by the Watch stream, the resyncs, the reporter and the engine; read by the engine |
| Watch stream, `storage/watch.py`, `_watch_v2.py` | the stream's phase, its cursor, the negotiated protocol | negotiate, full sync, ordered frames, back-off, periodic resync | Brain; cache; engine (agreement callback) |
| Tick engine, `tick/engine.py` | parked slots, handoffs, entitlements, back-offs, mismatch bookkeeping, the workers of this iteration | prune, find due, claim, catch up, fire, advance, sleep | cache, dispatcher, leader gate, reporter |
| Catch-up and cadence, `tick/*.py` | none | the slots missed, the plan of a policy, the next slot | called by the engine |
| Dispatcher, `dispatch/fire.py` | none | fire with retries and a health gate | Brain |
| Leader gates, `leader/postgres.py` | keys held, one connection, a stop flag | heartbeat cycle (acquire, release, probe), drop on error, stop | Postgres advisory locks; read by the engine |
| Quarantine reporter, `storage/quarantine.py` | reports by (id, control token) | enqueue, flush | Brain; cache |
| Application, `main.py` | the wiring, what is built, the children of the TaskGroup, the stop flags, the requested resync task | start, run, `stop()` from a signal or from the end of a run, the drain | everything |
| TriggerSchedule server, `trigger_grpc/` | idempotency map per process | fire a schedule now, once per key and TTL | called by the Brain; calls it back through the dispatcher |
| Cadence calculators, `tick/cron.py` and siblings | none | the next slot, the slots of an interval | croniter, zoneinfo, astral; called by the engine |
| Watch health, `storage/watch.py`, `api/` | reconnect penalty, health flag, outage clock | lose, open, serve a stream; answer readiness | read by the engine and the HTTP API |
| Declarative reconciler, Django app, importers, CLI | none here; the Brain's table | reconcile, import, add, commands by name; diff and verify, which only read | the Brain's HTTP API |
| Shadow comparator, `verify/` | none | predict and compare two sets of schedules | calculators |
| Exporters, settings, logging, generated code | little or none | translation, validation, I/O | |

What is hard, and what makes each part correct:

- **Cache.** Anything the Brain said may arrive late, twice, or after something newer: a frame, a snapshot read
  before a delete, the answer to a fire planned from an older row. *Correct*: deleted work never comes back; the
  row the engine ticks is one the Brain committed; the cadence never moves back; evidence of deletes is never
  lost by compaction; every stop can end; an honest Brain is never accused; the cache ends in step.
- **Resync.** Three tasks install snapshots while frames stream and a cap on remembered deletes pauses projects.
  *Correct*: no delete falls between a snapshot and a stream; a project is paused exactly under pressure; older
  snapshots never overwrite newer ones; every pause ends.
- **Mismatch.** A refusal, the engine's question to the Brain, a reconnect's negotiation, an edit and a hold
  meet in any order. *Correct*: a stop is owed an agreement and lifted by it, to what the Brain has; the first
  refusal is never durable.
- **Timing.** An attempt may fail and be repeated later than the grace; a replica may be promoted or demoted, the
  schedule edited or held, the stream broken, the process restarted, at any moment. *Correct*: nothing late is
  fired unless it is owed, nothing owed is discarded, a backlog is settled in one pass, `fire_all_missed` loses
  no slot but the oldest of a backlog longer than the calculators' cap, the engine never oversleeps.
- **Life of the process.** A signal may come at any `await` of a start, a run or another `stop()`; children of the
  TaskGroup end in any order. *Correct*: the leader gate is released after the fires in flight, an exit leaves
  nothing behind, a signal ends the run.
- **Trigger.** A call is repeated with its key while the first is in progress, answered, forgotten or elsewhere.
  *Correct*: one fire per call whatever is retried, an answer from the map is what a call of that key was told of
  its own fire, a repetition of an answered call fires nothing.
- **Cadence.** A clock repeats or skips an hour, a day has no sunrise, a backlog is longer than its cap.
  *Correct*: the engine waits for the next due slot, and a backlog is exactly what was due in it.
- **Watch health.** A Brain may accept a stream and serve nothing on it. *Correct*: readiness tells how long nothing
  was served, the penalty grows until a stream has held.
- **Declared schedules.** Requests of several deploys and operators cross, time out and land late. *Correct*: what
  is reported done is in the table, as declared, until somebody changes it; a command by name has changed the row it
  looked up.
- **Shadow comparison.** *Correct*: "ok" exactly if both definitions fire the same.
- **Election.** Sessions die unnoticed, queries time out after the server executed them, `stop()` cancels a loop in
  mid-acquire. *Correct*: who leads on a live session owns the lock; no lock is left behind; a stale leader steps
  down; somebody leads in the end.

The hazards are in `PROJECT.json`, each at its line, with the properties that would catch it.

## 2. The plan

Modelled first, because everything else relies on it: the cache. Then what acts on it.

| Module | Composes | Abstract specification | State |
|---|---|---|---|
| `CacheRow` | – (operators of one schedule's slot) | – | done |
| `BrainLog` | `CacheRow` | – | done |
| `ScheduleMirror` | `BrainLog` | *is* the abstract specification of the cache | done |
| `ScheduleCache`, `ScheduleCacheProofs` | `BrainLog`, `CacheRow` | implements `ScheduleMirror` | done |
| `SnapshotResync`, `WatchProofs` | – | – | done |
| `CadenceMismatch`, `CadenceMismatchProofs` | `BrainLog`, `CacheRow` | – | done |
| `TickTiming`, `TickTimingProofs` | – | – | done |
| `LeaderLock` | – | *is* the abstract specification of the leader gates | done |
| `AdvisoryLocks`, `LeaderElection`, `LeaderElectionProofs` | – | implements `LeaderLock` | done |
| `Lifecycle`, `LifecycleProofs` | – | – | done |
| `TriggerSchedule`, `TriggerScheduleProofs` | – | – | done |
| `WatchHealth`, `WatchProofs` | – | – | done |
| `Cadence`, `ScheduleProofs` | – | what a definition matches (`Matching`, `Due`) | done |
| `ShadowComparator`, `ScheduleProofs` | `Cadence` | the fires of both definitions (`Fires`) | done |
| `DeclaredSchedules`, `ScheduleProofs` | – | – | done |
| `FireCycle`: two replicas, fire ids, acknowledgements, the Brain's deduplication | `BrainLog` | each slot resolved once | planned |
| the legacy protocol mode of the cache | `CacheRow` | the echo merge loses no newer row | planned |
| the reporter's queue, its bound and its back-off | – | every report is sent or superseded | planned |

Every safety property of the runs, and both refinements, are proved ([section 6](#6-proofs)); what is planned is to model
what the last three rows name.

## 3. Modules and their correspondence to the code

**`CacheRow`.** The dictionaries of `ScheduleCache` are all keyed by schedule id, so what is kept for one schedule
is one record (`entry`, `known`, `payload`, `stop`, `quarantine`; the module's header names the attribute behind
each field). Each operation of the class is a function from the old record to the new one: `MergeRow`,
`ApplyTombstone`, `ApplyAbsence`, `CursorTransition`, `LatchStop`, `ReleaseStop`, `QuarantineLocally`. The pair
(`last_fire_at`, `next_fire_at`) is one number, how many slots are resolved. A stop with `refusedAt = 0` is
one the code records without a live revision.

**`BrainLog`** (external). The Brain is a log of events, revision *r* being the *r*-th: one global counter, which
is what the docstring of `CurrentStop` and the proto rely on. Since the log is immutable, what a late answer said
can be recomputed from the revision it was assembled at.

**`ScheduleCache`.** One action per operation: `DeliverRow`, `DeliverTombstone`, `DeliverAbsence`,
`DeliverSnapshot`, and the life of a fire (`Submit`, `BrainAnswer`, `LoseReply`, `GiveUp`, `HandleReply`,
`Quarantine`). A delivery picks *any* revision of the log, at any time: that is more disorder than one ordered
stream makes, and it covers what the Watch loop, the resyncs and the reporter do between them. There is one
watermark because `main.py` builds the stream without a project filter. `ReplayAfterHold` says whether the Brain
answers a repeated request with "accepted" once the row has been put on hold; see [section 6](#6-proofs).

**`ScheduleMirror`.** What the cache promises, without its bookkeeping: a schedule is seen at one committed
revision, only moves to later ones, disappears only if deleted, and never comes back. `ScheduleCache` is shown to
implement it, by TLC and by proof, with `view` the revision of the entry and `gone` the schedules whose deletion
the evidence covers.

**`SnapshotResync`.** The ordered stream and the three users of `_full_sync` (reconnect, periodic, requested)
behind `_sync_lock`; `deletes` is the Brain's log reduced to deletes, the only events that exert pressure.
`HookWired` is whether the cache was given its `on_snapshot_required`.

**`CadenceMismatch`.** Workers, the iteration that waits for all of them, the Watch loop's reconnect and the
reporter, interleaved at their RPCs. `latched` and `renegotiated` are `_cadence_mismatch_latched` and
`_cadence_renegotiated`. `trail` and `verdict` are history variables for the properties; no guard reads them.

**`TickTiming`.** One schedule, one replica, a discrete clock. An iteration is `IterateUnhealthy`, `IterateIdle` or
`IterateDue`; a claimed slot goes through `ClaimUnhealthy`/`Park`/`Decide`, `Send` or `Abort`, and one of the
answers; a worker may wait, and an RPC take, up to `RpcTimeout`, and the stream, the operator, the election and
other replicas act in between. `parked`, `handoff`, `entitled` and `backoff` are the engine's dictionaries for
that schedule. `seen` is history, kept *independently* of them: which attempts were on time by the clock, whether
this process was a follower then. `LateFireIsOwed` compares the engine's decision with it. Abstractions: the
Brain commits when it answers; the cached row is the Brain's except while something has not been streamed yet;
the legacy dispatch and the quarantine after a raised fire are left out. `FiresBetween` keeps the newest `MaxMissed` slots
of a backlog, as `fires_between` does with the engine's cap of 10 000 (`tick/engine.py:1983-1986`, `tick/interval.py:172-175`).

**`AdvisoryLocks`** (external in part). Postgres sessions, which of them own which advisory lock and *how often*
(`pg_try_advisory_lock` is re-entrant), and one query per session, executed apart from being sent and from being
answered. `ExecuteAcquire` and its companions are the queries of `AsyncpgLockBackend`.

**`LeaderElection`.** Both gates: `backend = "postgres"` has the one key `Global`, always wanted;
`"postgres_per_project"` wants the projects of its cache. `pc` is where the loop, or `stop()`, awaits. `DropsAll`
is the loop's error path, `TimesOut` an operation past its deadline (the server may still execute it),
`LoopCancelled` the join of `stop()` that ran out of time, `CleanupAsks`/`CleanedUp` the per-key releases of
`_release_all_and_close`, `Close`/`CloseTimesOut` the graceful and the aborted close. The single-instance gate of
`leader/__init__.py` has no state.

**`LeaderLock`.** What the gates promise the tick engine, without sessions, queries and errors: per key, a lock that
one instance takes when it is free and gives up again. `LeaderElection` is shown to implement it, by TLC and by proof,
with `leader[k]` the instances that lead *k* on a session that is there and are not giving it up (`Leaders`). So a
key never goes from one sound leader to another in one step, and the answer to one query changes what one instance
leads: one key it takes at most, several it gives up when it drops them all.

**`Lifecycle`.** `run_from_settings` from its first `await` to its exit. `main` is where it awaits; every caller of
`stop()`, itself and one per signal, goes through the four awaits of `stop()` on its own (`StopFrom` picks the next
one that has something to wait for); `tasks` are the children of the TaskGroup that have not ended, and `watcher` is
the shutdown watcher with its drain. Fires in flight are at most one of the tick loop and one of an operator's;
`abandoned` and `asked` are history.

**`TriggerSchedule`.** The handler of `trigger_grpc/handlers.py` from one await to the next, with the manual path of
the dispatcher under it: `firing`, `backoff`, `ack`. `idem` is the map of each replica; `Swept` is
`_sweep_expired_idem_entries`, which drops as many expired entries as its budget allows, any of them. The client
repeats a key only if it no longer waits for the call that carried it; a handler nobody waits for is cancelled by
grpc.aio at its await (`Cancelled`), or runs on. A fire id is drawn (`Draws`, the `uuid4()` of `dispatch/fire.py:218-220`)
when the handler begins to fire, and kept in `fireId` while it is in progress; `drawnBy`, the calls that drew ids in
the order they did, and `firedAt` are history. What the Brain says yes to may be a Command, which is named like its
fire, or a place in its buffer, which has none: `Str` is the handler's `str(result.command_id)`, so that call
is told, and the map keeps, `NoneText`.

**`WatchHealth`.** `_watch_loop` reduced to a connection that fails, opens, delivers and drops, with the attributes
the penalty and the readiness are computed from. `log` is the history of losses, from which the properties say what
both should be.

**`Cadence`.** Instants are integers, a zone changes its offset at most once, an expression is the set of local times
it matches. `Ahead` and `Behind` are croniter's two directions as the tests pin them, `InstantOf` is zoneinfo's reading
of a local time; `CronBetween`, `IntervalBetween`, `SolarBetween` are `fires_between`; the state machine is the engine
with one schedule: it fires on time, or is down and recovers a backlog. The reference is `Matching`: the instants whose
local time the expression matches.

**`ShadowComparator`.** Extends `Cadence`: at any moment before the first fire the operator compares the engine's
definition with one that a migration may have got wrong. A report is judged against what both definitions match.

**`DeclaredSchedules`.** The Brain's table of schedules and the clients of this package that write it, each with one
request, or a look-up and a request. The table is external: rows of this scheduler and of another, at most one of a
name and scheduler (`declarative/_reconciler.py:41`); what `schedules:import` does with it is what the docstrings and the
tests against it say. `release` is what the clients can tell of the Brain: the imports it serves (`Serves`, from the
clients' own error messages), and whether `GET /schedules` answers a list (`ListsFlat`). A request may be executed after its
client has given up (`adrift`). The hash of a row is kept apart from what the row says, because an edit may leave it
as it was; `edited` marks such a row. `crossed` is history: the schedules that others' requests were about between the
execution of this client's request and its answer. `diff`, `verify`, `list` and `trigger` read the table only and are not modelled
([section 5](#5-where-code-and-text-disagree) says what they make of the answer).

Things the models show that are neither wrong nor documented:

- Between the death of a session and the next probe two replicas both say they lead: `leader/__init__.py:1`
  speaks of one dispatcher per project. `LeaderOwnsLock` says precisely when an overlap is possible: a session that is
  gone and not probed yet, or a release in flight. The Brain's compare-and-set makes the second fire harmless.
- `release()` swallows every error but a timeout (`leader/postgres.py:188-203`). On a session that lives on, the lock
  stays taken by a gate that no longer leads; `swallowed` records it, and `NothingLeftBehind` and
  `ProjectGetsALeader` except exactly that.
- A `close()` cut off by its deadline skips `self._conn = None`; the next cycle fails on the aborted connection
  and only the one after it reconnects.
- A resync requested while another one has read its snapshot but not installed it is dropped (`main.py:431`).
- A back-off outlives its slot (`tick/engine.py:809`): if the answer to a fire is lost and the row is then
  streamed, the *next* slots wait for the old deadline and may be late enough to count as missed.
- `_prune_slot_entitlements` does not compare the cadence and the handoff's prune does, so an entitlement survives
  an edit there and back that leaves the slot where it was. The properties judge attempts per cadence for that
  reason, and `NothingOwedIsDiscarded` excepts a slot that was redefined.
- A batch of an older deploy that timed out and is executed late undoes a newer deploy's. `AnsweredIsDone`
  excepts, per schedule, what a later request was about.
- The hash decides whether a declared schedule is unchanged, so an edit by hand that leaves the stored hash is not undone by
  the next reconcile, which reports the schedule unchanged. Whether the Brain's edits leave it is not known here; `LeftAs`
  allows for it.
- The content hash leaves the source label out, so a row that one framework declared keeps that label when
  another declares the same content; a reconcile of the new label does not see it.
- An interval's predicted fires count from the start of the window, not from the schedule's slots, so the comparator
  tells whether two intervals are as long, not whether they fire together.
- If the Brain replayed an acceptance over a hold, the cache would rewrite its remembered payload
  (`storage/cache.py:555`) with the wrong `enabled`, and take the honest row that follows for a protocol error.

## 4. Runs

| Run | Bounds | Shows |
|---|---|---|
| `MCScheduleCache` | 1 schedule, 5 revisions, 2 tokens, cap 1 | `NoResurrection`, `RowIsTheBrains`, `StopCanEnd`, `NoSpuriousProtocolError`, `EvidenceNeverLost`, `CursorNeverGoesBack`, the refinement `ImplementsMirror`, and `EventuallyInStep`, under every order of late, repeated and lost deliveries |
| `MCSnapshotResync` | 2 projects, 4 deletes, cap 2, 2 failures | `NoDeleteFallsBetween`, `PausedExactlyUnderPressure`, `SnapshotsInstallInOrder`, `PausesEnd` |
| `MCCadenceMismatch` | 2 schedules, 2 revisions, 2 generations, 2 runtime changes | `StopIsOwedAnAgreement`, `LiftedAsTheBrainHasIt`, `ReconnectLiftsStops` |
| `MCTickTiming` | 8 instants, slots 2 apart and one-shots, backlogs capped at 2, 2 events | `LateFireIsOwed`, `NothingOwedIsDiscarded`, `CatchUpIsOnePass`, `OverdueIsExplained`, `FireAllKeepsTheNewest` |
| `MCLeaderElection` | 2 replicas, both backends, 3 sessions, 1 fault, 2 scope changes | `LeaderOwnsLock`, `NothingLeftBehind`, the refinement `ImplementsLock`, `StaleLeaderStepsDown`, `ProjectGetsALeader` |
| `MCLifecycle` | 2 signals, 2 fires, every mode of the process | `GateOutlivesFires`, `ExitLeavesNothing`, `SignalEndsRun` |
| `MCTriggerSchedule` | 3 calls (2 at a time), 2 keys and none, 2 attempts, TTL 1, sweep budget 1, 1 crash | `OneFirePerCall`, `HitIsTruthful`, `RepeatFiresNothing`, `EveryCallEnds` |
| `MCWatchHealth` | 13 instants, 4 losses, longest delay 3, grace 3, interval 4 | `OutageIsContinuous`, `PenaltyFitsTheLosses` |
| `MCCadence` | 10 instants, a turn at 4 of 2 either way, 8 local times, intervals to 3, days of 2, created at 0 or 5, caps 1 and 2 | `PendingIsTheNextDue`, `BacklogIsWhatWasDue`, `ReportIsTruthful` |
| `MCDeclaredSchedules` | 2 clients of any kind, 2 schedulers, 2 names, 3 dicts, 2 requests executed, every release | `AnsweredIsDone`, `NamedIsMeant` |
| `MCSnapshotResyncUnwired`, `MCCadenceMismatchStuck` | see the cfg | one disagreement each, [section 5](#5-where-code-and-text-disagree) |

Three wider instances, of safety only, take longer and are run by hand: `MCScheduleCacheTwo.cfg` (two schedules in
two projects, for what is global in the cache: the watermark and the pressure; also `TypeOK` and
`PausedOnlyUnderPressure`; 153 073 states), `MCLeaderElectionFaults.cfg` (two faults, so that every pair of errors
coincides; also `TypeOK`; 900 565 states) and `MCCadenceMismatchDeep.cfg` (three revisions; also `TypeOK` and `FireHeldFirst`;
382 825 states). All pass. For example `tlc -config MCScheduleCacheTwo.cfg MCScheduleCache`.

**Why the bounds suffice.** A resurrection takes a create, a delete, a snapshot and a late row: three revisions and
one delivery out of order; a spurious protocol error takes an edit and a replayed fire on top. Five revisions of
one schedule contain every such sequence. Two replicas and three sessions give each replica a session and one
reconnect while an old session still lingers. `TickTiming` starts either with the slot ahead or with a backlog of
several intervals, more than the cap keeps; with grace, heartbeat, recheck and back-off of one instant each, the promotion grace is 3 and
the entitlement lasts 3 instants, so within eight instants a slot can be on time, retried late, expired, missed and
caught up; two events cover every *pair* of edit, hold, demotion, broken stream, lost answer, other replica and
restart. Two signals give `Lifecycle` three `stop()` calls at once: `run_from_settings`'s own and two that race it. In
`TriggerSchedule` three calls are a fire, its repetition and one between that sweeps or replaces the entry; with a
budget of 1 the sweep leaves an expired entry behind, and the clock reaches the TTL. `WatchHealth` lasts long enough
for a stream to hold longer than `Interval`, and for an outage to pass the grace, between two losses; the exponent
reaches its cap. `Cadence` has a gap and an overlap as wide as two slots, with matches before, in and after them, and
backlogs shorter and longer than the cap; created at 5, a schedule begins after the turn. In `DeclaredSchedules`
two executed requests, the dashboard's among them, are one that a client waits for and one that crosses it, or a delete and an
addition under the id of a client that has looked it up; a third dict differs from the second by one changed and one
added name, and by one removed the other way round. The rows of another scheduler are there where a command reads them,
in a list of a Brain of v1.0. The caps (`MaxRevision`,
`MaxFailures`, `MaxFlips`, `MaxFaults`, `MaxScopeChanges`, `MaxTime`, `MaxEvents`, `MaxSignals`, `MaxFires`,
`MaxCrashes`, `MaxWrites`, `MaxCalls`, `MaxOpen`, the `MaxAttempts` of `WatchHealth`) are guards of environment
actions, or of the moment a client or a stream starts something; no other action of the scheduler is bounded.

`CHECK_DEADLOCK FALSE` is said where the modelled system may really stop, and each cfg says why: a finished log and
a cache in step (`ScheduleCache`), two stopped gates (`LeaderElection`), a process that has exited (`Lifecycle`), the end
of the modelled time or of the modelled calls (`TickTiming`, `WatchHealth`, `Cadence`, `TriggerSchedule`).

**Fairness.** Each assumption is on what the event loop or a timer of the code guarantees:

- `ScheduleCache`: the periodic resync installs a fresh snapshot again and again (`watch.py`,
  `_periodic_resync_loop`), and a call in flight ends by its deadline. *Nothing* is assumed of Watch frames.
- `SnapshotResync`: the interval elapses, the lock is handed on, a sync that holds it ends. The stream may never
  reconnect.
- `CadenceMismatch`: tasks run on and RPCs end; the reconnect negotiation meets an agreeing Brain if it asks again
  and again while the Brain keeps agreeing (strong fairness of `StreamAgreed`: each attempt is an independent
  RPC). Nothing makes a healthy stream break; `ReconnectLiftsStops` therefore assumes breaks in its premise.
- `LeaderElection`: each gate's own steps happen (its timer rings, the loop runs what is ready), and the server
  executes what it is sent and reaps dead clients. No fairness for `Crash`, `TimesOut`, `Stop` and other faults.

- `Lifecycle`: the loop runs what is ready; every RPC, and every wait of `stop()`, has a deadline. That a signal
  arrives or a fire starts is not promised.
- `TriggerSchedule`: the loop runs some handler that is ready, and each RPC a handler awaits has a deadline. No more is
  needed, since each of finitely many calls takes finitely many steps; nothing is assumed of the client.

`TickTiming`, `WatchHealth` and `Cadence` check safety only: their clocks end. `DeclaredSchedules` promises nothing of
what a client does next.

## 5. Where code and text disagree

The first two are runs that must find a counterexample; the full quotations are in `PROJECT.json`. The next five
are as real, and are kept as configurations that are run by hand.

1. `MCSnapshotResyncUnwired`: `main.py:190` builds `ScheduleCache()` without `on_snapshot_required`; nothing calls
   `_request_snapshot_resync`. A project at the tombstone cap stays paused until the periodic resync, though the
   changelog and `storage/cache.py:136` say that an immediate one is requested.
2. `MCCadenceMismatchStuck`: after a mismatch the engine asks the Brain once. If that fails and the Watch stream
   stays healthy, nothing asks again: the stop lasts as long as the stream, though `tick/engine.py:1837` says the Watch
   stream lifts it when the Brain comes back.
3. `MCCadenceMismatchAdvance.cfg` (`FirstRefusalIsHeld`): a mismatch answered to a cursor advance quarantines durably
   at once; the tests' header says that the first mismatch is held.
4. `MCCadenceMismatchIncident.cfg` (`DurableIsOneIncident`): the mark "already renegotiated" survives the control
   generation it is about, and some accepted fires, so the first refusal of the next incident is durable.
5. `MCLifecycleHang.cfg` (`SignalAlwaysEnds`): a SIGTERM while `start()` negotiates closes the channel with a grace of
   two seconds, and `start()` goes on. `run()` then starts a quarantine reporter that no stop reaches any more, and
   returns only after a second signal. The docstring of `_await_stop_then_cancel` (`main.py:592-596`) says that the
   CancelledError it raises unwinds the whole group; a TaskGroup lets the other children run on.
6. `MCTriggerScheduleDup.cfg` (`OneFirePerKey`): a retry that crosses the first call, or reaches the leader that came
   after, fires again, with a fire id of its own. The comments at `trigger_grpc/handlers.py:87-92` and `104-111` say
   that a repeated key gets the first call's command.
7. `MCCadenceGap.cfg` (`BacklogIsTheLatest`; run it with `MCCadence`): the backward walk of `cron.py:271-278` counts a
   time of a skipped hour that was snapped to an instant after `until` as one of its `cap` steps, though it is no slot
   of the backlog. A backlog that fills the cap and ends between the skipped hour and that instant comes back one slot
   short: with a cap of 1 the slot in question is missing, and the next one recovered is older than the latest due.
   `cron.py:213-216` says that the walk keeps the truncation on the most recent slots. The engine's cap is 10 000
   (`tick/engine.py:1983`), so it loses one slot of that many. `BacklogIsWhatWasDue` excepts exactly this (`JumpedOver`).

Smaller ones, found while translating:

- `trigger_grpc/handlers.py:7-11` says the cached `last_fire_at` is updated; `trigger_now` never touches the cache.
- A fire the Brain only buffered has no command; the handler stores and returns `str(None)`, the text `None`, though
  `trigger_grpc/handlers.py:6` says that it returns the Brain's command id. `HitIsTruthful` allows for that text, and for nothing else.
- The commands that look a schedule up by name, `list`, `import --verify`, and the Django command's `diff`, `list` and
  `trigger` take the body of `GET /schedules` for a flat list (`cli.py:1044-1052` and `1571-1577`, `z4j_schedules.py:140-146`).
  `exporters/_client.py:100-105` says that Brain v1.1.0 answers an envelope, of which it reads the first page only. On an
  envelope these callers fail at the first row. So `diff`, which should report "what an actual sync would do"
  (`z4j_schedules.py:126-127`), reads the table of no Brain on which sync works, since that needs v1.2; it would
  moreover call an insertion what sync makes an update, when another label has the name. In `DeclaredSchedules` a
  look-up fails on such a Brain (`NotResolved`).
- On a Brain that answers a list, a look-up takes the first row of the name, of whatever scheduler, while `cli.py:596-597` calls the
  commands those of "z4j-scheduler-owned schedules" and `cli.py:610` the name unique per project. So `disable`
  may disable another scheduler's schedule and report success (`Resolve`, with either scheduler). `NamedIsMeant` says what is true: the
  row that was looked up is the row that was changed.
- `tick/cron.py:19-21` lets a time in a skipped hour fire at the next valid time; the docstring at
  `tests/unit/test_dst_transitions.py:39-44` says that croniter skips to the next day. The model follows `tick/cron.py`.
- The comparator's `_predict_cron` compares wall clocks: a window that ends in a repeated hour ends an hour off.
  `ReportIsTruthful` leaves such ends out. Only tests call the comparator; the CLI's `--duration` fails closed.
- `_print_verify_diff` predicts deletions that "the live import would" make (`cli.py:1573-1574`); the import
  upserts and deletes nothing.
- `reconcile_from_settings` of the Django helper makes no request for an empty `Z4J_SCHEDULES`; its comment, and item
  4 of `tests/integration/test_declarative_e2e.py`, say that an empty setting deletes every row.

## 6. Proofs

TLAPS proves the following for *every* value of the constants, under the named `ASSUME`s of the modules
(`LogAssumption`, `CacheAssumption`, `ElectionAssumption`, `ResyncAssumption`, `KeyAssumption`, `MismatchAssumption`,
`TimingAssumption`, `BoundsAssumption`, `NumbersAssumption`, `WindowAssumption`, `LabelsAssumption`: bounds are naturals,
durations and caps that must be positive are, model values differ from data). Two say more: `NumbersAssumption` that a
zone's shift is less than `_MAX_DST_SHIFT`, which is what that constant is for, and `ScanAssumption` that a solar backlog
ends before the scan of `fires_between` does, which counts 80 000 events, or two centuries. TLC evaluates the assumptions
in the runs. Two theorems of the cache have one more hypothesis, on the Brain, stated in them. Each invariant holds in
TLC on the bounds of its component's run as well.

**`ScheduleCacheProofs`.** `TypeCorrect`, `NothingResurrected` (`NoResurrection`) and `RowsAreTheBrains`
(`RowIsTheBrains`), from `InductiveInvariant`; from the same invariant the action properties `EvidenceKept`
(`EvidenceNeverLost`) and `CadenceNeverMovesBack` (`CursorNeverGoesBack`), and the refinement
`CacheImplementsMirror` (`ImplementsMirror`). Neither safety property is inductive: whether a late answer may be
installed depends on what is in flight. The invariant adds

- `LogOK`: nothing of a schedule follows its deletion, and its cursor only grows;
- for every slot, that the entry repeats the log at `known`, that no deletion of it lies under the watermark, and
  that an absent slot's `known` is a revision by which the schedule was deleted;
- `HasNewest`: a schedule the log names up to a revision has a newest event up to it. It is true of every finite
  log; it is carried as an invariant, which the log's growth extends by one event, because the prover has no
  induction over data to find the newest event with;
- for every call in flight, that its row was committed and that an "accepted" names a later live row.

The argument: `CacheRow`'s operators keep a slot in that form (one lemma each), the log's growth disturbs none of
it (`Growth…` lemmas), and each action is one of the two (`LogStep`). `RowsAreTheBrains` assumes `~ReplayAfterHold`:
`apply_cursor_transition` keeps the local `enabled`, so if the Brain answered a repeated fire from a row it has put
on hold since, the cache would run it until the hold is streamed. The Brain is outside this repository; the
assumption says what the scheduler relies on.

The action properties and the refinement rest on one statement about a step, `Onwards` (lemma `StepFollows`): the
watermark does not decrease, and for each slot `Follows` holds: either `known` does not decrease, or a snapshot that
covers all that was known of the schedule has forgotten it, and then, if it was cached, it is deleted under the new
watermark. `SnapshotFollows` is the heart of it: a cached schedule that the snapshot does not list was deleted
by the snapshot's revision (here `HasNewest` is needed). The evidence of a schedule, the larger of `known` and the
watermark, therefore never decreases; a schedule that stays cached moves to a later revision, whose cursor `LogOK`
orders; and a schedule that disappears is one that is known to be gone, as `ScheduleMirror` demands. `LogStep` says
that no step both extends the log and moves the cache, which is how a step is matched with one of the mirror's.

`StopsCanEnd` (`StopCanEnd`) and `NobodyIsAccused` (`NoSpuriousProtocolError`) rest on a second invariant, `StopIInv`,
proved on top of the first. For the stops it adds that a refusal in flight names an event of its own schedule above
the row the fire was planned from, and that a call in flight has seen a row; the stop inherits that event, and whatever
replaces the row releases the stop with it. For the accusations it adds `PayloadOK`: the payload remembered for a row is
the Brain's at that revision. A delivery raises only on a payload that differs from the one remembered, and what is
delivered is the log's. `NobodyIsAccused` assumes `~ReplayAfterHold`, for the same reason as `RowsAreTheBrains`:
`CursorTransition` rewrites the payload from the row it keeps (the last item of section 3).

`PausesAreJustified` (`PausedOnlyUnderPressure`): a paused project has as many deletes on record as the cap. A pause is
set where the pressure is, so what is to be shown is that the pressure does not fall without the pause being looked at.
The absent schedules known above the watermark (`Stones`) are named by the log, hence finitely many however many
schedules there are (`StonesAreFew`), and while the watermark stands they stay (`StonesStay`: an absent row comes back
only under a later event of its own, and nothing follows a delete); when it moves, the install recomputes every pause.

**`LeaderElectionProofs`.** `GatesTypeCorrect`, `LeadersOwnTheirLocks` (`LeaderOwnsLock`) and `OneSoundLeaderEach`
(two instances that lead one key on sessions that are still there, neither giving it up, are the same), for any
number of instances, sessions, keys and faults, from `GatesInvariant`. `LeaderOwnsLock` is not inductive for three
reasons, each a conjunct of the invariant `IInv`:

- `AcquireUnderWay`: the answer "true" is believed when it *arrives*; the lock must have been granted to this very
  connection and still be owned. That needs `ConnDistinct` (sessions are never shared) and `DeadIsIdle` (a dead
  session executes nothing).
- `ReleaseUnderWay`: a release the server has not executed yet takes the lock away later, so whoever still leads
  must be in a state that gives up. This is where a cancelled loop matters: it leaves its query behind.
- `HeldNeedsConn`: a probe opens a connection when there is none, so leadership that outlived its session would
  be confirmed by a session that owns nothing. Every error path must drop both, and it does.

`OneOwner` and `CallFits` complete it. One lemma per group of actions; a step of one instance, or of the server on
one session, leaves the others alone (`OutsideKeeps`).

`LocksAreCounted` (`NothingLeftBehind`) needs more than who owns a lock, since an advisory lock is owned *as often* as
it was acquired: `CountIInv` says, for a gate between two queries or in one, how often its session owns each key
(`Due`: once what it leads, but for the key of the query, where it depends on whether the server has executed it).
That takes `LineIsClear`, that nothing is under way on the session but the query the gate awaits: a query given up
closes its connection, so that no later cycle meets an acquire it has forgotten.

`GatesImplementLock` (`ImplementsLock`) is the refinement. `OneMoves`: a step of the system changes what one instance
leads at most, because what a gate does, and a session that is opened or ended, concerns nobody else (`GateApart`,
`EndsForOne`, from `ConnDistinct`). `LockMoves` then needs `OneSoundLeader` on both sides of the step: an instance that
begins to lead a key is the only one after it, so nobody led before; one that ceases was the only one, so nobody
leads after.

**`WatchProofs`, the snapshots.** `NothingFallsBetween` (`NoDeleteFallsBetween`), `PausesFollowPressure`
(`PausedExactlyUnderPressure`) and `SnapshotsAreOrdered` (`SnapshotsInstallInOrder`), for any projects, cap, log and
number of failures, with the hook wired or not, from `ResyncInvariant`. The three support one another, and one
conjunct is missing: `OneHolder`, that at most one task is past the queue of the sync lock. It is what makes the
snapshot a task has read at least as new as the watermark when it installs it, hence the absence records it drops
exactly those it covers. The step with substance is `DeliverNextKeeps`: a tombstone adds to the record, and the
pressure of a larger record is no less (`PressureGrows`, from the cardinality of finite sets), so the pauses that are
added make up the pressure exactly.

**`TriggerScheduleProofs`.** `OneFireForACall` (`OneFirePerCall`), `HitsAreTruthful` (`HitIsTruthful`) and
`RepeatsFireNothing` (`RepeatFiresNothing`), for any number of replicas, calls, keys and crashes, any TTL and any
budget of the sweep, from `TriggerInvariant`. Its two halves face each other: `EntriesTrue`, every entry of the map is
of a call this replica answered, with the fire, the key and the time of that answer; and `FiredIsKept`, a call
answered less than the TTL ago has an entry, its own or one that replaced it later. The first makes a hit truthful, the
second makes a miss mean that nothing was fired. The sweep keeps both, since it drops expired entries only and an
entry is never older than the call it stands for; a crash keeps both, since it forgets the calls with their entries.
That a call makes one fire is `OwnIds`: no call draws twice (`DrawnOnce`), only calls that have begun draw
(`DrawnByCalls`), and the id that a call in progress holds, over all its attempts, is the one it drew (`HoldsOwnId`), so that whatever
lands, however late, is that one. `AckOfOwnFire` and `NoResultYet` say what a call in progress may have, and
`OneCallKeeps` is the one lemma that all the steps of a call go through but the last.

**`TickTimingProofs`.** `LateFiresAreOwed` (`LateFireIsOwed`), `OwedSlotsAreKept` (`NothingOwedIsDiscarded`),
`BacklogsGoInOnePass` (`CatchUpIsOnePass`), `OverdueSlotsAreExplained` (`OverdueIsExplained`) and the action property
`NewestMissedAreKept` (`FireAllKeepsTheNewest`), for every grace, heartbeat, recheck, back-off, sleep, cadence, batch size, cap
and number of events, from `TimingInvariant`. The clock's end `MaxTime` is any natural. The parts of the invariant:

- `Rows`: a row lags behind the Brain's by whole revisions, and is the Brain's if the revisions are equal; a row has
  fired before what it waits for. So a claimed entry whose revision the Brain still holds *is* the Brain's row, which is
  what lets `NewestMissedAreKept` speak of the Brain's pending slot.
- `Claim`: the entry of the iteration in progress is of the slot and cadence that were seen, and no slot is parked.
- `Memory`, the heart of it, compares the engine's marks with the history: a handoff is of the slot the process
  followed, an entitlement points at an attempt on time that did happen (hence a late fire is owed); and if an attempt
  on time still speaks for the slot, the entitlement is held, unless the slot is settled, here and at the Brain
  (`Lapsed \/ Held \/ Over`; hence nothing owed is discarded). `HandoffKept` says the same of the promotion grace; without
  it a promoted follower could judge by the shorter one and lose the entitlement it is about to earn.
- `Plans`: what is being drained is consecutive, due, headed by the pending slot while the Brain stands still, and of the
  form the policy gives it. `Grid` and `Missed` compute what `fires_between` returns, from the division it makes.
- `Naps`: every sleep ends by what it waits for.

`backoff.until` is an integer in `TypeOK`, not a natural: of the power of two in it the prover knows no more, and the
theorems need no more.

**`CadenceMismatchProofs`.** `StopsAreOwed` (`StopIsOwedAnAgreement`), `LiftedStopsGiveBack`
(`LiftedAsTheBrainHasIt`) and `FiresAreHeldFirst` (`FireHeldFirst`, which only the wider instance checks), for any schedules, revisions, generations,
failures and changes of the runtimes, from `MismatchInvariant`. A stop without a revision is remembered under its own
token (`Owed`) because the answer that stops a row is the last thing its fire cycle waits for (`Free`), so nothing is in
flight that could latch another generation over it; `Holds` says what a stop remembers of the row it disabled, which is
what bounds the row that is given back; `AnswerOK` ties an answer on its way to the log and to its grounds.
`MismatchAssumption` includes that the model value `None` is not one of `Trail`'s grounds.

**`LifecycleProofs`.** `GateReleasedLast` (`GateOutlivesFires`) and `NothingIsLeft` (`ExitLeavesNothing`), for any number of
signals and fires, from `LifecycleInvariant`. Neither is inductive, since each `stop()` sees only the stages it passes
itself: `StopsInPlace` says that a `stop()` reaches a stage only if it found something to wait for, and `StopsAreQuiet` that
behind a stage the fires it waited for are over and cannot start again, by whichever of the racing calls it was
reached. `MainStops` follows the one `stop()` that the exit waits for; `BuiltInOrder` and `FiresAreCarried` say what cannot
exist before what.

**`WatchProofs`, the health of the stream.** `OutageMeasured` (`OutageIsContinuous`) and `PenaltyMeasured` (`PenaltyFitsTheLosses`), for
every delay, grace, interval and cap, from `WatchInvariant`: the clock `since` is what the history of losses says (`ClockFits`, with
the start kept aside while a stream is open that has not served), and the exponent is the number of losses since a
stream last held (`PenaltyFits`). `HasLast` is carried for the same reason as `HasNewest` above.

**`ScheduleProofs`, the cadences.** First the calculators, as functions. `NextIsDue`: `next_fire` is the earliest instant
the definition matches, of those after its argument; `BetweenIsDue`: `fires_between` is the latest `cap` of the
instants matched in the window, but for the case of finding 7. Both are put together from one theorem for each kind:

- cron: nothing is found that is not due (`FoundIsDue`), and what the two walks miss is shown by a local time before all
  that the backward walk reached (`MissedIsBefore`; this is what `BackOff` steps back for, and where `Shift < MaxShift`
  is used). A walk that stopped early reached `cap` local times, each of which is due in the window at an instant of its
  own, but for one of a gap still to come (`LaterAreCounted`), so what is missed is not among the latest `cap`;
- intervals: `KStart` and `KMax` number exactly the last `cap` slots of the window;
- solar events: the day-by-day walk is a recursive function; that it exists is proved first (`WalkExists`), then that each
  of its steps passes one event (`ProgressIsMade`), and `ScanAssumption` says that it is not cut off.

Where an induction is needed it is done by a least counterexample: a nonempty set of naturals has a least element
(`LeastExists`, from the library's well-founded ordering of finite sets by inclusion). Then the engine: `EngineInv` says that `last` is a due slot not after `now`, and `pending` the
function of it that `_next_fire_for` computes; from it `PendingIsRight` (`PendingIsTheNextDue`), `BacklogIsRight`
(`BacklogIsWhatWasDue`) and `CadenceTypeCorrect`. `ReportIsTrue` (`ReportIsTruthful`) follows the comparator's prediction of
each kind to the fires of its definition, so that the divergences are the differences between the two sets of fires.

**`ScheduleProofs`, the declared schedules.** `AnswersAreDone` (`AnsweredIsDone`), `NamesAreMeant` (`NamedIsMeant`) and
`DeclaredTypeCorrect`, for any names, dicts, clients and requests, from `DeclaredInv`. Neither property is inductive. `Settled` says
that an answer on its way still describes the table, schedule by schedule, where nothing has crossed it. It is what every
other request threatens, and it is kept because a request changes no row but those it is about (`Same`), and these are
marked in the answers it crosses (`CrossedIsSound`). That it holds when a request is executed takes `Honest`: a row whose hash is
that of a declaration says what the declaration says, unless it was edited by hand under that hash; so a row that the
Brain leaves as unchanged is as declared (`UnchangedIsLeftAs`). `Named` says that a look-up found a row, so that the id
of one that is gone is nobody's. `ImportMeans` splits what the Brain does with a batch into rows written, dropped and
left, and `OnlyTheAnswerEnds` says that nothing but its own answer brings a client to report success.

**Only model-checked**: the liveness properties, since fairness and `ENABLED` are beyond the prover: `EventuallyInStep`,
`ReconnectLiftsStops`, `PausesEnd`, `StaleLeaderStepsDown`, `ProjectGetsALeader`, `EveryCallEnds`, `SignalEndsRun`. Every
safety and action property of a passing run, and both refinements, are proved.

## 7. What is not modelled

- The *legacy protocol mode* (rows without revisions: `update_fire_state`, `upsert`, `remove`, the echo merge, the
  legacy dispatch and resume token). It is a second, older implementation of the same promises.
- croniter, zoneinfo, astral, grpc.aio, Postgres and the Brain: external, modelled from how the code uses them and
  from what its tests pin.
- The reporter's back-off and the bound of its queue; the legacy resume token of the Watch stream.
- The translations of other schedulers' formats by the importers and the exporters: sequential parsing and text
  generation without state. `trigger`, `list`, `history`, `diff` and `import --verify` of the CLI and of the Django app
  change nothing in the table.
- The HTTP API except readiness, settings, metrics, logging: I/O and validation with no state that the rest
  depends on. `canonical_next_run_at` serves the behaviour digest of the release only.
- Generated code.
