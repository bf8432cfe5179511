--------------------------- MODULE SnapshotResync ---------------------------
(***************************************************************************)
(* Tombstone pressure and the snapshots that relieve it: the ordered Watch *)
(* stream (storage/watch.py, storage/_watch_v2.py), the three tasks that   *)
(* run a full sync behind one lock, and the pause and request in           *)
(* ScheduleCache and main.py.  Only deletes matter to the pressure, so the *)
(* log of the Brain is reduced to them: revision r deleted a schedule of   *)
(* project deletes[r].                                                     *)
(***************************************************************************)
EXTENDS Naturals, Sequences, FiniteSets

CONSTANTS
    Project,
    TombstoneCap,   \* max_post_watermark_tombstones
    HookWired,      \* is _request_snapshot_resync given to the cache? main.py: no
    MaxRevision,    \* bound of this model: deletes committed
    MaxFailures     \* bound of this model: syncs and streams that break

ASSUME ResyncAssumption ==
    /\ TombstoneCap \in Nat \ {0}
    /\ HookWired \in BOOLEAN
    /\ MaxRevision \in Nat
    /\ MaxFailures \in Nat

VARIABLES
    deletes,    \* the Brain's log
    tombs,      \* revisions of the tombstones applied and not yet subsumed
    watermark,  \* _global_watermark
    paused,     \* _snapshot_required_projects
    stream,     \* the watch loop: "down", "syncing" or "open"
    cursor,     \* OrderedWatchApplier._cursor
    sync,       \* sync[k]: the full sync of task k
    failures

vars == <<deletes, tombs, watermark, paused, stream, cursor, sync, failures>>

\* Who runs _full_sync: the watch loop on (re)connect, the periodic timer, and
\* the immediate resync; one of each at most.
Task == {"watch", "periodic", "requested"}

Now == Len(deletes)

Idle == [pc |-> "idle", at |-> 0]
Waiting == [pc |-> "waiting", at |-> 0]
Reading == [pc |-> "reading", at |-> 0]
Read(w) == [pc |-> "read", at |-> w]

TypeOK ==
    /\ deletes \in Seq(Project)
    /\ tombs \in SUBSET (1..Now)
    /\ watermark \in 0..Now
    /\ paused \in SUBSET Project
    /\ stream \in {"down", "syncing", "open"}
    /\ cursor \in 0..Now
    /\ sync \in [Task -> {Idle, Waiting, Reading} \cup {Read(w) : w \in 0..Now}]
    /\ failures \in 0..MaxFailures

Init ==
    /\ deletes = <<>>
    /\ tombs = {}
    /\ watermark = 0
    /\ paused = {}
    /\ stream = "down"
    /\ cursor = 0
    /\ sync = [k \in Task |-> Idle]
    /\ failures = 0

\* _post_watermark_tombstone_count_locked.
PressureOf(p, applied) == Cardinality({r \in applied : deletes[r] = p})

UnderPressure(applied) == {p \in Project : PressureOf(p, applied) >= TombstoneCap}

\* _request_snapshot_resync: a request while one runs is not queued, and one that
\* raises is only logged.  Without the hook there is none.
Requested(s, newly) ==
    IF HookWired /\ newly # {} /\ s["requested"] = Idle
    THEN {s, [s EXCEPT !["requested"] = Waiting]} ELSE {s}

-----------------------------------------------------------------------------
BrainDelete(p) ==
    /\ Now < MaxRevision
    /\ deletes' = Append(deletes, p)
    /\ UNCHANGED <<tombs, watermark, paused, stream, cursor, sync, failures>>

\* The stream's next frame, strictly after its cursor: apply_tombstone drops it if
\* a snapshot subsumed it, and otherwise may pause its project and ask for a resync.
DeliverNext ==
    /\ stream = "open" /\ cursor < Now
    /\ LET r == cursor + 1
       IN  /\ tombs' = IF r <= watermark THEN tombs ELSE tombs \cup {r}
           /\ cursor' = r
    /\ paused' = paused \cup UnderPressure(tombs')
    /\ sync' \in Requested(sync, paused' \ paused)
    /\ UNCHANGED <<deletes, watermark, stream, failures>>

\* The stream breaks, or the Brain closes it.
StreamEnds ==
    /\ stream = "open"
    /\ failures < MaxFailures
    /\ stream' = "down"
    /\ failures' = failures + 1
    /\ UNCHANGED <<deletes, tombs, watermark, paused, cursor, sync>>

\* _sync_then_watch after the back-off: a full sync comes before the stream.
Reconnect ==
    /\ stream = "down" /\ sync["watch"] = Idle
    /\ stream' = "syncing"
    /\ sync' = [sync EXCEPT !["watch"] = Waiting]
    /\ UNCHANGED <<deletes, tombs, watermark, paused, cursor, failures>>

\* _periodic_resync_loop: its interval elapsed.
PeriodicTimer ==
    /\ sync["periodic"] = Idle
    /\ sync' = [sync EXCEPT !["periodic"] = Waiting]
    /\ UNCHANGED <<deletes, tombs, watermark, paused, stream, cursor, failures>>

\* Mutant: the sync lock is not taken.
TakeLockUnserialised(k) ==
    /\ sync[k] = Waiting
    /\ sync' = [sync EXCEPT ![k] = Reading]
    /\ UNCHANGED <<deletes, tombs, watermark, paused, stream, cursor, failures>>

\* `async with self._sync_lock`: the read and the install are one section.
TakeLock(k) ==
    /\ sync[k] = Waiting
    /\ \A j \in Task : sync[j] \in {Idle, Waiting}
    /\ sync' = [sync EXCEPT ![k] = Reading]
    /\ UNCHANGED <<deletes, tombs, watermark, paused, stream, cursor, failures>>

\* ListScheduleSnapshot: the Brain assembles the snapshot of this moment.
BrainSnapshot(k) ==
    /\ sync[k] = Reading
    /\ sync' = [sync EXCEPT ![k] = Read(Now)]
    /\ UNCHANGED <<deletes, tombs, watermark, paused, stream, cursor, failures>>

\* The read fails.  Each task survives it: the watch loop backs off, the timer
\* waits for its next interval, the immediate resync is given up.
SyncFails(k) ==
    /\ sync[k] = Reading
    /\ failures < MaxFailures
    /\ failures' = failures + 1
    /\ sync' = [sync EXCEPT ![k] = Idle]
    /\ stream' = IF k = "watch" THEN "down" ELSE stream
    /\ UNCHANGED <<deletes, tombs, watermark, paused, cursor>>

\* Mutant: every absence record goes, not only those the snapshot covers.
InstallForgettingNewer(k) ==
    /\ sync[k].pc = "read"
    /\ LET w == sync[k].at
       IN  /\ tombs' = {}
           /\ watermark' = w
           /\ cursor' = IF k = "watch" /\ w > cursor THEN w ELSE cursor
    /\ paused' = UnderPressure(tombs')
    /\ sync' = [sync EXCEPT ![k] = Idle]
    /\ stream' = IF k = "watch" THEN "open" ELSE stream
    /\ UNCHANGED <<deletes, failures>>

\* Mutant: a pause ends with any snapshot, covering or not.
InstallLiftingAllPauses(k) ==
    /\ sync[k].pc = "read"
    /\ LET w == sync[k].at
       IN  /\ tombs' = {r \in tombs : r > w}
           /\ watermark' = w
           /\ cursor' = IF k = "watch" /\ w > cursor THEN w ELSE cursor
    /\ paused' = {}
    /\ sync' = [sync EXCEPT ![k] = Idle]
    /\ stream' = IF k = "watch" THEN "open" ELSE stream
    /\ UNCHANGED <<deletes, failures>>

\* Mutant: pauses are added to, never looked at again.
InstallKeepingPauses(k) ==
    /\ sync[k].pc = "read"
    /\ LET w == sync[k].at
       IN  /\ tombs' = {r \in tombs : r > w}
           /\ watermark' = w
           /\ cursor' = IF k = "watch" /\ w > cursor THEN w ELSE cursor
    /\ paused' = paused \cup UnderPressure(tombs')
    /\ sync' = [sync EXCEPT ![k] = Idle]
    /\ stream' = IF k = "watch" THEN "open" ELSE stream
    /\ UNCHANGED <<deletes, failures>>

\* apply_completed_snapshot, and the cursor the next stream starts after.  A
\* snapshot older than the watermark is not installed.  A project the snapshot
\* leaves newly under pressure asks for another resync.
Install(k) ==
    /\ sync[k].pc = "read"
    /\ LET w == sync[k].at
       IN  IF w < watermark
           THEN UNCHANGED <<tombs, watermark, paused>>
           ELSE /\ tombs' = {r \in tombs : r > w}
                /\ watermark' = w
                /\ paused' = UnderPressure(tombs')
    /\ sync' \in Requested([sync EXCEPT ![k] = Idle], paused' \ paused)
    /\ IF k = "watch"
       THEN /\ stream' = "open"
            /\ cursor' = IF sync[k].at > cursor THEN sync[k].at ELSE cursor
       ELSE UNCHANGED <<stream, cursor>>
    /\ UNCHANGED <<deletes, failures>>

-----------------------------------------------------------------------------
Next ==
    \/ \E p \in Project : BrainDelete(p)
    \/ DeliverNext \/ StreamEnds \/ Reconnect \/ PeriodicTimer
    \/ \E k \in Task : TakeLock(k) \/ BrainSnapshot(k) \/ SyncFails(k) \/ Install(k)

Spec == Init /\ [][Next]_vars

\* The interval elapses, and a sync that holds the lock ends one way or another.
\* Nothing is assumed of the stream: it may never reconnect.
FairSpec ==
    /\ Spec
    /\ WF_vars(PeriodicTimer)
    /\ WF_vars(\E k \in Task : TakeLock(k))
    /\ \A k \in Task : WF_vars(BrainSnapshot(k) \/ SyncFails(k)) /\ WF_vars(Install(k))

-----------------------------------------------------------------------------
\* No delete falls between a snapshot and a stream.  Across drops, reconnects and
\* snapshots installed under a live stream, the deletes the cache holds on record
\* are exactly those after the watermark that the stream has passed.
NoDeleteFallsBetween == tombs = (watermark + 1)..cursor

\* A project is paused exactly while the deletes on record reach the cap: nothing
\* lifts a pause early, nothing keeps it late, and no snapshot forgets to set it.
PausedExactlyUnderPressure == paused = UnderPressure(tombs)

\* A snapshot read under the sync lock is never older than what is installed:
\* the reconnect, the timer and the immediate resync cannot undo one another.
SnapshotsInstallInOrder == \A k \in Task : sync[k].pc = "read" => sync[k].at >= watermark

\* Every pause ends, with the periodic resync alone and whatever fails first.
PausesEnd == \A p \in Project : p \in paused ~> p \notin paused

\* "requests an immediate snapshot resync instead of waiting for the periodic one":
\* while a project is paused, a sync that can cover its deletes is under way.
PausedHasResync ==
    \A p \in paused : \E k \in Task :
        \/ sync[k] \in {Waiting, Reading}
        \/ sync[k].pc = "read" /\ PressureOf(p, {r \in tombs : r > sync[k].at}) < TombstoneCap
=============================================================================
