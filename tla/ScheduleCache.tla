--------------------------- MODULE ScheduleCache ---------------------------
(***************************************************************************)
(* ScheduleCache (storage/cache.py), current protocol, together with the   *)
(* things that write to it without waiting for one another: Watch frames,  *)
(* completed snapshots, GetScheduleState answers, and the answers to fires *)
(* and cursor advances that were sent from an older row.                   *)
(*                                                                         *)
(* Anything the Brain ever said may arrive late, twice or out of order:    *)
(* a delivery picks any revision of the log.  That is more than one Watch  *)
(* stream does, and it covers what the parallel senders do between them.   *)
(***************************************************************************)
EXTENDS BrainLog, FiniteSets

CONSTANTS
    Project,
    ProjectOf,          \* the project of each schedule
    TombstoneCap,       \* max_post_watermark_tombstones
    ReplayAfterHold     \* does the Brain replay an acceptance of a row it holds?

ASSUME CacheAssumption ==
    /\ ProjectOf \in [Schedule -> Project]
    /\ TombstoneCap \in Nat \ {0}
    /\ ReplayAfterHold \in BOOLEAN

VARIABLES
    cache,      \* cache[i]: everything kept for schedule i (CacheRow)
    watermark,  \* _global_watermark: revision of the last installed snapshot
    paused,     \* _snapshot_required_projects
    call,       \* call[i]: the fire or advance in flight for i, and its answer
    raised      \* a ScheduleProtocolError was raised

cacheVars == <<cache, watermark, paused, call, raised>>
vars == <<history, cacheVars>>

Reply == [kind: {"accepted", "refused"}, live: Nat]
Call == [row: Row, reply: Reply \cup {None}]

TypeOK ==
    /\ LogTypeOK
    /\ cache \in [Schedule -> Slot]
    /\ watermark \in Nat
    /\ paused \in SUBSET Project
    /\ call \in [Schedule -> Call \cup {None}]
    /\ raised \in BOOLEAN

Init ==
    /\ LogInit
    /\ cache = [i \in Schedule |-> EmptySlot]
    /\ watermark = 0
    /\ paused = {}
    /\ call = [i \in Schedule |-> None]
    /\ raised = FALSE

\* Deletes and absences of project p that no snapshot has subsumed: the ids
\* known to be gone, above the watermark w, when the slots are c.
PressureOn(p, c, w) ==
    Cardinality({i \in Schedule : ProjectOf[i] = p /\ ~Present(c[i]) /\ c[i].known > w})

-----------------------------------------------------------------------------
(* Deliveries.  An error leaves the cache as it was.                       *)

\* _apply_watch_update_locked, for a Watch upsert or an observed row.
DeliverRow(r) ==
    /\ r \in 1..Now
    /\ history[r].live
    /\ LET i == history[r].id
           row == RowAt(r)
       IN  IF RowConflicts(cache[i], row, watermark)
           THEN raised' = TRUE /\ UNCHANGED cache
           ELSE /\ cache' = [cache EXCEPT ![i] = MergeRow(@, row, watermark)]
                /\ UNCHANGED raised
    /\ UNCHANGED <<history, watermark, paused, call>>

\* apply_tombstone: only an applied delete can pause its project.
DeliverTombstone(r) ==
    /\ r \in 1..Now
    /\ ~history[r].live
    /\ LET i == history[r].id
           p == ProjectOf[i]
           s == ApplyTombstone(cache[i], r, watermark)
       IN  IF TombstoneConflicts(cache[i], r, watermark)
           THEN raised' = TRUE /\ UNCHANGED <<cache, paused>>
           ELSE /\ cache' = [cache EXCEPT ![i] = s]
                /\ paused' = IF s # cache[i] /\ PressureOn(p, cache', watermark) >= TombstoneCap
                             THEN paused \cup {p} ELSE paused
                /\ UNCHANGED raised
    /\ UNCHANGED <<history, watermark, call>>

\* apply_observed_absence: GetScheduleState found the schedule gone at w.
DeliverAbsence(i, w) ==
    /\ w \in 1..Now
    /\ DeletedBy(i, w)
    /\ IF AbsenceConflicts(cache[i], w)
       THEN raised' = TRUE /\ UNCHANGED cache
       ELSE cache' = [cache EXCEPT ![i] = ApplyAbsence(@, w)] /\ UNCHANGED raised
    /\ UNCHANGED <<history, watermark, paused, call>>

\* The rows of the snapshot the Brain assembles at revision w.
SnapshotRows(w) == {r \in 1..w : history[r].live /\ IsNewest(r, w)}

\* The slot of schedule i after the snapshot at w: its row merged, if it has one;
\* forgotten, if it has none and nothing newer than w is known of it.
AfterSnapshot(i, w) ==
    LET listed == \E r \in SnapshotRows(w) : history[r].id = i
        merged == IF listed
                  THEN LET r == CHOOSE q \in SnapshotRows(w) : history[q].id = i
                       IN  MergeRow(cache[i], RowAt(r), watermark)
                  ELSE cache[i]
    IN  IF merged.known <= w /\ (~listed \/ ~Present(merged)) THEN EmptySlot ELSE merged

SnapshotConflicts(w) ==
    \E r \in SnapshotRows(w) :
        LET s == cache[history[r].id] IN r = s.known /\ s.payload # RowAt(r)

\* apply_completed_snapshot for the snapshot the Brain assembled at w.
DeliverSnapshot(w) ==
    /\ w \in watermark..Now
    /\ IF SnapshotConflicts(w)
       THEN raised' = TRUE /\ UNCHANGED <<cache, watermark, paused>>
       ELSE /\ cache' = [i \in Schedule |-> AfterSnapshot(i, w)]
            /\ watermark' = w
            /\ paused' = {p \in Project : PressureOn(p, cache', w) >= TombstoneCap}
            /\ UNCHANGED raised
    /\ UNCHANGED <<history, call>>

-----------------------------------------------------------------------------
(* The engine's calls.  A call carries the row it was planned from, and    *)
(* everything above may run before its answer is looked at.                *)

\* all_due and the drain's last look: enabled, present, project not paused.
Submit(i) ==
    /\ call[i] = None
    /\ Present(cache[i])
    /\ cache[i].entry.enabled
    /\ ProjectOf[i] \notin paused
    /\ call' = [call EXCEPT ![i] = [row |-> cache[i].entry, reply |-> None]]
    /\ UNCHANGED <<history, cache, watermark, paused, raised>>

Answer(i, kind, live) ==
    call' = [call EXCEPT ![i].reply = [kind |-> kind, live |-> live]]

\* The event that accepted exactly the row e of schedule i, if it is in the log.
AcceptedAs(i, e, a) ==
    /\ a \in (e.rev + 1)..Now
    /\ history[a].id = i /\ history[a].live
    /\ history[a].token = e.token /\ history[a].cursor = e.cursor + 1
    /\ \A q \in (e.rev + 1)..(a - 1) : history[q].id # i

\* The Brain decides a request.  It accepts the row it still holds and enables;
\* a request it already accepted is replayed with its live row; anything else is
\* refused with the live revision, 0 when the schedule does not exist.
BrainAnswer(i) ==
    /\ call[i] # None /\ call[i].reply = None
    /\ LET e == call[i].row
           held(r) == LiveRow(i, r, Now)
           replayed(r) == /\ held(r)
                          /\ \E a \in 1..Now : AcceptedAs(i, e, a)
                          /\ history[r].enabled \/ ReplayAfterHold
       IN  \/ /\ held(e.rev) /\ history[e.rev].enabled
              /\ Accept(e.rev)
              /\ Answer(i, "accepted", Now + 1)
           \/ \E r \in 1..Now :
                 replayed(r) /\ Answer(i, "accepted", r) /\ UNCHANGED history
           \/ \E r \in 1..Now :
                 /\ held(r) /\ ~replayed(r)
                 /\ ~(r = e.rev /\ history[r].enabled)
                 /\ Answer(i, "refused", r) /\ UNCHANGED history
           \/ /\ DeletedBy(i, Now)
              /\ Answer(i, "refused", 0) /\ UNCHANGED history
    /\ UNCHANGED <<cache, watermark, paused, raised>>

\* The answer is lost and the dispatcher sends the same request again.
LoseReply(i) ==
    /\ call[i] # None /\ call[i].reply # None
    /\ call' = [call EXCEPT ![i].reply = None]
    /\ UNCHANGED <<history, cache, watermark, paused, raised>>

\* The call ends with no usable answer: back off, keep the slot.
GiveUp(i) ==
    /\ call[i] # None
    /\ call' = [call EXCEPT ![i] = None]
    /\ UNCHANGED <<history, cache, watermark, paused, raised>>

\* What an answer does to the slot of the row it was sent for.  A refused fire
\* stops the schedule; a refused advance only keeps the slot.
AfterReply(s, e, reply) ==
    IF reply.kind = "refused"
    THEN {LatchStop(s, e.token, reply.live), s}
    ELSE IF history[reply.live].token # e.token
    THEN {LatchStop(s, e.token, reply.live), s}
    ELSE {CursorTransition(s, e, reply.live, history[reply.live].cursor)}

HandleReply(i) ==
    /\ call[i] # None /\ call[i].reply # None
    /\ \E s \in AfterReply(cache[i], call[i].row, call[i].reply) :
          cache' = [cache EXCEPT ![i] = s]
    /\ call' = [call EXCEPT ![i] = None]
    /\ UNCHANGED <<history, watermark, paused, raised>>

\* The fire cycle raised: the definition it was planned from is quarantined.
Quarantine(i) ==
    /\ call[i] # None
    /\ cache' = [cache EXCEPT ![i] = QuarantineLocally(@, call[i].row.token)]
    /\ call' = [call EXCEPT ![i] = None]
    /\ UNCHANGED <<history, watermark, paused, raised>>

-----------------------------------------------------------------------------
Brain ==
    /\ \E i \in Schedule :
          \/ \E t \in Token : BrainCreate(i, t) \/ BrainEdit(i, t)
          \/ BrainToggleHold(i)
          \/ BrainDelete(i)
          \/ BrainAcceptElsewhere(i)
    /\ UNCHANGED cacheVars

Deliver ==
    \/ \E r \in 1..Now : DeliverRow(r) \/ DeliverTombstone(r) \/ DeliverSnapshot(r)
    \/ \E i \in Schedule, w \in 1..Now : DeliverAbsence(i, w)

Engine ==
    \E i \in Schedule :
        Submit(i) \/ BrainAnswer(i) \/ LoseReply(i) \/ GiveUp(i) \/ HandleReply(i) \/ Quarantine(i)

Next == Brain \/ Deliver \/ Engine

Spec == Init /\ [][Next]_vars

\* _periodic_resync_loop: a fresh snapshot is installed again and again.
Resync == DeliverSnapshot(Now)

\* An answered call is handled and an unanswered one ends by its deadline.
FairSpec ==
    /\ Spec
    /\ WF_vars(Resync)
    /\ \A i \in Schedule : WF_vars(HandleReply(i) \/ GiveUp(i))

-----------------------------------------------------------------------------
(* Safety.                                                                 *)

\* Deleted work never comes back.  Once the cache holds evidence that a schedule
\* was deleted, as its own revision or under a snapshot's watermark, no late row,
\* snapshot or fire answer makes the tick engine see it again.
NoResurrection ==
    \A i \in Schedule : \A d \in 1..Now :
        /\ history[d].id = i /\ ~history[d].live
        /\ cache[i].known >= d \/ watermark >= d
        => ~Present(cache[i])

\* What the engine ticks is what the Brain committed at the revision the row
\* names, and a schedule runs only if the Brain has it enabled there: neither a
\* cursor transition nor a released stop invents progress or lifts a hold.
RowIsTheBrains ==
    \A i \in Schedule : Present(cache[i]) =>
        LET e == cache[i].entry
        IN  /\ e.rev \in 1..Now
            /\ history[e.rev].id = i /\ history[e.rev].live
            /\ e.token = history[e.rev].token
            /\ e.cursor = history[e.rev].cursor
            /\ e.enabled => history[e.rev].enabled

\* A stop can always end.  It is held only on a disabled row of its own token,
\* and it waits for an event of that schedule which the Brain has committed and
\* this cache has not consumed yet: the refusing revision, or, when the Brain
\* said the schedule is gone, its tombstone.
StopCanEnd ==
    \A i \in Schedule : cache[i].stop # None =>
        LET s == cache[i]
        IN  /\ Present(s) /\ s.stop.token = s.entry.token /\ ~s.entry.enabled
            /\ IF s.stop.refusedAt > 0
               THEN /\ s.entry.rev < s.stop.refusedAt /\ s.stop.refusedAt <= Now
                    /\ history[s.stop.refusedAt].id = i
               ELSE DeletedBy(i, Now)

\* A Brain that never reuses a revision is never accused of it: no interleaving
\* of frames, snapshots and answers raises ScheduleProtocolError.
NoSpuriousProtocolError == ~raised

\* A project is paused only while unsubsumed deletes justify it, so any snapshot
\* that covers them lifts the pause.
PausedOnlyUnderPressure ==
    \A p \in paused : PressureOn(p, cache, watermark) >= TombstoneCap

\* The newest revision up to which the cache knows schedule i's fate.
Evidence(i) == IF cache[i].known >= watermark THEN cache[i].known ELSE watermark

\* Compacting revisions after a snapshot loses no evidence: what a delayed frame
\* is compared with never moves back.
EvidenceNeverLost == [][\A i \in Schedule : Evidence(i)' >= Evidence(i)]_vars

\* The cadence never moves back: while a schedule stays cached, neither its
\* revision nor its cursor decreases, whatever order things arrive in, so a slot
\* already resolved is not planned again.
CursorNeverGoesBack ==
    [][\A i \in Schedule :
          Present(cache[i]) /\ Present(cache'[i]) =>
              /\ cache'[i].entry.rev >= cache[i].entry.rev
              /\ cache'[i].entry.cursor >= cache[i].entry.cursor]_vars

-----------------------------------------------------------------------------
(* Liveness.                                                               *)

\* The cached schedule i is the Brain's, and runs exactly if the Brain enables
\* it and this process has not quarantined that generation.
InStep(i) ==
    IF \E r \in 1..Now : LiveRow(i, r, Now)
    THEN /\ Present(cache[i])
         /\ LiveRow(i, cache[i].entry.rev, Now)
         /\ cache[i].entry.enabled
              = (history[cache[i].entry.rev].enabled /\ cache[i].quarantine = None)
    ELSE ~Present(cache[i])

\* Even if every Watch frame were lost, the periodic resync alone brings the
\* cache to the Brain's final state: nothing stays dark behind a stop, paused for
\* tombstones, or alive after its deletion.
EventuallyInStep == <>[](paused = {} /\ \A i \in Schedule : InStep(i))

-----------------------------------------------------------------------------
(* Refinement.                                                             *)

Seen == [i \in Schedule |-> IF Present(cache[i]) THEN cache[i].entry.rev ELSE 0]

KnownGone == {i \in Schedule : DeletedBy(i, Evidence(i))}

Mirror == INSTANCE ScheduleMirror WITH view <- Seen, gone <- KnownGone

\* Every behaviour of the cache, whatever arrives and when, is a behaviour of
\* the mirror the tick engine relies on.
ImplementsMirror == Mirror!MirrorSpec
=============================================================================
