------------------------------ MODULE CacheRow ------------------------------
(***************************************************************************)
(* What ScheduleCache keeps for ONE schedule, and what each of its         *)
(* operations does to it (storage/cache.py, current protocol).  The        *)
(* dictionaries of the class, all keyed by schedule id, are the fields of  *)
(* one record:                                                             *)
(*   entry       _entries: the row the tick engine sees, None if absent    *)
(*   known       _id_revisions: newest revision of row or absence, 0 = none*)
(*   payload     _brain_payloads: the row as the Brain last sent it        *)
(*   stop        _current_stop_latches                                     *)
(*   quarantine  _local_quarantines: the control token it is bound to      *)
(* Every operator is a function of the old record and of what arrived, so  *)
(* modules with one schedule, with many, or with several replicas use the  *)
(* same definitions.                                                       *)
(***************************************************************************)
EXTENDS Naturals

CONSTANTS
    Token,      \* control tokens: equality is authority, there is no order
    None        \* Python's None

\* `cursor` stands for (last_fire_at, next_fire_at): how many slots the Brain
\* has resolved.  Equal cursors are equal numbers, and later cursors larger.
Row == [rev: Nat \ {0}, token: Token, enabled: BOOLEAN, cursor: Nat]

Stop == [token: Token, refusedAt: Nat, brainEnabled: BOOLEAN]

Slot == [entry: Row \cup {None}, known: Nat, payload: Row \cup {None},
         stop: Stop \cup {None}, quarantine: Token \cup {None}]

EmptySlot ==
    [entry |-> None, known |-> 0, payload |-> None, stop |-> None, quarantine |-> None]

Present(s) == s.entry # None

Disabled(row) == [row EXCEPT !.enabled = FALSE]

-----------------------------------------------------------------------------
(* Rows: Watch upserts, rows of a snapshot, rows of GetScheduleState.      *)

\* Mutant: the refusing revision itself does not end the stop.
SupersededOnlyLater(liveRev, refusedAt) == refusedAt > 0 /\ liveRev > refusedAt

\* A refusal that reported no live revision is never superseded by one.
Superseded(liveRev, refusedAt) == refusedAt > 0 /\ liveRev >= refusedAt

\* Mutant: what the last snapshot proved absent is forgotten.
RowIsStaleByIdOnly(s, row, watermark) ==
    row.rev < s.known \/ (Present(s) /\ row.rev < s.entry.rev)

\* Mutant: only the snapshot orders rows.
RowIsStaleByWatermarkOnly(s, row, watermark) ==
    row.rev <= watermark /\ row.rev > s.known

\* Older than what is known of the id, or not newer than the watermark while
\* unknown: a snapshot already proved the row gone.
RowIsStale(s, row, watermark) ==
    \/ row.rev < s.known
    \/ row.rev <= watermark /\ row.rev > s.known
    \/ Present(s) /\ row.rev < s.entry.rev

RowRepeats(s, row) == Present(s) /\ row.rev = s.entry.rev

\* The ScheduleProtocolError of a revision that came back with other content.
RowConflicts(s, row, watermark) ==
    ~RowIsStale(s, row, watermark) /\ RowRepeats(s, row) /\ s.payload # row

Quarantined(s, row) == s.quarantine # None /\ s.quarantine = row.token

Stopped(s, row) ==
    /\ s.stop # None
    /\ s.stop.token = row.token
    /\ ~Superseded(row.rev, s.stop.refusedAt)

\* Mutant: the payload is remembered after the clamps.
StoreRowClampedPayload(s, row) ==
    LET offered == row.enabled /\ ~Quarantined(s, row)
        stored == [row EXCEPT !.enabled = offered /\ ~Stopped(s, row)]
    IN  [entry |-> stored,
         known |-> row.rev,
         payload |-> stored,
         stop |-> IF Stopped(s, row)
                  THEN [s.stop EXCEPT !.brainEnabled = offered] ELSE None,
         quarantine |-> IF Quarantined(s, row) THEN s.quarantine ELSE None]

\* The payload is kept as received; the quarantine clamps first and the stop
\* then remembers the value it sees, which is the clamped one.
StoreRow(s, row) ==
    LET offered == row.enabled /\ ~Quarantined(s, row)
    IN  [entry |-> [row EXCEPT !.enabled = offered /\ ~Stopped(s, row)],
         known |-> row.rev,
         payload |-> row,
         stop |-> IF Stopped(s, row)
                  THEN [s.stop EXCEPT !.brainEnabled = offered] ELSE None,
         quarantine |-> IF Quarantined(s, row) THEN s.quarantine ELSE None]

MergeRow(s, row, watermark) ==
    IF RowIsStale(s, row, watermark) \/ RowRepeats(s, row) THEN s ELSE StoreRow(s, row)

-----------------------------------------------------------------------------
(* Absence: Watch tombstones and observed absences.                        *)

\* Mutant: the revision goes with the row.
RemovedWithRevision(rev) == EmptySlot

Removed(rev) == [EmptySlot EXCEPT !.known = rev]

TombstoneIsStale(s, rev, watermark) ==
    rev < s.known \/ (rev <= watermark /\ rev > s.known)

TombstoneConflicts(s, rev, watermark) ==
    ~TombstoneIsStale(s, rev, watermark) /\ rev = s.known /\ Present(s)

ApplyTombstone(s, rev, watermark) ==
    IF TombstoneIsStale(s, rev, watermark) \/ rev = s.known THEN s ELSE Removed(rev)

AbsenceConflicts(s, rev) == rev = s.known /\ Present(s)

ApplyAbsence(s, rev) == IF rev <= s.known THEN s ELSE Removed(rev)

-----------------------------------------------------------------------------
(* What the engine and the dispatcher's answers do to the row.             *)

\* The exact compare-and-set: the row must still be the one the request named.
TransitionApplies(s, expected) ==
    /\ Present(s)
    /\ s.entry.token = expected.token
    /\ s.entry.rev = expected.rev
    /\ s.entry.cursor = expected.cursor

\* Mutant: the cursor is written, the revision is left for the Watch stream.
CursorTransitionKeepingRevision(s, expected, rev, cursor) ==
    IF TransitionApplies(s, expected) THEN [s EXCEPT !.entry.cursor = cursor] ELSE s

\* The remembered payload is recomputed from the local row.
CursorTransition(s, expected, rev, cursor) ==
    IF TransitionApplies(s, expected)
    THEN LET row == [s.entry EXCEPT !.rev = rev, !.cursor = cursor]
         IN  [s EXCEPT !.entry = row, !.known = rev, !.payload = row]
    ELSE s

\* Mutant: a matching token is taken for a row that has not moved.
LatchStopByToken(s, token, refusedAt) ==
    IF Present(s) /\ s.entry.token = token
    THEN [s EXCEPT !.stop = [token |-> token, refusedAt |-> refusedAt,
                             brainEnabled |-> s.entry.enabled],
                   !.entry = Disabled(s.entry)]
    ELSE s

\* A stop is latched only while the row has not reached the state that refused.
LatchStop(s, token, refusedAt) ==
    IF /\ Present(s)
       /\ s.entry.token = token
       /\ ~Superseded(s.entry.rev, refusedAt)
    THEN [s EXCEPT !.stop = [token |-> token, refusedAt |-> refusedAt,
                             brainEnabled |-> s.entry.enabled],
                   !.entry = Disabled(s.entry)]
    ELSE s

HoldsStop(s, token) ==
    Present(s) /\ s.entry.token = token /\ s.stop # None /\ s.stop.token = token

ReleaseStop(s, token) ==
    IF HoldsStop(s, token)
    THEN [s EXCEPT !.stop = None, !.entry = [@ EXCEPT !.enabled = s.stop.brainEnabled]]
    ELSE s

QuarantineLocally(s, token) ==
    IF Present(s) /\ s.entry.token = token
    THEN [s EXCEPT !.quarantine = token, !.entry = Disabled(s.entry)]
    ELSE s
=============================================================================
