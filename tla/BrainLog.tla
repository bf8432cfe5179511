------------------------------ MODULE BrainLog ------------------------------
(***************************************************************************)
(* The Brain as the scheduler sees it: schedules whose every committed     *)
(* change takes the next value of one global revision counter (proto       *)
(* scheduler.proto; CurrentStop's docstring in storage/cache.py).  The     *)
(* Brain is another service: this module models it from how src/ uses it.  *)
(* The log is immutable and revision r is its r-th event, so that what any *)
(* late answer said can be recomputed from the log.                        *)
(***************************************************************************)
EXTENDS Naturals, Sequences, CacheRow

CONSTANTS
    Schedule,       \* schedule ids; an id is a UUID and is never reused
    MaxRevision     \* bound of this model: the log stops growing there

ASSUME LogAssumption ==
    /\ MaxRevision \in Nat
    /\ None \notin Token
    /\ None \notin Row
    /\ None \notin Stop

VARIABLE history    \* the log: history[r] is the event with revision r

\* `live` is FALSE for a tombstone, whose other fields repeat the deleted row.
Event == [id: Schedule, live: BOOLEAN, token: Token, enabled: BOOLEAN, cursor: Nat]

LogTypeOK == history \in Seq(Event)

Now == Len(history)

\* r is the newest event of its schedule among the first w revisions.
IsNewest(r, w) ==
    /\ r \in 1..w
    /\ \A q \in (r + 1)..w : history[q].id # history[r].id

\* The row of schedule i at revision w is the one event r, and it is not deleted.
LiveRow(i, r, w) == history[r].id = i /\ history[r].live /\ IsNewest(r, w)

\* Schedule i had a row once and is deleted at revision w.
DeletedBy(i, w) == \E d \in 1..w : history[d].id = i /\ ~history[d].live

\* What the wire carries for revision r: entry_from_pb's result.
RowAt(r) == [rev |-> r, token |-> history[r].token,
             enabled |-> history[r].enabled, cursor |-> history[r].cursor]

-----------------------------------------------------------------------------
LogInit == history = <<>>

Commit(event) == Now < MaxRevision /\ history' = Append(history, event)

BrainCreate(i, t) ==
    /\ \A r \in 1..Now : history[r].id # i
    /\ Commit([id |-> i, live |-> TRUE, token |-> t, enabled |-> TRUE, cursor |-> 0])

\* A redefinition rotates the control token to one this schedule never had.
BrainEdit(i, t) ==
    \E r \in 1..Now :
        /\ LiveRow(i, r, Now)
        /\ \A q \in 1..Now : history[q].id = i => history[q].token # t
        /\ Commit([history[r] EXCEPT !.token = t])

\* A hold or a resume takes a revision and keeps the control token.
BrainToggleHold(i) ==
    \E r \in 1..Now :
        LiveRow(i, r, Now) /\ Commit([history[r] EXCEPT !.enabled = ~@])

BrainDelete(i) ==
    \E r \in 1..Now :
        LiveRow(i, r, Now) /\ Commit([history[r] EXCEPT !.live = FALSE])

\* An accepted fire, or an applied cursor advance, of the row at revision r.
Accept(r) == Commit([history[r] EXCEPT !.cursor = @ + 1])

\* Another replica's fire is accepted.
BrainAcceptElsewhere(i) ==
    \E r \in 1..Now :
        LiveRow(i, r, Now) /\ history[r].enabled /\ Accept(r)
=============================================================================
