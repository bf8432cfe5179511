------------------------ MODULE ScheduleCacheProofs ------------------------
(***************************************************************************)
(* Proofs about ScheduleCache, for any number of schedules, projects and   *)
(* tokens, any tombstone cap and any length of the Brain's log.            *)
(***************************************************************************)
EXTENDS ScheduleCache, FiniteSetTheorems, FunctionTheorems, TLAPS

-----------------------------------------------------------------------------
(* The inductive invariant.                                                *)

\* Nothing of a schedule follows its deletion, and its cursor only grows.
LogOK ==
    \A q, r \in 1..Now :
        history[q].id = history[r].id /\ q < r =>
            history[q].live /\ history[q].cursor <= history[r].cursor

\* At every revision, a schedule that has events has a newest one.
HasNewest ==
    \A i \in Schedule : \A w \in 0..Now :
        (\E r \in 1..w : history[r].id = i) => \E r \in 1..w : history[r].id = i /\ IsNewest(r, w)

\* What slot s may hold of schedule i under watermark w.  A cached row is the row
\* the log holds at the revision known of it, and no deletion of it is under the
\* watermark; what is known of an absent schedule is the revision of a log in
\* which it is deleted.
Fits(i, s, w) ==
    /\ s.known <= Now
    /\ Present(s) =>
          /\ s.known > 0
          /\ s.entry.rev = s.known
          /\ history[s.known].id = i
          /\ history[s.known].live
          /\ s.entry.token = history[s.known].token
          /\ s.entry.cursor = history[s.known].cursor
          /\ s.entry.enabled => history[s.known].enabled \/ ReplayAfterHold
          /\ \A d \in 1..Now :
                history[d].id = i /\ ~history[d].live => d > w
    /\ ~Present(s) /\ s.known > 0 => DeletedBy(i, s.known)

SlotOK(i) == Fits(i, cache[i], watermark)

\* A call was planned from a committed row, and an accepted one is answered with
\* a later live row of the same schedule.
CallOK(i) ==
    call[i] # None =>
        /\ call[i].row.rev <= Now
        /\ call[i].reply # None /\ call[i].reply.kind = "accepted" =>
              LET live == call[i].reply.live
              IN  /\ live \in 1..Now
                  /\ live > call[i].row.rev
                  /\ history[live].id = i
                  /\ history[live].live
                  /\ history[live].enabled \/ ReplayAfterHold

IInv ==
    /\ TypeOK
    /\ LogOK
    /\ HasNewest
    /\ watermark <= Now
    /\ \A i \in Schedule : SlotOK(i) /\ CallOK(i)

-----------------------------------------------------------------------------
(* The operators of CacheRow keep a slot well-formed and fitting the log.  *)

LEMMA RowAtIsRow ==
    ASSUME LogTypeOK, NEW r \in 1..Now
    PROVE  /\ history[r] \in Event
           /\ RowAt(r) \in Row
           /\ RowAt(r) # None
  <1>1. history[r] \in Event
    BY DEF LogTypeOK, Now
  <1>2. RowAt(r) \in Row
    BY <1>1 DEF RowAt, Row, Event, LogTypeOK, Now
  <1> QED
    BY <1>1, <1>2, LogAssumption

LEMMA StoreRowType ==
    ASSUME NEW s \in Slot, NEW row \in Row
    PROVE  StoreRow(s, row) \in Slot
  <1> DEFINE offered == row.enabled /\ ~Quarantined(s, row)
  <1>1. offered \in BOOLEAN
    BY DEF Row, Quarantined
  <1>2. [row EXCEPT !.enabled = offered /\ ~Stopped(s, row)] \in Row
    BY <1>1 DEF Row, Stopped, Superseded
  <1>3. (IF Stopped(s, row) THEN [s.stop EXCEPT !.brainEnabled = offered] ELSE None)
            \in Stop \cup {None}
    BY <1>1 DEF Slot, Stop, Stopped
  <1>4. (IF Quarantined(s, row) THEN s.quarantine ELSE None) \in Token \cup {None}
    BY DEF Slot
  <1> QED
    BY <1>2, <1>3, <1>4 DEF StoreRow, Slot, Row

LEMMA MergeRowFits ==
    ASSUME LogTypeOK, LogOK,
           NEW i \in Schedule, NEW s \in Slot, NEW w \in Nat, Fits(i, s, w),
           NEW r \in 1..Now, history[r].id = i, history[r].live
    PROVE  /\ MergeRow(s, RowAt(r), w) \in Slot
           /\ Fits(i, MergeRow(s, RowAt(r), w), w)
  <1> DEFINE row == RowAt(r)
             t == StoreRow(s, row)
  <1>1. row \in Row /\ row # None
    BY RowAtIsRow
  <1>2. CASE RowIsStale(s, row, w) \/ RowRepeats(s, row)
    BY <1>2 DEF MergeRow
  <1>3. CASE ~RowIsStale(s, row, w) /\ ~RowRepeats(s, row)
    <2>1. MergeRow(s, row, w) = t
      BY <1>3 DEF MergeRow
    <2>2. t \in Slot
      BY <1>1, StoreRowType
    <2>3. /\ t.known = r
          /\ t.entry.rev = r
          /\ t.entry.token = history[r].token
          /\ t.entry.cursor = history[r].cursor
          /\ t.entry.enabled => history[r].enabled
          /\ t.entry \in Row
      BY <1>1, <2>2 DEF StoreRow, RowAt, Row
    <2>4. r > w
      <3>1. SUFFICES ASSUME r <= w PROVE FALSE
        BY DEF Now, LogTypeOK
      <3>2. r = s.known
        BY <1>3, <3>1 DEF RowIsStale, RowAt, Slot, Now, LogTypeOK
      <3>3. ~Present(s)
        BY <1>3, <3>2 DEF RowRepeats, RowAt, Fits
      <3>4. DeletedBy(i, r)
        BY <3>2, <3>3 DEF Fits
      <3> QED
        BY <3>4 DEF DeletedBy, LogOK, Now, LogTypeOK
    <2>5. \A d \in 1..Now : history[d].id = i /\ ~history[d].live => d > w
      BY <2>4 DEF LogOK, Now, LogTypeOK
    <2>6. Present(t)
      BY <2>3, LogAssumption DEF Present
    <2> QED
      BY <2>1, <2>2, <2>3, <2>5, <2>6 DEF Fits, Now, LogTypeOK
  <1> QED
    BY <1>2, <1>3

LEMMA RemovedFits ==
    ASSUME LogTypeOK, NEW i \in Schedule, NEW w \in Nat,
           NEW d \in 1..Now, DeletedBy(i, d)
    PROVE  /\ Removed(d) \in Slot
           /\ Fits(i, Removed(d), w)
  <1>1. /\ Removed(d) = [entry |-> None, known |-> d, payload |-> None,
                         stop |-> None, quarantine |-> None]
        /\ d \in Nat /\ d <= Now
    BY DEF Removed, EmptySlot, Now, LogTypeOK
  <1> QED
    BY <1>1 DEF Slot, Fits, Present

LEMMA EmptySlotFits ==
    ASSUME LogTypeOK, NEW i \in Schedule, NEW w \in Nat
    PROVE  EmptySlot \in Slot /\ Fits(i, EmptySlot, w)
  BY DEF EmptySlot, Slot, Fits, Present, Now, LogTypeOK

LEMMA ApplyTombstoneFits ==
    ASSUME LogTypeOK, NEW i \in Schedule, NEW s \in Slot, NEW w \in Nat, Fits(i, s, w),
           NEW r \in 1..Now, history[r].id = i, ~history[r].live
    PROVE  /\ ApplyTombstone(s, r, w) \in Slot
           /\ Fits(i, ApplyTombstone(s, r, w), w)
  <1>1. DeletedBy(i, r)
    BY DEF DeletedBy, Now, LogTypeOK
  <1> QED
    BY <1>1, RemovedFits DEF ApplyTombstone

LEMMA ApplyAbsenceFits ==
    ASSUME LogTypeOK, NEW i \in Schedule, NEW s \in Slot, NEW w \in Nat, Fits(i, s, w),
           NEW d \in 1..Now, DeletedBy(i, d)
    PROVE  /\ ApplyAbsence(s, d) \in Slot
           /\ Fits(i, ApplyAbsence(s, d), w)
  BY RemovedFits DEF ApplyAbsence

LEMMA CursorTransitionFits ==
    ASSUME LogTypeOK, NEW i \in Schedule, NEW s \in Slot, NEW w \in Nat, Fits(i, s, w),
           NEW e \in Row, NEW r \in 1..Now, history[r].id = i, history[r].live,
           history[r].token = e.token, history[r].enabled \/ ReplayAfterHold
    PROVE  /\ CursorTransition(s, e, r, history[r].cursor) \in Slot
           /\ Fits(i, CursorTransition(s, e, r, history[r].cursor), w)
  <1> DEFINE row == [s.entry EXCEPT !.rev = r, !.cursor = history[r].cursor]
             t == [s EXCEPT !.entry = row, !.known = r, !.payload = row]
  <1>1. CASE ~TransitionApplies(s, e)
    BY <1>1 DEF CursorTransition
  <1>2. CASE TransitionApplies(s, e)
    <2>1. CursorTransition(s, e, r, history[r].cursor) = t
      BY <1>2 DEF CursorTransition
    <2>2. s.entry \in Row /\ s.entry.token = e.token /\ Present(s)
      BY <1>2 DEF TransitionApplies, Present, Slot
    <2>3. history[r] \in Event /\ r \in Nat \ {0} /\ r <= Now
      BY RowAtIsRow DEF Now, LogTypeOK
    <2>4. row \in Row
      BY <2>2, <2>3 DEF Row, Event
    <2>5. t \in Slot /\ t.entry = row /\ t.known = r
      BY <2>3, <2>4 DEF Slot
    <2>6. row.rev = r /\ row.token = history[r].token /\ row.cursor = history[r].cursor
      BY <2>2 DEF Row
    <2>7. Present(t)
      BY <2>4, <2>5, LogAssumption DEF Present
    <2>8. \A d \in 1..Now : history[d].id = i /\ ~history[d].live => d > w
      BY <2>2 DEF Fits
    <2> HIDE DEF row, t
    <2>9. Fits(i, t, w)
      BY <2>3, <2>5, <2>6, <2>7, <2>8 DEF Fits
    <2> QED
      BY <2>1, <2>5, <2>9
  <1> QED
    BY <1>1, <1>2

\* Disabling a row, for a stop or a quarantine, leaves the rest of it alone.
LEMMA DisabledFits ==
    ASSUME NEW i, NEW s \in Slot, NEW w \in Nat, Fits(i, s, w), Present(s),
           NEW t \in Slot, t.entry = Disabled(s.entry), t.known = s.known
    PROVE  Fits(i, t, w)
  <1>1. s.entry \in Row
    BY DEF Present, Slot
  <1>2. t.entry \in Row
    BY <1>1 DEF Row, Disabled
  <1>3. /\ t.entry.rev = s.entry.rev /\ t.entry.token = s.entry.token
        /\ t.entry.cursor = s.entry.cursor /\ ~t.entry.enabled
    BY <1>1 DEF Row, Disabled
  <1>4. Present(t)
    BY <1>2, LogAssumption DEF Present
  <1> QED
    BY <1>3, <1>4 DEF Fits

LEMMA LatchStopFits ==
    ASSUME NEW i, NEW s \in Slot, NEW w \in Nat, Fits(i, s, w),
           NEW t \in Token, NEW r \in Nat
    PROVE  LatchStop(s, t, r) \in Slot /\ Fits(i, LatchStop(s, t, r), w)
  <1> DEFINE u == [s EXCEPT !.stop = [token |-> t, refusedAt |-> r,
                                      brainEnabled |-> s.entry.enabled],
                            !.entry = Disabled(s.entry)]
  <1>1. CASE LatchStop(s, t, r) = s
    BY <1>1
  <1>2. CASE LatchStop(s, t, r) # s
    <2>1. Present(s) /\ LatchStop(s, t, r) = u
      BY <1>2 DEF LatchStop
    <2>2. s.entry \in Row /\ Disabled(s.entry) \in Row
      BY <2>1 DEF Present, Slot, Row, Disabled
    <2>3. u.entry = Disabled(s.entry) /\ u.known = s.known
      BY DEF Slot
    <2>4. [token |-> t, refusedAt |-> r, brainEnabled |-> s.entry.enabled] \in Stop
      BY <2>2 DEF Stop, Row
    <2>5. u \in Slot
      BY <2>2, <2>4 DEF Slot
    <2> QED
      BY <2>1, <2>3, <2>5, DisabledFits
  <1> QED
    BY <1>1, <1>2

LEMMA QuarantineLocallyFits ==
    ASSUME NEW i, NEW s \in Slot, NEW w \in Nat, Fits(i, s, w), NEW t \in Token
    PROVE  QuarantineLocally(s, t) \in Slot /\ Fits(i, QuarantineLocally(s, t), w)
  <1> DEFINE u == [s EXCEPT !.quarantine = t, !.entry = Disabled(s.entry)]
  <1>1. CASE QuarantineLocally(s, t) = s
    BY <1>1
  <1>2. CASE QuarantineLocally(s, t) # s
    <2>1. Present(s) /\ QuarantineLocally(s, t) = u
      BY <1>2 DEF QuarantineLocally
    <2>2. s.entry \in Row /\ Disabled(s.entry) \in Row
      BY <2>1 DEF Present, Slot, Row, Disabled
    <2>3. u.entry = Disabled(s.entry) /\ u.known = s.known
      BY DEF Slot
    <2>4. u \in Slot
      BY <2>2 DEF Slot
    <2> QED
      BY <2>1, <2>3, <2>4, DisabledFits
  <1> QED
    BY <1>1, <1>2

\* A snapshot at w raises the watermark to w, and every slot still fits.
LEMMA AfterSnapshotFits ==
    ASSUME TypeOK, LogOK, watermark <= Now, NEW i \in Schedule, SlotOK(i),
           NEW w \in watermark..Now
    PROVE  AfterSnapshot(i, w) \in Slot /\ Fits(i, AfterSnapshot(i, w), w)
  <1> DEFINE listed == \E r \in SnapshotRows(w) : history[r].id = i
             r == CHOOSE q \in SnapshotRows(w) : history[q].id = i
             merged == IF listed THEN MergeRow(cache[i], RowAt(r), watermark) ELSE cache[i]
  <1>1. /\ LogTypeOK /\ cache[i] \in Slot /\ watermark \in Nat /\ w \in Nat
        /\ w <= Now /\ watermark <= w /\ Now \in Nat
    BY DEF TypeOK, LogTypeOK, Now
  <1>2. listed => /\ r \in 1..Now /\ r <= w /\ history[r].id = i /\ history[r].live
                  /\ IsNewest(r, w)
    BY <1>1 DEF SnapshotRows, IsNewest
  <1>3. merged \in Slot /\ Fits(i, merged, watermark)
    <2>1. CASE listed
      <3> HIDE DEF r
      <3> QED
        BY <1>1, <1>2, <2>1, MergeRowFits DEF SlotOK
    <2>2. CASE ~listed
      BY <1>1, <2>2 DEF SlotOK
    <2> QED
      BY <2>1, <2>2
  <1>4. AfterSnapshot(i, w)
          = IF merged.known <= w /\ (~listed \/ ~Present(merged)) THEN EmptySlot ELSE merged
    BY DEF AfterSnapshot
  <1> HIDE DEF merged
  <1>5. CASE merged.known <= w /\ (~listed \/ ~Present(merged))
    BY <1>1, <1>4, <1>5, EmptySlotFits
  <1>6. CASE ~(merged.known <= w /\ (~listed \/ ~Present(merged)))
    <2>1. AfterSnapshot(i, w) = merged
      BY <1>4, <1>6
    <2>2. SUFFICES ASSUME Present(merged),
                          NEW d \in 1..Now, history[d].id = i, ~history[d].live
                   PROVE  d > w
      BY <1>3, <2>1 DEF Fits
    <2>3. CASE merged.known > w
      BY <1>1, <1>3, <2>2, <2>3 DEF Fits, LogOK, Slot
    <2>4. CASE ~(merged.known > w)
      <3>1. listed
        BY <1>1, <1>3, <1>6, <2>2, <2>4 DEF Slot
      <3> HIDE DEF r, listed
      <3> QED
        BY <1>1, <1>2, <2>2, <3>1 DEF LogOK, IsNewest
    <2> QED
      BY <2>3, <2>4
  <1> QED
    BY <1>5, <1>6

-----------------------------------------------------------------------------
(* The log grows: what was true of a slot, or of a call, stays true.       *)

Grows(e) == history' = Append(history, e)

LEMMA Growth ==
    ASSUME LogTypeOK, NEW e \in Event, Grows(e)
    PROVE  /\ LogTypeOK'
           /\ Now' = Now + 1
           /\ history'[Now + 1] = e
           /\ \A r \in 1..Now : history'[r] = history[r]
  BY DEF LogTypeOK, Now, Grows

\* An event continues the log of its schedule if it is the first one, or follows
\* a live row whose cursor is not past its own.
Continues(e) ==
    \/ \A r \in 1..Now : history[r].id # e.id
    \/ \E r \in 1..Now : LiveRow(e.id, r, Now) /\ history[r].cursor <= e.cursor

LEMMA GrowthKeepsLogOK ==
    ASSUME LogTypeOK, LogOK, NEW e \in Event, Grows(e), Continues(e)
    PROVE  LogOK'
  <1>1. /\ Now \in Nat /\ Now' = Now + 1 /\ history'[Now + 1] = e
        /\ \A r \in 1..Now : history'[r] = history[r]
        /\ \A r \in 1..Now : history[r] \in Event
    BY Growth DEF LogTypeOK, Now
  <1>2. SUFFICES ASSUME NEW q \in 1..(Now + 1), NEW r \in 1..(Now + 1),
                        history'[q].id = history'[r].id, q < r
                 PROVE  history'[q].live /\ history'[q].cursor <= history'[r].cursor
    BY <1>1 DEF LogOK
  <1>3. CASE r \in 1..Now
    BY <1>1, <1>2, <1>3 DEF LogOK
  <1>4. CASE r = Now + 1
    <2>1. q \in 1..Now /\ history[q].id = e.id
      BY <1>1, <1>2, <1>4
    <2>2. PICK p \in 1..Now : LiveRow(e.id, p, Now) /\ history[p].cursor <= e.cursor
      BY <2>1 DEF Continues
    <2>3. history[p].id = e.id /\ history[p].live /\ (q = p \/ q < p)
      BY <1>1, <2>1, <2>2 DEF LiveRow, IsNewest
    <2>4. history[q].live /\ history[q].cursor <= history[p].cursor
      BY <1>1, <2>1, <2>3 DEF LogOK, Event
    <2> QED
      BY <1>1, <1>4, <2>1, <2>2, <2>4 DEF Event
  <1> QED
    BY <1>1, <1>2, <1>3, <1>4

LEMMA GrowthKeepsNewest ==
    ASSUME LogTypeOK, HasNewest, NEW e \in Event, Grows(e)
    PROVE  HasNewest'
  <1>1. /\ Now \in Nat /\ Now' = Now + 1 /\ history'[Now + 1] = e
        /\ \A r \in 1..Now : history'[r] = history[r]
    BY Growth DEF LogTypeOK, Now
  <1>2. SUFFICES ASSUME NEW i \in Schedule, NEW w \in 0..(Now + 1),
                        NEW r \in 1..w, history'[r].id = i
                 PROVE  \E p \in 1..w : history'[p].id = i /\ IsNewest(p, w)'
    BY <1>1 DEF HasNewest
  <1>3. CASE w <= Now
    <2>1. history[r].id = i /\ w \in 0..Now
      BY <1>1, <1>2, <1>3
    <2>2. PICK p \in 1..w : history[p].id = i /\ IsNewest(p, w)
      BY <2>1 DEF HasNewest
    <2> QED
      BY <1>1, <1>3, <2>1, <2>2 DEF IsNewest
  <1>4. CASE w = Now + 1 /\ e.id = i
    BY <1>1, <1>4 DEF IsNewest
  <1>5. CASE w = Now + 1 /\ e.id # i
    <2>1. r \in 1..Now /\ history[r].id = i /\ Now \in 0..Now
      BY <1>1, <1>2, <1>5
    <2>2. PICK p \in 1..Now : history[p].id = i /\ IsNewest(p, Now)
      BY <2>1 DEF HasNewest
    <2> QED
      BY <1>1, <1>5, <2>2 DEF IsNewest
  <1> QED
    BY <1>1, <1>3, <1>4, <1>5

LEMMA GrowthKeepsSlotOK ==
    ASSUME LogTypeOK, NEW e \in Event, Grows(e),
           watermark \in Nat, watermark <= Now, UNCHANGED <<cache, watermark>>,
           NEW i \in Schedule, cache[i] \in Slot, SlotOK(i)
    PROVE  SlotOK(i)'
  <1>1. /\ Now \in Nat /\ Now' = Now + 1 /\ history'[Now + 1] = e
        /\ \A r \in 1..Now : history'[r] = history[r]
    BY Growth DEF LogTypeOK, Now
  <1>2. cache[i].known \in Nat /\ cache[i].known <= Now
    BY DEF SlotOK, Fits, Slot
  <1>3. Present(cache[i]) => cache[i].known \in 1..Now
    BY <1>1, <1>2 DEF SlotOK, Fits
  <1>4. ASSUME Present(cache[i]), NEW d \in 1..Now',
               history'[d].id = i, ~history'[d].live
        PROVE  d > watermark
    BY <1>1, <1>4 DEF SlotOK, Fits
  <1>5. ~Present(cache[i]) /\ cache[i].known > 0 => DeletedBy(i, cache[i].known)'
    BY <1>1, <1>2 DEF SlotOK, Fits, DeletedBy
  <1> QED
    BY <1>1, <1>2, <1>3, <1>4, <1>5 DEF SlotOK, Fits, Present

LEMMA GrowthKeepsCallOK ==
    ASSUME LogTypeOK, NEW e \in Event, Grows(e),
           NEW i \in Schedule, call[i] \in Call \cup {None}, call'[i] = call[i], CallOK(i)
    PROVE  CallOK(i)'
  <1>1. /\ Now \in Nat /\ Now' = Now + 1
        /\ \A r \in 1..Now : history'[r] = history[r]
    BY Growth DEF LogTypeOK, Now
  <1> QED
    BY <1>1 DEF CallOK, Call, Row

\* The log does not grow: the new slots fit it, and calls only ended.
LEMMA CacheStep ==
    ASSUME IInv, UNCHANGED history,
           watermark' \in watermark..Now,
           paused' \in SUBSET Project,
           raised' \in BOOLEAN,
           cache' \in [Schedule -> Slot],
           \A i \in Schedule : Fits(i, cache'[i], watermark'),
           call' \in [Schedule -> Call \cup {None}],
           \A i \in Schedule : call'[i] = call[i] \/ CallOK(i)'
    PROVE  IInv'
  <1>1. TypeOK' /\ LogOK' /\ HasNewest' /\ (watermark <= Now)'
    <2>1. LogTypeOK' /\ LogOK' /\ HasNewest'
      <3>1. LogTypeOK /\ LogOK /\ HasNewest
        BY DEF IInv, TypeOK
      <3>2. LogTypeOK'
        BY <3>1 DEF LogTypeOK
      <3>3. LogOK'
        BY <3>1 DEF LogOK, Now
      <3>4. HasNewest'
        BY <3>1 DEF HasNewest, IsNewest, Now
      <3> QED
        BY <3>2, <3>3, <3>4
    <2>2. Now' = Now /\ Now \in Nat /\ watermark \in Nat
      BY DEF IInv, TypeOK, LogTypeOK, Now
    <2> QED
      BY <2>1, <2>2 DEF TypeOK
  <1>2. ASSUME NEW i \in Schedule PROVE SlotOK(i)' /\ CallOK(i)'
    <2>1. SlotOK(i)'
      BY DEF SlotOK, Fits, Now, DeletedBy
    <2>2. CallOK(i)'
      BY DEF IInv, CallOK, Now
    <2> QED
      BY <2>1, <2>2
  <1> QED
    BY <1>1, <1>2 DEF IInv

LEMMA CommitStep ==
    ASSUME IInv, NEW e \in Event, Grows(e), Continues(e),
           UNCHANGED <<cache, watermark, paused, raised>>,
           call' \in [Schedule -> Call \cup {None}],
           \A i \in Schedule : call'[i] = call[i] \/ CallOK(i)'
    PROVE  IInv'
  <1>1. LogTypeOK /\ LogOK /\ HasNewest /\ watermark \in Nat /\ watermark <= Now
    BY DEF IInv, TypeOK
  <1>2. LogTypeOK' /\ LogOK' /\ HasNewest' /\ Now' = Now + 1
    BY <1>1, Growth, GrowthKeepsLogOK, GrowthKeepsNewest
  <1>3. TypeOK' /\ (watermark <= Now)'
    BY <1>1, <1>2 DEF IInv, TypeOK, Now, LogTypeOK
  <1>4. ASSUME NEW i \in Schedule PROVE SlotOK(i)' /\ CallOK(i)'
    <2>1. SlotOK(i) /\ CallOK(i) /\ cache[i] \in Slot /\ call[i] \in Call \cup {None}
      BY DEF IInv, TypeOK
    <2>2. SlotOK(i)'
      BY <1>1, <2>1, GrowthKeepsSlotOK
    <2>3. CASE call'[i] = call[i]
      BY <1>1, <2>1, <2>2, <2>3, GrowthKeepsCallOK
    <2>4. CASE CallOK(i)'
      BY <2>2, <2>4
    <2> QED
      BY <2>3, <2>4
  <1> QED
    BY <1>2, <1>3, <1>4 DEF IInv

-----------------------------------------------------------------------------
(* One lemma per group of actions.                                         *)

\* The events the Brain commits continue their schedule's log.
LEMMA RowEvent ==
    ASSUME LogTypeOK, NEW r \in 1..Now, LiveRow(history[r].id, r, Now),
           NEW e \in Event, e.id = history[r].id, history[r].cursor <= e.cursor
    PROVE  Continues(e)
  BY DEF Continues

LEMMA AcceptGrows ==
    ASSUME LogTypeOK, NEW i \in Schedule, NEW r \in 1..Now, LiveRow(i, r, Now), Accept(r)
    PROVE  \E e \in Event :
              /\ Grows(e) /\ Continues(e)
              /\ e.id = i /\ e.live /\ (history[r].enabled => e.enabled)
  <1> DEFINE e == [history[r] EXCEPT !.cursor = @ + 1]
  <1>1. history[r] \in Event /\ history[r].id = i /\ history[r].live
    BY RowAtIsRow DEF LiveRow
  <1>2. /\ e \in Event /\ e.id = i /\ e.live /\ (history[r].enabled => e.enabled)
        /\ history[r].cursor <= e.cursor
    BY <1>1 DEF Event
  <1>3. Grows(e)
    BY DEF Accept, Commit, Grows
  <1> HIDE DEF e
  <1>4. Continues(e)
    BY <1>1, <1>2, RowEvent
  <1> QED
    BY <1>2, <1>3, <1>4

LEMMA BrainCommits ==
    ASSUME IInv, Brain
    PROVE  \E e \in Event : Grows(e) /\ Continues(e)
  <1> USE DEF LiveRow
  <1>1. LogTypeOK /\ \A r \in 1..Now : history[r] \in Event
    BY RowAtIsRow DEF IInv, TypeOK
  <1>3. PICK i \in Schedule :
            \/ \E t \in Token : BrainCreate(i, t) \/ BrainEdit(i, t)
            \/ BrainToggleHold(i)
            \/ BrainDelete(i)
            \/ BrainAcceptElsewhere(i)
    BY DEF Brain
  <1>4. ASSUME NEW t \in Token, BrainCreate(i, t) PROVE \E e \in Event : Grows(e) /\ Continues(e)
    <2> DEFINE e == [id |-> i, live |-> TRUE, token |-> t, enabled |-> TRUE, cursor |-> 0]
    <2>1. e \in Event
      BY DEF Event
    <2>2. Grows(e) /\ Continues(e)
      BY <1>4 DEF BrainCreate, Commit, Grows, Continues
    <2> QED
      BY <2>1, <2>2
  <1>5. ASSUME NEW t \in Token, BrainEdit(i, t) PROVE \E e \in Event : Grows(e) /\ Continues(e)
    <2>1. PICK r \in 1..Now : LiveRow(i, r, Now) /\ Commit([history[r] EXCEPT !.token = t])
      BY <1>5 DEF BrainEdit
    <2> DEFINE e == [history[r] EXCEPT !.token = t]
    <2>2. e \in Event /\ e.id = history[r].id /\ history[r].cursor <= e.cursor
      BY <1>1 DEF Event
    <2>3. Grows(e)
      BY <2>1 DEF Commit, Grows
    <2> HIDE DEF e
    <2> QED
      BY <1>1, <2>1, <2>2, <2>3, RowEvent
  <1>6. ASSUME BrainToggleHold(i) PROVE \E e \in Event : Grows(e) /\ Continues(e)
    <2>1. PICK r \in 1..Now :
              LiveRow(i, r, Now) /\ Commit([history[r] EXCEPT !.enabled = ~@])
      BY <1>6 DEF BrainToggleHold
    <2> DEFINE e == [history[r] EXCEPT !.enabled = ~@]
    <2>2. e \in Event /\ e.id = history[r].id /\ history[r].cursor <= e.cursor
      <3>1. history[r] \in Event /\ (~history[r].enabled) \in BOOLEAN
        BY <1>1
      <3>2. ASSUME NEW b \in BOOLEAN
            PROVE  LET f == [history[r] EXCEPT !.enabled = b]
                   IN  f \in Event /\ f.id = history[r].id /\ history[r].cursor <= f.cursor
        BY <3>1 DEF Event
      <3> QED
        BY <3>1, <3>2
    <2>3. Grows(e)
      BY <2>1 DEF Commit, Grows
    <2> HIDE DEF e
    <2> QED
      BY <1>1, <2>1, <2>2, <2>3, RowEvent
  <1>7. ASSUME BrainDelete(i) PROVE \E e \in Event : Grows(e) /\ Continues(e)
    <2>1. PICK r \in 1..Now : LiveRow(i, r, Now) /\ Commit([history[r] EXCEPT !.live = FALSE])
      BY <1>7 DEF BrainDelete
    <2> DEFINE e == [history[r] EXCEPT !.live = FALSE]
    <2>2. e \in Event /\ e.id = history[r].id /\ history[r].cursor <= e.cursor
      <3>1. history[r] \in Event
        BY <1>1
      <3>2. ASSUME NEW b \in BOOLEAN
            PROVE  LET f == [history[r] EXCEPT !.live = b]
                   IN  f \in Event /\ f.id = history[r].id /\ history[r].cursor <= f.cursor
        BY <3>1 DEF Event
      <3> QED
        BY <3>2
    <2>3. Grows(e)
      BY <2>1 DEF Commit, Grows
    <2> HIDE DEF e
    <2> QED
      BY <1>1, <2>1, <2>2, <2>3, RowEvent
  <1>8. ASSUME BrainAcceptElsewhere(i) PROVE \E e \in Event : Grows(e) /\ Continues(e)
    BY <1>1, <1>8, AcceptGrows DEF BrainAcceptElsewhere
  <1> QED
    BY <1>3, <1>4, <1>5, <1>6, <1>7, <1>8

LEMMA BrainStep ==
    ASSUME IInv, Brain
    PROVE  IInv'
  <1>1. /\ UNCHANGED <<cache, watermark, paused, raised, call>>
        /\ call \in [Schedule -> Call \cup {None}]
    BY DEF IInv, TypeOK, Brain, cacheVars
  <1> QED
    BY <1>1, BrainCommits, CommitStep

LEMMA DeliverStep ==
    ASSUME IInv, Deliver
    PROVE  IInv'
  <1> USE DEF SlotOK
  <1>1. /\ LogTypeOK /\ LogOK /\ Now \in Nat /\ watermark \in Nat /\ watermark <= Now
        /\ cache \in [Schedule -> Slot]
        /\ paused \in SUBSET Project /\ raised \in BOOLEAN
        /\ call \in [Schedule -> Call \cup {None}]
        /\ \A i \in Schedule : Fits(i, cache[i], watermark)
        /\ \A r \in 1..Now : history[r] \in Event /\ history[r].id \in Schedule
    BY RowAtIsRow DEF IInv, TypeOK, LogTypeOK, Now, Event
  <1>2. ASSUME NEW r \in 1..Now, DeliverRow(r) PROVE IInv'
    <2> DEFINE i == history[r].id
    <2>1. i \in Schedule /\ history[r].live
          /\ UNCHANGED <<history, watermark, paused, call>>
      BY <1>1, <1>2 DEF DeliverRow
    <2>2. CASE raised' = TRUE /\ UNCHANGED cache
      BY <1>1, <2>1, <2>2, CacheStep
    <2>3. CASE /\ cache' = [cache EXCEPT ![i] = MergeRow(@, RowAt(r), watermark)]
               /\ UNCHANGED raised
      <3> HIDE DEF i
      <3>1. /\ MergeRow(cache[i], RowAt(r), watermark) \in Slot
            /\ Fits(i, MergeRow(cache[i], RowAt(r), watermark), watermark)
        BY <1>1, <2>1, MergeRowFits DEF i
      <3>2. /\ cache' \in [Schedule -> Slot]
            /\ \A j \in Schedule : Fits(j, cache'[j], watermark')
        BY <1>1, <2>1, <2>3, <3>1
      <3> QED
        BY <1>1, <2>1, <2>3, <3>2, CacheStep
    <2> QED
      BY <1>2, <2>2, <2>3 DEF DeliverRow
  <1>3. ASSUME NEW r \in 1..Now, DeliverTombstone(r) PROVE IInv'
    <2> DEFINE i == history[r].id
    <2>1. i \in Schedule /\ ~history[r].live /\ UNCHANGED <<history, watermark, call>>
      BY <1>1, <1>3 DEF DeliverTombstone
    <2>2. CASE raised' = TRUE /\ UNCHANGED <<cache, paused>>
      BY <1>1, <2>1, <2>2, CacheStep
    <2>3. CASE /\ cache' = [cache EXCEPT ![i] = ApplyTombstone(@, r, watermark)]
               /\ paused' \in SUBSET Project
               /\ UNCHANGED raised
      <3> HIDE DEF i
      <3>1. /\ ApplyTombstone(cache[i], r, watermark) \in Slot
            /\ Fits(i, ApplyTombstone(cache[i], r, watermark), watermark)
        BY <1>1, <2>1, ApplyTombstoneFits DEF i
      <3>2. /\ cache' \in [Schedule -> Slot]
            /\ \A j \in Schedule : Fits(j, cache'[j], watermark')
        BY <1>1, <2>1, <2>3, <3>1
      <3> QED
        BY <1>1, <2>1, <2>3, <3>2, CacheStep
    <2>4. ProjectOf[i] \in Project
      BY <2>1, CacheAssumption
    <2> QED
      BY <1>1, <1>3, <2>2, <2>3, <2>4 DEF DeliverTombstone
  <1>4. ASSUME NEW w \in 1..Now, DeliverSnapshot(w) PROVE IInv'
    <2>1. w \in watermark..Now /\ UNCHANGED <<history, call>>
      BY <1>4 DEF DeliverSnapshot
    <2>2. CASE raised' = TRUE /\ UNCHANGED <<cache, watermark, paused>>
      BY <1>1, <2>1, <2>2, CacheStep
    <2>3. CASE /\ cache' = [i \in Schedule |-> AfterSnapshot(i, w)]
               /\ watermark' = w
               /\ paused' \in SUBSET Project
               /\ UNCHANGED raised
      <3>1. \A i \in Schedule :
                AfterSnapshot(i, w) \in Slot /\ Fits(i, AfterSnapshot(i, w), w)
        BY <1>1, <2>1, AfterSnapshotFits DEF IInv
      <3> QED
        BY <1>1, <2>1, <2>3, <3>1, CacheStep
    <2> QED
      BY <1>4, <2>2, <2>3 DEF DeliverSnapshot
  <1>5. ASSUME NEW i \in Schedule, NEW w \in 1..Now, DeliverAbsence(i, w) PROVE IInv'
    <2>1. DeletedBy(i, w) /\ UNCHANGED <<history, watermark, paused, call>>
      BY <1>5 DEF DeliverAbsence
    <2>2. CASE raised' = TRUE /\ UNCHANGED cache
      BY <1>1, <2>1, <2>2, CacheStep
    <2>3. CASE /\ cache' = [cache EXCEPT ![i] = ApplyAbsence(@, w)]
               /\ UNCHANGED raised
      <3>1. /\ ApplyAbsence(cache[i], w) \in Slot
            /\ Fits(i, ApplyAbsence(cache[i], w), watermark)
        BY <1>1, <2>1, ApplyAbsenceFits
      <3>2. /\ cache' \in [Schedule -> Slot]
            /\ \A j \in Schedule : Fits(j, cache'[j], watermark')
        BY <1>1, <2>1, <2>3, <3>1
      <3> QED
        BY <1>1, <2>1, <2>3, <3>2, CacheStep
    <2> QED
      BY <1>5, <2>2, <2>3 DEF DeliverAbsence
  <1> QED
    BY <1>2, <1>3, <1>4, <1>5 DEF Deliver

LEMMA EngineStep ==
    ASSUME IInv, NEW i \in Schedule,
           Submit(i) \/ LoseReply(i) \/ GiveUp(i) \/ HandleReply(i) \/ Quarantine(i)
    PROVE  IInv'
  <1> USE DEF SlotOK
  <1>1. /\ LogTypeOK /\ Now \in Nat /\ watermark \in Nat /\ watermark <= Now
        /\ cache \in [Schedule -> Slot]
        /\ paused \in SUBSET Project /\ raised \in BOOLEAN
        /\ call \in [Schedule -> Call \cup {None}]
        /\ \A j \in Schedule : Fits(j, cache[j], watermark) /\ CallOK(j)
        /\ \A r \in 1..Now : history[r] \in Event /\ history[r].id \in Schedule
    BY RowAtIsRow DEF IInv, TypeOK, LogTypeOK, Now, Event
  <1>2. ASSUME Submit(i) PROVE IInv'
    <2> DEFINE c == [row |-> cache[i].entry, reply |-> None]
    <2>1. cache[i].entry \in Row /\ cache[i].entry.rev <= Now
      BY <1>1, <1>2 DEF Submit, Present, Slot, Fits
    <2>2. c \in Call /\ c.reply = None /\ c.row.rev <= Now
      BY <2>1 DEF Call
    <2>3. /\ call' = [call EXCEPT ![i] = c]
          /\ UNCHANGED <<history, cache, watermark, paused, raised>>
      BY <1>2 DEF Submit
    <2> HIDE DEF c
    <2>4. CallOK(i)'
      BY <1>1, <2>2, <2>3 DEF CallOK, Now
    <2>5. \A j \in Schedule : call'[j] = call[j] \/ CallOK(j)'
      BY <1>1, <2>3, <2>4
    <2> QED
      BY <1>1, <2>2, <2>3, <2>5, CacheStep
  <1>3. ASSUME LoseReply(i) PROVE IInv'
    <2> DEFINE c == [call[i] EXCEPT !.reply = None]
    <2>1. call[i] \in Call /\ call[i].row.rev <= Now
      BY <1>1, <1>3 DEF LoseReply, CallOK
    <2>2. c \in Call /\ c.reply = None /\ c.row.rev <= Now
      BY <2>1 DEF Call
    <2>3. /\ call' = [call EXCEPT ![i] = c]
          /\ UNCHANGED <<history, cache, watermark, paused, raised>>
      BY <1>3 DEF LoseReply
    <2> HIDE DEF c
    <2>4. CallOK(i)'
      BY <1>1, <2>2, <2>3 DEF CallOK, Now
    <2>5. \A j \in Schedule : call'[j] = call[j] \/ CallOK(j)'
      BY <1>1, <2>3, <2>4
    <2> QED
      BY <1>1, <2>2, <2>3, <2>5, CacheStep
  <1>4. ASSUME call' = [call EXCEPT ![i] = None], NEW s \in Slot, Fits(i, s, watermark),
               cache' = [cache EXCEPT ![i] = s],
               UNCHANGED <<history, watermark, paused, raised>>
        PROVE  IInv'
    <2>1. CallOK(i)'
      BY <1>1, <1>4 DEF CallOK
    <2>2. \A j \in Schedule : call'[j] = call[j] \/ CallOK(j)'
      BY <1>1, <1>4, <2>1
    <2>3. cache' \in [Schedule -> Slot] /\ \A j \in Schedule : Fits(j, cache'[j], watermark')
      BY <1>1, <1>4
    <2> QED
      BY <1>1, <1>4, <2>2, <2>3, CacheStep
  <1>5. ASSUME GiveUp(i) PROVE IInv'
    <2>1. cache' = [cache EXCEPT ![i] = cache[i]]
      BY <1>1, <1>5 DEF GiveUp
    <2> QED
      BY <1>1, <1>4, <1>5, <2>1 DEF GiveUp
  <1>6. ASSUME HandleReply(i) PROVE IInv'
    <2> DEFINE e == call[i].row
               reply == call[i].reply
    <2>1. e \in Row /\ e.token \in Token /\ reply \in Reply /\ reply.live \in Nat
          /\ call[i] # None /\ reply # None
      BY <1>1, <1>6 DEF HandleReply, Call, Reply, Row
    <2>2. reply.kind = "refused" \/ reply.kind = "accepted"
      BY <2>1 DEF Reply
    <2>3. reply.kind = "accepted" =>
              /\ reply.live \in 1..Now
              /\ history[reply.live].id = i
              /\ history[reply.live].live
              /\ history[reply.live].enabled \/ ReplayAfterHold
      BY <1>1, <2>1 DEF CallOK
    <2>4. PICK s \in AfterReply(cache[i], e, reply) : cache' = [cache EXCEPT ![i] = s]
      BY <1>6 DEF HandleReply
    <2> HIDE DEF e, reply
    <2>5. /\ cache[i] \in Slot /\ Fits(i, cache[i], watermark)
          /\ LatchStop(cache[i], e.token, reply.live) \in Slot
          /\ Fits(i, LatchStop(cache[i], e.token, reply.live), watermark)
      BY <1>1, <2>1, LatchStopFits
    <2>6. s \in Slot /\ Fits(i, s, watermark)
      <3>1. CASE s = cache[i] \/ s = LatchStop(cache[i], e.token, reply.live)
        BY <2>5, <3>1
      <3>2. CASE /\ reply.kind = "accepted"
                 /\ history[reply.live].token = e.token
                 /\ s = CursorTransition(cache[i], e, reply.live, history[reply.live].cursor)
        BY <1>1, <2>1, <2>3, <2>5, <3>2, CursorTransitionFits
      <3> QED
        BY <2>2, <2>4, <3>1, <3>2 DEF AfterReply
    <2> QED
      BY <1>4, <1>6, <2>4, <2>6 DEF HandleReply
  <1>7. ASSUME Quarantine(i) PROVE IInv'
    <2>1. call[i].row.token \in Token
      BY <1>1, <1>7 DEF Quarantine, Call, Row
    <2>2. /\ QuarantineLocally(cache[i], call[i].row.token) \in Slot
          /\ Fits(i, QuarantineLocally(cache[i], call[i].row.token), watermark)
      BY <1>1, <2>1, QuarantineLocallyFits
    <2> QED
      BY <1>4, <1>7, <2>2 DEF Quarantine
  <1> QED
    BY <1>2, <1>3, <1>5, <1>6, <1>7

LEMMA BrainAnswerStep ==
    ASSUME IInv, NEW i \in Schedule, BrainAnswer(i)
    PROVE  IInv'
  <1> DEFINE e == call[i].row
             held(r) == LiveRow(i, r, Now)
             replayed(r) == /\ held(r)
                            /\ \E a \in 1..Now : AcceptedAs(i, e, a)
                            /\ history[r].enabled \/ ReplayAfterHold
             Given(kind, live) ==
                 call' = [call EXCEPT ![i].reply = [kind |-> kind, live |-> live]]
  <1>1. /\ LogTypeOK /\ Now \in Nat /\ watermark \in Nat /\ watermark <= Now
        /\ cache \in [Schedule -> Slot]
        /\ paused \in SUBSET Project /\ raised \in BOOLEAN
        /\ call \in [Schedule -> Call \cup {None}]
        /\ \A j \in Schedule : Fits(j, cache[j], watermark)
        /\ \A r \in 1..Now : history[r] \in Event
        /\ UNCHANGED <<cache, watermark, paused, raised>>
    BY RowAtIsRow DEF IInv, TypeOK, LogTypeOK, Now, SlotOK, BrainAnswer
  <1>2. /\ call[i] \in Call /\ e \in Row /\ e.rev \in Nat /\ e.rev <= Now
        /\ call[i].reply = None /\ call[i] # None
    BY <1>1 DEF IInv, CallOK, BrainAnswer, Call, Row
  <1>3. ASSUME NEW kind \in {"accepted", "refused"}, NEW live \in Nat, Given(kind, live)
        PROVE  /\ call' \in [Schedule -> Call \cup {None}]
               /\ call'[i] \in Call
               /\ call'[i].row = e
               /\ call'[i].reply = [kind |-> kind, live |-> live]
               /\ \A j \in Schedule \ {i} : call'[j] = call[j]
    <2> DEFINE c == [call[i] EXCEPT !.reply = [kind |-> kind, live |-> live]]
    <2>1. c \in Call /\ c.row = e /\ c.reply = [kind |-> kind, live |-> live]
      BY <1>2 DEF Call, Reply
    <2>2. call' = [call EXCEPT ![i] = c]
      BY <1>3
    <2> HIDE DEF c
    <2> QED
      BY <1>1, <2>1, <2>2
  <1>4. CASE held(e.rev) /\ history[e.rev].enabled /\ Accept(e.rev) /\ Given("accepted", Now + 1)
    <2>1. e.rev \in 1..Now
      BY <1>4 DEF LiveRow, IsNewest
    <2>2. PICK f \in Event : /\ Grows(f) /\ Continues(f)
                             /\ f.id = i /\ f.live /\ (history[e.rev].enabled => f.enabled)
      BY <1>1, <1>4, <2>1, AcceptGrows
    <2>3. Now' = Now + 1 /\ history'[Now + 1] = f
      BY <1>1, <2>2, Growth
    <2> HIDE DEF e, Given
    <2>4. call'[i] \in Call /\ call'[i].row = e
          /\ call'[i].reply = [kind |-> "accepted", live |-> Now + 1]
          /\ call' \in [Schedule -> Call \cup {None}]
          /\ \A j \in Schedule \ {i} : call'[j] = call[j]
      BY <1>1, <1>3, <1>4
    <2>5. CallOK(i)'
      <3>1. /\ Now \in Nat /\ e.rev \in Nat /\ e.rev <= Now
            /\ history[e.rev].enabled
        BY <1>1, <1>2, <1>4 DEF e
      <3>2. /\ call'[i].row.rev = e.rev
            /\ call'[i].reply.kind = "accepted" /\ call'[i].reply.live = Now + 1
        BY <2>4
      <3>3. LET live == call'[i].reply.live
            IN  /\ live \in 1..Now' /\ live > call'[i].row.rev
                /\ history'[live].id = i /\ history'[live].live /\ history'[live].enabled
        BY <3>1, <3>2, <2>2, <2>3
      <3> QED
        BY <3>1, <3>2, <3>3, <2>3 DEF CallOK
    <2>6. /\ call' \in [Schedule -> Call \cup {None}]
          /\ \A j \in Schedule : call'[j] = call[j] \/ CallOK(j)'
      BY <2>4, <2>5
    <2> QED
      BY <1>1, <2>2, <2>6, CommitStep
  <1>5. ASSUME NEW r \in 1..Now, replayed(r), Given("accepted", r), UNCHANGED history
        PROVE  IInv'
    <2>1. PICK a \in 1..Now : AcceptedAs(i, e, a)
      BY <1>5
    <2>2. r >= a /\ r > e.rev
      BY <1>1, <1>2, <1>5, <2>1 DEF AcceptedAs, LiveRow, IsNewest
    <2>3. history[r].id = i /\ history[r].live /\ (history[r].enabled \/ ReplayAfterHold)
      BY <1>5 DEF LiveRow
    <2> HIDE DEF e, Given
    <2>4. /\ call'[i].row = e /\ call'[i].reply = [kind |-> "accepted", live |-> r]
          /\ call' \in [Schedule -> Call \cup {None}]
          /\ \A j \in Schedule \ {i} : call'[j] = call[j]
      BY <1>1, <1>3, <1>5
    <2>5. CallOK(i)'
      <3>1. /\ Now \in Nat /\ e.rev \in Nat /\ e.rev <= Now
            /\ Now' = Now /\ history' = history
        BY <1>1, <1>2, <1>5 DEF e, Now
      <3>2. /\ call'[i].row.rev = e.rev
            /\ call'[i].reply.kind = "accepted" /\ call'[i].reply.live = r
        BY <2>4
      <3> QED
        BY <3>1, <3>2, <2>2, <2>3 DEF CallOK
    <2>6. /\ call' \in [Schedule -> Call \cup {None}]
          /\ \A j \in Schedule : call'[j] = call[j] \/ CallOK(j)'
      BY <2>4, <2>5
    <2> QED
      BY <1>1, <1>5, <2>6, CacheStep
  <1>6. ASSUME NEW live \in Nat, Given("refused", live), UNCHANGED history
        PROVE  IInv'
    <2> HIDE DEF e, Given
    <2>1. /\ call'[i].row = e /\ call'[i].reply = [kind |-> "refused", live |-> live]
          /\ call' \in [Schedule -> Call \cup {None}]
          /\ \A j \in Schedule \ {i} : call'[j] = call[j]
      BY <1>1, <1>3, <1>6
    <2>2. CallOK(i)'
      BY <1>1, <1>2, <1>6, <2>1 DEF CallOK, Now
    <2>3. /\ call' \in [Schedule -> Call \cup {None}]
          /\ \A j \in Schedule : call'[j] = call[j] \/ CallOK(j)'
      BY <2>1, <2>2
    <2> QED
      BY <1>1, <1>6, <2>3, CacheStep
  <1>7. \/ held(e.rev) /\ history[e.rev].enabled /\ Accept(e.rev) /\ Given("accepted", Now + 1)
        \/ \E r \in 1..Now : replayed(r) /\ Given("accepted", r) /\ UNCHANGED history
        \/ \E r \in Nat : Given("refused", r) /\ UNCHANGED history
    BY <1>1 DEF BrainAnswer, Answer
  <1> QED
    BY <1>1, <1>4, <1>5, <1>6, <1>7

LEMMA InitIInv == Init => IInv
  <1> SUFFICES ASSUME Init PROVE IInv
    OBVIOUS
  <1> USE DEF Init, LogInit
  <1>1. Now = 0 /\ LogTypeOK
    BY DEF Now, LogTypeOK
  <1>2. TypeOK
    BY <1>1 DEF TypeOK, EmptySlot, Slot
  <1>3. LogOK /\ HasNewest
    BY <1>1 DEF LogOK, HasNewest
  <1>4. ASSUME NEW i \in Schedule PROVE SlotOK(i) /\ CallOK(i)
    BY <1>1, EmptySlotFits DEF SlotOK, CallOK
  <1> QED
    BY <1>1, <1>2, <1>3, <1>4 DEF IInv

LEMMA NextIInv ==
    ASSUME IInv, [Next]_vars
    PROVE  IInv'
  <1>1. CASE Next
    <2>1. CASE Brain
      BY <2>1, BrainStep
    <2>2. CASE Deliver
      BY <2>2, DeliverStep
    <2>3. CASE Engine
      BY <2>3, EngineStep, BrainAnswerStep DEF Engine
    <2> QED
      BY <1>1, <2>1, <2>2, <2>3 DEF Next
  <1>2. CASE UNCHANGED vars
    <2>1. /\ UNCHANGED <<history, cache, watermark, paused, raised, call>>
          /\ watermark \in watermark..Now
      BY <1>2 DEF vars, cacheVars, IInv, TypeOK, LogTypeOK, Now
    <2> QED
      BY <2>1, CacheStep DEF IInv, TypeOK, SlotOK
  <1> QED
    BY <1>1, <1>2

-----------------------------------------------------------------------------
(* The theorems.                                                           *)

\* The invariant of every behaviour: what a slot and a call hold is always what
\* the log says of the revisions they name.
THEOREM InductiveInvariant == Spec => []IInv
  BY InitIInv, NextIInv, PTL DEF Spec

\* Every operation of ScheduleCache keeps its dictionaries well-formed.
THEOREM TypeCorrect == Spec => []TypeOK
  BY InductiveInvariant, PTL DEF IInv

\* Deleted work never comes back (apply_tombstone, apply_observed_absence,
\* apply_completed_snapshot against late rows and late fire answers), for any
\* number of schedules and any order of deliveries.
THEOREM NothingResurrected == Spec => []NoResurrection
  <1>1. IInv => NoResurrection
    <2> SUFFICES ASSUME IInv,
                        NEW i \in Schedule, NEW d \in 1..Now,
                        history[d].id = i, ~history[d].live,
                        cache[i].known >= d \/ watermark >= d,
                        Present(cache[i])
                 PROVE  FALSE
      BY DEF NoResurrection
    <2>1. /\ cache[i].known \in 1..Now /\ history[cache[i].known].id = i
          /\ history[cache[i].known].live /\ d > watermark
          /\ watermark \in Nat /\ Now \in Nat
      BY DEF IInv, TypeOK, LogTypeOK, Now, SlotOK, Fits, Slot
    <2>2. cache[i].known >= d
      BY <2>1
    <2> QED
      BY <2>1, <2>2 DEF IInv, LogOK
  <1> QED
    BY <1>1, InductiveInvariant, PTL

\* The row the tick engine sees is a row the Brain committed, and it is enabled
\* only if the Brain enables it there, provided the Brain does not replay an
\* acceptance over a hold (apply_cursor_transition keeps the enabled flag).
THEOREM RowsAreTheBrains ==
    ASSUME ~ReplayAfterHold
    PROVE  Spec => []RowIsTheBrains
  <1>1. IInv => RowIsTheBrains
    BY DEF IInv, TypeOK, SlotOK, Fits, Slot, RowIsTheBrains, Now, LogTypeOK
  <1> QED
    BY <1>1, InductiveInvariant, PTL

-----------------------------------------------------------------------------
(* The log is immutable.                                                   *)

\* A step leaves the log alone, or appends one event and leaves the cache alone.
LEMMA LogStep ==
    ASSUME IInv, [Next]_vars
    PROVE  \/ UNCHANGED history
           \/ UNCHANGED <<cache, watermark>> /\ \E e \in Event : Grows(e)
  <1>1. LogTypeOK
    BY DEF IInv, TypeOK
  <1>2. CASE Brain
    BY <1>2, BrainCommits DEF Brain, cacheVars
  <1>3. CASE Deliver
    BY <1>3 DEF Deliver, DeliverRow, DeliverTombstone, DeliverSnapshot, DeliverAbsence
  <1>4. ASSUME NEW i \in Schedule, BrainAnswer(i)
        PROVE  UNCHANGED history \/ \E e \in Event : Grows(e)
    <2>1. CASE \E r \in 1..Now : LiveRow(i, r, Now) /\ Accept(r)
      BY <1>1, <2>1, AcceptGrows
    <2>2. LiveRow(i, call[i].row.rev, Now) => call[i].row.rev \in 1..Now
      BY DEF LiveRow, IsNewest
    <2> QED
      BY <1>4, <2>1, <2>2 DEF BrainAnswer
  <1>5. CASE Engine
    BY <1>4, <1>5 DEF Engine, Submit, BrainAnswer, LoseReply, GiveUp, HandleReply, Quarantine
  <1>6. CASE UNCHANGED vars
    BY <1>6 DEF vars
  <1> QED
    BY <1>2, <1>3, <1>5, <1>6 DEF Next

LEMMA LogOnlyGrows ==
    ASSUME IInv, [Next]_vars
    PROVE  Now' >= Now /\ \A r \in 1..Now : history'[r] = history[r]
  <1>1. LogTypeOK /\ Now \in Nat
    BY DEF IInv, TypeOK, LogTypeOK, Now
  <1>2. CASE UNCHANGED history
    BY <1>1, <1>2 DEF Now
  <1>3. CASE \E e \in Event : Grows(e)
    BY <1>1, <1>3, Growth
  <1> QED
    BY <1>2, <1>3, LogStep

-----------------------------------------------------------------------------
(* What is known never moves back.                                         *)

\* Slot t of schedule i comes after slot s under watermark w: as much is known of the
\* schedule, or a snapshot that covers it all forgot it.
Follows(i, s, t, w) ==
    \/ t.known >= s.known
    \/ ~Present(t) /\ s.known <= w /\ (Present(s) => DeletedBy(i, w))

LEMMA MergeRowFollows ==
    ASSUME NEW s \in Slot, NEW w \in Nat, NEW row \in Row
    PROVE  MergeRow(s, row, w).known >= s.known
  <1>1. CASE RowIsStale(s, row, w) \/ RowRepeats(s, row)
    BY <1>1 DEF MergeRow, Slot
  <1>2. CASE ~RowIsStale(s, row, w) /\ ~RowRepeats(s, row)
    <2>1. MergeRow(s, row, w).known = row.rev
      BY <1>2 DEF MergeRow, StoreRow
    <2>2. ~(row.rev < s.known) /\ row.rev \in Nat /\ s.known \in Nat
      BY <1>2 DEF RowIsStale, Row, Slot
    <2> QED
      BY <2>1, <2>2
  <1> QED
    BY <1>1, <1>2

\* Merging a row into a slot that has one leaves one.
LEMMA StoredIsPresent ==
    ASSUME NEW s \in Slot, NEW w \in Nat, NEW row \in Row, Present(s)
    PROVE  Present(MergeRow(s, row, w))
  <1>1. StoreRow(s, row).entry \in Row
    <2>1. ASSUME NEW b \in BOOLEAN PROVE [row EXCEPT !.enabled = b] \in Row
      BY DEF Row
    <2>2. (row.enabled /\ ~Quarantined(s, row) /\ ~Stopped(s, row)) \in BOOLEAN
      BY DEF Row, Quarantined, Stopped, Superseded
    <2> QED
      BY <2>1, <2>2 DEF StoreRow
  <1> QED
    BY <1>1, LogAssumption DEF MergeRow, Present

LEMMA AbsenceFollows ==
    ASSUME NEW s \in Slot, NEW w \in Nat, NEW r \in Nat
    PROVE  /\ ApplyTombstone(s, r, w).known >= s.known
           /\ ApplyAbsence(s, r).known >= s.known
  <1>1. Removed(r).known = r /\ s.known \in Nat
    BY DEF Removed, EmptySlot, Slot
  <1> QED
    BY <1>1 DEF ApplyTombstone, TombstoneIsStale, ApplyAbsence

\* The engine's own operations.
LEMMA EngineFollows ==
    ASSUME NEW s \in Slot, NEW i, NEW w \in Nat, Fits(i, s, w), NEW e \in Row,
           NEW r \in Nat, NEW c \in Nat, NEW t \in Token
    PROVE  /\ r > e.rev => CursorTransition(s, e, r, c).known >= s.known
           /\ LatchStop(s, t, r).known >= s.known
           /\ QuarantineLocally(s, t).known >= s.known
  <1>1. s.known \in Nat /\ e.rev \in Nat
    BY DEF Slot, Row
  <1>2. r > e.rev => CursorTransition(s, e, r, c).known >= s.known
    <2>1. CASE TransitionApplies(s, e)
      <3>1. s.known = e.rev
        BY <2>1 DEF TransitionApplies, Fits
      <3>2. CursorTransition(s, e, r, c).known = r
        BY <2>1 DEF CursorTransition, Slot
      <3> QED
        BY <1>1, <3>1, <3>2
    <2>2. CASE ~TransitionApplies(s, e)
      BY <1>1, <2>2 DEF CursorTransition
    <2> QED
      BY <2>1, <2>2
  <1>3. LatchStop(s, t, r).known = s.known
    BY DEF LatchStop, Slot
  <1>4. QuarantineLocally(s, t).known = s.known
    BY DEF QuarantineLocally, Slot
  <1> QED
    BY <1>1, <1>2, <1>3, <1>4

LEMMA SnapshotFollows ==
    ASSUME LogTypeOK, HasNewest, NEW i \in Schedule, cache[i] \in Slot, watermark \in Nat,
           Fits(i, cache[i], watermark), NEW w \in watermark..Now
    PROVE  Follows(i, cache[i], AfterSnapshot(i, w), w)
  <1> DEFINE listed == \E r \in SnapshotRows(w) : history[r].id = i
             r == CHOOSE q \in SnapshotRows(w) : history[q].id = i
             merged == IF listed THEN MergeRow(cache[i], RowAt(r), watermark) ELSE cache[i]
  <1>1. w \in Nat /\ w <= Now /\ Now \in Nat /\ cache[i].known \in Nat
    BY DEF Slot, LogTypeOK, Now
  <1>2. merged.known >= cache[i].known /\ merged.known \in Nat
    <2>1. CASE listed
      <3>1. r \in 1..Now
        BY <1>1, <2>1 DEF SnapshotRows
      <3> HIDE DEF r
      <3>2. RowAt(r) \in Row
        BY <3>1, RowAtIsRow
      <3>3. MergeRow(cache[i], RowAt(r), watermark) \in Slot
        BY <3>2, StoreRowType DEF MergeRow
      <3> QED
        BY <2>1, <3>2, <3>3, MergeRowFollows DEF Slot
    <2>2. CASE ~listed
      BY <1>1, <2>2
    <2> QED
      BY <2>1, <2>2
  <1>3. AfterSnapshot(i, w)
          = IF merged.known <= w /\ (~listed \/ ~Present(merged)) THEN EmptySlot ELSE merged
    BY DEF AfterSnapshot
  <1>4. ~Present(EmptySlot)
    BY DEF Present, EmptySlot
  <1>5. ASSUME listed, Present(cache[i]) PROVE Present(merged)
    <2>1. r \in 1..Now
      BY <1>1, <1>5 DEF SnapshotRows
    <2> HIDE DEF r
    <2>2. RowAt(r) \in Row
      BY <2>1, RowAtIsRow
    <2> QED
      BY <1>5, <2>2, StoredIsPresent
  <1>6. ASSUME ~listed, Present(cache[i]), cache[i].known <= w PROVE DeletedBy(i, w)
    <2>1. cache[i].known \in 1..w /\ history[cache[i].known].id = i /\ w \in 0..Now
      BY <1>1, <1>6 DEF Fits
    <2>2. PICK p \in 1..w : history[p].id = i /\ IsNewest(p, w)
      BY <2>1 DEF HasNewest
    <2>3. ~history[p].live
      BY <1>6, <2>2 DEF SnapshotRows
    <2> QED
      BY <2>2, <2>3 DEF DeletedBy
  <1> HIDE DEF merged, listed
  <1> QED
    BY <1>1, <1>2, <1>3, <1>4, <1>5, <1>6 DEF Follows

\* Every step follows: the watermark only rises, and every slot comes after what it was.
Onwards ==
    /\ watermark' >= watermark
    /\ \A i \in Schedule : Follows(i, cache[i], cache'[i], watermark')

\* One slot changes.
LEMMA OneFollows ==
    ASSUME cache \in [Schedule -> Slot], watermark \in Nat, UNCHANGED watermark,
           NEW i \in Schedule, NEW s, s.known >= cache[i].known,
           cache' = [cache EXCEPT ![i] = s]
    PROVE  Onwards
  <1>1. \A j \in Schedule \ {i} : cache'[j] = cache[j] /\ cache[j].known \in Nat
    BY DEF Slot
  <1>2. cache'[i] = s
    OBVIOUS
  <1> QED
    BY <1>1, <1>2 DEF Onwards, Follows

LEMMA NoneFollows ==
    ASSUME cache \in [Schedule -> Slot], watermark \in Nat, UNCHANGED <<cache, watermark>>
    PROVE  Onwards
  BY DEF Onwards, Follows, Slot

LEMMA DeliverFollows ==
    ASSUME IInv, Deliver
    PROVE  Onwards
  <1>1. /\ LogTypeOK /\ HasNewest /\ Now \in Nat /\ watermark \in Nat
        /\ cache \in [Schedule -> Slot]
        /\ \A i \in Schedule : Fits(i, cache[i], watermark)
        /\ \A r \in 1..Now : history[r].id \in Schedule /\ RowAt(r) \in Row /\ r \in Nat
    BY RowAtIsRow DEF IInv, TypeOK, LogTypeOK, Now, Event, SlotOK
  <1>2. ASSUME NEW r \in 1..Now, DeliverRow(r) PROVE Onwards
    <2>1. CASE UNCHANGED cache
      BY <1>1, <1>2, <2>1, NoneFollows DEF DeliverRow
    <2>2. CASE cache' = [cache EXCEPT ![history[r].id] = MergeRow(cache[history[r].id], RowAt(r), watermark)]
      <3>1. MergeRow(cache[history[r].id], RowAt(r), watermark).known >= cache[history[r].id].known
        BY <1>1, MergeRowFollows
      <3> QED
        BY <1>1, <1>2, <2>2, <3>1, OneFollows DEF DeliverRow
    <2> QED
      BY <1>2, <2>1, <2>2 DEF DeliverRow
  <1>3. ASSUME NEW r \in 1..Now, DeliverTombstone(r) PROVE Onwards
    <2>1. CASE UNCHANGED cache
      BY <1>1, <1>3, <2>1, NoneFollows DEF DeliverTombstone
    <2>2. CASE cache' = [cache EXCEPT ![history[r].id] = ApplyTombstone(cache[history[r].id], r, watermark)]
      <3>1. ApplyTombstone(cache[history[r].id], r, watermark).known >= cache[history[r].id].known
        BY <1>1, AbsenceFollows
      <3> QED
        BY <1>1, <1>3, <2>2, <3>1, OneFollows DEF DeliverTombstone
    <2> QED
      BY <1>3, <2>1, <2>2 DEF DeliverTombstone
  <1>4. ASSUME NEW w \in 1..Now, DeliverSnapshot(w) PROVE Onwards
    <2>1. CASE UNCHANGED <<cache, watermark>>
      BY <1>1, <2>1, NoneFollows
    <2>2. CASE cache' = [i \in Schedule |-> AfterSnapshot(i, w)] /\ watermark' = w
      <3>1. w \in watermark..Now
        BY <1>4 DEF DeliverSnapshot
      <3>2. \A i \in Schedule : Follows(i, cache[i], AfterSnapshot(i, w), w)
        BY <1>1, <3>1, SnapshotFollows
      <3> QED
        BY <1>1, <2>2, <3>1, <3>2 DEF Onwards
    <2> QED
      BY <1>4, <2>1, <2>2 DEF DeliverSnapshot
  <1>5. ASSUME NEW i \in Schedule, NEW w \in 1..Now, DeliverAbsence(i, w) PROVE Onwards
    <2>1. CASE UNCHANGED cache
      BY <1>1, <1>5, <2>1, NoneFollows DEF DeliverAbsence
    <2>2. CASE cache' = [cache EXCEPT ![i] = ApplyAbsence(cache[i], w)]
      <3>1. ApplyAbsence(cache[i], w).known >= cache[i].known
        BY <1>1, AbsenceFollows
      <3> QED
        BY <1>1, <1>5, <2>2, <3>1, OneFollows DEF DeliverAbsence
    <2> QED
      BY <1>5, <2>1, <2>2 DEF DeliverAbsence
  <1> QED
    BY <1>2, <1>3, <1>4, <1>5 DEF Deliver

LEMMA StepFollows ==
    ASSUME IInv, [Next]_vars
    PROVE  Onwards
  <1>1. /\ LogTypeOK /\ Now \in Nat /\ watermark \in Nat
        /\ cache \in [Schedule -> Slot] /\ call \in [Schedule -> Call \cup {None}]
        /\ \A i \in Schedule : Fits(i, cache[i], watermark) /\ CallOK(i)
        /\ \A r \in 1..Now : history[r].cursor \in Nat
    BY RowAtIsRow DEF IInv, TypeOK, LogTypeOK, Now, SlotOK, Event
  <1>2. CASE UNCHANGED <<cache, watermark>>
    BY <1>1, <1>2, NoneFollows
  <1>3. ASSUME NEW i \in Schedule, HandleReply(i) PROVE Onwards
    <2> DEFINE e == call[i].row
               reply == call[i].reply
    <2>1. e \in Row /\ e.token \in Token /\ reply \in Reply /\ reply.live \in Nat /\ call[i] # None
      BY <1>1, <1>3 DEF HandleReply, Call, Reply, Row
    <2>2. reply.kind = "accepted" => reply.live \in 1..Now /\ reply.live > e.rev
      BY <1>1, <1>3 DEF CallOK, HandleReply
    <2>3. PICK s \in AfterReply(cache[i], e, reply) :
              cache' = [cache EXCEPT ![i] = s] /\ UNCHANGED watermark
      BY <1>3 DEF HandleReply
    <2> HIDE DEF e, reply
    <2>4. cache[i] \in Slot /\ cache[i].known \in Nat /\ Fits(i, cache[i], watermark)
      BY <1>1 DEF Slot
    <2>5. s.known >= cache[i].known
      <3>1. CASE s = cache[i]
        BY <2>4, <3>1
      <3>2. CASE s = LatchStop(cache[i], e.token, reply.live)
        BY <1>1, <2>1, <2>4, <3>2, EngineFollows
      <3>3. CASE /\ reply.kind = "accepted"
                 /\ s = CursorTransition(cache[i], e, reply.live, history[reply.live].cursor)
        BY <1>1, <2>1, <2>2, <2>4, <3>3, EngineFollows
      <3>4. reply.kind = "refused" \/ reply.kind = "accepted"
        BY <2>1 DEF Reply
      <3> QED
        BY <2>3, <3>1, <3>2, <3>3, <3>4 DEF AfterReply
    <2> QED
      BY <1>1, <2>3, <2>5, OneFollows
  <1>4. ASSUME NEW i \in Schedule, Quarantine(i) PROVE Onwards
    <2> DEFINE t == call[i].row.token
    <2>1. t \in Token /\ call[i].row \in Row
      BY <1>1, <1>4 DEF Quarantine, Call, Row
    <2>2. cache' = [cache EXCEPT ![i] = QuarantineLocally(cache[i], t)] /\ UNCHANGED watermark
      BY <1>4 DEF Quarantine
    <2> HIDE DEF t
    <2>3. QuarantineLocally(cache[i], t).known >= cache[i].known
      BY <1>1, <2>1, EngineFollows
    <2> QED
      BY <1>1, <2>2, <2>3, OneFollows
  <1>5. CASE Brain
    BY <1>2, <1>5 DEF Brain, cacheVars
  <1>6. CASE Engine
    BY <1>2, <1>3, <1>4, <1>6 DEF Engine, Submit, BrainAnswer, LoseReply, GiveUp
  <1>7. CASE UNCHANGED vars
    BY <1>2, <1>7 DEF vars, cacheVars
  <1> QED
    BY <1>5, <1>6, <1>7, DeliverFollows DEF Next

\* Compaction loses no evidence: the revision a delayed frame is compared with, the one
\* known of the schedule or the watermark, never moves back (apply_completed_snapshot).
THEOREM EvidenceKept == Spec => EvidenceNeverLost
  <1>1. IInv /\ [Next]_vars => [\A i \in Schedule : Evidence(i)' >= Evidence(i)]_vars
    <2> SUFFICES ASSUME IInv, [Next]_vars, NEW i \in Schedule
                 PROVE  Evidence(i)' >= Evidence(i)
      OBVIOUS
    <2>1. IInv' /\ Onwards
      BY NextIInv, StepFollows
    <2>2. /\ cache[i] \in Slot /\ cache'[i] \in Slot /\ watermark \in Nat /\ watermark' \in Nat
          /\ cache[i].known \in Nat /\ cache'[i].known \in Nat
      BY <2>1 DEF IInv, TypeOK, Slot
    <2> QED
      BY <2>1, <2>2 DEF Onwards, Follows, Evidence
  <1> QED
    BY <1>1, InductiveInvariant, PTL DEF Spec, EvidenceNeverLost

\* The cadence of a cached schedule never moves back, whatever arrives and when: not its
\* revision, and not its cursor, so no slot that was resolved is planned again.
THEOREM CadenceNeverMovesBack == Spec => CursorNeverGoesBack
  <1> DEFINE Forward ==
          \A i \in Schedule :
              Present(cache[i]) /\ Present(cache'[i]) =>
                  /\ cache'[i].entry.rev >= cache[i].entry.rev
                  /\ cache'[i].entry.cursor >= cache[i].entry.cursor
  <1>1. IInv /\ [Next]_vars => [Forward]_vars
    <2> SUFFICES ASSUME IInv, [Next]_vars, NEW i \in Schedule,
                        Present(cache[i]), Present(cache'[i])
                 PROVE  /\ cache'[i].entry.rev >= cache[i].entry.rev
                        /\ cache'[i].entry.cursor >= cache[i].entry.cursor
      OBVIOUS
    <2>1. IInv' /\ Onwards
      BY NextIInv, StepFollows
    <2> DEFINE p == cache[i].known
               q == cache'[i].known
    <2>2. /\ p \in 1..Now /\ q \in 1..Now' /\ p \in Nat /\ q \in Nat
          /\ cache[i].entry.rev = p /\ cache'[i].entry.rev = q
          /\ history[p].id = i /\ history'[q].id = i
          /\ cache[i].entry.cursor = history[p].cursor
          /\ cache'[i].entry.cursor = history'[q].cursor
      BY <2>1 DEF IInv, TypeOK, Slot, SlotOK, Fits, LogTypeOK, Now
    <2>3. q >= p
      BY <2>1 DEF Onwards, Follows
    <2>4. Now' >= Now /\ history'[p] = history[p]
      BY <2>2, LogOnlyGrows
    <2>5. history[p].cursor \in Nat /\ p \in 1..Now' /\ history'[p].id = i
      BY <2>1, <2>2, <2>4, RowAtIsRow DEF IInv, TypeOK, Event, LogTypeOK, Now
    <2>6. history'[q].cursor >= history[p].cursor
      BY <2>1, <2>2, <2>3, <2>4, <2>5 DEF IInv, LogOK
    <2> QED
      BY <2>2, <2>3, <2>6
  <1> QED
    BY <1>1, InductiveInvariant, PTL DEF Spec, CursorNeverGoesBack

-----------------------------------------------------------------------------
(* Stops and payloads.                                                     *)

\* A call was planned from an enabled row the cache has seen, and finds that row
\* untouched as long as the slot holds its revision.
CallSeen(i) ==
    call[i] # None =>
        /\ call[i].row.enabled
        /\ call[i].row.rev <= cache[i].known \/ call[i].row.rev <= watermark
        /\ Present(cache[i]) /\ cache[i].entry.rev = call[i].row.rev =>
              cache[i].entry = call[i].row

\* The event an answer names is the schedule's, and one that names none was given
\* because the schedule is gone.
AnswerNames(i) ==
    call[i] # None /\ call[i].reply # None =>
        LET live == call[i].reply.live
        IN  /\ live > 0 => live <= Now /\ history[live].id = i
            /\ ~(live > 0) => DeletedBy(i, Now)

\* What a stop in slot s of schedule i is held on, and what it waits for.
StopEnds(i, s) ==
    s.stop # None =>
        /\ Present(s) /\ s.stop.token = s.entry.token /\ ~s.entry.enabled
        /\ s.stop.refusedAt > 0 =>
              /\ s.entry.rev < s.stop.refusedAt /\ s.stop.refusedAt <= Now
              /\ history[s.stop.refusedAt].id = i
        /\ ~(s.stop.refusedAt > 0) => DeletedBy(i, Now)

\* The payload remembered of a row is the one the Brain sends of that revision.
PayloadOK(s) == Present(s) => s.payload = RowAt(s.known)

StopIInv ==
    /\ IInv
    /\ \A i \in Schedule : CallSeen(i) /\ AnswerNames(i) /\ StopEnds(i, cache[i])
    /\ ReplayAfterHold \/ (~raised /\ \A i \in Schedule : PayloadOK(cache[i]))

\* A row that is stored: new to the slot, and not proved gone.
Stores(i, r) ==
    /\ r \in 1..Now /\ history[r].id = i /\ history[r].live
    /\ ~RowIsStale(cache[i], RowAt(r), watermark) /\ ~RowRepeats(cache[i], RowAt(r))
    /\ cache'[i] = StoreRow(cache[i], RowAt(r))

\* What one step can do to the slot of schedule i.
SlotMoves(i) ==
    \/ cache'[i] = cache[i]
    \/ ~Present(cache'[i]) /\ cache'[i].stop = None
    \/ \E r \in 1..Now : Stores(i, r)
    \/ HandleReply(i) /\ cache'[i] \in AfterReply(cache[i], call[i].row, call[i].reply)
    \/ Quarantine(i) /\ cache'[i] = QuarantineLocally(cache[i], call[i].row.token)

LEMMA EmptiedSlot ==
    ASSUME NEW r
    PROVE  /\ ~Present(EmptySlot) /\ EmptySlot.stop = None
           /\ ~Present(Removed(r)) /\ Removed(r).stop = None
  BY DEF EmptySlot, Removed, Present

LEMMA MergeMoves ==
    ASSUME IInv, NEW i \in Schedule, NEW r \in 1..Now, history[r].id = i, history[r].live,
           cache'[i] = MergeRow(cache[i], RowAt(r), watermark)
    PROVE  cache'[i] = cache[i] \/ Stores(i, r)
  BY DEF MergeRow, Stores

LEMMA StepMovesSlot ==
    ASSUME IInv, [Next]_vars, NEW i \in Schedule
    PROVE  SlotMoves(i)
  <1>1. /\ cache \in [Schedule -> Slot] /\ LogTypeOK /\ watermark \in Nat /\ Now \in Nat
    BY DEF IInv, TypeOK, LogTypeOK, Now
  <1>2. CASE UNCHANGED cache
    BY <1>2 DEF SlotMoves
  <1>3. ASSUME NEW r \in 1..Now, DeliverRow(r) PROVE SlotMoves(i)
    <2>1. \/ cache'[i] = cache[i]
          \/ history[r].id = i /\ cache'[i] = MergeRow(cache[i], RowAt(r), watermark)
      BY <1>1, <1>3 DEF DeliverRow
    <2> QED
      BY <1>3, <2>1, MergeMoves DEF SlotMoves, DeliverRow
  <1>4. ASSUME NEW r \in 1..Now, DeliverTombstone(r) PROVE SlotMoves(i)
    <2>1. cache'[i] = cache[i] \/ cache'[i] = ApplyTombstone(cache[i], r, watermark)
      BY <1>1, <1>4 DEF DeliverTombstone
    <2> QED
      BY <2>1, EmptiedSlot DEF SlotMoves, ApplyTombstone
  <1>5. ASSUME NEW w \in 1..Now, DeliverSnapshot(w) PROVE SlotMoves(i)
    <2>1. cache'[i] = cache[i] \/ cache'[i] = AfterSnapshot(i, w)
      BY <1>5 DEF DeliverSnapshot
    <2>2. CASE cache'[i] = AfterSnapshot(i, w)
      <3> DEFINE listed == \E r \in SnapshotRows(w) : history[r].id = i
                 r == CHOOSE q \in SnapshotRows(w) : history[q].id = i
      <3>1. w \in watermark..Now
        BY <1>5 DEF DeliverSnapshot
      <3>2. \/ cache'[i] = EmptySlot
            \/ cache'[i] = cache[i]
            \/ listed /\ cache'[i] = MergeRow(cache[i], RowAt(r), watermark)
        BY <2>2 DEF AfterSnapshot
      <3>3. listed => r \in 1..Now /\ history[r].id = i /\ history[r].live
        BY <1>1, <3>1 DEF SnapshotRows
      <3> HIDE DEF listed, r
      <3> QED
        BY <3>2, <3>3, MergeMoves, EmptiedSlot DEF SlotMoves
    <2> QED
      BY <2>1, <2>2 DEF SlotMoves
  <1>6. ASSUME NEW j \in Schedule, NEW w \in 1..Now, DeliverAbsence(j, w) PROVE SlotMoves(i)
    <2>1. cache'[i] = cache[i] \/ cache'[i] = ApplyAbsence(cache[i], w)
      BY <1>1, <1>6 DEF DeliverAbsence
    <2> QED
      BY <2>1, EmptiedSlot DEF SlotMoves, ApplyAbsence
  <1>7. ASSUME NEW j \in Schedule, HandleReply(j) PROVE SlotMoves(i)
    <2>1. CASE j = i
      BY <1>1, <1>7, <2>1 DEF HandleReply, SlotMoves
    <2>2. CASE j # i
      BY <1>1, <1>7, <2>2 DEF HandleReply, SlotMoves
    <2> QED
      BY <2>1, <2>2
  <1>8. ASSUME NEW j \in Schedule, Quarantine(j) PROVE SlotMoves(i)
    <2>1. CASE j = i
      BY <1>1, <1>8, <2>1 DEF Quarantine, SlotMoves
    <2>2. CASE j # i
      BY <1>1, <1>8, <2>2 DEF Quarantine, SlotMoves
    <2> QED
      BY <2>1, <2>2
  <1>9. CASE Brain \/ UNCHANGED vars
    BY <1>2, <1>9 DEF Brain, vars, cacheVars
  <1>10. CASE Engine
    BY <1>2, <1>7, <1>8, <1>10 DEF Engine, Submit, BrainAnswer, LoseReply, GiveUp
  <1>11. CASE Deliver
    BY <1>3, <1>4, <1>5, <1>6, <1>11 DEF Deliver
  <1> QED
    BY <1>9, <1>10, <1>11 DEF Next

\* What one step can do to the call of schedule i.
CallMoves(i) ==
    \/ call'[i] = call[i]
    \/ call'[i] = None
    \/ Submit(i) /\ call'[i] = [row |-> cache[i].entry, reply |-> None]
    \/ LoseReply(i) /\ call'[i] = [row |-> call[i].row, reply |-> None]
    \/ BrainAnswer(i) /\ \E kind \in {"accepted", "refused"}, live \in Nat :
          call'[i] = [row |-> call[i].row, reply |-> [kind |-> kind, live |-> live]]

LEMMA StepMovesCall ==
    ASSUME IInv, [Next]_vars, NEW i \in Schedule
    PROVE  CallMoves(i)
  <1>1. /\ call \in [Schedule -> Call \cup {None}] /\ LogTypeOK /\ Now \in Nat
        /\ \A j \in Schedule : CallOK(j)
    BY DEF IInv, TypeOK, LogTypeOK, Now
  <1>2. CASE UNCHANGED call
    BY <1>2 DEF CallMoves
  <1>3. ASSUME NEW j \in Schedule, j # i,
               Submit(j) \/ BrainAnswer(j) \/ LoseReply(j) \/ GiveUp(j) \/ HandleReply(j) \/ Quarantine(j)
        PROVE  call'[i] = call[i]
    BY <1>1, <1>3 DEF Submit, BrainAnswer, Answer, LoseReply, GiveUp, HandleReply, Quarantine
  <1>4. CASE Submit(i)
    BY <1>1, <1>4 DEF Submit, CallMoves
  <1>5. CASE LoseReply(i)
    <2>1. call[i] \in Call
      BY <1>1, <1>5 DEF LoseReply
    <2>2. [call[i] EXCEPT !.reply = None] = [row |-> call[i].row, reply |-> None]
      BY <2>1 DEF Call
    <2> QED
      BY <1>1, <1>5, <2>2 DEF LoseReply, CallMoves
  <1>6. CASE GiveUp(i) \/ HandleReply(i) \/ Quarantine(i)
    BY <1>1, <1>6 DEF GiveUp, HandleReply, Quarantine, CallMoves
  <1>7. CASE BrainAnswer(i)
    <2>1. call[i] \in Call
      BY <1>1, <1>7 DEF BrainAnswer
    <2>2. PICK kind \in {"accepted", "refused"}, live \in Nat : Answer(i, kind, live)
      BY <1>1, <1>7 DEF BrainAnswer
    <2>3. [call[i] EXCEPT !.reply = [kind |-> kind, live |-> live]]
             = [row |-> call[i].row, reply |-> [kind |-> kind, live |-> live]]
      BY <2>1 DEF Call
    <2> QED
      BY <1>1, <1>7, <2>2, <2>3 DEF Answer, CallMoves
  <1>8. CASE Brain \/ Deliver \/ UNCHANGED vars
    BY <1>2, <1>8 DEF Brain, Deliver, DeliverRow, DeliverTombstone, DeliverSnapshot, DeliverAbsence,
       vars, cacheVars
  <1>9. CASE Engine
    <2>1. PICK j \in Schedule :
             Submit(j) \/ BrainAnswer(j) \/ LoseReply(j) \/ GiveUp(j) \/ HandleReply(j) \/ Quarantine(j)
      BY <1>9 DEF Engine
    <2>2. CASE j = i
      BY <2>1, <2>2, <1>4, <1>5, <1>6, <1>7
    <2>3. CASE j # i
      BY <2>1, <2>3, <1>3 DEF CallMoves
    <2> QED
      BY <2>2, <2>3
  <1> QED
    BY <1>8, <1>9 DEF Next

\* Committed events and deletions are still there after a step.
LEMMA LogKept ==
    ASSUME IInv, [Next]_vars
    PROVE  /\ Now \in Nat /\ Now' \in Nat /\ Now' >= Now
           /\ \A r \in 1..Now : history'[r] = history[r] /\ RowAt(r)' = RowAt(r)
           /\ \A i : DeletedBy(i, Now) => DeletedBy(i, Now)'
  <1>1. Now \in Nat /\ Now' \in Nat /\ Now' >= Now /\ \A r \in 1..Now : history'[r] = history[r]
    BY LogOnlyGrows, NextIInv DEF IInv, TypeOK, LogTypeOK, Now
  <1> QED
    BY <1>1 DEF RowAt, DeletedBy

\* A row new to a slot of schedule i is not one a call was planned from.
LEMMA StoredIsUnseen ==
    ASSUME IInv, NEW i \in Schedule, NEW r \in 1..Now, Stores(i, r), call[i] # None, CallSeen(i)
    PROVE  r # call[i].row.rev
  <1>1. /\ LogTypeOK /\ LogOK /\ Now \in Nat /\ watermark \in Nat
        /\ cache[i] \in Slot /\ cache[i].known \in Nat /\ Fits(i, cache[i], watermark)
        /\ RowAt(r).rev = r
    BY DEF IInv, TypeOK, LogTypeOK, Now, Slot, SlotOK, RowAt
  <1>2. SUFFICES ASSUME r = call[i].row.rev PROVE FALSE
    OBVIOUS
  <1>3. r <= cache[i].known \/ r <= watermark
    BY <1>2 DEF CallSeen
  <1>4. r = cache[i].known
    BY <1>1, <1>3 DEF Stores, RowIsStale
  <1>5. CASE Present(cache[i])
    BY <1>1, <1>4, <1>5 DEF Stores, RowRepeats, Fits
  <1>6. CASE ~Present(cache[i])
    BY <1>1, <1>4, <1>6 DEF Stores, Fits, DeletedBy, LogOK
  <1> QED
    BY <1>5, <1>6

LEMMA StoredRow ==
    ASSUME IInv, NEW i \in Schedule, NEW r \in 1..Now, Stores(i, r)
    PROVE  /\ cache'[i].entry.rev = r /\ cache'[i].entry.token = RowAt(r).token
           /\ cache'[i].entry.enabled <=>
                 RowAt(r).enabled /\ ~Quarantined(cache[i], RowAt(r)) /\ ~Stopped(cache[i], RowAt(r))
           /\ cache'[i].known = r /\ cache'[i].payload = RowAt(r)
           /\ Present(cache'[i]) /\ RowAt(r).rev = r
           /\ cache'[i].stop # None =>
                 /\ Stopped(cache[i], RowAt(r)) /\ cache[i].stop # None
                 /\ cache'[i].stop.token = cache[i].stop.token
                 /\ cache'[i].stop.refusedAt = cache[i].stop.refusedAt
  <1> DEFINE row == RowAt(r)
             offered == row.enabled /\ ~Quarantined(cache[i], row)
             on == offered /\ ~Stopped(cache[i], row)
  <1>1. row \in Row /\ cache[i] \in Slot /\ row.rev = r
    BY RowAtIsRow DEF IInv, TypeOK, RowAt
  <1>2. offered \in BOOLEAN /\ on \in BOOLEAN
    BY <1>1 DEF Row, Quarantined, Stopped, Superseded
  <1>3. cache'[i] = StoreRow(cache[i], row)
    BY DEF Stores
  <1>4. ASSUME NEW b \in BOOLEAN
        PROVE  LET f == [row EXCEPT !.enabled = b]
               IN  f \in Row /\ f.rev = row.rev /\ f.token = row.token /\ f.enabled = b
    BY <1>1 DEF Row
  <1>5. /\ cache'[i].entry = [row EXCEPT !.enabled = on]
        /\ cache'[i].known = r /\ cache'[i].payload = row
        /\ cache'[i].stop = IF Stopped(cache[i], row)
                            THEN [cache[i].stop EXCEPT !.brainEnabled = offered] ELSE None
    BY <1>1, <1>3 DEF StoreRow
  <1>6. cache'[i].stop # None =>
           /\ Stopped(cache[i], row) /\ cache[i].stop # None
           /\ cache'[i].stop.token = cache[i].stop.token
           /\ cache'[i].stop.refusedAt = cache[i].stop.refusedAt
    <2>1. SUFFICES ASSUME cache'[i].stop # None
                   PROVE  /\ Stopped(cache[i], row) /\ cache[i].stop # None
                          /\ cache'[i].stop.token = cache[i].stop.token
                          /\ cache'[i].stop.refusedAt = cache[i].stop.refusedAt
      OBVIOUS
    <2>2. Stopped(cache[i], row) /\ cache'[i].stop = [cache[i].stop EXCEPT !.brainEnabled = offered]
      BY <1>5, <2>1
    <2>3. cache[i].stop \in Stop
      BY <1>1, <2>2 DEF Stopped, Slot
    <2> HIDE DEF offered, row
    <2> QED
      BY <2>2, <2>3 DEF Stop, Stopped
  <1> HIDE DEF row, offered, on
  <1>7. /\ cache'[i].entry \in Row /\ cache'[i].entry.rev = r
        /\ cache'[i].entry.token = row.token /\ cache'[i].entry.enabled = on
    BY <1>1, <1>2, <1>4, <1>5
  <1> QED
    BY <1>1, <1>5, <1>6, <1>7, LogAssumption DEF Present, row, offered, on

LEMMA CallsStaySeen ==
    ASSUME IInv, [Next]_vars, NEW i \in Schedule, CallSeen(i)
    PROVE  CallSeen(i)'
  <1>1. /\ cache[i] \in Slot /\ cache'[i] \in Slot /\ watermark \in Nat /\ watermark' \in Nat
        /\ cache[i].known \in Nat /\ cache'[i].known \in Nat
        /\ call[i] \in Call \cup {None} /\ Fits(i, cache[i], watermark)
    BY NextIInv DEF IInv, TypeOK, Slot, SlotOK
  <1>2. Onwards
    BY StepFollows
  <1>3. CASE call'[i] = None
    BY <1>3 DEF CallSeen
  <1>4. CASE Submit(i) /\ call'[i] = [row |-> cache[i].entry, reply |-> None]
    BY <1>1, <1>4 DEF CallSeen, Submit, Fits
  <1>5. CASE call[i] # None /\ call'[i].row = call[i].row /\ ~HandleReply(i) /\ ~Quarantine(i)
    <2>1. call[i] \in Call /\ call[i].row \in Row /\ call[i].row.rev \in Nat
      BY <1>1, <1>5 DEF Call, Row
    <2>2. call[i].row.rev <= cache'[i].known \/ call[i].row.rev <= watermark'
      BY <1>1, <1>2, <1>5, <2>1 DEF CallSeen, Onwards, Follows
    <2>3. ASSUME Present(cache'[i]), cache'[i].entry.rev = call[i].row.rev
          PROVE  cache'[i].entry = call[i].row
      <3>1. CASE cache'[i] = cache[i]
        BY <1>5, <2>3, <3>1 DEF CallSeen
      <3>2. CASE \E r \in 1..Now : Stores(i, r)
        BY <1>5, <2>3, <3>2, StoredRow, StoredIsUnseen
      <3> QED
        BY <1>5, <2>3, <3>1, <3>2, StepMovesSlot DEF SlotMoves
    <2> QED
      BY <1>5, <2>2, <2>3 DEF CallSeen
  <1>6. CASE HandleReply(i) \/ Quarantine(i)
    <2>1. call'[i] = None
      BY <1>6 DEF HandleReply, Quarantine, IInv, TypeOK
    <2> QED
      BY <1>3, <2>1
  <1>7. CASE call[i] = None /\ call'[i] = call[i]
    BY <1>3, <1>7
  <1>8. ASSUME LoseReply(i) \/ BrainAnswer(i), call'[i].row = call[i].row
        PROVE  CallSeen(i)'
    <2>1. call[i] # None
      BY <1>8 DEF LoseReply, BrainAnswer
    <2> QED
      BY <1>5, <1>6, <1>8, <2>1
  <1>9. CASE call'[i] = call[i]
    BY <1>5, <1>6, <1>7, <1>9
  <1>10. (\E kind, live :
            call'[i] = [row |-> call[i].row, reply |-> [kind |-> kind, live |-> live]])
         => call'[i].row = call[i].row
    OBVIOUS
  <1>11. CASE LoseReply(i) /\ call'[i] = [row |-> call[i].row, reply |-> None]
    BY <1>8, <1>11
  <1> QED
    BY <1>3, <1>4, <1>8, <1>9, <1>10, <1>11, StepMovesCall DEF CallMoves

LEMMA AnswersName ==
    ASSUME IInv, [Next]_vars, NEW i \in Schedule, AnswerNames(i)
    PROVE  AnswerNames(i)'
  <1>1. /\ call \in [Schedule -> Call \cup {None}] /\ LogTypeOK /\ Now \in Nat /\ CallOK(i)'
    BY NextIInv DEF IInv, TypeOK, LogTypeOK, Now
  <1>2. CASE call'[i] = call[i]
    <2>1. SUFFICES ASSUME call[i] # None, call[i].reply # None
                   PROVE  AnswerNames(i)'
      BY <1>2 DEF AnswerNames
    <2>2. call[i] \in Call /\ call[i].reply.live \in Nat
      BY <1>1, <2>1 DEF Call, Reply
    <2> QED
      BY <1>2, <2>1, <2>2, LogKept DEF AnswerNames
  <1>3. CASE BrainAnswer(i)
    <2>1. call[i] \in Call
      BY <1>1, <1>3 DEF BrainAnswer
    <2>2. ASSUME NEW kind, NEW live, Answer(i, kind, live)
          PROVE  call'[i].reply.kind = kind /\ call'[i].reply.live = live
      BY <1>1, <2>1, <2>2 DEF Answer, Call
    <2>3. ASSUME NEW live \in Nat, Answer(i, "accepted", live) PROVE AnswerNames(i)'
      <3>1. call'[i].reply.kind = "accepted" /\ call'[i].reply.live = live
        BY <2>2, <2>3
      <3> QED
        BY <1>1, <3>1 DEF AnswerNames, CallOK
    <2>4. ASSUME NEW r \in 1..Now, LiveRow(i, r, Now), Answer(i, "refused", r), UNCHANGED history
          PROVE  AnswerNames(i)'
      <3>1. r <= Now' /\ history'[r].id = i /\ r > 0
        BY <1>1, <2>4 DEF LiveRow, Now
      <3>2. call'[i].reply.live = r
        BY <2>2, <2>4
      <3> QED
        BY <3>1, <3>2 DEF AnswerNames
    <2>5. ASSUME DeletedBy(i, Now), Answer(i, "refused", 0), UNCHANGED history
          PROVE  AnswerNames(i)'
      <3>1. DeletedBy(i, Now)'
        BY <2>5, LogKept
      <3>2. call'[i].reply.live = 0
        BY <2>2, <2>5
      <3> QED
        BY <3>1, <3>2 DEF AnswerNames
    <2> QED
      BY <1>1, <1>3, <2>3, <2>4, <2>5 DEF BrainAnswer
  <1>4. CASE call'[i] = None
    BY <1>4 DEF AnswerNames
  <1>5. ASSUME NEW row, call'[i] = [row |-> row, reply |-> None] PROVE AnswerNames(i)'
    <2>1. call'[i].reply = None
      BY <1>5
    <2> QED
      BY <2>1 DEF AnswerNames
  <1> QED
    BY <1>2, <1>3, <1>4, <1>5, StepMovesCall DEF CallMoves

\* What each operation that a fire's end runs on a slot does to its stop.
LEMMA LatchStopEnds ==
    ASSUME NEW i, NEW s \in Slot, NEW token \in Token, NEW live \in Nat, StopEnds(i, s),
           live > 0 => live <= Now /\ history[live].id = i,
           ~(live > 0) => DeletedBy(i, Now)
    PROVE  StopEnds(i, LatchStop(s, token, live))
  <1> DEFINE on == Present(s) /\ s.entry.token = token /\ ~Superseded(s.entry.rev, live)
             t == LatchStop(s, token, live)
  <1>1. CASE ~on
    BY <1>1 DEF LatchStop
  <1>2. CASE on
    <2>1. s.entry \in Row /\ s.entry.rev \in Nat
      BY <1>2 DEF Slot, Present, Row
    <2>2. /\ Disabled(s.entry).rev = s.entry.rev /\ Disabled(s.entry).token = token
          /\ Disabled(s.entry).enabled = FALSE /\ Disabled(s.entry) \in Row
      BY <1>2, <2>1 DEF Disabled, Row
    <2>3. t.entry = Disabled(s.entry) /\ t.stop.token = token /\ t.stop.refusedAt = live
      BY <1>2 DEF LatchStop, Slot
    <2>4. Present(t)
      BY <2>2, <2>3, LogAssumption DEF Present
    <2>5. live > 0 => s.entry.rev < live
      BY <1>2, <2>1 DEF Superseded
    <2>6. StopEnds(i, t)
      <3> HIDE DEF t
      <3> QED
        BY <2>2, <2>3, <2>4, <2>5 DEF StopEnds
    <2> QED
      BY <2>6
  <1> QED
    BY <1>1, <1>2

LEMMA QuarantineStopEnds ==
    ASSUME NEW i, NEW s \in Slot, NEW token \in Token, StopEnds(i, s)
    PROVE  StopEnds(i, QuarantineLocally(s, token))
  <1> DEFINE on == Present(s) /\ s.entry.token = token
             t == QuarantineLocally(s, token)
  <1>1. CASE ~on
    BY <1>1 DEF QuarantineLocally
  <1>2. CASE on
    <2>1. s.entry \in Row
      BY <1>2 DEF Slot, Present
    <2>2. /\ Disabled(s.entry).rev = s.entry.rev /\ Disabled(s.entry).token = s.entry.token
          /\ Disabled(s.entry).enabled = FALSE /\ Disabled(s.entry) \in Row
      BY <1>2, <2>1 DEF Disabled, Row
    <2>3. t.entry = Disabled(s.entry) /\ t.stop = s.stop
      BY <1>2 DEF QuarantineLocally, Slot
    <2>4. Present(t)
      BY <2>2, <2>3, LogAssumption DEF Present
    <2>6. StopEnds(i, t)
      <3> HIDE DEF t
      <3> QED
        BY <2>2, <2>3, <2>4 DEF StopEnds
    <2> QED
      BY <2>6
  <1> QED
    BY <1>1, <1>2

LEMMA TransitionStopEnds ==
    ASSUME NEW i, NEW s \in Slot, NEW e, NEW live, NEW cursor, StopEnds(i, s),
           TransitionApplies(s, e) => s.entry.enabled
    PROVE  StopEnds(i, CursorTransition(s, e, live, cursor))
  <1>1. CASE ~TransitionApplies(s, e)
    BY <1>1 DEF CursorTransition
  <1>2. CASE TransitionApplies(s, e)
    <2>1. s.stop = None
      BY <1>2 DEF StopEnds
    <2>2. CursorTransition(s, e, live, cursor).stop = s.stop
      BY <1>2 DEF CursorTransition, Slot
    <2> QED
      BY <2>1, <2>2 DEF StopEnds
  <1> QED
    BY <1>1, <1>2

\* The answer of a handled call: what it names, and the row it was planned from.
LEMMA HandledCall ==
    ASSUME IInv, NEW i \in Schedule, CallSeen(i), AnswerNames(i), HandleReply(i)
    PROVE  LET e == call[i].row
               live == call[i].reply.live
           IN  /\ call[i] \in Call /\ e \in Row /\ e.token \in Token /\ live \in Nat
               /\ live > 0 => live <= Now /\ history[live].id = i
               /\ ~(live > 0) => DeletedBy(i, Now)
               /\ TransitionApplies(cache[i], e) => cache[i].entry = e
               /\ e.enabled
  <1>1. call[i] # None /\ call[i].reply # None
    BY DEF HandleReply
  <1>2. call[i] \in Call
    BY <1>1 DEF IInv, TypeOK
  <1>3. call[i].row \in Row /\ call[i].row.token \in Token /\ call[i].reply.live \in Nat
    BY <1>1, <1>2 DEF Call, Row, Reply
  <1> QED
    BY <1>1, <1>2, <1>3 DEF CallSeen, AnswerNames, TransitionApplies

LEMMA StopsKeepTheirEnd ==
    ASSUME IInv, [Next]_vars, NEW i \in Schedule,
           CallSeen(i), AnswerNames(i), StopEnds(i, cache[i])
    PROVE  StopEnds(i, cache[i])'
  <1>1. cache[i] \in Slot /\ cache'[i] \in Slot /\ Now \in Nat
    BY NextIInv DEF IInv, TypeOK, LogTypeOK, Now
  <1>2. StopEnds(i, cache'[i]) => StopEnds(i, cache[i])'
    <2>1. cache'[i].stop # None => cache'[i].stop.refusedAt \in Nat
      BY <1>1 DEF Slot, Stop
    <2> QED
      BY <1>1, <2>1, LogKept DEF StopEnds, Present
  <1>3. ASSUME NEW r \in 1..Now, Stores(i, r) PROVE StopEnds(i, cache'[i])
    <2>1. SUFFICES ASSUME cache'[i].stop # None PROVE StopEnds(i, cache'[i])
      BY DEF StopEnds
    <2>2. /\ cache[i].stop # None /\ Stopped(cache[i], RowAt(r))
          /\ cache'[i].stop.token = cache[i].stop.token
          /\ cache'[i].stop.refusedAt = cache[i].stop.refusedAt
          /\ Present(cache'[i]) /\ ~cache'[i].entry.enabled
          /\ cache'[i].entry.rev = r /\ cache'[i].entry.token = RowAt(r).token /\ RowAt(r).rev = r
      BY <1>3, <2>1, StoredRow
    <2>3. cache[i].stop.refusedAt \in Nat
      BY <1>1, <2>2 DEF Slot, Stop
    <2>4. cache[i].stop.token = RowAt(r).token
          /\ (cache[i].stop.refusedAt > 0 => r < cache[i].stop.refusedAt)
      BY <1>1, <2>2, <2>3 DEF Stopped, Superseded
    <2> QED
      BY <2>2, <2>3, <2>4 DEF StopEnds
  <1>4. ASSUME HandleReply(i), cache'[i] \in AfterReply(cache[i], call[i].row, call[i].reply)
        PROVE  StopEnds(i, cache'[i])
    <2> DEFINE e == call[i].row
               live == call[i].reply.live
    <2>1. /\ e.token \in Token /\ live \in Nat
          /\ live > 0 => live <= Now /\ history[live].id = i
          /\ ~(live > 0) => DeletedBy(i, Now)
          /\ TransitionApplies(cache[i], e) => cache[i].entry.enabled
      BY <1>4, HandledCall
    <2>2. StopEnds(i, LatchStop(cache[i], e.token, live))
      BY <1>1, <2>1, LatchStopEnds
    <2>3. StopEnds(i, CursorTransition(cache[i], e, live, history[live].cursor))
      BY <1>1, <2>1, TransitionStopEnds
    <2> QED
      BY <1>4, <2>2, <2>3 DEF AfterReply
  <1>5. ASSUME Quarantine(i), cache'[i] = QuarantineLocally(cache[i], call[i].row.token)
        PROVE  StopEnds(i, cache'[i])
    <2>1. call[i] \in Call /\ call[i].row.token \in Token
      BY <1>5 DEF Quarantine, IInv, TypeOK, Call, Row
    <2> QED
      BY <1>1, <1>5, <2>1, QuarantineStopEnds
  <1>6. cache'[i].stop = None => StopEnds(i, cache'[i])
    BY DEF StopEnds
  <1> QED
    BY <1>2, <1>3, <1>4, <1>5, <1>6, StepMovesSlot DEF SlotMoves

\* What each operation that a fire's end runs on a slot does to its payload.
LEMMA DisabledKeepsPayload ==
    ASSUME NEW s \in Slot, NEW token \in Token, NEW live, PayloadOK(s)
    PROVE  PayloadOK(LatchStop(s, token, live)) /\ PayloadOK(QuarantineLocally(s, token))
  <1> DEFINE t == LatchStop(s, token, live)
             u == QuarantineLocally(s, token)
  <1>1. t.payload = s.payload /\ t.known = s.known /\ (Present(t) => Present(s))
    BY DEF LatchStop, Slot, Present
  <1>2. u.payload = s.payload /\ u.known = s.known /\ (Present(u) => Present(s))
    BY DEF QuarantineLocally, Slot, Present
  <1>3. PayloadOK(t)
    <2> HIDE DEF t
    <2> QED
      BY <1>1 DEF PayloadOK
  <1>4. PayloadOK(u)
    <2> HIDE DEF u
    <2> QED
      BY <1>2 DEF PayloadOK
  <1> QED
    BY <1>3, <1>4

LEMMA TransitionPayload ==
    ASSUME LogTypeOK, NEW s \in Slot, NEW e, NEW live \in 1..Now, PayloadOK(s),
           TransitionApplies(s, e) => s.entry.enabled /\ history[live].enabled,
           history[live].token = e.token
    PROVE  PayloadOK(CursorTransition(s, e, live, history[live].cursor))
  <1>1. CASE ~TransitionApplies(s, e)
    BY <1>1 DEF CursorTransition
  <1>2. CASE TransitionApplies(s, e)
    <2> DEFINE row == [s.entry EXCEPT !.rev = live, !.cursor = history[live].cursor]
               t == CursorTransition(s, e, live, history[live].cursor)
    <2>1. s.entry \in Row /\ s.entry.enabled = TRUE /\ s.entry.token = history[live].token
      BY <1>2 DEF TransitionApplies, Present, Slot, Row
    <2>2. history[live].enabled = TRUE
      <3>1. history[live] \in Event
        BY DEF LogTypeOK, Now
      <3> QED
        BY <1>2, <3>1 DEF Event
    <2>3. /\ row \in Row /\ row.rev = live /\ row.cursor = history[live].cursor
          /\ row.token = s.entry.token /\ row.enabled = s.entry.enabled
      <3>1. live \in Nat \ {0} /\ history[live].cursor \in Nat
        BY RowAtIsRow DEF Event, LogTypeOK, Now
      <3>2. s.entry \in Row
        BY <2>1
      <3> QED
        BY <3>1, <3>2 DEF Row
    <2>4. row = RowAt(live)
      <3>1. RowAt(live) \in Row
        BY RowAtIsRow
      <3>2. /\ RowAt(live).rev = row.rev /\ RowAt(live).cursor = row.cursor
            /\ RowAt(live).token = row.token /\ RowAt(live).enabled = row.enabled
        BY <2>1, <2>2, <2>3 DEF RowAt
      <3>3. ASSUME NEW f \in Row, NEW g \in Row,
                   f.rev = g.rev, f.token = g.token, f.enabled = g.enabled, f.cursor = g.cursor
            PROVE  f = g
        BY <3>3 DEF Row
      <3> QED
        BY <2>3, <3>1, <3>2, <3>3
    <2>5. t.known = live /\ t.payload = row
      BY <1>2 DEF CursorTransition, Slot
    <2>6. t.payload = RowAt(t.known)
      BY <2>4, <2>5
    <2> QED
      BY <2>6 DEF PayloadOK
  <1> QED
    BY <1>1, <1>2

LEMMA PayloadsStayTheBrains ==
    ASSUME IInv, [Next]_vars, NEW i \in Schedule, ~ReplayAfterHold,
           CallSeen(i), AnswerNames(i), PayloadOK(cache[i])
    PROVE  PayloadOK(cache[i])'
  <1>1. /\ cache[i] \in Slot /\ cache'[i] \in Slot /\ Now \in Nat /\ LogTypeOK
        /\ CallOK(i)
    BY NextIInv DEF IInv, TypeOK, LogTypeOK, Now
  <1>2. ASSUME UNCHANGED history, PayloadOK(cache'[i]) PROVE PayloadOK(cache[i])'
    BY <1>2 DEF PayloadOK, RowAt, Present
  <1>3. CASE cache'[i] = cache[i]
    <2>1. Present(cache[i]) => cache[i].known \in 1..Now
      BY <1>1, NextIInv DEF IInv, SlotOK, Fits, Slot
    <2> QED
      BY <1>3, <2>1, LogKept DEF PayloadOK, Present
  <1>4. ASSUME NEW r \in 1..Now, Stores(i, r) PROVE PayloadOK(cache[i])'
    <2>1. cache'[i].known = r /\ cache'[i].payload = RowAt(r)
      BY <1>4, StoredRow
    <2> QED
      BY <2>1, LogKept DEF PayloadOK
  <1>5. ASSUME HandleReply(i), cache'[i] \in AfterReply(cache[i], call[i].row, call[i].reply)
        PROVE  PayloadOK(cache[i])'
    <2> DEFINE e == call[i].row
               live == call[i].reply.live
    <2>1. /\ call[i] \in Call /\ e.token \in Token
          /\ TransitionApplies(cache[i], e) => cache[i].entry.enabled
          /\ call[i].reply \in Reply
      BY <1>5, HandledCall DEF HandleReply, Call
    <2>2. call[i].reply.kind \in {"accepted", "refused"}
      BY <2>1 DEF Reply
    <2>3. PayloadOK(LatchStop(cache[i], e.token, live))
      BY <1>1, <2>1, DisabledKeepsPayload
    <2>4. ASSUME call[i].reply.kind = "accepted", history[live].token = e.token
          PROVE  PayloadOK(CursorTransition(cache[i], e, live, history[live].cursor))
      <3>1. live \in 1..Now /\ history[live].enabled
        BY <1>1, <1>5, <2>4 DEF CallOK, HandleReply
      <3> QED
        BY <1>1, <2>1, <2>4, <3>1, TransitionPayload
    <2>5. PayloadOK(cache'[i])
      BY <1>5, <2>2, <2>3, <2>4 DEF AfterReply
    <2> QED
      BY <1>2, <1>5, <2>5 DEF HandleReply
  <1>6. ASSUME Quarantine(i), cache'[i] = QuarantineLocally(cache[i], call[i].row.token)
        PROVE  PayloadOK(cache[i])'
    <2>1. call[i] \in Call /\ call[i].row.token \in Token
      BY <1>6 DEF Quarantine, IInv, TypeOK, Call, Row
    <2> QED
      BY <1>1, <1>2, <1>6, <2>1, DisabledKeepsPayload DEF Quarantine
  <1>7. ~Present(cache'[i]) => PayloadOK(cache[i])'
    BY DEF PayloadOK, Present
  <1> QED
    BY <1>3, <1>4, <1>5, <1>6, <1>7, StepMovesSlot DEF SlotMoves

\* Nothing that is delivered contradicts a slot whose payload is the Brain's.
LEMMA NothingConflicts ==
    ASSUME IInv, NEW i \in Schedule, PayloadOK(cache[i]), NEW r \in 1..Now
    PROVE  /\ history[r].id = i /\ history[r].live =>
                 /\ ~RowConflicts(cache[i], RowAt(r), watermark)
                 /\ ~(r = cache[i].known /\ cache[i].payload # RowAt(r))
           /\ history[r].id = i /\ ~history[r].live => ~TombstoneConflicts(cache[i], r, watermark)
           /\ DeletedBy(i, r) => ~AbsenceConflicts(cache[i], r)
  <1>1. /\ LogTypeOK /\ LogOK /\ Now \in Nat /\ cache[i].known \in Nat
        /\ Fits(i, cache[i], watermark) /\ RowAt(r).rev = r
    BY DEF IInv, TypeOK, LogTypeOK, Now, Slot, SlotOK, RowAt
  <1>2. ASSUME history[r].id = i, history[r].live, r = cache[i].known
        PROVE  Present(cache[i])
    BY <1>1, <1>2 DEF Fits, DeletedBy, LogOK
  <1>3. history[r].id = i /\ history[r].live =>
           ~(r = cache[i].known /\ cache[i].payload # RowAt(r))
    BY <1>2 DEF PayloadOK
  <1>4. history[r].id = i /\ history[r].live => ~RowConflicts(cache[i], RowAt(r), watermark)
    BY <1>1, <1>3 DEF RowConflicts, RowRepeats, Fits
  <1>5. history[r].id = i /\ ~history[r].live => ~TombstoneConflicts(cache[i], r, watermark)
    BY <1>1 DEF TombstoneConflicts, Fits
  <1>6. DeletedBy(i, r) => ~AbsenceConflicts(cache[i], r)
    BY <1>1 DEF AbsenceConflicts, DeletedBy, Fits, LogOK
  <1> QED
    BY <1>3, <1>4, <1>5, <1>6

LEMMA NothingRaises ==
    ASSUME IInv, [Next]_vars, \A i \in Schedule : PayloadOK(cache[i])
    PROVE  raised' = raised
  <1>1. LogTypeOK /\ Now \in Nat /\ watermark \in Nat /\ \A r \in 1..Now : history[r].id \in Schedule
    <2>1. LogTypeOK /\ Now \in Nat /\ watermark \in Nat /\ \A r \in 1..Now : history[r] \in Event
      BY DEF IInv, TypeOK, LogTypeOK, Now
    <2> QED
      BY <2>1 DEF Event
  <1>2. ASSUME NEW r \in 1..Now, DeliverRow(r) PROVE raised' = raised
    BY <1>1, <1>2, NothingConflicts DEF DeliverRow
  <1>3. ASSUME NEW r \in 1..Now, DeliverTombstone(r) PROVE raised' = raised
    BY <1>1, <1>3, NothingConflicts DEF DeliverTombstone
  <1>4. ASSUME NEW w \in 1..Now, DeliverSnapshot(w) PROVE raised' = raised
    <2>1. SUFFICES ~SnapshotConflicts(w)
      BY <1>4 DEF DeliverSnapshot
    <2>2. ASSUME NEW r \in SnapshotRows(w)
          PROVE  LET s == cache[history[r].id] IN ~(r = s.known /\ s.payload # RowAt(r))
      <3>1. r \in 1..Now /\ history[r].live
        BY <1>1, <1>4, <2>2 DEF SnapshotRows
      <3> QED
        BY <1>1, <3>1, NothingConflicts
    <2> QED
      BY <2>2 DEF SnapshotConflicts
  <1>5. ASSUME NEW j \in Schedule, NEW w \in 1..Now, DeliverAbsence(j, w) PROVE raised' = raised
    BY <1>5, NothingConflicts DEF DeliverAbsence
  <1>6. CASE Deliver
    BY <1>2, <1>3, <1>4, <1>5, <1>6 DEF Deliver
  <1>7. CASE Brain \/ Engine \/ UNCHANGED vars
    BY <1>7 DEF Brain, Engine, Submit, BrainAnswer, LoseReply, GiveUp, HandleReply, Quarantine,
       vars, cacheVars
  <1> QED
    BY <1>6, <1>7 DEF Next

LEMMA InitStop == Init => StopIInv
  <1>1. ASSUME Init, NEW i \in Schedule
        PROVE  CallSeen(i) /\ AnswerNames(i) /\ StopEnds(i, cache[i]) /\ PayloadOK(cache[i])
    <2>1. cache[i] = EmptySlot /\ call[i] = None
      BY <1>1 DEF Init
    <2> QED
      BY <2>1, EmptiedSlot DEF CallSeen, AnswerNames, StopEnds, PayloadOK
  <1> QED
    BY <1>1, InitIInv DEF StopIInv, Init

LEMMA NextStop ==
    ASSUME StopIInv, [Next]_vars
    PROVE  StopIInv'
  <1>1. IInv /\ IInv'
    BY NextIInv DEF StopIInv
  <1>2. ASSUME NEW i \in Schedule
        PROVE  CallSeen(i)' /\ AnswerNames(i)' /\ StopEnds(i, cache[i])'
    BY <1>1, CallsStaySeen, AnswersName, StopsKeepTheirEnd DEF StopIInv
  <1>3. ASSUME ~ReplayAfterHold
        PROVE  ~raised' /\ \A i \in Schedule : PayloadOK(cache[i])'
    BY <1>1, <1>3, PayloadsStayTheBrains, NothingRaises DEF StopIInv
  <1> QED
    BY <1>1, <1>2, <1>3 DEF StopIInv

LEMMA StopInvariant == Spec => []StopIInv
  BY InitStop, NextStop, PTL DEF Spec

\* A schedule that a refused fire has stopped is not dark for ever: its stop is
\* held on the disabled row it was latched for, below the event that refused, and
\* the Brain has that event, or the schedule's tombstone, for the next delivery.
THEOREM StopsCanEnd == Spec => []StopCanEnd
  <1>1. StopIInv => StopCanEnd
    BY DEF StopIInv, StopEnds, StopCanEnd
  <1> QED
    BY <1>1, StopInvariant, PTL

\* If the Brain does not replay an acceptance of a row it holds, the payload kept
\* of every row is the Brain's, so that no frame, snapshot or answer, however late,
\* is taken for a reused revision: no ScheduleProtocolError is raised.
THEOREM NobodyIsAccused ==
    ASSUME ~ReplayAfterHold
    PROVE  Spec => []NoSpuriousProtocolError
  <1>1. StopIInv => NoSpuriousProtocolError
    BY DEF StopIInv, NoSpuriousProtocolError
  <1> QED
    BY <1>1, StopInvariant, PTL

-----------------------------------------------------------------------------
(* The cache implements the mirror.                                        *)

\* A schedule deleted at a revision is deleted at every later one.
LEMMA DeletedStays ==
    ASSUME NEW i, NEW v \in Nat, NEW w \in Nat, v <= w, DeletedBy(i, v)
    PROVE  DeletedBy(i, w)
  BY DEF DeletedBy

\* What is known of a schedule is of committed revisions.
LEMMA EvidenceBound ==
    ASSUME IInv, NEW i \in Schedule
    PROVE  Evidence(i) \in 0..Now /\ cache[i].known <= Evidence(i) /\ watermark <= Evidence(i)
  BY DEF IInv, TypeOK, LogTypeOK, Now, SlotOK, Fits, Slot, Evidence

\* What the engine sees of a schedule.
LEMMA SeenFacts ==
    ASSUME IInv, NEW i \in Schedule
    PROVE  /\ Seen[i] \in {0} \cup 1..Now
           /\ Present(cache[i]) => Seen[i] = cache[i].known /\ Seen[i] \in 1..Now
           /\ ~Present(cache[i]) => Seen[i] = 0
           /\ Seen[i] # 0 => history[Seen[i]].id = i /\ history[Seen[i]].live
  BY DEF IInv, TypeOK, LogTypeOK, Now, SlotOK, Fits, Slot, Seen

\* The same of the next state; and a cached schedule is not known to be gone.
LEMMA NextStateFacts ==
    ASSUME IInv', NEW i \in Schedule
    PROVE  /\ Evidence(i)' \in 0..Now' /\ cache'[i].known <= Evidence(i)' /\ watermark' <= Evidence(i)'
           /\ Seen'[i] \in {0} \cup 1..Now'
           /\ Present(cache'[i]) => Seen'[i] = cache'[i].known /\ Seen'[i] \in 1..Now'
           /\ ~Present(cache'[i]) => Seen'[i] = 0
           /\ Seen'[i] # 0 => history'[Seen'[i]].id = i /\ history'[Seen'[i]].live
           /\ Present(cache'[i]) => ~DeletedBy(i, Evidence(i))'
  <1> DEFINE s == cache'[i]
  <1>1. /\ s.known \in 0..Now' /\ watermark' \in Nat /\ Now' \in Nat /\ watermark' <= Now'
        /\ Present(s) => /\ s.known \in 1..Now' /\ s.entry.rev = s.known
                         /\ history'[s.known].id = i /\ history'[s.known].live
                         /\ \A d \in 1..Now' : history'[d].id = i /\ ~history'[d].live => d > watermark'
    BY DEF IInv, TypeOK, LogTypeOK, Now, SlotOK, Fits, Slot, Present
  <1>2. Evidence(i)' = IF s.known >= watermark' THEN s.known ELSE watermark'
    BY DEF Evidence
  <1>3. Seen'[i] = IF Present(s) THEN s.entry.rev ELSE 0
    BY DEF Seen, Present
  <1>4. Present(s) => ~DeletedBy(i, Evidence(i))'
    <2>1. SUFFICES ASSUME Present(s), NEW d \in 1..Evidence(i)', history'[d].id = i, ~history'[d].live
                   PROVE  FALSE
      BY DEF DeletedBy
    <2>2. d \in 1..Now' /\ d > watermark' /\ d <= s.known
      BY <1>1, <1>2, <2>1
    <2> QED
      BY <1>1, <2>1, <2>2 DEF IInv, LogOK
  <1> QED
    BY <1>1, <1>2, <1>3, <1>4

\* The log grows: what is seen, and known to be gone, stays.
LEMMA GrowthIsMirrored ==
    ASSUME IInv, IInv', NEW e \in Event, Grows(e), UNCHANGED <<cache, watermark>>
    PROVE  Mirror!LogGrows
  <1>1. /\ LogTypeOK /\ Now \in Nat /\ Now' = Now + 1 /\ history'[Now + 1] = e
        /\ \A r \in 1..Now : history'[r] = history[r]
    BY Growth DEF IInv, TypeOK, LogTypeOK, Now
  <1>2. Len(history') = Len(history) + 1 /\ SubSeq(history', 1, Len(history)) = history
    BY DEF IInv, TypeOK, LogTypeOK, Grows
  <1>3. Seen' = Seen
    BY DEF Seen
  <1>4. \A i \in Schedule : DeletedBy(i, Evidence(i))' <=> DeletedBy(i, Evidence(i))
    <2>1. SUFFICES ASSUME NEW i \in Schedule
                   PROVE  DeletedBy(i, Evidence(i))' <=> DeletedBy(i, Evidence(i))
      OBVIOUS
    <2>2. Evidence(i)' = Evidence(i) /\ Evidence(i) \in 0..Now
      BY EvidenceBound DEF Evidence
    <2> QED
      BY <1>1, <2>2 DEF DeletedBy
  <1>5. KnownGone' = KnownGone
    BY <1>4 DEF KnownGone
  <1> QED
    BY <1>1, <1>2, <1>3, <1>5 DEF Mirror!LogGrows, Mirror!Now, Mirror!Event, Now, Event

\* The cache moves: every schedule is followed.
LEMMA MoveIsMirrored ==
    ASSUME IInv, IInv', Onwards, UNCHANGED history
    PROVE  Mirror!Follow(KnownGone')
  <1>1. Now' = Now /\ Now \in Nat /\ \A i, w : DeletedBy(i, w)' <=> DeletedBy(i, w)
    BY DEF IInv, TypeOK, LogTypeOK, Now, DeletedBy
  <1>2. ASSUME NEW i \in Schedule
        PROVE  /\ i \in KnownGone => i \in KnownGone'
               /\ i \in KnownGone' => DeletedBy(i, Now) /\ Seen'[i] = 0
               /\ i \notin KnownGone' =>
                     Seen'[i] = Seen[i] \/ (/\ Seen'[i] \in Seen[i] + 1..Now
                                            /\ history[Seen'[i]].id = i /\ history[Seen'[i]].live)
               /\ Seen'[i] \in {0} \cup 1..Now
    <2>1. /\ Evidence(i) \in 0..Now /\ cache[i].known <= Evidence(i) /\ watermark <= Evidence(i)
          /\ Evidence(i)' \in 0..Now /\ cache'[i].known <= Evidence(i)' /\ watermark' <= Evidence(i)'
          /\ cache[i].known \in Nat /\ cache'[i].known \in Nat
          /\ watermark \in Nat /\ watermark' \in Nat /\ watermark' >= watermark
      BY <1>1, EvidenceBound, NextStateFacts DEF IInv, TypeOK, Slot, Onwards
    <2>2. Follows(i, cache[i], cache'[i], watermark')
      BY DEF Onwards
    <2>3. Evidence(i)' >= Evidence(i)
      BY <2>1, <2>2 DEF Follows, Evidence
    <2>4. i \in KnownGone <=> DeletedBy(i, Evidence(i))
      BY DEF KnownGone
    <2>5. i \in KnownGone' <=> DeletedBy(i, Evidence(i)')
      BY <1>1 DEF KnownGone
    <2>6. i \in KnownGone => i \in KnownGone'
      BY <2>1, <2>3, <2>4, <2>5, DeletedStays
    <2>7. /\ Seen'[i] \in {0} \cup 1..Now
          /\ Present(cache'[i]) => Seen'[i] = cache'[i].known /\ Seen'[i] \in 1..Now
          /\ ~Present(cache'[i]) => Seen'[i] = 0
          /\ Seen'[i] # 0 => history[Seen'[i]].id = i /\ history[Seen'[i]].live
      BY <1>1, NextStateFacts
    <2>8. /\ Present(cache[i]) => Seen[i] = cache[i].known /\ Seen[i] \in 1..Now
          /\ ~Present(cache[i]) => Seen[i] = 0
      BY SeenFacts
    <2>9. i \in KnownGone' => DeletedBy(i, Now) /\ Seen'[i] = 0
      <3>1. Present(cache'[i]) => ~DeletedBy(i, Evidence(i)')
        BY <1>1, NextStateFacts DEF DeletedBy
      <3> QED
        BY <1>1, <2>1, <2>5, <2>7, <3>1, DeletedStays
    <2>10. Present(cache[i]) /\ ~Present(cache'[i]) => i \in KnownGone'
      <3>1. SUFFICES ASSUME Present(cache[i]), ~Present(cache'[i]) PROVE DeletedBy(i, Evidence(i)')
        BY <2>5
      <3>2. CASE cache'[i].known >= cache[i].known
        <4>1. cache'[i].known > 0
          BY <2>1, <2>8, <3>1, <3>2
        <4>2. DeletedBy(i, cache'[i].known)
          BY <1>1, <3>1, <4>1 DEF IInv, SlotOK, Fits, Present
        <4> QED
          BY <2>1, <4>2, DeletedStays
      <3>3. CASE DeletedBy(i, watermark')
        BY <2>1, <3>3, DeletedStays
      <3> QED
        BY <2>2, <3>1, <3>2, <3>3 DEF Follows
    <2>11. Present(cache[i]) /\ Present(cache'[i]) => cache'[i].known >= cache[i].known
      BY <2>2 DEF Follows
    <2>12. i \notin KnownGone' =>
               Seen'[i] = Seen[i] \/ (/\ Seen'[i] \in Seen[i] + 1..Now
                                      /\ history[Seen'[i]].id = i /\ history[Seen'[i]].live)
      BY <1>1, <2>1, <2>7, <2>8, <2>10, <2>11
    <2> QED
      BY <2>6, <2>7, <2>9, <2>12
  <1>3. KnownGone' = KnownGone \cup KnownGone' /\ \A i \in KnownGone' : i \in Schedule /\ DeletedBy(i, Now)
    BY <1>2 DEF KnownGone
  <1>4. Seen' \in [Schedule -> {0} \cup 1..Now]
    BY <1>2 DEF Seen
  <1>5. \A i \in Schedule :
            IF i \in KnownGone' THEN Seen'[i] = 0
            ELSE Seen'[i] \in {Seen[i]} \cup {r \in Seen[i] + 1..Now : history[r].id = i /\ history[r].live}
    BY <1>2
  <1> QED
    BY <1>3, <1>4, <1>5
       DEF Mirror!Follow, Mirror!Later, Mirror!DeletedBy, Mirror!Now, DeletedBy, Now

LEMMA StepIsMirrored ==
    ASSUME IInv, [Next]_vars
    PROVE  [Mirror!MirrorNext]_(Mirror!mirrorVars)
  <1>1. IInv' /\ Onwards
    BY NextIInv, StepFollows
  <1>2. CASE UNCHANGED history
    <2>1. Mirror!Follow(KnownGone')
      BY <1>1, <1>2, MoveIsMirrored
    <2>2. KnownGone' \in SUBSET Schedule
      BY DEF KnownGone
    <2> QED
      BY <2>1, <2>2 DEF Mirror!MirrorNext
  <1>3. CASE UNCHANGED <<cache, watermark>> /\ \E e \in Event : Grows(e)
    BY <1>1, <1>3, GrowthIsMirrored DEF Mirror!MirrorNext
  <1> QED
    BY <1>2, <1>3, LogStep

LEMMA InitIsMirrored == Init => Mirror!MirrorInit
  <1> SUFFICES ASSUME Init PROVE Mirror!MirrorInit
    OBVIOUS
  <1>1. \A i \in Schedule : ~Present(cache[i]) /\ cache[i].known = 0
    BY DEF Init, Present, EmptySlot
  <1>2. Seen = [i \in Schedule |-> 0]
    BY <1>1 DEF Seen
  <1>3. KnownGone = {}
    BY <1>1 DEF KnownGone, DeletedBy, Evidence, Init
  <1> QED
    BY <1>2, <1>3 DEF Mirror!MirrorInit, Init, LogInit

\* ScheduleCache implements ScheduleMirror: every operation, whatever arrives and when,
\* shows the tick engine a committed revision, moves on, and drops only what was deleted.
THEOREM CacheImplementsMirror == Spec => ImplementsMirror
  <1>1. Init => Mirror!MirrorInit
    BY InitIsMirrored
  <1>2. IInv /\ [Next]_vars => [Mirror!MirrorNext]_(Mirror!mirrorVars)
    BY StepIsMirrored
  <1> QED
    BY <1>1, <1>2, InductiveInvariant, PTL DEF Spec, ImplementsMirror, Mirror!MirrorSpec

-----------------------------------------------------------------------------
(* Pauses.                                                                 *)

\* The deletes of project p that count as pressure.
Stones(p, c, w) == {i \in Schedule : ProjectOf[i] = p /\ ~Present(c[i]) /\ c[i].known > w}

\* They are named by the log, so there are finitely many, however many schedules.
FewStones ==
    \A p \in Project : /\ IsFiniteSet(Stones(p, cache, watermark))
                       /\ Cardinality(Stones(p, cache, watermark)) \in Nat

LEMMA StonesAreFew == IInv => FewStones
  <1> SUFFICES ASSUME IInv, NEW p \in Project
               PROVE  /\ IsFiniteSet(Stones(p, cache, watermark))
                      /\ Cardinality(Stones(p, cache, watermark)) \in Nat
    BY DEF FewStones
  <1> DEFINE Named == {history[r].id : r \in 1..Now}
             f == [r \in 1..Now |-> history[r].id]
  <1>1. Now \in Nat /\ IsFiniteSet(1..Now)
    BY FS_Interval DEF IInv, TypeOK, LogTypeOK, Now
  <1>2. f \in [1..Now -> Named] /\ \A n \in Named : \E r \in 1..Now : f[r] = n
    OBVIOUS
  <1>3. f \in Surjection(1..Now, Named)
    <2> HIDE DEF f, Named
    <2> QED
      BY <1>2, Fun_IsSurj
  <1>4. IsFiniteSet(Named)
    <2> HIDE DEF f, Named
    <2> QED
      BY <1>1, <1>3, FS_Surjection
  <1>5. Stones(p, cache, watermark) \in SUBSET Named
    <2>1. ASSUME NEW i \in Stones(p, cache, watermark) PROVE i \in Named
      <3>1. i \in Schedule /\ ~Present(cache[i]) /\ cache[i].known > watermark
        BY DEF Stones
      <3>2. cache[i].known \in Nat /\ watermark \in Nat /\ cache[i].known <= Now
        BY <3>1 DEF IInv, TypeOK, Slot, SlotOK, Fits
      <3>3. DeletedBy(i, cache[i].known)
        BY <3>1, <3>2 DEF IInv, SlotOK, Fits
      <3> QED
        BY <1>1, <3>2, <3>3 DEF DeletedBy
    <2> QED
      BY <2>1
  <1> HIDE DEF Named
  <1> QED
    BY <1>4, <1>5, FS_Subset, FS_CardinalityType

\* What is known to be gone stays known, until a snapshot covers it.
LEMMA StonesStay ==
    ASSUME IInv, IInv', [Next]_vars, watermark' = watermark, NEW p
    PROVE  Stones(p, cache, watermark) \in SUBSET Stones(p, cache', watermark')
  <1> SUFFICES ASSUME NEW i \in Schedule, ~Present(cache[i]), cache[i].known > watermark
               PROVE  ~Present(cache'[i]) /\ cache'[i].known > watermark
    BY DEF Stones
  <1> DEFINE k == cache[i].known
             m == cache'[i].known
  <1>1. /\ k \in Nat /\ m \in Nat /\ watermark \in Nat /\ k <= Now /\ Now \in Nat /\ Now' \in Nat
        /\ m <= Now'
    BY DEF IInv, TypeOK, Slot, SlotOK, Fits, LogTypeOK, Now
  <1>2. m >= k
    BY <1>1, StepFollows DEF Onwards, Follows
  <1>3. PICK d \in 1..k : history[d].id = i /\ ~history[d].live
    BY <1>1 DEF IInv, SlotOK, Fits, DeletedBy
  <1>4. d \in 1..Now' /\ history'[d] = history[d]
    BY <1>1, <1>3, LogOnlyGrows
  <1>5. ASSUME Present(cache'[i]) PROVE FALSE
    <2>1. m \in 1..Now' /\ history'[m].id = i /\ history'[m].live
      BY <1>1, <1>5 DEF IInv, SlotOK, Fits
    <2>2. d <= m /\ d # m
      BY <1>1, <1>2, <1>3, <1>4, <2>1
    <2>3. d < m
      BY <1>1, <1>4, <2>1, <2>2
    <2>4. history'[d].live
      BY <1>3, <1>4, <2>1, <2>3 DEF IInv, LogOK
    <2> QED
      BY <1>3, <1>4, <2>4
  <1> QED
    BY <1>1, <1>2, <1>5

\* A step adds pauses for the pressure it leaves, and keeps one only with the watermark.
LEMMA PausesMove ==
    ASSUME IInv, [Next]_vars, NEW p \in paused'
    PROVE  \/ PressureOn(p, cache', watermark') >= TombstoneCap
           \/ p \in paused /\ watermark' = watermark
  <1>0. paused \in SUBSET Project
    BY DEF IInv, TypeOK
  <1>1. CASE UNCHANGED <<paused, watermark>>
    BY <1>1
  <1>2. ASSUME NEW r \in 1..Now, DeliverTombstone(r)
        PROVE  \/ PressureOn(p, cache', watermark') >= TombstoneCap
               \/ p \in paused /\ watermark' = watermark
    <2>1. watermark' = watermark
      BY <1>2 DEF DeliverTombstone
    <2>2. CASE p \in paused
      BY <2>1, <2>2
    <2>3. CASE p \notin paused
      <3>1. PressureOn(p, cache', watermark) >= TombstoneCap
        BY <1>2, <2>3 DEF DeliverTombstone
      <3> QED
        BY <2>1, <3>1
    <2> QED
      BY <2>2, <2>3
  <1>3. ASSUME NEW w \in 1..Now, DeliverSnapshot(w)
        PROVE  \/ PressureOn(p, cache', watermark') >= TombstoneCap
               \/ p \in paused /\ watermark' = watermark
    <2>1. CASE UNCHANGED <<cache, watermark, paused>>
      BY <2>1
    <2>2. CASE /\ watermark' = w
               /\ paused' = {q \in Project : PressureOn(q, cache', w) >= TombstoneCap}
      BY <2>2
    <2> QED
      BY <1>3, <2>1, <2>2 DEF DeliverSnapshot
  <1>4. CASE Brain
    BY <1>1, <1>4 DEF Brain, cacheVars
  <1>5. CASE Engine
    BY <1>1, <1>5 DEF Engine, Submit, BrainAnswer, LoseReply, GiveUp, HandleReply, Quarantine
  <1>6. CASE UNCHANGED vars
    BY <1>1, <1>6 DEF vars, cacheVars
  <1> QED
    BY <1>1, <1>2, <1>3, <1>4, <1>5, <1>6 DEF Next, Deliver, DeliverRow, DeliverAbsence

\* PausedOnlyUnderPressure of ScheduleCache: a project is paused only while the deletes
\* no snapshot has covered reach the cap, whatever is delivered (_snapshot_required_projects).
THEOREM PausesAreJustified == Spec => []PausedOnlyUnderPressure
  <1>1. Init => PausedOnlyUnderPressure
    BY DEF Init, PausedOnlyUnderPressure
  <1>2. /\ PausedOnlyUnderPressure /\ IInv /\ FewStones
        /\ IInv' /\ FewStones' /\ [Next]_vars
        => PausedOnlyUnderPressure'
    <2> SUFFICES ASSUME PausedOnlyUnderPressure, IInv, FewStones,
                        IInv', FewStones', [Next]_vars, NEW p \in paused'
                 PROVE  PressureOn(p, cache', watermark') >= TombstoneCap
      BY DEF PausedOnlyUnderPressure
    <2>1. CASE p \in paused /\ watermark' = watermark
      <3> DEFINE S == Stones(p, cache, watermark)
                 T == Stones(p, cache', watermark')
      <3>1. S \in SUBSET T
        BY <2>1, StonesStay
      <3>2. p \in Project
        BY <2>1 DEF IInv, TypeOK
      <3>3. IsFiniteSet(T) /\ Cardinality(T) \in Nat /\ Cardinality(S) \in Nat
        BY <3>2 DEF FewStones, Stones
      <3>4. Cardinality(S) >= TombstoneCap
        BY <2>1 DEF PausedOnlyUnderPressure, PressureOn, Stones
      <3> HIDE DEF S, T
      <3>5. Cardinality(S) <= Cardinality(T)
        BY <3>1, <3>3, FS_Subset
      <3>6. Cardinality(T) >= TombstoneCap
        BY <3>3, <3>4, <3>5, CacheAssumption
      <3> QED
        BY <3>6 DEF T, Stones, PressureOn
    <2> QED
      BY <2>1, PausesMove
  <1> QED
    BY <1>1, <1>2, StonesAreFew, InductiveInvariant, PTL DEF Spec
=============================================================================
