----------------------- MODULE CadenceMismatchProofs -----------------------
(***************************************************************************)
(* Proofs about CadenceMismatch, for any number of schedules and tokens,   *)
(* any length of the Brain's log and any number of runtime changes.        *)
(***************************************************************************)
EXTENDS CadenceMismatch, TLAPS

-----------------------------------------------------------------------------
(* The inductive invariant.                                                *)

\* What a slot may hold.  An enabled row is enabled at the Brain and not
\* quarantined here; a stop is held on a disabled row of its own token, and
\* remembers no more than that row may be given back.
Holds(s) ==
    /\ Present(s) =>
          /\ s.entry.rev \in 1..Now
          /\ s.entry.enabled => history[s.entry.rev].enabled /\ s.quarantine = None
    /\ s.stop # None =>
          /\ Present(s) /\ s.stop.token = s.entry.token /\ ~s.entry.enabled
          /\ s.stop.brainEnabled => history[s.entry.rev].enabled /\ s.quarantine = None

\* A stop that no revision ends is remembered under its token l.
Owed(i, s, l) ==
    s.stop # None /\ s.stop.refusedAt = 0 => l = s.stop.token \/ DeletedBy(i, Now)

\* No request of a stopped row is under way: the answer that stops it is the last
\* thing its fire cycle waits for.
Free(i) == worker[i].pc \in {"queued", "sent", "answered"} => cache[i].stop = None

\* What an answer on its way back says is so, and its grounds are still the trail.
AnswerOK(i) ==
    worker[i].pc = "answered" =>
        LET a == worker[i].answer
        IN  /\ a.kind = "accepted" => a.live \in 1..Now /\ history[a.live].enabled
            /\ a.kind = "stale" /\ a.live = 0 => DeletedBy(i, Now)
            /\ a.grounds = trail[i]

\* Whatever the engine remembers of a schedule's stop, a mismatch of it was held.
Trailed(i) == latched[i] # None \/ i \in renegotiated => trail[i] # None

FireOwed(i) == verdict[i] # None /\ verdict[i].kind = "fire" => verdict[i].grounds # None

IInv ==
    /\ TypeOK
    /\ \A i \in Schedule :
          /\ Holds(cache[i]) /\ Owed(i, cache[i], latched[i])
          /\ Free(i) /\ AnswerOK(i) /\ Trailed(i) /\ FireOwed(i)

-----------------------------------------------------------------------------
(* The log.                                                                *)

Grows(e) == history' = Append(history, e)

LEMMA Growth ==
    ASSUME LogTypeOK, NEW e \in Event, Grows(e)
    PROVE  LogTypeOK' /\ Now' = Now + 1 /\ history'[Now + 1] = e
           /\ \A r \in 1..Now : history'[r] = history[r]
  BY DEF LogTypeOK, Now, Grows

\* What is committed stays, in this order.
LogKept ==
    /\ LogTypeOK' /\ Now \in Nat /\ Now' \in Nat /\ Now' >= Now
    /\ \A r \in 1..Now : history'[r] = history[r]
    /\ \A i : DeletedBy(i, Now) => DeletedBy(i, Now)'

LEMMA GrowthKeepsLog ==
    ASSUME LogTypeOK, UNCHANGED history \/ \E e \in Event : Grows(e)
    PROVE  LogKept
  <1>1. Now \in Nat
    BY DEF LogTypeOK, Now
  <1>2. CASE UNCHANGED history
    BY <1>1, <1>2 DEF LogKept, LogTypeOK, Now, DeletedBy
  <1>3. CASE \E e \in Event : Grows(e)
    BY <1>1, <1>3, Growth DEF LogKept, DeletedBy
  <1> QED
    BY <1>2, <1>3

LEMMA EventAt ==
    ASSUME LogTypeOK, NEW r \in 1..Now
    PROVE  history[r] \in Event /\ RowAt(r) \in Row /\ RowAt(r).rev = r
  <1>1. history[r] \in Event
    BY DEF LogTypeOK, Now
  <1> QED
    BY <1>1 DEF RowAt, Row, Event, LogTypeOK, Now

LEMMA AcceptGrows ==
    ASSUME LogTypeOK, NEW r \in 1..Now, Accept(r)
    PROVE  \E e \in Event : Grows(e) /\ (history[r].enabled => e.enabled)
  <1> DEFINE e == [history[r] EXCEPT !.cursor = @ + 1]
  <1>1. history[r] \in Event
    BY EventAt
  <1>2. e \in Event /\ (history[r].enabled => e.enabled)
    BY <1>1 DEF Event
  <1>3. Grows(e)
    BY DEF Accept, Commit, Grows
  <1> QED
    BY <1>2, <1>3

LEMMA EnabledCommit ==
    ASSUME LogTypeOK, NEW r \in 1..Now, NEW b \in BOOLEAN,
           \/ Commit([history[r] EXCEPT !.enabled = b])
           \/ Commit([history[r] EXCEPT !.live = b])
    PROVE  \E e \in Event : Grows(e)
  <1>1. history[r] \in Event
    BY EventAt
  <1>2. [history[r] EXCEPT !.enabled = b] \in Event /\ [history[r] EXCEPT !.live = b] \in Event
    BY <1>1 DEF Event
  <1> QED
    BY <1>2 DEF Commit, Grows

LEMMA BrainCommits ==
    ASSUME LogTypeOK, BrainChanges
    PROVE  \E e \in Event : Grows(e)
  <1>1. PICK i \in Schedule :
            \/ \E t \in Token : BrainCreate(i, t) \/ BrainEdit(i, t)
            \/ BrainToggleHold(i) \/ BrainDelete(i) \/ BrainAcceptElsewhere(i)
    BY DEF BrainChanges
  <1>2. ASSUME NEW t \in Token, BrainCreate(i, t) PROVE \E e \in Event : Grows(e)
    <2>1. [id |-> i, live |-> TRUE, token |-> t, enabled |-> TRUE, cursor |-> 0] \in Event
      BY DEF Event
    <2> QED
      BY <1>2, <2>1 DEF BrainCreate, Commit, Grows
  <1>3. ASSUME NEW t \in Token, BrainEdit(i, t) PROVE \E e \in Event : Grows(e)
    <2>1. PICK r \in 1..Now : Commit([history[r] EXCEPT !.token = t])
      BY <1>3 DEF BrainEdit
    <2>2. [history[r] EXCEPT !.token = t] \in Event
      BY EventAt DEF Event
    <2> QED
      BY <2>1, <2>2 DEF Commit, Grows
  <1>4. ASSUME BrainToggleHold(i) PROVE \E e \in Event : Grows(e)
    <2>1. PICK r \in 1..Now : Commit([history[r] EXCEPT !.enabled = ~@])
      BY <1>4 DEF BrainToggleHold
    <2>2. (~history[r].enabled) \in BOOLEAN
      OBVIOUS
    <2> QED
      BY <2>1, <2>2, EnabledCommit
  <1>5. ASSUME BrainDelete(i) PROVE \E e \in Event : Grows(e)
    BY <1>5, EnabledCommit DEF BrainDelete
  <1>6. ASSUME BrainAcceptElsewhere(i) PROVE \E e \in Event : Grows(e)
    BY <1>6, AcceptGrows DEF BrainAcceptElsewhere
  <1> QED
    BY <1>1, <1>2, <1>3, <1>4, <1>5, <1>6

LEMMA AnswerCommits ==
    ASSUME LogTypeOK, NEW i \in Schedule, BrainDecides(i)
    PROVE  UNCHANGED history \/ \E e \in Event : Grows(e)
  <1>1. LiveRow(i, worker[i].row.rev, Now) => worker[i].row.rev \in 1..Now
    BY DEF LiveRow, IsNewest
  <1> QED
    BY <1>1, AcceptGrows DEF BrainDecides

LEMMA FlushCommits ==
    ASSUME LogTypeOK, NEW i \in Schedule, NEW t \in Token, Flush(i, t)
    PROVE  UNCHANGED history \/ \E e \in Event : Grows(e)
  BY EnabledCommit DEF Flush

LEMMA StepKeepsLog ==
    ASSUME LogTypeOK, [Next]_vars
    PROVE  LogKept
  <1>1. CASE BrainChanges
    BY <1>1, BrainCommits, GrowthKeepsLog
  <1>2. ASSUME NEW i \in Schedule, BrainDecides(i) PROVE LogKept
    BY <1>2, AnswerCommits, GrowthKeepsLog
  <1>3. ASSUME NEW i \in Schedule, NEW t \in Token, Flush(i, t) PROVE LogKept
    BY <1>3, FlushCommits, GrowthKeepsLog
  <1>4. CASE UNCHANGED history
    BY <1>4, GrowthKeepsLog
  <1> QED
    BY <1>1, <1>2, <1>3, <1>4 DEF Next, vars, RuntimeFlips, DeliverNext, StreamEnds, StreamAsks,
       StreamAgreed, StreamRefused, StreamOpens, StreamSyncs, Iterate, Send, Stand, Retry,
       HandleAccepted, HandleStale, HandleMismatch, Agreed, NotAgreed, Conclude

-----------------------------------------------------------------------------
(* The operations on a slot.                                               *)

\* Slot s of schedule i, of which the engine remembers the token l, is in order.
Good(i, s, l) == s \in Slot /\ Holds(s) /\ Owed(i, s, l)

\* Disabling a row leaves the rest of it alone.
LEMMA DisabledRow ==
    ASSUME NEW e \in Row
    PROVE  /\ Disabled(e) \in Row /\ Disabled(e) # None
           /\ Disabled(e).rev = e.rev /\ Disabled(e).token = e.token /\ Disabled(e).enabled = FALSE
  <1>1. /\ Disabled(e) \in Row
        /\ Disabled(e).rev = e.rev /\ Disabled(e).token = e.token /\ Disabled(e).enabled = FALSE
    BY DEF Disabled, Row
  <1> QED
    BY <1>1, LogAssumption

LEMMA GoneIsGood ==
    ASSUME NEW i, NEW l, NEW r \in Nat
    PROVE  /\ Good(i, EmptySlot, l) /\ EmptySlot.stop = None
           /\ Good(i, Removed(r), l) /\ Removed(r).stop = None
  <1>1. Removed(r) = [entry |-> None, known |-> r, payload |-> None,
                      stop |-> None, quarantine |-> None]
    BY DEF Removed, EmptySlot
  <1> QED
    BY <1>1 DEF Good, Holds, Owed, Slot, EmptySlot, Present

LEMMA StoreRowGood ==
    ASSUME LogTypeOK, NEW i, NEW s \in Slot, NEW l, Good(i, s, l), NEW r \in 1..Now
    PROVE  /\ Good(i, StoreRow(s, RowAt(r)), l)
           /\ s.stop = None => StoreRow(s, RowAt(r)).stop = None
  <1> DEFINE row == RowAt(r)
             offered == row.enabled /\ ~Quarantined(s, row)
             on == offered /\ ~Stopped(s, row)
             t == StoreRow(s, row)
  <1>1. row \in Row /\ row.rev = r /\ r \in Nat
    BY EventAt DEF LogTypeOK, Now
  <1>2. /\ offered \in BOOLEAN /\ on \in BOOLEAN
        /\ offered => history[r].enabled /\ ~Quarantined(s, row)
    BY <1>1 DEF Row, Quarantined, Stopped, Superseded, RowAt
  <1>3. ASSUME NEW b \in BOOLEAN
        PROVE  LET f == [row EXCEPT !.enabled = b]
               IN  f \in Row /\ f.rev = row.rev /\ f.token = row.token /\ f.enabled = b
    BY <1>1 DEF Row
  <1>4. ASSUME NEW b \in BOOLEAN, Stopped(s, row)
        PROVE  LET z == [s.stop EXCEPT !.brainEnabled = b]
               IN  /\ z \in Stop /\ z.token = s.stop.token /\ z.refusedAt = s.stop.refusedAt
                   /\ z.brainEnabled = b
    <2>1. s.stop \in Stop
      BY <1>4 DEF Stopped, Slot
    <2> QED
      BY <2>1 DEF Stop
  <1>5. (IF Quarantined(s, row) THEN s.quarantine ELSE None) \in Token \cup {None}
    BY DEF Slot
  <1>6. /\ t.entry = [row EXCEPT !.enabled = on] /\ t.known = r /\ t.payload = row
        /\ t.stop = IF Stopped(s, row) THEN [s.stop EXCEPT !.brainEnabled = offered] ELSE None
        /\ t.quarantine = IF Quarantined(s, row) THEN s.quarantine ELSE None
        /\ t = [entry |-> t.entry, known |-> t.known, payload |-> t.payload,
                stop |-> t.stop, quarantine |-> t.quarantine]
    BY <1>1 DEF StoreRow
  <1> HIDE DEF t, row, offered, on
  <1>7. /\ t.entry \in Row /\ t.entry # None /\ t.entry.rev = r
        /\ t.entry.token = row.token /\ t.entry.enabled = on
    BY <1>1, <1>2, <1>3, <1>6, LogAssumption
  <1>8. t.stop # None =>
           /\ t.stop \in Stop /\ Stopped(s, row)
           /\ t.stop.token = s.stop.token /\ t.stop.refusedAt = s.stop.refusedAt
           /\ t.stop.brainEnabled = offered
    BY <1>2, <1>4, <1>6
  <1>9. t \in Slot
    BY <1>1, <1>5, <1>6, <1>7, <1>8 DEF Slot
  <1>10. (on => offered /\ ~Stopped(s, row)) /\ (Stopped(s, row) => s.stop # None /\ s.stop.token = row.token)
    BY DEF on, Stopped
  <1>11. Holds(t)
    BY <1>2, <1>6, <1>7, <1>8, <1>10 DEF Holds, Present
  <1>12. Owed(i, t, l) /\ (s.stop = None => t.stop = None)
    BY <1>8, <1>10 DEF Good, Owed
  <1> QED
    BY <1>9, <1>11, <1>12 DEF Good, t, row

LEMMA DeliveredIsGood ==
    ASSUME LogTypeOK, NEW i, NEW s \in Slot, NEW l, Good(i, s, l), NEW r \in 1..Now
    PROVE  /\ Good(i, MergeRow(s, RowAt(r), 0), l)
           /\ Good(i, ApplyTombstone(s, r, 0), l)
           /\ Good(i, ApplyAbsence(s, r), l)
           /\ s.stop = None => /\ MergeRow(s, RowAt(r), 0).stop = None
                               /\ ApplyTombstone(s, r, 0).stop = None
                               /\ ApplyAbsence(s, r).stop = None
  <1>1. r \in Nat
    BY DEF LogTypeOK, Now
  <1>2. /\ Good(i, MergeRow(s, RowAt(r), 0), l)
        /\ s.stop = None => MergeRow(s, RowAt(r), 0).stop = None
    BY StoreRowGood DEF MergeRow
  <1>3. /\ Good(i, ApplyTombstone(s, r, 0), l)
        /\ s.stop = None => ApplyTombstone(s, r, 0).stop = None
    BY <1>1, GoneIsGood DEF ApplyTombstone
  <1>4. /\ Good(i, ApplyAbsence(s, r), l)
        /\ s.stop = None => ApplyAbsence(s, r).stop = None
    BY <1>1, GoneIsGood DEF ApplyAbsence
  <1> QED
    BY <1>2, <1>3, <1>4

\* A stop is latched on a free slot; one that no revision ends is remembered as m.
LEMMA LatchStopGood ==
    ASSUME NEW i, NEW s \in Slot, NEW l, Good(i, s, l), s.stop = None,
           NEW token \in Token, NEW live \in Nat, NEW m,
           Present(s) /\ s.entry.token = token /\ live = 0 => m = token \/ DeletedBy(i, Now)
    PROVE  Good(i, LatchStop(s, token, live), m)
  <1> DEFINE on == Present(s) /\ s.entry.token = token /\ ~Superseded(s.entry.rev, live)
             z == [token |-> token, refusedAt |-> live, brainEnabled |-> s.entry.enabled]
             t == LatchStop(s, token, live)
  <1>1. CASE ~on
    BY <1>1 DEF LatchStop, Good, Owed
  <1>2. CASE on
    <2>1. s.entry \in Row
      BY <1>2 DEF Slot, Present
    <2>2. z \in Stop /\ z.token = token /\ z.refusedAt = live /\ z.brainEnabled = s.entry.enabled
      BY <2>1 DEF Stop, Row
    <2>3. t = [s EXCEPT !.stop = z, !.entry = Disabled(s.entry)]
      BY <1>2 DEF LatchStop
    <2> HIDE DEF z
    <2>4. t \in Slot /\ t.entry = Disabled(s.entry) /\ t.stop = z /\ t.quarantine = s.quarantine
      BY <2>1, <2>2, <2>3, DisabledRow DEF Slot
    <2> HIDE DEF t
    <2>5. /\ Present(t) /\ t.entry.rev = s.entry.rev /\ t.entry.token = token
          /\ t.entry.enabled = FALSE /\ t.stop.token = token
          /\ t.stop.refusedAt = live /\ t.stop.brainEnabled = s.entry.enabled
      BY <1>2, <2>1, <2>2, <2>4, DisabledRow DEF Present
    <2>6. Holds(t)
      BY <1>2, <2>4, <2>5 DEF Holds, Good
    <2>7. Owed(i, t, m)
      BY <1>2, <2>5 DEF Owed
    <2> QED
      BY <2>4, <2>6, <2>7 DEF Good, t
  <1> QED
    BY <1>1, <1>2

LEMMA QuarantineGood ==
    ASSUME NEW i, NEW s \in Slot, NEW l, Good(i, s, l), s.stop = None, NEW token \in Token
    PROVE  Good(i, QuarantineLocally(s, token), l)
  <1> DEFINE on == Present(s) /\ s.entry.token = token
             t == QuarantineLocally(s, token)
  <1>1. CASE ~on
    BY <1>1 DEF QuarantineLocally
  <1>2. CASE on
    <2>1. s.entry \in Row
      BY <1>2 DEF Slot, Present
    <2>2. t \in Slot /\ t.entry = Disabled(s.entry) /\ t.stop = s.stop
      BY <1>2, <2>1, DisabledRow DEF QuarantineLocally, Slot
    <2> HIDE DEF t
    <2>3. Holds(t) /\ Owed(i, t, l)
      BY <1>2, <2>1, <2>2, DisabledRow DEF Holds, Owed, Good, Present
    <2> QED
      BY <2>2, <2>3 DEF Good, t
  <1> QED
    BY <1>1, <1>2

LEMMA TransitionGood ==
    ASSUME LogTypeOK, NEW i, NEW s \in Slot, NEW l, Good(i, s, l), s.stop = None,
           NEW e, NEW live \in 1..Now, history[live].enabled
    PROVE  Good(i, CursorTransition(s, e, live, history[live].cursor), l)
  <1> DEFINE t == CursorTransition(s, e, live, history[live].cursor)
             row == [s.entry EXCEPT !.rev = live, !.cursor = history[live].cursor]
  <1>1. CASE ~TransitionApplies(s, e)
    BY <1>1 DEF CursorTransition
  <1>2. CASE TransitionApplies(s, e)
    <2>1. s.entry \in Row /\ Present(s)
      BY <1>2 DEF TransitionApplies, Slot, Present
    <2>2. live \in Nat \ {0} /\ history[live].cursor \in Nat
      BY EventAt DEF Event, LogTypeOK, Now
    <2>3. /\ row \in Row /\ row # None /\ row.rev = live /\ row.enabled = s.entry.enabled
      <3>1. row \in Row /\ row.rev = live /\ row.enabled = s.entry.enabled
        BY <2>1, <2>2 DEF Row
      <3> HIDE DEF row
      <3> QED
        BY <3>1, LogAssumption
    <2>4. t = [s EXCEPT !.entry = row, !.known = live, !.payload = row]
      BY <1>2 DEF CursorTransition
    <2> HIDE DEF row
    <2>5. t \in Slot /\ t.entry = row /\ t.stop = s.stop /\ t.quarantine = s.quarantine
      BY <2>2, <2>3, <2>4 DEF Slot
    <2> HIDE DEF t
    <2>6. Holds(t) /\ Owed(i, t, l)
      BY <2>1, <2>3, <2>5 DEF Holds, Owed, Good, Present
    <2> QED
      BY <2>5, <2>6 DEF Good, t
  <1> QED
    BY <1>1, <1>2

\* Lifting the stop that was remembered leaves nothing owed.
LEMMA ReleaseStopGood ==
    ASSUME NEW i, NEW s \in Slot, NEW l \in Token, Good(i, s, l), NEW m
    PROVE  /\ Good(i, ReleaseStop(s, l), m)
           /\ s.stop = None => ReleaseStop(s, l).stop = None
  <1> DEFINE t == ReleaseStop(s, l)
  <1>1. CASE ~HoldsStop(s, l)
    BY <1>1 DEF ReleaseStop, HoldsStop, Good, Holds, Owed
  <1>2. CASE HoldsStop(s, l)
    <2>1. s.entry \in Row /\ s.stop \in Stop /\ s.stop.brainEnabled \in BOOLEAN
      BY <1>2 DEF HoldsStop, Slot, Present, Stop
    <2>2. PICK b \in BOOLEAN : b = s.stop.brainEnabled
      BY <2>1
    <2> DEFINE row == [s.entry EXCEPT !.enabled = b]
    <2>3. row \in Row /\ row # None /\ row.rev = s.entry.rev /\ row.enabled = b
      <3>1. row \in Row /\ row.rev = s.entry.rev /\ row.enabled = b
        BY <2>1 DEF Row
      <3> HIDE DEF row
      <3> QED
        BY <3>1, LogAssumption
    <2>4. t = [s EXCEPT !.stop = None, !.entry = row]
      BY <1>2, <2>2 DEF ReleaseStop
    <2> HIDE DEF row
    <2>5. t \in Slot /\ t.entry = row /\ t.stop = None /\ t.quarantine = s.quarantine
      BY <2>3, <2>4 DEF Slot
    <2> HIDE DEF t
    <2>6. Holds(t) /\ Owed(i, t, m)
      BY <1>2, <2>2, <2>3, <2>5 DEF Holds, HoldsStop, Owed, Good, Present
    <2> QED
      BY <2>5, <2>6 DEF Good, t
  <1> QED
    BY <1>1, <1>2

-----------------------------------------------------------------------------
(* Preservation.                                                           *)

LEMMA State ==
    ASSUME IInv
    PROVE  /\ TypeOK /\ LogTypeOK /\ Now \in Nat
           /\ cache \in [Schedule -> Slot] /\ latched \in [Schedule -> Token \cup {None}]
           /\ worker \in [Schedule -> Worker]
           /\ trail \in [Schedule -> Trail \cup {None}]
           /\ verdict \in [Schedule -> Verdict \cup {None}]
           /\ renegotiated \in SUBSET Schedule
           /\ \A i \in Schedule : cache[i] \in Slot /\ Good(i, cache[i], latched[i])
           /\ \A i \in Schedule : Free(i) /\ AnswerOK(i) /\ Trailed(i) /\ FireOwed(i)
  BY DEF IInv, TypeOK, Good, LogTypeOK, Now

LEMMA WorkerTypes ==
    ASSUME NEW e \in Row, NEW kind \in {"fire", "advance"}, NEW a \in Answer, NEW b \in BOOLEAN
    PROVE  /\ IdleWorker \in Worker /\ [pc |-> "asking"] \in Worker
           /\ [pc |-> "queued", row |-> e] \in Worker
           /\ [pc |-> "sent", row |-> e, kind |-> kind] \in Worker
           /\ [pc |-> "answered", row |-> e, kind |-> kind, answer |-> a] \in Worker
           /\ [pc |-> "told", agreed |-> b] \in Worker
  BY DEF Worker, IdleWorker

LEMMA WorkerAt ==
    ASSUME NEW w \in Worker
    PROVE  /\ w.pc \in {"queued", "sent", "answered"} => w.row \in Row /\ w.row.token \in Token
           /\ w.pc \in {"sent", "answered"} => w.kind \in {"fire", "advance"}
           /\ w.pc = "answered" =>
                 w.answer \in Answer /\ w.answer.live \in Nat /\ w.answer.grounds \in Trail \cup {None}
           /\ w.pc = "told" => w.agreed \in BOOLEAN
  BY DEF Worker, Row, Answer

LEMMA GoodStays ==
    ASSUME TypeOK, LogKept, NEW i \in Schedule, Good(i, cache'[i], latched'[i])
    PROVE  (Holds(cache[i]) /\ Owed(i, cache[i], latched[i]))'
  BY DEF Good, Holds, Owed, Present, LogKept

LEMMA WorkerStays ==
    ASSUME IInv, LogKept, NEW i \in Schedule, worker'[i] = worker[i], trail'[i] = trail[i],
           cache[i].stop = None => cache'[i].stop = None
    PROVE  Free(i)' /\ AnswerOK(i)'
  <1>1. Free(i)'
    BY State DEF Free
  <1>2. ASSUME worker[i].pc = "answered" PROVE AnswerOK(i)'
    <2>1. worker[i].answer.live \in Nat
      BY <1>2, State, WorkerAt
    <2> QED
      BY <1>2, <2>1, State DEF AnswerOK, LogKept
  <1> QED
    BY <1>1, <1>2 DEF AnswerOK

LEMMA WorkerDone ==
    ASSUME NEW i \in Schedule, worker'[i].pc \in {"idle", "asking", "told"}
    PROVE  Free(i)' /\ AnswerOK(i)'
  BY DEF Free, AnswerOK

\* The step of a task that holds no claim: the stream, the Brain, the reporter.
LEMMA WorldStep ==
    ASSUME IInv, LogKept, TypeOK', UNCHANGED <<worker, trail, verdict>>,
           \A i \in Schedule :
              /\ Good(i, cache'[i], latched'[i])
              /\ cache[i].stop = None => cache'[i].stop = None
              /\ latched'[i] = latched[i] \/ latched'[i] = None
              /\ i \in renegotiated' => i \in renegotiated \/ latched[i] # None
    PROVE  IInv'
  <1>1. ASSUME NEW i \in Schedule
        PROVE  /\ (Holds(cache[i]) /\ Owed(i, cache[i], latched[i]))'
               /\ Free(i)' /\ AnswerOK(i)'
    BY State, GoodStays, WorkerStays
  <1>2. ASSUME NEW i \in Schedule PROVE Trailed(i)' /\ FireOwed(i)'
    BY State DEF Trailed, FireOwed
  <1> QED
    BY <1>1, <1>2 DEF IInv

\* The step of schedule j's fire cycle.
LEMMA CycleStep ==
    ASSUME IInv, LogKept, TypeOK', NEW j \in Schedule, NEW w, worker' = [worker EXCEPT ![j] = w],
           \A i \in Schedule \ {j} :
              /\ Good(i, cache'[i], latched'[i])
              /\ cache[i].stop = None => cache'[i].stop = None
              /\ latched'[i] = latched[i] \/ latched'[i] = None
              /\ i \in renegotiated' => i \in renegotiated \/ latched[i] # None
              /\ trail'[i] = trail[i] /\ verdict'[i] = verdict[i],
           Good(j, cache'[j], latched'[j]), Trailed(j)', FireOwed(j)',
           Free(j)', AnswerOK(j)'
    PROVE  IInv'
  <1>1. ASSUME NEW i \in Schedule \ {j}
        PROVE  /\ (Holds(cache[i]) /\ Owed(i, cache[i], latched[i]))'
               /\ Free(i)' /\ AnswerOK(i)'
    <2>1. worker'[i] = worker[i]
      BY State
    <2> QED
      BY <2>1, State, GoodStays, WorkerStays
  <1>2. ASSUME NEW i \in Schedule \ {j} PROVE Trailed(i)' /\ FireOwed(i)'
    BY State DEF Trailed, FireOwed
  <1>3. (Holds(cache[j]) /\ Owed(j, cache[j], latched[j]))'
    BY State, GoodStays
  <1>4. ASSUME NEW i \in Schedule
        PROVE  /\ (Holds(cache[i]) /\ Owed(i, cache[i], latched[i]))'
               /\ Free(i)' /\ AnswerOK(i)' /\ Trailed(i)' /\ FireOwed(i)'
    BY <1>1, <1>2, <1>3
  <1> QED
    BY <1>4 DEF IInv

\* A fire cycle that only moves on.
LEMMA OnlyWorker ==
    ASSUME IInv, LogKept, NEW j \in Schedule, NEW w \in Worker, worker' = [worker EXCEPT ![j] = w],
           UNCHANGED <<agrees, flips, cache, latched, renegotiated, pending, streamVars, ghostVars>>,
           Free(j)', AnswerOK(j)'
    PROVE  IInv'
  <1>1. worker' \in [Schedule -> Worker]
    BY State
  <1>2. TypeOK'
    BY <1>1, State DEF TypeOK, LogKept, streamVars, ghostVars
  <1>3. Trailed(j)' /\ FireOwed(j)'
    BY State DEF Trailed, FireOwed, ghostVars
  <1> QED
    BY <1>2, <1>3, State, CycleStep DEF ghostVars

\* Agreement lifts every stop that was remembered, and remembers none.
LEMMA RenegotiatedIsGood ==
    ASSUME IInv, OnContractRenegotiated, NEW i \in Schedule
    PROVE  /\ Good(i, cache'[i], latched'[i])
           /\ cache[i].stop = None => cache'[i].stop = None
           /\ latched'[i] = None
           /\ i \in renegotiated' => i \in renegotiated \/ latched[i] # None
  <1>1. latched'[i] = None /\ (i \in renegotiated' => i \in renegotiated \/ latched[i] # None)
    BY State DEF OnContractRenegotiated
  <1>2. CASE latched[i] = None
    <2>1. cache'[i] = cache[i]
      BY <1>2 DEF OnContractRenegotiated
    <2> QED
      BY <1>1, <1>2, <2>1, State
  <1>3. CASE latched[i] # None
    <2>1. cache'[i] = ReleaseStop(cache[i], latched[i]) /\ latched[i] \in Token
      BY <1>3, State DEF OnContractRenegotiated
    <2> QED
      BY <1>1, <2>1, State, ReleaseStopGood
  <1> QED
    BY <1>2, <1>3

LEMMA RenegotiatedTypes ==
    ASSUME IInv, OnContractRenegotiated
    PROVE  /\ cache' \in [Schedule -> Slot] /\ latched' \in [Schedule -> Token \cup {None}]
           /\ renegotiated' \in SUBSET Schedule
  <1>1. \A i \in Schedule : cache'[i] \in Slot
    BY RenegotiatedIsGood DEF Good
  <1> QED
    BY <1>1, State DEF OnContractRenegotiated

-----------------------------------------------------------------------------
(* The actions.                                                            *)

LEMMA StreamStep ==
    ASSUME IInv, LogKept,
           \/ BrainChanges \/ RuntimeFlips \/ StreamEnds \/ StreamAsks \/ StreamAgreed
           \/ StreamRefused \/ UNCHANGED vars
    PROVE  IInv'
  <1>1. UNCHANGED <<cache, latched, renegotiated, pending, worker, cursor, trail, verdict>>
    BY DEF BrainChanges, RuntimeFlips, StreamEnds, StreamAsks, StreamAgreed, StreamRefused,
       vars, engineVars, streamVars, ghostVars
  <1>2. agrees' \in BOOLEAN /\ flips' \in 0..MaxFlips /\ stream' \in Stream
    <2>1. agrees \in BOOLEAN /\ flips \in 0..MaxFlips /\ stream \in Stream /\ (~agrees) \in BOOLEAN
      BY State DEF TypeOK
    <2>2. CASE RuntimeFlips
      BY <2>1, <2>2, MismatchAssumption DEF RuntimeFlips, streamVars
    <2>3. CASE ~RuntimeFlips
      <3>1. UNCHANGED <<agrees, flips>> /\ stream' \in Stream
        BY <2>1, <2>3 DEF BrainChanges, StreamEnds, StreamAsks, StreamAgreed, StreamRefused,
           vars, streamVars, Stream
      <3> QED
        BY <2>1, <3>1
    <2> QED
      BY <2>2, <2>3
  <1>3. TypeOK'
    BY <1>1, <1>2, State DEF TypeOK, LogKept
  <1> QED
    BY <1>1, <1>3, State, WorldStep

LEMMA DeliveredHere ==
    ASSUME IInv, NEW i \in Schedule, NEW r \in 1..Now
    PROVE  \A s \in {MergeRow(cache[i], RowAt(r), 0), ApplyTombstone(cache[i], r, 0),
                     ApplyAbsence(cache[i], r)} :
              s \in Slot /\ Good(i, s, latched[i]) /\ (cache[i].stop = None => s.stop = None)
  <1>1. LogTypeOK /\ cache[i] \in Slot /\ Good(i, cache[i], latched[i])
    BY State
  <1> QED
    BY <1>1, DeliveredIsGood DEF Good

\* A slot step of the Watch stream or of the reporter.
LEMMA DeliveryStep ==
    ASSUME IInv, LogKept,
           UNCHANGED <<agrees, flips, latched, renegotiated, worker, ghostVars>>,
           pending' \in SUBSET (Schedule \X Token), stream' \in Stream, cursor' \in 0..Now',
           cache' \in [Schedule -> Slot],
           \A i \in Schedule : /\ Good(i, cache'[i], latched[i])
                               /\ cache[i].stop = None => cache'[i].stop = None
    PROVE  IInv'
  <1>1. TypeOK'
    BY State DEF TypeOK, LogKept, ghostVars
  <1> QED
    BY <1>1, State, WorldStep DEF ghostVars

LEMMA DeliverNextStep ==
    ASSUME IInv, LogKept, DeliverNext
    PROVE  IInv'
  <1> DEFINE r == cursor + 1
             j == history[r].id
             t == IF history[r].live THEN MergeRow(cache[j], RowAt(r), 0)
                  ELSE ApplyTombstone(cache[j], r, 0)
  <1>1. r \in 1..Now /\ Now' = Now
    BY State DEF TypeOK, DeliverNext, Now
  <1>2. j \in Schedule
    BY <1>1, State, EventAt DEF Event
  <1>3. cache' = [cache EXCEPT ![j] = t] /\ cursor' = r
    BY DEF DeliverNext
  <1>4. Good(j, t, latched[j]) /\ (cache[j].stop = None => t.stop = None)
    BY <1>1, <1>2, DeliveredHere
  <1> HIDE DEF t, j
  <1>5. /\ cache' \in [Schedule -> Slot]
        /\ \A i \in Schedule : /\ Good(i, cache'[i], latched[i])
                               /\ cache[i].stop = None => cache'[i].stop = None
    BY <1>2, <1>3, <1>4, State DEF Good
  <1>6. cursor' \in 0..Now'
    BY <1>1, <1>3, State
  <1> QED
    BY <1>5, <1>6, State, DeliveryStep DEF DeliverNext, engineVars, TypeOK

LEMMA StreamSyncsStep ==
    ASSUME IInv, LogKept, StreamSyncs
    PROVE  IInv'
  <1>1. ASSUME NEW i \in Schedule
        PROVE  /\ Good(i, cache'[i], latched[i])
               /\ cache[i].stop = None => cache'[i].stop = None
    <2>1. cache'[i] = Synced(cache[i], i)
      BY <1>1 DEF StreamSyncs
    <2>2. CASE \E r \in 1..Now : LiveRow(i, r, Now)
      <3>1. PICK r \in 1..Now : r = CHOOSE q \in 1..Now : LiveRow(i, q, Now)
        BY <2>2
      <3>2. cache'[i] = MergeRow(cache[i], RowAt(r), 0)
        BY <2>1, <2>2, <3>1 DEF Synced
      <3> QED
        BY <3>2, DeliveredHere
    <2>3. CASE ~\E r \in 1..Now : LiveRow(i, r, Now)
      BY <2>1, <2>3, GoneIsGood DEF Synced
    <2> QED
      BY <2>2, <2>3
  <1>2. cache' \in [Schedule -> Slot]
    BY <1>1 DEF StreamSyncs, Good
  <1>3. cursor' \in 0..Now' /\ stream' \in Stream
    BY State DEF StreamSyncs, Now, Stream
  <1> QED
    BY <1>1, <1>2, <1>3, State, DeliveryStep DEF StreamSyncs, engineVars, TypeOK

LEMMA FlushStep ==
    ASSUME IInv, LogKept, NEW j \in Schedule, NEW t \in Token, Flush(j, t)
    PROVE  IInv'
  <1>1. PICK s \in Slot : /\ cache' = [cache EXCEPT ![j] = s]
                          /\ Good(j, s, latched[j]) /\ (cache[j].stop = None => s.stop = None)
    <2>1. CASE UNCHANGED cache
      <3>1. cache' = [cache EXCEPT ![j] = cache[j]]
        BY <2>1, State
      <3> QED
        BY <3>1, State
    <2>2. ASSUME NEW r \in 1..Now, cache' = [cache EXCEPT ![j] = MergeRow(@, RowAt(r), 0)]
          PROVE  \E s \in Slot : /\ cache' = [cache EXCEPT ![j] = s]
                                 /\ Good(j, s, latched[j]) /\ (cache[j].stop = None => s.stop = None)
      BY <2>2, DeliveredHere
    <2>3. ASSUME DeletedBy(j, Now), cache' = [cache EXCEPT ![j] = ApplyAbsence(@, Now)]
          PROVE  \E s \in Slot : /\ cache' = [cache EXCEPT ![j] = s]
                                 /\ Good(j, s, latched[j]) /\ (cache[j].stop = None => s.stop = None)
      <3>1. Now \in 1..Now
        BY <2>3, State DEF DeletedBy
      <3> QED
        BY <2>3, <3>1, DeliveredHere
    <2> QED
      BY <2>1, <2>2, <2>3 DEF Flush
  <1>2. /\ cache' \in [Schedule -> Slot]
        /\ \A i \in Schedule : /\ Good(i, cache'[i], latched[i])
                               /\ cache[i].stop = None => cache'[i].stop = None
    BY <1>1, State
  <1>3. pending' \in SUBSET (Schedule \X Token) /\ stream' \in Stream /\ cursor' \in 0..Now'
    BY State DEF Flush, TypeOK, streamVars, LogKept
  <1> QED
    BY <1>2, <1>3, DeliveryStep DEF Flush

LEMMA StreamOpensStep ==
    ASSUME IInv, LogKept, StreamOpens
    PROVE  IInv'
  <1>1. OnContractRenegotiated
    BY DEF StreamOpens
  <1>2. TypeOK'
    BY <1>1, State, RenegotiatedTypes DEF TypeOK, LogKept, StreamOpens, Stream, ghostVars
  <1>3. UNCHANGED <<worker, trail, verdict>>
    BY DEF StreamOpens, ghostVars
  <1> QED
    BY <1>1, <1>2, <1>3, WorldStep, RenegotiatedIsGood

LEMMA IterateStep ==
    ASSUME IInv, LogKept, NEW due \in SUBSET Schedule, Iterate(due)
    PROVE  IInv'
  <1>1. ASSUME NEW i \in Schedule
        PROVE  /\ Good(i, cache'[i], latched'[i])
               /\ Free(i)' /\ AnswerOK(i)' /\ Trailed(i)' /\ FireOwed(i)'
               /\ latched'[i] \in Token \cup {None} /\ worker'[i] \in Worker
    <2>1. /\ cache'[i] = cache[i] /\ trail'[i] = trail[i] /\ verdict'[i] = verdict[i]
          /\ latched'[i] = IF Present(cache[i]) /\ cache[i].entry.token = latched[i]
                           THEN latched[i] ELSE None
          /\ worker'[i] = IF i \in due THEN [pc |-> "queued", row |-> cache[i].entry] ELSE worker[i]
          /\ i \in renegotiated' => i \in renegotiated
      BY DEF Iterate, ghostVars
    <2>2. Good(i, cache'[i], latched'[i])
      BY <2>1, State DEF Good, Holds, Owed
    <2>3. Free(i)' /\ AnswerOK(i)' /\ worker'[i] \in Worker
      <3>1. CASE i \in due
        <4>1. Present(cache[i]) /\ cache[i].entry.enabled /\ cache[i].stop = None
          BY <3>1, State DEF Iterate, Good, Holds
        <4>2. cache[i].entry \in Row
          BY <4>1, State DEF Slot, Present
        <4>3. [pc |-> "queued", row |-> cache[i].entry] \in Worker
          BY <4>2 DEF Worker
        <4> QED
          BY <2>1, <3>1, <4>1, <4>3 DEF Free, AnswerOK
      <3>2. CASE i \notin due
        BY <2>1, <3>2, State, WorkerStays
      <3> QED
        BY <3>1, <3>2
    <2>4. Trailed(i)' /\ FireOwed(i)'
      BY <2>1, State DEF Trailed, FireOwed
    <2> QED
      BY <2>1, <2>2, <2>3, <2>4, State
  <1>2. TypeOK'
    <2>1. latched' \in [Schedule -> Token \cup {None}] /\ worker' \in [Schedule -> Worker]
      BY <1>1 DEF Iterate
    <2> QED
      BY <2>1, State DEF TypeOK, LogKept, Iterate, streamVars, ghostVars
  <1>3. \A i \in Schedule : (Holds(cache[i]) /\ Owed(i, cache[i], latched[i]))'
    BY <1>1, State, GoodStays
  <1> QED
    BY <1>1, <1>2, <1>3 DEF IInv

\* Claims, requests and questions of schedule j: only its fire cycle moves.
LEMMA MoveOnStep ==
    ASSUME IInv, LogKept, NEW j \in Schedule,
           \/ Send(j, "fire") \/ Send(j, "advance") \/ Stand(j) \/ Retry(j)
           \/ Agreed(j) \/ NotAgreed(j)
    PROVE  IInv'
  <1> DEFINE e == worker[j].row
  <1>1. worker[j] \in Worker /\ UNCHANGED <<cache, trail>>
    BY State DEF Send, Stand, Retry, Agreed, NotAgreed, ghostVars
  <1>2. UNCHANGED <<agrees, flips, cache, latched, renegotiated, pending, streamVars, ghostVars>>
    BY DEF Send, Stand, Retry, Agreed, NotAgreed
  <1>3. ASSUME NEW kind \in {"fire", "advance"}, worker[j].pc \in {"queued", "answered"},
               worker' = [worker EXCEPT ![j] = [pc |-> "sent", row |-> e, kind |-> kind]]
        PROVE  IInv'
    <2> DEFINE w == [pc |-> "sent", row |-> e, kind |-> kind]
    <2>1. w \in Worker
      BY <1>1, <1>3, WorkerAt DEF Worker
    <2>2. worker'[j] = w /\ cache[j].stop = None
      BY <1>3, State DEF Free
    <2>3. Free(j)' /\ AnswerOK(j)'
      BY <1>1, <2>2 DEF Free, AnswerOK
    <2> QED
      BY <1>2, <1>3, <2>1, <2>3, OnlyWorker
  <1>4. ASSUME NEW w \in Worker, w.pc \in {"idle", "told"}, worker' = [worker EXCEPT ![j] = w]
        PROVE  IInv'
    <2>1. worker'[j].pc \in {"idle", "asking", "told"}
      BY <1>4, State
    <2> QED
      BY <1>2, <1>4, <2>1, WorkerDone, OnlyWorker
  <1>5. CASE Send(j, "fire") \/ Send(j, "advance")
    BY <1>3, <1>5 DEF Send
  <1>6. CASE Retry(j)
    BY <1>3, <1>6 DEF Retry
  <1>7. CASE Stand(j)
    <2>1. IdleWorker \in Worker /\ IdleWorker.pc = "idle"
      BY DEF IdleWorker, Worker
    <2> QED
      BY <1>4, <1>7, <2>1 DEF Stand
  <1>8. CASE Agreed(j) \/ NotAgreed(j)
    <2>1. ASSUME NEW b \in BOOLEAN
          PROVE  [pc |-> "told", agreed |-> b] \in Worker /\ [pc |-> "told", agreed |-> b].pc = "told"
      BY DEF Worker
    <2> QED
      BY <1>4, <1>8, <2>1 DEF Agreed, NotAgreed
  <1> QED
    BY <1>5, <1>6, <1>7, <1>8

LEMMA BrainDecidesStep ==
    ASSUME IInv, LogKept, NEW j \in Schedule, BrainDecides(j)
    PROVE  IInv'
  <1>1. /\ worker[j] \in Worker /\ worker[j].pc = "sent" /\ cache[j].stop = None
        /\ worker[j].row \in Row /\ worker[j].kind \in {"fire", "advance"}
        /\ trail[j] \in Trail \cup {None}
    BY State, WorkerAt DEF BrainDecides, Free
  <1>2. UNCHANGED <<agrees, flips, cache, latched, renegotiated, pending, streamVars, ghostVars>>
    BY DEF BrainDecides
  <1>3. ASSUME NEW kind \in {"accepted", "stale", "mismatch"}, NEW live \in Nat, NEW acc \in Nat,
               Answered(j, kind, live, acc),
               kind = "accepted" => live \in 1..Now' /\ history'[live].enabled,
               kind = "stale" /\ live = 0 => DeletedBy(j, Now)'
        PROVE  IInv'
    <2> DEFINE a == [kind |-> kind, live |-> live, accepted |-> acc, grounds |-> trail[j]]
               w == [pc |-> "answered", row |-> worker[j].row, kind |-> worker[j].kind, answer |-> a]
    <2>1. a \in Answer /\ a.kind = kind /\ a.live = live /\ a.grounds = trail[j]
      BY <1>1 DEF Answer
    <2>2. worker' = [worker EXCEPT ![j] = w]
      BY <1>3, State DEF Answered
    <2> HIDE DEF a
    <2>3. w \in Worker /\ w.pc = "answered" /\ w.answer = a
      BY <1>1, <2>1, WorkerTypes
    <2> HIDE DEF w
    <2>4. worker'[j] = w /\ trail'[j] = trail[j] /\ cache'[j].stop = None
      BY <1>1, <1>2, <2>2, State DEF ghostVars
    <2>5. Free(j)'
      BY <2>4 DEF Free
    <2>6. AnswerOK(j)'
      BY <1>3, <2>1, <2>3, <2>4 DEF AnswerOK
    <2> QED
      BY <1>2, <2>2, <2>3, <2>5, <2>6, OnlyWorker
  <1>4. Answered(j, "mismatch", 0, 0) => IInv'
    BY <1>3
  <1>5. ASSUME NEW r, LiveRow(j, r, Now), history[r].enabled, Accept(r),
               Answered(j, "accepted", Now + 1, Now + 1)
        PROVE  IInv'
    <2>1. r \in 1..Now
      BY <1>5 DEF LiveRow, IsNewest
    <2>2. PICK e \in Event : Grows(e) /\ e.enabled
      BY <1>5, <2>1, State, AcceptGrows
    <2>3. Now + 1 \in 1..Now' /\ history'[Now + 1].enabled /\ Now + 1 \in Nat
      BY <2>2, State, Growth
    <2> QED
      BY <1>3, <1>5, <2>3
  <1>6. ASSUME NEW r \in 1..Now, NEW a \in 1..Now, history[r].enabled,
               Answered(j, "accepted", r, a), UNCHANGED history
        PROVE  IInv'
    <2>1. r \in 1..Now' /\ history'[r].enabled /\ r \in Nat /\ a \in Nat
      BY <1>6, State DEF Now
    <2> QED
      BY <1>3, <1>6, <2>1
  <1>7. ASSUME NEW r \in 1..Now, Answered(j, "stale", r, 0) PROVE IInv'
    <2>1. r \in Nat /\ r # 0 /\ 0 \in Nat
      BY State
    <2> QED
      BY <1>3, <1>7, <2>1
  <1>8. ASSUME DeletedBy(j, Now), Answered(j, "stale", 0, 0) PROVE IInv'
    <2>1. DeletedBy(j, Now)'
      BY <1>8 DEF LogKept
    <2> QED
      BY <1>3, <1>8, <2>1
  <1> QED
    BY <1>4, <1>5, <1>6, <1>7, <1>8 DEF BrainDecides

\* The end of schedule j's fire cycle, or its question to the Brain: one slot, and
\* what is remembered of it.
LEMMA HandledStep ==
    ASSUME IInv, LogKept, NEW j \in Schedule,
           worker' = [worker EXCEPT ![j] = worker'[j]],
           worker'[j] \in Worker, worker'[j].pc \in {"idle", "asking"},
           cache' = [cache EXCEPT ![j] = cache'[j]],
           latched' = [latched EXCEPT ![j] = latched'[j]], latched'[j] \in Token \cup {None},
           Good(j, cache'[j], latched'[j]),
           trail' = [trail EXCEPT ![j] = trail'[j]], trail'[j] \in Trail \cup {None},
           trail[j] # None \/ latched'[j] # None => trail'[j] # None,
           verdict' = [verdict EXCEPT ![j] = verdict'[j]], verdict'[j] \in Verdict \cup {None},
           verdict'[j] = verdict[j] \/ (verdict'[j].kind = "fire" => verdict'[j].grounds # None),
           renegotiated' \in SUBSET renegotiated, pending' \in SUBSET (Schedule \X Token),
           UNCHANGED <<history, agrees, flips, streamVars>>
    PROVE  IInv'
  <1>1. TypeOK'
    <2>1. cache'[j] \in Slot
      BY DEF Good
    <2>2. /\ cache' \in [Schedule -> Slot] /\ worker' \in [Schedule -> Worker]
          /\ latched' \in [Schedule -> Token \cup {None}]
          /\ trail' \in [Schedule -> Trail \cup {None}]
          /\ verdict' \in [Schedule -> Verdict \cup {None}]
      BY <2>1, State
    <2> QED
      BY <2>2, State DEF TypeOK, LogKept, streamVars
  <1>2. ASSUME NEW i \in Schedule \ {j}
        PROVE  /\ cache'[i] = cache[i] /\ latched'[i] = latched[i]
               /\ trail'[i] = trail[i] /\ verdict'[i] = verdict[i]
    BY State
  <1>3. \A i \in Schedule \ {j} :
              /\ Good(i, cache'[i], latched'[i])
              /\ cache[i].stop = None => cache'[i].stop = None
              /\ latched'[i] = latched[i] \/ latched'[i] = None
              /\ i \in renegotiated' => i \in renegotiated \/ latched[i] # None
              /\ trail'[i] = trail[i] /\ verdict'[i] = verdict[i]
    BY <1>2, State
  <1>4. Free(j)' /\ AnswerOK(j)'
    BY WorkerDone
  <1>5. Trailed(j)' /\ FireOwed(j)'
    BY State DEF Trailed, FireOwed
  <1> QED
    BY <1>1, <1>3, <1>4, <1>5, CycleStep

\* What a handler leaves alone has the form of an update.
LEMMA Unchanged ==
    ASSUME IInv, NEW j \in Schedule
    PROVE  /\ latched = [latched EXCEPT ![j] = latched[j]] /\ trail = [trail EXCEPT ![j] = trail[j]]
           /\ verdict = [verdict EXCEPT ![j] = verdict[j]]
           /\ latched[j] \in Token \cup {None} /\ trail[j] \in Trail \cup {None}
           /\ verdict[j] \in Verdict \cup {None}
  BY State

LEMMA HandleAcceptedStep ==
    ASSUME IInv, LogKept, NEW j \in Schedule, HandleAccepted(j)
    PROVE  IInv'
  <1> DEFINE e == worker[j].row
             a == worker[j].answer
             fire == worker[j].kind = "fire"
             same == history[a.live].token = e.token
             s == IF same THEN CursorTransition(cache[j], e, a.live, history[a.live].cursor)
                  ELSE IF fire THEN LatchStop(cache[j], e.token, a.live) ELSE cache[j]
             t == IF fire /\ trail[j] # None THEN [trail[j] EXCEPT !.accepted = TRUE] ELSE trail[j]
  <1>1. /\ worker[j] \in Worker /\ worker[j].pc = "answered" /\ a.kind = "accepted"
        /\ e.token \in Token /\ a.live \in 1..Now /\ a.live \in Nat /\ history[a.live].enabled
        /\ cache[j] \in Slot /\ Good(j, cache[j], latched[j]) /\ cache[j].stop = None
    BY State, WorkerAt DEF HandleAccepted, AnswerOK, Free
  <1>2. Good(j, s, latched[j])
    <2>1. Good(j, CursorTransition(cache[j], e, a.live, history[a.live].cursor), latched[j])
      BY <1>1, State, TransitionGood
    <2>2. a.live # 0
      BY <1>1, State
    <2>3. Good(j, LatchStop(cache[j], e.token, a.live), latched[j])
      BY <1>1, <2>2, LatchStopGood
    <2> QED
      BY <1>1, <2>1, <2>3
  <1>3. t \in Trail \cup {None} /\ (trail[j] # None => t # None)
    <2>1. CASE fire /\ trail[j] # None
      <3>1. trail[j] \in Trail
        BY <2>1, State
      <3>2. [trail[j] EXCEPT !.accepted = TRUE] \in Trail
        BY <3>1 DEF Trail
      <3> QED
        BY <2>1, <3>2, MismatchAssumption
    <2>2. CASE ~(fire /\ trail[j] # None)
      BY <2>2, State
    <2> QED
      BY <2>1, <2>2
  <1>4. trail' = [trail EXCEPT ![j] = t]
    BY State DEF HandleAccepted
  <1>5. cache' = [cache EXCEPT ![j] = s]
    BY State DEF HandleAccepted
  <1>6. renegotiated' \in SUBSET renegotiated
    BY DEF HandleAccepted
  <1>7. /\ worker' = [worker EXCEPT ![j] = IdleWorker]
        /\ latched' = latched /\ verdict' = verdict
        /\ pending' \in SUBSET (Schedule \X Token)
        /\ UNCHANGED <<history, agrees, flips, streamVars>>
    BY State DEF HandleAccepted, TypeOK
  <1>8. IdleWorker \in Worker /\ IdleWorker.pc = "idle" /\ s \in Slot
    BY <1>2 DEF IdleWorker, Worker, Good
  <1>9. Trailed(j)
    BY State
  <1> HIDE DEF e, a, fire, same, s, t
  <1>10. worker'[j] = IdleWorker /\ cache'[j] = s /\ trail'[j] = t
    BY <1>4, <1>5, <1>7, State
  <1> QED
    BY <1>2, <1>3, <1>4, <1>5, <1>6, <1>7, <1>8, <1>9, <1>10, Unchanged, HandledStep DEF Trailed

LEMMA HandleStaleStep ==
    ASSUME IInv, LogKept, NEW j \in Schedule, HandleStale(j)
    PROVE  IInv'
  <1> DEFINE s == IF worker[j].kind = "fire"
                  THEN LatchStop(cache[j], worker[j].row.token, worker[j].answer.live)
                  ELSE cache[j]
  <1>1. /\ worker[j].row.token \in Token /\ worker[j].answer.live \in Nat
        /\ worker[j].answer.live = 0 => DeletedBy(j, Now)
        /\ cache[j] \in Slot /\ Good(j, cache[j], latched[j]) /\ cache[j].stop = None
    BY State, WorkerAt DEF HandleStale, AnswerOK, Free
  <1>2. Good(j, s, latched[j])
    BY <1>1, LatchStopGood
  <1>3. cache' = [cache EXCEPT ![j] = s]
    BY State DEF HandleStale
  <1>4. /\ worker' = [worker EXCEPT ![j] = IdleWorker]
        /\ latched' = latched /\ trail' = trail /\ verdict' = verdict /\ renegotiated' = renegotiated
        /\ pending' \in SUBSET (Schedule \X Token)
        /\ UNCHANGED <<history, agrees, flips, streamVars>>
    BY State DEF HandleStale, TypeOK, ghostVars
  <1>5. IdleWorker \in Worker /\ IdleWorker.pc = "idle" /\ s \in Slot
    BY <1>2 DEF IdleWorker, Worker, Good
  <1>6. Trailed(j)
    BY State
  <1> HIDE DEF s
  <1>7. worker'[j] = IdleWorker /\ cache'[j] = s
    BY <1>3, <1>4, State
  <1> QED
    BY <1>2, <1>3, <1>4, <1>5, <1>6, <1>7, Unchanged, HandledStep DEF Trailed

\* A second refusal, or one of an advance: the generation is quarantined for good.
LEMMA DurableStep ==
    ASSUME IInv, LogKept, NEW j \in Schedule, worker[j].pc = "answered",
           worker[j].kind = "advance" \/ j \in renegotiated,
           Durable(j), worker' = [worker EXCEPT ![j] = IdleWorker],
           renegotiated' \in SUBSET renegotiated,
           UNCHANGED <<latched, trail, history, agrees, flips, streamVars>>
    PROVE  IInv'
  <1> DEFINE t == worker[j].row.token
             s == QuarantineLocally(cache[j], t)
             g == worker[j].answer.grounds
             bound == Present(cache[j]) /\ cache[j].entry.token = t
             v == IF bound THEN [kind |-> worker[j].kind, token |-> t, grounds |-> g]
                  ELSE verdict[j]
  <1>1. /\ t \in Token /\ worker[j].kind \in {"fire", "advance"} /\ g \in Trail \cup {None}
        /\ g = trail[j]
        /\ cache[j] \in Slot /\ Good(j, cache[j], latched[j]) /\ cache[j].stop = None /\ Trailed(j)
    BY State, WorkerAt DEF AnswerOK, Free
  <1>2. Good(j, s, latched[j])
    BY <1>1, QuarantineGood
  <1>3. cache' = [cache EXCEPT ![j] = s] /\ verdict' = [verdict EXCEPT ![j] = v]
    BY State DEF Durable
  <1>4. pending' \in SUBSET (Schedule \X Token)
    BY <1>1, State DEF Durable, TypeOK
  <1>5. v \in Verdict \cup {None}
    BY <1>1, State DEF Verdict
  <1>6. v = verdict[j] \/ (v.kind = "fire" => v.grounds # None)
    <2>1. CASE bound
      <3>1. v.kind = worker[j].kind /\ v.grounds = g
        BY <2>1
      <3> QED
        BY <1>1, <3>1 DEF Trailed
    <2> QED
      BY <2>1
  <1>7. IdleWorker \in Worker /\ IdleWorker.pc = "idle" /\ s \in Slot
    BY <1>2 DEF IdleWorker, Worker, Good
  <1> HIDE DEF s, v, t, g, bound
  <1>8. worker'[j] = IdleWorker /\ cache'[j] = s /\ verdict'[j] = v
    BY <1>3, State
  <1> QED
    BY <1>1, <1>2, <1>3, <1>4, <1>5, <1>6, <1>7, <1>8, Unchanged, HandledStep DEF Trailed

\* A first refusal of a fire: the row is stopped, and what stopped it is remembered.
LEMMA HeldStep ==
    ASSUME IInv, LogKept, NEW j \in Schedule, worker[j].pc = "answered",
           NEW t \in Token, t = worker[j].row.token,
           cache' = [cache EXCEPT ![j] = LatchStop(cache[j], t, 0)],
           latched' = IF HoldsStop(LatchStop(cache[j], t, 0), t)
                      THEN [latched EXCEPT ![j] = t] ELSE latched,
           worker' = [worker EXCEPT ![j] = [pc |-> "asking"]],
           trail' = [trail EXCEPT ![j] = [token |-> t, accepted |-> FALSE]],
           UNCHANGED <<renegotiated, pending, verdict, history, agrees, flips, streamVars>>
    PROVE  IInv'
  <1> DEFINE s == LatchStop(cache[j], t, 0)
             l == IF HoldsStop(s, t) THEN t ELSE latched[j]
             z == [token |-> t, accepted |-> FALSE]
  <1>1. cache[j] \in Slot /\ Good(j, cache[j], latched[j]) /\ cache[j].stop = None
    BY State DEF Free
  <1>2. Present(cache[j]) /\ cache[j].entry.token = t => HoldsStop(s, t)
    <2>1. SUFFICES ASSUME Present(cache[j]), cache[j].entry.token = t
                   PROVE  HoldsStop(s, t)
      OBVIOUS
    <2> DEFINE y == [token |-> t, refusedAt |-> 0, brainEnabled |-> cache[j].entry.enabled]
    <2>2. cache[j].entry \in Row
      BY <1>1, <2>1 DEF Slot, Present
    <2>3. y \in Stop /\ y.token = t
      BY <2>2 DEF Stop, Row
    <2>4. s = [cache[j] EXCEPT !.stop = y, !.entry = Disabled(cache[j].entry)]
      BY <2>1 DEF LatchStop, Superseded
    <2> HIDE DEF y
    <2>5. s.stop = y /\ s.entry = Disabled(cache[j].entry)
      BY <1>1, <2>4 DEF Slot
    <2> HIDE DEF s
    <2> QED
      BY <2>1, <2>2, <2>3, <2>5, DisabledRow, LogAssumption DEF HoldsStop, Present
  <1>3. Good(j, s, l)
    BY <1>1, <1>2, LatchStopGood
  <1>4. latched' = [latched EXCEPT ![j] = l]
    BY State
  <1>5. z \in Trail /\ z # None
    <2>1. z \in Trail
      BY DEF Trail
    <2> HIDE DEF z
    <2> QED
      BY <2>1, MismatchAssumption
  <1>6. [pc |-> "asking"] \in Worker /\ [pc |-> "asking"].pc = "asking" /\ s \in Slot
    BY <1>3 DEF Worker, Good
  <1>7. l \in Token \cup {None} /\ pending \in SUBSET (Schedule \X Token)
    BY State DEF TypeOK
  <1>8. /\ worker'[j] \in Worker /\ worker'[j].pc = "asking"
        /\ worker' = [worker EXCEPT ![j] = worker'[j]]
        /\ cache'[j] = s /\ latched'[j] = l /\ trail'[j] = z
    BY <1>4, <1>6, State
  <1>9. cache' = [cache EXCEPT ![j] = s] /\ trail' = [trail EXCEPT ![j] = z]
    OBVIOUS
  <1> HIDE DEF s, l, z
  <1> QED
    BY <1>3, <1>4, <1>5, <1>7, <1>8, <1>9, Unchanged, HandledStep

LEMMA HandleMismatchStep ==
    ASSUME IInv, LogKept, NEW j \in Schedule, HandleMismatch(j)
    PROVE  IInv'
  <1>1. worker[j].pc = "answered" /\ worker[j].row.token \in Token
    BY State, WorkerAt DEF HandleMismatch
  <1>2. CASE worker[j].kind = "advance" \/ j \in renegotiated
    BY <1>1, <1>2, DurableStep DEF HandleMismatch
  <1>3. CASE ~(worker[j].kind = "advance" \/ j \in renegotiated)
    BY <1>1, <1>3, HeldStep DEF HandleMismatch
  <1> QED
    BY <1>2, <1>3

LEMMA ConcludeStep ==
    ASSUME IInv, LogKept, NEW j \in Schedule, Conclude(j)
    PROVE  IInv'
  <1>1. IdleWorker \in Worker /\ IdleWorker.pc = "idle" /\ worker' = [worker EXCEPT ![j] = IdleWorker]
    BY DEF IdleWorker, Worker, Conclude
  <1>2. worker'[j].pc = "idle" /\ worker' \in [Schedule -> Worker]
    BY <1>1, State
  <1>3. Free(j)' /\ AnswerOK(j)'
    BY <1>2, WorkerDone
  <1>4. CASE UNCHANGED <<cache, latched, renegotiated>>
    BY <1>1, <1>3, <1>4, OnlyWorker DEF Conclude
  <1>5. CASE OnContractRenegotiated
    <2>1. TypeOK'
      BY <1>2, <1>5, State, RenegotiatedTypes DEF TypeOK, LogKept, Conclude, streamVars, ghostVars
    <2>2. UNCHANGED <<trail, verdict>>
      BY DEF Conclude, ghostVars
    <2>3. Trailed(j)' /\ FireOwed(j)'
      BY <1>5, <2>2, State, RenegotiatedIsGood DEF Trailed, FireOwed
    <2> QED
      BY <1>1, <1>3, <1>5, <2>1, <2>2, <2>3, RenegotiatedIsGood, CycleStep
  <1> QED
    BY <1>4, <1>5 DEF Conclude

-----------------------------------------------------------------------------
(* The theorems.                                                           *)

LEMMA InitIInv == Init => IInv
  <1>1. ASSUME Init PROVE TypeOK
    <2>1. LogTypeOK /\ Now = 0 /\ EmptySlot \in Slot /\ IdleWorker \in Worker
      BY <1>1 DEF Init, LogInit, LogTypeOK, Now, EmptySlot, Slot, IdleWorker, Worker
    <2> QED
      BY <1>1, <2>1, MismatchAssumption DEF Init, TypeOK, Stream
  <1>2. ASSUME Init, NEW i \in Schedule
        PROVE  /\ Holds(cache[i]) /\ Owed(i, cache[i], latched[i])
               /\ Free(i) /\ AnswerOK(i) /\ Trailed(i) /\ FireOwed(i)
    <2>1. /\ cache[i] = EmptySlot /\ worker[i] = IdleWorker /\ latched[i] = None
          /\ renegotiated = {} /\ verdict[i] = None
      BY <1>2 DEF Init
    <2>2. EmptySlot.stop = None /\ ~Present(EmptySlot) /\ IdleWorker.pc = "idle"
      BY DEF EmptySlot, Present, IdleWorker
    <2> QED
      BY <2>1, <2>2 DEF Holds, Owed, Free, AnswerOK, Trailed, FireOwed
  <1> QED
    BY <1>1, <1>2 DEF IInv

LEMMA NextIInv ==
    ASSUME IInv, [Next]_vars
    PROVE  IInv'
  <1>1. LogKept
    BY State, StepKeepsLog
  <1> QED
    BY <1>1, StreamStep, DeliverNextStep, StreamSyncsStep, FlushStep, StreamOpensStep, IterateStep,
       MoveOnStep, BrainDecidesStep, HandleAcceptedStep, HandleStaleStep, HandleMismatchStep,
       ConcludeStep DEF Next

\* Every variable keeps its type, and the invariant above holds in every state the
\* engine, the Watch stream, the reporter and the Brain can reach between them.
THEOREM MismatchInvariant == Spec => []IInv
  BY InitIInv, NextIInv, PTL DEF Spec

\* A stop that no revision of the Brain's will end, the one a cadence mismatch takes,
\* is remembered under its own token until an agreement lifts it: neither the pruning
\* of an iteration, nor a row that is streamed meanwhile, nor a reconnect forgets it
\* and leaves the schedule dark.
THEOREM StopsAreOwed == Spec => []StopIsOwedAnAgreement
  <1>1. IInv => StopIsOwedAnAgreement
    BY DEF IInv, Owed, StopIsOwedAnAgreement
  <1> QED
    BY <1>1, MismatchInvariant, PTL

\* A schedule that runs here is one the Brain enables at the revision cached, and not
\* one this process has quarantined, whatever was held, resumed, redefined, refused or
\* lifted in between.
THEOREM LiftedStopsGiveBack == Spec => []LiftedAsTheBrainHasIt
  <1>1. IInv => LiftedAsTheBrainHasIt
    BY DEF IInv, Holds, LiftedAsTheBrainHasIt
  <1> QED
    BY <1>1, MismatchInvariant, PTL

\* A fire is reported as a durable mismatch only if an earlier refusal of its schedule
\* was held first, however the answers, the reconnects and the iterations interleave.
THEOREM FiresAreHeldFirst == Spec => []FireHeldFirst
  <1>1. IInv => FireHeldFirst
    BY DEF IInv, FireOwed, FireHeldFirst
  <1> QED
    BY <1>1, MismatchInvariant, PTL
=============================================================================
