-------------------------- MODULE CadenceMismatch --------------------------
(***************************************************************************)
(* What a cadence mismatch refusal does (tick/engine.py): the first one    *)
(* stops the schedule in this process and asks the Brain whether the       *)
(* contract still holds; agreement, asked for by the engine or by the      *)
(* Watch stream's reconnect, lifts every such stop; a second refusal after *)
(* that is a durable quarantine.  The engine's workers, its iterations,    *)
(* the Watch stream and the quarantine reporter run as separate tasks and  *)
(* meet only at their RPCs, which are the interleaving points here.        *)
(*                                                                         *)
(* `trail` and `verdict` are history variables: they record why a durable  *)
(* quarantine was decided, and no action's guard reads them.               *)
(***************************************************************************)
EXTENDS BrainLog

CONSTANTS
    MaxFlips    \* bound of this model: changes of the Brain's cadence runtime

\* A held mismatch: its generation, and whether a fire of the schedule was
\* accepted since.
Trail == [token: Token, accepted: BOOLEAN]

ASSUME MismatchAssumption ==
    /\ MaxFlips \in Nat
    /\ None \notin Trail

VARIABLES
    agrees,         \* does the Brain run the negotiated cadence runtime now?
    flips,          \* how often that changed
    cache,          \* cache[i]: the slot of schedule i (CacheRow)
    latched,        \* _cadence_mismatch_latched
    renegotiated,   \* _cadence_renegotiated
    pending,        \* QuarantineReporter._pending, keyed (id, token)
    worker,         \* worker[i]: the fire cycle of schedule i
    stream,         \* the watch loop, see Stream
    cursor,         \* last revision the Watch stream delivered
    trail,          \* trail[i]: the last mismatch of i that was held
    verdict         \* verdict[i]: the last durable mismatch of i

engineVars == <<latched, renegotiated, pending, worker>>
streamVars == <<stream, cursor>>
ghostVars == <<trail, verdict>>
vars == <<history, agrees, flips, cache, engineVars, streamVars, ghostVars>>

Verdict == [kind: {"fire", "advance"}, token: Token, grounds: Trail \cup {None}]

\* What the Brain answered; `grounds` is the trail when it decided.
Answer == [kind: {"accepted", "stale", "mismatch"}, live: Nat, accepted: Nat,
           grounds: Trail \cup {None}]

\* queued: claimed by an iteration.  sent: the RPC is out.  answered: its answer is
\* on the way back.  asking: NegotiateProtocol is out.  told: its answer, `agreed`,
\* is on the way back.
Worker ==
    [pc: {"idle"}]
    \cup [pc: {"queued"}, row: Row]
    \cup [pc: {"sent"}, row: Row, kind: {"fire", "advance"}]
    \cup [pc: {"answered"}, row: Row, kind: {"fire", "advance"}, answer: Answer]
    \cup [pc: {"asking"}]
    \cup [pc: {"told"}, agreed: BOOLEAN]

IdleWorker == [pc |-> "idle"]

\* down: backing off.  asking, agreed: the reconnect negotiation.  syncing: its full
\* sync.  open: healthy.
Stream == {"down", "asking", "agreed", "syncing", "open"}

TypeOK ==
    /\ LogTypeOK
    /\ agrees \in BOOLEAN /\ flips \in 0..MaxFlips
    /\ cache \in [Schedule -> Slot]
    /\ latched \in [Schedule -> Token \cup {None}]
    /\ renegotiated \in SUBSET Schedule
    /\ pending \in SUBSET (Schedule \X Token)
    /\ worker \in [Schedule -> Worker]
    /\ stream \in Stream /\ cursor \in 0..Now
    /\ trail \in [Schedule -> Trail \cup {None}]
    /\ verdict \in [Schedule -> Verdict \cup {None}]

Init ==
    /\ LogInit
    /\ agrees = TRUE /\ flips = 0
    /\ cache = [i \in Schedule |-> EmptySlot]
    /\ latched = [i \in Schedule |-> None]
    /\ renegotiated = {} /\ pending = {}
    /\ worker = [i \in Schedule |-> IdleWorker]
    /\ stream = "open" /\ cursor = 0
    /\ trail = [i \in Schedule |-> None]
    /\ verdict = [i \in Schedule |-> None]

-----------------------------------------------------------------------------
(* The Brain.                                                              *)

BrainChanges ==
    /\ \E i \in Schedule :
          \/ \E t \in Token : BrainCreate(i, t) \/ BrainEdit(i, t)
          \/ BrainToggleHold(i) \/ BrainDelete(i) \/ BrainAcceptElsewhere(i)
    /\ UNCHANGED <<agrees, flips, cache, engineVars, streamVars, ghostVars>>

\* The Brain restarts on another cadence runtime, or comes back on ours.
RuntimeFlips ==
    /\ flips < MaxFlips
    /\ agrees' = ~agrees /\ flips' = flips + 1
    /\ UNCHANGED <<history, cache, engineVars, streamVars, ghostVars>>

\* The event that resolved the slot of row e of schedule i, if it is in the log.
ResolvedAt(i, e, a) ==
    /\ a \in (e.rev + 1)..Now
    /\ history[a].id = i /\ history[a].live
    /\ history[a].token = e.token /\ history[a].cursor = e.cursor + 1
    /\ \A q \in (e.rev + 1)..(a - 1) : history[q].id # i

Answered(i, kind, live, accepted) ==
    worker' = [worker EXCEPT ![i] =
        [pc |-> "answered", row |-> @.row, kind |-> @.kind,
         answer |-> [kind |-> kind, live |-> live, accepted |-> accepted,
                     grounds |-> trail[i]]]]

\* The Brain decides a fire or a cursor advance.  Another runtime is refused
\* before anything else.
BrainDecides(i) ==
    /\ worker[i].pc = "sent"
    /\ LET e == worker[i].row
           held(r) == LiveRow(i, r, Now)
       IN  \/ ~agrees /\ Answered(i, "mismatch", 0, 0) /\ UNCHANGED history
           \/ /\ agrees /\ held(e.rev) /\ history[e.rev].enabled
              /\ Accept(e.rev) /\ Answered(i, "accepted", Now + 1, Now + 1)
           \/ \E r, a \in 1..Now :
                 /\ agrees /\ held(r) /\ history[r].enabled /\ ResolvedAt(i, e, a)
                 /\ Answered(i, "accepted", r, a) /\ UNCHANGED history
           \/ \E r \in 1..Now :
                 /\ agrees /\ held(r) /\ ~(r = e.rev /\ history[r].enabled)
                 /\ ~(history[r].enabled /\ \E a \in 1..Now : ResolvedAt(i, e, a))
                 /\ Answered(i, "stale", r, 0) /\ UNCHANGED history
           \/ /\ agrees /\ DeletedBy(i, Now)
              /\ Answered(i, "stale", 0, 0) /\ UNCHANGED history
    /\ UNCHANGED <<agrees, flips, cache, latched, renegotiated, pending, streamVars, ghostVars>>

-----------------------------------------------------------------------------
(* The Watch stream and the agreement it brings.                           *)

\* Mutant: what was latched is forgotten without lifting the stop.
OnContractRenegotiatedKeepingStops ==
    LET held == {i \in Schedule : latched[i] # None}
    IN  /\ latched' = [i \in Schedule |-> None]
        /\ renegotiated' = renegotiated \cup held
        /\ UNCHANGED cache

\* Mutant: the stop is lifted to "enabled", not to what the Brain sent.
OnContractRenegotiatedEnabling ==
    LET held == {i \in Schedule : latched[i] # None}
    IN  /\ latched' = [i \in Schedule |-> None]
        /\ renegotiated' = renegotiated \cup held
        /\ cache' = [i \in Schedule |->
                        IF i \in held /\ HoldsStop(cache[i], latched[i])
                        THEN [cache[i] EXCEPT !.stop = None,
                                              !.entry = [@ EXCEPT !.enabled = TRUE]]
                        ELSE cache[i]]

\* on_cadence_contract_renegotiated: every mismatch stop is lifted.
OnContractRenegotiated ==
    LET held == {i \in Schedule : latched[i] # None}
    IN  /\ latched' = [i \in Schedule |-> None]
        /\ renegotiated' = renegotiated \cup held
        /\ cache' = [i \in Schedule |->
                        IF i \in held THEN ReleaseStop(cache[i], latched[i]) ELSE cache[i]]

\* The next frame of the ordered stream; the snapshot it follows left no watermark
\* above the cursor.
DeliverNext ==
    /\ stream = "open" /\ cursor < Now
    /\ LET r == cursor + 1
           i == history[r].id
       IN  /\ cache' = [cache EXCEPT ![i] =
                  IF history[r].live THEN MergeRow(@, RowAt(r), 0) ELSE ApplyTombstone(@, r, 0)]
           /\ cursor' = r
    /\ UNCHANGED <<history, agrees, flips, engineVars, stream, ghostVars>>

StreamEnds ==
    /\ stream = "open"
    /\ stream' = "down"
    /\ UNCHANGED <<history, agrees, flips, cache, engineVars, cursor, ghostVars>>

\* _refresh_protocol_mode: the negotiation of every reconnect is asked ...
StreamAsks ==
    /\ stream = "down"
    /\ stream' = "asking"
    /\ UNCHANGED <<history, agrees, flips, cache, engineVars, cursor, ghostVars>>

\* ... answered, at some point, by the Brain of that moment ...
StreamAgreed ==
    /\ stream = "asking" /\ agrees
    /\ stream' = "agreed"
    /\ UNCHANGED <<history, agrees, flips, cache, engineVars, cursor, ghostVars>>

\* ... or refused, or lost: the loop backs off and asks again.
StreamRefused ==
    /\ stream = "asking"
    /\ stream' = "down"
    /\ UNCHANGED <<history, agrees, flips, cache, engineVars, cursor, ghostVars>>

\* The slot of schedule i after the full sync that precedes the stream.
Synced(s, i) ==
    IF \E r \in 1..Now : LiveRow(i, r, Now)
    THEN MergeRow(s, RowAt(CHOOSE r \in 1..Now : LiveRow(i, r, Now)), 0)
    ELSE EmptySlot

\* The agreement is used to lift the stops, then the snapshot is installed and the
\* stream opens.
StreamOpens ==
    /\ stream = "agreed"
    /\ OnContractRenegotiated
    /\ stream' = "syncing"
    /\ UNCHANGED <<history, agrees, flips, pending, worker, cursor, ghostVars>>

StreamSyncs ==
    /\ stream = "syncing"
    /\ cache' = [i \in Schedule |-> Synced(cache[i], i)]
    /\ cursor' = Now
    /\ stream' = "open"
    /\ UNCHANGED <<history, agrees, flips, engineVars, ghostVars>>

-----------------------------------------------------------------------------
(* The engine.                                                             *)

\* One iteration: every worker of the last one is done, bookkeeping of rows that
\* are gone or regenerated is pruned, and, while the stream is healthy, some of the
\* enabled schedules are due.
Iterate(due) ==
    /\ \A i \in Schedule : worker[i].pc = "idle"
    /\ \A i \in due : stream = "open" /\ Present(cache[i]) /\ cache[i].entry.enabled
    /\ latched' = [i \in Schedule |->
           IF Present(cache[i]) /\ cache[i].entry.token = latched[i] THEN latched[i] ELSE None]
    /\ renegotiated' = {i \in renegotiated : Present(cache[i])}
    /\ worker' = [i \in Schedule |->
           IF i \in due THEN [pc |-> "queued", row |-> cache[i].entry] ELSE worker[i]]
    /\ UNCHANGED <<history, agrees, flips, cache, pending, streamVars, ghostVars>>

\* The gates are read again before the RPC; a fire also looks at its live row.
Send(i, kind) ==
    /\ worker[i].pc = "queued"
    /\ stream = "open"
    /\ kind = "fire" => Present(cache[i]) /\ cache[i].entry.enabled
    /\ worker' = [worker EXCEPT ![i] = [pc |-> "sent", row |-> @.row, kind |-> kind]]
    /\ UNCHANGED <<history, agrees, flips, cache, latched, renegotiated, pending,
                   streamVars, ghostVars>>

\* A gate has closed since the claim, or the row was redefined: nothing is sent.
\* Or the RPC failed for good: back off and keep the slot.
Stand(i) ==
    /\ worker[i].pc \in {"queued", "sent"}
    /\ worker' = [worker EXCEPT ![i] = IdleWorker]
    /\ UNCHANGED <<history, agrees, flips, cache, latched, renegotiated, pending,
                   streamVars, ghostVars>>

\* _fire_with_retry: a fire whose answer was lost is sent again, while the stream is
\* healthy.  A cursor advance is not retried.
Retry(i) ==
    /\ worker[i].pc = "answered" /\ worker[i].kind = "fire"
    /\ stream = "open"
    /\ worker' = [worker EXCEPT ![i] = [pc |-> "sent", row |-> @.row, kind |-> "fire"]]
    /\ UNCHANGED <<history, agrees, flips, cache, latched, renegotiated, pending,
                   streamVars, ghostVars>>

\* apply_cursor_transition's result: installed now, or by the Watch stream before.
Installed(s, e, rev) ==
    \/ TransitionApplies(s, e)
    \/ Present(s) /\ s.entry.token = e.token /\ s.entry.rev = rev

HandleAccepted(i) ==
    /\ worker[i].pc = "answered" /\ worker[i].answer.kind = "accepted"
    /\ LET e == worker[i].row
           a == worker[i].answer
           fire == worker[i].kind = "fire"
           same == history[a.live].token = e.token
       IN  /\ cache' = [cache EXCEPT ![i] =
                  IF same THEN CursorTransition(@, e, a.live, history[a.live].cursor)
                  ELSE IF fire THEN LatchStop(@, e.token, a.live) ELSE @]
           /\ renegotiated' =
                  IF fire /\ same /\ Installed(cache[i], e, a.live) /\ a.live = a.accepted
                  THEN renegotiated \ {i} ELSE renegotiated
           /\ trail' = IF fire /\ trail[i] # None
                       THEN [trail EXCEPT ![i].accepted = TRUE] ELSE trail
    /\ worker' = [worker EXCEPT ![i] = IdleWorker]
    /\ UNCHANGED <<history, agrees, flips, latched, pending, streamVars, verdict>>

\* A refused fire stops the row until the Brain's state supersedes it; a refused
\* advance keeps the slot.
HandleStale(i) ==
    /\ worker[i].pc = "answered" /\ worker[i].answer.kind = "stale"
    /\ cache' = [cache EXCEPT ![i] =
           IF worker[i].kind = "fire"
           THEN LatchStop(@, worker[i].row.token, worker[i].answer.live) ELSE @]
    /\ worker' = [worker EXCEPT ![i] = IdleWorker]
    /\ UNCHANGED <<history, agrees, flips, latched, renegotiated, pending, streamVars, ghostVars>>

\* _record_local_quarantine: latch the observed generation, then report it.
Durable(i) ==
    LET t == worker[i].row.token
        bound == Present(cache[i]) /\ cache[i].entry.token = t
    IN  /\ cache' = [cache EXCEPT ![i] = QuarantineLocally(@, t)]
        /\ pending' = IF bound THEN pending \cup {<<i, t>>} ELSE pending
        /\ verdict' = IF bound
                      THEN [verdict EXCEPT ![i] = [kind |-> worker[i].kind, token |-> t,
                                                   grounds |-> worker[i].answer.grounds]]
                      ELSE verdict

\* Mutant: the stop is taken, but not recorded as one of ours.
HandleMismatchUnrecorded(i) ==
    /\ worker[i].pc = "answered" /\ worker[i].answer.kind = "mismatch"
    /\ cache' = [cache EXCEPT ![i] = LatchStop(@, worker[i].row.token, 0)]
    /\ worker' = [worker EXCEPT ![i] = [pc |-> "asking"]]
    /\ UNCHANGED <<history, agrees, flips, latched, renegotiated, pending, streamVars, ghostVars>>

\* _handle_cadence_mismatch for a fire; for an advance the mismatch is raised and
\* quarantines the schedule at once.
HandleMismatch(i) ==
    /\ worker[i].pc = "answered" /\ worker[i].answer.kind = "mismatch"
    /\ LET t == worker[i].row.token
           stopped == LatchStop(cache[i], t, 0)
           durable == worker[i].kind = "advance" \/ i \in renegotiated
       IN  IF durable
           THEN /\ Durable(i)
                /\ worker' = [worker EXCEPT ![i] = IdleWorker]
                /\ renegotiated' = IF worker[i].kind = "fire"
                                   THEN renegotiated \ {i} ELSE renegotiated
                /\ UNCHANGED <<latched, trail>>
           ELSE /\ cache' = [cache EXCEPT ![i] = stopped]
                /\ latched' = IF HoldsStop(stopped, t) THEN [latched EXCEPT ![i] = t] ELSE latched
                /\ worker' = [worker EXCEPT ![i] = [pc |-> "asking"]]
                /\ trail' = [trail EXCEPT ![i] = [token |-> t, accepted |-> FALSE]]
                /\ UNCHANGED <<renegotiated, pending, verdict>>
    /\ UNCHANGED <<history, agrees, flips, streamVars>>

\* _cadence_contract_agrees: the Brain of that moment agrees ...
Agreed(i) ==
    /\ worker[i].pc = "asking" /\ agrees
    /\ worker' = [worker EXCEPT ![i] = [pc |-> "told", agreed |-> TRUE]]
    /\ UNCHANGED <<history, agrees, flips, cache, latched, renegotiated, pending,
                   streamVars, ghostVars>>

\* ... or it does not, or cannot be asked: one attempt, any failure means no.
NotAgreed(i) ==
    /\ worker[i].pc = "asking"
    /\ worker' = [worker EXCEPT ![i] = [pc |-> "told", agreed |-> FALSE]]
    /\ UNCHANGED <<history, agrees, flips, cache, latched, renegotiated, pending,
                   streamVars, ghostVars>>

Conclude(i) ==
    /\ worker[i].pc = "told"
    /\ IF worker[i].agreed
       THEN OnContractRenegotiated
       ELSE UNCHANGED <<cache, latched, renegotiated>>
    /\ worker' = [worker EXCEPT ![i] = IdleWorker]
    /\ UNCHANGED <<history, agrees, flips, pending, streamVars, ghostVars>>

-----------------------------------------------------------------------------
(* The quarantine reporter.  A failed attempt changes nothing and is repeated. *)

\* flush_once for one report: applied, stale with a refresh, or not found.
Flush(i, t) ==
    /\ <<i, t>> \in pending
    /\ pending' = pending \ {<<i, t>>}
    /\ \/ \E r \in 1..Now :
             /\ LiveRow(i, r, Now)
             /\ IF history[r].token # t
                THEN cache' = [cache EXCEPT ![i] = MergeRow(@, RowAt(r), 0)] /\ UNCHANGED history
                ELSE /\ UNCHANGED cache
                     /\ IF history[r].enabled
                        THEN Commit([history[r] EXCEPT !.enabled = FALSE])
                        ELSE UNCHANGED history
       \/ /\ DeletedBy(i, Now)
          /\ cache' = [cache EXCEPT ![i] = ApplyAbsence(@, Now)]
          /\ UNCHANGED history
    /\ UNCHANGED <<agrees, flips, latched, renegotiated, worker, streamVars, ghostVars>>

-----------------------------------------------------------------------------
Next ==
    \/ BrainChanges \/ RuntimeFlips
    \/ DeliverNext \/ StreamEnds \/ StreamAsks \/ StreamAgreed \/ StreamRefused
    \/ StreamOpens \/ StreamSyncs
    \/ \E due \in SUBSET Schedule : Iterate(due)
    \/ \E i \in Schedule :
          \/ Send(i, "fire") \/ Send(i, "advance") \/ Stand(i) \/ Retry(i) \/ BrainDecides(i)
          \/ HandleAccepted(i) \/ HandleStale(i) \/ HandleMismatch(i)
          \/ Agreed(i) \/ NotAgreed(i) \/ Conclude(i)
          \/ \E t \in Token : Flush(i, t)

Spec == Init /\ [][Next]_vars

\* Tasks run on, RPCs end by their deadlines, and a Brain that agrees again and
\* again is reached by the reconnect negotiation at last.  Nothing makes a healthy
\* stream break.
FairSpec ==
    /\ Spec
    /\ \A i \in Schedule :
          /\ WF_vars(Send(i, "fire") \/ Stand(i))
          /\ WF_vars(HandleAccepted(i) \/ HandleStale(i) \/ HandleMismatch(i))
          /\ WF_vars(Agreed(i) \/ NotAgreed(i))
          /\ WF_vars(Conclude(i))
    /\ WF_vars(DeliverNext)
    /\ WF_vars(StreamAsks)
    /\ SF_vars(StreamAgreed)
    /\ WF_vars(StreamOpens)
    /\ WF_vars(StreamSyncs)

-----------------------------------------------------------------------------
(* Properties.                                                             *)

\* A stop that no event of the Brain's will end is owed an agreement: the engine
\* remembers exactly that generation and lifts it with the next one.  The other
\* such stop is a refusal because the schedule is gone, and its tombstone ends it.
StopIsOwedAnAgreement ==
    \A i \in Schedule :
        cache[i].stop # None /\ cache[i].stop.refusedAt = 0 =>
            latched[i] = cache[i].stop.token \/ DeletedBy(i, Now)

\* Lifting a stop gives back what the Brain sent and nothing more: a schedule held
\* by an operator, or quarantined here, meanwhile, is not switched on by it.
LiftedAsTheBrainHasIt ==
    \A i \in Schedule :
        Present(cache[i]) /\ cache[i].entry.enabled =>
            /\ history[cache[i].entry.rev].enabled
            /\ cache[i].quarantine = None

\* "The first mismatch is held locally" (a fire's): no fire is reported as a durable
\* mismatch unless an earlier refusal of that schedule was held.
FireHeldFirst ==
    \A i \in Schedule :
        verdict[i] # None /\ verdict[i].kind = "fire" => verdict[i].grounds # None

\* A mismatch stop does not outlive the disagreement, provided the stream breaks
\* again: any reconnect that reaches an agreeing Brain lifts all of them.
ReconnectLiftsStops ==
    []<>(stream = "down") /\ <>[]agrees => <>[](\A i \in Schedule : cache[i].stop = None)

\* "No agreement keeps the stop: the Watch stream is renegotiating on the same terms
\* and lifts it ... when the Brain comes back on the negotiated contract."
AgreeingBrainLiftsStops ==
    <>[]agrees => <>[](\A i \in Schedule : cache[i].stop = None)

\* "A cadence mismatch answered mid-flight must not quarantine durably": whichever
\* request was refused, the first refusal of a schedule is held.
FirstRefusalIsHeld == \A i \in Schedule : verdict[i] # None => verdict[i].grounds # None

\* "once it is gone, or under a new control generation, there is nothing left to
\* release or to hold durable", and the mark is "cleared by an accepted fire": a
\* durable verdict is about the generation that was held, with no accepted fire in
\* between.  Otherwise it is a new incident, owed a renegotiation of its own.
DurableIsOneIncident ==
    \A i \in Schedule :
        verdict[i] # None /\ verdict[i].kind = "fire" =>
            \/ verdict[i].grounds = None
            \/ verdict[i].grounds.token = verdict[i].token /\ ~verdict[i].grounds.accepted
=============================================================================
