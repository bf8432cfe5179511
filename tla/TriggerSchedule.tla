--------------------------- MODULE TriggerSchedule ---------------------------
(***************************************************************************)
(* The operator's trigger: TriggerScheduleServicer (handlers.py) behind    *)
(* the allow-list of auth.py, and the manual path of the FireDispatcher    *)
(* (trigger_now, _fire_with_retry, _best_effort_ack in fire.py).           *)
(*                                                                         *)
(* The Brain calls a replica with a deadline and an idempotency key; the   *)
(* replica calls the Brain back with FireSchedule.  A handler runs from    *)
(* one await to the next.  The Brain, the client's deadline and grpc.aio,  *)
(* which cancels a handler nobody waits for, are external.                 *)
(***************************************************************************)
EXTENDS Integers, FiniteSets, Sequences

CONSTANT
    Replicas, Schedules,
    Keys,           \* the idempotency keys the Brain sends
    NoKey,          \* the empty key of a legacy caller
    MaxCalls,       \* bound: the calls, retries by the client included
    MaxOpen,        \* bound: how many are in progress at a time
    MaxAttempts,    \* 1 + fire_retry_max
    TTL,            \* _IDEM_TTL_SECONDS, in ticks of the monotonic clock
    SweepBudget,    \* _IDEM_SWEEP_BUDGET
    MaxTime,        \* bound of the clock
    MaxCrashes      \* bound: how often a replica's process restarts

ASSUME KeyAssumption == NoKey \notin Keys
ASSUME BoundsAssumption ==
    /\ MaxCalls \in Nat /\ MaxOpen \in Nat /\ MaxAttempts \in Nat \ {0} /\ TTL \in Nat \ {0}
    /\ SweepBudget \in Nat /\ MaxTime \in Nat /\ MaxCrashes \in Nat

VARIABLES
    now,        \* time.monotonic()
    leader,     \* the replica whose leader gate holds the project
    request,    \* what each call asks, and of which replica
    step,       \* where the handler of a call awaits
    deserted,   \* the calls in progress whose answer the Brain no longer waits for
    attempt,    \* how many FireSchedule calls the retry loop of a handler has made
    fireId,     \* the fire id of a handler in progress, once it has one
    result,     \* the command of a successful result, and then what the call was told
    idem,       \* _idem_cache of each replica
    drawnBy,    \* history: the calls that drew fire ids, in that order; the n-th id is n
    accepted,   \* the fires the Brain has a Command of, or has buffered
    firedAt,    \* history: when a handler that fired answered, until its replica crashes
    crashes

call == <<step, deserted, attempt, fireId, result>>
vars == <<now, leader, request, call, idem, drawnBy, accepted, firedAt, crashes>>

Calls == 1..MaxCalls
Requests == [schedule : Schedules, key : Keys \cup {NoKey}, replica : Replicas]
NoRequest == [schedule |-> NoKey, key |-> NoKey, replica |-> NoKey]
Nobody == NoKey

FireIds == Nat \ {0}
NoId == 0
Never == -1

(* A fire's Command is named like the fire.  A fire the Brain has buffered is *)
(* a success without one, and str(None) is what its caller is told.           *)
NoFire == 0
NoCommand == -1
NoneText == -2
Str(command) == IF command = NoCommand THEN NoneText ELSE command

Answers == FireIds \cup {NoneText}
Entries == [schedule : Schedules, key : Keys, at : 0..MaxTime, answer : Answers]

TypeOK ==
    /\ now \in 0..MaxTime
    /\ leader \in Replicas \cup {Nobody}
    /\ request \in [Calls -> Requests \cup {NoRequest}]
    /\ step \in [Calls -> {"idle", "firing", "backoff", "ack", "done"}]
    /\ deserted \subseteq Calls
    /\ attempt \in [Calls -> 0..MaxAttempts]
    /\ fireId \in [Calls -> FireIds \cup {NoId}]
    /\ result \in [Calls -> Answers \cup {NoFire, NoCommand}]
    /\ idem \in [Replicas -> SUBSET Entries]
    /\ \A r \in Replicas : \A e, f \in idem[r] :
          e.schedule = f.schedule /\ e.key = f.key => e = f
    /\ drawnBy \in Seq(Calls)
    /\ accepted \subseteq DOMAIN drawnBy
    /\ firedAt \in [Calls -> {Never} \cup 0..MaxTime]
    /\ crashes \in 0..MaxCrashes

Init ==
    /\ now = 0
    /\ leader \in Replicas
    /\ request = [c \in Calls |-> NoRequest]
    /\ step = [c \in Calls |-> "idle"]
    /\ deserted = {}
    /\ attempt = [c \in Calls |-> 0]
    /\ fireId = [c \in Calls |-> NoId]
    /\ result = [c \in Calls |-> NoFire]
    /\ idem = [r \in Replicas |-> {}]
    /\ drawnBy = <<>> /\ accepted = {}
    /\ firedAt = [c \in Calls |-> Never]
    /\ crashes = 0

InProgress(c) == step[c] \notin {"idle", "done"}

-----------------------------------------------------------------------------
(* The Brain's TriggerScheduleClient.  It repeats a key only when it no    *)
(* longer waits for the call that carried it: any answer may be lost.      *)

SameKey(q, p) == q.schedule = p.schedule /\ q.key = p.key

Arrives(c, q) ==
    /\ step[c] = "idle" /\ \A d \in 1..c - 1 : step[d] # "idle"
    /\ Cardinality({d \in Calls : InProgress(d)}) < MaxOpen
    /\ \A d \in Calls \ deserted : InProgress(d) /\ q.key # NoKey => ~SameKey(request[d], q)
    /\ request' = [request EXCEPT ![c] = q]

(* its deadline has passed, or the connection is lost *)
ClientGivesUp(c) ==
    /\ InProgress(c) /\ c \notin deserted
    /\ deserted' = deserted \cup {c}
    /\ UNCHANGED <<now, leader, request, step, attempt, fireId, result, idem, drawnBy, accepted, firedAt, crashes>>

-----------------------------------------------------------------------------
(* TriggerSchedule, up to its await of trigger_now *)

Fresh(at) == now - at < TTL

Expired(r) == {e \in idem[r] : ~Fresh(e.at)}

(* _sweep_expired_idem_entries drops as many expired entries as the budget allows *)
Swept(r) ==
    {idem[r] \ drop : drop \in {d \in SUBSET Expired(r) :
        Cardinality(d) = IF Cardinality(Expired(r)) < SweepBudget
                            THEN Cardinality(Expired(r)) ELSE SweepBudget}}

Of(q, entries) == {e \in entries : SameKey(e, q)}

\* Mutant: an entry the sweep has left behind is a hit whatever its age.
HitsOfAnyAge(q, entries) == Of(q, entries)

Hits(q, entries) == {e \in Of(q, entries) : Fresh(e.at)}

Answer(c, answer) ==
    /\ step' = [step EXCEPT ![c] = "done"]
    /\ deserted' = deserted \ {c}
    /\ attempt' = [attempt EXCEPT ![c] = 0]
    /\ fireId' = [fireId EXCEPT ![c] = NoId]
    /\ result' = [result EXCEPT ![c] = answer]

(* PERMISSION_DENIED by _enforce_cn, invalid_request, not_in_cache, not_leader; *)
(* what the cache and the certificate say is read at this moment               *)
Rejected(c, q) ==
    /\ Arrives(c, q)
    /\ Answer(c, NoFire)
    /\ UNCHANGED <<now, leader, idem, drawnBy, accepted, firedAt, crashes>>

IdempotencyHit(c, q) ==
    /\ Arrives(c, q)
    /\ leader = q.replica /\ q.key # NoKey
    /\ \E entries \in Swept(q.replica) :
          /\ idem' = [idem EXCEPT ![q.replica] = entries]
          /\ \E e \in Hits(q, entries) : Answer(c, e.answer)
    /\ UNCHANGED <<now, leader, drawnBy, accepted, firedAt, crashes>>

Missed(c, q) ==
    /\ Arrives(c, q)
    /\ leader = q.replica
    /\ IF q.key = NoKey
          THEN UNCHANGED idem
          ELSE \E entries \in Swept(q.replica) :
                  /\ Hits(q, entries) = {}
                  /\ idem' = [idem EXCEPT ![q.replica] = entries]

(* trigger_now refuses a row with a control token without a wire call *)
RefusedHere(c, q) ==
    /\ Missed(c, q)
    /\ Answer(c, NoFire)
    /\ UNCHANGED <<now, leader, drawnBy, accepted, firedAt, crashes>>

(* uuid4(), in trigger_now before its retry loop *)
Draws(c) ==
    /\ drawnBy' = Append(drawnBy, c)
    /\ fireId' = [fireId EXCEPT ![c] = Len(drawnBy')]

Fires(c, q) ==
    /\ Missed(c, q)
    /\ Draws(c)
    /\ step' = [step EXCEPT ![c] = "firing"]
    /\ attempt' = [attempt EXCEPT ![c] = 1]
    /\ UNCHANGED <<now, leader, deserted, result, accepted, firedAt, crashes>>

-----------------------------------------------------------------------------
(* trigger_now: FireSchedule with its retries, then the acknowledgement *)

Lands(c) == accepted' = accepted \cup {fireId[c]}

Awaits(c, next) ==
    /\ step' = [step EXCEPT ![c] = next]
    /\ attempt' = [attempt EXCEPT ![c] = IF next = "ack" THEN 0 ELSE @]
    /\ UNCHANGED <<deserted, fireId>>

(* a Command of the fire, or a place in the Brain's buffer; for an id it has, no other fire *)
FireAccepted(c) ==
    /\ step[c] = "firing"
    /\ Lands(c)
    /\ Awaits(c, "ack")
    /\ \E command \in {fireId[c], NoCommand} : result' = [result EXCEPT ![c] = command]
    /\ UNCHANGED <<now, leader, request, idem, drawnBy, firedAt, crashes>>

(* a refusal is acknowledged as failed, but for legacy_upgrade_required: *)
(* _manual_fire_refusal_result                                           *)
FireRefused(c) ==
    /\ step[c] = "firing"
    /\ (Awaits(c, "ack") /\ UNCHANGED result) \/ Answer(c, NoFire)
    /\ UNCHANGED <<now, leader, request, idem, drawnBy, accepted, firedAt, crashes>>

(* A transient error, after which the Brain may have the fire.  The retry  *)
(* is withheld when it was the last one or the Watch stream is down.       *)
FireUnanswered(c) ==
    /\ step[c] = "firing"
    /\ Lands(c) \/ UNCHANGED accepted
    /\ \/ attempt[c] < MaxAttempts /\ Awaits(c, "backoff") /\ UNCHANGED result
       \/ Answer(c, NoFire)
    /\ UNCHANGED <<now, leader, request, idem, drawnBy, firedAt, crashes>>

\* Mutant: the retry is not counted.
BackoffEndsUncounted(c) ==
    /\ step[c] = "backoff"
    /\ step' = [step EXCEPT ![c] = "firing"]
    /\ UNCHANGED <<now, leader, request, deserted, attempt, fireId, result, idem, drawnBy, accepted, firedAt, crashes>>

\* Mutant: the id is drawn inside the retry loop.
BackoffEndsRedraws(c) ==
    /\ step[c] = "backoff"
    /\ step' = [step EXCEPT ![c] = "firing"]
    /\ attempt' = [attempt EXCEPT ![c] = @ + 1]
    /\ Draws(c)
    /\ UNCHANGED <<now, leader, request, deserted, result, idem, accepted, firedAt, crashes>>

(* the end of the sleep looks at the Watch stream again *)
BackoffEnds(c) ==
    /\ step[c] = "backoff"
    /\ \/ /\ step' = [step EXCEPT ![c] = "firing"]
          /\ attempt' = [attempt EXCEPT ![c] = @ + 1]
          /\ UNCHANGED <<deserted, fireId, result>>
       \/ Answer(c, NoFire)
    /\ UNCHANGED <<now, leader, request, idem, drawnBy, accepted, firedAt, crashes>>

\* Mutant: an entry of the key that has expired is not replaced.
RememberFirstOnly(c, q) ==
    LET entry == [schedule |-> q.schedule, key |-> q.key, at |-> now, answer |-> Str(result[c])] IN
        IF q.key = NoKey \/ Of(q, idem[q.replica]) # {}
           THEN UNCHANGED idem
           ELSE idem' = [idem EXCEPT ![q.replica] = @ \cup {entry}]

Remember(c, q) ==
    LET entry == [schedule |-> q.schedule, key |-> q.key, at |-> now, answer |-> Str(result[c])] IN
        IF q.key = NoKey
           THEN UNCHANGED idem
           ELSE idem' = [idem EXCEPT ![q.replica] = (@ \ Of(q, @)) \cup {entry}]

(* acknowledge_result returns or fails, and the handler answers *)
AckEnds(c) ==
    /\ step[c] = "ack"
    /\ Answer(c, Str(result[c]))
    /\ IF result[c] # NoFire
          THEN Remember(c, request[c]) /\ firedAt' = [firedAt EXCEPT ![c] = now]
          ELSE UNCHANGED <<idem, firedAt>>
    /\ UNCHANGED <<now, leader, request, drawnBy, accepted, crashes>>

(* nobody waits for the answer: grpc.aio cancels the handler at its await *)
Cancelled(c) ==
    /\ c \in deserted
    /\ Answer(c, NoFire)
    /\ UNCHANGED accepted \/ (step[c] = "firing" /\ Lands(c))
    /\ UNCHANGED <<now, leader, request, idem, drawnBy, firedAt, crashes>>

-----------------------------------------------------------------------------
(* the surroundings *)

(* the calls in progress on r die; the Brain may have what they were firing *)
Crash(r) ==
    LET mine == {c \in Calls : request[c].replica = r}
        died == {c \in mine : InProgress(c)} IN
        /\ crashes < MaxCrashes
        /\ crashes' = crashes + 1
        /\ idem' = [idem EXCEPT ![r] = {}]
        /\ step' = [c \in Calls |-> IF c \in died THEN "done" ELSE step[c]]
        /\ deserted' = deserted \ died
        /\ attempt' = [c \in Calls |-> IF c \in died THEN 0 ELSE attempt[c]]
        /\ fireId' = [c \in Calls |-> IF c \in died THEN NoId ELSE fireId[c]]
        /\ result' = [c \in Calls |-> IF c \in died THEN NoFire ELSE result[c]]
        /\ firedAt' = [c \in Calls |-> IF c \in mine THEN Never ELSE firedAt[c]]
        /\ leader' = IF leader = r THEN Nobody ELSE leader
        /\ \E landed \in SUBSET {c \in died : step[c] = "firing"} :
              accepted' = accepted \cup {fireId[c] : c \in landed}
        /\ UNCHANGED <<now, request, drawnBy>>

LeaderMoves(r) ==
    /\ leader # r
    /\ leader' = r
    /\ UNCHANGED <<now, request, call, idem, drawnBy, accepted, firedAt, crashes>>

Tick ==
    /\ now < MaxTime
    /\ now' = now + 1
    /\ UNCHANGED <<leader, request, call, idem, drawnBy, accepted, firedAt, crashes>>

Receive(c, q) == Rejected(c, q) \/ IdempotencyHit(c, q) \/ RefusedHere(c, q) \/ Fires(c, q)

Handler(c) ==
    FireAccepted(c) \/ FireRefused(c) \/ FireUnanswered(c) \/ BackoffEnds(c) \/ AckEnds(c)

Next ==
    \/ \E c \in Calls :
          Handler(c) \/ Cancelled(c) \/ ClientGivesUp(c) \/ \E q \in Requests : Receive(c, q)
    \/ \E r \in Replicas : Crash(r) \/ LeaderMoves(r)
    \/ Tick

Spec == Init /\ [][Next]_vars

(* The loop runs some handler that is ready, and every RPC has a deadline *)
FairSpec == Spec /\ WF_vars(\E c \in Calls : Handler(c))

-----------------------------------------------------------------------------

(* One TriggerSchedule call makes at most one fire of the Brain, however    *)
(* many FireSchedule attempts it took, however late they landed, and though *)
(* its handler is cancelled or its process dies between two of them.        *)
OneFirePerCall ==
    \A f, g \in accepted : drawnBy[f] = drawnBy[g] => f = g

(* An answer from the idempotency cache is what a call for the same schedule *)
(* with the same key was told less than the TTL ago, though the sweep may    *)
(* have left older entries behind; the Brain has a fire of that call, and    *)
(* the answer names it, or is the text of None if that fire was buffered.    *)
HitIsTruthful ==
    [][\A c \in Calls :
          step[c] = "idle" /\ result'[c] # NoFire =>
              \E d \in Calls, f \in accepted :
                  /\ SameKey(request'[c], request[d]) /\ drawnBy[f] = d
                  /\ firedAt[d] # Never /\ now - firedAt[d] < TTL
                  /\ result'[c] = result[d] /\ result[d] \in {f, NoneText}]_vars

(* A call that fires is no repetition of one that this process answered     *)
(* with a fire less than the TTL ago.                                       *)
RepeatFiresNothing ==
    [][\A c, d \in Calls :
          step[d] = "idle" /\ step'[d] = "firing" /\ firedAt[c] # Never
          /\ request[c] = request'[d] /\ request[c].key # NoKey
              => now - firedAt[c] >= TTL]_vars

(* Every call a replica takes is answered, cancelled or lost with its       *)
(* process: of finitely many calls, none is in progress in the end.         *)
EveryCallEnds ==
    []<>(\A c \in Calls : ~InProgress(c))

(* The docstring's claim: a call repeated with its key within the TTL gets  *)
(* the first call's command instead of a fresh fire.  Not so: see the       *)
(* README.                                                                  *)
OneFirePerKey ==
    now < TTL =>
        \A f, g \in accepted :
            SameKey(request[drawnBy[f]], request[drawnBy[g]]) /\ request[drawnBy[f]].key # NoKey => f = g
=============================================================================
