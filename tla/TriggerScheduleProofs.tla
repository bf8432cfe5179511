------------------------ MODULE TriggerScheduleProofs ------------------------
(***************************************************************************)
(* Proofs about the operator's trigger, for any set of replicas, schedules *)
(* and keys, any number of calls and of crashes, any TTL and any budget of *)
(* the sweep: one fire per call, and an idempotency cache that answers     *)
(* what a call of the same key was told and lets no repetition through     *)
(* within the TTL.                                                         *)
(***************************************************************************)
EXTENDS TriggerSchedule, TLAPS

-----------------------------------------------------------------------------
(* The inductive invariant *)

Steps == {"idle", "firing", "backoff", "ack", "done"}
Results == Answers \cup {NoFire, NoCommand}

DesertedInProgress == \A c \in deserted : InProgress(c)

\* A call that has arrived asks for something.
Asked == \A c \in Calls : step[c] # "idle" => request[c] \in Requests

\* There is an attempt left to a call that waits to retry.
AttemptLeft == \A c \in Calls : step[c] = "backoff" => attempt[c] < MaxAttempts

\* A call has no result before the Brain has answered it.
NoResultYet == \A c \in Calls : step[c] \in {"idle", "firing", "backoff"} => result[c] = NoFire

\* No call draws a second id, and none before it has arrived ...
DrawnOnce == \A m, n \in DOMAIN drawnBy : drawnBy[m] = drawnBy[n] => m = n
DrawnByCalls == \A n \in DOMAIN drawnBy : step[drawnBy[n]] # "idle"

\* ... so that a handler that fires, waits to retry or acknowledges holds the only one of its call.
Holding == {"firing", "backoff", "ack"}
HoldsOwnId ==
    \A c \in Calls : step[c] \in Holding =>
        fireId[c] \in DOMAIN drawnBy /\ drawnBy[fireId[c]] = c

OwnIds == DrawnOnce /\ DrawnByCalls /\ HoldsOwnId

\* A successful result is the Command of that fire, or stands for its place in the buffer.
AckOfOwnFire ==
    \A c \in Calls : step[c] = "ack" /\ result[c] # NoFire =>
        fireId[c] \in accepted /\ result[c] \in {fireId[c], NoCommand}

\* What an entry says is what this replica has told a call that made a fire.
EntryTrue(r, e) ==
    \E d \in Calls, f \in accepted :
        /\ drawnBy[f] = d /\ e.answer \in {f, NoneText} /\ result[d] = e.answer
        /\ step[d] = "done" /\ request[d].replica = r
        /\ SameKey(e, request[d])
        /\ firedAt[d] = e.at

EntriesTrue == \A r \in Replicas : \A e \in idem[r] : EntryTrue(r, e)

\* A call that fired less than the TTL ago has an entry, of its own or a later one's.
Kept(c) ==
    \E e \in idem[request[c].replica] : SameKey(e, request[c]) /\ e.at >= firedAt[c]

FiredIsKept ==
    \A c \in Calls : firedAt[c] # Never =>
        /\ step[c] = "done" /\ firedAt[c] <= now
        /\ request[c].key # NoKey /\ Fresh(firedAt[c]) => Kept(c)

IInv ==
    /\ TypeOK
    /\ DesertedInProgress /\ Asked /\ AttemptLeft /\ NoResultYet /\ OwnIds /\ AckOfOwnFire
    /\ EntriesTrue /\ FiredIsKept

-----------------------------------------------------------------------------
(* What a step does to one call and leaves alone of the others *)

CallsTyped ==
    /\ step' \in [Calls -> Steps] /\ deserted' \subseteq Calls
    /\ attempt' \in [Calls -> 0..MaxAttempts]
    /\ fireId' \in [Calls -> FireIds \cup {NoId}]
    /\ result' \in [Calls -> Results]

CallKept(d) ==
    /\ step'[d] = step[d] /\ attempt'[d] = attempt[d]
    /\ fireId'[d] = fireId[d] /\ result'[d] = result[d]
    /\ d \in deserted' => d \in deserted

OthersKept(c) == \A d \in Calls : d # c => CallKept(d) /\ request'[d] = request[d]

\* What the invariant says of the call that has moved.
MoveFits(c) ==
    /\ step'[c] # "idle"
    /\ c \in deserted' => step'[c] # "done"
    /\ step'[c] = "backoff" => attempt'[c] < MaxAttempts
    /\ step'[c] \in {"firing", "backoff"} => result'[c] = NoFire
    /\ step'[c] \in Holding => fireId'[c] \in DOMAIN drawnBy' /\ drawnBy'[fireId'[c]] = c
    /\ step'[c] = "ack" /\ result'[c] # NoFire =>
          fireId'[c] \in accepted' /\ result'[c] \in {fireId'[c], NoCommand}

OnlyExpiredGo ==
    /\ idem' \in [Replicas -> SUBSET Entries]
    /\ \A r \in Replicas : idem'[r] \subseteq idem[r] /\ \A e \in idem[r] \ idem'[r] : ~Fresh(e.at)

OnlyOwnLands(c) ==
    accepted \subseteq accepted' /\ \A f \in accepted' \ accepted : step[c] = "firing" /\ f = fireId[c]

\* Ids are drawn one at a time, and by a call that has just arrived.
DrawsAtMostOne(c) ==
    /\ drawnBy' \in Seq(Calls) /\ DOMAIN drawnBy \subseteq DOMAIN drawnBy'
    /\ \A n \in DOMAIN drawnBy : drawnBy'[n] = drawnBy[n]
    /\ \A n \in DOMAIN drawnBy' \ DOMAIN drawnBy : drawnBy'[n] = c /\ step[c] = "idle"
    /\ \A m, n \in DOMAIN drawnBy' \ DOMAIN drawnBy : m = n

LEMMA NothingDrawn == ASSUME TypeOK, NEW c, UNCHANGED drawnBy PROVE DrawsAtMostOne(c)
BY DEF TypeOK, DrawsAtMostOne

LEMMA DrawFacts ==
    ASSUME TypeOK, NEW c \in Calls, step[c] = "idle", Draws(c)
    PROVE  /\ DrawsAtMostOne(c) /\ fireId' \in [Calls -> FireIds \cup {NoId}]
           /\ fireId'[c] \in DOMAIN drawnBy' /\ drawnBy'[fireId'[c]] = c
           /\ \A d \in Calls : d # c => fireId'[d] = fireId[d]
<1>1. drawnBy \in Seq(Calls) /\ fireId \in [Calls -> FireIds \cup {NoId}]
  BY DEF TypeOK
<1>2. /\ drawnBy' = Append(drawnBy, c) /\ drawnBy' \in Seq(Calls)
      /\ Len(drawnBy') = Len(drawnBy) + 1 /\ Len(drawnBy) \in Nat
      /\ drawnBy'[Len(drawnBy) + 1] = c
      /\ \A n \in 1..Len(drawnBy) : drawnBy'[n] = drawnBy[n]
  BY <1>1 DEF Draws
<1>3. DOMAIN drawnBy = 1..Len(drawnBy) /\ DOMAIN drawnBy' = 1..Len(drawnBy')
  BY <1>1, <1>2
<1>4. \A n \in DOMAIN drawnBy' \ DOMAIN drawnBy : n = Len(drawnBy) + 1
  BY <1>2, <1>3
<1>5. DrawsAtMostOne(c)
  BY <1>2, <1>3, <1>4 DEF DrawsAtMostOne
<1>6. fireId' = [fireId EXCEPT ![c] = Len(drawnBy')] /\ Len(drawnBy') \in FireIds
  BY <1>2 DEF Draws, FireIds
<1> QED
  BY <1>1, <1>2, <1>3, <1>5, <1>6

LEMMA AnswerFacts ==
    ASSUME TypeOK, NEW c \in Calls, NEW answer \in Answers \cup {NoFire}, Answer(c, answer)
    PROVE  /\ CallsTyped
           /\ step'[c] = "done" /\ c \notin deserted' /\ result'[c] = answer
           /\ \A d \in Calls : d # c => CallKept(d)
BY BoundsAssumption DEF Answer, TypeOK, CallsTyped, CallKept, Steps, Results

LEMMA AwaitsFacts ==
    ASSUME TypeOK, NEW c \in Calls, NEW next \in Steps, Awaits(c, next)
    PROVE  /\ step' \in [Calls -> Steps] /\ step'[c] = next
           /\ attempt' \in [Calls -> 0..MaxAttempts] /\ (next # "ack" => attempt'[c] = attempt[c])
           /\ \A d \in Calls : d # c => step'[d] = step[d] /\ attempt'[d] = attempt[d]
           /\ deserted' = deserted /\ fireId' = fireId
BY BoundsAssumption DEF Awaits, TypeOK, Steps

LEMMA LandsFacts ==
    ASSUME NEW c \in Calls, (step[c] = "firing" /\ Lands(c)) \/ UNCHANGED accepted
    PROVE  OnlyOwnLands(c)
BY DEF Lands, OnlyOwnLands

\* An accepted fire has been drawn, before the step and after it.
LEMMA LandedIsDrawn ==
    ASSUME TypeOK, OwnIds, NEW c \in Calls, OnlyOwnLands(c), DrawsAtMostOne(c)
    PROVE  /\ accepted' \subseteq DOMAIN drawnBy
           /\ \A f \in accepted : f \in accepted' /\ drawnBy'[f] = drawnBy[f]
BY DEF TypeOK, OwnIds, HoldsOwnId, Holding, OnlyOwnLands, DrawsAtMostOne

LEMMA OwnIdsKept ==
    ASSUME TypeOK, OwnIds, NEW c \in Calls, DrawsAtMostOne(c), OthersKept(c), MoveFits(c)
    PROVE  OwnIds'
<1>1. \A n \in DOMAIN drawnBy : drawnBy[n] \in Calls /\ step[drawnBy[n]] # "idle"
  BY DEF TypeOK, OwnIds, DrawnByCalls
<1>2. DrawnOnce'
  <2> SUFFICES ASSUME NEW m \in DOMAIN drawnBy', NEW n \in DOMAIN drawnBy', drawnBy'[m] = drawnBy'[n]
               PROVE  m = n
    BY DEF DrawnOnce
  <2>1. CASE m \in DOMAIN drawnBy /\ n \in DOMAIN drawnBy
    BY <2>1 DEF OwnIds, DrawnOnce, DrawsAtMostOne
  <2>2. CASE m \notin DOMAIN drawnBy /\ n \notin DOMAIN drawnBy
    BY <2>2 DEF DrawsAtMostOne
  <2>3. CASE m \in DOMAIN drawnBy /\ n \notin DOMAIN drawnBy
    BY <1>1, <2>3 DEF DrawsAtMostOne
  <2>4. CASE m \notin DOMAIN drawnBy /\ n \in DOMAIN drawnBy
    BY <1>1, <2>4 DEF DrawsAtMostOne
  <2> QED
    BY <2>1, <2>2, <2>3, <2>4
<1>3. DrawnByCalls'
  <2> SUFFICES ASSUME NEW n \in DOMAIN drawnBy' PROVE step'[drawnBy'[n]] # "idle"
    BY DEF DrawnByCalls
  <2>1. CASE n \in DOMAIN drawnBy
    BY <1>1, <2>1 DEF DrawsAtMostOne, OthersKept, CallKept, MoveFits
  <2>2. CASE n \notin DOMAIN drawnBy
    BY <2>2 DEF DrawsAtMostOne, MoveFits
  <2> QED
    BY <2>1, <2>2
<1>4. HoldsOwnId'
  BY DEF OwnIds, HoldsOwnId, OthersKept, CallKept, MoveFits, DrawsAtMostOne
<1> QED
  BY <1>2, <1>3, <1>4 DEF OwnIds

\* The invariant survives a step of one call that no call has finished before.
LEMMA OneCallKeeps ==
    ASSUME IInv, NEW c \in Calls, step[c] # "done",
           CallsTyped, OthersKept(c), MoveFits(c), request'[c] \in Requests,
           OnlyExpiredGo, OnlyOwnLands(c), DrawsAtMostOne(c),
           request' \in [Calls -> Requests \cup {NoRequest}],
           UNCHANGED <<now, leader, firedAt, crashes>>
    PROVE  IInv'
<1> USE DEF IInv
<1>0. /\ accepted' \subseteq DOMAIN drawnBy
      /\ \A f \in accepted : f \in accepted' /\ drawnBy'[f] = drawnBy[f]
  BY LandedIsDrawn
<1>1. TypeOK'
  <2>1. accepted' \subseteq DOMAIN drawnBy' /\ drawnBy' \in Seq(Calls)
    BY <1>0 DEF DrawsAtMostOne
  <2>2. \A r \in Replicas : \A e, f \in idem'[r] : e.schedule = f.schedule /\ e.key = f.key => e = f
    BY DEF OnlyExpiredGo, TypeOK
  <2> QED
    BY <2>1, <2>2 DEF TypeOK, CallsTyped, OnlyExpiredGo, Steps, Results
<1>2. DesertedInProgress' /\ Asked'
  BY DEF DesertedInProgress, InProgress, Asked, OthersKept, CallKept, MoveFits, CallsTyped
<1>3. AttemptLeft' /\ NoResultYet'
  BY DEF AttemptLeft, NoResultYet, OthersKept, CallKept, MoveFits
<1>4. AckOfOwnFire'
  BY <1>0 DEF AckOfOwnFire, OthersKept, CallKept, MoveFits
<1>5. OwnIds'
  BY OwnIdsKept
<1>6. EntriesTrue'
  <2> SUFFICES ASSUME NEW r \in Replicas, NEW e \in idem'[r] PROVE EntryTrue(r, e)'
    BY DEF EntriesTrue
  <2>1. EntryTrue(r, e)
    BY DEF EntriesTrue, OnlyExpiredGo
  <2>2. PICK d \in Calls, f \in accepted :
        /\ drawnBy[f] = d /\ e.answer \in {f, NoneText} /\ result[d] = e.answer
        /\ step[d] = "done" /\ request[d].replica = r
        /\ SameKey(e, request[d]) /\ firedAt[d] = e.at
    BY <2>1 DEF EntryTrue
  <2>3. /\ step'[d] = "done" /\ request'[d] = request[d] /\ result'[d] = result[d]
        /\ firedAt'[d] = firedAt[d]
    BY <2>2 DEF OthersKept, CallKept
  <2> QED
    BY <1>0, <2>2, <2>3 DEF EntryTrue, SameKey
<1>7. FiredIsKept'
  <2> SUFFICES ASSUME NEW d \in Calls, firedAt[d] # Never
               PROVE  /\ step'[d] = "done" /\ firedAt[d] <= now
                      /\ request'[d].key # NoKey /\ Fresh(firedAt[d]) => Kept(d)'
    BY DEF FiredIsKept, Fresh
  <2>1. /\ step[d] = "done" /\ request[d] \in Requests /\ firedAt[d] <= now
        /\ request[d].key # NoKey /\ Fresh(firedAt[d]) => Kept(d)
    BY DEF FiredIsKept, Asked
  <2>2. step'[d] = "done" /\ request'[d] = request[d]
    BY <2>1 DEF OthersKept, CallKept
  <2>3. ASSUME request[d].key # NoKey, Fresh(firedAt[d]) PROVE Kept(d)'
    <3>1. request[d].replica \in Replicas
      BY <2>1 DEF Requests
    <3>2. PICK e \in idem[request[d].replica] : SameKey(e, request[d]) /\ e.at >= firedAt[d]
      BY <2>1, <2>3 DEF Kept
    <3>3. now \in Nat /\ e.at \in Nat /\ firedAt[d] \in Int
      BY <3>1, <3>2, BoundsAssumption DEF TypeOK, Entries, Never
    <3>4. Fresh(e.at)
      BY <2>3, <3>2, <3>3, BoundsAssumption DEF Fresh
    <3>5. e \in idem'[request[d].replica]
      BY <3>1, <3>2, <3>4 DEF OnlyExpiredGo
    <3> QED
      BY <2>2, <3>2, <3>5 DEF Kept, SameKey
  <2> QED
    BY <2>1, <2>2, <2>3
<1> QED
  BY <1>1, <1>2, <1>3, <1>4, <1>5, <1>6, <1>7

-----------------------------------------------------------------------------
(* Receiving a call *)

LEMMA SweptFacts ==
    ASSUME TypeOK, NEW r \in Replicas, NEW entries \in Swept(r)
    PROVE  entries \subseteq idem[r] /\ \A e \in idem[r] \ entries : ~Fresh(e.at)
BY DEF Swept, Expired

LEMMA SweepKeeps ==
    ASSUME TypeOK, NEW r \in Replicas, NEW entries \in Swept(r), idem' = [idem EXCEPT ![r] = entries]
    PROVE  OnlyExpiredGo
<1>1. entries \subseteq idem[r] /\ \A e \in idem[r] \ entries : ~Fresh(e.at)
  BY SweptFacts
<1> QED
  BY <1>1 DEF OnlyExpiredGo, TypeOK

LEMMA UntouchedIdem == ASSUME TypeOK, UNCHANGED idem PROVE OnlyExpiredGo
BY DEF TypeOK, OnlyExpiredGo

LEMMA ArrivesFacts ==
    ASSUME TypeOK, NEW c \in Calls, NEW q \in Requests, Arrives(c, q)
    PROVE  /\ step[c] = "idle" /\ q.replica \in Replicas
           /\ request' \in [Calls -> Requests \cup {NoRequest}]
           /\ request'[c] = q /\ request'[c] \in Requests /\ \A d \in Calls : d # c => request'[d] = request[d]
BY DEF Arrives, TypeOK, Requests

LEMMA MissedKeeps ==
    ASSUME TypeOK, NEW c \in Calls, NEW q \in Requests, Missed(c, q)
    PROVE  Arrives(c, q) /\ OnlyExpiredGo
<1>1. q.replica \in Replicas
  BY DEF Requests
<1> QED
  BY <1>1, SweepKeeps, UntouchedIdem DEF Missed

LEMMA HitFacts ==
    ASSUME IInv, NEW c \in Calls, NEW q \in Requests, IdempotencyHit(c, q)
    PROVE  \E e \in idem[q.replica] :
              SameKey(e, q) /\ Fresh(e.at) /\ e.answer \in Answers /\ Answer(c, e.answer) /\ OnlyExpiredGo
<1>1. q.replica \in Replicas
  BY DEF Requests
<1>2. PICK entries \in Swept(q.replica) :
        idem' = [idem EXCEPT ![q.replica] = entries] /\ \E e \in Hits(q, entries) : Answer(c, e.answer)
  BY DEF IdempotencyHit
<1>3. PICK e \in Hits(q, entries) : Answer(c, e.answer)
  BY <1>2
<1>4. e \in idem[q.replica] /\ SameKey(e, q) /\ Fresh(e.at)
  BY <1>1, <1>2, <1>3, SweptFacts DEF Hits, Of, IInv
<1>5. e.answer \in Answers
  BY <1>1, <1>4 DEF IInv, TypeOK, Entries
<1> QED
  BY <1>1, <1>2, <1>3, <1>4, <1>5, SweepKeeps DEF IInv

LEMMA ReceiveKeeps ==
    ASSUME IInv, NEW c \in Calls, NEW q \in Requests, Receive(c, q)
    PROVE  IInv'
<1>0. TypeOK
  BY DEF IInv
<1>1. Arrives(c, q) /\ UNCHANGED <<now, leader, firedAt, crashes, accepted>> /\ OnlyExpiredGo
  BY <1>0, MissedKeeps, HitFacts, UntouchedIdem
     DEF Receive, Rejected, IdempotencyHit, RefusedHere, Fires
<1>2. /\ step[c] = "idle" /\ request' \in [Calls -> Requests \cup {NoRequest}]
      /\ request'[c] \in Requests /\ \A d \in Calls : d # c => request'[d] = request[d]
  BY <1>0, <1>1, ArrivesFacts
<1>3. OnlyOwnLands(c)
  BY <1>1 DEF OnlyOwnLands
<1>4. CASE UNCHANGED drawnBy /\ \E answer \in Answers \cup {NoFire} : Answer(c, answer)
  <2>1. PICK answer \in Answers \cup {NoFire} : Answer(c, answer)
    BY <1>4
  <2>2. /\ CallsTyped /\ step'[c] = "done" /\ c \notin deserted'
        /\ \A d \in Calls : d # c => CallKept(d)
    BY <1>0, <2>1, AnswerFacts
  <2>3. OthersKept(c) /\ MoveFits(c)
    BY <1>2, <2>2 DEF OthersKept, MoveFits, Holding
  <2> QED
    BY <1>0, <1>1, <1>2, <1>3, <1>4, <2>2, <2>3, OneCallKeeps, NothingDrawn
<1>5. CASE Fires(c, q)
  <2>1. /\ step' = [step EXCEPT ![c] = "firing"] /\ attempt' = [attempt EXCEPT ![c] = 1]
        /\ deserted' = deserted /\ result' = result /\ Draws(c)
    BY <1>5 DEF Fires
  <2>2. result[c] = NoFire /\ c \notin deserted
    BY <1>2 DEF IInv, NoResultYet, DesertedInProgress, InProgress
  <2>3. /\ DrawsAtMostOne(c) /\ fireId' \in [Calls -> FireIds \cup {NoId}]
        /\ fireId'[c] \in DOMAIN drawnBy' /\ drawnBy'[fireId'[c]] = c
        /\ \A d \in Calls : d # c => fireId'[d] = fireId[d]
    BY <1>0, <1>2, <2>1, DrawFacts
  <2>4. CallsTyped /\ \A d \in Calls : d # c => CallKept(d)
    <3>1. step' \in [Calls -> Steps] /\ attempt' \in [Calls -> 0..MaxAttempts]
      BY <1>0, <2>1, BoundsAssumption DEF TypeOK, Steps
    <3>2. CallsTyped
      BY <1>0, <2>1, <2>3, <3>1 DEF TypeOK, CallsTyped, Results
    <3> QED
      BY <1>0, <2>1, <2>3, <3>2 DEF TypeOK, CallKept
  <2>5. step'[c] = "firing" /\ result'[c] = NoFire /\ c \notin deserted'
    BY <1>0, <2>1, <2>2 DEF TypeOK
  <2>6. OthersKept(c) /\ MoveFits(c)
    BY <1>2, <2>3, <2>4, <2>5 DEF OthersKept, MoveFits
  <2> QED
    BY <1>1, <1>2, <1>3, <2>3, <2>4, <2>6, OneCallKeeps
<1>6. Fires(c, q) \/ (UNCHANGED drawnBy /\ \E answer \in Answers \cup {NoFire} : Answer(c, answer))
  <2>1. CASE IdempotencyHit(c, q)
    BY <2>1, HitFacts DEF IdempotencyHit
  <2> QED
    BY <2>1 DEF Receive, Rejected, RefusedHere
<1> QED
  BY <1>4, <1>5, <1>6

-----------------------------------------------------------------------------
(* The steps of a call in progress *)

LEMMA StepOfCallKeeps ==
    ASSUME IInv, NEW c \in Calls, InProgress(c), CallsTyped, MoveFits(c), OnlyOwnLands(c),
           \A d \in Calls : d # c => CallKept(d),
           UNCHANGED <<now, leader, request, idem, drawnBy, firedAt, crashes>>
    PROVE  IInv'
<1>1. step[c] # "done" /\ request[c] \in Requests
  BY DEF IInv, Asked, InProgress
<1>2. OthersKept(c)
  BY DEF OthersKept
<1>3. OnlyExpiredGo /\ DrawsAtMostOne(c) /\ request' \in [Calls -> Requests \cup {NoRequest}]
  BY UntouchedIdem, NothingDrawn DEF IInv, TypeOK
<1> QED
  BY <1>1, <1>2, <1>3, OneCallKeeps

\* A call that ends without a fire.
LEMMA EndKeeps ==
    ASSUME IInv, NEW c \in Calls, InProgress(c), OnlyOwnLands(c), Answer(c, NoFire),
           UNCHANGED <<now, leader, request, idem, drawnBy, firedAt, crashes>>
    PROVE  IInv'
<1>1. /\ CallsTyped
      /\ step'[c] = "done" /\ c \notin deserted'
      /\ \A d \in Calls : d # c => CallKept(d)
  BY AnswerFacts DEF IInv
<1>2. MoveFits(c)
  BY <1>1 DEF MoveFits, Holding
<1> QED
  BY <1>1, <1>2, StepOfCallKeeps

\* The id that a handler holds.
LEMMA HeldId ==
    ASSUME IInv, NEW c \in Calls, step[c] \in Holding
    PROVE  fireId[c] \in FireIds /\ fireId[c] \in DOMAIN drawnBy /\ drawnBy[fireId[c]] = c
<1>1. fireId[c] \in DOMAIN drawnBy /\ drawnBy[fireId[c]] = c /\ DOMAIN drawnBy = 1..Len(drawnBy)
  BY DEF IInv, OwnIds, HoldsOwnId, TypeOK
<1>2. Len(drawnBy) \in Nat
  BY DEF IInv, TypeOK
<1> QED
  BY <1>1, <1>2 DEF FireIds

LEMMA FireAcceptedKeeps ==
    ASSUME IInv, NEW c \in Calls, FireAccepted(c) PROVE IInv'
<1>1. step[c] = "firing" /\ InProgress(c)
  BY DEF FireAccepted, InProgress
<1>2. fireId[c] \in FireIds /\ fireId[c] \in DOMAIN drawnBy /\ drawnBy[fireId[c]] = c
  BY <1>1, HeldId DEF Holding
<1>3. /\ step' \in [Calls -> Steps] /\ step'[c] = "ack"
      /\ attempt' \in [Calls -> 0..MaxAttempts]
      /\ \A d \in Calls : d # c => step'[d] = step[d] /\ attempt'[d] = attempt[d]
      /\ deserted' = deserted /\ fireId' = fireId
  BY AwaitsFacts DEF FireAccepted, IInv, Steps
<1>4. PICK command \in {fireId[c], NoCommand} : result' = [result EXCEPT ![c] = command]
  BY DEF FireAccepted
<1>5. /\ command \in Results /\ result' \in [Calls -> Results] /\ result'[c] = command
      /\ \A d \in Calls : d # c => result'[d] = result[d]
  BY <1>2, <1>4 DEF IInv, TypeOK, Results, Answers
<1>6. /\ UNCHANGED <<now, leader, request, idem, drawnBy, firedAt, crashes>>
      /\ OnlyOwnLands(c) /\ fireId[c] \in accepted'
  BY <1>1, LandsFacts DEF FireAccepted, Lands
<1>7. CallsTyped /\ \A d \in Calls : d # c => CallKept(d)
  BY <1>3, <1>5 DEF CallsTyped, CallKept, IInv, TypeOK
<1>8. MoveFits(c)
  BY <1>2, <1>3, <1>4, <1>5, <1>6 DEF MoveFits
<1> QED
  BY <1>1, <1>6, <1>7, <1>8, StepOfCallKeeps

\* A call without a result that awaits something else and still has none.
LEMMA WaitKeeps ==
    ASSUME IInv, NEW c \in Calls, step[c] \in Holding, OnlyOwnLands(c), result[c] = NoFire,
           NEW next \in Holding, Awaits(c, next), UNCHANGED result,
           next = "backoff" => attempt[c] < MaxAttempts,
           UNCHANGED <<now, leader, request, idem, drawnBy, firedAt, crashes>>
    PROVE  IInv'
<1>1. next \in Steps /\ InProgress(c) /\ next \notin {"idle", "done"}
  BY DEF Steps, Holding, InProgress
<1>2. /\ step' \in [Calls -> Steps] /\ step'[c] = next
      /\ attempt' \in [Calls -> 0..MaxAttempts] /\ (next # "ack" => attempt'[c] = attempt[c])
      /\ \A d \in Calls : d # c => step'[d] = step[d] /\ attempt'[d] = attempt[d]
      /\ deserted' = deserted /\ fireId' = fireId
  BY <1>1, AwaitsFacts DEF IInv
<1>3. CallsTyped /\ \A d \in Calls : d # c => CallKept(d)
  BY <1>2 DEF CallsTyped, CallKept, IInv, TypeOK, Results
<1>4. MoveFits(c)
  BY <1>1, <1>2, HeldId DEF MoveFits
<1> QED
  BY <1>1, <1>3, <1>4, StepOfCallKeeps

LEMMA FireFailsKeeps ==
    ASSUME IInv, NEW c \in Calls, FireRefused(c) \/ FireUnanswered(c) PROVE IInv'
<1>1. step[c] = "firing" /\ InProgress(c) /\ result[c] = NoFire /\ step[c] \in Holding
  BY DEF FireRefused, FireUnanswered, InProgress, IInv, NoResultYet, Holding
<1>2. OnlyOwnLands(c)
  BY LandsFacts DEF FireRefused, FireUnanswered
<1>3. UNCHANGED <<now, leader, request, idem, drawnBy, firedAt, crashes>>
  BY DEF FireRefused, FireUnanswered
<1>4. \/ Awaits(c, "ack") /\ UNCHANGED result
      \/ attempt[c] < MaxAttempts /\ Awaits(c, "backoff") /\ UNCHANGED result
      \/ Answer(c, NoFire)
  BY DEF FireRefused, FireUnanswered
<1>5. "ack" \in Holding /\ "backoff" \in Holding
  BY DEF Holding
<1>6. CASE Answer(c, NoFire)
  BY <1>1, <1>2, <1>3, <1>6, EndKeeps
<1>7. CASE Awaits(c, "ack") /\ UNCHANGED result
  BY <1>1, <1>2, <1>3, <1>5, <1>7, WaitKeeps
<1>8. CASE attempt[c] < MaxAttempts /\ Awaits(c, "backoff") /\ UNCHANGED result
  BY <1>1, <1>2, <1>3, <1>5, <1>8, WaitKeeps
<1> QED
  BY <1>4, <1>6, <1>7, <1>8

LEMMA BackoffEndsKeeps ==
    ASSUME IInv, NEW c \in Calls, BackoffEnds(c) PROVE IInv'
<1>1. step[c] = "backoff" /\ InProgress(c) /\ result[c] = NoFire /\ attempt[c] < MaxAttempts
  BY DEF BackoffEnds, InProgress, IInv, NoResultYet, AttemptLeft
<1>2. UNCHANGED <<now, leader, request, idem, drawnBy, firedAt, crashes>> /\ OnlyOwnLands(c)
  BY LandsFacts DEF BackoffEnds
<1>3. CASE Answer(c, NoFire)
  BY <1>1, <1>2, <1>3, EndKeeps
<1>4. CASE /\ step' = [step EXCEPT ![c] = "firing"]
           /\ attempt' = [attempt EXCEPT ![c] = @ + 1]
           /\ UNCHANGED <<deserted, fireId, result>>
  <2>1. CallsTyped
    BY <1>1, <1>4, BoundsAssumption DEF CallsTyped, Steps, Results, IInv, TypeOK
  <2>2. step'[c] = "firing" /\ \A d \in Calls : d # c => CallKept(d)
    BY <1>4 DEF IInv, TypeOK, CallKept
  <2>3. MoveFits(c)
    BY <1>1, <1>2, <1>4, <2>2, HeldId DEF MoveFits, Holding
  <2> QED
    BY <1>1, <1>2, <2>1, <2>2, <2>3, StepOfCallKeeps
<1> QED
  BY <1>3, <1>4 DEF BackoffEnds

LEMMA CancelledKeeps ==
    ASSUME IInv, NEW c \in Calls, Cancelled(c) PROVE IInv'
<1>1. InProgress(c)
  BY DEF Cancelled, IInv, DesertedInProgress
<1>2. OnlyOwnLands(c)
  BY LandsFacts DEF Cancelled
<1>3. Answer(c, NoFire) /\ UNCHANGED <<now, leader, request, idem, drawnBy, firedAt, crashes>>
  BY DEF Cancelled
<1> QED
  BY <1>1, <1>2, <1>3, EndKeeps

LEMMA GiveUpKeeps ==
    ASSUME IInv, NEW c \in Calls, ClientGivesUp(c) PROVE IInv'
<1>1. /\ InProgress(c) /\ deserted' = deserted \cup {c}
      /\ UNCHANGED <<now, leader, request, step, attempt, fireId, result, idem, drawnBy, accepted, firedAt, crashes>>
  BY DEF ClientGivesUp
<1>2. CallsTyped /\ OnlyOwnLands(c) /\ \A d \in Calls : d # c => CallKept(d)
  BY <1>1, LandsFacts DEF CallsTyped, CallKept, Steps, Results, IInv, TypeOK
<1>3. MoveFits(c)
  BY <1>1, HeldId DEF MoveFits, InProgress, IInv, AttemptLeft, NoResultYet, AckOfOwnFire
<1> QED
  BY <1>1, <1>2, <1>3, StepOfCallKeeps

-----------------------------------------------------------------------------
(* The answer to a call that fired, and what it leaves in the cache *)

\* What Remember does: the entries of the key give way to one, or nothing changes.
LEMMA RememberFacts ==
    ASSUME IInv, NEW c \in Calls, request[c] \in Requests,
           Str(result[c]) \in Answers, Remember(c, request[c])
    PROVE  LET q == request[c]
               new == [schedule |-> q.schedule, key |-> q.key, at |-> now, answer |-> Str(result[c])]
           IN  \/ q.key = NoKey /\ UNCHANGED idem
               \/ /\ q.key # NoKey /\ new \in Entries
                  /\ idem' = [idem EXCEPT ![q.replica] = (idem[q.replica] \ Of(q, idem[q.replica])) \cup {new}]
<1>1. request[c].key # NoKey => request[c].key \in Keys
  BY DEF Requests
<1> QED
  BY <1>1 DEF Remember, Requests, Entries, IInv, TypeOK

LEMMA AckFiredKeeps ==
    ASSUME IInv, NEW c \in Calls, AckEnds(c), result[c] # NoFire PROVE IInv'
<1> USE DEF IInv
<1> DEFINE q == request[c]
           new == [schedule |-> q.schedule, key |-> q.key, at |-> now, answer |-> Str(result[c])]
<1>0. /\ fireId[c] \in FireIds /\ drawnBy[fireId[c]] = c
      /\ fireId[c] \in accepted /\ result[c] \in {fireId[c], NoCommand}
      /\ Str(result[c]) \in {fireId[c], NoneText}
  <2>1. step[c] = "ack"
    BY DEF AckEnds
  <2>2. fireId[c] \in FireIds /\ drawnBy[fireId[c]] = c
    BY <2>1, HeldId DEF Holding
  <2>3. fireId[c] \in accepted /\ result[c] \in {fireId[c], NoCommand}
    BY <2>1 DEF AckOfOwnFire
  <2> QED
    BY <2>2, <2>3 DEF Str
<1>1. /\ step[c] = "ack" /\ q \in Requests /\ q.replica \in Replicas
      /\ Str(result[c]) \in Answers
  BY <1>0 DEF AckEnds, Asked, Requests, Answers
<1>2. /\ CallsTyped
      /\ step'[c] = "done" /\ c \notin deserted' /\ result'[c] = Str(result[c])
      /\ \A d \in Calls : d # c => CallKept(d)
  <2>1. Answer(c, Str(result[c]))
    BY DEF AckEnds
  <2> QED
    BY <1>1, <2>1, AnswerFacts
<1>3. /\ UNCHANGED <<now, leader, request, drawnBy, accepted, crashes>>
      /\ firedAt' = [firedAt EXCEPT ![c] = now]
      /\ Remember(c, q)
  BY DEF AckEnds
<1>4. /\ firedAt' \in [Calls -> {Never} \cup 0..MaxTime] /\ firedAt'[c] = now
      /\ \A d \in Calls : d # c => firedAt'[d] = firedAt[d]
  BY <1>3 DEF TypeOK
<1>5. \/ q.key = NoKey /\ UNCHANGED idem
      \/ /\ q.key # NoKey /\ new \in Entries
         /\ idem' = [idem EXCEPT ![q.replica] = (idem[q.replica] \ Of(q, idem[q.replica])) \cup {new}]
  BY <1>1, <1>3, RememberFacts
\* Of each replica's entries, those stay that are not of the key, and one may be new.
<1>6. /\ idem' \in [Replicas -> SUBSET Entries]
      /\ \A r \in Replicas : \A e \in idem'[r] :
            e \in idem[r] \/ (r = q.replica /\ e = new)
      /\ \A r \in Replicas : \A e \in idem[r] :
            e \in idem'[r] \/ (r = q.replica /\ SameKey(e, q) /\ new \in idem'[r])
      /\ q.key # NoKey => new \in idem'[q.replica]
      /\ new \in idem'[q.replica] /\ q.key # NoKey =>
            \A e \in idem'[q.replica] : SameKey(e, q) => e = new
  <2>1. CASE q.key = NoKey /\ UNCHANGED idem
    BY <2>1 DEF TypeOK
  <2>2. CASE /\ q.key # NoKey /\ new \in Entries
             /\ idem' = [idem EXCEPT ![q.replica] = (idem[q.replica] \ Of(q, idem[q.replica])) \cup {new}]
    <3>1. idem'[q.replica] = (idem[q.replica] \ Of(q, idem[q.replica])) \cup {new}
      BY <1>1, <2>2 DEF TypeOK
    <3>2. \A r \in Replicas : r # q.replica => idem'[r] = idem[r]
      BY <2>2 DEF TypeOK
    <3>3. idem' \in [Replicas -> SUBSET Entries]
      BY <1>1, <2>2, <3>1, <3>2 DEF TypeOK
    <3> QED
      BY <2>2, <3>1, <3>2, <3>3 DEF Of
  <2> QED
    BY <1>5, <2>1, <2>2
<1>7. SameKey(new, q)
  BY DEF SameKey
<1>8. TypeOK'
  <2>1. \A r \in Replicas : \A e, f \in idem'[r] : e.schedule = f.schedule /\ e.key = f.key => e = f
    <3> SUFFICES ASSUME NEW r \in Replicas, NEW e \in idem'[r], NEW f \in idem'[r],
                        e.schedule = f.schedule /\ e.key = f.key
                 PROVE  e = f
      OBVIOUS
    <3> HIDE DEF new, q
    <3>1. CASE e = new \/ f = new
      <4>1. CASE e \in idem[r] /\ f \in idem[r]
        BY <4>1 DEF TypeOK
      <4>2. CASE ~(e \in idem[r] /\ f \in idem[r])
        <5>1. r = q.replica /\ new \in idem'[r] /\ q.key # NoKey
          BY <1>5, <1>6, <4>2
        <5>2. SameKey(e, q) /\ SameKey(f, q)
          BY <1>7, <3>1 DEF SameKey
        <5> QED
          BY <1>6, <5>1, <5>2
      <4> QED
        BY <4>1, <4>2
    <3>2. CASE e # new /\ f # new
      BY <1>6, <3>2 DEF TypeOK
    <3> QED
      BY <3>1, <3>2
  <2> QED
    BY <1>2, <1>3, <1>4, <1>6, <2>1 DEF TypeOK, CallsTyped, Steps, Results
<1>9. DesertedInProgress' /\ Asked' /\ AttemptLeft' /\ NoResultYet' /\ OwnIds' /\ AckOfOwnFire'
  <2>1. DesertedInProgress'
    BY <1>2, <1>3 DEF DesertedInProgress, InProgress, CallsTyped, CallKept
  <2>2. Asked' /\ AttemptLeft' /\ NoResultYet' /\ AckOfOwnFire'
    BY <1>1, <1>2, <1>3 DEF Asked, AttemptLeft, NoResultYet, AckOfOwnFire, CallKept
  <2>3. OwnIds'
    <3>1. DrawnOnce' /\ DrawnByCalls'
      BY <1>2, <1>3 DEF OwnIds, DrawnOnce, DrawnByCalls, CallKept, TypeOK
    <3>2. HoldsOwnId'
      BY <1>2, <1>3 DEF OwnIds, HoldsOwnId, Holding, CallKept
    <3> QED
      BY <3>1, <3>2 DEF OwnIds
  <2> QED
    BY <2>1, <2>2, <2>3
<1>10. EntriesTrue'
  <2> SUFFICES ASSUME NEW r \in Replicas, NEW e \in idem'[r] PROVE EntryTrue(r, e)'
    BY DEF EntriesTrue
  <2>1. CASE e \in idem[r]
    <3>1. PICK d \in Calls, f \in accepted :
          /\ drawnBy[f] = d /\ e.answer \in {f, NoneText} /\ result[d] = e.answer
          /\ step[d] = "done" /\ request[d].replica = r
          /\ SameKey(e, request[d]) /\ firedAt[d] = e.at
      BY <2>1 DEF EntriesTrue, EntryTrue
    <3>2. step'[d] = "done" /\ firedAt'[d] = firedAt[d] /\ result'[d] = result[d]
      BY <1>1, <1>2, <1>4, <3>1 DEF CallKept
    <3> QED
      BY <1>3, <3>1, <3>2 DEF EntryTrue, SameKey
  <2>2. CASE r = q.replica /\ e = new
    <3>1. new.answer = result'[c] /\ new.answer \in {fireId[c], NoneText} /\ new.at = firedAt'[c]
      BY <1>0, <1>2, <1>4
    <3>2. fireId[c] \in accepted' /\ drawnBy'[fireId[c]] = c
      BY <1>0, <1>3
    <3>3. step'[c] = "done" /\ request'[c].replica = r /\ SameKey(e, request'[c])
      BY <1>2, <1>3, <1>7, <2>2
    <3> HIDE DEF new
    <3> QED
      BY <2>2, <3>1, <3>2, <3>3 DEF EntryTrue, SameKey
  <2> QED
    BY <1>6, <2>1, <2>2
<1>11. FiredIsKept'
  <2> SUFFICES ASSUME NEW d \in Calls, firedAt'[d] # Never
               PROVE  /\ step'[d] = "done" /\ firedAt'[d] <= now
                      /\ request[d].key # NoKey /\ Fresh(firedAt'[d]) => Kept(d)'
    BY <1>3 DEF FiredIsKept, Fresh
  <2>0. now \in Nat /\ new.at = now
    BY BoundsAssumption DEF TypeOK
  <2>1. CASE d = c
    <3>1. q.key # NoKey => new \in idem'[q.replica]
      BY <1>6
    <3>2. q.key # NoKey => Kept(c)'
      BY <1>3, <1>4, <1>7, <2>0, <3>1 DEF Kept, SameKey
    <3> QED
      BY <1>2, <1>4, <2>0, <2>1, <3>2
  <2>2. CASE d # c
    <3>1. /\ firedAt'[d] = firedAt[d] /\ step[d] = "done" /\ firedAt[d] <= now
          /\ request[d].key # NoKey /\ Fresh(firedAt[d]) => Kept(d)
      BY <1>4, <2>2 DEF FiredIsKept
    <3>2. ASSUME request[d].key # NoKey, Fresh(firedAt[d]) PROVE Kept(d)'
      <4>0. request[d].replica \in Replicas
        BY <3>1 DEF Asked, Requests
      <4>1. PICK e \in idem[request[d].replica] : SameKey(e, request[d]) /\ e.at >= firedAt[d]
        BY <3>1, <3>2 DEF Kept
      <4>2. CASE e \in idem'[request[d].replica]
        BY <1>3, <3>1, <4>1, <4>2 DEF Kept, SameKey
      <4>3. CASE request[d].replica = q.replica /\ SameKey(e, q) /\ new \in idem'[request[d].replica]
        <5>1. SameKey(new, request[d])
          BY <1>7, <4>1, <4>3 DEF SameKey
        <5>2. new.at >= firedAt[d]
          BY <2>0, <3>1 DEF TypeOK, Never
        <5> HIDE DEF new
        <5> QED
          BY <1>3, <3>1, <4>3, <5>1, <5>2 DEF Kept, SameKey
      <4> QED
        BY <1>6, <4>0, <4>1, <4>2, <4>3
    <3> QED
      BY <1>2, <2>2, <3>1, <3>2 DEF CallKept
  <2> QED
    BY <2>1, <2>2
<1> QED
  BY <1>8, <1>9, <1>10, <1>11

LEMMA AckEndsKeeps ==
    ASSUME IInv, NEW c \in Calls, AckEnds(c) PROVE IInv'
<1>1. CASE result[c] = NoFire
  <2>1. /\ InProgress(c) /\ Answer(c, NoFire)
        /\ UNCHANGED <<now, leader, request, idem, drawnBy, accepted, firedAt, crashes>>
    BY <1>1 DEF AckEnds, InProgress, Str, NoFire, NoCommand
  <2> QED
    BY <2>1, EndKeeps, LandsFacts
<1> QED
  BY <1>1, AckFiredKeeps

-----------------------------------------------------------------------------
(* The surroundings *)

\* A restart ends the calls of the replica and forgets what it remembered of them.
LEMMA CrashKeeps ==
    ASSUME IInv, NEW r \in Replicas, Crash(r) PROVE IInv'
<1> USE DEF IInv
<1> DEFINE mine == {c \in Calls : request[c].replica = r}
           died == {c \in mine : InProgress(c)}
<1>1. /\ crashes < MaxCrashes /\ crashes' = crashes + 1
      /\ idem' = [idem EXCEPT ![r] = {}]
      /\ step' = [c \in Calls |-> IF c \in died THEN "done" ELSE step[c]]
      /\ deserted' = deserted \ died
      /\ attempt' = [c \in Calls |-> IF c \in died THEN 0 ELSE attempt[c]]
      /\ fireId' = [c \in Calls |-> IF c \in died THEN NoId ELSE fireId[c]]
      /\ result' = [c \in Calls |-> IF c \in died THEN NoFire ELSE result[c]]
      /\ firedAt' = [c \in Calls |-> IF c \in mine THEN Never ELSE firedAt[c]]
      /\ leader' = IF leader = r THEN Nobody ELSE leader
      /\ UNCHANGED <<now, request, drawnBy>>
  BY DEF Crash
<1>2. \A c \in Calls :
        /\ step'[c] = IF c \in died THEN "done" ELSE step[c]
        /\ attempt'[c] = IF c \in died THEN 0 ELSE attempt[c]
        /\ fireId'[c] = IF c \in died THEN NoId ELSE fireId[c]
        /\ result'[c] = IF c \in died THEN NoFire ELSE result[c]
        /\ firedAt'[c] = IF c \in mine THEN Never ELSE firedAt[c]
        /\ c \in died => c \in mine /\ step[c] # "done" /\ step[c] # "idle"
  BY <1>1 DEF InProgress
<1>3. \A s \in Replicas : idem'[s] = IF s = r THEN {} ELSE idem[s]
  BY <1>1 DEF TypeOK
\* What lands with the crash are ids that handlers held, which have been drawn.
<1>a. accepted \subseteq accepted' /\ accepted' \subseteq DOMAIN drawnBy
  <2>1. PICK landed \in SUBSET {c \in died : step[c] = "firing"} :
          accepted' = accepted \cup {fireId[c] : c \in landed}
    BY DEF Crash
  <2>2. \A c \in landed : c \in Calls /\ step[c] \in Holding
    BY <2>1 DEF Holding
  <2> QED
    BY <2>1, <2>2 DEF OwnIds, HoldsOwnId, TypeOK
<1> HIDE DEF died, mine
<1>4. TypeOK'
  <2>1. step' \in [Calls -> Steps] /\ deserted' \subseteq Calls
    BY <1>1 DEF TypeOK, Steps
  <2>2. /\ attempt' \in [Calls -> 0..MaxAttempts] /\ fireId' \in [Calls -> FireIds \cup {NoId}]
        /\ result' \in [Calls -> Answers \cup {NoFire, NoCommand}]
    BY <1>1, BoundsAssumption DEF TypeOK
  <2>3. firedAt' \in [Calls -> {Never} \cup 0..MaxTime]
    BY <1>1 DEF TypeOK
  <2>4. idem' \in [Replicas -> SUBSET Entries]
    BY <1>1 DEF TypeOK
  <2>5. \A s \in Replicas : \A e, f \in idem'[s] : e.schedule = f.schedule /\ e.key = f.key => e = f
    BY <1>3 DEF TypeOK
  <2>6. crashes' \in 0..MaxCrashes /\ leader' \in Replicas \cup {Nobody}
    BY <1>1, BoundsAssumption DEF TypeOK
  <2> QED
    BY <1>1, <1>a, <2>1, <2>2, <2>3, <2>4, <2>5, <2>6 DEF TypeOK, Steps
<1>5. DesertedInProgress'
  BY <1>1, <1>2 DEF DesertedInProgress, InProgress, TypeOK
<1>6. Asked' /\ AttemptLeft' /\ NoResultYet' /\ AckOfOwnFire' /\ OwnIds'
  <2>1. Asked' /\ AttemptLeft' /\ NoResultYet' /\ AckOfOwnFire'
    BY <1>1, <1>2, <1>a DEF Asked, AttemptLeft, NoResultYet, AckOfOwnFire
  <2>2. DrawnOnce' /\ DrawnByCalls' /\ HoldsOwnId'
    BY <1>1, <1>2 DEF OwnIds, DrawnOnce, DrawnByCalls, HoldsOwnId, Holding, TypeOK
  <2> QED
    BY <2>1, <2>2 DEF OwnIds
<1>7. EntriesTrue'
  <2> SUFFICES ASSUME NEW s \in Replicas, NEW e \in idem'[s] PROVE EntryTrue(s, e)'
    BY DEF EntriesTrue
  <2>1. s # r /\ e \in idem[s]
    BY <1>3
  <2>2. PICK d \in Calls, f \in accepted :
        /\ drawnBy[f] = d /\ e.answer \in {f, NoneText} /\ result[d] = e.answer
        /\ step[d] = "done" /\ request[d].replica = s
        /\ SameKey(e, request[d]) /\ firedAt[d] = e.at
    BY <2>1 DEF EntriesTrue, EntryTrue
  <2>3. d \notin mine
    BY <2>1, <2>2 DEF mine
  <2>4. step'[d] = "done" /\ firedAt'[d] = firedAt[d] /\ result'[d] = result[d]
    BY <1>2, <2>2, <2>3
  <2> QED
    BY <1>1, <1>a, <2>2, <2>4 DEF EntryTrue, SameKey
<1>8. FiredIsKept'
  <2> SUFFICES ASSUME NEW d \in Calls, firedAt'[d] # Never
               PROVE  /\ step'[d] = "done" /\ firedAt'[d] <= now
                      /\ request[d].key # NoKey /\ Fresh(firedAt'[d]) => Kept(d)'
    BY <1>1 DEF FiredIsKept, Fresh
  <2>1. d \notin mine /\ firedAt'[d] = firedAt[d]
    BY <1>2
  <2>2. /\ step[d] = "done" /\ firedAt[d] <= now
        /\ request[d].key # NoKey /\ Fresh(firedAt[d]) => Kept(d)
    BY <2>1 DEF FiredIsKept
  <2>3. request[d].replica \in Replicas /\ request[d].replica # r
    BY <2>1, <2>2 DEF Asked, Requests, mine
  <2>4. idem'[request[d].replica] = idem[request[d].replica] /\ step'[d] = "done"
    BY <1>2, <1>3, <2>1, <2>2, <2>3
  <2> QED
    BY <1>1, <2>1, <2>2, <2>4 DEF Kept, SameKey
<1> QED
  BY <1>4, <1>5, <1>6, <1>7, <1>8

\* An entry, and a fire, only grow older.
LEMMA TickKeeps == ASSUME IInv, Tick PROVE IInv'
<1> USE DEF IInv
<1>1. /\ now < MaxTime /\ now' = now + 1 /\ now \in Nat
      /\ UNCHANGED <<leader, request, call, idem, drawnBy, accepted, firedAt, crashes>>
  BY BoundsAssumption DEF Tick, TypeOK
<1>2. TypeOK'
  BY <1>1, BoundsAssumption DEF TypeOK, call
<1>3. DesertedInProgress' /\ Asked' /\ AttemptLeft' /\ NoResultYet' /\ OwnIds' /\ AckOfOwnFire'
  BY <1>1 DEF DesertedInProgress, Asked, AttemptLeft, NoResultYet, AckOfOwnFire, InProgress, call,
              OwnIds, DrawnOnce, DrawnByCalls, HoldsOwnId
<1>4. EntriesTrue'
  BY <1>1 DEF EntriesTrue, EntryTrue, SameKey, call
<1>5. FiredIsKept'
  <2>1. \A d \in Calls : firedAt[d] \in Int
    BY BoundsAssumption DEF TypeOK, Never
  <2>2. \A d \in Calls : Fresh(firedAt[d])' => Fresh(firedAt[d])
    BY <1>1, <2>1, BoundsAssumption DEF Fresh
  <2>3. \A d \in Calls : Kept(d)' = Kept(d)
    BY <1>1 DEF Kept, SameKey
  <2> QED
    BY <1>1, <2>1, <2>2, <2>3 DEF FiredIsKept, call
<1> QED
  BY <1>2, <1>3, <1>4, <1>5

LEMMA NothingChangesKeeps ==
    ASSUME IInv, UNCHANGED <<now, request, call, idem, drawnBy, accepted, firedAt, crashes>>,
           leader' \in Replicas \cup {Nobody}
    PROVE  IInv'
<1> USE DEF IInv
<1>1. TypeOK'
  BY DEF TypeOK, call
<1>2. DesertedInProgress' /\ Asked' /\ AttemptLeft' /\ NoResultYet' /\ OwnIds' /\ AckOfOwnFire'
  BY DEF DesertedInProgress, Asked, AttemptLeft, NoResultYet, AckOfOwnFire, InProgress, call,
         OwnIds, DrawnOnce, DrawnByCalls, HoldsOwnId
<1>3. EntriesTrue' /\ FiredIsKept'
  BY DEF EntriesTrue, EntryTrue, FiredIsKept, Fresh, Kept, SameKey, call
<1> QED
  BY <1>1, <1>2, <1>3

LEMMA InitHolds == Init => IInv
<1> SUFFICES ASSUME Init PROVE IInv
  OBVIOUS
<1>1. TypeOK
  BY BoundsAssumption DEF Init, TypeOK
<1> QED
  BY <1>1 DEF Init, IInv, DesertedInProgress, Asked, AttemptLeft, NoResultYet, AckOfOwnFire,
              OwnIds, DrawnOnce, DrawnByCalls, HoldsOwnId, Holding, EntriesTrue, FiredIsKept

LEMMA NextKeeps == IInv /\ [Next]_vars => IInv'
<1> SUFFICES ASSUME IInv, [Next]_vars PROVE IInv'
  OBVIOUS
<1>1. ASSUME NEW c \in Calls, Handler(c) \/ Cancelled(c) \/ ClientGivesUp(c) PROVE IInv'
  BY <1>1, FireAcceptedKeeps, FireFailsKeeps, BackoffEndsKeeps, AckEndsKeeps, CancelledKeeps, GiveUpKeeps
     DEF Handler
<1>2. ASSUME NEW c \in Calls, NEW q \in Requests, Receive(c, q) PROVE IInv'
  BY <1>2, ReceiveKeeps
<1>3. ASSUME NEW r \in Replicas, Crash(r) \/ LeaderMoves(r) PROVE IInv'
  BY <1>3, CrashKeeps, NothingChangesKeeps DEF LeaderMoves
<1>4. CASE UNCHANGED vars
  BY <1>4, NothingChangesKeeps DEF vars, IInv, TypeOK
<1> QED
  BY <1>1, <1>2, <1>3, <1>4, TickKeeps DEF Next

-----------------------------------------------------------------------------
\* Whatever the clients repeat, the Brain answers and the replicas forget, the
\* invariant that ties the idempotency cache to the fires it is about holds.
THEOREM TriggerInvariant == Spec => []IInv
BY InitHolds, NextKeeps, PTL DEF Spec

\* One trigger call makes at most one fire, however often FireSchedule is retried and
\* whenever its attempts land: a handler draws one id, before the retry loop of
\* trigger_now, keeps it over its retries, and what the Brain accepts has been drawn.
THEOREM OneFireForACall == Spec => []OneFirePerCall
<1>1. IInv => OneFirePerCall
  BY DEF IInv, TypeOK, OwnIds, DrawnOnce, OneFirePerCall
<1> QED
  BY <1>1, TriggerInvariant, PTL

LEMMA OnlyAHitNamesAFire ==
    ASSUME IInv, [Next]_vars, NEW c \in Calls, step[c] = "idle", result'[c] # NoFire
    PROVE  \E q \in Requests : IdempotencyHit(c, q)
<1>1. result[c] = NoFire /\ ~InProgress(c) /\ TypeOK
  BY DEF IInv, NoResultYet, InProgress
<1>2. ASSUME NEW d \in Calls, NEW answer \in Answers \cup {NoFire}, Answer(d, answer), d # c \/ answer = NoFire
      PROVE  FALSE
  BY <1>1, <1>2, AnswerFacts DEF CallKept
<1>3. ASSUME NEW d \in Calls, Handler(d) PROVE FALSE
  <2>1. d # c
    BY <1>3, <1>1 DEF Handler, FireAccepted, FireRefused, FireUnanswered, BackoffEnds, AckEnds, InProgress
  <2>2. result'[c] = result[c]
    <3>1. CASE AckEnds(d)
      <4>1. Str(result[d]) \in Answers \cup {NoFire} /\ Answer(d, Str(result[d]))
        BY <3>1, <1>1 DEF AckEnds, TypeOK, Str, Answers
      <4> QED
        BY <1>1, <2>1, <4>1, AnswerFacts DEF CallKept
    <3>2. CASE FireAccepted(d)
      BY <3>2, <1>1, <2>1 DEF FireAccepted, TypeOK
    <3>3. CASE FireRefused(d) \/ FireUnanswered(d) \/ BackoffEnds(d)
      BY <3>3, <1>1, <2>1, AnswerFacts DEF FireRefused, FireUnanswered, BackoffEnds, CallKept
    <3> QED
      BY <1>3, <3>1, <3>2, <3>3 DEF Handler
  <2> QED
    BY <1>1, <2>2
<1>4. ASSUME NEW d \in Calls, Cancelled(d) \/ ClientGivesUp(d) PROVE FALSE
  BY <1>1, <1>2, <1>4 DEF Cancelled, ClientGivesUp
<1>5. ASSUME NEW r \in Replicas, Crash(r) \/ LeaderMoves(r) PROVE FALSE
  BY <1>1, <1>5 DEF Crash, LeaderMoves, call
<1>6. ~Tick /\ ~UNCHANGED vars
  BY <1>1 DEF Tick, vars, call
<1>7. ASSUME NEW d \in Calls, NEW q \in Requests, Rejected(d, q) \/ RefusedHere(d, q) \/ Fires(d, q)
      PROVE  FALSE
  BY <1>1, <1>2, <1>7 DEF Rejected, RefusedHere, Fires
<1>8. ASSUME NEW d \in Calls, NEW q \in Requests, IdempotencyHit(d, q), d # c PROVE FALSE
  <2>1. PICK e \in idem[q.replica] : e.answer \in Answers /\ Answer(d, e.answer)
    BY <1>8, HitFacts
  <2> QED
    BY <1>2, <1>8, <2>1
<1> QED
  BY <1>3, <1>4, <1>5, <1>6, <1>7, <1>8 DEF Next, Receive

\* An answer from the idempotency cache is what a call of the same schedule and key
\* was told less than the TTL ago: the fire it made, or the text of None when the
\* Brain had buffered it; for every TTL and every budget of the sweep.
THEOREM HitsAreTruthful == Spec => HitIsTruthful
<1> DEFINE Truthful(c) ==
              step[c] = "idle" /\ result'[c] # NoFire =>
                  \E d \in Calls, f \in accepted :
                      /\ SameKey(request'[c], request[d]) /\ drawnBy[f] = d
                      /\ firedAt[d] # Never /\ now - firedAt[d] < TTL
                      /\ result'[c] = result[d] /\ result[d] \in {f, NoneText}
<1>1. IInv /\ [Next]_vars => \A c \in Calls : Truthful(c)
  <2> SUFFICES ASSUME IInv, [Next]_vars, NEW c \in Calls, step[c] = "idle", result'[c] # NoFire
               PROVE  \E d \in Calls, f \in accepted :
                        /\ SameKey(request'[c], request[d]) /\ drawnBy[f] = d
                        /\ firedAt[d] # Never /\ now - firedAt[d] < TTL
                        /\ result'[c] = result[d] /\ result[d] \in {f, NoneText}
    OBVIOUS
  <2>1. PICK q \in Requests : IdempotencyHit(c, q)
    BY OnlyAHitNamesAFire
  <2>2. PICK e \in idem[q.replica] :
          SameKey(e, q) /\ Fresh(e.at) /\ e.answer \in Answers /\ Answer(c, e.answer)
    BY <2>1, HitFacts
  <2>3. q.replica \in Replicas /\ request'[c] = q /\ result'[c] = e.answer
    BY <2>1, <2>2, AnswerFacts, ArrivesFacts DEF IdempotencyHit, Requests, IInv
  <2>4. PICK d \in Calls, f \in accepted :
        /\ drawnBy[f] = d /\ e.answer \in {f, NoneText} /\ result[d] = e.answer
        /\ SameKey(e, request[d]) /\ firedAt[d] = e.at
    BY <2>2, <2>3 DEF IInv, EntriesTrue, EntryTrue
  <2>5. e.at \in Nat
    BY <2>2, <2>3, BoundsAssumption DEF IInv, TypeOK, Entries
  <2>6. SameKey(request'[c], request[d])
    BY <2>2, <2>3, <2>4 DEF SameKey
  <2>7. firedAt[d] # Never /\ now - firedAt[d] < TTL
    BY <2>2, <2>4, <2>5 DEF Fresh, Never
  <2> QED
    BY <2>3, <2>4, <2>6, <2>7
<1>2. IInv /\ [Next]_vars => [\A c \in Calls : Truthful(c)]_vars
  BY <1>1
<1> QED
  BY <1>2, TriggerInvariant, PTL DEF Spec, HitIsTruthful

\* A repeated trigger does not fire again within the TTL, if its process has
\* answered the first with a fire: no sweep and no other call takes the entry away.
THEOREM RepeatsFireNothing == Spec => RepeatFiresNothing
<1> DEFINE Held(c, d) ==
              step[d] = "idle" /\ step'[d] = "firing" /\ firedAt[c] # Never
              /\ request[c] = request'[d] /\ request[c].key # NoKey
                  => now - firedAt[c] >= TTL
<1>1. IInv /\ [Next]_vars => \A c, d \in Calls : Held(c, d)
  <2> SUFFICES ASSUME IInv, [Next]_vars, NEW c \in Calls, NEW d \in Calls,
                      step[d] = "idle", step'[d] = "firing", firedAt[c] # Never,
                      request[c] = request'[d], request[c].key # NoKey,
                      ~(now - firedAt[c] >= TTL)
               PROVE  FALSE
    OBVIOUS
  <2>0. TypeOK /\ now \in Nat /\ firedAt[c] \in Int /\ TTL \in Nat
    BY BoundsAssumption DEF IInv, TypeOK, Never
  <2>1. PICK q \in Requests : Fires(d, q)
    <3>1. ASSUME NEW b \in Calls, NEW answer \in Answers \cup {NoFire}, Answer(b, answer) PROVE FALSE
      BY <2>0, <3>1, AnswerFacts DEF CallKept
    <3>2. ASSUME NEW b \in Calls, Handler(b) PROVE FALSE
      <4>1. step[b] # "idle"
        BY <3>2 DEF Handler, FireAccepted, FireRefused, FireUnanswered, BackoffEnds, AckEnds
      <4>2. step'[d] = step[d] \/ \E answer \in Answers \cup {NoFire} : Answer(b, answer)
        <5>1. Str(result[b]) \in Answers \cup {NoFire}
          BY <2>0 DEF TypeOK, Str, Answers
        <5> QED
          BY <2>0, <3>2, <4>1, <5>1
             DEF Handler, FireAccepted, FireRefused, FireUnanswered, BackoffEnds, AckEnds, Awaits, TypeOK
      <4> QED
        BY <3>1, <4>2
    <3>3. ASSUME NEW b \in Calls, Cancelled(b) \/ ClientGivesUp(b) PROVE FALSE
      BY <3>1, <3>3 DEF Cancelled, ClientGivesUp
    <3>4. ASSUME NEW r \in Replicas, Crash(r) \/ LeaderMoves(r) PROVE FALSE
      BY <3>4 DEF Crash, LeaderMoves, call
    <3>5. ~Tick /\ ~UNCHANGED vars
      BY DEF Tick, vars, call
    <3>6. ASSUME NEW b \in Calls, NEW q \in Requests, Receive(b, q), ~Fires(b, q) PROVE FALSE
      <4>1. \E answer \in Answers \cup {NoFire} : Answer(b, answer)
        BY <3>6, HitFacts DEF Receive, Rejected, RefusedHere
      <4> QED
        BY <3>1, <4>1
    <3>7. ASSUME NEW b \in Calls, NEW q \in Requests, Fires(b, q), b # d PROVE FALSE
      BY <2>0, <3>7 DEF Fires, TypeOK
    <3> QED
      BY <3>2, <3>3, <3>4, <3>5, <3>6, <3>7 DEF Next
  <2>2. request[c] = q /\ q.key # NoKey /\ q.replica \in Replicas
    BY <2>0, <2>1, ArrivesFacts, MissedKeeps DEF Fires
  <2>3. Fresh(firedAt[c])
    BY <2>0 DEF Fresh
  <2>4. Kept(c)
    BY <2>2, <2>3 DEF IInv, FiredIsKept
  <2>5. PICK e \in idem[q.replica] : SameKey(e, q) /\ e.at >= firedAt[c]
    BY <2>2, <2>4 DEF Kept
  <2>6. e.at \in Nat
    BY <2>0, <2>2, <2>5, BoundsAssumption DEF TypeOK, Entries
  <2>7. Fresh(e.at)
    BY <2>0, <2>3, <2>5, <2>6 DEF Fresh
  <2>8. PICK entries \in Swept(q.replica) : Hits(q, entries) = {}
    BY <2>1, <2>2 DEF Fires, Missed
  <2>9. e \in entries
    BY <2>0, <2>2, <2>5, <2>7, <2>8, SweptFacts
  <2> QED
    BY <2>5, <2>7, <2>8, <2>9 DEF Hits, Of
<1>2. IInv /\ [Next]_vars => [\A c, d \in Calls : Held(c, d)]_vars
  BY <1>1
<1> QED
  BY <1>2, TriggerInvariant, PTL DEF Spec, RepeatFiresNothing
=============================================================================
