------------------------ MODULE LeaderElectionProofs ------------------------
(***************************************************************************)
(* Proofs about the leader gates, for any set of instances, sessions and   *)
(* keys and any number of faults: every variable keeps its type, a leader  *)
(* on a live session owns its lock unless it is giving it up, no two       *)
(* instances lead the same key outside those two cases, no lock is left    *)
(* behind, and the gates together implement LeaderLock.                    *)
(***************************************************************************)
EXTENDS LeaderElection, TLAPS

-----------------------------------------------------------------------------
(* The inductive invariant *)

\* A lock has one owner.
OneOwner == \A r, s \in Session : \A k \in Key : Owner(r, k) /\ Owner(s, k) => r = s

\* No two instances share a session.
ConnDistinct ==
    \A i, j \in Instance : i # j /\ conn[i] = conn[j] => conn[i] = NoSession

\* The server has nothing to execute for a session that ended.
DeadIsIdle == \A s \in Session : s \notin alive => query[s] = Nothing

\* What an instance awaits belongs to the place its loop is at.
CallFits(i) ==
    /\ pc[i] = "acquiring" => call[i].op = "acquire"
    /\ pc[i] = "releasing" => call[i].op = "release"
    /\ pc[i] = "probing" => call[i].op = "probe"
    /\ pc[i] = "cleanup" => call[i] = Nothing \/ call[i].op = "release"
    /\ pc[i] \in {"sleep", "closing", "shutting", "stopped"} => call[i] = Nothing

\* Leadership needs a connection, a working one, and is over once it is closed.
HeldNeedsConn(i) ==
    held[i] # {} => /\ conn[i] # NoSession /\ usable[i]
                    /\ pc[i] \notin {"closing", "shutting", "stopped"}

\* An acquire under way is still to be executed, or was granted if it says so.
AcquireUnderWay(i) ==
    call[i].op = "acquire" /\ conn[i] \in alive /\ usable[i] =>
        \/ query[conn[i]] = call[i] /\ reply[conn[i]] = "none"
        \/ query[conn[i]] = Nothing
           /\ (reply[conn[i]] = "true" => Owner(conn[i], call[i].key))

\* The server is asked to release only for an instance that gives up, or leads nothing.
ReleaseUnderWay(i) ==
    conn[i] # NoSession /\ query[conn[i]].op = "release" =>
        \/ held[i] = {}
        \/ pc[i] = "cleanup"
        \/ pc[i] = "releasing" /\ call[i] = query[conn[i]]

LeaderOwns(i) ==
    \A k \in held[i] : conn[i] \in alive => Owner(conn[i], k) \/ GivingUp(i, k)

InstanceInv(i) ==
    /\ CallFits(i)
    /\ HeldNeedsConn(i)
    /\ AcquireUnderWay(i)
    /\ ReleaseUnderWay(i)
    /\ LeaderOwns(i)

IInv ==
    /\ TypeOK
    /\ OneOwner
    /\ ConnDistinct
    /\ DeadIsIdle
    /\ \A i \in Instance : InstanceInv(i)

(* What NothingLeftBehind needs beyond it: how often a session owns a lock *)

\* A session that ended owns nothing, and neither does one to be opened.
DeadOwnsNothing == \A s \in Session : s \notin alive => \A k \in Key : owns[s][k] = 0

\* The key of the query is one to acquire, or one held.
KeyFits(i) ==
    /\ pc[i] = "acquiring" => todo[i] \cap held[i] = {} /\ call[i].key \in todo[i]
    /\ pc[i] = "releasing" => call[i].key \in held[i]

\* The gate has a working connection, and knows what it has asked for on it.
InStep(i) == Connected(i) /\ pc[i] \in InCycle \cup {"sleep"}

\* Nothing is under way on the session but the query the gate awaits.
LineIsClear(i) ==
    InStep(i) =>
        \/ query[conn[i]] = Nothing
        \/ pc[i] \in InCycle /\ query[conn[i]] = call[i] /\ reply[conn[i]] = "none"

\* The session has an answer, and it is r.
Said(s, r) == query[s] = Nothing /\ reply[s] = r

\* How often the session of i owns k: once what i leads, but for the key of the query.
Due(i, k) ==
    IF pc[i] = "acquiring" /\ call[i].key = k
    THEN IF Said(conn[i], "true") THEN 1 ELSE 0
    ELSE IF pc[i] = "releasing" /\ call[i].key = k
    THEN IF Said(conn[i], "true") \/ Said(conn[i], "false") THEN 0 ELSE 1
    ELSE IF k \in held[i] THEN 1 ELSE 0

Counted(i) ==
    InStep(i) => \A k \in Key \ swallowed[i] : owns[conn[i]][k] = Due(i, k)

CountInv(i) == KeyFits(i) /\ LineIsClear(i) /\ Counted(i)

CountIInv == IInv /\ DeadOwnsNothing /\ \A i \in Instance : CountInv(i)

-----------------------------------------------------------------------------
(* Types *)

Place == InCycle \cup {"sleep", "closing", "cleanup", "shutting", "stopped"}

\* The variables of the gates have their types.
GateTypeOK ==
    /\ pc \in [Instance -> Place]
    /\ held \in [Instance -> SUBSET Key]
    /\ desired \in [Instance -> SUBSET Key]
    /\ todo \in [Instance -> SUBSET Key]
    /\ call \in [Instance -> Query \cup {Nothing}]
    /\ conn \in [Instance -> Session \cup {NoSession}]
    /\ usable \in [Instance -> BOOLEAN]
    /\ stopping \in [Instance -> BOOLEAN]
    /\ swallowed \in [Instance -> SUBSET Key]

\* The rest have theirs.
RestTypeOK ==
    /\ backend \in {"postgres", "postgres_per_project"}
    /\ scope \in [Instance -> SUBSET Project]
    /\ faults \in 0..MaxFaults
    /\ changes \in 0..MaxScopeChanges

LEMMA TypeParts == TypeOK <=> ServerTypeOK /\ GateTypeOK /\ RestTypeOK
BY DEF TypeOK, GateTypeOK, RestTypeOK, Place

LEMMA TypePartsNext == TypeOK' <=> ServerTypeOK' /\ GateTypeOK' /\ RestTypeOK'
BY DEF TypeOK, GateTypeOK, RestTypeOK, Place

\* A query sent, executed, failed or lost leaves the server well typed.
LEMMA SentType ==
    ASSUME ServerTypeOK, NEW s \in Session, NEW q \in Query, Sent(s, q)
    PROVE  ServerTypeOK'
BY DEF ServerTypeOK, Sent

LEMMA EndedType ==
    ASSUME ServerTypeOK, NEW s \in Session, Ended(s)
    PROVE  ServerTypeOK'
BY DEF ServerTypeOK, Ended

LEMMA ReturnsType ==
    ASSUME ServerTypeOK, NEW s \in Session, NEW r \in {"true", "false", "error"},
           Returns(s, r), owns' \in [Session -> [Key -> Nat]]
    PROVE  ServerTypeOK'
BY DEF ServerTypeOK, Returns

LEMMA SameServerType == ASSUME ServerTypeOK, UNCHANGED serverVars PROVE ServerTypeOK'
BY DEF ServerTypeOK, serverVars

\* owns goes up, or down, at one lock of one session.
LEMMA Granted ==
    ASSUME ServerTypeOK, NEW s \in Session, NEW k \in Key,
           owns' = [owns EXCEPT ![s][k] = owns[s][k] + 1]
    PROVE  /\ owns' \in [Session -> [Key -> Nat]]
           /\ owns'[s][k] = owns[s][k] + 1
           /\ \A l \in Key : l # k => owns'[s][l] = owns[s][l]
           /\ \A r \in Session : r # s => owns'[r] = owns[r]
<1>1. PICK n \in Nat : n = owns[s][k] + 1
  BY DEF ServerTypeOK
<1>2. owns' = [owns EXCEPT ![s][k] = n]
  BY <1>1
<1>3. QED
  BY <1>1, <1>2 DEF ServerTypeOK

LEMMA GivenBack ==
    ASSUME ServerTypeOK, NEW s \in Session, NEW k \in Key, Owner(s, k),
           owns' = [owns EXCEPT ![s][k] = owns[s][k] - 1]
    PROVE  /\ owns' \in [Session -> [Key -> Nat]]
           /\ owns'[s][k] = owns[s][k] - 1
           /\ \A l \in Key : l # k => owns'[s][l] = owns[s][l]
           /\ \A r \in Session : r # s => owns'[r] = owns[r]
<1>1. PICK n \in Nat : n = owns[s][k] - 1
  BY DEF ServerTypeOK, Owner
<1>2. owns' = [owns EXCEPT ![s][k] = n]
  BY <1>1
<1>3. QED
  BY <1>1, <1>2 DEF ServerTypeOK

-----------------------------------------------------------------------------
(* What a step leaves alone *)

Untouched(i) ==
    /\ pc'[i] = pc[i]
    /\ held'[i] = held[i]
    /\ call'[i] = call[i]
    /\ conn'[i] = conn[i]
    /\ usable'[i] = usable[i]

SessionSame(s) ==
    /\ s \in alive' => s \in alive
    /\ owns'[s] = owns[s]
    /\ query'[s] = query[s]
    /\ reply'[s] = reply[s]

OutsideOf(i) == Untouched(i) /\ (conn[i] # NoSession => SessionSame(conn[i]))

\* An instance that neither moves nor has its session moved keeps its invariant.
LEMMA OutsideKeeps ==
    ASSUME TypeOK, TypeOK', NEW i \in Instance, InstanceInv(i), OutsideOf(i)
    PROVE  InstanceInv(i)'
<1>1. conn[i] = NoSession => conn[i] \notin alive /\ conn'[i] \notin alive'
  BY ElectionAssumption DEF TypeOK, ServerTypeOK, OutsideOf, Untouched
<1>2. CallFits(i)'
  BY DEF InstanceInv, CallFits, OutsideOf, Untouched
<1>3. HeldNeedsConn(i)'
  BY DEF InstanceInv, HeldNeedsConn, OutsideOf, Untouched
<1>4. AcquireUnderWay(i)'
  BY <1>1 DEF InstanceInv, AcquireUnderWay, OutsideOf, Untouched, SessionSame, Owner
<1>5. ReleaseUnderWay(i)'
  BY DEF InstanceInv, ReleaseUnderWay, OutsideOf, Untouched, SessionSame
<1>6. LeaderOwns(i)'
  BY <1>1 DEF InstanceInv, LeaderOwns, GivingUp, OutsideOf, Untouched, SessionSame, Owner
<1>7. QED
  BY <1>2, <1>3, <1>4, <1>5, <1>6 DEF InstanceInv

\* A step of i, or of the server, keeps what it must.
Keeps(i) ==
    /\ OneOwner' /\ ConnDistinct' /\ DeadIsIdle'
    /\ InstanceInv(i)'
    /\ \A j \in Instance \ {i} : OutsideOf(j)

LEMMA KeepsAll ==
    ASSUME IInv, TypeOK', NEW i \in Instance, Keeps(i)
    PROVE  IInv'
BY OutsideKeeps DEF IInv, Keeps

\* Another instance has another session.
LEMMA OtherSession ==
    ASSUME ConnDistinct, NEW i \in Instance, NEW j \in Instance \ {i}, conn[j] # NoSession
    PROVE  conn[i] # conn[j]
BY DEF ConnDistinct

-----------------------------------------------------------------------------
(* The server *)

\* A step of the server on session s.
LEMMA ServerKeeps ==
    ASSUME IInv, TypeOK', NEW s \in Session, UNCHANGED gateVars,
           OneOwner', DeadIsIdle',
           \A r \in Session \ {s} : SessionSame(r),
           \A i \in Instance : conn[i] = s => InstanceInv(i)'
    PROVE  IInv'
<1>1. ConnDistinct'
  BY DEF IInv, ConnDistinct, gateVars
<1>2. ASSUME NEW i \in Instance, conn[i] # s
      PROVE  InstanceInv(i)'
  <2>1. Untouched(i)
    BY DEF Untouched, gateVars
  <2>2. conn[i] # NoSession => conn[i] \in Session \ {s}
    BY <1>2 DEF IInv, TypeOK
  <2>3. OutsideOf(i)
    BY <2>1, <2>2 DEF OutsideOf
  <2>4. QED
    BY <2>3, OutsideKeeps DEF IInv
<1>3. QED
  BY <1>1, <1>2 DEF IInv

\* What a query that has been executed looks like to the rest.
LEMMA ReturnsSame ==
    ASSUME TypeOK, NEW s \in Session, NEW r \in {"true", "false", "error"}, Returns(s, r),
           \A q \in Session \ {s} : owns'[q] = owns[q]
    PROVE  /\ \A q \in Session \ {s} : SessionSame(q)
           /\ query'[s] = Nothing /\ reply'[s] = r /\ alive' = alive
           /\ DeadIsIdle => DeadIsIdle'
BY DEF TypeOK, ServerTypeOK, Returns, SessionSame, DeadIsIdle

LEMMA ExecuteAcquireKeeps ==
    ASSUME IInv, NEW s \in Session, ExecuteAcquire(s), UNCHANGED <<gateVars, backend, scope, faults, changes>>
    PROVE  IInv'
<1> DEFINE k == query[s].key
<1>1. k \in Key /\ query[s] \in Query /\ owns[s][k] \in Nat
  BY DEF IInv, TypeOK, ServerTypeOK, ExecuteAcquire, Query, Nothing
<1>2. GateTypeOK' /\ RestTypeOK'
  BY TypeParts DEF IInv, GateTypeOK, RestTypeOK, gateVars, Project
<1>3. CASE Grantable(s, k)
  <2>1. Returns(s, "true") /\ owns' = [owns EXCEPT ![s][k] = owns[s][k] + 1]
    BY <1>3 DEF ExecuteAcquire
  <2>2. ServerTypeOK
    BY DEF IInv, TypeOK
  <2>3. /\ owns' \in [Session -> [Key -> Nat]] /\ owns'[s][k] = owns[s][k] + 1
        /\ \A l \in Key : l # k => owns'[s][l] = owns[s][l]
        /\ \A r \in Session : r # s => owns'[r] = owns[r]
    BY <2>1, <2>2, <1>1, Granted
  <2>4. TypeOK'
    BY <2>1, <2>2, <2>3, <1>2, ReturnsType, TypePartsNext
  <2>5. /\ \A q \in Session \ {s} : SessionSame(q)
        /\ query'[s] = Nothing /\ reply'[s] = "true" /\ alive' = alive
        /\ DeadIsIdle'
    BY <2>1, <2>3, ReturnsSame DEF IInv
  <2>6. owns'[s][k] > 0
    BY <1>1, <2>3
  <2>7. OneOwner'
    BY <1>1, <1>3, <2>3 DEF IInv, OneOwner, Owner, Grantable, TypeOK, ServerTypeOK
  <2>8. ASSUME NEW i \in Instance, conn[i] = s
        PROVE  InstanceInv(i)'
    <3>1. InstanceInv(i) /\ Untouched(i)
      BY DEF IInv, Untouched, gateVars
    <3>2. conn'[i] = s /\ query[s].op = "acquire" /\ s \in alive
      BY <3>1, <2>8 DEF Untouched, ExecuteAcquire
    <3>3. CallFits(i)' /\ HeldNeedsConn(i)'
      BY <3>1 DEF InstanceInv, CallFits, HeldNeedsConn, Untouched
    <3>4. AcquireUnderWay(i)'
      BY <3>1, <3>2, <2>5, <2>6 DEF InstanceInv, AcquireUnderWay, Untouched, Owner, Nothing
    <3>5. ReleaseUnderWay(i)'
      BY <3>2, <2>5 DEF ReleaseUnderWay, Nothing
    <3>6. \A l \in Key : Owner(s, l) => Owner(s, l)'
      BY <2>3, <2>6 DEF Owner
    <3>7. held[i] \subseteq Key
      BY DEF IInv, TypeOK
    <3>8. LeaderOwns(i)'
      BY <3>1, <3>2, <3>6, <3>7 DEF InstanceInv, LeaderOwns, GivingUp, Untouched
    <3>9. QED
      BY <3>3, <3>4, <3>5, <3>8 DEF InstanceInv
  <2>9. QED
    BY <2>4, <2>5, <2>7, <2>8, ServerKeeps
<1>4. CASE ~Grantable(s, k)
  <2>1. Returns(s, "false") /\ UNCHANGED owns
    BY <1>4 DEF ExecuteAcquire
  <2>2. TypeOK'
    BY <2>1, <1>2, ReturnsType, TypePartsNext DEF IInv, TypeOK, ServerTypeOK
  <2>3. /\ \A q \in Session \ {s} : SessionSame(q)
        /\ query'[s] = Nothing /\ reply'[s] = "false" /\ alive' = alive
        /\ DeadIsIdle'
    BY <2>1, ReturnsSame DEF IInv
  <2>4. OneOwner'
    BY <2>1 DEF IInv, OneOwner, Owner
  <2>5. ASSUME NEW i \in Instance, conn[i] = s
        PROVE  InstanceInv(i)'
    <3>1. InstanceInv(i) /\ Untouched(i) /\ conn'[i] = s
      BY <2>5 DEF IInv, Untouched, gateVars
    <3>2. CallFits(i)' /\ HeldNeedsConn(i)'
      BY <3>1 DEF InstanceInv, CallFits, HeldNeedsConn, Untouched
    <3>3. AcquireUnderWay(i)' /\ ReleaseUnderWay(i)'
      BY <3>1, <2>3 DEF AcquireUnderWay, ReleaseUnderWay, Nothing
    <3>4. LeaderOwns(i)'
      BY <3>1, <2>1, <2>3, <2>5 DEF InstanceInv, LeaderOwns, GivingUp, Untouched, Owner
    <3>5. QED
      BY <3>2, <3>3, <3>4 DEF InstanceInv
  <2>6. QED
    BY <2>2, <2>3, <2>4, <2>5, ServerKeeps
<1>5. QED
  BY <1>3, <1>4

\* A query that changes no lock: its answer grants nothing.
LEMMA AnswerKeeps ==
    ASSUME IInv, NEW s \in Session, NEW r \in {"true", "false", "error"},
           Returns(s, r), UNCHANGED owns, s \in alive,
           query[s] # Nothing, r = "true" => query[s].op # "acquire",
           UNCHANGED gateVars, RestTypeOK'
    PROVE  IInv'
<1>1. GateTypeOK'
  BY TypeParts DEF IInv, GateTypeOK, gateVars
<1>2. TypeOK'
  BY <1>1, ReturnsType, TypePartsNext DEF IInv, TypeOK, ServerTypeOK
<1>3. /\ \A q \in Session \ {s} : SessionSame(q)
      /\ query'[s] = Nothing /\ reply'[s] = r /\ alive' = alive
      /\ DeadIsIdle'
  BY ReturnsSame DEF IInv
<1>4. OneOwner'
  BY DEF IInv, OneOwner, Owner
<1>5. ASSUME NEW i \in Instance, conn[i] = s
      PROVE  InstanceInv(i)'
  <2>1. InstanceInv(i) /\ Untouched(i) /\ conn'[i] = s
    BY <1>5 DEF IInv, Untouched, gateVars
  <2>2. CallFits(i)' /\ HeldNeedsConn(i)'
    BY <2>1 DEF InstanceInv, CallFits, HeldNeedsConn, Untouched
  <2>3. AcquireUnderWay(i)'
    <3>1. call[i].op = "acquire" /\ s \in alive /\ usable[i] => query[s] = call[i]
      BY <2>1, <1>5 DEF InstanceInv, AcquireUnderWay
    <3>2. QED
      BY <2>1, <1>3, <3>1 DEF AcquireUnderWay, Untouched
  <2>4. ReleaseUnderWay(i)'
    BY <2>1, <1>3 DEF ReleaseUnderWay, Nothing
  <2>5. LeaderOwns(i)'
    BY <2>1, <1>3, <1>5 DEF InstanceInv, LeaderOwns, GivingUp, Untouched, Owner
  <2>6. QED
    BY <2>2, <2>3, <2>4, <2>5 DEF InstanceInv
<1>6. QED
  BY <1>2, <1>3, <1>4, <1>5, ServerKeeps

LEMMA RestSame ==
    ASSUME IInv, UNCHANGED <<backend, scope, faults, changes>>
    PROVE  RestTypeOK'
BY TypeParts DEF IInv, RestTypeOK, Project

\* A release frees the lock of an instance that gives it up.
LEMMA ExecuteReleaseKeeps ==
    ASSUME IInv, NEW s \in Session, ExecuteRelease(s), UNCHANGED <<gateVars, backend, scope, faults, changes>>
    PROVE  IInv'
<1> DEFINE k == query[s].key
<1>1. k \in Key /\ query[s] \in Query /\ owns[s][k] \in Nat
  BY DEF IInv, TypeOK, ServerTypeOK, ExecuteRelease, Query, Nothing
<1>2. GateTypeOK' /\ RestTypeOK' /\ UNCHANGED gateVars
  BY TypeParts DEF IInv, GateTypeOK, RestTypeOK, gateVars, Project
<1>3. CASE Owner(s, k)
  <2>1. Returns(s, "true") /\ owns' = [owns EXCEPT ![s][k] = owns[s][k] - 1]
    BY <1>3 DEF ExecuteRelease
  <2>2. ServerTypeOK
    BY DEF IInv, TypeOK
  <2>3. /\ owns' \in [Session -> [Key -> Nat]] /\ owns'[s][k] = owns[s][k] - 1
        /\ \A l \in Key : l # k => owns'[s][l] = owns[s][l]
        /\ \A r \in Session : r # s => owns'[r] = owns[r]
    BY <2>1, <2>2, <1>1, <1>3, GivenBack
  <2>4. TypeOK'
    BY <2>1, <2>2, <2>3, <1>2, ReturnsType, TypePartsNext
  <2>5. /\ \A q \in Session \ {s} : SessionSame(q)
        /\ query'[s] = Nothing /\ reply'[s] = "true" /\ alive' = alive
        /\ DeadIsIdle'
    BY <2>1, <2>3, ReturnsSame DEF IInv
  <2>6. \A r \in Session : \A l \in Key : Owner(r, l)' => Owner(r, l)
    BY <1>1, <1>3, <2>3 DEF Owner
  <2>7. OneOwner'
    BY <2>6 DEF IInv, OneOwner
  <2>8. ASSUME NEW i \in Instance, conn[i] = s
        PROVE  InstanceInv(i)'
    <3>1. InstanceInv(i) /\ Untouched(i) /\ conn'[i] = s
      BY <2>8 DEF IInv, Untouched, gateVars
    <3>2. query[s].op = "release" /\ s # NoSession /\ held[i] \subseteq Key
      BY ElectionAssumption DEF ExecuteRelease, IInv, TypeOK
    <3>3. CallFits(i)' /\ HeldNeedsConn(i)'
      BY <3>1 DEF InstanceInv, CallFits, HeldNeedsConn, Untouched
    <3>4. AcquireUnderWay(i)'
      <4>1. ~(call[i].op = "acquire" /\ s \in alive /\ usable[i])
        BY <3>1, <3>2, <2>8 DEF InstanceInv, AcquireUnderWay, Nothing
      <4>2. QED
        BY <4>1, <3>1, <2>5 DEF AcquireUnderWay, Untouched
    <3>5. ReleaseUnderWay(i)'
      BY <3>1, <2>5 DEF ReleaseUnderWay, Nothing
    <3>6. \A l \in Key : l # k /\ Owner(s, l) => Owner(s, l)'
      BY <2>3 DEF Owner
    <3>7. held[i] = {} \/ pc[i] = "cleanup" \/ (pc[i] = "releasing" /\ call[i] = query[s])
      BY <3>1, <3>2, <2>8 DEF InstanceInv, ReleaseUnderWay
    <3>8. call[i] = query[s] => call[i] = [op |-> "release", key |-> k]
      BY <1>1, <3>2 DEF Query
    <3>9. \A l \in held[i] : l = k => GivingUp(i, l)
      BY <3>7, <3>8 DEF GivingUp
    <3>10. \A l \in held[i] : GivingUp(i, l) => GivingUp(i, l)'
      BY <3>1 DEF GivingUp, Untouched
    <3>11. \A l \in held[i] : s \in alive => Owner(s, l) \/ GivingUp(i, l)
      BY <3>1, <2>8 DEF InstanceInv, LeaderOwns
    <3>12. LeaderOwns(i)'
      BY <3>1, <3>2, <3>6, <3>9, <3>10, <3>11, <2>5 DEF LeaderOwns, Untouched
    <3>13. QED
      BY <3>3, <3>4, <3>5, <3>12 DEF InstanceInv
  <2>9. QED
    BY <1>2, <2>4, <2>5, <2>7, <2>8, ServerKeeps
<1>4. CASE ~Owner(s, k)
  BY <1>4, <1>2, AnswerKeeps DEF ExecuteRelease, Nothing
<1>5. QED
  BY <1>3, <1>4

\* A session that ends takes its locks and its query with it.
LEMMA EndedKeeps ==
    ASSUME IInv, NEW s \in Session, Ended(s), UNCHANGED gateVars, RestTypeOK'
    PROVE  IInv'
<1>1. GateTypeOK'
  BY TypeParts DEF IInv, GateTypeOK, gateVars
<1>2. TypeOK'
  BY <1>1, EndedType, TypePartsNext DEF IInv, TypeOK
<1>3. /\ \A r \in Session \ {s} : SessionSame(r)
      /\ alive' = alive \ {s} /\ query'[s] = Nothing
      /\ \A l \in Key : owns'[s][l] = 0
  BY DEF IInv, TypeOK, ServerTypeOK, Ended, SessionSame
<1>4. OneOwner'
  BY <1>3 DEF IInv, OneOwner, Owner, SessionSame
<1>5. DeadIsIdle'
  BY <1>3 DEF IInv, DeadIsIdle, SessionSame
<1>6. ASSUME NEW i \in Instance, conn[i] = s
      PROVE  InstanceInv(i)'
  <2>1. InstanceInv(i) /\ Untouched(i) /\ conn'[i] = s
    BY <1>6 DEF IInv, Untouched, gateVars
  <2>2. CallFits(i)' /\ HeldNeedsConn(i)'
    BY <2>1 DEF InstanceInv, CallFits, HeldNeedsConn, Untouched
  <2>3. AcquireUnderWay(i)' /\ ReleaseUnderWay(i)' /\ LeaderOwns(i)'
    BY <2>1, <1>3 DEF AcquireUnderWay, ReleaseUnderWay, LeaderOwns, Nothing
  <2>4. QED
    BY <2>2, <2>3 DEF InstanceInv
<1>7. QED
  BY <1>2, <1>3, <1>4, <1>5, <1>6, ServerKeeps

LEMMA EnvironmentKeeps ==
    ASSUME IInv, NEW s \in Session, Execute(s) \/ StatementError(s) \/ SessionLost(s) \/ Reap(s)
    PROVE  IInv'
<1>1. CASE Execute(s)
  <2>1. RestTypeOK' /\ UNCHANGED gateVars
    BY <1>1, RestSame DEF Execute
  <2>2. CASE ExecuteProbe(s)
    BY <2>1, <2>2, AnswerKeeps DEF ExecuteProbe, Nothing
  <2>3. QED
    BY <1>1, <2>2, ExecuteAcquireKeeps, ExecuteReleaseKeeps DEF Execute
<1>2. CASE StatementError(s)
  <2>1. RestTypeOK' /\ UNCHANGED gateVars
    BY <1>2, ElectionAssumption, TypeParts DEF IInv, StatementError, Fault, RestTypeOK, Project
  <2>2. QED
    BY <1>2, <2>1, AnswerKeeps DEF StatementError, StatementFails
<1>3. CASE SessionLost(s)
  <2>1. RestTypeOK' /\ UNCHANGED gateVars
    BY <1>3, ElectionAssumption, TypeParts DEF IInv, SessionLost, Fault, RestTypeOK, Project
  <2>2. QED
    BY <1>3, <2>1, EndedKeeps DEF SessionLost
<1>4. CASE Reap(s)
  BY <1>4, RestSame, EndedKeeps DEF Reap
<1>5. QED
  BY <1>1, <1>2, <1>3, <1>4

-----------------------------------------------------------------------------
(* The steps of the gates *)

\* What i leads is not being released, and is its own.
Safe(i, h) ==
    h # {} => /\ query[conn[i]].op # "release"
              /\ \A k \in h : conn[i] \in alive => Owner(conn[i], k)

\* What i leads has a working connection.
Backed(i, h) == h # {} => conn[i] # NoSession /\ usable[i]

LEMMA AtType ==
    ASSUME TypeOK, NEW i \in Instance, NEW h \in SUBSET Key, NEW d \in SUBSET Key,
           NEW m \in SUBSET Key, NEW next \in Place, At(i, h, d, m, next)
    PROVE  /\ pc' \in [Instance -> Place]
           /\ held' \in [Instance -> SUBSET Key]
           /\ desired' \in [Instance -> SUBSET Key]
           /\ todo' \in [Instance -> SUBSET Key]
           /\ pc'[i] = next /\ held'[i] = h
           /\ \A j \in Instance \ {i} : pc'[j] = pc[j] /\ held'[j] = held[j]
BY DEF TypeOK, At, Place

\* A step that only ends a query: it leaves the sessions alone.
LEMMA QuietKeeps ==
    ASSUME IInv, NEW i \in Instance, NEW h \in SUBSET Key, NEW d \in SUBSET Key,
           NEW m \in SUBSET Key, NEW next \in Place,
           At(i, h, d, m, next), Quiet(i), faults' \in 0..MaxFaults,
           next \in {"sleep", "cleanup"} \/ h = {}, next \notin InCycle,
           Backed(i, h), next = "cleanup" \/ Safe(i, h)
    PROVE  IInv'
<1>1. /\ pc' \in [Instance -> Place] /\ held' \in [Instance -> SUBSET Key]
      /\ desired' \in [Instance -> SUBSET Key] /\ todo' \in [Instance -> SUBSET Key]
      /\ pc'[i] = next /\ held'[i] = h
      /\ \A j \in Instance \ {i} : pc'[j] = pc[j] /\ held'[j] = held[j]
  BY AtType DEF IInv
<1>2. /\ UNCHANGED <<serverVars, conn, usable>> /\ call'[i] = Nothing
      /\ call' \in [Instance -> Query \cup {Nothing}]
      /\ \A j \in Instance \ {i} : call'[j] = call[j]
  BY DEF IInv, TypeOK, Quiet
<1>3. ServerTypeOK'
  BY <1>2, SameServerType DEF IInv, TypeOK
<1>4. GateTypeOK'
  BY <1>1, <1>2 DEF IInv, TypeOK, GateTypeOK, Quiet
<1>5. RestTypeOK'
  BY DEF IInv, TypeOK, RestTypeOK, Quiet, Project
<1>6. TypeOK'
  BY <1>3, <1>4, <1>5, TypePartsNext
<1>7. OneOwner' /\ ConnDistinct' /\ DeadIsIdle'
  BY <1>2 DEF IInv, OneOwner, ConnDistinct, DeadIsIdle, Owner, serverVars
<1>8. \A j \in Instance \ {i} : OutsideOf(j)
  BY <1>1, <1>2 DEF OutsideOf, Untouched, SessionSame, serverVars
<1>9. CallFits(i)'
  BY <1>1, <1>2 DEF CallFits, InCycle
<1>10. HeldNeedsConn(i)'
  BY <1>1, <1>2 DEF HeldNeedsConn, Backed
<1>11. AcquireUnderWay(i)'
  BY <1>2 DEF AcquireUnderWay, Nothing
<1>12. ReleaseUnderWay(i)'
  BY <1>1, <1>2 DEF ReleaseUnderWay, Safe, serverVars
<1>13. LeaderOwns(i)'
  BY <1>1, <1>2 DEF LeaderOwns, GivingUp, Safe, Owner, serverVars
<1>14. QED
  BY <1>6, <1>7, <1>8, <1>9, <1>10, <1>11, <1>12, <1>13, KeepsAll DEF Keeps, InstanceInv

\* A query asked: sent on a session of i alone, or lost on a connection that is dead.
LEMMA AskFacts ==
    ASSUME IInv, NEW i \in Instance, NEW q \in Query, Ask(i, q)
    PROVE  /\ ServerTypeOK' /\ UNCHANGED owns
           /\ call' \in [Instance -> Query \cup {Nothing}] /\ call'[i] = q
           /\ conn' \in [Instance -> Session \cup {NoSession}] /\ conn'[i] \in Session
           /\ \A j \in Instance \ {i} :
                 /\ call'[j] = call[j] /\ conn'[j] = conn[j]
                 /\ conn[j] # NoSession => SessionSame(conn[j])
           /\ ConnDistinct' /\ DeadIsIdle'
           /\ conn[i] # NoSession => conn'[i] = conn[i] /\ (conn[i] \in alive' => conn[i] \in alive)
           /\ conn'[i] \in alive' /\ usable[i] =>
                 query'[conn'[i]] = q /\ reply'[conn'[i]] = "none"
           /\ query'[conn'[i]] = q \/ query'[conn'[i]] = query[conn[i]]
<1>1. call' \in [Instance -> Query \cup {Nothing}] /\ call'[i] = q
      /\ \A j \in Instance \ {i} : call'[j] = call[j]
  BY DEF IInv, TypeOK, Ask
<1>2. ServerTypeOK /\ conn \in [Instance -> Session \cup {NoSession}] /\ NoSession \notin Session
  BY ElectionAssumption DEF IInv, TypeOK
<1>3. CASE conn[i] = NoSession
  <2>1. PICK s \in Session : /\ s \notin alive /\ \A j \in Instance : conn[j] # s
                             /\ Sent(s, q) /\ conn' = [conn EXCEPT ![i] = s]
    BY <1>2, <1>3 DEF Ask, Fresh, Connected, ServerTypeOK
  <2>2. ServerTypeOK' /\ UNCHANGED owns
    BY <1>2, <2>1, SentType DEF Sent
  <2>3. alive' = alive \cup {s} /\ query'[s] = q /\ reply'[s] = "none"
        /\ \A r \in Session \ {s} : query'[r] = query[r] /\ reply'[r] = reply[r]
    BY <1>2, <2>1 DEF Sent, ServerTypeOK
  <2>4. conn'[i] = s /\ \A j \in Instance \ {i} : conn'[j] = conn[j]
    BY <1>2, <2>1
  <2>5. \A r \in Session \ {s} : SessionSame(r)
    BY <2>2, <2>3 DEF SessionSame
  <2>6. ConnDistinct' /\ DeadIsIdle'
    BY <1>2, <2>1, <2>3, <2>4 DEF IInv, ConnDistinct, DeadIsIdle
  <2>7. QED
    BY <1>1, <1>2, <1>3, <2>1, <2>2, <2>3, <2>4, <2>5, <2>6
<1>4. CASE conn[i] # NoSession /\ Connected(i)
  <2>1. Sent(conn[i], q) /\ UNCHANGED conn /\ conn[i] \in Session /\ conn[i] \in alive
    BY <1>2, <1>4 DEF Ask, Connected
  <2>2. ServerTypeOK' /\ UNCHANGED owns
    BY <1>2, <2>1, SentType DEF Sent
  <2>3. alive' = alive /\ query'[conn[i]] = q /\ reply'[conn[i]] = "none"
        /\ \A r \in Session \ {conn[i]} : query'[r] = query[r] /\ reply'[r] = reply[r]
    BY <1>2, <2>1 DEF Sent, ServerTypeOK
  <2>4. \A r \in Session \ {conn[i]} : SessionSame(r)
    BY <2>2, <2>3 DEF SessionSame
  <2>5. \A j \in Instance \ {i} : conn[j] # NoSession => conn[j] \in Session \ {conn[i]}
    BY <1>2, OtherSession DEF IInv
  <2>6. ConnDistinct' /\ DeadIsIdle'
    BY <1>2, <2>1, <2>3 DEF IInv, ConnDistinct, DeadIsIdle
  <2>7. QED
    BY <1>1, <1>2, <1>4, <2>1, <2>2, <2>3, <2>4, <2>5, <2>6
<1>5. CASE conn[i] # NoSession /\ ~Connected(i)
  <2>1. UNCHANGED <<serverVars, conn>> /\ conn[i] \in Session
    BY <1>2, <1>5 DEF Ask
  <2>2. ServerTypeOK' /\ \A r \in Session : SessionSame(r)
    BY <1>2, <2>1, SameServerType DEF SessionSame, serverVars
  <2>3. ConnDistinct' /\ DeadIsIdle'
    BY <2>1 DEF IInv, ConnDistinct, DeadIsIdle, serverVars
  <2>4. QED
    BY <1>1, <1>2, <1>5, <2>1, <2>2, <2>3 DEF serverVars, Connected
<1>6. QED
  BY <1>3, <1>4, <1>5

\* A step that asks: q fits the place, and what i leads is safe.
LEMMA AskKeeps ==
    ASSUME IInv, NEW i \in Instance, NEW h \in SUBSET Key, NEW d \in SUBSET Key,
           NEW m \in SUBSET Key, NEW q \in Query, NEW next \in {"acquiring", "releasing", "probing"},
           At(i, h, d, m, next), Ask(i, q),
           q.op = (CASE next = "acquiring" -> "acquire" [] next = "releasing" -> "release" [] OTHER -> "probe"),
           faults' \in 0..MaxFaults, swallowed' \in [Instance -> SUBSET Key],
           Backed(i, h), Safe(i, h)
    PROVE  IInv'
<1>1. /\ pc' \in [Instance -> Place] /\ held' \in [Instance -> SUBSET Key]
      /\ desired' \in [Instance -> SUBSET Key] /\ todo' \in [Instance -> SUBSET Key]
      /\ pc'[i] = next /\ held'[i] = h
      /\ \A j \in Instance \ {i} : pc'[j] = pc[j] /\ held'[j] = held[j]
  <2>1. TypeOK /\ next \in Place
    BY DEF IInv, Place, InCycle
  <2>2. /\ pc' \in [Instance -> Place] /\ held' \in [Instance -> SUBSET Key]
        /\ desired' \in [Instance -> SUBSET Key] /\ todo' \in [Instance -> SUBSET Key]
        /\ pc'[i] = next /\ held'[i] = h
        /\ \A j \in Instance \ {i} : pc'[j] = pc[j] /\ held'[j] = held[j]
    BY <2>1, AtType
  <2>3. QED
    BY <2>2
<1>2. /\ ServerTypeOK' /\ UNCHANGED owns
      /\ call' \in [Instance -> Query \cup {Nothing}] /\ call'[i] = q
      /\ conn' \in [Instance -> Session \cup {NoSession}] /\ conn'[i] \in Session
      /\ \A j \in Instance \ {i} :
            /\ call'[j] = call[j] /\ conn'[j] = conn[j]
            /\ conn[j] # NoSession => SessionSame(conn[j])
      /\ ConnDistinct' /\ DeadIsIdle'
      /\ conn[i] # NoSession => conn'[i] = conn[i] /\ (conn[i] \in alive' => conn[i] \in alive)
      /\ conn'[i] \in alive' /\ usable[i] =>
            query'[conn'[i]] = q /\ reply'[conn'[i]] = "none"
      /\ query'[conn'[i]] = q \/ query'[conn'[i]] = query[conn[i]]
  BY AskFacts
<1>3. UNCHANGED <<usable, stopping, backend, scope, changes>>
  BY DEF Ask
<1>4. TypeOK'
  BY <1>1, <1>2, <1>3, TypePartsNext DEF IInv, TypeOK, GateTypeOK, RestTypeOK, Project
<1>5. OneOwner'
  BY <1>2 DEF IInv, OneOwner, Owner
<1>6. \A j \in Instance \ {i} : OutsideOf(j)
  BY <1>1, <1>2, <1>3 DEF OutsideOf, Untouched
<1>7. CallFits(i)'
  BY <1>1, <1>2 DEF CallFits
<1>8. conn'[i] # NoSession
  BY <1>2, ElectionAssumption
<1>9. HeldNeedsConn(i)'
  BY <1>1, <1>3, <1>8 DEF HeldNeedsConn, Backed
<1>10. AcquireUnderWay(i)'
  BY <1>2, <1>3 DEF AcquireUnderWay
<1>11. ReleaseUnderWay(i)'
  BY <1>1, <1>2 DEF ReleaseUnderWay, Safe
<1>12. LeaderOwns(i)'
  BY <1>1, <1>2 DEF LeaderOwns, Safe, Backed, Owner
<1>13. QED
  BY <1>2, <1>4, <1>5, <1>6, <1>7, <1>9, <1>10, <1>11, <1>12, KeepsAll DEF Keeps, InstanceInv

\* The rest of a cycle.
LEMMA CycleKeeps ==
    ASSUME IInv, NEW i \in Instance, NEW h \in SUBSET Key, NEW d \in SUBSET Key,
           NEW m \in SUBSET Key, CycleGoesOn(i, h, d, m),
           faults' \in 0..MaxFaults, swallowed' \in [Instance -> SUBSET Key],
           Backed(i, h), Safe(i, h)
    PROVE  IInv'
<1>1. CASE m # {}
  <2>1. PICK k \in m : At(i, h, d, m, "acquiring") /\ Ask(i, [op |-> "acquire", key |-> k])
    BY <1>1 DEF CycleGoesOn
  <2>2. [op |-> "acquire", key |-> k] \in Query
    BY DEF Query
  <2>3. QED
    BY <2>1, <2>2, AskKeeps
<1>2. CASE m = {} /\ h \ d # {}
  <2>1. PICK k \in h \ d : At(i, h, d, {}, "releasing") /\ Ask(i, [op |-> "release", key |-> k])
    BY <1>2 DEF CycleGoesOn
  <2>2. [op |-> "release", key |-> k] \in Query
    BY DEF Query
  <2>3. QED
    BY <2>1, <2>2, AskKeeps
<1>3. CASE m = {} /\ h \ d = {}
  <2>1. At(i, h, d, {}, "probing") /\ Ask(i, [op |-> "probe", key |-> NoKey])
    BY <1>3 DEF CycleGoesOn
  <2>2. [op |-> "probe", key |-> NoKey] \in Query
    BY DEF Query
  <2>3. QED
    BY <2>1, <2>2, AskKeeps
<1>4. QED
  BY <1>1, <1>2, <1>3

LEMMA EndKeeps ==
    ASSUME IInv, NEW i \in Instance, NEW h \in SUBSET Key, CycleEnds(i, h),
           faults' \in 0..MaxFaults, Backed(i, h), Safe(i, h)
    PROVE  IInv'
<1>1. CASE stopping[i]
  BY <1>1, QuietKeeps DEF CycleEnds, Place, InCycle
<1>2. CASE ~stopping[i]
  BY <1>2, QuietKeeps DEF CycleEnds, Place, InCycle
<1>3. QED
  BY <1>1, <1>2

LEMMA FaultsType ==
    ASSUME TypeOK, Fault \/ NoFault
    PROVE  faults' \in 0..MaxFaults
BY ElectionAssumption DEF TypeOK, Fault, NoFault

\* What is true of the instance whose turn it is.
LEMMA OwnInv ==
    ASSUME IInv, NEW i \in Instance
    PROVE  /\ InstanceInv(i) /\ held[i] \in SUBSET Key /\ desired[i] \in SUBSET Key /\ todo[i] \in SUBSET Key
           /\ call[i] \in Query \cup {Nothing} /\ conn[i] \in Session \cup {NoSession}
           /\ NoSession \notin alive
           /\ Backed(i, held[i])
           /\ \A h \in SUBSET held[i] : Backed(i, h)
BY ElectionAssumption DEF IInv, TypeOK, ServerTypeOK, InstanceInv, HeldNeedsConn, Backed

\* A query that is back, or lost, leaves nothing to execute on a working connection.
LEMMA NothingPending ==
    ASSUME IInv, NEW i \in Instance, Arrived(i) \/ Failed(i), held[i] # {}
    PROVE  query[conn[i]] = Nothing
<1>1. conn[i] \in Session /\ usable[i]
  BY OwnInv DEF InstanceInv, HeldNeedsConn
<1>2. QED
  BY <1>1 DEF Arrived, Failed, Connected, IInv, DeadIsIdle

LEMMA WakeKeeps ==
    ASSUME IInv, NEW i \in Instance, Wake(i)
    PROVE  IInv'
<1>1. Wanted(i) \in SUBSET Key
  BY ElectionAssumption DEF IInv, TypeOK, Wanted, Project
<1>2. Safe(i, held[i])
  BY OwnInv, ElectionAssumption DEF Wake, InstanceInv, HeldNeedsConn, ReleaseUnderWay, LeaderOwns, GivingUp, Safe
<1>3. faults' \in 0..MaxFaults /\ swallowed' \in [Instance -> SUBSET Key]
  BY FaultsType DEF IInv, TypeOK, Wake
<1>4. Wanted(i) \ held[i] \in SUBSET Key
  BY <1>1
<1>5. QED
  BY <1>1, <1>2, <1>3, <1>4, OwnInv, CycleKeeps DEF Wake

LEMMA AcquiredKeeps ==
    ASSUME IInv, NEW i \in Instance, Acquired(i)
    PROVE  IInv'
<1> DEFINE k == call[i].key
           h == IF reply[conn[i]] = "true" THEN held[i] \cup {k} ELSE held[i]
<1>1. /\ pc[i] = "acquiring" /\ call[i].op = "acquire" /\ call[i] # Nothing
      /\ conn[i] \in alive /\ usable[i] /\ query[conn[i]] = Nothing
  BY OwnInv DEF Acquired, Arrived, Connected, InstanceInv, CallFits, Nothing
<1>2. k \in Key
  BY <1>1, OwnInv DEF Query
<1>3. h \in SUBSET Key /\ todo[i] \ {k} \in SUBSET Key
  BY <1>2, OwnInv
<1>4. Backed(i, h)
  BY <1>1, OwnInv DEF Backed
<1>5. \A l \in held[i] : Owner(conn[i], l)
  BY <1>1, OwnInv DEF InstanceInv, LeaderOwns, GivingUp
<1>6. reply[conn[i]] = "true" => Owner(conn[i], k)
  BY <1>1, OwnInv DEF InstanceInv, AcquireUnderWay, Nothing
<1>7. Safe(i, h)
  BY <1>1, <1>5, <1>6 DEF Safe, Nothing
<1>8. faults' \in 0..MaxFaults /\ swallowed' \in [Instance -> SUBSET Key]
  BY FaultsType DEF IInv, TypeOK, Acquired
<1>9. CASE backend = "postgres"
  <2>1. CycleEnds(i, h)
    BY <1>9 DEF Acquired
  <2>2. QED
    BY <2>1, <1>3, <1>4, <1>7, <1>8, EndKeeps
<1>10. CASE backend # "postgres"
  <2>1. CycleGoesOn(i, h, desired[i], todo[i] \ {k})
    BY <1>10 DEF Acquired
  <2>2. QED
    BY <2>1, <1>3, <1>4, <1>7, <1>8, OwnInv, CycleKeeps
<1>11. QED
  BY <1>9, <1>10

LEMMA ReleasedKeeps ==
    ASSUME IInv, NEW i \in Instance, Released(i)
    PROVE  IInv'
<1> DEFINE k == call[i].key
           h == held[i] \ {k}
<1>1. pc[i] = "releasing" /\ call[i].op = "release" /\ k \in Key
  BY OwnInv DEF Released, InstanceInv, CallFits, Query, Nothing
<1>2. h \in SUBSET Key /\ Backed(i, h)
  BY OwnInv
<1>3. \A l \in h : conn[i] \in alive => Owner(conn[i], l)
  <2>1. \A l \in h : ~GivingUp(i, l)
    BY <1>1 DEF GivingUp
  <2>2. QED
    BY <2>1, OwnInv DEF InstanceInv, LeaderOwns
<1>4. Safe(i, h)
  BY <1>3, NothingPending DEF Safe, Nothing, Released
<1>5. faults' \in 0..MaxFaults
  BY FaultsType DEF IInv, Released
<1>6. swallowed' \in [Instance -> SUBSET Key]
  BY <1>1 DEF IInv, TypeOK, Released
<1>7. QED
  BY <1>2, <1>4, <1>5, <1>6, OwnInv, CycleKeeps DEF Released

LEMMA ProbedKeeps ==
    ASSUME IInv, NEW i \in Instance, Probed(i)
    PROVE  IInv'
<1>1. Safe(i, held[i])
  <2>1. pc[i] = "probing" /\ Arrived(i)
    BY DEF Probed
  <2>2. held[i] # {} => query[conn[i]] = Nothing
    BY <2>1, NothingPending
  <2>3. \A k \in held[i] : conn[i] \in alive => Owner(conn[i], k)
    BY <2>1, OwnInv DEF InstanceInv, LeaderOwns, GivingUp
  <2>4. QED
    BY <2>2, <2>3 DEF Safe, Nothing
<1>2. faults' \in 0..MaxFaults
  BY FaultsType DEF IInv, Probed
<1>3. QED
  BY <1>1, <1>2, OwnInv, EndKeeps DEF Probed

\* A step that drops all it led, or shuts the gate.
LEMMA DropKeeps ==
    ASSUME IInv, NEW i \in Instance, NEW next \in {"closing", "shutting"},
           At(i, {}, {}, {}, next), Quiet(i), Fault \/ NoFault
    PROVE  IInv'
<1>1. faults' \in 0..MaxFaults
  BY FaultsType DEF IInv
<1>2. Backed(i, {}) /\ Safe(i, {})
  BY DEF Backed, Safe
<1>3. QED
  BY <1>1, <1>2, QuietKeeps DEF Place, InCycle

LEMMA CleanedUpKeeps ==
    ASSUME IInv, NEW i \in Instance, CleanedUp(i)
    PROVE  IInv'
<1>1. faults' \in 0..MaxFaults
  BY FaultsType DEF IInv, CleanedUp
<1>2. todo[i] \ {call[i].key} \in SUBSET Key
  BY OwnInv
<1>3. QED
  BY <1>1, <1>2, OwnInv, QuietKeeps DEF CleanedUp, Place, InCycle


\* A step after which i leads nothing and asks nothing, on the connection it had or on
\* none; it may end its own session.
LEMMA IdleKeeps ==
    ASSUME IInv, TypeOK', NEW i \in Instance,
           held'[i] = {}, call'[i] = Nothing, pc'[i] \notin InCycle,
           conn'[i] \in {conn[i], NoSession},
           \A j \in Instance \ {i} : Untouched(j),
           \A s \in Session : s = conn[i] \/ SessionSame(s),
           OneOwner', DeadIsIdle'
    PROVE  IInv'
<1>1. ConnDistinct'
  BY DEF IInv, ConnDistinct, Untouched
<1>2. \A j \in Instance \ {i} : OutsideOf(j)
  <2>1. \A j \in Instance \ {i} : conn[j] # NoSession => conn[j] \in Session /\ conn[j] # conn[i]
    BY OtherSession, OwnInv DEF IInv
  <2>2. QED
    BY <2>1 DEF OutsideOf
<1>3. CallFits(i)'
  BY DEF CallFits, InCycle
<1>4. HeldNeedsConn(i)' /\ ReleaseUnderWay(i)' /\ LeaderOwns(i)'
  BY DEF HeldNeedsConn, ReleaseUnderWay, LeaderOwns
<1>5. AcquireUnderWay(i)'
  BY DEF AcquireUnderWay, Nothing
<1>6. QED
  BY <1>1, <1>2, <1>3, <1>4, <1>5, KeepsAll DEF Keeps, InstanceInv

\* What a step that leaves the server alone keeps of it.
LEMMA ServerSame ==
    ASSUME IInv, UNCHANGED serverVars
    PROVE  ServerTypeOK' /\ OneOwner' /\ DeadIsIdle' /\ \A s \in Session : SessionSame(s)
<1>1. ServerTypeOK'
  BY SameServerType DEF IInv, TypeOK
<1>2. QED
  BY <1>1 DEF IInv, OneOwner, DeadIsIdle, SessionSame, Owner, serverVars

LEMMA ScopeKeeps ==
    ASSUME IInv, NEW i \in Instance, NEW p \in Project, ScopeChanges(i, p)
    PROVE  IInv'
<1>1. UNCHANGED <<serverVars, gateVars, backend, faults>>
  BY DEF ScopeChanges
<1>2. ServerTypeOK' /\ OneOwner' /\ DeadIsIdle' /\ \A s \in Session : SessionSame(s)
  BY <1>1, ServerSame
<1>3. GateTypeOK'
  BY <1>1, TypeParts DEF IInv, GateTypeOK, gateVars
<1>4. scope' \in [Instance -> SUBSET Project]
  BY DEF IInv, TypeOK, ScopeChanges
<1>5. changes' \in 0..MaxScopeChanges
  BY ElectionAssumption DEF IInv, TypeOK, ScopeChanges
<1>6. TypeOK'
  BY <1>1, <1>2, <1>3, <1>4, <1>5, TypePartsNext DEF IInv, TypeOK, RestTypeOK
<1>7. \A j \in Instance : OutsideOf(j)
  BY <1>1, <1>2, OwnInv DEF OutsideOf, Untouched, gateVars
<1>8. ConnDistinct'
  BY <1>1 DEF IInv, ConnDistinct, gateVars
<1>9. QED
  BY <1>2, <1>6, <1>7, <1>8, OutsideKeeps DEF IInv

LEMMA CrashKeeps ==
    ASSUME IInv, NEW i \in Instance, Crash(i)
    PROVE  IInv'
<1>1. ServerTypeOK' /\ OneOwner' /\ DeadIsIdle' /\ \A s \in Session : SessionSame(s)
  BY ServerSame DEF Crash
<1>2. GateTypeOK'
  BY DEF IInv, TypeOK, GateTypeOK, Crash, Place
<1>3. RestTypeOK'
  BY FaultsType DEF IInv, TypeOK, RestTypeOK, Crash, Project
<1>4. TypeOK'
  BY <1>1, <1>2, <1>3, TypePartsNext
<1>5. /\ held'[i] = {} /\ call'[i] = Nothing /\ pc'[i] = "sleep" /\ conn'[i] = NoSession
      /\ \A j \in Instance \ {i} : Untouched(j)
  BY DEF IInv, TypeOK, Crash, Untouched
<1>6. QED
  BY <1>1, <1>4, <1>5, IdleKeeps DEF InCycle

\* A gate that closes its connection leads nothing any more.
LEMMA ClosingKeeps ==
    ASSUME IInv, NEW i \in Instance, NEW s \in {conn[i], NoSession}, NEW u \in BOOLEAN,
           Closing(i, s, u), faults' \in 0..MaxFaults,
           ServerTypeOK', OneOwner', DeadIsIdle',
           \A r \in Session : r = conn[i] \/ SessionSame(r)
    PROVE  IInv'
<1>1. pc'[i] \in {"stopped", "cleanup", "sleep"} /\ pc' \in [Instance -> Place]
  BY DEF IInv, TypeOK, Closing, Place
<1>2. conn' \in [Instance -> Session \cup {NoSession}] /\ conn'[i] = s
  BY OwnInv DEF IInv, TypeOK, Closing
<1>3. GateTypeOK'
  BY <1>1, <1>2 DEF IInv, TypeOK, GateTypeOK, Closing
<1>4. RestTypeOK'
  BY DEF IInv, TypeOK, RestTypeOK, Closing, Project
<1>5. TypeOK'
  BY <1>3, <1>4, TypePartsNext
<1>6. pc[i] \in {"closing", "shutting"} /\ UNCHANGED <<held, call>>
  BY DEF Closing
<1>7. held'[i] = {} /\ call'[i] = Nothing
  BY <1>6, OwnInv DEF InstanceInv, HeldNeedsConn, CallFits
<1>8. \A j \in Instance \ {i} : Untouched(j)
  BY DEF IInv, TypeOK, Closing, Untouched
<1>9. QED
  BY <1>1, <1>2, <1>5, <1>7, <1>8, IdleKeeps DEF InCycle

LEMMA CloseKeeps ==
    ASSUME IInv, NEW i \in Instance, Close(i)
    PROVE  IInv'
<1>1. faults' \in 0..MaxFaults
  BY FaultsType DEF IInv, Close
<1>2. CASE Connected(i)
  <2>1. Ended(conn[i]) /\ conn[i] \in Session
    BY <1>2, OwnInv DEF Close, Connected
  <2>2. ServerTypeOK'
    BY <2>1, EndedType DEF IInv, TypeOK
  <2>3. /\ \A r \in Session \ {conn[i]} : SessionSame(r)
        /\ alive' = alive \ {conn[i]} /\ query'[conn[i]] = Nothing
        /\ \A l \in Key : owns'[conn[i]][l] = 0
    BY <2>1 DEF IInv, TypeOK, ServerTypeOK, Ended, SessionSame
  <2>4. OneOwner' /\ DeadIsIdle'
    BY <2>1, <2>3 DEF IInv, OneOwner, DeadIsIdle, Owner, SessionSame
  <2>5. QED
    BY <1>1, <2>2, <2>3, <2>4, ClosingKeeps DEF Close
<1>3. CASE ~Connected(i)
  BY <1>1, <1>3, ServerSame, ClosingKeeps DEF Close
<1>4. QED
  BY <1>2, <1>3

LEMMA CloseTimesOutKeeps ==
    ASSUME IInv, NEW i \in Instance, CloseTimesOut(i)
    PROVE  IInv'
<1>1. faults' \in 0..MaxFaults
  BY FaultsType DEF IInv, CloseTimesOut
<1>2. QED
  BY <1>1, ServerSame, ClosingKeeps DEF CloseTimesOut

\* Stopping i touches nothing but its flag and, asleep, its place.
LEMMA StopKeeps ==
    ASSUME IInv, NEW i \in Instance, Stop(i)
    PROVE  IInv'
<1>1. /\ UNCHANGED <<serverVars, backend, scope, call, conn, usable, swallowed, faults, changes, held>>
      /\ stopping' \in [Instance -> BOOLEAN]
  BY DEF IInv, TypeOK, Stop, At
<1>2. ServerTypeOK' /\ OneOwner' /\ DeadIsIdle' /\ \A s \in Session : SessionSame(s)
  BY <1>1, ServerSame
<1>3. /\ pc' \in [Instance -> Place] /\ desired' \in [Instance -> SUBSET Key]
      /\ todo' \in [Instance -> SUBSET Key]
      /\ \A j \in Instance \ {i} : pc'[j] = pc[j]
      /\ pc'[i] = pc[i] \/ (pc[i] = "sleep" /\ pc'[i] = "cleanup")
  <2>1. CASE pc[i] = "sleep"
    BY <2>1, AtType, OwnInv DEF IInv, Stop, Place
  <2>2. CASE pc[i] # "sleep"
    BY <2>2 DEF IInv, TypeOK, Stop, Place
  <2>3. QED
    BY <2>1, <2>2
<1>4. TypeOK'
  BY <1>1, <1>2, <1>3, TypePartsNext DEF IInv, TypeOK, GateTypeOK, RestTypeOK, Project
<1>5. \A j \in Instance \ {i} : OutsideOf(j)
  BY <1>1, <1>2, <1>3, OwnInv DEF OutsideOf, Untouched
<1>6. ConnDistinct'
  BY <1>1 DEF IInv, ConnDistinct
<1>7. CASE pc'[i] = pc[i]
  BY <1>1, <1>2, <1>4, <1>5, <1>6, <1>7, OwnInv, OutsideKeeps, KeepsAll DEF IInv, Keeps, OutsideOf, Untouched
<1>8. CASE pc[i] = "sleep" /\ pc'[i] = "cleanup"
  <2>1. CallFits(i)' /\ HeldNeedsConn(i)' /\ ReleaseUnderWay(i)'
    BY <1>1, <1>8, OwnInv DEF InstanceInv, CallFits, HeldNeedsConn, ReleaseUnderWay
  <2>2. AcquireUnderWay(i)'
    BY <1>1, <1>8, OwnInv DEF InstanceInv, CallFits, AcquireUnderWay, Nothing
  <2>3. LeaderOwns(i)'
    BY <1>8 DEF LeaderOwns, GivingUp
  <2>4. QED
    BY <1>2, <1>4, <1>5, <1>6, <2>1, <2>2, <2>3, KeepsAll DEF Keeps, InstanceInv
<1>9. QED
  BY <1>3, <1>7, <1>8


\* A cancelled loop leaves its query behind: what it leads is now being given up.
LEMMA CancelledKeeps ==
    ASSUME IInv, NEW i \in Instance, LoopCancelled(i)
    PROVE  IInv'
<1>1. UNCHANGED <<serverVars, backend, scope, conn, stopping, swallowed, changes>>
  BY DEF LoopCancelled
<1>2. /\ pc' \in [Instance -> Place] /\ held' \in [Instance -> SUBSET Key]
      /\ desired' \in [Instance -> SUBSET Key] /\ todo' \in [Instance -> SUBSET Key]
      /\ pc'[i] = "cleanup" /\ held'[i] = held[i]
      /\ \A j \in Instance \ {i} : pc'[j] = pc[j] /\ held'[j] = held[j]
  <2>1. At(i, held[i], {}, held[i], "cleanup") /\ TypeOK
    BY DEF IInv, LoopCancelled
  <2>2. "cleanup" \in Place /\ held[i] \in SUBSET Key /\ {} \in SUBSET Key
    BY OwnInv DEF Place
  <2>3. QED
    BY <2>1, <2>2 DEF At, TypeOK, Place
<1>3. /\ call' \in [Instance -> Query \cup {Nothing}] /\ call'[i] = Nothing
      /\ \A j \in Instance \ {i} : call'[j] = call[j]
  BY DEF IInv, TypeOK, LoopCancelled
<1>4. /\ usable' \in [Instance -> BOOLEAN]
      /\ \A j \in Instance \ {i} : usable'[j] = usable[j]
  BY DEF IInv, TypeOK, LoopCancelled
<1>5. pc[i] # "closing" /\ usable[i] => usable'[i]
  BY DEF IInv, TypeOK, LoopCancelled
<1>6. ServerTypeOK' /\ OneOwner' /\ DeadIsIdle' /\ \A s \in Session : SessionSame(s)
  BY <1>1, ServerSame
<1>7. faults' \in 0..MaxFaults
  BY FaultsType DEF IInv, LoopCancelled
<1>8. TypeOK'
  BY <1>1, <1>2, <1>3, <1>4, <1>6, <1>7, TypePartsNext DEF IInv, TypeOK, GateTypeOK, RestTypeOK, Project
<1>9. \A j \in Instance \ {i} : OutsideOf(j)
  BY <1>1, <1>2, <1>3, <1>4, <1>6, OwnInv DEF OutsideOf, Untouched
<1>10. ConnDistinct'
  BY <1>1 DEF IInv, ConnDistinct
<1>11. HeldNeedsConn(i)'
  <2>1. HeldNeedsConn(i)
    BY OwnInv DEF InstanceInv
  <2>2. QED
    BY <2>1, <1>1, <1>2, <1>5 DEF HeldNeedsConn
<1>12. CallFits(i)' /\ AcquireUnderWay(i)' /\ ReleaseUnderWay(i)' /\ LeaderOwns(i)'
  BY <1>2, <1>3 DEF CallFits, AcquireUnderWay, ReleaseUnderWay, LeaderOwns, GivingUp, Nothing, InCycle
<1>13. QED
  BY <1>6, <1>8, <1>9, <1>10, <1>11, <1>12, KeepsAll DEF Keeps, InstanceInv

\* stop() asks for one release after the other.
LEMMA CleanupAsksKeeps ==
    ASSUME IInv, NEW i \in Instance, CleanupAsks(i)
    PROVE  IInv'
<1>1. PICK k \in todo[i] : Ask(i, [op |-> "release", key |-> k])
  BY DEF CleanupAsks
<1> DEFINE q == [op |-> "release", key |-> k]
<1>2. q \in Query /\ q.op = "release"
  BY OwnInv DEF Query
<1>3. pc[i] = "cleanup" /\ UNCHANGED <<pc, held, desired, todo, swallowed, faults>>
  BY DEF CleanupAsks, NoFault
<1>4. UNCHANGED <<usable, stopping, backend, scope, changes>>
  BY <1>1 DEF Ask
<1>5. /\ ServerTypeOK' /\ UNCHANGED owns
      /\ call' \in [Instance -> Query \cup {Nothing}] /\ call'[i] = q
      /\ conn' \in [Instance -> Session \cup {NoSession}] /\ conn'[i] \in Session
      /\ \A j \in Instance \ {i} :
            /\ call'[j] = call[j] /\ conn'[j] = conn[j]
            /\ conn[j] # NoSession => SessionSame(conn[j])
      /\ ConnDistinct' /\ DeadIsIdle'
  BY <1>1, <1>2, AskFacts
<1>6. TypeOK'
  BY <1>3, <1>4, <1>5, TypePartsNext DEF IInv, TypeOK, GateTypeOK, RestTypeOK, Project
<1>7. OneOwner'
  BY <1>5 DEF IInv, OneOwner, Owner
<1>8. \A j \in Instance \ {i} : OutsideOf(j)
  BY <1>3, <1>4, <1>5 DEF OutsideOf, Untouched
<1>9. HeldNeedsConn(i)'
  <2>1. HeldNeedsConn(i) /\ conn'[i] # NoSession
    BY <1>5, OwnInv, ElectionAssumption DEF InstanceInv
  <2>2. QED
    BY <2>1, <1>3, <1>4 DEF HeldNeedsConn
<1>10. CallFits(i)'
  BY <1>2, <1>3, <1>5 DEF CallFits
<1>11. AcquireUnderWay(i)'
  BY <1>2, <1>5 DEF AcquireUnderWay
<1>12. ReleaseUnderWay(i)' /\ LeaderOwns(i)'
  BY <1>3 DEF ReleaseUnderWay, LeaderOwns, GivingUp
<1>13. QED
  BY <1>5, <1>6, <1>7, <1>8, <1>9, <1>10, <1>11, <1>12, KeepsAll DEF Keeps, InstanceInv

\* What a gate does by itself.
LEMMA StepKeeps ==
    ASSUME IInv, NEW i \in Instance, Step(i)
    PROVE  IInv'
<1>1. CASE DropsAll(i)
  BY <1>1, DropKeeps DEF DropsAll
<1>2. CASE ShutDown(i)
  BY <1>2, DropKeeps DEF ShutDown
<1>3. QED
  BY <1>1, <1>2, WakeKeeps, AcquiredKeeps, ReleasedKeeps, ProbedKeeps, CloseKeeps,
     CleanupAsksKeeps, CleanedUpKeeps DEF Step

LEMMA NextKeeps ==
    ASSUME IInv, Next
    PROVE  IInv'
<1>1. CASE Environment
  BY <1>1, ScopeKeeps, EnvironmentKeeps, CrashKeeps DEF Environment
<1>2. ASSUME NEW i \in Instance,
             Step(i) \/ TimesOut(i) \/ CloseTimesOut(i) \/ Stop(i) \/ LoopCancelled(i)
      PROVE  IInv'
  <2>1. CASE TimesOut(i)
    BY <2>1, DropKeeps DEF TimesOut
  <2>2. QED
    BY <1>2, <2>1, StepKeeps, CloseTimesOutKeeps, StopKeeps, CancelledKeeps
<1>3. QED
  BY <1>1, <1>2 DEF Next

LEMMA StutterKeeps ==
    ASSUME IInv, UNCHANGED vars
    PROVE  IInv'
<1>1. UNCHANGED <<serverVars, gateVars, backend, scope, faults, changes>>
  BY DEF vars
<1>2. ServerTypeOK' /\ OneOwner' /\ DeadIsIdle' /\ \A s \in Session : SessionSame(s)
  BY <1>1, ServerSame
<1>3. RestTypeOK'
  BY <1>1, RestSame
<1>4. GateTypeOK'
  BY <1>1, TypeParts DEF IInv, GateTypeOK, gateVars
<1>5. TypeOK'
  BY <1>2, <1>3, <1>4, TypePartsNext
<1>6. \A j \in Instance : OutsideOf(j)
  BY <1>1, <1>2, OwnInv DEF OutsideOf, Untouched, gateVars
<1>7. ConnDistinct'
  BY <1>1 DEF IInv, ConnDistinct, gateVars
<1>8. QED
  BY <1>2, <1>5, <1>6, <1>7, OutsideKeeps DEF IInv

LEMMA InitIInv == ASSUME Init PROVE IInv
<1>1. ServerTypeOK
  BY DEF Init, ServerInit, ServerTypeOK
<1>2. GateTypeOK
  BY DEF Init, GateTypeOK, Place
<1>3. RestTypeOK
  BY ElectionAssumption DEF Init, RestTypeOK
<1>4. TypeOK
  BY <1>1, <1>2, <1>3, TypeParts
<1>5. OneOwner /\ ConnDistinct /\ DeadIsIdle
  BY DEF Init, ServerInit, OneOwner, ConnDistinct, DeadIsIdle, Owner
<1>6. ASSUME NEW i \in Instance PROVE InstanceInv(i)
  <2>1. held[i] = {} /\ call[i] = Nothing /\ pc[i] = "sleep" /\ conn[i] = NoSession
    BY DEF Init
  <2>2. QED
    BY <2>1 DEF InstanceInv, CallFits, HeldNeedsConn, AcquireUnderWay, ReleaseUnderWay, LeaderOwns, Nothing
<1>7. QED
  BY <1>4, <1>5, <1>6 DEF IInv

-----------------------------------------------------------------------------
(* How often a lock is owned *)

\* An instance that the step leaves alone, its session and its to-do list included.
Apart(i) == OutsideOf(i) /\ todo'[i] = todo[i] /\ swallowed'[i] = swallowed[i]

LEMMA ApartKeeps ==
    ASSUME TypeOK, TypeOK', NEW i \in Instance, CountInv(i), Apart(i)
    PROVE  CountInv(i)'
<1>1. KeyFits(i)'
  BY DEF CountInv, KeyFits, Apart, OutsideOf, Untouched
<1>2. Connected(i)' => Connected(i) /\ conn[i] # NoSession
  BY ElectionAssumption DEF TypeOK, ServerTypeOK, Connected, Apart, OutsideOf, Untouched, SessionSame
<1>3. InStep(i)' => InStep(i) /\ SessionSame(conn[i])
  BY <1>2 DEF InStep, Apart, OutsideOf, Untouched
<1>4. LineIsClear(i)'
  BY <1>3 DEF CountInv, LineIsClear, SessionSame, Apart, OutsideOf, Untouched
<1>5. ASSUME InStep(i)', NEW k \in Key \ swallowed'[i]
      PROVE  owns'[conn'[i]][k] = Due(i, k)'
  <2>1. Due(i, k)' = Due(i, k)
    BY <1>3, <1>5 DEF Due, Said, SessionSame, Apart, OutsideOf, Untouched
  <2>2. owns[conn[i]][k] = Due(i, k)
    BY <1>3, <1>5 DEF CountInv, Counted, Apart
  <2>3. QED
    BY <1>3, <1>5, <2>1, <2>2 DEF SessionSame, Apart, OutsideOf, Untouched
<1>6. QED
  BY <1>1, <1>4, <1>5 DEF CountInv, Counted

\* A gate that has left the cycle, or its connection, owes nothing.
LEMMA OutOfStep ==
    ASSUME NEW i \in Instance, pc'[i] \notin {"acquiring", "releasing"},
           pc'[i] \notin InCycle \cup {"sleep"} \/ ~Connected(i)'
    PROVE  CountInv(i)'
BY DEF CountInv, KeyFits, LineIsClear, Counted, InStep

\* A step of instance i alone.
LEMMA OneGateCounts ==
    ASSUME CountIInv, TypeOK', NEW i \in Instance, CountInv(i)', DeadOwnsNothing',
           \A j \in Instance \ {i} : Apart(j)
    PROVE  DeadOwnsNothing' /\ \A j \in Instance : CountInv(j)'
BY ApartKeeps DEF CountIInv, IInv

\* A step of the server on session s.
LEMMA ServerCounts ==
    ASSUME CountIInv, TypeOK', NEW s \in Session, UNCHANGED gateVars,
           \A r \in Session \ {s} : SessionSame(r),
           \A i \in Instance : conn[i] = s => CountInv(i)'
    PROVE  \A i \in Instance : CountInv(i)'
<1>1. ASSUME NEW i \in Instance, conn[i] # s
      PROVE  CountInv(i)'
  <2>1. conn[i] # NoSession => conn[i] \in Session \ {s}
    BY <1>1 DEF CountIInv, IInv, TypeOK
  <2>2. Apart(i)
    BY <2>1 DEF Apart, OutsideOf, Untouched, gateVars
  <2>3. QED
    BY <2>2, ApartKeeps DEF CountIInv, IInv
<1>2. QED
  BY <1>1

\* What the gate awaits, when the server has its query still to execute.
LEMMA AwaitedQuery ==
    ASSUME CountIInv, NEW i \in Instance, InStep(i), query[conn[i]] # Nothing
    PROVE  /\ pc[i] \in InCycle /\ query[conn[i]] = call[i]
           /\ call[i].op = "acquire" <=> pc[i] = "acquiring"
           /\ call[i].op = "release" <=> pc[i] = "releasing"
BY DEF CountIInv, CountInv, LineIsClear, IInv, InstanceInv, CallFits, InCycle

\* The answer of a server that changes no lock, or fails the statement.
LEMMA AnswerCounts ==
    ASSUME CountIInv, TypeOK', NEW s \in Session, NEW r \in {"true", "false", "error"},
           Returns(s, r), UNCHANGED owns, UNCHANGED gateVars, query[s] # Nothing,
           query[s].op = "acquire" => r # "true",
           query[s].op = "release" => r = "error" \/ owns[s][query[s].key] = 0
    PROVE  \A i \in Instance : CountInv(i)'
<1>1. /\ \A q \in Session \ {s} : SessionSame(q)
      /\ query'[s] = Nothing /\ reply'[s] = r /\ alive' = alive
  BY ReturnsSame DEF CountIInv, IInv
<1>2. ASSUME NEW i \in Instance, conn[i] = s
      PROVE  CountInv(i)'
  <2>1. CountInv(i) /\ Untouched(i) /\ UNCHANGED <<todo, swallowed>> /\ conn'[i] = s
    BY <1>2 DEF CountIInv, Untouched, gateVars
  <2>2. KeyFits(i)' /\ LineIsClear(i)'
    BY <2>1, <1>1 DEF CountInv, KeyFits, LineIsClear, Untouched
  <2>3. ASSUME InStep(i)', NEW k \in Key \ swallowed'[i]
        PROVE  owns'[s][k] = Due(i, k)'
    <3>1. InStep(i) /\ owns[s][k] = Due(i, k)
      BY <2>1, <2>3, <1>1, <1>2 DEF InStep, Connected, CountInv, Counted, Untouched
    <3>2. /\ query[s] = call[i]
          /\ call[i].op = "acquire" <=> pc[i] = "acquiring"
          /\ call[i].op = "release" <=> pc[i] = "releasing"
      BY <3>1, <1>2, AwaitedQuery
    <3>3. ~Said(s, "true") /\ ~Said(s, "false")
      BY DEF Said
    <3>4. Due(i, k)' = owns[s][k]
      BY <3>1, <3>2, <3>3, <2>1, <1>1, <1>2 DEF Due, Said, Untouched
    <3>5. QED
      BY <3>4
  <2>4. QED
    BY <2>1, <2>2, <2>3 DEF CountInv, Counted
<1>3. QED
  BY <1>1, <1>2, ServerCounts

\* A lock is granted to a gate that does not own it, once.
LEMMA GrantCounts ==
    ASSUME CountIInv, TypeOK', NEW s \in Session, ExecuteAcquire(s), UNCHANGED gateVars
    PROVE  \A i \in Instance : CountInv(i)'
<1> DEFINE k == query[s].key
<1>1. k \in Key /\ owns[s][k] \in Nat /\ query[s].op = "acquire" /\ query[s] # Nothing
  BY DEF CountIInv, IInv, TypeOK, ServerTypeOK, ExecuteAcquire, Query, Nothing
<1>2. CASE ~Grantable(s, k)
  BY <1>1, <1>2, AnswerCounts DEF ExecuteAcquire
<1>3. CASE Grantable(s, k)
  <2>1. Returns(s, "true") /\ owns' = [owns EXCEPT ![s][k] = owns[s][k] + 1]
    BY <1>3 DEF ExecuteAcquire
  <2>2. /\ owns'[s][k] = owns[s][k] + 1
        /\ \A l \in Key : l # k => owns'[s][l] = owns[s][l]
        /\ \A r \in Session : r # s => owns'[r] = owns[r]
    <3>1. ServerTypeOK
      BY DEF CountIInv, IInv, TypeOK
    <3>2. QED
      BY <3>1, <2>1, <1>1, Granted
  <2>3. /\ \A q \in Session \ {s} : SessionSame(q)
        /\ query'[s] = Nothing /\ reply'[s] = "true" /\ alive' = alive
    BY <2>1, <2>2, ReturnsSame DEF CountIInv, IInv
  <2>4. ASSUME NEW i \in Instance, conn[i] = s
        PROVE  CountInv(i)'
    <3>1. CountInv(i) /\ Untouched(i) /\ UNCHANGED <<todo, swallowed>> /\ conn'[i] = s
      BY <2>4 DEF CountIInv, Untouched, gateVars
    <3>2. KeyFits(i)' /\ LineIsClear(i)'
      BY <3>1, <2>3 DEF CountInv, KeyFits, LineIsClear, Untouched
    <3>3. ASSUME InStep(i)', NEW l \in Key \ swallowed'[i]
          PROVE  owns'[s][l] = Due(i, l)'
      <4>1. InStep(i) /\ owns[s][l] = Due(i, l)
        BY <3>1, <3>3, <2>3, <2>4 DEF InStep, Connected, CountInv, Counted, Untouched
      <4>2. query[s] = call[i] /\ pc[i] = "acquiring"
        BY <4>1, <2>4, <1>1, AwaitedQuery
      <4>3. CASE l = k
        <5>1. owns[s][k] = 0
          BY <4>1, <4>2, <4>3, <1>1, <2>4 DEF Due, Said
        <5>2. Due(i, l)' = 1
          BY <4>2, <4>3, <3>1, <2>3 DEF Due, Said, Untouched
        <5>3. QED
          BY <5>1, <5>2, <4>3, <2>2
      <4>4. CASE l # k
        BY <4>1, <4>2, <4>4, <3>1, <2>2 DEF Due, Untouched
      <4>5. QED
        BY <4>3, <4>4
    <3>4. QED
      BY <3>1, <3>2, <3>3 DEF CountInv, Counted
  <2>5. QED
    BY <2>3, <2>4, ServerCounts
<1>4. QED
  BY <1>2, <1>3

\* A release gives back the one acquisition there is.
LEMMA GiveBackCounts ==
    ASSUME CountIInv, TypeOK', NEW s \in Session, ExecuteRelease(s), UNCHANGED gateVars
    PROVE  \A i \in Instance : CountInv(i)'
<1> DEFINE k == query[s].key
<1>1. k \in Key /\ owns[s][k] \in Nat /\ query[s].op = "release" /\ query[s] # Nothing
  BY DEF CountIInv, IInv, TypeOK, ServerTypeOK, ExecuteRelease, Query, Nothing
<1>2. CASE ~Owner(s, k)
  BY <1>1, <1>2, AnswerCounts DEF ExecuteRelease, Owner
<1>3. CASE Owner(s, k)
  <2>1. Returns(s, "true") /\ owns' = [owns EXCEPT ![s][k] = owns[s][k] - 1]
    BY <1>3 DEF ExecuteRelease
  <2>2. /\ owns'[s][k] = owns[s][k] - 1
        /\ \A l \in Key : l # k => owns'[s][l] = owns[s][l]
        /\ \A r \in Session : r # s => owns'[r] = owns[r]
    <3>1. ServerTypeOK
      BY DEF CountIInv, IInv, TypeOK
    <3>2. QED
      BY <3>1, <2>1, <1>1, <1>3, GivenBack
  <2>3. /\ \A q \in Session \ {s} : SessionSame(q)
        /\ query'[s] = Nothing /\ reply'[s] = "true" /\ alive' = alive
    BY <2>1, <2>2, ReturnsSame DEF CountIInv, IInv
  <2>4. ASSUME NEW i \in Instance, conn[i] = s
        PROVE  CountInv(i)'
    <3>1. CountInv(i) /\ Untouched(i) /\ UNCHANGED <<todo, swallowed>> /\ conn'[i] = s
      BY <2>4 DEF CountIInv, Untouched, gateVars
    <3>2. KeyFits(i)' /\ LineIsClear(i)'
      BY <3>1, <2>3 DEF CountInv, KeyFits, LineIsClear, Untouched
    <3>3. ASSUME InStep(i)', NEW l \in Key \ swallowed'[i]
          PROVE  owns'[s][l] = Due(i, l)'
      <4>1. InStep(i) /\ owns[s][l] = Due(i, l)
        BY <3>1, <3>3, <2>3, <2>4 DEF InStep, Connected, CountInv, Counted, Untouched
      <4>2. query[s] = call[i] /\ pc[i] = "releasing"
        BY <4>1, <2>4, <1>1, AwaitedQuery
      <4>3. CASE l = k
        <5>1. owns[s][k] = 1
          BY <4>1, <4>2, <4>3, <1>1, <2>4 DEF Due, Said
        <5>2. Due(i, l)' = 0
          BY <4>2, <4>3, <3>1, <2>3 DEF Due, Said, Untouched
        <5>3. QED
          BY <5>1, <5>2, <4>3, <2>2
      <4>4. CASE l # k
        BY <4>1, <4>2, <4>4, <3>1, <2>2 DEF Due, Untouched
      <4>5. QED
        BY <4>3, <4>4
    <3>4. QED
      BY <3>1, <3>2, <3>3 DEF CountInv, Counted
  <2>5. QED
    BY <2>3, <2>4, ServerCounts
<1>4. QED
  BY <1>2, <1>3

\* A session that ends takes its locks with it.
LEMMA EndedCounts ==
    ASSUME CountIInv, TypeOK', NEW s \in Session, Ended(s), UNCHANGED gateVars
    PROVE  DeadOwnsNothing' /\ \A i \in Instance : CountInv(i)'
<1>1. /\ \A r \in Session \ {s} : SessionSame(r)
      /\ alive' = alive \ {s} /\ \A l \in Key : owns'[s][l] = 0
  BY DEF CountIInv, IInv, TypeOK, ServerTypeOK, Ended, SessionSame
<1>2. DeadOwnsNothing'
  BY <1>1 DEF CountIInv, DeadOwnsNothing, SessionSame
<1>3. ASSUME NEW i \in Instance, conn[i] = s
      PROVE  CountInv(i)'
  <2>1. ~Connected(i)' /\ KeyFits(i)'
    BY <1>1, <1>3 DEF CountIInv, CountInv, KeyFits, Connected, gateVars
  <2>2. QED
    BY <2>1 DEF CountInv, LineIsClear, Counted, InStep
<1>4. QED
  BY <1>1, <1>2, <1>3, ServerCounts

LEMMA EnvironmentCounts ==
    ASSUME CountIInv, TypeOK', NEW s \in Session,
           Execute(s) \/ StatementError(s) \/ SessionLost(s) \/ Reap(s)
    PROVE  DeadOwnsNothing' /\ \A i \in Instance : CountInv(i)'
<1>1. UNCHANGED gateVars
  BY DEF Execute, StatementError, SessionLost, Reap
<1>2. CASE SessionLost(s) \/ Reap(s)
  BY <1>1, <1>2, EndedCounts DEF SessionLost, Reap
<1>3. CASE StatementError(s)
  <2>1. Returns(s, "error") /\ UNCHANGED owns /\ query[s] # Nothing
    BY <1>3 DEF StatementError, StatementFails
  <2>2. DeadOwnsNothing'
    BY <2>1 DEF CountIInv, DeadOwnsNothing, Returns
  <2>3. QED
    BY <1>1, <2>1, <2>2, AnswerCounts
<1>4. CASE Execute(s)
  <2>1. CASE ExecuteProbe(s)
    <3>1. Returns(s, "true") /\ UNCHANGED owns /\ query[s] # Nothing /\ query[s].op = "probe"
      BY <2>1 DEF ExecuteProbe, Nothing
    <3>2. DeadOwnsNothing'
      BY <3>1 DEF CountIInv, DeadOwnsNothing, Returns
    <3>3. QED
      BY <1>1, <3>1, <3>2, AnswerCounts
  <2>2. CASE ExecuteAcquire(s) \/ ExecuteRelease(s)
    <3>1. /\ s \in alive /\ alive' = alive
          /\ \A r \in Session \ {s} : owns'[r] = owns[r]
      BY <2>2 DEF ExecuteAcquire, ExecuteRelease, Returns, CountIInv, IInv, TypeOK, ServerTypeOK
    <3>2. DeadOwnsNothing'
      BY <3>1 DEF CountIInv, DeadOwnsNothing
    <3>3. QED
      BY <1>1, <2>2, <3>2, GrantCounts, GiveBackCounts
  <2>3. QED
    BY <1>4, <2>1, <2>2 DEF Execute
<1>5. QED
  BY <1>2, <1>3, <1>4

\* A query asked by i: on a new session, which owns nothing, or on its own.
LEMMA AskCounts ==
    ASSUME CountIInv, NEW i \in Instance, NEW q \in Query, Ask(i, q)
    PROVE  /\ DeadOwnsNothing'
           /\ conn[i] = NoSession => \A k \in Key : owns[conn'[i]][k] = 0
<1>1. ServerTypeOK /\ conn \in [Instance -> Session \cup {NoSession}] /\ NoSession \notin Session
  BY ElectionAssumption DEF CountIInv, IInv, TypeOK
<1>2. UNCHANGED owns
  BY AskFacts DEF CountIInv
<1>3. alive \subseteq alive'
  BY DEF Ask, Sent, serverVars
<1>4. DeadOwnsNothing'
  BY <1>2, <1>3 DEF CountIInv, DeadOwnsNothing
<1>5. ASSUME conn[i] = NoSession
      PROVE  \A k \in Key : owns[conn'[i]][k] = 0
  <2>1. PICK s \in Session : s \notin alive /\ conn' = [conn EXCEPT ![i] = s]
    BY <1>1, <1>5 DEF Ask, Fresh, Connected, ServerTypeOK
  <2>2. conn'[i] = s
    BY <1>1, <2>1
  <2>3. QED
    BY <2>1, <2>2 DEF CountIInv, DeadOwnsNothing
<1>6. QED
  BY <1>4, <1>5

\* The working session of i owns what it leads, h, and nothing else.
CountedFor(i, h) ==
    /\ conn[i] = NoSession => h = {}
    /\ Connected(i) => \A k \in Key \ swallowed'[i] : owns[conn[i]][k] = IF k \in h THEN 1 ELSE 0

\* The steps of i leave the others alone.
LEMMA OthersApart ==
    ASSUME IInv, NEW i \in Instance, NEW h \in SUBSET Key, NEW d \in SUBSET Key,
           NEW m \in SUBSET Key, NEW next \in Place, At(i, h, d, m, next),
           \A j \in Instance \ {i} :
               /\ call'[j] = call[j] /\ conn'[j] = conn[j] /\ swallowed'[j] = swallowed[j]
               /\ conn[j] # NoSession => SessionSame(conn[j]),
           UNCHANGED usable
    PROVE  \A j \in Instance \ {i} : Apart(j)
<1>1. \A j \in Instance \ {i} : pc'[j] = pc[j] /\ held'[j] = held[j]
  BY AtType DEF IInv
<1>2. \A j \in Instance \ {i} : todo'[j] = todo[j]
  BY DEF IInv, TypeOK, At
<1>3. QED
  BY <1>1, <1>2 DEF Apart, OutsideOf, Untouched

\* The next query of a cycle finds the session as it is due.
LEMMA AskingCounts ==
    ASSUME CountIInv, TypeOK', NEW i \in Instance, NEW h \in SUBSET Key, NEW d \in SUBSET Key,
           NEW m \in SUBSET Key, NEW q \in Query, NEW next \in InCycle,
           At(i, h, d, m, next), Ask(i, q), CountedFor(i, h), m \cap h = {},
           next = "acquiring" => q.key \in m,
           next = "releasing" => q.key \in h,
           \A j \in Instance \ {i} : swallowed'[j] = swallowed[j]
    PROVE  DeadOwnsNothing' /\ \A j \in Instance : CountInv(j)'
<1>1. /\ UNCHANGED owns /\ call'[i] = q
      /\ \A j \in Instance \ {i} :
            /\ call'[j] = call[j] /\ conn'[j] = conn[j]
            /\ conn[j] # NoSession => SessionSame(conn[j])
      /\ conn[i] # NoSession => conn'[i] = conn[i] /\ (conn[i] \in alive' => conn[i] \in alive)
      /\ conn'[i] \in alive' /\ usable[i] => query'[conn'[i]] = q /\ reply'[conn'[i]] = "none"
  BY AskFacts DEF CountIInv
<1>2. DeadOwnsNothing' /\ (conn[i] = NoSession => \A k \in Key : owns[conn'[i]][k] = 0)
  BY AskCounts
<1>3. UNCHANGED usable /\ next \in Place
  BY DEF Ask, Place
<1>4. pc'[i] = next /\ held'[i] = h /\ todo'[i] = m
  BY DEF CountIInv, IInv, TypeOK, At
<1>5. KeyFits(i)'
  BY <1>1, <1>4 DEF KeyFits
<1>6. LineIsClear(i)'
  BY <1>1, <1>3, <1>4 DEF LineIsClear, InStep, Connected
<1>7. ASSUME InStep(i)', NEW k \in Key \ swallowed'[i]
      PROVE  owns'[conn'[i]][k] = Due(i, k)'
  <2>1. query'[conn'[i]] = q /\ reply'[conn'[i]] = "none"
    BY <1>1, <1>3, <1>7 DEF InStep, Connected
  <2>2. owns[conn'[i]][k] = IF k \in h THEN 1 ELSE 0
    BY <1>1, <1>2, <1>3, <1>7 DEF CountedFor, InStep, Connected
  <2>3. Due(i, k)' = IF k \in h THEN 1 ELSE 0
    BY <1>1, <1>4, <2>1 DEF Due, Said
  <2>4. QED
    BY <1>1, <2>2, <2>3
<1>8. CountInv(i)'
  BY <1>5, <1>6, <1>7 DEF CountInv, Counted
<1>9. \A j \in Instance \ {i} : Apart(j)
  BY <1>1, <1>3, OthersApart DEF CountIInv
<1>10. QED
  BY <1>2, <1>8, <1>9, OneGateCounts

\* A step that only ends a query.
LEMMA QuietCounts ==
    ASSUME CountIInv, TypeOK', NEW i \in Instance, NEW h \in SUBSET Key, NEW d \in SUBSET Key,
           NEW m \in SUBSET Key, NEW next \in Place \ InCycle,
           At(i, h, d, m, next), Quiet(i),
           next = "sleep" =>
               /\ CountedFor(i, h)
               /\ Connected(i) => query[conn[i]] = Nothing
    PROVE  DeadOwnsNothing' /\ \A j \in Instance : CountInv(j)'
<1>1. /\ UNCHANGED <<alive, owns, query, reply, conn, usable, swallowed>>
      /\ \A j \in Instance \ {i} : call'[j] = call[j]
  BY DEF CountIInv, IInv, TypeOK, Quiet, serverVars
<1>2. pc'[i] = next /\ held'[i] = h
  BY DEF CountIInv, IInv, TypeOK, At
<1>3. CountInv(i)'
  <2>1. CASE next = "sleep"
    <3>1. KeyFits(i)' /\ LineIsClear(i)'
      BY <1>1, <1>2, <2>1 DEF KeyFits, LineIsClear, InStep, Connected
    <3>2. Counted(i)'
      BY <1>1, <1>2, <2>1 DEF Counted, CountedFor, InStep, Connected, Due
    <3>3. QED
      BY <3>1, <3>2 DEF CountInv
  <2>2. CASE next # "sleep"
    BY <1>2, <2>2, OutOfStep DEF InCycle
  <2>3. QED
    BY <2>1, <2>2
<1>4. \A j \in Instance \ {i} : Apart(j)
  BY <1>1, OthersApart DEF CountIInv, SessionSame
<1>5. DeadOwnsNothing'
  BY <1>1 DEF CountIInv, DeadOwnsNothing
<1>6. QED
  BY <1>3, <1>4, <1>5, OneGateCounts

LEMMA CycleEndsCounts ==
    ASSUME CountIInv, TypeOK', NEW i \in Instance, NEW h \in SUBSET Key, CycleEnds(i, h),
           CountedFor(i, h), Connected(i) => query[conn[i]] = Nothing
    PROVE  DeadOwnsNothing' /\ \A j \in Instance : CountInv(j)'
<1>1. \/ At(i, h, {}, h, "cleanup") /\ Quiet(i)
      \/ At(i, h, {}, {}, "sleep") /\ Quiet(i)
  BY DEF CycleEnds
<1>2. "cleanup" \in Place \ InCycle /\ "sleep" \in Place \ InCycle
  BY DEF Place, InCycle
<1>3. CASE At(i, h, {}, h, "cleanup") /\ Quiet(i)
  BY <1>2, <1>3, QuietCounts
<1>4. CASE At(i, h, {}, {}, "sleep") /\ Quiet(i)
  BY <1>2, <1>4, QuietCounts
<1>5. QED
  BY <1>1, <1>3, <1>4

LEMMA GoingOnCounts ==
    ASSUME CountIInv, TypeOK', NEW i \in Instance, NEW h \in SUBSET Key, NEW d \in SUBSET Key,
           NEW m \in SUBSET Key, CycleGoesOn(i, h, d, m), CountedFor(i, h), m \cap h = {},
           \A j \in Instance \ {i} : swallowed'[j] = swallowed[j]
    PROVE  DeadOwnsNothing' /\ \A j \in Instance : CountInv(j)'
<1>1. {"acquiring", "releasing", "probing"} \subseteq InCycle
  BY DEF InCycle
<1>2. CASE m # {}
  <2>1. PICK k \in m : Ask(i, [op |-> "acquire", key |-> k])
    BY <1>2 DEF CycleGoesOn
  <2>2. [op |-> "acquire", key |-> k] \in Query /\ [op |-> "acquire", key |-> k].key \in m
    BY DEF Query
  <2>3. At(i, h, d, m, "acquiring")
    BY <1>2 DEF CycleGoesOn
  <2>4. QED
    BY <1>1, <2>1, <2>2, <2>3, AskingCounts
<1>3. CASE m = {} /\ h \ d # {}
  <2>1. PICK k \in h \ d : Ask(i, [op |-> "release", key |-> k])
    BY <1>3 DEF CycleGoesOn
  <2>2. [op |-> "release", key |-> k] \in Query /\ [op |-> "release", key |-> k].key \in h
    BY DEF Query
  <2>3. At(i, h, d, {}, "releasing")
    BY <1>3 DEF CycleGoesOn
  <2>4. QED
    BY <1>1, <2>1, <2>2, <2>3, AskingCounts
<1>4. CASE m = {} /\ h \ d = {}
  <2>1. [op |-> "probe", key |-> NoKey] \in Query
    BY DEF Query
  <2>2. At(i, h, d, {}, "probing") /\ Ask(i, [op |-> "probe", key |-> NoKey])
    BY <1>4 DEF CycleGoesOn
  <2>3. QED
    BY <1>1, <2>1, <2>2, AskingCounts
<1>5. QED
  BY <1>2, <1>3, <1>4

\* What i leads it has a session for.
LEMMA LedOnASession ==
    ASSUME CountIInv, NEW i \in Instance
    PROVE  /\ CountInv(i) /\ CallFits(i) /\ held[i] \in SUBSET Key
           /\ conn[i] = NoSession => held[i] = {}
BY DEF CountIInv, IInv, TypeOK, InstanceInv, HeldNeedsConn

LEMMA WakeCounts ==
    ASSUME CountIInv, TypeOK', NEW i \in Instance, Wake(i)
    PROVE  DeadOwnsNothing' /\ \A j \in Instance : CountInv(j)'
<1>1. CountedFor(i, held[i])
  BY LedOnASession DEF Wake, CountedFor, CountInv, Counted, InStep, Due
<1>2. Wanted(i) \in SUBSET Key
  BY ElectionAssumption DEF CountIInv, IInv, TypeOK, Wanted, Project
<1>3. CycleGoesOn(i, held[i], Wanted(i), Wanted(i) \ held[i]) /\ UNCHANGED swallowed
  BY DEF Wake
<1>4. QED
  BY <1>1, <1>2, <1>3, LedOnASession, GoingOnCounts

LEMMA AcquiredCounts ==
    ASSUME CountIInv, TypeOK', NEW i \in Instance, Acquired(i)
    PROVE  DeadOwnsNothing' /\ \A j \in Instance : CountInv(j)'
<1> DEFINE k == call[i].key
           h == IF reply[conn[i]] = "true" THEN held[i] \cup {k} ELSE held[i]
<1>1. /\ pc[i] = "acquiring" /\ InStep(i) /\ query[conn[i]] = Nothing
      /\ reply[conn[i]] # "error" /\ UNCHANGED swallowed
  BY DEF Acquired, Arrived, InStep, InCycle
<1>2. k \in todo[i] /\ todo[i] \cap held[i] = {} /\ todo[i] \subseteq Key /\ desired[i] \subseteq Key
  BY <1>1 DEF CountIInv, IInv, TypeOK, CountInv, KeyFits
<1>3. h \in SUBSET Key /\ (todo[i] \ {k}) \cap h = {}
  BY <1>2, LedOnASession
<1>4. conn[i] # NoSession
  BY <1>1, ElectionAssumption DEF CountIInv, IInv, TypeOK, ServerTypeOK, InStep, Connected
<1>5. \A l \in Key \ swallowed[i] : owns[conn[i]][l] = IF l \in h THEN 1 ELSE 0
  BY <1>1, <1>2, LedOnASession DEF CountInv, Counted, Due, Said
<1>6. CountedFor(i, h)
  BY <1>1, <1>4, <1>5 DEF CountedFor
<1>7. CycleEnds(i, h) \/ CycleGoesOn(i, h, desired[i], todo[i] \ {k})
  BY DEF Acquired
<1> HIDE DEF h, k
<1>8. todo[i] \ {k} \in SUBSET Key /\ desired[i] \in SUBSET Key
  BY <1>2
<1>9. CASE CycleEnds(i, h)
  BY <1>1, <1>3, <1>6, <1>9, CycleEndsCounts
<1>10. CASE CycleGoesOn(i, h, desired[i], todo[i] \ {k})
  BY <1>1, <1>3, <1>6, <1>8, <1>10, GoingOnCounts
<1>11. QED
  BY <1>7, <1>9, <1>10

LEMMA ReleasedCounts ==
    ASSUME CountIInv, TypeOK', NEW i \in Instance, Released(i)
    PROVE  DeadOwnsNothing' /\ \A j \in Instance : CountInv(j)'
<1> DEFINE k == call[i].key
           h == held[i] \ {k}
<1>1. /\ pc[i] = "releasing" /\ k \in held[i]
      /\ CycleGoesOn(i, h, desired[i], {})
      /\ swallowed' = [swallowed EXCEPT ![i] = IF Failed(i) THEN @ \cup {k} ELSE @]
  BY DEF Released, CountIInv, CountInv, KeyFits
<1>2. /\ swallowed[i] \subseteq swallowed'[i] /\ (Failed(i) => k \in swallowed'[i])
      /\ \A j \in Instance \ {i} : swallowed'[j] = swallowed[j]
  BY <1>1 DEF CountIInv, IInv, TypeOK
<1>3. h \in SUBSET Key /\ desired[i] \in SUBSET Key
  BY LedOnASession DEF CountIInv, IInv, TypeOK
<1>4. ASSUME Connected(i), NEW l \in Key \ swallowed'[i]
      PROVE  owns[conn[i]][l] = IF l \in h THEN 1 ELSE 0
  <2>1. owns[conn[i]][l] = Due(i, l)
    BY <1>1, <1>2, <1>4, LedOnASession DEF CountInv, Counted, InStep, InCycle
  <2>2. CASE l # k
    BY <1>1, <2>1, <2>2 DEF Due
  <2>3. CASE l = k
    <3>1. Arrived(i) /\ reply[conn[i]] # "error"
      BY <1>2, <1>4, <2>3 DEF Released, Failed, Arrived
    <3>2. conn[i] \in Session
      BY <1>4 DEF CountIInv, IInv, TypeOK, ServerTypeOK, Connected
    <3>3. Said(conn[i], "true") \/ Said(conn[i], "false")
      BY <3>1, <3>2 DEF Arrived, Said, CountIInv, IInv, TypeOK, ServerTypeOK
    <3>4. Due(i, l) = 0
      BY <1>1, <2>3, <3>3 DEF Due
    <3>5. QED
      BY <2>1, <2>3, <3>4
  <2>4. QED
    BY <2>2, <2>3
<1>5. CountedFor(i, h)
  BY <1>4, LedOnASession DEF CountedFor
<1> HIDE DEF h, k
<1>6. QED
  BY <1>1, <1>2, <1>3, <1>5, GoingOnCounts

LEMMA ProbedCounts ==
    ASSUME CountIInv, TypeOK', NEW i \in Instance, Probed(i)
    PROVE  DeadOwnsNothing' /\ \A j \in Instance : CountInv(j)'
<1>1. /\ pc[i] = "probing" /\ InStep(i) /\ query[conn[i]] = Nothing /\ CycleEnds(i, held[i])
  BY DEF Probed, Arrived, InStep, InCycle
<1>2. UNCHANGED swallowed
  BY <1>1 DEF CycleEnds, Quiet
<1>3. CountedFor(i, held[i])
  BY <1>1, <1>2, LedOnASession DEF CountedFor, CountInv, Counted, Due
<1>4. QED
  BY <1>1, <1>3, LedOnASession, CycleEndsCounts

\* Dropping all, giving up on a deadline, or ending stop(): the connection is closed next.
LEMMA GivingUpCounts ==
    ASSUME CountIInv, TypeOK', NEW i \in Instance,
           DropsAll(i) \/ TimesOut(i) \/ ShutDown(i) \/ CleanedUp(i)
    PROVE  DeadOwnsNothing' /\ \A j \in Instance : CountInv(j)'
<1>1. {"closing", "shutting", "cleanup"} \subseteq Place \ InCycle
  BY DEF Place, InCycle
<1>2. CASE CleanedUp(i)
  <2>1. /\ At(i, held[i], {}, todo[i] \ {call[i].key}, "cleanup") /\ Quiet(i)
        /\ todo[i] \ {call[i].key} \in SUBSET Key
    BY <1>2 DEF CleanedUp, CountIInv, IInv, TypeOK
  <2>2. QED
    BY <1>1, <2>1, LedOnASession, QuietCounts
<1>3. CASE DropsAll(i) \/ TimesOut(i)
  BY <1>1, <1>3, QuietCounts DEF DropsAll, TimesOut
<1>4. CASE ShutDown(i)
  BY <1>1, <1>4, QuietCounts DEF ShutDown
<1>5. QED
  BY <1>2, <1>3, <1>4

\* A connection closed, or aborted while it closes.
LEMMA ClosingCounts ==
    ASSUME CountIInv, TypeOK', NEW i \in Instance, Close(i) \/ CloseTimesOut(i)
    PROVE  DeadOwnsNothing' /\ \A j \in Instance : CountInv(j)'
<1>1. PICK s \in {conn[i], NoSession}, u \in BOOLEAN :
         Closing(i, s, u) /\ (s = NoSession \/ ~u)
  BY DEF Close, CloseTimesOut
<1>2. /\ pc' \in [Instance -> Place] /\ pc'[i] \in {"stopped", "cleanup", "sleep"}
      /\ conn'[i] = s /\ usable'[i] = u /\ UNCHANGED <<held, todo, call>>
      /\ \A j \in Instance \ {i} :
            /\ pc'[j] = pc[j] /\ conn'[j] = conn[j] /\ usable'[j] = usable[j]
            /\ swallowed'[j] = swallowed[j]
  BY <1>1 DEF Closing, CountIInv, IInv, TypeOK, Place
<1>3. ~Connected(i)'
  BY <1>1, <1>2, ElectionAssumption DEF Connected, TypeOK, ServerTypeOK
<1>4. CountInv(i)'
  BY <1>2, <1>3, OutOfStep
<1>5. /\ \A r \in Session : r = conn[i] \/ SessionSame(r)
      /\ DeadOwnsNothing'
  <2>1. CASE UNCHANGED serverVars
    BY <2>1 DEF SessionSame, serverVars, CountIInv, DeadOwnsNothing
  <2>2. CASE Connected(i) /\ Ended(conn[i])
    <3>1. conn[i] \in Session /\ ServerTypeOK
      BY <2>2 DEF CountIInv, IInv, TypeOK, ServerTypeOK, Connected
    <3>2. /\ \A r \in Session \ {conn[i]} : SessionSame(r)
          /\ alive' = alive \ {conn[i]} /\ \A l \in Key : owns'[conn[i]][l] = 0
      BY <2>2, <3>1 DEF ServerTypeOK, Ended, SessionSame
    <3>3. QED
      BY <3>2 DEF CountIInv, DeadOwnsNothing, SessionSame
  <2>3. QED
    BY <2>1, <2>2 DEF Close, CloseTimesOut
<1>6. \A j \in Instance \ {i} : conn[j] # NoSession => conn[j] \in Session /\ conn[j] # conn[i]
  BY OtherSession DEF CountIInv, IInv, TypeOK
<1>7. \A j \in Instance \ {i} : Apart(j)
  BY <1>2, <1>5, <1>6 DEF Apart, OutsideOf, Untouched
<1>8. QED
  BY <1>4, <1>5, <1>7, OneGateCounts

\* A process killed has no connection; one that stops, or whose loop is cancelled, is in
\* its clean-up.
LEMMA LeavingCounts ==
    ASSUME CountIInv, TypeOK', NEW i \in Instance,
           Crash(i) \/ Stop(i) \/ LoopCancelled(i)
    PROVE  DeadOwnsNothing' /\ \A j \in Instance : CountInv(j)'
<1>1. UNCHANGED serverVars
  BY DEF Crash, Stop, LoopCancelled
<1>2. DeadOwnsNothing' /\ \A s \in Session : SessionSame(s)
  BY <1>1 DEF CountIInv, DeadOwnsNothing, SessionSame, serverVars
<1>3. /\ \A j \in Instance \ {i} :
            /\ pc'[j] = pc[j] /\ held'[j] = held[j] /\ todo'[j] = todo[j] /\ call'[j] = call[j]
            /\ conn'[j] = conn[j] /\ usable'[j] = usable[j] /\ swallowed'[j] = swallowed[j]
      /\ \/ pc'[i] = "cleanup"
         \/ pc'[i] = "sleep" /\ conn'[i] = NoSession
         \/ UNCHANGED <<pc, held, todo, call, conn, usable, swallowed>>
  <2>1. CASE Crash(i)
    BY <2>1 DEF Crash, CountIInv, IInv, TypeOK
  <2>2. CASE Stop(i)
    BY <2>2 DEF Stop, At, CountIInv, IInv, TypeOK
  <2>3. CASE LoopCancelled(i)
    BY <2>3 DEF LoopCancelled, At, CountIInv, IInv, TypeOK
  <2>4. QED
    BY <2>1, <2>2, <2>3
<1>4. \A j \in Instance \ {i} : Apart(j)
  BY <1>2, <1>3 DEF Apart, OutsideOf, Untouched, CountIInv, IInv, TypeOK
<1>5. CountInv(i)'
  <2>1. CASE pc'[i] = "cleanup" \/ (pc'[i] = "sleep" /\ conn'[i] = NoSession)
    BY <2>1, ElectionAssumption, OutOfStep DEF Connected, TypeOK, ServerTypeOK, InCycle
  <2>2. CASE UNCHANGED <<pc, held, todo, call, conn, usable, swallowed>>
    <3>1. Apart(i)
      BY <1>2, <2>2 DEF Apart, OutsideOf, Untouched, CountIInv, IInv, TypeOK
    <3>2. QED
      BY <3>1, ApartKeeps DEF CountIInv, IInv
  <2>3. QED
    BY <1>3, <2>1, <2>2
<1>6. QED
  BY <1>2, <1>4, <1>5, OneGateCounts

LEMMA CleanupAsksCounts ==
    ASSUME CountIInv, TypeOK', NEW i \in Instance, CleanupAsks(i)
    PROVE  DeadOwnsNothing' /\ \A j \in Instance : CountInv(j)'
<1>1. PICK k \in todo[i] : Ask(i, [op |-> "release", key |-> k])
  BY DEF CleanupAsks
<1>2. [op |-> "release", key |-> k] \in Query
  BY DEF Query, CountIInv, IInv, TypeOK
<1>3. /\ UNCHANGED <<pc, held, todo, swallowed, usable>> /\ pc[i] = "cleanup"
  BY <1>1 DEF CleanupAsks, Ask
<1>4. \A j \in Instance \ {i} :
         /\ call'[j] = call[j] /\ conn'[j] = conn[j]
         /\ conn[j] # NoSession => SessionSame(conn[j])
  BY <1>1, <1>2, AskFacts DEF CountIInv
<1>5. DeadOwnsNothing'
  BY <1>1, <1>2, AskCounts
<1>6. \A j \in Instance \ {i} : Apart(j)
  BY <1>3, <1>4 DEF Apart, OutsideOf, Untouched
<1>7. CountInv(i)'
  BY <1>3, OutOfStep DEF InCycle
<1>8. QED
  BY <1>5, <1>6, <1>7, OneGateCounts

LEMMA CountsKept ==
    ASSUME CountIInv, [Next]_vars
    PROVE  CountIInv'
<1>1. IInv'
  BY NextKeeps, StutterKeeps DEF CountIInv
<1>2. TypeOK'
  BY <1>1 DEF IInv
<1>3. DeadOwnsNothing' /\ \A j \in Instance : CountInv(j)'
  <2>1. CASE UNCHANGED <<serverVars, gateVars>>
    <3>1. DeadOwnsNothing' /\ \A s \in Session : SessionSame(s)
      BY <2>1 DEF CountIInv, DeadOwnsNothing, SessionSame, serverVars
    <3>2. \A j \in Instance : Apart(j)
      BY <2>1, <3>1 DEF Apart, OutsideOf, Untouched, gateVars, CountIInv, IInv, TypeOK
    <3>3. QED
      BY <1>2, <3>1, <3>2, ApartKeeps DEF CountIInv, IInv
  <2>2. CASE Environment
    <3>1. CASE \E i \in Instance : \E p \in Project : ScopeChanges(i, p)
      BY <2>1, <3>1 DEF ScopeChanges
    <3>2. QED
      BY <1>2, <2>2, <3>1, EnvironmentCounts, LeavingCounts DEF Environment
  <2>3. ASSUME NEW i \in Instance,
               Step(i) \/ TimesOut(i) \/ CloseTimesOut(i) \/ Stop(i) \/ LoopCancelled(i)
        PROVE  DeadOwnsNothing' /\ \A j \in Instance : CountInv(j)'
    BY <1>2, <2>3, WakeCounts, AcquiredCounts, ReleasedCounts, ProbedCounts, GivingUpCounts,
       ClosingCounts, LeavingCounts, CleanupAsksCounts DEF Step
  <2>4. QED
    BY <2>1, <2>2, <2>3 DEF Next, vars
<1>4. QED
  BY <1>1, <1>3 DEF CountIInv

LEMMA InitCounts == ASSUME Init PROVE CountIInv
<1>1. DeadOwnsNothing
  BY DEF Init, ServerInit, DeadOwnsNothing
<1>2. ASSUME NEW i \in Instance PROVE CountInv(i)
  <2>1. pc[i] = "sleep" /\ ~Connected(i)
    BY DEF Init, ServerInit, Connected
  <2>2. QED
    BY <2>1 DEF CountInv, KeyFits, LineIsClear, Counted, InStep
<1>3. QED
  BY <1>1, <1>2, InitIInv DEF CountIInv

-----------------------------------------------------------------------------
(* The theorems *)

\* The inductive invariant of the leader gates holds in every behaviour: whatever is
\* lost, killed, cancelled or timed out, and however often.
THEOREM GatesInvariant == Spec => []IInv
<1>1. Init => IInv
  BY InitIInv
<1>2. IInv /\ [Next]_vars => IInv'
  BY NextKeeps, StutterKeeps
<1>3. QED
  BY <1>1, <1>2, PTL DEF Spec

\* Every variable of the gates and of the lock server keeps its type; no session's
\* acquisition count goes below zero.
THEOREM GatesTypeCorrect == Spec => []TypeOK
<1>1. IInv => TypeOK
  BY DEF IInv
<1>2. QED
  BY <1>1, GatesInvariant, PTL

\* An instance of leader/postgres.py that says it leads, on a session Postgres still
\* serves, owns the advisory lock, except while it is giving it up.
THEOREM LeadersOwnTheirLocks == Spec => []LeaderOwnsLock
<1>1. IInv => LeaderOwnsLock
  BY DEF IInv, InstanceInv, LeaderOwns, LeaderOwnsLock
<1>2. QED
  BY <1>1, GatesInvariant, PTL

\* No lock is left behind on a connection that works: asleep, an instance owns what it
\* leads once and nothing else, except where release() has swallowed an error.  It takes
\* that a timed-out or cancelled query closes its connection before the next cycle.
THEOREM LocksAreCounted == Spec => []NothingLeftBehind
<1>1. CountIInv => NothingLeftBehind
  BY DEF CountIInv, CountInv, Counted, InStep, Due, NothingLeftBehind
<1>2. Init => CountIInv
  BY InitCounts
<1>3. CountIInv /\ [Next]_vars => CountIInv'
  BY CountsKept
<1>4. QED
  BY <1>1, <1>2, <1>3, PTL DEF Spec

\* No two instances lead the same project, unless the session of one is gone and it has
\* not found out, or one is releasing it.
OneSoundLeader ==
    \A i, j \in Instance : \A k \in Key :
        LeadsSoundly(i, k) /\ LeadsSoundly(j, k) => i = j

LEMMA OneLeads == ASSUME IInv PROVE OneSoundLeader
<1>1. SUFFICES ASSUME NEW i \in Instance, NEW j \in Instance, NEW k \in Key,
                      LeadsSoundly(i, k), LeadsSoundly(j, k)
               PROVE  i = j
  BY DEF OneSoundLeader
<1>2. Owner(conn[i], k) /\ Owner(conn[j], k)
  BY <1>1 DEF IInv, InstanceInv, LeaderOwns, LeadsSoundly
<1>3. conn[i] \in Session /\ conn[j] \in Session
  BY <1>1 DEF IInv, TypeOK, ServerTypeOK, LeadsSoundly
<1>4. conn[i] = conn[j]
  BY <1>2, <1>3 DEF IInv, OneOwner
<1>5. QED
  BY <1>3, <1>4, ElectionAssumption DEF IInv, ConnDistinct

\* At most one instance dispatches for a project, on sound sessions: from the lock's
\* exclusiveness (Grantable) and the fact that sessions are never shared.
THEOREM OneSoundLeaderEach == Spec => []OneSoundLeader
<1>1. IInv => OneSoundLeader
  BY OneLeads
<1>2. QED
  BY <1>1, GatesInvariant, PTL

-----------------------------------------------------------------------------
(* The gates together are one lock per key *)

\* Nothing that decides what j leads has changed.
Unmoved(j) ==
    /\ pc'[j] = pc[j]
    /\ held'[j] = held[j]
    /\ call'[j] = call[j]
    /\ conn'[j] = conn[j]
    /\ conn[j] # NoSession => (conn[j] \in alive' <=> conn[j] \in alive)

\* No instance but i has moved, or had its session opened or ended.
OnlyMoves(i) == \A j \in Instance \ {i} : Unmoved(j)

LEMMA UnmovedLeads ==
    ASSUME TypeOK, NEW j \in Instance, Unmoved(j), TypeOK', NEW k \in Key
    PROVE  LeadsSoundly(j, k)' <=> LeadsSoundly(j, k)
<1>1. CASE conn[j] # NoSession
  BY <1>1 DEF Unmoved, LeadsSoundly, GivingUp
<1>2. CASE conn[j] = NoSession
  <2>1. conn[j] \notin alive /\ conn'[j] \notin alive'
    BY <1>2, ElectionAssumption DEF TypeOK, ServerTypeOK, Unmoved
  <2>2. QED
    BY <2>1 DEF LeadsSoundly
<1>3. QED
  BY <1>1, <1>2

\* A gate that sets what it leads and where it is sets it for itself.
LEMMA AtApart ==
    ASSUME TypeOK, NEW i \in Instance, NEW h, NEW d, NEW m, NEW next, At(i, h, d, m, next)
    PROVE  \A j \in Instance \ {i} : pc'[j] = pc[j] /\ held'[j] = held[j]
BY DEF TypeOK, At

LEMMA QuietApart ==
    ASSUME TypeOK, NEW i \in Instance, NEW h, NEW d, NEW m, NEW next,
           At(i, h, d, m, next), Quiet(i)
    PROVE  OnlyMoves(i)
<1>1. \A j \in Instance \ {i} : call'[j] = call[j]
  BY DEF TypeOK, Quiet
<1>2. QED
  BY <1>1, AtApart DEF OnlyMoves, Unmoved, Quiet, serverVars

\* The session that is opened is nobody else's.
LEMMA AskApart ==
    ASSUME IInv, NEW i \in Instance, NEW q, Ask(i, q),
           \A j \in Instance \ {i} : pc'[j] = pc[j] /\ held'[j] = held[j]
    PROVE  OnlyMoves(i)
<1>1. \A j \in Instance \ {i} : call'[j] = call[j]
  BY DEF IInv, TypeOK, Ask
<1>2. ServerTypeOK /\ conn \in [Instance -> Session \cup {NoSession}]
  BY DEF IInv, TypeOK
<1>3. CASE conn[i] = NoSession /\ Fresh # {}
  <2>1. PICK s \in Session : /\ \A j \in Instance : conn[j] # s
                             /\ Sent(s, q) /\ conn' = [conn EXCEPT ![i] = s]
    BY <1>3, ElectionAssumption, <1>2 DEF Ask, Fresh, Connected, ServerTypeOK
  <2>2. QED
    BY <1>1, <1>2, <2>1 DEF OnlyMoves, Unmoved, Sent
<1>4. CASE Connected(i) /\ Sent(conn[i], q) /\ UNCHANGED conn
  BY <1>1, <1>4 DEF Connected, Sent, OnlyMoves, Unmoved
<1>5. CASE UNCHANGED <<serverVars, conn>>
  BY <1>1, <1>5 DEF serverVars, OnlyMoves, Unmoved
<1>6. QED
  BY <1>3, <1>4, <1>5 DEF Ask

LEMMA EndsApart ==
    ASSUME TypeOK, NEW i \in Instance, NEW h, CycleEnds(i, h)
    PROVE  OnlyMoves(i)
<1>1. CASE stopping[i]
  BY <1>1, QuietApart DEF CycleEnds
<1>2. CASE ~stopping[i]
  BY <1>2, QuietApart DEF CycleEnds
<1>3. QED
  BY <1>1, <1>2

LEMMA GoesOnApart ==
    ASSUME IInv, NEW i \in Instance, NEW h, NEW d, NEW m, CycleGoesOn(i, h, d, m)
    PROVE  OnlyMoves(i)
<1>1. TypeOK
  BY DEF IInv
<1>2. CASE m # {}
  <2>1. PICK k \in m : At(i, h, d, m, "acquiring") /\ Ask(i, [op |-> "acquire", key |-> k])
    BY <1>2 DEF CycleGoesOn
  <2>2. QED
    BY <1>1, <2>1, AtApart, AskApart
<1>3. CASE m = {} /\ h \ d # {}
  <2>1. PICK k \in h \ d : At(i, h, d, {}, "releasing") /\ Ask(i, [op |-> "release", key |-> k])
    BY <1>3 DEF CycleGoesOn
  <2>2. QED
    BY <1>1, <2>1, AtApart, AskApart
<1>4. CASE m = {} /\ h \ d = {}
  <2>1. At(i, h, d, {}, "probing") /\ Ask(i, [op |-> "probe", key |-> NoKey])
    BY <1>4 DEF CycleGoesOn
  <2>2. QED
    BY <1>1, <2>1, AtApart, AskApart
<1>5. QED
  BY <1>2, <1>3, <1>4

\* Whatever a gate does, it does to itself: no session of another is touched.
LEMMA GateApart ==
    ASSUME IInv, NEW i \in Instance,
           Step(i) \/ TimesOut(i) \/ CloseTimesOut(i) \/ Stop(i) \/ LoopCancelled(i) \/ Crash(i)
    PROVE  OnlyMoves(i)
<1>1. TypeOK /\ ConnDistinct
  BY DEF IInv
<1>2. CASE Wake(i)
  BY <1>2, GoesOnApart DEF Wake
<1>3. CASE Acquired(i)
  BY <1>1, <1>3, GoesOnApart, EndsApart DEF Acquired
<1>4. CASE Released(i)
  BY <1>4, GoesOnApart DEF Released
<1>5. CASE Probed(i)
  BY <1>1, <1>5, EndsApart DEF Probed
<1>6. CASE DropsAll(i) \/ TimesOut(i)
  BY <1>1, <1>6, QuietApart DEF DropsAll, TimesOut
<1>7. CASE CleanedUp(i) \/ ShutDown(i)
  BY <1>1, <1>7, QuietApart DEF CleanedUp, ShutDown
<1>8. CASE Close(i) \/ CloseTimesOut(i)
  <2>1. /\ \A j \in Instance \ {i} : pc'[j] = pc[j] /\ conn'[j] = conn[j]
        /\ UNCHANGED <<held, call>>
    BY <1>1, <1>8 DEF Close, CloseTimesOut, Closing, TypeOK
  <2>2. UNCHANGED alive \/ (Connected(i) /\ alive' = alive \ {conn[i]})
    BY <1>8 DEF Close, CloseTimesOut, Ended, serverVars
  <2>3. \A j \in Instance \ {i} : conn[j] # NoSession => conn[j] # conn[i]
    BY <1>1 DEF ConnDistinct
  <2>4. QED
    BY <2>1, <2>2, <2>3 DEF OnlyMoves, Unmoved
<1>9. CASE Stop(i)
  <2>1. \A j \in Instance \ {i} : pc'[j] = pc[j] /\ held'[j] = held[j]
    BY <1>1, <1>9, AtApart DEF Stop
  <2>2. QED
    BY <1>9, <2>1 DEF Stop, OnlyMoves, Unmoved, serverVars
<1>10. CASE LoopCancelled(i)
  <2>1. \A j \in Instance \ {i} : pc'[j] = pc[j] /\ held'[j] = held[j] /\ call'[j] = call[j]
    BY <1>1, <1>10, AtApart DEF LoopCancelled, TypeOK
  <2>2. QED
    BY <1>10, <2>1 DEF LoopCancelled, OnlyMoves, Unmoved, serverVars
<1>11. CASE CleanupAsks(i)
  <2>1. PICK k \in todo[i] : Ask(i, [op |-> "release", key |-> k])
    BY <1>11 DEF CleanupAsks
  <2>2. QED
    BY <1>11, <2>1, AskApart DEF CleanupAsks
<1>12. CASE Crash(i)
  BY <1>1, <1>12 DEF Crash, OnlyMoves, Unmoved, TypeOK, serverVars
<1>13. QED
  BY <1>2, <1>3, <1>4, <1>5, <1>6, <1>7, <1>8, <1>9, <1>10, <1>11, <1>12 DEF Step

\* A session that ends is the session of one instance, or of none.
LEMMA EndsForOne ==
    ASSUME IInv, NEW s \in Session, UNCHANGED gateVars, alive' = alive \ {s}
    PROVE  (\A j \in Instance : Unmoved(j)) \/ \E i \in Instance : OnlyMoves(i)
<1>1. \A j \in Instance : conn[j] # s => Unmoved(j)
  BY DEF gateVars, Unmoved
<1>2. CASE \A j \in Instance : conn[j] # s
  BY <1>1, <1>2
<1>3. ASSUME NEW i \in Instance, conn[i] = s
      PROVE  OnlyMoves(i)
  <2>1. \A j \in Instance \ {i} : conn[j] # s
    BY <1>3, ElectionAssumption DEF IInv, ConnDistinct
  <2>2. QED
    BY <1>1, <2>1 DEF OnlyMoves
<1>4. QED
  BY <1>2, <1>3

\* A step moves one instance at most.
LEMMA OneMoves ==
    ASSUME IInv, [Next]_vars
    PROVE  (\A j \in Instance : Unmoved(j)) \/ \E i \in Instance : OnlyMoves(i)
<1>1. CASE UNCHANGED <<gateVars, alive>>
  BY <1>1 DEF gateVars, Unmoved
<1>2. ASSUME NEW s \in Session, Execute(s) \/ StatementError(s) \/ SessionLost(s) \/ Reap(s)
      PROVE  (\A j \in Instance : Unmoved(j)) \/ \E i \in Instance : OnlyMoves(i)
  <2>1. UNCHANGED gateVars
    BY <1>2 DEF Execute, StatementError, SessionLost, Reap
  <2>2. CASE Execute(s) \/ StatementError(s)
    <3>1. UNCHANGED alive
      BY <2>2 DEF Execute, StatementError, StatementFails, ExecuteAcquire, ExecuteRelease,
                  ExecuteProbe, Returns
    <3>2. QED
      BY <1>1, <2>1, <3>1
  <2>3. CASE SessionLost(s) \/ Reap(s)
    BY <2>1, <2>3, EndsForOne DEF SessionLost, Reap, Ended
  <2>4. QED
    BY <1>2, <2>2, <2>3
<1>3. CASE UNCHANGED vars \/ \E i \in Instance : \E p \in Project : ScopeChanges(i, p)
  BY <1>1, <1>3 DEF vars, ScopeChanges, serverVars
<1>4. CASE \E i \in Instance : \/ Step(i) \/ TimesOut(i) \/ CloseTimesOut(i) \/ Stop(i)
                               \/ LoopCancelled(i) \/ Crash(i)
  BY <1>4, GateApart
<1>5. QED
  BY <1>2, <1>3, <1>4 DEF Next, Environment

\* The one that moves takes a key that was free, gives up one it had, or neither.
LEMMA LockMoves ==
    ASSUME IInv, TypeOK', OneSoundLeader', NEW i \in Instance, OnlyMoves(i), NEW k \in Key
    PROVE  Lock!Takes(i, k) \/ Lock!GivesUp(i, k) \/ Leaders'[k] = Leaders[k]
<1>1. \A j \in Instance \ {i} : LeadsSoundly(j, k)' <=> LeadsSoundly(j, k)
  BY UnmovedLeads DEF IInv, OnlyMoves
<1>2. Leaders[k] = {j \in Instance : LeadsSoundly(j, k)}
  BY DEF Leaders
<1>3. Leaders'[k] = {j \in Instance : LeadsSoundly(j, k)'}
  BY DEF Leaders
<1>4. CASE LeadsSoundly(i, k)' <=> LeadsSoundly(i, k)
  <2>1. \A j \in Instance : LeadsSoundly(j, k)' <=> LeadsSoundly(j, k)
    BY <1>1, <1>4
  <2>2. QED
    BY <1>2, <1>3, <2>1
<1>5. CASE LeadsSoundly(i, k)' /\ ~LeadsSoundly(i, k)
  <2>1. \A j \in Instance \ {i} : ~LeadsSoundly(j, k)'
    BY <1>5 DEF OneSoundLeader
  <2>2. Leaders[k] = {} /\ Leaders'[k] = {i}
    BY <1>1, <1>2, <1>3, <1>5, <2>1
  <2>3. QED
    BY <2>2 DEF Lock!Takes
<1>6. CASE LeadsSoundly(i, k) /\ ~LeadsSoundly(i, k)'
  <2>1. \A j \in Instance \ {i} : ~LeadsSoundly(j, k)
    BY <1>6, OneLeads DEF OneSoundLeader
  <2>2. Leaders[k] = {i} /\ Leaders'[k] = {}
    BY <1>1, <1>2, <1>3, <1>6, <2>1
  <2>3. QED
    BY <2>2 DEF Lock!GivesUp
<1>7. QED
  BY <1>4, <1>5, <1>6

\* A step of the gates is a step of the lock, or is none.
LEMMA StepMoves ==
    ASSUME IInv, TypeOK', OneSoundLeader', [Next]_vars
    PROVE  [Lock!LockNext]_Leaders
<1>1. CASE \A j \in Instance : Unmoved(j)
  <2>1. \A j \in Instance : \A k \in Key : LeadsSoundly(j, k)' <=> LeadsSoundly(j, k)
    BY <1>1, UnmovedLeads DEF IInv
  <2>2. Leaders' = Leaders
    BY <2>1 DEF Leaders
  <2>3. QED
    BY <2>2
<1>2. ASSUME NEW i \in Instance, OnlyMoves(i)
      PROVE  Lock!LockNext
  <2>1. Leaders' \in [Key -> SUBSET Instance]
    BY DEF Leaders
  <2>2. \A k \in Key : Lock!Takes(i, k) \/ Lock!GivesUp(i, k) \/ Leaders'[k] = Leaders[k]
    BY <1>2, LockMoves
  <2>3. QED
    BY <2>1, <2>2 DEF Lock!LockNext
<1>3. QED
  BY <1>1, <1>2, OneMoves

\* The gates of leader/postgres.py implement one lock per key (LeaderLock): whoever leads
\* a key on a sound session is alone, and the key is free before another leads it, over
\* every crash, loss, cancellation and swallowed release.
THEOREM GatesImplementLock == Spec => ImplementsLock
<1>1. Init => Lock!LockInit
  <2>1. ASSUME Init PROVE Leaders = [k \in Key |-> {}]
    BY <2>1 DEF Init, Leaders, LeadsSoundly
  <2>2. QED
    BY <2>1 DEF Lock!LockInit
<1>2. IInv => TypeOK /\ OneSoundLeader
  BY OneLeads DEF IInv
<1>3. IInv /\ TypeOK' /\ OneSoundLeader' /\ [Next]_vars => [Lock!LockNext]_Leaders
  BY StepMoves
<1>4. QED
  BY <1>1, <1>2, <1>3, GatesInvariant, PTL DEF Spec, ImplementsLock, Lock!LockSpec
=============================================================================
