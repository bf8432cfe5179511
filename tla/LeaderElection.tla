--------------------------- MODULE LeaderElection ---------------------------
(***************************************************************************)
(* The leader gates of leader/postgres.py: scheduler instances that race   *)
(* for advisory locks, each over one connection of its own.  A heartbeat   *)
(* loop acquires, releases and probes; any error drops the leadership and  *)
(* the connection; stop() joins the loop, releases and closes.  The global *)
(* gate is the case of a single key that is always wanted.                 *)
(***************************************************************************)
EXTENDS AdvisoryLocks, FiniteSets

CONSTANTS
    Instance,
    NoSession,
    Global,             \* the key of the global gate; the others are projects
    MaxFaults,          \* bound of this model: sessions lost, timeouts, crashes, failed statements
    MaxScopeChanges     \* bound of this model: projects that enter or leave a cache

ASSUME ElectionAssumption ==
    /\ NoSession \notin Session
    /\ NoKey \notin Key
    /\ Global \in Key
    /\ MaxFaults \in Nat
    /\ MaxScopeChanges \in Nat

Project == Key \ {Global}

VARIABLES
    backend,    \* Z4J_SCHEDULER_LEADER_BACKEND, the same for all
    scope,      \* scope[i]: the projects in i's cache
    pc,         \* where i's loop, or its stop(), is
    held,       \* _held, or {Global} for _is_leader
    desired,    \* the keys this cycle wants
    todo,       \* the keys still to try in this cycle, or to release in stop()
    call,       \* the query i awaits
    conn,       \* AsyncpgLockBackend._conn
    usable,     \* FALSE: asyncpg aborted the connection _conn still names
    stopping,   \* _stop_event
    swallowed,  \* history: releases on this connection whose error was swallowed
    faults,
    changes

gateVars == <<pc, held, desired, todo, call, conn, usable, stopping, swallowed>>
vars == <<serverVars, gateVars, backend, scope, faults, changes>>

\* A cycle of the loop, in its order.  A query is outstanding all the while: the next
\* is sent in the step that handles the answer.
InCycle == {"acquiring", "releasing", "probing"}

TypeOK ==
    /\ ServerTypeOK
    /\ backend \in {"postgres", "postgres_per_project"}
    /\ scope \in [Instance -> SUBSET Project]
    /\ pc \in [Instance -> InCycle \cup {"sleep", "closing", "cleanup", "shutting", "stopped"}]
    /\ held \in [Instance -> SUBSET Key]
    /\ desired \in [Instance -> SUBSET Key]
    /\ todo \in [Instance -> SUBSET Key]
    /\ call \in [Instance -> Query \cup {Nothing}]
    /\ conn \in [Instance -> Session \cup {NoSession}]
    /\ usable \in [Instance -> BOOLEAN]
    /\ stopping \in [Instance -> BOOLEAN]
    /\ swallowed \in [Instance -> SUBSET Key]
    /\ faults \in 0..MaxFaults
    /\ changes \in 0..MaxScopeChanges

Init ==
    /\ ServerInit
    /\ backend \in {"postgres", "postgres_per_project"}
    /\ scope = [i \in Instance |-> {}]
    /\ pc = [i \in Instance |-> "sleep"]
    /\ held = [i \in Instance |-> {}]
    /\ desired = [i \in Instance |-> {}]
    /\ todo = [i \in Instance |-> {}]
    /\ call = [i \in Instance |-> Nothing]
    /\ conn = [i \in Instance |-> NoSession]
    /\ usable = [i \in Instance |-> TRUE]
    /\ stopping = [i \in Instance |-> FALSE]
    /\ swallowed = [i \in Instance |-> {}]
    /\ faults = 0
    /\ changes = 0

Wanted(i) == IF backend = "postgres" THEN {Global} ELSE scope[i]

Fault == faults < MaxFaults /\ faults' = faults + 1
NoFault == UNCHANGED faults

\* The connection of i works, as far as the server is concerned.
Connected(i) == conn[i] \in alive /\ usable[i]

-----------------------------------------------------------------------------
\* The environment.
ScopeChanges(i, p) ==
    /\ backend = "postgres_per_project"
    /\ changes < MaxScopeChanges
    /\ changes' = changes + 1
    /\ scope' = [scope EXCEPT ![i] = IF p \in @ THEN @ \ {p} ELSE @ \cup {p}]
    /\ UNCHANGED <<serverVars, gateVars, backend, faults>>

Execute(s) ==
    /\ ExecuteAcquire(s) \/ ExecuteRelease(s) \/ ExecuteProbe(s)
    /\ UNCHANGED <<gateVars, backend, scope, faults, changes>>

StatementError(s) ==
    /\ StatementFails(s) /\ Fault
    /\ UNCHANGED <<gateVars, backend, scope, changes>>

\* Postgres restarts, or its keepalive gives a partitioned client up.
SessionLost(s) ==
    /\ s \in alive
    /\ Ended(s) /\ Fault
    /\ UNCHANGED <<gateVars, backend, scope, changes>>

\* The server notices that nobody is at the other end any more.
Reap(s) ==
    /\ s \in alive
    /\ \A i \in Instance : conn[i] = s => ~usable[i]
    /\ Ended(s)
    /\ UNCHANGED <<gateVars, backend, scope, faults, changes>>

\* The process is killed and its supervisor starts it again.
Crash(i) ==
    /\ pc[i] # "stopped" /\ conn[i] # NoSession /\ Fault
    /\ pc' = [pc EXCEPT ![i] = "sleep"]
    /\ held' = [held EXCEPT ![i] = {}]
    /\ desired' = [desired EXCEPT ![i] = {}]
    /\ todo' = [todo EXCEPT ![i] = {}]
    /\ call' = [call EXCEPT ![i] = Nothing]
    /\ conn' = [conn EXCEPT ![i] = NoSession]
    /\ usable' = [usable EXCEPT ![i] = TRUE]
    /\ stopping' = [stopping EXCEPT ![i] = FALSE]
    /\ swallowed' = [swallowed EXCEPT ![i] = {}]
    /\ UNCHANGED <<serverVars, backend, scope, changes>>

-----------------------------------------------------------------------------
\* A session id nobody uses: what asyncpg.connect opens.
Fresh == {s \in Session : s \notin alive /\ \A j \in Instance : conn[j] # s}

\* _ensure_conn, then the query.  One on a dead or aborted connection goes nowhere.
\* (A connect that fails leaves the gate as it was, and is no action here.)
Ask(i, q) ==
    /\ call' = [call EXCEPT ![i] = q]
    /\ \/ /\ conn[i] = NoSession /\ Fresh # {}
          /\ LET s == CHOOSE s \in Fresh : TRUE
             IN  Sent(s, q) /\ conn' = [conn EXCEPT ![i] = s]
       \/ Connected(i) /\ Sent(conn[i], q) /\ UNCHANGED conn
       \/ conn[i] # NoSession /\ ~Connected(i) /\ UNCHANGED <<serverVars, conn>>
    /\ UNCHANGED <<backend, scope, usable, stopping, changes>>

\* The result of i's query is here.
Arrived(i) ==
    /\ call[i] # Nothing
    /\ Connected(i) /\ query[conn[i]] = Nothing /\ reply[conn[i]] # "none"

\* The query failed: the session is gone, or the statement went wrong.
Failed(i) ==
    /\ call[i] # Nothing
    /\ ~Connected(i) \/ (Arrived(i) /\ reply[conn[i]] = "error")

At(i, h, d, missing, next) ==
    /\ held' = [held EXCEPT ![i] = h]
    /\ desired' = [desired EXCEPT ![i] = d]
    /\ todo' = [todo EXCEPT ![i] = missing]
    /\ pc' = [pc EXCEPT ![i] = next]

\* No query is outstanding any more.
Quiet(i) ==
    /\ call' = [call EXCEPT ![i] = Nothing]
    /\ UNCHANGED <<serverVars, backend, scope, conn, usable, stopping, swallowed, changes>>

\* The cycle is over: the loop sleeps, or ends and stop() releases what it held.
CycleEnds(i, h) ==
    /\ IF stopping[i] THEN At(i, h, {}, h, "cleanup") ELSE At(i, h, {}, {}, "sleep")
    /\ Quiet(i)

\* Mutant: a cycle that had nothing to acquire or release does not probe.
CycleGoesOnUnprobed(i, h, d, missing) ==
    IF missing # {}
    THEN /\ At(i, h, d, missing, "acquiring")
         /\ \E k \in missing : Ask(i, [op |-> "acquire", key |-> k])
    ELSE IF h \ d # {}
    THEN /\ At(i, h, d, {}, "releasing")
         /\ \E k \in h \ d : Ask(i, [op |-> "release", key |-> k])
    ELSE CycleEnds(i, h)

\* The next query of a cycle that leads h, wants d, and has not tried missing.
CycleGoesOn(i, h, d, missing) ==
    IF missing # {}
    THEN /\ At(i, h, d, missing, "acquiring")
         /\ \E k \in missing : Ask(i, [op |-> "acquire", key |-> k])
    ELSE IF h \ d # {}
    THEN /\ At(i, h, d, {}, "releasing")
         /\ \E k \in h \ d : Ask(i, [op |-> "release", key |-> k])
    ELSE At(i, h, d, {}, "probing") /\ Ask(i, [op |-> "probe", key |-> NoKey])

-----------------------------------------------------------------------------
\* The heartbeat loop, _run.
Wake(i) ==
    /\ pc[i] = "sleep"
    /\ CycleGoesOn(i, held[i], Wanted(i), Wanted(i) \ held[i])
    /\ UNCHANGED swallowed
    /\ NoFault

\* Mutant: every answer is taken for a grant.
AcquiredUnread(i) ==
    /\ pc[i] = "acquiring" /\ Arrived(i) /\ reply[conn[i]] # "error"
    /\ LET h == held[i] \cup {call[i].key}
       IN  IF backend = "postgres"
           THEN CycleEnds(i, h)
           ELSE CycleGoesOn(i, h, desired[i], todo[i] \ {call[i].key})
    /\ UNCHANGED swallowed
    /\ NoFault

\* The global gate does not probe in the cycle in which it tried to acquire.
Acquired(i) ==
    /\ pc[i] = "acquiring" /\ Arrived(i) /\ reply[conn[i]] # "error"
    /\ LET k == call[i].key
           h == IF reply[conn[i]] = "true" THEN held[i] \cup {k} ELSE held[i]
       IN  IF backend = "postgres"
           THEN CycleEnds(i, h)
           ELSE CycleGoesOn(i, h, desired[i], todo[i] \ {k})
    /\ UNCHANGED swallowed
    /\ NoFault

\* release() swallows every error but a timeout, and the key is forgotten.
Released(i) ==
    /\ pc[i] = "releasing" /\ (Arrived(i) \/ Failed(i))
    /\ CycleGoesOn(i, held[i] \ {call[i].key}, desired[i], {})
    /\ swallowed' = [swallowed EXCEPT ![i] = IF Failed(i) THEN @ \cup {call[i].key} ELSE @]
    /\ NoFault

Probed(i) ==
    /\ pc[i] = "probing" /\ Arrived(i) /\ reply[conn[i]] # "error"
    /\ CycleEnds(i, held[i])
    /\ NoFault

\* Mutant: the leadership survives the connection.
DropsConnectionOnly(i) ==
    /\ pc[i] \in {"acquiring", "probing"} /\ Failed(i)
    /\ At(i, held[i], {}, {}, "closing") /\ Quiet(i)
    /\ NoFault

\* Any error, and any operation past its deadline: everything held is dropped, and
\* the connection with it.
DropsAll(i) ==
    /\ pc[i] \in {"acquiring", "probing"} /\ Failed(i)
    /\ At(i, {}, {}, {}, "closing") /\ Quiet(i)
    /\ NoFault

\* Mutant: an operation past its deadline is given up, and its connection kept.
TimesOutOnly(i) ==
    /\ pc[i] \in InCycle
    /\ CycleEnds(i, {})
    /\ Fault

TimesOut(i) ==
    /\ pc[i] \in InCycle
    /\ At(i, {}, {}, {}, "closing") /\ Quiet(i)
    /\ Fault

-----------------------------------------------------------------------------
\* close(): graceful, or aborted when it takes too long.  In the loop the cycle ends
\* with it, in stop() the gate.
Closing(i, s, u) ==
    /\ pc[i] \in {"closing", "shutting"}
    /\ pc' = [pc EXCEPT ![i] =
                IF pc[i] = "shutting" THEN "stopped" ELSE IF stopping[i] THEN "cleanup" ELSE "sleep"]
    /\ conn' = [conn EXCEPT ![i] = s]
    /\ usable' = [usable EXCEPT ![i] = u]
    /\ swallowed' = [swallowed EXCEPT ![i] = {}]
    /\ UNCHANGED <<backend, scope, held, desired, todo, call, stopping, changes>>

Close(i) ==
    /\ Closing(i, NoSession, TRUE)
    /\ IF Connected(i) THEN Ended(conn[i]) ELSE UNCHANGED serverVars
    /\ NoFault

\* The cancelled close aborts the transport and skips `self._conn = None`.
CloseTimesOut(i) ==
    /\ Connected(i)
    /\ Closing(i, conn[i], FALSE)
    /\ UNCHANGED serverVars
    /\ Fault

-----------------------------------------------------------------------------
\* stop(): a loop that sleeps ends at once, one in a cycle when the cycle is over.
Stop(i) ==
    /\ ~stopping[i]
    /\ stopping' = [stopping EXCEPT ![i] = TRUE]
    /\ IF pc[i] = "sleep"
       THEN At(i, held[i], {}, held[i], "cleanup")
       ELSE UNCHANGED <<pc, held, desired, todo>>
    /\ UNCHANGED <<serverVars, backend, scope, call, conn, usable, swallowed, faults, changes>>

\* The join times out and the loop is cancelled wherever it is: what it awaited may
\* still be executed, and nothing of the cycle's own error handling runs.
LoopCancelled(i) ==
    /\ stopping[i] /\ pc[i] \in InCycle \cup {"closing"}
    /\ At(i, held[i], {}, held[i], "cleanup")
    /\ call' = [call EXCEPT ![i] = Nothing]
    /\ usable' = [usable EXCEPT ![i] = @ /\ (pc[i] = "closing" => conn[i] = NoSession)]
    /\ UNCHANGED <<serverVars, backend, scope, conn, stopping, swallowed, changes>>
    /\ Fault

CleanupAsks(i) ==
    /\ pc[i] = "cleanup" /\ call[i] = Nothing
    /\ \E k \in todo[i] : Ask(i, [op |-> "release", key |-> k])
    /\ UNCHANGED <<pc, held, desired, todo, swallowed>>
    /\ NoFault

\* Each held key gets its release attempt, whatever became of the one before.
CleanedUp(i) ==
    /\ pc[i] = "cleanup" /\ call[i] # Nothing
    /\ ((Arrived(i) \/ Failed(i)) /\ NoFault) \/ Fault
    /\ At(i, held[i], {}, todo[i] \ {call[i].key}, "cleanup")
    /\ Quiet(i)

\* Mutant: stop() leaves the connection to the process.
ShutDownUnclosed(i) ==
    /\ pc[i] = "cleanup" /\ call[i] = Nothing /\ todo[i] = {}
    /\ At(i, {}, {}, {}, "stopped")
    /\ Quiet(i)
    /\ NoFault

\* held.clear(), then the close.
ShutDown(i) ==
    /\ pc[i] = "cleanup" /\ call[i] = Nothing /\ todo[i] = {}
    /\ At(i, {}, {}, {}, "shutting")
    /\ Quiet(i)
    /\ NoFault

-----------------------------------------------------------------------------
\* What i does by itself, given time.
Step(i) ==
    \/ Wake(i) \/ Acquired(i) \/ Released(i) \/ Probed(i) \/ DropsAll(i)
    \/ Close(i) \/ CleanupAsks(i) \/ CleanedUp(i) \/ ShutDown(i)

Environment ==
    \/ \E i \in Instance : \E p \in Project : ScopeChanges(i, p)
    \/ \E s \in Session : Execute(s) \/ StatementError(s) \/ SessionLost(s) \/ Reap(s)
    \/ \E i \in Instance : Crash(i)

Next ==
    \/ Environment
    \/ \E i \in Instance :
          Step(i) \/ TimesOut(i) \/ CloseTimesOut(i) \/ Stop(i) \/ LoopCancelled(i)

Spec == Init /\ [][Next]_vars

\* The loop's timer rings, the server executes what it is sent and reaps what
\* nobody is connected to; asyncio runs what is ready.
FairSpec ==
    /\ Spec
    /\ \A i \in Instance : WF_vars(Step(i))
    /\ \A s \in Session : WF_vars(Execute(s) \/ Reap(s))

-----------------------------------------------------------------------------
\* Is i in the middle of giving k up?  The server may have freed the lock already.
GivingUp(i, k) ==
    \/ pc[i] = "releasing" /\ call[i] = [op |-> "release", key |-> k]
    \/ pc[i] = "cleanup"

\* An instance that says it leads, on a session the server still serves, owns the
\* lock: so two instances lead a project at once only while one of them has lost
\* its session and not found out, or is releasing the project.
LeaderOwnsLock ==
    \A i \in Instance : \A k \in held[i] :
        conn[i] \in alive => Owner(conn[i], k) \/ GivingUp(i, k)

\* What LeaderOwnsLock makes of "it leads": i leads k on a session that is there, and
\* is not giving it up.
LeadsSoundly(i, k) == k \in held[i] /\ conn[i] \in alive /\ ~GivingUp(i, k)

Leaders == [k \in Key |-> {i \in Instance : LeadsSoundly(i, k)}]

Lock == INSTANCE LeaderLock WITH leader <- Leaders

\* Whatever is killed, cancelled, lost or timed out, the gates together are one lock per
\* key: nobody leads a key soundly while another does, and none is handed on directly.
ImplementsLock == Lock!LockSpec

\* No lock is left behind: asleep, on a connection that works, an instance owns what
\* it leads and nothing else, and once; a timed-out acquire that the server granted
\* after all does not stay.  The exception is a release whose failure was swallowed.
NothingLeftBehind ==
    \A i \in Instance :
        pc[i] = "sleep" /\ Connected(i) =>
            \A k \in Key \ swallowed[i] : owns[conn[i]][k] = IF k \in held[i] THEN 1 ELSE 0

\* A leader whose session is gone stops saying it leads, or has a session again.
StaleLeaderStepsDown ==
    \A i \in Instance : \A k \in Key :
        k \in held[i] /\ conn[i] \notin alive ~> k \notin held[i]

Competes(i, k) == ~stopping[i] /\ k \in Wanted(i)

OwnerLeads(i, k) == k \in held[i] /\ Connected(i) /\ Owner(conn[i], k)

\* Its session kept the lock when release() failed and said nothing.
KeepsUnknowingly(i, k) == k \in swallowed[i] /\ Connected(i) /\ Owner(conn[i], k)

\* With finitely many faults, a project that some instance goes on competing for gets
\* a leader that owns its lock and keeps it, whatever was killed, cancelled or timed
\* out before; unless an instance sits on the lock after a swallowed release.
ProjectGetsALeader ==
    \A k \in Key :
        <>[](\E i \in Instance : Competes(i, k)) =>
        <>[](\E i \in Instance : OwnerLeads(i, k) \/ KeepsUnknowingly(i, k))
=============================================================================
