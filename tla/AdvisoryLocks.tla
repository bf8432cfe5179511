--------------------------- MODULE AdvisoryLocks ---------------------------
(***************************************************************************)
(* The Postgres server as the leader gates use it: sessions, and advisory  *)
(* locks that belong to a session and are counted within it.  A session    *)
(* executes one query at a time, some time after it was sent; a session    *)
(* that ends frees what it owned.  Code outside the repository.            *)
(***************************************************************************)
EXTENDS Naturals

CONSTANTS
    Session,
    Key,
    NoKey

VARIABLES
    alive,      \* the sessions the server still serves
    owns,       \* owns[s][k]: how often session s has taken lock k
    query,      \* query[s]: sent and not executed
    reply       \* reply[s]: the result of the query executed last

serverVars == <<alive, owns, query, reply>>

Query == [op : {"acquire", "release"}, key : Key] \cup [op : {"probe"}, key : {NoKey}]
Nothing == [op |-> "none", key |-> NoKey]

Owner(s, k) == owns[s][k] > 0

\* pg_try_advisory_lock: granted to a session that owns the lock already.
Grantable(s, k) == \A r \in Session : Owner(r, k) => r = s

ServerTypeOK ==
    /\ alive \in SUBSET Session
    /\ owns \in [Session -> [Key -> Nat]]
    /\ query \in [Session -> Query \cup {Nothing}]
    /\ reply \in [Session -> {"none", "true", "false", "error"}]

ServerInit ==
    /\ alive = {}
    /\ owns = [s \in Session |-> [k \in Key |-> 0]]
    /\ query = [s \in Session |-> Nothing]
    /\ reply = [s \in Session |-> "none"]

\* A query of a session that is there, or that is opened for it.
Sent(s, q) ==
    /\ query[s] = Nothing
    /\ alive' = alive \cup {s}
    /\ query' = [query EXCEPT ![s] = q]
    /\ reply' = [reply EXCEPT ![s] = "none"]
    /\ UNCHANGED owns

\* The server ends session s: every lock of it is free.
Ended(s) ==
    /\ alive' = alive \ {s}
    /\ owns' = [owns EXCEPT ![s] = [k \in Key |-> 0]]
    /\ query' = [query EXCEPT ![s] = Nothing]
    /\ reply' = [reply EXCEPT ![s] = "none"]

Returns(s, r) ==
    /\ query' = [query EXCEPT ![s] = Nothing]
    /\ reply' = [reply EXCEPT ![s] = r]
    /\ UNCHANGED alive

ExecuteAcquire(s) ==
    /\ s \in alive /\ query[s].op = "acquire"
    /\ LET k == query[s].key
       IN  IF Grantable(s, k)
           THEN Returns(s, "true") /\ owns' = [owns EXCEPT ![s][k] = @ + 1]
           ELSE Returns(s, "false") /\ UNCHANGED owns

\* pg_advisory_unlock gives back one acquisition, if there is one.
ExecuteRelease(s) ==
    /\ s \in alive /\ query[s].op = "release"
    /\ LET k == query[s].key
       IN  IF Owner(s, k)
           THEN Returns(s, "true") /\ owns' = [owns EXCEPT ![s][k] = @ - 1]
           ELSE Returns(s, "false") /\ UNCHANGED owns

ExecuteProbe(s) ==
    /\ s \in alive /\ query[s].op = "probe"
    /\ Returns(s, "true")
    /\ UNCHANGED owns

\* A statement fails and its session lives on (statement_timeout, a cancelled backend).
StatementFails(s) ==
    /\ s \in alive /\ query[s] # Nothing
    /\ Returns(s, "error")
    /\ UNCHANGED owns
=============================================================================
