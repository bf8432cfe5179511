-------------------------- MODULE DeclaredSchedules --------------------------
(***************************************************************************)
(* Everything in this package that writes the Brain's table of schedules:  *)
(* applications that declare their schedules and reconcile them at boot    *)
(* (declarative/), manage.py z4j_schedules sync, the importers, and the    *)
(* CLI commands that add a schedule or change one by its name.  Each is a  *)
(* client that makes one HTTP request, or two of them; requests of several *)
(* clients cross, time out and land late.                                  *)
(*                                                                         *)
(* The Brain, its dashboard and its releases are external: what they do    *)
(* with a request is what this package says of them.                       *)
(***************************************************************************)
EXTENDS Integers, FiniteSets

CONSTANT
    Clients,
    Names,
    Own,        \* "z4j-scheduler"
    Other,      \* another scheduler, whose schedules the Brain lists too
    Django,     \* source label of a Django application
    Flask,      \* source label of an application on another framework
    Importer,   \* source label of an importer
    Manual,     \* any other label: cli, the dashboard's, a discovered schedule's
    Dicts,      \* what an application may declare, or an importer read
    MaxWrites   \* bound: requests that are executed, the dashboard's too

ASSUME LabelsAssumption ==
    /\ Cardinality({Django, Flask, Importer, Manual}) = 4 /\ Own # Other
    /\ Dicts \subseteq UNION {[N -> {"on", "off"}] : N \in SUBSET Names}
    /\ MaxWrites \in Nat

Schedulers == {Own, Other}
Sources == {Django, Flask, Importer}

(* What a schedule says is told apart by whether it is enabled, which the  *)
(* hash covers like every other field; it does not cover the source.       *)
Specs == {"on", "off"}
ComputeHash(spec) == spec
NoHash == "none"

VARIABLES
    release,    \* the Brain's: v1.0, v1.1 or v1.2 and later; an upgrade is a restart between requests
    table,      \* its rows, one of a name and scheduler at most
    writes,     \* how many requests it has executed
    client      \* what each client is doing

vars == <<release, table, writes, client>>

Releases == 0..2
ListsFlat == release = 0    \* GET /schedules answers a list; from v1.1 on an envelope with a page
Serves(kind) == CASE kind = "import" -> release >= 1 [] kind = "reconcile" -> release >= 2 [] OTHER -> TRUE

(* edited: by hand, and the hash was left as it was *)
Row == [id : 0..MaxWrites + 1, source : Sources \cup {Manual}, spec : Specs,
        hash : Specs \cup {NoHash}, edited : BOOLEAN]

NoRow == [id |-> 0, source |-> Manual, spec |-> "off", hash |-> NoHash, edited |-> FALSE]
Exists(row) == row.id # 0

Idle ==
    [pc |-> "idle", kind |-> "none", source |-> Django, dict |-> << >>, scheduler |-> Own,
     name |-> "none", id |-> 0, spec |-> "on", refused |-> {}, crossed |-> {}]

(* how it ended: an exit with an error, or a failure that was logged *)
Done == [Idle EXCEPT !.pc = "done"]
Failed == [Idle EXCEPT !.pc = "failed"]

(* Rows of this scheduler, which an application declared or somebody made; *)
(* those of another are there where a command reads them.                  *)
Init ==
    /\ release \in Releases
    /\ \E source \in {Flask, Manual}, own \in {{}, Names} :
          /\ source = Flask => release = 2
          /\ table = [s \in Schedulers |-> [n \in Names |->
                IF (IF s = Own THEN n \notin own ELSE ~ListsFlat) THEN NoRow
                ELSE IF s = Own /\ source = Flask
                        THEN [NoRow EXCEPT !.id = 1, !.source = Flask, !.hash = ComputeHash("off")]
                        ELSE [NoRow EXCEPT !.id = 1]]]
    /\ writes = 0
    /\ client = [c \in Clients |-> Idle]

-----------------------------------------------------------------------------
(* The Brain *)

(* schedules:import, except for the rows the Brain refuses *)
ImportInto(rows, batch, refused) ==
    [n \in Names |->
        IF n \in DOMAIN batch.dict \ refused
           THEN IF Exists(rows[n]) /\ rows[n].hash = ComputeHash(batch.dict[n])
                   THEN rows[n]
                   ELSE [id |-> IF Exists(rows[n]) THEN rows[n].id ELSE writes + 2,
                         source |-> batch.source, spec |-> batch.dict[n],
                         hash |-> ComputeHash(batch.dict[n]), edited |-> FALSE]
           ELSE IF batch.kind = "reconcile" /\ n \notin DOMAIN batch.dict /\ rows[n].source = batch.source
                   THEN NoRow
                   ELSE rows[n]]

(* whether an edit changes the stored hash is not known here *)
Edited(row, spec, rehash) ==
    [row EXCEPT !.spec = spec, !.hash = IF rehash THEN ComputeHash(spec) ELSE @, !.edited = ~rehash]

Batches == {"reconcile", "import"}

(* the schedules a request may change *)
Concerns(request) ==
    IF request.kind \in Batches THEN {Own} \X Names ELSE {<<request.scheduler, request.name>>}

(* those it is about: a batch those it names, and if it replaces, those of its label *)
About(request) ==
    {key \in Concerns(request) :
        request.kind \in Batches =>
           \/ key[2] \in DOMAIN request.dict
           \/ request.kind = "reconcile" /\ table[Own][key[2]].source = request.source}

(* A client whose request was executed, when others write what keys says *)
Crossed(request, keys) ==
    IF request.pc = "landed"
       THEN [request EXCEPT !.crossed = @ \cup (keys \cap Concerns(request))]
       ELSE request

LandsFrom(c, record) ==
    client' = [d \in Clients |-> IF d = c THEN record ELSE Crossed(client[d], About(client[c]))]

(* a client that no longer waits learns nothing *)
Told(c, record) == IF client[c].pc = "adrift" THEN Idle ELSE record

(* an operator on the dashboard edits or deletes a schedule *)
Touch(s, n) ==
    /\ Exists(table[s][n])
    /\ \/ \E spec \in Specs, rehash \in BOOLEAN :
             table' = [table EXCEPT ![s][n] = Edited(@, spec, rehash)]
       \/ table' = [table EXCEPT ![s][n] = NoRow]
    /\ client' = [d \in Clients |-> Crossed(client[d], {<<s, n>>})]
    /\ writes < MaxWrites /\ writes' = writes + 1
    /\ UNCHANGED release

-----------------------------------------------------------------------------
(* The clients *)

Moves(c, record) ==
    /\ client' = [client EXCEPT ![c] = record]
    /\ UNCHANGED <<release, table, writes>>

(* The Django helper takes an empty dict for an unset one and makes no     *)
(* request, an importer that found nothing neither; the others do.         *)
Posts(source, dict) == source = Flask \/ DOMAIN dict # {}

(* An application boots with the dict of its version (a rolling deploy     *)
(* runs several), or manage.py z4j_schedules sync, or an import.  sync     *)
(* takes no summary for a failure, an application goes on without; import  *)
(* says that there is nothing to push.                                     *)
Reconcile(c, kind, source, dict) ==
    /\ client[c].pc = "idle"
    /\ kind = "import" <=> source = Importer
    /\ Moves(c, IF Posts(source, dict)
                   THEN [Idle EXCEPT !.pc = "sent", !.kind = kind, !.source = source, !.dict = dict]
                   ELSE IF kind = "import" THEN Done ELSE Failed)

(* The batch is executed, whether its client still waits or not *)
BatchLands(c) ==
    /\ client[c].kind \in Batches /\ Serves(client[c].kind)
    /\ client[c].pc \in {"sent", "adrift"}
    /\ \E refused \in SUBSET DOMAIN client[c].dict :
          /\ table' = [table EXCEPT ![Own] = ImportInto(@, client[c], refused)]
          /\ LandsFrom(c, Told(c, [client[c] EXCEPT !.pc = "landed", !.refused = refused]))
    /\ writes < MaxWrites /\ writes' = writes + 1
    /\ UNCHANGED release

\* Mutant: an import does not look at the rows the Brain refused.
AnsweredUnread(c) ==
    /\ client[c].pc = "landed"
    /\ Moves(c, Done)

(* The summary: an import with errors exits 1, a reconcile counts them *)
Answered(c) ==
    /\ client[c].pc = "landed"
    /\ Moves(c, IF client[c].kind = "import" /\ client[c].refused # {} THEN Failed ELSE Done)

(* 404 of a Brain without the endpoint, 401, 409, 500 *)
Refused(c) ==
    /\ client[c].pc = "sent"
    /\ Moves(c, Failed)

(* The timeout; the request may still be executed *)
TimesOut(c) ==
    /\ client[c].pc \in {"sent", "landed"}
    /\ Moves(c, IF client[c].pc = "sent" THEN [client[c] EXCEPT !.pc = "adrift"] ELSE Failed)

Lost(c) ==
    /\ client[c].pc = "adrift"
    /\ Moves(c, Idle)

(* _resolve_schedule_id_by_name takes the first row of the name, whatever  *)
(* its scheduler; then the PATCH or POST goes to its id.  It takes the     *)
(* body for a list of rows: an envelope ends it.                           *)
Resolve(c, name, spec) ==
    /\ client[c].pc = "idle"
    /\ \E s \in Schedulers :
          /\ ListsFlat /\ Exists(table[s][name])
          /\ Moves(c, [Idle EXCEPT !.pc = "sent", !.kind = "edit", !.scheduler = s, !.name = name,
                                   !.id = table[s][name].id, !.spec = spec])

NotResolved(c, name) ==
    /\ client[c].pc = "idle"
    /\ ListsFlat => \A s \in Schedulers : ~Exists(table[s][name])
    /\ Moves(c, Failed)

HasRow(request) == table[request.scheduler][request.name].id = request.id

EditRow(request) ==
    /\ \E rehash \in BOOLEAN :
          table' = [table EXCEPT ![request.scheduler][request.name] =
                       Edited(@, request.spec, rehash)]
    /\ writes < MaxWrites /\ writes' = writes + 1
    /\ UNCHANGED release

\* Mutant: the status of the answer is not looked at.
EditLandsAnyway(c) ==
    /\ client[c].kind = "edit"
    /\ client[c].pc \in {"sent", "adrift"}
    /\ IF HasRow(client[c]) THEN EditRow(client[c]) ELSE UNCHANGED <<release, table, writes>>
    /\ LandsFrom(c, Told(c, [client[c] EXCEPT !.pc = "landed"]))

(* the row of the id; one that is gone is a 404 *)
EditLands(c) ==
    /\ client[c].kind = "edit"
    /\ client[c].pc \in {"sent", "adrift"}
    /\ IF HasRow(client[c])
          THEN /\ EditRow(client[c])
               /\ LandsFrom(c, Told(c, [client[c] EXCEPT !.pc = "landed"]))
          ELSE Moves(c, Told(c, Failed))

(* schedules add, or the form of the dashboard *)
Add(c, name, spec) ==
    /\ client[c].pc = "idle"
    /\ Moves(c, [Idle EXCEPT !.pc = "sent", !.kind = "add", !.name = name, !.spec = spec])

(* its answer has the id, which add prints; what hash the row gets is not known here *)
AddLands(c) ==
    /\ client[c].kind = "add"
    /\ client[c].pc \in {"sent", "adrift"}
    /\ ~Exists(table[Own][client[c].name])
    /\ \E hash \in {NoHash, ComputeHash(client[c].spec)} :
          table' = [table EXCEPT ![Own][client[c].name] =
                       [id |-> writes + 2, source |-> Manual, spec |-> client[c].spec,
                        hash |-> hash, edited |-> FALSE]]
    /\ LandsFrom(c, Told(c, [client[c] EXCEPT !.pc = "landed", !.id = writes + 2]))
    /\ writes < MaxWrites /\ writes' = writes + 1
    /\ UNCHANGED release

(* the process ends, or an application goes on to serve *)
Ends(c) ==
    /\ client[c].pc \in {"done", "failed"}
    /\ Moves(c, Idle)

Request(c) ==
    \/ \E kind \in Batches, source \in Sources, dict \in Dicts :
          Reconcile(c, kind, source, dict)
    \/ \E name \in Names : NotResolved(c, name)
    \/ \E name \in Names, spec \in Specs : Resolve(c, name, spec) \/ Add(c, name, spec)

Next ==
    \/ \E c \in Clients :
          \/ Request(c)
          \/ BatchLands(c) \/ EditLands(c) \/ AddLands(c)
          \/ Answered(c) \/ Refused(c) \/ TimesOut(c) \/ Lost(c) \/ Ends(c)
    \/ \E s \in Schedulers, n \in Names : Touch(s, n)

Spec == Init /\ [][Next]_vars

-----------------------------------------------------------------------------
TypeOK ==
    /\ release \in Releases
    /\ table \in [Schedulers -> [Names -> Row]]
    /\ writes \in 0..MaxWrites
    /\ \A c \in Clients :
          /\ client[c].pc \in {"idle", "sent", "adrift", "landed", "done", "failed"}
          /\ client[c].source \in Sources
          /\ client[c].dict \in Dicts \cup {<< >>}

(* as declared, or edited by hand under the hash of the declaration *)
LeftAs(row, spec) ==
    Exists(row) /\ (row.spec = spec \/ (row.edited /\ row.hash = ComputeHash(spec)))

(* A reconcile that reports its summary has each schedule it names in the  *)
(* table, as it declares it, and no other of its label, but for the names  *)
(* it counts as failed; an import that exits 0 has all of its schedules    *)
(* there.  So it stays, whatever late batches of other labels, edits and   *)
(* additions are executed meanwhile, until one of them names the schedule. *)
(* What this cannot promise: an edit by hand before the batch, which left  *)
(* the stored hash as it was, is not undone.                               *)
AnsweredIsDone ==
    [][\A c \in Clients :
        LET d == client[c]
            counted == IF d.kind = "import" THEN {} ELSE d.refused
        IN  d.pc = "landed" /\ client'[c] = Done /\ d.kind \in Batches =>
               \A n \in Names : <<Own, n>> \notin d.crossed =>
                  /\ n \in DOMAIN d.dict \ counted => LeftAs(table[Own][n], d.dict[n])
                  /\ d.kind = "reconcile" /\ n \notin DOMAIN d.dict =>
                        ~Exists(table[Own][n]) \/ table[Own][n].source # d.source]_vars

(* A command by name that reports success has changed the schedule whose   *)
(* id the look-up gave it, and add has made the one whose id it prints:    *)
(* unless a later request named it, that row is there and says so, though  *)
(* it may have been deleted and another one of its name made in between.   *)
(* It may be the row of another scheduler: see the README.                 *)
NamedIsMeant ==
    [][\A c \in Clients :
        LET d == client[c] IN
        /\ d.pc = "landed" /\ client'[c] = Done /\ d.kind \in {"edit", "add"}
        /\ <<d.scheduler, d.name>> \notin d.crossed
        => LET row == table[d.scheduler][d.name] IN
              Exists(row) /\ row.id = d.id /\ row.spec = d.spec]_vars
=============================================================================
