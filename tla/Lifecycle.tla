----------------------------- MODULE Lifecycle -----------------------------
(***************************************************************************)
(* The life of one scheduler process (main.py): run_from_settings starts   *)
(* the subsystems, waits for the TaskGroup of run(), and tears everything  *)
(* down in stop().  A signal starts another stop() at any moment of that.  *)
(*                                                                         *)
(* All of it is one asyncio loop, so an action runs from one await to the  *)
(* next.  stop() awaits at four places, in this order: the trigger server, *)
(* the drain of the fires in flight, the leader gate, the channel; what it *)
(* does in between (set a flag) belongs to the step that gets there.       *)
(***************************************************************************)
EXTENDS Integers, FiniteSets

CONSTANT
    MaxSignals,     \* bound: how many SIGTERM or SIGINT arrive
    MaxFires        \* bound: how many fires the tick loop starts

ASSUME BoundsAssumption == MaxSignals \in Nat /\ MaxFires \in Nat

VARIABLES
    config,     \* what the settings and the Brain make of this process
    main,       \* where run_from_settings awaits
    built,      \* the subsystems start() has stored on the application
    stopped,    \* the stop flags set: of the application and of its subsystems
    tasks,      \* the children of run()'s TaskGroup that have not ended
    synced,     \* cache_initial_sync_complete: the cache holds schedules
    watcher,    \* where the child _await_stop_then_cancel awaits
    stops,      \* where each call of stop() awaits
    trigger,    \* the TriggerSchedule server
    gate,       \* the leader gate: only the Postgres gates have a task and a stop()
    channel,    \* the gRPC channel of the BrainClient
    fire,       \* a fire of the tick loop in flight
    manual,     \* a fire of the TriggerSchedule server in flight
    fires,      \* how many the tick loop has started (bound)
    abandoned,  \* history: a drain ran out of time
    asked       \* history: what main was doing when each signal arrived

sub == <<trigger, gate, channel, synced>>
flight == <<fire, manual, fires>>
history == <<abandoned, asked>>
vars == <<config, main, built, stopped, tasks, watcher, stops, sub, flight, history>>

Main == 0       \* the stop() that run_from_settings itself calls; the others are signals
Callers == {Main} \cup 1..MaxSignals

Configs == [mode : {"legacy", "current"}, gated : BOOLEAN, trigger : BOOLEAN]
Phases == {"ping", "negotiate", "bind", "run", "stop", "exited"}
Awaits == {"trigger", "drain", "gate", "channel"}

TypeOK ==
    /\ config \in Configs
    /\ main \in Phases
    /\ built \subseteq {"reporter", "gate", "watch", "engine", "trigger", "http"}
    /\ stopped \subseteq {"app", "http", "engine", "reporter", "watch"}
    /\ tasks \subseteq {"watch", "tick", "reporter", "http", "watcher"}
    /\ watcher \in {"none", "wait", "drain"}
    /\ stops \in [Callers -> {"idle", "done"} \cup Awaits]
    /\ trigger \in {"none", "serving", "down"}
    /\ gate \in {"none", "on", "released"}
    /\ channel \in {"open", "closing", "closed"}
    /\ synced \in BOOLEAN
    /\ fire \in BOOLEAN /\ manual \in BOOLEAN
    /\ fires \in 0..MaxFires
    /\ abandoned \in BOOLEAN
    /\ asked \in [1..MaxSignals -> Phases \cup {"none"}]

(* connect() has made the channel; the ping is on its way *)
Init ==
    /\ config \in Configs
    /\ main = "ping"
    /\ built = {} /\ stopped = {} /\ tasks = {}
    /\ watcher = "none"
    /\ stops = [c \in Callers |-> "idle"]
    /\ trigger = "none" /\ gate = "none" /\ channel = "open"
    /\ synced = FALSE
    /\ fire = FALSE /\ manual = FALSE /\ fires = 0
    /\ abandoned = FALSE
    /\ asked = [s \in 1..MaxSignals |-> "none"]

-----------------------------------------------------------------------------
(* stop().  Stage k of it awaits only if there is something to await, and  *)
(* sets its flags on the way.                                              *)

Stages == <<"trigger", "drain", "gate", "channel", "done">>
StageOf(await) == CHOOSE k \in 1..5 : Stages[k] = await

\* Mutant: stop() does not wait for the fires in flight.
AwaitsAtUndrained(k) ==
    CASE k = 1 -> "trigger" \in built /\ trigger = "serving"
      [] k = 3 -> "gate" \in built /\ gate # "none"
      [] k = 4 -> channel = "open"
      [] OTHER -> k = 5

AwaitsAt(k) ==
    CASE k = 1 -> "trigger" \in built /\ trigger = "serving"
      [] k = 2 -> "engine" \in built /\ fire
      [] k = 3 -> "gate" \in built /\ gate # "none"
      [] k = 4 -> channel = "open"
      [] k = 5 -> TRUE

NextAwait(k) ==
    CHOOSE n \in k..5 : AwaitsAt(n) /\ \A j \in k..n - 1 : ~AwaitsAt(j)

\* Mutant: stop() forgets the reporter.
FlagsOfAllButReporter(k) ==
    CASE k = 1 -> {"app"} \cup (built \cap {"http"})
      [] k = 2 -> built \cap {"engine"}
      [] k = 3 -> built \cap {"watch"}
      [] OTHER -> {}

FlagsOf(k) ==
    CASE k = 1 -> {"app"} \cup (built \cap {"http"})
      [] k = 2 -> built \cap {"engine"}
      [] k = 3 -> built \cap {"reporter", "watch"}
      [] OTHER -> {}

(* the call c of stop() goes on from stage k to where it awaits next *)
StopFrom(c, k) ==
    LET n == NextAwait(k) IN
        /\ stops' = [stops EXCEPT ![c] = Stages[n]]
        /\ stopped' = stopped \cup UNION {FlagsOf(j) : j \in k..n}

(* reaching the channel stage forgets the channel and closes it with a grace *)
ChannelAfter(k) == IF NextAwait(k) = 4 THEN "closing" ELSE channel

Signal(s) ==
    /\ main # "exited" /\ stops[s] = "idle"
    /\ \A r \in 1..s - 1 : stops[r] # "idle"
    /\ StopFrom(s, 1)
    /\ channel' = ChannelAfter(1)
    /\ asked' = [asked EXCEPT ![s] = main]
    /\ UNCHANGED <<config, main, built, tasks, watcher, synced, trigger, gate, flight, abandoned>>

(* the handlers in progress have ended, within the grace or cancelled at its end *)
TriggerStopped(c) ==
    /\ main # "exited" /\ stops[c] = "trigger"
    /\ StopFrom(c, 2)
    /\ trigger' = "down"
    /\ manual' = FALSE
    /\ channel' = ChannelAfter(2)
    /\ UNCHANGED <<config, main, built, tasks, watcher, synced, gate, fire, fires, history>>

Drained(c) ==
    /\ main # "exited" /\ stops[c] = "drain"
    /\ ~fire
    /\ StopFrom(c, 3)
    /\ channel' = ChannelAfter(3)
    /\ UNCHANGED <<config, main, built, tasks, watcher, synced, trigger, gate, flight, history>>

(* fire_timeout_seconds have passed: the deadline of one attempt, not of a *)
(* retry nor of the acknowledgement                                        *)
DrainRunsOut(c) ==
    /\ main # "exited" /\ stops[c] = "drain"
    /\ fire
    /\ StopFrom(c, 3)
    /\ abandoned' = TRUE
    /\ channel' = ChannelAfter(3)
    /\ UNCHANGED <<config, main, built, tasks, watcher, synced, trigger, gate, flight, asked>>

GateStopped(c) ==
    /\ main # "exited" /\ stops[c] = "gate"
    /\ StopFrom(c, 4)
    /\ gate' = "released"
    /\ channel' = ChannelAfter(4)
    /\ UNCHANGED <<config, main, built, tasks, watcher, synced, trigger, flight, history>>

(* the calls still open when the grace ends are cancelled: see FireCancelled *)
ChannelClosed(c) ==
    /\ main # "exited" /\ stops[c] = "channel"
    /\ StopFrom(c, 5)
    /\ channel' = "closed"
    /\ UNCHANGED <<config, main, built, tasks, watcher, synced, trigger, gate, flight, history>>

-----------------------------------------------------------------------------
(* start(): the only awaits are the ping, the negotiation and the bind *)

\* Mutant: a failed start() is raised without a stop().
StartFailsUnstopped ==
    /\ main' = "exited"
    /\ UNCHANGED <<stops, stopped, channel>>

(* run_from_settings catches an Exception of start() and calls stop() *)
StartFails ==
    /\ main' = "stop"
    /\ StopFrom(Main, 1)
    /\ channel' = ChannelAfter(1)

PingAnswered ==
    /\ main = "ping"
    /\ channel # "closed"
    /\ IF channel = "open"
          THEN main' = "negotiate" /\ UNCHANGED <<stops, stopped, channel>>
          ELSE StartFails               \* the stub is gone: negotiating raises
    /\ UNCHANGED <<config, built, tasks, watcher, synced, trigger, gate, flight, history>>

PingFails ==
    /\ main = "ping"
    /\ StartFails
    /\ UNCHANGED <<config, built, tasks, watcher, synced, trigger, gate, flight, history>>

(* a call cut off by the closing channel raises CancelledError, which is no *)
(* Exception: nothing is running yet, and the process ends without a stop() *)
StartCancelled ==
    /\ main \in {"ping", "negotiate"}
    /\ channel = "closed"
    /\ main' = "exited"
    /\ UNCHANGED <<config, built, stopped, tasks, watcher, stops, sub, flight, history>>

NegotiationFails ==
    /\ main = "negotiate"
    /\ channel # "closed"
    /\ StartFails
    /\ UNCHANGED <<config, built, tasks, watcher, synced, trigger, gate, flight, history>>

EnterRun(parts) ==
    /\ main' = "run"
    /\ tasks' = {"watch", "tick", "http", "watcher"} \cup (parts \cap {"reporter"})
    /\ watcher' = "wait"
    /\ built' = parts \cup {"http"}

Parts ==
    {"watch", "engine"} \cup (IF config.mode = "current" THEN {"reporter"} ELSE {})
                        \cup (IF config.gated THEN {"gate"} ELSE {})

(* A closing channel still completes the call: start() does not look at the *)
(* stop flag and builds everything else on it.                              *)
Negotiated ==
    /\ main = "negotiate"
    /\ channel # "closed"
    /\ gate' = IF config.gated THEN "on" ELSE "none"
    /\ IF config.trigger
          THEN main' = "bind" /\ built' = Parts /\ UNCHANGED <<tasks, watcher>>
          ELSE EnterRun(Parts)
    /\ UNCHANGED <<config, stopped, stops, trigger, channel, synced, flight, history>>

Bound ==
    /\ main = "bind"
    /\ trigger' = "serving"
    /\ EnterRun(built \cup {"trigger"})
    /\ UNCHANGED <<config, stopped, stops, gate, channel, synced, flight, history>>

BindFails ==
    /\ main = "bind"
    /\ StartFails
    /\ UNCHANGED <<config, built, tasks, watcher, synced, trigger, gate, flight, history>>

-----------------------------------------------------------------------------
(* run(): the TaskGroup waits for every child *)

AdmitsFires == "tick" \in tasks /\ "engine" \notin stopped

(* the first full sync, patched_full_sync *)
FirstSync ==
    /\ "watch" \in tasks /\ "watch" \notin stopped /\ channel = "open" /\ ~synced
    /\ synced' = TRUE
    /\ UNCHANGED <<config, main, built, stopped, tasks, watcher, stops, trigger, gate, channel,
                   flight, history>>

(* the worker's gates: leading, a healthy stream, hence an open channel *)
FireStarts ==
    /\ AdmitsFires
    /\ synced /\ gate # "released" /\ channel = "open" /\ "watch" \notin stopped
    /\ ~fire /\ fires < MaxFires
    /\ fire' = TRUE
    /\ fires' = fires + 1
    /\ UNCHANGED <<config, main, built, stopped, tasks, watcher, stops, sub, manual, history>>

FireEnds ==
    /\ fire /\ channel # "closed"
    /\ fire' = FALSE
    /\ UNCHANGED <<config, main, built, stopped, tasks, watcher, stops, sub, manual, fires, history>>

(* A child that ends cancelled is one that ended: the group goes on waiting *)
(* for the others.                                                          *)
FireCancelled ==
    /\ fire /\ channel = "closed"
    /\ fire' = FALSE
    /\ tasks' = tasks \ {"tick"}
    /\ UNCHANGED <<config, main, built, stopped, watcher, stops, sub, manual, fires, history>>

TickStops ==
    /\ "tick" \in tasks /\ "engine" \in stopped /\ ~fire
    /\ tasks' = tasks \ {"tick"}
    /\ UNCHANGED <<config, main, built, stopped, watcher, stops, sub, flight, history>>

(* ten failed iterations in a row: the exception cancels the siblings *)
TickGivesUp ==
    /\ AdmitsFires /\ ~fire
    /\ tasks' = {}
    /\ UNCHANGED <<config, main, built, stopped, watcher, stops, sub, flight, history>>

(* the Watch stream, the reporter and uvicorn end by their own stop flag *)
ChildStops(t) ==
    /\ t \in tasks \cap {"watch", "reporter", "http"} /\ t \in stopped
    /\ tasks' = tasks \ {t}
    /\ UNCHANGED <<config, main, built, stopped, watcher, stops, sub, flight, history>>

(* _await_stop_then_cancel: it stops neither the reporter nor, by raising, *)
(* anything else                                                           *)
WatcherEnds ==
    /\ watcher' = "none"
    /\ tasks' = tasks \ {"watcher"}
    /\ stopped' = stopped \cup {"engine", "watch", "http"}

WatcherWakes ==
    /\ "watcher" \in tasks /\ watcher = "wait" /\ "app" \in stopped
    /\ IF fire
          THEN /\ watcher' = "drain"
               /\ stopped' = stopped \cup {"engine"}
               /\ UNCHANGED tasks
          ELSE WatcherEnds
    /\ UNCHANGED <<config, main, built, stops, sub, flight, history>>

WatcherDrained ==
    /\ "watcher" \in tasks /\ watcher = "drain" /\ ~fire
    /\ WatcherEnds
    /\ UNCHANGED <<config, main, built, stops, sub, flight, history>>

WatcherRunsOut ==
    /\ "watcher" \in tasks /\ watcher = "drain" /\ fire
    /\ WatcherEnds
    /\ abandoned' = TRUE
    /\ UNCHANGED <<config, main, built, stops, sub, flight, asked>>

(* an operator's trigger, let in by the leader gate *)
ManualStarts ==
    /\ trigger = "serving" /\ \A c \in Callers : stops[c] # "trigger"
    /\ synced /\ gate # "released" /\ channel = "open"
    /\ ~manual
    /\ manual' = TRUE
    /\ UNCHANGED <<config, main, built, stopped, tasks, watcher, stops, sub, fire, fires, history>>

ManualEnds ==
    /\ manual
    /\ manual' = FALSE
    /\ UNCHANGED <<config, main, built, stopped, tasks, watcher, stops, sub, fire, fires, history>>

(* run() returns, or raises what made the tick loop give up: finally, stop() *)
RunReturns ==
    /\ main = "run" /\ tasks = {}
    /\ main' = "stop"
    /\ StopFrom(Main, 1)
    /\ channel' = ChannelAfter(1)
    /\ UNCHANGED <<config, built, tasks, watcher, synced, trigger, gate, flight, history>>

(* asyncio.run() then cancels what is left of the other stop() calls *)
Exit ==
    /\ main = "stop" /\ stops[Main] = "done"
    /\ main' = "exited"
    /\ UNCHANGED <<config, built, stopped, tasks, watcher, stops, sub, flight, history>>

StopStep(c) ==
    TriggerStopped(c) \/ Drained(c) \/ DrainRunsOut(c) \/ GateStopped(c) \/ ChannelClosed(c)

MainStep ==
    \/ PingAnswered \/ PingFails \/ StartCancelled
    \/ NegotiationFails \/ Negotiated \/ Bound \/ BindFails
    \/ RunReturns \/ Exit

TaskEnds == TickStops \/ \E t \in {"watch", "reporter", "http"} : ChildStops(t)

WatcherStep == WatcherWakes \/ WatcherDrained \/ WatcherRunsOut

FlightEnds == FireEnds \/ FireCancelled \/ ManualEnds

Next ==
    \/ MainStep
    \/ \E s \in 1..MaxSignals : Signal(s)
    \/ \E c \in Callers : StopStep(c)
    \/ TaskEnds \/ WatcherStep \/ FlightEnds
    \/ FirstSync \/ FireStarts \/ ManualStarts \/ TickGivesUp

Spec == Init /\ [][Next]_vars

(* The loop runs what is ready; every RPC and every wait of stop() has a *)
(* deadline; that a signal comes or a fire starts is not promised.       *)
Fairness ==
    /\ WF_vars(MainStep)
    /\ \A c \in Callers : WF_vars(StopStep(c))
    /\ WF_vars(TickStops)
    /\ \A t \in {"watch", "reporter", "http"} : WF_vars(ChildStops(t))
    /\ WF_vars(WatcherStep)
    /\ WF_vars(FireEnds \/ FireCancelled)

FairSpec == Spec /\ Fairness

-----------------------------------------------------------------------------

(* The gate that kept other replicas out is released with no operator's    *)
(* fire in flight, and with a fire of the tick loop in flight only if the  *)
(* drain of a stop() or of the shutdown watcher had run out of time, with  *)
(* any number of stop() calls and children of the group racing each other. *)
GateOutlivesFires ==
    gate = "released" => ~manual /\ (fire => abandoned)

(* However a process ends, by a signal at any moment, a failed start, a    *)
(* tick loop that gave up, it leaves no task running, no fire in flight,   *)
(* no lock held, no server listening and no channel open.                  *)
ExitLeavesNothing ==
    main = "exited" =>
        /\ tasks = {} /\ ~fire /\ ~manual
        /\ gate # "on" /\ trigger # "serving" /\ channel # "open"

(* A signal that arrives while run() runs ends the process, even if others *)
(* came before or come after it.                                           *)
SignalEndsRun ==
    \A s \in 1..MaxSignals : (asked[s] = "run") ~> (main = "exited")

(* So does one that arrives before.  Not so: see the README. *)
SignalAlwaysEnds ==
    \A s \in 1..MaxSignals : (asked[s] # "none") ~> (main = "exited")
=============================================================================
