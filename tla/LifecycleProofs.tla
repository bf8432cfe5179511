--------------------------- MODULE LifecycleProofs ---------------------------
(***************************************************************************)
(* Proofs about the life of one process, for any number of signals and of  *)
(* fires: the leader gate is released after the fires in flight, and an    *)
(* exit, however it comes about, leaves nothing behind.                    *)
(***************************************************************************)
EXTENDS Lifecycle, TLAPS

-----------------------------------------------------------------------------
(* The inductive invariant *)

Early == main \in {"ping", "negotiate"}
Starting == Early \/ main = "bind"

\* What does not exist yet, and what exists once it is stored.
BuiltInOrder ==
    /\ Early => built = {} /\ gate = "none"
    /\ Starting => tasks = {} /\ trigger = "none" /\ ~synced
    /\ main \in {"bind", "run"} => {"engine", "watch"} \subseteq built
    /\ "gate" \in built => {"engine", "watch"} \subseteq built
    /\ gate # "none" => "gate" \in built
    /\ trigger = "serving" => "trigger" \in built

\* Who carries a fire: the tick loop in the group of run(), the server that serves.
FiresAreCarried ==
    /\ tasks # {} => main = "run"
    /\ fire => "tick" \in tasks
    /\ manual => trigger = "serving"

\* A signal's stop() reaches a stage only after there is something to wait for.
StopsInPlace ==
    \A c \in Callers :
        /\ stops[c] \in {"trigger", "drain"} => ~Starting
        /\ stops[c] = "gate" => ~Early /\ gate # "none"

\* Behind the stage of the server, whose fires have ended, none can start.
ServerQuiet(c) ==
    /\ stops[c] = "drain" => trigger # "serving" /\ "engine" \in stopped
    /\ stops[c] = "gate" => ~manual /\ (trigger # "serving" \/ ~synced)

\* Behind the drain no fire of the tick loop starts, and one left is abandoned.
TickQuiet(c) ==
    stops[c] = "gate" => {"engine", "watch"} \subseteq stopped /\ (fire => abandoned)

StopsAreQuiet == \A c \in Callers : ServerQuiet(c) /\ TickQuiet(c)

\* How far the stop() that run_from_settings waits for has come.
MainStops ==
    /\ main \in {"ping", "negotiate", "bind", "run"} => stops[Main] = "idle"
    /\ main = "stop" =>
          /\ stops[Main] \notin {"idle", "drain"}
          /\ stops[Main] \in {"gate", "channel", "done"} => trigger # "serving"
          /\ stops[Main] \in {"channel", "done"} => gate # "on"
          /\ stops[Main] = "done" => channel # "open"

IInv ==
    /\ TypeOK
    /\ BuiltInOrder /\ FiresAreCarried /\ StopsInPlace /\ StopsAreQuiet /\ MainStops
    /\ GateOutlivesFires /\ ExitLeavesNothing

-----------------------------------------------------------------------------
(* How stop() goes on *)

LEMMA StageFacts ==
    /\ AwaitsAt(1) <=> "trigger" \in built /\ trigger = "serving"
    /\ AwaitsAt(2) <=> "engine" \in built /\ fire
    /\ AwaitsAt(3) <=> "gate" \in built /\ gate # "none"
    /\ AwaitsAt(4) <=> channel = "open"
    /\ AwaitsAt(5)
    /\ FlagsOf(1) = {"app"} \cup (built \cap {"http"})
    /\ FlagsOf(2) = built \cap {"engine"}
    /\ FlagsOf(3) = built \cap {"reporter", "watch"}
    /\ FlagsOf(4) = {} /\ FlagsOf(5) = {}
BY DEF AwaitsAt, FlagsOf

\* stop() always finds a stage to go on at.
LEMMA NextStage ==
    ASSUME NEW k \in 1..5
    PROVE  /\ NextAwait(k) \in k..5 /\ AwaitsAt(NextAwait(k))
           /\ \A j \in k..NextAwait(k) - 1 : ~AwaitsAt(j)
<1> DEFINE First(n) == AwaitsAt(n) /\ \A j \in k..n - 1 : ~AwaitsAt(j)
<1>1. AwaitsAt(5)
  BY StageFacts
<1>2. \E n \in k..5 : First(n)
  <2>1. CASE \E n \in k..5 : AwaitsAt(n) /\ n = k
    BY <2>1
  <2>2. CASE ~AwaitsAt(k) /\ k + 1 <= 5 /\ AwaitsAt(k + 1)
    BY <2>2
  <2>3. CASE ~AwaitsAt(k) /\ ~AwaitsAt(k + 1) /\ k + 2 <= 5 /\ AwaitsAt(k + 2)
    BY <2>3
  <2>4. CASE ~AwaitsAt(k) /\ ~AwaitsAt(k + 1) /\ ~AwaitsAt(k + 2) /\ k + 3 <= 5 /\ AwaitsAt(k + 3)
    BY <2>4
  <2>5. CASE ~AwaitsAt(k) /\ ~AwaitsAt(k + 1) /\ ~AwaitsAt(k + 2) /\ ~AwaitsAt(k + 3) /\ k + 4 = 5
    BY <1>1, <2>5
  <2> QED
    BY <1>1, <2>1, <2>2, <2>3, <2>4, <2>5
<1>3. NextAwait(k) = CHOOSE n \in k..5 : First(n)
  BY DEF NextAwait
<1> HIDE DEF First
<1>4. NextAwait(k) \in k..5 /\ First(NextAwait(k))
  BY <1>2, <1>3
<1> QED
  BY <1>4 DEF First

\* What it means that the call c of stop() has gone on from stage k.
WentOn(c, k) ==
    /\ stops' \in [Callers -> {"idle", "done"} \cup Awaits]
    /\ \A d \in Callers : d # c => stops'[d] = stops[d]
    /\ stops'[c] \in {"trigger", "drain", "gate", "channel", "done"}
    /\ stopped \subseteq stopped' /\ stopped' \subseteq {"app", "http", "engine", "reporter", "watch"}
    /\ stops'[c] = "trigger" => k = 1 /\ trigger = "serving"
    /\ stops'[c] # "trigger" /\ k = 1 => ~("trigger" \in built /\ trigger = "serving")
    /\ stops'[c] = "drain" => k <= 2 /\ "engine" \in built /\ fire /\ "engine" \in stopped'
    /\ stops'[c] \in {"gate", "channel", "done"} /\ k <= 2 => ~("engine" \in built /\ fire)
    /\ stops'[c] = "gate" =>
          /\ k <= 3 /\ "gate" \in built /\ gate # "none"
          /\ built \cap {"watch"} \subseteq stopped'
          /\ k <= 2 => built \cap {"engine"} \subseteq stopped'
    /\ stops'[c] \in {"channel", "done"} /\ k <= 3 => ~("gate" \in built /\ gate # "none")
    /\ stops'[c] = "channel" => k <= 4 /\ channel = "open" /\ ChannelAfter(k) = "closing"
    /\ stops'[c] # "channel" => ChannelAfter(k) = channel
    /\ stops'[c] = "done" /\ k <= 4 => channel # "open"

LEMMA GoesOn ==
    ASSUME TypeOK, NEW c \in Callers, NEW k \in 1..5, StopFrom(c, k)
    PROVE  WentOn(c, k)
<1> DEFINE n == NextAwait(k)
<1>1. n \in k..5 /\ AwaitsAt(n) /\ \A j \in k..n - 1 : ~AwaitsAt(j)
  BY NextStage
<1>2. /\ stops' = [stops EXCEPT ![c] = Stages[n]]
      /\ stopped' = stopped \cup UNION {FlagsOf(j) : j \in k..n}
      /\ ChannelAfter(k) = IF n = 4 THEN "closing" ELSE channel
  BY DEF StopFrom, ChannelAfter
<1> HIDE DEF n
<1>3. /\ Stages[1] = "trigger" /\ Stages[2] = "drain" /\ Stages[3] = "gate"
      /\ Stages[4] = "channel" /\ Stages[5] = "done"
  BY DEF Stages
<1>4. n \in 1..5 /\ Stages[n] \in {"trigger", "drain", "gate", "channel", "done"}
  BY <1>1, <1>3
<1>5. /\ stops' \in [Callers -> {"idle", "done"} \cup Awaits]
      /\ stops'[c] = Stages[n] /\ \A d \in Callers : d # c => stops'[d] = stops[d]
  BY <1>2, <1>4 DEF TypeOK, Awaits
<1>6. \A j \in k..n : FlagsOf(j) \subseteq stopped'
  BY <1>2
<1>7. stopped \subseteq stopped' /\ stopped' \subseteq {"app", "http", "engine", "reporter", "watch"}
  <2>1. \A j \in 1..5 : FlagsOf(j) \subseteq {"app", "http", "engine", "reporter", "watch"}
    BY StageFacts
  <2>2. k..n \subseteq 1..5
    BY <1>1
  <2> QED
    BY <1>2, <2>1, <2>2 DEF TypeOK
<1>8. CASE n = 1
  BY <1>1, <1>2, <1>3, <1>5, <1>7, <1>8, StageFacts DEF WentOn
<1>9. CASE n = 2
  <2>1. "engine" \in built => "engine" \in stopped'
    BY <1>1, <1>6, <1>9, StageFacts
  <2> QED
    BY <1>1, <1>2, <1>3, <1>5, <1>7, <1>9, <2>1, StageFacts DEF WentOn
<1>10. CASE n = 3
  <2>1. built \cap {"watch"} \subseteq stopped'
    BY <1>1, <1>6, <1>10, StageFacts
  <2>2. k <= 2 => built \cap {"engine"} \subseteq stopped'
    BY <1>1, <1>6, <1>10, StageFacts
  <2> QED
    BY <1>1, <1>2, <1>3, <1>5, <1>7, <1>10, <2>1, <2>2, StageFacts DEF WentOn
<1>11. CASE n = 4
  BY <1>1, <1>2, <1>3, <1>5, <1>7, <1>11, StageFacts DEF WentOn
<1>12. CASE n = 5
  BY <1>1, <1>2, <1>3, <1>5, <1>7, <1>12, StageFacts DEF WentOn
<1> QED
  BY <1>4, <1>8, <1>9, <1>10, <1>11, <1>12

-----------------------------------------------------------------------------
(* The steps of stop() *)

LEMMA CallersFacts ==
    /\ Main \in Callers /\ \A s \in 1..MaxSignals : s \in Callers /\ s # Main
BY BoundsAssumption DEF Main, Callers

LEMMA TriggerStoppedKeeps ==
    ASSUME IInv, NEW c \in Callers, TriggerStopped(c)
    PROVE  IInv'
<1> USE DEF IInv
<1>1. WentOn(c, 2)
  BY GoesOn DEF TriggerStopped
<1>2. TypeOK'
  <2>1. /\ stops' \in [Callers -> {"idle", "done"} \cup Awaits]
        /\ stopped' \subseteq {"app", "http", "engine", "reporter", "watch"}
        /\ ChannelAfter(2) \in {"open", "closing", "closed"}
    BY <1>1 DEF WentOn, TypeOK
  <2> QED
    BY <2>1 DEF TriggerStopped, flight, history, TypeOK
<1>3. BuiltInOrder'
  BY <1>1, CallersFacts DEF TriggerStopped, flight, history, TypeOK, BuiltInOrder, StopsInPlace,
      Starting, Early, WentOn
<1>4. FiresAreCarried'
  BY <1>1, CallersFacts DEF TriggerStopped, flight, history, TypeOK, FiresAreCarried,
      BuiltInOrder, Starting, Early, WentOn
<1>5. StopsInPlace'
  BY <1>1, CallersFacts DEF TriggerStopped, flight, history, TypeOK, StopsInPlace, BuiltInOrder,
      FiresAreCarried, Starting, Early, WentOn
<1>6. StopsAreQuiet'
  BY <1>1, CallersFacts DEF TriggerStopped, flight, history, TypeOK, StopsAreQuiet, ServerQuiet,
      TickQuiet, StopsInPlace, BuiltInOrder, FiresAreCarried, Starting, Early, WentOn
<1>7. MainStops'
  BY <1>1, CallersFacts DEF TriggerStopped, flight, history, TypeOK, MainStops, StopsInPlace,
      BuiltInOrder, FiresAreCarried, Starting, Early, WentOn
<1>8. GateOutlivesFires'
  BY <1>1, CallersFacts DEF TriggerStopped, flight, history, GateOutlivesFires, StopsAreQuiet,
      ServerQuiet, TickQuiet, FiresAreCarried, BuiltInOrder, Starting, Early, WentOn
<1>9. ExitLeavesNothing'
  BY <1>1, CallersFacts DEF TriggerStopped, flight, history, ExitLeavesNothing, MainStops,
      StopsInPlace, FiresAreCarried, BuiltInOrder, Starting, Early, WentOn
<1> QED
  BY <1>2, <1>3, <1>4, <1>5, <1>6, <1>7, <1>8, <1>9

LEMMA DrainedKeeps ==
    ASSUME IInv, NEW c \in Callers, Drained(c)
    PROVE  IInv'
<1> USE DEF IInv
<1>1. WentOn(c, 3)
  BY GoesOn DEF Drained
<1>2. TypeOK'
  BY <1>1, CallersFacts DEF Drained, flight, history, TypeOK, Phases, Awaits, WentOn
<1>3. BuiltInOrder'
  BY <1>1, CallersFacts DEF Drained, flight, history, TypeOK, BuiltInOrder, StopsInPlace,
      Starting, Early, WentOn
<1>4. FiresAreCarried'
  BY <1>1, CallersFacts DEF Drained, flight, history, TypeOK, FiresAreCarried, BuiltInOrder,
      Starting, Early, WentOn
<1>5. StopsInPlace'
  BY <1>1, CallersFacts DEF Drained, flight, history, TypeOK, StopsInPlace, BuiltInOrder,
      FiresAreCarried, Starting, Early, WentOn
<1>6. StopsAreQuiet'
  BY <1>1, CallersFacts DEF Drained, flight, history, TypeOK, StopsAreQuiet, ServerQuiet,
      TickQuiet, StopsInPlace, BuiltInOrder, FiresAreCarried, Starting, Early, WentOn
<1>7. MainStops'
  BY <1>1, CallersFacts DEF Drained, flight, history, TypeOK, MainStops, StopsInPlace,
      BuiltInOrder, FiresAreCarried, Starting, Early, WentOn
<1>8. GateOutlivesFires'
  BY <1>1, CallersFacts DEF Drained, flight, history, GateOutlivesFires, StopsAreQuiet,
      ServerQuiet, TickQuiet, FiresAreCarried, BuiltInOrder, Starting, Early, WentOn
<1>9. ExitLeavesNothing'
  BY <1>1, CallersFacts DEF Drained, flight, history, ExitLeavesNothing, MainStops, StopsInPlace,
      FiresAreCarried, BuiltInOrder, Starting, Early, WentOn
<1> QED
  BY <1>2, <1>3, <1>4, <1>5, <1>6, <1>7, <1>8, <1>9

LEMMA DrainRunsOutKeeps ==
    ASSUME IInv, NEW c \in Callers, DrainRunsOut(c)
    PROVE  IInv'
<1> USE DEF IInv
<1>1. WentOn(c, 3)
  BY GoesOn DEF DrainRunsOut
<1>2. TypeOK'
  BY <1>1, CallersFacts DEF DrainRunsOut, flight, history, TypeOK, Phases, Awaits, WentOn
<1>3. BuiltInOrder'
  BY <1>1, CallersFacts DEF DrainRunsOut, flight, history, TypeOK, BuiltInOrder, StopsInPlace,
      Starting, Early, WentOn
<1>4. FiresAreCarried'
  BY <1>1, CallersFacts DEF DrainRunsOut, flight, history, TypeOK, FiresAreCarried, BuiltInOrder,
      Starting, Early, WentOn
<1>5. StopsInPlace'
  BY <1>1, CallersFacts DEF DrainRunsOut, flight, history, TypeOK, StopsInPlace, BuiltInOrder,
      FiresAreCarried, Starting, Early, WentOn
<1>6. StopsAreQuiet'
  BY <1>1, CallersFacts DEF DrainRunsOut, flight, history, TypeOK, StopsAreQuiet, ServerQuiet,
      TickQuiet, StopsInPlace, BuiltInOrder, FiresAreCarried, Starting, Early, WentOn
<1>7. MainStops'
  BY <1>1, CallersFacts DEF DrainRunsOut, flight, history, TypeOK, MainStops, StopsInPlace,
      BuiltInOrder, FiresAreCarried, Starting, Early, WentOn
<1>8. GateOutlivesFires'
  BY <1>1, CallersFacts DEF DrainRunsOut, flight, history, GateOutlivesFires, StopsAreQuiet,
      ServerQuiet, TickQuiet, FiresAreCarried, BuiltInOrder, Starting, Early, WentOn
<1>9. ExitLeavesNothing'
  BY <1>1, CallersFacts DEF DrainRunsOut, flight, history, ExitLeavesNothing, MainStops,
      StopsInPlace, FiresAreCarried, BuiltInOrder, Starting, Early, WentOn
<1> QED
  BY <1>2, <1>3, <1>4, <1>5, <1>6, <1>7, <1>8, <1>9

LEMMA GateStoppedKeeps ==
    ASSUME IInv, NEW c \in Callers, GateStopped(c)
    PROVE  IInv'
<1> USE DEF IInv
<1>1. WentOn(c, 4)
  BY GoesOn DEF GateStopped
<1>2. TypeOK'
  BY <1>1, CallersFacts DEF GateStopped, flight, history, TypeOK, Phases, Awaits, WentOn
<1>3. BuiltInOrder'
  BY <1>1, CallersFacts DEF GateStopped, flight, history, TypeOK, BuiltInOrder, StopsInPlace,
      Starting, Early, WentOn
<1>4. FiresAreCarried'
  BY <1>1, CallersFacts DEF GateStopped, flight, history, TypeOK, FiresAreCarried, BuiltInOrder,
      Starting, Early, WentOn
<1>5. StopsInPlace'
  BY <1>1, CallersFacts DEF GateStopped, flight, history, TypeOK, StopsInPlace, BuiltInOrder,
      FiresAreCarried, Starting, Early, WentOn
<1>6. StopsAreQuiet'
  BY <1>1, CallersFacts DEF GateStopped, flight, history, TypeOK, StopsAreQuiet, ServerQuiet,
      TickQuiet, StopsInPlace, BuiltInOrder, FiresAreCarried, Starting, Early, WentOn
<1>7. MainStops'
  BY <1>1, CallersFacts DEF GateStopped, flight, history, TypeOK, MainStops, StopsInPlace,
      BuiltInOrder, FiresAreCarried, Starting, Early, WentOn
<1>8. GateOutlivesFires'
  BY <1>1, CallersFacts DEF GateStopped, flight, history, GateOutlivesFires, StopsAreQuiet,
      ServerQuiet, TickQuiet, FiresAreCarried, BuiltInOrder, Starting, Early, WentOn
<1>9. ExitLeavesNothing'
  BY <1>1, CallersFacts DEF GateStopped, flight, history, ExitLeavesNothing, MainStops,
      StopsInPlace, FiresAreCarried, BuiltInOrder, Starting, Early, WentOn
<1> QED
  BY <1>2, <1>3, <1>4, <1>5, <1>6, <1>7, <1>8, <1>9

LEMMA ChannelClosedKeeps ==
    ASSUME IInv, NEW c \in Callers, ChannelClosed(c)
    PROVE  IInv'
<1> USE DEF IInv
<1>1. WentOn(c, 5)
  BY GoesOn DEF ChannelClosed
<1>2. TypeOK'
  BY <1>1, CallersFacts DEF ChannelClosed, flight, history, TypeOK, Phases, Awaits, WentOn
<1>3. BuiltInOrder'
  BY <1>1, CallersFacts DEF ChannelClosed, flight, history, TypeOK, BuiltInOrder, StopsInPlace,
      Starting, Early, WentOn
<1>4. FiresAreCarried'
  BY <1>1, CallersFacts DEF ChannelClosed, flight, history, TypeOK, FiresAreCarried,
      BuiltInOrder, Starting, Early, WentOn
<1>5. StopsInPlace'
  BY <1>1, CallersFacts DEF ChannelClosed, flight, history, TypeOK, StopsInPlace, BuiltInOrder,
      FiresAreCarried, Starting, Early, WentOn
<1>6. StopsAreQuiet'
  BY <1>1, CallersFacts DEF ChannelClosed, flight, history, TypeOK, StopsAreQuiet, ServerQuiet,
      TickQuiet, StopsInPlace, BuiltInOrder, FiresAreCarried, Starting, Early, WentOn
<1>7. MainStops'
  BY <1>1, CallersFacts DEF ChannelClosed, flight, history, TypeOK, MainStops, StopsInPlace,
      BuiltInOrder, FiresAreCarried, Starting, Early, WentOn
<1>8. GateOutlivesFires'
  BY <1>1, CallersFacts DEF ChannelClosed, flight, history, GateOutlivesFires, StopsAreQuiet,
      ServerQuiet, TickQuiet, FiresAreCarried, BuiltInOrder, Starting, Early, WentOn
<1>9. ExitLeavesNothing'
  BY <1>1, CallersFacts DEF ChannelClosed, flight, history, ExitLeavesNothing, MainStops,
      StopsInPlace, FiresAreCarried, BuiltInOrder, Starting, Early, WentOn
<1> QED
  BY <1>2, <1>3, <1>4, <1>5, <1>6, <1>7, <1>8, <1>9

LEMMA SignalKeeps ==
    ASSUME IInv, NEW s \in 1..MaxSignals, Signal(s)
    PROVE  IInv'
<1> USE DEF IInv
<1>1. WentOn(s, 1)
  BY GoesOn, CallersFacts DEF Signal
<1>2. TypeOK'
  BY <1>1, CallersFacts DEF Signal, flight, history, TypeOK, Phases, Awaits, WentOn
<1>3. BuiltInOrder'
  BY <1>1, CallersFacts DEF Signal, flight, history, TypeOK, BuiltInOrder, StopsInPlace,
      Starting, Early, WentOn
<1>4. FiresAreCarried'
  BY <1>1, CallersFacts DEF Signal, flight, history, TypeOK, FiresAreCarried, BuiltInOrder,
      Starting, Early, WentOn
<1>5. StopsInPlace'
  BY <1>1, CallersFacts DEF Signal, flight, history, TypeOK, StopsInPlace, BuiltInOrder,
      FiresAreCarried, Starting, Early, WentOn
<1>6. StopsAreQuiet'
  BY <1>1, CallersFacts DEF Signal, flight, history, TypeOK, StopsAreQuiet, ServerQuiet,
      TickQuiet, StopsInPlace, BuiltInOrder, FiresAreCarried, Starting, Early, WentOn
<1>7. MainStops'
  BY <1>1, CallersFacts DEF Signal, flight, history, TypeOK, MainStops, StopsInPlace,
      BuiltInOrder, FiresAreCarried, Starting, Early, WentOn
<1>8. GateOutlivesFires'
  BY <1>1, CallersFacts DEF Signal, flight, history, GateOutlivesFires, StopsAreQuiet,
      ServerQuiet, TickQuiet, FiresAreCarried, BuiltInOrder, Starting, Early, WentOn
<1>9. ExitLeavesNothing'
  BY <1>1, CallersFacts DEF Signal, flight, history, ExitLeavesNothing, MainStops, StopsInPlace,
      FiresAreCarried, BuiltInOrder, Starting, Early, WentOn
<1> QED
  BY <1>2, <1>3, <1>4, <1>5, <1>6, <1>7, <1>8, <1>9

-----------------------------------------------------------------------------
(* The steps of run_from_settings *)

\* It calls stop() itself when start() has failed or run() has returned.
OwnStop ==
    /\ main \in {"ping", "negotiate", "bind", "run"} /\ tasks = {}
    /\ StartFails
    /\ UNCHANGED <<config, built, tasks, watcher, synced, trigger, gate, flight, history>>

LEMMA OwnStopKeeps ==
    ASSUME IInv, OwnStop
    PROVE  IInv'
<1> USE DEF IInv
<1>1. WentOn(Main, 1)
  BY GoesOn, CallersFacts DEF OwnStop, StartFails
<1>2. TypeOK'
  BY <1>1, CallersFacts DEF OwnStop, StartFails, flight, history, TypeOK, Phases, Awaits, WentOn
<1>3. BuiltInOrder'
  BY <1>1, CallersFacts DEF OwnStop, StartFails, flight, history, TypeOK, BuiltInOrder,
      StopsInPlace, Starting, Early, WentOn
<1>4. FiresAreCarried'
  BY <1>1, CallersFacts DEF OwnStop, StartFails, flight, history, TypeOK, FiresAreCarried,
      BuiltInOrder, Starting, Early, WentOn
<1>5. StopsInPlace'
  BY <1>1, CallersFacts DEF OwnStop, StartFails, flight, history, TypeOK, StopsInPlace,
      BuiltInOrder, FiresAreCarried, Starting, Early, WentOn
<1>6. StopsAreQuiet'
  BY <1>1, CallersFacts DEF OwnStop, StartFails, flight, history, TypeOK, StopsAreQuiet,
      ServerQuiet, TickQuiet, StopsInPlace, BuiltInOrder, FiresAreCarried, Starting, Early,
      WentOn
<1>7. MainStops'
  BY <1>1, CallersFacts DEF OwnStop, StartFails, flight, history, TypeOK, MainStops,
      StopsInPlace, BuiltInOrder, FiresAreCarried, Starting, Early, WentOn
<1>8. GateOutlivesFires'
  BY <1>1, CallersFacts DEF OwnStop, StartFails, flight, history, GateOutlivesFires,
      StopsAreQuiet, ServerQuiet, TickQuiet, FiresAreCarried, BuiltInOrder, Starting, Early,
      WentOn
<1>9. ExitLeavesNothing'
  BY <1>1, CallersFacts DEF OwnStop, StartFails, flight, history, ExitLeavesNothing, MainStops,
      StopsInPlace, FiresAreCarried, BuiltInOrder, Starting, Early, WentOn
<1> QED
  BY <1>2, <1>3, <1>4, <1>5, <1>6, <1>7, <1>8, <1>9

LEMMA OwnStops ==
    ASSUME IInv, PingFails \/ NegotiationFails \/ BindFails \/ RunReturns
                 \/ (PingAnswered /\ channel # "open")
    PROVE  OwnStop
BY DEF IInv, BuiltInOrder, Starting, Early, OwnStop, StartFails,
       PingFails, NegotiationFails, BindFails, RunReturns, PingAnswered

LEMMA PingAnsweredKeeps ==
    ASSUME IInv, PingAnswered, channel = "open"
    PROVE  IInv'
<1> USE DEF IInv
<1>1. TypeOK'
  BY CallersFacts DEF PingAnswered, flight, history, TypeOK, Phases, Awaits
<1>2. BuiltInOrder' /\ FiresAreCarried'
  BY CallersFacts DEF PingAnswered, flight, history, TypeOK, BuiltInOrder, StopsInPlace,
      Starting, Early, FiresAreCarried
<1>3. StopsInPlace' /\ StopsAreQuiet'
  BY CallersFacts DEF PingAnswered, flight, history, TypeOK, StopsInPlace, BuiltInOrder,
      FiresAreCarried, Starting, Early, StopsAreQuiet, ServerQuiet, TickQuiet
<1>4. MainStops' /\ GateOutlivesFires' /\ ExitLeavesNothing'
  BY CallersFacts DEF PingAnswered, flight, history, TypeOK, MainStops, StopsInPlace,
      BuiltInOrder, FiresAreCarried, Starting, Early, GateOutlivesFires, StopsAreQuiet,
      ServerQuiet, TickQuiet, ExitLeavesNothing
<1> QED
  BY <1>1, <1>2, <1>3, <1>4

LEMMA StartCancelledKeeps ==
    ASSUME IInv, StartCancelled
    PROVE  IInv'
<1> USE DEF IInv
<1>1. TypeOK'
  BY CallersFacts DEF StartCancelled, sub, flight, history, TypeOK, Phases, Awaits
<1>2. BuiltInOrder' /\ FiresAreCarried'
  BY CallersFacts DEF StartCancelled, sub, flight, history, TypeOK, BuiltInOrder, StopsInPlace,
      Starting, Early, FiresAreCarried
<1>3. StopsInPlace' /\ StopsAreQuiet'
  BY CallersFacts DEF StartCancelled, sub, flight, history, TypeOK, StopsInPlace, BuiltInOrder,
      FiresAreCarried, Starting, Early, StopsAreQuiet, ServerQuiet, TickQuiet
<1>4. MainStops' /\ GateOutlivesFires' /\ ExitLeavesNothing'
  BY CallersFacts DEF StartCancelled, sub, flight, history, TypeOK, MainStops, StopsInPlace,
      BuiltInOrder, FiresAreCarried, Starting, Early, GateOutlivesFires, StopsAreQuiet,
      ServerQuiet, TickQuiet, ExitLeavesNothing
<1> QED
  BY <1>1, <1>2, <1>3, <1>4

LEMMA NegotiatedKeeps ==
    ASSUME IInv, Negotiated
    PROVE  IInv'
<1> USE DEF IInv
<1>1. TypeOK'
  <2>1. /\ main' \in Phases /\ gate' \in {"none", "on", "released"}
        /\ watcher' \in {"none", "wait", "drain"}
    BY DEF Negotiated, EnterRun, TypeOK, Phases
  <2>2. Parts \subseteq {"reporter", "gate", "watch", "engine"}
    BY DEF Parts
  <2>3. /\ built' \subseteq {"reporter", "gate", "watch", "engine", "trigger", "http"}
        /\ tasks' \subseteq {"watch", "tick", "reporter", "http", "watcher"}
    BY <2>2 DEF Negotiated, EnterRun, TypeOK
  <2> QED
    BY <2>1, <2>3 DEF Negotiated, flight, history, TypeOK
<1>2. BuiltInOrder' /\ FiresAreCarried'
  BY CallersFacts DEF Negotiated, flight, history, EnterRun, Parts, Configs, TypeOK,
      BuiltInOrder, StopsInPlace, Starting, Early, FiresAreCarried
<1>3. StopsInPlace' /\ StopsAreQuiet'
  BY CallersFacts DEF Negotiated, flight, history, EnterRun, Parts, Configs, TypeOK,
      StopsInPlace, BuiltInOrder, FiresAreCarried, Starting, Early, StopsAreQuiet, ServerQuiet,
      TickQuiet
<1>4. MainStops' /\ GateOutlivesFires' /\ ExitLeavesNothing'
  BY CallersFacts DEF Negotiated, flight, history, EnterRun, Parts, Configs, TypeOK, MainStops,
      StopsInPlace, BuiltInOrder, FiresAreCarried, Starting, Early, GateOutlivesFires,
      StopsAreQuiet, ServerQuiet, TickQuiet, ExitLeavesNothing
<1> QED
  BY <1>1, <1>2, <1>3, <1>4

LEMMA BoundKeeps ==
    ASSUME IInv, Bound
    PROVE  IInv'
<1> USE DEF IInv
<1>1. TypeOK'
  BY CallersFacts DEF Bound, flight, history, EnterRun, TypeOK, Phases, Awaits
<1>2. BuiltInOrder' /\ FiresAreCarried'
  BY CallersFacts DEF Bound, flight, history, EnterRun, TypeOK, BuiltInOrder, StopsInPlace,
      Starting, Early, FiresAreCarried
<1>3. StopsInPlace' /\ StopsAreQuiet'
  BY CallersFacts DEF Bound, flight, history, EnterRun, TypeOK, StopsInPlace, BuiltInOrder,
      FiresAreCarried, Starting, Early, StopsAreQuiet, ServerQuiet, TickQuiet
<1>4. MainStops' /\ GateOutlivesFires' /\ ExitLeavesNothing'
  BY CallersFacts DEF Bound, flight, history, EnterRun, TypeOK, MainStops, StopsInPlace,
      BuiltInOrder, FiresAreCarried, Starting, Early, GateOutlivesFires, StopsAreQuiet,
      ServerQuiet, TickQuiet, ExitLeavesNothing
<1> QED
  BY <1>1, <1>2, <1>3, <1>4

LEMMA ExitKeeps ==
    ASSUME IInv, Exit
    PROVE  IInv'
<1> USE DEF IInv
<1>1. TypeOK'
  BY CallersFacts DEF Exit, sub, flight, history, TypeOK, Phases, Awaits
<1>2. BuiltInOrder' /\ FiresAreCarried'
  BY CallersFacts DEF Exit, sub, flight, history, TypeOK, BuiltInOrder, StopsInPlace, Starting,
      Early, FiresAreCarried
<1>3. StopsInPlace' /\ StopsAreQuiet'
  BY CallersFacts DEF Exit, sub, flight, history, TypeOK, StopsInPlace, BuiltInOrder,
      FiresAreCarried, Starting, Early, StopsAreQuiet, ServerQuiet, TickQuiet
<1>4. MainStops' /\ GateOutlivesFires' /\ ExitLeavesNothing'
  BY CallersFacts DEF Exit, sub, flight, history, TypeOK, MainStops, StopsInPlace, BuiltInOrder,
      FiresAreCarried, Starting, Early, GateOutlivesFires, StopsAreQuiet, ServerQuiet, TickQuiet,
      ExitLeavesNothing
<1> QED
  BY <1>1, <1>2, <1>3, <1>4

-----------------------------------------------------------------------------
(* The steps of the group of run() and of the fires *)

LEMMA FirstSyncKeeps ==
    ASSUME IInv, FirstSync
    PROVE  IInv'
<1> USE DEF IInv
<1>1. TypeOK'
  BY DEF FirstSync, flight, history, TypeOK, Phases, Awaits
<1>2. BuiltInOrder' /\ FiresAreCarried'
  BY DEF FirstSync, flight, history, TypeOK, BuiltInOrder, StopsInPlace, Starting, Early,
      FiresAreCarried
<1>3. StopsInPlace' /\ StopsAreQuiet'
  BY DEF FirstSync, flight, history, TypeOK, StopsInPlace, BuiltInOrder, FiresAreCarried,
      Starting, Early, StopsAreQuiet, ServerQuiet, TickQuiet
<1>4. MainStops' /\ GateOutlivesFires' /\ ExitLeavesNothing'
  BY DEF FirstSync, flight, history, TypeOK, MainStops, StopsInPlace, BuiltInOrder,
      FiresAreCarried, Starting, Early, GateOutlivesFires, StopsAreQuiet, ServerQuiet, TickQuiet,
      ExitLeavesNothing
<1> QED
  BY <1>1, <1>2, <1>3, <1>4

LEMMA FireStartsKeeps ==
    ASSUME IInv, FireStarts
    PROVE  IInv'
<1> USE DEF IInv
<1>1. TypeOK'
  <2>1. fire' \in BOOLEAN
    BY DEF FireStarts
  <2>2. fires' \in 0..MaxFires
    BY BoundsAssumption DEF FireStarts, TypeOK
  <2> QED
    BY <2>1, <2>2 DEF FireStarts, sub, history, TypeOK
<1>2. BuiltInOrder' /\ FiresAreCarried'
  BY DEF FireStarts, AdmitsFires, sub, history, TypeOK, BuiltInOrder, StopsInPlace, Starting,
      Early, FiresAreCarried
<1>3. StopsInPlace' /\ StopsAreQuiet'
  BY DEF FireStarts, AdmitsFires, sub, history, TypeOK, StopsInPlace, BuiltInOrder,
      FiresAreCarried, Starting, Early, StopsAreQuiet, ServerQuiet, TickQuiet
<1>4. MainStops' /\ GateOutlivesFires' /\ ExitLeavesNothing'
  BY DEF FireStarts, AdmitsFires, sub, history, TypeOK, MainStops, StopsInPlace, BuiltInOrder,
      FiresAreCarried, Starting, Early, GateOutlivesFires, StopsAreQuiet, ServerQuiet, TickQuiet,
      ExitLeavesNothing
<1> QED
  BY <1>1, <1>2, <1>3, <1>4

LEMMA FireEndsKeeps ==
    ASSUME IInv, FireEnds
    PROVE  IInv'
<1> USE DEF IInv
<1>1. TypeOK'
  BY DEF FireEnds, sub, history, TypeOK
<1>2. BuiltInOrder' /\ FiresAreCarried'
  BY DEF FireEnds, sub, history, TypeOK, BuiltInOrder, StopsInPlace, Starting, Early,
      FiresAreCarried
<1>3. StopsInPlace' /\ StopsAreQuiet'
  BY DEF FireEnds, sub, history, TypeOK, StopsInPlace, BuiltInOrder, FiresAreCarried, Starting,
      Early, StopsAreQuiet, ServerQuiet, TickQuiet
<1>4. MainStops' /\ GateOutlivesFires' /\ ExitLeavesNothing'
  BY DEF FireEnds, sub, history, TypeOK, MainStops, StopsInPlace, BuiltInOrder, FiresAreCarried,
      Starting, Early, GateOutlivesFires, StopsAreQuiet, ServerQuiet, TickQuiet,
      ExitLeavesNothing
<1> QED
  BY <1>1, <1>2, <1>3, <1>4

LEMMA FireCancelledKeeps ==
    ASSUME IInv, FireCancelled
    PROVE  IInv'
<1> USE DEF IInv
<1>1. TypeOK'
  BY DEF FireCancelled, sub, history, TypeOK
<1>2. BuiltInOrder' /\ FiresAreCarried'
  BY DEF FireCancelled, sub, history, TypeOK, BuiltInOrder, StopsInPlace, Starting, Early,
      FiresAreCarried
<1>3. StopsInPlace' /\ StopsAreQuiet'
  BY DEF FireCancelled, sub, history, TypeOK, StopsInPlace, BuiltInOrder, FiresAreCarried,
      Starting, Early, StopsAreQuiet, ServerQuiet, TickQuiet
<1>4. MainStops' /\ GateOutlivesFires' /\ ExitLeavesNothing'
  BY DEF FireCancelled, sub, history, TypeOK, MainStops, StopsInPlace, BuiltInOrder,
      FiresAreCarried, Starting, Early, GateOutlivesFires, StopsAreQuiet, ServerQuiet, TickQuiet,
      ExitLeavesNothing
<1> QED
  BY <1>1, <1>2, <1>3, <1>4

LEMMA TickStopsKeeps ==
    ASSUME IInv, TickStops
    PROVE  IInv'
<1> USE DEF IInv
<1>1. TypeOK'
  BY DEF TickStops, sub, flight, history, TypeOK
<1>2. BuiltInOrder' /\ FiresAreCarried'
  BY DEF TickStops, sub, flight, history, TypeOK, BuiltInOrder, StopsInPlace, Starting, Early,
      FiresAreCarried
<1>3. StopsInPlace' /\ StopsAreQuiet'
  BY DEF TickStops, sub, flight, history, TypeOK, StopsInPlace, BuiltInOrder, FiresAreCarried,
      Starting, Early, StopsAreQuiet, ServerQuiet, TickQuiet
<1>4. MainStops' /\ GateOutlivesFires' /\ ExitLeavesNothing'
  BY DEF TickStops, sub, flight, history, TypeOK, MainStops, StopsInPlace, BuiltInOrder,
      FiresAreCarried, Starting, Early, GateOutlivesFires, StopsAreQuiet, ServerQuiet, TickQuiet,
      ExitLeavesNothing
<1> QED
  BY <1>1, <1>2, <1>3, <1>4

LEMMA TickGivesUpKeeps ==
    ASSUME IInv, TickGivesUp
    PROVE  IInv'
<1> USE DEF IInv
<1>1. TypeOK'
  BY DEF TickGivesUp, AdmitsFires, sub, flight, history, TypeOK
<1>2. BuiltInOrder' /\ FiresAreCarried'
  BY DEF TickGivesUp, AdmitsFires, sub, flight, history, TypeOK, BuiltInOrder, StopsInPlace,
      Starting, Early, FiresAreCarried
<1>3. StopsInPlace' /\ StopsAreQuiet'
  BY DEF TickGivesUp, AdmitsFires, sub, flight, history, TypeOK, StopsInPlace, BuiltInOrder,
      FiresAreCarried, Starting, Early, StopsAreQuiet, ServerQuiet, TickQuiet
<1>4. MainStops' /\ GateOutlivesFires' /\ ExitLeavesNothing'
  BY DEF TickGivesUp, AdmitsFires, sub, flight, history, TypeOK, MainStops, StopsInPlace,
      BuiltInOrder, FiresAreCarried, Starting, Early, GateOutlivesFires, StopsAreQuiet,
      ServerQuiet, TickQuiet, ExitLeavesNothing
<1> QED
  BY <1>1, <1>2, <1>3, <1>4

LEMMA ChildStopsKeeps ==
    ASSUME IInv, NEW t \in {"watch", "reporter", "http"}, ChildStops(t)
    PROVE  IInv'
<1> USE DEF IInv
<1>1. TypeOK'
  BY DEF ChildStops, sub, flight, history, TypeOK
<1>2. BuiltInOrder' /\ FiresAreCarried'
  BY DEF ChildStops, sub, flight, history, TypeOK, BuiltInOrder, StopsInPlace, Starting, Early,
      FiresAreCarried
<1>3. StopsInPlace' /\ StopsAreQuiet'
  BY DEF ChildStops, sub, flight, history, TypeOK, StopsInPlace, BuiltInOrder, FiresAreCarried,
      Starting, Early, StopsAreQuiet, ServerQuiet, TickQuiet
<1>4. MainStops' /\ GateOutlivesFires' /\ ExitLeavesNothing'
  BY DEF ChildStops, sub, flight, history, TypeOK, MainStops, StopsInPlace, BuiltInOrder,
      FiresAreCarried, Starting, Early, GateOutlivesFires, StopsAreQuiet, ServerQuiet, TickQuiet,
      ExitLeavesNothing
<1> QED
  BY <1>1, <1>2, <1>3, <1>4

LEMMA WatcherWakesKeeps ==
    ASSUME IInv, WatcherWakes
    PROVE  IInv'
<1> USE DEF IInv
<1>1. TypeOK'
  <2>1. CASE fire
    BY <2>1 DEF WatcherWakes, sub, flight, history, TypeOK
  <2>2. CASE ~fire
    BY <2>2 DEF WatcherWakes, WatcherEnds, sub, flight, history, TypeOK
  <2> QED
    BY <2>1, <2>2
<1>2. BuiltInOrder' /\ FiresAreCarried'
  BY DEF WatcherWakes, WatcherEnds, sub, flight, history, TypeOK, BuiltInOrder, StopsInPlace,
      Starting, Early, FiresAreCarried
<1>3. StopsInPlace' /\ StopsAreQuiet'
  BY DEF WatcherWakes, WatcherEnds, sub, flight, history, TypeOK, StopsInPlace, BuiltInOrder,
      FiresAreCarried, Starting, Early, StopsAreQuiet, ServerQuiet, TickQuiet
<1>4. MainStops' /\ GateOutlivesFires' /\ ExitLeavesNothing'
  BY DEF WatcherWakes, WatcherEnds, sub, flight, history, TypeOK, MainStops, StopsInPlace,
      BuiltInOrder, FiresAreCarried, Starting, Early, GateOutlivesFires, StopsAreQuiet,
      ServerQuiet, TickQuiet, ExitLeavesNothing
<1> QED
  BY <1>1, <1>2, <1>3, <1>4

LEMMA WatcherDrainedKeeps ==
    ASSUME IInv, WatcherDrained
    PROVE  IInv'
<1> USE DEF IInv
<1>1. TypeOK'
  BY DEF WatcherDrained, WatcherEnds, sub, flight, history, TypeOK
<1>2. BuiltInOrder' /\ FiresAreCarried'
  BY DEF WatcherDrained, WatcherEnds, sub, flight, history, TypeOK, BuiltInOrder, StopsInPlace,
      Starting, Early, FiresAreCarried
<1>3. StopsInPlace' /\ StopsAreQuiet'
  BY DEF WatcherDrained, WatcherEnds, sub, flight, history, TypeOK, StopsInPlace, BuiltInOrder,
      FiresAreCarried, Starting, Early, StopsAreQuiet, ServerQuiet, TickQuiet
<1>4. MainStops' /\ GateOutlivesFires' /\ ExitLeavesNothing'
  BY DEF WatcherDrained, WatcherEnds, sub, flight, history, TypeOK, MainStops, StopsInPlace,
      BuiltInOrder, FiresAreCarried, Starting, Early, GateOutlivesFires, StopsAreQuiet,
      ServerQuiet, TickQuiet, ExitLeavesNothing
<1> QED
  BY <1>1, <1>2, <1>3, <1>4

LEMMA WatcherRunsOutKeeps ==
    ASSUME IInv, WatcherRunsOut
    PROVE  IInv'
<1> USE DEF IInv
<1>1. TypeOK'
  BY DEF WatcherRunsOut, WatcherEnds, sub, flight, TypeOK
<1>2. BuiltInOrder' /\ FiresAreCarried'
  BY DEF WatcherRunsOut, WatcherEnds, sub, flight, TypeOK, BuiltInOrder, StopsInPlace, Starting,
      Early, FiresAreCarried
<1>3. StopsInPlace' /\ StopsAreQuiet'
  BY DEF WatcherRunsOut, WatcherEnds, sub, flight, TypeOK, StopsInPlace, BuiltInOrder,
      FiresAreCarried, Starting, Early, StopsAreQuiet, ServerQuiet, TickQuiet
<1>4. MainStops' /\ GateOutlivesFires' /\ ExitLeavesNothing'
  BY DEF WatcherRunsOut, WatcherEnds, sub, flight, TypeOK, MainStops, StopsInPlace, BuiltInOrder,
      FiresAreCarried, Starting, Early, GateOutlivesFires, StopsAreQuiet, ServerQuiet, TickQuiet,
      ExitLeavesNothing
<1> QED
  BY <1>1, <1>2, <1>3, <1>4

LEMMA ManualStartsKeeps ==
    ASSUME IInv, ManualStarts
    PROVE  IInv'
<1> USE DEF IInv
<1>1. TypeOK'
  BY DEF ManualStarts, sub, history, TypeOK, Phases, Awaits
<1>2. BuiltInOrder' /\ FiresAreCarried'
  BY DEF ManualStarts, sub, history, TypeOK, BuiltInOrder, StopsInPlace, Starting, Early,
      FiresAreCarried
<1>3. StopsInPlace' /\ StopsAreQuiet'
  BY DEF ManualStarts, sub, history, TypeOK, StopsInPlace, BuiltInOrder, FiresAreCarried,
      Starting, Early, StopsAreQuiet, ServerQuiet, TickQuiet
<1>4. MainStops' /\ GateOutlivesFires' /\ ExitLeavesNothing'
  BY DEF ManualStarts, sub, history, TypeOK, MainStops, StopsInPlace, BuiltInOrder,
      FiresAreCarried, Starting, Early, GateOutlivesFires, StopsAreQuiet, ServerQuiet, TickQuiet,
      ExitLeavesNothing
<1> QED
  BY <1>1, <1>2, <1>3, <1>4

LEMMA ManualEndsKeeps ==
    ASSUME IInv, ManualEnds
    PROVE  IInv'
<1> USE DEF IInv
<1>1. TypeOK'
  <2>1. manual' \in BOOLEAN
    BY DEF ManualEnds
  <2> QED
    BY <2>1 DEF ManualEnds, sub, history, TypeOK
<1>2. BuiltInOrder' /\ FiresAreCarried'
  BY DEF ManualEnds, sub, history, TypeOK, BuiltInOrder, StopsInPlace, Starting, Early,
      FiresAreCarried
<1>3. StopsInPlace' /\ StopsAreQuiet'
  BY DEF ManualEnds, sub, history, TypeOK, StopsInPlace, BuiltInOrder, FiresAreCarried, Starting,
      Early, StopsAreQuiet, ServerQuiet, TickQuiet
<1>4. MainStops' /\ GateOutlivesFires' /\ ExitLeavesNothing'
  BY DEF ManualEnds, sub, history, TypeOK, MainStops, StopsInPlace, BuiltInOrder,
      FiresAreCarried, Starting, Early, GateOutlivesFires, StopsAreQuiet, ServerQuiet, TickQuiet,
      ExitLeavesNothing
<1> QED
  BY <1>1, <1>2, <1>3, <1>4

LEMMA IdleKeeps ==
    ASSUME IInv, UNCHANGED vars
    PROVE  IInv'
<1> USE DEF IInv
<1>1. TypeOK'
  BY DEF vars, sub, flight, history, TypeOK, Phases, Awaits
<1>2. BuiltInOrder' /\ FiresAreCarried'
  BY DEF vars, sub, flight, history, TypeOK, BuiltInOrder, StopsInPlace, Starting, Early,
      FiresAreCarried
<1>3. StopsInPlace' /\ StopsAreQuiet'
  BY DEF vars, sub, flight, history, TypeOK, StopsInPlace, BuiltInOrder, FiresAreCarried,
      Starting, Early, StopsAreQuiet, ServerQuiet, TickQuiet
<1>4. MainStops' /\ GateOutlivesFires' /\ ExitLeavesNothing'
  BY DEF vars, sub, flight, history, TypeOK, MainStops, StopsInPlace, BuiltInOrder,
      FiresAreCarried, Starting, Early, GateOutlivesFires, StopsAreQuiet, ServerQuiet, TickQuiet,
      ExitLeavesNothing
<1> QED
  BY <1>1, <1>2, <1>3, <1>4

-----------------------------------------------------------------------------
(* The theorems *)

LEMMA InitHolds == Init => IInv
<1> SUFFICES ASSUME Init PROVE IInv
  OBVIOUS
<1>1. TypeOK
  <2>1. /\ synced \in BOOLEAN /\ fire \in BOOLEAN /\ manual \in BOOLEAN /\ abandoned \in BOOLEAN
    BY DEF Init
  <2>2. /\ stops \in [Callers -> {"idle", "done"} \cup Awaits]
        /\ asked \in [1..MaxSignals -> Phases \cup {"none"}]
    BY DEF Init
  <2>3. fires \in 0..MaxFires /\ main \in Phases
    BY BoundsAssumption DEF Init, Phases
  <2> QED
    BY <2>1, <2>2, <2>3 DEF Init, TypeOK
<1>2. BuiltInOrder /\ FiresAreCarried /\ GateOutlivesFires /\ ExitLeavesNothing
  BY DEF Init, BuiltInOrder, Starting, Early, FiresAreCarried, GateOutlivesFires, ExitLeavesNothing
<1>3. StopsInPlace /\ StopsAreQuiet /\ MainStops
  BY CallersFacts DEF Init, StopsInPlace, StopsAreQuiet, ServerQuiet, TickQuiet, MainStops
<1> QED
  BY <1>1, <1>2, <1>3 DEF IInv

LEMMA MainStepKeeps == IInv /\ MainStep => IInv'
<1> SUFFICES ASSUME IInv, MainStep PROVE IInv'
  OBVIOUS
<1>1. CASE PingAnswered
  BY <1>1, PingAnsweredKeeps, OwnStops, OwnStopKeeps
<1>2. CASE PingFails \/ NegotiationFails \/ BindFails \/ RunReturns
  BY <1>2, OwnStops, OwnStopKeeps
<1>3. CASE StartCancelled
  BY <1>3, StartCancelledKeeps
<1>4. CASE Negotiated
  BY <1>4, NegotiatedKeeps
<1>5. CASE Bound
  BY <1>5, BoundKeeps
<1>6. CASE Exit
  BY <1>6, ExitKeeps
<1> QED
  BY <1>1, <1>2, <1>3, <1>4, <1>5, <1>6 DEF MainStep

LEMMA NextKeeps == IInv /\ [Next]_vars => IInv'
<1> SUFFICES ASSUME IInv, [Next]_vars PROVE IInv'
  OBVIOUS
<1>1. CASE MainStep
  BY <1>1, MainStepKeeps
<1>2. CASE \E s \in 1..MaxSignals : Signal(s)
  BY <1>2, SignalKeeps
<1>3. CASE \E c \in Callers : StopStep(c)
  BY <1>3, TriggerStoppedKeeps, DrainedKeeps, DrainRunsOutKeeps, GateStoppedKeeps,
     ChannelClosedKeeps DEF StopStep
<1>4. CASE TaskEnds
  BY <1>4, TickStopsKeeps, ChildStopsKeeps DEF TaskEnds
<1>5. CASE WatcherStep
  BY <1>5, WatcherWakesKeeps, WatcherDrainedKeeps, WatcherRunsOutKeeps DEF WatcherStep
<1>6. CASE FlightEnds
  BY <1>6, FireEndsKeeps, FireCancelledKeeps, ManualEndsKeeps DEF FlightEnds
<1>7. CASE FirstSync \/ FireStarts \/ ManualStarts \/ TickGivesUp
  BY <1>7, FirstSyncKeeps, FireStartsKeeps, ManualStartsKeeps, TickGivesUpKeeps
<1>8. CASE UNCHANGED vars
  BY <1>8, IdleKeeps
<1> QED
  BY <1>1, <1>2, <1>3, <1>4, <1>5, <1>6, <1>7, <1>8 DEF Next

\* The invariant above holds of every life of the process: what is stored and
\* who carries a fire, where each stop() may wait, and what is quiet behind it.
THEOREM LifecycleInvariant == Spec => []IInv
<1>1. Init => IInv
  BY InitHolds
<1>2. IInv /\ [Next]_vars => IInv'
  BY NextKeeps
<1> QED
  BY <1>1, <1>2, PTL DEF Spec

\* stop() and the shutdown watcher release the gate, which keeps the other
\* replicas out, after the fires in flight, or a drain has given one up: with
\* any number of signals, whatever fails or ends meanwhile.
THEOREM GateReleasedLast == Spec => []GateOutlivesFires
<1>1. IInv => GateOutlivesFires
  BY DEF IInv
<1> QED
  BY <1>1, LifecycleInvariant, PTL

\* A process that has exited, after a failed start, a signal at any moment or a
\* tick loop that gave up, has left no task, no fire, no lock, no server and no
\* open channel behind.
THEOREM NothingIsLeft == Spec => []ExitLeavesNothing
<1>1. IInv => ExitLeavesNothing
  BY DEF IInv
<1> QED
  BY <1>1, LifecycleInvariant, PTL

=============================================================================
