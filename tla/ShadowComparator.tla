--------------------------- MODULE ShadowComparator ---------------------------
(***************************************************************************)
(* verify/shadow_comparator.py: before a scheduler is replaced, the fires  *)
(* that the old one's and the new one's schedules would emit in a window   *)
(* are predicted and compared.  The new one's schedule is the definition   *)
(* that Cadence's engine will run; the old one's is the same up to what a  *)
(* migration may get wrong.  Fires are keyed by schedule name and time, so *)
(* schedules of different names never meet: one name is enough.            *)
(***************************************************************************)
EXTENDS Cadence

CONSTANT WindowEnds     \* bound: where a window may end

ASSUME WindowAssumption == WindowEnds \subseteq 0..Horizon

VARIABLE report     \* the set of reports: none before the comparison, then one

Payloads == {"kept", "dropped"}     \* task, args, kwargs and queue

(* the schedule an old scheduler had, if the new one's is def: another     *)
(* timezone, a field mistranslated, something lost, disabled or forgotten  *)
OldSchedules ==
    {[enabled |-> TRUE, def |-> def, payload |-> p] : p \in Payloads} \cup
    {[enabled |-> FALSE, def |-> def, payload |-> "kept"]} \cup
    {[enabled |-> TRUE, def |-> d, payload |-> "kept"] : d \in
        CASE def.kind = "cron" ->
                {c \in {[def EXCEPT !.zone = z] : z \in Zones} \cup
                       {[def EXCEPT !.local = def.local \cup {w}] : w \in LocalTimes} \cup
                       {[def EXCEPT !.local = def.local \ {w}] : w \in LocalTimes} : c \in CronDefs}
          [] def.kind = "interval" -> IntervalDefs
          [] def.kind = "one_shot" -> OneShotDefs
          [] def.kind = "solar" ->
                {e \in {[def EXCEPT !.event[n] = t] : n \in Days, t \in {None} \cup Instants} :
                    e \in SolarDefs}}

Target == [enabled |-> TRUE, def |-> def, payload |-> "kept"]

-----------------------------------------------------------------------------
(* predict_fires from start to end, the times only *)

(* get_next until the first fire past the end.  Both have the schedule's   *)
(* tzinfo, so Python compares their local times.                           *)
PredictCron(d, start, end) ==
    LET fires == Ahead(d, start)
        isPast(t) == Local(d.zone, t) > Local(d.zone, end)
    IN  {t \in fires : \A u \in fires : u <= t => ~isPast(u)}

(* evenly spaced from the start, which is the first *)
PredictInterval(d, start, end) ==
    {start + k * d.step : k \in 0..KMax(d.step, start, end)}

PredictOneShot(d, start, end) == {d.at} \cap start..end

(* next_solar_fire again and again *)
PredictSolar(d, start, end) ==
    LET cursor == SolarWalk(d, start, end, Cardinality(Days))
    IN  {cursor[n] : n \in 1..Cardinality(Days)} \ {None}

PredictFires(s, start, end) ==
    [payload : {s.payload}, time :
        IF ~s.enabled THEN {}
        ELSE CASE s.def.kind = "cron" -> PredictCron(s.def, start, end)
               [] s.def.kind = "interval" -> PredictInterval(s.def, start, end)
               [] s.def.kind = "one_shot" -> PredictOneShot(s.def, start, end)
               [] s.def.kind = "solar" -> PredictSolar(s.def, start, end)]

\* Mutant: a fire that only the new scheduler would emit is not reported.
DivergencesOfSource(source, target) ==
    LET atTime(fires, t) == {f \in fires : f.time = t} IN
        [kind : {"only_source"}, time : {f.time : f \in {g \in source : atTime(target, g.time) = {}}}] \cup
        [kind : {"args_diverge"},
         time : {f.time : f \in {g \in source : \E h \in atTime(target, g.time) : g.payload # h.payload}}]

(* compare_predicted_fires *)
Divergences(source, target) ==
    LET atTime(fires, t) == {f \in fires : f.time = t} IN
        [kind : {"only_source"}, time : {f.time : f \in {g \in source : atTime(target, g.time) = {}}}] \cup
        [kind : {"only_target"}, time : {f.time : f \in {g \in target : atTime(source, g.time) = {}}}] \cup
        [kind : {"args_diverge"},
         time : {f.time : f \in {g \in source : \E h \in atTime(target, g.time) : g.payload # h.payload}}]

(* The operator verifies before the flip, for a window from now.  Nothing  *)
(* of the engine's depends on the report, so a state that has one is not   *)
(* followed further.                                                       *)
Verify(source, end) ==
    /\ last = None /\ report = {}
    /\ end >= now
    /\ report' = {[ok |-> Divergences(PredictFires(source, now, end),
                                      PredictFires(Target, now, end)) = {},
                   source |-> source, target |-> Target, end |-> end]}
    /\ UNCHANGED cadence

ShadowInit == CadenceInit /\ report = {}

ShadowNext ==
    \/ report = {} /\ CadenceNext /\ UNCHANGED report
    \/ \E source \in OldSchedules, end \in WindowEnds : Verify(source, end)

ShadowSpec == ShadowInit /\ [][ShadowNext]_<<cadence, report>>

-----------------------------------------------------------------------------
(* What a schedule's definition makes it fire after now, up to end *)
Fires(s, end) ==
    [payload : {s.payload},
     time : IF s.enabled THEN {t \in Matching(s.def, anchor) : now < t /\ t <= end} ELSE {}]

(* an end that a zone's clock shows twice *)
Repeated(d, end) ==
    d.kind = "cron" /\ \E t \in end - Shift..end + Shift :
                          t # end /\ Local(d.zone, t) = Local(d.zone, end)

(* what the comparison can tell *)
Judged(r) ==
    /\ def.kind # "interval"
    /\ \A s \in {r.source, r.target} : ~Repeated(s.def, r.end)
    /\ def.kind = "one_shot" => now \notin {r.source.def.at, r.target.def.at}

(* The go/no-go answer is right: it is ok exactly if both definitions fire *)
(* the same slots of the window with the same payload, whatever else they  *)
(* differ in.  Left out: intervals, whose predictions count from the start *)
(* of the window and so tell nothing of their slots, and an end inside a   *)
(* repeated hour, where the wall-clock comparison picks the wrong end.     *)
ReportIsTruthful ==
    \A r \in {q \in report : Judged(q)} :
        r.ok <=> Fires(r.source, r.end) = Fires(r.target, r.end)
=============================================================================
