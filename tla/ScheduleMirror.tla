--------------------------- MODULE ScheduleMirror ---------------------------
(***************************************************************************)
(* What ScheduleCache promises the tick engine, with none of its           *)
(* bookkeeping: for each schedule the engine sees one committed revision   *)
(* of the Brain's log, only ever moves to a later one, drops it only       *)
(* because the Brain deleted it, and never sees it again after that.       *)
(***************************************************************************)
EXTENDS BrainLog

VARIABLES
    view,   \* view[i]: the revision of schedule i the engine sees, 0 for none
    gone    \* schedules known to be deleted

mirrorVars == <<history, view, gone>>

MirrorInit ==
    /\ history = <<>>
    /\ view = [i \in Schedule |-> 0]
    /\ gone = {}

\* The revisions schedule i may be seen at next.
Later(i) ==
    {view[i]} \cup {r \in view[i] + 1..Now : history[r].id = i /\ history[r].live}

\* Some schedules move forward, some are found deleted.
Follow(found) ==
    /\ \A i \in found : DeletedBy(i, Now)
    /\ gone' = gone \cup found
    /\ view' \in [Schedule -> {0} \cup 1..Now]
    /\ \A i \in Schedule : IF i \in gone' THEN view'[i] = 0 ELSE view'[i] \in Later(i)
    /\ UNCHANGED history

\* The Brain commits something; what is seen does not change by itself.
LogGrows ==
    /\ Len(history') = Now + 1
    /\ SubSeq(history', 1, Now) = history
    /\ history'[Now + 1] \in Event
    /\ UNCHANGED <<view, gone>>

MirrorNext == LogGrows \/ \E found \in SUBSET Schedule : Follow(found)

MirrorSpec == MirrorInit /\ [][MirrorNext]_mirrorVars
=============================================================================
