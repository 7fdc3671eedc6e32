---------------------------- MODULE Observations ----------------------------
(***************************************************************************)
(* One scheduled observation: its row in the database, its start and stop  *)
(* jobs in APScheduler (ObservationSchedulerSync), and the sessions the    *)
(* executor opens and closes for it (ObservationExecutor).  Every job and  *)
(* every handler is a coroutine that awaits the database between its       *)
(* steps, so the steps of several of them interleave.                      *)
(***************************************************************************)
EXTENDS Naturals

CONSTANTS
    Recordings,  \* the observation's SDR sessions
    Syncs,       \* sync_observation calls that may run at once
    MaxEdits,    \* bound: edits, toggles, generator runs and cancellations
    MaxReboots,  \* bound: restarts of the server
    MaxDowns,    \* bound: sessions that fail to start
    Patient      \* whether the operator and the generator leave an observation
                 \* alone while a coroutine works on it, and a pass outlasts its
                 \* start (nothing in the code makes them)

ASSUME ObservationsAssumption ==
    MaxEdits \in Nat /\ MaxReboots \in Nat /\ MaxDowns \in Nat /\ Patient \in BOOLEAN

VARIABLES
    row,      \* the row: status and enabled
    phase,    \* the task window: "before", "during" or "after" it
    jobs,     \* the jobs the scheduler holds
    active,   \* whether the observation is in _running_observations
    start,    \* start_observation: where it is, and started_sessions
    stop,     \* stop_observation: where it is, and the sessions left to stop
    cancel,   \* cancel_observation and its handler
    sync,     \* each sync_observation: where it is ("all": in a sync of all)
    live,     \* the internal sessions that are open
    edits, reboots, downs

observationVars ==
    <<row, phase, jobs, active, start, stop, cancel, sync, live, edits, reboots, downs>>

\* "none": there is no row yet.
Statuses == {"none", "scheduled", "running", "completed", "failed", "cancelled", "missed"}
JobKinds == {"start", "stop"}
AtRest == [pc |-> "idle", of |-> {}]

ExecutorQuiet == start = AtRest /\ stop = AtRest /\ cancel = AtRest
SyncQuiet == \A y \in Syncs : sync[y] = "idle"

ObservationsTypeOK ==
    /\ row \in [status : Statuses, enabled : BOOLEAN]
    /\ phase \in {"before", "during", "after"}
    /\ jobs \in SUBSET JobKinds
    /\ active \in BOOLEAN
    /\ start \in [pc : {"idle", "check", "park", "open", "mark", "undo"}, of : SUBSET Recordings]
    /\ stop \in [pc : {"idle", "close"}, of : SUBSET Recordings]
    /\ cancel \in [pc : {"idle", "close", "jobs"}, of : SUBSET Recordings]
    /\ sync \in [Syncs -> {"idle", "read", "all", "add"}]
    /\ live \in SUBSET Recordings
    /\ edits \in 0 .. MaxEdits /\ reboots \in 0 .. MaxReboots /\ downs \in 0 .. MaxDowns

ObservationsInit ==
    /\ row = [status |-> "none", enabled |-> FALSE]
    /\ phase = "after"
    /\ jobs = {}
    /\ active = FALSE
    /\ start = AtRest /\ stop = AtRest /\ cancel = AtRest
    /\ sync = [y \in Syncs |-> "idle"]
    /\ live = {}
    /\ edits = 0 /\ reboots = 0 /\ downs = 0

SetStatus(s) == row' = [row EXCEPT !.status = s]

\* remove_scheduled_stop_job tests the name observation_sync that helpers.py
\* imported while it was None, and so removes nothing.
RemoveScheduledStopJob == UNCHANGED jobs
-----------------------------------------------------------------------------
(* start_observation. *)

StartJob ==
    /\ "start" \in jobs /\ phase # "before"
    /\ start = AtRest
    /\ Patient => SyncQuiet /\ cancel = AtRest
    /\ jobs' = jobs \ {"start"}
    /\ active' = TRUE
    /\ start' = IF active THEN AtRest ELSE [pc |-> "check", of |-> {}]
    /\ UNCHANGED <<row, phase, stop, cancel, sync, live, edits, reboots, downs>>

\* The row is read.  Disabled, or no longer scheduled: the start ends, and the
\* observation stays in _running_observations.
StartSkipped ==
    /\ start.pc = "check"
    /\ ~row.enabled \/ row.status # "scheduled"
    /\ start' = AtRest
    /\ UNCHANGED <<row, phase, jobs, active, stop, cancel, sync, live, edits, reboots, downs>>

\* Otherwise the rotator is looked at, and perhaps found parked.
StartChecked ==
    /\ start.pc = "check"
    /\ row.enabled /\ row.status = "scheduled"
    /\ \E pc \in {"park", "open"} : start' = [pc |-> pc, of |-> {}]
    /\ UNCHANGED <<row, phase, jobs, active, stop, cancel, sync, live, edits, reboots, downs>>

StartParked ==
    /\ start.pc = "park"
    /\ SetStatus("cancelled")
    /\ RemoveScheduledStopJob
    /\ active' = FALSE
    /\ start' = AtRest
    /\ UNCHANGED <<phase, stop, cancel, sync, live, edits, reboots, downs>>

\* _execute_observation_session of the next session; the last is followed by
\* the change of status.
StartSession(r) ==
    /\ start.pc = "open" /\ r \notin start.of
    /\ live' = live \cup {r}
    /\ start' = LET of == start.of \cup {r} IN
                [pc |-> IF of = Recordings THEN "mark" ELSE "open", of |-> of]
    /\ UNCHANGED <<row, phase, jobs, active, stop, cancel, sync, edits, reboots, downs>>

\* It raises, before or after the internal session is open: those started
\* before it are stopped, and not it.
StartSessionFails(r) ==
    /\ start.pc = "open" /\ r \notin start.of
    /\ downs < MaxDowns
    /\ downs' = downs + 1
    /\ live' \in {live, live \cup {r}}
    /\ start' = [start EXCEPT !.pc = "undo"]
    /\ UNCHANGED <<row, phase, jobs, active, stop, cancel, sync, edits, reboots>>

StartUndoes(r) ==
    /\ start.pc = "undo" /\ r \in start.of
    /\ live' = live \ {r}
    /\ start' = [start EXCEPT !.of = @ \ {r}]
    /\ UNCHANGED <<row, phase, jobs, active, stop, cancel, sync, edits, reboots, downs>>

StartFailed ==
    /\ start = [pc |-> "undo", of |-> {}]
    /\ active' = FALSE
    /\ SetStatus("failed")
    /\ RemoveScheduledStopJob
    /\ start' = AtRest
    /\ UNCHANGED <<phase, stop, cancel, sync, live, edits, reboots, downs>>

StartDone ==
    /\ start.pc = "mark"
    /\ SetStatus("running")
    /\ start' = AtRest
    /\ UNCHANGED <<phase, jobs, active, stop, cancel, sync, live, edits, reboots, downs>>
-----------------------------------------------------------------------------
(* stop_observation and cancel_observation. *)

\* A mutant: the stop job passes over what is not running.
StopJobIfRunning ==
    /\ "stop" \in jobs /\ phase = "after"
    /\ stop = AtRest
    /\ jobs' = jobs \ {"stop"}
    /\ stop' = IF row.status = "running" THEN [pc |-> "close", of |-> Recordings] ELSE AtRest
    /\ UNCHANGED <<row, phase, active, start, cancel, sync, live, edits, reboots, downs>>

\* The stop job does not look at the status.
StopJob ==
    /\ "stop" \in jobs /\ phase = "after"
    /\ stop = AtRest
    /\ jobs' = jobs \ {"stop"}
    /\ stop' = [pc |-> "close", of |-> Recordings]
    /\ UNCHANGED <<row, phase, active, start, cancel, sync, live, edits, reboots, downs>>

StopSession(r) ==
    /\ r \in stop.of
    /\ live' = live \ {r}
    /\ stop' = [stop EXCEPT !.of = @ \ {r}]
    /\ UNCHANGED <<row, phase, jobs, active, start, cancel, sync, edits, reboots, downs>>

StopDone ==
    /\ stop = [pc |-> "close", of |-> {}]
    /\ SetStatus("completed")
    /\ active' = FALSE
    /\ stop' = AtRest
    /\ UNCHANGED <<phase, jobs, start, cancel, sync, live, edits, reboots, downs>>

MayEdit ==
    /\ row.status # "none"
    /\ edits < MaxEdits /\ edits' = edits + 1
    /\ Patient => ExecutorQuiet /\ SyncQuiet

\* A mutant: the sessions of a running observation are forgotten.
CancelRowOnly ==
    /\ MayEdit
    /\ cancel = AtRest
    /\ Patient => live = {} \/ row.status = "running"
    /\ cancel' = [pc |-> "close", of |-> {}]
    /\ UNCHANGED <<row, phase, jobs, active, start, stop, sync, live, reboots, downs>>

\* The row is read; the sessions are stopped if it says running.
Cancel ==
    /\ MayEdit
    /\ cancel = AtRest
    /\ Patient => live = {} \/ row.status = "running"
    /\ cancel' = [pc |-> "close", of |-> IF row.status = "running" THEN Recordings ELSE {}]
    /\ UNCHANGED <<row, phase, jobs, active, start, stop, sync, live, reboots, downs>>

CancelSession(r) ==
    /\ r \in cancel.of
    /\ live' = live \ {r}
    /\ cancel' = [cancel EXCEPT !.of = @ \ {r}]
    /\ UNCHANGED <<row, phase, jobs, active, start, stop, sync, edits, reboots, downs>>

CancelDone ==
    /\ cancel = [pc |-> "close", of |-> {}]
    /\ SetStatus("cancelled")
    /\ active' = FALSE
    /\ cancel' = [pc |-> "jobs", of |-> {}]
    /\ UNCHANGED <<phase, jobs, start, stop, sync, live, edits, reboots, downs>>

\* Back in the handler, which removes the jobs.
CancelRemovesJobs ==
    /\ cancel.pc = "jobs"
    /\ jobs' = {}
    /\ cancel' = AtRest
    /\ UNCHANGED <<row, phase, active, start, stop, sync, live, edits, reboots, downs>>
-----------------------------------------------------------------------------
(* The scheduler's jobs follow the row. *)

SyncIs(y, pc) == sync' = [sync EXCEPT ![y] = pc]

\* create_scheduled_observation: a row with a window ahead, and then a sync.
Submit(y) ==
    /\ row.status = "none"
    /\ SyncQuiet
    /\ row' = [status |-> "scheduled", enabled |-> TRUE]
    /\ phase' = "before"
    /\ SyncIs(y, "read")
    /\ UNCHANGED <<jobs, active, start, stop, cancel, live, edits, reboots, downs>>

\* A mutant: no sync after it.
ToggleUnsynced(y) ==
    /\ sync[y] = "idle"
    /\ MayEdit
    /\ Patient => live = {}
    /\ row' = [row EXCEPT !.enabled = ~@]
    /\ UNCHANGED <<phase, jobs, active, start, stop, cancel, sync, live, reboots, downs>>

\* toggle_observation_enabled, and then a sync.
Toggle(y) ==
    /\ sync[y] = "idle"
    /\ MayEdit
    /\ Patient => live = {}
    /\ row' = [row EXCEPT !.enabled = ~@]
    /\ SyncIs(y, "read")
    /\ UNCHANGED <<phase, jobs, active, start, stop, cancel, live, reboots, downs>>

\* update_scheduled_observation gives it a window ahead, and then a sync.
Edit(y) ==
    /\ sync[y] = "idle"
    /\ MayEdit
    /\ Patient => live = {}
    /\ SetStatus("scheduled")
    /\ phase' = "before"
    /\ SyncIs(y, "read")
    /\ UNCHANGED <<jobs, active, start, stop, cancel, live, reboots, downs>>

\* The generator created other observations or updated this one, which makes
\* it scheduled and enabled again: sync_all_observations.
Generate(y) ==
    /\ sync[y] = "idle"
    /\ MayEdit
    /\ Patient => live = {} /\ phase # "during"
    /\ \/ UNCHANGED row
       \/ phase # "after" /\ row' = [status |-> "scheduled", enabled |-> TRUE]
    /\ jobs' = {}
    /\ SyncIs(y, "all")
    /\ UNCHANGED <<phase, active, start, stop, cancel, live, reboots, downs>>

\* sync_all_observations marks what it missed.
SyncMarksMissed(y) ==
    /\ sync[y] = "all"
    /\ IF row.status = "scheduled" /\ phase = "after"
       THEN SetStatus("missed") ELSE UNCHANGED row
    /\ SyncIs(y, "read")
    /\ UNCHANGED <<phase, jobs, active, start, stop, cancel, live, edits, reboots, downs>>

\* sync_observation: the row is read and the jobs are removed; a row to be
\* scheduled has its log cleared first.
SyncReads(y) ==
    /\ sync[y] = "read"
    /\ jobs' = {}
    /\ IF row.enabled /\ row.status = "scheduled"
       THEN SyncIs(y, "add") ELSE SyncIs(y, "idle")
    /\ UNCHANGED <<row, phase, active, start, stop, cancel, live, edits, reboots, downs>>

SyncAdds(y) ==
    /\ sync[y] = "add"
    /\ jobs' = jobs \cup {j \in JobKinds : \/ j = "start" /\ phase = "before"
                                           \/ j = "stop" /\ phase # "after"}
    /\ SyncIs(y, "idle")
    /\ UNCHANGED <<row, phase, active, start, stop, cancel, live, edits, reboots, downs>>
-----------------------------------------------------------------------------
(* Time and restarts. *)

\* The window opens and closes; the scheduler is punctual.
WindowOpens ==
    /\ phase = "before"
    /\ Patient => SyncQuiet /\ cancel = AtRest
    /\ phase' = "during"
    /\ UNCHANGED <<row, jobs, active, start, stop, cancel, sync, live, edits, reboots, downs>>

WindowCloses ==
    /\ phase = "during" /\ "start" \notin jobs
    /\ Patient => start = AtRest
    /\ phase' = "after"
    /\ UNCHANGED <<row, jobs, active, start, stop, cancel, sync, live, edits, reboots, downs>>

\* The scheduler keeps its jobs in memory: all but the row is lost, and the
\* server's start syncs everything.
Reboot(y) ==
    /\ reboots < MaxReboots
    /\ reboots' = reboots + 1
    /\ jobs' = {} /\ live' = {} /\ active' = FALSE
    /\ start' = AtRest /\ stop' = AtRest /\ cancel' = AtRest
    /\ sync' = [z \in Syncs |-> IF z = y THEN "all" ELSE "idle"]
    /\ UNCHANGED <<row, phase, edits, downs>>
-----------------------------------------------------------------------------
Starts == \/ StartSkipped \/ StartChecked \/ StartParked \/ StartFailed \/ StartDone
          \/ \E r \in Recordings : StartSession(r) \/ StartUndoes(r)
Stops == StopDone \/ \E r \in Recordings : StopSession(r)
Cancels == CancelDone \/ CancelRemovesJobs \/ \E r \in Recordings : CancelSession(r)

ObservationsNext ==
    \/ StartJob \/ StopJob \/ Starts \/ Stops \/ Cancels
    \/ \E r \in Recordings : StartSessionFails(r)
    \/ Cancel \/ WindowOpens \/ WindowCloses
    \/ \E y \in Syncs : \/ Submit(y) \/ Toggle(y) \/ Edit(y) \/ Generate(y) \/ SyncMarksMissed(y)
                        \/ SyncReads(y) \/ SyncAdds(y) \/ Reboot(y)

ObservationsSpec == ObservationsInit /\ [][ObservationsNext]_observationVars

\* Time goes on, the scheduler runs what is due, and a coroutine goes on.  All of
\* them come finitely often after an edit, so that they need no fairness apart.
ObservationGoesOn ==
    \/ StartJob \/ StopJob \/ WindowOpens \/ WindowCloses
    \/ Starts \/ Stops \/ Cancels
    \/ \E y \in Syncs : SyncMarksMissed(y) \/ SyncReads(y) \/ SyncAdds(y)
ObservationsFairness == WF_observationVars(ObservationGoesOn)
-----------------------------------------------------------------------------
\* An open recording session has something that will close it: the stop job,
\* or a start that is failing, a stop or a cancellation under way.
RecordingHasItsStop ==
    \A r \in live : \/ "stop" \in jobs
                    \/ r \in start.of /\ start.pc = "undo"
                    \/ r \in stop.of \/ r \in cancel.of

\* ... and is closed in the end, whatever failed meanwhile.
RecordingEnds == []<>(live = {})

\* A row waiting for its window has both its jobs, and one that is disabled or
\* over does not start, once no sync or cancellation is under way.
JobsFollowRow ==
    SyncQuiet /\ cancel = AtRest /\ phase = "before" =>
        jobs = IF row.enabled /\ row.status = "scheduled" THEN JobKinds ELSE {}

\* "when an observation fails to start ... prevent the stop job from running":
\* a failed observation stays failed until it is edited.
FailedStaysFailed ==
    [][row.status = "failed" => row'.status \in {"failed", "scheduled", "cancelled"}]_observationVars
=============================================================================
