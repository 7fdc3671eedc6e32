-------------------------------- MODULE Tasks --------------------------------
(***************************************************************************)
(* BackgroundTaskManager: tasks run in processes of their own and report   *)
(* through a queue that a monitor coroutine of each empties.  A TLE sync   *)
(* is a singleton, "because it modifies shared database state"; whether    *)
(* one runs is read from the statuses the monitors keep.                   *)
(***************************************************************************)
EXTENDS Naturals, Sequences

CONSTANTS
    TaskIds, \* tasks started (bound)
    SyncIds  \* those that are TLE syncs

ASSUME TasksAssumption == SyncIds \subseteq TaskIds

VARIABLES
    taskStatus, \* TaskInfo.status
    process,    \* each process: "none", "working", "leaving" (its function returned), "dead"
    exitCode,   \* how it ended
    mailbox,    \* its queue
    watcher,    \* _monitor_task: "none" (start_task awaits), "loop", "joined", "over"
    notified    \* tracker_notified

taskVars == <<taskStatus, process, exitCode, mailbox, watcher, notified>>

TaskMessages == {"progress", "synced", "complete", "failed"}
ExitCodes == {"zero", "other"}

TasksTypeOK ==
    /\ taskStatus \in [TaskIds -> {"none", "running", "completed", "failed", "stopped"}]
    /\ process \in [TaskIds -> {"none", "working", "leaving", "dead"}]
    /\ exitCode \in [TaskIds -> ExitCodes]
    /\ mailbox \in [TaskIds -> Seq(TaskMessages)]
    /\ watcher \in [TaskIds -> {"none", "loop", "joined", "over"}]
    /\ notified \in [TaskIds -> BOOLEAN]

TasksInit ==
    /\ taskStatus = [t \in TaskIds |-> "none"]
    /\ process = [t \in TaskIds |-> "none"]
    /\ exitCode = [t \in TaskIds |-> "zero"]
    /\ mailbox = [t \in TaskIds |-> <<>>]
    /\ watcher = [t \in TaskIds |-> "none"]
    /\ notified = [t \in TaskIds |-> FALSE]

StatusIs(t, s) == taskStatus' = [taskStatus EXCEPT ![t] = s]
-----------------------------------------------------------------------------
(* The manager. *)

\* A mutant: no look for another sync.
MayStartAny(t) == TRUE

\* start_task: checked, started and entered without an await in between.
MayStartTask(t) == t \in SyncIds => \A u \in SyncIds : taskStatus[u] # "running"

StartTask(t) ==
    /\ taskStatus[t] = "none"
    /\ MayStartTask(t)
    /\ StatusIs(t, "running")
    /\ process' = [process EXCEPT ![t] = "working"]
    /\ UNCHANGED <<exitCode, mailbox, watcher, notified>>

\* ... and monitored once the clients are told.
Watch(t) ==
    /\ taskStatus[t] # "none" /\ watcher[t] = "none"
    /\ watcher' = [watcher EXCEPT ![t] = "loop"]
    /\ UNCHANGED <<taskStatus, process, exitCode, mailbox, notified>>

\* One message of the queue.
Handle(t) ==
    /\ watcher[t] = "loop" /\ mailbox[t] # <<>>
    /\ mailbox' = [mailbox EXCEPT ![t] = Tail(@)]
    /\ LET m == Head(mailbox[t]) IN
       /\ \/ m = "complete" /\ StatusIs(t, "completed")
          \/ m = "failed" /\ StatusIs(t, "failed")
          \/ m \notin {"complete", "failed"} /\ UNCHANGED taskStatus
       /\ notified' = IF m = "synced" THEN [notified EXCEPT ![t] = TRUE] ELSE notified
    /\ UNCHANGED <<process, exitCode, watcher>>

\* A mutant: a process that ends without a word keeps its status.
WatchJustEnds(t) ==
    /\ watcher[t] = "loop" /\ mailbox[t] = <<>> /\ process[t] = "dead"
    /\ watcher' = [watcher EXCEPT ![t] = "over"]
    /\ UNCHANGED <<taskStatus, process, exitCode, mailbox, notified>>

\* The process is dead and its queue empty.
WatchEnds(t) ==
    /\ watcher[t] = "loop" /\ mailbox[t] = <<>> /\ process[t] = "dead"
    /\ watcher' = [watcher EXCEPT ![t] = "over"]
    /\ IF taskStatus[t] = "running"
       THEN StatusIs(t, IF exitCode[t] = "zero" THEN "completed" ELSE "failed")
       ELSE UNCHANGED taskStatus
    /\ UNCHANGED <<process, exitCode, mailbox, notified>>

\* stop_task holds the event loop until the process is dead.
StopTask(t) ==
    /\ taskStatus[t] = "running"
    /\ process' = [process EXCEPT ![t] = "dead"]
    /\ exitCode' = [exitCode EXCEPT ![t] = IF process[t] = "dead" THEN @ ELSE "other"]
    /\ StatusIs(t, "stopped")
    /\ watcher' = [watcher EXCEPT ![t] = IF @ = "loop" THEN "over" ELSE @]
    /\ UNCHANGED <<mailbox, notified>>
-----------------------------------------------------------------------------
(* The process: _task_wrapper. *)

Post(t, m) == mailbox' = [mailbox EXCEPT ![t] = Append(@, m)]

\* Progress, one message at a time here, and a sync's last one.
Report(t) ==
    /\ process[t] = "working" /\ mailbox[t] = <<>> /\ ~notified[t]
    /\ \/ Post(t, "progress")
       \/ t \in SyncIds /\ Post(t, "synced")
    /\ UNCHANGED <<taskStatus, process, exitCode, watcher, notified>>

Returns(t) ==
    /\ process[t] = "working"
    /\ process' = [process EXCEPT ![t] = "leaving"]
    /\ \E m \in {"complete", "failed"} : Post(t, m)
    /\ UNCHANGED <<taskStatus, exitCode, watcher, notified>>

\* It exits, or is killed from outside before it could say anything.
Exits(t) ==
    /\ process[t] \in {"working", "leaving"}
    /\ process' = [process EXCEPT ![t] = "dead"]
    /\ exitCode' = [exitCode EXCEPT ![t] = IF process[t] = "leaving" THEN "zero" ELSE "other"]
    /\ UNCHANGED <<taskStatus, mailbox, watcher, notified>>
-----------------------------------------------------------------------------
TasksNext ==
    \E t \in TaskIds : \/ StartTask(t) \/ Watch(t) \/ Handle(t) \/ WatchEnds(t)
                       \/ StopTask(t) \/ Report(t) \/ Returns(t) \/ Exits(t)

TasksSpec == TasksInit /\ [][TasksNext]_taskVars

\* Coroutines go on.
TasksFairness == \A t \in TaskIds : WF_taskVars(Watch(t) \/ Handle(t) \/ WatchEnds(t))
-----------------------------------------------------------------------------
\* Two TLE syncs never write the database at once.
OneSync ==
    \A t, u \in SyncIds : process[t] = "working" /\ process[u] = "working" => t = u

\* A process that died, whoever killed it, is not shown as running for ever,
\* which would keep every later sync from starting.
DeadIsNoticed == []<>(\A t \in TaskIds : process[t] = "dead" => taskStatus[t] # "running")
=============================================================================
