----------------------------- MODULE TasksProofs -----------------------------
(***************************************************************************)
(* That two TLE syncs never work at once, for any number of tasks.  The    *)
(* status that start_task looks at must not lie about a process that       *)
(* works: no message that ends a task is in its mailbox before it leaves.  *)
(* Then what such a sync leaves in the database, wherever it is cut off.   *)
(***************************************************************************)
EXTENDS Tasks, TleSync, TLAPS

EndMessages == {"complete", "failed"}
NoEnd(s) == \A i \in 1 .. Len(s) : s[i] \notin EndMessages

\* A task that was not started has no process and no messages.
Unstarted == \A t \in TaskIds : taskStatus[t] = "none" => process[t] = "none" /\ mailbox[t] = <<>>
\* A task that works is known to run, and has not said that it ended.
WorkingIsKnown ==
    \A t \in TaskIds : process[t] = "working" => taskStatus[t] = "running" /\ NoEnd(mailbox[t])
OneRuns ==
    \A t, u \in SyncIds : taskStatus[t] = "running" /\ taskStatus[u] = "running" => t = u

TasksInv == TasksTypeOK /\ Unstarted /\ WorkingIsKnown /\ OneRuns
-----------------------------------------------------------------------------
\* A message added that ends nothing, or the first one taken, leaves no end
\* in a mailbox that had none.
LEMMA NoEndKept ==
    ASSUME NEW s \in Seq(TaskMessages), NoEnd(s)
    PROVE  /\ \A m \in TaskMessages \ EndMessages : NoEnd(Append(s, m))
           /\ s # <<>> => NoEnd(Tail(s)) /\ Head(s) \notin EndMessages
  BY DEF NoEnd

LEMMA TasksInitInv == TasksInit => TasksInv
  BY TasksAssumption
     DEF TasksInit, TasksInv, TasksTypeOK, Unstarted, WorkingIsKnown, OneRuns, ExitCodes

\* Every step keeps the types.
LEMMA TypesKept == TasksTypeOK /\ [TasksNext]_taskVars => TasksTypeOK'
<1> SUFFICES ASSUME TasksTypeOK, [TasksNext]_taskVars PROVE TasksTypeOK'
  OBVIOUS
<1> USE DEF TasksTypeOK, StatusIs, ExitCodes
<1>1. CASE UNCHANGED taskVars
  BY <1>1 DEF taskVars
<1>2. ASSUME NEW t \in TaskIds,
             StartTask(t) \/ Watch(t) \/ WatchEnds(t) \/ StopTask(t) \/ Exits(t)
      PROVE  TasksTypeOK'
  BY <1>2 DEF StartTask, Watch, WatchEnds, StopTask, Exits
<1>3. ASSUME NEW t \in TaskIds, Handle(t) PROVE TasksTypeOK'
  <2>1. Tail(mailbox[t]) \in Seq(TaskMessages)
    BY <1>3 DEF Handle
  <2>2. mailbox' \in [TaskIds -> Seq(TaskMessages)]
    BY <1>3, <2>1 DEF Handle
  <2>3. taskStatus' \in [TaskIds -> {"none", "running", "completed", "failed", "stopped"}]
    BY <1>3 DEF Handle
  <2>4. notified' \in [TaskIds -> BOOLEAN]
    BY <1>3 DEF Handle
  <2> QED
    BY <1>3, <2>2, <2>3, <2>4 DEF Handle
<1>4. ASSUME NEW t \in TaskIds, NEW m \in TaskMessages, Post(t, m)
      PROVE  mailbox' \in [TaskIds -> Seq(TaskMessages)]
  <2>1. Append(mailbox[t], m) \in Seq(TaskMessages)
    OBVIOUS
  <2> QED
    BY <1>4, <2>1 DEF Post
<1>5. ASSUME NEW t \in TaskIds, Report(t) PROVE TasksTypeOK'
  <2>1. \E m \in TaskMessages : Post(t, m)
    BY <1>5 DEF Report, TaskMessages
  <2>2. mailbox' \in [TaskIds -> Seq(TaskMessages)]
    BY <1>4, <2>1
  <2> QED
    BY <1>5, <2>2 DEF Report
<1>6. ASSUME NEW t \in TaskIds, Returns(t) PROVE TasksTypeOK'
  <2>1. \E m \in TaskMessages : Post(t, m)
    BY <1>6 DEF Returns, TaskMessages
  <2>2. mailbox' \in [TaskIds -> Seq(TaskMessages)]
    BY <1>4, <2>1
  <2> QED
    BY <1>6, <2>2 DEF Returns
<1> QED
  BY <1>1, <1>2, <1>3, <1>5, <1>6 DEF TasksNext

LEMMA TasksStepInv == TasksInv /\ [TasksNext]_taskVars => TasksInv'
<1> SUFFICES ASSUME TasksInv, [TasksNext]_taskVars PROVE TasksInv'
  OBVIOUS
<1>t. TasksTypeOK /\ TasksTypeOK'
  BY TypesKept DEF TasksInv
<1> USE TasksAssumption, <1>t DEF TasksInv, Unstarted, WorkingIsKnown, OneRuns
<1>1. CASE UNCHANGED taskVars
  BY <1>1 DEF taskVars
<1>2. ASSUME NEW t \in TaskIds, StartTask(t) PROVE TasksInv'
  BY <1>2 DEF StartTask, MayStartTask, StatusIs, TasksTypeOK, NoEnd
<1>3. ASSUME NEW t \in TaskIds, Watch(t) PROVE TasksInv'
  BY <1>3 DEF Watch
<1>4. ASSUME NEW t \in TaskIds, Handle(t) PROVE TasksInv'
  <2>1. mailbox[t] \in Seq(TaskMessages) /\ mailbox[t] # <<>>
    BY <1>4 DEF Handle, TasksTypeOK
  <2>2. process' = process /\ taskStatus[t] # "none" /\ taskStatus'[t] # "none"
    BY <1>4, <2>1 DEF Handle, StatusIs, TasksTypeOK
  <2>3. process[t] = "working" =>
            taskStatus' = taskStatus /\ NoEnd(mailbox[t]) /\ NoEnd(mailbox'[t])
    BY <1>4, <2>1, NoEndKept DEF Handle, StatusIs, TasksTypeOK, EndMessages
  <2>4. \A u \in TaskIds \ {t} : taskStatus'[u] = taskStatus[u] /\ mailbox'[u] = mailbox[u]
    BY <1>4 DEF Handle, StatusIs, TasksTypeOK
  <2>5. taskStatus'[t] = "running" => taskStatus[t] = "running"
    BY <1>4 DEF Handle, StatusIs, TasksTypeOK
  <2> QED
    BY <2>2, <2>3, <2>4, <2>5
<1>5. ASSUME NEW t \in TaskIds, WatchEnds(t) \/ StopTask(t) PROVE TasksInv'
  <2>1. /\ taskStatus[t] # "none" /\ taskStatus'[t] # "none"
        /\ taskStatus'[t] = "running" => FALSE
        /\ process'[t] = "dead"
    BY <1>5 DEF WatchEnds, StopTask, StatusIs, TasksTypeOK
  <2>2. \A u \in TaskIds \ {t} : taskStatus'[u] = taskStatus[u] /\ process'[u] = process[u]
    BY <1>5 DEF WatchEnds, StopTask, StatusIs, TasksTypeOK
  <2>3. mailbox' = mailbox
    BY <1>5 DEF WatchEnds, StopTask
  <2> QED
    BY <2>1, <2>2, <2>3
<1>6. ASSUME NEW t \in TaskIds, Report(t) PROVE TasksInv'
  <2>1. PICK m \in TaskMessages \ EndMessages : Post(t, m)
    BY <1>6 DEF Report, TaskMessages, EndMessages
  <2>2. NoEnd(mailbox[t]) => NoEnd(mailbox'[t])
    BY <2>1, NoEndKept DEF Post, TasksTypeOK
  <2> QED
    BY <1>6, <2>1, <2>2 DEF Report, Post, TasksTypeOK
<1>7. ASSUME NEW t \in TaskIds, Returns(t) PROVE TasksInv'
  BY <1>7 DEF Returns, Post, TasksTypeOK
<1>8. ASSUME NEW t \in TaskIds, Exits(t) PROVE TasksInv'
  BY <1>8 DEF Exits, TasksTypeOK
<1> QED
  BY <1>1, <1>2, <1>3, <1>4, <1>5, <1>6, <1>7, <1>8 DEF TasksNext
-----------------------------------------------------------------------------
\* Every reachable state is typed, and two TLE syncs never work at once,
\* however many tasks are started, stopped, killed or end by themselves.
THEOREM SyncsAreAlone == TasksSpec => [](TasksTypeOK /\ OneSync)
<1>1. TasksInv => TasksTypeOK /\ OneSync
  BY TasksAssumption DEF TasksInv, WorkingIsKnown, OneRuns, OneSync
<1> QED
  BY TasksInitInv, TasksStepInv, <1>1, PTL DEF TasksSpec
-----------------------------------------------------------------------------
(* TleSync. *)

\* What was fetched in this run is what the groups written in it list, and the
\* list that is being written; a source comes once in a run.
FreshIsGot ==
    /\ tle.fresh \cap tle.left = {}
    /\ tle.pc = "group" => tle.at \notin tle.fresh \cup tle.left
    /\ tle.pc # "idle" =>
          tle.got = ListedBy(tle.fresh) \cup (IF tle.pc = "group" THEN tle.ids ELSE {})
\* What is merged is stored, and so is what a transmitter still owed belongs to.
MergedIsStored ==
    /\ tle.todo \subseteq tle.got
    /\ tle.pc \in {"merge", "enrich", "import"} => tle.got \ tle.todo \subseteq Stored
    /\ tle.pc \in {"merge", "enrich"} => tle.manual \subseteq Stored
    /\ tle.pc \notin {"merge", "enrich", "import"} => tle.owed = {}
    /\ tle.pc \in {"enrich", "import"} => tle.todo = {}
    /\ tle.pc # "idle" => ~tle.success
    /\ \A t \in tle.owed : Follows(t) = Cat(t) => Cat(t) \in Stored

TleInv == TleSyncTypeOK /\ FreshIsGot /\ MergedIsStored /\ EverythingBelongs

LEMMA AsleepTyped == Asleep \in [pc : {"idle", "fetch", "group", "merge", "enrich", "import"},
    left : SUBSET TleSources, at : TleSources, ids : SUBSET Norads, got : SUBSET Norads,
    fresh : SUBSET TleSources, satnogs : SUBSET Trans, todo : SUBSET Norads,
    owed : SUBSET Trans, manual : SUBSET Norads, success : BOOLEAN]
<1>1. (CHOOSE s \in TleSources : TRUE) \in TleSources
  BY TleSyncAssumption
<1> QED
  BY <1>1 DEF Asleep

\* Asleep, and asleep after a success, satisfy what concerns the sync.
LEMMA TleInitInv == TleSyncInit => TleInv
  BY AsleepTyped, TleSyncAssumption
     DEF TleSyncInit, TleInv, TleSyncTypeOK, FreshIsGot, MergedIsStored, EverythingBelongs,
         Asleep, Stored

\* Every step keeps the types.
LEMMA TleTypesKept == TleSyncTypeOK /\ [TleSyncNext]_tleVars => TleSyncTypeOK'
<1> SUFFICES ASSUME TleSyncTypeOK, [TleSyncNext]_tleVars PROVE TleSyncTypeOK'
  OBVIOUS
<1> USE TleSyncAssumption DEF TleSyncTypeOK
<1>1. CASE UNCHANGED tleVars
  BY <1>1 DEF tleVars
<1>2. ASSUME NEW s \in TleSources, SourceFails(s) \/ SourceFetched(s) PROVE TleSyncTypeOK'
  <2>1. tle.left \ {s} \in SUBSET TleSources
    OBVIOUS
  <2>2. CASE SourceFails(s)
    BY <2>1, <2>2 DEF SourceFails
  <2>3. CASE SourceFetched(s)
    <3>1. upstream[s] \in SUBSET Norads /\ tle.got \cup upstream[s] \in SUBSET Norads
      OBVIOUS
    <3> QED
      BY <2>1, <2>3, <3>1 DEF SourceFetched
  <2> QED
    BY <1>2, <2>2, <2>3
<1>3. ASSUME NEW s \in TleSources, AddSource(s) \/ DeleteSource(s) PROVE TleSyncTypeOK'
  BY <1>3 DEF AddSource, DeleteSource, OperatorActs, Change, Removed
<1>4. ASSUME NEW s \in TleSources, ListChanges(s) PROVE TleSyncTypeOK'
  BY <1>4 DEF ListChanges, Change
<1>5. ASSUME NEW x \in Norads, MergeSatellite(x) PROVE TleSyncTypeOK'
  BY <1>5 DEF MergeSatellite, TransmittersOf
<1>6. ASSUME NEW x \in Norads, AddSatellite(x) \/ DeleteSatellite(x) PROVE TleSyncTypeOK'
  BY <1>6 DEF AddSatellite, DeleteSatellite, OperatorActs, Change, Removed
<1>7. ASSUME NEW t \in Trans, MergeTransmitter(t) PROVE TleSyncTypeOK'
  BY <1>7 DEF MergeTransmitter
<1>8. CASE SyncBegins
  <2>1. {s \in TleSources : source[s] = "on"} \in SUBSET TleSources
    OBVIOUS
  <2>2. syncs + 1 \in 0 .. MaxSyncs
    BY <1>8 DEF SyncBegins
  <2> QED
    BY <1>8, <2>1, <2>2, AsleepTyped DEF SyncBegins
<1>9. CASE GroupWritten
  BY <1>9 DEF GroupWritten, Removed
<1>10. CASE GroupRolledBack
  BY <1>10 DEF GroupRolledBack
<1>11. CASE NothingFetched \/ SyncSucceeds \/ SyncEnds
  BY <1>11, AsleepTyped DEF NothingFetched, SyncSucceeds, SyncEnds
<1>12. CASE SatnogsFetched
  <2>1. {x \in Norads : satellite[x] = "manual"} \ tle.got \in SUBSET Norads
    OBVIOUS
  <2>2. PICK list \in {{}, Trans \ Imports} :
            tle' = [tle EXCEPT !.pc = "merge", !.satnogs = list, !.todo = tle.got,
                       !.manual = {x \in Norads : satellite[x] = "manual"} \ tle.got]
    BY <1>12 DEF SatnogsFetched
  <2>3. list \in SUBSET Trans /\ tle.got \in SUBSET Norads
    OBVIOUS
  <2>4. tle' \in [pc : {"idle", "fetch", "group", "merge", "enrich", "import"},
                  left : SUBSET TleSources, at : TleSources, ids : SUBSET Norads, got : SUBSET Norads,
                  fresh : SUBSET TleSources, satnogs : SUBSET Trans, todo : SUBSET Norads,
                  owed : SUBSET Trans, manual : SUBSET Norads, success : BOOLEAN]
    BY <2>1, <2>2, <2>3
  <2> QED
    BY <1>12, <2>4 DEF SatnogsFetched
<1>13. CASE EnrichManual
  <2>1. UNION {TransmittersOf(x) : x \in tle.manual} \in SUBSET Trans
    BY DEF TransmittersOf
  <2> QED
    BY <1>13, <2>1 DEF EnrichManual
<1>14. CASE ImportsRead
  <2>1. ImportsFor(Stored) \subseteq SUBSET Trans
    BY DEF ImportsFor
  <2>2. PICK rows \in SUBSET Trans : tle' = [tle EXCEPT !.pc = "import", !.owed = rows]
    BY <1>14, <2>1 DEF ImportsRead
  <2> QED
    BY <1>14, <2>2 DEF ImportsRead
<1>15. CASE ImportsWritten
  BY <1>15 DEF ImportsWritten
<1>16. CASE ImportTransmitters
  BY <1>16 DEF ImportTransmitters, ImportsFor, OperatorActs, Change
<1> QED
  BY <1>1, <1>2, <1>3, <1>4, <1>5, <1>6, <1>7, <1>8, <1>9, <1>10, <1>11, <1>12, <1>13, <1>14,
     <1>15, <1>16 DEF TleSyncNext

\* A sync that is over, or has just begun, keeps the invariant if the tables
\* are as they were.
LEMMA SyncRests ==
    ASSUME TleInv, TleSyncTypeOK', UNCHANGED <<group, satellite, trans>>,
           \/ tle' = Asleep \/ tle' = [Asleep EXCEPT !.success = TRUE]
           \/ \E l \in SUBSET TleSources : tle' = [Asleep EXCEPT !.pc = "fetch", !.left = l]
    PROVE  TleInv'
<1>1. EverythingBelongs'
  BY DEF TleInv, EverythingBelongs, Stored, ListedBy
<1>2. /\ tle'.fresh = {} /\ tle'.got = {} /\ tle'.todo = {} /\ tle'.owed = {}
      /\ tle'.pc \in {"idle", "fetch"} /\ (tle'.pc = "fetch" => ~tle'.success)
  <2>1. CASE tle' = Asleep
    BY <2>1 DEF Asleep
  <2>2. CASE tle' = [Asleep EXCEPT !.success = TRUE]
    BY <2>2 DEF Asleep
  <2>3. ASSUME NEW l \in SUBSET TleSources,
               tle' = [Asleep EXCEPT !.pc = "fetch", !.left = l]
        PROVE  /\ tle'.fresh = {} /\ tle'.got = {} /\ tle'.todo = {} /\ tle'.owed = {}
               /\ tle'.pc = "fetch" /\ ~tle'.success
    BY <2>3 DEF Asleep
  <2> QED
    BY <2>1, <2>2, <2>3
<1>3. FreshIsGot'
  BY <1>2 DEF FreshIsGot, ListedBy
<1>4. MergedIsStored'
  BY <1>2 DEF MergedIsStored
<1> QED
  BY <1>1, <1>3, <1>4 DEF TleInv

\* While the sync rests, rows may go if what lists them does.
LEMMA OperatorKeeps ==
    ASSUME TleInv, TleSyncTypeOK', tle.pc = "idle", tle' = tle, EverythingBelongs'
    PROVE  TleInv'
  BY DEF TleInv, TleSyncTypeOK, FreshIsGot, MergedIsStored

\* Unhindered, every step keeps the invariant.
LEMMA TleStepInv == ASSUME Unhindered, TleInv, [TleSyncNext]_tleVars PROVE TleInv'
<1>t. TleSyncTypeOK /\ TleSyncTypeOK'
  BY TleTypesKept DEF TleInv
<1> USE TleSyncAssumption, <1>t
<1>1. CASE UNCHANGED tleVars
  BY <1>1 DEF tleVars, TleInv, FreshIsGot, MergedIsStored, EverythingBelongs, Stored, ListedBy
<1>2. ASSUME NEW s \in TleSources, SourceFails(s) PROVE TleInv'
  BY <1>2 DEF SourceFails, TleInv, TleSyncTypeOK, FreshIsGot, MergedIsStored, EverythingBelongs,
              Stored, ListedBy
<1>3. ASSUME NEW s \in TleSources, SourceFetched(s) PROVE TleInv'
  BY <1>3 DEF SourceFetched, TleInv, TleSyncTypeOK, FreshIsGot, MergedIsStored,
              EverythingBelongs, Stored, ListedBy
<1>4. ASSUME NEW s \in TleSources, AddSource(s) PROVE TleInv'
  BY <1>4, OperatorKeeps DEF AddSource, OperatorActs, TleInv, EverythingBelongs, Stored, ListedBy
<1>5. ASSUME NEW s \in TleSources, DeleteSource(s) PROVE TleInv'
  <2>1. \A x \in Norads : satellite'[x] = "tlesync" =>
            satellite[x] = "tlesync" /\ x \notin group[s]
    BY <1>5 DEF DeleteSource, Removed, TleSyncTypeOK
  <2>2. \A u \in TleSources \ {s} : group'[u] = group[u]
    BY <1>5 DEF DeleteSource, TleSyncTypeOK
  <2>3. \A x \in Norads : satellite'[x] = "tlesync" => x \in ListedBy(TleSources)'
    BY <2>1, <2>2 DEF TleInv, EverythingBelongs, ListedBy
  <2>4. \A t \in trans' : Follows(t) = Cat(t) => Cat(t) \in Stored'
    BY <1>5 DEF DeleteSource, Removed, TleSyncTypeOK, TleInv, EverythingBelongs, Stored
  <2> QED
    BY <1>5, <2>3, <2>4, OperatorKeeps DEF DeleteSource, OperatorActs, EverythingBelongs
<1>6. ASSUME NEW s \in TleSources, ListChanges(s) PROVE TleInv'
  BY <1>6 DEF ListChanges, Change, TleInv, FreshIsGot, MergedIsStored, EverythingBelongs, Stored,
              ListedBy
<1>7. ASSUME NEW x \in Norads, AddSatellite(x) \/ DeleteSatellite(x) PROVE TleInv'
  <2>1. EverythingBelongs'
    BY <1>7 DEF AddSatellite, DeleteSatellite, Removed, TleSyncTypeOK, TleInv,
                EverythingBelongs, Stored, ListedBy
  <2> QED
    BY <1>7, <2>1, OperatorKeeps DEF AddSatellite, DeleteSatellite, OperatorActs
<1>8. ASSUME NEW x \in Norads, MergeSatellite(x) PROVE TleInv'
  <2>1. x \in ListedBy(TleSources)
    BY <1>8 DEF MergeSatellite, TleInv, TleSyncTypeOK, FreshIsGot, MergedIsStored, ListedBy
  <2>2. EverythingBelongs'
    BY <1>8, <2>1 DEF MergeSatellite, TleInv, TleSyncTypeOK, EverythingBelongs, Stored, ListedBy
  <2>3. FreshIsGot'
    BY <1>8 DEF MergeSatellite, TleInv, TleSyncTypeOK, FreshIsGot, ListedBy
  <2>4. Stored' = Stored \cup {x}
    BY <1>8 DEF MergeSatellite, TleSyncTypeOK, Stored
  <2>5. MergedIsStored'
    BY <1>8, <2>4 DEF MergeSatellite, TransmittersOf, TleInv, TleSyncTypeOK, MergedIsStored
  <2> QED
    BY <2>2, <2>3, <2>5 DEF TleInv
<1>9. ASSUME NEW t \in Trans, MergeTransmitter(t) PROVE TleInv'
  BY <1>9 DEF MergeTransmitter, TleInv, TleSyncTypeOK, FreshIsGot, MergedIsStored,
              EverythingBelongs, Stored, ListedBy
<1>10. CASE SyncBegins
  BY <1>10, SyncRests DEF SyncBegins
<1>11. CASE GroupWritten
  <2>1. /\ \A u \in TleSources \ {tle.at} : group'[u] = group[u]
        /\ group'[tle.at] = tle.ids
        /\ tle.at \in TleSources /\ tle.at \notin tle.fresh
    BY <1>11 DEF GroupWritten, TleSyncTypeOK, TleInv, FreshIsGot
  <2>2. \A x \in Norads : satellite'[x] = "tlesync" => x \in ListedBy(TleSources)'
    <3> SUFFICES ASSUME NEW x \in Norads, satellite'[x] = "tlesync"
                 PROVE  x \in ListedBy(TleSources)'
      OBVIOUS
    <3>1. /\ satellite[x] = "tlesync"
          /\ x \notin (group[tle.at] \ tle.ids) \ ListedBy(TleSources \ {tle.at})
      BY <1>11 DEF GroupWritten, Removed, Dropped, TleSyncTypeOK, Stored
    <3> QED
      BY <2>1, <3>1 DEF TleInv, EverythingBelongs, ListedBy
  <2>3. \A t \in trans' : Follows(t) = Cat(t) => Cat(t) \in Stored'
    BY <1>11 DEF GroupWritten, Removed, TleSyncTypeOK, TleInv, EverythingBelongs, Stored
  <2>4. ListedBy(tle.fresh)' = ListedBy(tle.fresh) \cup tle.ids
    <3>1. /\ tle'.fresh = tle.fresh \cup {tle.at} /\ tle'.at = tle.at
          /\ tle.fresh \subseteq TleSources
      BY <1>11 DEF GroupWritten, TleSyncTypeOK
    <3>2. \A u \in tle.fresh : group'[u] = group[u]
      BY <2>1, <3>1
    <3> QED
      BY <2>1, <3>1, <3>2 DEF ListedBy
  <2>5. FreshIsGot'
    <3>1. /\ tle'.pc = "fetch" /\ tle'.fresh = tle.fresh \cup {tle.at}
          /\ tle'.left = tle.left /\ tle'.got = tle.got /\ tle.pc = "group"
      BY <1>11 DEF GroupWritten, TleSyncTypeOK
    <3>2. /\ tle.got = ListedBy(tle.fresh) \cup tle.ids
          /\ tle.at \notin tle.left /\ tle.fresh \cap tle.left = {}
      BY <3>1 DEF TleInv, FreshIsGot
    <3> QED
      BY <2>4, <3>1, <3>2 DEF FreshIsGot
  <2>6. MergedIsStored'
    BY <1>11 DEF GroupWritten, TleSyncTypeOK, TleInv, MergedIsStored
  <2> QED
    BY <2>2, <2>3, <2>5, <2>6 DEF TleInv, EverythingBelongs
<1>12. CASE GroupRolledBack
  BY <1>12 DEF GroupRolledBack
<1>13. CASE NothingFetched \/ SyncSucceeds \/ SyncEnds
  BY <1>13, SyncRests DEF NothingFetched, SyncSucceeds, SyncEnds
<1>14. CASE SatnogsFetched
  <2>1. EverythingBelongs' /\ Stored' = Stored
    BY <1>14 DEF SatnogsFetched, TleInv, EverythingBelongs, Stored, ListedBy
  <2>p. PICK list \in {{}, Trans \ Imports} :
            tle' = [tle EXCEPT !.pc = "merge", !.satnogs = list, !.todo = tle.got,
                               !.manual = {x \in Norads : satellite[x] = "manual"} \ tle.got]
    BY <1>14 DEF SatnogsFetched
  <2>a. tle.pc = "fetch"
    BY <1>14 DEF SatnogsFetched
  <2>2. /\ tle'.pc = "merge" /\ tle'.fresh = tle.fresh /\ tle'.left = tle.left
        /\ tle'.got = tle.got /\ tle'.todo = tle.got /\ tle'.owed = tle.owed
        /\ tle'.success = tle.success
        /\ tle'.manual = {x \in Norads : satellite[x] = "manual"} \ tle.got
    BY <2>p, <1>t DEF TleSyncTypeOK
  <2>3. ListedBy(tle.fresh)' = ListedBy(tle.fresh)
    BY <1>14, <2>2 DEF SatnogsFetched, ListedBy
  <2>4. FreshIsGot'
    BY <2>2, <2>3, <2>a DEF TleInv, FreshIsGot
  <2>5. tle'.manual \subseteq Stored'
    BY <2>1, <2>2 DEF Stored
  <2>6. MergedIsStored'
    BY <2>1, <2>2, <2>5, <2>a DEF TleInv, MergedIsStored
  <2> QED
    BY <2>1, <2>4, <2>6 DEF TleInv
<1>15. CASE EnrichManual
  <2>1. \A t \in UNION {TransmittersOf(x) : x \in tle.manual} :
            Follows(t) = Cat(t) => Cat(t) \in Stored
    BY <1>15 DEF EnrichManual, TransmittersOf, TleInv, MergedIsStored
  <2>2. EverythingBelongs' /\ Stored' = Stored
    BY <1>15 DEF EnrichManual, TleInv, EverythingBelongs, Stored, ListedBy
  <2>3. /\ tle'.pc = "enrich" /\ tle'.fresh = tle.fresh /\ tle'.left = tle.left
        /\ tle'.got = tle.got /\ tle'.todo = tle.todo /\ tle'.manual = tle.manual
        /\ tle'.success = tle.success /\ tle.pc = "merge" /\ tle.todo = {}
        /\ tle'.owed = UNION {TransmittersOf(x) : x \in tle.manual}
    BY <1>15 DEF EnrichManual, TleSyncTypeOK
  <2>4. ListedBy(tle.fresh)' = ListedBy(tle.fresh)
    BY <1>15, <2>3 DEF EnrichManual, ListedBy
  <2>5. FreshIsGot'
    BY <2>3, <2>4 DEF TleInv, FreshIsGot
  <2>6. MergedIsStored'
    BY <2>1, <2>2, <2>3 DEF TleInv, MergedIsStored
  <2> QED
    BY <2>2, <2>5, <2>6 DEF TleInv
<1>16. CASE ImportsRead
  <2>1. EverythingBelongs' /\ Stored' = Stored
    BY <1>16 DEF ImportsRead, TleInv, EverythingBelongs, Stored, ListedBy
  <2>2. PICK rows \in ImportsFor(Stored) : tle' = [tle EXCEPT !.pc = "import", !.owed = rows]
    BY <1>16 DEF ImportsRead
  <2>3. /\ tle'.pc = "import" /\ tle'.fresh = tle.fresh /\ tle'.left = tle.left
        /\ tle'.got = tle.got /\ tle'.todo = tle.todo /\ tle'.owed = rows
        /\ tle'.success = tle.success /\ tle.pc = "enrich"
    BY <1>16, <2>2 DEF ImportsRead, TleSyncTypeOK
  <2>4. ListedBy(tle.fresh)' = ListedBy(tle.fresh)
    BY <1>16, <2>3 DEF ImportsRead, ListedBy
  <2>5. FreshIsGot'
    BY <2>3, <2>4 DEF TleInv, FreshIsGot
  <2>6. \A t \in rows : Cat(t) \in Stored
    BY DEF ImportsFor
  <2>7. MergedIsStored'
    BY <2>1, <2>3, <2>6 DEF TleInv, MergedIsStored
  <2> QED
    BY <2>1, <2>5, <2>7 DEF TleInv
<1>17. CASE ImportsWritten
  BY <1>17 DEF ImportsWritten, TleInv, TleSyncTypeOK, FreshIsGot, MergedIsStored,
               EverythingBelongs, Stored, ListedBy
<1>18. CASE ImportTransmitters
  <2>1. EverythingBelongs'
    BY <1>18 DEF ImportTransmitters, ImportsFor, TleInv, EverythingBelongs, Stored, ListedBy
  <2> QED
    BY <1>18, <2>1, OperatorKeeps DEF ImportTransmitters, OperatorActs
<1> QED
  BY <1>1, <1>2, <1>3, <1>4, <1>5, <1>6, <1>7, <1>8, <1>9, <1>10, <1>11, <1>12, <1>13, <1>14,
     <1>15, <1>16, <1>17, <1>18 DEF TleSyncNext
-----------------------------------------------------------------------------
\* The sync's variables and the tables keep their types: it works on sources,
\* satellites and transmitters there are, whatever the operator does meanwhile.
THEOREM TleSyncTypeCorrect == TleSyncSpec => []TleSyncTypeOK
<1>1. TleSyncInit => TleSyncTypeOK
  BY TleInitInv DEF TleInv
<1> QED
  BY <1>1, TleTypesKept, PTL DEF TleSyncSpec

\* Wherever a sync is cut off, each synchronised satellite is in the group of
\* a source and each transmitter that follows no other satellite is one of a
\* satellite there is, for any sources, satellites, transmitters and lists, if
\* the operator leaves the tables alone meanwhile and each group is written.
THEOREM NothingIsLeftOver ==
    ASSUME Unhindered PROVE TleSyncSpec => []EverythingBelongs
<1>1. TleInv => EverythingBelongs
  BY DEF TleInv
<1>2. TleInv /\ [TleSyncNext]_tleVars => TleInv'
  BY TleStepInv
<1> QED
  BY TleInitInv, <1>1, <1>2, PTL DEF TleSyncSpec

\* Under the same condition a sync removes no satellite that a group still
\* lists, and one that succeeds has stored all that the sources it reached list.
THEOREM NothingListedIsLost ==
    ASSUME Unhindered PROVE TleSyncSpec => SyncKeepsListed
<1> DEFINE Kept == tle.pc # "idle" =>
                      /\ \A x \in Stored \ Stored' : x \notin ListedBy(TleSources)'
                      /\ tle'.success => ListedBy(tle.fresh) \subseteq Stored
<1>1. ASSUME TleInv, [TleSyncNext]_tleVars PROVE [Kept]_tleVars
  <2> SUFFICES ASSUME TleSyncNext, tle.pc # "idle" PROVE Kept
    BY <1>1
  <2> USE DEF OperatorActs
  <2>t. TleSyncTypeOK
    BY <1>1 DEF TleInv
  <2>1. CASE GroupWritten
    <3>1. ~tle'.success
      BY <1>1, <2>1 DEF GroupWritten, TleInv, TleSyncTypeOK, MergedIsStored
    <3>2. ASSUME NEW x \in Stored \ Stored' PROVE x \notin ListedBy(TleSources)'
      <4>1. x \in (group[tle.at] \ tle.ids) \ ListedBy(TleSources \ {tle.at})
        BY <2>1, <2>t DEF GroupWritten, Removed, Dropped, TleSyncTypeOK, Stored
      <4>2. /\ \A u \in TleSources \ {tle.at} : group'[u] = group[u]
            /\ group'[tle.at] = tle.ids
        BY <2>1, <2>t DEF GroupWritten, TleSyncTypeOK
      <4> QED
        BY <4>1, <4>2 DEF ListedBy
    <3> QED
      BY <3>1, <3>2
  <2>2. CASE SyncSucceeds
    <3>1. ListedBy(tle.fresh) \subseteq Stored
      BY <1>1, <2>2 DEF SyncSucceeds, TleInv, FreshIsGot, MergedIsStored
    <3> QED
      BY <2>2, <3>1 DEF SyncSucceeds, Stored
  <2>3. CASE NothingFetched \/ SyncEnds
    BY <2>3 DEF NothingFetched, SyncEnds, Asleep, Stored
  <2>4. ASSUME NEW x \in Norads, MergeSatellite(x) PROVE Kept
    <3>1. Stored \subseteq Stored'
      BY <2>4, <2>t DEF MergeSatellite, TleSyncTypeOK, Stored
    <3> QED
      BY <1>1, <2>4, <3>1 DEF MergeSatellite, TleInv, TleSyncTypeOK, MergedIsStored
  <2>5. ASSUME NEW s \in TleSources, SourceFails(s) \/ SourceFetched(s) \/ ListChanges(s)
        PROVE  Kept
    BY <1>1, <2>5 DEF SourceFails, SourceFetched, ListChanges, Stored, TleInv, TleSyncTypeOK,
                      MergedIsStored
  <2>6. ASSUME NEW t \in Trans, MergeTransmitter(t) PROVE Kept
    BY <1>1, <2>6 DEF MergeTransmitter, Stored, TleInv, TleSyncTypeOK, MergedIsStored
  <2>7. CASE SatnogsFetched \/ EnrichManual \/ ImportsRead \/ ImportsWritten
    BY <1>1, <2>7 DEF SatnogsFetched, EnrichManual, ImportsRead, ImportsWritten, Stored, TleInv,
                      TleSyncTypeOK, MergedIsStored
  <2>8. (\E s \in TleSources : AddSource(s) \/ DeleteSource(s)) => FALSE
    BY DEF AddSource, DeleteSource
  <2>9. (\E x \in Norads : AddSatellite(x) \/ DeleteSatellite(x)) => FALSE
    BY DEF AddSatellite, DeleteSatellite
  <2>10. SyncBegins \/ GroupRolledBack \/ ImportTransmitters => FALSE
    BY DEF SyncBegins, GroupRolledBack, ImportTransmitters
  <2> QED
    BY <2>1, <2>2, <2>3, <2>4, <2>5, <2>6, <2>7, <2>8, <2>9, <2>10 DEF TleSyncNext
<1>2. TleInv /\ [TleSyncNext]_tleVars => TleInv'
  BY TleStepInv
<1> QED
  BY TleInitInv, <1>1, <1>2, PTL DEF TleSyncSpec, SyncKeepsListed
=============================================================================
