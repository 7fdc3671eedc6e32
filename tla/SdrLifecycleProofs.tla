------------------------- MODULE SdrLifecycleProofs -------------------------
(***************************************************************************)
(* In which steps alone a worker of an SDR gets out of reach, a second one *)
(* gets the SDR and a worker is stopped without a cause, for any sessions  *)
(* and any number of starts, stops and crashes that overlap as they will.  *)
(* The argument: workers start in order, the entry names the last one, and *)
(* who is inside stop_sdr_process or ended has a cause for it.             *)
(*   Then, for any commands and restarts that overlap as they will, in     *)
(* which steps alone a decoder of a VFO gets out of reach, and that a      *)
(* command which finds nothing under way has its decoder stay.  The        *)
(* argument for that: all restarts asked for since know the class that is  *)
(* set, and one at a time put it back.                                     *)
(***************************************************************************)
EXTENDS SdrLifecycle, Decoders, TLAPS

LEMMA LifecycleInitTypes == LifecycleInit => LifecycleTypeOK
<1> SUFFICES ASSUME LifecycleInit PROVE LifecycleTypeOK
  OBVIOUS
<1> USE LifecycleAssumption DEF LifecycleInit, Workers, None, Idle
<1>1. /\ worker \in [Workers -> {"unborn", "up", "ending", "dead"}]
      /\ monitor \in [Workers -> {"off", "on", "over"}]
  OBVIOUS
<1>2. clients \in [Workers -> SUBSET Clients]
  OBVIOUS
<1>3. stopping \in [Stoppers -> [pc : {"idle", "leave", "wait"}, of : Workers \cup {None}]]
  OBVIOUS
<1>4. entry \in Workers \cup {None} /\ launched \in 0 .. MaxWorkers
  OBVIOUS
<1>5. starting \in BOOLEAN
  BY Zenon
<1>6. /\ halt \in SUBSET Workers /\ persistent \in SUBSET Workers /\ crashed \in SUBSET Workers
      /\ sessions \in SUBSET Clients
  OBVIOUS
<1> QED
  BY <1>1, <1>2, <1>3, <1>4, <1>5, <1>6, Zenon DEF LifecycleTypeOK

\* What a shutdown and the end of a call do to the table of calls.
LEMMA ShutdownSets ==
    ASSUME LifecycleTypeOK, NEW s \in Stoppers, NEW w \in Workers, Shutdown(s, w)
    PROVE  /\ halt' = halt \cup {w}
           /\ stopping'[s] = [pc |-> "wait", of |-> w]
           /\ \A r \in Stoppers : r # s => stopping'[r] = stopping[r]
           /\ stopping' \in [Stoppers -> [pc : {"idle", "leave", "wait"}, of : Workers \cup {None}]]
BY DEF Shutdown, LifecycleTypeOK

LEMMA ReturnSets ==
    ASSUME LifecycleTypeOK, NEW s \in Stoppers, CallReturns(s)
    PROVE  /\ stopping'[s] = Idle
           /\ \A r \in Stoppers : r # s => stopping'[r] = stopping[r]
           /\ stopping' \in [Stoppers -> [pc : {"idle", "leave", "wait"}, of : Workers \cup {None}]]
           /\ sessions' \in SUBSET Clients
BY DEF CallReturns, LifecycleTypeOK, Idle
-----------------------------------------------------------------------------
(* Types. *)

\* A call inside stop_sdr_process names the worker it found in the entry.
NamesWorker == \A s \in Stoppers : stopping[s].pc # "idle" => stopping[s].of \in Workers

LEMMA LifecycleTypesNext ==
    LifecycleTypeOK /\ NamesWorker /\ [LifecycleNext]_lifecycleVars => (LifecycleTypeOK /\ NamesWorker)'
<1> SUFFICES ASSUME LifecycleTypeOK, NamesWorker, [LifecycleNext]_lifecycleVars
             PROVE  LifecycleTypeOK' /\ NamesWorker'
  OBVIOUS
<1> USE LifecycleAssumption
<1>0. Clients \subseteq Stoppers /\ Operator \in Stoppers /\ Workers \subseteq Stoppers
  BY DEF Stoppers
<1>1. entry # None => entry \in Workers
  BY DEF LifecycleTypeOK
<1>2. ASSUME NEW s \in Stoppers, NEW w \in Workers, Shutdown(s, w)
      PROVE  /\ halt' \in SUBSET Workers /\ NamesWorker'
             /\ stopping' \in [Stoppers -> [pc : {"idle", "leave", "wait"}, of : Workers \cup {None}]]
  <2>1. /\ halt' = halt \cup {w}
        /\ stopping'[s] = [pc |-> "wait", of |-> w]
        /\ \A r \in Stoppers : r # s => stopping'[r] = stopping[r]
        /\ stopping' \in [Stoppers -> [pc : {"idle", "leave", "wait"}, of : Workers \cup {None}]]
    BY <1>2, ShutdownSets
  <2> QED
    BY <2>1 DEF NamesWorker, LifecycleTypeOK
<1>3. ASSUME NEW s \in Stoppers, CallReturns(s)
      PROVE  /\ sessions' \in SUBSET Clients /\ NamesWorker'
             /\ stopping' \in [Stoppers -> [pc : {"idle", "leave", "wait"}, of : Workers \cup {None}]]
  <2>1. /\ stopping'[s] = Idle
        /\ \A r \in Stoppers : r # s => stopping'[r] = stopping[r]
        /\ stopping' \in [Stoppers -> [pc : {"idle", "leave", "wait"}, of : Workers \cup {None}]]
        /\ sessions' \in SUBSET Clients
    BY <1>3, ReturnSets
  <2> QED
    BY <2>1 DEF NamesWorker, Idle
<1>4. ASSUME UNCHANGED stopping PROVE NamesWorker'
  BY <1>4 DEF NamesWorker
<1>5. ASSUME NEW c \in Clients, NEW w \in Workers, LastOneOut(c, w)
      PROVE  /\ halt' \in SUBSET Workers /\ sessions' \in SUBSET Clients /\ NamesWorker'
             /\ stopping' \in [Stoppers -> [pc : {"idle", "leave", "wait"}, of : Workers \cup {None}]]
  <2>1. CASE CallReturns(c) /\ UNCHANGED halt
    BY <1>0, <1>3, <2>1 DEF LifecycleTypeOK
  <2>2. CASE Shutdown(c, w) /\ UNCHANGED sessions
    BY <1>0, <1>2, <2>2 DEF LifecycleTypeOK
  <2> QED
    BY <1>5, <2>1, <2>2 DEF LastOneOut
<1>6. CASE UNCHANGED lifecycleVars
  BY <1>4, <1>6 DEF lifecycleVars, LifecycleTypeOK
<1>7. ASSUME NEW c \in Clients, Configure(c) \/ Join(c) \/ Rejoin(c)
      PROVE  LifecycleTypeOK' /\ NamesWorker'
  <2>1. /\ UNCHANGED <<entry, launched, worker, halt, persistent, monitor, starting, stopping, crashed>>
        /\ sessions' \in SUBSET Clients
    BY <1>7 DEF Configure, Join, Rejoin, LifecycleTypeOK
  <2>2. clients' \in [Workers -> SUBSET Clients]
    BY <1>7 DEF Configure, Join, Rejoin, LifecycleTypeOK
  <2> QED
    BY <1>4, <2>1, <2>2 DEF LifecycleTypeOK
<1>8. ASSUME NEW c \in Clients, Launch(c) PROVE LifecycleTypeOK' /\ NamesWorker'
  <2>1. launched' \in Workers /\ launched' \in 0 .. MaxWorkers
    BY <1>8 DEF Launch, LifecycleTypeOK, Workers
  <2>2. LifecycleTypeOK'
    BY <1>8, <2>1 DEF Launch, LifecycleTypeOK
  <2> QED
    BY <1>4, <1>8, <2>2 DEF Launch
<1>9. ASSUME NEW c \in Clients, Disconnect(c) PROVE LifecycleTypeOK' /\ NamesWorker'
  <2>1. UNCHANGED <<entry, launched, worker, persistent, monitor, starting, crashed>>
    BY <1>9 DEF Disconnect
  <2>2. CASE CallReturns(c) /\ UNCHANGED <<clients, halt>>
    BY <1>0, <1>3, <2>1, <2>2 DEF LifecycleTypeOK
  <2>3. CASE entry # None /\ UNCHANGED clients /\ LastOneOut(c, entry)
    BY <1>1, <1>5, <2>1, <2>3 DEF LifecycleTypeOK
  <2>4. CASE /\ entry # None /\ clients' = [clients EXCEPT ![entry] = @ \ {c}]
             /\ stopping' = [stopping EXCEPT ![c] = [pc |-> "leave", of |-> entry]]
             /\ UNCHANGED <<halt, sessions>>
    <3>1. [pc |-> "leave", of |-> entry] \in [pc : {"idle", "leave", "wait"}, of : Workers \cup {None}]
      BY <1>1, <2>4
    <3>2. /\ stopping' \in [Stoppers -> [pc : {"idle", "leave", "wait"}, of : Workers \cup {None}]]
          /\ clients' \in [Workers -> SUBSET Clients]
      BY <1>0, <2>4, <3>1 DEF LifecycleTypeOK
    <3>3. NamesWorker'
      BY <1>0, <1>1, <2>4 DEF LifecycleTypeOK, NamesWorker
    <3> QED
      BY <2>1, <2>4, <3>2, <3>3 DEF LifecycleTypeOK
  <2> QED
    BY <1>9, <2>2, <2>3, <2>4 DEF Disconnect
<1>10. ASSUME NEW c \in Clients, LeftRoom(c) PROVE LifecycleTypeOK' /\ NamesWorker'
  <2>1. stopping[c].of \in Workers
    BY <1>0, <1>10 DEF LeftRoom, NamesWorker
  <2>2. LastOneOut(c, stopping[c].of)
    BY <1>10 DEF LeftRoom
  <2>3. UNCHANGED <<clients, entry, launched, worker, persistent, monitor, starting, crashed>>
    BY <1>10 DEF LeftRoom, LifecycleTypeOK
  <2> QED
    BY <1>5, <2>1, <2>2, <2>3 DEF LifecycleTypeOK
<1>11. CASE Launched
  BY <1>4, <1>11 DEF Launched, LifecycleTypeOK
<1>12. CASE ForceStop
  <2>1. Shutdown(Operator, entry) /\ entry \in Workers
    BY <1>1, <1>12 DEF ForceStop
  <2> QED
    BY <1>0, <1>2, <1>12, <2>1 DEF ForceStop, LifecycleTypeOK
<1>13. ASSUME NEW s \in Stoppers, Stopped(s) PROVE LifecycleTypeOK' /\ NamesWorker'
  <2>1. CallReturns(s)
    BY <1>13 DEF Stopped
  <2>2. /\ worker' \in [Workers -> {"unborn", "up", "ending", "dead"}] /\ entry' = None
        /\ monitor' \in [Workers -> {"off", "on", "over"}]
        /\ UNCHANGED <<launched, halt, persistent, clients, starting, crashed>>
    BY <1>13 DEF Stopped, LifecycleTypeOK
  <2> QED
    BY <1>3, <2>1, <2>2 DEF LifecycleTypeOK
<1>14. ASSUME NEW w \in Workers, MonitorEnds(w) PROVE LifecycleTypeOK' /\ NamesWorker'
  <2>1. UNCHANGED <<entry, launched, worker, persistent, clients, starting, sessions, crashed>>
    BY <1>14 DEF MonitorEnds
  <2>2. CASE entry = None
    BY <1>4, <1>14, <2>1, <2>2 DEF MonitorEnds, LifecycleTypeOK
  <2>3. CASE entry # None
    <3>1. Shutdown(w, entry) /\ UNCHANGED monitor /\ entry \in Workers /\ w \in Stoppers
      BY <1>0, <1>1, <1>14, <2>3 DEF MonitorEnds
    <3> QED
      BY <1>2, <2>1, <3>1 DEF LifecycleTypeOK
  <2> QED
    BY <2>2, <2>3
<1>15. ASSUME NEW w \in Workers, WorkerEnds(w) \/ WorkerDies(w) PROVE LifecycleTypeOK' /\ NamesWorker'
  <2>1. /\ worker' \in [Workers -> {"unborn", "up", "ending", "dead"}] /\ crashed' \in SUBSET Workers
        /\ UNCHANGED <<entry, launched, halt, persistent, clients, monitor, starting, stopping, sessions>>
    BY <1>15 DEF WorkerEnds, WorkerDies, LifecycleTypeOK
  <2> QED
    BY <1>4, <2>1 DEF LifecycleTypeOK
<1>16. CASE LifecycleNext
  BY <1>7, <1>8, <1>9, <1>10, <1>11, <1>12, <1>13, <1>14, <1>15, <1>16 DEF LifecycleNext
<1> QED
  BY <1>6, <1>16

\* The bookkeeping of the SDR's processes stays what the types say, whoever
\* starts and stops the SDR at whatever time.
THEOREM LifecycleTypeCorrect == LifecycleSpec => []LifecycleTypeOK
<1>1. LifecycleInit => LifecycleTypeOK /\ NamesWorker
  BY LifecycleInitTypes DEF LifecycleInit, NamesWorker, Idle
<1> QED
  BY <1>1, LifecycleTypesNext, PTL DEF LifecycleSpec

-----------------------------------------------------------------------------
(* Workers out of reach, second workers, and causes of stops.              *)

\* Running, and in no entry, and nobody is about to stop it.
Lost(w) ==
    Alive(w) /\ entry # w /\ w \notin halt /\ \A s \in Stoppers : stopping[s].of # w

\* Workers start in order, each is known to somebody only afterwards, and ends
\* for a cause.
InOrderOfStart ==
    /\ entry <= launched
    /\ \A s \in Stoppers : stopping[s].of <= launched
    /\ \A w \in Workers : w > launched => worker[w] = "unborn"
    /\ \A w \in Workers : worker[w] = "ending" => w \in halt \/ w \in crashed

\* Of the steps of stop_sdr_process, what each puts into the table of calls: the
\* worker of the entry, one that was there, or none.
LEMMA CallsAndHalts ==
    ASSUME LifecycleTypeOK, NamesWorker, [LifecycleNext]_lifecycleVars
    PROVE  /\ \A s \in Stoppers : stopping'[s].of \in {stopping[s].of, entry, None}
           /\ \A w \in halt' \ halt : w = entry \/ \E s \in Stoppers : w = stopping[s].of
<1> USE DEF None
<1>0. Clients \subseteq Stoppers /\ Operator \in Stoppers /\ Workers \subseteq Stoppers
  BY DEF Stoppers
<1>1. entry # None => entry \in Workers
  BY DEF LifecycleTypeOK
<1>2. ASSUME NEW s \in Stoppers, NEW w \in Workers, Shutdown(s, w)
      PROVE  /\ halt' = halt \cup {w} /\ stopping'[s].of = w
             /\ \A r \in Stoppers : r # s => stopping'[r] = stopping[r]
  <2>1. /\ halt' = halt \cup {w}
        /\ stopping'[s] = [pc |-> "wait", of |-> w]
        /\ \A r \in Stoppers : r # s => stopping'[r] = stopping[r]
    BY <1>2, ShutdownSets
  <2> QED
    BY <2>1
<1>3. ASSUME NEW s \in Stoppers, CallReturns(s)
      PROVE  \A r \in Stoppers : stopping'[r].of \in {stopping[r].of, None}
  BY <1>3, ReturnSets DEF Idle
<1>4. ASSUME NEW c \in Clients, NEW w \in Workers, LastOneOut(c, w),
             w = entry \/ w = stopping[c].of
      PROVE  /\ \A s \in Stoppers : stopping'[s].of \in {stopping[s].of, entry, None}
             /\ \A v \in halt' \ halt : v = entry \/ \E s \in Stoppers : v = stopping[s].of
  <2>1. CASE CallReturns(c) /\ UNCHANGED halt
    BY <1>0, <1>3, <2>1
  <2>2. CASE Shutdown(c, w)
    BY <1>0, <1>2, <1>4, <2>2
  <2> QED
    BY <1>4, <2>1, <2>2 DEF LastOneOut
<1>5. CASE UNCHANGED <<halt, stopping>>
  BY <1>5
<1>6. ASSUME NEW c \in Clients, Disconnect(c)
      PROVE  /\ \A s \in Stoppers : stopping'[s].of \in {stopping[s].of, entry, None}
             /\ \A v \in halt' \ halt : v = entry \/ \E s \in Stoppers : v = stopping[s].of
  <2>1. CASE CallReturns(c) /\ UNCHANGED halt
    BY <1>0, <1>3, <2>1
  <2>2. CASE entry # None /\ LastOneOut(c, entry)
    BY <1>1, <1>4, <2>2
  <2>3. CASE /\ stopping' = [stopping EXCEPT ![c] = [pc |-> "leave", of |-> entry]]
             /\ UNCHANGED halt
    BY <1>0, <2>3 DEF LifecycleTypeOK
  <2> QED
    BY <1>6, <2>1, <2>2, <2>3 DEF Disconnect
<1>7. ASSUME NEW c \in Clients, LeftRoom(c)
      PROVE  /\ \A s \in Stoppers : stopping'[s].of \in {stopping[s].of, entry, None}
             /\ \A v \in halt' \ halt : v = entry \/ \E s \in Stoppers : v = stopping[s].of
  <2>1. stopping[c].of \in Workers /\ LastOneOut(c, stopping[c].of)
    BY <1>0, <1>7 DEF LeftRoom, NamesWorker
  <2> QED
    BY <1>4, <2>1
<1>8. CASE ForceStop
  BY <1>0, <1>1, <1>2, <1>8 DEF ForceStop
<1>9. ASSUME NEW s \in Stoppers, Stopped(s)
      PROVE  /\ \A r \in Stoppers : stopping'[r].of \in {stopping[r].of, entry, None}
             /\ halt' = halt
  BY <1>3, <1>9 DEF Stopped
<1>10. ASSUME NEW w \in Workers, MonitorEnds(w)
       PROVE  /\ \A s \in Stoppers : stopping'[s].of \in {stopping[s].of, entry, None}
              /\ \A v \in halt' \ halt : v = entry \/ \E s \in Stoppers : v = stopping[s].of
  <2>1. CASE entry = None
    BY <1>5, <1>10, <2>1 DEF MonitorEnds
  <2>2. CASE entry # None
    BY <1>0, <1>1, <1>2, <1>10, <2>2 DEF MonitorEnds
  <2> QED
    BY <2>1, <2>2
<1>11. CASE \/ \E c \in Clients : \/ Configure(c) \/ Join(c) \/ Launch(c) \/ Rejoin(c)
            \/ Launched \/ \E w \in Workers : WorkerEnds(w) \/ WorkerDies(w)
            \/ UNCHANGED lifecycleVars
  BY <1>5, <1>11 DEF Configure, Join, Launch, Rejoin, Launched, WorkerEnds,
                     WorkerDies, lifecycleVars
<1> QED
  BY <1>6, <1>7, <1>8, <1>9, <1>10, <1>11 DEF LifecycleNext

\* What happens to the processes and to the entry.
LEMMA ProcessSteps ==
    ASSUME LifecycleTypeOK, NamesWorker, [LifecycleNext]_lifecycleVars
    PROVE  \/ UNCHANGED <<entry, launched, worker>> /\ crashed \subseteq crashed'
           \/ \E c \in Clients : Launch(c)
           \/ \E s \in Stoppers : Stopped(s)
           \/ \E w \in Workers : WorkerEnds(w) \/ WorkerDies(w)
BY DEF LifecycleNext, lifecycleVars, Configure, Join, Rejoin, Disconnect, LeftRoom,
       Launched, ForceStop, MonitorEnds

LEMMA InOrderOfStartNext ==
    ASSUME LifecycleTypeOK, NamesWorker, InOrderOfStart, [LifecycleNext]_lifecycleVars
    PROVE  InOrderOfStart'
<1>1. \A s \in Stoppers : stopping'[s].of <= launched
  <2>1. None <= launched
    BY LifecycleAssumption DEF LifecycleTypeOK, None
  <2>2. \A s \in Stoppers : stopping'[s].of \in {stopping[s].of, entry, None}
    BY CallsAndHalts
  <2> QED
    BY <2>1, <2>2 DEF InOrderOfStart
<1> USE LifecycleAssumption DEF Workers, None
<1>2. halt \subseteq halt'
  BY DEF LifecycleNext, lifecycleVars, Configure, Join, Launch, Rejoin, Disconnect,
         LeftRoom, LastOneOut, Shutdown, Launched, ForceStop, Stopped, MonitorEnds, WorkerEnds,
         WorkerDies
<1>3. CASE UNCHANGED <<entry, launched, worker>> /\ crashed \subseteq crashed'
  BY <1>1, <1>2, <1>3 DEF InOrderOfStart
<1>4. ASSUME NEW c \in Clients, Launch(c) PROVE InOrderOfStart'
  <2>1. /\ launched' = launched + 1 /\ entry' = launched' /\ launched \in Nat
        /\ \A w \in Workers : w # launched' => worker'[w] = worker[w]
        /\ worker'[launched'] = "up" /\ UNCHANGED crashed
    BY <1>4 DEF Launch, LifecycleTypeOK
  <2>2. \A s \in Stoppers : stopping'[s].of <= launched'
    BY <1>4, <2>1 DEF Launch, LifecycleTypeOK, InOrderOfStart
  <2> QED
    BY <1>2, <2>1, <2>2 DEF InOrderOfStart
<1>5. ASSUME NEW s \in Stoppers, Stopped(s) PROVE InOrderOfStart'
  <2>1. stopping[s].of <= launched /\ stopping[s].of \in Workers
    BY <1>5 DEF Stopped, NamesWorker, InOrderOfStart
  <2>2. /\ entry' = 0 /\ UNCHANGED <<launched, crashed>> /\ launched \in Nat
        /\ worker'[stopping[s].of] = "dead"
        /\ \A w \in Workers : w # stopping[s].of => worker'[w] = worker[w]
    BY <1>5, <2>1 DEF Stopped, LifecycleTypeOK
  <2> QED
    BY <1>1, <1>2, <2>1, <2>2 DEF InOrderOfStart
<1>6. ASSUME NEW w \in Workers, WorkerEnds(w) \/ WorkerDies(w) PROVE InOrderOfStart'
  <2>1. /\ worker[w] \in {"up", "ending"} /\ worker'[w] \in {"ending", "dead"}
        /\ worker'[w] = "ending" => w \in halt' \/ w \in crashed'
        /\ \A v \in Workers : v # w => worker'[v] = worker[v]
        /\ UNCHANGED <<entry, launched>> /\ crashed \subseteq crashed'
    BY <1>6 DEF WorkerEnds, WorkerDies, LifecycleTypeOK
  <2> QED
    BY <1>1, <1>2, <2>1 DEF InOrderOfStart, LifecycleTypeOK
<1> QED
  BY <1>3, <1>4, <1>5, <1>6, ProcessSteps

LEMMA InOrderOfStartAlways ==
    LifecycleSpec => [](LifecycleTypeOK /\ NamesWorker /\ InOrderOfStart)
<1>1. LifecycleInit => LifecycleTypeOK /\ NamesWorker /\ InOrderOfStart
  BY LifecycleInitTypes
     DEF LifecycleInit, NamesWorker, InOrderOfStart, Idle, None, Workers
<1> QED
  BY <1>1, LifecycleTypesNext, InOrderOfStartNext, PTL DEF LifecycleSpec

LEMMA EntryStep ==
    ASSUME LifecycleTypeOK, NamesWorker, [LifecycleNext]_lifecycleVars, NoOrphan
    PROVE  NoOrphan' \/ \E s \in Stoppers : Stopped(s) /\ stopping[s].of # entry
<1>1. CASE UNCHANGED <<entry, launched, worker>>
  BY <1>1 DEF NoOrphan, Alive
<1>2. ASSUME NEW c \in Clients, Launch(c) PROVE NoOrphan'
  <2>1. \A w \in Workers : ~Alive(w)
    BY <1>2 DEF Launch, NoOrphan, None, Workers
  <2>2. \A w \in Workers : w # launched' => worker'[w] = worker[w]
    BY <1>2 DEF Launch, LifecycleTypeOK
  <2> QED
    BY <1>2, <2>1, <2>2 DEF Launch, NoOrphan, Alive
<1>3. ASSUME NEW s \in Stoppers, Stopped(s), stopping[s].of = entry PROVE NoOrphan'
  BY <1>3 DEF Stopped, NoOrphan, Alive, LifecycleTypeOK
<1>4. ASSUME NEW w \in Workers, WorkerEnds(w) \/ WorkerDies(w) PROVE NoOrphan'
  BY <1>4 DEF WorkerEnds, WorkerDies, NoOrphan, Alive, LifecycleTypeOK
<1> QED
  BY <1>1, <1>2, <1>3, <1>4, ProcessSteps

\* A process loses its entry only to a stop that waited for another one and then
\* removes the entry, whosever it is (processlifecycle.py:673), however starts,
\* joins, crashes and stops overlap.
THEOREM EntriesAreKept == LifecycleSpec => EntryKept
<1>1. ASSUME LifecycleTypeOK, NEW s \in Stoppers, Stopped(s)
      PROVE  stopping[s].pc = "wait" /\ stopping'[s] = Idle
  BY <1>1, ReturnSets DEF Stopped
<1>2. LifecycleTypeOK /\ NamesWorker /\ [LifecycleNext]_lifecycleVars =>
        [NoOrphan => \/ NoOrphan'
                     \/ \E s \in Stoppers : /\ stopping[s].pc = "wait" /\ stopping'[s] = Idle
                                           /\ stopping[s].of # entry]_lifecycleVars
  BY <1>1, EntryStep
<1> QED
  BY <1>2, InOrderOfStartAlways, PTL DEF LifecycleSpec, EntryKept

\* A second process gets the SDR only while one runs that has lost its entry.
THEOREM WorkersAreKeptApart == LifecycleSpec => OneWorkerKept
<1>1. ASSUME LifecycleTypeOK, NamesWorker, [LifecycleNext]_lifecycleVars, OneWorker, NoOrphan
      PROVE  OneWorker'
  <2>1. CASE NoOrphan'
    BY <2>1 DEF NoOrphan, OneWorker
  <2>2. ASSUME NEW s \in Stoppers, Stopped(s) PROVE OneWorker'
    BY <1>1, <2>2 DEF Stopped, OneWorker, Alive, LifecycleTypeOK
  <2> QED
    BY <1>1, <2>1, <2>2, EntryStep
<1>2. LifecycleTypeOK /\ NamesWorker /\ [LifecycleNext]_lifecycleVars =>
        [OneWorker => OneWorker' \/ ~NoOrphan]_lifecycleVars
  BY <1>1
<1> QED
  BY <1>2, InOrderOfStartAlways, PTL DEF LifecycleSpec, OneWorkerKept

\* Who waits for a worker has told it to stop, who ended was told to or crashed,
\* and what is watched or in the entry was launched, the entry's last of all.
Causes ==
    /\ \A s \in Stoppers : stopping[s].pc = "wait" => stopping[s].of \in halt
    /\ \A w \in Workers : worker[w] \in {"ending", "dead"} => w \in halt \/ w \in crashed
    /\ \A w \in Workers : monitor[w] = "on" => w <= launched
    /\ entry \in {None, launched}

\* What a step does to calls, halts and monitors, as far as causes go.
LEMMA CausesNext ==
    ASSUME LifecycleTypeOK, NamesWorker, Causes, [LifecycleNext]_lifecycleVars
    PROVE  Causes'
<1> USE LifecycleAssumption DEF Workers, None
<1>0. Clients \subseteq Stoppers /\ Operator \in Stoppers /\ Workers \subseteq Stoppers
  BY DEF Stoppers
<1>1. ASSUME NEW s \in Stoppers, NEW w \in Workers, Shutdown(s, w)
      PROVE  /\ halt \subseteq halt'
             /\ \A r \in Stoppers : stopping'[r].pc = "wait" => stopping'[r].of \in halt'
  <2>1. /\ halt' = halt \cup {w}
        /\ stopping'[s] = [pc |-> "wait", of |-> w]
        /\ \A r \in Stoppers : r # s => stopping'[r] = stopping[r]
    BY <1>1, ShutdownSets
  <2> QED
    BY <2>1 DEF Causes
<1>2. ASSUME NEW s \in Stoppers, CallReturns(s), UNCHANGED halt
      PROVE  /\ halt \subseteq halt'
             /\ \A r \in Stoppers : stopping'[r].pc = "wait" => stopping'[r].of \in halt'
  <2>1. /\ stopping'[s] = Idle
        /\ \A r \in Stoppers : r # s => stopping'[r] = stopping[r]
    BY <1>2, ReturnSets
  <2> QED
    BY <1>2, <2>1 DEF Causes, Idle
<1>3. ASSUME NEW c \in Clients, NEW w \in Workers, LastOneOut(c, w)
      PROVE  /\ halt \subseteq halt'
             /\ \A r \in Stoppers : stopping'[r].pc = "wait" => stopping'[r].of \in halt'
  BY <1>0, <1>1, <1>2, <1>3 DEF LastOneOut
<1>4. /\ halt \subseteq halt'
      /\ \A r \in Stoppers : stopping'[r].pc = "wait" => stopping'[r].of \in halt'
  <2>1. CASE UNCHANGED <<halt, stopping>>
    BY <2>1 DEF Causes
  <2>2. ASSUME NEW c \in Clients, Disconnect(c)
        PROVE  /\ halt \subseteq halt'
               /\ \A r \in Stoppers : stopping'[r].pc = "wait" => stopping'[r].of \in halt'
    <3>1. entry # None => entry \in Workers
      BY DEF LifecycleTypeOK
    <3>2. CASE CallReturns(c) /\ UNCHANGED halt
      BY <1>0, <1>2, <3>2
    <3>3. CASE entry # None /\ LastOneOut(c, entry)
      BY <1>3, <3>1, <3>3
    <3>4. CASE /\ stopping' = [stopping EXCEPT ![c] = [pc |-> "leave", of |-> entry]]
               /\ UNCHANGED halt
      BY <1>0, <3>4 DEF LifecycleTypeOK, Causes
    <3> QED
      BY <2>2, <3>2, <3>3, <3>4 DEF Disconnect
  <2>3. ASSUME NEW c \in Clients, LeftRoom(c)
        PROVE  /\ halt \subseteq halt'
               /\ \A r \in Stoppers : stopping'[r].pc = "wait" => stopping'[r].of \in halt'
    <3>1. stopping[c].of \in Workers /\ LastOneOut(c, stopping[c].of)
      BY <1>0, <2>3 DEF LeftRoom, NamesWorker
    <3> QED
      BY <1>3, <3>1
  <2>4. CASE ForceStop
    BY <1>0, <1>1, <2>4 DEF ForceStop, LifecycleTypeOK
  <2>5. ASSUME NEW s \in Stoppers, Stopped(s)
        PROVE  /\ halt \subseteq halt'
               /\ \A r \in Stoppers : stopping'[r].pc = "wait" => stopping'[r].of \in halt'
    BY <1>2, <2>5 DEF Stopped
  <2>6. ASSUME NEW w \in Workers, MonitorEnds(w)
        PROVE  /\ halt \subseteq halt'
               /\ \A r \in Stoppers : stopping'[r].pc = "wait" => stopping'[r].of \in halt'
    <3>1. CASE entry = None
      BY <2>1, <2>6, <3>1 DEF MonitorEnds
    <3>2. CASE entry # None
      BY <1>0, <1>1, <2>6, <3>2 DEF MonitorEnds, LifecycleTypeOK
    <3> QED
      BY <3>1, <3>2
  <2>7. CASE \/ \E c \in Clients : \/ Configure(c) \/ Join(c) \/ Launch(c) \/ Rejoin(c)
             \/ Launched \/ \E w \in Workers : WorkerEnds(w) \/ WorkerDies(w)
             \/ UNCHANGED lifecycleVars
    BY <2>1, <2>7 DEF Configure, Join, Launch, Rejoin, Launched, WorkerEnds,
                      WorkerDies, lifecycleVars
  <2> QED
    BY <2>2, <2>3, <2>4, <2>5, <2>6, <2>7 DEF LifecycleNext
<1>5. \A w \in Workers : worker'[w] \in {"ending", "dead"} => w \in halt' \/ w \in crashed'
  <2>1. CASE UNCHANGED worker /\ crashed \subseteq crashed'
    BY <1>4, <2>1 DEF Causes
  <2>2. ASSUME NEW c \in Clients, Launch(c)
        PROVE \A w \in Workers : worker'[w] \in {"ending", "dead"} => w \in halt' \/ w \in crashed'
    BY <1>4, <2>2 DEF Launch, LifecycleTypeOK, Causes
  <2>3. ASSUME NEW s \in Stoppers, Stopped(s)
        PROVE \A w \in Workers : worker'[w] \in {"ending", "dead"} => w \in halt' \/ w \in crashed'
    BY <1>4, <2>3 DEF Stopped, LifecycleTypeOK, Causes
  <2>4. ASSUME NEW v \in Workers, WorkerEnds(v) \/ WorkerDies(v)
        PROVE \A w \in Workers : worker'[w] \in {"ending", "dead"} => w \in halt' \/ w \in crashed'
    BY <1>4, <2>4 DEF WorkerEnds, WorkerDies, LifecycleTypeOK, Causes
  <2> QED
    BY <2>1, <2>2, <2>3, <2>4, ProcessSteps
<1>6. entry' \in {None, launched'}
  <2>1. CASE UNCHANGED <<entry, launched>>
    BY <2>1 DEF Causes
  <2>2. CASE \E c \in Clients : Launch(c)
    BY <2>2 DEF Launch
  <2>3. CASE \E s \in Stoppers : Stopped(s)
    BY <2>3 DEF Stopped
  <2>4. CASE \E w \in Workers : WorkerEnds(w) \/ WorkerDies(w)
    BY <2>1, <2>4 DEF WorkerEnds, WorkerDies
  <2> QED
    BY <2>1, <2>2, <2>3, <2>4, ProcessSteps
<1>7. \A w \in Workers : monitor'[w] = "on" => w <= launched'
  <2>1. launched \in Nat /\ launched' \in Nat /\ launched <= launched'
    <3>1. CASE UNCHANGED launched
      BY <3>1 DEF LifecycleTypeOK
    <3>2. CASE \E c \in Clients : Launch(c)
      BY <3>2 DEF Launch, LifecycleTypeOK
    <3> QED
      BY <3>1, <3>2, ProcessSteps DEF Stopped, WorkerEnds, WorkerDies
  <2>2. \A w \in Workers : monitor'[w] = "on" => monitor[w] = "on" \/ w = entry
    <3>1. CASE UNCHANGED monitor
      BY <3>1
    <3>2. CASE Launched
      BY <3>2 DEF Launched, LifecycleTypeOK
    <3>3. ASSUME NEW s \in Stoppers, Stopped(s)
          PROVE  \A w \in Workers : monitor'[w] = "on" => monitor[w] = "on"
      BY <3>3 DEF Stopped, LifecycleTypeOK
    <3>4. ASSUME NEW v \in Workers, MonitorEnds(v)
          PROVE  \A w \in Workers : monitor'[w] = "on" => monitor[w] = "on"
      BY <3>4 DEF MonitorEnds, LifecycleTypeOK
    <3> QED
      BY <3>1, <3>2, <3>3, <3>4
         DEF LifecycleNext, lifecycleVars, Configure, Join, Launch, Rejoin, 
             Disconnect, LeftRoom, ForceStop, WorkerEnds, WorkerDies
  <2> QED
    BY <2>1, <2>2 DEF Causes, LifecycleTypeOK
<1> QED
  BY <1>4, <1>5, <1>6, <1>7 DEF Causes

\* A persistent worker that runs well is stopped by the operator's stop, or by the
\* monitor task of a worker launched before it, and by nobody else.
THEOREM StopsHaveCauses == LifecycleSpec => StoppedForCause
<1> USE LifecycleAssumption DEF Workers, None
<1>1. LifecycleInit => Causes
  BY DEF LifecycleInit, Causes, Idle
<1>2. ASSUME LifecycleTypeOK, NamesWorker, Causes, [LifecycleNext]_lifecycleVars,
             NEW w \in halt' \ halt
      PROVE  \/ w \notin persistent' \/ w \in crashed
             \/ \E v \in Workers : /\ v < w /\ monitor[v] = "on"
                                   /\ worker[v] \in {"ending", "dead"}
  <2>0. Clients \subseteq Stoppers /\ Operator \in Stoppers /\ Workers \subseteq Stoppers
    BY DEF Stoppers
  <2>1. ASSUME NEW s \in Stoppers, NEW v \in Workers, Shutdown(s, v) PROVE w = v
    BY <1>2, <2>1 DEF Shutdown
  <2>2. ASSUME NEW c \in Clients, NEW v \in Workers, LastOneOut(c, v), UNCHANGED persistent
        PROVE  w \notin persistent'
    BY <1>2, <2>0, <2>1, <2>2 DEF LastOneOut
  <2>3. ASSUME NEW c \in Clients, Disconnect(c) PROVE w \notin persistent'
    <3>1. LastOneOut(c, entry) /\ entry \in Workers /\ UNCHANGED persistent
      BY <1>2, <2>3 DEF Disconnect, LifecycleTypeOK
    <3> QED
      BY <2>2, <3>1
  <2>4. ASSUME NEW c \in Clients, LeftRoom(c) PROVE w \notin persistent'
    <3>1. LastOneOut(c, stopping[c].of) /\ stopping[c].of \in Workers /\ UNCHANGED persistent
      BY <1>2, <2>0, <2>4 DEF LeftRoom, NamesWorker
    <3> QED
      BY <2>2, <3>1
  <2>5. CASE ForceStop
    BY <1>2, <2>0, <2>1, <2>5 DEF ForceStop, LifecycleTypeOK
  <2>6. ASSUME NEW v \in Workers, MonitorEnds(v)
        PROVE  \/ w \in crashed
               \/ v < w /\ monitor[v] = "on" /\ worker[v] \in {"ending", "dead"}
    <3>1. entry # None /\ Shutdown(v, entry) /\ entry \in Workers
      BY <1>2, <2>6 DEF MonitorEnds, LifecycleTypeOK
    <3>2. w = entry /\ monitor[v] = "on" /\ worker[v] \in {"ending", "dead"}
      BY <2>0, <2>1, <2>6, <3>1 DEF MonitorEnds
    <3>3. v <= launched /\ entry = launched /\ launched \in Nat
      BY <1>2, <3>1, <3>2 DEF Causes, LifecycleTypeOK
    <3>4. v = entry => w \in crashed
      BY <1>2, <3>2 DEF Causes
    <3> QED
      BY <3>2, <3>3, <3>4
  <2>7. CASE \/ \E c \in Clients : \/ Configure(c) \/ Join(c) \/ Launch(c) \/ Rejoin(c)
             \/ Launched \/ \E s \in Stoppers : Stopped(s)
             \/ \E v \in Workers : WorkerEnds(v) \/ WorkerDies(v)
             \/ UNCHANGED lifecycleVars
    BY <1>2, <2>7 DEF Configure, Join, Launch, Rejoin, Launched, Stopped,
                      WorkerEnds, WorkerDies, lifecycleVars
  <2> QED
    BY <1>2, <2>3, <2>4, <2>5, <2>6, <2>7 DEF LifecycleNext
<1>3. LifecycleTypeOK /\ NamesWorker /\ Causes /\ [LifecycleNext]_lifecycleVars =>
        /\ Causes'
        /\ [\A w \in halt' \ halt :
              \/ w \notin persistent' \/ w \in crashed
              \/ \E v \in Workers : /\ v < w /\ monitor[v] = "on"
                                    /\ worker[v] \in {"ending", "dead"}]_lifecycleVars
  BY <1>2, CausesNext
<1> QED
  BY <1>1, <1>3, InOrderOfStartAlways, PTL DEF LifecycleSpec, StoppedForCause

\* A process that has lost its entry is never told to stop: neither the operator,
\* nor sessions that leave, nor a monitor reach it, and it holds the radio until
\* it crashes.
THEOREM LostForGood ==
    LifecycleSpec => [][\A w \in Workers : Lost(w) => Lost(w)' \/ w \in crashed']_lifecycleVars
<1>1. ASSUME LifecycleTypeOK, NamesWorker, InOrderOfStart, [LifecycleNext]_lifecycleVars,
             NEW w \in Workers, Lost(w)
      PROVE  Lost(w)' \/ w \in crashed'
  <2> USE LifecycleAssumption
  <2>1. w # None /\ w <= launched /\ launched \in Nat
    BY <1>1 DEF None, Workers, Lost, Alive, InOrderOfStart, LifecycleTypeOK
  <2>2. w \notin halt' /\ \A s \in Stoppers : stopping'[s].of # w
    BY <1>1, <2>1, CallsAndHalts DEF Lost
  <2>3. CASE UNCHANGED <<entry, launched, worker>>
    BY <1>1, <2>2, <2>3 DEF Lost, Alive
  <2>4. ASSUME NEW c \in Clients, Launch(c) PROVE Lost(w)'
    <3>1. launched' = launched + 1 /\ entry' = launched' /\ w # launched'
      BY <2>1, <2>4 DEF Launch
    <3>2. worker'[w] = worker[w]
      BY <1>1, <2>4, <3>1 DEF Launch, LifecycleTypeOK
    <3> QED
      BY <1>1, <2>2, <3>1, <3>2 DEF Lost, Alive
  <2>5. ASSUME NEW s \in Stoppers, Stopped(s) PROVE Lost(w)'
    <3>1. worker'[w] = worker[w] /\ entry' = None
      BY <1>1, <2>5 DEF Stopped, Lost, LifecycleTypeOK
    <3> QED
      BY <1>1, <2>1, <2>2, <3>1 DEF Lost, Alive
  <2>6. ASSUME NEW v \in Workers, WorkerEnds(v) \/ WorkerDies(v)
        PROVE  Lost(w)' \/ w \in crashed'
    <3>1. CASE v # w
      <4>1. worker'[w] = worker[w] /\ UNCHANGED entry
        BY <1>1, <2>6, <3>1 DEF WorkerEnds, WorkerDies, LifecycleTypeOK
      <4> QED
        BY <1>1, <2>2, <4>1 DEF Lost, Alive
    <3>2. CASE v = w
      BY <1>1, <2>6, <3>2 DEF WorkerEnds, WorkerDies, Lost, InOrderOfStart
    <3> QED
      BY <3>1, <3>2
  <2> QED
    BY <1>1, <2>3, <2>4, <2>5, <2>6, ProcessSteps
<1>2. LifecycleTypeOK /\ NamesWorker /\ InOrderOfStart /\ [LifecycleNext]_lifecycleVars =>
        [\A w \in Workers : Lost(w) => Lost(w)' \/ w \in crashed']_lifecycleVars
  BY <1>1
<1> QED
  BY <1>2, InOrderOfStartAlways, PTL DEF LifecycleSpec

-----------------------------------------------------------------------------
(* The decoder of a VFO.                                                   *)

Looks(c) == command[c].pc = "lookup"
Runs(r) == restart[r].pc \in {"killed", "dropped", "made"}
Pending(r) == restart[r].pc \notin {"new", "done"}

LEMMA CommandSets ==
    ASSUME DecodersTypeOK, NEW c \in Commands, NEW pc \in {"new", "lookup", "done"},
           NEW t \in Types \cup {"none"}, CommandIs(c, pc, t)
    PROVE  /\ command' \in [Commands -> [pc : {"new", "lookup", "done"}, want : Types \cup {"none"}]]
           /\ command'[c] = [pc |-> pc, want |-> t]
           /\ \A d \in Commands : d # c => command'[d] = command[d]
BY DEF CommandIs, DecodersTypeOK

LEMMA RestartSets ==
    ASSUME DecodersTypeOK, NEW r \in Restarts,
           NEW pc \in {"new", "due", "killed", "dropped", "made", "done"},
           NEW of \in Decoder \cup {NoDecoder}, NEW live \in Decoder \cup {NoDecoder},
           RestartIs(r, pc, of, live)
    PROVE  /\ restart' \in [Restarts -> [pc : {"new", "due", "killed", "dropped", "made", "done"},
                                        of : Decoder \cup {NoDecoder}, live : Decoder \cup {NoDecoder}]]
           /\ restart'[r] = [pc |-> pc, of |-> of, live |-> live]
           /\ \A q \in Restarts : q # r => restart'[q] = restart[q]
BY DEF RestartIs, DecodersTypeOK

\* A decoder is created beside those there were.
LEMMA CreateSets ==
    ASSUME DecodersTypeOK, NEW t \in Types, Create(t)
    PROVE  /\ NextDecoder \in Decoder /\ class[NextDecoder] = "none"
           /\ class' \in [Decoder -> Types \cup {"none"}]
           /\ class'[NextDecoder] = t
           /\ \A d \in Decoder : d # NextDecoder => class'[d] = class[d]
           /\ alive' = alive \cup {NextDecoder}
<1>1. NextDecoder \in Decoder /\ NextDecoder \notin Started
  BY DEF Create, NextDecoder, Started
<1> QED
  BY <1>1 DEF Create, Started, DecodersTypeOK
-----------------------------------------------------------------------------
(* Types, and that a restart has a class to restart.                       *)

\* A restart that found its decoder has a class to restart.
RestartHasClass == \A r \in Restarts : Runs(r) => restart[r].of \in Decoder

DecodersTypes == DecodersTypeOK /\ RestartHasClass

\* A decoder is created, of whatever class, or of none.
LEMMA CreateTypes ==
    ASSUME DecodersTypeOK, NEW t \in Types \cup {"none"}, Create(t)
    PROVE  /\ NextDecoder \in Decoder /\ alive' \in SUBSET Decoder
           /\ class' \in [Decoder -> Types \cup {"none"}]
<1>1. NextDecoder \in Decoder
  BY DEF Create, NextDecoder, Started
<1> QED
  BY <1>1 DEF Create, DecodersTypeOK

LEMMA CommandTypes ==
    ASSUME DecodersTypes, NEW c \in Commands,
           \/ StartDecoder(c)
           \/ \E t \in Types \cup {"none"}, f \in BOOLEAN : SetDecoder(c, t, f)
    PROVE  DecodersTypes'
<1>1. UNCHANGED restart /\ RestartHasClass' /\ calm' \in BOOLEAN
  BY DEF StartDecoder, SetDecoder, Settled, DecodersTypes, DecodersTypeOK, RestartHasClass, Runs
<1>2. CASE StartDecoder(c)
  <2> DEFINE t == command[c].want
  <2>1. t \in Types \cup {"none"} /\ DecodersTypeOK
    BY DEF DecodersTypes, DecodersTypeOK
  <2>2. command' \in [Commands -> [pc : {"new", "lookup", "done"}, want : Types \cup {"none"}]]
    BY <1>2, <2>1, CommandSets DEF StartDecoder
  <2>3. CASE UNCHANGED <<class, alive, slot, recent>>
    BY <1>1, <1>2, <2>1, <2>2, <2>3 DEF StartDecoder, DecodersTypes, DecodersTypeOK
  <2>4. CASE Create(t) /\ slot' = NextDecoder /\ recent' = TRUE
    <3>1. /\ slot' \in Decoder /\ alive' \in SUBSET Decoder
          /\ class' \in [Decoder -> Types \cup {"none"}]
      BY <2>1, <2>4, CreateTypes
    <3>2. UNCHANGED setting
      BY <1>2 DEF StartDecoder
    <3> QED
      BY <1>1, <2>1, <2>2, <2>4, <3>1, <3>2 DEF DecodersTypes, DecodersTypeOK
  <2> QED
    BY <1>2, <2>3, <2>4 DEF StartDecoder
<1>3. ASSUME NEW t \in Types \cup {"none"}, NEW f \in BOOLEAN, SetDecoder(c, t, f)
      PROVE  DecodersTypes'
  <2>1. DecodersTypeOK /\ UNCHANGED <<class, recent>> /\ setting' = t
    BY <1>3 DEF SetDecoder, DecodersTypes
  <2>2. slot' \in Decoder \cup {NoDecoder} /\ alive' \in SUBSET Decoder
    BY <1>3, <2>1 DEF SetDecoder, StopDecoder, DecodersTypeOK
  <2>3. command' \in [Commands -> [pc : {"new", "lookup", "done"}, want : Types \cup {"none"}]]
    BY <1>3, <2>1, CommandSets DEF SetDecoder
  <2> QED
    BY <1>1, <2>1, <2>2, <2>3 DEF DecodersTypes, DecodersTypeOK
<1> QED
  BY <1>2, <1>3

\* What a restart writes about itself.
LEMMA RestartTypes ==
    ASSUME DecodersTypes, NEW r \in Restarts,
           NEW pc \in {"new", "due", "killed", "dropped", "made", "done"},
           NEW of \in Decoder \cup {NoDecoder}, NEW live \in Decoder \cup {NoDecoder},
           pc \in {"killed", "dropped", "made"} => of \in Decoder,
           RestartIs(r, pc, of, live), UNCHANGED <<setting, command>>,
           slot' \in Decoder \cup {NoDecoder}, alive' \in SUBSET Decoder,
           class' \in [Decoder -> Types \cup {"none"}],
           recent' \in BOOLEAN, calm' \in BOOLEAN
    PROVE  DecodersTypes'
<1>1. /\ restart' \in [Restarts -> [pc : {"new", "due", "killed", "dropped", "made", "done"},
                                   of : Decoder \cup {NoDecoder}, live : Decoder \cup {NoDecoder}]]
      /\ restart'[r] = [pc |-> pc, of |-> of, live |-> live]
      /\ \A q \in Restarts : q # r => restart'[q] = restart[q]
  BY RestartSets DEF DecodersTypes
<1>2. DecodersTypeOK'
  BY <1>1 DEF DecodersTypes, DecodersTypeOK
<1>3. RestartHasClass'
  BY <1>1 DEF DecodersTypes, RestartHasClass, Runs
<1> QED
  BY <1>2, <1>3 DEF DecodersTypes

LEMMA DecodersTypesNext == DecodersTypes /\ [DecodersNext]_decoderVars => DecodersTypes'
<1> SUFFICES ASSUME DecodersTypes, [DecodersNext]_decoderVars PROVE DecodersTypes'
  OBVIOUS
<1>1. /\ DecodersTypeOK /\ slot \in Decoder \cup {NoDecoder} /\ alive \in SUBSET Decoder
      /\ class \in [Decoder -> Types \cup {"none"}] /\ recent \in BOOLEAN
      /\ calm \in BOOLEAN
  BY DEF DecodersTypes, DecodersTypeOK
<1>2. NoDecoder \in Decoder \cup {NoDecoder}
  OBVIOUS
<1>3. CASE UNCHANGED decoderVars \/ DebounceOver
  <2>1. UNCHANGED <<setting, slot, class, alive, command, restart, calm>> /\ recent' \in BOOLEAN
    BY <1>1, <1>3 DEF decoderVars, DebounceOver
  <2> QED
    BY <2>1 DEF DecodersTypes, DecodersTypeOK, RestartHasClass, Runs
<1>4. ASSUME NEW r \in Restarts, ConfigChanges(r) \/ DecoderAsks(r) PROVE DecodersTypes'
  <2>0. calm' \in BOOLEAN
    BY <1>1, <1>4 DEF ConfigChanges, DecoderAsks
  <2>1. CASE ConfigChanges(r)
    BY <1>1, <1>2, <2>0, <2>1, RestartTypes DEF ConfigChanges
  <2>2. CASE DecoderAsks(r)
    BY <1>1, <1>2, <2>0, <2>2, RestartTypes DEF DecoderAsks
  <2> QED
    BY <1>4, <2>1, <2>2
<1>5. ASSUME NEW r \in Restarts, RestartKills(r) PROVE DecodersTypes'
  <2> DEFINE of == IF restart[r].of = NoDecoder THEN slot ELSE restart[r].of
  <2>1. of \in Decoder \cup {NoDecoder}
    BY <1>1 DEF DecodersTypeOK
  <2>2. UNCHANGED <<setting, slot, class, command, recent, calm>> /\ alive' \in SUBSET Decoder
    BY <1>1, <1>5 DEF RestartKills
  <2>3. CASE of = NoDecoder
    <3>1. RestartIs(r, "done", NoDecoder, NoDecoder)
      BY <1>5, <2>3 DEF RestartKills
    <3> QED
      BY <1>1, <1>2, <2>2, <3>1, RestartTypes
  <2>4. CASE of # NoDecoder
    <3>1. RestartIs(r, "killed", of, slot)
      BY <1>5, <2>4 DEF RestartKills
    <3>2. of \in Decoder
      BY <2>1, <2>4
    <3> HIDE DEF of
    <3> QED
      BY <1>1, <2>2, <3>1, <3>2, RestartTypes
  <2> QED
    BY <2>3, <2>4
<1>6. ASSUME NEW r \in Restarts, Runs(r)
      PROVE  restart[r].of \in Decoder /\ restart[r].live \in Decoder \cup {NoDecoder}
  BY <1>1, <1>6 DEF DecodersTypes, RestartHasClass, DecodersTypeOK
<1>7. ASSUME NEW r \in Restarts, RestartDrops(r) PROVE DecodersTypes'
  <2>1. restart[r].of \in Decoder /\ restart[r].live \in Decoder \cup {NoDecoder}
    BY <1>6, <1>7 DEF RestartDrops, Runs
  <2>2. slot' \in Decoder \cup {NoDecoder} /\ UNCHANGED <<setting, class, alive, command, recent, calm>>
    BY <1>1, <1>7 DEF RestartDrops
  <2> QED
    BY <1>1, <1>7, <2>1, <2>2, RestartTypes DEF RestartDrops
<1>8. ASSUME NEW r \in Restarts, RestartCreates(r) PROVE DecodersTypes'
  <2>1. restart[r].of \in Decoder
    BY <1>6, <1>8 DEF RestartCreates, Runs
  <2>2. Create(class[restart[r].of]) /\ class[restart[r].of] \in Types \cup {"none"}
    BY <1>1, <1>8, <2>1 DEF RestartCreates
  <2>3. /\ NextDecoder \in Decoder /\ alive' \in SUBSET Decoder
        /\ class' \in [Decoder -> Types \cup {"none"}]
    BY <1>1, <2>2, CreateTypes
  <2>4. RestartIs(r, "made", restart[r].of, NextDecoder) /\ UNCHANGED <<setting, slot, command, recent, calm>>
    BY <1>8 DEF RestartCreates
  <2> QED
    BY <1>1, <2>1, <2>3, <2>4, RestartTypes
<1>9. ASSUME NEW r \in Restarts, RestartStores(r) PROVE DecodersTypes'
  <2>1. restart[r].of \in Decoder /\ restart[r].live \in Decoder \cup {NoDecoder}
    BY <1>6, <1>9 DEF RestartStores, Runs
  <2>2. slot' = restart[r].live /\ recent' = TRUE /\ UNCHANGED <<setting, class, alive, command, calm>>
    BY <1>9 DEF RestartStores
  <2> QED
    BY <1>1, <1>9, <2>1, <2>2, RestartTypes DEF RestartStores
<1> QED
  BY <1>3, <1>4, <1>5, <1>7, <1>8, <1>9, CommandTypes DEF DecodersNext

LEMMA DecodersInitTypes == DecodersInit => DecodersTypes
<1> SUFFICES ASSUME DecodersInit PROVE DecodersTypes
  OBVIOUS
<1> USE DecodersAssumption DEF DecodersInit
<1>1. /\ class \in [Decoder -> Types \cup {"none"}]
      /\ command \in [Commands -> [pc : {"new", "lookup", "done"}, want : Types \cup {"none"}]]
  OBVIOUS
<1>2. restart \in [Restarts -> [pc : {"new", "due", "killed", "dropped", "made", "done"},
                               of : Decoder \cup {NoDecoder}, live : Decoder \cup {NoDecoder}]]
  BY DEF NewRestart
<1>3. RestartHasClass
  BY DEF RestartHasClass, Runs, NewRestart
<1> QED
  BY <1>1, <1>2, <1>3 DEF DecodersTypes, DecodersTypeOK

\* Whatever commands and restarts overlap, each restart has a decoder to take
\* the class from, and the table stays what the types say.
THEOREM DecodersTypeCorrect == DecodersSpec => []DecodersTypeOK
<1>1. DecodersTypes => DecodersTypeOK
  BY DEF DecodersTypes
<1> QED
  BY <1>1, DecodersInitTypes, DecodersTypesNext, PTL DEF DecodersSpec
-----------------------------------------------------------------------------
(* Where a running decoder is found when commands and restarts overlap.    *)

\* A decoder that runs, and that nothing knows of.
Unreached(d) ==
    d \in alive /\ d # slot /\ \A r \in Restarts : restart[r].pc = "made" => restart[r].live # d

\* What runs, is stored, wanted or put back has a class, and so its number is not
\* given to another.
Classed ==
    /\ alive \subseteq Started
    /\ slot # NoDecoder => slot \in Started
    /\ \A c \in Commands : Looks(c) => command[c].want # "none"
    /\ \A r \in Restarts : /\ restart[r].of # NoDecoder => restart[r].of \in Started
                           /\ restart[r].pc = "made" => restart[r].live \in Started

\* A step that starts no decoder and hands on what is classed.
LEMMA ClassedIfKept ==
    ASSUME Classed, UNCHANGED class, alive' \subseteq alive,
           slot' \in {slot, NoDecoder} \/ slot' \in Started,
           \A c \in Commands : Looks(c)' => command'[c] = command[c] \/ command'[c].want # "none",
           \A r \in Restarts : \/ restart'[r] = restart[r]
                               \/ /\ restart'[r].of # NoDecoder => restart'[r].of \in Started
                                  /\ restart'[r].pc # "made"
    PROVE  Classed'
BY DEF Classed, Started, Looks

\* A new decoder is none of those that were.
LEMMA ClassedIfCreated ==
    ASSUME DecodersTypeOK, Classed, NEW t \in Types, Create(t)
    PROVE  /\ NextDecoder \notin Started /\ Started \subseteq Started'
           /\ NextDecoder \in Started' /\ alive' \subseteq Started'
<1>1. /\ NextDecoder \in Decoder /\ class[NextDecoder] = "none"
      /\ class'[NextDecoder] = t
      /\ \A d \in Decoder : d # NextDecoder => class'[d] = class[d]
      /\ alive' = alive \cup {NextDecoder}
  BY CreateSets
<1>2. t # "none"
  BY DecodersAssumption
<1> QED
  BY <1>1, <1>2 DEF Started, Classed

LEMMA ClassedInit == DecodersInit => Classed
BY DEF DecodersInit, Classed, Started, Looks, NewRestart

LEMMA StartClassed ==
    ASSUME DecodersTypes, Classed, NEW c \in Commands, StartDecoder(c)
    PROVE  Classed' /\ \A d \in Decoder : Unreached(d) => Unreached(d)'
<1>1. /\ Looks(c) /\ UNCHANGED restart
      /\ command[c].want \in Types /\ DecodersTypeOK
  BY DEF StartDecoder, Looks, Classed, DecodersTypes, DecodersTypeOK
<1>2. /\ command'[c].pc = "done"
      /\ \A d \in Commands : d # c => command'[d] = command[d]
  <2>1. CommandIs(c, "done", command[c].want)
    BY DEF StartDecoder
  <2>2. /\ command'[c] = [pc |-> "done", want |-> command[c].want]
        /\ \A d \in Commands : d # c => command'[d] = command[d]
    BY <1>1, <2>1, CommandSets
  <2> QED
    BY <2>2
<1>3. CASE UNCHANGED <<class, alive, slot, recent>>
  BY <1>1, <1>2, <1>3 DEF Classed, Started, Looks, Unreached
<1>4. CASE Create(command[c].want) /\ slot' = NextDecoder
  <2>1. /\ NextDecoder \notin Started /\ Started \subseteq Started'
        /\ NextDecoder \in Started' /\ alive' \subseteq Started'
    BY <1>1, <1>4, ClassedIfCreated
  <2>2. alive \subseteq alive'
    BY <1>4 DEF Create
  <2>3. Classed'
    BY <1>1, <1>2, <1>4, <2>1 DEF Classed, Looks
  <2> QED
    BY <1>1, <1>4, <2>1, <2>2, <2>3 DEF Unreached, Classed
<1> QED
  BY <1>3, <1>4 DEF StartDecoder

LEMMA SetClassed ==
    ASSUME DecodersTypes, Classed, NEW c \in Commands, NEW t \in Types \cup {"none"},
           NEW f \in BOOLEAN, SetDecoder(c, t, f)
    PROVE  Classed' /\ \A d \in Decoder : Unreached(d) => Unreached(d)'
<1>1. DecodersTypeOK /\ UNCHANGED <<class, restart>>
  BY DEF SetDecoder, DecodersTypes
<1>2. alive \ {slot} \subseteq alive' /\ alive' \subseteq alive /\ slot' \in {slot, NoDecoder}
  BY DEF SetDecoder, StopDecoder
<1>3. /\ \A d \in Commands : d # c => command'[d] = command[d]
      /\ Looks(c)' => command'[c].want # "none"
  <2>1. CASE CommandIs(c, "done", t)
    <3>1. /\ command'[c] = [pc |-> "done", want |-> t]
          /\ \A d \in Commands : d # c => command'[d] = command[d]
      BY <1>1, <2>1, CommandSets
    <3> QED
      BY <3>1 DEF Looks
  <2>2. CASE t # "none" /\ CommandIs(c, "lookup", t)
    <3>1. /\ command'[c] = [pc |-> "lookup", want |-> t]
          /\ \A d \in Commands : d # c => command'[d] = command[d]
      BY <1>1, <2>2, CommandSets
    <3> QED
      BY <2>2, <3>1 DEF Looks
  <2> QED
    BY <2>1, <2>2 DEF SetDecoder
<1>4. Classed'
  BY <1>1, <1>2, <1>3, ClassedIfKept
<1>5. ASSUME NEW d \in Decoder, Unreached(d) PROVE Unreached(d)'
  BY <1>1, <1>2, <1>5 DEF Unreached, NoDecoder, Decoder
<1> QED
  BY <1>4, <1>5

\* The restart's record after each of its steps.
LEMMA RestartStepSets ==
    ASSUME DecodersTypes, NEW r \in Restarts,
           NEW pc \in {"new", "due", "killed", "dropped", "made", "done"},
           NEW of \in Decoder \cup {NoDecoder}, NEW live \in Decoder \cup {NoDecoder},
           RestartIs(r, pc, of, live)
    PROVE  /\ restart'[r] = [pc |-> pc, of |-> of, live |-> live]
           /\ \A q \in Restarts : q # r => restart'[q] = restart[q]
BY RestartSets DEF DecodersTypes

LEMMA RestartClassed ==
    ASSUME DecodersTypes, Classed, NEW r \in Restarts,
           \/ ConfigChanges(r) \/ DecoderAsks(r) \/ RestartKills(r)
           \/ RestartDrops(r) \/ RestartStores(r)
    PROVE  Classed' /\ \A d \in Decoder : Unreached(d) => Unreached(d)'
<1>1. /\ DecodersTypeOK /\ slot \in Decoder \cup {NoDecoder}
      /\ restart[r].of \in Decoder \cup {NoDecoder}
      /\ restart[r].live \in Decoder \cup {NoDecoder}
  BY DEF DecodersTypes, DecodersTypeOK
<1>2. UNCHANGED <<class, command>>
  BY DEF ConfigChanges, DecoderAsks, RestartKills, RestartDrops, RestartStores
<1>3. ASSUME NEW pc \in {"due", "killed", "dropped", "done"},
             NEW of \in {NoDecoder, slot, restart[r].of}, NEW live \in Decoder \cup {NoDecoder},
             RestartIs(r, pc, of, live), alive \ {slot} \subseteq alive', alive' \subseteq alive,
             \/ slot' \in {slot, NoDecoder}
             \/ restart[r].pc = "made" /\ slot' = restart[r].live,
             restart[r].pc = "made" => slot' = restart[r].live
      PROVE  Classed' /\ \A d \in Decoder : Unreached(d) => Unreached(d)'
  <2>1. /\ restart'[r] = [pc |-> pc, of |-> of, live |-> live]
        /\ \A q \in Restarts : q # r => restart'[q] = restart[q]
    BY <1>1, <1>3, RestartStepSets
  <2>2. Classed'
    <3>1. of # NoDecoder => of \in Started
      BY <1>3 DEF Classed
    <3>2. slot' \in {slot, NoDecoder} \/ slot' \in Started
      BY <1>3 DEF Classed
    <3> QED
      BY <1>2, <1>3, <2>1, <3>1, <3>2, ClassedIfKept
  <2>3. ASSUME NEW d \in Decoder, Unreached(d) PROVE Unreached(d)'
    <3>1. d # slot' /\ d \in alive'
      BY <1>3, <2>3 DEF Unreached, NoDecoder, Decoder
    <3> QED
      BY <2>1, <2>3, <3>1 DEF Unreached
  <2> QED
    BY <2>2, <2>3
<1>4. CASE ConfigChanges(r)
  BY <1>1, <1>3, <1>4 DEF ConfigChanges
<1>5. CASE DecoderAsks(r)
  BY <1>1, <1>3, <1>5 DEF DecoderAsks
<1>6. CASE RestartKills(r)
  <2> DEFINE of == IF restart[r].of = NoDecoder THEN slot ELSE restart[r].of
  <2>1. CASE of = NoDecoder
    BY <1>1, <1>3, <1>6, <2>1 DEF RestartKills
  <2>2. CASE of # NoDecoder
    <3>1. /\ RestartIs(r, "killed", of, slot) /\ alive' = alive \ {slot} /\ slot' = slot
          /\ restart[r].pc = "due" /\ of \in {slot, restart[r].of}
      BY <1>6, <2>2 DEF RestartKills
    <3> HIDE DEF of
    <3> QED
      BY <1>1, <1>3, <3>1
  <2> QED
    BY <2>1, <2>2
<1>7. CASE RestartDrops(r)
  BY <1>1, <1>3, <1>7 DEF RestartDrops
<1>8. CASE RestartStores(r)
  BY <1>1, <1>3, <1>8 DEF RestartStores
<1> QED
  BY <1>4, <1>5, <1>6, <1>7, <1>8

LEMMA CreatesClassed ==
    ASSUME DecodersTypes, Classed, NEW r \in Restarts, RestartCreates(r)
    PROVE  Classed' /\ \A d \in Decoder : Unreached(d) => Unreached(d)'
<1>1. /\ restart[r].of \in Started /\ restart[r].of \in Decoder /\ DecodersTypeOK
      /\ restart[r].pc = "dropped"
  BY DEF DecodersTypes, RestartHasClass, Runs, RestartCreates, Classed, Decoder, NoDecoder
<1>2. Create(class[restart[r].of]) /\ class[restart[r].of] \in Types
  BY <1>1 DEF RestartCreates, Started, DecodersTypeOK
<1>3. /\ NextDecoder \notin Started /\ Started \subseteq Started'
      /\ NextDecoder \in Started' /\ alive' \subseteq Started' /\ NextDecoder \in Decoder
  BY <1>1, <1>2, ClassedIfCreated, CreateSets
<1>4. alive \subseteq alive'
  BY <1>2 DEF Create
<1>5. /\ restart'[r] = [pc |-> "made", of |-> restart[r].of, live |-> NextDecoder]
      /\ \A q \in Restarts : q # r => restart'[q] = restart[q]
      /\ UNCHANGED <<slot, command>>
  BY <1>1, <1>3, RestartStepSets DEF RestartCreates
<1>6. Classed'
  BY <1>1, <1>3, <1>5 DEF Classed, Looks
<1>7. ASSUME NEW d \in Decoder, Unreached(d) PROVE Unreached(d)'
  BY <1>3, <1>4, <1>5, <1>7 DEF Unreached, Classed
<1> QED
  BY <1>6, <1>7

LEMMA ClassedNext ==
    ASSUME DecodersTypes, Classed, [DecodersNext]_decoderVars
    PROVE  Classed' /\ \A d \in Decoder : Unreached(d) => Unreached(d)'
<1>1. CASE UNCHANGED decoderVars \/ DebounceOver
  BY <1>1 DEF decoderVars, DebounceOver, Classed, Started, Looks, Unreached
<1> QED
  BY <1>1, StartClassed, SetClassed, RestartClassed, CreatesClassed DEF DecodersNext

\* However commands and restarts overlap, a running decoder drops out of sight only
\* where a restart clears or fills the slot without a look at what a command has put
\* there meanwhile (_restart_decoder_async); and then no command and no restart
\* ever stops it.
THEOREM DecoderLostOnlyByRestart ==
    DecodersSpec =>
        /\ DecoderKept
        /\ [][\A d \in Decoder : Unreached(d) => Unreached(d)']_decoderVars
<1>1. DecodersInit => DecodersTypes /\ Classed
  BY DecodersInitTypes, ClassedInit
<1>2. DecodersTypes /\ Classed /\ [DecodersNext]_decoderVars => (DecodersTypes /\ Classed)'
  BY DecodersTypesNext, ClassedNext
<1>3. ASSUME DecodersTypes, Classed, [DecodersNext]_decoderVars, OneDecoder, ~OneDecoder'
      PROVE  \E r \in Restarts : (RestartDrops(r) \/ RestartStores(r)) /\ slot \in alive
  <2>1. PICK d \in alive' : /\ d # slot'
                            /\ \A r \in Restarts : restart'[r].pc = "made" => restart'[r].live # d
    BY <1>3 DEF OneDecoder
  <2>2. CASE UNCHANGED decoderVars \/ DebounceOver
    BY <1>3, <2>2 DEF decoderVars, DebounceOver, OneDecoder
  <2>3. ~ \E c \in Commands : StartDecoder(c)
    BY <1>3, <2>1 DEF StartDecoder, Create, OneDecoder
  <2>4. ~ \E c \in Commands, t \in Types \cup {"none"}, f \in BOOLEAN : SetDecoder(c, t, f)
    BY <1>3, <2>1 DEF SetDecoder, StopDecoder, OneDecoder
  <2>5. ASSUME NEW r \in Restarts,
               ConfigChanges(r) \/ DecoderAsks(r) \/ RestartKills(r) \/ RestartCreates(r)
        PROVE  FALSE
    <3>1. /\ \A q \in Restarts : q # r => restart'[q] = restart[q]
          /\ restart[r].pc # "made" /\ slot' = slot
      BY <1>3, <2>5 DEF ConfigChanges, DecoderAsks, RestartKills, RestartCreates, RestartIs,
                        DecodersTypes, DecodersTypeOK
    <3>2. d \notin alive
      BY <1>3, <2>1, <3>1 DEF OneDecoder
    <3>3. RestartCreates(r)
      BY <2>1, <2>5, <3>2 DEF ConfigChanges, DecoderAsks, RestartKills
    <3>4. d = NextDecoder
      BY <2>1, <3>2, <3>3 DEF RestartCreates, Create
    <3>5. restart'[r] = [pc |-> "made", of |-> restart[r].of, live |-> NextDecoder]
      BY <1>3, <3>3 DEF RestartCreates, RestartIs, DecodersTypes, DecodersTypeOK
    <3> QED
      BY <2>1, <3>4, <3>5
  <2>6. ASSUME NEW r \in Restarts, RestartDrops(r) \/ RestartStores(r) PROVE slot \in alive
    <3>1. /\ \A q \in Restarts : q # r => restart'[q] = restart[q]
          /\ alive' = alive
          /\ restart[r].pc = "made" => slot' = restart[r].live
      BY <1>3, <2>6 DEF RestartDrops, RestartStores, RestartIs, DecodersTypes, DecodersTypeOK
    <3> QED
      BY <1>3, <2>1, <3>1 DEF OneDecoder
  <2> QED
    BY <1>3, <2>2, <2>3, <2>4, <2>5, <2>6 DEF DecodersNext
<1>4. DecodersTypes /\ Classed /\ [DecodersNext]_decoderVars =>
        /\ [OneDecoder => \/ OneDecoder'
                          \/ \E r \in Restarts : /\ RestartDrops(r) \/ RestartStores(r)
                                                 /\ slot \in alive]_decoderVars
        /\ [\A d \in Decoder : Unreached(d) => Unreached(d)']_decoderVars
  BY <1>3, ClassedNext
<1> QED
  BY <1>1, <1>2, <1>4, PTL DEF DecodersSpec, DecoderKept
-----------------------------------------------------------------------------
(* The slot: what it holds runs, but for the while a restart takes it out.  *)

OneRestart == \A r, q \in Restarts : Runs(r) /\ Runs(q) => r = q
SlotLives ==
    slot # NoDecoder /\ slot \notin alive =>
        \E r \in Restarts : restart[r].pc = "killed" /\ restart[r].live = slot
MadeLives ==
    \A r \in Restarts : restart[r].pc = "made" =>
        restart[r].live \in alive /\ restart[r].live # slot
SlotInv == DecodersTypes /\ Classed /\ OneRestart /\ SlotLives /\ MadeLives

LEMMA SlotIfNoRestart ==
    ASSUME SlotInv, UNCHANGED restart,
           \/ UNCHANGED <<alive, slot>>
           \/ StopDecoder
           \/ /\ slot' \in alive' /\ alive \subseteq alive'
              /\ \A r \in Restarts : restart[r].pc # "made"
    PROVE  OneRestart' /\ SlotLives' /\ MadeLives'
<1>1. OneRestart'
  BY DEF SlotInv, OneRestart, Runs
<1>2. CASE UNCHANGED <<alive, slot>>
  BY <1>1, <1>2 DEF SlotInv, SlotLives, MadeLives
<1>3. CASE StopDecoder
  BY <1>1, <1>3 DEF SlotInv, SlotLives, MadeLives, StopDecoder, DecodersTypes, DecodersTypeOK,
                    NoDecoder, Decoder
<1>4. CASE /\ slot' \in alive' /\ alive \subseteq alive'
           /\ \A r \in Restarts : restart[r].pc # "made"
  BY <1>1, <1>4 DEF SlotInv, SlotLives, MadeLives
<1> QED
  BY <1>2, <1>3, <1>4

LEMMA SlotNext == SlotInv /\ [DecodersNext]_decoderVars => SlotInv'
<1> SUFFICES ASSUME SlotInv, [DecodersNext]_decoderVars PROVE OneRestart' /\ SlotLives' /\ MadeLives'
  BY DecodersTypesNext, ClassedNext DEF SlotInv
<1> USE DEF Runs
<1>0. DecodersTypes /\ DecodersTypeOK /\ alive \subseteq Decoder /\ slot \in Decoder \cup {NoDecoder}
  BY DEF SlotInv, DecodersTypes, DecodersTypeOK
<1>1. CASE DebounceOver \/ UNCHANGED decoderVars
  BY <1>1, SlotIfNoRestart DEF DebounceOver, decoderVars
<1>2. ASSUME NEW c \in Commands, NEW t \in Types \cup {"none"}, NEW f \in BOOLEAN,
             SetDecoder(c, t, f)
      PROVE  OneRestart' /\ SlotLives' /\ MadeLives'
  BY <1>2, SlotIfNoRestart DEF SetDecoder
<1>3. ASSUME NEW c \in Commands, StartDecoder(c) PROVE OneRestart' /\ SlotLives' /\ MadeLives'
  <2>1. \/ UNCHANGED <<alive, slot>>
        \/ slot' \in alive' /\ alive \subseteq alive'
    BY <1>3 DEF StartDecoder, Create
  <2>2. UNCHANGED restart /\ \A r \in Restarts : restart[r].pc # "made"
    BY <1>3 DEF StartDecoder, StartLocked
  <2> QED
    BY <2>1, <2>2, SlotIfNoRestart
<1>4. ASSUME NEW r \in Restarts,
             \/ ConfigChanges(r) \/ DecoderAsks(r) \/ RestartKills(r)
             \/ RestartDrops(r) \/ RestartCreates(r) \/ RestartStores(r)
      PROVE  OneRestart' /\ SlotLives' /\ MadeLives'
  <2>1. \A q \in Restarts : q # r => restart'[q] = restart[q]
    BY <1>0, <1>4 DEF ConfigChanges, DecoderAsks, RestartKills, RestartDrops, RestartCreates,
                      RestartStores, RestartIs, DecodersTypeOK
  <2>2. CASE ConfigChanges(r) \/ DecoderAsks(r)
    <3>1. restart[r].pc = "new" /\ restart'[r].pc = "due" /\ UNCHANGED <<alive, slot>>
      BY <1>0, <2>2 DEF ConfigChanges, DecoderAsks, RestartIs, DecodersTypeOK
    <3> QED
      BY <2>1, <3>1 DEF SlotInv, OneRestart, SlotLives, MadeLives
  <2>3. CASE RestartKills(r)
    <3>1. /\ restart[r].pc = "due" /\ slot' = slot /\ \A q \in Restarts : ~Runs(q)
          /\ \/ restart'[r].pc = "done" /\ alive' = alive
             \/ restart'[r].pc = "killed" /\ restart'[r].live = slot
      BY <1>0, <2>3 DEF RestartKills, RestartRuns, RestartIs, DecodersTypeOK
    <3> QED
      BY <2>1, <3>1 DEF SlotInv, OneRestart, SlotLives, MadeLives
  <2>4. ASSUME Runs(r)
        PROVE  /\ \A q \in Restarts : Runs(q) => q = r
               /\ slot # NoDecoder /\ slot \notin alive =>
                    restart[r].pc = "killed" /\ restart[r].live = slot
    BY <2>4 DEF SlotInv, OneRestart, SlotLives
  <2>5. CASE RestartDrops(r)
    <3>1. /\ restart[r].pc = "killed" /\ alive' = alive /\ restart'[r].pc = "dropped"
          /\ slot' = IF restart[r].live = NoDecoder THEN slot ELSE NoDecoder
      BY <1>0, <2>5 DEF RestartDrops, RestartIs, DecodersTypeOK
    <3> QED
      BY <2>1, <2>4, <3>1 DEF SlotInv, OneRestart, SlotLives, MadeLives
  <2>6. CASE RestartCreates(r)
    <3>1. restart[r].pc = "dropped" /\ slot' = slot /\ Create(class[restart[r].of])
      BY <2>6 DEF RestartCreates
    <3>2. NextDecoder \notin Started /\ NextDecoder \in Decoder /\ alive' = alive \cup {NextDecoder}
      BY <3>1 DEF Create, NextDecoder, Started
    <3>3. restart'[r].pc = "made" /\ restart'[r].live = NextDecoder
      BY <1>0, <2>6, <3>2 DEF RestartCreates, RestartIs, DecodersTypeOK
    <3>4. NextDecoder # slot
      BY <1>0, <3>2 DEF SlotInv, Classed, NoDecoder, Decoder
    <3> QED
      BY <2>1, <2>4, <3>1, <3>2, <3>3, <3>4 DEF SlotInv, OneRestart, SlotLives, MadeLives
  <2>7. CASE RestartStores(r)
    <3>1. /\ restart[r].pc = "made" /\ alive' = alive /\ restart'[r].pc = "done"
          /\ slot' = restart[r].live
      BY <1>0, <2>7 DEF RestartStores, RestartIs, DecodersTypeOK
    <3> QED
      BY <2>1, <2>4, <3>1 DEF SlotInv, OneRestart, SlotLives, MadeLives
  <2> QED
    BY <1>4, <2>2, <2>3, <2>5, <2>6, <2>7
<1> QED
  BY <1>1, <1>2, <1>3, <1>4 DEF DecodersNext
-----------------------------------------------------------------------------
(* What is so from a command that found nothing under way until a restart   *)
(* is asked for under a command.                                            *)

OneLookup == \A c, d \in Commands : Looks(c) /\ Looks(d) => c = d

\* The slot as it is when nothing is changing it.
AsSet ==
    IF setting = "none" THEN slot = NoDecoder
    ELSE slot \in alive /\ class[slot] = setting
Rests == (\A c \in Commands : ~Looks(c)) /\ (\A r \in Restarts : ~Runs(r)) => AsSet

LookupKnows ==
    \A c \in Commands : Looks(c) =>
        /\ \A r \in Restarts : ~Pending(r)
        /\ slot = NoDecoder /\ ~recent
        /\ command[c].want = setting /\ setting # "none"

RestartKnows ==
    \A r \in Restarts : Pending(r) =>
        /\ setting # "none"
        /\ restart[r].of # NoDecoder => class[restart[r].of] = setting
        /\ restart[r].pc = "killed" => /\ slot \in Decoder /\ slot = restart[r].live
                                       /\ class[slot] = setting
        /\ restart[r].pc = "dropped" => slot = NoDecoder
        /\ restart[r].pc = "made" => /\ slot = NoDecoder /\ restart[r].live \in Decoder
                                     /\ class[restart[r].live] = setting

Calm == OneLookup /\ Rests /\ LookupKnows /\ RestartKnows

\* A command that finds nothing under way finds what rests in the slot alive, and
\* leaves its setting there, or is alone in looking it up.
LEMMA SetDecoderCalms ==
    ASSUME SlotInv, NEW c \in Commands, NEW t \in Types \cup {"none"}, NEW force \in BOOLEAN,
           SetDecoder(c, t, force), calm'
    PROVE  Calm'
<1> USE DEF Looks, Runs, Pending
<1>1. /\ \A d \in Commands : ~Looks(d)
      /\ \A r \in Restarts : ~Pending(r) /\ ~Runs(r)
      /\ ~recent /\ DecodersTypeOK
      /\ slot # NoDecoder => slot \in alive
      /\ setting' = t /\ UNCHANGED <<class, restart, recent>>
  <2>1. Settled /\ ~recent
    BY DEF SetDecoder
  <2> QED
    BY <2>1 DEF SetDecoder, Settled, CommandRuns, RestartPending, SlotInv, SlotLives, DecodersTypes
<1>2. \A r \in Restarts : ~Pending(r)' /\ ~Runs(r)'
  BY <1>1
<1>3. ASSUME CommandIs(c, "done", t), AsSet' PROVE Calm'
  <2>1. command'[c] = [pc |-> "done", want |-> t] /\ \A d \in Commands : d # c => command'[d] = command[d]
    BY <1>1, <1>3, CommandSets
  <2>2. \A d \in Commands : ~Looks(d)'
    BY <1>1, <2>1
  <2> QED
    BY <1>2, <1>3, <2>2 DEF Calm, OneLookup, Rests, LookupKnows, RestartKnows
<1>4. CASE t = "none" /\ StopDecoder /\ CommandIs(c, "done", t)
  BY <1>1, <1>3, <1>4 DEF StopDecoder, AsSet
<1>5. CASE /\ t # "none" /\ slot # NoDecoder /\ class[slot] = t
           /\ CommandIs(c, "done", t) /\ UNCHANGED <<alive, slot>>
  BY <1>1, <1>3, <1>5 DEF AsSet
<1>6. CASE t # "none" /\ StopDecoder /\ CommandIs(c, "lookup", t)
  <2>1. command'[c] = [pc |-> "lookup", want |-> t] /\ \A d \in Commands : d # c => command'[d] = command[d]
    BY <1>1, <1>6, CommandSets
  <2>2. /\ Looks(c)' /\ command'[c].want = t
        /\ \A d \in Commands : Looks(d)' => d = c
    BY <1>1, <2>1
  <2>3. LookupKnows'
    BY <1>1, <1>2, <1>6, <2>2 DEF LookupKnows, StopDecoder
  <2> QED
    BY <1>2, <2>2, <2>3 DEF Calm, OneLookup, Rests, RestartKnows
<1> QED
  BY <1>4, <1>5, <1>6 DEF SetDecoder

\* It starts its decoder in the empty slot.
LEMMA StartDecoderCalm ==
    ASSUME SlotInv, Calm, NEW c \in Commands, StartDecoder(c)
    PROVE  Calm'
<1> USE DEF Looks, Runs, Pending
<1> DEFINE t == command[c].want
<1>1. /\ Looks(c) /\ DecodersTypeOK
      /\ \A r \in Restarts : ~Pending(r) /\ ~Runs(r)
      /\ slot = NoDecoder /\ slot \notin alive /\ ~recent
      /\ t = setting /\ setting \in Types /\ setting # "none"
  <2>1. DecodersTypeOK
    BY DEF SlotInv, DecodersTypes
  <2>2. NoDecoder \notin alive
    BY <2>1 DEF DecodersTypeOK, Decoder, NoDecoder
  <2> QED
    BY <2>1, <2>2 DEF StartDecoder, Calm, LookupKnows, DecodersTypeOK
<1>2. /\ Create(t) /\ slot' = NextDecoder
      /\ CommandIs(c, "done", t) /\ UNCHANGED <<setting, restart>>
  BY <1>1 DEF StartDecoder
<1>3. slot' \in alive' /\ class'[slot'] = setting
  BY <1>1, <1>2, CreateSets
<1>4. \A d \in Commands : ~Looks(d)'
  <2>1. /\ command'[c] = [pc |-> "done", want |-> t]
        /\ \A d \in Commands : d # c => command'[d] = command[d]
    BY <1>1, <1>2, CommandSets
  <2> QED
    BY <1>1, <2>1 DEF Calm, OneLookup
<1>5. AsSet'
  BY <1>1, <1>2, <1>3 DEF AsSet
<1> QED
  BY <1>1, <1>2, <1>4, <1>5 DEF Calm, OneLookup, Rests, LookupKnows, RestartKnows

LEMMA DebounceCalm ==
    ASSUME Calm, DebounceOver \/ UNCHANGED decoderVars
    PROVE  Calm'
<1>1. UNCHANGED <<setting, slot, class, alive, command, restart>> /\ (~recent => ~recent')
  BY DEF DebounceOver, decoderVars
<1>2. LookupKnows'
  BY <1>1 DEF Calm, LookupKnows, Looks, Pending
<1>3. AsSet => AsSet'
  BY <1>1 DEF AsSet
<1> QED
  BY <1>1, <1>2, <1>3 DEF Calm, OneLookup, Rests, RestartKnows, Looks, Runs, Pending

\* A restart changes nothing for commands, of which none is under way.
LEMMA RestartCalm ==
    ASSUME SlotInv, Calm, NEW r \in Restarts, UNCHANGED <<setting, command>>,
           \A c \in Commands : ~Looks(c),
           \A q \in Restarts : q # r => restart'[q] = restart[q],
           RestartKnows', Rests'
    PROVE  Calm'
BY DEF Calm, OneLookup, LookupKnows, Looks

\* A restart is asked for while a decoder of the set class is there or to come.
LEMMA AskedCalm ==
    ASSUME SlotInv, Calm, NEW r \in Restarts, ConfigChanges(r) \/ DecoderAsks(r), calm'
    PROVE  Calm'
<1> USE DEF Looks, Runs, Pending
<1>1. /\ DecodersTypeOK /\ restart[r].pc = "new" /\ slot \in Decoder
      /\ \A c \in Commands : ~Looks(c)
      /\ UNCHANGED <<setting, slot, class, alive, command>>
  BY DEF ConfigChanges, DecoderAsks, CommandRuns, SlotInv, DecodersTypes, DecodersTypeOK
<1>2. PICK of \in {slot, NoDecoder} : RestartIs(r, "due", of, NoDecoder)
  <2>1. CASE ConfigChanges(r)
    BY <2>1 DEF ConfigChanges
  <2>2. CASE DecoderAsks(r)
    BY <2>2 DEF DecoderAsks
  <2> QED
    BY <2>1, <2>2
<1>3. /\ restart'[r] = [pc |-> "due", of |-> of, live |-> NoDecoder]
      /\ \A q \in Restarts : q # r => restart'[q] = restart[q]
  <2>1. of \in Decoder \cup {NoDecoder}
    BY <1>1, <1>2
  <2> QED
    BY <1>1, <1>2, <2>1, RestartSets
<1>4. setting # "none" /\ (of # NoDecoder => class[of] = setting)
  <2>1. CASE \A q \in Restarts : ~Runs(q)
    BY <1>1, <1>2, <2>1 DEF Calm, Rests, AsSet, Decoder, NoDecoder
  <2>2. ASSUME NEW q \in Restarts, Runs(q)
        PROVE  setting # "none" /\ (of # NoDecoder => class[of] = setting)
    BY <1>1, <1>2, <2>2 DEF Calm, RestartKnows, Decoder, NoDecoder
  <2> QED
    BY <2>1, <2>2
<1>5. RestartKnows'
  BY <1>1, <1>3, <1>4 DEF Calm, RestartKnows
<1>6. Rests'
  BY <1>1, <1>3 DEF Calm, Rests, AsSet
<1> QED
  BY <1>1, <1>3, <1>5, <1>6, RestartCalm

\* A running restart is the only one, and no command looks anything up.
LEMMA Restarting ==
    ASSUME SlotInv, Calm, NEW r \in Restarts, Pending(r)
    PROVE  /\ DecodersTypeOK /\ \A c \in Commands : ~Looks(c)
           /\ Runs(r) => \A q \in Restarts : Runs(q) => q = r
           /\ Runs(r) => restart[r].of \in Decoder
           /\ restart[r].of \in Decoder \cup {NoDecoder}
           /\ restart[r].live \in Decoder \cup {NoDecoder}
BY DEF SlotInv, OneRestart, Calm, LookupKnows, DecodersTypes, RestartHasClass, DecodersTypeOK

\* It kills the decoder that is there, which is of the set class, ...
LEMMA RestartKillsCalm ==
    ASSUME SlotInv, Calm, NEW r \in Restarts, RestartKills(r)
    PROVE  Calm'
<1> USE DEF Looks, Runs, Pending
<1> DEFINE of == IF restart[r].of = NoDecoder THEN slot ELSE restart[r].of
<1>1. /\ restart[r].pc = "due" /\ DecodersTypeOK
      /\ restart[r].of \in Decoder \cup {NoDecoder}
      /\ \A c \in Commands : ~Looks(c)
      /\ \A q \in Restarts : ~Runs(q)
      /\ UNCHANGED <<setting, slot, class, command, recent>>
  BY Restarting DEF RestartKills, RestartRuns
<1>2. /\ slot \in Decoder /\ class[slot] = setting /\ setting # "none"
      /\ of # NoDecoder /\ of \in Decoder /\ class[of] = setting
  BY <1>1 DEF Calm, DecodersTypeOK, Rests, AsSet, RestartKnows, Decoder, NoDecoder
<1>3. RestartIs(r, "killed", of, slot)
  BY <1>2 DEF RestartKills
<1> HIDE DEF of
<1>4. /\ restart'[r] = [pc |-> "killed", of |-> of, live |-> slot]
      /\ \A q \in Restarts : q # r => restart'[q] = restart[q]
  BY <1>1, <1>2, <1>3, RestartSets
<1>5. RestartKnows'
  BY <1>1, <1>2, <1>4 DEF Calm, RestartKnows
<1>6. Rests'
  BY <1>4 DEF Rests
<1> QED
  BY <1>1, <1>4, <1>5, <1>6, RestartCalm

\* ... empties its slot, ...
LEMMA RestartDropsCalm ==
    ASSUME SlotInv, Calm, NEW r \in Restarts, RestartDrops(r)
    PROVE  Calm'
<1> USE DEF Looks, Runs, Pending
<1>1. /\ restart[r].pc = "killed" /\ DecodersTypeOK
      /\ \A c \in Commands : ~Looks(c)
      /\ \A q \in Restarts : Runs(q) => q = r
      /\ UNCHANGED <<setting, class, alive, command, recent>>
  BY Restarting DEF RestartDrops
<1>2. /\ restart[r].live \in Decoder /\ restart[r].live # NoDecoder
      /\ setting # "none" /\ restart[r].of # NoDecoder /\ restart[r].of \in Decoder
      /\ class[restart[r].of] = setting
  BY <1>1, Restarting DEF Calm, RestartKnows, Decoder, NoDecoder
<1>3. RestartIs(r, "dropped", restart[r].of, restart[r].live) /\ slot' = NoDecoder
  BY <1>2 DEF RestartDrops
<1>4. /\ restart'[r] = [pc |-> "dropped", of |-> restart[r].of, live |-> restart[r].live]
      /\ \A q \in Restarts : q # r => restart'[q] = restart[q]
  BY <1>1, <1>2, <1>3, RestartSets
<1>5. RestartKnows'
  BY <1>1, <1>2, <1>3, <1>4 DEF Calm, RestartKnows
<1>6. Rests'
  BY <1>4 DEF Rests
<1> QED
  BY <1>1, <1>4, <1>5, <1>6, RestartCalm

\* ... makes a decoder of the class it was given, ...
LEMMA RestartCreatesCalm ==
    ASSUME SlotInv, Calm, NEW r \in Restarts, RestartCreates(r)
    PROVE  Calm'
<1> USE DEF Looks, Runs, Pending
<1>1. /\ restart[r].pc = "dropped" /\ DecodersTypeOK /\ restart[r].of \in Decoder
      /\ \A c \in Commands : ~Looks(c)
      /\ \A q \in Restarts : Runs(q) => q = r
      /\ UNCHANGED <<setting, slot, command, recent>>
  BY Restarting DEF RestartCreates
<1>2. /\ slot = NoDecoder /\ setting # "none" /\ setting \in Types
      /\ restart[r].of # NoDecoder /\ class[restart[r].of] = setting
  BY <1>1 DEF Calm, DecodersTypeOK, RestartKnows, Decoder, NoDecoder
<1>3. /\ RestartIs(r, "made", restart[r].of, NextDecoder)
      /\ NextDecoder \in Decoder /\ class[NextDecoder] = "none" /\ class'[NextDecoder] = setting
      /\ \A d \in Decoder : d # NextDecoder => class'[d] = class[d]
  <2>1. RestartIs(r, "made", restart[r].of, NextDecoder) /\ Create(setting)
    BY <1>2 DEF RestartCreates
  <2> QED
    BY <1>1, <1>2, <2>1, CreateSets
<1>4. /\ restart'[r] = [pc |-> "made", of |-> restart[r].of, live |-> NextDecoder]
      /\ \A q \in Restarts : q # r => restart'[q] = restart[q]
  BY <1>1, <1>3, RestartSets
<1>5. \A q \in Restarts : Pending(q) /\ restart[q].of # NoDecoder => class'[restart[q].of] = setting
  <2> SUFFICES ASSUME NEW q \in Restarts, Pending(q), restart[q].of # NoDecoder
               PROVE  class'[restart[q].of] = setting
    OBVIOUS
  <2>1. restart[q].of \in Decoder /\ class[restart[q].of] = setting
    BY <1>1 DEF Calm, DecodersTypeOK, RestartKnows
  <2> QED
    BY <1>2, <1>3, <2>1
<1>6. RestartKnows'
  BY <1>1, <1>2, <1>3, <1>4, <1>5 DEF Calm, RestartKnows
<1>7. Rests'
  BY <1>4 DEF Rests
<1> QED
  BY <1>1, <1>4, <1>6, <1>7, RestartCalm

\* ... and stores it.
LEMMA RestartStoresCalm ==
    ASSUME SlotInv, Calm, NEW r \in Restarts, RestartStores(r)
    PROVE  Calm'
<1> USE DEF Looks, Runs, Pending
<1>1. /\ restart[r].pc = "made" /\ DecodersTypeOK
      /\ restart[r].of \in Decoder \cup {NoDecoder}
      /\ restart[r].live \in Decoder \cup {NoDecoder}
      /\ \A c \in Commands : ~Looks(c)
      /\ \A q \in Restarts : Runs(q) => q = r
      /\ UNCHANGED <<setting, class, alive, command>> /\ slot' = restart[r].live
      /\ RestartIs(r, "done", restart[r].of, restart[r].live)
  BY Restarting DEF RestartStores
<1>2. slot' \in alive /\ class[slot'] = setting /\ setting # "none"
  BY <1>1 DEF Calm, RestartKnows, SlotInv, MadeLives
<1>3. /\ restart'[r] = [pc |-> "done", of |-> restart[r].of, live |-> restart[r].live]
      /\ \A q \in Restarts : q # r => restart'[q] = restart[q]
  BY <1>1, RestartSets
<1>4. RestartKnows'
  BY <1>1, <1>3 DEF Calm, RestartKnows
<1>5. Rests'
  BY <1>1, <1>2 DEF Rests, AsSet
<1> QED
  BY <1>1, <1>3, <1>4, <1>5, RestartCalm

LEMMA CalmNext == SlotInv /\ (calm => Calm) /\ [DecodersNext]_decoderVars => (calm => Calm)'
<1> SUFFICES ASSUME SlotInv, calm => Calm, [DecodersNext]_decoderVars, calm' PROVE Calm'
  OBVIOUS
<1>1. CASE \E c \in Commands, t \in Types \cup {"none"}, f \in BOOLEAN : SetDecoder(c, t, f)
  BY <1>1, SetDecoderCalms
<1>2. CASE ~ \E c \in Commands, t \in Types \cup {"none"}, f \in BOOLEAN : SetDecoder(c, t, f)
  <2>1. Calm
    BY <1>2 DEF DecodersNext, decoderVars, StartDecoder, DebounceOver, ConfigChanges, DecoderAsks,
                RestartKills, RestartDrops, RestartCreates, RestartStores
  <2> QED
    BY <1>2, <2>1, StartDecoderCalm, DebounceCalm, AskedCalm, RestartKillsCalm, RestartDropsCalm,
       RestartCreatesCalm, RestartStoresCalm DEF DecodersNext
<1> QED
  BY <1>1, <1>2

\* A command that finds nothing under way gets the VFO the decoder it set, through
\* every restart asked for after it is done, whatever overlapped before.
THEOREM VfoGetsItsDecoder == DecodersSpec => []SettingWins
<1>1. DecodersInit => SlotInv /\ (calm => Calm)
  <2> SUFFICES ASSUME DecodersInit PROVE SlotInv /\ Calm
    OBVIOUS
  <2>1. /\ \A c \in Commands : ~Looks(c)
        /\ \A r \in Restarts : ~Runs(r) /\ ~Pending(r) /\ restart[r].pc = "new"
    BY DEF DecodersInit, Looks, Runs, Pending, NewRestart
  <2>2. SlotInv
    BY <2>1, DecodersInitTypes, ClassedInit
       DEF DecodersInit, SlotInv, OneRestart, SlotLives, MadeLives
  <2>3. AsSet
    BY DEF DecodersInit, AsSet
  <2> QED
    BY <2>1, <2>2, <2>3 DEF Calm, OneLookup, Rests, LookupKnows, RestartKnows
<1>2. (calm => Calm) => SettingWins
  BY DEF Calm, Rests, AsSet, Settled, CommandRuns, RestartPending, SettingWins, Looks, Runs
<1> QED
  BY <1>1, <1>2, SlotNext, CalmNext, PTL DEF DecodersSpec
=============================================================================
