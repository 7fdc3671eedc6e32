---------------------------- MODULE SdrLifecycle ----------------------------
(***************************************************************************)
(* ProcessLifecycleManager for one SDR: the entry self.processes[sdr_id],  *)
(* the worker processes started for it, the monitor task of each, and the  *)
(* sessions that stream from it (SessionService).  Starts are serialised   *)
(* by a lock, stops are not; a stop waits for the processes to die and     *)
(* only then removes the entry, and nothing keeps a session from starting  *)
(* the SDR meanwhile.  Workers are numbered in starting order; what a      *)
(* session makes of the samples (demodulator, recorder, decoder) is not    *)
(* modelled here.                                                          *)
(***************************************************************************)
EXTENDS Naturals, FiniteSets

CONSTANTS
    Clients,    \* session ids (socket ids, internal observations)
    MaxWorkers, \* bound: workers started
    MaxCrashes  \* bound: workers that end without having been told to

ASSUME LifecycleAssumption ==
    /\ MaxWorkers \in Nat \ {0}
    /\ MaxCrashes \in Nat
    /\ Clients \cap Nat = {}

Workers == 1 .. MaxWorkers
None == 0
Operator == 0

\* Who may be inside stop_sdr_process: a session that disconnects, the
\* operator (force_stop_sdr), the monitor task of a worker.
Stoppers == Clients \cup {Operator} \cup Workers

VARIABLES
    entry,      \* the worker of self.processes[sdr_id], or None
    launched,   \* workers started so far
    worker,     \* each process: "unborn", "up", "ending" (TERMINATED posted), "dead"
    halt,       \* workers whose stop_event is set
    persistent, \* the workers whose entry says "persistent"
    clients,    \* the clients of each entry
    monitor,    \* the _monitor_data_queue task of each worker: "off", "on", "over"
    starting,   \* whether _start_locks is held (a launch awaits on_sdr_started)
    stopping,   \* the stop_sdr_process call of each stopper
    sessions,   \* active_sdr_clients
    crashed     \* the workers that ended without having been told to

lifecycleVars == <<entry, launched, worker, halt, persistent, clients, monitor, starting, stopping, sessions, crashed>>

Idle == [pc |-> "idle", of |-> None]
Alive(w) == worker[w] \in {"up", "ending"}

LifecycleTypeOK ==
    /\ entry \in Workers \cup {None}
    /\ launched \in 0 .. MaxWorkers
    /\ worker \in [Workers -> {"unborn", "up", "ending", "dead"}]
    /\ halt \in SUBSET Workers
    /\ persistent \in SUBSET Workers
    /\ clients \in [Workers -> SUBSET Clients]
    /\ monitor \in [Workers -> {"off", "on", "over"}]
    /\ starting \in BOOLEAN
    /\ stopping \in [Stoppers -> [pc : {"idle", "leave", "wait"}, of : Workers \cup {None}]]
    /\ sessions \in SUBSET Clients
    /\ crashed \in SUBSET Workers

LifecycleInit ==
    /\ entry = None
    /\ launched = 0
    /\ worker = [w \in Workers |-> "unborn"]
    /\ halt = {}
    /\ persistent = {}
    /\ clients = [w \in Workers |-> {}]
    /\ monitor = [w \in Workers |-> "off"]
    /\ starting = FALSE
    /\ stopping = [s \in Stoppers |-> Idle]
    /\ sessions = {}
    /\ crashed = {}
-----------------------------------------------------------------------------
(* Sessions. *)

\* configure-sdr of a connected browser, or of an observation.
Configure(c) ==
    /\ stopping[c] = Idle
    /\ sessions' = sessions \cup {c}
    /\ UNCHANGED <<entry, launched, worker, halt, persistent, clients, monitor, starting, stopping, crashed>>

MayStart(c) ==
    /\ c \in sessions /\ stopping[c] = Idle
    /\ ~starting

\* start_streaming while a worker is alive: join it.
Join(c) ==
    /\ MayStart(c)
    /\ entry # None /\ Alive(entry)
    /\ clients' = [clients EXCEPT ![entry] = @ \cup {c}]
    /\ UNCHANGED <<entry, launched, worker, halt, persistent, monitor,
                   starting, stopping, sessions, crashed>>

\* A mutant: no check that a worker is running already.
LaunchAnyway(c) ==
    /\ MayStart(c)
    /\ launched < MaxWorkers
    /\ launched' = launched + 1
    /\ entry' = launched'
    /\ worker' = [worker EXCEPT ![launched'] = "up"]
    /\ persistent' = persistent \cup {launched'}
    /\ clients' = [clients EXCEPT ![launched'] = {c}]
    /\ starting' = TRUE
    /\ UNCHANGED <<halt, monitor, stopping, sessions, crashed>>

\* start_streaming while none is: new processes and a new entry, which
\* replaces that of a dead worker.  The lock is held through on_sdr_started.
Launch(c) ==
    /\ MayStart(c)
    /\ entry # None => ~Alive(entry)
    /\ launched < MaxWorkers
    /\ launched' = launched + 1
    /\ entry' = launched'
    /\ worker' = [worker EXCEPT ![launched'] = "up"]
    /\ persistent' = persistent \cup {launched'}
    /\ clients' = [clients EXCEPT ![launched'] = {c}]
    /\ starting' = TRUE
    /\ UNCHANGED <<halt, monitor, stopping, sessions, crashed>>

\* The lock is released; the monitor task returns at once if the entry is gone.
Launched ==
    /\ starting
    /\ starting' = FALSE
    /\ monitor' = IF entry = None THEN monitor ELSE [monitor EXCEPT ![entry] = "on"]
    /\ UNCHANGED <<entry, launched, worker, halt, persistent, clients, stopping, sessions, crashed>>

\* rejoin-sdr: a page that reconnects adds itself without the lock.
Rejoin(c) ==
    /\ stopping[c] = Idle
    /\ entry # None /\ Alive(entry)
    /\ clients' = [clients EXCEPT ![entry] = @ \cup {c}]
    /\ sessions' = sessions \cup {c}
    /\ UNCHANGED <<entry, launched, worker, halt, persistent, monitor,
                   starting, stopping, crashed>>
-----------------------------------------------------------------------------
(* stop_sdr_process. *)

Shutdown(s, w) ==
    /\ halt' = halt \cup {w}
    /\ stopping' = [stopping EXCEPT ![s] = [pc |-> "wait", of |-> w]]

CallReturns(s) ==
    /\ stopping' = [stopping EXCEPT ![s] = Idle]
    /\ sessions' = sessions \ {s}

\* A mutant: the last client takes a persistent worker with it.
LastStopsIt(c, w) ==
    \/ /\ clients'[w] # {}
       /\ CallReturns(c)
       /\ UNCHANGED halt
    \/ /\ clients'[w] = {}
       /\ Shutdown(c, w)
       /\ UNCHANGED sessions

\* What follows the removal of one client: the worker stays for the others,
\* and when persistent for nobody.
LastOneOut(c, w) ==
    \/ /\ clients'[w] # {} \/ w \in persistent
       /\ CallReturns(c)
       /\ UNCHANGED halt
    \/ /\ clients'[w] = {} /\ w \notin persistent
       /\ Shutdown(c, w)
       /\ UNCHANGED sessions

\* A browser disconnects or an observation ends: cleanup_session.
Disconnect(c) ==
    /\ c \in sessions /\ stopping[c] = Idle
    /\ \/ /\ entry = None
          /\ CallReturns(c)
          /\ UNCHANGED <<clients, halt>>
       \/ /\ entry # None /\ c \notin clients[entry]
          /\ UNCHANGED clients
          /\ LastOneOut(c, entry)
       \/ /\ entry # None /\ c \in clients[entry]
          /\ clients' = [clients EXCEPT ![entry] = @ \ {c}]
          /\ stopping' = [stopping EXCEPT ![c] = [pc |-> "leave", of |-> entry]]
          /\ UNCHANGED <<halt, sessions>>
    /\ UNCHANGED <<entry, launched, worker, persistent, monitor, starting, crashed>>

\* Back from leave_room.
LeftRoom(c) ==
    LET w == stopping[c].of IN
    /\ stopping[c].pc = "leave"
    /\ UNCHANGED clients
    /\ LastOneOut(c, w)
    /\ UNCHANGED <<entry, launched, worker, persistent, monitor, starting, crashed>>

\* force_stop_sdr: the operator's stop.
ForceStop ==
    /\ stopping[Operator] = Idle
    /\ entry # None
    /\ persistent' = persistent \ {entry}
    /\ Shutdown(Operator, entry)
    /\ UNCHANGED <<entry, launched, worker, clients, monitor, starting, sessions, crashed>>

\* A mutant: the entry goes without a wait for the worker.
StoppedUnwaited(s) ==
    /\ stopping[s].pc = "wait"
    /\ entry' = None
    /\ CallReturns(s)
    /\ monitor' = IF s \in Workers THEN [monitor EXCEPT ![s] = "over"] ELSE monitor
    /\ UNCHANGED <<launched, worker, halt, persistent, clients, starting, crashed>>

\* The waits are over: the worker died or is killed, and the entry goes.
Stopped(s) ==
    LET w == stopping[s].of IN
    /\ stopping[s].pc = "wait"
    /\ worker' = [worker EXCEPT ![w] = "dead"]
    /\ entry' = None
    /\ CallReturns(s)
    /\ monitor' = IF s \in Workers THEN [monitor EXCEPT ![s] = "over"] ELSE monitor
    /\ UNCHANGED <<launched, halt, persistent, clients, starting, crashed>>

\* A mutant: the monitor of a dead worker ends without stopping it.
MonitorJustEnds(w) ==
    /\ monitor[w] = "on" /\ stopping[w] = Idle
    /\ entry = None \/ worker[w] \in {"ending", "dead"}
    /\ monitor' = [monitor EXCEPT ![w] = "over"]
    /\ UNCHANGED <<entry, launched, worker, halt, persistent, clients, starting, stopping, sessions, crashed>>

\* _monitor_data_queue leaves its loop and stops what has the SDR's id now.
MonitorEnds(w) ==
    /\ monitor[w] = "on" /\ stopping[w] = Idle
    /\ entry = None \/ worker[w] \in {"ending", "dead"}
    /\ IF entry = None
       THEN /\ monitor' = [monitor EXCEPT ![w] = "over"]
            /\ UNCHANGED <<halt, stopping>>
       ELSE Shutdown(w, entry) /\ UNCHANGED monitor
    /\ UNCHANGED <<entry, launched, worker, persistent, clients, starting, sessions, crashed>>

\* The worker's main loop ends on its stop_event, or by itself.
WorkerEnds(w) ==
    /\ worker[w] = "up"
    /\ \/ w \in halt /\ UNCHANGED crashed
       \/ /\ w \notin halt /\ Cardinality(crashed) < MaxCrashes
          /\ crashed' = crashed \cup {w}
    /\ worker' = [worker EXCEPT ![w] = "ending"]
    /\ UNCHANGED <<entry, launched, halt, persistent, clients, monitor,
                   starting, stopping, sessions>>

WorkerDies(w) ==
    /\ worker[w] = "ending"
    /\ worker' = [worker EXCEPT ![w] = "dead"]
    /\ UNCHANGED <<entry, launched, halt, persistent, clients, monitor,
                   starting, stopping, sessions, crashed>>
-----------------------------------------------------------------------------
LifecycleNext ==
    \/ \E c \in Clients :
          \/ Configure(c) \/ Join(c) \/ Launch(c) \/ Rejoin(c)
          \/ Disconnect(c) \/ LeftRoom(c)
    \/ Launched \/ ForceStop
    \/ \E s \in Stoppers : Stopped(s)
    \/ \E w \in Workers : MonitorEnds(w) \/ WorkerEnds(w) \/ WorkerDies(w)

LifecycleSpec == LifecycleInit /\ [][LifecycleNext]_lifecycleVars

\* Started calls and tasks go on, and a process that ends dies.  Each of these
\* steps follows a start or an end of a worker and so comes finitely often: that
\* some of them is taken while there are any is all the fairness they need.
LifecycleGoesOn ==
    \/ Launched
    \/ \E s \in Stoppers : Stopped(s)
    \/ \E w \in Workers : MonitorEnds(w) \/ WorkerDies(w)
LifecycleFairness == WF_lifecycleVars(LifecycleGoesOn)
-----------------------------------------------------------------------------
\* A worker that runs is the one in the entry, which a stop, a join and the
\* service's _find_pluto reach.  A start that overtakes a stop may end this.
NoOrphan == \A w \in Workers : Alive(w) => w = entry

\* A process loses its entry only where a stop that waited for another process
\* removes the entry of a newer one (processlifecycle.py:673).  No other order of
\* starts, joins, crashes, monitors and stops takes it out of reach.
EntryKept ==
    [][NoOrphan => \/ NoOrphan'
                   \/ \E s \in Stoppers : /\ stopping[s].pc = "wait" /\ stopping'[s] = Idle
                                         /\ stopping[s].of # entry]_lifecycleVars

OneWorker == \A v, w \in Workers : Alive(v) /\ Alive(w) => v = w

\* "Two concurrent starts for the same device must not both pass the
\* already-running check": a second process gets the SDR only beside one that has
\* lost its entry, however starts, stops and crashes overlap.
OneWorkerKept == [][OneWorker => OneWorker' \/ ~NoOrphan]_lifecycleVars

\* Browsers that come and go stop no worker ("SDR runs until explicit stop"): one
\* that was not force-stopped and has not ended by itself is stopped only by the
\* monitor task of an earlier one, which stops what has the SDR's id now.
StoppedForCause ==
    [][\A w \in halt' \ halt :
          \/ w \notin persistent' \/ w \in crashed
          \/ \E v \in Workers : /\ v < w /\ monitor[v] = "on"
                                /\ worker[v] \in {"ending", "dead"}]_lifecycleVars

\* A stop that began comes to its end, and a crash is noticed: again and again
\* every worker told to stop is dead, and no dead one blocks the next start.
StopEnds == []<>(\A w \in Workers : w \in halt \/ worker[w] = "dead" =>
                                     worker[w] = "dead" /\ entry # w)
=============================================================================
