# A formal model of BitLink21

TLA+ modules, TLC configurations and TLAPS proofs about BitLink21: text,
files, Bitcoin transactions and Lightning invoices sent through the QO-100
satellite with a PlutoSDR, and the ground station it grew out of. Paths below
are relative to `src/backend/` unless they start with `src/`.

    tlc -workers 2 -config MCLinkOperator.cfg MCLink.tla     # one run
    tlapm LinkProofs.tla                                     # one module's proofs

## 1. Inventory

The part of the program that is its own is the *link*: what happens between
"Send" in the browser and the message coming back from the satellite. Around
it stand the SDR process manager, what is received, observations, the tracker,
tasks, decoders and the user interface.

| Component | Files | State it keeps | Operations | What is hard |
|---|---|---|---|---|
| BitLink21 service | `bitlink21/service.py`, `store.py` | message rows (SQLite), `station_sdr_id`, settings, `last_status` | send_message, send_file, cancel_tx, start/stop_station, update_settings, handle_worker_event, Lightning, unlock | coroutines interleave at every database await; a queue `put` blocks the loop |
| PlutoSDR worker | `workers/plutosdrworker.py` | the radio (TX gain, TX LO), the running `BitLink21Runner`, its threads, stop flag, cancelled rows | commands from config_queue, RX loop, reconnect, RX, TX and producer threads | threads against the main loop, `join` with a timeout, reconnects under a burst, process death |
| SDR process lifecycle | `pipeline/orchestration/processlifecycle.py`, `session/` | `processes` (entry per SDR: process, queues, clients), monitor tasks, sessions | start, join, rejoin, stop, force stop, monitor, clean-up of a session | stop takes seconds and then deletes by id; monitors of old and new processes |
| Decoders of a VFO | `pipeline/managers/decodermanager.py`, `handlers/entities/vfo.py` | the slot of each VFO, start locks, debounce | set, start, stop, restart | the event loop against pool threads |
| Lightning and relay | `bitlink21/lnd.py`, `payload_router.py` | `relay_status` of rows, payments and invoices at the node | lightning_pay, lightning_request, invoice watch, unlock and relay | check-then-act over awaits, "never twice" |
| File transfer | `bitlink21/radio/filetransfer.py`, `framing.py`, `service._collect_part` | partial file, ids already done, parts by name | add frame, assemble, collect part | lost, repeated, interleaved frames |
| Radio station | `bitlink21/radio/station.py`, `beacon.py`, `profile.py` | beacon lock, correction, plan, saved calibration | measure, seed, retune, calibrate | lock and loss, seeds of yesterday |
| Observations | `observations/` | `_running_observations`, scheduler jobs, rows | start, stop, cancel, sync, generate | early returns, jobs in the past, restart of the server, rows that conflict |
| Tracker | `tracker/` | tracking state (row, worker's copy), rotator and rig | update_tracking_state, tracker loop, IPC | read-merge-write over awaits, two processes |
| Tasks, TLE sync | `tasks/`, `tlesync/`, `crud/tlesources.py` | task table; sources, groups, satellites, transmitters | start, stop, monitor; fetch, remove, merge, import | cancellation, kills between two commits, late output |
| Transcription | `pipeline/managers/transcriptionmanager.py`, `audio/` | consumers, web socket, file | start, restart, stop, reconnect | coroutines of one worker at every await |
| IQ recordings | `demodulators/iqrecorder.py`, `pipeline/managers/recordermanager.py`, `pipeline/streaming/iqbroadcaster.py` | sample file, captures, metadata, subscriber's queue | start, record, stop | a retune with chunks under way, a stop that gives up on the thread, a full disk |
| Streaming | `fft/`, other `demodulators/`, other `workers/` | bounded queues | push, drop | numeric; drop on full |
| I/O and views | `handlers/`, `crud/`, `db/`, `controllers/`, `hardware/`, `tracking/`, `telemetry/`, `server/`, `monitoring/`, `src/frontend/` | rows, devices, sockets | | pure I/O, numeric, or user interface |

How they interact:

    browser -> handlers -> service --cfgQ--> worker main loop --stop/cancel--> TX thread
                  |           |------txQ-------------------------------------> TX thread --> radio
                  |        rows <- service <- monitor <--evQ-- RX thread (echo, files), TX thread (status)
                  |           |------> Lightning and Bitcoin node (pay, relay, invoice watch)
                  |-> lifecycle (entry per SDR, workers, monitors) <- sessions <- browsers, observations
                  |      `-> consumers of a session: demodulators, decoders, recorders
                  |-> observation sync -> scheduler jobs -> executor -> internal sessions
                  |-> generator -> observation rows -> observation sync
                  |-> tracker manager --queue--> tracker process -> rotator, rig
                  `-> task manager -> TLE sync process -> satellites, transmitters -> tracker manager

What makes each part correct is the list of properties in section 3.

## 2. What is modelled

| Module | Models | Lines |
|---|---|---|
| `LinkQueues` | the link: queues between server and worker process | 75 |
| `PlutoRunner` | the link: worker process, its main loop, runners and radio | 368 |
| `LinkService` | the link: coroutines of the service and the monitor | 225 |
| `Courier` | the link: abstract specification, what a message may expect | 36 |
| `Link` | the link: composition, fairness, properties, refinement of `Courier` | 137 |
| `MCLink` | instances of the link | 27 |
| `SdrLifecycle` | start, join, stop and monitors of one SDR's worker; sessions | 300 |
| `Decoders` | decoder slot of a VFO: commands and restarts | 209 |
| `Observations` | one observation: executor, scheduler jobs, sync, reboot | 363 |
| `Generator` | generator of observations over conflicting passes | 238 |
| `Inbox` | a received message: unlock, relay, pay | 248 |
| `Invoices` | our own invoices and their watcher | 185 |
| `Receiver` | frames of files to whole files | 153 |
| `Beacon` | beacon tracker, seeds, calibration, retunes | 262 |
| `Tasks` | background task manager, single-flight of the TLE sync | 143 |
| `TleSync` | TLE sync, one step per commit, with what deletes and imports do | 256 |
| `Tracker` | tracking state, IPC and the devices | 236 |
| `Recorder` | IQ recordings: stream, thread, file and metadata | 255 |
| `MCServer` | these components, one in focus at a time, and their bounds | 96 |
| `LinkProofs` | proofs about the link | 4143 |
| `SdrLifecycleProofs` | proofs about `SdrLifecycle` and `Decoders` | 1551 |
| `InboxProofs` | proofs about `Inbox` and `Invoices` | 791 |
| `ReceiverProofs` | proofs about `Receiver` and `Recorder` | 2293 |
| `BeaconProofs` | proofs about `Beacon` and `Tracker` | 556 |
| `GeneratorProofs` | proofs about `Generator` and `Observations` | 894 |
| `TasksProofs` | proofs about `Tasks` and `TleSync` | 537 |
| `ServerProofs` | the server as a whole: its components are independent, its types | 241 |

The modules of the link share queues and a process and are
composed (`Link`). The others share no variable with each other in the code
but the database, of which each has rows of its own; where one calls another,
the call is an action of the callee that may come at any time (a session of an
observation is a client in `SdrLifecycle`; a finished TLE sync calls the
tracker: `NotifyReads`). `MCServer` therefore runs them one at a time: a
variable `focus` names the component that moves. The product of components
that share nothing has no behaviour whose projection the sum lacks, so
nothing is lost, and the run checks all of them in the time of the
largest.

### Link: state and code

* `cfgQ`, `txQ`, `evQ` are `config_queue`, `tx_queue` (bounded by
  `TxQueueMax`, 10 in the code) and the `bitlink21_*` events of `data_queue`.
  A message is a model value (its row id); payloads, progress, status and
  spectrum events are left out, as nothing here depends on them.
* `proc`: `up` and `down` are `process.is_alive()`; `stopping` has
  `stop_event` set. When a process ends, its queues go with it (a new process
  gets new queues, and the monitor stops reading when the process is dead).
* `main` is the main loop of `plutosdr_worker_process`: `pc` is where it is
  (`boot`: before `_configure_pluto`; `join`: inside `bitlink21.stop()`;
  `launch`: in the `bitlink21_start` branch), `cur` is the variable `bitlink21`.
* `run[r]` is a `BitLink21Runner`: `pc` is where its TX thread is, `flags`
  holds `rx` (RX thread alive), `halt` (`_stop`), `waiting` (already reported);
  `cancelled`, `txLo` are `_cancelled`, `_tx_lo`; `quiet` counts quiet polls,
  `left` the buffers still to write. Several slots exist because
  `join(timeout=1.5)` may leave a thread behind.
* `radio` is the hardware, shared by all contexts: TX gain `boot` (-10 dB,
  `_configure_pluto`), `idle` (`TX_IDLE_GAIN_DB`) or `burst`; TX LO `uplink`
  (the plan's) or `downlink` (the RX centre).
* `heard` are messages of which a buffer was written, so that an echo may
  come. A buffer written at idle gain counts too: the echo is then merely possible.
* `status`, `echoed` are the columns `status` and `echo_at` of the rows;
  `station` tells whether `station_sdr_id` is set; `send`, `canc`, `starting`,
  `mon` are the program counters of the coroutines, one step from await to
  await. `mon` holds the event for which the monitor has read a row and not yet
  written it. `LoopFree` guards every coroutine step, as a blocked
  `Queue.put` blocks the event loop.

Service actions: `Store`, `Enqueue`, `PutUnblocks`, `Refuse`, `Crash` are
send_message and send_file cut at their awaits; `CancelRead/Put/Write` are
cancel_tx; `Start`, `StartBoot`, `StartPut` are start_station; `Stop`,
`Retune`, `Waterfall`, `ClassicBoot`, `QuitSdr` the other commands on the
station and its process; `MonitorRead`, `MonitorWrite` are
handle_worker_event. A second start waits for `_start_lock`; it appears as a
start made later.

Worker actions: `TxTake ... TxError` are `_tx_loop`, `_wait_for_clear_channel`
and `_transmit`, cut where another thread can change what they read next. The
producer thread is folded into `TxEnd`: its only effect on others is that its
`None` may come early after a stop. `TakeCommand`, `JoinDone`, `JoinTimeout`,
`Launch`, `LaunchFails`, `Reconnect`, `ReconnectFails`, `LeaveLoop`,
`WorkerExit`, `WorkerDies` are the main loop; `EchoDecoded`, `RxFails` the RX
thread. A retune whose plan keeps the SDR where it is happens in place, another
one restarts the station; which it is depends on frequencies, so either may happen.
Exceptions of the radio library may come at any call that makes them.

`Moves` names what an instance lets the operator and the environment do
(`AllMoves` lists it) and `MaxMoves` bounds how often; `MaxEchoes` bounds
echoes. Nothing else is bounded but the constants' sizes.

### The other components: state and code

* **SdrLifecycle.** One SDR. `entry` is `processes[sdr_id]` (a worker's
  number or none), `worker` each OS process, `halt` the set `stop_event`s,
  `persistent`, `clients` fields of the entries, `monitor` the
  `_monitor_data_queue` tasks, `starting` the start lock, `stopping` the
  stop_sdr_process calls by who made them, `sessions` SessionService's map.
  `Launch`/`Launched` are start_sdr_process before and after
  `on_sdr_started`; `Join`, `Rejoin`, `Disconnect`, `LeftRoom`, `ForceStop`,
  `Stopped` the rest; `MonitorEnds` what the monitor does with a dead worker.
  Nothing keeps a start from overtaking a stop. What a session makes of the
  samples (demodulator, decoder, recorder) is not in this module.
* **Decoders.** One VFO. `setting` is the VFO's decoder, `slot` the entry in
  `processes`, `alive` the decoder processes, `command` each panel command
  (it awaits the database), `restart` each `_restart_decoder_async` in a
  pool thread (it kills, drops, creates and stores), `recent` the debounce.
  Commands and restarts overlap freely. `calm` is history: whether the last command
  found anything under way.
* **Observations.** One observation: `row`, the scheduler's `jobs`, `active`
  (`_running_observations`), the coroutines `start`, `stop`, `cancel` and
  each `sync`, the open sessions `live`. Edits, toggles, generator updates and
  reboots are actions; a session may fail to start.
* **Generator.** Runs over the rows of all passes, cut at each await: look
  for a row by the time the satellite is up (`from`, `to`), update it, check
  conflicts by the time its tasks take (`start`, `stop`), delete the lower, create,
  mark as generated. Each write may be refused and a run may die at each await. The
  executor and the operator end and switch rows at any time. `hindered` is history:
  the runs that met another, or whose deletion was refused.
* **Inbox.** One received message: hear, store, unlock, relay, pay, as
  coroutines; the node's payment and the relay's call as state.
* **Invoices.** Our own: request, store, send, mark; the watcher's pass over
  the rows, newest first, one lookup after another; the node the operator
  connects.
* **Receiver.** The frames of files on the air, the partial file, `_done_ids`;
  frames are lost, files are repeated, the receiver is renewed by a retune or a restart.
  `files` is what was handed on, also what `_done_ids` has forgotten. That the CRC
  finds out every mix of files (`CrcFits`) is taken for granted.
* **Beacon.** What the tracker heard, whether it is locked, seeds, misses,
  corrections, what the profile saves, retunes and restarts on their way. A unit is
  200 Hz: the search window of 300 Hz holds readings one unit off, which are beyond
  the 100 Hz a locked tracker trusts (`Distrust`); side lines are 2 and 4 units out.
* **Tasks.** Each task's process, exit code, queue, status and monitor.
* **TleSync.** `upstream`, `source`, `group`, `satellite`, `trans` are what the
  sources list and four tables; `tle` is a sync, one step per commit.
* **Tracker.** `dbRow`, the calls `update`, `toTracker` (the queue), `inputs`
  and `device` of the tracker process; one rotator, one rig. Each lookup may
  find nothing, and calls overlap. `amiss` is history: what befell the last row that
  was written or read again.
* **Recorder.** One session's recordings. `wanted` and `tuned` are the
  configuration the server sent and the one the worker streams with, `stream`
  is `iq_queue_demod`, `queue` each subscriber's queue, `take` each recorder
  thread with what it counts (`total`, `open`), `file` its samples, `captures`
  and `meta` what is told of them. `Reconfigure` flushes the subscriber's queue
  and not `stream`. `stop_recorder` holds the event loop: `StopRecording`,
  `Close`, `Finalise` are its parts, with the thread's steps between them. A
  chunk stands for one sample. A tuning is a frequency and a rate; captures tell the
  frequency only, and the rate is one value, told at the stop (`RateAtStop`). The
  disk may fill in any write.

Each module's header says what it abstracts; each variable and each
definition that is not obvious carries the code's name for it.

## 3. Properties

**Link** (`Link.tla`). `TypeOK`, with the queue bound. `OneTransmitter`: only
the runner that stop and cancel reach has the transmitter keyed. `Attenuated`: a
running station that sends nothing is attenuated. `PendingIsOnItsWay`: a row
shown as pending really is somewhere on its way. `ConfirmedNotUndone`: late
reports do not undo a confirmation. `OnlyCurrentTransmits`: a thread left
behind begins no further buffer. `KeyedIsKnown`: a thread with the transmitter keyed
is of the main loop's runner, or was told to stop. `CourierKept`: the link implements `Courier`
(accepted once, on the air at most once, one at a time, nothing after it is
settled). Liveness, for a station that stays up: `EveryMessageSettles`,
`LoopUnblocks`; for as long as the process lives: `HaltedThreadsEnd`.

The refinement maps a message to the abstract phase `new` (its handler has not
put it on tx_queue), `onair` (held by a keyed thread, wherever else it is),
`accepted` (on the queue, waiting at its full end, or held by a thread that
listens) or `settled`. When a process dies with its queues, all messages it
held settle in one abstract step.

**The server** (`MCServer`, one type invariant `ServerTypeOK` for all):

| Component | Safety | Liveness |
|---|---|---|
| SdrLifecycle | `EntryKept` (a worker gets out of reach only by a stop that removes the entry of a newer one), `OneWorkerKept` (a second worker comes of nothing else), `StoppedForCause` (browsers that come and go stop nothing) | `StopEnds` |
| Decoders | `DecoderKept` (a decoder gets out of reach only where a restart clears or fills the slot over a live one), `SettingWins` (a command that found nothing under way has its decoder stay) | |
| Observations | `RecordingHasItsStop`, `JobsFollowRow` | `RecordingEnds` |
| Inbox | `RowTellsPayment`, `RelayedOnce` | `RelayHappens` |
| Invoices | | `SettledIsShown` |
| Receiver | `NotTwice`, `CleanFileArrives` | |
| Beacon | `LockIsMeasured` (no lock of a seed alone) | `ConvergesOrDistrusts` (the right correction, or a lock beside the beacon whose readings it distrusts) |
| Generator | `ClashesHaveCause` (observations clash only by a row that was over and is scheduled anew, or by a run that met another or whose deletion was refused), `NoSecondRow` (a pass gets a second row only after one that is over and unmarked, or by such a run) | |
| Tasks | `OneSync` | `DeadIsNoticed` |
| TleSync | `EverythingBelongs` (wherever a sync was cut off), `SyncKeepsListed` | |
| Recorder | `SamplesAreLabelled` (up to the first failed write each sample is shown at the frequency it was made at, also after a stop that gave up on the thread; at its rate, if there is one capture) | |
| Tracker | `ShownAsItIs` (a device is shown connected exactly if a controller exists) | `TrackerFollowsRow` (the worker ends up with a row that was written while no other call was under way; where its elements are not found, it knows the target and waits) |

What comments and tests say and the code does not do, each with a
counterexample: `StoppedStaysOffAir`, `StoppedNotRevived`, `KeyedOnUplink`,
`SentIsWhole`, `OnePayment`, `FailedStaysFailed` (section 6).

### Switches of the environment

Some properties hold only if something does not happen that nothing in the
code prevents. For three components a Boolean constant names it, so that both
sides can be run and the proofs say what they assume:

| Constant | TRUE says | Otherwise |
|---|---|---|
| `Patient` | an observation is left alone while a coroutine works on it | `RecordingHasItsStop`, `JobsFollowRow`, `RecordingEnds` fail |
| `Gentle` | the operator waits for a click or a saved passphrase to end | `RelayedOnce`, `RowTellsPayment` fail, and `OnePayment` (run `paid_twice`) |
| `Unhindered` | the tables are left alone during a sync, and no lock refuses a group | `EverythingBelongs`, `SyncKeepsListed` fail |
| `Clouds` | (widens) the beacon may fade and other lines answer; TRUE in the run | |

The other components have no such switch: starts overtake stops, commands of a VFO
overlap restarts, generator runs meet, calls of the tracker overlap and the disk
fills, in every run. What is then lost is lost, and the properties say by what
alone: `EntryKept`, `OneWorkerKept`, `DecoderKept`, `ClashesHaveCause` and
`NoSecondRow` are action properties that name each step in which the good state may
end; `SettingWins` and `TrackerFollowsRow` speak of the commands and calls that met no
other (`calm`, `amiss`), whatever went wrong before them; `SamplesAreLabelled` speaks
of what comes before the first failed write. The plain forms (no process without
its entry, one decoder, no clash, one row for a pass) are violated: section 6 says how.

## 4. Runs

| Run | Instance | Shows |
|---|---|---|
| `operator` | 2 messages, queue of 1, 1 slot, 3 of start/stop/cancel, 1 echo; messages symmetric | the safety properties of the link under every order of the operator's acts and the threads' steps (0.88 M states) |
| `faults` | 1 file, 1 slot, 4 of 14 kinds of moves | the refinement survives crashes, reconnects, flushes, failed launches, a deaf radio (0.92 M states) |
| `liveness` | a message and a file, queue of 1, 2 moves | every message settles (0.15 M states, with fairness) |
| `fullqueue` | 3 messages, queue of 1, 2 of start/stop | a put that blocks the event loop gets through (0.36 M states, with fairness) |
| `slowjoin` | 2 messages, 2 slots, 3 moves with `slowjoin` and `reconnect` | threads that stop() left behind do no harm, end, and are known to be halted while they are keyed (0.37 M states) |
| `server` | every other component, one in focus at a time | the table above (0.40 M states, with fairness) |
| `cancel_lost`, `revived`, `reconnect_lo`, `sent_whole`, `paid_twice`, `failed_completed` | the smallest instance each | the six counterexamples |

Why the bounds of the link are enough: a `tx_queue` of one place is
full with one request, so that two messages block the loop before the station
starts, and three do while one is on the air; one chunk
separates "before", "during" and "after" the only write, and `TxChunk`/`TxWrite`
let the flags change within it; `QuietPolls = 1` in `faults` makes a quiet poll
that can be undone by a busy one; two slots are one old and one new thread;
three or four moves suffice for start - act - restart, and for a fault after each.
Two buffers, two quiet polls in all runs or a fifth move multiply the states
and no action appears that does not appear already. Deadlock is not checked:
when the moves are used up and all messages are settled the system rests.

`slowjoin` does not check `OneTransmitter`, as two threads are then keyed, by
construction of that fault; what holds instead is `OnlyCurrentTransmits` and
`KeyedIsKnown`: the older one was told to stop and begins no further buffer.
`PendingIsOnItsWay` is not checked in `faults`: a dead process and a flush of
`data_queue` lose requests and verdicts (section 6). `Attenuated` and
`PendingIsOnItsWay` hold in `slowjoin` by the theorems.

Bounds of `server` (`MCServer.cfg`) and why they are enough:

* SdrLifecycle: 2 sessions, 2 workers, 1 crash. A monitor or a stop of the
  first worker meets the second and removes its entry; the last session out
  meets one that remains.
* Decoders: 2 commands, 2 restarts, 4 processes, 2 classes: a restart of each
  origin against a change and a stop.
* Observations: 2 recordings (one opens, one fails), 2 syncs, 2 edits, 1 reboot,
  1 failure: each fault in each step of start, stop, cancel and sync.
* Inbox: 2 clicks and 3 tries, 2 savings, 1 lost answer or restart: pay, be cut
  off, pay again.
* Receiver: 3 files, one of each length from 1 to 3 frames, two with one frame
  type; a window of 2 and 6 transmissions let a file fall out of the window.
* Beacon: one error, spots from -4 to 4 in units of 200 Hz, strange lines at 4, 2
  acts (calibrations, changes of channel, starts): a locked tracker meets readings 200
  Hz off, which it hears and distrusts, and ones beyond its window, which it misses;
  `tights` and `misses` keep the code's own limits, 3 readings to lock and 4 to lose.
* Generator: 2 passes whose tasks conflict, the higher one last; 2 runs that may
  overlap (one with the operator's overrides, for the second pass only), 3 ticks, 2
  rows: a row that is over comes back into a clash, and a pass gets a second row.
* Tasks: 2 tasks, both syncs; the mailbox holds what they report.
* Tracker: 2 satellites, 5 requests, 2 calls, 1 start of the server beside, each lookup of which may
  find nothing.
* Invoices: 2 invoices, 2 nodes, a limit of 2 rows, 3 events: a row of another
  node and a row pushed out of the list.
* TleSync: 2 sources, 2 satellites, 3 transmitters (own, follower, imported), 2
  syncs, 3 acts. At first one source lists both satellites and the other one;
  any list may follow.
* Recorder: 2 tunings of two frequencies and two rates, 2 recordings, 2 chunks,
  queues of 1: a chunk of the old tuning in each queue at a retune, a second
  recording while the thread of the first one, given up, still writes.

The server may rest when the bounds are used up, so deadlock is not checked.

### Fairness

`FairSpec` asks weak fairness of each TX thread (`TxProgress`), of the main
loop, of each started coroutine and of the monitor. Threads and asyncio tasks are
scheduled by the OS and the event loop, so a step that stays enabled is
taken. `TxProgress` contains `PollTimeout`, enabled all the time a thread
listens, because `LBT_TIMEOUT_S` ends the wait whatever the channel does;
`PollBusy` and `PollQuiet` are left to the world. There is no fairness of
requests, faults, echoes or errors. `StationStays` states the hypothesis of the
liveness properties: from some moment on the process lives, has a runner, and
executes no stop.

In the server each component has weak fairness of *one* action that is the
disjunction of its coroutines' and tasks' steps (`LifecycleGoesOn`,
`ObservationGoesOn`, `InboxGoesOn`, `WatchGoesOn`). Those steps come finitely often
after each act of the operator, of which there are finitely many, so that none
can be passed over for ever and fairness of each by itself would say the same.
`Beacon` has it of `Measure` (samples keep coming) and of retunes (the worker
reads its queue); `Tasks` of each task's monitor; `Tracker` of each call, of `Take`
and of `Iterate` (the process loops). The operator, crashes, the node's
payer, the weather and lost frames have none. `Decoders`, `Receiver`,
`Generator`, `TleSync`, `Recorder` have safety properties only.

## 5. Proofs

For every value of the constants unless an assumption is named. Each
theorem rests on an inductive invariant, named parts of which say why the
property is kept; the invariants were checked by TLC first. Every safety
invariant and action property of the passing runs is proved.

Under the switches of section 3, or without some moves of the link:

| Theorem | Says | Inductive invariant | Assumes |
|---|---|---|---|
| `LinkProofs!AttenuatedAlways` | `Attenuated` | `TypeOK /\ LoopInv /\ Attenuated` | no `deaf`, no `reconnectfail` |
| `PendingAlwaysOnItsWay` | `PendingIsOnItsWay` | `OneCopy /\ InOrder /\ Kept /\ StaysUp` | no `die`, `quit`, `flush` |
| `LinkImplementsCourier` | `CourierKept`: the link implements `Courier` | `TypeOK /\ OneCopy /\ LoopInv /\ Ownership`, and for each action the step of `Courier` it is | no `slowjoin` |
| `UplinkUnlessReconnected` | `KeyedOnUplink` | `UplinkInv`: while a runner has a thread that has not ended the radio is on the uplink, and none is left when the process boots | no `reconnect`, `reconnectfail` |
| `StopHoldsWhileRunnerStays` | `StoppedStaysOffAir`: a cancel the worker took holds | `CancelHeld`: a cancelled message's command is under way, or the main loop's runner knows of it, or the message is through; with `Ownership` no other runner can take it | the runner stays while the station runs (`RunnerStays`), and commands find one (`CancelsReach`) |
| `InboxProofs!TransactionsGoOnce`, `RowsTellPayments` | `RelayedOnce`, `RowTellsPayment` | `InboxInv`: `OneHandler`, `OneClick`, `Unsent`, `Clicked`, `Unpaid`, `Waited`, `PaidIsFinal` | `Gentle` |
| `GeneratorProofs!RecordingsHaveTheirStop`, `JobsFollowTheirRow` | `RecordingHasItsStop`, `JobsFollowRow` | `ObservationsInv`: a sync is alone (`OneSyncAtATime`, `SyncAlone`), a start that opens sessions has its stop job (`StartHasStop`), open sessions are covered by a job or a coroutine (`LiveIsCovered`, `CancelCovers`), `AddIsWanted`, `RestIsEmpty` | `Patient` |
| `TasksProofs!NothingIsLeftOver`, `NothingListedIsLost` | `EverythingBelongs`, `SyncKeepsListed` | `FreshIsGot` (a group written in this sync is among what was fetched), `MergedIsStored` (what was merged is still stored) | `Unhindered` |

Whatever the operator, the faults and the moves:

| Theorem | Says | Inductive invariant |
|---|---|---|
| `LinkProofs!TypeCorrect` | `TypeOK` | itself; it needs `BusyHasMsg`, without which a verdict could be reported for no row |
| `OneCopyCorrect`, `EachMessageOnce` | a request is in one place at most; each message by itself goes only onward from `new` to `settled`, as in `Courier` | `OneCopy` |
| `OnlyCurrentTransmitsAlways`, `KeyedThreadsAreKnown` | `OnlyCurrentTransmits`; `KeyedIsKnown`: a keyed thread is of the runner the main loop can stop, or was told to stop, also after a join that gave up | `TypeOK /\ LoopInv /\ HaltInv` |
| `ConfirmedStays` | `ConfirmedNotUndone` | `OnlyBegun /\ MonRespects` |
| `SentIsWholeUnlessHalted` | a burst reported as sent is whole, or its runner was told to stop: all that is left of `SentIsWhole` | `DrainInv` |
| `RevivedOnlyByCancel` | only a finished cancel_tx lets a report rewrite "stopped": all that is left of `StoppedNotRevived` | `ReadBeforeStop` |
| `AttenuationLostOnlyByFault` | `Attenuated` is lost only in a step in which the radio is deaf or a reconnect raises half way | `LoopInv` |
| `WayLostOnlyWithTheProcess` | a request loses its place unsettled only with the process or in a flush: all that is left of `PendingIsOnItsWay` | `OneCopy` |
| `HaltedThreadsRunDown` | a thread told to stop has two turns at most before it ends, whoever else moves | `TypeOK`; the measure is `TurnsLeft` |
| `BurstsRunDown` | a thread has a bounded number of turns with a request, polls of a busy channel aside | `TypeOK`; the measure is `BurstLeft` |
| `SdrLifecycleProofs!EntriesAreKept`, `WorkersAreKeptApart` | `EntryKept`, `OneWorkerKept`: only a stop that removes the entry of a newer worker takes a worker's entry, and a second worker starts only beside one without entry | `InOrderOfStart`, `NamesWorker` |
| `StopsHaveCauses` | `StoppedForCause` | `Causes`: who waits for a worker told it to stop, who ended was told to or crashed, the entry is the last one launched or none |
| `LostForGood` | a worker out of reach that no call names is never told to stop | `InOrderOfStart`, `NamesWorker` |
| `VfoGetsItsDecoder` | `SettingWins` | `SlotInv`: one restart at work (`OneRestart`), what the slot holds lives but for the while a restart takes it out (`SlotLives`, `MadeLives`); `calm => Calm`: what the command and the restarts under way know is true (`LookupKnows`, `RestartKnows`) |
| `DecoderLostOnlyByRestart` | `DecoderKept`: only a restart that clears or fills the slot while a decoder runs there takes it out of reach, and for good | `Classed` |
| `ReceiverProofs!FilesComeOnce` | `NotTwice` | `RemembersLast` (`_done_ids` is what was handed on last), `PartIsNew` (what is put together is not in it) |
| `CleanFilesArrive` | `CleanFileArrives` | `LeftOfFrames` (what is on the air is an end of the file's frames), `Collects` (what came before that end is in the partial file, or the file was handed on) |
| `SamplesKeepTheirTuning` | `SamplesAreLabelled` | `RecorderInv`: what is counted is the length of the file until a write fails (`Counts`), the last capture is of the frequency of the tuning held (`LastCapture`), a file is closed and its metadata written only of a thread that begins no capture (`ClosedIsHalted`) |
| `GeneratorProofs!ClashesAreCaused`, `PassesAreObservedOnce` | `ClashesHaveCause`, `NoSecondRow` | `GeneratorInv`: ids are unique (`OwnIds`), runs that met are known (`CrowdsAreKnown`), and what a run that was not hindered found out stays true: its pass has no marked row (`Unobserved`), it deletes all that is in the way (`DeletesAll`), and nothing is when it creates (`NothingInTheWay`) |
| `BeaconProofs!LocksAreMeasured` | `LockIsMeasured`: the last reading taken was close, four lines in a row were not missed since one was heard, and the correction is what was read; readings that are distrusted end no lock and count for nothing here | itself, with the types |
| `TrackerShowsDevices` | `ShownAsItIs` | itself, with the types |
| `InboxProofs!SentOncePerSave` | a transaction in clear is sent once, a sealed one at most once for each save of a passphrase: what holds without `Gentle` | `DueInv`: what was sent and the handlers that may still send are, together, at most one, or the transaction is sealed and they are no more than the saves |
| `PaidMeansSettled` | only an invoice that was clicked on is paid, and "paid" is shown of nothing the node did not settle | `ClickedOn` |
| `ShownAsToldByNode` | our own invoices: "paid" only of a settled one, "expired" only of a canceled one | `InvoicesInv` |
| `ShownIsFinal` | a row that says "paid" or "expired" stays so | `WatchInv`: the pass of the watcher holds only rows that were shown, and a row is shown only when its request is done |
| `ServerProofs!ComponentsAreIndependent` | each behaviour of the server is one of every component's own specification: what is proved of one holds in the server | none: each step is one component's |
| `ServerKeepsItsPromises` | of the server as a whole, all of its safety properties that need no switch | those of the components, by `ComponentsAreIndependent` |
| `TasksProofs!SyncsAreAlone` | `OneSync` | `Unstarted`, `WorkingIsKnown`, `OneRuns` |
| `ServerTypeCorrect` | `ServerTypeOK` | those of the components |
| `LifecycleTypeCorrect`, `DecodersTypeCorrect`, `ObservationsTypeCorrect`, `GeneratorTypeCorrect`, `InboxTypeCorrect`, `ReceiverTypeCorrect`, `RecorderTypeCorrect`, `InvoicesTypeCorrect`, `TleSyncTypeCorrect` (those of `Beacon`, `Tracker`, `Tasks` are part of the theorems above) | the types and bounds of each component | `NamesWorker` (a stop under way is about a worker there is), `RestartHasClass`, `OwnIds`, `Room` (what a recording counted and what is still to come to it is no more than was made), ... |

Why the invariants are needed. `LoopInv`: while the main loop boots or builds
a runner, it has none, and a dead process is before its boot; without it
`Launch` could overwrite a running runner. `Ownership`: a TX thread that has not
ended belongs to the main loop's runner; `OneTransmitter` alone does not
survive `TxKey` by an old thread that is still listening. It needs a join that does
not give up, and the refinement rests on it. `HaltInv`: a thread
that is not the main loop's was told to stop; so it finds the flag at its next
`TxChunk`. `OnlyBegun`: nothing is on a queue, in a thread or reported that was
not stored; `MonRespects`: what the monitor is about to write respects what it
read. `OneCopy`: a request is in one place only; `InOrder`: its reports are in
the order they were made; `Kept`: it is in some place or its verdict is on
its way; each alone is lost at the next step of a thread. `StaysUp`
is what the absence of the three moves gives.

The refinement. `Phase(m)` maps a message to the phase of `Courier` (section 3).
By `OneCopy` a message is in one phase only, whatever the order in which `Phase`
looks (`PhasesAre`). Most actions move no message and are stutters; `Enqueue`
accepts, `Refuse` and `Crash` reject (`Begins`), `TxKey` and nothing else airs
(`Keys`, `KeyedKept`), the thread that lets go settles, and the end of a process
settles all it held in one step (`Ends`). That two are never on the air needs `Ownership`, and thus that
no join gives up; what each message goes through does not, and is the
unconditional `EachMessageOnce`.

`CleanFileArrives` was first stated with `_done_ids`, and a larger instance
refuted that: with a window of 2 a file whose frames are repeated can be pushed
out of the window by what is handed on after it. It speaks of `files` now, which
is what the caller gets. `LongestAssumption` (some file is longest) is what "The
10-bit frame counter limits a file to 1024 frames" gives: with it `MaxSeq` exists
for infinitely many files, too.

The assumptions that are left are real limits of the code: a swallowed exception of the
finally block (`deaf`), a reconnect that fails half way (`reconnectfail`),
`join(timeout=1.5)` (`slowjoin`), the loss of queues (`die`, `quit`, `flush`), and
the three switches of section 3. The models contain what they exclude.

The constants' assumptions (`QueueAssumption`, `RunnerAssumption`,
`ServiceAssumption`, `LifecycleAssumption`, `TleSyncAssumption`, ...) say:
bounds are numbers, markers are outside the sets they complete.

What the operator or a fault can break is, of the link, stated twice: under the
condition that it does not happen, and without it as the only steps in which the
property can be lost (`AttenuationLostOnlyByFault`, `WayLostOnlyWithTheProcess`,
`SentIsWholeUnlessHalted`, `RevivedOnlyByCancel`). Of the lifecycle, the decoders,
the recorder and the generator only the second kind is stated, and the runs check it,
since there the order of events that the condition would exclude is the interesting
one.

Only model-checked: all liveness properties (`EveryMessageSettles`,
`LoopUnblocks`, `HaltedThreadsEnd`, `StopEnds`, `RecordingEnds`, `RelayHappens`,
`SettledIsShown`, `ConvergesOrDistrusts`, `DeadIsNoticed`, `TrackerFollowsRow`), as the prover
reaches neither liveness under fairness nor ENABLED, and the counterexamples. Of
`HaltedThreadsEnd` and `EveryMessageSettles` the safety part is proved
(`HaltedThreadsRunDown`, `BurstsRunDown`): what a thread still has to do is bounded
and runs down at each of its turns, so that only the fairness of its turns is left
to TLC.

## 6. Where the code departs from what it says

1. **A cancel can be lost** (`cancel_lost`). cancel_tx promises "Stop sending a
   message: queued, waiting for a clear channel or on air." The command is
   dropped when no station runs, and a restarted station forgets the
   cancelled rows, while tx_queue keeps the request. The message is sent later, and
   since the row says "stopped" all its reports are ignored. These are the only
   two ways: while the runner stays, a cancel that reaches it holds
   (`StopHoldsWhileRunnerStays`).
2. **A stopped row can be revived** (`revived`). "late worker reports don't
   revive it" is checked before an await; the write comes after it.
3. **A burst on the wrong frequency** (`reconnect_lo`). A reconnect leaves the
   TX LO at the RX centre, and `_tx_lo` keeps the next burst from moving it.
4. **A truncated burst reported as sent** (`sent_whole`). The producer's early
   `None` after a stop is taken for the end of the burst.
5. **An invoice can be paid by two calls** (`paid_twice`). lightning_pay, "never
   twice", checks the row, awaits the node's decode, and then marks the row.
   The node settles once; the refused call overwrites "paid".
6. **A failed observation is shown completed** (`failed_completed`).
   remove_scheduled_stop_job tests a name imported while it was `None`.

Further behaviour that the models show and for which there is no run of its
own, by component:

* Link: rows stay "queued" or "sending" for ever when the process dies, when
  data_queue is flushed, or when send_file meets a dead worker after its row
  was stored; a full tx_queue stops the whole server until the TX thread takes
  a request; after three failed reconnects the service believes the station
  stopped.
* SdrLifecycle: a stop that waits deletes the entry of a worker started meanwhile
  (`processlifecycle.py:673-675`), which then has no entry; the next start passes
  "already running?" (`:225`) and a second worker opens the device, and nothing stops
  the first one then (`LostForGood`). `EntryKept` and `OneWorkerKept` say that this is
  the only way. To see it: `LifecycleSpec`, 2 workers and `NoOrphan`, or 3 and
  `OneWorker`.
* Sessions, not modelled: consumers may be started for a session that only
  configured the SDR (`pipeline/managers/consumerbase.py:70-74`,
  `session/service.py:97-105`), and when it leaves nothing stops them, as it is in no
  entry's clients (`processlifecycle.py:544`).
* Decoders: a command between a restart's kill and its drop starts a decoder that
  the restart forgets, in spite of the "single-flight guard"
  (`decodermanager.py:116`); and of two commands the earlier may finish last and win.
  `DecoderKept` says that a decoder is lost in these steps only. To see it:
  `DecodersSpec` and `OneDecoder`.
* Observations and generator: an observation skipped by an early return of
  start_observation stays in `_running_observations` and cannot run again; one
  synchronised during its window never starts, but its stop job completes it;
  a generator run sets a running row back to "scheduled", although
  `conflicts.py:89` says to skip those (should_update_observation is never called); it brings a failed or
  parked row back into a clash with one created meanwhile
  (`generator.py:330-335`); two runs at once create both rows of a clash or of a pass;
  the row of a deletion that was refused stays beside the new one. `ClashesHaveCause`
  and `NoSecondRow` say that nothing else does this.
* Tracker: of two calls at once, fields of the one are lost to the other; a call
  whose satellite is not found sends no ephemeris (`tracker/manager.py:455-468`), and
  the worker then skips every iteration until a later call finds it
  (`tracker/logic.py:280-284`); after a failed opening a
  "tracking" row that is sent again shows the device tracking without a
  controller; corrections of the worker are not written back to the row; another
  rotator_id keeps the old controller; a lost rotator link is not noticed; parking
  ("K") does not read the reply.
* Beacon: a reading that is heard sets the misses to zero (`beacon.py:300`) before
  a far-off one is to be counted "as a miss" (`:318-322`), so that the count never
  passes one: a locked tracker whose beacon is steadily 100 to 300 Hz beside its
  prediction, as after a calibration or a retune, distrusts it for ever and keeps its
  lock (the second case of `ConvergesOrDistrusts`). A calibration pressed twice before
  the retune is applied doubles the correction (`beacon.py:113`, `service.py:345`).
* Invoices: a lookup that fails ends the watcher's pass, so that an invoice of a node no
  longer connected hides all older ones; only the newest 200 rows are watched; a
  restart between sending and marking leaves an invoice unwatched.
* TLE sync: success is reported though a source failed (`tlesync/logic.py:669`);
  deleting a source deletes satellites that other sources list, and manual
  ones (`crud/tlesources.py`); a manual satellite is removed when a source
  that listed it drops it; an empty list answered with 200 removes a whole
  group; a transmitter that follows a removed satellite stays; a
  group whose write is refused leaves the merged satellites in no group; an
  operator's delete during a sync leaves rows without their satellite, as SQLite's
  foreign keys are not enforced. The scheduled sync is disabled
  (`server/scheduler.py:30-60`): only the operator starts one.
* Recorder: a write that fails leaves part of a chunk in the file uncounted, and
  the captures that follow are shown too early (`iqrecorder.py:208`); the rate is one
  value, told at the stop (`iqrecorder.py:280`), while captures tell the frequency only
  (`:155-163`), so that a change of rate mislabels what was recorded before it; the
  start of a recording while another runs answers success with a path where nothing is
  recorded (`pipeline/managers/consumerbase.py:130`, `server/recorder.py:90`); a chunk
  that arrives after the stop is in the file although the count of the log leaves it
  out.

## 7. Not modelled, and why

The map covers about a tenth of the implementation's lines. The rest is, by size:

* signal processing and numeric code (demodulators' and decoders' DSP, FFT, orbits,
  modems, beacon spectra): no state a model checker can tell apart; what it
  finds is a choice in `Beacon`, `Receiver` and the link's echoes;
* formats (telemetry parsers, envelopes, error correction, CRC, encryption):
  data of the messages the models pass around;
* views and I/O (file browser, monitoring, hardware pages, socket dispatch,
  database access, drivers and probes, the React front end, deployment): single
  reads and writes, each of which is a scheduling point of the models above.

Of the modelled components these parts are left out: the stream of samples and its
statistics; settings of the service no handler's control depends on;
`_switch_pluto`; parts of split files (`service.py:447`: two files of one name are
joined, as nothing the code reads tells them apart, so that any property would
hold or fail by the names chosen); other fields of a VFO; positions, limits and Doppler
of the tracker; the edit pages of transmitters; the other SDR workers, whose
loop is a worker of `SdrLifecycle`. Transcription
(manager and workers) streams audio to an external service, and the audio
recorders and broadcasters copy samples: what they hold of the server's state is
a consumer's slot. When these slots are filled and cleared is left out. Of a recording's
samples the frequency shift and the decimation are numeric.
The medium: how the channel looks at a poll is free, so that nothing is said of a
burst keyed on a check that is seconds old (`plutosdrworker.py:305`).

## 8. What is left

Liveness stays with TLC. Proved under a switch and worth more without it: what of
`JobsFollowRow` and `RecordingHasItsStop` survives an impatient operator, and of
`RowTellsPayment` and `EverythingBelongs` a hasty one, as `SentOncePerSave` says it of
`RelayedOnce` and `EachMessageOnce` of `CourierKept`. Not modelled and worth it:
the consumers of sessions, of which section 6 names one that nobody stops. A fix of
one of the departures can be tried by changing the action, and the plain form of the
property then checked.
