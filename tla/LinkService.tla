---------------------------- MODULE LinkService ----------------------------
(***************************************************************************)
(* bitlink21/service.py: the asyncio side of the link.  Handlers are       *)
(* coroutines of one event loop: what lies between two awaits is one step, *)
(* and every database call is an await, so handlers interleave there.      *)
(***************************************************************************)
EXTENDS LinkQueues

CONSTANT Files  \* the rows sent by send_file; the others by send_message

ASSUME ServiceAssumption == Files \subseteq Msgs

VARIABLES
    status,   \* messages.status of each row
    echoed,   \* rows with echo_at set
    station,  \* station_sdr_id is not None
    send,     \* row -> where its send handler is
    canc,     \* row -> where its cancel_tx is
    starting, \* where the start_station that holds _start_lock is
    mon       \* event the monitor task has read a row for, and not yet written

serviceVars == <<status, echoed, station, send, canc, starting, mon>>

Pending == {"queued", "waiting", "sending"}
NoEvent == Event("none", NoMsg)

ServiceTypeOK ==
    /\ status \in [Msgs -> {"none", "queued", "confirmed"} \cup TxStatuses]
    /\ echoed \subseteq Msgs
    /\ station \in {"on", "off"}
    /\ send \in [Msgs -> {"new", "stored", "blocked", "refused", "crashed", "done"}]
    /\ canc \in [Msgs -> {"no", "read", "put", "done"}]
    /\ starting \in {"no", "boot", "put"}
    /\ mon \in Reports \cup {NoEvent}

ServiceInit ==
    /\ status = [m \in Msgs |-> "none"] /\ echoed = {}
    /\ station = "off"
    /\ send = [m \in Msgs |-> "new"]
    /\ canc = [m \in Msgs |-> "no"]
    /\ starting = "no"
    /\ mon = NoEvent

\* multiprocessing.Queue.put on a full queue blocks the thread it is called
\* from, which is the event loop: nothing else of the service runs meanwhile.
LoopFree == \A m \in Msgs : send[m] # "blocked"

-----------------------------------------------------------------------------
(* send_message and send_file.                                             *)

\* The gates before the first await, then add_message.  send_file looks at
\* the station here, send_message later.
Store(m) ==
    /\ LoopFree /\ send[m] = "new"
    /\ m \in Files => Up /\ station = "on"
    /\ status' = [status EXCEPT ![m] = "queued"]
    /\ send' = [send EXCEPT ![m] = "stored"]
    /\ UNCHANGED <<shared, echoed, station, canc, starting, mon>>

\* After the await: tx_queue.put, at once if there is room.
Enqueue(m) ==
    /\ LoopFree /\ send[m] = "stored"
    /\ Up /\ (m \in Files \/ station = "on")
    /\ IF Len(txQ) < TxQueueMax
       THEN txQ' = Append(txQ, m) /\ send' = [send EXCEPT ![m] = "done"]
       ELSE send' = [send EXCEPT ![m] = "blocked"] /\ UNCHANGED txQ
    /\ UNCHANGED <<cfgQ, evQ, proc, moves, status, echoed, station, canc, starting, mon>>

\* (bug: put on a queue that does not hold the caller back)
PutUnblocksFull(m) ==
    /\ send[m] = "blocked" /\ Up
    /\ txQ' = Append(txQ, m)
    /\ send' = [send EXCEPT ![m] = "done"]
    /\ UNCHANGED <<cfgQ, evQ, proc, moves, status, echoed, station, canc, starting, mon>>

PutUnblocks(m) ==
    /\ send[m] = "blocked" /\ Up /\ Len(txQ) < TxQueueMax
    /\ txQ' = Append(txQ, m)
    /\ send' = [send EXCEPT ![m] = "done"]
    /\ UNCHANGED <<cfgQ, evQ, proc, moves, status, echoed, station, canc, starting, mon>>

\* send_message without a station: the row is failed, in a second write.
Refuse(m) ==
    /\ LoopFree /\ m \notin Files
    /\ \/ /\ send[m] = "stored" /\ ~(Up /\ station = "on")
          /\ send' = [send EXCEPT ![m] = "refused"]
          /\ UNCHANGED status
       \/ /\ send[m] = "refused"
          /\ status' = [status EXCEPT ![m] = "failed"]
          /\ send' = [send EXCEPT ![m] = "done"]
    /\ UNCHANGED <<shared, echoed, station, canc, starting, mon>>

\* send_file subscripts the None of _find_pluto(): the row stays queued.
Crash(m) ==
    /\ LoopFree /\ m \in Files /\ send[m] = "stored" /\ ~Up
    /\ send' = [send EXCEPT ![m] = "crashed"]
    /\ UNCHANGED <<shared, status, echoed, station, canc, starting, mon>>

-----------------------------------------------------------------------------
(* cancel_tx: read the row; command the worker; write the row.             *)

CancelRead(m) ==
    /\ LoopFree /\ canc[m] = "no" /\ status[m] \in Pending /\ Move("cancel")
    /\ canc' = [canc EXCEPT ![m] = "read"]
    /\ UNCHANGED <<cfgQ, txQ, evQ, proc, status, echoed, station, send, starting, mon>>

CancelPut(m) ==
    /\ LoopFree /\ canc[m] = "read"
    /\ cfgQ' = IF Up THEN Append(cfgQ, CancelCommand(m)) ELSE cfgQ
    /\ canc' = [canc EXCEPT ![m] = "put"]
    /\ UNCHANGED <<txQ, evQ, proc, moves, status, echoed, station, send, starting, mon>>

CancelWrite(m) ==
    /\ LoopFree /\ canc[m] = "put"
    /\ status' = [status EXCEPT ![m] = "stopped"]
    /\ canc' = [canc EXCEPT ![m] = "done"]
    /\ UNCHANGED <<shared, echoed, station, send, starting, mon>>

-----------------------------------------------------------------------------
(* Station control.                                                        *)

\* The part of start_station after the worker was found.
PutStart ==
    /\ cfgQ' = Append(cfgQ, Command("start"))
    /\ station' = "on"
    /\ starting' = "no"

Start ==
    /\ LoopFree /\ starting = "no" /\ Move("start")
    /\ IF Up THEN PutStart ELSE starting' = "boot" /\ UNCHANGED <<cfgQ, station>>
    /\ UNCHANGED <<txQ, evQ, proc, status, echoed, send, canc, mon>>

\* start_sdr_process: a process that another caller booted in the meantime is
\* reconfigured instead, which moves the SDR ("tune") if it was elsewhere.
StartBoot ==
    /\ LoopFree /\ starting = "boot"
    /\ proc' = IF Up THEN proc ELSE "up"
    /\ UNCHANGED cfgQ \/ (Up /\ cfgQ' = Append(cfgQ, Command("tune")))
    /\ starting' = "put"
    /\ UNCHANGED <<txQ, evQ, moves, status, echoed, station, send, canc, mon>>

\* _start_pluto raises when the process is gone again.
StartPut ==
    /\ LoopFree /\ starting = "put"
    /\ IF Up THEN PutStart ELSE starting' = "no" /\ UNCHANGED <<cfgQ, station>>
    /\ UNCHANGED <<txQ, evQ, proc, moves, status, echoed, send, canc, mon>>

Stop ==
    /\ LoopFree /\ Move("stop")
    /\ cfgQ' = IF Up THEN Append(cfgQ, Command("stop")) ELSE cfgQ
    /\ station' = "off"
    /\ UNCHANGED <<txQ, evQ, proc, status, echoed, send, canc, starting, mon>>

\* update_settings with a new profile while the station is on.
Retune ==
    /\ LoopFree /\ station = "on" /\ Move("retune")
    /\ \/ Up /\ cfgQ' = Append(cfgQ, Command("retune")) /\ UNCHANGED starting
       \/ ~Up /\ starting = "no" /\ starting' = "boot" /\ UNCHANGED cfgQ
    /\ UNCHANGED <<txQ, evQ, proc, status, echoed, station, send, canc, mon>>

\* The classic page moves the SDR: by joining the running process, or through
\* update_configuration, which also empties data_queue.
Waterfall ==
    /\ LoopFree /\ Up
    /\ \/ Move("waterfall") /\ UNCHANGED evQ
       \/ Move("flush") /\ evQ' = <<>>
    /\ cfgQ' = Append(cfgQ, Command("tune"))
    /\ UNCHANGED <<txQ, proc, serviceVars>>

\* The classic page starts the process; the station is left alone.
ClassicBoot ==
    /\ LoopFree /\ ~Up /\ Move("classic")
    /\ proc' = "up"
    /\ UNCHANGED <<cfgQ, txQ, evQ, serviceVars>>

\* force_stop_sdr: an explicit stop of the SDR sets stop_event.
QuitSdr ==
    /\ LoopFree /\ Up /\ Move("quit")
    /\ proc' = "stopping"
    /\ UNCHANGED <<cfgQ, txQ, evQ, serviceVars>>

-----------------------------------------------------------------------------
(* The monitor task of the worker process: one event at a time, in order.  *)

\* (bug: late reports overwrite a confirmation)
DroppedIfStopped(e) ==
    \/ e.ev \in TxStatuses /\ status[e.msg] = "stopped"
    \/ e.ev = "echo" /\ e.msg \in echoed

\* bitlink21_tx_status: confirmed and stopped rows are left alone.
Dropped(e) ==
    \/ /\ e.ev \in TxStatuses
       /\ \/ status[e.msg] = "confirmed" /\ e.ev # "failed"
          \/ status[e.msg] = "stopped"
    \/ e.ev = "echo" /\ e.msg \in echoed

\* Take an event and read its row (an await).
MonitorRead ==
    /\ LoopFree /\ Up /\ mon = NoEvent /\ evQ # <<>>
    /\ LET e == Head(evQ) IN
       IF e.ev = "station_error"
       THEN station' = "off" /\ UNCHANGED mon
       ELSE mon' = (IF Dropped(e) THEN NoEvent ELSE e) /\ UNCHANGED station
    /\ evQ' = Tail(evQ)
    /\ UNCHANGED <<cfgQ, txQ, proc, moves, status, echoed, send, canc, starting>>

\* Write the row from what was read.
MonitorWrite ==
    /\ LoopFree /\ mon # NoEvent
    /\ status' = [status EXCEPT ![mon.msg] = IF mon.ev = "echo" THEN "confirmed" ELSE mon.ev]
    /\ echoed' = IF mon.ev = "echo" THEN echoed \cup {mon.msg} ELSE echoed
    /\ mon' = NoEvent
    /\ UNCHANGED <<shared, station, send, canc, starting>>

-----------------------------------------------------------------------------
SendStep(m) == Store(m) \/ Enqueue(m) \/ PutUnblocks(m) \/ Refuse(m) \/ Crash(m)
CancelStep(m) == CancelRead(m) \/ CancelPut(m) \/ CancelWrite(m)
StationStep == Start \/ StartBoot \/ StartPut \/ Stop \/ Retune \/ Waterfall
               \/ ClassicBoot \/ QuitSdr
MonitorStep == MonitorRead \/ MonitorWrite

ServiceNext ==
    \/ \E m \in Msgs : SendStep(m) \/ CancelStep(m)
    \/ StationStep \/ MonitorStep
=============================================================================
