-------------------------------- MODULE Link --------------------------------
(***************************************************************************)
(* The transmit path of BitLink21 as a whole: the asyncio service and the  *)
(* PlutoSDR worker composed over their queues, and what should hold of it. *)
(***************************************************************************)
EXTENDS PlutoRunner, LinkService

vars == <<shared, runnerVars, serviceVars>>

Init == QueuesInit /\ RunnerInit /\ ServiceInit

Worker == RunnerNext /\ UNCHANGED serviceVars

Service == ServiceNext /\ UNCHANGED runnerVars

Next == Worker \/ Service

Spec == Init /\ [][Next]_vars

\* The steps the worker's threads owe.  How the channel looks at a poll is
\* the world's choice; that listening ends after LBT_TIMEOUT_S is not.
TxProgress(r) ==
    \/ TxTake(r) \/ TxExit(r) \/ ListenHalted(r) \/ PollTimeout(r)
    \/ TxKey(r) \/ TxChunk(r) \/ TxWrite(r) \/ TxEnd(r)
    \/ TxHalted(r) \/ TxCancelled(r) \/ TxDrained(r)

\* The steps a started coroutine owes.
SendGoesOn(m) == Enqueue(m) \/ PutUnblocks(m) \/ Refuse(m) \/ Crash(m)
CancelGoesOn(m) == CancelPut(m) \/ CancelWrite(m)

Fairness ==
    /\ WF_vars(MainLoop /\ UNCHANGED serviceVars)
    /\ \A r \in Slots : WF_vars(TxProgress(r) /\ UNCHANGED serviceVars)
    /\ \A m \in Msgs : /\ WF_vars(SendGoesOn(m) /\ UNCHANGED runnerVars)
                       /\ WF_vars(CancelGoesOn(m) /\ UNCHANGED runnerVars)
    /\ WF_vars((StartBoot \/ StartPut) /\ UNCHANGED runnerVars)
    /\ WF_vars(MonitorStep /\ UNCHANGED runnerVars)

FairSpec == Spec /\ Fairness
-----------------------------------------------------------------------------
\* Every variable has its type, tx_queue its bound, and a thread that is in
\* _transmit a request.
TypeOK == QueuesTypeOK /\ RunnerTypeOK /\ ServiceTypeOK /\ BusyHasMsg
          /\ Len(txQ) <= TxQueueMax

\* At most one thread has the transmitter keyed, and it belongs to the
\* runner the main loop knows (so that a stop or a cancel reaches it).
OneTransmitter == \A r \in Slots : Keyed(r) => r = main.cur

\* Whenever a station is running and no burst is being sent, the TX gain is
\* the idle attenuation (TX_IDLE_GAIN_DB), however the burst ended or was
\* stopped, and through restarts and reconnects that succeed.
Attenuated ==
    (Up /\ Running /\ \A r \in Slots : ~Keyed(r)) => radio.gain = "idle"

\* A message whose row says it is still on its way is really somewhere on its
\* way: queued, held by a TX thread, or settled by a report that the monitor
\* has not written yet.  (_transmit reports on every path out of it.)
OnItsWay(m) ==
    \/ m \in Range(txQ)
    \/ \E r \in Slots : Holds(r, m)
    \/ \E v \in Verdicts \cup {"echo"} : Event(v, m) \in Range(evQ) \cup {mon}

PendingIsOnItsWay ==
    \A m \in Msgs : send[m] = "done" /\ status[m] \in Pending => OnItsWay(m)

\* A confirmed delivery is only ever turned into a failure or, by the
\* operator, into "stopped": the reports of the burst that was heard come in
\* after its echo and must not bring back "sending" or "sent".
ConfirmedNotUndone ==
    [][\A m \in Msgs : status[m] = "confirmed" =>
                          status'[m] \in {"confirmed", "failed", "stopped"}]_vars

\* The link implements Courier: a message is accepted when it enters the TX
\* queue (or waits at its full end), on the air while its thread has keyed.
Phase(m) ==
    CASE send[m] \in {"new", "stored", "refused"} -> "new"
      [] \E r \in Slots : Keyed(r) /\ Holds(r, m) -> "onair"
      [] \/ send[m] = "blocked" \/ m \in Range(txQ)
         \/ \E r \in Slots : Holds(r, m) /\ ~Keyed(r) -> "accepted"
      [] OTHER -> "settled"

Promise == INSTANCE Courier WITH phase <- [m \in Msgs |-> Phase(m)]

CourierKept == Promise!CourierSpec

\* While a station stays up, every message handed to it gets a final status.
StationStays == <>[](proc = "up" /\ Running /\ main.pc = "loop")

EveryMessageSettles ==
    StationStays => \A m \in Msgs : (send[m] = "done") ~> (status[m] \notin Pending)

\* While a station stays up, a send blocked on the full TX queue gets through,
\* and with it the event loop of the whole server.
LoopUnblocks == StationStays => []<>LoopFree
-----------------------------------------------------------------------------
\* A thread that stop() left behind because it was in a long call begins no
\* further buffer: only the runner the main loop knows does.
OnlyCurrentTransmits ==
    [][\A r \in Slots : run[r].pc # "write" /\ run'[r].pc = "write" => r = main.cur]_vars

\* Two threads can have the transmitter keyed once stop() gave up on one of them;
\* but one that the main loop does not know was told to stop, so that it ends its
\* burst at its next look, and a stop still reaches the other.
KeyedIsKnown == \A r \in Slots : Keyed(r) => r = main.cur \/ Halted(r)

\* A thread told to stop ends, whatever it was doing and whether or not stop()
\* waited for it, as long as the process lives.
HaltedThreadsEnd ==
    \A r \in Slots : Halted(r) ~> (~Halted(r) \/ run[r].pc = "over")

-----------------------------------------------------------------------------
(* What comments and tests of the repository say, and the code does not do. *)

\* cancel_tx: "Stop sending a message: queued, waiting for a clear channel or
\* on air."  Once the operator has stopped a message and the worker has taken
\* the command, no thread begins a buffer of it.
StoppedStaysOffAir ==
    [][\A m \in Msgs, r \in Slots :
          canc[m] = "done" /\ CancelCommand(m) \notin Range(cfgQ) /\ run[r].pc # "write"
             => ~(run'[r].pc = "write" /\ run'[r].msg = m)]_vars

\* handle_worker_event: "the operator stopped it; late worker reports don't
\* revive it".  A row that is "stopped" is not rewritten by a status report.
StoppedNotRevived ==
    [][\A m \in Msgs : status[m] = "stopped" /\ mon # NoEvent /\ mon' = NoEvent
                          => status'[m] \in {"stopped", "confirmed"}]_vars

\* test_worker_runner: "assert sdr.tx_lo == int(runner.plan.tx_lo_hz)".  A
\* burst is keyed on the uplink frequency of the plan.
KeyedOnUplink ==
    [][\A r \in Slots : ~Keyed(r) /\ Keyed(r)' => radio'.lo = "uplink"]_vars

\* _transmit: "raise RuntimeError("station stopped during TX")".  A burst that
\* is reported as sent went out to its last buffer.
SentIsWhole == [][\A r \in Slots : TxDrained(r) => run[r].left = 0]_vars
=============================================================================
