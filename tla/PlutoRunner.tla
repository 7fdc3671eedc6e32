---------------------------- MODULE PlutoRunner ----------------------------
(***************************************************************************)
(* workers/plutosdrworker.py: the worker process of one PlutoSDR.  Its     *)
(* main loop reads the command queue and the radio; while a BitLink21      *)
(* station runs, a BitLink21Runner adds an RX thread and a TX thread.  A   *)
(* runner occupies a slot; a restart reuses a slot whose TX thread ended.  *)
(***************************************************************************)
EXTENDS LinkQueues

CONSTANTS
    Slots,       \* runners that can exist at once
    NoRunner,
    QuietPolls,  \* quiet polls (0.2 s apart) that make up LBT_CLEAR_S
    Chunks,      \* TX buffers of one burst
    MaxEchoes    \* bound: echoes decoded in one behaviour

ASSUME RunnerAssumption ==
    /\ NoRunner \notin Slots
    /\ QuietPolls \in Nat
    /\ Chunks \in Nat \ {0}
    /\ MaxEchoes \in Nat

VARIABLES
    main,    \* the main loop: pc, the command being executed, bitlink21
    run,     \* slot -> runner
    radio,   \* the PlutoSDR: TX gain and TX LO
    heard,   \* messages of which at least one buffer went on air
    echoes   \* echoes decoded so far (bound)

runnerVars == <<main, run, radio, heard, echoes>>

Gains == {"boot", "idle", "burst"}  \* -10 dB, TX_IDLE_GAIN_DB, profile.tx_gain_db
Los == {"downlink", "uplink"}       \* RX centre, plan.tx_lo_hz

Pcs == {"none", "idle", "listen", "prep", "chunk", "write", "drain", "over"}
Busy == {"listen", "prep", "chunk", "write", "drain"}  \* in _transmit, with a request
Flags == {"rx", "halt", "waiting"}

Runner == [pc : Pcs,
           msg : Msgs \cup {NoMsg}, flags : SUBSET Flags,
           cancelled : SUBSET Msgs, quiet : 0..QuietPolls, left : 0..Chunks, txLo : Los]

NoThread == [pc |-> "none", msg |-> NoMsg, flags |-> {}, cancelled |-> {},
             quiet |-> 0, left |-> 0, txLo |-> "downlink"]

NewRunner == [pc |-> "idle", msg |-> NoMsg, flags |-> {"rx"}, cancelled |-> {},
              quiet |-> 0, left |-> 0, txLo |-> "uplink"]

Receiving(r) == "rx" \in run[r].flags     \* the RX thread is alive
Halted(r) == "halt" \in run[r].flags      \* _stop is set
Waiting(r) == "waiting" \in run[r].flags  \* the busy channel was reported

RunnerTypeOK ==
    /\ main \in [pc : {"boot", "loop", "join", "launch"}, cmd : StationCmds \cup {"none", "quit"},
                 cur : Slots \cup {NoRunner}]
    /\ run \in [Slots -> Runner]
    /\ radio \in [gain : Gains, lo : Los]
    /\ heard \subseteq Msgs
    /\ echoes \in Nat

BusyHasMsg == \A r \in Slots : run[r].pc \in Busy => run[r].msg # NoMsg

RunnerInit ==
    /\ main = [pc |-> "boot", cmd |-> "none", cur |-> NoRunner]
    /\ run = [r \in Slots |-> NoThread]
    /\ radio = [gain |-> "boot", lo |-> "downlink"]
    /\ heard = {} /\ echoes = 0

Keyed(r) == run[r].pc \in {"chunk", "write", "drain"}
Free(r) == run[r].pc \in {"none", "over"}
Holds(r, m) == run[r].pc \in Busy /\ run[r].msg = m

-----------------------------------------------------------------------------
(* The TX thread of slot r: _tx_loop, _wait_for_clear_channel, _transmit.  *)

AfterBurst(r) == IF Halted(r) THEN "over" ELSE "idle"

\* (bug: the finally block forgets the attenuation)
FinishKeyed(r, verdict) ==
    /\ Emit(verdict, run[r].msg)
    /\ run' = [run EXCEPT ![r].pc = AfterBurst(r), ![r].msg = NoMsg,
                          ![r].cancelled = @ \ {run[r].msg}]
    /\ UNCHANGED <<cfgQ, txQ, proc, moves, main, radio, heard, echoes>>

\* Each way _transmit ends: a status event, then its finally block, which
\* swallows a radio that does not take the attenuation.
Finish(r, verdict) ==
    /\ Emit(verdict, run[r].msg)
    /\ run' = [run EXCEPT ![r].pc = AfterBurst(r), ![r].msg = NoMsg,
                          ![r].cancelled = @ \ {run[r].msg}]
    /\ \/ radio' = [radio EXCEPT !.gain = "idle"] /\ UNCHANGED moves
       \/ Move("deaf") /\ UNCHANGED radio
    /\ UNCHANGED <<cfgQ, txQ, proc, main, heard, echoes>>

\* (bug: the request is left on the queue until it was sent)
TxTakePeek(r) ==
    /\ Up /\ run[r].pc = "idle" /\ txQ # <<>>
    /\ Emit("sending", Head(txQ))
    /\ run' = [run EXCEPT ![r].pc = "listen", ![r].msg = Head(txQ),
                          ![r].quiet = 0, ![r].flags = @ \ {"waiting"}]
    /\ UNCHANGED <<cfgQ, txQ, proc, moves, main, radio, heard, echoes>>

\* tx_queue.get: the thread may already be inside it when stop() is called.
TxTake(r) ==
    /\ Up /\ run[r].pc = "idle" /\ txQ # <<>>
    /\ LET m == Head(txQ) IN
       /\ txQ' = Tail(txQ)
       /\ IF m \in run[r].cancelled
          THEN /\ Emit("stopped", m)
               /\ run' = [run EXCEPT ![r].cancelled = @ \ {m}, ![r].pc = AfterBurst(r)]
          ELSE /\ Emit("sending", m)
               /\ run' = [run EXCEPT ![r].pc = "listen", ![r].msg = m,
                                     ![r].quiet = 0, ![r].flags = @ \ {"waiting"}]
    /\ UNCHANGED <<cfgQ, proc, moves, main, radio, heard, echoes>>

\* (bug: the loop does not look at the stop flag)
TxExitNever(r) == FALSE

TxExit(r) ==
    /\ Up /\ run[r].pc = "idle" /\ Halted(r)
    /\ run' = [run EXCEPT ![r].pc = "over"]
    /\ UNCHANGED <<shared, main, radio, heard, echoes>>

\* One turn of the listen-before-talk loop on a busy, then on a quiet channel.
Listening(r) ==
    Up /\ run[r].pc = "listen" /\ ~Halted(r) /\ run[r].msg \notin run[r].cancelled

PollBusy(r) ==
    /\ Listening(r)
    /\ run' = [run EXCEPT ![r].quiet = 0, ![r].flags = @ \cup {"waiting"}]
    /\ IF Waiting(r) THEN UNCHANGED evQ ELSE Emit("waiting", run[r].msg)
    /\ UNCHANGED <<cfgQ, txQ, proc, moves, main, radio, heard, echoes>>

PollQuiet(r) ==
    /\ Listening(r)
    /\ IF run[r].quiet < QuietPolls
       THEN run' = [run EXCEPT ![r].quiet = @ + 1] /\ UNCHANGED evQ
       ELSE /\ run' = [run EXCEPT ![r].pc = "prep"]
            /\ IF Waiting(r) THEN Emit("sending", run[r].msg) ELSE UNCHANGED evQ
    /\ UNCHANGED <<cfgQ, txQ, proc, moves, main, radio, heard, echoes>>

\* (bug: LBT_TIMEOUT_S is never compared)
PollTimeoutNever(r) == FALSE

PollTimeout(r) == Listening(r) /\ Finish(r, "failed")

\* (bug: a stop while listening returns without a report)
ListenHaltedSilent(r) ==
    /\ Up /\ run[r].pc = "listen" /\ Halted(r)
    /\ run' = [run EXCEPT ![r].pc = "over", ![r].msg = NoMsg]
    /\ UNCHANGED <<shared, main, radio, heard, echoes>>

ListenHalted(r) == Up /\ run[r].pc = "listen" /\ Halted(r) /\ Finish(r, "failed")

\* Synthesis and prebuffering look at neither the stop flag nor the cancel
\* set before the radio is keyed; the TX LO is only written when it differs
\* from the value this runner remembers.
TxKey(r) ==
    /\ Up /\ run[r].pc = "prep"
    /\ radio' = [gain |-> "burst",
                 lo |-> IF run[r].txLo = "uplink" THEN radio.lo ELSE "uplink"]
    /\ run' = [run EXCEPT ![r].pc = "chunk", ![r].left = Chunks, ![r].txLo = "uplink"]
    /\ UNCHANGED <<shared, main, heard, echoes>>

\* (bug: the loop looks at the cancel set only)
TxChunkUnhalted(r) ==
    /\ Up /\ run[r].pc = "chunk" /\ run[r].msg \notin run[r].cancelled
    /\ run' = [run EXCEPT ![r].pc = "write"]
    /\ UNCHANGED <<shared, main, radio, heard, echoes>>

\* One turn of the burst loop: look at the flags, then fetch a buffer and
\* write it, a long call during which either flag may be set.
TxChunk(r) ==
    /\ Up /\ run[r].pc = "chunk"
    /\ ~Halted(r) /\ run[r].msg \notin run[r].cancelled
    /\ run' = [run EXCEPT ![r].pc = "write"]
    /\ UNCHANGED <<shared, main, radio, heard, echoes>>

TxWrite(r) ==
    /\ Up /\ run[r].pc = "write" /\ run[r].left > 0
    /\ run' = [run EXCEPT ![r].pc = "chunk", ![r].left = @ - 1]
    /\ heard' = heard \cup {run[r].msg}
    /\ UNCHANGED <<shared, main, radio, echoes>>

\* The producer's None ends the loop: the burst is complete, or the producer
\* saw the stop flag while this thread waited for a buffer.
TxEnd(r) ==
    /\ Up /\ run[r].pc = "write" /\ (run[r].left = 0 \/ Halted(r))
    /\ run' = [run EXCEPT ![r].pc = "drain"]
    /\ UNCHANGED <<shared, main, radio, heard, echoes>>

TxHalted(r) == Up /\ run[r].pc = "chunk" /\ Halted(r) /\ Finish(r, "failed")

\* _check_cancel, in the listen, chunk and drain loops.  The chunk loop looks
\* at the stop flag first, the drain loop never does.
TxCancelled(r) ==
    /\ Up /\ run[r].pc \in {"listen", "chunk", "drain"}
    /\ run[r].msg \in run[r].cancelled
    /\ run[r].pc \in {"listen", "chunk"} => ~Halted(r)
    /\ Finish(r, "stopped")

TxDrained(r) ==
    /\ Up /\ run[r].pc = "drain" /\ run[r].msg \notin run[r].cancelled
    /\ Finish(r, "sent")

\* The plan blocks transmission, synthesis fails, or sdr.tx() raises.
TxError(r) ==
    /\ Up /\ "txfail" \in Moves /\ run[r].pc \in {"listen", "prep", "write"}
    /\ Finish(r, "failed")

-----------------------------------------------------------------------------
(* The RX thread of slot r: _rx_loop.                                      *)

\* Our own transmission comes back and decodes, at any time after its first
\* buffer went out, in whatever runner is then receiving.
EchoDecoded(r, m) ==
    /\ Up /\ Receiving(r) /\ m \in heard /\ echoes < MaxEchoes
    /\ Emit("echo", m)
    /\ echoes' = echoes + 1
    /\ UNCHANGED <<cfgQ, txQ, proc, moves, main, run, radio, heard>>

\* station.process raises: the RX thread returns, the TX thread lives on.
RxFails(r) ==
    /\ Up /\ Receiving(r) /\ ~Halted(r) /\ Move("rxfail")
    /\ run' = [run EXCEPT ![r].flags = @ \ {"rx"}]
    /\ Emit("station_error", NoMsg)
    /\ UNCHANGED <<cfgQ, txQ, proc, main, radio, heard, echoes>>

-----------------------------------------------------------------------------
(* The main loop of the worker process.                                    *)

Running == main.cur # NoRunner

\* A new process connects and runs _configure_pluto: TX gain -10 dB, TX LO at
\* the RX centre.
Configure ==
    /\ Up /\ main.pc = "boot"
    /\ main' = [main EXCEPT !.pc = "loop"]
    /\ radio' = [gain |-> "boot", lo |-> "downlink"]
    /\ UNCHANGED <<shared, run, heard, echoes>>

\* (bug: stop() waits without having set the flag)
StopRunnerUnflagged(c) ==
    /\ main' = [main EXCEPT !.pc = "join", !.cmd = c]
    /\ UNCHANGED run

\* bitlink21.stop(): set the flag, then wait for the threads (JoinDone).
StopRunner(c) ==
    /\ run' = [run EXCEPT ![main.cur].flags = @ \cup {"halt"}]
    /\ main' = [main EXCEPT !.pc = "join", !.cmd = c]

\* A command that finds no station to act on is dropped silently; a start
\* goes on to build one.
NoStation(c) ==
    /\ main' = IF c = "start" THEN [main EXCEPT !.pc = "launch"] ELSE main
    /\ UNCHANGED run

StopThen(c) == IF Running THEN StopRunner(c) ELSE NoStation(c)

\* Turn of the main loop that takes a command off config_queue.
TakeCommand ==
    /\ proc = "up" /\ main.pc = "loop" /\ cfgQ # <<>>
    /\ cfgQ' = Tail(cfgQ)
    /\ LET c == Head(cfgQ) IN
       \/ c.cmd \in {"start", "stop", "tune"} /\ StopThen(c.cmd)
       \/ c.cmd = "retune" /\ Running /\ UNCHANGED <<main, run>>  \* in place
       \/ c.cmd = "retune" /\ StopThen("start")                   \* the SDR has to move
       \/ /\ c.cmd = "cancel" /\ UNCHANGED main
          /\ run' = IF Running
                    THEN [run EXCEPT ![main.cur].cancelled = @ \cup {c.msg}] ELSE run
    /\ UNCHANGED <<txQ, evQ, proc, moves, radio, heard, echoes>>

\* Stop, then what follows it in the branch that called it.
LeaveRunner ==
    /\ run' = [run EXCEPT ![main.cur].flags = @ \ {"rx"}]
    /\ main' = [pc |-> CASE main.cmd = "start" -> "launch"
                         [] main.cmd = "quit" -> "join" [] OTHER -> "loop",
                cmd |-> IF main.cmd = "quit" THEN "quit" ELSE "none",
                cur |-> NoRunner]
    /\ IF main.cmd = "tune" THEN Emit("station_error", NoMsg) ELSE UNCHANGED evQ
    /\ UNCHANGED <<cfgQ, txQ, proc, radio, heard, echoes>>

\* (bug: stop() sets the flag and does not wait)
JoinDoneUnwaited ==
    /\ Up /\ main.pc = "join" /\ Running
    /\ LeaveRunner /\ UNCHANGED moves

JoinDone ==
    /\ Up /\ main.pc = "join" /\ Running /\ run[main.cur].pc = "over"
    /\ LeaveRunner /\ UNCHANGED moves

\* join(timeout=1.5) gives up on a thread that is in a long call of the radio
\* library or of the synthesis; the thread goes on, with the same sdr object.
JoinTimeout ==
    /\ Up /\ main.pc = "join" /\ Running
    /\ run[main.cur].pc \in {"prep", "write", "drain"}
    /\ Move("slowjoin") /\ LeaveRunner

\* The SDR is configured for the station, then the runner is built in slot r.
Launch(r) ==
    /\ Up /\ main.pc = "launch" /\ Free(r)
    /\ main' = [pc |-> "loop", cmd |-> "none", cur |-> r]
    /\ run' = [run EXCEPT ![r] = NewRunner]
    /\ radio' = [gain |-> "idle", lo |-> "uplink"]
    /\ UNCHANGED <<shared, heard, echoes>>

\* An exception on the way: some of the settings may have been written.
LaunchFails ==
    /\ Up /\ main.pc = "launch" /\ Move("launchfail")
    /\ main' = [main EXCEPT !.pc = "loop"]
    /\ radio' \in {radio, [radio EXCEPT !.gain = "idle"], [gain |-> "idle", lo |-> "uplink"]}
    /\ Emit("station_error", NoMsg)
    /\ UNCHANGED <<cfgQ, txQ, proc, run, heard, echoes>>

\* Ten failed reads: a new context is configured from scratch (which sets the
\* TX LO to the RX centre) and handed to the runner, which is not told.
Reconnect ==
    /\ Up /\ main.pc = "loop" /\ Move("reconnect")
    /\ radio' = [gain |-> IF Running THEN "idle" ELSE "boot", lo |-> "downlink"]
    /\ UNCHANGED <<cfgQ, txQ, evQ, proc, main, run, heard, echoes>>

\* A reconnect that raises part of the way leaves what it had written; after
\* three of them the station is reported stopped, but keeps running.
ReconnectFails ==
    /\ Up /\ main.pc = "loop" /\ Move("reconnectfail")
    /\ radio' \in {radio, [radio EXCEPT !.lo = "downlink"], [gain |-> "boot", lo |-> "downlink"]}
    /\ UNCHANGED evQ \/ Emit("station_error", NoMsg)
    /\ UNCHANGED <<cfgQ, txQ, proc, main, run, heard, echoes>>

\* stop_event is set: the loop ends and the finally block stops the station.
LeaveLoop ==
    /\ proc = "stopping" /\ main.pc = "loop"
    /\ IF Running THEN StopRunner("quit")
       ELSE main' = [main EXCEPT !.pc = "join", !.cmd = "quit"] /\ UNCHANGED run
    /\ UNCHANGED <<shared, radio, heard, echoes>>

\* The process is gone, with its threads and whatever its queues held: the
\* monitor stops reading once the process is dead, a new process gets new queues.
Gone ==
    /\ proc' = "down" /\ cfgQ' = <<>> /\ txQ' = <<>> /\ evQ' = <<>>
    /\ run' = [r \in Slots |-> NoThread]
    /\ main' = [pc |-> "boot", cmd |-> "none", cur |-> NoRunner]
    /\ UNCHANGED <<radio, heard, echoes>>

WorkerExit == Up /\ main.pc = "join" /\ ~Running /\ Gone /\ UNCHANGED moves

WorkerDies == Up /\ Move("die") /\ Gone

-----------------------------------------------------------------------------
TxThread(r) ==
    \/ TxTake(r) \/ TxExit(r)
    \/ PollBusy(r) \/ PollQuiet(r) \/ PollTimeout(r) \/ ListenHalted(r)
    \/ TxKey(r) \/ TxChunk(r) \/ TxWrite(r) \/ TxEnd(r)
    \/ TxHalted(r) \/ TxCancelled(r) \/ TxDrained(r) \/ TxError(r)

MainLoop ==
    \/ Configure \/ TakeCommand \/ JoinDone \/ LeaveLoop \/ WorkerExit
    \/ \E r \in Slots : Launch(r)

WorkerFaults ==
    \/ JoinTimeout \/ LaunchFails \/ Reconnect \/ ReconnectFails \/ WorkerDies
    \/ \E r \in Slots : RxFails(r)

RunnerNext ==
    \/ MainLoop \/ WorkerFaults
    \/ \E r \in Slots : TxThread(r)
    \/ \E r \in Slots, m \in Msgs : EchoDecoded(r, m)
=============================================================================
