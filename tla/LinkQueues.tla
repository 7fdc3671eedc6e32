----------------------------- MODULE LinkQueues -----------------------------
(***************************************************************************)
(* What the asyncio service and the PlutoSDR worker process of BitLink21   *)
(* share: the three multiprocessing queues of the process entry built by   *)
(* _start_sdr_process_locked, and whether that process is alive.           *)
(*                                                                         *)
(*   service --- cfgQ (commands)      ---> worker main loop                *)
(*   service --- txQ  (send requests) ---> worker TX thread                *)
(*   service <-- evQ  (events)        ---  worker threads                  *)
(***************************************************************************)
EXTENDS Naturals, Sequences, FiniteSets, SequencesExt

CONSTANTS
    Msgs,        \* rows of the messages table with direction "tx"
    NoMsg,       \* "no row"
    TxQueueMax,  \* maxsize of tx_queue (10 in the code)
    Moves,       \* the operator and environment moves this instance allows
    MaxMoves     \* bound: how many of them happen

\* Requests of the operator, of the classic waterfall page, and faults.
AllMoves == {"start", "stop", "retune", "cancel"}
            \cup {"waterfall", "flush", "classic", "quit"}
            \cup {"die", "reconnect", "reconnectfail", "rxfail", "launchfail", "txfail"}
            \cup {"slowjoin", "deaf"}

ASSUME QueueAssumption ==
    /\ NoMsg \notin Msgs
    /\ TxQueueMax \in Nat \ {0}
    /\ Moves \subseteq AllMoves
    /\ MaxMoves \in Nat

VARIABLES
    cfgQ,   \* config_queue: unbounded
    txQ,    \* tx_queue: at most TxQueueMax requests
    evQ,    \* data_queue, the bitlink21_* events of it: unbounded
    proc,   \* the process: dead, alive, or alive with stop_event set
    moves   \* moves made so far (bound)

shared == <<cfgQ, txQ, evQ, proc, moves>>

\* The commands that change the worker's station. "tune" is a configuration
\* of the classic waterfall page that moves the SDR.
StationCmds == {"start", "stop", "retune", "tune"}
Commands == [cmd : StationCmds, msg : {NoMsg}] \cup [cmd : {"cancel"}, msg : Msgs]

\* Statuses of bitlink21_tx_status; "echo" is a bitlink21_file that is our own
\* transmission heard back through the satellite.
TxStatuses == {"waiting", "sending", "sent", "failed", "stopped"}
Verdicts == {"sent", "failed", "stopped"}
Reports == [ev : TxStatuses \cup {"echo"}, msg : Msgs]
Events == Reports \cup [ev : {"station_error"}, msg : {NoMsg}]

Command(c) == [cmd |-> c, msg |-> NoMsg]
CancelCommand(m) == [cmd |-> "cancel", msg |-> m]
Event(e, m) == [ev |-> e, msg |-> m]

Emit(e, m) == evQ' = Append(evQ, Event(e, m))

\* process.is_alive()
Up == proc # "down"

\* One more move of kind k, within the bound.
Move(k) == k \in Moves /\ moves < MaxMoves /\ moves' = moves + 1

QueuesTypeOK ==
    /\ cfgQ \in Seq(Commands)
    /\ txQ \in Seq(Msgs)
    /\ evQ \in Seq(Events)
    /\ proc \in {"down", "up", "stopping"}
    /\ moves \in Nat

QueuesInit ==
    /\ cfgQ = <<>> /\ txQ = <<>> /\ evQ = <<>>
    /\ proc = "down" /\ moves = 0
=============================================================================
