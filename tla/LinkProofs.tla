----------------------------- MODULE LinkProofs -----------------------------
(***************************************************************************)
(* Proofs about Link, for any sets of messages and runner slots, any queue *)
(* bound and any allowed moves: its types; what keys the transmitter and   *)
(* what its gain is; where a message and its report are; and that Link     *)
(* implements Courier, the promise that each message is sent and settled   *)
(* once.  Some of it needs that a fault or a move does not happen (a join  *)
(* that gives up, a reconnect, the end of the process); beside each such   *)
(* theorem stands what is left when it does.  Last, that what a thread     *)
(* still has to do runs down: the safety part of the liveness that TLC     *)
(* checks.                                                                 *)
(***************************************************************************)
EXTENDS Link, TLAPS

-----------------------------------------------------------------------------
(* Type correctness.                                                       *)

LEMMA InitType == Init => TypeOK
<1> SUFFICES ASSUME Init PROVE TypeOK
  OBVIOUS
<1> USE QueueAssumption, RunnerAssumption, ServiceAssumption
<1>1. QueuesTypeOK /\ Len(txQ) <= TxQueueMax
  BY DEF Init, QueuesInit, QueuesTypeOK
<1>2. RunnerTypeOK
  BY DEF Init, RunnerInit, RunnerTypeOK, Runner, NoThread, Gains, Los, Pcs, Flags
<1>3. ServiceTypeOK
  BY DEF Init, ServiceInit, ServiceTypeOK
<1>4. BusyHasMsg
  BY DEF Init, RunnerInit, BusyHasMsg, NoThread, Busy
<1> QED
  BY <1>1, <1>2, <1>3, <1>4 DEF TypeOK

\* Events and commands that are put on a queue keep its type.
LEMMA EmitType ==
    ASSUME QueuesTypeOK
    PROVE  /\ \A e \in TxStatuses \cup {"echo"}, m \in Msgs : Emit(e, m) => evQ' \in Seq(Events)
           /\ Emit("station_error", NoMsg) => evQ' \in Seq(Events)
<1>1. ASSUME NEW e \in TxStatuses \cup {"echo"}, NEW m \in Msgs, Emit(e, m)
      PROVE  evQ' \in Seq(Events)
  <2>1. Event(e, m) \in Events
    BY DEF Event, Events, Reports
  <2> QED
    BY <1>1, <2>1 DEF QueuesTypeOK, Emit
<1>2. ASSUME Emit("station_error", NoMsg) PROVE evQ' \in Seq(Events)
  <2>1. Event("station_error", NoMsg) \in Events
    BY DEF Event, Events
  <2> QED
    BY <1>2, <2>1 DEF QueuesTypeOK, Emit
<1> QED
  BY <1>1, <1>2

\* Setting one field of one runner; a step that sets several is a chain.
LEMMA SetFields ==
    ASSUME NEW f \in [Slots -> Runner], NEW r \in Slots
    PROVE  /\ \A x \in Pcs : [f EXCEPT ![r].pc = x] \in [Slots -> Runner]
           /\ \A x \in Msgs \cup {NoMsg} : [f EXCEPT ![r].msg = x] \in [Slots -> Runner]
           /\ \A x \in SUBSET Flags : [f EXCEPT ![r].flags = x] \in [Slots -> Runner]
           /\ \A x \in SUBSET Msgs : [f EXCEPT ![r].cancelled = x] \in [Slots -> Runner]
           /\ \A x \in 0..QuietPolls : [f EXCEPT ![r].quiet = x] \in [Slots -> Runner]
           /\ \A x \in 0..Chunks : [f EXCEPT ![r].left = x] \in [Slots -> Runner]
           /\ \A x \in Los : [f EXCEPT ![r].txLo = x] \in [Slots -> Runner]
<1>1. \A x \in Pcs : [f EXCEPT ![r].pc = x] \in [Slots -> Runner]
  BY DEF Runner
<1>2. \A x \in Msgs \cup {NoMsg} : [f EXCEPT ![r].msg = x] \in [Slots -> Runner]
  BY DEF Runner
<1>3. \A x \in SUBSET Flags : [f EXCEPT ![r].flags = x] \in [Slots -> Runner]
  BY DEF Runner
<1>4. \A x \in SUBSET Msgs : [f EXCEPT ![r].cancelled = x] \in [Slots -> Runner]
  BY DEF Runner
<1>5. \A x \in 0..QuietPolls : [f EXCEPT ![r].quiet = x] \in [Slots -> Runner]
  BY DEF Runner
<1>6. \A x \in 0..Chunks : [f EXCEPT ![r].left = x] \in [Slots -> Runner]
  BY DEF Runner
<1>7. \A x \in Los : [f EXCEPT ![r].txLo = x] \in [Slots -> Runner]
  BY DEF Runner
<1> QED
  BY <1>1, <1>2, <1>3, <1>4, <1>5, <1>6, <1>7

LEMMA FinishType ==
    ASSUME TypeOK, NEW r \in Slots, run[r].pc \in Busy, NEW v \in Verdicts, Finish(r, v)
    PROVE  QueuesTypeOK' /\ RunnerTypeOK' /\ Len(txQ') <= TxQueueMax
<1>1. run[r].msg \in Msgs /\ run[r].cancelled \in SUBSET Msgs
  BY DEF TypeOK, RunnerTypeOK, Runner, BusyHasMsg
<1>2. evQ' \in Seq(Events)
  BY <1>1, EmitType DEF TypeOK, Finish, Verdicts, TxStatuses
<1>3. AfterBurst(r) \in Pcs
  BY DEF AfterBurst, Pcs
<1> DEFINE f1 == [run EXCEPT ![r].pc = AfterBurst(r)]
           f2 == [f1 EXCEPT ![r].msg = NoMsg]
           f3 == [f2 EXCEPT ![r].cancelled = @ \ {run[r].msg}]
<1>4. run' = f3
  BY DEF Finish
<1>5. f1 \in [Slots -> Runner]
  BY <1>3, SetFields DEF TypeOK, RunnerTypeOK
<1>6. f2 \in [Slots -> Runner]
  BY <1>5, SetFields
<1>7. f3 \in [Slots -> Runner]
  <2> HIDE DEF f2
  <2>1. f2[r].cancelled \ {run[r].msg} \in SUBSET Msgs
    BY <1>6 DEF Runner
  <2> QED
    BY <1>6, <2>1, SetFields
<1>8. radio' \in [gain : Gains, lo : Los] /\ moves' \in Nat
  BY DEF TypeOK, Finish, QueuesTypeOK, RunnerTypeOK, Gains, Move
<1> QED
  BY <1>2, <1>4, <1>7, <1>8 DEF TypeOK, Finish, QueuesTypeOK, RunnerTypeOK

\* The steps of a TX thread.
LEMMA TxThreadType ==
    ASSUME TypeOK, NEW r \in Slots, TxThread(r)
    PROVE  QueuesTypeOK' /\ RunnerTypeOK' /\ Len(txQ') <= TxQueueMax
<1> USE RunnerAssumption, QueueAssumption
<1>r. run[r] \in Runner /\ run \in [Slots -> Runner]
  BY DEF TypeOK, RunnerTypeOK
<1>f. /\ run[r].pc \in Pcs /\ run[r].msg \in Msgs \cup {NoMsg} /\ run[r].flags \subseteq Flags
      /\ run[r].cancelled \subseteq Msgs /\ run[r].quiet \in 0..QuietPolls
      /\ run[r].left \in 0..Chunks /\ run[r].txLo \in Los
  BY <1>r DEF Runner
<1>a. AfterBurst(r) \in Pcs
  BY DEF AfterBurst, Pcs
<1>b. run[r].pc \in Busy => run[r].msg \in Msgs
  BY <1>f DEF TypeOK, BusyHasMsg
<1>1. CASE TxTake(r)
  <2> DEFINE m == Head(txQ)
  <2>1. m \in Msgs /\ txQ' \in Seq(Msgs) /\ Len(txQ') <= TxQueueMax
    BY <1>1 DEF TxTake, TypeOK, QueuesTypeOK
  <2>2. CASE m \in run[r].cancelled
    <3> DEFINE f1 == [run EXCEPT ![r].cancelled = @ \ {m}]
               f2 == [f1 EXCEPT ![r].pc = AfterBurst(r)]
    <3>1. f1 \in [Slots -> Runner]
      BY <1>f, <1>r, SetFields
    <3>2. f2 \in [Slots -> Runner]
      BY <3>1, <1>a, SetFields
    <3>3. run' = f2
      BY <1>1, <2>2 DEF TxTake
    <3>4. evQ' \in Seq(Events)
      BY <1>1, <2>1, <2>2, EmitType DEF TxTake, TypeOK, TxStatuses
    <3> QED
      BY <1>1, <2>1, <3>2, <3>3, <3>4 DEF TxTake, TypeOK, QueuesTypeOK, RunnerTypeOK
  <2>3. CASE m \notin run[r].cancelled
    <3> DEFINE f1 == [run EXCEPT ![r].pc = "listen"]
               f2 == [f1 EXCEPT ![r].msg = m]
               f3 == [f2 EXCEPT ![r].quiet = 0]
               f4 == [f3 EXCEPT ![r].flags = run[r].flags \ {"waiting"}]
    <3>1. f1 \in [Slots -> Runner]
      BY <1>r, SetFields DEF Pcs
    <3>2. f2 \in [Slots -> Runner]
      <4> HIDE DEF f1, m
      <4> QED BY <3>1, <2>1, SetFields
    <3>3. f3 \in [Slots -> Runner]
      <4> HIDE DEF f2
      <4> QED BY <3>2, SetFields
    <3>4. f4 \in [Slots -> Runner]
      <4> HIDE DEF f3
      <4> QED BY <3>3, <1>f, SetFields
    <3>5. run' = f4
      BY <1>1, <1>r, <2>3 DEF TxTake, Runner
    <3>6. evQ' \in Seq(Events)
      BY <1>1, <2>1, <2>3, EmitType DEF TxTake, TypeOK, TxStatuses
    <3> QED
      BY <1>1, <2>1, <3>4, <3>5, <3>6 DEF TxTake, TypeOK, QueuesTypeOK, RunnerTypeOK
  <2> QED
    BY <2>2, <2>3
<1>2. CASE TxExit(r)
  <2>1. run' \in [Slots -> Runner]
    BY <1>2, <1>r, SetFields DEF TxExit, Pcs
  <2> QED
    BY <1>2, <2>1 DEF TxExit, shared, TypeOK, QueuesTypeOK, RunnerTypeOK
<1>3. CASE PollBusy(r)
  <2> DEFINE f1 == [run EXCEPT ![r].quiet = 0]
             f2 == [f1 EXCEPT ![r].flags = run[r].flags \cup {"waiting"}]
  <2>1. f1 \in [Slots -> Runner]
    BY <1>r, SetFields
  <2>2. f2 \in [Slots -> Runner]
    <3> HIDE DEF f1
    <3> QED BY <2>1, <1>f, SetFields DEF Flags
  <2>3. run' = f2
    BY <1>3, <1>r DEF PollBusy, Runner
  <2>4. evQ' \in Seq(Events)
    BY <1>3, <1>b, EmitType DEF PollBusy, Listening, Busy, TypeOK, TxStatuses, QueuesTypeOK
  <2> QED
    BY <1>3, <2>2, <2>3, <2>4 DEF PollBusy, TypeOK, QueuesTypeOK, RunnerTypeOK
<1>4. CASE PollQuiet(r)
  <2>1. run' \in [Slots -> Runner]
    <3>1. run[r].quiet < QuietPolls => run[r].quiet + 1 \in 0..QuietPolls
      BY <1>f
    <3>2. CASE run[r].quiet < QuietPolls
      <4>1. [run EXCEPT ![r].quiet = run[r].quiet + 1] \in [Slots -> Runner]
        BY <1>r, <3>1, <3>2, SetFields
      <4> QED
        BY <1>4, <3>2, <4>1 DEF PollQuiet
    <3>3. CASE ~(run[r].quiet < QuietPolls)
      <4>1. [run EXCEPT ![r].pc = "prep"] \in [Slots -> Runner]
        BY <1>r, SetFields DEF Pcs
      <4> QED
        BY <1>4, <3>3, <4>1 DEF PollQuiet
    <3> QED
      BY <3>2, <3>3
  <2>2. evQ' \in Seq(Events)
    BY <1>4, <1>b, EmitType DEF PollQuiet, Listening, Busy, TypeOK, TxStatuses, QueuesTypeOK
  <2> QED
    BY <1>4, <2>1, <2>2 DEF PollQuiet, TypeOK, QueuesTypeOK, RunnerTypeOK
<1>5. CASE PollTimeout(r) \/ ListenHalted(r) \/ TxHalted(r) \/ TxCancelled(r)
           \/ TxDrained(r) \/ TxError(r)
  BY <1>5, FinishType DEF PollTimeout, Listening, ListenHalted, TxHalted, TxCancelled,
                          TxDrained, TxError, Verdicts, Busy
<1>6. CASE TxKey(r)
  <2> DEFINE f1 == [run EXCEPT ![r].pc = "chunk"]
             f2 == [f1 EXCEPT ![r].left = Chunks]
             f3 == [f2 EXCEPT ![r].txLo = "uplink"]
  <2>1. f1 \in [Slots -> Runner]
    BY <1>r, SetFields DEF Pcs
  <2>2. f2 \in [Slots -> Runner]
    <3> HIDE DEF f1
    <3> QED BY <2>1, SetFields
  <2>3. f3 \in [Slots -> Runner]
    <3> HIDE DEF f2
    <3> QED BY <2>2, SetFields DEF Los
  <2>4. run' = f3
    BY <1>6 DEF TxKey
  <2>5. radio' \in [gain : Gains, lo : Los]
    BY <1>6 DEF TxKey, TypeOK, RunnerTypeOK, Gains, Los
  <2> QED
    BY <1>6, <2>3, <2>4, <2>5 DEF TxKey, shared, TypeOK, QueuesTypeOK, RunnerTypeOK
<1>7. CASE TxChunk(r) \/ TxEnd(r)
  <2>1. run' \in [Slots -> Runner]
    <3>1. \A x \in Pcs : [run EXCEPT ![r].pc = x] \in [Slots -> Runner]
      BY <1>r, SetFields
    <3> QED
      BY <1>7, <3>1 DEF TxChunk, TxEnd, Pcs
  <2> QED
    BY <1>7, <2>1 DEF TxChunk, TxEnd, shared, TypeOK, QueuesTypeOK, RunnerTypeOK
<1>8. CASE TxWrite(r)
  <2> DEFINE f1 == [run EXCEPT ![r].pc = "chunk"]
             f2 == [f1 EXCEPT ![r].left = run[r].left - 1]
  <2>1. f1 \in [Slots -> Runner]
    BY <1>r, SetFields DEF Pcs
  <2>2. f2 \in [Slots -> Runner]
    <3>1. run[r].left - 1 \in 0..Chunks
      BY <1>8, <1>f DEF TxWrite
    <3> HIDE DEF f1
    <3> QED
      BY <2>1, <3>1, SetFields
  <2>3. run' = f2
    BY <1>8, <1>r DEF TxWrite, Runner
  <2>4. run[r].msg \in Msgs
    BY <1>8, <1>b DEF TxWrite, Busy
  <2> QED
    BY <1>8, <2>2, <2>3, <2>4 DEF TxWrite, shared, TypeOK, QueuesTypeOK, RunnerTypeOK
<1> QED
  BY <1>1, <1>2, <1>3, <1>4, <1>5, <1>6, <1>7, <1>8 DEF TxThread
\* stop(): the flag is set and the main loop waits.
LEMMA StopRunnerType ==
    ASSUME TypeOK, Running, NEW c \in StationCmds \cup {"quit"}, StopRunner(c)
    PROVE  RunnerTypeOK
               => /\ run' \in [Slots -> Runner]
                  /\ main' \in [pc : {"boot", "loop", "join", "launch"},
                                cmd : StationCmds \cup {"none", "quit"},
                                cur : Slots \cup {NoRunner}]
<1>1. main.cur \in Slots
  BY DEF TypeOK, RunnerTypeOK, Running
<1>2. run[main.cur].flags \cup {"halt"} \in SUBSET Flags
  BY <1>1 DEF TypeOK, RunnerTypeOK, Runner, Flags
<1>3. run' \in [Slots -> Runner]
  BY <1>1, <1>2, SetFields DEF StopRunner, TypeOK, RunnerTypeOK
<1> DEFINE M == [pc : {"boot", "loop", "join", "launch"},
                 cmd : StationCmds \cup {"none", "quit"}, cur : Slots \cup {NoRunner}]
           g1 == [main EXCEPT !.pc = "join"]
           g2 == [g1 EXCEPT !.cmd = c]
<1>4. g1 \in M
  BY DEF TypeOK, RunnerTypeOK
<1>5. g2 \in M
  <2> HIDE DEF g1
  <2> QED BY <1>4
<1>6. main' = g2
  BY DEF StopRunner
<1> QED
  BY <1>3, <1>5, <1>6

\* Stop, and what the main loop does next.
LEMMA LeaveRunnerType ==
    ASSUME TypeOK, Running, LeaveRunner
    PROVE  /\ run' \in [Slots -> Runner]
           /\ evQ' \in Seq(Events)
           /\ main' \in [pc : {"boot", "loop", "join", "launch"},
                         cmd : StationCmds \cup {"none", "quit"},
                         cur : Slots \cup {NoRunner}]
<1>1. main.cur \in Slots
  BY DEF TypeOK, RunnerTypeOK, Running
<1>2. run[main.cur].flags \ {"rx"} \in SUBSET Flags
  BY <1>1 DEF TypeOK, RunnerTypeOK, Runner
<1>3. run' \in [Slots -> Runner]
  BY <1>1, <1>2, SetFields DEF LeaveRunner, TypeOK, RunnerTypeOK
<1>4. evQ' \in Seq(Events)
  BY EmitType DEF LeaveRunner, TypeOK, QueuesTypeOK
<1>5. main' \in [pc : {"boot", "loop", "join", "launch"},
                 cmd : StationCmds \cup {"none", "quit"}, cur : Slots \cup {NoRunner}]
  BY DEF LeaveRunner
<1> QED
  BY <1>3, <1>4, <1>5

\* The end of the process.
LEMMA GoneType ==
    ASSUME TypeOK, Gone, moves' \in Nat
    PROVE  QueuesTypeOK' /\ RunnerTypeOK' /\ Len(txQ') <= TxQueueMax
<1> USE RunnerAssumption, QueueAssumption
<1>1. NoThread \in Runner
  BY DEF NoThread, Runner, Pcs, Los
<1>2. QueuesTypeOK' /\ Len(txQ') <= TxQueueMax
  BY DEF Gone, QueuesTypeOK
<1>3. RunnerTypeOK'
  BY <1>1 DEF Gone, TypeOK, RunnerTypeOK
<1> QED
  BY <1>2, <1>3

\* The steps of the main loop.
LEMMA MainLoopType ==
    ASSUME TypeOK, MainLoop
    PROVE  QueuesTypeOK' /\ RunnerTypeOK' /\ Len(txQ') <= TxQueueMax
<1> USE RunnerAssumption, QueueAssumption
<1> DEFINE M == [pc : {"boot", "loop", "join", "launch"},
                 cmd : StationCmds \cup {"none", "quit"}, cur : Slots \cup {NoRunner}]
<1>m. main \in M
  BY DEF TypeOK, RunnerTypeOK
<1>1. CASE Configure
  BY <1>1 DEF Configure, shared, TypeOK, QueuesTypeOK, RunnerTypeOK, Gains, Los
<1>2. CASE TakeCommand
  <2> DEFINE c == Head(cfgQ)
  <2>1. c \in Commands /\ cfgQ' \in Seq(Commands)
    BY <1>2 DEF TakeCommand, TypeOK, QueuesTypeOK
  <2>2. ASSUME NEW k \in StationCmds \cup {"quit"}, StopThen(k)
        PROVE  main' \in M /\ run' \in [Slots -> Runner]
    <3>1. CASE Running
      BY <2>2, <3>1, StopRunnerType DEF StopThen, TypeOK
    <3>2. CASE ~Running
      BY <2>2, <3>2, <1>m DEF StopThen, NoStation, TypeOK, RunnerTypeOK
    <3> QED
      BY <3>1, <3>2
  <2>3. CASE c.cmd \in {"start", "stop", "tune"} /\ StopThen(c.cmd)
    <3>1. c.cmd \in StationCmds
      BY <2>3 DEF StationCmds
    <3> QED
      BY <2>2, <2>3, <3>1, <2>1, <1>2 DEF TakeCommand, TypeOK, QueuesTypeOK, RunnerTypeOK
  <2>4. CASE UNCHANGED <<main, run>>
    BY <2>4, <2>1, <1>2 DEF TakeCommand, TypeOK, QueuesTypeOK, RunnerTypeOK
  <2>5. CASE StopThen("start")
    BY <2>2, <2>5, <2>1, <1>2 DEF TakeCommand, TypeOK, QueuesTypeOK, RunnerTypeOK,
                                  StationCmds
  <2>6. CASE /\ c.cmd = "cancel" /\ UNCHANGED main /\ Running
             /\ run' = [run EXCEPT ![main.cur].cancelled = @ \cup {c.msg}]
    <3>1. c.msg \in Msgs
      BY <2>1, <2>6 DEF Commands, StationCmds
    <3>2. main.cur \in Slots
      BY <1>m, <2>6 DEF Running
    <3>3. run[main.cur].cancelled \cup {c.msg} \in SUBSET Msgs
      BY <3>1, <3>2 DEF TypeOK, RunnerTypeOK, Runner
    <3>4. [run EXCEPT ![main.cur].cancelled = run[main.cur].cancelled \cup {c.msg}]
            \in [Slots -> Runner]
      BY <3>2, <3>3, SetFields DEF TypeOK, RunnerTypeOK
    <3> QED
      BY <2>1, <2>6, <3>4, <1>2 DEF TakeCommand, TypeOK, QueuesTypeOK, RunnerTypeOK
  <2> QED
    BY <1>2, <2>3, <2>4, <2>5, <2>6 DEF TakeCommand
<1>3. CASE JoinDone
  BY <1>3, LeaveRunnerType DEF JoinDone, LeaveRunner, TypeOK, QueuesTypeOK, RunnerTypeOK
<1>4. CASE LeaveLoop
  <2>1. main' \in M /\ run' \in [Slots -> Runner]
    <3>1. CASE Running
      BY <1>4, <3>1, StopRunnerType DEF LeaveLoop, TypeOK
    <3>2. CASE ~Running
      <4> DEFINE g1 == [main EXCEPT !.pc = "join"]
                 g2 == [g1 EXCEPT !.cmd = "quit"]
      <4>1. g1 \in M
        BY <1>m
      <4>2. g2 \in M
        <5> HIDE DEF g1
        <5> QED BY <4>1
      <4>3. main' = g2
        BY <1>4, <3>2 DEF LeaveLoop
      <4> QED
        BY <1>4, <3>2, <4>2, <4>3 DEF LeaveLoop, TypeOK, RunnerTypeOK
    <3> QED
      BY <3>1, <3>2
  <2> QED
    BY <1>4, <2>1 DEF LeaveLoop, shared, TypeOK, QueuesTypeOK, RunnerTypeOK
<1>5. CASE WorkerExit
  BY <1>5, GoneType DEF WorkerExit, TypeOK, QueuesTypeOK
<1>6. ASSUME NEW r \in Slots, Launch(r)
      PROVE  QueuesTypeOK' /\ RunnerTypeOK' /\ Len(txQ') <= TxQueueMax
  <2>1. main' \in M
    BY <1>6 DEF Launch
  <2>3. NewRunner \in Runner
    BY DEF NewRunner, Runner, Pcs, Flags, Los
  <2>4. run' \in [Slots -> Runner]
    BY <1>6, <2>3 DEF Launch, TypeOK, RunnerTypeOK
  <2>5. radio' \in [gain : Gains, lo : Los]
    BY <1>6 DEF Launch, Gains, Los
  <2> QED
    BY <1>6, <2>1, <2>4, <2>5 DEF Launch, shared, TypeOK, QueuesTypeOK, RunnerTypeOK
<1> QED
  BY <1>1, <1>2, <1>3, <1>4, <1>5, <1>6 DEF MainLoop

\* Every step of the worker process.
LEMMA WorkerType ==
    ASSUME TypeOK, RunnerNext
    PROVE  QueuesTypeOK' /\ RunnerTypeOK' /\ Len(txQ') <= TxQueueMax
<1> USE RunnerAssumption, QueueAssumption
<1>1. CASE MainLoop
  BY <1>1, MainLoopType
<1>2. ASSUME NEW r \in Slots, TxThread(r)
      PROVE  QueuesTypeOK' /\ RunnerTypeOK' /\ Len(txQ') <= TxQueueMax
  BY <1>2, TxThreadType
<1>3. ASSUME NEW r \in Slots, NEW m \in Msgs, EchoDecoded(r, m)
      PROVE  QueuesTypeOK' /\ RunnerTypeOK' /\ Len(txQ') <= TxQueueMax
  <2>1. evQ' \in Seq(Events)
    BY <1>3, EmitType DEF EchoDecoded, TypeOK
  <2> QED
    BY <1>3, <2>1 DEF EchoDecoded, TypeOK, QueuesTypeOK, RunnerTypeOK
<1>4. CASE WorkerFaults
  <2>m. \A k : Move(k) => moves' \in Nat
    BY DEF Move, TypeOK, QueuesTypeOK
  <2>1. CASE JoinTimeout
    BY <2>1, <2>m, LeaveRunnerType DEF JoinTimeout, LeaveRunner, TypeOK, QueuesTypeOK,
                                       RunnerTypeOK
  <2>2. CASE LaunchFails
    <3>1. evQ' \in Seq(Events)
      BY <2>2, EmitType DEF LaunchFails, TypeOK
    <3>2. radio' \in [gain : Gains, lo : Los]
      BY <2>2 DEF LaunchFails, TypeOK, RunnerTypeOK, Gains, Los
    <3> QED
      BY <2>2, <2>m, <3>1, <3>2 DEF LaunchFails, TypeOK, QueuesTypeOK, RunnerTypeOK
  <2>3. CASE Reconnect
    BY <2>3, <2>m DEF Reconnect, TypeOK, QueuesTypeOK, RunnerTypeOK, Gains, Los
  <2>4. CASE ReconnectFails
    <3>1. evQ' \in Seq(Events)
      BY <2>4, EmitType DEF ReconnectFails, TypeOK, QueuesTypeOK
    <3>2. radio' \in [gain : Gains, lo : Los]
      BY <2>4 DEF ReconnectFails, TypeOK, RunnerTypeOK, Gains, Los
    <3> QED
      BY <2>4, <2>m, <3>1, <3>2 DEF ReconnectFails, TypeOK, QueuesTypeOK, RunnerTypeOK
  <2>5. CASE WorkerDies
    BY <2>5, <2>m, GoneType DEF WorkerDies
  <2>6. ASSUME NEW r \in Slots, RxFails(r)
        PROVE  QueuesTypeOK' /\ RunnerTypeOK' /\ Len(txQ') <= TxQueueMax
    <3>1. run[r].flags \ {"rx"} \in SUBSET Flags
      BY DEF TypeOK, RunnerTypeOK, Runner
    <3>2. run' \in [Slots -> Runner]
      BY <2>6, <3>1, SetFields DEF RxFails, TypeOK, RunnerTypeOK
    <3>3. evQ' \in Seq(Events)
      BY <2>6, EmitType DEF RxFails, TypeOK
    <3> QED
      BY <2>6, <2>m, <3>2, <3>3 DEF RxFails, TypeOK, QueuesTypeOK, RunnerTypeOK
  <2> QED
    BY <1>4, <2>1, <2>2, <2>3, <2>4, <2>5, <2>6 DEF WorkerFaults
<1> QED
  BY <1>1, <1>2, <1>3, <1>4 DEF RunnerNext

\* A thread enters _transmit with a request in its hands and keeps it until
\* the finally block.
LEMMA WorkerBusyHasMsg ==
    ASSUME TypeOK, RunnerNext
    PROVE  BusyHasMsg'
<1> USE RunnerAssumption, QueueAssumption DEF Busy
<1> SUFFICES ASSUME NEW q \in Slots
             PROVE  run'[q].pc \in Busy => run'[q].msg # NoMsg
  BY DEF BusyHasMsg
<1>q. run[q].pc \in Busy => run[q].msg # NoMsg
  BY DEF TypeOK, BusyHasMsg
<1>t. run \in [Slots -> Runner]
  BY DEF TypeOK, RunnerTypeOK
<1>1. CASE UNCHANGED run
  BY <1>1, <1>q
<1>2. ASSUME NEW r \in Slots, TxThread(r)
      PROVE  run'[q].pc \in Busy => run'[q].msg # NoMsg
  <2>1. CASE TxTake(r)
    <3>1. Head(txQ) \in Msgs
      BY <2>1 DEF TxTake, TypeOK, QueuesTypeOK
    <3>2. CASE Head(txQ) \in run[r].cancelled
      BY <2>1, <3>2, <1>q, <1>t DEF TxTake, AfterBurst, Runner
    <3>3. CASE Head(txQ) \notin run[r].cancelled
      BY <2>1, <3>1, <3>3, <1>q, <1>t DEF TxTake, Runner
    <3> QED
      BY <3>2, <3>3
  <2>2. CASE TxExit(r)
    BY <2>2, <1>q, <1>t DEF TxExit, Runner
  <2>3. CASE PollBusy(r) \/ PollQuiet(r)
    BY <2>3, <1>q, <1>t DEF PollBusy, PollQuiet, Listening, Runner
  <2>4. CASE \E v \in Verdicts : Finish(r, v)
    BY <2>4, <1>q, <1>t DEF Finish, AfterBurst, Runner
  <2>5. CASE TxKey(r) \/ TxChunk(r) \/ TxWrite(r) \/ TxEnd(r)
    BY <2>5, <1>q, <1>t DEF TxKey, TxChunk, TxWrite, TxEnd, Runner
  <2> QED
    BY <1>2, <2>1, <2>2, <2>3, <2>4, <2>5
       DEF TxThread, PollTimeout, ListenHalted, TxHalted, TxCancelled, TxDrained,
           TxError, Verdicts
<1>3. CASE \E c \in StationCmds \cup {"quit"} : Running /\ StopRunner(c)
  BY <1>3, <1>q, <1>t DEF StopRunner, Runner
<1>4. CASE LeaveRunner
  BY <1>4, <1>q, <1>t DEF LeaveRunner, Runner
<1>5. CASE Gone
  BY <1>5 DEF Gone, NoThread
<1>6. ASSUME NEW r \in Slots, Launch(r) \/ RxFails(r)
      PROVE  run'[q].pc \in Busy => run'[q].msg # NoMsg
  BY <1>6, <1>q, <1>t DEF Launch, NewRunner, RxFails, Runner
<1>7. CASE TakeCommand
  <2>1. CASE \E c \in StationCmds : StopThen(c)
    BY <2>1, <1>1, <1>3 DEF StopThen, NoStation
  <2>2. CASE run' = [run EXCEPT ![main.cur].cancelled = @ \cup {Head(cfgQ).msg}]
    BY <2>2, <1>q, <1>t DEF Runner
  <2> QED
    BY <1>7, <1>1, <2>1, <2>2 DEF TakeCommand, StationCmds
<1> QED
  BY <1>1, <1>2, <1>3, <1>4, <1>5, <1>6, <1>7
     DEF RunnerNext, MainLoop, WorkerFaults, Configure, JoinDone, LeaveLoop, WorkerExit,
         JoinTimeout, LaunchFails, Reconnect, ReconnectFails, WorkerDies, EchoDecoded

\* Every step of the service.
LEMMA ServiceType ==
    ASSUME TypeOK, ServiceNext
    PROVE  QueuesTypeOK' /\ ServiceTypeOK' /\ Len(txQ') <= TxQueueMax
<1> USE QueueAssumption, ServiceAssumption
<1>m. \A k : Move(k) => moves' \in Nat
  BY DEF Move, TypeOK, QueuesTypeOK
<1>c. \A c \in StationCmds : Append(cfgQ, Command(c)) \in Seq(Commands)
  BY DEF TypeOK, QueuesTypeOK, Command, Commands
<1>1. ASSUME NEW m \in Msgs, SendStep(m)
      PROVE  QueuesTypeOK' /\ ServiceTypeOK' /\ Len(txQ') <= TxQueueMax
  <2>1. CASE Store(m)
    BY <2>1 DEF Store, shared, TypeOK, QueuesTypeOK, ServiceTypeOK
  <2>2. CASE Enqueue(m)
    <3>1. txQ' \in Seq(Msgs) /\ Len(txQ') <= TxQueueMax
      <4>1. CASE Len(txQ) < TxQueueMax
        <5>1. txQ' = Append(txQ, m)
          BY <2>2, <4>1 DEF Enqueue
        <5> QED
          BY <4>1, <5>1 DEF TypeOK, QueuesTypeOK
      <4>2. CASE ~(Len(txQ) < TxQueueMax)
        BY <2>2, <4>2 DEF Enqueue, TypeOK, QueuesTypeOK
      <4> QED
        BY <4>1, <4>2
    <3>2. send' \in [Msgs -> {"new", "stored", "blocked", "refused", "crashed", "done"}]
      BY <2>2 DEF Enqueue, TypeOK, ServiceTypeOK
    <3> QED
      BY <2>2, <3>1, <3>2 DEF Enqueue, TypeOK, QueuesTypeOK, ServiceTypeOK
  <2>3. CASE PutUnblocks(m)
    BY <2>3 DEF PutUnblocks, TypeOK, QueuesTypeOK, ServiceTypeOK
  <2>4. CASE Refuse(m)
    BY <2>4 DEF Refuse, shared, TypeOK, QueuesTypeOK, ServiceTypeOK, TxStatuses
  <2>5. CASE Crash(m)
    BY <2>5 DEF Crash, shared, TypeOK, QueuesTypeOK, ServiceTypeOK
  <2> QED
    BY <1>1, <2>1, <2>2, <2>3, <2>4, <2>5 DEF SendStep
<1>2. ASSUME NEW m \in Msgs, CancelStep(m)
      PROVE  QueuesTypeOK' /\ ServiceTypeOK' /\ Len(txQ') <= TxQueueMax
  <2>1. CASE CancelRead(m)
    BY <2>1, <1>m DEF CancelRead, TypeOK, QueuesTypeOK, ServiceTypeOK
  <2>2. CASE CancelPut(m)
    <3>1. Append(cfgQ, CancelCommand(m)) \in Seq(Commands)
      BY DEF TypeOK, QueuesTypeOK, CancelCommand, Commands
    <3> QED
      BY <2>2, <3>1 DEF CancelPut, TypeOK, QueuesTypeOK, ServiceTypeOK
  <2>3. CASE CancelWrite(m)
    BY <2>3 DEF CancelWrite, shared, TypeOK, QueuesTypeOK, ServiceTypeOK, TxStatuses
  <2> QED
    BY <1>2, <2>1, <2>2, <2>3 DEF CancelStep
<1>3. CASE StationStep
  <2>p. PutStart => cfgQ' \in Seq(Commands) /\ station' = "on" /\ starting' = "no"
    BY <1>c DEF PutStart, StationCmds
  <2>1. CASE Start
    BY <2>1, <2>p, <1>m DEF Start, TypeOK, QueuesTypeOK, ServiceTypeOK
  <2>2. CASE StartBoot
    BY <2>2, <1>c DEF StartBoot, TypeOK, QueuesTypeOK, ServiceTypeOK, StationCmds
  <2>3. CASE StartPut
    BY <2>3, <2>p DEF StartPut, TypeOK, QueuesTypeOK, ServiceTypeOK
  <2>4. CASE Stop
    BY <2>4, <1>m, <1>c DEF Stop, TypeOK, QueuesTypeOK, ServiceTypeOK, StationCmds
  <2>5. CASE Retune
    <3>1. cfgQ' \in Seq(Commands) /\ starting' \in {"no", "boot", "put"}
      BY <2>5, <1>c DEF Retune, TypeOK, QueuesTypeOK, ServiceTypeOK, StationCmds
    <3> QED
      BY <2>5, <1>m, <3>1 DEF Retune, TypeOK, QueuesTypeOK, ServiceTypeOK
  <2>6. CASE Waterfall
    <3>a. evQ' = evQ \/ evQ' = <<>>
      BY <2>6 DEF Waterfall
    <3>b. evQ' \in Seq(Events)
      <4>1. evQ \in Seq(Events) /\ <<>> \in Seq(Events)
        BY DEF TypeOK, QueuesTypeOK
      <4> QED
        BY <3>a, <4>1, Zenon
    <3>1. cfgQ' \in Seq(Commands) /\ evQ' \in Seq(Events)
      BY <2>6, <1>c, <3>b DEF Waterfall, StationCmds
    <3>2. moves' \in Nat
      BY <2>6, <1>m DEF Waterfall
    <3>3. UNCHANGED <<txQ, proc>> /\ UNCHANGED serviceVars
      BY <2>6 DEF Waterfall
    <3> QED
      BY <3>1, <3>2, <3>3 DEF serviceVars, TypeOK, QueuesTypeOK, ServiceTypeOK
  <2>7. CASE ClassicBoot \/ QuitSdr
    BY <2>7, <1>m DEF ClassicBoot, QuitSdr, serviceVars, TypeOK, QueuesTypeOK, ServiceTypeOK
  <2> QED
    BY <1>3, <2>1, <2>2, <2>3, <2>4, <2>5, <2>6, <2>7 DEF StationStep
<1>4. CASE MonitorRead
  <2> DEFINE e == Head(evQ)
  <2>1. e \in Events /\ evQ' \in Seq(Events)
    BY <1>4 DEF MonitorRead, TypeOK, QueuesTypeOK
  <2>2. e.ev # "station_error" => e \in Reports
    BY <2>1 DEF Events
  <2>3. mon' \in Reports \cup {NoEvent} /\ station' \in {"on", "off"}
    BY <1>4, <2>2 DEF MonitorRead, TypeOK, ServiceTypeOK, NoEvent
  <2> QED
    BY <1>4, <2>1, <2>3 DEF MonitorRead, TypeOK, QueuesTypeOK, ServiceTypeOK
<1>5. CASE MonitorWrite
  <2>1. mon \in Reports
    BY <1>5 DEF MonitorWrite, TypeOK, ServiceTypeOK
  <2>2. mon.ev \in TxStatuses \cup {"echo"}
    BY <2>1 DEF Reports
  <2>3. status' \in [Msgs -> {"none", "queued", "confirmed"} \cup TxStatuses]
    BY <1>5, <2>2 DEF MonitorWrite, TypeOK, ServiceTypeOK
  <2>4. echoed' \subseteq Msgs
    BY <1>5, <2>1 DEF MonitorWrite, TypeOK, ServiceTypeOK, Reports
  <2> QED
    BY <1>5, <2>3, <2>4 DEF MonitorWrite, shared, TypeOK, QueuesTypeOK, ServiceTypeOK
<1> QED
  BY <1>1, <1>2, <1>3, <1>4, <1>5 DEF ServiceNext, MonitorStep

\* Every variable has its type, tx_queue never holds more than TxQueueMax
\* requests, and no thread is in _transmit without one.
THEOREM TypeCorrect == Spec => []TypeOK
<1>1. TypeOK /\ [Next]_vars => TypeOK'
  <2> SUFFICES ASSUME TypeOK, [Next]_vars PROVE TypeOK'
    OBVIOUS
  <2>1. CASE Worker
    <3>1. ServiceTypeOK'
      BY <2>1 DEF Worker, serviceVars, TypeOK, ServiceTypeOK
    <3> QED
      BY <2>1, <3>1, WorkerType, WorkerBusyHasMsg DEF Worker, TypeOK
  <2>2. CASE Service
    <3>1. RunnerTypeOK' /\ BusyHasMsg'
      BY <2>2 DEF Service, runnerVars, TypeOK, RunnerTypeOK, BusyHasMsg
    <3> QED
      BY <2>2, <3>1, ServiceType DEF Service, TypeOK
  <2>3. CASE UNCHANGED vars
    BY <2>3 DEF vars, shared, runnerVars, serviceVars, TypeOK, QueuesTypeOK, RunnerTypeOK,
                ServiceTypeOK, BusyHasMsg
  <2> QED
    BY <2>1, <2>2, <2>3 DEF Next
<1> QED
  BY <1>1, InitType, PTL DEF Spec

-----------------------------------------------------------------------------
(* The transmitter is attenuated whenever a station runs and sends nothing. *)

\* While the main loop starts up or builds a runner it has none, and a new
\* process starts in _configure_pluto.
LoopInv ==
    /\ main.pc \in {"boot", "launch"} => ~Running
    /\ ~Up => main.pc = "boot"

LEMMA LoopInvInit == Init => LoopInv
  BY DEF Init, RunnerInit, LoopInv, Running

\* Steps of the threads do not touch the main loop.
LEMMA ThreadsLeaveLoop ==
    ASSUME NEW r \in Slots,
           TxThread(r) \/ RxFails(r) \/ \E m \in Msgs : EchoDecoded(r, m)
    PROVE  UNCHANGED <<main, proc>>
  BY DEF TxThread, TxTake, TxExit, PollBusy, PollQuiet, PollTimeout, ListenHalted, TxKey,
         TxChunk, TxWrite, TxEnd, TxHalted, TxCancelled, TxDrained, TxError, Finish, RxFails, EchoDecoded,
         shared

LEMMA LoopInvNext == TypeOK /\ LoopInv /\ [Next]_vars => LoopInv'
<1> SUFFICES ASSUME TypeOK, LoopInv, [Next]_vars PROVE LoopInv'
  OBVIOUS
<1> USE RunnerAssumption DEF LoopInv, Running
<1>t. /\ main.pc \in {"boot", "loop", "join", "launch"}
      /\ main.cur \in Slots \cup {NoRunner}
      /\ main = [pc |-> main.pc, cmd |-> main.cmd, cur |-> main.cur]
  BY DEF TypeOK, RunnerTypeOK
<1>1. CASE UNCHANGED <<main, proc>>
  BY <1>1 DEF Up
<1>2. CASE MainLoop
  <2>1. CASE Configure
    BY <2>1, <1>t DEF Configure, shared, Up
  <2>2. CASE TakeCommand
    BY <2>2, <1>t DEF TakeCommand, StopThen, StopRunner, NoStation, Up
  <2>3. CASE JoinDone
    BY <2>3 DEF JoinDone, LeaveRunner, Up
  <2>4. CASE LeaveLoop
    BY <2>4, <1>t DEF LeaveLoop, StopRunner, shared, Up
  <2>5. CASE WorkerExit
    BY <2>5 DEF WorkerExit, Gone
  <2>6. ASSUME NEW r \in Slots, Launch(r) PROVE LoopInv'
    BY <2>6 DEF Launch, shared, Up
  <2> QED
    BY <1>2, <2>1, <2>2, <2>3, <2>4, <2>5, <2>6 DEF MainLoop
<1>3. CASE WorkerFaults
  <2>1. CASE JoinTimeout
    BY <2>1 DEF JoinTimeout, LeaveRunner, Up
  <2>2. CASE LaunchFails
    BY <2>2, <1>t DEF LaunchFails, Up
  <2>3. CASE WorkerDies
    BY <2>3 DEF WorkerDies, Gone
  <2> QED
    BY <1>3, <1>1, <2>1, <2>2, <2>3, ThreadsLeaveLoop
       DEF WorkerFaults, Reconnect, ReconnectFails
<1>4. CASE Service
  <2>1. UNCHANGED main
    BY <1>4 DEF Service, runnerVars
  <2>2. Up => Up'
    BY <1>4 DEF Service, ServiceNext, SendStep, CancelStep, StationStep, MonitorStep,
         Store, Enqueue, PutUnblocks, Refuse, Crash, CancelRead, CancelPut, CancelWrite,
         Start, StartBoot, StartPut, Stop, Retune, Waterfall, ClassicBoot, QuitSdr,
         MonitorRead, MonitorWrite, shared, Up
  <2> QED
    BY <2>1, <2>2
<1>5. CASE UNCHANGED vars
  BY <1>5, <1>1 DEF vars, shared, runnerVars
<1> QED
  BY <1>1, <1>2, <1>3, <1>4, <1>5, ThreadsLeaveLoop DEF Next, Worker, RunnerNext

\* What each step of the worker does to the gain: the steps of a TX thread
\* key it or attenuate it, the main loop attenuates it for every new runner.
\* The radio does not take the attenuation at the end of a burst.
Deaf == Move("deaf") /\ \E r \in Slots : TxThread(r)

LEMMA AttenuatedNext ==
    TypeOK /\ LoopInv /\ Attenuated /\ [Next]_vars => Attenuated' \/ Deaf \/ ReconnectFails
<1> SUFFICES ASSUME TypeOK, LoopInv, Attenuated, [Next]_vars, ~Deaf, ~ReconnectFails,
                    Up', Running', \A q \in Slots : ~Keyed(q)'
             PROVE  radio'.gain = "idle"
  BY DEF Attenuated
<1> USE RunnerAssumption
<1>t. /\ run \in [Slots -> Runner] /\ radio \in [gain : Gains, lo : Los]
      /\ main = [pc |-> main.pc, cmd |-> main.cmd, cur |-> main.cur]
  BY DEF TypeOK, RunnerTypeOK
<1>1. CASE /\ UNCHANGED radio /\ Up /\ Running
           /\ \A q \in Slots : Keyed(q) => Keyed(q)'
  BY <1>1 DEF Attenuated
<1>2. ASSUME NEW r \in Slots, TxThread(r) PROVE radio'.gain = "idle"
  <2>1. Up /\ Running
    BY <1>2, ThreadsLeaveLoop DEF Up, Running
  <2>2. CASE \/ TxTake(r) \/ TxExit(r) \/ PollBusy(r) \/ PollQuiet(r)
             \/ TxChunk(r) \/ TxWrite(r) \/ TxEnd(r)
    <3>1. UNCHANGED radio
      BY <2>2 DEF TxTake, TxExit, PollBusy, PollQuiet, TxChunk, TxWrite, TxEnd
    <3>2. ASSUME NEW q \in Slots, Keyed(q) PROVE Keyed(q)'
      <4>1. CASE TxTake(r) \/ TxExit(r) \/ PollBusy(r) \/ PollQuiet(r)
        BY <4>1, <3>2, <1>t DEF TxTake, TxExit, PollBusy, PollQuiet, Listening, Keyed, Runner
      <4>2. CASE TxChunk(r) \/ TxWrite(r) \/ TxEnd(r)
        BY <4>2, <3>2, <1>t DEF TxChunk, TxWrite, TxEnd, Keyed, Runner
      <4> QED
        BY <2>2, <4>1, <4>2
    <3> QED
      BY <1>1, <2>1, <3>1, <3>2
  <2>3. CASE \E v \in Verdicts : Finish(r, v)
    <3>1. ~Move("deaf")
      BY <1>2 DEF Deaf
    <3> QED
      BY <2>3, <3>1, <1>t DEF Finish
  <2>4. CASE TxKey(r)
    <3>1. run'[r].pc = "chunk"
      BY <2>4, <1>t DEF TxKey
    <3> QED
      BY <3>1 DEF Keyed
  <2> QED
    BY <1>2, <2>2, <2>3, <2>4 DEF TxThread, PollTimeout, ListenHalted, TxHalted, TxCancelled,
                                  TxDrained, TxError, Verdicts
<1>3. CASE MainLoop
  <2>1. CASE Configure \/ JoinDone \/ WorkerExit
    <3>1. ~Running'
      BY <2>1, <1>t DEF Configure, JoinDone, LeaveRunner, WorkerExit, Gone, LoopInv, Running
    <3> QED
      BY <3>1
  <2>2. CASE \E r \in Slots : Launch(r)
    BY <2>2 DEF Launch
  <2>3. CASE TakeCommand \/ LeaveLoop
    <3>1. UNCHANGED radio /\ Up
      BY <2>3 DEF TakeCommand, LeaveLoop, Up
    <3>2. CASE Running
      <4>1. ASSUME NEW q \in Slots, Keyed(q) PROVE Keyed(q)'
        <5>1. \/ run' = run
              \/ run' = [run EXCEPT ![main.cur].flags = @ \cup {"halt"}]
              \/ run' = [run EXCEPT ![main.cur].cancelled = @ \cup {Head(cfgQ).msg}]
          BY <2>3 DEF TakeCommand, LeaveLoop, StopThen, StopRunner, NoStation
        <5> QED
          BY <4>1, <5>1, <1>t DEF Keyed, Runner
      <4> QED
        BY <1>1, <3>1, <3>2, <4>1
    <3>3. CASE ~Running
      BY <2>3, <3>3, <1>t DEF TakeCommand, LeaveLoop, StopThen, NoStation, Running
    <3> QED
      BY <3>2, <3>3
  <2> QED
    BY <1>3, <2>1, <2>2, <2>3 DEF MainLoop
<1>4. CASE WorkerFaults
  <2>1. CASE JoinTimeout \/ WorkerDies \/ LaunchFails
    <3>1. ~Running'
      BY <2>1, <1>t DEF JoinTimeout, LeaveRunner, WorkerDies, Gone, LaunchFails, LoopInv,
                        Running
    <3> QED
      BY <3>1
  <2>2. CASE Reconnect
    BY <2>2 DEF Reconnect, Running
  <2>3. CASE \E r \in Slots : RxFails(r)
    <3>1. UNCHANGED <<radio, main, proc>>
      BY <2>3 DEF RxFails
    <3>2. ASSUME NEW q \in Slots, Keyed(q) PROVE Keyed(q)'
      BY <2>3, <3>2, <1>t DEF RxFails, Keyed, Runner
    <3> QED
      BY <1>1, <3>1, <3>2 DEF Up, Running
  <2> QED
    BY <1>4, <2>1, <2>2, <2>3 DEF WorkerFaults
<1>5. CASE \/ \E r \in Slots, m \in Msgs : EchoDecoded(r, m)
           \/ UNCHANGED vars
  <2>1. UNCHANGED <<radio, main, proc, run>>
    BY <1>5 DEF EchoDecoded, vars, runnerVars, shared
  <2> QED
    BY <1>1, <2>1 DEF Up, Running, Keyed
<1>6. CASE Service
  <2>1. UNCHANGED <<radio, main, run>>
    BY <1>6 DEF Service, runnerVars
  <2>2. Up
    BY <2>1 DEF LoopInv, Running
  <2> QED
    BY <1>1, <2>1, <2>2 DEF Running, Keyed
<1> QED
  BY <1>2, <1>3, <1>4, <1>5, <1>6 DEF Next, Worker, RunnerNext

\* While a station runs and no thread sends a burst, the TX gain is the idle
\* attenuation, for any number of runners, as long as the radio takes the
\* writes of _transmit's finally block and of a reconnect.
THEOREM AttenuatedAlways ==
    ASSUME "deaf" \notin Moves, "reconnectfail" \notin Moves
    PROVE  Spec => []Attenuated
<1>1. Init => LoopInv /\ Attenuated
  BY LoopInvInit DEF Init, RunnerInit, Attenuated, Running
<1>2. TypeOK /\ LoopInv /\ Attenuated /\ [Next]_vars => LoopInv' /\ Attenuated'
  BY LoopInvNext, AttenuatedNext DEF Deaf, ReconnectFails, Move
<1> QED
  BY <1>1, <1>2, TypeCorrect, PTL DEF Spec

\* Whatever fails: the attenuation is lost only in the step in which the radio
\* does not take it at the end of a burst (the finally block of _transmit), or in
\* which a reconnect raises between _configure_pluto and the attenuation.
\* No stop, restart, timeout or cancel loses it.
THEOREM AttenuationLostOnlyByFault ==
    Spec => [][Attenuated => Attenuated' \/ Deaf \/ ReconnectFails]_vars
<1>1. Init => LoopInv
  BY LoopInvInit
<1>2. TypeOK /\ LoopInv /\ [Next]_vars => LoopInv'
  BY LoopInvNext
<1>3. TypeOK /\ LoopInv /\ [Next]_vars => [Attenuated => Attenuated' \/ Deaf \/ ReconnectFails]_vars
  BY AttenuatedNext
<1> QED
  BY <1>1, <1>2, <1>3, TypeCorrect, PTL DEF Spec

-----------------------------------------------------------------------------
(* When stop() always gets its threads back, one thread owns the radio.    *)

\* A TX thread that has not ended belongs to the runner of the main loop.
Ownership == \A r \in Slots : ~Free(r) => r = main.cur

LEMMA OwnershipNext ==
    TypeOK /\ LoopInv /\ Ownership /\ [Next]_vars => Ownership' \/ JoinTimeout
<1> SUFFICES ASSUME TypeOK, LoopInv, Ownership, [Next]_vars, ~JoinTimeout,
                    NEW q \in Slots, ~Free(q)'
             PROVE  q = main'.cur
  BY DEF Ownership
<1> USE RunnerAssumption
<1>t. /\ run \in [Slots -> Runner]
      /\ main = [pc |-> main.pc, cmd |-> main.cmd, cur |-> main.cur]
  BY DEF TypeOK, RunnerTypeOK
<1>1. CASE main'.cur = main.cur /\ (Free(q) => Free(q)')
  BY <1>1 DEF Ownership
<1>2. ASSUME NEW r \in Slots, TxThread(r) PROVE q = main'.cur
  <2>1. UNCHANGED main /\ ~Free(r)
    BY <1>2, ThreadsLeaveLoop
       DEF TxThread, TxTake, TxExit, PollBusy, PollQuiet, PollTimeout, ListenHalted, TxKey,
           TxChunk, TxWrite, TxEnd, TxHalted, TxCancelled, TxDrained, TxError, Listening, Free
  <2>2. CASE q = r
    BY <2>1, <2>2 DEF Ownership
  <2>3. CASE q # r
    <3>1. run'[q] = run[q]
      BY <1>2, <2>3, <1>t
         DEF TxThread, TxTake, TxExit, PollBusy, PollQuiet, PollTimeout, ListenHalted, TxKey,
             TxChunk, TxWrite, TxEnd, TxHalted, TxCancelled, TxDrained, TxError, Finish
    <3> QED
      BY <1>1, <2>1, <3>1 DEF Free
  <2> QED
    BY <2>2, <2>3
<1>3. CASE JoinDone
  <2>1. \A r \in Slots : Free(r)
    BY <1>3 DEF JoinDone, Ownership, Free
  <2>2. Free(q)'
    BY <1>3, <2>1, <1>t DEF JoinDone, LeaveRunner, Free, Runner
  <2> QED
    BY <2>2
<1>4. ASSUME NEW r \in Slots, Launch(r) PROVE q = main'.cur
  <2>1. Free(q)
    BY <1>4 DEF Launch, LoopInv, Running, Ownership
  <2> QED
    BY <1>4, <2>1, <1>t DEF Launch, Free
<1>5. CASE WorkerExit \/ WorkerDies
  BY <1>5 DEF WorkerExit, WorkerDies, Gone, Free, NoThread
<1>6. CASE TakeCommand \/ LeaveLoop
  <2>1. \/ run' = run
        \/ run' = [run EXCEPT ![main.cur].flags = @ \cup {"halt"}]
        \/ run' = [run EXCEPT ![main.cur].cancelled = @ \cup {Head(cfgQ).msg}]
    BY <1>6 DEF TakeCommand, LeaveLoop, StopThen, StopRunner, NoStation
  <2>2. main'.cur = main.cur
    BY <1>6, <1>t DEF TakeCommand, LeaveLoop, StopThen, StopRunner, NoStation
  <2> QED
    BY <1>1, <2>1, <2>2, <1>t DEF Free, Runner
<1>7. CASE \/ Configure \/ LaunchFails \/ Reconnect \/ ReconnectFails \/ Service
           \/ UNCHANGED vars \/ \E r \in Slots, m \in Msgs : EchoDecoded(r, m)
  <2>1. UNCHANGED run /\ main'.cur = main.cur
    BY <1>7, <1>t DEF Configure, LaunchFails, Reconnect, ReconnectFails, Service, vars,
                      runnerVars, EchoDecoded
  <2> QED
    BY <1>1, <2>1 DEF Free
<1>8. ASSUME NEW r \in Slots, RxFails(r) PROVE q = main'.cur
  BY <1>8, <1>1, <1>t DEF RxFails, Free, Runner
<1> QED
  BY <1>2, <1>3, <1>4, <1>5, <1>6, <1>7, <1>8
     DEF Next, Worker, RunnerNext, MainLoop, WorkerFaults

\* If stop() never gives up on a thread, at most one thread has the
\* transmitter keyed, and a stop or a cancel always reaches it (the
\* worker's bitlink21.stop() and bitlink21.cancel()).
LEMMA OneTransmitterIfJoined ==
    ASSUME "slowjoin" \notin Moves
    PROVE  Spec => []OneTransmitter
<1>1. Init => LoopInv /\ Ownership
  BY LoopInvInit DEF Init, RunnerInit, Ownership, Free, NoThread
<1>2. TypeOK /\ LoopInv /\ Ownership /\ [Next]_vars => LoopInv' /\ Ownership'
  BY LoopInvNext, OwnershipNext DEF JoinTimeout, Move
<1>3. Ownership => OneTransmitter
  BY DEF Ownership, OneTransmitter, Keyed, Free
<1> QED
  BY <1>1, <1>2, <1>3, TypeCorrect, PTL DEF Spec

-----------------------------------------------------------------------------
(* When stop() may leave a thread behind, the thread is one that was told  *)
(* to stop.                                                                *)

HaltInv ==
    /\ main.pc = "join" /\ Running => Halted(main.cur)
    /\ \A r \in Slots : ~Free(r) /\ r # main.cur => Halted(r)

LEMMA HaltInvNext == TypeOK /\ LoopInv /\ HaltInv /\ [Next]_vars => HaltInv'
<1> SUFFICES ASSUME TypeOK, LoopInv, HaltInv, [Next]_vars PROVE HaltInv'
  OBVIOUS
<1> USE RunnerAssumption
<1>t. /\ run \in [Slots -> Runner]
      /\ main = [pc |-> main.pc, cmd |-> main.cmd, cur |-> main.cur]
      /\ main.cur \in Slots \cup {NoRunner}
  BY DEF TypeOK, RunnerTypeOK
<1>1. CASE /\ main'.cur = main.cur /\ (main'.pc = "join" => main.pc = "join")
           /\ \A q \in Slots : (Free(q) => Free(q)') /\ (Halted(q) => Halted(q)')
  BY <1>1, <1>t DEF HaltInv, Running
<1>2. ASSUME NEW r \in Slots, TxThread(r) PROVE HaltInv'
  <2>1. UNCHANGED main /\ ~Free(r)
    BY <1>2, ThreadsLeaveLoop
       DEF TxThread, TxTake, TxExit, PollBusy, PollQuiet, PollTimeout, ListenHalted, TxKey,
           TxChunk, TxWrite, TxEnd, TxHalted, TxCancelled, TxDrained, TxError, Listening, Free
  <2>2. ASSUME NEW q \in Slots, q # r PROVE run'[q] = run[q]
    BY <1>2, <2>2, <1>t
       DEF TxThread, TxTake, TxExit, PollBusy, PollQuiet, PollTimeout, ListenHalted, TxKey,
           TxChunk, TxWrite, TxEnd, TxHalted, TxCancelled, TxDrained, TxError, Finish
  <2>3. Halted(r) => Halted(r)'
    <3>1. CASE TxTake(r) \/ PollBusy(r)
      <4>1. run'[r].flags \in {run[r].flags, run[r].flags \ {"waiting"},
                              run[r].flags \cup {"waiting"}}
        <5>1. CASE PollBusy(r)
          BY <5>1, <1>t DEF PollBusy, Runner
        <5>2. CASE TxTake(r) /\ Head(txQ) \in run[r].cancelled
          BY <5>2, <1>t DEF TxTake, Runner
        <5>3. CASE TxTake(r) /\ Head(txQ) \notin run[r].cancelled
          BY <5>3, <1>t DEF TxTake, Runner
        <5> QED
          BY <3>1, <5>1, <5>2, <5>3
      <4> QED
        BY <4>1 DEF Halted
    <3>2. CASE \/ TxExit(r) \/ PollQuiet(r) \/ TxKey(r)
               \/ TxChunk(r) \/ TxWrite(r) \/ TxEnd(r)
      BY <3>2, <1>t DEF TxExit, PollQuiet, TxKey, TxChunk, TxWrite, TxEnd, Listening, Halted,
                        Runner
    <3>3. CASE \E v \in Verdicts : Finish(r, v)
      BY <3>3, <1>t DEF Finish, Halted, Runner
    <3> QED
      BY <1>2, <3>1, <3>2, <3>3 DEF TxThread, PollTimeout, ListenHalted, TxHalted,
                                    TxCancelled, TxDrained, TxError, Verdicts
  <2> QED
    BY <1>1, <2>1, <2>2, <2>3 DEF Free, Halted
<1>3. CASE JoinDone \/ JoinTimeout
  <2>1. \A r \in Slots : ~Free(r) => Halted(r)
    BY <1>3 DEF JoinDone, JoinTimeout, HaltInv
  <2>2. ASSUME NEW q \in Slots, ~Free(q)' PROVE Halted(q)'
    <3>1. ~Free(q) /\ Halted(q)
      BY <1>3, <2>1, <2>2, <1>t DEF JoinDone, JoinTimeout, LeaveRunner, Free, Runner
    <3> QED
      BY <1>3, <3>1, <1>t DEF JoinDone, JoinTimeout, LeaveRunner, Halted, Runner
  <2>3. ~Running'
    BY <1>3 DEF JoinDone, JoinTimeout, LeaveRunner, Running
  <2> QED
    BY <2>2, <2>3 DEF HaltInv
<1>4. ASSUME NEW r \in Slots, Launch(r) PROVE HaltInv'
  <2>1. \A q \in Slots : ~Free(q) => Halted(q)
    BY <1>4 DEF Launch, LoopInv, Running, HaltInv
  <2>2. ASSUME NEW q \in Slots, ~Free(q)', q # r PROVE Halted(q)'
    BY <1>4, <2>1, <2>2, <1>t DEF Launch, Free, Halted
  <2> QED
    BY <1>4, <2>2 DEF Launch, HaltInv, Running
<1>5. CASE WorkerExit \/ WorkerDies
  BY <1>5 DEF WorkerExit, WorkerDies, Gone, Free, NoThread, HaltInv
<1>6. CASE TakeCommand \/ LeaveLoop
  <2>1. CASE \E c \in StationCmds \cup {"quit"} : Running /\ StopRunner(c)
    <3>1. main'.cur = main.cur /\ main.cur \in Slots
      BY <2>1, <1>t DEF StopRunner, Running
    <3>2. \A q \in Slots : (Free(q) => Free(q)') /\ (Halted(q) => Halted(q)')
      BY <2>1, <1>t DEF StopRunner, Free, Halted, Runner
    <3>3. Halted(main.cur)'
      BY <2>1, <3>1, <1>t DEF StopRunner, Halted, Runner
    <3> QED
      BY <3>1, <3>2, <3>3, <1>t DEF HaltInv
  <2>2. CASE /\ main'.cur = main.cur /\ (main'.pc = "join" => main.pc = "join" \/ ~Running)
             /\ \/ run' = run
                \/ run' = [run EXCEPT ![main.cur].cancelled = @ \cup {Head(cfgQ).msg}]
    <3>1. \A q \in Slots : (Free(q) <=> Free(q)') /\ (Halted(q) <=> Halted(q)')
      BY <2>2, <1>t DEF Free, Halted, Runner
    <3> QED
      BY <2>2, <3>1, <1>t DEF HaltInv, Running
  <2>3. CASE LeaveLoop
    <3>1. CASE Running
      BY <2>1, <2>3, <3>1 DEF LeaveLoop
    <3>2. CASE ~Running
      BY <2>2, <2>3, <3>2, <1>t DEF LeaveLoop
    <3> QED
      BY <3>1, <3>2
  <2>4. CASE TakeCommand
    <3>1. ASSUME NEW c \in StationCmds, StopThen(c) PROVE HaltInv'
      <4>1. CASE Running
        BY <2>1, <3>1, <4>1 DEF StopThen
      <4>2. CASE ~Running
        BY <2>2, <3>1, <4>2, <1>t DEF StopThen, NoStation
      <4> QED
        BY <4>1, <4>2
    <3>2. CASE UNCHANGED main /\ \/ run' = run
                                 \/ run' = [run EXCEPT ![main.cur].cancelled
                                                          = @ \cup {Head(cfgQ).msg}]
      BY <2>2, <3>2
    <3> QED
      BY <2>4, <3>1, <3>2 DEF TakeCommand, StationCmds
  <2> QED
    BY <1>6, <2>3, <2>4
<1>7. CASE \/ Configure \/ LaunchFails \/ Reconnect \/ ReconnectFails \/ Service
           \/ UNCHANGED vars \/ \E r \in Slots, m \in Msgs : EchoDecoded(r, m)
  <2>1. UNCHANGED run /\ main'.cur = main.cur /\ (main'.pc = "join" => main.pc = "join")
    BY <1>7, <1>t DEF Configure, LaunchFails, Reconnect, ReconnectFails, Service, vars,
                      runnerVars, EchoDecoded
  <2> QED
    BY <1>1, <2>1 DEF Free, Halted
<1>8. ASSUME NEW r \in Slots, RxFails(r) PROVE HaltInv'
  BY <1>8, <1>1, <1>t DEF RxFails, Free, Halted, Runner
<1> QED
  BY <1>2, <1>3, <1>4, <1>5, <1>6, <1>7, <1>8
     DEF Next, Worker, RunnerNext, MainLoop, WorkerFaults

\* A thread begins a buffer only where it has looked at the flags.
LEMMA OnlyTxChunkWrites ==
    ASSUME TypeOK, Next, NEW q \in Slots, run[q].pc # "write", run'[q].pc = "write"
    PROVE  TxChunk(q)
<1>t. run \in [Slots -> Runner]
  BY DEF TypeOK, RunnerTypeOK
<1>1. run'[q] # run[q]
  PROOF OBVIOUS
<1>2. ASSUME NEW r \in Slots, TxThread(r) PROVE TxChunk(q)
  <2>1. q = r
    BY <1>1, <1>2, <1>t
       DEF TxThread, TxTake, TxExit, PollBusy, PollQuiet, PollTimeout, ListenHalted, TxKey,
           TxChunk, TxWrite, TxEnd, TxHalted, TxCancelled, TxDrained, TxError, Finish
  <2>2. ~TxTake(r) /\ ~TxExit(r) /\ ~PollBusy(r) /\ ~PollQuiet(r)
    BY <2>1, <1>t DEF TxTake, TxExit, PollBusy, PollQuiet, Listening, AfterBurst, Runner
  <2>3. ~TxKey(r) /\ ~TxWrite(r) /\ ~TxEnd(r)
    BY <2>1, <1>t DEF TxKey, TxWrite, TxEnd, Runner
  <2>4. ~ \E v \in Verdicts : Finish(r, v)
    BY <2>1, <1>t DEF Finish, AfterBurst, Runner
  <2> QED
    BY <1>2, <2>1, <2>2, <2>3, <2>4
       DEF TxThread, PollTimeout, ListenHalted, TxHalted, TxCancelled, TxDrained, TxError,
           Verdicts
<1>3. CASE MainLoop
  <2>1. ~Configure /\ ~WorkerExit /\ ~JoinDone
    BY <1>1, <1>t DEF Configure, shared, WorkerExit, Gone, NoThread, JoinDone, LeaveRunner,
                      Runner
  <2>2. ~TakeCommand /\ ~LeaveLoop
    <3>1. TakeCommand \/ LeaveLoop
            => \/ run' = run
               \/ run' = [run EXCEPT ![main.cur].flags = @ \cup {"halt"}]
               \/ run' = [run EXCEPT ![main.cur].cancelled = @ \cup {Head(cfgQ).msg}]
      BY DEF TakeCommand, LeaveLoop, StopThen, StopRunner, NoStation
    <3> QED
      BY <3>1, <1>t DEF Runner
  <2>3. ASSUME NEW r \in Slots, Launch(r) PROVE TxChunk(q)
    BY <1>1, <1>t, <2>3 DEF Launch, NewRunner
  <2> QED
    BY <1>3, <2>1, <2>2, <2>3 DEF MainLoop
<1>4. CASE WorkerFaults
  BY <1>1, <1>4, <1>t DEF WorkerFaults, JoinTimeout, LeaveRunner, LaunchFails, Reconnect,
     ReconnectFails, WorkerDies, Gone, NoThread, RxFails, Runner
<1>5. CASE Service \/ \E r \in Slots, m \in Msgs : EchoDecoded(r, m)
  BY <1>1, <1>5 DEF Service, runnerVars, EchoDecoded
<1> QED
  BY <1>2, <1>3, <1>4, <1>5 DEF Next, Worker, RunnerNext

\* Whether stop() waited for it or gave up after 1.5 s, a thread that has the
\* transmitter keyed is that of the runner the main loop knows or was told to
\* stop (BitLink21Runner.stop sets _stop before it joins).
THEOREM KeyedThreadsAreKnown == Spec => []KeyedIsKnown
<1>1. Init => LoopInv /\ HaltInv
  BY LoopInvInit DEF Init, RunnerInit, HaltInv, Free, NoThread
<1>2. TypeOK /\ LoopInv /\ HaltInv /\ [Next]_vars => LoopInv' /\ HaltInv'
  BY LoopInvNext, HaltInvNext
<1>3. HaltInv => KeyedIsKnown
  BY DEF HaltInv, KeyedIsKnown, Keyed, Free
<1> QED
  BY <1>1, <1>2, <1>3, TypeCorrect, PTL DEF Spec

\* Whether or not stop() waits for a thread, no thread but that of the runner
\* the main loop knows begins a buffer (the stop flag is tested before every
\* buffer in _transmit).
THEOREM OnlyCurrentTransmitsAlways == Spec => OnlyCurrentTransmits
<1>1. Init => LoopInv /\ HaltInv
  BY LoopInvInit DEF Init, RunnerInit, HaltInv, Free, NoThread
<1>2. TypeOK /\ LoopInv /\ HaltInv /\ [Next]_vars => LoopInv' /\ HaltInv'
  BY LoopInvNext, HaltInvNext
<1>3. TypeOK /\ HaltInv /\ [Next]_vars
        => [\A r \in Slots : run[r].pc # "write" /\ run'[r].pc = "write" => r = main.cur]_vars
  <2> SUFFICES ASSUME TypeOK, HaltInv, Next, NEW q \in Slots,
                      run[q].pc # "write", run'[q].pc = "write"
               PROVE  q = main.cur
    BY DEF vars, runnerVars
  <2> QED
    BY OnlyTxChunkWrites DEF TxChunk, HaltInv, Free
<1> QED
  BY <1>1, <1>2, <1>3, TypeCorrect, PTL DEF Spec, OnlyCurrentTransmits
-----------------------------------------------------------------------------
(* A confirmation is not undone.                                           *)

\* The rows whose handlers have begun.
Begun == {m \in Msgs : send[m] # "new"}

\* What the queues, the threads and the monitor are about are such rows, so that
\* nothing is known of a row before Store writes it as queued.
OnlyBegun ==
    /\ \A i \in 1..Len(txQ) : txQ[i] \in Begun
    /\ \A i \in 1..Len(evQ) : evQ[i].msg \in Begun \cup {NoMsg}
    /\ \A r \in Slots : run[r].msg \in Begun \cup {NoMsg}
    /\ heard \subseteq Begun
    /\ mon.msg \in Begun \cup {NoMsg}
    /\ \A m \in Msgs : canc[m] # "no" \/ status[m] # "none" => m \in Begun

\* The monitor, between its read and its write, holds no report of the burst of
\* a row that is confirmed: only the monitor itself confirms.
MonRespects ==
    mon.ev \in {"waiting", "sending", "sent"} => status[mon.msg] # "confirmed"

LEMMA EmitBegun ==
    ASSUME TypeOK, OnlyBegun, NEW e, NEW m \in Begun \cup {NoMsg}, Emit(e, m)
    PROVE  \A i \in 1..Len(evQ') : evQ'[i].msg \in Begun \cup {NoMsg}
<1>1. evQ \in Seq(Events)
  BY DEF TypeOK, QueuesTypeOK
<1>2. /\ Len(evQ') = Len(evQ) + 1
      /\ \A i \in 1..Len(evQ) + 1 : evQ'[i] = IF i = Len(evQ) + 1 THEN Event(e, m) ELSE evQ[i]
  <2> DEFINE x == Event(e, m)
  <2>1. evQ' = Append(evQ, x)
    BY DEF Emit
  <2>2. evQ \in Seq(Events \cup {x})
    BY <1>1
  <2>3. /\ Len(evQ') = Len(evQ) + 1
        /\ \A i \in 1..Len(evQ) + 1 : evQ'[i] = IF i = Len(evQ) + 1 THEN x ELSE evQ[i]
    <3> HIDE DEF x
    <3> QED
      BY <2>1, <2>2
  <2> QED
    BY <2>3
<1>3. Event(e, m).msg = m
  BY DEF Event
<1> QED
  BY <1>1, <1>2, <1>3 DEF OnlyBegun

\* What the worker does to its threads, its queues and the air.
WorkerKeeps ==
    /\ \A i \in 1..Len(txQ') : txQ'[i] \in Begun
    /\ \A i \in 1..Len(evQ') : evQ'[i].msg \in Begun \cup {NoMsg}
    /\ \A r \in Slots : run'[r].msg \in Begun \cup {NoMsg}
    /\ heard' \subseteq Begun

LEMMA TxThreadBegun ==
    ASSUME TypeOK, OnlyBegun, NEW r \in Slots, TxThread(r)
    PROVE  WorkerKeeps
<1>t. /\ run \in [Slots -> Runner] /\ run[r].msg \in Begun \cup {NoMsg}
      /\ txQ \in Seq(Msgs)
  BY DEF TypeOK, RunnerTypeOK, QueuesTypeOK, OnlyBegun
<1>1. CASE TxTake(r)
  <2> DEFINE m == Head(txQ)
  <2>1. m \in Begun /\ \A i \in 1..Len(txQ') : txQ'[i] \in Begun
    BY <1>1, <1>t DEF TxTake, OnlyBegun
  <2>2. \A i \in 1..Len(evQ') : evQ'[i].msg \in Begun \cup {NoMsg}
    BY <1>1, <2>1, EmitBegun DEF TxTake
  <2>3. run'[r].msg \in {run[r].msg, m} /\ \A q \in Slots : q # r => run'[q] = run[q]
    BY <1>1, <1>t DEF TxTake, Runner
  <2>4. \A q \in Slots : run'[q].msg \in Begun \cup {NoMsg}
    BY <2>1, <2>3 DEF OnlyBegun
  <2> QED
    BY <1>1, <2>1, <2>2, <2>4 DEF TxTake, WorkerKeeps, OnlyBegun
<1>2. CASE TxExit(r) \/ TxKey(r) \/ TxChunk(r) \/ TxEnd(r)
  <2>1. \A q \in Slots : run'[q].msg = run[q].msg
    <3>1. CASE TxExit(r) \/ TxChunk(r) \/ TxEnd(r)
      <4>1. \E x \in Pcs : run' = [run EXCEPT ![r].pc = x]
        BY <3>1 DEF TxExit, TxChunk, TxEnd, Pcs
      <4> QED
        BY <4>1, <1>t DEF Runner
    <3>2. CASE TxKey(r)
      BY <3>2, <1>t DEF TxKey, Runner
    <3> QED
      BY <1>2, <3>1, <3>2
  <2> QED
    BY <1>2, <2>1 DEF TxExit, TxKey, TxChunk, TxEnd, shared, WorkerKeeps, OnlyBegun
<1>3. CASE PollBusy(r) \/ PollQuiet(r)
  <2>1. \A q \in Slots : run'[q].msg = run[q].msg
    <3>1. CASE PollBusy(r)
      BY <3>1, <1>t DEF PollBusy, Runner
    <3>2. CASE PollQuiet(r)
      <4>1. CASE run[r].quiet < QuietPolls
        BY <3>2, <4>1, <1>t DEF PollQuiet, Runner
      <4>2. CASE ~(run[r].quiet < QuietPolls)
        BY <3>2, <4>2, <1>t DEF PollQuiet, Runner
      <4> QED
        BY <4>1, <4>2
    <3> QED
      BY <1>3, <3>1, <3>2
  <2>2. UNCHANGED evQ \/ \E e \in TxStatuses : Emit(e, run[r].msg)
    BY <1>3 DEF PollBusy, PollQuiet, TxStatuses
  <2>3. \A i \in 1..Len(evQ') : evQ'[i].msg \in Begun \cup {NoMsg}
    BY <1>t, <2>2, EmitBegun DEF OnlyBegun
  <2> QED
    BY <1>3, <2>1, <2>3 DEF PollBusy, PollQuiet, WorkerKeeps, OnlyBegun
<1>4. CASE TxWrite(r)
  <2>1. run[r].msg \in Begun
    BY <1>4, <1>t, QueueAssumption DEF TxWrite, TypeOK, BusyHasMsg, Busy
  <2>2. \A q \in Slots : run'[q].msg \in Begun \cup {NoMsg}
    BY <1>4, <1>t DEF TxWrite, OnlyBegun, Runner
  <2> QED
    BY <1>4, <2>1, <2>2 DEF TxWrite, shared, WorkerKeeps, OnlyBegun
<1>5. ASSUME NEW v \in Verdicts, Finish(r, v) PROVE WorkerKeeps
  <2>1. \A q \in Slots : run'[q].msg \in Begun \cup {NoMsg}
    BY <1>5, <1>t DEF Finish, OnlyBegun, Runner
  <2>2. \A i \in 1..Len(evQ') : evQ'[i].msg \in Begun \cup {NoMsg}
    BY <1>5, <1>t, EmitBegun DEF Finish
  <2> QED
    BY <1>5, <2>1, <2>2 DEF Finish, WorkerKeeps, OnlyBegun
<1> QED
  BY <1>1, <1>2, <1>3, <1>4, <1>5
     DEF TxThread, PollTimeout, ListenHalted, TxHalted, TxCancelled, TxDrained, TxError, Verdicts

LEMMA WorkerBegun ==
    ASSUME TypeOK, OnlyBegun, RunnerNext
    PROVE  WorkerKeeps
<1> USE RunnerAssumption
<1>t. run \in [Slots -> Runner] /\ cfgQ \in Seq(Commands)
  BY DEF TypeOK, RunnerTypeOK, QueuesTypeOK
<1>0. ASSUME UNCHANGED <<txQ, heard>>, UNCHANGED evQ \/ Emit("station_error", NoMsg),
             \A q \in Slots : run'[q].msg = run[q].msg
      PROVE  WorkerKeeps
  BY <1>0, EmitBegun DEF WorkerKeeps, OnlyBegun
<1>1. CASE Gone
  BY <1>1 DEF Gone, NoThread, WorkerKeeps, OnlyBegun
<1>2. CASE MainLoop
  <2>1. CASE Configure
    BY <2>1, <1>0 DEF Configure, shared
  <2>2. CASE TakeCommand
    <3>1. \A q \in Slots : run'[q].msg = run[q].msg
      BY <2>2, <1>t DEF TakeCommand, StopThen, StopRunner, NoStation, Runner
    <3> QED
      BY <2>2, <3>1, <1>0 DEF TakeCommand
  <2>3. CASE JoinDone
    BY <2>3, <1>0, <1>t DEF JoinDone, LeaveRunner, Runner
  <2>4. CASE LeaveLoop
    BY <2>4, <1>0, <1>t DEF LeaveLoop, StopRunner, Runner, shared
  <2>5. CASE WorkerExit
    BY <2>5, <1>1 DEF WorkerExit
  <2>6. ASSUME NEW r \in Slots, Launch(r) PROVE WorkerKeeps
    BY <2>6, <1>t DEF Launch, NewRunner, shared, WorkerKeeps, OnlyBegun
  <2> QED
    BY <1>2, <2>1, <2>2, <2>3, <2>4, <2>5, <2>6 DEF MainLoop
<1>3. CASE WorkerFaults
  <2>1. CASE JoinTimeout
    BY <2>1, <1>0, <1>t DEF JoinTimeout, LeaveRunner, Runner
  <2>2. CASE LaunchFails \/ Reconnect \/ ReconnectFails
    BY <2>2, <1>0 DEF LaunchFails, Reconnect, ReconnectFails
  <2>3. CASE WorkerDies
    BY <2>3, <1>1 DEF WorkerDies
  <2>4. ASSUME NEW r \in Slots, RxFails(r) PROVE WorkerKeeps
    BY <2>4, <1>0, <1>t DEF RxFails, Runner
  <2> QED
    BY <1>3, <2>1, <2>2, <2>3, <2>4 DEF WorkerFaults
<1>4. ASSUME NEW r \in Slots, NEW m \in Msgs, EchoDecoded(r, m) PROVE WorkerKeeps
  <2>1. m \in Begun
    BY <1>4 DEF EchoDecoded, OnlyBegun
  <2> QED
    BY <1>4, <2>1, EmitBegun DEF EchoDecoded, WorkerKeeps, OnlyBegun
<1> QED
  BY <1>2, <1>3, <1>4, TxThreadBegun DEF RunnerNext

LEMMA ServiceBegun ==
    ASSUME TypeOK, OnlyBegun, ServiceNext, UNCHANGED runnerVars
    PROVE  OnlyBegun'
<1> USE ServiceAssumption
<1>t. /\ send \in [Msgs -> {"new", "stored", "blocked", "refused", "crashed", "done"}]
      /\ canc \in [Msgs -> {"no", "read", "put", "done"}]
      /\ status \in [Msgs -> {"none", "queued", "confirmed"} \cup TxStatuses]
      /\ txQ \in Seq(Msgs) /\ evQ \in Seq(Events) /\ mon \in Reports \cup {NoEvent}
  BY DEF TypeOK, ServiceTypeOK, QueuesTypeOK
<1>k. run' = run /\ heard' = heard
  BY DEF runnerVars
\* A step that begins no less, and puts nothing unknown anywhere.
<1>0. ASSUME Begun \subseteq Begun',
             \A i \in 1..Len(txQ') : txQ'[i] \in Begun',
             \A i \in 1..Len(evQ') : evQ'[i].msg \in Begun \cup {NoMsg},
             mon'.msg \in Begun \cup {NoMsg},
             \A m \in Msgs : canc'[m] # "no" \/ status'[m] # "none" => m \in Begun'
      PROVE  OnlyBegun'
  BY <1>0, <1>k DEF OnlyBegun
<1>1. ASSUME NEW m \in Msgs, SendStep(m) PROVE OnlyBegun'
  <2>1. Begun \subseteq Begun' /\ m \in Begun'
    BY <1>1, <1>t DEF SendStep, Store, Enqueue, PutUnblocks, Refuse, Crash, Begun
  <2>2. \A i \in 1..Len(txQ') : txQ'[i] \in Begun'
    <3>1. txQ' = txQ \/ txQ' = Append(txQ, m)
      BY <1>1 DEF SendStep, Store, Enqueue, PutUnblocks, Refuse, Crash, shared
    <3>2. \A i \in 1..Len(Append(txQ, m)) : Append(txQ, m)[i] \in Begun'
      BY <1>t, <2>1 DEF OnlyBegun
    <3> QED
      BY <2>1, <3>1, <3>2 DEF OnlyBegun
  <2>3. UNCHANGED <<evQ, mon, canc>>
    BY <1>1 DEF SendStep, Store, Enqueue, PutUnblocks, Refuse, Crash, shared
  <2>4. \A n \in Msgs : n # m => status'[n] = status[n]
    BY <1>1, <1>t DEF SendStep, Store, Enqueue, PutUnblocks, Refuse, Crash
  <2> QED
    BY <2>1, <2>2, <2>3, <2>4, <1>0 DEF OnlyBegun
<1>2. ASSUME NEW m \in Msgs, CancelStep(m) PROVE OnlyBegun'
  <2>1. Begun' = Begun /\ UNCHANGED <<txQ, evQ, mon>>
    BY <1>2 DEF CancelStep, CancelRead, CancelPut, CancelWrite, Begun, shared
  <2>2. m \in Begun
    BY <1>2 DEF CancelStep, CancelRead, CancelPut, CancelWrite, OnlyBegun, Pending
  <2>3. \A n \in Msgs : n # m => status'[n] = status[n] /\ canc'[n] = canc[n]
    BY <1>2, <1>t DEF CancelStep, CancelRead, CancelPut, CancelWrite
  <2> QED
    BY <2>1, <2>2, <2>3, <1>0 DEF OnlyBegun
<1>3. CASE StationStep
  <2>1. Begun' = Begun /\ UNCHANGED <<txQ, mon, canc, status>>
    BY <1>3 DEF StationStep, Start, PutStart, StartBoot, StartPut, Stop, Retune, Waterfall,
                ClassicBoot, QuitSdr, Begun, serviceVars
  <2>2. evQ' = evQ \/ evQ' = <<>>
    BY <1>3 DEF StationStep, Start, StartBoot, StartPut, Stop, Retune, Waterfall, ClassicBoot,
                QuitSdr
  <2> QED
    BY <2>1, <2>2, <1>0 DEF OnlyBegun
<1>4. CASE MonitorRead
  <2>1. Begun' = Begun /\ UNCHANGED <<txQ, canc, status>>
    BY <1>4 DEF MonitorRead, Begun
  <2>2. /\ Head(evQ).msg \in Begun \cup {NoMsg}
        /\ \A i \in 1..Len(evQ') : evQ'[i].msg \in Begun \cup {NoMsg}
    BY <1>4, <1>t DEF MonitorRead, OnlyBegun
  <2>3. mon'.msg \in Begun \cup {NoMsg}
    BY <1>4, <2>2 DEF MonitorRead, NoEvent, Event, OnlyBegun
  <2> QED
    BY <2>1, <2>2, <2>3, <1>0 DEF OnlyBegun
<1>5. CASE MonitorWrite
  <2>1. Begun' = Begun /\ UNCHANGED <<txQ, evQ, canc>>
    BY <1>5 DEF MonitorWrite, Begun, shared
  <2>2. mon.msg \in Begun /\ mon'.msg = NoMsg
    BY <1>5, <1>t, QueueAssumption DEF MonitorWrite, Reports, NoEvent, Event, OnlyBegun
  <2>3. \A n \in Msgs : n # mon.msg => status'[n] = status[n]
    BY <1>5, <1>t DEF MonitorWrite
  <2> QED
    BY <2>1, <2>2, <2>3, <1>0 DEF OnlyBegun
<1> QED
  BY <1>1, <1>2, <1>3, <1>4, <1>5 DEF ServiceNext, MonitorStep

LEMMA OnlyBegunNext == TypeOK /\ OnlyBegun /\ [Next]_vars => OnlyBegun'
<1> SUFFICES ASSUME TypeOK, OnlyBegun, [Next]_vars PROVE OnlyBegun'
  OBVIOUS
<1>1. CASE Worker
  <2>1. Begun' = Begun /\ UNCHANGED <<mon, canc, status>> /\ WorkerKeeps
    BY <1>1, WorkerBegun DEF Worker, serviceVars, Begun
  <2> QED
    BY <2>1 DEF OnlyBegun, WorkerKeeps
<1>2. CASE Service
  BY <1>2, ServiceBegun DEF Service
<1>3. CASE UNCHANGED vars
  BY <1>3 DEF vars, shared, runnerVars, serviceVars, OnlyBegun, Begun
<1> QED
  BY <1>1, <1>2, <1>3 DEF Next

\* What a step of the service may do to a confirmed row.
LEMMA ConfirmedStep ==
    ASSUME TypeOK, OnlyBegun, MonRespects, ServiceNext,
           NEW m \in Msgs, status[m] = "confirmed"
    PROVE  status'[m] \in {"confirmed", "failed", "stopped"}
<1>t. status \in [Msgs -> {"none", "queued", "confirmed"} \cup TxStatuses]
      /\ mon \in Reports \cup {NoEvent}
  BY DEF TypeOK, ServiceTypeOK
<1>1. ASSUME NEW n \in Msgs, SendStep(n) PROVE status'[m] \in {"confirmed", "failed"}
  <2>1. send[m] # "new"
    BY DEF OnlyBegun, Begun
  <2>2. CASE Store(n)
    BY <2>1, <2>2, <1>t DEF Store
  <2> QED
    BY <1>1, <2>2, <1>t DEF SendStep, Enqueue, PutUnblocks, Refuse, Crash
<1>2. ASSUME NEW n \in Msgs, CancelStep(n) PROVE status'[m] \in {"confirmed", "stopped"}
  BY <1>2, <1>t DEF CancelStep, CancelRead, CancelPut, CancelWrite
<1>3. CASE StationStep \/ MonitorRead
  BY <1>3 DEF StationStep, Start, PutStart, StartBoot, StartPut, Stop, Retune, Waterfall,
              ClassicBoot, QuitSdr, MonitorRead, serviceVars
<1>4. CASE MonitorWrite
  <2>1. mon.msg = m => mon.ev \in {"echo", "failed", "stopped"}
    BY <1>4, <1>t DEF MonitorWrite, MonRespects, Reports, TxStatuses
  <2> QED
    BY <1>4, <2>1, <1>t DEF MonitorWrite
<1> QED
  BY <1>1, <1>2, <1>3, <1>4 DEF ServiceNext, MonitorStep

LEMMA MonRespectsNext == TypeOK /\ OnlyBegun /\ MonRespects /\ [Next]_vars => MonRespects'
<1> SUFFICES ASSUME TypeOK, OnlyBegun, MonRespects, [Next]_vars PROVE MonRespects'
  OBVIOUS
<1>t. status \in [Msgs -> {"none", "queued", "confirmed"} \cup TxStatuses]
  BY DEF TypeOK, ServiceTypeOK
\* Nobody but the monitor confirms.
<1>0. ASSUME UNCHANGED mon, \A m \in Msgs : status'[m] = "confirmed" => status[m] = "confirmed",
             status' \in [Msgs -> {"none", "queued", "confirmed"} \cup TxStatuses],
             mon \in Reports \cup {NoEvent}
      PROVE  MonRespects'
  BY <1>0, <1>t DEF MonRespects, Reports, NoEvent, Event
<1>1. CASE Worker \/ UNCHANGED vars
  BY <1>1 DEF Worker, vars, serviceVars, MonRespects
<1>2. CASE Service
  <2>u. mon \in Reports \cup {NoEvent}
    BY DEF TypeOK, ServiceTypeOK
  <2>1. ASSUME NEW m \in Msgs, SendStep(m) \/ CancelStep(m) PROVE MonRespects'
    <3>1. UNCHANGED mon
      BY <2>1 DEF SendStep, CancelStep, Store, Enqueue, PutUnblocks, Refuse, Crash,
                  CancelRead, CancelPut, CancelWrite
    <3>2. \/ status' = status
          \/ \E s \in {"queued", "failed", "stopped"} : status' = [status EXCEPT ![m] = s]
      BY <2>1 DEF SendStep, CancelStep, Store, Enqueue, PutUnblocks, Refuse, Crash,
                  CancelRead, CancelPut, CancelWrite
    <3> QED
      BY <3>1, <3>2, <2>u, <1>t, <1>0 DEF TxStatuses
  <2>2. CASE StationStep
    BY <2>2 DEF StationStep, Start, PutStart, StartBoot, StartPut, Stop, Retune, Waterfall,
                ClassicBoot, QuitSdr, serviceVars, MonRespects
  <2>3. CASE MonitorRead
    BY <2>3 DEF MonitorRead, Dropped, MonRespects, NoEvent, Event, TxStatuses
  <2>4. CASE MonitorWrite
    BY <2>4 DEF MonitorWrite, MonRespects, NoEvent, Event
  <2> QED
    BY <1>2, <2>1, <2>2, <2>3, <2>4 DEF Service, ServiceNext, MonitorStep
<1> QED
  BY <1>1, <1>2 DEF Next

\* Reports of a burst that come in after its echo do not bring back "sending"
\* or "sent", whatever the operator, the threads and faults do.
THEOREM ConfirmedStays == Spec => ConfirmedNotUndone
<1> DEFINE Inv == OnlyBegun /\ MonRespects
<1>1. Init => Inv
  BY DEF Init, QueuesInit, RunnerInit, ServiceInit, NoThread, NoEvent, Event, OnlyBegun, MonRespects
<1>2. TypeOK /\ Inv /\ [Next]_vars => Inv'
  BY OnlyBegunNext, MonRespectsNext
<1>3. TypeOK /\ Inv /\ [Next]_vars
        => [\A m \in Msgs : status[m] = "confirmed" =>
                              status'[m] \in {"confirmed", "failed", "stopped"}]_vars
  <2> SUFFICES ASSUME TypeOK, Inv, Next, NEW m \in Msgs, status[m] = "confirmed"
               PROVE  status'[m] \in {"confirmed", "failed", "stopped"}
    OBVIOUS
  <2>1. CASE Worker
    BY <2>1 DEF Worker, serviceVars
  <2>2. CASE Service
    BY <2>2, ConfirmedStep DEF Service
  <2> QED
    BY <2>1, <2>2 DEF Next
<1> QED
  BY <1>1, <1>2, <1>3, TypeCorrect, PTL DEF Spec, ConfirmedNotUndone

-----------------------------------------------------------------------------
(* A pending row is on its way.                                            *)

\* Reports that were made and not yet written: the monitor's, then the queue's.
Said(i) == IF i = 0 THEN mon ELSE evQ[i]
Saying == 0..Len(evQ)

InTxQ(m) == \E k \in 1..Len(txQ) : txQ[k] = m
HeldBy(r) == IF run[r].pc \in Busy THEN run[r].msg ELSE NoMsg
Held(m) == \E r \in Slots : HeldBy(r) = m

\* Its verdict is among the reports from the i-th on.
Judged(m, i) == \E j \in Saying : i <= j /\ Said(j).msg = m /\ Said(j).ev \in Verdicts

\* A request is in one place at most, and only after its handler is done.
OneCopy ==
    /\ \A i, j \in 1..Len(txQ) : txQ[i] = txQ[j] => i = j
    /\ \A i \in 1..Len(txQ) : send[txQ[i]] = "done" /\ ~Held(txQ[i])
    /\ \A r \in Slots : HeldBy(r) # NoMsg => send[HeldBy(r)] = "done"
    /\ \A r, s \in Slots : HeldBy(r) = HeldBy(s) /\ HeldBy(r) # NoMsg => r = s

\* Reports are about requests that were taken; a verdict is the last of them, and
\* comes when the thread lets go of the request; what is reported before it is of
\* a request that a thread holds or that has its verdict further on.
InOrder ==
    /\ \A i \in Saying : Said(i).ev \in TxStatuses =>
          send[Said(i).msg] = "done" /\ ~InTxQ(Said(i).msg)
    /\ \A i \in Saying : Said(i).ev \in Verdicts => ~Held(Said(i).msg)
    /\ \A i, j \in Saying :
          i < j /\ Said(i).ev \in Verdicts /\ Said(j).msg = Said(i).msg => Said(j).ev \notin TxStatuses
    /\ \A i \in Saying : Said(i).ev \in {"waiting", "sending"} =>
          Held(Said(i).msg) \/ Judged(Said(i).msg, i)

Kept == \A m \in Msgs :
    send[m] = "done" /\ status[m] \in Pending => InTxQ(m) \/ Held(m) \/ Judged(m, 0)

\* The process does not end: it is not told to, and stop() has a runner to stop.
StaysUp == proc # "stopping" /\ (main.pc = "join" => Running /\ main.cmd # "quit")

OnWayInv == OneCopy /\ InOrder /\ Kept

LEMMA OnWayImplies == TypeOK /\ OnWayInv => PendingIsOnItsWay
<1> SUFFICES ASSUME TypeOK, OnWayInv, NEW m \in Msgs, send[m] = "done", status[m] \in Pending
             PROVE  OnItsWay(m)
  BY DEF PendingIsOnItsWay
<1>1. CASE InTxQ(m)
  <2>1. m \in Range(txQ)
    BY <1>1 DEF InTxQ, Range, TypeOK, QueuesTypeOK
  <2> QED
    BY <2>1 DEF OnItsWay
<1>2. CASE Held(m)
  BY <1>2, QueueAssumption DEF Held, HeldBy, OnItsWay, Holds
<1>3. CASE Judged(m, 0)
  <2>1. PICK j \in Saying : Said(j).msg = m /\ Said(j).ev \in Verdicts
    BY <1>3 DEF Judged
  <2>2. Said(j) \in Range(evQ) \cup {mon}
    BY <2>1 DEF Said, Saying, Range, TypeOK, QueuesTypeOK
  <2>3. Said(j) \in Events \cup {NoEvent}
    BY <2>1 DEF Said, Saying, TypeOK, QueuesTypeOK, ServiceTypeOK, Events
  <2>4. Said(j) = Event(Said(j).ev, m)
    BY <2>1, <2>3 DEF Events, Reports, NoEvent, Event
  <2> QED
    BY <2>1, <2>2, <2>4 DEF OnItsWay
<1> QED
  BY <1>1, <1>2, <1>3 DEF OnWayInv, Kept

LEMMA StaysUpNext ==
    ASSUME "die" \notin Moves, "quit" \notin Moves
    PROVE  TypeOK /\ StaysUp /\ [Next]_vars => StaysUp' /\ ~WorkerExit /\ ~WorkerDies
<1> SUFFICES ASSUME TypeOK, StaysUp, [Next]_vars PROVE StaysUp' /\ ~WorkerExit /\ ~WorkerDies
  OBVIOUS
<1> USE RunnerAssumption DEF StaysUp, Running
<1>t. main.cur \in Slots \cup {NoRunner} /\ main = [pc |-> main.pc, cmd |-> main.cmd, cur |-> main.cur]
  BY DEF TypeOK, RunnerTypeOK
<1>0. ~WorkerExit /\ ~WorkerDies
  BY DEF WorkerExit, WorkerDies, Move
<1>1. CASE UNCHANGED <<main, proc>>
  BY <1>0, <1>1
<1>2. CASE MainLoop
  <2>1. CASE Configure
    BY <2>1, <1>0, <1>t DEF Configure, shared
  <2>2. CASE TakeCommand
    <3>1. Head(cfgQ).cmd \in StationCmds \cup {"cancel"}
      BY <2>2 DEF TakeCommand, TypeOK, QueuesTypeOK, Commands
    <3> QED
      BY <2>2, <3>1, <1>0, <1>t DEF TakeCommand, StopThen, StopRunner, NoStation, StationCmds
  <2>3. CASE JoinDone
    BY <2>3, <1>0 DEF JoinDone, LeaveRunner
  <2>4. CASE LeaveLoop
    BY <2>4 DEF LeaveLoop
  <2>5. ASSUME NEW r \in Slots, Launch(r) PROVE StaysUp'
    BY <2>5 DEF Launch, shared
  <2> QED
    BY <1>2, <1>0, <2>1, <2>2, <2>3, <2>4, <2>5 DEF MainLoop
<1>3. CASE WorkerFaults
  <2>1. CASE JoinTimeout
    BY <2>1, <1>0 DEF JoinTimeout, LeaveRunner
  <2>2. CASE LaunchFails
    BY <2>2, <1>0, <1>t DEF LaunchFails
  <2> QED
    BY <1>3, <1>0, <1>1, <2>1, <2>2, ThreadsLeaveLoop DEF WorkerFaults, Reconnect, ReconnectFails
<1>4. CASE Service
  <2>1. UNCHANGED main
    BY <1>4 DEF Service, runnerVars
  <2>2. proc' # "stopping"
    BY <1>4 DEF Service, ServiceNext, SendStep, CancelStep, StationStep, MonitorStep,
         Store, Enqueue, PutUnblocks, Refuse, Crash, CancelRead, CancelPut, CancelWrite,
         Start, StartBoot, StartPut, Stop, Retune, Waterfall, ClassicBoot, QuitSdr,
         MonitorRead, MonitorWrite, shared, Move
  <2> QED
    BY <1>0, <2>1, <2>2
<1>5. CASE UNCHANGED vars
  BY <1>5, <1>1 DEF vars, shared, runnerVars
<1> QED
  BY <1>1, <1>2, <1>3, <1>4, <1>5, ThreadsLeaveLoop DEF Next, Worker, RunnerNext

\* What a step of the worker may do to the requests and the reports.
HeldSame == \A q \in Slots : HeldBy(q)' = HeldBy(q)
HeldButFor(r) == \A q \in Slots : q # r => HeldBy(q)' = HeldBy(q)

Chatters ==
    /\ HeldSame /\ UNCHANGED txQ
    /\ \/ UNCHANGED evQ
       \/ \E e \in {"echo", "station_error"}, m \in Msgs \cup {NoMsg} : Emit(e, m)
Takes(r) ==
    /\ txQ # <<>> /\ txQ' = Tail(txQ)
    /\ HeldBy(r) = NoMsg /\ HeldBy(r)' = Head(txQ) /\ HeldButFor(r)
    /\ Emit("sending", Head(txQ))
TakesCancelled ==
    /\ txQ # <<>> /\ txQ' = Tail(txQ)
    /\ HeldSame
    /\ Emit("stopped", Head(txQ))
Tells(r) ==
    /\ HeldSame /\ UNCHANGED txQ
    /\ HeldBy(r) # NoMsg
    /\ \E e \in {"waiting", "sending"} : Emit(e, HeldBy(r))
LetsGo(r) ==
    /\ UNCHANGED txQ
    /\ HeldBy(r) # NoMsg /\ HeldBy(r)' = NoMsg /\ HeldButFor(r)
    /\ \E v \in Verdicts : Emit(v, HeldBy(r))

Effect == Chatters \/ TakesCancelled \/ \E r \in Slots : Takes(r) \/ Tells(r) \/ LetsGo(r)

LEMMA HeldByThread ==
    ASSUME NEW r \in Slots, \A q \in Slots : q # r => run'[q] = run[q]
    PROVE  HeldButFor(r) /\ (HeldBy(r)' = HeldBy(r) => HeldSame)
  BY DEF HeldButFor, HeldSame, HeldBy

LEMMA TxThreadEffect ==
    ASSUME TypeOK, NEW r \in Slots, TxThread(r)
    PROVE  Effect
<1>t. /\ run \in [Slots -> Runner] /\ txQ \in Seq(Msgs)
      /\ run[r].pc \in Busy => run[r].msg # NoMsg
  BY DEF TypeOK, RunnerTypeOK, QueuesTypeOK, BusyHasMsg
<1>1. \A q \in Slots : q # r => run'[q] = run[q]
  BY <1>t DEF TxThread, TxTake, TxExit, PollBusy, PollQuiet, PollTimeout, ListenHalted, TxKey,
     TxChunk, TxWrite, TxEnd, TxHalted, TxCancelled, TxDrained, TxError, Finish
<1>2. CASE TxTake(r)
  <2>1. HeldBy(r) = NoMsg /\ Head(txQ) \in Msgs
    BY <1>2, <1>t DEF TxTake, HeldBy, Busy
  <2>2. CASE Head(txQ) \in run[r].cancelled
    <3>1. run'[r].pc \notin Busy
      BY <1>2, <2>2, <1>t DEF TxTake, AfterBurst, Busy, Runner
    <3>2. TakesCancelled
      BY <1>1, <1>2, <2>1, <2>2, <3>1, HeldByThread DEF TxTake, TakesCancelled, HeldBy
    <3> QED
      BY <3>2 DEF Effect
  <2>3. CASE Head(txQ) \notin run[r].cancelled
    <3>1. run'[r].pc = "listen" /\ run'[r].msg = Head(txQ)
      BY <1>2, <2>3, <1>t DEF TxTake, Runner
    <3>2. HeldBy(r)' = Head(txQ)
      BY <3>1 DEF HeldBy, Busy
    <3>3. Takes(r)
      BY <1>1, <1>2, <2>1, <2>3, <3>2, HeldByThread DEF TxTake, Takes
    <3> QED
      BY <3>3 DEF Effect
  <2> QED
    BY <2>2, <2>3
<1>3. CASE TxExit(r) \/ TxKey(r) \/ TxChunk(r) \/ TxWrite(r) \/ TxEnd(r)
  <2>1. HeldBy(r)' = HeldBy(r)
    <3>1. CASE TxExit(r)
      BY <3>1, <1>t DEF TxExit, HeldBy, Busy, Runner
    <3>2. CASE TxKey(r)
      BY <3>2, <1>t DEF TxKey, HeldBy, Busy, Runner
    <3>3. CASE TxChunk(r) \/ TxEnd(r)
      BY <3>3, <1>t DEF TxChunk, TxEnd, HeldBy, Busy, Runner
    <3>4. CASE TxWrite(r)
      BY <3>4, <1>t DEF TxWrite, HeldBy, Busy, Runner
    <3> QED
      BY <1>3, <3>1, <3>2, <3>3, <3>4
  <2>2. Chatters
    BY <1>1, <1>3, <2>1, HeldByThread DEF TxExit, TxKey, TxChunk, TxWrite, TxEnd, shared, Chatters
  <2> QED
    BY <2>2 DEF Effect
<1>4. CASE PollBusy(r) \/ PollQuiet(r)
  <2>1. HeldBy(r)' = HeldBy(r) /\ HeldBy(r) = run[r].msg /\ HeldBy(r) # NoMsg
    <3>1. HeldBy(r) = run[r].msg /\ HeldBy(r) # NoMsg
      BY <1>4, <1>t DEF PollBusy, PollQuiet, Listening, HeldBy, Busy
    <3>2. run'[r].msg = run[r].msg /\ run'[r].pc \in Busy
      <4>1. CASE PollBusy(r)
        BY <4>1, <1>t DEF PollBusy, Listening, Busy, Runner
      <4>2. CASE PollQuiet(r) /\ run[r].quiet < QuietPolls
        BY <4>2, <1>t DEF PollQuiet, Listening, Busy, Runner
      <4>3. CASE PollQuiet(r) /\ ~(run[r].quiet < QuietPolls)
        BY <4>3, <1>t DEF PollQuiet, Busy, Runner
      <4> QED
        BY <1>4, <4>1, <4>2, <4>3
    <3> QED
      BY <3>1, <3>2 DEF HeldBy
  <2>2. HeldSame /\ UNCHANGED txQ
    BY <1>1, <1>4, <2>1, HeldByThread DEF PollBusy, PollQuiet
  <2>3. UNCHANGED evQ \/ \E e \in {"waiting", "sending"} : Emit(e, HeldBy(r))
    BY <1>4, <2>1 DEF PollBusy, PollQuiet
  <2> QED
    BY <2>1, <2>2, <2>3 DEF Effect, Chatters, Tells
<1>5. ASSUME NEW v \in Verdicts, Finish(r, v), run[r].pc \in Busy PROVE Effect
  <2>1. HeldBy(r) = run[r].msg /\ HeldBy(r) # NoMsg
    BY <1>5, <1>t DEF HeldBy
  <2>2. HeldBy(r)' = NoMsg
    <3>1. run'[r].msg = NoMsg
      BY <1>5, <1>t DEF Finish, Runner
    <3> QED
      BY <3>1 DEF HeldBy
  <2>3. LetsGo(r)
    BY <1>1, <1>5, <2>1, <2>2, HeldByThread DEF Finish, LetsGo
  <2> QED
    BY <2>3 DEF Effect
<1>6. CASE PollTimeout(r) \/ ListenHalted(r) \/ TxHalted(r) \/ TxCancelled(r)
           \/ TxDrained(r) \/ TxError(r)
  BY <1>5, <1>6 DEF PollTimeout, Listening, ListenHalted, TxHalted, TxCancelled, TxDrained,
                    TxError, Verdicts, Busy
<1> QED
  BY <1>2, <1>3, <1>4, <1>6 DEF TxThread

LEMMA WorkerEffect ==
    ASSUME TypeOK, RunnerNext, ~WorkerExit, ~WorkerDies
    PROVE  Effect
<1> USE RunnerAssumption
<1>t. run \in [Slots -> Runner]
  BY DEF TypeOK, RunnerTypeOK
<1>0. ASSUME UNCHANGED txQ, UNCHANGED evQ \/ Emit("station_error", NoMsg),
             \A q \in Slots : run'[q].msg = run[q].msg /\ run'[q].pc = run[q].pc
      PROVE  Effect
  BY <1>0 DEF Effect, Chatters, HeldSame, HeldBy
<1>1. CASE MainLoop
  <2>1. CASE Configure
    BY <2>1, <1>0 DEF Configure, shared
  <2>2. CASE TakeCommand
    <3>1. \A q \in Slots : run'[q].msg = run[q].msg /\ run'[q].pc = run[q].pc
      BY <2>2, <1>t DEF TakeCommand, StopThen, StopRunner, NoStation, Runner
    <3> QED
      BY <2>2, <3>1, <1>0 DEF TakeCommand
  <2>3. CASE JoinDone
    BY <2>3, <1>0, <1>t DEF JoinDone, LeaveRunner, Runner
  <2>4. CASE LeaveLoop
    BY <2>4, <1>0, <1>t DEF LeaveLoop, StopRunner, Runner, shared
  <2>5. ASSUME NEW r \in Slots, Launch(r) PROVE Effect
    <3>1. HeldSame
      BY <2>5, <1>t DEF Launch, NewRunner, Free, Busy, HeldSame, HeldBy
    <3> QED
      BY <2>5, <3>1 DEF Launch, shared, Effect, Chatters
  <2> QED
    BY <1>1, <2>1, <2>2, <2>3, <2>4, <2>5 DEF MainLoop
<1>2. CASE WorkerFaults
  <2>1. CASE JoinTimeout
    BY <2>1, <1>0, <1>t DEF JoinTimeout, LeaveRunner, Runner
  <2>2. CASE LaunchFails \/ Reconnect \/ ReconnectFails
    BY <2>2, <1>0 DEF LaunchFails, Reconnect, ReconnectFails
  <2>3. ASSUME NEW r \in Slots, RxFails(r) PROVE Effect
    BY <2>3, <1>0, <1>t DEF RxFails, Runner
  <2> QED
    BY <1>2, <2>1, <2>2, <2>3 DEF WorkerFaults
<1>3. ASSUME NEW r \in Slots, NEW m \in Msgs, EchoDecoded(r, m) PROVE Effect
  BY <1>3 DEF EchoDecoded, Effect, Chatters, HeldSame, HeldBy
<1> QED
  BY <1>1, <1>2, <1>3, TxThreadEffect DEF RunnerNext

\* The request that a thread takes off the queue was there once.
LEMMA HeadTaken ==
    ASSUME TypeOK, OneCopy, txQ # <<>>, txQ' = Tail(txQ)
    PROVE  /\ Head(txQ) \in Msgs /\ InTxQ(Head(txQ))
           /\ send[Head(txQ)] = "done" /\ ~Held(Head(txQ))
           /\ \A n : InTxQ(n)' <=> InTxQ(n) /\ n # Head(txQ)
           /\ \A i \in 1..Len(txQ') : i + 1 \in 1..Len(txQ) /\ txQ'[i] = txQ[i + 1]
<1>1. /\ txQ \in Seq(Msgs) /\ Len(txQ) \in Nat /\ Len(txQ) > 0
      /\ Head(txQ) = txQ[1] /\ 1 \in 1..Len(txQ) /\ Head(txQ) \in Msgs
      /\ Len(txQ') = Len(txQ) - 1
      /\ \A i \in 1..Len(txQ') : i + 1 \in 1..Len(txQ) /\ txQ'[i] = txQ[i + 1]
  BY DEF TypeOK, QueuesTypeOK
<1>2. InTxQ(Head(txQ)) /\ send[Head(txQ)] = "done" /\ ~Held(Head(txQ))
  BY <1>1 DEF OneCopy, InTxQ
<1>3. ASSUME NEW n PROVE InTxQ(n)' <=> InTxQ(n) /\ n # Head(txQ)
  <2>1. ASSUME InTxQ(n)' PROVE InTxQ(n) /\ n # Head(txQ)
    <3>1. PICK k \in 1..Len(txQ') : txQ'[k] = n
      BY <2>1 DEF InTxQ
    <3>2. k + 1 \in 1..Len(txQ) /\ txQ[k + 1] = n /\ k + 1 # 1
      BY <1>1, <3>1
    <3> QED
      BY <1>1, <3>2 DEF InTxQ, OneCopy
  <2>2. ASSUME InTxQ(n), n # Head(txQ) PROVE InTxQ(n)'
    <3>1. PICK k \in 1..Len(txQ) : txQ[k] = n
      BY <2>2 DEF InTxQ
    <3>2. k # 1 /\ k - 1 \in 1..Len(txQ')
      BY <1>1, <2>2, <3>1
    <3>3. txQ'[k - 1] = n
      BY <1>1, <3>1, <3>2
    <3> QED
      BY <3>2, <3>3 DEF InTxQ
  <2> QED
    BY <2>1, <2>2
<1> QED
  BY <1>1, <1>2, <1>3

\* A request that a thread takes is then its own: nobody else has it.
LEMMA TakesOneCopy ==
    ASSUME TypeOK, OneCopy, UNCHANGED send, NEW r \in Slots, Takes(r)
    PROVE  OneCopy'
<1> PICK m : m = Head(txQ)
  OBVIOUS
<1>q. /\ m \in Msgs /\ m # NoMsg /\ send[m] = "done" /\ ~Held(m)
      /\ \A n : InTxQ(n)' <=> InTxQ(n) /\ n # m
      /\ \A i \in 1..Len(txQ') : i + 1 \in 1..Len(txQ) /\ txQ'[i] = txQ[i + 1]
  BY HeadTaken, QueueAssumption DEF Takes
<1>h. /\ \A q \in Slots : HeldBy(q)' = IF q = r THEN m ELSE HeldBy(q)
      /\ HeldBy(r) = NoMsg
      /\ \A n : n # NoMsg => (Held(n)' <=> Held(n) \/ n = m)
  BY DEF Takes, HeldButFor, Held
<1>1. \A i, j \in 1..Len(txQ') : txQ'[i] = txQ'[j] => i = j
  BY <1>q DEF OneCopy
<1>2. \A i \in 1..Len(txQ') : send'[txQ'[i]] = "done" /\ ~Held(txQ[i])'
  <2> SUFFICES ASSUME NEW i \in 1..Len(txQ')
               PROVE  send'[txQ'[i]] = "done" /\ ~Held(txQ[i])'
    OBVIOUS
  <2> PICK n : n = txQ'[i]
    OBVIOUS
  <2>1. InTxQ(n)' /\ n = txQ[i + 1] /\ i + 1 \in 1..Len(txQ)
    BY <1>q DEF InTxQ
  <2>2. n # m /\ send[n] = "done" /\ ~Held(n) /\ n # NoMsg
    BY <1>q, <2>1, QueueAssumption DEF OneCopy, TypeOK, QueuesTypeOK
  <2>3. ~Held(n)'
    BY <1>h, <2>2
  <2> QED
    BY <2>2, <2>3
<1>3. \A q \in Slots : HeldBy(q)' # NoMsg => send[HeldBy(q)'] = "done"
  BY <1>q, <1>h DEF OneCopy
<1>4. \A p, q \in Slots : HeldBy(p)' = HeldBy(q)' /\ HeldBy(p)' # NoMsg => p = q
  BY <1>q, <1>h DEF OneCopy, Held
<1> QED
  BY <1>1, <1>2, <1>3, <1>4 DEF OneCopy

LEMMA EffectOneCopy ==
    ASSUME TypeOK, OneCopy, UNCHANGED send, Effect
    PROVE  OneCopy'
<1>1. ASSUME HeldSame, UNCHANGED txQ PROVE OneCopy'
  <2>1. /\ \A m : Held(m)' <=> Held(m)
        /\ \A q \in Slots : HeldBy(q)' = HeldBy(q)
    BY <1>1 DEF HeldSame, Held
  <2> QED
    BY <1>1, <2>1 DEF OneCopy
<1>2. CASE TakesCancelled
  <2>1. /\ \A m : Held(m)' <=> Held(m)
        /\ \A q \in Slots : HeldBy(q)' = HeldBy(q)
    BY <1>2 DEF TakesCancelled, HeldSame, Held
  <2>2. \A i \in 1..Len(txQ') : i + 1 \in 1..Len(txQ) /\ txQ'[i] = txQ[i + 1]
    BY <1>2, HeadTaken DEF TakesCancelled
  <2> QED
    BY <2>1, <2>2 DEF OneCopy
<1>3. ASSUME NEW r \in Slots, LetsGo(r) PROVE OneCopy'
  <2>1. /\ \A n : n # NoMsg => (Held(n)' => Held(n))
        /\ \A q \in Slots : HeldBy(q)' = IF q = r THEN NoMsg ELSE HeldBy(q)
    BY <1>3 DEF LetsGo, HeldButFor, Held
  <2>2. \A i \in 1..Len(txQ) : txQ[i] # NoMsg
    BY QueueAssumption DEF TypeOK, QueuesTypeOK
  <2> QED
    BY <1>3, <2>1, <2>2 DEF OneCopy, LetsGo
<1> QED
  BY <1>1, <1>2, <1>3, TakesOneCopy DEF Effect, Chatters, Tells

\* A request that enters the queue was nowhere before.
LEMMA QueuedOneCopy ==
    ASSUME TypeOK, OneCopy, UNCHANGED run, NEW m \in Msgs, send[m] # "done",
           txQ' = Append(txQ, m), send' = [send EXCEPT ![m] = "done"]
    PROVE  OneCopy' /\ \A n : InTxQ(n)' <=> InTxQ(n) \/ n = m
<1>t. /\ txQ \in Seq(Msgs) /\ Len(txQ) \in Nat
      /\ \A n \in Msgs : send'[n] = IF n = m THEN "done" ELSE send[n]
  BY DEF TypeOK, QueuesTypeOK, ServiceTypeOK
<1>1. /\ \A r : HeldBy(r)' = HeldBy(r)
      /\ \A n : Held(n)' <=> Held(n)
  BY DEF HeldBy, Held
<1>2. /\ Len(txQ') = Len(txQ) + 1
      /\ \A k \in 1..Len(txQ') : txQ'[k] = IF k = Len(txQ) + 1 THEN m ELSE txQ[k]
      /\ \A n : InTxQ(n)' <=> InTxQ(n) \/ n = m
  <2>1. /\ Len(txQ') = Len(txQ) + 1
        /\ \A k \in 1..Len(txQ') : txQ'[k] = IF k = Len(txQ) + 1 THEN m ELSE txQ[k]
    BY <1>t
  <2> QED
    BY <1>t, <2>1 DEF InTxQ
<1>3. ~Held(m) /\ ~InTxQ(m) /\ \A k \in 1..Len(txQ) : txQ[k] # m
  <2>1. \A r \in Slots : HeldBy(r) # m
    BY QueueAssumption DEF OneCopy
  <2> QED
    BY <2>1 DEF Held, InTxQ, OneCopy
<1>4. \A n : send[n] = "done" => send'[n] = "done"
  BY <1>t DEF TypeOK, ServiceTypeOK
<1>5. \A i, j \in 1..Len(txQ') : txQ'[i] = txQ'[j] => i = j
  BY <1>t, <1>2, <1>3 DEF OneCopy
<1>6. \A i \in 1..Len(txQ') : send'[txQ'[i]] = "done" /\ ~Held(txQ[i])'
  BY <1>t, <1>1, <1>2, <1>3, <1>4 DEF OneCopy
<1> QED
  BY <1>1, <1>2, <1>4, <1>5, <1>6 DEF OneCopy

\* Handlers that leave the TX queue alone.
LEMMA HandlersOneCopy ==
    ASSUME OneCopy, UNCHANGED <<run, txQ>>, \A n : send[n] = "done" => send'[n] = "done"
    PROVE  OneCopy'
<1>1. (\A r : HeldBy(r)' = HeldBy(r)) /\ (\A n : Held(n)' <=> Held(n))
  BY DEF HeldBy, Held
<1> QED
  BY <1>1 DEF OneCopy

LEMMA OneCopyNext == TypeOK /\ OneCopy /\ [Next]_vars => OneCopy'
<1> SUFFICES ASSUME TypeOK, OneCopy, [Next]_vars PROVE OneCopy'
  OBVIOUS
<1>t. send \in [Msgs -> {"new", "stored", "blocked", "refused", "crashed", "done"}]
  BY DEF TypeOK, ServiceTypeOK
<1>1. CASE Worker
  <2>1. UNCHANGED send
    BY <1>1 DEF Worker, serviceVars
  <2>2. CASE WorkerExit \/ WorkerDies
    <3>1. txQ' = <<>> /\ \A r \in Slots : HeldBy(r)' = NoMsg
      BY <2>2 DEF WorkerExit, WorkerDies, Gone, HeldBy, NoThread, Busy
    <3> QED
      BY <3>1 DEF OneCopy
  <2>3. CASE ~(WorkerExit \/ WorkerDies)
    BY <1>1, <2>1, <2>3, WorkerEffect, EffectOneCopy DEF Worker
  <2> QED
    BY <2>2, <2>3
<1>2. CASE Service
  <2>k. UNCHANGED run
    BY <1>2 DEF Service, runnerVars
  <2>1. ASSUME NEW m \in Msgs, SendStep(m) PROVE OneCopy'
    <3>1. send[m] # "done"
      BY <2>1 DEF SendStep, Store, Enqueue, PutUnblocks, Refuse, Crash
    <3>2. CASE txQ' = Append(txQ, m) /\ send' = [send EXCEPT ![m] = "done"]
      BY <2>k, <3>1, <3>2, QueuedOneCopy
    <3>3. CASE UNCHANGED txQ
      <4>1. \E v \in {"stored", "blocked", "refused", "crashed", "done"} :
                send' = [send EXCEPT ![m] = v]
        BY <2>1 DEF SendStep, Store, Enqueue, PutUnblocks, Refuse, Crash
      <4>2. \A n : send[n] = "done" => send'[n] = "done"
        BY <1>t, <3>1, <4>1
      <4> QED
        BY <2>k, <3>3, <4>2, HandlersOneCopy
    <3> QED
      BY <2>1, <3>2, <3>3 DEF SendStep, Store, Enqueue, PutUnblocks, Refuse, Crash, shared
  <2>2. CASE UNCHANGED <<txQ, send>>
    BY <2>k, <2>2, HandlersOneCopy
  <2>3. ASSUME NEW m \in Msgs, CancelStep(m) PROVE UNCHANGED <<txQ, send>>
    BY <2>3 DEF CancelStep, CancelRead, CancelPut, CancelWrite, shared
  <2>4. ASSUME StationStep \/ MonitorStep PROVE UNCHANGED <<txQ, send>>
    BY <2>4 DEF StationStep, Start, StartBoot, StartPut, Stop, Retune, Waterfall, ClassicBoot,
                QuitSdr, Move, serviceVars, shared, MonitorStep, MonitorRead, MonitorWrite
  <2> QED
    BY <1>2, <2>1, <2>2, <2>3, <2>4 DEF Service, ServiceNext
<1>3. CASE UNCHANGED vars
  BY <1>3, HandlersOneCopy DEF vars, shared, runnerVars, serviceVars
<1> QED
  BY <1>1, <1>2, <1>3 DEF Next

\* However the worker is stopped, restarted or killed, a request is in one
\* place at most - the TX queue, or one TX thread - and only after the handler
\* that sends it is done (send_message, send_file, _tx_loop, _transmit).
THEOREM OneCopyCorrect == Spec => []OneCopy
<1>1. Init => OneCopy
  BY DEF Init, QueuesInit, RunnerInit, NoThread, Busy, OneCopy, HeldBy
<1> QED
  BY <1>1, OneCopyNext, TypeCorrect, PTL DEF Spec

\* A report that is made comes last.
LEMMA EmitSaid ==
    ASSUME TypeOK, UNCHANGED mon, NEW e, NEW m, Emit(e, m)
    PROVE  \E last \in Nat :
              /\ \A i \in Saying : i < last /\ i \in Nat /\ Said(i)' = Said(i)
              /\ Said(last)' = Event(e, m)
              /\ Saying' = Saying \cup {last}
              /\ \A n : \A i \in Nat :
                    Judged(n, i)' <=> Judged(n, i) \/ (i <= last /\ m = n /\ e \in Verdicts)
<1>1. evQ \in Seq(Events) /\ Len(evQ) \in Nat
  BY DEF TypeOK, QueuesTypeOK
<1> PICK last \in Nat : last = Len(evQ) + 1
  BY <1>1
<1>2. /\ Len(evQ') = last
      /\ \A i \in 1..last : evQ'[i] = IF i = last THEN Event(e, m) ELSE evQ[i]
  <2> DEFINE x == Event(e, m)
  <2>1. evQ' = Append(evQ, x)
    BY DEF Emit
  <2>2. evQ \in Seq(Events \cup {x})
    BY <1>1
  <2>3. /\ Len(evQ') = last
        /\ \A i \in 1..last : evQ'[i] = IF i = last THEN x ELSE evQ[i]
    <3> HIDE DEF x
    <3> QED
      BY <2>1, <2>2
  <2> QED
    BY <2>3
<1>3. /\ \A i \in Saying : i < last /\ i \in Nat /\ Said(i)' = Said(i)
      /\ Said(last)' = Event(e, m)
      /\ Saying' = Saying \cup {last}
  BY <1>1, <1>2 DEF Said, Saying
<1>4. ASSUME NEW n, NEW i \in Nat
      PROVE  Judged(n, i)' <=> Judged(n, i) \/ (i <= last /\ m = n /\ e \in Verdicts)
  <2>1. Said(last)'.msg = m /\ Said(last)'.ev = e
    BY <1>3 DEF Event
  <2>2. Judged(n, i)' <=> \E j \in Saying' : i <= j /\ Said(j)'.msg = n /\ Said(j)'.ev \in Verdicts
    BY DEF Judged
  <2>3. Judged(n, i) <=> \E j \in Saying : i <= j /\ Said(j).msg = n /\ Said(j).ev \in Verdicts
    BY DEF Judged
  <2> QED
    BY <1>3, <2>1, <2>2, <2>3
<1> QED
  BY <1>3, <1>4

LEMMA ChattersOnWay ==
    ASSUME TypeOK, OnWayInv, UNCHANGED <<send, status, mon>>, Chatters
    PROVE  OnWayInv'
<1>h. /\ \A m : Held(m)' <=> Held(m)
      /\ \A m : InTxQ(m)' <=> InTxQ(m)
      /\ \A r \in Slots : HeldBy(r)' = HeldBy(r)
  BY DEF Chatters, HeldSame, Held, InTxQ
<1>1. OneCopy'
  BY EffectOneCopy DEF OnWayInv, Effect
<1>2. CASE UNCHANGED evQ
  <2>1. /\ \A i : Said(i)' = Said(i)
        /\ Saying' = Saying
        /\ \A m, i : Judged(m, i)' <=> Judged(m, i)
    BY <1>2 DEF Said, Saying, Judged
  <2> QED
    BY <1>h, <1>1, <2>1 DEF OnWayInv, InOrder, Kept
<1>3. ASSUME NEW e \in {"echo", "station_error"}, NEW m \in Msgs \cup {NoMsg}, Emit(e, m)
      PROVE  OnWayInv'
  <2>0. e \notin TxStatuses /\ e \notin Verdicts /\ e \notin {"waiting", "sending"}
    BY DEF TxStatuses, Verdicts
  <2>1. PICK last \in Nat :
            /\ \A i \in Saying : i < last /\ i \in Nat /\ Said(i)' = Said(i)
            /\ Said(last)' = Event(e, m)
            /\ Saying' = Saying \cup {last}
            /\ \A n : \A i \in Nat : Judged(n, i)' <=> Judged(n, i)
    BY <1>3, <2>0, EmitSaid
  <2>2. Said(last)'.ev = e
    BY <2>1 DEF Event
  <2>3. InOrder'
    <3>1. \A i, j \in Saying' :
            i < j /\ Said(i)'.ev \in Verdicts /\ Said(j)'.msg = Said(i)'.msg
              => Said(j)'.ev \notin TxStatuses
      BY <2>0, <2>1, <2>2 DEF OnWayInv, InOrder
    <3> QED
      BY <1>h, <2>0, <2>1, <2>2, <3>1 DEF OnWayInv, InOrder
  <2>4. Kept'
    BY <1>h, <2>1 DEF OnWayInv, Kept
  <2> QED
    BY <1>1, <2>3, <2>4 DEF OnWayInv
<1> QED
  BY <1>2, <1>3 DEF Chatters

LEMMA TellsOnWay ==
    ASSUME TypeOK, OnWayInv, UNCHANGED <<send, status, mon>>, NEW r \in Slots, Tells(r)
    PROVE  OnWayInv'
<1> PICK m : m = HeldBy(r)
  OBVIOUS
<1>h. /\ \A n : Held(n)' <=> Held(n)
      /\ \A n : InTxQ(n)' <=> InTxQ(n)
      /\ \A q \in Slots : HeldBy(q)' = HeldBy(q)
      /\ Held(m) /\ send[m] = "done"
  BY DEF Tells, HeldSame, Held, InTxQ, OnWayInv, OneCopy
<1>i. ~InTxQ(m)
  BY <1>h DEF InTxQ, OnWayInv, OneCopy
<1>1. OneCopy'
  BY EffectOneCopy DEF OnWayInv, Effect
<1>2. PICK e \in {"waiting", "sending"} : Emit(e, m)
  BY DEF Tells
<1>3. e \notin Verdicts
  BY <1>2 DEF Verdicts
<1>4. PICK last \in Nat :
          /\ \A i \in Saying : i < last /\ i \in Nat /\ Said(i)' = Said(i)
          /\ Said(last)' = Event(e, m)
          /\ Saying' = Saying \cup {last}
          /\ \A n : \A i \in Nat : Judged(n, i)' <=> Judged(n, i)
  BY <1>2, <1>3, EmitSaid
<1>5. Said(last)'.ev = e /\ Said(last)'.msg = m
  BY <1>4 DEF Event
<1>6. InOrder'
  <2>1. \A i \in Saying : Said(i).ev \in Verdicts => Said(i).msg # m
    BY <1>h DEF OnWayInv, InOrder
  <2>2. \A i, j \in Saying' :
          i < j /\ Said(i)'.ev \in Verdicts /\ Said(j)'.msg = Said(i)'.msg
            => Said(j)'.ev \notin TxStatuses
    BY <1>3, <1>4, <1>5, <2>1 DEF OnWayInv, InOrder
  <2> QED
    BY <1>h, <1>i, <1>3, <1>4, <1>5, <2>2 DEF OnWayInv, InOrder
<1>7. Kept'
  BY <1>h, <1>4 DEF OnWayInv, Kept
<1> QED
  BY <1>1, <1>6, <1>7 DEF OnWayInv

LEMMA LetsGoOnWay ==
    ASSUME TypeOK, OnWayInv, UNCHANGED <<send, status, mon>>, NEW r \in Slots, LetsGo(r)
    PROVE  OnWayInv'
<1> PICK m : m = HeldBy(r)
  OBVIOUS
<1>h. /\ \A n : n # NoMsg => (Held(n)' <=> Held(n) /\ n # m)
      /\ \A n : InTxQ(n)' <=> InTxQ(n)
      /\ \A q \in Slots : HeldBy(q)' = IF q = r THEN NoMsg ELSE HeldBy(q)
      /\ Held(m) /\ send[m] = "done" /\ m # NoMsg
  BY DEF LetsGo, HeldButFor, Held, InTxQ, OnWayInv, OneCopy
<1>m. m \in Msgs /\ \A i \in Saying : Said(i).ev \in TxStatuses => Said(i).msg # NoMsg
  <2>1. m \in Msgs
    BY <1>h DEF HeldBy, TypeOK, RunnerTypeOK, Runner
  <2>2. \A i \in Saying : Said(i) \in Events \cup {NoEvent}
    BY DEF Said, Saying, TypeOK, QueuesTypeOK, ServiceTypeOK, Events
  <2> QED
    BY <2>1, <2>2, QueueAssumption DEF Events, Reports, NoEvent, Event, TxStatuses
<1>i. ~InTxQ(m) /\ \A i \in 1..Len(txQ) : txQ[i] # NoMsg
  BY <1>h, QueueAssumption DEF InTxQ, OnWayInv, OneCopy, TypeOK, QueuesTypeOK
<1>1. OneCopy'
  BY EffectOneCopy DEF OnWayInv, Effect
<1>2. PICK v \in Verdicts : Emit(v, m)
  BY DEF LetsGo
<1>3. v \in TxStatuses /\ v \notin {"waiting", "sending"} /\ Verdicts \subseteq TxStatuses
  BY <1>2 DEF Verdicts, TxStatuses
<1>4. PICK last \in Nat :
          /\ \A i \in Saying : i < last /\ i \in Nat /\ Said(i)' = Said(i)
          /\ Said(last)' = Event(v, m)
          /\ Saying' = Saying \cup {last}
          /\ \A n : \A i \in Nat : Judged(n, i)' <=> Judged(n, i) \/ (i <= last /\ m = n)
  BY <1>2, EmitSaid
<1>5. Said(last)'.ev = v /\ Said(last)'.msg = m
  BY <1>4 DEF Event
<1>6. InOrder'
  <2>1. \A i \in Saying : Said(i).ev \in Verdicts => Said(i).msg # m
    BY <1>h DEF OnWayInv, InOrder
  <2>2. \A i, j \in Saying' :
          i < j /\ Said(i)'.ev \in Verdicts /\ Said(j)'.msg = Said(i)'.msg
            => Said(j)'.ev \notin TxStatuses
    BY <1>3, <1>4, <1>5, <2>1 DEF OnWayInv, InOrder
  <2>3. \A i \in Saying' : Said(i)'.ev \in TxStatuses =>
            send'[Said(i)'.msg] = "done" /\ ~InTxQ(Said(i).msg)'
    BY <1>h, <1>i, <1>4, <1>5 DEF OnWayInv, InOrder
  <2>4. \A i \in Saying' : Said(i)'.ev \in Verdicts => ~Held(Said(i).msg)'
    BY <1>h, <1>m, <1>3, <1>4, <1>5 DEF OnWayInv, InOrder
  <2>5. \A i \in Saying' : Said(i)'.ev \in {"waiting", "sending"} =>
            Held(Said(i).msg)' \/ Judged(Said(i).msg, i)'
    <3> SUFFICES ASSUME NEW i \in Saying, Said(i)'.ev \in {"waiting", "sending"}
                 PROVE  Held(Said(i).msg)' \/ Judged(Said(i).msg, i)'
      BY <1>3, <1>4, <1>5
    <3>1. Said(i)' = Said(i) /\ Said(i).msg # NoMsg /\ i \in Nat /\ i <= last
      BY <1>m, <1>4 DEF TxStatuses
    <3>2. Held(Said(i).msg) \/ Judged(Said(i).msg, i)
      BY <3>1 DEF OnWayInv, InOrder
    <3> QED
      BY <1>h, <1>4, <3>1, <3>2
  <2> QED
    BY <2>2, <2>3, <2>4, <2>5 DEF InOrder
<1>7. Kept'
  <2> SUFFICES ASSUME NEW n \in Msgs, send[n] = "done", status[n] \in Pending
               PROVE  InTxQ(n)' \/ Held(n)' \/ Judged(n, 0)'
    BY DEF Kept
  <2> QED
    BY <1>h, <1>4, QueueAssumption DEF OnWayInv, Kept
<1> QED
  BY <1>1, <1>6, <1>7 DEF OnWayInv

\* The request that is taken was there once, and nothing is reported of it yet.
LEMMA TakenOnce ==
    ASSUME TypeOK, OnWayInv, txQ # <<>>, txQ' = Tail(txQ)
    PROVE  /\ Head(txQ) \in Msgs /\ send[Head(txQ)] = "done" /\ ~Held(Head(txQ))
           /\ \A n : InTxQ(n)' <=> InTxQ(n) /\ n # Head(txQ)
           /\ \A i \in 1..Len(txQ') : i + 1 \in 1..Len(txQ) /\ txQ'[i] = txQ[i + 1]
           /\ \A i \in Saying : Said(i).ev \in TxStatuses => Said(i).msg # Head(txQ)
<1>1. OneCopy
  BY DEF OnWayInv
<1>2. \A i \in Saying : Said(i).ev \in TxStatuses => Said(i).msg # Head(txQ)
  BY <1>1, HeadTaken DEF OnWayInv, InOrder
<1> QED
  BY <1>1, <1>2, HeadTaken

LEMMA TakesOnWay ==
    ASSUME TypeOK, OnWayInv, UNCHANGED <<send, status, mon>>, NEW r \in Slots, Takes(r)
    PROVE  OnWayInv'
<1> PICK m : m = Head(txQ)
  OBVIOUS
<1>q. /\ m \in Msgs /\ m # NoMsg /\ send[m] = "done" /\ ~Held(m)
      /\ \A n : InTxQ(n)' <=> InTxQ(n) /\ n # m
      /\ \A i \in 1..Len(txQ') : i + 1 \in 1..Len(txQ) /\ txQ'[i] = txQ[i + 1]
      /\ \A i \in Saying : Said(i).ev \in TxStatuses => Said(i).msg # m
  BY TakenOnce, QueueAssumption DEF Takes
<1>h. /\ \A q \in Slots : HeldBy(q)' = IF q = r THEN m ELSE HeldBy(q)
      /\ HeldBy(r) = NoMsg
      /\ \A n : n # NoMsg => (Held(n)' <=> Held(n) \/ n = m)
  BY DEF Takes, HeldButFor, Held
<1>1. OneCopy'
  BY EffectOneCopy DEF OnWayInv, Effect
<1>2. Emit("sending", m)
  BY DEF Takes
<1>3. PICK last \in Nat :
          /\ \A i \in Saying : i < last /\ i \in Nat /\ Said(i)' = Said(i)
          /\ Said(last)' = Event("sending", m)
          /\ Saying' = Saying \cup {last}
          /\ \A n : \A i \in Nat : Judged(n, i)' <=> Judged(n, i)
  BY <1>2, EmitSaid DEF Verdicts
<1>4. Said(last)'.ev = "sending" /\ Said(last)'.msg = m
  BY <1>3 DEF Event
<1>5. InOrder'
  <2>0. "sending" \notin Verdicts /\ Verdicts \subseteq TxStatuses
        /\ {"waiting", "sending"} \subseteq TxStatuses
    BY DEF Verdicts, TxStatuses
  <2>m. \A i \in Saying : Said(i).ev \in TxStatuses => Said(i).msg # NoMsg
    <3>1. \A i \in Saying : Said(i) \in Events \cup {NoEvent}
      BY DEF Said, Saying, TypeOK, QueuesTypeOK, ServiceTypeOK, Events
    <3> QED
      BY <3>1, QueueAssumption DEF Events, Reports, NoEvent, Event, TxStatuses
  <2>1. \A i \in Saying' : Said(i)'.ev \in TxStatuses =>
            send'[Said(i)'.msg] = "done" /\ ~InTxQ(Said(i).msg)'
    BY <1>q, <1>3, <1>4 DEF OnWayInv, InOrder
  <2>2. \A i \in Saying' : Said(i)'.ev \in Verdicts => ~Held(Said(i).msg)'
    <3> SUFFICES ASSUME NEW i \in Saying, Said(i)'.ev \in Verdicts PROVE ~Held(Said(i).msg)'
      BY <1>3, <1>4, <2>0
    <3>1. Said(i)' = Said(i) /\ Said(i).msg # m /\ Said(i).msg # NoMsg /\ ~Held(Said(i).msg)
      BY <1>q, <1>3, <2>0, <2>m DEF OnWayInv, InOrder
    <3> QED
      BY <1>h, <3>1
  <2>3. \A i, j \in Saying' :
          i < j /\ Said(i)'.ev \in Verdicts /\ Said(j)'.msg = Said(i)'.msg
            => Said(j)'.ev \notin TxStatuses
    BY <1>q, <1>3, <1>4, <2>0 DEF OnWayInv, InOrder
  <2>4. \A i \in Saying' : Said(i)'.ev \in {"waiting", "sending"} =>
            Held(Said(i).msg)' \/ Judged(Said(i).msg, i)'
    <3>1. ASSUME NEW i \in Saying, Said(i)'.ev \in {"waiting", "sending"}
          PROVE  Held(Said(i).msg)' \/ Judged(Said(i).msg, i)'
      <4>1. Said(i)' = Said(i) /\ Said(i).msg # NoMsg /\ i \in Nat
        BY <1>3, <2>0, <2>m, <3>1
      <4>2. Held(Said(i).msg) \/ Judged(Said(i).msg, i)
        BY <3>1, <4>1 DEF OnWayInv, InOrder
      <4> QED
        BY <1>h, <1>3, <4>1, <4>2
    <3>2. Held(Said(last).msg)'
      BY <1>q, <1>h, <1>4
    <3> QED
      BY <1>3, <3>1, <3>2
  <2> QED
    BY <2>1, <2>2, <2>3, <2>4 DEF InOrder
<1>6. Kept'
  <2> SUFFICES ASSUME NEW n \in Msgs, send[n] = "done", status[n] \in Pending
               PROVE  InTxQ(n)' \/ Held(n)' \/ Judged(n, 0)'
    BY DEF Kept
  <2> QED
    BY <1>h, <1>q, <1>3, QueueAssumption DEF OnWayInv, Kept
<1> QED
  BY <1>1, <1>5, <1>6 DEF OnWayInv

LEMMA TakesCancelledOnWay ==
    ASSUME TypeOK, OnWayInv, UNCHANGED <<send, status, mon>>, TakesCancelled
    PROVE  OnWayInv'
<1> PICK m : m = Head(txQ)
  OBVIOUS
<1>q. /\ m \in Msgs /\ m # NoMsg /\ send[m] = "done" /\ ~Held(m)
      /\ \A n : InTxQ(n)' <=> InTxQ(n) /\ n # m
      /\ \A i \in 1..Len(txQ') : i + 1 \in 1..Len(txQ) /\ txQ'[i] = txQ[i + 1]
      /\ \A i \in Saying : Said(i).ev \in TxStatuses => Said(i).msg # m
  BY TakenOnce, QueueAssumption DEF TakesCancelled
<1>h. /\ \A q \in Slots : HeldBy(q)' = HeldBy(q)
      /\ \A n : Held(n)' <=> Held(n)
  BY DEF TakesCancelled, HeldSame, Held
<1>1. OneCopy'
  BY EffectOneCopy DEF OnWayInv, Effect
<1>2. Emit("stopped", m) /\ "stopped" \in Verdicts
  BY DEF TakesCancelled, Verdicts
<1>3. PICK last \in Nat :
          /\ \A i \in Saying : i < last /\ i \in Nat /\ Said(i)' = Said(i)
          /\ Said(last)' = Event("stopped", m)
          /\ Saying' = Saying \cup {last}
          /\ \A n : \A i \in Nat : Judged(n, i)' <=> Judged(n, i) \/ (i <= last /\ m = n)
  BY <1>2, EmitSaid
<1>4. Said(last)'.ev = "stopped" /\ Said(last)'.msg = m
  BY <1>3 DEF Event
<1>5. InOrder'
  <2>0. Verdicts \subseteq TxStatuses /\ "stopped" \notin {"waiting", "sending"}
    BY DEF Verdicts, TxStatuses
  <2>1. \A i \in Saying' : Said(i)'.ev \in TxStatuses =>
            send'[Said(i)'.msg] = "done" /\ ~InTxQ(Said(i).msg)'
    BY <1>q, <1>3, <1>4 DEF OnWayInv, InOrder
  <2>2. \A i, j \in Saying' :
          i < j /\ Said(i)'.ev \in Verdicts /\ Said(j)'.msg = Said(i)'.msg
            => Said(j)'.ev \notin TxStatuses
    BY <1>q, <1>3, <1>4, <2>0 DEF OnWayInv, InOrder
  <2>3. \A i \in Saying' : Said(i)'.ev \in Verdicts => ~Held(Said(i).msg)'
    BY <1>h, <1>q, <1>3, <1>4 DEF OnWayInv, InOrder
  <2>4. \A i \in Saying' : Said(i)'.ev \in {"waiting", "sending"} =>
            Held(Said(i).msg)' \/ Judged(Said(i).msg, i)'
    BY <1>h, <1>3, <1>4, <2>0 DEF OnWayInv, InOrder
  <2> QED
    BY <2>1, <2>2, <2>3, <2>4 DEF InOrder
<1>6. Kept'
  BY <1>h, <1>q, <1>3 DEF OnWayInv, Kept
<1> QED
  BY <1>1, <1>5, <1>6 DEF OnWayInv

\* Steps of handlers that leave the queues alone and make no row pending.
LEMMA HandlersOnWay ==
    ASSUME OnWayInv, UNCHANGED <<run, txQ, evQ, mon>>,
           \A n \in Msgs : send'[n] = "done" /\ status'[n] \in Pending
                             => send[n] = "done" /\ status[n] \in Pending,
           \A n : send[n] = "done" => send'[n] = "done"
    PROVE  OnWayInv'
<1>1. /\ \A r : HeldBy(r)' = HeldBy(r)
      /\ \A n : Held(n)' <=> Held(n)
      /\ \A n : InTxQ(n)' <=> InTxQ(n)
      /\ \A i : Said(i)' = Said(i)
      /\ Saying' = Saying
      /\ \A n, i : Judged(n, i)' <=> Judged(n, i)
  BY DEF HeldBy, Held, InTxQ, Said, Saying, Judged
<1>2. OneCopy'
  BY HandlersOneCopy DEF OnWayInv
<1>3. InOrder'
  BY <1>1 DEF OnWayInv, InOrder
<1>4. Kept'
  BY <1>1 DEF OnWayInv, Kept
<1> QED
  BY <1>2, <1>3, <1>4 DEF OnWayInv

\* A request enters the queue when nothing was ever known of it.
LEMMA QueuedOnWay ==
    ASSUME TypeOK, OnWayInv, UNCHANGED <<run, evQ, mon, status>>,
           NEW m \in Msgs, send[m] # "done",
           txQ' = Append(txQ, m), send' = [send EXCEPT ![m] = "done"]
    PROVE  OnWayInv'
<1>t. /\ txQ \in Seq(Msgs) /\ Len(txQ) \in Nat
      /\ \A n \in Msgs : send'[n] = IF n = m THEN "done" ELSE send[n]
  BY DEF TypeOK, QueuesTypeOK, ServiceTypeOK
<1>1. /\ \A r : HeldBy(r)' = HeldBy(r)
      /\ \A n : Held(n)' <=> Held(n)
      /\ \A i : Said(i)' = Said(i)
      /\ Saying' = Saying
      /\ \A n, i : Judged(n, i)' <=> Judged(n, i)
  BY DEF HeldBy, Held, Said, Saying, Judged
<1>2. OneCopy' /\ \A n : InTxQ(n)' <=> InTxQ(n) \/ n = m
  BY QueuedOneCopy DEF OnWayInv
<1>3. \A n : send[n] = "done" => send'[n] = "done"
  BY <1>t DEF TypeOK, ServiceTypeOK
<1>4. InOrder'
  BY <1>1, <1>2, <1>3 DEF OnWayInv, InOrder
<1>5. Kept'
  BY <1>t, <1>1, <1>2 DEF OnWayInv, Kept
<1> QED
  BY <1>2, <1>4, <1>5 DEF OnWayInv

LEMMA MonitorReadOnWay ==
    ASSUME TypeOK, OnWayInv, MonitorRead, UNCHANGED run
    PROVE  OnWayInv'
<1>t. /\ evQ \in Seq(Events) /\ Len(evQ) \in Nat /\ Len(evQ) > 0
      /\ Len(evQ') = Len(evQ) - 1
      /\ \A i \in 1..Len(evQ') : i + 1 \in 1..Len(evQ) /\ evQ'[i] = evQ[i + 1]
      /\ Head(evQ) = evQ[1] /\ Head(evQ) \in Events
  BY DEF MonitorRead, TypeOK, QueuesTypeOK
<1>v. Verdicts \subseteq TxStatuses /\ "none" \notin TxStatuses /\ NoEvent.ev = "none"
      /\ "station_error" \notin TxStatuses /\ {"waiting", "sending"} \subseteq TxStatuses
  BY DEF Verdicts, TxStatuses, NoEvent, Event
<1>1. /\ \A r : HeldBy(r)' = HeldBy(r)
      /\ \A n : Held(n)' <=> Held(n)
      /\ \A n : InTxQ(n)' <=> InTxQ(n)
      /\ send' = send /\ status' = status
  BY DEF HeldBy, Held, InTxQ, MonitorRead
\* What was the i+1-st is the i-th, but the first may be dropped.
<1>2. /\ \A i \in Saying' : i \in Nat /\ i + 1 \in Saying
      /\ \A i \in Saying' : i # 0 => Said(i)' = Said(i + 1)
      /\ Said(0)' \in {Said(1), NoEvent}
      /\ 0 \in Saying' /\ 1 \in Saying /\ Said(1) = Head(evQ)
      /\ \A i \in Saying : i # 0 => i - 1 \in Saying'
      /\ Said(0) = NoEvent /\ \A i \in Saying : i \in Nat
  BY <1>t DEF Said, Saying, MonitorRead
<1>d. Said(0)' = NoEvent /\ Said(1).ev \in TxStatuses
        => status[Said(1).msg] \notin Pending
  BY <1>2, <1>v DEF MonitorRead, Dropped, Said, NoEvent, Event, TxStatuses, Pending, Events, Reports
<1>3. \A i \in Saying' : Said(i)'.ev \in TxStatuses => Said(i)' = Said(i + 1)
  BY <1>2, <1>v
<1>4. ASSUME NEW n \in Msgs, NEW i \in Saying', Judged(n, i + 1),
             i = 0 => status[n] \in Pending \/ Said(0)' = Said(1)
      PROVE  Judged(n, i)'
  <2>1. PICK j \in Saying : i + 1 <= j /\ Said(j).msg = n /\ Said(j).ev \in Verdicts
    BY <1>4 DEF Judged
  <2>2. j - 1 \in Saying' /\ i <= j - 1 /\ j # 0
    BY <1>2, <2>1
  <2>3. Said(j - 1)' = Said(j)
    <3>1. CASE j = 1
      BY <1>2, <1>4, <1>d, <1>v, <2>1, <2>2, <3>1
    <3>2. CASE j # 1
      <4>1. j - 1 # 0 /\ (j - 1) + 1 = j
        BY <1>2, <2>1, <3>2
      <4> QED
        BY <1>2, <2>2, <4>1
    <3> QED
      BY <3>1, <3>2
  <2>4. PICK k : k = j - 1
    OBVIOUS
  <2> QED
    BY <2>1, <2>2, <2>3, <2>4 DEF Judged
<1>5. InOrder'
  <2>1. \A i \in Saying' : Said(i)'.ev \in TxStatuses =>
            send'[Said(i)'.msg] = "done" /\ ~InTxQ(Said(i).msg)'
    BY <1>1, <1>2, <1>3 DEF OnWayInv, InOrder
  <2>2. \A i \in Saying' : Said(i)'.ev \in Verdicts => ~Held(Said(i).msg)'
    BY <1>1, <1>2, <1>3, <1>v DEF OnWayInv, InOrder
  <2>3. \A i, j \in Saying' :
          i < j /\ Said(i)'.ev \in Verdicts /\ Said(j)'.msg = Said(i)'.msg
            => Said(j)'.ev \notin TxStatuses
    <3> SUFFICES ASSUME NEW i \in Saying', NEW j \in Saying', i < j, Said(i)'.ev \in Verdicts,
                        Said(j)'.msg = Said(i)'.msg, Said(j)'.ev \in TxStatuses
                 PROVE  FALSE
      OBVIOUS
    <3>1. Said(i)' = Said(i + 1) /\ Said(j)' = Said(j + 1)
      BY <1>3, <1>v
    <3>2. i + 1 \in Saying /\ j + 1 \in Saying /\ i + 1 < j + 1
      BY <1>2
    <3> QED
      BY <3>1, <3>2 DEF OnWayInv, InOrder
  <2>4. \A i \in Saying' : Said(i)'.ev \in {"waiting", "sending"} =>
            Held(Said(i).msg)' \/ Judged(Said(i).msg, i)'
    <3> SUFFICES ASSUME NEW i \in Saying', Said(i)'.ev \in {"waiting", "sending"}
                 PROVE  Held(Said(i).msg)' \/ Judged(Said(i).msg, i)'
      OBVIOUS
    <3>1. Said(i)' = Said(i + 1) /\ i + 1 \in Saying
      BY <1>2, <1>3, <1>v
    <3>2. Held(Said(i + 1).msg) \/ Judged(Said(i + 1).msg, i + 1)
      BY <3>1 DEF OnWayInv, InOrder
    <3>3. PICK n : n = Said(i + 1).msg
      OBVIOUS
    <3>4. n \in Msgs
      <4>1. Said(i + 1) \in Events
        BY <1>2, <1>t DEF Said, Saying
      <4> QED
        BY <3>1, <3>3, <4>1 DEF Events, Reports
    <3>5. i = 0 => Said(0)' = Said(1)
      BY <3>1
    <3>6. Held(n)' \/ Judged(n, i)'
      BY <1>1, <1>4, <3>2, <3>3, <3>4, <3>5
    <3> QED
      BY <3>1, <3>3, <3>6
  <2> QED
    BY <2>1, <2>2, <2>3, <2>4 DEF InOrder
<1>6. OneCopy'
  BY <1>1 DEF OnWayInv, OneCopy, MonitorRead
<1>7. Kept'
  <2> SUFFICES ASSUME NEW n \in Msgs, send[n] = "done", status[n] \in Pending
               PROVE  InTxQ(n)' \/ Held(n)' \/ Judged(n, 0)'
    BY <1>1 DEF Kept
  <2>1. CASE Judged(n, 0)
    <3>1. Judged(n, 0 + 1)
      BY <1>2, <1>v, <2>1 DEF Judged
    <3> QED
      BY <1>2, <1>4, <3>1
  <2>2. CASE InTxQ(n) \/ Held(n)
    BY <1>1, <2>2
  <2> QED
    BY <2>1, <2>2 DEF OnWayInv, Kept
<1> QED
  BY <1>5, <1>6, <1>7 DEF OnWayInv

LEMMA MonitorWriteOnWay ==
    ASSUME TypeOK, OnWayInv, MonitorWrite, UNCHANGED run
    PROVE  OnWayInv'
<1>t. /\ status \in [Msgs -> {"none", "queued", "confirmed"} \cup TxStatuses]
      /\ mon \in Reports /\ mon.msg \in Msgs /\ mon.ev \in TxStatuses \cup {"echo"}
      /\ Len(evQ) \in Nat
  BY DEF MonitorWrite, TypeOK, ServiceTypeOK, QueuesTypeOK, Reports
<1>v. Verdicts \subseteq TxStatuses /\ NoEvent.ev \notin TxStatuses
      /\ {"waiting", "sending"} \subseteq TxStatuses
      /\ Pending \cap Verdicts = {} /\ {"waiting", "sending"} \cap Verdicts = {}
      /\ "confirmed" \notin Pending /\ TxStatuses = {"waiting", "sending"} \cup Verdicts
  BY DEF Verdicts, TxStatuses, NoEvent, Event, Pending
<1>1. /\ \A r : HeldBy(r)' = HeldBy(r)
      /\ \A n : Held(n)' <=> Held(n)
      /\ \A n : InTxQ(n)' <=> InTxQ(n)
      /\ send' = send
  BY DEF HeldBy, Held, InTxQ, MonitorWrite, shared
<1>2. /\ Saying' = Saying /\ 0 \in Saying /\ \A i \in Saying : i \in Nat
      /\ Said(0)' = NoEvent /\ Said(0) = mon
      /\ \A i \in Saying : i # 0 => Said(i)' = Said(i)
  BY <1>t DEF Said, Saying, MonitorWrite, shared
<1>3. ASSUME NEW n, NEW i \in Saying, Judged(n, i),
             i = 0 => mon.msg # n \/ mon.ev \notin Verdicts
      PROVE  Judged(n, i)'
  <2>1. PICK j \in Saying : i <= j /\ Said(j).msg = n /\ Said(j).ev \in Verdicts
    BY <1>3 DEF Judged
  <2>2. j # 0
    BY <1>2, <1>3, <2>1
  <2> QED
    BY <1>2, <2>1, <2>2 DEF Judged
<1>4. OneCopy'
  BY <1>1 DEF OnWayInv, OneCopy, MonitorWrite, shared
<1>5. InOrder'
  <2>1. \A i \in Saying' : Said(i)'.ev \in TxStatuses => i # 0 /\ Said(i)' = Said(i)
    BY <1>2, <1>v
  <2>2. \A i \in Saying' : Said(i)'.ev \in TxStatuses =>
            send'[Said(i)'.msg] = "done" /\ ~InTxQ(Said(i).msg)'
    BY <1>1, <1>2, <2>1 DEF OnWayInv, InOrder
  <2>3. \A i \in Saying' : Said(i)'.ev \in Verdicts => ~Held(Said(i).msg)'
    BY <1>1, <1>2, <1>v, <2>1 DEF OnWayInv, InOrder
  <2>4. \A i, j \in Saying' :
          i < j /\ Said(i)'.ev \in Verdicts /\ Said(j)'.msg = Said(i)'.msg
            => Said(j)'.ev \notin TxStatuses
    BY <1>2, <1>v, <2>1 DEF OnWayInv, InOrder
  <2>5. \A i \in Saying' : Said(i)'.ev \in {"waiting", "sending"} =>
            Held(Said(i).msg)' \/ Judged(Said(i).msg, i)'
    <3> SUFFICES ASSUME NEW i \in Saying, Said(i)'.ev \in {"waiting", "sending"}
                 PROVE  Held(Said(i).msg)' \/ Judged(Said(i).msg, i)'
      BY <1>2
    <3>1. i # 0 /\ Said(i)' = Said(i)
      BY <1>2, <1>v, <2>1
    <3>2. PICK n : n = Said(i).msg
      OBVIOUS
    <3>3. Held(n) \/ Judged(n, i)
      BY <3>1, <3>2 DEF OnWayInv, InOrder
    <3>4. Held(n)' \/ Judged(n, i)'
      BY <1>1, <1>3, <3>1, <3>3
    <3> QED
      BY <3>1, <3>2, <3>4
  <2> QED
    BY <2>2, <2>3, <2>4, <2>5 DEF InOrder
<1>6. Kept'
  <2> SUFFICES ASSUME NEW n \in Msgs, send[n] = "done", status'[n] \in Pending
               PROVE  InTxQ(n)' \/ Held(n)' \/ Judged(n, 0)'
    BY <1>1 DEF Kept
  <2>1. CASE n # mon.msg
    <3>1. status[n] \in Pending
      BY <1>t, <2>1 DEF MonitorWrite
    <3> QED
      BY <1>1, <1>2, <1>3, <2>1, <3>1 DEF OnWayInv, Kept
  <2>2. CASE n = mon.msg
    <3>1. mon.ev \in {"waiting", "sending"}
      BY <1>t, <1>v, <2>2 DEF MonitorWrite
    <3>2. Held(n) \/ Judged(n, 0)
      BY <1>2, <2>2, <3>1 DEF OnWayInv, InOrder
    <3> QED
      BY <1>1, <1>2, <1>3, <1>v, <3>1, <3>2
  <2> QED
    BY <2>1, <2>2
<1> QED
  BY <1>4, <1>5, <1>6 DEF OnWayInv

LEMMA ServiceOnWay ==
    ASSUME TypeOK, OnWayInv, ServiceNext, UNCHANGED runnerVars, "flush" \notin Moves
    PROVE  OnWayInv'
<1>t. /\ send \in [Msgs -> {"new", "stored", "blocked", "refused", "crashed", "done"}]
      /\ status \in [Msgs -> {"none", "queued", "confirmed"} \cup TxStatuses]
  BY DEF TypeOK, ServiceTypeOK
<1>k. UNCHANGED run
  BY DEF runnerVars
<1>1. ASSUME NEW m \in Msgs, Store(m) \/ Refuse(m) \/ Crash(m) PROVE OnWayInv'
  <2>1. UNCHANGED <<txQ, evQ, mon>>
    BY <1>1 DEF Store, Refuse, Crash, shared
  <2>s. \E v \in {"stored", "refused", "done", "crashed"} :
            send[m] # "done" /\ send' = [send EXCEPT ![m] = v]
    BY <1>1 DEF Store, Refuse, Crash
  <2>d. \A n : send[n] = "done" => send'[n] = "done"
    BY <1>t, <2>s
  <2>2. \A n \in Msgs : send'[n] = "done" /\ status'[n] \in Pending
                          => send[n] = "done" /\ status[n] \in Pending
    BY <1>1, <1>t DEF Store, Refuse, Crash, Pending
  <2> QED
    BY <1>k, <2>1, <2>d, <2>2, HandlersOnWay
<1>2. ASSUME NEW m \in Msgs, Enqueue(m) \/ PutUnblocks(m) PROVE OnWayInv'
  <2>1. UNCHANGED <<evQ, mon, status>> /\ send[m] # "done"
    BY <1>2 DEF Enqueue, PutUnblocks
  <2>2. CASE txQ' = Append(txQ, m) /\ send' = [send EXCEPT ![m] = "done"]
    BY <1>k, <2>1, <2>2, QueuedOnWay
  <2>3. CASE txQ' = txQ /\ send' = [send EXCEPT ![m] = "blocked"]
    <3>1. \A n \in Msgs : send'[n] = "done" /\ status'[n] \in Pending
                            => send[n] = "done" /\ status[n] \in Pending
      BY <1>t, <2>1, <2>3
    <3>2. \A n : send[n] = "done" => send'[n] = "done"
      BY <1>t, <2>1, <2>3
    <3> QED
      BY <1>k, <2>1, <2>3, <3>1, <3>2, HandlersOnWay
  <2> QED
    BY <1>2, <2>2, <2>3 DEF Enqueue, PutUnblocks
<1>3. ASSUME NEW m \in Msgs, CancelStep(m) PROVE OnWayInv'
  <2>1. UNCHANGED <<txQ, evQ, mon, send>>
    BY <1>3 DEF CancelStep, CancelRead, CancelPut, CancelWrite, shared
  <2>2. \A n \in Msgs : status'[n] \in Pending => status[n] \in Pending
    BY <1>3, <1>t DEF CancelStep, CancelRead, CancelPut, CancelWrite, Pending
  <2> QED
    BY <1>k, <2>1, <2>2, HandlersOnWay
<1>4. CASE StationStep
  <2>1. UNCHANGED <<txQ, evQ, mon, send, status>>
    BY <1>4 DEF StationStep, Start, StartBoot, StartPut, Stop, Retune, Waterfall, ClassicBoot,
                QuitSdr, Move, serviceVars
  <2> QED
    BY <1>k, <2>1, HandlersOnWay
<1>5. CASE MonitorStep
  BY <1>k, <1>5, MonitorReadOnWay, MonitorWriteOnWay DEF MonitorStep
<1> QED
  BY <1>1, <1>2, <1>3, <1>4, <1>5 DEF ServiceNext, SendStep

\* While the process runs, a row that is queued, waiting or sending is in the TX
\* queue, with a thread, or about to be settled by a report: no path through
\* _transmit, stop, cancel or a retune loses a request.  A process that ends takes
\* its queue with it ("die", "quit"), and update_configuration empties the reports
\* ("flush"): without those three, for any number of rows, runners and moves.
THEOREM PendingAlwaysOnItsWay ==
    ASSUME "die" \notin Moves, "quit" \notin Moves, "flush" \notin Moves
    PROVE  Spec => []PendingIsOnItsWay
<1> DEFINE Inv == OnWayInv /\ StaysUp
<1>1. Init => Inv
  <2> SUFFICES ASSUME Init PROVE Inv
    OBVIOUS
  <2>0. /\ txQ = <<>> /\ evQ = <<>> /\ mon = NoEvent /\ proc = "down" /\ main.pc # "join"
        /\ \A r \in Slots : run[r].pc \notin Busy
        /\ \A m \in Msgs : send[m] = "new"
    BY DEF Init, QueuesInit, RunnerInit, ServiceInit, NoThread, Busy
  <2>1. OneCopy /\ Kept /\ StaysUp
    BY <2>0 DEF OneCopy, HeldBy, Kept, StaysUp
  <2>2. Saying = {0} /\ Said(0).ev = "none"
    BY <2>0 DEF Saying, Said, NoEvent, Event
  <2>3. InOrder
    BY <2>2 DEF InOrder, TxStatuses, Verdicts
  <2> QED
    BY <2>1, <2>3 DEF OnWayInv
<1>2. TypeOK /\ Inv /\ [Next]_vars => Inv'
  <2> SUFFICES ASSUME TypeOK, Inv, [Next]_vars PROVE Inv'
    OBVIOUS
  <2>1. StaysUp' /\ ~WorkerExit /\ ~WorkerDies
    BY StaysUpNext
  <2>2. CASE Worker
    <3>1. UNCHANGED <<send, status, mon>>
      BY <2>2 DEF Worker, serviceVars
    <3>2. Effect
      BY <2>1, <2>2, WorkerEffect DEF Worker
    <3> QED
      BY <2>1, <3>1, <3>2, ChattersOnWay, TakesOnWay, TakesCancelledOnWay, TellsOnWay,
         LetsGoOnWay DEF Effect
  <2>3. CASE Service
    BY <2>1, <2>3, ServiceOnWay DEF Service
  <2>4. CASE UNCHANGED vars
    <3>1. UNCHANGED <<run, txQ, evQ, mon, send, status>>
      BY <2>4 DEF vars, shared, runnerVars, serviceVars
    <3> QED
      BY <2>1, <3>1, HandlersOnWay
  <2> QED
    BY <2>2, <2>3, <2>4 DEF Next
<1>3. TypeOK /\ Inv => PendingIsOnItsWay
  BY OnWayImplies
<1> QED
  BY <1>1, <1>2, <1>3, TypeCorrect, PTL DEF Spec
-----------------------------------------------------------------------------
(* A request is lost only with the process or with the reports.            *)

OnWay(m) == InTxQ(m) \/ Held(m) \/ Judged(m, 0)
Flushes == Waterfall /\ Move("flush")

\* Reports that are added leave the verdicts that were there.
LEMMA JudgedKept ==
    ASSUME TypeOK, UNCHANGED mon, NEW m, Judged(m, 0),
           UNCHANGED evQ \/ \E e, x : Emit(e, x)
    PROVE  Judged(m, 0)'
<1>1. CASE UNCHANGED evQ
  BY <1>1 DEF Judged, Said, Saying
<1>2. ASSUME NEW e, NEW x, Emit(e, x) PROVE Judged(m, 0)'
  <2>1. PICK last \in Nat : \A n : \A i \in Nat :
            Judged(n, i)' <=> Judged(n, i) \/ (i <= last /\ x = n /\ e \in Verdicts)
    BY <1>2, EmitSaid
  <2> QED
    BY <2>1
<1> QED
  BY <1>1, <1>2

LEMMA VerdictJudges ==
    ASSUME TypeOK, UNCHANGED mon, NEW m, NEW v \in Verdicts, Emit(v, m)
    PROVE  Judged(m, 0)'
<1>1. PICK last \in Nat : \A n : \A i \in Nat :
          Judged(n, i)' <=> Judged(n, i) \/ (i <= last /\ m = n /\ v \in Verdicts)
  BY EmitSaid
<1> QED
  BY <1>1

LEMMA EffectKeepsWay ==
    ASSUME TypeOK, OneCopy, UNCHANGED mon, Effect, NEW m \in Msgs, OnWay(m)
    PROVE  OnWay(m)'
<1>j. Judged(m, 0) => Judged(m, 0)'
  BY JudgedKept DEF Effect, Chatters, Takes, TakesCancelled, Tells, LetsGo
<1>1. ASSUME HeldSame, UNCHANGED txQ PROVE OnWay(m)'
  <2>1. (InTxQ(m) => InTxQ(m)') /\ (Held(m) => Held(m)')
    BY <1>1 DEF HeldSame, Held, InTxQ
  <2> QED
    BY <1>j, <2>1 DEF OnWay
<1>2. ASSUME NEW r \in Slots, Takes(r) PROVE OnWay(m)'
  <2> PICK h : h = Head(txQ)
    OBVIOUS
  <2>1. InTxQ(m) => InTxQ(m)' \/ m = h
    BY <1>2, HeadTaken DEF Takes
  <2>2. Held(h)'
    BY <1>2 DEF Takes, Held
  <2>3. Held(m) => Held(m)'
    BY <1>2, QueueAssumption DEF Takes, Held, HeldButFor
  <2> QED
    BY <1>j, <2>1, <2>2, <2>3 DEF OnWay
<1>3. CASE TakesCancelled
  <2> PICK h : h = Head(txQ)
    OBVIOUS
  <2>1. InTxQ(m) => InTxQ(m)' \/ m = h
    BY <1>3, HeadTaken DEF TakesCancelled
  <2>2. Judged(h, 0)'
    BY <1>3, VerdictJudges DEF TakesCancelled, Verdicts
  <2>3. Held(m) => Held(m)'
    BY <1>3 DEF TakesCancelled, Held, HeldSame
  <2> QED
    BY <1>j, <2>1, <2>2, <2>3 DEF OnWay
<1>4. ASSUME NEW r \in Slots, LetsGo(r) PROVE OnWay(m)'
  <2> PICK h : h = HeldBy(r)
    OBVIOUS
  <2>1. InTxQ(m) => InTxQ(m)'
    BY <1>4 DEF LetsGo, InTxQ
  <2>2. Judged(h, 0)'
    BY <1>4, VerdictJudges DEF LetsGo
  <2>3. Held(m) => Held(m)' \/ m = h
    BY <1>4 DEF LetsGo, Held, HeldButFor
  <2> QED
    BY <1>j, <2>1, <2>2, <2>3 DEF OnWay
<1> QED
  BY <1>1, <1>2, <1>3, <1>4 DEF Effect, Chatters, Tells

\* The monitor drops a verdict only of a row that is settled already.
LEMMA MonitorKeepsWay ==
    ASSUME TypeOK, MonitorStep, UNCHANGED run, NEW m \in Msgs, OnWay(m), status'[m] \in Pending
    PROVE  OnWay(m)'
<1>1. (InTxQ(m) => InTxQ(m)') /\ (Held(m) => Held(m)')
  BY DEF MonitorStep, MonitorRead, MonitorWrite, shared, InTxQ, Held, HeldBy
<1>2. ASSUME Judged(m, 0) PROVE Judged(m, 0)'
  <2>t. /\ evQ \in Seq(Events) /\ Len(evQ) \in Nat
        /\ status \in [Msgs -> {"none", "queued", "confirmed"} \cup TxStatuses]
    BY DEF TypeOK, QueuesTypeOK, ServiceTypeOK
  <2>j. PICK j \in Saying : Said(j).msg = m /\ Said(j).ev \in Verdicts
    BY <1>2 DEF Judged
  <2>1. CASE MonitorRead
    <3>1. /\ Len(evQ) > 0 /\ Len(evQ') = Len(evQ) - 1 /\ Head(evQ) = evQ[1]
          /\ \A i \in 1..Len(evQ') : i + 1 \in 1..Len(evQ) /\ evQ'[i] = evQ[i + 1]
      BY <2>1, <2>t DEF MonitorRead
    <3>2. j \in 1..Len(evQ) /\ Said(j) = evQ[j]
      <4>1. NoEvent.ev \notin Verdicts
        BY DEF NoEvent, Event, Verdicts
      <4> QED
        BY <2>1, <2>j, <2>t, <4>1 DEF MonitorRead, Said, Saying
    <3>3. CASE j = 1
      <4>1. Said(j).ev \in TxStatuses /\ Said(j).ev # "station_error" /\ Said(j).ev # "echo"
        BY <2>j DEF Verdicts, TxStatuses
      <4>2. ~Dropped(Head(evQ))
        BY <2>1, <2>j, <3>1, <3>2, <3>3, <4>1 DEF Dropped, MonitorRead, Pending
      <4>3. mon' = Said(j)
        BY <2>1, <3>1, <3>2, <3>3, <4>1, <4>2 DEF MonitorRead
      <4>4. Said(0)' = Said(j) /\ 0 \in Saying'
        BY <2>t, <3>1, <4>3 DEF Said, Saying
      <4> QED
        BY <2>j, <4>4 DEF Judged
    <3>4. CASE j # 1
      <4>1. j - 1 \in 1..Len(evQ') /\ j - 1 # 0 /\ (j - 1) + 1 = j
        BY <2>t, <3>1, <3>2, <3>4
      <4>2. Said(j - 1)' = Said(j) /\ j - 1 \in Saying' /\ 0 <= j - 1
        BY <2>t, <3>1, <3>2, <4>1 DEF Said, Saying
      <4>3. PICK k : k = j - 1
        OBVIOUS
      <4> QED
        BY <2>j, <4>2, <4>3 DEF Judged
    <3> QED
      BY <3>3, <3>4
  <2>2. CASE MonitorWrite
    <3>1. j # 0
      <4>1. ASSUME j = 0 PROVE FALSE
        <5>1. mon.msg = m /\ mon.ev \in Verdicts
          BY <2>j, <4>1 DEF Said
        <5>2. status'[m] = mon.ev
          BY <2>2, <2>t, <5>1 DEF MonitorWrite, Verdicts
        <5> QED
          BY <5>1, <5>2 DEF Verdicts, Pending
      <4> QED
        BY <4>1
    <3>2. Said(j)' = Said(j) /\ Saying' = Saying
      BY <2>2, <3>1 DEF MonitorWrite, shared, Said, Saying
    <3> QED
      BY <2>j, <2>t, <3>2 DEF Judged, Saying
  <2> QED
    BY <2>1, <2>2 DEF MonitorStep
<1> QED
  BY <1>1, <1>2 DEF OnWay

LEMMA WayKept ==
    ASSUME TypeOK, OneCopy, [Next]_vars, ~WorkerExit, ~WorkerDies, ~Flushes,
           NEW m \in Msgs, OnWay(m), status'[m] \in Pending
    PROVE  OnWay(m)'
<1>0. ASSUME UNCHANGED <<run, evQ, mon>>, InTxQ(m) => InTxQ(m)' PROVE OnWay(m)'
  BY <1>0 DEF OnWay, Held, HeldBy, Judged, Said, Saying
<1>1. CASE Worker
  <2>1. UNCHANGED mon /\ Effect
    BY <1>1, WorkerEffect DEF Worker, serviceVars
  <2> QED
    BY <2>1, EffectKeepsWay
<1>2. CASE Service
  <2>1. UNCHANGED run
    BY <1>2 DEF Service, runnerVars
  <2>2. ASSUME NEW n \in Msgs, SendStep(n) PROVE OnWay(m)'
    <3>1. UNCHANGED <<evQ, mon>>
      BY <2>2 DEF SendStep, Store, Enqueue, PutUnblocks, Refuse, Crash, shared
    <3>2. UNCHANGED txQ \/ (txQ' = Append(txQ, n) /\ send[n] # "done" /\ send' = [send EXCEPT ![n] = "done"])
      BY <2>2 DEF SendStep, Store, Enqueue, PutUnblocks, Refuse, Crash, shared
    <3>3. InTxQ(m) => InTxQ(m)'
      <4>1. CASE UNCHANGED txQ
        BY <4>1 DEF InTxQ
      <4>2. CASE txQ' = Append(txQ, n) /\ send[n] # "done" /\ send' = [send EXCEPT ![n] = "done"]
        BY <2>1, <4>2, QueuedOneCopy
      <4> QED
        BY <3>2, <4>1, <4>2
    <3> QED
      BY <1>0, <2>1, <3>1, <3>3
  <2>3. ASSUME StationStep \/ \E n \in Msgs : CancelStep(n) PROVE OnWay(m)'
    <3>1. UNCHANGED <<evQ, mon, txQ>>
      BY <2>3 DEF StationStep, Start, StartBoot, StartPut, Stop, Retune, Waterfall, ClassicBoot,
                  QuitSdr, serviceVars, shared, CancelStep, CancelRead, CancelPut, CancelWrite, Flushes
    <3> QED
      BY <1>0, <2>1, <3>1 DEF InTxQ
  <2>4. CASE MonitorStep
    BY <2>1, <2>4, MonitorKeepsWay
  <2> QED
    BY <1>2, <2>2, <2>3, <2>4 DEF Service, ServiceNext
<1>3. CASE UNCHANGED vars
  BY <1>0, <1>3 DEF vars, shared, runnerVars, serviceVars, InTxQ
<1> QED
  BY <1>1, <1>2, <1>3 DEF Next

\* With every fault and every move: a request that is queued, with a TX thread or
\* reported of loses its place in a step only if its row is settled in that step
\* (or by a report earlier), the worker process ends, or update_configuration
\* empties the reports.  These are all the ways a row can be stranded.
THEOREM WayLostOnlyWithTheProcess ==
    Spec => [][\A m \in Msgs : OnWay(m) /\ status'[m] \in Pending
                  => OnWay(m)' \/ WorkerExit \/ WorkerDies \/ Flushes]_vars
<1>1. TypeOK /\ OneCopy /\ [Next]_vars
        => [\A m \in Msgs : OnWay(m) /\ status'[m] \in Pending
                => OnWay(m)' \/ WorkerExit \/ WorkerDies \/ Flushes]_vars
  BY WayKept
<1> QED
  BY <1>1, OneCopyCorrect, TypeCorrect, PTL DEF Spec
-----------------------------------------------------------------------------
(* A stopped message stays off the air while its runner lives.             *)

\* The station is not stopped, retuned or restarted, and the command comes when
\* there is one: what cancel_tx relies on and nothing assures.
RunnerStays == Running => main'.cur = main.cur
CancelsReach == \A m \in Msgs : canc[m] = "put" => Running

Ordered(m) == CancelCommand(m) \in Range(cfgQ)
Through(m) == send[m] \in {"done", "crashed"} /\ ~InTxQ(m) /\ ~Held(m)

\* Once ordered, a cancel is on its way to the runner, in its cancel set, or
\* there is nothing left to cancel.
CancelHeld ==
    \A m \in Msgs : canc[m] \in {"put", "done"} =>
        Running /\ (Ordered(m) \/ m \in run[main.cur].cancelled \/ Through(m))

\* What has come through is not queued again.
LEMMA ThroughStays ==
    ASSUME TypeOK, OneCopy, [Next]_vars, NEW m \in Msgs, Through(m)
    PROVE  Through(m)'
<1>m. m # NoMsg /\ send \in [Msgs -> {"new", "stored", "blocked", "refused", "crashed", "done"}]
  BY QueueAssumption DEF TypeOK, ServiceTypeOK
<1>0. ASSUME UNCHANGED <<run, txQ>>, send'[m] = send[m] PROVE Through(m)'
  BY <1>0 DEF Through, InTxQ, Held, HeldBy
<1>1. CASE Worker
  <2>1. UNCHANGED send
    BY <1>1 DEF Worker, serviceVars
  <2>2. CASE WorkerExit \/ WorkerDies
    <3>1. txQ' = <<>> /\ \A r \in Slots : HeldBy(r)' = NoMsg
      BY <2>2 DEF WorkerExit, WorkerDies, Gone, HeldBy, NoThread, Busy
    <3> QED
      BY <1>m, <2>1, <3>1 DEF Through, InTxQ, Held
  <2>3. CASE Effect
    <3>1. ASSUME HeldSame, UNCHANGED txQ PROVE Through(m)'
      BY <2>1, <3>1 DEF Through, InTxQ, Held, HeldSame
    <3>2. ASSUME NEW r \in Slots, Takes(r) PROVE Through(m)'
      <4> PICK h : h = Head(txQ)
        OBVIOUS
      <4>1. m # h /\ ~InTxQ(m)'
        BY <3>2, HeadTaken DEF Takes, Through
      <4>2. ~Held(m)'
        BY <3>2, <4>1 DEF Takes, Through, Held, HeldButFor
      <4> QED
        BY <2>1, <4>1, <4>2 DEF Through
    <3>3. CASE TakesCancelled
      <4>1. ~InTxQ(m)'
        BY <3>3, HeadTaken DEF TakesCancelled, Through
      <4> QED
        BY <2>1, <3>3, <4>1 DEF Through, TakesCancelled, Held, HeldSame
    <3>4. ASSUME NEW r \in Slots, LetsGo(r) PROVE Through(m)'
      BY <1>m, <2>1, <3>4 DEF LetsGo, Through, InTxQ, Held, HeldButFor
    <3> QED
      BY <2>3, <3>1, <3>2, <3>3, <3>4 DEF Effect, Chatters, Tells
  <2> QED
    BY <1>1, <2>2, <2>3, WorkerEffect DEF Worker
<1>2. CASE Service
  <2>1. UNCHANGED run
    BY <1>2 DEF Service, runnerVars
  <2>2. ASSUME NEW n \in Msgs, SendStep(n) PROVE Through(m)'
    <3>1. n # m
      BY <2>2 DEF SendStep, Store, Enqueue, PutUnblocks, Refuse, Crash, Through
    <3>2. send'[m] = send[m]
      BY <1>m, <2>2, <3>1 DEF SendStep, Store, Enqueue, PutUnblocks, Refuse, Crash
    <3>3. CASE UNCHANGED txQ
      BY <1>0, <2>1, <3>2, <3>3
    <3>4. CASE txQ' = Append(txQ, n) /\ send[n] # "done" /\ send' = [send EXCEPT ![n] = "done"]
      <4>1. ~InTxQ(m)'
        BY <2>1, <3>1, <3>4, QueuedOneCopy DEF Through
      <4> QED
        BY <2>1, <3>2, <4>1 DEF Through, Held, HeldBy
    <3> QED
      BY <2>2, <3>3, <3>4 DEF SendStep, Store, Enqueue, PutUnblocks, Refuse, Crash, shared
  <2>3. ASSUME StationStep \/ MonitorStep \/ \E n \in Msgs : CancelStep(n) PROVE Through(m)'
    <3>1. UNCHANGED <<txQ, send>>
      BY <2>3 DEF StationStep, Start, StartBoot, StartPut, Stop, Retune, Waterfall, ClassicBoot,
                  QuitSdr, Move, serviceVars, shared, MonitorStep, MonitorRead, MonitorWrite,
                  CancelStep, CancelRead, CancelPut, CancelWrite
    <3> QED
      BY <1>0, <2>1, <3>1
  <2> QED
    BY <1>2, <2>2, <2>3 DEF Service, ServiceNext
<1>3. CASE UNCHANGED vars
  BY <1>0, <1>3 DEF vars, shared, runnerVars, serviceVars
<1> QED
  BY <1>1, <1>2, <1>3 DEF Next

\* A TX thread takes a message out of its cancel set only when it is through.
LEMMA CancelledOrThrough ==
    ASSUME TypeOK, OneCopy, NEW c \in Slots, TxThread(c), UNCHANGED send,
           NEW m \in Msgs, m \in run[c].cancelled
    PROVE  m \in run'[c].cancelled \/ Through(m)'
<1>t. /\ run \in [Slots -> Runner] /\ m # NoMsg
      /\ run[c].pc \in Busy => run[c].msg # NoMsg
      /\ \A q \in Slots : q # c => run'[q] = run[q]
  <2>1. run \in [Slots -> Runner] /\ m # NoMsg /\ (run[c].pc \in Busy => run[c].msg # NoMsg)
    BY QueueAssumption DEF TypeOK, RunnerTypeOK, BusyHasMsg
  <2> QED
    BY <2>1 DEF TxThread, TxTake, TxExit, PollBusy, PollQuiet, PollTimeout, ListenHalted, TxKey,
       TxChunk, TxWrite, TxEnd, TxHalted, TxCancelled, TxDrained, TxError, Finish
<1>1. CASE TxTake(c)
  <2> PICK h : h = Head(txQ)
    OBVIOUS
  <2>1. /\ h \in Msgs /\ send[h] = "done" /\ ~Held(h) /\ ~InTxQ(h)'
    BY <1>1, HeadTaken DEF TxTake
  <2>2. CASE h \in run[c].cancelled
    <3>1. run'[c].cancelled = run[c].cancelled \ {h} /\ run'[c].pc \notin Busy
      BY <1>1, <1>t, <2>2 DEF TxTake, AfterBurst, Busy, Runner
    <3>2. m = h => ~Held(m)'
      BY <1>t, <2>1, <3>1 DEF Held, HeldBy
    <3> QED
      BY <2>1, <3>1, <3>2 DEF Through
  <2>3. CASE h \notin run[c].cancelled
    BY <1>1, <1>t, <2>3 DEF TxTake, Runner
  <2> QED
    BY <2>2, <2>3
<1>2. CASE \/ TxExit(c) \/ TxKey(c) \/ TxChunk(c) \/ TxWrite(c) \/ TxEnd(c)
  <2>1. CASE TxExit(c) \/ TxChunk(c) \/ TxEnd(c)
    BY <1>t, <2>1 DEF TxExit, TxChunk, TxEnd, Runner
  <2>2. CASE TxKey(c)
    BY <1>t, <2>2 DEF TxKey, Runner
  <2>3. CASE TxWrite(c)
    BY <1>t, <2>3 DEF TxWrite, Runner
  <2> QED
    BY <1>2, <2>1, <2>2, <2>3
<1>3. CASE PollBusy(c)
  BY <1>t, <1>3 DEF PollBusy, Runner
<1>4. CASE PollQuiet(c)
  <2>1. CASE run[c].quiet < QuietPolls
    BY <1>t, <1>4, <2>1 DEF PollQuiet, Runner
  <2>2. CASE ~(run[c].quiet < QuietPolls)
    BY <1>t, <1>4, <2>2 DEF PollQuiet, Runner
  <2> QED
    BY <2>1, <2>2
<1>5. ASSUME NEW v \in Verdicts, Finish(c, v), run[c].pc \in Busy
      PROVE  m \in run'[c].cancelled \/ Through(m)'
  <2> PICK h : h = run[c].msg
    OBVIOUS
  <2>1. /\ run'[c].cancelled = run[c].cancelled \ {h} /\ run'[c].msg = NoMsg
        /\ UNCHANGED txQ
    BY <1>5, <1>t DEF Finish, Runner
  <2>2. HeldBy(c) = h /\ h # NoMsg /\ send[h] = "done"
    BY <1>5, <1>t DEF HeldBy, OneCopy
  <2>3. m = h => ~InTxQ(m)
    BY <2>2 DEF OneCopy, InTxQ, Held
  <2>4. m = h => ~Held(m)'
    <3>1. HeldBy(c)' = NoMsg
      BY <2>1 DEF HeldBy
    <3>2. \A q \in Slots : q # c => HeldBy(q)' = HeldBy(q) /\ HeldBy(q) # h
      BY <1>t, <2>2 DEF HeldBy, OneCopy
    <3> QED
      BY <1>t, <3>1, <3>2 DEF Held
  <2> QED
    BY <2>1, <2>2, <2>3, <2>4 DEF Through, InTxQ
<1>6. CASE PollTimeout(c) \/ ListenHalted(c) \/ TxHalted(c) \/ TxCancelled(c)
           \/ TxDrained(c) \/ TxError(c)
  BY <1>5, <1>6 DEF PollTimeout, Listening, ListenHalted, TxHalted, TxCancelled, TxDrained,
                    TxError, Verdicts, Busy
<1> QED
  BY <1>1, <1>2, <1>3, <1>4, <1>6 DEF TxThread

LEMMA CancelSetKept ==
    ASSUME TypeOK, OneCopy, LoopInv, [Next]_vars, Running, main'.cur = main.cur,
           NEW m \in Msgs, m \in run[main.cur].cancelled
    PROVE  m \in run'[main.cur].cancelled \/ Through(m)'
<1> PICK c \in Slots : c = main.cur
  BY DEF Running, TypeOK, RunnerTypeOK
<1>t. /\ run \in [Slots -> Runner] /\ m \in run[c].cancelled
      /\ main'.cur # NoRunner
  BY DEF TypeOK, RunnerTypeOK, Running
<1>1. ASSUME NEW r \in Slots, TxThread(r), UNCHANGED send
      PROVE  m \in run'[c].cancelled \/ Through(m)'
  <2>1. CASE r = c
    BY <1>1, <1>t, <2>1, CancelledOrThrough
  <2>2. CASE r # c
    <3>1. run'[c] = run[c]
      BY <1>1, <1>t, <2>2
         DEF TxThread, TxTake, TxExit, PollBusy, PollQuiet, PollTimeout, ListenHalted, TxKey,
             TxChunk, TxWrite, TxEnd, TxHalted, TxCancelled, TxDrained, TxError, Finish
    <3> QED
      BY <1>t, <3>1
  <2> QED
    BY <2>1, <2>2
<1>2. CASE MainLoop
  <2>1. ~JoinDone /\ ~WorkerExit /\ ~ \E r \in Slots : Launch(r)
    BY <1>t DEF JoinDone, LeaveRunner, WorkerExit, Gone, Launch, LoopInv, Running
  <2>2. CASE TakeCommand \/ LeaveLoop
    <3>1. \/ run' = run
          \/ run' = [run EXCEPT ![c].flags = @ \cup {"halt"}]
          \/ run' = [run EXCEPT ![c].cancelled = @ \cup {Head(cfgQ).msg}]
      BY <2>2 DEF TakeCommand, LeaveLoop, StopThen, StopRunner, NoStation
    <3> QED
      BY <1>t, <3>1 DEF Runner
  <2>3. CASE Configure
    BY <1>t, <2>3 DEF Configure
  <2> QED
    BY <1>2, <2>1, <2>2, <2>3 DEF MainLoop
<1>3. CASE WorkerFaults
  <2>1. ~JoinTimeout /\ ~WorkerDies
    BY <1>t DEF JoinTimeout, LeaveRunner, WorkerDies, Gone
  <2>2. CASE LaunchFails \/ Reconnect \/ ReconnectFails
    BY <1>t, <2>2 DEF LaunchFails, Reconnect, ReconnectFails
  <2>3. ASSUME NEW r \in Slots, RxFails(r) PROVE m \in run'[c].cancelled
    BY <1>t, <2>3 DEF RxFails, Runner
  <2> QED
    BY <1>3, <2>1, <2>2, <2>3 DEF WorkerFaults
<1>4. CASE \/ Service \/ UNCHANGED vars \/ \E r \in Slots, n \in Msgs : EchoDecoded(r, n)
  BY <1>t, <1>4 DEF Service, runnerVars, vars, EchoDecoded
<1> QED
  BY <1>1, <1>2, <1>3, <1>4 DEF Next, Worker, RunnerNext, serviceVars

LEMMA OrderKept ==
    ASSUME TypeOK, LoopInv, [Next]_vars, Running, main'.cur = main.cur,
           NEW m \in Msgs, Ordered(m)
    PROVE  Ordered(m)' \/ m \in run'[main.cur].cancelled
<1> PICK c \in Slots : c = main.cur
  BY DEF Running, TypeOK, RunnerTypeOK
<1> PICK x : x = CancelCommand(m)
  OBVIOUS
<1>t. /\ run \in [Slots -> Runner] /\ cfgQ \in Seq(Commands) /\ Len(cfgQ) \in Nat
      /\ main'.cur # NoRunner
      /\ Ordered(m) <=> \E k \in 1..Len(cfgQ) : cfgQ[k] = x
      /\ Ordered(m)' <=> \E k \in DOMAIN cfgQ' : cfgQ'[k] = x
  <2>1. run \in [Slots -> Runner] /\ cfgQ \in Seq(Commands) /\ main'.cur # NoRunner
    BY DEF TypeOK, RunnerTypeOK, QueuesTypeOK, Running
  <2>2. Ordered(m) <=> \E k \in DOMAIN cfgQ : cfgQ[k] = x
    BY DEF Ordered, Range
  <2>3. Ordered(m)' <=> \E k \in DOMAIN cfgQ' : cfgQ'[k] = x
    BY DEF Ordered, Range, CancelCommand
  <2> QED
    BY <2>1, <2>2, <2>3
<1>0. ASSUME UNCHANGED cfgQ PROVE Ordered(m)'
  BY <1>0 DEF Ordered
<1>1. CASE TakeCommand
  <2>1. PICK k \in 1..Len(cfgQ) : cfgQ[k] = x
    BY <1>t
  <2>2. CASE k = 1
    <3>1. Head(cfgQ) = x /\ x.cmd = "cancel" /\ x.msg = m
      BY <1>t, <2>1, <2>2 DEF CancelCommand
    <3>2. run' = [run EXCEPT ![c].cancelled = @ \cup {m}]
      BY <1>1, <3>1 DEF TakeCommand
    <3> QED
      BY <1>t, <3>2 DEF Runner
  <2>3. CASE k # 1
    <3>1. cfgQ' = Tail(cfgQ) /\ k - 1 \in 1..Len(cfgQ') /\ cfgQ'[k - 1] = cfgQ[k]
      BY <1>1, <1>t, <2>1, <2>3 DEF TakeCommand
    <3> QED
      BY <1>t, <2>1, <3>1
  <2> QED
    BY <2>2, <2>3
<1>2. ASSUME NEW y \in Commands, cfgQ' = Append(cfgQ, y) PROVE Ordered(m)'
  <2>1. /\ Len(cfgQ') = Len(cfgQ) + 1 /\ DOMAIN cfgQ' = 1..Len(cfgQ')
        /\ \A k \in 1..Len(cfgQ) : cfgQ'[k] = cfgQ[k]
    BY <1>2, <1>t
  <2> QED
    BY <1>t, <2>1
<1>3. CASE Worker
  <2>1. ~WorkerExit /\ ~WorkerDies
    BY <1>t DEF WorkerExit, WorkerDies, Gone, Running
  <2>2. CASE MainLoop /\ ~TakeCommand
    BY <1>0, <2>1, <2>2 DEF MainLoop, Configure, shared, JoinDone, LeaveRunner, LeaveLoop, Launch
  <2>3. CASE WorkerFaults
    BY <1>0, <2>1, <2>3 DEF WorkerFaults, JoinTimeout, LeaveRunner, LaunchFails, Reconnect,
                            ReconnectFails, RxFails
  <2>4. ASSUME NEW r \in Slots, TxThread(r) \/ \E n \in Msgs : EchoDecoded(r, n) PROVE Ordered(m)'
    BY <1>0, <2>4 DEF TxThread, TxTake, TxExit, PollBusy, PollQuiet, PollTimeout, ListenHalted,
       TxKey, TxChunk, TxWrite, TxEnd, TxHalted, TxCancelled, TxDrained, TxError, Finish,
       EchoDecoded, shared
  <2> QED
    BY <1>1, <1>3, <2>2, <2>3, <2>4 DEF Worker, RunnerNext
<1>4. CASE Service
  <2>1. \A d \in StationCmds : Command(d) \in Commands
    BY DEF Command, Commands
  <2>2. \A n \in Msgs : CancelCommand(n) \in Commands
    BY DEF CancelCommand, Commands
  <2>3. UNCHANGED cfgQ \/ \E y \in Commands : cfgQ' = Append(cfgQ, y)
    <3>1. ASSUME NEW n \in Msgs, SendStep(n) PROVE UNCHANGED cfgQ
      BY <3>1 DEF SendStep, Store, Enqueue, PutUnblocks, Refuse, Crash, shared
    <3>2. ASSUME NEW n \in Msgs, CancelStep(n)
          PROVE  UNCHANGED cfgQ \/ \E y \in Commands : cfgQ' = Append(cfgQ, y)
      BY <2>2, <3>2 DEF CancelStep, CancelRead, CancelPut, CancelWrite, shared
    <3>3. ASSUME StationStep
          PROVE  UNCHANGED cfgQ \/ \E y \in Commands : cfgQ' = Append(cfgQ, y)
      BY <2>1, <3>3 DEF StationCmds, StationStep, Start, PutStart, StartBoot, StartPut, Stop, Retune,
                        Waterfall, ClassicBoot, QuitSdr
    <3>4. ASSUME MonitorStep PROVE UNCHANGED cfgQ
      BY <3>4 DEF MonitorStep, MonitorRead, MonitorWrite, shared
    <3> QED
      BY <1>4, <3>1, <3>2, <3>3, <3>4 DEF Service, ServiceNext
  <2> QED
    BY <1>0, <1>2, <2>3
<1> QED
  BY <1>0, <1>3, <1>4 DEF Next, vars, shared

LEMMA CancelHeldNext ==
    TypeOK /\ OneCopy /\ LoopInv /\ CancelHeld /\ [Next]_vars /\ main'.cur = main.cur /\ CancelsReach'
        => CancelHeld'
<1> SUFFICES ASSUME TypeOK, OneCopy, LoopInv, CancelHeld, [Next]_vars, main'.cur = main.cur,
                    CancelsReach', NEW m \in Msgs, canc'[m] \in {"put", "done"}
             PROVE  Running' /\ (Ordered(m)' \/ m \in run'[main'.cur].cancelled \/ Through(m)')
  BY DEF CancelHeld
<1>1. CASE canc[m] \in {"put", "done"}
  <2>1. Running /\ Running' /\ (Ordered(m) \/ m \in run[main.cur].cancelled \/ Through(m))
    BY <1>1 DEF CancelHeld, Running
  <2> QED
    BY <2>1, OrderKept, CancelSetKept, ThroughStays
<1>2. CASE canc[m] \notin {"put", "done"}
  <2>1. CancelPut(m) /\ UNCHANGED main
    <3>t. canc \in [Msgs -> {"no", "read", "put", "done"}]
      BY DEF TypeOK, ServiceTypeOK
    <3>1. ~UNCHANGED canc
      BY <1>2
    <3>2. Service
      BY <3>1 DEF Next, Worker, serviceVars, vars
    <3>3. \E n \in Msgs : CancelStep(n)
      BY <3>1, <3>2 DEF Service, ServiceNext, SendStep, Store, Enqueue, PutUnblocks, Refuse, Crash,
         StationStep, Start, StartBoot, StartPut, Stop, Retune, Waterfall, ClassicBoot, QuitSdr,
         serviceVars, MonitorStep, MonitorRead, MonitorWrite
    <3>4. ASSUME NEW n \in Msgs, CancelStep(n) PROVE n = m /\ CancelPut(m)
      BY <1>2, <3>t, <3>4 DEF CancelStep, CancelRead, CancelPut, CancelWrite
    <3> QED
      BY <3>2, <3>3, <3>4 DEF Service, runnerVars
  <2>2. canc'[m] = "put" /\ Running'
    BY <2>1 DEF CancelPut, TypeOK, ServiceTypeOK, CancelsReach
  <2>3. Running /\ Up
    BY <2>1, <2>2 DEF Running, LoopInv
  <2>4. CancelCommand(m) \in Range(cfgQ')
    <3>1. cfgQ' = Append(cfgQ, CancelCommand(m))
      BY <2>1, <2>3 DEF CancelPut
    <3>2. /\ cfgQ \in Seq(Commands) /\ Len(cfgQ) \in Nat /\ CancelCommand(m) \in Commands
      BY DEF TypeOK, QueuesTypeOK, CancelCommand, Commands
    <3>3. /\ Len(cfgQ) + 1 \in DOMAIN cfgQ'
          /\ cfgQ'[Len(cfgQ) + 1] = CancelCommand(m)
      <4> DEFINE x == CancelCommand(m)
      <4>1. x \in Commands /\ cfgQ' = Append(cfgQ, x)
        BY <3>1, <3>2
      <4>2. Len(cfgQ) + 1 \in DOMAIN cfgQ' /\ cfgQ'[Len(cfgQ) + 1] = x
        <5> HIDE DEF x
        <5> QED
          BY <3>2, <4>1
      <4> QED
        BY <4>2
    <3> QED
      BY <3>3 DEF Range
  <2> QED
    BY <2>2, <2>4 DEF Ordered
<1> QED
  BY <1>1, <1>2

\* cancel_tx: "Stop sending a message: queued, waiting for a clear channel or on
\* air."  It does, for any faults and moves, while the runner to which the
\* command goes stays: then once the worker has taken it no thread begins a
\* buffer of the message.  What run cancel_lost finds are the two ways round
\* this: no runner when the command comes, or another when the message is taken.
THEOREM StopHoldsWhileRunnerStays ==
    Spec /\ [][RunnerStays]_vars /\ []CancelsReach => StoppedStaysOffAir
<1> DEFINE Inv == LoopInv /\ Ownership /\ CancelHeld
<1>1. Init => Inv
  BY LoopInvInit DEF Init, RunnerInit, ServiceInit, Ownership, Free, NoThread, CancelHeld
<1>2. TypeOK /\ OneCopy /\ Inv /\ [Next]_vars /\ [RunnerStays]_vars /\ CancelsReach /\ CancelsReach' => Inv'
  <2> SUFFICES ASSUME TypeOK, OneCopy, Inv, [Next]_vars, [RunnerStays]_vars, CancelsReach, CancelsReach'
               PROVE  Inv'
    OBVIOUS
  <2>1. Running => main'.cur = main.cur
    BY DEF RunnerStays, vars, runnerVars
  <2>2. ~JoinTimeout
    BY <2>1 DEF JoinTimeout, LeaveRunner, Running
  <2>3. LoopInv' /\ Ownership'
    BY <2>2, LoopInvNext, OwnershipNext
  <2>4. CASE Running
    BY <2>1, <2>3, <2>4, CancelHeldNext
  <2>5. CASE ~Running
    <3>1. CASE main'.cur = main.cur
      BY <2>3, <3>1, CancelHeldNext
    <3>2. CASE main'.cur # main.cur
      <4>1. UNCHANGED canc
        BY <3>2 DEF Next, Worker, Service, runnerVars, serviceVars, vars
      <4>2. \A m \in Msgs : canc[m] \notin {"put", "done"}
        BY <2>5 DEF CancelHeld
      <4> QED
        BY <2>3, <4>1, <4>2 DEF CancelHeld
    <3> QED
      BY <3>1, <3>2
  <2> QED
    BY <2>4, <2>5
<1>3. TypeOK /\ Inv /\ [Next]_vars
        => [\A m \in Msgs, r \in Slots :
              canc[m] = "done" /\ CancelCommand(m) \notin Range(cfgQ) /\ run[r].pc # "write"
                 => ~(run'[r].pc = "write" /\ run'[r].msg = m)]_vars
  <2> SUFFICES ASSUME TypeOK, Inv, Next, NEW m \in Msgs, NEW r \in Slots,
                      canc[m] = "done", CancelCommand(m) \notin Range(cfgQ), run[r].pc # "write",
                      run'[r].pc = "write", run'[r].msg = m
               PROVE  FALSE
    OBVIOUS
  <2>1. TxChunk(r)
    BY OnlyTxChunkWrites
  <2>2. /\ run[r].msg = m /\ HeldBy(r) = m /\ m \notin run[r].cancelled /\ ~Free(r)
    BY <2>1 DEF TxChunk, HeldBy, Busy, Free, TypeOK, RunnerTypeOK, Runner
  <2>3. r = main.cur /\ ~Through(m)
    BY <2>2 DEF Ownership, Through, Held
  <2> QED
    BY <2>2, <2>3 DEF CancelHeld, Ordered
<1> QED
  BY <1>1, <1>2, <1>3, TypeCorrect, OneCopyCorrect, PTL DEF Spec, StoppedStaysOffAir
-----------------------------------------------------------------------------
(* The link implements the Courier.                                        *)

\* Where a message is on the air, and where it waits for it.
OnAir(m) == \E r \in Slots : Keyed(r) /\ HeldBy(r) = m
Waits(m) ==
    send[m] = "blocked" \/ InTxQ(m) \/ \E r \in Slots : ~Keyed(r) /\ HeldBy(r) = m

\* A message is never in two phases at once, so that the order in which Phase
\* looks does not matter.
PhasesAre ==
    \A m \in Msgs :
        /\ Phase(m) = IF send[m] \in {"new", "stored", "refused"} THEN "new"
                      ELSE IF OnAir(m) THEN "onair"
                      ELSE IF Waits(m) THEN "accepted" ELSE "settled"
        /\ send[m] # "done" => ~OnAir(m) /\ ~InTxQ(m) /\ ~Held(m)
        /\ OnAir(m) => ~Waits(m)

LEMMA PhaseIs == TypeOK /\ OneCopy => PhasesAre
<1> SUFFICES ASSUME TypeOK, OneCopy, NEW m \in Msgs
             PROVE  /\ Phase(m) = IF send[m] \in {"new", "stored", "refused"} THEN "new"
                                  ELSE IF OnAir(m) THEN "onair"
                                  ELSE IF Waits(m) THEN "accepted" ELSE "settled"
                    /\ send[m] # "done" => ~OnAir(m) /\ ~InTxQ(m) /\ ~Held(m)
                    /\ OnAir(m) => ~Waits(m)
  BY DEF PhasesAre
<1>m. m # NoMsg
  BY QueueAssumption
<1>1. \A r \in Slots : Holds(r, m) <=> HeldBy(r) = m
  BY <1>m DEF Holds, HeldBy
<1>2. m \in Range(txQ) <=> InTxQ(m)
  BY DEF Range, InTxQ, TypeOK, QueuesTypeOK
<1>3. send[m] # "done" => ~OnAir(m) /\ ~InTxQ(m) /\ ~Held(m)
  BY <1>m DEF OneCopy, OnAir, InTxQ, Held
<1>4. OnAir(m) => ~Waits(m)
  BY <1>m, <1>3 DEF OneCopy, OnAir, Waits, InTxQ, Held
<1>5. /\ (\E r \in Slots : Keyed(r) /\ Holds(r, m)) <=> OnAir(m)
      /\ (\/ send[m] = "blocked" \/ m \in Range(txQ)
          \/ \E r \in Slots : Holds(r, m) /\ ~Keyed(r)) <=> Waits(m)
  BY <1>1, <1>2 DEF OnAir, Waits
<1>6. send[m] \in {"new", "stored", "refused"} => ~OnAir(m) /\ ~Waits(m)
  BY <1>3 DEF Waits, Held
<1> QED
  BY <1>3, <1>4, <1>5, <1>6 DEF Phase

LEMMA PhaseIsNext == TypeOK' /\ OneCopy' => PhasesAre'
  BY PhaseIs, PTL

\* What a step does to the phases: some messages end, or one begins, or one
\* that waited goes on the air.
Ends ==
    \A n \in Msgs : \/ Phase(n)' = Phase(n)
                    \/ Phase(n) \in {"accepted", "onair"} /\ Phase(n)' = "settled"
Goes(m, from, to) ==
    /\ Phase(m) = from /\ Phase(m)' = to
    /\ \A n \in Msgs : n # m => Phase(n)' = Phase(n)
Begins(m) == Goes(m, "new", "accepted") \/ Goes(m, "new", "settled")
Keys(m) == Goes(m, "accepted", "onair") /\ \E r \in Slots : TxKey(r)

\* Only TxKey keys the radio for a request.
KeyedKept == \A q \in Slots : HeldBy(q)' # NoMsg => (Keyed(q)' <=> Keyed(q))

LEMMA OnlyTxKeyKeys ==
    ASSUME TypeOK, RunnerNext
    PROVE  KeyedKept \/ \E r \in Slots : TxKey(r)
<1> USE RunnerAssumption
<1>t. run \in [Slots -> Runner]
  BY DEF TypeOK, RunnerTypeOK
<1>0. ASSUME \A q \in Slots : run'[q].pc = run[q].pc PROVE KeyedKept
  BY <1>0 DEF KeyedKept, Keyed
<1>1. ASSUME NEW r \in Slots, TxThread(r), ~TxKey(r) PROVE KeyedKept
  <2>1. \A q \in Slots : q # r => run'[q] = run[q]
    BY <1>1, <1>t DEF TxThread, TxTake, TxExit, PollBusy, PollQuiet, PollTimeout, ListenHalted,
       TxChunk, TxWrite, TxEnd, TxHalted, TxCancelled, TxDrained, TxError, Finish
  <2>2. CASE TxTake(r)
    <3>1. run'[r].pc \in {"over", "idle", "listen"} /\ run[r].pc = "idle"
      BY <2>2, <1>t DEF TxTake, AfterBurst, Runner
    <3> QED
      BY <2>1, <3>1 DEF KeyedKept, Keyed
  <2>3. CASE TxExit(r) \/ TxChunk(r) \/ TxWrite(r) \/ TxEnd(r)
    <3>1. run'[r].pc \in {"over", "write", "chunk", "drain"}
          /\ (run'[r].pc = "over" <=> run[r].pc = "idle")
          /\ run[r].pc \in {"idle", "chunk", "write"}
      <4>1. CASE TxExit(r) \/ TxChunk(r) \/ TxEnd(r)
        BY <4>1, <1>t DEF TxExit, TxChunk, TxEnd, Runner
      <4>2. CASE TxWrite(r)
        BY <4>2, <1>t DEF TxWrite, Runner
      <4> QED
        BY <2>3, <4>1, <4>2
    <3> QED
      BY <2>1, <3>1 DEF KeyedKept, Keyed
  <2>4. CASE PollBusy(r) \/ PollQuiet(r)
    <3>1. run[r].pc = "listen" /\ run'[r].pc \in {"listen", "prep"}
      <4>1. CASE PollBusy(r)
        BY <4>1, <1>t DEF PollBusy, Listening, Runner
      <4>2. CASE PollQuiet(r) /\ run[r].quiet < QuietPolls
        BY <4>2, <1>t DEF PollQuiet, Listening, Runner
      <4>3. CASE PollQuiet(r) /\ ~(run[r].quiet < QuietPolls)
        BY <4>3, <1>t DEF PollQuiet, Listening, Runner
      <4> QED
        BY <2>4, <4>1, <4>2, <4>3
    <3> QED
      BY <2>1, <3>1 DEF KeyedKept, Keyed
  <2>5. ASSUME NEW v, Finish(r, v) PROVE KeyedKept
    <3>1. HeldBy(r)' = NoMsg
      <4>1. run'[r].msg = NoMsg
        BY <2>5, <1>t DEF Finish, Runner
      <4> QED
        BY <4>1 DEF HeldBy
    <3> QED
      BY <2>1, <3>1 DEF KeyedKept, Keyed
  <2> QED
    BY <1>1, <2>2, <2>3, <2>4, <2>5
       DEF TxThread, PollTimeout, ListenHalted, TxHalted, TxCancelled, TxDrained, TxError
<1>2. CASE WorkerExit \/ WorkerDies
  BY <1>2 DEF WorkerExit, WorkerDies, Gone, KeyedKept, HeldBy, NoThread, Busy
<1>3. ASSUME NEW r \in Slots, Launch(r) PROVE KeyedKept
  BY <1>3, <1>t DEF Launch, NewRunner, KeyedKept, HeldBy, Keyed, Busy
<1>4. CASE JoinDone \/ JoinTimeout
  BY <1>4, <1>0, <1>t DEF JoinDone, JoinTimeout, LeaveRunner, Runner
<1>5. CASE TakeCommand
  <2>1. \/ run' = run
        \/ run' = [run EXCEPT ![main.cur].flags = @ \cup {"halt"}]
        \/ run' = [run EXCEPT ![main.cur].cancelled = @ \cup {Head(cfgQ).msg}]
    BY <1>5 DEF TakeCommand, StopThen, StopRunner, NoStation
  <2>2. \A q \in Slots : run'[q].pc = run[q].pc
    BY <2>1, <1>t DEF Runner
  <2> QED
    BY <2>2, <1>0
<1>9. CASE LeaveLoop
  BY <1>9, <1>0, <1>t DEF LeaveLoop, StopRunner, Runner
<1>6. CASE Configure \/ LaunchFails \/ Reconnect \/ ReconnectFails
  BY <1>6, <1>0 DEF Configure, LaunchFails, Reconnect, ReconnectFails
<1>7. ASSUME NEW r \in Slots, RxFails(r) PROVE KeyedKept
  BY <1>7, <1>0, <1>t DEF RxFails, Runner
<1>8. ASSUME NEW r \in Slots, NEW m \in Msgs, EchoDecoded(r, m) PROVE KeyedKept
  BY <1>8, <1>0 DEF EchoDecoded
<1> QED
  BY <1>1, <1>2, <1>3, <1>4, <1>5, <1>6, <1>7, <1>8, <1>9
     DEF RunnerNext, MainLoop, WorkerFaults

LEMMA WorkerPhases ==
    ASSUME TypeOK, OneCopy, PhasesAre, PhasesAre', UNCHANGED send, RunnerNext
    PROVE  Ends \/ \E m \in Msgs : Keys(m)
<1>t. /\ run \in [Slots -> Runner]
      /\ \A q \in Slots : Keyed(q) => HeldBy(q) # NoMsg
  BY DEF TypeOK, RunnerTypeOK, BusyHasMsg, Keyed, HeldBy, Busy
<1>m. \A n \in Msgs : n # NoMsg
  BY QueueAssumption
<1>1. CASE KeyedKept
  <2>1. /\ \A q \in Slots : \/ HeldBy(q)' \in {HeldBy(q), NoMsg}
                            \/ HeldBy(q) = NoMsg /\ InTxQ(HeldBy(q)')
        /\ \A n : InTxQ(n)' => InTxQ(n)
    <3>1. CASE WorkerExit \/ WorkerDies
      BY <3>1 DEF WorkerExit, WorkerDies, Gone, HeldBy, NoThread, Busy, InTxQ
    <3>2. ASSUME UNCHANGED txQ, NEW n, InTxQ(n)' PROVE InTxQ(n)
      BY <3>2 DEF InTxQ
    <3>3. CASE Chatters \/ \E r \in Slots : Tells(r) \/ LetsGo(r)
      BY <3>2, <3>3 DEF Chatters, Tells, LetsGo, HeldSame, HeldButFor
    <3>4. CASE TakesCancelled
      BY <3>4, HeadTaken DEF TakesCancelled, HeldSame
    <3>5. ASSUME NEW r \in Slots, Takes(r)
          PROVE  /\ \A q \in Slots : \/ HeldBy(q)' \in {HeldBy(q), NoMsg}
                                     \/ HeldBy(q) = NoMsg /\ InTxQ(HeldBy(q)')
                 /\ \A n : InTxQ(n)' => InTxQ(n)
      BY <3>5, HeadTaken DEF Takes, HeldButFor
    <3> QED
      BY <3>1, <3>3, <3>4, <3>5, WorkerEffect DEF Effect
  <2>2. ASSUME NEW n \in Msgs
        PROVE  (OnAir(n)' => OnAir(n)) /\ (Waits(n)' => Waits(n))
    <3>1. OnAir(n)' => OnAir(n)
      BY <1>1, <1>t, <1>m, <2>1 DEF OnAir, KeyedKept
    <3>2. Waits(n)' => Waits(n)
      BY <1>1, <1>m, <2>1 DEF Waits, KeyedKept
    <3> QED
      BY <3>1, <3>2
  <2> QED
    BY <2>2 DEF Ends, PhasesAre
<1>2. ASSUME NEW r \in Slots, TxKey(r) PROVE \E m \in Msgs : Keys(m)
  <2>1. /\ \A q \in Slots : q # r => run'[q] = run[q]
        /\ run[r].pc = "prep" /\ run'[r].pc = "chunk" /\ run'[r].msg = run[r].msg
        /\ UNCHANGED txQ
    BY <1>2, <1>t DEF TxKey, Runner, shared
  <2>2. /\ \A q \in Slots : HeldBy(q)' = HeldBy(q)
        /\ \A q \in Slots : q # r => (Keyed(q)' <=> Keyed(q))
        /\ ~Keyed(r) /\ Keyed(r)'
    BY <2>1 DEF HeldBy, Keyed, Busy
  <2> PICK m : m = HeldBy(r)
    OBVIOUS
  <2>3. m # NoMsg /\ m \in Msgs
    BY <1>t, <2>1 DEF TypeOK, BusyHasMsg, HeldBy, Busy, Runner
  <2>4. \A q \in Slots : HeldBy(q) = m => q = r
    BY <2>3 DEF OneCopy
  <2>5. \A n : InTxQ(n)' <=> InTxQ(n)
    BY <2>1 DEF InTxQ
  <2>6. Waits(m) /\ OnAir(m)' /\ send[m] = "done"
    BY <2>2, <2>3 DEF Waits, OnAir, OneCopy
  <2>7. \A n \in Msgs : n # m => (OnAir(n)' <=> OnAir(n)) /\ (Waits(n)' <=> Waits(n))
    BY <2>2, <2>5 DEF OnAir, Waits
  <2>8. Goes(m, "accepted", "onair")
    BY <2>3, <2>6, <2>7 DEF Goes, PhasesAre
  <2> QED
    BY <1>2, <2>3, <2>8 DEF Keys
<1> QED
  BY <1>1, <1>2, OnlyTxKeyKeys

LEMMA ServicePhases ==
    ASSUME TypeOK, OneCopy, PhasesAre, PhasesAre', UNCHANGED runnerVars, ServiceNext
    PROVE  Ends \/ \E m \in Msgs : Begins(m)
<1>t. send \in [Msgs -> {"new", "stored", "blocked", "refused", "crashed", "done"}]
  BY DEF TypeOK, ServiceTypeOK
<1>1. \A n : OnAir(n)' <=> OnAir(n)
  BY DEF runnerVars, OnAir, Keyed, HeldBy
<1>2. ASSUME NEW n \in Msgs, InTxQ(n)' <=> InTxQ(n), send'[n] = send[n]
      PROVE  Phase(n)' = Phase(n)
  <2>1. Waits(n)' <=> Waits(n)
    BY <1>2 DEF runnerVars, Waits, Keyed, HeldBy
  <2> QED
    BY <1>1, <1>2, <2>1 DEF PhasesAre
<1>3. ASSUME UNCHANGED <<txQ, send>> PROVE Ends
  <2>1. \A n : InTxQ(n)' <=> InTxQ(n)
    BY <1>3 DEF InTxQ
  <2> QED
    BY <1>2, <1>3, <2>1 DEF Ends
<1>4. ASSUME NEW m \in Msgs, SendStep(m) PROVE Ends \/ Begins(m)
  <2>1. send[m] # "done"
    BY <1>4 DEF SendStep, Store, Enqueue, PutUnblocks, Refuse, Crash
  <2>2. ~OnAir(m)' /\ ~InTxQ(m) /\ \A q \in Slots : HeldBy(q)' # m
    BY <1>1, <2>1 DEF PhasesAre, Held, HeldBy, runnerVars
  <2>3. CASE txQ' = Append(txQ, m) /\ send' = [send EXCEPT ![m] = "done"]
    <3>1. \A n : InTxQ(n)' <=> InTxQ(n) \/ n = m
      BY <2>1, <2>3, QueuedOneCopy DEF runnerVars
    <3>2. \A n \in Msgs : n # m => Phase(n)' = Phase(n)
      BY <1>2, <1>t, <2>3, <3>1
    <3>3. send'[m] = "done" /\ Waits(m)'
      BY <1>t, <2>3, <3>1 DEF Waits
    <3>4. Phase(m)' = "accepted"
      BY <2>2, <3>3 DEF PhasesAre
    <3>5. CASE send[m] = "blocked"
      <4>1. Phase(m) = "accepted"
        BY <2>1, <3>5 DEF PhasesAre, Waits
      <4> QED
        BY <3>2, <3>4, <4>1 DEF Ends
    <3>6. CASE send[m] = "stored"
      <4>1. Phase(m) = "new"
        BY <3>6 DEF PhasesAre
      <4> QED
        BY <3>2, <3>4, <4>1 DEF Begins, Goes
    <3>7. send[m] \in {"blocked", "stored"}
      <4>1. txQ' # txQ
        BY <2>2, <3>1 DEF InTxQ
      <4> QED
        BY <1>4, <4>1 DEF SendStep, Store, Enqueue, PutUnblocks, Refuse, Crash, shared
    <3> QED
      BY <3>5, <3>6, <3>7
  <2>4. CASE UNCHANGED txQ
    <3>1. \A n : InTxQ(n)' <=> InTxQ(n)
      BY <2>4 DEF InTxQ
    <3>2. \E v \in {"stored", "blocked", "refused", "crashed", "done"} :
            send' = [send EXCEPT ![m] = v]
      BY <1>4 DEF SendStep, Store, Enqueue, PutUnblocks, Refuse, Crash
    <3>3. \A n \in Msgs : n # m => Phase(n)' = Phase(n)
      BY <1>2, <1>t, <3>1, <3>2
    <3>4. Waits(m)' <=> send'[m] = "blocked"
      BY <2>2, <3>1 DEF Waits
    <3>5. Phase(m)' = IF send'[m] \in {"new", "stored", "refused"} THEN "new"
                      ELSE IF send'[m] = "blocked" THEN "accepted" ELSE "settled"
      BY <2>2, <3>4 DEF PhasesAre
    <3>6. send[m] \in {"new", "stored", "refused"} => Phase(m) = "new"
      BY DEF PhasesAre
    <3>7. \/ send[m] = "new" /\ send'[m] = "stored"
          \/ send[m] = "stored" /\ send'[m] \in {"blocked", "refused", "crashed"}
          \/ send[m] = "refused" /\ send'[m] = "done"
          \/ txQ' = Append(txQ, m) /\ send' = [send EXCEPT ![m] = "done"]
      BY <1>4, <1>t DEF SendStep, Store, Enqueue, PutUnblocks, Refuse, Crash
    <3> QED
      BY <2>3, <3>3, <3>5, <3>6, <3>7 DEF Ends, Begins, Goes
  <2> QED
    BY <1>4, <2>3, <2>4 DEF SendStep, Store, Enqueue, PutUnblocks, Refuse, Crash, shared
<1>5. ASSUME NEW m \in Msgs, CancelStep(m) PROVE Ends
  <2>1. UNCHANGED <<txQ, send>>
    BY <1>5 DEF CancelStep, CancelRead, CancelPut, CancelWrite, shared
  <2> QED
    BY <1>3, <2>1
<1>6. CASE StationStep \/ MonitorStep
  BY <1>3, <1>6 DEF StationStep, Start, StartBoot, StartPut, Stop, Retune, Waterfall,
     ClassicBoot, QuitSdr, Move, serviceVars, shared, MonitorStep, MonitorRead, MonitorWrite
<1> QED
  BY <1>4, <1>5, <1>6 DEF ServiceNext

LEMMA PhaseStep ==
    TypeOK /\ TypeOK' /\ OneCopy /\ OneCopy' /\ [Next]_vars
        => Ends \/ \E m \in Msgs : Begins(m) \/ Keys(m)
<1> SUFFICES ASSUME TypeOK, TypeOK', OneCopy, OneCopy', [Next]_vars
             PROVE  Ends \/ \E m \in Msgs : Begins(m) \/ Keys(m)
  OBVIOUS
<1>1. PhasesAre /\ PhasesAre'
  BY PhaseIs, PhaseIsNext
<1>2. CASE Worker
  BY <1>1, <1>2, WorkerPhases DEF Worker, serviceVars
<1>3. CASE Service
  BY <1>1, <1>3, ServicePhases DEF Service
<1>4. CASE UNCHANGED vars
  BY <1>4 DEF vars, shared, runnerVars, serviceVars, Ends, Phase, Keyed, Holds
<1> QED
  BY <1>2, <1>3, <1>4 DEF Next

\* Whatever the operator, the process and the radio do - a join that gives up
\* on a thread included - a message is accepted at most once, is keyed at most
\* once and only while it is accepted, and once it is settled it stays so.
Onward == {<<"new", "accepted">>, <<"new", "settled">>, <<"accepted", "onair">>,
           <<"accepted", "settled">>, <<"onair", "settled">>}

THEOREM EachMessageOnce ==
    Spec => [][\A m \in Msgs : Phase(m)' # Phase(m) => <<Phase(m), Phase(m)'>> \in Onward]_vars
<1>1. TypeOK /\ TypeOK' /\ OneCopy /\ OneCopy' /\ [Next]_vars
        => [\A m \in Msgs : Phase(m)' # Phase(m) => <<Phase(m), Phase(m)'>> \in Onward]_vars
  BY PhaseStep DEF Ends, Begins, Keys, Goes, Onward
<1> QED
  BY <1>1, TypeCorrect, OneCopyCorrect, PTL DEF Spec

\* If stop() never gives up on a thread, the service and the worker together
\* keep the Courier's promise: of what the operator sends, at most one message
\* is on the air, each is aired once, and none after it was settled.
THEOREM LinkImplementsCourier ==
    ASSUME "slowjoin" \notin Moves
    PROVE  Spec => CourierKept
<1>1. Init => Promise!CourierInit
  <2> SUFFICES ASSUME Init, NEW m \in Msgs PROVE Phase(m) = "new"
    BY DEF Promise!CourierInit
  <2>1. send[m] = "new" /\ TypeOK /\ OneCopy
    <3>1. send[m] = "new"
      BY DEF Init, ServiceInit
    <3>2. OneCopy
      BY DEF Init, QueuesInit, RunnerInit, NoThread, Busy, OneCopy, HeldBy
    <3> QED
      BY <3>1, <3>2, InitType
  <2> QED
    BY <2>1, PhaseIs DEF PhasesAre
<1>2. /\ TypeOK /\ TypeOK' /\ OneCopy /\ OneCopy' /\ Ownership
      /\ [Next]_vars
      => [Promise!CourierNext]_([m \in Msgs |-> Phase(m)])
  <2> SUFFICES ASSUME TypeOK, TypeOK', OneCopy, OneCopy', Ownership, [Next]_vars,
                      [m \in Msgs |-> Phase(m)]' # [m \in Msgs |-> Phase(m)]
               PROVE  Promise!CourierNext
    OBVIOUS
  <2>1. CASE Ends
    <3> DEFINE S == {n \in Msgs : Phase(n)' # Phase(n)}
    <3>1. S # {}
      OBVIOUS
    <3>2. \A n \in S : Phase(n) \in {"accepted", "onair"}
      BY <2>1 DEF Ends
    <3>3. \A n \in Msgs : Phase(n)' = IF n \in S THEN "settled" ELSE Phase(n)
      BY <2>1 DEF Ends
    <3>4. Promise!Settle(S)
      BY <3>1, <3>2, <3>3 DEF Promise!Settle
    <3> QED
      BY <3>4 DEF Promise!CourierNext
  <2>2. ASSUME NEW m \in Msgs, Begins(m) PROVE Promise!CourierNext
    BY <2>2 DEF Begins, Goes, Promise!CourierNext, Promise!Accept, Promise!Reject
  <2>3. ASSUME NEW m \in Msgs, Keys(m) PROVE Promise!CourierNext
    <3>1. PICK r \in Slots : TxKey(r)
      BY <2>3 DEF Keys
    <3>2. \A q \in Slots : ~Keyed(q)
      BY <3>1 DEF TxKey, Keyed, Ownership, Free
    <3>3. \A n \in Msgs : Phase(n) # "onair"
      <4>1. \A n : ~OnAir(n)
        BY <3>2 DEF OnAir
      <4> QED
        BY <4>1, PhaseIs DEF PhasesAre
    <3> QED
      BY <2>3, <3>3 DEF Keys, Goes, Promise!CourierNext, Promise!Air
  <2> QED
    BY <2>1, <2>2, <2>3, PhaseStep
<1>3. Spec => []Ownership
  <2>1. Init => LoopInv /\ Ownership
    BY LoopInvInit DEF Init, RunnerInit, Ownership, Free, NoThread
  <2>2. TypeOK /\ LoopInv /\ Ownership /\ [Next]_vars => LoopInv' /\ Ownership'
    BY LoopInvNext, OwnershipNext DEF JoinTimeout, Move
  <2> QED
    BY <2>1, <2>2, TypeCorrect, PTL DEF Spec
<1> QED
  BY <1>1, <1>2, <1>3, TypeCorrect, OneCopyCorrect, PTL
     DEF Spec, CourierKept, Promise!CourierSpec
-----------------------------------------------------------------------------
(* What the code does keep of two promises it does not keep in full.       *)

\* A radio that no reconnect moves stays on the uplink from the moment a
\* runner is built until its last thread has ended.
UplinkInv ==
    /\ main.pc = "boot" => \A r \in Slots : Free(r)
    /\ \A r \in Slots : ~Free(r) => radio.lo = "uplink"

LEMMA UplinkInvNext ==
    ASSUME "reconnect" \notin Moves, "reconnectfail" \notin Moves
    PROVE  TypeOK /\ UplinkInv /\ [Next]_vars => UplinkInv'
<1> SUFFICES ASSUME TypeOK, UplinkInv, [Next]_vars PROVE UplinkInv'
  OBVIOUS
<1> USE RunnerAssumption
<1>t. /\ run \in [Slots -> Runner] /\ radio \in [gain : Gains, lo : Los]
      /\ main = [pc |-> main.pc, cmd |-> main.cmd, cur |-> main.cur]
  BY DEF TypeOK, RunnerTypeOK
<1>1. CASE /\ main'.pc = "boot" => main.pc = "boot"
           /\ radio'.lo = radio.lo \/ radio'.lo = "uplink"
           /\ \A q \in Slots : Free(q) => Free(q)'
  BY <1>1 DEF UplinkInv
<1>2. ASSUME NEW r \in Slots, TxThread(r) PROVE UplinkInv'
  <2>1. UNCHANGED main /\ ~Free(r)
    BY <1>2, ThreadsLeaveLoop
       DEF TxThread, TxTake, TxExit, PollBusy, PollQuiet, PollTimeout, ListenHalted, TxKey,
           TxChunk, TxWrite, TxEnd, TxHalted, TxCancelled, TxDrained, TxError, Listening, Free
  <2>2. ASSUME NEW q \in Slots, q # r PROVE run'[q] = run[q]
    BY <1>2, <2>2, <1>t
       DEF TxThread, TxTake, TxExit, PollBusy, PollQuiet, PollTimeout, ListenHalted, TxKey,
           TxChunk, TxWrite, TxEnd, TxHalted, TxCancelled, TxDrained, TxError, Finish
  <2>3. radio'.lo = radio.lo \/ radio'.lo = "uplink"
    BY <1>2, <1>t
       DEF TxThread, TxTake, TxExit, PollBusy, PollQuiet, PollTimeout, ListenHalted, TxKey,
           TxChunk, TxWrite, TxEnd, TxHalted, TxCancelled, TxDrained, TxError, Finish
  <2> QED
    BY <1>1, <2>1, <2>2, <2>3 DEF Free
<1>3. CASE Configure
  <2>1. UNCHANGED run /\ main'.pc = "loop" /\ main.pc = "boot"
    BY <1>3, <1>t DEF Configure
  <2> QED
    BY <2>1 DEF UplinkInv, Free
<1>4. CASE TakeCommand \/ LeaveLoop
  <2>1. \/ run' = run
        \/ run' = [run EXCEPT ![main.cur].flags = @ \cup {"halt"}]
        \/ run' = [run EXCEPT ![main.cur].cancelled = @ \cup {Head(cfgQ).msg}]
    BY <1>4 DEF TakeCommand, LeaveLoop, StopThen, StopRunner, NoStation
  <2>2. main'.pc # "boot" /\ UNCHANGED radio
    BY <1>4, <1>t DEF TakeCommand, LeaveLoop, StopThen, StopRunner, NoStation
  <2>3. \A q \in Slots : Free(q) => Free(q)'
    BY <2>1, <1>t DEF Free, Runner
  <2> QED
    BY <1>1, <2>2, <2>3
<1>5. CASE JoinDone \/ JoinTimeout
  <2>1. main'.pc # "boot" /\ UNCHANGED radio
    BY <1>5 DEF JoinDone, JoinTimeout, LeaveRunner
  <2>2. \A q \in Slots : Free(q) => Free(q)'
    BY <1>5, <1>t DEF JoinDone, JoinTimeout, LeaveRunner, Free, Runner
  <2> QED
    BY <1>1, <2>1, <2>2
<1>6. ASSUME NEW r \in Slots, Launch(r) PROVE UplinkInv'
  BY <1>6 DEF Launch, UplinkInv
<1>7. CASE LaunchFails
  <2>1. main'.pc = "loop" /\ UNCHANGED run /\ (radio'.lo = radio.lo \/ radio'.lo = "uplink")
    BY <1>7, <1>t DEF LaunchFails
  <2> QED
    BY <1>1, <2>1 DEF Free
<1>8. CASE WorkerExit \/ WorkerDies
  BY <1>8 DEF WorkerExit, WorkerDies, Gone, Free, NoThread, UplinkInv
<1>9. CASE Service \/ UNCHANGED vars \/ \E r \in Slots, m \in Msgs : EchoDecoded(r, m)
  <2>1. UNCHANGED <<run, main, radio>>
    BY <1>9 DEF Service, vars, runnerVars, EchoDecoded
  <2> QED
    BY <1>1, <2>1 DEF Free
<1>10. ASSUME NEW r \in Slots, RxFails(r) PROVE UplinkInv'
  BY <1>10, <1>1, <1>t DEF RxFails, Free, Runner
<1>11. ~Reconnect /\ ~ReconnectFails
  BY DEF Reconnect, ReconnectFails, Move
<1> QED
  BY <1>2, <1>3, <1>4, <1>5, <1>6, <1>7, <1>8, <1>9, <1>10, <1>11
     DEF Next, Worker, RunnerNext, MainLoop, WorkerFaults

\* Without a reconnect every burst is keyed on the uplink frequency, also one
\* of a thread that stop() left behind, and after a launch that failed: what
\* test_worker_runner asserts of one burst, for all of them.
THEOREM UplinkUnlessReconnected ==
    ASSUME "reconnect" \notin Moves, "reconnectfail" \notin Moves
    PROVE  Spec => KeyedOnUplink
<1>1. Init => UplinkInv
  BY DEF Init, RunnerInit, UplinkInv, Free, NoThread
<1>2. TypeOK /\ UplinkInv /\ [Next]_vars => UplinkInv'
  BY UplinkInvNext
<1>3. UplinkInv'
        => [\A r \in Slots : ~Keyed(r) /\ Keyed(r)' => radio'.lo = "uplink"]_vars
  BY DEF UplinkInv, Keyed, Free
<1> QED
  BY <1>1, <1>2, <1>3, TypeCorrect, PTL DEF Spec, KeyedOnUplink

\* A thread drains either the whole burst, or one it was told to stop.
DrainInv == \A r \in Slots : run[r].pc = "drain" => run[r].left = 0 \/ Halted(r)

LEMMA DrainInvNext == TypeOK /\ DrainInv /\ [Next]_vars => DrainInv'
<1> SUFFICES ASSUME TypeOK, DrainInv, [Next]_vars,
                    NEW q \in Slots, run'[q].pc = "drain"
             PROVE  run'[q].left = 0 \/ Halted(q)'
  BY DEF DrainInv
<1> USE RunnerAssumption
<1>t. run \in [Slots -> Runner]
  BY DEF TypeOK, RunnerTypeOK
<1>1. CASE /\ run[q].pc = "drain" /\ run'[q].left = run[q].left
           /\ Halted(q) => Halted(q)'
  BY <1>1 DEF DrainInv
<1>2. ASSUME NEW r \in Slots, TxThread(r) PROVE run'[q].left = 0 \/ Halted(q)'
  <2>1. CASE q # r
    <3>1. run'[q] = run[q]
      BY <1>2, <2>1, <1>t
         DEF TxThread, TxTake, TxExit, PollBusy, PollQuiet, PollTimeout, ListenHalted, TxKey,
             TxChunk, TxWrite, TxEnd, TxHalted, TxCancelled, TxDrained, TxError, Finish
    <3> QED
      BY <1>1, <3>1 DEF Halted
  <2>2. CASE q = r
    <3>1. CASE TxEnd(r)
      BY <2>2, <3>1, <1>t DEF TxEnd, Halted, Runner
    <3>2. CASE \/ TxTake(r) \/ TxExit(r) \/ PollBusy(r) \/ PollQuiet(r)
      <4>1. run'[r].pc # "drain"
        BY <3>2, <1>t
           DEF TxTake, TxExit, PollBusy, PollQuiet, Listening, AfterBurst, Runner
      <4> QED
        BY <2>2, <4>1
    <3>3. CASE TxKey(r) \/ TxChunk(r) \/ TxWrite(r)
      <4>1. run'[r].pc # "drain"
        BY <3>3, <1>t DEF TxKey, TxChunk, TxWrite, Runner
      <4> QED
        BY <2>2, <4>1
    <3>4. CASE \E v \in Verdicts : Finish(r, v)
      <4>1. run'[r].pc # "drain"
        BY <3>4, <1>t DEF Finish, AfterBurst, Runner
      <4> QED
        BY <2>2, <4>1
    <3> QED
      BY <1>2, <3>1, <3>2, <3>3, <3>4 DEF TxThread, PollTimeout, ListenHalted, TxHalted,
                                         TxCancelled, TxDrained, TxError, Verdicts
  <2> QED
    BY <2>1, <2>2
<1>3. CASE TakeCommand \/ LeaveLoop
  <2>1. \/ run' = run
        \/ run' = [run EXCEPT ![main.cur].flags = @ \cup {"halt"}]
        \/ run' = [run EXCEPT ![main.cur].cancelled = @ \cup {Head(cfgQ).msg}]
    BY <1>3 DEF TakeCommand, LeaveLoop, StopThen, StopRunner, NoStation
  <2> QED
    BY <1>1, <2>1, <1>t DEF Halted, Runner
<1>4. CASE JoinDone \/ JoinTimeout
  BY <1>1, <1>4, <1>t DEF JoinDone, JoinTimeout, LeaveRunner, Halted, Runner
<1>5. ASSUME NEW r \in Slots, Launch(r) PROVE run'[q].left = 0 \/ Halted(q)'
  BY <1>1, <1>5, <1>t DEF Launch, NewRunner, Halted
<1>6. CASE WorkerExit \/ WorkerDies
  BY <1>6 DEF WorkerExit, WorkerDies, Gone, NoThread
<1>7. CASE \/ Configure \/ LaunchFails \/ Reconnect \/ ReconnectFails \/ Service
           \/ UNCHANGED vars \/ \E r \in Slots, m \in Msgs : EchoDecoded(r, m)
  <2>1. UNCHANGED run
    BY <1>7 DEF Configure, LaunchFails, Reconnect, ReconnectFails, Service, vars, runnerVars,
                EchoDecoded
  <2> QED
    BY <1>1, <2>1 DEF Halted
<1>8. ASSUME NEW r \in Slots, RxFails(r) PROVE run'[q].left = 0 \/ Halted(q)'
  BY <1>8, <1>1, <1>t DEF RxFails, Halted, Runner
<1> QED
  BY <1>2, <1>3, <1>4, <1>5, <1>6, <1>7, <1>8
     DEF Next, Worker, RunnerNext, MainLoop, WorkerFaults

\* A burst reported as sent went out to its last buffer, unless its thread was
\* told to stop meanwhile: neither a cancel, nor a cut stream, nor a restart of
\* another runner makes a short burst look sent.
THEOREM SentIsWholeUnlessHalted ==
    Spec => [][\A r \in Slots : TxDrained(r) => run[r].left = 0 \/ Halted(r)]_vars
<1>1. Init => DrainInv
  BY DEF Init, RunnerInit, DrainInv, NoThread
<1>2. TypeOK /\ DrainInv /\ [Next]_vars => DrainInv'
  BY DrainInvNext
<1>3. DrainInv => [\A r \in Slots : TxDrained(r) => run[r].left = 0 \/ Halted(r)]_vars
  BY DEF DrainInv, TxDrained
<1> QED
  BY <1>1, <1>2, <1>3, TypeCorrect, PTL DEF Spec

\* A report the monitor has read of a stopped row was read before cancel_tx
\* wrote that row.
ReadBeforeStop ==
    mon.ev \in TxStatuses /\ status[mon.msg] = "stopped" => canc[mon.msg] = "done"

LEMMA ReadBeforeStopNext == TypeOK /\ ReadBeforeStop /\ [Next]_vars => ReadBeforeStop'
<1> SUFFICES ASSUME TypeOK, ReadBeforeStop, [Next]_vars PROVE ReadBeforeStop'
  OBVIOUS
<1>t. /\ status \in [Msgs -> {"none", "queued", "confirmed"} \cup TxStatuses]
      /\ canc \in [Msgs -> {"no", "read", "put", "done"}]
      /\ mon \in Reports \cup {NoEvent} /\ NoEvent.ev \notin TxStatuses
      /\ \A e \in Reports : e.msg \in Msgs
  BY DEF TypeOK, ServiceTypeOK, NoEvent, Event, TxStatuses, Reports
<1>1. CASE UNCHANGED <<mon, status>> /\ \A m \in Msgs : canc[m] = "done" => canc'[m] = "done"
  BY <1>1, <1>t DEF ReadBeforeStop
<1>2. CASE Worker \/ UNCHANGED vars
  BY <1>1, <1>2 DEF Worker, serviceVars, vars
<1>3. ASSUME NEW m \in Msgs, SendStep(m) PROVE ReadBeforeStop'
  <2>1. UNCHANGED <<mon, canc>>
    BY <1>3 DEF SendStep, Store, Enqueue, PutUnblocks, Refuse, Crash
  <2>2. \/ UNCHANGED status
        \/ \E v \in {"queued", "failed"} : status' = [status EXCEPT ![m] = v]
    BY <1>3 DEF SendStep, Store, Enqueue, PutUnblocks, Refuse, Crash
  <2>3. \A n \in Msgs : status'[n] = "stopped" => status[n] = "stopped"
    BY <2>2, <1>t
  <2> QED
    BY <2>1, <2>3, <1>t DEF ReadBeforeStop
<1>4. ASSUME NEW m \in Msgs, CancelStep(m) PROVE ReadBeforeStop'
  <2>1. UNCHANGED mon
    BY <1>4 DEF CancelStep, CancelRead, CancelPut, CancelWrite
  <2>2. \A n \in Msgs : n # m => canc'[n] = canc[n] /\ status'[n] = status[n]
    BY <1>4, <1>t DEF CancelStep, CancelRead, CancelPut, CancelWrite
  <2>3. \/ canc[m] # "done" /\ status'[m] = status[m]
        \/ canc'[m] = "done"
    BY <1>4, <1>t DEF CancelStep, CancelRead, CancelPut, CancelWrite
  <2> QED
    BY <2>1, <2>2, <2>3, <1>t DEF ReadBeforeStop
<1>5. CASE StationStep
  BY <1>1, <1>5 DEF StationStep, Start, StartBoot, StartPut, Stop, Retune, Waterfall, ClassicBoot,
                    QuitSdr, PutStart, serviceVars
<1>6. CASE MonitorRead
  <2>1. /\ UNCHANGED <<status, canc>>
        /\ \/ mon' = mon \/ mon' = NoEvent
           \/ mon' = Head(evQ) /\ ~Dropped(Head(evQ))
    BY <1>6 DEF MonitorRead
  <2> QED
    BY <2>1, <1>t DEF ReadBeforeStop, Dropped
<1>7. CASE MonitorWrite
  BY <1>7, <1>t DEF MonitorWrite, ReadBeforeStop
<1> QED
  BY <1>2, <1>3, <1>4, <1>5, <1>6, <1>7 DEF Next, Service, ServiceNext, MonitorStep

\* "the operator stopped it; late worker reports don't revive it": of a row that
\* became "stopped" otherwise than by a cancel_tx that overtook the monitor, a
\* report writes no other status, but for an echo.
THEOREM RevivedOnlyByCancel ==
    Spec => [][\A m \in Msgs :
                  status[m] = "stopped" /\ canc[m] # "done" /\ mon # NoEvent /\ mon' = NoEvent
                     => status'[m] \in {"stopped", "confirmed"}]_vars
<1>1. Init => ReadBeforeStop
  BY DEF Init, ServiceInit, ReadBeforeStop, NoEvent, Event, TxStatuses
<1>2. TypeOK /\ ReadBeforeStop /\ [Next]_vars => ReadBeforeStop'
  BY ReadBeforeStopNext
<1>3. TypeOK /\ ReadBeforeStop /\ [Next]_vars
        => [\A m \in Msgs :
               status[m] = "stopped" /\ canc[m] # "done" /\ mon # NoEvent /\ mon' = NoEvent
                  => status'[m] \in {"stopped", "confirmed"}]_vars
  <2> SUFFICES ASSUME TypeOK, ReadBeforeStop, Next, NEW m \in Msgs,
                      status[m] = "stopped", canc[m] # "done", mon # NoEvent, mon' = NoEvent
               PROVE  status'[m] \in {"stopped", "confirmed"}
    OBVIOUS
  <2>1. MonitorWrite
    <3>1. ~Worker
      BY DEF Worker, serviceVars
    <3>2. ASSUME NEW n \in Msgs PROVE ~SendStep(n) /\ ~CancelStep(n)
      BY DEF SendStep, Store, Enqueue, PutUnblocks, Refuse, Crash, CancelStep, CancelRead,
             CancelPut, CancelWrite
    <3>3. ~StationStep
      BY DEF StationStep, Start, StartBoot, StartPut, Stop, Retune, Waterfall, ClassicBoot,
             QuitSdr, PutStart, serviceVars
    <3>4. ~MonitorRead
      BY DEF MonitorRead
    <3> QED
      BY <3>1, <3>2, <3>3, <3>4 DEF Next, Service, ServiceNext, MonitorStep
  <2>2. mon \in Reports /\ mon.ev \in TxStatuses \cup {"echo"} /\ mon.msg \in Msgs
        /\ status \in [Msgs -> {"none", "queued", "confirmed"} \cup TxStatuses]
    BY DEF TypeOK, ServiceTypeOK, Reports
  <2>3. status' = [status EXCEPT ![mon.msg] = IF mon.ev = "echo" THEN "confirmed" ELSE mon.ev]
    BY <2>1 DEF MonitorWrite
  <2>4. CASE mon.msg # m
    BY <2>2, <2>3, <2>4
  <2>5. CASE mon.msg = m
    <3>1. mon.ev = "echo"
      BY <2>2, <2>5 DEF ReadBeforeStop
    <3> QED
      BY <2>2, <2>3, <2>5, <3>1
  <2> QED
    BY <2>4, <2>5
<1> QED
  BY <1>1, <1>2, <1>3, TypeCorrect, PTL DEF Spec
-----------------------------------------------------------------------------
(* What a thread still has to do runs down, turn by turn: of the liveness  *)
(* properties HaltedThreadsEnd and EveryMessageSettles nothing is left but *)
(* that its turns come.                                                    *)

\* The turns a thread told to stop has before it ends.
TurnsLeft(r) ==
    IF Free(r) THEN 0 ELSE IF run[r].pc \in {"listen", "chunk", "drain"} THEN 1 ELSE 2

\* The turns a thread has with the request it holds.
BurstLeft(r) ==
    CASE run[r].pc = "listen" -> 2 * Chunks + 5 + (QuietPolls - run[r].quiet)
      [] run[r].pc = "prep"   -> 2 * Chunks + 4
      [] run[r].pc = "chunk"  -> 2 * run[r].left + 3
      [] run[r].pc = "write"  -> 2 * run[r].left + 2
      [] run[r].pc = "drain"  -> 1
      [] OTHER -> 0

\* A thread changes its own slot only.
LEMMA ThreadsMindThemselves ==
    ASSUME run \in [Slots -> Runner], NEW r \in Slots, NEW q \in Slots, q # r, TxThread(r)
    PROVE  run'[q] = run[q]
BY DEF TxThread, TxTake, TxExit, PollBusy, PollQuiet, PollTimeout, ListenHalted, TxKey,
       TxChunk, TxWrite, TxEnd, TxHalted, TxCancelled, TxDrained, TxError, Finish

\* Nobody but a thread itself moves it on; a process that ends takes it along,
\* and a launch builds a new one where none is.
LEMMA OnlyItselfMoves ==
    ASSUME TypeOK, [Next]_vars, NEW q \in Slots, ~TxThread(q)
    PROVE  \/ /\ run'[q].pc = run[q].pc /\ run'[q].quiet = run[q].quiet
              /\ run'[q].left = run[q].left
           \/ run'[q] = NoThread
           \/ Free(q) /\ run'[q] = NewRunner
<1>t. run \in [Slots -> Runner]
  BY DEF TypeOK, RunnerTypeOK
<1>1. CASE run' = run
  BY <1>1
<1>2. ASSUME NEW r \in Slots, TxThread(r) PROVE run'[q] = run[q]
  <2>1. q # r
    BY <1>2
  <2> QED
    BY <1>2, <2>1, <1>t, ThreadsMindThemselves
<1>3. CASE TakeCommand \/ LeaveLoop
  <2>1. \/ run' = run
        \/ run' = [run EXCEPT ![main.cur].flags = @ \cup {"halt"}]
        \/ run' = [run EXCEPT ![main.cur].cancelled = @ \cup {Head(cfgQ).msg}]
    BY <1>3 DEF TakeCommand, LeaveLoop, StopThen, StopRunner, NoStation
  <2> QED
    BY <2>1, <1>t DEF Runner
<1>4. CASE JoinDone \/ JoinTimeout \/ \E r \in Slots : RxFails(r)
  BY <1>4, <1>t DEF JoinDone, JoinTimeout, LeaveRunner, RxFails, Runner
<1>5. ASSUME NEW r \in Slots, Launch(r) PROVE run'[q] = run[q] \/ (Free(q) /\ run'[q] = NewRunner)
  BY <1>5, <1>t DEF Launch
<1>6. CASE WorkerExit \/ WorkerDies
  BY <1>6 DEF WorkerExit, WorkerDies, Gone
<1>7. CASE \/ Configure \/ LaunchFails \/ Reconnect \/ ReconnectFails \/ Service
           \/ UNCHANGED vars \/ \E r \in Slots, m \in Msgs : EchoDecoded(r, m)
  BY <1>1, <1>7 DEF Configure, LaunchFails, Reconnect, ReconnectFails, Service, vars, runnerVars,
                    EchoDecoded
<1> QED
  BY <1>2, <1>3, <1>4, <1>5, <1>6, <1>7
     DEF Next, Worker, RunnerNext, MainLoop, WorkerFaults

\* Each turn of a thread told to stop brings it nearer to its end.
LEMMA HaltedTurn ==
    ASSUME TypeOK, NEW q \in Slots, TxThread(q), Halted(q)
    PROVE  TurnsLeft(q)' < TurnsLeft(q)
<1>t. run \in [Slots -> Runner]
  BY DEF TypeOK, RunnerTypeOK
<1> USE DEF TurnsLeft, Free, Runner
<1>1. CASE TxTake(q)
  <2>1. run'[q].pc \in {"over", "listen"}
    <3>1. CASE Head(txQ) \in run[q].cancelled
      BY <1>1, <1>t, <3>1 DEF TxTake, AfterBurst
    <3>2. CASE Head(txQ) \notin run[q].cancelled
      BY <1>1, <1>t, <3>2 DEF TxTake
    <3> QED
      BY <3>1, <3>2
  <2> QED
    BY <1>1, <2>1 DEF TxTake
<1>2. CASE TxExit(q)
  BY <1>2, <1>t DEF TxExit
<1>3. CASE \E v \in Verdicts : Finish(q, v)
  <2>1. run'[q].pc = "over"
    BY <1>3, <1>t DEF Finish, AfterBurst
  <2>2. ~Free(q)
    BY <1>1, <1>2, <1>3 DEF TxThread, PollBusy, PollQuiet, PollTimeout, ListenHalted, Listening,
       TxKey, TxChunk, TxWrite, TxEnd, TxHalted, TxCancelled, TxDrained, TxError, TxTake, TxExit
  <2> QED
    BY <2>1, <2>2
<1>4. CASE TxKey(q)
  BY <1>4, <1>t DEF TxKey
<1>5. CASE TxWrite(q) \/ TxEnd(q)
  BY <1>5, <1>t DEF TxWrite, TxEnd
<1>6. ~PollBusy(q) /\ ~PollQuiet(q) /\ ~TxChunk(q)
  BY DEF PollBusy, PollQuiet, Listening, TxChunk
<1> QED
  BY <1>1, <1>2, <1>3, <1>4, <1>5, <1>6
     DEF TxThread, PollTimeout, ListenHalted, TxHalted, TxCancelled, TxDrained, TxError, Verdicts

\* Each turn of a thread in _transmit brings it nearer to its verdict, but a
\* poll that finds the channel busy.
LEMMA BurstTurn ==
    ASSUME TypeOK, NEW q \in Slots, TxThread(q), run[q].pc \in Busy, ~PollBusy(q)
    PROVE  BurstLeft(q)' < BurstLeft(q)
<1> USE RunnerAssumption
<1>t. /\ run \in [Slots -> Runner]
      /\ run[q].quiet \in 0 .. QuietPolls /\ run[q].left \in 0 .. Chunks
  BY DEF TypeOK, RunnerTypeOK, Runner
<1>1. CASE PollQuiet(q)
  <2>1. run[q].pc = "listen"
    BY <1>1 DEF PollQuiet, Listening
  <2>2. CASE run[q].quiet < QuietPolls
    <3>1. run'[q].pc = "listen" /\ run'[q].quiet = run[q].quiet + 1
      BY <1>1, <1>t, <2>1, <2>2 DEF PollQuiet, Runner
    <3> QED
      BY <1>t, <2>1, <3>1 DEF BurstLeft
  <2>3. CASE ~(run[q].quiet < QuietPolls)
    <3>1. run'[q].pc = "prep"
      BY <1>1, <1>t, <2>3 DEF PollQuiet, Runner
    <3> QED
      BY <1>t, <2>1, <3>1 DEF BurstLeft
  <2> QED
    BY <2>2, <2>3
<1>2. CASE TxKey(q)
  <2>1. run[q].pc = "prep" /\ run'[q].pc = "chunk" /\ run'[q].left = Chunks
    BY <1>2, <1>t DEF TxKey, Runner
  <2> QED
    BY <2>1 DEF BurstLeft
<1>3. CASE TxChunk(q)
  <2>1. run[q].pc = "chunk" /\ run'[q].pc = "write" /\ run'[q].left = run[q].left
    BY <1>3, <1>t DEF TxChunk, Runner
  <2> QED
    BY <1>t, <2>1 DEF BurstLeft
<1>4. CASE TxWrite(q)
  <2>1. run[q].pc = "write" /\ run'[q].pc = "chunk" /\ run'[q].left = run[q].left - 1
    BY <1>4, <1>t DEF TxWrite, Runner
  <2> QED
    BY <1>t, <2>1 DEF BurstLeft
<1>5. CASE TxEnd(q)
  <2>1. run[q].pc = "write" /\ run'[q].pc = "drain"
    BY <1>5, <1>t DEF TxEnd, Runner
  <2> QED
    BY <1>t, <2>1 DEF BurstLeft
<1>6. CASE \E v \in Verdicts : Finish(q, v)
  <2>1. run'[q].pc \in {"over", "idle"}
    BY <1>6, <1>t DEF Finish, AfterBurst, Runner
  <2>2. BurstLeft(q)' = 0
    BY <2>1 DEF BurstLeft
  <2>3. BurstLeft(q) > 0
    BY <1>t DEF BurstLeft, Busy
  <2> QED
    BY <2>2, <2>3
<1>7. ~TxTake(q) /\ ~TxExit(q)
  BY DEF TxTake, TxExit, Busy
<1> QED
  BY <1>1, <1>2, <1>3, <1>4, <1>5, <1>6, <1>7
     DEF TxThread, PollTimeout, ListenHalted, TxHalted, TxCancelled, TxDrained, TxError, Verdicts

\* A thread told to stop has two turns at most before it ends, and nothing but a
\* restart of the process changes that, whether or not stop() waited for it: the
\* safety part of HaltedThreadsEnd.
THEOREM HaltedThreadsRunDown ==
    Spec => [][\A r \in Slots : Halted(r) /\ Halted(r)' =>
                  /\ TurnsLeft(r)' <= TurnsLeft(r)
                  /\ TxThread(r) => TurnsLeft(r)' < TurnsLeft(r)]_vars
<1>1. ASSUME TypeOK, [Next]_vars, NEW r \in Slots, Halted(r), Halted(r)'
      PROVE  /\ TurnsLeft(r)' <= TurnsLeft(r)
             /\ TxThread(r) => TurnsLeft(r)' < TurnsLeft(r)
  <2>1. TurnsLeft(r) \in 0 .. 2 /\ TurnsLeft(r)' \in 0 .. 2
    BY DEF TurnsLeft
  <2>2. CASE TxThread(r)
    BY <1>1, <2>1, <2>2, HaltedTurn
  <2>3. CASE ~TxThread(r)
    <3>1. run'[r] # NewRunner
      BY <1>1 DEF Halted, NewRunner
    <3>2. run'[r].pc = run[r].pc \/ run'[r] = NoThread
      BY <1>1, <2>3, <3>1, OnlyItselfMoves
    <3> QED
      BY <2>1, <2>3, <3>2 DEF TurnsLeft, Free, NoThread
  <2> QED
    BY <2>2, <2>3
<1>2. TypeOK /\ [Next]_vars => [\A r \in Slots : Halted(r) /\ Halted(r)' =>
                  /\ TurnsLeft(r)' <= TurnsLeft(r)
                  /\ TxThread(r) => TurnsLeft(r)' < TurnsLeft(r)]_vars
  BY <1>1
<1> QED
  BY <1>2, TypeCorrect, PTL DEF Spec

\* A thread that holds a request has a bounded number of turns with it, polls of a
\* busy channel aside, which LBT_TIMEOUT_S ends; nothing but its own turns and the
\* end of the process changes how many: what EveryMessageSettles rests on.
THEOREM BurstsRunDown ==
    Spec => [][\A r \in Slots : run[r].pc \in Busy =>
                  \/ BurstLeft(r)' < BurstLeft(r)
                  \/ PollBusy(r)
                  \/ BurstLeft(r)' = BurstLeft(r) /\ ~TxThread(r)]_vars
<1>1. ASSUME TypeOK, [Next]_vars, NEW r \in Slots, run[r].pc \in Busy, ~PollBusy(r)
      PROVE  \/ BurstLeft(r)' < BurstLeft(r)
             \/ BurstLeft(r)' = BurstLeft(r) /\ ~TxThread(r)
  <2>1. CASE TxThread(r)
    BY <1>1, <2>1, BurstTurn
  <2>2. CASE ~TxThread(r)
    <3>1. CASE run'[r] = NoThread
      <4>1. BurstLeft(r)' = 0
        BY <3>1 DEF BurstLeft, NoThread
      <4>2. BurstLeft(r) > 0
        <5>1. run[r].quiet \in 0 .. QuietPolls /\ run[r].left \in 0 .. Chunks
          BY <1>1 DEF TypeOK, RunnerTypeOK, Runner
        <5> QED
          BY <1>1, <5>1, RunnerAssumption DEF BurstLeft, Busy
      <4> QED
        BY <4>1, <4>2
    <3>2. CASE run'[r].pc = run[r].pc /\ run'[r].quiet = run[r].quiet /\ run'[r].left = run[r].left
      BY <2>2, <3>2 DEF BurstLeft
    <3>3. ~Free(r)
      BY <1>1 DEF Free, Busy
    <3> QED
      BY <1>1, <2>2, <3>1, <3>2, <3>3, OnlyItselfMoves
  <2> QED
    BY <2>1, <2>2
<1>2. TypeOK /\ [Next]_vars => [\A r \in Slots : run[r].pc \in Busy =>
                  \/ BurstLeft(r)' < BurstLeft(r)
                  \/ PollBusy(r)
                  \/ BurstLeft(r)' = BurstLeft(r) /\ ~TxThread(r)]_vars
  BY <1>1
<1> QED
  BY <1>2, TypeCorrect, PTL DEF Spec
=============================================================================
