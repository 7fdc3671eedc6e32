------------------------------- MODULE MCLink -------------------------------
(* Instances of Link for TLC: the sets of moves each configuration allows. *)
EXTENDS Link

\* The operator at work.
OperatorMoves == {"start", "stop", "cancel"}

\* Everything that can happen to the process and the radio under the operator.
FaultMoves == {"start", "stop", "retune", "waterfall", "flush", "classic", "quit",
               "die", "reconnect", "reconnectfail", "rxfail", "launchfail", "txfail",
               "deaf"}

\* What the operator does to a station that then stays up.
LivenessMoves == {"start", "stop", "cancel", "rxfail"}

\* Restarts whose join gives up on a TX thread in a long call, and a radio
\* that reconnects.
SlowJoinMoves == {"start", "stop", "slowjoin", "reconnect"}

\* The moves of the counterexamples.
RestartMoves == {"start", "stop", "cancel"}
StopMoves == {"start", "stop"}
CancelMoves == {"start", "cancel"}
ReconnectMoves == {"start", "reconnect"}

Symmetry == Permutations(Msgs)
=============================================================================
