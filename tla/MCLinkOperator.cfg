\* Two messages and an operator who starts, stops and cancels at any moment;
\* the process and the radio work.
SPECIFICATION Spec
CONSTANTS
  Msgs = {m1, m2}
  Files = {}
  NoMsg = NoMsg
  TxQueueMax = 1
  Moves <- OperatorMoves
  MaxMoves = 3
  Slots = {r1}
  NoRunner = NoRunner
  QuietPolls = 0
  Chunks = 1
  MaxEchoes = 1
SYMMETRY Symmetry
INVARIANTS
  TypeOK
  OneTransmitter
  Attenuated
  PendingIsOnItsWay
PROPERTIES
  ConfirmedNotUndone
  CourierKept
CHECK_DEADLOCK FALSE
