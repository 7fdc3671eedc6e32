\* One file, and everything that can happen to the process, the radio and the
\* classic page under it.
SPECIFICATION Spec
CONSTANTS
  Msgs = {m1}
  Files = {m1}
  NoMsg = NoMsg
  TxQueueMax = 1
  Moves <- FaultMoves
  MaxMoves = 4
  Slots = {r1}
  NoRunner = NoRunner
  QuietPolls = 1
  Chunks = 1
  MaxEchoes = 1
PROPERTIES
  CourierKept
CHECK_DEADLOCK FALSE
