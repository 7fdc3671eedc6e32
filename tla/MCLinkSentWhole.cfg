\* A station that is stopped during a burst.
SPECIFICATION Spec
CONSTANTS
  Msgs = {m1}
  Files = {}
  NoMsg = NoMsg
  TxQueueMax = 1
  Moves <- StopMoves
  MaxMoves = 2
  Slots = {r1}
  NoRunner = NoRunner
  QuietPolls = 0
  Chunks = 1
  MaxEchoes = 0
PROPERTIES
  SentIsWhole
CHECK_DEADLOCK FALSE
