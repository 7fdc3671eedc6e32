\* A radio that is reconnected while the station runs.
SPECIFICATION Spec
CONSTANTS
  Msgs = {m1}
  Files = {}
  NoMsg = NoMsg
  TxQueueMax = 1
  Moves <- ReconnectMoves
  MaxMoves = 2
  Slots = {r1}
  NoRunner = NoRunner
  QuietPolls = 0
  Chunks = 1
  MaxEchoes = 0
PROPERTIES
  KeyedOnUplink
CHECK_DEADLOCK FALSE
