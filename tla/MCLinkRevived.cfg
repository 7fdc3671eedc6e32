\* A cancel that interleaves with the monitor's read and write of the row.
SPECIFICATION Spec
CONSTANTS
  Msgs = {m1}
  Files = {}
  NoMsg = NoMsg
  TxQueueMax = 1
  Moves <- CancelMoves
  MaxMoves = 2
  Slots = {r1}
  NoRunner = NoRunner
  QuietPolls = 0
  Chunks = 1
  MaxEchoes = 0
PROPERTIES
  StoppedNotRevived
CHECK_DEADLOCK FALSE
