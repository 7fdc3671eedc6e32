\* A message stopped by the operator, and a station that is restarted.
SPECIFICATION Spec
CONSTANTS
  Msgs = {m1}
  Files = {}
  NoMsg = NoMsg
  TxQueueMax = 1
  Moves <- RestartMoves
  MaxMoves = 4
  Slots = {r1}
  NoRunner = NoRunner
  QuietPolls = 0
  Chunks = 1
  MaxEchoes = 0
PROPERTIES
  StoppedStaysOffAir
CHECK_DEADLOCK FALSE
