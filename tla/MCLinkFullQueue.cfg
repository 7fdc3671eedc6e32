\* Three messages for a TX queue of one place: one on the air, one queued, one
\* whose put holds up the event loop.
SPECIFICATION FairSpec
CONSTANTS
  Msgs = {m1, m2, m3}
  Files = {}
  NoMsg = NoMsg
  TxQueueMax = 1
  Moves <- StopMoves
  MaxMoves = 2
  Slots = {r1}
  NoRunner = NoRunner
  QuietPolls = 0
  Chunks = 1
  MaxEchoes = 0
PROPERTIES
  LoopUnblocks
CHECK_DEADLOCK FALSE
