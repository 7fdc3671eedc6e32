\* A message and a file, an operator and an RX thread that may die, under the
\* scheduling fairness of Link.
SPECIFICATION FairSpec
CONSTANTS
  Msgs = {m1, m2}
  Files = {m2}
  NoMsg = NoMsg
  TxQueueMax = 1
  Moves <- LivenessMoves
  MaxMoves = 2
  Slots = {r1}
  NoRunner = NoRunner
  QuietPolls = 0
  Chunks = 1
  MaxEchoes = 1
PROPERTIES
  EveryMessageSettles
CHECK_DEADLOCK FALSE
