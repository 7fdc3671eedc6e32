\* Two runners alive at once: stop() gave up waiting for a TX thread.
SPECIFICATION FairSpec
CONSTANTS
  Msgs = {m1, m2}
  Files = {}
  NoMsg = NoMsg
  TxQueueMax = 1
  Moves <- SlowJoinMoves
  MaxMoves = 3
  Slots = {r1, r2}
  NoRunner = NoRunner
  QuietPolls = 0
  Chunks = 1
  MaxEchoes = 0
INVARIANT KeyedIsKnown
PROPERTIES
  OnlyCurrentTransmits
  HaltedThreadsEnd
CHECK_DEADLOCK FALSE
