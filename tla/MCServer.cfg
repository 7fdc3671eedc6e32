\* The components of the server, one at a time.
SPECIFICATION MCSpec
CONSTANTS
  Clients = {c1, c2}
  MaxWorkers = 2
  MaxCrashes = 1
  Types = {"fsk", "sstv"}
  Commands = {k1, k2}
  Restarts = {d1, d2}
  MaxDecoders = 4
  Recordings = {r1, r2}
  Syncs = {y1, y2}
  MaxEdits = 2
  MaxReboots = 1
  MaxDowns = 1
  Patient = TRUE
  Clicks = {b1, b2}
  Savings = {s1, s2}
  MaxTries = 3
  MaxSaves = 2
  MaxCuts = 1
  Gentle = TRUE
  AirFiles = {1, 2, 3}
  LastSeq <- MCLastSeq
  FrameType <- MCFrameType
  Repeat = 2
  DoneWindow = 2
  MaxSends = 6
  Errors = {1}
  Span = 4
  Strays = {4}
  MaxActs = 2
  Clouds = TRUE
  PassOrder <- MCPassOrder
  Window <- MCWindow
  Generators = {g1, g2}
  Overriding = {g2}
  Horizon = 3
  KeepFor = 0
  MaxRows = 2
  TaskIds = {t1, t2}
  SyncIds = {t1, t2}
  Sats = {"a", "b"}
  Requests <- MCRequests
  Updates = {u1, u2}
  MaxServerStarts = 1
  Ours = {o1, o2}
  Nodes = {n1, n2}
  WatchLimit = 2
  MaxEvents = 3
  TleSources = {w1, w2}
  Norads = {"x", "y"}
  Trans = {"t1", "t2", "t3"}
  Imports = {"t3"}
  Cat <- MCCat
  Follows <- MCFollows
  MaxSyncs = 2
  MaxChanges = 3
  Unhindered = TRUE
  Tunings = {1, 2}
  Frequency <- MCFrequency
  Rate <- MCRate
  MaxTakes = 2
  ChunkRoom = 1
  MaxChunks = 2
INVARIANTS
  ServerTypeOK
  
  RecordingHasItsStop
  JobsFollowRow
  RowTellsPayment
  RelayedOnce
  NotTwice
  CleanFileArrives
  LockIsMeasured
  OneSync
  ShownAsItIs
  EverythingBelongs
  SamplesAreLabelled
PROPERTIES
  EntryKept
  OneWorkerKept
  StoppedForCause
  StopEnds
  DecoderKept
  RecordingEnds
  RelayHappens
  ConvergesOrDistrusts
  
  NoSecondRow
  DeadIsNoticed
  TrackerFollowsRow
  SettledIsShown
  SyncKeepsListed
CHECK_DEADLOCK FALSE
