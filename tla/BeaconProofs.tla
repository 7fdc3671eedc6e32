----------------------------- MODULE BeaconProofs -----------------------------
(***************************************************************************)
(* That a locked beacon tracker rests on readings it took, for any receive *)
(* errors, search span and lines of others, any number of calibrations,    *)
(* retunes and restarts, and whatever the weather.  Then that the          *)
(* satellite tracker shows of rotator and rig what it did with them, for   *)
(* any requests and failing hardware.                                      *)
(***************************************************************************)
EXTENDS Beacon, Tracker, TLAPS

TrackerStates == [offset : Seeds, locked : BOOLEAN, steady : BOOLEAN, seeded : BOOLEAN,
                  misses : 0 .. 4, tights : 0 .. 3, last : Misses \cup {"none"}]

\* A state of the tracker whose lock, if there is one, rests on readings.
Measured(t) ==
    t.locked => t.last \in {"tight", "near"} /\ t.misses < 4 /\ ~t.seeded

BeaconInv == BeaconTypeOK /\ LockIsMeasured
-----------------------------------------------------------------------------
LEMMA SeedsAreTyped == NoSeed \in Seeds /\ \A f \in Int : SeedAt(f) \in Seeds
  BY DEF NoSeed, SeedAt, Seeds

\* Setting one field of the tracker; a step that sets several is a chain.
LEMMA TrackerFields ==
    ASSUME NEW t \in TrackerStates
    PROVE  /\ \A x \in Seeds : [t EXCEPT !.offset = x] \in TrackerStates
           /\ \A x \in BOOLEAN : [t EXCEPT !.locked = x] \in TrackerStates
           /\ \A x \in BOOLEAN : [t EXCEPT !.seeded = x] \in TrackerStates
           /\ \A x \in 0 .. 3 : [t EXCEPT !.tights = x] \in TrackerStates
           /\ \A x \in Misses \cup {"none"} : [t EXCEPT !.last = x] \in TrackerStates
  BY DEF TrackerStates

\* What a measurement makes of the tracker keeps the invariant, if the state
\* it leads to is typed and measured.
LEMMA BecomesKeeps ==
    ASSUME BeaconInv, NEW t \in TrackerStates, Measured(t), Becomes(t)
    PROVE  BeaconInv'
<1>1. tracker' \in TrackerStates /\ Measured(tracker')
  <2>1. tracker' = [t EXCEPT !.steady = @ /\ t.locked]
    BY DEF Becomes
  <2> QED
    BY <2>1 DEF TrackerStates, Measured
<1>2. tracker'.locked = t.locked /\ tracker'.offset = t.offset
  BY DEF Becomes, TrackerStates
<1>3. correction' \in Int /\ (t.locked => correction' = t.offset.at)
  BY DEF Becomes, BeaconInv, BeaconTypeOK, Tuning, TrackerStates, Seeds
<1>4. BeaconTypeOK'
  BY <1>1, <1>3 DEF Becomes, BeaconInv, BeaconTypeOK, TrackerStates, Tuning
<1> QED
  BY <1>1, <1>2, <1>3, <1>4 DEF BeaconInv, LockIsMeasured, Measured

LEMMA NewTrackerIsMeasured ==
    ASSUME NEW seed \in Seeds
    PROVE  /\ NewTracker(seed) \in TrackerStates /\ ~NewTracker(seed).locked
           /\ FirstCorrection(seed) \in Int
  BY DEF NewTracker, TrackerStates, FirstCorrection, Seeds

\* Giving up a lock that missed too much, and only that, keeps it measured.
LEMMA GiveUpIsMeasured ==
    ASSUME NEW t \in TrackerStates, t.locked => t.last \in {"tight", "near"} /\ ~t.seeded
    PROVE  GiveUp(t) \in TrackerStates /\ Measured(GiveUp(t))
<1>1. CASE t.misses >= 4
  <2> DEFINE a == [t EXCEPT !.locked = FALSE]
             b == [a EXCEPT !.seeded = FALSE]
             c == [b EXCEPT !.tights = 0]
  <2>1. GiveUp(t) = [c EXCEPT !.last = "none"]
    BY <1>1 DEF GiveUp
  <2>2. a \in TrackerStates /\ ~a.locked
    BY TrackerFields DEF TrackerStates
  <2> HIDE DEF a
  <2>3. b \in TrackerStates /\ ~b.locked
    BY <2>2, TrackerFields DEF TrackerStates
  <2> HIDE DEF b
  <2>4. c \in TrackerStates /\ ~c.locked
    BY <2>3, TrackerFields DEF TrackerStates
  <2> HIDE DEF c
  <2>5. GiveUp(t) \in TrackerStates /\ ~GiveUp(t).locked
    BY <2>1, <2>4, TrackerFields DEF TrackerStates
  <2> QED
    BY <2>5 DEF Measured
<1>2. CASE ~(t.misses >= 4)
  <2>1. GiveUp(t) = t /\ t.misses < 4
    BY <1>2 DEF GiveUp, TrackerStates
  <2> QED
    BY <2>1 DEF Measured
<1> QED
  BY <1>1, <1>2

LEMMA MissedIsTyped ==
    ASSUME NEW t \in TrackerStates
    PROVE  /\ Missed(t) \in TrackerStates
           /\ Missed(t).locked = t.locked /\ Missed(t).last = t.last /\ Missed(t).seeded = t.seeded
  BY DEF Missed, TrackerStates

LEMMA FoundIsMeasured ==
    ASSUME BeaconInv
    PROVE  /\ tracker \in TrackerStates /\ Found \in TrackerStates
           /\ Found.locked = tracker.locked /\ Found.last = tracker.last
           /\ Found.seeded = tracker.seeded
           /\ tracker.locked => tracker.last \in {"tight", "near"} /\ ~tracker.seeded
  BY DEF BeaconInv, BeaconTypeOK, TrackerStates, Found, LockIsMeasured

LEMMA LineIsTyped ==
    ASSUME NEW t \in TrackerStates, NEW offset \in Seeds, NEW tights \in 0 .. 3,
           NEW last \in Misses \cup {"none"}
    PROVE  [t EXCEPT !.offset = offset, !.seeded = FALSE, !.tights = tights, !.last = last]
              \in TrackerStates
<1> DEFINE a == [t EXCEPT !.offset = offset]
           b == [a EXCEPT !.seeded = FALSE]
           c == [b EXCEPT !.tights = tights]
<1>1. a \in TrackerStates
  BY TrackerFields
<1> HIDE DEF a
<1>2. b \in TrackerStates
  BY <1>1, TrackerFields
<1> HIDE DEF b
<1>3. c \in TrackerStates
  BY <1>2, TrackerFields
<1> HIDE DEF c
<1>4. [c EXCEPT !.last = last] \in TrackerStates
  BY <1>3, TrackerFields
<1> USE DEF a, b, c
<1> QED
  BY <1>4

LEMMA MeasureKeeps ==
    ASSUME BeaconInv, Measure
    PROVE  BeaconInv'
<1> USE FoundIsMeasured
<1>1. CASE Miss
  <2> DEFINE t == GiveUp(Missed(tracker))
  <2>1. t \in TrackerStates /\ Measured(t)
    BY MissedIsTyped, GiveUpIsMeasured
  <2>2. Becomes(t)
    BY <1>1 DEF Miss
  <2> HIDE DEF t
  <2> QED
    BY <2>1, <2>2, BecomesKeeps DEF Becomes
<1>2. ASSUME NEW f \in Spots, Distrust(f) PROVE BeaconInv'
  <2> DEFINE t == GiveUp(Missed(Found))
  <2>1. t \in TrackerStates /\ Measured(t)
    BY MissedIsTyped, GiveUpIsMeasured
  <2>2. Becomes(t)
    BY <1>2 DEF Distrust
  <2> HIDE DEF t
  <2> QED
    BY <2>1, <2>2, BecomesKeeps DEF Becomes
<1>3. ASSUME NEW f \in Spots, StepAside(f) PROVE BeaconInv'
  <2> DEFINE t == [Found EXCEPT !.offset = SeedAt(f), !.seeded = FALSE,
                                !.tights = 3, !.last = "tight"]
  <2>1. SeedAt(f) \in Seeds
    BY BeaconAssumption DEF SeedAt, Seeds, Spots
  <2>2. t \in TrackerStates
    <3>1. 3 \in 0 .. 3 /\ "tight" \in Misses \cup {"none"} /\ Found \in TrackerStates
      BY FoundIsMeasured DEF Misses
    <3> QED
      BY <2>1, <3>1, LineIsTyped, Zenon
  <2>3. t.last = "tight" /\ ~t.seeded /\ t.misses = 0
    BY DEF TrackerStates, Found, BeaconInv, BeaconTypeOK
  <2>4. Becomes(t)
    BY <1>3 DEF StepAside
  <2> HIDE DEF t
  <2> QED
    BY <2>2, <2>3, <2>4, BecomesKeeps DEF Becomes, Measured
<1>4. ASSUME NEW f \in Spots, Begin(f) PROVE BeaconInv'
  <2> DEFINE t == [Found EXCEPT !.offset = SeedAt(f), !.seeded = FALSE, !.tights = 0,
                                !.last = "none"]
  <2>1. SeedAt(f) \in Seeds
    BY BeaconAssumption DEF SeedAt, Seeds, Spots
  <2>2. t \in TrackerStates
    <3>1. 0 \in 0 .. 3 /\ "none" \in Misses \cup {"none"} /\ Found \in TrackerStates
      BY FoundIsMeasured
    <3> QED
      BY <2>1, <3>1, LineIsTyped, Zenon
  <2>3. ~t.locked
    BY <1>4 DEF TrackerStates, Begin
  <2>4. Becomes(t)
    BY <1>4 DEF Begin
  <2> HIDE DEF t
  <2> QED
    BY <2>2, <2>3, <2>4, BecomesKeeps DEF Becomes, Measured
<1>5. ASSUME NEW miss \in Misses, Track(miss) PROVE BeaconInv'
  <2> DEFINE had == IF tracker.seeded THEN 2 ELSE tracker.tights
             has == IF miss # "tight" THEN 0 ELSE IF had < 3 THEN had + 1 ELSE 3
             holds == \/ (tracker.locked \/ tracker.seeded) /\ miss \in {"tight", "near"}
                      \/ ~tracker.locked /\ ~tracker.seeded /\ has = 3
             t == [Found EXCEPT !.seeded = FALSE, !.tights = has, !.last = miss,
                                !.locked = holds]
  <2>0. tracker.tights \in 0 .. 3 /\ tracker.seeded \in BOOLEAN
    BY DEF TrackerStates
  <2>a. has \in 0 .. 3 /\ (has = 3 => miss = "tight")
    BY <2>0
  <2>1. has \in 0 .. 3 /\ (holds => miss \in {"tight", "near"}) /\ holds \in BOOLEAN
    <3> HIDE DEF has
    <3> QED
      BY <2>a
  <2>2. Becomes(t)
    BY <1>5 DEF Track
  <2> HIDE DEF has, holds
  <2>3. t \in TrackerStates
    BY <2>1 DEF TrackerStates, Misses
  <2>4. t.locked = holds /\ t.last = miss /\ ~t.seeded /\ t.misses = 0
    BY DEF TrackerStates, Found, BeaconInv, BeaconTypeOK
  <2> HIDE DEF t
  <2> QED
    BY <2>1, <2>2, <2>3, <2>4, BecomesKeeps DEF Becomes, Measured
<1> QED
  BY <1>1, <1>2, <1>3, <1>4, <1>5 DEF Measure
-----------------------------------------------------------------------------
LEMMA BeaconInitInv == BeaconInit => BeaconInv
<1> SUFFICES ASSUME BeaconInit PROVE BeaconInv
  OBVIOUS
<1>1. tracker \in TrackerStates /\ ~tracker.locked /\ correction \in Int
  BY SeedsAreTyped, NewTrackerIsMeasured DEF BeaconInit
<1>2. wire \in Seq(Int)
  BY DEF BeaconInit
<1>3. clear \in BOOLEAN /\ acts \in 0 .. MaxActs
  BY BeaconAssumption DEF BeaconInit
<1>4. running \in BOOLEAN /\ truth \in Errors
  BY DEF BeaconInit
<1>5. saved \in Int /\ plan \in Int /\ status \in Seeds /\ kept \in Seeds
  BY SeedsAreTyped DEF BeaconInit
<1> QED
  BY <1>1, <1>2, <1>3, <1>4, <1>5
     DEF BeaconInv, BeaconTypeOK, TrackerStates, Tuning, LockIsMeasured

LEMMA BeaconStepInv == BeaconInv /\ [BeaconNext]_beaconVars => BeaconInv'
<1> SUFFICES ASSUME BeaconInv, [BeaconNext]_beaconVars PROVE BeaconInv'
  OBVIOUS
<1> USE BeaconAssumption
<1>1. CASE UNCHANGED beaconVars
  BY <1>1 DEF beaconVars, BeaconInv, BeaconTypeOK, LockIsMeasured
<1>2. CASE Measure
  BY <1>2, MeasureKeeps
<1>3. CASE Steady
  <2>1. tracker' = [tracker EXCEPT !.steady = TRUE]
    BY <1>3 DEF Steady
  <2> QED
    BY <1>3, <2>1 DEF Steady, BeaconInv, BeaconTypeOK, LockIsMeasured
<1>4. CASE Status
  BY <1>4 DEF Status, SeedAt, NoSeed, Seeds, Tuning, BeaconInv, BeaconTypeOK, LockIsMeasured
<1>5. CASE Calibrate
  <2>1. saved' \in Int
    BY <1>5 DEF Calibrate, BeaconInv, BeaconTypeOK, Tuning, Seeds
  <2>2. wire' \in Seq(Int)
    BY <1>5, <2>1 DEF Calibrate, BeaconInv, BeaconTypeOK, Tuning
  <2> QED
    BY <1>5, <2>1, <2>2 DEF Calibrate, Act, BeaconInv, BeaconTypeOK, Tuning, LockIsMeasured
<1>6. CASE ChangeChannel
  BY <1>6 DEF ChangeChannel, Act, BeaconInv, BeaconTypeOK, Tuning, LockIsMeasured
<1>7. CASE Retune
  BY <1>7 DEF Retune, BeaconInv, BeaconTypeOK, Tuning, LockIsMeasured
<1>8. ASSUME NEW seed \in Seeds, NEW rx \in Int, NewStation(seed, rx)
      PROVE  /\ plan' \in Int /\ tracker' \in TrackerStates /\ correction' \in Int
             /\ ~tracker'.locked
  BY <1>8, NewTrackerIsMeasured DEF NewStation
<1>9. CASE RetuneRestarts
  <2> DEFINE seed == IF tracker.locked THEN SeedAt(correction) ELSE NoSeed
  <2>1. seed \in Seeds
    BY DEF SeedAt, NoSeed, Seeds, BeaconInv, BeaconTypeOK, Tuning
  <2>2. Head(wire) \in Int /\ wire' \in Seq(Int)
    BY <1>9 DEF RetuneRestarts, BeaconInv, BeaconTypeOK, Tuning
  <2>3. NewStation(seed, Head(wire))
    BY <1>9 DEF RetuneRestarts
  <2> HIDE DEF seed
  <2>4. plan' \in Int /\ tracker' \in TrackerStates /\ correction' \in Int /\ ~tracker'.locked
    BY <1>8, <2>1, <2>2, <2>3
  <2> QED
    BY <1>9, <2>2, <2>4
       DEF RetuneRestarts, BeaconInv, BeaconTypeOK, Tuning, LockIsMeasured, TrackerStates
<1>10. CASE StartStation
  <2>1. PICK seed \in {kept, NoSeed} : NewStation(seed, saved)
    BY <1>10 DEF StartStation
  <2>2. seed \in Seeds /\ saved \in Int
    BY SeedsAreTyped DEF BeaconInv, BeaconTypeOK, Tuning
  <2>3. plan' \in Int /\ tracker' \in TrackerStates /\ correction' \in Int /\ ~tracker'.locked
    BY <1>8, <2>1, <2>2
  <2> QED
    BY <1>10, <2>3
       DEF StartStation, Act, BeaconInv, BeaconTypeOK, Tuning, LockIsMeasured, TrackerStates
<1>11. CASE StopStation
  BY <1>11, SeedsAreTyped DEF StopStation, BeaconInv, BeaconTypeOK, LockIsMeasured
<1>12. CASE Weather
  BY <1>12 DEF Weather, BeaconInv, BeaconTypeOK, LockIsMeasured
<1> QED
  BY <1>1, <1>2, <1>3, <1>4, <1>5, <1>6, <1>7, <1>9, <1>10, <1>11, <1>12 DEF BeaconNext
-----------------------------------------------------------------------------
\* Every reachable state is typed, and a tracker is locked only on readings: no
\* seed, no calibration and no retune makes a lock, and the reading that was last
\* taken was close.  It says nothing of those that were not trusted since.
THEOREM LocksAreMeasured == BeaconSpec => [](BeaconTypeOK /\ LockIsMeasured)
  BY BeaconInitInv, BeaconStepInv, PTL DEF BeaconSpec, BeaconInv
-----------------------------------------------------------------------------
(***************************************************************************)
(* The tracker shows each device as it is.  handle_..._state_change may    *)
(* show a device connected that did not open, and only what follows in the *)
(* same iteration, validate_hardware_states, takes that back; so the       *)
(* invariant speaks of the states between two iterations, and needs of a   *)
(* row only that its states are states of a device.                        *)
(***************************************************************************)

DeviceRecords == [controller : BOOLEAN, connected : BOOLEAN, tracking : BOOLEAN]

LEMMA TrackingStates == ASSUME NEW r \in Rows, NEW d \in Devices PROVE r[d] \in DeviceStates
BY DEF Rows, Devices

\* A row with the fields of a request is a row.
LEMMA MergedRow ==
    ASSUME NEW r \in Rows, NEW request \in Requests
    PROVE  [f \in Fields |-> IF f \in DOMAIN request THEN request[f] ELSE r[f]] \in Rows
<1> DEFINE merged == [f \in Fields |-> IF f \in DOMAIN request THEN request[f] ELSE r[f]]
<1>1. merged["sat"] \in Sats \cup {NoSat}
  BY TrackerAssumption DEF Fields, Devices, Rows, DeviceStates
<1>2. merged["rotator"] \in DeviceStates
  BY TrackerAssumption DEF Fields, Devices, Rows, DeviceStates
<1>3. merged["rig"] \in DeviceStates
  BY TrackerAssumption DEF Fields, Devices, Rows, DeviceStates
<1>4. merged = [f \in Fields |-> merged[f]] /\ Fields = {"sat", "rotator", "rig"}
  BY DEF Fields, Devices
<1> SUFFICES merged \in Rows
  OBVIOUS
<1> HIDE DEF merged
<1> QED
  BY <1>1, <1>2, <1>3, <1>4 DEF Rows

LEMMA TrackerTypeInit == TrackerInit => TrackerTypeOK
<1> SUFFICES ASSUME TrackerInit PROVE TrackerTypeOK
  OBVIOUS
<1>1. EmptyRow \in Rows
  BY DEF EmptyRow, Rows, DeviceStates
<1>2. update \in [Calls -> [pc : Steps, row : Rows]]
  BY <1>1 DEF TrackerInit, Steps
<1>3. inputs \in [row : Rows, ephemeris : Sats \cup {NoSat}, applied : Rows]
  BY <1>1 DEF TrackerInit, NewInputs
<1>4. device \in [Devices -> DeviceRecords]
  BY DEF TrackerInit, NewDevice, DeviceRecords
<1>5. toTracker \in Seq(TrackerMessages)
  BY DEF TrackerInit
<1> QED
  BY <1>1, <1>2, <1>3, <1>4, <1>5, TrackerAssumption
     DEF TrackerInit, TrackerTypeOK, DeviceRecords

\* What the steps of a call do to it, and what it may send.
LEMMA StepType ==
    ASSUME TrackerTypeOK, NEW u \in Calls, NEW from, NEW to \in Steps, Step(u, from, to)
    PROVE  update' \in [Calls -> [pc : Steps, row : Rows]]
BY DEF TrackerTypeOK, Step

LEMMA TellType ==
    ASSUME TrackerTypeOK, NEW u \in Calls, NEW type \in {"state", "ephemeris"},
           Tell(type, update[u].row)
    PROVE  toTracker' \in Seq(TrackerMessages)
<1>1. [type |-> type, row |-> update[u].row] \in TrackerMessages
  BY DEF TrackerTypeOK, TrackerMessages
<1> QED
  BY <1>1 DEF TrackerTypeOK, Tell

\* What a state change and its validation make of a device.
LEMMA DrivenType ==
    ASSUME NEW v \in DeviceRecords, NEW state \in DeviceStates, NEW opens \in BOOLEAN
    PROVE  /\ Driven(v, state, opens) \in DeviceRecords
           /\ Validated(Driven(v, state, opens), state) \in DeviceRecords
<1>1. Opened(v, opens) \in DeviceRecords
  BY DEF Opened, DeviceRecords
<1>2. Driven(v, state, opens) \in DeviceRecords
  BY <1>1 DEF Driven, DeviceRecords, DeviceStates
<1> QED
  BY <1>2 DEF Validated, DeviceRecords

\* A device that was shown as it was, is shown as it is once validated.
LEMMA DrivenIsShown ==
    ASSUME NEW v \in DeviceRecords, NEW state \in DeviceStates, NEW opens \in BOOLEAN,
           v.connected <=> v.controller
    PROVE  LET w == Validated(Driven(v, state, opens), state)
           IN  w.connected <=> w.controller
<1>1. Opened(v, opens) \in DeviceRecords
      /\ (Opened(v, opens).connected <=> Opened(v, opens).controller)
  BY DEF Opened, DeviceRecords
<1>2. CASE state = "connected"
  BY <1>1, <1>2 DEF Validated, Driven, DeviceRecords
<1>3. CASE state = "tracking"
  BY <1>1, <1>3 DEF Validated, Driven, DeviceRecords
<1>4. CASE state = "disconnected"
  BY <1>4 DEF Validated, Driven, DeviceRecords
<1>5. CASE state \in {"stopped", "parked"}
  BY <1>5 DEF Validated, Driven, DeviceRecords
<1> QED
  BY <1>2, <1>3, <1>4, <1>5 DEF DeviceStates

LEMMA CorrectedType ==
    ASSUME NEW row \in Rows, NEW v PROVE Corrected(row, v) \in Rows
<1>1. "disconnected" \in DeviceStates /\ "stopped" \in DeviceStates
  BY DEF DeviceStates
<1> QED
  BY <1>1 DEF Corrected, Rows

\* An iteration leaves each device either as it was, but perhaps no longer
\* tracked, or driven to its new state; and validates it.
LEMMA IterateDevices ==
    ASSUME TrackerTypeOK, Iterate
    PROVE  /\ device' \in [Devices -> DeviceRecords]
           /\ ShownAsItIs => ShownAsItIs'
           /\ inputs' \in [row : Rows, ephemeris : Sats \cup {NoSat}, applied : Rows]
<1> DEFINE now == inputs.row
           fresh == [device EXCEPT !["rig"].tracking = @ /\ now.sat = inputs.applied.sat]
           driven(opens) == [d \in Devices |->
                               IF now[d] = inputs.applied[d] THEN fresh[d]
                               ELSE Driven(fresh[d], now[d], opens[d])]
<1>1. now \in Rows /\ inputs.applied \in Rows /\ device \in [Devices -> DeviceRecords]
  BY DEF TrackerTypeOK, DeviceRecords
<1>2. PICK opens \in [Devices -> BOOLEAN] :
         /\ device' = [d \in Devices |-> Validated(driven(opens)[d], now[d])]
         /\ inputs' = [inputs EXCEPT !.applied = now, !.row = Corrected(now, driven(opens))]
  BY DEF Iterate
<1>3. ASSUME NEW d \in Devices
      PROVE  /\ fresh[d] \in DeviceRecords
             /\ fresh[d].connected = device[d].connected
             /\ fresh[d].controller = device[d].controller
  BY <1>1 DEF Devices, DeviceRecords
<1>4. ASSUME NEW d \in Devices
      PROVE  /\ device'[d] \in DeviceRecords
             /\ (device[d].connected <=> device[d].controller)
                  => (device'[d].connected <=> device'[d].controller)
  <2>1. now[d] \in DeviceStates /\ opens[d] \in BOOLEAN
    BY <1>1, TrackingStates
  <2>2. fresh[d] \in DeviceRecords
    BY <1>3
  <2>3. device'[d] = Validated(IF now[d] = inputs.applied[d] THEN fresh[d]
                               ELSE Driven(fresh[d], now[d], opens[d]), now[d])
    BY <1>2
  <2>4. /\ Validated(fresh[d], now[d]) \in DeviceRecords
        /\ (fresh[d].connected <=> fresh[d].controller)
             => (Validated(fresh[d], now[d]).connected <=> Validated(fresh[d], now[d]).controller)
    <3> HIDE DEF fresh, now
    <3> QED
      BY <2>2 DEF Validated, DeviceRecords
  <2> HIDE DEF fresh, now
  <2> QED
    BY <1>3, <2>1, <2>2, <2>3, <2>4, DrivenType, DrivenIsShown
<1>5. Corrected(now, driven(opens)) \in Rows
  BY <1>1, CorrectedType
<1>6. inputs' \in [row : Rows, ephemeris : Sats \cup {NoSat}, applied : Rows]
  <2> HIDE DEF driven
  <2> QED
    BY <1>1, <1>2, <1>5 DEF TrackerTypeOK
<1>7. device' = [d \in Devices |-> device'[d]]
  BY <1>2
<1> HIDE DEF fresh, now, driven
<1>8. device' \in [Devices -> DeviceRecords]
  BY <1>4, <1>7
<1> QED
  BY <1>4, <1>6, <1>8 DEF ShownAsItIs

LEMMA TrackerStep ==
    ASSUME TrackerTypeOK, [TrackerNext]_trackerVars
    PROVE  TrackerTypeOK' /\ (ShownAsItIs => ShownAsItIs')
<1> USE TrackerAssumption
<1>d. DeviceRecords = [controller : BOOLEAN, connected : BOOLEAN, tracking : BOOLEAN]
  BY DEF DeviceRecords
<1>c. Updates \subseteq Calls
  BY DEF Calls
<1>s. Steps = {"new", "read", "written", "sent", "notify", "done"}
  BY DEF Steps
<1>o. \A u \in Calls : Overlap(u) \subseteq Mishaps
  BY DEF Overlap, Mishaps
<1>1. ASSUME NEW u \in Updates, NotifyReads(u) PROVE TrackerTypeOK' /\ UNCHANGED device
  BY <1>1, <1>c, <1>s, <1>o DEF NotifyReads, TrackerTypeOK
<1>2. ASSUME NEW u \in Updates, NEW request \in Requests, UpdateReads(u, request)
      PROVE  TrackerTypeOK' /\ UNCHANGED device
  <2> DEFINE merged == [f \in Fields |-> IF f \in DOMAIN request THEN request[f] ELSE dbRow[f]]
  <2>1. merged \in Rows
    BY MergedRow DEF TrackerTypeOK
  <2>2. update' = [update EXCEPT ![u] = [pc |-> "read", row |-> merged]]
    BY <1>2 DEF UpdateReads
  <2> HIDE DEF merged
  <2>3. update' \in [Calls -> [pc : Steps, row : Rows]]
    BY <2>1, <2>2, <1>c, <1>s DEF TrackerTypeOK
  <2> QED
    BY <1>2, <2>3, <1>c, <1>o DEF UpdateReads, TrackerTypeOK
<1>3. ASSUME NEW u \in Calls, CallGoesOn(u) PROVE TrackerTypeOK' /\ UNCHANGED device
  <2>t. \A to \in Steps, from \in Steps :
           Step(u, from, to) => update' \in [Calls -> [pc : Steps, row : Rows]]
    BY StepType
  <2>q. \A type \in {"state", "ephemeris"} :
           Tell(type, update[u].row) => toTracker' \in Seq(TrackerMessages)
    BY TellType
  <2>1. CASE UpdateWrites(u)
    <3>1. update' \in [Calls -> [pc : Steps, row : Rows]]
      BY <2>1, <2>t, <1>s DEF UpdateWrites
    <3>2. dbRow' \in Rows
      BY <2>1 DEF UpdateWrites, TrackerTypeOK
    <3>3. amiss' \subseteq Mishaps
      BY <2>1, <1>o DEF UpdateWrites, TrackerTypeOK
    <3> QED BY <2>1, <3>1, <3>2, <3>3 DEF UpdateWrites, TrackerTypeOK
  <2>2. CASE SendState(u)
    BY <2>2, <2>t, <2>q, <1>c, <1>s DEF SendState, TrackerTypeOK
  <2>3. CASE SendEphemeris(u)
    <3>1. amiss' \subseteq Mishaps
      BY <2>3 DEF SendEphemeris, TrackerTypeOK, Mishaps
    <3> QED BY <2>3, <3>1, <2>t, <2>q, <1>s DEF SendEphemeris, TrackerTypeOK
  <2>4. CASE NotifySends(u)
    BY <2>4, <2>t, <2>q, <1>c, <1>s DEF NotifySends, TrackerTypeOK
  <2> QED BY <1>3, <2>1, <2>2, <2>3, <2>4 DEF CallGoesOn
<1>4. CASE ServerRestarts
  <2>1. EmptyRow \in Rows
    BY DEF EmptyRow, Rows, DeviceStates
  <2>2. update' \in [Calls -> [pc : Steps, row : Rows]]
    BY <1>4, <1>s DEF ServerRestarts, TrackerTypeOK
  <2>3. inputs' \in [row : Rows, ephemeris : Sats \cup {NoSat}, applied : Rows]
    BY <1>4, <2>1 DEF ServerRestarts, NewInputs
  <2>4. device' = [d \in Devices |-> NewDevice]
    BY <1>4 DEF ServerRestarts
  <2>5. device' \in [Devices -> DeviceRecords] /\ ShownAsItIs'
    BY <2>4 DEF NewDevice, DeviceRecords, ShownAsItIs
  <2>6. toTracker' \in Seq(TrackerMessages) /\ dbRow' \in Rows /\ serverStarts' \in 0 .. MaxServerStarts
    BY <1>4 DEF ServerRestarts, TrackerTypeOK
  <2>7. amiss' \subseteq Mishaps
    BY <1>4 DEF ServerRestarts, Mishaps
  <2> QED BY <2>2, <2>3, <2>5, <2>6, <2>7, <1>d DEF TrackerTypeOK
<1>5. CASE Take
  <2> DEFINE m == Head(toTracker)
  <2>1. m \in TrackerMessages /\ toTracker' \in Seq(TrackerMessages)
    BY <1>5 DEF Take, TrackerTypeOK
  <2>2. m.row \in Rows /\ m.row.sat \in Sats \cup {NoSat}
    BY <2>1 DEF TrackerMessages, Rows
  <2> HIDE DEF m
  <2>3. /\ inputs' = IF m.type = "state" THEN [inputs EXCEPT !.row = m.row]
                     ELSE [inputs EXCEPT !.ephemeris = m.row.sat]
        /\ UNCHANGED <<dbRow, update, device, serverStarts, amiss>>
    BY <1>5 DEF Take, m
  <2>4. inputs' \in [row : Rows, ephemeris : Sats \cup {NoSat}, applied : Rows]
    BY <2>2, <2>3 DEF TrackerTypeOK
  <2> QED BY <2>1, <2>3, <2>4 DEF TrackerTypeOK, ShownAsItIs
<1>6. CASE Iterate
  <2>1. UNCHANGED <<dbRow, update, toTracker, serverStarts, amiss>>
    BY <1>6 DEF Iterate
  <2> QED
    BY <1>6, <2>1, IterateDevices, <1>d DEF TrackerTypeOK
<1>7. CASE UNCHANGED trackerVars
  BY <1>7 DEF trackerVars, TrackerTypeOK, ShownAsItIs
<1>8. UNCHANGED device => (ShownAsItIs => ShownAsItIs')
  BY DEF ShownAsItIs
<1> QED
  BY <1>1, <1>2, <1>3, <1>4, <1>5, <1>6, <1>7, <1>8 DEF TrackerNext

\* Between two iterations a device is shown connected exactly if there is a
\* controller of it: for any satellites, any calls, interleaved or not, any
\* messages underway, restarts, and devices that open or do not.
THEOREM TrackerShowsDevices == TrackerSpec => [](TrackerTypeOK /\ ShownAsItIs)
<1>1. TrackerInit => TrackerTypeOK /\ ShownAsItIs
  BY TrackerTypeInit DEF TrackerInit, NewDevice, ShownAsItIs
<1>2. TrackerTypeOK /\ ShownAsItIs /\ [TrackerNext]_trackerVars => (TrackerTypeOK /\ ShownAsItIs)'
  BY TrackerStep
<1> QED
  BY <1>1, <1>2, PTL DEF TrackerSpec
=============================================================================
