-------------------------------- MODULE Beacon --------------------------------
(***************************************************************************)
(* The beacon tracker of a station and what hangs on it: the correction    *)
(* applied to everything received (Station), the seed a restart begins     *)
(* with, and the calibration the operator saves into the profile           *)
(* (BitLink21Service.calibrate_rx).  Frequencies are in units of 200 Hz,   *)
(* half the distance of the beacon's side lines: a reading one unit off is *)
(* in the search window of +-300 Hz, and farther off than the 100 Hz that  *)
(* a tracker trusts.  What a reading misses the prediction by, below that, *)
(* is a class; the beacon's drift, and a rate of it, is not modelled.      *)
(***************************************************************************)
EXTENDS Integers, Sequences

CONSTANTS
    Errors,  \* receive errors of the LNB and the SDR
    Span,    \* how far from nominal the beacon is searched
    Strays,  \* where lines of others may be found in bad weather
    MaxActs, \* bound: calibrations, changes of channel and starts of the station
    Clouds   \* whether the signal may fade and other lines be heard

ASSUME BeaconAssumption ==
    /\ Errors \subseteq Int /\ Strays \subseteq Int
    /\ Span \in Nat /\ MaxActs \in Nat
    /\ Clouds \in BOOLEAN

\* What a reading misses the prediction by: < 15, < HOLD_LOCK_HZ, <= 100 Hz.
Misses == {"tight", "near", "loose"}
Spots == -Span .. Span
NoSeed == [known |-> FALSE, at |-> 0]
SeedAt(f) == [known |-> TRUE, at |-> f]

VARIABLES
    running,    \* the station runs
    truth,      \* the receive error there is
    clear,      \* the beacon is heard well, and nothing else
    saved,      \* settings["profile"]["rx_correction_hz"]
    wire,       \* profiles on the worker's config queue
    plan,       \* rx_correction_hz of the station's plan
    tracker,    \* BeaconTracker
    correction, \* Station.correction_hz
    status,     \* what last_status lets the operator calibrate: the correction of a
                \* lock of 10 s
    kept,       \* last_lnb_correction_hz, with last_lnb_locked_at
    acts

beaconVars == <<running, truth, clear, saved, wire, plan, tracker, correction,
                status, kept, acts>>

Tuning == Int
Seeds == [known : BOOLEAN, at : Int]

BeaconTypeOK ==
    /\ running \in BOOLEAN
    /\ truth \in Errors
    /\ clear \in BOOLEAN
    /\ saved \in Tuning /\ wire \in Seq(Tuning) /\ plan \in Tuning
    /\ tracker \in [offset : Seeds, locked : BOOLEAN, steady : BOOLEAN, seeded : BOOLEAN,
                    misses : 0 .. 4, tights : 0 .. 3, last : Misses \cup {"none"}]
    /\ correction \in Tuning
    /\ status \in Seeds /\ kept \in Seeds
    /\ acts \in 0 .. MaxActs

\* A mutant: locked from the seed alone.
NewLockedTracker(seed) == [offset |-> seed, locked |-> seed.known, steady |-> FALSE,
                           seeded |-> seed.known, misses |-> 0, tights |-> 0, last |-> "none"]

\* Station.__init__ and BeaconTracker.seed: a seed is searched first.
NewTracker(seed) == [offset |-> seed, locked |-> FALSE, steady |-> FALSE,
                     seeded |-> seed.known, misses |-> 0, tights |-> 0, last |-> "none"]
FirstCorrection(seed) == IF seed.known THEN seed.at ELSE 0

BeaconInit ==
    /\ running = FALSE
    /\ truth \in Errors
    /\ clear = ~Clouds
    /\ saved = 0 /\ wire = <<>> /\ plan = 0
    /\ tracker = NewTracker(NoSeed) /\ correction = FirstCorrection(NoSeed)
    /\ status = NoSeed /\ kept = NoSeed
    /\ acts = 0
-----------------------------------------------------------------------------
(* One measurement.  The window is +-300 Hz around the prediction while     *)
(* locked or seeded, and the whole span otherwise.                          *)

Narrow == tracker.locked \/ tracker.seeded
At == truth - plan

\* Station.process: only a locked tracker corrects.
Becomes(t) ==
    /\ tracker' = [t EXCEPT !.steady = @ /\ t.locked]
    /\ correction' = IF t.locked THEN t.offset.at ELSE correction
    /\ UNCHANGED <<running, truth, clear, saved, wire, plan, status, kept, acts>>

Apart(f, g) == IF f < g THEN g - f ELSE f - g

\* The lines of the beacon up to so many units beside its carrier.
Lines(reach) == {At + k : k \in {-4, -2, 0, 2, 4} \cap -reach .. reach} \cap Spots

\* The beacon is found at f from the strongest of its lines in the window, by at
\* most two steps to the carrier, or to the line nearest to it in the span.
FoundAt(f, reach) ==
    /\ f \in Lines(reach) /\ \A g \in Lines(reach) : Apart(f, At) <= Apart(g, At)
    /\ Narrow => \E g \in Lines(reach) : Apart(g, tracker.offset.at) <= 1

\* Whether a reading can be made at f, in clear weather the beacon's only; its
\* lines 800 Hz out may be too weak.
Heard(f) ==
    IF clear THEN FoundAt(f, 2) \/ FoundAt(f, 4)
    ELSE f \in (Strays \cup {At}) \cap Spots /\ (Narrow => Apart(f, tracker.offset.at) <= 5)
Silent == clear => \A f \in Lines(2) : ~FoundAt(f, 2)

\* The misses are counted from the last line found, and four are too many.
Found == [tracker EXCEPT !.misses = 0]
Missed(t) == [t EXCEPT !.misses = IF @ < 4 THEN @ + 1 ELSE 4]
\* A mutant: the seed is kept, and searched for ever.
GiveUpLock(t) == IF t.misses >= 4
                 THEN [t EXCEPT !.locked = FALSE, !.tights = 0, !.last = "none"]
                 ELSE t

GiveUp(t) == IF t.misses >= 4
             THEN [t EXCEPT !.locked = FALSE, !.seeded = FALSE, !.tights = 0, !.last = "none"]
             ELSE t

Miss ==
    /\ Silent
    /\ Becomes(GiveUp(Missed(tracker)))

\* The line found is a side line of a stronger one: a locked tracker steps there.
StepAside(f) ==
    /\ Heard(f) /\ tracker.locked
    /\ Apart(f, tracker.offset.at) >= IF clear THEN 2 ELSE 1
    /\ Becomes([Found EXCEPT !.offset = SeedAt(f), !.seeded = FALSE,
                             !.tights = 3, !.last = "tight"])

\* A locked tracker does not trust a reading more than 100 Hz off: a miss, but
\* counted from none, as a line was found.
Distrust(f) ==
    /\ Heard(f) /\ tracker.locked
    /\ Apart(f, tracker.offset.at) = 1
    /\ Becomes(GiveUp(Missed(Found)))

\* Any other tracker begins anew at such a reading, or at the first.
Begin(f) ==
    /\ Heard(f) /\ ~tracker.locked
    /\ ~tracker.offset.known \/ tracker.offset.at # f
    /\ Becomes([Found EXCEPT !.offset = SeedAt(f), !.seeded = FALSE, !.tights = 0, !.last = "none"])

\* A reading near the prediction.  It confirms a seed at once, as if two tight
\* ones came before it; otherwise three tight ones lock, and one below
\* HOLD_LOCK_HZ keeps the lock.
Track(miss) ==
    LET had == IF tracker.seeded THEN 2 ELSE tracker.tights
        has == IF miss # "tight" THEN 0 ELSE IF had < 3 THEN had + 1 ELSE 3
        holds == \/ (tracker.locked \/ tracker.seeded) /\ miss \in {"tight", "near"}
                 \/ ~tracker.locked /\ ~tracker.seeded /\ has = 3
    IN
    /\ tracker.offset.known /\ Heard(tracker.offset.at)
    /\ clear => miss = "tight"
    /\ Becomes([Found EXCEPT
          !.seeded = FALSE, !.tights = has, !.last = miss, !.locked = holds])

Measure ==
    /\ running
    /\ \/ Miss
       \/ \E f \in Spots : StepAside(f) \/ Distrust(f) \/ Begin(f)
       \/ \E miss \in Misses : Track(miss)

\* The lock has lasted 10 s.
Steady ==
    /\ running /\ tracker.locked /\ ~tracker.steady
    /\ tracker' = [tracker EXCEPT !.steady = TRUE]
    /\ UNCHANGED <<running, truth, clear, saved, wire, plan, correction, status, kept, acts>>
-----------------------------------------------------------------------------
(* The service and the worker. *)

Act == acts < MaxActs /\ acts' = acts + 1

\* A status event arrives; a lock is remembered as the next seed.
Status ==
    /\ running
    /\ status' = IF tracker.steady THEN SeedAt(correction) ELSE NoSeed
    /\ kept' = IF tracker.locked THEN SeedAt(correction) ELSE kept
    /\ UNCHANGED <<running, truth, clear, saved, wire, plan, tracker, correction, acts>>

\* calibrate_rx: the error measured is added to the profile, which is sent on.
Calibrate ==
    /\ running /\ Act
    /\ status.known
    /\ saved' = saved + status.at
    /\ wire' = Append(wire, saved')
    /\ UNCHANGED <<running, truth, clear, plan, tracker, correction, status, kept>>

\* Another channel of the same profile.
ChangeChannel ==
    /\ running /\ Act
    /\ wire' = Append(wire, saved)
    /\ UNCHANGED <<running, truth, clear, saved, plan, tracker, correction, status, kept>>

\* The worker retunes in place: the channel of the tracker moves with the
\* plan, and the tracker, its offset included, stays as it is.
Retune ==
    /\ wire # <<>>
    /\ plan' = Head(wire) /\ wire' = Tail(wire)
    /\ UNCHANGED <<running, truth, clear, saved, tracker, correction, status, kept, acts>>

NewStation(seed, rx) ==
    /\ plan' = rx
    /\ tracker' = NewTracker(seed) /\ correction' = FirstCorrection(seed)

\* The new channel does not fit: a new station, seeded with the lock there is.
RetuneRestarts ==
    /\ wire # <<>>
    /\ wire' = Tail(wire)
    /\ NewStation(IF tracker.locked THEN SeedAt(correction) ELSE NoSeed, Head(wire))
    /\ UNCHANGED <<running, truth, clear, saved, status, kept, acts>>

\* The station starts, within a day of the last lock or after it.
StartStation ==
    /\ ~running /\ Act
    /\ running' = TRUE
    /\ \E seed \in {kept, NoSeed} : NewStation(seed, saved)
    /\ UNCHANGED <<truth, clear, saved, wire, status, kept>>

StopStation ==
    /\ running /\ wire = <<>>
    /\ running' = FALSE
    /\ status' = NoSeed
    /\ UNCHANGED <<truth, clear, saved, wire, plan, tracker, correction, kept, acts>>

\* The weather changes; the LNB runs away while nobody can tell.
Weather ==
    /\ Clouds
    /\ clear' = ~clear
    /\ truth' \in IF clear THEN Errors ELSE {truth}
    /\ UNCHANGED <<running, saved, wire, plan, tracker, correction, status, kept, acts>>
-----------------------------------------------------------------------------
BeaconNext == \/ Measure \/ Steady \/ Status \/ Calibrate \/ ChangeChannel
              \/ Retune \/ RetuneRestarts \/ StartStation \/ StopStation \/ Weather

BeaconSpec == BeaconInit /\ [][BeaconNext]_beaconVars

\* Samples keep coming, and the worker looks at its config queue.
BeaconFairness ==
    /\ WF_beaconVars(Measure)
    /\ WF_beaconVars(Retune \/ RetuneRestarts)
-----------------------------------------------------------------------------
\* A lock rests on readings, never on a seed alone ("with the dish pointing at
\* a wall it showed locked from the seed alone"): the last one taken was close,
\* four lines in a row were not missed since any was heard, and what is corrected
\* is what was read.  A reading that is not trusted ends no lock (Distrust).
LockIsMeasured ==
    tracker.locked => /\ tracker.last \in {"tight", "near"}
                      /\ tracker.misses < 4 /\ ~tracker.seeded
                      /\ correction = tracker.offset.at

\* Where the beacon stays well heard, the receiver ends up corrected by the
\* error there is, whatever was seeded, calibrated or locked onto before; or
\* locked 100 to 300 Hz beside the beacon, each of whose readings it distrusts.
ConvergesOrDistrusts ==
    <>[](running /\ clear /\ At \in Spots) =>
        \/ <>[](tracker.locked /\ plan + correction = truth)
        \/ <>[](tracker.locked /\ Apart(At, tracker.offset.at) = 1)
=============================================================================
