---------------------------- MODULE ServerProofs ----------------------------
(***************************************************************************)
(* That in the server of MCServer each component behaves as its own        *)
(* specification says, whichever is in focus: a step of the server is a    *)
(* step of one component and leaves the others alone.  What was proved of  *)
(* a component alone holds of it in the server; here, the types of all.    *)
(***************************************************************************)
EXTENDS MCServer, SdrLifecycleProofs, GeneratorProofs, InboxProofs, ReceiverProofs,
        BeaconProofs, TasksProofs

\* Each component starts in a state of its own.
LEMMA EachBegins ==
    MCInit => /\ LifecycleInit /\ DecodersInit /\ ObservationsInit /\ InboxInit
              /\ ReceiverInit /\ BeaconInit /\ GeneratorInit /\ TasksInit
              /\ TrackerInit /\ InvoicesInit /\ TleSyncInit /\ RecorderInit
  BY DEF MCInit

EachSteps ==
    /\ [LifecycleNext]_lifecycleVars
    /\ [DecodersNext]_decoderVars
    /\ [ObservationsNext]_observationVars
    /\ [InboxNext]_inboxVars
    /\ [ReceiverNext]_receiverVars
    /\ [BeaconNext]_beaconVars
    /\ [GeneratorNext]_generatorVars
    /\ [TasksNext]_taskVars
    /\ [TrackerNext]_trackerVars
    /\ [InvoicesNext]_invoiceVars
    /\ [TleSyncNext]_tleVars
    /\ [RecorderNext]_recorderVars

LEMMA EachStepsOrNot == [MCNext]_<<focus, mcVars>> => EachSteps
<1> SUFFICES ASSUME [MCNext]_<<focus, mcVars>> PROVE EachSteps
  OBVIOUS
<1>0. CASE UNCHANGED mcVars
  BY <1>0 DEF mcVars, EachSteps
<1>1. CASE LifecycleNext /\ UNCHANGED <<decoderVars, observationVars, inboxVars, receiverVars, beaconVars, generatorVars, taskVars, trackerVars, invoiceVars, tleVars, recorderVars>>
  BY <1>1 DEF EachSteps
<1>2. CASE DecodersNext /\ UNCHANGED <<lifecycleVars, observationVars, inboxVars, receiverVars, beaconVars, generatorVars, taskVars, trackerVars, invoiceVars, tleVars, recorderVars>>
  BY <1>2 DEF EachSteps
<1>3. CASE ObservationsNext /\ UNCHANGED <<lifecycleVars, decoderVars, inboxVars, receiverVars, beaconVars, generatorVars, taskVars, trackerVars, invoiceVars, tleVars, recorderVars>>
  BY <1>3 DEF EachSteps
<1>4. CASE InboxNext /\ UNCHANGED <<lifecycleVars, decoderVars, observationVars, receiverVars, beaconVars, generatorVars, taskVars, trackerVars, invoiceVars, tleVars, recorderVars>>
  BY <1>4 DEF EachSteps
<1>5. CASE ReceiverNext /\ UNCHANGED <<lifecycleVars, decoderVars, observationVars, inboxVars, beaconVars, generatorVars, taskVars, trackerVars, invoiceVars, tleVars, recorderVars>>
  BY <1>5 DEF EachSteps
<1>6. CASE BeaconNext /\ UNCHANGED <<lifecycleVars, decoderVars, observationVars, inboxVars, receiverVars, generatorVars, taskVars, trackerVars, invoiceVars, tleVars, recorderVars>>
  BY <1>6 DEF EachSteps
<1>7. CASE GeneratorNext /\ UNCHANGED <<lifecycleVars, decoderVars, observationVars, inboxVars, receiverVars, beaconVars, taskVars, trackerVars, invoiceVars, tleVars, recorderVars>>
  BY <1>7 DEF EachSteps
<1>8. CASE TasksNext /\ UNCHANGED <<lifecycleVars, decoderVars, observationVars, inboxVars, receiverVars, beaconVars, generatorVars, trackerVars, invoiceVars, tleVars, recorderVars>>
  BY <1>8 DEF EachSteps
<1>9. CASE TrackerNext /\ UNCHANGED <<lifecycleVars, decoderVars, observationVars, inboxVars, receiverVars, beaconVars, generatorVars, taskVars, invoiceVars, tleVars, recorderVars>>
  BY <1>9 DEF EachSteps
<1>10. CASE InvoicesNext /\ UNCHANGED <<lifecycleVars, decoderVars, observationVars, inboxVars, receiverVars, beaconVars, generatorVars, taskVars, trackerVars, tleVars, recorderVars>>
  BY <1>10 DEF EachSteps
<1>11. CASE TleSyncNext /\ UNCHANGED <<lifecycleVars, decoderVars, observationVars, inboxVars, receiverVars, beaconVars, generatorVars, taskVars, trackerVars, invoiceVars, recorderVars>>
  BY <1>11 DEF EachSteps
<1>12. CASE RecorderNext /\ UNCHANGED <<lifecycleVars, decoderVars, observationVars, inboxVars, receiverVars, beaconVars, generatorVars, taskVars, trackerVars, invoiceVars, tleVars>>
  BY <1>12 DEF EachSteps
<1> QED
  BY <1>0, <1>1, <1>2, <1>3, <1>4, <1>5, <1>6, <1>7, <1>8, <1>9, <1>10, <1>11, <1>12
     DEF MCNext, Focus

\* A component in the server does what it does alone: every behaviour that
\* the run of MCServer checks is one of each component's specification.
THEOREM ComponentsAreIndependent ==
    MCSpec => /\ LifecycleSpec /\ DecodersSpec /\ ObservationsSpec /\ InboxSpec
              /\ ReceiverSpec /\ BeaconSpec /\ GeneratorSpec /\ TasksSpec
              /\ TrackerSpec /\ InvoicesSpec /\ TleSyncSpec /\ RecorderSpec
<1>1. MCSpec => LifecycleSpec
  <2>1. MCInit => LifecycleInit
    BY EachBegins
  <2>2. [MCNext]_<<focus, mcVars>> => [LifecycleNext]_lifecycleVars
    BY EachStepsOrNot DEF EachSteps
  <2> QED
    BY <2>1, <2>2, PTL DEF MCSpec, LifecycleSpec
<1>2. MCSpec => DecodersSpec
  <2>1. MCInit => DecodersInit
    BY EachBegins
  <2>2. [MCNext]_<<focus, mcVars>> => [DecodersNext]_decoderVars
    BY EachStepsOrNot DEF EachSteps
  <2> QED
    BY <2>1, <2>2, PTL DEF MCSpec, DecodersSpec
<1>3. MCSpec => ObservationsSpec
  <2>1. MCInit => ObservationsInit
    BY EachBegins
  <2>2. [MCNext]_<<focus, mcVars>> => [ObservationsNext]_observationVars
    BY EachStepsOrNot DEF EachSteps
  <2> QED
    BY <2>1, <2>2, PTL DEF MCSpec, ObservationsSpec
<1>4. MCSpec => InboxSpec
  <2>1. MCInit => InboxInit
    BY EachBegins
  <2>2. [MCNext]_<<focus, mcVars>> => [InboxNext]_inboxVars
    BY EachStepsOrNot DEF EachSteps
  <2> QED
    BY <2>1, <2>2, PTL DEF MCSpec, InboxSpec
<1>5. MCSpec => ReceiverSpec
  <2>1. MCInit => ReceiverInit
    BY EachBegins
  <2>2. [MCNext]_<<focus, mcVars>> => [ReceiverNext]_receiverVars
    BY EachStepsOrNot DEF EachSteps
  <2> QED
    BY <2>1, <2>2, PTL DEF MCSpec, ReceiverSpec
<1>6. MCSpec => BeaconSpec
  <2>1. MCInit => BeaconInit
    BY EachBegins
  <2>2. [MCNext]_<<focus, mcVars>> => [BeaconNext]_beaconVars
    BY EachStepsOrNot DEF EachSteps
  <2> QED
    BY <2>1, <2>2, PTL DEF MCSpec, BeaconSpec
<1>7. MCSpec => GeneratorSpec
  <2>1. MCInit => GeneratorInit
    BY EachBegins
  <2>2. [MCNext]_<<focus, mcVars>> => [GeneratorNext]_generatorVars
    BY EachStepsOrNot DEF EachSteps
  <2> QED
    BY <2>1, <2>2, PTL DEF MCSpec, GeneratorSpec
<1>8. MCSpec => TasksSpec
  <2>1. MCInit => TasksInit
    BY EachBegins
  <2>2. [MCNext]_<<focus, mcVars>> => [TasksNext]_taskVars
    BY EachStepsOrNot DEF EachSteps
  <2> QED
    BY <2>1, <2>2, PTL DEF MCSpec, TasksSpec
<1>9. MCSpec => TrackerSpec
  <2>1. MCInit => TrackerInit
    BY EachBegins
  <2>2. [MCNext]_<<focus, mcVars>> => [TrackerNext]_trackerVars
    BY EachStepsOrNot DEF EachSteps
  <2> QED
    BY <2>1, <2>2, PTL DEF MCSpec, TrackerSpec
<1>10. MCSpec => InvoicesSpec
  <2>1. MCInit => InvoicesInit
    BY EachBegins
  <2>2. [MCNext]_<<focus, mcVars>> => [InvoicesNext]_invoiceVars
    BY EachStepsOrNot DEF EachSteps
  <2> QED
    BY <2>1, <2>2, PTL DEF MCSpec, InvoicesSpec
<1>11. MCSpec => TleSyncSpec
  <2>1. MCInit => TleSyncInit
    BY EachBegins
  <2>2. [MCNext]_<<focus, mcVars>> => [TleSyncNext]_tleVars
    BY EachStepsOrNot DEF EachSteps
  <2> QED
    BY <2>1, <2>2, PTL DEF MCSpec, TleSyncSpec
<1>12. MCSpec => RecorderSpec
  <2>1. MCInit => RecorderInit
    BY EachBegins
  <2>2. [MCNext]_<<focus, mcVars>> => [RecorderNext]_recorderVars
    BY EachStepsOrNot DEF EachSteps
  <2> QED
    BY <2>1, <2>2, PTL DEF MCSpec, RecorderSpec
<1> QED
  BY <1>1, <1>2, <1>3, <1>4, <1>5, <1>6, <1>7, <1>8, <1>9, <1>10, <1>11, <1>12

\* Every variable of the server has its type, for any constants.
THEOREM ServerTypeCorrect == MCSpec => []ServerTypeOK
<1>1. MCSpec => []LifecycleTypeOK
  BY ComponentsAreIndependent, LifecycleTypeCorrect, PTL
<1>2. MCSpec => []DecodersTypeOK
  BY ComponentsAreIndependent, DecodersTypeCorrect, PTL
<1>3. MCSpec => []ObservationsTypeOK
  BY ComponentsAreIndependent, ObservationsTypeCorrect, PTL
<1>4. MCSpec => []InboxTypeOK
  BY ComponentsAreIndependent, InboxTypeCorrect, PTL
<1>5. MCSpec => []ReceiverTypeOK
  BY ComponentsAreIndependent, ReceiverTypeCorrect, PTL
<1>6. MCSpec => []BeaconTypeOK
  BY ComponentsAreIndependent, LocksAreMeasured, PTL
<1>7. MCSpec => []GeneratorTypeOK
  BY ComponentsAreIndependent, GeneratorTypeCorrect, PTL
<1>8. MCSpec => []TasksTypeOK
  BY ComponentsAreIndependent, SyncsAreAlone, PTL
<1>9. MCSpec => []TrackerTypeOK
  BY ComponentsAreIndependent, TrackerShowsDevices, PTL
<1>10. MCSpec => []InvoicesTypeOK
  BY ComponentsAreIndependent, InvoicesTypeCorrect, PTL
<1>11. MCSpec => []TleSyncTypeOK
  BY ComponentsAreIndependent, TleSyncTypeCorrect, PTL
<1>12. MCSpec => []RecorderTypeOK
  BY ComponentsAreIndependent, RecorderTypeCorrect, PTL
<1> DEFINE FirstFour == LifecycleTypeOK /\ DecodersTypeOK /\ ObservationsTypeOK /\ InboxTypeOK
           NextFour == ReceiverTypeOK /\ BeaconTypeOK /\ GeneratorTypeOK /\ TasksTypeOK
           LastFour == TrackerTypeOK /\ InvoicesTypeOK /\ TleSyncTypeOK /\ RecorderTypeOK
<1>13. MCSpec => []FirstFour
  BY <1>1, <1>2, <1>3, <1>4, PTL
<1>14. MCSpec => []NextFour
  BY <1>5, <1>6, <1>7, <1>8, PTL
<1>15. MCSpec => []LastFour
  BY <1>9, <1>10, <1>11, <1>12, PTL
<1>16. FirstFour /\ NextFour /\ LastFour => ServerTypeOK
  BY DEF ServerTypeOK
<1> HIDE DEF FirstFour, NextFour, LastFour
<1> QED
  BY <1>13, <1>14, <1>15, <1>16, PTL

\* What the server promises whatever its operators do, and however its handlers
\* interleave: an entry is lost only by a start that overtakes a stop, and a second
\* worker comes of nothing else; a worker is stopped for a cause; a decoder is lost
\* only by a restart that a command overlaps, and a VFO gets the one it is set to
\* otherwise; a file comes once, and comes if all of it was heard; a lock was
\* measured; observations clash, and a pass gets a second one, for the reasons
\* stated; two syncs never write at once; a device is shown as it is; samples are
\* labelled with what they were taken at.
THEOREM ServerKeepsItsPromises ==
    MCSpec => /\ EntryKept /\ OneWorkerKept /\ StoppedForCause
              /\ DecoderKept /\ []SettingWins
              /\ []NotTwice /\ []CleanFileArrives /\ []LockIsMeasured
              /\ ClashesHaveCause /\ NoSecondRow
              /\ []OneSync /\ []ShownAsItIs /\ []SamplesAreLabelled
<1>1. MCSpec => EntryKept
  BY ComponentsAreIndependent, EntriesAreKept, PTL
<1>2. MCSpec => OneWorkerKept
  BY ComponentsAreIndependent, WorkersAreKeptApart, PTL
<1>3. MCSpec => StoppedForCause
  BY ComponentsAreIndependent, StopsHaveCauses, PTL
<1>4. MCSpec => DecoderKept
  BY ComponentsAreIndependent, DecoderLostOnlyByRestart, PTL
<1>5. MCSpec => []SettingWins
  BY ComponentsAreIndependent, VfoGetsItsDecoder, PTL
<1>6. MCSpec => []NotTwice
  BY ComponentsAreIndependent, FilesComeOnce, PTL
<1>7. MCSpec => []CleanFileArrives
  BY ComponentsAreIndependent, CleanFilesArrive, PTL
<1>8. MCSpec => []LockIsMeasured
  BY ComponentsAreIndependent, LocksAreMeasured, PTL
<1>9. MCSpec => ClashesHaveCause
  BY ComponentsAreIndependent, ClashesAreCaused, PTL
<1>10. MCSpec => NoSecondRow
  BY ComponentsAreIndependent, PassesAreObservedOnce, PTL
<1>11. MCSpec => []OneSync
  BY ComponentsAreIndependent, SyncsAreAlone, PTL
<1>12. MCSpec => []ShownAsItIs
  BY ComponentsAreIndependent, TrackerShowsDevices, PTL
<1>13. MCSpec => []SamplesAreLabelled
  BY ComponentsAreIndependent, SamplesKeepTheirTuning, PTL
<1> QED
  BY <1>1, <1>2, <1>3, <1>4, <1>5, <1>6, <1>7, <1>8, <1>9, <1>10, <1>11, <1>12, <1>13
=============================================================================
