------------------------------ MODULE MCServer ------------------------------
(***************************************************************************)
(* Instances for TLC of the components of the server beside the link.      *)
(* They share no state, so that their product would show nothing their sum *)
(* does not: a behaviour exercises the one component in focus, and the     *)
(* others stay as they began.  There none of their fair actions is enabled *)
(* and none of their properties says anything, so that each property is    *)
(* one of its own component.                                               *)
(***************************************************************************)
EXTENDS SdrLifecycle, Decoders, Observations, Inbox, Receiver, Beacon, Generator, Tasks,
        Tracker, Invoices, TleSync, Recorder

VARIABLE focus

Focuses == {"sdr", "decoder", "observation", "inbox", "receiver", "beacon", "generator", "tasks",
            "tracker", "invoices", "tlesync", "recorder"}

mcVars == <<lifecycleVars, decoderVars, observationVars, inboxVars, receiverVars,
            beaconVars, generatorVars, taskVars, trackerVars, invoiceVars, tleVars, recorderVars>>

MCInit ==
    /\ focus \in Focuses
    /\ LifecycleInit /\ DecodersInit /\ ObservationsInit /\ ReceiverInit
    /\ GeneratorInit /\ TasksInit /\ BeaconInit /\ TrackerInit /\ InvoicesInit /\ TleSyncInit
    /\ RecorderInit
    \* What the other components begin with does not matter to the one in focus.
    /\ InboxInit
    /\ focus # "inbox" => kind = "text" /\ ~sealed /\ ~right /\ ~opted
    /\ focus # "tlesync" => upstream = [s \in TleSources |-> {}]
    \* One source, no matter which, lists all satellites at first, and the other
    \* one of them.
    /\ focus = "tlesync" => upstream =
          [s \in TleSources |-> IF s = CHOOSE w \in TleSources : TRUE THEN Norads ELSE {"x"}]

Focus(name) == focus = name /\ UNCHANGED focus
MCNext ==
    \/ /\ Focus("sdr") /\ LifecycleNext
       /\ UNCHANGED <<decoderVars, observationVars, inboxVars, receiverVars, beaconVars, generatorVars, taskVars, trackerVars, invoiceVars, tleVars, recorderVars>>
    \/ /\ Focus("decoder") /\ DecodersNext
       /\ UNCHANGED <<lifecycleVars, observationVars, inboxVars, receiverVars, beaconVars, generatorVars, taskVars, trackerVars, invoiceVars, tleVars, recorderVars>>
    \/ /\ Focus("observation") /\ ObservationsNext
       /\ UNCHANGED <<lifecycleVars, decoderVars, inboxVars, receiverVars, beaconVars, generatorVars, taskVars, trackerVars, invoiceVars, tleVars, recorderVars>>
    \/ /\ Focus("inbox") /\ InboxNext
       /\ UNCHANGED <<lifecycleVars, decoderVars, observationVars, receiverVars, beaconVars, generatorVars, taskVars, trackerVars, invoiceVars, tleVars, recorderVars>>
    \/ /\ Focus("receiver") /\ ReceiverNext
       /\ UNCHANGED <<lifecycleVars, decoderVars, observationVars, inboxVars, beaconVars, generatorVars, taskVars, trackerVars, invoiceVars, tleVars, recorderVars>>
    \/ /\ Focus("beacon") /\ BeaconNext
       /\ UNCHANGED <<lifecycleVars, decoderVars, observationVars, inboxVars, receiverVars, generatorVars, taskVars, trackerVars, invoiceVars, tleVars, recorderVars>>
    \/ /\ Focus("generator") /\ GeneratorNext
       /\ UNCHANGED <<lifecycleVars, decoderVars, observationVars, inboxVars, receiverVars, beaconVars, taskVars, trackerVars, invoiceVars, tleVars, recorderVars>>
    \/ /\ Focus("tasks") /\ TasksNext
       /\ UNCHANGED <<lifecycleVars, decoderVars, observationVars, inboxVars, receiverVars, beaconVars, generatorVars, trackerVars, invoiceVars, tleVars, recorderVars>>
    \/ /\ Focus("tracker") /\ TrackerNext
       /\ UNCHANGED <<lifecycleVars, decoderVars, observationVars, inboxVars, receiverVars, beaconVars, generatorVars, taskVars, invoiceVars, tleVars, recorderVars>>
    \/ /\ Focus("invoices") /\ InvoicesNext
       /\ UNCHANGED <<lifecycleVars, decoderVars, observationVars, inboxVars, receiverVars, beaconVars, generatorVars, taskVars, trackerVars, tleVars, recorderVars>>
    \/ /\ Focus("tlesync") /\ TleSyncNext
       /\ UNCHANGED <<lifecycleVars, decoderVars, observationVars, inboxVars, receiverVars, beaconVars, generatorVars, taskVars, trackerVars, invoiceVars, recorderVars>>
    \/ /\ Focus("recorder") /\ RecorderNext
       /\ UNCHANGED <<lifecycleVars, decoderVars, observationVars, inboxVars, receiverVars, beaconVars, generatorVars, taskVars, trackerVars, invoiceVars, tleVars>>

MCSpec ==
    /\ MCInit /\ [][MCNext]_<<focus, mcVars>>
    /\ LifecycleFairness /\ ObservationsFairness /\ InboxFairness
    /\ BeaconFairness /\ TasksFairness /\ TrackerFairness /\ InvoicesFairness

ServerTypeOK ==
    /\ LifecycleTypeOK /\ DecodersTypeOK /\ ObservationsTypeOK /\ InboxTypeOK
    /\ ReceiverTypeOK /\ BeaconTypeOK /\ GeneratorTypeOK /\ TasksTypeOK
    /\ TrackerTypeOK /\ InvoicesTypeOK /\ TleSyncTypeOK /\ RecorderTypeOK
-----------------------------------------------------------------------------
MCLastSeq(f) == <<2, 1, 0>>[f]
MCFrameType(f) == <<5, 5, 2>>[f]

\* Two passes, the higher one in the way of the other; a run that overrides is for
\* that one.
MCPassOrder(g) == IF g \in Overriding THEN <<"p2">> ELSE <<"p1", "p2">>
MCWindow(p) == [p1 |-> [from |-> 0, to |-> 2, start |-> 0, stop |-> 1, peak |-> 40],
                p2 |-> [from |-> 1, to |-> 4, start |-> 1, stop |-> 3, peak |-> 60]][p]

\* The operator's calls, and an observation's.
MCRequests == {
    [sat |-> "a", rotator |-> "tracking"], [sat |-> "b", rig |-> "tracking"],
    [rotator |-> "connected", rig |-> "connected"],
    [rotator |-> "disconnected", rig |-> "stopped"],
    [rotator |-> "parked", rig |-> "disconnected"]}

\* A satellite's own transmitter, one of another that follows it, and one that
\* is imported.
MCCat(t) == [t1 |-> "x", t2 |-> "y", t3 |-> "x"][t]
MCFollows(t) == [t1 |-> "x", t2 |-> "x", t3 |-> "x"][t]

\* Two settings of the SDR, of two frequencies and two rates.
MCFrequency(f) == f
MCRate(f) == f
=============================================================================
