------------------------------- MODULE Tracker -------------------------------
(***************************************************************************)
(* The satellite tracker: TrackerManager keeps the row of the tracking     *)
(* state and sends what it changes to the tracker process, one message per *)
(* thing the process needs; the process applies what it was sent by its    *)
(* next iteration and opens, drives and closes the rotator and the rig.    *)
(* Positions, frequencies and limits are not modelled, and there is one    *)
(* rotator and one rig.  A location that is not found is like elements     *)
(* that are not, as the process does nothing without both, and a device    *)
(* whose details were not sent is one that does not open.                  *)
(***************************************************************************)
EXTENDS Naturals, Sequences

CONSTANTS
    Sats,
    Requests,        \* what update_tracking_state is called with: fields of a row
    Updates,         \* calls of update_tracking_state and of notify_tle_updated (bound)
    MaxServerStarts  \* bound: restarts of the server

Devices == {"rotator", "rig"}
Fields == {"sat"} \cup Devices
DeviceStates == {"disconnected", "connected", "tracking", "stopped", "parked"}
NoSat == "none"

ASSUME TrackerAssumption ==
    /\ NoSat \notin Sats /\ MaxServerStarts \in Nat
    /\ \A r \in Requests : \A f \in DOMAIN r :
          \/ f = "sat" /\ r[f] \in Sats
          \/ f = "rotator" /\ r[f] \in DeviceStates
          \/ f = "rig" /\ r[f] \in DeviceStates \ {"parked"}

Rows == [sat : Sats \cup {NoSat}, rotator : DeviceStates, rig : DeviceStates]
EmptyRow == [sat |-> NoSat, rotator |-> "disconnected", rig |-> "disconnected"]

VARIABLES
    dbRow,     \* the tracking state in the database
    update,    \* each call, and the synchronisation at the start: the step it is at
               \* and the row it writes or sends
    toTracker, \* queue_to_tracker
    inputs,    \* input_tracking_state, input_satellite, and the row applied (prev_*)
    device,    \* each device: whether a controller exists, and what rotator_data and
               \* rig_data show
    serverStarts,
    amiss      \* history: what befell the last row that was written or read again

trackerVars == <<dbRow, update, toTracker, inputs, device, serverStarts, amiss>>

Calls == Updates \cup {"start"}
Steps == {"new", "read", "written", "sent", "notify", "done"}
TrackerMessages == [type : {"state", "ephemeris"}, row : Rows]
\* Another call was under way, a lookup found nothing, the row could not be read.
Mishaps == {"overlap", "lookup", "unread"}

NewInputs == [row |-> EmptyRow, ephemeris |-> NoSat, applied |-> EmptyRow]
NewDevice == [controller |-> FALSE, connected |-> FALSE, tracking |-> FALSE]

TrackerTypeOK ==
    /\ dbRow \in Rows
    /\ update \in [Calls -> [pc : Steps, row : Rows]]
    /\ toTracker \in Seq(TrackerMessages)
    /\ inputs \in [row : Rows, ephemeris : Sats \cup {NoSat}, applied : Rows]
    /\ device \in [Devices -> [controller : BOOLEAN, connected : BOOLEAN, tracking : BOOLEAN]]
    /\ serverStarts \in 0 .. MaxServerStarts
    /\ amiss \subseteq Mishaps

TrackerInit ==
    /\ dbRow = EmptyRow
    /\ update = [u \in Calls |-> [pc |-> IF u = "start" THEN "done" ELSE "new", row |-> EmptyRow]]
    /\ toTracker = <<>>
    /\ inputs = NewInputs
    /\ device = [d \in Devices |-> NewDevice]
    /\ serverStarts = 0
    /\ amiss = {}
-----------------------------------------------------------------------------
(* The manager, in coroutines of the server. *)

Step(u, from, to) == update[u].pc = from /\ update' = [update EXCEPT ![u].pc = to]
Alone(u) == \A v \in Calls \ {u} : update[v].pc \in {"new", "done"}
Overlap(u) == IF Alone(u) THEN {} ELSE {"overlap"}

\* A call reads the row and merges its fields into it.
UpdateReads(u, request) ==
    /\ update[u].pc = "new"
    /\ update' = [update EXCEPT ![u] =
          [pc |-> "read",
           row |-> [f \in Fields |-> IF f \in DOMAIN request THEN request[f] ELSE dbRow[f]]]]
    /\ amiss' = amiss \cup Overlap(u)
    /\ UNCHANGED <<dbRow, toTracker, inputs, device, serverStarts>>

\* It writes the row, or fails to and sends nothing.
UpdateWrites(u) ==
    /\ \/ Step(u, "read", "written") /\ dbRow' = update[u].row /\ amiss' = Overlap(u)
       \/ Step(u, "read", "done") /\ UNCHANGED <<dbRow, amiss>>
    /\ UNCHANGED <<toTracker, inputs, device, serverStarts>>

Tell(type, r) == toTracker' = Append(toTracker, [type |-> type, row |-> r])

\* _sync_tracker_context: the row at once, ...
SendState(u) ==
    /\ Step(u, "written", "sent")
    /\ Tell("state", update[u].row)
    /\ UNCHANGED <<dbRow, inputs, device, serverStarts, amiss>>

\* ... and, after a look in the database that may find nothing, where the satellite
\* is, the last that decides whether the process goes on.
SendEphemeris(u) ==
    /\ Step(u, "sent", "done")
    /\ \/ update[u].row.sat # NoSat /\ Tell("ephemeris", update[u].row) /\ UNCHANGED amiss
       \/ UNCHANGED toTracker /\ amiss' = amiss \cup {"lookup"}
    /\ UNCHANGED <<dbRow, inputs, device, serverStarts>>

\* notify_tle_updated: new elements of the satellite of the row ...
NotifyReads(u) ==
    /\ update[u].pc = "new" /\ dbRow.sat # NoSat
    /\ update' = [update EXCEPT ![u] = [pc |-> "notify", row |-> dbRow]]
    /\ amiss' = amiss \cup Overlap(u)
    /\ UNCHANGED <<dbRow, toTracker, inputs, device, serverStarts>>

\* ... are read, if they can be in 5 s, and sent.
NotifySends(u) ==
    /\ Step(u, "notify", "done")
    /\ UNCHANGED toTracker \/ Tell("ephemeris", update[u].row)
    /\ UNCHANGED <<dbRow, inputs, device, serverStarts, amiss>>

\* A mutant: the new process is not told the row.
ServerRestartsUntold ==
    /\ serverStarts < MaxServerStarts /\ serverStarts' = serverStarts + 1
    /\ update' = [u \in Calls |->
          IF update[u].pc = "new" THEN update[u] ELSE [pc |-> "done", row |-> dbRow]]
    /\ toTracker' = <<>> /\ inputs' = NewInputs
    /\ device' = [d \in Devices |-> NewDevice]
    /\ amiss' = {}
    /\ UNCHANGED dbRow

\* The server restarts; its startup sends the row to the new process, if there is
\* one and it can be read.
ServerRestarts ==
    /\ serverStarts < MaxServerStarts /\ serverStarts' = serverStarts + 1
    /\ \E reads \in BOOLEAN :
          /\ update' = [u \in Calls |->
                IF u = "start" /\ dbRow # EmptyRow /\ reads THEN [pc |-> "written", row |-> dbRow]
                ELSE IF update[u].pc = "new" THEN update[u] ELSE [pc |-> "done", row |-> dbRow]]
          /\ amiss' = IF reads THEN {} ELSE {"unread"}
    /\ toTracker' = <<>> /\ inputs' = NewInputs
    /\ device' = [d \in Devices |-> NewDevice]
    /\ UNCHANGED dbRow
-----------------------------------------------------------------------------
(* The tracker process. *)

\* process_commands takes what the queue shows.
Take ==
    /\ toTracker # <<>> /\ toTracker' = Tail(toTracker)
    /\ LET m == Head(toTracker) IN
       inputs' = IF m.type = "state" THEN [inputs EXCEPT !.row = m.row]
                 ELSE [inputs EXCEPT !.ephemeris = m.row.sat]
    /\ UNCHANGED <<dbRow, update, device, serverStarts, amiss>>

\* connect_to_rotator, connect_to_rig: an open device is left as it is.
Opened(v, opens) ==
    IF v.controller THEN v
    ELSE [v EXCEPT !.controller = opens, !.connected = opens, !.tracking = FALSE]

\* handle_rotator_state_change, handle_rig_state_change, whether or not the
\* device could be opened.
Driven(v, new, opens) ==
    CASE new = "connected" -> [Opened(v, opens) EXCEPT !.connected = TRUE]
      [] new = "tracking" -> [Opened(v, opens) EXCEPT !.tracking = TRUE]
      [] new = "disconnected" ->
            [v EXCEPT !.controller = FALSE, !.connected = FALSE, !.tracking = FALSE]
      [] new \in {"stopped", "parked"} -> [v EXCEPT !.tracking = FALSE]

\* A mutant: what a state change left is shown.
TakenOnTrust(v, state) == v

\* validate_hardware_states.
Validated(v, state) ==
    IF state = "connected" /\ ~v.controller
    THEN [v EXCEPT !.connected = FALSE, !.tracking = FALSE] ELSE v

\* handle_rotator_error, handle_rig_error and validate_hardware_states: a device
\* that did not open is given up.
GivenUp(d, now, v) ==
    /\ ~v.controller
    /\ now[d] = "connected" \/ (now[d] = "tracking" /\ inputs.applied[d] # "tracking")

\* What the worker makes of the row it was sent, where no other row replaces it;
\* handle_satellite_change stops a rig that tracks.
Corrected(now, v) ==
    [now EXCEPT
       !.rotator = IF GivenUp("rotator", now, v["rotator"]) THEN "disconnected" ELSE @,
       !.rig = IF GivenUp("rig", now, v["rig"]) THEN "disconnected"
               ELSE IF @ = "tracking" /\ now.sat # inputs.applied.sat THEN "stopped" ELSE @]

\* An iteration that has what it needs.
Iterate ==
    LET now == inputs.row IN
    /\ now.sat # NoSat /\ inputs.ephemeris = now.sat
    /\ \E opens \in [Devices -> BOOLEAN] :
         LET fresh == [device EXCEPT !["rig"].tracking = @ /\ now.sat = inputs.applied.sat]
             driven == [d \in Devices |->
                          IF now[d] = inputs.applied[d] THEN fresh[d]
                          ELSE Driven(fresh[d], now[d], opens[d])]
         IN /\ device' = [d \in Devices |-> Validated(driven[d], now[d])]
            /\ inputs' = [inputs EXCEPT !.applied = now, !.row = Corrected(now, driven)]
    /\ UNCHANGED <<dbRow, update, toTracker, serverStarts, amiss>>
-----------------------------------------------------------------------------
CallGoesOn(u) == \/ UpdateWrites(u) \/ SendState(u) \/ SendEphemeris(u)
                 \/ NotifySends(u)
TrackerNext ==
    \/ \E u \in Updates : NotifyReads(u) \/ \E request \in Requests : UpdateReads(u, request)
    \/ \E u \in Calls : CallGoesOn(u)
    \/ ServerRestarts \/ Take \/ Iterate

TrackerSpec == TrackerInit /\ [][TrackerNext]_trackerVars

\* Coroutines go on, and the process loops.
TrackerFairness ==
    /\ \A u \in Calls : WF_trackerVars(CallGoesOn(u))
    /\ WF_trackerVars(Take) /\ WF_trackerVars(Iterate)
-----------------------------------------------------------------------------
\* Between two iterations a device is shown connected exactly if the worker
\* has a controller of it: a failed opening leaves no device that looks open
\* and no controller that nobody will close.
ShownAsItIs == \A d \in Devices : device[d].connected <=> device[d].controller

\* The row wins: whatever satellite it named before, the worker ends up with the
\* satellite and the states of a row that was written or read again while no other
\* call was under way, but for a device that did not open and a rig that a new
\* target stopped.  Where the elements were not found it knows the target, and waits.
TrackerFollowsRow ==
    <>[](dbRow.sat # NoSat /\ amiss \cap {"overlap", "unread"} = {} =>
            \/ /\ inputs.applied.sat = dbRow.sat
               /\ inputs.applied.rotator \in {dbRow.rotator, "disconnected"}
               /\ inputs.applied.rig \in {dbRow.rig, "disconnected", "stopped"}
            \/ "lookup" \in amiss /\ inputs.row.sat = dbRow.sat)
=============================================================================
