------------------------------ MODULE TleSync ------------------------------
(***************************************************************************)
(* synchronize_satellite_data_internal: the satellites and transmitters in *)
(* the database against what the TLE sources and SatNOGS list.  It runs in *)
(* a process of its own (Tasks: one at a time) and commits after each      *)
(* source, satellite and transmitter, so that a kill or an exception       *)
(* leaves it half done; the operator edits the same tables from the        *)
(* server.  What is written of a satellite or transmitter is left out.     *)
(***************************************************************************)
EXTENDS Naturals

CONSTANTS
    TleSources,  \* user-defined TLE sources
    Norads,      \* satellites
    Trans,       \* transmitters
    Imports,     \* those of gr-satellites and SatDump; the others are of SatNOGS
    Cat(_),      \* norad_cat_id of a transmitter
    Follows(_),  \* its norad_follow_id, or its norad_cat_id where it has none
    MaxSyncs,    \* bound: syncs
    MaxChanges,  \* bound: acts of the operator, changes of what a source lists
    Unhindered   \* whether, while a sync runs, the operator leaves the tables
                 \* alone and no lock keeps a source's group from being written

ASSUME TleSyncAssumption ==
    /\ MaxSyncs \in Nat /\ MaxChanges \in Nat /\ Unhindered \in BOOLEAN
    /\ TleSources # {}
    /\ Imports \subseteq Trans
    /\ \A t \in Trans : Cat(t) \in Norads /\ Follows(t) \in Norads

VARIABLES
    upstream,  \* what each source's URL lists
    source,    \* its row: "none" (not yet), "on", "off" (deleted)
    group,     \* the satellite_ids of its system group
    satellite, \* each satellite's row: "none", "manual" or "tlesync"
    trans,     \* the transmitters in the database
    tle,       \* the sync: where it is, and its local variables
    syncs, changes

tleVars == <<upstream, source, group, satellite, trans, tle, syncs, changes>>

TleSyncTypeOK ==
    /\ upstream \in [TleSources -> SUBSET Norads]
    /\ source \in [TleSources -> {"none", "on", "off"}]
    /\ group \in [TleSources -> SUBSET Norads]
    /\ satellite \in [Norads -> {"none", "manual", "tlesync"}]
    /\ trans \in SUBSET Trans
    /\ tle \in [pc : {"idle", "fetch", "group", "merge", "enrich", "import"},
                left : SUBSET TleSources,    \* sources not fetched yet
                at : TleSources,             \* the one being written
                ids : SUBSET Norads,         \* group_assignments of it
                got : SUBSET Norads,         \* celestrak_list
                fresh : SUBSET TleSources,   \* sources whose group was written
                satnogs : SUBSET Trans,      \* satnogs_transmitter_data
                todo : SUBSET Norads,        \* satellites not merged yet
                owed : SUBSET Trans,         \* transmitters to be written next
                manual : SUBSET Norads,      \* manual_only_norad_ids
                success : BOOLEAN]           \* sync_state's, kept when it is over
    /\ syncs \in 0 .. MaxSyncs /\ changes \in 0 .. MaxChanges

Stored == {x \in Norads : satellite[x] # "none"}
ListedBy(by) == UNION {group[s] : s \in by}
Asleep == [pc |-> "idle", left |-> {}, at |-> CHOOSE s \in TleSources : TRUE, ids |-> {},
           got |-> {}, fresh |-> {}, satnogs |-> {}, todo |-> {}, owed |-> {}, manual |-> {},
           success |-> FALSE]

TleSyncInit ==
    /\ upstream \in [TleSources -> SUBSET Norads]
    /\ source = [s \in TleSources |-> "none"]
    /\ group = [s \in TleSources |-> {}]
    /\ satellite = [x \in Norads |-> "none"]
    /\ trans = {}
    /\ tle = Asleep
    /\ syncs = 0 /\ changes = 0
-----------------------------------------------------------------------------
(* The sources. *)

SyncBegins ==
    /\ tle.pc = "idle" /\ syncs < MaxSyncs
    /\ tle' = [Asleep EXCEPT !.pc = "fetch", !.left = {s \in TleSources : source[s] = "on"}]
    /\ syncs' = syncs + 1
    /\ UNCHANGED <<upstream, source, group, satellite, trans, changes>>

\* A source that cannot be fetched is passed over: an error in the state shown.
SourceFails(s) ==
    /\ tle.pc = "fetch" /\ s \in tle.left
    /\ tle' = [tle EXCEPT !.left = @ \ {s}]
    /\ UNCHANGED <<upstream, source, group, satellite, trans, syncs, changes>>

SourceFetched(s) ==
    /\ tle.pc = "fetch" /\ s \in tle.left
    /\ tle' = [tle EXCEPT !.pc = "group", !.left = @ \ {s}, !.at = s, !.ids = upstream[s],
                          !.got = @ \cup upstream[s]]
    /\ UNCHANGED <<upstream, source, group, satellite, trans, syncs, changes>>

\* Mutants: of the other sources, only those of this run are looked at; the
\* group is written and nothing removed.
DroppedFromFreshLists(s, ids) == (group[s] \ ids) \ ListedBy(tle.fresh)
DroppedNever(s, ids) == {}

\* detect_and_remove_satellites.  The other groups may be of sources that were
\* not fetched yet, or not this time.
Dropped(s, ids) == (group[s] \ ids) \ ListedBy(TleSources \ {s})

\* A satellite's row goes with its transmitters, but those that only follow it.
Removed(gone) ==
    /\ satellite' = [x \in Norads |-> IF x \in gone THEN "none" ELSE satellite[x]]
    /\ trans' = {t \in trans : Cat(t) \notin gone}

\* update_satellite_group_with_removal_detection, and its commit.
GroupWritten ==
    /\ tle.pc = "group"
    /\ Removed(Dropped(tle.at, tle.ids) \cap Stored)
    /\ group' = [group EXCEPT ![tle.at] = tle.ids]
    /\ tle' = [tle EXCEPT !.pc = "fetch", !.fresh = @ \cup {tle.at}]
    /\ UNCHANGED <<upstream, source, syncs, changes>>

\* Its rollback; the satellites fetched are still to be merged.
GroupRolledBack ==
    /\ tle.pc = "group" /\ ~Unhindered
    /\ tle' = [tle EXCEPT !.pc = "fetch"]
    /\ UNCHANGED <<upstream, source, group, satellite, trans, syncs, changes>>

\* "No TLEs were fetched from any TLE source, aborting!"
NothingFetched ==
    /\ tle.pc = "fetch" /\ tle.left = {} /\ tle.got = {}
    /\ tle' = Asleep
    /\ UNCHANGED <<upstream, source, group, satellite, trans, syncs, changes>>
-----------------------------------------------------------------------------
(* The database update. *)

\* SatNOGS answers or not.  Then the manual satellites are read.
SatnogsFetched ==
    /\ tle.pc = "fetch" /\ tle.left = {} /\ tle.got # {}
    /\ \E list \in {{}, Trans \ Imports} :
          tle' = [tle EXCEPT !.pc = "merge", !.satnogs = list, !.todo = tle.got,
                             !.manual = {x \in Norads : satellite[x] = "manual"} \ tle.got]
    /\ UNCHANGED <<upstream, source, group, satellite, trans, syncs, changes>>

\* get_transmitter_info_by_norad_id
TransmittersOf(x) == {t \in tle.satnogs : Cat(t) = x \/ Follows(t) = x}

MergeSatellite(x) ==
    /\ tle.pc = "merge" /\ tle.owed = {} /\ x \in tle.todo
    /\ satellite' = [satellite EXCEPT ![x] = "tlesync"]
    /\ tle' = [tle EXCEPT !.todo = @ \ {x}, !.owed = TransmittersOf(x)]
    /\ UNCHANGED <<upstream, source, group, trans, syncs, changes>>

MergeTransmitter(t) ==
    /\ tle.pc \in {"merge", "enrich"} /\ t \in tle.owed
    /\ trans' = trans \cup {t}
    /\ tle' = [tle EXCEPT !.owed = @ \ {t}]
    /\ UNCHANGED <<upstream, source, group, satellite, syncs, changes>>

\* "Enrich manually-added satellites (that were not part of Celestrak list)".
EnrichManual ==
    /\ tle.pc = "merge" /\ tle.owed = {} /\ tle.todo = {}
    /\ tle' = [tle EXCEPT !.pc = "enrich", !.owed = UNION {TransmittersOf(x) : x \in tle.manual}]
    /\ UNCHANGED <<upstream, source, group, satellite, trans, syncs, changes>>

\* The rows of an import, for the satellites it finds in the database, from a
\* list that may not be there.
ImportsFor(known) == {rows \in SUBSET Imports : \A t \in rows : Cat(t) \in known}

\* import_gr_satellites_transmitters and import_satdump_transmitters, together:
\* the satellites are read, and the rows written some time after.
ImportsRead ==
    /\ tle.pc = "enrich" /\ tle.owed = {}
    /\ \E rows \in ImportsFor(Stored) : tle' = [tle EXCEPT !.pc = "import", !.owed = rows]
    /\ UNCHANGED <<upstream, source, group, satellite, trans, syncs, changes>>

\* upsert_transmitters
ImportsWritten ==
    /\ tle.pc = "import" /\ tle.owed # {}
    /\ trans' = trans \cup tle.owed
    /\ tle' = [tle EXCEPT !.owed = {}]
    /\ UNCHANGED <<upstream, source, group, satellite, syncs, changes>>

SyncSucceeds ==
    /\ tle.pc = "import" /\ tle.owed = {}
    /\ tle' = [Asleep EXCEPT !.success = TRUE]
    /\ UNCHANGED <<upstream, source, group, satellite, trans, syncs, changes>>

\* The task is stopped, its process dies, or an exception ends it: a list that
\* does not parse, a refused commit.  What was not committed is lost.
SyncEnds ==
    /\ tle.pc # "idle"
    /\ tle' = Asleep
    /\ UNCHANGED <<upstream, source, group, satellite, trans, syncs, changes>>
-----------------------------------------------------------------------------
(* The operator's pages, and the world. *)

Change ==
    /\ changes < MaxChanges /\ changes' = changes + 1
    /\ UNCHANGED syncs
OperatorActs == Change /\ (Unhindered => tle.pc = "idle") /\ UNCHANGED <<upstream, tle>>

AddSource(s) ==
    /\ OperatorActs /\ source[s] = "none"
    /\ source' = [source EXCEPT ![s] = "on"]
    /\ UNCHANGED <<group, satellite, trans>>

\* delete_satellite_tle_sources takes all satellites of the group along, also
\* those that other sources list and those that are manual.
DeleteSource(s) ==
    /\ OperatorActs /\ source[s] = "on"
    /\ source' = [source EXCEPT ![s] = "off"]
    /\ Removed(group[s])
    /\ group' = [group EXCEPT ![s] = {}]

AddSatellite(x) ==
    /\ OperatorActs /\ satellite[x] = "none"
    /\ satellite' = [satellite EXCEPT ![x] = "manual"]
    /\ UNCHANGED <<source, group, trans>>

DeleteSatellite(x) ==
    /\ OperatorActs /\ satellite[x] # "none"
    /\ Removed({x})
    /\ UNCHANGED <<source, group>>

\* handle_transmitter_import
ImportTransmitters ==
    /\ OperatorActs
    /\ \E rows \in ImportsFor(Stored) : trans' = trans \cup rows
    /\ UNCHANGED <<source, group, satellite>>

ListChanges(s) ==
    /\ Change
    /\ \E list \in SUBSET Norads : upstream' = [upstream EXCEPT ![s] = list]
    /\ UNCHANGED <<source, group, satellite, trans, tle>>
-----------------------------------------------------------------------------
TleSyncNext ==
    \/ \E s \in TleSources : \/ SourceFails(s) \/ SourceFetched(s) \/ AddSource(s)
                             \/ DeleteSource(s) \/ ListChanges(s)
    \/ \E x \in Norads : MergeSatellite(x) \/ AddSatellite(x) \/ DeleteSatellite(x)
    \/ \E t \in Trans : MergeTransmitter(t)
    \/ SyncBegins \/ GroupWritten \/ GroupRolledBack \/ NothingFetched \/ SatnogsFetched
    \/ EnrichManual \/ ImportsRead \/ ImportsWritten \/ SyncSucceeds \/ SyncEnds
    \/ ImportTransmitters

TleSyncSpec == TleSyncInit /\ [][TleSyncNext]_tleVars
-----------------------------------------------------------------------------
\* Wherever a sync was cut off, each synchronised satellite is in the group of
\* some source, or nothing would ever remove it, and each transmitter that
\* follows no other satellite is one of a satellite there is.
EverythingBelongs ==
    /\ \A x \in Norads : satellite[x] = "tlesync" => x \in ListedBy(TleSources)
    /\ \A t \in trans : Follows(t) = Cat(t) => Cat(t) \in Stored

\* A sync removes no satellite that a group lists when it is gone, be it of a
\* source that could not be fetched; and when it succeeds, all that the sources
\* it reached list is stored.
SyncKeepsListed ==
    [][tle.pc # "idle" =>
         /\ \A x \in Stored \ Stored' : x \notin ListedBy(TleSources)'
         /\ tle'.success => ListedBy(tle.fresh) \subseteq Stored]_tleVars
=============================================================================
