------------------------------ MODULE Decoders ------------------------------
(***************************************************************************)
(* The decoder of one VFO of one session: the commands of the VFO panel    *)
(* (handle_vfo_decoder_state, on the event loop) and the restarts that a   *)
(* changed SDR configuration or the decoder itself asks for                *)
(* (_restart_decoder_async, whose work runs in a thread of the pool).      *)
(* Decoder processes are numbered; which number a new one has is of no     *)
(* account.                                                                *)
(***************************************************************************)
EXTENDS Naturals

CONSTANTS
    Types,       \* decoder classes
    Commands,    \* update-vfo-parameters commands (bound)
    Restarts,    \* _restart_decoder_async calls (bound)
    MaxDecoders  \* bound: decoder processes started

ASSUME DecodersAssumption == "none" \notin Types /\ MaxDecoders \in Nat \ {0}

Decoder == 1 .. MaxDecoders
NoDecoder == 0

VARIABLES
    setting,  \* vfo_state.decoder
    slot,     \* processes[sdr]["decoders"][session][vfo], or NoDecoder
    class,    \* the class of each decoder started
    alive,    \* decoder processes that run and were not told to stop
    command,  \* each command: "new", "lookup" (awaits the database), "done"
    restart,  \* each restart: "new", "due", "killed", "dropped", "made", "done"
    recent,   \* whether a start happened within _debounce_ms
    calm      \* history: when the last command came nothing was under way, and
              \* no restart was asked for before it was done

decoderVars == <<setting, slot, class, alive, command, restart, recent, calm>>

NewRestart == [pc |-> "new", of |-> NoDecoder, live |-> NoDecoder]
Started == {d \in Decoder : class[d] # "none"}
NextDecoder == CHOOSE d \in Decoder : d \notin Started
RestartRuns == \E r \in Restarts : restart[r].pc \in {"killed", "dropped", "made"}
RestartPending == \E r \in Restarts : restart[r].pc \notin {"new", "done"}
StartLocked == \E r \in Restarts : restart[r].pc = "made"
CommandRuns == \E c \in Commands : command[c].pc = "lookup"
Settled == ~CommandRuns /\ ~RestartPending

DecodersTypeOK ==
    /\ setting \in Types \cup {"none"}
    /\ slot \in Decoder \cup {NoDecoder}
    /\ class \in [Decoder -> Types \cup {"none"}]
    /\ alive \in SUBSET Decoder
    /\ command \in [Commands -> [pc : {"new", "lookup", "done"}, want : Types \cup {"none"}]]
    /\ restart \in [Restarts -> [pc : {"new", "due", "killed", "dropped", "made", "done"},
                                 of : Decoder \cup {NoDecoder}, live : Decoder \cup {NoDecoder}]]
    /\ recent \in BOOLEAN
    /\ calm \in BOOLEAN

DecodersInit ==
    /\ setting = "none"
    /\ slot = NoDecoder
    /\ class = [d \in Decoder |-> "none"]
    /\ alive = {}
    /\ command = [c \in Commands |-> [pc |-> "new", want |-> "none"]]
    /\ restart = [r \in Restarts |-> NewRestart]
    /\ recent = FALSE
    /\ calm = TRUE
-----------------------------------------------------------------------------
(* Commands. *)

CommandIs(c, pc, t) == command' = [command EXCEPT ![c] = [pc |-> pc, want |-> t]]

\* A mutant: the entry goes, the process stays.
ForgetDecoder == UNCHANGED alive /\ slot' = NoDecoder

\* _stop_single_decoder of whatever the slot holds.
StopDecoder == alive' = alive \ {slot} /\ slot' = NoDecoder

\* A mutant: any decoder that is there is left alone, whatever its class.
SetDecoderLazily(c, t, force) ==
    /\ command[c].pc = "new"
    /\ setting' = t
    /\ \/ t = "none" /\ StopDecoder /\ CommandIs(c, "done", t)
       \/ /\ t # "none" /\ slot # NoDecoder /\ ~force
          /\ CommandIs(c, "done", t)
          /\ UNCHANGED <<alive, slot>>
       \/ /\ t # "none" /\ (slot # NoDecoder => force)
          /\ StopDecoder
          /\ CommandIs(c, "lookup", t)
    /\ calm' = (Settled /\ ~recent)
    /\ UNCHANGED <<class, restart, recent>>

\* The panel sets the VFO's decoder.  The same class already running is left
\* alone unless forced (another transmitter); any other is stopped, and the
\* transmitter is looked up before the new one starts.
SetDecoder(c, t, force) ==
    /\ command[c].pc = "new"
    /\ setting' = t
    /\ \/ t = "none" /\ StopDecoder /\ CommandIs(c, "done", t)
       \/ /\ t # "none" /\ slot # NoDecoder /\ class[slot] = t /\ ~force
          /\ CommandIs(c, "done", t)
          /\ UNCHANGED <<alive, slot>>
       \/ /\ t # "none" /\ (slot # NoDecoder /\ class[slot] = t => force)
          /\ StopDecoder
          /\ CommandIs(c, "lookup", t)
    /\ calm' = (Settled /\ ~recent)
    /\ UNCHANGED <<class, restart, recent>>

Create(t) ==
    /\ Started # Decoder
    /\ class' = [class EXCEPT ![NextDecoder] = t]
    /\ alive' = alive \cup {NextDecoder}

\* start_decoder of a command: suppressed shortly after another start, or
\* when a live decoder is in the slot.
StartDecoder(c) ==
    /\ command[c].pc = "lookup"
    /\ ~StartLocked
    /\ CommandIs(c, "done", command[c].want)
    /\ \/ /\ recent \/ slot \in alive
          /\ UNCHANGED <<class, alive, slot, recent>>
       \/ /\ ~recent /\ slot \notin alive
          /\ Create(command[c].want)
          /\ slot' = NextDecoder
          /\ recent' = TRUE
    /\ UNCHANGED <<setting, restart, calm>>

DebounceOver ==
    /\ recent
    /\ recent' = FALSE
    /\ UNCHANGED <<setting, slot, class, alive, command, restart, calm>>
-----------------------------------------------------------------------------
(* Restarts. *)

RestartIs(r, pc, of, live) ==
    restart' = [restart EXCEPT ![r] = [pc |-> pc, of |-> of, live |-> live]]

\* update_configuration schedules a restart of the entry it sees;
\* "decoder-restart-request" leaves the entry to be looked up later.
ConfigChanges(r) ==
    /\ restart[r].pc = "new" /\ slot # NoDecoder
    /\ calm' = (calm /\ ~CommandRuns)
    /\ RestartIs(r, "due", slot, NoDecoder)
    /\ UNCHANGED <<setting, slot, class, alive, command, recent>>

DecoderAsks(r) ==
    /\ restart[r].pc = "new" /\ slot \in alive
    /\ calm' = (calm /\ ~CommandRuns)
    /\ RestartIs(r, "due", NoDecoder, NoDecoder)
    /\ UNCHANGED <<setting, slot, class, alive, command, recent>>

\* One restart at a time (_restart_locks): the live decoder is killed.
RestartKills(r) ==
    /\ restart[r].pc = "due" /\ ~RestartRuns
    /\ LET of == IF restart[r].of = NoDecoder THEN slot ELSE restart[r].of IN
       IF of = NoDecoder
       THEN RestartIs(r, "done", NoDecoder, NoDecoder) /\ UNCHANGED alive
       ELSE RestartIs(r, "killed", of, slot) /\ alive' = alive \ {slot}
    /\ UNCHANGED <<setting, slot, class, command, recent, calm>>

\* ... and its entry removed, whatever it holds by now.
RestartDrops(r) ==
    /\ restart[r].pc = "killed"
    /\ slot' = IF restart[r].live = NoDecoder THEN slot ELSE NoDecoder
    /\ RestartIs(r, "dropped", restart[r].of, restart[r].live)
    /\ UNCHANGED <<setting, class, alive, command, recent, calm>>

\* start_decoder of a restart skips the checks: it creates a decoder of the
\* class of the entry it was given, and then stores it.
RestartCreates(r) ==
    /\ restart[r].pc = "dropped"
    /\ Create(class[restart[r].of])
    /\ RestartIs(r, "made", restart[r].of, NextDecoder)
    /\ UNCHANGED <<setting, slot, command, recent, calm>>

RestartStores(r) ==
    /\ restart[r].pc = "made"
    /\ slot' = restart[r].live
    /\ recent' = TRUE
    /\ RestartIs(r, "done", restart[r].of, restart[r].live)
    /\ UNCHANGED <<setting, class, alive, command, calm>>
-----------------------------------------------------------------------------
DecodersNext ==
    \/ \E c \in Commands :
          StartDecoder(c) \/ \E t \in Types \cup {"none"}, f \in BOOLEAN : SetDecoder(c, t, f)
    \/ DebounceOver
    \/ \E r \in Restarts :
          \/ ConfigChanges(r) \/ DecoderAsks(r) \/ RestartKills(r)
          \/ RestartDrops(r) \/ RestartCreates(r) \/ RestartStores(r)

DecodersSpec == DecodersInit /\ [][DecodersNext]_decoderVars
-----------------------------------------------------------------------------
\* A decoder that runs is in the slot, where a stop finds it, or is about to be
\* stored there by the restart that made it.
OneDecoder ==
    \A d \in alive : d = slot \/ \E r \in Restarts : restart[r].pc = "made" /\ restart[r].live = d

\* One decoder per VFO ("Single-flight guard per (SDR, session, VFO)"): a running
\* decoder drops out of sight only where a restart clears or fills the slot without
\* a look at what a command has put there meanwhile.
DecoderKept ==
    [][OneDecoder => \/ OneDecoder'
                     \/ \E r \in Restarts : /\ RestartDrops(r) \/ RestartStores(r)
                                            /\ slot \in alive]_decoderVars

\* A command that finds nothing under way, and no restart asked for before it is
\* done, gets its VFO the decoder it set, through every restart that follows and
\* whatever went wrong before.
SettingWins ==
    Settled /\ calm => IF setting = "none" THEN slot = NoDecoder
                       ELSE slot \in alive /\ class[slot] = setting
=============================================================================
