------------------------------ MODULE Recorder ------------------------------
(***************************************************************************)
(* IQ recordings of one session: the SDR's stream of samples, each chunk   *)
(* with the tuning (centre frequency and rate) it was made at; the         *)
(* broadcaster's queue for the recorder; the thread of each recording with *)
(* its file and the captures that tell from which sample on which frequency *)
(* holds (the rate is told once, when the recording ends); and             *)
(* stop_recorder, which waits 2 s for the thread and then closes the file  *)
(* under it.  A chunk is one sample of the file, and the disk may fill.    *)
(***************************************************************************)
EXTENDS Naturals, Sequences

CONSTANTS
    Tunings,   \* what the SDR is set to: a centre frequency and a rate
    Frequency(_), Rate(_), \* of each tuning
    MaxTakes,  \* bound: recordings
    ChunkRoom, \* maxsize of iq_queue_demod and of the subscriber's queue
    MaxChunks  \* bound: chunks made

ASSUME RecorderAssumption ==
    /\ MaxTakes \in Nat /\ MaxChunks \in Nat /\ ChunkRoom \in Nat \ {0}
    /\ Tunings # {} /\ 0 \notin Tunings

Takes == 1 .. MaxTakes
NoTake == 0
Untuned == 0
Torn == 0
Frequencies == {Frequency(f) : f \in Tunings}

VARIABLES
    wanted,     \* the configuration last sent to the worker
    tuned,      \* the one the worker streams with
    stream,     \* iq_queue_demod
    subscribed, \* the recording whose start made the broadcaster's queue
    queue,      \* each such queue
    take,       \* each recording's thread
    file,       \* what is in its .sigmf-data: each sample's tuning, or Torn where
                \* part of a chunk is
    captures,   \* IQRecorder.captures
    meta,       \* its .sigmf-meta, the captures in it and core:sample_rate
    recording,       \* processes[sdr_id]["recorders"][session_id]
    stopper,    \* stop_recorder: before the join, and between close and metadata
    chunks      \* chunks made

recorderVars == <<wanted, tuned, stream, subscribed, queue, take, file, captures,
                  meta, recording, stopper, chunks>>
streamVars == <<wanted, tuned, stream, chunks>>
diskVars == <<file, captures, meta>>

Captures == Seq([from : 0 .. MaxChunks, freq : Frequencies])
Unmade == [pc |-> "off", running |-> FALSE, open |-> FALSE, tuning |-> Untuned,
           held |-> Untuned, total |-> 0, of |-> NoTake]

RecorderTypeOK ==
    /\ wanted \in Tunings /\ tuned \in Tunings
    /\ stream \in Seq(Tunings) /\ Len(stream) <= ChunkRoom
    /\ subscribed \in Takes \cup {NoTake} /\ recording \in Takes \cup {NoTake}
    /\ queue \in [Takes -> Seq(Tunings)] /\ \A t \in Takes : Len(queue[t]) <= ChunkRoom
    /\ take \in [Takes -> [pc : {"off", "read", "convert", "write", "over"},
                           running : BOOLEAN, open : BOOLEAN,
                           tuning : Tunings \cup {Untuned}, held : Tunings \cup {Untuned},
                           total : 0 .. MaxChunks, of : Takes \cup {NoTake}]]
    /\ file \in [Takes -> Seq(Tunings \cup {Torn})]
    /\ captures \in [Takes -> Captures]
    /\ meta \in [Takes -> [state : {"none", "progress", "broken", "final"}, captures : Captures,
                            rate : {Rate(f) : f \in Tunings} \cup {Untuned}]]
    /\ stopper \in {"idle", "join", "closed"}
    /\ chunks \in 0 .. MaxChunks

RecorderInit ==
    /\ wanted = CHOOSE f \in Tunings : TRUE
    /\ tuned = wanted
    /\ stream = <<>> /\ chunks = 0
    /\ subscribed = NoTake /\ queue = [t \in Takes |-> <<>>]
    /\ take = [t \in Takes |-> Unmade]
    /\ file = [t \in Takes |-> <<>>] /\ captures = [t \in Takes |-> <<>>]
    /\ meta = [t \in Takes |-> [state |-> "none", captures |-> <<>>, rate |-> Untuned]]
    /\ recording = NoTake /\ stopper = "idle"
-----------------------------------------------------------------------------
(* The stream. *)

PutOrDrop(q, chunk) == IF Len(q) < ChunkRoom THEN Append(q, chunk) ELSE q

\* update_configuration empties the subscribers' queues at once; the worker
\* changes over when it reads the command, and chunks may be under way.
Reconfigure(f) ==
    /\ stopper = "idle" /\ f # wanted
    /\ wanted' = f
    /\ queue' = IF subscribed = NoTake THEN queue ELSE [queue EXCEPT ![subscribed] = <<>>]
    /\ UNCHANGED <<tuned, stream, subscribed, take, diskVars, recording, stopper, chunks>>

ApplyTuning ==
    /\ tuned # wanted
    /\ tuned' = wanted
    /\ UNCHANGED <<wanted, stream, subscribed, queue, take, diskVars, recording, stopper, chunks>>

Sample ==
    /\ chunks < MaxChunks
    /\ chunks' = chunks + 1
    /\ stream' = PutOrDrop(stream, tuned)
    /\ UNCHANGED <<wanted, tuned, subscribed, queue, take, diskVars, recording, stopper>>

Broadcast ==
    /\ stream # <<>>
    /\ stream' = Tail(stream)
    /\ queue' = IF subscribed = NoTake THEN queue
                ELSE [queue EXCEPT ![subscribed] = PutOrDrop(@, Head(stream))]
    /\ UNCHANGED <<wanted, tuned, subscribed, take, diskVars, recording, stopper, chunks>>
-----------------------------------------------------------------------------
(* start_recorder.  A second start while one records only says "already      *)
(* running"; one that fails leaves its subscription to the next.             *)

MayRecord(t) ==
    /\ stopper = "idle" /\ recording = NoTake
    /\ take[t] = Unmade /\ \A s \in Takes : s < t => take[s] # Unmade

Subscription(t) == IF subscribed = NoTake THEN t ELSE subscribed

Record(t) ==
    /\ MayRecord(t)
    /\ subscribed' = Subscription(t)
    /\ take' = [take EXCEPT ![t] = [@ EXCEPT !.pc = "read", !.running = TRUE, !.open = TRUE,
                                             !.of = Subscription(t)]]
    /\ meta' = [meta EXCEPT ![t].state = "progress"]
    /\ recording' = t
    /\ UNCHANGED <<streamVars, queue, file, captures, stopper>>

RecordFails(t) ==
    /\ MayRecord(t)
    /\ subscribed' = Subscription(t)
    /\ take' = [take EXCEPT ![t].pc = "over"]
    /\ UNCHANGED <<streamVars, queue, diskVars, recording, stopper>>
-----------------------------------------------------------------------------
(* IQRecorder.run.  The loop looks at running once a chunk is dealt with; a  *)
(* thread that waits for one may have looked before stop() cleared it.       *)

Again(r) == IF r.running THEN "read" ELSE "over"
Count(r) == IF r.open THEN r.total + 1 ELSE r.total

\* A chunk of another frequency or rate begins a capture, which tells the
\* frequency.
GetChunk(t) ==
    LET r == take[t] chunk == Head(queue[r.of]) IN
    /\ r.pc = "read" /\ queue[r.of] # <<>>
    /\ queue' = [queue EXCEPT ![r.of] = Tail(@)]
    /\ captures' = IF chunk = r.tuning THEN captures
                   ELSE [captures EXCEPT ![t] = Append(@, [from |-> r.total,
                                                             freq |-> Frequency(chunk)])]
    /\ take' = [take EXCEPT ![t] = [@ EXCEPT !.pc = "convert", !.tuning = chunk, !.held = chunk]]
    /\ UNCHANGED <<streamVars, subscribed, file, meta, recording, stopper>>

\* A mutant: a chunk counts although it could not be decimated.
SkipCounted(t) ==
    /\ take[t].pc = "convert"
    /\ take' = [take EXCEPT ![t] = [@ EXCEPT !.pc = Again(take[t]), !.held = Untuned, !.total = @ + 1]]
    /\ UNCHANGED <<streamVars, subscribed, queue, diskVars, recording, stopper>>

\* Decimation fails, or the file is closed already: nothing is written.
Skip(t) ==
    /\ take[t].pc = "convert"
    /\ take' = [take EXCEPT ![t] = [@ EXCEPT !.pc = Again(take[t]), !.held = Untuned]]
    /\ UNCHANGED <<streamVars, subscribed, queue, diskVars, recording, stopper>>

BeginWrite(t) ==
    /\ take[t].pc = "convert" /\ take[t].open
    /\ take' = [take EXCEPT ![t].pc = "write"]
    /\ UNCHANGED <<streamVars, subscribed, queue, diskVars, recording, stopper>>

\* tofile writes through a descriptor of its own, so that a chunk arrives whether
\* or not the file was closed meanwhile; if it was, the exception passes the count.
Write(t) ==
    /\ take[t].pc = "write"
    /\ file' = [file EXCEPT ![t] = Append(@, take[t].held)]
    /\ take' = [take EXCEPT ![t] = [@ EXCEPT !.pc = Again(take[t]), !.held = Untuned,
                                             !.total = Count(take[t])]]
    /\ UNCHANGED <<streamVars, subscribed, queue, captures, meta, recording, stopper>>

\* The disk is full: part of the chunk is written, and nothing counted.
WriteFails(t) ==
    /\ take[t].pc = "write"
    /\ file' = [file EXCEPT ![t] = Append(@, Torn)]
    /\ take' = [take EXCEPT ![t] = [@ EXCEPT !.pc = Again(take[t]), !.held = Untuned]]
    /\ UNCHANGED <<streamVars, subscribed, queue, captures, meta, recording, stopper>>

EndThread(t) ==
    /\ take[t].pc = "read" /\ ~take[t].running
    /\ take' = [take EXCEPT ![t].pc = "over"]
    /\ UNCHANGED <<streamVars, subscribed, queue, diskVars, recording, stopper>>
-----------------------------------------------------------------------------
(* stop_recorder, which holds up the event loop from its first step to its   *)
(* last.                                                                     *)

StopRecording ==
    /\ recording # NoTake /\ stopper = "idle"
    /\ take' = [take EXCEPT ![recording].running = FALSE]
    /\ stopper' = "join"
    /\ UNCHANGED <<streamVars, subscribed, queue, diskVars, recording>>

\* join(timeout=2.0) ends with the thread, or gives up on one at a long step.
Close ==
    /\ stopper = "join" /\ take[recording].pc # "read"
    /\ take' = [take EXCEPT ![recording].open = FALSE]
    /\ stopper' = "closed"
    /\ UNCHANGED <<streamVars, subscribed, queue, diskVars, recording>>

\* core:sample_rate, of the whole file, is the rate of the last tuning.
RateAtStop(r) == IF r.tuning = Untuned THEN Untuned ELSE Rate(r.tuning)

Finalise ==
    /\ stopper = "closed"
    /\ meta' = [meta EXCEPT ![recording] = [state |-> "final", captures |-> captures[recording],
                                            rate |-> RateAtStop(take[recording])]]
    /\ subscribed' = NoTake
    /\ recording' = NoTake /\ stopper' = "idle"
    /\ UNCHANGED <<streamVars, queue, take, file, captures>>

\* The metadata cannot be written: the recording stays listed, and may be
\* stopped once more.
FinaliseFails ==
    /\ stopper = "closed"
    /\ meta' = [meta EXCEPT ![recording] = [state |-> "broken", captures |-> <<>>,
                                            rate |-> Untuned]]
    /\ stopper' = "idle"
    /\ UNCHANGED <<streamVars, subscribed, queue, take, file, captures, recording>>

RecorderNext ==
    \/ \E f \in Tunings : Reconfigure(f)
    \/ ApplyTuning \/ Sample \/ Broadcast
    \/ \E t \in Takes : \/ Record(t) \/ RecordFails(t) \/ GetChunk(t) \/ Skip(t) \/ BeginWrite(t)
                        \/ Write(t) \/ WriteFails(t) \/ EndThread(t)
    \/ StopRecording \/ Close \/ Finalise \/ FinaliseFails

RecorderSpec == RecorderInit /\ [][RecorderNext]_recorderVars
-----------------------------------------------------------------------------
\* The frequency that captures c give to sample n (from 0) is that of the last one
\* that begins no later.
Labelled(c, n, f) ==
    \E j \in 1 .. Len(c) :
        /\ c[j].freq = f /\ c[j].from <= n
        /\ \A k \in j + 1 .. Len(c) : c[k].from > n

ShownCaptures(t) == IF meta[t].state = "final" THEN meta[t].captures ELSE captures[t]

\* Whole chunks, before the first of which the disk took only a part.
Whole(t) == {i \in 1 .. Len(file[t]) : \A j \in 1 .. i : file[t][j] # Torn}

\* Up to the first write that failed, every sample of a recording is shown at the
\* frequency it was made at, whatever was flushed, dropped or not decimated, also
\* one that a thread writes after stop() gave up on it and finalised the metadata;
\* and at its rate, if the recording has one capture only.
SamplesAreLabelled ==
    \A t \in Takes : \A i \in Whole(t) :
        /\ Labelled(ShownCaptures(t), i - 1, Frequency(file[t][i]))
        /\ meta[t].state = "final" /\ Len(meta[t].captures) = 1 => meta[t].rate = Rate(file[t][i])
=============================================================================
