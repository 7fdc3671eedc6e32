------------------------------ MODULE Receiver ------------------------------
(***************************************************************************)
(* Files on the air: the frames of build_file_frames, sent one file after  *)
(* another through a channel that loses frames, and the FileReceiver that  *)
(* puts them together.  A frame's payload is its file and sequence number; *)
(* a CRC16 over what was put together tells whether it is one file.        *)
(***************************************************************************)
EXTENDS Naturals, Sequences, SequencesExt

CONSTANTS
    AirFiles,   \* the files on the air
    LastSeq(_), \* the sequence number of each file's last frame
    FrameType(_), \* the oscardata frame type of each file
    Repeat,     \* repeat_first and repeat_last
    DoneWindow, \* how many files _done_ids remembers (32)
    MaxSends    \* bound: transmissions

ASSUME ReceiverAssumption ==
    /\ \A f \in AirFiles : LastSeq(f) \in Nat
    /\ Repeat \in Nat \ {0} /\ DoneWindow \in Nat \ {0} /\ MaxSends \in Nat
    /\ 0 \notin AirFiles

\* "The 10-bit frame counter limits a file to 1024 frames": some file is longest.
ASSUME LongestAssumption == \E f \in AirFiles : \A g \in AirFiles : LastSeq(g) <= LastSeq(f)

Nothing == 0
MaxSeq == CHOOSE n \in {LastSeq(f) : f \in AirFiles} : \A f \in AirFiles : LastSeq(f) <= n
Seqs == 0 .. MaxSeq
Unknown == MaxSeq + 1

VARIABLES
    air,      \* the file being sent and the frames of it still to come
    part,     \* FileReceiver._current: its file, chunks and last_seq
    done,     \* _done_ids
    files,    \* the files this receiver handed on
    clean,    \* no frame of this transmission was lost
    fresh,    \* it did not begin on top of a partial copy of the same file
    sends

receiverVars == <<air, part, done, files, clean, fresh, sends>>

\* The first and the last frame are repeated; a single frame is both.
Frames(f) ==
    LET n == LastSeq(f) IN
    [i \in 1 .. (IF n = 0 THEN Repeat ELSE n - 1 + 2 * Repeat) |->
        IF i <= Repeat THEN 0 ELSE IF i - Repeat < n THEN i - Repeat ELSE n]

Silence == [of |-> Nothing, left |-> <<>>]
NoPart == [of |-> Nothing, chunks |-> [s \in Seqs |-> Nothing], last |-> Unknown]

ReceiverTypeOK ==
    /\ air \in [of : AirFiles \cup {Nothing}, left : Seq(Seqs)]
    /\ part \in [of : AirFiles \cup {Nothing}, chunks : [Seqs -> AirFiles \cup {Nothing}],
                 last : Seqs \cup {Unknown}]
    /\ done \in Seq(AirFiles) /\ Len(done) <= DoneWindow
    /\ files \in Seq(AirFiles)
    /\ clean \in BOOLEAN /\ fresh \in BOOLEAN
    /\ sends \in 0 .. MaxSends

ReceiverInit ==
    /\ air = Silence /\ part = NoPart
    /\ done = <<>> /\ files = <<>>
    /\ clean = TRUE /\ fresh = TRUE
    /\ sends = 0
-----------------------------------------------------------------------------
\* Some station sends a file.
SendFile(f) ==
    /\ air.left = <<>>
    /\ sends < MaxSends /\ sends' = sends + 1
    /\ air' = [of |-> f, left |-> Frames(f)]
    /\ clean' = TRUE
    /\ fresh' = (part.of # f)
    /\ UNCHANGED <<part, done, files>>

\* A frame is lost on the way.
LoseFrame ==
    /\ air.left # <<>>
    /\ air' = [air EXCEPT !.left = Tail(@)]
    /\ clean' = FALSE
    /\ UNCHANGED <<part, done, files, fresh, sends>>

\* A mutant: a partial file is not replaced.
BegunOnce(f, s) ==
    IF s = 0 /\ part.of = Nothing THEN [NoPart EXCEPT !.of = f] ELSE part

\* A first frame replaces the partial file unless it continues it; one of a
\* file already done changes nothing.
Begun(f, s) ==
    IF s = 0 /\ part.of # f THEN [NoPart EXCEPT !.of = f] ELSE part

\* The chunk is kept unless there is one with its number.
Kept(p, f, s) ==
    [p EXCEPT !.chunks[s] = IF @ = Nothing THEN f ELSE @,
              !.last = IF s = LastSeq(f) THEN s ELSE @]

Complete(p) == p.last # Unknown /\ \A s \in 0 .. p.last : p.chunks[s] # Nothing

\* CRC16 of the assembled bytes, cut to the size in the first frame.
CrcFits(p) == LastSeq(p.of) <= p.last /\ \A s \in 0 .. LastSeq(p.of) : p.chunks[s] = p.of

\* Mutants: only the last file is remembered, or all are.
RememberedLast(f) == <<f>>
RememberedAll(f) == Append(done, f)

Remembered(f) == LET all == Append(done, f) IN
    SubSeq(all, IF Len(all) > DoneWindow THEN Len(all) - DoneWindow + 1 ELSE 1, Len(all))

\* FileReceiver.push.
Push ==
    LET f == air.of
        s == Head(air.left)
        isRepeat == s = 0 /\ part.of # f /\ f \in ToSet(done)
        p == Begun(f, s)
        q == Kept(p, f, s)
    IN
    /\ air.left # <<>>
    /\ air' = [air EXCEPT !.left = Tail(@)]
    /\ \/ /\ isRepeat \/ p.of = Nothing
          /\ UNCHANGED <<part, done, files>>
       \/ /\ ~isRepeat /\ p.of # Nothing /\ FrameType(p.of) # FrameType(f)
          /\ part' = p
          /\ UNCHANGED <<done, files>>
       \/ /\ ~isRepeat /\ p.of # Nothing /\ FrameType(p.of) = FrameType(f)
          /\ \/ ~Complete(q) /\ part' = q /\ UNCHANGED <<done, files>>
             \/ Complete(q) /\ ~CrcFits(q) /\ part' = NoPart /\ UNCHANGED <<done, files>>
             \/ /\ Complete(q) /\ CrcFits(q)
                /\ part' = NoPart
                /\ done' = Remembered(q.of)
                /\ files' = Append(files, q.of)
    /\ UNCHANGED <<clean, fresh, sends>>

\* A retune or a restart of the station: a new FileReceiver.
Renew ==
    /\ part' = NoPart /\ done' = <<>>
    /\ files' = <<>>
    /\ clean' = FALSE /\ fresh' = TRUE
    /\ UNCHANGED <<air, sends>>

ReceiverNext == (\E f \in AirFiles : SendFile(f)) \/ LoseFrame \/ Push \/ Renew

ReceiverSpec == ReceiverInit /\ [][ReceiverNext]_receiverVars
-----------------------------------------------------------------------------
\* "duplicates are ignored": a file sent again is not handed on again before
\* DoneWindow others were.
NotTwice ==
    \A i, j \in 1 .. Len(files) : i < j /\ files[i] = files[j] => j - i > DoneWindow

\* A transmission heard without a gap leaves the receiver with the file, unless
\* it began on top of an earlier partial copy of it.
CleanFileArrives ==
    air.of # Nothing /\ air.left = <<>> /\ clean /\ fresh =>
        \E i \in 1 .. Len(files) : files[i] = air.of
=============================================================================
