--------------------------- MODULE ReceiverProofs ---------------------------
(***************************************************************************)
(* That the receiver hands on no file twice within DoneWindow others,      *)
(* whatever is lost, for any files and frames.  The argument: the files    *)
(* remembered are the last ones handed on, and the one being put together  *)
(* is none of them.  Then that a file of which no frame is lost is handed  *)
(* on: what was heard of it and what is still on the air are all of its    *)
(* frames.  And that the recorder's samples are labelled with what they    *)
(* were taken at: what it counts is what is in the file, until a write     *)
(* fails or a last chunk is written after stop() gave up on it.            *)
(***************************************************************************)
EXTENDS Receiver, Recorder, TLAPS

PartTypes == [of : AirFiles \cup {Nothing}, chunks : [Seqs -> AirFiles \cup {Nothing}],
              last : Nat \cup {Unknown}]
ReceivedTypes ==
    /\ air.left # <<>> => air.of \in AirFiles
    /\ part \in PartTypes
    /\ done \in Seq(AirFiles) /\ files \in Seq(AirFiles)

\* What is remembered is what was handed on last.
RemembersLast ==
    /\ Len(done) <= DoneWindow
    /\ Len(done) = DoneWindow \/ Len(done) = Len(files)
    /\ Len(done) <= Len(files)
    /\ \A i \in 1 .. Len(done) : done[i] = files[Len(files) - Len(done) + i]

PartIsNew == part.of # Nothing => \A i \in 1 .. Len(done) : done[i] # part.of

ReceiverInv ==
    ReceivedTypes /\ RemembersLast /\ PartIsNew /\ NotTwice
-----------------------------------------------------------------------------
LEMMA NoPartType == NoPart \in PartTypes /\ NoPart.of = Nothing
BY DEF NoPart, PartTypes

LEMMA ReceiverInitInv == ReceiverInit => ReceiverInv
<1> SUFFICES ASSUME ReceiverInit PROVE ReceiverInv
  OBVIOUS
<1> USE ReceiverAssumption DEF ReceiverInit
<1>1. ReceivedTypes
  BY NoPartType DEF ReceivedTypes, Silence
<1>2. RemembersLast /\ PartIsNew
  BY NoPartType DEF RemembersLast, PartIsNew
<1> QED
  BY <1>1, <1>2 DEF ReceiverInv, NotTwice

\* A chunk more, of the same file.
LEMMA KeptType ==
    ASSUME NEW p \in PartTypes, NEW f \in AirFiles, NEW s
    PROVE  Kept(p, f, s) \in PartTypes /\ Kept(p, f, s).of = p.of
<1> DEFINE c == [p.chunks EXCEPT ![s] = IF @ = Nothing THEN f ELSE @]
           l == IF s = LastSeq(f) THEN s ELSE p.last
<1>1. c \in [Seqs -> AirFiles \cup {Nothing}]
  BY DEF PartTypes
<1>2. l \in Nat \cup {Unknown}
  BY ReceiverAssumption DEF PartTypes
<1>3. Kept(p, f, s) = [p EXCEPT !.chunks = c, !.last = l]
  BY DEF Kept, PartTypes
<1> HIDE DEF c, l
<1>4. Kept(p, f, s) = [of |-> p.of, chunks |-> c, last |-> l]
  BY <1>3 DEF PartTypes
<1> QED
  BY <1>1, <1>2, <1>4 DEF PartTypes

\* A first frame begins a file that is not among those remembered.
LEMMA BegunIsNew ==
    ASSUME ReceiverInv, NEW f \in AirFiles, NEW s, Begun(f, s).of # Nothing,
           ~(s = 0 /\ part.of # f /\ f \in ToSet(done))
    PROVE  /\ Begun(f, s) \in PartTypes
           /\ \A i \in 1 .. Len(done) : done[i] # Begun(f, s).of
<1>1. CASE s = 0 /\ part.of # f
  <2>1. Begun(f, s) = [NoPart EXCEPT !.of = f]
    BY <1>1 DEF Begun
  <2>2. Begun(f, s) \in PartTypes /\ Begun(f, s).of = f
    BY <2>1, NoPartType DEF PartTypes
  <2>3. \A i \in 1 .. Len(done) : done[i] # f
    BY <1>1 DEF ToSet, ReceiverInv, ReceivedTypes
  <2> QED
    BY <2>2, <2>3
<1>2. CASE ~(s = 0 /\ part.of # f)
  <2>1. Begun(f, s) = part
    BY <1>2 DEF Begun
  <2> QED
    BY <2>1 DEF ReceiverInv, ReceivedTypes, PartIsNew
<1> QED
  BY <1>1, <1>2

\* The file put together is remembered, and the oldest one forgotten.
LEMMA RememberedIs ==
    ASSUME done \in Seq(AirFiles), Len(done) <= DoneWindow, NEW f \in AirFiles
    PROVE  LET r == Remembered(f)
               n == IF Len(done) = DoneWindow THEN DoneWindow ELSE Len(done) + 1
           IN  /\ r \in Seq(AirFiles) /\ Len(r) = n
               /\ r[n] = f
               /\ \A i \in 1 .. n - 1 : r[i] = done[Len(done) - (n - 1) + i]
<1> USE ReceiverAssumption
<1> DEFINE all == Append(done, f)
<1>1. /\ all \in Seq(AirFiles) /\ Len(all) = Len(done) + 1
      /\ all[Len(done) + 1] = f
      /\ \A i \in 1 .. Len(done) : all[i] = done[i]
  OBVIOUS
<1> HIDE DEF all
<1>2. CASE Len(done) = DoneWindow
  <2>1. Remembered(f) = SubSeq(all, 2, DoneWindow + 1)
    BY <1>1, <1>2 DEF Remembered, all
  <2> QED
    BY <1>1, <1>2, <2>1
<1>3. CASE Len(done) # DoneWindow
  <2>1. Len(done) \in Nat /\ ~(Len(done) + 1 > DoneWindow)
    BY <1>3
  <2>2. Remembered(f) = SubSeq(all, 1, Len(all))
    BY <1>1, <2>1 DEF Remembered, all
  <2>3. SubSeq(all, 1, Len(all)) = all
    BY <1>1
  <2>4. /\ Len(done) + 1 - 1 = Len(done)
        /\ \A i \in 1 .. Len(done) : Len(done) - Len(done) + i = i
    BY <2>1
  <2>5. Remembered(f) = all
    BY <2>2, <2>3
  <2>6. LET n == Len(done) + 1 IN
        \A i \in 1 .. n - 1 : Remembered(f)[i] = done[Len(done) - (n - 1) + i]
    BY <1>1, <2>4, <2>5
  <2> QED
    BY <1>1, <1>3, <2>5, <2>6
<1> QED
  BY <1>2, <1>3
-----------------------------------------------------------------------------
\* What goes on the air, or is lost, changes nothing received.
LEMMA AirKeeps ==
    ASSUME ReceiverInv, (\E f \in AirFiles : SendFile(f)) \/ LoseFrame \/ UNCHANGED receiverVars
    PROVE  ReceiverInv'
<1>1. UNCHANGED <<part, done, files>>
  BY DEF SendFile, LoseFrame, receiverVars
<1>2. air'.left # <<>> => air'.of \in AirFiles
  <2>1. CASE \E f \in AirFiles : SendFile(f)
    BY <2>1 DEF SendFile
  <2>2. CASE LoseFrame
    <3>1. air'.of = air.of
      BY <2>2 DEF LoseFrame
    <3> QED
      BY <2>2, <3>1 DEF LoseFrame, ReceiverInv, ReceivedTypes
  <2>3. CASE UNCHANGED receiverVars
    BY <2>3 DEF receiverVars, ReceiverInv, ReceivedTypes
  <2> QED
    BY <2>1, <2>2, <2>3
<1> QED
  BY <1>1, <1>2
     DEF ReceiverInv, ReceivedTypes, RemembersLast, PartIsNew, NotTwice

LEMMA RenewKeeps == ASSUME ReceiverInv, Renew PROVE ReceiverInv'
<1>1. part' = NoPart /\ done' = <<>> /\ files' = <<>> /\ air' = air
  BY DEF Renew
<1>2. ReceivedTypes'
  BY <1>1, NoPartType DEF ReceiverInv, ReceivedTypes
<1>3. RemembersLast' /\ PartIsNew'
  BY <1>1, NoPartType, ReceiverAssumption DEF RemembersLast, PartIsNew
<1> QED
  BY <1>1, <1>2, <1>3 DEF ReceiverInv, NotTwice

\* The file is not among the last DoneWindow handed on.
LEMMA HandedOnKeeps ==
    ASSUME ReceiverInv, NEW q \in PartTypes, q.of \in AirFiles,
           \A i \in 1 .. Len(done) : done[i] # q.of,
           part' = NoPart, done' = Remembered(q.of),
           files' = Append(files, q.of)
    PROVE  RemembersLast' /\ PartIsNew' /\ NotTwice'
           /\ part' \in PartTypes /\ done' \in Seq(AirFiles) /\ files' \in Seq(AirFiles)
<1> USE ReceiverAssumption
<1> DEFINE n == Len(files) + 1
           new == q.of
<1>1. new \in AirFiles
  OBVIOUS
<1>2. files \in Seq(AirFiles) /\ done \in Seq(AirFiles) /\ Len(files) \in Nat /\ Len(done) \in Nat
  BY DEF ReceiverInv, ReceivedTypes
<1>3. /\ files' \in Seq(AirFiles) /\ Len(files') = n /\ files'[n] = new
      /\ \A i \in 1 .. Len(files) : files'[i] = files[i]
  BY <1>1, <1>2 DEF new
<1>4. RemembersLast' /\ done' \in Seq(AirFiles)
  <2> DEFINE m == IF Len(done) = DoneWindow THEN DoneWindow ELSE Len(done) + 1
  <2>1. /\ done' \in Seq(AirFiles) /\ Len(done') = m /\ done'[m] = q.of
        /\ \A i \in 1 .. m - 1 : done'[i] = done[Len(done) - (m - 1) + i]
    BY <1>2, RememberedIs DEF ReceiverInv, RemembersLast
  <2>2. /\ Len(done) <= DoneWindow /\ Len(done) <= Len(files)
        /\ Len(done) = DoneWindow \/ Len(done) = Len(files)
        /\ \A i \in 1 .. Len(done) : done[i] = files[Len(files) - Len(done) + i]
    BY DEF ReceiverInv, RemembersLast
  <2>3. /\ m \in Nat /\ m <= DoneWindow /\ m <= n /\ (m = DoneWindow \/ m = n)
        /\ m - 1 <= Len(done)
    BY <1>2, <2>2
  <2>4. ASSUME NEW i \in 1 .. m PROVE done'[i] = files'[n - m + i]
    <3>1. CASE i = m
      BY <1>1, <1>2, <1>3, <2>1, <2>3, <3>1
    <3>2. CASE i # m
      <4>1. i \in 1 .. m - 1 /\ Len(done) - (m - 1) + i \in 1 .. Len(done)
        BY <1>2, <2>3, <3>2
      <4>2. Len(files) - Len(done) + (Len(done) - (m - 1) + i) = n - m + i
        BY <1>2, <2>3
      <4>3. n - m + i \in 1 .. Len(files)
        BY <1>2, <2>3, <4>1
      <4> HIDE DEF m, n
      <4>4. done'[i] = files[n - m + i]
        BY <2>1, <2>2, <4>1, <4>2
      <4> QED
        BY <1>3, <4>3, <4>4
    <3> QED
      BY <3>1, <3>2
  <2> QED
    BY <1>2, <1>3, <2>1, <2>3, <2>4 DEF RemembersLast
<1>5. NotTwice'
  <2> SUFFICES ASSUME NEW i \in 1 .. n, NEW j \in 1 .. n, i < j, files'[i] = files'[j]
               PROVE  j - i > DoneWindow
    BY <1>3 DEF NotTwice
  <2>1. CASE j # n
    <3>0. \A k \in Nat : \A a, b \in 1 .. k + 1 :
             a < b /\ b # k + 1 => a \in 1 .. k /\ b \in 1 .. k
      OBVIOUS
    <3>1. i \in 1 .. Len(files) /\ j \in 1 .. Len(files)
      BY <1>2, <2>1, <3>0
    <3>2. files'[i] = files[i] /\ files'[j] = files[j]
      BY <1>3, <3>1
    <3>3. files[i] = files[j]
      BY <3>2
    <3> QED
      BY <3>1, <3>3 DEF ReceiverInv, NotTwice
  <2>2. CASE j = n
    <3>1. i \in 1 .. Len(files) /\ files[i] = q.of
      BY <1>1, <1>2, <1>3, <2>2
    <3>2. ~(i > Len(files) - Len(done))
      <4> SUFFICES ASSUME i > Len(files) - Len(done) PROVE FALSE
        OBVIOUS
      <4>1. i - (Len(files) - Len(done)) \in 1 .. Len(done)
        BY <1>2, <3>1 DEF ReceiverInv, RemembersLast
      <4>2. Len(files) - Len(done) + (i - (Len(files) - Len(done))) = i
        BY <1>2
      <4>3. done[i - (Len(files) - Len(done))] = files[i]
        BY <4>1, <4>2 DEF ReceiverInv, RemembersLast
      <4> QED
        BY <3>1, <4>1, <4>3
    <3>3. Len(done) = DoneWindow
      BY <1>2, <3>1, <3>2 DEF ReceiverInv, RemembersLast
    <3> QED
      BY <1>2, <2>2, <3>1, <3>2, <3>3
  <2> QED
    BY <2>1, <2>2
<1> QED
  BY <1>3, <1>4, <1>5, NoPartType DEF PartIsNew

LEMMA PushKeeps == ASSUME ReceiverInv, Push PROVE ReceiverInv'
<1> DEFINE f == air.of
           s == Head(air.left)
           isRepeat == s = 0 /\ part.of # f /\ f \in ToSet(done)
           p == Begun(f, s)
           q == Kept(p, f, s)
<1>1. f \in AirFiles /\ (air'.left # <<>> => air'.of \in AirFiles)
  <2>1. air' = [air EXCEPT !.left = Tail(@)] /\ air.left # <<>>
    BY DEF Push
  <2> QED
    BY <2>1 DEF ReceiverInv, ReceivedTypes
<1>2. ASSUME ~isRepeat, p.of # Nothing
      PROVE  /\ p \in PartTypes /\ q \in PartTypes /\ q.of = p.of /\ q.of \in AirFiles
             /\ \A i \in 1 .. Len(done) : done[i] # q.of
  <2>1. p \in PartTypes /\ \A i \in 1 .. Len(done) : done[i] # p.of
    BY <1>1, <1>2, BegunIsNew
  <2>2. q \in PartTypes /\ q.of = p.of
    BY <1>1, <2>1, KeptType
  <2> QED
    BY <1>2, <2>1, <2>2 DEF PartTypes
<1>3. CASE UNCHANGED <<part, done, files>>
  BY <1>1, <1>3
     DEF ReceiverInv, ReceivedTypes, RemembersLast, PartIsNew, NotTwice
<1>4. CASE ~isRepeat /\ p.of # Nothing /\ part' \in {p, q, NoPart} /\ UNCHANGED <<done, files>>
  <2>1. part' \in PartTypes /\ PartIsNew'
    BY <1>2, <1>4, NoPartType DEF PartIsNew
  <2> QED
    BY <1>1, <1>4, <2>1 DEF ReceiverInv, ReceivedTypes, RemembersLast, NotTwice
<1>5. CASE /\ ~isRepeat /\ p.of # Nothing /\ CrcFits(q)
           /\ part' = NoPart /\ done' = Remembered(q.of)
           /\ files' = Append(files, q.of)
  BY <1>1, <1>2, <1>5, HandedOnKeeps DEF ReceiverInv, ReceivedTypes
<1> QED
  BY <1>3, <1>4, <1>5 DEF Push
-----------------------------------------------------------------------------
LEMMA ReceiverAlways == ReceiverSpec => []ReceiverInv
<1>1. ReceiverInv /\ [ReceiverNext]_receiverVars => ReceiverInv'
  BY AirKeeps, RenewKeeps, PushKeeps DEF ReceiverNext
<1> QED
  BY ReceiverInitInv, <1>1, PTL DEF ReceiverSpec

\* A file sent again, in whatever pieces, is not handed on again before
\* DoneWindow others were.
THEOREM FilesComeOnce == ReceiverSpec => []NotTwice
<1>1. ReceiverInv => NotTwice
  BY DEF ReceiverInv
<1> QED
  BY ReceiverAlways, <1>1, PTL
-----------------------------------------------------------------------------
(***************************************************************************)
(* A transmission heard without a gap arrives.  The argument: until the    *)
(* file is handed on, what was put together of it is exactly the frames    *)
(* sent so far, of which the last is not one.                              *)
(***************************************************************************)

\* The frames of the transmission that are over.
Over == Len(Frames(air.of)) - Len(air.left)
LeftOfFrames ==
    /\ air \in [of : AirFiles \cup {Nothing}, left : Seq(Seqs)]
    /\ air.of = Nothing => air.left = <<>>
    /\ air.of # Nothing =>
          Over \in Nat /\ \A i \in 1 .. Len(air.left) : air.left[i] = Frames(air.of)[Over + i]
Handed == \E i \in 1 .. Len(files) : files[i] = air.of
NotBegun == Over = 0 /\ part.of # air.of
Collected ==
    /\ Over > 0 /\ Frames(air.of)[Over] < LastSeq(air.of)
    /\ part.of = air.of /\ part.last = Unknown
    /\ \A s \in Seqs : part.chunks[s] = IF s <= Frames(air.of)[Over] THEN air.of ELSE Nothing
Collects == air.of # Nothing /\ clean /\ fresh => Handed \/ NotBegun \/ Collected

\* The largest of the sequence numbers.
LEMMA MaxSeqIs ==
    /\ MaxSeq \in Nat /\ Unknown = MaxSeq + 1
    /\ \A f \in AirFiles : LastSeq(f) \in Nat /\ LastSeq(f) \in Seqs /\ 0 .. LastSeq(f) \subseteq Seqs
<1>1. \E n \in {LastSeq(f) : f \in AirFiles} : \A f \in AirFiles : LastSeq(f) <= n
  BY LongestAssumption
<1>2. MaxSeq \in {LastSeq(f) : f \in AirFiles} /\ \A f \in AirFiles : LastSeq(f) <= MaxSeq
  BY <1>1 DEF MaxSeq
<1> QED
  BY <1>2, ReceiverAssumption DEF Seqs, Unknown

\* The frames of a file begin with the first, end with the last and leave none out.
LEMMA FramesInOrder ==
    ASSUME NEW f \in AirFiles
    PROVE  /\ Frames(f) \in Seq(Seqs) /\ Len(Frames(f)) \in Nat \ {0}
           /\ \A i \in 1 .. Len(Frames(f)) : Frames(f)[i] \in 0 .. LastSeq(f)
           /\ Frames(f)[1] = 0 /\ Frames(f)[Len(Frames(f))] = LastSeq(f)
           /\ \A i \in 1 .. Len(Frames(f)) - 1 :
                 Frames(f)[i + 1] = Frames(f)[i] \/ Frames(f)[i + 1] = Frames(f)[i] + 1
<1> DEFINE n == LastSeq(f)
           length == IF n = 0 THEN Repeat ELSE n - 1 + 2 * Repeat
           frame(i) == IF i <= Repeat THEN 0 ELSE IF i - Repeat < n THEN i - Repeat ELSE n
<1>1. n \in Nat /\ Repeat \in Nat \ {0} /\ length \in Nat \ {0} /\ 0 .. n \subseteq Seqs
  BY ReceiverAssumption, MaxSeqIs
<1>2. Frames(f) = [i \in 1 .. length |-> frame(i)]
  BY DEF Frames
<1>3. \A i \in 1 .. length : frame(i) \in 0 .. n
  BY <1>1
<1>4. Frames(f) \in Seq(Seqs) /\ Len(Frames(f)) = length
  <2> HIDE DEF length, frame
  <2> QED BY <1>1, <1>2, <1>3
<1>5. \A i \in 1 .. length : Frames(f)[i] = frame(i)
  BY <1>2
<1>6. frame(1) = 0 /\ frame(length) = n
  BY <1>1
<1>7. \A i \in 1 .. length - 1 : frame(i + 1) = frame(i) \/ frame(i + 1) = frame(i) + 1
  BY <1>1
<1> HIDE DEF frame
<1>8. 1 \in 1 .. length /\ length \in 1 .. length
      /\ \A i \in 1 .. length - 1 : i \in 1 .. length /\ i + 1 \in 1 .. length
  BY <1>1
<1>9. \A i \in 1 .. length : Frames(f)[i] \in 0 .. n
  BY <1>3, <1>5
<1>10. Frames(f)[1] = 0 /\ Frames(f)[length] = n
  BY <1>5, <1>6, <1>8
<1>11. \A i \in 1 .. length - 1 :
          Frames(f)[i + 1] = Frames(f)[i] \/ Frames(f)[i + 1] = Frames(f)[i] + 1
  BY <1>5, <1>7, <1>8
<1>12. length \in Nat \ {0}
  BY <1>1
<1> HIDE DEF length
<1> QED
  BY <1>4, <1>9, <1>10, <1>11, <1>12

LEMMA EmptyIsNone == ASSUME NEW S, NEW q \in Seq(S) PROVE q = <<>> <=> Len(q) = 0
OBVIOUS

LEMMA OneLess ==
    ASSUME NEW l \in Nat, NEW k \in Nat \ {0}
    PROVE  l - (k - 1) = (l - k) + 1 /\ l - k < l /\ (k - 1 = 0 <=> (l - k) + 1 = l)
OBVIOUS

\* A frame less is left.
LEMMA LeftShrinks ==
    ASSUME LeftOfFrames, air.left # <<>>, air' = [air EXCEPT !.left = Tail(@)]
    PROVE  /\ LeftOfFrames' /\ air'.of = air.of /\ air.of \in AirFiles
           /\ Over' = Over + 1 /\ Over < Len(Frames(air.of))
           /\ Head(air.left) = Frames(air.of)[Over + 1]
           /\ air'.left = <<>> <=> Over + 1 = Len(Frames(air.of))
<1>1. /\ air.of \in AirFiles /\ air.left \in Seq(Seqs) /\ air'.of = air.of
      /\ air'.left = Tail(air.left)
  BY DEF LeftOfFrames
<1>2. /\ air'.left \in Seq(Seqs) /\ Len(air'.left) = Len(air.left) - 1 /\ Len(air.left) \in Nat \ {0}
      /\ Head(air.left) = air.left[1]
      /\ \A i \in 1 .. Len(air'.left) : air'.left[i] = air.left[i + 1]
  BY <1>1
<1>3. air' \in [of : AirFiles \cup {Nothing}, left : Seq(Seqs)]
  BY <1>1, <1>2 DEF LeftOfFrames
<1>4. Len(Frames(air.of)) \in Nat /\ Over \in Nat /\ air.of # Nothing
  BY <1>1, FramesInOrder, ReceiverAssumption DEF LeftOfFrames, Nothing
<1>5. Over' = Over + 1 /\ Over < Len(Frames(air.of))
  <2>1. Over = Len(Frames(air.of)) - Len(air.left) /\ Over' = Len(Frames(air.of)) - Len(air'.left)
    BY <1>1 DEF Over
  <2> QED
    <3>1. Over' = Len(Frames(air.of)) - (Len(air.left) - 1)
      BY <1>2, <2>1
    <3>2. Over' = (Len(Frames(air.of)) - Len(air.left)) + 1
      BY <1>2, <1>4, <3>1, OneLess
    <3>3. Len(Frames(air.of)) - Len(air.left) < Len(Frames(air.of))
      BY <1>2, <1>4, OneLess
    <3> QED
      BY <2>1, <3>2, <3>3
<1>6. \A i \in 1 .. Len(air.left) : air.left[i] = Frames(air.of)[Over + i]
  BY <1>4 DEF LeftOfFrames
<1>7. Head(air.left) = Frames(air.of)[Over + 1]
  BY <1>2, <1>6
<1>8. \A i \in 1 .. Len(air'.left) : air'.left[i] = Frames(air'.of)[Over' + i]
  <2> SUFFICES ASSUME NEW i \in 1 .. Len(air'.left)
               PROVE  air'.left[i] = Frames(air'.of)[Over' + i]
    OBVIOUS
  <2>1. i + 1 \in 1 .. Len(air.left) /\ Over + (i + 1) = (Over + 1) + i
    BY <1>2, <1>4
  <2> QED
    BY <1>1, <1>2, <1>5, <1>6, <2>1
<1>9. (air'.left = <<>>) <=> (Over + 1 = Len(Frames(air.of)))
  <2>1. (air'.left = <<>>) <=> (Len(air'.left) = 0)
    BY <1>2, EmptyIsNone
  <2>2. Over = Len(Frames(air.of)) - Len(air.left)
    BY DEF Over
  <2> QED
    BY <1>2, <1>4, <2>1, <2>2, OneLess
<1> QED
  BY <1>1, <1>3, <1>4, <1>5, <1>7, <1>8, <1>9 DEF LeftOfFrames

LEMMA LeftKept ==
    ASSUME LeftOfFrames, [ReceiverNext]_receiverVars PROVE LeftOfFrames'
<1>1. CASE UNCHANGED air
  BY <1>1 DEF LeftOfFrames, Over
<1>2. ASSUME NEW f \in AirFiles, SendFile(f) PROVE LeftOfFrames'
  <2>1. air'.of = f /\ air'.left = Frames(f) /\ air' = [of |-> f, left |-> Frames(f)]
    BY <1>2 DEF SendFile
  <2>2. Frames(f) \in Seq(Seqs) /\ Len(Frames(f)) \in Nat /\ f # Nothing
    BY FramesInOrder, ReceiverAssumption DEF Nothing
  <2>3. Over' = 0
    BY <2>1, <2>2 DEF Over
  <2>4. \A i \in 1 .. Len(Frames(f)) : 0 + i = i
    BY <2>2
  <2> QED
    BY <2>1, <2>2, <2>3, <2>4 DEF LeftOfFrames
<1>3. CASE LoseFrame \/ Push
  BY <1>3, LeftShrinks DEF LoseFrame, Push
<1> QED
  BY <1>1, <1>2, <1>3 DEF ReceiverNext, Renew, receiverVars

\* What a clean transmission has put together before a frame, and after it.
LEMMA PushCollects ==
    ASSUME ReceiverInv, LeftOfFrames, Push, clean, fresh, ~Handed, NotBegun \/ Collected
    PROVE  Handed' \/ Collected'
<1> DEFINE f == air.of
           n == LastSeq(f)
           s == Head(air.left)
           isRepeat == s = 0 /\ part.of # f /\ f \in ToSet(done)
           p == Begun(f, s)
           q == Kept(p, f, s)
<1>1. /\ f \in AirFiles /\ Over' = Over + 1 /\ Over < Len(Frames(f)) /\ air'.of = f
      /\ s = Frames(f)[Over + 1] /\ Over \in Nat /\ f # Nothing /\ Len(Frames(f)) \in Nat
  BY LeftShrinks, FramesInOrder, ReceiverAssumption DEF Push, LeftOfFrames, Nothing
<1>2. n \in Nat /\ 0 .. n \subseteq Seqs /\ s \in 0 .. n /\ Unknown \notin Seqs /\ n # Unknown
  BY <1>1, FramesInOrder, MaxSeqIs DEF Seqs
<1>3. f \notin ToSet(done)
  <2> SUFFICES ASSUME NEW i \in 1 .. Len(done), done[i] = f PROVE FALSE
    BY DEF ToSet, ReceiverInv, ReceivedTypes
  <2>1. done[i] = files[Len(files) - Len(done) + i] /\ Len(done) <= Len(files)
        /\ Len(done) \in Nat /\ Len(files) \in Nat
    BY DEF ReceiverInv, RemembersLast, ReceivedTypes
  <2>2. Len(files) - Len(done) + i \in 1 .. Len(files)
    BY <2>1
  <2> QED
    BY <2>1, <2>2 DEF Handed
<1>4. /\ p \in PartTypes /\ p.of = f /\ p.last = Unknown
      /\ \A r \in Seqs : p.chunks[r] = f <=> r < s \/ (r = s /\ p.chunks[r] # Nothing)
      /\ \A r \in Seqs : p.chunks[r] \in {f, Nothing}
  <2>1. CASE NotBegun
    <3>1. s = 0
      BY <1>1, <2>1, FramesInOrder DEF NotBegun
    <3>2. p = [NoPart EXCEPT !.of = f] /\ p.of = f /\ p.last = Unknown /\ p \in PartTypes
      BY <1>1, <2>1, <3>1 DEF NotBegun, Begun, NoPart, PartTypes
    <3>3. \A r \in Seqs : p.chunks[r] = Nothing
      BY <3>2 DEF NoPart
    <3>4. \A r \in Seqs : r \in Nat
      BY MaxSeqIs DEF Seqs
    <3> HIDE DEF p
    <3> QED
      BY <1>1, <3>1, <3>2, <3>3, <3>4
  <2>2. CASE Collected
    <3>1. p = part
      BY <2>2 DEF Collected, Begun
    <3>2. p \in PartTypes /\ p.of = f /\ p.last = Unknown
      BY <2>2, <3>1 DEF Collected, ReceiverInv, ReceivedTypes
    <3>3. \A r \in Seqs : p.chunks[r] = IF r <= Frames(f)[Over] THEN f ELSE Nothing
      BY <2>2, <3>1 DEF Collected
    <3>4. Frames(f)[Over] \in Nat /\ (s = Frames(f)[Over] \/ s = Frames(f)[Over] + 1)
      <4>1. Over \in 1 .. Len(Frames(f)) - 1
        BY <1>1, <2>2 DEF Collected
      <4> QED
        BY <1>1, <4>1, FramesInOrder
    <3>5. \A r \in Seqs : r \in Nat
      BY MaxSeqIs DEF Seqs
    <3> HIDE DEF p, s
    <3> QED
      BY <1>1, <3>2, <3>3, <3>4, <3>5
  <2> QED
    BY <2>1, <2>2
<1>5. /\ q \in PartTypes /\ q.of = f
      /\ q.last = IF s = n THEN n ELSE Unknown
      /\ \A r \in Seqs : q.chunks[r] = IF r <= s THEN f ELSE Nothing
  <2>1. q \in PartTypes /\ q.of = f
    BY <1>1, <1>4, KeptType
  <2> DEFINE c == [p.chunks EXCEPT ![s] = IF @ = Nothing THEN f ELSE @]
             l == IF s = n THEN s ELSE p.last
  <2>2. q = [p EXCEPT !.chunks = c, !.last = l]
    BY <1>4 DEF Kept, PartTypes
  <2> HIDE DEF p
  <2>3. q.chunks = c /\ q.last = l
    <3> HIDE DEF c, l, q
    <3> QED BY <1>4, <2>2 DEF PartTypes
  <2>4. \A r \in Seqs : c[r] = IF r <= s THEN f ELSE Nothing
    <3>1. p.chunks \in [Seqs -> AirFiles \cup {Nothing}] /\ s \in Seqs /\ s \in Nat
          /\ \A r \in Seqs : r \in Nat
      BY <1>2, <1>4, MaxSeqIs DEF PartTypes, Seqs
    <3> HIDE DEF s
    <3> QED BY <1>1, <1>4, <3>1
  <2> QED
    BY <1>4, <2>1, <2>3, <2>4
<1>6. \/ part' = q /\ ~Complete(q) /\ UNCHANGED files
      \/ Complete(q) /\ ~CrcFits(q)
      \/ Complete(q) /\ CrcFits(q) /\ files' = Append(files, q.of)
  BY <1>1, <1>3, <1>4 DEF Push
<1> HIDE DEF p, q
<1>7. CASE s = n
  <2>1. q.last = n /\ \A r \in 0 .. n : q.chunks[r] = f
    BY <1>2, <1>5, <1>7
  <2>2. Complete(q) /\ CrcFits(q)
    BY <1>1, <1>2, <1>5, <2>1 DEF Complete, CrcFits
  <2>3. files' = Append(files, q.of) /\ files \in Seq(AirFiles)
    BY <1>6, <2>2 DEF ReceiverInv, ReceivedTypes
  <2>4. Len(files') = Len(files) + 1 /\ files'[Len(files) + 1] = f /\ Len(files) \in Nat
    BY <1>5, <2>3
  <2>5. Len(files) + 1 \in 1 .. Len(files')
    BY <2>4
  <2> QED
    BY <1>1, <2>4, <2>5 DEF Handed
<1>8. CASE s # n
  <2>1. ~Complete(q)
    BY <1>5, <1>8 DEF Complete
  <2>2. part' = q
    BY <1>6, <2>1
  <2>3. Over' > 0 /\ Frames(air'.of)[Over'] = s /\ s < n
    BY <1>1, <1>2, <1>8
  <2> QED
    BY <1>1, <1>5, <1>8, <2>2, <2>3 DEF Collected
<1> QED
  BY <1>7, <1>8

OtherTypes ==
    /\ part.last \in Seqs \cup {Unknown}
    /\ clean \in BOOLEAN /\ fresh \in BOOLEAN /\ sends \in 0 .. MaxSends

LEMMA OtherTypesKept ==
    ASSUME ReceiverInv, LeftOfFrames, OtherTypes, [ReceiverNext]_receiverVars
    PROVE  OtherTypes'
<1>n. NoPart.last \in Seqs \cup {Unknown}
  BY DEF NoPart
<1>1. ASSUME NEW f \in AirFiles, SendFile(f) PROVE OtherTypes'
  BY <1>1, ReceiverAssumption DEF SendFile, OtherTypes
<1>2. CASE LoseFrame
  BY <1>2 DEF LoseFrame, OtherTypes
<1>3. CASE Renew
  BY <1>3, <1>n DEF Renew, OtherTypes
<1>4. CASE Push
  <2> DEFINE f == air.of
             s == Head(air.left)
             p == Begun(f, s)
             q == Kept(p, f, s)
  <2>1. f \in AirFiles /\ s \in 0 .. LastSeq(f) /\ s \in Seqs
    <3>1. /\ f \in AirFiles /\ s = Frames(f)[Over + 1] /\ Over < Len(Frames(f)) /\ f # Nothing
      BY <1>4, LeftShrinks, ReceiverAssumption DEF Push, Nothing
    <3>2. Over + 1 \in 1 .. Len(Frames(f))
      BY <3>1, FramesInOrder DEF LeftOfFrames
    <3> QED
      BY <3>1, <3>2, FramesInOrder, MaxSeqIs
  <2>2. p \in PartTypes /\ p.last \in Seqs \cup {Unknown}
    <3>1. CASE p = part
      BY <3>1 DEF OtherTypes, ReceiverInv, ReceivedTypes
    <3>2. CASE p = [NoPart EXCEPT !.of = f]
      BY <2>1, <3>2, <1>n, NoPartType DEF PartTypes
    <3> QED
      BY <3>1, <3>2 DEF Begun
  <2>3. q.last \in Seqs \cup {Unknown}
    <3> HIDE DEF p
    <3>1. q.last = IF s = LastSeq(f) THEN s ELSE p.last
      BY <2>2 DEF Kept, PartTypes
    <3> QED
      BY <2>1, <2>2, <3>1
  <2>4. part' \in {part, p, q, NoPart} /\ UNCHANGED <<clean, fresh, sends>>
    BY <1>4 DEF Push
  <2> HIDE DEF p, q
  <2> QED
    BY <2>2, <2>3, <2>4, <1>n DEF OtherTypes
<1>5. CASE UNCHANGED receiverVars
  BY <1>5 DEF receiverVars, OtherTypes
<1> QED
  BY <1>1, <1>2, <1>3, <1>4, <1>5 DEF ReceiverNext

LEMMA CollectsKept ==
    ASSUME ReceiverInv, LeftOfFrames, OtherTypes, Collects, [ReceiverNext]_receiverVars
    PROVE  Collects'
<1>1. ASSUME NEW f \in AirFiles, SendFile(f) PROVE Collects'
  <2>1. /\ air'.of = f /\ air'.left = Frames(f) /\ UNCHANGED <<part, files>>
        /\ fresh' = (part.of # f)
    BY <1>1 DEF SendFile
  <2>2. Len(Frames(f)) \in Nat
    BY FramesInOrder
  <2>3. Over' = 0
    BY <2>1, <2>2 DEF Over
  <2> QED
    BY <2>1, <2>3 DEF Collects, NotBegun
<1>2. CASE LoseFrame
  BY <1>2 DEF LoseFrame, Collects
<1>3. CASE Renew
  BY <1>3 DEF Renew, Collects
<1>4. CASE Push
  <2>1. /\ air'.of = air.of /\ clean' = clean /\ fresh' = fresh /\ air.of \in AirFiles
        /\ air.of # Nothing
    BY <1>4, LeftShrinks, ReceiverAssumption DEF Push, Nothing
  <2>2. CASE Handed
    <3>1. PICK i \in 1 .. Len(files) : files[i] = air.of
      BY <2>2 DEF Handed
    <3>2. files \in Seq(AirFiles) /\ Len(files) \in Nat
      BY DEF ReceiverInv, ReceivedTypes
    <3>3. files' = files \/ \E x : files' = Append(files, x)
      BY <1>4 DEF Push
    <3>4. i \in 1 .. Len(files') /\ files'[i] = files[i]
      BY <3>2, <3>3
    <3> QED
      BY <2>1, <3>1, <3>4 DEF Handed, Collects
  <2>3. CASE clean /\ fresh /\ ~Handed
    BY <1>4, <2>1, <2>3, PushCollects DEF Collects
  <2> QED
    BY <2>1, <2>2, <2>3 DEF Collects
<1>5. CASE UNCHANGED receiverVars
  BY <1>5 DEF receiverVars, Collects, Handed, NotBegun, Collected, Over
<1> QED
  BY <1>1, <1>2, <1>3, <1>4, <1>5 DEF ReceiverNext

LEMMA CollectsAlways == ReceiverSpec => [](ReceiverInv /\ LeftOfFrames /\ OtherTypes /\ Collects)
<1>1. ReceiverInit => LeftOfFrames /\ OtherTypes /\ Collects
  <2> SUFFICES ASSUME ReceiverInit PROVE LeftOfFrames /\ OtherTypes /\ Collects
    OBVIOUS
  <2>1. air = Silence /\ air.of = Nothing /\ air.left = <<>> /\ air.left \in Seq(Seqs)
    BY DEF ReceiverInit, Silence
  <2>2. LeftOfFrames
    BY <2>1 DEF LeftOfFrames, Silence
  <2>3. OtherTypes
    BY ReceiverAssumption DEF ReceiverInit, OtherTypes, NoPart
  <2> QED
    BY <2>1, <2>2, <2>3 DEF Collects
<1>2. /\ ReceiverInv /\ LeftOfFrames /\ OtherTypes /\ Collects
      /\ [ReceiverNext]_receiverVars
      => (LeftOfFrames /\ OtherTypes /\ Collects)'
  BY LeftKept, OtherTypesKept, CollectsKept
<1> QED
  BY <1>1, <1>2, ReceiverAlways, PTL DEF ReceiverSpec

THEOREM ReceiverTypeCorrect == ReceiverSpec => []ReceiverTypeOK
<1>1. ReceiverInv /\ LeftOfFrames /\ OtherTypes => ReceiverTypeOK
  <2> SUFFICES ASSUME ReceiverInv, LeftOfFrames, OtherTypes PROVE ReceiverTypeOK
    OBVIOUS
  <2>1. part \in [of : AirFiles \cup {Nothing}, chunks : [Seqs -> AirFiles \cup {Nothing}],
                  last : Seqs \cup {Unknown}]
    BY DEF ReceiverInv, ReceivedTypes, PartTypes, OtherTypes
  <2> QED
    BY <2>1 DEF ReceiverInv, ReceivedTypes, RemembersLast, LeftOfFrames, OtherTypes,
                ReceiverTypeOK
<1> QED
  BY <1>1, CollectsAlways, PTL

\* A transmission of which no frame is lost leaves the receiver with its file,
\* whatever was left of others, for any files and any repetition of their first
\* and last frames.
THEOREM CleanFilesArrive == ReceiverSpec => []CleanFileArrives
<1>1. ReceiverInv /\ LeftOfFrames /\ Collects => CleanFileArrives
  <2> SUFFICES ASSUME LeftOfFrames, Collects, air.of # Nothing, air.left = <<>>, clean, fresh
               PROVE  Handed
    BY DEF CleanFileArrives, Handed
  <2>1. air.of \in AirFiles /\ Len(air.left) = 0
    BY DEF LeftOfFrames
  <2>2. Over = Len(Frames(air.of)) /\ Over \in Nat \ {0}
    BY <2>1, FramesInOrder DEF Over
  <2>3. Frames(air.of)[Over] = LastSeq(air.of) /\ LastSeq(air.of) \in Nat
    BY <2>1, <2>2, FramesInOrder, MaxSeqIs
  <2> QED
    BY <2>2, <2>3 DEF Collects, NotBegun, Collected
<1> QED
  BY <1>1, CollectsAlways, PTL
-----------------------------------------------------------------------------
(* The recorder. *)

Threads == [pc : {"off", "read", "convert", "write", "over"}, running : BOOLEAN,
            open : BOOLEAN, tuning : Tunings \cup {Untuned}, held : Tunings \cup {Untuned},
            total : Nat, of : Takes \cup {NoTake}]
CaptureTypes == Seq([from : Nat, freq : Frequencies])
Rates == {Rate(f) : f \in Tunings} \cup {Untuned}
MetaTypes == [state : {"none", "progress", "broken", "final"}, captures : CaptureTypes,
              rate : Rates]
RecorderTypes ==
    /\ wanted \in Tunings /\ tuned \in Tunings /\ stream \in Seq(Tunings)
    /\ subscribed \in Takes \cup {NoTake} /\ recording \in Takes \cup {NoTake}
    /\ queue \in [Takes -> Seq(Tunings)]
    /\ take \in [Takes -> Threads]
    /\ file \in [Takes -> Seq(Tunings \cup {Torn})] /\ captures \in [Takes -> CaptureTypes]
    /\ meta \in [Takes -> MetaTypes]
    /\ \A t \in Takes : take[t].pc \in {"read", "convert", "write"} => take[t].of \in Takes

\* A thread that was told to stop and deals with its last chunk, if with any.
Halted(t) == ~take[t].running /\ take[t].pc \in {"convert", "write", "over"}

\* No chunk of the file is torn.
Intact(t) == \A i \in 1 .. Len(file[t]) : file[t][i] # Torn

\* What is counted is what is in the file, and what was written whole at least.
Counts(t) ==
    /\ \A j \in 1 .. Len(captures[t]) : captures[t][j].from <= take[t].total
    /\ take[t].pc # "over" => /\ Intact(t) => take[t].total = Len(file[t])
                              /\ \A i \in Whole(t) : i <= take[t].total

LastCapture(t) ==
    /\ IF captures[t] = <<>> THEN take[t].tuning = Untuned
       ELSE /\ take[t].tuning \in Tunings
            /\ captures[t][Len(captures[t])].freq = Frequency(take[t].tuning)
    /\ take[t].pc \in {"convert", "write"} =>
          take[t].held = take[t].tuning /\ captures[t] # <<>>

AllLabelled(t) ==
    \A i \in Whole(t) : /\ Labelled(captures[t], i - 1, Frequency(file[t][i]))
                        /\ Len(captures[t]) = 1 => file[t][i] = take[t].tuning

ClosedIsHalted(t) ==
    /\ ~take[t].open => take[t].pc = "off" \/ Halted(t)
    /\ meta[t].state = "final" => /\ Halted(t) /\ meta[t].captures = captures[t]
                                  /\ meta[t].rate = RateAtStop(take[t])

TakeInv(t) == Counts(t) /\ LastCapture(t) /\ AllLabelled(t) /\ ClosedIsHalted(t)

StopperInv ==
    /\ recording \in Takes => take[recording].pc # "off"
    /\ stopper \in {"join", "closed"} => recording \in Takes /\ ~take[recording].running
    /\ stopper = "closed" => Halted(recording)
    /\ stopper \in {"idle", "join", "closed"}

RecorderInv == RecorderTypes /\ StopperInv /\ \A t \in Takes : TakeInv(t)
-----------------------------------------------------------------------------
LEMMA RecorderInitInv == RecorderInit => RecorderInv
<1> SUFFICES ASSUME RecorderInit PROVE RecorderInv
  OBVIOUS
<1>1. RecorderTypes
  BY RecorderAssumption
     DEF RecorderInit, RecorderTypes, Unmade, Threads, CaptureTypes, MetaTypes, Rates
<1>2. \A t \in Takes : TakeInv(t)
  BY RecorderAssumption
     DEF RecorderInit, Unmade, TakeInv, Counts, Intact, Whole, LastCapture, AllLabelled,
         ClosedIsHalted
<1> QED
  BY <1>1, <1>2 DEF RecorderInv, RecorderInit, StopperInv, NoTake, Takes

\* A recording of which nothing changes but whose queue it reads.
LEMMA Untouched ==
    ASSUME NEW t \in Takes, TakeInv(t), take'[t] = take[t], file'[t] = file[t],
           captures'[t] = captures[t], meta'[t] = meta[t]
    PROVE  TakeInv(t)'
BY DEF TakeInv, Counts, Intact, Whole, LastCapture, AllLabelled, ClosedIsHalted, Halted, RateAtStop

\* The stream runs and stops without the recordings.
LEMMA StreamKeeps ==
    ASSUME RecorderInv,
           \/ \E f \in Tunings : Reconfigure(f)
           \/ ApplyTuning \/ Sample \/ Broadcast \/ UNCHANGED recorderVars
    PROVE  RecorderInv'
<1>1. UNCHANGED <<take, file, captures, meta, recording, stopper, subscribed>>
  BY DEF Reconfigure, ApplyTuning, Sample, Broadcast, recorderVars, diskVars
<1>2. \A q \in Seq(Tunings) : \A c \in Tunings : PutOrDrop(q, c) \in Seq(Tunings)
  BY DEF PutOrDrop
<1>3. /\ wanted' \in Tunings /\ tuned' \in Tunings /\ stream' \in Seq(Tunings)
      /\ queue' \in [Takes -> Seq(Tunings)]
  <2>1. CASE \E f \in Tunings : Reconfigure(f)
    BY <2>1 DEF Reconfigure, RecorderInv, RecorderTypes
  <2>2. CASE ApplyTuning \/ UNCHANGED recorderVars
    BY <2>2 DEF ApplyTuning, recorderVars, RecorderInv, RecorderTypes
  <2>3. CASE Sample
    BY <1>2, <2>3 DEF Sample, RecorderInv, RecorderTypes
  <2>4. CASE Broadcast
    <3>1. Head(stream) \in Tunings /\ Tail(stream) \in Seq(Tunings)
      BY <2>4 DEF Broadcast, RecorderInv, RecorderTypes
    <3>2. queue' \in [Takes -> Seq(Tunings)]
      BY <1>2, <2>4, <3>1 DEF Broadcast, RecorderInv, RecorderTypes
    <3> QED
      BY <2>4, <3>1, <3>2 DEF Broadcast, RecorderInv, RecorderTypes
  <2> QED
    BY <2>1, <2>2, <2>3, <2>4
<1>4. RecorderTypes'
  BY <1>1, <1>3 DEF RecorderInv, RecorderTypes
<1>5. \A t \in Takes : TakeInv(t)'
  BY <1>1, Untouched DEF RecorderInv
<1> QED
  BY <1>1, <1>4, <1>5 DEF RecorderInv, StopperInv, Halted

LEMMA StartKeeps ==
    ASSUME RecorderInv, NEW t \in Takes, Record(t) \/ RecordFails(t)
    PROVE  RecorderInv'
<1> DEFINE r == take'[t]
<1>1. take[t] = Unmade /\ stopper = "idle" /\ stopper' = "idle"
  BY DEF Record, RecordFails, MayRecord
<1>2. /\ UNCHANGED <<streamVars, queue, file, captures>>
      /\ subscribed' \in Takes /\ recording' \in Takes \cup {NoTake}
  BY DEF Record, RecordFails, diskVars, Subscription, RecorderInv, RecorderTypes
<1>3. /\ r \in Threads /\ r.total = take[t].total /\ r.tuning = take[t].tuning
      /\ \/ r.pc = "read" /\ r.open /\ r.of \in Takes
         \/ r.pc = "over" /\ ~r.running
      /\ take' \in [Takes -> Threads] /\ \A s \in Takes \ {t} : take'[s] = take[s]
  <2>1. take \in [Takes -> Threads]
    BY DEF RecorderInv, RecorderTypes
  <2>2. Unmade \in Threads
    BY DEF Unmade, Threads
  <2>3. CASE Record(t)
    <3> DEFINE new == [Unmade EXCEPT !.pc = "read", !.running = TRUE, !.open = TRUE,
                                     !.of = Subscription(t)]
    <3>1. Subscription(t) \in Takes
      BY <1>2, <2>3 DEF Record
    <3>2. /\ new \in Threads /\ new.total = Unmade.total /\ new.tuning = Unmade.tuning
          /\ new.pc = "read" /\ new.open /\ new.of \in Takes
      BY <2>2, <3>1 DEF Threads
    <3>3. take' = [take EXCEPT ![t] = new]
      BY <1>1, <2>3 DEF Record
    <3> HIDE DEF new
    <3>4. r = new /\ take' \in [Takes -> Threads] /\ \A s \in Takes \ {t} : take'[s] = take[s]
      BY <2>1, <3>2, <3>3
    <3> QED
      BY <1>1, <3>2, <3>4
  <2>4. CASE RecordFails(t)
    <3> DEFINE new == [Unmade EXCEPT !.pc = "over"]
    <3>1. ~Unmade.running
      BY DEF Unmade
    <3>2. /\ new \in Threads /\ new.total = Unmade.total /\ new.tuning = Unmade.tuning
          /\ new.pc = "over" /\ ~new.running
      BY <2>2, <3>1 DEF Threads
    <3>3. take' = [take EXCEPT ![t] = new]
      <4>1. take' = [take EXCEPT ![t] = [take[t] EXCEPT !.pc = "over"]]
        BY <2>4 DEF RecordFails
      <4> QED
        BY <1>1, <4>1
    <3> HIDE DEF new
    <3>4. r = new /\ take' \in [Takes -> Threads] /\ \A s \in Takes \ {t} : take'[s] = take[s]
      BY <2>1, <3>2, <3>3
    <3> QED
      BY <1>1, <3>2, <3>4
  <2> QED
    BY <2>3, <2>4
<1>4. /\ meta' \in [Takes -> MetaTypes]
      /\ \A s \in Takes \ {t} : meta'[s] = meta[s]
      /\ meta'[t].state # "final"
  <2>1. meta[t].state # "final"
    BY <1>1 DEF RecorderInv, TakeInv, ClosedIsHalted, Halted, RateAtStop, Unmade
  <2>2. meta \in [Takes -> MetaTypes]
    BY DEF RecorderInv, RecorderTypes
  <2>3. CASE Record(t)
    <3> DEFINE new == [meta[t] EXCEPT !.state = "progress"]
    <3>1. new \in MetaTypes /\ new.state = "progress"
      BY <2>2 DEF MetaTypes
    <3>2. meta' = [meta EXCEPT ![t] = new]
      BY <2>3 DEF Record
    <3> QED
      BY <2>2, <3>1, <3>2
  <2>4. CASE RecordFails(t)
    BY <2>1, <2>2, <2>4 DEF RecordFails, diskVars
  <2> QED
    BY <2>3, <2>4
<1> HIDE DEF r
<1>5. RecorderTypes'
  <2>1. \A s \in Takes : take'[s].pc \in {"read", "convert", "write"} => take'[s].of \in Takes
    BY <1>3 DEF RecorderInv, RecorderTypes, r
  <2> QED
    BY <1>2, <1>3, <1>4, <2>1 DEF RecorderInv, RecorderTypes, streamVars
<1>6. TakeInv(t)'
  <2>1. Counts(t) /\ LastCapture(t) /\ AllLabelled(t) /\ take[t].pc = "off"
    BY <1>1 DEF RecorderInv, TakeInv, Unmade
  <2>2. take'[t] = r /\ file'[t] = file[t] /\ captures'[t] = captures[t]
    BY <1>2 DEF r
  <2>3. Counts(t)' /\ LastCapture(t)' /\ AllLabelled(t)'
    BY <1>3, <2>1, <2>2 DEF Counts, Intact, Whole, LastCapture, AllLabelled
  <2>4. ClosedIsHalted(t)'
    BY <1>3, <1>4, <2>2 DEF ClosedIsHalted, Halted, RateAtStop
  <2> QED
    BY <2>3, <2>4 DEF TakeInv
<1>7. \A s \in Takes \ {t} : TakeInv(s)'
  BY <1>2, <1>3, <1>4, Untouched DEF RecorderInv, RecorderTypes
<1>8. recording' \in Takes => take'[recording'].pc # "off"
  <2>1. recording = NoTake /\ NoTake \notin Takes
    BY DEF Record, RecordFails, MayRecord, NoTake, Takes
  <2>2. recording' \in {t, NoTake}
    BY <2>1 DEF Record, RecordFails, diskVars
  <2> QED
    BY <1>3, <2>1, <2>2 DEF r
<1> QED
  BY <1>1, <1>5, <1>6, <1>7, <1>8 DEF RecorderInv, StopperInv

\* A step of one thread.
LEMMA ThreadStep ==
    ASSUME RecorderInv, NEW t \in Takes, NEW r \in Threads,
           take' = [take EXCEPT ![t] = r],
           r.pc \in {"read", "convert", "write"} => r.of \in Takes,
           r.running = take[t].running, r.pc # "off",
           take[t].pc \in {"convert", "write", "over"} /\ ~r.running =>
              r.pc \in {"convert", "write", "over"},
           queue' \in [Takes -> Seq(Tunings)],
           NEW F \in Seq(Tunings \cup {Torn}), file' = [file EXCEPT ![t] = F],
           NEW C \in CaptureTypes, captures' = [captures EXCEPT ![t] = C],
           UNCHANGED <<streamVars, subscribed, meta, recording, stopper>>,
           TakeInv(t)'
    PROVE  RecorderInv'
<1>1. /\ take'[t] = r /\ \A s \in Takes \ {t} : take'[s] = take[s]
      /\ \A s \in Takes \ {t} : file'[s] = file[s] /\ captures'[s] = captures[s]
  BY DEF RecorderInv, RecorderTypes
<1>2. RecorderTypes'
  <2>1. /\ take' \in [Takes -> Threads] /\ file' \in [Takes -> Seq(Tunings \cup {Torn})]
        /\ captures' \in [Takes -> CaptureTypes]
    BY DEF RecorderInv, RecorderTypes
  <2>2. \A s \in Takes : take'[s].pc \in {"read", "convert", "write"} => take'[s].of \in Takes
    BY <1>1 DEF RecorderInv, RecorderTypes
  <2> QED
    BY <2>1, <2>2 DEF RecorderInv, RecorderTypes, streamVars
<1>3. \A s \in Takes : TakeInv(s)'
  BY <1>1, Untouched DEF RecorderInv
<1>4. StopperInv'
  BY <1>1 DEF RecorderInv, RecorderTypes, StopperInv, Halted
<1> QED
  BY <1>2, <1>3, <1>4 DEF RecorderInv

LEMMA CaptureElement ==
    ASSUME NEW c \in CaptureTypes, NEW j \in 1 .. Len(c)
    PROVE  c[j] \in [from : Nat, freq : Frequencies] /\ c[j].from \in Nat
<1>1. ASSUME NEW S, NEW s \in Seq(S), NEW k \in 1 .. Len(s) PROVE s[k] \in S
  BY <1>1
<1>2. c[j] \in [from : Nat, freq : Frequencies]
  BY <1>1 DEF CaptureTypes
<1> QED
  BY <1>2

\* The tuning of a chunk is that of the last capture, an old or a new one.
LEMMA GetChunkKeeps ==
    ASSUME RecorderInv, NEW t \in Takes, GetChunk(t)
    PROVE  RecorderInv'
<1> DEFINE q == take[t].of
           chunk == Head(queue[q])
           r == [take[t] EXCEPT !.pc = "convert", !.tuning = chunk, !.held = chunk]
           c == captures[t]
           C == IF chunk = take[t].tuning THEN c
                ELSE Append(c, [from |-> take[t].total, freq |-> Frequency(chunk)])
<1>1. /\ take[t] \in Threads /\ take[t].pc = "read" /\ q \in Takes
      /\ c \in CaptureTypes /\ file[t] \in Seq(Tunings \cup {Torn})
  BY DEF GetChunk, RecorderInv, RecorderTypes
<1>2. chunk \in Tunings /\ queue' \in [Takes -> Seq(Tunings)]
  <2>1. queue[q] \in Seq(Tunings) /\ queue[q] # <<>>
    BY <1>1 DEF GetChunk, RecorderInv, RecorderTypes
  <2>2. Head(queue[q]) \in Tunings /\ Tail(queue[q]) \in Seq(Tunings)
    BY <2>1
  <2> QED
    BY <1>1, <2>2 DEF GetChunk, RecorderInv, RecorderTypes
<1>3. /\ r \in Threads /\ r.pc = "convert" /\ r.tuning = chunk /\ r.held = chunk
      /\ r.total = take[t].total /\ r.running = take[t].running /\ r.open = take[t].open
      /\ r.of = q
  BY <1>1, <1>2 DEF Threads
<1>4. take' = [take EXCEPT ![t] = r]
  BY DEF GetChunk
<1>5. /\ C \in CaptureTypes /\ Len(C) > 0 /\ C[Len(C)].freq = Frequency(chunk)
      /\ \A j \in 1 .. Len(c) : C[j] = c[j]
      /\ \/ Len(C) = Len(c) /\ chunk = take[t].tuning
         \/ Len(C) = Len(c) + 1 /\ C[Len(C)].from = take[t].total
  <2>1. CASE chunk = take[t].tuning
    <3>1. c # <<>> /\ c[Len(c)].freq = Frequency(chunk)
      BY <1>2, <2>1, RecorderAssumption DEF RecorderInv, TakeInv, LastCapture, Untuned
    <3> QED
      BY <1>1, <2>1, <3>1 DEF CaptureTypes
  <2>2. CASE chunk # take[t].tuning
    <3>1. [from |-> take[t].total, freq |-> Frequency(chunk)] \in [from : Nat, freq : Frequencies]
      BY <1>1, <1>2 DEF Threads, Frequencies
    <3> QED
      BY <1>1, <2>2, <3>1 DEF CaptureTypes
  <2> QED
    BY <2>1, <2>2
<1>6. captures' = [captures EXCEPT ![t] = C] /\ file' = [file EXCEPT ![t] = file[t]]
  BY DEF GetChunk, RecorderInv, RecorderTypes
<1>7. UNCHANGED <<streamVars, subscribed, meta, recording, stopper>>
  BY DEF GetChunk
<1>8. take'[t] = r /\ captures'[t] = C /\ file'[t] = file[t] /\ meta'[t] = meta[t]
  BY <1>4, <1>6, <1>7 DEF RecorderInv, RecorderTypes
<1> HIDE DEF r, C, c, chunk, q
<1>9. TakeInv(t)'
  <2>1. /\ take[t].total \in Nat
        /\ Intact(t) => take[t].total = Len(file[t])
        /\ \A i \in Whole(t) : i <= take[t].total
    BY <1>1 DEF RecorderInv, TakeInv, Counts, Threads
  <2>2. Counts(t)'
    <3>1. \A j \in 1 .. Len(c) : c[j].from <= take[t].total
      BY DEF RecorderInv, TakeInv, Counts, c
    <3>2. \A j \in 1 .. Len(C) : C[j].from <= take[t].total
      <4> SUFFICES ASSUME NEW j \in 1 .. Len(C) PROVE C[j].from <= take[t].total
        OBVIOUS
      <4>1. CASE j \in 1 .. Len(c)
        BY <1>5, <3>1, <4>1
      <4>2. CASE j = Len(C) /\ Len(C) = Len(c) + 1
        BY <1>5, <2>1, <4>2
      <4>3. Len(c) \in Nat
        BY <1>1 DEF CaptureTypes
      <4> QED
        BY <1>5, <4>1, <4>2, <4>3
    <3> QED
      BY <1>3, <1>8, <2>1, <3>2 DEF Counts, Intact, Whole
  <2>3. LastCapture(t)'
    BY <1>2, <1>3, <1>5, <1>8 DEF LastCapture, CaptureTypes
  <2>4. AllLabelled(t)'
    <3> SUFFICES ASSUME NEW i \in Whole(t)
                 PROVE  /\ Labelled(C, i - 1, Frequency(file[t][i]))
                        /\ Len(C) = 1 => file[t][i] = chunk
      BY <1>3, <1>8 DEF AllLabelled, Whole
    <3>1. /\ Labelled(c, i - 1, Frequency(file[t][i]))
          /\ Len(c) = 1 => file[t][i] = take[t].tuning
      BY DEF RecorderInv, TakeInv, AllLabelled, c
    <3>2. PICK j \in 1 .. Len(c) : /\ c[j].freq = Frequency(file[t][i]) /\ c[j].from <= i - 1
                                  /\ \A k \in j + 1 .. Len(c) : c[k].from > i - 1
      BY <3>1 DEF Labelled
    <3>3. Len(c) \in Nat /\ Len(file[t]) \in Nat /\ i \in 1 .. Len(file[t]) /\ i <= take[t].total
      BY <1>1, <2>1 DEF CaptureTypes, Whole
    <3>4. j \in 1 .. Len(C) /\ \A k \in j + 1 .. Len(C) : C[k].from > i - 1
      BY <1>5, <2>1, <3>2, <3>3
    <3>5. Len(C) = 1 => file[t][i] = chunk
      BY <1>5, <3>1, <3>2, <3>3
    <3> QED
      BY <1>5, <3>2, <3>4, <3>5 DEF Labelled
  <2>5. ClosedIsHalted(t)'
    BY <1>1, <1>3, <1>8 DEF RecorderInv, TakeInv, ClosedIsHalted, Halted, RateAtStop
  <2> QED
    BY <2>2, <2>3, <2>4, <2>5 DEF TakeInv
<1> QED
  BY <1>1, <1>2, <1>3, <1>4, <1>5, <1>6, <1>7, <1>9, ThreadStep

\* The steps that leave file and captures alone.
LEMMA QuietStepKeeps ==
    ASSUME RecorderInv, NEW t \in Takes, Skip(t) \/ BeginWrite(t) \/ EndThread(t)
    PROVE  RecorderInv'
<1> DEFINE r == take'[t]
<1>1. take \in [Takes -> Threads] /\ take[t] \in Threads
  BY DEF RecorderInv, RecorderTypes
<1>2. /\ r \in Threads /\ take' = [take EXCEPT ![t] = r]
      /\ r.running = take[t].running /\ r.open = take[t].open /\ r.of = take[t].of
      /\ r.total = take[t].total /\ r.tuning = take[t].tuning
      /\ \/ take[t].pc = "convert" /\ r.pc = Again(take[t])
         \/ take[t].pc = "convert" /\ r.pc = "write" /\ r.held = take[t].held
         \/ take[t].pc = "read" /\ ~take[t].running /\ r.pc = "over"
  <2>1. CASE Skip(t)
    <3> DEFINE new == [take[t] EXCEPT !.pc = Again(take[t]), !.held = Untuned]
    <3>1. /\ new \in Threads /\ new.pc = Again(take[t]) /\ new.running = take[t].running
          /\ new.open = take[t].open /\ new.of = take[t].of /\ new.total = take[t].total
          /\ new.tuning = take[t].tuning
      BY <1>1 DEF Threads, Again
    <3>2. take' = [take EXCEPT ![t] = new] /\ take[t].pc = "convert"
      BY <2>1 DEF Skip
    <3> HIDE DEF new
    <3>3. r = new
      BY <1>1, <3>2
    <3> QED
      BY <1>1, <3>1, <3>2, <3>3
  <2>2. CASE BeginWrite(t)
    <3> DEFINE new == [take[t] EXCEPT !.pc = "write"]
    <3>1. /\ new \in Threads /\ new.pc = "write" /\ new.running = take[t].running
          /\ new.open = take[t].open /\ new.of = take[t].of /\ new.total = take[t].total
          /\ new.tuning = take[t].tuning /\ new.held = take[t].held
      BY <1>1 DEF Threads
    <3>2. take' = [take EXCEPT ![t] = new] /\ take[t].pc = "convert"
      BY <2>2 DEF BeginWrite
    <3> HIDE DEF new
    <3>3. r = new
      BY <1>1, <3>2
    <3> QED
      BY <1>1, <3>1, <3>2, <3>3
  <2>3. CASE EndThread(t)
    <3> DEFINE new == [take[t] EXCEPT !.pc = "over"]
    <3>1. /\ new \in Threads /\ new.pc = "over" /\ new.running = take[t].running
          /\ new.open = take[t].open /\ new.of = take[t].of /\ new.total = take[t].total
          /\ new.tuning = take[t].tuning
      BY <1>1 DEF Threads
    <3>2. take' = [take EXCEPT ![t] = new] /\ take[t].pc = "read" /\ ~take[t].running
      BY <2>3 DEF EndThread
    <3> HIDE DEF new
    <3>3. r = new
      BY <1>1, <3>2
    <3> QED
      BY <1>1, <3>1, <3>2, <3>3
  <2> QED
    BY <2>1, <2>2, <2>3
<1>3. /\ file' = [file EXCEPT ![t] = file[t]] /\ file[t] \in Seq(Tunings \cup {Torn})
      /\ captures' = [captures EXCEPT ![t] = captures[t]] /\ captures[t] \in CaptureTypes
      /\ queue' \in [Takes -> Seq(Tunings)]
      /\ UNCHANGED <<streamVars, subscribed, meta, recording, stopper>>
  BY DEF Skip, BeginWrite, EndThread, diskVars, RecorderInv, RecorderTypes
<1>4. take'[t] = r /\ file'[t] = file[t] /\ captures'[t] = captures[t] /\ meta'[t] = meta[t]
  BY <1>3 DEF RecorderInv, RecorderTypes
<1>5. take[t].of \in Takes
  BY <1>2 DEF RecorderInv, RecorderTypes
<1> HIDE DEF r
<1>6. TakeInv(t)'
  <2>1. Counts(t)'
    BY <1>2, <1>4 DEF RecorderInv, TakeInv, Counts, Intact, Whole
  <2>2. LastCapture(t)'
    BY <1>2, <1>4 DEF RecorderInv, TakeInv, LastCapture, Again
  <2>3. AllLabelled(t)'
    BY <1>2, <1>4 DEF RecorderInv, TakeInv, AllLabelled, Whole
  <2>4. ClosedIsHalted(t)'
    BY <1>2, <1>4 DEF RecorderInv, TakeInv, ClosedIsHalted, Halted, RateAtStop, Again
  <2> QED
    BY <2>1, <2>2, <2>3, <2>4 DEF TakeInv
<1>7. take[t].pc \in {"convert", "write", "over"} /\ ~r.running => r.pc \in {"convert", "write", "over"}
  BY <1>2 DEF Again
<1>8. r.pc # "off"
  BY <1>2 DEF Again
<1> QED
  BY <1>2, <1>3, <1>8, <1>5, <1>6, <1>7, ThreadStep

\* What is whole after a chunk, or part of one, was added.
LEMMA WholeGrows ==
    ASSUME NEW t \in Takes, file[t] \in Seq(Tunings \cup {Torn}), NEW x \in Tunings \cup {Torn},
           file'[t] = Append(file[t], x)
    PROVE  /\ Len(file'[t]) = Len(file[t]) + 1 /\ Len(file[t]) \in Nat
           /\ file'[t][Len(file[t]) + 1] = x
           /\ Intact(t)' => Intact(t) /\ x # Torn
           /\ \A i \in Whole(t)' : \/ i \in Whole(t) /\ file'[t][i] = file[t][i]
                                   \/ i = Len(file[t]) + 1 /\ Intact(t) /\ x # Torn
<1> DEFINE F == file'[t]
<1>1. /\ Len(F) = Len(file[t]) + 1 /\ Len(file[t]) \in Nat
      /\ \A i \in 1 .. Len(file[t]) : F[i] = file[t][i]
      /\ F[Len(file[t]) + 1] = x
  OBVIOUS
<1> HIDE DEF F
<1>2. Intact(t)' <=> \A i \in 1 .. Len(F) : F[i] # Torn
  BY DEF Intact, F
<1>3. Intact(t)' => Intact(t) /\ x # Torn
  BY <1>1, <1>2 DEF Intact
<1>4. ASSUME NEW i \in Whole(t)'
      PROVE  \/ i \in Whole(t) /\ F[i] = file[t][i]
             \/ i = Len(file[t]) + 1 /\ Intact(t) /\ x # Torn
  <2>1. i \in 1 .. Len(F) /\ \A k \in 1 .. i : F[k] # Torn
    BY <1>4 DEF Whole, F
  <2>2. CASE i \in 1 .. Len(file[t])
    BY <1>1, <2>1, <2>2 DEF Whole
  <2>3. CASE i = Len(file[t]) + 1
    BY <1>1, <2>1, <2>3 DEF Intact
  <2> QED
    BY <1>1, <2>1, <2>2, <2>3
<1> QED
  BY <1>1, <1>3, <1>4 DEF F

\* A chunk is written where the count says, and labelled by the last capture;
\* what comes after a part of one is not.
LEMMA WriteKeeps ==
    ASSUME RecorderInv, NEW t \in Takes, Write(t) \/ WriteFails(t)
    PROVE  RecorderInv'
<1> DEFINE x == IF Write(t) THEN take[t].held ELSE Torn
           n == IF Write(t) THEN Count(take[t]) ELSE take[t].total
           r == [take[t] EXCEPT !.pc = Again(take[t]), !.held = Untuned, !.total = n]
           c == captures[t]
           F == Append(file[t], x)
<1>0. take \in [Takes -> Threads] /\ take[t] \in Threads
  BY DEF RecorderInv, RecorderTypes
<1>1. /\ take[t].pc = "write" /\ take[t].of \in Takes
      /\ c \in CaptureTypes /\ file[t] \in Seq(Tunings \cup {Torn})
  BY DEF Write, WriteFails, RecorderInv, RecorderTypes
<1>2. /\ c # <<>> /\ take[t].held = take[t].tuning /\ take[t].tuning \in Tunings
      /\ c[Len(c)].freq = Frequency(take[t].tuning)
  BY <1>1 DEF RecorderInv, TakeInv, LastCapture
<1>3. /\ take[t].total \in Nat /\ n \in {take[t].total, take[t].total + 1}
      /\ \A j \in 1 .. Len(c) : c[j].from <= take[t].total
      /\ Intact(t) => take[t].total = Len(file[t])
      /\ \A i \in Whole(t) : i <= take[t].total
  BY <1>0, <1>1 DEF RecorderInv, TakeInv, Counts, Threads, Count
<1>4. take[t].running /\ x # Torn => n = take[t].total + 1
  <2>1. ~take[t].open => ~take[t].running
    BY <1>1 DEF RecorderInv, TakeInv, ClosedIsHalted, Halted
  <2> QED
    BY <2>1 DEF Count
<1>5. x \in Tunings \cup {Torn} /\ (x # Torn => x = take[t].tuning)
  BY <1>2
<1>6. take' = [take EXCEPT ![t] = r] /\ file' = [file EXCEPT ![t] = F]
  <2>1. CASE Write(t)
    BY <2>1 DEF Write
  <2>2. CASE ~Write(t)
    <3> DEFINE q == take[t]
    <3>1. take' = [take EXCEPT ![t] = [q EXCEPT !.pc = Again(q), !.held = Untuned]]
      BY <2>2 DEF WriteFails
    <3>2. [q EXCEPT !.pc = Again(q), !.held = Untuned]
            = [q EXCEPT !.pc = Again(q), !.held = Untuned, !.total = q.total]
      BY <1>0 DEF Threads
    <3> QED
      BY <2>2, <3>1, <3>2 DEF WriteFails
  <2> QED
    BY <2>1, <2>2
<1>7. /\ UNCHANGED <<streamVars, subscribed, meta, recording, stopper>>
      /\ queue' \in [Takes -> Seq(Tunings)]
      /\ captures' = [captures EXCEPT ![t] = c]
  BY DEF Write, WriteFails, RecorderInv, RecorderTypes
<1> HIDE DEF x, n
<1>8. /\ r \in Threads /\ r.pc = Again(take[t]) /\ r.running = take[t].running
      /\ r.open = take[t].open /\ r.of = take[t].of /\ r.total = n /\ r.tuning = take[t].tuning
  <2>1. n \in Nat /\ Again(take[t]) \in {"read", "over"}
    BY <1>3 DEF Again
  <2> QED
    BY <1>0, <2>1 DEF Threads
<1>9. F \in Seq(Tunings \cup {Torn})
  BY <1>1, <1>5
<1>10. take'[t] = r /\ captures'[t] = c /\ file'[t] = F /\ meta'[t] = meta[t]
  BY <1>6, <1>7, <1>9 DEF RecorderInv, RecorderTypes
<1>11. /\ Len(file[t]) \in Nat
       /\ Len(file'[t]) = Len(file[t]) + 1 /\ file'[t][Len(file[t]) + 1] = x
       /\ Intact(t)' => Intact(t) /\ x # Torn
       /\ \A i \in Whole(t)' : \/ i \in Whole(t) /\ file'[t][i] = file[t][i]
                               \/ i = Len(file[t]) + 1 /\ Intact(t) /\ x # Torn
  BY <1>1, <1>5, <1>10, WholeGrows
<1> HIDE DEF r, F, c
<1>12. Counts(t)'
  <2>1. \A j \in 1 .. Len(c) : c[j].from <= n
    <3> SUFFICES ASSUME NEW j \in 1 .. Len(c) PROVE c[j].from <= n
      OBVIOUS
    <3>1. c[j].from \in Nat /\ c[j].from <= take[t].total
      BY <1>1, <1>3, CaptureElement
    <3> QED
      BY <1>3, <3>1
  <2>2. ASSUME r.pc # "over"
        PROVE  /\ Intact(t)' => n = Len(file'[t])
               /\ \A i \in Whole(t)' : i <= n
    <3>1. take[t].running
      BY <1>8, <2>2 DEF Again
    <3>2. Intact(t)' => n = Len(file'[t])
      BY <1>3, <1>4, <1>11, <3>1
    <3>3. ASSUME NEW i \in Whole(t)' PROVE i <= n
      <4>1. CASE i \in Whole(t)
        <5>1. i \in Nat /\ i <= take[t].total
          BY <1>3, <4>1 DEF Whole
        <5> QED
          BY <1>3, <5>1
      <4>2. CASE i = Len(file[t]) + 1 /\ Intact(t) /\ x # Torn
        BY <1>3, <1>4, <3>1, <4>2
      <4> QED
        BY <1>11, <4>1, <4>2
    <3> QED
      BY <3>2, <3>3
  <2> QED
    BY <1>8, <1>10, <2>1, <2>2 DEF Counts
<1>13. LastCapture(t)'
  BY <1>2, <1>8, <1>10 DEF LastCapture, Again
<1>14. AllLabelled(t)'
  <2> SUFFICES ASSUME NEW i \in Whole(t)'
               PROVE  /\ Labelled(c, i - 1, Frequency(file'[t][i]))
                      /\ Len(c) = 1 => file'[t][i] = take[t].tuning
    BY <1>8, <1>10 DEF AllLabelled
  <2>1. CASE i \in Whole(t) /\ file'[t][i] = file[t][i]
    BY <2>1 DEF RecorderInv, TakeInv, AllLabelled, c
  <2>2. CASE i = Len(file[t]) + 1 /\ Intact(t) /\ x # Torn
    <3>1. Len(c) \in 1 .. Len(c) /\ \A k \in Len(c) + 1 .. Len(c) : c[k].from > i - 1
      BY <1>1, <1>2 DEF CaptureTypes
    <3>2. i - 1 = Len(file[t]) /\ file'[t][i] = take[t].tuning
      BY <1>5, <1>11, <2>2
    <3>3. c[Len(c)].freq = Frequency(file'[t][i]) /\ c[Len(c)].from <= i - 1
      BY <1>2, <1>3, <2>2, <3>1, <3>2
    <3> QED
      BY <3>1, <3>2, <3>3 DEF Labelled
  <2> QED
    BY <1>11, <2>1, <2>2
<1>15. ClosedIsHalted(t)'
  BY <1>1, <1>8, <1>10 DEF RecorderInv, TakeInv, ClosedIsHalted, Halted, RateAtStop, Again, c
<1>16. (r.running = FALSE => r.pc \in {"convert", "write", "over"}) /\ r.pc # "off"
  BY <1>8 DEF Again
<1>17. r.running \in BOOLEAN
  BY <1>8 DEF Threads
<1> QED
  BY <1>1, <1>6, <1>7, <1>8, <1>9, <1>12, <1>13, <1>14, <1>15, <1>16, <1>17, ThreadStep DEF TakeInv

\* stop_recorder touches no file and no capture: it only stops the thread, and
\* a thread that is not waiting for a chunk then cannot begin a capture.
LEMMA StopKeeps ==
    ASSUME RecorderInv, StopRecording \/ Close \/ Finalise \/ FinaliseFails
    PROVE  RecorderInv'
<1>0. PICK t \in Takes : t = recording
  BY DEF StopRecording, Close, Finalise, FinaliseFails, RecorderInv, RecorderTypes, StopperInv,
         NoTake
<1>1. /\ take \in [Takes -> Threads] /\ take[t] \in Threads
      /\ meta \in [Takes -> MetaTypes] /\ captures[t] \in CaptureTypes
  BY DEF RecorderInv, RecorderTypes
<1>2. /\ UNCHANGED <<streamVars, queue, file, captures>>
      /\ take[t].pc \in {"off", "read", "convert", "write", "over"}
  BY <1>1 DEF StopRecording, Close, Finalise, FinaliseFails, diskVars, Threads
<1>3. CASE StopRecording
  <2> DEFINE r == [take[t] EXCEPT !.running = FALSE]
  <2>1. /\ r \in Threads /\ ~r.running /\ r.pc = take[t].pc /\ r.open = take[t].open
        /\ r.of = take[t].of /\ r.total = take[t].total /\ r.tuning = take[t].tuning
        /\ r.held = take[t].held
    BY <1>1 DEF Threads
  <2>2. take' = [take EXCEPT ![t] = r] /\ UNCHANGED <<subscribed, meta, recording>>
    BY <1>0, <1>3 DEF StopRecording, diskVars
  <2> HIDE DEF r
  <2>3. /\ take' \in [Takes -> Threads] /\ take'[t] = r
        /\ \A s \in Takes \ {t} : take'[s] = take[s]
    BY <1>1, <2>1, <2>2
  <2>4. TakeInv(t)'
    <3>1. TakeInv(t)
      BY <1>1 DEF RecorderInv
    <3>2. Counts(t)' /\ LastCapture(t)' /\ AllLabelled(t)'
      BY <1>2, <2>1, <2>3, <3>1 DEF TakeInv, Counts, Intact, Whole, LastCapture, AllLabelled
    <3>3. ClosedIsHalted(t)'
      BY <1>2, <2>1, <2>2, <2>3, <3>1 DEF TakeInv, ClosedIsHalted, Halted, RateAtStop
    <3> QED
      BY <3>2, <3>3 DEF TakeInv
  <2>5. \A s \in Takes : TakeInv(s)'
    BY <1>2, <2>2, <2>3, <2>4, Untouched DEF RecorderInv
  <2>6. RecorderTypes'
    BY <1>1, <1>2, <2>1, <2>2, <2>3 DEF RecorderInv, RecorderTypes, streamVars
  <2>7. StopperInv'
    BY <1>0, <1>1, <1>3, <2>1, <2>2, <2>3 DEF StopRecording, RecorderInv, StopperInv
  <2> QED
    BY <2>5, <2>6, <2>7 DEF RecorderInv
<1>4. CASE Close
  <2> DEFINE r == [take[t] EXCEPT !.open = FALSE]
  <2>1. /\ r \in Threads /\ ~r.open /\ r.pc = take[t].pc /\ r.running = take[t].running
        /\ r.of = take[t].of /\ r.total = take[t].total /\ r.tuning = take[t].tuning
        /\ r.held = take[t].held
    BY <1>1 DEF Threads
  <2>2. take' = [take EXCEPT ![t] = r] /\ UNCHANGED <<subscribed, meta, recording>>
    BY <1>0, <1>4 DEF Close, diskVars
  <2> HIDE DEF r
  <2>3. /\ take' \in [Takes -> Threads] /\ take'[t] = r
        /\ \A s \in Takes \ {t} : take'[s] = take[s]
    BY <1>1, <2>1, <2>2
  <2>4. ~take[t].running /\ take[t].pc \notin {"read", "off"}
    BY <1>0, <1>4 DEF Close, RecorderInv, StopperInv
  <2>5. TakeInv(t)'
    <3>1. TakeInv(t)
      BY <1>1 DEF RecorderInv
    <3>2. Counts(t)' /\ LastCapture(t)' /\ AllLabelled(t)'
      BY <1>2, <2>1, <2>3, <3>1 DEF TakeInv, Counts, Intact, Whole, LastCapture, AllLabelled
    <3>3. ClosedIsHalted(t)'
      BY <1>2, <2>1, <2>2, <2>3, <2>4, <3>1 DEF TakeInv, ClosedIsHalted, Halted, RateAtStop
    <3> QED
      BY <3>2, <3>3 DEF TakeInv
  <2>6. \A s \in Takes : TakeInv(s)'
    BY <1>2, <2>2, <2>3, <2>5, Untouched DEF RecorderInv
  <2>7. RecorderTypes'
    BY <1>1, <1>2, <2>1, <2>2, <2>3 DEF RecorderInv, RecorderTypes, streamVars
  <2>8. StopperInv'
    BY <1>0, <1>1, <1>2, <1>4, <2>1, <2>2, <2>3, <2>4 DEF Close, StopperInv, Halted
  <2> QED
    BY <2>6, <2>7, <2>8 DEF RecorderInv
<1>5. CASE Finalise
  <2> DEFINE m == [state |-> "final", captures |-> captures[t], rate |-> RateAtStop(take[t])]
  <2>0. RateAtStop(take[t]) \in Rates
    BY <1>1 DEF RateAtStop, Rates, Threads
  <2>1. m \in MetaTypes /\ m.captures = captures[t] /\ m.rate = RateAtStop(take[t])
    BY <1>1, <2>0 DEF MetaTypes
  <2>2. meta' = [meta EXCEPT ![t] = m] /\ UNCHANGED take
    BY <1>0, <1>5 DEF Finalise
  <2> HIDE DEF m
  <2>3. /\ meta' \in [Takes -> MetaTypes] /\ meta'[t] = m
        /\ \A s \in Takes \ {t} : meta'[s] = meta[s]
    BY <1>1, <2>1, <2>2
  <2>4. Halted(t)
    BY <1>0, <1>5 DEF Finalise, RecorderInv, StopperInv
  <2>5. TakeInv(t)'
    <3>1. TakeInv(t)
      BY <1>1 DEF RecorderInv
    <3>2. Counts(t)' /\ LastCapture(t)' /\ AllLabelled(t)'
      BY <1>2, <2>2, <3>1 DEF TakeInv, Counts, Intact, Whole, LastCapture, AllLabelled
    <3>3. ClosedIsHalted(t)'
      BY <1>2, <2>1, <2>2, <2>3, <2>4, <3>1 DEF TakeInv, ClosedIsHalted, Halted, RateAtStop
    <3> QED
      BY <3>2, <3>3 DEF TakeInv
  <2>6. \A s \in Takes : TakeInv(s)'
    BY <1>2, <2>2, <2>3, <2>5, Untouched DEF RecorderInv
  <2>7. RecorderTypes'
    BY <1>2, <1>5, <2>2, <2>3 DEF Finalise, RecorderInv, RecorderTypes, streamVars
  <2>8. StopperInv'
    BY <1>0, <1>5 DEF Finalise, StopperInv, NoTake, Takes
  <2> QED
    BY <2>6, <2>7, <2>8 DEF RecorderInv
<1>6. CASE FinaliseFails
  <2> DEFINE m == [state |-> "broken", captures |-> <<>>, rate |-> Untuned]
  <2>1. m \in MetaTypes /\ m.state # "final"
    BY DEF MetaTypes, CaptureTypes, Rates
  <2>2. /\ meta' = [meta EXCEPT ![t] = m] /\ UNCHANGED <<take, subscribed, recording>>
        /\ stopper' = "idle"
    BY <1>0, <1>6 DEF FinaliseFails
  <2> HIDE DEF m
  <2>3. /\ meta' \in [Takes -> MetaTypes] /\ meta'[t] = m
        /\ \A s \in Takes \ {t} : meta'[s] = meta[s]
    BY <1>1, <2>1, <2>2
  <2>4. TakeInv(t)'
    <3>1. TakeInv(t)
      BY <1>1 DEF RecorderInv
    <3>2. Counts(t)' /\ LastCapture(t)' /\ AllLabelled(t)'
      BY <1>2, <2>2, <3>1 DEF TakeInv, Counts, Intact, Whole, LastCapture, AllLabelled
    <3>3. ClosedIsHalted(t)'
      BY <1>2, <2>1, <2>2, <2>3, <3>1 DEF TakeInv, ClosedIsHalted, Halted, RateAtStop
    <3> QED
      BY <3>2, <3>3 DEF TakeInv
  <2>5. \A s \in Takes : TakeInv(s)'
    BY <1>2, <2>2, <2>3, <2>4, Untouched DEF RecorderInv
  <2>6. RecorderTypes'
    BY <1>2, <2>2, <2>3 DEF RecorderInv, RecorderTypes, streamVars
  <2>7. StopperInv'
    BY <2>2 DEF RecorderInv, StopperInv
  <2> QED
    BY <2>5, <2>6, <2>7 DEF RecorderInv
<1> QED
  BY <1>3, <1>4, <1>5, <1>6

LEMMA RecorderStep ==
    ASSUME RecorderInv, [RecorderNext]_recorderVars
    PROVE  RecorderInv'
<1>1. ASSUME NEW t \in Takes, Record(t) \/ RecordFails(t) PROVE RecorderInv'
  BY <1>1, StartKeeps
<1>2. ASSUME NEW t \in Takes, GetChunk(t) PROVE RecorderInv'
  BY <1>2, GetChunkKeeps
<1>3. ASSUME NEW t \in Takes, Skip(t) \/ BeginWrite(t) \/ EndThread(t) PROVE RecorderInv'
  BY <1>3, QuietStepKeeps
<1>4. ASSUME NEW t \in Takes, Write(t) \/ WriteFails(t) PROVE RecorderInv'
  BY <1>4, WriteKeeps
<1> QED
  BY <1>1, <1>2, <1>3, <1>4, StreamKeeps, StopKeeps DEF RecorderNext

LEMMA RecorderAlways == RecorderSpec => []RecorderInv
<1>1. RecorderInv /\ [RecorderNext]_recorderVars => RecorderInv'
  BY RecorderStep
<1> QED
  BY <1>1, RecorderInitInv, PTL DEF RecorderSpec

\* Up to the first write that the disk cuts short, each sample in the file of each
\* recording is shown at the frequency it was made at, in the captures of the thread
\* and in those that stop() wrote, also when the thread goes on after stop(); and at
\* its rate, if one capture is all there is.
THEOREM SamplesKeepTheirTuning == RecorderSpec => []SamplesAreLabelled
<1>1. RecorderInv => SamplesAreLabelled
  <2> SUFFICES ASSUME RecorderInv, NEW t \in Takes, NEW i \in Whole(t)
               PROVE  /\ Labelled(ShownCaptures(t), i - 1, Frequency(file[t][i]))
                      /\ meta[t].state = "final" /\ Len(meta[t].captures) = 1
                           => meta[t].rate = Rate(file[t][i])
    BY DEF SamplesAreLabelled
  <2>1. ShownCaptures(t) = captures[t]
    BY DEF RecorderInv, TakeInv, ClosedIsHalted, ShownCaptures
  <2>2. Labelled(captures[t], i - 1, Frequency(file[t][i]))
    BY DEF RecorderInv, TakeInv, AllLabelled
  <2>3. ASSUME meta[t].state = "final", Len(meta[t].captures) = 1
        PROVE  meta[t].rate = Rate(file[t][i])
    <3>1. meta[t].captures = captures[t] /\ meta[t].rate = RateAtStop(take[t])
      BY <2>3 DEF RecorderInv, TakeInv, ClosedIsHalted
    <3>2. Len(captures[t]) = 1 /\ captures[t] # <<>>
      BY <2>3, <3>1
    <3>5. file[t][i] = take[t].tuning
      BY <3>2 DEF RecorderInv, TakeInv, AllLabelled
    <3>3. take[t].tuning \in Tunings
      BY <3>2 DEF RecorderInv, TakeInv, LastCapture
    <3>4. take[t].tuning # Untuned
      BY <3>3, RecorderAssumption DEF Untuned
    <3> QED
      BY <3>1, <3>5, <3>4 DEF RateAtStop
  <2> QED
    BY <2>1, <2>2, <2>3
<1> QED
  BY <1>1, RecorderAlways, PTL
-----------------------------------------------------------------------------
(* The bounds of a recording, whatever the disk does: a chunk is counted by *)
(* a thread once, after it left the stream and the queue the thread reads.  *)

BoundedThreads == [pc : {"off", "read", "convert", "write", "over"}, running : BOOLEAN,
                   open : BOOLEAN, tuning : Tunings \cup {Untuned}, held : Tunings \cup {Untuned},
                   total : 0 .. MaxChunks, of : Takes \cup {NoTake}]
BoundedMeta == [state : {"none", "progress", "broken", "final"}, captures : Captures,
                rate : Rates]

AtWork == {"read", "convert", "write"}
Holds(r) == IF r.pc \in {"convert", "write"} THEN 1 ELSE 0

\* What r has counted and holds, and what is still to come to it, is no more
\* than what was made.
Fits(r, q) ==
    r.pc \in AtWork =>
       r.of \in Takes /\ (r.total + Holds(r)) + (Len(q[r.of]) + Len(stream)) <= chunks
Room ==
    /\ \A u \in Takes : Len(queue[u]) + Len(stream) <= chunks
    /\ \A t \in Takes : Fits(take[t], queue)

\* A chunk that is held has a tuning.
Holding(r) == r.pc \in {"convert", "write"} => r.held \in Tunings
Bounded ==
    /\ RecorderTypeOK /\ Room
    /\ \A t \in Takes : Holding(take[t])
    /\ stopper # "idle" => recording \in Takes

LEMMA LenIsNat == ASSUME NEW S, NEW s \in Seq(S) PROVE Len(s) \in Nat
  OBVIOUS

LEMMA SumIsNat == \A i, j \in Nat : i + j \in Nat
  OBVIOUS

\* k fits beside c, which has grown by no more than what was made.
LEMMA LessFits ==
    \A k, b, c, n, o \in Nat : k + b <= n /\ c + n <= b + o => k + c <= o
  OBVIOUS

\* Nothing is made, and no thread works.
LEMMA BoundedInit == RecorderInit => Bounded
<1> SUFFICES ASSUME RecorderInit PROVE Bounded
  OBVIOUS
<1>1. \A t \in Takes : queue[t] = <<>> /\ take[t] = Unmade /\ stream = <<>>
  BY DEF RecorderInit
<1>2. Room
  BY <1>1, RecorderAssumption DEF RecorderInit, Room, Fits, AtWork, Unmade
<1>3. /\ Unmade \in BoundedThreads /\ <<>> \in Seq(Tunings) /\ <<>> \in Captures
      /\ [state |-> "none", captures |-> <<>>, rate |-> Untuned] \in BoundedMeta
  BY RecorderAssumption DEF Unmade, BoundedThreads, BoundedMeta, Captures, Rates
<1>4. wanted \in Tunings /\ stopper = "idle"
  BY RecorderAssumption DEF RecorderInit
<1>5. RecorderTypeOK
  <2>1. /\ wanted \in Tunings /\ tuned \in Tunings /\ stream = <<>> /\ chunks = 0
        /\ subscribed = NoTake /\ recording = NoTake /\ stopper = "idle"
        /\ queue = [t \in Takes |-> <<>>] /\ take = [t \in Takes |-> Unmade]
        /\ file = [t \in Takes |-> <<>>] /\ captures = [t \in Takes |-> <<>>]
        /\ meta = [t \in Takes |-> [state |-> "none", captures |-> <<>>, rate |-> Untuned]]
    BY <1>4 DEF RecorderInit
  <2>2. /\ Len(<<>>) = 0 /\ 0 <= ChunkRoom /\ 0 \in 0 .. MaxChunks
    BY RecorderAssumption
  <2> QED
    BY <1>3, <2>1, <2>2 DEF RecorderTypeOK, BoundedThreads, BoundedMeta, Rates
<1>6. \A t \in Takes : Holding(take[t])
  BY <1>1 DEF Holding, Unmade
<1> QED
  BY <1>2, <1>4, <1>5, <1>6 DEF Bounded

LEMMA StatesAre ==
    ASSUME Bounded
    PROVE  /\ queue \in [Takes -> Seq(Tunings)] /\ take \in [Takes -> BoundedThreads]
           /\ stream \in Seq(Tunings) /\ chunks \in Nat /\ ChunkRoom \in Nat
<1>1. /\ queue \in [Takes -> Seq(Tunings)] /\ take \in [Takes -> BoundedThreads]
      /\ stream \in Seq(Tunings) /\ chunks \in 0 .. MaxChunks
  BY DEF Bounded, RecorderTypeOK, BoundedThreads
<1> QED
  BY <1>1, RecorderAssumption

\* A step in which only recording t's thread moves, and no queue grows.
LEMMA ThreadMoves ==
    ASSUME Bounded, NEW t \in Takes, NEW r \in BoundedThreads,
           take' = [take EXCEPT ![t] = r],
           queue' \in [Takes -> Seq(Tunings)],
           \A u \in Takes : Len(queue'[u]) <= Len(queue[u]),
           Fits(r, queue'), Holding(r),
           UNCHANGED streamVars,
           subscribed' \in Takes \cup {NoTake}, recording' \in Takes \cup {NoTake},
           file' \in [Takes -> Seq(Tunings \cup {Torn})], captures' \in [Takes -> Captures],
           meta' \in [Takes -> BoundedMeta], stopper' \in {"idle", "join", "closed"},
           stopper' # "idle" => recording' \in Takes
    PROVE  Bounded'
<1>1. /\ queue \in [Takes -> Seq(Tunings)] /\ take \in [Takes -> BoundedThreads]
      /\ stream \in Seq(Tunings) /\ chunks \in Nat /\ stream' = stream /\ chunks' = chunks
      /\ ChunkRoom \in Nat
  <2>1. stream' = stream /\ chunks' = chunks
    BY DEF streamVars
  <2> QED
    BY <2>1, StatesAre, Zenon
<1>2. \A u \in Takes : Len(queue[u]) \in Nat /\ Len(queue'[u]) \in Nat
  BY <1>1, LenIsNat
<1>3. Len(stream) \in Nat
  BY <1>1, LenIsNat
<1>4. RecorderTypeOK'
  <2>1. take' \in [Takes -> BoundedThreads]
    BY <1>1
  <2>2. \A u \in Takes : Len(queue'[u]) <= ChunkRoom
    <3> SUFFICES ASSUME NEW u \in Takes PROVE Len(queue'[u]) <= ChunkRoom
      OBVIOUS
    <3>1. Len(queue[u]) <= ChunkRoom /\ Len(queue'[u]) <= Len(queue[u])
      BY DEF Bounded, RecorderTypeOK
    <3> QED
      BY <1>1, <1>2, <3>1
  <2> QED
    BY <2>1, <2>2 DEF Bounded, RecorderTypeOK, BoundedThreads, BoundedMeta, Rates, streamVars
<1>5. \A u \in Takes : Len(queue'[u]) + Len(stream) <= chunks
  <2> SUFFICES ASSUME NEW u \in Takes PROVE Len(queue'[u]) + Len(stream) <= chunks
    OBVIOUS
  <2>1. Len(queue[u]) + Len(stream) <= chunks
    BY DEF Bounded, Room
  <2> QED
    BY <1>1, <1>2, <1>3, <2>1
<1>6. ASSUME NEW s \in Takes, s # t PROVE Fits(take[s], queue')
  <2> SUFFICES ASSUME take[s].pc \in AtWork
               PROVE  /\ take[s].of \in Takes
                      /\ (take[s].total + Holds(take[s])) + (Len(queue'[take[s].of]) + Len(stream)) <= chunks
    BY DEF Fits
  <2>1. /\ take[s].of \in Takes
        /\ (take[s].total + Holds(take[s])) + (Len(queue[take[s].of]) + Len(stream)) <= chunks
    BY DEF Bounded, Room, Fits
  <2>2. take[s].total \in Nat /\ Holds(take[s]) \in Nat
    BY <1>1, RecorderAssumption DEF BoundedThreads, Holds
  <2>3. /\ Len(queue[take[s].of]) \in Nat /\ Len(queue'[take[s].of]) \in Nat
        /\ Len(queue'[take[s].of]) <= Len(queue[take[s].of])
    BY <1>2, <2>1
  <2>4. Len(stream) \in Nat /\ chunks \in Nat
    BY <1>1, <1>3
  <2> DEFINE k == take[s].total + Holds(take[s])
             b == Len(queue[take[s].of]) + Len(stream)
             c == Len(queue'[take[s].of]) + Len(stream)
  <2>6. /\ k \in Nat /\ b \in Nat /\ c \in Nat /\ chunks \in Nat /\ chunks \in Nat
        /\ k + b <= chunks /\ c + chunks <= b + chunks
    <3>1. k \in Nat /\ b \in Nat /\ c \in Nat
      BY <2>2, <2>3, <2>4, SumIsNat, Zenon
    <3>2. k + b <= chunks
      BY <2>1
    <3>3. c + chunks <= b + chunks
      BY <2>3, <2>4
    <3> QED
      BY <2>3, <2>4, <3>1, <3>2, <3>3, Zenon
  <2> HIDE DEF k, b, c
  <2>7. k + c <= chunks
    BY <2>6, LessFits, Zenon
  <2> QED
    BY <2>1, <2>7 DEF k, b, c
<1>7. \A s \in Takes : Fits(take'[s], queue')
  <2>1. take'[t] = r /\ \A s \in Takes \ {t} : take'[s] = take[s]
    BY <1>1
  <2> QED
    BY <1>6, <2>1
<1>8. Room'
  BY <1>1, <1>5, <1>7 DEF Room, Fits
<1>9. \A s \in Takes : Holding(take'[s])
  BY <1>1 DEF Bounded
<1> QED
  BY <1>4, <1>8, <1>9 DEF Bounded, Holding

\* The stream: a sample adds one to what was made, a broadcast moves one on.
LEMMA StreamBounded ==
    ASSUME Bounded,
           \/ \E f \in Tunings : Reconfigure(f)
           \/ ApplyTuning \/ Sample \/ Broadcast \/ UNCHANGED recorderVars
    PROVE  Bounded'
<1>1. UNCHANGED <<take, file, captures, meta, recording, stopper, subscribed>>
  BY DEF Reconfigure, ApplyTuning, Sample, Broadcast, recorderVars, diskVars
<1>2. /\ queue \in [Takes -> Seq(Tunings)] /\ take \in [Takes -> BoundedThreads]
      /\ stream \in Seq(Tunings) /\ chunks \in 0 .. MaxChunks /\ MaxChunks \in Nat
      /\ ChunkRoom \in Nat /\ Len(stream) <= ChunkRoom /\ wanted \in Tunings /\ tuned \in Tunings
      /\ \A u \in Takes : Len(queue[u]) \in Nat /\ Len(queue[u]) <= ChunkRoom
      /\ \A u \in Takes : Len(queue[u]) + Len(stream) <= chunks
  BY RecorderAssumption DEF Bounded, RecorderTypeOK, BoundedThreads, Room
<1>3. ASSUME NEW q \in Seq(Tunings), NEW c \in Tunings, Len(q) <= ChunkRoom
      PROVE  /\ PutOrDrop(q, c) \in Seq(Tunings) /\ Len(PutOrDrop(q, c)) <= ChunkRoom
             /\ Len(PutOrDrop(q, c)) \in Nat /\ Len(PutOrDrop(q, c)) <= Len(q) + 1
  <2>1. CASE Len(q) < ChunkRoom
    <3>1. PutOrDrop(q, c) = Append(q, c)
      BY <2>1 DEF PutOrDrop
    <3>2. Append(q, c) \in Seq(Tunings) /\ Len(Append(q, c)) = Len(q) + 1 /\ Len(q) \in Nat
      OBVIOUS
    <3> QED
      BY <1>2, <2>1, <3>1, <3>2
  <2>2. CASE ~(Len(q) < ChunkRoom)
    <3>1. PutOrDrop(q, c) = q /\ Len(q) \in Nat
      BY <2>2 DEF PutOrDrop
    <3> QED
      BY <1>3, <3>1
  <2> QED
    BY <2>1, <2>2
<1>4. /\ wanted' \in Tunings /\ tuned' \in Tunings /\ stream' \in Seq(Tunings)
      /\ Len(stream') <= ChunkRoom /\ chunks' \in 0 .. MaxChunks
      /\ queue' \in [Takes -> Seq(Tunings)]
      /\ \A u \in Takes : /\ Len(queue'[u]) <= ChunkRoom
                          /\ Len(queue'[u]) + Len(stream') + chunks
                                <= Len(queue[u]) + Len(stream) + chunks'
  <2>1. CASE \E f \in Tunings : Reconfigure(f)
    <3>1. /\ wanted' \in Tunings /\ UNCHANGED <<tuned, stream, chunks>>
          /\ queue' = queue \/ queue' = [queue EXCEPT ![subscribed] = <<>>]
      BY <2>1 DEF Reconfigure
    <3>3. <<>> \in Seq(Tunings)
      OBVIOUS
    <3>4. /\ queue' \in [Takes -> Seq(Tunings)]
          /\ \A u \in Takes : queue'[u] = queue[u] \/ queue'[u] = <<>>
      BY <1>2, <3>1, <3>3
    <3>2. Len(<<>>) = 0 /\ Len(stream) \in Nat
      BY <1>2
    <3> QED
      BY <1>2, <3>1, <3>2, <3>4
  <2>2. CASE ApplyTuning \/ UNCHANGED recorderVars
    <3>1. wanted' \in Tunings /\ tuned' \in Tunings /\ UNCHANGED <<stream, chunks, queue>>
      BY <1>2, <2>2 DEF ApplyTuning, recorderVars
    <3>2. Len(stream) \in Nat
      BY <1>2
    <3> QED
      BY <1>2, <3>1, <3>2
  <2>3. CASE Sample
    <3>1. /\ UNCHANGED <<wanted, tuned, queue>> /\ chunks' = chunks + 1 /\ chunks < MaxChunks
          /\ stream' = PutOrDrop(stream, tuned)
      BY <2>3 DEF Sample
    <3>2. /\ stream' \in Seq(Tunings) /\ Len(stream') <= ChunkRoom /\ Len(stream') \in Nat
          /\ Len(stream') <= Len(stream) + 1 /\ Len(stream) \in Nat
      BY <1>2, <1>3, <3>1
    <3> QED
      BY <1>2, <3>1, <3>2
  <2>4. CASE Broadcast
    <3>1. /\ UNCHANGED <<wanted, tuned, chunks>> /\ stream # <<>> /\ stream' = Tail(stream)
          /\ queue' = IF subscribed = NoTake THEN queue
                      ELSE [queue EXCEPT ![subscribed] = PutOrDrop(@, Head(stream))]
      BY <2>4 DEF Broadcast
    <3>2. /\ Head(stream) \in Tunings /\ stream' \in Seq(Tunings) /\ Len(stream) \in Nat
          /\ Len(stream') \in Nat /\ Len(stream') + 1 = Len(stream)
      BY <1>2, <3>1
    <3>3. /\ queue' \in [Takes -> Seq(Tunings)]
          /\ \A u \in Takes : queue'[u] = queue[u] \/ queue'[u] = PutOrDrop(queue[u], Head(stream))
      <4>1. \A u \in Takes : PutOrDrop(queue[u], Head(stream)) \in Seq(Tunings)
        BY <1>2, <1>3, <3>2
      <4> QED
        BY <1>2, <3>1, <4>1
    <3>4. ASSUME NEW u \in Takes
          PROVE  /\ Len(queue'[u]) \in Nat /\ Len(queue'[u]) <= ChunkRoom
                 /\ Len(queue'[u]) <= Len(queue[u]) + 1
      <4>1. queue[u] \in Seq(Tunings) /\ Len(queue[u]) <= ChunkRoom /\ Len(queue[u]) \in Nat
        BY <1>2
      <4>2. CASE queue'[u] = queue[u]
        BY <4>1, <4>2
      <4>3. CASE queue'[u] = PutOrDrop(queue[u], Head(stream))
        BY <1>3, <3>2, <4>1, <4>3
      <4> QED
        BY <3>3, <4>2, <4>3
    <3>5. \A u \in Takes : Len(queue'[u]) + Len(stream') + chunks <= Len(queue[u]) + Len(stream) + chunks'
      <4> SUFFICES ASSUME NEW u \in Takes
                   PROVE  Len(queue'[u]) + Len(stream') + chunks <= Len(queue[u]) + Len(stream) + chunks'
        OBVIOUS
      <4>1. Len(queue[u]) \in Nat /\ Len(queue'[u]) \in Nat /\ Len(queue'[u]) <= Len(queue[u]) + 1
        BY <1>2, <3>4
      <4> QED
        BY <1>2, <3>1, <3>2, <4>1
    <3>6. Len(stream') <= ChunkRoom
      BY <1>2, <3>2
    <3> QED
      BY <1>2, <3>1, <3>2, <3>3, <3>4, <3>5, <3>6
  <2> QED
    BY <2>1, <2>2, <2>3, <2>4
<1>5. RecorderTypeOK'
  BY <1>1, <1>4 DEF Bounded, RecorderTypeOK
<1>6. ASSUME NEW u \in Takes
      PROVE  /\ Len(queue[u]) \in Nat /\ Len(queue'[u]) \in Nat /\ Len(stream) \in Nat
             /\ Len(stream') \in Nat /\ chunks \in Nat /\ chunks' \in Nat
             /\ Len(queue'[u]) + Len(stream') + chunks <= Len(queue[u]) + Len(stream) + chunks'
  <2>1. Len(queue'[u]) \in Nat
    BY <1>4, LenIsNat
  <2>2. Len(stream) \in Nat /\ Len(stream') \in Nat
    BY <1>2, <1>4, LenIsNat
  <2>3. chunks \in Nat /\ chunks' \in Nat
    BY <1>2, <1>4
  <2> QED
    BY <1>2, <1>4, <2>1, <2>2, <2>3
<1>7. \A u \in Takes : Len(queue'[u]) + Len(stream') <= chunks'
  <2> SUFFICES ASSUME NEW u \in Takes PROVE Len(queue'[u]) + Len(stream') <= chunks'
    OBVIOUS
  <2>1. Len(queue[u]) + Len(stream) <= chunks
    BY <1>2
  <2> QED
    BY <1>6, <2>1
<1>8. ASSUME NEW t \in Takes PROVE Fits(take[t], queue)'
  <2> SUFFICES ASSUME take[t].pc \in AtWork
               PROVE  /\ take[t].of \in Takes
                      /\ (take[t].total + Holds(take[t])) + (Len(queue'[take[t].of]) + Len(stream')) <= chunks'
    BY <1>1 DEF Fits, Holds
  <2>1. /\ take[t].of \in Takes
        /\ (take[t].total + Holds(take[t])) + (Len(queue[take[t].of]) + Len(stream)) <= chunks
    BY DEF Bounded, Room, Fits
  <2>2. take[t].total \in Nat /\ Holds(take[t]) \in Nat
    BY <1>2 DEF BoundedThreads, Holds
  <2>3. /\ Len(queue[take[t].of]) \in Nat /\ Len(queue'[take[t].of]) \in Nat
        /\ Len(stream) \in Nat /\ Len(stream') \in Nat /\ chunks \in Nat /\ chunks' \in Nat
        /\ Len(queue'[take[t].of]) + Len(stream') + chunks
             <= Len(queue[take[t].of]) + Len(stream) + chunks'
    BY <1>6, <2>1
  <2> DEFINE k == take[t].total + Holds(take[t])
             b == Len(queue[take[t].of]) + Len(stream)
             c == Len(queue'[take[t].of]) + Len(stream')
  <2>4. /\ k \in Nat /\ b \in Nat /\ c \in Nat /\ chunks \in Nat /\ chunks' \in Nat
        /\ k + b <= chunks /\ c + chunks <= b + chunks'
    <3>1. k \in Nat /\ b \in Nat /\ c \in Nat
      BY <2>2, <2>3, SumIsNat, Zenon
    <3>2. k + b <= chunks
      BY <2>1
    <3>3. c + chunks <= b + chunks'
      BY <2>3
    <3> QED
      BY <2>3, <3>1, <3>2, <3>3, Zenon
  <2> HIDE DEF k, b, c
  <2>5. k + c <= chunks'
    BY <2>4, LessFits, Zenon
  <2> QED
    BY <2>1, <2>5 DEF k, b, c
<1>9. Room'
  BY <1>7, <1>8 DEF Room
<1> QED
  BY <1>1, <1>5, <1>9 DEF Bounded, Holding

\* A thread moves, and nothing but its own file, captures and queue with it.
LEMMA OwnStep ==
    ASSUME Bounded, NEW t \in Takes, NEW r \in BoundedThreads,
           take' = [take EXCEPT ![t] = r],
           queue' \in [Takes -> Seq(Tunings)],
           \A u \in Takes : Len(queue'[u]) <= Len(queue[u]),
           Fits(r, queue'), Holding(r),
           UNCHANGED <<streamVars, subscribed, meta, recording, stopper>>,
           file' \in [Takes -> Seq(Tunings \cup {Torn})], captures' \in [Takes -> Captures]
    PROVE  Bounded'
<1>1. /\ subscribed' \in Takes \cup {NoTake} /\ recording' \in Takes \cup {NoTake}
      /\ meta' \in [Takes -> BoundedMeta] /\ stopper' \in {"idle", "join", "closed"}
      /\ stopper' # "idle" => recording' \in Takes
  BY DEF Bounded, RecorderTypeOK, BoundedMeta, Rates
<1>2. UNCHANGED streamVars
  OBVIOUS
<1> QED
  BY <1>1, <1>2, ThreadMoves

\* What a thread is known to be, while it works.
LEMMA ThreadIs ==
    ASSUME Bounded, NEW t \in Takes
    PROVE  /\ take \in [Takes -> BoundedThreads] /\ take[t] \in BoundedThreads
           /\ queue \in [Takes -> Seq(Tunings)] /\ file \in [Takes -> Seq(Tunings \cup {Torn})]
           /\ captures \in [Takes -> Captures] /\ meta \in [Takes -> BoundedMeta]
           /\ Len(stream) \in Nat /\ chunks \in 0 .. MaxChunks /\ MaxChunks \in Nat
           /\ \A u \in Takes : Len(queue[u]) \in Nat
           /\ take[t].total \in 0 .. MaxChunks
           /\ Fits(take[t], queue) /\ Holding(take[t])
<1>1. /\ take \in [Takes -> BoundedThreads] /\ queue \in [Takes -> Seq(Tunings)]
      /\ file \in [Takes -> Seq(Tunings \cup {Torn})] /\ captures \in [Takes -> Captures]
      /\ meta \in [Takes -> BoundedMeta] /\ chunks \in 0 .. MaxChunks /\ stream \in Seq(Tunings)
      /\ Fits(take[t], queue) /\ Holding(take[t])
  BY DEF Bounded, RecorderTypeOK, BoundedThreads, BoundedMeta, Rates, Room
<1>2. Len(stream) \in Nat /\ \A u \in Takes : Len(queue[u]) \in Nat
  BY <1>1, LenIsNat
<1>3. take[t] \in BoundedThreads /\ take[t].total \in 0 .. MaxChunks
  BY <1>1 DEF BoundedThreads
<1> QED
  BY <1>1, <1>2, <1>3, RecorderAssumption

\* A start, whose thread finds a queue of its own or the one a failed start left.
LEMMA StartBounded ==
    ASSUME Bounded, NEW t \in Takes, Record(t) \/ RecordFails(t)
    PROVE  Bounded'
<1>1. /\ take[t] = Unmade /\ stopper' = "idle" /\ Subscription(t) \in Takes
      /\ UNCHANGED <<streamVars, queue, file, captures>>
      /\ subscribed' = Subscription(t) /\ recording' \in Takes \cup {NoTake}
  BY DEF Record, RecordFails, MayRecord, diskVars, Subscription, Bounded, RecorderTypeOK
<1>2. Unmade \in BoundedThreads
  BY RecorderAssumption DEF Unmade, BoundedThreads
<1>3. PICK r \in BoundedThreads :
         take' = [take EXCEPT ![t] = r] /\ Fits(r, queue) /\ Holding(r)
  <2>1. CASE Record(t)
    <3> DEFINE new == [Unmade EXCEPT !.pc = "read", !.running = TRUE, !.open = TRUE,
                                     !.of = Subscription(t)]
    <3>1. /\ new \in BoundedThreads /\ new.pc = "read" /\ new.of = Subscription(t)
          /\ new.total = 0
      BY <1>1, <1>2 DEF BoundedThreads, Unmade
    <3>2. take' = [take EXCEPT ![t] = new]
      BY <1>1, <2>1 DEF Record
    <3> HIDE DEF new
    <3>3. Holds(new) = 0 /\ 0 + 0 = 0
      BY <3>1 DEF Holds
    <3>4. Len(queue[Subscription(t)]) + Len(stream) <= chunks
      BY <1>1 DEF Bounded, Room
    <3>5. 0 + (Len(queue[Subscription(t)]) + Len(stream)) <= chunks
      <4>1. Len(queue[Subscription(t)]) \in Nat /\ Len(stream) \in Nat
        BY <1>1, ThreadIs
      <4> QED
        BY <3>4, <4>1
    <3>6. Fits(new, queue)
      BY <1>1, <3>1, <3>3, <3>5, Zenon DEF Fits
    <3>7. Holding(new)
      BY <3>1 DEF Holding
    <3> QED
      BY <3>1, <3>2, <3>6, <3>7
  <2>2. CASE RecordFails(t)
    <3> DEFINE new == [Unmade EXCEPT !.pc = "over"]
    <3>1. new \in BoundedThreads /\ new.pc = "over"
      BY <1>2 DEF BoundedThreads
    <3>2. take' = [take EXCEPT ![t] = new]
      <4>1. take' = [take EXCEPT ![t] = [take[t] EXCEPT !.pc = "over"]]
        BY <2>2 DEF RecordFails
      <4> QED
        BY <1>1, <4>1
    <3> HIDE DEF new
    <3>3. Fits(new, queue) /\ Holding(new)
      BY <3>1 DEF Fits, AtWork, Holding
    <3> QED
      BY <3>1, <3>2, <3>3
  <2> QED
    BY <2>1, <2>2
<1>4. meta' \in [Takes -> BoundedMeta]
  <2>1. meta \in [Takes -> BoundedMeta]
    BY ThreadIs
  <2>2. CASE Record(t)
    <3> DEFINE new == [meta[t] EXCEPT !.state = "progress"]
    <3>1. new \in BoundedMeta
      BY <2>1 DEF BoundedMeta
    <3>2. meta' = [meta EXCEPT ![t] = new]
      BY <2>2 DEF Record
    <3> QED
      BY <2>1, <3>1, <3>2
  <2>3. CASE RecordFails(t)
    BY <2>1, <2>3 DEF RecordFails, diskVars
  <2> QED
    BY <2>2, <2>3
<1>5. /\ queue' = queue /\ file' \in [Takes -> Seq(Tunings \cup {Torn})] /\ captures' \in [Takes -> Captures]
      /\ queue' \in [Takes -> Seq(Tunings)] /\ UNCHANGED streamVars
      /\ \A u \in Takes : Len(queue'[u]) <= Len(queue[u])
  <2>1. UNCHANGED <<queue, file, captures>> /\ UNCHANGED streamVars
    BY <1>1
  <2>2. /\ queue \in [Takes -> Seq(Tunings)] /\ file \in [Takes -> Seq(Tunings \cup {Torn})]
        /\ captures \in [Takes -> Captures]
    BY ThreadIs
  <2>3. \A u \in Takes : Len(queue[u]) \in Nat
    BY ThreadIs
  <2> QED
    BY <2>1, <2>2, <2>3
<1>6. Fits(r, queue')
  BY <1>3, <1>5
<1> QED
  BY <1>1, <1>3, <1>4, <1>5, <1>6, ThreadMoves

\* The chunk taken is held instead of queued.
LEMMA GetChunkBounded ==
    ASSUME Bounded, NEW t \in Takes, GetChunk(t)
    PROVE  Bounded'
<1> DEFINE q == take[t].of
           chunk == Head(queue[q])
           new == [take[t] EXCEPT !.pc = "convert", !.tuning = chunk, !.held = chunk]
           capture == [from |-> take[t].total, freq |-> Frequency(chunk)]
<1>1. /\ take[t].pc = "read" /\ queue[q] # <<>> /\ queue' = [queue EXCEPT ![q] = Tail(queue[q])]
      /\ take' = [take EXCEPT ![t] = new] /\ file' = file
      /\ captures' = IF chunk = take[t].tuning THEN captures
                     ELSE [captures EXCEPT ![t] = Append(captures[t], capture)]
      /\ UNCHANGED <<streamVars, subscribed, meta, recording, stopper>>
  BY DEF GetChunk
<1>2. /\ q \in Takes
      /\ (take[t].total + Holds(take[t])) + (Len(queue[q]) + Len(stream)) <= chunks
  BY <1>1, ThreadIs DEF Fits, AtWork
<1>3. /\ queue[q] \in Seq(Tunings) /\ queue \in [Takes -> Seq(Tunings)]
      /\ chunk \in Tunings /\ Tail(queue[q]) \in Seq(Tunings)
      /\ Len(Tail(queue[q])) = Len(queue[q]) - 1 /\ Len(queue[q]) \in Nat
  BY <1>1, <1>2, ThreadIs
<1>4. /\ new \in BoundedThreads /\ new.pc = "convert" /\ new.total = take[t].total /\ new.of = q
      /\ Holding(new)
  BY <1>3, ThreadIs DEF BoundedThreads, Holding
<1>5. captures' \in [Takes -> Captures]
  <2>1. captures \in [Takes -> Captures] /\ captures[t] \in Captures
    BY ThreadIs
  <2>2. capture \in [from : 0 .. MaxChunks, freq : Frequencies]
    BY <1>3, ThreadIs DEF Frequencies
  <2> HIDE DEF capture
  <2>3. Append(captures[t], capture) \in Captures
    BY <2>1, <2>2 DEF Captures
  <2> QED
    BY <1>1, <2>1, <2>3
<1> HIDE DEF chunk, new, capture
<1>6. /\ queue' \in [Takes -> Seq(Tunings)] /\ queue'[q] = Tail(queue[q])
      /\ \A u \in Takes : Len(queue'[u]) <= Len(queue[u])
  <2>1. /\ queue' \in [Takes -> Seq(Tunings)]
        /\ \A u \in Takes : queue'[u] = IF u = q THEN Tail(queue[q]) ELSE queue[u]
    BY <1>1, <1>3
  <2>2. ASSUME NEW u \in Takes PROVE Len(queue'[u]) <= Len(queue[u])
    <3>1. CASE u = q
      BY <1>3, <2>1, <3>1
    <3>2. CASE u # q
      <4>1. queue'[u] = queue[u] /\ Len(queue[u]) \in Nat
        BY <2>1, <3>2, ThreadIs
      <4> QED
        BY <4>1
    <3> QED
      BY <3>1, <3>2
  <2> QED
    BY <1>2, <2>1, <2>2
<1>7. Fits(new, queue')
  <2>1. Holds(take[t]) = 0 /\ Holds(new) = 1
    BY <1>1, <1>4 DEF Holds
  <2>2. /\ Len(stream) \in Nat /\ chunks \in Nat /\ take[t].total \in Nat
        /\ Len(queue'[q]) = Len(queue[q]) - 1
    BY <1>3, <1>6, ThreadIs
  <2>3. (take[t].total + 1) + (Len(queue'[q]) + Len(stream)) <= chunks
    BY <1>2, <1>3, <2>1, <2>2
  <2> QED
    BY <1>2, <1>4, <2>1, <2>3 DEF Fits
<1>8. file' \in [Takes -> Seq(Tunings \cup {Torn})]
  BY <1>1, ThreadIs
<1> QED
  BY <1>1, <1>4, <1>5, <1>6, <1>7, <1>8, OwnStep

\* A step of a thread whose queue stays as it is, and which counts at most the
\* chunk it held.
LEMMA WorkBounded ==
    ASSUME Bounded, NEW t \in Takes, NEW r, take' = [take EXCEPT ![t] = r], queue' = queue,
           r.pc \in AtWork => take[t].pc \in AtWork,
           r.of = take[t].of, r.total \in 0 .. MaxChunks => r \in BoundedThreads,
           r.total \in Nat, Holding(r),
           take[t].pc \in AtWork => r.total + Holds(r) <= take[t].total + Holds(take[t]),
           take[t].pc \notin AtWork => r.total = take[t].total,
           UNCHANGED <<streamVars, subscribed, meta, recording, stopper>>,
           file' \in [Takes -> Seq(Tunings \cup {Torn})], captures' = captures
    PROVE  Bounded'
<1>1. Holds(r) \in {0, 1} /\ Holds(take[t]) \in {0, 1}
  BY DEF Holds
<1>2. /\ take[t].total \in 0 .. MaxChunks /\ MaxChunks \in Nat /\ chunks \in 0 .. MaxChunks
      /\ Len(stream) \in Nat
  BY ThreadIs
<1>3. ASSUME take[t].pc \in AtWork
      PROVE  /\ take[t].of \in Takes
             /\ (r.total + Holds(r)) + (Len(queue[r.of]) + Len(stream)) <= chunks
             /\ r.total <= chunks
  <2>1. /\ take[t].of \in Takes /\ Len(queue[take[t].of]) \in Nat
        /\ (take[t].total + Holds(take[t])) + (Len(queue[take[t].of]) + Len(stream)) <= chunks
    BY <1>3, ThreadIs DEF Fits
  <2> DEFINE l == Len(queue[take[t].of])
  <2>2. l \in Nat /\ (take[t].total + Holds(take[t])) + (l + Len(stream)) <= chunks
    BY <2>1
  <2>3. r.total + Holds(r) <= take[t].total + Holds(take[t])
    BY <1>3
  <2> HIDE DEF l
  <2>4. (r.total + Holds(r)) + (l + Len(stream)) <= chunks /\ r.total <= chunks
    BY <1>1, <1>2, <2>2, <2>3
  <2> QED
    BY <2>1, <2>4 DEF l
<1>4. r.total \in 0 .. MaxChunks
  <2>1. CASE take[t].pc \in AtWork
    BY <1>2, <1>3, <2>1
  <2>2. CASE take[t].pc \notin AtWork
    BY <1>2, <2>2
  <2> QED
    BY <2>1, <2>2
<1>5. Fits(r, queue')
  BY <1>3 DEF Fits
<1>6. /\ queue' \in [Takes -> Seq(Tunings)] /\ captures' \in [Takes -> Captures]
      /\ \A u \in Takes : Len(queue'[u]) <= Len(queue[u])
  <2>1. /\ queue \in [Takes -> Seq(Tunings)] /\ captures \in [Takes -> Captures]
        /\ \A u \in Takes : Len(queue[u]) \in Nat
    BY ThreadIs
  <2> QED
    BY <2>1
<1>7. r \in BoundedThreads
  BY <1>4
<1> QED
  BY <1>5, <1>6, <1>7, OwnStep

\* The steps of a thread that has a chunk, or that ends for want of one.
LEMMA WorkKeeps ==
    ASSUME Bounded, NEW t \in Takes,
           \/ Skip(t) \/ BeginWrite(t) \/ Write(t) \/ WriteFails(t) \/ EndThread(t)
    PROVE  Bounded'
<1> DEFINE r == take'[t]
<1>1. /\ take \in [Takes -> BoundedThreads] /\ take[t] \in BoundedThreads
      /\ take[t].total \in Nat /\ take[t].pc \in AtWork
      /\ UNCHANGED <<streamVars, subscribed, meta, recording, stopper>>
      /\ queue' = queue /\ captures' = captures
  <2>1. take[t].total \in 0 .. MaxChunks /\ MaxChunks \in Nat
    BY ThreadIs
  <2>2. take \in [Takes -> BoundedThreads] /\ take[t] \in BoundedThreads
    BY ThreadIs
  <2> QED
    BY <2>1, <2>2 DEF Skip, BeginWrite, Write, WriteFails, EndThread, diskVars, AtWork
<1>2. /\ take' = [take EXCEPT ![t] = r] /\ r.of = take[t].of /\ r.total \in Nat
      /\ r.total \in 0 .. MaxChunks => r \in BoundedThreads
      /\ r.total + Holds(r) <= take[t].total + Holds(take[t]) /\ Holding(r)
  <2>1. CASE Skip(t) \/ WriteFails(t)
    <3> DEFINE new == [take[t] EXCEPT !.pc = Again(take[t]), !.held = Untuned]
    <3>1. /\ new \in BoundedThreads /\ new.pc = Again(take[t]) /\ new.of = take[t].of
          /\ new.total = take[t].total
      BY <1>1 DEF BoundedThreads, Again
    <3>2. take' = [take EXCEPT ![t] = new] /\ take[t].pc \in {"convert", "write"}
      BY <2>1 DEF Skip, WriteFails
    <3> HIDE DEF new
    <3>3. r = new
      BY <1>1, <3>2
    <3>4. Holds(new) = 0 /\ Holds(take[t]) = 1
      BY <3>1, <3>2 DEF Holds, Again
    <3>5. Holding(new)
      BY <3>1, <3>2, ThreadIs DEF Holding, Again
    <3> QED
      BY <1>1, <3>1, <3>2, <3>3, <3>4, <3>5
  <2>2. CASE BeginWrite(t)
    <3> DEFINE new == [take[t] EXCEPT !.pc = "write"]
    <3>1. /\ new \in BoundedThreads /\ new.pc = "write" /\ new.of = take[t].of
          /\ new.total = take[t].total /\ new.held = take[t].held
      BY <1>1 DEF BoundedThreads
    <3>2. take' = [take EXCEPT ![t] = new] /\ take[t].pc = "convert"
      BY <2>2 DEF BeginWrite
    <3> HIDE DEF new
    <3>3. r = new
      BY <1>1, <3>2
    <3>4. Holds(new) = 1 /\ Holds(take[t]) = 1
      BY <3>1, <3>2 DEF Holds
    <3>5. Holding(new)
      BY <3>1, <3>2, ThreadIs DEF Holding, Again
    <3> QED
      BY <1>1, <3>1, <3>2, <3>3, <3>4, <3>5
  <2>3. CASE EndThread(t)
    <3> DEFINE new == [take[t] EXCEPT !.pc = "over"]
    <3>1. /\ new \in BoundedThreads /\ new.pc = "over" /\ new.of = take[t].of
          /\ new.total = take[t].total
      BY <1>1 DEF BoundedThreads
    <3>2. take' = [take EXCEPT ![t] = new] /\ take[t].pc = "read"
      BY <2>3 DEF EndThread
    <3> HIDE DEF new
    <3>3. r = new
      BY <1>1, <3>2
    <3>4. Holds(new) = 0 /\ Holds(take[t]) = 0
      BY <3>1, <3>2 DEF Holds
    <3>5. Holding(new)
      BY <3>1, <3>2, ThreadIs DEF Holding, Again
    <3> QED
      BY <1>1, <3>1, <3>2, <3>3, <3>4, <3>5
  <2>4. CASE Write(t)
    <3> DEFINE n == Count(take[t])
               new == [take[t] EXCEPT !.pc = Again(take[t]), !.held = Untuned, !.total = n]
    <3>1. n \in {take[t].total, take[t].total + 1}
      BY DEF Count
    <3>2. take' = [take EXCEPT ![t] = new] /\ take[t].pc = "write"
      BY <2>4 DEF Write
    <3> HIDE DEF n
    <3>3. /\ new.pc = Again(take[t]) /\ new.of = take[t].of /\ new.total = n
          /\ n \in 0 .. MaxChunks => new \in BoundedThreads
      BY <1>1 DEF BoundedThreads, Again
    <3> HIDE DEF new
    <3>4. r = new
      BY <1>1, <3>2
    <3>5. Holds(new) = 0 /\ Holds(take[t]) = 1
      BY <3>2, <3>3 DEF Holds, Again
    <3>6. n \in Nat /\ n + 0 <= take[t].total + 1
      BY <1>1, <3>1
    <3>7. Holding(new)
      BY <3>3 DEF Holding, Again
    <3> QED
      BY <3>2, <3>3, <3>4, <3>5, <3>6, <3>7
  <2> QED
    BY <2>1, <2>2, <2>3, <2>4
<1>3. file' \in [Takes -> Seq(Tunings \cup {Torn})]
  <2>1. file \in [Takes -> Seq(Tunings \cup {Torn})]
    BY ThreadIs
  <2>2. CASE Skip(t) \/ BeginWrite(t) \/ EndThread(t)
    BY <2>1, <2>2 DEF Skip, BeginWrite, EndThread, diskVars
  <2>3. CASE Write(t) \/ WriteFails(t)
    <3>1. /\ take[t].pc = "write"
          /\ \E x \in {take[t].held, Torn} : file' = [file EXCEPT ![t] = Append(file[t], x)]
      BY <2>3 DEF Write, WriteFails
    <3>2. take[t].held \in Tunings
      BY <3>1, ThreadIs DEF Holding
    <3> QED
      BY <2>1, <3>1, <3>2
  <2> QED
    BY <2>2, <2>3
<1> HIDE DEF r
<1> QED
  BY <1>1, <1>2, <1>3, WorkBounded

\* stop_recorder changes no more of the thread than running and open.
LEMMA StopBounded ==
    ASSUME Bounded, StopRecording \/ Close
    PROVE  Bounded'
<1> DEFINE t == recording
           r == take'[t]
<1>1. /\ t \in Takes /\ queue' = queue /\ captures' = captures /\ file' = file /\ meta' = meta
      /\ subscribed' = subscribed /\ recording' = recording /\ UNCHANGED streamVars
      /\ stopper' \in {"join", "closed"}
  BY DEF StopRecording, Close, diskVars, Bounded, RecorderTypeOK
<1>2. take \in [Takes -> BoundedThreads] /\ take[t] \in BoundedThreads
  BY <1>1, ThreadIs
<1>3. /\ take' = [take EXCEPT ![t] = r] /\ r \in BoundedThreads /\ r.of = take[t].of
      /\ r.total = take[t].total /\ r.pc = take[t].pc /\ r.held = take[t].held
  <2>1. CASE StopRecording
    <3> DEFINE new == [take[t] EXCEPT !.running = FALSE]
    <3>1. /\ new \in BoundedThreads /\ new.of = take[t].of /\ new.total = take[t].total
          /\ new.pc = take[t].pc /\ new.held = take[t].held
      BY <1>2 DEF BoundedThreads
    <3>2. take' = [take EXCEPT ![t] = new]
      BY <2>1 DEF StopRecording
    <3> HIDE DEF new
    <3>3. r = new
      BY <1>1, <1>2, <3>2
    <3> QED
      BY <3>1, <3>2, <3>3
  <2>2. CASE Close
    <3> DEFINE new == [take[t] EXCEPT !.open = FALSE]
    <3>1. /\ new \in BoundedThreads /\ new.of = take[t].of /\ new.total = take[t].total
          /\ new.pc = take[t].pc /\ new.held = take[t].held
      BY <1>2 DEF BoundedThreads
    <3>2. take' = [take EXCEPT ![t] = new]
      BY <2>2 DEF Close
    <3> HIDE DEF new
    <3>3. r = new
      BY <1>1, <1>2, <3>2
    <3> QED
      BY <3>1, <3>2, <3>3
  <2> QED
    BY <2>1, <2>2
<1> HIDE DEF r
<1>4. Fits(r, queue') /\ Holding(r)
  <2>1. Fits(take[t], queue) /\ Holding(take[t])
    BY <1>1, ThreadIs
  <2> QED
    BY <1>1, <1>3, <2>1 DEF Fits, Holds, Holding
<1>5. /\ queue' \in [Takes -> Seq(Tunings)] /\ captures' \in [Takes -> Captures]
      /\ file' \in [Takes -> Seq(Tunings \cup {Torn})] /\ meta' \in [Takes -> BoundedMeta]
      /\ \A u \in Takes : Len(queue'[u]) <= Len(queue[u])
  <2>1. /\ queue \in [Takes -> Seq(Tunings)] /\ captures \in [Takes -> Captures]
        /\ file \in [Takes -> Seq(Tunings \cup {Torn})] /\ meta \in [Takes -> BoundedMeta]
        /\ \A u \in Takes : Len(queue[u]) \in Nat
    BY <1>1, ThreadIs
  <2> QED
    BY <1>1, <2>1
<1>6. subscribed \in Takes \cup {NoTake} /\ recording \in Takes \cup {NoTake}
  BY DEF Bounded, RecorderTypeOK
<1>7. stopper' \in {"idle", "join", "closed"} /\ (stopper' # "idle" => recording' \in Takes)
  BY <1>1
<1> QED
  BY <1>1, <1>3, <1>4, <1>5, <1>6, <1>7, ThreadMoves

\* The metadata, with the captures there are, or broken.
LEMMA FinaliseBounded ==
    ASSUME Bounded, Finalise \/ FinaliseFails
    PROVE  Bounded'
<1> DEFINE t == recording
<1>1. /\ t \in Takes /\ UNCHANGED <<queue, captures, file, take>> /\ UNCHANGED streamVars
      /\ stopper' = "idle" /\ subscribed' \in {subscribed, NoTake}
      /\ recording' \in {recording, NoTake}
  BY DEF Finalise, FinaliseFails, Bounded, RecorderTypeOK
<1>2. meta' \in [Takes -> BoundedMeta]
  <2>1. meta \in [Takes -> BoundedMeta] /\ captures[t] \in Captures
    BY <1>1, ThreadIs
  <2>2. CASE Finalise
    <3> DEFINE m == [state |-> "final", captures |-> captures[t], rate |-> RateAtStop(take[t])]
    <3>0. RateAtStop(take[t]) \in Rates
      BY <1>1, ThreadIs DEF RateAtStop, Rates, BoundedThreads
    <3>1. m \in BoundedMeta
      BY <2>1, <3>0 DEF BoundedMeta
    <3>2. meta' = [meta EXCEPT ![t] = m]
      BY <2>2 DEF Finalise
    <3> HIDE DEF m
    <3> QED
      BY <2>1, <3>1, <3>2
  <2>3. CASE FinaliseFails
    <3> DEFINE m == [state |-> "broken", captures |-> <<>>, rate |-> Untuned]
    <3>1. m \in BoundedMeta
      BY DEF BoundedMeta, Captures, Rates
    <3>2. meta' = [meta EXCEPT ![t] = m]
      BY <2>3 DEF FinaliseFails
    <3> HIDE DEF m
    <3> QED
      BY <2>1, <3>1, <3>2
  <2> QED
    BY <2>2, <2>3
<1>3. RecorderTypeOK'
  BY <1>1, <1>2 DEF Bounded, RecorderTypeOK, BoundedMeta, Rates, streamVars
<1>4. Room' /\ \A s \in Takes : Holding(take'[s])
  BY <1>1 DEF Bounded, Room, Fits, streamVars
<1> QED
  BY <1>1, <1>3, <1>4 DEF Bounded, Holding

\* The recorder's variables keep their types and its queues their bounds,
\* whatever the disk does: no queue grows beyond ChunkRoom, and no recording
\* counts more samples, or begins a capture at more, than were made.
THEOREM RecorderTypeCorrect == RecorderSpec => []RecorderTypeOK
<1>1. ASSUME Bounded, [RecorderNext]_recorderVars PROVE Bounded'
  <2>1. ASSUME NEW t \in Takes, Record(t) \/ RecordFails(t) PROVE Bounded'
    BY <1>1, <2>1, StartBounded
  <2>2. ASSUME NEW t \in Takes, GetChunk(t) PROVE Bounded'
    BY <1>1, <2>2, GetChunkBounded
  <2>3. ASSUME NEW t \in Takes,
               Skip(t) \/ BeginWrite(t) \/ Write(t) \/ WriteFails(t) \/ EndThread(t)
        PROVE  Bounded'
    BY <1>1, <2>3, WorkKeeps
  <2> QED
    BY <1>1, <2>1, <2>2, <2>3, StreamBounded, StopBounded, FinaliseBounded DEF RecorderNext
<1>2. Bounded /\ [RecorderNext]_recorderVars => Bounded'
  BY <1>1
<1>3. Bounded => RecorderTypeOK
  BY DEF Bounded
<1> QED
  BY <1>2, <1>3, BoundedInit, PTL DEF RecorderSpec
=============================================================================
