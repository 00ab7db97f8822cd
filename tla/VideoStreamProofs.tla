-------------------------- MODULE VideoStreamProofs --------------------------
(***************************************************************************)
(* Proofs about EpochTracker and VideoStream, for every counter range,     *)
(* every window, every length of the stream and of the queue.              *)
(*                                                                         *)
(* First the tracking of the epoch on its own.  Then the whole path: with  *)
(* everything the session counts from the last stop shifted to where it is *)
(* in the stream, the path is FrameAssembly, so that every theorem of      *)
(* FrameAssemblyProofs holds for it too.                                   *)
(***************************************************************************)
EXTENDS VideoStream, FiniteSetTheorems, SequenceTheorems, TLAPS

\* The invariant that makes the tracking right: the session's state is the
\* true position of the newest chunk, in laps counted from the last stop.
TrackerInv == TrackerTypeOK /\ TracksTop /\ base <= top[1]

\* One chunk near enough to the newest gets the epoch it was sent in.
LEMMA EpochOfDeliverable ==
  ASSUME TrackerInv, NEW pos \in Positions, Deliverable(pos)
  PROVE  GetDrwEpoch(pos[2]) = pos[1] - base
BY IndexSpaceAssumption, MarginAssumption, EpochAssumption
   DEF TrackerInv, TrackerTypeOK, TracksTop, Deliverable, Near, GetDrwEpoch,
       Positions, Indices

\* Before the first chunk session and stream stand at the same place.
LEMMA InitTracks == TrackerInit => TrackerInv
BY IndexSpaceAssumption, EpochAssumption
   DEF TrackerInit, TrackerInv, TrackerTypeOK, TracksTop, Positions, Indices

\* A chunk handled keeps epoch and high-water mark true to the stream.
LEMMA HandlingKeepsTrack ==
  ASSUME TrackerInv, NEW pos \in Positions, Deliverable(pos), HandleVideoDrw(pos)
  PROVE  TrackerInv'
<1>1. GetDrwEpoch(pos[2]) = pos[1] - base
  BY EpochOfDeliverable
<1>2. TrackerTypeOK' /\ base' <= top'[1] /\ TracksTop'
  BY <1>1, IndexSpaceAssumption, MarginAssumption, EpochAssumption
     DEF TrackerInv, TrackerTypeOK, TracksTop, HandleVideoDrw, TrackEpoch,
         After, Positions, Indices, Deliverable
<1>3. QED
  BY <1>2 DEF TrackerInv

\* stop_video counts from the lap it stops in.
LEMMA ForgettingKeepsTrack ==
  ASSUME TrackerInv, ForgetEpoch
  PROVE  TrackerInv'
BY IndexSpaceAssumption, EpochAssumption
   DEF ForgetEpoch, TrackerInv, TrackerTypeOK, TracksTop, Positions, Indices

\* The inductive invariant holds in every behaviour: handle_drw and stop_video
\* together keep epoch and high-water mark true to the stream.
THEOREM TrackerInvariant == TrackerSpec => []TrackerInv
<1>1. TrackerInv /\ [TrackerNext]_trackerVars => TrackerInv'
  <2> SUFFICES ASSUME TrackerInv, [TrackerNext]_trackerVars
               PROVE  TrackerInv'
    OBVIOUS
  <2>1. ASSUME NEW pos \in Positions, Deliverable(pos), HandleVideoDrw(pos)
        PROVE  TrackerInv'
    BY <2>1, HandlingKeepsTrack
  <2>2. CASE ForgetEpoch
    BY <2>2, ForgettingKeepsTrack
  <2>3. CASE UNCHANGED trackerVars
    BY <2>3 DEF trackerVars, TrackerInv, TrackerTypeOK, TracksTop, Positions, Indices
  <2>4. QED
    BY <2>1, <2>2, <2>3 DEF TrackerNext
<1>2. QED
  BY <1>1, InitTracks, PTL DEF TrackerSpec

\* The session always knows where the stream stands: its epoch and high-water
\* mark (video_epoch, last_drw_pkt_idx) are those of the newest chunk handled.
THEOREM TrackingIsExact == TrackerSpec => []TracksTop
<1>1. TrackerInv => TracksTop
  BY DEF TrackerInv
<1>2. QED
  BY <1>1, TrackerInvariant, PTL

\* No chunk is ever filed a whole counter range away from its place: the epoch
\* handle_drw gives it is the one it was sent in.
THEOREM EveryChunkGetsItsEpoch == TrackerSpec => EpochExact
<1>1. TrackerInv /\ [TrackerNext]_trackerVars
        => [seen' # seen => seen'.epoch = seen'.pos[1] - base]_trackerVars
  <2> SUFFICES ASSUME TrackerInv, TrackerNext, seen' # seen
               PROVE  seen'.epoch = seen'.pos[1] - base
    OBVIOUS
  <2>1. PICK pos \in Positions : Deliverable(pos) /\ HandleVideoDrw(pos)
    BY DEF TrackerNext, ForgetEpoch
  <2>2. GetDrwEpoch(pos[2]) = pos[1] - base
    BY <2>1, EpochOfDeliverable
  <2>3. seen' = [pos |-> pos, epoch |-> GetDrwEpoch(pos[2])]
    BY <2>1 DEF HandleVideoDrw
  <2>4. QED
    BY <2>2, <2>3
<1>2. QED
  BY <1>1, TrackerInvariant, PTL DEF TrackerSpec, EpochExact
----------------------------------------------------------------------------
\* The whole path.  Where an index counted from the last stop lies in the
\* stream, and the state of the assembly told in positions of the stream.
Lead == IndexSpace * base

Shift(S, d) == {i + d : i \in S}
ShiftArgs(f, d) == [p \in Shift(DOMAIN f, d) |-> f[p - d]]

MovedLast == IF lastFrame = -1 THEN -1 ELSE lastFrame + Lead
MovedWindow == IF window = NoWindow THEN NoWindow ELSE <<window[1] + Lead, window[2] + Lead>>

Unwrapped == INSTANCE FrameAssemblyProofs
               WITH received <- ShiftArgs(received, Lead),
                    boundaries <- Shift(boundaries, Lead),
                    lastFrame <- MovedLast,
                    window <- MovedWindow,
                    missing <- Shift(missing, Lead),
                    latest <- Rebased(latest)

\* The queue holds chunks of the stream.
QueueIsSent == \A q \in DOMAIN chunkQueue : chunkQueue[q][2] \in DOMAIN stream

\* The invariant of the path: the tracking is right, what is under way and what
\* is stored is where the tracking says, and moved to its place in the stream
\* the assembly is as FrameAssembly has it.
VideoInv ==
  /\ VideoTypeOK
  /\ IsFiniteSet(boundaries)
  /\ TrackerInv
  /\ QueueInStep
  /\ QueueIsSent
  /\ StoredInPlace
  /\ Unwrapped!AssemblyInv

----------------------------------------------------------------------------
\* The assumptions of FrameAssembly as the instance has them.
LEMMA AssumptionsCarryOver ==
  /\ Kinds \subseteq Unwrapped!AllKinds
  /\ MaxChunks \in Nat
  /\ Empty \notin Nat
  /\ NoFrame.idx \notin Nat
  /\ NoWindow \notin Int \X Int
BY KindsAssumption, BoundAssumption, EmptyAssumption, NoFrameAssumption, NoWindowAssumption
   DEF AllKinds, Unwrapped!AllKinds

\* A position is its lap and its index, and the laps of the stream are within
\* MaxEpoch.
LEMMA LapOfPosition ==
  ASSUME NEW p \in Nat
  PROVE  /\ Lap(p) = <<p \div IndexSpace, p % IndexSpace>>
         /\ Lap(p)[1] \in Nat /\ Lap(p)[2] \in Indices
         /\ p = IndexSpace * Lap(p)[1] + Lap(p)[2]
         /\ p < MaxChunks => Lap(p) \in Positions
<1>1. /\ Lap(p) = <<p \div IndexSpace, p % IndexSpace>>
      /\ Lap(p)[1] \in Nat /\ Lap(p)[2] \in Indices
      /\ p = IndexSpace * Lap(p)[1] + Lap(p)[2]
  BY IndexSpaceAssumption DEF Lap, Indices
<1>2. ASSUME p < MaxChunks PROVE Lap(p)[1] <= MaxEpoch
  <2> DEFINE e == Lap(p)[1]
  <2>1. e \in Nat /\ IndexSpace * e <= p /\ IndexSpace \in Nat /\ IndexSpace > 0
    BY <1>1, IndexSpaceAssumption DEF Indices
  <2>2. IndexSpace * e < IndexSpace * (MaxEpoch + 1)
    BY <1>2, <2>1, LapsAssumption, BoundAssumption, EpochAssumption
  <2> HIDE DEF e
  <2>3. e < MaxEpoch + 1
    <3> SUFFICES ASSUME e >= MaxEpoch + 1 PROVE FALSE
      BY <2>1, EpochAssumption
    <3>1. PICK d \in Nat : e = (MaxEpoch + 1) + d
      BY <2>1, EpochAssumption
    <3>2. IndexSpace * e = IndexSpace * (MaxEpoch + 1) + IndexSpace * d
      BY <2>1, <3>1, EpochAssumption
    <3>3. IndexSpace * d >= 0
      BY <2>1, <3>1
    <3>4. QED
      BY <2>1, <2>2, <3>2, <3>3, EpochAssumption
  <2>4. QED
    BY <2>1, <2>3, EpochAssumption DEF e
<1>3. ASSUME p < MaxChunks PROVE Lap(p) \in Positions
  BY <1>1, <1>2, <1>3, EpochAssumption DEF Positions
<1>4. QED
  BY <1>1, <1>3

\* The session never counts ahead of the camera.
LEMMA LeadIsNatural == ASSUME TrackerInv PROVE Lead \in Nat
BY IndexSpaceAssumption, EpochAssumption DEF TrackerInv, TrackerTypeOK, Lead

\* The index a chunk is filed under, counted from the last stop.
LEMMA FiledUnder ==
  ASSUME TrackerInv, NEW p \in Nat, NEW e \in Nat, e = Lap(p)[1] - base
  PROVE  /\ (p % IndexSpace) + IndexSpace * e = p - Lead
         /\ p - Lead \in Nat
<1>1. base \in Nat
  BY EpochAssumption DEF TrackerInv, TrackerTypeOK
<1>2. (p % IndexSpace) + IndexSpace * e = p - Lead
  BY <1>1, LapOfPosition, IndexSpaceAssumption DEF Lap, Lead, Indices
<1>3. (p % IndexSpace) + IndexSpace * e \in Nat
  BY LapOfPosition, IndexSpaceAssumption DEF Lap, Indices
<1>4. QED
  BY <1>2, <1>3

\* What is in a shifted set.
LEMMA InShift ==
  ASSUME NEW S, S \subseteq Int, NEW d \in Int
  PROVE  /\ Shift(S, d) \subseteq Int
         /\ \A x \in Int : x \in Shift(S, d) <=> x - d \in S
BY DEF Shift

\* What a shifted function maps to what.
LEMMA AtShift ==
  ASSUME NEW f, DOMAIN f \subseteq Int, NEW d \in Int
  PROVE  /\ DOMAIN ShiftArgs(f, d) = Shift(DOMAIN f, d)
         /\ \A i \in DOMAIN f : i + d \in DOMAIN ShiftArgs(f, d) /\ ShiftArgs(f, d)[i + d] = f[i]
         /\ \A p \in DOMAIN ShiftArgs(f, d) :
              p - d \in DOMAIN f /\ ShiftArgs(f, d)[p] = f[p - d]
BY DEF Shift, ShiftArgs

\* A finite set shifted has as many elements, or fewer.
LEMMA ShiftIsNoLarger ==
  ASSUME NEW S, IsFiniteSet(S), S \subseteq Int, NEW d \in Int
  PROVE  IsFiniteSet(Shift(S, d)) /\ Cardinality(Shift(S, d)) <= Cardinality(S)
<1> DEFINE g == [i \in S |-> i + d]
<1>1. g \in Surjection(S, Shift(S, d))
  BY DEF Surjection, Shift
<1>2. QED
  BY <1>1, FS_Surjection

----------------------------------------------------------------------------
\* Handling a chunk stores it and may forget others; the shapes stay.
LEMMA HandleKeepsShape ==
  ASSUME AssemblyTypeOK, IsFiniteSet(boundaries),
         NEW idx \in Nat, NEW kind, NEW data \in Nat \cup {Empty},
         HandleChunk(idx, kind, data)
  PROVE  /\ AssemblyTypeOK'
         /\ IsFiniteSet(boundaries)'
         /\ \A i \in DOMAIN received' :
              \/ i \in DOMAIN received /\ received'[i] = received[i]
              \/ i = idx /\ received'[i] = data
<1> DEFINE rec == [i \in DOMAIN received \cup {idx} |-> IF i = idx THEN data ELSE received[i]]
           bnd == IF kind \in Boundary THEN boundaries \cup {idx} ELSE boundaries
<1>1. ProcessFrame(idx, rec, bnd) /\ UNCHANGED stream
  BY DEF HandleChunk
<1>2. /\ DOMAIN rec \subseteq Nat
      /\ \A i \in DOMAIN rec :
           /\ rec[i] \in Nat \cup {Empty}
           /\ \/ i \in DOMAIN received /\ rec[i] = received[i]
              \/ i = idx /\ rec[i] = data
  BY DEF AssemblyTypeOK
<1>3. bnd \subseteq Nat /\ IsFiniteSet(bnd)
  BY FS_AddElement DEF AssemblyTypeOK
<1> HIDE DEF rec, bnd
<1>4. /\ DOMAIN received' \subseteq DOMAIN rec
      /\ \A i \in DOMAIN received' : received'[i] = rec[i]
      /\ boundaries' \subseteq bnd
  BY <1>1 DEF ProcessFrame, OpenWindow, FillWindow
<1>5. /\ lastFrame' \in Nat \cup {-1}
      /\ window' \in (Nat \X Nat) \cup {NoWindow}
      /\ missing' \subseteq Nat
      /\ latest' = NoFrame \/ latest'.idx \in Nat
  <2>1. CASE UNCHANGED <<lastFrame, window, missing, latest>>
    BY <2>1 DEF AssemblyTypeOK
  <2>2. ASSUME NEW lo \in bnd, NEW hi \in bnd,
               IF <<lo, hi>> # window THEN OpenWindow(lo, hi, rec, bnd)
                                      ELSE FillWindow(idx, rec, bnd),
               IF lo # lastFrame /\ missing' = {} THEN Publish(lo, hi, received')
                                                  ELSE UNCHANGED <<lastFrame, latest>>
        PROVE  /\ lastFrame' \in Nat \cup {-1}
               /\ window' \in (Nat \X Nat) \cup {NoWindow}
               /\ missing' \subseteq Nat
               /\ latest' = NoFrame \/ latest'.idx \in Nat
    <3>1. lo \in Nat /\ hi \in Nat /\ lo..(hi - 1) \subseteq Nat
      BY <1>3
    <3>2. window' \in (Nat \X Nat) \cup {NoWindow} /\ missing' \subseteq Nat
      BY <2>2, <3>1 DEF OpenWindow, FillWindow, AssemblyTypeOK
    <3>3. lastFrame' \in Nat \cup {-1} /\ (latest' = NoFrame \/ latest'.idx \in Nat)
      BY <2>2, <3>1 DEF Publish, AssemblyTypeOK
    <3>4. QED
      BY <3>2, <3>3
  <2>3. QED
    BY <1>1, <2>1, <2>2 DEF ProcessFrame
<1>6. IsFiniteSet(boundaries)'
  BY <1>3, <1>4, FS_Subset
<1>7. AssemblyTypeOK'
  <2>1. /\ DOMAIN received' \subseteq Nat
        /\ \A i \in DOMAIN received' : received'[i] \in Nat \cup {Empty}
        /\ boundaries' \subseteq Nat
    BY <1>2, <1>3, <1>4
  <2>2. \E n \in 0..MaxChunks : stream' \in [0..(n - 1) -> Kinds]
    BY <1>1 DEF AssemblyTypeOK
  <2>3. QED
    BY <2>1, <2>2, <1>5 DEF AssemblyTypeOK
<1>8. QED
  BY <1>2, <1>4, <1>6, <1>7

\* A frame told d further on.
Ahead(lo, hi, d, D) ==
  [idx |-> lo + d, data |-> [p \in (lo + d)..((hi + d) - 1) |-> D[p - d]]]

\* The frame a viewer sees, told in positions of the stream, when what it was
\* put together from lay in its place.
LEMMA RebasedFrame ==
  ASSUME NEW lo \in Nat, NEW hi \in Nat, NEW d \in Nat,
         NEW D, DOMAIN D = lo..(hi - 1),
         \A i \in lo..(hi - 1) : D[i] # Empty => D[i] = i + d,
         \E i \in lo..(hi - 1) : D[i] # Empty
  PROVE  Rebased([idx |-> lo, data |-> D]) = Ahead(lo, hi, d, D)
<1> DEFINE fr == [idx |-> lo, data |-> D]
<1>1. DOMAIN D = lo..(hi - 1) /\ fr # NoFrame /\ fr.idx = lo /\ fr.data = D
  BY NoFrameAssumption
<1> HIDE DEF fr
<1>2. \A i \in DOMAIN fr.data : fr.data[i] # Empty => fr.data[i] - i = d
  BY <1>1
<1>3. \E i \in DOMAIN fr.data : fr.data[i] # Empty
  BY <1>1
<1> DEFINE c == CHOOSE j \in DOMAIN fr.data : fr.data[j] # Empty
<1>4. Rebased(fr) = [idx |-> fr.idx + (fr.data[c] - c),
                     data |-> [p \in {j + (fr.data[c] - c) : j \in DOMAIN fr.data} |->
                                 fr.data[p - (fr.data[c] - c)]]]
  BY <1>1, Zenon DEF Rebased
<1>5. fr.data[c] - c = d
  BY <1>2, <1>3
<1> HIDE DEF c
<1>6. Rebased(fr) = [idx |-> fr.idx + d,
                     data |-> [p \in {j + d : j \in DOMAIN fr.data} |-> fr.data[p - d]]]
  BY <1>4, <1>5
<1>7. {i + d : i \in lo..(hi - 1)} = (lo + d)..((hi + d) - 1)
  <2>1. ASSUME NEW p \in (lo + d)..((hi + d) - 1)
        PROVE  p \in {i + d : i \in lo..(hi - 1)}
    BY p - d \in lo..(hi - 1), p = (p - d) + d
  <2>2. QED
    BY <2>1
<1>8. Rebased(fr) = [idx |-> lo + d, data |-> [p \in (lo + d)..((hi + d) - 1) |-> D[p - d]]]
  BY <1>1, <1>6, <1>7
<1>9. QED
  BY <1>8 DEF fr, Ahead

\* Nothing that the tracking or the queue does moves the assembly.
LEMMA RestingAssembly ==
  ASSUME UNCHANGED <<assemblyState, base>>
  PROVE  UNCHANGED Unwrapped!assemblyState
BY DEF assemblyState, Unwrapped!assemblyState, MovedLast, MovedWindow, Shift, ShiftArgs,
       Lead, Rebased

\* The camera adds a chunk.
LEMMA CameraSendsRefines ==
  ASSUME CameraSends
  PROVE  \E n \in 0..MaxChunks, k \in Kinds : Unwrapped!Produce(n, k)
<1>1. PICK n \in 0..MaxChunks, k \in Kinds : Produce(n, k)
  BY DEF CameraSends
<1>2. UNCHANGED <<assemblyVars, latest, base>>
  BY <1>1 DEF CameraSends, Produce, trackerVars
<1>3. UNCHANGED <<Unwrapped!assemblyVars, Rebased(latest)>>
  BY <1>2 DEF assemblyVars, Unwrapped!assemblyVars, MovedLast, MovedWindow, Shift, ShiftArgs,
       Lead, Rebased
<1>4. Unwrapped!Produce(n, k)
  BY <1>1, <1>3 DEF Produce, Unwrapped!Produce
<1>5. QED
  BY <1>4

\* stop_video empties the assembly and keeps the frame on show.
LEMMA StopVideoRefines ==
  ASSUME StopVideo
  PROVE  Unwrapped!ResetAssembly
<1>1. /\ received' = NoChunks /\ boundaries' = {} /\ lastFrame' = -1 /\ window' = NoWindow
      /\ missing' = {} /\ UNCHANGED <<stream, latest>>
  BY DEF StopVideo, ResetAssembly
<1>2. ShiftArgs(received, Lead)' = Unwrapped!NoChunks
  BY <1>1 DEF ShiftArgs, Shift, NoChunks, Unwrapped!NoChunks
<1>3. Shift(boundaries, Lead)' = {} /\ Shift(missing, Lead)' = {}
  BY <1>1 DEF Shift
<1>4. MovedLast' = -1 /\ MovedWindow' = NoWindow
  BY <1>1 DEF MovedLast, MovedWindow
<1>5. UNCHANGED <<stream, Rebased(latest)>>
  BY <1>1 DEF Rebased
<1>6. QED
  BY <1>2, <1>3, <1>4, <1>5 DEF Unwrapped!ResetAssembly

----------------------------------------------------------------------------
\* What the chunks and boundaries are once chunk p is filed under idx.
Filed(idx, p) ==
  [i \in DOMAIN received \cup {idx} |-> IF i = idx THEN Payload(p) ELSE received[i]]
Marked(idx, p) == IF stream[p] \in Boundary THEN boundaries \cup {idx} ELSE boundaries

\* Filing a chunk under its index is filing it at its position.
LEMMA FilingShifted ==
  ASSUME VideoInv, NEW p \in DOMAIN stream, p - Lead \in Nat
  PROVE  /\ DOMAIN Filed(p - Lead, p) \subseteq Nat
         /\ Marked(p - Lead, p) \subseteq Nat
         /\ IsFiniteSet(Marked(p - Lead, p))
         /\ \A i \in DOMAIN Filed(p - Lead, p) :
              Filed(p - Lead, p)[i] # Empty => Filed(p - Lead, p)[i] = i + Lead
         /\ [i \in DOMAIN ShiftArgs(received, Lead) \cup {p} |->
               IF i = p THEN Payload(p) ELSE ShiftArgs(received, Lead)[i]]
              = ShiftArgs(Filed(p - Lead, p), Lead)
         /\ (IF stream[p] \in Boundary THEN Shift(boundaries, Lead) \cup {p}
                                       ELSE Shift(boundaries, Lead))
              = Shift(Marked(p - Lead, p), Lead)
<1> DEFINE idx == p - Lead
           rec == Filed(idx, p)
<1>1. Lead \in Nat
  BY LeadIsNatural DEF VideoInv
<1>2. DOMAIN received \subseteq Nat /\ boundaries \subseteq Nat
  BY DEF VideoInv, VideoTypeOK, AssemblyTypeOK
<1>3. p \in Nat /\ idx \in Nat /\ idx + Lead = p
  BY <1>1, BoundAssumption DEF VideoInv, VideoTypeOK, AssemblyTypeOK
<1>4. /\ DOMAIN rec = DOMAIN received \cup {idx}
      /\ \A i \in DOMAIN rec : rec[i] = IF i = idx THEN Payload(p) ELSE received[i]
  BY DEF Filed
<1>5. Marked(idx, p) \subseteq Nat /\ IsFiniteSet(Marked(idx, p))
  BY <1>2, <1>3, FS_AddElement DEF VideoInv, Marked
<1>6. \A i \in DOMAIN rec : rec[i] # Empty => rec[i] = i + Lead
  <2>1. \A i \in DOMAIN received : received[i] # Empty => received[i] = i + Lead
    BY DEF VideoInv, StoredInPlace, Lead
  <2>2. Payload(p) # Empty => Payload(p) = p
    BY DEF Payload
  <2>3. QED
    BY <1>3, <1>4, <2>1, <2>2
<1> HIDE DEF idx, rec
<1>7. DOMAIN rec \subseteq Int
  BY <1>2, <1>3, <1>4
<1>8. /\ DOMAIN ShiftArgs(received, Lead) = Shift(DOMAIN received, Lead)
      /\ \A i \in DOMAIN ShiftArgs(received, Lead) :
           ShiftArgs(received, Lead)[i] = received[i - Lead]
      /\ DOMAIN ShiftArgs(rec, Lead) = Shift(DOMAIN rec, Lead)
      /\ \A i \in DOMAIN ShiftArgs(rec, Lead) :
           i - Lead \in DOMAIN rec /\ ShiftArgs(rec, Lead)[i] = rec[i - Lead]
  BY <1>1, <1>2, <1>7, AtShift
<1>9. Shift(DOMAIN received, Lead) \cup {p} = Shift(DOMAIN rec, Lead)
  BY <1>3, <1>4 DEF Shift
<1>10. Shift(DOMAIN rec, Lead) \subseteq Int
  BY <1>1, <1>7 DEF Shift
<1>11. \A i \in Shift(DOMAIN rec, Lead) :
         (IF i = p THEN Payload(p) ELSE ShiftArgs(received, Lead)[i]) = ShiftArgs(rec, Lead)[i]
  <2> SUFFICES ASSUME NEW i \in Shift(DOMAIN rec, Lead)
               PROVE  (IF i = p THEN Payload(p) ELSE ShiftArgs(received, Lead)[i])
                        = ShiftArgs(rec, Lead)[i]
    OBVIOUS
  <2>1. i \in Int /\ i - Lead \in DOMAIN rec /\ ShiftArgs(rec, Lead)[i] = rec[i - Lead]
    BY <1>8, <1>10
  <2>2. i = p <=> i - Lead = idx
    BY <1>1, <1>3, <2>1
  <2>3. i # p => i \in DOMAIN ShiftArgs(received, Lead)
    BY <1>8, <1>9
  <2>4. QED
    BY <1>4, <1>8, <2>1, <2>2, <2>3
<1>12. [i \in DOMAIN ShiftArgs(received, Lead) \cup {p} |->
          IF i = p THEN Payload(p) ELSE ShiftArgs(received, Lead)[i]] = ShiftArgs(rec, Lead)
  <2>1. ShiftArgs(rec, Lead) = [i \in Shift(DOMAIN rec, Lead) |-> ShiftArgs(rec, Lead)[i]]
    BY DEF ShiftArgs
  <2>2. QED
    BY <1>8, <1>9, <1>11, <2>1
<1>13. (IF stream[p] \in Boundary THEN Shift(boundaries, Lead) \cup {p}
                                  ELSE Shift(boundaries, Lead)) = Shift(Marked(idx, p), Lead)
  BY <1>3 DEF Marked, Shift
<1>14. QED
  BY <1>2, <1>3, <1>4, <1>5, <1>6, <1>12, <1>13 DEF rec, idx

\* What process_video_frame does to the window, told in positions.
LEMMA WindowShifted ==
  ASSUME VideoInv, NEW p \in DOMAIN stream, p - Lead \in Nat,
         NEW lo \in Nat, NEW hi \in Nat, UNCHANGED base,
         IF <<lo, hi>> # window THEN OpenWindow(lo, hi, Filed(p - Lead, p), Marked(p - Lead, p))
                                ELSE FillWindow(p - Lead, Filed(p - Lead, p), Marked(p - Lead, p))
  PROVE  /\ missing' \subseteq Nat
         /\ IF <<lo + Lead, hi + Lead>> # MovedWindow
              THEN Unwrapped!OpenWindow(lo + Lead, hi + Lead,
                     ShiftArgs(Filed(p - Lead, p), Lead), Shift(Marked(p - Lead, p), Lead))
              ELSE Unwrapped!FillWindow(p,
                     ShiftArgs(Filed(p - Lead, p), Lead), Shift(Marked(p - Lead, p), Lead))
<1> DEFINE idx == p - Lead
           rec == Filed(idx, p)
           bnd == Marked(idx, p)
<1>1. DOMAIN rec \subseteq Nat /\ bnd \subseteq Nat
  BY FilingShifted
<1>2. Lead \in Nat /\ Lead' = Lead /\ idx \in Nat
  BY LeadIsNatural DEF VideoInv, Lead
<1>3. window \in (Nat \X Nat) \cup {NoWindow} /\ missing \subseteq Nat /\ p \in Nat
  BY BoundAssumption DEF VideoInv, VideoTypeOK, AssemblyTypeOK
<1>4. idx + Lead = p
  BY <1>2, <1>3
<1>5. IF <<lo, hi>> # window THEN OpenWindow(lo, hi, rec, bnd) ELSE FillWindow(idx, rec, bnd)
  OBVIOUS
<1> HIDE DEF idx, rec, bnd
<1>6. <<lo + Lead, hi + Lead>> # MovedWindow <=> <<lo, hi>> # window
  BY <1>2, <1>3, NoWindowAssumption DEF MovedWindow
<1>7. MovedWindow' = <<lo + Lead, hi + Lead>>
  BY <1>2, <1>3, <1>5, NoWindowAssumption DEF MovedWindow, OpenWindow, FillWindow
<1>8. CASE <<lo, hi>> # window
  <2>1. /\ missing' = {i \in lo..(hi - 1) : i \notin DOMAIN rec}
        /\ received' = [i \in {j \in DOMAIN rec : j >= lo} |-> rec[i]]
        /\ boundaries' = {b \in bnd : b >= lo}
    BY <1>5, <1>8 DEF OpenWindow
  <2>2. Shift(missing, Lead)'
          = {i \in (lo + Lead)..((hi + Lead) - 1) : i \notin DOMAIN ShiftArgs(rec, Lead)}
    <3>1. ASSUME NEW x \in Int
          PROVE  x \in Shift(missing', Lead)
                   <=> /\ x \in (lo + Lead)..((hi + Lead) - 1)
                       /\ x \notin DOMAIN ShiftArgs(rec, Lead)
      <4>1. x \in Shift(missing', Lead) <=> x - Lead \in missing'
        BY <1>2, <2>1, InShift
      <4>2. x \in DOMAIN ShiftArgs(rec, Lead) <=> x - Lead \in DOMAIN rec
        BY <1>1, <1>2, InShift, AtShift
      <4>3. QED
        BY <1>2, <2>1, <4>1, <4>2
    <3>2. Shift(missing', Lead) \subseteq Int
      BY <1>2, <2>1 DEF Shift
    <3>3. Shift(missing, Lead)' = Shift(missing', Lead)
      BY <1>2 DEF Shift
    <3>4. QED
      BY <1>2, <3>1, <3>2, <3>3
  <2>3. ShiftArgs(received, Lead)'
          = [i \in {j \in DOMAIN ShiftArgs(rec, Lead) : j >= lo + Lead} |->
               ShiftArgs(rec, Lead)[i]]
    <3>1. ShiftArgs(received, Lead)' = ShiftArgs(received', Lead)
      BY <1>2 DEF ShiftArgs, Shift
    <3>2. DOMAIN received' = {j \in DOMAIN rec : j >= lo}
      BY <2>1
    <3>3. Shift(DOMAIN received', Lead) = {j \in Shift(DOMAIN rec, Lead) : j >= lo + Lead}
      BY <1>1, <1>2, <3>2 DEF Shift
    <3>4. /\ DOMAIN ShiftArgs(rec, Lead) = Shift(DOMAIN rec, Lead)
          /\ \A i \in Shift(DOMAIN rec, Lead) :
               i - Lead \in DOMAIN rec /\ ShiftArgs(rec, Lead)[i] = rec[i - Lead]
      BY <1>1, <1>2, AtShift
    <3>5. \A i \in Shift(DOMAIN received', Lead) : i - Lead \in DOMAIN received'
      BY <1>1, <1>2, <3>2 DEF Shift
    <3>6. \A i \in Shift(DOMAIN received', Lead) :
            received'[i - Lead] = ShiftArgs(rec, Lead)[i]
      BY <2>1, <3>2, <3>3, <3>4, <3>5
    <3>7. QED
      BY <3>1, <3>3, <3>4, <3>6 DEF ShiftArgs
  <2>4. Shift(boundaries, Lead)' = {b \in Shift(bnd, Lead) : b >= lo + Lead}
    BY <1>1, <1>2, <2>1 DEF Shift
  <2>5. Unwrapped!OpenWindow(lo + Lead, hi + Lead, ShiftArgs(rec, Lead), Shift(bnd, Lead))
    BY <1>7, <2>2, <2>3, <2>4 DEF Unwrapped!OpenWindow
  <2>6. missing' \subseteq Nat
    BY <2>1
  <2>7. QED
    BY <1>6, <1>8, <2>5, <2>6 DEF idx, rec, bnd
<1>9. CASE <<lo, hi>> = window
  <2>1. missing' = missing \ {idx} /\ received' = rec /\ boundaries' = bnd
    BY <1>5, <1>9 DEF FillWindow
  <2>2. Shift(missing, Lead)' = Shift(missing, Lead) \ {p}
    BY <1>2, <1>3, <1>4, <2>1 DEF Shift
  <2>3. ShiftArgs(received, Lead)' = ShiftArgs(rec, Lead)
    BY <1>2, <2>1 DEF ShiftArgs, Shift
  <2>4. Shift(boundaries, Lead)' = Shift(bnd, Lead)
    BY <1>2, <2>1 DEF Shift
  <2>5. MovedWindow' = MovedWindow
    BY <1>6, <1>7, <1>9
  <2>6. QED
    BY <1>3, <1>6, <1>9, <2>1, <2>2, <2>3, <2>4, <2>5 DEF Unwrapped!FillWindow, idx, rec, bnd
<1>10. QED
  BY <1>8, <1>9

\* A window without gaps holds chunks only, each in its place.
LEMMA ClosedWindowInPlace ==
  ASSUME VideoInv, NEW p \in DOMAIN stream, p - Lead \in Nat,
         NEW lo \in Nat, NEW hi \in Nat,
         IF <<lo, hi>> # window THEN OpenWindow(lo, hi, Filed(p - Lead, p), Marked(p - Lead, p))
                                ELSE FillWindow(p - Lead, Filed(p - Lead, p), Marked(p - Lead, p)),
         missing' = {}
  PROVE  /\ DOMAIN received' \subseteq Nat
         /\ \A i \in lo..(hi - 1) :
              /\ i \in DOMAIN received'
              /\ received'[i] # Empty => received'[i] = i + Lead
<1> DEFINE idx == p - Lead
           rec == Filed(idx, p)
           bnd == Marked(idx, p)
<1>1. /\ DOMAIN rec \subseteq Nat
      /\ \A i \in DOMAIN rec : rec[i] # Empty => rec[i] = i + Lead
  BY FilingShifted
<1>2. DOMAIN rec = DOMAIN received \cup {idx}
  BY DEF Filed
<1>3. IF <<lo, hi>> # window THEN OpenWindow(lo, hi, rec, bnd) ELSE FillWindow(idx, rec, bnd)
  OBVIOUS
<1>4. Lead \in Nat
  BY LeadIsNatural DEF VideoInv
<1> HIDE DEF idx, rec, bnd
<1>5. CASE <<lo, hi>> # window
  BY <1>1, <1>3, <1>5 DEF OpenWindow
<1>6. CASE <<lo, hi>> = window
  <2>1. received' = rec /\ missing \subseteq {idx}
    BY <1>3, <1>6 DEF FillWindow
  <2>2. ASSUME NEW i \in lo..(hi - 1), i \notin DOMAIN received
        PROVE  i = idx
    <3>1. window # NoWindow /\ MovedWindow = <<lo + Lead, hi + Lead>>
      BY <1>6, NoWindowAssumption DEF MovedWindow
    <3>2. MovedWindow # NoWindow
      BY <1>4, <3>1, NoWindowAssumption
    <3>3. Shift(missing, Lead) = {j \in (lo + Lead)..((hi + Lead) - 1) :
                                    j \notin DOMAIN ShiftArgs(received, Lead)}
      BY <3>1, <3>2 DEF VideoInv, Unwrapped!AssemblyInv, Unwrapped!MissingExact
    <3>4. DOMAIN received \subseteq Int /\ missing \subseteq Int
      BY DEF VideoInv, VideoTypeOK, AssemblyTypeOK
    <3>5. i + Lead \in (lo + Lead)..((hi + Lead) - 1)
      BY <1>4
    <3>6. i + Lead \notin DOMAIN ShiftArgs(received, Lead)
      BY <1>4, <2>2, <3>4 DEF ShiftArgs, Shift
    <3>7. i + Lead \in Shift(missing, Lead)
      BY <3>3, <3>5, <3>6
    <3>8. i \in missing
      BY <1>4, <3>4, <3>7 DEF Shift
    <3>9. QED
      BY <2>1, <3>8
  <2>3. QED
    BY <1>1, <1>2, <2>1, <2>2
<1>7. QED
  BY <1>5, <1>6

\* Publishing the window publishes the frame at its place in the stream.
LEMMA PublishShifted ==
  ASSUME NEW lo \in Nat, NEW hi \in Nat, Lead \in Nat, UNCHANGED base,
         Publish(lo, hi, received'), DOMAIN received' \subseteq Nat,
         \A i \in lo..(hi - 1) :
           /\ i \in DOMAIN received'
           /\ received'[i] # Empty => received'[i] = i + Lead
  PROVE  Unwrapped!Publish(lo + Lead, hi + Lead, ShiftArgs(received, Lead)')
<1> DEFINE mrec == ShiftArgs(received', Lead)
           mlo == lo + Lead
           mhi == hi + Lead
<1>1. Lead' = Lead /\ ShiftArgs(received, Lead)' = mrec
  BY DEF Lead, ShiftArgs, Shift
<1>2. MovedLast' = mlo
  BY <1>1 DEF MovedLast, Publish
<1>3. \A q \in mlo..(mhi - 1) : q - Lead \in lo..(hi - 1) /\ mrec[q] = received'[q - Lead]
  <2>1. \A i \in DOMAIN received' : mrec[i + Lead] = received'[i]
    BY AtShift
  <2>2. ASSUME NEW q \in mlo..(mhi - 1)
        PROVE  q - Lead \in lo..(hi - 1) /\ mrec[q] = received'[q - Lead]
    <3>1. q - Lead \in lo..(hi - 1) /\ (q - Lead) + Lead = q
      OBVIOUS
    <3>2. QED
      BY <2>1, <3>1
  <2>3. QED
    BY <2>2
<1>4. \A i \in lo..(hi - 1) : i + Lead \in mlo..(mhi - 1) /\ mrec[i + Lead] = received'[i]
  BY AtShift
<1>5. (\E i \in lo..(hi - 1) : received'[i] # Empty)
        <=> (\E q \in mlo..(mhi - 1) : mrec[q] # Empty)
  BY <1>3, <1>4
<1>6. CASE \E i \in lo..(hi - 1) : received'[i] # Empty
  <2> DEFINE D == [i \in lo..(hi - 1) |-> received'[i]]
  <2>1. latest' = [idx |-> lo, data |-> D]
    BY <1>6 DEF Publish
  <2>2. /\ DOMAIN D = lo..(hi - 1)
        /\ \A i \in lo..(hi - 1) : D[i] = received'[i]
    OBVIOUS
  <2> HIDE DEF D
  <2>3. Rebased([idx |-> lo, data |-> D]) = Ahead(lo, hi, Lead, D)
    <3>1. /\ \A i \in lo..(hi - 1) : D[i] # Empty => D[i] = i + Lead
          /\ \E i \in lo..(hi - 1) : D[i] # Empty
      BY <1>6, <2>2
    <3>2. QED
      BY <2>2, <3>1, RebasedFrame
  <2> HIDE DEF mlo, mhi, mrec
  <2>4. Rebased(latest)' = [idx |-> mlo, data |-> [q \in mlo..(mhi - 1) |-> mrec[q]]]
    <3>1. Rebased(latest)' = Rebased(latest')
      BY DEF Rebased
    <3>2. QED
      BY <1>3, <2>1, <2>2, <2>3, <3>1 DEF Ahead, mlo, mhi
  <2>5. Unwrapped!Publish(mlo, mhi, mrec)
    BY <1>2, <1>5, <1>6, <2>4 DEF Unwrapped!Publish
  <2>6. QED
    BY <1>1, <2>5 DEF mlo, mhi
<1>7. CASE ~ \E i \in lo..(hi - 1) : received'[i] # Empty
  <2>1. Rebased(latest)' = Rebased(latest)
    BY <1>7 DEF Publish, Rebased
  <2> HIDE DEF mlo, mhi, mrec
  <2>2. Unwrapped!Publish(mlo, mhi, mrec)
    BY <1>2, <1>5, <1>7, <2>1 DEF Unwrapped!Publish
  <2>3. QED
    BY <1>1, <2>2 DEF mlo, mhi
<1>8. QED
  BY <1>6, <1>7

\* Handling a chunk under its index is handling it at its position.
LEMMA HandleRefines ==
  ASSUME VideoInv, NEW p \in DOMAIN stream, p - Lead \in Nat, UNCHANGED base,
         HandleChunk(p - Lead, stream[p], Payload(p))
  PROVE  Unwrapped!HandleChunk(p, stream[p], Unwrapped!Payload(p))
<1> DEFINE idx == p - Lead
           rec == Filed(idx, p)
           bnd == Marked(idx, p)
           mrec == ShiftArgs(rec, Lead)
           mbnd == Shift(bnd, Lead)
<1>1. ProcessFrame(idx, rec, bnd) /\ UNCHANGED stream
  BY DEF HandleChunk, Filed, Marked
<1>2. DOMAIN rec \subseteq Nat /\ bnd \subseteq Nat /\ IsFiniteSet(bnd)
  BY FilingShifted
<1>3. Lead \in Nat /\ Lead' = Lead
  BY LeadIsNatural DEF VideoInv, Lead
<1>4. SUFFICES Unwrapped!ProcessFrame(p, mrec, mbnd)
  <2>1. /\ Unwrapped!Boundary = Boundary
        /\ Unwrapped!Payload(p) = Payload(p)
    BY DEF Boundary, Unwrapped!Boundary, Payload, Unwrapped!Payload, Carries, Unwrapped!Carries
  <2>2. /\ [i \in DOMAIN ShiftArgs(received, Lead) \cup {p} |->
              IF i = p THEN Payload(p) ELSE ShiftArgs(received, Lead)[i]] = mrec
        /\ (IF stream[p] \in Boundary THEN Shift(boundaries, Lead) \cup {p}
                                      ELSE Shift(boundaries, Lead)) = mbnd
    BY FilingShifted
  <2>3. QED
    BY <1>1, <1>4, <2>1, <2>2 DEF Unwrapped!HandleChunk
<1> HIDE DEF idx, rec, bnd
<1>5. CASE /\ Cardinality(bnd) <= 1
           /\ received' = rec
           /\ boundaries' = bnd
           /\ UNCHANGED <<lastFrame, window, missing, latest>>
  <2>1. Unwrapped!Cardinality(mbnd) <= 1
    <3>1. IsFiniteSet(mbnd) /\ Cardinality(mbnd) <= Cardinality(bnd)
      BY <1>2, <1>3, bnd \subseteq Int, Lead \in Int, ShiftIsNoLarger
    <3>2. Cardinality(mbnd) \in Nat /\ Cardinality(bnd) \in Nat
      BY <1>2, <3>1, FS_CardinalityType
    <3>3. Unwrapped!Cardinality(mbnd) = Cardinality(mbnd)
      BY DEF Cardinality, Unwrapped!Cardinality
    <3>4. QED
      BY <1>5, <3>1, <3>2, <3>3
  <2>2. ShiftArgs(received, Lead)' = mrec /\ Shift(boundaries, Lead)' = mbnd
    BY <1>3, <1>5 DEF ShiftArgs, Shift
  <2>3. UNCHANGED <<MovedLast, MovedWindow, Shift(missing, Lead), Rebased(latest)>>
    BY <1>3, <1>5 DEF MovedLast, MovedWindow, Shift, Rebased
  <2> HIDE DEF mrec, mbnd
  <2>4. QED
    BY <2>1, <2>2, <2>3 DEF Unwrapped!ProcessFrame
<1>6. ASSUME NEW lo \in bnd, NEW hi \in bnd,
             NewestTwo(lo, hi, bnd),
             IF <<lo, hi>> # window THEN OpenWindow(lo, hi, rec, bnd)
                                    ELSE FillWindow(idx, rec, bnd),
             IF lo # lastFrame /\ missing' = {} THEN Publish(lo, hi, received')
                                                ELSE UNCHANGED <<lastFrame, latest>>
      PROVE  Unwrapped!ProcessFrame(p, mrec, mbnd)
  <2>1. lo \in Nat /\ hi \in Nat
    BY <1>2
  <2>2. lo + Lead \in mbnd /\ hi + Lead \in mbnd
    BY DEF Shift
  <2>3. Unwrapped!NewestTwo(lo + Lead, hi + Lead, mbnd)
    BY <1>2, <1>3, <1>6, <2>1, <2>2 DEF NewestTwo, Unwrapped!NewestTwo, Shift
  <2>4. /\ missing' \subseteq Nat
        /\ IF <<lo + Lead, hi + Lead>> # MovedWindow
             THEN Unwrapped!OpenWindow(lo + Lead, hi + Lead, mrec, mbnd)
             ELSE Unwrapped!FillWindow(p, mrec, mbnd)
    BY <1>6, <2>1, WindowShifted DEF idx, rec, bnd
  <2>5. lo + Lead # MovedLast <=> lo # lastFrame
    BY <1>3, <2>1 DEF VideoInv, VideoTypeOK, AssemblyTypeOK, MovedLast
  <2>6. Shift(missing, Lead)' = {} <=> missing' = {}
    BY <1>3, <2>4 DEF Shift
  <2>7. IF lo + Lead # MovedLast /\ Shift(missing, Lead)' = {}
          THEN Unwrapped!Publish(lo + Lead, hi + Lead, ShiftArgs(received, Lead)')
          ELSE UNCHANGED <<MovedLast, Rebased(latest)>>
    <3>1. CASE lo # lastFrame /\ missing' = {}
      <4>1. Publish(lo, hi, received')
        BY <1>6, <3>1
      <4>2. /\ DOMAIN received' \subseteq Nat
            /\ \A i \in lo..(hi - 1) :
                 /\ i \in DOMAIN received'
                 /\ received'[i] # Empty => received'[i] = i + Lead
        BY <1>6, <2>1, <3>1, ClosedWindowInPlace DEF idx, rec, bnd
      <4>3. Unwrapped!Publish(lo + Lead, hi + Lead, ShiftArgs(received, Lead)')
        BY <1>3, <2>1, <4>1, <4>2, PublishShifted
      <4>4. QED
        BY <2>5, <2>6, <3>1, <4>3
    <3>2. CASE ~(lo # lastFrame /\ missing' = {})
      <4>1. UNCHANGED <<MovedLast, Rebased(latest)>>
        <5>1. UNCHANGED <<lastFrame, latest>>
          BY <1>6, <3>2
        <5>2. QED
          BY <1>3, <5>1 DEF MovedLast, Rebased
      <4>2. QED
        BY <2>5, <2>6, <3>2, <4>1
    <3>3. QED
      BY <3>1, <3>2
  <2>8. QED
    BY <2>2, <2>3, <2>4, <2>7 DEF Unwrapped!ProcessFrame
<1>7. QED
  BY <1>1, <1>5, <1>6 DEF ProcessFrame

----------------------------------------------------------------------------
\* One step of the path is a step of FrameAssembly, or one it does not see.
LEMMA StepRefines ==
  ASSUME VideoInv, [VideoNext]_videoVars
  PROVE  [Unwrapped!AssemblyNext]_(Unwrapped!assemblyState)
<1>1. CASE CameraSends
  BY <1>1, CameraSendsRefines DEF Unwrapped!AssemblyNext
<1>2. ASSUME NEW p \in DOMAIN stream, HandleDrw(p)
      PROVE  UNCHANGED Unwrapped!assemblyState
  BY <1>2, RestingAssembly DEF HandleDrw, HandleVideoDrw
<1>3. CASE ProcessVideoQueue
  <2> DEFINE e == Head(chunkQueue)[1]
             p == Head(chunkQueue)[2]
  <2>1. /\ chunkQueue # <<>> /\ UNCHANGED base
        /\ HandleChunk((p % IndexSpace) + IndexSpace * e, stream[p], Payload(p))
    BY <1>3 DEF ProcessVideoQueue, trackerVars
  <2>2. 1 \in DOMAIN chunkQueue /\ Head(chunkQueue) = chunkQueue[1]
    BY <2>1 DEF VideoInv, VideoTypeOK
  <2>3. p \in DOMAIN stream /\ e = Lap(p)[1] - base
    BY <2>2 DEF VideoInv, QueueIsSent, QueueInStep
  <2>4. e \in Nat /\ p \in Nat
    BY <2>2, EpochAssumption DEF VideoInv, VideoTypeOK
  <2> HIDE DEF e, p
  <2>5. (p % IndexSpace) + IndexSpace * e = p - Lead /\ p - Lead \in Nat
    BY <2>3, <2>4, FiledUnder DEF VideoInv
  <2>6. HandleChunk(p - Lead, stream[p], Payload(p))
    BY <2>1, <2>5
  <2>7. Unwrapped!HandleChunk(p, stream[p], Unwrapped!Payload(p))
    BY <2>1, <2>3, <2>5, <2>6, HandleRefines
  <2>8. QED
    BY <2>3, <2>7 DEF Unwrapped!AssemblyNext
<1>4. CASE StartVideo
  BY <1>4, RestingAssembly DEF StartVideo, trackerVars
<1>5. CASE StopVideo
  BY <1>5, StopVideoRefines DEF Unwrapped!AssemblyNext
<1>6. CASE UNCHANGED videoVars
  BY <1>6, RestingAssembly DEF videoVars, trackerVars
<1>7. QED
  BY <1>1, <1>2, <1>3, <1>4, <1>5, <1>6 DEF VideoNext

\* The camera adds a chunk: what is under way and stored is as it was.
LEMMA CameraSendsPreserves ==
  ASSUME VideoInv, CameraSends
  PROVE  /\ VideoTypeOK' /\ IsFiniteSet(boundaries)' /\ TrackerInv'
         /\ QueueInStep' /\ QueueIsSent' /\ StoredInPlace'
<1>1. PICK n \in 0..MaxChunks, k \in Kinds : Produce(n, k)
  BY DEF CameraSends
<1>2. /\ stream' \in [0..((n + 1) - 1) -> Kinds]
      /\ n + 1 \in 0..MaxChunks
      /\ DOMAIN stream \subseteq DOMAIN stream'
  BY <1>1, BoundAssumption DEF Produce, VideoInv, VideoTypeOK, AssemblyTypeOK
<1>3. /\ UNCHANGED <<received, boundaries, lastFrame, window, missing, latest>>
      /\ UNCHANGED <<epoch, lastIdx, top, base, seen, chunkQueue, requested>>
  BY <1>1 DEF CameraSends, Produce, assemblyVars, trackerVars
<1>4. VideoTypeOK'
  <2>1. AssemblyTypeOK'
    BY <1>2, <1>3 DEF VideoInv, VideoTypeOK, AssemblyTypeOK
  <2>2. TrackerTypeOK'
    BY <1>3 DEF VideoInv, VideoTypeOK, TrackerTypeOK
  <2>3. QED
    BY <1>3, <2>1, <2>2 DEF VideoInv, VideoTypeOK
<1>5. IsFiniteSet(boundaries)' /\ TrackerInv'
  BY <1>3 DEF VideoInv, TrackerInv, TrackerTypeOK, TracksTop
<1>6. QueueInStep' /\ QueueIsSent' /\ StoredInPlace'
  BY <1>2, <1>3 DEF VideoInv, QueueInStep, QueueIsSent, StoredInPlace
<1>7. QED
  BY <1>4, <1>5, <1>6

\* handle_drw: the chunk joins the queue with the epoch it was sent in.
LEMMA HandleDrwPreserves ==
  ASSUME VideoInv, NEW p \in DOMAIN stream, HandleDrw(p)
  PROVE  /\ VideoTypeOK' /\ IsFiniteSet(boundaries)' /\ TrackerInv'
         /\ QueueInStep' /\ QueueIsSent' /\ StoredInPlace'
<1> DEFINE e == GetDrwEpoch(p % IndexSpace)
<1>1. p \in Nat /\ p < MaxChunks
  BY BoundAssumption DEF VideoInv, VideoTypeOK, AssemblyTypeOK
<1>2. /\ Deliverable(Lap(p)) /\ HandleVideoDrw(Lap(p))
      /\ chunkQueue' = Append(chunkQueue, <<e, p>>)
      /\ UNCHANGED <<stream, received, boundaries, lastFrame, window, missing, latest>>
      /\ UNCHANGED <<base, requested>>
  BY DEF HandleDrw, HandleVideoDrw, assemblyState
<1>3. Lap(p) \in Positions /\ Lap(p)[2] = p % IndexSpace
  BY <1>1, LapOfPosition
<1>4. TrackerInv'
  BY <1>2, <1>3, HandlingKeepsTrack DEF VideoInv
<1>5. e = Lap(p)[1] - base
  BY <1>2, <1>3, EpochOfDeliverable DEF VideoInv
<1>6. e \in 0..MaxEpoch
  BY <1>2, <1>3, <1>5, EpochAssumption
     DEF VideoInv, TrackerInv, TrackerTypeOK, Deliverable, Positions, Indices
<1> HIDE DEF e
<1>7. /\ chunkQueue \in Seq((0..MaxEpoch) \X Nat)
      /\ <<e, p>> \in (0..MaxEpoch) \X Nat
  BY <1>1, <1>6 DEF VideoInv, VideoTypeOK
<1>8. /\ chunkQueue' \in Seq((0..MaxEpoch) \X Nat)
      /\ \A q \in DOMAIN chunkQueue' :
           \/ q \in DOMAIN chunkQueue /\ chunkQueue'[q] = chunkQueue[q]
           \/ chunkQueue'[q] = <<e, p>>
  BY <1>2, <1>7, AppendProperties
<1>9. VideoTypeOK'
  BY <1>2, <1>4, <1>8 DEF VideoInv, VideoTypeOK, AssemblyTypeOK, TrackerInv
<1>10. QueueInStep' /\ QueueIsSent'
  BY <1>2, <1>5, <1>8 DEF VideoInv, QueueInStep, QueueIsSent, Lap
<1>11. IsFiniteSet(boundaries)' /\ StoredInPlace'
  BY <1>2 DEF VideoInv, StoredInPlace
<1>12. QED
  BY <1>4, <1>9, <1>10, <1>11

\* process_video_queue: the chunk is stored where the epoch it carries says.
LEMMA ProcessPreserves ==
  ASSUME VideoInv, ProcessVideoQueue
  PROVE  /\ VideoTypeOK' /\ IsFiniteSet(boundaries)' /\ TrackerInv'
         /\ QueueInStep' /\ QueueIsSent' /\ StoredInPlace'
<1> DEFINE e == Head(chunkQueue)[1]
           p == Head(chunkQueue)[2]
           idx == (p % IndexSpace) + IndexSpace * e
<1>1. /\ chunkQueue # <<>> /\ chunkQueue' = Tail(chunkQueue)
      /\ HandleChunk(idx, stream[p], Payload(p))
      /\ UNCHANGED <<epoch, lastIdx, top, base, seen, requested>>
  BY DEF ProcessVideoQueue, trackerVars
<1>2. /\ 1 \in DOMAIN chunkQueue /\ Head(chunkQueue) = chunkQueue[1]
      /\ chunkQueue' \in Seq((0..MaxEpoch) \X Nat)
      /\ \A q \in DOMAIN chunkQueue' :
           q + 1 \in DOMAIN chunkQueue /\ chunkQueue'[q] = chunkQueue[q + 1]
  BY <1>1, HeadTailProperties DEF VideoInv, VideoTypeOK
<1>3. p \in DOMAIN stream /\ e = Lap(p)[1] - base /\ e \in Nat /\ p \in Nat
  BY <1>2, EpochAssumption DEF VideoInv, QueueIsSent, QueueInStep, VideoTypeOK
<1> HIDE DEF e, p
<1>4. idx = p - Lead /\ idx \in Nat
  BY <1>3, FiledUnder DEF VideoInv
<1> HIDE DEF idx
<1>5. Payload(p) \in Nat \cup {Empty}
  BY <1>3 DEF Payload
<1>6. /\ AssemblyTypeOK'
      /\ IsFiniteSet(boundaries)'
      /\ \A i \in DOMAIN received' :
           \/ i \in DOMAIN received /\ received'[i] = received[i]
           \/ i = idx /\ received'[i] = Payload(p)
  BY <1>1, <1>4, <1>5, HandleKeepsShape DEF VideoInv, VideoTypeOK
<1>7. StoredInPlace'
  <2>1. \A i \in DOMAIN received : received[i] # Empty => received[i] = i + Lead
    BY DEF VideoInv, StoredInPlace, Lead
  <2>2. Payload(p) # Empty => Payload(p) = idx + Lead
    <3>1. Lead \in Nat
      BY LeadIsNatural DEF VideoInv
    <3>2. QED
      BY <1>3, <1>4, <3>1 DEF Payload
  <2>3. \A i \in DOMAIN received' : received'[i] # Empty => received'[i] = i + Lead
    BY <1>6, <2>1, <2>2
  <2>4. Lead = IndexSpace * base /\ base' = base
    BY <1>1 DEF Lead
  <2>5. QED
    BY <2>3, <2>4 DEF StoredInPlace
<1>8. TrackerInv' /\ UNCHANGED stream
  BY <1>1 DEF VideoInv, TrackerInv, TrackerTypeOK, TracksTop, HandleChunk
<1>9. VideoTypeOK'
  BY <1>1, <1>2, <1>6, <1>8 DEF VideoInv, VideoTypeOK, TrackerInv
<1>10. QueueInStep' /\ QueueIsSent'
  BY <1>1, <1>2, <1>8 DEF VideoInv, QueueInStep, QueueIsSent, Lap
<1>11. QED
  BY <1>6, <1>7, <1>8, <1>9, <1>10

\* stop_video: nothing is left that was counted from before.
LEMMA StopVideoPreserves ==
  ASSUME VideoInv, StopVideo
  PROVE  /\ VideoTypeOK' /\ IsFiniteSet(boundaries)' /\ TrackerInv'
         /\ QueueInStep' /\ QueueIsSent' /\ StoredInPlace'
<1>1. ResetAssembly /\ ForgetEpoch /\ chunkQueue' = <<>> /\ requested' = FALSE
  BY DEF StopVideo
<1>2. TrackerInv'
  BY <1>1, ForgettingKeepsTrack DEF VideoInv
<1>3. AssemblyTypeOK'
  BY <1>1 DEF VideoInv, VideoTypeOK, AssemblyTypeOK, ResetAssembly, NoChunks
<1>4. VideoTypeOK'
  <2>1. TrackerTypeOK'
    BY <1>2 DEF TrackerInv
  <2>2. chunkQueue' \in Seq((0..MaxEpoch) \X Nat) /\ requested' \in BOOLEAN
    BY <1>1, EmptySeq
  <2>3. QED
    BY <1>3, <2>1, <2>2 DEF VideoTypeOK
<1>5. IsFiniteSet(boundaries)'
  BY <1>1, FS_EmptySet DEF ResetAssembly
<1>6. QueueInStep' /\ QueueIsSent' /\ StoredInPlace'
  BY <1>1 DEF QueueInStep, QueueIsSent, StoredInPlace, ResetAssembly, NoChunks
<1>7. QED
  BY <1>2, <1>4, <1>5, <1>6

\* The inductive invariant holds in every behaviour of the whole path.
THEOREM VideoInvariant == VideoSpec => []VideoInv
<1>1. VideoInit => VideoInv
  <2> SUFFICES ASSUME VideoInit PROVE VideoInv
    OBVIOUS
  <2>1. AssemblyInit /\ TrackerInit /\ chunkQueue = <<>> /\ requested = FALSE
    BY DEF VideoInit
  <2>2. TrackerInv
    BY <2>1, InitTracks
  <2>3. Unwrapped!AssemblyInit
    BY <2>1 DEF AssemblyInit, Unwrapped!AssemblyInit, NoChunks, Unwrapped!NoChunks,
       MovedLast, MovedWindow, Shift, ShiftArgs, Rebased
  <2>4. Unwrapped!AssemblyInv
    BY <2>3, AssumptionsCarryOver, Unwrapped!InitEstablishes
  <2>5. AssemblyTypeOK
    <3>1. stream \in [0..(0 - 1) -> Kinds] /\ 0 \in 0..MaxChunks
      BY <2>1, BoundAssumption DEF AssemblyInit, NoChunks
    <3>2. QED
      BY <2>1, <3>1 DEF AssemblyInit, AssemblyTypeOK, NoChunks
  <2>6. IsFiniteSet(boundaries)
    BY <2>1, FS_EmptySet DEF AssemblyInit
  <2>7. QueueInStep /\ QueueIsSent /\ StoredInPlace
    BY <2>1 DEF QueueInStep, QueueIsSent, StoredInPlace, AssemblyInit, NoChunks
  <2>8. VideoTypeOK
    <3>1. TrackerTypeOK
      BY <2>2 DEF TrackerInv
    <3>2. chunkQueue \in Seq((0..MaxEpoch) \X Nat) /\ requested \in BOOLEAN
      BY <2>1, EmptySeq
    <3>3. QED
      BY <2>5, <3>1, <3>2 DEF VideoTypeOK
  <2>9. QED
    BY <2>2, <2>4, <2>6, <2>7, <2>8 DEF VideoInv
<1>2. VideoInv /\ [VideoNext]_videoVars => VideoInv'
  <2> SUFFICES ASSUME VideoInv, [VideoNext]_videoVars PROVE VideoInv'
    OBVIOUS
  <2>1. Unwrapped!AssemblyInv'
    <3>1. [Unwrapped!AssemblyNext]_(Unwrapped!assemblyState)
      BY StepRefines
    <3>2. QED
      BY <3>1, AssumptionsCarryOver, Unwrapped!StepPreserves DEF VideoInv
  <2>2. /\ VideoTypeOK' /\ IsFiniteSet(boundaries)' /\ TrackerInv'
        /\ QueueInStep' /\ QueueIsSent' /\ StoredInPlace'
    <3>1. CASE CameraSends
      BY <3>1, CameraSendsPreserves
    <3>2. ASSUME NEW p \in DOMAIN stream, HandleDrw(p)
          PROVE  /\ VideoTypeOK' /\ IsFiniteSet(boundaries)' /\ TrackerInv'
                 /\ QueueInStep' /\ QueueIsSent' /\ StoredInPlace'
      BY <3>2, HandleDrwPreserves
    <3>3. CASE ProcessVideoQueue
      BY <3>3, ProcessPreserves
    <3>4. CASE StopVideo
      BY <3>4, StopVideoPreserves
    <3>5. CASE StartVideo \/ UNCHANGED videoVars
      <4>1. /\ UNCHANGED <<assemblyState, trackerVars, chunkQueue>>
            /\ requested' \in BOOLEAN
        BY <3>5 DEF StartVideo, videoVars, VideoInv, VideoTypeOK
      <4>2. UNCHANGED <<stream, received, boundaries, lastFrame, window, missing, latest,
                        epoch, lastIdx, top, base, seen, chunkQueue>>
        BY <4>1 DEF assemblyState, trackerVars
      <4>3. AssemblyTypeOK' /\ TrackerTypeOK'
        BY <4>2 DEF VideoInv, VideoTypeOK, AssemblyTypeOK, TrackerTypeOK
      <4>4. VideoTypeOK'
        BY <4>1, <4>2, <4>3 DEF VideoInv, VideoTypeOK
      <4>5. QED
        BY <4>2, <4>3, <4>4 DEF VideoInv, TrackerInv, TracksTop, QueueInStep, QueueIsSent,
           StoredInPlace
    <3>6. QED
      BY <3>1, <3>2, <3>3, <3>4, <3>5 DEF VideoNext
  <2>3. QED
    BY <2>1, <2>2 DEF VideoInv
<1>3. QED
  BY <1>1, <1>2, PTL DEF VideoSpec

\* The variables keep their shape.
THEOREM VideoTypeCorrect == VideoSpec => []VideoTypeOK
BY VideoInvariant, PTL DEF VideoInv

\* Whatever waits in video_chunk_queue has the epoch it was sent in: no stop
\* leaves a chunk behind that is counted from before it.
THEOREM WaitingChunksAreInStep == VideoSpec => []QueueInStep
BY VideoInvariant, PTL DEF VideoInv

\* No chunk is stored a whole 0x10000 from its place in the stream, however
\* the network treats it and whenever streaming is stopped.
THEOREM ChunksAreStoredInPlace == VideoSpec => []StoredInPlace
BY VideoInvariant, PTL DEF VideoInv

\* Every chunk of the path gets the epoch it was sent in.
THEOREM EpochIsExactOnThePath == VideoSpec => EpochExact
<1>1. VideoInv /\ [VideoNext]_videoVars
        => [seen' # seen => seen'.epoch = seen'.pos[1] - base]_trackerVars
  <2> SUFFICES ASSUME VideoInv, [VideoNext]_videoVars, seen' # seen
               PROVE  seen'.epoch = seen'.pos[1] - base
    OBVIOUS
  <2>1. PICK p \in DOMAIN stream : HandleDrw(p)
    BY DEF VideoNext, CameraSends, ProcessVideoQueue, StartVideo, StopVideo, ForgetEpoch,
       trackerVars, videoVars
  <2>2. p \in Nat /\ p < MaxChunks
    BY BoundAssumption DEF VideoInv, VideoTypeOK, AssemblyTypeOK
  <2>3. Lap(p) \in Positions /\ Deliverable(Lap(p)) /\ HandleVideoDrw(Lap(p))
    BY <2>1, <2>2, LapOfPosition DEF HandleDrw
  <2>4. GetDrwEpoch(Lap(p)[2]) = Lap(p)[1] - base
    BY <2>3, EpochOfDeliverable DEF VideoInv
  <2>5. seen' = [pos |-> Lap(p), epoch |-> GetDrwEpoch(Lap(p)[2])]
    BY <2>3 DEF HandleVideoDrw
  <2>6. QED
    BY <2>4, <2>5
<1>2. QED
  BY <1>1, VideoInvariant, PTL DEF VideoSpec, EpochExact

\* The whole path implements FrameAssembly: seen in positions of the stream,
\* index wraps, the queue and the stops in between make no difference.
THEOREM PathImplementsAssembly == VideoSpec => Unwrapped!AssemblySpec
<1>1. VideoInit => Unwrapped!AssemblyInit
  BY DEF VideoInit, AssemblyInit, Unwrapped!AssemblyInit, NoChunks, Unwrapped!NoChunks,
     MovedLast, MovedWindow, Shift, ShiftArgs, Rebased
<1>2. VideoInv /\ [VideoNext]_videoVars
        => [Unwrapped!AssemblyNext]_(Unwrapped!assemblyState)
  BY StepRefines
<1>3. QED
  BY <1>1, <1>2, VideoInvariant, PTL DEF VideoSpec, Unwrapped!AssemblySpec

\* The promise is kept end to end: whole frames of the camera's stream, in its
\* order until a stop, over every wrap of the index and any number of stops.
THEOREM ViewersSeeFrames == VideoSpec => ViewerSeesFrames
<1>1. Unwrapped!AssemblySpec => Unwrapped!PublishesFrames
  BY AssumptionsCarryOver, Unwrapped!AssemblyImplementsFrames
<1>2. Unwrapped!Frames!Init => Viewer!Init
  BY DEF Unwrapped!Frames!Init, Viewer!Init, MovedLast, Lead
<1>3. [Unwrapped!Frames!Next]_(Unwrapped!Frames!frameVars) => [Viewer!Next]_(Viewer!frameVars)
  BY DEF Unwrapped!Frames!Next, Viewer!Next, Unwrapped!Frames!frameVars, Viewer!frameVars,
     Unwrapped!Frames!Grow, Viewer!Grow, Unwrapped!Frames!Show, Viewer!Show,
     Unwrapped!Frames!Reset, Viewer!Reset, Unwrapped!Frames!IsFrame, Viewer!IsFrame,
     Unwrapped!Frames!Frame, Viewer!Frame, Unwrapped!Frames!Payload, Viewer!Payload,
     Unwrapped!Boundary, Boundary, Unwrapped!Carries, Carries, MovedLast, Lead
<1>4. QED
  BY <1>1, <1>2, <1>3, PathImplementsAssembly, PTL
     DEF Unwrapped!PublishesFrames, ViewerSeesFrames, Unwrapped!Frames!Spec, Viewer!Spec

\* No frame that is complete waits, on the whole path either: wraps and stops
\* never leave a window without gaps unpublished.
THEOREM NoCompleteWindowWaitsOnThePath == VideoSpec => []CompleteIsPublished
<1>1. VideoInv => CompleteIsPublished
  <2> SUFFICES ASSUME VideoInv, window # NoWindow, missing = {}
               PROVE  lastFrame = window[1]
    BY DEF CompleteIsPublished
  <2>1. Lead \in Nat
    BY LeadIsNatural DEF VideoInv
  <2>2. window \in Nat \X Nat /\ lastFrame \in Nat \cup {-1}
    BY DEF VideoInv, VideoTypeOK, AssemblyTypeOK
  <2>3. MovedWindow # NoWindow /\ MovedWindow[1] = window[1] + Lead
    BY <2>1, <2>2, NoWindowAssumption DEF MovedWindow
  <2>4. Shift(missing, Lead) = {}
    BY DEF Shift
  <2>5. MovedLast = window[1] + Lead
    BY <2>3, <2>4 DEF VideoInv, Unwrapped!AssemblyInv, Unwrapped!CompleteIsPublished
  <2>6. QED
    BY <2>1, <2>2, <2>5 DEF MovedLast
<1>2. QED
  BY <1>1, VideoInvariant, PTL
=============================================================================
