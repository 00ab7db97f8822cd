--------------------------- MODULE FrameAssembly ---------------------------
(***************************************************************************)
(* VideoQueueMixin of src/aiopppp/session.py: chunks of the camera's video *)
(* stream, numbered by their unwrapped DRW index, are put together into    *)
(* frames.  A frame runs from one stream header to the next, and the only  *)
(* pair of headers ever looked at is the two newest.                       *)
(*                                                                         *)
(* The chunks handled are any chunks of the stream produced so far, in any *)
(* order, any number of times: loss, duplication and reordering without a  *)
(* bound.  A coroutine without a suspension point runs to its end, so one  *)
(* chunk is handled in one step (publish() takes a lock that nobody holds  *)
(* across an await).                                                       *)
(***************************************************************************)
EXTENDS Integers, FiniteSets

CONSTANTS Kinds,     \* the kinds of chunks the camera may produce here
          MaxChunks, \* bound on the length of the stream
          Empty,     \* payload of a chunk that adds nothing to a frame
          NoFrame,   \* latest_frame before the first publish: no place in the stream
          NoWindow   \* _frame_window before two boundaries are known

\* head: stream header and data; bare: a stream header and nothing else;
\* body: data; audio: a header whose type says audio (muxed by FTYC cameras).
AllKinds == {"head", "bare", "body", "audio"}
Boundary == {"head", "bare"}
Carries == {"head", "body"}

ASSUME KindsAssumption == Kinds \subseteq AllKinds
ASSUME BoundAssumption == MaxChunks \in Nat
ASSUME EmptyAssumption == Empty \notin Nat
ASSUME NoFrameAssumption == NoFrame.idx \notin Nat
ASSUME NoWindowAssumption == NoWindow \notin Int \X Int

VARIABLES stream,     \* what the camera has produced: kind by position
          received,   \* video_received: payload by index
          boundaries, \* video_boundaries
          lastFrame,  \* last_video_frame
          window,     \* _frame_window
          missing,    \* _frame_missing
          latest      \* frame_buffer.latest_frame

assemblyVars == <<received, boundaries, lastFrame, window, missing>>
assemblyState == <<stream, received, boundaries, lastFrame, window, missing, latest>>

NoChunks == [p \in {} |-> Empty]

Payload(p) == IF stream[p] \in Carries THEN p ELSE Empty

AssemblyInit ==
  /\ stream = NoChunks
  /\ received = NoChunks
  /\ boundaries = {}
  /\ lastFrame = -1
  /\ window = NoWindow
  /\ missing = {}
  /\ latest = NoFrame

----------------------------------------------------------------------------
\* The camera.

Produce(n, k) ==
  /\ n < MaxChunks
  /\ DOMAIN stream = 0..(n - 1)
  /\ stream' = [p \in 0..n |-> IF p = n THEN k ELSE stream[p]]
  /\ UNCHANGED <<assemblyVars, latest>>

----------------------------------------------------------------------------
\* process_video_frame, with rec and bnd the chunks and boundaries after the
\* chunk at index idx was stored.

NewestTwo(lo, hi, bnd) ==
  /\ {lo, hi} \subseteq bnd
  /\ lo < hi
  /\ \A b \in bnd : b = hi \/ b <= lo

\* Mutant: a frame without data is published too.
PublishAll(lo, hi, rec) ==
  /\ lastFrame' = lo
  /\ latest' = [idx |-> lo, data |-> [i \in lo..(hi - 1) |-> rec[i]]]

Publish(lo, hi, rec) ==
  /\ lastFrame' = lo
  /\ latest' = IF \E i \in lo..(hi - 1) : rec[i] # Empty
               THEN [idx |-> lo, data |-> [i \in lo..(hi - 1) |-> rec[i]]]
               ELSE latest

\* A new pair of boundaries: rescan for what is missing, forget what is older.
OpenWindow(lo, hi, rec, bnd) ==
  /\ window' = <<lo, hi>>
  /\ missing' = {i \in lo..(hi - 1) : i \notin DOMAIN rec}
  /\ received' = [i \in {j \in DOMAIN rec : j >= lo} |-> rec[i]]
  /\ boundaries' = {b \in bnd : b >= lo}

\* Mutant: a chunk that closes a gap is not taken off the missing ones.
FillNothing(idx, rec, bnd) ==
  /\ received' = rec
  /\ boundaries' = bnd
  /\ UNCHANGED <<window, missing>>

\* The pair under assembly is still the newest: one gap may be closed.
FillWindow(idx, rec, bnd) ==
  /\ missing' = missing \ {idx}
  /\ received' = rec
  /\ boundaries' = bnd
  /\ UNCHANGED window

\* Mutant: only a chunk that opens a window has it looked at.
ProcessOnOpen(idx, rec, bnd) ==
  \/ /\ Cardinality(bnd) <= 1
     /\ received' = rec
     /\ boundaries' = bnd
     /\ UNCHANGED <<lastFrame, window, missing, latest>>
  \/ \E lo, hi \in bnd :
       /\ NewestTwo(lo, hi, bnd)
       /\ IF <<lo, hi>> # window THEN OpenWindow(lo, hi, rec, bnd)
                                 ELSE FillWindow(idx, rec, bnd)
       /\ IF window' # window /\ missing' = {} THEN Publish(lo, hi, received')
                                               ELSE UNCHANGED <<lastFrame, latest>>

ProcessFrame(idx, rec, bnd) ==
  \/ /\ Cardinality(bnd) <= 1
     /\ received' = rec
     /\ boundaries' = bnd
     /\ UNCHANGED <<lastFrame, window, missing, latest>>
  \/ \E lo, hi \in bnd :
       /\ NewestTwo(lo, hi, bnd)
       /\ IF <<lo, hi>> # window THEN OpenWindow(lo, hi, rec, bnd)
                                 ELSE FillWindow(idx, rec, bnd)
       /\ IF lo # lastFrame /\ missing' = {} THEN Publish(lo, hi, received')
                                             ELSE UNCHANGED <<lastFrame, latest>>

\* Mutant: a muxed audio header is taken for a frame boundary.
HandleAudioAsVideo(idx, kind, data) ==
  LET rec == [i \in DOMAIN received \cup {idx} |-> IF i = idx THEN data ELSE received[i]]
      bnd == IF kind # "body" THEN boundaries \cup {idx} ELSE boundaries
  IN  /\ ProcessFrame(idx, rec, bnd)
      /\ UNCHANGED stream

\* handle_incoming_video_packet: a chunk of the given kind arrives as index
\* idx.  A muxed audio chunk takes its index with nothing in it, so that the
\* frame around it can complete.
HandleChunk(idx, kind, data) ==
  LET rec == [i \in DOMAIN received \cup {idx} |-> IF i = idx THEN data ELSE received[i]]
      bnd == IF kind \in Boundary THEN boundaries \cup {idx} ELSE boundaries
  IN  /\ ProcessFrame(idx, rec, bnd)
      /\ UNCHANGED stream

\* Mutant: the window outlives its boundaries.
ResetAllButWindow ==
  /\ received' = NoChunks
  /\ boundaries' = {}
  /\ lastFrame' = -1
  /\ UNCHANGED <<stream, latest, window, missing>>

\* The part of stop_video that resets the assembly.
ResetAssembly ==
  /\ received' = NoChunks
  /\ boundaries' = {}
  /\ lastFrame' = -1
  /\ window' = NoWindow
  /\ missing' = {}
  /\ UNCHANGED <<stream, latest>>

AssemblyNext ==
  \/ \E n \in 0..MaxChunks, k \in Kinds : Produce(n, k)
  \/ \E p \in DOMAIN stream : HandleChunk(p, stream[p], Payload(p))
  \/ ResetAssembly

AssemblySpec == AssemblyInit /\ [][AssemblyNext]_assemblyState

----------------------------------------------------------------------------
\* Every variable keeps the shape the code relies on.
AssemblyTypeOK ==
  /\ \E n \in 0..MaxChunks : stream \in [0..(n - 1) -> Kinds]
  /\ DOMAIN received \subseteq Nat
  /\ \A i \in DOMAIN received : received[i] \in Nat \cup {Empty}
  /\ boundaries \subseteq Nat
  /\ lastFrame \in Nat \cup {-1}
  /\ window \in (Nat \X Nat) \cup {NoWindow}
  /\ missing \subseteq Nat
  /\ latest = NoFrame \/ latest.idx \in Nat

\* The window under assembly is always the two newest boundaries, and there is
\* none exactly while fewer than two are known (the early return and the
\* tuple comparison of process_video_frame).
WindowNewest ==
  IF window = NoWindow THEN \A b, c \in boundaries : b = c
                       ELSE NewestTwo(window[1], window[2], boundaries)

\* The gap set kept up chunk by chunk is what a rescan of video_received
\* would find: the claim by which the O(frame) rescan was dropped.
MissingExact ==
  window # NoWindow =>
    missing = {i \in window[1]..(window[2] - 1) : i \notin DOMAIN received}

\* No complete window waits: once all chunks between the two newest boundaries
\* are in, their frame has been dealt with, whichever chunk came last.
CompleteIsPublished ==
  window # NoWindow /\ missing = {} => lastFrame = window[1]

\* What is shown is one whole frame of the camera's stream with every chunk in
\* its place and the muxed audio left out.
LatestIsFrame ==
  latest # NoFrame =>
    \E a, b \in DOMAIN stream :
      /\ a < b
      /\ \A p \in a..b : stream[p] \in Boundary <=> p \in {a, b}
      /\ latest = [idx |-> a, data |-> [p \in a..(b - 1) |-> Payload(p)]]

\* The promise: whole frames, in stream order, each at most once until a reset.
Frames == INSTANCE FrameStream WITH shown <- latest, floor <- lastFrame
PublishesFrames == Frames!Spec
=============================================================================
