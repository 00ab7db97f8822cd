---------------------------- MODULE FrameStream ----------------------------
(***************************************************************************)
(* What the video half of a session promises to whoever looks at           *)
(* frame_buffer.latest_frame: every frame shown is one whole frame of the  *)
(* camera's stream, and frames are shown in stream order, until streaming  *)
(* is stopped and the order starts afresh.                                 *)
(***************************************************************************)
EXTENDS Integers

CONSTANTS Kinds,     \* what a chunk of the stream can be
          Boundary,  \* the kinds that open a new frame
          Carries,   \* the kinds whose payload becomes part of a frame
          MaxChunks, \* bound on the length of the stream
          Empty,     \* the payload of a chunk that carries nothing
          NoFrame    \* nothing published yet

VARIABLES stream,  \* the chunks the camera has produced, by position from 0
          shown,   \* the frame a viewer sees
          floor    \* start of the newest frame gone by since the last reset

frameVars == <<stream, shown, floor>>

Payload(p) == IF stream[p] \in Carries THEN p ELSE Empty

\* [a, b) is one whole frame: it starts at a boundary and ends at the next.
IsFrame(a, b) ==
  /\ {a, b} \subseteq DOMAIN stream
  /\ a < b
  /\ \A p \in a..b : stream[p] \in Boundary <=> p \in {a, b}

Frame(a, b) == [idx |-> a, data |-> [p \in a..(b - 1) |-> Payload(p)]]

Init == /\ stream = [p \in {} |-> Empty]
        /\ shown = NoFrame
        /\ floor = -1

\* The camera produces one more chunk.
Grow(n, k) ==
  /\ n < MaxChunks
  /\ DOMAIN stream = 0..(n - 1)
  /\ stream' = [p \in 0..n |-> IF p = n THEN k ELSE stream[p]]
  /\ UNCHANGED <<shown, floor>>

\* A frame later than all since the reset is shown; one without payload is
\* passed over in silence.
Show(a, b) ==
  /\ IsFrame(a, b)
  /\ a > floor
  /\ floor' = a
  /\ shown' = IF \E p \in a..(b - 1) : stream[p] \in Carries THEN Frame(a, b) ELSE shown
  /\ UNCHANGED stream

Reset == floor' = -1 /\ UNCHANGED <<stream, shown>>

Next == \/ \E n \in 0..MaxChunks, k \in Kinds : Grow(n, k)
        \/ \E a, b \in DOMAIN stream : Show(a, b)
        \/ Reset

Spec == Init /\ [][Next]_frameVars
=============================================================================
