---------------------------- MODULE VideoStream ----------------------------
(***************************************************************************)
(* One session's video path end to end: the camera's stream, a network     *)
(* that loses, repeats and reorders chunks, the packet task that unwraps   *)
(* the DRW index (handle_drw), the queue between the tasks, the video task *)
(* that assembles frames, and start_video / stop_video called in between   *)
(* by whoever watches.                                                     *)
(*                                                                         *)
(* A chunk's position in stream counts from the camera's index 0; its wire *)
(* index is the position modulo IndexSpace.  The camera numbers on across  *)
(* stop and start, as binary_camera.py does.                               *)
(***************************************************************************)
EXTENDS FrameAssembly, EpochTracker, Sequences

CONSTANT MaxQueue \* bound on the chunks waiting for the video task

ASSUME QueueAssumption == MaxQueue \in Nat

\* MaxEpoch takes in every lap of the longest stream.
ASSUME LapsAssumption == MaxChunks <= IndexSpace * (MaxEpoch + 1)

VARIABLES chunkQueue, \* video_chunk_queue: <<packet epoch, stream position>>
          requested   \* is_video_requested

videoVars == <<assemblyState, trackerVars, chunkQueue, requested>>

Lap(p) == <<p \div IndexSpace, p % IndexSpace>>

VideoInit ==
  /\ AssemblyInit
  /\ TrackerInit
  /\ chunkQueue = <<>>
  /\ requested = FALSE

----------------------------------------------------------------------------
CameraSends ==
  /\ \E n \in 0..MaxChunks, k \in Kinds : Produce(n, k)
  /\ UNCHANGED <<trackerVars, chunkQueue, requested>>

\* handle_drw for a video chunk: nothing asks whether video is requested.
HandleDrw(p) ==
  /\ Deliverable(Lap(p))
  /\ Len(chunkQueue) < MaxQueue
  /\ HandleVideoDrw(Lap(p))
  /\ chunkQueue' = Append(chunkQueue, <<GetDrwEpoch(p % IndexSpace), p>>)
  /\ UNCHANGED <<assemblyState, requested>>

\* Mutant: the epoch at the time of assembly is used, not that of arrival.
ProcessWithCurrentEpoch ==
  /\ chunkQueue # <<>>
  /\ LET p == Head(chunkQueue)[2]
     IN  HandleChunk((p % IndexSpace) + IndexSpace * epoch, stream[p], Payload(p))
  /\ chunkQueue' = Tail(chunkQueue)
  /\ UNCHANGED <<trackerVars, requested>>

\* One round of process_video_queue.
ProcessVideoQueue ==
  /\ chunkQueue # <<>>
  /\ LET pktEpoch == Head(chunkQueue)[1]
         p == Head(chunkQueue)[2]
     IN  HandleChunk((p % IndexSpace) + IndexSpace * pktEpoch, stream[p], Payload(p))
  /\ chunkQueue' = Tail(chunkQueue)
  /\ UNCHANGED <<trackerVars, requested>>

StartVideo ==
  /\ ~requested
  /\ requested' = TRUE
  /\ UNCHANGED <<assemblyState, trackerVars, chunkQueue>>

\* Mutant: what waits for the video task is left in the queue.
StopWithoutDraining ==
  /\ requested
  /\ requested' = FALSE
  /\ ResetAssembly
  /\ ForgetEpoch
  /\ UNCHANGED chunkQueue

StopVideo ==
  /\ requested
  /\ requested' = FALSE
  /\ ResetAssembly
  /\ ForgetEpoch
  /\ chunkQueue' = <<>>

VideoNext ==
  \/ CameraSends
  \/ \E p \in DOMAIN stream : HandleDrw(p)
  \/ ProcessVideoQueue
  \/ StartVideo
  \/ StopVideo

VideoSpec == VideoInit /\ [][VideoNext]_videoVars

----------------------------------------------------------------------------
VideoTypeOK ==
  /\ AssemblyTypeOK
  /\ TrackerTypeOK
  /\ chunkQueue \in Seq((0..MaxEpoch) \X Nat)
  /\ requested \in BOOLEAN

\* Whatever waits in the queue has the epoch it was sent in, in laps since the
\* last stop: a stop between the two tasks leaves no chunk of the old count.
QueueInStep ==
  \A q \in DOMAIN chunkQueue :
    chunkQueue[q][1] = Lap(chunkQueue[q][2])[1] - base

\* Each stored chunk lies where its position says, none a lap away.
StoredInPlace ==
  \A i \in DOMAIN received :
    received[i] # Empty => received[i] = i + IndexSpace * base

\* The frame a viewer sees, in the stream's own positions.
Rebased(f) ==
  IF f = NoFrame THEN f
  ELSE LET i == CHOOSE j \in DOMAIN f.data : f.data[j] # Empty
           shift == f.data[i] - i
       IN  [idx |-> f.idx + shift,
            data |-> [p \in {j + shift : j \in DOMAIN f.data} |-> f.data[p - shift]]]

\* The whole path keeps the promise of FrameStream, over wraps of the index
\* and stops: whole frames of the camera's stream, in order until a stop.
Viewer == INSTANCE FrameStream
            WITH shown <- Rebased(latest),
                 floor <- IF lastFrame = -1 THEN -1 ELSE lastFrame + IndexSpace * base
ViewerSeesFrames == Viewer!Spec
=============================================================================
