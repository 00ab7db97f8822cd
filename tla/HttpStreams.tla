----------------------------- MODULE HttpStreams -----------------------------
(***************************************************************************)
(* The streams of src/aiopppp/http_server.py on top of the command line    *)
(* program: stream_audio() and stream_video(), the commands that start and *)
(* stop a stream by hand, and what they use of a binary session: the       *)
(* buffer its readers wait at, start_audio(), stop_audio(), start_video(), *)
(* stop_video().                                                           *)
(*                                                                         *)
(* A request captures the session its device has when it comes and keeps   *)
(* it, while listeners are counted by device.  The handler of a client     *)
(* that left learns of it when it writes, so one that waits at the buffer  *)
(* of a lost session stays for ever.                                       *)
(***************************************************************************)
EXTENDS Program, Integers, FiniteSets

CONSTANT Clients \* requests for /{dev_id}/audio or /{dev_id}/v: a bound

ASSUME ClientsAssumption == IsFiniteSet(Clients)

VARIABLES count,  \* _AUDIO_LISTENERS; 0 stands for no entry
          audio,  \* is_audio_requested of each session
          video,  \* is_video_requested of each session
          kind,   \* what each client has asked for
          at,     \* where the handler of each client waits
          on,     \* the session it has captured
          byHand  \* history: sessions a stream of which a command touched

clientVars == <<kind, at, on>>
streamVars == <<count, audio, video, clientVars, byHand>>
vars == <<programVars, streamVars>>

Listeners == {c \in Clients : kind[c] = "audio"}
Viewers == {c \in Clients : kind[c] = "video"}

StreamsInit ==
  /\ ProgramInit
  /\ count = [d \in Devices |-> 0]
  /\ audio = [s \in Sessions |-> FALSE]
  /\ video = [s \in Sessions |-> FALSE]
  /\ kind = [c \in Clients |-> None]
  /\ at = [c \in Clients |-> "idle"]
  /\ on = [c \in Clients |-> None]
  /\ byHand = {}

\* The clients go when the web server does, or amain().
Serving == amain # "ended" /\ "webserver" \in helpers

\* A send needs a transport, and re-raises what ended a task of the session.
Sends(s) == state[s] \in {"starting", "ready"} /\ s \notin done

\* device_is_ready: set by setup_device() and by stop().
Usable(s) == state[s] \in {"ready", "stopped"}

\* The client's handler goes on from one point to the next.
Goes(c, from, to) == at[c] = from /\ at' = [at EXCEPT ![c] = to]

\* _get_session; then the response is prepared, which may take a while.
Asks(c, k, d) ==
  /\ Serving /\ sessions[d] # None
  /\ kind' = [kind EXCEPT ![c] = k]
  /\ Goes(c, "idle", "preparing")
  /\ on' = [on EXCEPT ![c] = sessions[d]]
  /\ UNCHANGED <<programVars, count, audio, video, byHand>>

----------------------------------------------------------------------------
\* stream_audio.

\* start_audio() of s for the listener l; what it raises ends the handler with
\* the listener counted.
StartAudio(l, s) ==
  \/ /\ audio[s] \/ Sends(s)
     /\ audio' = [audio EXCEPT ![s] = TRUE]
     /\ Goes(l, "preparing", "writing")
  \/ /\ ~audio[s] /\ ~Sends(s)
     /\ Goes(l, "preparing", "gone")
     /\ UNCHANGED audio

\* The listener is counted and the camera started; the header is to be written.
Listens(l) ==
  /\ Serving /\ at[l] = "preparing"
  /\ count' = [count EXCEPT ![device[on[l]]] = @ + 1]
  /\ StartAudio(l, on[l])
  /\ UNCHANGED <<programVars, video, kind, on, byHand>>

\* An audio chunk is published to all who wait for one.
AudioPublished(s) ==
  /\ Serving /\ state[s] \in {"starting", "ready"}
  /\ at' = [c \in Clients |->
       IF on[c] = s /\ at[c] = "listening" THEN "writing" ELSE at[c]]
  /\ UNCHANGED <<programVars, count, audio, video, kind, on, byHand>>

AudioWritten(l) ==
  /\ Serving
  /\ Goes(l, "writing", "listening")
  /\ UNCHANGED <<programVars, count, audio, video, kind, on, byHand>>

\* Mutant: the camera is stopped for every listener that leaves.
AudioLeavesStopping(l) ==
  /\ Serving
  /\ Goes(l, "writing", "gone")
  /\ count' = [count EXCEPT ![device[on[l]]] = @ - 1]
  /\ audio' = [audio EXCEPT ![on[l]] = FALSE]
  /\ UNCHANGED <<programVars, video, kind, on, byHand>>

\* The write fails: the last listener to leave stops the camera, whatever
\* becomes of the command.
AudioLeaves(l) ==
  /\ Serving
  /\ Goes(l, "writing", "gone")
  /\ count' = [count EXCEPT ![device[on[l]]] = @ - 1]
  /\ audio' = IF count'[device[on[l]]] <= 0 THEN [audio EXCEPT ![on[l]] = FALSE] ELSE audio
  /\ UNCHANGED <<programVars, video, kind, on, byHand>>

----------------------------------------------------------------------------
\* stream_video.

\* Video that runs is left alone; else start_video() waits for the device.
ViewerPrepared(v) ==
  /\ Serving /\ at[v] = "preparing"
  /\ Goes(v, "preparing", IF video[on[v]] THEN "waiting" ELSE "starting")
  /\ UNCHANGED <<programVars, count, audio, video, kind, on, byHand>>

\* The rest of start_video(); what it raises ends the handler.
VideoStarts(v) ==
  /\ Serving /\ at[v] = "starting" /\ Usable(on[v])
  /\ IF video[on[v]] \/ Sends(on[v])
     THEN Goes(v, "starting", "waiting") /\ video' = [video EXCEPT ![on[v]] = TRUE]
     ELSE Goes(v, "starting", "gone") /\ UNCHANGED video
  /\ UNCHANGED <<programVars, count, audio, kind, on, byHand>>

\* A frame is published: SharedFrameBuffer.publish.
VideoPublished(s) ==
  /\ Serving /\ state[s] \in {"starting", "ready"}
  /\ at' = [c \in Clients |->
       IF on[c] = s /\ at[c] = "waiting" THEN "notified" ELSE at[c]]
  /\ UNCHANGED <<programVars, count, audio, video, kind, on, byHand>>

\* The viewer has the buffer's lock again, and reads the latest frame.
ViewerReads(v) ==
  /\ Serving
  /\ Goes(v, "notified", "writing")
  /\ UNCHANGED <<programVars, count, audio, video, kind, on, byHand>>

\* The frame is written, and the next one waited for: SharedFrameBuffer.get.
FrameWritten(v) ==
  /\ Serving
  /\ Goes(v, "writing", "waiting")
  /\ UNCHANGED <<programVars, count, audio, video, kind, on, byHand>>

ViewerLeaves(v) ==
  /\ Serving
  /\ Goes(v, "writing", "gone")
  /\ UNCHANGED <<programVars, count, audio, video, kind, on, byHand>>

----------------------------------------------------------------------------
\* handle_commands, for the session the device has.

Commands(d) ==
  /\ Serving /\ sessions[d] # None
  /\ byHand' = byHand \cup {sessions[d]}
  /\ UNCHANGED <<programVars, count, clientVars>>

AudioByHand(d) ==
  /\ Commands(d)
  /\ \/ Sends(sessions[d]) /\ audio' = [audio EXCEPT ![sessions[d]] = TRUE]
     \/ audio' = [audio EXCEPT ![sessions[d]] = FALSE]
  /\ UNCHANGED video

\* start-video is taken from when the device is ready.
VideoByHand(d) ==
  /\ Commands(d)
  /\ \/ Sends(sessions[d]) /\ Usable(sessions[d]) /\ video' = [video EXCEPT ![sessions[d]] = TRUE]
     \/ video' = [video EXCEPT ![sessions[d]] = FALSE]
  /\ UNCHANGED audio

\* A step of the program.  stop() clears the video flag of a session that goes
\* down, and no other; the handlers go with the web server.
ProgramSteps ==
  /\ ProgramNext
  /\ video' = [s \in Sessions |-> video[s] /\ state'[s] # "stopped"]
  /\ IF Serving' THEN UNCHANGED clientVars
     ELSE /\ kind' = [c \in Clients |-> None] /\ on' = kind'
          /\ at' = [c \in Clients |-> "gone"]
  /\ UNCHANGED <<count, audio, byHand>>

StreamsNext ==
  \/ ProgramSteps
  \/ \E c \in Clients, k \in {"audio", "video"}, d \in Devices : Asks(c, k, d)
  \/ \E l \in Listeners : Listens(l) \/ AudioWritten(l) \/ AudioLeaves(l)
  \/ \E v \in Viewers : ViewerPrepared(v) \/ VideoStarts(v) \/ ViewerReads(v)
                        \/ FrameWritten(v) \/ ViewerLeaves(v)
  \/ \E s \in Sessions : AudioPublished(s) \/ VideoPublished(s)
  \/ \E d \in Devices : AudioByHand(d) \/ VideoByHand(d)

StreamsSpec == StreamsInit /\ [][StreamsNext]_vars

----------------------------------------------------------------------------
StreamsTypeOK ==
  /\ ProgramTypeOK
  /\ count \in [Devices -> Int]
  /\ {audio, video} \subseteq [Sessions -> BOOLEAN]
  /\ at \in [Clients -> {"idle", "preparing", "starting", "listening", "waiting",
                         "notified", "writing", "gone"}]
  /\ kind \in [Clients -> {"audio", "video", None}]
  /\ on \in [Clients -> Sessions \cup {None}]
  /\ byHand \subseteq Sessions

\* A client that is being served by a session in order has its stream running at
\* the camera, whoever came and left before, at this session or an earlier one
\* of the device: only a command stops the stream under it.
ClientsKeepStreams ==
  \A c \in Clients :
    on[c] # None /\ Sends(on[c]) /\ on[c] \notin byHand =>
      /\ c \in Listeners /\ at[c] \in {"listening", "writing"} => audio[on[c]]
      /\ c \in Viewers /\ at[c] \in {"waiting", "notified", "writing"} => video[on[c]]

\* What the docstring of stream_audio says: the camera is stopped when the last
\* listener disconnects.  A session has no audio running once no listener of its
\* device is left, unless a command started it.
LastListenerStops ==
  \A s \in Sessions \ byHand :
    Serving /\ audio[s] /\ Sends(s) => \E l \in Listeners :
      at[l] \in {"listening", "writing"} /\ device[on[l]] = device[s]
=============================================================================
