------------------------------ MODULE Watchdog -----------------------------
(***************************************************************************)
(* Session.loop_step of src/aiopppp/session.py: once a second the main     *)
(* task decides whether the camera is still there, whether its video still *)
(* flows, and whether a keep-alive is due.                                 *)
(*                                                                         *)
(* A timestamp of the code is modelled by its age in seconds, which stops  *)
(* counting at MaxAge: no test tells larger ages apart.  An age of the     *)
(* video stall is NoStall while video_stale_at is None.  The event loop is *)
(* assumed to keep up: a second does not pass while a loop step is due or  *)
(* a datagram received in an earlier second is unprocessed.                *)
(***************************************************************************)
EXTENDS Integers, Sequences

CONSTANTS RerequestSec, \* VIDEO_REREQUEST_SEC
          DeadSec,      \* VIDEO_DEAD_SEC
          RecvSec,      \* RECV_TIMEOUT_SEC
          AliveSec,     \* the literal 10 of the keep-alive test
          MaxQueue,     \* bound on the datagrams waiting for the packet task
          NoStall

ASSUME ThresholdAssumption ==
  /\ {RerequestSec, DeadSec, RecvSec, AliveSec} \subseteq Nat \ {0}
  /\ RerequestSec < DeadSec
  /\ NoStall \notin Nat

\* video: a DRW of the video channel; drw: a DRW of another channel; other:
\* any datagram that is no DRW.
Datagrams == {"video", "drw", "other"}

MaxAge == RecvSec + DeadSec

VARIABLES up,        \* the session has not been torn down
          due,       \* the main task's sleep(1) is over
          requested, \* is_video_requested
          stall,     \* age of video_stale_at, or NoStall
          drwAge,    \* age of last_drw_pkt_at
          recvAge,   \* age of last_recv_at
          aliveAge,  \* age of last_alive_pkt_at
          inbox,     \* packet_queue
          videoAge,  \* history: seconds since a video chunk was handled
          asked      \* history: seconds since video was asked for again over the
                     \* present stall, or NoStall

history == <<videoAge, asked>>
watchdogVars ==
  <<up, due, requested, stall, drwAge, recvAge, aliveAge, inbox, history>>

Older(age) == IF age < MaxAge THEN age + 1 ELSE age

\* The loop starts when setup_device has had its last answer: something has
\* just been received, but the session may have been made long ago.
WatchdogInit ==
  /\ up = TRUE
  /\ due = TRUE
  /\ requested = FALSE
  /\ stall = NoStall /\ asked = NoStall
  /\ drwAge = 0 /\ recvAge = 0 /\ videoAge = 0
  /\ aliveAge \in 0..MaxAge
  /\ inbox = <<>>

----------------------------------------------------------------------------
\* A second passes.
Tick ==
  /\ up /\ ~due /\ inbox = <<>>
  /\ due' = TRUE
  /\ stall' = IF stall = NoStall THEN NoStall ELSE Older(stall)
  /\ asked' = IF asked = NoStall THEN NoStall ELSE Older(asked)
  /\ drwAge' = Older(drwAge)
  /\ recvAge' = Older(recvAge)
  /\ aliveAge' = Older(aliveAge)
  /\ videoAge' = Older(videoAge)
  /\ UNCHANGED <<up, requested, inbox>>

\* on_receive: any datagram is proof of life, before it is looked at.
OnReceive(d) ==
  /\ up
  /\ Len(inbox) < MaxQueue
  /\ recvAge' = 0
  /\ inbox' = Append(inbox, d)
  /\ UNCHANGED <<up, due, requested, stall, drwAge, aliveAge, history>>

\* process_packet_queue and handle_drw.
HandlePacket ==
  /\ up /\ inbox # <<>>
  /\ inbox' = Tail(inbox)
  /\ drwAge' = IF Head(inbox) \in {"video", "drw"} THEN 0 ELSE drwAge
  /\ stall' = IF Head(inbox) = "video" THEN NoStall ELSE stall
  /\ asked' = IF Head(inbox) = "video" THEN NoStall ELSE asked
  /\ videoAge' = IF Head(inbox) = "video" THEN 0 ELSE videoAge
  /\ UNCHANGED <<up, due, requested, recvAge, aliveAge>>

StartVideo ==
  /\ up /\ ~requested
  /\ drwAge' = 0
  /\ requested' = TRUE
  /\ UNCHANGED <<up, due, stall, recvAge, aliveAge, inbox, history>>

\* stop_video; what it does to the frames is in VideoStream.
StopVideo ==
  /\ up /\ requested
  /\ requested' = FALSE
  /\ stall' = NoStall /\ asked' = NoStall
  /\ UNCHANGED <<up, due, drwAge, recvAge, aliveAge, inbox, videoAge>>

\* Mutant: the watch of a playback does not start anew.
PlaybackStartOverdue ==
  /\ up
  /\ requested' = TRUE
  /\ UNCHANGED <<up, due, stall, drwAge, recvAge, aliveAge, inbox, history>>

\* playback_start and playback_stop of a binary session.
PlaybackStart ==
  /\ up
  /\ drwAge' = 0
  /\ requested' = TRUE
  /\ UNCHANGED <<up, due, stall, recvAge, aliveAge, inbox, history>>

PlaybackStop ==
  /\ up
  /\ requested' = FALSE
  /\ UNCHANGED <<up, due, stall, drwAge, recvAge, aliveAge, inbox, history>>

\* The session gives up: close packet, _on_device_lost, stop().
TearDown ==
  /\ up' = FALSE
  /\ requested' = FALSE
  /\ UNCHANGED <<due, drwAge, recvAge, aliveAge, inbox, videoAge>>

VideoDead == stall # NoStall /\ stall > DeadSec

\* Mutant: anything received counts as video.
RerequestWhenSilent ==
  requested /\ stall = NoStall /\ drwAge > RerequestSec /\ recvAge > RerequestSec

Rerequest == requested /\ stall = NoStall /\ drwAge > RerequestSec

\* Mutant: silence counts only while video is requested.
SilentStream == requested /\ recvAge > RecvSec

Silent == recvAge > RecvSec

AliveDue == aliveAge > AliveSec

\* One loop_step: the stall is recorded before it is judged.
LoopStep ==
  /\ up /\ due
  /\ stall' = IF Rerequest THEN drwAge ELSE stall
  /\ asked' = IF Rerequest THEN 0 ELSE asked
  /\ \/ /\ VideoDead' \/ Silent
        /\ TearDown
     \/ /\ ~(VideoDead' \/ Silent)
        /\ due' = FALSE
        /\ aliveAge' = IF AliveDue THEN 0 ELSE aliveAge
        /\ UNCHANGED <<up, requested, drwAge, recvAge, inbox, videoAge>>

WatchdogNext ==
  \/ Tick
  \/ \E d \in Datagrams : OnReceive(d)
  \/ HandlePacket
  \/ StartVideo \/ StopVideo \/ PlaybackStart \/ PlaybackStop
  \/ LoopStep

WatchdogSpec == WatchdogInit /\ [][WatchdogNext]_watchdogVars

----------------------------------------------------------------------------
Ages == 0..MaxAge

WatchdogTypeOK ==
  /\ up \in BOOLEAN /\ due \in BOOLEAN /\ requested \in BOOLEAN
  /\ {stall, asked} \subseteq Ages \cup {NoStall}
  /\ {drwAge, recvAge, aliveAge, videoAge} \subseteq Ages
  /\ inbox \in Seq(Datagrams)

\* A silent camera is noticed: no session lives on that has heard nothing for
\* more than a step beyond RECV_TIMEOUT_SEC.
SilenceIsNoticed == up => recvAge <= RecvSec + 1

\* While nothing at all comes on the DRW channels, requested video is asked for
\* again and then given up in time.
StallIsNoticed ==
  up /\ requested =>
    /\ drwAge > RerequestSec + 1 => stall # NoStall
    /\ drwAge <= DeadSec + 1

\* After every loop step the camera has had its keep-alive within AliveSec.
KeepsAlive == up /\ ~due => aliveAge <= AliveSec

\* A camera that is heard is not given up for want of video unless it has been
\* asked for it again and had the grace that is left to send some, for the whole
\* of which no chunk was handled.  That video is still wanted is not said: see
\* GivenUpOnlyStreaming.
DeathIsEarned ==
  [][up /\ ~up' => \/ recvAge > RecvSec
                   \/ /\ videoAge > DeadSec
                      /\ asked # NoStall /\ asked >= DeadSec - RerequestSec]_watchdogVars

\* What the comment on the thresholds says: the connection is given up over no
\* video while streaming.
GivenUpOnlyStreaming == [][up /\ ~up' => recvAge > RecvSec \/ requested]_watchdogVars
=============================================================================
