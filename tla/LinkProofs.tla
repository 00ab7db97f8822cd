----------------------------- MODULE LinkProofs -----------------------------
(***************************************************************************)
(* Proofs about the two parts of a session that wait for the camera: the   *)
(* watchdog (Watchdog), for all thresholds and any number of datagrams     *)
(* waiting for the packet task, and the requests (Requests), for any       *)
(* number of clients, commands and DRWs, and any cap of drw_waiters.       *)
(***************************************************************************)
EXTENDS Watchdog, Requests, SequenceTheorems, FiniteSetTheorems, TLAPS

----------------------------------------------------------------------------
\* The watchdog.

\* Right after a loop step no age the step judges is beyond its threshold; a
\* second later, when the next step is due, each may be one beyond.
Slack == IF due THEN 1 ELSE 0

\* The ages are told apart the way they are reset: a video chunk resets all, a
\* DRW of any channel the age of the last DRW only, and a stall is recorded
\* with the age of the last DRW and grows with it.
AgesOrdered ==
  /\ drwAge <= videoAge
  /\ stall # NoStall => drwAge <= stall /\ stall <= videoAge

\* What a session that is up has been checked for.
Judged ==
  up => /\ recvAge <= RecvSec + Slack
        /\ stall # NoStall => stall <= DeadSec + Slack
        /\ requested /\ drwAge > RerequestSec + Slack => stall # NoStall
        /\ ~due => aliveAge <= AliveSec

\* The type invariant but for the history of the re-request.
Typed ==
  /\ up \in BOOLEAN /\ due \in BOOLEAN /\ requested \in BOOLEAN
  /\ stall \in Ages \cup {NoStall}
  /\ drwAge \in Ages /\ recvAge \in Ages /\ aliveAge \in Ages /\ videoAge \in Ages
  /\ inbox \in Seq(Datagrams)

\* A stall is recorded when video is asked for again, and no older then than the
\* threshold and the second between two steps.
AskedOverStall ==
  /\ asked \in Ages \cup {NoStall}
  /\ stall # NoStall => asked # NoStall /\ stall <= asked + RerequestSec + 1

\* The invariant the safety properties follow from.
WatchdogInv == Typed /\ AgesOrdered /\ Judged

----------------------------------------------------------------------------
\* A second makes every age one more, up to the bound, and keeps their order.
LEMMA OlderIsOneMore ==
  ASSUME NEW age \in Ages, NEW other \in Ages
  PROVE  /\ Older(age) \in Ages
         /\ age <= Older(age) /\ Older(age) <= age + 1
         /\ age <= other => Older(age) <= Older(other)
BY ThresholdAssumption DEF Older, Ages, MaxAge

\* What the thresholds are.
LEMMA Thresholds ==
  /\ RerequestSec \in Nat /\ DeadSec \in Nat /\ RecvSec \in Nat /\ AliveSec \in Nat
  /\ RerequestSec < DeadSec
  /\ NoStall \notin Ages
  /\ Ages \subseteq Nat /\ 0 \in Ages
BY ThresholdAssumption DEF Ages, MaxAge

\* The slack is one second at most.
LEMMA SlackIsSmall == Slack \in {0, 1}
BY DEF Slack

\* The loop starts with nothing overdue but perhaps the keep-alive.
LEMMA InitJudged == WatchdogInit => WatchdogInv
<1> SUFFICES ASSUME WatchdogInit PROVE WatchdogInv
  OBVIOUS
<1>1. up \in BOOLEAN /\ due \in BOOLEAN /\ requested \in BOOLEAN /\ due
  BY DEF WatchdogInit
<1>2. stall = NoStall /\ drwAge = 0 /\ recvAge = 0 /\ videoAge = 0 /\ aliveAge \in Ages
  BY DEF WatchdogInit, Ages
<1>3. inbox \in Seq(Datagrams)
  BY DEF WatchdogInit
<1>4. ~requested
  BY DEF WatchdogInit
<1>5. Typed
  BY <1>1, <1>2, <1>3, Thresholds DEF Typed
<1>6. AgesOrdered
  BY <1>2 DEF AgesOrdered
<1>7. Judged
  <2>1. Slack = 1
    BY <1>1 DEF Slack
  <2>2. QED
    BY <2>1, <1>1, <1>2, <1>4, Thresholds DEF Judged
<1>8. QED
  BY <1>5, <1>6, <1>7 DEF WatchdogInv

\* A second passes only when no step is due, so that it adds the slack at most.
LEMMA TickKeeps ==
  ASSUME WatchdogInv, Tick
  PROVE  WatchdogInv'
<1>1. /\ recvAge \in Ages /\ drwAge \in Ages /\ videoAge \in Ages /\ aliveAge \in Ages
      /\ stall # NoStall => stall \in Ages
  BY DEF Typed, WatchdogInv
<1>2. /\ recvAge' \in Ages /\ recvAge' <= recvAge + 1
      /\ drwAge' \in Ages /\ drwAge' <= drwAge + 1 /\ drwAge' <= videoAge'
      /\ videoAge' \in Ages /\ aliveAge' \in Ages
  <2>1. drwAge <= videoAge
    BY DEF WatchdogInv, AgesOrdered
  <2>2. /\ recvAge' = Older(recvAge) /\ drwAge' = Older(drwAge)
        /\ videoAge' = Older(videoAge) /\ aliveAge' = Older(aliveAge)
    BY DEF Tick
  <2>3. QED
    BY <1>1, <2>1, <2>2, OlderIsOneMore
<1>3. stall' = IF stall = NoStall THEN NoStall ELSE Older(stall)
  BY DEF Tick
<1>4. stall # NoStall => /\ stall' \in Ages /\ stall' <= stall + 1
                         /\ drwAge' <= stall' /\ stall' <= videoAge'
  <2>1. stall # NoStall => drwAge <= stall /\ stall <= videoAge
    BY DEF WatchdogInv, AgesOrdered
  <2>2. drwAge' = Older(drwAge) /\ videoAge' = Older(videoAge)
    BY DEF Tick
  <2>3. QED
    BY <1>1, <1>3, <2>1, <2>2, OlderIsOneMore
<1>5. stall' = NoStall <=> stall = NoStall
  BY <1>3, <1>4, Thresholds
<1>6. up /\ ~due /\ due' /\ (up' <=> up) /\ (requested' <=> requested)
  BY DEF Tick
<1>7. up' \in BOOLEAN /\ due' \in BOOLEAN /\ requested' \in BOOLEAN
  BY DEF Typed, Tick, WatchdogInv
<1>8. inbox' \in Seq(Datagrams)
  BY DEF Typed, Tick, WatchdogInv
<1>9. Typed'
  <2>1. stall' \in Ages \cup {NoStall}
    BY <1>4, <1>5
  <2>2. QED
    BY <1>2, <1>7, <1>8, <2>1 DEF Typed
<1>10. AgesOrdered'
  BY <1>2, <1>4, <1>5 DEF AgesOrdered
<1>11. Judged'
  <2>1. Slack = 0 /\ Slack' = 1
    BY <1>6 DEF Slack
  <2>2. /\ recvAge <= RecvSec
        /\ stall # NoStall => stall <= DeadSec
        /\ requested /\ drwAge > RerequestSec => stall # NoStall
    BY <1>1, <1>6, <2>1, Thresholds DEF WatchdogInv, Judged
  <2>3. recvAge' <= RecvSec + 1 /\ (stall' # NoStall => stall' <= DeadSec + 1)
    <3>1. recvAge \in Nat /\ recvAge' \in Nat
      BY <1>1, <1>2, Thresholds
    <3>2. stall' # NoStall => stall \in Nat /\ stall' \in Nat
      BY <1>1, <1>4, <1>5, Thresholds
    <3>3. recvAge' <= RecvSec + 1
      BY <1>2, <2>2, <3>1, Thresholds
    <3>4. stall' # NoStall => stall' <= DeadSec + 1
      BY <1>4, <1>5, <2>2, <3>2, Thresholds
    <3>5. QED
      BY <3>3, <3>4
  <2>4. requested' /\ drwAge' > RerequestSec + 1 => stall' # NoStall
    <3>1. drwAge' > RerequestSec + 1 => drwAge > RerequestSec
      BY <1>1, <1>2, Thresholds
    <3>2. QED
      BY <1>5, <1>6, <2>2, <3>1
  <2>5. QED
    BY <1>6, <2>1, <2>3, <2>4 DEF Judged
<1>12. QED
  BY <1>9, <1>10, <1>11 DEF WatchdogInv

\* What a step does that neither lets time pass nor judges: ages get younger, a
\* stall stays or is let go, and to let it go or to ask for video takes a DRW age
\* of 0 or an end to asking.
LEMMA YoungerKeeps ==
  ASSUME WatchdogInv,
         (up' <=> up), (due' <=> due),
         up' \in BOOLEAN, due' \in BOOLEAN, requested' \in BOOLEAN,
         inbox' \in Seq(Datagrams),
         aliveAge' = aliveAge,
         recvAge' \in {0, recvAge},
         drwAge' \in {0, drwAge},
         videoAge' \in {0, videoAge},
         videoAge' # videoAge => drwAge' = 0 /\ stall' = NoStall,
         stall' \in {NoStall, stall},
         stall' # stall => drwAge' = 0 \/ ~requested',
         requested' => requested \/ drwAge' = 0
  PROVE  WatchdogInv'
<1>1. /\ recvAge \in Ages /\ drwAge \in Ages /\ videoAge \in Ages /\ aliveAge \in Ages
      /\ stall \in Ages \cup {NoStall}
  BY DEF Typed, WatchdogInv
<1>2. Typed'
  <2>1. /\ recvAge' \in Ages /\ drwAge' \in Ages /\ videoAge' \in Ages /\ aliveAge' \in Ages
        /\ stall' \in Ages \cup {NoStall}
    BY <1>1, Thresholds
  <2>2. QED
    BY <2>1 DEF Typed
<1>3. AgesOrdered'
  <2>1. drwAge <= videoAge /\ (stall # NoStall => drwAge <= stall /\ stall <= videoAge)
    BY DEF WatchdogInv, AgesOrdered
  <2>2. drwAge \in Nat /\ videoAge \in Nat /\ (stall # NoStall => stall \in Nat)
    BY <1>1, Thresholds
  <2>3. drwAge' <= videoAge'
    BY <2>1, <2>2
  <2>4. stall' # NoStall => drwAge' <= stall' /\ stall' <= videoAge'
    BY <2>1, <2>2
  <2>5. QED
    BY <2>3, <2>4 DEF AgesOrdered
<1>4. ASSUME up'
      PROVE  /\ recvAge' <= RecvSec + Slack'
             /\ stall' # NoStall => stall' <= DeadSec + Slack'
             /\ requested' /\ drwAge' > RerequestSec + Slack' => stall' # NoStall
             /\ ~due' => aliveAge' <= AliveSec
  <2>1. Slack' = Slack /\ Slack \in {0, 1}
    BY DEF Slack
  <2>2. /\ recvAge <= RecvSec + Slack
        /\ stall # NoStall => stall <= DeadSec + Slack
        /\ requested /\ drwAge > RerequestSec + Slack => stall # NoStall
        /\ ~due => aliveAge <= AliveSec
    BY <1>4 DEF WatchdogInv, Judged
  <2>3. recvAge' <= RecvSec + Slack'
    BY <1>1, <2>1, <2>2, Thresholds
  <2>4. stall' # NoStall => stall' <= DeadSec + Slack'
    BY <2>1, <2>2
  <2>5. requested' /\ drwAge' > RerequestSec + Slack' => stall' # NoStall
    <3>1. SUFFICES ASSUME requested', drwAge' > RerequestSec + Slack' PROVE stall' # NoStall
      OBVIOUS
    <3>2. drwAge' # 0
      BY <3>1, <2>1, Thresholds
    <3>3. drwAge' = drwAge /\ requested /\ stall' = stall
      BY <3>1, <3>2
    <3>4. QED
      BY <2>1, <2>2, <3>1, <3>3
  <2>6. ~due' => aliveAge' <= AliveSec
    BY <2>2
  <2>7. QED
    BY <2>3, <2>4, <2>5, <2>6
<1>5. Judged'
  BY <1>4 DEF Judged
<1>6. QED
  BY <1>2, <1>3, <1>5 DEF WatchdogInv

\* Whatever arrives or is handled only makes ages younger, and only a video chunk
\* lets go of a stall.
LEMMA DatagramsKeep ==
  ASSUME WatchdogInv, HandlePacket \/ \E d \in Datagrams : OnReceive(d)
  PROVE  WatchdogInv'
<1>1. inbox' \in Seq(Datagrams)
  BY DEF Typed, WatchdogInv, HandlePacket, OnReceive
<1>2. up' \in BOOLEAN /\ due' \in BOOLEAN /\ requested' \in BOOLEAN
  BY DEF Typed, WatchdogInv, HandlePacket, OnReceive
<1>3. (up' <=> up) /\ (due' <=> due) /\ (requested' <=> requested)
  BY DEF HandlePacket, OnReceive, history
<1>4. /\ aliveAge' = aliveAge /\ recvAge' \in {0, recvAge}
      /\ drwAge' \in {0, drwAge} /\ videoAge' \in {0, videoAge}
      /\ videoAge' # videoAge => drwAge' = 0 /\ stall' = NoStall
      /\ stall' \in {NoStall, stall}
      /\ stall' # stall => drwAge' = 0
  BY DEF HandlePacket, OnReceive, history
<1>5. QED
  BY <1>1, <1>2, <1>3, <1>4, YoungerKeeps

\* Video asked for begins with a fresh age; video stopped is not judged.
LEMMA UsersKeep ==
  ASSUME WatchdogInv, StartVideo \/ StopVideo \/ PlaybackStart \/ PlaybackStop
  PROVE  WatchdogInv'
<1>1. inbox' \in Seq(Datagrams)
  BY DEF Typed, WatchdogInv, StartVideo, StopVideo, PlaybackStart, PlaybackStop
<1>2. up' = up /\ due' = due /\ requested' \in BOOLEAN
  BY DEF StartVideo, StopVideo, PlaybackStart, PlaybackStop, history
<1>3. up' \in BOOLEAN /\ due' \in BOOLEAN
  BY <1>2 DEF Typed, WatchdogInv
<1>4. (requested' => drwAge' = 0) /\ (stall' # stall => ~requested')
  BY DEF StartVideo, StopVideo, PlaybackStart, PlaybackStop, history
<1>5. /\ aliveAge' = aliveAge /\ recvAge' = recvAge /\ videoAge' = videoAge
      /\ drwAge' \in {0, drwAge} /\ stall' \in {NoStall, stall}
  BY DEF StartVideo, StopVideo, PlaybackStart, PlaybackStop, history
<1>6. QED
  BY <1>1, <1>2, <1>3, <1>4, <1>5, YoungerKeeps

\* A loop step that does not give up has judged everything.
LEMMA LoopStepKeeps ==
  ASSUME WatchdogInv, LoopStep
  PROVE  WatchdogInv'
<1>1. /\ recvAge \in Ages /\ drwAge \in Ages /\ videoAge \in Ages /\ aliveAge \in Ages
      /\ UNCHANGED <<drwAge, recvAge, inbox, videoAge>>
      /\ up' \in BOOLEAN /\ due' \in BOOLEAN /\ requested' \in BOOLEAN
      /\ aliveAge' \in Ages
  BY Thresholds DEF WatchdogInv, Typed, LoopStep, TearDown
<1>2. stall' = IF Rerequest THEN drwAge ELSE stall
  BY DEF LoopStep
<1>3. stall' # NoStall => stall' \in Ages /\ drwAge <= stall' /\ stall' <= videoAge
  BY <1>1, <1>2, Thresholds DEF WatchdogInv, Typed, AgesOrdered
<1>4. Typed'
  BY <1>1, <1>3 DEF WatchdogInv, Typed
<1>5. AgesOrdered'
  BY <1>1, <1>3 DEF WatchdogInv, AgesOrdered
<1>6. Judged'
  <2>1. CASE ~up'
    BY <2>1 DEF Judged
  <2>2. CASE up'
    <3>1. /\ ~VideoDead' /\ ~Silent /\ ~due'
          /\ aliveAge' = IF AliveDue THEN 0 ELSE aliveAge
          /\ requested' = requested
      BY <2>2 DEF LoopStep, TearDown
    <3>2. recvAge' <= RecvSec /\ aliveAge' <= AliveSec
      BY <1>1, <3>1, Thresholds DEF Silent, AliveDue
    <3>3. stall' # NoStall => stall' <= DeadSec
      <4>1. ~(stall' # NoStall /\ stall' > DeadSec)
        BY <3>1 DEF VideoDead
      <4>2. stall' # NoStall => stall' \in Nat
        BY <1>3, Thresholds
      <4>3. QED
        BY <4>1, <4>2, Thresholds
    <3>4. requested' /\ drwAge' > RerequestSec => stall' # NoStall
      <4>1. drwAge' = drwAge /\ drwAge # NoStall
        BY <1>1, Thresholds
      <4>2. Rerequest <=> requested /\ stall = NoStall /\ drwAge > RerequestSec
        BY DEF Rerequest
      <4>3. QED
        BY <1>2, <3>1, <4>1, <4>2
    <3>5. QED
      BY <3>1, <3>2, <3>3, <3>4, <1>1, <1>3, Thresholds DEF Judged, Slack
  <2>3. QED
    BY <2>1, <2>2
<1>7. QED
  BY <1>4, <1>5, <1>6 DEF WatchdogInv

----------------------------------------------------------------------------
\* The invariant holds in every behaviour: what loop_step has judged stays within
\* its thresholds until the next one is due.
THEOREM WatchdogInvariant == WatchdogSpec => []WatchdogInv
<1>1. WatchdogInv /\ [WatchdogNext]_watchdogVars => WatchdogInv'
  <2> SUFFICES ASSUME WatchdogInv, [WatchdogNext]_watchdogVars PROVE WatchdogInv'
    OBVIOUS
  <2>1. CASE Tick
    BY <2>1, TickKeeps
  <2>2. CASE HandlePacket \/ \E d \in Datagrams : OnReceive(d)
    BY <2>2, DatagramsKeep
  <2>3. CASE StartVideo \/ StopVideo \/ PlaybackStart \/ PlaybackStop
    BY <2>3, UsersKeep
  <2>4. CASE LoopStep
    BY <2>4, LoopStepKeeps
  <2>5. CASE UNCHANGED watchdogVars
    BY <2>5 DEF watchdogVars, history, WatchdogInv, Typed, AgesOrdered, Judged, Slack
  <2>6. QED
    BY <2>1, <2>2, <2>3, <2>4, <2>5 DEF WatchdogNext
<1>2. QED
  BY <1>1, InitJudged, PTL DEF WatchdogSpec

\* The age of a re-request grows with that of the stall it was made over, and goes
\* when the stall goes.
LEMMA AskedStep ==
  WatchdogInv /\ AskedOverStall /\ [WatchdogNext]_watchdogVars => AskedOverStall'
<1> SUFFICES ASSUME WatchdogInv, AskedOverStall, [WatchdogNext]_watchdogVars
             PROVE  AskedOverStall'
  OBVIOUS
<1>1. /\ stall \in Ages \cup {NoStall} /\ asked \in Ages \cup {NoStall} /\ drwAge \in Ages
      /\ stall # NoStall => asked # NoStall /\ stall <= asked + RerequestSec + 1
  BY DEF WatchdogInv, Typed, AskedOverStall
<1>2. CASE Tick
  <2>1. /\ stall' = IF stall = NoStall THEN NoStall ELSE Older(stall)
        /\ asked' = IF asked = NoStall THEN NoStall ELSE Older(asked)
    BY <1>2 DEF Tick
  <2>2. asked # NoStall => Older(asked) \in Ages
    BY <1>1, OlderIsOneMore
  <2>3. stall # NoStall => Older(stall) <= Older(asked) + RerequestSec + 1
    BY <1>1, ThresholdAssumption DEF Older, Ages, MaxAge
  <2>4. QED
    BY <1>1, <2>1, <2>2, <2>3, Thresholds DEF AskedOverStall
<1>3. CASE LoopStep
  <2>1. /\ stall' = IF Rerequest THEN drwAge ELSE stall
        /\ asked' = IF Rerequest THEN 0 ELSE asked
    BY <1>3 DEF LoopStep
  <2>2. Rerequest => drwAge <= RerequestSec + 1
    <3>1. SUFFICES ASSUME Rerequest PROVE drwAge <= RerequestSec + 1
      OBVIOUS
    <3>2. up /\ requested /\ stall = NoStall
      BY <1>3, <3>1 DEF LoopStep, Rerequest
    <3>3. ~(drwAge > RerequestSec + Slack)
      BY <3>2 DEF WatchdogInv, Judged
    <3>4. QED
      BY <1>1, <3>3, SlackIsSmall, Thresholds
  <2>3. QED
    BY <1>1, <2>1, <2>2, Thresholds DEF AskedOverStall
<1>4. CASE HandlePacket \/ StopVideo
  <2>1. \/ stall' = NoStall /\ asked' = NoStall
        \/ UNCHANGED <<stall, asked>>
    BY <1>4 DEF HandlePacket, StopVideo
  <2>2. QED
    BY <2>1 DEF AskedOverStall
<1>5. CASE UNCHANGED <<stall, asked>>
  BY <1>5 DEF AskedOverStall
<1>6. QED
  BY <1>2, <1>3, <1>4, <1>5
     DEF WatchdogNext, OnReceive, StartVideo, PlaybackStart, PlaybackStop, watchdogVars, history

LEMMA AskedInvariant == WatchdogSpec => []AskedOverStall
<1>1. WatchdogInit => AskedOverStall
  BY DEF WatchdogInit, AskedOverStall
<1>2. QED
  BY <1>1, AskedStep, WatchdogInvariant, PTL DEF WatchdogSpec

\* Every variable of the watchdog keeps its shape.
THEOREM WatchdogTypeCorrect == WatchdogSpec => []WatchdogTypeOK
<1>1. WatchdogInv /\ AskedOverStall => WatchdogTypeOK
  BY DEF WatchdogInv, Typed, AskedOverStall, WatchdogTypeOK
<1>2. QED
  BY <1>1, WatchdogInvariant, AskedInvariant, PTL

\* A session that hears nothing is given up within a step of RECV_TIMEOUT_SEC.
THEOREM SilenceEndsSessions == WatchdogSpec => []SilenceIsNoticed
<1>1. WatchdogInv => SilenceIsNoticed
  <2>1. SUFFICES ASSUME WatchdogInv, up PROVE recvAge <= RecvSec + 1
    BY DEF SilenceIsNoticed
  <2>2. recvAge <= RecvSec + Slack /\ recvAge \in Nat
    BY <2>1, Thresholds DEF Typed, WatchdogInv, Judged
  <2>3. QED
    BY <2>2, SlackIsSmall, Thresholds
<1>2. QED
  BY <1>1, WatchdogInvariant, PTL

\* Requested video without any DRW is asked for again after VIDEO_REREQUEST_SEC and
\* given up after VIDEO_DEAD_SEC, each within a step.
THEOREM StallsEndSessions == WatchdogSpec => []StallIsNoticed
<1>1. WatchdogInv => StallIsNoticed
  <2>1. SUFFICES ASSUME WatchdogInv, up, requested
                 PROVE  /\ drwAge > RerequestSec + 1 => stall # NoStall
                        /\ drwAge <= DeadSec + 1
    BY DEF StallIsNoticed
  <2>2. drwAge \in Nat /\ (stall # NoStall => stall \in Nat)
    BY <2>1, Thresholds DEF Typed, WatchdogInv
  <2>3. /\ stall # NoStall => stall <= DeadSec + Slack
        /\ drwAge > RerequestSec + Slack => stall # NoStall
    BY <2>1 DEF WatchdogInv, Judged
  <2>4. stall # NoStall => drwAge <= stall
    BY <2>1 DEF WatchdogInv, AgesOrdered
  <2>5. drwAge > RerequestSec + 1 => stall # NoStall
    BY <2>2, <2>3, SlackIsSmall, Thresholds
  <2>6. stall # NoStall => drwAge <= DeadSec + 1
    BY <2>2, <2>3, <2>4, SlackIsSmall, Thresholds
  <2>7. drwAge <= RerequestSec + 1 => drwAge <= DeadSec + 1
    BY <2>2, Thresholds
  <2>8. QED
    BY <2>2, <2>5, <2>6, <2>7, Thresholds
<1>2. QED
  BY <1>1, WatchdogInvariant, PTL

\* Between loop steps the last keep-alive is never older than its interval.
THEOREM AliveIsKept == WatchdogSpec => []KeepsAlive
<1>1. WatchdogInv => KeepsAlive
  BY DEF WatchdogInv, Judged, KeepsAlive
<1>2. QED
  BY <1>1, WatchdogInvariant, PTL

\* loop_step gives a camera that is heard up only after it has asked it again for
\* video and left it the rest of VIDEO_DEAD_SEC, without a chunk; whether video is
\* still wanted then is not said.  So however starts, stops, playback and datagrams
\* of other channels interleave.
THEOREM GivenUpAfterAsking == WatchdogSpec => DeathIsEarned
<1> DEFINE Earned == \/ recvAge > RecvSec
                     \/ /\ videoAge > DeadSec
                        /\ asked # NoStall /\ asked >= DeadSec - RerequestSec
<1>1. WatchdogInv /\ AskedOverStall /\ [WatchdogNext]_watchdogVars
        => [up /\ ~up' => Earned]_watchdogVars
  <2> SUFFICES ASSUME WatchdogInv, AskedOverStall, WatchdogNext, up, ~up'
               PROVE  Earned
    OBVIOUS
  <2>1. LoopStep /\ TearDown /\ (VideoDead' \/ Silent)
    BY DEF WatchdogNext, Tick, OnReceive, HandlePacket, StartVideo, StopVideo,
           PlaybackStart, PlaybackStop, LoopStep
  <2>2. CASE Silent
    BY <2>2 DEF Silent
  <2>3. CASE VideoDead'
    <3>1. stall' # NoStall /\ stall' > DeadSec
      BY <2>3 DEF VideoDead
    <3>2. stall' = IF Rerequest THEN drwAge ELSE stall
      BY <2>1 DEF LoopStep
    <3>3. drwAge \in Nat /\ videoAge \in Nat /\ (stall # NoStall => stall \in Nat)
      BY Thresholds DEF WatchdogInv, Typed
    <3>4. ~Rerequest
      <4>1. SUFFICES ASSUME Rerequest PROVE FALSE
        OBVIOUS
      <4>2. up /\ requested /\ stall = NoStall
        BY <4>1, <2>1 DEF LoopStep, Rerequest
      <4>3. ~(drwAge > RerequestSec + Slack)
        BY <4>2 DEF WatchdogInv, Judged
      <4>4. drwAge <= RerequestSec + 1
        BY <3>3, <4>3, SlackIsSmall, Thresholds
      <4>5. QED
        BY <3>1, <3>2, <3>3, <4>1, <4>4, Thresholds
    <3>5. stall # NoStall /\ stall > DeadSec /\ stall <= videoAge
      BY <3>1, <3>2, <3>4 DEF WatchdogInv, AgesOrdered
    <3>6. asked # NoStall /\ asked \in Nat /\ stall <= asked + RerequestSec + 1
      BY <3>5, Thresholds DEF AskedOverStall
    <3>7. QED
      BY <3>3, <3>5, <3>6, Thresholds
  <2>4. QED
    BY <2>1, <2>2, <2>3
<1>2. QED
  BY <1>1, WatchdogInvariant, AskedInvariant, PTL DEF WatchdogSpec, DeathIsEarned

----------------------------------------------------------------------------
\* The requests.

Status == {"pending", "done", "cancelled"}
Drw == [chan : {"command", "audio"}, idx : 0..(IndexSpace - 1), cmd : Cmds \cup {None}]
Entry == (0..(IndexSpace - 1)) \X (Nat \ {0})

\* The tables and sequences of futures.
TableShapes ==
  /\ sends \in Seq(Drw) /\ Len(sends) <= MaxSends
  /\ acked \in Seq(Status) /\ Len(acked) = Len(sends)
  /\ order \in Seq(Entry)
  /\ \A i \in 1..Len(order) : order[i][2] <= Len(sends)

\* drw_waiters has a key once, and under the index of the DRW itself.
KeysOnce(table) ==
  \A i, j \in 1..Len(table) : table[i][1] = table[j][1] => i = j
KeysAreTrue == \A i \in 1..Len(order) : order[i][1] = sends[order[i][2]].idx

\* A future that is pending has its DRW on the table, so that an acknowledgement
\* finds it.
PendingIsHeld ==
  \A n \in 1..Len(sends) : acked[n] = "pending" => \E i \in 1..Len(order) : order[i][2] = n

\* What acknowledgements need.
TableInv ==
  TableShapes /\ Len(order) <= MaxWaiters /\ KeysOnce(order) /\ KeysAreTrue /\ PendingIsHeld

\* The clients, and the table of those who wait for a response.
ClientShapes ==
  /\ result \in Seq(Status) /\ Len(result) = Len(sends)
  /\ waiters \in [Cmds -> 0..Len(sends)]
  /\ pc \in [Clients -> {"idle"} \cup Waiting]
  /\ mine \in [Clients -> 0..Len(sends)] /\ on \in [Clients -> 0..Len(sends)]
  /\ outcome \in [Clients -> {"none", "answer", "empty", "noack", "timeout", "cancelled"}]
  /\ heard \in [Clients -> BOOLEAN] /\ rival \in [Clients -> BOOLEAN]
  /\ \A c \in Clients : pc[c] \in Waiting => mine[c] # 0 /\ Cmd(c) \in Cmds
  /\ \A c \in Clients : pc[c] = "result" => on[c] # 0

\* A request that no other for its command has overlapped has the waiter of the
\* command to itself, and it is its own; a response that came is in it.
OwnWaiters ==
  /\ \A c \in Clients : pc[c] \in Waiting /\ ~rival[c] =>
       /\ \A d \in Clients : pc[d] \in Waiting /\ Cmd(d) = Cmd(c) => d = c
       /\ waiters[Cmd(c)] = mine[c]
       /\ pc[c] = "result" => on[c] = mine[c]
       /\ heard[c] => result[mine[c]] # "pending"
       /\ outcome[c] = "none"
  /\ AnswerNotMissed

\* The invariant the properties follow from.
RequestsInv == TableInv /\ ClientShapes /\ OwnWaiters

----------------------------------------------------------------------------
\* Sequences and tables.

\* What is left of a sequence without one element.
LEMMA RemoveAtEffect ==
  ASSUME NEW S, NEW s \in Seq(S), NEW i \in 1..Len(s)
  PROVE  /\ RemoveAt(s, i) \in Seq(S)
         /\ Len(RemoveAt(s, i)) = Len(s) - 1
         /\ \A j \in 1..(Len(s) - 1) : RemoveAt(s, i)[j] = IF j < i THEN s[j] ELSE s[j + 1]
<1> DEFINE a == SubSeq(s, 1, i - 1)
           b == SubSeq(s, i + 1, Len(s))
<1>1. \A j \in 1..Len(s) : s[j] \in S
  OBVIOUS
<1>2. a \in Seq(S) /\ Len(a) = i - 1 /\ \A j \in 1..(i - 1) : a[j] = s[j]
  <2>1. \A j \in 1..(i - 1) : s[j] \in S
    BY <1>1
  <2>2. 1 \in Int /\ i - 1 \in Int
    OBVIOUS
  <2>3. QED
    BY <2>1, <2>2, SubSeqProperties
<1>3. b \in Seq(S) /\ Len(b) = Len(s) - i /\ \A j \in 1..(Len(s) - i) : b[j] = s[i + j]
  <2>1. \A j \in (i + 1)..Len(s) : s[j] \in S
    BY <1>1
  <2>2. i + 1 \in Int /\ Len(s) \in Int
    OBVIOUS
  <2>3. QED
    BY <2>1, <2>2, SubSeqProperties
<1> HIDE DEF a, b
<1>4. /\ a \o b \in Seq(S) /\ Len(a \o b) = Len(a) + Len(b)
      /\ \A j \in 1..(Len(a) + Len(b)) : (a \o b)[j] = IF j <= Len(a) THEN a[j] ELSE b[j - Len(a)]
  BY <1>2, <1>3, ConcatProperties
<1>5. \A j \in 1..(Len(s) - 1) : (a \o b)[j] = IF j < i THEN s[j] ELSE s[j + 1]
  <2>1. SUFFICES ASSUME NEW j \in 1..(Len(s) - 1)
                 PROVE  (a \o b)[j] = IF j < i THEN s[j] ELSE s[j + 1]
    OBVIOUS
  <2>2. CASE j < i
    BY <1>2, <1>3, <1>4, <2>2
  <2>3. CASE ~(j < i)
    <3>1. Len(s) \in Nat /\ j \in Int /\ i \in Int
      OBVIOUS
    <3>2. (a \o b)[j] = b[j - (i - 1)]
      BY <1>2, <1>3, <1>4, <2>3, <3>1
    <3>3. j - (i - 1) \in 1..(Len(s) - i) /\ i + (j - (i - 1)) = j + 1
      BY <2>3, <3>1
    <3>4. QED
      BY <1>3, <2>3, <3>2, <3>3
  <2>4. QED
    BY <2>2, <2>3
<1>6. RemoveAt(s, i) = a \o b
  BY DEF RemoveAt, a, b
<1>7. Len(a) + Len(b) = Len(s) - 1
  BY <1>2, <1>3
<1>8. QED
  BY <1>4, <1>5, <1>6, <1>7

\* The table w is the table t without the key k.
IsWithout(w, t, k) ==
  /\ w \in Seq(Entry) /\ KeysOnce(w) /\ Len(w) <= Len(t)
  /\ \A j \in 1..Len(w) : \E i \in 1..Len(t) : w[j] = t[i]
  /\ \A i \in 1..Len(t) : t[i][1] # k => \E j \in 1..Len(w) : w[j] = t[i]

\* dict.pop takes the entry of the key away, and nothing else.
LEMMA WithoutEffect ==
  ASSUME NEW t \in Seq(Entry), KeysOnce(t), NEW k
  PROVE  IsWithout(Without(t, k), t, k)
<1>1. DOMAIN t = 1..Len(t)
  OBVIOUS
<1>2. CASE ~Has(t, k)
  BY <1>1, <1>2 DEF Without, IsWithout
<1>3. CASE Has(t, k)
  <2>1. PICK p \in 1..Len(t) : /\ p = CHOOSE i \in DOMAIN t : t[i][1] = k
                               /\ t[p][1] = k
    BY <1>1, <1>3 DEF Has
  <2> DEFINE r == RemoveAt(t, p)
  <2>2. Without(t, k) = r
    BY <1>3, <2>1 DEF Without
  <2>3. /\ r \in Seq(Entry) /\ Len(r) = Len(t) - 1
        /\ \A j \in 1..(Len(t) - 1) : r[j] = IF j < p THEN t[j] ELSE t[j + 1]
    BY RemoveAtEffect
  <2>4. KeysOnce(r)
    <3>1. SUFFICES ASSUME NEW i \in 1..Len(r), NEW j \in 1..Len(r), r[i][1] = r[j][1]
                   PROVE  i = j
      BY DEF KeysOnce
    <3>2. /\ r[i] = t[IF i < p THEN i ELSE i + 1]
          /\ r[j] = t[IF j < p THEN j ELSE j + 1]
      BY <2>3, <3>1
    <3>3. (IF i < p THEN i ELSE i + 1) = (IF j < p THEN j ELSE j + 1)
      BY <2>3, <3>1, <3>2 DEF KeysOnce
    <3>4. QED
      BY <2>3, <3>3
  <2>5. \A j \in 1..Len(r) : \E i \in 1..Len(t) : r[j] = t[i]
    <3>1. SUFFICES ASSUME NEW j \in 1..Len(r) PROVE \E i \in 1..Len(t) : r[j] = t[i]
      OBVIOUS
    <3>2. r[j] = t[IF j < p THEN j ELSE j + 1]
      BY <2>3
    <3>3. (IF j < p THEN j ELSE j + 1) \in 1..Len(t)
      BY <2>3
    <3>4. QED
      BY <3>2, <3>3
  <2>6. \A i \in 1..Len(t) : t[i][1] # k => \E j \in 1..Len(r) : r[j] = t[i]
    <3>1. SUFFICES ASSUME NEW i \in 1..Len(t), i # p PROVE \E j \in 1..Len(r) : r[j] = t[i]
      BY <2>1
    <3>2. CASE i < p
      BY <2>3, <3>2
    <3>3. CASE i > p
      <4>1. i - 1 \in 1..Len(r) /\ r[i - 1] = t[(i - 1) + 1]
        BY <2>3, <3>3
      <4>2. QED
        BY <4>1
    <3>4. QED
      BY <3>1, <3>2, <3>3
  <2>7. QED
    BY <2>2, <2>3, <2>4, <2>5, <2>6 DEF IsWithout
<1>4. QED
  BY <1>2, <1>3

\* The table a is the table t with n assigned to k.
IsAssigned(a, t, k, n) ==
  /\ a \in Seq(Entry) /\ KeysOnce(a)
  /\ \A j \in 1..Len(a) : a[j] = <<k, n>> \/ \E i \in 1..Len(t) : a[j] = t[i]
  /\ \E j \in 1..Len(a) : a[j] = <<k, n>>
  /\ Len(a) = Len(t) \/ (Len(a) = Len(t) + 1 /\ a[Len(a)] = <<k, n>>)

\* An assignment keeps what is under other keys, and its own entry is the last
\* one if the table grows.
LEMMA AssignedEffect ==
  ASSUME NEW t \in Seq(Entry), KeysOnce(t), NEW k, NEW n, <<k, n>> \in Entry
  PROVE  IsAssigned(Assigned(t, k, n), t, k, n)
<1> DEFINE a == Assigned(t, k, n)
<1>1. DOMAIN t = 1..Len(t) /\ Len(t) \in Nat
  OBVIOUS
<1>2. CASE Has(t, k)
  <2>1. a = [i \in 1..Len(t) |-> IF t[i][1] = k THEN <<k, n>> ELSE t[i]]
    BY <1>1, <1>2 DEF Assigned
  <2>2. \A i \in 1..Len(t) : a[i] \in Entry /\ a[i] = IF t[i][1] = k THEN <<k, n>> ELSE t[i]
    BY <2>1
  <2>3. a \in Seq(Entry) /\ Len(a) = Len(t)
    BY <1>1, <2>1, <2>2, IsASeq
  <2>4. \A i \in 1..Len(t) : a[i][1] = t[i][1]
    BY <2>2
  <2>5. KeysOnce(a)
    BY <2>3, <2>4 DEF KeysOnce
  <2>6. \E j \in 1..Len(a) : a[j] = <<k, n>>
    BY <1>1, <1>2, <2>2, <2>3 DEF Has
  <2>7. QED
    BY <2>2, <2>3, <2>5, <2>6 DEF IsAssigned
<1>3. CASE ~Has(t, k)
  <2>1. a = Append(t, <<k, n>>)
    BY <1>3 DEF Assigned
  <2>2. /\ a \in Seq(Entry) /\ Len(a) = Len(t) + 1
        /\ \A i \in 1..Len(t) : a[i] = t[i]
        /\ a[Len(t) + 1] = <<k, n>>
    BY <2>1, AppendProperties
  <2>3. \A i \in 1..Len(t) : t[i][1] # k
    BY <1>1, <1>3 DEF Has
  <2>4. KeysOnce(a)
    <3>1. SUFFICES ASSUME NEW i \in 1..Len(a), NEW j \in 1..Len(a), a[i][1] = a[j][1]
                   PROVE  i = j
      BY DEF KeysOnce
    <3>2. CASE i \in 1..Len(t) /\ j \in 1..Len(t)
      BY <2>2, <3>1, <3>2 DEF KeysOnce
    <3>3. CASE i = Len(t) + 1 \/ j = Len(t) + 1
      BY <2>2, <2>3, <3>1, <3>3
    <3>4. QED
      BY <2>2, <3>2, <3>3
  <2>5. Len(t) + 1 \in 1..Len(a)
    BY <1>1, <2>2
  <2>6. QED
    BY <2>2, <2>4, <2>5 DEF IsAssigned
<1>4. QED
  BY <1>2, <1>3

\* The table e has the entry just made, and apart from it only what t has.
LeavesNew(e, t, k, n) ==
  /\ e \in Seq(Entry) /\ KeysOnce(e) /\ Len(e) <= MaxWaiters
  /\ \A j \in 1..Len(e) : e[j] = <<k, n>> \/ \E i \in 1..Len(t) : e[j] = t[i]
  /\ \E j \in 1..Len(e) : e[j] = <<k, n>>

\* Eviction takes the first entry only, and never the one that was just made.
LEMMA TableAfterSend ==
  ASSUME NEW t \in Seq(Entry), KeysOnce(t), Len(t) <= MaxWaiters,
         NEW k, NEW n, <<k, n>> \in Entry
  PROVE  LeavesNew(Evicted(Assigned(t, k, n)), t, k, n)
<1> DEFINE a == Assigned(t, k, n)
           e == Evicted(a)
<1> SUFFICES LeavesNew(e, t, k, n)
  OBVIOUS
<1>1. IsAssigned(a, t, k, n)
  BY AssignedEffect
<1> HIDE DEF a, e
<1>2. Len(a) = Len(t) \/ (Len(a) = Len(t) + 1 /\ a[Len(a)] = <<k, n>>)
  BY <1>1 DEF IsAssigned
<1>3. MaxWaiters \in Nat /\ MaxWaiters >= 1 /\ Len(a) \in Nat /\ Len(t) \in Nat
  BY <1>1, RequestsAssumption DEF IsAssigned
<1>4. CASE Len(a) <= MaxWaiters
  <2>1. e = a
    BY <1>3, <1>4 DEF e, Evicted
  <2>2. IsAssigned(e, t, k, n) /\ Len(e) <= MaxWaiters
    BY <1>1, <1>4, <2>1
  <2>3. QED
    BY <2>2 DEF IsAssigned, LeavesNew
<1>5. CASE Len(a) > MaxWaiters
  <2>1. e = Tail(a) /\ a # <<>> /\ Len(a) = Len(t) + 1 /\ a[Len(a)] = <<k, n>>
    BY <1>2, <1>3, <1>5 DEF e, Evicted
  <2>2. e \in Seq(Entry) /\ Len(e) = Len(a) - 1 /\ \A i \in 1..Len(e) : e[i] = a[i + 1]
    BY <1>1, <2>1, HeadTailProperties DEF IsAssigned
  <2>3. KeysOnce(e)
    <3>1. SUFFICES ASSUME NEW i \in 1..Len(e), NEW j \in 1..Len(e), e[i][1] = e[j][1]
                   PROVE  i = j
      BY DEF KeysOnce
    <3>2. i + 1 \in 1..Len(a) /\ j + 1 \in 1..Len(a) /\ a[i + 1][1] = a[j + 1][1]
      BY <1>3, <2>2, <3>1
    <3>3. i + 1 = j + 1
      BY <1>1, <3>2 DEF IsAssigned, KeysOnce
    <3>4. QED
      BY <3>3
  <2>4. \A j \in 1..Len(e) : e[j] = <<k, n>> \/ \E i \in 1..Len(t) : e[j] = t[i]
    <3>1. SUFFICES ASSUME NEW j \in 1..Len(e)
                   PROVE  e[j] = <<k, n>> \/ \E i \in 1..Len(t) : e[j] = t[i]
      OBVIOUS
    <3>2. j + 1 \in 1..Len(a) /\ e[j] = a[j + 1]
      BY <1>3, <2>2
    <3>3. QED
      BY <1>1, <3>2 DEF IsAssigned
  <2>5. Len(e) \in 1..Len(e) /\ e[Len(e)] = <<k, n>> /\ Len(e) <= MaxWaiters
    BY <1>2, <1>3, <1>5, <2>1, <2>2
  <2>6. \E j \in 1..Len(e) : e[j] = <<k, n>>
    BY <2>5
  <2>7. e \in Seq(Entry) /\ Len(e) <= MaxWaiters
    BY <2>2, <2>5
  <2>8. QED
    BY <2>3, <2>4, <2>6, <2>7 DEF LeavesNew
<1>6. QED
  BY <1>3, <1>4, <1>5

----------------------------------------------------------------------------
\* The table of those who wait for an acknowledgement.

\* An index is one.
LEMMA NextIdxIsIndex ==
  ASSUME TableShapes, NEW chan
  PROVE  NextIdx(chan) \in 0..(IndexSpace - 1)
<1> DEFINE S == {n \in DOMAIN sends : sends[n].chan = chan}
<1>1. DOMAIN sends = 1..Len(sends) /\ Len(sends) \in Int
  BY DEF TableShapes
<1>2. IsFiniteSet(1..Len(sends))
  BY <1>1, FS_Interval
<1>3. S \in SUBSET (1..Len(sends))
  BY <1>1
<1>4. IsFiniteSet(S)
  BY <1>2, <1>3, FS_Subset
<1>5. Cardinality(S) \in Nat
  BY <1>4, FS_CardinalityType
<1> HIDE DEF S
<1>6. IndexSpace \in Nat \ {0}
  BY RequestsAssumption
<1>7. Cardinality(S) % IndexSpace \in 0..(IndexSpace - 1)
  BY <1>5, <1>6
<1>8. QED
  BY <1>7 DEF NextIdx, S

\* Sending one more DRW takes no pending future off the table.
LEMMA SendKeeps ==
  ASSUME TableInv, NEW chan \in {"command", "audio"}, NEW cmd \in Cmds \cup {None},
         Send(chan, cmd)
  PROVE  /\ TableInv'
         /\ sends' \in Seq(Drw) /\ Len(sends') = Len(sends) + 1
         /\ \A n \in 1..Len(sends) : sends'[n] = sends[n]
         /\ sends'[Len(sends) + 1].cmd = cmd
<1> DEFINE n == Len(sends) + 1
           idx == NextIdx(chan)
           drw == [chan |-> chan, idx |-> idx, cmd |-> cmd]
           dropped == Held(order) \ Held(order')
           old == [m \in DOMAIN acked |->
                     IF m \in dropped /\ acked[m] = "pending" THEN "cancelled" ELSE acked[m]]
<1>1. /\ n <= MaxSends /\ sends' = Append(sends, drw)
      /\ order' = Evicted(Assigned(order, idx, n))
      /\ acked' = Append(old, "pending")
  BY DEF Send
<1>2. /\ sends \in Seq(Drw) /\ acked \in Seq(Status) /\ Len(acked) = Len(sends)
      /\ order \in Seq(Entry) /\ Len(sends) \in Nat
      /\ \A i \in 1..Len(order) : order[i][2] <= Len(sends)
  BY DEF TableInv, TableShapes
<1>3. idx \in 0..(IndexSpace - 1)
  BY NextIdxIsIndex DEF TableInv
<1> HIDE DEF idx
<1>4. drw \in Drw
  BY <1>3 DEF Drw
<1>5. /\ sends' \in Seq(Drw) /\ Len(sends') = n
      /\ \A m \in 1..Len(sends) : sends'[m] = sends[m]
      /\ sends'[n] = drw
  BY <1>1, <1>2, <1>4, AppendProperties
<1>6. <<idx, n>> \in Entry
  BY <1>2, <1>3 DEF Entry
<1>7. LeavesNew(order', order, idx, n)
  BY <1>1, <1>2, <1>6, TableAfterSend DEF TableInv
<1>8. /\ acked' \in Seq(Status) /\ Len(acked') = n
      /\ \A m \in 1..Len(sends) :
           acked'[m] = IF m \in dropped /\ acked[m] = "pending" THEN "cancelled" ELSE acked[m]
  <2>1. DOMAIN acked = 1..Len(sends) /\ \A m \in 1..Len(sends) : acked[m] \in Status
    BY <1>2
  <2> HIDE DEF dropped
  <2>2. old = [m \in 1..Len(sends) |->
                 IF m \in dropped /\ acked[m] = "pending" THEN "cancelled" ELSE acked[m]]
    BY <2>1
  <2>3. old \in Seq(Status) /\ Len(old) = Len(sends)
    BY <1>2, <2>1, <2>2, IsASeq DEF Status
  <2>4. "pending" \in Status
    BY DEF Status
  <2>5. /\ acked' \in Seq(Status) /\ Len(acked') = n
        /\ \A m \in 1..Len(sends) : acked'[m] = old[m]
    <3> HIDE DEF old
    <3>1. QED
      BY <1>1, <2>3, <2>4, AppendProperties
  <2>6. QED
    BY <2>2, <2>5
<1> HIDE DEF old, drw
<1>9. TableShapes'
  <2>1. ASSUME NEW j \in 1..Len(order') PROVE order'[j][2] <= n
    <3>1. CASE order'[j] = <<idx, n>>
      BY <1>2, <3>1
    <3>2. CASE \E i \in 1..Len(order) : order'[j] = order[i]
      BY <1>2, <3>2 DEF Entry
    <3>3. QED
      BY <1>7, <3>1, <3>2 DEF LeavesNew
  <2>2. order' \in Seq(Entry)
    BY <1>7 DEF LeavesNew
  <2>3. QED
    BY <1>1, <1>5, <1>8, <2>1, <2>2 DEF TableShapes
<1>10. Len(order') <= MaxWaiters /\ KeysOnce(order')
  BY <1>7 DEF LeavesNew
<1>11. KeysAreTrue'
  <2>1. SUFFICES ASSUME NEW j \in 1..Len(order')
                 PROVE  order'[j][1] = sends'[order'[j][2]].idx
    BY DEF KeysAreTrue
  <2>2. CASE order'[j] = <<idx, n>>
    BY <1>5, <2>2 DEF drw
  <2>3. CASE \E i \in 1..Len(order) : order'[j] = order[i]
    <3>1. PICK i \in 1..Len(order) : order'[j] = order[i]
      BY <2>3
    <3>2. order[i][2] \in 1..Len(sends)
      BY <1>2 DEF Entry
    <3>3. QED
      BY <1>5, <3>1, <3>2 DEF TableInv, KeysAreTrue
  <2>4. QED
    BY <1>7, <2>2, <2>3 DEF LeavesNew
<1>12. PendingIsHeld'
  <2>1. SUFFICES ASSUME NEW m \in 1..Len(sends'), acked'[m] = "pending"
                 PROVE  \E j \in 1..Len(order') : order'[j][2] = m
    BY DEF PendingIsHeld
  <2>2. CASE m = n
    <3>1. PICK j \in 1..Len(order') : order'[j] = <<idx, n>>
      BY <1>7 DEF LeavesNew
    <3>2. QED
      BY <2>2, <3>1
  <2>3. CASE m # n
    <3>1. m \in 1..Len(sends)
      BY <1>2, <1>5, <2>3
    <3>2. acked[m] = "pending" /\ m \notin dropped
      BY <1>8, <2>1, <3>1
    <3>3. \E i \in 1..Len(order) : order[i][2] = m
      BY <3>1, <3>2 DEF TableInv, PendingIsHeld
    <3>4. m \in Held(order)
      BY <1>2, <3>3 DEF Held
    <3>5. m \in Held(order')
      BY <3>2, <3>4
    <3>6. DOMAIN order' = 1..Len(order')
      BY <1>9 DEF TableShapes
    <3>7. QED
      BY <3>5, <3>6 DEF Held
  <2>4. QED
    BY <2>2, <2>3
<1>13. QED
  BY <1>5, <1>9, <1>10, <1>11, <1>12 DEF TableInv, drw

\* Taking a key off the table once its future is not pending any more.
LEMMA PopKeeps ==
  ASSUME TableInv, NEW p \in 1..Len(order),
         order' = Without(order, order[p][1]), UNCHANGED sends,
         acked' \in Seq(Status), Len(acked') = Len(acked),
         acked'[order[p][2]] # "pending",
         \A m \in 1..Len(acked) : acked'[m] = "pending" => acked[m] = "pending"
  PROVE  TableInv'
<1>1. order \in Seq(Entry) /\ KeysOnce(order)
  BY DEF TableInv, TableShapes
<1>2. IsWithout(order', order, order[p][1])
  BY <1>1, WithoutEffect
<1>3. Len(order') \in Nat /\ Len(order) \in Nat /\ MaxWaiters \in Nat
  BY <1>1, <1>2, RequestsAssumption DEF IsWithout
<1>4. TableShapes'
  BY <1>2 DEF IsWithout, TableInv, TableShapes
<1>5. Len(order') <= MaxWaiters /\ KeysOnce(order')
  BY <1>2, <1>3 DEF IsWithout, TableInv
<1>6. KeysAreTrue'
  <2>1. SUFFICES ASSUME NEW j \in 1..Len(order')
                 PROVE  order'[j][1] = sends[order'[j][2]].idx
    BY DEF KeysAreTrue
  <2>2. PICK i \in 1..Len(order) : order'[j] = order[i]
    BY <1>2 DEF IsWithout
  <2>3. QED
    BY <2>2 DEF TableInv, KeysAreTrue
<1>7. PendingIsHeld'
  <2>1. SUFFICES ASSUME NEW m \in 1..Len(sends), acked'[m] = "pending"
                 PROVE  \E j \in 1..Len(order') : order'[j][2] = m
    BY DEF PendingIsHeld
  <2>2. acked[m] = "pending"
    BY <2>1 DEF TableInv, TableShapes
  <2>3. PICK i \in 1..Len(order) : order[i][2] = m
    BY <2>2 DEF TableInv, PendingIsHeld
  <2>4. order[i][1] # order[p][1]
    BY <2>1, <2>3 DEF TableInv, KeysOnce
  <2>5. PICK j \in 1..Len(order') : order'[j] = order[i]
    BY <1>2, <2>4 DEF IsWithout
  <2>6. QED
    BY <2>3, <2>5
<1>8. QED
  BY <1>4, <1>5, <1>6, <1>7 DEF TableInv

----------------------------------------------------------------------------
\* The clients and their responses.

\* The command of a client is that of the DRW it sent.
LEMMA CmdStays ==
  ASSUME ClientShapes, NEW c \in Clients, pc[c] \in Waiting, mine'[c] = mine[c],
         \A n \in 1..Len(sends) : sends'[n] = sends[n]
  PROVE  Cmd(c)' = Cmd(c)
<1>1. mine[c] \in 1..Len(sends)
  BY DEF ClientShapes
<1>2. QED
  BY <1>1 DEF Cmd

\* A request takes over the waiter of its command: a request under way that had it
\* becomes a rival, and so does the new one.
LEMMA RequestKeeps ==
  ASSUME RequestsInv, NEW c \in Clients, NEW cmd \in Cmds, Request(c, cmd)
  PROVE  RequestsInv'
<1> DEFINE n == Len(sends) + 1
           old == [m \in DOMAIN result |->
                     IF m = waiters[cmd] /\ result[m] = "pending" THEN "cancelled" ELSE result[m]]
<1>1. /\ pc[c] = "idle" /\ Send("command", cmd)
      /\ pc' = [pc EXCEPT ![c] = "ack"] /\ mine' = [mine EXCEPT ![c] = Len(sends')]
      /\ outcome' = [outcome EXCEPT ![c] = "none"]
      /\ heard' = [heard EXCEPT ![c] = FALSE]
      /\ rival' = [d \in Clients |-> IF d = c THEN \E e \in Clients : Awaits(e, cmd)
                                            ELSE rival[d] \/ Awaits(d, cmd)]
      /\ UNCHANGED on
  BY DEF Request
<1>2. /\ TableInv' /\ sends' \in Seq(Drw) /\ Len(sends') = n /\ sends'[n].cmd = cmd
      /\ \A m \in 1..Len(sends) : sends'[m] = sends[m]
  BY <1>1, SendKeeps DEF RequestsInv
<1>3. Len(sends) \in Nat
  BY DEF RequestsInv, TableInv, TableShapes
<1>4. waiters' = [waiters EXCEPT ![cmd] = n] /\ result' = Append(old, "pending")
  BY <1>2 DEF Request, ResetCmdWaiter
<1>5. ClientShapes
  BY DEF RequestsInv
<1>6. /\ result' \in Seq(Status) /\ Len(result') = n
      /\ \A m \in 1..Len(sends) : result'[m] = "pending" => result[m] = "pending"
  <2>1. /\ DOMAIN result = 1..Len(sends)
        /\ \A m \in 1..Len(sends) : result[m] \in Status
    BY <1>5 DEF ClientShapes
  <2>2. old = [m \in 1..Len(sends) |->
                 IF m = waiters[cmd] /\ result[m] = "pending" THEN "cancelled" ELSE result[m]]
    BY <2>1
  <2>3. old \in Seq(Status) /\ Len(old) = Len(sends)
    BY <1>3, <2>1, <2>2, IsASeq DEF Status
  <2>4. "pending" \in Status
    BY DEF Status
  <2>5. /\ result' \in Seq(Status) /\ Len(result') = n
        /\ \A m \in 1..Len(sends) : result'[m] = old[m]
    <3> HIDE DEF old
    <3>1. QED
      BY <1>4, <2>3, <2>4, AppendProperties
  <2>6. QED
    BY <2>2, <2>5
<1> HIDE DEF old
<1>7. /\ mine'[c] = n /\ Cmd(c)' = cmd
      /\ \A d \in Clients : d # c => /\ pc'[d] = pc[d] /\ mine'[d] = mine[d]
                                     /\ heard'[d] = heard[d] /\ outcome'[d] = outcome[d]
  BY <1>1, <1>2, <1>5 DEF ClientShapes, Cmd
<1>8. \A d \in Clients : d # c /\ pc[d] \in Waiting => Cmd(d)' = Cmd(d)
  BY <1>2, <1>5, <1>7, CmdStays
<1>9. ClientShapes'
  <2>1. /\ waiters' \in [Cmds -> 0..n] /\ on' \in [Clients -> 0..n]
        /\ mine' \in [Clients -> 0..n]
    BY <1>1, <1>2, <1>3, <1>4, <1>5 DEF ClientShapes
  <2>2. /\ pc' \in [Clients -> {"idle"} \cup Waiting]
        /\ outcome' \in [Clients -> {"none", "answer", "empty", "noack", "timeout", "cancelled"}]
        /\ heard' \in [Clients -> BOOLEAN]
    BY <1>1, <1>5 DEF ClientShapes, Waiting
  <2>6. rival' \in [Clients -> BOOLEAN]
    <3>1. \A d \in Clients : rival'[d] \in BOOLEAN
      BY <1>1, <1>5 DEF ClientShapes, Awaits
    <3>2. QED
      BY <1>1, <3>1
  <2>3. ASSUME NEW d \in Clients, pc'[d] \in Waiting
        PROVE  mine'[d] # 0 /\ Cmd(d)' \in Cmds
    <3>1. CASE d = c
      BY <1>3, <1>7, <3>1
    <3>2. CASE d # c
      BY <1>5, <1>7, <1>8, <2>3, <3>2 DEF ClientShapes
    <3>3. QED
      BY <3>1, <3>2
  <2>4. \A d \in Clients : pc'[d] = "result" => on'[d] # 0
    BY <1>1, <1>5 DEF ClientShapes
  <2>7. QED
    BY <1>2, <1>6, <2>1, <2>2, <2>3, <2>4, <2>6 DEF ClientShapes
<1>10. OwnWaiters'
  <2>1. OwnWaiters
    BY DEF RequestsInv
  <2>2. /\ rival'[c] = FALSE => \A d \in Clients : pc[d] \in Waiting => Cmd(d) # cmd
        /\ \A d \in Clients : d # c /\ ~rival'[d] =>
             ~rival[d] /\ (pc[d] \in Waiting => Cmd(d) # cmd)
    BY <1>1 DEF Awaits
  <2>3. ASSUME NEW d \in Clients, pc'[d] \in Waiting, ~rival'[d]
        PROVE  /\ \A e \in Clients : pc'[e] \in Waiting /\ Cmd(e)' = Cmd(d)' => e = d
               /\ waiters'[Cmd(d)'] = mine'[d]
               /\ pc'[d] = "result" => on'[d] = mine'[d]
               /\ heard'[d] => result'[mine'[d]] # "pending"
               /\ outcome'[d] = "none"
    <3>1. CASE d = c
      <4>1. pc'[d] = "ack" /\ heard'[d] = FALSE /\ outcome'[d] = "none"
        BY <1>1, <1>5, <3>1 DEF ClientShapes
      <4>2. waiters'[cmd] = n
        BY <1>4, <1>5 DEF ClientShapes
      <4>3. rival'[c] = FALSE
        BY <1>9, <2>3, <3>1 DEF ClientShapes
      <4>4. \A e \in Clients : pc'[e] \in Waiting /\ Cmd(e)' = Cmd(d)' => e = d
        BY <1>7, <1>8, <2>2, <3>1, <4>3
      <4>5. QED
        BY <1>7, <3>1, <4>1, <4>2, <4>4
    <3>2. CASE d # c
      <4>1. /\ pc[d] \in Waiting /\ Cmd(d)' = Cmd(d) /\ mine'[d] = mine[d]
            /\ heard'[d] = heard[d] /\ outcome'[d] = outcome[d] /\ pc'[d] = pc[d]
        BY <1>7, <1>8, <2>3, <3>2
      <4>2. ~rival[d] /\ Cmd(d) # cmd /\ Cmd(d) \in Cmds /\ mine[d] \in 1..Len(sends)
        BY <1>5, <2>2, <2>3, <3>2, <4>1 DEF ClientShapes
      <4>3. waiters'[Cmd(d)] = waiters[Cmd(d)]
        BY <1>4, <1>5, <4>2 DEF ClientShapes
      <4>4. \A e \in Clients : pc'[e] \in Waiting /\ Cmd(e)' = Cmd(d)' => e = d
        <5>1. SUFFICES ASSUME NEW e \in Clients, pc'[e] \in Waiting, Cmd(e)' = Cmd(d)'
                       PROVE  e = d
          OBVIOUS
        <5>2. e # c
          BY <1>7, <4>1, <4>2, <5>1
        <5>3. pc[e] \in Waiting /\ Cmd(e) = Cmd(d)
          BY <1>7, <1>8, <4>1, <5>1, <5>2
        <5>4. QED
          BY <2>1, <4>1, <4>2, <5>3 DEF OwnWaiters
      <4>5. QED
        BY <1>1, <1>6, <2>1, <4>1, <4>2, <4>3, <4>4 DEF OwnWaiters
    <3>3. QED
      BY <3>1, <3>2
  <2>4. AnswerNotMissed'
    <3>1. heard'[c] = FALSE
      BY <1>1, <1>5 DEF ClientShapes
    <3>2. QED
      BY <1>7, <2>1, <2>2, <3>1 DEF OwnWaiters, AnswerNotMissed
  <2>5. QED
    BY <2>3, <2>4 DEF OwnWaiters
<1>11. QED
  BY <1>2, <1>9, <1>10 DEF RequestsInv

\* A step that leaves the clients where they are, and no more than resolves
\* futures.
LEMMA FutureStepKeeps ==
  ASSUME RequestsInv, TableInv',
         UNCHANGED <<waiters, pc, mine, on, outcome, rival>>,
         \A n \in 1..Len(sends) : sends'[n] = sends[n],
         Len(sends') \in Nat, Len(sends) <= Len(sends'),
         result' \in Seq(Status), Len(result') = Len(sends'),
         \A n \in 1..Len(sends) : result'[n] = "pending" => result[n] = "pending",
         heard' \in [Clients -> BOOLEAN],
         \A c \in Clients : ~rival[c] =>
           (heard'[c] => heard[c] \/ (pc[c] \in Waiting /\ result'[mine[c]] # "pending"))
  PROVE  RequestsInv'
<1>1. ClientShapes /\ Len(sends) \in Nat
  BY DEF RequestsInv, TableInv, TableShapes
<1>2. \A c \in Clients : pc[c] \in Waiting => Cmd(c)' = Cmd(c)
  BY <1>1, CmdStays
<1>3. ClientShapes'
  <2>1. /\ waiters' \in [Cmds -> 0..Len(sends')]
        /\ mine' \in [Clients -> 0..Len(sends')] /\ on' \in [Clients -> 0..Len(sends')]
    BY <1>1 DEF ClientShapes
  <2>2. QED
    BY <1>1, <1>2, <2>1 DEF ClientShapes
<1>4. OwnWaiters'
  <2>1. OwnWaiters
    BY DEF RequestsInv
  <2>2. ASSUME NEW d \in Clients, pc'[d] \in Waiting, ~rival'[d]
        PROVE  /\ \A e \in Clients : pc'[e] \in Waiting /\ Cmd(e)' = Cmd(d)' => e = d
               /\ waiters'[Cmd(d)'] = mine'[d]
               /\ pc'[d] = "result" => on'[d] = mine'[d]
               /\ heard'[d] => result'[mine'[d]] # "pending"
               /\ outcome'[d] = "none"
    <3>1. mine[d] \in 1..Len(sends)
      BY <1>1, <2>2 DEF ClientShapes
    <3>2. heard'[d] => result'[mine[d]] # "pending"
      BY <2>1, <2>2, <3>1 DEF OwnWaiters
    <3>3. \A e \in Clients : pc'[e] \in Waiting /\ Cmd(e)' = Cmd(d)' => e = d
      BY <1>2, <2>1, <2>2 DEF OwnWaiters
    <3>4. QED
      BY <1>2, <2>1, <2>2, <3>2, <3>3 DEF OwnWaiters
  <2>3. AnswerNotMissed'
    BY <2>1 DEF OwnWaiters, AnswerNotMissed
  <2>4. QED
    BY <2>2, <2>3 DEF OwnWaiters
<1>5. QED
  BY <1>3, <1>4 DEF RequestsInv

\* A DRW nobody awaits a response to.
LEMMA SendOnlyKeeps ==
  ASSUME RequestsInv, NEW chan \in {"command", "audio"}, SendOnly(chan)
  PROVE  RequestsInv'
<1>1. /\ Send(chan, None) /\ result' = Append(result, "pending")
      /\ UNCHANGED <<waiters, pc, mine, on, outcome, heard, rival>>
  BY DEF SendOnly, clientVars
<1>2. /\ TableInv' /\ Len(sends') = Len(sends) + 1
      /\ \A m \in 1..Len(sends) : sends'[m] = sends[m]
  BY <1>1, SendKeeps DEF RequestsInv
<1>3. Len(sends) \in Nat /\ Len(result) = Len(sends) /\ result \in Seq(Status)
      /\ heard \in [Clients -> BOOLEAN]
  BY DEF RequestsInv, TableInv, TableShapes, ClientShapes
<1>4. /\ result' \in Seq(Status) /\ Len(result') = Len(sends')
      /\ \A m \in 1..Len(sends) : result'[m] = result[m]
  <2>1. "pending" \in Status
    BY DEF Status
  <2>2. QED
    BY <1>1, <1>2, <1>3, <2>1, AppendProperties
<1>5. QED
  BY <1>1, <1>2, <1>3, <1>4, FutureStepKeeps

\* An acknowledgement, of whatever channel, resolves the future under its index.
LEMMA AckKeeps ==
  ASSUME RequestsInv, NEW n \in DOMAIN sends, AckArrives(n)
  PROVE  RequestsInv'
<1>1. UNCHANGED <<sends, waiters, result, pc, mine, on, outcome, heard, rival>>
  BY DEF AckArrives, clientVars
<1>2. TableInv
  BY DEF RequestsInv
<1>3. PICK i \in DOMAIN order :
        /\ order[i][1] = sends[n].idx
        /\ acked' = [acked EXCEPT ![order[i][2]] = IF @ = "pending" THEN "done" ELSE @]
  BY DEF AckArrives
<1>4. i \in 1..Len(order)
  BY <1>2 DEF TableInv, TableShapes
<1>5. order' = Without(order, order[i][1])
  BY <1>3 DEF AckArrives
<1>6. order[i][2] \in 1..Len(acked)
  BY <1>2, <1>4 DEF TableInv, TableShapes, Entry
<1>7. /\ acked' \in Seq(Status) /\ Len(acked') = Len(acked)
      /\ acked'[order[i][2]] # "pending"
      /\ \A m \in 1..Len(acked) : acked'[m] = "pending" => acked[m] = "pending"
  <2> DEFINE w == order[i][2]
             to == IF acked[w] = "pending" THEN "done" ELSE acked[w]
  <2>1. acked \in Seq(Status) /\ to \in Status /\ to # "pending" /\ w \in 1..Len(acked)
    BY <1>2, <1>6 DEF TableInv, TableShapes, Status
  <2>2. acked' = [acked EXCEPT ![w] = to]
    BY <1>3
  <2> HIDE DEF w, to
  <2>3. /\ acked' \in Seq(Status) /\ Len(acked') = Len(acked)
        /\ \A m \in 1..Len(acked) : acked'[m] = IF m = w THEN to ELSE acked[m]
    BY <2>1, <2>2, ExceptSeq
  <2>4. QED
    BY <2>1, <2>3 DEF w
<1>8. TableInv'
  BY <1>1, <1>2, <1>5, <1>7, <1>4, PopKeeps
<1>9. /\ Len(sends) \in Nat /\ result \in Seq(Status) /\ Len(result) = Len(sends)
      /\ heard \in [Clients -> BOOLEAN]
  BY DEF RequestsInv, TableInv, TableShapes, ClientShapes
<1>10. QED
  BY <1>1, <1>8, <1>9, FutureStepKeeps

\* A response goes to whoever waits for one to the command.
LEMMA ResponseKeeps ==
  ASSUME RequestsInv, NEW n \in DOMAIN sends, ResponseArrives(n)
  PROVE  RequestsInv'
<1> DEFINE cmd == sends[n].cmd
           w == waiters[cmd]
<1>1. /\ cmd # None
      /\ result' = IF w # 0 /\ result[w] = "pending" THEN [result EXCEPT ![w] = "done"] ELSE result
      /\ heard' = [c \in Clients |-> heard[c] \/ (pc[c] \in Waiting /\ Cmd(c) = cmd)]
      /\ UNCHANGED <<sends, order, acked, waiters, pc, mine, on, outcome, rival>>
  BY DEF ResponseArrives, ResolveResponse, Awaits
<1>2. ClientShapes /\ TableInv
  BY DEF RequestsInv
<1>3. cmd \in Cmds
  <2>1. sends \in Seq(Drw)
    BY <1>2 DEF TableInv, TableShapes
  <2>2. sends[n] \in Drw
    BY <2>1
  <2>3. QED
    BY <1>1, <2>2 DEF Drw
<1> HIDE DEF cmd
<1>4. w \in 0..Len(sends) /\ Len(sends) \in Nat
  BY <1>2, <1>3 DEF ClientShapes, TableInv, TableShapes
<1>5. /\ result' \in Seq(Status) /\ Len(result') = Len(result)
      /\ w # 0 => result'[w] # "pending"
      /\ \A m \in 1..Len(result) : result'[m] = "pending" => result[m] = "pending"
  <2> HIDE DEF w
  <2>1. result \in Seq(Status) /\ Len(result) = Len(sends)
    BY <1>2 DEF ClientShapes
  <2>2. CASE w # 0 /\ result[w] = "pending"
    <3>1. result' = [result EXCEPT ![w] = "done"] /\ w \in 1..Len(result) /\ "done" \in Status
      BY <1>1, <1>4, <2>1, <2>2 DEF Status
    <3>2. /\ result' \in Seq(Status) /\ Len(result') = Len(result)
          /\ \A m \in 1..Len(result) : result'[m] = IF m = w THEN "done" ELSE result[m]
      BY <2>1, <3>1, ExceptSeq
    <3>3. QED
      BY <3>1, <3>2
  <2>3. CASE ~(w # 0 /\ result[w] = "pending")
    BY <1>1, <2>1, <2>3
  <2>4. QED
    BY <2>2, <2>3
<1>6. TableInv'
  BY <1>1, <1>2 DEF TableInv, TableShapes, KeysAreTrue, PendingIsHeld
<1>7. heard' \in [Clients -> BOOLEAN]
  BY <1>1
<1>8. ASSUME NEW c \in Clients, ~rival[c], heard'[c], ~heard[c]
      PROVE  pc[c] \in Waiting /\ result'[mine[c]] # "pending"
  <2>1. pc[c] \in Waiting /\ Cmd(c) = cmd
    BY <1>1, <1>8
  <2>2. mine[c] = w /\ mine[c] # 0
    BY <1>2, <1>8, <2>1 DEF RequestsInv, OwnWaiters, ClientShapes
  <2>3. QED
    BY <1>5, <2>1, <2>2
<1>9. QED
  BY <1>1, <1>2, <1>4, <1>5, <1>6, <1>7, <1>8, FutureStepKeeps DEF ClientShapes

----------------------------------------------------------------------------
\* A request that is over leaves the others' waiters alone, for it is at most the
\* waiter of its own command that it takes off the table.
LEMMA EndsKeep ==
  ASSUME RequestsInv, TableInv', UNCHANGED sends,
         NEW c \in Clients, pc[c] \in Waiting,
         NEW how \in {"answer", "empty", "noack", "timeout", "cancelled"}, Ends(c, how),
         waiters' \in {waiters, [waiters EXCEPT ![Cmd(c)] = 0]},
         result' \in Seq(Status), Len(result') = Len(result),
         \A n \in 1..Len(result) : result'[n] = "pending" => result[n] = "pending",
         heard[c] /\ ~rival[c] => how \notin {"empty", "timeout"}
  PROVE  RequestsInv'
<1>1. /\ pc' = [pc EXCEPT ![c] = "idle"] /\ outcome' = [outcome EXCEPT ![c] = how]
      /\ mine' = [mine EXCEPT ![c] = 0] /\ on' = [on EXCEPT ![c] = 0]
      /\ UNCHANGED <<heard, rival>>
  BY DEF Ends
<1>2. ClientShapes /\ Len(sends) \in Nat
  BY DEF RequestsInv, TableInv, TableShapes
<1>3. /\ pc'[c] = "idle" /\ outcome'[c] = how
      /\ \A d \in Clients : d # c => /\ pc'[d] = pc[d] /\ outcome'[d] = outcome[d]
                                     /\ mine'[d] = mine[d] /\ on'[d] = on[d]
  BY <1>1, <1>2 DEF ClientShapes
<1>4. \A d \in Clients : pc'[d] \in Waiting => d # c /\ pc[d] \in Waiting /\ Cmd(d)' = Cmd(d)
  <2>1. SUFFICES ASSUME NEW d \in Clients, pc'[d] \in Waiting
                 PROVE  d # c /\ pc[d] \in Waiting /\ Cmd(d)' = Cmd(d)
    OBVIOUS
  <2>2. d # c
    BY <1>3, <2>1 DEF Waiting
  <2>3. QED
    BY <1>3, <2>1, <2>2 DEF Cmd
<1>5. ClientShapes'
  <2>1. /\ pc' \in [Clients -> {"idle"} \cup Waiting]
        /\ mine' \in [Clients -> 0..Len(sends)] /\ on' \in [Clients -> 0..Len(sends)]
        /\ outcome' \in [Clients -> {"none", "answer", "empty", "noack", "timeout", "cancelled"}]
    BY <1>1, <1>2 DEF ClientShapes
  <2>2. waiters' \in [Cmds -> 0..Len(sends)]
    <3>1. waiters \in [Cmds -> 0..Len(sends)] /\ 0 \in 0..Len(sends)
      BY <1>2 DEF ClientShapes
    <3>2. [waiters EXCEPT ![Cmd(c)] = 0] \in [Cmds -> 0..Len(sends)]
      BY <3>1
    <3>3. QED
      BY <3>1, <3>2
  <2>3. \A d \in Clients : pc'[d] \in Waiting => mine'[d] # 0 /\ Cmd(d)' \in Cmds
    BY <1>2, <1>3, <1>4 DEF ClientShapes
  <2>4. \A d \in Clients : pc'[d] = "result" => on'[d] # 0
    BY <1>2, <1>3 DEF ClientShapes
  <2>5. QED
    BY <1>1, <1>2, <2>1, <2>2, <2>3, <2>4 DEF ClientShapes
<1>6. OwnWaiters'
  <2>1. OwnWaiters
    BY DEF RequestsInv
  <2>2. ASSUME NEW d \in Clients, pc'[d] \in Waiting, ~rival'[d]
        PROVE  /\ \A e \in Clients : pc'[e] \in Waiting /\ Cmd(e)' = Cmd(d)' => e = d
               /\ waiters'[Cmd(d)'] = mine'[d]
               /\ pc'[d] = "result" => on'[d] = mine'[d]
               /\ heard'[d] => result'[mine'[d]] # "pending"
               /\ outcome'[d] = "none"
    <3>1. /\ d # c /\ pc[d] \in Waiting /\ Cmd(d)' = Cmd(d) /\ ~rival[d]
          /\ pc'[d] = pc[d] /\ mine'[d] = mine[d] /\ on'[d] = on[d] /\ outcome'[d] = outcome[d]
      BY <1>1, <1>3, <1>4, <2>2
    <3>2. Cmd(d) # Cmd(c) /\ Cmd(d) \in Cmds
      BY <1>2, <2>1, <3>1 DEF OwnWaiters, ClientShapes
    <3>3. waiters'[Cmd(d)] = waiters[Cmd(d)]
      BY <1>2, <3>2 DEF ClientShapes
    <3>4. mine[d] \in 1..Len(result)
      BY <1>2, <3>1 DEF ClientShapes
    <3>5. \A e \in Clients : pc'[e] \in Waiting /\ Cmd(e)' = Cmd(d)' => e = d
      BY <1>4, <2>1, <3>1 DEF OwnWaiters
    <3>6. QED
      BY <1>1, <2>1, <3>1, <3>3, <3>4, <3>5 DEF OwnWaiters
  <2>3. AnswerNotMissed'
    <3>1. SUFFICES ASSUME NEW d \in Clients, heard[d], ~rival[d]
                   PROVE  outcome'[d] \notin {"empty", "timeout"}
      BY <1>1 DEF AnswerNotMissed
    <3>2. CASE d = c
      BY <1>3, <3>1, <3>2
    <3>3. CASE d # c
      BY <1>3, <2>1, <3>1, <3>3 DEF OwnWaiters, AnswerNotMissed
    <3>4. QED
      BY <3>2, <3>3
  <2>4. QED
    BY <2>2, <2>3 DEF OwnWaiters
<1>7. QED
  BY <1>5, <1>6 DEF RequestsInv

\* A step of a client that leaves the table of acknowledgements alone.
LEMMA TableStays ==
  ASSUME RequestsInv, UNCHANGED <<sends, order, acked>>
  PROVE  TableInv'
BY DEF RequestsInv, TableInv, TableShapes, KeysOnce, KeysAreTrue, PendingIsHeld

\* The end of wait_cmd_result with the future of DRW w.
LEMMA ResultDoneKeeps ==
  ASSUME RequestsInv, NEW c \in Clients, pc[c] \in Waiting, NEW w, ResultDone(c, w),
         UNCHANGED <<sends, order, acked, result>>
  PROVE  RequestsInv'
<1>1. PICK how \in {"answer", "cancelled"} : Ends(c, how)
  BY DEF ResultDone
<1>2. waiters' = [waiters EXCEPT ![Cmd(c)] = 0]
  BY DEF ResultDone
<1>3. TableInv'
  BY TableStays
<1>4. result' \in Seq(Status)
  BY DEF RequestsInv, ClientShapes
<1>5. how \in {"answer", "empty", "noack", "timeout", "cancelled"} /\ how \notin {"empty", "timeout"}
  OBVIOUS
<1>6. QED
  BY <1>1, <1>2, <1>3, <1>4, <1>5, EndsKeep

\* An acknowledged request without a rival finds its own waiter, so that it is not
\* told that there is none; a response that came is already in it.
LEMMA AckSeenKeeps ==
  ASSUME RequestsInv, NEW c \in Clients, AckSeen(c)
  PROVE  RequestsInv'
<1> DEFINE w == waiters[Cmd(c)]
<1>1. pc[c] = "ack" /\ pc[c] \in Waiting /\ UNCHANGED <<sends, order, acked, result>>
  BY DEF AckSeen, Waiting
<1>2. ClientShapes /\ TableInv' /\ result' \in Seq(Status)
  BY <1>1, TableStays DEF RequestsInv, ClientShapes
<1>3. CASE w = 0 /\ Ends(c, "empty") /\ UNCHANGED waiters
  <2>1. rival[c]
    BY <1>1, <1>2, <1>3 DEF RequestsInv, OwnWaiters, ClientShapes
  <2>2. QED
    BY <1>1, <1>2, <1>3, <2>1, EndsKeep
<1>4. CASE w # 0 /\ ResultDone(c, w)
  BY <1>1, <1>4, ResultDoneKeeps
<1>5. CASE /\ w # 0 /\ result[w] = "pending"
           /\ pc' = [pc EXCEPT ![c] = "result"] /\ on' = [on EXCEPT ![c] = w]
           /\ UNCHANGED <<waiters, mine, outcome, heard, rival>>
  <2>1. w \in 0..Len(sends)
    BY <1>1, <1>2 DEF ClientShapes
  <2>2. \A d \in Clients : (pc'[d] \in Waiting <=> pc[d] \in Waiting) /\ Cmd(d)' = Cmd(d)
    BY <1>1, <1>2, <1>5 DEF ClientShapes, Waiting, Cmd
  <2>3. ClientShapes'
    <3>1. /\ pc' \in [Clients -> {"idle"} \cup Waiting] /\ on' \in [Clients -> 0..Len(sends)]
      BY <1>2, <1>5, <2>1 DEF ClientShapes, Waiting
    <3>2. \A d \in Clients : pc'[d] = "result" => on'[d] # 0
      BY <1>2, <1>5 DEF ClientShapes
    <3>3. QED
      BY <1>1, <1>2, <1>5, <2>2, <3>1, <3>2 DEF ClientShapes
  <2>4. OwnWaiters'
    <3>1. OwnWaiters /\ (~rival[c] => w = mine[c])
      BY <1>1 DEF RequestsInv, OwnWaiters
    <3>2. \A d \in Clients : pc'[d] = "result" /\ ~rival[d] => on'[d] = mine'[d]
      <4>1. SUFFICES ASSUME NEW d \in Clients, pc'[d] = "result", ~rival[d]
                     PROVE  on'[d] = mine'[d]
        OBVIOUS
      <4>2. CASE d = c
        BY <1>2, <1>5, <3>1, <4>1, <4>2 DEF ClientShapes
      <4>3. CASE d # c
        <5>1. pc[d] = "result" /\ on'[d] = on[d] /\ mine'[d] = mine[d] /\ pc[d] \in Waiting
          BY <1>2, <1>5, <4>1, <4>3 DEF ClientShapes, Waiting
        <5>2. QED
          BY <3>1, <4>1, <5>1 DEF OwnWaiters
      <4>4. QED
        BY <4>2, <4>3
    <3>3. QED
      BY <1>1, <1>5, <2>2, <3>1, <3>2 DEF OwnWaiters, AnswerNotMissed
  <2>5. QED
    BY <1>2, <2>3, <2>4 DEF RequestsInv
<1>6. QED
  BY <1>3, <1>4, <1>5 DEF AckSeen

\* The acknowledgement is cancelled, or does not come.
LEMMA AckEndsKeep ==
  ASSUME RequestsInv, NEW c \in Clients, AckCancelled(c) \/ AckTimeout(c)
  PROVE  RequestsInv'
<1>1. /\ pc[c] \in Waiting /\ UNCHANGED <<sends, waiters, result>>
      /\ Ends(c, "cancelled") \/ Ends(c, "noack")
  BY DEF AckCancelled, AckTimeout, Waiting, futureVars
<1>2. ClientShapes /\ TableInv /\ result' \in Seq(Status)
  BY <1>1 DEF RequestsInv, ClientShapes
<1>3. TableInv'
  <2>1. CASE AckCancelled(c)
    BY <2>1, TableStays DEF AckCancelled, futureVars
  <2>2. CASE AckTimeout(c)
    <3> DEFINE n == mine[c]
    <3>1. acked[n] = "pending" /\ n \in 1..Len(sends)
      BY <1>1, <1>2, <2>2 DEF AckTimeout, ClientShapes
    <3>2. PICK p \in 1..Len(order) : order[p][2] = n
      BY <1>2, <3>1 DEF TableInv, PendingIsHeld
    <3>3. order[p][1] = sends[n].idx
      BY <1>2, <3>2 DEF TableInv, KeysAreTrue
    <3>4. order' = Without(order, order[p][1]) /\ acked' = [acked EXCEPT ![n] = "cancelled"]
      BY <2>2, <3>3 DEF AckTimeout
    <3>5. acked \in Seq(Status) /\ n \in 1..Len(acked) /\ "cancelled" \in Status
      BY <1>2, <3>1 DEF TableInv, TableShapes, Status
    <3> HIDE DEF n
    <3>6. /\ acked' \in Seq(Status) /\ Len(acked') = Len(acked)
          /\ \A m \in 1..Len(acked) : acked'[m] = IF m = n THEN "cancelled" ELSE acked[m]
      BY <3>4, <3>5, ExceptSeq
    <3>7. acked'[order[p][2]] # "pending"
      BY <3>2, <3>5, <3>6
    <3>8. \A m \in 1..Len(acked) : acked'[m] = "pending" => acked[m] = "pending"
      BY <3>6
    <3>9. QED
      BY <1>1, <1>2, <3>4, <3>6, <3>7, <3>8, PopKeeps
  <2>3. QED
    BY <2>1, <2>2
<1>4. QED
  BY <1>1, <1>2, <1>3, EndsKeep

\* The response is in, or does not come.
LEMMA ResultEndsKeep ==
  ASSUME RequestsInv, NEW c \in Clients, ResultSeen(c) \/ ResultTimeout(c)
  PROVE  RequestsInv'
<1>1. pc[c] = "result" /\ pc[c] \in Waiting /\ UNCHANGED <<sends, order, acked>>
  BY DEF ResultSeen, ResultTimeout, Waiting
<1>2. CASE ResultSeen(c)
  BY <1>1, <1>2, ResultDoneKeeps DEF ResultSeen
<1>3. CASE ResultTimeout(c)
  <2>1. ClientShapes /\ TableInv'
    BY <1>1, TableStays DEF RequestsInv
  <2>2. /\ result[on[c]] = "pending" /\ result' = [result EXCEPT ![on[c]] = "cancelled"]
        /\ waiters' = [waiters EXCEPT ![Cmd(c)] = 0] /\ Ends(c, "timeout")
    BY <1>3 DEF ResultTimeout
  <2>3. on[c] \in 1..Len(result) /\ result \in Seq(Status) /\ "cancelled" \in Status
    BY <1>1, <2>1 DEF ClientShapes, RequestsInv, TableInv, TableShapes, Status
  <2>4. /\ result' \in Seq(Status) /\ Len(result') = Len(result)
        /\ \A n \in 1..Len(result) : result'[n] = IF n = on[c] THEN "cancelled" ELSE result[n]
    BY <2>2, <2>3, ExceptSeq
  <2>5. ~rival[c] => ~heard[c]
    BY <1>1, <2>2 DEF RequestsInv, OwnWaiters
  <2>6. QED
    BY <1>1, <2>1, <2>2, <2>4, <2>5, EndsKeep
<1>4. QED
  BY <1>2, <1>3

----------------------------------------------------------------------------
\* Nothing has been sent yet.
LEMMA InitEstablishes == RequestsInit => RequestsInv
<1> SUFFICES ASSUME RequestsInit PROVE RequestsInv
  OBVIOUS
<1>1. Len(sends) = 0 /\ Len(order) = 0 /\ Len(acked) = 0 /\ Len(result) = 0
  BY DEF RequestsInit
<1>2. sends \in Seq(Drw) /\ order \in Seq(Entry) /\ acked \in Seq(Status) /\ result \in Seq(Status)
  BY DEF RequestsInit
<1>3. TableInv
  BY <1>1, <1>2, RequestsAssumption
     DEF TableInv, TableShapes, KeysOnce, KeysAreTrue, PendingIsHeld
<1>4. /\ \A c \in Clients : pc[c] = "idle" /\ outcome[c] = "none"
      /\ pc \in [Clients -> {"idle"} \cup Waiting]
      /\ mine \in [Clients -> 0..0] /\ on \in [Clients -> 0..0] /\ waiters \in [Cmds -> 0..0]
      /\ outcome \in [Clients -> {"none", "answer", "empty", "noack", "timeout", "cancelled"}]
      /\ heard = [c \in Clients |-> FALSE] /\ rival = [c \in Clients |-> FALSE]
  BY DEF RequestsInit
<1>5. ClientShapes
  BY <1>1, <1>2, <1>4 DEF ClientShapes, Waiting
<1>6. OwnWaiters
  BY <1>4 DEF OwnWaiters, AnswerNotMissed, Waiting
<1>7. QED
  BY <1>3, <1>5, <1>6 DEF RequestsInv

\* Every step keeps the invariant.
LEMMA RequestsInvStep == RequestsInv /\ [RequestsNext]_requestVars => RequestsInv'
<1> SUFFICES ASSUME RequestsInv, [RequestsNext]_requestVars PROVE RequestsInv'
  OBVIOUS
<1>1. CASE UNCHANGED requestVars
  <2>1. /\ UNCHANGED <<sends, order, acked, waiters, result>>
        /\ UNCHANGED <<pc, mine, on, outcome, heard, rival>>
    BY <1>1 DEF requestVars, futureVars, clientVars
  <2>2. TableInv'
    BY <2>1, TableStays
  <2>3. QED
    BY <2>1, <2>2 DEF RequestsInv, ClientShapes, OwnWaiters, AnswerNotMissed, Cmd
<1>2. CASE \E c \in Clients, m \in Cmds : Request(c, m)
  BY <1>2, RequestKeeps
<1>3. CASE \E chan \in {"command", "audio"} : SendOnly(chan)
  BY <1>3, SendOnlyKeeps
<1>4. CASE \E n \in DOMAIN sends : AckArrives(n)
  BY <1>4, AckKeeps
<1>5. CASE \E n \in DOMAIN sends : ResponseArrives(n)
  BY <1>5, ResponseKeeps
<1>6. CASE \E c \in Clients : GoesOn(c)
  BY <1>6, AckSeenKeeps, AckEndsKeep, ResultEndsKeep DEF GoesOn
<1>7. QED
  BY <1>1, <1>2, <1>3, <1>4, <1>5, <1>6 DEF RequestsNext

\* The invariant the properties follow from.
THEOREM RequestsInvariant == RequestsSpec => []RequestsInv
<1>1. RequestsInit => RequestsInv
  BY InitEstablishes
<1>2. RequestsInv /\ [RequestsNext]_requestVars => RequestsInv'
  BY RequestsInvStep
<1>3. QED
  BY <1>1, <1>2, PTL DEF RequestsSpec

\* Every variable keeps its type.
THEOREM RequestsTypeCorrect == RequestsSpec => []RequestsTypeOK
<1>1. RequestsInv => RequestsTypeOK
  <2> SUFFICES ASSUME RequestsInv PROVE RequestsTypeOK
    OBVIOUS
  <2>1. TableShapes /\ ClientShapes
    BY DEF RequestsInv, TableInv
  <2>2. DOMAIN sends = 1..Len(sends) /\ DOMAIN order = 1..Len(order) /\ Len(sends) \in Nat
    BY <2>1 DEF TableShapes
  <2>3. \A i \in DOMAIN order : order[i] \in (0..(IndexSpace - 1)) \X DOMAIN sends
    BY <2>1, <2>2 DEF TableShapes, Entry
  <2>4. \A n \in DOMAIN sends : acked[n] \in Status /\ result[n] \in Status
    BY <2>1, <2>2 DEF TableShapes, ClientShapes
  <2>5. 0..Len(sends) = {0} \cup DOMAIN sends
    BY <2>2
  <2>6. QED
    BY <2>1, <2>3, <2>4, <2>5 DEF RequestsTypeOK, TableShapes, ClientShapes, Status
<1>2. QED
  BY <1>1, RequestsInvariant, PTL

\* drw_waiters is a dict within its cap, for any cap and any number of DRWs.
THEOREM DrwWaitersAreBounded == RequestsSpec => []WaitersBounded
<1>1. RequestsInv => WaitersBounded
  BY DEF RequestsInv, TableInv, TableShapes, KeysOnce, WaitersBounded
<1>2. QED
  BY <1>1, RequestsInvariant, PTL

\* Who waits for an acknowledgement has a waiter under the index of its DRW,
\* whoever else makes requests: only eviction cancels it, and then says so.
AckReachable ==
  \A c \in Clients :
    pc[c] = "ack" /\ acked[mine[c]] = "pending" =>
      \E i \in DOMAIN order : order[i] = <<sends[mine[c]].idx, mine[c]>>

\* An acknowledgement finds the waiter of its DRW (session.py:434-439).
THEOREM AcksFindTheirWaiter == RequestsSpec => []AckReachable
<1>1. RequestsInv => AckReachable
  <2> SUFFICES ASSUME RequestsInv, NEW c \in Clients, pc[c] = "ack", acked[mine[c]] = "pending"
               PROVE  \E i \in DOMAIN order : order[i] = <<sends[mine[c]].idx, mine[c]>>
    BY DEF AckReachable
  <2>1. mine[c] \in 1..Len(sends) /\ order \in Seq(Entry)
    BY DEF RequestsInv, TableInv, TableShapes, ClientShapes, Waiting
  <2>2. PICK i \in 1..Len(order) : order[i][2] = mine[c]
    BY <2>1 DEF RequestsInv, TableInv, PendingIsHeld
  <2>3. order[i][1] = sends[mine[c]].idx /\ order[i] \in Entry
    BY <2>1, <2>2 DEF RequestsInv, TableInv, KeysAreTrue
  <2>4. order[i] = <<sends[mine[c]].idx, mine[c]>> /\ i \in DOMAIN order
    BY <2>1, <2>2, <2>3 DEF Entry
  <2>5. QED
    BY <2>4
<1>2. QED
  BY <1>1, RequestsInvariant, PTL

\* Nobody waits for an acknowledgement that has nowhere to go, whatever the others
\* do, and nobody for a response but one of several for the same command
\* (session.py:423-439, 661-685).
THEOREM WaitersAreReachable == RequestsSpec => []WaiterReachable
<1>1. RequestsInv /\ AckReachable => WaiterReachable
  <2> SUFFICES ASSUME RequestsInv, AckReachable, NEW c \in Clients
               PROVE  /\ pc[c] = "ack" /\ acked[mine[c]] = "pending" => mine[c] \in Held(order)
                      /\ pc[c] = "result" /\ result[on[c]] = "pending" /\ ~rival[c] =>
                           waiters[Cmd(c)] = on[c]
    BY DEF WaiterReachable
  <2>1. pc[c] = "ack" /\ acked[mine[c]] = "pending" => mine[c] \in Held(order)
    BY DEF AckReachable, Held
  <2>2. pc[c] = "result" /\ ~rival[c] => waiters[Cmd(c)] = on[c]
    BY DEF RequestsInv, OwnWaiters, Waiting
  <2>3. QED
    BY <2>1, <2>2
<1>2. QED
  BY <1>1, RequestsInvariant, AcksFindTheirWaiter, PTL

\* A response that came while its request was under way is not reported missing
\* unless another request for the command overlapped it (session.py:661-685).
THEOREM AnswersAreNotMissed == RequestsSpec => []AnswerNotMissed
<1>1. RequestsInv => AnswerNotMissed
  BY DEF RequestsInv, OwnWaiters
<1>2. QED
  BY <1>1, RequestsInvariant, PTL
=============================================================================
