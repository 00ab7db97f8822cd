-------------------------- MODULE DeviceLifeProofs --------------------------
(***************************************************************************)
(* Proofs about DeviceLife, for any set of sessions and every order of the *)
(* user's calls, the reconnect task and what the sessions do by themselves.*)
(***************************************************************************)
EXTENDS DeviceLife, TLAPS

\* DeviceTypeOK, a conjunct per variable.
Shapes ==
  /\ sess \in Sessions \cup {None}
  /\ enable \in BOOLEAN /\ closing \in BOOLEAN /\ want \in BOOLEAN /\ cancelled \in BOOLEAN
  /\ asked \in BOOLEAN /\ clean \in BOOLEAN /\ lost \in BOOLEAN /\ hasty \in BOOLEAN
  /\ loop \in Running \cup {"none", "over"}
  /\ user \in {"idle", "finding", "waiting", "viewing", "closingLoop", "closingMain"}
  /\ on \in [Callers -> Sessions \cup {None}]
  /\ state \in [Sessions -> Live \cup {"unused", "ended"}]
  /\ usable \in [Sessions -> BOOLEAN] /\ video \in [Sessions -> BOOLEAN]
  /\ maker \in [Sessions -> Callers \cup {None}]

\* Whoever waits for a session holds on to one.
HoldersHold ==
  /\ user \in {"waiting", "viewing"} => on["user"] \in Sessions
  /\ loop = "waiting" => on["loop"] \in Sessions

\* A session is usable once it got ready, or was stopped; the device has none
\* that is yet to be made, which have no video.
SessionShape ==
  /\ sess # None => state[sess] # "unused"
  /\ \A s \in Sessions :
       /\ usable[s] => state[s] \in {"ready", "broken", "ended"}
       /\ state[s] = "ready" => usable[s]
       /\ state[s] = "unused" => ~video[s]

\* A cancellation under way is that of a close() which waits for it.
CancelIsAwaited ==
  /\ cancelled => user = "closingLoop" /\ loop \in Known
  /\ user = "closingLoop" => closing

\* What the reconnect task is up to with the session it made itself.
OwnSession ==
  sess # None /\ maker[sess] = "loop" =>
    /\ loop \notin {"sleeping", "finding", "closing"}
    /\ loop = "waiting" => on["loop"] = sess
    /\ loop = "timedout" => closing
    /\ loop \notin Running /\ ~closing => state[sess] \notin {"opening", "starting"}

\* Video runs in the device's session only if it is wanted.
VideoIsWanted ==
  /\ user = "viewing" => want
  /\ sess # None /\ video[sess] => want

\* VideoIsResumed, whatever the user is doing meanwhile.
VideoFollows ==
  sess # None /\ state[sess] = "ready" /\ maker[sess] = "loop" /\ loop \notin Running /\ ~closing
  => video[sess] = want

\* What holds however the user calls connect().
AnyhowInv ==
  /\ Shapes /\ HoldersHold /\ SessionShape /\ CancelIsAwaited
  /\ OwnSession /\ VideoIsWanted /\ VideoFollows

\* No session is left behind, because whoever looks for a new one does so alone
\* and without one; and a close() stays ahead of the reconnect task.
Orderly ==
  /\ \A s \in Sessions : state[s] \in Live => s = sess
  /\ user = "finding" => sess = None /\ loop \notin Running
  /\ loop \in {"finding", "closing"} => sess = None
  /\ loop \in {"timedout", "closing"} => closing
  /\ user \in {"finding", "waiting"} => ~clean
  /\ user = "closingMain" \/ clean => sess = None /\ loop \notin Known

DeviceInv == AnyhowInv /\ (~hasty => Orderly)

----------------------------------------------------------------------------
\* Shapes says what DeviceTypeOK says.
LEMMA ShapesAreTypes == Shapes => DeviceTypeOK
BY Zenon DEF Shapes, DeviceTypeOK

\* A new device is in order.
LEMMA InitEstablishes == DeviceInit => DeviceInv
<1> SUFFICES ASSUME DeviceInit PROVE DeviceInv
  OBVIOUS
<1>1. Shapes
  BY DEF DeviceInit, Shapes, Running, Live, Callers
<1>2. HoldersHold /\ SessionShape /\ CancelIsAwaited
  BY DEF DeviceInit, HoldersHold, SessionShape, CancelIsAwaited
<1>3. OwnSession /\ VideoIsWanted /\ VideoFollows
  BY DEF DeviceInit, OwnSession, VideoIsWanted, VideoFollows
<1>4. Orderly
  BY DEF DeviceInit, Orderly, Live, Known, Running
<1>5. QED
  BY <1>1, <1>2, <1>3, <1>4 DEF DeviceInv, AnyhowInv

----------------------------------------------------------------------------
\* The steps that keep AnyhowInv, whatever the user does.

\* What a session does by itself until it is lost disturbs no task: a session the
\* reconnect task made gets ready only while that task waits for it.
LEMMA SessionStepKeeps ==
  ASSUME AnyhowInv, NEW s \in Sessions,
         GetsTransport(s) \/ GetsReady(s) \/ Breaks(s) \/ EndsSilently(s)
  PROVE  AnyhowInv'
<1> USE DEF AnyhowInv
<1>1. UNCHANGED <<deviceVars, taskVars, pastVars, video, maker>>
  BY DEF GetsTransport, GetsReady, Breaks, EndsSilently
<1>2. \/ /\ state[s] = "starting" /\ state' = [state EXCEPT ![s] = "ready"]
         /\ usable' = [usable EXCEPT ![s] = TRUE]
      \/ /\ state[s] = "broken" /\ UNCHANGED state
         /\ usable' = [usable EXCEPT ![s] = TRUE]
      \/ /\ state[s] \in {"opening", "starting", "ready"} /\ UNCHANGED usable
         /\ \/ state[s] = "opening" /\ state' = [state EXCEPT ![s] = "starting"]
            \/ state[s] # "opening" /\ state' = [state EXCEPT ![s] = "broken"]
            \/ state[s] # "ready" /\ state' = [state EXCEPT ![s] = "failed"]
            \/ state[s] # "ready" /\ state' = [state EXCEPT ![s] = "cut"]
  BY DEF GetsTransport, GetsReady, Breaks, EndsSilently, AnyhowInv, Shapes
<1>3. Shapes'
  <2>1. state' \in [Sessions -> Live \cup {"unused", "ended"}]
    BY <1>2 DEF Shapes, Live
  <2>2. usable' \in [Sessions -> BOOLEAN]
    BY <1>2 DEF Shapes
  <2>3. QED
    BY <1>1, <2>1, <2>2 DEF Shapes, deviceVars, taskVars, pastVars
<1>4. SessionShape'
  BY <1>1, <1>2 DEF SessionShape, Shapes, deviceVars
<1>5. OwnSession' /\ VideoFollows'
  BY <1>1, <1>2 DEF OwnSession, VideoFollows, SessionShape, Shapes, deviceVars, taskVars
<1>6. HoldersHold' /\ CancelIsAwaited' /\ VideoIsWanted'
  BY <1>1 DEF HoldersHold, CancelIsAwaited, VideoIsWanted,
              deviceVars, taskVars, pastVars
<1>7. QED
  BY <1>3, <1>4, <1>5, <1>6

\* A loss takes the device's session away, and has a reconnect task at work
\* unless the device is closed.
LEMMA LostKeeps ==
  ASSUME AnyhowInv, NEW s \in Sessions, Lost(s)
  PROVE  AnyhowInv'
<1> USE DEF AnyhowInv
<1>1. /\ UNCHANGED <<enable, closing, want, cancelled, user, on, maker, asked, clean, hasty>>
      /\ sess' = None /\ lost' = TRUE
      /\ loop' = IF enable /\ ~closing /\ loop \notin Known THEN "sleeping" ELSE loop
  BY DEF Lost, Stopped, StartLoop
<1>2. /\ state' = [state EXCEPT ![s] = "ended"]
      /\ usable' = [usable EXCEPT ![s] = TRUE]
      /\ video' = [video EXCEPT ![s] = FALSE]
  BY DEF Lost, Stopped
<1>3. Shapes'
  BY <1>1, <1>2 DEF Shapes, Running, Live
<1>4. SessionShape'
  BY <1>1, <1>2 DEF SessionShape, Shapes
<1>5. HoldersHold' /\ CancelIsAwaited'
  BY <1>1 DEF HoldersHold, CancelIsAwaited, Known, Running
<1>6. OwnSession' /\ VideoIsWanted' /\ VideoFollows'
  BY <1>1 DEF OwnSession, VideoIsWanted, VideoFollows
<1>7. QED
  BY <1>3, <1>4, <1>5, <1>6

\* connect() is called without a session only, so it forgets no loss that is
\* not its own business.
LEMMA UserConnectsKeeps ==
  ASSUME AnyhowInv, UserConnects
  PROVE  AnyhowInv'
<1> USE DEF AnyhowInv
<1>1. /\ user = "idle" /\ sess = None /\ closing' = FALSE /\ user' = "finding"
      /\ asked' = FALSE /\ clean' = FALSE /\ lost' = FALSE
      /\ hasty' = (hasty \/ loop \in Running)
      /\ UNCHANGED <<enable, sess, want, loop, cancelled, on, state, usable, video, maker>>
  BY DEF UserConnects, sessionVars
<1>2. Shapes'
  BY <1>1 DEF Shapes
<1>3. HoldersHold' /\ SessionShape' /\ CancelIsAwaited'
  BY <1>1 DEF HoldersHold, SessionShape, CancelIsAwaited
<1>4. OwnSession' /\ VideoIsWanted' /\ VideoFollows'
  BY <1>1 DEF OwnSession, VideoIsWanted, VideoFollows
<1>5. QED
  BY <1>2, <1>3, <1>4

\* A new session has no video; whoever made it waits for it.
LEMMA FoundKeeps ==
  ASSUME AnyhowInv, NEW c \in Callers, NEW s \in Sessions, Found(c, s)
  PROVE  AnyhowInv'
<1> USE DEF AnyhowInv
<1>1. /\ state[s] = "unused" /\ sess' = s
      /\ state' = [state EXCEPT ![s] = "opening"]
      /\ maker' = [maker EXCEPT ![s] = c]
      /\ on' = [on EXCEPT ![c] = s]
      /\ UNCHANGED <<enable, closing, want, cancelled, usable, video, pastVars>>
  BY DEF Found
<1>2. \/ /\ c = "user" /\ user = "finding" /\ user' = "waiting" /\ UNCHANGED loop
      \/ /\ c = "loop" /\ loop = "finding" /\ ~cancelled
         /\ loop' = "waiting" /\ UNCHANGED user
  BY DEF Found, Connecting, Goes, Callers
<1>3. Shapes'
  BY <1>1, <1>2 DEF Shapes, Running, Live, Callers, pastVars
<1>4. HoldersHold' /\ CancelIsAwaited'
  BY <1>1, <1>2 DEF HoldersHold, CancelIsAwaited, Shapes, Callers
<1>5. SessionShape'
  BY <1>1 DEF SessionShape, Shapes
<1>6. OwnSession' /\ VideoFollows'
  BY <1>1, <1>2 DEF OwnSession, VideoFollows, Shapes, Running, Callers
<1>7. ~video'[s]
  BY <1>1 DEF SessionShape
<1>8. VideoIsWanted'
  BY <1>1, <1>2, <1>7 DEF VideoIsWanted
<1>9. QED
  BY <1>3, <1>4, <1>5, <1>6, <1>8

----------------------------------------------------------------------------
\* A call of connect() or close() that raises: the user's is over, the reconnect
\* task goes on unless there is a reason not to.
LEMMA RaisesKeeps ==
  ASSUME AnyhowInv, NEW c \in Callers, Raises(c),
         c = "loop" => loop \in Running, ~cancelled,
         UNCHANGED <<sess, sessionVars, enable, want, on, cancelled, lost>>,
         asked' \in BOOLEAN, clean' \in BOOLEAN, hasty' \in BOOLEAN, closing' \in BOOLEAN,
         closing => closing',
         \* the reconnect task lets go of its own session only when it is past hope
         c = "loop" /\ sess # None /\ maker[sess] = "loop" /\ ~closing' =>
           state[sess] \notin {"opening", "starting", "ready"}
  PROVE  AnyhowInv'
<1> USE DEF AnyhowInv
<1>1. \/ c = "user" /\ user' = "idle" /\ UNCHANGED loop
      \/ /\ c = "loop" /\ UNCHANGED user
         /\ loop' = IF enable /\ ~closing' /\ sess' = None THEN "sleeping" ELSE "over"
  BY DEF Raises, Goes, Callers
<1>2. Shapes'
  BY <1>1 DEF Shapes, Running, sessionVars
<1>3. HoldersHold' /\ SessionShape' /\ CancelIsAwaited' /\ VideoIsWanted'
  BY <1>1 DEF HoldersHold, SessionShape, CancelIsAwaited, VideoIsWanted, sessionVars
<1>4. OwnSession' /\ VideoFollows'
  BY <1>1 DEF OwnSession, VideoFollows, Running, sessionVars, Shapes
<1>5. QED
  BY <1>2, <1>3, <1>4

\* connect() that does not find the camera, or whose session fails it.  (Where
\* it is a CancelledError that ends the reconnect task, the condition of its
\* while would have ended it as well.)
LEMMA ConnectFailsKeeps ==
  ASSUME AnyhowInv, NEW c \in Callers, FindFails(c) \/ ConnectFails(c)
  PROVE  AnyhowInv'
<1>1. /\ UNCHANGED <<deviceVars, cancelled, on, sessionVars, pastVars>>
      /\ Connecting(c, "finding") \/ Connecting(c, "waiting")
      /\ Raises(c)
  BY DEF FindFails, ConnectFails, Raises, Goes, deviceVars, Callers
<1>2. c = "loop" => loop \in Running
  BY <1>1 DEF Connecting, Running
<1>3. ~cancelled
  BY <1>1 DEF Connecting, AnyhowInv, CancelIsAwaited, Callers
<1>4. c = "loop" /\ sess # None /\ maker[sess] = "loop" /\ ~closing =>
        state[sess] \notin {"opening", "starting", "ready"}
  <2>1. SUFFICES ASSUME c = "loop", sess # None, maker[sess] = "loop"
                 PROVE  state[sess] \notin {"opening", "starting", "ready"}
    OBVIOUS
  <2>2. loop # "finding"
    BY <2>1 DEF AnyhowInv, OwnSession
  <2>3. loop = "waiting" /\ ConnectFails(c)
    BY <1>1, <2>1, <2>2 DEF Connecting, FindFails
  <2>4. on["loop"] = sess /\ TaskDone(sess)
    BY <2>1, <2>3 DEF AnyhowInv, OwnSession, ConnectFails
  <2>5. QED
    BY <2>4 DEF TaskDone
<1>5. Shapes
  BY DEF AnyhowInv
<1>6. QED
  BY <1>1, <1>2, <1>3, <1>4, <1>5, RaisesKeeps DEF Shapes, deviceVars, pastVars

\* connect() that ends well: after a reconnect the session has video if it is
\* wanted, and had none before unless it was.
LEMMA ConnectDoneKeeps ==
  ASSUME AnyhowInv, NEW c \in Callers, ConnectDone(c)
  PROVE  AnyhowInv'
<1> USE DEF AnyhowInv
<1>1. /\ UNCHANGED <<deviceVars, cancelled, on, state, usable, maker, pastVars>>
      /\ usable[on[c]] /\ ~TaskDone(on[c]) /\ sess # None
      /\ IF c = "loop" THEN ResumesVideo ELSE UNCHANGED video
  BY DEF ConnectDone
<1>2. \/ c = "user" /\ user = "waiting" /\ user' = "idle" /\ UNCHANGED loop
      \/ /\ c = "loop" /\ loop = "waiting" /\ ~cancelled
         /\ loop' = "over" /\ UNCHANGED user
  BY DEF ConnectDone, Connecting, Goes, Callers
<1>3. \/ UNCHANGED video
      \/ c = "loop" /\ want /\ ~SendFails(sess) /\ video' = [video EXCEPT ![sess] = TRUE]
  BY <1>1 DEF ResumesVideo
<1>4. sess \in Sessions /\ on[c] \in Sessions
  BY <1>1, <1>2 DEF Shapes, HoldersHold
<1>5. state[on[c]] = "ready"
  BY <1>1, <1>4 DEF SessionShape, TaskDone
<1>6. Shapes'
  <2>1. video' \in [Sessions -> BOOLEAN]
    BY <1>3 DEF Shapes
  <2>2. QED
    BY <1>1, <1>2, <2>1 DEF Shapes, Running, deviceVars, pastVars
<1>7. HoldersHold' /\ CancelIsAwaited'
  BY <1>1, <1>2 DEF HoldersHold, CancelIsAwaited, deviceVars, pastVars
<1>8. SessionShape'
  <2>1. \A s \in Sessions : state[s] = "unused" => s # sess
    BY <1>1 DEF SessionShape
  <2>2. \A s \in Sessions : state[s] = "unused" => ~video'[s]
    BY <1>3, <1>4, <2>1 DEF Shapes, SessionShape
  <2>3. QED
    BY <1>1, <2>2 DEF SessionShape, deviceVars
<1>9. OwnSession'
  BY <1>1, <1>2, <1>5 DEF OwnSession, Running, deviceVars
<1>10. VideoIsWanted'
  BY <1>1, <1>2, <1>3 DEF VideoIsWanted, Shapes, deviceVars
<1>11. VideoFollows'
  <2>1. SUFFICES ASSUME maker[sess] = "loop", state[sess] = "ready", loop' \notin Running,
                        ~closing
                 PROVE  video'[sess] = want
    BY <1>1 DEF VideoFollows, deviceVars
  <2>2. CASE c = "user"
    BY <1>1, <1>2, <2>1, <2>2 DEF VideoFollows
  <2>3. CASE c = "loop" /\ want
    BY <1>1, <1>4, <2>1, <2>3 DEF ResumesVideo, SendFails, Shapes
  <2>4. CASE c = "loop" /\ ~want
    BY <1>1, <1>4, <2>4 DEF ResumesVideo, VideoIsWanted, Shapes
  <2>5. QED
    BY <2>2, <2>3, <2>4 DEF Callers
<1>12. QED
  BY <1>6, <1>7, <1>8, <1>9, <1>10, <1>11

----------------------------------------------------------------------------
\* The part of close() both callers have in common.
LEMMA CloseSessionKeeps ==
  ASSUME AnyhowInv, NEW c \in Callers, CloseSession(c), ~cancelled,
         UNCHANGED <<enable, want, cancelled, on, lost, hasty>>,
         asked' \in BOOLEAN, closing' \in BOOLEAN, closing => closing',
         c = "user" => closing',
         c = "loop" => loop = "timedout"
  PROVE  AnyhowInv'
<1> USE DEF AnyhowInv
<1>1. CASE sess = None \/ SendFails(sess)
  <2>1. Raises(c) /\ UNCHANGED <<sess, sessionVars>> /\ clean' \in BOOLEAN
    BY <1>1 DEF CloseSession, Shapes
  <2>2. c = "loop" /\ sess # None /\ maker[sess] = "loop" => closing'
    BY DEF OwnSession
  <2>3. c = "loop" => loop \in Running
    BY DEF Running
  <2>4. hasty' \in BOOLEAN
    BY DEF Shapes
  <2>5. QED
    BY <2>1, <2>2, <2>3, <2>4, RaisesKeeps
<1>2. CASE sess # None /\ ~SendFails(sess)
  <2>1. /\ state' = [state EXCEPT ![sess] = "ended"]
        /\ usable' = [usable EXCEPT ![sess] = TRUE]
        /\ video' = [video EXCEPT ![sess] = FALSE]
        /\ UNCHANGED <<maker, clean>>
        /\ sess' = None
    BY <1>2 DEF CloseSession, Stopped
  <2>2. \/ c = "user" /\ user' = "closingMain" /\ UNCHANGED loop
        \/ c = "loop" /\ loop' = "closing" /\ UNCHANGED user
    BY <1>2 DEF CloseSession, Goes, Callers
  <2>3. Shapes'
    BY <2>1, <2>2 DEF Shapes, Running, Live
  <2>4. HoldersHold' /\ CancelIsAwaited'
    BY <2>2 DEF HoldersHold, CancelIsAwaited
  <2>5. SessionShape'
    BY <2>1 DEF SessionShape, Shapes
  <2>6. OwnSession' /\ VideoFollows' /\ VideoIsWanted'
    BY <2>1, <2>2 DEF OwnSession, VideoFollows, VideoIsWanted
  <2>7. QED
    BY <2>3, <2>4, <2>5, <2>6
<1>3. QED
  BY <1>1, <1>2

\* close() of the user, who waits for the reconnect task if there is one.
LEMMA CloseForUserKeeps ==
  ASSUME AnyhowInv, CloseForUser, user # "closingLoop"
  PROVE  AnyhowInv'
<1> USE DEF AnyhowInv
<1>1. closing' = TRUE /\ asked' = TRUE /\ UNCHANGED <<enable, want, on, lost, hasty>>
  BY DEF CloseForUser
<1>2. CASE loop \in Known
  <2>1. /\ cancelled' = TRUE /\ user' = "closingLoop"
        /\ UNCHANGED <<sess, loop, state, usable, video, maker, clean>>
    BY <1>2 DEF CloseForUser, sessionVars
  <2>2. Shapes'
    BY <1>1, <2>1 DEF Shapes
  <2>3. HoldersHold' /\ SessionShape' /\ CancelIsAwaited' /\ VideoIsWanted'
    BY <1>1, <1>2, <2>1 DEF HoldersHold, SessionShape, CancelIsAwaited, VideoIsWanted
  <2>4. OwnSession' /\ VideoFollows'
    BY <1>1, <2>1 DEF OwnSession, VideoFollows
  <2>5. QED
    BY <2>2, <2>3, <2>4
<1>3. CASE loop \notin Known
  <2>1. UNCHANGED cancelled /\ CloseSession("user")
    BY <1>3 DEF CloseForUser
  <2>2. ~cancelled
    BY DEF CancelIsAwaited
  <2>3. QED
    BY <1>1, <2>1, <2>2, CloseSessionKeeps DEF Callers
<1>4. QED
  BY <1>2, <1>3

\* The rest of close(), by whoever was waiting.
LEMMA CloseGoesOn ==
  ASSUME AnyhowInv, LoopIsGone \/ LoopClosesItself
  PROVE  AnyhowInv'
<1> USE DEF AnyhowInv
<1>1. UNCHANGED <<enable, closing, want, cancelled, on, asked, lost, hasty>>
  BY DEF LoopIsGone, LoopClosesItself
<1>2. asked' \in BOOLEAN /\ closing' \in BOOLEAN
  BY <1>1 DEF Shapes
<1>3. CASE LoopIsGone
  <2>1. user = "closingLoop" /\ loop \notin Running /\ CloseSession("user")
    BY <1>3 DEF LoopIsGone
  <2>2. ~cancelled /\ closing
    BY <2>1 DEF CancelIsAwaited, Known
  <2>3. QED
    BY <1>1, <1>2, <2>1, <2>2, CloseSessionKeeps DEF Callers
<1>4. CASE LoopClosesItself
  <2>1. loop = "timedout" /\ ~cancelled /\ CloseSession("loop")
    BY <1>4 DEF LoopClosesItself
  <2>2. QED
    BY <1>1, <1>2, <2>1, CloseSessionKeeps DEF Callers
<1>5. QED
  BY <1>3, <1>4

\* close() returns.
LEMMA CloseDoneKeeps ==
  ASSUME AnyhowInv, NEW c \in Callers, CloseDone(c)
  PROVE  AnyhowInv'
<1>1. /\ UNCHANGED <<deviceVars, cancelled, on, sessionVars, asked, lost, hasty>>
      /\ Raises(c) /\ clean' \in BOOLEAN
      /\ IF c = "user" THEN user = "closingMain" ELSE loop = "closing" /\ ~cancelled
  BY DEF CloseDone, AnyhowInv, Shapes
<1>2. ~cancelled
  BY <1>1 DEF AnyhowInv, CancelIsAwaited
<1>3. c = "loop" => loop \in Running /\ ~(sess # None /\ maker[sess] = "loop")
  BY <1>1 DEF AnyhowInv, OwnSession, Running
<1>4. asked' \in BOOLEAN /\ hasty' \in BOOLEAN /\ closing' \in BOOLEAN
  BY <1>1 DEF AnyhowInv, Shapes, deviceVars
<1>5. QED
  BY <1>1, <1>2, <1>3, <1>4, RaisesKeeps DEF deviceVars

\* connect() gives up on its session: the device closes itself, or has none.
LEMMA ConnectTimesOutKeeps ==
  ASSUME AnyhowInv, NEW c \in Callers, ConnectTimesOut(c)
  PROVE  AnyhowInv'
<1> USE DEF AnyhowInv
<1>1. Connecting(c, "waiting")
  BY DEF ConnectTimesOut
<1>2. ~cancelled
  BY <1>1 DEF Connecting, CancelIsAwaited
<1>3. CASE sess = None
  <2>1. UNCHANGED <<deviceVars, cancelled, on, sessionVars, pastVars>> /\ Raises(c)
    BY <1>3 DEF ConnectTimesOut
  <2>2. c = "loop" => loop \in Running
    BY <1>1 DEF Connecting, Running
  <2>3. QED
    BY <1>2, <1>3, <2>1, <2>2, RaisesKeeps DEF Shapes, deviceVars, pastVars
<1>4. CASE sess # None /\ c = "user"
  BY <1>1, <1>4, CloseForUserKeeps DEF ConnectTimesOut, Connecting
<1>5. CASE sess # None /\ c = "loop"
  <2>1. /\ closing' = TRUE /\ loop = "waiting" /\ loop' = "timedout"
        /\ UNCHANGED <<enable, sess, want, cancelled, user, on, state, usable, video,
                       maker, pastVars>>
    BY <1>1, <1>5 DEF ConnectTimesOut, Connecting, sessionVars
  <2>2. Shapes'
    BY <2>1 DEF Shapes, Running, pastVars
  <2>3. HoldersHold' /\ SessionShape' /\ CancelIsAwaited' /\ VideoIsWanted'
    BY <1>2, <2>1 DEF HoldersHold, SessionShape, CancelIsAwaited, VideoIsWanted
  <2>4. OwnSession' /\ VideoFollows'
    BY <2>1 DEF OwnSession, VideoFollows
  <2>5. QED
    BY <2>2, <2>3, <2>4
<1>6. QED
  BY <1>3, <1>4, <1>5 DEF Callers

----------------------------------------------------------------------------
\* The reconnect task wakes up, or is cancelled, the latter by a close() only.
LEMMA TaskStepKeeps ==
  ASSUME AnyhowInv, SleepOver \/ LoopCancelled
  PROVE  AnyhowInv'
<1> USE DEF AnyhowInv
<1>1. UNCHANGED <<enable, sess, closing, want, user, on, state, usable, video, maker, pastVars>>
  BY DEF SleepOver, LoopCancelled, deviceVars, sessionVars
<1>2. \/ /\ loop = "sleeping" /\ ~cancelled /\ UNCHANGED cancelled
         /\ loop' = IF ~closing /\ sess = None THEN "finding" ELSE "over"
      \/ /\ cancelled /\ cancelled' = FALSE /\ closing
         /\ loop' = loop \/ loop' = "over"
  BY DEF SleepOver, LoopCancelled, CancelIsAwaited
<1>3. Shapes'
  <2>1. loop' \in Running \cup {"none", "over"} /\ cancelled' \in BOOLEAN
    BY <1>2 DEF Shapes, Running
  <2>2. QED
    BY <1>1, <2>1 DEF Shapes, pastVars
<1>4. HoldersHold' /\ SessionShape' /\ CancelIsAwaited' /\ VideoIsWanted'
  BY <1>1, <1>2 DEF HoldersHold, SessionShape, CancelIsAwaited, VideoIsWanted
<1>5. OwnSession' /\ VideoFollows'
  BY <1>1, <1>2 DEF OwnSession, VideoFollows, Running, pastVars
<1>6. QED
  BY <1>3, <1>4, <1>5

\* start_video and stop_video act on the device's own session, except that one
\* that was held up acts on the session it was called for.
LEMMA VideoStepKeeps ==
  ASSUME AnyhowInv, UserStartsVideo \/ VideoStarts \/ UserStopsVideo
  PROVE  AnyhowInv'
<1> USE DEF AnyhowInv
<1>1. UNCHANGED <<enable, sess, closing, loop, cancelled, state, usable, maker, pastVars>>
  BY DEF UserStartsVideo, VideoStarts, UserStopsVideo, deviceVars, taskVars
<1>2. CASE UserStartsVideo
  <2>1. want' = TRUE /\ on' = [on EXCEPT !["user"] = sess] /\ user = "idle"
    BY <1>2 DEF UserStartsVideo
  <2>2. \/ sess = None /\ user' = "idle" /\ UNCHANGED video
        \/ sess # None /\ usable[sess] /\ Started(sess)
        \/ sess # None /\ ~usable[sess] /\ user' = "viewing" /\ UNCHANGED video
    BY <1>2 DEF UserStartsVideo
  <2>3. Shapes'
    <3>1. video' \in [Sessions -> BOOLEAN]
      BY <2>2 DEF Shapes, Started
    <3>2. on' \in [Callers -> Sessions \cup {None}]
      BY <2>1 DEF Shapes
    <3>3. QED
      BY <1>1, <2>1, <2>2, <3>1, <3>2 DEF Shapes, Started, pastVars
  <2>4. HoldersHold' /\ CancelIsAwaited'
    BY <1>1, <2>1, <2>2 DEF HoldersHold, CancelIsAwaited, Started, Shapes, Callers
  <2>5. SessionShape'
    BY <1>1, <2>2 DEF SessionShape, Started, Shapes
  <2>6. OwnSession' /\ VideoIsWanted'
    BY <1>1, <2>1 DEF OwnSession, VideoIsWanted, Shapes, Callers, pastVars
  <2>7. VideoFollows'
    BY <1>1, <2>1, <2>2 DEF VideoFollows, SessionShape, Started, SendFails, Shapes
  <2>8. QED
    BY <2>3, <2>4, <2>5, <2>6, <2>7
<1>3. CASE VideoStarts
  <2>1. /\ user = "viewing" /\ user' = "idle" /\ UNCHANGED <<want, on>> /\ usable[on["user"]]
        /\ video' = IF SendFails(on["user"]) THEN video
                    ELSE [video EXCEPT ![on["user"]] = TRUE]
    BY <1>3 DEF VideoStarts, Started, deviceVars
  <2>2. on["user"] \in Sessions /\ want
    BY <2>1 DEF HoldersHold, VideoIsWanted
  <2>3. state[on["user"]] # "unused"
    BY <2>1, <2>2 DEF SessionShape
  <2>4. video' \in [Sessions -> BOOLEAN]
    BY <2>1 DEF Shapes
  <2>5. \A s \in Sessions : video[s] => video'[s]
    BY <2>1, <2>2 DEF Shapes
  <2>6. Shapes'
    BY <1>1, <2>1, <2>4 DEF Shapes, pastVars
  <2>7. HoldersHold' /\ CancelIsAwaited' /\ OwnSession' /\ VideoIsWanted'
    BY <1>1, <2>1, <2>2 DEF HoldersHold, CancelIsAwaited, OwnSession, VideoIsWanted, pastVars
  <2>8. SessionShape'
    BY <1>1, <2>1, <2>3 DEF SessionShape, Shapes
  <2>9. VideoFollows'
    <3>1. SUFFICES ASSUME sess # None, state[sess] = "ready", maker[sess] = "loop",
                          loop \notin Running, ~closing
                   PROVE  video'[sess] = want
      BY <1>1, <2>1 DEF VideoFollows
    <3>2. video[sess] = TRUE /\ sess \in Sessions
      BY <2>2, <3>1 DEF VideoFollows, Shapes
    <3>3. QED
      BY <2>2, <2>4, <2>5, <3>2 DEF Shapes
  <2>10. QED
    BY <2>6, <2>7, <2>8, <2>9
<1>4. CASE UserStopsVideo
  <2>1. /\ user = "idle" /\ want' = FALSE /\ UNCHANGED <<user, on>>
        /\ video' = IF sess = None THEN video ELSE [video EXCEPT ![sess] = FALSE]
    BY <1>4 DEF UserStopsVideo, taskVars
  <2>2. Shapes'
    BY <1>1, <2>1 DEF Shapes, pastVars
  <2>3. HoldersHold' /\ CancelIsAwaited' /\ OwnSession'
    BY <1>1, <2>1 DEF HoldersHold, CancelIsAwaited, OwnSession, pastVars
  <2>4. SessionShape'
    BY <1>1, <2>1 DEF SessionShape, Shapes
  <2>5. sess # None => video'[sess] = FALSE
    BY <2>1 DEF Shapes
  <2>6. VideoIsWanted' /\ VideoFollows'
    BY <1>1, <2>1, <2>5 DEF VideoIsWanted, VideoFollows
  <2>7. QED
    BY <2>2, <2>3, <2>4, <2>6
<1>5. QED
  BY <1>2, <1>3, <1>4

----------------------------------------------------------------------------
\* The steps that keep Orderly, for a user who does not call connect() while a
\* reconnect is at work.

\* A step that makes no session, and keeps the places where somebody waits in
\* step with the device's session.
LEMMA QuietStepOrderly ==
  ASSUME Orderly, UNCHANGED <<sess, state>>,
         closing => closing',
         user' # user => user' \in {"idle", "viewing", "closingLoop"},
         loop' # loop =>
           \/ loop' = "over"
           \/ loop' = "timedout" /\ closing' /\ loop = "waiting"
           \/ loop' = "finding" /\ sess = None /\ loop = "sleeping"
           \/ loop' = "sleeping" /\ loop \in {"finding", "waiting", "timedout"},
         clean' # clean => user = "closingMain" \/ (sess = None /\ loop \notin Known),
         clean' => user' \notin {"finding", "waiting"}
  PROVE  Orderly'
<1> USE DEF Orderly
<1>1. \A s \in Sessions : state'[s] \in Live => s = sess'
  OBVIOUS
<1>2. user' = "finding" => sess' = None /\ loop' \notin Running
  BY DEF Running
<1>3. loop' \in {"finding", "closing"} => sess' = None
  OBVIOUS
<1>4. loop' \in {"timedout", "closing"} => closing'
  OBVIOUS
<1>5. user' \in {"finding", "waiting"} => ~clean'
  OBVIOUS
<1>6. user' = "closingMain" \/ clean' => sess' = None /\ loop' \notin Known
  BY DEF Known, Running
<1>7. QED
  BY <1>1, <1>2, <1>3, <1>4, <1>5, <1>6

\* A session that gets on, or ends, is no other.
LEMMA SessionStepOrderly ==
  ASSUME AnyhowInv, Orderly, NEW s \in Sessions,
         GetsTransport(s) \/ GetsReady(s) \/ Breaks(s) \/ EndsSilently(s)
  PROVE  Orderly'
<1>1. UNCHANGED <<deviceVars, taskVars, pastVars>>
  BY DEF GetsTransport, GetsReady, Breaks, EndsSilently
<1>2. state[s] \in Live /\ \E to \in Live : state' = [state EXCEPT ![s] = to]
  BY DEF GetsTransport, GetsReady, Breaks, EndsSilently, Live
<1>3. \A t \in Sessions : state'[t] \in Live => state[t] \in Live
  BY <1>2 DEF AnyhowInv, Shapes
<1>4. QED
  BY <1>1, <1>3 DEF Orderly, deviceVars, taskVars, pastVars

\* The session that is lost is the device's own, and nobody is looking for
\* another, nor has the device been closed.
LEMMA LostOrderly ==
  ASSUME AnyhowInv, Orderly, NEW s \in Sessions, Lost(s)
  PROVE  Orderly'
<1>1. /\ state[s] \in Live
      /\ state' = [state EXCEPT ![s] = "ended"]
      /\ UNCHANGED <<closing, user, clean>>
      /\ sess' = None
      /\ loop' = IF enable /\ ~closing /\ loop \notin Known THEN "sleeping" ELSE loop
  BY DEF Lost, Stopped, StartLoop, Live
<1>2. sess = s /\ s # None
  BY <1>1, DeviceAssumption DEF Orderly
<1>3. user \notin {"finding", "closingMain"} /\ ~clean
  BY <1>2 DEF Orderly
<1>4. \A t \in Sessions : state'[t] \in Live => state[t] \in Live /\ t # s
  BY <1>1 DEF AnyhowInv, Shapes, Live
<1>5. \A t \in Sessions : state'[t] \notin Live
  BY <1>2, <1>4 DEF Orderly
<1>6. QED
  BY <1>1, <1>3, <1>5 DEF Orderly

\* Whoever finds the camera had no session, and nobody else is looking for it.
LEMMA FoundOrderly ==
  ASSUME AnyhowInv, Orderly, NEW c \in Callers, NEW s \in Sessions, Found(c, s)
  PROVE  Orderly'
<1>1. /\ sess' = s /\ state' = [state EXCEPT ![s] = "opening"]
      /\ UNCHANGED <<closing, clean>>
  BY DEF Found, pastVars
<1>2. \/ /\ c = "user" /\ user = "finding" /\ user' = "waiting" /\ UNCHANGED loop
         /\ sess = None /\ loop \notin Running /\ ~clean
      \/ /\ c = "loop" /\ loop = "finding" /\ loop' = "waiting" /\ UNCHANGED user
         /\ sess = None /\ ~clean /\ user # "closingMain" /\ user # "finding"
  BY DEF Found, Connecting, Goes, Callers, Orderly, Known, Running
<1>3. \A t \in Sessions : state'[t] \in Live => state[t] \in Live \/ t = s
  BY <1>1 DEF AnyhowInv, Shapes
<1>4. \A t \in Sessions : state'[t] \in Live => t = sess'
  BY <1>1, <1>2, <1>3, DeviceAssumption DEF Orderly
<1>5. QED
  BY <1>1, <1>2, <1>4 DEF Orderly, Known, Running

\* close() lets go of a session only when that has ended.
LEMMA CloseSessionOrderly ==
  ASSUME AnyhowInv, Orderly, NEW c \in Callers, CloseSession(c), closing',
         c = "user" => loop \notin Known /\ user \in {"idle", "waiting", "closingLoop"},
         c = "loop" => loop = "timedout"
  PROVE  Orderly'
<1>1. CASE sess = None \/ SendFails(sess)
  <2>1. /\ Raises(c) /\ UNCHANGED <<sess, state>>
        /\ clean' = clean \/ (clean' = (clean \/ c = "user") /\ sess = None)
    BY <1>1 DEF CloseSession, sessionVars
  <2>2. \/ c = "user" /\ user' = "idle" /\ UNCHANGED loop
        \/ c = "loop" /\ loop' \in {"sleeping", "over"} /\ UNCHANGED user /\ loop = "timedout"
    BY <2>1 DEF Raises, Goes, Callers
  <2>3. clean' # clean => sess = None /\ loop \notin Known
    BY <2>1, <2>2 DEF AnyhowInv, Shapes
  <2>4. clean' => user' \notin {"finding", "waiting"}
    BY <2>1, <2>2 DEF Orderly
  <2>5. QED
    BY <2>1, <2>2, <2>3, <2>4, QuietStepOrderly
<1>2. CASE sess # None /\ ~SendFails(sess)
  <2>1. /\ state' = [state EXCEPT ![sess] = "ended"] /\ sess' = None /\ UNCHANGED clean
        /\ \/ c = "user" /\ user' = "closingMain" /\ UNCHANGED loop
           \/ c = "loop" /\ loop' = "closing" /\ UNCHANGED user
    BY <1>2 DEF CloseSession, Stopped, Goes, Callers
  <2>2. \A t \in Sessions : state'[t] \in Live => state[t] \in Live /\ t # sess
    BY <2>1 DEF AnyhowInv, Shapes, Live
  <2>3. \A t \in Sessions : state'[t] \notin Live
    BY <2>2 DEF Orderly
  <2>4. ~clean /\ user \notin {"finding", "closingMain"}
    BY <1>2 DEF Orderly
  <2>5. QED
    BY <2>1, <2>3, <2>4 DEF Orderly, Known, Running
<1>3. QED
  BY <1>1, <1>2

\* close() of the user.
LEMMA CloseForUserOrderly ==
  ASSUME AnyhowInv, Orderly, CloseForUser, user \in {"idle", "waiting"}
  PROVE  Orderly'
<1>1. closing' = TRUE
  BY DEF CloseForUser
<1>2. CASE loop \in Known
  <2>1. user' = "closingLoop" /\ UNCHANGED <<sess, loop, state, clean>>
    BY <1>2 DEF CloseForUser, sessionVars
  <2>2. QED
    BY <1>1, <2>1, QuietStepOrderly
<1>3. CASE loop \notin Known
  BY <1>1, <1>3, CloseSessionOrderly DEF CloseForUser, Callers
<1>4. QED
  BY <1>2, <1>3

\* The ends of connect() and close(), and the points where they go on.
LEMMA CallStepOrderly ==
  ASSUME AnyhowInv, Orderly, NEW c \in Callers,
         FindFails(c) \/ ConnectFails(c) \/ ConnectDone(c) \/ ConnectTimesOut(c) \/ CloseDone(c)
  PROVE  Orderly'
<1>1. CASE FindFails(c) \/ ConnectFails(c) \/ ConnectDone(c)
  <2>1. /\ UNCHANGED <<sess, closing, state, clean>>
        /\ Connecting(c, "finding") \/ Connecting(c, "waiting")
    BY <1>1 DEF FindFails, ConnectFails, ConnectDone, deviceVars, sessionVars, pastVars
  <2>2. \/ c = "user" /\ user' = "idle" /\ UNCHANGED loop
        \/ /\ c = "loop" /\ loop \in {"finding", "waiting"} /\ loop' \in {"sleeping", "over"}
           /\ UNCHANGED user
    BY <1>1, <2>1 DEF FindFails, ConnectFails, ConnectDone, Raises, Goes, Connecting, Callers
  <2>3. clean => user' \notin {"finding", "waiting"}
    BY <2>2 DEF Orderly
  <2>4. QED
    BY <2>1, <2>2, <2>3, QuietStepOrderly
<1>2. CASE ConnectTimesOut(c)
  <2>1. CASE sess = None
    <3>1. /\ UNCHANGED <<sess, closing, state, clean>>
          /\ Connecting(c, "waiting") /\ Raises(c)
      BY <1>2, <2>1 DEF ConnectTimesOut, deviceVars, sessionVars, pastVars
    <3>2. \/ c = "user" /\ user' = "idle" /\ UNCHANGED loop
          \/ /\ c = "loop" /\ loop = "waiting" /\ loop' \in {"sleeping", "over"}
             /\ UNCHANGED user
      BY <3>1 DEF Raises, Goes, Connecting, Callers
    <3>3. clean => user' \notin {"finding", "waiting"}
      BY <3>2 DEF Orderly
    <3>4. QED
      BY <3>1, <3>2, <3>3, QuietStepOrderly
  <2>2. CASE sess # None /\ c = "user"
    BY <1>2, <2>2, CloseForUserOrderly DEF ConnectTimesOut, Connecting
  <2>3. CASE sess # None /\ c = "loop"
    <3>1. /\ closing' = TRUE /\ loop = "waiting" /\ loop' = "timedout"
          /\ UNCHANGED <<sess, user, state, clean>>
      BY <1>2, <2>3 DEF ConnectTimesOut, Connecting, sessionVars, pastVars
    <3>2. clean => user' \notin {"finding", "waiting"}
      BY <3>1 DEF Orderly
    <3>3. QED
      BY <3>1, <3>2, QuietStepOrderly
  <2>4. QED
    BY <2>1, <2>2, <2>3 DEF Callers
<1>3. CASE CloseDone(c)
  <2>1. /\ UNCHANGED <<sess, closing, state>>
        /\ clean' = (clean \/ c = "user") /\ Raises(c)
        /\ IF c = "user" THEN user = "closingMain" ELSE loop = "closing"
    BY <1>3 DEF CloseDone, deviceVars, sessionVars
  <2>2. c = "loop" => closing
    BY <2>1 DEF Orderly
  <2>3. \/ c = "user" /\ user' = "idle" /\ UNCHANGED loop
        \/ c = "loop" /\ loop' = "over" /\ UNCHANGED user
    BY <2>1, <2>2 DEF Raises, Goes, Callers
  <2>4. clean' # clean => user = "closingMain"
    BY <2>1 DEF AnyhowInv, Shapes
  <2>5. clean' => user' \notin {"finding", "waiting"}
    BY <2>1, <2>3 DEF Orderly
  <2>6. UNCHANGED <<sess, closing, state>>
    BY <2>1
  <2>7. QED
    BY <2>3, <2>4, <2>5, <2>6, QuietStepOrderly
<1>4. QED
  BY <1>1, <1>2, <1>3

\* The rest of close().
LEMMA CloseGoesOnOrderly ==
  ASSUME AnyhowInv, Orderly, LoopIsGone \/ LoopClosesItself
  PROVE  Orderly'
<1>1. CASE LoopIsGone
  <2>1. /\ user = "closingLoop" /\ loop \notin Running /\ UNCHANGED closing
        /\ CloseSession("user")
    BY <1>1 DEF LoopIsGone
  <2>2. closing' /\ loop \notin Known
    BY <2>1 DEF AnyhowInv, CancelIsAwaited, Known
  <2>3. QED
    BY <2>1, <2>2, CloseSessionOrderly DEF Callers
<1>2. CASE LoopClosesItself
  <2>1. loop = "timedout" /\ UNCHANGED closing /\ CloseSession("loop")
    BY <1>2 DEF LoopClosesItself
  <2>2. closing'
    BY <2>1 DEF Orderly
  <2>3. QED
    BY <2>1, <2>2, CloseSessionOrderly DEF Callers
<1>3. QED
  BY <1>1, <1>2

\* The user calls connect() with no reconnect at work, or the reconnect task goes
\* on, or video is started or stopped.
LEMMA OtherStepOrderly ==
  ASSUME AnyhowInv, Orderly,
         \/ UserConnects /\ ~hasty'
         \/ SleepOver \/ LoopCancelled
         \/ UserStartsVideo \/ VideoStarts \/ UserStopsVideo
  PROVE  Orderly'
<1>1. CASE UserConnects /\ ~hasty'
  <2>1. /\ user' = "finding" /\ sess = None /\ clean' = FALSE /\ loop \notin Running
        /\ UNCHANGED <<sess, loop, state>>
    BY <1>1 DEF UserConnects, sessionVars
  <2>2. QED
    BY <2>1 DEF Orderly, Known, Running
<1>2. CASE SleepOver \/ LoopCancelled
  <2>1. /\ UNCHANGED <<sess, closing, user, state, clean>>
        /\ \/ loop' = loop \/ loop' = "over"
           \/ loop' = "finding" /\ sess = None /\ loop = "sleeping"
    BY <1>2 DEF SleepOver, LoopCancelled, deviceVars, sessionVars, pastVars
  <2>2. clean => user' \notin {"finding", "waiting"}
    BY <2>1 DEF Orderly
  <2>3. QED
    BY <2>1, <2>2, QuietStepOrderly
<1>3. CASE UserStartsVideo \/ VideoStarts \/ UserStopsVideo
  <2>1. /\ UNCHANGED <<sess, closing, loop, state, clean>>
        /\ user' = user \/ user' \in {"idle", "viewing"}
    BY <1>3 DEF UserStartsVideo, VideoStarts, UserStopsVideo, Started, deviceVars, taskVars,
                pastVars
  <2>2. clean => user' \notin {"finding", "waiting"}
    BY <2>1 DEF Orderly
  <2>3. QED
    BY <2>1, <2>2, QuietStepOrderly
<1>4. QED
  BY <1>1, <1>2, <1>3

----------------------------------------------------------------------------
\* Every step keeps the invariant.
LEMMA DeviceInvStep == DeviceInv /\ [DeviceNext]_vars => DeviceInv'
<1> SUFFICES ASSUME DeviceInv, [DeviceNext]_vars PROVE DeviceInv'
  OBVIOUS
<1>1. AnyhowInv
  BY DEF DeviceInv
<1>2. CASE UNCHANGED vars
  <2>1. AnyhowInv'
    BY <1>1, <1>2 DEF AnyhowInv, vars, deviceVars, taskVars, sessionVars, pastVars, Shapes,
         HoldersHold, SessionShape, CancelIsAwaited, OwnSession, VideoIsWanted, VideoFollows
  <2>2. ~hasty' => Orderly'
    BY <1>2 DEF DeviceInv, vars, deviceVars, taskVars, sessionVars, pastVars, Orderly
  <2>3. QED
    BY <2>1, <2>2 DEF DeviceInv
<1>3. CASE DeviceNext
  <2>1. AnyhowInv'
    <3>1. CASE \E s \in Sessions :
                 GetsTransport(s) \/ GetsReady(s) \/ Breaks(s) \/ EndsSilently(s)
      BY <1>1, <3>1, SessionStepKeeps
    <3>2. CASE \E s \in Sessions : Lost(s)
      BY <1>1, <3>2, LostKeeps
    <3>3. CASE \E c \in Callers, s \in Sessions : Found(c, s)
      BY <1>1, <3>3, FoundKeeps
    <3>4. CASE \E c \in Callers : FindFails(c) \/ ConnectFails(c)
      BY <1>1, <3>4, ConnectFailsKeeps
    <3>5. CASE \E c \in Callers : ConnectDone(c) \/ ConnectTimesOut(c) \/ CloseDone(c)
      BY <1>1, <3>5, ConnectDoneKeeps, ConnectTimesOutKeeps, CloseDoneKeeps
    <3>6. CASE LoopIsGone \/ LoopClosesItself
      BY <1>1, <3>6, CloseGoesOn
    <3>7. CASE UserConnects \/ SleepOver \/ LoopCancelled
      BY <1>1, <3>7, UserConnectsKeeps, TaskStepKeeps
    <3>8. CASE UserCloses
      BY <1>1, <3>8, CloseForUserKeeps DEF UserCloses
    <3>9. CASE UserStartsVideo \/ VideoStarts \/ UserStopsVideo
      BY <1>1, <3>9, VideoStepKeeps
    <3>10. QED
      BY <1>3, <3>1, <3>2, <3>3, <3>4, <3>5, <3>6, <3>7, <3>8, <3>9 DEF DeviceNext
  <2>2. ASSUME ~hasty' PROVE Orderly'
    <3>1. hasty' = hasty \/ UserConnects
      <4>1. CASE \E s \in Sessions :
                   GetsTransport(s) \/ GetsReady(s) \/ Breaks(s) \/ EndsSilently(s) \/ Lost(s)
        BY <4>1 DEF GetsTransport, GetsReady, Breaks, EndsSilently, Lost, pastVars
      <4>2. CASE \E c \in Callers, s \in Sessions : Found(c, s)
        BY <4>2 DEF Found, pastVars
      <4>3. CASE \E c \in Callers :
                   FindFails(c) \/ ConnectFails(c) \/ ConnectDone(c) \/ CloseDone(c)
        BY <4>3 DEF FindFails, ConnectFails, ConnectDone, CloseDone, pastVars
      <4>4. CASE \E c \in Callers : ConnectTimesOut(c)
        BY <4>4 DEF ConnectTimesOut, CloseForUser, pastVars
      <4>5. CASE LoopIsGone \/ LoopClosesItself \/ SleepOver \/ LoopCancelled
        BY <4>5 DEF LoopIsGone, LoopClosesItself, SleepOver, LoopCancelled, pastVars
      <4>6. CASE UserCloses \/ UserStartsVideo \/ VideoStarts \/ UserStopsVideo
        BY <4>6 DEF UserCloses, CloseForUser, UserStartsVideo, VideoStarts, UserStopsVideo,
                    pastVars
      <4>7. QED
        BY <1>3, <4>1, <4>2, <4>3, <4>4, <4>5, <4>6 DEF DeviceNext
    <3>2. Orderly
      BY <2>2, <3>1 DEF DeviceInv, UserConnects
    <3>3. CASE \E s \in Sessions :
                 GetsTransport(s) \/ GetsReady(s) \/ Breaks(s) \/ EndsSilently(s)
      BY <1>1, <3>2, <3>3, SessionStepOrderly
    <3>4. CASE \E s \in Sessions : Lost(s)
      BY <1>1, <3>2, <3>4, LostOrderly
    <3>5. CASE \E c \in Callers, s \in Sessions : Found(c, s)
      BY <1>1, <3>2, <3>5, FoundOrderly
    <3>6. CASE \E c \in Callers : \/ FindFails(c) \/ ConnectFails(c) \/ ConnectDone(c)
                                  \/ ConnectTimesOut(c) \/ CloseDone(c)
      BY <1>1, <3>2, <3>6, CallStepOrderly
    <3>7. CASE LoopIsGone \/ LoopClosesItself
      BY <1>1, <3>2, <3>7, CloseGoesOnOrderly
    <3>8. CASE UserCloses
      BY <1>1, <3>2, <3>8, CloseForUserOrderly DEF UserCloses
    <3>9. CASE \/ UserConnects \/ SleepOver \/ LoopCancelled
               \/ UserStartsVideo \/ VideoStarts \/ UserStopsVideo
      BY <1>1, <2>2, <3>2, <3>9, OtherStepOrderly
    <3>10. QED
      BY <1>3, <3>3, <3>4, <3>5, <3>6, <3>7, <3>8, <3>9 DEF DeviceNext
  <2>3. QED
    BY <2>1, <2>2 DEF DeviceInv
<1>4. QED
  BY <1>2, <1>3

\* The invariant the properties follow from.
THEOREM DeviceInvariant == DeviceSpec => []DeviceInv
<1>1. DeviceInit => DeviceInv
  BY InitEstablishes
<1>2. DeviceInv /\ [DeviceNext]_vars => DeviceInv'
  BY DeviceInvStep
<1>3. QED
  BY <1>1, <1>2, PTL DEF DeviceSpec

\* Every variable keeps its type.
THEOREM DeviceTypeCorrect == DeviceSpec => []DeviceTypeOK
<1>1. DeviceInv => DeviceTypeOK
  BY ShapesAreTypes DEF DeviceInv, AnyhowInv
<1>2. QED
  BY <1>1, DeviceInvariant, PTL

\* However a loss, a timeout, a close() and a new session meet, a session that
\* has not ended is the device's own, for any number of sessions.
THEOREM NoSessionIsLeftBehind == DeviceSpec => []OneLiveSession
<1>1. DeviceInv => OneLiveSession
  BY DEF DeviceInv, Orderly, OneLiveSession
<1>2. QED
  BY <1>1, DeviceInvariant, PTL

\* After close() nothing is alive and nothing would make a session.
THEOREM CloseIsFinal == DeviceSpec => []ClosedIsClosed
<1>1. DeviceInv => ClosedIsClosed
  BY DeviceAssumption DEF DeviceInv, Orderly, ClosedIsClosed
<1>2. QED
  BY <1>1, DeviceInvariant, PTL

\* Video is back after a reconnect exactly if it is wanted.
THEOREM VideoComesBack == DeviceSpec => []VideoIsResumed
<1>1. DeviceInv => VideoIsResumed
  BY DEF DeviceInv, AnyhowInv, VideoFollows, VideoIsResumed
<1>2. QED
  BY <1>1, DeviceInvariant, PTL
=============================================================================
