----------------------------- MODULE DeviceLife -----------------------------
(***************************************************************************)
(* Device of src/aiopppp/device.py: one camera by address, the session it  *)
(* has now, connect() and close() called by a user, and the reconnect task *)
(* that makes a new session after a loss.  The user awaits one call before *)
(* it makes the next; connect() runs on behalf of the user and of the      *)
(* reconnect task, and suspends twice: in find_device() and while the new  *)
(* session gets ready.                                                     *)
(*                                                                         *)
(* What a Session does by itself is abstracted to its moments a Device can *)
(* see (SessionLife has the rest): it gets a transport, gets ready, is     *)
(* lost and says so, loses its packet task, or ends without a word.        *)
(***************************************************************************)
EXTENDS Integers, FiniteSets

CONSTANTS Sessions, \* the sessions there are to make: a bound
          None

ASSUME DeviceAssumption == None \notin Sessions

Callers == {"user", "loop"}

VARIABLES enable,    \* enable_reconnect
          sess,      \* _session
          closing,   \* _closing
          want,      \* _want_video
          loop,      \* where the reconnect task waits
          cancelled, \* the reconnect task has been cancelled, but has not run
          user,      \* where the user's call waits
          on,        \* the session each caller holds on to
          state,     \* what became of each session
          usable,    \* device_is_ready is set
          video,     \* is_video_requested
          maker,     \* history: who made the session
          asked,     \* history: the user closed, or was told of the timeout
          clean,     \* history: close() returned, and no connect() since
          lost,      \* history: a session was reported lost since connect()
          hasty      \* history: connect() was called with a reconnect at work

deviceVars == <<enable, sess, closing, want>>
taskVars == <<loop, cancelled, user, on>>
sessionVars == <<state, usable, video, maker>>
pastVars == <<asked, clean, lost, hasty>>
vars == <<deviceVars, taskVars, sessionVars, pastVars>>

Running == {"sleeping", "finding", "waiting", "timedout", "closing"}
\* The device no longer knows a reconnect task that has closed it.
Known == Running \ {"closing"}
Live == {"opening", "starting", "ready", "broken", "failed", "cut"}

DeviceInit ==
  /\ enable \in BOOLEAN
  /\ sess = None
  /\ closing = FALSE
  /\ want = FALSE
  /\ loop = "none"
  /\ cancelled = FALSE
  /\ user = "idle"
  /\ on = [c \in Callers |-> None]
  /\ state = [s \in Sessions |-> "unused"]
  /\ usable = [s \in Sessions |-> FALSE]
  /\ video = [s \in Sessions |-> FALSE]
  /\ maker = [s \in Sessions |-> None]
  /\ asked = FALSE /\ clean = FALSE /\ lost = FALSE /\ hasty = FALSE

----------------------------------------------------------------------------
\* Sessions.

\* The close packet re-raises what ended another task, and needs a transport.
SendFails(s) == state[s] \in Live \ {"starting", "ready"} \/ state[s] = "ended"

\* stop() of a session with a transport.
Stopped(s) ==
  /\ state' = [state EXCEPT ![s] = "ended"]
  /\ usable' = [usable EXCEPT ![s] = TRUE]
  /\ video' = [video EXCEPT ![s] = FALSE]
  /\ UNCHANGED maker

GetsTransport(s) ==
  /\ state[s] = "opening"
  /\ state' = [state EXCEPT ![s] = "starting"]
  /\ UNCHANGED <<deviceVars, taskVars, pastVars, usable, video, maker>>

\* Setup ends, also when the packet task failed right after the answer it
\* waited for.
GetsReady(s) ==
  /\ state[s] \in {"starting", "broken"}
  /\ state' = [state EXCEPT ![s] = IF state[s] = "starting" THEN "ready" ELSE "broken"]
  /\ usable' = [usable EXCEPT ![s] = TRUE]
  /\ UNCHANGED <<deviceVars, taskVars, pastVars, video, maker>>

\* The packet task ends with an exception.
Breaks(s) ==
  /\ state[s] \in {"starting", "ready"}
  /\ state' = [state EXCEPT ![s] = "broken"]
  /\ UNCHANGED <<deviceVars, taskVars, pastVars, usable, video, maker>>

\* The main task ends without a word: create_udp raises, or the future setup
\* waits on is cancelled (SessionLife: CreateUdpFails and WaiterCancelled).
EndsSilently(s) ==
  /\ \/ state[s] = "opening" /\ state' = [state EXCEPT ![s] = "failed"]
     \/ state[s] = "starting" /\ state' = [state EXCEPT ![s] = "cut"]
  /\ UNCHANGED <<deviceVars, taskVars, pastVars, usable, video, maker>>

\* on_device_lost: a reconnect task is made unless there is one at work.
StartLoop ==
  loop' = IF enable /\ ~closing /\ loop \notin Known THEN "sleeping" ELSE loop

\* _on_device_lost of the session and on_device_lost of the device, which does
\* not ask which session it was.
Lost(s) ==
  /\ state[s] \in {"starting", "ready", "broken", "cut"}
  /\ Stopped(s)
  /\ sess' = None
  /\ StartLoop
  /\ lost' = TRUE
  /\ UNCHANGED <<enable, closing, want, cancelled, user, on, asked, clean, hasty>>

----------------------------------------------------------------------------
\* connect().

Connecting(c, point) ==
  IF c = "user" THEN user = point ELSE loop = point /\ ~cancelled

\* c goes on to wait at another point.
Goes(c, point) ==
  IF c = "user" THEN user' = point /\ UNCHANGED loop ELSE loop' = point /\ UNCHANGED user

\* connect() raises: the user's call is over, the reconnect task tries again
\* under the condition of its while.
Raises(c) ==
  Goes(c, IF c = "user" THEN "idle"
          ELSE IF enable /\ ~closing' /\ sess' = None THEN "sleeping" ELSE "over")

\* connect() called by the user: not refused while a reconnect is at work.  (The
\* few loop iterations in which a main task ends are left out, as in Found.)
UserConnects ==
  /\ user = "idle" /\ sess = None /\ loop # "closing"
  /\ closing' = FALSE
  /\ user' = "finding"
  /\ asked' = FALSE /\ clean' = FALSE /\ lost' = FALSE
  /\ hasty' = (hasty \/ loop \in Running)
  /\ UNCHANGED <<enable, sess, want, loop, cancelled, on, sessionVars>>

\* find_device returns: the session is made and started.
Found(c, s) ==
  /\ Connecting(c, "finding") /\ loop # "closing"
  /\ state[s] = "unused"
  /\ sess' = s
  /\ state' = [state EXCEPT ![s] = "opening"]
  /\ maker' = [maker EXCEPT ![s] = c]
  /\ on' = [on EXCEPT ![c] = s]
  /\ Goes(c, "waiting")
  /\ UNCHANGED <<enable, closing, want, cancelled, usable, video, pastVars>>

FindFails(c) ==
  /\ Connecting(c, "finding")
  /\ UNCHANGED <<deviceVars, cancelled, on, sessionVars, pastVars>>
  /\ Raises(c)

TaskDone(s) == state[s] \in {"broken", "failed", "cut", "ended"}

\* The wait for the session is over, with an exception: that of a task of the
\* session if the device still has one, or NotConnectedError.
ConnectFails(c) ==
  /\ Connecting(c, "waiting")
  /\ usable[on[c]] \/ TaskDone(on[c])
  /\ sess = None \/ TaskDone(on[c])
  /\ UNCHANGED <<deviceVars, cancelled, on, sessionVars, pastVars>>
  /\ IF sess # None /\ state[on[c]] \in {"cut", "ended"}
     THEN Goes(c, IF c = "user" THEN "idle" ELSE "over") \* a CancelledError
     ELSE Raises(c)

\* Mutant: the reconnect task does not resume video.
ResumesNothing == UNCHANGED video

\* After a reconnect video is resumed if it was wanted.
ResumesVideo == video' = IF want /\ ~SendFails(sess) THEN [video EXCEPT ![sess] = TRUE] ELSE video

ConnectDone(c) ==
  /\ Connecting(c, "waiting")
  /\ usable[on[c]] /\ ~TaskDone(on[c]) /\ sess # None
  /\ IF c = "loop" THEN ResumesVideo ELSE UNCHANGED video
  /\ Goes(c, IF c = "user" THEN "idle" ELSE "over")
  /\ UNCHANGED <<deviceVars, cancelled, on, state, usable, maker, pastVars>>

----------------------------------------------------------------------------
\* close().

\* Mutant: the session is let go without being stopped.
CloseWithoutStop(c) ==
  /\ sess' = None
  /\ clean' = (clean \/ c = "user")
  /\ UNCHANGED sessionVars
  /\ Raises(c)

\* The part of close() that needs no reconnect task any more, up to the end of
\* the main task.  When the close packet cannot be sent it ends here, and
\* stop() is not reached.
CloseSession(c) ==
  \/ /\ sess = None
     /\ clean' = (clean \/ c = "user")
     /\ UNCHANGED <<sess, sessionVars>>
     /\ Raises(c)
  \/ /\ sess # None /\ SendFails(sess)
     /\ UNCHANGED <<sess, sessionVars, clean>>
     /\ Raises(c)
  \/ /\ sess # None /\ ~SendFails(sess)
     /\ Stopped(sess)
     /\ sess' = None
     /\ Goes(c, IF c = "user" THEN "closingMain" ELSE "closing")
     /\ UNCHANGED clean

\* Mutant: close() leaves the reconnect task alone.
CloseForgetsLoop ==
  /\ closing' = TRUE
  /\ asked' = TRUE
  /\ UNCHANGED cancelled
  /\ CloseSession("user")
  /\ UNCHANGED <<enable, want, on, lost, hasty>>

\* Mutant: the reconnect task is awaited, but was never told to end.
CloseAwaitsOnly ==
  /\ closing' = TRUE
  /\ asked' = TRUE
  /\ UNCHANGED cancelled
  /\ IF loop \in Known
     THEN user' = "closingLoop" /\ UNCHANGED <<sess, loop, sessionVars, clean>>
     ELSE CloseSession("user")
  /\ UNCHANGED <<enable, want, on, lost, hasty>>

\* close() called for the user: a reconnect task is cancelled and awaited first.
CloseForUser ==
  /\ closing' = TRUE
  /\ asked' = TRUE
  /\ IF loop \in Known
     THEN /\ cancelled' = TRUE
          /\ user' = "closingLoop"
          /\ UNCHANGED <<sess, loop, sessionVars, clean>>
     ELSE /\ UNCHANGED cancelled
          /\ CloseSession("user")
  /\ UNCHANGED <<enable, want, on, lost, hasty>>

UserCloses == user = "idle" /\ CloseForUser

LoopIsGone ==
  /\ user = "closingLoop" /\ loop \notin Running
  /\ UNCHANGED <<enable, closing, want, cancelled, on, asked, lost, hasty>>
  /\ CloseSession("user")

\* The reconnect task has cancelled itself and been thrown out of awaiting
\* itself, both of which close() swallows.
LoopClosesItself ==
  /\ loop = "timedout" /\ ~cancelled
  /\ UNCHANGED <<enable, closing, want, cancelled, on, asked, lost, hasty>>
  /\ CloseSession("loop")

\* The main task of the closed session has ended.
CloseDone(c) ==
  /\ IF c = "user" THEN user = "closingMain" ELSE loop = "closing" /\ ~cancelled
  /\ clean' = (clean \/ c = "user")
  /\ UNCHANGED <<deviceVars, cancelled, on, sessionVars, asked, lost, hasty>>
  /\ Raises(c)

\* In connect(): the session is neither ready nor lost in time, and the device
\* closes itself, on behalf of the user or of the reconnect task.  (Opening a UDP
\* endpoint takes no time by comparison.)
ConnectTimesOut(c) ==
  /\ Connecting(c, "waiting")
  /\ state[on[c]] # "opening" /\ ~usable[on[c]] /\ ~TaskDone(on[c])
  /\ \/ /\ sess = None
        /\ UNCHANGED <<deviceVars, cancelled, on, sessionVars, pastVars>>
        /\ Raises(c)
     \/ sess # None /\ c = "user" /\ CloseForUser
     \/ /\ sess # None /\ c = "loop"
        /\ closing' = TRUE
        /\ loop' = "timedout"
        /\ UNCHANGED <<enable, sess, want, cancelled, user, on, sessionVars, pastVars>>

----------------------------------------------------------------------------
\* The reconnect task.

SleepOver ==
  /\ loop = "sleeping" /\ ~cancelled
  /\ loop' = IF ~closing /\ sess = None THEN "finding" ELSE "over"
  /\ UNCHANGED <<deviceVars, cancelled, user, on, sessionVars, pastVars>>

\* The cancellation of the reconnect task takes effect, unless it is the second
\* one for close() to swallow, or find_device() swallows it for that of its search.
LoopCancelled ==
  /\ cancelled
  /\ \/ loop # "timedout" /\ loop' = "over"
     \/ loop \in {"finding", "timedout"} /\ UNCHANGED loop
  /\ cancelled' = FALSE
  /\ UNCHANGED <<deviceVars, user, on, sessionVars, pastVars>>

----------------------------------------------------------------------------
\* Video.

\* start_video of a session that is ready.
Started(s) ==
  /\ user' = "idle"
  /\ video' = IF SendFails(s) THEN video ELSE [video EXCEPT ![s] = TRUE]

\* start_video: remembered even if there is no session, and held up until the
\* session there is gets ready.
UserStartsVideo ==
  /\ user = "idle"
  /\ want' = TRUE
  /\ on' = [on EXCEPT !["user"] = sess]
  /\ IF sess # None /\ usable[sess] THEN Started(sess)
     ELSE user' = (IF sess = None THEN "idle" ELSE "viewing") /\ UNCHANGED video
  /\ UNCHANGED <<enable, sess, closing, loop, cancelled, state, usable, maker, pastVars>>

VideoStarts ==
  /\ user = "viewing" /\ usable[on["user"]]
  /\ Started(on["user"])
  /\ UNCHANGED <<deviceVars, loop, cancelled, on, state, usable, maker, pastVars>>

UserStopsVideo ==
  /\ user = "idle"
  /\ want' = FALSE
  /\ video' = IF sess = None THEN video ELSE [video EXCEPT ![sess] = FALSE]
  /\ UNCHANGED <<enable, sess, closing, taskVars, state, usable, maker, pastVars>>

DeviceNext ==
  \/ \E s \in Sessions :
       GetsTransport(s) \/ GetsReady(s) \/ Breaks(s) \/ EndsSilently(s) \/ Lost(s)
  \/ UserConnects
  \/ \E c \in Callers, s \in Sessions : Found(c, s)
  \/ \E c \in Callers :
       FindFails(c) \/ ConnectFails(c) \/ ConnectDone(c) \/ ConnectTimesOut(c) \/ CloseDone(c)
  \/ LoopIsGone \/ LoopClosesItself
  \/ SleepOver \/ LoopCancelled
  \/ UserCloses \/ UserStartsVideo \/ VideoStarts \/ UserStopsVideo

DeviceSpec == DeviceInit /\ [][DeviceNext]_vars

\* The event loop delivers cancellations and runs those who wait for the end of
\* a task; an endpoint is opened, or is not; and a reconnect task that goes on in
\* spite of its cancellation waits for the camera and for its session no longer
\* than the timeouts of connect().  Nothing is assumed of the network.
DeviceFair ==
  /\ DeviceSpec
  /\ WF_vars(FindFails("loop") \/ \E s \in Sessions : Found("loop", s))
  /\ \A s \in Sessions :
       WF_vars(state[s] = "opening" /\ (GetsTransport(s) \/ EndsSilently(s)))
  /\ WF_vars(ConnectFails("loop") \/ ConnectDone("loop") \/ ConnectTimesOut("loop"))
  /\ WF_vars(LoopCancelled)
  /\ WF_vars(LoopIsGone)
  /\ WF_vars(LoopClosesItself)
  /\ \A c \in Callers : WF_vars(CloseDone(c))

----------------------------------------------------------------------------
DeviceTypeOK ==
  /\ sess \in Sessions \cup {None}
  /\ {enable, closing, want, cancelled, asked, clean, lost, hasty} \subseteq BOOLEAN
  /\ loop \in Running \cup {"none", "over"}
  /\ user \in {"idle", "finding", "waiting", "viewing", "closingLoop", "closingMain"}
  /\ on \in [Callers -> Sessions \cup {None}]
  /\ state \in [Sessions -> Live \cup {"unused", "ended"}]
  /\ {usable, video} \subseteq [Sessions -> BOOLEAN]
  /\ maker \in [Sessions -> Callers \cup {None}]

\* No session is left behind: one that has not ended is the device's own -- as
\* long as connect() is not called while a reconnect is at work, which it does
\* not refuse.
OneLiveSession == ~hasty => \A s \in Sessions : state[s] \in Live => s = sess

\* A device whose close() returned has no session, no session to come, and
\* nothing that would make one: a reconnect cannot race a deliberate close.
ClosedIsClosed ==
  clean /\ ~hasty =>
    sess = None /\ loop \notin Known /\ \A s \in Sessions : state[s] \notin Live

\* What the docstring of _reconnect_loop says: after a loss the session is made
\* again.  Until the device is closed, or connected again, either a reconnect task
\* is at work or there is a session with a main task to notice the next loss.
LossIsPursued ==
  enable /\ ~closing /\ lost =>
    loop \in Running \/ (sess # None /\ state[sess] \notin {"failed", "cut"})

\* Once a reconnect is over video runs again if it is still wanted, also when
\* start_video and stop_video were called meanwhile.
VideoIsResumed ==
  /\ sess # None /\ state[sess] = "ready" /\ maker[sess] = "loop"
  /\ loop \notin Running /\ user = "idle" /\ ~closing
  => video[sess] = want

\* close() returns: neither the reconnect task it cancels nor the main task it
\* awaits keeps it.
CloseReturns == user \in {"closingLoop", "closingMain"} ~> user = "idle"

\* What the docstring of _reconnect_loop says: attempts go on with backoff; only
\* the user's own close(), or timeout, ends them.
GivesUpOnlyWhenAsked == closing => asked
=============================================================================
