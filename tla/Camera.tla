------------------------------- MODULE Camera -------------------------------
(***************************************************************************)
(* A binary session and the camera it is connected to: BinarySession of    *)
(* src/aiopppp/session.py from login on, the simulator BinaryCamera of     *)
(* src/binary_camera.py, and the datagrams between them, which may be      *)
(* lost, repeated or overtaken.  setup_device() logs in and reads the      *)
(* status while an HTTP client may already ask the same session for        *)
(* something; video is started and stopped, and its parameters are sent    *)
(* again after a while.                                                    *)
(*                                                                         *)
(* Acknowledgements and the wait for them are in Requests: here each       *)
(* request is acknowledged before anything else happens.  The handshake    *)
(* and the end of a session are in SessionLife.  The camera handles each   *)
(* command in a task of its own; two commands take it a while.             *)
(***************************************************************************)
EXTENDS Integers, Sequences, SequencesExt

CONSTANTS MaxRequests, \* bound on the requests of the HTTP client
          MaxFaults,   \* bound on what goes wrong in the network
          MaxFlight,   \* bound on the datagrams to the camera, and on those back
          None

ASSUME CameraAssumption == {MaxRequests, MaxFaults, MaxFlight} \subseteq Nat

\* USER_CHK; STATUS_GET; one that needs a login (WIFI_SCAN, USER_GET, REBOOT);
\* VIDEOPARAM_SET; LIVEVIDEO_START; LIVEVIDEO_STOP.
Commands == {"check", "status", "scan", "param", "start", "stop"}
Slow == {"check", "status"}
Callers == {"setup", "user"}

\* What goes to the camera, what comes back, what a caller waits for.
Datagram == [cmd : Commands, id : Nat \cup {None}]
Reply == [cmd : Commands, id : Nat \cup {None}, got : {"data", "refusal"}]
Pending == [cmd : Commands, id : Nat, authed : BOOLEAN,
            got : {"nothing", "data", "refusal", "empty"}]

ASSUME NoneAssumption ==
  None \notin BOOLEAN /\ None \notin Nat /\ None \notin Callers /\ None \notin Pending

VARIABLES
  setup,     \* where setup_device is
  auth,      \* what login() returned
  ticket,    \* the ticket the camera gave, if any, goes out with each command
  req,       \* the request each caller waits for: its future
  waiter,    \* cmd_waiters: whose future there is for a command
  results,   \* cmd_results: the last code seen for a command
  requested, \* is_video_requested
  reassert,  \* _reassert_task sleeps
  toCamera, toHost, \* the datagrams on their way
  mode,      \* auth_mode of the camera
  right,     \* the camera accepts the credentials of the session
  loggedIn,  \* logged_in
  asleep,    \* the process_drw tasks that sleep, the oldest first
  streaming, \* video_task runs
  asked,     \* requests of the HTTP client so far
  faults,    \* what has gone wrong in the network so far
  crossed    \* history: an answer was taken for that to another request

hostVars == <<setup, auth, ticket, req, waiter, results, requested, reassert>>
cameraVars == <<loggedIn, asleep, streaming>>
netVars == <<toCamera, toHost>>
cameraLinkVars == <<hostVars, cameraVars, netVars, mode, right, asked, faults, crossed>>

CameraInit ==
  /\ setup = "connected" /\ auth = None /\ ticket = FALSE
  /\ req = [c \in Callers |-> None]
  /\ waiter = [k \in Commands |-> None]
  /\ results = [k \in Commands |-> None]
  /\ requested = FALSE /\ reassert = FALSE
  /\ toCamera = <<>> /\ toHost = <<>>
  /\ mode \in {"normal", "stuck", "off"}
  /\ right \in BOOLEAN
  /\ loggedIn = FALSE /\ asleep = <<>> /\ streaming = FALSE
  /\ asked = 0 /\ faults = 0 /\ crossed = FALSE

Up == setup \notin {"failed", "cut"}

----------------------------------------------------------------------------
\* Requests of the host.  id tells one request from another; it is not sent.

Send(cmds) ==
  /\ Len(toCamera) + Len(cmds) <= MaxFlight
  /\ toCamera' = toCamera \o cmds

\* The wait of c is over; the entry under its command goes, whoever's it is.
Finished(c) == IF req[c] = None THEN waiter ELSE [waiter EXCEPT ![req[c].cmd] = None]

\* A caller whose future has gone before it could wait for it comes back empty.
Orphaned(r) == IF r.got = "nothing" THEN [r EXCEPT !.got = "empty"] ELSE r

\* wait_cmd_result returns or raises.
Finish(c) ==
  LET o == waiter[req[c].cmd]
  IN  /\ waiter' = Finished(c)
      /\ req' = [x \in Callers |-> IF x = c THEN None
                                   ELSE IF x = o THEN Orphaned(req[x]) ELSE req[x]]

\* send_command with a response expected, then wait_cmd_result.  The future of
\* another caller for the same command is cancelled if it is still pending; on its
\* way out that caller takes the entry of the command with it, which is the future
\* just made, so that this request finds none and comes back empty.
Request(c, k, id) ==
  /\ Send(<<[cmd |-> k, id |-> id]>>)
  /\ LET o == waiter[k]
         cancels == o \notin {None, c} /\ req[o].got = "nothing"
         mine == [cmd |-> k, id |-> id, authed |-> auth = TRUE,
                  got |-> IF cancels THEN "empty" ELSE "nothing"]
     IN /\ req' = [x \in Callers |-> IF x = c THEN mine
                                     ELSE IF cancels /\ x = o THEN None ELSE req[x]]
        /\ setup' = IF cancels /\ o = "setup" THEN "cut"
                    ELSE IF c = "setup" THEN k ELSE setup
        /\ waiter' = [Finished(c) EXCEPT ![k] = IF cancels THEN None ELSE c]

Answered(c) == Up /\ req[c] # None /\ req[c].got # "nothing"

\* The event loop of the host resumes whoever was answered before it looks at
\* the network again, and long before a timer or a round trip is over.
Settled == \A c \in Callers : ~Answered(c)

SetupLogsIn ==
  /\ setup = "connected"
  /\ Request("setup", "check", 0)
  /\ UNCHANGED <<auth, ticket, results, requested, reassert, cameraVars, toHost, mode, right,
                 asked, faults, crossed>>

\* Mutant: an answer is a login, a refusal too.
LoginAlways ==
  /\ setup = "check" /\ Answered("setup")
  /\ auth' = TRUE
  /\ Request("setup", "status", 1)
  /\ UNCHANGED <<ticket, results, requested, reassert, cameraVars, toHost, mode, right, asked,
                 faults, crossed>>

\* login() returns: an empty answer is no login, but not fatal.  get_status()
\* sends at once.
LoginReturns ==
  /\ setup = "check" /\ Answered("setup")
  /\ auth' = (req["setup"].got = "data")
  /\ Request("setup", "status", 1)
  /\ UNCHANGED <<ticket, results, requested, reassert, cameraVars, toHost, mode, right, asked,
                 faults, crossed>>

\* The rest of setup_device.
SetupDone ==
  /\ setup = "status" /\ Answered("setup")
  /\ setup' = "ready"
  /\ Finish("setup")
  /\ UNCHANGED <<auth, ticket, results, requested, reassert, cameraVars, netVars, mode, right,
                 asked, faults, crossed>>

\* An HTTP client asks for something, which it may before the device is ready.
UserAsks(k) ==
  /\ Settled /\ Up /\ req["user"] = None /\ asked < MaxRequests
  /\ Request("user", k, asked + 2)
  /\ asked' = asked + 1
  /\ UNCHANGED <<auth, ticket, results, requested, reassert, cameraVars, toHost, mode, right,
                 faults, crossed>>

UserIsAnswered ==
  /\ Answered("user")
  /\ Finish("user")
  /\ UNCHANGED <<setup, auth, ticket, results, requested, reassert, cameraVars, netVars, mode,
                 right, asked, faults, crossed>>

\* A datagram that is still on its way, or a task of the camera, will answer.
UnderWay(c) == \E m \in Range(toCamera) \cup Range(toHost) \cup Range(asleep) :
                 m.id = req[c].id

\* No answer came in time: it is lost, or slower than the timeout, a fault.
TimesOut(c) ==
  /\ Settled /\ Up /\ req[c] # None /\ req[c].got = "nothing"
  /\ \/ ~UnderWay(c) /\ UNCHANGED faults
     \/ UnderWay(c) /\ faults < MaxFaults /\ faults' = faults + 1
  /\ Finish(c)
  /\ setup' = IF c = "setup" THEN "failed" ELSE setup
  /\ UNCHANGED <<auth, ticket, results, requested, reassert, cameraVars, netVars, mode, right,
                 asked, crossed>>

\* Mutant: a refusal leaves no trace.
HandleWithoutCode ==
  /\ Up /\ toHost # <<>>
  /\ LET m == Head(toHost)
         w == waiter[m.cmd]
         resolves == w # None /\ req[w].got = "nothing"
     IN /\ ticket' = (ticket \/ (m.cmd = "check" /\ m.got = "data"))
        /\ results' = IF m.got = "data" THEN [results EXCEPT ![m.cmd] = "ok"] ELSE results
        /\ req' = IF resolves THEN [req EXCEPT ![w].got = m.got] ELSE req
        /\ crossed' = (crossed \/ (resolves /\ req[w].id # m.id))
  /\ toHost' = Tail(toHost)
  /\ UNCHANGED <<setup, auth, waiter, requested, reassert, cameraVars, toCamera, mode, right,
                 asked, faults>>

\* handle_incoming_command_packet: the code is recorded, and the future there is
\* for the command gets the payload, whichever request it answers.
HandleAnswer ==
  /\ Up /\ toHost # <<>>
  /\ LET m == Head(toHost)
         w == waiter[m.cmd]
         resolves == w # None /\ req[w].got = "nothing"
     IN /\ ticket' = (ticket \/ (m.cmd = "check" /\ m.got = "data"))
        /\ results' = [results EXCEPT ![m.cmd] = IF m.got = "data" THEN "ok" ELSE "refused"]
        /\ req' = IF resolves THEN [req EXCEPT ![w].got = m.got] ELSE req
        /\ crossed' = (crossed \/ (resolves /\ req[w].id # m.id))
  /\ toHost' = Tail(toHost)
  /\ UNCHANGED <<setup, auth, waiter, requested, reassert, cameraVars, toCamera, mode, right,
                 asked, faults>>

----------------------------------------------------------------------------
\* Video.

Plain(k) == [cmd |-> k, id |-> None]

\* _request_video of a mode: the parameters, the command, and a task that will
\* send the parameters again, in place of one that still sleeps.
RequestVideo == Send(<<Plain("param"), Plain("start")>>) /\ reassert' = TRUE

StartVideo ==
  /\ Settled /\ setup = "ready" /\ ~requested
  /\ RequestVideo
  /\ requested' = TRUE
  /\ UNCHANGED <<setup, auth, ticket, req, waiter, results, cameraVars, toHost, mode, right,
                 asked, faults, crossed>>

\* The watchdog asks again while nothing comes.
Rerequest ==
  /\ Settled /\ Up /\ requested /\ ~streaming
  /\ RequestVideo
  /\ UNCHANGED <<setup, auth, ticket, req, waiter, results, requested, cameraVars, toHost, mode,
                 right, asked, faults, crossed>>

StopVideo ==
  /\ Settled /\ Up /\ requested
  /\ Send(<<Plain("stop")>>)
  /\ requested' = FALSE
  /\ UNCHANGED <<setup, auth, ticket, req, waiter, results, reassert, cameraVars, toHost, mode,
                 right, asked, faults, crossed>>

\* _reassert_video_params, after its sleep.
Reassert ==
  /\ Settled /\ Up /\ reassert
  /\ reassert' = FALSE
  /\ IF requested THEN Send(<<Plain("param")>>) ELSE UNCHANGED toCamera
  /\ UNCHANGED <<setup, auth, ticket, req, waiter, results, requested, cameraVars, toHost, mode,
                 right, asked, faults, crossed>>

----------------------------------------------------------------------------
\* The camera.

\* _send_cmd_ack and _send_cmd_refusal.
Answer(m, got) ==
  /\ Len(toHost) < MaxFlight
  /\ toHost' = Append(toHost, [cmd |-> m.cmd, id |-> m.id, got |-> got])

\* What an unauthenticated session may not do.
Refuses(k) ==
  /\ mode # "off" /\ ~loggedIn
  /\ mode = "stuck" \/ k = "scan"

\* Mutant: a stop leaves the stream running.
StopLeavesRunning(k) == streaming' = (streaming \/ k = "start")

\* _start_video and _stop_video.
Switches(k) == streaming' = (k = "start" \/ (streaming /\ k # "stop"))

\* process_drw, up to the sleep of a command that has one.
ProcessDrw ==
  /\ Settled /\ toCamera # <<>>
  /\ LET m == Head(toCamera)
     IN IF m.cmd = "check" \/ (m.cmd = "status" /\ ~Refuses("status"))
        THEN asleep' = Append(asleep, m) /\ UNCHANGED <<toHost, streaming>>
        ELSE /\ UNCHANGED asleep
             /\ IF Refuses(m.cmd) THEN Answer(m, "refusal") /\ UNCHANGED streaming
                ELSE Answer(m, "data") /\ Switches(m.cmd)
  /\ toCamera' = Tail(toCamera)
  /\ UNCHANGED <<hostVars, loggedIn, mode, right, asked, faults, crossed>>

\* Mutant: a login is answered but not kept.
LogsInNever(k) == loggedIn' = (loggedIn /\ right)

\* The credentials are looked at after the sleep.
LogsIn(k) == loggedIn' = IF k = "check" THEN right ELSE loggedIn

\* The rest of process_drw after the sleep of the oldest task.
ProcessWakes ==
  /\ Settled /\ asleep # <<>>
  /\ LET m == Head(asleep)
     IN /\ Answer(m, IF m.cmd = "check" /\ ~right THEN "refusal" ELSE "data")
        /\ LogsIn(m.cmd)
  /\ asleep' = Tail(asleep)
  /\ UNCHANGED <<hostVars, streaming, toCamera, mode, right, asked, faults, crossed>>

----------------------------------------------------------------------------
\* The network.

\* One datagram is lost, repeated, or overtaken by the one after it.
Disturbed(q) ==
  {RemoveAt(q, i) : i \in 1..Len(q)}
    \cup {q \o <<q[i]>> : i \in {j \in 1..Len(q) : Len(q) < MaxFlight}}
    \cup {[q EXCEPT ![i] = q[i + 1], ![i + 1] = q[i]] : i \in 1..Len(q) - 1}

Fault ==
  /\ Settled /\ faults < MaxFaults /\ faults' = faults + 1
  /\ \/ toCamera' \in Disturbed(toCamera) /\ UNCHANGED toHost
     \/ toHost' \in Disturbed(toHost) /\ UNCHANGED toCamera
  /\ UNCHANGED <<hostVars, cameraVars, mode, right, asked, crossed>>

CameraNext ==
  \/ SetupLogsIn \/ LoginReturns \/ SetupDone
  \/ \E k \in {"status", "scan"} : UserAsks(k)
  \/ UserIsAnswered
  \/ \E c \in Callers : TimesOut(c)
  \/ HandleAnswer
  \/ StartVideo \/ Rerequest \/ StopVideo \/ Reassert
  \/ ProcessDrw \/ ProcessWakes
  \/ Fault

CameraSpec == CameraInit /\ [][CameraNext]_cameraLinkVars

----------------------------------------------------------------------------
\* The shape of the two ends and of what is on its way.
CameraTypeOK ==
  /\ setup \in {"connected", "check", "status", "ready", "failed", "cut"}
  /\ auth \in BOOLEAN \cup {None} /\ ticket \in BOOLEAN
  /\ req \in [Callers -> Pending \cup {None}]
  /\ waiter \in [Commands -> Callers \cup {None}]
  /\ results \in [Commands -> {"ok", "refused", None}]
  /\ requested \in BOOLEAN /\ reassert \in BOOLEAN
  /\ toCamera \in Seq(Datagram) /\ asleep \in Seq(Datagram) /\ toHost \in Seq(Reply)
  /\ mode \in {"normal", "stuck", "off"} /\ right \in BOOLEAN
  /\ loggedIn \in BOOLEAN /\ streaming \in BOOLEAN
  /\ asked \in 0..MaxRequests /\ faults \in 0..MaxFaults /\ crossed \in BOOLEAN

\* What login() has returned is what the camera decided, whatever happened to
\* the datagrams: a session that believes it is logged in is, and one that was
\* turned down was turned down for its credentials.
LoginIsKnown == auth # None => auth = right /\ loggedIn = right

\* A request made after a successful login is refused by no camera: the one it
\* may seem refused by is a late answer to an earlier request, for answers carry
\* nothing but their command.
LoginOpens ==
  req["user"] # None /\ req["user"].authed /\ req["user"].got = "refusal" => crossed

\* A refusal has no payload, and cmd_results tells it from an answer with nothing
\* in it: who is refused finds the code there, whatever came in between, unless the
\* network repeated or delayed something.
RefusalIsExplained ==
  \A c \in Callers :
    Answered(c) /\ req[c].got = "refusal" => results[req[c].cmd] = "refused" \/ faults > 0

\* Once all is delivered the camera streams exactly if the session has video
\* requested -- a camera that refuses nothing, behind a network that does not
\* lose a stop or reorder it with a start.
StreamFollowsRequest ==
  (faults = 0 /\ Up /\ toCamera = <<>> /\ ~Refuses("start")) => streaming = requested
=============================================================================
