------------------------------- MODULE Program -------------------------------
(***************************************************************************)
(* The command line program, src/aiopppp/__main__.py: discovery finds      *)
(* devices over and over, a session is made for each new one, a session    *)
(* that is lost is forgotten, and amain() waits for the first of its two   *)
(* helper tasks, the tasks of the sessions it knew when it began to wait,  *)
(* and the future that tells it to look again.                             *)
(*                                                                         *)
(* Of a session only its moments the program can see are here (SessionLife *)
(* has the rest).  When amain() has returned, asyncio.run() cancels what   *)
(* still runs; that is not modelled.                                       *)
(***************************************************************************)
CONSTANTS Devices,  \* the cameras discovery may find
          Sessions, \* the sessions there are to make: a bound
          None

ASSUME ProgramAssumption == None \notin Sessions /\ None \notin Devices

Helpers == {"discovery", "webserver"}

VARIABLES sessions, \* SESSIONS; the dictionary tasks has the same keys
          device,   \* the device of each session
          state,    \* what became of each session
          done,     \* the sessions a task of which has ended
          fut,      \* new_device_fut
          watched,  \* the sessions whose tasks amain() waits for
          helpers,  \* the helper tasks that run
          amain     \* where amain() waits

sessionVars == <<sessions, device, state, done>>
mainVars == <<watched, helpers, amain>>
programVars == <<sessionVars, fut, mainVars>>

Live == {"opening", "starting", "ready"}
Registered == {sessions[d] : d \in Devices} \ {None}

ProgramInit ==
  /\ sessions = [d \in Devices |-> None]
  /\ device = [s \in Sessions |-> None]
  /\ state = [s \in Sessions |-> "unused"]
  /\ done = {}
  /\ fut = "pending" /\ watched = {}
  /\ helpers = Helpers
  /\ amain = "waiting"

----------------------------------------------------------------------------
\* Sessions.

Moves(s, from, to) == state[s] = from /\ state' = [state EXCEPT ![s] = to]

\* The session gets its transport, then ends its setup -- which the failure of
\* its packet task does not stop, once the answer to wait for has come.
Advances(s) ==
  /\ amain # "ended"
  /\ \/ s \notin done /\ Moves(s, "opening", "starting")
     \/ Moves(s, "starting", "ready")
  /\ UNCHANGED <<sessions, device, done, fut, mainVars>>

\* A task of the session ends by itself: nothing is reported, or not yet.
Breaks(s) ==
  /\ amain # "ended" /\ state[s] \in Live
  /\ done' = done \cup {s}
  /\ UNCHANGED <<sessions, device, state, fut, mainVars>>

\* The tasks a stopped session cancelled have ended.
TasksEnd(s) ==
  /\ amain # "ended" /\ state[s] = "stopped"
  /\ done' = done \cup {s}
  /\ UNCHANGED <<sessions, device, state, fut, mainVars>>

----------------------------------------------------------------------------
\* The callbacks.

notify_new_device == fut' = "done"

\* A session is made.
Starts(d, s) ==
  /\ amain # "ended" /\ "discovery" \in helpers
  /\ Moves(s, "unused", "opening")
  /\ sessions' = [sessions EXCEPT ![d] = s]
  /\ device' = [device EXCEPT ![s] = d]
  /\ UNCHANGED <<done, mainVars>>

\* Mutant: amain() is not told of the new session.
FoundInSilence(d, s) == sessions[d] = None /\ Starts(d, s) /\ UNCHANGED fut

\* Mutant: a device that is found again gets another session.
FoundAgain(d, s) == Starts(d, s) /\ notify_new_device

\* A punch reply came, which happens again in every period of discovery; a
\* device that has a session is left alone.
OnDeviceFound(d, s) == sessions[d] = None /\ Starts(d, s) /\ notify_new_device

\* stop() of a session with a transport; one without returns early.
Stop(S) == state' = [s \in Sessions |->
             IF s \in S /\ state[s] \in {"starting", "ready"} THEN "stopped" ELSE state[s]]

\* Mutant: amain() is not told of the loss.
LostInSilence(s) ==
  /\ amain # "ended" /\ state[s] \in {"starting", "ready"}
  /\ Stop({s})
  /\ sessions' = [sessions EXCEPT ![device[s]] = None]
  /\ UNCHANGED <<device, done, fut, mainVars>>

\* _on_device_lost of the session, which stops it, and on_device_lost, which
\* forgets the session the device has, whichever that is.
OnDeviceLost(s) ==
  /\ amain # "ended" /\ state[s] \in {"starting", "ready"}
  /\ Stop({s})
  /\ sessions' = [sessions EXCEPT ![device[s]] = None]
  /\ notify_new_device
  /\ UNCHANGED <<device, done, mainVars>>

----------------------------------------------------------------------------
\* amain().

\* One of the helpers ends: no port to bind to, or a signal.
HelperEnds(h) ==
  /\ amain # "ended" /\ h \in helpers
  /\ helpers' = helpers \ {h}
  /\ UNCHANGED <<sessionVars, fut, watched, amain>>

\* The wait is over with the future resolved: go round again.
AmainLooksAgain ==
  /\ amain = "waiting" /\ fut = "done"
  /\ fut' = "pending"
  /\ watched' = Registered
  /\ UNCHANGED <<sessionVars, helpers, amain>>

\* The wait is over with the future pending: a task has ended.
AmainLeaves ==
  /\ amain = "waiting" /\ fut = "pending"
  /\ helpers # Helpers \/ watched \cap done # {}
  /\ amain' = "gathering"
  /\ UNCHANGED <<sessionVars, fut, watched, helpers>>

\* The finally of amain(): once what ended has been gathered, or on a signal.
Finally ==
  /\ Stop(Registered)
  /\ sessions' = [d \in Devices |-> None]
  /\ amain' = "ended" /\ watched' = {}
  /\ UNCHANGED <<device, done, fut, helpers>>

AmainEnds == amain = "gathering" /\ Finally

AmainInterrupted == amain = "waiting" /\ Finally

ProgramNext ==
  \/ \E s \in Sessions : Advances(s) \/ Breaks(s) \/ TasksEnd(s) \/ OnDeviceLost(s)
  \/ \E d \in Devices, s \in Sessions : OnDeviceFound(d, s)
  \/ \E h \in Helpers : HelperEnds(h)
  \/ AmainLooksAgain \/ AmainLeaves \/ AmainEnds \/ AmainInterrupted

ProgramSpec == ProgramInit /\ [][ProgramNext]_programVars

----------------------------------------------------------------------------
ProgramTypeOK ==
  /\ sessions \in [Devices -> Sessions \cup {None}]
  /\ device \in [Sessions -> Devices \cup {None}]
  /\ state \in [Sessions -> Live \cup {"unused", "stopped"}]
  /\ {done, watched} \subseteq SUBSET Sessions
  /\ helpers \subseteq Helpers
  /\ fut \in {"pending", "done"}
  /\ amain \in {"waiting", "gathering", "ended"}

\* No session is left running that the program does not know, however often a
\* device is found and lost; and none with a transport once amain() is over.
NoSessionAstray ==
  \A s \in Sessions :
    /\ amain # "ended" /\ state[s] \in Live => sessions[device[s]] = s
    /\ amain = "ended" => state[s] \notin {"starting", "ready"}

\* No wake-up is lost: while amain() waits with nothing told to it, it waits for
\* the tasks of exactly the sessions there are.
EveryTaskIsWatched == amain = "waiting" /\ fut = "pending" => watched = Registered

\* The loss of a device never ends the program: amain() leaves its loop only if
\* one of the helpers has ended, or a task of a session that is not stopped.
LeavesForAReason ==
  [][amain = "waiting" /\ amain' = "gathering" =>
       helpers # Helpers \/ \E s \in done : state[s] \in Live]_programVars
=============================================================================
