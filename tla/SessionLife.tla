---------------------------- MODULE SessionLife ----------------------------
(***************************************************************************)
(* The life of one Session of src/aiopppp/session.py: its three tasks, the *)
(* handshake, setup and loop of the main task, the packets that end it,    *)
(* stop() and _on_device_lost(), and those who depend on it: a caller of   *)
(* start_video(), the observer of the video state, and the embedder, which *)
(* is the command line program (amain of __main__.py) or a Device.         *)
(*                                                                         *)
(* A step runs from one suspension point of a coroutine to the next.       *)
(* Queue.get() on a queue that is not empty does not suspend, so the       *)
(* packet task keeps the event loop (busy) until its queue is empty, even  *)
(* after its own cancellation was asked for.  A send suspends only to      *)
(* re-raise what ended another task of the session.                        *)
(***************************************************************************)
EXTENDS Integers, Sequences

CONSTANTS MaxInbox, \* bound on the packets waiting for the packet task
          MaxTicks  \* bound on the P2pRdy packets inside the debounce delay

ASSUME SessionBounds == MaxInbox \in Nat \ {0} /\ MaxTicks \in Nat \ {0}

Tasks == {"main", "packets", "video"}
Ended == {"cancelled", "failed", "returned"}

\* What a packet makes its handler do: tick the handshake; reply (P2PAlive, or
\* a DRW to acknowledge); reply and answer the request setup waits for; reply
\* and fail (a command response without the expected keys); close the session.
\* Packets that are only logged are left out.
Packets == {"rdy", "reply", "answer", "bad", "close"}

VARIABLES at,        \* where the main task waits
          task,      \* what became of each task
          busy,      \* the packet task has not yielded since its last packet
          inbox,     \* packet_queue
          transport, \* the UDP endpoint is open
          connected, \* state is CONNECTED
          ticks,     \* DebounceEvent.counter
          shaken,    \* the debounced P2pRdy event is set
          answered,  \* the response setup_device waits for has come
          ready,     \* device_is_ready is set
          requested, \* is_video_requested
          told,      \* what on_video_state_change was last called with
          viewer,    \* a caller of start_video
          embedder,  \* who made the session, and whether it still runs
          reports,   \* calls of on_disconnect: none, one, more
          torn       \* history: stop() has torn the session down

taskVars == <<at, task, busy, inbox>>
flagVars == <<transport, connected, ticks, shaken, answered, ready>>
userVars == <<requested, told, viewer, embedder, reports, torn>>
sessionVars == <<taskVars, flagVars, userVars>>

SessionInit ==
  /\ at = "create"
  /\ task = [t \in Tasks |-> "running"]
  /\ busy = FALSE
  /\ inbox = <<>>
  /\ transport = FALSE /\ connected = FALSE
  /\ ticks = 0 /\ shaken = FALSE
  /\ answered = FALSE /\ ready = FALSE
  /\ requested = FALSE /\ told = FALSE
  /\ viewer = "none"
  /\ embedder \in {"app", "device"}
  /\ reports = 0
  /\ torn = FALSE

----------------------------------------------------------------------------
\* Mutant: a send does not look at what became of the tasks.
SendFailsUnconnected == ~transport

\* A send fails without a transport, and re-raises what ended another task.
SendFails == ~transport \/ \E t \in Tasks : task[t] \in Ended

\* Mutant: the observer is not told.
StopInSilence(self, as) ==
  IF ~connected /\ ~transport
  THEN /\ task' = IF self \in Tasks THEN [task EXCEPT ![self] = as] ELSE task
       /\ UNCHANGED <<transport, connected, ready, requested, told, torn>>
  ELSE /\ task' = [t \in Tasks |->
                     IF t = self THEN as
                     ELSE IF task[t] = "running" THEN "cancelling" ELSE task[t]]
       /\ transport' = FALSE
       /\ connected' = FALSE
       /\ ready' = TRUE
       /\ requested' = FALSE
       /\ told' = told
       /\ torn' = TRUE

\* Mutant: the video task is not cancelled.
StopButVideo(self, as) ==
  IF ~connected /\ ~transport
  THEN /\ task' = IF self \in Tasks THEN [task EXCEPT ![self] = as] ELSE task
       /\ UNCHANGED <<transport, connected, ready, requested, told, torn>>
  ELSE /\ task' = [t \in Tasks |->
                     IF t = self THEN as
                     ELSE IF task[t] = "running" /\ t # "video" THEN "cancelling" ELSE task[t]]
       /\ transport' = FALSE
       /\ connected' = FALSE
       /\ ready' = TRUE
       /\ requested' = FALSE
       /\ told' = IF requested THEN FALSE ELSE told
       /\ torn' = TRUE

\* Mutant: those who wait for device_is_ready are not woken.
StopWithoutWaking(self, as) ==
  IF ~connected /\ ~transport
  THEN /\ task' = IF self \in Tasks THEN [task EXCEPT ![self] = as] ELSE task
       /\ UNCHANGED <<transport, connected, ready, requested, told, torn>>
  ELSE /\ task' = [t \in Tasks |->
                     IF t = self THEN as
                     ELSE IF task[t] = "running" THEN "cancelling" ELSE task[t]]
       /\ transport' = FALSE
       /\ connected' = FALSE
       /\ ready' = ready
       /\ requested' = FALSE
       /\ told' = IF requested THEN FALSE ELSE told
       /\ torn' = TRUE

\* stop(): nothing to do before there is a transport or after it was closed.
\* self is the task that calls it, as: what becomes of that task.
Stop(self, as) ==
  IF ~connected /\ ~transport
  THEN /\ task' = IF self \in Tasks THEN [task EXCEPT ![self] = as] ELSE task
       /\ UNCHANGED <<transport, connected, ready, requested, told, torn>>
  ELSE /\ task' = [t \in Tasks |->
                     IF t = self THEN as
                     ELSE IF task[t] = "running" THEN "cancelling" ELSE task[t]]
       /\ transport' = FALSE
       /\ connected' = FALSE
       /\ ready' = TRUE
       /\ requested' = FALSE
       /\ told' = IF requested THEN FALSE ELSE told
       /\ torn' = TRUE

\* _on_device_lost(): stop, then tell whoever made the session.
OnDeviceLost(self, as) ==
  /\ Stop(self, as)
  /\ reports' = IF reports < 2 THEN reports + 1 ELSE reports

----------------------------------------------------------------------------
\* The main task (_run).
Main(point) == ~busy /\ task["main"] = "running" /\ at = point

CreateUdp ==
  /\ Main("create")
  /\ transport' = TRUE
  /\ at' = "handshake"
  /\ UNCHANGED <<task, busy, inbox, connected, ticks, shaken, answered, ready, userVars>>

\* create_udp raises: it stands before the try of _run.
CreateUdpFails ==
  /\ Main("create")
  /\ task' = [task EXCEPT !["main"] = "failed"]
  /\ UNCHANGED <<at, busy, inbox, flagVars, userVars>>

Shaken ==
  /\ Main("handshake") /\ shaken
  /\ connected' = TRUE
  /\ at' = IF SendFails THEN "failing" ELSE "setup"
  /\ UNCHANGED <<task, busy, inbox, transport, ticks, shaken, answered, ready, userVars>>

\* setup_device returns: the session is usable and the watch begins.
SetupDone ==
  /\ Main("setup") /\ answered
  /\ ready' = TRUE
  /\ at' = "loop"
  /\ UNCHANGED <<task, busy, inbox, transport, connected, ticks, shaken, answered, userVars>>

\* Mutant: the session stops, and nobody hears of it.
GivesUpInSilence ==
  /\ \/ Main("handshake") /\ ~shaken
     \/ Main("setup")
     \/ Main("loop")
     \/ Main("failing")
  /\ Stop("main", "cancelled")
  /\ UNCHANGED <<at, busy, inbox, ticks, shaken, answered, viewer, embedder, reports>>

\* The ways _run ends by itself: no handshake in time, setup not answered in
\* time or answered with an error, no more life in the loop (Watchdog), a send
\* that re-raises what ended another task.  Cancelled by its own stop(), the task ends cancelled.
GivesUp ==
  /\ \/ Main("handshake") /\ ~shaken
     \/ Main("setup")
     \/ Main("loop")
     \/ Main("failing")
  /\ OnDeviceLost("main", "cancelled")
  /\ UNCHANGED <<at, busy, inbox, ticks, shaken, answered, viewer, embedder>>

\* The future setup waits on is cancelled by another request for the same
\* command (_reset_cmd_waiter): _run takes it for its own cancellation.
WaiterCancelled ==
  /\ Main("setup")
  /\ task' = [task EXCEPT !["main"] = "cancelled"]
  /\ UNCHANGED <<at, busy, inbox, flagVars, userVars>>

\* A task whose cancellation was asked for ends when it next gets to run.
CancelDelivered(t) ==
  /\ ~busy
  /\ task[t] = "cancelling"
  /\ task' = [task EXCEPT ![t] = "cancelled"]
  /\ UNCHANGED <<at, busy, inbox, flagVars, userVars>>

----------------------------------------------------------------------------
\* Datagrams and the packet task.

OnReceive(p) ==
  /\ ~busy /\ transport
  /\ Len(inbox) < MaxInbox
  /\ p = "rdy" => ticks < MaxTicks
  /\ inbox' = Append(inbox, p)
  /\ UNCHANGED <<at, task, busy, flagVars, userVars>>

\* handle_incoming_packet.  A task that cancelled itself goes on to the end of
\* its queue; one cancelled by another drops what its queue still holds.
HandlePacket ==
  /\ task["packets"] = "running" \/ (busy /\ task["packets"] = "cancelling")
  /\ inbox # <<>>
  /\ inbox' = Tail(inbox)
  /\ LET p == Head(inbox)
         fails == p = "bad" \/ (p \in {"reply", "answer"} /\ SendFails)
     IN  /\ busy' = (~fails /\ inbox' # <<>>)
         /\ ticks' = IF p = "rdy" THEN ticks + 1 ELSE ticks
         /\ answered' = (answered \/ (p = "answer" /\ ~fails /\ at = "setup"))
         /\ IF p = "close"
            THEN OnDeviceLost("packets", IF ~connected /\ ~transport THEN task["packets"]
                                         ELSE "cancelling")
            ELSE /\ task' = IF fails THEN [task EXCEPT !["packets"] = "failed"] ELSE task
                 /\ UNCHANGED <<transport, connected, ready, requested, told, reports, torn>>
  /\ UNCHANGED <<at, shaken, viewer, embedder>>

\* DebounceEvent._timeout_counter: the last of a burst of ticks sets the event.
DebounceOver ==
  /\ ~busy /\ ticks > 0
  /\ ticks' = ticks - 1
  /\ shaken' = (shaken \/ ticks = 1)
  /\ UNCHANGED <<taskVars, transport, connected, answered, ready, userVars>>

----------------------------------------------------------------------------
\* Those who use the session.

\* start_video waits for device_is_ready first.
CallStartVideo ==
  /\ ~busy /\ viewer = "none"
  /\ viewer' = "waiting"
  /\ UNCHANGED <<taskVars, flagVars, requested, told, embedder, reports, torn>>

\* Mutant: video counts as requested before the request is sent.
StartVideoEarly ==
  /\ ~busy /\ viewer = "waiting" /\ ready
  /\ viewer' = IF ~requested /\ SendFails THEN "refused" ELSE "watching"
  /\ requested' = TRUE
  /\ told' = TRUE
  /\ UNCHANGED <<taskVars, flagVars, embedder, reports, torn>>

StartVideo ==
  /\ ~busy /\ viewer = "waiting" /\ ready
  /\ viewer' = IF ~requested /\ SendFails THEN "refused" ELSE "watching"
  /\ requested' = (requested \/ ~SendFails)
  /\ told' = (told \/ (~requested /\ ~SendFails))
  /\ UNCHANGED <<taskVars, flagVars, embedder, reports, torn>>

StopVideo ==
  /\ ~busy /\ viewer = "watching"
  /\ viewer' = "none"
  /\ requested' = FALSE
  /\ told' = IF requested THEN FALSE ELSE told
  /\ UNCHANGED <<taskVars, flagVars, embedder, reports, torn>>

\* Device.close(): the close packet comes first, and when sending it fails
\* stop() is not reached.
DeviceClose ==
  /\ ~busy /\ embedder = "device" /\ reports = 0
  /\ IF SendFails
     THEN embedder' = "raised" /\ UNCHANGED <<task, transport, connected, ready, requested, told, torn>>
     ELSE embedder' = "closed" /\ Stop("none", "none")
  /\ UNCHANGED <<at, busy, inbox, ticks, shaken, answered, viewer, reports>>

\* amain wakes when a task of the session has ended: that is no reason to go
\* on unless the device was reported lost.  It stops the session on its way out.
AppExits ==
  /\ ~busy /\ embedder = "app"
  /\ reports = 0
  /\ \E t \in Tasks : task[t] \in Ended
  /\ embedder' = "exited"
  /\ Stop("none", "none")
  /\ UNCHANGED <<at, busy, inbox, ticks, shaken, answered, viewer, reports>>

SessionNext ==
  \/ CreateUdp \/ CreateUdpFails \/ Shaken \/ SetupDone \/ GivesUp \/ WaiterCancelled
  \/ \E t \in Tasks : CancelDelivered(t)
  \/ \E p \in Packets : OnReceive(p)
  \/ HandlePacket \/ DebounceOver
  \/ CallStartVideo \/ StartVideo \/ StopVideo
  \/ DeviceClose \/ AppExits

SessionSpec == SessionInit /\ [][SessionNext]_sessionVars

\* The event loop runs what is ready in the order it became ready, so that no
\* burst of packets keeps a task away for ever; timers fire, every wait of the
\* main task before the loop has a timeout, and the loop sends a keep-alive at
\* least every eleven seconds; amain is woken by a task that ended.  Nothing is
\* assumed of the network.
Fairness ==
  /\ WF_sessionVars(HandlePacket)
  /\ WF_sessionVars(CreateUdp \/ CreateUdpFails)
  /\ SF_sessionVars(Shaken \/ SetupDone \/ (at # "loop" /\ GivesUp))
  /\ SF_sessionVars(at = "loop" /\ SendFails /\ GivesUp)
  /\ WF_sessionVars(\E t \in Tasks : CancelDelivered(t))
  /\ SF_sessionVars(StartVideo)
  /\ WF_sessionVars(AppExits)

FairSession == SessionSpec /\ Fairness

----------------------------------------------------------------------------
\* The shape of a session, its queue and debounce delay within their bounds.
SessionTypeOK ==
  /\ at \in {"create", "handshake", "setup", "failing", "loop"}
  /\ task \in [Tasks -> {"running", "cancelling"} \cup Ended]
  /\ {busy, transport, connected, shaken, answered, ready, requested, told, torn} \subseteq BOOLEAN
  /\ ticks \in 0..(MaxTicks + MaxInbox)
  /\ inbox \in Seq(Packets) /\ Len(inbox) <= MaxInbox
  /\ viewer \in {"none", "waiting", "watching", "refused"}
  /\ embedder \in {"app", "device", "closed", "raised", "exited"}
  /\ reports \in 0..2

\* Once stop() has torn the session down nothing brings it back: not the caller
\* of start_video it wakes, not the packets still queued, not a main task that
\* was about to go on.
TornStaysDown == torn => ~transport /\ ~connected /\ ~requested

\* Whoever observes the video state always knows it, also after a tear-down.
ObserverKnows == told = requested

\* A session that is lost while it waits for the handshake, or once it is set up,
\* is reported, unless its owner had stopped it; and a report comes when the
\* session is down, with no task left to go on, so that the owner may make the
\* next one at once.  Of an end before the endpoint is open or during the setup
\* this says nothing: see ProcessSurvives and NoZombie.
EndIsReported ==
  /\ task["main"] \in Ended /\ at \in {"handshake", "failing", "loop"} =>
       reports > 0 \/ embedder \in {"closed", "exited"}
  /\ reports > 0 => ~transport /\ \A t \in Tasks : task[t] # "running"

\* Every task of a session that was torn down ends.
AllTasksEnd == torn ~> \A t \in Tasks : task[t] \in Ended

\* A caller of start_video gets an answer, unless _run ended without a word.
StartVideoReturns ==
  viewer = "waiting" ~> viewer # "waiting" \/ (task["main"] \in Ended /\ ~torn)

\* A packet task that died is noticed by the main task and brings the session
\* down, unless there is no main task to notice.
FailureIsNoticed ==
  task["packets"] = "failed" ~> torn \/ (task["main"] \in Ended)

\* What the comment on RECV_TIMEOUT_SEC says: a session whose peer is silent is
\* torn down, not left a zombie.  The watch is kept by the main task, so a session
\* without one must not stay open.
NoZombie == task["main"] \in Ended ~> ~transport

\* What the comment in _run says: a single session never crashes the process.
ProcessSurvives == embedder # "exited"
=============================================================================
