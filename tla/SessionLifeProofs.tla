------------------------- MODULE SessionLifeProofs --------------------------
(***************************************************************************)
(* Proofs about SessionLife, for any number of packets waiting and of      *)
(* handshakes inside the debounce delay.                                   *)
(***************************************************************************)
EXTENDS SessionLife, TLAPS

TaskStates == {"running", "cancelling"} \cup Ended

\* As much of the type invariant as the argument needs.
Shapes ==
  /\ task \in [Tasks -> TaskStates]
  /\ reports \in 0..2
  /\ requested \in BOOLEAN /\ told \in BOOLEAN

\* Somebody was told, or knows because it stopped the session itself.
Known == reports > 0 \/ embedder \in {"closed", "exited"}

\* No task goes on once the session is torn down, which is what keeps the main task
\* from opening the session again.
MainIsDone == torn => \A t \in Tasks : task[t] # "running"

\* A session that was open at some time is open or torn down; only such a session
\* has packets, and only of such a session is a loss reported.
OpenOrTorn ==
  /\ at # "create" \/ inbox # <<>> => transport \/ torn
  /\ reports > 0 => torn

\* Who asks the main task to end says so, and so does whoever tears the session
\* down; by itself the main task ends without a word at two points only.
EndsAreKnown ==
  /\ torn => Known
  /\ task["main"] = "cancelling" => Known
  /\ task["main"] \in Ended => Known \/ at \in {"create", "setup"}

\* The invariant the safety properties follow from.
SessionInv ==
  /\ Shapes /\ TornStaysDown /\ ObserverKnows
  /\ MainIsDone /\ OpenOrTorn /\ EndsAreKnown

----------------------------------------------------------------------------
\* Nothing holds a new session back.
LEMMA InitEstablishes == SessionInit => SessionInv
<1> SUFFICES ASSUME SessionInit PROVE SessionInv
  OBVIOUS
<1>1. task \in [Tasks -> TaskStates] /\ task["main"] = "running"
  BY DEF SessionInit, Tasks, TaskStates
<1>2. reports \in 0..2
  BY DEF SessionInit
<1>3. requested = FALSE /\ told = FALSE /\ torn = FALSE
  BY DEF SessionInit
<1>4. OpenOrTorn
  BY DEF SessionInit, OpenOrTorn
<1>5. QED
  BY <1>1, <1>2, <1>3, <1>4
     DEF SessionInv, Shapes, TornStaysDown, ObserverKnows, MainIsDone, EndsAreKnown, Ended

\* A step that leaves the session's state alone, and ends a task at most, keeps
\* the invariant if the end of the main task is known.
LEMMA QuietStepKeeps ==
  ASSUME SessionInv,
         UNCHANGED <<transport, connected, requested, told, reports, torn>>,
         task' \in [Tasks -> TaskStates],
         \A t \in Tasks : task'[t] # task[t] => task'[t] # "running",
         at' = at, inbox' = <<>> \/ inbox # <<>> \/ transport,
         embedder \in {"closed", "exited"} => embedder' = embedder,
         task'["main"] = "cancelling" => task["main"] = "cancelling",
         task'["main"] \in Ended =>
           \/ Known
           \/ at \in {"create", "setup"}
           \/ task["main"] \in Ended
  PROVE  SessionInv'
<1>1. Shapes'
  BY DEF SessionInv, Shapes
<1>2. TornStaysDown' /\ ObserverKnows'
  BY DEF SessionInv, TornStaysDown, ObserverKnows
<1>3. MainIsDone'
  BY DEF SessionInv, MainIsDone
<1>4. Known => Known'
  BY DEF Known
<1>5. EndsAreKnown'
  BY <1>4 DEF SessionInv, EndsAreKnown
<1>6. OpenOrTorn'
  BY DEF SessionInv, OpenOrTorn
<1>7. QED
  BY <1>1, <1>2, <1>3, <1>5, <1>6 DEF SessionInv

\* stop(), by whichever task or owner, keeps the invariant when whoever calls it
\* makes the end known.
LEMMA StopKeeps ==
  ASSUME SessionInv,
         NEW self \in Tasks \cup {"none"}, NEW as \in TaskStates \cup {"none"},
         self \in Tasks => as \in TaskStates,
         self \in Tasks => as # "running" \/ (~connected /\ ~transport /\ as = task[self]),
         Stop(self, as),
         at' = at, inbox' = <<>> \/ inbox # <<>>,
         reports' \in 0..2, Known',
         reports' = reports \/ at # "create" \/ inbox # <<>>
  PROVE  SessionInv'
<1>1. CASE ~connected /\ ~transport
  <2>1. /\ UNCHANGED <<transport, connected, ready, requested, told, torn>>
        /\ task' = IF self \in Tasks THEN [task EXCEPT ![self] = as] ELSE task
    BY <1>1 DEF Stop
  <2>2. task' \in [Tasks -> TaskStates]
    BY <2>1 DEF SessionInv, Shapes
  <2>3. \A t \in Tasks : task[t] # "running" => task'[t] # "running"
    BY <2>1 DEF SessionInv, Shapes
  <2>4. /\ Shapes' /\ TornStaysDown' /\ ObserverKnows' /\ MainIsDone'
        /\ OpenOrTorn'
    BY <1>1, <2>1, <2>2, <2>3
       DEF SessionInv, Shapes, TornStaysDown, ObserverKnows, MainIsDone, OpenOrTorn
  <2>5. QED
    BY <2>4 DEF SessionInv, EndsAreKnown
<1>2. CASE ~(~connected /\ ~transport)
  <2>1. task' = [t \in Tasks |->
                   IF t = self THEN as
                   ELSE IF task[t] = "running" THEN "cancelling" ELSE task[t]]
    BY <1>2 DEF Stop
  <2>2. task' \in [Tasks -> TaskStates]
    BY <2>1 DEF SessionInv, Shapes, TaskStates
  <2>3. \A t \in Tasks : task'[t] # "running"
    BY <1>2, <2>1
  <2>4. torn' = TRUE /\ transport' = FALSE /\ connected' = FALSE /\ requested' = FALSE
        /\ told' = IF requested THEN FALSE ELSE told
    BY <1>2 DEF Stop
  <2>5. told' = FALSE
    BY <2>4 DEF SessionInv, Shapes, ObserverKnows
  <2>6. Shapes' /\ TornStaysDown' /\ ObserverKnows'
    BY <2>2, <2>4, <2>5 DEF Shapes, TornStaysDown, ObserverKnows
  <2>7. MainIsDone' /\ OpenOrTorn'
    BY <2>3, <2>4 DEF MainIsDone, OpenOrTorn
  <2>8. QED
    BY <2>3, <2>6, <2>7 DEF SessionInv, EndsAreKnown
<1>3. QED
  BY <1>1, <1>2

\* A report of the loss makes it known.
LEMMA ReportIsKnown ==
  ASSUME SessionInv, NEW self, NEW as, OnDeviceLost(self, as)
  PROVE  reports' \in 0..2 /\ Known'
BY DEF SessionInv, Shapes, OnDeviceLost, Known

----------------------------------------------------------------------------
\* The main task opens and connects a session only while it has not been told to
\* end, and no torn session has such a main task.
LEMMA MainKeeps ==
  ASSUME SessionInv, CreateUdp \/ Shaken \/ SetupDone
  PROVE  SessionInv'
<1>1. ~torn /\ torn' = torn
  BY DEF CreateUdp, Shaken, SetupDone, Main, SessionInv, MainIsDone, userVars, Tasks
<1>2. UNCHANGED <<task, requested, told, reports, embedder>> /\ task["main"] = "running"
  BY DEF CreateUdp, Shaken, SetupDone, Main, userVars
<1>3. Shapes' /\ ObserverKnows' /\ TornStaysDown' /\ MainIsDone'
  BY <1>1, <1>2 DEF SessionInv, Shapes, ObserverKnows, TornStaysDown, MainIsDone
<1>4. EndsAreKnown'
  BY <1>1, <1>2 DEF EndsAreKnown, Ended
<1>5. OpenOrTorn'
  BY <1>1, <1>2 DEF CreateUdp, Shaken, SetupDone, Main, SessionInv, OpenOrTorn
<1>6. QED
  BY <1>3, <1>4, <1>5 DEF SessionInv

\* The ends of the main task.
LEMMA EndsKeep ==
  ASSUME SessionInv, CreateUdpFails \/ WaiterCancelled \/ GivesUp
  PROVE  SessionInv'
<1>1. CASE CreateUdpFails
  <2>1. task' = [task EXCEPT !["main"] = "failed"] /\ at' = at /\ at = "create"
    BY <1>1 DEF CreateUdpFails, Main
  <2>2. task' \in [Tasks -> TaskStates] /\ task'["main"] = "failed"
    BY <2>1 DEF SessionInv, Shapes, Tasks, TaskStates, Ended
  <2>3. UNCHANGED <<inbox, transport, connected, requested, told, reports, torn, embedder>>
    BY <1>1 DEF CreateUdpFails, flagVars, userVars
  <2>4. QED
    BY <2>1, <2>2, <2>3, QuietStepKeeps DEF SessionInv, Shapes
<1>2. CASE WaiterCancelled
  <2>1. task' = [task EXCEPT !["main"] = "cancelled"] /\ at' = at /\ at = "setup"
    BY <1>2 DEF WaiterCancelled, Main
  <2>2. task' \in [Tasks -> TaskStates] /\ task'["main"] = "cancelled"
    BY <2>1 DEF SessionInv, Shapes, Tasks, TaskStates, Ended
  <2>3. UNCHANGED <<inbox, transport, connected, requested, told, reports, torn, embedder>>
    BY <1>2 DEF WaiterCancelled, flagVars, userVars
  <2>4. QED
    BY <2>1, <2>2, <2>3, QuietStepKeeps DEF SessionInv, Shapes
<1>3. CASE GivesUp
  <2>1. /\ OnDeviceLost("main", "cancelled") /\ at # "create"
        /\ at' = at /\ inbox' = inbox
    BY <1>3 DEF GivesUp, Main
  <2>2. "main" \in Tasks /\ "cancelled" \in TaskStates
    BY DEF Tasks, TaskStates, Ended
  <2>3. QED
    BY <2>1, <2>2, ReportIsKnown, StopKeeps DEF OnDeviceLost
<1>4. QED
  BY <1>1, <1>2, <1>3

\* A cancellation that is delivered had been asked for.
LEMMA CancelKeeps ==
  ASSUME SessionInv, NEW t \in Tasks, CancelDelivered(t)
  PROVE  SessionInv'
<1>1. task' = [task EXCEPT ![t] = "cancelled"] /\ task[t] = "cancelling" /\ at' = at
  BY DEF CancelDelivered
<1>2. task' \in [Tasks -> TaskStates]
  BY <1>1 DEF SessionInv, Shapes, TaskStates, Ended
<1>3. /\ \A u \in Tasks : task'[u] # task[u] => task'[u] = "cancelled" /\ task[u] = "cancelling"
      /\ "main" \in Tasks
  BY <1>1 DEF SessionInv, Shapes, Tasks
<1>4. UNCHANGED <<inbox, transport, connected, requested, told, reports, torn, embedder>>
  BY DEF CancelDelivered, flagVars, userVars
<1>5. task["main"] = "cancelling" => Known
  BY DEF SessionInv, EndsAreKnown
<1>6. QED
  BY <1>1, <1>2, <1>3, <1>4, <1>5, QuietStepKeeps

\* What the packet task does with one packet: only a close packet reaches the
\* session's state, and it reports the loss.
LEMMA PacketKeeps ==
  ASSUME SessionInv, HandlePacket
  PROVE  SessionInv'
<1>1. CASE Head(inbox) = "close"
  <2> DEFINE as == IF ~connected /\ ~transport THEN task["packets"] ELSE "cancelling"
  <2>1. OnDeviceLost("packets", as) /\ at' = at /\ inbox # <<>>
    BY <1>1 DEF HandlePacket
  <2>2. "packets" \in Tasks /\ as \in TaskStates
    BY <2>1 DEF SessionInv, Shapes, Tasks, TaskStates
  <2>3. QED
    BY <2>1, <2>2, ReportIsKnown, StopKeeps DEF OnDeviceLost
<1>2. CASE Head(inbox) # "close"
  <2>1. /\ UNCHANGED <<transport, connected, requested, told, reports, torn, embedder, at>>
        /\ inbox # <<>>
        /\ task' = [task EXCEPT !["packets"] = "failed"] \/ task' = task
    BY <1>2 DEF HandlePacket
  <2>2. /\ task' \in [Tasks -> TaskStates] /\ task'["main"] = task["main"]
        /\ \A t \in Tasks : task'[t] # task[t] => task'[t] = "failed"
    BY <2>1 DEF SessionInv, Shapes, Tasks, TaskStates, Ended
  <2>3. QED
    BY <2>1, <2>2, QuietStepKeeps DEF SessionInv
<1>3. QED
  BY <1>1, <1>2

\* Users: a caller of start_video woken by stop() finds that it cannot send.
LEMMA UsersKeep ==
  ASSUME SessionInv, StartVideo \/ StopVideo
  PROVE  SessionInv'
<1>1. UNCHANGED <<task, transport, connected, reports, torn, embedder, at, inbox>>
  BY DEF StartVideo, StopVideo, taskVars, flagVars
<1>2. requested' \in BOOLEAN /\ told' \in BOOLEAN /\ told' = requested'
  BY DEF SessionInv, Shapes, ObserverKnows, StartVideo, StopVideo
<1>3. torn => ~requested'
  BY DEF SessionInv, TornStaysDown, StartVideo, StopVideo, SendFails
<1>4. QED
  BY <1>1, <1>2, <1>3
     DEF SessionInv, Shapes, TornStaysDown, ObserverKnows, MainIsDone, OpenOrTorn,
         EndsAreKnown, Known

\* The owner of the session.
LEMMA OwnerKeeps ==
  ASSUME SessionInv, DeviceClose \/ AppExits
  PROVE  SessionInv'
<1>1. CASE DeviceClose /\ SendFails
  <2>1. /\ UNCHANGED <<task, at, inbox, transport, connected, requested, told, reports, torn>>
        /\ embedder \notin {"closed", "exited"}
    BY <1>1 DEF DeviceClose
  <2>2. QED
    BY <2>1, QuietStepKeeps DEF SessionInv, Shapes
<1>2. CASE AppExits \/ (DeviceClose /\ ~SendFails)
  <2>1. /\ Stop("none", "none") /\ embedder' \in {"closed", "exited"} /\ reports' = reports
        /\ at' = at /\ inbox' = inbox
    BY <1>2 DEF DeviceClose, AppExits
  <2>2. reports' \in 0..2 /\ Known' /\ "none" \notin Tasks
    BY <2>1 DEF SessionInv, Shapes, Known, Tasks
  <2>3. QED
    BY <2>1, <2>2, StopKeeps
<1>3. QED
  BY <1>1, <1>2

\* What neither ends a task nor touches the session's state.
LEMMA OthersKeep ==
  ASSUME SessionInv,
         \/ \E p \in Packets : OnReceive(p)
         \/ DebounceOver \/ CallStartVideo
         \/ UNCHANGED sessionVars
  PROVE  SessionInv'
<1>1. UNCHANGED <<task, at, transport, connected, requested, told, reports, torn, embedder>>
  BY DEF OnReceive, DebounceOver, CallStartVideo, sessionVars, taskVars, flagVars, userVars
<1>2. inbox' = inbox \/ transport
  BY DEF OnReceive, DebounceOver, CallStartVideo, sessionVars, taskVars
<1>3. QED
  BY <1>1, <1>2, QuietStepKeeps DEF SessionInv, Shapes

----------------------------------------------------------------------------
\* The invariant holds in every behaviour of a session: nothing its tasks, packets,
\* callers and owner do in any order brings a torn session back.
THEOREM SessionInvariant == SessionSpec => []SessionInv
<1>1. SessionInv /\ [SessionNext]_sessionVars => SessionInv'
  <2> SUFFICES ASSUME SessionInv, [SessionNext]_sessionVars PROVE SessionInv'
    OBVIOUS
  <2>1. CASE CreateUdp \/ Shaken \/ SetupDone
    BY <2>1, MainKeeps
  <2>2. CASE CreateUdpFails \/ WaiterCancelled \/ GivesUp
    BY <2>2, EndsKeep
  <2>3. CASE \E t \in Tasks : CancelDelivered(t)
    BY <2>3, CancelKeeps
  <2>4. CASE HandlePacket
    BY <2>4, PacketKeeps
  <2>5. CASE StartVideo \/ StopVideo
    BY <2>5, UsersKeep
  <2>6. CASE DeviceClose \/ AppExits
    BY <2>6, OwnerKeeps
  <2>7. CASE \/ \E p \in Packets : OnReceive(p)
             \/ DebounceOver \/ CallStartVideo
             \/ UNCHANGED sessionVars
    BY <2>7, OthersKeep
  <2>8. QED
    BY <2>1, <2>2, <2>3, <2>4, <2>5, <2>6, <2>7 DEF SessionNext
<1>2. QED
  BY <1>1, InitEstablishes, PTL DEF SessionSpec

\* After stop() neither transport nor connection nor requested video come back.
THEOREM TornForGood == SessionSpec => []TornStaysDown
BY SessionInvariant, PTL DEF SessionInv

\* on_video_state_change has always been called with the present video state.
THEOREM ObserverIsTold == SessionSpec => []ObserverKnows
BY SessionInvariant, PTL DEF SessionInv

\* A session lost in the handshake or once it is set up is reported unless its owner
\* had stopped it, and is down, with no task left to go on, when it is reported.
THEOREM EndsAreReported == SessionSpec => []EndIsReported
<1>1. SessionInv => EndIsReported
  BY DEF SessionInv, EndsAreKnown, Known, EndIsReported, OpenOrTorn, MainIsDone, TornStaysDown
<1>2. QED
  BY <1>1, SessionInvariant, PTL

----------------------------------------------------------------------------
\* The type invariant.  Its bound on the ticks inside the debounce delay follows
\* from where a P2pRdy waits: behind at most MaxInbox packets it was counted
\* against MaxTicks.
QueueFits ==
  /\ ticks \in 0..(MaxTicks + MaxInbox)
  /\ inbox \in Seq(Packets) /\ Len(inbox) <= MaxInbox
  /\ \A i \in 1..Len(inbox) : inbox[i] = "rdy" => ticks + i <= MaxTicks + MaxInbox

FlagsFit ==
  /\ busy \in BOOLEAN /\ shaken \in BOOLEAN /\ answered \in BOOLEAN
  /\ transport \in BOOLEAN /\ connected \in BOOLEAN /\ ready \in BOOLEAN /\ torn \in BOOLEAN

PointsFit ==
  /\ at \in {"create", "handshake", "setup", "failing", "loop"}
  /\ viewer \in {"none", "waiting", "watching", "refused"}
  /\ embedder \in {"app", "device", "closed", "raised", "exited"}

\* Every step keeps the queue: a packet comes in behind the others, the oldest is
\* taken, a tick is over, or nothing of it changes.
LEMMA QueueStep == QueueFits /\ [SessionNext]_sessionVars => QueueFits'
<1> SUFFICES ASSUME QueueFits, [SessionNext]_sessionVars PROVE QueueFits'
  OBVIOUS
<1> USE SessionBounds
<1>1. ASSUME NEW p \in Packets, OnReceive(p) PROVE QueueFits'
  <2>1. /\ inbox' = Append(inbox, p) /\ Len(inbox) < MaxInbox /\ ticks' = ticks
        /\ p = "rdy" => ticks < MaxTicks
    BY <1>1 DEF OnReceive, flagVars
  <2>2. /\ inbox' \in Seq(Packets) /\ Len(inbox') = Len(inbox) + 1
        /\ inbox'[Len(inbox) + 1] = p
        /\ \A i \in 1..Len(inbox) : inbox'[i] = inbox[i]
    BY <2>1 DEF QueueFits
  <2>3. ASSUME NEW i \in 1..Len(inbox'), inbox'[i] = "rdy"
        PROVE  ticks' + i <= MaxTicks + MaxInbox
    <3>1. CASE i \in 1..Len(inbox)
      BY <2>1, <2>2, <2>3, <3>1 DEF QueueFits
    <3>2. CASE i = Len(inbox) + 1
      BY <2>1, <2>2, <2>3, <3>2 DEF QueueFits
    <3>3. QED
      BY <2>2, <3>1, <3>2 DEF QueueFits
  <2>4. QED
    BY <2>1, <2>2, <2>3 DEF QueueFits
<1>2. CASE HandlePacket
  <2>1. /\ inbox # <<>> /\ inbox' = Tail(inbox)
        /\ ticks' = IF Head(inbox) = "rdy" THEN ticks + 1 ELSE ticks
    BY <1>2 DEF HandlePacket
  <2>2. /\ inbox' \in Seq(Packets) /\ Len(inbox') = Len(inbox) - 1 /\ Len(inbox) \in Nat \ {0}
        /\ Head(inbox) = inbox[1]
        /\ \A i \in 1..Len(inbox') : inbox'[i] = inbox[i + 1]
    BY <2>1 DEF QueueFits
  <2>3. ticks' \in 0..(MaxTicks + MaxInbox)
    BY <2>1, <2>2 DEF QueueFits
  <2>4. ASSUME NEW i \in 1..Len(inbox'), inbox'[i] = "rdy"
        PROVE  ticks' + i <= MaxTicks + MaxInbox
    <3>1. i + 1 \in 1..Len(inbox) /\ inbox[i + 1] = "rdy"
      BY <2>2, <2>4
    <3>2. ticks + (i + 1) <= MaxTicks + MaxInbox
      BY <3>1 DEF QueueFits
    <3>3. QED
      BY <2>1, <3>2 DEF QueueFits
  <2>5. Len(inbox') <= MaxInbox
    BY <2>2 DEF QueueFits
  <2>6. QED
    BY <2>2, <2>3, <2>4, <2>5 DEF QueueFits
<1>3. CASE DebounceOver
  <2>1. inbox' = inbox /\ ticks > 0 /\ ticks' = ticks - 1
    BY <1>3 DEF DebounceOver, taskVars
  <2>2. QED
    BY <2>1 DEF QueueFits
<1>4. CASE UNCHANGED <<inbox, ticks>>
  BY <1>4 DEF QueueFits
<1>5. QED
  BY <1>1, <1>2, <1>3, <1>4
     DEF SessionNext, CreateUdp, CreateUdpFails, Shaken, SetupDone, GivesUp, WaiterCancelled,
         CancelDelivered, CallStartVideo, StartVideo, StopVideo, DeviceClose, AppExits,
         sessionVars, taskVars, flagVars, userVars

\* stop() leaves truth values.
LEMMA StopFlags ==
  ASSUME FlagsFit, NEW self, NEW as, Stop(self, as)
  PROVE  transport' \in BOOLEAN /\ connected' \in BOOLEAN /\ ready' \in BOOLEAN /\ torn' \in BOOLEAN
BY DEF FlagsFit, Stop

\* Flags are only ever set, cleared, or set when a condition holds.
LEMMA FlagsStep == FlagsFit /\ [SessionNext]_sessionVars => FlagsFit'
<1> SUFFICES ASSUME FlagsFit, [SessionNext]_sessionVars PROVE FlagsFit'
  OBVIOUS
<1>1. CASE GivesUp
  <2>1. Stop("main", "cancelled") /\ UNCHANGED <<busy, shaken, answered>>
    BY <1>1 DEF GivesUp, OnDeviceLost
  <2>2. QED
    BY <2>1, StopFlags DEF FlagsFit
<1>2. CASE HandlePacket
  <2>1. busy' \in BOOLEAN /\ answered' \in BOOLEAN /\ shaken' = shaken
    BY <1>2 DEF HandlePacket
  <2>2. transport' \in BOOLEAN /\ connected' \in BOOLEAN /\ ready' \in BOOLEAN /\ torn' \in BOOLEAN
    <3>1. CASE Head(inbox) = "close"
      <4>1. PICK as \in {task["packets"], "cancelling"} : Stop("packets", as)
        BY <1>2, <3>1 DEF HandlePacket, OnDeviceLost
      <4>2. QED
        BY <4>1, StopFlags
    <3>2. CASE Head(inbox) # "close"
      BY <1>2, <3>2 DEF HandlePacket, FlagsFit
    <3>3. QED
      BY <3>1, <3>2
  <2>3. QED
    BY <2>1, <2>2 DEF FlagsFit
<1>3. CASE DeviceClose \/ AppExits
  <2>1. UNCHANGED <<busy, shaken, answered>>
    BY <1>3 DEF DeviceClose, AppExits
  <2>2. transport' \in BOOLEAN /\ connected' \in BOOLEAN /\ ready' \in BOOLEAN /\ torn' \in BOOLEAN
    BY <1>3, StopFlags DEF DeviceClose, AppExits, FlagsFit
  <2>3. QED
    BY <2>1, <2>2 DEF FlagsFit
<1>4. CASE DebounceOver
  BY <1>4 DEF DebounceOver, FlagsFit, taskVars, userVars
<1>5. CASE CreateUdp \/ Shaken \/ SetupDone
  BY <1>5 DEF CreateUdp, Shaken, SetupDone, FlagsFit, userVars
<1>6. CASE UNCHANGED <<busy, shaken, answered, transport, connected, ready, torn>>
  BY <1>6 DEF FlagsFit
<1>7. QED
  BY <1>1, <1>2, <1>3, <1>4, <1>5, <1>6
     DEF SessionNext, CreateUdpFails, WaiterCancelled, CancelDelivered, OnReceive,
         CallStartVideo, StartVideo, StopVideo,
         sessionVars, taskVars, flagVars, userVars

\* Main task, viewer and embedder go from one named point to another.
LEMMA PointsStep == PointsFit /\ [SessionNext]_sessionVars => PointsFit'
BY DEF PointsFit, SessionNext, CreateUdp, CreateUdpFails, Shaken, SetupDone, GivesUp,
       WaiterCancelled, CancelDelivered, OnReceive, HandlePacket, DebounceOver, CallStartVideo,
       StartVideo, StopVideo, DeviceClose, AppExits, sessionVars, taskVars, flagVars, userVars

\* Every variable of the session keeps its type.
THEOREM SessionTypeCorrect == SessionSpec => []SessionTypeOK
<1>1. SessionInit => QueueFits /\ FlagsFit /\ PointsFit
  <2> SUFFICES ASSUME SessionInit PROVE QueueFits /\ FlagsFit /\ PointsFit
    OBVIOUS
  <2>1. QueueFits
    BY SessionBounds DEF SessionInit, QueueFits
  <2>2. FlagsFit
    BY Zenon DEF SessionInit, FlagsFit
  <2>3. PointsFit
    BY DEF SessionInit, PointsFit
  <2>4. QED
    BY <2>1, <2>2, <2>3
<1>2. SessionInv /\ QueueFits /\ FlagsFit /\ PointsFit => SessionTypeOK
  <2> SUFFICES ASSUME SessionInv, QueueFits, FlagsFit, PointsFit PROVE SessionTypeOK
    OBVIOUS
  <2>1. {busy, transport, connected, shaken, answered, ready, requested, told, torn} \subseteq BOOLEAN
    BY Zenon DEF SessionInv, Shapes, FlagsFit
  <2>2. QED
    BY <2>1 DEF SessionTypeOK, SessionInv, Shapes, TaskStates, QueueFits, PointsFit
<1>3. QED
  BY <1>1, <1>2, SessionInvariant, QueueStep, FlagsStep, PointsStep, PTL DEF SessionSpec
=============================================================================
