------------------------- MODULE HttpStreamsProofs -------------------------
(***************************************************************************)
(* Proofs about Program, for any number of devices and of sessions and any *)
(* order of what discovery, the sessions and amain() do, and about         *)
(* HttpStreams on top of it, for any finite number of clients.             *)
(*                                                                         *)
(* The two callbacks of the program keep one dictionary, by device, of     *)
(* what is a set of sessions.  Inv says that entry and session belong      *)
(* together as long as amain() runs: a live session is the entry of its    *)
(* device, an entry is a live session of its device.  The streams leave    *)
(* the program as it is: Inv holds on, and StreamsSpec implements          *)
(* ProgramSpec.                                                            *)
(*                                                                         *)
(* That a listener's audio is not stopped needs Counted: the count of a    *)
(* device may be too high, for a listener whose start failed stays         *)
(* counted, but never too low.  So who finds it at zero is the last.       *)
(***************************************************************************)
EXTENDS HttpStreams, FiniteSetTheorems, TLAPS

Running == amain # "ended"

\* A session in order is the entry of its device.
LiveIsEntry == Running => \A s \in Sessions :
  state[s] \in Live => device[s] \in Devices /\ sessions[device[s]] = s

\* An entry is a session in order, of that device.
EntryIsLive == Running => \A d \in Devices :
  sessions[d] # None => state[sessions[d]] \in Live /\ device[sessions[d]] = d

\* Nothing with a transport is left behind.
NoneLeft == ~Running => \A s \in Sessions : state[s] \notin {"starting", "ready"}

Inv == ProgramTypeOK /\ LiveIsEntry /\ EntryIsLive /\ NoneLeft /\ EveryTaskIsWatched

\* The moves of a session that stays in order, or out of order.
LEMMA SessionSteps ==
  ASSUME Inv, NEW s \in Sessions, Advances(s) \/ Breaks(s) \/ TasksEnd(s)
  PROVE  Inv'
<1>1. ProgramTypeOK' BY DEF Inv, ProgramTypeOK, Advances, Breaks, TasksEnd, Moves, mainVars, Live
<1>2. /\ UNCHANGED <<sessions, device, amain, fut, watched>>
      /\ state' \in [Sessions -> Live \cup {"unused", "stopped"}]
      /\ \A t \in Sessions : state'[t] \in Live <=> state[t] \in Live
  BY DEF Inv, ProgramTypeOK, Advances, Breaks, TasksEnd, Moves, mainVars, Live
<1>3. LiveIsEntry' BY <1>2 DEF Inv, LiveIsEntry, Running
<1>4. EntryIsLive' BY <1>2, ProgramAssumption DEF Inv, EntryIsLive, Running, ProgramTypeOK
<1>5. NoneLeft' BY <1>2 DEF NoneLeft, Running, Advances, Breaks, TasksEnd
<1>6. EveryTaskIsWatched' BY <1>2 DEF Inv, EveryTaskIsWatched, Registered
<1> QED BY <1>1, <1>3, <1>4, <1>5, <1>6 DEF Inv

LEMMA FoundStep ==
  ASSUME Inv, NEW d \in Devices, NEW s \in Sessions, OnDeviceFound(d, s)
  PROVE  Inv'
<1> USE DEF OnDeviceFound, Starts, notify_new_device
<1>1. ProgramTypeOK' BY DEF Inv, ProgramTypeOK, Moves, mainVars, Live
<1>2. /\ amain' = amain /\ Running /\ fut' = "done"
      /\ s # None /\ sessions[d] = None
      /\ state[s] = "unused" /\ state' = [state EXCEPT ![s] = "opening"]
      /\ sessions' = [sessions EXCEPT ![d] = s]
      /\ device' = [device EXCEPT ![s] = d]
  BY ProgramAssumption DEF Moves, mainVars, Running
<1>3. LiveIsEntry'
  <2> SUFFICES ASSUME NEW t \in Sessions, state'[t] \in Live
               PROVE  device'[t] \in Devices /\ sessions'[device'[t]] = t
    BY DEF LiveIsEntry
  <2>1. CASE t = s BY <1>2, <2>1 DEF Inv, ProgramTypeOK
  <2>2. CASE t # s
    <3>1. device[t] \in Devices /\ sessions[device[t]] = t /\ device'[t] = device[t]
      BY <1>2, <2>2 DEF Inv, ProgramTypeOK, LiveIsEntry
    <3>2. device[t] # d BY <1>2, <3>1, ProgramAssumption
    <3> QED BY <1>2, <3>1, <3>2 DEF Inv, ProgramTypeOK
  <2> QED BY <2>1, <2>2
<1>4. EntryIsLive'
  <2> SUFFICES ASSUME NEW e \in Devices, sessions'[e] # None
               PROVE  state'[sessions'[e]] \in Live /\ device'[sessions'[e]] = e
    BY DEF EntryIsLive
  <2>1. CASE e = d BY <1>2, <2>1 DEF Inv, ProgramTypeOK, Live
  <2>2. CASE e # d
    <3>1. /\ sessions'[e] = sessions[e] /\ sessions[e] \in Sessions
          /\ state[sessions[e]] \in Live /\ device[sessions[e]] = e
      BY <1>2, <2>2 DEF Inv, ProgramTypeOK, EntryIsLive
    <3>2. sessions[e] # s BY <1>2, <3>1 DEF Live
    <3> QED BY <1>2, <3>1, <3>2 DEF Inv, ProgramTypeOK
  <2> QED BY <2>1, <2>2
<1>5. NoneLeft' BY <1>2 DEF NoneLeft, Running
<1>6. EveryTaskIsWatched' BY <1>2 DEF EveryTaskIsWatched
<1> QED BY <1>1, <1>3, <1>4, <1>5, <1>6 DEF Inv

LEMMA LostStep ==
  ASSUME Inv, NEW s \in Sessions, OnDeviceLost(s)
  PROVE  Inv'
<1> USE DEF OnDeviceLost, notify_new_device
<1>1. /\ amain' = amain /\ Running /\ fut' = "done" /\ device' = device
      /\ sessions' = [sessions EXCEPT ![device[s]] = None]
      /\ state' \in [Sessions -> Live \cup {"unused", "stopped"}]
      /\ state'[s] = "stopped"
      /\ \A t \in Sessions : t # s => state'[t] = state[t]
  BY DEF Inv, ProgramTypeOK, Stop, mainVars, Running
<1>2. device[s] \in Devices /\ sessions[device[s]] = s
  BY <1>1 DEF Inv, LiveIsEntry, Live
<1>3. ProgramTypeOK' BY <1>1, <1>2 DEF Inv, ProgramTypeOK, mainVars
<1>4. LiveIsEntry'
  <2> SUFFICES ASSUME NEW t \in Sessions, state'[t] \in Live
               PROVE  device[t] \in Devices /\ sessions'[device[t]] = t
    BY <1>1 DEF LiveIsEntry
  <2>1. t # s BY <1>1 DEF Live
  <2>2. device[t] \in Devices /\ sessions[device[t]] = t
    BY <1>1, <2>1 DEF Inv, LiveIsEntry
  <2>3. device[t] # device[s] BY <1>2, <2>1, <2>2
  <2> QED BY <1>1, <2>2, <2>3 DEF Inv, ProgramTypeOK
<1>5. EntryIsLive'
  <2> SUFFICES ASSUME NEW e \in Devices, sessions'[e] # None
               PROVE  state'[sessions'[e]] \in Live /\ device[sessions'[e]] = e
    BY <1>1 DEF EntryIsLive
  <2>1. e # device[s] BY <1>1, <1>2 DEF Inv, ProgramTypeOK
  <2>2. /\ sessions'[e] = sessions[e] /\ sessions[e] \in Sessions
        /\ state[sessions[e]] \in Live /\ device[sessions[e]] = e
    BY <1>1, <2>1 DEF Inv, ProgramTypeOK, EntryIsLive
  <2>3. sessions[e] # s BY <2>1, <2>2
  <2> QED BY <1>1, <2>2, <2>3
<1>6. NoneLeft' BY <1>1 DEF NoneLeft, Running
<1>7. EveryTaskIsWatched' BY <1>1 DEF EveryTaskIsWatched
<1> QED BY <1>3, <1>4, <1>5, <1>6, <1>7 DEF Inv

LEMMA FinalStep ==
  ASSUME Inv, Running, Finally
  PROVE  Inv'
<1>1. /\ amain' = "ended" /\ device' = device
      /\ state' \in [Sessions -> Live \cup {"unused", "stopped"}]
      /\ \A t \in Registered \cap Sessions : state'[t] \notin {"starting", "ready"}
      /\ \A t \in Sessions : t \notin Registered => state'[t] = state[t]
  BY DEF Inv, ProgramTypeOK, Finally, Stop
<1>2. ProgramTypeOK' BY <1>1 DEF Inv, ProgramTypeOK, Finally
<1>3. NoneLeft'
  <2> SUFFICES ASSUME NEW t \in Sessions PROVE state'[t] \notin {"starting", "ready"}
    BY DEF NoneLeft
  <2>1. CASE state[t] \in Live
    <3>1. device[t] \in Devices /\ sessions[device[t]] = t
      BY <2>1 DEF Inv, LiveIsEntry
    <3>2. t \in Registered BY <3>1, ProgramAssumption DEF Registered
    <3> QED BY <1>1, <3>2
  <2>2. CASE state[t] \notin Live BY <1>1, <2>2 DEF Live
  <2> QED BY <2>1, <2>2
<1>4. LiveIsEntry' /\ EntryIsLive' /\ EveryTaskIsWatched'
  BY <1>1 DEF LiveIsEntry, EntryIsLive, EveryTaskIsWatched, Running
<1> QED BY <1>2, <1>3, <1>4 DEF Inv

LEMMA MainSteps ==
  ASSUME Inv, (\E h \in Helpers : HelperEnds(h)) \/ AmainLooksAgain \/ AmainLeaves
  PROVE  Inv'
<1>1. ProgramTypeOK'
  <2>1. CASE \E h \in Helpers : HelperEnds(h)
    BY <2>1 DEF Inv, ProgramTypeOK, HelperEnds, sessionVars
  <2>2. CASE AmainLooksAgain
    <3>1. Registered \subseteq Sessions BY DEF Inv, ProgramTypeOK, Registered
    <3> QED BY <2>2, <3>1 DEF Inv, ProgramTypeOK, AmainLooksAgain, sessionVars
  <2>3. CASE AmainLeaves BY <2>3 DEF Inv, ProgramTypeOK, AmainLeaves, sessionVars
  <2> QED BY <2>1, <2>2, <2>3
<1>2. UNCHANGED <<sessions, device, state>> /\ (Running' <=> Running)
  BY DEF HelperEnds, AmainLooksAgain, AmainLeaves, sessionVars, Running
<1>3. LiveIsEntry' /\ EntryIsLive' /\ NoneLeft'
  BY <1>2 DEF Inv, LiveIsEntry, EntryIsLive, NoneLeft
<1>4. EveryTaskIsWatched'
  BY <1>2 DEF Inv, EveryTaskIsWatched, Registered, HelperEnds, AmainLooksAgain, AmainLeaves
<1> QED BY <1>1, <1>3, <1>4 DEF Inv

\* Inv is inductive.
LEMMA InvStep == Inv /\ [ProgramNext]_programVars => Inv'
<1> SUFFICES ASSUME Inv, [ProgramNext]_programVars PROVE Inv'
  OBVIOUS
<1>1. CASE \E s \in Sessions : Advances(s) \/ Breaks(s) \/ TasksEnd(s)
  BY <1>1, SessionSteps
<1>2. CASE \E s \in Sessions : OnDeviceLost(s) BY <1>2, LostStep
<1>3. CASE \E d \in Devices, s \in Sessions : OnDeviceFound(d, s) BY <1>3, FoundStep
<1>4. CASE (\E h \in Helpers : HelperEnds(h)) \/ AmainLooksAgain \/ AmainLeaves
  BY <1>4, MainSteps
<1>5. CASE AmainEnds \/ AmainInterrupted
  BY <1>5, FinalStep DEF AmainEnds, AmainInterrupted, Running
<1>6. CASE UNCHANGED programVars
  BY <1>6 DEF Inv, ProgramTypeOK, LiveIsEntry, EntryIsLive, NoneLeft, EveryTaskIsWatched,
              Running, Registered, programVars, sessionVars, mainVars
<1> QED BY <1>1, <1>2, <1>3, <1>4, <1>5, <1>6 DEF ProgramNext

\* The program starts with Inv and keeps it.
THEOREM ProgramInvariant == ProgramSpec => []Inv
<1>1. ProgramInit => Inv
  BY ProgramAssumption DEF ProgramInit, Inv, ProgramTypeOK, LiveIsEntry, EntryIsLive, NoneLeft,
                           EveryTaskIsWatched, Running, Registered, Live, Helpers
<1> QED BY <1>1, InvStep, PTL DEF ProgramSpec

\* The variables of the program keep their shape.
THEOREM ProgramTypeCorrect == ProgramSpec => []ProgramTypeOK
<1>1. Inv => ProgramTypeOK BY DEF Inv
<1> QED BY <1>1, ProgramInvariant, PTL

\* No session runs on unknown to the program (__main__.py:30-47), and amain()
\* leaves none with a transport behind (__main__.py:74-77).
THEOREM NoneAstray == ProgramSpec => []NoSessionAstray
<1>1. Inv => NoSessionAstray
  BY DEF Inv, NoSessionAstray, LiveIsEntry, NoneLeft, Running
<1> QED BY <1>1, ProgramInvariant, PTL

\* No wake-up of amain() is lost (__main__.py:58-71).
THEOREM NoWakeUpIsLost == ProgramSpec => []EveryTaskIsWatched
<1>1. Inv => EveryTaskIsWatched BY DEF Inv
<1> QED BY <1>1, ProgramInvariant, PTL

\* amain() leaves its loop for the end of a helper or of a task of a session in
\* order, never for the loss of a device.
THEOREM LeavesOnlyForAReason == ProgramSpec => LeavesForAReason
<1> DEFINE Leaves == amain = "waiting" /\ amain' = "gathering" =>
                       helpers # Helpers \/ \E s \in done : state[s] \in Live
<1>1. Inv /\ [ProgramNext]_programVars => [Leaves]_programVars
  <2> SUFFICES ASSUME Inv, ProgramNext, amain = "waiting", amain' = "gathering", helpers = Helpers
               PROVE  \E s \in done : state[s] \in Live
    OBVIOUS
  <2>1. AmainLeaves
    BY DEF ProgramNext, Advances, Breaks, TasksEnd, OnDeviceLost, OnDeviceFound, Starts,
           HelperEnds, AmainLooksAgain, AmainEnds, AmainInterrupted, Finally, mainVars
  <2>2. PICK s \in watched : s \in done BY <2>1 DEF AmainLeaves
  <2>3. watched = Registered BY <2>1 DEF Inv, EveryTaskIsWatched, AmainLeaves
  <2>4. PICK d \in Devices : sessions[d] = s /\ s # None BY <2>2, <2>3 DEF Registered
  <2>5. state[s] \in Live BY <2>4 DEF Inv, EntryIsLive, Running
  <2> QED BY <2>2, <2>5
<1> QED BY <1>1, ProgramInvariant, PTL DEF ProgramSpec, LeavesForAReason

----------------------------------------------------------------------------
\* The streams.

Active == {"preparing", "starting", "listening", "waiting", "notified", "writing"}
Hearing == {"listening", "writing"}
Watching == {"waiting", "notified", "writing"}

\* The listeners of a device whose stream runs.
Heard(d) == {c \in Listeners : at[c] \in Hearing /\ device[on[c]] = d}

\* A request has captured a session that was made, for a device.
CapturedIsMade == \A c \in Clients : at[c] \in Active =>
  on[c] \in Sessions /\ state[on[c]] # "unused" /\ device[on[c]] \in Devices

IdleIsEmpty == \A c \in Clients : at[c] = "idle" => on[c] = None

ViewersWatch == \A v \in Viewers : at[v] # "listening"

Counted == \A d \in Devices : Cardinality(Heard(d)) <= count[d]

ListenersHear == \A l \in Listeners :
  at[l] \in Hearing /\ on[l] \notin byHand => audio[on[l]]

ViewersSee == \A v \in Viewers :
  at[v] \in Watching /\ on[v] \notin byHand /\ state[on[v]] # "stopped" => video[on[v]]

StreamsInv ==
  /\ Inv /\ StreamsTypeOK /\ CapturedIsMade /\ IdleIsEmpty /\ ViewersWatch
  /\ Counted /\ ListenersHear /\ ViewersSee

\* Nothing of the program and of the flags changes.
Apart == UNCHANGED <<programVars, count, audio, video, byHand>>

LEMMA HeardIsFinite ==
  ASSUME NEW d PROVE IsFiniteSet(Heard(d)) /\ Cardinality(Heard(d)) \in Nat
<1>1. Heard(d) \subseteq Clients BY DEF Heard, Listeners
<1> QED BY <1>1, ClientsAssumption, FS_Subset, FS_CardinalityType

LEMMA ProgramApart == ASSUME UNCHANGED programVars, Inv PROVE Inv'
BY InvStep

\* A request comes.
LEMMA AsksStep ==
  ASSUME StreamsInv, NEW c \in Clients, NEW k \in {"audio", "video"}, NEW d \in Devices,
         Asks(c, k, d)
  PROVE  StreamsInv'
<1>1. /\ at[c] = "idle" /\ at' = [at EXCEPT ![c] = "preparing"]
      /\ kind' = [kind EXCEPT ![c] = k]
      /\ on' = [on EXCEPT ![c] = sessions[d]]
      /\ UNCHANGED <<sessions, device, state, done, fut, watched, helpers, amain,
                     count, audio, video, byHand>>
      /\ UNCHANGED programVars
  BY DEF Asks, Goes, programVars, sessionVars, mainVars
<1>2. Inv' BY <1>1, ProgramApart DEF StreamsInv
<1>3. sessions[d] \in Sessions /\ state[sessions[d]] \in Live /\ device[sessions[d]] = d
  BY DEF StreamsInv, Inv, ProgramTypeOK, EntryIsLive, Running, Asks, Serving
<1>5. StreamsTypeOK'
  BY <1>1, <1>2, <1>3 DEF StreamsInv, StreamsTypeOK, Inv
<1>6. CapturedIsMade'
  BY <1>1, <1>3 DEF StreamsInv, StreamsTypeOK, CapturedIsMade, Live
<1>7. IdleIsEmpty' /\ ViewersWatch'
  BY <1>1 DEF StreamsInv, StreamsTypeOK, IdleIsEmpty, ViewersWatch, Viewers
<1>8. \A e \in Devices : Heard(e)' = Heard(e)
  BY <1>1 DEF StreamsInv, StreamsTypeOK, Heard, Listeners, Hearing
<1>9. Counted' BY <1>1, <1>8 DEF StreamsInv, Counted
<1>10. ListenersHear'
  BY <1>1 DEF StreamsInv, StreamsTypeOK, ListenersHear, Listeners, Hearing
<1>11. ViewersSee'
  BY <1>1 DEF StreamsInv, StreamsTypeOK, ViewersSee, Viewers, Watching
<1> QED BY <1>2, <1>5, <1>6, <1>7, <1>9, <1>10, <1>11 DEF StreamsInv

\* A handler with nothing new to say about the flags moves: an active client
\* stays active or goes, a listener hears on, a viewer watches on or finds
\* its stream.
LEMMA MoveStep ==
  ASSUME StreamsInv, Apart, UNCHANGED <<kind, on>>,
         at' \in [Clients -> {"starting", "listening", "waiting", "notified", "writing",
                              "preparing", "gone", "idle"}],
         \A c \in Clients : at'[c] # at[c] => at[c] \in Active /\ at'[c] # "idle",
         \A l \in Listeners : at'[l] \in Hearing <=> at[l] \in Hearing,
         \A v \in Viewers : /\ at'[v] # "listening"
                            /\ at'[v] \in Watching => at[v] \in Watching \/ video[on[v]]
  PROVE  StreamsInv'
<1>1. /\ UNCHANGED <<sessions, device, state, done, fut, watched, helpers, amain,
                     count, audio, video, byHand, kind, on>>
      /\ UNCHANGED programVars
  BY DEF Apart, programVars, sessionVars, mainVars
<1>2. Inv' BY <1>1, ProgramApart DEF StreamsInv
<1>3. StreamsTypeOK' BY <1>1, <1>2 DEF StreamsInv, StreamsTypeOK, Inv, Viewers
<1>4. CapturedIsMade' BY <1>1 DEF StreamsInv, CapturedIsMade
<1>5. IdleIsEmpty' BY <1>1 DEF StreamsInv, IdleIsEmpty
<1>6. ViewersWatch' BY <1>1 DEF ViewersWatch, Viewers
<1>7. \A d \in Devices : Heard(d)' = Heard(d) BY <1>1 DEF Heard, Listeners
<1>8. Counted' BY <1>1, <1>7 DEF StreamsInv, Counted
<1>9. ListenersHear' BY <1>1 DEF StreamsInv, ListenersHear, Listeners
<1>10. ViewersSee' BY <1>1 DEF StreamsInv, ViewersSee, Viewers
<1> QED BY <1>2, <1>3, <1>4, <1>5, <1>6, <1>8, <1>9, <1>10 DEF StreamsInv

\* The steps that MoveStep covers.
LEMMA HandlerSteps ==
  ASSUME StreamsInv,
         \/ \E s \in Sessions : AudioPublished(s) \/ VideoPublished(s)
         \/ \E l \in Listeners : AudioWritten(l)
         \/ \E v \in Viewers : ViewerPrepared(v) \/ ViewerReads(v) \/ FrameWritten(v)
                               \/ ViewerLeaves(v)
  PROVE  StreamsInv'
<1> USE DEF StreamsInv, StreamsTypeOK, Active, Hearing, Watching, Apart, Viewers, Listeners
<1>1. ASSUME NEW s \in Sessions, AudioPublished(s) PROVE StreamsInv'
  <2>1. /\ at' = [c \in Clients |-> IF on[c] = s /\ at[c] = "listening" THEN "writing" ELSE at[c]]
        /\ Apart /\ UNCHANGED <<kind, on>>
    BY <1>1 DEF AudioPublished
  <2>2. \A v \in Viewers : at'[v] = at[v] BY <2>1 DEF ViewersWatch
  <2> QED BY <2>1, <2>2, MoveStep DEF ViewersWatch, IdleIsEmpty
<1>2. ASSUME NEW s \in Sessions, VideoPublished(s) PROVE StreamsInv'
  <2>1. /\ at' = [c \in Clients |-> IF on[c] = s /\ at[c] = "waiting" THEN "notified" ELSE at[c]]
        /\ Apart /\ UNCHANGED <<kind, on>>
    BY <1>2 DEF VideoPublished
  <2> QED BY <2>1, MoveStep DEF ViewersWatch, IdleIsEmpty
<1>3. ASSUME NEW l \in Listeners, AudioWritten(l) PROVE StreamsInv'
  <2>1. /\ at[l] = "writing" /\ at' = [at EXCEPT ![l] = "listening"]
        /\ Apart /\ UNCHANGED <<kind, on>>
    BY <1>3 DEF AudioWritten, Goes
  <2> QED BY <2>1, MoveStep DEF ViewersWatch, IdleIsEmpty
<1>4. ASSUME NEW v \in Viewers, ViewerPrepared(v) PROVE StreamsInv'
  <2>1. /\ at[v] = "preparing"
        /\ at' = [at EXCEPT ![v] = IF video[on[v]] THEN "waiting" ELSE "starting"]
        /\ Apart /\ UNCHANGED <<kind, on>>
    BY <1>4 DEF ViewerPrepared, Goes
  <2> QED BY <2>1, MoveStep DEF ViewersWatch, IdleIsEmpty
<1>5. ASSUME NEW v \in Viewers, ViewerReads(v) PROVE StreamsInv'
  <2>1. /\ at[v] = "notified" /\ at' = [at EXCEPT ![v] = "writing"]
        /\ Apart /\ UNCHANGED <<kind, on>>
    BY <1>5 DEF ViewerReads, Goes
  <2> QED BY <2>1, MoveStep DEF ViewersWatch, IdleIsEmpty
<1>6. ASSUME NEW v \in Viewers, FrameWritten(v) PROVE StreamsInv'
  <2>1. /\ at[v] = "writing" /\ at' = [at EXCEPT ![v] = "waiting"]
        /\ Apart /\ UNCHANGED <<kind, on>>
    BY <1>6 DEF FrameWritten, Goes
  <2> QED BY <2>1, MoveStep DEF ViewersWatch, IdleIsEmpty
<1>7. ASSUME NEW v \in Viewers, ViewerLeaves(v) PROVE StreamsInv'
  <2>1. /\ at[v] = "writing" /\ at' = [at EXCEPT ![v] = "gone"]
        /\ Apart /\ UNCHANGED <<kind, on>>
    BY <1>7 DEF ViewerLeaves, Goes
  <2> QED BY <2>1, MoveStep DEF ViewersWatch, IdleIsEmpty
<1> QED BY <1>1, <1>2, <1>3, <1>4, <1>5, <1>6, <1>7

\* A listener is counted, and its audio started, or it goes.
LEMMA ListensStep ==
  ASSUME StreamsInv, NEW l \in Listeners, Listens(l)
  PROVE  StreamsInv'
<1> DEFINE s == on[l]
           d == device[on[l]]
<1>1. /\ l \in Clients /\ kind[l] = "audio" /\ at[l] = "preparing"
      /\ s \in Sessions /\ d \in Devices
      /\ at' \in {[at EXCEPT ![l] = "writing"], [at EXCEPT ![l] = "gone"]}
      /\ \/ audio' = [audio EXCEPT ![s] = TRUE] /\ at' = [at EXCEPT ![l] = "writing"]
         \/ audio' = audio /\ at' = [at EXCEPT ![l] = "gone"]
      /\ count' = [count EXCEPT ![d] = @ + 1]
      /\ UNCHANGED <<sessions, device, state, done, fut, watched, helpers, amain,
                     video, kind, on, byHand>>
      /\ UNCHANGED programVars
  BY DEF Listens, StartAudio, Goes, programVars, sessionVars, mainVars, Listeners,
         StreamsInv, CapturedIsMade, Active
<1>2. Inv' BY <1>1, ProgramApart DEF StreamsInv
<1>3. StreamsTypeOK'
  <2>1. audio \in [Sessions -> BOOLEAN] BY DEF StreamsInv, StreamsTypeOK
  <2>2. audio' \in [Sessions -> BOOLEAN] BY <1>1, <2>1
  <2>3. count' \in [Devices -> Int] BY <1>1 DEF StreamsInv, StreamsTypeOK
  <2> QED BY <1>1, <1>2, <2>2, <2>3 DEF StreamsInv, StreamsTypeOK, Inv, Viewers
<1>4. CapturedIsMade'
  BY <1>1 DEF StreamsInv, StreamsTypeOK, CapturedIsMade, Active
<1>5. IdleIsEmpty' /\ ViewersWatch'
  BY <1>1 DEF StreamsInv, StreamsTypeOK, IdleIsEmpty, ViewersWatch, Viewers
<1>6. Counted'
  <2> SUFFICES ASSUME NEW e \in Devices PROVE Cardinality(Heard(e)') <= count'[e]
    BY DEF Counted
  <2>1. count[e] \in Int /\ count'[e] = IF e = d THEN count[e] + 1 ELSE count[e]
    BY <1>1 DEF StreamsInv, StreamsTypeOK
  <2>2. \/ Heard(e)' = Heard(e)
        \/ e = d /\ Heard(e)' = Heard(e) \cup {l}
    BY <1>1 DEF StreamsInv, StreamsTypeOK, Heard, Listeners, Hearing
  <2>3. /\ Cardinality(Heard(e)) <= count[e] /\ Cardinality(Heard(e)) \in Nat
        /\ Cardinality(Heard(e) \cup {l}) \in {Cardinality(Heard(e)), Cardinality(Heard(e)) + 1}
    BY HeardIsFinite, FS_AddElement DEF StreamsInv, Counted
  <2>4. CASE Heard(e)' = Heard(e)
    <3> HIDE DEF d
    <3>1. Cardinality(Heard(e)') = Cardinality(Heard(e)) BY <2>4
    <3> QED BY <2>1, <2>3, <3>1
  <2>5. CASE e = d /\ Heard(e)' = Heard(e) \cup {l}
    <3> HIDE DEF d
    <3>1. Cardinality(Heard(e)') = Cardinality(Heard(e) \cup {l}) BY <2>5
    <3> QED BY <2>1, <2>3, <2>5, <3>1
  <2> QED BY <2>2, <2>4, <2>5
<1>7. ListenersHear'
  <2> SUFFICES ASSUME NEW m \in Listeners, at'[m] \in Hearing, on[m] \notin byHand
               PROVE  audio'[on[m]]
    BY <1>1 DEF ListenersHear, Listeners
  <2>1. audio \in [Sessions -> BOOLEAN] BY DEF StreamsInv, StreamsTypeOK
  <2>2. CASE m = l BY <1>1, <2>1, <2>2 DEF StreamsInv, StreamsTypeOK, Hearing
  <2>3. CASE m # l
    <3>1. m \in Clients /\ at[m] \in Hearing
      BY <1>1, <2>3 DEF StreamsInv, StreamsTypeOK, Listeners
    <3>2. audio[on[m]] BY <3>1 DEF StreamsInv, ListenersHear
    <3>3. on[m] \in Sessions BY <3>1 DEF StreamsInv, CapturedIsMade, Hearing, Active
    <3> QED BY <1>1, <2>1, <3>2, <3>3
  <2> QED BY <2>2, <2>3
<1>8. ViewersSee'
  BY <1>1 DEF StreamsInv, StreamsTypeOK, ViewersSee, Viewers, Watching
<1> QED BY <1>2, <1>3, <1>4, <1>5, <1>6, <1>7, <1>8 DEF StreamsInv

\* A listener leaves.  If it finds the count at zero nobody else hears a
\* session of that device, and the audio that stops is not missed.
LEMMA AudioLeavesStep ==
  ASSUME StreamsInv, NEW l \in Listeners, AudioLeaves(l)
  PROVE  StreamsInv'
<1> DEFINE s == on[l]
           d == device[on[l]]
<1>1. /\ l \in Clients /\ kind[l] = "audio" /\ at[l] = "writing"
      /\ s \in Sessions /\ d \in Devices
      /\ at' = [at EXCEPT ![l] = "gone"]
      /\ count' = [count EXCEPT ![d] = @ - 1]
      /\ audio' = IF count'[d] <= 0 THEN [audio EXCEPT ![s] = FALSE] ELSE audio
      /\ UNCHANGED <<sessions, device, state, done, fut, watched, helpers, amain,
                     video, kind, on, byHand>>
      /\ UNCHANGED programVars
  BY DEF AudioLeaves, Goes, programVars, sessionVars, mainVars, Listeners,
         StreamsInv, CapturedIsMade, Active
<1>2. Inv' BY <1>1, ProgramApart DEF StreamsInv
<1>3. StreamsTypeOK' BY <1>1, <1>2 DEF StreamsInv, StreamsTypeOK, Inv, Viewers
<1>4. CapturedIsMade'
  BY <1>1 DEF StreamsInv, StreamsTypeOK, CapturedIsMade, Active
<1>5. IdleIsEmpty' /\ ViewersWatch'
  BY <1>1 DEF StreamsInv, StreamsTypeOK, IdleIsEmpty, ViewersWatch, Viewers
<1>6. Counted'
  <2> SUFFICES ASSUME NEW e \in Devices PROVE Cardinality(Heard(e)') <= count'[e]
    BY DEF Counted
  <2>1. count[e] \in Int /\ count'[e] = IF e = d THEN count[e] - 1 ELSE count[e]
    BY <1>1 DEF StreamsInv, StreamsTypeOK
  <2>2. Heard(e)' = IF e = d THEN Heard(e) \ {l} ELSE Heard(e)
    BY <1>1 DEF StreamsInv, StreamsTypeOK, Heard, Listeners, Hearing
  <2>3. e = d => l \in Heard(e) BY <1>1 DEF Heard, Hearing
  <2>4. /\ Cardinality(Heard(e)) <= count[e] /\ Cardinality(Heard(e)) \in Nat
        /\ l \in Heard(e) => Cardinality(Heard(e) \ {l}) = Cardinality(Heard(e)) - 1
    BY HeardIsFinite, FS_RemoveElement DEF StreamsInv, Counted
  <2> QED BY <2>1, <2>2, <2>3, <2>4
<1>7. ListenersHear'
  <2> SUFFICES ASSUME NEW m \in Listeners, at'[m] \in Hearing, on[m] \notin byHand
               PROVE  audio'[on[m]]
    BY <1>1 DEF ListenersHear, Listeners
  <2>1. m # l /\ at[m] \in Hearing /\ m \in Clients /\ on[m] \in Sessions
    BY <1>1 DEF StreamsInv, StreamsTypeOK, Listeners, Hearing, CapturedIsMade, Active
  <2>2. audio[on[m]] BY <2>1 DEF StreamsInv, ListenersHear
  <2>3. CASE count'[d] > 0 BY <1>1, <2>2, <2>3 DEF StreamsInv, StreamsTypeOK
  <2>4. CASE count'[d] <= 0
    <3>1. Heard(d)' = {}
      <4>1. Cardinality(Heard(d)') <= count'[d] BY <1>1, <1>6 DEF Counted
      <4>2. Heard(d)' \subseteq Clients BY <1>1 DEF Heard, Listeners
      <4>3. IsFiniteSet(Heard(d)') /\ Cardinality(Heard(d)') \in Nat
        BY <4>2, ClientsAssumption, FS_Subset, FS_CardinalityType
      <4>4. count'[d] \in Int BY <1>1, <1>3 DEF StreamsTypeOK
      <4> QED BY <2>4, <4>1, <4>3, <4>4, FS_EmptySet
    <3>2. device[on[m]] # d BY <1>1, <2>1, <3>1 DEF Heard, Listeners
    <3>3. on[m] # s BY <3>2
    <3> QED BY <1>1, <2>1, <2>2, <3>3 DEF StreamsInv, StreamsTypeOK
  <2>5. count'[d] \in Int BY <1>1, <1>3 DEF StreamsTypeOK
  <2> QED BY <2>3, <2>4, <2>5
<1>8. ViewersSee'
  BY <1>1 DEF StreamsInv, StreamsTypeOK, ViewersSee, Viewers, Watching
<1> QED BY <1>2, <1>3, <1>4, <1>5, <1>6, <1>7, <1>8 DEF StreamsInv

\* start_video() is over for a viewer.
LEMMA VideoStartsStep ==
  ASSUME StreamsInv, NEW v \in Viewers, VideoStarts(v)
  PROVE  StreamsInv'
<1>1. /\ v \in Clients /\ kind[v] = "video" /\ at[v] = "starting" /\ on[v] \in Sessions
      /\ \/ video' = [video EXCEPT ![on[v]] = TRUE] /\ at' = [at EXCEPT ![v] = "waiting"]
         \/ video' = video /\ at' = [at EXCEPT ![v] = "gone"]
      /\ UNCHANGED <<sessions, device, state, done, fut, watched, helpers, amain,
                     count, audio, kind, on, byHand>>
      /\ UNCHANGED programVars
  BY DEF VideoStarts, Goes, programVars, sessionVars, mainVars, Viewers,
         StreamsInv, CapturedIsMade, Active
<1>2. Inv' BY <1>1, ProgramApart DEF StreamsInv
<1>3. StreamsTypeOK'
  <2>1. video' \in [Sessions -> BOOLEAN]
    <3>1. video \in [Sessions -> BOOLEAN] BY DEF StreamsInv, StreamsTypeOK
    <3> QED BY <1>1, <3>1
  <2> QED BY <1>1, <1>2, <2>1 DEF StreamsInv, StreamsTypeOK, Inv, Viewers
<1>4. CapturedIsMade'
  BY <1>1 DEF StreamsInv, StreamsTypeOK, CapturedIsMade, Active
<1>5. IdleIsEmpty' /\ ViewersWatch'
  BY <1>1 DEF StreamsInv, StreamsTypeOK, IdleIsEmpty, ViewersWatch, Viewers
<1>6. \A d \in Devices : Heard(d)' = Heard(d)
  BY <1>1 DEF StreamsInv, StreamsTypeOK, Heard, Listeners, Hearing
<1>7. Counted' BY <1>1, <1>6 DEF StreamsInv, Counted
<1>8. ListenersHear'
  BY <1>1 DEF StreamsInv, StreamsTypeOK, ListenersHear, Listeners, Hearing
<1>9. ViewersSee'
  <2> SUFFICES ASSUME NEW w \in Viewers, at'[w] \in Watching, on[w] \notin byHand,
                      state[on[w]] # "stopped"
               PROVE  video'[on[w]]
    BY <1>1 DEF ViewersSee, Viewers
  <2>1. video \in [Sessions -> BOOLEAN] BY DEF StreamsInv, StreamsTypeOK
  <2>2. CASE w = v BY <1>1, <2>1, <2>2 DEF StreamsInv, StreamsTypeOK, Watching
  <2>3. CASE w # v
    <3>1. w \in Clients /\ at[w] \in Watching
      BY <1>1, <2>3 DEF StreamsInv, StreamsTypeOK, Viewers
    <3>2. video[on[w]] BY <3>1 DEF StreamsInv, ViewersSee
    <3>3. on[w] \in Sessions BY <3>1 DEF StreamsInv, CapturedIsMade, Watching, Active
    <3> QED BY <1>1, <2>1, <3>2, <3>3
  <2> QED BY <2>2, <2>3
<1> QED BY <1>2, <1>3, <1>4, <1>5, <1>7, <1>8, <1>9 DEF StreamsInv

\* A command touches the streams of one session, which is by hand from then on.
LEMMA CommandSteps ==
  ASSUME StreamsInv, NEW d \in Devices, AudioByHand(d) \/ VideoByHand(d)
  PROVE  StreamsInv'
<1> DEFINE s == sessions[d]
<1>1. /\ s \in Sessions /\ byHand' = byHand \cup {s}
      /\ audio' \in {audio, [audio EXCEPT ![s] = TRUE], [audio EXCEPT ![s] = FALSE]}
      /\ video' \in {video, [video EXCEPT ![s] = TRUE], [video EXCEPT ![s] = FALSE]}
      /\ UNCHANGED <<sessions, device, state, done, fut, watched, helpers, amain,
                     count, kind, at, on>>
      /\ UNCHANGED programVars
  <2>1. s \in Sessions
    BY DEF StreamsInv, Inv, ProgramTypeOK, AudioByHand, VideoByHand, Commands
  <2> QED BY <2>1 DEF AudioByHand, VideoByHand, Commands, clientVars, programVars, sessionVars,
                      mainVars
<1>2. Inv' BY <1>1, ProgramApart DEF StreamsInv
<1>3. /\ {audio, video} \subseteq [Sessions -> BOOLEAN]
      /\ {audio', video'} \subseteq [Sessions -> BOOLEAN]
      /\ \A t \in Sessions : t \notin byHand' => audio'[t] = audio[t] /\ video'[t] = video[t]
  <2>1. audio \in [Sessions -> BOOLEAN] /\ video \in [Sessions -> BOOLEAN]
    BY DEF StreamsInv, StreamsTypeOK
  <2> HIDE DEF s
  <2>2. audio' \in [Sessions -> BOOLEAN] /\ video' \in [Sessions -> BOOLEAN] BY <1>1, <2>1
  <2>3. \A t \in Sessions : t # s => audio'[t] = audio[t] /\ video'[t] = video[t]
    BY <1>1, <2>1
  <2> QED BY <1>1, <2>1, <2>2, <2>3
<1>4. StreamsTypeOK' BY <1>1, <1>2, <1>3 DEF StreamsInv, StreamsTypeOK, Inv, Viewers
<1>5. CapturedIsMade' /\ IdleIsEmpty' /\ ViewersWatch'
  BY <1>1 DEF StreamsInv, CapturedIsMade, IdleIsEmpty, ViewersWatch, Viewers
<1>6. \A e \in Devices : Heard(e)' = Heard(e) BY <1>1 DEF Heard, Listeners
<1>7. Counted' BY <1>1, <1>6 DEF StreamsInv, Counted
<1>8. ListenersHear'
  BY <1>1, <1>3 DEF StreamsInv, ListenersHear, Listeners, CapturedIsMade, Hearing, Active
<1>9. ViewersSee'
  BY <1>1, <1>3 DEF StreamsInv, ViewersSee, Viewers, CapturedIsMade, Watching, Active
<1> QED BY <1>2, <1>4, <1>5, <1>7, <1>8, <1>9 DEF StreamsInv

\* A session that was made keeps its device, and one that was stopped stays so.
LEMMA ProgramKeeps ==
  ASSUME ProgramTypeOK, ProgramNext, NEW s \in Sessions, state[s] # "unused"
  PROVE  /\ device'[s] = device[s] /\ state'[s] # "unused"
         /\ state[s] = "stopped" => state'[s] = "stopped"
<1> USE DEF ProgramTypeOK
<1>1. CASE \E t \in Sessions : Advances(t) \/ Breaks(t) \/ TasksEnd(t)
  BY <1>1 DEF Advances, Breaks, TasksEnd, Moves
<1>2. CASE \E t \in Sessions : OnDeviceLost(t) BY <1>2 DEF OnDeviceLost, Stop
<1>3. CASE \E d \in Devices, t \in Sessions : OnDeviceFound(d, t)
  BY <1>3 DEF OnDeviceFound, Starts, Moves
<1>4. CASE (\E h \in Helpers : HelperEnds(h)) \/ AmainLooksAgain \/ AmainLeaves
  BY <1>4 DEF HelperEnds, AmainLooksAgain, AmainLeaves, sessionVars
<1>5. CASE AmainEnds \/ AmainInterrupted
  BY <1>5 DEF AmainEnds, AmainInterrupted, Finally, Stop
<1> QED BY <1>1, <1>2, <1>3, <1>4, <1>5 DEF ProgramNext

\* A step of the program, with what it does to the streams.
LEMMA ProgramStepsStep ==
  ASSUME StreamsInv, ProgramSteps
  PROVE  StreamsInv'
<1>1. ProgramNext /\ UNCHANGED <<count, audio, byHand>> BY DEF ProgramSteps
<1>2. Inv' BY <1>1, InvStep DEF StreamsInv
<1>3. video' = [s \in Sessions |-> video[s] /\ state'[s] # "stopped"] BY DEF ProgramSteps
<1>4. video \in [Sessions -> BOOLEAN] /\ video' \in [Sessions -> BOOLEAN]
  <2>1. video \in [Sessions -> BOOLEAN] BY DEF StreamsInv, StreamsTypeOK
  <2> QED BY <1>3, <2>1
<1>5. CASE ~Serving'
  <2>1. /\ kind' = [c \in Clients |-> None] /\ on' = [c \in Clients |-> None]
        /\ at' = [c \in Clients |-> "gone"]
    BY <1>5 DEF ProgramSteps
  <2>2. StreamsTypeOK' BY <1>1, <1>2, <1>4, <2>1 DEF StreamsInv, StreamsTypeOK, Inv
  <2>3. \A d \in Devices : Heard(d)' = {} BY <2>1 DEF Heard, Hearing, Listeners
  <2>4. Counted'
    <3> SUFFICES ASSUME NEW d \in Devices PROVE Cardinality(Heard(d)') <= count'[d]
      BY DEF Counted
    <3>1. Cardinality(Heard(d)) <= count[d] BY DEF StreamsInv, Counted
    <3>2. count[d] \in Int /\ count' = count BY <1>1 DEF StreamsInv, StreamsTypeOK
    <3>3. Cardinality(Heard(d)') = 0 BY <2>3, FS_EmptySet
    <3> QED BY <3>1, <3>2, <3>3, HeardIsFinite
  <2>5. CapturedIsMade' /\ IdleIsEmpty' /\ ViewersWatch' /\ ListenersHear' /\ ViewersSee'
         
    BY <2>1 DEF CapturedIsMade, IdleIsEmpty, ViewersWatch, ListenersHear, ViewersSee,
                Active, Hearing, Watching, Viewers, Listeners
  <2> QED BY <1>2, <2>2, <2>4, <2>5 DEF StreamsInv
<1>6. CASE Serving'
  <2>1. UNCHANGED <<kind, at, on>> BY <1>6 DEF ProgramSteps, clientVars
  <2>2. StreamsTypeOK'
    BY <1>1, <1>2, <1>4, <2>1 DEF StreamsInv, StreamsTypeOK, Inv, Viewers
  <2>3. \A s \in Sessions : state[s] # "unused" =>
          /\ device'[s] = device[s] /\ state'[s] # "unused"
          /\ state[s] = "stopped" => state'[s] = "stopped"
    BY <1>1, ProgramKeeps DEF StreamsInv, Inv
  <2>4. CapturedIsMade' BY <2>1, <2>3 DEF StreamsInv, CapturedIsMade
  <2>5. IdleIsEmpty' /\ ViewersWatch'
    BY <2>1 DEF StreamsInv, IdleIsEmpty, ViewersWatch, Viewers
  <2>6. \A d \in Devices : Heard(d)' = Heard(d)
    BY <2>1, <2>3 DEF StreamsInv, CapturedIsMade, Heard, Listeners, Hearing, Active
  <2>7. Counted' BY <1>1, <2>6 DEF StreamsInv, Counted
  <2>8. ListenersHear' BY <1>1, <2>1 DEF StreamsInv, ListenersHear, Listeners
  <2>9. ViewersSee'
    <3> SUFFICES ASSUME NEW v \in Viewers, at[v] \in Watching, on[v] \notin byHand,
                        state'[on[v]] # "stopped"
                 PROVE  video'[on[v]]
      BY <1>1, <2>1 DEF ViewersSee, Viewers
    <3>1. on[v] \in Sessions /\ state[on[v]] # "unused"
      BY DEF StreamsInv, CapturedIsMade, Watching, Active, Viewers
    <3>2. state[on[v]] # "stopped" BY <2>3, <3>1
    <3>3. video[on[v]] BY <3>2 DEF StreamsInv, ViewersSee
    <3> QED BY <1>3, <3>1, <3>3
  <2> QED BY <1>2, <2>2, <2>4, <2>5, <2>7, <2>8, <2>9 DEF StreamsInv
<1> QED BY <1>5, <1>6

----------------------------------------------------------------------------
LEMMA StreamsInitInv == StreamsInit => StreamsInv
<1> SUFFICES ASSUME StreamsInit PROVE StreamsInv
  OBVIOUS
<1> USE DEF StreamsInit
<1>1. Inv
  BY ProgramAssumption DEF ProgramInit, Inv, ProgramTypeOK, LiveIsEntry, EntryIsLive, NoneLeft,
                           EveryTaskIsWatched, Running, Registered, Live, Helpers
<1>2. StreamsTypeOK BY <1>1 DEF StreamsTypeOK, Inv
<1>3. Counted
  <2> SUFFICES ASSUME NEW d \in Devices PROVE Cardinality(Heard(d)) <= count[d]
    BY DEF Counted
  <2>1. Heard(d) = {} BY DEF Heard, Hearing, Listeners
  <2>2. Cardinality(Heard(d)) = 0 BY <2>1, FS_EmptySet
  <2> QED BY <2>2
<1>4. CapturedIsMade /\ IdleIsEmpty /\ ViewersWatch /\ ListenersHear /\ ViewersSee
  BY DEF CapturedIsMade, IdleIsEmpty, ViewersWatch, ListenersHear, ViewersSee,
         Active, Hearing, Watching, Viewers, Listeners
<1> QED BY <1>1, <1>2, <1>3, <1>4 DEF StreamsInv

LEMMA StreamsInvStep == StreamsInv /\ [StreamsNext]_vars => StreamsInv'
<1> SUFFICES ASSUME StreamsInv, [StreamsNext]_vars PROVE StreamsInv'
  OBVIOUS
<1>1. CASE ProgramSteps BY <1>1, ProgramStepsStep
<1>2. CASE \E c \in Clients, k \in {"audio", "video"}, d \in Devices : Asks(c, k, d)
  BY <1>2, AsksStep
<1>3. CASE \E l \in Listeners : Listens(l) BY <1>3, ListensStep
<1>4. CASE \E l \in Listeners : AudioLeaves(l) BY <1>4, AudioLeavesStep
<1>5. CASE \E v \in Viewers : VideoStarts(v) BY <1>5, VideoStartsStep
<1>6. CASE \/ \E s \in Sessions : AudioPublished(s) \/ VideoPublished(s)
           \/ \E l \in Listeners : AudioWritten(l)
           \/ \E v \in Viewers : ViewerPrepared(v) \/ ViewerReads(v) \/ FrameWritten(v)
                                 \/ ViewerLeaves(v)
  BY <1>6, HandlerSteps
<1>7. CASE \E d \in Devices : AudioByHand(d) \/ VideoByHand(d) BY <1>7, CommandSteps
<1>8. CASE UNCHANGED vars
  <2>1. /\ UNCHANGED <<sessions, device, state, done, fut, watched, helpers, amain, count, audio,
                       video, kind, at, on, byHand>>
        /\ UNCHANGED programVars
    BY <1>8 DEF vars, streamVars, clientVars, programVars, sessionVars, mainVars
  <2>2. Inv' BY <2>1, ProgramApart DEF StreamsInv
  <2>3. StreamsTypeOK' BY <2>1, <2>2 DEF StreamsInv, StreamsTypeOK, Inv, Viewers
  <2>4. \A d \in Devices : Heard(d)' = Heard(d) BY <2>1 DEF Heard, Listeners
  <2>5. Counted' BY <2>1, <2>4 DEF StreamsInv, Counted
  <2>6. CapturedIsMade' /\ IdleIsEmpty' /\ ViewersWatch'
    BY <2>1 DEF StreamsInv, CapturedIsMade, IdleIsEmpty, ViewersWatch, Viewers
  <2>7. ListenersHear' /\ ViewersSee'
    BY <2>1 DEF StreamsInv, ListenersHear, ViewersSee, Viewers, Listeners
  <2> QED BY <2>2, <2>3, <2>5, <2>6, <2>7 DEF StreamsInv
<1> QED BY <1>1, <1>2, <1>3, <1>4, <1>5, <1>6, <1>7, <1>8 DEF StreamsNext

\* The streams start with StreamsInv and keep it.
THEOREM StreamsInvariant == StreamsSpec => []StreamsInv
BY StreamsInitInv, StreamsInvStep, PTL DEF StreamsSpec

\* The variables of the streams keep their shape.
THEOREM StreamsTypeCorrect == StreamsSpec => []StreamsTypeOK
<1>1. StreamsInv => StreamsTypeOK BY DEF StreamsInv
<1> QED BY <1>1, StreamsInvariant, PTL

\* The web server does nothing to sessions and amain() that the program alone
\* would not do: what is proved of the program holds with its streams.
THEOREM StreamsImplementProgram == StreamsSpec => ProgramSpec
<1>1. StreamsInit => ProgramInit BY DEF StreamsInit
<1>2. [StreamsNext]_vars => [ProgramNext]_programVars
  BY DEF StreamsNext, vars, ProgramSteps, Asks, Listens, AudioWritten, AudioLeaves, ViewerPrepared,
         VideoStarts, ViewerReads, FrameWritten, ViewerLeaves, AudioPublished, VideoPublished,
         AudioByHand, VideoByHand, Commands
<1> QED BY <1>1, <1>2, PTL DEF StreamsSpec, ProgramSpec

\* A stream runs on as long as its client listens and its session is in order,
\* whoever else comes and leaves (stream_audio, http_server.py:557-588, and
\* stream_video, http_server.py:592-620).
THEOREM StreamsAreKept == StreamsSpec => []ClientsKeepStreams
<1>1. StreamsInv => ClientsKeepStreams
  <2> SUFFICES ASSUME StreamsInv, NEW c \in Clients, on[c] # None, Sends(on[c]),
                      on[c] \notin byHand
               PROVE  /\ c \in Listeners /\ at[c] \in {"listening", "writing"} => audio[on[c]]
                      /\ c \in Viewers /\ at[c] \in {"waiting", "notified", "writing"}
                           => video[on[c]]
    BY DEF ClientsKeepStreams
  <2>1. state[on[c]] # "stopped" BY DEF Sends
  <2> QED BY <2>1 DEF StreamsInv, ListenersHear, ViewersSee, Hearing, Watching
<1> QED BY <1>1, StreamsInvariant, PTL
=============================================================================
