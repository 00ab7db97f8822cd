---------------------------- MODULE CameraProofs ----------------------------
(***************************************************************************)
(* Proofs about Camera, for any number of requests, of faults of the       *)
(* network and of datagrams under way.                                     *)
(*                                                                         *)
(* What concerns the login holds whatever the network does, for an answer  *)
(* to USER_CHK says itself what the camera decided.  What concerns the     *)
(* reason of a refusal, and the stream, holds while the network does       *)
(* nothing wrong (Calm), and rests on the order of the datagrams.          *)
(***************************************************************************)
EXTENDS Camera, SequenceTheorems, TLAPS

Messages == Range(toCamera) \cup Range(asleep) \cup Range(toHost)

\* A future there is for a command is that of a request for it, and whoever has
\* got nothing yet has its future there: it comes back empty as soon as it has not.
WaitersMatch ==
  /\ \A k \in Commands : waiter[k] # None => req[waiter[k]] # None /\ req[waiter[k]].cmd = k
  /\ \A c \in Callers : req[c] # None /\ req[c].got = "nothing" => waiter[req[c].cmd] = c

\* Who waits for what, and where setup_device is with it.
CallsMatch ==
  /\ WaitersMatch
  /\ req["setup"] # None <=> setup \in {"check", "status"}
  /\ req["setup"] # None => req["setup"].cmd = setup
  /\ req["user"] # None => req["user"].cmd \in {"status", "scan"}
  /\ setup \in {"connected", "check"} => auth = None
  /\ setup \in {"status", "ready"} => auth # None

\* Only requests that were made are on their way.
IdsAreGiven ==
  /\ \A m \in Messages : m.id # None => m.id <= asked + 1
  /\ \A c \in Callers : req[c] # None => req[c].id <= asked + 1

\* An answer to USER_CHK, wherever it is, is what the camera decided.
LoginAgreed ==
  /\ loggedIn => right
  /\ \A m \in Range(toHost) :
       m.cmd = "check" => (loggedIn <=> right) /\ (m.got = "data" <=> right)
  /\ req["setup"] # None /\ req["setup"].cmd = "check" /\ req["setup"].got # "nothing"
       => (loggedIn <=> right) /\ (req["setup"].got = "data" <=> right)
  /\ auth # None => (auth <=> right) /\ (loggedIn <=> right)

\* Who asks after a successful login is answered with data.
AuthedIsServed ==
  req["user"] # None /\ req["user"].authed =>
    /\ loggedIn
    /\ \A m \in Range(toHost) : m.id = req["user"].id => m.got = "data"
    /\ req["user"].got = "refusal" => crossed

\* Before the login returns there is no video.
VideoAfterLogin ==
  auth = None =>
    /\ ~requested /\ ~streaming
    /\ \A m \in Range(toCamera) : m.cmd \in {"check", "status", "scan"}

\* A task of the camera that sleeps will not refuse.
SleepersServe ==
  \A m \in Range(asleep) : m.cmd = "check" \/ (m.cmd = "status" /\ ~Refuses("status"))

\* What holds whatever the network does.
AnyhowInv ==
  /\ CameraTypeOK /\ CallsMatch /\ IdsAreGiven /\ LoginAgreed /\ AuthedIsServed
  /\ VideoAfterLogin /\ SleepersServe

\* The network has done nothing wrong, and the session is up.
Calm == faults = 0 /\ Up

\* No two messages of one command in a sequence.
Once(q) == \A i, j \in 1..Len(q) : q[i].cmd = q[j].cmd => i = j
Sent(q) == {q[i].cmd : i \in 1..Len(q)}

\* The one request a message can belong to, which still waits.
Awaited(m) ==
  LET r == req[IF m.cmd = "check" THEN "setup" ELSE "user"]
  IN r # None /\ r.cmd = m.cmd /\ r.id = m.id /\ r.got = "nothing"

\* Before the login returns each request under way is there once, and awaited.
OneEach ==
  Calm /\ auth = None =>
    /\ Once(toCamera) /\ Once(asleep) /\ Once(toHost)
    /\ Sent(toCamera) \cap Sent(asleep) = {}
    /\ Sent(toCamera) \cap Sent(toHost) = {}
    /\ Sent(asleep) \cap Sent(toHost) = {}
    /\ \A m \in Messages : Awaited(m)

\* After it there is no other login.
NoSecondLogin == Calm /\ auth # None => \A m \in Messages : m.cmd # "check"

\* A refusal under way is one the camera would repeat, unless the answer to the
\* login follows it.
RefusalsInOrder ==
  Calm => \A i \in 1..Len(toHost) :
    \/ toHost[i].cmd = "check"
    \/ toHost[i].got = "refusal" <=> Refuses(toHost[i].cmd)
    \/ \E j \in (i + 1)..Len(toHost) : toHost[j].cmd = "check"

\* Whoever was refused finds the code, and will: no other answer overwrites it.
Explained ==
  Calm => \A c \in Callers :
    req[c] # None /\ req[c].got = "refusal" =>
      /\ results[req[c].cmd] = "refused"
      /\ \A m \in Range(toHost) : m.cmd = req[c].cmd => m.got = "refusal"

\* The last start or stop under way is what the session wants; if there is none
\* the camera has done it.
Switch == {"start", "stop"}
Wanted == IF requested THEN "start" ELSE "stop"
NoSwitch(q) == \A i \in 1..Len(q) : q[i].cmd \notin Switch
SwitchesTo(q, want) ==
  \A i \in 1..Len(q) :
    q[i].cmd \in Switch /\ (\A j \in (i + 1)..Len(q) : q[j].cmd \notin Switch)
    => q[i].cmd = want

SwitchesInOrder ==
  Calm => /\ SwitchesTo(toCamera, Wanted)
          /\ NoSwitch(toCamera) /\ ~Refuses("start") => (streaming <=> requested)

CalmInv ==
  OneEach /\ NoSecondLogin /\ RefusalsInOrder /\ Explained /\ SwitchesInOrder

CameraInv == AnyhowInv /\ CalmInv

----------------------------------------------------------------------------
\* Sequences of messages.

\* What is sent goes behind the rest.
LEMMA AppendEffect ==
  ASSUME NEW S, NEW q \in Seq(S), NEW x \in S
  PROVE  /\ Append(q, x) \in Seq(S) /\ Len(Append(q, x)) = Len(q) + 1
         /\ Append(q, x)[Len(q) + 1] = x
         /\ \A i \in 1..Len(q) : Append(q, x)[i] = q[i]
         /\ Range(Append(q, x)) = Range(q) \cup {x}
<1>1. /\ Append(q, x) \in Seq(S) /\ Len(Append(q, x)) = Len(q) + 1
      /\ Append(q, x)[Len(q) + 1] = x
      /\ \A i \in 1..Len(q) : Append(q, x)[i] = q[i]
  BY AppendProperties
<1>2. DOMAIN Append(q, x) = 1..(Len(q) + 1) /\ DOMAIN q = 1..Len(q) /\ Len(q) \in Nat
  BY <1>1, LenProperties
<1>3. Range(Append(q, x)) = Range(q) \cup {x}
  BY <1>1, <1>2 DEF Range
<1>4. QED
  BY <1>1, <1>3

\* A list of one, and of two.
LEMMA ConcatIsAppend ==
  ASSUME NEW S, NEW q \in Seq(S), NEW x \in S, NEW y \in S
  PROVE  /\ q \o <<x>> = Append(q, x)
         /\ q \o <<x, y>> = Append(Append(q, x), y)
BY SMT

\* The first is taken, the others move up.
LEMMA TailEffect ==
  ASSUME NEW S, NEW q \in Seq(S), q # <<>>
  PROVE  /\ Tail(q) \in Seq(S) /\ Len(Tail(q)) = Len(q) - 1 /\ Len(q) \in Nat \ {0}
         /\ Head(q) = q[1] /\ Head(q) \in S
         /\ \A i \in 1..(Len(q) - 1) : Tail(q)[i] = q[i + 1]
         /\ Range(q) = Range(Tail(q)) \cup {Head(q)}
<1>1. /\ Tail(q) \in Seq(S) /\ Len(Tail(q)) = Len(q) - 1 /\ Len(q) \in Nat \ {0}
      /\ Head(q) = q[1] /\ Head(q) \in S
      /\ \A i \in 1..(Len(q) - 1) : Tail(q)[i] = q[i + 1]
  BY HeadTailProperties, LenProperties
<1>2. DOMAIN Tail(q) = 1..(Len(q) - 1) /\ DOMAIN q = 1..Len(q)
  BY <1>1, LenProperties
<1>3. Range(q) \subseteq Range(Tail(q)) \cup {Head(q)}
  <2> SUFFICES ASSUME NEW i \in 1..Len(q), i # 1 PROVE q[i] \in Range(Tail(q))
    BY <1>1, <1>2 DEF Range
  <2>1. i - 1 \in 1..(Len(q) - 1) /\ q[i] = Tail(q)[i - 1]
    BY <1>1
  <2>2. QED
    BY <1>2, <2>1 DEF Range
<1>4. Range(Tail(q)) \cup {Head(q)} \subseteq Range(q)
  BY <1>1, <1>2 DEF Range
<1>5. QED
  BY <1>1, <1>3, <1>4

\* A fault adds nothing that was not there.
LEMMA DisturbedEffect ==
  ASSUME NEW S, NEW q \in Seq(S), NEW p \in Disturbed(q)
  PROVE  p \in Seq(S) /\ Range(p) \subseteq Range(q)
<1>0. Len(q) \in Nat /\ DOMAIN q = 1..Len(q) /\ \A i \in 1..Len(q) : q[i] \in Range(q)
  BY LenProperties DEF Range
<1>1. q \in Seq(Range(q))
  BY <1>0
<1>2. ASSUME NEW i \in 1..Len(q), p = RemoveAt(q, i)
      PROVE  p \in Seq(Range(q))
  <2>1. SubSeq(q, 1, i - 1) \in Seq(Range(q))
    <3>1. \A j \in 1..(i - 1) : q[j] \in Range(q)
      BY <1>0
    <3>2. 1 \in Int /\ i - 1 \in Int
      BY <1>0
    <3>3. QED
      BY <3>1, <3>2, SubSeqProperties
  <2>2. SubSeq(q, i + 1, Len(q)) \in Seq(Range(q))
    <3>1. \A j \in (i + 1)..Len(q) : q[j] \in Range(q)
      BY <1>0
    <3>2. i + 1 \in Int /\ Len(q) \in Int
      BY <1>0
    <3>3. QED
      BY <3>1, <3>2, SubSeqProperties
  <2>3. QED
    BY <1>2, <2>1, <2>2, ConcatProperties DEF RemoveAt
<1>3. ASSUME NEW i \in 1..Len(q), p = q \o <<q[i]>>
      PROVE  p \in Seq(Range(q))
  <2>1. q[i] \in Range(q)
    BY <1>0
  <2>2. QED
    BY <1>1, <1>3, <2>1, ConcatIsAppend, AppendEffect
<1>4. ASSUME NEW i \in 1..Len(q) - 1, p = [q EXCEPT ![i] = q[i + 1], ![i + 1] = q[i]]
      PROVE  p \in Seq(Range(q))
  <2>1. q[i] \in Range(q) /\ q[i + 1] \in Range(q)
    BY <1>0
  <2>2. QED
    BY <1>1, <1>4, <2>1
<1>5. p \in Seq(Range(q))
  BY <1>2, <1>3, <1>4 DEF Disturbed
<1>6. DOMAIN p = 1..Len(p) /\ \A i \in 1..Len(p) : p[i] \in Range(q)
  BY <1>5, LenProperties
<1>7. Range(p) \subseteq Range(q)
  BY <1>6 DEF Range
<1>8. Range(q) \subseteq S
  BY <1>0 DEF Range
<1>9. p \in Seq(S)
  BY <1>5, <1>6, <1>8
<1>10. QED
  BY <1>7, <1>9

\* One more command, and each still there once.
LEMMA OnceAppend ==
  ASSUME NEW S, NEW q \in Seq(S), NEW x \in S, Once(q), x.cmd \notin Sent(q)
  PROVE  Once(Append(q, x)) /\ Sent(Append(q, x)) = Sent(q) \cup {x.cmd}
<1> DEFINE p == Append(q, x)
<1>1. /\ Len(p) = Len(q) + 1 /\ Len(q) \in Nat /\ p[Len(q) + 1] = x
      /\ \A i \in 1..Len(q) : p[i] = q[i]
  BY AppendEffect, LenProperties
<1> HIDE DEF p
<1>2. Once(p)
  <2> SUFFICES ASSUME NEW i \in 1..Len(p), NEW j \in 1..Len(p), p[i].cmd = p[j].cmd
               PROVE  i = j
    BY DEF Once
  <2>1. CASE i \in 1..Len(q) /\ j \in 1..Len(q)
    BY <1>1, <2>1 DEF Once
  <2>2. CASE i \in 1..Len(q) /\ j = Len(q) + 1
    BY <1>1, <2>2 DEF Sent
  <2>3. CASE i = Len(q) + 1 /\ j \in 1..Len(q)
    BY <1>1, <2>3 DEF Sent
  <2>4. QED
    BY <1>1, <2>1, <2>2, <2>3
<1>3. Sent(p) = Sent(q) \cup {x.cmd}
  BY <1>1 DEF Sent
<1>4. QED
  BY <1>2, <1>3 DEF p

\* One command less, and each still there once.
LEMMA OnceTail ==
  ASSUME NEW S, NEW q \in Seq(S), q # <<>>, Once(q)
  PROVE  Once(Tail(q)) /\ Sent(Tail(q)) = Sent(q) \ {Head(q).cmd} /\ Head(q).cmd \in Sent(q)
<1> DEFINE p == Tail(q)
<1>1. /\ Len(p) = Len(q) - 1 /\ Len(q) \in Nat \ {0} /\ Head(q) = q[1]
      /\ \A i \in 1..(Len(q) - 1) : p[i] = q[i + 1]
  BY TailEffect
<1> HIDE DEF p
<1>2. Once(p)
  <2> SUFFICES ASSUME NEW i \in 1..Len(p), NEW j \in 1..Len(p), p[i].cmd = p[j].cmd
               PROVE  i = j
    BY DEF Once
  <2>1. i + 1 \in 1..Len(q) /\ j + 1 \in 1..Len(q) /\ q[i + 1].cmd = q[j + 1].cmd
    BY <1>1
  <2>2. QED
    BY <2>1 DEF Once
<1>3. Sent(p) \subseteq Sent(q) \ {Head(q).cmd}
  <2> SUFFICES ASSUME NEW i \in 1..Len(p)
               PROVE  p[i].cmd \in Sent(q) /\ p[i].cmd # q[1].cmd
    BY <1>1 DEF Sent
  <2>1. i + 1 \in 1..Len(q) /\ 1 \in 1..Len(q) /\ i + 1 # 1 /\ p[i] = q[i + 1]
    BY <1>1
  <2>2. QED
    BY <2>1 DEF Sent, Once
<1>4. Sent(q) \ {Head(q).cmd} \subseteq Sent(p)
  <2> SUFFICES ASSUME NEW i \in 1..Len(q), i # 1
               PROVE  q[i].cmd \in Sent(p)
    BY <1>1 DEF Sent
  <2>1. i - 1 \in 1..Len(p) /\ p[i - 1] = q[i]
    BY <1>1
  <2>2. QED
    BY <2>1 DEF Sent
<1>5. Head(q).cmd \in Sent(q)
  BY <1>1 DEF Sent
<1>6. QED
  BY <1>2, <1>3, <1>4, <1>5 DEF p

\* The commands of a sequence are those of its messages.
LEMMA SentIsOfRange ==
  ASSUME NEW S, NEW q \in Seq(S)
  PROVE  Sent(q) = {m.cmd : m \in Range(q)}
BY LenProperties DEF Sent, Range

\* A switch sent is the last one, anything else leaves it the last.
LEMMA SwitchAppend ==
  ASSUME NEW S, NEW q \in Seq(S), NEW x \in S, x.cmd \in Switch
  PROVE  ~NoSwitch(Append(q, x)) /\ SwitchesTo(Append(q, x), x.cmd)
<1> DEFINE p == Append(q, x)
           n == Len(q)
<1>1. Len(p) = n + 1 /\ n \in Nat /\ p[n + 1] = x /\ \A i \in 1..n : p[i] = q[i]
  BY AppendEffect, LenProperties
<1> HIDE DEF p, n
<1>2. n + 1 \in 1..Len(p) /\ \A i \in 1..Len(p) : i \in 1..n \/ i = n + 1
  BY <1>1
<1>3. ~NoSwitch(p)
  BY <1>1, <1>2 DEF NoSwitch
<1>4. ASSUME NEW i \in 1..n
      PROVE  ~(\A j \in (i + 1)..Len(p) : p[j].cmd \notin Switch)
  <2>1. n + 1 \in (i + 1)..Len(p)
    BY <1>1
  <2>2. QED
    BY <1>1, <2>1
<1>5. SwitchesTo(p, x.cmd)
  BY <1>1, <1>2, <1>4 DEF SwitchesTo
<1>6. QED
  BY <1>3, <1>5 DEF p

\* What is no switch leaves the last switch the last.
LEMMA OtherAppend ==
  ASSUME NEW S, NEW q \in Seq(S), NEW x \in S, x.cmd \notin Switch, NEW want
  PROVE  /\ NoSwitch(Append(q, x)) => NoSwitch(q)
         /\ SwitchesTo(q, want) => SwitchesTo(Append(q, x), want)
<1> DEFINE p == Append(q, x)
           n == Len(q)
<1>1. Len(p) = n + 1 /\ n \in Nat /\ p[n + 1] = x /\ \A i \in 1..n : p[i] = q[i]
  BY AppendEffect, LenProperties
<1> HIDE DEF p, n
<1>2. \A i \in 1..Len(p) : i \in 1..n \/ i = n + 1
  BY <1>1
<1>3. NoSwitch(p) => NoSwitch(q)
  BY <1>1 DEF NoSwitch, n
<1>4. ASSUME SwitchesTo(q, want), NEW i \in 1..Len(p), p[i].cmd \in Switch,
             \A j \in (i + 1)..Len(p) : p[j].cmd \notin Switch
      PROVE  p[i].cmd = want
  <2>1. i \in 1..n /\ p[i] = q[i]
    BY <1>1, <1>2, <1>4
  <2>2. \A j \in (i + 1)..n : j \in (i + 1)..Len(p) /\ p[j] = q[j]
    BY <1>1, <2>1
  <2>3. \A j \in (i + 1)..n : q[j].cmd \notin Switch
    BY <1>4, <2>2
  <2>4. QED
    BY <1>4, <2>1, <2>3 DEF SwitchesTo, n
<1>5. QED
  BY <1>3, <1>4 DEF SwitchesTo, p

\* The last switch stays the last until it is taken itself.
LEMMA SwitchTail ==
  ASSUME NEW S, NEW q \in Seq(S), q # <<>>, NEW want, SwitchesTo(q, want)
  PROVE  /\ SwitchesTo(Tail(q), want)
         /\ NoSwitch(Tail(q)) =>
              \/ NoSwitch(q)
              \/ Head(q).cmd \in Switch /\ Head(q).cmd = want
<1> DEFINE p == Tail(q)
           n == Len(q)
<1>1. /\ Len(p) = n - 1 /\ n \in Nat \ {0} /\ Head(q) = q[1]
      /\ \A i \in 1..(n - 1) : p[i] = q[i + 1]
  BY TailEffect
<1> HIDE DEF p, n
<1>2. \A j \in 2..n : j - 1 \in 1..Len(p) /\ q[j] = p[j - 1]
  <2> SUFFICES ASSUME NEW j \in 2..n PROVE j - 1 \in 1..Len(p) /\ q[j] = p[j - 1]
    OBVIOUS
  <2>1. j - 1 \in 1..(n - 1) /\ (j - 1) + 1 = j
    BY <1>1
  <2>2. QED
    BY <1>1, <2>1
<1>3. SwitchesTo(p, want)
  <2> SUFFICES ASSUME NEW i \in 1..Len(p), p[i].cmd \in Switch,
                      \A j \in (i + 1)..Len(p) : p[j].cmd \notin Switch
               PROVE  p[i].cmd = want
    BY DEF SwitchesTo
  <2>1. i + 1 \in 1..n /\ p[i] = q[i + 1]
    BY <1>1
  <2>2. ASSUME NEW j \in ((i + 1) + 1)..n
        PROVE  q[j].cmd \notin Switch
    <3>1. j \in 2..n /\ j - 1 \in (i + 1)..Len(p)
      BY <1>1, <2>1
    <3>2. QED
      BY <1>2, <3>1
  <2>3. QED
    BY <2>1, <2>2 DEF SwitchesTo, n
<1>4. ASSUME NoSwitch(p), ~NoSwitch(q)
      PROVE  q[1].cmd \in Switch /\ q[1].cmd = want
  <2>1. \A j \in 2..n : q[j].cmd \notin Switch
    BY <1>2, <1>4 DEF NoSwitch
  <2>2. q[1].cmd \in Switch
    <3>1. \A j \in 1..n : j = 1 \/ j \in 2..n
      BY <1>1
    <3>2. QED
      BY <1>4, <2>1, <3>1 DEF NoSwitch, n
  <2>3. 1 \in 1..n /\ (1 + 1)..n = 2..n
    BY <1>1
  <2>4. QED
    BY <2>1, <2>2, <2>3 DEF SwitchesTo, n
<1>5. QED
  BY <1>1, <1>3, <1>4 DEF p

----------------------------------------------------------------------------
\* What a request and its end do at the host.

\* The entry of a caller goes with its wait, and it has no other.
LEMMA FinishedEffect ==
  ASSUME CameraTypeOK, CallsMatch, NEW c \in Callers
  PROVE  /\ Finished(c) \in [Commands -> Callers \cup {None}]
         /\ \A j \in Commands : Finished(c)[j] \in {waiter[j], None} /\ Finished(c)[j] # c
<1>1. CASE req[c] = None
  <2>1. Finished(c) = waiter
    BY <1>1 DEF Finished
  <2>2. \A j \in Commands : waiter[j] # c
    BY <1>1, NoneAssumption DEF CallsMatch, WaitersMatch
  <2>3. QED
    BY <2>1, <2>2 DEF CameraTypeOK
<1>2. CASE req[c] # None
  <2>1. Finished(c) = [waiter EXCEPT ![req[c].cmd] = None]
    BY <1>2 DEF Finished
  <2>2. req[c].cmd \in Commands
    BY <1>2 DEF CameraTypeOK, Pending
  <2>3. \A j \in Commands : waiter[j] = c => j = req[c].cmd
    BY <1>2, NoneAssumption DEF CallsMatch, WaitersMatch
  <2>4. QED
    BY <2>1, <2>2, <2>3, NoneAssumption DEF CameraTypeOK
<1>3. QED
  BY <1>1, <1>2

\* A request goes out, its caller waits, and takes the place of another caller
\* for the same command, who is cancelled if not answered yet; then it is empty.
Requesting(c, k, id) ==
  /\ toCamera' = Append(toCamera, [cmd |-> k, id |-> id])
  /\ [cmd |-> k, id |-> id] \in Datagram
  /\ req' \in [Callers -> Pending \cup {None}]
  /\ req'[c] # None /\ req'[c].cmd = k /\ req'[c].id = id
  /\ req'[c].got \in {"nothing", "empty"}
  /\ req'[c].got = "empty" => \E o \in Callers \ {c} : req[o] # None /\ req[o].cmd = k
  /\ req'[c].authed <=> auth = TRUE
  /\ \A o \in Callers \ {c} :
       \/ req'[o] = req[o]
       \/ req'[o] = None /\ req[o] # None /\ req[o].cmd = k /\ req[o].got = "nothing"
            /\ (o = "setup" => setup' = "cut")
  /\ c = "setup" => setup' = k
  /\ c = "user" => \/ setup' = setup /\ req'["setup"] = req["setup"]
                   \/ setup' = "cut" /\ req'["setup"] = None
  /\ waiter' \in [Commands -> Callers \cup {None}]
  /\ WaitersMatch'

\* send_command() with an answer expected does that.
LEMMA RequestEffect ==
  ASSUME CameraTypeOK, CallsMatch, NEW c \in Callers, NEW k \in Commands, NEW id \in Nat,
         Request(c, k, id), req[c] # None => c = "setup" /\ req[c].cmd = "check"
  PROVE  Requesting(c, k, id)
<1> DEFINE o == waiter[k]
           cancels == o \notin {None, c} /\ req[o].got = "nothing"
           mine == [cmd |-> k, id |-> id, authed |-> auth = TRUE,
                    got |-> IF cancels THEN "empty" ELSE "nothing"]
<1>1. /\ toCamera' = toCamera \o <<[cmd |-> k, id |-> id]>>
      /\ req' = [x \in Callers |->
                  IF x = c THEN mine ELSE IF cancels /\ x = o THEN None ELSE req[x]]
      /\ setup' = IF cancels /\ o = "setup" THEN "cut" ELSE IF c = "setup" THEN k ELSE setup
      /\ waiter' = [Finished(c) EXCEPT ![k] = IF cancels THEN None ELSE c]
  BY DEF Request, Send
<1>2. [cmd |-> k, id |-> id] \in Datagram
  BY DEF Datagram
<1>3. toCamera' = Append(toCamera, [cmd |-> k, id |-> id])
  BY <1>1, <1>2, ConcatIsAppend DEF CameraTypeOK
<1>4. mine \in Pending /\ mine # None
  <2>1. (auth = TRUE) \in BOOLEAN
    OBVIOUS
  <2>2. mine \in Pending
    <3>1. (IF cancels THEN "empty" ELSE "nothing") \in {"nothing", "data", "refusal", "empty"}
      OBVIOUS
    <3>2. QED
      BY <2>1, <3>1, Zenon DEF Pending
  <2>3. QED
    BY <2>2, NoneAssumption
<1>5. o \in Callers \cup {None} /\ (o # None => req[o] # None /\ req[o].cmd = k)
  BY DEF CameraTypeOK, CallsMatch, WaitersMatch
<1> HIDE DEF o, mine, cancels
<1>6. req' \in [Callers -> Pending \cup {None}] /\ req'[c] = mine
  BY <1>1, <1>4 DEF CameraTypeOK
<1>7. \A x \in Callers \ {c} :
        \/ req'[x] = req[x] /\ ~(cancels /\ x = o)
        \/ req'[x] = None /\ req[x] # None /\ req[x].cmd = k /\ req[x].got = "nothing"
             /\ (x = "setup" => setup' = "cut")
  BY <1>1, <1>5 DEF cancels
<1>8. c = "setup" => setup' = k
  BY <1>1 DEF cancels
<1>9. c = "user" => \/ setup' = setup /\ req'["setup"] = req["setup"]
                    \/ setup' = "cut" /\ req'["setup"] = None
  BY <1>1 DEF Callers
<1>10. /\ waiter' \in [Commands -> Callers \cup {None}]
       /\ \A j \in Commands :
            waiter'[j] # None => req'[waiter'[j]] # None /\ req'[waiter'[j]].cmd = j
  <2>1. /\ waiter' \in [Commands -> Callers \cup {None}] /\ waiter'[k] \in {c, None}
        /\ \A j \in Commands \ {k} : waiter'[j] \in {waiter[j], None} /\ waiter'[j] # c
    BY <1>1, FinishedEffect
  <2>2. req'[c].cmd = k /\ req'[c] # None
    BY <1>4, <1>6 DEF mine
  <2>3. ASSUME NEW j \in Commands \ {k}, waiter'[j] # None
        PROVE  req'[waiter'[j]] # None /\ req'[waiter'[j]].cmd = j
    <3>1. waiter'[j] = waiter[j] /\ waiter[j] \in Callers \ {c}
      BY <2>1, <2>3
    <3>2. req[waiter[j]] # None /\ req[waiter[j]].cmd = j
      BY <2>3, <3>1 DEF CallsMatch, WaitersMatch
    <3>3. req'[waiter[j]] = req[waiter[j]]
      BY <1>7, <3>1, <3>2
    <3>4. QED
      BY <3>1, <3>2, <3>3
  <2>4. QED
    BY <2>1, <2>2, <2>3 DEF WaitersMatch
<1>11. /\ mine.cmd = k /\ mine.id = id /\ mine.got \in {"nothing", "empty"}
       /\ mine.authed <=> auth = TRUE
       /\ mine.got = "empty" => \E x \in Callers \ {c} : req[x] # None /\ req[x].cmd = k
  BY <1>5 DEF mine, cancels
<1>12. WaitersMatch'
  <2>1. SUFFICES ASSUME NEW x \in Callers, req'[x] # None, req'[x].got = "nothing"
                 PROVE  waiter'[req'[x].cmd] = x
    BY <1>10 DEF WaitersMatch
  <2>2. CASE x = c
    <3>1. ~cancels
      BY <1>6, <2>1, <2>2 DEF mine
    <3>2. waiter' = [Finished(c) EXCEPT ![k] = c]
      BY <1>1, <3>1
    <3>3. waiter'[k] = c
      BY <3>2, FinishedEffect
    <3>4. QED
      BY <1>6, <1>11, <2>2, <3>3
  <2>3. CASE x # c
    <3>1. req'[x] = req[x] /\ ~(cancels /\ x = o) /\ req[x].cmd \in Commands
      BY <1>7, <2>1, <2>3 DEF CameraTypeOK, Pending
    <3>2. waiter[req[x].cmd] = x
      BY <2>1, <3>1 DEF CallsMatch, WaitersMatch
    <3>3. req[x].cmd # k
      BY <2>1, <2>3, <3>1, <3>2, NoneAssumption DEF cancels, o
    <3>4. req[c] # None => req[x].cmd # req[c].cmd
      BY <2>1, <2>3, <3>1 DEF CallsMatch, Callers
    <3>5. waiter'[req[x].cmd] = waiter[req[x].cmd]
      BY <1>1, <3>1, <3>3, <3>4 DEF Finished, CameraTypeOK
    <3>6. QED
      BY <3>1, <3>2, <3>5
  <2>4. QED
    BY <2>2, <2>3
<1>13. QED
  BY <1>2, <1>3, <1>6, <1>7, <1>8, <1>9, <1>4, <1>10, <1>11, <1>12 DEF Requesting

\* What an end does to another caller: nothing, unless that one has just asked for
\* the same and waits for its acknowledgement.
LeftOr(o, k) ==
  \/ req'[o] = req[o]
  \/ /\ req[o] # None /\ req[o].cmd = k /\ req[o].got = "nothing"
     /\ req'[o] # None /\ req'[o].got = "empty" /\ req'[o].cmd = k
     /\ req'[o].id = req[o].id /\ req'[o].authed = req[o].authed

\* The end of a wait.
LEMMA EndEffect ==
  ASSUME CameraTypeOK, CallsMatch, NEW c \in Callers, req[c] # None, Finish(c)
  PROVE  /\ req' \in [Callers -> Pending \cup {None}] /\ req'[c] = None
         /\ \A o \in Callers \ {c} : LeftOr(o, req[c].cmd)
         /\ waiter' \in [Commands -> Callers \cup {None}]
         /\ WaitersMatch'
<1> DEFINE k == req[c].cmd
           w == waiter[k]
<1>1. /\ req' = [x \in Callers |-> IF x = c THEN None
                                   ELSE IF x = w THEN Orphaned(req[x]) ELSE req[x]]
      /\ waiter' = [waiter EXCEPT ![k] = None]
  BY DEF Finish, Finished
<1>2. k \in Commands /\ w \in Callers \cup {None} /\ (w # None => req[w] # None /\ req[w].cmd = k)
  BY DEF CameraTypeOK, CallsMatch, WaitersMatch, Pending
<1> HIDE DEF k, w
<1>3. ASSUME NEW o \in Callers \ {c}
      PROVE  req'[o] \in Pending \cup {None} /\ LeftOr(o, k)
  <2>1. CASE o # w
    BY <1>1, <2>1 DEF CameraTypeOK, LeftOr
  <2>2. CASE o = w /\ req[o].got # "nothing"
    BY <1>1, <2>2 DEF CameraTypeOK, LeftOr, Orphaned
  <2>3. CASE o = w /\ req[o].got = "nothing"
    <3>1. req'[o] = [req[o] EXCEPT !.got = "empty"]
      BY <1>1, <2>3 DEF Orphaned
    <3>2. req[o] # None /\ req[o].cmd = k /\ req[o] \in Pending
      BY <1>2, <2>3, NoneAssumption DEF CameraTypeOK
    <3>3. req'[o] \in Pending /\ req'[o].got = "empty" /\ req'[o].cmd = k
          /\ req'[o].id = req[o].id /\ req'[o].authed = req[o].authed
      BY <3>1, <3>2 DEF Pending
    <3>4. req'[o] # None
      BY <3>3, NoneAssumption
    <3>5. QED
      BY <2>3, <3>2, <3>3, <3>4 DEF LeftOr
  <2>4. QED
    BY <2>1, <2>2, <2>3
<1>4. req' \in [Callers -> Pending \cup {None}] /\ req'[c] = None
  BY <1>1, <1>3
<1>5. waiter' \in [Commands -> Callers \cup {None}]
  BY <1>1, <1>2 DEF CameraTypeOK
<1>6. ASSUME NEW j \in Commands, waiter'[j] # None
      PROVE  req'[waiter'[j]] # None /\ req'[waiter'[j]].cmd = j
  <2>1. waiter'[j] = waiter[j] /\ j # k
    BY <1>1, <1>6 DEF CameraTypeOK
  <2>2. waiter[j] \in Callers /\ req[waiter[j]] # None /\ req[waiter[j]].cmd = j
    BY <1>6, <2>1 DEF CameraTypeOK, CallsMatch, WaitersMatch
  <2>3. waiter[j] # c
    BY <2>1, <2>2 DEF k
  <2>4. QED
    BY <1>3, <2>1, <2>2, <2>3 DEF LeftOr
<1>7. ASSUME NEW o \in Callers, req'[o] # None, req'[o].got = "nothing"
      PROVE  waiter'[req'[o].cmd] = o
  <2>1. o # c /\ req'[o] = req[o]
    BY <1>3, <1>4, <1>7 DEF LeftOr
  <2>2. waiter[req[o].cmd] = o /\ req[o].cmd \in Commands
    BY <1>7, <2>1 DEF CallsMatch, WaitersMatch, CameraTypeOK, Pending
  <2>3. req[o].cmd # k
    <3>1. SUFFICES ASSUME o = w PROVE FALSE
      BY <2>2 DEF w
    <3>2. req'[o] = [req[o] EXCEPT !.got = "empty"] /\ req[o] \in Pending
      BY <1>1, <1>7, <2>1, <3>1 DEF Orphaned, CameraTypeOK
    <3>3. req'[o].got = "empty"
      BY <3>2 DEF Pending
    <3>4. QED
      BY <1>7, <3>3
  <2>4. QED
    BY <1>1, <2>1, <2>2, <2>3 DEF CameraTypeOK
<1>8. QED
  BY <1>3, <1>4, <1>5, <1>6, <1>7 DEF WaitersMatch, k

\* An answer resolves at most the one future there is for its command, and only
\* what that caller has got changes.
Handling ==
  /\ toHost # <<>> /\ Head(toHost) \in Reply /\ toHost' = Tail(toHost) /\ Up
  /\ toHost' \in Seq(Reply) /\ Range(toHost) = Range(toHost') \cup {Head(toHost)}
  /\ UNCHANGED <<setup, auth, waiter, requested, reassert, cameraVars, toCamera, mode, right,
                 asked, faults>>
  /\ req' \in [Callers -> Pending \cup {None}]
  /\ \A c \in Callers :
       \/ req'[c] = req[c]
       \/ /\ req[c] # None /\ req'[c] # None /\ req[c].cmd = Head(toHost).cmd
          /\ req[c].got = "nothing" /\ req'[c].got = Head(toHost).got
          /\ req'[c].cmd = req[c].cmd /\ req'[c].id = req[c].id
          /\ req'[c].authed = req[c].authed
          /\ req[c].id # Head(toHost).id => crossed'
  /\ crossed' \in BOOLEAN /\ (crossed => crossed')
  /\ results' = [results EXCEPT ![Head(toHost).cmd] =
                   IF Head(toHost).got = "data" THEN "ok" ELSE "refused"]

\* handle_incoming_command_packet() does that.
LEMMA HandleEffect ==
  ASSUME CameraTypeOK, CallsMatch, HandleAnswer
  PROVE  Handling
<1> DEFINE m == Head(toHost)
           w == waiter[m.cmd]
           resolves == w # None /\ req[w].got = "nothing"
<1>1. toHost # <<>> /\ m \in Reply /\ toHost' \in Seq(Reply) /\ toHost' = Tail(toHost)
      /\ Range(toHost) = Range(toHost') \cup {m}
  BY TailEffect DEF CameraTypeOK, HandleAnswer
<1>2. /\ req' = IF resolves THEN [req EXCEPT ![w].got = m.got] ELSE req
      /\ crossed' = (crossed \/ (resolves /\ req[w].id # m.id))
      /\ results' = [results EXCEPT ![m.cmd] = IF m.got = "data" THEN "ok" ELSE "refused"]
      /\ Up
      /\ UNCHANGED <<setup, auth, waiter, requested, reassert, cameraVars, toCamera, mode, right,
                     asked, faults>>
  BY DEF HandleAnswer
<1>3. w \in Callers \cup {None} /\ (w # None => req[w] # None /\ req[w].cmd = m.cmd)
  BY <1>1 DEF CameraTypeOK, CallsMatch, WaitersMatch, Reply
<1> HIDE DEF m, w
<1>4. CASE ~resolves
  <2>1. req' = req /\ (crossed' <=> crossed) /\ crossed' \in BOOLEAN
    BY <1>2, <1>4 DEF CameraTypeOK
  <2>2. QED
    BY <1>1, <1>2, <2>1 DEF m, CameraTypeOK, Handling
<1>5. CASE resolves
  <2>1. w \in Callers /\ req[w] \in Pending /\ req[w].cmd = m.cmd /\ req[w].got = "nothing"
    BY <1>3, <1>5 DEF CameraTypeOK
  <2>2. /\ req' = [req EXCEPT ![w] = [req[w] EXCEPT !.got = m.got]]
        /\ crossed' \in BOOLEAN /\ (crossed => crossed') /\ (req[w].id # m.id => crossed')
    BY <1>2, <1>5, <2>1 DEF CameraTypeOK
  <2>3. [req[w] EXCEPT !.got = m.got] \in Pending
    BY <1>1, <2>1 DEF Pending, Reply
  <2>4. /\ req' \in [Callers -> Pending \cup {None}]
        /\ req'[w] = [req[w] EXCEPT !.got = m.got] /\ req'[w] # None /\ req[w] # None
        /\ \A c \in Callers \ {w} : req'[c] = req[c]
    BY <1>3, <2>1, <2>2, <2>3, NoneAssumption DEF CameraTypeOK
  <2>5. /\ req'[w].cmd = req[w].cmd /\ req'[w].id = req[w].id
        /\ req'[w].authed = req[w].authed /\ req'[w].got = m.got
    BY <2>1, <2>4 DEF Pending
  <2>6. QED
    BY <1>1, <1>2, <2>1, <2>2, <2>4, <2>5 DEF m, Handling
<1>6. QED
  BY <1>4, <1>5

----------------------------------------------------------------------------
\* AnyhowInv is inductive.

\* What is under way has a command and a number, or none.
LEMMA MessageIds ==
  ASSUME CameraTypeOK, NEW m \in Messages
  PROVE  m.cmd \in Commands /\ m.id \in Nat \cup {None}
<1>1. m \in Datagram \/ m \in Reply
  BY LenProperties DEF CameraTypeOK, Messages, Range
<1>2. QED
  BY <1>1 DEF Datagram, Reply

\* A new session, and a camera nobody is logged in at, satisfy the invariant.
LEMMA InitEstablishes == CameraInit => CameraInv
<1> SUFFICES ASSUME CameraInit PROVE CameraInv
  OBVIOUS
<1>1. /\ toCamera = <<>> /\ toHost = <<>> /\ asleep = <<>>
      /\ toCamera \in Seq(Datagram) /\ asleep \in Seq(Datagram) /\ toHost \in Seq(Reply)
  BY EmptySeq DEF CameraInit
<1>2. Range(toCamera) = {} /\ Range(toHost) = {} /\ Range(asleep) = {} /\ Messages = {}
  BY <1>1 DEF Range, Messages
<1>3. Len(toCamera) = 0 /\ Len(asleep) = 0 /\ Len(toHost) = 0
  BY <1>1
<1>4. CameraTypeOK
  <2>1. asked \in 0..MaxRequests /\ faults \in 0..MaxFaults
    BY CameraAssumption DEF CameraInit
  <2>2. /\ req \in [Callers -> Pending \cup {None}]
        /\ waiter \in [Commands -> Callers \cup {None}]
        /\ results \in [Commands -> {"ok", "refused", None}]
    BY DEF CameraInit
  <2>3. /\ auth \in BOOLEAN \cup {None} /\ ticket \in BOOLEAN /\ requested \in BOOLEAN
        /\ reassert \in BOOLEAN /\ loggedIn \in BOOLEAN /\ streaming \in BOOLEAN
        /\ crossed \in BOOLEAN
    BY Zenon DEF CameraInit
  <2>4. QED
    BY <1>1, <2>1, <2>2, <2>3 DEF CameraInit, CameraTypeOK
<1>5. CallsMatch /\ IdsAreGiven
  BY <1>2 DEF CameraInit, CallsMatch, WaitersMatch, IdsAreGiven, Callers
<1>6. LoginAgreed /\ AuthedIsServed /\ VideoAfterLogin /\ SleepersServe
  BY <1>2 DEF CameraInit, LoginAgreed, AuthedIsServed, VideoAfterLogin, SleepersServe, Callers
<1>7. OneEach
  BY <1>2, <1>3 DEF OneEach, Once, Sent
<1>8. NoSecondLogin /\ Explained
  BY <1>2 DEF CameraInit, NoSecondLogin, Explained
<1>9. RefusalsInOrder /\ SwitchesInOrder
  BY <1>3 DEF CameraInit, RefusalsInOrder, SwitchesInOrder, SwitchesTo
<1>10. QED
  BY <1>4, <1>5, <1>6, <1>7, <1>8, <1>9 DEF CameraInv, AnyhowInv, CalmInv

\* The three requests: login and status of setup_device, and that of a user.
Requests(c, k, id) ==
  /\ Request(c, k, id)
  /\ \/ /\ c = "setup" /\ k = "check" /\ id = 0 /\ setup = "connected"
        /\ auth' = auth /\ asked' = asked
     \/ /\ c = "setup" /\ k = "status" /\ id = 1 /\ setup = "check" /\ Answered("setup")
        /\ auth' = (req["setup"].got = "data") /\ asked' = asked
     \/ /\ c = "user" /\ k \in {"status", "scan"} /\ id = asked + 2 /\ req["user"] = None
        /\ auth' = auth /\ asked < MaxRequests /\ asked' = asked + 1 /\ Up /\ Settled
  /\ UNCHANGED <<ticket, results, requested, reassert, cameraVars, toHost, mode, right, faults,
                 crossed>>

\* A request keeps what holds whatever the network does.
LEMMA RequestsKeep ==
  ASSUME AnyhowInv, NEW c \in Callers, NEW k \in Commands, NEW id \in Nat, Requests(c, k, id)
  PROVE  AnyhowInv'
<1> USE DEF AnyhowInv
<1> DEFINE msg == [cmd |-> k, id |-> id]
<1>0. Requesting(c, k, id)
  BY RequestEffect DEF Requests, CallsMatch
<1>1. /\ toCamera' = Append(toCamera, msg) /\ msg \in Datagram
      /\ req' \in [Callers -> Pending \cup {None}]
      /\ req'[c] # None /\ req'[c].cmd = k /\ req'[c].id = id
      /\ req'[c].got \in {"nothing", "empty"}
      /\ req'[c].got = "empty" => \E o \in Callers \ {c} : req[o] # None /\ req[o].cmd = k
      /\ req'[c].authed <=> auth = TRUE
      /\ \A o \in Callers \ {c} :
           \/ req'[o] = req[o]
           \/ req'[o] = None /\ req[o] # None /\ req[o].cmd = k /\ req[o].got = "nothing"
      /\ c = "setup" => setup' = k
      /\ c = "user" => \/ setup' = setup /\ req'["setup"] = req["setup"]
                       \/ setup' = "cut" /\ req'["setup"] = None
      /\ waiter' \in [Commands -> Callers \cup {None}]
      /\ WaitersMatch'
  BY <1>0 DEF Requesting, msg
<1>2. toCamera' \in Seq(Datagram) /\ Range(toCamera') = Range(toCamera) \cup {msg}
  BY <1>1, AppendEffect DEF CameraTypeOK
<1>3. /\ UNCHANGED <<ticket, results, requested, reassert, loggedIn, asleep, streaming, toHost,
                     mode, right, faults, crossed>>
      /\ \/ /\ c = "setup" /\ k = "check" /\ id = 0 /\ setup = "connected"
            /\ auth' = auth /\ asked' = asked
         \/ /\ c = "setup" /\ k = "status" /\ id = 1 /\ setup = "check"
            /\ req["setup"].got # "nothing"
            /\ auth' = (req["setup"].got = "data") /\ asked' = asked
         \/ /\ c = "user" /\ k \in {"status", "scan"} /\ id = asked + 2 /\ req["user"] = None
            /\ auth' = auth /\ asked < MaxRequests /\ asked' = asked + 1 /\ Up
  BY DEF Requests, cameraVars, Answered
<1>4. "setup" \in Callers /\ "user" \in Callers /\ (c = "setup" \/ c = "user")
  BY DEF Callers
<1>5. /\ req'[c].cmd = k /\ req'[c].id = id /\ req'[c].got \in {"nothing", "empty"}
      /\ req'[c].authed <=> auth = TRUE
  BY <1>1
<1>6. msg.cmd = k /\ msg.id = id
  OBVIOUS
<1> HIDE DEF msg
<1>7. auth' \in BOOLEAN \cup {None} /\ asked' \in 0..MaxRequests
  <2>1. asked' \in 0..MaxRequests
    BY <1>3, CameraAssumption DEF CameraTypeOK
  <2>2. auth' = auth \/ auth' = TRUE \/ auth' = FALSE
    BY <1>3, Zenon
  <2>3. QED
    BY <2>1, <2>2 DEF CameraTypeOK
<1>8. setup' \in {"connected", "check", "status", "ready", "failed", "cut"}
  BY <1>1, <1>3, <1>4 DEF CameraTypeOK
<1>9. CameraTypeOK'
  BY <1>1, <1>2, <1>3, <1>7, <1>8 DEF CameraTypeOK
<1>10. CallsMatch'
  <2>1. CASE c = "setup"
    <3>1. req'["user"] = req["user"] \/ req'["user"] = None
      BY <1>1, <1>4, <2>1
    <3>2. k = "status" => auth' # None
      BY <1>3, <2>1, NoneAssumption
    <3>3. QED
      BY <1>1, <1>3, <1>4, <1>5, <2>1, <3>1, <3>2 DEF CallsMatch, WaitersMatch
  <2>2. CASE c = "user"
    BY <1>1, <1>3, <1>4, <1>5, <2>2 DEF CallsMatch, WaitersMatch
  <2>3. QED
    BY <1>4, <2>1, <2>2
<1>11. Messages' = Messages \cup {msg}
  BY <1>2, <1>3 DEF Messages
<1>12. IdsAreGiven'
  <2>1. id <= asked' + 1 /\ asked <= asked' /\ asked \in Nat /\ asked' \in Nat
    BY <1>3, <1>7, CameraAssumption DEF CameraTypeOK
  <2>2. \A m \in Messages' : m.id # None => m.id <= asked' + 1
    <3> SUFFICES ASSUME NEW m \in Messages, m.id # None PROVE m.id <= asked' + 1
      BY <1>6, <1>11, <2>1
    <3>1. m.id <= asked + 1
      BY DEF IdsAreGiven
    <3>2. m.id \in Nat
      BY MessageIds
    <3>3. QED
      BY <2>1, <3>1, <3>2
  <2>3. \A o \in Callers : req'[o] # None => req'[o].id <= asked' + 1
    <3> SUFFICES ASSUME NEW o \in Callers \ {c}, req[o] # None, req'[o] = req[o]
                 PROVE  req[o].id <= asked' + 1
      BY <1>1, <1>5, <2>1
    <3>1. req[o].id <= asked + 1 /\ req[o].id \in Nat
      BY DEF IdsAreGiven, CameraTypeOK, Pending
    <3>2. QED
      BY <2>1, <3>1
  <2>4. QED
    BY <2>2, <2>3 DEF IdsAreGiven
<1>13. LoginAgreed'
  <2>1. auth' # None => (auth' <=> right) /\ (loggedIn <=> right)
    <3>1. CASE auth' = auth
      BY <3>1 DEF LoginAgreed
    <3>2. CASE /\ setup = "check" /\ auth' = (req["setup"].got = "data")
               /\ req["setup"].got # "nothing"
      <4>1. req["setup"] # None /\ req["setup"].cmd = "check"
        BY <3>2 DEF CallsMatch, WaitersMatch
      <4>2. (loggedIn <=> right) /\ (req["setup"].got = "data" <=> right)
        BY <3>2, <4>1 DEF LoginAgreed
      <4>3. QED
        BY <3>2, <4>2
    <3>3. QED
      BY <1>3, <3>1, <3>2
  <2>2. req'["setup"] # None /\ req'["setup"].cmd = "check" /\ req'["setup"].got # "nothing"
          => req'["setup"] = req["setup"]
    <3>1. CASE c = "setup" /\ k = "check"
      <4>1. \A o \in Callers \ {c} : req[o] # None => req[o].cmd # k
        BY <3>1 DEF CallsMatch, Callers
      <4>2. QED
        BY <1>1, <3>1, <4>1
    <3>2. QED
      BY <1>1, <1>4, <1>5, <3>1
  <2>3. QED
    BY <1>3, <2>1, <2>2 DEF LoginAgreed
<1>14. AuthedIsServed'
  <2> SUFFICES ASSUME req'["user"] # None, req'["user"].authed
               PROVE  /\ loggedIn
                      /\ \A m \in Range(toHost) : m.id = req'["user"].id => m.got = "data"
                      /\ req'["user"].got = "refusal" => crossed
    BY <1>3 DEF AuthedIsServed
  <2>1. CASE c = "setup"
    BY <1>1, <1>4, <2>1 DEF AuthedIsServed
  <2>2. CASE c = "user"
    <3>1. auth = TRUE /\ loggedIn
      BY <1>5, <2>2, NoneAssumption DEF LoginAgreed
    <3>2. ASSUME NEW m \in Range(toHost), m.id = id
          PROVE  FALSE
      <4>1. m \in Messages /\ id = asked + 2 /\ asked \in Nat
        BY <1>3, <2>2, CameraAssumption DEF Messages, CameraTypeOK
      <4>2. id # None
        BY NoneAssumption
      <4>3. m.id <= asked + 1
        BY <3>2, <4>1, <4>2 DEF IdsAreGiven
      <4>4. QED
        BY <3>2, <4>1, <4>3
    <3>3. QED
      BY <1>5, <2>2, <3>1, <3>2
  <2>3. QED
    BY <1>4, <2>1, <2>2
<1>15. VideoAfterLogin'
  <2>1. auth' = None => auth = None
    BY <1>3 DEF CallsMatch, WaitersMatch
  <2>2. k \in {"check", "status", "scan"}
    BY <1>3
  <2>3. QED
    BY <1>2, <1>3, <1>6, <2>1, <2>2 DEF VideoAfterLogin
<1>16. SleepersServe'
  BY <1>3 DEF SleepersServe, Refuses
<1>17. QED
  BY <1>9, <1>10, <1>12, <1>13, <1>14, <1>15, <1>16

\* A wait that ends, answered or not, takes only its own request away.
Ends(c) ==
  /\ req[c] # None /\ Finish(c)
  /\ \/ c = "setup" /\ setup = "status" /\ setup' = "ready"
     \/ c = "setup" /\ setup' = "failed"
     \/ c = "user" /\ setup' = setup
  /\ faults' \in 0..MaxFaults /\ (faults' = 0 => faults = 0)
  /\ Answered(c) \/ ~UnderWay(c) \/ faults' # 0
  /\ UNCHANGED <<auth, ticket, results, requested, reassert, cameraVars, netVars, mode, right,
                 asked, crossed>>

\* The end of a wait keeps it: who loses a future by it comes back empty.
LEMMA EndKeeps ==
  ASSUME AnyhowInv, NEW c \in Callers, Ends(c)
  PROVE  AnyhowInv'
<1> USE DEF AnyhowInv
<1>1. /\ req' \in [Callers -> Pending \cup {None}] /\ req'[c] = None
      /\ \A o \in Callers \ {c} : LeftOr(o, req[c].cmd)
      /\ waiter' \in [Commands -> Callers \cup {None}]
      /\ WaitersMatch'
  BY EndEffect DEF Ends
<1>2. /\ UNCHANGED <<auth, ticket, results, requested, reassert, loggedIn, asleep, streaming,
                     toCamera, toHost, mode, right, asked, crossed>>
      /\ \/ c = "setup" /\ setup = "status" /\ setup' = "ready"
         \/ c = "setup" /\ setup' = "failed"
         \/ c = "user" /\ setup' = setup
      /\ faults' \in 0..MaxFaults /\ req[c] # None
  BY DEF Ends, cameraVars, netVars
<1>3. \A o \in Callers : req'[o] # None =>
        /\ o # c /\ req[o] # None /\ req'[o].cmd = req[o].cmd /\ req'[o].id = req[o].id
        /\ req'[o].authed = req[o].authed
        /\ req'[o].got # req[o].got => req'[o].got = "empty" /\ req[o].cmd = req[c].cmd
  BY <1>1 DEF LeftOr
<1>4. "setup" \in Callers /\ "user" \in Callers /\ \A o \in Callers : o = "setup" \/ o = "user"
  BY DEF Callers
<1>5. CameraTypeOK'
  BY <1>1, <1>2 DEF CameraTypeOK
<1>6. CallsMatch'
  <2>1. \A o \in Callers \ {c} : req'[o] # None <=> req[o] # None
    BY <1>1 DEF LeftOr
  <2>2. QED
    BY <1>1, <1>2, <1>3, <1>4, <2>1 DEF CallsMatch
<1>7. IdsAreGiven'
  BY <1>2, <1>3 DEF IdsAreGiven, Messages
<1>8. LoginAgreed' /\ AuthedIsServed'
  <2>1. req'["setup"] # None /\ req'["setup"].cmd = "check" => req'["setup"].got = req["setup"].got
    BY <1>2, <1>3, <1>4 DEF CallsMatch
  <2>2. LoginAgreed'
    BY <1>2, <1>3, <1>4, <2>1 DEF LoginAgreed
  <2>3. AuthedIsServed'
    BY <1>2, <1>3, <1>4 DEF AuthedIsServed
  <2>4. QED
    BY <2>2, <2>3
<1>9. VideoAfterLogin' /\ SleepersServe'
  BY <1>2 DEF VideoAfterLogin, SleepersServe, Refuses
<1>10. QED
  BY <1>5, <1>6, <1>7, <1>8, <1>9

\* An answer gives a caller what the camera said.
LEMMA HandleKeeps ==
  ASSUME AnyhowInv, HandleAnswer
  PROVE  AnyhowInv'
<1> USE DEF AnyhowInv
<1> DEFINE m == Head(toHost)
<1>1. Handling
  BY HandleEffect
<1>2. /\ m \in Reply /\ m \in Range(toHost) /\ toHost' \in Seq(Reply)
      /\ Range(toHost') \subseteq Range(toHost)
      /\ UNCHANGED <<setup, auth, waiter, requested, reassert, loggedIn, asleep, streaming,
                     toCamera, mode, right, asked, faults>>
      /\ req' \in [Callers -> Pending \cup {None}]
      /\ crossed' \in BOOLEAN /\ (crossed => crossed')
      /\ results' = [results EXCEPT ![m.cmd] = IF m.got = "data" THEN "ok" ELSE "refused"]
  BY <1>1 DEF Handling, cameraVars
<1>3. \A c \in Callers :
        \/ req'[c] = req[c]
        \/ /\ req[c] # None /\ req'[c] # None /\ req[c].cmd = m.cmd /\ req[c].got = "nothing"
           /\ req'[c].cmd = req[c].cmd /\ req'[c].id = req[c].id
           /\ req'[c].authed = req[c].authed /\ req'[c].got = m.got
           /\ req[c].id # m.id => crossed'
  BY <1>1 DEF Handling
<1> HIDE DEF m
<1>4. "setup" \in Callers /\ "user" \in Callers
  BY DEF Callers
<1>5. \A c \in Callers : /\ req'[c] # None <=> req[c] # None
                         /\ req'[c] # None => req'[c].cmd = req[c].cmd /\ req'[c].id = req[c].id
  BY <1>3
<1>6. CameraTypeOK'
  <2>1. ticket' \in BOOLEAN
    BY DEF HandleAnswer, CameraTypeOK
  <2>2. results' \in [Commands -> {"ok", "refused", None}]
    BY <1>2 DEF CameraTypeOK, Reply
  <2>3. QED
    BY <1>2, <2>1, <2>2 DEF CameraTypeOK
<1>7. CallsMatch'
  <2>1. \A c \in Callers : req'[c] # None /\ req'[c].got = "nothing" => req'[c] = req[c]
    BY <1>2, <1>3 DEF Reply
  <2>2. WaitersMatch'
    BY <1>2, <1>5, <2>1 DEF CallsMatch, WaitersMatch, CameraTypeOK
  <2>3. QED
    BY <1>2, <1>4, <1>5, <2>2 DEF CallsMatch
<1>8. IdsAreGiven'
  BY <1>2, <1>5 DEF IdsAreGiven, Messages
<1>9. LoginAgreed'
  <2>1. ASSUME req'["setup"] # None, req'["setup"].cmd = "check", req'["setup"].got # "nothing"
        PROVE  (loggedIn <=> right) /\ (req'["setup"].got = "data" <=> right)
    <3>1. CASE req'["setup"] = req["setup"]
      BY <2>1, <3>1 DEF LoginAgreed
    <3>2. CASE req'["setup"].cmd = m.cmd /\ req'["setup"].got = m.got
      BY <1>2, <2>1, <3>2 DEF LoginAgreed
    <3>3. QED
      BY <1>3, <1>4, <3>1, <3>2
  <2>2. QED
    BY <1>2, <2>1 DEF LoginAgreed
<1>10. AuthedIsServed'
  <2> SUFFICES ASSUME req'["user"] # None, req'["user"].authed
               PROVE  /\ loggedIn
                      /\ \A n \in Range(toHost') : n.id = req'["user"].id => n.got = "data"
                      /\ req'["user"].got = "refusal" => crossed'
    BY <1>2 DEF AuthedIsServed
  <2>1. /\ req["user"] # None /\ req["user"].authed /\ loggedIn
        /\ \A n \in Range(toHost) : n.id = req["user"].id => n.got = "data"
        /\ req["user"].got = "refusal" => crossed
    BY <1>3, <1>4 DEF AuthedIsServed
  <2>2. req'["user"].got = "refusal" => crossed'
    BY <1>2, <1>3, <1>4, <2>1
  <2>3. QED
    BY <1>2, <1>4, <1>5, <2>1, <2>2
<1>11. VideoAfterLogin' /\ SleepersServe'
  BY <1>2 DEF VideoAfterLogin, SleepersServe, Refuses
<1>12. QED
  BY <1>6, <1>7, <1>8, <1>9, <1>10, <1>11

\* Video goes out only after the login, and means nothing to any caller.
VideoStep == StartVideo \/ Rerequest \/ StopVideo \/ Reassert

\* What goes out: the parameters, a start after them, or a stop.
LEMMA VideoEffect ==
  ASSUME AnyhowInv, VideoStep
  PROVE  /\ UNCHANGED <<setup, auth, ticket, req, waiter, results, loggedIn, asleep, streaming,
                        toHost, mode, right, asked, faults, crossed>>
         /\ Settled /\ Up /\ requested' \in BOOLEAN /\ reassert' \in BOOLEAN
         /\ Plain("param") \in Datagram /\ Plain("start") \in Datagram /\ Plain("stop") \in Datagram
         /\ \/ requested' = requested /\ toCamera' = toCamera
            \/ /\ auth # None
               /\ \/ /\ requested' = TRUE
                     /\ toCamera' = Append(Append(toCamera, Plain("param")), Plain("start"))
                  \/ requested' = FALSE /\ toCamera' = Append(toCamera, Plain("stop"))
                  \/ requested' = requested /\ toCamera' = Append(toCamera, Plain("param"))
<1> USE DEF AnyhowInv
<1>1. Plain("param") \in Datagram /\ Plain("start") \in Datagram /\ Plain("stop") \in Datagram
  BY DEF Plain, Datagram, Commands
<1>2. requested => auth # None
  BY DEF VideoAfterLogin
<1>3. /\ toCamera \o <<Plain("param"), Plain("start")>>
           = Append(Append(toCamera, Plain("param")), Plain("start"))
      /\ toCamera \o <<Plain("param")>> = Append(toCamera, Plain("param"))
      /\ toCamera \o <<Plain("stop")>> = Append(toCamera, Plain("stop"))
  BY <1>1, ConcatIsAppend DEF CameraTypeOK
<1> HIDE DEF Plain
<1>4. CASE StartVideo
  <2>1. auth # None
    BY <1>4 DEF StartVideo, CallsMatch, WaitersMatch
  <2>2. QED
    BY <1>1, <1>3, <1>4, <2>1 DEF StartVideo, RequestVideo, Send, cameraVars, Up
<1>5. CASE Rerequest
  <2>1. requested' = TRUE /\ requested' = requested
    BY <1>5 DEF Rerequest, CameraTypeOK
  <2>2. QED
    BY <1>1, <1>2, <1>3, <1>5, <2>1 DEF Rerequest, RequestVideo, Send, cameraVars
<1>6. CASE StopVideo
  BY <1>1, <1>2, <1>3, <1>6 DEF StopVideo, Send, cameraVars, CameraTypeOK
<1>7. CASE Reassert
  BY <1>1, <1>2, <1>3, <1>7 DEF Reassert, Send, cameraVars, CameraTypeOK
<1>8. QED
  BY <1>4, <1>5, <1>6, <1>7 DEF VideoStep

\* Starting, asking again and stopping keep it: the login has returned.
LEMMA VideoKeeps ==
  ASSUME AnyhowInv, VideoStep
  PROVE  AnyhowInv'
<1> USE DEF AnyhowInv
<1>1. /\ UNCHANGED <<setup, auth, ticket, req, waiter, results, loggedIn, asleep, streaming, toHost,
                     mode, right, asked, faults, crossed>>
      /\ requested' \in BOOLEAN /\ reassert' \in BOOLEAN
      /\ Plain("param") \in Datagram /\ Plain("start") \in Datagram /\ Plain("stop") \in Datagram
      /\ auth = None => requested' = requested /\ toCamera' = toCamera
      /\ \/ toCamera' = toCamera
         \/ toCamera' = Append(Append(toCamera, Plain("param")), Plain("start"))
         \/ toCamera' = Append(toCamera, Plain("stop"))
         \/ toCamera' = Append(toCamera, Plain("param"))
  BY VideoEffect
<1>2. /\ toCamera' \in Seq(Datagram)
      /\ Range(toCamera') \subseteq
           Range(toCamera) \cup {Plain("param"), Plain("start"), Plain("stop")}
  <2> DEFINE p == Append(toCamera, Plain("param"))
  <2>1. p \in Seq(Datagram) /\ Range(p) = Range(toCamera) \cup {Plain("param")}
    BY <1>1, AppendEffect DEF CameraTypeOK
  <2>2. /\ Append(p, Plain("start")) \in Seq(Datagram)
        /\ Range(Append(p, Plain("start"))) = Range(p) \cup {Plain("start")}
    <3> HIDE DEF p
    <3>1. QED
      BY <1>1, <2>1, AppendEffect
  <2>3. /\ Append(toCamera, Plain("stop")) \in Seq(Datagram)
        /\ Range(Append(toCamera, Plain("stop"))) = Range(toCamera) \cup {Plain("stop")}
    BY <1>1, AppendEffect DEF CameraTypeOK
  <2>4. QED
    BY <1>1, <2>1, <2>2, <2>3 DEF CameraTypeOK
<1>3. CameraTypeOK'
  BY <1>1, <1>2 DEF CameraTypeOK
<1>4. IdsAreGiven'
  <2>1. \A m \in Messages' : m \in Messages \/ m.id = None
    BY <1>1, <1>2 DEF Messages, Plain
  <2>2. QED
    BY <1>1, <2>1 DEF IdsAreGiven
<1>5. VideoAfterLogin'
  BY <1>1 DEF VideoAfterLogin
<1>6. CallsMatch' /\ LoginAgreed' /\ AuthedIsServed' /\ SleepersServe'
  BY <1>1 DEF CallsMatch, WaitersMatch, LoginAgreed, AuthedIsServed, SleepersServe, Refuses
<1>7. QED
  BY <1>3, <1>4, <1>5, <1>6

\* The camera takes a command: a slow one sleeps, another is refused or served.
Processing ==
  LET m == Head(toCamera)
  IN /\ toCamera # <<>> /\ m \in Datagram /\ Settled
     /\ toCamera' = Tail(toCamera) /\ toCamera' \in Seq(Datagram)
     /\ Range(toCamera) = Range(toCamera') \cup {m}
     /\ UNCHANGED <<hostVars, loggedIn, mode, right, asked, faults, crossed>>
     /\ \/ /\ m.cmd = "check" \/ (m.cmd = "status" /\ ~Refuses("status"))
           /\ asleep' = Append(asleep, m)
           /\ UNCHANGED <<toHost, streaming>>
        \/ /\ m.cmd # "check" /\ Refuses(m.cmd)
           /\ toHost' = Append(toHost, [cmd |-> m.cmd, id |-> m.id, got |-> "refusal"])
           /\ UNCHANGED <<asleep, streaming>>
        \/ /\ m.cmd \notin {"check", "status"} /\ ~Refuses(m.cmd)
           /\ toHost' = Append(toHost, [cmd |-> m.cmd, id |-> m.id, got |-> "data"])
           /\ streaming' = (m.cmd = "start" \/ (streaming /\ m.cmd # "stop"))
           /\ UNCHANGED asleep

\* process_command() does that.
LEMMA ProcessEffect ==
  ASSUME CameraTypeOK, ProcessDrw
  PROVE  Processing
<1>1. /\ toCamera # <<>> /\ Head(toCamera) \in Datagram
      /\ toCamera' = Tail(toCamera) /\ toCamera' \in Seq(Datagram)
      /\ Range(toCamera) = Range(toCamera') \cup {Head(toCamera)}
  BY TailEffect DEF CameraTypeOK, ProcessDrw
<1>2. /\ UNCHANGED <<hostVars, loggedIn, mode, right, asked, faults, crossed>>
      /\ Settled
  BY DEF ProcessDrw
<1> DEFINE m == Head(toCamera)
<1>3. IF m.cmd = "check" \/ (m.cmd = "status" /\ ~Refuses("status"))
      THEN asleep' = Append(asleep, m) /\ UNCHANGED <<toHost, streaming>>
      ELSE /\ UNCHANGED asleep
           /\ IF Refuses(m.cmd) THEN Answer(m, "refusal") /\ UNCHANGED streaming
              ELSE Answer(m, "data") /\ Switches(m.cmd)
  BY DEF ProcessDrw
<1> HIDE DEF m
<1>4. \/ /\ m.cmd = "check" \/ (m.cmd = "status" /\ ~Refuses("status"))
         /\ asleep' = Append(asleep, m)
         /\ UNCHANGED <<toHost, streaming>>
      \/ /\ m.cmd # "check" /\ Refuses(m.cmd)
         /\ toHost' = Append(toHost, [cmd |-> m.cmd, id |-> m.id, got |-> "refusal"])
         /\ UNCHANGED <<asleep, streaming>>
      \/ /\ m.cmd \notin {"check", "status"} /\ ~Refuses(m.cmd)
         /\ toHost' = Append(toHost, [cmd |-> m.cmd, id |-> m.id, got |-> "data"])
         /\ streaming' = (m.cmd = "start" \/ (streaming /\ m.cmd # "stop"))
         /\ UNCHANGED asleep
  BY <1>3 DEF Answer, Switches
<1>5. QED
  BY <1>1, <1>2, <1>4 DEF Processing, m

\* What the camera answers at once is no login.
LEMMA ProcessKeeps ==
  ASSUME AnyhowInv, ProcessDrw
  PROVE  AnyhowInv'
<1> USE DEF AnyhowInv
<1> DEFINE m == Head(toCamera)
           Says(got) == [cmd |-> m.cmd, id |-> m.id, got |-> got]
<1>1. Processing
  BY ProcessEffect
<1>2. /\ m \in Datagram /\ toCamera' \in Seq(Datagram) /\ Range(toCamera') \subseteq Range(toCamera)
      /\ m \in Range(toCamera) /\ m \in Messages
      /\ UNCHANGED <<setup, auth, ticket, req, waiter, results, requested, reassert, loggedIn, mode,
                     right, asked, faults, crossed>>
  BY <1>1 DEF Processing, hostVars, Messages
<1>3. \/ /\ m.cmd = "check" \/ (m.cmd = "status" /\ ~Refuses("status"))
         /\ asleep' = Append(asleep, m)
         /\ UNCHANGED <<toHost, streaming>>
      \/ /\ m.cmd # "check" /\ Refuses(m.cmd)
         /\ toHost' = Append(toHost, Says("refusal"))
         /\ UNCHANGED <<asleep, streaming>>
      \/ /\ m.cmd \notin {"check", "status"} /\ ~Refuses(m.cmd)
         /\ toHost' = Append(toHost, Says("data"))
         /\ streaming' = (m.cmd = "start" \/ (streaming /\ m.cmd # "stop"))
         /\ UNCHANGED asleep
  BY <1>1 DEF Processing
<1> HIDE DEF m
<1>4. /\ Says("data") \in Reply /\ Says("refusal") \in Reply
      /\ m.cmd \in Commands /\ m.id \in Nat \cup {None}
  BY <1>2 DEF Reply, Datagram
<1>5. \A got : Says(got).cmd = m.cmd /\ Says(got).id = m.id /\ Says(got).got = got
  OBVIOUS
<1> HIDE DEF Says
<1>6. \/ /\ m.cmd = "check" \/ (m.cmd = "status" /\ ~Refuses("status"))
         /\ asleep' \in Seq(Datagram) /\ Range(asleep') = Range(asleep) \cup {m}
         /\ UNCHANGED <<toHost, streaming>>
      \/ /\ m.cmd # "check" /\ Refuses(m.cmd)
         /\ toHost' \in Seq(Reply) /\ Range(toHost') = Range(toHost) \cup {Says("refusal")}
         /\ UNCHANGED <<asleep, streaming>>
      \/ /\ m.cmd # "check"
         /\ toHost' \in Seq(Reply) /\ Range(toHost') = Range(toHost) \cup {Says("data")}
         /\ streaming' = (m.cmd = "start" \/ (streaming /\ m.cmd # "stop"))
         /\ UNCHANGED asleep
  <2>1. /\ Append(asleep, m) \in Seq(Datagram) /\ Range(Append(asleep, m)) = Range(asleep) \cup {m}
        /\ \A r \in Reply : /\ Append(toHost, r) \in Seq(Reply)
                            /\ Range(Append(toHost, r)) = Range(toHost) \cup {r}
    BY <1>2, AppendEffect DEF CameraTypeOK
  <2>2. QED
    BY <1>3, <1>4, <2>1
<1>7. CameraTypeOK'
  <2>1. streaming' \in BOOLEAN
    BY <1>6 DEF CameraTypeOK
  <2>2. QED
    BY <1>2, <1>6, <2>1 DEF CameraTypeOK
<1>8. CallsMatch'
  BY <1>2 DEF CallsMatch, WaitersMatch
<1>9. IdsAreGiven'
  <2>1. \A n \in Messages' : n \in Messages \/ n.id = m.id
    BY <1>2, <1>5, <1>6 DEF Messages
  <2>2. QED
    BY <1>2, <2>1 DEF IdsAreGiven
<1>10. LoginAgreed'
  <2>1. \A n \in Range(toHost') : n.cmd = "check" => n \in Range(toHost)
    BY <1>5, <1>6
  <2>2. QED
    BY <1>2, <2>1 DEF LoginAgreed
<1>11. AuthedIsServed'
  <2>1. loggedIn => \A n \in Range(toHost') : n \in Range(toHost) \/ n.got = "data"
    BY <1>5, <1>6 DEF Refuses
  <2>2. QED
    BY <1>2, <2>1 DEF AuthedIsServed
<1>12. VideoAfterLogin'
  <2>1. auth = None => m.cmd \in {"check", "status", "scan"}
    BY <1>2 DEF VideoAfterLogin
  <2>2. auth = None => ~streaming'
    BY <1>6, <2>1 DEF VideoAfterLogin
  <2>3. QED
    BY <1>2, <2>2 DEF VideoAfterLogin
<1>13. SleepersServe'
  BY <1>2, <1>6 DEF SleepersServe, Refuses
<1>14. QED
  BY <1>7, <1>8, <1>9, <1>10, <1>11, <1>12, <1>13

\* The oldest task of the camera that sleeps wakes and answers; a login is decided.
Waking ==
  LET m == Head(asleep)
      got == IF m.cmd = "check" /\ ~right THEN "refusal" ELSE "data"
      reply == [cmd |-> m.cmd, id |-> m.id, got |-> got]
  IN /\ asleep # <<>> /\ m \in Datagram /\ Settled
     /\ asleep' = Tail(asleep) /\ asleep' \in Seq(Datagram)
     /\ Range(asleep) = Range(asleep') \cup {m}
     /\ reply \in Reply /\ toHost' = Append(toHost, reply)
     /\ toHost' \in Seq(Reply) /\ Range(toHost') = Range(toHost) \cup {reply}
     /\ loggedIn' = (IF m.cmd = "check" THEN right ELSE loggedIn)
     /\ UNCHANGED <<hostVars, streaming, toCamera, mode, right, asked, faults, crossed>>

\* The task that slept does that.
LEMMA WakesEffect ==
  ASSUME CameraTypeOK, ProcessWakes
  PROVE  Waking
<1> DEFINE m == Head(asleep)
           got == IF m.cmd = "check" /\ ~right THEN "refusal" ELSE "data"
           reply == [cmd |-> m.cmd, id |-> m.id, got |-> got]
<1>1. /\ asleep # <<>> /\ m \in Datagram /\ asleep' = Tail(asleep) /\ asleep' \in Seq(Datagram)
      /\ Range(asleep) = Range(asleep') \cup {m}
  BY TailEffect DEF CameraTypeOK, ProcessWakes
<1>2. /\ toHost' = Append(toHost, reply)
      /\ loggedIn' = (IF m.cmd = "check" THEN right ELSE loggedIn)
      /\ UNCHANGED <<hostVars, streaming, toCamera, mode, right, asked, faults, crossed>>
      /\ Settled
  BY DEF ProcessWakes, Answer, LogsIn
<1> HIDE DEF m
<1>3. reply \in Reply
  BY <1>1 DEF Reply, Datagram
<1> HIDE DEF reply
<1>4. toHost' \in Seq(Reply) /\ Range(toHost') = Range(toHost) \cup {reply}
  BY <1>2, <1>3, AppendEffect DEF CameraTypeOK
<1>5. QED
  BY <1>1, <1>2, <1>3, <1>4 DEF Waking, m, reply

\* The answer to a login says what the camera decides with it.
LEMMA WakesKeeps ==
  ASSUME AnyhowInv, ProcessWakes
  PROVE  AnyhowInv'
<1> USE DEF AnyhowInv
<1> DEFINE m == Head(asleep)
           got == IF m.cmd = "check" /\ ~right THEN "refusal" ELSE "data"
           reply == [cmd |-> m.cmd, id |-> m.id, got |-> got]
<1>1. Waking
  BY WakesEffect
<1>2. /\ m \in Datagram /\ m \in Range(asleep) /\ m \in Messages
      /\ asleep' \in Seq(Datagram) /\ Range(asleep') \subseteq Range(asleep)
      /\ toHost' \in Seq(Reply) /\ Range(toHost') = Range(toHost) \cup {reply}
      /\ loggedIn' = (IF m.cmd = "check" THEN right ELSE loggedIn)
      /\ UNCHANGED <<setup, auth, ticket, req, waiter, results, requested, reassert, streaming,
                     toCamera, mode, right, asked, faults, crossed>>
  BY <1>1 DEF Waking, hostVars, Messages
<1> HIDE DEF m
<1>3. /\ reply.cmd = m.cmd /\ reply.id = m.id
      /\ reply.got = IF m.cmd = "check" /\ ~right THEN "refusal" ELSE "data"
  OBVIOUS
<1> HIDE DEF reply
<1>4. right \in BOOLEAN /\ loggedIn \in BOOLEAN
  BY DEF CameraTypeOK
<1>5. /\ loggedIn => right
      /\ loggedIn => loggedIn'
      /\ loggedIn' => right
      /\ (loggedIn <=> right) => (loggedIn' <=> right)
      /\ m.cmd = "check" => (loggedIn' <=> right)
      /\ loggedIn' \in BOOLEAN
  BY <1>2, <1>4 DEF LoginAgreed
<1>6. CameraTypeOK'
  BY <1>2, <1>5 DEF CameraTypeOK
<1>7. CallsMatch'
  BY <1>2 DEF CallsMatch, WaitersMatch
<1>8. IdsAreGiven'
  <2>1. \A n \in Messages' : n \in Messages \/ n.id = m.id
    BY <1>2, <1>3 DEF Messages
  <2>2. QED
    BY <1>2, <2>1 DEF IdsAreGiven
<1>9. LoginAgreed'
  <2>1. \A n \in Range(toHost') :
          n.cmd = "check" => (loggedIn' <=> right) /\ (n.got = "data" <=> right)
    BY <1>2, <1>3, <1>5 DEF LoginAgreed
  <2>2. auth # None => (auth <=> right) /\ (loggedIn' <=> right)
    BY <1>5 DEF LoginAgreed
  <2>3. req["setup"] # None /\ req["setup"].cmd = "check" /\ req["setup"].got # "nothing"
          => (loggedIn' <=> right) /\ (req["setup"].got = "data" <=> right)
    BY <1>5 DEF LoginAgreed
  <2>4. QED
    BY <1>2, <1>5, <2>1, <2>2, <2>3 DEF LoginAgreed
<1>10. AuthedIsServed'
  BY <1>2, <1>3, <1>5 DEF AuthedIsServed
<1>11. VideoAfterLogin'
  BY <1>2 DEF VideoAfterLogin
<1>12. SleepersServe'
  BY <1>2, <1>5 DEF SleepersServe, Refuses
<1>13. QED
  BY <1>6, <1>7, <1>8, <1>9, <1>10, <1>11, <1>12

\* The network only loses, repeats and reorders.
LEMMA FaultKeeps ==
  ASSUME AnyhowInv, Fault
  PROVE  AnyhowInv'
<1> USE DEF AnyhowInv
<1>1. /\ UNCHANGED <<setup, auth, ticket, req, waiter, results, requested, reassert, loggedIn,
                     asleep, streaming, mode, right, asked, crossed>>
      /\ \/ toCamera' \in Disturbed(toCamera) /\ UNCHANGED toHost
         \/ toHost' \in Disturbed(toHost) /\ UNCHANGED toCamera
  BY DEF Fault, hostVars, cameraVars
<1>2. faults' \in 0..MaxFaults
  BY CameraAssumption DEF Fault, CameraTypeOK
<1>3. /\ toCamera' \in Seq(Datagram) /\ Range(toCamera') \subseteq Range(toCamera)
      /\ toHost' \in Seq(Reply) /\ Range(toHost') \subseteq Range(toHost)
  BY <1>1, DisturbedEffect DEF CameraTypeOK
<1>4. CameraTypeOK'
  BY <1>1, <1>2, <1>3 DEF CameraTypeOK
<1>5. CallsMatch' /\ IdsAreGiven'
  BY <1>1, <1>3 DEF CallsMatch, WaitersMatch, IdsAreGiven, Messages
<1>6. LoginAgreed' /\ AuthedIsServed'
  BY <1>1, <1>3 DEF LoginAgreed, AuthedIsServed
<1>7. VideoAfterLogin' /\ SleepersServe'
  BY <1>1, <1>3 DEF VideoAfterLogin, SleepersServe, Refuses
<1>8. QED
  BY <1>4, <1>5, <1>6, <1>7

----------------------------------------------------------------------------
\* CalmInv is inductive, given AnyhowInv.

\* A message under way is one of a command sent.
LEMMA SentIsMessages ==
  ASSUME CameraTypeOK
  PROVE  /\ Sent(toCamera) = {m.cmd : m \in Range(toCamera)}
         /\ Sent(asleep) = {m.cmd : m \in Range(asleep)}
         /\ Sent(toHost) = {m.cmd : m \in Range(toHost)}
BY SentIsOfRange DEF CameraTypeOK

\* A request is the only one of its command on the way before the login returns,
\* and nobody holds a refusal when it returns.
LEMMA RequestsCalm ==
  ASSUME CameraInv, NEW c \in Callers, NEW k \in Commands, NEW id \in Nat, Requests(c, k, id)
  PROVE  CalmInv'
<1> USE DEF CameraInv, AnyhowInv, CalmInv
<1> DEFINE msg == [cmd |-> k, id |-> id]
<1>0. Requesting(c, k, id)
  BY RequestEffect DEF Requests, CallsMatch
<1>1. /\ toCamera' = Append(toCamera, msg) /\ msg \in Datagram
      /\ req'[c] # None /\ req'[c].cmd = k /\ req'[c].id = id
      /\ req'[c].got \in {"nothing", "empty"}
      /\ req'[c].got = "empty" => \E o \in Callers \ {c} : req[o] # None /\ req[o].cmd = k
      /\ \A o \in Callers \ {c} :
           \/ req'[o] = req[o]
           \/ req'[o] = None /\ req[o] # None /\ req[o].cmd = k /\ req[o].got = "nothing"
      /\ c = "setup" => setup' = k
      /\ c = "user" => \/ setup' = setup /\ req'["setup"] = req["setup"]
                       \/ setup' = "cut" /\ req'["setup"] = None
  BY <1>0 DEF Requesting, msg
<1>2. /\ toCamera' \in Seq(Datagram) /\ Range(toCamera') = Range(toCamera) \cup {msg}
      /\ msg.cmd = k /\ msg.id = id
  BY <1>1, AppendEffect DEF CameraTypeOK
<1>3. /\ UNCHANGED <<results, requested, loggedIn, asleep, streaming, toHost, mode, right, faults>>
      /\ \/ /\ c = "setup" /\ k = "check" /\ id = 0 /\ setup = "connected" /\ auth' = auth
         \/ /\ c = "setup" /\ k = "status" /\ id = 1 /\ setup = "check"
            /\ req["setup"].got # "nothing" /\ auth' = (req["setup"].got = "data")
         \/ /\ c = "user" /\ k \in {"status", "scan"} /\ req["user"] = None /\ auth' = auth /\ Up
  BY DEF Requests, cameraVars, Answered
<1>4. "setup" \in Callers /\ "user" \in Callers /\ (c = "setup" \/ c = "user")
  BY DEF Callers
<1>5. Calm' => Calm
  BY <1>1, <1>3 DEF Calm, Up
<1>6. Messages' = Messages \cup {msg}
  BY <1>2, <1>3 DEF Messages
<1> HIDE DEF msg
<1>7. OneEach'
  <2> SUFFICES ASSUME Calm', auth' = None
               PROVE  /\ Once(toCamera') /\ Once(asleep) /\ Once(toHost)
                      /\ Sent(toCamera') \cap Sent(asleep) = {}
                      /\ Sent(toCamera') \cap Sent(toHost) = {}
                      /\ Sent(asleep) \cap Sent(toHost) = {}
                      /\ \A m \in Messages' : Awaited(m)'
    BY <1>3 DEF OneEach
  <2>1. auth = None /\ Calm /\ setup' # "cut"
    BY <1>3, <1>5 DEF CallsMatch, WaitersMatch, Calm, Up
  <2>2. ~(c = "setup" /\ k = "status")
    BY <1>3, NoneAssumption
  <2>3. \A m \in Messages : Awaited(m)
    BY <2>1 DEF OneEach
  <2>4. ASSUME NEW m \in Messages
        PROVE  m.cmd # k
    <3>1. Awaited(m)
      BY <2>3
    <3>2. CASE c = "setup"
      BY <1>3, <2>2, <3>1, <3>2 DEF Awaited, CallsMatch, WaitersMatch
    <3>3. CASE c = "user"
      BY <1>3, <3>1, <3>3 DEF Awaited
    <3>4. QED
      BY <1>4, <3>2, <3>3
  <2>5. k \notin Sent(toCamera) /\ k \notin Sent(asleep) /\ k \notin Sent(toHost)
    BY <2>4, SentIsMessages DEF Messages
  <2>6. Once(toCamera') /\ Sent(toCamera') = Sent(toCamera) \cup {k}
    <3>1. toCamera \in Seq(Datagram) /\ Once(toCamera) /\ msg.cmd \notin Sent(toCamera)
      BY <1>2, <2>1, <2>5 DEF OneEach, CameraTypeOK
    <3>2. QED
      BY <1>1, <1>2, <3>1, OnceAppend
  <2>7. \A m \in Messages' : Awaited(m)'
    <3>0. \A o \in Callers \ {c} : req[o] # None => req[o].cmd # k
      BY <1>3, <1>4, <2>1, <2>2 DEF CallsMatch, Callers
    <3>1. Awaited(msg)'
      BY <1>1, <1>2, <1>3, <2>2, <3>0 DEF Awaited
    <3>2. ASSUME NEW m \in Messages
          PROVE  Awaited(m)'
      <4>1. Awaited(m) /\ m.cmd # k
        BY <2>3, <2>4
      <4>2. CASE c = "setup"
        <5>1. m.cmd # "check" /\ req'["user"] = req["user"]
          BY <1>1, <1>3, <1>4, <2>2, <4>1, <4>2 DEF CallsMatch, WaitersMatch
        <5>2. QED
          BY <4>1, <5>1 DEF Awaited
      <4>3. CASE c = "user"
        <5>1. m.cmd = "check"
          BY <1>3, <4>1, <4>3 DEF Awaited
        <5>2. req'["setup"] = req["setup"]
          BY <1>1, <2>1, <4>3
        <5>3. QED
          BY <4>1, <5>1, <5>2 DEF Awaited
      <4>4. QED
        BY <1>4, <4>2, <4>3
    <3>3. QED
      BY <1>6, <3>1, <3>2
  <2>8. QED
    BY <2>1, <2>5, <2>6, <2>7 DEF OneEach
<1>8. NoSecondLogin'
  <2> SUFFICES ASSUME Calm', auth' # None, NEW m \in Messages'
               PROVE  m.cmd # "check"
    BY DEF NoSecondLogin
  <2>1. k # "check"
    BY <1>3 DEF CallsMatch, WaitersMatch
  <2>2. ASSUME m \in Messages, m.cmd = "check"
        PROVE  FALSE
    <3>1. auth = None
      BY <1>5, <2>2 DEF NoSecondLogin
    <3>2. Awaited(m) /\ req["setup"].got # "nothing"
      BY <1>3, <1>5, <2>2, <3>1 DEF OneEach
    <3>3. QED
      BY <2>2, <3>2 DEF Awaited
  <2>3. QED
    BY <1>2, <1>6, <2>1, <2>2
<1>9. RefusalsInOrder'
  BY <1>3, <1>5 DEF RefusalsInOrder, Refuses
<1>10. Explained'
  <2>1. \A o \in Callers : req'[o] # None /\ req'[o].got = "refusal" => req'[o] = req[o]
    BY <1>1
  <2>2. QED
    BY <1>3, <1>5, <2>1 DEF Explained
<1>11. SwitchesInOrder'
  <2>1. msg.cmd \notin Switch /\ msg \in Datagram /\ toCamera \in Seq(Datagram)
    BY <1>1, <1>2, <1>3 DEF Switch, CameraTypeOK
  <2>2. /\ NoSwitch(Append(toCamera, msg)) => NoSwitch(toCamera)
        /\ SwitchesTo(toCamera, Wanted) => SwitchesTo(Append(toCamera, msg), Wanted)
    BY <2>1, OtherAppend
  <2>3. QED
    BY <1>1, <1>3, <1>5, <2>2 DEF SwitchesInOrder, Wanted, Refuses
<1>12. QED
  BY <1>7, <1>8, <1>9, <1>10, <1>11

\* Who ends takes no answer from anyone else.
LEMMA EndCalm ==
  ASSUME CameraInv, NEW c \in Callers, Ends(c)
  PROVE  CalmInv'
<1> USE DEF CameraInv, AnyhowInv, CalmInv
<1>1. \A o \in Callers \ {c} : LeftOr(o, req[c].cmd)
  BY EndEffect DEF Ends
<1>2. req'[c] = None /\ req[c] # None
  BY EndEffect DEF Ends
<1>3. /\ UNCHANGED <<auth, results, requested, loggedIn, asleep, streaming, toCamera, toHost, mode>>
      /\ \/ c = "setup" /\ setup = "status" /\ setup' = "ready"
         \/ c = "setup" /\ setup' = "failed"
         \/ c = "user" /\ setup' = setup
      /\ faults' = 0 => faults = 0
      /\ Answered(c) \/ ~UnderWay(c) \/ faults' # 0
  BY DEF Ends, cameraVars, netVars
<1>4. Calm' => Calm
  BY <1>3 DEF Calm, Up
<1>5. "setup" \in Callers /\ "user" \in Callers
  BY DEF Callers
<1>6. Messages' = Messages
  BY <1>3 DEF Messages
<1>7. OneEach'
  <2> SUFFICES ASSUME Calm', auth' = None
               PROVE  \A m \in Messages : Awaited(m)'
    BY <1>3, <1>4, <1>6 DEF OneEach
  <2> SUFFICES ASSUME NEW m \in Messages PROVE Awaited(m)'
    OBVIOUS
  <2>1. Awaited(m)
    BY <1>3, <1>4 DEF OneEach
  <2>2. c = "user"
    BY <1>3 DEF CallsMatch, WaitersMatch, Calm, Up
  <2>3. m.cmd = "check"
    <3>1. SUFFICES ASSUME m.cmd # "check" PROVE FALSE
      OBVIOUS
    <3>2. m.id = req["user"].id /\ req["user"].got = "nothing"
      BY <2>1, <3>1 DEF Awaited
    <3>3. UnderWay("user")
      BY <3>2 DEF UnderWay, Messages
    <3>4. QED
      BY <1>3, <2>2, <3>2, <3>3 DEF Answered, Calm
  <2>4. req'["setup"] = req["setup"]
    BY <1>1, <1>2, <1>5, <2>1, <2>2, <2>3 DEF LeftOr, CallsMatch, Awaited
  <2>5. QED
    BY <2>1, <2>3, <2>4 DEF Awaited
<1>8. NoSecondLogin' /\ RefusalsInOrder' /\ SwitchesInOrder'
  BY <1>3, <1>4, <1>6 DEF NoSecondLogin, RefusalsInOrder, SwitchesInOrder, Wanted, Refuses
<1>9. Explained'
  <2>1. \A o \in Callers : req'[o] # None /\ req'[o].got = "refusal" => req'[o] = req[o]
    BY <1>1, <1>2 DEF LeftOr
  <2>2. QED
    BY <1>3, <1>4, <2>1 DEF Explained
<1>10. QED
  BY <1>7, <1>8, <1>9

\* The answer handled is the oldest; the order of those behind it stays.
LEMMA HandleCalm ==
  ASSUME CameraInv, HandleAnswer
  PROVE  CalmInv'
<1> USE DEF CameraInv, AnyhowInv, CalmInv
<1> DEFINE m == Head(toHost)
<1>0. Handling
  BY HandleEffect
<1>1. /\ toHost # <<>> /\ toHost' = Tail(toHost) /\ m \in Reply /\ m \in Range(toHost)
      /\ toHost' \in Seq(Reply) /\ Range(toHost') \subseteq Range(toHost)
      /\ UNCHANGED <<setup, auth, requested, loggedIn, asleep, streaming, toCamera, mode, faults>>
      /\ results' = [results EXCEPT ![m.cmd] = IF m.got = "data" THEN "ok" ELSE "refused"]
  BY <1>0 DEF Handling, cameraVars
<1>2. \A c \in Callers :
        \/ req'[c] = req[c]
        \/ /\ req[c] # None /\ req'[c] # None /\ req[c].cmd = m.cmd
           /\ req'[c].cmd = req[c].cmd /\ req'[c].got = m.got
  BY <1>0 DEF Handling
<1>3. /\ Len(toHost') = Len(toHost) - 1 /\ Len(toHost) \in Nat \ {0} /\ m = toHost[1]
      /\ \A i \in 1..(Len(toHost) - 1) : toHost'[i] = toHost[i + 1]
  BY <1>1, TailEffect DEF CameraTypeOK
<1>4. Calm' <=> Calm
  BY <1>1 DEF Calm, Up
<1>5. Calm /\ auth = None => /\ Once(toHost') /\ Sent(toHost') = Sent(toHost) \ {m.cmd}
                             /\ m.cmd \in Sent(toHost)
  BY <1>1, OnceTail DEF OneEach, CameraTypeOK
<1> HIDE DEF m
<1>6. Messages' \subseteq Messages
  BY <1>1 DEF Messages
<1>7. Sent(toHost') = {n.cmd : n \in Range(toHost')}
  BY <1>1, SentIsOfRange
<1>8. OneEach'
  <2> SUFFICES ASSUME Calm, auth = None
               PROVE  /\ Once(toCamera) /\ Once(asleep) /\ Once(toHost')
                      /\ Sent(toCamera) \cap Sent(asleep) = {}
                      /\ Sent(toCamera) \cap Sent(toHost') = {}
                      /\ Sent(asleep) \cap Sent(toHost') = {}
                      /\ \A n \in Messages' : Awaited(n)'
    BY <1>1, <1>4 DEF OneEach
  <2>1. ASSUME NEW n \in Messages'
        PROVE  Awaited(n)'
    <3>1. Awaited(n)
      BY <1>6 DEF OneEach
    <3>2. n.cmd # m.cmd
      <4>1. n.cmd \in Sent(toCamera) \cup Sent(asleep) \cup Sent(toHost')
        BY <1>1, <1>7, SentIsMessages DEF Messages
      <4>2. QED
        BY <1>5, <4>1 DEF OneEach
    <3>3. \A c \in Callers : req[c] # None /\ req[c].cmd = n.cmd => req'[c] = req[c]
      BY <1>2, <3>2
    <3>4. QED
      BY <3>1, <3>3 DEF Awaited, Callers
  <2>2. QED
    BY <1>5, <2>1 DEF OneEach
<1>9. NoSecondLogin' /\ SwitchesInOrder'
  BY <1>1, <1>4, <1>6 DEF NoSecondLogin, SwitchesInOrder, Wanted, Refuses
<1>10. RefusalsInOrder'
  <2> SUFFICES ASSUME Calm, NEW i \in 1..Len(toHost')
               PROVE  \/ toHost'[i].cmd = "check"
                      \/ toHost'[i].got = "refusal" <=> Refuses(toHost'[i].cmd)
                      \/ \E j \in (i + 1)..Len(toHost') : toHost'[j].cmd = "check"
    BY <1>1, <1>4 DEF RefusalsInOrder, Refuses
  <2>1. i + 1 \in 1..Len(toHost) /\ toHost'[i] = toHost[i + 1]
    BY <1>3
  <2>2. ASSUME NEW j \in ((i + 1) + 1)..Len(toHost), toHost[j].cmd = "check"
        PROVE  j - 1 \in (i + 1)..Len(toHost') /\ toHost'[j - 1].cmd = "check"
    <3>1. j - 1 \in (i + 1)..Len(toHost') /\ j - 1 \in 1..(Len(toHost) - 1) /\ (j - 1) + 1 = j
      BY <1>3
    <3>2. QED
      BY <1>3, <2>2, <3>1
  <2>3. QED
    BY <2>1, <2>2 DEF RefusalsInOrder
<1>11. Explained'
  <2> SUFFICES ASSUME Calm, NEW c \in Callers, req'[c] # None, req'[c].got = "refusal"
               PROVE  /\ results'[req'[c].cmd] = "refused"
                      /\ \A n \in Range(toHost') : n.cmd = req'[c].cmd => n.got = "refusal"
    BY <1>4 DEF Explained
  <2>1. m.cmd \in Commands /\ results \in [Commands -> {"ok", "refused", None}]
    BY <1>1 DEF Reply, CameraTypeOK
  <2>2. CASE req'[c] = req[c]
    <3>1. /\ results[req[c].cmd] = "refused"
          /\ \A n \in Range(toHost) : n.cmd = req[c].cmd => n.got = "refusal"
      BY <2>2 DEF Explained
    <3>2. results'[req[c].cmd] = "refused"
      <4>1. req[c].cmd \in Commands
        BY <2>2 DEF CameraTypeOK, Pending
      <4>2. QED
        BY <1>1, <2>1, <3>1, <4>1
    <3>3. QED
      BY <1>1, <2>2, <3>1, <3>2
  <2>3. CASE req'[c].cmd = m.cmd /\ req'[c].got = m.got
    <3>1. results'[m.cmd] = "refused"
      BY <1>1, <2>1, <2>3
    <3>2. ASSUME NEW n \in Range(toHost'), n.cmd = m.cmd
          PROVE  n.got = "refusal"
      <4>1. n \in Range(toHost) /\ n \in Reply
        BY <1>1, LenProperties DEF Range
      <4>2. CASE m.cmd = "check"
        <5>1. ~right
          BY <1>1, <2>3, <4>2 DEF LoginAgreed
        <5>2. QED
          BY <3>2, <4>1, <4>2, <5>1 DEF LoginAgreed, Reply
      <4>3. CASE auth = None
        BY <1>5, <1>7, <3>2, <4>3
      <4>4. CASE m.cmd # "check" /\ auth # None
        <5>1. \A i \in 1..Len(toHost) : toHost[i] \in Messages
          BY LenProperties DEF Messages, Range, CameraTypeOK
        <5>2. \A i \in 1..Len(toHost) : toHost[i].got = "refusal" <=> Refuses(toHost[i].cmd)
          <6> SUFFICES ASSUME NEW i \in 1..Len(toHost)
                       PROVE  toHost[i].got = "refusal" <=> Refuses(toHost[i].cmd)
            OBVIOUS
          <6>1. \A j \in (i + 1)..Len(toHost) : j \in 1..Len(toHost)
            BY <1>3
          <6>2. \A j \in 1..Len(toHost) : toHost[j].cmd # "check"
            BY <4>4, <5>1 DEF NoSecondLogin
          <6>3. QED
            BY <6>1, <6>2 DEF RefusalsInOrder
        <5>3. PICK i \in 1..Len(toHost) : n = toHost[i]
          BY <4>1, LenProperties DEF Range, CameraTypeOK
        <5>4. 1 \in 1..Len(toHost) /\ toHost[1].got = "refusal"
          BY <1>3, <2>3
        <5>5. QED
          BY <1>3, <3>2, <5>2, <5>3, <5>4
      <4>5. QED
        BY <4>2, <4>3, <4>4
    <3>3. QED
      BY <2>3, <3>1, <3>2
  <2>4. QED
    BY <1>2, <2>2, <2>3
<1>12. QED
  BY <1>8, <1>9, <1>10, <1>11

\* A start or stop goes behind the others.
LEMMA VideoCalm ==
  ASSUME CameraInv, VideoStep
  PROVE  CalmInv'
<1> USE DEF CameraInv, AnyhowInv, CalmInv
<1>1. /\ UNCHANGED <<setup, auth, req, results, loggedIn, asleep, streaming, toHost, mode, faults>>
      /\ requested' \in BOOLEAN
      /\ Plain("param") \in Datagram /\ Plain("start") \in Datagram /\ Plain("stop") \in Datagram
      /\ \/ requested' = requested /\ toCamera' = toCamera
         \/ /\ auth # None
            /\ \/ /\ requested' = TRUE
                  /\ toCamera' = Append(Append(toCamera, Plain("param")), Plain("start"))
               \/ requested' = FALSE /\ toCamera' = Append(toCamera, Plain("stop"))
               \/ requested' = requested /\ toCamera' = Append(toCamera, Plain("param"))
  BY VideoEffect
<1>2. Calm' <=> Calm
  BY <1>1 DEF Calm, Up
<1>3. CASE requested' = requested /\ toCamera' = toCamera
  <2>1. Messages' = Messages
    BY <1>1, <1>3 DEF Messages
  <2>2. OneEach'
    BY <1>1, <1>2, <1>3, <2>1 DEF OneEach, Awaited
  <2>3. NoSecondLogin' /\ RefusalsInOrder' /\ Explained' /\ SwitchesInOrder'
    BY <1>1, <1>2, <1>3, <2>1
       DEF NoSecondLogin, RefusalsInOrder, Explained, SwitchesInOrder, Wanted, Refuses
  <2>4. QED
    BY <2>2, <2>3
<1>4. CASE auth # None /\ ~(requested' = requested /\ toCamera' = toCamera)
  <2> DEFINE p == Append(toCamera, Plain("param"))
  <2>1. /\ Plain("param").cmd \notin Switch /\ Plain("param").cmd # "check"
        /\ Plain("start").cmd = "start" /\ Plain("stop").cmd = "stop"
        /\ "start" \in Switch /\ "stop" \in Switch
    BY DEF Plain, Switch
  <2>2. toCamera \in Seq(Datagram)
    BY DEF CameraTypeOK
  <2>3. /\ p \in Seq(Datagram) /\ Range(p) = Range(toCamera) \cup {Plain("param")}
        /\ NoSwitch(p) => NoSwitch(toCamera)
        /\ SwitchesTo(toCamera, Wanted) => SwitchesTo(p, Wanted)
    BY <1>1, <2>1, <2>2, AppendEffect, OtherAppend
  <2> HIDE DEF p
  <2>4. /\ Range(Append(p, Plain("start"))) = Range(p) \cup {Plain("start")}
        /\ ~NoSwitch(Append(p, Plain("start"))) /\ SwitchesTo(Append(p, Plain("start")), "start")
    BY <1>1, <2>1, <2>3, AppendEffect, SwitchAppend
  <2>5. /\ Range(Append(toCamera, Plain("stop"))) = Range(toCamera) \cup {Plain("stop")}
        /\ ~NoSwitch(Append(toCamera, Plain("stop")))
        /\ SwitchesTo(Append(toCamera, Plain("stop")), "stop")
    BY <1>1, <2>1, <2>2, AppendEffect, SwitchAppend
  <2>6. Range(toCamera') \subseteq
          Range(toCamera) \cup {Plain("param"), Plain("start"), Plain("stop")}
    BY <1>1, <1>4, <2>3, <2>4, <2>5 DEF p
  <2>7. OneEach'
    BY <1>1, <1>4 DEF OneEach
  <2>8. NoSecondLogin'
    BY <1>1, <1>2, <1>4, <2>1, <2>6 DEF NoSecondLogin, Messages
  <2>9. RefusalsInOrder' /\ Explained'
    BY <1>1, <1>2 DEF RefusalsInOrder, Explained, Refuses
  <2>10. SwitchesInOrder'
    <3>1. CASE requested' = TRUE /\ toCamera' = Append(p, Plain("start"))
      BY <2>4, <3>1 DEF SwitchesInOrder, Wanted
    <3>2. CASE requested' = FALSE /\ toCamera' = Append(toCamera, Plain("stop"))
      BY <2>5, <3>2 DEF SwitchesInOrder, Wanted
    <3>3. CASE requested' = requested /\ toCamera' = p
      BY <1>1, <1>2, <2>3, <3>3 DEF SwitchesInOrder, Wanted, Refuses
    <3>4. QED
      BY <1>1, <1>4, <3>1, <3>2, <3>3 DEF p
  <2>11. QED
    BY <2>7, <2>8, <2>9, <2>10
<1>5. QED
  BY <1>1, <1>3, <1>4

\* While the host is settled nobody holds a refusal.
LEMMA SettledHoldsNone ==
  ASSUME CameraTypeOK, Settled, Up, NEW c \in Callers, req[c] # None
  PROVE  req[c].got = "nothing"
BY DEF Settled, Answered

\* An answer behind the others: what is said of those holds on, if the camera
\* refuses what it refused before.
LEMMA AnswerBehind ==
  ASSUME RefusalsInOrder, Calm, toHost \in Seq(Reply), NEW r \in Reply,
         toHost' = Append(toHost, r), UNCHANGED <<loggedIn, mode>>,
         r.cmd = "check" \/ (r.got = "refusal" <=> Refuses(r.cmd))
  PROVE  RefusalsInOrder'
<1>1. /\ Len(toHost') = Len(toHost) + 1 /\ Len(toHost) \in Nat /\ toHost'[Len(toHost) + 1] = r
      /\ \A i \in 1..Len(toHost) : toHost'[i] = toHost[i]
  BY AppendEffect, LenProperties
<1>2. SUFFICES ASSUME NEW i \in 1..Len(toHost')
               PROVE  \/ toHost'[i].cmd = "check"
                      \/ toHost'[i].got = "refusal" <=> Refuses(toHost'[i].cmd)
                      \/ \E j \in (i + 1)..Len(toHost') : toHost'[j].cmd = "check"
  BY DEF RefusalsInOrder, Refuses
<1>3. CASE i \in 1..Len(toHost)
  <2>1. \A j \in (i + 1)..Len(toHost) :
          j \in 1..Len(toHost) /\ j \in (i + 1)..Len(toHost') /\ toHost'[j] = toHost[j]
    BY <1>1, <1>3
  <2>2. QED
    BY <1>1, <1>3, <2>1 DEF RefusalsInOrder
<1>4. CASE i = Len(toHost) + 1
  BY <1>1, <1>4
<1>5. QED
  BY <1>1, <1>3, <1>4

\* An answer given at once goes behind the others, and the camera will still
\* refuse what it refuses.
LEMMA ProcessCalm ==
  ASSUME CameraInv, ProcessDrw
  PROVE  CalmInv'
<1> USE DEF CameraInv, AnyhowInv, CalmInv
<1> DEFINE m == Head(toCamera)
           Says(got) == [cmd |-> m.cmd, id |-> m.id, got |-> got]
<1>1. Processing
  BY ProcessEffect
<1>2. /\ toCamera # <<>> /\ Settled /\ m \in Datagram /\ toCamera' = Tail(toCamera)
      /\ Range(toCamera') \subseteq Range(toCamera) /\ m \in Range(toCamera) /\ m \in Messages
      /\ UNCHANGED <<setup, auth, req, results, requested, loggedIn, mode, faults>>
  BY <1>1 DEF Processing, hostVars, Messages
<1>3. \/ /\ m.cmd = "check" \/ (m.cmd = "status" /\ ~Refuses("status"))
         /\ asleep' = Append(asleep, m)
         /\ UNCHANGED <<toHost, streaming>>
      \/ /\ m.cmd # "check" /\ Refuses(m.cmd)
         /\ toHost' = Append(toHost, Says("refusal"))
         /\ UNCHANGED <<asleep, streaming>>
      \/ /\ m.cmd \notin {"check", "status"} /\ ~Refuses(m.cmd)
         /\ toHost' = Append(toHost, Says("data"))
         /\ streaming' = (m.cmd = "start" \/ (streaming /\ m.cmd # "stop"))
         /\ UNCHANGED asleep
  BY <1>1 DEF Processing
<1>4. Says("data") \in Reply /\ Says("refusal") \in Reply
  BY <1>2 DEF Reply, Datagram
<1>5. \A got : Says(got).cmd = m.cmd /\ Says(got).id = m.id /\ Says(got).got = got
  OBVIOUS
<1>6. SwitchesTo(toCamera, Wanted) =>
        /\ SwitchesTo(toCamera', Wanted)
        /\ NoSwitch(toCamera') => NoSwitch(toCamera) \/ (m.cmd \in Switch /\ m.cmd = Wanted)
  <2>1. toCamera \in Seq(Datagram) /\ toCamera # <<>>
    BY <1>2 DEF CameraTypeOK
  <2>2. QED
    BY <1>2, <2>1, SwitchTail
<1>7. Calm /\ auth = None =>
        Once(toCamera') /\ Sent(toCamera') = Sent(toCamera) \ {m.cmd} /\ m.cmd \in Sent(toCamera)
  BY <1>2, OnceTail DEF OneEach, CameraTypeOK
<1> HIDE DEF m, Says
<1>8. /\ asleep \in Seq(Datagram) /\ toHost \in Seq(Reply)
      /\ Range(Append(asleep, m)) = Range(asleep) \cup {m}
      /\ \A r \in Reply : Range(Append(toHost, r)) = Range(toHost) \cup {r}
  BY <1>2, AppendEffect DEF CameraTypeOK
<1>9. \A n \in Messages' : n \in Messages \/ (n.cmd = m.cmd /\ n.id = m.id)
  <2>1. Range(asleep') \subseteq Range(asleep) \cup {m}
    BY <1>3, <1>8
  <2>2. Range(toHost') \subseteq Range(toHost) \cup {Says("data"), Says("refusal")}
    <3>1. toHost' \in {toHost, Append(toHost, Says("data")), Append(toHost, Says("refusal"))}
      BY <1>3
    <3>2. \A r \in {Says("data"), Says("refusal")} :
            Range(Append(toHost, r)) = Range(toHost) \cup {r}
      BY <1>4, <1>8
    <3>3. QED
      BY <3>1, <3>2
  <2>3. QED
    BY <1>2, <1>5, <2>1, <2>2 DEF Messages
<1>10. Calm' <=> Calm
  BY <1>2 DEF Calm, Up
<1>11. OneEach'
  <2> SUFFICES ASSUME Calm, auth = None
               PROVE  /\ Once(toCamera') /\ Once(asleep') /\ Once(toHost')
                      /\ Sent(toCamera') \cap Sent(asleep') = {}
                      /\ Sent(toCamera') \cap Sent(toHost') = {}
                      /\ Sent(asleep') \cap Sent(toHost') = {}
                      /\ \A n \in Messages' : Awaited(n)'
    BY <1>2, <1>10 DEF OneEach
  <2>1. /\ Once(asleep) /\ Once(toHost)
        /\ Sent(toCamera) \cap Sent(asleep) = {} /\ Sent(toCamera) \cap Sent(toHost) = {}
        /\ Sent(asleep) \cap Sent(toHost) = {}
        /\ m.cmd \notin Sent(asleep) /\ m.cmd \notin Sent(toHost)
    BY <1>7 DEF OneEach
  <2>2. ASSUME NEW n \in Messages'
        PROVE  Awaited(n)'
    <3>1. \A o \in Messages : Awaited(o)
      BY DEF OneEach
    <3>2. QED
      BY <1>2, <1>9, <3>1 DEF Awaited
  <2>3. CASE asleep' = Append(asleep, m) /\ toHost' = toHost
    <3>1. Once(asleep') /\ Sent(asleep') = Sent(asleep) \cup {m.cmd}
      BY <1>2, <1>8, <2>1, <2>3, OnceAppend
    <3>2. QED
      BY <1>7, <2>1, <2>2, <2>3, <3>1
  <2>4. CASE \E got \in {"data", "refusal"} :
               toHost' = Append(toHost, Says(got)) /\ asleep' = asleep
    <3>1. PICK got \in {"data", "refusal"} : toHost' = Append(toHost, Says(got)) /\ asleep' = asleep
      BY <2>4
    <3>2. Says(got) \in Reply /\ Says(got).cmd = m.cmd
      BY <1>4, <1>5
    <3>3. Once(toHost') /\ Sent(toHost') = Sent(toHost) \cup {m.cmd}
      BY <1>8, <2>1, <3>1, <3>2, OnceAppend
    <3>4. QED
      BY <1>7, <2>1, <2>2, <3>1, <3>3
  <2>5. QED
    BY <1>3, <2>3, <2>4
<1>12. NoSecondLogin'
  BY <1>2, <1>9, <1>10 DEF NoSecondLogin
<1>13. RefusalsInOrder'
  <2>1. SUFFICES ASSUME Calm PROVE RefusalsInOrder'
    BY <1>10 DEF RefusalsInOrder
  <2>2. CASE toHost' = toHost
    BY <1>2, <1>10, <2>2 DEF RefusalsInOrder, Refuses
  <2>3. CASE m.cmd # "check" /\ Refuses(m.cmd) /\ toHost' = Append(toHost, Says("refusal"))
    BY <1>2, <1>4, <1>5, <1>8, <2>1, <2>3, AnswerBehind
  <2>4. CASE ~Refuses(m.cmd) /\ toHost' = Append(toHost, Says("data"))
    BY <1>2, <1>4, <1>5, <1>8, <2>1, <2>4, AnswerBehind
  <2>5. QED
    BY <1>3, <2>2, <2>3, <2>4
<1>14. Explained'
  BY <1>2, <1>10, SettledHoldsNone DEF Explained, Calm
<1>15. SwitchesInOrder'
  <2> SUFFICES ASSUME Calm
               PROVE  /\ SwitchesTo(toCamera', Wanted)
                      /\ NoSwitch(toCamera') /\ ~Refuses("start") => (streaming' <=> requested)
    BY <1>2, <1>10 DEF SwitchesInOrder, Wanted, Refuses
  <2>1. /\ SwitchesTo(toCamera, Wanted)
        /\ NoSwitch(toCamera) /\ ~Refuses("start") => (streaming <=> requested)
    BY DEF SwitchesInOrder
  <2>2. ASSUME NoSwitch(toCamera), ~Refuses("start")
        PROVE  streaming' <=> requested
    <3>1. m.cmd \notin Switch
      BY <1>2, <2>2, LenProperties DEF NoSwitch, Range, CameraTypeOK
    <3>2. streaming' <=> streaming
      <4>1. m.cmd # "start" /\ m.cmd # "stop" /\ streaming \in BOOLEAN
        BY <3>1 DEF Switch, CameraTypeOK
      <4>2. \/ streaming' = streaming
            \/ streaming' = (m.cmd = "start" \/ (streaming /\ m.cmd # "stop"))
        BY <1>3
      <4>3. QED
        BY <4>1, <4>2
    <3>3. QED
      BY <2>1, <2>2, <3>2
  <2>3. ASSUME m.cmd \in Switch, m.cmd = Wanted, ~Refuses("start")
        PROVE  streaming' <=> requested
    <3>1. ~Refuses(m.cmd)
      BY <2>3 DEF Refuses, Switch
    <3>2. streaming' = (m.cmd = "start" \/ (streaming /\ m.cmd # "stop"))
      BY <1>3, <2>3, <3>1 DEF Switch
    <3>3. QED
      BY <2>3, <3>2 DEF Wanted, Switch
  <2>4. QED
    BY <1>6, <2>1, <2>2, <2>3
<1>16. QED
  BY <1>11, <1>12, <1>13, <1>14, <1>15

\* A login that is granted late makes a refusal before it one of its past.
LEMMA WakesCalm ==
  ASSUME CameraInv, ProcessWakes
  PROVE  CalmInv'
<1> USE DEF CameraInv, AnyhowInv, CalmInv
<1> DEFINE m == Head(asleep)
           got == IF m.cmd = "check" /\ ~right THEN "refusal" ELSE "data"
           reply == [cmd |-> m.cmd, id |-> m.id, got |-> got]
<1>1. Waking
  BY WakesEffect
<1>2. /\ asleep # <<>> /\ Settled /\ m \in Range(asleep) /\ m \in Messages
      /\ asleep' = Tail(asleep) /\ Range(asleep') \subseteq Range(asleep)
      /\ reply \in Reply /\ toHost' = Append(toHost, reply)
      /\ Range(toHost') = Range(toHost) \cup {reply}
      /\ loggedIn' = (IF m.cmd = "check" THEN right ELSE loggedIn)
      /\ UNCHANGED <<setup, auth, req, results, requested, streaming, toCamera,
                     mode, right, faults>>
  BY <1>1 DEF Waking, hostVars, Messages
<1>3. /\ reply.cmd = m.cmd /\ reply.id = m.id
      /\ reply.got = IF m.cmd = "check" /\ ~right THEN "refusal" ELSE "data"
  OBVIOUS
<1>4. Calm /\ auth = None =>
        Once(asleep') /\ Sent(asleep') = Sent(asleep) \ {m.cmd} /\ m.cmd \in Sent(asleep)
  BY <1>2, OnceTail DEF OneEach, CameraTypeOK
<1> HIDE DEF m, reply
<1>5. right \in BOOLEAN /\ loggedIn \in BOOLEAN /\ toHost \in Seq(Reply)
  BY DEF CameraTypeOK
<1>6. \A n \in Messages' : n \in Messages \/ (n.cmd = m.cmd /\ n.id = m.id)
  BY <1>2, <1>3 DEF Messages
<1>7. Calm' <=> Calm
  BY <1>2 DEF Calm, Up
<1>8. OneEach'
  <2> SUFFICES ASSUME Calm, auth = None
               PROVE  /\ Once(toCamera) /\ Once(asleep') /\ Once(toHost')
                      /\ Sent(toCamera) \cap Sent(asleep') = {}
                      /\ Sent(toCamera) \cap Sent(toHost') = {}
                      /\ Sent(asleep') \cap Sent(toHost') = {}
                      /\ \A n \in Messages' : Awaited(n)'
    BY <1>2, <1>7 DEF OneEach
  <2>1. /\ Once(toCamera) /\ Once(toHost)
        /\ Sent(toCamera) \cap Sent(asleep) = {} /\ Sent(toCamera) \cap Sent(toHost) = {}
        /\ Sent(asleep) \cap Sent(toHost) = {}
        /\ m.cmd \notin Sent(toCamera) /\ m.cmd \notin Sent(toHost)
    BY <1>4 DEF OneEach
  <2>2. Once(toHost') /\ Sent(toHost') = Sent(toHost) \cup {m.cmd}
    BY <1>2, <1>3, <1>5, <2>1, OnceAppend
  <2>3. \A n \in Messages' : Awaited(n)'
    <3>1. \A o \in Messages : Awaited(o)
      BY DEF OneEach
    <3>2. QED
      BY <1>2, <1>6, <3>1 DEF Awaited
  <2>4. QED
    BY <1>4, <2>1, <2>2, <2>3
<1>9. NoSecondLogin'
  BY <1>2, <1>6, <1>7 DEF NoSecondLogin
<1>10. RefusalsInOrder'
  <2>1. SUFFICES ASSUME Calm PROVE RefusalsInOrder'
    BY <1>7 DEF RefusalsInOrder
  <2>2. CASE m.cmd = "check"
    <3>1. /\ Len(toHost') = Len(toHost) + 1 /\ Len(toHost) \in Nat
          /\ toHost'[Len(toHost) + 1] = reply
      BY <1>2, <1>5, AppendEffect, LenProperties
    <3>2. ASSUME NEW i \in 1..Len(toHost'), i # Len(toHost) + 1
          PROVE  Len(toHost) + 1 \in (i + 1)..Len(toHost')
      BY <3>1, <3>2
    <3>3. QED
      BY <1>3, <2>2, <3>1, <3>2 DEF RefusalsInOrder
  <2>3. CASE m.cmd # "check"
    <3>1. m.cmd = "status" /\ ~Refuses("status")
      BY <1>2, <2>3 DEF SleepersServe
    <3>2. QED
      BY <1>2, <1>3, <1>5, <2>1, <2>3, <3>1, AnswerBehind
  <2>4. QED
    BY <2>2, <2>3
<1>11. Explained'
  BY <1>2, <1>7, SettledHoldsNone DEF Explained, Calm
<1>12. SwitchesInOrder'
  <2> SUFFICES ASSUME Calm
               PROVE  /\ SwitchesTo(toCamera, Wanted)
                      /\ NoSwitch(toCamera) /\ ~Refuses("start")' => (streaming <=> requested)
    BY <1>2, <1>7 DEF SwitchesInOrder, Wanted
  <2>1. CASE auth = None
    BY <2>1 DEF VideoAfterLogin, SwitchesInOrder
  <2>2. CASE auth # None
    <3>1. loggedIn' <=> loggedIn
      BY <1>2, <1>5, <2>2 DEF LoginAgreed
    <3>2. QED
      BY <1>2, <3>1 DEF SwitchesInOrder, Refuses
  <2>3. QED
    BY <2>1, <2>2
<1>13. QED
  BY <1>8, <1>9, <1>10, <1>11, <1>12

\* A fault ends the calm.
LEMMA FaultCalm ==
  ASSUME CameraInv, Fault
  PROVE  CalmInv'
<1>1. ~Calm'
  BY CameraAssumption DEF CameraInv, AnyhowInv, CameraTypeOK, Fault, Calm
<1>2. QED
  BY <1>1 DEF CalmInv, OneEach, NoSecondLogin, RefusalsInOrder, Explained, SwitchesInOrder

----------------------------------------------------------------------------
\* Every step keeps the invariant.
LEMMA CameraInvStep == CameraInv /\ [CameraNext]_cameraLinkVars => CameraInv'
<1> SUFFICES ASSUME CameraInv, [CameraNext]_cameraLinkVars PROVE CameraInv'
  OBVIOUS
<1>0. AnyhowInv /\ CalmInv /\ CameraTypeOK
  BY DEF CameraInv, AnyhowInv
<1>1. ASSUME NEW c \in Callers, NEW k \in Commands, NEW id \in Nat, Requests(c, k, id)
      PROVE  CameraInv'
  BY <1>0, <1>1, RequestsKeep, RequestsCalm DEF CameraInv
<1>2. ASSUME NEW c \in Callers, Ends(c)
      PROVE  CameraInv'
  BY <1>0, <1>2, EndKeeps, EndCalm DEF CameraInv
<1>3. CASE SetupLogsIn
  <2>1. Requests("setup", "check", 0)
    BY <1>3 DEF SetupLogsIn, Requests
  <2>2. QED
    BY <1>1, <2>1 DEF Callers, Commands
<1>4. CASE LoginReturns
  <2>1. Requests("setup", "status", 1)
    BY <1>4 DEF LoginReturns, Requests
  <2>2. QED
    BY <1>1, <2>1 DEF Callers, Commands
<1>5. CASE \E k \in {"status", "scan"} : UserAsks(k)
  <2>1. PICK k \in {"status", "scan"} : UserAsks(k)
    BY <1>5
  <2>2. Requests("user", k, asked + 2)
    BY <2>1 DEF UserAsks, Requests
  <2>3. asked + 2 \in Nat /\ k \in Commands /\ "user" \in Callers
    BY <1>0, CameraAssumption DEF CameraTypeOK, Commands, Callers
  <2>4. QED
    BY <1>1, <2>2, <2>3
<1>6. CASE SetupDone
  <2>1. Ends("setup")
    BY <1>0, <1>6 DEF SetupDone, Ends, Answered, CameraTypeOK
  <2>2. QED
    BY <1>2, <2>1 DEF Callers
<1>7. CASE UserIsAnswered
  <2>1. Ends("user")
    BY <1>0, <1>7 DEF UserIsAnswered, Ends, Answered, CameraTypeOK
  <2>2. QED
    BY <1>2, <2>1 DEF Callers
<1>8. CASE \E c \in Callers : TimesOut(c)
  <2>1. PICK c \in Callers : TimesOut(c)
    BY <1>8
  <2>2. faults' \in 0..MaxFaults /\ (faults' = 0 => faults = 0) /\ (~UnderWay(c) \/ faults' # 0)
    BY <1>0, <2>1, CameraAssumption DEF TimesOut, CameraTypeOK
  <2>3. Ends(c)
    BY <2>1, <2>2 DEF TimesOut, Ends, Callers
  <2>4. QED
    BY <1>2, <2>3
<1>9. CASE HandleAnswer
  BY <1>0, <1>9, HandleKeeps, HandleCalm DEF CameraInv
<1>10. CASE StartVideo \/ Rerequest \/ StopVideo \/ Reassert
  BY <1>0, <1>10, VideoKeeps, VideoCalm DEF CameraInv, VideoStep
<1>11. CASE ProcessDrw
  BY <1>0, <1>11, ProcessKeeps, ProcessCalm DEF CameraInv
<1>12. CASE ProcessWakes
  BY <1>0, <1>12, WakesKeeps, WakesCalm DEF CameraInv
<1>13. CASE Fault
  BY <1>0, <1>13, FaultKeeps, FaultCalm DEF CameraInv
<1>14. CASE UNCHANGED cameraLinkVars
  <2>1. UNCHANGED <<setup, auth, ticket, req, waiter, results, requested, reassert, toCamera,
                    toHost, mode, right, loggedIn, asleep, streaming, asked, faults, crossed>>
    BY <1>14 DEF cameraLinkVars, hostVars, cameraVars, netVars
  <2>2. Messages' = Messages /\ (Calm' <=> Calm)
    BY <2>1 DEF Messages, Calm, Up
  <2>3. AnyhowInv'
    BY <1>0, <2>1, <2>2 DEF AnyhowInv, CameraTypeOK, CallsMatch, WaitersMatch, IdsAreGiven,
       LoginAgreed, AuthedIsServed, VideoAfterLogin, SleepersServe, Refuses
  <2>4. OneEach' /\ NoSecondLogin'
    BY <1>0, <2>1, <2>2 DEF CalmInv, OneEach, NoSecondLogin, Awaited
  <2>5. RefusalsInOrder' /\ Explained' /\ SwitchesInOrder'
    BY <1>0, <2>1, <2>2
       DEF CalmInv, RefusalsInOrder, Explained, SwitchesInOrder, Wanted, Refuses
  <2>6. QED
    BY <2>3, <2>4, <2>5 DEF CameraInv, CalmInv
<1>15. QED
  BY <1>3, <1>4, <1>5, <1>6, <1>7, <1>8, <1>9, <1>10, <1>11, <1>12, <1>13, <1>14 DEF CameraNext

\* Session and camera start in order and stay so.
THEOREM CameraInvariant == CameraSpec => []CameraInv
<1>1. QED
  BY InitEstablishes, CameraInvStep, PTL DEF CameraSpec

\* The variables of both ends and of the network keep their shape.
THEOREM CameraTypeCorrect == CameraSpec => []CameraTypeOK
<1>1. CameraInv => CameraTypeOK
  BY DEF CameraInv, AnyhowInv
<1>2. QED
  BY <1>1, CameraInvariant, PTL

\* What login() returns (session.py:1059-1076) is what the camera decided, whatever
\* the network does to the datagrams.
THEOREM LoginIsAgreedOn == CameraSpec => []LoginIsKnown
<1>1. CameraInv => LoginIsKnown
  <2> SUFFICES ASSUME CameraInv, auth # None PROVE auth = right /\ loggedIn = right
    BY DEF LoginIsKnown
  <2>1. (auth <=> right) /\ (loggedIn <=> right)
    BY DEF CameraInv, AnyhowInv, LoginAgreed
  <2>2. auth \in BOOLEAN /\ right \in BOOLEAN /\ loggedIn \in BOOLEAN
    BY DEF CameraInv, AnyhowInv, CameraTypeOK
  <2>3. QED
    BY <2>1, <2>2
<1>2. QED
  BY <1>1, CameraInvariant, PTL

\* After a successful login no request (_request(), session.py:1084-1089) is
\* refused, unless by the late answer to another one.
THEOREM LoginOpensTheCamera == CameraSpec => []LoginOpens
<1>1. CameraInv => LoginOpens
  BY DEF CameraInv, AnyhowInv, AuthedIsServed, LoginOpens
<1>2. QED
  BY <1>1, CameraInvariant, PTL

\* A request that comes back empty finds in cmd_results (session.py:834) that it
\* was refused,
\* as long as the network does nothing wrong.
THEOREM RefusalsAreExplained == CameraSpec => []RefusalIsExplained
<1>1. CameraInv => RefusalIsExplained
  <2> SUFFICES ASSUME CameraInv, NEW c \in Callers, Answered(c), req[c].got = "refusal",
                      ~(faults > 0)
               PROVE  results[req[c].cmd] = "refused"
    BY DEF RefusalIsExplained
  <2>1. faults = 0
    BY CameraAssumption DEF CameraInv, AnyhowInv, CameraTypeOK
  <2>2. QED
    BY <2>1 DEF CameraInv, CalmInv, Explained, Calm, Answered
<1>2. QED
  BY <1>1, CameraInvariant, PTL

\* The camera streams what is requested once all is delivered, as long as the
\* network does nothing wrong and the camera does not refuse.
THEOREM StreamIsAsRequested == CameraSpec => []StreamFollowsRequest
<1>1. CameraInv => StreamFollowsRequest
  <2> SUFFICES ASSUME CameraInv, faults = 0, Up, toCamera = <<>>, ~Refuses("start")
               PROVE  streaming = requested
    BY DEF StreamFollowsRequest
  <2>1. NoSwitch(toCamera)
    BY DEF NoSwitch
  <2>2. streaming <=> requested
    BY <2>1 DEF CameraInv, CalmInv, SwitchesInOrder, Calm
  <2>3. streaming \in BOOLEAN /\ requested \in BOOLEAN
    BY DEF CameraInv, AnyhowInv, CameraTypeOK
  <2>4. QED
    BY <2>2, <2>3
<1>2. QED
  BY <1>1, CameraInvariant, PTL
=============================================================================
