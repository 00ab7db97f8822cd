------------------------------ MODULE Requests ------------------------------
(***************************************************************************)
(* Requests over one session of src/aiopppp/session.py: send_command with  *)
(* with_response, wait_ack and wait_cmd_result, as _request, login and     *)
(* get_status string them together, with the two tables of futures they    *)
(* share: drw_waiters, by DRW index, and cmd_waiters, by command.          *)
(*                                                                         *)
(* Every DRW sent has a number (its position in sends); a future belongs   *)
(* to the DRW it was made for.  The network may lose, repeat, delay and    *)
(* reorder acknowledgements and responses: each may arrive at any time     *)
(* after its request was sent, any number of times, or never.  An await    *)
(* of a future that is done does not suspend.                              *)
(***************************************************************************)
EXTENDS Integers, FiniteSets, SequencesExt

CONSTANTS Clients,    \* coroutines that make requests
          Cmds,       \* commands with a response
          MaxSends,   \* bound on the DRWs sent
          IndexSpace, \* the range of a DRW index: 0x10000
          MaxWaiters, \* MAX_DRW_WAITERS
          None

ASSUME RequestsAssumption ==
  /\ MaxSends \in Nat
  /\ IndexSpace \in Nat \ {0} /\ MaxWaiters \in Nat \ {0}
  /\ None \notin Cmds

VARIABLES sends,   \* the DRWs sent: channel, index, command that wants a response
          order,   \* drw_waiters in the order of the dict: <<index, DRW>>
          acked,   \* the future of each DRW: pending, done, cancelled
          waiters, \* cmd_waiters: the DRW whose future waits for a response, or 0
          result,  \* the response future of each DRW
          pc,      \* where each client waits
          mine,    \* the DRW of each client's request
          on,      \* the DRW whose response future each client awaits
          outcome, \* how each client's last request ended
          heard,   \* history: a response to the command came during the request
          rival    \* history: another request for the command overlapped the request

futureVars == <<order, acked, waiters, result>>
clientVars == <<pc, mine, on, outcome, heard, rival>>
requestVars == <<sends, futureVars, clientVars>>

Waiting == {"ack", "result"}

RequestsInit ==
  /\ sends = <<>> /\ order = <<>> /\ acked = <<>> /\ result = <<>>
  /\ waiters = [m \in Cmds |-> 0]
  /\ pc = [c \in Clients |-> "idle"]
  /\ mine = [c \in Clients |-> 0]
  /\ on = [c \in Clients |-> 0]
  /\ outcome = [c \in Clients |-> "none"]
  /\ heard = [c \in Clients |-> FALSE] /\ rival = [c \in Clients |-> FALSE]

----------------------------------------------------------------------------
Has(table, idx) == \E i \in DOMAIN table : table[i][1] = idx

\* dict.pop: a key is there once (WaitersBounded).
Without(table, idx) ==
  IF Has(table, idx)
  THEN RemoveAt(table, CHOOSE i \in DOMAIN table : table[i][1] = idx)
  ELSE table

\* A dict keeps the place of a key that is assigned again.
Assigned(table, idx, n) ==
  IF Has(table, idx)
  THEN [i \in DOMAIN table |-> IF table[i][1] = idx THEN <<idx, n>> ELSE table[i]]
  ELSE Append(table, <<idx, n>>)

\* Mutant: nothing is ever evicted.
EvictedNever(table) == table

\* Mutant: the newest waiter goes.
EvictedNewest(table) == IF Len(table) > MaxWaiters THEN SubSeq(table, 1, MaxWaiters) ELSE table

\* Beyond the cap the first waiter of the dict goes.
Evicted(table) == IF Len(table) > MaxWaiters THEN Tail(table) ELSE table

\* The DRWs whose waiter the table has.
Held(table) == {table[i][2] : i \in DOMAIN table}

\* The index the next DRW of a channel gets.
NextIdx(chan) == Cardinality({n \in DOMAIN sends : sends[n].chan = chan}) % IndexSpace

\* _send of one more DRW: its waiter replaces a pending one of the same index,
\* whatever channel that was sent on; replaced and evicted waiters are cancelled.
Send(chan, cmd) ==
  LET n == Len(sends) + 1
      idx == NextIdx(chan)
      table == Evicted(Assigned(order, idx, n))
      dropped == Held(order) \ Held(table)
  IN  /\ n <= MaxSends
      /\ sends' = Append(sends, [chan |-> chan, idx |-> idx, cmd |-> cmd])
      /\ order' = table
      /\ acked' = Append([m \in DOMAIN acked |->
                            IF m \in dropped /\ acked[m] = "pending" THEN "cancelled" ELSE acked[m]],
                         "pending")

\* _reset_cmd_waiter for the request about to be sent as DRW n.
ResetCmdWaiter(cmd, n) ==
  /\ waiters' = [waiters EXCEPT ![cmd] = n]
  /\ result' = Append([m \in DOMAIN result |->
                         IF m = waiters[cmd] /\ result[m] = "pending" THEN "cancelled" ELSE result[m]],
                      "pending")

Cmd(c) == sends[mine[c]].cmd

\* A request for the command is under way.
Awaits(c, cmd) == pc[c] \in Waiting /\ Cmd(c) = cmd

\* send_command with_response and the start of wait_ack.
Request(c, cmd) ==
  /\ pc[c] = "idle"
  /\ Send("command", cmd)
  /\ ResetCmdWaiter(cmd, Len(sends'))
  /\ pc' = [pc EXCEPT ![c] = "ack"]
  /\ mine' = [mine EXCEPT ![c] = Len(sends')]
  /\ outcome' = [outcome EXCEPT ![c] = "none"]
  /\ heard' = [heard EXCEPT ![c] = FALSE]
  /\ rival' = [d \in Clients |-> IF d = c THEN \E e \in Clients : Awaits(e, cmd)
                                         ELSE rival[d] \/ Awaits(d, cmd)]
  /\ UNCHANGED on

\* A command nobody waits for (reboot, PTZ), or a chunk of talk-back audio.
SendOnly(chan) ==
  /\ Send(chan, None)
  /\ result' = Append(result, "pending")
  /\ UNCHANGED <<waiters, clientVars>>

----------------------------------------------------------------------------
\* handle_drw_ack: an acknowledgement names no more than the index.
AckArrives(n) ==
  /\ \E i \in DOMAIN order :
       /\ order[i][1] = sends[n].idx
       /\ acked' = [acked EXCEPT ![order[i][2]] = IF @ = "pending" THEN "done" ELSE @]
  /\ order' = Without(order, sends[n].idx)
  /\ UNCHANGED <<sends, waiters, result, clientVars>>

\* Mutant: the waiter is taken off the table as soon as the response is in.
ResponseTakesWaiter(n) ==
  LET w == waiters[sends[n].cmd]
  IN  /\ result' = IF w # 0 /\ result[w] = "pending" THEN [result EXCEPT ![w] = "done"] ELSE result
      /\ waiters' = [waiters EXCEPT ![sends[n].cmd] = 0]
      /\ UNCHANGED <<order, acked>>

\* handle_incoming_command_packet: the waiter is resolved, but kept.
ResolveResponse(n) ==
  LET w == waiters[sends[n].cmd]
  IN  /\ result' = IF w # 0 /\ result[w] = "pending" THEN [result EXCEPT ![w] = "done"] ELSE result
      /\ UNCHANGED <<waiters, order, acked>>

ResponseArrives(n) ==
  /\ sends[n].cmd # None
  /\ ResolveResponse(n)
  /\ heard' = [c \in Clients |-> heard[c] \/ Awaits(c, sends[n].cmd)]
  /\ UNCHANGED <<sends, pc, mine, on, outcome, rival>>

----------------------------------------------------------------------------
\* The client goes on.

Ends(c, how) ==
  /\ pc' = [pc EXCEPT ![c] = "idle"]
  /\ outcome' = [outcome EXCEPT ![c] = how]
  /\ mine' = [mine EXCEPT ![c] = 0]
  /\ on' = [on EXCEPT ![c] = 0]
  /\ UNCHANGED <<heard, rival>>

\* The end of wait_cmd_result for the future of DRW w: the waiter of the command
\* is taken off the table, whosever it is.
ResultDone(c, w) ==
  /\ waiters' = [waiters EXCEPT ![Cmd(c)] = 0]
  /\ Ends(c, IF result[w] = "done" THEN "answer" ELSE "cancelled")

\* wait_ack returns, and wait_cmd_result begins.
AckSeen(c) ==
  LET w == waiters[Cmd(c)]
  IN  /\ pc[c] = "ack" /\ acked[mine[c]] = "done"
      /\ \/ w = 0 /\ Ends(c, "empty") /\ UNCHANGED waiters
         \/ w # 0 /\ result[w] # "pending" /\ ResultDone(c, w)
         \/ /\ w # 0 /\ result[w] = "pending"
            /\ pc' = [pc EXCEPT ![c] = "result"]
            /\ on' = [on EXCEPT ![c] = w]
            /\ UNCHANGED <<waiters, mine, outcome, heard, rival>>
      /\ UNCHANGED <<sends, order, acked, result>>

AckCancelled(c) ==
  /\ pc[c] = "ack" /\ acked[mine[c]] = "cancelled"
  /\ Ends(c, "cancelled")
  /\ UNCHANGED <<sends, futureVars>>

\* No acknowledgement in time: the response future stays where it is.
AckTimeout(c) ==
  /\ pc[c] = "ack" /\ acked[mine[c]] = "pending"
  /\ acked' = [acked EXCEPT ![mine[c]] = "cancelled"]
  /\ order' = Without(order, sends[mine[c]].idx)
  /\ Ends(c, "noack")
  /\ UNCHANGED <<sends, waiters, result>>

ResultSeen(c) ==
  /\ pc[c] = "result" /\ result[on[c]] # "pending"
  /\ ResultDone(c, on[c])
  /\ UNCHANGED <<sends, order, acked, result>>

\* Mutant: a response is awaited without a timeout.
ResultForever(c) == FALSE

\* No response in time: wait_for cancels the future.
ResultTimeout(c) ==
  /\ pc[c] = "result" /\ result[on[c]] = "pending"
  /\ result' = [result EXCEPT ![on[c]] = "cancelled"]
  /\ waiters' = [waiters EXCEPT ![Cmd(c)] = 0]
  /\ Ends(c, "timeout")
  /\ UNCHANGED <<sends, order, acked>>

GoesOn(c) == AckSeen(c) \/ AckCancelled(c) \/ AckTimeout(c) \/ ResultSeen(c) \/ ResultTimeout(c)

RequestsNext ==
  \/ \E c \in Clients, m \in Cmds : Request(c, m)
  \/ \E chan \in {"command", "audio"} : SendOnly(chan)
  \/ \E n \in DOMAIN sends : AckArrives(n)
  \/ \E n \in DOMAIN sends : ResponseArrives(n)
  \/ \E c \in Clients : GoesOn(c)

RequestsSpec == RequestsInit /\ [][RequestsNext]_requestVars

\* Both waits have a timeout of five seconds, and timers fire.
FairRequests == RequestsSpec /\ \A c \in Clients : WF_requestVars(GoesOn(c))

----------------------------------------------------------------------------
RequestsTypeOK ==
  /\ Len(sends) <= MaxSends /\ Len(acked) = Len(sends) /\ Len(result) = Len(sends)
  /\ \A i \in DOMAIN order : order[i] \in (0..(IndexSpace - 1)) \X DOMAIN sends
  /\ \A n \in DOMAIN sends : {acked[n], result[n]} \subseteq {"pending", "done", "cancelled"}
  /\ waiters \in [Cmds -> {0} \cup DOMAIN sends]
  /\ pc \in [Clients -> {"idle"} \cup Waiting]
  /\ {mine, on} \subseteq [Clients -> {0} \cup DOMAIN sends]
  /\ outcome \in [Clients -> {"none", "answer", "empty", "noack", "timeout", "cancelled"}]
  /\ {heard, rival} \subseteq [Clients -> BOOLEAN]

\* drw_waiters is a dict that never outgrows its cap, however indices are
\* replaced, acknowledged and evicted.
WaitersBounded ==
  /\ Len(order) <= MaxWaiters
  /\ \A i, j \in DOMAIN order : order[i][1] = order[j][1] => i = j

\* A response that came while its request was under way, before or after the
\* acknowledgement, is not reported missing, if no other request for the command
\* overlapped it.  It is still dropped with a request whose acknowledgement does
\* not come or whose place among the waiters is taken.
AnswerNotMissed == \A c \in Clients : heard[c] /\ ~rival[c] => outcome[c] \notin {"empty", "timeout"}

\* What handle_incoming_command_packet keeps the waiter for, and a second request
\* for the command undoes: a result that came is there for whoever will await it.
NoAnswerLost == \A c \in Clients : heard[c] => outcome[c] \notin {"empty", "timeout"}

\* Who still waits can still be reached: a request waiting for its acknowledgement
\* by drw_waiters, whoever else makes requests, and one without a rival that waits
\* for its response by cmd_waiters.
WaiterReachable ==
  \A c \in Clients :
    /\ pc[c] = "ack" /\ acked[mine[c]] = "pending" => mine[c] \in Held(order)
    /\ pc[c] = "result" /\ result[on[c]] = "pending" /\ ~rival[c] => waiters[Cmd(c)] = on[c]

\* Every request ends.
RequestsEnd == \A c \in Clients : pc[c] \in Waiting ~> pc[c] = "idle"
=============================================================================
