--------------------------- MODULE EpochTracker ----------------------------
(***************************************************************************)
(* The wraparound half of Session.handle_drw (src/aiopppp/session.py): the *)
(* camera numbers video chunks modulo 0x10000, and the session rebuilds    *)
(* the full number from how often it has seen the counter wrap.            *)
(*                                                                         *)
(* A true position is a pair <<e, i>>: the counter stood at i after having *)
(* wrapped e times.  top and base are history: the newest true position    *)
(* handled, and the wraps that stop_video made the session forget.         *)
(***************************************************************************)
EXTENDS Integers

CONSTANTS IndexSpace, \* the counter's range: 0x10000
          WrapMargin,     \* how near a wrap the code looks for one: 0x100
          MaxEpoch    \* bound on the wraps of a behaviour

ASSUME IndexSpaceAssumption == IndexSpace \in Nat \ {0}
ASSUME MarginAssumption == WrapMargin \in Nat \ {0} /\ 3 * WrapMargin <= IndexSpace + 2
ASSUME EpochAssumption == MaxEpoch \in Nat

Indices == 0..(IndexSpace - 1)
Positions == (0..MaxEpoch) \X Indices

VARIABLES epoch,   \* video_epoch
          lastIdx, \* last_drw_pkt_idx
          top,     \* history: the newest position handled
          base,    \* history: wraps before the last stop_video
          seen     \* history: the last chunk handled and the epoch it got

trackerVars == <<epoch, lastIdx, top, base, seen>>

\* Position p is less than WrapMargin ahead of position q, or behind it.
Near(p, q) ==
  \/ p[1] = q[1] /\ p[2] - q[2] \in (1 - WrapMargin)..(WrapMargin - 1)
  \/ p[1] = q[1] + 1 /\ p[2] + IndexSpace - q[2] < WrapMargin
  \/ q[1] = p[1] + 1 /\ q[2] + IndexSpace - p[2] < WrapMargin

After(p, q) == p[1] > q[1] \/ (p[1] = q[1] /\ p[2] > q[2])

TrackerInit ==
  /\ epoch = 0
  /\ lastIdx = 0
  /\ top = <<0, 0>>
  /\ base = 0
  /\ seen = [pos |-> <<0, 0>>, epoch |-> 0]

----------------------------------------------------------------------------
\* Mutant: a late chunk of the lap before is not looked for at all.
EpochNeverBack(idx) ==
  IF lastIdx > IndexSpace - WrapMargin /\ idx < WrapMargin THEN epoch + 1 ELSE epoch

\* Mutant: any smaller index is taken for a wrap.
EpochOnAnyDrop(idx) == IF idx < lastIdx THEN epoch + 1 ELSE epoch

\* _get_drw_epoch: 0xff00 is IndexSpace - WrapMargin.
GetDrwEpoch(idx) ==
  IF lastIdx > IndexSpace - WrapMargin /\ idx < WrapMargin THEN epoch + 1
  ELSE IF epoch # 0 /\ lastIdx < WrapMargin /\ idx > IndexSpace - WrapMargin THEN epoch - 1
  ELSE epoch

\* The epoch bookkeeping of handle_drw for one video chunk.
TrackEpoch(idx, pktEpoch) ==
  IF pktEpoch > epoch
  THEN epoch' = pktEpoch /\ lastIdx' = idx
  ELSE /\ lastIdx' = IF pktEpoch = epoch /\ lastIdx < idx THEN idx ELSE lastIdx
       /\ UNCHANGED epoch

HandleVideoDrw(pos) ==
  LET pktEpoch == GetDrwEpoch(pos[2])
  IN  /\ TrackEpoch(pos[2], pktEpoch)
      /\ seen' = [pos |-> pos, epoch |-> pktEpoch]
      /\ top' = IF After(pos, top) THEN pos ELSE top
      /\ UNCHANGED base

\* What stop_video does to the tracking: the epoch is reset, the high-water
\* mark stays.
ForgetEpoch ==
  /\ epoch' = 0
  /\ base' = top[1]
  /\ UNCHANGED <<lastIdx, top, seen>>

\* What the network is assumed to deliver.  A camera's counter runs on from
\* session to session, so the first chunk may be any.  Later ones are less
\* than WrapMargin from the newest, except in the middle of a lap, where a burst
\* of losses or a delay may be of any length.  After a stop nothing from
\* before the last wrap comes any more.
Deliverable(pos) ==
  /\ pos[1] >= base
  /\ \/ top = <<0, 0>> /\ pos[1] = 0
     \/ Near(pos, top)
     \/ pos[1] = top[1] /\ pos[2] \in WrapMargin..(IndexSpace - WrapMargin)

TrackerNext == \/ \E pos \in Positions : Deliverable(pos) /\ HandleVideoDrw(pos)
               \/ ForgetEpoch

TrackerSpec == TrackerInit /\ [][TrackerNext]_trackerVars

----------------------------------------------------------------------------
TrackerTypeOK ==
  /\ epoch \in 0..MaxEpoch
  /\ lastIdx \in Indices
  /\ top \in Positions
  /\ base \in 0..MaxEpoch
  /\ seen \in [pos : Positions, epoch : 0..MaxEpoch]

\* The session's idea of where the stream stands is the truth.
TracksTop == epoch = top[1] - base /\ lastIdx = top[2]

\* Every chunk got the epoch it was sent in (counted from the last stop): no
\* chunk lands a whole 0x10000 away from its place in the frame.
EpochExact == [][seen' # seen => seen'.epoch = seen'.pos[1] - base]_trackerVars
=============================================================================
