------------------------------ MODULE Readings ------------------------------
(***************************************************************************)
(* Two readings a camera reports: the battery in millivolts, made percent, *)
(* and the clock, as the host sets and reads it back (src/aiopppp/         *)
(* packets.py and set_datetime of src/aiopppp/session.py).                 *)
(***************************************************************************)
EXTENDS Integers, Sequences

CONSTANT None \* no percentage, no zone

ASSUME ReadingsAssumption == None \notin Int

BATTERY_CURVE == <<
  <<4200, 100>>, <<4150, 95>>, <<4110, 90>>, <<4080, 85>>, <<4020, 80>>, <<3980, 75>>,
  <<3950, 70>>, <<3910, 65>>, <<3870, 60>>, <<3850, 55>>, <<3840, 50>>, <<3820, 45>>,
  <<3800, 40>>, <<3790, 35>>, <<3770, 30>>, <<3750, 25>>, <<3730, 20>>, <<3710, 15>>,
  <<3690, 10>>, <<3610, 5>>, <<3270, 0>> >>

\* round() of n / d: to the even of two neighbours that are as near.
Round(n, d) ==
  LET below == n \div d
      twice == 2 * (n % d)
  IN IF twice > d \/ (twice = d /\ below % 2 = 1) THEN below + 1 ELSE below

\* Mutant: the lower point of the curve, as of an icon.
IconPercent(hi, lo, mv) == lo[2]

\* The percentage between two points of the curve.
Interpolated(hi, lo, mv) ==
  Round(lo[2] * (hi[1] - lo[1]) + (hi[2] - lo[2]) * (mv - lo[1]), hi[1] - lo[1])

Above(mv, i) == mv >= BATTERY_CURVE[i][1] /\ mv < BATTERY_CURVE[i - 1][1]

BatPercent(mv) ==
  IF mv \notin 3000..4600 THEN None
  ELSE IF mv >= 4200 THEN 100
  ELSE IF mv <= 3270 THEN 0
  ELSE LET i == CHOOSE i \in 2..Len(BATTERY_CURVE) : Above(mv, i)
       IN Interpolated(BATTERY_CURVE[i - 1], BATTERY_CURVE[i], mv)

----------------------------------------------------------------------------
\* The clock.  A block has a time stamp, which is UTC, and a field for the zone in
\* seconds west of UTC; the host gives its own, an offset east of it.

SetDatetime(utc, offset) == [timestamp |-> utc, field |-> -offset]

\* The camera's answer to DATETIME_GET: the block as it was set, or, with a
\* firmware that has no zone to write, a constant and the time in the zone that
\* was configured in it, an offset of its own.
Stores(firmware, own, block) ==
  IF firmware = "utc+tz" THEN block
  ELSE [timestamp |-> block.timestamp + own, field |-> 224]

\* Mutant: the zone is not negated.
TzWestUnsigned(value) ==
  IF value % 900 # 0 \/ value > 14 * 3600 \/ -value > 14 * 3600 THEN None ELSE value

\* The offset east of UTC, if the field can be a zone.
TzWestSeconds(value) ==
  IF value % 900 # 0 \/ value > 14 * 3600 \/ -value > 14 * 3600 THEN None ELSE -value

ParseDatetime(block) ==
  LET offset == TzWestSeconds(block.field)
  IN IF offset # None
     THEN [layout |-> "utc+tz", local |-> block.timestamp + offset, offset |-> offset]
     ELSE [layout |-> "local-only", local |-> block.timestamp]
=============================================================================
