SPECIFICATION CodecsSpec
CONSTANTS
  None = None
  MaxPayload = 9
INVARIANTS
  WhatIsSentIsRead
  AudioFaithful
  BatteryGrows
  ClockIsReadBack
CHECK_DEADLOCK FALSE
