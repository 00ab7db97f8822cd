\* The claim that reconnecting goes on until the user closes the device.
SPECIFICATION DeviceSpec
CONSTANTS
  Sessions = {s1, s2, s3}
  None = None
INVARIANT GivesUpOnlyWhenAsked
CHECK_DEADLOCK FALSE
