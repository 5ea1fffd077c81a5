SPECIFICATION Spec
CONSTANTS
  b1 = b1
  b2 = b2
  nobody = nobody
  Streams = {1}
  Binders <- MCBinders
  Calls <- MCCalls
  InDevices = {"BUILTIN_MIC", "VOICE_CALL"}
  PolicyStates <- MCPolicy
  Files <- MCFiles
  TtyKeys = {"TTY_OFF", "TTY_FULL"}
  MaxCalls = 3
INVARIANTS
  DriverFollows
  NeverSelfLocked
