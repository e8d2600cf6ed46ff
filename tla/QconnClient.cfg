CONSTANTS
  Callers = {c1, c2}
  NoCaller = NoCaller
  RawServices = {"broker", "launcher"}
  MaxSent = 2
SPECIFICATION FairSpec
INVARIANTS
  OwnReply
  ServiceAgrees
  SuccessIsReal
  NoDescriptorLeft
  NoiseNeverStatus
PROPERTIES
  ImplementsSerial
  CallsReturn
CHECK_DEADLOCK FALSE
