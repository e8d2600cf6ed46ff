SPECIFICATION Spec
CONSTANTS
  Plain = {"s"}
  MaxTries = 2
  MaxSent = 4
  MaxMishaps = 2
INVARIANTS TypeOK OwnReply AtMostOnce LeavesDetached PacketsFaithful
CHECK_DEADLOCK FALSE
