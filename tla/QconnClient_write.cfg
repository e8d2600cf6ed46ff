CONSTANTS
  Callers = {c1, c2}
  NoCaller = NoCaller
  RawServices = {"broker", "launcher"}
  MaxSent = 4
SYMMETRY CallerSymmetry
SPECIFICATION Spec
INVARIANT SuccessIsRealAfterRefusedWrite
CHECK_DEADLOCK FALSE
