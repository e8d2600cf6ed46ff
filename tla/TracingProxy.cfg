SPECIFICATION Spec
CONSTANTS
  Payloads <- MCPayloads
  MaxFrames <- MCMaxFrames
  Window = 1
INVARIANTS TypeOK Verbatim TraceIsTraffic LastWordsArrive FrameRoundTrip
PROPERTY SessionEnds
CHECK_DEADLOCK FALSE
