SPECIFICATION Spec
CONSTANTS
  Answers <- MCAnswers
  Payloads <- MCPayloads
  Negotiations <- MCNegotiations
  Pid <- MCPid
  ChildOutput <- MCChildOutput
INVARIANTS TypeOK RepliesExact InStep ExecPrefix CommandsStripped CutListingsAreTrue
PROPERTY CallsReturn
CHECK_DEADLOCK FALSE
