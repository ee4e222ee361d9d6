SPECIFICATION LiveSpec
CONSTANTS
  m1 = m1
  m2 = m2
  NoMsg = NoMsg
  Msg <- MCMsg
\* A server that is down does nothing more.
CHECK_DEADLOCK FALSE
INVARIANTS
  OpenIsUsable
  BufferNotInFlight
  MessagesHoldProtocol
  FaultOnlyByCloseAll
PROPERTY EverythingReleased
