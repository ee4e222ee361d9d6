SPECIFICATION LiveSpec
CONSTANTS
  m1 = m1
  m2 = m2
  NoMsg = NoMsg
  Msg <- MCOneMsg
\* A server that is down does nothing more.
CHECK_DEADLOCK FALSE
PROPERTY ClosingGetsClosed
