CONSTANTS
  Bytes = {a, b}
  PIPEBUFSIZ = 2
  Width = 4
  MaxCall = 3
  MaxPos = 5
SPECIFICATION RingSpec
PROPERTIES ImplementsChannel WriterReleased NeverBothWait
CHECK_DEADLOCK FALSE
