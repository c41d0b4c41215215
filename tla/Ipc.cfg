CONSTANTS
  Envs = {p1, p2, p3}
  Senders = {p1, p2}
  Receivers = {p3}
  Values = {v1, v2}
  Nothing = Nothing
  ReadOnly = ReadOnly
  Writable = Writable
SPECIFICATION Spec
INVARIANTS BlockedIsReceiving
PROPERTIES ImplementsRendezvous PageArrived SenderServed
CHECK_DEADLOCK FALSE
