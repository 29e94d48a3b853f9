CONSTANTS
  a = a
  b = b
  c = c
  m1 = m1
  m2 = m2
  Thread <- MCThread
  Msg <- MCMsg
  Src <- MCSrc
  Dst <- MCDst
  AckInline <- MCAckInline
SPECIFICATION Spec
INVARIANTS
  TypeOK
  NoLostWakeup
  AckMeansReceived
  NoDuplicates
PROPERTIES
  MessagesRead
  AcksReturn
CHECK_DEADLOCK FALSE
