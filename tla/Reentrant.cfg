SPECIFICATION Spec
CONSTANTS
  MaxNodes = 3
  Groups <- TwoGroups
  InitialWords <- ZeroedWords
  Disconnected <- MCDisconnected
  MaxDepth = 2
  MaxBlock = 1
  Scoped = {c1, c2}
  Clients <- WholeClients
SYMMETRY Symmetry
INVARIANTS
  TypeOK
  NoFault
  FunctorLives
  FunctorsReclaimed
  ScopedSlotsEnd
  OwnersLive
  QueueInvariant
PROPERTIES
  ImplementsSlotSequence
CHECK_DEADLOCK FALSE
