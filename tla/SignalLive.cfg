SPECIFICATION EmitFairSpec
CONSTANTS
  MaxNodes = 2
  Groups <- NoGroups
  InitialWords <- ZeroedWords
  Disconnected <- MCDisconnected
  Writers = {w1, w2}
  Emitters = {e1}
  Free = free
  Clients <- LiveClients
  MaxBlock = 0
PROPERTIES
  ImplementsSlotSequence
  EmissionsDoNotWait
  CallsEnd
