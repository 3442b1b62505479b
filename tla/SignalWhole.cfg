SPECIFICATION Spec
CONSTANTS
  MaxNodes = 4
  Groups <- TwoGroups
  InitialWords <- ZeroedWords
  Disconnected <- MCDisconnected
  Writers = {w1, w2}
  Emitters = {e1}
  Free = free
  Clients <- WholeClients
  MaxBlock = 0
INVARIANTS
  NoFault
  NoSlotLost
  NoDeadSlotListed
  EndsInTail
  DoublyLinked
PROPERTIES
  ImplementsSlotSequence
SYMMETRY Symmetry
