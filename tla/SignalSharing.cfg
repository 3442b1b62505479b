SPECIFICATION Spec
CONSTANTS
  MaxNodes = 3
  Groups <- TwoGroups
  InitialWords <- ZeroedWords
  Disconnected <- MCDisconnected
  Writers = {w1}
  Emitters = {e1, e2}
  Free = free
  Clients <- SharingClients
  MaxBlock = 1
INVARIANTS
  TrackedWhileCalled
  EmissionComplete
  ListInvariant
SYMMETRY Symmetry
