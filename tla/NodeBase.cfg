SPECIFICATION FairSpec
CONSTANTS
  Threads = {t1, t2, t3}
  InitialWords <- ZeroedWords
  MaxCalls = 4
  Disconnected <- FarSentinel
INVARIANTS
  TypeOK
  NoLostUpdate
  OneCallerMarks
PROPERTIES
  DisconnectIsFinal
  ImplementsBlockCounter
  CallsReturn
CHECK_DEADLOCK FALSE
