\* Three turns of interactive sessions, two messages, one drop, two handles.
CONSTANTS
  Scripts <- ThreeTurns
  JobSession = FALSE
  MaxMessages = 2
  MaxDrops = 1
  MaxMounts = 2
SPECIFICATION Spec
INVARIANTS
  TranscriptTells
  MessagesInOrder
PROPERTIES
  ImplementsStream
  CaughtUp
CHECK_DEADLOCK FALSE
