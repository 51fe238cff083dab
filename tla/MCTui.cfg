CONSTANTS
  Topics <- MCTopics
  Payloads <- MCPayloads
  BufferSize = 1
  OutputSize = 1
  MaxSessions = 2
  MaxWrites = 2
  MaxInputs = 3
CONSTRAINTS ShortLives FewEvents
SPECIFICATION Spec
INVARIANTS PanicOnlyAtTeardown ScreenIsStored OneSession OverlayEnds
PROPERTY TopicsInOrder
CHECK_DEADLOCK FALSE
