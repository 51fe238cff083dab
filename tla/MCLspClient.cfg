CONSTANTS
  Notifiers = {"tool"}
  ServerRequests = {0, 1}
SPECIFICATION Spec
INVARIANTS WaitingIsServed
PROPERTIES RequestsAnswered ShutdownEnds
CHECK_DEADLOCK FALSE
