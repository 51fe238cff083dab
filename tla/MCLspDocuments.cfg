CONSTANTS
  Tools = {a1}
  Timers = {t1, t2}
  WatchKinds <- MCWatchKinds
  MaxChanges = 3
SPECIFICATION DocumentsSpec
INVARIANTS ServerSeesFile ProtocolKept
CONSTRAINT FewVersions
SYMMETRY Symmetry
CHECK_DEADLOCK FALSE
