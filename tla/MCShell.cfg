CONSTANTS
  Execs = {e1, e2, e3}
  MaxShells = 2
  Dirs = {home, other}
  Home = home
  None = None
  QueueSize = 1
ACTION_CONSTRAINT InOrder
CONSTRAINT LastStays
SPECIFICATION Spec
INVARIANTS ResultsTruthful OnlyAwaitedOrAbandoned OneLiveShell
PROPERTIES DirectoryKept ExecReturns
CHECK_DEADLOCK FALSE
