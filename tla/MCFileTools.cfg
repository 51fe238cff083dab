CONSTANTS
  s1 = s1
  s2 = s2
  a = a
  u = u
  Sessions <- MCSessions
  Contents <- MCContents
  Lines <- MCLines
  Params <- MCParams
  UserLines = {u}
  Calls = {c1, c2}
  Views = {v1}
  Empty = Empty
  Absent = Absent
  MaxRetries = 3
  Epoch = 100
  MaxNow = 2
  MaxUser = 1
  MaxFailures = 1
CONSTRAINT FewAtOnce
SYMMETRY Symmetry
SPECIFICATION Spec
INVARIANTS UnseenChangesKept 
PROPERTIES BothSidesInHistory
CHECK_DEADLOCK FALSE
