CONSTANTS
  r1 = r1
  r2 = r2
  r3 = r3
  s1 = s1
  s2 = s2
  edit = edit
  file1 = file1
  file2 = file2
  dir = dir
  Requests <- MCRequests
  Opts <- MCOpts
  Dir <- MCDir
  None = None
  BufferSize = 1
  MaxPresses = 1
SPECIFICATION Spec
PROPERTY RequestEnds
CHECK_DEADLOCK FALSE
