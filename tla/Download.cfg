SPECIFICATION FairSpec
CONSTANTS
  f1 = f1
  f2 = f2
  a = a
  b = b
  c = c
  junk = junk
  File = {f1, f2}
  Content = {a, b, c}
  Junk = junk
  NoFile = nofile
  Blocks <- MCBlocks
  SizeofPtr = 3
  MaxRestarts = 2
INVARIANTS
  TypeOK
  CompleteIsComplete
PROPERTIES
  DiskGetsParts
  DownloadCompletes
CHECK_DEADLOCK FALSE
