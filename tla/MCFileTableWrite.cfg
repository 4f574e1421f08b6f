CONSTANTS
  p1 = p1
  p2 = p2
  Procs <- MCProcs
  NFILE = 2
  NOFILE = 2
  MAXFILEB = 3
  MAXCHUNK = 1
  MAXN = 2
SPECIFICATION Spec
SYMMETRY MCSymmetry
PROPERTY FailedWriteWroteNothing
