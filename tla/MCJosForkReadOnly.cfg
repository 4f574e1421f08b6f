CONSTANTS
  c1 = c1
  c2 = c2
  NoEnv = NoEnv
  CPUs <- MCCPUs
  BootCpu = c1
  NENV = 3
  NVA = 3
  NPP = 8
  InitPerm <- MCInitPerm
  InitFree = {1}
  Values = {1}
SPECIFICATION Spec

INVARIANT ReadOnlyStaysReadOnly
