CONSTANTS
  c1 = c1
  c2 = c2
  NoEnv = NoEnv
  CPUs <- MCCPUs
  BootCpu = c1
  NENV = 3
  EnvType <- MCEnvType
  RecvPgs <- MCAllPgs
SPECIFICATION Spec
INVARIANT RecvErrorReported
