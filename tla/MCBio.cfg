CONSTANTS
  p1 = p1
  p2 = p2
  b1 = b1
  b2 = b2
  b3 = b3
  b4 = b4
  NoBlock = NoBlock
  NoProc = NoProc
  Procs <- MCProcs
  Blocks <- MCBlocks
  NBUF = 3
  MaxWrites = 2
  LOGSIZE = 1
  FSSIZE = 1000
  Bsizes <- MCBsizes
  TfBlocks <- MCTfBlocks
  TfSectors <- MCTfSectors
  TfCounts <- MCTfCounts
  DiskErrors = FALSE

SPECIFICATION Spec
SYMMETRY MCSymmetry

INVARIANT TypeOK
INVARIANT UniqueBlock
INVARIANT PinnedBufferKeepsIdentity
INVARIANT CleanBufferMatchesDisk
INVARIANT NoBgetPanic
PROPERTY IdeAgrees
