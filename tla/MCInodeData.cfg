CONSTANTS
  Inodes <- MCInodes
  NB = 4
  BSIZE = 2
  NDIRECT = 1
  WriteLens = {2}
SPECIFICATION Spec
INVARIANT TypeOK
INVARIANT NoSharedBlock
INVARIANT BitmapExact
INVARIANT FileHoldsOwnData
INVARIANT NoBmapOutOfRange
