CONSTANTS
  p1 = p1
  p2 = p2
  n1 = n1
  n2 = n2
  NoProc = NoProc
  Procs <- MCProcs
  Names <- MCNames
  Inums <- MCInums
  NINODE = 3
  DIRSIZ = 2
  MAXDIRENT = 3
  ROOTINO = 1
  IType <- MCIType
  DirData <- MCDirData
  Paths <- MCPaths
  Cwds <- MCCwds
  Dirs <- MCDirs
  LinkNames <- MCLinkNames
  DirInums = {1, 2}
SPECIFICATION Spec
SYMMETRY MCSymmetry
INVARIANT NoOrphanInode
