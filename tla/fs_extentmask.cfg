SPECIFICATION Spec
CONSTANTS
  file1 = file1
  file2 = file2
  fcb1 = fcb1
  fcb2 = fcb2
  v0 = v0
  v1 = v1
  Files = {file1}
  FCBs = {fcb1}
  Values = {v0, v1}
  Zero = v0
  NoFile = NoFile
  None = None
  Absent = Absent
  ExtRecs = 2
  BlockRecs = 2
  ExtMask = 1
  ExtPerModule = 3
  Modules = 1
  DSM = 4
  DRM = 1
  DirBlocks = 1
  ByteBase = 256
  WriteBudgets = {9}
  RandomAccess = FALSE
  Protection = FALSE
  Rewriting = FALSE
  Careful = TRUE
  StopAtError = TRUE
SYMMETRY Symmetry
VIEW View
INVARIANTS UniqueExtents
PROPERTIES ImplementsFileStore
