SPECIFICATION Spec
CONSTANTS
  file1 = file1
  file2 = file2
  fcb1 = fcb1
  fcb2 = fcb2
  v0 = v0
  v1 = v1
  Files = {file1, file2}
  FCBs = {fcb1, fcb2}
  Values = {v0, v1}
  Zero = v0
  NoFile = NoFile
  None = None
  Absent = Absent
  ExtRecs = 1
  BlockRecs = 1
  ExtMask = 0
  ExtPerModule = 2
  Modules = 1
  DSM = 3
  DRM = 2
  DirBlocks = 1
  ByteBase = 256
  WriteBudgets = {9}
  RandomAccess = FALSE
  Protection = FALSE
  Rewriting = TRUE
  Careful = TRUE
  StopAtError = TRUE
SYMMETRY Symmetry
VIEW View
INVARIANTS TypeOK NoCrossLink BitmapCovers CdrmaxCovers UniqueExtents MapsAreDisjoint
PROPERTIES ImplementsFileStore
