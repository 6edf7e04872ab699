SPECIFICATION Spec
CONSTANTS
  lba1 = lba1
  lba2 = lba2
  lba3 = lba3
  v0 = v0
  v1 = v1
  Halves = {0, 1}
  Values = {v0, v1}
  NoLba = NoLba
  Lbas = {lba1, lba2, lba3}
  ReadFaults = FALSE
  WriteFaults = FALSE
SYMMETRY Symmetry
INVARIANTS TypeOK CleanBufferIsACopy
PROPERTY ImplementsSectorStore
