SPECIFICATION Spec
CONSTANTS
  Temp = Temp
  None = None
  Size = 3
  Width = 2
  ViewHeight = 3
  SectorSize = 2
  CountModulus = 65536
  MaxCount = 2
  Names = {"file1"}
  Users <- TheUsers
  Faults = {"make", "delete", "rename"}
INVARIANTS TypeOK 
PROPERTIES SavedIsText OldTextIsKept  ImplementsTextEditor
