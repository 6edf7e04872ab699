SPECIFICATION Spec
CONSTANTS
  Temp = Temp
  None = None
  Size = 3
  Width = 2
  ViewHeight = 3
  SectorSize = 2
  CountModulus = 65536
  MaxCount = 2
  Names = {"file1"}
  Users <- Filers
  Faults = {"make", "delete", "rename", "write"}
PROPERTY SavedIsText
