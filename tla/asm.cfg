SPECIFICATION Spec
CONSTANTS
  Programs <- ThePrograms
  Main = "main"
  Faults = {"make", "make symbols"}
  MAX_BYTES = 3
INVARIANTS TypeOK LoadsAnywhere SymbolsAreAddresses DecodesAsWritten BlocksMeanWhatTheySay KeptBinariesAreWhole
 
CHECK_DEADLOCK FALSE
