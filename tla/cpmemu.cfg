CONSTANTS
    NumFiles = 2
    f1 = f1
    f2 = f2
    f3 = f3
    locked = locked
    F1 = F1
    F2 = F2
    Names = {f1, f2, locked}
    ReadOnly = {locked}
    Elsewhere = elsewhere
    Blank = blank
    FCBs = {F1, F2}
    Values = {zero, one}
    Zero = zero
    ExtRecs = 2
    MaxRecs = 2
    Garbage = {0, 1}
    Programs <- ThePrograms
    Absent = absent

SPECIFICATION Spec
SYMMETRY Symmetry
VIEW Unnumbered
CHECK_DEADLOCK FALSE
INVARIANTS TypeOK SlotsOnOneList OneSlotPerName
PROPERTIES ImplementsHostFiles
