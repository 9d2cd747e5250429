\* Rows 1 and 2 hold keys 2..5; the keys of rows 3 and 4 do not fit the type of mFreeList.
CONSTANTS
    RowNum = 5
    Col = 2
    KeyRows = 3
    SeqMod = 2
    MaxGen = 2
    Session = {s1, s2, s3, s4, s5}
    NULL = NULL
SPECIFICATION Spec
SYMMETRY Symmetry
INVARIANTS ZeroOnlyWhenFull
CHECK_DEADLOCK FALSE
