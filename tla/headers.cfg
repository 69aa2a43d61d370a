SPECIFICATION Spec
CONSTANTS
    Outlines <- SmallOutlines
    Labels <- SmallLabels
    Length = 5
    Levels = {1, 2}
    Words = {t1, t2}
    NoText = none
    none = none
    t1 = t1
    t2 = t2
INVARIANT TypeOK
INVARIANT SectionIsBetween
INVARIANT SectionsNest
INVARIANT TextIsKept
CHECK_DEADLOCK FALSE
