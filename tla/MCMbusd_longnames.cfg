\* A program logs in under a name longer than the field it is stored in.
SPECIFICATION Spec
CONSTANTS
    ann = ann
    bob = bob
    cat = cat
    bobLong = bobLong
    NULL = NULL
    Slot = {s1, s2}
    Cell = {c1, c2}
    UserName = {ann, bob, bobLong}
    GroupName = {g1}
    EmptyName = empty
    Stored <- LongCut
    Relogin = FALSE
    Oversize = FALSE
SYMMETRY Interchangeable
INVARIANT UniqueNames
