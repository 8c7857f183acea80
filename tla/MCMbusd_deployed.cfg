\* Programs log in once per connection and send packets that fit.
SPECIFICATION Spec
CONSTANTS
    ann = ann
    bob = bob
    cat = cat
    bobLong = bobLong
    NULL = NULL
    Slot = {s1, s2, s3}
    Cell = {c1, c2, c3}
    UserName = {ann, bob, cat}
    GroupName = {g1, empty}
    EmptyName = empty
    Stored <- AllFit
    Relogin = FALSE
    Oversize = FALSE
SYMMETRY InterchangeableUsers
INVARIANTS BackPointers OneCopyEach
PROPERTY ImplementsBus
