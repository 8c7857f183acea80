\* Programs log in as often as they like and overflow the receive buffer.
SPECIFICATION Spec
CONSTANTS
    ann = ann
    bob = bob
    cat = cat
    bobLong = bobLong
    NULL = NULL
    Slot = {s1, s2}
    Cell = {c1, c2}
    UserName = {ann, bob, cat}
    GroupName = {g1, g2}
    EmptyName = empty
    Stored <- AllFit
    Relogin = TRUE
    Oversize = TRUE
SYMMETRY InterchangeableUsers
INVARIANTS TypeOK ArgLive UniqueNames UniqueGroups MembersAreUsers MembersOnce
