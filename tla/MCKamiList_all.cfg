\* Nodes are added, deleted and walked over in any order.  A run ends where
\* KamiListDelHead has broken the list.
SPECIFICATION Spec
CONSTANTS
    Node = {n1, n2, n3, n4}
    NULL = NULL
CHECK_DEADLOCK FALSE
INVARIANTS WellLinked NothingMissed
PROPERTY ImplementsNodes
