\* Every tree of up to four items, attached in any order.  The buffer starts
\* so small that it has to grow more than once.  Values are of 0 to 2 bytes.
SPECIFICATION Spec
CONSTANTS
    MaxItems = 4
    Types <- MCTypes
    Values <- MCValues
    DefaultBufferSize = 4
CHECK_DEADLOCK FALSE
INVARIANTS TypeOK LengthIsBytes BufferHolds Found
