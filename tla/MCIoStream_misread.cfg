\* on_read after io_write found the socket full when nothing was queued.
SPECIFICATION Spec
CONSTANTS
    nheader = 2
    Body = {0, 2}
    IO_BUF_SIZE = 4
    MAX_WMEM_SIZE = 7
    SocketSize = 3
    Misread = 2
    MaxPackets = 4
CHECK_DEADLOCK FALSE
INVARIANT OnReadGetsPackets
