------------------------------- MODULE IoStream -----------------------------
(***************************************************************************)
(* The byte stream under the bus: reactor/eloop_event.c.  A program writes *)
(* packets to a connection with io_write; what the socket does not take    *)
(* waits in the io's write queue until EPOLLOUT says there is room; the    *)
(* program at the other end reads whatever has arrived into its receive    *)
(* buffer and hands every complete packet to on_read.                      *)
(*                                                                         *)
(* The writer is the daemon or a program connected to it: all of them set  *)
(* their sockets O_NONBLOCK.  A packet is a header, whose first bytes hold *)
(* the length of the body, and a body.  A byte is told by the packet it    *)
(* belongs to and its place there.                                         *)
(***************************************************************************)
EXTENDS Naturals, SequencesExt

CONSTANTS
    nheader,        \* bytes of a header
    Body,           \* lengths of bodies
    IO_BUF_SIZE,
    MAX_WMEM_SIZE,
    SocketSize,     \* bytes the socket holds between the two programs
    Misread,        \* the length read where no header starts
    MaxPackets      \* bound: calls of io_write

ASSUME StreamAssumption ==
    /\ {nheader, IO_BUF_SIZE, SocketSize, MaxPackets} \subseteq Nat \ {0}
    /\ {MAX_WMEM_SIZE, Misread} \subseteq Nat
    /\ Body \subseteq Nat

(* The daemon forwards what it has received whole, and the queue has room  *)
(* for any packet that can be received.                                    *)
ASSUME PacketsFit ==
    /\ \A b \in Body : nheader + b <= IO_BUF_SIZE
    /\ IO_BUF_SIZE < MAX_WMEM_SIZE

VARIABLES
    up,             \* the writing program runs
    calls,          \* calls of io_write so far
    accepted,       \* the packets io_write did not answer -1 for
    write_queue,    \* items: the bytes not sent yet and the length at first
    wmem_size,
    armed,          \* io->events has EPOLLOUT
    shifted,        \* history: a byte that is no packet's was queued
    socket,         \* bytes sent and not received
    buf,            \* bytes in the receive buffer, from head to tail
    tail,
    reader,         \* the reader's io: "open", "closed" or "reset"
    got             \* what on_read was called with

writer == <<up, calls, accepted, write_queue, wmem_size, armed, shifted>>
vars == <<writer, socket, buf, tail, reader, got>>

Byte == [packet : 0..MaxPackets, at : 0..IO_BUF_SIZE, body : Body \cup {0}]

(* The byte in memory before the packet. *)
Junk == [packet |-> 0, at |-> 0, body |-> 0]

PacketOf(k, b) == [i \in 1..nheader + b |-> [packet |-> k, at |-> i, body |-> b]]

Packet == {PacketOf(k, b) : k \in 1..MaxPackets, b \in Body}

(* A node of the write queue: the bytes not sent yet, the size at first. *)
Item == [rest : Seq(Byte), len : Nat]

Room == SocketSize - Len(socket)

Queued(items) == FlattenSeq([i \in DOMAIN items |-> items[i].rest])

Total(items) ==
    LET sum[k \in 0..Len(items)] == IF k = 0 THEN 0 ELSE sum[k - 1] + items[k].len
    IN  sum[Len(items)]

TypeOK ==
    /\ {up, armed, shifted} \subseteq BOOLEAN
    /\ calls \in 0..MaxPackets
    /\ accepted \in Seq(Packet)
    /\ got \in Seq(Seq(Byte))
    /\ write_queue \in Seq(Item)
    /\ \A i \in DOMAIN write_queue : Len(write_queue[i].rest) \in 1..write_queue[i].len
    /\ wmem_size \in 0..MAX_WMEM_SIZE - 1
    /\ socket \in Seq(Byte) /\ Len(socket) <= SocketSize
    /\ buf \in Seq(Byte) /\ tail \in Len(buf)..IO_BUF_SIZE
    /\ reader \in {"open", "closed", "reset"}

-----------------------------------------------------------------------------

Init ==
    /\ up = TRUE
    /\ calls = 0
    /\ accepted = <<>>
    /\ write_queue = <<>>
    /\ wmem_size = 0
    /\ armed = FALSE
    /\ shifted = FALSE
    /\ socket = <<>>
    /\ buf = <<>>
    /\ tail = 0
    /\ reader = "open"
    /\ got = <<>>

(* A definition with a suffix, here and below, is a form a bug would give  *)
(* the one that follows it; only the runs that show a property notices the *)
(* bug use it.                                                             *)

io_enqueue_ChargesAll(p, rest) ==
    IF wmem_size + Len(rest) >= MAX_WMEM_SIZE
    THEN UNCHANGED <<accepted, write_queue, wmem_size, armed>>
    ELSE /\ write_queue' = Append(write_queue, [rest |-> rest, len |-> Len(rest)])
         /\ wmem_size' = wmem_size + Len(p)
         /\ armed' = TRUE
         /\ accepted' = Append(accepted, p)

io_enqueue_Unlimited(p, rest) ==
    /\ write_queue' = Append(write_queue, [rest |-> rest, len |-> Len(rest)])
    /\ wmem_size' = wmem_size + Len(rest)
    /\ armed' = TRUE
    /\ accepted' = Append(accepted, p)

(* io_enqueue of the bytes that are left of packet p, and, when there was  *)
(* room for them, eloop_add_event.                                         *)
io_enqueue(p, rest) ==
    IF wmem_size + Len(rest) >= MAX_WMEM_SIZE
    THEN UNCHANGED <<accepted, write_queue, wmem_size, armed>>
    ELSE /\ write_queue' = Append(write_queue, [rest |-> rest, len |-> Len(rest)])
         /\ wmem_size' = wmem_size + Len(rest)
         /\ armed' = TRUE
         /\ accepted' = Append(accepted, p)

(* The socket takes some bytes of the packet, or all. *)
SendNow(p) ==
    \E n \in 1..Len(p) :
        /\ n <= Room
        /\ socket' = socket \o SubSeq(p, 1, n)
        /\ IF n = Len(p)
           THEN /\ accepted' = Append(accepted, p)
                /\ UNCHANGED <<write_queue, wmem_size, armed>>
           ELSE io_enqueue(p, SubSeq(p, n + 1, Len(p)))
    /\ UNCHANGED shifted

(* send returns -1 with EAGAIN, and io_write goes on with that as the      *)
(* number of bytes sent: from data - 1, len + 1 bytes.                     *)
SendLater(p) ==
    /\ Room = 0
    /\ io_enqueue(p, <<Junk>> \o p)
    /\ shifted' = TRUE
    /\ UNCHANGED socket

io_write_Overtakes(p) ==
    /\ up
    /\ reader = "open"
    /\ calls < MaxPackets
    /\ calls' = calls + 1
    /\ SendNow(p) \/ SendLater(p)
    /\ UNCHANGED <<up, buf, tail, reader, got>>

io_write(p) ==
    /\ up
    /\ reader = "open"
    /\ calls < MaxPackets
    /\ calls' = calls + 1
    /\ IF write_queue = <<>>
       THEN SendNow(p) \/ SendLater(p)
       ELSE io_enqueue(p, p) /\ UNCHANGED <<socket, shifted>>
    /\ UNCHANGED <<up, buf, tail, reader, got>>

eloop_del_event_EveryTime(left) == armed' = FALSE

(* EPOLLOUT is taken off when nothing is left in the queue. *)
eloop_del_event(left) == armed' = (left # <<>>)

(* EPOLLOUT: the socket takes n bytes of the queue, and items sent to      *)
(* their end leave it.                                                     *)
handle_write(n) ==
    LET bytes == Queued(write_queue)
        done == CHOOSE k \in 0..Len(write_queue) :
                   /\ Len(Queued(SubSeq(write_queue, 1, k))) <= n
                   /\ k < Len(write_queue) => Len(Queued(SubSeq(write_queue, 1, k + 1))) > n
        cut == n - Len(Queued(SubSeq(write_queue, 1, done)))
        left == SubSeq(write_queue, done + 1, Len(write_queue))
    IN  /\ up /\ armed /\ reader = "open"
        /\ n <= Len(bytes) /\ n <= Room
        /\ socket' = socket \o SubSeq(bytes, 1, n)
        /\ write_queue' =
              IF left = <<>> THEN <<>>
              ELSE [left EXCEPT ![1].rest = SubSeq(@, cut + 1, Len(@))]
        /\ wmem_size' = wmem_size - Total(SubSeq(write_queue, 1, done))
        /\ eloop_del_event(left)
        /\ UNCHANGED <<up, calls, accepted, shifted, buf, tail, reader, got>>

(* The length __read_cb reads where it expects a header. *)
nbody(byte) == IF byte.at = 1 THEN byte.body ELSE Misread

(* __read_cb: the packets that are complete, and where the rest begins. *)
__read_cb(bytes) ==
    LET size(h) == nheader + nbody(bytes[h + 1])
        whole(h) == h + nheader <= Len(bytes) /\ h + size(h) <= Len(bytes)
        read[h \in 0..Len(bytes)] ==
            IF whole(h)
            THEN [packets |-> <<SubSeq(bytes, h + 1, h + size(h))>> \o read[h + size(h)].packets,
                  head    |-> read[h + size(h)].head]
            ELSE [packets |-> <<>>, head |-> h]
    IN  read[0]

eloop_reset_io(why) ==
    /\ reader' = why
    /\ buf' = <<>>
    /\ tail' = 0
    /\ UNCHANGED <<socket, got>>

recv_NeverMoves(n) ==
    LET bytes == buf \o SubSeq(socket, 1, n)
        read == __read_cb(bytes)
    IN  /\ n <= Len(socket) /\ n <= IO_BUF_SIZE - tail
        /\ socket' = SubSeq(socket, n + 1, Len(socket))
        /\ got' = got \o read.packets
        /\ buf' = SubSeq(bytes, read.head + 1, Len(bytes))
        /\ tail' = tail + n
        /\ UNCHANGED reader

recv_Forgets(n) ==
    LET bytes == buf \o SubSeq(socket, 1, n)
        read == __read_cb(bytes)
        rest == IF tail + n >= IO_BUF_SIZE THEN <<>>
                ELSE SubSeq(bytes, read.head + 1, Len(bytes))
    IN  /\ n <= Len(socket) /\ n <= IO_BUF_SIZE - tail
        /\ socket' = SubSeq(socket, n + 1, Len(socket))
        /\ got' = got \o read.packets
        /\ buf' = rest
        /\ tail' = IF tail + n >= IO_BUF_SIZE THEN 0 ELSE tail + n
        /\ UNCHANGED reader

(* What is left of the bytes is moved to the start of the buffer when they *)
(* have reached its end.                                                   *)
recv(n) ==
    LET bytes == buf \o SubSeq(socket, 1, n)
        read == __read_cb(bytes)
        rest == SubSeq(bytes, read.head + 1, Len(bytes))
    IN  /\ n <= Len(socket) /\ n <= IO_BUF_SIZE - tail
        /\ socket' = SubSeq(socket, n + 1, Len(socket))
        /\ got' = got \o read.packets
        /\ buf' = rest
        /\ tail' = IF tail + n >= IO_BUF_SIZE THEN Len(rest) ELSE tail + n
        /\ UNCHANGED reader

(* EPOLLIN: a buffer with no room left resets the io without a word to     *)
(* on_close; an orderly end of the stream calls it first.                  *)
handle_read ==
    /\ reader = "open"
    /\ \/ tail = IO_BUF_SIZE /\ (socket # <<>> \/ ~up) /\ eloop_reset_io("reset")
       \/ tail < IO_BUF_SIZE /\ socket = <<>> /\ ~up /\ eloop_reset_io("closed")
       \/ tail < IO_BUF_SIZE /\ \E n \in 1..SocketSize : recv(n)
    /\ UNCHANGED writer

(* The writing program exits: its queue is gone, what the socket holds is  *)
(* still delivered.                                                        *)
Exit ==
    /\ up
    /\ up' = FALSE
    /\ write_queue' = <<>>
    /\ wmem_size' = 0
    /\ armed' = FALSE
    /\ UNCHANGED <<calls, accepted, shifted, socket, buf, tail, reader, got>>

Next ==
    \/ \E b \in Body : io_write(PacketOf(calls + 1, b))
    \/ \E n \in 1..SocketSize : handle_write(n)
    \/ handle_read
    \/ Exit

(* epoll reports EPOLLIN and EPOLLOUT for as long as they hold, and both   *)
(* loops serve every event they are told of.                               *)
Fairness ==
    /\ WF_vars(\E n \in 1..SocketSize : handle_write(n))
    /\ WF_vars(handle_read)

Spec == Init /\ [][Next]_vars /\ Fairness

-----------------------------------------------------------------------------

(* on_read is called with whole packets, the ones that were written.  The  *)
(* comment at its call in __read_cb takes it that a complete packet is     *)
(* handled by each call.                                                   *)
OnReadGetsPackets == ToSet(got) \subseteq ToSet(accepted)

(* EPOLLOUT is asked for exactly while something waits to be sent: less    *)
(* and the queue is never sent, more and the loop spins on a socket that   *)
(* always has room.                                                        *)
ArmedWhileQueued == armed <=> write_queue # <<>>

(* The queue's size is what its items were allocated with, whole even when *)
(* partly sent, so that the limit of io_enqueue neither wears out nor lets *)
(* the queue grow past it.                                                 *)
WmemIsQueue == wmem_size = Total(write_queue) /\ wmem_size < MAX_WMEM_SIZE

(* A receive buffer of the size of the largest packet is enough: handle_read *)
(* makes room in time, wherever in the buffer packets begin, and the       *)
(* connection is never reset for want of it, as long as the stream holds   *)
(* packets and nothing else.                                               *)
NoReset == reader = "reset" => shifted

(* What is under way is what is due: the bytes in the receive buffer, the  *)
(* socket and the write queue, one after the other, are the packets        *)
(* accepted and not handed over yet, or the first of those bytes once the  *)
(* writer is gone.                                                         *)
UnderWay == buf \o (socket \o Queued(write_queue))

Due == SubSeq(accepted, Len(got) + 1, Len(accepted))

NothingLost ==
    ~shifted =>
        /\ IsPrefix(got, accepted)
        /\ reader = "open" =>
              \E k \in 0..Len(FlattenSeq(Due)) :
                  /\ UnderWay = SubSeq(FlattenSeq(Due), 1, k)
                  /\ up => k = Len(FlattenSeq(Due))

Channel == INSTANCE PacketChannel WITH
    sent   <- accepted,
    broken <- shifted

(* Accepted packets are delivered whole, once and in order; a packet that  *)
(* a full queue refuses leaves nothing on the stream (a send that took     *)
(* part of one found the queue empty, and by PacketsFit the rest is not    *)
(* refused); all that is accepted arrives while the writer runs.  All this *)
(* until io_write finds the socket full with nothing queued.               *)
ImplementsChannel == Channel!Spec
=============================================================================
