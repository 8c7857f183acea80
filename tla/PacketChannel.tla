---------------------------- MODULE PacketChannel ---------------------------
(***************************************************************************)
(* What the reactor promises of one direction of a connection: the packets *)
(* io_write accepted are handed to on_read whole, once and in order, and   *)
(* all of them are as long as the writing program runs, until a byte that  *)
(* belongs to none is put between them.  Bytes, buffers and queues belong  *)
(* to IoStream, which is shown to implement this.                          *)
(***************************************************************************)
EXTENDS Naturals, SequencesExt

CONSTANT Packet

VARIABLES
    up,     \* the writing program runs
    sent,   \* the packets accepted for sending
    got,    \* the packets handed to the reader
    broken  \* bytes that are no packet were put between the packets

vars == <<up, sent, got, broken>>

Init ==
    /\ up = TRUE
    /\ sent = <<>>
    /\ got = <<>>
    /\ broken = FALSE

Send(p) ==
    /\ up
    /\ sent' = Append(sent, p)
    /\ UNCHANGED <<up, got>>

(* One packet or several of those that are due. *)
Receive ==
    /\ got # sent
    /\ \E n \in Len(got) + 1..Len(sent) : got' = SubSeq(sent, 1, n)
    /\ UNCHANGED <<up, sent>>

Exit ==
    /\ up
    /\ up' = FALSE
    /\ UNCHANGED <<sent, got>>

(* Nothing is promised of a broken stream, and nothing mends it. *)
Break == broken'

Next ==
    \/ /\ (\E p \in Packet : Send(p)) \/ Receive \/ Exit
       /\ ~broken /\ UNCHANGED broken
    \/ Break

(* What is under way when the program exits may be lost. *)
Spec ==
    /\ Init
    /\ [][Next]_vars
    /\ WF_vars(up /\ Receive /\ ~broken /\ UNCHANGED broken)
=============================================================================
