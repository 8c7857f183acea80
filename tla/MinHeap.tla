------------------------------- MODULE MinHeap ------------------------------
(***************************************************************************)
(* The heap of timers: timer/minheap.c.  A heap h holds the array of       *)
(* timers and the min_heap_idx each of them remembers; t is their te->time.*)
(* The functions are given both; the modules that use them keep the heap   *)
(* of the program and the times of its timers in heap and time.            *)
(*                                                                         *)
(* Positions count from 1: position i is index i - 1 of the array, and     *)
(* min_heap_idx is 0 here where the code has -1.                           *)
(***************************************************************************)
EXTENDS Integers, SequencesExt

CONSTANT Timer      \* the timer_entry_t a program allocates

VARIABLES
    heap,
    time        \* te->time of each timer

EmptyHeap == [elements |-> <<>>, idx |-> [e \in Timer |-> 0]]

Put(h, i, e) == [elements |-> [h.elements EXCEPT ![i] = e], idx |-> [h.idx EXCEPT ![e] = i]]

(* A hole: a heap in whose array nothing is at position at, until the      *)
(* shift that moves the hole puts a timer there.                           *)
HoleAt(h, i) == [heap |-> h, at |-> i]

(* The timer at position j moves to the hole and leaves one. *)
Move(hole, j) == HoleAt(Put(hole.heap, hole.at, hole.heap.elements[j]), j)

(* A definition with a suffix, here and in the other modules, is a form a  *)
(* bug would give the one that follows it; only the runs that show a       *)
(* property notices the bug use it.                                        *)
Rise_PastRoot(hole, t, e) ==
    IF hole.at > 1 /\ t[hole.heap.elements[1]] > t[e] THEN Move(hole, hole.at \div 2) ELSE hole

(* One turn of the loop of shift_up.  A loop that was left is at rest. *)
Rise(hole, t, e) ==
    LET parent == hole.at \div 2
    IN  IF hole.at > 1 /\ t[hole.heap.elements[parent]] > t[e] THEN Move(hole, parent) ELSE hole

(* The hole at position i rises until e can fill it, i times at most. *)
shift_up(h, t, i, e) ==
    LET hole[k \in 0..i] == IF k = 0 THEN HoleAt(h, i) ELSE Rise(hole[k - 1], t, e)
    IN  Put(hole[i].heap, hole[i].at, e)

(* The child that comes first; the left one when they are equal. *)
FirstChild(h, t, i) ==
    IF 2 * i + 1 <= Len(h.elements) /\ t[h.elements[2 * i + 1]] < t[h.elements[2 * i]]
    THEN 2 * i + 1
    ELSE 2 * i

Sink_LosesIndex(hole, t, e) ==
    LET h == hole.heap
        child == FirstChild(h, t, hole.at)
    IN  IF hole.at <= Len(h.elements) \div 2 /\ t[e] >= t[h.elements[child]]
        THEN HoleAt([h EXCEPT !.elements[hole.at] = h.elements[child]], child)
        ELSE hole

(* One turn of the loop of shift_down. *)
Sink(hole, t, e) ==
    LET h == hole.heap
        child == FirstChild(h, t, hole.at)
    IN  IF hole.at <= Len(h.elements) \div 2 /\ t[e] >= t[h.elements[child]]
        THEN Move(hole, child)
        ELSE hole

(* The hole at position i sinks until e can fill it. *)
shift_down(h, t, i, e) ==
    LET n == Len(h.elements)
        hole[k \in 0..n] == IF k = 0 THEN HoleAt(h, i) ELSE Sink(hole[k - 1], t, e)
    IN  Put(hole[n].heap, hole[n].at, e)

min_heap_push_CountsFirst(h, t, e) ==
    shift_up([h EXCEPT !.elements = Append(@, e)], t, Len(h.elements) + 2, e)

min_heap_push(h, t, e) ==
    shift_up([h EXCEPT !.elements = Append(@, e)], t, Len(h.elements) + 1, e)

(* The last element fills the place i of one that leaves, and sinks.  It   *)
(* is not lifted where it comes before the parent of that place.           *)
Fill(h, t, i) ==
    LET shorter == [h EXCEPT !.elements = Front(@)]
    IN  IF i = Len(h.elements) THEN shorter
        ELSE shift_down(shorter, t, i, Last(h.elements))

min_heap_pop(h, t) == [Fill(h, t, 1) EXCEPT !.idx[Head(h.elements)] = 0]

min_heap_delete(h, t, e) ==
    IF h.idx[e] = 0 THEN h ELSE [Fill(h, t, h.idx[e]) EXCEPT !.idx[e] = 0]
=============================================================================
