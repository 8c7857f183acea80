------------------------------ MODULE TimerHeap -----------------------------
(***************************************************************************)
(* Every way the timer functions use the heap: a timer is pushed when it   *)
(* is set, popped when it is the first and its time has come, and deleted  *)
(* by del_timer.  The clock is present only as what it implies: a timer    *)
(* is not set for a time before the one that ran last.                     *)
(***************************************************************************)
EXTENDS MinHeap

CONSTANT Time

ASSUME TimeAssumption == Time \subseteq Nat /\ 0 \in Time

VARIABLES
    queue,      \* history: the timers in the heap in the order they were set
    last,       \* history: the time of the timer popped last
    deleted     \* history: a timer was deleted while it was set

vars == <<heap, time, queue, last, deleted>>

TypeOK ==
    /\ heap.elements \in Seq(Timer) /\ queue \in Seq(Timer)
    /\ heap.idx \in [Timer -> 0..Len(heap.elements)]
    /\ time \in [Timer -> Time]
    /\ last \in Time /\ deleted \in BOOLEAN

-----------------------------------------------------------------------------

Init ==
    /\ heap = EmptyHeap
    /\ time = [e \in Timer |-> 0]
    /\ queue = <<>>
    /\ last = 0
    /\ deleted = FALSE

Push(e, msec) ==
    /\ e \notin ToSet(queue)
    /\ last <= msec
    /\ time' = [time EXCEPT ![e] = msec]
    /\ heap' = min_heap_push(heap, time', e)
    /\ queue' = Append(queue, e)
    /\ UNCHANGED <<last, deleted>>

Pop ==
    /\ heap.elements # <<>>
    /\ heap' = min_heap_pop(heap, time)
    /\ queue' = RemoveFirst(queue, Head(heap.elements))
    /\ last' = time[Head(heap.elements)]
    /\ time' = [time EXCEPT ![Head(heap.elements)] = 0]
    /\ UNCHANGED deleted

Delete(e) ==
    /\ e \in ToSet(queue)
    /\ heap' = min_heap_delete(heap, time, e)
    /\ queue' = RemoveFirst(queue, e)
    /\ time' = [time EXCEPT ![e] = 0]
    /\ deleted' = TRUE
    /\ UNCHANGED last

Next ==
    \/ \E e \in Timer :
          \/ \E msec \in Time : Push(e, msec)
          \/ Delete(e)
    \/ Pop

Spec == Init /\ [][Next]_vars

-----------------------------------------------------------------------------

(* Each timer that was set and has not run is in the heap once and knows   *)
(* its place there, which min_heap_delete relies on: the shifts write an   *)
(* index with every move.                                                  *)
HeapIsQueue ==
    /\ Len(heap.elements) = Len(queue)
    /\ \A e \in Timer :
          IF e \in ToSet(queue) THEN heap.elements[heap.idx[e]] = e ELSE heap.idx[e] = 0

(* Timers run in the order of their times as long as none is deleted:      *)
(* test/mh-timer_test.c, which deletes none, exits with an error when a    *)
(* timer's time is before that of the one that ran before it.              *)
InOrderUnlessDeleted == [][~deleted => last' >= last]_last

(* The same whatever the program does. *)
InOrder == [][last' >= last]_last
=============================================================================
