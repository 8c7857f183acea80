------------------------------- MODULE MhTimer ------------------------------
(***************************************************************************)
(* The timers of the event loop: timer/mh-timer.c and eloop_run, which     *)
(* sleeps in epoll_wait until the earliest timer is due, serves the        *)
(* descriptors that are ready and then runs the timers that have expired.  *)
(* One thread does all of it: the mutex around the heap is never waited    *)
(* for.                                                                    *)
(***************************************************************************)
EXTENDS MinHeap

CONSTANTS
    Delay,      \* milliseconds timers are set for
    W,          \* times are counted modulo W (2^32)
    Horizon,    \* bound: the last reading of the clock, before it wraps
    MaxCopies   \* bound: times one timer is in the heap

ASSUME ClockAssumption ==
    /\ {W, Horizon, MaxCopies} \subseteq Nat /\ Horizon < W
    /\ Delay \subseteq 1..W - 1

VARIABLES
    now,        \* the millisecond clock
    interval,   \* te->interval; 0 for a timer not allocated yet
    phase,      \* eloop_run: "wait" in epoll_wait, "serve" or "expire"
    wake,       \* when epoll_wait times out; -1: never, or not in it
    cur         \* what expire_timer read of the clock; 0 when not in it

timers == <<time, interval, heap>>
loopVars == <<now, timers, phase, wake, cur>>

LoopTypeOK ==
    /\ now \in 0..Horizon /\ cur \in 0..Horizon
    /\ time \in [Timer -> 0..W - 1]
    /\ interval \in [Timer -> Delay \cup {0}]
    /\ heap.elements \in Seq(Timer)
    /\ heap.idx \in [Timer -> 0..Len(heap.elements)]
    /\ phase \in {"wait", "serve", "expire"}
    /\ wake \in -1..Horizon + W

-----------------------------------------------------------------------------
LoopInit ==
    /\ now = 0
    /\ time = [e \in Timer |-> 0]
    /\ interval = [e \in Timer |-> 0]
    /\ heap = EmptyHeap
    /\ phase = "serve"
    /\ wake = -1
    /\ cur = 0

Tick ==
    /\ now < Horizon
    /\ now' = now + 1
    /\ UNCHANGED <<timers, phase, wake, cur>>

(* Set timer e to run msec from now. *)
Set(e, msec) ==
    /\ interval' = [interval EXCEPT ![e] = msec]
    /\ time' = [time EXCEPT ![e] = (now + msec) % W]
    /\ heap' = min_heap_push(heap, time', e)

(* The timers in the heap.  The code does not test that a timer it sets    *)
(* has left the heap, and cfg_mgr sets its one timer on every answer: the  *)
(* timer is in the array several times then, with one time and one index.  *)
(* Programs with other timers do not do that, which Alone says.            *)
Pending == ToSet(heap.elements)
Alone(e) == Pending \subseteq {e} /\ Len(heap.elements) < MaxCopies
NoCopies == IsInjective(heap.elements)

(* The calls a handler can make, of a descriptor or of a timer. *)
add_timer(e, msec) ==
    /\ phase # "wait"
    /\ interval[e] = 0
    /\ NoCopies
    /\ Set(e, msec)
    /\ UNCHANGED <<now, phase, wake, cur>>

reset_timer_Unset(e, msec) ==
    /\ phase # "wait"
    /\ interval[e] # 0
    /\ Alone(e) \/ (e \notin Pending /\ NoCopies)
    /\ heap' = min_heap_push(heap, time, e)
    /\ UNCHANGED <<now, time, interval, phase, wake, cur>>

(* A timer is set again when it has run, or while it is set.  msec 0       *)
(* stands for its interval.                                                *)
reset_timer(e, msec) ==
    /\ phase # "wait"
    /\ interval[e] # 0
    /\ Alone(e) \/ (e \notin Pending /\ NoCopies)
    /\ Set(e, IF msec > 0 THEN msec ELSE interval[e])
    /\ UNCHANGED <<now, phase, wake, cur>>

del_timer(e) ==
    /\ phase # "wait"
    /\ NoCopies
    /\ heap' = min_heap_delete(heap, time, e)
    /\ UNCHANGED <<now, time, interval, phase, wake, cur>>

find_nearest_expire_timer_Unsigned ==
    IF heap.elements = <<>> THEN -1 ELSE (time[Head(heap.elements)] - now) % W

(* The difference of two times as int; -1 if there is no timer. *)
find_nearest_expire_timer ==
    IF heap.elements = <<>>
    THEN -1
    ELSE LET diff == ((time[Head(heap.elements)] - now + (W \div 2)) % W) - (W \div 2)
         IN  IF diff > 0 THEN diff ELSE 0

Expired == heap.elements # <<>> /\ time[Head(heap.elements)] <= cur

(* expire_timer runs the handler of the timer it pops. *)
Expire ==
    /\ phase = "expire"
    /\ Expired
    /\ heap' = min_heap_pop(heap, time)
    /\ UNCHANGED <<now, time, interval, phase, wake, cur>>

(* No timer is left that has expired: the loop goes back to epoll_wait. *)
Sleep ==
    /\ phase = "expire"
    /\ ~Expired
    /\ phase' = "wait"
    /\ wake' = IF find_nearest_expire_timer < 0 THEN -1 ELSE now + find_nearest_expire_timer
    /\ cur' = 0
    /\ UNCHANGED <<now, timers>>

(* epoll_wait returns because of a descriptor. *)
Event ==
    /\ phase = "wait"
    /\ phase' = "serve"
    /\ wake' = -1
    /\ UNCHANGED <<now, timers, cur>>

Timeout ==
    /\ phase = "wait"
    /\ wake >= 0 /\ now >= wake
    /\ phase' = "serve"
    /\ wake' = -1
    /\ UNCHANGED <<now, timers, cur>>

(* The ready descriptors are served; expire_timer begins. *)
Served ==
    /\ phase = "serve"
    /\ phase' = "expire"
    /\ cur' = now
    /\ UNCHANGED <<now, timers, wake>>

LoopNext ==
    \/ Tick
    \/ \E e \in Timer :
          \/ \E msec \in Delay : add_timer(e, msec)
          \/ \E msec \in Delay \cup {0} : reset_timer(e, msec)
          \/ del_timer(e)
    \/ Expire \/ Sleep \/ Event \/ Timeout \/ Served

(* The loop runs, and epoll_wait returns when its time is over.  Nothing   *)
(* is asked of descriptors or of the handlers.                             *)
Fairness == WF_loopVars(Expire) /\ WF_loopVars(Sleep) /\ WF_loopVars(Timeout) /\ WF_loopVars(Served)

LoopSpec == LoopInit /\ [][LoopNext]_loopVars /\ Fairness

-----------------------------------------------------------------------------

(* The loop does not sleep past the first timer of the heap: epoll_wait is *)
(* given the time to it, for which find_nearest_expire_timer takes the     *)
(* difference of two uint32_t as an int, whatever time has passed since    *)
(* expire_timer last read the clock.  Without a timer it sleeps until a    *)
(* descriptor is ready.                                                    *)
SleepsUntilDue ==
    phase = "wait" =>
        IF heap.elements = <<>>
        THEN wake = -1
        ELSE wake >= 0 /\ (wake <= now \/ wake = time[Head(heap.elements)])

(* A timer whose time has come runs, although the loop sleeps: what        *)
(* find_nearest_expire_timer gives epoll_wait is the time to the earliest. *)
(* A timer that is in the heap several times is set for later, or all of   *)
(* its copies run.                                                         *)
Due(e) == e \in Pending /\ time[e] <= now
DueTimersRun == \A e \in Timer : Due(e) ~> ~Due(e)

(* Timers that set themselves again do not keep expire_timer from its end, *)
(* and descriptors from being served, however often they are in the heap:  *)
(* the clock is read once, before the first of them runs.                  *)
LoopGoesOn == phase = "expire" ~> phase = "wait"
=============================================================================
