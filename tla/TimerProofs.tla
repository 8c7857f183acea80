--------------------------- MODULE TimerProofs ------------------------------
(***************************************************************************)
(* The heap of timers holds the timers that are set, each where its index  *)
(* says, and gives them in the order of their times as long as none is     *)
(* deleted: for any number of timers and any times.  In the loop, where a  *)
(* timer may be set while it is set, the heap is a bag: what a call adds   *)
(* to it and takes from it is counted.  From the order, and from the count *)
(* of what has expired, follow how long the loop sleeps and that it does   *)
(* not run timers for ever.                                                *)
(***************************************************************************)
EXTENDS TimerHeap, MhTimer, ListLemmas, FiniteSetTheorems

(* Heaps of n timers, and those with a hole. *)
Heap(n) == [elements : [1..n -> Timer], idx : [Timer -> Nat]]

Holes(n) == [heap : Heap(n), at : 1..n]

IsMove(m, s, j, n) ==
    /\ m \in Holes(n)
    /\ m.at = j
    /\ \A k \in 1..n : m.heap.elements[k] =
          IF k = s.at THEN s.heap.elements[j] ELSE s.heap.elements[k]
    /\ \A f \in Timer : m.heap.idx[f] =
          IF f = s.heap.elements[j] THEN s.at ELSE s.heap.idx[f]

LEMMA MoveIs ==
    ASSUME NEW n \in Nat, NEW s \in Holes(n), NEW j \in 1..n
    PROVE  IsMove(Move(s, j), s, j, n)
BY DEF IsMove, Move, HoleAt, Put, Holes, Heap

LEMMA PutIs ==
    ASSUME NEW n \in Nat, NEW s \in Holes(n), NEW e \in Timer
    PROVE  LET g == Put(s.heap, s.at, e) IN
           /\ g \in Heap(n)
           /\ \A k \in 1..n : g.elements[k] = IF k = s.at THEN e ELSE s.heap.elements[k]
           /\ \A f \in Timer : g.idx[f] = IF f = e THEN s.at ELSE s.heap.idx[f]
BY DEF Put, Holes, Heap

-----------------------------------------------------------------------------
(* The indices.  X are the timers whose index the shift does not rely on:  *)
(* the one it will put in the hole, and the one that left it.              *)

Indexed(s, n, X) ==
    /\ s \in Holes(n)
    /\ \A f \in Timer \ X : s.heap.idx[f] # 0 =>
          /\ s.heap.idx[f] \in 1..n /\ s.heap.idx[f] # s.at
          /\ s.heap.elements[s.heap.idx[f]] = f

(* Every timer in the array knows its place, and is there once.            *)
Known(s, n, X) ==
    \A j \in 1..n : j # s.at =>
        s.heap.elements[j] \notin X /\ s.heap.idx[s.heap.elements[j]] = j

(* The same timers are in the heap as in heap h. *)
Holds(s, h, X) == \A f \in Timer \ X : s.heap.idx[f] # 0 <=> h.idx[f] # 0

LEMMA MoveIndexed ==
    ASSUME NEW n \in Nat, NEW X, NEW s, Indexed(s, n, X), NEW j \in 1..n, j # s.at
    PROVE  Indexed(Move(s, j), n, X)
<1>1. s \in Holes(n) /\ s.at \in 1..n /\ s.heap.elements \in [1..n -> Timer]
    BY DEF Indexed, Holes, Heap
<1>2. PICK m : m = Move(s, j) /\ IsMove(m, s, j, n)
    BY <1>1, MoveIs
<1>3. m \in Holes(n) /\ m.at = j
    BY <1>2 DEF IsMove
<1>4. \A k \in 1..n : m.heap.elements[k] = IF k = s.at THEN s.heap.elements[j] ELSE s.heap.elements[k]
    BY <1>2 DEF IsMove
<1>5. \A f \in Timer : m.heap.idx[f] = IF f = s.heap.elements[j] THEN s.at ELSE s.heap.idx[f]
    BY <1>2 DEF IsMove
<1>6. ASSUME NEW f \in Timer \ X, m.heap.idx[f] # 0
      PROVE  m.heap.idx[f] \in 1..n /\ m.heap.idx[f] # m.at /\ m.heap.elements[m.heap.idx[f]] = f
  <2>1. CASE f = s.heap.elements[j]
    BY <1>1, <1>3, <1>4, <1>5, <2>1
  <2>2. CASE f # s.heap.elements[j]
    <3>1. m.heap.idx[f] = s.heap.idx[f]
      BY <1>5, <2>2
    <3>2. s.heap.idx[f] \in 1..n /\ s.heap.idx[f] # s.at /\ s.heap.elements[s.heap.idx[f]] = f
      BY <1>6, <3>1 DEF Indexed
    <3> QED
      BY <1>3, <1>4, <2>2, <3>1, <3>2
  <2> QED BY <2>1, <2>2
<1> QED
    BY <1>2, <1>3, <1>6 DEF Indexed

LEMMA MoveKnown ==
    ASSUME NEW n \in Nat, NEW X, NEW s \in Holes(n), Known(s, n, X), NEW j \in 1..n, j # s.at,
           NEW h, Holds(s, h, X)
    PROVE  Known(Move(s, j), n, X) /\ Holds(Move(s, j), h, X)
<1>1. s.at \in 1..n /\ s.heap.elements \in [1..n -> Timer]
    BY DEF Holes, Heap
<1>2. PICK m : m = Move(s, j) /\ IsMove(m, s, j, n)
    BY <1>1, MoveIs
<1>3. m \in Holes(n) /\ m.at = j
    BY <1>2 DEF IsMove
<1>4. \A k \in 1..n : m.heap.elements[k] = IF k = s.at THEN s.heap.elements[j] ELSE s.heap.elements[k]
    BY <1>2 DEF IsMove
<1>5. \A f \in Timer : m.heap.idx[f] = IF f = s.heap.elements[j] THEN s.at ELSE s.heap.idx[f]
    BY <1>2 DEF IsMove
<1>6. s.heap.elements[j] \notin X /\ s.heap.idx[s.heap.elements[j]] = j /\ j # 0
    BY DEF Known
<1>7. ASSUME NEW k \in 1..n, k # j
      PROVE  m.heap.elements[k] \notin X /\ m.heap.idx[m.heap.elements[k]] = k
  <2>1. CASE k = s.at
    BY <1>1, <1>4, <1>5, <1>6, <2>1
  <2>2. CASE k # s.at
    <3>1. m.heap.elements[k] = s.heap.elements[k] /\ s.heap.elements[k] \in Timer
      BY <1>1, <1>4, <2>2
    <3>2. s.heap.elements[k] \notin X /\ s.heap.idx[s.heap.elements[k]] = k
      BY <2>2 DEF Known
    <3>3. s.heap.elements[k] # s.heap.elements[j]
      BY <1>6, <1>7, <3>2
    <3> QED
      BY <1>5, <3>1, <3>2, <3>3
  <2> QED BY <2>1, <2>2
<1>8. \A f \in Timer : m.heap.idx[f] # 0 <=> s.heap.idx[f] # 0
  BY <1>1, <1>5, <1>6
<1> QED
    BY <1>2, <1>3, <1>7, <1>8 DEF Known, Holds

(* The hole is filled with timer e, and timer r has left. *)
FilledIndexed(g, n, e, r) ==
    /\ g \in Heap(n)
    /\ \A f \in Timer : (f = e \/ f # r) /\ g.idx[f] # 0 =>
          g.idx[f] \in 1..n /\ g.elements[g.idx[f]] = f

FilledKnown(g, n, e, r) ==
    \A j \in 1..n : g.idx[g.elements[j]] = j /\ (g.elements[j] = r => r = e)

LEMMA PutIndexed ==
    ASSUME NEW n \in Nat, NEW r, NEW e \in Timer, NEW X, X = {e, r},
           NEW s, Indexed(s, n, X),
           NEW g, g = Put(s.heap, s.at, e)
    PROVE  FilledIndexed(g, n, e, r)
<1>1. s \in Holes(n) /\ s.at \in 1..n /\ s.heap.elements \in [1..n -> Timer]
    BY DEF Indexed, Holes, Heap
<1>3. g \in Heap(n)
    BY <1>1, PutIs
<1>4. \A k \in 1..n : g.elements[k] = IF k = s.at THEN e ELSE s.heap.elements[k]
    BY <1>1, PutIs
<1>5. \A f \in Timer : g.idx[f] = IF f = e THEN s.at ELSE s.heap.idx[f]
    BY <1>1, PutIs
<1>6. ASSUME NEW f \in Timer, f = e \/ f # r, g.idx[f] # 0
      PROVE  g.idx[f] \in 1..n /\ g.elements[g.idx[f]] = f
  <2>1. CASE f = e
    BY <1>1, <1>4, <1>5, <2>1
  <2>2. CASE f # e
    <3>1. g.idx[f] = s.heap.idx[f]
      BY <1>5, <2>2
    <3>2. s.heap.idx[f] \in 1..n /\ s.heap.idx[f] # s.at /\ s.heap.elements[s.heap.idx[f]] = f
      BY <1>6, <2>2, <3>1 DEF Indexed
    <3> QED
      BY <1>4, <3>1, <3>2
  <2> QED BY <2>1, <2>2
<1> QED
    BY <1>3, <1>6 DEF FilledIndexed

LEMMA PutKnown ==
    ASSUME NEW n \in Nat, NEW r, NEW e \in Timer, NEW X, X = {e, r},
           NEW s \in Holes(n), Known(s, n, X),
           NEW g, g = Put(s.heap, s.at, e)
    PROVE  FilledKnown(g, n, e, r)
<1>1. s.at \in 1..n /\ s.heap.elements \in [1..n -> Timer]
    BY DEF Holes, Heap
<1>3. \A k \in 1..n : g.elements[k] = IF k = s.at THEN e ELSE s.heap.elements[k]
    BY <1>1, PutIs
<1>4. \A f \in Timer : g.idx[f] = IF f = e THEN s.at ELSE s.heap.idx[f]
    BY <1>1, PutIs
<1>5. ASSUME NEW j \in 1..n
      PROVE  g.idx[g.elements[j]] = j /\ (g.elements[j] = r => r = e)
  <2>1. CASE j = s.at
    BY <1>3, <1>4, <2>1
  <2>2. CASE j # s.at
    <3>1. s.heap.elements[j] # e /\ s.heap.elements[j] # r /\ s.heap.idx[s.heap.elements[j]] = j
      BY <2>2 DEF Known
    <3>2. g.elements[j] = s.heap.elements[j] /\ s.heap.elements[j] \in Timer
      BY <1>1, <1>3, <2>2
    <3> QED
      BY <1>4, <3>1, <3>2
  <2> QED BY <2>1, <2>2
<1> QED
    BY <1>5 DEF FilledKnown

-----------------------------------------------------------------------------
(* The order, told of the times at the positions: key[j] is the time of    *)
(* the timer at position j, up[j] the position of its parent.              *)

Keys(g, n, t) == [j \in 1..n |-> t[g.elements[j]]]

Parent(n) == [j \in 2..n |-> j \div 2]

Sorted(key, up, n) == \A j \in 2..n : key[up[j]] <= key[j]

(* Everywhere else than at the hole a timer comes after its parent, and    *)
(* those below the hole come after the one above it.                       *)
Around(key, up, n, at) ==
    \A j \in 2..n :
        /\ j # at /\ up[j] # at => key[up[j]] <= key[j]
        /\ at > 1 /\ up[j] = at => key[up[at]] <= key[j]

(* A timer of time ke may be above what is below the hole, and below what  *)
(* is above it.                                                            *)
Over(key, up, n, at, ke) == \A j \in 2..n : up[j] = at => ke <= key[j]

Under(key, up, at, ke) == at > 1 => key[up[at]] <= ke

LEMMA RiseSorts ==
    ASSUME NEW n \in Nat, NEW up \in [2..n -> 1..n], \A j \in 2..n : up[j] < j,
           NEW key \in [1..n -> Nat], NEW at \in 2..n, NEW ke \in Nat, ke < key[up[at]],
           Around(key, up, n, at), Over(key, up, n, at, ke),
           NEW new, new = [key EXCEPT ![at] = key[up[at]]]
    PROVE  Around(new, up, n, up[at]) /\ Over(new, up, n, up[at], ke)
<1>1. PICK p \in 1..n : p = up[at] /\ p < at
    OBVIOUS
<1>2. at \in 1..n /\ at > 1 /\ \A j \in 1..n : new[j] = IF j = at THEN key[p] ELSE key[j]
    BY <1>1
<1>3. ASSUME NEW j \in 2..n, j # p, up[j] # p
      PROVE  new[up[j]] <= new[j]
  <2>1. j # at /\ j \in 1..n /\ up[j] \in 1..n
    BY <1>1, <1>3
  <2> QED
    BY <1>1, <1>2, <1>3, <2>1 DEF Around
<1>4. ASSUME NEW j \in 2..n, up[j] = p
      PROVE  ke <= new[j] /\ (p > 1 => new[up[p]] <= new[j])
  <2>1. key[p] <= new[j]
    BY <1>1, <1>2, <1>4 DEF Around
  <2>2. j \in 1..n /\ key[p] \in Nat /\ new[j] \in Nat
    BY <1>2
  <2>3. ke <= new[j]
    BY <1>1, <2>1, <2>2, SMTT(30)
  <2>4. ASSUME p > 1
        PROVE  new[up[p]] <= new[j]
    <3>1. p \in 2..n /\ up[p] < p /\ up[p] \in 1..n
      BY <2>4
    <3>2. key[up[p]] <= key[p] /\ new[up[p]] = key[up[p]]
      BY <1>1, <1>2, <3>1, SMTT(30) DEF Around
    <3>3. PICK a \in Nat, b \in Nat, d \in Nat : a = key[up[p]] /\ b = key[p] /\ d = new[j]
      BY <2>2, <3>1
    <3>4. new[up[p]] = a /\ a <= b
      BY <3>2, <3>3
    <3>5. b <= d
      BY <2>1, <3>3
    <3>6. a <= d
      BY <3>4, <3>5
    <3> QED
      BY <3>3, <3>4, <3>6
  <2> QED
    BY <2>3, <2>4
<1> QED
  BY <1>1, <1>3, <1>4 DEF Around, Over

(* The hole sinks to a child c that comes before its sibling.              *)
LEMMA SinkSorts ==
    ASSUME NEW n \in Nat, NEW up \in [2..n -> 1..n], \A j \in 2..n : up[j] < j,
           NEW key \in [1..n -> Nat], NEW at \in 1..n, NEW ke \in Nat,
           Around(key, up, n, at),
           NEW c \in 2..n, up[c] = at, \A j \in 2..n : up[j] = at => key[c] <= key[j],
           ke >= key[c],
           NEW new, new = [key EXCEPT ![at] = key[c]]
    PROVE  Around(new, up, n, c) /\ Under(new, up, c, ke)
<1>1. c \in 1..n /\ at < c
    OBVIOUS
<1>2. \A j \in 1..n : new[j] = IF j = at THEN key[c] ELSE key[j]
    OBVIOUS
<1>3. ASSUME NEW j \in 2..n, j # c, up[j] # c
      PROVE  new[up[j]] <= new[j]
  <2>1. j \in 1..n /\ up[j] \in 1..n /\ up[j] < j
    OBVIOUS
  <2>2. CASE j = at
    BY <1>1, <1>2, <2>1, <2>2 DEF Around
  <2>3. CASE j # at
    BY <1>1, <1>2, <1>3, <2>1, <2>3 DEF Around
  <2> QED
    BY <2>2, <2>3
<1>4. ASSUME NEW j \in 2..n, up[j] = c
      PROVE  new[up[c]] <= new[j]
  <2>1. j # at /\ j \in 1..n /\ up[j] # at /\ j # c
    BY <1>1, <1>4
  <2> QED
    BY <1>1, <1>2, <1>4, <2>1 DEF Around
<1>5. new[up[c]] <= ke
  BY <1>1, <1>2
<1> QED
  BY <1>3, <1>4, <1>5 DEF Around, Under

LEMMA PutSorts ==
    ASSUME NEW n \in Nat, NEW up \in [2..n -> 1..n], \A j \in 2..n : up[j] < j,
           NEW key \in [1..n -> Nat], NEW at \in 1..n, NEW ke \in Nat,
           Around(key, up, n, at), Over(key, up, n, at, ke), Under(key, up, at, ke)
    PROVE  Sorted([key EXCEPT ![at] = ke], up, n)
<1> DEFINE new == [key EXCEPT ![at] = ke]
<1>1. \A j \in 1..n : new[j] = IF j = at THEN ke ELSE key[j]
    OBVIOUS
<1>2. ASSUME NEW j \in 2..n
      PROVE  new[up[j]] <= new[j]
  <2>1. j \in 1..n /\ up[j] \in 1..n /\ up[j] < j
    OBVIOUS
  <2>2. CASE up[j] = at
    BY <1>1, <2>1, <2>2 DEF Over
  <2>3. CASE j = at
    BY <1>1, <2>1, <2>3 DEF Under
  <2>4. CASE up[j] # at /\ j # at
    BY <1>1, <2>1, <2>4 DEF Around
  <2> QED
    BY <2>2, <2>3, <2>4
<1> QED
  BY <1>2 DEF Sorted

(* The first in an ordered heap comes before all others. *)
LEMMA RootIsFirst ==
    ASSUME NEW n \in Nat, NEW up \in [2..n -> 1..n], \A j \in 2..n : up[j] < j,
           NEW key \in [1..n -> Nat], Sorted(key, up, n)
    PROVE  \A j \in 1..n : key[1] <= key[j]
<1> DEFINE I == {m \in Nat : \A j \in 1..n : j <= m => key[1] <= key[j]}
<1>1. 0 \in I
  OBVIOUS
<1>2. ASSUME NEW m \in Nat, m \in I
      PROVE  m + 1 \in I
  <2>1. ASSUME NEW j \in 1..n, j <= m + 1
        PROVE  key[1] <= key[j]
    <3>1. CASE j = 1
      BY <3>1
    <3>2. CASE j > 1
      <4>1. j \in 2..n /\ up[j] \in 1..n /\ up[j] <= m
        BY <2>1, <3>2
      <4>2. key[1] <= key[up[j]] /\ key[up[j]] <= key[j] /\ 1 \in 1..n
        BY <1>2, <4>1 DEF Sorted
      <4> QED
        BY <4>1, <4>2
    <3> QED
      BY <3>1, <3>2
  <2> QED
    BY <2>1
<1> HIDE DEF I
<1>3. Nat \subseteq I
  BY <1>1, <1>2, SetInduction
<1> QED
  BY <1>3 DEF I

-----------------------------------------------------------------------------
(* The times at the positions of a heap. *)

LEMMA ParentIs ==
    ASSUME NEW n \in Nat
    PROVE  /\ Parent(n) \in [2..n -> 1..n]
           /\ \A j \in 2..n : Parent(n)[j] = j \div 2 /\ Parent(n)[j] < j
BY DEF Parent

LEMMA KeysType ==
    ASSUME NEW n \in Nat, NEW g \in Heap(n), NEW t \in [Timer -> Nat]
    PROVE  /\ Keys(g, n, t) \in [1..n -> Nat]
           /\ \A j \in 1..n : g.elements[j] \in Timer /\ Keys(g, n, t)[j] = t[g.elements[j]]
           /\ Len(g.elements) = n
BY DEF Keys, Heap

(* The time at position j, at position i as well. *)
Copied(key, i, j) == [key EXCEPT ![i] = key[j]]

LEMMA MoveKeys ==
    ASSUME NEW n \in Nat, NEW s \in Holes(n), NEW j \in 1..n, NEW t \in [Timer -> Nat]
    PROVE  Keys(Move(s, j).heap, n, t) = Copied(Keys(s.heap, n, t), s.at, j)
<1>1. PICK m : m = Move(s, j) /\ IsMove(m, s, j, n)
  BY MoveIs
<1>2. s.heap \in Heap(n) /\ s.at \in 1..n /\ m.heap \in Heap(n)
  BY <1>1 DEF IsMove, Holes
<1>3. \A k \in 1..n : t[m.heap.elements[k]] =
          IF k = s.at THEN t[s.heap.elements[j]] ELSE t[s.heap.elements[k]]
  BY <1>1 DEF IsMove
<1> QED
  BY <1>1, <1>2, <1>3 DEF Keys, Copied

LEMMA PutKeys ==
    ASSUME NEW n \in Nat, NEW s \in Holes(n), NEW e \in Timer, NEW t \in [Timer -> Nat]
    PROVE  Keys(Put(s.heap, s.at, e), n, t) = [Keys(s.heap, n, t) EXCEPT ![s.at] = t[e]]
<1>1. PICK g : /\ g = Put(s.heap, s.at, e)
               /\ \A k \in 1..n : g.elements[k] = IF k = s.at THEN e ELSE s.heap.elements[k]
  BY PutIs
<1>2. s.heap \in Heap(n) /\ s.at \in 1..n
  BY DEF Holes
<1> QED
  BY <1>1, <1>2 DEF Keys

-----------------------------------------------------------------------------
(* The loops.  A set of holes that no turn leaves has the one the loop     *)
(* ends with, and there a further turn would change nothing.               *)

Lifts(s, t, e) == s.at > 1 /\ t[s.heap.elements[s.at \div 2]] > t[e]

Lowers(s, t, e) ==
    /\ s.at <= Len(s.heap.elements) \div 2
    /\ t[e] >= t[s.heap.elements[FirstChild(s.heap, t, s.at)]]

Rises(f, h, t, i, e) ==
    f = [k \in 0..i |-> IF k = 0 THEN HoleAt(h, i) ELSE Rise(f[k - 1], t, e)]

Sinks(f, h, t, i, e) ==
    f = [k \in 0..Len(h.elements) |-> IF k = 0 THEN HoleAt(h, i) ELSE Sink(f[k - 1], t, e)]

Turns(f, a, step, N) == \A k \in 0..N : f[k] = IF k = 0 THEN a ELSE step[f[k - 1]]

LEMMA LoopExists ==
    ASSUME NEW I, NEW a \in I, NEW step \in [I -> I], NEW N \in Nat
    PROVE  \E f \in [0..N -> I] : Turns(f, a, step, N)
<1> DEFINE steps == [k \in Nat |-> step]
<1>1. steps \in [Nat -> [I -> I]]
    OBVIOUS
<1>2. PICK f \in [0..N -> I] : Recursion(f, a, steps, N)
  <2> HIDE DEF steps
  <2> QED BY <1>1, RecursionExists
<1>3. Turns(f, a, step, N)
  <2>1. \A k \in 1..N : f[k] = step[f[k - 1]]
    BY <1>2 DEF Recursion
  <2> QED BY <1>2, <2>1 DEF Recursion, Turns
<1> QED BY <1>3

LEMMA RiseEnds ==
    ASSUME NEW h, NEW t, NEW i \in Nat, i > 0, NEW e, NEW I, HoleAt(h, i) \in I,
           \A s \in I : s.at \in Nat \ {0} /\ Rise(s, t, e) \in I
    PROVE  \E s \in I : shift_up(h, t, i, e) = Put(s.heap, s.at, e) /\ ~Lifts(s, t, e)
<1>1. \E f : Rises(f, h, t, i, e)
  <2>1. PICK step \in [I -> I] : \A s \in I : step[s] = Rise(s, t, e)
    <3>1. [s \in I |-> Rise(s, t, e)] \in [I -> I]
      OBVIOUS
    <3> QED BY <3>1
  <2>2. PICK a \in I : a = HoleAt(h, i)
    OBVIOUS
  <2>3. PICK f \in [0..i -> I] : Turns(f, a, step, i)
    BY LoopExists
  <2>4. ASSUME NEW k \in 0..i
        PROVE  f[k] = IF k = 0 THEN HoleAt(h, i) ELSE Rise(f[k - 1], t, e)
    <3>1. CASE k = 0
      BY <2>2, <2>3, <3>1 DEF Turns
    <3>2. CASE k # 0
      <4>1. f[k - 1] \in I /\ f[k] = step[f[k - 1]]
        BY <2>3, <3>2 DEF Turns
      <4> QED
        BY <2>1, <3>2, <4>1
    <3> QED BY <3>1, <3>2
  <2>5. f = [k \in 0..i |-> IF k = 0 THEN HoleAt(h, i) ELSE Rise(f[k - 1], t, e)]
    BY <2>4
  <2> QED BY <2>5 DEF Rises
<1>2. PICK f : f = CHOOSE g : Rises(g, h, t, i, e)
  OBVIOUS
<1>3. Rises(f, h, t, i, e)
  BY <1>1, <1>2
<1>4. shift_up(h, t, i, e) = Put(f[i].heap, f[i].at, e)
  BY <1>2 DEF shift_up, Rises
<1>5. f[0] = HoleAt(h, i) /\ \A k \in 1..i : f[k] = Rise(f[k - 1], t, e)
  BY <1>3 DEF Rises
<1> DEFINE K == {k \in Nat : k <= i => f[k] \in I /\ (Lifts(f[k], t, e) => f[k].at <= i - k)}
<1>6. 0 \in K
  BY <1>5 DEF HoleAt
<1>7. ASSUME NEW k \in Nat, k \in K
      PROVE  k + 1 \in K
  <2> SUFFICES ASSUME k + 1 <= i
               PROVE  f[k + 1] \in I /\ (Lifts(f[k + 1], t, e) => f[k + 1].at <= i - (k + 1))
    OBVIOUS
  <2>1. f[k] \in I /\ (Lifts(f[k], t, e) => f[k].at <= i - k)
    BY <1>7
  <2>2. f[k + 1] = Rise(f[k], t, e)
    BY <1>5
  <2>3. f[k + 1] \in I
    BY <2>1, <2>2
  <2>4. CASE ~Lifts(f[k], t, e)
    BY <2>2, <2>3, <2>4 DEF Lifts, Rise
  <2>5. CASE Lifts(f[k], t, e)
    <3>1. f[k + 1].at = f[k].at \div 2
      <4>1. PICK a : a = f[k]
        OBVIOUS
      <4>2. Rise(a, t, e) = Move(a, a.at \div 2)
        BY <2>5, <4>1, Zenon DEF Lifts, Rise
      <4>3. Move(a, a.at \div 2).at = a.at \div 2
        BY DEF Move, HoleAt
      <4> QED
        BY <2>2, <4>1, <4>2, <4>3, Zenon
    <3>2. \A m \in Nat \ {0} : m \div 2 <= m - 1
      OBVIOUS
    <3> QED
      BY <2>1, <2>3, <2>5, <3>1, <3>2
  <2> QED BY <2>4, <2>5
<1>8. i \in K
  <2> HIDE DEF K
  <2> QED BY <1>6, <1>7, SetInduction
<1>9. f[i] \in I /\ ~Lifts(f[i], t, e)
  BY <1>8
<1> QED
  BY <1>4, <1>9

LEMMA SinkEnds ==
    ASSUME NEW h, NEW t, NEW n \in Nat, Len(h.elements) = n, NEW i \in 1..n, NEW e, NEW I,
           HoleAt(h, i) \in I,
           \A s \in I : s.at \in 1..n /\ Len(s.heap.elements) = n /\ Sink(s, t, e) \in I
    PROVE  \E s \in I : shift_down(h, t, i, e) = Put(s.heap, s.at, e) /\ ~Lowers(s, t, e)
<1>1. \E f : Sinks(f, h, t, i, e)
  <2>1. PICK step \in [I -> I] : \A s \in I : step[s] = Sink(s, t, e)
    <3>1. [s \in I |-> Sink(s, t, e)] \in [I -> I]
      OBVIOUS
    <3> QED BY <3>1
  <2>2. PICK a \in I : a = HoleAt(h, i)
    OBVIOUS
  <2>3. PICK f \in [0..n -> I] : Turns(f, a, step, n)
    BY LoopExists
  <2>4. ASSUME NEW k \in 0..n
        PROVE  f[k] = IF k = 0 THEN HoleAt(h, i) ELSE Sink(f[k - 1], t, e)
    <3>1. CASE k = 0
      BY <2>2, <2>3, <3>1 DEF Turns
    <3>2. CASE k # 0
      <4>1. f[k - 1] \in I /\ f[k] = step[f[k - 1]]
        BY <2>3, <3>2 DEF Turns
      <4> QED
        BY <2>1, <3>2, <4>1
    <3> QED BY <3>1, <3>2
  <2>5. f = [k \in 0..n |-> IF k = 0 THEN HoleAt(h, i) ELSE Sink(f[k - 1], t, e)]
    BY <2>4
  <2> QED BY <2>5 DEF Sinks
<1>2. PICK f : f = CHOOSE g : Sinks(g, h, t, i, e)
  OBVIOUS
<1>3. Sinks(f, h, t, i, e)
  BY <1>1, <1>2
<1>4. shift_down(h, t, i, e) = Put(f[n].heap, f[n].at, e)
  BY <1>2 DEF shift_down, Sinks
<1>5. f[0] = HoleAt(h, i) /\ \A k \in 1..n : f[k] = Sink(f[k - 1], t, e)
  BY <1>3 DEF Sinks
<1> DEFINE K == {k \in Nat : k <= n => f[k] \in I /\ (Lowers(f[k], t, e) => f[k].at > k)}
<1>6. 0 \in K
  BY <1>5 DEF HoleAt
<1>7. ASSUME NEW k \in Nat, k \in K
      PROVE  k + 1 \in K
  <2> SUFFICES ASSUME k + 1 <= n
               PROVE  f[k + 1] \in I /\ (Lowers(f[k + 1], t, e) => f[k + 1].at > k + 1)
    OBVIOUS
  <2>1. f[k] \in I /\ (Lowers(f[k], t, e) => f[k].at > k)
    BY <1>7
  <2>2. f[k + 1] = Sink(f[k], t, e)
    BY <1>5
  <2>3. f[k + 1] \in I
    BY <2>1, <2>2
  <2>4. CASE ~Lowers(f[k], t, e)
    BY <2>2, <2>3, <2>4 DEF Lowers, Sink
  <2>5. CASE Lowers(f[k], t, e)
    <3>1. f[k + 1].at = FirstChild(f[k].heap, t, f[k].at)
      BY <2>2, <2>5 DEF Lowers, Sink, Move, HoleAt
    <3>2. f[k].at \in 1..n
      BY <2>1
    <3>3. FirstChild(f[k].heap, t, f[k].at) > f[k].at
      BY <3>2 DEF FirstChild
    <3> QED
      BY <2>1, <2>3, <2>5, <3>1, <3>2, <3>3
  <2> QED BY <2>4, <2>5
<1>8. n \in K
  <2> HIDE DEF K
  <2> QED BY <1>6, <1>7, SetInduction
<1>9. f[n] \in I /\ ~Lowers(f[n], t, e)
  <2>1. f[n] \in I /\ (Lowers(f[n], t, e) => f[n].at > n)
    BY <1>8
  <2> QED BY <2>1
<1> QED
  BY <1>4, <1>9

-----------------------------------------------------------------------------
(* The operations: what they do to the indices. *)

WellIndexed(h, n) ==
    /\ h \in Heap(n)
    /\ \A j \in 1..n : h.idx[h.elements[j]] = j
    /\ \A f \in Timer : h.idx[f] # 0 => h.idx[f] \in 1..n /\ h.elements[h.idx[f]] = f

LEMMA RiseIs ==
    ASSUME NEW n \in Nat, NEW s \in Holes(n), NEW t, NEW e
    PROVE  /\ Lifts(s, t, e) => /\ Rise(s, t, e) = Move(s, s.at \div 2)
                                /\ s.at \in 2..n /\ s.at \div 2 \in 1..n /\ s.at \div 2 # s.at
           /\ ~Lifts(s, t, e) => Rise(s, t, e) = s
BY DEF Rise, Lifts, Holes

Lowered(s, t, e, c) ==
    /\ c = FirstChild(s.heap, t, s.at) /\ c # s.at /\ c \div 2 = s.at
    /\ Sink(s, t, e) = Move(s, c)

LEMMA SinkIs ==
    ASSUME NEW n \in Nat, NEW s \in Holes(n), NEW t, NEW e
    PROVE  /\ Lowers(s, t, e) => \E c \in 2..n : Lowered(s, t, e, c)
           /\ ~Lowers(s, t, e) => Sink(s, t, e) = s
<1>1. s.at \in 1..n /\ Len(s.heap.elements) = n
  BY DEF Holes, Heap
<1>2. ASSUME Lowers(s, t, e)
      PROVE  \E c \in 2..n : Lowered(s, t, e, c)
  <2>1. PICK c : c = FirstChild(s.heap, t, s.at)
    OBVIOUS
  <2>2. Sink(s, t, e) = Move(s, c)
    BY <1>2, <2>1 DEF Sink, Lowers
  <2>3. s.at <= n \div 2
    BY <1>1, <1>2 DEF Lowers
  <2>4. c = 2 * s.at \/ (c = 2 * s.at + 1 /\ c <= n)
    BY <1>1, <2>1 DEF FirstChild
  <2>5. c \in 2..n /\ c # s.at /\ c \div 2 = s.at
    BY <1>1, <2>3, <2>4, SMTT(30)
  <2> QED
    BY <2>1, <2>2, <2>5 DEF Lowered
<1>3. ~Lowers(s, t, e) => Sink(s, t, e) = s
  BY DEF Sink, Lowers
<1> QED
  BY <1>2, <1>3

(* The hole a push begins with is at the end of the array. *)
PushStart(a, h, n, t, e) ==
    /\ a.at = n + 1
    /\ \A j \in 1..n : a.heap.elements[j] = h.elements[j]
    /\ a.heap.idx = h.idx
    /\ min_heap_push(h, t, e) = shift_up(a.heap, t, n + 1, e)
    /\ a = HoleAt(a.heap, n + 1)

LEMMA PushStarts ==
    ASSUME NEW n \in Nat, NEW h \in Heap(n), NEW t, NEW e \in Timer
    PROVE  \E a \in Holes(n + 1) : PushStart(a, h, n, t, e)
<1>1. PICK s \in Seq(Timer) : s = h.elements /\ Len(s) = n
  BY DEF Heap
<1>2. PICK r : r = Append(s, e) /\ r \in Seq(Timer) /\ Len(r) = n + 1 /\ \A j \in 1..n : r[j] = s[j]
  <2>1. /\ Append(s, e) \in Seq(Timer) /\ Len(Append(s, e)) = n + 1
        /\ \A j \in 1..n : Append(s, e)[j] = s[j]
    BY <1>1, AppendProperties
  <2> QED
    BY <2>1, Zenon
<1>3. r \in [1..n + 1 -> Timer]
  <2>1. DOMAIN r = 1..Len(r) /\ r = [j \in DOMAIN r |-> r[j]] /\ \A j \in 1..Len(r) : r[j] \in Timer
    BY <1>2, LenProperties, ElementOfSeq
  <2> QED
    BY <1>2, <2>1
<1>4. PICK g : g = [h EXCEPT !.elements = r]
  OBVIOUS
<1>5. g \in Heap(n + 1) /\ g.elements = r /\ g.idx = h.idx
  BY <1>3, <1>4 DEF Heap
<1>6. PICK a : a = HoleAt(g, n + 1)
  OBVIOUS
<1>7. a \in Holes(n + 1) /\ a.at = n + 1 /\ a.heap = g
  BY <1>5, <1>6 DEF HoleAt, Holes
<1>8. min_heap_push(h, t, e) = shift_up(g, t, n + 1, e)
  BY <1>1, <1>2, <1>4 DEF min_heap_push
<1>9. PushStart(a, h, n, t, e)
  BY <1>1, <1>2, <1>5, <1>6, <1>7, <1>8 DEF PushStart
<1> QED
  BY <1>7, <1>9

LEMMA PushIndexes ==
    ASSUME NEW n \in Nat, NEW h, WellIndexed(h, n), NEW t, NEW e \in Timer, h.idx[e] = 0
    PROVE  /\ WellIndexed(min_heap_push(h, t, e), n + 1)
           /\ \A f \in Timer : min_heap_push(h, t, e).idx[f] # 0 <=> h.idx[f] # 0 \/ f = e
<1>0. PICK m \in Nat : m = n + 1
  OBVIOUS
<1> DEFINE X == {e, e}
<1> DEFINE I == {s \in Holes(m) : Indexed(s, m, X) /\ Known(s, m, X) /\ Holds(s, h, X)}
<1>1. PICK a \in Holes(m) : PushStart(a, h, n, t, e)
  BY <1>0, PushStarts DEF WellIndexed
<1>2. a \in I
  <2>1. h.elements \in [1..n -> Timer] /\ \A j \in 1..n : h.elements[j] # e
    BY DEF WellIndexed, Heap
  <2>2. Indexed(a, m, X)
    BY <1>0, <1>1 DEF PushStart, Indexed, WellIndexed
  <2>3. Known(a, m, X)
    BY <1>0, <1>1, <2>1 DEF PushStart, Known, WellIndexed
  <2>4. Holds(a, h, X)
    BY <1>1 DEF PushStart, Holds
  <2> QED
    BY <2>2, <2>3, <2>4
<1>3. ASSUME NEW s \in I
      PROVE  s.at \in Nat \ {0} /\ Rise(s, t, e) \in I
  <2>1. s \in Holes(m) /\ Indexed(s, m, X) /\ Known(s, m, X) /\ Holds(s, h, X)
    BY <1>3
  <2>2. CASE ~Lifts(s, t, e)
    BY <2>1, <2>2, RiseIs DEF Holes
  <2>3. CASE Lifts(s, t, e)
    <3>1. PICK p \in 1..m : p # s.at /\ Rise(s, t, e) = Move(s, p)
      BY <2>1, <2>3, RiseIs
    <3>2. Indexed(Move(s, p), m, X)
      BY <2>1, <3>1, MoveIndexed
    <3>3. Known(Move(s, p), m, X) /\ Holds(Move(s, p), h, X)
      BY <2>1, <3>1, MoveKnown
    <3> QED
      BY <2>1, <3>1, <3>2, <3>3 DEF Indexed, Holes
  <2> QED
    BY <2>2, <2>3
<1>4. PICK s \in I : min_heap_push(h, t, e) = Put(s.heap, s.at, e)
  <2> HIDE DEF I
  <2>1. n + 1 \in Nat /\ n + 1 > 0 /\ HoleAt(a.heap, n + 1) \in I
    BY <1>1, <1>2 DEF PushStart
  <2>2. \E s \in I : shift_up(a.heap, t, n + 1, e) = Put(s.heap, s.at, e) /\ ~Lifts(s, t, e)
    BY <1>3, <2>1, RiseEnds
  <2> QED
    BY <1>1, <2>2 DEF PushStart
<1>5. PICK g : g = Put(s.heap, s.at, e)
  OBVIOUS
<1>6. s \in Holes(m) /\ Indexed(s, m, X) /\ Known(s, m, X) /\ Holds(s, h, X)
  BY <1>4
<1>7. FilledIndexed(g, m, e, e) /\ FilledKnown(g, m, e, e)
  BY <1>5, <1>6, PutIndexed, PutKnown
<1>8. WellIndexed(g, m)
  BY <1>7 DEF WellIndexed, FilledIndexed, FilledKnown
<1>9. \A f \in Timer : g.idx[f] # 0 <=> h.idx[f] # 0 \/ f = e
  <2>1. s.at # 0 /\ \A f \in Timer : g.idx[f] = IF f = e THEN s.at ELSE s.heap.idx[f]
    BY <1>5, <1>6, PutIs DEF Holes
  <2> QED
    BY <1>6, <2>1 DEF Holds
<1> QED
  BY <1>0, <1>4, <1>5, <1>8, <1>9

(* A heap in order stays so. *)
LEMMA PushSorts ==
    ASSUME NEW n \in Nat, NEW h \in Heap(n), NEW t \in [Timer -> Nat], NEW e \in Timer,
           Sorted(Keys(h, n, t), Parent(n), n)
    PROVE  Sorted(Keys(min_heap_push(h, t, e), n + 1, t), Parent(n + 1), n + 1)
<1>1. PICK m \in Nat : m = n + 1
  OBVIOUS
<1>2. PICK up \in [2..m -> 1..m] : up = Parent(m) /\ \A j \in 2..m : up[j] = j \div 2 /\ up[j] < j
  BY ParentIs
<1> DEFINE I == {s \in Holes(m) : /\ Around(Keys(s.heap, m, t), up, m, s.at)
                                  /\ Over(Keys(s.heap, m, t), up, m, s.at, t[e])}
<1>3. PICK a \in Holes(m) : PushStart(a, h, n, t, e)
  BY <1>1, PushStarts
<1>4. a \in I
  <2>1. PICK key \in [1..m -> Nat] : key = Keys(a.heap, m, t)
    BY KeysType DEF Holes
  <2>2. \A j \in 1..n : key[j] = Keys(h, n, t)[j]
    <3>1. \A j \in 1..n : j \in 1..m
      BY <1>1
    <3>2. \A j \in 1..n : key[j] = t[a.heap.elements[j]]
      BY <2>1, <3>1 DEF Keys
    <3> QED
      BY <1>3, <3>2 DEF PushStart, Keys
  <2>3. a.at = m
    BY <1>1, <1>3 DEF PushStart
  <2>4. \A j \in 2..m : up[j] # m
    BY <1>2
  <2>5. ASSUME NEW j \in 2..m, j # m
        PROVE  key[up[j]] <= key[j]
    <3>0. m = n + 1 /\ up[j] \in 1..m /\ up[j] < j
      BY <1>1, <1>2
    <3>1. j \in 2..n /\ j \in 1..n /\ up[j] \in 1..n
      BY <2>5, <3>0
    <3>2. up[j] = Parent(n)[j]
      BY <1>2, <3>1, ParentIs
    <3>3. Keys(h, n, t)[Parent(n)[j]] <= Keys(h, n, t)[j]
      BY <3>1 DEF Sorted
    <3> QED
      BY <2>2, <3>1, <3>2, <3>3
  <2> QED
    BY <2>1, <2>3, <2>4, <2>5 DEF Around, Over
<1>5. ASSUME NEW s \in I
      PROVE  s.at \in Nat \ {0} /\ Rise(s, t, e) \in I
  <2>1. PICK key \in [1..m -> Nat] : key = Keys(s.heap, m, t)
    BY KeysType DEF Holes
  <2>2. s \in Holes(m) /\ Around(key, up, m, s.at) /\ Over(key, up, m, s.at, t[e])
    BY <1>5, <2>1
  <2>3. CASE ~Lifts(s, t, e)
    BY <2>2, <2>3, RiseIs DEF Holes
  <2>4. CASE Lifts(s, t, e)
    <3>1. s.at \in 2..m /\ up[s.at] \in 1..m /\ Rise(s, t, e) = Move(s, up[s.at])
      BY <1>2, <2>2, <2>4, RiseIs
    <3>2. t[e] \in Nat /\ t[e] < key[up[s.at]]
      BY <1>2, <2>1, <2>4, <3>1 DEF Lifts, Keys
    <3>3. PICK p \in 1..m : p = up[s.at]
      BY <3>1
    <3>4. PICK r : r = Move(s, p)
      OBVIOUS
    <3> s \in Holes(m)
      BY <2>2
    <3> HIDE DEF I
    <3>5. IsMove(r, s, p, m)
      BY <3>4, MoveIs
    <3>6. Keys(r.heap, m, t) = Copied(key, s.at, p)
      BY <2>1, <3>4, MoveKeys, Zenon
    <3>7. PICK new : new = Copied(key, s.at, p) /\ new = [key EXCEPT ![s.at] = key[p]]
      BY DEF Copied
    <3>8. Around(new, up, m, p) /\ Over(new, up, m, p, t[e])
      BY <1>2, <2>2, <3>1, <3>2, <3>3, <3>7, RiseSorts
    <3> QED
      <4>1. r \in Holes(m) /\ r.at = p
        BY <3>5, Zenon DEF IsMove
      <4>2. Around(Keys(r.heap, m, t), up, m, r.at) /\ Over(Keys(r.heap, m, t), up, m, r.at, t[e])
        BY <3>6, <3>7, <3>8, <4>1, Zenon
      <4>3. r \in I
        BY <4>1, <4>2, Zenon DEF I
      <4>4. \A j \in 2..m : j \in Nat \ {0}
        OBVIOUS
      <4> QED
        BY <3>1, <3>3, <3>4, <4>3, <4>4, Zenon
  <2> QED
    BY <2>3, <2>4
<1>6. PICK s \in I : min_heap_push(h, t, e) = Put(s.heap, s.at, e) /\ ~Lifts(s, t, e)
  <2> HIDE DEF I
  <2>1. n + 1 \in Nat /\ n + 1 > 0 /\ HoleAt(a.heap, n + 1) \in I
    BY <1>3, <1>4 DEF PushStart
  <2>2. \E s \in I : shift_up(a.heap, t, n + 1, e) = Put(s.heap, s.at, e) /\ ~Lifts(s, t, e)
    BY <1>5, <2>1, RiseEnds
  <2> QED
    BY <1>3, <2>2 DEF PushStart
<1>7. PICK key \in [1..m -> Nat] : key = Keys(s.heap, m, t)
  BY KeysType DEF Holes
<1>8. s \in Holes(m) /\ Around(key, up, m, s.at) /\ Over(key, up, m, s.at, t[e])
  BY <1>6, <1>7
<1>9. s.at \in 1..m /\ t[e] \in Nat /\ Under(key, up, s.at, t[e])
  BY <1>2, <1>6, <1>7, <1>8 DEF Lifts, Keys, Under, Holes
<1>10. Sorted([key EXCEPT ![s.at] = t[e]], up, m)
  BY <1>2, <1>8, <1>9, PutSorts
<1>11. Keys(Put(s.heap, s.at, e), m, t) = [key EXCEPT ![s.at] = t[e]]
  BY <1>7, <1>8, PutKeys
<1> QED
  BY <1>1, <1>2, <1>6, <1>10, <1>11

-----------------------------------------------------------------------------
(* Taking a timer out: the last one fills its place. *)

Shorter(h, n, g) ==
    /\ g \in Heap(n - 1)
    /\ \A j \in 1..n - 1 : g.elements[j] = h.elements[j]
    /\ g.idx = h.idx

LEMMA FrontIs ==
    ASSUME NEW n \in Nat, n > 0, NEW h \in Heap(n)
    PROVE  Shorter(h, n, [h EXCEPT !.elements = Front(@)])
<1>1. PICK s \in Seq(Timer) : s = h.elements /\ Len(s) = n
  BY DEF Heap
<1>2. /\ SubSeq(s, 1, n - 1) \in Seq(Timer) /\ Len(SubSeq(s, 1, n - 1)) = n - 1
      /\ \A j \in 1..n - 1 : SubSeq(s, 1, n - 1)[j] = s[j]
  <2>1. \A j \in 1..n - 1 : s[j] \in Timer
    BY <1>1, ElementOfSeq
  <2> QED
    BY <1>1, <2>1, SubSeqProperties
<1>3. PICK r : r = Front(s)
  OBVIOUS
<1>4. r \in Seq(Timer) /\ Len(r) = n - 1 /\ \A j \in 1..n - 1 : r[j] = s[j]
  BY <1>1, <1>2, <1>3 DEF Front
<1>5. r \in [1..n - 1 -> Timer]
  BY <1>4, LenProperties
<1>6. PICK g : g = [h EXCEPT !.elements = r]
  OBVIOUS
<1>7. g \in Heap(n - 1) /\ g.elements = r /\ g.idx = h.idx
  BY <1>5, <1>6 DEF Heap
<1>8. g = [h EXCEPT !.elements = Front(@)]
  BY <1>1, <1>3, <1>6
<1> QED
  BY <1>1, <1>4, <1>7, <1>8 DEF Shorter

(* A place other than the last: the hole the shift begins with. *)
FillStart(a, h, n, t, i) ==
    /\ a.at = i
    /\ Shorter(h, n, a.heap)
    /\ Fill(h, t, i) = shift_down(a.heap, t, i, h.elements[n])
    /\ a = HoleAt(a.heap, i)

LEMMA FillStarts ==
    ASSUME NEW n \in Nat, NEW h \in Heap(n), NEW t, NEW i \in 1..n - 1
    PROVE  \E a \in Holes(n - 1) : FillStart(a, h, n, t, i)
<1>1. n > 0 /\ Len(h.elements) = n /\ i # n
  BY DEF Heap
<1>2. PICK g : g = [h EXCEPT !.elements = Front(@)] /\ Shorter(h, n, g)
  BY <1>1, FrontIs
<1>3. PICK a : a = HoleAt(g, i)
  OBVIOUS
<1>4. a.at = i /\ a.heap = g /\ a \in Holes(n - 1)
  BY <1>2, <1>3 DEF HoleAt, Holes, Shorter
<1>5. Fill(h, t, i) = shift_down(g, t, i, h.elements[n])
  BY <1>1, <1>2 DEF Fill, Last
<1>6. FillStart(a, h, n, t, i)
  BY <1>2, <1>3, <1>4, <1>5 DEF FillStart
<1> QED
  BY <1>4, <1>6

(* Timer r, at position i, leaves heap h, which becomes g. *)
Leaves(g, h, t, i, r) == r = h.elements[i] /\ g = [Fill(h, t, i) EXCEPT !.idx[r] = 0]

Left(g, h, n, r) ==
    /\ WellIndexed(g, n - 1)
    /\ \A f \in Timer : g.idx[f] # 0 <=> h.idx[f] # 0 /\ f # r

LEMMA FillIndexes ==
    ASSUME NEW n \in Nat, NEW h, WellIndexed(h, n), NEW t, NEW i \in 1..n,
           NEW r, NEW g, Leaves(g, h, t, i, r)
    PROVE  Left(g, h, n, r)
<1>0. r = h.elements[i] /\ g = [Fill(h, t, i) EXCEPT !.idx[r] = 0]
  BY DEF Leaves
<1>1. h \in Heap(n) /\ h.elements \in [1..n -> Timer] /\ Len(h.elements) = n /\ r \in Timer
  BY <1>0 DEF WellIndexed, Heap
<1>2. CASE i = n
  <2>1. Shorter(h, n, Fill(h, t, i))
    BY <1>1, <1>2, FrontIs DEF Fill
  <2>2. PICK s \in Heap(n - 1) : s = Fill(h, t, i) /\ s.idx = h.idx
                                 /\ \A j \in 1..n - 1 : s.elements[j] = h.elements[j]
    BY <2>1 DEF Shorter
  <2>3. /\ g \in Heap(n - 1) /\ g.elements = s.elements
        /\ \A f \in Timer : g.idx[f] = IF f = r THEN 0 ELSE h.idx[f]
    BY <1>0, <1>1, <2>2 DEF Heap
  <2>4. \A j \in 1..n - 1 : h.elements[j] # r /\ h.elements[j] \in Timer /\ j # n /\ j \in 1..n
    BY <1>0, <1>1, <1>2 DEF WellIndexed
  <2>5. \A j \in 1..n - 1 : g.idx[g.elements[j]] = j
    BY <2>2, <2>3, <2>4 DEF WellIndexed
  <2>6. ASSUME NEW f \in Timer, g.idx[f] # 0
        PROVE  g.idx[f] \in 1..n - 1 /\ g.elements[g.idx[f]] = f
    <3>1. f # r /\ g.idx[f] = h.idx[f] /\ h.idx[f] # 0
      BY <2>3, <2>6
    <3>2. h.idx[f] \in 1..n /\ h.elements[h.idx[f]] = f
      BY <3>1 DEF WellIndexed
    <3>3. h.idx[f] # n
      BY <1>0, <1>2, <3>1, <3>2
    <3> QED
      BY <2>2, <2>3, <3>1, <3>2, <3>3
  <2> QED
    BY <2>3, <2>5, <2>6 DEF WellIndexed, Left
<1>3. CASE i # n
  <2>1. PICK m \in Nat, e \in Timer : m = n - 1 /\ e = h.elements[n] /\ n \in 1..n
    BY <1>1
  <2>2. e # r /\ i \in 1..m
    BY <1>0, <1>3, <2>1 DEF WellIndexed
  <2> DEFINE X == {e, r}
             I == {s \in Holes(m) : Indexed(s, m, X) /\ Known(s, m, X) /\ Holds(s, h, X)}
  <2>3. PICK a \in Holes(m) : FillStart(a, h, n, t, i)
    BY <1>1, <2>1, <2>2, FillStarts
  <2>4. a \in I
    <3>1. /\ a.at = i /\ a.heap.idx = h.idx
          /\ \A j \in 1..m : a.heap.elements[j] = h.elements[j] /\ j # n /\ j \in 1..n
      BY <2>1, <2>3 DEF FillStart, Shorter
    <3>2. ASSUME NEW f \in Timer \ X, h.idx[f] # 0
          PROVE  h.idx[f] \in 1..m /\ h.idx[f] # i /\ a.heap.elements[h.idx[f]] = f
      <4>1. h.idx[f] \in 1..n /\ h.elements[h.idx[f]] = f
        BY <3>2 DEF WellIndexed
      <4>2. h.idx[f] # n /\ h.idx[f] # i
        BY <1>0, <2>1, <4>1
      <4> QED
        BY <2>1, <3>1, <4>1, <4>2
    <3>3. Indexed(a, m, X)
      BY <3>1, <3>2 DEF Indexed
    <3>4. Known(a, m, X)
      BY <1>0, <2>1, <3>1 DEF Known, WellIndexed
    <3>5. Holds(a, h, X)
      BY <3>1 DEF Holds
    <3> QED
      BY <3>3, <3>4, <3>5
  <2>5. ASSUME NEW s \in I
        PROVE  s.at \in 1..m /\ Len(s.heap.elements) = m /\ Sink(s, t, e) \in I
    <3>1. s \in Holes(m) /\ Indexed(s, m, X) /\ Known(s, m, X) /\ Holds(s, h, X)
      BY <2>5
    <3>2. s.at \in 1..m /\ Len(s.heap.elements) = m
      BY <3>1 DEF Holes, Heap
    <3>3. CASE ~Lowers(s, t, e)
      BY <3>1, <3>2, <3>3, SinkIs
    <3>4. CASE Lowers(s, t, e)
      <4>1. PICK c \in 1..m : c # s.at /\ Sink(s, t, e) = Move(s, c)
        BY <3>1, <3>4, SinkIs DEF Lowered
      <4>2. Indexed(Move(s, c), m, X)
        BY <3>1, <4>1, MoveIndexed
      <4>3. Known(Move(s, c), m, X) /\ Holds(Move(s, c), h, X)
        BY <3>1, <4>1, MoveKnown
      <4> QED
        BY <3>2, <4>1, <4>2, <4>3 DEF Indexed
    <3> QED
      BY <3>3, <3>4
  <2>6. PICK s \in I : Fill(h, t, i) = Put(s.heap, s.at, e)
    <3> HIDE DEF I
    <3>1. Len(a.heap.elements) = m /\ HoleAt(a.heap, i) \in I
      BY <2>3, <2>4, <2>5 DEF FillStart
    <3>2. \E s \in I : shift_down(a.heap, t, i, e) = Put(s.heap, s.at, e) /\ ~Lowers(s, t, e)
      BY <2>2, <2>5, <3>1, SinkEnds
    <3> QED
      BY <2>1, <2>3, <3>2 DEF FillStart
  <2>7. PICK p : p = Put(s.heap, s.at, e)
    OBVIOUS
  <2>8. s \in Holes(m) /\ Indexed(s, m, X) /\ Known(s, m, X) /\ Holds(s, h, X)
    BY <2>6
  <2>9. FilledIndexed(p, m, e, r) /\ FilledKnown(p, m, e, r)
    BY <2>7, <2>8, PutIndexed, PutKnown
  <2>10. \A f \in Timer : f # r => (p.idx[f] # 0 <=> h.idx[f] # 0)
    <3>1. s.at # 0 /\ \A f \in Timer : p.idx[f] = IF f = e THEN s.at ELSE s.heap.idx[f]
      BY <2>7, <2>8, PutIs DEF Holes
    <3>2. h.idx[e] # 0
      BY <2>1 DEF WellIndexed
    <3> QED
      BY <2>8, <3>1, <3>2 DEF Holds
  <2>11. /\ g \in Heap(m) /\ g.elements = p.elements /\ p \in Heap(m)
         /\ \A f \in Timer : g.idx[f] = IF f = r THEN 0 ELSE p.idx[f]
    BY <1>0, <1>1, <2>6, <2>7, <2>9 DEF FilledIndexed, Heap
  <2>12. \A j \in 1..m : g.idx[g.elements[j]] = j
    <3>1. \A j \in 1..m : p.elements[j] \in Timer /\ p.elements[j] # r /\ p.idx[p.elements[j]] = j
      BY <2>2, <2>9, <2>11 DEF FilledKnown, Heap
    <3> QED
      BY <2>11, <3>1
  <2>13. \A f \in Timer : g.idx[f] # 0 => g.idx[f] \in 1..m /\ g.elements[g.idx[f]] = f
    BY <2>9, <2>11 DEF FilledIndexed
  <2>14. WellIndexed(g, m)
    BY <2>11, <2>12, <2>13 DEF WellIndexed
  <2> QED
    BY <2>1, <2>10, <2>11, <2>14 DEF Left
<1> QED
  BY <1>2, <1>3

(* The child that is compared comes before its sibling. *)
First(c, key, n, at) ==
    \A j \in 2..n : j \div 2 = at => c \in 2..n /\ key[c] <= key[j] /\ at <= n \div 2

LEMMA ChildIsFirst ==
    ASSUME NEW n \in Nat, NEW s \in Holes(n), NEW t \in [Timer -> Nat],
           NEW key, key = Keys(s.heap, n, t), NEW c, c = FirstChild(s.heap, t, s.at)
    PROVE  First(c, key, n, s.at)
<1>1. PICK d \in Nat : d = 2 * s.at
  BY DEF Holes
<1>2. \A k \in 1..n : key[k] = t[s.heap.elements[k]] /\ key[k] \in Nat
  BY KeysType DEF Holes
<1>3. \/ c = d + 1 /\ d + 1 <= n /\ t[s.heap.elements[d + 1]] < t[s.heap.elements[d]]
      \/ c = d /\ ~(d + 1 <= n /\ t[s.heap.elements[d + 1]] < t[s.heap.elements[d]])
  <2>1. Len(s.heap.elements) = n
    BY DEF Holes, Heap
  <2> QED
    BY <1>1, <2>1 DEF FirstChild
<1>4. ASSUME NEW j \in 2..n, j \div 2 = s.at
      PROVE  c \in 2..n /\ key[c] <= key[j] /\ s.at <= n \div 2
  <2>1. (j = d \/ j = d + 1) /\ s.at <= n \div 2 /\ d \in 2..n
    BY <1>1, <1>4 DEF Holes
  <2>2. d \in 1..n /\ j \in 1..n /\ (d + 1 <= n => d + 1 \in 2..n /\ d + 1 \in 1..n)
    BY <2>1
  <2>3. \/ c = d + 1 /\ d + 1 <= n /\ key[d + 1] < key[d]
        \/ c = d /\ ~(d + 1 <= n /\ key[d + 1] < key[d])
    BY <1>2, <1>3, <2>2
  <2> QED
    BY <1>2, <2>1, <2>2, <2>3
<1> QED
  BY <1>4 DEF First

LEMMA FillSorts ==
    ASSUME NEW n \in Nat, n > 0, NEW h \in Heap(n), NEW t \in [Timer -> Nat],
           Sorted(Keys(h, n, t), Parent(n), n)
    PROVE  Sorted(Keys(Fill(h, t, 1), n - 1, t), Parent(n - 1), n - 1)
<1>1. PICK m \in Nat : m = n - 1
  OBVIOUS
<1>2. CASE m = 0
  BY <1>1, <1>2 DEF Sorted
<1>3. CASE m > 0
  <2>1. PICK e \in Timer : e = h.elements[n]
    BY DEF Heap
  <2>2. PICK up \in [2..m -> 1..m] : up = Parent(m) /\ \A j \in 2..m : up[j] = j \div 2 /\ up[j] < j
    BY ParentIs
  <2>3. 1 \in 1..m /\ t[e] \in Nat
    BY <1>3
  <2>4. PICK a \in Holes(m) : FillStart(a, h, n, t, 1)
    BY <1>1, <2>3, FillStarts
  <2> DEFINE I == {s \in Holes(m) : /\ Around(Keys(s.heap, m, t), up, m, s.at)
                                    /\ Under(Keys(s.heap, m, t), up, s.at, t[e])}
  <2>5. a \in I
    <3>1. PICK key \in [1..m -> Nat] : key = Keys(a.heap, m, t)
      BY KeysType DEF Holes
    <3>2. a.at = 1 /\ \A j \in 1..m : key[j] = Keys(h, n, t)[j]
      <4>1. a.at = 1 /\ \A j \in 1..m : j \in 1..n /\ a.heap.elements[j] = h.elements[j]
        BY <1>1, <2>4 DEF FillStart, Shorter
      <4> QED
        BY <3>1, <4>1 DEF Keys
    <3>3. ASSUME NEW j \in 2..m
          PROVE  key[up[j]] <= key[j]
      <4>1. j \in 2..n /\ j \in 1..m /\ up[j] \in 1..m
        BY <1>1, <2>2, SMTT(30)
      <4>2. up[j] = Parent(n)[j]
        BY <2>2, <4>1, ParentIs
      <4>3. Keys(h, n, t)[Parent(n)[j]] <= Keys(h, n, t)[j]
        BY <4>1 DEF Sorted
      <4> QED
        BY <3>2, <4>1, <4>2, <4>3
    <3> QED
      BY <3>1, <3>2, <3>3, SMTT(30) DEF Around, Under
  <2>6. ASSUME NEW s \in I
        PROVE  s.at \in 1..m /\ Len(s.heap.elements) = m /\ Sink(s, t, e) \in I
    <3>1. PICK key \in [1..m -> Nat] : key = Keys(s.heap, m, t)
      BY KeysType DEF Holes
    <3>2. s \in Holes(m) /\ Around(key, up, m, s.at) /\ Under(key, up, s.at, t[e])
      BY <2>6, <3>1
    <3>3. s.at \in 1..m /\ Len(s.heap.elements) = m
      BY <3>2 DEF Holes, Heap
    <3>4. CASE ~Lowers(s, t, e)
      BY <2>6, <3>2, <3>3, <3>4, SinkIs
    <3>5. CASE Lowers(s, t, e)
      <4> s \in Holes(m)
        BY <3>2
      <4> HIDE DEF I
      <4>1. PICK c \in 2..m : Lowered(s, t, e, c)
        BY <3>5, SinkIs
      <4>2. c \in 1..m /\ up[c] = s.at
        BY <2>2, <4>1 DEF Lowered
      <4>3. \A j \in 2..m : up[j] = s.at => key[c] <= key[j]
        <5>1. First(c, key, m, s.at)
          BY <3>1, <4>1, ChildIsFirst DEF Lowered
        <5> QED
          BY <2>2, <5>1 DEF First
      <4>4. t[e] >= key[c]
        BY <3>1, <3>5, <4>1, <4>2 DEF Lowers, Lowered, Keys
      <4>5. PICK r : r = Move(s, c)
        OBVIOUS
      <4>6. IsMove(r, s, c, m)
        BY <4>2, <4>5, MoveIs
      <4>7. Keys(r.heap, m, t) = Copied(key, s.at, c)
        <5> HIDE DEF I
        <5>1. PICK d \in 1..m : d = c
          BY <4>2, Zenon
        <5> s \in Holes(m)
          BY <3>2, Zenon
        <5>2. Keys(Move(s, d).heap, m, t) = Copied(Keys(s.heap, m, t), s.at, d)
          BY MoveKeys, Zenon
        <5> QED
          BY <3>1, <4>5, <5>1, <5>2, Zenon
      <4>8. PICK new : new = [key EXCEPT ![s.at] = key[c]]
        OBVIOUS
      <4>9. Around(new, up, m, c) /\ Under(new, up, c, t[e])
        BY <2>2, <2>3, <3>2, <3>3, <4>2, <4>3, <4>4, <4>8, SinkSorts
      <4>10. Keys(r.heap, m, t) = new
        BY <4>7, <4>8, Zenon DEF Copied
      <4> QED
        BY <3>3, <4>1, <4>5, <4>6, <4>9, <4>10 DEF I, IsMove, Lowered
    <3> QED
      BY <3>4, <3>5
  <2>7. PICK s \in I : Fill(h, t, 1) = Put(s.heap, s.at, e) /\ ~Lowers(s, t, e)
    <3> HIDE DEF I
    <3>1. Len(a.heap.elements) = m /\ HoleAt(a.heap, 1) \in I
      BY <2>4, <2>5, <2>6 DEF FillStart
    <3>2. \E s \in I : shift_down(a.heap, t, 1, e) = Put(s.heap, s.at, e) /\ ~Lowers(s, t, e)
      <4>1. PICK i \in 1..m : i = 1
        BY <2>3
      <4>2. \E q \in I : shift_down(a.heap, t, i, e) = Put(q.heap, q.at, e) /\ ~Lowers(q, t, e)
        <5>1. Len(a.heap.elements) = m /\ HoleAt(a.heap, i) \in I
          BY <3>1, <4>1, Zenon
        <5> QED
          BY <2>6, <5>1, SinkEnds, SMTT(30)
      <4> QED
        BY <4>1, <4>2, Zenon
    <3> QED
      BY <2>1, <2>4, <3>2 DEF FillStart
  <2>8. PICK key \in [1..m -> Nat] : key = Keys(s.heap, m, t)
    BY KeysType DEF Holes
  <2>9. s \in Holes(m) /\ Around(key, up, m, s.at) /\ Under(key, up, s.at, t[e])
    BY <2>7, <2>8
  <2>10. s.at \in 1..m /\ Len(s.heap.elements) = m
    BY <2>9 DEF Holes, Heap
  <2>11. ASSUME NEW j \in 2..m, up[j] = s.at
         PROVE  t[e] <= key[j]
    <3>1. PICK c : c = FirstChild(s.heap, t, s.at)
      OBVIOUS
    <3>2. c \in 2..m /\ key[c] <= key[j] /\ s.at <= m \div 2
      <4> HIDE DEF I
      <4>1. First(c, key, m, s.at)
        BY <2>8, <2>9, <3>1, ChildIsFirst
      <4> QED
        BY <2>2, <2>11, <4>1 DEF First
    <3>3. key[c] = t[s.heap.elements[c]] /\ c \in 1..m /\ j \in 1..m
      BY <2>8, <3>2 DEF Keys
    <3>4. ~(t[e] >= key[c])
      BY <2>7, <2>10, <3>1, <3>2, <3>3 DEF Lowers
    <3> QED
      BY <2>3, <3>2, <3>3, <3>4
  <2>12. Sorted([key EXCEPT ![s.at] = t[e]], up, m)
    BY <2>2, <2>3, <2>9, <2>10, <2>11, PutSorts DEF Over
  <2>13. Keys(Put(s.heap, s.at, e), m, t) = [key EXCEPT ![s.at] = t[e]]
    <3> s \in Holes(m)
      BY <2>9
    <3> HIDE DEF I
    <3>1. Keys(Put(s.heap, s.at, e), m, t) = [Keys(s.heap, m, t) EXCEPT ![s.at] = t[e]]
      BY <1>1, <2>1, PutKeys
    <3> QED
      BY <2>8, <3>1
  <2> QED
    BY <1>1, <2>2, <2>7, <2>12, <2>13
<1> QED
  BY <1>1, <1>2, <1>3

-----------------------------------------------------------------------------
(* The invariant. *)

HeapInv ==
    /\ heap.elements \in Seq(Timer)
    /\ WellIndexed(heap, Len(heap.elements))

QueueInv ==
    /\ queue \in Seq(Timer) /\ IsInjective(queue)
    /\ Len(queue) = Len(heap.elements)
    /\ \A f \in Timer : f \in ToSet(queue) <=> heap.idx[f] # 0

HistoryInv == time \in [Timer -> Time] /\ last \in Time /\ deleted \in BOOLEAN

(* What del_timer breaks: no timer comes before its parent, and none is    *)
(* for a time before the one that ran last.                                *)
OrderInv ==
    ~deleted =>
        /\ Sorted(Keys(heap, Len(heap.elements), time), Parent(Len(heap.elements)), Len(heap.elements))
        /\ \A f \in Timer : heap.idx[f] # 0 => last <= time[f]

TimerHeapInv == HeapInv /\ QueueInv /\ HistoryInv /\ OrderInv

LEMMA HeapLen ==
    ASSUME NEW n \in Nat, NEW h \in Heap(n)
    PROVE  h.elements \in Seq(Timer) /\ Len(h.elements) = n
BY DEF Heap

(* Times of timers that are not in the heap do not matter. *)
LEMMA KeysAgree ==
    ASSUME NEW n \in Nat, NEW h, NEW t, NEW u, \A j \in 1..n : t[h.elements[j]] = u[h.elements[j]]
    PROVE  Keys(h, n, t) = Keys(h, n, u)
BY DEF Keys

LEMMA HeapStart == Init => TimerHeapInv
<1> SUFFICES ASSUME Init PROVE TimerHeapInv
  OBVIOUS
<1>1. heap.elements = <<>> /\ heap.idx = [e \in Timer |-> 0] /\ queue = <<>>
      /\ heap = [elements |-> <<>>, idx |-> [e \in Timer |-> 0]]
  BY DEF Init, EmptyHeap
<1>2. <<>> \in Seq(Timer) /\ Len(<<>>) = 0
  BY EmptySeq
<1>3. HeapInv
  BY <1>1, <1>2 DEF HeapInv, WellIndexed, Heap
<1>4. QueueInv
  BY <1>1, <1>2 DEF QueueInv, IsInjective, ToSet
<1>5. HistoryInv
  BY TimeAssumption DEF Init, HistoryInv
<1>6. OrderInv
  BY <1>1, <1>2 DEF OrderInv, Sorted
<1> QED
  BY <1>3, <1>4, <1>5, <1>6 DEF TimerHeapInv

LEMMA PushKeeps ==
    ASSUME TimerHeapInv, NEW e \in Timer, NEW msec \in Time, Push(e, msec)
    PROVE  TimerHeapInv'
<1>1. PICK n \in Nat : n = Len(heap.elements)
  BY LenProperties DEF TimerHeapInv, HeapInv
<1>2. WellIndexed(heap, n) /\ heap \in Heap(n) /\ heap.idx[e] = 0
  BY <1>1 DEF TimerHeapInv, HeapInv, QueueInv, WellIndexed, Push
<1>3. /\ time \in [Timer -> Nat] /\ time' \in [Timer -> Nat] /\ time' \in [Timer -> Time]
      /\ \A f \in Timer : time'[f] = IF f = e THEN msec ELSE time[f]
  BY TimeAssumption DEF TimerHeapInv, HistoryInv, Push
<1>4. heap' = min_heap_push(heap, time', e)
  BY DEF Push
<1>5. WellIndexed(heap', n + 1) /\ \A f \in Timer : heap'.idx[f] # 0 <=> heap.idx[f] # 0 \/ f = e
  BY <1>2, <1>4, PushIndexes
<1>6. heap'.elements \in Seq(Timer) /\ Len(heap'.elements) = n + 1
  <2>1. n + 1 \in Nat /\ heap' \in Heap(n + 1)
    BY <1>5 DEF WellIndexed
  <2> QED
    BY <2>1, HeapLen
<1>7. HeapInv'
  BY <1>5, <1>6 DEF HeapInv
<1>8. QueueInv'
  <2>1. queue \in Seq(Timer) /\ IsInjective(queue) /\ Len(queue) = n /\ e \notin ToSet(queue)
        /\ queue' = Append(queue, e)
    BY <1>1 DEF TimerHeapInv, QueueInv, Push
  <2>2. queue' \in Seq(Timer) /\ Len(queue') = n + 1
    BY <2>1, AppendProperties
  <2>3. IsInjective(queue') /\ ToSet(queue') = ToSet(queue) \cup {e}
    BY <2>1, AppendSet
  <2> QED
    BY <1>5, <1>6, <2>2, <2>3 DEF TimerHeapInv, QueueInv
<1>9. HistoryInv'
  BY <1>3 DEF TimerHeapInv, HistoryInv, Push
<1>10. OrderInv'
  <2> SUFFICES ASSUME ~deleted
               PROVE  /\ Sorted(Keys(heap', n + 1, time'), Parent(n + 1), n + 1)
                      /\ \A f \in Timer : heap'.idx[f] # 0 => last <= time'[f]
    BY <1>6 DEF OrderInv, Push
  <2>1. Sorted(Keys(heap, n, time), Parent(n), n) /\ \A f \in Timer : heap.idx[f] # 0 => last <= time[f]
    BY <1>1 DEF TimerHeapInv, OrderInv
  <2>2. Keys(heap, n, time) = Keys(heap, n, time')
    <3>1. \A j \in 1..n : heap.elements[j] \in Timer /\ heap.elements[j] # e
      BY <1>2 DEF WellIndexed, Heap
    <3> QED
      BY <1>3, <3>1, KeysAgree
  <2>3. Sorted(Keys(heap', n + 1, time'), Parent(n + 1), n + 1)
    BY <1>2, <1>3, <1>4, <2>1, <2>2, PushSorts
  <2>4. \A f \in Timer : heap'.idx[f] # 0 => last <= time'[f]
    BY <1>3, <1>5, <2>1 DEF Push
  <2> QED
    BY <2>3, <2>4
<1> QED
  BY <1>7, <1>8, <1>9, <1>10 DEF TimerHeapInv

(* What leaves the heap leaves the queue. *)
LEMMA QueueShrinks ==
    ASSUME NEW q \in Seq(Timer), IsInjective(q), NEW r \in ToSet(q)
    PROVE  /\ RemoveFirst(q, r) \in Seq(Timer) /\ IsInjective(RemoveFirst(q, r))
           /\ Len(RemoveFirst(q, r)) = Len(q) - 1
           /\ ToSet(RemoveFirst(q, r)) = ToSet(q) \ {r}
<1>1. \E k \in 1..Len(q) : q[k] = r
  BY LenProperties DEF ToSet
<1>2. Len(RemoveFirst(q, r)) = Len(q) - 1
  <2>1. PICK k \in 1..Len(q) : RemoveFirst(q, r) = RemoveAt(q, k)
    BY <1>1, RemoveFirstIsRemoveAt
  <2> QED
    BY <2>1, RemoveAtProperties
<1> QED
  BY <1>2, RemoveFirstType, RemoveFirstProperties

(* Both ways a timer leaves the heap. *)
LEMMA LeaveKeeps ==
    ASSUME TimerHeapInv, NEW n \in Nat, n = Len(heap.elements), NEW i \in 1..n,
           NEW r \in Timer, Leaves(heap', heap, time, i, r),
           queue' = RemoveFirst(queue, r),
           time' = [time EXCEPT ![r] = 0]
    PROVE  /\ HeapInv' /\ QueueInv' /\ time' \in [Timer -> Time]
           /\ Len(heap'.elements) = n - 1
           /\ Left(heap', heap, n, r)
<1>1. WellIndexed(heap, n) /\ heap.idx[r] # 0
  BY DEF TimerHeapInv, HeapInv, WellIndexed, Leaves
<1>2. Left(heap', heap, n, r)
  BY <1>1, FillIndexes
<1>3. heap'.elements \in Seq(Timer) /\ Len(heap'.elements) = n - 1
  <2>1. n - 1 \in Nat /\ heap' \in Heap(n - 1)
    BY <1>2 DEF WellIndexed, Left
  <2> QED
    BY <2>1, HeapLen
<1>4. HeapInv'
  BY <1>2, <1>3 DEF HeapInv, Left
<1>5. QueueInv'
  <2>1. queue \in Seq(Timer) /\ IsInjective(queue) /\ Len(queue) = n /\ r \in ToSet(queue)
    BY <1>1 DEF TimerHeapInv, QueueInv
  <2>2. /\ queue' \in Seq(Timer) /\ IsInjective(queue') /\ Len(queue') = n - 1
        /\ ToSet(queue') = ToSet(queue) \ {r}
    BY <2>1, QueueShrinks
  <2> QED
    BY <1>2, <1>3, <2>2 DEF TimerHeapInv, QueueInv, Left
<1>6. time' \in [Timer -> Time]
  BY TimeAssumption DEF TimerHeapInv, HistoryInv
<1> QED
  BY <1>2, <1>3, <1>4, <1>5, <1>6

PopOf(n, r) ==
    /\ n = Len(heap.elements) /\ 1 \in 1..n
    /\ heap.idx[r] = 1 /\ Leaves(heap', heap, time, 1, r)
    /\ queue' = RemoveFirst(queue, r)
    /\ time' = [time EXCEPT ![r] = 0]
    /\ last' = time[r] /\ deleted' = deleted

LEMMA PopIs ==
    ASSUME TimerHeapInv, Pop
    PROVE  \E n \in Nat, r \in Timer : PopOf(n, r)
<1>1. PICK s \in Seq(Timer) : s = heap.elements /\ s # <<>>
  BY DEF TimerHeapInv, HeapInv, Pop
<1>2. Len(s) \in Nat /\ 1 \in 1..Len(s) /\ s[1] \in Timer /\ Head(s) = s[1]
  <2>1. Len(s) \in Nat /\ Len(s) # 0
    BY <1>1, EmptySeq, LenProperties
  <2>2. 1 \in 1..Len(s)
    BY <2>1
  <2> QED
    BY <1>1, <2>1, <2>2, ElementOfSeq
<1>3. heap.idx[s[1]] = 1
  BY <1>1, <1>2 DEF TimerHeapInv, HeapInv, WellIndexed
<1>4. PopOf(Len(s), s[1])
  BY <1>1, <1>2, <1>3 DEF Pop, min_heap_pop, PopOf, Leaves
<1> QED
  BY <1>2, <1>4

LEMMA PopKeeps ==
    ASSUME TimerHeapInv, Pop
    PROVE  TimerHeapInv' /\ (~deleted => last <= last')
<1>0. PICK n \in Nat, r \in Timer : PopOf(n, r)
  BY PopIs
<1>1. /\ n = Len(heap.elements) /\ 1 \in 1..n
      /\ r = heap.elements[1] /\ heap.idx[r] = 1
      /\ heap' = [Fill(heap, time, 1) EXCEPT !.idx[r] = 0]
      /\ time' = [time EXCEPT ![r] = 0]
      /\ last' = time[r] /\ deleted' = deleted
  BY <1>0 DEF PopOf, Leaves
<1>2. /\ HeapInv' /\ QueueInv' /\ time' \in [Timer -> Time]
      /\ Len(heap'.elements) = n - 1
      /\ Left(heap', heap, n, r)
  BY <1>0, LeaveKeeps DEF PopOf
<1>3. HistoryInv'
  BY <1>0, <1>1, <1>2 DEF TimerHeapInv, HistoryInv
<1>4. ASSUME ~deleted
      PROVE  last <= last' /\ OrderInv'
  <2>1. WellIndexed(heap, n) /\ heap \in Heap(n) /\ n > 0 /\ time \in [Timer -> Nat]
    BY <1>1, TimeAssumption DEF TimerHeapInv, HeapInv, HistoryInv, WellIndexed
  <2>2. Sorted(Keys(heap, n, time), Parent(n), n) /\ \A f \in Timer : heap.idx[f] # 0 => last <= time[f]
    BY <1>1, <1>4 DEF TimerHeapInv, OrderInv
  <2>3. \A f \in Timer : heap.idx[f] # 0 => time[r] <= time[f]
    <3>1. \A j \in 1..n : Keys(heap, n, time)[1] <= Keys(heap, n, time)[j]
      BY <2>1, <2>2, KeysType, ParentIs, RootIsFirst
    <3>2. \A j \in 1..n : Keys(heap, n, time)[j] = time[heap.elements[j]]
      BY DEF Keys
    <3> QED
      BY <1>1, <2>1, <3>1, <3>2 DEF WellIndexed
  <2>4. n - 1 \in Nat /\ WellIndexed(heap', n - 1)
    BY <1>2, <2>1 DEF HeapInv
  <2>5. Keys(heap', n - 1, time') = Keys(Fill(heap, time, 1), n - 1, time)
    <3>1. \A j \in 1..n - 1 : heap'.elements[j] \in Timer /\ heap'.elements[j] # r
      <4>1. r \in Timer /\ heap'.idx[r] = 0
        BY <1>0, <1>2, <2>1 DEF Left, Heap
      <4>2. \A j \in 1..n - 1 : heap'.elements[j] \in Timer /\ heap'.idx[heap'.elements[j]] = j
        BY <2>4 DEF WellIndexed, Heap
      <4> QED
        BY <4>1, <4>2
    <3>2. time \in [Timer -> Nat] /\ \A j \in 1..n - 1 : time'[heap'.elements[j]] = time[heap'.elements[j]]
      BY <1>1, <2>1, <3>1
    <3>3. heap'.elements = Fill(heap, time, 1).elements
      BY <1>1, <2>4 DEF WellIndexed, Heap
    <3> QED
      BY <3>2, <3>3 DEF Keys
  <2>6. Sorted(Keys(heap', n - 1, time'), Parent(n - 1), n - 1)
    BY <2>1, <2>2, <2>5, FillSorts
  <2>7. \A f \in Timer : heap'.idx[f] # 0 => last' <= time'[f]
    BY <1>1, <1>2, <2>1, <2>3 DEF Left
  <2>8. OrderInv'
    BY <1>2, <2>6, <2>7 DEF OrderInv
  <2> QED
    BY <1>1, <2>2, <2>8
<1>5. OrderInv'
  BY <1>1, <1>4 DEF OrderInv
<1> QED
  BY <1>2, <1>3, <1>4, <1>5 DEF TimerHeapInv

LEMMA DeleteKeeps ==
    ASSUME TimerHeapInv, NEW e \in Timer, Delete(e)
    PROVE  TimerHeapInv'
<1>1. PICK n \in Nat : n = Len(heap.elements)
  BY LenProperties DEF TimerHeapInv, HeapInv
<1>2. heap.idx[e] # 0 /\ heap.idx[e] \in 1..n /\ heap.elements[heap.idx[e]] = e
  BY <1>1 DEF TimerHeapInv, HeapInv, QueueInv, WellIndexed, Delete
<1>3. HeapInv' /\ QueueInv' /\ time' \in [Timer -> Time]
  BY <1>1, <1>2, LeaveKeeps DEF Delete, min_heap_delete, Leaves
<1>4. HistoryInv' /\ OrderInv'
  BY <1>3 DEF TimerHeapInv, HistoryInv, OrderInv, Delete
<1> QED
  BY <1>3, <1>4 DEF TimerHeapInv

LEMMA StepKeeps == TimerHeapInv /\ [Next]_vars => TimerHeapInv'
<1> SUFFICES ASSUME TimerHeapInv, [Next]_vars
             PROVE  TimerHeapInv'
  OBVIOUS
<1>1. ASSUME NEW e \in Timer, NEW msec \in Time, Push(e, msec)
      PROVE  TimerHeapInv'
  BY <1>1, PushKeeps
<1>2. ASSUME NEW e \in Timer, Delete(e)
      PROVE  TimerHeapInv'
  BY <1>2, DeleteKeeps
<1>3. CASE Pop
  BY <1>3, PopKeeps
<1>4. CASE UNCHANGED vars
  BY <1>4 DEF vars, TimerHeapInv, HeapInv, QueueInv, HistoryInv, OrderInv
<1> QED
  BY <1>1, <1>2, <1>3, <1>4 DEF Next

LEMMA AlwaysInv == Spec => []TimerHeapInv
BY HeapStart, StepKeeps, PTL DEF Spec

(* The heap, the indices and the histories have the types they are said to *)
(* have.                                                                   *)
THEOREM TypeCorrect == Spec => []TypeOK
<1>1. TimerHeapInv => TypeOK
  <2> SUFFICES ASSUME TimerHeapInv PROVE TypeOK
    OBVIOUS
  <2>1. PICK n \in Nat : n = Len(heap.elements)
    BY LenProperties DEF TimerHeapInv, HeapInv
  <2>2. heap.idx \in [Timer -> 0..n]
    BY <2>1 DEF TimerHeapInv, HeapInv, WellIndexed, Heap
  <2> QED
    BY <2>1, <2>2 DEF TimerHeapInv, HeapInv, QueueInv, HistoryInv, TypeOK
<1> QED
  BY <1>1, AlwaysInv, PTL

(* Each timer that was set and has not run is in the heap once and knows   *)
(* its place there, deletions or not.                                      *)
THEOREM HeapCorrect == Spec => []HeapIsQueue
<1>1. TimerHeapInv => HeapIsQueue
  BY DEF TimerHeapInv, HeapInv, QueueInv, WellIndexed, HeapIsQueue
<1> QED
  BY <1>1, AlwaysInv, PTL

(* As long as no timer is deleted, timers run in the order of their times. *)
THEOREM OrderCorrect == Spec => InOrderUnlessDeleted
<1>1. TimerHeapInv /\ [Next]_vars => [~deleted => last' >= last]_last
  <2> SUFFICES ASSUME TimerHeapInv, [Next]_vars, last' # last, ~deleted
               PROVE  last' >= last
    OBVIOUS
  <2>1. Pop
    BY DEF Next, vars, Push, Delete
  <2>2. last <= last'
    BY <2>1, PopKeeps
  <2> QED
    BY <2>2
<1> QED
  BY <1>1, AlwaysInv, PTL DEF Spec, InOrderUnlessDeleted

-----------------------------------------------------------------------------
(* The loop of timers, MhTimer, which may set a timer that is set: it is   *)
(* in the array several times then, and its index is one of its places.    *)

(* A timer with an index is there. *)
Placed(h, n) ==
    /\ h \in Heap(n)
    /\ \A f \in Timer : h.idx[f] # 0 => h.idx[f] \in 1..n /\ h.elements[h.idx[f]] = f

LEMMA PushPlaces ==
    ASSUME NEW n \in Nat, NEW h, Placed(h, n), NEW t, NEW e \in Timer
    PROVE  Placed(min_heap_push(h, t, e), n + 1)
<1>0. PICK m \in Nat : m = n + 1
  OBVIOUS
<1> DEFINE X == {e, e}
           I == {s \in Holes(m) : Indexed(s, m, X)}
<1>1. PICK a \in Holes(m) : PushStart(a, h, n, t, e)
  BY <1>0, PushStarts DEF Placed
<1>2. a \in I
  BY <1>0, <1>1 DEF PushStart, Indexed, Placed
<1>3. ASSUME NEW s \in I
      PROVE  s.at \in Nat \ {0} /\ Rise(s, t, e) \in I
  <2>1. s \in Holes(m) /\ Indexed(s, m, X)
    BY <1>3
  <2>2. CASE ~Lifts(s, t, e)
    BY <2>1, <2>2, RiseIs DEF Holes
  <2>3. CASE Lifts(s, t, e)
    <3>1. PICK p \in 1..m : p # s.at /\ Rise(s, t, e) = Move(s, p)
      BY <2>1, <2>3, RiseIs
    <3>2. Indexed(Move(s, p), m, X)
      BY <2>1, <3>1, MoveIndexed
    <3> QED
      BY <2>1, <3>1, <3>2 DEF Indexed, Holes
  <2> QED
    BY <2>2, <2>3
<1>4. PICK s \in I : min_heap_push(h, t, e) = Put(s.heap, s.at, e)
  <2> HIDE DEF I
  <2>1. n + 1 \in Nat /\ n + 1 > 0 /\ HoleAt(a.heap, n + 1) \in I
    BY <1>1, <1>2 DEF PushStart
  <2>2. \E s \in I : shift_up(a.heap, t, n + 1, e) = Put(s.heap, s.at, e) /\ ~Lifts(s, t, e)
    BY <1>3, <2>1, RiseEnds
  <2> QED
    BY <1>1, <2>2 DEF PushStart
<1>5. PICK g : g = Put(s.heap, s.at, e)
  OBVIOUS
<1>6. FilledIndexed(g, m, e, e)
  BY <1>4, <1>5, PutIndexed
<1> QED
  BY <1>0, <1>4, <1>5, <1>6 DEF Placed, FilledIndexed

LEMMA FillPlaces ==
    ASSUME NEW n \in Nat, NEW h, Placed(h, n), NEW t, NEW i \in 1..n,
           NEW r, NEW g, Leaves(g, h, t, i, r)
    PROVE  Placed(g, n - 1)
<1>0. r = h.elements[i] /\ g = [Fill(h, t, i) EXCEPT !.idx[r] = 0]
  BY DEF Leaves
<1>1. h \in Heap(n) /\ h.elements \in [1..n -> Timer] /\ Len(h.elements) = n /\ r \in Timer
  BY <1>0 DEF Placed, Heap
<1>2. CASE i = n
  <2>1. Shorter(h, n, Fill(h, t, i))
    BY <1>1, <1>2, FrontIs DEF Fill
  <2>2. PICK s \in Heap(n - 1) : s = Fill(h, t, i) /\ s.idx = h.idx
                                 /\ \A j \in 1..n - 1 : s.elements[j] = h.elements[j]
    BY <2>1 DEF Shorter
  <2>3. /\ g \in Heap(n - 1) /\ g.elements = s.elements
        /\ \A f \in Timer : g.idx[f] = IF f = r THEN 0 ELSE h.idx[f]
    BY <1>0, <1>1, <2>2 DEF Heap
  <2>4. ASSUME NEW f \in Timer, g.idx[f] # 0
        PROVE  g.idx[f] \in 1..n - 1 /\ g.elements[g.idx[f]] = f
    <3>1. f # r /\ g.idx[f] = h.idx[f] /\ h.idx[f] # 0
      BY <2>3, <2>4
    <3>2. h.idx[f] \in 1..n /\ h.elements[h.idx[f]] = f
      BY <3>1 DEF Placed
    <3>3. h.idx[f] # n
      BY <1>0, <1>2, <3>1, <3>2
    <3> QED
      BY <2>2, <2>3, <3>1, <3>2, <3>3
  <2> QED
    BY <2>3, <2>4 DEF Placed
<1>3. CASE i # n
  <2>1. PICK m \in Nat, e \in Timer : m = n - 1 /\ e = h.elements[n] /\ i \in 1..m
    BY <1>1, <1>3
  <2> DEFINE X == {e, r}
             I == {s \in Holes(m) : Indexed(s, m, X)}
  <2>2. PICK a \in Holes(m) : FillStart(a, h, n, t, i)
    BY <1>1, <2>1, FillStarts
  <2>3. a \in I
    <3>1. /\ a.at = i /\ a.heap.idx = h.idx
          /\ \A j \in 1..m : a.heap.elements[j] = h.elements[j]
      BY <2>1, <2>2 DEF FillStart, Shorter
    <3>2. ASSUME NEW f \in Timer \ X, h.idx[f] # 0
          PROVE  h.idx[f] \in 1..m /\ h.idx[f] # i /\ a.heap.elements[h.idx[f]] = f
      <4>1. h.idx[f] \in 1..n /\ h.elements[h.idx[f]] = f
        BY <3>2 DEF Placed
      <4>2. h.idx[f] # n /\ h.idx[f] # i
        BY <1>0, <2>1, <4>1
      <4> QED
        BY <2>1, <3>1, <4>1, <4>2
    <3> QED
      BY <3>1, <3>2 DEF Indexed
  <2>4. ASSUME NEW s \in I
        PROVE  s.at \in 1..m /\ Len(s.heap.elements) = m /\ Sink(s, t, e) \in I
    <3>1. s \in Holes(m) /\ Indexed(s, m, X)
      BY <2>4
    <3>2. s.at \in 1..m /\ Len(s.heap.elements) = m
      BY <3>1 DEF Holes, Heap
    <3>3. CASE ~Lowers(s, t, e)
      BY <3>1, <3>2, <3>3, SinkIs
    <3>4. CASE Lowers(s, t, e)
      <4>1. PICK c \in 1..m : c # s.at /\ Sink(s, t, e) = Move(s, c)
        BY <3>1, <3>4, SinkIs DEF Lowered
      <4>2. Indexed(Move(s, c), m, X)
        BY <3>1, <4>1, MoveIndexed
      <4> QED
        BY <3>2, <4>1, <4>2 DEF Indexed
    <3> QED
      BY <3>3, <3>4
  <2>5. PICK s \in I : Fill(h, t, i) = Put(s.heap, s.at, e)
    <3> HIDE DEF I
    <3>1. Len(a.heap.elements) = m /\ HoleAt(a.heap, i) \in I
      BY <2>2, <2>3, <2>4 DEF FillStart
    <3>2. \E s \in I : shift_down(a.heap, t, i, e) = Put(s.heap, s.at, e) /\ ~Lowers(s, t, e)
      BY <2>1, <2>4, <3>1, SinkEnds
    <3> QED
      BY <2>1, <2>2, <3>2 DEF FillStart
  <2>6. PICK p : p = Put(s.heap, s.at, e)
    OBVIOUS
  <2>7. FilledIndexed(p, m, e, r)
    BY <2>5, <2>6, PutIndexed
  <2>8. /\ g \in Heap(m) /\ g.elements = p.elements
        /\ \A f \in Timer : g.idx[f] = IF f = r THEN 0 ELSE p.idx[f]
    BY <1>0, <1>1, <2>5, <2>6, <2>7 DEF FilledIndexed, Heap
  <2> QED
    BY <2>1, <2>7, <2>8 DEF Placed, FilledIndexed
<1> QED
  BY <1>2, <1>3

PlacesInv ==
    /\ heap.elements \in Seq(Timer)
    /\ Placed(heap, Len(heap.elements))

ClockInv ==
    /\ now \in 0..Horizon /\ cur \in 0..Horizon
    /\ time \in [Timer -> 0..W - 1]
    /\ interval \in [Timer -> Delay \cup {0}]
    /\ phase \in {"wait", "serve", "expire"}
    /\ wake \in -1..Horizon + W
    /\ phase = "expire" => cur <= now

LEMMA PlacesAfter ==
    ASSUME NEW n \in Nat, NEW h, Placed(h, n), heap' = h
    PROVE  PlacesInv'
<1>1. h.elements \in Seq(Timer) /\ Len(h.elements) = n
  BY HeapLen DEF Placed
<1> QED
  BY <1>1 DEF PlacesInv

LEMMA PlacesOf ==
    ASSUME PlacesInv
    PROVE  \E n \in Nat : n = Len(heap.elements) /\ Placed(heap, n) /\ heap \in Heap(n)
<1>1. Len(heap.elements) \in Nat
  BY LenProperties DEF PlacesInv
<1> QED
  BY <1>1 DEF PlacesInv, Placed

LEMMA SetTypes ==
    ASSUME PlacesInv, ClockInv, NEW e \in Timer, NEW msec \in 1..W - 1,
           msec \in Delay, Set(e, msec)
    PROVE  /\ PlacesInv'
           /\ time' \in [Timer -> 0..W - 1] /\ interval' \in [Timer -> Delay \cup {0}]
<1>1. (now + msec) % W \in 0..W - 1
  BY ClockAssumption DEF ClockInv
<1>2. time' \in [Timer -> 0..W - 1] /\ interval' \in [Timer -> Delay \cup {0}]
  BY <1>1 DEF ClockInv, Set
<1>3. heap' = min_heap_push(heap, time', e)
  BY DEF Set
<1>4. PICK n \in Nat : Placed(heap, n)
  BY PlacesOf
<1>5. Placed(min_heap_push(heap, time', e), n + 1) /\ n + 1 \in Nat
  BY <1>4, PushPlaces
<1> QED
  BY <1>2, <1>3, <1>5, PlacesAfter

(* What reset_timer sets a timer for. *)
LEMMA SetDelay ==
    ASSUME ClockInv, NEW e \in Timer, NEW msec \in Delay \cup {0}, reset_timer(e, msec)
    PROVE  \E d \in Delay : Set(e, d)
<1>1. PICK d : d = IF msec > 0 THEN msec ELSE interval[e]
  OBVIOUS
<1>2. Set(e, d) /\ interval[e] # 0
  BY <1>1 DEF reset_timer
<1>3. d \in Delay
  <2>1. interval[e] \in Delay
    BY <1>2 DEF ClockInv
  <2> QED
    BY <1>1, <2>1
<1> QED
  BY <1>2, <1>3

LEMMA PopPlaces ==
    ASSUME PlacesInv, heap.elements # <<>>, heap' = min_heap_pop(heap, time)
    PROVE  PlacesInv'
<1>1. PICK n \in Nat : n = Len(heap.elements) /\ Placed(heap, n)
  BY PlacesOf
<1>2. 1 \in 1..n /\ Head(heap.elements) = heap.elements[1]
  <2>1. PICK s \in Seq(Timer) : s = heap.elements /\ s # <<>>
    BY DEF PlacesInv
  <2>2. Len(s) \in Nat /\ Len(s) # 0 /\ Head(s) = s[1]
    BY <2>1, EmptySeq, LenProperties
  <2> QED
    BY <1>1, <2>1, <2>2
<1>3. PICK r : r = heap.elements[1]
  OBVIOUS
<1>4. Leaves(heap', heap, time, 1, r)
  BY <1>2, <1>3 DEF min_heap_pop, Leaves
<1>5. Placed(heap', n - 1)
  BY <1>1, <1>2, <1>4, FillPlaces
<1>6. n - 1 \in Nat
  BY <1>1, <1>2
<1> QED
  BY <1>5, <1>6, PlacesAfter

LEMMA DeletePlaces ==
    ASSUME PlacesInv, NEW e \in Timer, heap' = min_heap_delete(heap, time, e)
    PROVE  PlacesInv'
<1>1. PICK n \in Nat : n = Len(heap.elements) /\ Placed(heap, n)
  BY PlacesOf
<1>2. CASE heap.idx[e] = 0
  BY <1>2 DEF min_heap_delete, PlacesInv
<1>3. CASE heap.idx[e] # 0
  <2>1. PICK i \in 1..n : i = heap.idx[e] /\ heap.elements[i] = e
    BY <1>1, <1>3 DEF Placed
  <2>2. Leaves(heap', heap, time, i, e)
    BY <1>3, <2>1 DEF min_heap_delete, Leaves
  <2>3. Placed(heap', n - 1)
    BY <1>1, <2>1, <2>2, FillPlaces
  <2>4. n - 1 \in Nat
    BY <1>1, <2>1
  <2> QED
    BY <2>3, <2>4, PlacesAfter
<1> QED
  BY <1>2, <1>3

(* epoll_wait is not given more than the range of the clock. *)
LEMMA NearestType ==
    ASSUME ClockInv, PlacesInv
    PROVE  find_nearest_expire_timer \in -1..W
<1>1. CASE heap.elements = <<>>
  BY <1>1, ClockAssumption DEF find_nearest_expire_timer
<1>2. CASE heap.elements # <<>>
  <2>1. PICK s \in Seq(Timer) : s = heap.elements /\ s # <<>>
    BY <1>2 DEF PlacesInv
  <2>2. Head(s) \in Timer
    BY <2>1, HeadTailProperties
  <2>3. PICK x \in 0..W - 1 : x = time[Head(s)]
    BY <2>2 DEF ClockInv
  <2>4. W \in Nat /\ W > 0 /\ now \in Nat
    BY ClockAssumption DEF ClockInv
  <2>5. PICK d \in Int : d = ((x - now + (W \div 2)) % W) - (W \div 2) /\ d <= W
    <3>1. PICK y \in Int, z \in Nat : z = W \div 2 /\ y = x - now + z
      BY <2>3, <2>4
    <3>2. PICK r \in 0..W - 1 : r = y % W
      BY <2>4, <3>1
    <3>3. r - z \in Int /\ r - z <= W
      BY <2>4, <3>1, <3>2
    <3>4. ((x - now + (W \div 2)) % W) - (W \div 2) = r - z
      BY <3>1, <3>2
    <3> QED
      BY <3>3, <3>4
  <2>6. find_nearest_expire_timer = IF d > 0 THEN d ELSE 0
    BY <1>2, <2>1, <2>3, <2>5 DEF find_nearest_expire_timer
  <2> QED
    BY <2>5, <2>6, ClockAssumption
<1> QED
  BY <1>1, <1>2

LEMMA LoopStart == LoopInit => PlacesInv /\ ClockInv
<1> SUFFICES ASSUME LoopInit PROVE PlacesInv /\ ClockInv
  OBVIOUS
<1>1. heap = [elements |-> <<>>, idx |-> [e \in Timer |-> 0]]
  BY DEF LoopInit, EmptyHeap
<1>2. heap.elements = <<>> /\ heap.idx = [e \in Timer |-> 0] /\ <<>> \in Seq(Timer) /\ Len(<<>>) = 0
  BY <1>1, EmptySeq
<1>3. PlacesInv
  BY <1>1, <1>2 DEF PlacesInv, Placed, Heap
<1>4. ClockInv
  BY ClockAssumption DEF LoopInit, ClockInv
<1> QED
  BY <1>3, <1>4

LEMMA LoopStep ==
    ASSUME PlacesInv, ClockInv, [LoopNext]_loopVars
    PROVE  PlacesInv' /\ ClockInv'
<1> DEFINE others == <<now, phase, wake, cur>>
<1>1. ASSUME NEW e \in Timer, NEW msec \in Delay, Set(e, msec), UNCHANGED others
      PROVE  PlacesInv' /\ ClockInv'
  <2>1. msec \in 1..W - 1
    BY ClockAssumption
  <2> QED
    BY <1>1, <2>1, SetTypes DEF ClockInv
<1>2. ASSUME UNCHANGED <<time, interval>>, UNCHANGED others
      PROVE  ClockInv'
  BY <1>2 DEF ClockInv
<1>3. ASSUME UNCHANGED heap
      PROVE  PlacesInv'
  BY <1>3 DEF PlacesInv
<1>4. ASSUME NEW e \in Timer, NEW msec \in Delay, add_timer(e, msec)
      PROVE  PlacesInv' /\ ClockInv'
  BY <1>1, <1>4 DEF add_timer
<1>5. ASSUME NEW e \in Timer, NEW msec \in Delay \cup {0}, reset_timer(e, msec)
      PROVE  PlacesInv' /\ ClockInv'
  BY <1>1, <1>5, SetDelay DEF reset_timer
<1>6. ASSUME NEW e \in Timer, del_timer(e)
      PROVE  PlacesInv' /\ ClockInv'
  <2>1. heap' = min_heap_delete(heap, time, e)
    BY <1>6 DEF del_timer
  <2> QED
    BY <1>2, <1>6, <2>1, DeletePlaces DEF del_timer
<1>7. CASE Expire
  <2>1. heap.elements # <<>> /\ heap' = min_heap_pop(heap, time)
    BY <1>7 DEF Expire, Expired
  <2> QED
    BY <1>2, <1>7, <2>1, PopPlaces DEF Expire
<1>8. CASE Sleep
  <2>1. wake' \in -1..Horizon + W
    BY <1>8, NearestType, ClockAssumption DEF Sleep, ClockInv
  <2> QED
    BY <1>3, <1>8, <2>1, ClockAssumption DEF Sleep, timers, ClockInv
<1>9. CASE Tick \/ Event \/ Timeout \/ Served \/ UNCHANGED loopVars
  BY <1>3, <1>9, ClockAssumption DEF Tick, Event, Timeout, Served, loopVars, timers, ClockInv
<1> QED
  BY <1>4, <1>5, <1>6, <1>7, <1>8, <1>9 DEF LoopNext

(* Under any calls of the handlers, deletions and timers that are set      *)
(* while they are set included, the indices are positions of the array and *)
(* times stay in the range of the clock.                                   *)
THEOREM LoopTypeCorrect == LoopSpec => []LoopTypeOK
<1>1. PlacesInv /\ ClockInv => LoopTypeOK
  <2> SUFFICES ASSUME PlacesInv, ClockInv PROVE LoopTypeOK
    OBVIOUS
  <2>1. heap.idx \in [Timer -> 0..Len(heap.elements)]
    <3>1. PICK n \in Nat : n = Len(heap.elements) /\ Placed(heap, n)
      BY PlacesOf
    <3>2. heap.idx \in [Timer -> 0..n]
      BY <3>1 DEF Placed, Heap
    <3> QED
      BY <3>1, <3>2
  <2> QED
    BY <2>1 DEF PlacesInv, ClockInv, LoopTypeOK
<1> QED
  BY <1>1, LoopStart, LoopStep, PTL DEF LoopSpec

-----------------------------------------------------------------------------
(* The heap as a bag: how many of its positions hold timers of a set S.    *)

Among(h, n, S) == {k \in 1..n : h.elements[k] \in S}

Count(h, n, S) == Cardinality(Among(h, n, S))

One(e, S) == IF e \in S THEN 1 ELSE 0

(* The positions that are not the hole. *)
Others(s, n, S) == {k \in 1..n : k # s.at /\ s.heap.elements[k] \in S}

LEMMA CountType ==
    ASSUME NEW n \in Nat, NEW h, NEW S
    PROVE  IsFiniteSet(Among(h, n, S)) /\ Count(h, n, S) \in Nat
<1>1. IsFiniteSet(1..n) /\ Among(h, n, S) \subseteq 1..n
  BY FS_Interval DEF Among
<1> QED
  BY <1>1, FS_Subset, FS_CardinalityType DEF Count

LEMMA MoveCounts ==
    ASSUME NEW n \in Nat, NEW s \in Holes(n), NEW j \in 1..n, j # s.at, NEW S
    PROVE  Cardinality(Others(Move(s, j), n, S)) = Cardinality(Others(s, n, S))
<1>1. PICK m : m = Move(s, j) /\ IsMove(m, s, j, n)
  BY MoveIs
<1>2. PICK i \in 1..n : i = s.at
  BY DEF Holes
<1>3. m.at = j /\ \A k \in 1..n : m.heap.elements[k] =
                        IF k = i THEN s.heap.elements[j] ELSE s.heap.elements[k]
  BY <1>1, <1>2 DEF IsMove
<1> DEFINE B == {k \in 1..n : k # i /\ k # j /\ s.heap.elements[k] \in S}
<1>4. IsFiniteSet(B) /\ Cardinality(B) \in Nat /\ i \notin B /\ j \notin B
  <2>1. IsFiniteSet(1..n)
    BY FS_Interval
  <2>2. B \subseteq 1..n /\ i \notin B /\ j \notin B
    OBVIOUS
  <2> HIDE DEF B
  <2> QED
    BY <2>1, <2>2, FS_Subset, FS_CardinalityType
<1>5. CASE s.heap.elements[j] \in S
  <2>1. Others(m, n, S) = B \cup {i} /\ Others(s, n, S) = B \cup {j}
    BY <1>2, <1>3, <1>5 DEF Others
  <2> HIDE DEF B
  <2> QED
    BY <1>1, <1>4, <2>1, FS_AddElement, SMTT(30)
<1>6. CASE s.heap.elements[j] \notin S
  <2>1. Others(m, n, S) = B /\ Others(s, n, S) = B
    BY <1>2, <1>3, <1>6 DEF Others
  <2> QED
    BY <1>1, <2>1
<1> QED
  BY <1>5, <1>6

LEMMA PutCounts ==
    ASSUME NEW n \in Nat, NEW s \in Holes(n), NEW e \in Timer, NEW S
    PROVE  Count(Put(s.heap, s.at, e), n, S) = Cardinality(Others(s, n, S)) + One(e, S)
<1>1. PICK g : g = Put(s.heap, s.at, e)
               /\ \A k \in 1..n : g.elements[k] = IF k = s.at THEN e ELSE s.heap.elements[k]
  BY PutIs
<1>2. s.at \in 1..n
  BY DEF Holes
<1>3. IsFiniteSet(Others(s, n, S)) /\ Cardinality(Others(s, n, S)) \in Nat /\ s.at \notin Others(s, n, S)
  <2>1. IsFiniteSet(1..n) /\ Others(s, n, S) \subseteq 1..n
    BY FS_Interval DEF Others
  <2> QED
    BY <2>1, FS_Subset, FS_CardinalityType DEF Others
<1>4. CASE e \in S
  <2>1. Among(g, n, S) = Others(s, n, S) \cup {s.at}
    BY <1>1, <1>2, <1>4 DEF Among, Others
  <2> QED
    BY <1>1, <1>3, <1>4, <2>1, FS_AddElement DEF Count, One
<1>5. CASE e \notin S
  <2>1. Among(g, n, S) = Others(s, n, S)
    BY <1>1, <1>2, <1>5 DEF Among, Others
  <2> QED
    BY <1>1, <1>3, <1>5, <2>1 DEF Count, One
<1> QED
  BY <1>4, <1>5

(* Pushing adds one element, however often it is there already.            *)
LEMMA PushCounts ==
    ASSUME NEW n \in Nat, NEW h \in Heap(n), NEW t, NEW e \in Timer, NEW S
    PROVE  Count(min_heap_push(h, t, e), n + 1, S) = Count(h, n, S) + One(e, S)
<1>0. PICK m \in Nat : m = n + 1
  OBVIOUS
<1>1. PICK a \in Holes(m) : PushStart(a, h, n, t, e)
  BY <1>0, PushStarts
<1> DEFINE I == {s \in Holes(m) : Cardinality(Others(s, m, S)) = Count(h, n, S)}
<1>2. a \in I
  <2>1. Others(a, m, S) = Among(h, n, S)
    BY <1>0, <1>1 DEF PushStart, Others, Among
  <2> QED
    BY <2>1 DEF Count
<1>3. ASSUME NEW s \in I
      PROVE  s.at \in Nat \ {0} /\ Rise(s, t, e) \in I
  <2>1. CASE ~Lifts(s, t, e)
    BY <1>3, <2>1, RiseIs DEF Holes
  <2>2. CASE Lifts(s, t, e)
    <3>1. s \in Holes(m)
      BY <1>3
    <3>2. PICK p \in 1..m : p # s.at /\ Rise(s, t, e) = Move(s, p)
      BY <2>2, <3>1, RiseIs
    <3>3. Cardinality(Others(Move(s, p), m, S)) = Cardinality(Others(s, m, S))
      BY <3>1, <3>2, MoveCounts
    <3>4. Move(s, p) \in Holes(m)
      BY <3>1, <3>2, MoveIs, Zenon DEF IsMove
    <3>5. s.at \in Nat \ {0}
      BY <3>1 DEF Holes
    <3> QED
      BY <1>3, <3>2, <3>3, <3>4, <3>5
  <2> QED
    BY <2>1, <2>2
<1>4. PICK s \in I : min_heap_push(h, t, e) = Put(s.heap, s.at, e)
  <2> HIDE DEF I
  <2>1. n + 1 \in Nat /\ n + 1 > 0 /\ HoleAt(a.heap, n + 1) \in I
    BY <1>1, <1>2 DEF PushStart
  <2>2. \E s \in I : shift_up(a.heap, t, n + 1, e) = Put(s.heap, s.at, e) /\ ~Lifts(s, t, e)
    BY <1>3, <2>1, RiseEnds
  <2> QED
    BY <1>1, <2>2 DEF PushStart
<1>5. Count(Put(s.heap, s.at, e), m, S) = Cardinality(Others(s, m, S)) + One(e, S)
  BY <1>4, PutCounts
<1> QED
  BY <1>0, <1>4, <1>5

LEMMA HoleIs ==
    ASSUME NEW n \in Nat, NEW s \in Holes(n)
    PROVE  s.at \in 1..n /\ s.heap \in Heap(n) /\ Len(s.heap.elements) = n
BY DEF Holes, Heap

(* Filling the place of an element takes one out.                          *)
LEMMA FillCounts ==
    ASSUME NEW n \in Nat, NEW h \in Heap(n), NEW t, NEW i \in 1..n, NEW S
    PROVE  /\ Fill(h, t, i) \in Heap(n - 1)
           /\ Count(Fill(h, t, i), n - 1, S) + One(h.elements[i], S) = Count(h, n, S)
<1>1. h.elements \in [1..n -> Timer] /\ Len(h.elements) = n
  BY DEF Heap
<1>2. PICK m \in Nat, e \in Timer, r \in Timer : m = n - 1 /\ e = h.elements[n] /\ r = h.elements[i]
  BY <1>1
<1> DEFINE Rest(x) == {k \in 1..n : k # x /\ h.elements[k] \in S}
<1>3. ASSUME NEW x \in 1..n
      PROVE  /\ IsFiniteSet(Rest(x)) /\ Cardinality(Rest(x)) \in Nat
             /\ Count(h, n, S) = Cardinality(Rest(x)) + One(h.elements[x], S)
  <2>1. IsFiniteSet(Rest(x)) /\ Cardinality(Rest(x)) \in Nat /\ x \notin Rest(x)
    <3>1. IsFiniteSet(1..n) /\ Rest(x) \subseteq 1..n
      BY FS_Interval
    <3> QED
      BY <3>1, FS_Subset, FS_CardinalityType
  <2>2. CASE h.elements[x] \in S
    <3>1. Among(h, n, S) = Rest(x) \cup {x}
      BY <2>2 DEF Among
    <3> HIDE DEF Rest
    <3> QED
      BY <2>1, <2>2, <3>1, FS_AddElement DEF Count, One
  <2>3. CASE h.elements[x] \notin S
    <3>1. Among(h, n, S) = Rest(x)
      BY <2>3 DEF Among
    <3> QED
      BY <2>1, <2>3, <3>1 DEF Count, One
  <2> QED
    BY <2>1, <2>2, <2>3
<1>4. CASE i = n
  <2>1. Shorter(h, n, Fill(h, t, i))
    BY <1>1, <1>4, FrontIs DEF Fill
  <2>2. Among(Fill(h, t, i), m, S) = Rest(n) /\ Fill(h, t, i) \in Heap(n - 1)
    BY <1>2, <2>1 DEF Shorter, Among
  <2> HIDE DEF Rest
  <2> QED
    BY <1>2, <1>3, <1>4, <2>2 DEF Count, One
<1>5. CASE i # n
  <2>1. i \in 1..n - 1 /\ i \in 1..m /\ n \in 1..n
    BY <1>2, <1>5
  <2>2. PICK a \in Holes(m) : FillStart(a, h, n, t, i)
    BY <1>2, <2>1, FillStarts
  <2> DEFINE I == {s \in Holes(m) : Cardinality(Others(s, m, S)) + One(e, S) = Cardinality(Rest(i))}
  <2>3. a \in I
    <3> DEFINE B == {k \in 1..n : k # i /\ k # n /\ h.elements[k] \in S}
    <3>1. Others(a, m, S) = B
      BY <1>2, <2>2 DEF FillStart, Shorter, Others
    <3>2. IsFiniteSet(B) /\ Cardinality(B) \in Nat /\ n \notin B
      <4>1. IsFiniteSet(1..n) /\ B \subseteq 1..n
        BY FS_Interval
      <4> QED
        BY <4>1, FS_Subset, FS_CardinalityType
    <3>3. CASE e \in S
      <4>1. Rest(i) = B \cup {n}
        BY <1>2, <1>5, <2>1, <3>3
      <4> HIDE DEF B, Rest
      <4> QED
        BY <3>1, <3>2, <3>3, <4>1, FS_AddElement DEF One
    <3>4. CASE e \notin S
      <4>1. Rest(i) = B
        BY <1>2, <1>5, <2>1, <3>4
      <4> QED
        BY <3>1, <3>2, <3>4, <4>1 DEF One
    <3> QED
      BY <3>3, <3>4
  <2>4. ASSUME NEW s \in I
        PROVE  s.at \in 1..m /\ Len(s.heap.elements) = m /\ Sink(s, t, e) \in I
    <3>0. s \in Holes(m)
      BY <2>4
    <3>1. s \in Holes(m) /\ s.at \in 1..m /\ Len(s.heap.elements) = m
      BY <3>0, HoleIs
    <3>2. CASE ~Lowers(s, t, e)
      BY <2>4, <3>1, <3>2, SinkIs
    <3>3. CASE Lowers(s, t, e)
      <4>1. PICK c \in 1..m : c # s.at /\ Sink(s, t, e) = Move(s, c)
        BY <3>1, <3>3, SinkIs DEF Lowered
      <4>2. Cardinality(Others(Move(s, c), m, S)) = Cardinality(Others(s, m, S))
        BY <3>1, <4>1, MoveCounts
      <4>3. Move(s, c) \in Holes(m)
        BY <3>1, <4>1, MoveIs, Zenon DEF IsMove
      <4> QED
        BY <2>4, <3>1, <4>1, <4>2, <4>3
    <3> QED
      BY <3>2, <3>3
  <2>5. PICK s \in I : Fill(h, t, i) = Put(s.heap, s.at, e)
    <3> HIDE DEF I
    <3>1. Len(a.heap.elements) = m /\ HoleAt(a.heap, i) \in I
      BY <2>2, <2>3, <2>4 DEF FillStart
    <3>2. \E s \in I : shift_down(a.heap, t, i, e) = Put(s.heap, s.at, e) /\ ~Lowers(s, t, e)
      BY <2>1, <2>4, <3>1, SinkEnds
    <3> QED
      BY <1>2, <2>2, <3>2 DEF FillStart
  <2>6. Count(Put(s.heap, s.at, e), m, S) = Cardinality(Others(s, m, S)) + One(e, S)
    BY <2>5, PutCounts
  <2>7. Count(Fill(h, t, i), m, S) = Cardinality(Rest(i))
    BY <2>5, <2>6
  <2>8. Fill(h, t, i) \in Heap(n - 1)
    BY <1>2, <2>5, PutIs
  <2> HIDE DEF Rest
  <2> QED
    BY <1>2, <1>3, <2>7, <2>8
<1> QED
  BY <1>4, <1>5

(* The same of the heap of the loop, when a timer is set and when one      *)
(* leaves.                                                                 *)
LEMMA CountWider ==
    ASSUME NEW n \in Nat, NEW h, NEW S, NEW T, T \subseteq S
    PROVE  Count(h, n, T) <= Count(h, n, S)
<1>1. IsFiniteSet(Among(h, n, S)) /\ Among(h, n, T) \subseteq Among(h, n, S)
  BY CountType DEF Among
<1> QED
  BY <1>1, FS_Subset DEF Count

LEMMA LeaveCounts ==
    ASSUME NEW n \in Nat, NEW h \in Heap(n), NEW t, NEW i \in 1..n, NEW S,
           NEW r, NEW g, Leaves(g, h, t, i, r)
    PROVE  Count(g, n - 1, S) + One(r, S) = Count(h, n, S)
<1>1. PICK m \in Nat : m = n - 1
  OBVIOUS
<1>2. PICK f \in Heap(m) : f = Fill(h, t, i) /\ Count(f, m, S) + One(h.elements[i], S) = Count(h, n, S)
  BY <1>1, FillCounts
<1>3. g.elements = f.elements /\ r = h.elements[i]
  BY <1>2 DEF Leaves, Heap
<1> QED
  BY <1>1, <1>2, <1>3 DEF Count, Among

LEMMA SetCounts ==
    ASSUME PlacesInv, NEW e \in Timer, heap' = min_heap_push(heap, time', e),
           NEW S, NEW T, T \subseteq S, e \notin T
    PROVE  Count(heap', Len(heap'.elements), T) <= Count(heap, Len(heap.elements), S)
<1>1. PICK n \in Nat : n = Len(heap.elements) /\ Placed(heap, n) /\ heap \in Heap(n)
  BY PlacesOf
<1>2. Placed(heap', n + 1) /\ n + 1 \in Nat
  BY <1>1, PushPlaces
<1>3. Len(heap'.elements) = n + 1
  BY <1>2, HeapLen DEF Placed
<1>4. Count(heap', n + 1, T) = Count(heap, n, T) + One(e, T)
  BY <1>1, PushCounts
<1>5. Count(heap, n, T) <= Count(heap, n, S) /\ Count(heap, n, T) \in Nat
  BY CountWider, CountType
<1> QED
  BY <1>1, <1>3, <1>4, <1>5 DEF One

LEMMA PopCounts ==
    ASSUME PlacesInv, heap.elements # <<>>, heap' = min_heap_pop(heap, time), NEW S
    PROVE  /\ Head(heap.elements) \in Timer
           /\ Count(heap', Len(heap'.elements), S) + One(Head(heap.elements), S)
                 = Count(heap, Len(heap.elements), S)
           /\ Count(heap', Len(heap'.elements), S) \in Nat
<1>1. PICK n \in Nat : n = Len(heap.elements) /\ Placed(heap, n) /\ heap \in Heap(n)
  BY PlacesOf
<1>2. 1 \in 1..n /\ Head(heap.elements) = heap.elements[1]
  <2>1. PICK s \in Seq(Timer) : s = heap.elements /\ s # <<>>
    BY DEF PlacesInv
  <2>2. Len(s) \in Nat /\ Len(s) # 0 /\ Head(s) = s[1]
    BY <2>1, EmptySeq, LenProperties
  <2> QED
    BY <1>1, <2>1, <2>2
<1>3. PICK r : r = heap.elements[1]
  OBVIOUS
<1>4. Leaves(heap', heap, time, 1, r)
  BY <1>2, <1>3 DEF min_heap_pop, Leaves
<1>5. Placed(heap', n - 1) /\ n - 1 \in Nat
  BY <1>1, <1>2, <1>4, FillPlaces
<1>6. Len(heap'.elements) = n - 1
  BY <1>5, HeapLen DEF Placed
<1>7. Count(heap', n - 1, S) + One(r, S) = Count(heap, n, S)
  BY <1>1, <1>2, <1>4, LeaveCounts
<1>8. Count(heap', n - 1, S) \in Nat
  BY <1>5, CountType
<1>9. r \in Timer
  BY <1>1, <1>2, <1>3 DEF Heap
<1> QED
  BY <1>1, <1>2, <1>3, <1>6, <1>7, <1>8, <1>9

LEMMA DeleteCounts ==
    ASSUME PlacesInv, NEW e \in Timer, heap' = min_heap_delete(heap, time, e), NEW S
    PROVE  Count(heap', Len(heap'.elements), S) <= Count(heap, Len(heap.elements), S)
<1>1. PICK n \in Nat : n = Len(heap.elements) /\ Placed(heap, n) /\ heap \in Heap(n)
  BY PlacesOf
<1>2. CASE heap.idx[e] = 0
  <2>1. heap' = heap
    BY <1>2 DEF min_heap_delete
  <2>2. Count(heap, n, S) \in Nat
    BY CountType
  <2> QED
    BY <1>1, <2>1, <2>2
<1>3. CASE heap.idx[e] # 0
  <2>1. PICK i \in 1..n : i = heap.idx[e] /\ heap.elements[i] = e
    BY <1>1, <1>3 DEF Placed
  <2>2. Leaves(heap', heap, time, i, e)
    BY <1>3, <2>1 DEF min_heap_delete, Leaves
  <2>3. Placed(heap', n - 1) /\ n - 1 \in Nat
    BY <1>1, <2>1, <2>2, FillPlaces
  <2>4. Len(heap'.elements) = n - 1
    BY <2>3, HeapLen DEF Placed
  <2>5. Count(heap', n - 1, S) + One(e, S) = Count(heap, n, S)
    BY <1>1, <2>1, <2>2, LeaveCounts
  <2>6. Count(heap', n - 1, S) \in Nat
    BY <2>3, CountType
  <2> QED
    BY <1>1, <2>4, <2>5, <2>6 DEF One
<1> QED
  BY <1>2, <1>3

-----------------------------------------------------------------------------
(* The loop sleeps until the first timer is due. *)

(* No expire_timer lasts longer than an int counts, which is 24 days. *)
ShortExpiry == phase = "expire" => now - cur <= W \div 2

LEMMA SignedDifference ==
    ASSUME NEW w \in Nat, NEW x \in 0..w - 1, NEW c \in 0..w - 1, NEW b \in 0..w - 1,
           b < x, c - b <= w \div 2,
           NEW d, d = ((x - c + (w \div 2)) % w) - (w \div 2)
    PROVE  d > 0 => c + d = x
<1>1. PICK z \in Nat : z = w \div 2 /\ z <= w
  OBVIOUS
<1>2. PICK y \in Int : y = x - c + z /\ y >= 0 /\ y < w + w
  BY <1>1
<1>3. CASE y < w
  <2>1. y % w = y
    BY <1>2, <1>3
  <2> QED
    BY <1>1, <1>2, <2>1
<1>4. CASE y >= w
  <2>1. y % w = y - w
    <3>1. PICK q \in Nat : q = y - w /\ q < w
      BY <1>2, <1>4
    <3>2. (q + w) % w = q
      BY <3>1
    <3> QED
      BY <1>2, <3>1, <3>2
  <2>2. d = y - w - z
    BY <1>1, <1>2, <2>1
  <2>3. d = x - c - w
    BY <1>1, <1>2, <2>2
  <2> QED
    BY <2>3
<1> QED
  BY <1>2, <1>3, <1>4

LEMMA NearestIs ==
    ASSUME PlacesInv, ClockInv, heap.elements # <<>>, ~Expired, phase = "expire", ShortExpiry
    PROVE  /\ find_nearest_expire_timer \in Nat
           /\ find_nearest_expire_timer > 0 =>
                 now + find_nearest_expire_timer = time[Head(heap.elements)]
<1>1. PICK s \in Seq(Timer) : s = heap.elements /\ s # <<>>
  BY DEF PlacesInv
<1>2. Head(s) \in Timer
  BY <1>1, HeadTailProperties
<1>3. PICK x \in 0..W - 1 : x = time[Head(s)]
  BY <1>2 DEF ClockInv
<1>4. W \in Nat /\ now \in 0..W - 1 /\ cur \in 0..W - 1 /\ now - cur <= W \div 2
  BY ClockAssumption DEF ClockInv, ShortExpiry
<1>5. cur < x
  BY <1>1, <1>3, <1>4 DEF Expired
<1>6. PICK d : d = ((x - now + (W \div 2)) % W) - (W \div 2)
  OBVIOUS
<1>7. d > 0 => now + d = x
  BY <1>4, <1>5, <1>6, SignedDifference, SMTT(30)
<1>8. find_nearest_expire_timer = IF d > 0 THEN d ELSE 0
  BY <1>1, <1>3, <1>6 DEF find_nearest_expire_timer
<1>9. d \in Int
  <2>1. PICK z \in Nat : z = W \div 2
    BY <1>4
  <2>2. PICK y \in Int : y = x - now + z
    BY <1>4
  <2>3. y % W \in Nat
    BY <1>4, <2>2
  <2> QED
    BY <1>6, <2>1, <2>2, <2>3
<1> QED
  BY <1>1, <1>3, <1>7, <1>8, <1>9

LEMMA SleepKept ==
    ASSUME PlacesInv, ClockInv, ShortExpiry, SleepsUntilDue, [LoopNext]_loopVars
    PROVE  SleepsUntilDue'
<1>1. CASE Sleep
  <2>1. CASE heap.elements = <<>>
    BY <1>1, <2>1 DEF Sleep, timers, SleepsUntilDue, find_nearest_expire_timer
  <2>2. CASE heap.elements # <<>>
    <3>1. PICK d \in Nat : /\ d = find_nearest_expire_timer
                           /\ d > 0 => now + d = time[Head(heap.elements)]
      BY <1>1, <2>2, NearestIs DEF Sleep
    <3>2. wake' = now + d /\ now' = now /\ now \in Nat /\ UNCHANGED <<heap, time>>
      BY <1>1, <3>1 DEF Sleep, timers, ClockInv
    <3> QED
      BY <2>2, <3>1, <3>2 DEF SleepsUntilDue
  <2> QED
    BY <2>1, <2>2
<1>2. CASE Tick
  BY <1>2 DEF Tick, timers, ClockInv, SleepsUntilDue
<1>3. CASE phase' # "wait"
  BY <1>3 DEF SleepsUntilDue
<1>4. CASE UNCHANGED loopVars
  BY <1>4 DEF loopVars, timers, SleepsUntilDue
<1>5. ASSUME NEW e \in Timer, NEW msec, add_timer(e, msec) \/ reset_timer(e, msec) \/ del_timer(e)
      PROVE  phase' # "wait"
  BY <1>5 DEF add_timer, reset_timer, del_timer
<1>6. CASE Expire \/ Event \/ Timeout \/ Served
  BY <1>3, <1>6 DEF Expire, Event, Timeout, Served
<1> QED
  BY <1>1, <1>2, <1>3, <1>4, <1>5, <1>6 DEF LoopNext

(* While the loop sleeps, epoll_wait times out at the time of the first    *)
(* timer or at once, although the handlers took time since expire_timer    *)
(* read the clock: the difference of two uint32_t, taken as an int, is the *)
(* time left, or it is not positive.                                       *)
THEOREM SleepCorrect == LoopSpec /\ []ShortExpiry => []SleepsUntilDue
<1>1. LoopInit => SleepsUntilDue
  BY DEF LoopInit, SleepsUntilDue
<1> QED
  BY <1>1, LoopStart, LoopStep, SleepKept, PTL DEF LoopSpec

-----------------------------------------------------------------------------
(* The order, in the loop. *)

(* The first timer of the heap comes before all that are set. *)
EarliestFirst == heap.elements # <<>> => \A e \in Pending : time[Head(heap.elements)] <= time[e]

Ordered(h, t, n) == h \in Heap(n) /\ Sorted(Keys(h, n, t), Parent(n), n)

OrderedInv == Ordered(heap, time, Len(heap.elements))

(* A timer that is not allocated is not in the heap. *)
Fresh == {f \in Timer : interval[f] = 0}

AllocatedInv == Count(heap, Len(heap.elements), Fresh) = 0

LEMMA FreshIsAway ==
    ASSUME PlacesInv, AllocatedInv, NEW e \in Timer, interval[e] = 0
    PROVE  e \notin Pending
<1>1. PICK n \in Nat : n = Len(heap.elements) /\ heap \in Heap(n)
  BY PlacesOf
<1>2. IsFiniteSet(Among(heap, n, Fresh)) /\ Cardinality(Among(heap, n, Fresh)) = 0
  BY <1>1, CountType DEF AllocatedInv, Count
<1>3. Among(heap, n, Fresh) = {}
  BY <1>2, FS_EmptySet
<1>4. \A k \in 1..n : heap.elements[k] # e
  BY <1>3 DEF Among, Fresh
<1>5. DOMAIN heap.elements = 1..n
  BY <1>1 DEF Heap
<1> QED
  BY <1>4, <1>5 DEF Pending, ToSet

LEMMA SetOrders ==
    ASSUME PlacesInv, ClockInv, OrderedInv, NEW e \in Timer, NEW msec \in Delay, Set(e, msec),
           Alone(e) \/ e \notin Pending
    PROVE  OrderedInv'
<1>1. PICK n \in Nat : n = Len(heap.elements) /\ Placed(heap, n) /\ heap \in Heap(n)
  BY PlacesOf
<1>2. PICK t \in [Timer -> Nat], u \in [Timer -> Nat] : t = time /\ u = time'
  <2>1. msec \in 1..W - 1
    BY ClockAssumption
  <2>2. time \in [Timer -> 0..W - 1] /\ time' \in [Timer -> 0..W - 1]
    BY <2>1, SetTypes DEF ClockInv
  <2>3. W \in Nat
    BY ClockAssumption
  <2> QED
    BY <2>2, <2>3
<1>3. \A f \in Timer : f # e => u[f] = t[f]
  BY <1>2 DEF Set, ClockInv
<1>4. heap' = min_heap_push(heap, u, e)
  BY <1>2 DEF Set
<1>5. \A j \in 1..n : heap.elements[j] \in Pending /\ heap.elements[j] \in Timer
  BY <1>1 DEF Heap, Pending, ToSet
<1>6. Sorted(Keys(heap, n, u), Parent(n), n)
  <2>1. CASE e \notin Pending
    <3>1. \A j \in 1..n : t[heap.elements[j]] = u[heap.elements[j]]
      BY <1>3, <1>5, <2>1
    <3>2. Keys(heap, n, t) = Keys(heap, n, u)
      BY <3>1, KeysAgree
    <3> QED
      BY <1>1, <1>2, <3>2 DEF OrderedInv, Ordered
  <2>2. CASE Pending \subseteq {e}
    <3>1. \A j \in 1..n : Keys(heap, n, u)[j] = u[e]
      BY <1>5, <2>2 DEF Keys
    <3>2. \A j \in 2..n : Parent(n)[j] \in 1..n /\ j \in 1..n
      BY ParentIs
    <3> QED
      BY <1>2, <3>1, <3>2 DEF Sorted
  <2> QED
    BY <2>1, <2>2 DEF Alone
<1>7. Sorted(Keys(heap', n + 1, u), Parent(n + 1), n + 1)
  BY <1>1, <1>4, <1>6, PushSorts
<1>8. Placed(heap', n + 1) /\ n + 1 \in Nat
  BY <1>1, <1>4, PushPlaces
<1>9. heap' \in Heap(n + 1) /\ Len(heap'.elements) = n + 1
  BY <1>8, HeapLen DEF Placed
<1> QED
  BY <1>2, <1>7, <1>9 DEF OrderedInv, Ordered

LEMMA PopOrders ==
    ASSUME PlacesInv, ClockInv, OrderedInv, heap.elements # <<>>,
           heap' = min_heap_pop(heap, time), UNCHANGED time
    PROVE  OrderedInv'
<1>1. PICK n \in Nat : n = Len(heap.elements) /\ Placed(heap, n) /\ heap \in Heap(n)
  BY PlacesOf
<1>2. 1 \in 1..n
  <2>1. PICK s \in Seq(Timer) : s = heap.elements /\ s # <<>>
    BY DEF PlacesInv
  <2>2. Len(s) \in Nat /\ Len(s) # 0
    BY <2>1, EmptySeq, LenProperties
  <2> QED
    BY <1>1, <2>1, <2>2
<1>3. PICK t \in [Timer -> Nat] : t = time
  BY ClockAssumption DEF ClockInv
<1>4. PICK m \in Nat : m = n - 1
  BY <1>2
<1>5. PICK r : r = Head(heap.elements) /\ r = heap.elements[1]
  BY <1>1, <1>2 DEF Heap
<1>6. Leaves(heap', heap, t, 1, r)
  BY <1>3, <1>5 DEF min_heap_pop, Leaves
<1>7. Placed(heap', n - 1)
  BY <1>1, <1>2, <1>6, FillPlaces
<1>8. heap' \in Heap(m) /\ Len(heap'.elements) = m
  BY <1>4, <1>7, HeapLen DEF Placed
<1>9. PICK f \in Heap(m) : f = Fill(heap, t, 1)
  BY <1>1, <1>2, <1>4, FillCounts
<1>10. heap'.elements = f.elements
  BY <1>6, <1>9 DEF Leaves, Heap
<1>11. Sorted(Keys(f, m, t), Parent(m), m)
  BY <1>1, <1>2, <1>3, <1>4, <1>9, FillSorts DEF OrderedInv, Ordered
<1>12. Keys(heap', m, t) = Keys(f, m, t)
  BY <1>10 DEF Keys
<1> QED
  BY <1>3, <1>8, <1>11, <1>12 DEF OrderedInv, Ordered

LEMMA OrderedFirst ==
    ASSUME PlacesInv, ClockInv, OrderedInv
    PROVE  EarliestFirst
<1> SUFFICES ASSUME heap.elements # <<>>, NEW e \in Pending
             PROVE  time[Head(heap.elements)] <= time[e]
  BY DEF EarliestFirst
<1>1. PICK n \in Nat : n = Len(heap.elements) /\ heap \in Heap(n)
  BY PlacesOf
<1>2. PICK k \in 1..n : heap.elements[k] = e
  BY <1>1 DEF Heap, Pending, ToSet
<1>3. Head(heap.elements) = heap.elements[1] /\ 1 \in 1..n
  BY <1>1, <1>2 DEF Heap
<1>4. PICK t \in [Timer -> Nat] : t = time
  BY ClockAssumption DEF ClockInv
<1>5. PICK key \in [1..n -> Nat] : key = Keys(heap, n, t)
  BY <1>1, KeysType
<1>6. PICK up \in [2..n -> 1..n] : up = Parent(n) /\ \A j \in 2..n : up[j] < j
  BY ParentIs
<1>7. Sorted(key, up, n)
  BY <1>1, <1>4, <1>5, <1>6 DEF OrderedInv, Ordered
<1>8. key[1] <= key[k]
  BY <1>6, <1>7, RootIsFirst
<1> QED
  BY <1>2, <1>3, <1>4, <1>5, <1>8 DEF Keys

LEMMA OrderStart == LoopInit => OrderedInv /\ AllocatedInv
<1> SUFFICES ASSUME LoopInit PROVE OrderedInv /\ AllocatedInv
  OBVIOUS
<1>1. heap = [elements |-> <<>>, idx |-> [e \in Timer |-> 0]]
  BY DEF LoopInit, EmptyHeap
<1>2. heap.elements = <<>> /\ heap.idx = [e \in Timer |-> 0] /\ Len(<<>>) = 0
  BY <1>1, EmptySeq
<1>3. OrderedInv
  BY <1>1, <1>2 DEF OrderedInv, Ordered, Heap, Sorted
<1>4. Among(heap, 0, Fresh) = {}
  BY DEF Among
<1>5. AllocatedInv
  BY <1>2, <1>4, FS_EmptySet DEF AllocatedInv, Count
<1> QED
  BY <1>3, <1>5

(* A timer that is set was allocated, and its handle is not forgotten.     *)
LEMMA AllocatedKept ==
    ASSUME PlacesInv, ClockInv, AllocatedInv, [LoopNext]_loopVars
    PROVE  AllocatedInv'
<1>0. /\ Len(heap.elements) \in Nat /\ Len(heap'.elements) \in Nat
      /\ Count(heap', Len(heap'.elements), Fresh') \in Nat
  <2>1. PlacesInv'
    BY LoopStep
  <2>2. heap.elements \in Seq(Timer) /\ heap'.elements \in Seq(Timer)
    BY <2>1 DEF PlacesInv
  <2>3. Len(heap.elements) \in Nat /\ Len(heap'.elements) \in Nat
    BY <2>2, LenProperties
  <2> QED
    BY <2>3, CountType
<1>1. ASSUME NEW e \in Timer, NEW msec \in Delay, Set(e, msec)
      PROVE  AllocatedInv'
  <2>1. msec # 0
    BY ClockAssumption
  <2>2. Fresh' \subseteq Fresh /\ e \notin Fresh'
    BY <1>1, <2>1 DEF Set, Fresh, ClockInv
  <2>3. PICK T : T = Fresh'
    OBVIOUS
  <2>4. Count(heap', Len(heap'.elements), T) <= Count(heap, Len(heap.elements), Fresh)
    BY <1>1, <2>2, <2>3, SetCounts DEF Set
  <2> QED
    BY <1>0, <2>3, <2>4 DEF AllocatedInv
<1>2. ASSUME UNCHANGED <<heap, interval>>
      PROVE  AllocatedInv'
  BY <1>2 DEF AllocatedInv, Fresh
<1>3. ASSUME NEW e \in Timer, NEW msec \in Delay, add_timer(e, msec)
      PROVE  AllocatedInv'
  BY <1>1, <1>3 DEF add_timer
<1>4. ASSUME NEW e \in Timer, NEW msec \in Delay \cup {0}, reset_timer(e, msec)
      PROVE  AllocatedInv'
  BY <1>1, <1>4, SetDelay
<1>5. ASSUME NEW e \in Timer, del_timer(e)
      PROVE  AllocatedInv'
  <2>1. Fresh' = Fresh
    BY <1>5 DEF del_timer, Fresh
  <2>2. Count(heap', Len(heap'.elements), Fresh) <= Count(heap, Len(heap.elements), Fresh)
    BY <1>5, DeleteCounts DEF del_timer
  <2> QED
    BY <1>0, <2>1, <2>2 DEF AllocatedInv
<1>6. CASE Expire
  <2>1. Fresh' = Fresh
    BY <1>6 DEF Expire, Fresh
  <2>2. /\ Count(heap', Len(heap'.elements), Fresh) + One(Head(heap.elements), Fresh)
              = Count(heap, Len(heap.elements), Fresh)
        /\ Count(heap', Len(heap'.elements), Fresh) \in Nat
    BY <1>6, PopCounts DEF Expire, Expired
  <2> QED
    BY <2>1, <2>2 DEF AllocatedInv, One
<1>7. CASE Tick \/ Sleep \/ Event \/ Timeout \/ Served \/ UNCHANGED loopVars
  BY <1>2, <1>7 DEF Tick, Sleep, Event, Timeout, Served, loopVars, timers
<1> QED
  BY <1>3, <1>4, <1>5, <1>6, <1>7 DEF LoopNext

NoneDeleted == \A e \in Timer : ~del_timer(e)

LEMMA OrderKept ==
    ASSUME PlacesInv, ClockInv, AllocatedInv, OrderedInv,
           [LoopNext]_loopVars, [NoneDeleted]_loopVars
    PROVE  OrderedInv'
<1>1. CASE UNCHANGED <<heap, time>>
  BY <1>1 DEF OrderedInv, Ordered, Keys, Sorted
<1>2. ASSUME NEW e \in Timer, NEW msec \in Delay, add_timer(e, msec)
      PROVE  OrderedInv'
  BY <1>2, FreshIsAway, SetOrders DEF add_timer
<1>3. ASSUME NEW e \in Timer, NEW msec \in Delay \cup {0}, reset_timer(e, msec)
      PROVE  OrderedInv'
  <2>1. PICK d \in Delay : Set(e, d)
    BY <1>3, SetDelay
  <2>2. Alone(e) \/ e \notin Pending
    BY <1>3 DEF reset_timer
  <2> QED
    BY <2>1, <2>2, SetOrders
<1>4. CASE Expire
  BY <1>4, PopOrders DEF Expire, Expired
<1>5. CASE Tick \/ Sleep \/ Event \/ Timeout \/ Served \/ UNCHANGED loopVars
  BY <1>1, <1>5 DEF Tick, Sleep, Event, Timeout, Served, loopVars, timers
<1>6. ASSUME NEW e \in Timer, del_timer(e)
      PROVE  OrderedInv'
  BY <1>5, <1>6 DEF NoneDeleted
<1> QED
  BY <1>2, <1>3, <1>4, <1>5, <1>6 DEF LoopNext

(* In a program that deletes no timer that is set - only the mesh agent    *)
(* does, core.c - the first timer of the heap is the earliest of all, also *)
(* where the program sets timers that are set: expire_timer runs them in   *)
(* the order of their times.                                               *)
THEOREM EarliestRunsFirst == LoopSpec /\ [][NoneDeleted]_loopVars => []EarliestFirst
<1>1. PlacesInv /\ ClockInv /\ OrderedInv => EarliestFirst
  BY OrderedFirst
<1> QED
  BY <1>1, LoopStart, LoopStep, OrderStart, AllocatedKept, OrderKept, PTL DEF LoopSpec

(* epoll_wait times out at the time of every timer that is set, or before. *)
NoneOverslept == phase = "wait" => \A e \in Pending : wake >= 0 /\ (wake <= now \/ wake <= time[e])

(* So no timer is overslept: while the loop sleeps, it is woken when the   *)
(* earliest timer is due or before, and the earliest is the one that       *)
(* find_nearest_expire_timer reads at the top of the heap.                 *)
THEOREM NoTimerOverslept ==
    LoopSpec /\ []ShortExpiry /\ [][NoneDeleted]_loopVars => []NoneOverslept
<1>1. SleepsUntilDue /\ EarliestFirst => NoneOverslept
  <2> SUFFICES ASSUME SleepsUntilDue, EarliestFirst, phase = "wait", NEW e \in Pending
               PROVE  wake >= 0 /\ (wake <= now \/ wake <= time[e])
    BY DEF NoneOverslept
  <2>1. heap.elements # <<>>
    BY EmptySeq DEF Pending, ToSet
  <2>2. time[Head(heap.elements)] <= time[e]
    BY <2>1 DEF EarliestFirst
  <2> QED
    BY <2>1, <2>2 DEF SleepsUntilDue
<1> QED
  BY <1>1, SleepCorrect, EarliestRunsFirst, PTL

-----------------------------------------------------------------------------
(* The end of expire_timer. *)

(* No time a timer is set for is beyond the range of the clock. *)
NoWrap == \A msec \in Delay : Horizon + msec < W

Expiring == {f \in Timer : time[f] <= cur}

ExpiredLeft == Cardinality({k \in 1..Len(heap.elements) : time[heap.elements[k]] <= cur})

(* expire_timer has the fewer timers left to run the longer it is at it:   *)
(* each it runs is one less, and the handlers add none.                    *)
RunsDown ==
    phase = "expire" /\ phase' = "expire" =>
        ExpiredLeft' <= ExpiredLeft /\ (Expire => ExpiredLeft' < ExpiredLeft)

LeftCounted == ExpiredLeft = Count(heap, Len(heap.elements), Expiring) /\ ExpiredLeft \in Nat

LEMMA LeftIs == PlacesInv => LeftCounted
<1> SUFFICES ASSUME PlacesInv PROVE LeftCounted
  OBVIOUS
<1>1. PICK n \in Nat : n = Len(heap.elements) /\ heap \in Heap(n)
  BY PlacesOf
<1>2. \A k \in 1..n : heap.elements[k] \in Timer
  BY <1>1 DEF Heap
<1>3. Among(heap, n, Expiring) = {k \in 1..n : time[heap.elements[k]] <= cur}
  BY <1>2 DEF Among, Expiring
<1>4. Count(heap, n, Expiring) \in Nat
  BY CountType
<1> QED
  BY <1>1, <1>3, <1>4 DEF Count, ExpiredLeft, LeftCounted

LEMMA StepRunsDown ==
    ASSUME NoWrap, PlacesInv, ClockInv, [LoopNext]_loopVars
    PROVE  [RunsDown]_loopVars
<1> SUFFICES ASSUME phase = "expire", phase' = "expire"
             PROVE  (ExpiredLeft' <= ExpiredLeft /\ (Expire => ExpiredLeft' < ExpiredLeft)) \/ UNCHANGED loopVars
  BY DEF RunsDown
<1>0. PlacesInv'
  BY LoopStep
<1>1. PICK S, T : S = Expiring /\ T = Expiring'
  OBVIOUS
<1>2. /\ ExpiredLeft = Count(heap, Len(heap.elements), S) /\ ExpiredLeft \in Nat
      /\ ExpiredLeft' = Count(heap', Len(heap'.elements), T) /\ ExpiredLeft' \in Nat
  <2>1. LeftCounted /\ LeftCounted'
    BY <1>0, LeftIs, PTL
  <2> QED
    BY <1>1, <2>1 DEF LeftCounted
<1>3. CASE Expire
  <2>1. S = T
    BY <1>1, <1>3 DEF Expire, Expiring
  <2>2. /\ Head(heap.elements) \in Timer
        /\ Count(heap', Len(heap'.elements), S) + One(Head(heap.elements), S)
              = Count(heap, Len(heap.elements), S)
    BY <1>3, PopCounts DEF Expire, Expired
  <2>3. One(Head(heap.elements), S) = 1
    BY <1>1, <1>3, <2>2 DEF Expire, Expired, Expiring, One
  <2> QED
    BY <1>2, <2>1, <2>2, <2>3
<1>4. CASE ~Expire /\ UNCHANGED <<heap, time, cur>>
  <2>1. S = T
    BY <1>1, <1>4 DEF Expiring
  <2> QED
    BY <1>2, <1>4, <2>1
<1>5. ASSUME NEW e \in Timer, NEW msec \in Delay, Set(e, msec), UNCHANGED cur, ~Expire
      PROVE  ExpiredLeft' <= ExpiredLeft
  <2>1. msec \in 1..W - 1 /\ Horizon + msec < W /\ now \in 0..Horizon /\ W \in Nat /\ Horizon \in Nat
    BY ClockAssumption DEF NoWrap, ClockInv
  <2>2. (now + msec) % W = now + msec /\ cur <= now /\ cur \in Nat
    BY <2>1 DEF ClockInv
  <2>3. time'[e] = now + msec /\ \A f \in Timer : f # e => time'[f] = time[f]
    BY <1>5, <2>2 DEF Set, ClockInv
  <2>4. ~(time'[e] <= cur)
    BY <2>1, <2>2, <2>3
  <2>5. T \subseteq S /\ e \notin T
    BY <1>1, <1>5, <2>3, <2>4 DEF Expiring
  <2>6. Count(heap', Len(heap'.elements), T) <= Count(heap, Len(heap.elements), S)
    BY <1>5, <2>5, SetCounts DEF Set
  <2> QED
    BY <1>2, <2>6
<1>6. CASE ~Expire
  <2>1. ASSUME NEW e \in Timer, NEW msec \in Delay, add_timer(e, msec)
        PROVE  ExpiredLeft' <= ExpiredLeft
    BY <1>5, <1>6, <2>1 DEF add_timer
  <2>2. ASSUME NEW e \in Timer, NEW msec \in Delay \cup {0}, reset_timer(e, msec)
        PROVE  ExpiredLeft' <= ExpiredLeft
    <3>1. PICK d \in Delay : Set(e, d)
      BY <2>2, SetDelay
    <3>2. UNCHANGED cur
      BY <2>2 DEF reset_timer
    <3> QED
      BY <1>5, <1>6, <3>1, <3>2
  <2>3. ASSUME NEW e \in Timer, del_timer(e)
        PROVE  ExpiredLeft' <= ExpiredLeft
    <3>1. S = T
      BY <1>1, <2>3 DEF del_timer, Expiring
    <3>2. Count(heap', Len(heap'.elements), S) <= Count(heap, Len(heap.elements), S)
      BY <2>3, DeleteCounts DEF del_timer
    <3> QED
      BY <1>2, <3>1, <3>2
  <2>4. CASE Tick \/ UNCHANGED loopVars
    BY <1>4, <1>6, <2>4 DEF Tick, timers, loopVars
  <2>5. CASE Sleep \/ Event \/ Timeout \/ Served
    BY <2>5 DEF Sleep, Event, Timeout, Served
  <2> QED
    BY <1>6, <2>1, <2>2, <2>3, <2>4, <2>5 DEF LoopNext
<1> QED
  BY <1>3, <1>6

(* What keeps expire_timer from running for ever, in every program whose   *)
(* timers stay in the range of the clock: a handler may set its own timer  *)
(* or others, but not for a time that has come, since the clock was read   *)
(* once, before the first of them.                                         *)
THEOREM ExpiryRunsDown == NoWrap => (LoopSpec => [][RunsDown]_loopVars)
<1>1. ASSUME NoWrap PROVE PlacesInv /\ ClockInv /\ [LoopNext]_loopVars => [RunsDown]_loopVars
  BY <1>1, StepRunsDown
<1>2. ASSUME NoWrap PROVE LoopSpec => [][RunsDown]_loopVars
  BY <1>1, <1>2, LoopStart, LoopStep, PTL DEF LoopSpec
<1> QED
  BY <1>2
=============================================================================
