--------------------------- MODULE IoStreamProofs ---------------------------
(***************************************************************************)
(* Proofs about the byte stream: what is under way is what is due, so the  *)
(* receive buffer always has room for a packet, nothing is lost or         *)
(* reordered, and the write queue is armed and charged for what it holds.  *)
(***************************************************************************)
EXTENDS IoStream, ListLemmas

-----------------------------------------------------------------------------
(* The size of a queue *)

Sums(f, items) ==
    f = [k \in 0..Len(items) |-> IF k = 0 THEN 0 ELSE f[k - 1] + items[k].len]

LEMMA TotalDef == \A items : Total(items) = (CHOOSE f : Sums(f, items))[Len(items)]
BY DEF Total, Sums

LEMMA SumsExist == \A items \in Seq(Item) : \E f : Sums(f, items)
<1> SUFFICES ASSUME NEW items \in Seq(Item) PROVE \E f : Sums(f, items)
    OBVIOUS
<1> DEFINE N == Len(items)
           step == [i \in Nat |-> [x \in Nat |-> IF i \in 1..N THEN x + items[i].len ELSE x]]
<1>1. N \in Nat /\ \A i \in 1..N : items[i].len \in Nat
  <2>1. \A i \in 1..N : items[i] \in Item
    BY ElementOfSeq
  <2> QED BY <2>1, LenProperties DEF Item
<1> HIDE DEF N
<1>2. step \in [Nat -> [Nat -> Nat]]
    BY <1>1
<1>3. PICK f \in [0..N -> Nat] : Recursion(f, 0, step, N)
  <2> HIDE DEF step
  <2> QED BY <1>1, <1>2, RecursionExists
<1>4. f[0] = 0 /\ \A i \in 1..N : f[i] = f[i - 1] + items[i].len
  <2>1. \A i \in 1..N : i \in Nat /\ f[i - 1] \in Nat
    BY <1>1
  <2>2. \A i \in 1..N : step[i][f[i - 1]] = f[i - 1] + items[i].len
    BY <2>1
  <2> HIDE DEF step
  <2> QED BY <1>3, <2>2 DEF Recursion
<1>5. f = [k \in 0..N |-> IF k = 0 THEN 0 ELSE f[k - 1] + items[k].len]
    BY <1>1, <1>4
<1> QED
    BY <1>5 DEF Sums, N

SumSteps(f, items, N) ==
    f[0] = 0 /\ \A k \in 1..N : f[k] = f[k - 1] + items[k].len

LEMMA TotalIsSum ==
    ASSUME NEW items \in Seq(Item)
    PROVE  \E f : Total(items) = f[Len(items)] /\ SumSteps(f, items, Len(items))
<1> DEFINE f == CHOOSE g : Sums(g, items)
<1>1. Sums(f, items)
    BY SumsExist
<1>2. Total(items) = f[Len(items)]
    BY TotalDef
<1> HIDE DEF f
<1>3. f = [k \in 0..Len(items) |-> IF k = 0 THEN 0 ELSE f[k - 1] + items[k].len]
    BY <1>1 DEF Sums
<1>4. Len(items) \in Nat
    BY LenProperties
<1> HIDE <1>1
<1>5. f[0] = 0 /\ \A k \in 1..Len(items) : f[k] = f[k - 1] + items[k].len
    BY <1>3, <1>4
<1> QED
    BY <1>2, <1>5 DEF SumSteps

SameSizes(s, t, N) == \A i \in 1..N : s[i].len \in Nat /\ t[i].len = s[i].len

(* The sum is a number, and only depends on the sizes. *)
LEMMA SumsAgree ==
    ASSUME NEW N \in Nat, NEW s, NEW t, SameSizes(s, t, N),
           NEW f, SumSteps(f, s, N), NEW g, SumSteps(g, t, N)
    PROVE  f[N] \in Nat /\ f[N] = g[N]
<1> DEFINE J == {n \in Nat : n <= N => f[n] \in Nat /\ f[n] = g[n]}
<1>1. 0 \in J
    BY DEF SumSteps
<1>2. ASSUME NEW n \in Nat, n \in J PROVE n + 1 \in J
  <2> SUFFICES ASSUME n + 1 <= N PROVE f[n + 1] \in Nat /\ f[n + 1] = g[n + 1]
    OBVIOUS
  <2>1. n + 1 \in 1..N /\ (n + 1) - 1 = n /\ f[n] \in Nat /\ f[n] = g[n]
    BY <1>2
  <2>2. f[n + 1] = f[n] + s[n + 1].len /\ g[n + 1] = g[n] + t[n + 1].len
    BY <2>1 DEF SumSteps
  <2>3. s[n + 1].len \in Nat /\ t[n + 1].len = s[n + 1].len
    BY <2>1 DEF SameSizes
  <2> QED BY <2>1, <2>2, <2>3
<1>3. Nat \subseteq J
  <2> HIDE DEF J
  <2> QED BY <1>1, <1>2, SetInduction
<1>4. N \in J /\ N <= N
  <2> HIDE DEF J
  <2> QED BY <1>3
<1> QED
    BY <1>4

LEMMA ItemLen ==
    ASSUME NEW s \in Seq(Item), NEW i \in 1..Len(s)
    PROVE  s[i].len \in Nat /\ s[i].rest \in Seq(Byte)
<1>1. s[i] \in Item
    BY ElementOfSeq
<1> QED
    BY <1>1 DEF Item

LEMMA TotalType ==
    ASSUME NEW s \in Seq(Item)
    PROVE  Total(s) \in Nat
<1>1. PICK f : Total(s) = f[Len(s)] /\ SumSteps(f, s, Len(s))
    BY TotalIsSum
<1>2. Len(s) \in Nat /\ SameSizes(s, s, Len(s))
    BY LenProperties, ItemLen DEF SameSizes
<1>3. f[Len(s)] \in Nat
    BY <1>1, <1>2, SumsAgree
<1> QED
    BY <1>1, <1>3

LEMMA TotalOfSizes ==
    ASSUME NEW s \in Seq(Item), NEW t \in Seq(Item), Len(s) = Len(t),
           \A i \in 1..Len(s) : t[i].len = s[i].len
    PROVE  Total(t) = Total(s)
<1>1. PICK f : Total(s) = f[Len(s)] /\ SumSteps(f, s, Len(s))
    BY TotalIsSum
<1>2. PICK g : Total(t) = g[Len(t)] /\ SumSteps(g, t, Len(t))
    BY TotalIsSum
<1>3. Len(s) \in Nat /\ SameSizes(s, t, Len(s))
    BY LenProperties, ItemLen DEF SameSizes
<1>4. SumSteps(g, t, Len(s))
    BY <1>2
<1>5. f[Len(s)] = g[Len(s)]
    BY <1>1, <1>3, <1>4, SumsAgree
<1> QED
    BY <1>1, <1>2, <1>5

LEMMA TotalEmpty == Total(<<>>) = 0
<1>1. <<>> \in Seq(Item) /\ Len(<<>>) = 0
    BY EmptySeq
<1>2. PICK f : Total(<<>>) = f[Len(<<>>)] /\ SumSteps(f, <<>>, Len(<<>>))
    BY <1>1, TotalIsSum
<1> QED
    BY <1>1, <1>2 DEF SumSteps

LEMMA TotalAppend ==
    ASSUME NEW s \in Seq(Item), NEW x \in Item
    PROVE  Total(Append(s, x)) = Total(s) + x.len
<1> DEFINE t == Append(s, x)
           n == Len(s)
<1>1. /\ t \in Seq(Item) /\ n \in Nat /\ Len(t) = n + 1
      /\ \A i \in 1..n : t[i] = s[i]
      /\ t[n + 1] = x
    BY AppendProperties, LenProperties
<1> HIDE DEF t
<1>2. PICK f : Total(s) = f[n] /\ SumSteps(f, s, n)
    BY TotalIsSum
<1>3. PICK g : Total(t) = g[n + 1] /\ SumSteps(g, t, n + 1)
  <2>1. PICK g : Total(t) = g[Len(t)] /\ SumSteps(g, t, Len(t))
    BY <1>1, TotalIsSum
  <2> QED BY <1>1, <2>1
<1>4. SameSizes(s, t, n)
    BY <1>1, ItemLen DEF SameSizes
<1>5. SumSteps(g, t, n) /\ g[n + 1] = g[n] + t[n + 1].len
  <2> HIDE DEF n
  <2>1. g[0] = 0 /\ \A k \in 1..n + 1 : g[k] = g[k - 1] + t[k].len
    BY <1>3 DEF SumSteps
  <2>2. n + 1 \in 1..n + 1 /\ (n + 1) - 1 = n /\ 1..n \subseteq 1..n + 1
    BY <1>1
  <2>3. \A k \in 1..n : g[k] = g[k - 1] + t[k].len
    BY <2>1, <2>2
  <2> QED BY <2>1, <2>2, <2>3 DEF SumSteps
<1>6. f[n] = g[n]
  <2> HIDE DEF n
  <2>1. n \in Nat
    BY <1>1
  <2> QED BY <2>1, <1>2, <1>4, <1>5, SumsAgree
<1> QED
    BY <1>1, <1>2, <1>3, <1>5, <1>6 DEF t

LEMMA TotalConcat ==
    ASSUME NEW s \in Seq(Item), NEW t \in Seq(Item)
    PROVE  Total(s \o t) = Total(s) + Total(t)
<1> DEFINE J == {n \in Nat : \A r \in Seq(Item) :
                    Len(r) = n => Total(s \o r) = Total(s) + Total(r)}
<1>1. 0 \in J
  <2> SUFFICES ASSUME NEW r \in Seq(Item), Len(r) = 0
               PROVE  Total(s \o r) = Total(s) + Total(r)
    OBVIOUS
  <2>1. r = <<>> /\ s \o r = s
    BY EmptySeq, ConcatEmptySeq
  <2>2. Total(s) \in Nat
    BY TotalType
  <2> QED BY <2>1, <2>2, TotalEmpty
<1>2. ASSUME NEW n \in Nat, n \in J PROVE n + 1 \in J
  <2> SUFFICES ASSUME NEW r \in Seq(Item), Len(r) = n + 1
               PROVE  Total(s \o r) = Total(s) + Total(r)
    OBVIOUS
  <2>1. PICK q \in Seq(Item), x \in Item : r = Append(q, x)
    <3>1. r # <<>>
      BY EmptySeq
    <3> QED BY <3>1, SequenceEmptyOrAppend
  <2>2. Len(q) = n
    BY <2>1, AppendProperties, LenProperties
  <2>3. Total(s \o q) = Total(s) + Total(q)
    BY <1>2, <2>2
  <2>4. s \o r = Append(s \o q, x) /\ s \o q \in Seq(Item)
    <3>1. <<x>> \in Seq(Item) /\ s \o q \in Seq(Item)
      BY ConcatProperties
    <3>2. (s \o q) \o <<x>> = s \o (q \o <<x>>)
      BY <3>1, ConcatThree
    <3> QED BY <2>1, <3>1, <3>2, AppendIsConcat
  <2>5. Total(s \o r) = Total(s \o q) + x.len /\ Total(r) = Total(q) + x.len
    BY <2>1, <2>4, TotalAppend
  <2>6. Total(s) \in Nat /\ Total(q) \in Nat /\ x.len \in Nat
    BY TotalType DEF Item
  <2> QED BY <2>3, <2>5, <2>6
<1>3. Nat \subseteq J
  <2> HIDE DEF J
  <2> QED BY <1>1, <1>2, SetInduction
<1>4. Len(t) \in J
  <2> HIDE DEF J
  <2> QED BY <1>3, LenProperties
<1> QED
    BY <1>4

-----------------------------------------------------------------------------
(* The bytes of a queue *)

LEMMA BytesAssociate == \A a, b, c \in Seq(Byte) : (a \o b) \o c = a \o (b \o c)
BY ConcatThree

Rests(items) == [i \in DOMAIN items |-> items[i].rest]

LEMMA RestsType ==
    ASSUME NEW s \in Seq(Item)
    PROVE  /\ Rests(s) \in Seq(Seq(Byte)) /\ Len(Rests(s)) = Len(s)
           /\ \A i \in 1..Len(s) : Rests(s)[i] = s[i].rest
<1> DEFINE T == Seq(Byte)
<1>1. Len(s) \in Nat /\ DOMAIN s = 1..Len(s)
    BY LenProperties
<1>2. \A i \in 1..Len(s) : s[i].rest \in T
    BY ItemLen
<1> HIDE DEF T
<1>3. Rests(s) \in [1..Len(s) -> T]
    BY <1>1, <1>2 DEF Rests
<1>4. Rests(s) \in Seq(T) /\ Len(Rests(s)) = Len(s)
    BY <1>1, <1>3
<1> QED
    BY <1>1, <1>4 DEF Rests, T

LEMMA QueuedType == \A s \in Seq(Item) : Queued(s) \in Seq(Byte)
<1> SUFFICES ASSUME NEW s \in Seq(Item) PROVE Queued(s) \in Seq(Byte)
    OBVIOUS
<1>1. Queued(s) = FlattenSeq(Rests(s))
    BY DEF Queued, Rests
<1> QED
    BY <1>1, RestsType, FlattenType

LEMMA QueuedConcat ==
    ASSUME NEW s \in Seq(Item), NEW t \in Seq(Item)
    PROVE  Queued(s \o t) = Queued(s) \o Queued(t)
<1> DEFINE T == Seq(Byte)
           u == s \o t
<1>1. /\ u \in Seq(Item) /\ Len(u) = Len(s) + Len(t)
      /\ \A i \in 1..Len(s) + Len(t) : u[i] = IF i <= Len(s) THEN s[i] ELSE t[i - Len(s)]
      /\ Len(s) \in Nat /\ Len(t) \in Nat
    BY ConcatProperties, LenProperties
<1> HIDE DEF u
<1>2. /\ Rests(u) \in Seq(T) /\ Len(Rests(u)) = Len(u)
      /\ \A i \in 1..Len(u) : Rests(u)[i] = u[i].rest
    BY <1>1, RestsType
<1>3. /\ Rests(s) \in Seq(T) /\ Len(Rests(s)) = Len(s)
      /\ \A i \in 1..Len(s) : Rests(s)[i] = s[i].rest
    BY RestsType
<1>4. /\ Rests(t) \in Seq(T) /\ Len(Rests(t)) = Len(t)
      /\ \A i \in 1..Len(t) : Rests(t)[i] = t[i].rest
    BY RestsType
<1> HIDE DEF T
<1> DEFINE v == Rests(s) \o Rests(t)
<1>5. /\ v \in Seq(T) /\ Len(v) = Len(s) + Len(t)
      /\ \A i \in 1..Len(s) + Len(t) :
            v[i] = IF i <= Len(s) THEN Rests(s)[i] ELSE Rests(t)[i - Len(s)]
  <2> DEFINE a == Rests(s)
             b == Rests(t)
  <2>1. a \in Seq(T) /\ b \in Seq(T) /\ Len(a) = Len(s) /\ Len(b) = Len(t)
    BY <1>3, <1>4
  <2> HIDE DEF a, b
  <2>2. /\ a \o b \in Seq(T) /\ Len(a \o b) = Len(a) + Len(b)
        /\ \A i \in 1..Len(a) + Len(b) : (a \o b)[i] = IF i <= Len(a) THEN a[i] ELSE b[i - Len(a)]
    BY <2>1, ConcatProperties
  <2> QED BY <2>1, <2>2 DEF a, b
<1> HIDE DEF v
<1>6. \A i \in 1..Len(Rests(u)) : Rests(u)[i] = v[i]
  <2> TAKE i \in 1..Len(Rests(u))
  <2>1. i \in 1..Len(s) + Len(t) /\ Rests(u)[i] = u[i].rest
    BY <1>1, <1>2
  <2>2. CASE i <= Len(s)
    BY <1>1, <1>3, <1>5, <2>1, <2>2
  <2>3. CASE ~(i <= Len(s))
    <3>1. i - Len(s) \in 1..Len(t)
      BY <1>1, <2>1, <2>3
    <3> QED BY <1>1, <1>4, <1>5, <2>1, <2>3, <3>1
  <2> QED BY <2>2, <2>3
<1>7. Rests(u) = v
  <2>1. Len(Rests(u)) = Len(v)
    BY <1>1, <1>2, <1>5
  <2> QED BY <1>2, <1>5, <1>6, <2>1, SeqEqual
<1>8. FlattenSeq(Rests(s) \o Rests(t)) = FlattenSeq(Rests(s)) \o FlattenSeq(Rests(t))
    BY <1>3, <1>4, FlattenConcat DEF T
<1> QED
    BY <1>7, <1>8 DEF Queued, Rests, u, v

LEMMA QueuedSteps ==
    /\ Queued(<<>>) = <<>>
    /\ \A x \in Item : Queued(<<x>>) = x.rest
<1>1. Queued(<<>>) = <<>>
  <2>1. <<>> \in Seq(Item) /\ Len(<<>>) = 0
    BY EmptySeq
  <2>2. Rests(<<>>) \in Seq(Seq(Byte)) /\ Len(Rests(<<>>)) = 0
    BY <2>1, RestsType
  <2>3. Rests(<<>>) = <<>>
    BY <2>2, EmptySeq
  <2> QED BY <2>3, FlattenEmpty DEF Queued, Rests
<1>2. ASSUME NEW x \in Item PROVE Queued(<<x>>) = x.rest
  <2>1. x.rest \in Seq(Byte)
    BY DEF Item
  <2>2. Rests(<<x>>) = <<x.rest>>
    BY DEF Rests
  <2>3. FlattenSeq(<<x.rest>>) = x.rest
    BY <2>1, FlattenOne
  <2> QED BY <2>2, <2>3 DEF Queued, Rests
<1> QED
    BY <1>1, <1>2

-----------------------------------------------------------------------------
(* What handle_write leaves of a queue of which n bytes are sent: the      *)
(* definitions of its LET.                                                 *)

FitsUpTo(items, n, k) ==
    /\ Len(Queued(SubSeq(items, 1, k))) <= n
    /\ k < Len(items) => Len(Queued(SubSeq(items, 1, k + 1))) > n

Done(items, n) == CHOOSE k \in 0..Len(items) : FitsUpTo(items, n, k)

Cut(items, n) == n - Len(Queued(SubSeq(items, 1, Done(items, n))))

Left(items, n) == SubSeq(items, Done(items, n) + 1, Len(items))

After(items, n) ==
    IF Left(items, n) = <<>> THEN <<>>
    ELSE [Left(items, n) EXCEPT ![1].rest = SubSeq(@, Cut(items, n) + 1, Len(@))]

LEMMA DoneFits ==
    ASSUME NEW items \in Seq(Item), NEW n \in Nat
    PROVE  Done(items, n) \in 0..Len(items) /\ FitsUpTo(items, n, Done(items, n))
<1> DEFINE Upto(k) == Len(Queued(SubSeq(items, 1, k)))
           J == {k \in Nat : k <= Len(items) => Upto(k) <= n}
<1>0. Len(items) \in Nat
    BY LenProperties
<1>1. \A k \in 0..Len(items) : Upto(k) \in Nat
  <2> TAKE k \in 0..Len(items)
  <2>1. Queued(SubSeq(items, 1, k)) \in Seq(Byte)
    BY SplitAt, QueuedType
  <2> QED BY <2>1, LenProperties
<1>2. Upto(0) = 0
  <2>1. SubSeq(items, 1, 0) = <<>>
    BY SubSeqEmpty
  <2>2. Queued(<<>>) = <<>> /\ Len(<<>>) = 0
    BY QueuedSteps, EmptySeq
  <2> QED BY <2>1, <2>2
<1> HIDE DEF Upto
<1>3. \E k \in 0..Len(items) : Upto(k) <= n /\ (k < Len(items) => Upto(k + 1) > n)
  <2> SUFFICES ASSUME \A k \in 0..Len(items) :
                         ~(Upto(k) <= n /\ (k < Len(items) => Upto(k + 1) > n))
               PROVE  FALSE
    OBVIOUS
  <2>1. 0 \in J
    BY <1>2
  <2>2. ASSUME NEW k \in Nat, k \in J PROVE k + 1 \in J
    <3> SUFFICES ASSUME k + 1 <= Len(items) PROVE Upto(k + 1) <= n
      OBVIOUS
    <3>1. k \in 0..Len(items) /\ k + 1 \in 0..Len(items) /\ k < Len(items)
      BY <1>0
    <3>2. Upto(k) <= n
      BY <2>2, <3>1
    <3>3. ~(Upto(k + 1) > n)
      BY <3>1, <3>2
    <3> QED BY <1>1, <3>1, <3>3
  <2>3. Len(items) \in J
    <3> HIDE DEF J
    <3> QED BY <1>0, <2>1, <2>2, SetInduction
  <2>4. Upto(Len(items)) <= n /\ Len(items) \in 0..Len(items) /\ ~(Len(items) < Len(items))
    BY <1>0, <2>3
  <2> QED BY <2>4
<1>4. \E k \in 0..Len(items) : FitsUpTo(items, n, k)
    BY <1>3 DEF FitsUpTo, Upto
<1> QED
    BY <1>4 DEF Done

(* What is sent and what is left are the bytes that were queued. *)
LEMMA AfterProperties ==
    ASSUME NEW items \in Seq(Item), NEW n \in 1..Len(Queued(items)),
           \A i \in 1..Len(items) : Len(items[i].rest) \in 1..items[i].len
    PROVE  /\ After(items, n) \in Seq(Item)
           /\ \A i \in 1..Len(After(items, n)) :
                 Len(After(items, n)[i].rest) \in 1..After(items, n)[i].len
           /\ After(items, n) = <<>> <=> Left(items, n) = <<>>
           /\ Queued(items) = SubSeq(Queued(items), 1, n) \o Queued(After(items, n))
           /\ Total(items) = Total(SubSeq(items, 1, Done(items, n))) + Total(After(items, n))
<1> DEFINE d == Done(items, n)
           a == SubSeq(items, 1, d)
           left == Left(items, n)
           q == Queued(items)
<1>1. n \in Nat /\ Len(items) \in Nat /\ d \in 0..Len(items) /\ FitsUpTo(items, n, d)
  <2>1. q \in Seq(Byte)
    BY QueuedType
  <2>2. Len(q) \in Nat
    BY <2>1, LenProperties
  <2>3. n \in Nat
    BY <2>2
  <2> QED BY <2>3, DoneFits, LenProperties
<1>2. /\ a \in Seq(Item) /\ Len(a) = d
      /\ left \in Seq(Item) /\ Len(left) = Len(items) - d
      /\ items = a \o left
    BY <1>1, SplitAt DEF Left
<1> HIDE DEF d
<1>3. /\ Queued(a) \in Seq(Byte) /\ Queued(left) \in Seq(Byte) /\ q \in Seq(Byte)
      /\ Len(q) \in Nat /\ Len(Queued(a)) \in Nat
      /\ q = Queued(a) \o Queued(left)
      /\ Total(items) = Total(a) + Total(left)
    BY <1>2, QueuedType, QueuedConcat, TotalConcat, LenProperties
<1>4. Len(Queued(a)) <= n
    BY <1>1 DEF FitsUpTo
<1> HIDE DEF a, left, q
<1>5. CASE left = <<>>
  <2>1. After(items, n) = <<>>
    BY <1>5 DEF After, left
  <2>2. q = Queued(a)
    BY <1>3, <1>5, QueuedSteps, ConcatEmptySeq
  <2>3. n = Len(q)
    BY <1>1, <1>3, <1>4, <2>2 DEF q
  <2>4. SubSeq(q, 1, n) = q /\ q \o <<>> = q
    BY <1>3, <2>3, SubSeqFull, ConcatEmptySeq
  <2>5. <<>> \in Seq(Item) /\ Len(<<>>) = 0
    BY EmptySeq
  <2> QED BY <1>3, <1>5, <2>1, <2>4, <2>5, QueuedSteps, TotalEmpty DEF q, a, d, left
<1>6. CASE left # <<>>
  <2> DEFINE x == left[1]
             t == SubSeq(left, 1 + 1, Len(left))
             c == Cut(items, n)
             r == SubSeq(x.rest, c + 1, Len(x.rest))
             y == [x EXCEPT !.rest = r]
             new == After(items, n)
  <2>1. Len(left) \in Nat /\ Len(left) > 0 /\ d < Len(items)
    BY <1>1, <1>2, <1>6, EmptySeq, LenProperties
  <2>2. x \in Item /\ x = items[d + 1] /\ Len(x.rest) \in 1..x.len /\ x.len \in Nat
    <3>1. d + 1 \in 1..Len(items) /\ ~(d + 1 <= d) /\ (d + 1) - d = 1 /\ 1 \in 1..Len(left)
      BY <1>1, <2>1
    <3>2. (a \o left)[d + 1] = left[1]
      BY <1>1, <1>2, <3>1, ConcatProperties
    <3>3. x \in Item
      BY <1>2, <3>1, ElementOfSeq
    <3> QED BY <1>2, <3>1, <3>2, <3>3 DEF Item
  <2>3. left = <<x>> \o t /\ t \in Seq(Item) /\ <<x>> \in Seq(Item)
    <3>1. 1 \in 0..Len(left) /\ 1 \in 1..Len(left)
      BY <2>1
    <3>2. t \in Seq(Item) /\ left = SubSeq(left, 1, 1) \o t
      BY <1>2, <3>1, SplitAt
    <3>3. <<x>> \in Seq(Item)
      BY <2>2
    <3>4. SubSeq(left, 1, 1) = SubSeq(left, 1, 1 - 1) \o <<left[1]>>
      <4>1. 1 \in 1..Len(left) /\ 1 \in 1..1
        BY <3>1
      <4> QED BY <1>2, <4>1, SubSeqRecursiveSecond
    <3>5. SubSeq(left, 1, 1 - 1) = <<>>
      BY SubSeqEmpty
    <3>6. SubSeq(left, 1, 1) = <<x>>
      BY <3>3, <3>4, <3>5, ConcatEmptySeq
    <3> QED BY <3>2, <3>3, <3>6
  <2> HIDE DEF t, x
  <2>4. c = n - Len(Queued(a)) /\ c \in Nat /\ c < Len(x.rest)
    <3> HIDE DEF c
    <3>1. c = n - Len(Queued(a))
      BY DEF Cut, a, d, c
    <3>2. SubSeq(items, 1, d + 1) = a \o <<x>>
      <4>1. 1 \in 1..Len(items) /\ d + 1 \in 1..Len(items) /\ (d + 1) - 1 = d
        BY <1>1, <2>1
      <4>2. SubSeq(items, 1, d + 1) = SubSeq(items, 1, (d + 1) - 1) \o <<items[d + 1]>>
        BY <4>1, SubSeqRecursiveSecond
      <4> QED BY <2>2, <4>1, <4>2 DEF a
    <3>3. Queued(a \o <<x>>) = Queued(a) \o x.rest
      BY <1>2, <2>2, <2>3, QueuedConcat, QueuedSteps
    <3>4. Len(Queued(a \o <<x>>)) = Len(Queued(a)) + Len(x.rest)
      BY <1>3, <2>2, <3>3, ConcatProperties DEF Item
    <3>5. Len(Queued(SubSeq(items, 1, d + 1))) > n
      BY <1>1, <2>1 DEF FitsUpTo
    <3>6. Len(x.rest) \in Nat
      BY <2>2
    <3> DEFINE p == Len(Queued(a))
               l == Len(x.rest)
    <3>7. p \in Nat /\ l \in Nat /\ n \in Nat /\ p <= n /\ p + l > n /\ c = n - p
      BY <1>1, <1>3, <1>4, <3>1, <3>2, <3>4, <3>5, <3>6
    <3> HIDE DEF p, l
    <3>8. c \in Nat /\ c < l
      BY <3>7
    <3> QED BY <3>1, <3>8 DEF l
  <2> HIDE DEF c
  <2>5. /\ r \in Seq(Byte) /\ Len(r) = Len(x.rest) - c
        /\ SubSeq(x.rest, 1, c) \in Seq(Byte) /\ Len(SubSeq(x.rest, 1, c)) = c
        /\ x.rest = SubSeq(x.rest, 1, c) \o r
    <3>1. x.rest \in Seq(Byte) /\ c \in 0..Len(x.rest)
      BY <2>2, <2>4 DEF Item
    <3> QED BY <3>1, SplitAt
  <2>6. y \in Item /\ y.rest = r /\ y.len = x.len /\ Len(r) \in 1..y.len
    <3> HIDE DEF r
    <3>1. y \in Item /\ y.rest = r /\ y.len = x.len
      BY <2>2, <2>5 DEF Item
    <3>2. \A l, k, i \in Nat : k \in 1..l /\ i < k => k - i \in 1..l
      OBVIOUS
    <3>3. Len(r) \in 1..x.len
      <4>1. Len(x.rest) \in Nat
        BY <2>2
      <4> QED BY <2>2, <2>4, <2>5, <3>2, <4>1
    <3> QED BY <3>1, <3>3
  <2>7. new = [left EXCEPT ![1] = y]
    BY <1>6 DEF After, left, c, x
  <2> HIDE DEF y, new, r
  <2>8. /\ new \in Seq(Item) /\ Len(new) = Len(left)
        /\ \A i \in 1..Len(left) : new[i] = IF i = 1 THEN y ELSE left[i]
    <3>1. 1 \in 1..Len(left)
      BY <2>1
    <3> QED BY <1>2, <2>6, <2>7, <3>1, ExceptSeq
  <2>9. new = <<y>> \o t
    <3> DEFINE u == <<y>> \o t
    <3>1. /\ u \in Seq(Item) /\ Len(u) = 1 + Len(t)
          /\ \A i \in 1..1 + Len(t) : u[i] = IF i <= 1 THEN y ELSE t[i - 1]
      BY <2>3, <2>6, ConcatProperties
    <3>2. /\ Len(left) = 1 + Len(t)
          /\ \A i \in 1..1 + Len(t) : left[i] = IF i <= 1 THEN x ELSE t[i - 1]
      BY <2>2, <2>3, ConcatProperties
    <3>3. Len(t) \in Nat
      BY <2>3, LenProperties
    <3> HIDE DEF u
    <3>4. \A i \in 1..Len(new) : new[i] = u[i]
      BY <2>8, <3>1, <3>2, <3>3
    <3>5. new = u
      BY <2>8, <3>1, <3>2, <3>4, SeqEqual
    <3> QED BY <3>5 DEF u
  <2>10. Queued(new) = r \o Queued(t) /\ Queued(left) = x.rest \o Queued(t) /\ Queued(t) \in Seq(Byte)
    <3>1. <<y>> \in Seq(Item) /\ Queued(<<y>>) = r /\ Queued(<<x>>) = x.rest
      BY <2>2, <2>6, QueuedSteps
    <3> QED BY <2>3, <2>9, <3>1, QueuedConcat, QueuedType
  <2> DEFINE b == SubSeq(x.rest, 1, c)
             e == Queued(a)
             w == Queued(t)
  <2>11. b \in Seq(Byte) /\ e \in Seq(Byte) /\ w \in Seq(Byte) /\ r \in Seq(Byte)
    BY <1>3, <2>5, <2>10
  <2>12. q = e \o ((b \o r) \o w) /\ Queued(new) = r \o w
    BY <1>3, <2>5, <2>10
  <2>13. Len(e) + Len(b) = n
    BY <1>1, <1>3, <2>4, <2>5
  <2> HIDE DEF b, e, w
  <2>14. q = (e \o b) \o (r \o w)
    <3>1. (b \o r) \o w = b \o (r \o w)
      BY <2>11, ConcatThree
    <3>2. r \o w \in Seq(Byte)
      BY <2>11, ConcatProperties
    <3>3. (e \o b) \o (r \o w) = e \o (b \o (r \o w))
      <4> DEFINE v == r \o w
      <4>1. v \in Seq(Byte)
        BY <3>2
      <4> HIDE DEF v
      <4>2. (e \o b) \o v = e \o (b \o v)
        BY <2>11, <4>1, BytesAssociate, Zenon
      <4> QED BY <4>2 DEF v
    <3> QED BY <2>12, <3>1, <3>3
  <2>15. SubSeq(q, 1, n) = e \o b
    <3>1. e \o b \in Seq(Byte) /\ Len(e \o b) = n /\ r \o w \in Seq(Byte)
      BY <2>11, <2>13, ConcatProperties
    <3>2. SubSeq((e \o b) \o (r \o w), 1, Len(e \o b)) = e \o b
      BY <3>1, ConcatParts
    <3> QED BY <2>14, <3>1, <3>2
  <2>16. q = SubSeq(q, 1, n) \o Queued(new)
    BY <2>12, <2>14, <2>15
  <2>17. Total(new) = Total(left)
    <3>1. \A i \in 1..Len(left) : new[i].len = left[i].len
      BY <2>6, <2>8 DEF x
    <3> QED BY <1>2, <2>8, <3>1, TotalOfSizes
  <2>18. ASSUME NEW i \in 1..Len(new) PROVE Len(new[i].rest) \in 1..new[i].len
    <3>1. CASE i = 1
      BY <2>6, <2>8, <3>1
    <3>2. CASE i # 1
      <4>1. d + i \in 1..Len(items) /\ ~(d + i <= d) /\ (d + i) - d = i
        BY <1>1, <1>2, <2>1, <2>8, <3>2
      <4>2. (a \o left)[d + i] = left[i]
        BY <1>1, <1>2, <4>1, ConcatProperties
      <4> QED BY <1>2, <2>8, <3>2, <4>1, <4>2
    <3> QED BY <3>1, <3>2
  <2>19. new # <<>>
    BY <2>1, <2>8, EmptySeq
  <2> QED
    BY <1>3, <1>6, <2>8, <2>16, <2>17, <2>18, <2>19 DEF q, a, d, left, new
<1> QED
    BY <1>5, <1>6

-----------------------------------------------------------------------------
(* What __read_cb makes of the bytes it finds: the definitions of its LET. *)

Size(bytes, h) == nheader + nbody(bytes[h + 1])

Whole(bytes, h) == h + nheader <= Len(bytes) /\ h + Size(bytes, h) <= Len(bytes)

ReadOne(bytes, h) == SubSeq(bytes, h + 1, h + Size(bytes, h))

Reads(f, bytes) ==
    f = [h \in 0..Len(bytes) |->
            IF Whole(bytes, h)
            THEN [packets |-> <<ReadOne(bytes, h)>> \o f[h + Size(bytes, h)].packets,
                  head    |-> f[h + Size(bytes, h)].head]
            ELSE [packets |-> <<>>, head |-> h]]

ReadSteps(f, bytes) ==
    \A h \in 0..Len(bytes) :
        f[h] = IF Whole(bytes, h)
               THEN [packets |-> <<ReadOne(bytes, h)>> \o f[h + Size(bytes, h)].packets,
                     head    |-> f[h + Size(bytes, h)].head]
               ELSE [packets |-> <<>>, head |-> h]

LEMMA ReadDef == \A bytes : __read_cb(bytes) = (CHOOSE f : Reads(f, bytes))[0]
BY DEF __read_cb, Reads, ReadOne, Whole, Size

(* A packet that is whole has bytes, and ends before the bytes do. *)
LEMMA WholeProperties ==
    ASSUME NEW bytes \in Seq(Byte), NEW h \in 0..Len(bytes), Whole(bytes, h)
    PROVE  /\ Size(bytes, h) \in Nat /\ h + Size(bytes, h) \in h + 1..Len(bytes)
           /\ ReadOne(bytes, h) \in Seq(Byte) /\ Len(ReadOne(bytes, h)) = Size(bytes, h)
<1>1. Len(bytes) \in Nat /\ nheader \in Nat /\ nheader > 0
    BY LenProperties, StreamAssumption
<1>2. h + 1 \in 1..Len(bytes)
    BY <1>1 DEF Whole
<1>3. nbody(bytes[h + 1]) \in Nat
  <2>1. bytes[h + 1] \in Byte
    BY <1>2, ElementOfSeq
  <2>2. bytes[h + 1].body \in Body \cup {0}
    BY <2>1 DEF Byte
  <2>3. Body \subseteq Nat /\ Misread \in Nat
    BY StreamAssumption
  <2>4. bytes[h + 1].body \in Nat
    <3>1. 0 \in Nat
      OBVIOUS
    <3>2. \A b \in Body \cup {0} : b \in Nat
      BY <2>3, <3>1, Zenon
    <3> QED BY <2>2, <3>2, Zenon
  <2> QED BY <2>3, <2>4, Zenon DEF nbody
<1>4. Size(bytes, h) \in Nat /\ Size(bytes, h) > 0
    BY <1>1, <1>3 DEF Size
<1>5. h + Size(bytes, h) \in h + 1..Len(bytes)
    BY <1>1, <1>4 DEF Whole
<1>6. \A i \in h + 1..h + Size(bytes, h) : bytes[i] \in Byte
  <2> TAKE i \in h + 1..h + Size(bytes, h)
  <2>1. i \in 1..Len(bytes)
    BY <1>1, <1>4, <1>5
  <2> QED BY <2>1, ElementOfSeq
<1>7. /\ ReadOne(bytes, h) \in Seq(Byte)
      /\ Len(ReadOne(bytes, h)) = IF h + 1 <= h + Size(bytes, h)
                                  THEN (h + Size(bytes, h)) - (h + 1) + 1 ELSE 0
    BY <1>1, <1>4, <1>6, SubSeqProperties DEF ReadOne
<1> QED
    BY <1>4, <1>5, <1>7

LEMMA ReadsExist == \A bytes \in Seq(Byte) : \E f : Reads(f, bytes)
<1> SUFFICES ASSUME NEW bytes \in Seq(Byte) PROVE \E f : Reads(f, bytes)
    OBVIOUS
<1> DEFINE N == Len(bytes)
           P == Seq(Byte)
           T == [packets : Seq(P), head : Nat]
           W == {h \in 0..N : Whole(bytes, h)}
           next == [h \in 0..N |-> h + Size(bytes, h)]
           base == [h \in 0..N |-> [packets |-> <<>>, head |-> h]]
           step == [h \in 0..N |-> [v \in T |->
                       IF h \in W
                       THEN [packets |-> <<ReadOne(bytes, h)>> \o v.packets, head |-> v.head]
                       ELSE v]]
<1>1. N \in Nat
    BY LenProperties
<1>2. \A h \in W : next[h] \in h + 1..N /\ ReadOne(bytes, h) \in P
    BY WholeProperties
<1> HIDE DEF N, P, W
<1>3. base \in [0..N -> T]
    BY <1>1, EmptySeq
<1>4. step \in [0..N -> [T -> T]]
  <2> SUFFICES ASSUME NEW h \in W, NEW v \in T
               PROVE  [packets |-> <<ReadOne(bytes, h)>> \o v.packets, head |-> v.head] \in T
    OBVIOUS
  <2> DEFINE x == ReadOne(bytes, h)
  <2>1. x \in P /\ v.packets \in Seq(P) /\ v.head \in Nat
    BY <1>2
  <2> HIDE DEF x, step
  <2>2. <<x>> \in Seq(P)
    BY <2>1
  <2>3. <<x>> \o v.packets \in Seq(P)
    BY <2>1, <2>2, ConcatProperties
  <2> QED BY <2>1, <2>3 DEF x
<1>5. \A h \in 0..N : h \in W => next[h] \in h + 1..N
    BY <1>2
<1>6. PICK f \in [0..N -> T] : Descends(f, 0, N, W, next, base, step)
  <2> HIDE DEF T, base, step, next
  <2> QED BY <1>1, <1>3, <1>4, <1>5, DescentExists
<1>7. \A h \in 0..N :
         f[h] = IF h \in W
                THEN [packets |-> <<ReadOne(bytes, h)>> \o f[h + Size(bytes, h)].packets,
                      head    |-> f[h + Size(bytes, h)].head]
                ELSE [packets |-> <<>>, head |-> h]
  <2> TAKE h \in 0..N
  <2>1. f[h] = IF h \in W THEN step[h][f[next[h]]] ELSE base[h]
    <3> HIDE DEF T, base, step, next
    <3> QED BY <1>6 DEF Descends
  <2>2. CASE h \in W
    <3>1. next[h] = h + Size(bytes, h) /\ f[next[h]] \in T
      <4> HIDE DEF T
      <4>1. next[h] \in 0..N
        BY <1>1, <1>2, <2>2
      <4> QED BY <4>1
    <3> DEFINE v == f[next[h]]
    <3> HIDE DEF v
    <3>2. step[h][v] = [packets |-> <<ReadOne(bytes, h)>> \o v.packets, head |-> v.head]
      BY <2>2, <3>1 DEF v
    <3> HIDE DEF step
    <3> QED BY <2>1, <2>2, <3>1, <3>2 DEF v
  <2>3. CASE h \notin W
    BY <2>1, <2>3
  <2> QED BY <2>2, <2>3
<1>8. f = [h \in 0..N |-> f[h]]
    OBVIOUS
<1>9. \A h \in 0..N : h \in W <=> Whole(bytes, h)
    BY DEF W
<1> HIDE DEF step, base, next, T
<1>10. f = [h \in 0..N |->
               IF Whole(bytes, h)
               THEN [packets |-> <<ReadOne(bytes, h)>> \o f[h + Size(bytes, h)].packets,
                     head    |-> f[h + Size(bytes, h)].head]
               ELSE [packets |-> <<>>, head |-> h]]
    BY <1>7, <1>8, <1>9
<1>11. Reads(f, bytes)
    BY <1>10 DEF Reads, N
<1> QED
    BY <1>11

LEMMA ReadIsRecursion ==
    ASSUME NEW bytes \in Seq(Byte)
    PROVE  \E f : __read_cb(bytes) = f[0] /\ ReadSteps(f, bytes)
<1> DEFINE f == CHOOSE g : Reads(g, bytes)
<1>1. Reads(f, bytes)
    BY ReadsExist
<1>2. __read_cb(bytes) = f[0]
    BY ReadDef
<1> HIDE DEF f
<1>3. ReadSteps(f, bytes)
    BY <1>1, Zenon DEF Reads, ReadSteps
<1> QED
    BY <1>2, <1>3

LEMMA ReadType ==
    ASSUME NEW bytes \in Seq(Byte)
    PROVE  /\ __read_cb(bytes).packets \in Seq(Seq(Byte))
           /\ __read_cb(bytes).head \in 0..Len(bytes)
<1> DEFINE N == Len(bytes)
           P == Seq(Byte)
<1>1. PICK f : __read_cb(bytes) = f[0] /\ ReadSteps(f, bytes)
    BY ReadIsRecursion
<1> DEFINE R == {h \in 0..N : f[h].packets \in Seq(P) /\ f[h].head \in 0..N}
<1>2. N \in Nat
    BY LenProperties
<1>3. ASSUME NEW h \in 0..N, \A j \in h + 1..N : j \in R
      PROVE  h \in R
  <2>1. CASE Whole(bytes, h)
    <3> DEFINE j == h + Size(bytes, h)
               x == ReadOne(bytes, h)
    <3>1. j \in h + 1..N /\ x \in P
      BY <2>1, WholeProperties
    <3>2. j \in R
      BY <1>3, <3>1
    <3>3. f[h] = [packets |-> <<x>> \o f[j].packets, head |-> f[j].head]
      BY <1>1, <2>1 DEF ReadSteps
    <3> HIDE DEF j, x, P
    <3>4. <<x>> \in Seq(P) /\ f[j].packets \in Seq(P)
      BY <3>1, <3>2
    <3>5. <<x>> \o f[j].packets \in Seq(P)
      BY <3>4, ConcatProperties
    <3>6. f[h].packets = <<x>> \o f[j].packets /\ f[h].head = f[j].head
      BY <3>3
    <3>7. f[j].head \in 0..N
      BY <3>2
    <3> QED BY <3>5, <3>6, <3>7
  <2>2. CASE ~Whole(bytes, h)
    <3>1. f[h] = [packets |-> <<>>, head |-> h]
      BY <1>1, <2>2 DEF ReadSteps
    <3>2. f[h].packets = <<>> /\ f[h].head = h
      BY <3>1
    <3> HIDE DEF P
    <3>3. <<>> \in Seq(P)
      BY EmptySeq
    <3> QED BY <3>2, <3>3
  <2> QED BY <2>1, <2>2
<1>4. 0 \in R
  <2> HIDE DEF R, N
  <2>1. 0..N \subseteq R
    BY <1>2, <1>3, DescendingInduction
  <2> QED BY <1>2, <2>1
<1> QED
    BY <1>1, <1>4

-----------------------------------------------------------------------------
(* Packets *)

LEMMA PacketType ==
    ASSUME NEW p \in Packet
    PROVE  /\ p \in Seq(Byte) /\ Len(p) \in 1..IO_BUF_SIZE
           /\ p[1].at = 1 /\ p[1].body \in Nat /\ nheader + p[1].body = Len(p)
<1>1. PICK k \in 1..MaxPackets, b \in Body : p = PacketOf(k, b)
    BY DEF Packet
<1>2. /\ nheader \in Nat /\ nheader > 0 /\ b \in Nat /\ IO_BUF_SIZE \in Nat /\ MaxPackets \in Nat
      /\ nheader + b <= IO_BUF_SIZE
    BY StreamAssumption, PacketsFit
<1> DEFINE n == nheader + b
<1>3. n \in 1..IO_BUF_SIZE
    BY <1>2
<1> HIDE DEF n
<1>4. \A i \in 1..n : [packet |-> k, at |-> i, body |-> b] \in Byte
    BY <1>2, <1>3 DEF Byte
<1>5. p = [i \in 1..n |-> [packet |-> k, at |-> i, body |-> b]]
    BY <1>1 DEF PacketOf, n
<1>6. p \in [1..n -> Byte]
    BY <1>4, <1>5
<1>7. p \in Seq(Byte) /\ Len(p) = n
    BY <1>3, <1>6
<1>8. p[1] = [packet |-> k, at |-> 1, body |-> b]
    BY <1>3, <1>5
<1> QED
    BY <1>2, <1>3, <1>7, <1>8 DEF n

LEMMA PacketsAreBytes == \A s \in Seq(Packet) : s \in Seq(Seq(Byte))
  <1>1. Packet \subseteq Seq(Byte)
    BY PacketType
  <1> QED BY <1>1, SeqMonotonic

LEMMA PacketsAssociate == \A s, t, u \in Seq(Packet) : (s \o t) \o u = s \o (t \o u)
BY ConcatThree

LEMMA FirstPacket ==
    ASSUME NEW pkts \in Seq(Packet), pkts # <<>>
    PROVE  \E p \in Packet, qs \in Seq(Packet) :
              /\ pkts = <<p>> \o qs /\ FlattenSeq(pkts) = p \o FlattenSeq(qs)
              /\ p \in Seq(Byte) /\ FlattenSeq(qs) \in Seq(Byte)
<1> DEFINE p == pkts[1]
           qs == SubSeq(pkts, 2, Len(pkts))
<1>1. p \in Packet /\ qs \in Seq(Packet) /\ pkts = <<p>> \o qs
    BY FirstAndRest
<1> HIDE DEF p, qs
<1>2. p \in Seq(Byte)
    BY <1>1, PacketType
<1>3. <<p>> \in Seq(Packet)
    BY <1>1
<1>4. qs \in Seq(Seq(Byte)) /\ <<p>> \in Seq(Seq(Byte))
    BY <1>1, <1>3, PacketsAreBytes, Zenon
<1>5. FlattenSeq(<<p>>) = p /\ FlattenSeq(qs) \in Seq(Byte)
    BY <1>2, <1>4, FlattenOne, FlattenType
<1>6. FlattenSeq(<<p>> \o qs) = FlattenSeq(<<p>>) \o FlattenSeq(qs)
    BY <1>4, FlattenConcat
<1>7. FlattenSeq(pkts) = p \o FlattenSeq(qs)
    BY <1>1, <1>5, <1>6
<1> QED
    BY <1>1, <1>2, <1>5, <1>7

Starts(bytes, h, lost, p, w) == SubSeq(bytes, h + 1, Len(bytes)) \o lost = p \o w

(* Where a packet starts, __read_cb reads its size. *)
LEMMA FirstSize ==
    ASSUME NEW bytes \in Seq(Byte), NEW h \in 0..Len(bytes), h + 1 <= Len(bytes),
           NEW lost \in Seq(Byte), NEW p \in Packet, NEW w \in Seq(Byte),
           Starts(bytes, h, lost, p, w)
    PROVE  Size(bytes, h) = Len(p)
<1> DEFINE s == SubSeq(bytes, h + 1, Len(bytes))
<1>1. Len(bytes) \in Nat /\ Len(lost) \in Nat /\ Len(w) \in Nat
    BY LenProperties
<1>2. s \in Seq(Byte) /\ Len(s) = Len(bytes) - h
    BY SplitAt
<1>3. s[1] = bytes[h + 1]
  <2>1. \A i \in h + 1..Len(bytes) : bytes[i] \in Byte
    <3>1. \A i \in h + 1..Len(bytes) : i \in 1..Len(bytes)
      BY <1>1
    <3> QED BY <3>1, ElementOfSeq
  <2>2. \A i \in 1..Len(bytes) - (h + 1) + 1 : s[i] = bytes[h + 1 + i - 1]
    BY <1>1, <2>1, SubSeqProperties
  <2>3. 1 \in 1..Len(bytes) - (h + 1) + 1 /\ h + 1 + 1 - 1 = h + 1
    BY <1>1
  <2> QED BY <2>2, <2>3
<1> HIDE DEF s
<1>4. p \in Seq(Byte) /\ Len(p) \in Nat /\ Len(p) >= 1
    BY PacketType
<1>5. (s \o lost)[1] = s[1]
  <2>1. 1 \in 1..Len(s) + Len(lost) /\ 1 <= Len(s)
    BY <1>1, <1>2
  <2> QED BY <1>2, <2>1, ConcatProperties
<1>6. (p \o w)[1] = p[1]
  <2>1. 1 \in 1..Len(p) + Len(w) /\ 1 <= Len(p)
    BY <1>1, <1>4
  <2> QED BY <1>4, <2>1, ConcatProperties
<1>7. bytes[h + 1] = p[1]
    BY <1>3, <1>5, <1>6 DEF s, Starts
<1> QED
    BY <1>7, PacketType DEF Size, nbody

(* Of the packets that are due, __read_cb takes the first ones off, and    *)
(* what it leaves is less than a packet.                                   *)
Remains(bytes, head, lost, b) ==
    /\ SubSeq(bytes, head + 1, Len(bytes)) \o lost = FlattenSeq(b)
    /\ Len(SubSeq(bytes, head + 1, Len(bytes))) < IO_BUF_SIZE

Parses(v, bytes, lost, pkts) ==
    \E a, b \in Seq(Packet) :
        pkts = a \o b /\ v.packets = a /\ Remains(bytes, v.head, lost, b)

LEMMA ParsesOne ==
    ASSUME NEW bytes \in Seq(Byte), NEW lost \in Seq(Byte), NEW h \in 0..Len(bytes),
           Whole(bytes, h), NEW pkts \in Seq(Packet),
           SubSeq(bytes, h + 1, Len(bytes)) \o lost = FlattenSeq(pkts)
    PROVE  \E qs \in Seq(Packet) :
              /\ ReadOne(bytes, h) \in Packet
              /\ pkts = <<ReadOne(bytes, h)>> \o qs
              /\ SubSeq(bytes, h + Size(bytes, h) + 1, Len(bytes)) \o lost = FlattenSeq(qs)
<1> DEFINE N == Len(bytes)
           j == h + Size(bytes, h)
           s == SubSeq(bytes, h + 1, N)
           x == ReadOne(bytes, h)
           y == SubSeq(bytes, j + 1, N)
<1>1. N \in Nat /\ j \in h + 1..N /\ x \in Seq(Byte) /\ Len(x) = Size(bytes, h)
    BY WholeProperties, LenProperties
<1>2. y \in Seq(Byte)
    BY <1>1, SplitAt
<1>3. s = x \o y
  <2>1. h + 1 \in 1..Len(bytes) + 1 /\ j \in (h + 1) - 1..Len(bytes) /\ N \in j..Len(bytes)
    BY <1>1
  <2> QED BY <2>1, ConcatAdjacentSubSeq DEF ReadOne
<1> HIDE DEF s, y, N, j
<1>4. s \o lost = x \o (y \o lost) /\ y \o lost \in Seq(Byte)
    BY <1>1, <1>2, <1>3, BytesAssociate, ConcatProperties
<1>5. s \o lost = FlattenSeq(pkts)
    BY DEF s, N
<1>6. pkts # <<>>
  <2> SUFFICES ASSUME pkts = <<>> PROVE FALSE
    OBVIOUS
  <2>1. x \o (y \o lost) = <<>>
    BY <1>4, <1>5, FlattenEmpty
  <2>2. Len(x) = 0
    <3> HIDE DEF x
    <3>1. Len(x \o (y \o lost)) = Len(x) + Len(y \o lost)
      BY <1>1, <1>4, ConcatProperties
    <3>2. Len(x) \in Nat /\ Len(y \o lost) \in Nat /\ Len(<<>>) = 0
      BY <1>1, <1>4, LenProperties, EmptySeq
    <3> QED BY <2>1, <3>1, <3>2
  <2>3. Len(x) \in Nat /\ h + Len(x) \in h + 1..N
    BY <1>1, LenProperties DEF j
  <2> QED BY <1>1, <2>2, <2>3
<1>7. PICK p \in Packet, qs \in Seq(Packet) :
         /\ pkts = <<p>> \o qs /\ FlattenSeq(pkts) = p \o FlattenSeq(qs)
         /\ p \in Seq(Byte) /\ FlattenSeq(qs) \in Seq(Byte)
    BY <1>6, FirstPacket
<1> DEFINE w == FlattenSeq(qs)
<1>8. FlattenSeq(pkts) = p \o w /\ p \in Seq(Byte) /\ w \in Seq(Byte)
    BY <1>7
<1> HIDE DEF w
<1>9. Len(x) = Len(p)
  <2>1. h + 1 <= Len(bytes)
    <3>1. h \in Nat /\ j \in Nat /\ h < j /\ j <= N
      BY <1>1
    <3> QED BY <1>1, <3>1 DEF N
  <2>2. Starts(bytes, h, lost, p, w)
    BY <1>5, <1>8 DEF s, N, Starts
  <2>3. Size(bytes, h) = Len(p)
    BY <1>7, <1>8, <2>1, <2>2, FirstSize
  <2> QED BY <1>1, <2>3
<1> HIDE DEF x
<1>10. x \o (y \o lost) = p \o w
    BY <1>4, <1>5, <1>8
<1>11. x = p /\ y \o lost = w
  <2> DEFINE v == y \o lost
  <2> HIDE DEF v
  <2>1. x \in Seq(Byte) /\ v \in Seq(Byte) /\ x \o v = p \o w
    BY <1>1, <1>4, <1>10 DEF v
  <2>2. x = p /\ v = w
    BY <1>8, <1>9, <2>1, ConcatCancel
  <2> QED BY <2>2 DEF v
<1> QED
    BY <1>7, <1>11 DEF x, y, j, N, w

LEMMA ParsesNone ==
    ASSUME NEW bytes \in Seq(Byte), NEW lost \in Seq(Byte), NEW h \in 0..Len(bytes),
           ~Whole(bytes, h), NEW pkts \in Seq(Packet),
           SubSeq(bytes, h + 1, Len(bytes)) \o lost = FlattenSeq(pkts)
    PROVE  Remains(bytes, h, lost, pkts)
<1> DEFINE s == SubSeq(bytes, h + 1, Len(bytes))
<1>1. Len(bytes) \in Nat /\ IO_BUF_SIZE \in Nat /\ IO_BUF_SIZE > 0
    BY LenProperties, StreamAssumption
<1>2. s \in Seq(Byte) /\ Len(s) = Len(bytes) - h /\ Len(lost) \in Nat
    BY SplitAt, LenProperties
<1>3. s \o lost = FlattenSeq(pkts)
    OBVIOUS
<1> HIDE DEF s
<1>4. CASE pkts = <<>>
  <2>1. s \o lost = <<>>
    BY <1>3, <1>4, FlattenEmpty
  <2>2. Len(s \o lost) = Len(s) + Len(lost) /\ Len(s) \in Nat /\ Len(<<>>) = 0
    BY <1>2, ConcatProperties, LenProperties, EmptySeq
  <2>3. Len(s) = 0
    BY <1>2, <2>1, <2>2
  <2> QED BY <1>1, <1>3, <2>3 DEF Remains, s
<1>5. CASE pkts # <<>>
  <2>1. PICK p \in Packet, qs \in Seq(Packet) :
           /\ pkts = <<p>> \o qs /\ FlattenSeq(pkts) = p \o FlattenSeq(qs)
           /\ p \in Seq(Byte) /\ FlattenSeq(qs) \in Seq(Byte)
    BY <1>5, FirstPacket
  <2> DEFINE w == FlattenSeq(qs)
  <2>2. FlattenSeq(pkts) = p \o w /\ p \in Seq(Byte) /\ w \in Seq(Byte)
    BY <2>1
  <2> HIDE DEF w
  <2>3. Len(s) < Len(p)
    <3> SUFFICES ASSUME ~(Len(s) < Len(p)) PROVE FALSE
      OBVIOUS
    <3>1. Len(p) \in 1..IO_BUF_SIZE /\ nheader + p[1].body = Len(p) /\ p[1].body \in Nat
      BY <2>1, PacketType
    <3>2. nheader \in Nat /\ nheader > 0
      BY StreamAssumption
    <3>3. h + 1 <= Len(bytes) /\ h + nheader <= Len(bytes) /\ h + Len(p) <= Len(bytes)
      <4> DEFINE N == Len(bytes)
                 l == Len(p)
      <4>1. nheader + p[1].body = l /\ p[1].body \in Nat
        BY <3>1
      <4>2. N \in Nat /\ ~(N - h < l) /\ h \in 0..N
        BY <1>1, <1>2
      <4> HIDE DEF N, l
      <4>3. l \in Nat /\ nheader <= l
        <5>1. \A b \in Nat : nheader + b \in Nat /\ nheader <= nheader + b
          BY <3>2
        <5>2. nheader + p[1].body \in Nat /\ nheader <= nheader + p[1].body
          BY <4>1, <5>1, Zenon
        <5> QED BY <4>1, <5>2, Zenon
      <4>4. h + 1 <= N /\ h + nheader <= N /\ h + l <= N
        BY <3>2, <4>2, <4>3
      <4> QED BY <4>4 DEF N, l
    <3>4. Starts(bytes, h, lost, p, w)
      BY <1>3, <2>2 DEF s, Starts
    <3>5. Size(bytes, h) = Len(p)
      BY <2>1, <2>2, <3>3, <3>4, FirstSize
    <3> QED BY <3>3, <3>5 DEF Whole
  <2>4. Len(p) \in 1..IO_BUF_SIZE
    BY <2>1, PacketType
  <2>5. Len(s) < IO_BUF_SIZE
    BY <1>1, <1>2, <2>3, <2>4
  <2> QED BY <1>3, <2>5 DEF Remains, s
<1> QED
    BY <1>4, <1>5

LEMMA ReadPackets ==
    ASSUME NEW bytes \in Seq(Byte), NEW lost \in Seq(Byte), NEW pkts \in Seq(Packet),
           bytes \o lost = FlattenSeq(pkts)
    PROVE  Parses(__read_cb(bytes), bytes, lost, pkts)
<1> DEFINE N == Len(bytes)
           Rest(h, ps) == SubSeq(bytes, h + 1, N) \o lost = FlattenSeq(ps)
<1>1. PICK f : __read_cb(bytes) = f[0] /\ ReadSteps(f, bytes)
    BY ReadIsRecursion
<1> DEFINE R == {h \in 0..N : \A ps \in Seq(Packet) :
                    Rest(h, ps) => Parses(f[h], bytes, lost, ps)}
<1>2. N \in Nat
    BY LenProperties
<1>3. ASSUME NEW h \in 0..N, \A j \in h + 1..N : j \in R
      PROVE  h \in R
  <2> SUFFICES ASSUME NEW ps \in Seq(Packet), Rest(h, ps)
               PROVE  Parses(f[h], bytes, lost, ps)
    OBVIOUS
  <2>1. CASE Whole(bytes, h)
    <3> DEFINE j == h + Size(bytes, h)
               x == ReadOne(bytes, h)
    <3>1. PICK qs \in Seq(Packet) : x \in Packet /\ ps = <<x>> \o qs /\ Rest(j, qs)
      BY <2>1, ParsesOne
    <3>2. j \in h + 1..N
      BY <2>1, WholeProperties
    <3>3. j \in R
      BY <1>3, <3>2
    <3>4. f[h] = [packets |-> <<x>> \o f[j].packets, head |-> f[j].head]
      BY <1>1, <2>1 DEF ReadSteps
    <3> HIDE DEF j, x
    <3>5. Parses(f[j], bytes, lost, qs)
      BY <3>1, <3>3
    <3>6. PICK a \in Seq(Packet), b \in Seq(Packet) :
             qs = a \o b /\ f[j].packets = a /\ Remains(bytes, f[j].head, lost, b)
      BY <3>5 DEF Parses
    <3>7. f[h].packets = <<x>> \o a /\ f[h].head = f[j].head
      <4> DEFINE u == <<x>> \o f[j].packets
                 k == f[j].head
      <4>1. f[h] = [packets |-> u, head |-> k]
        BY <3>4
      <4> HIDE DEF u, k
      <4>2. f[h].packets = u /\ f[h].head = k
        BY <4>1
      <4> QED BY <3>6, <4>2 DEF u, k
    <3> DEFINE c == <<x>> \o a
    <3>8. c \in Seq(Packet) /\ ps = c \o b
      <4>1. <<x>> \in Seq(Packet)
        BY <3>1
      <4>2. (<<x>> \o a) \o b = <<x>> \o (a \o b)
        BY <4>1, PacketsAssociate, Zenon
      <4>3. c \in Seq(Packet)
        BY <4>1, ConcatProperties
      <4> QED BY <3>1, <3>6, <4>2, <4>3
    <3> HIDE DEF c
    <3>9. f[h].packets = c /\ Remains(bytes, f[h].head, lost, b)
      BY <3>6, <3>7 DEF c
    <3> QED BY <3>8, <3>9 DEF Parses
  <2>2. CASE ~Whole(bytes, h)
    <3>1. f[h] = [packets |-> <<>>, head |-> h]
      BY <1>1, <2>2 DEF ReadSteps
    <3>2. f[h].packets = <<>> /\ f[h].head = h
      BY <3>1
    <3>3. Remains(bytes, h, lost, ps)
      BY <2>2, ParsesNone
    <3>4. <<>> \in Seq(Packet) /\ ps = <<>> \o ps
      BY EmptySeq, ConcatEmptySeq
    <3> QED BY <3>2, <3>3, <3>4 DEF Parses
  <2> QED BY <2>1, <2>2
<1>4. 0 \in R
  <2> HIDE DEF R, N
  <2>1. 0..N \subseteq R
    BY <1>2, <1>3, DescendingInduction
  <2> QED BY <1>2, <2>1
<1>5. Rest(0, pkts)
  <2>1. SubSeq(bytes, 0 + 1, N) = bytes
    BY SubSeqFull
  <2> QED BY <2>1
<1> QED
    BY <1>1, <1>4, <1>5

-----------------------------------------------------------------------------
(* The types, and the queue *)

QueueInv == ArmedWhileQueued /\ WmemIsQueue

LEMMA Constants ==
    /\ nheader \in Nat /\ IO_BUF_SIZE \in Nat /\ SocketSize \in Nat /\ MaxPackets \in Nat
    /\ MAX_WMEM_SIZE \in Nat /\ IO_BUF_SIZE > 0 /\ IO_BUF_SIZE < MAX_WMEM_SIZE
BY StreamAssumption, PacketsFit

LEMMA QueueInit == Init => TypeOK /\ QueueInv
<1> SUFFICES ASSUME Init PROVE TypeOK /\ QueueInv
    OBVIOUS
<1>1. accepted \in Seq(Packet) /\ write_queue \in Seq(Item) /\ socket \in Seq(Byte) /\ buf \in Seq(Byte)
    BY EmptySeq DEF Init
<1>2. got \in Seq(Seq(Byte))
  <2> DEFINE P == Seq(Byte)
  <2> HIDE DEF P
  <2>1. got \in Seq(P)
    BY EmptySeq DEF Init
  <2> QED BY <2>1 DEF P
<1>3. Len(socket) = 0 /\ Len(buf) = 0 /\ DOMAIN write_queue = {}
  <2>1. Len(<<>>) = 0 /\ DOMAIN <<>> = {}
    OBVIOUS
  <2> QED BY <2>1, Zenon DEF Init
<1>4. TypeOK
  <2>1. {up, armed, shifted} \subseteq BOOLEAN /\ reader \in {"open", "closed", "reset"}
    BY DEF Init
  <2>2. calls \in 0..MaxPackets /\ wmem_size \in 0..MAX_WMEM_SIZE - 1
    BY Constants DEF Init
  <2>3. Len(socket) <= SocketSize /\ tail \in Len(buf)..IO_BUF_SIZE
    BY <1>3, Constants DEF Init
  <2> QED BY <1>1, <1>2, <1>3, <2>1, <2>2, <2>3, Zenon DEF TypeOK
<1>5. QueueInv
    BY Constants, TotalEmpty DEF Init, QueueInv, ArmedWhileQueued, WmemIsQueue
<1> QED
    BY <1>4, <1>5

LEMMA NewPacket ==
    ASSUME TypeOK, NEW b \in Body, calls < MaxPackets
    PROVE  PacketOf(calls + 1, b) \in Packet
<1>1. calls + 1 \in 1..MaxPackets
    BY Constants DEF TypeOK
<1> QED
    BY <1>1 DEF Packet

(* What io_enqueue leaves the queue with, whether there was room or not. *)
Enqueued(p, rest) ==
    \/ /\ UNCHANGED <<accepted, write_queue, wmem_size, armed>>
       /\ wmem_size + Len(rest) >= MAX_WMEM_SIZE
    \/ /\ accepted' = Append(accepted, p)
       /\ Queued(write_queue') = Queued(write_queue) \o rest

QueueTypes ==
    /\ accepted \in Seq(Packet)
    /\ write_queue \in Seq(Item)
    /\ \A i \in DOMAIN write_queue : Len(write_queue[i].rest) \in 1..write_queue[i].len
    /\ wmem_size \in 0..MAX_WMEM_SIZE - 1
    /\ armed \in BOOLEAN

LEMMA EnqueueStep ==
    ASSUME QueueTypes, QueueInv, NEW p \in Packet, NEW rest \in Seq(Byte), Len(rest) > 0,
           io_enqueue(p, rest)
    PROVE  QueueTypes' /\ QueueInv' /\ Enqueued(p, rest)
<1>1. CASE wmem_size + Len(rest) >= MAX_WMEM_SIZE
  <2>1. UNCHANGED <<accepted, write_queue, wmem_size, armed>>
    BY <1>1 DEF io_enqueue
  <2> QED BY <1>1, <2>1 DEF QueueTypes, QueueInv, ArmedWhileQueued, WmemIsQueue, Enqueued
<1>2. CASE ~(wmem_size + Len(rest) >= MAX_WMEM_SIZE)
  <2> DEFINE x == [rest |-> rest, len |-> Len(rest)]
             q == write_queue
             r == Append(q, x)
  <2>1. /\ write_queue' = r /\ wmem_size' = wmem_size + Len(rest) /\ armed' = TRUE
        /\ accepted' = Append(accepted, p)
    BY <1>2 DEF io_enqueue
  <2>2. Len(rest) \in Nat /\ x \in Item /\ x.rest = rest /\ x.len = Len(rest)
    BY LenProperties DEF Item
  <2> HIDE DEF x, r
  <2>3. q \in Seq(Item) /\ Len(q) \in Nat /\ DOMAIN q = 1..Len(q)
    BY LenProperties DEF QueueTypes
  <2>4. /\ r \in Seq(Item) /\ r # <<>> /\ Len(r) = Len(q) + 1
        /\ \A i \in 1..Len(q) : r[i] = q[i]
        /\ r[Len(q) + 1] = x
    BY <2>2, <2>3, AppendProperties DEF r
  <2>5. accepted' \in Seq(Packet)
    BY <2>1, AppendProperties DEF QueueTypes
  <2>6. \A i \in DOMAIN r : Len(r[i].rest) \in 1..r[i].len
    <3>1. DOMAIN r = 1..Len(q) + 1
      BY <2>4, LenProperties
    <3> SUFFICES ASSUME NEW i \in 1..Len(q) + 1
                 PROVE  Len(r[i].rest) \in 1..r[i].len
      BY <3>1
    <3>2. CASE i \in 1..Len(q)
      BY <2>3, <2>4, <3>2 DEF QueueTypes
    <3>3. CASE i = Len(q) + 1
      BY <2>2, <2>4, <3>3
    <3> QED BY <2>3, <3>2, <3>3
  <2>7. wmem_size' \in 0..MAX_WMEM_SIZE - 1
    BY <1>2, <2>1, <2>2, Constants DEF QueueTypes
  <2>8. wmem_size' = Total(r) /\ wmem_size' < MAX_WMEM_SIZE
    <3>1. Total(r) = Total(q) + x.len
      BY <2>2, <2>3, TotalAppend DEF r
    <3>2. wmem_size = Total(q)
      BY DEF QueueInv, WmemIsQueue
    <3> QED BY <2>1, <2>2, <2>7, <3>1, <3>2, Constants
  <2>9. Queued(r) = Queued(q) \o rest
    <3>1. r = q \o <<x>>
      BY <2>2, <2>3, AppendIsConcat DEF r
    <3>2. <<x>> \in Seq(Item) /\ Queued(<<x>>) = rest
      BY <2>2, QueuedSteps
    <3> QED BY <2>3, <3>1, <3>2, QueuedConcat
  <2>10. QueueTypes'
    BY <2>1, <2>4, <2>5, <2>6, <2>7 DEF QueueTypes
  <2>11. QueueInv'
    BY <2>1, <2>4, <2>8 DEF QueueInv, ArmedWhileQueued, WmemIsQueue
  <2>12. Enqueued(p, rest)
    BY <2>1, <2>9 DEF Enqueued
  <2> QED BY <2>10, <2>11, <2>12
<1> QED
    BY <1>1, <1>2

(* The rest of what TypeOK says. *)
OtherTypes ==
    /\ up \in BOOLEAN /\ shifted \in BOOLEAN
    /\ calls \in 0..MaxPackets
    /\ got \in Seq(Seq(Byte))
    /\ socket \in Seq(Byte) /\ Len(socket) <= SocketSize
    /\ buf \in Seq(Byte) /\ tail \in Len(buf)..IO_BUF_SIZE
    /\ reader \in {"open", "closed", "reset"}

LEMMA TypesSplit == (TypeOK <=> QueueTypes /\ OtherTypes) /\ (TypeOK' <=> QueueTypes' /\ OtherTypes')
<1>1. TypeOK <=> QueueTypes /\ OtherTypes
    BY Zenon DEF TypeOK, QueueTypes, OtherTypes
<1>2. TypeOK' <=> QueueTypes' /\ OtherTypes'
    BY Zenon DEF TypeOK, QueueTypes, OtherTypes
<1> QED
    BY <1>1, <1>2

(* What a call of io_write puts behind what is under way. *)
Written(p) ==
    \/ UNCHANGED <<accepted, socket, write_queue>>
    \/ /\ accepted' = Append(accepted, p)
       /\ socket' \o Queued(write_queue') = (socket \o Queued(write_queue)) \o p

LEMMA SendNowStep ==
    ASSUME QueueTypes, QueueInv, OtherTypes, NEW p \in Packet, write_queue = <<>>, SendNow(p)
    PROVE  /\ QueueTypes' /\ QueueInv'
           /\ socket' \in Seq(Byte) /\ Len(socket') <= SocketSize
           /\ shifted' = shifted /\ Written(p)
<1>1. PICK n \in 1..Len(p) :
         /\ n <= Room
         /\ socket' = socket \o SubSeq(p, 1, n)
         /\ IF n = Len(p)
            THEN /\ accepted' = Append(accepted, p)
                 /\ UNCHANGED <<write_queue, wmem_size, armed>>
            ELSE io_enqueue(p, SubSeq(p, n + 1, Len(p)))
    BY DEF SendNow
<1> DEFINE a == SubSeq(p, 1, n)
           b == SubSeq(p, n + 1, Len(p))
<1>2. p \in Seq(Byte) /\ Len(p) \in 1..IO_BUF_SIZE /\ n \in 0..Len(p)
    BY PacketType
<1>3. a \in Seq(Byte) /\ Len(a) = n /\ b \in Seq(Byte) /\ Len(b) = Len(p) - n /\ p = a \o b
    BY <1>2, SplitAt
<1>4. socket \in Seq(Byte) /\ Len(socket) \in Nat /\ accepted \in Seq(Packet)
    BY LenProperties DEF OtherTypes, QueueTypes
<1>5. Queued(write_queue) = <<>> /\ socket \o <<>> = socket
    BY <1>4, QueuedSteps, ConcatEmptySeq
<1>6. socket' \in Seq(Byte) /\ Len(socket') <= SocketSize
  <2> HIDE DEF a
  <2>1. socket' = socket \o a
    BY <1>1 DEF a
  <2>2. socket' \in Seq(Byte) /\ Len(socket') = Len(socket) + n
    BY <1>3, <1>4, <2>1, ConcatProperties
  <2>3. n <= SocketSize - Len(socket)
    BY <1>1 DEF Room
  <2> QED BY <1>2, <1>4, <2>2, <2>3, Constants
<1>7. shifted' = shifted
    BY DEF SendNow
<1>8. CASE n = Len(p)
  <2>1. socket' = socket \o p
    BY <1>1, <1>2, <1>8, SubSeqFull
  <2>2. accepted' = Append(accepted, p) /\ UNCHANGED <<write_queue, wmem_size, armed>>
    BY <1>1, <1>8
  <2>3. QueueTypes'
    BY <1>4, <2>2, AppendProperties DEF QueueTypes
  <2>4. QueueInv'
    BY <2>2 DEF QueueInv, ArmedWhileQueued, WmemIsQueue
  <2>5. Queued(write_queue') = <<>>
    BY <2>2, QueuedSteps
  <2>6. socket' \o <<>> = socket'
    BY <1>6, ConcatEmptySeq
  <2>7. Written(p)
    BY <1>5, <2>1, <2>2, <2>5, <2>6 DEF Written
  <2> QED BY <1>6, <1>7, <2>3, <2>4, <2>7
<1>9. CASE n # Len(p)
  <2>1. io_enqueue(p, b)
    BY <1>1, <1>9
  <2>2. Len(b) \in 1..IO_BUF_SIZE
    <3>1. \A l \in 1..IO_BUF_SIZE : \A k \in 0..l : k # l => l - k \in 1..IO_BUF_SIZE
      BY Constants
    <3>2. Len(b) = Len(p) - n
      BY <1>3
    <3> HIDE DEF b
    <3> QED BY <1>2, <1>9, <3>1, <3>2
  <2> HIDE DEF a, b
  <2>3. QueueTypes' /\ QueueInv' /\ Enqueued(p, b)
    BY <1>3, <2>1, <2>2, EnqueueStep
  <2>4. wmem_size + Len(b) < MAX_WMEM_SIZE
    <3>1. wmem_size = 0
      BY TotalEmpty DEF QueueInv, WmemIsQueue
    <3> QED BY <2>2, <3>1, Constants
  <2>5. accepted' = Append(accepted, p) /\ Queued(write_queue') = <<>> \o b
    <3>1. ~(wmem_size + Len(b) >= MAX_WMEM_SIZE)
      BY <2>2, <2>4, Constants DEF QueueTypes
    <3> QED BY <1>5, <2>3, <3>1 DEF Enqueued
  <2>6. <<>> \o b = b
    BY <1>3, ConcatEmptySeq
  <2>7. socket' = socket \o a
    BY <1>1 DEF a
  <2>8. (socket \o a) \o b = socket \o (a \o b)
    BY <1>3, <1>4, BytesAssociate, Zenon
  <2>9. Written(p)
    BY <1>3, <1>5, <2>5, <2>6, <2>7, <2>8 DEF Written
  <2> QED BY <1>6, <1>7, <2>3, <2>9
<1> QED
    BY <1>8, <1>9

LEMMA SendLaterStep ==
    ASSUME QueueTypes, QueueInv, NEW p \in Packet, SendLater(p)
    PROVE  QueueTypes' /\ QueueInv' /\ shifted' = TRUE /\ socket' = socket
<1> DEFINE r == <<Junk>> \o p
<1>1. Junk \in Byte
    BY Constants DEF Byte, Junk
<1>2. p \in Seq(Byte) /\ Len(p) \in Nat /\ <<Junk>> \in Seq(Byte) /\ Len(<<Junk>>) = 1
    BY <1>1, PacketType
<1>3. r \in Seq(Byte) /\ Len(r) > 0
    BY <1>2, ConcatProperties
<1>4. io_enqueue(p, r) /\ shifted' = TRUE /\ socket' = socket
    BY DEF SendLater
<1> HIDE DEF r
<1> QED
    BY <1>3, <1>4, EnqueueStep

(* The whole call; a stream that is shifted already is not followed. *)
LEMMA WriteStep ==
    ASSUME TypeOK, QueueInv, NEW b \in Body, io_write(PacketOf(calls + 1, b))
    PROVE  /\ TypeOK' /\ QueueInv'
           /\ UNCHANGED <<up, buf, tail, reader, got>> /\ up /\ reader = "open"
           /\ shifted => shifted'
           /\ \/ shifted'
              \/ \E p \in Packet : p = PacketOf(calls + 1, b) /\ Written(p)
<1> DEFINE p == PacketOf(calls + 1, b)
<1>0. QueueTypes /\ OtherTypes
    BY TypesSplit
<1>1. /\ UNCHANGED <<up, buf, tail, reader, got>> /\ up /\ reader = "open"
      /\ calls < MaxPackets /\ calls' = calls + 1
    BY DEF io_write
<1>2. p \in Packet
    BY <1>1, NewPacket
<1>3. calls' \in 0..MaxPackets
    BY <1>0, <1>1, Constants DEF OtherTypes
<1>4. CASE write_queue = <<>> /\ SendNow(p)
  <2> HIDE DEF p
  <2>1. /\ QueueTypes' /\ QueueInv'
        /\ socket' \in Seq(Byte) /\ Len(socket') <= SocketSize
        /\ shifted' = shifted /\ Written(p)
    BY <1>0, <1>2, <1>4, SendNowStep
  <2>2. OtherTypes'
    BY <1>0, <1>1, <1>3, <2>1 DEF OtherTypes
  <2> QED BY <1>1, <1>2, <2>1, <2>2, TypesSplit DEF p
<1>5. CASE write_queue = <<>> /\ SendLater(p)
  <2> HIDE DEF p
  <2>1. QueueTypes' /\ QueueInv' /\ shifted' = TRUE /\ socket' = socket
    BY <1>0, <1>2, <1>5, SendLaterStep
  <2>2. OtherTypes'
    BY <1>0, <1>1, <1>3, <2>1 DEF OtherTypes
  <2> QED BY <1>1, <2>1, <2>2, TypesSplit DEF p
<1>6. CASE write_queue # <<>>
  <2>1. io_enqueue(p, p) /\ UNCHANGED <<socket, shifted>>
    BY <1>6 DEF io_write
  <2>2. p \in Seq(Byte) /\ Len(p) > 0
    BY <1>2, PacketType
  <2> HIDE DEF p
  <2>3. QueueTypes' /\ QueueInv' /\ Enqueued(p, p)
    BY <1>0, <1>2, <2>1, <2>2, EnqueueStep
  <2>4. OtherTypes'
    BY <1>0, <1>1, <1>3, <2>1 DEF OtherTypes
  <2>5. Written(p)
    <3>1. Queued(write_queue) \in Seq(Byte) /\ socket \in Seq(Byte)
      BY <1>0, QueuedType DEF QueueTypes, OtherTypes
    <3>2. (socket \o Queued(write_queue)) \o p = socket \o (Queued(write_queue) \o p)
      BY <2>2, <3>1, BytesAssociate, Zenon
    <3> QED BY <2>1, <2>3, <3>2 DEF Enqueued, Written
  <2> QED BY <1>1, <1>2, <2>1, <2>3, <2>4, <2>5, TypesSplit DEF p
<1> QED
    BY <1>4, <1>5, <1>6 DEF io_write

(* handle_write in the terms of After. *)
LEMMA HandleWriteIs ==
    ASSUME NEW n, handle_write(n)
    PROVE  /\ up /\ armed /\ reader = "open"
           /\ n <= Len(Queued(write_queue)) /\ n <= Room
           /\ socket' = socket \o SubSeq(Queued(write_queue), 1, n)
           /\ write_queue' = After(write_queue, n)
           /\ wmem_size' = wmem_size - Total(SubSeq(write_queue, 1, Done(write_queue, n)))
           /\ armed' = (Left(write_queue, n) # <<>>)
           /\ UNCHANGED <<up, calls, accepted, shifted, buf, tail, reader, got>>
BY Zenon DEF handle_write, eloop_del_event, After, Left, Cut, Done, FitsUpTo

LEMMA HandleWriteStep ==
    ASSUME TypeOK, QueueInv, NEW n \in 1..SocketSize, handle_write(n)
    PROVE  /\ TypeOK' /\ QueueInv'
           /\ UNCHANGED <<up, accepted, shifted, buf, tail, reader, got>>
           /\ socket' \o Queued(write_queue') = socket \o Queued(write_queue)
<1> DEFINE wq == write_queue
           q == Queued(wq)
           s == SubSeq(q, 1, n)
           new == After(wq, n)
           sent == SubSeq(wq, 1, Done(wq, n))
<1>0. QueueTypes /\ OtherTypes
    BY TypesSplit
<1>1. /\ n <= Len(q) /\ n <= Room
      /\ socket' = socket \o s
      /\ write_queue' = new
      /\ wmem_size' = wmem_size - Total(sent)
      /\ armed' = (Left(wq, n) # <<>>)
      /\ UNCHANGED <<up, calls, accepted, shifted, buf, tail, reader, got>>
    BY HandleWriteIs
<1>2. wq \in Seq(Item) /\ q \in Seq(Byte) /\ Len(q) \in Nat /\ n \in 1..Len(q) /\ n \in 0..Len(q)
  <2>1. wq \in Seq(Item)
    BY <1>0 DEF QueueTypes
  <2>2. q \in Seq(Byte)
    BY <2>1, QueuedType
  <2>3. Len(q) \in Nat
    BY <2>2, LenProperties
  <2> QED BY <1>1, <2>1, <2>2, <2>3, Constants
<1>3. \A i \in 1..Len(wq) : Len(wq[i].rest) \in 1..wq[i].len
    BY <1>0, <1>2, LenProperties DEF QueueTypes
<1>4. /\ new \in Seq(Item)
      /\ \A i \in 1..Len(new) : Len(new[i].rest) \in 1..new[i].len
      /\ new = <<>> <=> Left(wq, n) = <<>>
      /\ q = s \o Queued(new)
      /\ Total(wq) = Total(sent) + Total(new)
    BY <1>2, <1>3, AfterProperties
<1>5. s \in Seq(Byte) /\ Len(s) = n
    BY <1>2, SplitAt
<1>6. sent \in Seq(Item)
    BY <1>0, <1>2, DoneFits, SplitAt
<1> HIDE DEF new, s, sent, q
<1>7. Total(new) \in Nat /\ Total(sent) \in Nat
    BY <1>4, <1>6, TotalType
<1>8. wmem_size' = Total(new) /\ wmem_size' \in 0..MAX_WMEM_SIZE - 1
  <2>1. wmem_size = Total(wq) /\ wmem_size \in 0..MAX_WMEM_SIZE - 1
    BY <1>0 DEF QueueInv, WmemIsQueue, QueueTypes
  <2> DEFINE x == Total(new)
             y == Total(sent)
             z == Total(wq)
  <2>2. /\ x \in Nat /\ y \in Nat /\ z = y + x /\ z \in 0..MAX_WMEM_SIZE - 1
        /\ wmem_size' = z - y
    BY <1>1, <1>4, <1>7, <2>1
  <2> HIDE DEF x, y, z
  <2>3. wmem_size' = x /\ wmem_size' \in 0..MAX_WMEM_SIZE - 1
    BY <2>2, Constants
  <2> QED BY <2>3 DEF x
<1>9. QueueTypes'
  <2>1. DOMAIN new = 1..Len(new)
    BY <1>4, LenProperties
  <2> QED BY <1>0, <1>1, <1>4, <1>8, <2>1 DEF QueueTypes
<1>10. QueueInv'
  <2>1. wmem_size' < MAX_WMEM_SIZE
    BY <1>8, Constants
  <2> QED BY <1>1, <1>4, <1>8, <2>1 DEF QueueInv, ArmedWhileQueued, WmemIsQueue
<1>11. socket \in Seq(Byte) /\ socket' \in Seq(Byte) /\ Len(socket') <= SocketSize
  <2>1. socket \in Seq(Byte) /\ Len(socket) \in Nat
    BY <1>0, LenProperties DEF OtherTypes
  <2>2. socket' \in Seq(Byte) /\ Len(socket') = Len(socket) + n
    BY <1>1, <1>5, <2>1, ConcatProperties
  <2>3. n <= SocketSize - Len(socket)
    BY <1>1 DEF Room
  <2> QED BY <1>2, <2>1, <2>2, <2>3, Constants
<1>12. OtherTypes'
    BY <1>0, <1>1, <1>11 DEF OtherTypes
<1>13. socket' \o Queued(new) = socket \o q
  <2>1. Queued(new) \in Seq(Byte)
    BY <1>4, QueuedType
  <2>2. (socket \o s) \o Queued(new) = socket \o (s \o Queued(new))
    BY <1>5, <1>11, <2>1, BytesAssociate, Zenon
  <2> QED BY <1>1, <1>4, <2>2
<1> QED
    BY <1>1, <1>9, <1>10, <1>12, <1>13, TypesSplit DEF q

(* What is received, what is handed over and what stays in the buffer. *)
Received(n, bytes, rest, s) ==
    /\ bytes = buf \o SubSeq(socket, 1, n) /\ bytes \in Seq(Byte)
    /\ rest = SubSeq(bytes, __read_cb(bytes).head + 1, Len(bytes)) /\ rest \in Seq(Byte)
    /\ s = SubSeq(socket, n + 1, Len(socket)) /\ s \in Seq(Byte)
    /\ socket = SubSeq(socket, 1, n) \o s /\ SubSeq(socket, 1, n) \in Seq(Byte)
    /\ socket' = s /\ buf' = rest /\ got' = got \o __read_cb(bytes).packets
    /\ Len(rest) < IO_BUF_SIZE => tail' < IO_BUF_SIZE

LEMMA RecvStep ==
    ASSUME OtherTypes, NEW n \in 1..SocketSize, recv(n), UNCHANGED writer
    PROVE  /\ OtherTypes'
           /\ UNCHANGED reader
           /\ \E bytes, rest, s : Received(n, bytes, rest, s)
<1> DEFINE a == SubSeq(socket, 1, n)
           s == SubSeq(socket, n + 1, Len(socket))
           bytes == buf \o a
           read == __read_cb(bytes)
           rest == SubSeq(bytes, read.head + 1, Len(bytes))
<1>1. /\ n <= Len(socket) /\ n <= IO_BUF_SIZE - tail
      /\ socket' = s
      /\ got' = got \o read.packets
      /\ buf' = rest
      /\ tail' = IF tail + n >= IO_BUF_SIZE THEN Len(rest) ELSE tail + n
      /\ UNCHANGED reader
    BY DEF recv
<1>2. /\ socket \in Seq(Byte) /\ Len(socket) \in Nat /\ Len(socket) <= SocketSize
      /\ buf \in Seq(Byte) /\ Len(buf) \in Nat /\ tail \in Len(buf)..IO_BUF_SIZE
      /\ n \in Nat /\ n > 0 /\ n \in 0..Len(socket)
    BY <1>1, LenProperties, Constants DEF OtherTypes
<1>3. /\ a \in Seq(Byte) /\ Len(a) = n /\ s \in Seq(Byte) /\ Len(s) = Len(socket) - n
      /\ socket = a \o s
    BY <1>2, SplitAt
<1> HIDE DEF a, s
<1>4. bytes \in Seq(Byte) /\ Len(bytes) = Len(buf) + n
    BY <1>2, <1>3, ConcatProperties
<1> HIDE DEF bytes
<1>5. read.packets \in Seq(Seq(Byte)) /\ read.head \in 0..Len(bytes)
    BY <1>4, ReadType
<1>6. rest \in Seq(Byte) /\ Len(rest) = Len(bytes) - read.head
    BY <1>4, <1>5, SplitAt
<1> DEFINE h == read.head
           l == Len(rest)
<1>7. h \in 0..Len(bytes) /\ l = Len(bytes) - h /\ l \in Nat /\ Len(bytes) \in Nat
    BY <1>4, <1>5, <1>6, LenProperties
<1>8. tail' = IF tail + n >= IO_BUF_SIZE THEN l ELSE tail + n
    BY <1>1
<1> HIDE DEF h, l
<1>9. tail' \in l..IO_BUF_SIZE /\ (l < IO_BUF_SIZE => tail' < IO_BUF_SIZE)
  <2>1. l <= tail + n /\ tail + n <= IO_BUF_SIZE
    BY <1>1, <1>2, <1>4, <1>7, Constants
  <2> QED BY <1>2, <1>7, <1>8, <2>1, Constants
<1>10. got' \in Seq(Seq(Byte))
  <2> DEFINE P == Seq(Byte)
             k == read.packets
  <2>1. got \in Seq(P) /\ k \in Seq(P) /\ got' = got \o k
    BY <1>1, <1>5 DEF OtherTypes
  <2> HIDE DEF P, k
  <2>2. got' \in Seq(P)
    BY <2>1, ConcatProperties
  <2> QED BY <2>2 DEF P
<1>11. socket' \in Seq(Byte) /\ Len(socket') <= SocketSize
  <2>1. \A i, j \in Nat : i <= SocketSize => i - j <= SocketSize
    BY Constants
  <2>2. Len(socket) - n <= SocketSize
    BY <1>2, <2>1
  <2> QED BY <1>1, <1>3, <2>2
<1>12. buf' \in Seq(Byte) /\ tail' \in Len(buf')..IO_BUF_SIZE
    BY <1>1, <1>6, <1>9 DEF l
<1>13. UNCHANGED <<up, calls, shifted, reader>>
    BY <1>1 DEF writer
<1>14. OtherTypes'
    BY <1>10, <1>11, <1>12, <1>13 DEF OtherTypes
<1>15. Received(n, bytes, rest, s)
    BY <1>1, <1>3, <1>4, <1>6, <1>9 DEF Received, l, bytes, a, s
<1> QED
    BY <1>13, <1>14, <1>15

LEMMA ResetStep ==
    ASSUME OtherTypes, NEW why \in {"closed", "reset"}, eloop_reset_io(why), UNCHANGED writer
    PROVE  OtherTypes' /\ reader' = why /\ UNCHANGED got
<1>1. reader' = why /\ buf' = <<>> /\ tail' = 0 /\ UNCHANGED <<socket, got, up, calls, shifted>>
    BY DEF eloop_reset_io, writer
<1>2. buf' \in Seq(Byte) /\ tail' \in Len(buf')..IO_BUF_SIZE
  <2>1. <<>> \in Seq(Byte) /\ Len(<<>>) = 0
    BY EmptySeq
  <2>2. 0 \in 0..IO_BUF_SIZE
    BY Constants
  <2> QED BY <1>1, <2>1, <2>2
<1>3. reader' \in {"open", "closed", "reset"}
    BY <1>1
<1> QED
    BY <1>1, <1>2, <1>3 DEF OtherTypes

LEMMA ReadStep ==
    ASSUME TypeOK, QueueInv, handle_read
    PROVE  TypeOK' /\ QueueInv'
<1>0. QueueTypes /\ OtherTypes
    BY TypesSplit
<1>1. UNCHANGED writer
    BY DEF handle_read
<1>2. QueueTypes' /\ QueueInv'
    BY <1>0, <1>1 DEF writer, QueueTypes, QueueInv, ArmedWhileQueued, WmemIsQueue
<1>3. OtherTypes'
  <2>1. CASE eloop_reset_io("reset")
    BY <1>0, <1>1, <2>1, ResetStep
  <2>2. CASE eloop_reset_io("closed")
    BY <1>0, <1>1, <2>2, ResetStep
  <2>3. CASE \E n \in 1..SocketSize : recv(n)
    BY <1>0, <1>1, <2>3, RecvStep
  <2> QED BY <2>1, <2>2, <2>3 DEF handle_read
<1> QED
    BY <1>2, <1>3, TypesSplit

LEMMA ExitStep ==
    ASSUME TypeOK, QueueInv, Exit
    PROVE  TypeOK' /\ QueueInv'
<1>0. QueueTypes /\ OtherTypes
    BY TypesSplit
<1>1. /\ up' = FALSE /\ write_queue' = <<>> /\ wmem_size' = 0 /\ armed' = FALSE
      /\ UNCHANGED <<calls, accepted, shifted, socket, buf, tail, reader, got>>
    BY DEF Exit
<1>2. QueueTypes'
  <2>1. write_queue' \in Seq(Item) /\ DOMAIN write_queue' = {}
    <3>1. <<>> \in Seq(Item) /\ DOMAIN <<>> = {}
      BY EmptySeq
    <3> QED BY <1>1, <3>1
  <2>2. wmem_size' \in 0..MAX_WMEM_SIZE - 1
    BY <1>1, Constants
  <2> QED BY <1>0, <1>1, <2>1, <2>2 DEF QueueTypes
<1>3. QueueInv'
    BY <1>1, TotalEmpty, Constants DEF QueueInv, ArmedWhileQueued, WmemIsQueue
<1>4. OtherTypes'
    BY <1>0, <1>1 DEF OtherTypes
<1> QED
    BY <1>2, <1>3, <1>4, TypesSplit

LEMMA QueueStep == TypeOK /\ QueueInv /\ [Next]_vars => TypeOK' /\ QueueInv'
<1> SUFFICES ASSUME TypeOK, QueueInv, [Next]_vars PROVE TypeOK' /\ QueueInv'
    OBVIOUS
<1>1. CASE UNCHANGED vars
    BY <1>1 DEF vars, writer, TypeOK, QueueInv, ArmedWhileQueued, WmemIsQueue
<1>2. ASSUME NEW b \in Body, io_write(PacketOf(calls + 1, b)) PROVE TypeOK' /\ QueueInv'
    BY <1>2, WriteStep
<1>3. ASSUME NEW n \in 1..SocketSize, handle_write(n) PROVE TypeOK' /\ QueueInv'
    BY <1>3, HandleWriteStep
<1>4. CASE handle_read
    BY <1>4, ReadStep
<1>5. CASE Exit
    BY <1>5, ExitStep
<1> QED
    BY <1>1, <1>2, <1>3, <1>4, <1>5 DEF Next

(* Every variable of the byte stream keeps its type: in particular what is *)
(* in the receive buffer ends at or before tail, and tail never passes the *)
(* end of the buffer, whatever bytes arrive.                               *)
THEOREM TypeCorrect == Spec => []TypeOK
<1>1. TypeOK /\ QueueInv /\ [Next]_vars => (TypeOK /\ QueueInv)'
    BY QueueStep
<1> QED
    BY <1>1, QueueInit, PTL DEF Spec

(* EPOLLOUT is armed exactly while bytes wait in the write queue.          *)
THEOREM ArmedCorrect == Spec => []ArmedWhileQueued
<1>1. TypeOK /\ QueueInv /\ [Next]_vars => (TypeOK /\ QueueInv)'
    BY QueueStep
<1>2. QueueInv => ArmedWhileQueued
    BY DEF QueueInv
<1> QED
    BY <1>1, <1>2, QueueInit, PTL DEF Spec

(* The write queue is charged for exactly what its items hold, and stays   *)
(* below its limit, however calls of io_write, partial sends and the exit  *)
(* of the program follow each other.                                       *)
THEOREM WmemCorrect == Spec => []WmemIsQueue
<1>1. TypeOK /\ QueueInv /\ [Next]_vars => (TypeOK /\ QueueInv)'
    BY QueueStep
<1>2. QueueInv => WmemIsQueue
    BY DEF QueueInv
<1> QED
    BY <1>1, <1>2, QueueInit, PTL DEF Spec

-----------------------------------------------------------------------------
(* What is under way is what is due *)

(* NothingLost, with the packets that are due and the bytes that were lost *)
(* when the program exited given names.                                    *)
Under(lost, due) == UnderWay \o lost = FlattenSeq(due) /\ (up => lost = <<>>)

Goes(due) == reader = "open" => \E lost \in Seq(Byte) : Under(lost, due)

Stream == \E due \in Seq(Packet) :
             got \in Seq(Packet) /\ accepted = got \o due /\ Goes(due)

LEMMA UnderWayType == ASSUME TypeOK PROVE UnderWay \in Seq(Byte)
<1>1. /\ buf \in Seq(Byte) /\ socket \in Seq(Byte)
      /\ Queued(write_queue) \in Seq(Byte)
    BY QueuedType DEF TypeOK
<1>2. socket \o Queued(write_queue) \in Seq(Byte)
    BY <1>1, ConcatProperties
<1> QED
    BY <1>1, <1>2, ConcatProperties DEF UnderWay

LEMMA FlattenPackets == \A s \in Seq(Packet) : FlattenSeq(s) \in Seq(Byte)
<1> SUFFICES ASSUME NEW s \in Seq(Packet) PROVE FlattenSeq(s) \in Seq(Byte)
    OBVIOUS
<1>1. s \in Seq(Seq(Byte))
    BY PacketsAreBytes
<1> QED
    BY <1>1, FlattenType

LEMMA StreamIs == ASSUME TypeOK, ~shifted => Stream PROVE NothingLost
<1> SUFFICES ASSUME ~shifted
             PROVE  /\ IsPrefix(got, accepted)
                    /\ reader = "open" =>
                          \E k \in 0..Len(FlattenSeq(Due)) :
                              /\ UnderWay = SubSeq(FlattenSeq(Due), 1, k)
                              /\ up => k = Len(FlattenSeq(Due))
    BY DEF NothingLost
<1>1. PICK due \in Seq(Packet) :
         got \in Seq(Packet) /\ accepted = got \o due /\ Goes(due)
    BY DEF Stream
<1>2. Due = due
    BY <1>1, ConcatParts DEF Due
<1>3. IsPrefix(got, accepted)
  <2>1. SubSeq(accepted, 1, Len(got)) = got /\ SubSeq(got, 1, Len(got)) = got
    BY <1>1, ConcatParts, SubSeqFull
  <2>2. Len(accepted) = Len(got) + Len(due) /\ Len(got) \in Nat /\ Len(due) \in Nat
    BY <1>1, ConcatProperties, LenProperties
  <2>3. Len(got) <= Len(accepted)
    BY <2>2
  <2> QED BY <2>1, <2>3 DEF IsPrefix
<1>4. ASSUME reader = "open"
      PROVE  \E k \in 0..Len(FlattenSeq(Due)) :
                /\ UnderWay = SubSeq(FlattenSeq(Due), 1, k)
                /\ up => k = Len(FlattenSeq(Due))
  <2>1. PICK lost \in Seq(Byte) : Under(lost, due)
    BY <1>1, <1>4 DEF Goes
  <2> DEFINE w == UnderWay
             f == FlattenSeq(Due)
             k == Len(w)
  <2>2. w \in Seq(Byte) /\ w \o lost = f /\ (up => lost = <<>>)
    BY <1>2, <2>1, UnderWayType DEF Under
  <2> HIDE DEF w, f
  <2>3. SubSeq(f, 1, k) = w
    BY <2>2, ConcatParts
  <2>4. k \in 0..Len(f) /\ (up => k = Len(f))
    <3>1. Len(f) = Len(w) + Len(lost) /\ Len(w) \in Nat /\ Len(lost) \in Nat
      BY <2>2, ConcatProperties, LenProperties
    <3>2. up => Len(lost) = 0
      BY <2>2, EmptySeq
    <3> QED BY <3>1, <3>2
  <2> HIDE DEF k
  <2> QED BY <2>3, <2>4 DEF w, f
<1> QED
    BY <1>3, <1>4

LEMMA StreamInit == Init => Stream
<1> SUFFICES ASSUME Init PROVE Stream
    OBVIOUS
<1>1. got = <<>> /\ accepted = <<>> /\ <<>> \in Seq(Packet) /\ <<>> \in Seq(Byte)
    BY EmptySeq DEF Init
<1>2. <<>> \o <<>> = <<>> /\ <<>> \o <<>> = <<>>
    BY <1>1, ConcatEmptySeq
<1>3. UnderWay = <<>>
  <2>1. Queued(write_queue) = <<>>
    BY QueuedSteps DEF Init
  <2> QED BY <1>2, <2>1 DEF Init, UnderWay
<1>4. Under(<<>>, <<>>)
    BY <1>2, <1>3, FlattenEmpty DEF Under
<1> QED
    BY <1>1, <1>2, <1>4 DEF Stream, Goes

LEMMA WriteStream ==
    ASSUME TypeOK, TypeOK', Stream, up, UNCHANGED <<up, buf, reader, got>>,
           reader = "open", NEW p \in Packet, Written(p)
    PROVE  Stream'
<1> DEFINE q == Queued(write_queue)
           s == socket \o q
<1>1. PICK due \in Seq(Packet) :
         got \in Seq(Packet) /\ accepted = got \o due /\ Goes(due)
    BY DEF Stream
<1>2. PICK lost \in Seq(Byte) : Under(lost, due)
    BY <1>1 DEF Goes
<1>3. lost = <<>>
    BY <1>2 DEF Under
<1>4. /\ buf \in Seq(Byte) /\ socket \in Seq(Byte) /\ q \in Seq(Byte) /\ p \in Seq(Byte)
    BY QueuedType, PacketType DEF TypeOK
<1>5. s \in Seq(Byte)
    BY <1>4, ConcatProperties
<1>6. CASE UNCHANGED <<accepted, socket, write_queue>>
  <2>1. Under(lost, due)'
    BY <1>2, <1>6 DEF Under, UnderWay
  <2> QED BY <1>1, <1>6, <2>1 DEF Stream, Goes
<1>7. CASE /\ accepted' = Append(accepted, p)
           /\ socket' \o Queued(write_queue') = s \o p
  <2> DEFINE more == Append(due, p)
  <2>1. more \in Seq(Packet) /\ more = due \o <<p>> /\ <<p>> \in Seq(Packet)
    BY AppendProperties, AppendIsConcat
  <2>2. accepted' = got' \o more
    <3>1. accepted' = (got \o due) \o <<p>>
      BY <1>1, <1>7, AppendIsConcat DEF TypeOK
    <3>2. (got \o due) \o <<p>> = got \o (due \o <<p>>)
      BY <1>1, <2>1, PacketsAssociate, Zenon
    <3> QED BY <2>1, <3>1, <3>2
  <2>3. FlattenSeq(more) = FlattenSeq(due) \o p
    <3>1. due \in Seq(Seq(Byte)) /\ p \in Seq(Byte)
      BY <1>4, PacketsAreBytes, Zenon
    <3> QED BY <3>1, FlattenAppend
  <2> HIDE DEF s
  <2>4. UnderWay' = UnderWay \o p
    <3>1. \A u \in Seq(Byte) : (buf \o u) \o p = buf \o (u \o p)
      BY <1>4, BytesAssociate, Zenon
    <3>2. (buf \o s) \o p = buf \o (s \o p)
      BY <1>5, <3>1
    <3> QED BY <1>7, <3>2 DEF UnderWay, s
  <2>5. UnderWay = FlattenSeq(due)
    BY <1>2, <1>3, UnderWayType, ConcatEmptySeq DEF Under
  <2>6. Under(lost, more)'
    <3>1. UnderWay' \o <<>> = UnderWay'
      <4>1. UnderWay \o p \in Seq(Byte)
        BY <1>4, UnderWayType, ConcatProperties
      <4> QED BY <2>4, <4>1, ConcatEmptySeq
    <3> QED BY <1>3, <2>3, <2>4, <2>5, <3>1 DEF Under
  <2> HIDE DEF more
  <2>7. Goes(more)'
    BY <2>6 DEF Goes
  <2>8. got' \in Seq(Packet)
    BY <1>1
  <2> QED BY <2>1, <2>2, <2>7, <2>8 DEF Stream
<1> QED
    BY <1>6, <1>7 DEF Written

LEMMA HandleWriteStream ==
    ASSUME TypeOK, Stream, UNCHANGED <<up, accepted, buf, reader, got>>,
           socket' \o Queued(write_queue') = socket \o Queued(write_queue)
    PROVE  Stream'
<1>1. PICK due \in Seq(Packet) :
         got \in Seq(Packet) /\ accepted = got \o due /\ Goes(due)
    BY DEF Stream
<1>2. UnderWay' = UnderWay
    BY DEF UnderWay
<1>3. Goes(due)'
    BY <1>1, <1>2 DEF Goes, Under
<1> QED
    BY <1>1, <1>3 DEF Stream

LEMMA RecvStream ==
    ASSUME TypeOK, Stream, reader = "open", UNCHANGED writer, UNCHANGED reader,
           NEW n, NEW bytes, NEW rest, NEW s, Received(n, bytes, rest, s)
    PROVE  /\ Stream' /\ tail' < IO_BUF_SIZE
           /\ \E a \in Seq(Packet), due \in Seq(Packet) :
                 /\ got \in Seq(Packet) /\ accepted = (got \o a) \o due /\ got' = got \o a
<1>1. PICK due \in Seq(Packet) :
         got \in Seq(Packet) /\ accepted = got \o due /\ Goes(due)
    BY DEF Stream
<1>2. PICK lost \in Seq(Byte) : Under(lost, due)
    BY <1>1 DEF Goes
<1>q. PICK q \in Seq(Byte) : q = Queued(write_queue)
    BY QueuedType DEF TypeOK
<1>c. PICK c \in Seq(Byte) : c = SubSeq(socket, 1, n)
    BY DEF Received
<1>t. /\ buf \in Seq(Byte) /\ s \in Seq(Byte)
      /\ bytes \in Seq(Byte) /\ rest \in Seq(Byte)
    BY DEF TypeOK, Received
<1>3. /\ bytes = buf \o c /\ socket = c \o s
      /\ rest = SubSeq(bytes, __read_cb(bytes).head + 1, Len(bytes))
    BY <1>c DEF Received
<1>4. /\ socket' = s /\ buf' = rest /\ got' = got \o __read_cb(bytes).packets
      /\ Len(rest) < IO_BUF_SIZE => tail' < IO_BUF_SIZE
      /\ UNCHANGED <<up, accepted, write_queue>>
    BY DEF Received, writer
<1>5. PICK sq \in Seq(Byte) : sq = s \o q
    BY <1>t, ConcatProperties
<1>6. UnderWay = bytes \o sq
  <2>1. (c \o s) \o q = c \o (s \o q)
    <3>1. \A u \in Seq(Byte) : (c \o s) \o u = c \o (s \o u)
      BY <1>t, BytesAssociate, Zenon
    <3> QED BY <3>1
  <2>2. \A u \in Seq(Byte) : (buf \o c) \o u = buf \o (c \o u)
    BY <1>t, BytesAssociate, Zenon
  <2>3. (buf \o c) \o sq = buf \o (c \o sq)
    BY <1>5, <2>2
  <2> QED BY <1>3, <1>q, <1>5, <2>1, <2>3 DEF UnderWay
<1>l. PICK l \in Seq(Byte) : l = sq \o lost
    BY ConcatProperties
<1>7. bytes \o l = FlattenSeq(due)
  <2>1. (bytes \o sq) \o lost = bytes \o (sq \o lost)
    <3>1. \A u, v \in Seq(Byte) : (bytes \o u) \o v = bytes \o (u \o v)
      BY <1>t, BytesAssociate, Zenon
    <3> QED BY <3>1
  <2> QED BY <1>2, <1>6, <1>l, <2>1 DEF Under
<1>8. PICK a \in Seq(Packet), b \in Seq(Packet) :
         due = a \o b /\ __read_cb(bytes).packets = a /\ Remains(bytes, __read_cb(bytes).head, l, b)
  <2>1. Parses(__read_cb(bytes), bytes, l, due)
    BY <1>t, <1>7, ReadPackets
  <2> QED BY <2>1 DEF Parses
<1>9. rest \o l = FlattenSeq(b) /\ Len(rest) < IO_BUF_SIZE
    BY <1>3, <1>8 DEF Remains
<1>10. got' = got \o a /\ got' \in Seq(Packet)
    BY <1>1, <1>4, <1>8, ConcatProperties
<1>11. accepted' = accepted /\ accepted = got' \o b /\ accepted = (got \o a) \o b
  <2>1. (got \o a) \o b = got \o (a \o b)
    BY <1>1, PacketsAssociate, Zenon
  <2> QED BY <1>1, <1>4, <1>8, <1>10, <2>1
<1>12. UnderWay' = rest \o sq
    BY <1>4, <1>5, <1>q DEF UnderWay
<1>13. UnderWay' \o lost = rest \o l
  <2>1. (rest \o sq) \o lost = rest \o (sq \o lost)
    <3>1. \A u, v \in Seq(Byte) : (rest \o u) \o v = rest \o (u \o v)
      BY <1>t, BytesAssociate, Zenon
    <3> QED BY <3>1
  <2> QED BY <1>12, <1>l, <2>1
<1>14. Under(lost, b)'
    BY <1>2, <1>4, <1>9, <1>13 DEF Under
<1>15. Stream'
    BY <1>10, <1>11, <1>14 DEF Stream, Goes
<1> QED
    BY <1>1, <1>4, <1>9, <1>10, <1>11, <1>15

(* The receive buffer has room before every read, and is reset for want of *)
(* room only once the stream is broken.                                    *)
RoomLeft == ~shifted /\ reader = "open" => tail < IO_BUF_SIZE

StreamInv == (~shifted => Stream) /\ RoomLeft /\ NoReset

LEMMA StreamStep == TypeOK /\ QueueInv /\ StreamInv /\ [Next]_vars => StreamInv'
<1> SUFFICES ASSUME TypeOK, QueueInv, StreamInv, [Next]_vars PROVE StreamInv'
    OBVIOUS
<1>0. TypeOK'
    BY QueueStep
<1>1. CASE UNCHANGED vars
    BY <1>1 DEF vars, writer, StreamInv, Stream, Goes, Under, UnderWay, RoomLeft, NoReset
<1>2. ASSUME NEW b \in Body, io_write(PacketOf(calls + 1, b)) PROVE StreamInv'
  <2>1. /\ UNCHANGED <<up, buf, tail, reader, got>> /\ up /\ reader = "open"
        /\ shifted => shifted'
        /\ \/ shifted'
           \/ \E p \in Packet : p = PacketOf(calls + 1, b) /\ Written(p)
    BY <1>2, WriteStep
  <2>2. ~shifted' => Stream'
    BY <1>0, <2>1, WriteStream DEF StreamInv
  <2> QED BY <2>1, <2>2 DEF StreamInv, RoomLeft, NoReset
<1>3. ASSUME NEW n \in 1..SocketSize, handle_write(n) PROVE StreamInv'
  <2>1. /\ UNCHANGED <<up, accepted, shifted, buf, tail, reader, got>>
        /\ socket' \o Queued(write_queue') = socket \o Queued(write_queue)
    BY <1>3, HandleWriteStep
  <2>2. ~shifted' => Stream'
    BY <2>1, HandleWriteStream DEF StreamInv
  <2> QED BY <2>1, <2>2 DEF StreamInv, RoomLeft, NoReset
<1>4. CASE handle_read
  <2>0. UNCHANGED writer /\ shifted' = shifted /\ accepted' = accepted /\ reader = "open" /\ OtherTypes
    BY <1>4, TypesSplit DEF handle_read, writer
  <2>1. CASE tail = IO_BUF_SIZE /\ eloop_reset_io("reset")
    <3>1. shifted
      BY <2>0, <2>1, Constants DEF StreamInv, RoomLeft
    <3> QED BY <2>0, <3>1 DEF StreamInv, RoomLeft, NoReset
  <2>2. CASE eloop_reset_io("closed")
    <3>1. reader' = "closed" /\ UNCHANGED got
      BY <2>0, <2>2, ResetStep
    <3>2. ~shifted' => Stream'
      BY <2>0, <3>1 DEF StreamInv, Stream, Goes
    <3> QED BY <3>1, <3>2 DEF StreamInv, RoomLeft, NoReset
  <2>3. ASSUME NEW n \in 1..SocketSize, recv(n) PROVE StreamInv'
    <3>1. UNCHANGED reader /\ \E bytes, rest, s : Received(n, bytes, rest, s)
      BY <2>0, <2>3, RecvStep
    <3>2. ~shifted => Stream' /\ tail' < IO_BUF_SIZE
      BY <2>0, <3>1, RecvStream DEF StreamInv
    <3> QED BY <2>0, <3>1, <3>2 DEF StreamInv, RoomLeft, NoReset
  <2> QED BY <1>4, <2>1, <2>2, <2>3 DEF handle_read
<1>5. CASE Exit
  <2>1. /\ up' = FALSE /\ write_queue' = <<>>
        /\ UNCHANGED <<accepted, shifted, socket, buf, tail, reader, got>>
    BY <1>5 DEF Exit
  <2>2. ASSUME ~shifted PROVE Stream'
    <3> DEFINE q == Queued(write_queue)
    <3>1. PICK due \in Seq(Packet) :
             got \in Seq(Packet) /\ accepted = got \o due /\ Goes(due)
      BY <2>2 DEF StreamInv, Stream
    <3>2. /\ buf \in Seq(Byte) /\ socket \in Seq(Byte) /\ q \in Seq(Byte)
          /\ UnderWay \in Seq(Byte)
      BY QueuedType, UnderWayType DEF TypeOK
    <3> HIDE DEF q
    <3>3. UnderWay = UnderWay' \o q
      <4>1. UnderWay' = buf \o socket
        BY <2>1, <3>2, QueuedSteps, ConcatEmptySeq DEF UnderWay
      <4>2. (buf \o socket) \o q = buf \o (socket \o q)
        BY <3>2, BytesAssociate, Zenon
      <4> QED BY <4>1, <4>2 DEF UnderWay, q
    <3>4. ASSUME reader = "open" PROVE \E lost \in Seq(Byte) : Under(lost, due)'
      <4>1. PICK lost \in Seq(Byte) : Under(lost, due)
        BY <3>1, <3>4 DEF Goes
      <4>2. UnderWay' \in Seq(Byte)
        <5>1. buf \o socket \in Seq(Byte)
          BY <3>2, ConcatProperties
        <5> QED BY <2>1, <3>2, <5>1, QueuedSteps, ConcatEmptySeq DEF UnderWay
      <4>3. PICK v \in Seq(Byte) : v = UnderWay'
        BY <4>2
      <4>4. PICK w \in Seq(Byte) : w = q
        BY <3>2
      <4>5. PICK m \in Seq(Byte) : m = w \o lost
        BY ConcatProperties
      <4>6. UnderWay \o lost = UnderWay' \o m /\ UnderWay \o lost = FlattenSeq(due)
        <5>1. (v \o w) \o lost = v \o (w \o lost)
          BY BytesAssociate, Zenon
        <5> QED BY <3>3, <4>1, <4>3, <4>4, <4>5, <5>1 DEF Under
      <4>7. UnderWay' \o m = FlattenSeq(due) /\ ~up'
        BY <2>1, <4>6
      <4>8. Under(m, due)'
        BY <4>7 DEF Under
      <4> QED BY <4>8
    <3>5. Goes(due)'
      BY <2>1, <3>4 DEF Goes
    <3> QED BY <2>1, <3>1, <3>5 DEF Stream
  <2> QED BY <2>1, <2>2 DEF StreamInv, RoomLeft, NoReset
<1> QED
    BY <1>1, <1>2, <1>3, <1>4, <1>5 DEF Next

IInv == TypeOK /\ QueueInv /\ StreamInv

LEMMA InvInit == Init => IInv
<1> SUFFICES ASSUME Init PROVE IInv
    OBVIOUS
<1>1. RoomLeft /\ NoReset
    BY Constants DEF Init, RoomLeft, NoReset
<1> QED
    BY <1>1, QueueInit, StreamInit DEF IInv, StreamInv

LEMMA InvStep == IInv /\ [Next]_vars => IInv'
BY QueueStep, StreamStep DEF IInv

(* Until io_write puts a byte that is no packet's on the stream, the bytes *)
(* in the receive buffer, the socket and the write queue are, in this      *)
(* order, the packets accepted that on_read has not been called with, and  *)
(* what on_read was called with are the first packets accepted: wherever   *)
(* sends and receives cut them, whatever io_write refuses.                 *)
THEOREM StreamCorrect == Spec => []NothingLost
<1>1. IInv => NothingLost
    BY StreamIs DEF IInv, StreamInv
<1> QED
    BY <1>1, InvInit, InvStep, PTL DEF Spec

(* A receive buffer of the size of the largest packet is enough for a      *)
(* stream of packets: no read finds it full.                               *)
THEOREM NeverReset == Spec => []NoReset
<1>1. IInv => NoReset
    BY DEF IInv, StreamInv
<1> QED
    BY <1>1, InvInit, InvStep, PTL DEF Spec

-----------------------------------------------------------------------------
(* The byte stream implements the channel of packets *)

LEMMA ChannelInit == Init => Channel!Init
BY DEF Init, Channel!Init

LEMMA ChannelStutters ==
    ASSUME UNCHANGED <<up, accepted, got, shifted>>
    PROVE  [Channel!Next]_(Channel!vars)
BY DEF Channel!vars

(* Packets handed over together are the next ones of those accepted. *)
LEMMA ChannelReceives ==
    ASSUME NEW a \in Seq(Packet), NEW due \in Seq(Packet), got \in Seq(Packet),
           accepted = (got \o a) \o due, got' = got \o a, UNCHANGED <<up, accepted, shifted>>,
           ~shifted
    PROVE  [Channel!Next]_(Channel!vars)
<1>1. CASE a = <<>>
  <2>1. got' = got
    BY <1>1, ConcatEmptySeq
  <2> QED BY <2>1, ChannelStutters
<1>2. CASE a # <<>>
  <2>1. PICK g \in Seq(Packet) : g = got
    OBVIOUS
  <2>2. PICK h \in Seq(Packet) : h = g \o a
    BY ConcatProperties
  <2>3. Len(h) = Len(g) + Len(a) /\ Len(a) \in Nat \ {0} /\ Len(g) \in Nat
    BY <1>2, <2>2, ConcatProperties, LenProperties, EmptySeq
  <2>4. accepted = h \o due /\ Len(accepted) = Len(h) + Len(due) /\ Len(due) \in Nat
    BY <2>1, <2>2, ConcatProperties, LenProperties
  <2>5. Len(h) \in Len(g) + 1..Len(accepted)
    BY <2>3, <2>4
  <2>6. got' = SubSeq(accepted, 1, Len(h))
    BY <2>1, <2>2, <2>4, ConcatParts
  <2>7. got # accepted
  <3> SUFFICES ASSUME got = accepted PROVE FALSE
      OBVIOUS
    <3>1. Len(g) = Len(accepted)
      BY <2>1
    <3> QED BY <2>3, <2>4, <3>1
  <2>8. Channel!Receive
    BY <2>1, <2>5, <2>6, <2>7 DEF Channel!Receive
  <2> QED BY <2>8 DEF Channel!Next
<1> QED
    BY <1>1, <1>2

LEMMA ChannelStep == IInv /\ [Next]_vars => [Channel!Next]_(Channel!vars)
<1> SUFFICES ASSUME IInv, [Next]_vars PROVE [Channel!Next]_(Channel!vars)
    OBVIOUS
<1> USE DEF IInv
<1>1. CASE UNCHANGED vars
    BY <1>1, ChannelStutters DEF vars, writer
<1>2. ASSUME NEW b \in Body, io_write(PacketOf(calls + 1, b))
      PROVE  [Channel!Next]_(Channel!vars)
  <2>1. /\ UNCHANGED <<up, got>> /\ up /\ shifted => shifted'
        /\ \/ shifted'
           \/ \E p \in Packet : p = PacketOf(calls + 1, b) /\ Written(p)
    BY <1>2, WriteStep
  <2>2. CASE shifted'
    BY <2>2 DEF Channel!Next, Channel!Break
  <2>3. CASE ~shifted'
    <3>1. PICK p \in Packet : Written(p)
      BY <2>1, <2>3
    <3>2. ~shifted /\ shifted' = shifted
      BY <2>1, <2>3, <1>2, WriteStep DEF TypeOK
    <3>0. up /\ up' = up /\ got' = got
      BY <1>2, Zenon DEF io_write
    <3>3. CASE accepted' = accepted
      <4>1. UNCHANGED <<up, accepted, got, shifted>>
        BY <3>0, <3>2, <3>3
      <4> QED BY <4>1, ChannelStutters
    <3>4. CASE accepted' = Append(accepted, p)
      <4>1. Channel!Send(p)
        BY <3>0, <3>4 DEF Channel!Send
      <4> QED BY <3>2, <4>1 DEF Channel!Next
    <3> QED BY <3>1, <3>3, <3>4 DEF Written
  <2> QED BY <2>2, <2>3
<1>3. ASSUME NEW n \in 1..SocketSize, handle_write(n) PROVE [Channel!Next]_(Channel!vars)
    BY <1>3, HandleWriteStep, ChannelStutters
<1>4. CASE handle_read
  <2>1. UNCHANGED <<up, accepted, shifted>> /\ UNCHANGED writer /\ reader = "open" /\ OtherTypes
    BY <1>4, TypesSplit DEF handle_read, writer
  <2>2. CASE shifted
    BY <2>1, <2>2 DEF Channel!Next, Channel!Break
  <2>3. CASE ~shifted
    <3>1. CASE \E why \in {"closed", "reset"} : eloop_reset_io(why)
      BY <2>1, <3>1, ResetStep, ChannelStutters
    <3>2. ASSUME NEW n \in 1..SocketSize, recv(n) PROVE [Channel!Next]_(Channel!vars)
      <4>1. UNCHANGED reader /\ \E bytes, rest, s : Received(n, bytes, rest, s)
        BY <2>1, <3>2, RecvStep
      <4>2. \E a \in Seq(Packet), due \in Seq(Packet) :
               /\ got \in Seq(Packet) /\ accepted = (got \o a) \o due /\ got' = got \o a
        BY <2>1, <2>3, <4>1, RecvStream DEF StreamInv
      <4> QED BY <2>1, <2>3, <4>2, ChannelReceives
    <3> QED BY <1>4, <3>1, <3>2 DEF handle_read
  <2> QED BY <2>2, <2>3
<1>5. CASE Exit
  <2>1. up /\ up' = FALSE /\ UNCHANGED <<accepted, got, shifted>>
    BY <1>5 DEF Exit
  <2>2. Channel!Exit
    BY <2>1 DEF Channel!Exit
  <2>3. CASE shifted
    BY <2>1, <2>3 DEF Channel!Next, Channel!Break
  <2>4. CASE ~shifted
    BY <2>1, <2>2, <2>4 DEF Channel!Next
  <2> QED BY <2>3, <2>4
<1> QED
    BY <1>1, <1>2, <1>3, <1>4, <1>5 DEF Next

(* Every step of the byte stream is a step of the channel of packets, or   *)
(* none: packets are accepted, handed over whole, in order and once, and   *)
(* nothing else happens to them until the stream is broken.                *)
THEOREM ChannelSafety == Spec => Channel!Init /\ [][Channel!Next]_(Channel!vars)
<1>1. IInv /\ [Next]_vars => [Channel!Next]_(Channel!vars)
    BY ChannelStep
<1> QED
    BY <1>1, ChannelInit, InvInit, InvStep, PTL DEF Spec
=============================================================================
