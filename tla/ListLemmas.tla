----------------------------- MODULE ListLemmas -----------------------------
(***************************************************************************)
(* Facts the proofs of several modules rest on.  About the sequences that  *)
(* stand for linked lists: the first match of a walk from the head, adding *)
(* at the tail, taking out the node a walk has found.  About numbers:      *)
(* induction, and the values of a recursion.  About streams: what the      *)
(* concatenation of a sequence of sequences is.                            *)
(***************************************************************************)
EXTENDS SequencesExt, SequenceTheorems, WellFoundedInduction, TLAPS

(* A set of positions that is not empty has a first one. *)
LEMMA FirstPosition ==
    ASSUME NEW I \in SUBSET Nat, I # {}
    PROVE  Min(I) \in I /\ \A i \in I : Min(I) <= i
<1>1. PICK m \in I : \A i \in I : ~(<<i, m>> \in OpToRel(<, Nat))
    BY NatLessThanWellFounded, WFMin
<1>2. \A i, j : <<i, j>> \in OpToRel(<, Nat) <=> i \in Nat /\ j \in Nat /\ i < j
    BY Zenon DEF OpToRel
<1>3. \A i \in I : ~(i < m)
    BY <1>1, <1>2, I \subseteq Nat, Zenon
<1>4. \A i \in I : m <= i
    BY <1>3
<1> QED
    BY <1>4 DEF Min

(* Taking out position k closes the gap and keeps the order. *)
LEMMA RemoveAtProperties ==
    ASSUME NEW S, NEW s \in Seq(S), NEW k \in 1..Len(s)
    PROVE  /\ RemoveAt(s, k) \in Seq(S)
           /\ Len(RemoveAt(s, k)) = Len(s) - 1
           /\ \A j \in 1..Len(s) - 1 :
                 RemoveAt(s, k)[j] = s[IF j < k THEN j ELSE j + 1]
<1> DEFINE n == Len(s)
           a == SubSeq(s, 1, k - 1)
           b == SubSeq(s, k + 1, n)
<1>1. n \in Nat /\ s \in [1..n -> S]
    BY LenProperties
<1>2. /\ a \in Seq(S)
      /\ Len(a) = k - 1
      /\ \A i \in 1..k - 1 : a[i] = s[i]
  <2>1. \A i \in 1..k - 1 : s[i] \in S
    BY <1>1
  <2>2. /\ a \in Seq(S)
        /\ Len(a) = IF 1 <= k - 1 THEN k - 1 - 1 + 1 ELSE 0
        /\ \A i \in 1..k - 1 - 1 + 1 : a[i] = s[1 + i - 1]
    BY <2>1, <1>1, SubSeqProperties
  <2> HIDE DEF a
  <2> QED BY <2>2, <1>1
<1>3. /\ b \in Seq(S)
      /\ Len(b) = n - k
      /\ \A i \in 1..n - k : b[i] = s[k + i]
  <2>1. \A i \in k + 1..n : s[i] \in S
    BY <1>1
  <2>2. /\ b \in Seq(S)
        /\ Len(b) = IF k + 1 <= n THEN n - (k + 1) + 1 ELSE 0
        /\ \A i \in 1..n - (k + 1) + 1 : b[i] = s[k + 1 + i - 1]
    BY <2>1, <1>1, SubSeqProperties
  <2> HIDE DEF b
  <2>3. \A i \in 1..n - k : i \in 1..n - (k + 1) + 1 /\ k + 1 + i - 1 = k + i
    BY <1>1
  <2>4. \A i \in 1..n - k : b[i] = s[k + i]
    BY <2>2, <2>3
  <2>5. n \in Nat /\ k \in Nat /\ 1 <= k /\ k <= n
    BY <1>1
  <2>6. Len(b) = n - k
    <3>1. CASE k + 1 <= n
        BY <2>2, <2>5, <3>1
    <3>2. CASE ~(k + 1 <= n)
      <4>1. k = n
        BY <2>5, <3>2
      <4> QED BY <2>2, <2>5, <3>2, <4>1
    <3> QED BY <3>1, <3>2
  <2> QED BY <2>2, <2>4, <2>6
<1>4. /\ a \o b \in Seq(S)
      /\ Len(a \o b) = Len(a) + Len(b)
      /\ \A i \in 1..Len(a) + Len(b) :
            (a \o b)[i] = IF i <= Len(a) THEN a[i] ELSE b[i - Len(a)]
    BY <1>2, <1>3, ConcatProperties
<1>5. RemoveAt(s, k) = a \o b
    BY DEF RemoveAt
<1> HIDE DEF a, b
<1>6. Len(a) + Len(b) = n - 1
    BY <1>1, <1>2, <1>3
<1>7. ASSUME NEW j \in 1..n - 1
      PROVE  (a \o b)[j] = s[IF j < k THEN j ELSE j + 1]
  <2>1. CASE j < k
    BY <2>1, <1>1, <1>2, <1>4, <1>6
  <2>2. CASE ~(j < k)
    <3>1. (a \o b)[j] = b[j - (k - 1)]
        BY <2>2, <1>1, <1>2, <1>4, <1>6
    <3>2. j - (k - 1) \in 1..n - k /\ k + (j - (k - 1)) = j + 1
        BY <2>2, <1>1
    <3> QED BY <2>2, <3>1, <3>2, <1>3
  <2> QED BY <2>1, <2>2
<1> QED
    BY <1>1, <1>4, <1>5, <1>6, <1>7

(* The node RemoveFirst takes out is one whose value is e. *)
LEMMA RemoveFirstIsRemoveAt ==
    ASSUME NEW S, NEW s \in Seq(S), NEW e, \E i \in 1..Len(s) : s[i] = e
    PROVE  \E k \in 1..Len(s) : s[k] = e /\ RemoveFirst(s, e) = RemoveAt(s, k)
<1> DEFINE I == {i \in 1..Len(s) : s[i] = e}
<1>1. Len(s) \in Nat
    BY LenProperties
<1>2. I \in SUBSET Nat /\ I # {}
    BY <1>1
<1>3. RemoveFirst(s, e) = RemoveAt(s, Min(I))
    BY <1>2 DEF RemoveFirst, SelectInSeq
<1> HIDE DEF I
<1>4. Min(I) \in I
    BY <1>2, FirstPosition
<1> QED
    BY <1>3, <1>4 DEF I

(* Removing never brings in anything new. *)
LEMMA RemoveFirstType ==
    ASSUME NEW S, NEW s \in Seq(S), NEW e
    PROVE  RemoveFirst(s, e) \in Seq(S)
<1>1. CASE \E i \in 1..Len(s) : s[i] = e
  <2>1. PICK k \in 1..Len(s) : RemoveFirst(s, e) = RemoveAt(s, k)
    BY <1>1, RemoveFirstIsRemoveAt
  <2> QED
    BY <2>1, RemoveAtProperties
<1>2. CASE ~ \E i \in 1..Len(s) : s[i] = e
    BY <1>2 DEF RemoveFirst
<1> QED
    BY <1>1, <1>2

(* Removing from a list without duplicates takes out exactly the element,  *)
(* and leaves a list without duplicates.                                   *)
LEMMA RemoveFirstProperties ==
    ASSUME NEW S, NEW s \in Seq(S), IsInjective(s), NEW e
    PROVE  /\ IsInjective(RemoveFirst(s, e))
           /\ ToSet(RemoveFirst(s, e)) = ToSet(s) \ {e}
<1> DEFINE n == Len(s)
           r == RemoveFirst(s, e)
<1>0. n \in Nat /\ DOMAIN s = 1..n
    BY LenProperties
<1>1. CASE ~ \E i \in 1..n : s[i] = e
  <2>1. r = s
    BY <1>1 DEF RemoveFirst
  <2> QED
    BY <1>0, <1>1, <2>1 DEF ToSet
<1>2. CASE \E i \in 1..n : s[i] = e
  <2>1. PICK k \in 1..n : s[k] = e /\ r = RemoveAt(s, k)
    BY <1>2, RemoveFirstIsRemoveAt
  <2> DEFINE at(j) == IF j < k THEN j ELSE j + 1
  <2>2. /\ r \in Seq(S)
        /\ Len(r) = n - 1
        /\ \A j \in 1..n - 1 : r[j] = s[at(j)]
    BY <2>1, RemoveAtProperties
  <2>3. DOMAIN r = 1..n - 1
    BY <2>2, LenProperties
  <2>4. \A j \in 1..n - 1 : at(j) \in 1..n /\ at(j) # k
    BY <1>0
  <2>5. \A i, j \in 1..n - 1 : at(i) = at(j) => i = j
    BY <1>0
  <2>6. \A i \in 1..n : i # k => \E j \in 1..n - 1 : at(j) = i
    <3> SUFFICES ASSUME NEW i \in 1..n, i # k
                 PROVE  \E j \in 1..n - 1 : at(j) = i
        OBVIOUS
    <3>1. CASE i < k
        BY <3>1, <1>0
    <3>2. CASE ~(i < k)
      <4>1. i - 1 \in 1..n - 1 /\ ~(i - 1 < k) /\ i - 1 + 1 = i
        BY <3>2, <1>0
      <4> QED BY <4>1
    <3> QED BY <3>1, <3>2
  <2> HIDE DEF r, at, n
  <2>7. IsInjective(r)
    BY <1>0, <2>2, <2>3, <2>4, <2>5 DEF IsInjective
  <2>8. ToSet(r) \subseteq ToSet(s) \ {e}
    BY <1>0, <2>1, <2>2, <2>3, <2>4 DEF ToSet, IsInjective
  <2>9. ToSet(s) \ {e} \subseteq ToSet(r)
    BY <1>0, <2>1, <2>2, <2>3, <2>6 DEF ToSet
  <2> QED
    BY <2>7, <2>8, <2>9 DEF r, n
<1> QED
    BY <1>1, <1>2

(* Adding at the tail adds the element and nothing else. *)
LEMMA AppendSet ==
    ASSUME NEW S, NEW s \in Seq(S), NEW e \in S
    PROVE  /\ ToSet(Append(s, e)) = ToSet(s) \cup {e}
           /\ IsInjective(s) /\ e \notin ToSet(s) => IsInjective(Append(s, e))
<1> DEFINE n == Len(s)
           t == Append(s, e)
<1>1. n \in Nat /\ DOMAIN s = 1..n
    BY LenProperties
<1>2. /\ t \in Seq(S)
      /\ Len(t) = n + 1
      /\ \A i \in 1..n : t[i] = s[i]
      /\ t[n + 1] = e
    BY AppendProperties
<1>3. DOMAIN t = 1..n + 1
    BY <1>2, LenProperties
<1> HIDE DEF t, n
<1>4. 1..n + 1 = 1..n \cup {n + 1} /\ n + 1 \notin 1..n
    BY <1>1
<1>5. ToSet(t) = ToSet(s) \cup {e}
    BY <1>1, <1>2, <1>3, <1>4 DEF ToSet
<1>6. ASSUME IsInjective(s), e \notin ToSet(s) PROVE IsInjective(t)
    BY <1>1, <1>2, <1>3, <1>4, <1>6 DEF ToSet, IsInjective
<1> QED
    BY <1>5, <1>6 DEF t

-----------------------------------------------------------------------------
(* The library's induction theorem takes a predicate; SetInduction is the  *)
(* same fact about a set, from the well-foundedness of < on Nat.           *)

Below == {p \in Nat \X Nat : p[1] < p[2]}

LEMMA BelowWellFounded == IsWellFoundedOn(Below, Nat)
<1>1. OpToRel(<, Nat) = Below
  BY DEF OpToRel, Below
<1> QED BY <1>1, NatLessThanWellFounded

LEMMA SetInduction ==
  ASSUME NEW S, 0 \in S, \A n \in Nat : n \in S => n + 1 \in S
  PROVE  Nat \subseteq S
<1> DEFINE T == Nat \ S
<1> SUFFICES ASSUME T # {} PROVE FALSE
  OBVIOUS
<1>1. PICK x \in T : \A y \in T : ~(<<y, x>> \in Below)
  <2>1. T \subseteq Nat
    OBVIOUS
  <2> HIDE DEF T
  <2> QED BY <2>1, BelowWellFounded, WFMin
<1>2. x # 0
  OBVIOUS
<1>3. x - 1 \in T
  BY <1>2
<1>4. <<x - 1, x>> \in Below
  BY <1>2 DEF Below
<1> QED BY <1>1, <1>3, <1>4

-----------------------------------------------------------------------------
(* A recursion of N steps on the elements of a set has a value at each.    *)
Recursion(f, a, step, N) == f[0] = a /\ \A i \in 1..N : f[i] = step[i][f[i - 1]]

LEMMA RecursionExists ==
  ASSUME NEW T, NEW a \in T, NEW step \in [Nat -> [T -> T]], NEW N \in Nat
  PROVE  \E f \in [0..N -> T] : Recursion(f, a, step, N)
<1> DEFINE Steps(f, n) == f[0] = a /\ \A i \in 1..n : f[i] = step[i][f[i - 1]]
           I == {n \in Nat : \E f \in [0..n -> T] : Steps(f, n)}
<1>1. 0 \in I
  <2>1. [i \in 0..0 |-> a] \in [0..0 -> T] /\ Steps([i \in 0..0 |-> a], 0)
    OBVIOUS
  <2> QED BY <2>1
<1>2. ASSUME NEW n \in Nat, n \in I PROVE n + 1 \in I
  <2>1. PICK f \in [0..n -> T] : Steps(f, n)
    BY <1>2
  <2> DEFINE e == step[n + 1][f[n]]
             g == [i \in 0..n + 1 |-> IF i <= n THEN f[i] ELSE e]
  <2>2. e \in T
    OBVIOUS
  <2>3. g \in [0..n + 1 -> T]
    <3> HIDE DEF e
    <3> QED BY <2>2
  <2>4. Steps(g, n + 1)
    <3>1. g[0] = a
      BY <2>1
    <3>2. ASSUME NEW i \in 1..n + 1 PROVE g[i] = step[i][g[i - 1]]
      <4>1. CASE i <= n
        <5>1. g[i] = f[i] /\ g[i - 1] = f[i - 1] /\ i \in 1..n
          BY <4>1
        <5> QED BY <2>1, <5>1
      <4>2. CASE i = n + 1
        <5>1. g[i] = e /\ g[i - 1] = f[n]
          BY <4>2
        <5> QED BY <4>2, <5>1
      <4> QED BY <4>1, <4>2
    <3> QED BY <3>1, <3>2
  <2> HIDE DEF g, Steps
  <2> QED BY <2>3, <2>4
<1>3. Nat \subseteq I
  <2> HIDE DEF I
  <2> QED BY <1>1, <1>2, SetInduction
<1> QED BY <1>3 DEF Recursion

(* From the end of 0..N down to the start. *)
LEMMA DescendingInduction ==
  ASSUME NEW N \in Nat, NEW R, \A h \in 0..N : (\A j \in h + 1..N : j \in R) => h \in R
  PROVE  0..N \subseteq R
<1> DEFINE K == {n \in Nat : \A j \in 0..N : N - n <= j => j \in R}
<1>1. 0 \in K
  <2>1. \A j \in 0..N : N - 0 <= j => j = N
    OBVIOUS
  <2>2. N \in 0..N /\ N + 1..N = {}
    OBVIOUS
  <2>3. N \in R
    BY <2>2
  <2> QED BY <2>1, <2>3
<1>2. ASSUME NEW n \in Nat, n \in K PROVE n + 1 \in K
  <2> SUFFICES ASSUME NEW j \in 0..N, N - (n + 1) <= j PROVE j \in R
    OBVIOUS
  <2>1. \A i \in j + 1..N : i \in 0..N /\ N - n <= i
    OBVIOUS
  <2>2. \A i \in j + 1..N : i \in R
    BY <1>2, <2>1
  <2> QED BY <2>2
<1>3. Nat \subseteq K
  <2> HIDE DEF K
  <2> QED BY <1>1, <1>2, SetInduction
<1>4. N \in K
  BY <1>3
<1>5. \A j \in 0..N : N - N <= j
  OBVIOUS
<1> QED BY <1>4, <1>5

(* A recursion that goes up from each place of W to a later one has a      *)
(* value at each place of 0..N.                                            *)
Descends(f, m, N, W, next, base, step) ==
    \A h \in m..N : f[h] = IF h \in W THEN step[h][f[next[h]]] ELSE base[h]

LEMMA DescentExists ==
  ASSUME NEW T, NEW N \in Nat, NEW W, NEW base \in [0..N -> T],
         NEW step \in [0..N -> [T -> T]], NEW next, \A h \in 0..N : h \in W => next[h] \in h + 1..N
  PROVE  \E f \in [0..N -> T] : Descends(f, 0, N, W, next, base, step)
<1> DEFINE I == {n \in Nat : n <= N =>
                    \E f \in [N - n..N -> T] : Descends(f, N - n, N, W, next, base, step)}
<1>1. 0 \in I
  <2> DEFINE f == [h \in N..N |-> base[h]]
  <2>1. f \in [N..N -> T]
    OBVIOUS
  <2>2. N \notin W
    OBVIOUS
  <2>3. \A h \in N..N : h = N /\ f[h] = base[h]
    OBVIOUS
  <2>4. Descends(f, N, N, W, next, base, step)
    BY <2>2, <2>3 DEF Descends
  <2> HIDE DEF f
  <2> QED BY <2>1, <2>4
<1>2. ASSUME NEW n \in Nat, n \in I PROVE n + 1 \in I
  <2> SUFFICES ASSUME n + 1 <= N
               PROVE  \E g \in [N - (n + 1)..N -> T] : Descends(g, N - (n + 1), N, W, next, base, step)
    OBVIOUS
  <2>1. PICK f \in [N - n..N -> T] : Descends(f, N - n, N, W, next, base, step)
    BY <1>2
  <2> DEFINE k == N - (n + 1)
             e == IF k \in W THEN step[k][f[next[k]]] ELSE base[k]
             g == [h \in k..N |-> IF h = k THEN e ELSE f[h]]
  <2>2. k \in 0..N /\ k + 1 = N - n
    OBVIOUS
  <2>3. e \in T
    <3> HIDE DEF k
    <3>1. CASE k \in W
      <4>1. next[k] \in N - n..N
        BY <2>2, <3>1
      <4>2. f[next[k]] \in T
        BY <4>1
      <4> QED BY <2>2, <3>1, <4>2
    <3>2. CASE k \notin W
      BY <2>2, <3>2
    <3> QED BY <3>1, <3>2
  <2>4. g \in [k..N -> T]
    <3> HIDE DEF e
    <3> QED BY <2>2, <2>3
  <2> HIDE DEF k
  <2>5. ASSUME NEW h \in k..N
        PROVE  g[h] = IF h \in W THEN step[h][g[next[h]]] ELSE base[h]
    <3>0. h \in 0..N
      BY <2>2
    <3>1. h \in W => next[h] \in k..N /\ next[h] # k /\ g[next[h]] = f[next[h]]
      <4> HIDE DEF e
      <4> SUFFICES ASSUME h \in W
                   PROVE  next[h] \in k..N /\ next[h] # k /\ g[next[h]] = f[next[h]]
        OBVIOUS
      <4>1. next[h] \in h + 1..N
        BY <3>0
      <4>2. next[h] \in k..N /\ next[h] # k
        BY <2>2, <4>1
      <4> QED BY <4>2
    <3>2. CASE h = k
      <4>1. g[h] = e
        BY <3>2
      <4> HIDE DEF g
      <4> QED BY <3>1, <3>2, <4>1
    <3>3. CASE h # k
      <4>1. h \in N - n..N
        BY <2>2, <3>3
      <4>2. g[h] = f[h]
        BY <3>3
      <4>3. f[h] = IF h \in W THEN step[h][f[next[h]]] ELSE base[h]
        BY <2>1, <4>1 DEF Descends
      <4> HIDE DEF g
      <4> QED BY <3>1, <4>2, <4>3
    <3> QED BY <3>2, <3>3
  <2> HIDE DEF g
  <2>6. Descends(g, k, N, W, next, base, step)
    BY <2>5 DEF Descends
  <2> QED BY <2>4, <2>6 DEF k
<1>3. Nat \subseteq I
  <2> HIDE DEF I
  <2> QED BY <1>1, <1>2, SetInduction
<1>4. N \in I
  <2> HIDE DEF I
  <2> QED BY <1>3
<1>5. \E f \in [N - N..N -> T] : Descends(f, N - N, N, W, next, base, step)
  BY <1>4
<1>6. N - N = 0
  OBVIOUS
<1> QED BY <1>5, <1>6

-----------------------------------------------------------------------------
(* Cutting sequences and putting them together. *)

LEMMA ConcatThree ==
  ASSUME NEW S, NEW a \in Seq(S), NEW b \in Seq(S), NEW x \in Seq(S)
  PROVE  (a \o b) \o x = a \o (b \o x)
BY ConcatAssociative, SMT

LEMMA SplitAt ==
  ASSUME NEW S, NEW s \in Seq(S), NEW k \in 0..Len(s)
  PROVE  /\ SubSeq(s, 1, k) \in Seq(S) /\ Len(SubSeq(s, 1, k)) = k
         /\ SubSeq(s, k + 1, Len(s)) \in Seq(S)
         /\ Len(SubSeq(s, k + 1, Len(s))) = Len(s) - k
         /\ s = SubSeq(s, 1, k) \o SubSeq(s, k + 1, Len(s))
<1>1. Len(s) \in Nat /\ \A i \in 1..Len(s) : s[i] \in S
  BY LenProperties, ElementOfSeq
<1>2. SubSeq(s, 1, k) \in Seq(S) /\ Len(SubSeq(s, 1, k)) = k
  BY <1>1, SubSeqProperties
<1>3. SubSeq(s, k + 1, Len(s)) \in Seq(S) /\ Len(SubSeq(s, k + 1, Len(s))) = Len(s) - k
  BY <1>1, SubSeqProperties
<1>4. SubSeq(s, 1, k) \o SubSeq(s, k + 1, Len(s)) = SubSeq(s, 1, Len(s))
  <2>1. 1 \in 1..Len(s) + 1 /\ k \in 1 - 1..Len(s) /\ Len(s) \in k..Len(s)
    BY <1>1
  <2> QED BY <2>1, ConcatAdjacentSubSeq
<1>5. SubSeq(s, 1, Len(s)) = s
  BY SubSeqFull
<1> QED BY <1>2, <1>3, <1>4, <1>5

LEMMA FirstAndRest ==
  ASSUME NEW S, NEW s \in Seq(S), s # <<>>
  PROVE  /\ s[1] \in S /\ SubSeq(s, 2, Len(s)) \in Seq(S)
         /\ s = <<s[1]>> \o SubSeq(s, 2, Len(s))
<1>1. Len(s) \in Nat /\ Len(s) > 0
  BY EmptySeq, LenProperties
<1>2. 1 \in 1..Len(s) /\ Len(s) \in 1..Len(s) /\ 1 \in 0..Len(s) /\ 1 + 1 = 2
  BY <1>1
<1>3. SubSeq(s, 1, Len(s)) = <<s[1]>> \o SubSeq(s, 1 + 1, Len(s))
  BY <1>2, SubSeqRecursiveFirst
<1>4. SubSeq(s, 1, Len(s)) = s
  BY SubSeqFull
<1>5. s[1] \in S /\ SubSeq(s, 1 + 1, Len(s)) \in Seq(S)
  BY <1>2, ElementOfSeq, SplitAt
<1> QED BY <1>2, <1>3, <1>4, <1>5

LEMMA ConcatCancel ==
  ASSUME NEW S, NEW a \in Seq(S), NEW b \in Seq(S), NEW c \in Seq(S), NEW d \in Seq(S),
         a \o b = c \o d, Len(a) = Len(c)
  PROVE  a = c /\ b = d
<1>1. /\ Len(a) \in Nat /\ Len(b) \in Nat /\ Len(d) \in Nat
      /\ Len(a \o b) = Len(a) + Len(b) /\ Len(c \o d) = Len(c) + Len(d)
  BY LenProperties, ConcatProperties
<1>2. \A i \in 1..Len(a) : a[i] = c[i]
  <2> TAKE i \in 1..Len(a)
  <2>1. (a \o b)[i] = a[i]
    BY <1>1, ConcatProperties
  <2>2. (c \o d)[i] = c[i]
    BY <1>1, ConcatProperties
  <2> QED BY <2>1, <2>2
<1>3. a = c
  BY <1>2, SeqEqual
<1>4. Len(b) = Len(d)
  BY <1>1
<1>5. \A i \in 1..Len(b) : b[i] = d[i]
  <2> TAKE i \in 1..Len(b)
  <2>1. /\ Len(a) + i \in 1..Len(a) + Len(b) /\ ~(Len(a) + i <= Len(a))
        /\ (Len(a) + i) - Len(a) = i
    BY <1>1
  <2>2. (a \o b)[Len(a) + i] = b[i]
    <3>1. \A j \in 1..Len(a) + Len(b) : (a \o b)[j] = IF j <= Len(a) THEN a[j] ELSE b[j - Len(a)]
      BY ConcatProperties
    <3> QED BY <2>1, <3>1
  <2>3. (c \o d)[Len(a) + i] = d[i]
    BY <1>4, <2>1, ConcatProperties
  <2> QED BY <2>2, <2>3
<1>6. b = d
  BY <1>4, <1>5, SeqEqual
<1> QED BY <1>3, <1>6

LEMMA ConcatParts ==
  ASSUME NEW S, NEW a \in Seq(S), NEW b \in Seq(S)
  PROVE  /\ SubSeq(a \o b, 1, Len(a)) = a
         /\ SubSeq(a \o b, Len(a) + 1, Len(a \o b)) = b
<1> DEFINE s == a \o b
           k == Len(a)
<1>1. s \in Seq(S) /\ k \in 0..Len(s)
  <2>1. s \in Seq(S) /\ Len(s) = Len(a) + Len(b)
    BY ConcatProperties
  <2>2. Len(a) \in Nat /\ Len(b) \in Nat
    BY LenProperties
  <2> QED BY <2>1, <2>2
<1> HIDE DEF s, k
<1>2. /\ SubSeq(s, 1, k) \in Seq(S) /\ Len(SubSeq(s, 1, k)) = k
      /\ SubSeq(s, k + 1, Len(s)) \in Seq(S)
      /\ s = SubSeq(s, 1, k) \o SubSeq(s, k + 1, Len(s))
  BY <1>1, SplitAt
<1>3. a \o b = SubSeq(s, 1, k) \o SubSeq(s, k + 1, Len(s)) /\ Len(a) = Len(SubSeq(s, 1, k))
  BY <1>2 DEF s, k
<1> DEFINE c == SubSeq(s, 1, k)
           d == SubSeq(s, k + 1, Len(s))
<1>4. c \in Seq(S) /\ d \in Seq(S) /\ a \o b = c \o d /\ Len(a) = Len(c)
  BY <1>2, <1>3
<1> HIDE DEF c, d
<1>5. a = c /\ b = d
  BY <1>4, ConcatCancel
<1> QED BY <1>5 DEF s, k, c, d

-----------------------------------------------------------------------------
(* FlattenSeq is an iterated concatenation. *)

(* The partial concatenations of which FlattenSeq chooses the last exist,  *)
(* and they are what they are said to be.                                  *)
Partials(f, s, N) == f = [i \in 1..N |-> IF i = 1 THEN s[i] ELSE f[i - 1] \o s[i]]

LEMMA PartialsExist ==
  ASSUME NEW T, NEW N \in Nat, N > 0, NEW s, \A i \in 1..N : s[i] \in T,
         \A x, y \in T : x \o y \in T
  PROVE  \E f : Partials(f, s, N)
<1> DEFINE step == [i \in Nat |-> [x \in T |-> IF i \in 2..N THEN x \o s[i] ELSE s[1]]]
           a == s[1]
<1>1. step \in [Nat -> [T -> T]] /\ a \in T
  OBVIOUS
<1>2. PICK f \in [0..N -> T] : Recursion(f, a, step, N)
  <2> HIDE DEF step, a
  <2> QED BY <1>1, RecursionExists
<1>3. \A i \in 1..N : f[i] = IF i = 1 THEN s[i] ELSE f[i - 1] \o s[i]
  <2> TAKE i \in 1..N
  <2>1. i \in Nat /\ f[i - 1] \in T
    OBVIOUS
  <2>2. f[i] = IF i \in 2..N THEN f[i - 1] \o s[i] ELSE s[1]
    BY <1>2, <2>1 DEF Recursion
  <2> QED BY <2>2
<1> DEFINE g == [i \in 1..N |-> f[i]]
<1>4. \A i \in 1..N : g[i] = IF i = 1 THEN s[i] ELSE g[i - 1] \o s[i]
  <2> TAKE i \in 1..N
  <2>1. g[i] = f[i] /\ (i # 1 => g[i - 1] = f[i - 1])
    OBVIOUS
  <2> HIDE DEF g
  <2> QED BY <1>3, <2>1
<1>5. Partials(g, s, N)
  BY <1>4 DEF Partials
<1> QED BY <1>5

Concats(f, s, N, T) ==
    /\ f[1] = s[1]
    /\ \A i \in 2..N : f[i] = f[i - 1] \o s[i]
    /\ \A i \in 1..N : f[i] \in T

LEMMA PartialsProperties ==
  ASSUME NEW T, NEW N \in Nat, N > 0, NEW s, \A i \in 1..N : s[i] \in T,
         \A x, y \in T : x \o y \in T,
         NEW f, Partials(f, s, N)
  PROVE  Concats(f, s, N, T)
<1>1. \A i \in 1..N : f[i] = IF i = 1 THEN s[i] ELSE f[i - 1] \o s[i]
  BY DEF Partials
<1> DEFINE J == {n \in Nat : n < N => f[n + 1] \in T}
<1>2. 0 \in J
  BY <1>1
<1>3. ASSUME NEW n \in Nat, n \in J PROVE n + 1 \in J
  <2> SUFFICES ASSUME n + 1 < N PROVE f[n + 2] \in T
    OBVIOUS
  <2>1. n + 2 \in 1..N /\ n + 2 # 1 /\ (n + 2) - 1 = n + 1
    OBVIOUS
  <2>2. f[n + 1] \in T /\ s[n + 2] \in T
    BY <1>3, <2>1
  <2>3. f[n + 2] = f[n + 1] \o s[n + 2]
    BY <1>1, <2>1
  <2> QED BY <2>2, <2>3
<1>4. Nat \subseteq J
  <2> HIDE DEF J
  <2> QED BY <1>2, <1>3, SetInduction
<1>5. \A i \in 1..N : f[i] \in T
  <2> TAKE i \in 1..N
  <2> HIDE DEF J
  <2>1. i - 1 \in J /\ i - 1 < N /\ (i - 1) + 1 = i
    BY <1>4
  <2> QED BY <2>1 DEF J
<1>6. 1 \in 1..N /\ \A i \in 2..N : i \in 1..N /\ i # 1
  OBVIOUS
<1>7. f[1] = s[1] /\ \A i \in 2..N : f[i] = f[i - 1] \o s[i]
  BY <1>1, <1>6, Zenon
<1> QED BY <1>5, <1>7 DEF Concats

LEMMA FlattenSteps ==
  ASSUME NEW S, NEW s \in Seq(Seq(S)), Len(s) > 0
  PROVE  \E f : FlattenSeq(s) = f[Len(s)] /\ Concats(f, s, Len(s), Seq(S))
<1> DEFINE N == Len(s)
           T == Seq(S)
           c == CHOOSE f : Partials(f, s, N)
<1>1. N \in Nat /\ N > 0 /\ \A i \in 1..N : s[i] \in T
  OBVIOUS
<1>2. \A x, y \in T : x \o y \in T
  BY ConcatProperties
<1>3. FlattenSeq(s) = c[N]
  BY <1>1 DEF FlattenSeq, Partials
<1> HIDE DEF N, T
<1>4. Partials(c, s, N)
  <2>1. \E f : Partials(f, s, N)
    BY <1>1, <1>2, PartialsExist
  <2> QED BY <2>1
<1> HIDE DEF c
<1>5. Concats(c, s, N, T)
  BY <1>1, <1>2, <1>4, PartialsProperties
<1> QED BY <1>3, <1>5 DEF N, T

LEMMA FlattenEmpty == FlattenSeq(<<>>) = <<>>
BY DEF FlattenSeq

LEMMA FlattenType ==
  ASSUME NEW S, NEW s \in Seq(Seq(S))
  PROVE  FlattenSeq(s) \in Seq(S)
<1>1. CASE Len(s) = 0
  BY <1>1, FlattenEmpty, EmptySeq
<1>2. CASE Len(s) > 0
  <2>1. PICK f : FlattenSeq(s) = f[Len(s)] /\ Concats(f, s, Len(s), Seq(S))
    BY <1>2, FlattenSteps
  <2>2. Len(s) \in 1..Len(s)
    BY <1>2, LenProperties
  <2> QED BY <2>1, <2>2 DEF Concats
<1> QED BY <1>1, <1>2, LenProperties

(* Two partial concatenations of sequences that agree to a place agree. *)
LEMMA PartialsAgree ==
  ASSUME NEW N \in Nat, NEW s, NEW t, \A i \in 1..N : s[i] = t[i], N > 0,
         NEW T, NEW f, Concats(f, s, N, T), NEW M \in Nat, N <= M, NEW g, Concats(g, t, M, T)
  PROVE  f[N] = g[N]
<1> DEFINE J == {n \in Nat : n < N => f[n + 1] = g[n + 1]}
<1>1. 0 \in J
  <2>1. 1 \in 1..N
    OBVIOUS
  <2> QED BY <2>1 DEF Concats
<1>2. ASSUME NEW n \in Nat, n \in J PROVE n + 1 \in J
  <2> SUFFICES ASSUME n + 1 < N PROVE f[n + 2] = g[n + 2]
    OBVIOUS
  <2>1. /\ n + 2 \in 2..N /\ n + 2 \in 2..M /\ n + 2 \in 1..N /\ (n + 2) - 1 = n + 1
        /\ f[n + 1] = g[n + 1]
    BY <1>2
  <2>2. f[n + 2] = f[n + 1] \o s[n + 2]
    BY <2>1 DEF Concats
  <2>3. g[n + 2] = g[n + 1] \o t[n + 2]
    BY <2>1 DEF Concats
  <2>4. s[n + 2] = t[n + 2]
    BY <2>1
  <2> QED BY <2>1, <2>2, <2>3, <2>4
<1>3. Nat \subseteq J
  <2> HIDE DEF J
  <2> QED BY <1>1, <1>2, SetInduction
<1>4. N - 1 \in J /\ N - 1 < N /\ (N - 1) + 1 = N
  <2> HIDE DEF J
  <2> QED BY <1>3
<1> QED BY <1>4

LEMMA FlattenAppend ==
  ASSUME NEW S, NEW s \in Seq(Seq(S)), NEW x \in Seq(S)
  PROVE  FlattenSeq(Append(s, x)) = FlattenSeq(s) \o x
<1> DEFINE t == Append(s, x)
           n == Len(s)
<1>1. /\ t \in Seq(Seq(S)) /\ Len(t) = n + 1 /\ n \in Nat
      /\ \A i \in 1..n : t[i] = s[i]
      /\ t[n + 1] = x
  BY AppendProperties, LenProperties
<1> HIDE DEF t
<1>2. PICK g : FlattenSeq(t) = g[n + 1] /\ Concats(g, t, n + 1, Seq(S))
  <2>1. PICK g : FlattenSeq(t) = g[Len(t)] /\ Concats(g, t, Len(t), Seq(S))
    <3>1. t \in Seq(Seq(S)) /\ Len(t) > 0
      BY <1>1
    <3> QED BY <3>1, FlattenSteps
  <2> QED BY <1>1, <2>1
<1>3. CASE n = 0
  <2>1. s = <<>> /\ FlattenSeq(t) = x
    BY <1>1, <1>2, <1>3, EmptySeq DEF Concats
  <2> QED BY <2>1, FlattenEmpty, ConcatEmptySeq DEF t
<1>4. CASE n > 0
  <2>1. PICK f : FlattenSeq(s) = f[n] /\ Concats(f, s, n, Seq(S))
    BY <1>4, FlattenSteps
  <2>2. g[n + 1] = g[n] \o x
    <3>1. n + 1 \in 2..n + 1 /\ (n + 1) - 1 = n
      BY <1>1, <1>4
    <3> QED BY <1>1, <1>2, <3>1 DEF Concats
  <2>3. f[n] = g[n]
    <3> HIDE DEF n
    <3>0. \A i \in 1..n : s[i] = t[i]
      BY <1>1, Zenon
    <3>1. n + 1 \in Nat /\ n <= n + 1 /\ n > 0 /\ n \in Nat
      BY <1>1, <1>4
    <3>2. Concats(f, s, n, Seq(S)) /\ Concats(g, t, n + 1, Seq(S))
      BY <1>2, <2>1
    <3> QED BY <3>0, <3>1, <3>2, PartialsAgree
  <2> QED BY <1>2, <2>1, <2>2, <2>3 DEF t
<1> QED BY <1>1, <1>3, <1>4

LEMMA FlattenConcat ==
  ASSUME NEW S, NEW s \in Seq(Seq(S)), NEW t \in Seq(Seq(S))
  PROVE  FlattenSeq(s \o t) = FlattenSeq(s) \o FlattenSeq(t)
<1> DEFINE T == Seq(S)
           Same(r) == FlattenSeq(s \o r) = FlattenSeq(s) \o FlattenSeq(r)
           J == {n \in Nat : \A r \in Seq(T) : Len(r) = n => Same(r)}
<1>1. 0 \in J
  <2> SUFFICES ASSUME NEW r \in Seq(T), Len(r) = 0 PROVE Same(r)
    OBVIOUS
  <2>1. r = <<>> /\ s \o r = s
    BY EmptySeq, ConcatEmptySeq
  <2> QED BY <2>1, FlattenEmpty, FlattenType, ConcatEmptySeq
<1>2. ASSUME NEW n \in Nat, n \in J PROVE n + 1 \in J
  <2> SUFFICES ASSUME NEW r \in Seq(T), Len(r) = n + 1 PROVE Same(r)
    OBVIOUS
  <2>1. PICK q \in Seq(T), x \in T : r = Append(q, x)
    <3>1. r # <<>>
      BY EmptySeq
    <3> HIDE DEF T
    <3> QED BY <3>1, SequenceEmptyOrAppend
  <2>2. Len(q) = n
    BY <2>1, AppendProperties, LenProperties
  <2>3. Same(q)
    BY <1>2, <2>2
  <2>4. s \o r = Append(s \o q, x) /\ s \o q \in Seq(T)
    <3> HIDE DEF T
    <3>1. s \in Seq(T) /\ <<x>> \in Seq(T)
      BY DEF T
    <3>2. r = q \o <<x>>
      BY <2>1, AppendIsConcat
    <3>3. s \o q \in Seq(T)
      BY <3>1, ConcatProperties
    <3>4. (s \o q) \o <<x>> = s \o (q \o <<x>>)
      BY <3>1, ConcatAssociative
    <3> QED BY <3>2, <3>3, <3>4, AppendIsConcat
  <2>5. FlattenSeq(s \o r) = FlattenSeq(s \o q) \o x
    BY <2>1, <2>4, FlattenAppend
  <2>6. FlattenSeq(r) = FlattenSeq(q) \o x
    BY <2>1, FlattenAppend
  <2>7. FlattenSeq(s) \in Seq(S) /\ FlattenSeq(q) \in Seq(S) /\ x \in Seq(S)
    BY <2>1, FlattenType
  <2>8. (FlattenSeq(s) \o FlattenSeq(q)) \o x = FlattenSeq(s) \o (FlattenSeq(q) \o x)
    <3> HIDE DEF T, Same, J
    <3>1. \A a, b, y \in Seq(S) : (a \o b) \o y = a \o (b \o y)
      BY ConcatThree
    <3> QED BY <2>7, <3>1, Zenon
  <2> QED BY <2>3, <2>5, <2>6, <2>8
<1>3. Nat \subseteq J
  <2> HIDE DEF J
  <2> QED BY <1>1, <1>2, SetInduction
<1>4. Len(t) \in J
  <2> HIDE DEF J
  <2> QED BY <1>3, LenProperties
<1> QED BY <1>4

LEMMA FlattenOne ==
  ASSUME NEW S, NEW x \in Seq(S)
  PROVE  FlattenSeq(<<x>>) = x
<1>1. <<>> \in Seq(Seq(S)) /\ Append(<<>>, x) = <<x>>
  BY EmptySeq
<1>2. FlattenSeq(<<x>>) = FlattenSeq(<<>>) \o x
  BY <1>1, FlattenAppend
<1> QED BY <1>2, FlattenEmpty, ConcatEmptySeq

-----------------------------------------------------------------------------
(* Sequences put together from what a function has for the elements of one.*)

Mapped(g, s) == [k \in 1..Len(s) |-> g[s[k]]]
PutTogether(g, s) == FlattenSeq(Mapped(g, s))

(* A function, told by its name to the provers. *)
Maps(g, D, S) == g \in [D -> S]

LEMMA FunctionIsSeq ==
  ASSUME NEW S, NEW n \in Nat, NEW f \in [1..n -> S]
  PROVE  f \in Seq(S) /\ Len(f) = n
<1>1. f \in Seq(S)
  BY SeqDef
<1>2. DOMAIN f = 1..n /\ DOMAIN f = 1..Len(f) /\ Len(f) \in Nat
  BY <1>1, LenProperties
<1> QED
  BY <1>1, <1>2

(* A sequence, told by a name to the provers. *)
IsSeq(s, S) == s \in Seq(S)

LEMMA ConcatIs ==
  ASSUME NEW S, NEW a, IsSeq(a, S), NEW b, IsSeq(b, S)
  PROVE  IsSeq(a \o b, S) /\ Len(a \o b) = Len(a) + Len(b)
BY ConcatProperties DEF IsSeq

(* The elements of a concatenation, when it is known how long its parts are. *)
LEMMA ConcatAt ==
  ASSUME NEW S, NEW a, IsSeq(a, S), NEW b, IsSeq(b, S),
         NEW m \in Nat, Len(a) = m, NEW n \in Nat, Len(b) = n
  PROVE  \A k \in 1..m + n : (a \o b)[k] = IF k <= m THEN a[k] ELSE b[k - m]
BY ConcatProperties DEF IsSeq

MapsAll(m, g, s) == Len(m) = Len(s) /\ \A k \in 1..Len(s) : m[k] = g[s[k]]

LEMMA MappedType ==
  ASSUME NEW D, NEW S, NEW g, Maps(g, D, S), NEW s, IsSeq(s, D)
  PROVE  IsSeq(Mapped(g, s), S) /\ MapsAll(Mapped(g, s), g, s)
<1>1. Len(s) \in Nat /\ \A k \in 1..Len(s) : s[k] \in D
  BY LenProperties, ElementOfSeq DEF IsSeq
<1>2. Mapped(g, s) \in [1..Len(s) -> S]
  BY <1>1 DEF Mapped, Maps
<1>3. \A k \in 1..Len(s) : Mapped(g, s)[k] = g[s[k]]
  BY DEF Mapped
<1> QED
  BY <1>1, <1>2, <1>3, FunctionIsSeq DEF IsSeq, MapsAll

LEMMA TogetherType ==
  ASSUME NEW D, NEW S, NEW g, Maps(g, D, Seq(S)), NEW s, IsSeq(s, D)
  PROVE  IsSeq(PutTogether(g, s), S)
<1>1. IsSeq(Mapped(g, s), Seq(S))
  BY MappedType
<1> QED
  BY <1>1, FlattenType DEF PutTogether, IsSeq

LEMMA MappedConcat ==
  ASSUME NEW D, NEW S, NEW g, Maps(g, D, S), NEW s, IsSeq(s, D), NEW t, IsSeq(t, D)
  PROVE  Mapped(g, s \o t) = Mapped(g, s) \o Mapped(g, t)
<1> DEFINE a == Mapped(g, s)
           b == Mapped(g, t)
           c == Mapped(g, s \o t)
<1>1. IsSeq(a, S) /\ MapsAll(a, g, s) /\ IsSeq(b, S) /\ MapsAll(b, g, t)
  BY MappedType
<1>2. IsSeq(s \o t, D) /\ Len(s \o t) = Len(s) + Len(t)
  BY ConcatProperties DEF IsSeq
<1>3. IsSeq(c, S) /\ MapsAll(c, g, s \o t)
  BY <1>2, MappedType
<1>4. PICK m \in Nat, n \in Nat : m = Len(s) /\ n = Len(t)
  BY LenProperties DEF IsSeq
<1>5. \A k \in 1..m + n : (s \o t)[k] = IF k <= m THEN s[k] ELSE t[k - m]
  BY <1>4, ConcatProperties DEF IsSeq
<1> HIDE DEF a, b, c
<1>6. a \in Seq(S) /\ b \in Seq(S) /\ c \in Seq(S) /\ Len(a) = m /\ Len(b) = n
  BY <1>1, <1>3, <1>4 DEF IsSeq, MapsAll
<1>7. a \o b \in Seq(S) /\ Len(a \o b) = m + n
  BY <1>6, ConcatProperties
<1>8. \A k \in 1..m + n : (a \o b)[k] = IF k <= m THEN a[k] ELSE b[k - m]
  BY <1>6, ConcatProperties
<1>9. ASSUME NEW k \in 1..m + n
      PROVE  c[k] = (a \o b)[k]
  <2>1. c[k] = g[(s \o t)[k]]
    BY <1>2, <1>3, <1>4 DEF MapsAll
  <2>2. CASE k <= m
    <3>1. k \in 1..m
      BY <2>2
    <3>2. a[k] = g[s[k]]
      BY <1>1, <1>4, <3>1 DEF MapsAll
    <3> QED
      BY <1>5, <1>8, <2>1, <2>2, <3>2
  <2>3. CASE ~(k <= m)
    <3>1. k - m \in 1..n
      BY <2>3
    <3>2. b[k - m] = g[t[k - m]]
      BY <1>1, <1>4, <3>1 DEF MapsAll
    <3> QED
      BY <1>5, <1>8, <2>1, <2>3, <3>2
  <2> QED
    BY <2>2, <2>3
<1>10. c = a \o b
  <2>1. Len(c) = m + n
    BY <1>2, <1>3, <1>4 DEF MapsAll
  <2> QED
    BY <1>6, <1>7, <1>9, <2>1, SeqEqual
<1> QED
  BY <1>10 DEF a, b, c

TogetherBoth(g, s, t) == PutTogether(g, s \o t) = PutTogether(g, s) \o PutTogether(g, t)

LEMMA TogetherConcat ==
  ASSUME NEW D, NEW S, NEW g, Maps(g, D, Seq(S)), NEW s, IsSeq(s, D), NEW t, IsSeq(t, D)
  PROVE  TogetherBoth(g, s, t)
<1>1. IsSeq(Mapped(g, s), Seq(S)) /\ IsSeq(Mapped(g, t), Seq(S))
  BY MappedType
<1>2. Mapped(g, s \o t) = Mapped(g, s) \o Mapped(g, t)
  BY MappedConcat
<1>3. FlattenSeq(Mapped(g, s) \o Mapped(g, t)) = FlattenSeq(Mapped(g, s)) \o FlattenSeq(Mapped(g, t))
  BY <1>1, FlattenConcat, Zenon DEF IsSeq
<1> QED
  BY <1>2, <1>3, Zenon DEF PutTogether, TogetherBoth

LEMMA TogetherEmpty == ASSUME NEW g PROVE PutTogether(g, <<>>) = <<>>
<1>1. Mapped(g, <<>>) = <<>>
  BY DEF Mapped
<1> QED
  BY <1>1, FlattenEmpty DEF PutTogether

LEMMA TogetherOne ==
  ASSUME NEW D, NEW S, NEW g, Maps(g, D, Seq(S)), NEW x \in D
  PROVE  PutTogether(g, <<x>>) = g[x]
<1>1. Mapped(g, <<x>>) = <<g[x]>> /\ g[x] \in Seq(S)
  BY DEF Mapped, Maps
<1> QED
  BY <1>1, FlattenOne DEF PutTogether

LEMMA TogetherAppend ==
  ASSUME NEW D, NEW S, NEW g, Maps(g, D, Seq(S)), NEW s, IsSeq(s, D), NEW x \in D
  PROVE  PutTogether(g, Append(s, x)) = PutTogether(g, s) \o g[x]
<1>1. IsSeq(<<x>>, D) /\ Append(s, x) = s \o <<x>>
  BY AppendIsConcat DEF IsSeq
<1>2. TogetherBoth(g, s, <<x>>)
  BY <1>1, TogetherConcat
<1>3. PutTogether(g, <<x>>) = g[x]
  BY TogetherOne
<1> QED
  BY <1>1, <1>2, <1>3, Zenon DEF TogetherBoth

IsAppend(r, T, n) == \E q : \E x \in T : IsSeq(q, T) /\ Len(q) = n /\ r = Append(q, x)

LEMMA LastAndFront ==
  ASSUME NEW T, NEW r, IsSeq(r, T), NEW n \in Nat, Len(r) = n + 1
  PROVE  IsAppend(r, T, n)
<1>1. r \in Seq(T) /\ r # <<>>
  BY EmptySeq DEF IsSeq
<1>2. PICK q \in Seq(T), x \in T : r = Append(q, x)
  BY <1>1, SequenceEmptyOrAppend
<1>3. Len(q) = n
  BY <1>2, AppendProperties, LenProperties
<1> QED
  BY <1>2, <1>3 DEF IsSeq, IsAppend

(* Induction on sequences of sequences, whose type the provers do not see. *)
LEMMA SeqsInduction ==
  ASSUME NEW T, NEW P, <<>> \in P,
         \A q, x : IsSeq(q, T) /\ x \in T /\ q \in P => Append(q, x) \in P
  PROVE  \A r : IsSeq(r, T) => r \in P
<1> DEFINE J == {n \in Nat : \A r : IsSeq(r, T) /\ Len(r) = n => r \in P}
<1>1. 0 \in J
  <2> SUFFICES ASSUME NEW r, IsSeq(r, T), Len(r) = 0 PROVE r \in P
    OBVIOUS
  <2>1. r = <<>>
    BY EmptySeq DEF IsSeq
  <2> QED
    BY <2>1
<1>2. ASSUME NEW n \in Nat, n \in J PROVE n + 1 \in J
  <2> SUFFICES ASSUME NEW r, IsSeq(r, T), Len(r) = n + 1 PROVE r \in P
    OBVIOUS
  <2>0. IsAppend(r, T, n)
    BY LastAndFront
  <2>1. PICK q : \E x \in T : IsSeq(q, T) /\ Len(q) = n /\ r = Append(q, x)
    BY <2>0 DEF IsAppend
  <2> QED
    BY <1>2, <2>1
<1>3. Nat \subseteq J
  <2> HIDE DEF J
  <2> QED
    BY <1>1, <1>2, SetInduction
<1> SUFFICES ASSUME NEW r, IsSeq(r, T) PROVE r \in P
  OBVIOUS
<1>4. Len(r) \in Nat
  BY LenProperties DEF IsSeq
<1> QED
  BY <1>3, <1>4

(* Put together what is put together itself, part by part. *)
Parts(g, ss) == [k \in 1..Len(ss) |-> PutTogether(g, ss[k])]

LEMMA TogetherFlatten ==
  ASSUME NEW D, NEW S, NEW g, Maps(g, D, Seq(S)), NEW ss, IsSeq(ss, Seq(D))
  PROVE  PutTogether(g, FlattenSeq(ss)) = FlattenSeq(Parts(g, ss))
<1> DEFINE h == [s \in Seq(D) |-> PutTogether(g, s)]
           Same(r) == PutTogether(g, FlattenSeq(r)) = PutTogether(h, r)
           P == {r \in Seq(Seq(D)) : Same(r)}
<1>1. Maps(h, Seq(D), Seq(S))
  BY TogetherType DEF Maps, IsSeq
<1>2. Same(<<>>) /\ <<>> \in Seq(Seq(D))
  BY FlattenEmpty, TogetherEmpty, EmptySeq
<1>3. ASSUME NEW q, IsSeq(q, Seq(D)), NEW x \in Seq(D), Same(q)
      PROVE  Same(Append(q, x)) /\ Append(q, x) \in Seq(Seq(D))
  <2> HIDE DEF h
  <2>1. FlattenSeq(Append(q, x)) = FlattenSeq(q) \o x /\ IsSeq(FlattenSeq(q), D) /\ IsSeq(x, D)
    BY <1>3, FlattenAppend, FlattenType, Zenon DEF IsSeq
  <2>2. TogetherBoth(g, FlattenSeq(q), x)
    BY <2>1, TogetherConcat
  <2>3. PutTogether(h, Append(q, x)) = PutTogether(h, q) \o h[x]
    BY <1>1, <1>3, TogetherAppend, Zenon
  <2>4. h[x] = PutTogether(g, x)
    BY DEF h
  <2>5. Append(q, x) \in Seq(Seq(D))
    BY <1>3, AppendProperties, Zenon DEF IsSeq
  <2> QED
    BY <1>3, <2>1, <2>2, <2>3, <2>4, <2>5, Zenon DEF TogetherBoth
<1>4. ss \in P
  <2>1. <<>> \in P
    BY <1>2
  <2>2. \A q, x : IsSeq(q, Seq(D)) /\ x \in Seq(D) /\ q \in P => Append(q, x) \in P
    BY <1>3, Zenon
  <2> HIDE DEF P
  <2> QED
    BY <2>1, <2>2, SeqsInduction, Zenon
<1>5. Mapped(h, ss) = Parts(g, ss)
  <2>1. \A k \in 1..Len(ss) : ss[k] \in Seq(D)
    BY ElementOfSeq, Zenon DEF IsSeq
  <2>2. \A k \in 1..Len(ss) : h[ss[k]] = PutTogether(g, ss[k])
    BY <2>1, Zenon
  <2> QED
    BY <2>2, Zenon DEF Mapped, Parts
<1> QED
  BY <1>4, <1>5, Zenon DEF PutTogether

(* Where the parts of what is put together begin. *)
Places(off, ss, s) ==
    /\ off[0] = 0 /\ off[Len(ss)] = Len(s)
    /\ \A k \in 1..Len(ss) : /\ off[k] = off[k - 1] + Len(ss[k])
                             /\ \A j \in 1..Len(ss[k]) : s[off[k - 1] + j] = ss[k][j]

(* Partial sums end with the greatest. *)
LEMMA SumsGrow ==
  ASSUME NEW n \in Nat, NEW off \in [0..n -> Nat], NEW len \in [1..n -> Nat],
         \A k \in 1..n : off[k] = off[k - 1] + len[k]
  PROVE  \A k \in 0..n : off[k] <= off[n]
<1> DEFINE K == {i \in Nat : i <= n => off[n - i] <= off[n]}
<1>1. 0 \in K
  OBVIOUS
<1>2. ASSUME NEW i \in Nat, i \in K PROVE i + 1 \in K
  <2> SUFFICES ASSUME i + 1 <= n PROVE off[n - (i + 1)] <= off[n]
    OBVIOUS
  <2>1. n - i \in 1..n /\ (n - i) - 1 = n - (i + 1)
    OBVIOUS
  <2>2. off[n - i] = off[n - (i + 1)] + len[n - i]
    BY <2>1
  <2> QED
    BY <1>2, <2>1, <2>2
<1>3. Nat \subseteq K
  <2> HIDE DEF K
  <2> QED
    BY <1>1, <1>2, SetInduction
<1> TAKE k \in 0..n
<1>4. n - k \in Nat /\ n - (n - k) = k /\ n - k <= n
  OBVIOUS
<1>5. n - k \in K
  <2> HIDE DEF K
  <2> QED
    BY <1>3, <1>4
<1> QED
  BY <1>4, <1>5

LEMMA PlacesAppend ==
  ASSUME NEW S, NEW T, \A e \in T : e \in Seq(S),
         NEW q, IsSeq(q, T), NEW x \in T, NEW a \in Seq(S),
         NEW off \in [0..Len(q) -> Nat], Places(off, q, a)
  PROVE  \E new \in [0..Len(Append(q, x)) -> Nat] : Places(new, Append(q, x), a \o x)
<1>1. PICK n \in Nat : n = Len(q)
  BY LenProperties DEF IsSeq
<1>2. PICK r : r = Append(q, x)
  OBVIOUS
<1>3. Len(r) = n + 1 /\ r[n + 1] = x /\ \A k \in 1..n : r[k] = q[k]
  BY <1>1, <1>2, AppendProperties DEF IsSeq
<1>4. \A k \in 1..n : q[k] \in Seq(S)
  BY <1>1, ElementOfSeq DEF IsSeq
<1>5. PICK l \in Nat, m \in Nat : l = Len(a) /\ m = Len(x)
  BY LenProperties
<1>6. Len(a \o x) = l + m /\ \A j \in 1..l + m : (a \o x)[j] = IF j <= l THEN a[j] ELSE x[j - l]
  BY <1>5, ConcatProperties
<1>7. /\ off[0] = 0 /\ off[n] = l
      /\ \A k \in 1..n : /\ off[k] = off[k - 1] + Len(q[k])
                         /\ \A j \in 1..Len(q[k]) : a[off[k - 1] + j] = q[k][j]
  BY <1>1, <1>5 DEF Places
<1> DEFINE new == [k \in 0..n + 1 |-> IF k <= n THEN off[k] ELSE l + m]
<1>8. new \in [0..n + 1 -> Nat] /\ new[n + 1] = l + m /\ \A k \in 0..n : new[k] = off[k]
  BY <1>1
<1> HIDE DEF new
<1>9. \A k \in 0..n : off[k] <= l
  <2> DEFINE len == [k \in 1..n |-> Len(q[k])]
  <2>1. len \in [1..n -> Nat] /\ \A k \in 1..n : len[k] = Len(q[k])
    BY <1>4, LenProperties
  <2> HIDE DEF len
  <2>2. off \in [0..n -> Nat] /\ \A k \in 1..n : off[k] = off[k - 1] + len[k]
    BY <1>1, <1>7, <2>1
  <2> QED
    BY <1>7, <2>1, <2>2, SumsGrow
<1>10. ASSUME NEW k \in 1..n + 1
       PROVE  /\ new[k] = new[k - 1] + Len(r[k])
              /\ \A j \in 1..Len(r[k]) : (a \o x)[new[k - 1] + j] = r[k][j]
  <2>1. CASE k = n + 1
    <3>1. r[k] = x /\ new[k] = l + m /\ new[k - 1] = l
      BY <1>3, <1>7, <1>8, <2>1
    <3>2. ASSUME NEW j \in 1..m PROVE (a \o x)[l + j] = x[j]
      <4>1. l + j \in 1..l + m /\ ~(l + j <= l) /\ (l + j) - l = j
        OBVIOUS
      <4> QED
        BY <1>6, <4>1
    <3> QED
      BY <1>5, <3>1, <3>2
  <2>2. CASE k # n + 1
    <3>1. k \in 1..n /\ k \in 0..n /\ k - 1 \in 0..n
      BY <2>2
    <3>2. r[k] = q[k] /\ new[k] = off[k] /\ new[k - 1] = off[k - 1] /\ off[k] = off[k - 1] + Len(q[k])
      BY <1>3, <1>7, <1>8, <3>1
    <3>3. PICK o \in Nat, e \in Nat : o = off[k - 1] /\ e = Len(q[k])
      BY <1>1, <1>4, <3>1, LenProperties
    <3>4. o + e <= l
      BY <1>9, <3>1, <3>2, <3>3
    <3>5. ASSUME NEW j \in 1..e PROVE (a \o x)[o + j] = q[k][j]
      <4>1. o + j \in 1..l + m /\ o + j <= l
        BY <3>3, <3>4
      <4>2. a[o + j] = q[k][j]
        BY <1>7, <3>1, <3>3
      <4> QED
        BY <1>6, <4>1, <4>2
    <3> QED
      BY <3>2, <3>3, <3>5
  <2> QED
    BY <2>1, <2>2
<1>11. new[0] = 0
  BY <1>7, <1>8
<1>12. Places(new, r, a \o x)
  BY <1>3, <1>6, <1>8, <1>10, <1>11 DEF Places
<1> QED
  BY <1>2, <1>3, <1>8, <1>12

Placeable(r) == \E off \in [0..Len(r) -> Nat] : Places(off, r, FlattenSeq(r))

LEMMA FlattenPlaces ==
  ASSUME NEW S, NEW ss, IsSeq(ss, Seq(S))
  PROVE  Placeable(ss)
<1> DEFINE P == {r \in Seq(Seq(S)) : Placeable(r)}
<1>1. <<>> \in P
  <2>1. FlattenSeq(<<>>) = <<>> /\ Len(<<>>) = 0 /\ <<>> \in Seq(Seq(S))
    BY EmptySeq, FlattenEmpty
  <2> DEFINE off == [k \in 0..0 |-> 0]
  <2>2. off \in [0..0 -> Nat] /\ off[0] = 0
    OBVIOUS
  <2> HIDE DEF off
  <2>3. Places(off, <<>>, <<>>)
    BY <2>1, <2>2 DEF Places
  <2> QED
    BY <2>1, <2>2, <2>3 DEF Placeable
<1>2. ASSUME NEW q, IsSeq(q, Seq(S)), NEW x \in Seq(S), Placeable(q)
      PROVE  Placeable(Append(q, x)) /\ Append(q, x) \in Seq(Seq(S))
  <2>1. PICK a \in Seq(S) : a = FlattenSeq(q)
    BY <1>2, FlattenType DEF IsSeq
  <2>2. FlattenSeq(Append(q, x)) = a \o x
    BY <1>2, <2>1, FlattenAppend DEF IsSeq
  <2>3. PICK off \in [0..Len(q) -> Nat] : Places(off, q, a)
    BY <1>2, <2>1 DEF Placeable
  <2>4. \E new \in [0..Len(Append(q, x)) -> Nat] : Places(new, Append(q, x), a \o x)
    BY <1>2, <2>1, <2>3, PlacesAppend
  <2>5. Append(q, x) \in Seq(Seq(S))
    BY <1>2, AppendProperties, Zenon DEF IsSeq
  <2> QED
    BY <2>2, <2>4, <2>5 DEF Placeable
<1>3. \A q, x : IsSeq(q, Seq(S)) /\ x \in Seq(S) /\ q \in P => Append(q, x) \in P
  BY <1>2, Zenon
<1>4. ss \in P
  <2> HIDE DEF P
  <2> QED
    BY <1>1, <1>3, SeqsInduction, Zenon
<1> QED
  BY <1>4

-----------------------------------------------------------------------------
(* Induction and recursion by a rank, such as the height in a tree.        *)

IsRank(r, D, N) == r \in [D -> 0..N]

(* P holds of whatever has none of lower rank without P. *)
RisesAlong(P, r, D) == \A i \in D : (\A j \in D : r[j] < r[i] => j \in P) => i \in P

LEMMA RankInduction ==
  ASSUME NEW D, NEW N \in Nat, NEW r, IsRank(r, D, N), NEW P, RisesAlong(P, r, D)
  PROVE  D \subseteq P
<1> USE DEF IsRank, RisesAlong
<1> DEFINE K == {k \in Nat : \A i \in D : r[i] < k => i \in P}
<1>1. \A i \in D : r[i] \in Nat /\ r[i] <= N
  OBVIOUS
<1>2. 0 \in K
  BY <1>1
<1>3. ASSUME NEW k \in Nat, k \in K PROVE k + 1 \in K
  <2> SUFFICES ASSUME NEW i \in D, r[i] < k + 1 PROVE i \in P
    OBVIOUS
  <2>1. \A j \in D : r[j] < r[i] => r[j] < k
    BY <1>1
  <2> QED
    BY <1>3, <2>1
<1>4. Nat \subseteq K
  <2> HIDE DEF K
  <2> QED
    BY <1>2, <1>3, SetInduction
<1>5. N + 1 \in K
  BY <1>4
<1> QED
  BY <1>1, <1>5

(* What f gives i depends on what it gives those of lower rank.            *)
ByRank(G, D, T, r) ==
    \A f, g \in [D -> T], i \in D :
        (\A j \in D : r[j] < r[i] => f[j] = g[j]) => G[f][i] = G[g][i]

HasFixedPoint(G, D, T) == \E f \in [D -> T] : G[f] = f

LEMMA RankRecursion ==
  ASSUME NEW D, NEW N \in Nat, NEW r, IsRank(r, D, N), NEW T, NEW a \in T,
         NEW G, Maps(G, [D -> T], [D -> T]), ByRank(G, D, T, r)
  PROVE  HasFixedPoint(G, D, T)
<1> USE DEF IsRank, Maps, HasFixedPoint
<1> DEFINE F == [D -> T]
           step == [k \in Nat |-> G]
           b == [i \in D |-> a]
<1>1. b \in F /\ step \in [Nat -> [F -> F]] /\ N + 2 \in Nat
  OBVIOUS
<1> HIDE DEF b, step
<1>2. PICK h \in [0..N + 2 -> F] : Recursion(h, b, step, N + 2)
  <2> HIDE DEF F
  <2> QED
    BY <1>1, RecursionExists
<1>3. \A k \in 1..N + 2 : h[k] = G[h[k - 1]]
  BY <1>2 DEF Recursion, step
<1>4. \A k \in 0..N + 2 : h[k] \in F
  BY <1>2
<1> HIDE DEF F
<1> DEFINE K == {k \in Nat : k <= N + 1 => \A i \in D : r[i] < k => h[k + 1][i] = h[k][i]}
<1>5. \A i \in D : r[i] \in Nat /\ r[i] <= N
  OBVIOUS
<1>6. 0 \in K
  BY <1>5
<1>7. ASSUME NEW k \in Nat, k \in K PROVE k + 1 \in K
  <2> SUFFICES ASSUME k + 1 <= N + 1, NEW i \in D, r[i] < k + 1
               PROVE  h[(k + 1) + 1][i] = h[k + 1][i]
    OBVIOUS
  <2>1. /\ k \in 0..N + 2 /\ k + 1 \in 0..N + 2 /\ k + 1 \in 1..N + 2 /\ (k + 1) + 1 \in 1..N + 2
        /\ (k + 1) - 1 = k /\ ((k + 1) + 1) - 1 = k + 1
    OBVIOUS
  <2>2. h[(k + 1) + 1] = G[h[k + 1]] /\ h[k + 1] = G[h[k]]
    BY <1>3, <2>1
  <2>3. \A j \in D : r[j] < r[i] => r[j] < k
    BY <1>5
  <2>4. \A j \in D : r[j] < r[i] => h[k + 1][j] = h[k][j]
    BY <1>7, <2>3
  <2>5. h[k + 1] \in [D -> T] /\ h[k] \in [D -> T]
    BY <1>4, <2>1 DEF F
  <2>6. G[h[k + 1]][i] = G[h[k]][i]
    BY <2>4, <2>5 DEF ByRank
  <2> QED
    BY <2>2, <2>6
<1>8. Nat \subseteq K
  <2> HIDE DEF K
  <2> QED
    BY <1>6, <1>7, SetInduction
<1>9. N + 1 \in K
  BY <1>8
<1>10. \A i \in D : h[(N + 1) + 1][i] = h[N + 1][i]
  <2>1. \A i \in D : r[i] < N + 1
    BY <1>5
  <2> QED
    BY <1>9, <2>1
<1>11. h[(N + 1) + 1] \in [D -> T] /\ h[N + 1] \in [D -> T] /\ h[(N + 1) + 1] = G[h[N + 1]]
  <2>1. (N + 1) + 1 \in 1..N + 2 /\ (N + 1) + 1 \in 0..N + 2 /\ N + 1 \in 0..N + 2
        /\ ((N + 1) + 1) - 1 = N + 1
    OBVIOUS
  <2> QED
    BY <1>3, <1>4, <2>1 DEF F
<1>12. h[(N + 1) + 1] = h[N + 1]
  BY <1>10, <1>11
<1> QED
  BY <1>11, <1>12

(* Flattening twice, from the outside or from the inside. *)
Flattened(ss) == [k \in 1..Len(ss) |-> FlattenSeq(ss[k])]

LEMMA FlattenTwice ==
  ASSUME NEW S, NEW ss, IsSeq(ss, Seq(Seq(S)))
  PROVE  FlattenSeq(FlattenSeq(ss)) = FlattenSeq(Flattened(ss))
<1> DEFINE g == [x \in Seq(S) |-> x]
<1>1. Maps(g, Seq(S), Seq(S))
  BY DEF Maps
<1>2. \A x \in Seq(S) : g[x] = x
  OBVIOUS
<1> HIDE DEF g
<1>3. ASSUME NEW t, IsSeq(t, Seq(S)) PROVE PutTogether(g, t) = FlattenSeq(t)
  <2>1. Mapped(g, t) = t
    <3>1. \A k \in 1..Len(t) : t[k] \in Seq(S)
      BY <1>3, ElementOfSeq DEF IsSeq
    <3>2. \A k \in 1..Len(t) : g[t[k]] = t[k]
      BY <1>2, <3>1
    <3>3. t = [k \in 1..Len(t) |-> t[k]]
      BY <1>3, LenProperties DEF IsSeq
    <3> QED
      BY <3>2, <3>3, Zenon DEF Mapped
  <2> QED
    BY <2>1 DEF PutTogether
<1>4. IsSeq(FlattenSeq(ss), Seq(S))
  BY FlattenType DEF IsSeq
<1>5. PutTogether(g, FlattenSeq(ss)) = FlattenSeq(Parts(g, ss))
  BY <1>1, TogetherFlatten
<1>6. Parts(g, ss) = Flattened(ss)
  <2>1. \A k \in 1..Len(ss) : IsSeq(ss[k], Seq(S))
    BY ElementOfSeq DEF IsSeq
  <2>2. \A k \in 1..Len(ss) : PutTogether(g, ss[k]) = FlattenSeq(ss[k])
    BY <1>3, <2>1
  <2> QED
    BY <2>2, Zenon DEF Parts, Flattened
<1> QED
  BY <1>3, <1>4, <1>5, <1>6

(* What is cut out of a sequence: b from position a on. *)
CutOf(x, s, a, b, S) == IsSeq(x, S) /\ Len(x) = b /\ \A j \in 1..b : x[j] = s[a + j]

LEMMA CutParts ==
  ASSUME NEW S, NEW s, IsSeq(s, S), NEW a \in Nat, NEW b \in Nat, a + b <= Len(s)
  PROVE  CutOf(SubSeq(s, a + 1, a + b), s, a, b, S)
<1>1. Len(s) \in Nat /\ \A j \in 1..Len(s) : s[j] \in S
  BY LenProperties, ElementOfSeq DEF IsSeq
<1>2. \A j \in a + 1..a + b : s[j] \in S
  BY <1>1
<1>3. PICK x : x = SubSeq(s, a + 1, a + b)
  OBVIOUS
<1>4. PICK p \in Int, q \in Int : p = a + 1 /\ q = a + b
  OBVIOUS
<1>5. /\ x \in Seq(S)
      /\ Len(x) = IF p <= q THEN q - p + 1 ELSE 0
      /\ \A j \in 1..q - p + 1 : x[j] = s[p + j - 1]
  BY <1>2, <1>3, <1>4, SubSeqProperties
<1>6. Len(x) = b
  BY <1>4, <1>5
<1>7. ASSUME NEW j \in 1..b PROVE x[j] = s[a + j]
  <2>1. j \in 1..q - p + 1 /\ p + j - 1 = a + j
    BY <1>4
  <2> QED
    BY <1>5, <2>1
<1> QED
  BY <1>3, <1>5, <1>6, <1>7 DEF CutOf, IsSeq

LEMMA CutIs ==
  ASSUME NEW S, NEW x, NEW s, NEW a, NEW b, CutOf(x, s, a, b, S),
         NEW y, CutOf(y, s, a, b, S)
  PROVE  x = y
<1>1. \A j \in 1..Len(x) : x[j] = y[j]
  BY DEF CutOf
<1> QED
  BY <1>1, SeqEqual DEF CutOf, IsSeq

LEMMA WiderSeq ==
  ASSUME NEW S, NEW T, S \subseteq T, NEW s, IsSeq(s, S)
  PROVE  IsSeq(s, T)
<1>1. Len(s) \in Nat /\ s \in [1..Len(s) -> S]
  BY LenProperties DEF IsSeq
<1>2. s \in [1..Len(s) -> T]
  BY <1>1
<1> QED
  BY <1>1, <1>2, FunctionIsSeq DEF IsSeq

(* q is r with an element put before it. *)
Led(q, r) == \A j \in 1..Len(r) : q[j + 1] = r[j]

LEMMA PutFirst ==
  ASSUME NEW T, NEW m \in Nat, NEW q, IsSeq(q, T), Len(q) = m + 1,
         NEW r, IsSeq(r, T), Len(r) = m, Led(q, r)
  PROVE  <<q[1]>> \o r = q
<1>1. PICK n \in Nat : n = 1
  OBVIOUS
<1>2. PICK a : a = <<q[1]>>
  OBVIOUS
<1>3. q[1] \in T
  BY <1>1, ElementOfSeq DEF IsSeq
<1>4. IsSeq(a, T) /\ Len(a) = n /\ a[1] = q[1]
  BY <1>1, <1>2, <1>3 DEF IsSeq
<1>5. PICK z : z = a \o r
  OBVIOUS
<1>6. \A j \in 1..n + m : z[j] = IF j <= n THEN a[j] ELSE r[j - n]
  BY <1>4, <1>5, ConcatAt
<1>7. IsSeq(z, T) /\ Len(z) = Len(a) + Len(r)
  BY <1>4, <1>5, ConcatIs
<1>8. ASSUME NEW j \in 1..m + 1 PROVE z[j] = q[j]
  <2>1. CASE j = 1
    BY <1>1, <1>4, <1>6, <2>1
  <2>2. CASE j # 1
    <3>1. j - 1 \in 1..m /\ (j - 1) + 1 = j /\ j \in 1..n + m /\ ~(j <= n)
      BY <1>1, <2>2
    <3>2. z[j] = r[j - n] /\ q[(j - 1) + 1] = r[j - 1]
      BY <1>6, <3>1 DEF Led
    <3> QED
      BY <1>1, <3>1, <3>2
  <2> QED
    BY <2>1, <2>2
<1>9. Len(z) = m + 1
  BY <1>1, <1>4, <1>7
<1>10. z = q
  BY <1>7, <1>8, <1>9, SeqEqual DEF IsSeq
<1> QED
  BY <1>2, <1>5, <1>10
=============================================================================
