--------------------------- MODULE KamiListProofs ---------------------------
(***************************************************************************)
(* The pointers of KamiList are a sequence, and every call changes it as   *)
(* NodeList says, for every set of nodes.                                  *)
(***************************************************************************)
EXTENDS KamiList, ListLemmas

-----------------------------------------------------------------------------

(* Chain, of given pointers.  Seen is its sequence's nodes. *)
Seen(s, z) == {s[k] : k \in 1..z}

Linked(s, z, h, t, nx, pv) ==
    /\ \A i, j \in 1..z : s[i] = s[j] => i = j
    /\ h = IF z = 0 THEN NULL ELSE s[1]
    /\ t = IF z = 0 THEN NULL ELSE s[z]
    /\ \A k \in 1..z :
          /\ nx[s[k]] = IF k = z THEN NULL ELSE s[k + 1]
          /\ pv[s[k]] = IF k = 1 THEN NULL ELSE s[k - 1]

(* What the iterator still has to return lies ahead of it. *)
Ahead(s, z, i, f, d) ==
    /\ d \subseteq Seen(s, z)
    /\ i = NULL => d = {}
    /\ i # NULL => \E p \in 1..z :
          /\ s[p] = i
          /\ \A k \in 1..z : s[k] \in d => IF f THEN k >= p ELSE k <= p

With(s, z, k, e) ==
    [j \in 1..z + 1 |-> IF j < k THEN s[j] ELSE IF j = k THEN e ELSE s[j - 1]]

Without(s, z, k) == [j \in 1..z - 1 |-> IF j < k THEN s[j] ELSE s[j + 1]]

(* A node linked in at place k makes the longer sequence. *)
LEMMA WithLinked ==
  ASSUME NEW z \in Nat, NEW s \in [1..z -> Node], NEW k \in 1..z + 1,
         NEW e \in Node, e \notin Seen(s, z),
         NEW h, NEW t, NEW nx, NEW pv, Linked(s, z, h, t, nx, pv),
         NEW h2, NEW t2, NEW nx2, NEW pv2,
         h2 = IF k = 1 THEN e ELSE h,
         t2 = IF k = z + 1 THEN e ELSE t,
         \A n \in Node : nx2[n] = IF n = e THEN IF k = z + 1 THEN NULL ELSE s[k]
                                  ELSE IF k > 1 /\ n = s[k - 1] THEN e ELSE nx[n],
         \A n \in Node : pv2[n] = IF n = e THEN IF k = 1 THEN NULL ELSE s[k - 1]
                                  ELSE IF k < z + 1 /\ n = s[k] THEN e ELSE pv[n]
  PROVE  /\ With(s, z, k, e) \in [1..z + 1 -> Node]
         /\ Linked(With(s, z, k, e), z + 1, h2, t2, nx2, pv2)
         /\ Seen(With(s, z, k, e), z + 1) = Seen(s, z) \cup {e}
<1> DEFINE r == With(s, z, k, e)
<1>1. r \in [1..z + 1 -> Node]
  BY DEF With
<1>2. \A j \in 1..z + 1 : r[j] = IF j < k THEN s[j] ELSE IF j = k THEN e ELSE s[j - 1]
  BY DEF With
<1>3. \A j \in 1..z : s[j] # e /\ s[j] \in Node
  BY DEF Seen
<1> HIDE DEF r
<1>4. \A i, j \in 1..z + 1 : r[i] = r[j] => i = j
  BY <1>2, <1>3 DEF Linked
<1>5. /\ h2 = IF z + 1 = 0 THEN NULL ELSE r[1]
      /\ t2 = IF z + 1 = 0 THEN NULL ELSE r[z + 1]
  BY <1>2 DEF Linked
<1>6. ASSUME NEW m \in 1..z
      PROVE  /\ nx2[s[m]] = IF m = k - 1 THEN e ELSE IF m = z THEN NULL ELSE s[m + 1]
             /\ pv2[s[m]] = IF m = k THEN e ELSE IF m = 1 THEN NULL ELSE s[m - 1]
  <2>1. k > 1 => (s[m] = s[k - 1] <=> m = k - 1)
    BY DEF Linked
  <2>2. k < z + 1 => (s[m] = s[k] <=> m = k)
    BY DEF Linked
  <2> QED BY <2>1, <2>2, <1>3 DEF Linked
<1>9. ASSUME NEW j \in 1..z + 1
      PROVE  /\ nx2[r[j]] = IF j = z + 1 THEN NULL ELSE r[j + 1]
             /\ pv2[r[j]] = IF j = 1 THEN NULL ELSE r[j - 1]
  <2>1. CASE j < k
    BY SMTT(20), <2>1, <1>2, <1>6
  <2>2. CASE j = k
    BY <2>2, <1>2, <1>3
  <2>3. CASE j > k
    <3>1. j - 1 \in 1..z /\ r[j] = s[j - 1]
      BY <2>3, <1>2
    <3> QED BY <3>1, <2>3, <1>2, <1>6
  <2> QED BY <2>1, <2>2, <2>3
<1>7. Linked(r, z + 1, h2, t2, nx2, pv2)
  BY <1>4, <1>5, <1>9 DEF Linked
<1>8. Seen(r, z + 1) = Seen(s, z) \cup {e}
  <2>1. \A j \in 1..z : \E i \in 1..z + 1 : r[i] = s[j]
    <3> TAKE j \in 1..z
    <3>1. CASE j < k
      BY <3>1, <1>2
    <3>2. CASE j >= k
      <4>1. r[j + 1] = s[j]
        BY <3>2, <1>2
      <4> QED BY <4>1
    <3> QED BY <3>1, <3>2
  <2>2. r[k] = e
    BY <1>2
  <2>3. \A i \in 1..z + 1 : r[i] = e \/ \E j \in 1..z : r[i] = s[j]
    BY <1>2
  <2> QED BY <2>1, <2>2, <2>3 DEF Seen
<1> QED BY <1>1, <1>7, <1>8 DEF r

(* A node unlinked at place k leaves the shorter sequence. *)
LEMMA WithoutLinked ==
  ASSUME NEW z \in Nat, NEW s \in [1..z -> Node], NEW k \in 1..z,
         NEW h, NEW t, NEW nx, NEW pv, Linked(s, z, h, t, nx, pv),
         NEW h2, NEW t2, NEW nx2, NEW pv2,
         h2 = IF k = 1 THEN IF z = 1 THEN NULL ELSE s[2] ELSE h,
         t2 = IF k = z THEN IF z = 1 THEN NULL ELSE s[z - 1] ELSE t,
         \A n \in Node \ {s[k]} :
             nx2[n] = IF k > 1 /\ n = s[k - 1] THEN IF k = z THEN NULL ELSE s[k + 1]
                      ELSE nx[n],
         \A n \in Node \ {s[k]} :
             pv2[n] = IF k < z /\ n = s[k + 1] THEN IF k = 1 THEN NULL ELSE s[k - 1]
                      ELSE pv[n]
  PROVE  /\ Without(s, z, k) \in [1..z - 1 -> Node]
         /\ Linked(Without(s, z, k), z - 1, h2, t2, nx2, pv2)
         /\ Seen(Without(s, z, k), z - 1) = Seen(s, z) \ {s[k]}
<1> DEFINE r == Without(s, z, k)
<1>1. r \in [1..z - 1 -> Node]
  BY DEF Without
<1>2. \A j \in 1..z - 1 : r[j] = IF j < k THEN s[j] ELSE s[j + 1]
  BY DEF Without
<1>3. \A j \in 1..z - 1 : r[j] # s[k] /\ r[j] \in Node
  BY <1>2 DEF Linked
<1> HIDE DEF r
<1>4. \A i, j \in 1..z - 1 : r[i] = r[j] => i = j
  BY SMTT(20), <1>2 DEF Linked
<1>5. /\ h2 = IF z - 1 = 0 THEN NULL ELSE r[1]
      /\ t2 = IF z - 1 = 0 THEN NULL ELSE r[z - 1]
  BY <1>2 DEF Linked
<1>6. ASSUME NEW m \in 1..z, m # k
      PROVE  /\ nx2[s[m]] = IF m = k - 1 THEN IF k = z THEN NULL ELSE s[k + 1]
                            ELSE IF m = z THEN NULL ELSE s[m + 1]
             /\ pv2[s[m]] = IF m = k + 1 THEN IF k = 1 THEN NULL ELSE s[k - 1]
                            ELSE IF m = 1 THEN NULL ELSE s[m - 1]
  <2>1. s[m] \in Node \ {s[k]}
    BY <1>6 DEF Linked
  <2>2. k > 1 => (s[m] = s[k - 1] <=> m = k - 1)
    BY DEF Linked
  <2>3. k < z => (s[m] = s[k + 1] <=> m = k + 1)
    BY DEF Linked
  <2> QED BY <2>1, <2>2, <2>3, <1>6 DEF Linked
<1>9. ASSUME NEW j \in 1..z - 1
      PROVE  /\ nx2[r[j]] = IF j = z - 1 THEN NULL ELSE r[j + 1]
             /\ pv2[r[j]] = IF j = 1 THEN NULL ELSE r[j - 1]
  <2>1. CASE j < k
    BY <2>1, <1>2, <1>6
  <2>2. CASE j >= k
    <3>1. j + 1 \in 1..z /\ j + 1 # k /\ r[j] = s[j + 1]
      BY <2>2, <1>2
    <3> QED BY <3>1, <2>2, <1>2, <1>6
  <2> QED BY <2>1, <2>2
<1>7. Linked(r, z - 1, h2, t2, nx2, pv2)
  BY <1>4, <1>5, <1>9 DEF Linked
<1>8. Seen(r, z - 1) = Seen(s, z) \ {s[k]}
  <2>1. ASSUME NEW j \in 1..z, j # k
        PROVE  \E i \in 1..z - 1 : r[i] = s[j]
    <3>1. CASE j < k
      BY <3>1, <1>2
    <3>2. CASE j > k
      <4>1. j - 1 \in 1..z - 1 /\ r[j - 1] = s[j]
        BY <3>2, <1>2
      <4> QED BY <4>1
    <3> QED BY <2>1, <3>1, <3>2
  <2>2. \A i \in 1..z - 1 : r[i] # s[k] /\ \E j \in 1..z : r[i] = s[j]
    BY <1>2, <1>3
  <2> QED BY <2>1, <2>2 DEF Seen
<1> QED BY <1>1, <1>7, <1>8 DEF r

(* What lies ahead of the iterator still does when a node is added ... *)
LEMMA AheadWith ==
  ASSUME NEW z \in Nat, NEW s \in [1..z -> Node], NEW k \in 1..z + 1,
         NEW e \in Node, e \notin Seen(s, z),
         NEW i, NEW f \in BOOLEAN, NEW d, Ahead(s, z, i, f, d)
  PROVE  Ahead(With(s, z, k, e), z + 1, i, f, d)
<1> DEFINE r == With(s, z, k, e)
<1>1. \A j \in 1..z + 1 : r[j] = IF j < k THEN s[j] ELSE IF j = k THEN e ELSE s[j - 1]
  BY DEF With
<1> HIDE DEF r
<1>2. ASSUME NEW j \in 1..z
      PROVE  LET m == IF j < k THEN j ELSE j + 1 IN m \in 1..z + 1 /\ r[m] = s[j]
  BY <1>1
<1>3. d \subseteq Seen(r, z + 1)
  BY <1>2 DEF Ahead, Seen
<1>4. ASSUME i # NULL
      PROVE  \E p \in 1..z + 1 :
                 /\ r[p] = i
                 /\ \A m \in 1..z + 1 : r[m] \in d => IF f THEN m >= p ELSE m <= p
  <2>1. PICK p \in 1..z :
            /\ s[p] = i
            /\ \A m \in 1..z : s[m] \in d => IF f THEN m >= p ELSE m <= p
    BY <1>4 DEF Ahead
  <2> DEFINE q == IF p < k THEN p ELSE p + 1
  <2>2. q \in 1..z + 1 /\ r[q] = i
    BY <1>2, <2>1
  <2>3. ASSUME NEW m \in 1..z + 1, r[m] \in d
        PROVE  IF f THEN m >= q ELSE m <= q
    <3>1. e \notin d
      BY DEF Ahead
    <3>2. m # k
      BY <1>1, <2>3, <3>1
    <3>3. CASE m < k
      BY <3>3, <1>1, <2>1, <2>3
    <3>4. CASE m > k
      <4>1. m - 1 \in 1..z /\ s[m - 1] \in d
        BY <3>4, <1>1, <2>3
      <4> QED BY <4>1, <3>4, <2>1
    <3> QED BY <3>2, <3>3, <3>4
  <2> QED BY <2>2, <2>3
<1>5. i = NULL => d = {}
  BY DEF Ahead
<1>6. Ahead(r, z + 1, i, f, d)
  BY <1>3, <1>4, <1>5 DEF Ahead
<1> QED BY <1>6 DEF r

(* ... and when one that the iterator is not at is deleted. *)
LEMMA AheadWithout ==
  ASSUME NEW z \in Nat, NEW s \in [1..z -> Node], NEW k \in 1..z,
         NEW i, NEW f \in BOOLEAN, NEW d, Ahead(s, z, i, f, d), s[k] # i
  PROVE  Ahead(Without(s, z, k), z - 1, i, f, d \ {s[k]})
<1> DEFINE r == Without(s, z, k)
<1>1. \A j \in 1..z - 1 : r[j] = IF j < k THEN s[j] ELSE s[j + 1]
  BY DEF Without
<1> HIDE DEF r
<1>2. ASSUME NEW j \in 1..z, j # k
      PROVE  LET m == IF j < k THEN j ELSE j - 1 IN m \in 1..z - 1 /\ r[m] = s[j]
  BY <1>1, <1>2
<1>3. d \ {s[k]} \subseteq Seen(r, z - 1)
  BY <1>2 DEF Ahead, Seen
<1>4. ASSUME i # NULL
      PROVE  \E p \in 1..z - 1 :
                 /\ r[p] = i
                 /\ \A m \in 1..z - 1 : r[m] \in d \ {s[k]} => IF f THEN m >= p ELSE m <= p
  <2>1. PICK p \in 1..z :
            /\ s[p] = i
            /\ \A m \in 1..z : s[m] \in d => IF f THEN m >= p ELSE m <= p
    BY <1>4 DEF Ahead
  <2> DEFINE q == IF p < k THEN p ELSE p - 1
  <2>2. p # k /\ q \in 1..z - 1 /\ r[q] = i
    BY <1>2, <2>1
  <2>3. ASSUME NEW m \in 1..z - 1, r[m] \in d
        PROVE  IF f THEN m >= q ELSE m <= q
    <3>1. CASE m < k
      BY <3>1, <1>1, <2>1, <2>2, <2>3
    <3>2. CASE m >= k
      <4>1. m + 1 \in 1..z /\ s[m + 1] \in d
        BY <3>2, <1>1, <2>3
      <4> QED BY <4>1, <3>2, <2>1, <2>2
    <3> QED BY <3>1, <3>2
  <2> QED BY <2>2, <2>3
<1>5. i = NULL => d \ {s[k]} = {}
  BY DEF Ahead
<1>6. Ahead(r, z - 1, i, f, d \ {s[k]})
  BY <1>3, <1>4, <1>5 DEF Ahead
<1> QED BY <1>6 DEF r

LEMMA Joined ==
  ASSUME NEW S, NEW a \in Seq(S), NEW b \in Seq(S)
  PROVE  /\ a \o b \in Seq(S)
         /\ a \o b = [j \in 1..Len(a) + Len(b) |-> IF j <= Len(a) THEN a[j] ELSE b[j - Len(a)]]
<1> DEFINE c == a \o b
<1>1. c \in Seq(S) /\ Len(c) = Len(a) + Len(b)
  BY ConcatProperties
<1>2. \A j \in 1..Len(a) + Len(b) : c[j] = IF j <= Len(a) THEN a[j] ELSE b[j - Len(a)]
  BY ConcatProperties
<1> HIDE DEF c
<1>3. c = [j \in 1..Len(a) + Len(b) |-> c[j]]
  BY <1>1
<1>4. c = [j \in 1..Len(a) + Len(b) |-> IF j <= Len(a) THEN a[j] ELSE b[j - Len(a)]]
  BY <1>2, <1>3
<1> QED BY <1>1, <1>4 DEF c

(* With and Without are what the abstract list does. *)
LEMMA WithIsInsertion ==
  ASSUME NEW z \in Nat, NEW s \in [1..z -> Node], NEW k \in 1..z + 1, NEW e \in Node
  PROVE  Nodes!InsertAt(s, k, e) = With(s, z, k, e)
<1>1. s \in Seq(Node) /\ Len(s) = z
  OBVIOUS
<1> DEFINE a == SubSeq(s, 1, k - 1)
           b == SubSeq(s, k, Len(s))
<1>2. a \in Seq(Node) /\ Len(a) = k - 1 /\ \A j \in 1..k - 1 : a[j] = s[j]
  BY <1>1
<1>3. b \in Seq(Node) /\ Len(b) = z - k + 1 /\ \A j \in 1..z - k + 1 : b[j] = s[k + j - 1]
  BY <1>1
<1>4. Nodes!InsertAt(s, k, e) = a \o <<e>> \o b
  BY DEF Nodes!InsertAt
<1> HIDE DEF a, b
<1>5. <<e>> \in Seq(Node) /\ Len(<<e>>) = 1 /\ <<e>>[1] = e
  OBVIOUS
<1> DEFINE m == a \o <<e>>
<1>6. m \in Seq(Node) /\ Len(m) = k /\ \A j \in 1..k : m[j] = IF j = k THEN e ELSE s[j]
  <2>1. m = [j \in 1..Len(a) + Len(<<e>>) |-> IF j <= Len(a) THEN a[j] ELSE <<e>>[j - Len(a)]]
    BY <1>2, <1>5, Joined
  <2>2. m \in Seq(Node)
    BY <1>2, <1>5, Joined
  <2> HIDE DEF m
  <2> QED BY <2>1, <2>2, <1>2, <1>5
<1> HIDE DEF m
<1>7. m \o b = [j \in 1..Len(m) + Len(b) |-> IF j <= Len(m) THEN m[j] ELSE b[j - Len(m)]]
  BY <1>3, <1>6, Joined
<1>8. \A j \in 1..z + 1 : (IF j <= Len(m) THEN m[j] ELSE b[j - Len(m)])
                          = IF j < k THEN s[j] ELSE IF j = k THEN e ELSE s[j - 1]
  BY <1>3, <1>6
<1>9. Len(m) + Len(b) = z + 1
  BY <1>3, <1>6
<1> QED BY <1>4, <1>7, <1>8, <1>9 DEF With, m

LEMMA WithoutIsRemoval ==
  ASSUME NEW z \in Nat, NEW s \in [1..z -> Node], NEW k \in 1..z
  PROVE  Nodes!RemoveAt(s, k) = Without(s, z, k)
<1>1. s \in Seq(Node) /\ Len(s) = z
  OBVIOUS
<1> DEFINE a == SubSeq(s, 1, k - 1)
           b == SubSeq(s, k + 1, Len(s))
<1>2. a \in Seq(Node) /\ Len(a) = k - 1 /\ \A j \in 1..k - 1 : a[j] = s[j]
  BY <1>1
<1>3. b \in Seq(Node) /\ Len(b) = z - k /\ \A j \in 1..z - k : b[j] = s[k + j]
  BY <1>1
<1>4. Nodes!RemoveAt(s, k) = a \o b
  BY DEF Nodes!RemoveAt
<1> HIDE DEF a, b
<1>5. a \o b = [j \in 1..Len(a) + Len(b) |-> IF j <= Len(a) THEN a[j] ELSE b[j - Len(a)]]
  BY <1>2, <1>3, Joined
<1>6. \A j \in 1..z - 1 : (IF j <= Len(a) THEN a[j] ELSE b[j - Len(a)])
                          = IF j < k THEN s[j] ELSE s[j + 1]
  BY <1>2, <1>3
<1>7. Len(a) + Len(b) = z - 1
  BY <1>2, <1>3
<1> QED BY <1>4, <1>5, <1>6, <1>7 DEF Without

(* The pointers are one sequence only. *)
LEMMA OneSequence ==
  ASSUME NEW z \in Nat, NEW s \in [1..z -> Node], NEW r \in [1..z -> Node],
         NEW h, NEW t, NEW nx, NEW pv,
         Linked(s, z, h, t, nx, pv), Linked(r, z, h, t, nx, pv)
  PROVE  s = r
<1> DEFINE S == {n \in Nat : n + 1 <= z => s[n + 1] = r[n + 1]}
<1>1. 0 \in S
  BY DEF Linked
<1>2. ASSUME NEW n \in Nat, n \in S
      PROVE  n + 1 \in S
  <2>1. CASE n + 2 > z
    BY <2>1
  <2>2. CASE n + 2 <= z
    <3>1. s[n + 1] = r[n + 1] /\ n + 1 \in 1..z /\ n + 1 # z
      BY <1>2, <2>2
    <3>2. nx[s[n + 1]] = s[n + 2] /\ nx[r[n + 1]] = r[n + 2]
      BY <3>1 DEF Linked
    <3> QED BY <3>1, <3>2
  <2> QED BY <2>1, <2>2
<1>3. Nat \subseteq S
  <2> HIDE DEF S
  <2> QED BY <1>1, <1>2, SetInduction
<1>4. \A j \in 1..z : s[j] = r[j]
  <2> TAKE j \in 1..z
  <2>1. j - 1 \in S
    BY <1>3
  <2> QED BY <2>1
<1> QED BY <1>4

-----------------------------------------------------------------------------

(* The pointers are the sequence s, of the nodes that say they are listed  *)
(* as long as the head is one of them, and the iterator is on its way.     *)
Holds(s) ==
    /\ Linked(s, size, head, tail, next, prev)
    /\ Ahead(s, size, iter, forward, due)
    /\ KnowsHead => Listed = Seen(s, size)

IInv == TypeOK /\ \E s \in [1..size -> Node] : Holds(s)

LEMMA ChainIsLinked ==
  ASSUME size \in Nat, NEW s \in [1..size -> Node]
  PROVE  Chain(s) <=> Linked(s, size, head, tail, next, prev)
BY DEF Chain, Linked, IsInjective

LEMMA OrderIsSequence ==
  ASSUME size \in Nat, NEW s \in [1..size -> Node],
         Linked(s, size, head, tail, next, prev)
  PROVE  Order = s
<1>1. \E x \in [1..size -> Node] : Chain(x)
  BY ChainIsLinked
<1>2. Order \in [1..size -> Node] /\ Chain(Order)
  BY <1>1 DEF Order
<1> QED BY <1>2, ChainIsLinked, OneSequence

LEMMA NextOrderIsSequence ==
  ASSUME size' \in Nat, NEW r \in [1..size' -> Node],
         Linked(r, size', head', tail', next', prev')
  PROVE  Order' = r
<1>1. \A x \in [1..size' -> Node] :
          Chain(x)' <=> Linked(x, size', head', tail', next', prev')
  BY DEF Chain, Linked, IsInjective
<1>2. \E x \in [1..size' -> Node] : Chain(x)'
  BY <1>1
<1>3. Order' \in [1..size' -> Node] /\ \E x \in [1..size' -> Node] : x = Order' /\ Chain(x)'
  BY <1>2 DEF Order
<1> QED BY <1>1, <1>3, OneSequence

(* No node is at two places. *)
LEMMA SamePlace ==
  ASSUME TypeOK, NEW s \in [1..size -> Node], Holds(s),
         NEW j \in 1..size, NEW k \in 1..size, Order[k] = s[j]
  PROVE  k = j
<1>1. size \in Nat /\ Linked(s, size, head, tail, next, prev)
  BY DEF TypeOK, Holds
<1>2. Order = s
  BY <1>1, OrderIsSequence
<1>3. s[k] = s[j]
  BY <1>2
<1> QED BY <1>1, <1>3 DEF Linked

(* The node at an index is the one at the place it stands for. *)
LEMMA AtIsListed ==
  ASSUME size \in Nat, NEW s \in [1..size -> Node], Holds(s), NEW i \in -size..size,
         KamiListAt(i) # NULL
  PROVE  Place(i) \in 1..size /\ KamiListAt(i) = s[Place(i)]
<1> DEFINE R(f) == f = [k \in 0..size |->
                     IF k = 0 THEN head
                     ELSE IF f[k - 1] = NULL THEN NULL ELSE next[f[k - 1]]]
           g == [k \in 0..size |-> IF k < size THEN s[k + 1] ELSE NULL]
           tmp == CHOOSE f : R(f)
           steps == IF i < 0 THEN size + i ELSE i
<1>1. \A k \in 1..size : s[k] # NULL
  BY NodeAssumption
<1>2. R(g)
  <2>1. \A k \in 0..size : g[k] = IF k = 0 THEN head
                                   ELSE IF g[k - 1] = NULL THEN NULL ELSE next[g[k - 1]]
    BY <1>1 DEF Holds, Linked
  <2> QED BY <2>1
<1>3. R(tmp)
  BY <1>2
<1>4. \A k \in 0..size : tmp[k] = IF k = 0 THEN head
                                   ELSE IF tmp[k - 1] = NULL THEN NULL ELSE next[tmp[k - 1]]
  <2> HIDE DEF tmp
  <2> QED BY <1>3
<1>5. KamiListAt(i) = tmp[steps] /\ steps \in 0..size /\ i < size
  BY DEF KamiListAt
<1> DEFINE S == {n \in Nat : n < size => tmp[n] = s[n + 1]}
<1> HIDE DEF tmp
<1>6. 0 \in S
  BY <1>4 DEF Holds, Linked
<1>7. ASSUME NEW n \in Nat, n \in S
      PROVE  n + 1 \in S
  <2>1. CASE n + 1 < size
    <3>1. tmp[n] = s[n + 1] /\ n + 1 \in 1..size /\ n + 1 # size
      BY <2>1, <1>7
    <3>2. tmp[n + 1] = next[tmp[n]]
      BY <3>1, <1>1, <1>4
    <3>3. tmp[n + 1] = s[n + 2]
      BY <3>1, <3>2 DEF Holds, Linked
    <3> QED BY <3>3
  <2>2. CASE n + 1 >= size
    BY <2>2
  <2> QED BY <2>1, <2>2
<1>8. Nat \subseteq S
  <2> HIDE DEF S
  <2> QED BY <1>6, <1>7, SetInduction
<1>9. steps < size
  BY <1>5
<1>10. Place(i) = steps + 1 /\ Place(i) \in 1..size
  BY <1>5, <1>9 DEF Place
<1> QED BY <1>5, <1>8, <1>9, <1>10

-----------------------------------------------------------------------------

(* A call that links item in at place k is an insertion.  Each of the four *)
(* ways to add a node is one.                                              *)
LEMMA Added ==
  ASSUME TypeOK, KnowsHead, NEW s \in [1..size -> Node], Holds(s),
         NEW item \in Node, ~list[item], NEW k \in 1..size + 1,
         Enlist(item),
         head' = IF k = 1 THEN item ELSE head,
         tail' = IF k = size + 1 THEN item ELSE tail,
         next' \in [Node -> Pointer],
         \A n \in Node : next'[n] = IF n = item THEN IF k = size + 1 THEN NULL ELSE s[k]
                                    ELSE IF k > 1 /\ n = s[k - 1] THEN item ELSE next[n],
         prev' \in [Node -> Pointer],
         \A n \in Node : prev'[n] = IF n = item THEN IF k = 1 THEN NULL ELSE s[k - 1]
                                    ELSE IF k < size + 1 /\ n = s[k] THEN item ELSE prev[n]
  PROVE  IInv' /\ Nodes!Next /\ Nodes!Insert(item, k)
<1> DEFINE r == With(s, size, k, item)
<1>1. size \in Nat /\ size' = size + 1
  BY DEF TypeOK, Enlist
<1>2. item \notin Seen(s, size)
  BY DEF Holds, Listed, Seen
<1>3. /\ r \in [1..size + 1 -> Node]
      /\ Linked(r, size + 1, head', tail', next', prev')
      /\ Seen(r, size + 1) = Seen(s, size) \cup {item}
  <2>1. Linked(s, size, head, tail, next, prev)
    BY DEF Holds
  <2> QED BY SMTT(20), <1>1, <1>2, <2>1, WithLinked
<1>4. TypeOK'
  <2>1. head' \in Pointer /\ tail' \in Pointer
    BY DEF TypeOK, Pointer
  <2>2. list' \in [Node -> BOOLEAN] /\ iter' \in Pointer /\ forward' \in BOOLEAN /\ due' \subseteq Node
    BY DEF TypeOK, Enlist, iterator
  <2> QED BY <1>1, <2>1, <2>2 DEF TypeOK, Pointer
<1>5. Ahead(r, size', iter', forward', due')
  BY <1>1, <1>2, AheadWith DEF Holds, Enlist, iterator, TypeOK
<1>6. Listed' = Seen(r, size')
  BY <1>3 DEF Listed, Holds, Enlist, TypeOK
<1>7. KnowsHead'
  BY <1>1 DEF KnowsHead, Listed, Enlist, TypeOK, Holds, Linked
<1>8. IInv'
  <2>1. r \in [1..size' -> Node] /\ Linked(r, size', head', tail', next', prev')
    BY <1>1, <1>3
  <2> HIDE DEF r
  <2> QED BY <2>1, <1>4, <1>5, <1>6 DEF IInv, Holds
<1>9. Order = s
  BY <1>1, OrderIsSequence DEF Holds
<1>10. Order' = r
  BY <1>1, <1>3, NextOrderIsSequence
<1>11. item \notin Nodes!Listed
  BY <1>2, <1>9 DEF Nodes!Listed, Nodes!ToSet, Seen
<1>12. Nodes!Insert(item, k)
  <2>1. Order' = Nodes!InsertAt(Order, k, item)
    BY <1>1, <1>9, <1>10, WithIsInsertion
  <2> QED BY <1>7, <1>11, <2>1 DEF Nodes!Insert, Enlist, iterator
<1>13. k \in 1..Len(Order) + 1
  BY <1>1, <1>9
<1> QED BY <1>8, <1>12, <1>13 DEF Nodes!Next

(* A call that unlinks the node at place k is a deletion, or a beheading   *)
(* when the list does not know its new head.                               *)
LEMMA Removed ==
  ASSUME TypeOK, KnowsHead, NEW s \in [1..size -> Node], Holds(s),
         NEW k \in 1..size,
         Discard(s[k]),
         head' = IF k = 1 THEN IF size = 1 THEN NULL ELSE s[2] ELSE head,
         tail' = IF k = size THEN IF size = 1 THEN NULL ELSE s[size - 1] ELSE tail,
         next' \in [Node -> Pointer],
         \A n \in Node \ {s[k]} :
             next'[n] = IF k > 1 /\ n = s[k - 1] THEN IF k = size THEN NULL ELSE s[k + 1]
                        ELSE next[n],
         prev' \in [Node -> Pointer],
         \A n \in Node \ {s[k]} :
             prev'[n] = IF k < size /\ n = s[k + 1] THEN IF k = 1 THEN NULL ELSE s[k - 1]
                        ELSE prev[n],
         list' \in [Node -> BOOLEAN],
         KnowsHead' => Listed' = Listed \ {s[k]},
         KnowsHead' \/ (k = 1 /\ size > 1)
  PROVE  IInv' /\ Nodes!Next /\ (IF KnowsHead' THEN Nodes!Delete(k) ELSE Nodes!Behead)
<1> DEFINE r == Without(s, size, k)
<1>1. size \in Nat /\ size > 0 /\ size' = size - 1 /\ size' \in Nat
  BY DEF TypeOK, Discard
<1>2. /\ r \in [1..size - 1 -> Node]
      /\ Linked(r, size - 1, head', tail', next', prev')
      /\ Seen(r, size - 1) = Seen(s, size) \ {s[k]}
  <2>1. Linked(s, size, head, tail, next, prev)
    BY DEF Holds
  <2> QED BY SMTT(20), <1>1, <2>1, WithoutLinked
<1>3. TypeOK'
  <2>1. head' \in Pointer /\ tail' \in Pointer
    BY <1>1 DEF TypeOK, Pointer
  <2>2. iter' \in Pointer /\ forward' \in BOOLEAN /\ due' \subseteq Node
    BY DEF TypeOK, Discard
  <2> QED BY <1>1, <2>1, <2>2 DEF TypeOK, Pointer
<1>4. Ahead(r, size', iter', forward', due')
  <2>1. Ahead(s, size, iter, forward, due) /\ s[k] # iter /\ forward \in BOOLEAN
    BY DEF Holds, Discard, TypeOK
  <2>3. Ahead(r, size - 1, iter, forward, due \ {s[k]})
    BY <1>1, <2>1, AheadWithout
  <2> QED BY <1>1, <2>3 DEF Discard
<1>5. KnowsHead' => Listed' = Seen(r, size')
  BY <1>1, <1>2 DEF Holds
<1>6. IInv'
  <2>1. r \in [1..size' -> Node] /\ Linked(r, size', head', tail', next', prev')
    BY <1>1, <1>2
  <2> HIDE DEF r
  <2> QED BY <2>1, <1>3, <1>4, <1>5 DEF IInv, Holds
<1>7. Order = s
  BY <1>1, OrderIsSequence DEF Holds
<1>8. Order' = r
  BY <1>1, <1>2, NextOrderIsSequence
<1>9. k \in DOMAIN Order /\ Order[k] # iter /\ Order' = Nodes!RemoveAt(Order, k)
  BY <1>1, <1>7, <1>8, WithoutIsRemoval DEF Discard
<1>10. CASE KnowsHead'
  <2>1. Nodes!Delete(k)
    BY <1>7, <1>9, <1>10 DEF Nodes!Delete, Discard
  <2> QED BY <1>6, <1>9, <1>10, <2>1 DEF Nodes!Next
<1>11. CASE ~KnowsHead'
  <2>1. k = 1 /\ size > 1
    BY <1>11
  <2>2. s \in Seq(Node) /\ Len(s) = size
    BY <1>1
  <2>5. Tail(s) = [j \in 1..size - 1 |-> s[j + 1]]
    <3> DEFINE u == Tail(s)
    <3>1. u \in Seq(Node) /\ Len(u) = size - 1 /\ \A j \in 1..size - 1 : u[j] = s[j + 1]
      BY <2>1, <2>2, HeadTailProperties
    <3> HIDE DEF u
    <3>2. u = [j \in 1..size - 1 |-> u[j]]
      BY <3>1
    <3>3. u = [j \in 1..size - 1 |-> s[j + 1]]
      BY <3>1, <3>2
    <3> QED BY <3>3 DEF u
  <2>6. r = Tail(s) /\ Len(s) > 1
    BY <2>1, <2>2, <2>5 DEF Without
  <2>3. KnowsHead' = FALSE
    BY <1>11 DEF KnowsHead
  <2>4. Nodes!Behead
    BY <2>1, <2>6, <2>3, <1>7, <1>8, <1>9 DEF Nodes!Behead, Discard
  <2> QED BY <1>6, <1>11, <2>4 DEF Nodes!Next
<1> QED BY <1>10, <1>11

(* The iterator's steps leave the sequence alone. *)
LEMMA Started ==
  ASSUME TypeOK, KnowsHead, NEW s \in [1..size -> Node], Holds(s),
         NEW d \in BOOLEAN, KamiListIterInit(d)
  PROVE  IInv' /\ Nodes!Next
<1>1. Order = s /\ Order' = s
  <2>1. Linked(s, size', head', tail', next', prev') /\ size' = size
    BY DEF Holds, KamiListIterInit, ends, links
  <2> QED BY <2>1, OrderIsSequence, NextOrderIsSequence DEF Holds, TypeOK
<1>2. iter' = IF size = 0 THEN NULL ELSE IF d THEN s[1] ELSE s[size]
  BY DEF KamiListIterInit, Holds, Linked
<1>3. Ahead(s, size, iter', forward', due')
  <2>1. forward' = d /\ due' = Seen(s, size)
    BY DEF KamiListIterInit, Holds
  <2>2. CASE size = 0
    BY <2>1, <2>2, <1>2 DEF Ahead, Seen
  <2>3. CASE size # 0
    <3> DEFINE p == IF d THEN 1 ELSE size
    <3>1. p \in 1..size /\ s[p] = iter' /\ iter' # NULL
      BY <2>3, <1>2, NodeAssumption DEF TypeOK
    <3>2. \A m \in 1..size : IF d THEN m >= p ELSE m <= p
      OBVIOUS
    <3> QED BY <2>1, <3>1, <3>2 DEF Ahead
  <2> QED BY <2>2, <2>3
<1>4. IInv'
  BY <1>3 DEF IInv, TypeOK, Holds, KamiListIterInit, ends, links, KnowsHead, Listed, Pointer
<1>5. Nodes!Start(d)
  <2>1. Len(s) = size /\ s \in Seq(Node) /\ (s = <<>> <=> size = 0)
    BY DEF TypeOK
  <2>2. size # 0 => Head(s) = s[1] /\ Nodes!Last(s) = s[size]
    BY <2>1 DEF Nodes!Last
  <2>3. due' = Nodes!Listed
    BY <1>1 DEF Nodes!Listed, Nodes!ToSet, KamiListIterInit, Holds, Seen
  <2>4. UNCHANGED KnowsHead
    BY DEF KnowsHead, Listed, KamiListIterInit, ends
  <2> QED BY <1>1, <1>2, <2>1, <2>2, <2>3, <2>4 DEF Nodes!Start, KamiListIterInit
<1> QED BY <1>4, <1>5 DEF Nodes!Next

LEMMA Returned ==
  ASSUME TypeOK, KnowsHead, NEW s \in [1..size -> Node], Holds(s), KamiListNext
  PROVE  IInv' /\ Nodes!Next
<1>1. Order = s /\ Order' = s
  <2>1. Linked(s, size', head', tail', next', prev') /\ size' = size
    BY DEF Holds, KamiListNext, ends, links
  <2> QED BY <2>1, OrderIsSequence, NextOrderIsSequence DEF Holds, TypeOK
<1>2. PICK p \in 1..size :
          /\ s[p] = iter
          /\ \A k \in 1..size : s[k] \in due => IF forward THEN k >= p ELSE k <= p
  BY DEF Holds, Ahead, KamiListNext
<1> DEFINE q == IF forward THEN p + 1 ELSE p - 1
<1>3. size \in Nat /\ forward \in BOOLEAN
  BY DEF TypeOK
<1>4. iter' = IF q \in 1..size THEN s[q] ELSE NULL
  BY <1>2, <1>3 DEF KamiListNext, Holds, Linked
<1>5. due' = due \ {s[p]} /\ UNCHANGED <<forward, ends, links, list>>
  BY <1>2 DEF KamiListNext
<1>6. \A k \in 1..size : s[k] \in due' => IF forward THEN k >= q ELSE k <= q
  BY <1>2, <1>3, <1>5
<1>7. \A k \in 1..size : s[k] # NULL
  BY NodeAssumption
<1>8. due' \subseteq Seen(s, size)
  BY <1>5 DEF Holds, Ahead
<1>9. Ahead(s, size, iter', forward', due')
  <2>1. CASE q \in 1..size
    BY <2>1, <1>4, <1>5, <1>6, <1>7, <1>8 DEF Ahead
  <2>2. CASE q \notin 1..size
    <3>1. due' = {}
      BY <2>2, <1>2, <1>3, <1>6, <1>8 DEF Seen
    <3> QED BY <3>1, <2>2, <1>4 DEF Ahead
  <2> QED BY <2>1, <2>2
<1>10. IInv'
  <2>1. TypeOK'
    BY <1>4, <1>5 DEF TypeOK, Pointer, ends, links
  <2>2. Holds(s)' /\ s \in [1..size' -> Node]
    BY <1>5, <1>9 DEF Holds, ends, links, KnowsHead, Listed
  <2> QED BY <2>1, <2>2 DEF IInv
<1>11. Nodes!Return
  <2>1. DOMAIN s = 1..size /\ Len(s) = size
    BY <1>3
  <2>2. p \in DOMAIN Order /\ Order[p] = iter
    BY <1>1, <1>2, <2>1
  <2>3. iter' = IF forward THEN IF p = Len(Order) THEN NULL ELSE Order[p + 1]
                ELSE IF p = 1 THEN NULL ELSE Order[p - 1]
    BY <1>1, <1>3, <1>4, <2>1
  <2>4. UNCHANGED <<Order, forward, KnowsHead>>
    BY <1>1, <1>5 DEF KnowsHead, Listed, ends
  <2>5. due' = due \ {iter}
    BY <1>2, <1>5
  <2> QED BY <2>2, <2>3, <2>4, <2>5 DEF Nodes!Return
<1> QED BY <1>10, <1>11 DEF Nodes!Next

-----------------------------------------------------------------------------

(* Every way to add a node and to delete one is Added or Removed at the    *)
(* place where the call puts or finds it.                                  *)
LEMMA FirstAdded ==
  ASSUME TypeOK, KnowsHead, NEW s \in [1..size -> Node], Holds(s),
         NEW item \in Node, ~list[item], AddFirst(item)
  PROVE  IInv' /\ Nodes!Next /\ Nodes!Insert(item, 1)
<1>1. size \in Nat /\ size = 0
  BY DEF AddFirst, TypeOK
<1> PICK k \in 1..size + 1 : k = 1
  BY <1>1
<1>2. /\ head' = IF k = 1 THEN item ELSE head
      /\ tail' = IF k = size + 1 THEN item ELSE tail
      /\ Enlist(item)
  BY <1>1 DEF AddFirst
<1>3. /\ next' \in [Node -> Pointer]
      /\ \A n \in Node : next'[n] = IF n = item THEN IF k = size + 1 THEN NULL ELSE s[k]
                                    ELSE IF k > 1 /\ n = s[k - 1] THEN item ELSE next[n]
  BY <1>1 DEF AddFirst, TypeOK, Pointer
<1>4. /\ prev' \in [Node -> Pointer]
      /\ \A n \in Node : prev'[n] = IF n = item THEN IF k = 1 THEN NULL ELSE s[k - 1]
                                    ELSE IF k < size + 1 /\ n = s[k] THEN item ELSE prev[n]
  BY <1>1 DEF AddFirst, TypeOK, Pointer
<1> QED BY <1>2, <1>3, <1>4, Added

LEMMA HeadAdded ==
  ASSUME TypeOK, KnowsHead, NEW s \in [1..size -> Node], Holds(s),
         NEW item \in Node, KamiListAddHead(item)
  PROVE  IInv' /\ Nodes!Next /\ Nodes!Insert(item, 1)
<1>1. size \in Nat
  BY DEF TypeOK
<1>2. CASE AddFirst(item)
  BY <1>2, FirstAdded DEF KamiListAddHead
<1>3. CASE ~AddFirst(item)
  <2>1. size # 0
    BY <1>3 DEF KamiListAddHead
  <2>2. head = s[1] /\ head \in Node
    BY <1>1, <2>1 DEF Holds, Linked
  <2> QED BY <1>1, <1>3, <2>1, <2>2, Added DEF KamiListAddHead, TypeOK, Pointer
<1> QED BY <1>2, <1>3

LEMMA TailAdded ==
  ASSUME TypeOK, KnowsHead, NEW s \in [1..size -> Node], Holds(s),
         NEW item \in Node, KamiListAddTail(item)
  PROVE  IInv' /\ Nodes!Next /\ Nodes!Insert(item, size + 1)
<1>1. size \in Nat
  BY DEF TypeOK
<1>2. CASE AddFirst(item)
  <2>1. size + 1 = 1
    BY <1>2 DEF AddFirst
  <2>2. IInv' /\ Nodes!Next /\ Nodes!Insert(item, 1)
    BY <1>2, FirstAdded DEF KamiListAddTail
  <2> QED BY <2>1, <2>2
<1>3. CASE ~AddFirst(item)
  <2>1. size # 0
    BY <1>3 DEF KamiListAddTail
  <2>2. tail = s[size] /\ tail \in Node
    BY <1>1, <2>1 DEF Holds, Linked
  <2>3. size + 1 \in 1..size + 1
    BY <1>1
  <2>4. /\ ~list[item] /\ Enlist(item) /\ head' = head /\ tail' = item
        /\ next' = [next EXCEPT ![item] = NULL, ![tail] = item]
        /\ prev' = [prev EXCEPT ![item] = tail]
    BY <1>3 DEF KamiListAddTail
  <2>5. /\ next' \in [Node -> Pointer]
        /\ \A n \in Node : next'[n] = IF n = item THEN NULL
                                      ELSE IF n = s[size] THEN item ELSE next[n]
    BY <1>1, <2>1, <2>2, <2>4 DEF TypeOK, Pointer, Holds, Listed, Seen
  <2>6. /\ prev' \in [Node -> Pointer]
        /\ \A n \in Node : prev'[n] = IF n = item THEN s[size] ELSE prev[n]
    BY <1>1, <2>1, <2>2, <2>4 DEF TypeOK, Pointer
  <2> PICK k \in 1..size + 1 : k = size + 1
    BY <2>3
  <2>7. k - 1 = size /\ k > 1 /\ k # 1 /\ ~(k < size + 1)
    BY <1>1, <2>1
  <2>8. \A n \in Node : next'[n] = IF n = item THEN IF k = size + 1 THEN NULL ELSE s[k]
                                   ELSE IF k > 1 /\ n = s[k - 1] THEN item ELSE next[n]
    BY <2>5, <2>7
  <2>9. \A n \in Node : prev'[n] = IF n = item THEN IF k = 1 THEN NULL ELSE s[k - 1]
                                   ELSE IF k < size + 1 /\ n = s[k] THEN item ELSE prev[n]
    BY <2>6, <2>7
  <2>10. /\ head' = IF k = 1 THEN item ELSE head
         /\ tail' = IF k = size + 1 THEN item ELSE tail
    BY <2>4, <2>7
  <2>11. ~list[item] /\ Enlist(item) /\ next' \in [Node -> Pointer] /\ prev' \in [Node -> Pointer]
    BY <2>4, <2>5, <2>6
  <2>12. IInv' /\ Nodes!Next /\ Nodes!Insert(item, k)
    BY <2>8, <2>9, <2>10, <2>11, Added
  <2> QED BY <2>12
<1> QED BY <1>2, <1>3

LEMMA AfterAdded ==
  ASSUME TypeOK, KnowsHead, NEW s \in [1..size -> Node], Holds(s),
         NEW p \in Node, NEW item \in Node, KamiListAddAfter(p, item)
  PROVE  IInv' /\ Nodes!Next /\ \E k \in 1..size : Order[k] = p /\ Nodes!Insert(item, k + 1)
<1>1. size \in Nat
  BY DEF TypeOK
<1>2. PICK j \in 1..size : s[j] = p
  BY DEF KamiListAddAfter, Holds, Listed, Seen
<1>3. next[p] = IF j = size THEN NULL ELSE s[j + 1]
  BY <1>2 DEF Holds, Linked
<1>4. p = tail <=> j = size
  BY <1>1, <1>2 DEF Holds, Linked
<1>5. head' = head /\ tail' = IF j = size THEN item ELSE tail
  BY <1>4 DEF KamiListAddAfter
<1>6. /\ next' \in [Node -> Pointer]
      /\ \A n \in Node : next'[n] = IF n = item THEN next[p] ELSE IF n = p THEN item ELSE next[n]
  BY <1>2 DEF KamiListAddAfter, TypeOK, Pointer, Holds, Listed, Seen
<1>7. /\ prev' \in [Node -> Pointer]
      /\ \A n \in Node : prev'[n] = IF n = item THEN p ELSE IF n = next[p] THEN item ELSE prev[n]
  BY <1>2, <1>3 DEF KamiListAddAfter, TypeOK, Pointer, Holds, Listed, Seen
<1> PICK k \in 1..size + 1 : k = j + 1
  BY <1>1
<1>8. k > 1 /\ k - 1 = j /\ (k = size + 1 <=> j = size)
  BY <1>1
<1>9. \A n \in Node : next'[n] = IF n = item THEN IF k = size + 1 THEN NULL ELSE s[k]
                                 ELSE IF k > 1 /\ n = s[k - 1] THEN item ELSE next[n]
  BY <1>2, <1>3, <1>6, <1>8
<1>10. \A n \in Node : prev'[n] = IF n = item THEN IF k = 1 THEN NULL ELSE s[k - 1]
                                  ELSE IF k < size + 1 /\ n = s[k] THEN item ELSE prev[n]
  BY <1>1, <1>2, <1>3, <1>7, <1>8, NodeAssumption
<1>11. /\ head' = IF k = 1 THEN item ELSE head
       /\ tail' = IF k = size + 1 THEN item ELSE tail
  BY <1>5, <1>8
<1>12. ~list[item] /\ Enlist(item) /\ next' \in [Node -> Pointer] /\ prev' \in [Node -> Pointer]
  BY <1>6, <1>7 DEF KamiListAddAfter
<1>13. IInv' /\ Nodes!Next /\ Nodes!Insert(item, k)
  BY <1>9, <1>10, <1>11, <1>12, Added
<1>14. Order[j] = p
  BY <1>1, <1>2, OrderIsSequence DEF Holds
<1> QED BY <1>13, <1>14

LEMMA BeforeAdded ==
  ASSUME TypeOK, KnowsHead, NEW s \in [1..size -> Node], Holds(s),
         NEW m \in Node, NEW item \in Node, KamiListAddBefore(m, item)
  PROVE  IInv' /\ Nodes!Next /\ \E k \in 1..size : Order[k] = m /\ Nodes!Insert(item, k)
<1>1. size \in Nat
  BY DEF TypeOK
<1>2. PICK j \in 1..size : s[j] = m
  BY DEF KamiListAddBefore, Holds, Listed, Seen
<1>3. prev[m] = IF j = 1 THEN NULL ELSE s[j - 1]
  BY <1>2 DEF Holds, Linked
<1>4. m = head <=> j = 1
  BY <1>1, <1>2 DEF Holds, Linked
<1>5. tail' = tail /\ head' = IF j = 1 THEN item ELSE head
  BY <1>4 DEF KamiListAddBefore
<1>6. /\ prev' \in [Node -> Pointer]
      /\ \A n \in Node : prev'[n] = IF n = item THEN prev[m] ELSE IF n = m THEN item ELSE prev[n]
  BY <1>2 DEF KamiListAddBefore, TypeOK, Pointer, Holds, Listed, Seen
<1>7. /\ next' \in [Node -> Pointer]
      /\ \A n \in Node : next'[n] = IF n = item THEN m ELSE IF n = prev[m] THEN item ELSE next[n]
  BY <1>2, <1>3 DEF KamiListAddBefore, TypeOK, Pointer, Holds, Listed, Seen
<1>8. j \in 1..size + 1 /\ j # size + 1
  BY <1>1
<1>9. IInv' /\ Nodes!Next /\ Nodes!Insert(item, j)
  BY <1>1, <1>2, <1>3, <1>5, <1>6, <1>7, <1>8, NodeAssumption, Added DEF KamiListAddBefore
<1>10. Order[j] = m
  BY <1>1, <1>2, OrderIsSequence DEF Holds
<1> QED BY <1>9, <1>10

(* An index names a node before which the new one goes, or the end. *)
LEMMA InsertedAt ==
  ASSUME TypeOK, KnowsHead, NEW s \in [1..size -> Node], Holds(s),
         NEW item \in Node, NEW i \in -size..size, KamiListInsertAt(item, i)
  PROVE  IInv' /\ Nodes!Next /\ Nodes!Insert(item, Place(i))
<1>1. CASE i = size
  <2>1. Place(i) = size + 1
    BY <1>1 DEF Place, TypeOK
  <2>2. IInv' /\ Nodes!Next /\ Nodes!Insert(item, size + 1)
    BY <1>1, TailAdded DEF KamiListInsertAt
  <2> QED BY <2>1, <2>2
<1>2. CASE i # size
  <2>1. KamiListAt(i) # NULL /\ KamiListAddBefore(KamiListAt(i), item)
    BY <1>2 DEF KamiListInsertAt
  <2>2. Place(i) \in 1..size /\ KamiListAt(i) = s[Place(i)]
    BY <2>1, AtIsListed DEF TypeOK
  <2>3. KamiListAt(i) \in Node
    BY <2>2
  <2>4. PICK k \in 1..size : Order[k] = KamiListAt(i) /\ Nodes!Insert(item, k)
    BY <2>1, <2>3, BeforeAdded
  <2>5. k = Place(i)
    BY <2>2, <2>4, SamePlace
  <2> QED BY <2>1, <2>3, <2>4, <2>5, BeforeAdded
<1> QED BY <1>1, <1>2

LEMMA OnlyRemoved ==
  ASSUME TypeOK, KnowsHead, NEW s \in [1..size -> Node], Holds(s),
         NEW k \in 1..size, DelOnly(s[k])
  PROVE  IInv' /\ Nodes!Next /\ Nodes!Delete(k)
<1>1. size = 1 /\ k = 1
  BY DEF DelOnly
<1>2. KnowsHead' /\ Listed' = Listed \ {s[k]} /\ list' \in [Node -> BOOLEAN]
  BY <1>1 DEF DelOnly, Discard, KnowsHead, Listed, TypeOK
<1>3. Discard(s[k]) /\ head' = NULL /\ tail' = NULL /\ UNCHANGED <<next, prev>>
  BY DEF DelOnly, links
<1> QED BY <1>1, <1>2, <1>3, Removed DEF TypeOK

LEMMA Deleted ==
  ASSUME TypeOK, KnowsHead, NEW s \in [1..size -> Node], Holds(s),
         NEW item \in Node, KamiListDel(item)
  PROVE  IInv' /\ Nodes!Next /\ \E k \in 1..size : Order[k] = item /\ Nodes!Delete(k)
<1>1. size \in Nat
  BY DEF TypeOK
<1>2. PICK k \in 1..size : s[k] = item
  BY DEF KamiListDel, Holds, Listed, Seen
<1>5. Order[k] = item
  BY <1>1, <1>2, OrderIsSequence DEF Holds
<1>3. CASE DelOnly(item)
  <2>1. IInv' /\ Nodes!Next /\ Nodes!Delete(k)
    BY <1>2, <1>3, OnlyRemoved
  <2> QED BY <1>5, <2>1
<1>4. CASE ~DelOnly(item)
  <2>1. size > 1 /\ Discard(s[k]) /\ list' = [list EXCEPT ![item] = FALSE]
    BY <1>2, <1>4 DEF KamiListDel
  <2>2. /\ next[item] = IF k = size THEN NULL ELSE s[k + 1]
        /\ prev[item] = IF k = 1 THEN NULL ELSE s[k - 1]
    BY <1>2 DEF Holds, Linked
  <2>3. (item = head <=> k = 1) /\ (item = tail <=> k = size)
    BY <1>1, <1>2 DEF Holds, Linked
  <2>4. /\ head' = IF k = 1 THEN IF size = 1 THEN NULL ELSE s[2] ELSE head
        /\ tail' = IF k = size THEN IF size = 1 THEN NULL ELSE s[size - 1] ELSE tail
    BY <1>1, <1>4, <2>1, <2>2, <2>3 DEF KamiListDel
  <2>5. /\ next' \in [Node -> Pointer]
        /\ \A n \in Node \ {s[k]} :
              next'[n] = IF k > 1 /\ n = s[k - 1] THEN IF k = size THEN NULL ELSE s[k + 1]
                         ELSE next[n]
    BY <1>1, <1>2, <1>4, <2>2, NodeAssumption DEF KamiListDel, TypeOK, Pointer
  <2>6. /\ prev' \in [Node -> Pointer]
        /\ \A n \in Node \ {s[k]} :
              prev'[n] = IF k < size /\ n = s[k + 1] THEN IF k = 1 THEN NULL ELSE s[k - 1]
                         ELSE prev[n]
    BY <1>1, <1>2, <1>4, <2>2, NodeAssumption DEF KamiListDel, TypeOK, Pointer
  <2>7. list' \in [Node -> BOOLEAN] /\ Listed' = Listed \ {s[k]}
    BY <1>2, <2>1 DEF TypeOK, Listed
  <2>8. KnowsHead'
    <3>1. \A a \in 1..size : a # k => s[a] \in Listed'
      BY <2>7 DEF Holds, Linked, Seen
    <3>2. CASE k = 1
      <4>1. head' = s[2] /\ 2 \in 1..size
        BY <1>1, <2>1, <2>4, <3>2
      <4> QED BY <3>1, <3>2, <4>1 DEF KnowsHead, Listed
    <3>3. CASE k # 1
      <4>1. head' = s[1]
        BY <1>1, <2>1, <2>4, <3>3 DEF Holds, Linked
      <4> QED BY <1>1, <2>1, <3>1, <3>3, <4>1 DEF KnowsHead, Listed
    <3> QED BY <3>2, <3>3
  <2>9. IInv' /\ Nodes!Next /\ Nodes!Delete(k)
    BY <2>1, <2>4, <2>5, <2>6, <2>7, <2>8, Removed
  <2> QED BY <1>5, <2>9
<1> QED BY <1>3, <1>4

LEMMA HeadDeleted ==
  ASSUME TypeOK, KnowsHead, NEW s \in [1..size -> Node], Holds(s), KamiListDelHead
  PROVE  IInv' /\ Nodes!Next /\ (IF size = 1 THEN Nodes!Delete(1) ELSE Nodes!Behead)
<1>1. size \in Nat
  BY DEF TypeOK
<1> PICK k \in 1..size : k = 1
  BY <1>1 DEF KamiListDelHead
<1>2. head = s[k]
  BY DEF Holds, Linked
<1>3. CASE DelOnly(head)
  <2>1. IInv' /\ Nodes!Next /\ Nodes!Delete(k)
    BY <1>2, <1>3, OnlyRemoved
  <2> QED BY <1>3, <2>1 DEF DelOnly
<1>4. CASE ~DelOnly(head)
  <2>1. size > 1 /\ Discard(s[k])
    BY <1>2, <1>4 DEF KamiListDelHead
  <2>2. next[head] = s[2] /\ s[2] # s[k]
    BY <1>1, <1>2, <2>1 DEF Holds, Linked
  <2>3. /\ head' = s[2] /\ tail' = tail /\ next' = next
        /\ prev' = [prev EXCEPT ![s[2]] = NULL]
        /\ list' = [list EXCEPT ![head] = FALSE, ![s[2]] = FALSE]
    BY <1>4, <2>2 DEF KamiListDelHead
  <2>4. ~KnowsHead'
    BY <1>1, <2>1, <2>3 DEF KnowsHead, Listed, Discard, TypeOK
  <2>5. list' \in [Node -> BOOLEAN] /\ prev' \in [Node -> Pointer]
    BY <2>3 DEF TypeOK, Pointer
  <2>6. /\ head' = IF k = 1 THEN IF size = 1 THEN NULL ELSE s[2] ELSE head
        /\ tail' = IF k = size THEN IF size = 1 THEN NULL ELSE s[size - 1] ELSE tail
    BY <1>1, <2>1, <2>3
  <2>7. /\ \A n \in Node \ {s[k]} :
              next'[n] = IF k > 1 /\ n = s[k - 1] THEN IF k = size THEN NULL ELSE s[k + 1]
                         ELSE next[n]
        /\ \A n \in Node \ {s[k]} :
              prev'[n] = IF k < size /\ n = s[k + 1] THEN IF k = 1 THEN NULL ELSE s[k - 1]
                         ELSE prev[n]
    BY <1>1, <2>1, <2>3 DEF TypeOK
  <2>8. IInv' /\ Nodes!Next /\ Nodes!Behead
    BY <2>1, <2>3, <2>4, <2>5, <2>6, <2>7, Removed DEF TypeOK
  <2> QED BY <2>1, <2>8
<1> QED BY <1>3, <1>4

LEMMA TailDeleted ==
  ASSUME TypeOK, KnowsHead, NEW s \in [1..size -> Node], Holds(s), KamiListDelTail
  PROVE  IInv' /\ Nodes!Next /\ Nodes!Delete(size)
<1>1. size \in Nat
  BY DEF TypeOK
<1> PICK k \in 1..size : k = size
  BY <1>1 DEF KamiListDelTail
<1>2. tail = s[k]
  BY <1>1 DEF Holds, Linked
<1>3. CASE DelOnly(tail)
  BY <1>2, <1>3, OnlyRemoved
<1>4. CASE ~DelOnly(tail)
  <2>1. size > 1 /\ Discard(s[k])
    BY <1>2, <1>4 DEF KamiListDelTail
  <2>2. prev[tail] = s[k - 1]
    BY <1>1, <1>2, <2>1 DEF Holds, Linked
  <2>3. /\ tail' = s[k - 1] /\ head' = head /\ prev' = prev
        /\ next' = [next EXCEPT ![s[k - 1]] = NULL]
        /\ list' = [list EXCEPT ![s[k]] = FALSE]
    BY <1>2, <1>4, <2>2 DEF KamiListDelTail
  <2>4. list' \in [Node -> BOOLEAN] /\ next' \in [Node -> Pointer] /\ Listed' = Listed \ {s[k]}
    BY <2>3 DEF TypeOK, Pointer, Listed
  <2>5. KnowsHead'
    <3>1. s[1] \in Listed'
      BY <1>1, <2>1, <2>4 DEF Holds, Linked, Seen
    <3>2. head' = s[1]
      BY <1>1, <2>1, <2>3 DEF Holds, Linked
    <3> QED BY <3>1, <3>2 DEF KnowsHead, Listed
  <2>6. \A n \in Node \ {s[k]} :
            next'[n] = IF k > 1 /\ n = s[k - 1] THEN IF k = size THEN NULL ELSE s[k + 1]
                       ELSE next[n]
    BY <1>1, <2>1, <2>3 DEF TypeOK
  <2> QED BY <1>1, <2>1, <2>3, <2>4, <2>5, <2>6, Removed DEF TypeOK
<1> QED BY <1>3, <1>4

-----------------------------------------------------------------------------

LEMMA IndexDeleted ==
  ASSUME TypeOK, KnowsHead, NEW s \in [1..size -> Node], Holds(s),
         NEW i \in -size..size, KamiListDelByIndex(i)
  PROVE  IInv' /\ Nodes!Next /\ Nodes!Delete(Place(i))
<1>1. KamiListAt(i) # NULL /\ KamiListDel(KamiListAt(i))
  BY DEF KamiListDelByIndex
<1>2. Place(i) \in 1..size /\ KamiListAt(i) = s[Place(i)]
  BY <1>1, AtIsListed DEF TypeOK
<1>3. KamiListAt(i) \in Node
  BY <1>2
<1>4. PICK k \in 1..size : Order[k] = KamiListAt(i) /\ Nodes!Delete(k)
  BY <1>1, <1>3, Deleted
<1>5. k = Place(i)
  BY <1>2, <1>4, SamePlace
<1> QED BY <1>1, <1>3, <1>4, <1>5, Deleted

LEMMA Step ==
  ASSUME IInv, Next
  PROVE  IInv' /\ Nodes!Next
<1>1. PICK s \in [1..size -> Node] : Holds(s)
  BY DEF IInv
<1>2. TypeOK /\ KnowsHead
  BY DEF IInv, Next
<1>3. ASSUME NEW item \in Node, KamiListAddHead(item) PROVE IInv' /\ Nodes!Next
  BY <1>1, <1>2, <1>3, HeadAdded
<1>4. ASSUME NEW item \in Node, KamiListAddTail(item) PROVE IInv' /\ Nodes!Next
  BY <1>1, <1>2, <1>4, TailAdded
<1>5. ASSUME NEW item \in Node, KamiListDel(item) PROVE IInv' /\ Nodes!Next
  BY <1>1, <1>2, <1>5, Deleted
<1>6. ASSUME NEW item \in Node, NEW n \in Node, KamiListAddAfter(n, item)
      PROVE  IInv' /\ Nodes!Next
  BY <1>1, <1>2, <1>6, AfterAdded
<1>7. ASSUME NEW item \in Node, NEW n \in Node, KamiListAddBefore(n, item)
      PROVE  IInv' /\ Nodes!Next
  BY <1>1, <1>2, <1>7, BeforeAdded
<1>8. ASSUME NEW item \in Node, NEW i \in -size..size, KamiListInsertAt(item, i)
      PROVE  IInv' /\ Nodes!Next
  BY <1>1, <1>2, <1>8, InsertedAt
<1>9. ASSUME NEW i \in -size..size, KamiListDelByIndex(i) PROVE IInv' /\ Nodes!Next
  BY <1>1, <1>2, <1>9, IndexDeleted
<1>10. CASE KamiListDelHead
  BY <1>1, <1>2, <1>10, HeadDeleted
<1>11. CASE KamiListDelTail
  BY <1>1, <1>2, <1>11, TailDeleted
<1>12. ASSUME NEW d \in BOOLEAN, KamiListIterInit(d) PROVE IInv' /\ Nodes!Next
  BY <1>1, <1>2, <1>12, Started
<1>13. CASE KamiListNext
  BY <1>1, <1>2, <1>13, Returned
<1> QED BY <1>3, <1>4, <1>5, <1>6, <1>7, <1>8, <1>9, <1>10, <1>11, <1>12, <1>13 DEF Next

LEMMA Start ==
  ASSUME Init
  PROVE  IInv /\ Nodes!Init
<1>1. TypeOK
  BY DEF Init, TypeOK, Pointer
<1> DEFINE s == [k \in 1..size |-> NULL]
<1>6. size = 0 /\ s \in [1..size -> Node]
  BY DEF Init
<1>7. s = <<>>
  BY <1>6
<1> HIDE DEF s
<1>2. Linked(s, size, head, tail, next, prev)
  BY <1>6 DEF Init, Linked
<1>3. Holds(s)
  BY <1>2, <1>6 DEF Init, Holds, Ahead, Listed, Seen
<1>4. Order = <<>>
  BY <1>1, <1>2, <1>6, <1>7, OrderIsSequence DEF TypeOK
<1>5. KnowsHead = TRUE
  BY DEF Init, KnowsHead
<1> QED BY <1>1, <1>3, <1>4, <1>5, <1>6 DEF IInv, Nodes!Init, Init

LEMMA Stutter ==
  ASSUME IInv, UNCHANGED vars
  PROVE  IInv' /\ UNCHANGED Nodes!vars
<1>1. IInv'
  BY DEF IInv, TypeOK, Holds, KnowsHead, Listed, Pointer, vars, ends, links, iterator
<1>2. Order' = Order
  BY DEF Order, Chain, vars, ends, links
<1>3. KnowsHead' = KnowsHead
  BY DEF KnowsHead, Listed, vars, ends
<1> QED BY <1>1, <1>2, <1>3 DEF Nodes!vars, vars, iterator

(* Whatever calls are made on a list of whatever nodes, its pointers are   *)
(* one sequence, of the nodes that KamiListDel accepts (util/list.c).      *)
THEOREM Invariant == Spec => []IInv
<1>1. IInv /\ [Next]_vars => IInv'
  BY Step, Stutter
<1> QED BY Start, <1>1, PTL DEF Spec

THEOREM LinksSound == Spec => []WellLinked
<1>1. IInv => WellLinked
  <2> SUFFICES ASSUME IInv PROVE WellLinked
    OBVIOUS
  <2>1. PICK s \in [1..size -> Node] : Holds(s)
    BY DEF IInv
  <2>2. size \in Nat
    BY DEF IInv, TypeOK
  <2>3. Chain(s)
    BY <2>1, <2>2, ChainIsLinked DEF Holds
  <2>4. KnowsHead => Listed = ToSet(s)
    BY <2>1, <2>2 DEF Holds, Seen, ToSet
  <2> QED BY <2>3, <2>4 DEF WellLinked
<1> QED BY Invariant, <1>1, PTL

(* A loop over a list returns every node that was in it at the start and   *)
(* was not deleted, whatever its body adds, and deletes behind it.         *)
THEOREM LoopMissesNothing == Spec => []NothingMissed
<1>1. IInv => NothingMissed
  BY DEF IInv, Holds, Ahead, NothingMissed
<1> QED BY Invariant, <1>1, PTL

(* One step of a list that knows its head: what the call names is what it  *)
(* changes.                                                                *)
LEMMA StepAsNamed ==
  ASSUME IInv, KnowsHead
  PROVE  ActsAsNamed
<1>1. PICK s \in [1..size -> Node] : Holds(s)
  BY DEF IInv
<1>2. TypeOK
  BY DEF IInv
<1>3. ASSUME NEW item \in Node, KamiListAddHead(item) PROVE Nodes!Insert(item, 1)
  BY <1>1, <1>2, <1>3, HeadAdded
<1>4. ASSUME NEW item \in Node, KamiListAddTail(item) PROVE Nodes!Insert(item, size + 1)
  BY <1>1, <1>2, <1>4, TailAdded
<1>5. ASSUME NEW item \in Node, NEW n \in Node, KamiListAddAfter(n, item)
      PROVE  \E k \in 1..size : Order[k] = n /\ Nodes!Insert(item, k + 1)
  BY <1>1, <1>2, <1>5, AfterAdded
<1>6. ASSUME NEW item \in Node, NEW n \in Node, KamiListAddBefore(n, item)
      PROVE  \E k \in 1..size : Order[k] = n /\ Nodes!Insert(item, k)
  BY <1>1, <1>2, <1>6, BeforeAdded
<1>7. ASSUME NEW item \in Node, NEW i \in -size..size, KamiListInsertAt(item, i)
      PROVE  Nodes!Insert(item, Place(i))
  BY <1>1, <1>2, <1>7, InsertedAt
<1>8. ASSUME NEW item \in Node, KamiListDel(item)
      PROVE  \E k \in 1..size : Order[k] = item /\ Nodes!Delete(k)
  BY <1>1, <1>2, <1>8, Deleted
<1>9. ASSUME NEW i \in -size..size, KamiListDelByIndex(i) PROVE Nodes!Delete(Place(i))
  BY <1>1, <1>2, <1>9, IndexDeleted
<1>10. ASSUME KamiListDelHead
       PROVE  IF size = 1 THEN Nodes!Delete(1) ELSE Nodes!Behead
  BY <1>1, <1>2, <1>10, HeadDeleted
<1>11. ASSUME KamiListDelTail PROVE Nodes!Delete(size)
  BY <1>1, <1>2, <1>11, TailDeleted
<1> QED BY <1>3, <1>4, <1>5, <1>6, <1>7, <1>8, <1>9, <1>10, <1>11 DEF ActsAsNamed

(* Every call is one step of the abstract sequence: it inserts the node it *)
(* is given at the place it is given, or deletes the one it names.         *)
THEOREM ListIsSequence == Spec => ImplementsNodes
<1>1. IInv /\ [Next]_vars => [Nodes!Next]_(Nodes!vars)
  BY Step, Stutter
<1>2. IInv /\ [Next]_vars => [KnowsHead => ActsAsNamed]_vars
  BY StepAsNamed
<1>3. Init => Nodes!Init
  BY Start
<1> QED BY Invariant, <1>1, <1>2, <1>3, PTL DEF Spec, ImplementsNodes, Nodes!Spec
=============================================================================
