--------------------------- MODULE TlvCodecProofs ---------------------------
(***************************************************************************)
(* Theorems about messages, for every tree of items and every order in     *)
(* which it is put together: lengths are what is printed, the buffer never *)
(* is too small, and a receiver finds what was added.                      *)
(***************************************************************************)
EXTENDS TlvCodec, ListLemmas, FiniteSetTheorems

TypeRange == IF type_len = 1 THEN Byte ELSE 0..MaxLength

Item ==
    [obj_type : {"tlv", "object", "array"}, type : TypeRange,
     value : Seq(Byte), length : 0..MaxLength, child : Seq(Nat), parent : Nat]

-----------------------------------------------------------------------------
(* The items above an item *)

Parents(s, n) == \A i \in 1..n : s[i].parent # NULL => s[i].parent \in 1..n

LEMMA AncestryIs ==
    ASSUME NEW n \in Nat, NEW s, DOMAIN s = 1..n, Parents(s, n), NEW t \in 1..n
    PROVE  /\ Ancestry(s, t) \subseteq 1..n /\ t \in Ancestry(s, t)
           /\ Climbs(s, Ancestry(s, t))
           /\ \A B \in SUBSET 1..n : t \in B /\ Climbs(s, B) => Ancestry(s, t) \subseteq B
<1>1. \A j \in 1..n : j \in Ancestry(s, t) <=>
          \A A \in SUBSET 1..n : t \in A /\ Climbs(s, A) => j \in A
    BY DEF Ancestry
<1>2. Ancestry(s, t) \subseteq 1..n
    BY DEF Ancestry
<1>3. Climbs(s, Ancestry(s, t))
  <2> SUFFICES ASSUME NEW j \in Ancestry(s, t), s[j].parent # NULL
               PROVE  s[j].parent \in Ancestry(s, t)
    BY DEF Climbs
  <2>1. s[j].parent \in 1..n
    BY <1>2 DEF Parents
  <2>2. ASSUME NEW A \in SUBSET 1..n, t \in A, Climbs(s, A) PROVE s[j].parent \in A
    BY <1>1, <1>2, <2>2 DEF Climbs
  <2> QED
    BY <1>1, <2>1, <2>2
<1> QED
    BY <1>1, <1>2, <1>3

(* A parent is counted higher than what it holds: the links are a tree.    *)
Ranks(r, s, n) == \A i \in 1..n : s[i].parent # NULL => r[i] < r[s[i].parent]

(* On the way from an item up to its root, every item but the first comes  *)
(* from one of its own, and from one only.                                 *)
LEMMA AncestryIsChain ==
    ASSUME NEW n \in Nat, NEW s, DOMAIN s = 1..n, Parents(s, n), NEW t \in 1..n,
           NEW N \in Nat, NEW r \in [1..n -> 0..N], Ranks(r, s, n)
    PROVE  /\ \A j \in Ancestry(s, t) : r[t] <= r[j]
           /\ \A j \in Ancestry(s, t) \ {t} : \E c \in Ancestry(s, t) : s[c].parent = j
           /\ \A c, d \in Ancestry(s, t) :
                 s[c].parent = s[d].parent /\ s[c].parent # NULL => c = d
<1> USE AncestryIs
<1>1. ASSUME NEW u \in 1..n
      PROVE  \A j \in Ancestry(s, u) : r[u] <= r[j]
  <2> DEFINE B == {j \in 1..n : r[u] <= r[j]}
  <2>1. B \in SUBSET 1..n /\ u \in B
    OBVIOUS
  <2>2. Climbs(s, B)
    <3> SUFFICES ASSUME NEW j \in B, s[j].parent # NULL PROVE s[j].parent \in B
      BY DEF Climbs
    <3>1. s[j].parent \in 1..n /\ r[j] < r[s[j].parent]
      BY DEF Parents, Ranks
    <3> QED
      BY <3>1
  <2> HIDE DEF B
  <2>3. Ancestry(s, u) \subseteq B
    BY <2>1, <2>2
  <2> QED
    BY <2>3 DEF B
<1>2. ASSUME NEW j \in Ancestry(s, t), j # t
      PROVE  \E c \in Ancestry(s, t) : s[c].parent = j
  <2> SUFFICES ASSUME \A c \in Ancestry(s, t) : s[c].parent # j PROVE FALSE
    OBVIOUS
  <2> DEFINE B == Ancestry(s, t) \ {j}
  <2>1. B \in SUBSET 1..n /\ t \in B
    BY <1>2
  <2>2. Climbs(s, B)
    BY DEF Climbs
  <2> QED
    BY <2>1, <2>2
(* What is above an item but itself is above its parent. *)
<1>3. ASSUME NEW u \in 1..n, s[u].parent # NULL
      PROVE  Ancestry(s, u) \subseteq {u} \cup Ancestry(s, s[u].parent)
  <2>1. s[u].parent \in 1..n
    BY <1>3 DEF Parents
  <2> DEFINE B == {u} \cup Ancestry(s, s[u].parent)
  <2>2. B \in SUBSET 1..n /\ u \in B
    BY <2>1
  <2>3. Climbs(s, B)
    BY <2>1 DEF Climbs
  <2> QED
    BY <2>2, <2>3
<1>4. ASSUME NEW c \in Ancestry(s, t), NEW d \in Ancestry(s, t)
      PROVE  d \in Ancestry(s, c) \/ c \in Ancestry(s, d)
  <2> DEFINE B == {x \in 1..n : c \in Ancestry(s, x)} \cup Ancestry(s, c)
  <2>1. c \in 1..n /\ B \in SUBSET 1..n /\ t \in B
    OBVIOUS
  <2>2. Climbs(s, B)
    <3> SUFFICES ASSUME NEW x \in B, s[x].parent # NULL PROVE s[x].parent \in B
      BY DEF Climbs
    <3>1. x \in 1..n /\ s[x].parent \in 1..n
      BY <2>1 DEF Parents
    <3>2. CASE x \in Ancestry(s, c)
      BY <2>1, <3>2 DEF Climbs
    <3>3. CASE c \in Ancestry(s, x) /\ x # c
      <4>1. c \in Ancestry(s, s[x].parent)
        BY <1>3, <3>1, <3>3
      <4> QED
        BY <3>1, <4>1
    <3> QED
      BY <2>1, <3>2, <3>3
  <2> HIDE DEF B
  <2>3. Ancestry(s, t) \subseteq B
    BY <2>1, <2>2
  <2> QED
    BY <2>3 DEF B
<1>5. ASSUME NEW c \in 1..n, NEW d \in Ancestry(s, c), s[c].parent = s[d].parent, s[c].parent # NULL
      PROVE  c = d
  <2> SUFFICES ASSUME c # d PROVE FALSE
    OBVIOUS
  <2>1. d \in 1..n /\ s[c].parent \in 1..n /\ d \in Ancestry(s, s[c].parent)
    BY <1>3, <1>5 DEF Parents
  <2>2. r[s[c].parent] <= r[d]
    BY <1>1, <2>1
  <2>3. r[d] < r[s[c].parent]
    BY <1>5, <2>1 DEF Ranks
  <2> QED
    BY <2>1, <2>2, <2>3
<1>6. ASSUME NEW c \in Ancestry(s, t), NEW d \in Ancestry(s, t),
             s[c].parent = s[d].parent, s[c].parent # NULL
      PROVE  c = d
  <2>1. c \in 1..n /\ d \in 1..n
    OBVIOUS
  <2> QED
    BY <1>4, <1>5, <1>6, <2>1
<1> QED
    BY <1>1, <1>2, <1>6

-----------------------------------------------------------------------------
(* What building keeps true of n items *)

(* Children and parents are the same links. *)
(* The items listed, each once, are those that name the one that lists them. *)
Linked(s, n) ==
    \A t \in 1..n : /\ IsInjective(s[t].child)
                    /\ ToSet(s[t].child) = {i \in 1..n : s[i].parent = t}

Ranked(s, n) == \E N \in Nat : \E r \in [1..n -> 0..N] : Ranks(r, s, n)

(* What the items in i add to its length, one by one.                      *)
Weights(s, i) == [k \in 1..Len(s[i].child) |-> Increment(s[s[i].child[k]])]

(* The first m numbers of w are x together. *)
Sums(w, m, x) ==
    \E u \in [0..m -> Nat] : u[0] = 0 /\ u[m] = x /\ \A k \in 1..m : u[k] = u[k - 1] + w[k]

(* A container is as long as what its children add, a TLV as its value. *)
Counted(s, n) ==
    \A i \in 1..n : IF s[i].obj_type = "tlv"
                    THEN s[i].child = <<>> /\ s[i].length = Len(s[i].value)
                    ELSE Sums(Weights(s, i), Len(s[i].child), s[i].length)

Good(s, n) ==
    /\ s \in [1..n -> Item]
    /\ Parents(s, n) /\ Linked(s, n) /\ Ranked(s, n) /\ Counted(s, n)

LEMMA ItemIs ==
    ASSUME NEW x \in Item
    PROVE  /\ x.obj_type \in {"tlv", "object", "array"} /\ x.type \in TypeRange
           /\ x.value \in Seq(Byte) /\ x.length \in 0..MaxLength /\ x.length \in Nat
           /\ x.child \in Seq(Nat) /\ x.parent \in Nat
           /\ Len(x.child) \in Nat /\ Len(x.value) \in Nat
<1>1. /\ x.obj_type \in {"tlv", "object", "array"} /\ x.type \in TypeRange
      /\ x.value \in Seq(Byte) /\ x.length \in 0..MaxLength
      /\ x.child \in Seq(Nat) /\ x.parent \in Nat
    BY DEF Item
<1>2. 0..MaxLength \subseteq Nat
    BY DEF MaxLength
<1> QED
    BY <1>1, <1>2, LenProperties

(* An item with another length, other children and another parent. *)
Changed(x, l, c, p) == [x EXCEPT !.length = l, !.child = c, !.parent = p]

LEMMA ChangedIs ==
    ASSUME NEW x \in Item, NEW l, NEW c, NEW p
    PROVE  /\ Changed(x, l, c, p).obj_type = x.obj_type
           /\ Changed(x, l, c, p).type = x.type /\ Changed(x, l, c, p).value = x.value
           /\ Changed(x, l, c, p).length = l /\ Changed(x, l, c, p).child = c
           /\ Changed(x, l, c, p).parent = p
           /\ l \in 0..MaxLength /\ c \in Seq(Nat) /\ p \in Nat => Changed(x, l, c, p) \in Item
BY DEF Changed, Item

Children(s, n, j) ==
    \A k \in 1..Len(s[j].child) : s[j].child[k] \in 1..n /\ s[s[j].child[k]].parent = j

LEMMA ChildIs ==
    ASSUME NEW n \in Nat, NEW s \in [1..n -> Item], Linked(s, n), NEW j \in 1..n
    PROVE  Children(s, n, j)
<1> SUFFICES ASSUME NEW k \in 1..Len(s[j].child)
             PROVE  s[j].child[k] \in 1..n /\ s[s[j].child[k]].parent = j
    BY DEF Children
<1>1. s[j] \in Item /\ s[j].child \in Seq(Nat)
    BY ItemIs
<1>2. s[j].child[k] \in ToSet(s[j].child)
    BY <1>1, LenProperties DEF ToSet
<1> QED
    BY <1>2 DEF Linked

LEMMA IncrementType ==
    ASSUME type_len \in {1, 2}, NEW x \in Item
    PROVE  Increment(x) \in Nat
<1>1. x.length \in Nat
    BY ItemIs
<1>2. HeaderLen \in Nat
    BY DEF HeaderLen, sizeof_tlv_len
<1> QED
    BY <1>1, <1>2 DEF Increment

(* What an item that is given to another changes. *)
Attached(g, s, n, t, i) ==
    \A j \in 1..n :
        /\ g[j].obj_type = s[j].obj_type /\ g[j].type = s[j].type /\ g[j].value = s[j].value
        /\ g[j].length = IF j \in Ancestry(s, t) THEN s[j].length + Increment(s[i])
                                                 ELSE s[j].length
        /\ g[j].child = IF j = t THEN Append(s[j].child, i) ELSE s[j].child
        /\ g[j].parent = IF j = i THEN t ELSE s[j].parent

LEMMA MaxLengthType == MaxLength \in Nat
BY DEF MaxLength

LEMMA LengthsAdd ==
    \A m \in 0..MaxLength, d \in Nat : m + d <= MaxLength => m + d \in 0..MaxLength
BY MaxLengthType

LEMMA AttachIs ==
    ASSUME type_len \in {1, 2}, NEW n \in Nat, NEW s \in [1..n -> Item], Parents(s, n),
           NEW t \in 1..n, NEW i \in 1..n, t # i,
           \A j \in Ancestry(s, t) : s[j].length + Increment(s[i]) <= MaxLength
    PROVE  Attach(s, t, i) \in [1..n -> Item] /\ Attached(Attach(s, t, i), s, n, t, i)
<1> DEFINE A == Ancestry(s, t)
           linked == [s EXCEPT ![t].child = Append(@, i), ![i].parent = t]
           g == [j \in 1..n |-> IF j \in A THEN [linked[j] EXCEPT !.length = @ + Increment(s[i])]
                                           ELSE linked[j]]
<1>1. Attach(s, t, i) = g
    BY DEF Attach
<1>2. PICK d \in Nat : d = Increment(s[i])
    BY IncrementType
<1>3. \A j \in 1..n : g[j] = IF j \in A THEN [linked[j] EXCEPT !.length = @ + d] ELSE linked[j]
    BY <1>2
<1>4. DOMAIN g = 1..n /\ g = [j \in 1..n |-> g[j]]
    OBVIOUS
<1> HIDE DEF g, A
<1>5. ASSUME NEW j \in 1..n
      PROVE  /\ g[j] \in Item
             /\ g[j].obj_type = s[j].obj_type /\ g[j].type = s[j].type /\ g[j].value = s[j].value
             /\ g[j].length = IF j \in A THEN s[j].length + d ELSE s[j].length
             /\ g[j].child = IF j = t THEN Append(s[j].child, i) ELSE s[j].child
             /\ g[j].parent = IF j = i THEN t ELSE s[j].parent
  <2>1. PICK x \in Item : x = s[j]
    OBVIOUS
  <2>2. PICK c : c = IF j = t THEN Append(x.child, i) ELSE x.child
    OBVIOUS
  <2>3. PICK l : l = IF j \in A THEN x.length + d ELSE x.length
    OBVIOUS
  <2>4. PICK p : p = IF j = i THEN t ELSE x.parent
    OBVIOUS
  <2>5. c \in Seq(Nat)
    <3>1. x.child \in Seq(Nat) /\ i \in Nat
      BY ItemIs
    <3> QED
      BY <2>2, <3>1, AppendProperties
  <2>6. l \in 0..MaxLength
    <3>1. PICK m \in 0..MaxLength : m = x.length
      BY ItemIs
    <3>2. CASE j \in A
      <4>1. l = m + d
        BY <2>3, <3>1, <3>2
      <4>2. s[j].length + Increment(s[i]) <= MaxLength
        BY <3>2 DEF A
      <4>3. m + d <= MaxLength
        BY <1>2, <2>1, <3>1, <4>2
      <4> QED
        BY <1>2, <3>1, <4>1, <4>3, LengthsAdd, Zenon
    <3>3. CASE j \notin A
      BY <2>3, <3>1, <3>3
    <3> QED
      BY <3>2, <3>3
  <2>7. p \in Nat
    <3>1. x.parent \in Nat /\ t \in Nat
      BY ItemIs
    <3> QED
      BY <2>4, <3>1
  <2>8. linked[j] = [x EXCEPT !.child = c, !.parent = p]
    <3>1. x = [x EXCEPT !.child = x.child, !.parent = x.parent]
      BY DEF Item
    <3>2. CASE j = t
      <4>1. linked[j] = [x EXCEPT !.child = Append(x.child, i)] /\ j # i
        BY <2>1, <3>2
      <4>2. [x EXCEPT !.child = c] = [x EXCEPT !.child = c, !.parent = x.parent]
        BY DEF Item
      <4> HIDE DEF linked
      <4> QED
        BY <2>2, <2>4, <3>2, <4>1, <4>2
    <3>3. CASE j = i
      <4>1. linked[j] = [x EXCEPT !.parent = t] /\ j # t
        BY <2>1, <3>3
      <4>2. [x EXCEPT !.parent = t] = [x EXCEPT !.child = x.child, !.parent = t]
        BY DEF Item
      <4> HIDE DEF linked
      <4> QED
        BY <2>2, <2>4, <3>3, <4>1, <4>2
    <3>4. CASE j # t /\ j # i
      <4>1. linked[j] = x
        BY <2>1, <3>4
      <4> HIDE DEF linked
      <4> QED
        BY <2>2, <2>4, <3>1, <3>4, <4>1
    <3> QED
      BY <3>2, <3>3, <3>4
  <2> HIDE DEF linked
  <2>9. g[j] = Changed(x, l, c, p)
    <3>1. g[j] = IF j \in A THEN [linked[j] EXCEPT !.length = @ + d] ELSE linked[j]
      BY <1>3
    <3>2. CASE j \in A
      <4>1. g[j] = [linked[j] EXCEPT !.length = @ + d] /\ l = x.length + d
        BY <2>3, <3>1, <3>2
      <4>2. linked[j].length = x.length
        BY <2>8 DEF Item
      <4>3. g[j] = [linked[j] EXCEPT !.length = l]
        BY <4>1, <4>2
      <4>4. g[j] = [[x EXCEPT !.child = c, !.parent = p] EXCEPT !.length = l]
        BY <2>8, <4>3
      <4> QED
        BY <4>4 DEF Item, Changed
    <3>3. CASE j \notin A
      <4>1. g[j] = [x EXCEPT !.child = c, !.parent = p] /\ l = x.length
        BY <2>3, <2>8, <3>1, <3>3
      <4> QED
        BY <4>1 DEF Item, Changed
    <3> QED
      BY <3>2, <3>3
  <2>10. g[j] \in Item
    BY <2>5, <2>6, <2>7, <2>9, ChangedIs
  <2>11. /\ g[j].obj_type = x.obj_type /\ g[j].type = x.type /\ g[j].value = x.value
         /\ g[j].length = l /\ g[j].child = c /\ g[j].parent = p
    BY <2>9, ChangedIs
  <2> QED
    BY <2>1, <2>2, <2>3, <2>4, <2>10, <2>11
<1>6. g \in [1..n -> Item]
    BY <1>4, <1>5
<1>7. Attached(g, s, n, t, i)
    BY <1>2, <1>5 DEF Attached, A
<1> QED
    BY <1>1, <1>6, <1>7

LEMMA SumsSame ==
    ASSUME NEW m \in Nat, NEW w, NEW x, Sums(w, m, x), NEW z, \A k \in 1..m : z[k] = w[k]
    PROVE  Sums(z, m, x)
BY DEF Sums

LEMMA SumsOneMore ==
    ASSUME NEW m \in Nat, NEW w, NEW x \in Nat, Sums(w, m, x), NEW d \in Nat,
           NEW z, \A k \in 1..m : z[k] = w[k], z[m + 1] = d
    PROVE  Sums(z, m + 1, x + d)
<1>1. PICK u \in [0..m -> Nat] : u[0] = 0 /\ u[m] = x /\ \A k \in 1..m : u[k] = u[k - 1] + w[k]
    BY DEF Sums
<1> DEFINE v == [k \in 0..m + 1 |-> IF k <= m THEN u[k] ELSE x + d]
<1>2. v \in [0..m + 1 -> Nat] /\ v[m + 1] = x + d /\ \A k \in 0..m : v[k] = u[k]
    BY <1>1
<1> HIDE DEF v
<1>3. ASSUME NEW k \in 1..m + 1
      PROVE  v[k] = v[k - 1] + z[k]
  <2>1. CASE k = m + 1
    BY <1>1, <1>2, <2>1
  <2>2. CASE k # m + 1
    <3>1. k \in 1..m /\ k \in 0..m /\ k - 1 \in 0..m
      BY <2>2
    <3> QED
      BY <1>1, <1>2, <3>1
  <2> QED
    BY <2>1, <2>2
<1>4. v[0] = 0
    BY <1>1, <1>2
<1> QED
    BY <1>2, <1>3, <1>4 DEF Sums

LEMMA SumsOneLonger ==
    ASSUME NEW m \in Nat, NEW w \in [1..m -> Nat], NEW x \in Nat, Sums(w, m, x),
           NEW d \in Nat, NEW q \in 1..m,
           NEW z, \A k \in 1..m : z[k] = IF k = q THEN w[k] + d ELSE w[k]
    PROVE  Sums(z, m, x + d)
<1>1. PICK u \in [0..m -> Nat] : u[0] = 0 /\ u[m] = x /\ \A k \in 1..m : u[k] = u[k - 1] + w[k]
    BY DEF Sums
<1> DEFINE v == [k \in 0..m |-> IF k < q THEN u[k] ELSE u[k] + d]
<1>2. v \in [0..m -> Nat] /\ v[0] = 0 /\ v[m] = x + d
    BY <1>1
<1>3. \A k \in 0..m : v[k] = IF k < q THEN u[k] ELSE u[k] + d
    OBVIOUS
<1> HIDE DEF v
<1>4. ASSUME NEW k \in 1..m
      PROVE  v[k] = v[k - 1] + z[k]
  <2>1. k \in 0..m /\ k - 1 \in 0..m
    OBVIOUS
  <2>2. PICK a \in Nat, b \in Nat : a = u[k - 1] /\ b = w[k]
    BY <1>1, <2>1
  <2>3. u[k] = a + b /\ v[k - 1] = IF k - 1 < q THEN a ELSE a + d
    BY <1>1, <1>3, <2>1, <2>2
  <2>4. v[k] = IF k < q THEN a + b ELSE (a + b) + d
    BY <1>3, <2>1, <2>3
  <2>5. z[k] = IF k = q THEN b + d ELSE b
    BY <2>2
  <2> QED
    BY <2>2, <2>3, <2>4, <2>5
<1> QED
    BY <1>2, <1>4 DEF Sums

(* The children of an item are items, and what they add are numbers.       *)
LEMMA WeightsType ==
    ASSUME type_len \in {1, 2}, NEW n \in Nat, NEW s \in [1..n -> Item], Linked(s, n),
           NEW j \in 1..n
    PROVE  /\ Len(s[j].child) \in Nat
           /\ Weights(s, j) \in [1..Len(s[j].child) -> Nat]
           /\ \A k \in 1..Len(s[j].child) : /\ s[j].child[k] \in 1..n
                                            /\ Weights(s, j)[k] = Increment(s[s[j].child[k]])
<1>1. s[j] \in Item /\ Len(s[j].child) \in Nat
    BY ItemIs
<1>2. \A k \in 1..Len(s[j].child) : s[j].child[k] \in 1..n
    BY ChildIs DEF Children
<1>3. \A k \in 1..Len(s[j].child) : Increment(s[s[j].child[k]]) \in Nat
    BY <1>2, IncrementType
<1> QED
    BY <1>1, <1>2, <1>3 DEF Weights

(* A new item is above and below none. *)
LEMMA AncestryAppend ==
    ASSUME NEW n \in Nat, NEW s, DOMAIN s = 1..n, Parents(s, n), NEW t \in 1..n,
           NEW g, DOMAIN g = 1..n + 1, \A j \in 1..n : g[j] = s[j], g[n + 1].parent = NULL
    PROVE  Ancestry(g, t) = Ancestry(s, t)
<1>1. Parents(g, n + 1) /\ n + 1 \in Nat /\ t \in 1..n + 1
    BY DEF Parents
<1>2. /\ Ancestry(s, t) \subseteq 1..n /\ t \in Ancestry(s, t) /\ Climbs(s, Ancestry(s, t))
      /\ \A B \in SUBSET 1..n : t \in B /\ Climbs(s, B) => Ancestry(s, t) \subseteq B
    BY AncestryIs
<1>3. /\ Ancestry(g, t) \subseteq 1..n + 1 /\ t \in Ancestry(g, t) /\ Climbs(g, Ancestry(g, t))
      /\ \A B \in SUBSET 1..n + 1 : t \in B /\ Climbs(g, B) => Ancestry(g, t) \subseteq B
    BY <1>1, AncestryIs
<1>4. Ancestry(g, t) \subseteq Ancestry(s, t)
  <2>1. Ancestry(s, t) \in SUBSET 1..n + 1 /\ Climbs(g, Ancestry(s, t))
    BY <1>2 DEF Climbs
  <2> QED
    BY <1>2, <1>3, <2>1
<1>5. Ancestry(s, t) \subseteq Ancestry(g, t)
  <2> DEFINE B == Ancestry(g, t) \cap 1..n
  <2>1. B \in SUBSET 1..n /\ t \in B /\ Climbs(s, B)
    BY <1>3 DEF Climbs, Parents
  <2> HIDE DEF B
  <2>2. Ancestry(s, t) \subseteq B
    BY <1>2, <2>1
  <2> QED
    BY <2>2 DEF B
<1> QED
    BY <1>4, <1>5

LEMMA AppendKeeps ==
    ASSUME type_len \in {1, 2}, NEW n \in Nat, NEW s, Good(s, n),
           NEW x \in Item, x.parent = NULL, x.child = <<>>,
           x.length = IF x.obj_type = "tlv" THEN Len(x.value) ELSE 0,
           NEW g \in [1..n + 1 -> Item], \A j \in 1..n : g[j] = s[j], g[n + 1] = x
    PROVE  Good(g, n + 1)
<1> USE DEF NULL
<1>1. s \in [1..n -> Item] /\ Parents(s, n) /\ Linked(s, n) /\ Ranked(s, n) /\ Counted(s, n)
    BY DEF Good
<1>3. Parents(g, n + 1)
    BY <1>1 DEF Parents
<1>4. Linked(g, n + 1)
  <2> SUFFICES ASSUME NEW t \in 1..n + 1
               PROVE  /\ IsInjective(g[t].child)
                      /\ ToSet(g[t].child) = {i \in 1..n + 1 : g[i].parent = t}
    BY DEF Linked
  <2>1. CASE t = n + 1
    <3>1. g[t].child = <<>>
      BY <2>1
    <3>2. IsInjective(<<>>) /\ ToSet(<<>>) = {}
      BY DEF IsInjective, ToSet
    <3>3. \A i \in 1..n + 1 : g[i].parent # n + 1
      BY <1>1 DEF Parents
    <3> QED
      BY <2>1, <3>1, <3>2, <3>3
  <2>2. CASE t # n + 1
    <3>1. t \in 1..n /\ g[t] = s[t]
      BY <2>2
    <3>2. /\ IsInjective(s[t].child)
          /\ ToSet(s[t].child) = {i \in 1..n : s[i].parent = t}
      BY <1>1, <3>1 DEF Linked
    <3>3. {i \in 1..n : s[i].parent = t} = {i \in 1..n + 1 : g[i].parent = t}
      BY <3>1
    <3> QED
      BY <3>1, <3>2, <3>3
  <2> QED
    BY <2>1, <2>2
<1>5. Ranked(g, n + 1)
  <2>0. PICK N \in Nat : \E r \in [1..n -> 0..N] : Ranks(r, s, n)
    BY <1>1 DEF Ranked
  <2>1. PICK r \in [1..n -> 0..N] : Ranks(r, s, n)
    BY <2>0
  <2> DEFINE q == [j \in 1..n + 1 |-> IF j \in 1..n THEN r[j] ELSE 0]
  <2>2. q \in [1..n + 1 -> 0..N] /\ \A j \in 1..n : q[j] = r[j]
    BY <2>1
  <2> HIDE DEF q
  <2>3. Ranks(q, g, n + 1)
    BY <1>1, <2>1, <2>2 DEF Ranks, Parents
  <2> QED
    BY <2>0, <2>2, <2>3 DEF Ranked
<1>6. Counted(g, n + 1)
  <2> SUFFICES ASSUME NEW j \in 1..n + 1
               PROVE  IF g[j].obj_type = "tlv"
                      THEN g[j].child = <<>> /\ g[j].length = Len(g[j].value)
                      ELSE Sums(Weights(g, j), Len(g[j].child), g[j].length)
    BY DEF Counted
  <2>1. CASE j = n + 1
    <3>1. g[j] = x
      BY <2>1
    <3>2. CASE x.obj_type = "tlv"
      BY <3>1, <3>2
    <3>3. CASE x.obj_type # "tlv"
      <4>1. Len(g[j].child) = 0 /\ g[j].length = 0
        BY <3>1, <3>3
      <4> DEFINE u == [k \in 0..0 |-> 0]
      <4>2. u \in [0..0 -> Nat] /\ u[0] = 0 /\ \A k \in 1..0 : FALSE
        OBVIOUS
      <4> HIDE DEF u
      <4>3. Sums(Weights(g, j), 0, 0)
        BY <4>2 DEF Sums
      <4> QED
        BY <3>1, <3>3, <4>1, <4>3
    <3> QED
      BY <3>2, <3>3
  <2>2. CASE j # n + 1
    <3>1. j \in 1..n /\ g[j] = s[j]
      BY <2>2
    <3>2. CASE s[j].obj_type = "tlv"
      BY <1>1, <3>1, <3>2 DEF Counted
    <3>3. CASE s[j].obj_type # "tlv"
      <4>1. Sums(Weights(s, j), Len(s[j].child), s[j].length)
        BY <1>1, <3>1, <3>3 DEF Counted
      <4>2. PICK m \in Nat : m = Len(s[j].child)
        BY <1>1, <3>1, WeightsType
      <4>3. \A k \in 1..m : /\ s[j].child[k] \in 1..n
                            /\ Weights(s, j)[k] = Increment(s[s[j].child[k]])
        BY <1>1, <3>1, <4>2, WeightsType
      <4>4. \A k \in 1..m : Weights(g, j)[k] = Increment(g[s[j].child[k]])
        BY <3>1, <4>2 DEF Weights
      <4>5. \A k \in 1..m : Weights(g, j)[k] = Weights(s, j)[k]
        BY <4>3, <4>4
      <4>6. Sums(Weights(g, j), m, s[j].length)
        BY <4>1, <4>2, <4>5, SumsSame
      <4> QED
        BY <3>1, <3>3, <4>2, <4>6
    <3> QED
      BY <3>2, <3>3
  <2> QED
    BY <2>1, <2>2
<1> QED
    BY <1>3, <1>4, <1>5, <1>6 DEF Good

(* Every item of A, and no other, adds d more than before. *)
Grows(g, s, n, A, d) ==
    \A c \in 1..n : Increment(g[c]) = IF c \in A THEN Increment(s[c]) + d ELSE Increment(s[c])

LEMMA AttachedIncrement ==
    ASSUME type_len \in {1, 2}, NEW n \in Nat, NEW s \in [1..n -> Item], NEW t, NEW i \in 1..n,
           NEW g, Attached(g, s, n, t, i), NEW d \in Nat, d = Increment(s[i])
    PROVE  Grows(g, s, n, Ancestry(s, t), d)
<1> SUFFICES ASSUME NEW c \in 1..n
             PROVE  Increment(g[c]) = IF c \in Ancestry(s, t) THEN Increment(s[c]) + d
                                                              ELSE Increment(s[c])
    BY DEF Grows
<1>1. PICK m \in Nat : m = s[c].length
    BY ItemIs
<1>2. PICK h \in Nat : h = HeaderLen
    BY DEF HeaderLen, sizeof_tlv_len
<1>3. /\ g[c].obj_type = s[c].obj_type
      /\ g[c].length = IF c \in Ancestry(s, t) THEN m + d ELSE m
    BY <1>1 DEF Attached
<1>4. Increment(s[c]) = IF s[c].obj_type = "object" THEN m ELSE h + m
    BY <1>1, <1>2 DEF Increment
<1>5. Increment(g[c]) = IF s[c].obj_type = "object" THEN g[c].length ELSE h + g[c].length
    BY <1>2, <1>3 DEF Increment
<1> QED
    BY <1>1, <1>2, <1>3, <1>4, <1>5

(* Giving one item to another keeps it all: the sums of all the items above*)
(* grow by the same number.                                                *)
LEMMA AttachKeeps ==
    ASSUME type_len \in {1, 2}, NEW n \in Nat, NEW s, Good(s, n), NEW t \in 1..n, NEW i \in 1..n,
           s[t].obj_type # "tlv", s[i].parent = NULL, i \notin Ancestry(s, t),
           \A j \in Ancestry(s, t) : s[j].length + Increment(s[i]) <= MaxLength
    PROVE  Good(Attach(s, t, i), n)
<1>1. s \in [1..n -> Item] /\ Parents(s, n) /\ Linked(s, n) /\ Ranked(s, n) /\ Counted(s, n)
    BY DEF Good
<1>2. PICK N \in Nat : \E r \in [1..n -> 0..N] : Ranks(r, s, n)
    BY <1>1 DEF Ranked
<1>3. PICK r \in [1..n -> 0..N] : Ranks(r, s, n)
    BY <1>2
<1>4. PICK A : A = Ancestry(s, t)
    OBVIOUS
<1>5. A \subseteq 1..n /\ t \in A /\ \A j \in A : s[j].parent # NULL => s[j].parent \in A
    BY <1>1, <1>4, AncestryIs DEF Climbs
<1>6. /\ \A j \in A : r[t] <= r[j]
      /\ \A j \in A \ {t} : \E c \in A : s[c].parent = j
      /\ \A c, e \in A : s[c].parent = s[e].parent /\ s[c].parent # NULL => c = e
    BY <1>1, <1>2, <1>3, <1>4, AncestryIsChain
<1>7. t # i /\ i \notin A
    BY <1>4, <1>5
<1>8. PICK d \in Nat : d = Increment(s[i])
    BY <1>1, IncrementType
<1>9. PICK g : g = Attach(s, t, i)
    OBVIOUS
<1>10. g \in [1..n -> Item] /\ Attached(g, s, n, t, i)
    BY <1>1, <1>7, <1>9, AttachIs
<1>11. \A j \in 1..n :
          /\ g[j].obj_type = s[j].obj_type /\ g[j].value = s[j].value
          /\ g[j].length = IF j \in A THEN s[j].length + d ELSE s[j].length
          /\ g[j].child = IF j = t THEN Append(s[j].child, i) ELSE s[j].child
          /\ g[j].parent = IF j = i THEN t ELSE s[j].parent
    BY <1>4, <1>8, <1>10 DEF Attached
<1>12. \A c \in 1..n :
          Increment(g[c]) = IF c \in A THEN Increment(s[c]) + d ELSE Increment(s[c])
  <2>1. Grows(g, s, n, A, d)
    BY <1>1, <1>4, <1>8, <1>10, AttachedIncrement
  <2> QED
    BY <2>1 DEF Grows
<1>13. Parents(g, n)
    BY <1>1, <1>11 DEF Parents
<1>14. Linked(g, n)
  <2> SUFFICES ASSUME NEW j \in 1..n
               PROVE  /\ IsInjective(g[j].child)
                      /\ ToSet(g[j].child) = {k \in 1..n : g[k].parent = j}
    BY DEF Linked
  <2>1. /\ IsInjective(s[j].child)
        /\ ToSet(s[j].child) = {k \in 1..n : s[k].parent = j}
    BY <1>1 DEF Linked
  <2>2. CASE j = t
    <3>1. g[j].child = Append(s[j].child, i)
      BY <1>11, <2>2
    <3>2. i \notin ToSet(s[j].child)
      BY <2>1 DEF NULL
    <3>3. s[j].child \in Seq(Nat) /\ i \in Nat
      BY <1>1, ItemIs
    <3>4. /\ ToSet(g[j].child) = ToSet(s[j].child) \cup {i}
          /\ IsInjective(g[j].child)
      BY <2>1, <3>1, <3>2, <3>3, AppendSet
    <3>5. {k \in 1..n : g[k].parent = j} = {k \in 1..n : s[k].parent = j} \cup {i}
      BY <1>11, <2>2
    <3> QED
      BY <2>1, <3>4, <3>5
  <2>3. CASE j # t
    <3>1. g[j].child = s[j].child
      BY <1>11, <2>3
    <3>2. {k \in 1..n : g[k].parent = j} = {k \in 1..n : s[k].parent = j}
      <4>1. s[i].parent # j /\ g[i].parent # j
        BY <1>11, <2>3 DEF NULL
      <4>2. \A k \in 1..n : k # i => g[k].parent = s[k].parent
        BY <1>11
      <4> QED
        BY <4>1, <4>2
    <3> QED
      BY <2>1, <3>1, <3>2
  <2> QED
    BY <2>2, <2>3
<1>15. Ranked(g, n)
  <2> DEFINE q == [j \in 1..n |-> IF j \in A THEN r[j] + r[i] + 1 ELSE r[j]]
  <2>1. q \in [1..n -> 0..2 * N + 1]
    BY <1>2, <1>3
  <2>2. \A j \in 1..n : q[j] = IF j \in A THEN r[j] + r[i] + 1 ELSE r[j]
    OBVIOUS
  <2> HIDE DEF q
  <2>3. ASSUME NEW k \in 1..n, g[k].parent # NULL PROVE q[k] < q[g[k].parent]
    <3>1. \A j \in 1..n : r[j] \in Nat
      BY <1>2, <1>3
    <3>2. CASE k = i
      <4>1. g[k].parent = t /\ q[k] = r[i] /\ q[t] = r[t] + r[i] + 1
        BY <1>5, <1>7, <1>11, <2>2, <3>2
      <4> QED
        BY <3>1, <4>1
    <3>3. CASE k # i
      <4>1. g[k].parent = s[k].parent /\ s[k].parent # NULL
        BY <1>11, <2>3, <3>3
      <4>2. PICK p \in 1..n : p = s[k].parent
        BY <1>1, <4>1 DEF Parents
      <4>3. r[k] < r[p] /\ (k \in A => p \in A)
        BY <1>3, <1>5, <4>1, <4>2 DEF Ranks
      <4>4. q[k] < q[p]
        BY <2>2, <3>1, <4>3
      <4> QED
        BY <4>1, <4>2, <4>4
    <3> QED
      BY <3>2, <3>3
  <2>4. Ranks(q, g, n) /\ 2 * N + 1 \in Nat
    BY <2>3, <1>2 DEF Ranks
  <2> QED
    BY <2>1, <2>4 DEF Ranked
<1>16. Counted(g, n)
  <2> SUFFICES ASSUME NEW j \in 1..n
               PROVE  IF g[j].obj_type = "tlv"
                      THEN g[j].child = <<>> /\ g[j].length = Len(g[j].value)
                      ELSE Sums(Weights(g, j), Len(g[j].child), g[j].length)
    BY DEF Counted
  <2>1. PICK m \in Nat : m = Len(s[j].child)
    BY <1>1, WeightsType
  <2>2. PICK c \in Seq(Nat) : c = s[j].child
    BY <1>1, ItemIs
  <2>3. PICK x \in Nat : x = s[j].length
    BY <1>1, ItemIs
  <2>4. PICK w \in [1..m -> Nat] : w = Weights(s, j)
    BY <1>1, <2>1, WeightsType
  <2>5. ASSUME NEW k \in 1..m
        PROVE  c[k] \in 1..n /\ s[c[k]].parent = j /\ w[k] = Increment(s[c[k]])
    <3>1. c[k] \in 1..n /\ s[c[k]].parent = j
      <4>1. k \in 1..Len(s[j].child)
        BY <2>1
      <4>2. Children(s, n, j)
        BY <1>1, ChildIs
      <4> QED
        BY <2>2, <4>1, <4>2 DEF Children
    <3>2. w[k] = Increment(s[c[k]])
      BY <2>1, <2>2, <2>4 DEF Weights
    <3> QED
      BY <3>1, <3>2
  <2>6. s[j].obj_type # "tlv" => Sums(w, m, x)
    BY <1>1, <2>1, <2>3, <2>4 DEF Counted
  <2>7. CASE j = t
    <3>1. g[j].child = Append(c, i) /\ g[j].length = x + d /\ g[j].obj_type # "tlv"
      BY <1>5, <1>11, <2>2, <2>3, <2>7
    <3>2. PICK b : b = Append(c, i)
      OBVIOUS
    <3>3. Len(b) = m + 1 /\ b[m + 1] = i /\ \A k \in 1..m : b[k] = c[k]
      BY <2>1, <2>2, <3>2, AppendProperties
    <3>4. \A k \in 1..m : c[k] \notin A
      <4> SUFFICES ASSUME NEW k \in 1..m PROVE c[k] \notin A
        OBVIOUS
      <4>1. PICK e \in 1..n : e = c[k] /\ s[e].parent = t
        BY <2>5, <2>7
      <4>2. s[e].parent # NULL
        BY <4>1 DEF NULL
      <4>3. r[e] < r[t]
        BY <1>3, <4>1, <4>2 DEF Ranks
      <4>4. r[e] \in 0..N /\ r[t] \in 0..N
        BY <1>3, <4>1
      <4>5. ~(r[t] <= r[e])
        BY <1>2, <4>3, <4>4
      <4> QED
        BY <1>6, <4>1, <4>5
    <3>5. PICK z : z = Weights(g, j)
      OBVIOUS
    <3>6. \A k \in 1..m + 1 : z[k] = Increment(g[b[k]])
      BY <3>1, <3>2, <3>3, <3>5 DEF Weights
    <3>7. z[m + 1] = d
      <4>1. m + 1 \in 1..m + 1
        BY <2>1
      <4>2. z[m + 1] = Increment(g[i])
        BY <3>3, <3>6, <4>1
      <4> QED
        BY <1>7, <1>8, <1>12, <4>2
    <3>8. \A k \in 1..m : z[k] = w[k]
      <4> SUFFICES ASSUME NEW k \in 1..m PROVE z[k] = w[k]
        OBVIOUS
      <4>1. k \in 1..m + 1
        BY <2>1
      <4>2. z[k] = Increment(g[c[k]])
        BY <3>3, <3>6, <4>1
      <4> QED
        BY <1>12, <2>5, <3>4, <4>2
    <3>9. Sums(w, m, x)
      BY <2>6, <2>7
    <3>10. Sums(z, m + 1, x + d)
      BY <1>8, <2>1, <2>3, <3>7, <3>8, <3>9, SumsOneMore
    <3> QED
      BY <3>1, <3>2, <3>3, <3>5, <3>10
  <2>8. CASE j # t /\ j \in A
    <3>1. g[j].child = c /\ g[j].length = x + d /\ g[j].obj_type = s[j].obj_type
      BY <1>11, <2>2, <2>3, <2>8
    <3>2. PICK a \in A : s[a].parent = j
      BY <1>6, <2>8
    <3>3. PICK q \in 1..m : c[q] = a
      <4>1. a \in ToSet(s[j].child)
        BY <1>1, <1>5, <3>2 DEF Linked
      <4>2. DOMAIN c = 1..m
        BY <2>1, <2>2, LenProperties
      <4> QED
        BY <2>2, <4>1, <4>2 DEF ToSet
    <3>4. s[j].obj_type # "tlv"
      <4> SUFFICES ASSUME s[j].obj_type = "tlv" PROVE FALSE
        OBVIOUS
      <4>1. c = <<>>
        BY <1>1, <2>2 DEF Counted
      <4>2. m = 0
        BY <2>1, <2>2, <4>1
      <4> QED
        BY <3>3, <4>2
    <3>5. \A k \in 1..m : c[k] \in A <=> k = q
      <4> SUFFICES ASSUME NEW k \in 1..m, c[k] \in A PROVE k = q
        BY <3>2, <3>3
      <4>1. j # NULL
        BY DEF NULL
      <4>2. c[k] = a
        BY <1>6, <2>5, <3>2, <4>1
      <4>3. IsInjective(c) /\ DOMAIN c = 1..m
        BY <1>1, <2>1, <2>2, LenProperties DEF Linked
      <4> QED
        BY <3>3, <4>2, <4>3 DEF IsInjective
    <3>6. PICK z : z = Weights(g, j)
      OBVIOUS
    <3>7. \A k \in 1..m : z[k] = Increment(g[c[k]])
      BY <2>1, <2>2, <3>1, <3>6 DEF Weights
    <3>8. \A k \in 1..m : z[k] = IF k = q THEN w[k] + d ELSE w[k]
      <4> SUFFICES ASSUME NEW k \in 1..m PROVE z[k] = IF k = q THEN w[k] + d ELSE w[k]
        OBVIOUS
      <4>1. PICK e \in 1..n : e = c[k] /\ w[k] = Increment(s[e])
        BY <2>5
      <4>2. z[k] = IF e \in A THEN w[k] + d ELSE w[k]
        BY <1>12, <3>7, <4>1
      <4> QED
        BY <3>5, <4>1, <4>2
    <3>9. Sums(w, m, x)
      BY <2>6, <3>4
    <3>10. Sums(z, m, x + d)
      <4>1. m \in Nat /\ d \in Nat /\ x \in Nat /\ w \in [1..m -> Nat] /\ q \in 1..m
        BY <1>8, <2>1, <2>3, <2>4, <3>3
      <4> QED
        BY <3>8, <3>9, <4>1, SumsOneLonger
    <3> QED
      BY <2>1, <2>2, <3>1, <3>4, <3>6, <3>10
  <2>9. CASE j \notin A
    <3>1. /\ g[j].child = c /\ g[j].length = x
          /\ g[j].obj_type = s[j].obj_type /\ g[j].value = s[j].value
      BY <1>5, <1>11, <2>2, <2>3, <2>9
    <3>2. CASE s[j].obj_type = "tlv"
      BY <1>1, <2>2, <2>3, <3>1, <3>2 DEF Counted
    <3>3. CASE s[j].obj_type # "tlv"
      <4>1. \A k \in 1..m : c[k] \notin A
        <5>1. j # NULL
          BY DEF NULL
        <5> QED
          BY <1>5, <2>5, <2>9, <5>1
      <4>2. PICK z : z = Weights(g, j)
        OBVIOUS
      <4>3. \A k \in 1..m : z[k] = Increment(g[c[k]])
        BY <2>1, <2>2, <3>1, <4>2 DEF Weights
      <4>4. \A k \in 1..m : z[k] = w[k]
        BY <1>12, <2>5, <4>1, <4>3
      <4>5. Sums(w, m, x)
        BY <2>6, <3>3
      <4>6. Sums(z, m, x)
        BY <2>1, <4>4, <4>5, SumsSame
      <4> QED
        BY <2>1, <2>2, <3>1, <3>3, <4>2, <4>6
    <3> QED
      BY <3>2, <3>3
  <2> QED
    BY <2>7, <2>8, <2>9
<1> QED
    BY <1>9, <1>10, <1>13, <1>14, <1>15, <1>16 DEF Good

-----------------------------------------------------------------------------
(* The inductive invariant *)

(* The inductive invariant. *)
CodecInv ==
    /\ type_len \in {1, 2}
    /\ IsSeq(items, Item) /\ Good(items, Len(items))

LEMMA TypeRanges == Byte \subseteq 0..MaxLength /\ 0 \in TypeRange /\ TypeRange \subseteq 0..MaxLength
<1>1. MaxLength >= 255
    BY DEF MaxLength
<1> QED
    BY <1>1, MaxLengthType DEF Byte, TypeRange

LEMMA TypesType ==
    ASSUME type_len \in {1, 2}
    PROVE  Types[type_len] \subseteq TypeRange
<1>1. CASE type_len = 1
    BY <1>1, CodecAssumption DEF TypeRange
<1>2. CASE type_len = 2
    BY <1>2, CodecAssumption DEF TypeRange
<1> QED
    BY <1>1, <1>2

LEMMA ValuesType == \A v \in Values : v \in Seq(Byte) /\ Len(v) \in 0..MaxLength
<1>1. \A v \in Values : v \in Seq(Byte) /\ Len(v) <= MaxLength
    BY CodecAssumption
<1>2. \A v \in Values : Len(v) \in Nat
    BY <1>1, LenProperties
<1> QED
    BY <1>1, <1>2, MaxLengthType

NewIs(x, k, t, v) ==
    /\ x \in Item /\ x.parent = NULL /\ x.child = <<>> /\ x.obj_type = k
    /\ x.type = t /\ x.value = v /\ x.length = Len(v)

LEMMA NewItemIs ==
    ASSUME NEW k \in {"tlv", "object", "array"}, NEW t \in TypeRange,
           NEW v, IsSeq(v, Byte), Len(v) \in 0..MaxLength
    PROVE  NewIs(NewItem(k, t, v), k, t, v)
<1>1. NULL \in Nat /\ <<>> \in Seq(Nat)
    BY EmptySeq DEF NULL
<1> QED
    BY <1>1 DEF NewIs, NewItem, Item, IsSeq

LEMMA NewItemKeeps ==
    ASSUME CodecInv, NEW k \in {"tlv", "object", "array"}, NEW t \in TypeRange,
           NEW v, IsSeq(v, Byte), Len(v) \in 0..MaxLength, k # "tlv" => v = <<>>
    PROVE  /\ IsSeq(Append(items, NewItem(k, t, v)), Item)
           /\ Len(Append(items, NewItem(k, t, v))) = Len(items) + 1
           /\ Good(Append(items, NewItem(k, t, v)), Len(items) + 1)
<1>1. PICK x : x = NewItem(k, t, v)
    OBVIOUS
<1>2. NewIs(x, k, t, v)
    BY <1>1, NewItemIs
<1>3. PICK s : s = items
    OBVIOUS
<1>4. type_len \in {1, 2} /\ IsSeq(s, Item) /\ Good(s, Len(s))
    BY <1>3 DEF CodecInv
<1>5. PICK n \in Nat : n = Len(s)
    BY <1>4, LenProperties DEF IsSeq
<1>6. PICK g : g = Append(s, x)
    OBVIOUS
<1>7. IsSeq(g, Item) /\ Len(g) = n + 1 /\ g[n + 1] = x /\ \A j \in 1..n : g[j] = s[j]
    BY <1>2, <1>4, <1>5, <1>6, AppendProperties DEF IsSeq, NewIs
<1>8. g \in [1..n + 1 -> Item]
    BY <1>7, LenProperties DEF IsSeq
<1>9. x.length = IF x.obj_type = "tlv" THEN Len(x.value) ELSE 0
  <2>1. CASE k = "tlv"
    BY <1>2, <2>1 DEF NewIs
  <2>2. CASE k # "tlv"
    BY <1>2, <2>2 DEF NewIs
  <2> QED
    BY <2>1, <2>2
<1>10. Good(g, n + 1)
    BY <1>2, <1>4, <1>5, <1>7, <1>8, <1>9, AppendKeeps DEF NewIs
<1> QED
    BY <1>1, <1>3, <1>5, <1>6, <1>7, <1>10

LEMMA CodecInit == Init => CodecInv
<1> SUFFICES ASSUME Init PROVE CodecInv
    OBVIOUS
<1>1. items = <<>> /\ type_len \in {1, 2} /\ Len(<<>>) = 0
    BY DEF Init
<1>2. IsSeq(<<>>, Item)
    BY EmptySeq DEF IsSeq
<1>3. <<>> \in [1..0 -> Item]
    BY <1>2, LenProperties, Len(<<>>) = 0 DEF IsSeq
<1>4. \A i \in 1..0 : FALSE
    OBVIOUS
<1>5. Ranked(<<>>, 0)
  <2> DEFINE r == [j \in 1..0 |-> 0]
  <2>1. r \in [1..0 -> 0..0]
    OBVIOUS
  <2> HIDE DEF r
  <2>2. Ranks(r, <<>>, 0)
    BY <1>4 DEF Ranks
  <2> QED
    BY <2>1, <2>2 DEF Ranked
<1>6. Parents(<<>>, 0) /\ Linked(<<>>, 0) /\ Counted(<<>>, 0)
    BY <1>4 DEF Parents, Linked, Counted
<1> QED
    BY <1>1, <1>2, <1>3, <1>5, <1>6 DEF CodecInv, Good

(* Good and Item have type_len in them, which no step changes. *)
LEMMA StaysGood ==
    ASSUME type_len \in {1, 2}, type_len' = type_len, IsSeq(items', Item), NEW n, n = Len(items'),
           Good(items', n)
    PROVE  CodecInv'
<1>1. TypeRange' = TypeRange /\ HeaderLen' = HeaderLen
    BY DEF TypeRange, HeaderLen
<1>2. Item' = Item
    BY <1>1 DEF Item
<1>3. PICK s : s = items'
    OBVIOUS
<1>4. ASSUME NEW x PROVE Increment(x)' = Increment(x)
    BY <1>1 DEF Increment
<1>5. ASSUME NEW i PROVE Weights(s, i)' = Weights(s, i)
    BY <1>4 DEF Weights
<1>6. Counted(s, n) => Counted(s, n)'
    BY <1>5 DEF Counted, Sums
<1>7. Good(s, n)'
    BY <1>2, <1>3, <1>6 DEF Good, Parents, Linked, Ranked, Ranks
<1> QED
    BY <1>2, <1>3, <1>7 DEF CodecInv

LEMMA CreateKeeps ==
    ASSUME CodecInv, NEW k \in {"tlv", "object", "array"}, NEW t \in TypeRange,
           NEW v, IsSeq(v, Byte), Len(v) \in 0..MaxLength, k # "tlv" => v = <<>>,
           Create(NewItem(k, t, v))
    PROVE  CodecInv'
<1>1. items' = Append(items, NewItem(k, t, v)) /\ type_len' = type_len
    BY DEF Create
<1>2. /\ IsSeq(items', Item) /\ Len(items') = Len(items) + 1 /\ Good(items', Len(items) + 1)
      /\ type_len \in {1, 2}
    BY <1>1, NewItemKeeps DEF CodecInv
<1> QED
    BY <1>1, <1>2, StaysGood

LEMMA AddItemKeeps ==
    ASSUME CodecInv, NEW t \in DOMAIN items, NEW i \in DOMAIN items, Kami_Tlv_AddItemToObject(t, i)
    PROVE  CodecInv'
<1>1. PICK s : s = items
    OBVIOUS
<1>2. type_len \in {1, 2} /\ IsSeq(s, Item) /\ Good(s, Len(s))
    BY <1>1 DEF CodecInv
<1>3. PICK n \in Nat : n = Len(s)
    BY <1>2, LenProperties DEF IsSeq
<1>4. t \in 1..n /\ i \in 1..n
    BY <1>1, <1>2, <1>3, LenProperties DEF IsSeq
<1>5. /\ s[t].obj_type # "tlv" /\ s[i].parent = NULL /\ i \notin Ancestry(s, t)
      /\ \A j \in Ancestry(s, t) : s[j].length + Increment(s[i]) <= MaxLength
      /\ items' = Attach(s, t, i) /\ type_len' = type_len
    BY <1>1 DEF Kami_Tlv_AddItemToObject, Fits
<1>6. Good(items', n)
    BY <1>2, <1>3, <1>4, <1>5, AttachKeeps
<1>7. items' \in [1..n -> Item]
    BY <1>6 DEF Good
<1>8. IsSeq(items', Item) /\ Len(items') = n
    BY <1>7, FunctionIsSeq DEF IsSeq
<1> QED
    BY <1>2, <1>5, <1>6, <1>8, StaysGood

LEMMA AddTlvKeeps ==
    ASSUME CodecInv, NEW t \in DOMAIN items, NEW type \in Types[type_len], NEW v \in Values,
           Kami_Tlv_AddTlvToObject(t, type, v)
    PROVE  CodecInv'
<1>1. PICK s : s = items
    OBVIOUS
<1>2. type_len \in {1, 2} /\ IsSeq(s, Item) /\ Good(s, Len(s))
    BY <1>1 DEF CodecInv
<1>3. PICK n \in Nat : n = Len(s)
    BY <1>2, LenProperties DEF IsSeq
<1>4. t \in 1..n
    BY <1>1, <1>2, <1>3, LenProperties DEF IsSeq
<1>5. PICK x : x = NewItem("tlv", type, v)
    OBVIOUS
<1>6. IsSeq(v, Byte) /\ Len(v) \in 0..MaxLength /\ type \in TypeRange
    BY <1>2, ValuesType, TypesType DEF IsSeq
<1>7. NewIs(x, "tlv", type, v)
    BY <1>5, <1>6, NewItemIs
<1>8. PICK g : g = Append(s, x)
    OBVIOUS
<1>9. IsSeq(g, Item) /\ Len(g) = n + 1 /\ Good(g, n + 1)
    BY <1>1, <1>3, <1>5, <1>6, <1>8, NewItemKeeps
<1>10. g[n + 1] = x /\ \A j \in 1..n : g[j] = s[j]
    BY <1>2, <1>3, <1>7, <1>8, AppendProperties DEF IsSeq, NewIs
<1>11. DOMAIN g = 1..n + 1 /\ DOMAIN s = 1..n
    BY <1>2, <1>3, <1>9, LenProperties DEF IsSeq
<1>12. Ancestry(g, t) = Ancestry(s, t) /\ Ancestry(s, t) \subseteq 1..n
    BY <1>2, <1>3, <1>4, <1>7, <1>10, <1>11, AncestryAppend, AncestryIs DEF Good, NewIs
<1>13. /\ s[t].obj_type # "tlv" /\ type_len' = type_len
       /\ \A j \in Ancestry(s, t) : s[j].length + (HeaderLen + Len(v)) <= MaxLength
       /\ items' = Attach(g, t, n + 1)
    BY <1>1, <1>3, <1>5, <1>8 DEF Kami_Tlv_AddTlvToObject, Fits
<1>14. Increment(x) = HeaderLen + Len(v)
    BY <1>7 DEF Increment, NewIs
<1>15. n + 1 \notin Ancestry(g, t)
    BY <1>3, <1>12
<1>16. /\ t \in 1..n + 1 /\ n + 1 \in 1..n + 1 /\ g[t].obj_type # "tlv" /\ g[n + 1].parent = NULL
       /\ \A j \in Ancestry(g, t) : g[j].length + Increment(g[n + 1]) <= MaxLength
    BY <1>3, <1>4, <1>7, <1>10, <1>12, <1>13, <1>14 DEF NewIs
<1>17. Good(items', n + 1)
    BY <1>2, <1>3, <1>9, <1>13, <1>15, <1>16, AttachKeeps
<1>18. items' \in [1..n + 1 -> Item]
    BY <1>17 DEF Good
<1>19. IsSeq(items', Item) /\ Len(items') = n + 1
    BY <1>3, <1>18, FunctionIsSeq DEF IsSeq
<1> QED
    BY <1>2, <1>13, <1>17, <1>19, StaysGood

LEMMA CodecNext == CodecInv /\ [Next]_vars => CodecInv'
<1> SUFFICES ASSUME CodecInv, [Next]_vars PROVE CodecInv'
    OBVIOUS
<1>1. type_len \in {1, 2} /\ IsSeq(<<>>, Byte) /\ Len(<<>>) \in 0..MaxLength
    BY EmptySeq, MaxLengthType, Len(<<>>) = 0 DEF CodecInv, IsSeq
<1>2. CASE Kami_Tlv_CreateObject
    BY <1>1, <1>2, TypeRanges, CreateKeeps DEF Kami_Tlv_CreateObject
<1>3. ASSUME NEW t \in Types[type_len], Kami_Tlv_CreateArray(t) PROVE CodecInv'
    BY <1>1, <1>3, TypesType, CreateKeeps DEF Kami_Tlv_CreateArray
<1>4. ASSUME NEW t \in Types[type_len], NEW v \in Values, Kami_Tlv_CreateTlv(t, v) PROVE CodecInv'
  <2>1. t \in TypeRange /\ IsSeq(v, Byte) /\ Len(v) \in 0..MaxLength
    BY <1>1, TypesType, ValuesType DEF IsSeq
  <2> QED
    BY <1>4, <2>1, CreateKeeps DEF Kami_Tlv_CreateTlv
<1>5. ASSUME NEW t \in DOMAIN items, NEW i \in DOMAIN items, Kami_Tlv_AddItemToObject(t, i)
      PROVE  CodecInv'
    BY <1>5, AddItemKeeps
<1>6. ASSUME NEW i \in DOMAIN items, NEW t \in Types[type_len], NEW v \in Values,
             Kami_Tlv_AddTlvToObject(i, t, v)
      PROVE  CodecInv'
    BY <1>6, AddTlvKeeps
<1>7. CASE UNCHANGED vars
  <2>1. items' = items /\ type_len' = type_len
    BY <1>7 DEF vars
  <2> QED
    BY <2>1, StaysGood DEF CodecInv
<1> QED
    BY <1>2, <1>3, <1>4, <1>5, <1>6, <1>7 DEF Next

(* The inductive invariant, of which the other theorems follow: the items  *)
(* are trees, listed and pointed to alike, and each length is the sum of   *)
(* what is in an item.                                                     *)
THEOREM Invariant == Spec => []CodecInv
    BY CodecInit, CodecNext, PTL DEF Spec

(* Every item is what it is made as, its length fits the header, and the   *)
(* items that an item lists, each once, are those that say it has them.    *)
THEOREM TypeCorrect == Spec => []TypeOK
<1>1. CodecInv => TypeOK
  <2> SUFFICES ASSUME CodecInv PROVE TypeOK
    OBVIOUS
  <2>1. type_len \in {1, 2} /\ items \in Seq(Item) /\ Linked(items, Len(items))
    BY DEF CodecInv, Good, IsSeq
  <2>2. items \in [1..Len(items) -> Item] /\ DOMAIN items = 1..Len(items) /\ Len(items) \in Nat
    BY <2>1, LenProperties
  <2> DEFINE AnyItem == [obj_type : {"tlv", "object", "array"}, type : 0..MaxLength,
                         value : Seq(Byte), length : 0..MaxLength, child : Seq(Nat), parent : Nat]
  <2>3. Item \subseteq AnyItem
    BY TypeRanges DEF Item
  <2> HIDE DEF AnyItem
  <2>4. items \in [1..Len(items) -> AnyItem]
    BY <2>2, <2>3
  <2>5. items \in Seq(AnyItem)
    BY <2>2, <2>4, FunctionIsSeq
  <2>6. \A t \in DOMAIN items :
           /\ IsInjective(items[t].child)
           /\ ToSet(items[t].child) = {i \in DOMAIN items : items[i].parent = t}
    BY <2>1, <2>2, Zenon DEF Linked
  <2> QED
    BY <2>1, <2>5, <2>6 DEF TypeOK, AnyItem
<1> QED
    BY <1>1, Invariant, PTL

-----------------------------------------------------------------------------
(* Bytes *)

LEMMA TwoBytes ==
    ASSUME NEW t \in 0..MaxLength
    PROVE  t \div 256 \in Byte /\ t % 256 \in Byte /\ (t \div 256) * 256 + (t % 256) = t
<1>1. MaxLength < 65536
    BY DEF MaxLength
<1>2. t \in Nat /\ t < 65536
    BY <1>1, MaxLengthType
<1>3. /\ t \div 256 \in Nat /\ t % 256 \in Nat /\ t % 256 < 256
      /\ (t \div 256) * 256 + (t % 256) = t
    BY <1>2
<1>4. PICK q \in Nat, p \in Nat : q = t \div 256 /\ p = t % 256
    BY <1>3
<1>5. p < 256 /\ q * 256 + p = t
    BY <1>3, <1>4
<1>6. q < 256
    BY <1>2, <1>4, <1>5
<1>7. q \in Byte /\ p \in Byte
    BY <1>4, <1>5, <1>6 DEF Byte
<1> QED
    BY <1>3, <1>4, <1>7

LEMMA OneByte == \A t \in Byte : t % 256 = t
BY DEF Byte

(* A sequence of two, told by its name to the provers. *)
TwoOf(s, a, b, S) == IsSeq(s, S) /\ Len(s) = 2 /\ s[1] = a /\ s[2] = b

LEMMA TwoOfIs == ASSUME NEW S, NEW a \in S, NEW b \in S PROVE TwoOf(<<a, b>>, a, b, S)
BY DEF TwoOf, IsSeq

LEMMA LengthBytesIs ==
    ASSUME NEW n \in 0..MaxLength
    PROVE  /\ TwoOf(LengthBytes(n), n \div 256, n % 256, Byte)
           /\ ParsedLength(LengthBytes(n)) = n
<1>1. n \div 256 \in Byte /\ n % 256 \in Byte /\ (n \div 256) * 256 + (n % 256) = n
    BY TwoBytes
<1>2. TwoOf(LengthBytes(n), n \div 256, n % 256, Byte)
    BY <1>1, TwoOfIs DEF LengthBytes
<1> QED
    BY <1>1, <1>2 DEF TwoOf, ParsedLength

LEMMA TypeBytesIs ==
    ASSUME type_len \in {1, 2}, NEW t \in TypeRange
    PROVE  /\ IsSeq(TypeBytes(t), Byte) /\ Len(TypeBytes(t)) = type_len
           /\ (type_len = 1 => t < 128) => ParsedType(TypeBytes(t)) = t
<1>1. CASE type_len = 1
  <2>1. t \in Byte /\ t % 256 = t
    BY <1>1, OneByte DEF TypeRange
  <2>2. TypeBytes(t) = <<t>>
    BY <1>1, <2>1 DEF TypeBytes
  <2>3. <<t>> \in Seq(Byte) /\ Len(<<t>>) = 1 /\ <<t>>[1] = t
    BY <2>1
  <2> QED
    BY <1>1, <2>2, <2>3 DEF IsSeq, ParsedType
<1>2. CASE type_len = 2
  <2>1. t \in 0..MaxLength
    BY <1>2 DEF TypeRange
  <2>2. t \div 256 \in Byte /\ t % 256 \in Byte /\ (t \div 256) * 256 + (t % 256) = t
    BY <2>1, TwoBytes
  <2>3. TwoOf(TypeBytes(t), t \div 256, t % 256, Byte)
    BY <1>2, <2>2, TwoOfIs DEF TypeBytes
  <2> QED
    BY <1>2, <2>2, <2>3 DEF TwoOf, ParsedType
<1> QED
    BY <1>1, <1>2

LEMMA HeaderIs ==
    ASSUME CodecInv, NEW i \in DOMAIN items
    PROVE  /\ items[i] \in Item
           /\ IsSeq(Header(i), Byte) /\ Len(Header(i)) = HeaderLen /\ HeaderLen \in Nat
<1>1. type_len \in {1, 2} /\ IsSeq(items, Item)
    BY DEF CodecInv
<1>2. items[i] \in Item
    BY <1>1, LenProperties, ElementOfSeq DEF IsSeq
<1>3. items[i].type \in TypeRange /\ items[i].length \in 0..MaxLength
    BY <1>2, ItemIs
<1>4. IsSeq(TypeBytes(items[i].type), Byte) /\ Len(TypeBytes(items[i].type)) = type_len
    BY <1>1, <1>3, TypeBytesIs
<1>5. IsSeq(LengthBytes(items[i].length), Byte) /\ Len(LengthBytes(items[i].length)) = 2
    BY <1>3, LengthBytesIs DEF TwoOf
<1>6. IsSeq(Header(i), Byte) /\ Len(Header(i)) = type_len + 2
  <2>1. PICK a, b : a = TypeBytes(items[i].type) /\ b = LengthBytes(items[i].length)
    OBVIOUS
  <2>2. IsSeq(a \o b, Byte) /\ Len(a \o b) = Len(a) + Len(b)
    BY <1>4, <1>5, <2>1, ConcatIs
  <2>3. Header(i) = a \o b
    BY <2>1 DEF Header
  <2> QED
    BY <1>4, <1>5, <2>1, <2>2, <2>3
<1> QED
    BY <1>1, <1>2, <1>6 DEF HeaderLen, sizeof_tlv_len

-----------------------------------------------------------------------------
(* What is written for an item *)

(* What an item is written as, when f is what those in it are.             *)
PrintStep(f, i) ==
    IF items[i].obj_type = "tlv" THEN <<Header(i) \o items[i].value>>
    ELSE (IF items[i].obj_type = "array" THEN <<Header(i)>> ELSE <<>>)
         \o FlattenSeq([k \in DOMAIN items[i].child |-> f[items[i].child[k]]])

Pieces == Seq(Seq(Byte))

PrintDefined(f) == f = [i \in DOMAIN items |-> PrintStep(f, i)]

(* The items, numbered by a rank: how far it is down to the deepest item.  *)
Tree(s, n, N, r) ==
    /\ n = Len(s) /\ DOMAIN s = 1..n /\ s \in [1..n -> Item]
    /\ N \in Nat /\ r \in [1..n -> 0..N]
    /\ \A j \in 1..n : /\ IsSeq(s[j].child, 1..n) /\ DOMAIN s[j].child = 1..Len(s[j].child)
                       /\ Len(s[j].child) \in Nat
                       /\ \A k \in 1..Len(s[j].child) :
                             s[j].child[k] \in 1..n /\ r[s[j].child[k]] < r[j]

LEMMA TreeOf ==
    ASSUME CodecInv
    PROVE  \E n \in Nat, N \in Nat : \E r : Tree(items, n, N, r)
<1>1. PICK s : s = items
    OBVIOUS
<1>2. IsSeq(s, Item) /\ Good(s, Len(s))
    BY <1>1 DEF CodecInv
<1>3. PICK n \in Nat : n = Len(s) /\ DOMAIN s = 1..n
    BY <1>2, LenProperties DEF IsSeq
<1>4. s \in [1..n -> Item] /\ Linked(s, n) /\ Ranked(s, n)
    BY <1>2, <1>3 DEF Good
<1>5. PICK N \in Nat : \E r \in [1..n -> 0..N] : Ranks(r, s, n)
    BY <1>4 DEF Ranked
<1>6. PICK r \in [1..n -> 0..N] : Ranks(r, s, n)
    BY <1>5
<1>7. ASSUME NEW j \in 1..n
      PROVE  /\ IsSeq(s[j].child, 1..n) /\ DOMAIN s[j].child = 1..Len(s[j].child)
             /\ Len(s[j].child) \in Nat
             /\ \A k \in 1..Len(s[j].child) :
                   s[j].child[k] \in 1..n /\ r[s[j].child[k]] < r[j]
  <2>1. PICK c \in Seq(Nat) : c = s[j].child
    BY <1>4, ItemIs
  <2>2. PICK m \in Nat : m = Len(c) /\ DOMAIN c = 1..m
    BY LenProperties
  <2>3. Children(s, n, j)
    BY <1>3, <1>4, ChildIs
  <2>4. \A k \in 1..m : c[k] \in 1..n /\ s[c[k]].parent = j
    BY <2>1, <2>2, <2>3 DEF Children
  <2>5. \A k \in 1..m : r[c[k]] < r[j]
    <3>1. j # NULL
      BY DEF NULL
    <3> QED
      BY <1>6, <2>4, <3>1 DEF Ranks
  <2>6. c \in [1..m -> 1..n]
    BY <2>1, <2>2, <2>4, LenProperties
  <2>7. IsSeq(c, 1..n)
    BY <2>2, <2>6, FunctionIsSeq DEF IsSeq
  <2> QED
    BY <2>1, <2>2, <2>4, <2>5, <2>7
<1>8. Tree(s, n, N, r)
    BY <1>3, <1>4, <1>5, <1>6, <1>7 DEF Tree
<1> QED
    BY <1>1, <1>3, <1>5, <1>8

(* What f has for the children of i. *)
InChildren(f, s, i) == [k \in DOMAIN s[i].child |-> f[s[i].child[k]]]

LEMMA InChildrenType ==
    ASSUME NEW s, NEW n, NEW N, NEW r, Tree(s, n, N, r), NEW i \in 1..n, NEW T,
           NEW f, \A j \in 1..n : r[j] < r[i] => f[j] \in T
    PROVE  IsSeq(InChildren(f, s, i), T) /\ Len(InChildren(f, s, i)) = Len(s[i].child)
<1>1. PICK m \in Nat : m = Len(s[i].child) /\ DOMAIN s[i].child = 1..m
    BY DEF Tree
<1>2. \A k \in 1..m : f[s[i].child[k]] \in T
    BY <1>1 DEF Tree
<1>3. InChildren(f, s, i) = [k \in 1..m |-> f[s[i].child[k]]]
    BY <1>1 DEF InChildren
<1>4. InChildren(f, s, i) \in [1..m -> T]
    BY <1>2, <1>3
<1> QED
    BY <1>1, <1>4, FunctionIsSeq DEF IsSeq

LEMMA InChildrenSame ==
    ASSUME NEW s, NEW n, NEW N, NEW r, Tree(s, n, N, r), NEW i \in 1..n,
           NEW f, NEW g, \A j \in 1..n : r[j] < r[i] => f[j] = g[j]
    PROVE  InChildren(f, s, i) = InChildren(g, s, i)
<1>1. \A k \in DOMAIN s[i].child : f[s[i].child[k]] = g[s[i].child[k]]
    BY DEF Tree
<1> QED
    BY <1>1 DEF InChildren

LEMMA PrintStepType ==
    ASSUME CodecInv, NEW n, NEW N, NEW r, Tree(items, n, N, r), NEW i \in 1..n,
           NEW f, \A j \in 1..n : r[j] < r[i] => f[j] \in Pieces
    PROVE  IsSeq(PrintStep(f, i), Seq(Byte))
<1>1. i \in DOMAIN items
    BY DEF Tree
<1>2. IsSeq(Header(i), Byte) /\ items[i] \in Item
    BY <1>1, HeaderIs
<1>3. IsSeq(items[i].value, Byte)
    BY <1>2, ItemIs DEF IsSeq
<1>4. IsSeq(Header(i) \o items[i].value, Byte)
    BY <1>2, <1>3, ConcatIs
<1>5. IsSeq(<<>>, Seq(Byte)) /\ IsSeq(<<Header(i)>>, Seq(Byte))
      /\ IsSeq(<<Header(i) \o items[i].value>>, Seq(Byte))
    BY <1>2, <1>4, EmptySeq DEF IsSeq
<1>6. IsSeq(InChildren(f, items, i), Seq(Seq(Byte)))
    BY InChildrenType DEF Pieces
<1>7. IsSeq(FlattenSeq(InChildren(f, items, i)), Seq(Byte))
    BY <1>6, FlattenType DEF IsSeq
<1>8. PICK h : h = IF items[i].obj_type = "array" THEN <<Header(i)>> ELSE <<>>
    OBVIOUS
<1>9. IsSeq(h, Seq(Byte))
    BY <1>5, <1>8
<1>10. IsSeq(h \o FlattenSeq(InChildren(f, items, i)), Seq(Byte))
    BY <1>7, <1>9, ConcatIs
<1>11. PrintStep(f, i) = IF items[i].obj_type = "tlv" THEN <<Header(i) \o items[i].value>>
                         ELSE h \o FlattenSeq(InChildren(f, items, i))
    BY <1>8 DEF PrintStep, InChildren
<1> QED
    BY <1>5, <1>10, <1>11

LEMMA PrintValueIs ==
    ASSUME CodecInv
    PROVE  /\ PrintDefined(Kami_Tlv_PrintValue)
           /\ \A i \in DOMAIN items : IsSeq(Kami_Tlv_PrintValue[i], Seq(Byte))
<1>1. PICK n \in Nat, N \in Nat : \E r : Tree(items, n, N, r)
    BY TreeOf
<1>2. PICK r : Tree(items, n, N, r)
    BY <1>1
<1>3. DOMAIN items = 1..n /\ r \in [1..n -> 0..N]
    BY <1>2 DEF Tree
<1> DEFINE F == [1..n -> Pieces]
           G == [f \in F |-> [i \in 1..n |-> PrintStep(f, i)]]
<1>4. Maps(G, F, F)
  <2> SUFFICES ASSUME NEW f \in F, NEW i \in 1..n
               PROVE PrintStep(f, i) \in Pieces
    BY DEF Maps
  <2>1. \A j \in 1..n : r[j] < r[i] => f[j] \in Pieces
    OBVIOUS
  <2>2. IsSeq(PrintStep(f, i), Seq(Byte))
    BY <1>2, <2>1, PrintStepType
  <2> QED
    BY <2>2 DEF IsSeq, Pieces
<1>5. ByRank(G, 1..n, Pieces, r)
  <2> SUFFICES ASSUME NEW f \in F, NEW g \in F, NEW i \in 1..n,
                      \A j \in 1..n : r[j] < r[i] => f[j] = g[j]
               PROVE  G[f][i] = G[g][i]
    BY DEF ByRank
  <2>1. InChildren(f, items, i) = InChildren(g, items, i)
    BY <1>2, InChildrenSame
  <2>2. PrintStep(f, i) = PrintStep(g, i)
    BY <2>1 DEF PrintStep, InChildren
  <2>3. G[f][i] = PrintStep(f, i) /\ G[g][i] = PrintStep(g, i)
    OBVIOUS
  <2> QED
    BY <2>2, <2>3
<1>6. <<>> \in Pieces
    BY EmptySeq DEF Pieces
<1>7. \A f \in F : G[f] = [i \in 1..n |-> PrintStep(f, i)]
    OBVIOUS
<1>8. PICK f \in F : G[f] = f
  <2> HIDE DEF G
  <2>1. IsRank(r, 1..n, N)
    BY <1>3 DEF IsRank
  <2>2. HasFixedPoint(G, 1..n, Pieces)
    BY <1>1, <1>4, <1>5, <1>6, <2>1, RankRecursion
  <2> QED
    BY <2>2 DEF HasFixedPoint
<1>9. PrintDefined(f)
    BY <1>3, <1>7, <1>8 DEF PrintDefined
<1>10. PrintDefined(Kami_Tlv_PrintValue)
    BY <1>9 DEF PrintDefined, Kami_Tlv_PrintValue, PrintStep
<1> DEFINE p == Kami_Tlv_PrintValue
           P == {i \in 1..n : p[i] \in Pieces}
<1>11. \A i \in 1..n : p[i] = PrintStep(p, i)
    BY <1>3, <1>10 DEF PrintDefined
<1> HIDE DEF p
<1>12. ASSUME NEW i \in 1..n, \A j \in 1..n : r[j] < r[i] => j \in P PROVE i \in P
  <2>1. IsSeq(PrintStep(p, i), Seq(Byte))
    BY <1>2, <1>12, PrintStepType
  <2> QED
    BY <1>11, <2>1 DEF IsSeq, Pieces
<1>13. 1..n \subseteq P
  <2> HIDE DEF P, G, F
  <2>1. IsRank(r, 1..n, N) /\ RisesAlong(P, r, 1..n)
    BY <1>3, <1>12 DEF IsRank, RisesAlong
  <2> QED
    BY <1>1, <2>1, RankInduction
<1> QED
    BY <1>3, <1>10, <1>13 DEF p, Pieces, IsSeq

-----------------------------------------------------------------------------
(* Printing: the buffer holds all that is written *)

Buffers == [bytes : Seq(Byte), size : Nat, ok : BOOLEAN]

Holds(b, bytes) == b \in Buffers /\ b.ok /\ b.bytes = bytes /\ Len(bytes) < b.size

LEMMA PutHolds ==
    ASSUME NEW a, IsSeq(a, Byte), NEW x, IsSeq(x, Byte), NEW b, Holds(b, a)
    PROVE  Holds(Put(b, x), a \o x)
<1>1. PICK m \in Nat, n \in Nat : m = Len(a) /\ n = Len(x)
    BY LenProperties DEF IsSeq
<1>2. IsSeq(a \o x, Byte) /\ Len(a \o x) = m + n
    BY <1>1, ConcatIs
<1>3. b \in Buffers /\ b.ok /\ b.bytes = a /\ b.size \in Nat /\ m < b.size
    BY <1>1 DEF Holds, Buffers
<1>4. PICK z \in Nat : z = b.size
    BY <1>3
<1>5. PICK room : room = Kami_Tlv_Ensure(b, n)
    OBVIOUS
<1>6. ~(~b.ok \/ m >= z)
    BY <1>3, <1>4
<1>7. room = IF n + m + 1 <= z THEN b ELSE [b EXCEPT !.size = (n + m + 1) * 2]
    BY <1>1, <1>3, <1>4, <1>5, <1>6 DEF Kami_Tlv_Ensure
<1>8. room \in Buffers /\ room.ok /\ room.bytes = a /\ room.size \in Nat /\ m + n < room.size
  <2>1. CASE n + m + 1 <= z
    BY <1>3, <1>4, <1>7, <2>1
  <2>2. CASE ~(n + m + 1 <= z)
    <3>1. PICK y \in Nat : y = (n + m + 1) * 2 /\ m + n < y
      OBVIOUS
    <3>2. room = [b EXCEPT !.size = y]
      BY <1>7, <2>2, <3>1
    <3> QED
      BY <1>3, <3>1, <3>2 DEF Buffers
  <2> QED
    BY <2>1, <2>2
<1>9. Put(b, x) = [room EXCEPT !.bytes = a \o x]
    BY <1>1, <1>5, <1>8 DEF Put
<1>10. /\ Put(b, x) \in Buffers /\ Put(b, x).ok /\ Put(b, x).bytes = a \o x
       /\ Put(b, x).size = room.size
    BY <1>2, <1>8, <1>9 DEF Buffers, IsSeq
<1> QED
    BY <1>2, <1>8, <1>10 DEF Holds

(* The first k of the pieces. *)
First(pieces, k) == [j \in 1..k |-> pieces[j]]

LEMMA FirstNext ==
    ASSUME NEW S, NEW pieces, IsSeq(pieces, Seq(S)), NEW k \in 1..Len(pieces)
    PROVE  /\ IsSeq(pieces[k], S)
           /\ FlattenSeq(First(pieces, k)) = FlattenSeq(First(pieces, k - 1)) \o pieces[k]
           /\ IsSeq(FlattenSeq(First(pieces, k - 1)), S)
<1>1. Len(pieces) \in Nat /\ \A j \in 1..Len(pieces) : pieces[j] \in Seq(S)
    BY LenProperties, ElementOfSeq DEF IsSeq
<1>2. PICK q : q = First(pieces, k - 1)
    OBVIOUS
<1>3. PICK x \in Seq(S) : x = pieces[k]
    BY <1>1
<1>4. q \in [1..k - 1 -> Seq(S)] /\ \A j \in 1..k - 1 : q[j] = pieces[j]
    BY <1>1, <1>2 DEF First
<1>5. IsSeq(q, Seq(S)) /\ Len(q) = k - 1
    BY <1>1, <1>4, FunctionIsSeq DEF IsSeq
<1>6. First(pieces, k) = Append(q, x)
  <2>1. PICK a : a = Append(q, x)
    OBVIOUS
  <2>2. Len(a) = k /\ a[k] = x /\ (\A j \in 1..k - 1 : a[j] = q[j]) /\ IsSeq(a, Seq(S))
    BY <1>1, <1>3, <1>5, <2>1, AppendProperties DEF IsSeq
  <2>3. a \in [1..k -> Seq(S)]
    BY <2>2, LenProperties DEF IsSeq
  <2>4. \A j \in 1..k : a[j] = pieces[j]
    BY <1>1, <1>3, <1>4, <2>2
  <2>5. a = First(pieces, k)
    BY <2>3, <2>4 DEF First
  <2> QED
    BY <2>1, <2>5
<1>7. FlattenSeq(Append(q, x)) = FlattenSeq(q) \o x /\ IsSeq(FlattenSeq(q), S)
    BY <1>3, <1>5, FlattenAppend, FlattenType DEF IsSeq
<1> QED
    BY <1>2, <1>3, <1>6, <1>7 DEF IsSeq

LEMMA FirstAll ==
    ASSUME NEW S, NEW pieces, IsSeq(pieces, S)
    PROVE  First(pieces, Len(pieces)) = pieces
<1>1. pieces \in [1..Len(pieces) -> S]
    BY LenProperties DEF IsSeq
<1> QED
    BY <1>1 DEF First

NewBuffer == [bytes |-> <<>>, size |-> DefaultBufferSize, ok |-> TRUE]

LEMMA NewBufferHolds == Holds(NewBuffer, <<>>)
<1>1. DefaultBufferSize \in Nat /\ 0 < DefaultBufferSize
    BY CodecAssumption
<1>2. <<>> \in Seq(Byte) /\ Len(<<>>) = 0
    BY EmptySeq
<1> QED
    BY <1>1, <1>2 DEF Holds, NewBuffer, Buffers

(* The buffer after each of the pieces. *)
Outputs(out, pieces) ==
    out = [k \in 0..Len(pieces) |-> IF k = 0 THEN NewBuffer ELSE Put(out[k - 1], pieces[k])]

LEMMA OutputsExist ==
    ASSUME NEW pieces, IsSeq(pieces, Seq(Byte))
    PROVE  \E out : Outputs(out, pieces)
<1>1. PICK m \in Nat : m = Len(pieces)
    BY LenProperties DEF IsSeq
<1>2. \A k \in 1..m : IsSeq(pieces[k], Byte)
    BY <1>1, FirstNext
<1> DEFINE T == {b \in Buffers : Holds(b, b.bytes)}
           step == [k \in Nat |-> [b \in T |-> IF k \in 1..m THEN Put(b, pieces[k]) ELSE b]]
<1>3. ASSUME NEW b \in T, NEW k \in 1..m PROVE Put(b, pieces[k]) \in T
  <2>1. IsSeq(b.bytes, Byte) /\ Holds(b, b.bytes)
    BY DEF Buffers, IsSeq
  <2>2. Holds(Put(b, pieces[k]), b.bytes \o pieces[k])
    BY <1>2, <2>1, PutHolds
  <2> QED
    BY <2>2 DEF Holds
<1>4. NewBuffer \in T
    BY NewBufferHolds DEF Holds
<1> HIDE DEF T
<1>5. step \in [Nat -> [T -> T]]
    BY <1>3
<1>6. \A k \in 1..m, b \in T : step[k][b] = Put(b, pieces[k])
    BY <1>1
<1> HIDE DEF step
<1>7. PICK out \in [0..m -> T] : Recursion(out, NewBuffer, step, m)
    BY <1>1, <1>4, <1>5, RecursionExists
<1>8. out[0] = NewBuffer /\ \A k \in 1..m : out[k] = Put(out[k - 1], pieces[k])
  <2>1. out[0] = NewBuffer /\ \A k \in 1..m : out[k] = step[k][out[k - 1]]
    BY <1>7 DEF Recursion
  <2>2. \A k \in 1..m : out[k - 1] \in T
    BY <1>1, <1>7
  <2> QED
    BY <1>6, <2>1, <2>2
<1>9. \A k \in 0..m : out[k] = IF k = 0 THEN NewBuffer ELSE Put(out[k - 1], pieces[k])
    BY <1>1, <1>8
<1> QED
    BY <1>1, <1>7, <1>9 DEF Outputs

LEMMA OutputsHold ==
    ASSUME NEW pieces, IsSeq(pieces, Seq(Byte)), NEW out, Outputs(out, pieces)
    PROVE  Holds(out[Len(pieces)], FlattenSeq(pieces))
<1>1. PICK m \in Nat : m = Len(pieces)
    BY LenProperties DEF IsSeq
<1>2. \A k \in 0..m : out[k] = IF k = 0 THEN NewBuffer ELSE Put(out[k - 1], pieces[k])
    BY <1>1 DEF Outputs
<1> DEFINE K == {k \in Nat : k <= m => Holds(out[k], FlattenSeq(First(pieces, k)))}
<1>3. 0 \in K
  <2>1. First(pieces, 0) = <<>>
    BY DEF First
  <2> QED
    BY <1>1, <1>2, <2>1, NewBufferHolds, FlattenEmpty
<1>4. ASSUME NEW k \in Nat, k \in K PROVE k + 1 \in K
  <2> SUFFICES ASSUME k + 1 <= m PROVE Holds(out[k + 1], FlattenSeq(First(pieces, k + 1)))
    OBVIOUS
  <2>1. k + 1 \in 1..m /\ k + 1 \in 0..m /\ k + 1 # 0 /\ (k + 1) - 1 = k /\ k <= m
    BY <1>1
  <2>2. out[k + 1] = Put(out[k], pieces[k + 1])
    BY <1>2, <2>1
  <2>3. /\ IsSeq(pieces[k + 1], Byte)
        /\ FlattenSeq(First(pieces, k + 1)) = FlattenSeq(First(pieces, k)) \o pieces[k + 1]
        /\ IsSeq(FlattenSeq(First(pieces, k)), Byte)
    BY <1>1, <2>1, FirstNext
  <2>4. Holds(out[k], FlattenSeq(First(pieces, k)))
    BY <1>4, <2>1
  <2> QED
    BY <2>2, <2>3, <2>4, PutHolds
<1>5. Nat \subseteq K
  <2> HIDE DEF K
  <2> QED
    BY <1>3, <1>4, SetInduction
<1>6. Holds(out[m], FlattenSeq(First(pieces, m)))
    BY <1>1, <1>5
<1> QED
    BY <1>1, <1>6, FirstAll

Bytes(i) == FlattenSeq(Kami_Tlv_PrintValue[i])

LEMMA PrintIs ==
    ASSUME CodecInv, NEW i \in DOMAIN items
    PROVE  Holds(Kami_Tlv_Print(i), Bytes(i)) /\ IsSeq(Bytes(i), Byte)
<1>1. PICK pieces : pieces = Kami_Tlv_PrintValue[i]
    OBVIOUS
<1>2. IsSeq(pieces, Seq(Byte))
    BY <1>1, PrintValueIs
<1>3. PICK out : out = CHOOSE f : Outputs(f, pieces)
    OBVIOUS
<1>4. Outputs(out, pieces)
    BY <1>2, <1>3, OutputsExist
<1>5. Kami_Tlv_Print(i) = out[Len(pieces)]
    BY <1>1, <1>3, Zenon DEF Kami_Tlv_Print, Outputs, NewBuffer
<1> QED
    BY <1>1, <1>2, <1>4, <1>5, OutputsHold, FlattenType DEF Bytes, IsSeq

(* Printing any item succeeds, within the buffer. *)
THEOREM BufferNeverOverrun == Spec => []BufferHolds
<1>1. CodecInv => BufferHolds
  <2> SUFFICES ASSUME CodecInv, NEW i \in DOMAIN items
               PROVE  Kami_Tlv_Print(i).ok /\ Len(Kami_Tlv_Print(i).bytes) < Kami_Tlv_Print(i).size
    BY DEF BufferHolds
  <2> QED
    BY PrintIs DEF Holds
<1> QED
    BY <1>1, Invariant, PTL

-----------------------------------------------------------------------------
(* The length counted for an item is that of what is written for it        *)

LEMMA SumsUnique ==
    ASSUME NEW m \in Nat, NEW w, NEW x, Sums(w, m, x), NEW y, Sums(w, m, y)
    PROVE  x = y
<1>1. PICK u \in [0..m -> Nat] : u[0] = 0 /\ u[m] = x /\ \A k \in 1..m : u[k] = u[k - 1] + w[k]
    BY DEF Sums
<1>2. PICK v \in [0..m -> Nat] : v[0] = 0 /\ v[m] = y /\ \A k \in 1..m : v[k] = v[k - 1] + w[k]
    BY DEF Sums
<1> DEFINE K == {k \in Nat : k <= m => u[k] = v[k]}
<1>3. 0 \in K
    BY <1>1, <1>2
<1>4. ASSUME NEW k \in Nat, k \in K PROVE k + 1 \in K
  <2> SUFFICES ASSUME k + 1 <= m PROVE u[k + 1] = v[k + 1]
    OBVIOUS
  <2>1. k + 1 \in 1..m /\ (k + 1) - 1 = k /\ k <= m
    OBVIOUS
  <2> QED
    BY <1>1, <1>2, <1>4, <2>1
<1>5. Nat \subseteq K
  <2> HIDE DEF K
  <2> QED
    BY <1>3, <1>4, SetInduction
<1> QED
    BY <1>1, <1>2, <1>5

WrittenFor == [i \in DOMAIN items |-> Bytes(i)]

(* What is written for an item, but for its header. *)
Body(i) == IF items[i].obj_type = "tlv" THEN items[i].value
           ELSE FlattenSeq(InChildren(WrittenFor, items, i))

LEMMA BytesAre ==
    ASSUME CodecInv, NEW i \in DOMAIN items
    PROVE  /\ IsSeq(Body(i), Byte)
           /\ Bytes(i) = IF items[i].obj_type = "object" THEN Body(i) ELSE Header(i) \o Body(i)
<1>1. PICK n \in Nat, N \in Nat : \E r : Tree(items, n, N, r)
    BY TreeOf
<1>2. PICK r : Tree(items, n, N, r)
    BY <1>1
<1>3. DOMAIN items = 1..n
    BY <1>2 DEF Tree
<1>4. IsSeq(Header(i), Byte) /\ items[i] \in Item
    BY HeaderIs
<1>5. IsSeq(items[i].value, Byte) /\ items[i].obj_type \in {"tlv", "object", "array"}
    BY <1>4, ItemIs DEF IsSeq
<1>6. PICK p : p = Kami_Tlv_PrintValue
    OBVIOUS
<1>7. p[i] = PrintStep(p, i) /\ \A j \in 1..n : IsSeq(p[j], Seq(Byte))
    BY <1>3, <1>6, PrintValueIs DEF PrintDefined
<1>8. CASE items[i].obj_type = "tlv"
  <2>1. p[i] = <<Header(i) \o items[i].value>>
    BY <1>7, <1>8 DEF PrintStep
  <2>2. IsSeq(Header(i) \o items[i].value, Byte)
    BY <1>4, <1>5, ConcatIs
  <2>3. Bytes(i) = Header(i) \o items[i].value
    BY <1>6, <2>1, <2>2, FlattenOne DEF Bytes, IsSeq
  <2> QED
    BY <1>5, <1>8, <2>3 DEF Body
<1>9. CASE items[i].obj_type # "tlv"
  <2>1. PICK ss : ss = InChildren(p, items, i)
    OBVIOUS
  <2>2. IsSeq(ss, Seq(Seq(Byte))) /\ Len(ss) = Len(items[i].child)
      <3>1. \A j \in 1..n : r[j] < r[i] => p[j] \in Seq(Seq(Byte))
      BY <1>7 DEF IsSeq
    <3> QED
      BY <1>2, <1>3, <2>1, <3>1, InChildrenType
  <2>3. IsSeq(FlattenSeq(ss), Seq(Byte))
    BY <2>2, FlattenType DEF IsSeq
  <2>4. Flattened(ss) = InChildren(WrittenFor, items, i)
    <3>1. DOMAIN items[i].child = 1..Len(ss) /\ \A k \in 1..Len(ss) : items[i].child[k] \in 1..n
      BY <1>2, <1>3, <2>2 DEF Tree
    <3>2. \A k \in 1..Len(ss) : FlattenSeq(ss[k]) = WrittenFor[items[i].child[k]]
      BY <1>3, <1>6, <2>1, <3>1 DEF WrittenFor, Bytes, InChildren
    <3> QED
      BY <3>1, <3>2 DEF Flattened, InChildren
  <2>5. FlattenSeq(FlattenSeq(ss)) = Body(i)
    BY <1>9, <2>2, <2>4, FlattenTwice DEF Body
  <2>6. IsSeq(Body(i), Byte)
    BY <2>3, <2>5, FlattenType DEF IsSeq
  <2>7. CASE items[i].obj_type = "array"
    <3>1. p[i] = <<Header(i)>> \o FlattenSeq(ss)
      BY <1>7, <2>1, <2>7 DEF PrintStep, InChildren
    <3>2. IsSeq(<<Header(i)>>, Seq(Byte)) /\ FlattenSeq(<<Header(i)>>) = Header(i)
      BY <1>4, FlattenOne DEF IsSeq
    <3>3. FlattenSeq(p[i]) = FlattenSeq(<<Header(i)>>) \o FlattenSeq(FlattenSeq(ss))
      BY <2>3, <3>1, <3>2, FlattenConcat DEF IsSeq
    <3> QED
      BY <1>6, <2>5, <2>6, <2>7, <3>2, <3>3 DEF Bytes
  <2>8. CASE items[i].obj_type = "object"
    <3>1. p[i] = <<>> \o FlattenSeq(ss)
      BY <1>7, <2>1, <2>8 DEF PrintStep, InChildren
    <3>2. p[i] = FlattenSeq(ss)
      BY <2>3, <3>1, ConcatEmptySeq DEF IsSeq
    <3> QED
      BY <1>6, <2>5, <2>6, <2>8, <3>2 DEF Bytes
  <2> QED
    BY <1>5, <1>9, <2>7, <2>8
<1> QED
    BY <1>8, <1>9

(* What a receiver sees of an item, when it is given what was written.     *)
LEMMA ContentsAre ==
    ASSUME CodecInv, NEW i \in DOMAIN items
    PROVE  Contents(i) = Body(i)
<1>1. Kami_Tlv_Print(i).bytes = Bytes(i)
    BY PrintIs DEF Holds
<1>2. PICK h, b : h = Header(i) /\ b = Body(i)
    OBVIOUS
<1>3. IsSeq(h, Byte) /\ Len(h) = HeaderLen /\ IsSeq(b, Byte)
    BY <1>2, HeaderIs, BytesAre
<1>4. SubSeq(h \o b, Len(h) + 1, Len(h \o b)) = b
    BY <1>3, ConcatParts DEF IsSeq
<1>5. Bytes(i) = IF items[i].obj_type = "object" THEN b ELSE h \o b
    BY <1>2, BytesAre
<1> QED
    BY <1>1, <1>2, <1>3, <1>4, <1>5 DEF Contents

LEMMA BodyLength ==
    ASSUME CodecInv
    PROVE  \A i \in DOMAIN items : Len(Body(i)) = items[i].length
<1>1. PICK n \in Nat, N \in Nat : \E r : Tree(items, n, N, r)
    BY TreeOf
<1>2. PICK r : Tree(items, n, N, r)
    BY <1>1
<1>3. n = Len(items) /\ DOMAIN items = 1..n /\ r \in [1..n -> 0..N]
    BY <1>2 DEF Tree
<1>4. Counted(items, n) /\ type_len \in {1, 2}
    BY <1>3 DEF CodecInv, Good
<1> DEFINE P == {i \in 1..n : Len(Body(i)) = items[i].length}
<1>5. ASSUME NEW i \in 1..n, \A j \in 1..n : r[j] < r[i] => j \in P
      PROVE  i \in P
  <2>1. CASE items[i].obj_type = "tlv"
    BY <1>4, <2>1 DEF Counted, Body
  <2>2. CASE items[i].obj_type # "tlv"
    <3>1. PICK w, m, x : w = Weights(items, i) /\ m = Len(items[i].child) /\ x = items[i].length
      OBVIOUS
    <3>2. Sums(w, m, x)
      BY <1>4, <2>2, <3>1 DEF Counted
    <3>3. PICK ss : ss = InChildren(WrittenFor, items, i)
      OBVIOUS
    <3>4. IsSeq(ss, Seq(Byte)) /\ Len(ss) = m
      <4>1. \A j \in 1..n : WrittenFor[j] = Bytes(j) /\ IsSeq(Bytes(j), Byte)
        BY <1>3, PrintIs DEF WrittenFor
      <4>2. \A j \in 1..n : r[j] < r[i] => WrittenFor[j] \in Seq(Byte)
        BY <4>1 DEF IsSeq
      <4> QED
        BY <1>2, <3>1, <3>3, <4>2, InChildrenType
    <3>5. m \in Nat /\ \A k \in 1..m : Len(ss[k]) = w[k]
      <4>1. m \in Nat /\ DOMAIN items[i].child = 1..m
        BY <1>2, <3>1 DEF Tree
      <4> SUFFICES ASSUME NEW k \in 1..m PROVE Len(ss[k]) = w[k]
        BY <4>1
      <4>2. PICK c \in 1..n : c = items[i].child[k] /\ r[c] < r[i]
        BY <1>2, <3>1 DEF Tree
      <4>3. ss[k] = Bytes(c) /\ w[k] = Increment(items[c])
        BY <1>3, <3>1, <3>3, <4>1, <4>2 DEF InChildren, WrittenFor, Weights
      <4>4. Len(Body(c)) = items[c].length
        BY <1>5, <4>2
      <4>5. PICK h, b : h = Header(c) /\ b = Body(c)
        OBVIOUS
      <4>6. IsSeq(h, Byte) /\ Len(h) = HeaderLen /\ IsSeq(b, Byte)
        BY <1>3, <4>5, HeaderIs, BytesAre
      <4>7. Len(h \o b) = HeaderLen + items[c].length
        BY <4>4, <4>5, <4>6, ConcatIs
      <4>8. Bytes(c) = IF items[c].obj_type = "object" THEN b ELSE h \o b
        BY <1>3, <4>5, BytesAre
      <4> QED
        BY <4>3, <4>4, <4>5, <4>7, <4>8 DEF Increment
    <3>6. Sums(w, m, Len(FlattenSeq(ss)))
      <4>1. PICK off \in [0..m -> Nat] : Places(off, ss, FlattenSeq(ss))
        BY <3>4, FlattenPlaces DEF Placeable
      <4>2. off[0] = 0 /\ off[m] = Len(FlattenSeq(ss)) /\ \A k \in 1..m : off[k] = off[k - 1] + w[k]
        BY <3>4, <3>5, <4>1 DEF Places
      <4> QED
        BY <4>1, <4>2 DEF Sums
    <3>7. Len(FlattenSeq(ss)) = x
      BY <3>2, <3>5, <3>6, SumsUnique
    <3> QED
      BY <2>2, <3>1, <3>3, <3>7 DEF Body
  <2> QED
    BY <2>1, <2>2
<1>6. 1..n \subseteq P
  <2> HIDE DEF P
  <2>1. IsRank(r, 1..n, N) /\ RisesAlong(P, r, 1..n)
    BY <1>3, <1>5 DEF IsRank, RisesAlong
  <2> QED
    BY <1>1, <2>1, RankInduction
<1> QED
    BY <1>3, <1>6

(* The length that is sent is the number of bytes that are sent. *)
THEOREM LengthCounted == Spec => []LengthIsBytes
<1>1. CodecInv => LengthIsBytes
    BY BodyLength, ContentsAre DEF LengthIsBytes, Containers
<1> QED
    BY <1>1, Invariant, PTL

-----------------------------------------------------------------------------
(* What is in an object or an array, and in the objects in it              *)

(* What each item is for the one that holds it, when f is what is in those.*)
Sent(f) == [j \in DOMAIN items |-> IF items[j].obj_type = "object" THEN f[j] ELSE <<j>>]

SentStep(f, i) == FlattenSeq(InChildren(Sent(f), items, i))

SentDefined(f) == f = [i \in DOMAIN items |-> SentStep(f, i)]

(* The items that are written with a header of their own.                  *)
Leaves == {j \in DOMAIN items : items[j].obj_type # "object"}

LEMMA SentStepType ==
    ASSUME NEW n, NEW N, NEW r, Tree(items, n, N, r), NEW i \in 1..n,
           NEW f, \A j \in 1..n : r[j] < r[i] => f[j] \in Seq(Leaves)
    PROVE  IsSeq(SentStep(f, i), Leaves)
<1>1. \A j \in 1..n : Sent(f)[j] = IF items[j].obj_type = "object" THEN f[j] ELSE <<j>>
    BY DEF Tree, Sent
<1>2. \A j \in 1..n : items[j].obj_type # "object" => <<j>> \in Seq(Leaves)
  <2>1. \A j \in Leaves : <<j>> \in Seq(Leaves)
    OBVIOUS
  <2> QED
    BY <2>1 DEF Leaves, Tree
<1>3. \A j \in 1..n : r[j] < r[i] => Sent(f)[j] \in Seq(Leaves)
    BY <1>1, <1>2
<1>4. IsSeq(InChildren(Sent(f), items, i), Seq(Leaves))
    BY <1>3, InChildrenType
<1> QED
    BY <1>4, FlattenType DEF SentStep, IsSeq

LEMMA PrintedIs ==
    ASSUME CodecInv
    PROVE  SentDefined(Printed) /\ \A i \in DOMAIN items : IsSeq(Printed[i], Leaves)
<1>1. PICK n \in Nat, N \in Nat : \E r : Tree(items, n, N, r)
    BY TreeOf
<1>2. PICK r : Tree(items, n, N, r)
    BY <1>1
<1>3. DOMAIN items = 1..n /\ r \in [1..n -> 0..N]
    BY <1>2 DEF Tree
<1> DEFINE S == Seq(Leaves)
           F == [1..n -> S]
           G == [f \in F |-> [i \in 1..n |-> SentStep(f, i)]]
<1>4. Maps(G, F, F)
  <2> SUFFICES ASSUME NEW f \in F, NEW i \in 1..n PROVE SentStep(f, i) \in S
    BY DEF Maps
  <2>1. \A j \in 1..n : r[j] < r[i] => f[j] \in Seq(Leaves)
    OBVIOUS
  <2>2. IsSeq(SentStep(f, i), Leaves)
    BY <1>2, <2>1, SentStepType
  <2> QED
    BY <2>2 DEF IsSeq
<1>5. ByRank(G, 1..n, S, r)
  <2> SUFFICES ASSUME NEW f \in F, NEW g \in F, NEW i \in 1..n,
                      \A j \in 1..n : r[j] < r[i] => f[j] = g[j]
               PROVE  G[f][i] = G[g][i]
    BY DEF ByRank
  <2>1. \A j \in 1..n : r[j] < r[i] => Sent(f)[j] = Sent(g)[j]
    BY <1>3 DEF Sent
  <2>2. InChildren(Sent(f), items, i) = InChildren(Sent(g), items, i)
    <3> HIDE DEF F, G, S
    <3>1. PICK a, b : a = Sent(f) /\ b = Sent(g)
      OBVIOUS
    <3>2. \A j \in 1..n : r[j] < r[i] => a[j] = b[j]
      BY <2>1, <3>1
    <3>3. InChildren(a, items, i) = InChildren(b, items, i)
      BY <1>2, <3>2, InChildrenSame
    <3> QED
      BY <3>1, <3>3
  <2>3. SentStep(f, i) = SentStep(g, i)
    BY <2>2 DEF SentStep
  <2>4. G[f][i] = SentStep(f, i) /\ G[g][i] = SentStep(g, i)
    OBVIOUS
  <2> QED
    BY <2>3, <2>4
<1>6. <<>> \in S
    BY EmptySeq
<1>7. \A f \in F : G[f] = [i \in 1..n |-> SentStep(f, i)]
    OBVIOUS
<1> HIDE DEF S
<1>8. PICK f \in F : G[f] = f
  <2> HIDE DEF G
  <2>1. IsRank(r, 1..n, N)
    BY <1>3 DEF IsRank
  <2>2. HasFixedPoint(G, 1..n, S)
    BY <1>1, <1>4, <1>5, <1>6, <2>1, RankRecursion
  <2> QED
    BY <2>2 DEF HasFixedPoint
<1>9. SentDefined(f)
    BY <1>3, <1>7, <1>8 DEF SentDefined
<1>10. SentDefined(Printed)
  <2>1. ASSUME NEW h, NEW i \in DOMAIN items
        PROVE  SentStep(h, i) = FlattenSeq([k \in DOMAIN items[i].child |->
                   LET c == items[i].child[k]
                   IN  IF items[c].obj_type = "object" THEN h[c] ELSE <<c>>])
    <3>1. \A k \in DOMAIN items[i].child : items[i].child[k] \in DOMAIN items
      BY <1>2, <1>3 DEF Tree
    <3>2. \A k \in DOMAIN items[i].child :
             Sent(h)[items[i].child[k]] = LET c == items[i].child[k]
                                          IN  IF items[c].obj_type = "object" THEN h[c] ELSE <<c>>
      BY <3>1 DEF Sent
    <3> QED
      BY <3>2 DEF SentStep, InChildren
  <2>2. \A h : SentDefined(h) <=>
            h = [i \in DOMAIN items |-> FlattenSeq([k \in DOMAIN items[i].child |->
                   LET c == items[i].child[k]
                   IN  IF items[c].obj_type = "object" THEN h[c] ELSE <<c>>])]
    BY <2>1, Zenon DEF SentDefined
  <2> QED
    BY <1>9, <2>2, Zenon DEF Printed
<1> DEFINE P == {i \in 1..n : Printed[i] \in Seq(Leaves)}
<1>11. ASSUME NEW i \in 1..n, \A j \in 1..n : r[j] < r[i] => j \in P PROVE i \in P
  <2>1. PICK p : p = Printed
    OBVIOUS
  <2>2. \A j \in 1..n : r[j] < r[i] => p[j] \in Seq(Leaves)
    BY <1>11, <2>1
  <2>3. IsSeq(SentStep(p, i), Leaves)
    BY <1>2, <2>2, SentStepType
  <2>4. p[i] = SentStep(p, i)
    BY <1>3, <1>10, <2>1 DEF SentDefined
  <2> QED
    BY <2>1, <2>3, <2>4 DEF IsSeq
<1>12. 1..n \subseteq P
  <2> HIDE DEF P, G, F
  <2>1. IsRank(r, 1..n, N) /\ RisesAlong(P, r, 1..n)
    BY <1>3, <1>11 DEF IsRank, RisesAlong
  <2> QED
    BY <1>1, <2>1, RankInduction
<1> QED
    BY <1>3, <1>10, <1>12 DEF IsSeq

(* An object or array is written as the items found in it, one by one.     *)
LEMMA BodyIsSent ==
    ASSUME CodecInv
    PROVE  \A i \in DOMAIN items :
               items[i].obj_type # "tlv" => Body(i) = PutTogether(WrittenFor, Printed[i])
<1>1. PICK n \in Nat, N \in Nat : \E r : Tree(items, n, N, r)
    BY TreeOf
<1>2. PICK r : Tree(items, n, N, r)
    BY <1>1
<1>3. DOMAIN items = 1..n /\ r \in [1..n -> 0..N]
    BY <1>2 DEF Tree
<1>4. \A j \in 1..n : WrittenFor[j] = Bytes(j) /\ IsSeq(Bytes(j), Byte)
    BY <1>3, PrintIs DEF WrittenFor
<1>5. Maps(WrittenFor, 1..n, Seq(Byte))
    BY <1>3, <1>4 DEF Maps, WrittenFor, IsSeq
<1>6. PICK p : p = Printed
    OBVIOUS
<1>7. \A j \in 1..n : p[j] = SentStep(p, j) /\ IsSeq(p[j], 1..n)
  <2>1. Leaves \subseteq 1..n
    BY <1>3 DEF Leaves
  <2>2. \A j \in 1..n : p[j] = SentStep(p, j) /\ IsSeq(p[j], Leaves)
    BY <1>3, <1>6, PrintedIs DEF SentDefined
  <2> QED
    BY <2>1, <2>2, WiderSeq
<1>8. \A j \in 1..n : Sent(p)[j] = IF items[j].obj_type = "object" THEN p[j] ELSE <<j>>
    BY <1>3 DEF Sent
<1> DEFINE P == {i \in 1..n : items[i].obj_type # "tlv" => Body(i) = PutTogether(WrittenFor, p[i])}
<1>9. ASSUME NEW i \in 1..n, \A j \in 1..n : r[j] < r[i] => j \in P
      PROVE  i \in P
  <2> SUFFICES ASSUME items[i].obj_type # "tlv" PROVE Body(i) = PutTogether(WrittenFor, p[i])
    OBVIOUS
  <2>1. PICK ss : ss = InChildren(Sent(p), items, i)
    OBVIOUS
  <2>2. IsSeq(ss, Seq(1..n)) /\ Len(ss) = Len(items[i].child)
    <3>1. \A j \in 1..n : r[j] < r[i] => Sent(p)[j] \in Seq(1..n)
      <4>1. \A j \in 1..n : <<j>> \in Seq(1..n)
        OBVIOUS
      <4> QED
        BY <1>7, <1>8, <4>1 DEF IsSeq
    <3> QED
      BY <1>2, <2>1, <3>1, InChildrenType
  <2>3. PutTogether(WrittenFor, FlattenSeq(ss)) = FlattenSeq(Parts(WrittenFor, ss))
    BY <1>5, <2>2, TogetherFlatten
  <2>4. Parts(WrittenFor, ss) = InChildren(WrittenFor, items, i)
    <3>1. DOMAIN items[i].child = 1..Len(ss)
      BY <1>2, <2>2 DEF Tree
    <3>2. ASSUME NEW k \in 1..Len(ss)
          PROVE  PutTogether(WrittenFor, ss[k]) = WrittenFor[items[i].child[k]]
      <4>1. PICK c \in 1..n : c = items[i].child[k] /\ r[c] < r[i]
        BY <1>2, <2>2 DEF Tree
      <4>2. ss[k] = IF items[c].obj_type = "object" THEN p[c] ELSE <<c>>
        BY <1>8, <2>1, <3>1, <4>1 DEF InChildren
      <4>3. CASE items[c].obj_type = "object"
        <5>1. Body(c) = PutTogether(WrittenFor, p[c])
          BY <1>9, <4>1, <4>3
        <5>2. Bytes(c) = Body(c)
          BY <1>3, <4>3, BytesAre
        <5> QED
          BY <1>4, <4>1, <4>2, <4>3, <5>1, <5>2
      <4>4. CASE items[c].obj_type # "object"
        BY <1>5, <4>1, <4>2, <4>4, TogetherOne
      <4> QED
        BY <4>3, <4>4
    <3> QED
      BY <3>1, <3>2 DEF Parts, InChildren
  <2>5. p[i] = FlattenSeq(ss)
    BY <1>7, <2>1 DEF SentStep
  <2> QED
    BY <2>3, <2>4, <2>5 DEF Body
<1>10. 1..n \subseteq P
  <2> HIDE DEF P
  <2>1. IsRank(r, 1..n, N) /\ RisesAlong(P, r, 1..n)
    BY <1>3, <1>9 DEF IsRank, RisesAlong
  <2> QED
    BY <1>1, <2>1, RankInduction
<1> QED
    BY <1>3, <1>6, <1>10

-----------------------------------------------------------------------------
(* Parsing finds what is written where it is written                       *)

(* The bytes of x are in e from an offset on. *)
At(e, o, x) == o + Len(x) <= Len(e) /\ \A j \in 1..Len(x) : e[o + j] = x[j]

LEMMA AtParts ==
    ASSUME NEW e, IsSeq(e, Byte), NEW o \in Nat, NEW a, IsSeq(a, Byte), NEW b, IsSeq(b, Byte),
           At(e, o, a \o b)
    PROVE  At(e, o, a) /\ At(e, o + Len(a), b)
<1>1. PICK m \in Nat, n \in Nat : m = Len(a) /\ n = Len(b)
    BY LenProperties DEF IsSeq
<1>2. PICK x : x = a \o b
    OBVIOUS
<1>3. Len(x) = m + n /\ \A j \in 1..m + n : x[j] = IF j <= m THEN a[j] ELSE b[j - m]
    BY <1>1, <1>2, ConcatProperties DEF IsSeq
<1>4. PICK l \in Nat : l = Len(e)
    BY LenProperties DEF IsSeq
<1>5. o + (m + n) <= l /\ \A j \in 1..m + n : e[o + j] = x[j]
    BY <1>2, <1>3, <1>4 DEF At
<1>6. ASSUME NEW j \in 1..m PROVE e[o + j] = a[j]
  <2>1. j \in 1..m + n /\ j <= m
    OBVIOUS
  <2> QED
    BY <1>3, <1>5, <2>1
<1>7. ASSUME NEW j \in 1..n PROVE e[(o + m) + j] = b[j]
  <2>1. m + j \in 1..m + n /\ ~(m + j <= m) /\ (m + j) - m = j /\ (o + m) + j = o + (m + j)
    OBVIOUS
  <2>2. e[o + (m + j)] = x[m + j] /\ x[m + j] = b[(m + j) - m]
    BY <1>3, <1>5, <2>1
  <2> QED
    BY <2>1, <2>2
<1>8. o + m <= l /\ (o + m) + n <= l
    BY <1>5
<1> QED
    BY <1>1, <1>4, <1>6, <1>7, <1>8 DEF At

LEMMA AtCut ==
    ASSUME NEW e, IsSeq(e, Byte), NEW o \in Nat, NEW x, IsSeq(x, Byte), At(e, o, x)
    PROVE  SubSeq(e, o + 1, o + Len(x)) = x
<1>1. PICK n \in Nat : n = Len(x)
    BY LenProperties DEF IsSeq
<1>2. o + n <= Len(e) /\ \A j \in 1..n : e[o + j] = x[j]
    BY <1>1 DEF At
<1>3. PICK y : y = SubSeq(e, o + 1, o + n)
    OBVIOUS
<1>4. CutOf(y, e, o, n, Byte)
    BY <1>1, <1>2, <1>3, CutParts
<1>5. CutOf(x, e, o, n, Byte)
    BY <1>1, <1>2 DEF CutOf
<1>6. y = x
    BY <1>4, <1>5, CutIs
<1> QED
    BY <1>1, <1>3, <1>6

(* As a receiver reads an item: its type may be another.                   *)
AsRead(c) == [type |-> ParsedType(TypeBytes(items[c].type)), value |-> Body(c)]

LEMMA ItemIsRead ==
    ASSUME CodecInv, NEW c \in DOMAIN items, NEW e, IsSeq(e, Byte), NEW o \in Nat,
           At(e, o, Header(c) \o Body(c))
    PROVE  ItemAt(e, o) = AsRead(c) /\ LengthAt(e, o) = items[c].length
<1>1. PICK a, b, v : a = TypeBytes(items[c].type) /\ b = LengthBytes(items[c].length) /\ v = Body(c)
    OBVIOUS
<1>2. PICK x \in Item : x = items[c]
    BY HeaderIs
<1>3. x.type \in TypeRange /\ x.length \in 0..MaxLength /\ type_len \in {1, 2}
    BY ItemIs DEF CodecInv
<1>4. IsSeq(a, Byte) /\ Len(a) = type_len
    BY <1>1, <1>2, <1>3, TypeBytesIs
<1>5. IsSeq(b, Byte) /\ Len(b) = 2 /\ ParsedLength(b) = x.length
    BY <1>1, <1>2, <1>3, LengthBytesIs DEF TwoOf
<1>6. IsSeq(v, Byte) /\ Len(v) = x.length
    BY <1>1, <1>2, BytesAre, BodyLength
<1>7. Header(c) = a \o b /\ IsSeq(a \o b, Byte) /\ Len(a \o b) = type_len + 2
  <2>1. IsSeq(a \o b, Byte) /\ Len(a \o b) = Len(a) + Len(b)
    BY <1>4, <1>5, ConcatIs
  <2>2. Header(c) = a \o b
    BY <1>1 DEF Header
  <2> QED
    BY <1>4, <1>5, <2>1, <2>2
<1>8. At(e, o, a \o b) /\ At(e, o + (type_len + 2), v)
    BY <1>1, <1>6, <1>7, AtParts
<1>9. At(e, o, a) /\ At(e, o + type_len, b)
    BY <1>4, <1>5, <1>8, AtParts
<1>10. PICK n \in Nat, l \in Nat : n = type_len /\ l = x.length
    BY <1>2, <1>3, ItemIs
<1>11. HeaderLen = n + 2
    BY <1>10 DEF HeaderLen, sizeof_tlv_len
<1>12. SubSeq(e, o + 1, o + n) = a
    BY <1>4, <1>9, <1>10, AtCut
<1>13. SubSeq(e, (o + n) + 1, (o + n) + 2) = b
  <2>1. PICK m \in Nat : m = o + n
    BY <1>10
  <2>2. SubSeq(e, m + 1, m + Len(b)) = b
    BY <1>5, <1>9, <1>10, <2>1, AtCut
  <2> QED
    BY <1>5, <2>1, <2>2
<1>14. SubSeq(e, (o + (n + 2)) + 1, (o + (n + 2)) + l) = v
  <2>1. PICK m \in Nat : m = o + (n + 2)
    BY <1>10
  <2>2. SubSeq(e, m + 1, m + Len(v)) = v
    BY <1>6, <1>8, <1>10, <2>1, AtCut
  <2> QED
    BY <1>6, <1>10, <2>1, <2>2
<1>15. LengthAt(e, o) = l
  <2>1. o + n + 1 = (o + n) + 1 /\ o + (n + 2) = (o + n) + 2
    OBVIOUS
  <2> QED
    BY <1>5, <1>10, <1>11, <1>13, <2>1 DEF LengthAt
<1>16. ItemAt(e, o) = [type |-> ParsedType(a), value |-> v]
  <2>1. o + (n + 2) + 1 = (o + (n + 2)) + 1 /\ o + (n + 2) + l = (o + (n + 2)) + l
    OBVIOUS
  <2> QED
    BY <1>10, <1>11, <1>12, <1>14, <1>15, <2>1 DEF ItemAt
<1> QED
    BY <1>1, <1>2, <1>10, <1>15, <1>16 DEF AsRead

LEMMA BytesAreNumbers == \A b \in Byte : b \in Nat
BY DEF Byte

(* A length that is read is a number, wherever it is read.                 *)
LEMMA LengthAtType ==
    ASSUME type_len \in {1, 2}, NEW e, IsSeq(e, Byte), NEW o \in Nat, Len(e) - o > HeaderLen
    PROVE  LengthAt(e, o) \in Nat
<1>1. PICK n \in Nat, l \in Nat : n = type_len /\ l = Len(e) /\ HeaderLen = n + 2
    BY LenProperties DEF IsSeq, HeaderLen, sizeof_tlv_len
<1>2. (o + n) + 2 <= l
    BY <1>1
<1>3. PICK x : x = SubSeq(e, (o + n) + 1, (o + n) + 2)
    OBVIOUS
<1>4. CutOf(x, e, o + n, 2, Byte)
    BY <1>1, <1>2, <1>3, CutParts
<1>5. IsSeq(x, Byte) /\ Len(x) = 2
    BY <1>4 DEF CutOf
<1>6. x[1] \in Byte /\ x[2] \in Byte
  <2>1. 1 \in 1..Len(x) /\ 2 \in 1..Len(x)
    BY <1>5
  <2> QED
    BY <1>5, <2>1, ElementOfSeq DEF IsSeq
<1>7. x[1] * 256 + x[2] \in Nat
  <2>1. PICK p \in Nat, q \in Nat : p = x[1] /\ q = x[2]
    BY <1>6, BytesAreNumbers
  <2>2. p * 256 + q \in Nat
    OBVIOUS
  <2> QED
    BY <2>1, <2>2
<1>8. LengthAt(e, o) = ParsedLength(x)
  <2>1. o + n + 1 = (o + n) + 1 /\ o + (n + 2) = (o + n) + 2
    OBVIOUS
  <2> QED
    BY <1>1, <1>3, <2>1 DEF LengthAt
<1> QED
    BY <1>7, <1>8 DEF ParsedLength

(* What is found from each offset on. *)
FromDefined(f, e) ==
    f = [o \in Nat |-> IF Len(e) - o <= HeaderLen THEN <<>>
                       ELSE <<ItemAt(e, o)>> \o f[o + HeaderLen + LengthAt(e, o)]]

LEMMA FromExists ==
    ASSUME type_len \in {1, 2}, NEW e, IsSeq(e, Byte)
    PROVE  \E f : FromDefined(f, e)
<1>1. PICK N \in Nat, h \in Nat : N = Len(e) /\ h = HeaderLen /\ h > 0
    BY LenProperties DEF IsSeq, HeaderLen, sizeof_tlv_len
<1> DEFINE Things == {ItemAt(e, o) : o \in 0..N}
           T == Seq(Things)
           W == {o \in 0..N : ~(N - o <= h)}
           after(o) == o + h + LengthAt(e, o)
           next == [o \in 0..N |-> IF after(o) <= N THEN after(o) ELSE N]
           base == [o \in 0..N |-> <<>>]
           step == [o \in 0..N |-> [x \in T |-> <<ItemAt(e, o)>> \o x]]
<1>2. ASSUME NEW o \in 0..N, o \in W
      PROVE  /\ next[o] \in o + 1..N /\ after(o) \in Nat
             /\ next[o] = IF after(o) <= N THEN after(o) ELSE N
  <2>1. PICK l \in Nat : l = LengthAt(e, o)
    BY <1>1, <1>2, LengthAtType
  <2>2. N - o > h
    BY <1>1, <1>2
  <2>3. next[o] = IF o + h + l <= N THEN o + h + l ELSE N
    BY <2>1
  <2> QED
    BY <1>1, <2>1, <2>2, <2>3
<1>3. <<>> \in T /\ \A o \in 0..N, x \in T : <<ItemAt(e, o)>> \o x \in T
  <2>1. ASSUME NEW o \in 0..N, NEW x \in T PROVE <<ItemAt(e, o)>> \o x \in T
    <3>1. ItemAt(e, o) \in Things
      OBVIOUS
    <3> HIDE DEF Things
    <3>2. <<ItemAt(e, o)>> \in Seq(Things)
      BY <3>1
    <3> QED
      BY <3>2, ConcatProperties
  <2> QED
    BY <2>1, EmptySeq
<1> HIDE DEF T
<1>4. base \in [0..N -> T] /\ step \in [0..N -> [T -> T]]
    BY <1>3
<1>5. \A o \in 0..N : base[o] = <<>> /\ \A x \in T : step[o][x] = <<ItemAt(e, o)>> \o x
    OBVIOUS
<1> HIDE DEF base, step, next, W
<1>6. PICK f \in [0..N -> T] : Descends(f, 0, N, W, next, base, step)
    BY <1>1, <1>2, <1>4, DescentExists
<1> DEFINE g == [o \in Nat |-> IF o \in 0..N THEN f[o] ELSE <<>>]
<1>7. \A o \in 0..N : f[o] = IF o \in W THEN step[o][f[next[o]]] ELSE base[o]
    BY <1>6 DEF Descends
<1>8. ASSUME NEW o \in Nat
      PROVE  g[o] = IF N - o <= h THEN <<>> ELSE <<ItemAt(e, o)>> \o g[after(o)]
  <2>1. CASE o \in 0..N /\ ~(N - o <= h)
    <3>1. o \in W
      BY <2>1 DEF W
    <3>2. /\ next[o] \in o + 1..N /\ after(o) \in Nat
          /\ next[o] = IF after(o) <= N THEN after(o) ELSE N
      BY <1>2, <2>1, <3>1
    <3>3. PICK a \in Nat, b \in 0..N : a = after(o) /\ b = next[o]
      BY <1>1, <2>1, <3>2
    <3>4. f[o] = <<ItemAt(e, o)>> \o f[b]
      BY <1>5, <1>6, <1>7, <2>1, <3>1, <3>3
    <3>5. f[b] = g[a]
      <4>1. CASE a <= N
        BY <1>1, <3>2, <3>3, <4>1
      <4>2. CASE ~(a <= N)
        <5>1. b = N /\ g[a] = <<>>
          BY <1>1, <3>2, <3>3, <4>2
        <5>2. N \notin W /\ N \in 0..N
          BY <1>1 DEF W
        <5>3. f[N] = <<>>
          BY <1>5, <1>7, <5>2
        <5> QED
          BY <5>1, <5>3
      <4> QED
        BY <4>1, <4>2
    <3>6. g[o] = f[o]
      BY <2>1
    <3> HIDE DEF g, after
    <3> QED
      BY <2>1, <3>3, <3>4, <3>5, <3>6
  <2>2. CASE o \in 0..N /\ N - o <= h
    <3>1. o \notin W
      BY <2>2 DEF W
    <3> QED
      BY <1>5, <1>7, <2>2, <3>1
  <2>3. CASE o \notin 0..N
    <3>1. N - o <= h
      BY <1>1, <2>3
    <3> QED
      BY <2>3, <3>1
  <2> QED
    BY <2>1, <2>2, <2>3
<1>9. g = [o \in Nat |-> g[o]]
    OBVIOUS
<1> HIDE DEF g
<1>10. FromDefined(g, e)
    BY <1>1, <1>8, <1>9 DEF FromDefined
<1> QED
    BY <1>10

(* How many of the items sent are found: not an empty one at the end.      *)
Readable(sent) ==
    IF sent # <<>> /\ Body(sent[Len(sent)]) = <<>> THEN Len(sent) - 1 ELSE Len(sent)

FoundFrom(sent, k) == [j \in 1..Readable(sent) - k |-> AsRead(sent[k + j])]

LEMMA FoundAll ==
    ASSUME CodecInv, NEW i \in DOMAIN items, items[i].obj_type # "tlv",
           NEW f, FromDefined(f, Body(i))
    PROVE  f[0] = FoundFrom(Printed[i], 0)
<1>1. PICK e, sent : e = Body(i) /\ sent = Printed[i]
    OBVIOUS
<1>2. IsSeq(e, Byte) /\ IsSeq(sent, Leaves)
    BY <1>1, BytesAre, PrintedIs
<1>3. PICK M \in Nat : M = Len(sent)
    BY <1>2, LenProperties DEF IsSeq
<1>4. \A k \in 1..M : sent[k] \in Leaves
    BY <1>2, <1>3, ElementOfSeq DEF IsSeq
<1>5. PICK h \in Nat : h = HeaderLen /\ h > 0
    BY DEF HeaderLen, sizeof_tlv_len, CodecInv
<1>6. PICK cells : cells = Mapped(WrittenFor, sent)
    OBVIOUS
<1>7. /\ IsSeq(cells, Seq(Byte)) /\ Len(cells) = M /\ e = FlattenSeq(cells)
      /\ \A k \in 1..M : cells[k] = WrittenFor[sent[k]]
  <2>1. Maps(WrittenFor, DOMAIN items, Seq(Byte))
    BY PrintIs DEF Maps, WrittenFor, IsSeq
  <2>2. IsSeq(sent, DOMAIN items)
    BY <1>2, WiderSeq DEF Leaves
  <2>3. IsSeq(cells, Seq(Byte)) /\ MapsAll(cells, WrittenFor, sent)
    BY <1>6, <2>1, <2>2, MappedType
  <2>4. e = PutTogether(WrittenFor, sent)
    BY <1>1, BodyIsSent
  <2> QED
    BY <1>3, <1>6, <2>3, <2>4 DEF MapsAll, PutTogether
<1>8. ASSUME NEW k \in 1..M
      PROVE  /\ cells[k] = Header(sent[k]) \o Body(sent[k]) /\ IsSeq(cells[k], Byte)
             /\ Len(cells[k]) = h + items[sent[k]].length
             /\ items[sent[k]].length = Len(Body(sent[k])) /\ items[sent[k]].length \in Nat
             /\ sent[k] \in DOMAIN items
  <2>1. PICK c \in DOMAIN items : c = sent[k] /\ items[c].obj_type # "object"
    BY <1>4 DEF Leaves
  <2>2. PICK a, b : a = Header(c) /\ b = Body(c)
    OBVIOUS
  <2>3. IsSeq(a, Byte) /\ Len(a) = h /\ IsSeq(b, Byte) /\ Len(b) = items[c].length
    BY <1>5, <2>2, HeaderIs, BytesAre, BodyLength
  <2>4. cells[k] = a \o b
    BY <1>7, <2>1, <2>2, BytesAre DEF WrittenFor
  <2>5. IsSeq(a \o b, Byte) /\ Len(a \o b) = Len(a) + Len(b)
    BY <2>3, ConcatIs
  <2>6. Len(b) \in Nat
    BY <2>3, LenProperties DEF IsSeq
  <2> QED
    BY <2>1, <2>2, <2>3, <2>4, <2>5, <2>6
<1>9. PICK off \in [0..M -> Nat] : Places(off, cells, e)
    BY <1>7, FlattenPlaces DEF Placeable
<1>10. /\ off[0] = 0 /\ off[M] = Len(e)
       /\ \A k \in 1..M : /\ off[k] = off[k - 1] + Len(cells[k])
                          /\ \A j \in 1..Len(cells[k]) : e[off[k - 1] + j] = cells[k][j]
    BY <1>7, <1>9 DEF Places
<1>11. \A k \in 0..M : off[k] <= off[M]
  <2> DEFINE len == [k \in 1..M |-> Len(cells[k])]
  <2>1. len \in [1..M -> Nat] /\ \A k \in 1..M : len[k] = Len(cells[k])
    BY <1>8, LenProperties DEF IsSeq
  <2> HIDE DEF len
  <2>2. \A k \in 1..M : off[k] = off[k - 1] + len[k]
    BY <1>10, <2>1
  <2> QED
    BY <1>3, <1>9, <2>1, <2>2, SumsGrow
<1>12. ASSUME NEW k \in 1..M
       PROVE  /\ ItemAt(e, off[k - 1]) = AsRead(sent[k])
              /\ off[k] = off[k - 1] + h + LengthAt(e, off[k - 1])
              /\ LengthAt(e, off[k - 1]) = items[sent[k]].length
  <2>1. PICK o \in Nat, l \in Nat : o = off[k - 1] /\ l = items[sent[k]].length
    BY <1>3, <1>8, <1>9
  <2>2. off[k] = o + (h + l) /\ Len(cells[k]) = h + l /\ off[k] <= Len(e)
    BY <1>3, <1>8, <1>10, <1>11, <2>1
  <2>3. At(e, o, cells[k])
    BY <1>10, <2>1, <2>2 DEF At
  <2>4. ItemAt(e, o) = AsRead(sent[k]) /\ LengthAt(e, o) = l
    BY <1>2, <1>8, <2>1, <2>3, ItemIsRead
  <2> QED
    BY <1>5, <2>1, <2>2, <2>4
<1>13. PICK R : R = Readable(sent)
    OBVIOUS
<1>14. /\ R \in 0..M /\ (R # M => M > 0 /\ R = M - 1 /\ Body(sent[M]) = <<>>)
       /\ (R = M /\ M > 0 => Body(sent[M]) # <<>>)
  <2>1. sent # <<>> <=> M > 0
    BY <1>2, <1>3, EmptySeq DEF IsSeq
  <2> QED
    BY <1>3, <1>13, <2>1 DEF Readable
<1>15. \A o \in Nat : f[o] = IF off[M] - o <= h THEN <<>>
                             ELSE <<ItemAt(e, o)>> \o f[o + h + LengthAt(e, o)]
    BY <1>1, <1>5, <1>10 DEF FromDefined
<1> DEFINE P == {k \in 0..R : f[off[k]] = FoundFrom(sent, k)}
<1>16. R \in P
  <2>1. off[M] - off[R] <= h
    <3>1. CASE R = M
      BY <1>3, <1>5, <1>9, <3>1
    <3>2. CASE R # M
      <4>1. M \in 1..M /\ R = M - 1 /\ Body(sent[M]) = <<>>
        BY <1>3, <1>14, <3>2
      <4>2. items[sent[M]].length = 0
        BY <1>8, <4>1
      <4>3. off[M] = off[M - 1] + Len(cells[M]) /\ Len(cells[M]) = h + items[sent[M]].length
        BY <1>8, <1>10, <4>1
      <4>4. off[R] \in Nat
        BY <1>9, <1>14
      <4> QED
        BY <1>5, <4>1, <4>2, <4>3, <4>4
    <3> QED
      BY <3>1, <3>2
  <2>2. f[off[R]] = <<>>
    BY <1>9, <1>14, <1>15, <2>1
  <2>3. FoundFrom(sent, R) = <<>>
    <3>1. 1..Readable(sent) - R = {}
      BY <1>3, <1>13, <1>14
    <3> QED
      BY <3>1 DEF FoundFrom
  <2> QED
    BY <1>14, <2>2, <2>3
<1>17. ASSUME NEW k \in 0..R, k # R, k + 1 \in P PROVE k \in P
  <2>1. k + 1 \in 1..M /\ k \in 0..M /\ (k + 1) - 1 = k
    BY <1>3, <1>14, <1>17
  <2>2. PICK o \in Nat, l \in Nat : o = off[k] /\ l = items[sent[k + 1]].length
    BY <1>8, <1>9, <2>1
  <2>3. ItemAt(e, o) = AsRead(sent[k + 1]) /\ off[k + 1] = o + h + l /\ LengthAt(e, o) = l
    BY <1>12, <2>1, <2>2
  <2>4. ~(off[M] - o <= h)
    <3>1. CASE k + 1 = M
      <4>1. R = M /\ M > 0
        BY <1>14, <1>17, <3>1
      <4>2. Body(sent[M]) # <<>> /\ IsSeq(Body(sent[M]), Byte) /\ Len(Body(sent[M])) = l
        BY <1>8, <1>14, <2>1, <2>2, <3>1, <4>1, BytesAre
      <4>3. l # 0
        BY <4>2, EmptySeq DEF IsSeq
      <4> QED
        BY <1>5, <2>2, <2>3, <3>1, <4>3
    <3>2. CASE k + 1 # M
      <4>1. k + 2 \in 1..M /\ (k + 2) - 1 = k + 1
        BY <1>3, <2>1, <3>2
      <4>2. PICK y \in Nat : y = items[sent[k + 2]].length
        BY <1>8, <4>1
      <4>3. off[k + 2] = off[k + 1] + (h + y)
        BY <1>8, <1>10, <4>1, <4>2
      <4>4. PICK z \in Nat : z = off[M] /\ off[k + 2] <= z
        BY <1>3, <1>9, <1>11, <4>1
      <4>5. o + h + l + (h + y) <= z
        BY <2>3, <4>3, <4>4
      <4>6. ~(z - o <= h)
        <5>1. \A p \in Nat, q \in Nat, r \in Nat, s \in Nat, t \in Nat :
                  p > 0 /\ q + p + r + (p + s) <= t => ~(t - q <= p)
          OBVIOUS
        <5>2. o \in Nat /\ l \in Nat /\ h \in Nat /\ h > 0 /\ y \in Nat /\ z \in Nat
          BY <1>5, <2>2, <4>2, <4>4
        <5> QED
          BY <4>5, <5>1, <5>2
      <4> QED
        BY <4>4, <4>6
    <3> QED
      BY <3>1, <3>2
  <2>5. f[o] = <<AsRead(sent[k + 1])>> \o f[off[k + 1]]
    BY <1>15, <2>2, <2>3, <2>4
  <2>6. f[off[k + 1]] = FoundFrom(sent, k + 1)
    BY <1>17
  <2>7. <<AsRead(sent[k + 1])>> \o FoundFrom(sent, k + 1) = FoundFrom(sent, k)
    <3> DEFINE T == {AsRead(sent[j]) : j \in 1..M}
    <3>1. PICK m \in Nat : m = R - (k + 1)
      BY <1>3, <1>14, <1>17
    <3>2. PICK q, r : q = FoundFrom(sent, k) /\ r = FoundFrom(sent, k + 1)
      OBVIOUS
    <3>3. \A j \in 1..M : AsRead(sent[j]) \in T
      OBVIOUS
    <3> HIDE DEF T
    <3>4. q = [j \in 1..m + 1 |-> AsRead(sent[k + j])] /\ r = [j \in 1..m |-> AsRead(sent[(k + 1) + j])]
      <4>1. Readable(sent) - k = m + 1 /\ Readable(sent) - (k + 1) = m
        BY <1>3, <1>13, <1>14, <3>1
      <4> QED
        BY <3>2, <4>1 DEF FoundFrom
    <3>5. \A j \in 1..m + 1 : k + j \in 1..M
      BY <1>3, <1>14, <3>1
    <3>6. \A j \in 1..m : j + 1 \in 1..m + 1 /\ k + (j + 1) = (k + 1) + j
      BY <3>1
    <3>7. q \in [1..m + 1 -> T] /\ r \in [1..m -> T] /\ \A j \in 1..m : q[j + 1] = r[j]
      BY <3>3, <3>4, <3>5, <3>6
    <3>8. IsSeq(q, T) /\ Len(q) = m + 1 /\ IsSeq(r, T) /\ Len(r) = m
      <4>1. PICK n \in Nat : n = m + 1
        BY <3>1
      <4>2. IsSeq(q, T) /\ Len(q) = n
        BY <3>7, <4>1, FunctionIsSeq DEF IsSeq
      <4>3. IsSeq(r, T) /\ Len(r) = m
        BY <3>1, <3>7, FunctionIsSeq DEF IsSeq
      <4> QED
        BY <4>1, <4>2, <4>3
    <3>9. Led(q, r)
      BY <3>7, <3>8 DEF Led
    <3>10. <<q[1]>> \o r = q
      BY <3>1, <3>8, <3>9, PutFirst
    <3>11. q[1] = AsRead(sent[k + 1])
      BY <3>1, <3>4
    <3> QED
      BY <3>2, <3>10, <3>11
  <2> QED
    BY <2>2, <2>5, <2>6, <2>7
<1>18. 0..R \subseteq P
  <2>1. ASSUME NEW k \in 0..R, \A j \in k + 1..R : j \in P PROVE k \in P
    <3>1. k # R => k + 1 \in k + 1..R
      BY <1>3, <1>14
    <3> HIDE DEF P
    <3> QED
      BY <1>16, <1>17, <2>1, <3>1
  <2>2. R \in Nat
    BY <1>3, <1>14
  <2> HIDE DEF P
  <2> QED
    BY <2>1, <2>2, DescendingInduction
<1>19. 0 \in P
    BY <1>3, <1>14, <1>18
<1> QED
    BY <1>1, <1>10, <1>19

(* An item that is looked for by a type is not taken for one of another.   *)
LEMMA SameType ==
    ASSUME type_len \in {1, 2}, NEW s \in TypeRange, NEW t \in TypeRange, type_len = 1 => t < 128
    PROVE  ParsedType(TypeBytes(s)) = t <=> s = t
<1>1. CASE type_len = 1 => s < 128
    BY <1>1, TypeBytesIs
<1>2. CASE ~(type_len = 1 => s < 128)
  <2>1. s \in Byte /\ s % 256 = s /\ t \in Byte
    BY <1>2, OneByte DEF TypeRange
  <2>2. TypeBytes(s) = <<s>>
    BY <1>2, <2>1 DEF TypeBytes
  <2>3. ParsedType(TypeBytes(s)) = 256 * 255 + s
    BY <1>2, <2>2, <2>1, BytesAreNumbers DEF ParsedType
  <2>4. s \in Nat /\ t \in Nat /\ t < 128 /\ ~(s < 128)
    BY <1>2, <2>1, BytesAreNumbers
  <2> QED
    BY <2>3, <2>4
<1> QED
    BY <1>1, <1>2

(* The places before the kth where t is.                                   *)
Earlier(q, t, k) == {j \in 1..k - 1 : q[j] = t}

LEMMA EarlierGrows ==
    ASSUME NEW q, NEW t, NEW k \in Nat \ {0}, NEW l \in Nat, k < l, q[k] = t
    PROVE  Cardinality(Earlier(q, t, k)) # Cardinality(Earlier(q, t, l))
<1>1. k - 1 \in Int /\ l - 1 \in Int
    OBVIOUS
<1>2. IsFiniteSet(1..l - 1)
    BY <1>1, FS_Interval
<1>3. Earlier(q, t, l) \in SUBSET (1..l - 1)
    BY DEF Earlier
<1>4. IsFiniteSet(Earlier(q, t, l))
    BY <1>2, <1>3, FS_Subset
<1>5. Earlier(q, t, k) \in SUBSET Earlier(q, t, l)
    BY DEF Earlier
<1>6. k \in Earlier(q, t, l) /\ k \notin Earlier(q, t, k)
    BY DEF Earlier
<1> QED
    BY <1>4, <1>5, <1>6, FS_Subset

(* One place of t is told from the others by how many there are before it. *)
LEMMA NumberTells ==
    ASSUME NEW q, NEW t, NEW k \in Nat \ {0}, NEW l \in Nat \ {0}, q[k] = t, q[l] = t,
           Cardinality(Earlier(q, t, k)) = Cardinality(Earlier(q, t, l))
    PROVE  k = l
<1>1. CASE k < l
    BY <1>1, EarlierGrows
<1>2. CASE l < k
    BY <1>2, EarlierGrows
<1> QED
    BY <1>1, <1>2

LEMMA ParsedIs ==
    ASSUME CodecInv, NEW i \in DOMAIN items, items[i].obj_type # "tlv"
    PROVE  Kami_Tlv_ParseObject(Contents(i))
             = [j \in 1..Readable(Printed[i]) |-> AsRead(Printed[i][j])]
<1>1. PICK e : e = Body(i)
    OBVIOUS
<1>2. type_len \in {1, 2} /\ IsSeq(e, Byte) /\ Contents(i) = e
    BY <1>1, BytesAre, ContentsAre DEF CodecInv
<1>3. PICK f : f = CHOOSE g : FromDefined(g, e)
    OBVIOUS
<1>4. FromDefined(f, e)
    BY <1>2, <1>3, FromExists
<1>5. Kami_Tlv_ParseObject(e) = f[0]
    BY <1>3, Zenon DEF Kami_Tlv_ParseObject, FromDefined
<1>6. f[0] = FoundFrom(Printed[i], 0)
    BY <1>1, <1>4, FoundAll
<1>7. Readable(Printed[i]) \in Nat
  <2>1. IsSeq(Printed[i], Leaves)
    BY PrintedIs
  <2>2. PICK M \in Nat : M = Len(Printed[i]) /\ (Printed[i] # <<>> => M > 0)
    BY <2>1, LenProperties, EmptySeq DEF IsSeq
  <2> QED
    BY <2>2 DEF Readable
<1>8. FoundFrom(Printed[i], 0) = [j \in 1..Readable(Printed[i]) |-> AsRead(Printed[i][j])]
  <2>1. PICK R \in Nat : R = Readable(Printed[i])
    BY <1>7
  <2>2. R - 0 = R /\ \A j \in 1..R : 0 + j = j
    OBVIOUS
  <2>3. FoundFrom(Printed[i], 0) = [j \in 1..R - 0 |-> AsRead(Printed[i][0 + j])]
    BY <2>1 DEF FoundFrom
  <2> QED
    BY <2>1, <2>2, <2>3
<1> QED
    BY <1>2, <1>5, <1>6, <1>8

(* What is asked for and where it is in what was sent.                     *)
Asked(sent, k) == items[sent[k]].type
Number(sent, k) == Cardinality({j \in 1..k - 1 : items[sent[j]].type = Asked(sent, k)})

LEMMA ItemFound ==
    ASSUME CodecInv, NEW i \in DOMAIN items, items[i].obj_type # "tlv",
           NEW sent, sent = Printed[i], NEW parsed, parsed = Kami_Tlv_ParseObject(Contents(i)),
           NEW k \in DOMAIN sent, type_len = 1 => Asked(sent, k) < 128,
           k = Len(sent) => Contents(sent[k]) # <<>>
    PROVE  Kami_Tlv_GetObjectItem(parsed, Asked(sent, k), Number(sent, k))
             = {[type |-> Asked(sent, k), value |-> Contents(sent[k])]}
<1>1. IsSeq(sent, Leaves) /\ type_len \in {1, 2}
    BY PrintedIs DEF CodecInv
<1>2. PICK M \in Nat : M = Len(sent) /\ DOMAIN sent = 1..M
    BY <1>1, LenProperties DEF IsSeq
<1>3. \A j \in 1..M : sent[j] \in DOMAIN items
    BY <1>1, <1>2, ElementOfSeq DEF IsSeq, Leaves
<1>4. \A j \in 1..M : items[sent[j]].type \in TypeRange /\ Contents(sent[j]) = Body(sent[j])
    BY <1>3, HeaderIs, ItemIs, ContentsAre
<1>5. PICK R : R = Readable(sent)
    OBVIOUS
<1>6. R \in 0..M /\ k \in 1..R
  <2>1. sent # <<>> /\ M > 0
    BY <1>1, <1>2, EmptySeq DEF IsSeq
  <2>2. k = M => Body(sent[M]) # <<>>
    BY <1>2, <1>4
  <2> QED
    BY <1>2, <1>5, <2>1, <2>2 DEF Readable
<1>7. parsed = [j \in 1..R |-> AsRead(sent[j])]
    BY <1>5, ParsedIs
<1>8. PICK t \in TypeRange : t = Asked(sent, k)
    BY <1>2, <1>4 DEF Asked
<1>9. \A j \in 1..R : parsed[j].type = t <=> items[sent[j]].type = t
  <2>1. SUFFICES ASSUME NEW j \in 1..R PROVE parsed[j].type = t <=> items[sent[j]].type = t
    OBVIOUS
  <2>2. j \in 1..M
    BY <1>2, <1>6
  <2>3. PICK s \in TypeRange : s = items[sent[j]].type
    BY <1>4, <2>2
  <2>4. parsed[j].type = ParsedType(TypeBytes(s))
    BY <1>7, <2>1, <2>3 DEF AsRead
  <2>5. type_len = 1 => t < 128
    BY <1>8
  <2> QED
    BY <1>1, <2>3, <2>4, <2>5, SameType
<1>10. PICK q : q = [j \in 1..M |-> items[sent[j]].type]
    OBVIOUS
<1>11. \A l \in 1..R : {j \in 1..l - 1 : parsed[j].type = t} = Earlier(q, t, l)
  <2>1. SUFFICES ASSUME NEW l \in 1..R, NEW j \in 1..l - 1
                 PROVE  parsed[j].type = t <=> q[j] = t
    BY DEF Earlier
  <2>2. j \in 1..R /\ j \in 1..M
    BY <1>2, <1>6
  <2> QED
    BY <1>9, <1>10, <2>2
<1>12. Number(sent, k) = Cardinality(Earlier(q, t, k))
  <2>1. {j \in 1..k - 1 : items[sent[j]].type = t} = {j \in 1..k - 1 : q[j] = t}
    <3>1. SUFFICES ASSUME NEW j \in 1..k - 1 PROVE items[sent[j]].type = t <=> q[j] = t
      OBVIOUS
    <3>2. j \in 1..M
      BY <1>2, <1>6
    <3> QED
      BY <1>10, <3>2
  <2> QED
    BY <1>8, <2>1 DEF Number, Earlier
<1>13. PICK n : n = Number(sent, k)
    OBVIOUS
<1>14. q[k] = t /\ parsed[k].type = t
  <2>1. k \in 1..M
    BY <1>2
  <2> QED
    BY <1>6, <1>8, <1>9, <1>10, <2>1 DEF Asked
<1>15. {l \in DOMAIN parsed : /\ parsed[l].type = t
                              /\ Cardinality({j \in 1..l - 1 : parsed[j].type = t}) = n} = {k}
  <2>1. DOMAIN parsed = 1..R
    BY <1>7
  <2>2. ASSUME NEW l \in 1..R, parsed[l].type = t,
               Cardinality({j \in 1..l - 1 : parsed[j].type = t}) = n
        PROVE  l = k
    <3>1. l \in Nat \ {0} /\ k \in Nat \ {0} /\ l \in 1..M
      BY <1>2, <1>6
    <3>2. q[l] = t
      BY <1>9, <1>10, <2>2, <3>1
    <3>3. Cardinality(Earlier(q, t, l)) = Cardinality(Earlier(q, t, k))
      BY <1>11, <1>12, <1>13, <2>2
    <3> QED
      BY <1>14, <3>1, <3>2, <3>3, NumberTells
  <2>3. Cardinality({j \in 1..k - 1 : parsed[j].type = t}) = n
    BY <1>6, <1>11, <1>12, <1>13
  <2> QED
    BY <1>6, <1>14, <2>1, <2>2, <2>3
<1>16. Kami_Tlv_GetObjectItem(parsed, t, n) = {parsed[k]}
    BY <1>15 DEF Kami_Tlv_GetObjectItem
<1>17. parsed[k] = [type |-> t, value |-> Contents(sent[k])]
  <2>1. parsed[k] = [type |-> ParsedType(TypeBytes(items[sent[k]].type)), value |-> Body(sent[k])]
    BY <1>6, <1>7 DEF AsRead
  <2>2. ParsedType(TypeBytes(items[sent[k]].type)) = t
    BY <1>14, <2>1
  <2>3. Body(sent[k]) = Contents(sent[k])
    BY <1>2, <1>4
  <2> QED
    BY <2>1, <2>2, <2>3
<1> QED
    BY <1>8, <1>13, <1>16, <1>17

(* Every item that was added is found by its type and its number among     *)
(* those of its type, with what was in it: whatever a tree of items was    *)
(* built, and in whatever order, what the printer wrote and what the       *)
(* parser reads, going from header to header by the lengths it finds,      *)
(* agree.  Left out are only the empty item at the end and the types that  *)
(* a signed byte cannot hold.                                              *)
THEOREM ItemsFound == Spec => []Found
<1>1. CodecInv => Found
  <2>1. SUFFICES ASSUME CodecInv PROVE Found
    OBVIOUS
  <2>2. SUFFICES ASSUME NEW i \in Containers, NEW k \in DOMAIN Printed[i],
                        type_len = 1 => Asked(Printed[i], k) < 128,
                        k = Len(Printed[i]) => Contents(Printed[i][k]) # <<>>
                 PROVE  Kami_Tlv_GetObjectItem(Kami_Tlv_ParseObject(Contents(i)),
                                               Asked(Printed[i], k), Number(Printed[i], k))
                          = {[type |-> Asked(Printed[i], k), value |-> Contents(Printed[i][k])]}
    BY Zenon DEF Found, Asked, Number
  <2>3. i \in DOMAIN items /\ items[i].obj_type # "tlv"
    BY DEF Containers
  <2> QED
    BY <2>1, <2>2, <2>3, ItemFound
<1> QED
    BY <1>1, Invariant, PTL
=============================================================================
