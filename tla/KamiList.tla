------------------------------- MODULE KamiList -----------------------------
(***************************************************************************)
(* The doubly linked list under every table and queue of the programs:     *)
(* util/list.c.  A node is part of the structure it links; it holds        *)
(* pointers to its neighbours and to the list it is in, and the list holds *)
(* its ends and its size.  One list and one iterator are modelled.         *)
(*                                                                         *)
(* A call that is refused returns -1 or NULL and changes nothing: it is a  *)
(* step of no action.  The callers keep to two rules: a node is in one     *)
(* list at a time, and a loop over the list does not delete the node its   *)
(* iterator returns next (del_1905_nbr, eloop_reset_io and if_release      *)
(* delete the one they were given).                                        *)
(***************************************************************************)
EXTENDS Integers, SequencesExt

CONSTANTS Node, NULL

ASSUME NodeAssumption == NULL \notin Node

VARIABLES
    head, tail, size,   \* list->head, list->tail, list->size
    next, prev,         \* node->next, node->prev
    list,               \* node->list is the list (and not NULL)
    iter,               \* iter->next
    forward,            \* iter->direction is Iter_From_Head
    due                 \* history: nodes there when the iterator was set up,
                        \* still there and not returned yet

ends == <<head, tail, size>>
links == <<next, prev>>
iterator == <<iter, forward, due>>
vars == <<ends, links, list, iterator>>

Pointer == Node \cup {NULL}

TypeOK ==
    /\ head \in Pointer /\ tail \in Pointer /\ size \in Nat
    /\ next \in [Node -> Pointer] /\ prev \in [Node -> Pointer]
    /\ list \in [Node -> BOOLEAN]
    /\ iter \in Pointer /\ forward \in BOOLEAN /\ due \subseteq Node

(* The nodes on the list by their own account. *)
Listed == {n \in Node : list[n]}

-----------------------------------------------------------------------------

Init ==
    /\ head = NULL /\ tail = NULL /\ size = 0
    /\ next = [n \in Node |-> NULL] /\ prev = [n \in Node |-> NULL]
    /\ list = [n \in Node |-> FALSE]
    /\ iter = NULL /\ forward = TRUE /\ due = {}

(* The node becomes the list's. *)
Enlist(item) ==
    /\ list' = [list EXCEPT ![item] = TRUE]
    /\ size' = size + 1
    /\ UNCHANGED iterator

(* KamiListAddHead and KamiListAddTail of the first node. *)
AddFirst(item) ==
    /\ size = 0
    /\ head' = item /\ tail' = item
    /\ next' = [next EXCEPT ![item] = NULL]
    /\ prev' = [prev EXCEPT ![item] = NULL]
    /\ Enlist(item)

KamiListAddHead(item) ==
    /\ ~list[item]
    /\ \/ AddFirst(item)
       \/ /\ size # 0
          /\ next' = [next EXCEPT ![item] = head]
          /\ prev' = [prev EXCEPT ![item] = NULL, ![head] = item]
          /\ head' = item /\ UNCHANGED tail
          /\ Enlist(item)

KamiListAddTail(item) ==
    /\ ~list[item]
    /\ \/ AddFirst(item)
       \/ /\ size # 0
          /\ next' = [next EXCEPT ![item] = NULL, ![tail] = item]
          /\ prev' = [prev EXCEPT ![item] = tail]
          /\ tail' = item /\ UNCHANGED head
          /\ Enlist(item)

KamiListAddAfter(p, item) ==
    /\ list[p] /\ ~list[item]
    /\ next' = [next EXCEPT ![item] = next[p], ![p] = item]
    /\ prev' = [n \in Node |-> IF n = item THEN p ELSE IF n = next[p] THEN item ELSE prev[n]]
    /\ tail' = IF p = tail THEN item ELSE tail
    /\ UNCHANGED head
    /\ Enlist(item)

KamiListAddBefore_KeepsHead(n, item) ==
    /\ list[n] /\ ~list[item]
    /\ prev' = [prev EXCEPT ![item] = prev[n], ![n] = item]
    /\ next' = [m \in Node |-> IF m = item THEN n ELSE IF m = prev[n] THEN item ELSE next[m]]
    /\ UNCHANGED <<head, tail>>
    /\ Enlist(item)

KamiListAddBefore(n, item) ==
    /\ list[n] /\ ~list[item]
    /\ prev' = [prev EXCEPT ![item] = prev[n], ![n] = item]
    /\ next' = [m \in Node |-> IF m = item THEN n ELSE IF m = prev[n] THEN item ELSE next[m]]
    /\ head' = IF n = head THEN item ELSE head
    /\ UNCHANGED tail
    /\ Enlist(item)

(* The node i steps from the head; a negative index counts from the end.   *)
KamiListAt(i) ==
    LET steps == IF i < 0 THEN size + i ELSE i
        tmp[k \in 0..size] ==
            IF k = 0 THEN head ELSE IF tmp[k - 1] = NULL THEN NULL ELSE next[tmp[k - 1]]
    IN  IF i < -size \/ i >= size THEN NULL ELSE tmp[steps]

KamiListInsertAt_Behind(item, i) ==
    /\ ~list[item]
    /\ \/ i = size /\ KamiListAddTail(item)
       \/ i # size /\ KamiListAt(i) # NULL /\ KamiListAddAfter(KamiListAt(i), item)

(* At the end by KamiListAddTail, elsewhere before the node at the index.  *)
KamiListInsertAt(item, i) ==
    /\ ~list[item]
    /\ \/ i = size /\ KamiListAddTail(item)
       \/ i # size /\ KamiListAt(i) # NULL /\ KamiListAddBefore(KamiListAt(i), item)

(* The node is the list's no more.  It is not the iterator's next. *)
Discard(item) ==
    /\ item # iter
    /\ size' = size - 1
    /\ due' = due \ {item}
    /\ UNCHANGED <<iter, forward>>

(* The last node there is, in all three deletions. *)
DelOnly(item) ==
    /\ size = 1
    /\ head' = NULL /\ tail' = NULL
    /\ list' = [list EXCEPT ![item] = FALSE]
    /\ Discard(item)
    /\ UNCHANGED links

KamiListDel_SkipsBack(item) ==
    /\ list[item]
    /\ \/ DelOnly(item)
       \/ /\ size > 1
          /\ next' = [n \in Node |-> IF n = item THEN NULL
                                     ELSE IF n = prev[item] THEN next[item] ELSE next[n]]
          /\ prev' = [prev EXCEPT ![item] = NULL]
          /\ head' = IF item = head THEN next[item] ELSE head
          /\ tail' = IF item = tail THEN prev[item] ELSE tail
          /\ list' = [list EXCEPT ![item] = FALSE]
          /\ Discard(item)

(* The head, the tail and the nodes between them: the links around the     *)
(* node are joined, or end there.                                          *)
KamiListDel(item) ==
    /\ list[item]
    /\ \/ DelOnly(item)
       \/ /\ size > 1
          /\ next' = [n \in Node |-> IF n = item THEN NULL
                                     ELSE IF n = prev[item] THEN next[item] ELSE next[n]]
          /\ prev' = [n \in Node |-> IF n = item THEN NULL
                                     ELSE IF n = next[item] THEN prev[item] ELSE prev[n]]
          /\ head' = IF item = head THEN next[item] ELSE head
          /\ tail' = IF item = tail THEN prev[item] ELSE tail
          /\ list' = [list EXCEPT ![item] = FALSE]
          /\ Discard(item)

KamiListDelByIndex(i) == KamiListAt(i) # NULL /\ KamiListDel(KamiListAt(i))

(* KamiListPopHead returns what it takes off.  node->list is cleared for   *)
(* the old head and, in a longer list, once more for the new one.          *)
KamiListDelHead ==
    /\ size # 0
    /\ \/ DelOnly(head)
       \/ /\ size > 1
          /\ head' = next[head] /\ UNCHANGED tail
          /\ prev' = [prev EXCEPT ![next[head]] = NULL]
          /\ list' = [list EXCEPT ![head] = FALSE, ![next[head]] = FALSE]
          /\ Discard(head)
          /\ UNCHANGED next

(* KamiListPopTail returns what it takes off. *)
KamiListDelTail ==
    /\ size # 0
    /\ \/ DelOnly(tail)
       \/ /\ size > 1
          /\ tail' = prev[tail] /\ UNCHANGED head
          /\ next' = [next EXCEPT ![prev[tail]] = NULL]
          /\ list' = [list EXCEPT ![tail] = FALSE]
          /\ Discard(tail)
          /\ UNCHANGED prev

(* KamiListGetIter and KamiListRewind do the same. *)
KamiListIterInit(d) ==
    /\ forward' = d
    /\ iter' = IF d THEN head ELSE tail
    /\ due' = Listed
    /\ UNCHANGED <<ends, links, list>>

(* The node is returned; the iterator has left it. *)
KamiListNext ==
    /\ iter # NULL
    /\ iter' = IF forward THEN next[iter] ELSE prev[iter]
    /\ due' = due \ {iter}
    /\ UNCHANGED <<forward, ends, links, list>>

(* The list knows the node at its head.  KamiListDelHead of a longer list  *)
(* leaves one that it does not know; no program calls it, and what would   *)
(* follow is not modelled.                                                 *)
KnowsHead == size > 0 => head \in Listed

Next ==
    /\ KnowsHead
    /\ \/ \E item \in Node :
             \/ KamiListAddHead(item) \/ KamiListAddTail(item) \/ KamiListDel(item)
             \/ \E n \in Node : KamiListAddAfter(n, item) \/ KamiListAddBefore(n, item)
             \/ \E i \in -size..size : KamiListInsertAt(item, i)
       \/ \E i \in -size..size : KamiListDelByIndex(i)
       \/ KamiListDelHead \/ KamiListDelTail
       \/ \E d \in BOOLEAN : KamiListIterInit(d)
       \/ KamiListNext

Spec == Init /\ [][Next]_vars

-----------------------------------------------------------------------------

(* The pointers of the list and of the nodes of s make it the sequence s,  *)
(* in both directions.                                                     *)
Chain(s) ==
    /\ IsInjective(s)
    /\ head = IF size = 0 THEN NULL ELSE s[1]
    /\ tail = IF size = 0 THEN NULL ELSE s[size]
    /\ \A k \in 1..size :
          /\ next[s[k]] = IF k = size THEN NULL ELSE s[k + 1]
          /\ prev[s[k]] = IF k = 1 THEN NULL ELSE s[k - 1]

Order == CHOOSE s \in [1..size -> Node] : Chain(s)

(* The pointers are a sequence whatever calls were made, of size nodes,    *)
(* and its nodes are the ones that say they are in the list: only these    *)
(* are refused when they are added and accepted when they are deleted.     *)
WellLinked ==
    \E s \in [1..size -> Node] :
        /\ Chain(s)
        /\ KnowsHead => Listed = ToSet(s)

(* A loop over the list misses no node: what was there at its start and    *)
(* was not deleted has been returned when the iterator is at its end,      *)
(* although nodes are added anywhere and deleted behind it meanwhile.      *)
NothingMissed == iter = NULL => due = {}

Nodes == INSTANCE NodeList WITH order <- Order, at <- iter, sound <- KnowsHead

(* The place an index stands for, from the head or from the end. *)
Place(i) == IF i < 0 THEN size + i + 1 ELSE i + 1

(* A call acts on the node it was given, at the place it was given: at an  *)
(* end, next to a node of the list, or at an index from either end.        *)
(* KamiListDelHead of a longer list takes off the head and breaks it.      *)
ActsAsNamed ==
    /\ \A item \in Node :
          /\ KamiListAddHead(item) => Nodes!Insert(item, 1)
          /\ KamiListAddTail(item) => Nodes!Insert(item, size + 1)
          /\ \A n \in Node :
                /\ KamiListAddAfter(n, item) =>
                      \E k \in 1..size : Order[k] = n /\ Nodes!Insert(item, k + 1)
                /\ KamiListAddBefore(n, item) =>
                      \E k \in 1..size : Order[k] = n /\ Nodes!Insert(item, k)
          /\ \A i \in -size..size :
                KamiListInsertAt(item, i) => Nodes!Insert(item, Place(i))
          /\ KamiListDel(item) =>
                \E k \in 1..size : Order[k] = item /\ Nodes!Delete(k)
    /\ \A i \in -size..size : KamiListDelByIndex(i) => Nodes!Delete(Place(i))
    /\ KamiListDelHead => IF size = 1 THEN Nodes!Delete(1) ELSE Nodes!Behead
    /\ KamiListDelTail => Nodes!Delete(size)

(* The pointers implement a sequence: every call that changes the list     *)
(* inserts or removes one node and leaves the order of the others, and     *)
(* every loop over the list follows that order.  And the node is the one   *)
(* the call names, at the place it names, as long as the list knows its    *)
(* head.                                                                   *)
ImplementsNodes == Nodes!Spec /\ [][KnowsHead => ActsAsNamed]_vars
=============================================================================
