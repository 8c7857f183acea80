------------------------------- MODULE NodeList -----------------------------
(***************************************************************************)
(* What the linked list of util/list.c promises: a sequence of nodes, none *)
(* of them twice, and an iterator that walks it while nodes are added and  *)
(* deleted.  Pointers belong to KamiList, which is shown to implement this.*)
(*                                                                         *)
(* A call that is refused changes nothing and is a step of no action.      *)
(***************************************************************************)
EXTENDS Integers, SequencesExt

CONSTANTS Node, NULL

VARIABLES
    order,      \* the nodes in the list
    at,         \* the node the iterator returns next, NULL at its end
    forward,    \* its direction
    due,        \* nodes there at its start, still there and not returned yet
    sound       \* the list takes back every node it holds

vars == <<order, at, forward, due, sound>>

Listed == ToSet(order)

Init ==
    /\ order = <<>>
    /\ at = NULL
    /\ forward = TRUE
    /\ due = {}
    /\ sound = TRUE

(* A new node at position k. *)
Insert(n, k) ==
    /\ n \notin Listed
    /\ order' = InsertAt(order, k, n)
    /\ UNCHANGED <<at, forward, due, sound>>

(* The iterator's next node stays: a loop over a list may delete the node  *)
(* it was given, or others behind it.                                      *)
Delete(k) ==
    /\ order[k] # at
    /\ order' = RemoveAt(order, k)
    /\ due' = due \ {order[k]}
    /\ UNCHANGED <<at, forward, sound>>

(* A list with its head taken off as KamiListDelHead does it holds a node  *)
(* that it neither deletes nor knows.  Nothing is promised of it.          *)
Behead ==
    /\ Len(order) > 1 /\ order[1] # at
    /\ order' = Tail(order)
    /\ due' = due \ {order[1]}
    /\ sound' = FALSE
    /\ UNCHANGED <<at, forward>>

Start(d) ==
    /\ forward' = d
    /\ at' = IF order = <<>> THEN NULL ELSE IF d THEN Head(order) ELSE Last(order)
    /\ due' = Listed
    /\ UNCHANGED <<order, sound>>

(* The iterator returns the node it is at and goes on to its neighbour. *)
Return ==
    \E k \in DOMAIN order :
        /\ order[k] = at
        /\ at' = IF forward
                 THEN IF k = Len(order) THEN NULL ELSE order[k + 1]
                 ELSE IF k = 1 THEN NULL ELSE order[k - 1]
        /\ due' = due \ {at}
        /\ UNCHANGED <<order, forward, sound>>

Next ==
    /\ sound
    /\ \/ \E n \in Node, k \in 1..Len(order) + 1 : Insert(n, k)
       \/ \E k \in DOMAIN order : Delete(k)
       \/ Behead
       \/ \E d \in BOOLEAN : Start(d)
       \/ Return

Spec == Init /\ [][Next]_vars
=============================================================================
