----------------------------- MODULE OrderedSlots -----------------------------
(* What grouped_list promises its user, the signal: a sequence of nodes,     *)
(* sorted by group key, that changes only by inserting one node first or     *)
(* last in its group, by erasing one node or one whole group, or by          *)
(* clearing.  The order is that of a default-constructed GroupCompare.  It   *)
(* is the program's order for a GroupCompare without state; the order of the *)
(* object that the program gave to the constructor is not promised, and not  *)
(* kept.                                                                     *)
EXTENDS SlotOrder

CONSTANT Nodes

VARIABLES
    list,       \* the nodes, in order
    keyOf       \* the group key each node was inserted with

vars == <<list, keyOf>>

Init == list = << >> /\ keyOf \in [Nodes -> GroupKeys]

Insert(n, key, position) ==
    /\ n \notin ToSet(list)
    /\ keyOf' = [keyOf EXCEPT ![n] = key]
    /\ list' = Inserted(list, keyOf', n, position)

EraseNode(n) == list' = Without(list, {n}) /\ UNCHANGED keyOf

EraseGroup(key) ==
    /\ list' = Without(list, {n \in ToSet(list) : WeaklyEquivalent(keyOf[n], key)})
    /\ UNCHANGED keyOf

Clear == list' = << >> /\ UNCHANGED keyOf

Next ==
    \/ \E n \in Nodes, key \in GroupKeys, position \in Positions : Insert(n, key, position)
    \/ \E n \in ToSet(list) : EraseNode(n)
    \/ \E key \in GroupKeys : EraseGroup(key)
    \/ Clear

Spec == Init /\ [][Next]_vars
=============================================================================
