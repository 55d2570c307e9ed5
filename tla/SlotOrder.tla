------------------------------ MODULE SlotOrder ------------------------------
(* The order in which a signal calls its slots (detail/slot_groups.hpp).     *)
(*                                                                           *)
(* The list and its map are ordered by a GroupCompare that grouped_list      *)
(* default-constructs; the comparison object that the program passed to the  *)
(* signal's constructor is another one (GroupedList).                        *)
(*                                                                           *)
(* Every slot has a group key: a meta group and, for grouped slots only, a   *)
(* group of the user's type.  The list of slots is kept sorted by group key, *)
(* and a slot enters at the front or at the back of the slots whose key is   *)
(* equivalent to its own.  This module holds the keys, their comparison and  *)
(* what the operations of the list do to the sequence of slots, without the  *)
(* map from groups to list positions that the code uses to find the places;  *)
(* GroupedList adds the map and is shown to implement these operators.       *)
(*                                                                           *)
(* A std::list iterator is a list node, or end().  A slot is in a list at    *)
(* most once, so a node is named by the slot it holds.                       *)
EXTENDS Integers, FiniteSets, SequencesExt

CONSTANTS
    Groups,     \* the groups the user names
    Rank,       \* GroupCompare(): g precedes h iff Rank[g] < Rank[h]
    NoGroup,    \* the empty boost::optional<Group>
    End         \* the end() iterator

\* A GroupCompare is a strict weak ordering; distinct groups may be equivalent.
ASSUME RankAssumption == Rank \in [Groups -> Int]

-----------------------------------------------------------------------------
(* enum slot_meta_group *)
front_ungrouped_slots == 0
grouped_slots == 1
back_ungrouped_slots == 2

FrontKey == [meta |-> front_ungrouped_slots, group |-> NoGroup]
BackKey == [meta |-> back_ungrouped_slots, group |-> NoGroup]
GroupKey(g) == [meta |-> grouped_slots, group |-> g]
GroupKeys == {FrontKey, BackKey} \cup {GroupKey(g) : g \in Groups}

(* enum connect_position *)
Positions == {"at_back", "at_front"}

(* group_key_less::operator() *)
KeyLess(k1, k2) ==
    \/ k1.meta < k2.meta
    \/ k1.meta = k2.meta /\ k1.meta = grouped_slots /\ Rank[k1.group] < Rank[k2.group]

(* The equivalence of std::map's keys, neither of which precedes the other. *)
WeaklyEquivalent(k1, k2) == ~KeyLess(k1, k2) /\ ~KeyLess(k2, k1)

-----------------------------------------------------------------------------
(* Iterators of a list. *)
Begin(list) == IF list = << >> THEN End ELSE list[1]

Index(list, it) == CHOOSE i \in 1..Len(list) + 1 :
                      IF it = End THEN i = Len(list) + 1 ELSE i <= Len(list) /\ list[i] = it

NodeAt(list, i) == IF i \in DOMAIN list THEN list[i] ELSE End

(* ++it *)
Successor(list, it) == NodeAt(list, Index(list, it) + 1)

(* The elements of a list at the positions of K, in the list's order.  This  *)
(* is SelectSeq on positions, in a form that needs no recursion.             *)
Restriction(list, K) ==
    [i \in 1..Cardinality(K) |->
        list[CHOOSE j \in K : Cardinality({k \in K : k <= j}) = i]]

(* The list after the nodes of S have been erased. *)
Without(list, S) == Restriction(list, {i \in DOMAIN list : list[i] \notin S})

(* The number of list elements before the first (for the lower bound) whose  *)
(* key is not less than `key', or (for the upper bound) whose key is greater. *)
(* keyOf maps each slot to its group key.                                    *)
LowerBoundIndex(list, keyOf, key) ==
    CHOOSE i \in 0..Len(list) :
        /\ \A j \in 1..i : KeyLess(keyOf[list[j]], key)
        /\ i < Len(list) => ~KeyLess(keyOf[list[i + 1]], key)

UpperBoundIndex(list, keyOf, key) ==
    CHOOSE i \in 0..Len(list) :
        /\ \A j \in 1..i : ~KeyLess(key, keyOf[list[j]])
        /\ i < Len(list) => KeyLess(key, keyOf[list[i + 1]])

(* push_back and push_front: the slot enters last or first in its group. *)
Inserted(list, keyOf, n, position) ==
    LET i == IF position = "at_back" THEN UpperBoundIndex(list, keyOf, keyOf[n])
                                     ELSE LowerBoundIndex(list, keyOf, keyOf[n])
    IN  SubSeq(list, 1, i) \o <<n>> \o SubSeq(list, i + 1, Len(list))

Sorted(list, keyOf) ==
    \A i, j \in DOMAIN list : i < j => ~KeyLess(keyOf[list[j]], keyOf[list[i]])
=============================================================================
