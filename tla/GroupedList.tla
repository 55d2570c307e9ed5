----------------------------- MODULE GroupedList -----------------------------
(* detail/slot_groups.hpp: grouped_list, a std::list of slots with a         *)
(* std::map from group keys to the first list node of each group.            *)
(*                                                                           *)
(* The map holds one entry per class of equivalent keys.  A map iterator is  *)
(* a key of the map, or End.  The nodes an instance holds are the elements   *)
(* of its list; the copy constructor allocates new ones, which take the      *)
(* place of the old ones here, as the signal drops its reference to the list *)
(* it copies.                                                                *)
(*                                                                           *)
(* There are two comparisons.  The constructor stores the one it is given    *)
(* in _group_key_compare and default-constructs the map, which therefore     *)
(* compares by GroupCompare() (SlotOrder).                                   *)
EXTENDS SlotOrder

CONSTANTS
    Nodes,
    StoredRank      \* the comparison object given to the constructor

ASSUME StoredRankAssumption == StoredRank \in [Groups -> Int]

\* end() is no node, and the end of the map no key.
ASSUME EndAssumption == End \notin Nodes /\ End \notin GroupKeys

VARIABLES
    list,       \* _list
    group_map,  \* _group_map
    keyOf       \* the key of each slot (connection_body::_group_key)

vars == <<list, group_map, keyOf>>

(* _group_key_compare, and the equivalence that m_insert and the assertions  *)
(* of erase decide with it.                                                  *)
Stored == INSTANCE SlotOrder WITH Rank <- StoredRank
group_key_compare(k1, k2) == Stored!KeyLess(k1, k2)

weakly_equivalent(k1, k2) == ~group_key_compare(k1, k2) /\ ~group_key_compare(k2, k1)

EmptyMap == [k \in {} |-> End]

(* grouped_list(const group_key_compare_type &) *)
Init ==
    /\ list = << >>
    /\ group_map = EmptyMap
    /\ keyOf = [n \in Nodes |-> BackKey]

-----------------------------------------------------------------------------
(* std::map, ordered by GroupCompare(): the first entry of a set of keys,    *)
(* lower_bound, upper_bound, erase, insert and operator[], where insert      *)
(* leaves an equivalent entry alone and operator[] gives it a new value.     *)
FirstKey(K) == IF K = {} THEN End ELSE CHOOSE k \in K : \A l \in K : ~KeyLess(l, k)

map_lower_bound(map, key) == FirstKey({k \in DOMAIN map : ~KeyLess(k, key)})
map_upper_bound(map, key) == FirstKey({k \in DOMAIN map : KeyLess(key, k)})

map_erase(map, key) == [k \in DOMAIN map \ {key} |-> map[k]]
map_set(map, key, n) ==
    [k \in DOMAIN map \cup {key} |-> IF k = key THEN n ELSE map[k]]

EntriesOf(map, key) == {k \in DOMAIN map : WeaklyEquivalent(k, key)}

map_insert(map, key, n) == IF EntriesOf(map, key) = {} THEN map_set(map, key, n) ELSE map
map_assign(map, key, n) ==
    map_set(map, IF EntriesOf(map, key) = {} THEN key
                                             ELSE CHOOSE k \in EntriesOf(map, key) : TRUE, n)

get_list_iterator(map, map_it) == IF map_it = End THEN End ELSE map[map_it]

upper_bound(map, key) == get_list_iterator(map, map_upper_bound(map, key))

(* _list.insert(list_it, value) *)
list_insert(l, list_it, n) == InsertAt(l, Index(l, list_it), n)

-----------------------------------------------------------------------------
(* m_insert's effect on the map: the entry the new node displaces as first   *)
(* of its group goes, and a group without an entry gets one.                 *)
displaced_map(map, map_it, key) ==
    IF map_it # End /\ weakly_equivalent(key, map_it) THEN map_erase(map, map_it) ELSE map

NeedsEntry(map, key) ==
    LET lb == map_lower_bound(map, key)
    IN  lb = End \/ ~weakly_equivalent(lb, key)

m_insert_map(map, map_it, key, n) ==
    LET rest == displaced_map(map, map_it, key)
    IN  IF NeedsEntry(rest, key) THEN map_insert(rest, key, n) ELSE rest

(* m_insert *)
m_insert(map_it, key, n) ==
    /\ n \notin ToSet(list)
    /\ list' = list_insert(list, get_list_iterator(group_map, map_it), n)
    /\ group_map' = m_insert_map(group_map, map_it, key, n)
    /\ keyOf' = [keyOf EXCEPT ![n] = key]

(* Mutant: the optimization for front slots, for every key. *)
push_front_of_all(key, n) == m_insert(FirstKey(DOMAIN group_map), key, n)

front_place(key) ==
    IF key.meta = front_ungrouped_slots THEN FirstKey(DOMAIN group_map)
                                        ELSE map_lower_bound(group_map, key)

push_front(key, n) == m_insert(front_place(key), key, n)

(* Mutant: the lower bound, where the upper bound belongs. *)
push_back_before_group(key, n) ==
    m_insert(IF key.meta = back_ungrouped_slots THEN End
                                                ELSE map_lower_bound(group_map, key),
             key, n)

back_place(key) ==
    IF key.meta = back_ungrouped_slots THEN End ELSE map_upper_bound(group_map, key)

push_back(key, n) == m_insert(back_place(key), key, n)

(* Mutant: the group is erased up to the end of the list. *)
erase_group_to_end(key) ==
    LET map_it == map_lower_bound(group_map, key)
        from   == get_list_iterator(group_map, map_it)
        to     == upper_bound(group_map, key)
    IN  /\ IF from = to
           THEN UNCHANGED <<list, group_map>>
           ELSE /\ list' = SubSeq(list, 1, Index(list, from) - 1)
                /\ group_map' = map_erase(group_map, map_it)
        /\ UNCHANGED keyOf

(* erase(key): the nodes of the group, up to the first of the next one. *)
erase_group(key) ==
    LET map_it == map_lower_bound(group_map, key)
        from   == get_list_iterator(group_map, map_it)
        to     == upper_bound(group_map, key)
    IN  /\ IF from = to
           THEN UNCHANGED <<list, group_map>>
           ELSE /\ list' = SubSeq(list, 1, Index(list, from) - 1)
                              \o SubSeq(list, Index(list, to), Len(list))
                /\ group_map' = map_erase(group_map, map_it)
        /\ UNCHANGED keyOf

(* Mutant: the entry of the erased node goes although its group has others. *)
erase_map_drops_entry(map, l, key, n) ==
    LET map_it == map_lower_bound(map, key)
    IN  IF map[map_it] = n THEN map_erase(map, map_it) ELSE map

(* erase(key, it)'s effect on the map: an entry that points at the erased    *)
(* node moves to the next node of the group, or goes with the last one.      *)
erase_map(map, l, key, n) ==
    LET map_it == map_lower_bound(map, key)
        next   == Successor(l, n)
    IN  IF map[map_it] # n
        THEN map
        ELSE IF next # upper_bound(map, key)
             THEN map_assign(map, key, next)
             ELSE map_erase(map, map_it)

erase(n) ==
    /\ n \in ToSet(list)
    /\ group_map' = erase_map(group_map, list, keyOf[n], n)
    /\ list' = RemoveAt(list, Index(list, n))
    /\ UNCHANGED keyOf

(* Mutant: the list iterator advances one node too far. *)
copied_map_too_far(map, l) ==
    [k \in DOMAIN map |-> NodeAt(l, 2 + Index(l, map[k]) - Index(l, map[FirstKey(DOMAIN map)]))]

(* grouped_list(const grouped_list &): each entry of the copied map is set   *)
(* to a list iterator that starts at begin() and advances, from entry to     *)
(* entry, by the distance between the two entries in the original; the       *)
(* distances before an entry add up to its distance from the first entry.    *)
copied_map(map, l) ==
    LET Place(k) == Index(l, map[k])
    IN  [k \in DOMAIN map |-> NodeAt(l, 1 + Place(k) - Place(FirstKey(DOMAIN map)))]

copy == group_map' = copied_map(group_map, list) /\ UNCHANGED <<list, keyOf>>

clear == list' = << >> /\ group_map' = EmptyMap /\ UNCHANGED keyOf

Next ==
    \/ \E n \in Nodes, key \in GroupKeys : push_front(key, n) \/ push_back(key, n)
    \/ \E n \in Nodes : erase(n)
    \/ \E key \in GroupKeys : erase_group(key)
    \/ copy
    \/ clear

Spec == Init /\ [][Next]_vars

-----------------------------------------------------------------------------
(* The two comparisons make the same groups equivalent, whichever they put   *)
(* first: so it is for a GroupCompare without state, and for one whose state *)
(* decides only about the order.  No property below holds without it.        *)
SameClasses ==
    \A k1, k2 \in GroupKeys : weakly_equivalent(k1, k2) <=> WeaklyEquivalent(k1, k2)

(* "holds iterators to first list item in each group": every node's group    *)
(* has exactly one entry, and each entry points at a node of the list that   *)
(* is the first one of the entry's group.  No entry dangles after an erase,  *)
(* and the assertions at the head of erase(key, it) hold for every node.     *)
GroupMapExact ==
    /\ \A n \in ToSet(list) :
          /\ Cardinality(EntriesOf(group_map, keyOf[n])) = 1
          /\ \A k \in EntriesOf(group_map, keyOf[n]) : weakly_equivalent(k, keyOf[n])
    /\ \A k \in DOMAIN group_map :
          \E i \in DOMAIN list :
             /\ list[i] = group_map[k]
             /\ WeaklyEquivalent(keyOf[list[i]], k)
             /\ \A j \in 1..i - 1 : KeyLess(keyOf[list[j]], k)

(* "stores the given group comparison function object to compare groups"     *)
(* (doc/reference/signal_header.xml:138): the slots are in the order of that *)
(* object, which is so if both comparisons are the same.                     *)
SameOrder ==
    \A k1, k2 \in GroupKeys : group_key_compare(k1, k2) <=> KeyLess(k1, k2)

SortedByStored ==
    \A i, j \in DOMAIN list :
        i < j => ~group_key_compare(keyOf[list[j]], keyOf[list[i]])

(* A slot connected at_back is called after the slots that were in its group *)
(* before it, one connected at_front before them, and all others keep their  *)
(* places.                                                                   *)
EntersInPlace ==
    [][\A key \in GroupKeys, n \in Nodes :
           /\ push_back(key, n) => list' = Inserted(list, keyOf', n, "at_back")
           /\ push_front(key, n) => list' = Inserted(list, keyOf', n, "at_front")]_vars

(* The list with its map does to the sequence of slots what the map-free     *)
(* operators of SlotOrder, which Signal uses, do: a slot enters first or     *)
(* last in its group wherever the map says the group begins.                 *)
Promise == INSTANCE OrderedSlots
ImplementsOrderedSlots == Promise!Spec
=============================================================================
