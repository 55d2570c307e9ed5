--------------------------- MODULE SlotListProofs ----------------------------
(* Proofs about the list of slots.  With its map of groups (GroupedList),    *)
(* for any number of slots and groups: the map is exact, and the list does   *)
(* to the sequence of slots what OrderedSlots promises.  With its incremental*)
(* collection (GarbageCollector), for any number of slots connected at once: *)
(* the iterator points into the list, which cannot grow without limit.       *)
EXTENDS GroupedList, GarbageCollector, SlotOrderProofs

-----------------------------------------------------------------------------
(* The inductive invariant.                                                  *)

ListOK(l, ks) ==
    /\ l \in Seq(Nodes) /\ Unrepeated(l)
    /\ ks \in [Nodes -> GroupKeys]
    /\ Sorted(l, ks)

(* Node n is the first of those whose key is equivalent to k. *)
FirstOf(l, ks, n, k) ==
    \E i \in DOMAIN l :
        /\ l[i] = n
        /\ WeaklyEquivalent(ks[l[i]], k)
        /\ \A j \in 1..i - 1 : KeyLess(ks[l[j]], k)

MapOK(l, ks, m) ==
    /\ DOMAIN m \subseteq GroupKeys /\ m = [k \in DOMAIN m |-> m[k]]
    /\ \A k \in DOMAIN m : FirstOf(l, ks, m[k], k)
    /\ \A i \in DOMAIN l : \E k \in DOMAIN m : WeaklyEquivalent(k, ks[l[i]])
    /\ \A k, q \in DOMAIN m : WeaklyEquivalent(k, q) => k = q

IInv == ListOK(list, keyOf) /\ MapOK(list, keyOf, group_map)

-----------------------------------------------------------------------------
(* The two comparisons.                                                      *)

LEMMA StoredAgrees ==
  ASSUME SameClasses, NEW k1 \in GroupKeys, NEW k2 \in GroupKeys
  PROVE  weakly_equivalent(k1, k2) <=> WeaklyEquivalent(k1, k2)
BY DEF SameClasses

-----------------------------------------------------------------------------
(* Where the groups are in the list.                                         *)

Low(l, ks, key) == LowerBoundIndex(l, ks, key)
Up(l, ks, key) == UpperBoundIndex(l, ks, key)

LEMMA Equivalence ==
  ASSUME NEW k1 \in GroupKeys, NEW k2 \in GroupKeys, NEW k3 \in GroupKeys
  PROVE  /\ WeaklyEquivalent(k1, k1)
         /\ WeaklyEquivalent(k1, k2) => WeaklyEquivalent(k2, k1)
         /\ WeaklyEquivalent(k1, k2) /\ WeaklyEquivalent(k2, k3) => WeaklyEquivalent(k1, k3)
         /\ WeaklyEquivalent(k1, k2) => (KeyLess(k1, k3) <=> KeyLess(k2, k3))
         /\ WeaklyEquivalent(k1, k2) => (KeyLess(k3, k1) <=> KeyLess(k3, k2))
BY KeyLessWeakOrder DEF WeaklyEquivalent

LEMMA Bounds ==
  ASSUME NEW l, NEW ks, ListOK(l, ks), NEW key \in GroupKeys
  PROVE  LET low == Low(l, ks, key)
             up  == Up(l, ks, key)
         IN  /\ low \in 0..Len(l) /\ up \in 0..Len(l) /\ low <= up
             /\ \A j \in DOMAIN l :
                   /\ ks[l[j]] \in GroupKeys
                   /\ KeyLess(ks[l[j]], key) <=> j <= low
                   /\ KeyLess(key, ks[l[j]]) <=> up < j
                   /\ WeaklyEquivalent(ks[l[j]], key) <=> low < j /\ j <= up
<1> PICK low, up : low = LowerBoundIndex(l, ks, key) /\ up = UpperBoundIndex(l, ks, key)
  OBVIOUS
<1>1. /\ l \in Seq(Nodes) /\ ks \in [Nodes -> GroupKeys] /\ Sorted(l, ks)
      /\ Len(l) \in Nat /\ DOMAIN l = 1..Len(l)
  BY DEF ListOK
<1>2. \A j \in DOMAIN l : ks[l[j]] \in GroupKeys
  BY <1>1
<1>3. /\ low \in 0..Len(l) /\ up \in 0..Len(l) /\ low <= up
      /\ \A j \in DOMAIN l : WeaklyEquivalent(ks[l[j]], key) <=> low < j /\ j <= up
  BY <1>1, GroupBounds, Zenon
<1>4. \A j \in 1..low : KeyLess(ks[l[j]], key)
  BY <1>1, LowerBoundExists
<1>5. up < Len(l) => KeyLess(key, ks[l[up + 1]])
  BY <1>1, UpperBoundExists
<1>6. ASSUME NEW j \in DOMAIN l, up < j PROVE KeyLess(key, ks[l[j]])
  <2>1. up < Len(l) /\ up + 1 \in DOMAIN l /\ (up + 1 = j \/ up + 1 < j)
    BY <1>1, <1>3, <1>6
  <2>2. KeyLess(key, ks[l[up + 1]]) /\ (up + 1 < j => ~KeyLess(ks[l[j]], ks[l[up + 1]]))
    BY <1>1, <1>5, <2>1 DEF Sorted
  <2> QED BY <1>2, <2>1, <2>2, KeyLessWeakOrder
<1>7. ASSUME NEW j \in DOMAIN l
      PROVE  /\ KeyLess(ks[l[j]], key) <=> j <= low
             /\ KeyLess(key, ks[l[j]]) <=> up < j
  <2>1. CASE j <= low
    <3>1. KeyLess(ks[l[j]], key) /\ ~(up < j)
      BY <1>1, <1>3, <1>4, <2>1
    <3> QED BY <1>2, <2>1, <3>1, KeyLessWeakOrder
  <2>2. CASE low < j /\ j <= up
    BY <1>1, <1>3, <2>2 DEF WeaklyEquivalent
  <2>3. CASE up < j
    BY <1>1, <1>2, <1>3, <1>6, <2>3, KeyLessWeakOrder
  <2> QED BY <1>1, <1>3, <2>1, <2>2, <2>3
<1> QED BY <1>2, <1>3, <1>7 DEF Low, Up

(* The place of an entry is the first of its group. *)
LEMMA EntryPlace ==
  ASSUME NEW l, NEW ks, NEW k \in GroupKeys, NEW n, ListOK(l, ks)
  PROVE  LET low == Low(l, ks, k)
             up  == Up(l, ks, k)
         IN  FirstOf(l, ks, n, k) <=> low < up /\ low + 1 \in DOMAIN l /\ l[low + 1] = n
<1> PICK low, up : low = Low(l, ks, k) /\ up = Up(l, ks, k)
  OBVIOUS
<1>1. /\ low \in 0..Len(l) /\ up \in 0..Len(l) /\ low <= up
      /\ \A j \in DOMAIN l : /\ KeyLess(ks[l[j]], k) <=> j <= low
                             /\ WeaklyEquivalent(ks[l[j]], k) <=> low < j /\ j <= up
  BY Bounds, Zenon
<1>2. Len(l) \in Nat /\ DOMAIN l = 1..Len(l)
  BY DEF ListOK
<1>3. ASSUME FirstOf(l, ks, n, k) PROVE low < up /\ low + 1 \in DOMAIN l /\ l[low + 1] = n
  <2>1. PICK i \in DOMAIN l : /\ l[i] = n /\ WeaklyEquivalent(ks[l[i]], k)
                              /\ \A j \in 1..i - 1 : KeyLess(ks[l[j]], k)
    BY <1>3 DEF FirstOf
  <2>2. low < i /\ i <= up
    BY <1>1, <2>1
  <2>3. ~(low + 1 < i)
    <3> SUFFICES ASSUME low + 1 < i PROVE FALSE
      OBVIOUS
    <3>1. low + 1 \in 1..i - 1 /\ low + 1 \in DOMAIN l
      BY <1>1, <1>2, <2>1
    <3> QED BY <1>1, <2>1, <3>1
  <2>4. i = low + 1
    BY <1>1, <1>2, <2>2, <2>3
  <2> QED BY <1>1, <2>1, <2>2, <2>4
<1>4. ASSUME low < up, low + 1 \in DOMAIN l, l[low + 1] = n PROVE FirstOf(l, ks, n, k)
  <2>1. WeaklyEquivalent(ks[l[low + 1]], k)
    BY <1>1, <1>2, <1>4
  <2>2. \A j \in 1..(low + 1) - 1 : KeyLess(ks[l[j]], k)
    BY <1>1, <1>2
  <2> QED BY <1>4, <2>1, <2>2 DEF FirstOf
<1> QED BY <1>3, <1>4, Zenon

-----------------------------------------------------------------------------
(* Where the map's iterators point.                                          *)

(* Every entry is the first node of its group, and the group has one. *)
LEMMA Entries ==
  ASSUME NEW l, NEW ks, NEW m, ListOK(l, ks), MapOK(l, ks, m), NEW k \in DOMAIN m
  PROVE  LET low == Low(l, ks, k)
         IN  /\ k \in GroupKeys /\ k # End
             /\ low \in Nat /\ low + 1 \in DOMAIN l /\ m[k] = l[low + 1]
             /\ ks[l[low + 1]] \in GroupKeys /\ WeaklyEquivalent(ks[l[low + 1]], k)
<1> PICK low, up : low = Low(l, ks, k) /\ up = Up(l, ks, k)
  OBVIOUS
<1>1. k \in GroupKeys /\ k # End /\ FirstOf(l, ks, m[k], k)
  BY EndAssumption DEF MapOK
<1>2. low < up /\ low + 1 \in DOMAIN l /\ l[low + 1] = m[k]
  BY <1>1, EntryPlace, Zenon
<1>3. /\ low \in 0..Len(l) /\ up \in 0..Len(l)
      /\ \A j \in DOMAIN l :
            /\ ks[l[j]] \in GroupKeys
            /\ WeaklyEquivalent(ks[l[j]], k) <=> low < j /\ j <= up
  BY <1>1, Bounds, Zenon
<1>4. Len(l) \in Nat
  BY DEF ListOK
<1> QED BY <1>1, <1>2, <1>3, <1>4

(* A set of entries that is not empty has a first one. *)
LEMMA FirstEntry ==
  ASSUME NEW l, NEW ks, NEW m, ListOK(l, ks), MapOK(l, ks, m),
         NEW K, K \subseteq DOMAIN m, K # {}
  PROVE  FirstKey(K) \in K /\ \A k \in K : ~KeyLess(k, FirstKey(K))
<1> DEFINE place(k) == Low(l, ks, k)
           T == {place(k) : k \in K}
<1>1. \A k \in K : /\ k \in GroupKeys /\ place(k) \in Nat /\ place(k) + 1 \in DOMAIN l
                   /\ ks[l[place(k) + 1]] \in GroupKeys
                   /\ WeaklyEquivalent(ks[l[place(k) + 1]], k)
  BY Entries
<1>2. T \in SUBSET Nat /\ T # {}
  BY <1>1
<1>3. PICK i \in T : \A j \in T : i <= j
  BY <1>2, LeastNat
<1>4. PICK q \in K : place(q) = i
  OBVIOUS
<1>5. ASSUME NEW k \in K, KeyLess(k, q) PROVE FALSE
  <2>1. place(k) \in T
    OBVIOUS
  <2>2. KeyLess(ks[l[place(k) + 1]], q)
    BY <1>1, <1>5, Equivalence
  <2>3. \A j \in DOMAIN l : KeyLess(ks[l[j]], q) <=> j <= place(q)
    BY <1>1, Bounds, Zenon
  <2>4. i <= place(k) /\ place(k) + 1 <= place(q)
    BY <1>1, <1>3, <2>1, <2>2, <2>3
  <2>5. place(k) \in Nat /\ place(q) \in Nat
    BY <1>1
  <2> HIDE DEF place
  <2> QED BY <1>4, <2>4, <2>5
<1>6. \E k \in K : \A j \in K : ~KeyLess(j, k)
  BY <1>5
<1> QED BY <1>6, Zenon DEF FirstKey

LEMMA AtOrBefore ==
  ASSUME NEW n \in Nat
  PROVE  \A j \in 0..n : j = n \/ j < n
OBVIOUS

(* Where a group begins or ends in the list, the first entry from there on   *)
(* points at the first node from there on.                                   *)
LEMMA FirstFrom ==
  ASSUME NEW l, NEW ks, NEW m, ListOK(l, ks), MapOK(l, ks, m), NEW i \in 0..Len(l),
         i < Len(l) => \A j \in 1..i : KeyLess(ks[l[j]], ks[l[i + 1]]),
         NEW K, K = {k \in DOMAIN m : i <= Low(l, ks, k)}
  PROVE  /\ get_list_iterator(m, FirstKey(K)) = NodeAt(l, i + 1)
         /\ i = Len(l) => FirstKey(K) = End
         /\ i < Len(l) => /\ FirstKey(K) \in K /\ FirstKey(K) # End
                          /\ WeaklyEquivalent(ks[l[i + 1]], FirstKey(K))
<1> DEFINE place(k) == Low(l, ks, k)
<1>1. Len(l) \in Nat /\ DOMAIN l = 1..Len(l) /\ \A j \in DOMAIN l : ks[l[j]] \in GroupKeys
  BY DEF ListOK
<1>2. \A k \in DOMAIN m : /\ k \in GroupKeys /\ k # End
                          /\ place(k) \in Nat /\ place(k) + 1 \in DOMAIN l
                          /\ m[k] = l[place(k) + 1]
                          /\ WeaklyEquivalent(ks[l[place(k) + 1]], k)
  BY Entries
<1>3. CASE i = Len(l)
  <2>1. K = {}
    BY <1>1, <1>2, <1>3
  <2>2. FirstKey(K) = End
    BY <2>1 DEF FirstKey
  <2>3. NodeAt(l, i + 1) = End
    BY <1>1, <1>3 DEF NodeAt
  <2> QED BY <1>1, <1>3, <2>2, <2>3 DEF get_list_iterator
<1>4. CASE i < Len(l)
  <2>1. i + 1 \in DOMAIN l
    BY <1>1, <1>4
  <2>2. PICK q \in DOMAIN m : WeaklyEquivalent(q, ks[l[i + 1]])
    BY <2>1 DEF MapOK
  <2>3. \A j \in DOMAIN l : KeyLess(ks[l[j]], q) <=> j <= place(q)
    BY <1>2, Bounds, Zenon
  <2>4. place(q) = i
    <3>1. i = 0 \/ KeyLess(ks[l[i]], q)
      <4>1. i # 0 => i \in 1..i /\ i \in DOMAIN l
        BY <1>1
      <4> QED BY <1>1, <1>2, <1>4, <2>1, <2>2, <4>1, Equivalence
    <3>2. ~KeyLess(ks[l[i + 1]], q)
      BY <2>2 DEF WeaklyEquivalent
    <3>3. i = 0 \/ i \in DOMAIN l
      BY <1>1
    <3>4. i <= place(q) /\ ~(i + 1 <= place(q)) /\ place(q) \in Nat
      BY <1>2, <2>1, <2>3, <3>1, <3>2, <3>3
    <3> HIDE DEF place
    <3> QED BY <3>4
  <2>5. q \in K /\ K \subseteq DOMAIN m
    BY <2>4
  <2>6. FirstKey(K) \in K /\ ~KeyLess(q, FirstKey(K))
    BY <2>5, FirstEntry
  <2> PICK f : f = FirstKey(K)
    OBVIOUS
  <2>7. f \in DOMAIN m /\ i <= place(f) /\ ~KeyLess(q, f)
    BY <2>6
  <2>8. \A j \in DOMAIN l : KeyLess(ks[l[j]], f) <=> j <= place(f)
    BY <1>2, <2>7, Bounds, Zenon
  <2>9. ~KeyLess(ks[l[i + 1]], f)
    BY <1>1, <1>2, <2>1, <2>2, <2>7, Equivalence
  <2>10. place(f) = i
    <3>1. ~(i + 1 <= place(f)) /\ place(f) \in Nat
      BY <1>2, <2>1, <2>7, <2>8, <2>9
    <3> HIDE DEF place
    <3> QED BY <2>7, <3>1
  <2>11. f # End /\ m[f] = l[i + 1] /\ WeaklyEquivalent(ks[l[i + 1]], f)
    BY <1>2, <2>7, <2>10
  <2>12. get_list_iterator(m, f) = l[i + 1]
    BY <2>11 DEF get_list_iterator
  <2>13. NodeAt(l, i + 1) = l[i + 1]
    BY <2>1 DEF NodeAt
  <2>14. /\ get_list_iterator(m, FirstKey(K)) = NodeAt(l, i + 1)
         /\ FirstKey(K) # End /\ WeaklyEquivalent(ks[l[i + 1]], FirstKey(K))
    BY <2>11, <2>12, <2>13
  <2>15. i # Len(l)
    <3>1. Len(l) \in Nat
      BY <1>1
    <3> QED BY <1>4, <3>1
  <2> HIDE DEF place
  <2> QED BY <2>6, <2>14, <2>15
<1>5. i = Len(l) \/ i < Len(l)
  <2>1. Len(l) \in Nat
    BY <1>1
  <2>2. \A j \in 0..Len(l) : j = Len(l) \/ j < Len(l)
    BY <2>1, AtOrBefore
  <2> QED BY <2>2, Zenon
<1> QED BY <1>3, <1>4, <1>5

(* lower_bound and upper_bound of the map are those of the list. *)
LEMMA MapLowerBound ==
  ASSUME NEW l, NEW ks, NEW m, ListOK(l, ks), MapOK(l, ks, m), NEW key \in GroupKeys
  PROVE  LET lb == map_lower_bound(m, key)
         IN  /\ get_list_iterator(m, lb) = NodeAt(l, Low(l, ks, key) + 1)
             /\ lb # End => lb \in DOMAIN m
             /\ lb # End /\ WeaklyEquivalent(key, lb) <=> Low(l, ks, key) < Up(l, ks, key)
<1> PICK low, up : low = Low(l, ks, key) /\ up = Up(l, ks, key)
  OBVIOUS
<1> DEFINE place(k) == Low(l, ks, k)
           K == {k \in DOMAIN m : low <= place(k)}
           lb == FirstKey(K)
<1>1. /\ Len(l) \in Nat /\ DOMAIN l = 1..Len(l)
      /\ \A j \in DOMAIN l : ks[l[j]] \in GroupKeys
  BY DEF ListOK
<1>2. /\ low \in 0..Len(l) /\ up \in 0..Len(l) /\ low <= up
      /\ \A j \in DOMAIN l : /\ KeyLess(ks[l[j]], key) <=> j <= low
                             /\ WeaklyEquivalent(ks[l[j]], key) <=> low < j /\ j <= up
  BY Bounds, Zenon
<1>3. ASSUME NEW k \in DOMAIN m
      PROVE  ~KeyLess(k, key) <=> low <= place(k)
  <2>1. /\ k \in GroupKeys
        /\ place(k) \in Nat /\ place(k) + 1 \in DOMAIN l
        /\ WeaklyEquivalent(ks[l[place(k) + 1]], k)
    BY Entries
  <2>2. \A j \in DOMAIN l : KeyLess(ks[l[j]], k) <=> j <= place(k)
    BY <2>1, Bounds, Zenon
  <2> PICK p : p = place(k)
    OBVIOUS
  <2>3. p \in Nat /\ p + 1 \in DOMAIN l /\ WeaklyEquivalent(ks[l[p + 1]], k)
    BY <2>1
  <2>4. \A j \in DOMAIN l : KeyLess(ks[l[j]], k) <=> j <= p
    BY <2>2
  <2>5. ASSUME ~KeyLess(k, key), low # 0 PROVE low <= p
    <3>1. low \in DOMAIN l /\ KeyLess(ks[l[low]], key)
      BY <1>1, <1>2, <2>5
    <3>2. KeyLess(ks[l[low]], k)
      BY <1>1, <2>1, <2>5, <3>1, KeyLessWeakOrder
    <3> QED BY <2>4, <3>1, <3>2
  <2>6. ASSUME KeyLess(k, key) PROVE p + 1 <= low
    <3>1. KeyLess(ks[l[p + 1]], key)
      BY <1>1, <2>1, <2>3, <2>6, Equivalence
    <3> QED BY <1>2, <2>3, <3>1
  <2> HIDE DEF place
  <2> QED BY <1>2, <2>3, <2>5, <2>6
<1>4. map_lower_bound(m, key) = lb
  <2>1. {k \in DOMAIN m : ~KeyLess(k, key)} = K
    BY <1>3
  <2> QED BY <2>1, Zenon DEF map_lower_bound
<1>5. low < Len(l) => \A j \in 1..low : KeyLess(ks[l[j]], ks[l[low + 1]])
  <2> SUFFICES ASSUME low < Len(l), NEW j \in 1..low PROVE KeyLess(ks[l[j]], ks[l[low + 1]])
    OBVIOUS
  <2>1. j \in DOMAIN l /\ low + 1 \in DOMAIN l /\ KeyLess(ks[l[j]], key)
        /\ ~KeyLess(ks[l[low + 1]], key)
    BY <1>1, <1>2
  <2> QED BY <1>1, <2>1, KeyLessWeakOrder
<1>6. K = {k \in DOMAIN m : low <= Low(l, ks, k)}
  OBVIOUS
<1>7. /\ get_list_iterator(m, lb) = NodeAt(l, low + 1)
      /\ low = Len(l) => lb = End
      /\ low < Len(l) => /\ lb \in K /\ lb # End
                         /\ WeaklyEquivalent(ks[l[low + 1]], lb)
  BY <1>2, <1>5, <1>6, FirstFrom
<1>8. lb # End => lb \in DOMAIN m
  BY <1>1, <1>2, <1>7
<1>9. lb # End /\ WeaklyEquivalent(key, lb) <=> low < up
  <2>1. CASE low = Len(l)
    BY <1>1, <1>2, <1>7, <2>1
  <2>2. CASE low < Len(l)
    <3>1. low + 1 \in DOMAIN l /\ ks[l[low + 1]] \in GroupKeys /\ lb \in GroupKeys /\ lb # End
      BY <1>1, <1>2, <1>7, <1>8, <2>2 DEF MapOK
    <3>2. WeaklyEquivalent(ks[l[low + 1]], key) <=> low < up
      BY <1>1, <1>2, <3>1
    <3>3. WeaklyEquivalent(ks[l[low + 1]], key) <=> WeaklyEquivalent(key, lb)
      BY <1>7, <2>2, <3>1, Equivalence
    <3> QED BY <3>1, <3>2, <3>3
  <2> QED BY <1>1, <1>2, <2>1, <2>2
<1> HIDE DEF lb
<1> QED BY <1>4, <1>7, <1>8, <1>9

LEMMA MapUpperBound ==
  ASSUME NEW l, NEW ks, NEW m, ListOK(l, ks), MapOK(l, ks, m), NEW key \in GroupKeys
  PROVE  LET ub == map_upper_bound(m, key)
         IN  /\ get_list_iterator(m, ub) = NodeAt(l, Up(l, ks, key) + 1)
             /\ ub # End => ub \in DOMAIN m /\ KeyLess(key, ub)
<1> PICK up : up = Up(l, ks, key)
  OBVIOUS
<1> DEFINE place(k) == Low(l, ks, k)
           K == {k \in DOMAIN m : up <= place(k)}
           ub == FirstKey(K)
<1>1. /\ Len(l) \in Nat /\ DOMAIN l = 1..Len(l)
      /\ \A j \in DOMAIN l : ks[l[j]] \in GroupKeys
  BY DEF ListOK
<1>2. /\ up \in 0..Len(l)
      /\ \A j \in DOMAIN l : KeyLess(key, ks[l[j]]) <=> up < j
  BY Bounds, Zenon
<1>3. ASSUME NEW k \in DOMAIN m
      PROVE  KeyLess(key, k) <=> up <= place(k)
  <2>1. /\ k \in GroupKeys
        /\ place(k) \in Nat /\ place(k) + 1 \in DOMAIN l
        /\ WeaklyEquivalent(ks[l[place(k) + 1]], k)
    BY Entries
  <2>2. \A j \in DOMAIN l : KeyLess(ks[l[j]], k) <=> j <= place(k)
    BY <2>1, Bounds, Zenon
  <2> PICK p : p = place(k)
    OBVIOUS
  <2>3. p \in Nat /\ p + 1 \in DOMAIN l /\ WeaklyEquivalent(ks[l[p + 1]], k)
    BY <2>1
  <2>4. \A j \in DOMAIN l : KeyLess(ks[l[j]], k) <=> j <= p
    BY <2>2
  <2>5. ASSUME KeyLess(key, k), up # 0 PROVE up <= p
    <3>1. up \in DOMAIN l /\ ~KeyLess(key, ks[l[up]])
      BY <1>1, <1>2, <2>5
    <3>2. KeyLess(ks[l[up]], k)
      BY <1>1, <2>1, <2>5, <3>1, KeyLessWeakOrder
    <3> QED BY <2>4, <3>1, <3>2
  <2>6. ASSUME ~KeyLess(key, k) PROVE p + 1 <= up
    <3>1. ~KeyLess(key, ks[l[p + 1]])
      BY <1>1, <2>1, <2>3, <2>6, Equivalence
    <3> QED BY <1>2, <2>3, <3>1
  <2> HIDE DEF place
  <2> QED BY <1>2, <2>3, <2>5, <2>6
<1>4. map_upper_bound(m, key) = ub
  <2>1. {k \in DOMAIN m : KeyLess(key, k)} = K
    BY <1>3
  <2> QED BY <2>1, Zenon DEF map_upper_bound
<1>5. up < Len(l) => \A j \in 1..up : KeyLess(ks[l[j]], ks[l[up + 1]])
  <2> SUFFICES ASSUME up < Len(l), NEW j \in 1..up PROVE KeyLess(ks[l[j]], ks[l[up + 1]])
    OBVIOUS
  <2>1. j \in DOMAIN l /\ up + 1 \in DOMAIN l /\ ~KeyLess(key, ks[l[j]])
        /\ KeyLess(key, ks[l[up + 1]])
    BY <1>1, <1>2
  <2> QED BY <1>1, <2>1, KeyLessWeakOrder
<1>6. K = {k \in DOMAIN m : up <= Low(l, ks, k)}
  OBVIOUS
<1>7. /\ get_list_iterator(m, ub) = NodeAt(l, up + 1)
      /\ up = Len(l) => ub = End
      /\ up < Len(l) => ub \in K
  BY <1>2, <1>5, <1>6, FirstFrom
<1>8. ub # End => ub \in DOMAIN m /\ KeyLess(key, ub)
  BY <1>1, <1>2, <1>3, <1>7
<1> HIDE DEF ub
<1> QED BY <1>4, <1>7, <1>8

-----------------------------------------------------------------------------
(* Inserting a node.                                                         *)

(* A place in a list is known by the positions up to it. *)
LEMMA SamePlace ==
  ASSUME NEW n \in Nat, NEW a \in 0..n, NEW b \in 0..n,
         \A j \in 1..n : j <= a <=> j <= b
  PROVE  a = b
<1>1. ASSUME a < b PROVE FALSE
  <2>1. b \in 1..n
    BY <1>1
  <2>2. b <= a <=> b <= b
    BY <2>1
  <2> QED BY <1>1, <2>2
<1>2. ASSUME b < a PROVE FALSE
  <2>1. a \in 1..n
    BY <1>2
  <2>2. a <= a <=> a <= b
    BY <2>1
  <2> QED BY <1>2, <2>2
<1> QED BY <1>1, <1>2

Rekeyed(ks, n, key) == [ks EXCEPT ![n] = key]

(* The key of a new node changes nothing about the list before it enters. *)
LEMMA NewKey ==
  ASSUME NEW l, NEW ks, ListOK(l, ks), NEW n \in Nodes, n \notin ToSet(l),
         NEW key \in GroupKeys
  PROVE  LET ks2 == Rekeyed(ks, n, key)
         IN  /\ ListOK(l, ks2) /\ ks2[n] = key
             /\ \A j \in DOMAIN l : ks2[l[j]] = ks[l[j]]
             /\ Low(l, ks2, key) = Low(l, ks, key)
             /\ Up(l, ks2, key) = Up(l, ks, key)
<1> PICK ks2 : ks2 = Rekeyed(ks, n, key)
  OBVIOUS
<1>1. /\ l \in Seq(Nodes) /\ Unrepeated(l) /\ ks \in [Nodes -> GroupKeys] /\ Sorted(l, ks)
      /\ Len(l) \in Nat /\ DOMAIN l = 1..Len(l)
  BY DEF ListOK
<1>2. ks2 = [ks EXCEPT ![n] = key] /\ ks2 \in [Nodes -> GroupKeys] /\ ks2[n] = key
  BY <1>1 DEF Rekeyed
<1>3. \A j \in DOMAIN l : l[j] \in Nodes /\ l[j] # n
  BY <1>1 DEF ToSet
<1>4. \A j \in DOMAIN l : ks2[l[j]] = ks[l[j]]
  BY <1>1, <1>2, <1>3
<1>5. Sorted(l, ks2)
  BY <1>1, <1>4 DEF Sorted
<1>6. ListOK(l, ks2)
  BY <1>1, <1>2, <1>5 DEF ListOK
<1> PICK low, up, low2, up2 : /\ low = Low(l, ks, key) /\ up = Up(l, ks, key)
                              /\ low2 = Low(l, ks2, key) /\ up2 = Up(l, ks2, key)
  OBVIOUS
<1>7. /\ low \in 0..Len(l) /\ up \in 0..Len(l)
      /\ \A j \in DOMAIN l : /\ KeyLess(ks[l[j]], key) <=> j <= low
                             /\ KeyLess(key, ks[l[j]]) <=> up < j
  BY Bounds, Zenon
<1>8. /\ low2 \in 0..Len(l) /\ up2 \in 0..Len(l)
      /\ \A j \in DOMAIN l : /\ KeyLess(ks2[l[j]], key) <=> j <= low2
                             /\ KeyLess(key, ks2[l[j]]) <=> up2 < j
  BY <1>6, Bounds, Zenon
<1>9. \A j \in 1..Len(l) : (j <= low <=> j <= low2) /\ (up < j <=> up2 < j)
  BY <1>1, <1>4, <1>7, <1>8
<1>10. low2 = low
  <2>1. low2 \in 0..Len(l) /\ low \in 0..Len(l) /\ Len(l) \in Nat
    BY <1>1, <1>7, <1>8
  <2>2. \A j \in 1..Len(l) : j <= low <=> j <= low2
    BY <1>9, <2>1
  <2> QED BY <2>1, <2>2, SamePlace
<1>11. up2 = up
  <2>1. up2 \in 0..Len(l) /\ up \in 0..Len(l) /\ Len(l) \in Nat
    BY <1>1, <1>7, <1>8
  <2>2. ASSUME NEW j \in 1..Len(l) PROVE j <= up <=> j <= up2
    <3>1. up < j <=> up2 < j
      BY <1>9
    <3> QED BY <2>1, <3>1
  <2> QED BY <2>1, <2>2, SamePlace
<1> QED BY <1>2, <1>4, <1>6, <1>10, <1>11

(* Inserting before the node behind the lower or upper bound of its key is   *)
(* entering first or last in the group.                                      *)
LEMMA InsertedHere ==
  ASSUME NEW l, NEW ks, ListOK(l, ks), NEW n \in Nodes, n \notin ToSet(l),
         NEW key \in GroupKeys, NEW position \in Positions
  PROVE  LET i   == IF position = "at_back" THEN Up(l, ks, key) ELSE Low(l, ks, key)
             new == list_insert(l, NodeAt(l, i + 1), n)
         IN  /\ new = Inserted(l, Rekeyed(ks, n, key), n, position)
             /\ Entered(new, l, n, i)
             /\ ListOK(new, Rekeyed(ks, n, key))
<1> PICK ks2, i : /\ ks2 = Rekeyed(ks, n, key)
                  /\ i = IF position = "at_back" THEN Up(l, ks, key) ELSE Low(l, ks, key)
  OBVIOUS
<1>1. /\ l \in Seq(Nodes) /\ Unrepeated(l) /\ End \notin Nodes
      /\ Len(l) \in Nat /\ DOMAIN l = 1..Len(l)
  BY EndAssumption DEF ListOK
<1>2. /\ ListOK(l, ks2) /\ ks2[n] = key
      /\ Low(l, ks2, key) = Low(l, ks, key)
      /\ Up(l, ks2, key) = Up(l, ks, key)
  BY NewKey
<1>3. Low(l, ks, key) \in 0..Len(l) /\ Up(l, ks, key) \in 0..Len(l)
  BY Bounds, Zenon
<1>4. i \in 0..Len(l)
  BY <1>3
<1>5. i + 1 \in 1..Len(l) + 1
  BY <1>1, <1>4
<1>6. Index(l, NodeAt(l, i + 1)) = i + 1
  BY <1>1, <1>5, IndexUnique
<1> PICK new : new = SubSeq(l, 1, i) \o <<n>> \o SubSeq(l, i + 1, Len(l))
  OBVIOUS
<1>7. list_insert(l, NodeAt(l, i + 1), n) = new
  <2>1. (i + 1) - 1 = i
    BY <1>4
  <2> QED BY <1>6, <2>1, Zenon DEF list_insert, InsertAt
<1>8. Inserted(l, ks2, n, position) = new
  BY <1>2, Zenon DEF Inserted, Low, Up
<1>9. Entered(new, l, n, i)
  BY <1>1, <1>4, InsertedElements
<1>10. ListOK(new, ks2)
  <2>1. ks2 \in [Nodes -> GroupKeys] /\ Sorted(l, ks2)
    BY <1>2 DEF ListOK
  <2>2. Inserted(l, ks2, n, position) \in Seq(Nodes)
    BY <1>1, InsertedType
  <2>3. Unrepeated(Inserted(l, ks2, n, position))
    BY <1>1, InsertedSet
  <2>4. Sorted(Inserted(l, ks2, n, position), ks2)
    BY <1>1, <2>1, InsertedSorted
  <2> QED BY <1>8, <2>1, <2>2, <2>3, <2>4 DEF ListOK
<1> QED BY <1>7, <1>8, <1>9, <1>10

(* The map with n as the first node of key's group. *)
Led(m, key, n) ==
    [k \in {k \in DOMAIN m : ~WeaklyEquivalent(k, key)} \cup {key} |->
        IF k = key THEN n ELSE m[k]]

(* m_insert puts the new node at the head of its group when it enters there, *)
(* and leaves the map alone when it enters behind another node of its group. *)
LEMMA NeedsEntryIff ==
  ASSUME SameClasses, NEW l, NEW ks, NEW m, ListOK(l, ks), MapOK(l, ks, m),
         NEW key \in GroupKeys, NEW r, DOMAIN r \subseteq DOMAIN m
  PROVE  NeedsEntry(r, key) <=> ~\E k \in DOMAIN r : WeaklyEquivalent(k, key)
<1> DEFINE K == {k \in DOMAIN r : ~KeyLess(k, key)}
<1> PICK lb : lb = map_lower_bound(r, key)
  OBVIOUS
<1>1. lb = FirstKey(K) /\ K \subseteq DOMAIN m
  BY DEF map_lower_bound
<1>2. \A k \in DOMAIN r : k \in GroupKeys /\ k # End
  BY EndAssumption DEF MapOK
<1>3. NeedsEntry(r, key) <=> lb = End \/ ~weakly_equivalent(lb, key)
  BY Zenon DEF NeedsEntry
<1>4. CASE K = {}
  <2>1. lb = End
    BY <1>1, <1>4 DEF FirstKey
  <2>2. \A k \in DOMAIN r : ~WeaklyEquivalent(k, key)
    BY <1>4 DEF WeaklyEquivalent
  <2> QED BY <1>3, <2>1, <2>2
<1>5. CASE K # {}
  <2>1. lb \in K /\ \A k \in K : ~KeyLess(k, lb)
    BY <1>1, <1>5, FirstEntry
  <2>2. lb \in DOMAIN r /\ lb # End /\ lb \in GroupKeys
    BY <1>2, <2>1
  <2>3. ASSUME NEW k \in DOMAIN r, WeaklyEquivalent(k, key)
        PROVE  WeaklyEquivalent(lb, key)
    <3>1. k \in K /\ ~KeyLess(k, lb) /\ ~KeyLess(lb, key) /\ k \in GroupKeys
      BY <1>2, <2>1, <2>3 DEF WeaklyEquivalent
    <3>2. ~KeyLess(key, lb)
      BY <2>2, <2>3, <3>1, Equivalence
    <3> QED BY <3>1, <3>2 DEF WeaklyEquivalent
  <2>4. weakly_equivalent(lb, key) <=> WeaklyEquivalent(lb, key)
    BY <2>2, StoredAgrees
  <2> QED BY <1>3, <2>2, <2>3, <2>4
<1> QED BY <1>4, <1>5

LEMMA EntryMap ==
  ASSUME SameClasses, NEW l, NEW ks, NEW m, ListOK(l, ks), MapOK(l, ks, m),
         NEW key \in GroupKeys, NEW n
  PROVE  /\ m_insert_map(m, map_lower_bound(m, key), key, n) = Led(m, key, n)
         /\ \A it : (it # End => it \in DOMAIN m /\ KeyLess(key, it)) =>
               m_insert_map(m, it, key, n) =
                  IF Low(l, ks, key) < Up(l, ks, key) THEN m ELSE Led(m, key, n)
<1> PICK lb, in : /\ lb = map_lower_bound(m, key)
                  /\ in = (Low(l, ks, key) < Up(l, ks, key))
  OBVIOUS
<1>1. /\ lb # End => lb \in DOMAIN m
      /\ lb # End /\ WeaklyEquivalent(key, lb) <=> in
  BY MapLowerBound, Zenon
<1>2. \A k \in DOMAIN m : k \in GroupKeys /\ k # End
  BY EndAssumption DEF MapOK
<1>3. \A k, q \in DOMAIN m : WeaklyEquivalent(k, q) => k = q
  BY DEF MapOK
<1>4. NeedsEntry(m, key) <=> ~\E k \in DOMAIN m : WeaklyEquivalent(k, key)
  BY NeedsEntryIff
<1>5. in <=> \E k \in DOMAIN m : WeaklyEquivalent(k, key)
  <2>1. in => WeaklyEquivalent(lb, key) /\ lb \in DOMAIN m
    BY <1>1, <1>2, Equivalence
  <2>2. ASSUME NEW k \in DOMAIN m, WeaklyEquivalent(k, key) PROVE in
    <3>1. lb # End /\ weakly_equivalent(lb, key)
      BY <1>4, <2>2, Zenon DEF NeedsEntry
    <3>2. WeaklyEquivalent(lb, key)
      BY <1>1, <1>2, <3>1, StoredAgrees
    <3> QED BY <1>1, <1>2, <3>1, <3>2, Equivalence
  <2> QED BY <2>1, <2>2
<1>6. \A k \in DOMAIN m : WeaklyEquivalent(k, key) => k = lb
  <2> SUFFICES ASSUME NEW k \in DOMAIN m, WeaklyEquivalent(k, key) PROVE k = lb
    OBVIOUS
  <2>1. lb \in DOMAIN m /\ WeaklyEquivalent(key, lb)
    BY <1>1, <1>5
  <2>2. WeaklyEquivalent(k, lb)
    BY <1>2, <2>1, Equivalence
  <2> QED BY <1>3, <2>1, <2>2
<1>7. ASSUME ~in PROVE map_insert(m, key, n) = Led(m, key, n)
  <2>1. {k \in DOMAIN m : ~WeaklyEquivalent(k, key)} = DOMAIN m
    BY <1>5, <1>7
  <2>2. map_insert(m, key, n) = map_set(m, key, n)
    BY <1>5, <1>7 DEF map_insert, EntriesOf
  <2> QED BY <2>1, <2>2, Zenon DEF map_set, Led
<1>8. m_insert_map(m, lb, key, n) = Led(m, key, n)
  <2>1. CASE in
    <3> PICK rest : rest = map_erase(m, lb)
      OBVIOUS
    <3>1. displaced_map(m, lb, key) = rest
      <4>1. lb # End /\ lb \in GroupKeys /\ weakly_equivalent(key, lb)
        BY <1>1, <1>2, <2>1, StoredAgrees
      <4> QED BY <4>1 DEF displaced_map
    <3>2. DOMAIN rest = {k \in DOMAIN m : ~WeaklyEquivalent(k, key)}
      <4>1. lb \in DOMAIN m /\ WeaklyEquivalent(lb, key)
        BY <1>1, <1>2, <2>1, Equivalence
      <4> QED BY <1>6, <4>1 DEF map_erase
    <3>3. \A k \in DOMAIN rest : rest[k] = m[k]
      BY DEF map_erase
    <3>4. NeedsEntry(rest, key)
      BY <3>2, NeedsEntryIff
    <3>5. map_insert(rest, key, n) = Led(m, key, n)
      <4>1. EntriesOf(rest, key) = {}
        BY <3>2 DEF EntriesOf
      <4>2. map_insert(rest, key, n) = map_set(rest, key, n)
        BY <4>1 DEF map_insert
      <4> QED BY <3>2, <3>3, <4>2 DEF map_set, Led
    <3> QED BY <3>1, <3>4, <3>5 DEF m_insert_map
  <2>2. CASE ~in
    <3>1. displaced_map(m, lb, key) = m
      <4>1. lb # End => ~weakly_equivalent(key, lb)
        BY <1>1, <1>2, <2>2, StoredAgrees
      <4> QED BY <4>1 DEF displaced_map
    <3>2. NeedsEntry(m, key)
      BY <1>4, <1>5, <2>2
    <3> QED BY <1>7, <2>2, <3>1, <3>2 DEF m_insert_map
  <2> QED BY <2>1, <2>2
<1>9. ASSUME NEW it, it # End => it \in DOMAIN m /\ KeyLess(key, it)
      PROVE  m_insert_map(m, it, key, n) = IF in THEN m ELSE Led(m, key, n)
  <2>1. displaced_map(m, it, key) = m
    <3>1. it # End => ~weakly_equivalent(key, it)
      <4> SUFFICES ASSUME it # End PROVE ~weakly_equivalent(key, it)
        OBVIOUS
      <4>1. it \in GroupKeys /\ ~WeaklyEquivalent(key, it)
        BY <1>2, <1>9 DEF WeaklyEquivalent
      <4> QED BY <4>1, StoredAgrees
    <3> QED BY <3>1 DEF displaced_map
  <2>2. m_insert_map(m, it, key, n) = IF NeedsEntry(m, key) THEN map_insert(m, key, n) ELSE m
    BY <2>1, Zenon DEF m_insert_map
  <2>3. NeedsEntry(m, key) <=> ~in
    BY <1>4, <1>5
  <2> QED BY <1>7, <2>2, <2>3
<1> QED BY <1>8, <1>9

(* The entries stay exact when a node enters first or last in its group. *)
LEMMA EnteredMap ==
  ASSUME NEW l, NEW ks, NEW m, ListOK(l, ks), MapOK(l, ks, m),
         NEW n \in Nodes, n \notin ToSet(l), NEW key \in GroupKeys,
         NEW ks2, \A j \in DOMAIN l : ks2[l[j]] = ks[l[j]], ks2[n] = key,
         NEW i, NEW new, Entered(new, l, n, i),
         NEW m2, \/ i = Low(l, ks, key) /\ m2 = Led(m, key, n)
                 \/ /\ Low(l, ks, key) < Up(l, ks, key)
                    /\ i = Up(l, ks, key) /\ m2 = m
  PROVE  MapOK(new, ks2, m2)
<1> PICK low, up : low = Low(l, ks, key) /\ up = Up(l, ks, key)
  OBVIOUS
<1>1. /\ Len(l) \in Nat /\ DOMAIN l = 1..Len(l) /\ \A j \in DOMAIN l : l[j] # n
  BY DEF ListOK, ToSet
<1>2. /\ low \in 0..Len(l) /\ up \in 0..Len(l) /\ low <= up
      /\ \A j \in DOMAIN l :
            /\ ks[l[j]] \in GroupKeys
            /\ KeyLess(ks[l[j]], key) <=> j <= low
            /\ KeyLess(key, ks[l[j]]) <=> up < j
            /\ WeaklyEquivalent(ks[l[j]], key) <=> low < j /\ j <= up
  BY Bounds, Zenon
<1>3. /\ i \in 0..Len(l) /\ low <= i /\ i <= up
      /\ \/ i = low /\ m2 = Led(m, key, n)
         \/ low < up /\ i = up /\ m2 = m
  BY <1>1, <1>2
<1>4. /\ DOMAIN new = 1..Len(l) + 1
      /\ \A j \in DOMAIN new :
            new[j] = IF j <= i THEN l[j] ELSE IF j = i + 1 THEN n ELSE l[j - 1]
  BY DEF Entered
<1>5. /\ DOMAIN m \subseteq GroupKeys
      /\ \A k \in DOMAIN m : FirstOf(l, ks, m[k], k)
      /\ \A j \in DOMAIN l : \E k \in DOMAIN m : WeaklyEquivalent(k, ks[l[j]])
      /\ \A k, q \in DOMAIN m : WeaklyEquivalent(k, q) => k = q
  BY DEF MapOK
<1>6. /\ \A j \in 1..i : j \in DOMAIN l /\ j \in DOMAIN new /\ new[j] = l[j]
                          /\ ks2[new[j]] = ks[l[j]]
      /\ i + 1 \in DOMAIN new /\ new[i + 1] = n /\ ks2[new[i + 1]] = key
      /\ \A j \in i + 1..Len(l) : /\ j \in DOMAIN l /\ j + 1 \in DOMAIN new
                                  /\ new[j + 1] = l[j] /\ ks2[new[j + 1]] = ks[l[j]]
  <2>1. \A j \in 1..i : j \in DOMAIN l /\ j \in DOMAIN new /\ new[j] = l[j]
    BY <1>1, <1>3, <1>4
  <2>2. i + 1 \in DOMAIN new /\ new[i + 1] = n
    BY <1>1, <1>3, <1>4
  <2>3. ASSUME NEW j \in i + 1..Len(l)
        PROVE  j \in DOMAIN l /\ j + 1 \in DOMAIN new /\ new[j + 1] = l[j]
    <3>1. j \in DOMAIN l /\ j + 1 \in DOMAIN new /\ ~(j + 1 <= i) /\ j + 1 # i + 1
          /\ (j + 1) - 1 = j
      BY <1>1, <1>3, <1>4
    <3> QED BY <1>4, <3>1
  <2> QED BY <2>1, <2>2, <2>3
\* An old entry that stays in the map stays exact.
<1>7. ASSUME NEW k \in DOMAIN m, i = low => ~WeaklyEquivalent(k, key)
      PROVE  FirstOf(new, ks2, m[k], k)
  <2>1. k \in GroupKeys
    BY <1>5
  <2>2. PICK p \in DOMAIN l : /\ l[p] = m[k] /\ WeaklyEquivalent(ks[l[p]], k)
                              /\ \A j \in 1..p - 1 : KeyLess(ks[l[j]], k)
    BY <1>5 DEF FirstOf
  <2>3. CASE p <= i
    <3>1. p \in 1..i
      BY <1>1, <2>3
    <3>2. \A j \in 1..p - 1 : j \in 1..i
      BY <1>1, <1>3, <2>3
    <3>3. \A j \in 1..p - 1 : KeyLess(ks2[new[j]], k)
      BY <1>6, <2>2, <3>2
    <3>4. p \in DOMAIN new /\ new[p] = m[k] /\ WeaklyEquivalent(ks2[new[p]], k)
      BY <1>6, <2>2, <3>1
    <3> QED BY <3>3, <3>4 DEF FirstOf
  <2>4. CASE i < p
    <3>1. p \in i + 1..Len(l) /\ p - 1 \in Nat
      BY <1>1, <1>3, <2>4
    <3>2. KeyLess(key, k)
      <4>1. ks[l[p]] \in GroupKeys /\ ~KeyLess(ks[l[p]], key)
        BY <1>1, <1>2, <1>3, <2>4
      <4>2. ~KeyLess(k, key)
        BY <2>1, <2>2, <4>1, Equivalence
      <4>3. CASE i = low
        BY <1>7, <2>1, <4>2, <4>3, Equivalence DEF WeaklyEquivalent
      <4>4. CASE i = up
        <5>1. KeyLess(key, ks[l[p]])
          BY <1>2, <2>4, <4>4
        <5> QED BY <2>1, <2>2, <4>1, <5>1, Equivalence
      <4> QED BY <1>3, <4>3, <4>4
    <3>3. p + 1 \in DOMAIN new /\ new[p + 1] = m[k] /\ WeaklyEquivalent(ks2[new[p + 1]], k)
      BY <1>6, <2>2, <3>1
    <3>4. ASSUME NEW j \in 1..(p + 1) - 1 PROVE KeyLess(ks2[new[j]], k)
      <4>1. CASE j \in 1..i
        <5>1. j \in 1..p - 1
          BY <1>3, <2>4, <3>1, <4>1
        <5> QED BY <1>6, <2>2, <4>1, <5>1
      <4>2. CASE j = i + 1
        BY <1>6, <3>2, <4>2
      <4>3. CASE j > i + 1
        <5>1. j - 1 \in i + 1..Len(l) /\ j - 1 \in 1..p - 1 /\ (j - 1) + 1 = j
          BY <1>1, <1>3, <2>4, <3>1, <4>3
        <5>2. ks2[new[(j - 1) + 1]] = ks[l[j - 1]]
          BY <1>6, <5>1
        <5> QED BY <2>2, <5>1, <5>2
      <4> QED BY <1>3, <3>1, <4>1, <4>2, <4>3
    <3> QED BY <3>3, <3>4 DEF FirstOf
  <2> QED BY <1>1, <1>3, <2>3, <2>4
<1>8. ASSUME i = low PROVE FirstOf(new, ks2, n, key)
  <2>1. ASSUME NEW j \in 1..(i + 1) - 1 PROVE KeyLess(ks2[new[j]], key)
    <3>1. j \in 1..i /\ j <= low
      BY <1>3, <1>8
    <3> QED BY <1>2, <1>6, <3>1
  <2>2. WeaklyEquivalent(key, key)
    BY Equivalence
  <2> QED BY <1>6, <2>1, <2>2 DEF FirstOf
\* The keys of the nodes are the old ones and the new one.
<1>9. \A j \in DOMAIN new : ks2[new[j]] = key \/ \E p \in DOMAIN l : ks2[new[j]] = ks[l[p]]
  <2> SUFFICES ASSUME NEW j \in DOMAIN new
               PROVE  ks2[new[j]] = key \/ \E p \in DOMAIN l : ks2[new[j]] = ks[l[p]]
    OBVIOUS
  <2>1. CASE j \in 1..i
    BY <1>6, <2>1
  <2>2. CASE j = i + 1
    BY <1>6, <2>2
  <2>3. CASE j > i + 1
    <3>1. j - 1 \in i + 1..Len(l) /\ (j - 1) + 1 = j
      BY <1>1, <1>3, <1>4, <2>3
    <3>2. j - 1 \in DOMAIN l /\ ks2[new[(j - 1) + 1]] = ks[l[j - 1]]
      BY <1>6, <3>1
    <3> QED BY <3>1, <3>2
  <2> QED BY <1>1, <1>3, <1>4, <2>1, <2>2, <2>3
<1>10. CASE i = low /\ m2 = Led(m, key, n)
  <2>1. DOMAIN m2 = {k \in DOMAIN m : ~WeaklyEquivalent(k, key)} \cup {key}
    BY <1>10 DEF Led
  <2>2. \A k \in DOMAIN m2 : m2[k] = IF k = key THEN n ELSE m[k]
    BY <1>10 DEF Led
  <2>3. DOMAIN m2 \subseteq GroupKeys
    BY <1>5, <2>1
  <2>4. m2 = [k \in DOMAIN m2 |-> m2[k]]
    BY <1>10 DEF Led
  <2>5. ASSUME NEW k \in DOMAIN m2 PROVE FirstOf(new, ks2, m2[k], k)
    BY <1>7, <1>8, <1>10, <2>1, <2>2
  <2>6. ASSUME NEW j \in DOMAIN new
        PROVE  \E k \in DOMAIN m2 : WeaklyEquivalent(k, ks2[new[j]])
    <3>1. CASE ks2[new[j]] = key
      BY <2>1, <3>1, Equivalence
    <3>2. CASE \E p \in DOMAIN l : ks2[new[j]] = ks[l[p]]
      <4>1. PICK p \in DOMAIN l : ks2[new[j]] = ks[l[p]]
        BY <3>2
      <4>2. PICK k \in DOMAIN m : WeaklyEquivalent(k, ks[l[p]])
        BY <1>5
      <4>3. CASE WeaklyEquivalent(k, key)
        <5>1. WeaklyEquivalent(key, ks[l[p]])
          BY <1>2, <1>5, <4>2, <4>3, Equivalence
        <5> QED BY <2>1, <4>1, <5>1
      <4>4. CASE ~WeaklyEquivalent(k, key)
        BY <2>1, <4>1, <4>2, <4>4
      <4> QED BY <4>3, <4>4
    <3> QED BY <1>9, <3>1, <3>2
  <2>7. ASSUME NEW k \in DOMAIN m2, NEW q \in DOMAIN m2, WeaklyEquivalent(k, q)
        PROVE  k = q
    <3>1. WeaklyEquivalent(q, k)
      BY <2>3, <2>7, Equivalence
    <3> QED BY <1>5, <2>1, <2>7, <3>1
  <2> QED BY <2>3, <2>4, <2>5, <2>6, <2>7 DEF MapOK
<1>11. CASE low < up /\ i = up /\ m2 = m
  <2>1. i # low
    BY <1>2, <1>11
  <2>2. \A k \in DOMAIN m : FirstOf(new, ks2, m[k], k)
    BY <1>7, <2>1
  <2>3. ASSUME NEW j \in DOMAIN new
        PROVE  \E k \in DOMAIN m : WeaklyEquivalent(k, ks2[new[j]])
    <3>1. CASE ks2[new[j]] = key
      <4>1. low + 1 \in DOMAIN l /\ WeaklyEquivalent(ks[l[low + 1]], key)
            /\ ks[l[low + 1]] \in GroupKeys
        BY <1>1, <1>2, <1>11
      <4>2. PICK k \in DOMAIN m : WeaklyEquivalent(k, ks[l[low + 1]])
        BY <1>5, <4>1
      <4>3. WeaklyEquivalent(k, key)
        BY <1>5, <4>1, <4>2, Equivalence
      <4> QED BY <3>1, <4>3
    <3>2. CASE \E p \in DOMAIN l : ks2[new[j]] = ks[l[p]]
      BY <1>5, <3>2
    <3> QED BY <1>9, <3>1, <3>2
  <2>4. m = [k \in DOMAIN m |-> m[k]]
    BY DEF MapOK
  <2>5. MapOK(new, ks2, m)
    BY <1>5, <2>2, <2>3, <2>4 DEF MapOK
  <2> QED BY <1>11, <2>5
<1> QED BY <1>3, <1>10, <1>11

-----------------------------------------------------------------------------
(* Erasing nodes.                                                            *)

(* The list l without its positions from a + 1 to b. *)
Cut(l, a, b) == SubSeq(l, 1, a) \o SubSeq(l, b + 1, Len(l))

Shorter(new, l, a, b) ==
    /\ Len(new) = Len(l) - (b - a)
    /\ DOMAIN new = 1..Len(l) - (b - a)
    /\ \A j \in DOMAIN new : new[j] = IF j <= a THEN l[j] ELSE l[j + (b - a)]

LEMMA CutElements ==
  ASSUME NEW S, NEW l \in Seq(S), NEW a \in 0..Len(l), NEW b \in a..Len(l)
  PROVE  Cut(l, a, b) \in Seq(S) /\ Shorter(Cut(l, a, b), l, a, b)
<1> DEFINE front == SubSeq(l, 1, a)
           back  == SubSeq(l, b + 1, Len(l))
           new   == front \o back
<1>1. Len(l) \in Nat /\ a \in Nat /\ b \in Nat /\ a <= b /\ b <= Len(l)
  OBVIOUS
<1>2. front \in Seq(S) /\ Len(front) = a /\ \A j \in 1..a : front[j] = l[j]
  BY <1>1, SubSeqProperties
<1>3. /\ back \in Seq(S) /\ Len(back) = Len(l) - b
      /\ \A j \in 1..Len(l) - b : back[j] = l[b + j]
  <2>1. CASE b = Len(l)
    BY <1>1, <2>1
  <2>2. CASE b < Len(l)
    BY <1>1, <2>2, SubSeqProperties
  <2> QED BY <1>1, <2>1, <2>2
<1> HIDE DEF front, back
<1>4. /\ new \in Seq(S) /\ Len(new) = Len(front) + Len(back)
      /\ \A j \in 1..Len(front) + Len(back) :
            new[j] = IF j <= Len(front) THEN front[j] ELSE back[j - Len(front)]
  BY <1>2, <1>3, ConcatProperties
<1> HIDE DEF new
<1>5. Len(front) + Len(back) = Len(l) - (b - a)
  BY <1>1, <1>2, <1>3
<1>6. /\ new \in Seq(S) /\ Len(new) = Len(l) - (b - a)
      /\ DOMAIN new = 1..Len(l) - (b - a)
  BY <1>4, <1>5
<1>7. ASSUME NEW j \in DOMAIN new
      PROVE  new[j] = IF j <= a THEN l[j] ELSE l[j + (b - a)]
  <2>1. new[j] = IF j <= a THEN front[j] ELSE back[j - a]
    BY <1>2, <1>4, <1>5, <1>6
  <2>2. CASE j <= a
    <3>1. j \in 1..a
      BY <1>1, <1>6, <2>2
    <3>2. front[j] = l[j]
      BY <1>2, <3>1
    <3> QED BY <2>1, <2>2, <3>2
  <2>3. CASE j > a
    <3>1. j - a \in 1..Len(l) - b /\ b + (j - a) = j + (b - a)
      <4>1. j \in 1..Len(l) - (b - a)
        BY <1>6
      <4> QED BY <1>1, <2>3, <4>1
    <3>2. back[j - a] = l[j + (b - a)]
      BY <1>3, <3>1
    <3> QED BY <1>1, <1>6, <2>1, <2>3, <3>2
  <2> QED BY <1>1, <1>6, <2>2, <2>3
<1> QED BY <1>6, <1>7 DEF front, back, new, Cut, Shorter

(* The nodes of R lie side by side: erasing them one by one cuts them out. *)
LEMMA CutWithout ==
  ASSUME NEW S, NEW l \in Seq(S), NEW a \in 0..Len(l), NEW b \in a..Len(l),
         NEW R, \A j \in DOMAIN l : l[j] \in R <=> a < j /\ j <= b
  PROVE  Without(l, R) = Cut(l, a, b)
<1>1. /\ Len(l) \in Nat /\ DOMAIN l = 1..Len(l)
      /\ a \in Nat /\ b \in Nat /\ a <= b /\ b <= Len(l)
  OBVIOUS
<1> PICK K : K = {j \in DOMAIN l : l[j] \notin R}
  OBVIOUS
<1>2. K = (1..a) \cup (b + 1..Len(l))
  BY <1>1
<1>3. Without(l, R) = Restriction(l, K)
  BY DEF Without
<1>4. /\ IsFiniteSet(1..a) /\ Cardinality(1..a) = a
      /\ \A j \in Int : b <= j => /\ IsFiniteSet(b + 1..j)
                                  /\ Cardinality(b + 1..j) = j - b
  <2>1. IsFiniteSet(1..a) /\ Cardinality(1..a) = a
    BY <1>1, FS_Interval
  <2>2. ASSUME NEW j \in Int, b <= j
        PROVE  IsFiniteSet(b + 1..j) /\ Cardinality(b + 1..j) = j - b
    <3> PICK c \in Int : c = b + 1
      BY <1>1
    <3>1. IsFiniteSet(c..j) /\ Cardinality(c..j) = IF c > j THEN 0 ELSE j - c + 1
      BY FS_Interval
    <3> QED BY <1>1, <2>2, <3>1
  <2> QED BY <2>1, <2>2
<1>5. ASSUME NEW j \in Int, b <= j
      PROVE  Cardinality((1..a) \cup (b + 1..j)) = a + (j - b)
  <2> PICK A, B : A = 1..a /\ B = b + 1..j
    OBVIOUS
  <2>1. A \cap B = {}
    BY <1>1
  <2>2. /\ IsFiniteSet(A) /\ Cardinality(A) = a
        /\ IsFiniteSet(B) /\ Cardinality(B) = j - b
    BY <1>4, <1>5
  <2>3. Cardinality(A \cup B) = Cardinality(A) + Cardinality(B) - Cardinality(A \cap B)
    BY <2>2, FS_Union
  <2>4. Cardinality(A \cap B) = 0
    BY <2>1, FS_EmptySet
  <2>5. Cardinality(A \cup B) = a + (j - b)
    BY <1>1, <2>2, <2>3, <2>4
  <2> QED BY <2>5
<1>6. ASSUME NEW j \in K
      PROVE  Cardinality(AtMost(K, j)) = IF j <= a THEN j ELSE j - (b - a)
  <2>1. CASE j <= a
    <3>1. AtMost(K, j) = 1..j
      BY <1>1, <1>2, <2>1 DEF AtMost
    <3>2. j \in Int /\ ~(1 > j)
      BY <1>1, <1>2
    <3> QED BY <2>1, <3>1, <3>2, FS_Interval
  <2>2. CASE j > a
    <3>1. AtMost(K, j) = (1..a) \cup (b + 1..j)
      BY <1>1, <1>2, <2>2 DEF AtMost
    <3>2. j \in Int /\ b <= j
      BY <1>1, <1>2, <2>2
    <3>3. Cardinality(AtMost(K, j)) = a + (j - b)
      BY <1>5, <3>1, <3>2
    <3> QED BY <1>1, <2>2, <3>2, <3>3
  <2> QED BY <1>1, <1>2, <2>1, <2>2
<1>7. Cardinality(K) = Len(l) - (b - a)
  <2>1. Cardinality(K) = a + (Len(l) - b)
    BY <1>1, <1>2, <1>5
  <2> QED BY <1>1, <2>1
<1> PICK n : n = Len(l) - (b - a)
  OBVIOUS
<1>8. n \in Nat
  BY <1>1
<1>9. ASSUME NEW i \in 1..n
      PROVE  Restriction(l, K)[i] = IF i <= a THEN l[i] ELSE l[i + (b - a)]
  <2> DEFINE q == IF i <= a THEN i ELSE i + (b - a)
  <2>1. q \in K /\ Cardinality(AtMost(K, q)) = i
    <3>1. q \in K
      BY <1>1, <1>2, <1>8
    <3> QED BY <1>1, <1>6, <1>8, <3>1
  <2>2. ASSUME NEW j \in K, Cardinality(AtMost(K, j)) = i PROVE j = q
    <3>1. i = IF j <= a THEN j ELSE j - (b - a)
      BY <1>6, <2>2
    <3>2. j \in Nat /\ (j <= a \/ j > b)
      BY <1>1, <1>2
    <3>3. CASE j <= a
      BY <3>1, <3>3
    <3>4. CASE ~(j <= a)
      <4>1. i = j - (b - a) /\ j > b /\ i > a
        BY <1>1, <3>1, <3>2, <3>4
      <4> QED BY <1>1, <3>2, <4>1
    <3> QED BY <3>3, <3>4
  <2>3. (CHOOSE j \in K : Cardinality(AtMost(K, j)) = i) = q
    <3> HIDE DEF q
    <3> QED BY <2>1, <2>2
  <2>4. Restriction(l, K)[i] = l[CHOOSE j \in K : Cardinality(AtMost(K, j)) = i]
    BY <1>7 DEF Restriction, AtMost
  <2>5. Restriction(l, K)[i] = l[q]
    BY <2>3, <2>4
  <2> QED BY <1>8, <2>5
<1>10. /\ Restriction(l, K) \in Seq(S) /\ Len(Restriction(l, K)) = n
  <2>1. K \subseteq DOMAIN l
    OBVIOUS
  <2>2. /\ Restriction(l, K) \in Seq(S)
        /\ Len(Restriction(l, K)) = Cardinality(K)
    BY <2>1, RestrictionElement, Zenon
  <2> QED BY <1>7, <2>2
<1> PICK new : new = Cut(l, a, b)
  OBVIOUS
<1>11. new \in Seq(S) /\ Shorter(new, l, a, b)
  BY CutElements
<1>12. Restriction(l, K) = new
  <2>1. Len(new) = n /\ \A j \in 1..n : Restriction(l, K)[j] = new[j]
    BY <1>9, <1>11 DEF Shorter
  <2> QED BY <1>10, <1>11, <2>1, SeqEqual
<1> QED BY <1>3, <1>12

(* Cutting nothing. *)
LEMMA CutNothing ==
  ASSUME NEW S, NEW l \in Seq(S), NEW a \in 0..Len(l)
  PROVE  Cut(l, a, a) = l
<1> PICK new : new = Cut(l, a, a)
  OBVIOUS
<1>1. Len(l) \in Nat /\ a \in Nat /\ a \in a..Len(l) /\ DOMAIN l = 1..Len(l)
  OBVIOUS
<1>2. new \in Seq(S) /\ Shorter(new, l, a, a)
  BY <1>1, CutElements
<1>3. Len(new) = Len(l) /\ \A j \in 1..Len(new) : new[j] = l[j]
  BY <1>1, <1>2 DEF Shorter
<1> QED BY <1>2, <1>3, SeqEqual

(* An entry whose node is not cut out stays exact. *)
LEMMA KeptEntry ==
  ASSUME NEW l, NEW ks, ListOK(l, ks), NEW a \in 0..Len(l), NEW b \in a..Len(l),
         NEW k, NEW p \in DOMAIN l, p <= a \/ b < p,
         WeaklyEquivalent(ks[l[p]], k), \A j \in 1..p - 1 : j <= a \/ b < j => KeyLess(ks[l[j]], k)
  PROVE  FirstOf(Cut(l, a, b), ks, l[p], k)
<1>1. /\ l \in Seq(Nodes) /\ Len(l) \in Nat /\ DOMAIN l = 1..Len(l)
      /\ a \in Nat /\ b \in Nat /\ a <= b /\ b <= Len(l)
  BY DEF ListOK
<1> PICK new : new = Cut(l, a, b)
  OBVIOUS
<1>2. /\ DOMAIN new = 1..Len(l) - (b - a)
      /\ \A j \in DOMAIN new : new[j] = IF j <= a THEN l[j] ELSE l[j + (b - a)]
  <2>1. Shorter(new, l, a, b)
    BY <1>1, CutElements
  <2> QED BY <2>1 DEF Shorter
<1>3. PICK q \in DOMAIN new : /\ q = IF p <= a THEN p ELSE p - (b - a)
                              /\ p <= a => q <= a
                              /\ b < p => ~(q <= a) /\ q + (b - a) = p
  <2>1. CASE p <= a
    <3>1. p \in DOMAIN new
      BY <1>1, <1>2, <2>1
    <3> QED BY <1>1, <2>1, <3>1
  <2>2. CASE b < p
    <3>1. p - (b - a) \in DOMAIN new /\ ~(p - (b - a) <= a) /\ (p - (b - a)) + (b - a) = p
      BY <1>1, <1>2, <2>2
    <3> QED BY <1>1, <2>2, <3>1
  <2> QED BY <2>1, <2>2
<1>4. new[q] = l[p]
  BY <1>2, <1>3
<1>5. ASSUME NEW j \in 1..q - 1 PROVE KeyLess(ks[new[j]], k)
  <2>1. j \in DOMAIN new
    BY <1>1, <1>2, <1>3
  <2>2. CASE j <= a
    <3>1. j \in 1..p - 1
      BY <1>1, <1>2, <1>3, <2>2
    <3> QED BY <1>2, <2>1, <2>2, <3>1
  <2>3. CASE j > a
    <3>1. j + (b - a) \in 1..p - 1 /\ b < j + (b - a) /\ ~(j <= a)
      BY <1>1, <1>2, <1>3, <2>3
    <3> QED BY <1>2, <2>1, <2>3, <3>1
  <2> QED BY <1>1, <1>2, <2>1, <2>2, <2>3
<1> QED BY <1>4, <1>5 DEF FirstOf

(* The entries stay exact when some nodes of a group are cut out, or all. *)
LEMMA CutMap ==
  ASSUME NEW l, NEW ks, NEW m, ListOK(l, ks), MapOK(l, ks, m), NEW key \in GroupKeys,
         NEW e \in DOMAIN m, WeaklyEquivalent(key, e),
         NEW a \in 0..Len(l), NEW b \in a..Len(l),
         Low(l, ks, key) <= a, a < b, b <= Up(l, ks, key),
         NEW m2, \/ /\ a = Low(l, ks, key) /\ b = Up(l, ks, key)
                    /\ m2 = map_erase(m, e)
                 \/ Low(l, ks, key) < a /\ m2 = m
                 \/ /\ a = Low(l, ks, key) /\ b < Up(l, ks, key)
                    /\ m2 = map_set(m, e, l[b + 1])
  PROVE  MapOK(Cut(l, a, b), ks, m2)
<1> PICK low, up : low = Low(l, ks, key) /\ up = Up(l, ks, key)
  OBVIOUS
<1>1. /\ l \in Seq(Nodes) /\ Len(l) \in Nat /\ DOMAIN l = 1..Len(l)
      /\ a \in Nat /\ b \in Nat /\ a < b /\ b <= Len(l)
  BY DEF ListOK
<1>2. /\ low \in 0..Len(l) /\ up \in 0..Len(l) /\ low <= up
      /\ \A j \in DOMAIN l :
            /\ ks[l[j]] \in GroupKeys
            /\ KeyLess(ks[l[j]], key) <=> j <= low
            /\ WeaklyEquivalent(ks[l[j]], key) <=> low < j /\ j <= up
  BY Bounds, Zenon
<1>3. /\ low <= a /\ b <= up
      /\ \/ a = low /\ b = up /\ m2 = map_erase(m, e)
         \/ low < a /\ m2 = m
         \/ a = low /\ b < up /\ m2 = map_set(m, e, l[b + 1])
  OBVIOUS
<1>4. /\ DOMAIN m \subseteq GroupKeys
      /\ \A k \in DOMAIN m : FirstOf(l, ks, m[k], k)
      /\ \A j \in DOMAIN l : \E k \in DOMAIN m : WeaklyEquivalent(k, ks[l[j]])
      /\ \A k, q \in DOMAIN m : WeaklyEquivalent(k, q) => k = q
      /\ m = [k \in DOMAIN m |-> m[k]]
  BY DEF MapOK
<1> PICK new : new = Cut(l, a, b)
  OBVIOUS
<1>5. Shorter(new, l, a, b)
  BY <1>1, CutElements
<1>6. \A j \in DOMAIN l : /\ KeyLess(ks[l[j]], e) <=> j <= low
                          /\ WeaklyEquivalent(ks[l[j]], e) <=> low < j /\ j <= up
  <2> SUFFICES ASSUME NEW j \in DOMAIN l
               PROVE  /\ KeyLess(ks[l[j]], e) <=> KeyLess(ks[l[j]], key)
                      /\ WeaklyEquivalent(ks[l[j]], e) <=> WeaklyEquivalent(ks[l[j]], key)
    BY <1>2
  <2> QED BY <1>2, <1>4, Equivalence
\* The entries of other groups, and of this one if its first node stays.
<1>7. ASSUME NEW k \in DOMAIN m, k # e \/ low < a
      PROVE  FirstOf(new, ks, m[k], k)
  <2>1. PICK p \in DOMAIN l : /\ l[p] = m[k] /\ WeaklyEquivalent(ks[l[p]], k)
                              /\ \A j \in 1..p - 1 : KeyLess(ks[l[j]], k)
    BY <1>4 DEF FirstOf
  <2>2. p <= a \/ b < p
    <3>1. CASE k # e
      <4>1. ~WeaklyEquivalent(ks[l[p]], e)
        <5> SUFFICES ASSUME WeaklyEquivalent(ks[l[p]], e) PROVE FALSE
          OBVIOUS
        <5>1. WeaklyEquivalent(k, e)
          BY <1>2, <1>4, <2>1, Equivalence
        <5> QED BY <1>4, <3>1, <5>1
      <4> QED BY <1>1, <1>2, <1>3, <1>6, <4>1
    <3>2. CASE k = e /\ low < a
      <4>1. low < p /\ p <= up
        BY <1>6, <2>1, <3>2
      <4>2. ~(low + 1 < p)
        <5> SUFFICES ASSUME low + 1 < p PROVE FALSE
          OBVIOUS
        <5>1. low + 1 \in 1..p - 1 /\ low + 1 \in DOMAIN l
          BY <1>1, <1>2
        <5>2. low + 1 <= low
          BY <1>6, <2>1, <3>2, <5>1
        <5> QED BY <1>2, <5>2
      <4> QED BY <1>1, <1>2, <3>2, <4>1, <4>2
    <3> QED BY <1>7, <3>1, <3>2
  <2>3. FirstOf(new, ks, l[p], k)
    BY <2>1, <2>2, KeptEntry
  <2> QED BY <2>1, <2>3
\* The entry of this group, which moves if its node goes and others stay.
<1>8. ASSUME a = low, b < up
      PROVE  FirstOf(new, ks, l[b + 1], e)
  <2>1. b + 1 \in DOMAIN l /\ b < b + 1 /\ WeaklyEquivalent(ks[l[b + 1]], e)
    BY <1>1, <1>2, <1>6, <1>8
  <2>2. ASSUME NEW j \in 1..(b + 1) - 1, j <= a \/ b < j PROVE KeyLess(ks[l[j]], e)
    <3>1. j \in DOMAIN l /\ j <= low
      BY <1>1, <1>8, <2>2
    <3> QED BY <1>6, <3>1
  <2> PICK p \in DOMAIN l : p = b + 1
    BY <2>1
  <2>3. FirstOf(new, ks, l[p], e)
    BY <2>1, <2>2, KeptEntry
  <2> QED BY <2>3
<1>9. ASSUME NEW j \in DOMAIN new
      PROVE  \E q \in DOMAIN l : new[j] = l[q] /\ (q <= a \/ b < q)
  <2>1. j \in 1..Len(l) - (b - a) /\ new[j] = IF j <= a THEN l[j] ELSE l[j + (b - a)]
    BY <1>5 DEF Shorter
  <2>2. CASE j <= a
    BY <1>1, <2>1, <2>2
  <2>3. CASE j > a
    <3>1. j + (b - a) \in DOMAIN l /\ b < j + (b - a) /\ ~(j <= a)
      BY <1>1, <2>1, <2>3
    <3> QED BY <2>1, <3>1
  <2> QED BY <1>1, <2>1, <2>2, <2>3
<1>10. CASE a = low /\ b = up /\ m2 = map_erase(m, e)
  <2>1. /\ DOMAIN m2 = DOMAIN m \ {e} /\ m2 = [k \in DOMAIN m2 |-> m2[k]]
        /\ \A k \in DOMAIN m2 : m2[k] = m[k]
    BY <1>10 DEF map_erase
  <2>2. \A k \in DOMAIN m2 : FirstOf(new, ks, m2[k], k)
    BY <1>7, <2>1
  <2>3. ASSUME NEW j \in DOMAIN new
        PROVE  \E k \in DOMAIN m2 : WeaklyEquivalent(k, ks[new[j]])
    <3>1. PICK q \in DOMAIN l : new[j] = l[q] /\ (q <= a \/ b < q)
      BY <1>9
    <3>2. PICK k \in DOMAIN m : WeaklyEquivalent(k, ks[l[q]])
      BY <1>4
    <3>3. k # e
      <4> SUFFICES ASSUME k = e PROVE FALSE
        OBVIOUS
      <4>1. WeaklyEquivalent(ks[l[q]], e)
        BY <1>2, <1>4, <3>2, Equivalence
      <4> QED BY <1>1, <1>2, <1>6, <1>10, <3>1, <4>1
    <3> QED BY <2>1, <3>1, <3>2, <3>3
  <2>4. DOMAIN m2 \subseteq GroupKeys /\ \A k, q \in DOMAIN m2 : WeaklyEquivalent(k, q) => k = q
    BY <1>4, <2>1
  <2> QED BY <2>1, <2>2, <2>3, <2>4 DEF MapOK
<1>11. CASE low < a /\ m2 = m
  <2>1. \A k \in DOMAIN m : FirstOf(new, ks, m[k], k)
    BY <1>7, <1>11
  <2>2. \A j \in DOMAIN new : \E k \in DOMAIN m : WeaklyEquivalent(k, ks[new[j]])
    BY <1>4, <1>9
  <2>3. MapOK(new, ks, m)
    BY <1>4, <2>1, <2>2 DEF MapOK
  <2> QED BY <1>11, <2>3
<1>12. CASE a = low /\ b < up /\ m2 = map_set(m, e, l[b + 1])
  <2>1. /\ DOMAIN m2 = DOMAIN m /\ m2 = [k \in DOMAIN m2 |-> m2[k]]
        /\ \A k \in DOMAIN m2 : m2[k] = IF k = e THEN l[b + 1] ELSE m[k]
    <3> PICK first : first = l[b + 1]
      OBVIOUS
    <3>1. DOMAIN m \cup {e} = DOMAIN m
      OBVIOUS
    <3>2. m2 = [k \in DOMAIN m |-> IF k = e THEN first ELSE m[k]]
      BY <1>12, <3>1 DEF map_set
    <3> QED BY <3>2
  <2>2. \A k \in DOMAIN m2 : FirstOf(new, ks, m2[k], k)
    BY <1>7, <1>8, <1>12, <2>1
  <2>3. \A j \in DOMAIN new : \E k \in DOMAIN m2 : WeaklyEquivalent(k, ks[new[j]])
    BY <1>4, <1>9, <2>1
  <2>4. DOMAIN m2 \subseteq GroupKeys /\ \A k, q \in DOMAIN m2 : WeaklyEquivalent(k, q) => k = q
    BY <1>4, <2>1
  <2> QED BY <2>1, <2>2, <2>3, <2>4 DEF MapOK
<1> QED BY <1>3, <1>10, <1>11, <1>12

LEMMA CutList ==
  ASSUME NEW l, NEW ks, ListOK(l, ks), NEW a \in 0..Len(l), NEW b \in a..Len(l)
  PROVE  /\ ListOK(Cut(l, a, b), ks)
         /\ Without(l, {l[j] : j \in a + 1..b}) = Cut(l, a, b)
<1>1. /\ l \in Seq(Nodes) /\ Unrepeated(l) /\ ks \in [Nodes -> GroupKeys] /\ Sorted(l, ks)
      /\ Len(l) \in Nat /\ DOMAIN l = 1..Len(l)
  BY DEF ListOK
<1> PICK R : R = {l[j] : j \in a + 1..b}
  OBVIOUS
<1>2. \A j \in DOMAIN l : l[j] \in R <=> a < j /\ j <= b
  <2>1. ASSUME NEW j \in DOMAIN l, l[j] \in R PROVE a < j /\ j <= b
    <3>1. PICK i \in a + 1..b : l[i] = l[j]
      BY <2>1
    <3>2. i \in DOMAIN l
      BY <1>1
    <3>3. i = j
      BY <1>1, <3>1, <3>2 DEF Unrepeated
    <3> QED BY <3>3
  <2>2. ASSUME NEW j \in DOMAIN l, a < j, j <= b PROVE l[j] \in R
    <3>1. j \in a + 1..b
      BY <1>1, <2>2
    <3> QED BY <3>1
  <2> QED BY <2>1, <2>2
<1>3. Without(l, R) = Cut(l, a, b)
  BY <1>1, <1>2, CutWithout
<1>4. /\ Without(l, R) \in Seq(Nodes) /\ Unrepeated(Without(l, R))
      /\ Sorted(Without(l, R), ks)
  BY <1>1, WithoutType, WithoutKeepsOrder
<1>5. ListOK(Cut(l, a, b), ks)
  BY <1>1, <1>3, <1>4 DEF ListOK
<1> QED BY <1>3, <1>5

-----------------------------------------------------------------------------
(* The operations.                                                           *)

LEMMA FrontPlace ==
  ASSUME MapOK(list, keyOf, group_map), NEW key \in GroupKeys
  PROVE  front_place(key) = map_lower_bound(group_map, key)
<1>1. CASE key.meta = front_ungrouped_slots
  <2>1. ASSUME NEW k \in DOMAIN group_map PROVE ~KeyLess(k, key)
    <3>1. k \in GroupKeys
      BY DEF MapOK
    <3> QED BY <1>1, <3>1
        DEF KeyLess, GroupKeys, FrontKey, BackKey, GroupKey, front_ungrouped_slots,
            grouped_slots, back_ungrouped_slots
  <2>2. {k \in DOMAIN group_map : ~KeyLess(k, key)} = DOMAIN group_map
    BY <2>1
  <2> QED BY <1>1, <2>2, Zenon DEF front_place, map_lower_bound
<1>2. CASE key.meta # front_ungrouped_slots
  BY <1>2 DEF front_place
<1> QED BY <1>1, <1>2

LEMMA BackPlace ==
  ASSUME MapOK(list, keyOf, group_map), NEW key \in GroupKeys
  PROVE  back_place(key) = map_upper_bound(group_map, key)
<1>1. CASE key.meta = back_ungrouped_slots
  <2>1. ASSUME NEW k \in DOMAIN group_map PROVE ~KeyLess(key, k)
    <3>1. k \in GroupKeys
      BY DEF MapOK
    <3> QED BY <1>1, <3>1
        DEF KeyLess, GroupKeys, FrontKey, BackKey, GroupKey, front_ungrouped_slots,
            grouped_slots, back_ungrouped_slots
  <2>2. {k \in DOMAIN group_map : KeyLess(key, k)} = {}
    BY <2>1
  <2>3. map_upper_bound(group_map, key) = End
    BY <2>2 DEF map_upper_bound, FirstKey
  <2> QED BY <1>1, <2>3 DEF back_place
<1>2. CASE key.meta # back_ungrouped_slots
  BY <1>2 DEF back_place
<1> QED BY <1>1, <1>2

(* connect at the front and at the back. *)
LEMMA PushStep ==
  ASSUME SameClasses, IInv, NEW n \in Nodes, NEW key \in GroupKeys
  PROVE  /\ push_front(key, n) =>
               IInv' /\ list' = Inserted(list, keyOf', n, "at_front")
         /\ push_back(key, n) =>
               IInv' /\ list' = Inserted(list, keyOf', n, "at_back")
<1> PICK low, up, ks2 : /\ low = Low(list, keyOf, key) /\ up = Up(list, keyOf, key)
                        /\ ks2 = Rekeyed(keyOf, n, key)
  OBVIOUS
<1>1. ListOK(list, keyOf) /\ MapOK(list, keyOf, group_map)
  BY DEF IInv
<1>2. low \in 0..Len(list) /\ up \in 0..Len(list) /\ low <= up /\ Len(list) \in Nat
  <2>1. low \in 0..Len(list) /\ up \in 0..Len(list) /\ low <= up
    BY <1>1, Bounds, Zenon
  <2> QED BY <1>1, <2>1 DEF ListOK
<1>3. ASSUME n \notin ToSet(list)
      PROVE  ks2[n] = key /\ \A j \in DOMAIN list : ks2[list[j]] = keyOf[list[j]]
  BY <1>1, <1>3, NewKey
<1>4. ASSUME push_front(key, n)
      PROVE  IInv' /\ list' = Inserted(list, keyOf', n, "at_front")
  <2> PICK new, m2 : new = list' /\ m2 = group_map'
    OBVIOUS
  <2>1. n \notin ToSet(list) /\ keyOf' = ks2
    BY <1>4 DEF push_front, m_insert, Rekeyed
  <2>2. front_place(key) = map_lower_bound(group_map, key)
    BY <1>1, FrontPlace
  <2>3. /\ get_list_iterator(group_map, map_lower_bound(group_map, key)) = NodeAt(list, low + 1)
        /\ m_insert_map(group_map, map_lower_bound(group_map, key), key, n)
              = Led(group_map, key, n)
    <3>1. get_list_iterator(group_map, map_lower_bound(group_map, key)) = NodeAt(list, low + 1)
      BY <1>1, MapLowerBound, Zenon
    <3>2. m_insert_map(group_map, map_lower_bound(group_map, key), key, n)
             = Led(group_map, key, n)
      BY <1>1, EntryMap
    <3> QED BY <3>1, <3>2
  <2>4. new = list_insert(list, NodeAt(list, low + 1), n) /\ m2 = Led(group_map, key, n)
    BY <1>4, <2>2, <2>3 DEF push_front, m_insert
  <2>5. "at_front" \in Positions /\ "at_front" # "at_back"
    BY DEF Positions
  <2>6. /\ new = Inserted(list, ks2, n, "at_front")
        /\ Entered(new, list, n, low) /\ ListOK(new, ks2)
    BY <1>1, <2>1, <2>4, <2>5, InsertedHere
  <2>7. MapOK(new, ks2, m2)
    BY <1>1, <1>3, <2>1, <2>4, <2>6, EnteredMap
  <2> QED BY <2>1, <2>6, <2>7 DEF IInv
<1>5. ASSUME push_back(key, n)
      PROVE  IInv' /\ list' = Inserted(list, keyOf', n, "at_back")
  <2> PICK new, m2, ub : /\ new = list' /\ m2 = group_map'
                         /\ ub = map_upper_bound(group_map, key)
    OBVIOUS
  <2>1. n \notin ToSet(list) /\ keyOf' = ks2
    BY <1>5 DEF push_back, m_insert, Rekeyed
  <2>2. back_place(key) = ub
    BY <1>1, BackPlace
  <2>3. /\ get_list_iterator(group_map, ub) = NodeAt(list, up + 1)
        /\ ub # End => ub \in DOMAIN group_map /\ KeyLess(key, ub)
    BY <1>1, MapUpperBound, Zenon
  <2>4. m_insert_map(group_map, ub, key, n) = IF low < up THEN group_map ELSE Led(group_map, key, n)
    <3>1. m_insert_map(group_map, ub, key, n) =
             IF Low(list, keyOf, key) < Up(list, keyOf, key) THEN group_map
                                                            ELSE Led(group_map, key, n)
      BY <1>1, <2>3, EntryMap
    <3> QED BY <3>1
  <2>5. /\ new = list_insert(list, NodeAt(list, up + 1), n)
        /\ m2 = IF low < up THEN group_map ELSE Led(group_map, key, n)
    BY <1>5, <2>2, <2>3, <2>4 DEF push_back, m_insert
  <2>6. "at_back" \in Positions
    BY DEF Positions
  <2>7. /\ new = Inserted(list, ks2, n, "at_back")
        /\ Entered(new, list, n, up) /\ ListOK(new, ks2)
    BY <1>1, <2>1, <2>5, <2>6, InsertedHere
  <2>8. \/ up = low /\ m2 = Led(group_map, key, n)
        \/ low < up /\ up = up /\ m2 = group_map
    BY <1>2, <2>5
  <2>9. MapOK(new, ks2, m2)
    BY <1>1, <1>3, <2>1, <2>7, <2>8, EnteredMap
  <2> QED BY <2>1, <2>7, <2>9 DEF IInv
<1> QED BY <1>4, <1>5

(* disconnect(group) *)
LEMMA EraseGroupStep ==
  ASSUME IInv, NEW key \in GroupKeys, erase_group(key)
  PROVE  /\ IInv' /\ keyOf' = keyOf
         /\ list' = Without(list, {n \in ToSet(list) : WeaklyEquivalent(keyOf[n], key)})
<1> PICK low, up, lb, R :
        /\ low = Low(list, keyOf, key) /\ up = Up(list, keyOf, key)
        /\ lb = map_lower_bound(group_map, key)
        /\ R = {n \in ToSet(list) : WeaklyEquivalent(keyOf[n], key)}
  OBVIOUS
<1>1. ListOK(list, keyOf) /\ MapOK(list, keyOf, group_map)
  BY DEF IInv
<1>2. /\ list \in Seq(Nodes) /\ Unrepeated(list) /\ End \notin Nodes
      /\ Len(list) \in Nat /\ DOMAIN list = 1..Len(list)
  BY <1>1, EndAssumption DEF ListOK
<1>3. /\ low \in 0..Len(list) /\ up \in 0..Len(list) /\ low <= up
      /\ \A j \in DOMAIN list :
            WeaklyEquivalent(keyOf[list[j]], key) <=> low < j /\ j <= up
  BY <1>1, Bounds, Zenon
<1>4. /\ get_list_iterator(group_map, lb) = NodeAt(list, low + 1)
      /\ lb # End => lb \in DOMAIN group_map
      /\ lb # End /\ WeaklyEquivalent(key, lb) <=> low < up
  BY <1>1, MapLowerBound, Zenon
<1>5. upper_bound(group_map, key) = NodeAt(list, up + 1)
  BY <1>1, MapUpperBound, Zenon DEF upper_bound
<1>6. low + 1 \in 1..Len(list) + 1 /\ up + 1 \in 1..Len(list) + 1
  BY <1>2, <1>3
<1>7. /\ Index(list, NodeAt(list, low + 1)) = low + 1
      /\ Index(list, NodeAt(list, up + 1)) = up + 1
  BY <1>2, <1>6, IndexUnique
<1> PICK from, to : from = NodeAt(list, low + 1) /\ to = NodeAt(list, up + 1)
  OBVIOUS
<1>8. /\ keyOf' = keyOf
      /\ from = to => list' = list /\ group_map' = group_map
      /\ from # to => /\ list' = SubSeq(list, 1, Index(list, from) - 1)
                                    \o SubSeq(list, Index(list, to), Len(list))
                      /\ group_map' = map_erase(group_map, lb)
  BY <1>4, <1>5 DEF erase_group
<1>9. from = to <=> low = up
  <2>1. from = to => low + 1 = up + 1
    BY <1>7
  <2> QED BY <1>3, <2>1
<1>10. \A j \in DOMAIN list : list[j] \in R <=> low < j /\ j <= up
  BY <1>3 DEF ToSet
<1>11. up \in low..Len(list)
  BY <1>2, <1>3
<1>12. Without(list, R) = Cut(list, low, up)
  BY <1>2, <1>3, <1>10, <1>11, CutWithout
<1>13. CASE low = up
  <2>1. Cut(list, low, up) = list
    BY <1>2, <1>3, <1>13, CutNothing
  <2>2. list' = list /\ group_map' = group_map
    BY <1>8, <1>9, <1>13
  <2> QED BY <1>1, <1>8, <1>12, <2>1, <2>2 DEF IInv
<1>14. CASE low < up
  <2>1. /\ list' = SubSeq(list, 1, Index(list, from) - 1)
                      \o SubSeq(list, Index(list, to), Len(list))
        /\ group_map' = map_erase(group_map, lb)
    <3>1. low # up
      BY <1>3, <1>14
    <3>2. from # to
      BY <1>9, <3>1
    <3> QED BY <1>8, <3>2
  <2>2. (low + 1) - 1 = low
    BY <1>3
  <2>3. list' = Cut(list, low, up)
    BY <1>7, <2>1, <2>2 DEF Cut
  <2>4. lb \in DOMAIN group_map /\ WeaklyEquivalent(key, lb)
    BY <1>4, <1>14
  <2>5. MapOK(Cut(list, low, up), keyOf, map_erase(group_map, lb))
    BY <1>1, <1>3, <1>11, <1>14, <2>4, CutMap
  <2>6. ListOK(Cut(list, low, up), keyOf)
    BY <1>1, <1>3, <1>11, CutList
  <2> QED BY <1>8, <1>12, <2>1, <2>3, <2>5, <2>6 DEF IInv
<1> QED BY <1>3, <1>13, <1>14

(* The slot of one node is erased. *)
LEMMA EraseStep ==
  ASSUME IInv, NEW n \in Nodes, erase(n)
  PROVE  /\ IInv' /\ keyOf' = keyOf /\ n \in ToSet(list)
         /\ list' = Without(list, {n})
<1>1. ListOK(list, keyOf) /\ MapOK(list, keyOf, group_map)
  BY DEF IInv
<1>2. /\ list \in Seq(Nodes) /\ Unrepeated(list) /\ End \notin Nodes
      /\ Len(list) \in Nat /\ DOMAIN list = 1..Len(list)
      /\ keyOf \in [Nodes -> GroupKeys]
  BY <1>1, EndAssumption DEF ListOK
<1>3. /\ n \in ToSet(list) /\ keyOf' = keyOf
      /\ list' = RemoveAt(list, Index(list, n))
      /\ group_map' = erase_map(group_map, list, keyOf[n], n)
  BY DEF erase
<1> PICK b : b = Index(list, n)
  OBVIOUS
<1>4. b \in DOMAIN list /\ list[b] = n
  BY <1>2, <1>3, IndexExists
<1> PICK a : a = b - 1
  OBVIOUS
<1>5. a \in 0..Len(list) /\ b \in a..Len(list) /\ a < b /\ b = a + 1
  BY <1>2, <1>4
<1> PICK key \in GroupKeys : key = keyOf[n]
  BY <1>2
<1> PICK low, up, lb :
        /\ low = Low(list, keyOf, key) /\ up = Up(list, keyOf, key)
        /\ lb = map_lower_bound(group_map, key)
  OBVIOUS
<1>6. /\ low \in 0..Len(list) /\ up \in 0..Len(list) /\ low <= up
      /\ \A j \in DOMAIN list :
            WeaklyEquivalent(keyOf[list[j]], key) <=> low < j /\ j <= up
  BY <1>1, Bounds, Zenon
<1>7. low < b /\ b <= up /\ low <= a
  <2>1. WeaklyEquivalent(keyOf[list[b]], key)
    BY <1>4, Equivalence
  <2>2. low < b /\ b <= up
    BY <1>4, <1>6, <2>1
  <2> QED BY <1>2, <1>4, <1>6, <2>2
<1>8. /\ get_list_iterator(group_map, lb) = NodeAt(list, low + 1)
      /\ lb # End => lb \in DOMAIN group_map
      /\ lb # End /\ WeaklyEquivalent(key, lb) <=> low < up
  BY <1>1, MapLowerBound, Zenon
<1>9. lb # End /\ lb \in DOMAIN group_map /\ WeaklyEquivalent(key, lb)
  BY <1>2, <1>4, <1>6, <1>7, <1>8
<1>10. low + 1 \in DOMAIN list /\ group_map[lb] = list[low + 1]
  <2>1. low + 1 \in DOMAIN list
    BY <1>2, <1>4, <1>6, <1>7
  <2> QED BY <1>8, <1>9, <2>1 DEF get_list_iterator, NodeAt
<1>11. group_map[lb] = n <=> a = low
  <2>1. list[low + 1] = list[b] <=> low + 1 = b
    BY <1>2, <1>4, <1>6, <1>10 DEF Unrepeated
  <2> QED BY <1>4, <1>5, <1>6, <1>10, <2>1
<1>12. upper_bound(group_map, key) = NodeAt(list, up + 1)
  BY <1>1, MapUpperBound, Zenon DEF upper_bound
<1>13. b + 1 \in 1..Len(list) + 1 /\ up + 1 \in 1..Len(list) + 1
  BY <1>2, <1>4, <1>6
<1>14. NodeAt(list, b + 1) = NodeAt(list, up + 1) <=> b = up
  <2>1. /\ Index(list, NodeAt(list, b + 1)) = b + 1
        /\ Index(list, NodeAt(list, up + 1)) = up + 1
    BY <1>2, <1>13, IndexUnique
  <2>2. NodeAt(list, b + 1) = NodeAt(list, up + 1) => b + 1 = up + 1
    BY <2>1
  <2> QED BY <1>2, <1>4, <1>6, <2>2
<1>15. Successor(list, n) = NodeAt(list, b + 1)
  BY DEF Successor
<1>16. \/ a = low /\ b = up /\ group_map' = map_erase(group_map, lb)
       \/ low < a /\ group_map' = group_map
       \/ a = low /\ b < up /\ group_map' = map_set(group_map, lb, list[b + 1])
  <2>0. map_assign(group_map, key, NodeAt(list, b + 1))
           = map_set(group_map, lb, NodeAt(list, b + 1))
    <3>1. \A k \in DOMAIN group_map : k \in GroupKeys
      BY <1>1 DEF MapOK
    <3>2. WeaklyEquivalent(lb, key)
      BY <1>9, <3>1, Equivalence
    <3>3. ASSUME NEW k \in DOMAIN group_map, WeaklyEquivalent(k, key) PROVE k = lb
      <4>1. WeaklyEquivalent(k, lb)
        BY <1>9, <3>1, <3>3, Equivalence
      <4> QED BY <1>1, <1>9, <4>1 DEF MapOK
    <3>4. EntriesOf(group_map, key) = {lb}
      BY <1>9, <3>2, <3>3 DEF EntriesOf
    <3> QED BY <3>4 DEF map_assign
  <2>1. group_map' =
           IF group_map[lb] # n THEN group_map
           ELSE IF NodeAt(list, b + 1) # NodeAt(list, up + 1)
                THEN map_set(group_map, lb, NodeAt(list, b + 1))
                ELSE map_erase(group_map, lb)
    BY <1>3, <1>12, <1>15, <2>0, Zenon DEF erase_map
  <2>2. CASE a # low
    BY <1>5, <1>6, <1>7, <1>11, <2>1, <2>2
  <2>3. CASE a = low /\ b = up
    BY <1>11, <1>14, <2>1, <2>3
  <2>4. CASE a = low /\ b < up
    <3>1. b # up /\ b + 1 \in DOMAIN list
      BY <1>2, <1>4, <1>6, <2>4
    <3>2. NodeAt(list, b + 1) = list[b + 1]
      BY <3>1 DEF NodeAt
    <3> QED BY <1>11, <1>14, <2>1, <2>4, <3>1, <3>2
  <2> QED BY <1>2, <1>4, <1>6, <1>7, <2>2, <2>3, <2>4
<1>17. list' = Cut(list, a, b)
  BY <1>3, <1>5, Zenon DEF RemoveAt, Cut
<1>18. MapOK(Cut(list, a, b), keyOf, group_map')
  BY <1>1, <1>5, <1>6, <1>7, <1>9, <1>16, CutMap
<1>19. /\ ListOK(Cut(list, a, b), keyOf)
       /\ Without(list, {list[j] : j \in a + 1..b}) = Cut(list, a, b)
  BY <1>1, <1>5, CutList
<1>20. {list[j] : j \in a + 1..b} = {n}
  <2>1. a + 1..b = {b}
    BY <1>2, <1>4, <1>5
  <2> QED BY <1>4, <2>1
<1> QED BY <1>3, <1>17, <1>18, <1>19, <1>20 DEF IInv

(* The copy constructor's map has the same entries, in the copied list. *)
LEMMA CopyStep ==
  ASSUME IInv, copy
  PROVE  list' = list /\ keyOf' = keyOf /\ group_map' = group_map
<1>1. ListOK(list, keyOf) /\ MapOK(list, keyOf, group_map)
  BY DEF IInv
<1>2. /\ list \in Seq(Nodes) /\ Unrepeated(list) /\ End \notin Nodes
      /\ Len(list) \in Nat /\ DOMAIN list = 1..Len(list)
  BY <1>1, EndAssumption DEF ListOK
<1> DEFINE place(k) == Low(list, keyOf, k)
<1>3. \A k \in DOMAIN group_map : /\ place(k) \in Nat /\ place(k) + 1 \in DOMAIN list
                                  /\ group_map[k] = list[place(k) + 1]
  BY <1>1, Entries
<1>4. \A k \in DOMAIN group_map : Index(list, group_map[k]) = place(k) + 1
  <2> SUFFICES ASSUME NEW k \in DOMAIN group_map
               PROVE  Index(list, group_map[k]) = place(k) + 1
    OBVIOUS
  <2> PICK i \in DOMAIN list : i = place(k) + 1 /\ group_map[k] = list[i]
    BY <1>3
  <2>1. i \in 1..Len(list) + 1 /\ NodeAt(list, i) = list[i]
    BY <1>2 DEF NodeAt
  <2> QED BY <1>2, <2>1, IndexUnique
<1> PICK f : f = FirstKey(DOMAIN group_map)
  OBVIOUS
<1>5. ASSUME NEW k \in DOMAIN group_map
      PROVE  NodeAt(list, 1 + Index(list, group_map[k]) - Index(list, group_map[f]))
                = group_map[k]
  <2>1. 0 < Len(list) /\ 0 \in 0..Len(list)
    BY <1>2, <1>3
  <2>2. DOMAIN group_map = {q \in DOMAIN group_map : 0 <= Low(list, keyOf, q)}
    BY <1>3
  <2>3. /\ get_list_iterator(group_map, f) = NodeAt(list, 0 + 1)
        /\ f \in DOMAIN group_map /\ f # End
    BY <1>1, <2>1, <2>2, FirstFrom
  <2>4. group_map[f] = NodeAt(list, 1)
    BY <2>3 DEF get_list_iterator
  <2>5. Index(list, group_map[f]) = 1
    BY <1>2, <2>1, <2>4, IndexUnique
  <2>6. 1 + Index(list, group_map[k]) - Index(list, group_map[f]) = place(k) + 1
    BY <1>3, <1>4, <2>5
  <2> QED BY <1>3, <2>6 DEF NodeAt
<1>6. group_map = [k \in DOMAIN group_map |-> group_map[k]]
  BY <1>1 DEF MapOK
<1>7. group_map' = [k \in DOMAIN group_map |->
          NodeAt(list, 1 + Index(list, group_map[k]) - Index(list, group_map[f]))]
  BY DEF copy, copied_map
<1> HIDE DEF place
<1>8. group_map' = group_map
  BY <1>5, <1>6, <1>7
<1> QED BY <1>8 DEF copy

-----------------------------------------------------------------------------
(* The theorems.                                                             *)

LEMMA InitIInv == Init => IInv
<1> SUFFICES ASSUME Init PROVE IInv
  OBVIOUS
<1>1. list = << >> /\ group_map = EmptyMap /\ keyOf = [n \in Nodes |-> BackKey]
  BY DEF Init
<1>2. BackKey \in GroupKeys
  BY DEF GroupKeys
<1>3. ListOK(list, keyOf)
  BY <1>1, <1>2 DEF ListOK, Unrepeated, Sorted
<1>4. DOMAIN group_map = {} /\ group_map = [k \in DOMAIN group_map |-> group_map[k]]
  BY <1>1 DEF EmptyMap
<1>5. MapOK(list, keyOf, group_map)
  BY <1>1, <1>4 DEF MapOK
<1> QED BY <1>3, <1>5 DEF IInv

LEMMA ClearStep ==
  ASSUME IInv, clear
  PROVE  IInv'
<1>1. list' = << >> /\ group_map' = EmptyMap /\ keyOf' = keyOf
  BY DEF clear
<1>2. keyOf \in [Nodes -> GroupKeys]
  BY DEF IInv, ListOK
<1>3. ListOK(list', keyOf')
  BY <1>1, <1>2 DEF ListOK, Unrepeated, Sorted
<1>4. DOMAIN group_map' = {} /\ group_map' = [k \in DOMAIN group_map' |-> group_map'[k]]
  BY <1>1 DEF EmptyMap
<1>5. MapOK(list', keyOf', group_map')
  BY <1>1, <1>4 DEF MapOK
<1> QED BY <1>3, <1>5 DEF IInv

LEMMA NextIInv == SameClasses /\ IInv /\ [Next]_vars => IInv'
<1> SUFFICES ASSUME SameClasses, IInv, [Next]_vars PROVE IInv'
  OBVIOUS
<1>1. ASSUME NEW n \in Nodes, NEW key \in GroupKeys, push_front(key, n) \/ push_back(key, n)
      PROVE  IInv'
  BY <1>1, PushStep
<1>2. ASSUME NEW n \in Nodes, erase(n) PROVE IInv'
  BY <1>2, EraseStep
<1>3. ASSUME NEW key \in GroupKeys, erase_group(key) PROVE IInv'
  BY <1>3, EraseGroupStep
<1>4. ASSUME copy PROVE IInv'
  <2>1. list' = list /\ keyOf' = keyOf /\ group_map' = group_map
    BY <1>4, CopyStep
  <2> QED BY <2>1 DEF IInv
<1>5. ASSUME clear PROVE IInv'
  BY <1>5, ClearStep
<1>6. ASSUME UNCHANGED vars PROVE IInv'
  BY <1>6 DEF vars, IInv
<1> QED BY <1>1, <1>2, <1>3, <1>4, <1>5, <1>6 DEF Next

(* The list is sorted and without repetition, and the map's entries are in   *)
(* step with it, whatever the operations are, for any groups and slots and   *)
(* any two comparisons that agree about which groups are equivalent.         *)
THEOREM GroupedInvariant ==
  ASSUME SameClasses
  PROVE  Spec => []IInv
<1>1. Init => IInv
  BY InitIInv
<1>2. IInv /\ [Next]_vars => IInv'
  BY NextIInv
<1> QED BY <1>1, <1>2, PTL DEF Spec

(* Each group has one entry, which points at its first node: detail/         *)
(* slot_groups.hpp keeps "iterators to first list item in each group".       *)
THEOREM GroupMapExactAlways ==
  ASSUME SameClasses
  PROVE  Spec => []GroupMapExact
<1>1. IInv => GroupMapExact
  <2> SUFFICES ASSUME IInv PROVE GroupMapExact
    OBVIOUS
  <2>1. ListOK(list, keyOf) /\ MapOK(list, keyOf, group_map)
    BY DEF IInv
  <2>2. ASSUME NEW n \in ToSet(list)
        PROVE  /\ Cardinality(EntriesOf(group_map, keyOf[n])) = 1
               /\ \A k \in EntriesOf(group_map, keyOf[n]) : weakly_equivalent(k, keyOf[n])
    <3>1. PICK i \in DOMAIN list : list[i] = n
      BY DEF ToSet
    <3>2. PICK e \in DOMAIN group_map : WeaklyEquivalent(e, keyOf[n])
      BY <2>1, <3>1 DEF MapOK
    <3>3. keyOf[n] \in GroupKeys
      BY <2>1, <3>1 DEF ListOK
    <3>4. ASSUME NEW k \in DOMAIN group_map, WeaklyEquivalent(k, keyOf[n]) PROVE k = e
      <4>1. k \in GroupKeys /\ e \in GroupKeys
        BY <2>1 DEF MapOK
      <4>2. WeaklyEquivalent(k, e)
        BY <3>2, <3>3, <3>4, <4>1, Equivalence
      <4> QED BY <2>1, <4>2 DEF MapOK
    <3>5. EntriesOf(group_map, keyOf[n]) = {e}
      BY <3>2, <3>4 DEF EntriesOf
    <3>6. e \in GroupKeys /\ weakly_equivalent(e, keyOf[n])
      BY <2>1, <3>2, <3>3, StoredAgrees DEF MapOK
    <3> QED BY <3>5, <3>6, FS_Singleton
  <2>3. ASSUME NEW k \in DOMAIN group_map
        PROVE  \E i \in DOMAIN list :
                  /\ list[i] = group_map[k]
                  /\ WeaklyEquivalent(keyOf[list[i]], k)
                  /\ \A j \in 1..i - 1 : KeyLess(keyOf[list[j]], k)
    BY <2>1 DEF MapOK, FirstOf
  <2> QED BY <2>2, <2>3 DEF GroupMapExact
<1>2. Spec => []IInv
  BY GroupedInvariant
<1> QED BY <1>1, <1>2, PTL

(* A slot enters first or last in its group, wherever the map says the group *)
(* begins and ends.                                                          *)
THEOREM EntersInPlaceAlways ==
  ASSUME SameClasses
  PROVE  Spec => EntersInPlace
<1> DEFINE InPlace ==
      \A key \in GroupKeys, n \in Nodes :
         /\ push_back(key, n) => list' = Inserted(list, keyOf', n, "at_back")
         /\ push_front(key, n) => list' = Inserted(list, keyOf', n, "at_front")
<1>1. IInv => InPlace
  BY PushStep
<1>2. IInv /\ [Next]_vars => [InPlace]_vars
  BY <1>1
<1>3. Spec => []IInv
  BY GroupedInvariant
<1> QED BY <1>2, <1>3, PTL DEF Spec, EntersInPlace

(* The list and the map-free operators that the signal's model uses agree. *)
LEMMA SameInserted ==
  ASSUME NEW l, NEW ks, NEW n, NEW position
  PROVE  Promise!Inserted(l, ks, n, position) = Inserted(l, ks, n, position)
BY DEF Promise!Inserted, Inserted, Promise!UpperBoundIndex, UpperBoundIndex,
       Promise!LowerBoundIndex, LowerBoundIndex, Promise!KeyLess, KeyLess,
       Promise!grouped_slots, grouped_slots

LEMMA SameWithout ==
  ASSUME NEW l, NEW S
  PROVE  Promise!Without(l, S) = Without(l, S)
BY DEF Promise!Without, Without, Promise!Restriction, Restriction, Promise!Cardinality,
       Cardinality

LEMMA SameKeys ==
  /\ Promise!GroupKeys = GroupKeys /\ Promise!Positions = Positions
  /\ Promise!ToSet(list) = ToSet(list)
  /\ \A k, q : Promise!WeaklyEquivalent(k, q) <=> WeaklyEquivalent(k, q)
<1>1. Promise!GroupKeys = GroupKeys
  BY DEF Promise!GroupKeys, GroupKeys, Promise!FrontKey, FrontKey, Promise!BackKey, BackKey,
         Promise!GroupKey, GroupKey, Promise!front_ungrouped_slots, front_ungrouped_slots,
         Promise!grouped_slots, grouped_slots, Promise!back_ungrouped_slots,
         back_ungrouped_slots
<1>2. Promise!Positions = Positions
  BY DEF Promise!Positions, Positions
<1>3. \A k, q : Promise!WeaklyEquivalent(k, q) <=> WeaklyEquivalent(k, q)
  BY DEF Promise!WeaklyEquivalent, WeaklyEquivalent, Promise!KeyLess, KeyLess,
         Promise!grouped_slots, grouped_slots
<1>4. Promise!ToSet(list) = ToSet(list)
  BY DEF Promise!ToSet, ToSet
<1> QED BY <1>1, <1>2, <1>3, <1>4

(* Every step of the list with its map is one of OrderedSlots, or leaves the *)
(* list alone: grouped_list does what Signal's map-free operators say, in    *)
(* the order of GroupCompare().                                              *)
THEOREM ImplementsOrdered ==
  ASSUME SameClasses
  PROVE  Spec => ImplementsOrderedSlots
<1>1. Init => Promise!Init
  <2>1. BackKey \in Promise!GroupKeys
    BY SameKeys DEF GroupKeys
  <2> QED BY <2>1 DEF Init, Promise!Init
<1>2. IInv /\ [Next]_vars => [Promise!Next]_Promise!vars
  <2> SUFFICES ASSUME IInv, [Next]_vars PROVE Promise!Next \/ UNCHANGED Promise!vars
    OBVIOUS
  <2>1. ASSUME NEW n \in Nodes, NEW key \in GroupKeys, NEW position \in Positions,
               \/ position = "at_front" /\ push_front(key, n)
               \/ position = "at_back" /\ push_back(key, n)
        PROVE  Promise!Next
    <3>1. n \notin ToSet(list) /\ keyOf' = [keyOf EXCEPT ![n] = key]
      BY <2>1 DEF push_front, push_back, m_insert
    <3>2. list' = Inserted(list, keyOf', n, position)
      BY <2>1, PushStep
    <3>3. list' = Promise!Inserted(list, keyOf', n, position)
      BY <3>2, SameInserted
    <3>4. Promise!Insert(n, key, position)
      BY <3>1, <3>3, SameKeys DEF Promise!Insert
    <3> QED BY <3>4, SameKeys DEF Promise!Next
  <2>2. ASSUME NEW n \in Nodes, NEW key \in GroupKeys,
               push_front(key, n) \/ push_back(key, n)
        PROVE  Promise!Next
    <3>1. "at_front" \in Positions /\ "at_back" \in Positions
      BY DEF Positions
    <3> QED BY <2>1, <2>2, <3>1
  <2>3. ASSUME NEW n \in Nodes, erase(n) PROVE Promise!Next
    <3>1. n \in ToSet(list) /\ keyOf' = keyOf /\ list' = Without(list, {n})
      BY <2>3, EraseStep
    <3>2. list' = Promise!Without(list, {n})
      BY <3>1, SameWithout
    <3> QED BY <3>1, <3>2, SameKeys DEF Promise!Next, Promise!EraseNode
  <2>4. ASSUME NEW key \in GroupKeys, erase_group(key) PROVE Promise!Next
    <3> PICK R : R = {n \in ToSet(list) : WeaklyEquivalent(keyOf[n], key)}
      OBVIOUS
    <3>1. keyOf' = keyOf /\ list' = Without(list, R)
      BY <2>4, EraseGroupStep
    <3>2. list' = Promise!Without(list, R)
      BY <3>1, SameWithout
    <3>3. R = {n \in ToSet(list) : Promise!WeaklyEquivalent(keyOf[n], key)}
      BY SameKeys
    <3>4. Promise!EraseGroup(key)
      BY <3>1, <3>2, <3>3, SameKeys DEF Promise!EraseGroup
    <3> QED BY <3>4, SameKeys DEF Promise!Next
  <2>5. ASSUME copy PROVE UNCHANGED Promise!vars
    BY <2>5, CopyStep DEF Promise!vars
  <2>6. ASSUME clear PROVE Promise!Next
    BY <2>6 DEF clear, Promise!Next, Promise!Clear
  <2>7. ASSUME UNCHANGED vars PROVE UNCHANGED Promise!vars
    BY <2>7 DEF vars, Promise!vars
  <2> QED BY <2>2, <2>3, <2>4, <2>5, <2>6, <2>7 DEF Next
<1>3. Spec => []IInv
  BY GroupedInvariant
<1> QED BY <1>1, <1>2, <1>3, PTL DEF Spec, Promise!Spec, ImplementsOrderedSlots

(* "stores the given group comparison function object to compare groups":    *)
(* the slots are in its order whenever it agrees with GroupCompare(), so for *)
(* every GroupCompare without state.                                         *)
THEOREM InStoredOrder ==
  ASSUME SameOrder
  PROVE  Spec => []SortedByStored
<1>1. SameClasses
  <2> SUFFICES ASSUME NEW k1 \in GroupKeys, NEW k2 \in GroupKeys
               PROVE  weakly_equivalent(k1, k2) <=> WeaklyEquivalent(k1, k2)
    BY DEF SameClasses
  <2> QED BY DEF SameOrder, weakly_equivalent, WeaklyEquivalent
<1>2. IInv => SortedByStored
  <2> SUFFICES ASSUME IInv PROVE SortedByStored
    OBVIOUS
  <2>1. Sorted(list, keyOf) /\ \A i \in DOMAIN list : keyOf[list[i]] \in GroupKeys
    BY DEF IInv, ListOK
  <2> QED BY <2>1 DEF SameOrder, Sorted, SortedByStored
<1>3. Spec => []IInv
  BY <1>1, GroupedInvariant
<1> QED BY <1>2, <1>3, PTL

-----------------------------------------------------------------------------
(* Connected nodes, counted.                                                 *)

Live(f, i, j) == Cardinality({k \in i..j : f[k]})

LEMMA LiveFinite ==
  ASSUME NEW f, NEW i \in Int, NEW j \in Int
  PROVE  /\ IsFiniteSet({k \in i..j : f[k]})
         /\ Live(f, i, j) <= Cardinality(i..j)
<1>1. IsFiniteSet(i..j)
  BY FS_Interval
<1>2. {k \in i..j : f[k]} \subseteq i..j
  OBVIOUS
<1> QED BY <1>1, <1>2, FS_Subset DEF Live

LEMMA LiveCounts ==
  ASSUME NEW f, NEW i \in Int, NEW j \in Int
  PROVE  /\ Live(f, i, j) \in Nat
         /\ i <= j + 1 => Live(f, i, j) <= j - i + 1
         /\ j < i => Live(f, i, j) = 0
<1>1. Cardinality(i..j) = IF i > j THEN 0 ELSE j - i + 1
  BY FS_Interval
<1>2. Live(f, i, j) \in Nat
  BY LiveFinite, FS_CardinalityType DEF Live
<1>3. Live(f, i, j) <= Cardinality(i..j)
  BY LiveFinite
<1> QED BY <1>1, <1>2, <1>3

LEMMA LiveSplit ==
  ASSUME NEW f, NEW i \in Int, NEW j \in Int, NEW k \in i..j + 1
  PROVE  Live(f, i, j) = Live(f, i, k - 1) + Live(f, k, j)
<1> DEFINE A == {m \in i..k - 1 : f[m]}
           B == {m \in k..j : f[m]}
<1>0. k \in Int /\ k - 1 \in Int
  OBVIOUS
<1>1. IsFiniteSet(A) /\ IsFiniteSet(B)
  BY <1>0, LiveFinite
<1>2. A \cap B = {} /\ A \cup B = {m \in i..j : f[m]}
  OBVIOUS
<1>3. Cardinality(A) \in Nat /\ Cardinality(B) \in Nat
  BY <1>1, FS_CardinalityType
<1>4. Cardinality(A \cup B) = Cardinality(A) + Cardinality(B) - Cardinality(A \cap B)
  BY <1>1, FS_Union
<1>5. Cardinality(A \cap B) = 0
  BY <1>2, FS_EmptySet
<1>6. /\ Live(f, i, j) = Cardinality(A \cup B)
      /\ Live(f, i, k - 1) = Cardinality(A) /\ Live(f, k, j) = Cardinality(B)
  BY <1>2 DEF Live
<1> HIDE DEF A, B
<1> QED BY <1>3, <1>4, <1>5, <1>6

(* The flags of h from i to j are those of f, d places further on. *)
Shifted(h, f, i, j, d) ==
    /\ i \in Int /\ j \in Int /\ d \in Int
    /\ \A k \in i..j : h[k] = f[k + d]

LEMMA LiveShift ==
  ASSUME NEW f, NEW h, NEW i, NEW j, NEW d, Shifted(h, f, i, j, d)
  PROVE  Live(h, i, j) = Live(f, i + d, j + d)
<1>0. /\ i \in Int /\ j \in Int /\ d \in Int
      /\ \A k \in i..j : h[k] = f[k + d]
  BY DEF Shifted
<1> DEFINE A == {k \in i..j : h[k]}
           B == {k \in i + d..j + d : f[k]}
           g == [k \in A |-> k + d]
<1>1. g \in [A -> B]
  BY <1>0
<1>2. \A k, m \in A : g[k] = g[m] => k = m
  BY <1>0
<1>3. \A m \in B : \E k \in A : g[k] = m
  <2> TAKE m \in B
  <2>1. m - d \in i..j /\ (m - d) + d = m
    BY <1>0
  <2>2. m - d \in A
    BY <1>0, <2>1
  <2> QED BY <2>1, <2>2
<1>4. g \in Bijection(A, B)
  BY <1>1, <1>2, <1>3 DEF Bijection, Injection, Surjection, IsInjective
<1>5. IsFiniteSet(A)
  BY <1>0, LiveFinite
<1> HIDE DEF g, A, B
<1>6. Cardinality(A) = Cardinality(B)
  BY <1>4, <1>5, FS_Bijection DEF ExistsBijection
<1> QED BY <1>6 DEF Live, A, B

LEMMA LiveSame ==
  ASSUME NEW f, NEW h, NEW i \in Int, NEW j \in Int,
         \A k \in i..j : h[k] = f[k]
  PROVE  Live(h, i, j) = Live(f, i, j)
BY DEF Live

(* Fewer are connected. *)
LEMMA LiveLess ==
  ASSUME NEW f, NEW h, NEW i \in Int, NEW j \in Int,
         \A k \in i..j : h[k] => f[k]
  PROVE  Live(h, i, j) <= Live(f, i, j)
<1>1. {k \in i..j : h[k]} \subseteq {k \in i..j : f[k]}
  OBVIOUS
<1> QED BY <1>1, LiveFinite, FS_Subset DEF Live

LEMMA LiveAll ==
  ASSUME NEW f, NEW i \in Int, NEW j \in Int, i <= j + 1,
         \A k \in i..j : f[k]
  PROVE  Live(f, i, j) = j - i + 1
<1>1. {k \in i..j : f[k]} = i..j
  OBVIOUS
<1>2. Live(f, i, j) = Cardinality(i..j)
  BY <1>1 DEF Live
<1>3. Cardinality(i..j) = IF i > j THEN 0 ELSE j - i + 1
  BY FS_Interval
<1> QED BY <1>2, <1>3
-----------------------------------------------------------------------------
(* The inductive invariant.                                                  *)

(* The sweep has not reached node k yet, where the part of the list begins   *)
(* that was connected at the back since the last sweep ended.  The nodes     *)
(* behind, those before k that are connected, the ones from k on, and one    *)
(* new node for every two before k: so long will the list be at most when    *)
(* the sweep gets to k.  Early and Late hold with room to spare if s is      *)
(* positive.                                                                 *)
EarlyAt(f, g, k, s) ==
    /\ k \in g..Len(f) + 1
    /\ k - g <= 4 * MaxConnected
    /\ 2 * (g - 1 + Live(f, g, k - 1) + Len(f) + 1 - k) + (k - g) <= 6 * MaxConnected - s

Early(f, g, s) == \E k \in g..Len(f) + 1 : EarlyAt(f, g, k, s)

(* The sweep is among those.  Of two nodes that it passes for a new one, it  *)
(* either erases one or leaves one connected node fewer ahead.               *)
Late(f, g, s) == Len(f) + Live(f, g, Len(f)) <= 4 * MaxConnected - s

CollectorInv ==
    /\ TypeOK
    /\ Live(flags, 1, Len(flags)) <= MaxConnected
    /\ ~Grouped => Early(flags, gc, 0) \/ Late(flags, gc, 0)
-----------------------------------------------------------------------------
(* Sweeping the nodes from a up to u.                                        *)

Swept(f, a, u) == SubSeq(f, 1, a - 1) \o Kept(SubSeq(f, a, u)) \o SubSeq(f, u + 1, Len(f))

LEMMA KeptElements ==
  ASSUME NEW f \in Seq(BOOLEAN)
  PROVE  /\ Kept(f) \in Seq(BOOLEAN)
         /\ Len(Kept(f)) = Live(f, 1, Len(f))
         /\ \A i \in 1..Live(f, 1, Len(f)) : Kept(f)[i] = TRUE
<1>1. Len(f) \in Int /\ DOMAIN f = 1..Len(f)
  OBVIOUS
<1>2. Live(f, 1, Len(f)) \in Nat
  BY <1>1, LiveCounts
<1>3. Kept(f) = [n \in 1..Live(f, 1, Len(f)) |-> TRUE]
  BY <1>1 DEF Kept, Live
<1> DEFINE n == Live(f, 1, Len(f))
<1> HIDE DEF n
<1>4. n \in Nat /\ Kept(f) = [i \in 1..n |-> TRUE]
  BY <1>2, <1>3 DEF n
<1>5. Kept(f) \in Seq(BOOLEAN) /\ Len(Kept(f)) = n /\ \A i \in 1..n : Kept(f)[i] = TRUE
  BY <1>4
<1> QED BY <1>5 DEF n

(* h is f without d of the nodes from a on, of which c stay. *)
Shrunk(h, f, a, c, d) ==
    /\ c \in Nat /\ d \in Nat
    /\ h \in Seq(BOOLEAN) /\ Len(h) = Len(f) - d
    /\ \A i \in 1..a - 1 : h[i] = f[i]
    /\ \A i \in a..a + c - 1 : h[i] = TRUE
    /\ \A i \in a + c..Len(h) : h[i] = f[i + d]

LEMMA SweptElements ==
  ASSUME NEW f \in Seq(BOOLEAN), NEW a \in 1..Len(f) + 1, NEW u \in a - 1..Len(f)
  PROVE  /\ Shrunk(Swept(f, a, u), f, a, Live(f, a, u), u - a + 1 - Live(f, a, u))
         /\ Len(Kept(SubSeq(f, a, u))) = Live(f, a, u)
<1> DEFINE c == Live(f, a, u)
           d == u - a + 1 - c
           p == SubSeq(f, 1, a - 1)
           s == SubSeq(f, a, u)
           q == SubSeq(f, u + 1, Len(f))
<1>1. Len(f) \in Nat /\ a \in Nat /\ u \in Nat /\ u <= Len(f) /\ a - 1 <= u /\ 1 <= a
  OBVIOUS
<1>2. c \in Nat /\ d \in Nat
  <2>1. a \in Int /\ u \in Int /\ a <= u + 1
    BY <1>1
  <2>2. c \in Nat /\ c <= u - a + 1
    BY <2>1, LiveCounts
  <2> HIDE DEF c
  <2> QED BY <1>1, <2>2
<1>3. /\ p \in Seq(BOOLEAN) /\ Len(p) = a - 1 /\ \A i \in 1..a - 1 : p[i] = f[i]
      /\ s \in Seq(BOOLEAN) /\ Len(s) = u - a + 1 /\ \A i \in 1..u - a + 1 : s[i] = f[i + (a - 1)]
      /\ q \in Seq(BOOLEAN) /\ Len(q) = Len(f) - u
      /\ \A i \in 1..Len(f) - u : q[i] = f[i + u]
  <2>1. /\ p \in Seq(BOOLEAN) /\ Len(p) = a - 1 /\ \A i \in 1..a - 1 : p[i] = f[i]
    BY <1>1
  <2>2. /\ s \in Seq(BOOLEAN) /\ Len(s) = u - a + 1 /\ \A i \in 1..u - a + 1 : s[i] = f[i + (a - 1)]
    BY <1>1
  <2>3. /\ q \in Seq(BOOLEAN) /\ Len(q) = Len(f) - u
        /\ \A i \in 1..Len(f) - u : q[i] = f[i + u]
    BY <1>1
  <2> QED BY <2>1, <2>2, <2>3
<1>4. Live(s, 1, Len(s)) = c
  <2> DEFINE e == a - 1
             l == u - a + 1
  <2>1. Shifted(s, f, 1, l, e)
    BY <1>1, <1>3 DEF Shifted
  <2>2. 1 + e = a /\ l + e = u /\ Len(s) = l
    BY <1>1, <1>3
  <2> HIDE DEF s, e, l
  <2>3. Live(s, 1, l) = Live(f, 1 + e, l + e)
    BY <2>1, LiveShift
  <2> QED BY <2>2, <2>3
<1>5. /\ Kept(s) \in Seq(BOOLEAN) /\ Len(Kept(s)) = c
      /\ \A i \in 1..c : Kept(s)[i] = TRUE
  BY <1>3, <1>4, KeptElements
<1>6. Swept(f, a, u) = p \o Kept(s) \o q
  BY DEF Swept
<1>13. Len(Kept(SubSeq(f, a, u))) = c
  BY <1>5
<1> HIDE DEF p, s, q, c
<1>7. /\ p \o Kept(s) \in Seq(BOOLEAN) /\ Len(p \o Kept(s)) = a - 1 + c
      /\ \A i \in 1..a - 1 : (p \o Kept(s))[i] = p[i]
      /\ \A i \in a..a + c - 1 : (p \o Kept(s))[i] = Kept(s)[i - (a - 1)]
  <2> DEFINE r == Kept(s)
  <2>1. r \in Seq(BOOLEAN) /\ Len(r) = c
    BY <1>5
  <2> HIDE DEF r
  <2>2. /\ p \o r \in Seq(BOOLEAN) /\ Len(p \o r) = Len(p) + Len(r)
        /\ \A i \in 1..Len(p) + Len(r) :
              (p \o r)[i] = IF i <= Len(p) THEN p[i] ELSE r[i - Len(p)]
    <3>1. p \in Seq(BOOLEAN)
      BY <1>3
    <3> QED BY <2>1, <3>1, ConcatProperties
  <2>3. Len(p) = a - 1 /\ Len(p) + Len(r) = a - 1 + c
    BY <1>1, <1>2, <1>3, <2>1
  <2>4. \A i \in 1..a - 1 : (p \o r)[i] = p[i]
    <3> TAKE i \in 1..a - 1
    <3>1. i \in 1..Len(p) + Len(r) /\ i <= Len(p)
      BY <1>1, <1>2, <2>3
    <3> QED BY <2>2, <3>1
  <2>5. \A i \in a..a + c - 1 : (p \o r)[i] = r[i - (a - 1)]
    <3> TAKE i \in a..a + c - 1
    <3>1. i \in 1..Len(p) + Len(r) /\ ~(i <= Len(p))
      BY <1>1, <1>2, <2>3
    <3> QED BY <2>2, <2>3, <3>1
  <2> QED BY <2>2, <2>3, <2>4, <2>5 DEF r
<1>8. /\ p \o Kept(s) \o q \in Seq(BOOLEAN) /\ Len(p \o Kept(s) \o q) = a - 1 + c + Len(f) - u
      /\ \A i \in 1..a - 1 + c : (p \o Kept(s) \o q)[i] = (p \o Kept(s))[i]
      /\ \A i \in a + c..a - 1 + c + Len(f) - u :
            (p \o Kept(s) \o q)[i] = q[i - (a - 1 + c)]
  <2> DEFINE r == p \o Kept(s)
  <2>1. r \in Seq(BOOLEAN) /\ Len(r) = a - 1 + c
    BY <1>7
  <2> HIDE DEF r
  <2>2. /\ r \o q \in Seq(BOOLEAN) /\ Len(r \o q) = a - 1 + c + Len(f) - u
        /\ \A i \in 1..a - 1 + c : (r \o q)[i] = r[i]
        /\ \A i \in a + c..a - 1 + c + Len(f) - u : (r \o q)[i] = q[i - (a - 1 + c)]
    <3>1. /\ r \o q \in Seq(BOOLEAN) /\ Len(r \o q) = Len(r) + Len(q)
          /\ \A i \in 1..Len(r) + Len(q) :
                (r \o q)[i] = IF i <= Len(r) THEN r[i] ELSE q[i - Len(r)]
      <4>1. q \in Seq(BOOLEAN)
        BY <1>3
      <4> QED BY <2>1, <4>1, ConcatProperties
    <3>2. Len(q) = Len(f) - u
      BY <1>3
    <3>3. /\ Len(r) = a - 1 + c /\ Len(r) + Len(q) = a - 1 + c + Len(f) - u
          /\ a - 1 + c \in Nat /\ Len(f) - u \in Nat /\ a + c = a - 1 + c + 1
      BY <1>1, <1>2, <2>1, <3>2
    <3>4. \A i \in 1..a - 1 + c : (r \o q)[i] = r[i]
      BY <3>1, <3>3
    <3>5. ASSUME NEW i \in a + c..a - 1 + c + Len(f) - u
          PROVE  (r \o q)[i] = q[i - (a - 1 + c)]
      <4>1. i \in 1..Len(r) + Len(q) /\ ~(i <= Len(r))
        BY <1>1, <1>2, <3>3
      <4> QED BY <3>1, <3>3, <4>1
    <3> QED BY <3>1, <3>3, <3>4, <3>5
  <2> QED BY <2>2 DEF r
<1> DEFINE h == Swept(f, a, u)
<1>9. /\ h \in Seq(BOOLEAN) /\ Len(h) = Len(f) - d
  BY <1>1, <1>2, <1>6, <1>8
<1>10. \A i \in 1..a - 1 : h[i] = f[i]
  <2> TAKE i \in 1..a - 1
  <2>1. i \in 1..a - 1 + c
    BY <1>1, <1>2
  <2>2. h[i] = (p \o Kept(s))[i]
    BY <1>6, <1>8, <2>1
  <2> QED BY <1>3, <1>7, <2>2
<1>11. \A i \in a..a + c - 1 : h[i] = TRUE
  <2> TAKE i \in a..a + c - 1
  <2>1. i \in 1..a - 1 + c /\ i - (a - 1) \in 1..c
    BY <1>1, <1>2
  <2> QED BY <2>1, <1>5, <1>6, <1>7, <1>8
<1>12. \A i \in a + c..Len(h) : h[i] = f[i + d]
  <2> TAKE i \in a + c..Len(h)
  <2>1. i \in a + c..a - 1 + c + Len(f) - u
    BY <1>1, <1>2, <1>9
  <2>2. i - (a - 1 + c) \in 1..Len(f) - u /\ i - (a - 1 + c) + u = i + d
    BY <1>1, <1>2, <2>1
  <2> QED BY <2>1, <2>2, <1>3, <1>6, <1>8
<1> QED BY <1>2, <1>9, <1>10, <1>11, <1>12, <1>13 DEF c, Shrunk

(* The nodes of f from a up to u were swept, c of them stayed, d went.       *)
SweptTo(h, f, a, u, c, d) ==
    /\ f \in Seq(BOOLEAN) /\ a \in 1..Len(f) + 1 /\ u \in a - 1..Len(f)
    /\ c = Live(f, a, u) /\ d = u - a + 1 - c
    /\ Shrunk(h, f, a, c, d)

LEMMA SweptNumbers ==
  ASSUME NEW h, NEW f, NEW a, NEW u, NEW c, NEW d, SweptTo(h, f, a, u, c, d)
  PROVE  /\ a \in Nat /\ u \in Nat /\ c \in Nat /\ d \in Nat
         /\ Len(f) \in Nat /\ Len(h) \in Nat /\ Len(h) = Len(f) - d
         /\ 1 <= a /\ a <= u + 1 /\ u <= Len(f) /\ c + d = u + 1 - a
BY DEF SweptTo, Shrunk

LEMMA SweptAhead ==
  ASSUME NEW h, NEW f, NEW a, NEW u, NEW c, NEW d, SweptTo(h, f, a, u, c, d),
         NEW k \in u + 1..Len(f) + 1
  PROVE  Live(h, a + c, k - d - 1) = Live(f, u + 1, k - 1)
<1>1. /\ a \in Nat /\ u \in Nat /\ c \in Nat /\ d \in Nat
      /\ Len(f) \in Nat /\ Len(h) \in Nat /\ Len(h) = Len(f) - d
      /\ 1 <= a /\ a <= u + 1 /\ u <= Len(f) /\ c + d = u + 1 - a
  BY SweptNumbers
<1> DEFINE i == a + c
           j == k - d - 1
<1>2. Shifted(h, f, i, j, d)
  <2>1. i \in Int /\ j \in Int /\ d \in Int /\ j <= Len(h)
    BY <1>1
  <2>2. \A m \in a + c..Len(h) : h[m] = f[m + d]
    BY DEF SweptTo, Shrunk
  <2>3. \A m \in i..j : m \in a + c..Len(h)
    BY <1>1, <2>1
  <2> QED BY <2>1, <2>2, <2>3 DEF Shifted
<1>3. i + d = u + 1 /\ j + d = k - 1
  BY <1>1
<1> HIDE DEF i, j
<1>4. Live(h, i, j) = Live(f, u + 1, k - 1)
  BY <1>2, <1>3, LiveShift
<1> QED BY <1>4 DEF i, j

LEMMA SweptLive ==
  ASSUME NEW h, NEW f, NEW a, NEW u, NEW c, NEW d, SweptTo(h, f, a, u, c, d)
  PROVE  Live(h, 1, Len(h)) = Live(f, 1, Len(f))
<1>1. /\ a \in Nat /\ u \in Nat /\ c \in Nat /\ d \in Nat
      /\ Len(f) \in Nat /\ Len(h) \in Nat /\ Len(h) = Len(f) - d
      /\ 1 <= a /\ a <= u + 1 /\ u <= Len(f) /\ c + d = u + 1 - a
  BY SweptNumbers
<1>2. Live(h, a + c, Len(h)) = Live(f, u + 1, Len(f))
  <2> DEFINE k == Len(f) + 1
  <2>1. k \in u + 1..Len(f) + 1 /\ k - d - 1 = Len(h) /\ k - 1 = Len(f)
    BY <1>1
  <2> HIDE DEF k
  <2>2. Live(h, a + c, k - d - 1) = Live(f, u + 1, k - 1)
    BY <2>1, SweptAhead
  <2> QED BY <2>1, <2>2
<1>3. Live(h, 1, a - 1) = Live(f, 1, a - 1)
  <2>1. 1 \in Int /\ a - 1 \in Int
    BY <1>1
  <2>2. \A m \in 1..a - 1 : h[m] = f[m]
    BY DEF SweptTo, Shrunk
  <2> QED BY <2>1, <2>2, LiveSame
<1>4. Live(h, a, a + c - 1) = c
  <2> DEFINE j == a + c - 1
  <2>1. a \in Int /\ j \in Int /\ a <= j + 1 /\ j - a + 1 = c
    BY <1>1
  <2>2. \A m \in a..j : h[m]
    BY DEF SweptTo, Shrunk
  <2> HIDE DEF j
  <2>3. Live(h, a, j) = j - a + 1
    BY <2>1, <2>2, LiveAll
  <2> QED BY <2>1, <2>3 DEF j
<1>5. Live(h, 1, Len(h)) = Live(h, 1, a - 1) + Live(h, a, a + c - 1) + Live(h, a + c, Len(h))
  <2> DEFINE k == a + c
             j == Len(h)
  <2>0. k = a + c /\ k - 1 = a + c - 1 /\ j = Len(h)
    BY <1>1
  <2>1. /\ 1 \in Int /\ j \in Int /\ a \in 1..j + 1 /\ a - 1 \in Int
        /\ a \in Int /\ k \in a..j + 1 /\ k \in Int /\ k - 1 \in Int
    BY <1>1
  <2> HIDE DEF k, j
  <2>2. Live(h, 1, j) = Live(h, 1, a - 1) + Live(h, a, j)
    BY <2>1, LiveSplit
  <2>3. Live(h, a, j) = Live(h, a, k - 1) + Live(h, k, j)
    BY <2>1, LiveSplit
  <2>4. Live(h, 1, a - 1) \in Nat /\ Live(h, a, k - 1) \in Nat /\ Live(h, k, j) \in Nat
    BY <2>1, LiveCounts
  <2>5. Live(h, 1, j) = Live(h, 1, a - 1) + Live(h, a, k - 1) + Live(h, k, j)
    BY <2>2, <2>3, <2>4
  <2> QED BY <2>0, <2>5
<1>6. Live(f, 1, Len(f)) = Live(f, 1, a - 1) + c + Live(f, u + 1, Len(f))
  <2> DEFINE k == u + 1
             j == Len(f)
  <2>1. /\ 1 \in Int /\ j \in Int /\ a \in 1..j + 1 /\ a - 1 \in Int
        /\ a \in Int /\ k \in a..j + 1 /\ k \in Int /\ k - 1 = u
    BY <1>1
  <2> HIDE DEF k, j
  <2>2. Live(f, 1, j) = Live(f, 1, a - 1) + Live(f, a, j)
    BY <2>1, LiveSplit
  <2>3. Live(f, a, j) = Live(f, a, k - 1) + Live(f, k, j)
    BY <2>1, LiveSplit
  <2>4. Live(f, 1, a - 1) \in Nat /\ Live(f, k, j) \in Nat
    BY <2>1, LiveCounts
  <2>5. c = Live(f, a, u)
    BY DEF SweptTo
  <2>6. Live(f, a, j) = c + Live(f, k, j)
    BY <2>1, <2>3, <2>5
  <2>7. Live(f, 1, j) = Live(f, 1, a - 1) + c + Live(f, k, j)
    BY <1>1, <2>2, <2>4, <2>6
  <2> QED BY <2>7 DEF k, j
<1> QED BY <1>2, <1>3, <1>4, <1>5, <1>6

(* Two nodes swept, or all that there are, leave room for a new one.         *)
Leaves(a, u, n, s) == s = 0 \/ (s = 2 /\ (u = a + 1 \/ u = n))

LEMMA BeforeK ==
  ASSUME NEW M \in Nat, NEW a \in Nat, NEW u \in Nat, NEW k \in Nat, NEW n \in Nat,
         NEW c \in Nat, NEW d \in Nat, NEW x \in Nat, NEW y \in Nat, NEW s,
         1 <= a, u = a \/ u = a + 1, u <= n, u + 1 <= k, k <= n + 1, c + d = u + 1 - a,
         x = c + y, Leaves(a, u, n, s), k - a <= 4 * M,
         2 * (a - 1 + x + n + 1 - k) + (k - a) <= 6 * M
  PROVE  /\ k - d \in a + c..n - d + 1
         /\ k - d - (a + c) <= 4 * M
         /\ 2 * (a + c - 1 + y + (n - d) + 1 - (k - d)) + (k - d - (a + c)) <= 6 * M - s
<1>1. 2 * (a + c - 1 + y + (n - d) + 1 - (k - d)) = 2 * (a - 1 + x + n + 1 - k)
  OBVIOUS
<1>2. k - d - (a + c) = k - u - 1
  OBVIOUS
<1>3. 2 * (a - 1 + x + n + 1 - k) + (k - u - 1) <= 6 * M - s
  <2>1. CASE s = 0
    BY <2>1
  <2>2. CASE s = 2 /\ u = a + 1
    BY <2>2
  <2>3. CASE s = 2 /\ u = n /\ u = a
    BY <2>3
  <2> QED BY <2>1, <2>2, <2>3 DEF Leaves
<1> QED BY <1>1, <1>2, <1>3

LEMMA PastK ==
  ASSUME NEW M \in Nat, NEW a \in Nat, NEW u \in Nat, NEW k \in Nat, NEW n \in Nat,
         NEW c \in Nat, NEW d \in Nat, NEW x \in Nat, NEW s,
         1 <= a, u = a + 1, u <= n, k = a + 1, c + d = 2,
         c <= x + 1, Leaves(a, u, n, s),
         2 * (a - 1 + x + n + 1 - k) + (k - a) <= 6 * M
  PROVE  2 * (a + c - 1 + 0 + (n - d) + 1 - (a + c)) + (a + c - (a + c)) <= 6 * M - s
<1>1. 2 * (a - 1 + x + n + 1 - k) <= 6 * M - 2
  OBVIOUS
<1>2. s = 0 \/ s = 2
  BY DEF Leaves
<1>3. n - d <= a - 1 + x + n + 1 - k
  OBVIOUS
<1> QED BY <1>1, <1>2, <1>3

LEMMA SweepEarly ==
  ASSUME NEW h, NEW f, NEW a, NEW u, NEW c, NEW d, SweptTo(h, f, a, u, c, d),
         u = a \/ u = a + 1, NEW k, EarlyAt(f, a, k, 0), k # a,
         NEW s, Leaves(a, u, Len(f), s)
  PROVE  Early(h, a + c, s)
<1> DEFINE M == MaxConnected
           n == Len(f)
           x == Live(f, a, k - 1)
           y == Live(f, u + 1, k - 1)
<1>1. /\ a \in Nat /\ u \in Nat /\ c \in Nat /\ d \in Nat
      /\ n \in Nat /\ Len(h) = n - d
      /\ 1 <= a /\ a <= u + 1 /\ u <= n /\ c + d = u + 1 - a
  BY SweptNumbers
<1>2. /\ k \in Nat /\ a + 1 <= k /\ k <= n + 1 /\ M \in Nat
      /\ k - a <= 4 * M /\ 2 * (a - 1 + x + n + 1 - k) + (k - a) <= 6 * M
  <2>1. /\ k \in a..n + 1
        /\ k - a <= 4 * M /\ 2 * (a - 1 + x + n + 1 - k) + (k - a) <= 6 * M - 0
    BY DEF EarlyAt
  <2> HIDE DEF x
  <2> QED BY <1>1, <2>1, GarbageCollectorAssumption
<1>3. x \in Nat /\ y \in Nat
  <2>1. k - 1 \in Int /\ a \in Int /\ u + 1 \in Int
    BY <1>1, <1>2
  <2> QED BY <2>1, LiveCounts
<1>4. CASE u + 1 <= k
  <2>1. x = c + y
    <3> DEFINE i == u + 1
               j == k - 1
    <3>1. a \in Int /\ j \in Int /\ i \in a..j + 1 /\ i - 1 = u
      BY <1>1, <1>2, <1>4
    <3>2. c = Live(f, a, u)
      BY DEF SweptTo
    <3> HIDE DEF i, j
    <3>3. Live(f, a, j) = Live(f, a, i - 1) + Live(f, i, j)
      BY <3>1, LiveSplit
    <3>4. Live(f, a, j) = c + Live(f, i, j)
      BY <3>1, <3>2, <3>3
    <3> QED BY <3>4 DEF i, j
  <2>2. Live(h, a + c, k - d - 1) = y
    <3>1. k \in u + 1..n + 1
      BY <1>1, <1>2, <1>4
    <3> QED BY <3>1, SweptAhead
  <2> HIDE DEF M, n, x, y
  <2>3. /\ k - d \in a + c..n - d + 1
        /\ k - d - (a + c) <= 4 * M
        /\ 2 * (a + c - 1 + y + (n - d) + 1 - (k - d)) + (k - d - (a + c)) <= 6 * M - s
    <3>1. Leaves(a, u, n, s)
      BY DEF n
    <3> QED BY <1>1, <1>2, <1>3, <1>4, <2>1, <3>1, BeforeK
  <2>4. EarlyAt(h, a + c, k - d, s)
    BY <1>1, <2>2, <2>3 DEF EarlyAt, M
  <2> QED BY <1>1, <2>3, <2>4 DEF Early
<1>5. CASE ~(u + 1 <= k)
  <2>1. k = a + 1 /\ u = a + 1
    BY <1>1, <1>2, <1>5
  <2>2. c <= x + 1
    <3>1. a \in Int /\ u \in Int /\ k \in a..u + 1 /\ k \in Int /\ k <= u + 1 /\ u - k + 1 = 1
      BY <1>1, <1>2, <2>1
    <3>2. Live(f, a, u) = x + Live(f, k, u)
      BY <3>1, LiveSplit
    <3>3. Live(f, k, u) \in Nat /\ Live(f, k, u) <= 1
      BY <3>1, LiveCounts
    <3>4. c = Live(f, a, u)
      BY DEF SweptTo
    <3> HIDE DEF x
    <3> QED BY <1>3, <3>2, <3>3, <3>4
  <2>3. Live(h, a + c, a + c - 1) = 0
    <3>1. a + c \in Int /\ a + c - 1 \in Int /\ a + c - 1 < a + c
      BY <1>1
    <3> QED BY <3>1, LiveCounts
  <2> HIDE DEF M, n, x
  <2>4. 2 * (a + c - 1 + 0 + (n - d) + 1 - (a + c)) + (a + c - (a + c)) <= 6 * M - s
    <3>1. Leaves(a, u, n, s) /\ c + d = 2
      BY <1>1, <2>1 DEF n
    <3> QED BY <1>1, <1>2, <1>3, <2>1, <2>2, <3>1, PastK
  <2>5. a + c \in a + c..n - d + 1 /\ a + c - (a + c) <= 4 * M
    BY <1>1, <1>2
  <2> DEFINE g == a + c
  <2>6. /\ g \in g..Len(h) + 1 /\ g - g <= 4 * M
        /\ 2 * (g - 1 + Live(h, g, g - 1) + Len(h) + 1 - g) + (g - g) <= 6 * M - s
    BY <1>1, <2>3, <2>4, <2>5
  <2> HIDE DEF g
  <2>7. EarlyAt(h, g, g, s)
    BY <2>6 DEF EarlyAt, M
  <2>8. Early(h, g, s)
    BY <2>6, <2>7 DEF Early
  <2> QED BY <2>8 DEF g
<1> QED BY <1>4, <1>5

LEMMA SweepLate ==
  ASSUME NEW h, NEW f, NEW a, NEW u, NEW c, NEW d, SweptTo(h, f, a, u, c, d),
         Late(f, a, 0)
  PROVE  Late(h, a + c, u + 1 - a)
<1> DEFINE M == MaxConnected
           n == Len(f)
           y == Live(f, u + 1, n)
<1>1. /\ a \in Nat /\ u \in Nat /\ c \in Nat /\ d \in Nat /\ M \in Nat
      /\ n \in Nat /\ Len(h) \in Nat /\ Len(h) = n - d
      /\ 1 <= a /\ a <= u + 1 /\ u <= n /\ c + d = u + 1 - a
  BY SweptNumbers, GarbageCollectorAssumption
<1>2. n + Live(f, a, n) <= 4 * M - 0
  BY DEF Late
<1>3. Live(f, a, n) = c + y
  <2> DEFINE i == u + 1
  <2>1. a \in Int /\ n \in Int /\ i \in a..n + 1 /\ i - 1 = u
    BY <1>1
  <2>2. c = Live(f, a, u)
    BY DEF SweptTo
  <2> HIDE DEF i, n
  <2>3. Live(f, a, n) = Live(f, a, i - 1) + Live(f, i, n)
    BY <2>1, LiveSplit
  <2>4. Live(f, a, n) = c + Live(f, i, n)
    BY <2>1, <2>2, <2>3
  <2> QED BY <2>4 DEF i
<1>4. y \in Nat
  <2>1. u + 1 \in Int /\ n \in Int
    BY <1>1
  <2> QED BY <2>1, LiveCounts
<1>5. Live(h, a + c, Len(h)) = y
  <2> DEFINE k == n + 1
  <2>1. k \in u + 1..n + 1 /\ k - d - 1 = Len(h) /\ k - 1 = n
    BY <1>1
  <2> HIDE DEF k
  <2>2. Live(h, a + c, k - d - 1) = Live(f, u + 1, k - 1)
    BY <2>1, SweptAhead
  <2> QED BY <2>1, <2>2
<1> HIDE DEF M, n, y
<1>6. Len(h) + y <= 4 * M - (u + 1 - a)
  BY <1>1, <1>2, <1>3, <1>4
<1> QED BY <1>5, <1>6 DEF Late, M

(* Where the sweep begins and ends. *)
From(f, g) == IF g > Len(f) THEN 1 ELSE g
Upto(f, g, count) ==
    IF From(f, g) + count > Len(f) + 1 THEN Len(f) ELSE From(f, g) + count - 1

LEMMA SweepMeaning ==
  ASSUME TypeOK, NEW count \in Nat
  PROVE  \E c, d :
            /\ SweptTo(Sweep(count).list, flags, From(flags, gc), Upto(flags, gc, count), c, d)
            /\ Sweep(count).gc = From(flags, gc) + c
<1> DEFINE a == From(flags, gc)
           u == Upto(flags, gc, count)
           c == Live(flags, a, u)
           d == u - a + 1 - c
<1>1. /\ flags \in Seq(BOOLEAN) /\ Len(flags) \in Nat /\ gc \in 1..Len(flags) + 1
  BY DEF TypeOK
<1>2. a \in 1..Len(flags) + 1
  BY <1>1 DEF From
<1>3. u \in a - 1..Len(flags)
  <2> HIDE DEF a
  <2>1. u = IF a + count > Len(flags) + 1 THEN Len(flags) ELSE a + count - 1
    BY DEF a, Upto
  <2> HIDE DEF u
  <2> QED BY <1>1, <1>2, <2>1
<1>4. /\ Sweep(count).list = Swept(flags, a, u)
      /\ Sweep(count).gc = a + Len(Kept(SubSeq(flags, a, u)))
  BY DEF Sweep, Swept, From, Upto
<1> HIDE DEF a, u
<1>5. Shrunk(Swept(flags, a, u), flags, a, c, d) /\ Len(Kept(SubSeq(flags, a, u))) = c
  BY <1>1, <1>2, <1>3, SweptElements
<1>6. SweptTo(Sweep(count).list, flags, a, u, c, d) /\ Sweep(count).gc = a + c
  BY <1>1, <1>2, <1>3, <1>4, <1>5 DEF SweptTo
<1> QED BY <1>6 DEF a, u

(* A list and a place in it, with as many connected nodes as f. *)
Likewise(h, g, f) ==
    /\ h \in Seq(BOOLEAN) /\ g \in 1..Len(h) + 1
    /\ Live(h, 1, Len(h)) = Live(f, 1, Len(f))

LEMMA SweepType ==
  ASSUME TypeOK, NEW count \in Nat
  PROVE  Likewise(Sweep(count).list, Sweep(count).gc, flags)
<1> DEFINE h == Sweep(count).list
           a == From(flags, gc)
           u == Upto(flags, gc, count)
<1>1. PICK c, d : SweptTo(h, flags, a, u, c, d) /\ Sweep(count).gc = a + c
  BY SweepMeaning
<1> HIDE DEF h, a, u
<1>2. /\ a \in Nat /\ u \in Nat /\ c \in Nat /\ d \in Nat
      /\ Len(flags) \in Nat /\ Len(h) \in Nat /\ Len(h) = Len(flags) - d
      /\ 1 <= a /\ a <= u + 1 /\ u <= Len(flags) /\ c + d = u + 1 - a
  BY <1>1, SweptNumbers
<1>3. h \in Seq(BOOLEAN)
  BY <1>1 DEF SweptTo, Shrunk
<1>4. Live(h, 1, Len(h)) = Live(flags, 1, Len(flags))
  BY <1>1, SweptLive
<1>5. a + c \in 1..Len(h) + 1
  BY <1>2
<1> QED BY <1>1, <1>3, <1>4, <1>5 DEF Likewise, h

(* The room that a new node needs. *)
Spare(f, g, s) ==
    Early(f, g, s) \/ Late(f, g, s) \/ (Late(f, g, 1) /\ g = Len(f) + 1)

LEMMA LateWeaker ==
  ASSUME NEW f, Len(f) \in Nat, NEW g \in Nat, NEW s \in Nat, NEW t \in Nat, t <= s,
         Late(f, g, s)
  PROVE  Late(f, g, t)
<1> DEFINE l == Len(f) + Live(f, g, Len(f))
<1>1. l \in Int
  <2>1. Len(f) \in Int /\ g \in Int
    OBVIOUS
  <2>2. Live(f, g, Len(f)) \in Nat
    BY <2>1, LiveCounts
  <2> QED BY <2>1, <2>2
<1>2. l <= 4 * MaxConnected - s
  BY DEF Late
<1> HIDE DEF l
<1>3. l <= 4 * MaxConnected - t
  BY <1>1, <1>2, GarbageCollectorAssumption
<1> QED BY <1>3 DEF Late, l

(* A sweep that ends at the end begins again. *)
LEMMA PassBegins ==
  ASSUME NEW f \in Seq(BOOLEAN), NEW g \in 1..Len(f) + 1,
         Live(f, 1, Len(f)) <= MaxConnected, Early(f, g, 0) \/ Late(f, g, 0)
  PROVE  Early(f, From(f, g), 0) \/ Late(f, From(f, g), 0)
<1>1. CASE g <= Len(f)
  BY <1>1 DEF From
<1>2. CASE g = Len(f) + 1
  <2> DEFINE n == Len(f)
             x == Live(f, 1, n)
  <2>1. n \in Nat /\ MaxConnected \in Nat /\ x \in Nat /\ x <= MaxConnected
    <3>1. n \in Int /\ 1 \in Int
      OBVIOUS
    <3>2. x \in Nat
      BY <3>1, LiveCounts
    <3> QED BY <3>2, GarbageCollectorAssumption
  <2>2. Live(f, n + 1, n) = 0 /\ n + 1 - 1 = n
    <3>1. n \in Int /\ n + 1 \in Int /\ n < n + 1 /\ n + 1 - 1 = n
      OBVIOUS
    <3> QED BY <3>1, LiveCounts
  <2>3. n <= 4 * MaxConnected
    <3>1. CASE Early(f, n + 1, 0)
      <4>1. PICK k \in n + 1..n + 1 : EarlyAt(f, n + 1, k, 0)
        BY <3>1 DEF Early
      <4>2. k = n + 1
        BY <2>1, <4>1
      <4>3. 2 * (n + 1 - 1 + Live(f, n + 1, n + 1 - 1) + n + 1 - (n + 1)) + (n + 1 - (n + 1))
               <= 6 * MaxConnected - 0
        BY <4>1, <4>2 DEF EarlyAt
      <4>4. 2 * (n + 1 - 1 + 0 + n + 1 - (n + 1)) + (n + 1 - (n + 1)) <= 6 * MaxConnected - 0
        BY <2>2, <4>3
      <4> HIDE DEF n
      <4> QED BY <2>1, <4>4
    <3>2. CASE Late(f, n + 1, 0)
      <4>1. n + Live(f, n + 1, n) <= 4 * MaxConnected - 0
        BY <3>2 DEF Late
      <4> HIDE DEF n
      <4> QED BY <2>1, <2>2, <4>1
    <3> QED BY <1>2, <3>1, <3>2
  <2> HIDE DEF n, x
  <2>4. From(f, g) = 1
    BY <1>2, <2>1 DEF From, n
  <2> DEFINE k == n + 1
  <2>5. /\ k \in 1..n + 1 /\ k - 1 <= 4 * MaxConnected
        /\ 2 * (1 - 1 + x + n + 1 - k) + (k - 1) <= 6 * MaxConnected - 0
        /\ k - 1 = n
    BY <2>1, <2>3
  <2> HIDE DEF k
  <2>6. EarlyAt(f, 1, k, 0)
    BY <2>5 DEF EarlyAt, x, n
  <2>7. Early(f, 1, 0)
    BY <2>5, <2>6 DEF Early, n
  <2> QED BY <2>4, <2>7
<1> QED BY <1>1, <1>2

(* When the sweep gets to k, it is late. *)
LEMMA ReachesK ==
  ASSUME NEW f \in Seq(BOOLEAN), NEW g \in 1..Len(f) + 1,
         Live(f, 1, Len(f)) <= MaxConnected, EarlyAt(f, g, g, 0)
  PROVE  Late(f, g, 0)
<1> DEFINE n == Len(f)
<1>1. n \in Int /\ g \in Int /\ g - 1 \in Int /\ g - 1 < g /\ 1 \in Int /\ g \in 1..n + 1
      /\ MaxConnected \in Nat
  BY GarbageCollectorAssumption
<1>2. Live(f, g, g - 1) = 0
  BY <1>1, LiveCounts
<1>3. 2 * (g - 1 + Live(f, g, g - 1) + n + 1 - g) + (g - g) <= 6 * MaxConnected - 0
  BY DEF EarlyAt
<1>4. Live(f, 1, n) = Live(f, 1, g - 1) + Live(f, g, n)
  BY <1>1, LiveSplit
<1>5. Live(f, 1, n) <= MaxConnected
  OBVIOUS
<1>6. Live(f, g, n) \in Nat /\ Live(f, 1, g - 1) \in Nat
  BY <1>1, LiveCounts
<1> HIDE DEF n
<1>7. 2 * (g - 1 + 0 + n + 1 - g) + (g - g) <= 6 * MaxConnected - 0
  BY <1>2, <1>3
<1>8. n + Live(f, g, n) <= 4 * MaxConnected - 0
  BY <1>1, <1>4, <1>5, <1>6, <1>7
<1> QED BY <1>8 DEF Late, n

(* One node swept leaves no room, two do. *)
MakesRoom(count, s) == (count = 1 /\ s = 0) \/ (count = 2 /\ s = 2)

LEMMA SweepRoom ==
  ASSUME TypeOK, Live(flags, 1, Len(flags)) <= MaxConnected,
         Early(flags, gc, 0) \/ Late(flags, gc, 0),
         NEW count, NEW s, MakesRoom(count, s)
  PROVE  Spare(Sweep(count).list, Sweep(count).gc, s)
<1> DEFINE h == Sweep(count).list
           n == Len(flags)
           a == From(flags, gc)
           u == Upto(flags, gc, count)
<1>0. /\ flags \in Seq(BOOLEAN) /\ n \in Nat /\ gc \in 1..Len(flags) + 1
      /\ MaxConnected \in Nat /\ MaxConnected # 0
  BY GarbageCollectorAssumption DEF TypeOK
<1>9. (count = 1 /\ s = 0) \/ (count = 2 /\ s = 2)
  BY DEF MakesRoom
<1>1. PICK c, d : SweptTo(h, flags, a, u, c, d) /\ Sweep(count).gc = a + c
  <2>1. count \in Nat
    BY <1>9
  <2> QED BY <2>1, SweepMeaning
<1>2. a \in 1..n + 1 /\ (n # 0 => a \in 1..n)
  BY <1>0 DEF From
<1>3. u = IF a + count > n + 1 THEN n ELSE a + count - 1
  BY DEF Upto
<1>4. Early(flags, a, 0) \/ Late(flags, a, 0)
  BY <1>0, PassBegins
<1>5. /\ a \in Nat /\ u \in Nat /\ c \in Nat /\ d \in Nat
      /\ n \in Nat /\ Len(h) \in Nat /\ Len(h) = n - d
      /\ 1 <= a /\ a <= u + 1 /\ u <= n /\ c + d = u + 1 - a
  BY <1>1, SweptNumbers
<1>6. h \in Seq(BOOLEAN)
  BY <1>1 DEF SweptTo, Shrunk
<1> HIDE DEF h, n, a, u
<1>7. CASE n = 0
  <2>1. a = 1 /\ u = 0 /\ c = 0 /\ d = 0 /\ Len(h) = 0
    BY <1>0, <1>2, <1>3, <1>5, <1>7, <1>9
  <2>2. Live(h, 1, 0) = 0
    <3>1. 1 \in Int /\ 0 \in Int /\ 0 < 1
      OBVIOUS
    <3> QED BY <3>1, LiveCounts
  <2>3. Len(h) + Live(h, 1, Len(h)) = 0
    BY <2>1, <2>2
  <2>4. 0 <= 4 * MaxConnected - s
    BY <1>0, <1>9
  <2>5. Late(h, 1, s)
    BY <2>3, <2>4 DEF Late
  <2> QED BY <1>1, <2>1, <2>5 DEF Spare, h
<1>8. CASE n # 0
  <2>1. a \in 1..n /\ a <= u /\ (u = a \/ u = a + 1) /\ Leaves(a, u, n, s)
    BY <1>0, <1>2, <1>3, <1>8, <1>9 DEF Leaves
  <2>2. CASE Late(flags, a, 0)
    <3>1. Late(h, a + c, u + 1 - a)
      BY <1>1, <2>2, SweepLate
    <3>2. a + c \in Nat /\ u + 1 - a \in Nat
      BY <1>5
    <3>3. CASE u + 1 - a = 1 /\ s = 2
      <4>1. u = a /\ u = n /\ a + c = Len(h) + 1
        BY <1>0, <1>3, <1>5, <1>9, <2>1, <3>3
      <4> QED BY <1>1, <3>1, <3>3, <4>1 DEF Spare, h
    <3>4. CASE ~(u + 1 - a = 1 /\ s = 2)
      <4>1. s \in Nat /\ s <= u + 1 - a
        BY <1>5, <1>9, <2>1, <3>4
      <4>2. Late(h, a + c, s)
        BY <1>6, <3>1, <3>2, <4>1, LateWeaker
      <4> QED BY <1>1, <4>2 DEF Spare, h
    <3> QED BY <3>3, <3>4
  <2>3. CASE Early(flags, a, 0) /\ ~Late(flags, a, 0)
    <3>1. PICK k : EarlyAt(flags, a, k, 0)
      BY <2>3 DEF Early
    <3>2. k # a
      <4>1. EarlyAt(flags, a, a, 0) => Late(flags, a, 0)
        BY <1>0, <1>2, ReachesK DEF n
      <4> QED BY <2>3, <3>1, <4>1
    <3>3. Early(h, a + c, s)
      BY <1>1, <2>1, <3>1, <3>2, SweepEarly DEF n
    <3> QED BY <1>1, <3>3 DEF Spare, h
  <2> QED BY <1>4, <2>2, <2>3
<1> QED BY <1>7, <1>8

-----------------------------------------------------------------------------
(* A new node.                                                               *)

LEMMA EnteredParts ==
  ASSUME NEW new, NEW old, NEW n, NEW i, Entered(new, old, n, i),
         Len(old) \in Nat, i \in 0..Len(old)
  PROVE  /\ Len(new) = Len(old) + 1
         /\ \A j \in 1..i : new[j] = old[j]
         /\ new[i + 1] = n
         /\ \A j \in i + 2..Len(old) + 1 : new[j] = old[j - 1]
BY DEF Entered

(* A connected node has entered. *)
Connected(h, f, i) == Entered(h, f, TRUE, i)

LEMMA EnteredNode ==
  ASSUME NEW h, NEW f, NEW i, Connected(h, f, i),
         Len(f) \in Nat, i \in 0..Len(f)
  PROVE  /\ Len(h) = Len(f) + 1
         /\ \A j \in 1..i : h[j] = f[j]
         /\ h[i + 1]
         /\ \A j \in i + 2..Len(f) + 1 : h[j] = f[j - 1]
<1> DEFINE t == TRUE
<1>1. Entered(h, f, t, i)
  BY DEF Connected
<1> HIDE DEF t
<1>2. /\ Len(h) = Len(f) + 1
      /\ \A j \in 1..i : h[j] = f[j]
      /\ h[i + 1] = t
      /\ \A j \in i + 2..Len(f) + 1 : h[j] = f[j - 1]
  BY <1>1, EnteredParts
<1> QED BY <1>2 DEF t

LEMMA EnterLive ==
  ASSUME NEW f, NEW h, Len(f) \in Nat, NEW i \in 0..Len(f),
         Connected(h, f, i)
  PROVE  Live(h, 1, Len(h)) = Live(f, 1, Len(f)) + 1
<1> DEFINE n == Len(f)
<1>1. /\ n \in Nat /\ i \in Nat /\ i <= n /\ Len(h) = n + 1
      /\ \A j \in 1..i : h[j] = f[j]
      /\ h[i + 1]
      /\ \A j \in i + 2..n + 1 : h[j] = f[j - 1]
  <2>1. Len(f) \in Nat /\ i \in 0..Len(f)
    OBVIOUS
  <2>2. /\ Len(h) = Len(f) + 1
        /\ \A j \in 1..i : h[j] = f[j]
        /\ h[i + 1]
        /\ \A j \in i + 2..Len(f) + 1 : h[j] = f[j - 1]
    BY <2>1, EnteredNode
  <2> QED BY <2>1, <2>2
<1> HIDE DEF n
<1>2. Live(h, 1, i) = Live(f, 1, i)
  <2>1. 1 \in Int /\ i \in Int /\ \A j \in 1..i : h[j] = f[j]
    BY <1>1
  <2> QED BY <2>1, LiveSame
<1>3. Live(h, i + 1, i + 1) = 1
  <2> DEFINE j == i + 1
  <2>1. j \in Int /\ j <= j + 1 /\ j - j + 1 = 1 /\ \A k \in j..j : h[k]
    BY <1>1
  <2> HIDE DEF j
  <2>2. Live(h, j, j) = j - j + 1
    BY <2>1, LiveAll
  <2> QED BY <2>1, <2>2 DEF j
<1>4. Live(h, i + 2, n + 1) = Live(f, i + 1, n)
  <2> DEFINE b == i + 2
             e == n + 1
             o == -1
  <2>1. Shifted(h, f, b, e, o)
    BY <1>1 DEF Shifted
  <2>2. b + o = i + 1 /\ e + o = n
    BY <1>1
  <2> HIDE DEF b, e, o
  <2>3. Live(h, b, e) = Live(f, i + 1, n)
    BY <2>1, <2>2, LiveShift
  <2> QED BY <2>3 DEF b, e
<1>5. Live(h, 1, n + 1) = Live(h, 1, i) + Live(h, i + 1, i + 1) + Live(h, i + 2, n + 1)
  <2> DEFINE k == i + 1
             l == i + 2
             j == n + 1
  <2>0. k = i + 1 /\ l = i + 2 /\ j = n + 1
    OBVIOUS
  <2>1. /\ 1 \in Int /\ j \in Int /\ k \in 1..j + 1 /\ k \in Int /\ k - 1 = i /\ i \in Int
        /\ l \in k..j + 1 /\ l - 1 = k /\ l \in Int
    BY <1>1
  <2> HIDE DEF k, j, l
  <2>2. Live(h, 1, j) = Live(h, 1, k - 1) + Live(h, k, j)
    BY <2>1, LiveSplit
  <2>3. Live(h, k, j) = Live(h, k, l - 1) + Live(h, l, j)
    BY <2>1, LiveSplit
  <2>4. Live(h, 1, i) \in Nat /\ Live(h, k, k) \in Nat /\ Live(h, l, j) \in Nat
    BY <2>1, LiveCounts
  <2>5. Live(h, 1, j) = Live(h, 1, i) + Live(h, k, k) + Live(h, l, j)
    BY <2>1, <2>2, <2>3, <2>4
  <2> QED BY <2>0, <2>5
<1>6. Live(f, 1, n) = Live(f, 1, i) + Live(f, i + 1, n)
  <2> DEFINE k == i + 1
  <2>1. 1 \in Int /\ n \in Int /\ k \in 1..n + 1 /\ k - 1 = i
    BY <1>1
  <2> HIDE DEF k
  <2>2. Live(f, 1, n) = Live(f, 1, k - 1) + Live(f, k, n)
    BY <2>1, LiveSplit
  <2>3. Live(f, 1, n) = Live(f, 1, i) + Live(f, k, n)
    BY <2>1, <2>2
  <2> QED BY <2>3 DEF k
<1>7. Live(f, 1, i) \in Nat /\ Live(f, i + 1, n) \in Nat
  <2>1. 1 \in Int /\ i \in Int /\ i + 1 \in Int /\ n \in Int
    BY <1>1
  <2> QED BY <2>1, LiveCounts
<1>8. Live(h, 1, n + 1) = Live(f, 1, n) + 1
  BY <1>2, <1>3, <1>4, <1>5, <1>6, <1>7
<1> QED BY <1>1, <1>8 DEF n

(* The new node is behind the sweep. *)
LEMMA EnterBehind ==
  ASSUME NEW f, NEW h, Len(f) \in Nat, NEW i \in 0..Len(f),
         Connected(h, f, i), NEW g \in 1..Len(f) + 1, i + 1 <= g,
         Spare(f, g, 2)
  PROVE  Early(h, g + 1, 0) \/ Late(h, g + 1, 0)
<1> DEFINE n == Len(f)
           M == MaxConnected
<1>1. /\ n \in Nat /\ i \in Nat /\ i <= n /\ Len(h) = n + 1 /\ g \in Nat /\ M \in Nat
      /\ M # 0 /\ g <= n + 1 /\ 1 <= g
      /\ \A j \in i + 2..n + 1 : h[j] = f[j - 1]
  <2>1. Len(f) \in Nat /\ i \in 0..Len(f)
    OBVIOUS
  <2>2. /\ Len(h) = Len(f) + 1
        /\ \A j \in 1..i : h[j] = f[j]
        /\ h[i + 1]
        /\ \A j \in i + 2..Len(f) + 1 : h[j] = f[j - 1]
    BY <2>1, EnteredNode
  <2> QED BY <2>1, <2>2, GarbageCollectorAssumption
<1>2. ASSUME NEW j \in g - 1..n
      PROVE  Live(h, g + 1, j + 1) = Live(f, g, j)
  <2> DEFINE b == g + 1
             e == j + 1
             o == -1
  <2>1. Shifted(h, f, b, e, o)
    <3>1. b \in Int /\ e \in Int /\ o \in Int
      BY <1>1
    <3>2. \A m \in b..e : h[m] = f[m + o]
      <4> TAKE m \in b..e
      <4>1. m \in i + 2..n + 1 /\ m + o = m - 1
        BY <1>1
      <4> HIDE DEF b, e, o, n
      <4> QED BY <1>1, <4>1
    <3> QED BY <3>1, <3>2 DEF Shifted
  <2>2. b + o = g /\ e + o = j
    BY <1>1
  <2> HIDE DEF b, e, o
  <2>3. Live(h, b, e) = Live(f, g, j)
    BY <2>1, <2>2, LiveShift
  <2> QED BY <2>3 DEF b, e
<1>3. CASE Early(f, g, 2)
  <2>1. PICK k : EarlyAt(f, g, k, 2)
    BY <1>3 DEF Early
  <2> DEFINE x == Live(f, g, k - 1)
             l == k + 1
  <2>2. /\ k \in g..n + 1 /\ k - g <= 4 * M
        /\ 2 * (g - 1 + x + n + 1 - k) + (k - g) <= 6 * M - 2
    BY <2>1 DEF EarlyAt
  <2>3. x \in Nat
    <3>1. g \in Int /\ k - 1 \in Int
      BY <1>1, <2>2
    <3> QED BY <3>1, LiveCounts
  <2>4. Live(h, g + 1, l - 1) = x
    <3>1. k - 1 \in g - 1..n /\ l - 1 = k /\ k - 1 + 1 = k
      BY <1>1, <2>2
    <3> HIDE DEF l
    <3> QED BY <1>2, <3>1
  <2> HIDE DEF n, M, x
  <2>5. /\ l \in g + 1..Len(h) + 1 /\ l - (g + 1) <= 4 * M
        /\ 2 * (g + 1 - 1 + x + Len(h) + 1 - l) + (l - (g + 1)) <= 6 * M - 0
    BY <1>1, <2>2, <2>3
  <2> HIDE DEF l
  <2>6. EarlyAt(h, g + 1, l, 0)
    BY <2>4, <2>5 DEF EarlyAt, M
  <2> QED BY <2>5, <2>6 DEF Early
<1>4. Live(h, g + 1, n + 1) = Live(f, g, n)
  <2>1. n \in g - 1..n
    BY <1>1
  <2> QED BY <1>2, <2>1
<1>5. Late(f, g, 1) => Late(h, g + 1, 0)
  <2>1. Live(f, g, n) \in Nat
    <3>1. g \in Int /\ n \in Int
      BY <1>1
    <3> QED BY <3>1, LiveCounts
  <2>2. ASSUME n + Live(f, g, n) <= 4 * M - 1
        PROVE  Len(h) + Live(h, g + 1, Len(h)) <= 4 * M - 0
    <3>1. n + 1 + Live(f, g, n) <= 4 * M - 0
      <4> HIDE DEF n, M
      <4> QED BY <1>1, <2>1, <2>2
    <3> QED BY <1>1, <1>4, <3>1
  <2> QED BY <2>2 DEF Late
<1>6. CASE Late(f, g, 2)
  <2>1. g \in Nat /\ 2 \in Nat /\ 1 \in Nat /\ 1 <= 2
    BY <1>1
  <2>2. Late(f, g, 1)
    BY <1>6, <2>1, LateWeaker
  <2> QED BY <1>5, <2>2
<1> QED BY <1>3, <1>5, <1>6 DEF Spare

(* The new node is the last one, the sweep has not got to the end. *)
LEMMA EnterLast ==
  ASSUME NEW f, NEW h, Len(f) \in Nat,
         Connected(h, f, Len(f)), NEW g \in 1..Len(f),
         Spare(f, g, 2)
  PROVE  Early(h, g, 0) \/ Late(h, g, 0)
<1> DEFINE n == Len(f)
           M == MaxConnected
<1>1. /\ n \in Nat /\ Len(h) = n + 1 /\ g \in Nat /\ M \in Nat
      /\ M # 0 /\ g <= n /\ 1 <= g
      /\ \A j \in 1..n : h[j] = f[j]
  <2>1. Len(f) \in Nat /\ Len(f) \in 0..Len(f)
    OBVIOUS
  <2>2. /\ Len(h) = Len(f) + 1
        /\ \A j \in 1..Len(f) : h[j] = f[j]
        /\ h[Len(f) + 1]
        /\ \A j \in Len(f) + 2..Len(f) + 1 : h[j] = f[j - 1]
    BY <2>1, EnteredNode
  <2> QED BY <2>1, <2>2, GarbageCollectorAssumption
<1>2. ASSUME NEW j \in g - 1..n
      PROVE  Live(h, g, j) = Live(f, g, j)
  <2>1. g \in Int /\ j \in Int /\ \A m \in g..j : h[m] = f[m]
    BY <1>1
  <2> QED BY <2>1, LiveSame
<1>3. CASE Early(f, g, 2)
  <2>1. PICK k : EarlyAt(f, g, k, 2)
    BY <1>3 DEF Early
  <2> DEFINE x == Live(f, g, k - 1)
  <2>2. /\ k \in g..n + 1 /\ k - g <= 4 * M
        /\ 2 * (g - 1 + x + n + 1 - k) + (k - g) <= 6 * M - 2
    BY <2>1 DEF EarlyAt
  <2>3. x \in Nat
    <3>1. g \in Int /\ k - 1 \in Int
      BY <1>1, <2>2
    <3> QED BY <3>1, LiveCounts
  <2>4. Live(h, g, k - 1) = x
    <3>1. k - 1 \in g - 1..n
      BY <1>1, <2>2
    <3> QED BY <1>2, <3>1
  <2> HIDE DEF n, M, x
  <2>5. /\ k \in g..Len(h) + 1 /\ k - g <= 4 * M
        /\ 2 * (g - 1 + x + Len(h) + 1 - k) + (k - g) <= 6 * M - 0
    BY <1>1, <2>2, <2>3
  <2>6. EarlyAt(h, g, k, 0)
    BY <2>4, <2>5 DEF EarlyAt, M
  <2> QED BY <2>5, <2>6 DEF Early
<1>4. CASE Late(f, g, 2)
  <2>1. Live(f, g, n) \in Nat /\ Live(h, g, n) = Live(f, g, n)
    <3>1. g \in Int /\ n \in Int /\ n \in g - 1..n
      BY <1>1
    <3> QED BY <1>2, <3>1, LiveCounts
  <2>2. Live(h, g, n + 1) = Live(h, g, n) + Live(h, n + 1, n + 1)
    <3> DEFINE j == n + 1
    <3>1. g \in Int /\ j \in Int /\ j \in g..j + 1 /\ j - 1 = n
      BY <1>1
    <3> HIDE DEF j
    <3>2. Live(h, g, j) = Live(h, g, j - 1) + Live(h, j, j)
      BY <3>1, LiveSplit
    <3>3. Live(h, g, j) = Live(h, g, n) + Live(h, j, j)
      BY <3>1, <3>2
    <3> QED BY <3>3 DEF j
  <2>3. Live(h, n + 1, n + 1) \in Nat /\ Live(h, n + 1, n + 1) <= 1
    <3> DEFINE j == n + 1
    <3>1. j \in Int /\ j <= j + 1 /\ j - j + 1 = 1
      BY <1>1
    <3> HIDE DEF j
    <3>2. Live(h, j, j) \in Nat /\ Live(h, j, j) <= j - j + 1
      BY <3>1, LiveCounts
    <3> QED BY <3>1, <3>2 DEF j
  <2>4. n + Live(f, g, n) <= 4 * M - 2
    BY <1>4 DEF Late
  <2> HIDE DEF n, M
  <2>5. n + 1 + Live(h, g, n + 1) <= 4 * M - 0
    BY <1>1, <2>1, <2>2, <2>3, <2>4
  <2> QED BY <1>1, <2>5 DEF Late, M
<1>5. ~(g = Len(f) + 1)
  BY <1>1
<1> QED BY <1>3, <1>4, <1>5 DEF Spare

-----------------------------------------------------------------------------
(* The steps.                                                                *)

LEMMA FullSweepRoom ==
  ASSUME TypeOK, Live(flags, 1, Len(flags)) <= MaxConnected
  PROVE  /\ Likewise(FullSweep.list, FullSweep.gc, flags)
         /\ Early(FullSweep.list, FullSweep.gc, 2)
<1> DEFINE l == Live(flags, 1, Len(flags))
           h == Kept(flags)
           g == Len(Kept(flags)) + 1
<1>1. flags \in Seq(BOOLEAN) /\ MaxConnected \in Nat /\ MaxConnected # 0
  BY GarbageCollectorAssumption DEF TypeOK
<1>2. h \in Seq(BOOLEAN) /\ Len(h) = l /\ \A i \in 1..l : h[i] = TRUE
  BY <1>1, KeptElements
<1>3. l \in Nat /\ l <= MaxConnected
  <2>1. 1 \in Int /\ Len(flags) \in Int
    BY <1>1
  <2> QED BY <2>1, LiveCounts
<1>4. FullSweep.list = h /\ FullSweep.gc = g /\ g = l + 1
  BY <1>2 DEF FullSweep
<1> HIDE DEF h, g, l
<1>5. Live(h, 1, l) = l
  <2>1. 1 \in Int /\ l \in Int /\ 1 <= l + 1 /\ l - 1 + 1 = l /\ \A i \in 1..l : h[i]
    BY <1>2, <1>3
  <2>2. Live(h, 1, l) = l - 1 + 1
    BY <2>1, LiveAll
  <2> QED BY <2>1, <2>2
<1>6. Likewise(h, g, flags)
  BY <1>2, <1>3, <1>4, <1>5 DEF Likewise, l
<1>7. Live(h, g, g - 1) = 0
  <2>1. g \in Int /\ g - 1 \in Int /\ g - 1 < g
    BY <1>3, <1>4
  <2> QED BY <2>1, LiveCounts
<1>8. /\ g \in g..Len(h) + 1 /\ g - g <= 4 * MaxConnected
      /\ 2 * (g - 1 + 0 + Len(h) + 1 - g) + (g - g) <= 6 * MaxConnected - 2
  BY <1>1, <1>2, <1>3, <1>4
<1>9. EarlyAt(h, g, g, 2)
  BY <1>7, <1>8 DEF EarlyAt
<1> QED BY <1>4, <1>6, <1>8, <1>9 DEF Early

LEMMA MadeUniqueRoom ==
  ASSUME CollectorInv
  PROVE  /\ Likewise(MadeUnique.list, MadeUnique.gc, flags)
         /\ ~Grouped => Spare(MadeUnique.list, MadeUnique.gc, 2)
<1>1. CASE reading
  BY <1>1, FullSweepRoom DEF MadeUnique, Spare, CollectorInv
<1>2. CASE ~reading
  <2>1. MadeUnique = Sweep(2)
    BY <1>2 DEF MadeUnique
  <2>2. TypeOK /\ 2 \in Nat
    BY DEF CollectorInv
  <2>3. Likewise(Sweep(2).list, Sweep(2).gc, flags)
    BY <2>2, SweepType
  <2>4. ~Grouped => Spare(Sweep(2).list, Sweep(2).gc, 2)
    <3>1. MakesRoom(2, 2)
      BY DEF MakesRoom
    <3> QED BY <3>1, SweepRoom DEF CollectorInv
  <2> QED BY <2>1, <2>3, <2>4
<1> QED BY <1>1, <1>2 DEF CollectorInv, TypeOK

LEMMA ConnectKeeps ==
  ASSUME CollectorInv, NEW i \in 1..Len(flags) + 1, Connect(i)
  PROVE  CollectorInv'
<1> DEFINE h == MadeUnique.list
           g == MadeUnique.gc
           f == flags'
<1>1. Likewise(h, g, flags) /\ (~Grouped => Spare(h, g, 2))
  BY MadeUniqueRoom
<1>2. /\ Len(Kept(flags)) < MaxConnected
      /\ i \in Places(h)
      /\ f = SubSeq(h, 1, i - 1) \o <<TRUE>> \o SubSeq(h, i, Len(h))
      /\ gc' = IF i <= g THEN g + 1 ELSE g
      /\ reading' = FALSE
  BY DEF Connect
<1> HIDE DEF h, g
<1>3. /\ h \in Seq(BOOLEAN) /\ g \in 1..Len(h) + 1 /\ Len(h) \in Nat
      /\ Live(h, 1, Len(h)) = Live(flags, 1, Len(flags))
  BY <1>1 DEF Likewise
<1>4. i \in 1..Len(h) + 1 /\ (~Grouped => i = 1 \/ i = Len(h) + 1)
  BY <1>2, <1>3 DEF Places
<1> DEFINE j == i - 1
<1>5. j \in 0..Len(h) /\ j + 1 = i
  BY <1>3, <1>4
<1>6. f \in Seq(BOOLEAN) /\ Entered(f, h, TRUE, j)
  <2>1. f = SubSeq(h, 1, j) \o <<TRUE>> \o SubSeq(h, j + 1, Len(h))
    BY <1>2, <1>5
  <2>2. TRUE \in BOOLEAN
    OBVIOUS
  <2> HIDE DEF j, f
  <2> QED BY <1>3, <1>5, <2>1, <2>2, InsertedElements
<1>7. Connected(f, h, j) /\ Len(f) = Len(h) + 1
  BY <1>6 DEF Connected, Entered
<1> HIDE DEF f, j
<1>8. Live(f, 1, Len(f)) <= MaxConnected
  <2>1. Live(f, 1, Len(f)) = Live(h, 1, Len(h)) + 1
    BY <1>3, <1>5, <1>7, EnterLive
  <2>2. Len(Kept(flags)) = Live(flags, 1, Len(flags))
    BY KeptElements DEF CollectorInv, TypeOK
  <2>3. Live(flags, 1, Len(flags)) \in Nat
    <3>1. 1 \in Int /\ Len(flags) \in Int
      BY DEF CollectorInv, TypeOK
    <3> QED BY <3>1, LiveCounts
  <2> DEFINE x == Live(flags, 1, Len(flags))
             y == Live(f, 1, Len(f))
  <2>4. x < MaxConnected /\ y = x + 1 /\ x \in Nat
    BY <1>2, <1>3, <2>1, <2>2, <2>3
  <2> HIDE DEF x, y
  <2>5. y <= MaxConnected
    BY <2>4, GarbageCollectorAssumption
  <2> QED BY <2>5 DEF y
<1>9. gc' \in 1..Len(f) + 1
  <2>1. gc' = g + 1 \/ gc' = g
    BY <1>2
  <2> QED BY <1>3, <1>7, <2>1
<1>10. ASSUME ~Grouped
       PROVE  Early(f, gc', 0) \/ Late(f, gc', 0)
  <2>1. CASE i <= g
    <3>1. j + 1 <= g
      BY <1>5, <2>1
    <3>2. Early(f, g + 1, 0) \/ Late(f, g + 1, 0)
      BY <1>1, <1>3, <1>5, <1>7, <1>10, <3>1, EnterBehind
    <3> QED BY <1>2, <2>1, <3>2
  <2>2. CASE ~(i <= g)
    <3>1. i = Len(h) + 1 /\ j = Len(h) /\ g \in 1..Len(h)
      BY <1>3, <1>4, <1>5, <1>10, <2>2
    <3>2. Connected(f, h, Len(h))
      BY <1>7, <3>1
    <3>3. Early(f, g, 0) \/ Late(f, g, 0)
      BY <1>1, <1>3, <1>10, <3>1, <3>2, EnterLast
    <3> QED BY <1>2, <2>2, <3>3
  <2> QED BY <2>1, <2>2
<1>11. TypeOK'
  BY <1>2, <1>6, <1>9 DEF TypeOK, f
<1> QED BY <1>8, <1>10, <1>11 DEF CollectorInv, f

LEMMA DisconnectKeeps ==
  ASSUME CollectorInv, NEW i \in 1..Len(flags), Disconnect(i)
  PROVE  CollectorInv'
<1> DEFINE n == Len(flags)
           h == flags'
<1>1. /\ flags \in Seq(BOOLEAN) /\ n \in Nat /\ gc \in 1..n + 1 /\ reading \in BOOLEAN
      /\ MaxConnected \in Nat /\ Live(flags, 1, n) <= MaxConnected
  BY GarbageCollectorAssumption DEF CollectorInv, TypeOK
<1>2. /\ h \in Seq(BOOLEAN) /\ Len(h) = n /\ gc' = gc /\ reading' = reading
      /\ \A k \in 1..n : h[k] => flags[k]
  BY <1>1 DEF Disconnect
<1> HIDE DEF h, n
<1>3. ASSUME NEW a \in 1..n + 1, NEW b \in 0..n
      PROVE  /\ Live(h, a, b) <= Live(flags, a, b)
             /\ Live(h, a, b) \in Nat /\ Live(flags, a, b) \in Nat
  <2>1. a \in Int /\ b \in Int /\ \A k \in a..b : h[k] => flags[k]
    BY <1>1, <1>2
  <2> QED BY <2>1, LiveLess, LiveCounts
<1>4. Live(h, 1, n) <= MaxConnected
  <2>1. 1 \in 1..n + 1 /\ n \in 0..n
    BY <1>1
  <2>2. /\ Live(h, 1, n) <= Live(flags, 1, n)
        /\ Live(h, 1, n) \in Nat /\ Live(flags, 1, n) \in Nat
    BY <1>3, <2>1
  <2> QED BY <1>1, <2>2
<1>5. ASSUME Early(flags, gc, 0)
      PROVE  Early(h, gc, 0)
  <2>1. PICK k \in gc..n + 1 : EarlyAt(flags, gc, k, 0)
    BY <1>5 DEF Early, n
  <2> DEFINE x == Live(flags, gc, k - 1)
             y == Live(h, gc, k - 1)
  <2>2. /\ k \in gc..n + 1 /\ k - gc <= 4 * MaxConnected
        /\ 2 * (gc - 1 + x + n + 1 - k) + (k - gc) <= 6 * MaxConnected - 0
    BY <2>1 DEF EarlyAt, n
  <2>3. x \in Nat /\ y \in Nat /\ y <= x
    <3>1. k - 1 \in 0..n
      BY <1>1, <2>2
    <3> QED BY <1>1, <1>3, <3>1
  <2> HIDE DEF x, y
  <2>4. 2 * (gc - 1 + y + n + 1 - k) + (k - gc) <= 6 * MaxConnected - 0
    BY <1>1, <2>2, <2>3
  <2>5. EarlyAt(h, gc, k, 0)
    BY <1>2, <2>2, <2>4 DEF EarlyAt, y
  <2> QED BY <1>2, <2>2, <2>5 DEF Early
<1>6. ASSUME Late(flags, gc, 0)
      PROVE  Late(h, gc, 0)
  <2>1. /\ Live(h, gc, n) <= Live(flags, gc, n)
        /\ Live(h, gc, n) \in Nat /\ Live(flags, gc, n) \in Nat
    <3>1. n \in 0..n
      BY <1>1
    <3> QED BY <1>1, <1>3, <3>1
  <2>2. n + Live(flags, gc, n) <= 4 * MaxConnected - 0
    BY <1>6 DEF Late, n
  <2>3. n + Live(h, gc, n) <= 4 * MaxConnected - 0
    BY <1>1, <2>1, <2>2
  <2> QED BY <1>2, <2>3 DEF Late
<1>7. TypeOK'
  BY <1>1, <1>2 DEF TypeOK, h
<1> QED BY <1>2, <1>4, <1>5, <1>6, <1>7 DEF CollectorInv, h

LEMMA InvokeKeeps ==
  ASSUME CollectorInv, Invoke
  PROVE  CollectorInv'
<1>1. CASE reading
  <2>1. flags' = flags /\ gc' = gc /\ reading' = TRUE
    BY <1>1 DEF Invoke
  <2> QED BY <2>1 DEF CollectorInv, TypeOK
<1>2. CASE ~reading
  <2>1. flags' = Sweep(1).list /\ gc' = Sweep(1).gc /\ reading' = TRUE
    BY <1>2 DEF Invoke
  <2>2. Likewise(Sweep(1).list, Sweep(1).gc, flags)
    BY SweepType DEF CollectorInv
  <2>3. ~Grouped => Spare(Sweep(1).list, Sweep(1).gc, 0)
    <3>1. MakesRoom(1, 0)
      BY DEF MakesRoom
    <3> QED BY <3>1, SweepRoom DEF CollectorInv
  <2> DEFINE h == flags'
             g == gc'
  <2>4. Likewise(h, g, flags) /\ (~Grouped => Spare(h, g, 0))
    BY <2>1, <2>2, <2>3
  <2> HIDE DEF h, g
  <2>5. /\ h \in Seq(BOOLEAN) /\ g \in 1..Len(h) + 1
        /\ Live(h, 1, Len(h)) = Live(flags, 1, Len(flags))
    BY <2>4 DEF Likewise
  <2>6. ~Grouped => Early(h, g, 0) \/ Late(h, g, 0)
    <3>1. ASSUME Late(h, g, 1)
          PROVE  Late(h, g, 0)
      <4>1. Len(h) \in Nat /\ g \in Nat /\ 1 \in Nat /\ 0 \in Nat /\ 0 <= 1
        BY <2>5
      <4> QED BY <3>1, <4>1, LateWeaker
    <3> QED BY <2>4, <3>1 DEF Spare
  <2>7. TypeOK'
    BY <2>1, <2>5 DEF TypeOK, h, g
  <2> QED BY <2>5, <2>6, <2>7 DEF CollectorInv, h, g
<1> QED BY <1>1, <1>2 DEF CollectorInv, TypeOK

LEMMA ForceCleanupKeeps ==
  ASSUME CollectorInv, ForceCleanup
  PROVE  CollectorInv'
<1> DEFINE h == flags'
           g == gc'
<1>1. h = FullSweep.list /\ g = FullSweep.gc /\ reading' = FALSE
  BY DEF ForceCleanup
<1>2. Likewise(h, g, flags) /\ Early(h, g, 2)
  BY <1>1, FullSweepRoom DEF CollectorInv
<1> HIDE DEF h, g
<1>3. /\ h \in Seq(BOOLEAN) /\ g \in 1..Len(h) + 1
      /\ Live(h, 1, Len(h)) = Live(flags, 1, Len(flags))
  BY <1>2 DEF Likewise
<1>4. Early(h, g, 0)
  <2>1. PICK k \in g..Len(h) + 1 : EarlyAt(h, g, k, 2)
    BY <1>2 DEF Early
  <2> DEFINE x == Live(h, g, k - 1)
  <2>2. /\ k \in g..Len(h) + 1 /\ k - g <= 4 * MaxConnected
        /\ 2 * (g - 1 + x + Len(h) + 1 - k) + (k - g) <= 6 * MaxConnected - 2
    BY <2>1 DEF EarlyAt
  <2>3. x \in Nat
    <3>1. g \in Int /\ k - 1 \in Int
      BY <1>3, <2>2
    <3> QED BY <3>1, LiveCounts
  <2> HIDE DEF x
  <2>4. 2 * (g - 1 + x + Len(h) + 1 - k) + (k - g) <= 6 * MaxConnected - 0
    BY <1>3, <2>2, <2>3, GarbageCollectorAssumption
  <2>5. EarlyAt(h, g, k, 0)
    BY <2>2, <2>4 DEF EarlyAt, x
  <2> QED BY <2>2, <2>5 DEF Early
<1>5. TypeOK'
  BY <1>1, <1>3 DEF TypeOK, h, g
<1> QED BY <1>3, <1>4, <1>5 DEF CollectorInv, h, g

LEMMA CollectorStart ==
  ASSUME CollectorInit
  PROVE  CollectorInv
<1>1. flags = << >> /\ gc = 1 /\ reading = FALSE /\ Len(flags) = 0 /\ flags \in Seq(BOOLEAN)
  BY DEF CollectorInit
<1>2. Live(flags, 1, 0) = 0
  <2>1. 1 \in Int /\ 0 \in Int /\ 0 < 1
    OBVIOUS
  <2> QED BY <2>1, LiveCounts
<1>3. MaxConnected \in Nat /\ 0 <= MaxConnected /\ 0 + 0 <= 4 * MaxConnected - 0
  BY GarbageCollectorAssumption
<1>4. Live(flags, 1, Len(flags)) <= MaxConnected
  BY <1>1, <1>2, <1>3
<1>5. Late(flags, gc, 0)
  BY <1>1, <1>2, <1>3 DEF Late
<1>6. TypeOK
  <2>1. gc \in 1..Len(flags) + 1 /\ flags \in Seq(BOOLEAN)
    BY <1>1
  <2>2. reading \in BOOLEAN
    BY <1>1
  <2> QED BY <2>1, <2>2 DEF TypeOK
<1> QED BY <1>4, <1>5, <1>6 DEF CollectorInv

LEMMA CollectorStep ==
  ASSUME CollectorInv, [CollectorNext]_collectorVars
  PROVE  CollectorInv'
<1>1. CASE \E i \in 1..Len(flags) + 1 : Connect(i)
  BY <1>1, ConnectKeeps
<1>2. CASE \E i \in 1..Len(flags) : Disconnect(i)
  BY <1>2, DisconnectKeeps
<1>3. CASE Invoke
  BY <1>3, InvokeKeeps
<1>4. CASE DoneReading
  <2>1. flags' = flags /\ gc' = gc /\ reading' = FALSE
    BY <1>4 DEF DoneReading
  <2> QED BY <2>1 DEF CollectorInv, TypeOK
<1>5. CASE ForceCleanup
  BY <1>5, ForceCleanupKeeps
<1>6. CASE UNCHANGED collectorVars
  BY <1>6 DEF collectorVars, CollectorInv, TypeOK
<1> QED BY <1>1, <1>2, <1>3, <1>4, <1>5, <1>6 DEF CollectorNext

(* While the sweep is early, the list is what it may become at most, and one *)
(* node for every two that the sweep has still to pass.                      *)
LEMMA CollectorBound ==
  ASSUME CollectorInv, ~Grouped, 5 * MaxConnected <= Limit
  PROVE  ListBounded
<1> DEFINE n == Len(flags)
<1>1. /\ n \in Nat /\ gc \in 1..n + 1 /\ MaxConnected \in Nat /\ Limit \in Nat
      /\ 5 * MaxConnected <= Limit
  BY GarbageCollectorAssumption DEF CollectorInv, TypeOK
<1>2. ASSUME Early(flags, gc, 0)
      PROVE  n <= Limit
  <2>1. PICK k \in gc..n + 1 : EarlyAt(flags, gc, k, 0)
    BY <1>2 DEF Early
  <2> DEFINE x == Live(flags, gc, k - 1)
  <2>2. /\ k \in gc..n + 1 /\ k - gc <= 4 * MaxConnected
        /\ 2 * (gc - 1 + x + n + 1 - k) + (k - gc) <= 6 * MaxConnected - 0
    BY <2>1 DEF EarlyAt
  <2>3. x \in Nat
    <3>1. gc \in Int /\ k - 1 \in Int
      BY <1>1, <2>2
    <3> QED BY <3>1, LiveCounts
  <2> HIDE DEF x, n
  <2> QED BY <1>1, <2>2, <2>3
<1>3. ASSUME Late(flags, gc, 0)
      PROVE  n <= Limit
  <2>1. Live(flags, gc, n) \in Nat
    <3>1. gc \in Int /\ n \in Int
      BY <1>1
    <3> QED BY <3>1, LiveCounts
  <2>2. n + Live(flags, gc, n) <= 4 * MaxConnected - 0
    BY <1>3 DEF Late
  <2> HIDE DEF n
  <2> QED BY <1>1, <2>1, <2>2
<1> QED BY <1>2, <1>3 DEF CollectorInv, ListBounded

(* The collector's iterator always points into the list or at its end,       *)
(* however many nodes a sweep erases before and after it, and wherever a new *)
(* node enters.                                                              *)
THEOREM CollectorTypes == CollectorSpec => []TypeOK
<1>1. CollectorInit => CollectorInv
  BY CollectorStart
<1>2. CollectorInv /\ [CollectorNext]_collectorVars => CollectorInv'
  BY CollectorStep
<1>3. CollectorInv => TypeOK
  BY DEF CollectorInv
<1> QED BY <1>1, <1>2, <1>3, PTL DEF CollectorSpec

(* "avoid corner cases where certain repeated connect/disconnect patterns    *)
(* cause the slot list to grow without limit": as long as slots connect to   *)
(* no group, no pattern of calls lets the list grow beyond five times the    *)
(* slots connected at once.                                                  *)
THEOREM CollectorBounds ==
  ASSUME ~Grouped, 5 * MaxConnected <= Limit
  PROVE  CollectorSpec => []ListBounded
<1>1. CollectorInit => CollectorInv
  BY CollectorStart
<1>2. CollectorInv /\ [CollectorNext]_collectorVars => CollectorInv'
  BY CollectorStep
<1>3. CollectorInv => ListBounded
  BY CollectorBound
<1> QED BY <1>1, <1>2, <1>3, PTL DEF CollectorSpec
=============================================================================
